-------------------------- MODULE FileBlocksProofs --------------------------
(***************************************************************************)
(* For every block size, every set of bytes and every file size limit, the *)
(* rows of the table `data` behave as a POSIX file.                        *)
(***************************************************************************)
EXTENDS FileBlocks, SequenceTheorems, TLAPS

(* An offset is the start of its block plus a remainder within it. *)
LEMMA DivMod ==
  ASSUME NEW x \in Nat
  PROVE  /\ x \div BlockSize \in Nat
         /\ x % BlockSize \in Nat /\ x % BlockSize < BlockSize
         /\ x = (x \div BlockSize) * BlockSize + (x % BlockSize)
<1>1. x \div BlockSize \in Int /\ x % BlockSize \in 0..(BlockSize - 1)
      /\ x = BlockSize * (x \div BlockSize) + (x % BlockSize)
  BY BlockSizeAssumption, SMT
<1>2. x \div BlockSize >= 0
  BY <1>1, BlockSizeAssumption, SMT
<1> QED BY <1>1, <1>2, BlockSizeAssumption

(* Blocks further on start further on, by a whole block at least. *)
LEMMA BlockOrder ==
  ASSUME NEW b \in Nat, NEW c \in Nat, b < c
  PROVE  b * BlockSize + BlockSize <= c * BlockSize
<1>1. c >= b + 1
  OBVIOUS
<1>2. c * BlockSize >= (b + 1) * BlockSize
  BY <1>1, BlockSizeAssumption, SMT
<1> QED BY <1>2, BlockSizeAssumption, SMT

(* The block of an offset within the file size limit is a block number. *)
LEMMA BlockOfByte ==
  ASSUME NEW x \in Nat, x <= MaxLen
  PROVE  x \div BlockSize \in BlockNos
<1> DEFINE b == x \div BlockSize
           c == MaxLen \div BlockSize
<1>1. /\ b \in Nat /\ b * BlockSize <= x
      /\ c \in Nat /\ MaxLen < c * BlockSize + BlockSize
  BY DivMod, MaxLenAssumption, BlockSizeAssumption
<1>2. ~(c < b)
  <2> SUFFICES ASSUME c < b PROVE FALSE
    OBVIOUS
  <2>1. c * BlockSize + BlockSize <= b * BlockSize
    BY <1>1, BlockOrder
  <2> HIDE DEF b, c
  <2>2. c * BlockSize \in Nat /\ b * BlockSize \in Nat
    BY <1>1, BlockSizeAssumption
  <2> QED BY <1>1, <2>1, <2>2, MaxLenAssumption, BlockSizeAssumption
<1> HIDE DEF b
<1> QED BY <1>1, <1>2 DEF BlockNos, b

(* The range of BlockNos. *)
LEMMA BlockNosFact == BlockNos \subseteq Nat
<1>1. MaxLen \div BlockSize \in Nat
  BY DivMod, MaxLenAssumption
<1> QED BY <1>1 DEF BlockNos

(* A row after a write: its length, and its bytes one by one. *)
LEMMA PatchedFact ==
  ASSUME TypeOK, NEW b \in BlockNos, NEW off \in Nat, NEW d \in Seq(Byte)
  PROVE  LET first == b * BlockSize
             end == off + Len(d)
             new == Patched(b, off, d)
         IN  /\ new \in Seq(Byte) /\ Len(new) <= BlockSize
             /\ \/ new = data[b]
                \/ Len(new) = Len(data[b])
                \/ first + Len(new) <= end
             /\ \A k \in 1..BlockSize :
                  IF off < first + k /\ first + k <= end
                  THEN k <= Len(new) /\ new[k] = d[first + k - off]
                  ELSE (IF k <= Len(new) THEN new[k] ELSE 0)
                         = (IF k <= Len(data[b]) THEN data[b][k] ELSE 0)
<1> DEFINE first == b * BlockSize
           end == off + Len(d)
           old == data[b]
           need == IF end < first + BlockSize THEN end - first ELSE BlockSize
           len == IF Len(old) < need THEN need ELSE Len(old)
           new == Patched(b, off, d)
           Val(k) == IF off < first + k /\ first + k <= end THEN d[first + k - off]
                     ELSE IF k <= Len(old) THEN old[k] ELSE 0
<1>1. first \in Nat /\ end \in Nat /\ Len(d) \in Nat /\ BlockSize \in Nat \ {0}
  BY BlockNosFact, BlockSizeAssumption
<1>2. old \in Seq(Byte) /\ Len(old) \in Nat /\ Len(old) <= BlockSize
  BY DEF TypeOK
<1>3. \A k \in 1..Len(old) : old[k] \in Byte
  BY <1>2
<1>4. \A k \in 1..Len(d) : d[k] \in Byte
  OBVIOUS
<1>5. CASE end <= first \/ off >= first + BlockSize
  <2>1. new = old
    BY <1>5 DEF Patched
  <2> HIDE DEF new, old, first, end
  <2>2. \A k \in 1..BlockSize : ~(off < first + k /\ first + k <= end)
    BY <1>1, <1>5
  <2> QED BY <1>2, <2>1, <2>2 DEF new, old, first, end
<1>6. CASE ~(end <= first \/ off >= first + BlockSize)
  <2>1. new = [k \in 1..len |-> Val(k)]
    BY <1>6 DEF Patched
  <2> HIDE DEF first
  <2>2. need \in 1..BlockSize /\ len \in 1..BlockSize /\ need <= len
        /\ (len = Len(old) \/ len = need) /\ first + need <= end
    BY <1>1, <1>2, <1>6
  <2>3. \A k \in 1..len : Val(k) \in Byte
    <3> SUFFICES ASSUME NEW k \in 1..len PROVE Val(k) \in Byte
      OBVIOUS
    <3>1. CASE off < first + k /\ first + k <= end
      <4>1. first + k - off \in 1..Len(d)
        BY <1>1, <2>2, <3>1
      <4> QED BY <1>4, <3>1, <4>1
    <3>2. CASE ~(off < first + k /\ first + k <= end)
      <4>1. k <= Len(old) => k \in 1..Len(old)
        BY <1>2, <2>2
      <4> QED BY <1>3, <3>2, <4>1, ByteAssumption
    <3> QED BY <3>1, <3>2
  <2> HIDE DEF need, old
  <2>4. len \in Nat
    BY <2>2
  <2> HIDE DEF len, end, new
  <2>5. new \in Seq(Byte) /\ Len(new) = len /\ \A k \in 1..len : new[k] = Val(k)
    <3> HIDE DEF Val
    <3> QED BY <2>1, <2>3, <2>4
  <2>6. Len(new) <= BlockSize /\ (Len(new) = Len(old) \/ first + Len(new) <= end)
    BY <1>1, <2>2, <2>5
  <2>7. ASSUME NEW k \in 1..BlockSize
        PROVE  IF off < first + k /\ first + k <= end
               THEN k <= Len(new) /\ new[k] = d[first + k - off]
               ELSE (IF k <= Len(new) THEN new[k] ELSE 0)
                      = (IF k <= Len(old) THEN old[k] ELSE 0)
    <3>1. CASE off < first + k /\ first + k <= end
      <4>1. k <= need
        BY <1>1, <3>1 DEF need
      <4>2. k \in 1..len
        BY <2>2, <2>4, <4>1, <1>1
      <4> QED BY <2>5, <3>1, <4>2
    <3>2. CASE ~(off < first + k /\ first + k <= end)
      <4>1. CASE k <= len
        BY <2>5, <3>2, <4>1, <2>4
      <4>2. CASE ~(k <= len)
        <5>1. ~(k <= Len(old))
          BY <1>2, <2>2, <2>4, <4>2 DEF len
        <5> QED BY <2>5, <3>2, <4>2, <5>1
      <4> QED BY <4>1, <4>2
    <3> QED BY <3>1, <3>2
  <2> QED BY <2>5, <2>6, <2>7 DEF new, old, end, first
<1> QED BY <1>5, <1>6

(* A row after a cut: a prefix of what it was, up to the new end. *)
LEMMA CutFact ==
  ASSUME TypeOK, NEW b \in BlockNos, NEW length \in Nat
  PROVE  LET first == b * BlockSize
             new == Cut(b, length)
         IN  /\ new \in Seq(Byte) /\ Len(new) <= BlockSize
             /\ new # <<>> => first + Len(new) <= length
             /\ \A k \in 1..BlockSize : first + k <= length =>
                  (IF k <= Len(new) THEN new[k] ELSE 0)
                    = (IF k <= Len(data[b]) THEN data[b][k] ELSE 0)
<1> DEFINE first == b * BlockSize
           old == data[b]
           last == length \div BlockSize
           lastOff == length % BlockSize
           keep == IF Len(old) < lastOff THEN Len(old) ELSE lastOff
           new == Cut(b, length)
<1>1. /\ b \in Nat /\ first \in Nat /\ BlockSize \in Nat \ {0}
      /\ last \in Nat /\ last * BlockSize \in Nat
      /\ lastOff \in Nat /\ lastOff < BlockSize /\ length = last * BlockSize + lastOff
  BY BlockNosFact, BlockSizeAssumption, DivMod
<1>2. old \in Seq(Byte) /\ Len(old) \in Nat /\ Len(old) <= BlockSize
  BY DEF TypeOK
<1>3. b < last => first + BlockSize <= last * BlockSize
  BY <1>1, BlockOrder
<1>4. b > last => last * BlockSize + BlockSize <= first
  BY <1>1, BlockOrder
<1>5. CASE b < last
  <2>1. new = old
    BY <1>5 DEF Cut
  <2> HIDE DEF new, old, first, last, lastOff
  <2> QED BY <1>1, <1>2, <1>3, <1>5, <2>1 DEF new, old, first
<1>6. CASE b = last /\ lastOff > 0
  <2>1. new = SubSeq(old, 1, keep)
    <3>1. ~(b < last)
      <4> HIDE DEF last
      <4> QED BY <1>1, <1>6
    <3> QED BY <1>6, <3>1, Zenon DEF Cut
  <2>2. keep \in 0..Len(old) /\ keep <= lastOff
        /\ (keep = Len(old) \/ keep = lastOff)
    BY <1>1, <1>2
  <2> HIDE DEF keep, old, first, last, lastOff, new
  <2>3. /\ new \in Seq(Byte) /\ Len(new) = keep
        /\ \A k \in 1..keep : new[k] = old[k]
    BY <1>2, <2>1, <2>2, SMT
  <2>4. first = last * BlockSize
    BY <1>6 DEF first
  <2>5. first + Len(new) <= length
    BY <1>1, <1>2, <2>2, <2>3, <2>4
  <2>6. ASSUME NEW k \in 1..BlockSize, first + k <= length
        PROVE  (IF k <= Len(new) THEN new[k] ELSE 0) = (IF k <= Len(old) THEN old[k] ELSE 0)
    <3>1. k <= lastOff
      BY <1>1, <2>4, <2>6
    <3>2. k <= keep <=> k <= Len(old)
      BY <1>1, <1>2, <2>2, <3>1
    <3> QED BY <1>1, <2>2, <2>3, <3>2
  <2> QED BY <1>1, <1>2, <2>2, <2>3, <2>5, <2>6 DEF new, old, first
<1>7. CASE b = last /\ ~(lastOff > 0)
  <2>1. new = <<>>
    BY <1>7 DEF Cut
  <2>2. \A k \in 1..BlockSize : ~(first + k <= length)
    BY <1>1, <1>7
  <2> HIDE DEF new, old, first, last, lastOff
  <2>3. new \in Seq(Byte) /\ Len(new) = 0
    BY <2>1
  <2> QED BY <1>1, <2>1, <2>2, <2>3 DEF new, old, first
<1>8. CASE b > last
  <2>1. new = <<>>
    BY <1>1, <1>8 DEF Cut
  <2>2. \A k \in 1..BlockSize : ~(first + k <= length)
    BY <1>1, <1>4, <1>8
  <2> HIDE DEF new, old, first, last, lastOff
  <2>3. new \in Seq(Byte) /\ Len(new) = 0
    BY <2>1
  <2> QED BY <1>1, <2>1, <2>2, <2>3 DEF new, old, first
<1> QED BY <1>1, <1>5, <1>6, <1>7, <1>8

-----------------------------------------------------------------------------
(* Types and the absence of stale bytes are inductive together. *)
Inv == TypeOK /\ NoStaleBytes

(* What an action is called with. *)
LEMMA PayloadFact ==
  ASSUME NEW d \in Payloads
  PROVE  d \in Seq(Byte) /\ Len(d) \in Nat \ {0}
<1>1. PICK n \in 1..MaxWrite : d \in [1..n -> Byte]
  BY DEF Payloads
<1>2. n \in Nat \ {0}
  BY MaxWriteAssumption
<1> QED BY <1>1, <1>2

LEMMA InvStep ==
  ASSUME Inv, [Next]_vars
  PROVE  Inv'
<1>1. ASSUME NEW off \in 0..MaxLen, NEW d \in Payloads, Write(off, d)
      PROVE  Inv'
  <2> DEFINE end == off + Len(d)
  <2>1. /\ off \in Nat /\ d \in Seq(Byte) /\ end \in 0..MaxLen
        /\ data' = [b \in BlockNos |-> Patched(b, off, d)]
        /\ size' = IF end > size THEN end ELSE size
        /\ size \in 0..MaxLen
    BY <1>1, PayloadFact, MaxLenAssumption DEF Write, Inv, TypeOK
  <2>2. size' \in 0..MaxLen /\ size <= size' /\ end <= size'
    BY <2>1, MaxLenAssumption
  <2>3. ASSUME NEW b \in BlockNos
        PROVE  /\ data'[b] \in Seq(Byte) /\ Len(data'[b]) <= BlockSize
               /\ data'[b] # <<>> => b * BlockSize + Len(data'[b]) <= size'
    <3> DEFINE first == b * BlockSize
               old == data[b]
               new == data'[b]
    <3>1. /\ new \in Seq(Byte) /\ Len(new) <= BlockSize
          /\ new = old \/ Len(new) = Len(old) \/ first + Len(new) <= end
      BY <2>1, PatchedFact DEF Inv
    <3>2. old \in Seq(Byte) /\ (old # <<>> => first + Len(old) <= size)
      BY DEF Inv, TypeOK, NoStaleBytes
    <3>3. first \in Nat
      BY BlockNosFact, BlockSizeAssumption
    <3> HIDE DEF first, old, new, end
    <3>4. new # <<>> => first + Len(new) <= size'
      <4>1. CASE first + Len(new) <= end
        BY <2>1, <2>2, <3>1, <3>3, <4>1, MaxLenAssumption
      <4>2. CASE Len(new) = Len(old)
        <5>1. new # <<>> => old # <<>>
          BY <3>1, <3>2, <4>2
        <5> QED BY <2>1, <2>2, <3>1, <3>2, <3>3, <4>2, <5>1, MaxLenAssumption
      <4> QED BY <3>1, <4>1, <4>2
    <3> QED BY <3>1, <3>4 DEF first, new
  <2> QED BY <2>1, <2>2, <2>3 DEF Inv, TypeOK, NoStaleBytes
<1>2. ASSUME NEW length \in 0..MaxLen, Truncate(length)
      PROVE  Inv'
  <2>1. /\ length \in Nat /\ size' = length
        /\ data' = [b \in BlockNos |-> Cut(b, length)]
    BY <1>2, MaxLenAssumption DEF Truncate
  <2>2. ASSUME NEW b \in BlockNos
        PROVE  /\ data'[b] \in Seq(Byte) /\ Len(data'[b]) <= BlockSize
               /\ data'[b] # <<>> => b * BlockSize + Len(data'[b]) <= size'
    BY <2>1, CutFact DEF Inv
  <2> QED BY <2>1, <2>2 DEF Inv, TypeOK, NoStaleBytes
<1>3. CASE UNCHANGED vars
  BY <1>3 DEF Inv, TypeOK, NoStaleBytes, vars
<1> QED BY <1>1, <1>2, <1>3 DEF Next

LEMMA InvInit == Init => Inv
<1>1. 0 \in 0..MaxLen
  BY MaxLenAssumption
<1>2. <<>> \in Seq(Byte) /\ Len(<<>>) <= BlockSize
  BY BlockSizeAssumption
<1> QED BY <1>1, <1>2 DEF Init, Inv, TypeOK, NoStaleBytes

LEMMA InvAlways == Spec => []Inv
<1>1. Inv /\ [Next]_vars => Inv'
  BY InvStep
<1> QED BY <1>1, InvInit, PTL DEF Spec

(* The rows are well formed and none is longer than a block. *)
THEOREM TypeCorrect == Spec => []TypeOK
<1>1. Inv => TypeOK
  BY DEF Inv
<1> QED BY <1>1, InvAlways, PTL

(* A file that was cut holds nothing a later growth could bring back. *)
THEOREM NothingStale == Spec => []NoStaleBytes
<1>1. Inv => NoStaleBytes
  BY DEF Inv
<1> QED BY <1>1, InvAlways, PTL

-----------------------------------------------------------------------------
(* read() in terms of the row an offset falls into. *)
LEMMA ByteAtFact ==
  ASSUME TypeOK, TypeOK', NEW x \in Nat, x < MaxLen
  PROVE  \E b \in BlockNos, k \in 1..BlockSize :
           /\ x + 1 = b * BlockSize + k
           /\ ByteAt(x) = IF k <= Len(data[b]) THEN data[b][k] ELSE 0
           /\ ByteAt(x)' = IF k <= Len(data'[b]) THEN data'[b][k] ELSE 0
<1> DEFINE b == x \div BlockSize
           r == x % BlockSize
<1>1. /\ b \in BlockNos /\ r \in Nat /\ r < BlockSize /\ x = b * BlockSize + r
  BY DivMod, BlockOfByte, MaxLenAssumption
<1>2. b * BlockSize \in Nat /\ BlockSize \in Nat
  BY <1>1, BlockNosFact, BlockSizeAssumption
<1>3. /\ ByteAt(x) = IF r < Len(data[b]) THEN data[b][r + 1] ELSE 0
      /\ ByteAt(x)' = IF r < Len(data'[b]) THEN data'[b][r + 1] ELSE 0
  BY DEF ByteAt
<1> HIDE DEF b, r
<1>4. r + 1 \in 1..BlockSize /\ x + 1 = b * BlockSize + (r + 1)
  BY <1>1, <1>2
<1>5. r < Len(data[b]) <=> r + 1 <= Len(data[b])
  BY <1>1 DEF TypeOK
<1>6. r < Len(data'[b]) <=> r + 1 <= Len(data'[b])
  BY <1>1 DEF TypeOK
<1> DEFINE k == r + 1
<1>7. /\ ByteAt(x) = IF k <= Len(data[b]) THEN data[b][k] ELSE 0
      /\ ByteAt(x)' = IF k <= Len(data'[b]) THEN data'[b][k] ELSE 0
  BY <1>3, <1>5, <1>6
<1> HIDE DEF k
<1> QED BY <1>1, <1>4, <1>7 DEF k

(* What a write does to every byte of the file. *)
LEMMA WriteByte ==
  ASSUME TypeOK, TypeOK', NEW off \in 0..MaxLen, NEW d \in Payloads, Write(off, d),
         NEW x \in Nat, x < MaxLen
  PROVE  ByteAt(x)' = IF off < x + 1 /\ x + 1 <= off + Len(d) THEN d[x + 1 - off] ELSE ByteAt(x)
<1>1. PICK b \in BlockNos, k \in 1..BlockSize :
        /\ x + 1 = b * BlockSize + k
        /\ ByteAt(x) = IF k <= Len(data[b]) THEN data[b][k] ELSE 0
        /\ ByteAt(x)' = IF k <= Len(data'[b]) THEN data'[b][k] ELSE 0
  BY ByteAtFact
<1> DEFINE first == b * BlockSize
<1>2. off \in Nat /\ d \in Seq(Byte) /\ data'[b] = Patched(b, off, d)
  BY PayloadFact, MaxLenAssumption DEF Write
<1>3. IF off < first + k /\ first + k <= off + Len(d)
      THEN k <= Len(data'[b]) /\ data'[b][k] = d[first + k - off]
      ELSE (IF k <= Len(data'[b]) THEN data'[b][k] ELSE 0)
             = (IF k <= Len(data[b]) THEN data[b][k] ELSE 0)
  BY <1>2, PatchedFact
<1>4. ASSUME NEW p, first + k = p
      PROVE  ByteAt(x)' = IF off < p /\ p <= off + Len(d) THEN d[p - off] ELSE ByteAt(x)
  <2> HIDE DEF first
  <2>1. CASE off < first + k /\ first + k <= off + Len(d)
    <3>1. ByteAt(x)' = d[first + k - off]
      BY <1>1, <1>3, <2>1
    <3>2. off < p /\ p <= off + Len(d)
      BY <1>4, <2>1, Zenon
    <3>3. first + k - off = p - off
      <4>1. first \in Nat /\ k \in Nat /\ off \in Nat
        BY <1>2, BlockNosFact, BlockSizeAssumption DEF first
      <4> QED BY <1>4, <4>1
    <3> QED BY <3>1, <3>2, <3>3
  <2>2. CASE ~(off < first + k /\ first + k <= off + Len(d))
    <3>1. ByteAt(x)' = ByteAt(x)
      BY <1>1, <1>3, <2>2
    <3>2. ~(off < p /\ p <= off + Len(d))
      BY <1>4, <2>2, Zenon
    <3> QED BY <3>1, <3>2
  <2> QED BY <2>1, <2>2
<1>5. first + k = x + 1
  BY <1>1
<1> QED BY <1>4, <1>5

(* What a truncate does to every byte before the new end. *)
LEMMA TruncateByte ==
  ASSUME TypeOK, TypeOK', NEW length \in 0..MaxLen, Truncate(length),
         NEW x \in Nat, x < length
  PROVE  ByteAt(x)' = ByteAt(x)
<1>1. length \in Nat /\ x < MaxLen
  BY MaxLenAssumption
<1>2. PICK b \in BlockNos, k \in 1..BlockSize :
        /\ x + 1 = b * BlockSize + k
        /\ ByteAt(x) = IF k <= Len(data[b]) THEN data[b][k] ELSE 0
        /\ ByteAt(x)' = IF k <= Len(data'[b]) THEN data'[b][k] ELSE 0
  BY <1>1, ByteAtFact
<1>3. data'[b] = Cut(b, length)
  BY DEF Truncate
<1>4. b * BlockSize + k <= length
  BY <1>1, <1>2
<1>5. (IF k <= Len(data'[b]) THEN data'[b][k] ELSE 0)
        = (IF k <= Len(data[b]) THEN data[b][k] ELSE 0)
  BY <1>1, <1>3, <1>4, CutFact
<1> QED BY <1>2, <1>5

(* Past the end there is nothing but zeros. *)
LEMMA ByteBeyondEnd ==
  ASSUME Inv, Inv', NEW x \in Nat, x < MaxLen, x >= size
  PROVE  ByteAt(x) = 0
<1>1. PICK b \in BlockNos, k \in 1..BlockSize :
        /\ x + 1 = b * BlockSize + k
        /\ ByteAt(x) = IF k <= Len(data[b]) THEN data[b][k] ELSE 0
  BY ByteAtFact DEF Inv
<1> DEFINE first == b * BlockSize
           len == Len(data[b])
<1>2. first \in Nat /\ len \in Nat /\ size \in Nat
  BY BlockNosFact, BlockSizeAssumption, MaxLenAssumption DEF Inv, TypeOK
<1>3. len = 0 \/ first + len <= size
  BY DEF Inv, TypeOK, NoStaleBytes
<1>4. first + k = x + 1 /\ ByteAt(x) = IF k <= len THEN data[b][k] ELSE 0
  BY <1>1
<1> HIDE DEF first, len
<1>5. ~(k <= len)
  BY <1>2, <1>3, <1>4
<1> QED BY <1>4, <1>5

-----------------------------------------------------------------------------
(* The refinement mapping: reading the whole file. *)
Content == Read(0, size)

LEMMA ContentFact ==
  ASSUME TypeOK
  PROVE  /\ Content = [k \in 1..size |-> ByteAt(k - 1)]
         /\ Len(Content) = size /\ size \in Nat
         /\ \A k \in 1..size : Content[k] = ByteAt(k - 1)
<1>1. size \in Nat
  BY MaxLenAssumption DEF TypeOK
<1>2. Content = [k \in 1..size |-> ByteAt(k - 1)]
  BY <1>1 DEF Content, Read
<1> HIDE DEF Content
<1> QED BY <1>1, <1>2

(* A write is a write of the abstract file. *)
LEMMA WriteImplements ==
  ASSUME Inv, Inv', NEW off \in 0..MaxLen, NEW d \in Payloads, Write(off, d)
  PROVE  Posix!Write(off, d) /\ off + Len(d) <= MaxLen
<1> DEFINE end == off + Len(d)
           Zeroed(k) == IF k <= size THEN Content[k] ELSE 0
           New(k) == IF off < k /\ k <= end THEN d[k - off] ELSE Zeroed(k)
<1>1. /\ off \in Nat /\ end \in Nat /\ end <= MaxLen
      /\ size' = IF end > size THEN end ELSE size
      /\ size \in Nat /\ size' \in Nat /\ size' <= MaxLen
  BY PayloadFact, MaxLenAssumption DEF Write, Inv, TypeOK
<1>2. Content' = [k \in 1..size' |-> ByteAt(k - 1)']
  <2>1. TypeOK' => Content' = [k \in 1..size' |-> ByteAt(k - 1)']
    <3>1. TypeOK' => size' \in Nat
      BY <1>1
    <3> QED BY <3>1 DEF Content, Read
  <2> QED BY <2>1 DEF Inv
<1>3. ASSUME NEW k \in 1..size' PROVE ByteAt(k - 1)' = New(k)
  <2>1. k - 1 \in Nat /\ k - 1 < MaxLen /\ (k - 1) + 1 = k /\ k \in Nat
    <3>1. k \in Nat /\ 1 <= k /\ k <= size' /\ size' \in Nat /\ size' <= MaxLen
      BY <1>1
    <3> QED BY <3>1, MaxLenAssumption
  <2>2. ByteAt(k - 1)' = IF off < k /\ k <= end THEN d[k - off] ELSE ByteAt(k - 1)
    BY <2>1, WriteByte DEF Inv
  <2>3. ByteAt(k - 1) = Zeroed(k)
    <3>1. CASE k <= size
      <4>1. k \in 1..size
        BY <1>1, <2>1, <3>1
      <4> QED BY <3>1, <4>1, ContentFact DEF Inv
    <3>2. CASE ~(k <= size)
      <4>1. k - 1 >= size
        BY <1>1, <2>1, <3>2
      <4> QED BY <2>1, <3>2, <4>1, ByteBeyondEnd
    <3> QED BY <3>1, <3>2
  <2> HIDE DEF Zeroed
  <2> QED BY <2>2, <2>3
<1>4. Content' = [k \in 1..size' |-> New(k)]
  <2> HIDE DEF New, Content
  <2> QED BY <1>2, <1>3
<1>5. Len(Content) = size
  BY ContentFact DEF Inv
<1> QED
  BY <1>1, <1>4, <1>5 DEF Posix!Write, Posix!Resized, Content

(* A truncate is a truncate of the abstract file. *)
LEMMA TruncateImplements ==
  ASSUME Inv, Inv', NEW length \in 0..MaxLen, Truncate(length)
  PROVE  Posix!Truncate(length)
<1> DEFINE New(k) == IF k <= size THEN Content[k] ELSE 0
<1>1. size' = length /\ length \in Nat /\ length <= MaxLen /\ size \in Nat
  BY MaxLenAssumption DEF Truncate, Inv, TypeOK
<1>2. Content' = [k \in 1..length |-> ByteAt(k - 1)']
  BY <1>1 DEF Content, Read
<1>3. ASSUME NEW k \in 1..length PROVE ByteAt(k - 1)' = New(k)
  <2>1. k - 1 \in Nat /\ k - 1 < length /\ k - 1 < MaxLen /\ k \in Nat
    <3>1. k \in Nat /\ 1 <= k /\ k <= length
      BY <1>1
    <3> QED BY <1>1, <3>1, MaxLenAssumption
  <2>2. ByteAt(k - 1)' = ByteAt(k - 1)
    BY <2>1, TruncateByte DEF Inv
  <2>3. CASE k <= size
    <3>1. k \in 1..size
      BY <1>1, <2>1, <2>3
    <3> QED BY <2>2, <2>3, <3>1, ContentFact DEF Inv
  <2>4. CASE ~(k <= size)
    <3>1. k - 1 >= size
      BY <1>1, <2>1, <2>4
    <3> QED BY <2>1, <2>2, <2>4, <3>1, ByteBeyondEnd
  <2> QED BY <2>3, <2>4
<1>4. Content' = [k \in 1..length |-> New(k)]
  <2> HIDE DEF New, Content
  <2> QED BY <1>2, <1>3
<1>5. Len(Content) = size
  BY ContentFact DEF Inv
<1> QED
  BY <1>1, <1>4, <1>5 DEF Posix!Truncate, Posix!Resized, Content

(* Every step is a step of the abstract file, or changes nothing in it. *)
LEMMA StepImplements ==
  ASSUME Inv, Inv', [Next]_vars
  PROVE  [Posix!Next]_Content
<1>1. Payloads = Posix!Payloads
  BY DEF Payloads, Posix!Payloads
<1>2. ASSUME NEW off \in 0..MaxLen, NEW d \in Payloads, Write(off, d) PROVE Posix!Next
  BY <1>1, <1>2, WriteImplements DEF Posix!Next
<1>3. ASSUME NEW length \in 0..MaxLen, Truncate(length) PROVE Posix!Next
  BY <1>3, TruncateImplements DEF Posix!Next
<1>4. CASE UNCHANGED vars
  BY <1>4 DEF vars, Content, Read, ByteAt
<1> QED BY <1>2, <1>3, <1>4 DEF Next

(* The empty container holds the empty file. *)
LEMMA InitImplements ==
  ASSUME Init
  PROVE  Posix!Init
<1>1. size = 0
  BY DEF Init
<1>2. Read(0, 0) = <<>>
  BY <1>1 DEF Read
<1> QED BY <1>1, <1>2 DEF Posix!Init

(* The blocks, the truncates that cut them and the reads that pad them     *)
(* together are a POSIX file: what a read returns is what was written.     *)
THEOREM BlocksImplementPosix == Spec => ImplementsPosix
<1>1. Init => Posix!Init
  BY InitImplements
<1>2. Inv /\ Inv' /\ [Next]_vars => [Posix!Next]_Content
  BY StepImplements
<1>3. [Posix!Next]_Content => [Posix!Next]_(Read(0, size))
  BY DEF Content
<1> QED BY <1>1, <1>2, <1>3, InvAlways, PTL DEF Spec, ImplementsPosix, Posix!Spec

=============================================================================
