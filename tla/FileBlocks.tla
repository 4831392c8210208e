----------------------------- MODULE FileBlocks -----------------------------
(***************************************************************************)
(* How src/fs.rs keeps the contents of one file in rows of the table       *)
(* `data`: block b holds bytes b * BlockSize onwards, a row may be shorter *)
(* than a block, a row that is not there is a hole, and the length of the  *)
(* file is kept apart from all of them in inodes.size.                     *)
(*                                                                         *)
(* Nothing clears a row when the file is grown again, so a cut must leave  *)
(* no byte behind that a later growth would bring back.                    *)
(***************************************************************************)
EXTENDS Integers, Sequences

CONSTANTS Byte,      \* the bytes; 0 is the one a hole reads as
          BlockSize, \* db::BLOCK_SIZE
          MaxLen,    \* MAX_FILE_SIZE
          MaxWrite   \* bound: the longest data of one write

ASSUME ByteAssumption      == 0 \in Byte
ASSUME BlockSizeAssumption == BlockSize \in Nat \ {0}
ASSUME MaxLenAssumption    == MaxLen \in Nat
ASSUME MaxWriteAssumption  == MaxWrite \in Nat

VARIABLES size,  \* inodes.size
          data   \* the rows of `data`: block number -> bytes, <<>> for no row

vars == <<size, data>>

BlockNos == 0..(MaxLen \div BlockSize)

(* Nonempty data of at most MaxWrite bytes. *)
Payloads == UNION {[1..n -> Byte] : n \in 1..MaxWrite}

Init ==
  /\ size = 0
  /\ data = [b \in BlockNos |-> <<>>]

-----------------------------------------------------------------------------
(* A mutation `Bug...` stands before the definition it is a plausible      *)
(* wrong version of; no action uses one.                                   *)
BugPatchedBlind(b, off, d) ==                      \* the old row is not read
  LET first == b * BlockSize
      end == off + Len(d)
      need == IF end < first + BlockSize THEN end - first ELSE BlockSize
  IN  IF end <= first \/ off >= first + BlockSize
      THEN data[b]
      ELSE [k \in 1..need |-> IF off < first + k THEN d[first + k - off] ELSE 0]

(* One turn of the loop in write(): the old row, grown with zeros as far   *)
(* as the data reaches into the block, and the data copied over it.  Block *)
(* b is visited when the data overlaps it.                                 *)
Patched(b, off, d) ==
  LET first == b * BlockSize
      end == off + Len(d)
      old == data[b]
      need == IF end < first + BlockSize THEN end - first ELSE BlockSize
  IN  IF end <= first \/ off >= first + BlockSize
      THEN old
      ELSE [k \in 1..(IF Len(old) < need THEN need ELSE Len(old)) |->
              IF off < first + k /\ first + k <= end THEN d[first + k - off]
              ELSE IF k <= Len(old) THEN old[k] ELSE 0]

Write(off, d) ==
  /\ off + Len(d) <= MaxLen                        \* EFBIG
  /\ data' = [b \in BlockNos |-> Patched(b, off, d)]
  /\ size' = IF off + Len(d) > size THEN off + Len(d) ELSE size

BugCut(b, length) ==                               \* whole blocks only
  IF b * BlockSize < length THEN data[b] ELSE <<>>

(* truncate_inode: the block the new end falls into keeps the bytes before *)
(* it - and its row is deleted when none is left - later blocks go.        *)
Cut(b, length) ==
  LET last == length \div BlockSize
      lastOff == length % BlockSize
  IN  IF b < last THEN data[b]
      ELSE IF b = last /\ lastOff > 0
           THEN SubSeq(data[b], 1, IF Len(data[b]) < lastOff THEN Len(data[b]) ELSE lastOff)
           ELSE <<>>

Truncate(length) ==
  /\ length <= MaxLen                              \* EFBIG
  /\ data' = [b \in BlockNos |-> Cut(b, length)]
  /\ size' = length

Next ==
  \/ \E off \in 0..MaxLen, d \in Payloads : Write(off, d)
  \/ \E length \in 0..MaxLen : Truncate(length)

Spec == Init /\ [][Next]_vars

-----------------------------------------------------------------------------
(* read(): the bytes the row has, zeros where it is short or missing.      *)
ByteAt(pos) ==
  LET row == data[pos \div BlockSize]
      off == pos % BlockSize
  IN  IF off < Len(row) THEN row[off + 1] ELSE 0

Read(off, n) ==
  LET end == IF off + n < size THEN off + n ELSE size
  IN  [k \in 1..(end - off) |-> ByteAt(off + k - 1)]

-----------------------------------------------------------------------------
TypeOK ==
  /\ size \in 0..MaxLen
  /\ data \in [BlockNos -> Seq(Byte)]
  /\ \A b \in BlockNos : Len(data[b]) <= BlockSize

(* No row holds a byte at or past the end of the file, where a later       *)
(* growth would bring it back.                                             *)
NoStaleBytes ==
  \A b \in BlockNos : data[b] # <<>> => b * BlockSize + Len(data[b]) <= size

(* What reading the whole file returns is what a POSIX file holds, after   *)
(* any sequence of writes and truncates.                                   *)
Posix == INSTANCE PosixFile WITH content <- Read(0, size)

ImplementsPosix == Posix!Spec

=============================================================================
