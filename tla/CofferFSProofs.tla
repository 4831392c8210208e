--------------------------- MODULE CofferFSProofs ---------------------------
(***************************************************************************)
(* What holds of CofferFS for every number of inodes, names, modes,        *)
(* attributes, block size and ceiling.                                     *)
(***************************************************************************)
EXTENDS CofferFS, WellFoundedInduction, FiniteSetTheorems, TLAPS

(* A block number is found by dividing an offset: the block starts at or   *)
(* before the offset.                                                      *)
LEMMA BlockOfOffset ==
  ASSUME NEW x \in Nat
  PROVE  /\ x \div BlockSize \in 0..x
         /\ (x \div BlockSize) * BlockSize <= x
<1> DEFINE q == x \div BlockSize
<1>1. q \in Int /\ BlockSize * q <= x /\ x < BlockSize * q + BlockSize
  BY BlockSizeAssumption, SMT
<1>2. q >= 0 /\ q <= x
  BY <1>1, BlockSizeAssumption, SMT
<1> QED BY <1>1, <1>2, BlockSizeAssumption

(* Every block a write stores starts before the end of what it wrote. *)
LEMMA StoredBlocksFact ==
  ASSUME NEW off \in Nat, NEW len \in Nat \ {0}, NEW b \in StoredBlocks(off, len)
  PROVE  b \in 0..(off + len - 1) /\ b * BlockSize < off + len
<1>1. off \div BlockSize \in 0..off
  BY BlockOfOffset
<1> DEFINE last == (off + len - 1) \div BlockSize
<1>2. off + len - 1 \in Nat
  OBVIOUS
<1>3. last \in 0..(off + len - 1) /\ last * BlockSize <= off + len - 1
  BY <1>2, BlockOfOffset
<1>4. b \in Nat /\ b <= last
  BY <1>1, <1>3 DEF StoredBlocks
<1>5. b * BlockSize <= last * BlockSize
  BY <1>3, <1>4, BlockSizeAssumption
<1> HIDE DEF last
<1> QED BY <1>3, <1>4, <1>5, BlockSizeAssumption

(* Deleting an inode, setting an entry and inserting a child keep the      *)
(* tables they change well formed.                                         *)
LEMMA DeleteInodeTypes ==
  ASSUME TypeOK, NEW gone, DeleteInode(gone)
  PROVE  /\ kind' \in [Ino -> Kinds \cup {NoRow}]
         /\ mode' \in [Ino -> SUBSET ModeBits]
         /\ size' \in [Ino -> 0..MaxLen]
         /\ blocks' \in [Ino -> SUBSET (0..MaxLen)]
         /\ xattrs' \in [Ino -> SUBSET XNames]
         /\ modeDue' \subseteq Ino
         /\ capDue' \subseteq Ino
  BY MaxLenAssumption DEF TypeOK, DeleteInode

(* A table of entries stays one. *)
LEMMA DentryTypes ==
  ASSUME NEW d \in [Ino -> [Names -> Ino \cup {None}]],
         NEW p \in Ino, NEW n \in Names, NEW i \in Ino
  PROVE  /\ LinkDentry(d, p, n, i) \in [Ino -> [Names -> Ino \cup {None}]]
         /\ DropDentry(d, p, n) \in [Ino -> [Names -> Ino \cup {None}]]
  BY DEF LinkDentry, DropDentry

(* Asking for room changes at most what is remembered of the sum. *)
LEMMA RoomTypes ==
  ASSUME TypeOK, NEW growth, NEW fits, HasRoomFor(growth) \/ Ceiling(fits)
  PROVE  sum' \in {"read", "failed"}
<1>1. ASSUME NEW fit, Ceiling(fit) PROVE sum' \in {"read", "failed"}
  BY <1>1 DEF TypeOK, Ceiling
<1>2. CASE HasRoomFor(growth)
  <2>1. CASE growth > 0
    BY <1>1, <1>2, <2>1 DEF HasRoomFor
  <2>2. CASE ~(growth > 0)
    BY <1>2, <2>2 DEF HasRoomFor, TypeOK
  <2> QED BY <2>1, <2>2
<1> QED BY <1>1, <1>2

(* A new object: its number is one of Ino. *)
LEMMA InsertChildTypes ==
  ASSUME TypeOK, NEW p \in Ino, NEW n \in Names, NEW k \in Kinds,
         NEW m \in SUBSET ModeBits, NEW s \in 0..MaxLen,
         InsertChild(p, n, k, m, s), sum' \in {"read", "failed"}
  PROVE  TypeOK'
<1>1. NextIno \in Ino /\ seq' = NextIno
  BY MaxInoAssumption DEF InsertChild, NextIno, TypeOK, Ino
<1>2. dentries' \in [Ino -> [Names -> Ino \cup {None}]]
  BY <1>1, DentryTypes DEF InsertChild, TypeOK
<1> QED BY <1>1, <1>2 DEF InsertChild, TypeOK

(* One step keeps the types: one case per handler. *)
LEMMA TypeStep ==
  ASSUME TypeOK, [Next]_vars
  PROVE  TypeOK'
<1>0. Handles \subseteq Ino
  BY MaxInoAssumption DEF TypeOK, Handles, Ino
<1>1. ASSUME NEW p \in Handles, NEW n \in Names, NEW m \in Modes, Mkdir(p, n, m)
      PROVE  TypeOK'
  <2>1. sum' \in {"read", "failed"}
    BY <1>1 DEF Mkdir, TypeOK
  <2> QED BY <1>0, <1>1, <2>1, InsertChildTypes, ModesAssumption, MaxLenAssumption DEF Mkdir, Kinds
<1>2. ASSUME NEW p \in Handles, NEW n \in Names, NEW m \in Modes, Create(p, n, m)
      PROVE  TypeOK'
  <2>1. sum' \in {"read", "failed"}
    BY <1>2, RoomTypes DEF Create
  <2> QED BY <1>0, <1>2, <2>1, InsertChildTypes, ModesAssumption, MaxLenAssumption DEF Create, Kinds
<1>3. ASSUME NEW p \in Handles, NEW n \in Names, NEW len \in 1..MaxLen, Symlink(p, n, len)
      PROVE  TypeOK'
  <2>1. sum' \in {"read", "failed"}
    BY <1>3, RoomTypes DEF Symlink
  <2> QED BY <1>0, <1>3, <2>1, InsertChildTypes, MaxLenAssumption DEF Symlink, Kinds, ModeBits
<1>4. ASSUME NEW p \in Handles, NEW n \in Names, NEW i \in Handles, Link(i, p, n)
      PROVE  TypeOK'
  BY <1>0, <1>4, DentryTypes DEF Link, TypeOK
<1>5. ASSUME NEW p \in Handles, NEW n \in Names, Unlink(p, n)
      PROVE  TypeOK'
  <2>1. dentries' \in [Ino -> [Names -> Ino \cup {None}]]
    BY <1>0, <1>5, DentryTypes, MaxInoAssumption DEF Unlink, TypeOK
  <2> QED BY <2>1, <1>5, DeleteInodeTypes DEF Unlink, TypeOK
<1>6. ASSUME NEW p \in Handles, NEW n \in Names, Rmdir(p, n)
      PROVE  TypeOK'
  <2>1. dentries' \in [Ino -> [Names -> Ino \cup {None}]]
    BY <1>0, <1>6, DentryTypes, MaxInoAssumption DEF Rmdir, TypeOK
  <2> QED BY <2>1, <1>6, DeleteInodeTypes DEF Rmdir, TypeOK
<1>7. ASSUME NEW p \in Handles, NEW n \in Names, NEW q \in Handles, NEW m \in Names,
             NEW flag \in RenameFlags, Rename(p, n, q, m, flag)
      PROVE  TypeOK'
  <2>1. dentries' \in [Ino -> [Names -> Ino \cup {None}]]
    <3>1. dentries[p][n] \in Ino
      BY <1>0, <1>7 DEF Rename, TypeOK
    <3> QED BY <3>1, <1>0, <1>7, DentryTypes DEF Rename, TypeOK
  <2> QED BY <2>1, <1>7, DeleteInodeTypes DEF Rename, TypeOK
<1>8. ASSUME NEW i \in Handles, NEW off \in 0..MaxLen, NEW len \in 1..MaxLen,
             NEW caller \in Callers, Write(i, off, len, caller)
      PROVE  TypeOK'
  <2>1. off \in Nat /\ len \in Nat \ {0} /\ off + len \in 0..MaxLen
    BY <1>8, MaxLenAssumption DEF Write, WithinLimit
  <2>2. StoredBlocks(off, len) \subseteq 0..MaxLen
    BY <2>1, StoredBlocksFact, MaxLenAssumption
  <2>3. blocks' \in [Ino -> SUBSET (0..MaxLen)]
    <3>1. blocks' = [blocks EXCEPT ![i] = @ \cup StoredBlocks(off, len)]
      BY <1>8 DEF Write
    <3> QED BY <3>1, <2>2 DEF TypeOK
  <2>4. size' \in [Ino -> 0..MaxLen]
    <3>1. size' = [size EXCEPT ![i] = IF off + len > @ THEN off + len ELSE @]
      BY <1>8 DEF Write
    <3> QED BY <3>1, <2>1 DEF TypeOK
  <2>5. /\ mode' \in [Ino -> SUBSET ModeBits]
        /\ xattrs' \in [Ino -> SUBSET XNames]
        /\ modeDue' \subseteq Ino /\ capDue' \subseteq Ino
    <3>1. CASE caller = "user"
      <4>1. /\ mode' = [mode EXCEPT ![i] = KillMode(@)]
            /\ xattrs' = [xattrs EXCEPT ![i] = KillXattrs(@)]
            /\ modeDue' = modeDue \cup {i} /\ capDue' = capDue \cup {i}
        BY <3>1, <1>8 DEF Write
      <4>2. KillMode(mode[i]) \subseteq mode[i] /\ KillXattrs(xattrs[i]) \subseteq xattrs[i]
        BY DEF KillMode, KillXattrs
      <4> QED BY <4>1, <4>2, <1>0 DEF TypeOK
    <3>2. CASE caller # "user"
      BY <3>2, <1>8 DEF Write, TypeOK
    <3> QED BY <3>1, <3>2
  <2>6. sum' \in {"read", "failed"}
    BY <1>8, RoomTypes DEF Write
  <2> QED BY <2>3, <2>4, <2>5, <2>6, <1>8 DEF Write, TypeOK
<1>9. ASSUME NEW i \in Handles, NEW valid \in (SUBSET {"mode", "owner", "size"}) \ {{}},
             NEW newMode \in Modes, NEW newSize \in 0..(MaxLen + 1), NEW caller \in Callers,
             Setattr(i, valid, newMode, newSize, caller)
      PROVE  TypeOK'
  <2>1. "size" \in valid => newSize \in 0..MaxLen
    BY <1>9, MaxLenAssumption DEF Setattr, WithinLimit
  <2>2. /\ size' \in [Ino -> 0..MaxLen]
        /\ blocks' \in [Ino -> SUBSET (0..MaxLen)]
    <3>1. CASE "size" \in valid
      <4>1. size' = [size EXCEPT ![i] = newSize]
        BY <3>1, <1>9 DEF Setattr
      <4>2. blocks' = [blocks EXCEPT ![i] = Truncated(blocks[i], newSize)]
        BY <3>1, <1>9 DEF Setattr
      <4>3. Truncated(blocks[i], newSize) \subseteq blocks[i]
        BY DEF Truncated
      <4> QED BY <4>1, <4>2, <4>3, <3>1, <2>1, <1>0 DEF TypeOK
    <3>2. CASE "size" \notin valid
      BY <3>2, <1>9 DEF Setattr, TypeOK
    <3> QED BY <3>1, <3>2
  <2>3. mode' \in [Ino -> SUBSET ModeBits]
    BY <1>0, <1>9, ModesAssumption DEF Setattr, TypeOK, KillMode
  <2>4. xattrs' \in [Ino -> SUBSET XNames]
    BY <1>9 DEF Setattr, TypeOK, KillXattrs
  <2>5. modeDue' \subseteq Ino /\ capDue' \subseteq Ino
    BY <1>0, <1>9 DEF Setattr, TypeOK
  <2>6. sum' \in {"read", "failed"}
    BY <1>9, RoomTypes DEF Setattr, TypeOK
  <2> QED BY <2>2, <2>3, <2>4, <2>5, <2>6, <1>9 DEF Setattr, TypeOK
<1>10. ASSUME NEW i \in Handles, NEW x \in XNames, NEW flag, Setxattr(i, x, flag)
       PROVE  TypeOK'
  BY <1>10 DEF Setxattr, TypeOK
<1>11. ASSUME NEW i \in Handles, NEW x \in XNames, Removexattr(i, x)
       PROVE  TypeOK'
  BY <1>11 DEF Removexattr, TypeOK
<1>12. CASE \E m \in {"rw", "ro"} : Mount(m)
  BY <1>12 DEF Mount, TypeOK, tables
<1>13. CASE Unmount
  BY <1>13 DEF Unmount, TypeOK, tables
<1>14. CASE UNCHANGED vars
  BY <1>14 DEF TypeOK, vars, tables
<1> QED
  BY <1>1, <1>2, <1>3, <1>4, <1>5, <1>6, <1>7, <1>8, <1>9, <1>10, <1>11, <1>12, <1>13, <1>14
     DEF Next, NamespaceNext, AttributeNext

(* Typing: every handler keeps the tables well formed, whatever the bounds. *)
THEOREM TypeCorrect == Spec => []TypeOK
<1>1. Init => TypeOK
  BY MaxInoAssumption, MaxLenAssumption
     DEF Init, TypeOK, Ino, Root, None, Kinds, NoRow
<1>2. TypeOK /\ [Next]_vars => TypeOK'
  BY TypeStep
<1> QED BY <1>1, <1>2, PTL DEF Spec

-----------------------------------------------------------------------------
(* The entries after one is set or dropped, one by one. *)
LEMMA LinkFact ==
  ASSUME NEW d \in [Ino -> [Names -> Ino \cup {None}]],
         NEW p \in Ino, NEW n \in Names, NEW i
  PROVE  \A a \in Ino, b \in Names :
           LinkDentry(d, p, n, i)[a][b] = IF a = p /\ b = n THEN i ELSE d[a][b]
  BY DEF LinkDentry

(* The same for an entry that is dropped. *)
LEMMA DropFact ==
  ASSUME NEW d \in [Ino -> [Names -> Ino \cup {None}]],
         NEW p \in Ino, NEW n \in Names
  PROVE  \A a \in Ino, b \in Names :
           DropDentry(d, p, n)[a][b] = IF a = p /\ b = n THEN None ELSE d[a][b]
  BY DEF DropDentry

(* A new object under a free name of a directory that is there. *)
LEMMA InsertChildConsistent ==
  ASSUME TypeOK, TypeOK', Consistent,
         NEW p \in Ino, NEW n \in Names, NEW k \in Kinds, NEW m, NEW s,
         kind[p] = "dir", dentries[p][n] = None, InsertChild(p, n, k, m, s)
  PROVE  Consistent'
<1>1. NextIno \in Ino /\ NextIno > seq /\ seq' = NextIno /\ NextIno \notin issued
  BY MaxInoAssumption DEF InsertChild, NextIno, TypeOK, Ino, Consistent
<1>2. kind[NextIno] = NoRow /\ NextIno # Root /\ NextIno # None
  BY <1>1 DEF Consistent, HasRow, NoRow, Ino, TypeOK, None
<1>3. \A a \in Ino, b \in Names :
        dentries'[a][b] = IF a = p /\ b = n THEN NextIno ELSE dentries[a][b]
  <2>1. dentries' = LinkDentry(dentries, p, n, NextIno)
    BY DEF InsertChild
  <2>2. dentries \in [Ino -> [Names -> Ino \cup {None}]]
    BY DEF TypeOK
  <2> QED BY <2>1, <2>2, LinkFact
<1>4. \A i \in Ino : kind'[i] = IF i = NextIno THEN k ELSE kind[i]
  BY DEF InsertChild, TypeOK
<1>5. k # NoRow
  BY DEF Kinds, NoRow
<1>6. \A a \in Ino, b \in Names : dentries[a][b] # NextIno
  BY <1>2 DEF Consistent, NoDanglingNames, HasRow
<1>7. kind'[Root] = "dir"
  BY <1>2, <1>4, MaxInoAssumption DEF Consistent, Root, Ino
<1>8. /\ {i \in Ino : HasRow(i)}' \subseteq issued' /\ issued' \subseteq 1..seq'
      /\ modeDue' \subseteq issued' /\ capDue' \subseteq issued'
  <2>1. issued' = issued \cup {NextIno} /\ modeDue' = modeDue /\ capDue' = capDue
    BY DEF InsertChild
  <2>2. 1..seq \subseteq 1..seq' /\ NextIno \in 1..seq'
    BY <1>1, MaxInoAssumption DEF TypeOK, Ino
  <2> QED BY <2>1, <2>2, <1>4 DEF Consistent, HasRow
<1>9. NoDanglingNames'
  <2> SUFFICES ASSUME NEW a \in Ino, NEW b \in Names, dentries'[a][b] # None
               PROVE  kind'[dentries'[a][b]] # NoRow /\ kind'[a] = "dir"
    BY DEF NoDanglingNames, HasRow
  <2>1. CASE a = p /\ b = n
    BY <2>1, <1>1, <1>2, <1>3, <1>4, <1>5 DEF NoRow
  <2>2. CASE ~(a = p /\ b = n)
    <3>1. dentries'[a][b] = dentries[a][b] /\ dentries[a][b] \in Ino
      BY <2>2, <1>3 DEF TypeOK
    <3>2. kind[dentries[a][b]] # NoRow /\ kind[a] = "dir"
      BY <3>1 DEF Consistent, NoDanglingNames, HasRow
    <3> QED BY <3>1, <3>2, <1>2, <1>4 DEF NoRow
  <2> QED BY <2>1, <2>2
<1>10. NoUnreachableInodes'
  <2> SUFFICES ASSUME NEW i \in Ino, kind'[i] # NoRow, i # Root
               PROVE  \E a \in Ino, b \in Names : dentries'[a][b] = i
    BY DEF NoUnreachableInodes, HasRow, HasName
  <2>1. CASE i = NextIno
    BY <2>1, <1>3
  <2>2. CASE i # NextIno
    <3>1. PICK a \in Ino, b \in Names : dentries[a][b] = i
      BY <2>2, <1>4 DEF Consistent, NoUnreachableInodes, HasRow, HasName
    <3>2. i # None
      BY MaxInoAssumption DEF Ino, None
    <3> QED BY <3>1, <3>2, <1>3
  <2> QED BY <2>1, <2>2
<1>11. OneNamePerDirectory'
  <2>1. ~HasName(dentries', Root)
    BY <1>2, <1>3 DEF Consistent, OneNamePerDirectory, HasName
  <2>2. ASSUME NEW a \in Ino, NEW c \in Ino, NEW b \in Names, NEW e \in Names,
               dentries'[a][b] # None, dentries'[a][b] = dentries'[c][e],
               kind'[dentries'[a][b]] = "dir"
        PROVE  a = c /\ b = e
    <3>1. CASE dentries'[a][b] = NextIno
      BY <3>1, <2>2, <1>3, <1>6
    <3>2. CASE dentries'[a][b] # NextIno
      <4>1. /\ dentries'[a][b] = dentries[a][b] /\ dentries'[c][e] = dentries[c][e]
            /\ dentries[a][b] \in Ino
        BY <3>2, <2>2, <1>3 DEF TypeOK
      <4>2. kind[dentries[a][b]] = "dir"
        BY <4>1, <3>2, <2>2, <1>4
      <4>3. dentries[a][b] # None /\ dentries[a][b] = dentries[c][e]
        BY <4>1, <2>2
      <4>4. OneNamePerDirectory
        BY DEF Consistent
      <4> QED BY <4>2, <4>3, <4>4 DEF OneNamePerDirectory
    <3> QED BY <3>1, <3>2
  <2> QED BY <2>1, <2>2 DEF OneNamePerDirectory, HasName
<1>12. NoOrphanRows'
  BY <1>4, <1>5 DEF InsertChild, Consistent, NoOrphanRows, HasRow
<1>13. \A i \in Ino : kind'[i] = NoRow => size'[i] = 0
  <2>1. \A i \in Ino \ {NextIno} : size'[i] = size[i]
    BY DEF InsertChild, TypeOK
  <2> QED BY <2>1, <1>4, <1>5 DEF Consistent, HasRow
<1> QED BY <1>7, <1>8, <1>9, <1>10, <1>11, <1>12, <1>13 DEF Consistent, HasRow

(* A second name for a file or a symbolic link. *)
LEMMA LinkConsistent ==
  ASSUME TypeOK, TypeOK', Consistent,
         NEW p \in Ino, NEW n \in Names, NEW i \in Ino, Link(i, p, n)
  PROVE  Consistent'
<1>1. /\ HasRow(i) /\ kind[i] # "dir" /\ kind[p] = "dir" /\ dentries[p][n] = None
      /\ i # Root
      /\ UNCHANGED <<kind, size, blocks, xattrs, seq, issued, modeDue, capDue>>
  BY DEF Link, Linkable, RowFound, KernelParent, Consistent
<1>2. \A a \in Ino, b \in Names :
        dentries'[a][b] = IF a = p /\ b = n THEN i ELSE dentries[a][b]
  <2>1. dentries' = LinkDentry(dentries, p, n, i)
    BY DEF Link
  <2>2. dentries \in [Ino -> [Names -> Ino \cup {None}]]
    BY DEF TypeOK
  <2> QED BY <2>1, <2>2, LinkFact
<1>3. NoDanglingNames'
  BY <1>1, <1>2 DEF Consistent, NoDanglingNames, HasRow
<1>4. NoUnreachableInodes'
  <2> SUFFICES ASSUME NEW j \in Ino, HasRow(j), j # Root
               PROVE  HasName(dentries', j)
    BY <1>1 DEF NoUnreachableInodes, HasRow
  <2>1. PICK a \in Ino, b \in Names : dentries[a][b] = j
    BY DEF Consistent, NoUnreachableInodes, HasName
  <2>2. j # None
    BY MaxInoAssumption DEF Ino, None
  <2> QED BY <2>1, <2>2, <1>1, <1>2 DEF HasName
<1>5. OneNamePerDirectory'
  <2>1. OneNamePerDirectory
    BY DEF Consistent
  <2>2. ~HasName(dentries', Root)
    BY <1>1, <1>2, <2>1 DEF OneNamePerDirectory, HasName
  <2>3. ASSUME NEW a \in Ino, NEW c \in Ino, NEW b \in Names, NEW e \in Names,
               dentries'[a][b] # None, dentries'[a][b] = dentries'[c][e],
               kind'[dentries'[a][b]] = "dir"
        PROVE  a = c /\ b = e
    BY <1>1, <1>2, <2>1, <2>3 DEF OneNamePerDirectory
  <2> QED BY <2>2, <2>3 DEF OneNamePerDirectory
<1>6. NoOrphanRows' /\ {j \in Ino : HasRow(j)}' \subseteq issued'
  BY <1>1 DEF Consistent, NoOrphanRows, HasRow
<1>7. \A j \in Ino : ~HasRow(j)' => size'[j] = 0
  BY <1>1 DEF Consistent, HasRow
<1> QED BY <1>1, <1>3, <1>4, <1>5, <1>6, <1>7 DEF Consistent

(* What is true of the inode whose last name may just have gone. *)
LEMMA DeleteInodeFact ==
  ASSUME TypeOK, NEW gone, DeleteInode(gone)
  PROVE  \A i \in Ino :
           /\ i \in gone => /\ kind'[i] = NoRow /\ size'[i] = 0
                          /\ blocks'[i] = {} /\ xattrs'[i] = {}
           /\ i \notin gone => /\ kind'[i] = kind[i] /\ size'[i] = size[i]
                             /\ blocks'[i] = blocks[i] /\ xattrs'[i] = xattrs[i]
  BY DEF DeleteInode, TypeOK

(* An inode `t` loses a name and goes if it was the last: the steps unlink, *)
(* rmdir and rename share, given what each does to the entries.            *)
LEMMA RemoveConsistent ==
  ASSUME TypeOK, TypeOK', Consistent,
         NEW t, NEW gone \in SUBSET {t}, DeleteInode(gone),
         seq' = seq, issued' = issued,
         t \in gone => /\ t \in Ino /\ t # Root
                      /\ \A b \in Names : dentries[t][b] = None
                      /\ ~HasName(dentries', t),
         \A a \in Ino, b \in Names : dentries'[a][b] # None =>
           /\ kind[a] = "dir" /\ a \notin gone
           /\ HasName(dentries, dentries'[a][b]),
         \A i \in Ino : HasRow(i) /\ i # Root /\ i \notin gone => HasName(dentries', i),
         \A a, c \in Ino : \A b, e \in Names :
           /\ dentries'[a][b] # None /\ dentries'[a][b] = dentries'[c][e]
           /\ kind[dentries'[a][b]] = "dir"
           => a = c /\ b = e
  PROVE  Consistent'
<1>1. \A i \in Ino : IF i \in gone
                     THEN kind'[i] = NoRow /\ blocks'[i] = {} /\ xattrs'[i] = {}
                     ELSE kind'[i] = kind[i] /\ blocks'[i] = blocks[i] /\ xattrs'[i] = xattrs[i]
  BY DeleteInodeFact
<1>2. Root \in Ino /\ Root \notin gone /\ kind'[Root] = "dir"
  BY <1>1, MaxInoAssumption DEF Consistent, Root, Ino
<1>3. {i \in Ino : HasRow(i)}' \subseteq issued'
  BY <1>1 DEF Consistent, HasRow
<1>4. /\ issued' \subseteq 1..seq'
      /\ modeDue' \subseteq issued' /\ capDue' \subseteq issued'
  BY DEF Consistent, DeleteInode
<1>5. NoDanglingNames'
  <2> SUFFICES ASSUME NEW a \in Ino, NEW b \in Names, dentries'[a][b] # None
               PROVE  kind'[dentries'[a][b]] # NoRow /\ kind'[a] = "dir"
    BY DEF NoDanglingNames, HasRow
  <2>1. kind'[a] = "dir"
    BY <1>1
  <2>2. dentries'[a][b] \in Ino
    BY DEF TypeOK
  <2>3. kind[dentries'[a][b]] # NoRow
    <3>1. PICK c \in Ino, e \in Names : dentries[c][e] = dentries'[a][b]
      BY DEF HasName
    <3> QED BY <3>1 DEF Consistent, NoDanglingNames, HasRow
  <2>4. dentries'[a][b] \notin gone
    BY <2>2 DEF HasName
  <2> QED BY <1>1, <2>1, <2>2, <2>3, <2>4
<1>6. NoUnreachableInodes'
  BY <1>1 DEF NoUnreachableInodes, HasRow
<1>7. OneNamePerDirectory'
  <2>1. ~HasName(dentries', Root)
    <3> SUFFICES ASSUME NEW a \in Ino, NEW b \in Names, dentries'[a][b] = Root
                 PROVE  FALSE
      BY DEF HasName
    <3>1. HasName(dentries, Root)
      BY DEF Root, None
    <3> QED BY <3>1 DEF Consistent, OneNamePerDirectory
  <2>2. ASSUME NEW a \in Ino, NEW c \in Ino, NEW b \in Names, NEW e \in Names,
               dentries'[a][b] # None, dentries'[a][b] = dentries'[c][e],
               kind'[dentries'[a][b]] = "dir"
        PROVE  a = c /\ b = e
    <3>1. dentries'[a][b] \in Ino
      BY <2>2 DEF TypeOK
    <3>2. kind[dentries'[a][b]] = "dir"
      BY <1>1, <2>2, <3>1 DEF NoRow
    <3> QED BY <2>2, <3>2
  <2> QED BY <2>1, <2>2 DEF OneNamePerDirectory
<1>8. NoOrphanRows'
  BY <1>1 DEF Consistent, NoOrphanRows, HasRow
<1>9. \A i \in Ino : ~HasRow(i)' => size'[i] = 0
  BY DeleteInodeFact DEF Consistent, HasRow
<1> QED BY <1>2, <1>3, <1>4, <1>5, <1>6, <1>7, <1>8, <1>9 DEF Consistent

(* What may be removed holds no entry: a directory that does is refused,   *)
(* and only directories hold entries.                                      *)
LEMMA Childless ==
  ASSUME Consistent, NEW i \in Ino, Removable(i)
  PROVE  \A b \in Names : dentries[i][b] = None
  BY DEF Consistent, NoDanglingNames, Removable, HasChildren

(* unlink and rmdir. *)
LEMMA UnlinkConsistent ==
  ASSUME TypeOK, TypeOK', Consistent, NEW p \in Ino, NEW n \in Names,
         dentries[p][n] # None, Removable(dentries[p][n]),
         dentries' = DropDentry(dentries, p, n),
         DeleteInode(Nameless(dentries', dentries[p][n])),
         seq' = seq, issued' = issued
  PROVE  Consistent'
<1> DEFINE t == dentries[p][n]
           gone == Nameless(dentries', t)
<1>1. t \in Ino /\ t # Root
  BY DEF TypeOK, Consistent, OneNamePerDirectory, HasName
<1>2. \A b \in Names : dentries[t][b] = None
  BY <1>1, Childless
<1>3. \A a \in Ino, b \in Names :
        dentries'[a][b] = IF a = p /\ b = n THEN None ELSE dentries[a][b]
  <2>1. dentries \in [Ino -> [Names -> Ino \cup {None}]]
    BY DEF TypeOK
  <2> QED BY <2>1, DropFact
<1>4. /\ gone \in SUBSET {t}
      /\ t \in gone <=> ~HasName(dentries', t)
  BY DEF Nameless
<1>5. \A a \in Ino, b \in Names : dentries'[a][b] # None =>
        /\ kind[a] = "dir" /\ a \notin gone /\ HasName(dentries, dentries'[a][b])
  BY <1>2, <1>3, <1>4 DEF Consistent, NoDanglingNames, HasName
<1>6. \A i \in Ino : HasRow(i) /\ i # Root /\ i \notin gone => HasName(dentries', i)
  <2> SUFFICES ASSUME NEW i \in Ino, HasRow(i), i # Root, i # t
               PROVE  HasName(dentries', i)
    BY <1>4
  <2>1. PICK a \in Ino, b \in Names : dentries[a][b] = i
    BY DEF Consistent, NoUnreachableInodes, HasName
  <2> QED BY <2>1, <1>3 DEF HasName
<1>7. \A a, c \in Ino : \A b, e \in Names :
        /\ dentries'[a][b] # None /\ dentries'[a][b] = dentries'[c][e]
        /\ kind[dentries'[a][b]] = "dir"
        => a = c /\ b = e
  <2>1. OneNamePerDirectory
    BY DEF Consistent
  <2> QED BY <1>3, <2>1 DEF OneNamePerDirectory
<1> HIDE DEF gone, t
<1>8. DeleteInode(gone)
  BY DEF gone, t
<1> QED BY <1>1, <1>2, <1>4, <1>5, <1>6, <1>7, <1>8, RemoveConsistent

(* The entries after a rename. *)
LEMMA RenameEntries ==
  ASSUME TypeOK, NEW p \in Ino, NEW n \in Names, NEW q \in Ino, NEW m \in Names,
         NEW i \in Ino, NEW d, d = DropDentry(dentries, q, m),
         dentries' = DropDentry(LinkDentry(d, q, m, i), p, n)
  PROVE  \A a \in Ino, b \in Names :
           /\ d[a][b] = IF a = q /\ b = m THEN None ELSE dentries[a][b]
           /\ dentries'[a][b] = IF a = p /\ b = n THEN None
                               ELSE IF a = q /\ b = m THEN i ELSE dentries[a][b]
<1>1. dentries \in [Ino -> [Names -> Ino \cup {None}]]
  BY DEF TypeOK
<1>2. /\ d \in [Ino -> [Names -> Ino \cup {None}]]
      /\ \A a \in Ino, b \in Names :
           d[a][b] = IF a = q /\ b = m THEN None ELSE dentries[a][b]
  BY <1>1 DEF DropDentry
<1> DEFINE l == LinkDentry(d, q, m, i)
<1>3. l \in [Ino -> [Names -> Ino \cup {None}]]
  BY <1>2, DentryTypes
<1>4. \A a \in Ino, b \in Names : l[a][b] = IF a = q /\ b = m THEN i ELSE d[a][b]
  BY <1>2, LinkFact
<1>5. dentries' = DropDentry(l, p, n)
  OBVIOUS
<1> HIDE DEF l
<1>6. \A a \in Ino, b \in Names :
        dentries'[a][b] = IF a = p /\ b = n THEN None ELSE l[a][b]
  BY <1>3, <1>5, DropFact
<1> QED BY <1>2, <1>4, <1>6

(* rename, with and without a target to replace. *)
LEMMA RenameConsistent ==
  ASSUME TypeOK, TypeOK', Consistent,
         NEW p \in Ino, NEW n \in Names, NEW q \in Ino, NEW m \in Names, NEW flag,
         Rename(p, n, q, m, flag)
  PROVE  Consistent'
<1> DEFINE src == dentries[p][n]
           t == dentries[q][m]
           d == DropDentry(dentries, q, m)
           gone == IF t = None THEN {} ELSE Nameless(d, t)
<1>1. /\ src \in Ino /\ t # src /\ t \in Ino \cup {None}
      /\ t # None => Removable(t)
      /\ kind[q] = "dir"
      /\ dentries' = DropDentry(LinkDentry(d, q, m, src), p, n)
      /\ seq' = seq /\ issued' = issued
      /\ DeleteInode(gone)
  BY DEF Rename, TypeOK, KernelParent
<1>2. t # None => t # Root /\ \A b \in Names : dentries[t][b] = None
  BY <1>1, Childless DEF Consistent, OneNamePerDirectory, HasName
<1>3. \A a \in Ino, b \in Names :
        /\ d[a][b] = IF a = q /\ b = m THEN None ELSE dentries[a][b]
        /\ dentries'[a][b] = IF a = p /\ b = n THEN None
                            ELSE IF a = q /\ b = m THEN src ELSE dentries[a][b]
  BY <1>1, RenameEntries
<1>4. ~(p = q /\ n = m)
  BY <1>1
<1>5. /\ gone \in SUBSET {t}
      /\ t \in gone => t # None
      /\ t # None => (t \in gone <=> ~HasName(d, t))
  BY DEF Nameless
<1>6. /\ dentries[p][n] = src /\ dentries[q][m] = t
      /\ None \notin Ino
  BY MaxInoAssumption DEF Ino, None
<1> HIDE DEF gone, t, src, d
<1>7. t \in gone => ~HasName(dentries', t)
  BY <1>1, <1>3, <1>5, <1>6 DEF HasName
<1>8. ASSUME NEW a \in Ino, NEW b \in Names, dentries'[a][b] # None
      PROVE  kind[a] = "dir" /\ a \notin gone /\ HasName(dentries, dentries'[a][b])
  <2>1. CASE a = q /\ b = m
    BY <2>1, <1>1, <1>2, <1>3, <1>5, <1>6, <1>8 DEF HasName
  <2>2. CASE ~(a = q /\ b = m)
    <3>1. dentries'[a][b] = dentries[a][b]
      BY <2>2, <1>3, <1>8
    <3> QED BY <3>1, <1>2, <1>5, <1>8 DEF Consistent, NoDanglingNames, HasName
  <2> QED BY <2>1, <2>2
<1>9. ASSUME NEW i \in Ino, HasRow(i), i # Root, i \notin gone
      PROVE  HasName(dentries', i)
  <2>1. CASE i = src
    BY <2>1, <1>3, <1>4 DEF HasName
  <2>2. CASE i = t
    BY <2>2, <1>1, <1>3, <1>5, <1>6, <1>9 DEF HasName
  <2>3. CASE i # src /\ i # t
    <3>1. PICK a \in Ino, b \in Names : dentries[a][b] = i
      BY <1>9 DEF Consistent, NoUnreachableInodes, HasName
    <3> QED BY <3>1, <2>3, <1>3, <1>6 DEF HasName
  <2> QED BY <2>1, <2>2, <2>3
<1>10. ASSUME NEW a \in Ino, NEW c \in Ino, NEW b \in Names, NEW e \in Names,
              dentries'[a][b] # None, dentries'[a][b] = dentries'[c][e],
              kind[dentries'[a][b]] = "dir"
       PROVE  a = c /\ b = e
  <2>1. OneNamePerDirectory
    BY DEF Consistent
  <2> QED BY <1>3, <1>4, <1>6, <1>10, <2>1 DEF OneNamePerDirectory
<1> QED BY <1>1, <1>2, <1>5, <1>6, <1>7, <1>8, <1>9, <1>10, RemoveConsistent

(* write, setattr, setxattr and removexattr touch only an inode that is    *)
(* there, so no step of theirs leaves a row behind.                        *)
LEMMA AttributeConsistent ==
  ASSUME TypeOK, Consistent,
         NEW i \in Ino, HasRow(i),
         UNCHANGED <<kind, dentries, seq, issued>>,
         modeDue' \subseteq modeDue \cup {i}, capDue' \subseteq capDue \cup {i},
         \A j \in Ino \ {i} : UNCHANGED <<size[j], blocks[j], xattrs[j]>>
  PROVE  Consistent'
<1>1. i \in issued
  BY DEF Consistent
<1>2. NoOrphanRows'
  BY DEF Consistent, NoOrphanRows, HasRow
<1>3. NoDanglingNames' /\ NoUnreachableInodes' /\ OneNamePerDirectory'
  BY DEF Consistent, NoDanglingNames, NoUnreachableInodes, OneNamePerDirectory, HasRow, HasName
<1>4. {j \in Ino : HasRow(j)}' \subseteq issued'
  BY DEF Consistent, HasRow
<1>5. \A j \in Ino : ~HasRow(j)' => size'[j] = 0
  BY DEF Consistent, HasRow
<1> QED BY <1>1, <1>2, <1>3, <1>4, <1>5 DEF Consistent

(* One step keeps the tables consistent: one case per handler. *)
LEMMA ConsistentStep ==
  ASSUME TypeOK, TypeOK', Consistent, [Next]_vars
  PROVE  Consistent'
<1>0. Handles \subseteq Ino
  BY MaxInoAssumption DEF TypeOK, Handles, Ino
<1>1. ASSUME NEW p \in Handles, NEW n \in Names, NEW m \in Modes, Mkdir(p, n, m)
      PROVE  Consistent'
  BY <1>0, <1>1, InsertChildConsistent DEF Mkdir, KernelParent, Kinds
<1>2. ASSUME NEW p \in Handles, NEW n \in Names, NEW m \in Modes, Create(p, n, m)
      PROVE  Consistent'
  BY <1>0, <1>2, InsertChildConsistent DEF Create, KernelParent, Kinds
<1>3. ASSUME NEW p \in Handles, NEW n \in Names, NEW len \in 1..MaxLen, Symlink(p, n, len)
      PROVE  Consistent'
  BY <1>0, <1>3, InsertChildConsistent DEF Symlink, KernelParent, Kinds
<1>4. ASSUME NEW p \in Handles, NEW n \in Names, NEW i \in Handles, Link(i, p, n)
      PROVE  Consistent'
  BY <1>0, <1>4, LinkConsistent
<1>5. ASSUME NEW p \in Handles, NEW n \in Names, Unlink(p, n)
      PROVE  Consistent'
  BY <1>0, <1>5, UnlinkConsistent DEF Unlink, Removable
<1>6. ASSUME NEW p \in Handles, NEW n \in Names, Rmdir(p, n)
      PROVE  Consistent'
  BY <1>0, <1>6, UnlinkConsistent DEF Rmdir
<1>7. ASSUME NEW p \in Handles, NEW n \in Names, NEW q \in Handles, NEW m \in Names,
             NEW flag \in RenameFlags, Rename(p, n, q, m, flag)
      PROVE  Consistent'
  BY <1>0, <1>7, RenameConsistent
<1>8. ASSUME NEW i \in Handles, NEW off \in 0..MaxLen, NEW len \in 1..MaxLen,
             NEW caller \in Callers, Write(i, off, len, caller)
      PROVE  Consistent'
  <2>1. HasRow(i) /\ UNCHANGED <<kind, dentries, seq, issued>>
    BY <1>8 DEF Write, RowFound
  <2>2. modeDue' \subseteq modeDue \cup {i} /\ capDue' \subseteq capDue \cup {i}
    BY <1>8 DEF Write
  <2>3. \A j \in Ino \ {i} : UNCHANGED <<size[j], blocks[j], xattrs[j]>>
    BY <1>8 DEF Write, TypeOK
  <2> QED BY <1>0, <2>1, <2>2, <2>3, AttributeConsistent
<1>9. ASSUME NEW i \in Handles, NEW valid \in (SUBSET {"mode", "owner", "size"}) \ {{}},
             NEW newMode \in Modes, NEW newSize \in 0..(MaxLen + 1), NEW caller \in Callers,
             Setattr(i, valid, newMode, newSize, caller)
      PROVE  Consistent'
  <2>1. HasRow(i) /\ UNCHANGED <<kind, dentries, seq, issued>>
    BY <1>9 DEF Setattr, RowFound
  <2>2. modeDue' \subseteq modeDue \cup {i} /\ capDue' \subseteq capDue \cup {i}
    BY <1>9 DEF Setattr
  <2>3. \A j \in Ino \ {i} : UNCHANGED <<size[j], blocks[j], xattrs[j]>>
    BY <1>9 DEF Setattr, TypeOK
  <2> QED BY <1>0, <2>1, <2>2, <2>3, AttributeConsistent
<1>10. ASSUME NEW i \in Handles, NEW x \in XNames, NEW flag, Setxattr(i, x, flag)
       PROVE  Consistent'
  <2>1. HasRow(i) /\ UNCHANGED <<kind, dentries, seq, issued>>
    BY <1>10 DEF Setxattr, RowFound
  <2>2. modeDue' \subseteq modeDue \cup {i} /\ capDue' \subseteq capDue \cup {i}
    BY <1>10 DEF Setxattr
  <2>3. \A j \in Ino \ {i} : UNCHANGED <<size[j], blocks[j], xattrs[j]>>
    BY <1>10 DEF Setxattr, TypeOK
  <2> QED BY <1>0, <2>1, <2>2, <2>3, AttributeConsistent
<1>11. ASSUME NEW i \in Handles, NEW x \in XNames, Removexattr(i, x)
       PROVE  Consistent'
  <2>1. HasRow(i) /\ UNCHANGED <<kind, dentries, seq, issued>>
    BY <1>0, <1>11 DEF Removexattr, Consistent, NoOrphanRows
  <2>2. modeDue' \subseteq modeDue \cup {i} /\ capDue' \subseteq capDue \cup {i}
    BY <1>11 DEF Removexattr
  <2>3. \A j \in Ino \ {i} : UNCHANGED <<size[j], blocks[j], xattrs[j]>>
    BY <1>11 DEF Removexattr, TypeOK
  <2> QED BY <1>0, <2>1, <2>2, <2>3, AttributeConsistent
<1>12. CASE UNCHANGED <<tables, issued, modeDue, capDue>>
  <2>1. UNCHANGED <<kind, size, dentries, blocks, xattrs, seq, issued, modeDue, capDue>>
    BY <1>12 DEF tables
  <2>2. /\ NoDanglingNames' /\ NoUnreachableInodes' /\ OneNamePerDirectory'
        /\ NoOrphanRows' /\ {i \in Ino : HasRow(i)}' \subseteq issued'
    BY <2>1 DEF Consistent, NoDanglingNames, NoUnreachableInodes, OneNamePerDirectory,
                NoOrphanRows, HasRow, HasName
  <2>3. \A i \in Ino : ~HasRow(i)' => size'[i] = 0
    BY <2>1 DEF Consistent, HasRow
  <2> QED BY <2>1, <2>2, <2>3 DEF Consistent
<1>13. CASE (\E m \in {"rw", "ro"} : Mount(m)) \/ Unmount \/ UNCHANGED vars
  BY <1>12, <1>13 DEF Mount, Unmount, vars
<1> QED
  BY <1>1, <1>2, <1>3, <1>4, <1>5, <1>6, <1>7, <1>8, <1>9, <1>10, <1>11, <1>13
     DEF Next, NamespaceNext, AttributeNext

(* The inductive invariant of the namespace, for any number of inodes and  *)
(* names and any history of requests, refused or not.                      *)
THEOREM ConsistentAlways == Spec => []Consistent
<1>1. Init => Consistent
  BY MaxInoAssumption
     DEF Init, Consistent, NoDanglingNames, NoUnreachableInodes, OneNamePerDirectory,
         NoOrphanRows, HasRow, HasName, Root, None, NoRow, Ino
<1>2. TypeOK /\ TypeOK' /\ Consistent /\ [Next]_vars => Consistent'
  BY ConsistentStep
<1> QED BY <1>1, <1>2, TypeCorrect, PTL DEF Spec

(* What `coffer check` counts stays at zero: no name without its inode, no *)
(* inode without a name.                                                   *)
THEOREM CheckFindsNothing == Spec => [](NoDanglingNames /\ NoUnreachableInodes)
<1>1. Consistent => NoDanglingNames /\ NoUnreachableInodes
  BY DEF Consistent
<1> QED BY <1>1, ConsistentAlways, PTL

(* The second of the two counts of find_inconsistencies alone: whatever    *)
(* unlink, rmdir and rename take away, they leave no inode without a name. *)
THEOREM NothingUnreachable == Spec => []NoUnreachableInodes
<1> QED BY CheckFindsNothing, PTL

(* A handle that outlives its inode never makes rows for it, and a deleted *)
(* inode leaves none.                                                      *)
THEOREM NoRowIsOrphaned == Spec => []NoOrphanRows
<1>1. Consistent => NoOrphanRows
  BY DEF Consistent
<1> QED BY <1>1, ConsistentAlways, PTL

(* rmdir and readdir may count on a directory having one name. *)
THEOREM DirectoriesHaveOneName == Spec => []OneNamePerDirectory
<1>1. Consistent => OneNamePerDirectory
  BY DEF Consistent
<1> QED BY <1>1, ConsistentAlways, PTL

-----------------------------------------------------------------------------
(* A step gives no object a number that was handed out before: AUTOINCREMENT *)
(* counts on from the highest number ever used, and no other handler makes *)
(* a row.                                                                  *)
THEOREM NumbersNeverReused == Spec => InodeNumbersNeverReused
<1> DEFINE Step == \A i \in issued : kind'[i] \in {kind[i], NoRow}
<1>1. ASSUME TypeOK, Consistent, [Next]_vars PROVE [Step]_vars
  <2>0. issued \subseteq Ino /\ NextIno \notin issued
    <3>1. issued \subseteq 1..seq /\ seq \in Nat /\ issued \subseteq Ino
      BY <1>1, MaxInoAssumption DEF TypeOK, Consistent, Ino
    <3> QED BY <3>1 DEF NextIno
  <2>1. ASSUME NEW p, NEW n, NEW k, NEW m, NEW s, InsertChild(p, n, k, m, s)
        PROVE  Step
    BY <1>1, <2>0, <2>1 DEF InsertChild, TypeOK
  <2>2. ASSUME NEW gone, DeleteInode(gone) PROVE Step
    BY <2>0, <2>2 DEF DeleteInode
  <2>3. CASE kind' = kind
    BY <2>3
  <2>4. CASE NamespaceNext
    BY <2>1, <2>2, <2>3, <2>4 DEF NamespaceNext, Mkdir, Create, Symlink, Link, Unlink, Rmdir, Rename
  <2>5. CASE AttributeNext
    BY <2>3, <2>5 DEF AttributeNext, Write, Setattr, Setxattr, Removexattr
  <2>6. CASE (\E m \in {"rw", "ro"} : Mount(m)) \/ Unmount \/ UNCHANGED vars
    BY <2>3, <2>6 DEF Mount, Unmount, tables, vars
  <2> HIDE DEF Step
  <2> QED BY <1>1, <2>4, <2>5, <2>6 DEF Next
<1> QED BY <1>1, TypeCorrect, ConsistentAlways, PTL DEF Spec, InodeNumbersNeverReused

(* Every handler that changes a table answers EROFS first on a read-only   *)
(* mount.                                                                  *)
THEOREM ReadOnlyKeepsTables == Spec => OnlyWritableMountsChangeTables
<1> DEFINE Step == mount # "rw" => UNCHANGED tables
<1>1. ASSUME [Next]_vars PROVE [Step]_vars
  <2>1. CASE NamespaceNext
    BY <2>1 DEF NamespaceNext, Mkdir, Create, Symlink, Link, Unlink, Rmdir, Rename, Writable
  <2>2. CASE AttributeNext
    BY <2>2 DEF AttributeNext, Write, Setattr, Setxattr, Removexattr, Writable
  <2>3. CASE (\E m \in {"rw", "ro"} : Mount(m)) \/ Unmount \/ UNCHANGED vars
    BY <2>3 DEF Mount, Unmount, vars
  <2> QED BY <1>1, <2>1, <2>2, <2>3 DEF Next
<1> QED BY <1>1, PTL DEF Spec, OnlyWritableMountsChangeTables

(* A number about to be handed out has no rows and nothing due. *)
LEMMA FreshNumber ==
  ASSUME TypeOK, Consistent, seq < MaxIno
  PROVE  /\ NextIno \in Ino /\ NextIno \notin issued
         /\ kind[NextIno] = NoRow /\ blocks[NextIno] = {}
         /\ NextIno \notin modeDue \cup capDue
<1>1. NextIno \in Ino /\ NextIno \notin issued
  BY MaxInoAssumption DEF TypeOK, Consistent, NextIno, Ino
<1> QED BY <1>1 DEF Consistent, NoOrphanRows, HasRow

(* No handler stores or keeps a block past the end of its file. *)
LEMMA BlocksWithinSizeStep ==
  ASSUME TypeOK, Consistent, BlocksWithinSize, [Next]_vars
  PROVE  BlocksWithinSize'
<1>0. Handles \subseteq Ino
  BY MaxInoAssumption DEF TypeOK, Handles, Ino
<1>1. ASSUME NEW p, NEW n, NEW k, NEW m, NEW s, InsertChild(p, n, k, m, s)
      PROVE  BlocksWithinSize'
  BY <1>1, FreshNumber DEF InsertChild, TypeOK, BlocksWithinSize
<1>2. ASSUME NEW gone, DeleteInode(gone) PROVE BlocksWithinSize'
  BY <1>2 DEF DeleteInode, TypeOK, BlocksWithinSize
<1>3. CASE UNCHANGED <<blocks, size>>
  BY <1>3 DEF BlocksWithinSize
<1>4. CASE NamespaceNext
  BY <1>1, <1>2, <1>3, <1>4 DEF NamespaceNext, Mkdir, Create, Symlink, Link, Unlink, Rmdir, Rename
<1>5. ASSUME NEW i \in Handles, NEW off \in 0..MaxLen, NEW len \in 1..MaxLen,
             NEW caller \in Callers, Write(i, off, len, caller)
      PROVE  BlocksWithinSize'
  <2>1. /\ blocks' = [blocks EXCEPT ![i] = @ \cup StoredBlocks(off, len)]
        /\ size' = [size EXCEPT ![i] = IF off + len > @ THEN off + len ELSE @]
    BY <1>5 DEF Write
  <2> SUFFICES ASSUME NEW j \in Ino, NEW b \in blocks'[j]
               PROVE  b * BlockSize < size'[j]
    BY DEF BlocksWithinSize
  <2>2. CASE j # i
    BY <2>1, <2>2 DEF TypeOK, BlocksWithinSize
  <2>3. CASE j = i
    <3>1. /\ size[i] \in Nat /\ off \in Nat /\ len \in Nat \ {0}
          /\ size'[i] = IF off + len > size[i] THEN off + len ELSE size[i]
      BY <1>0, <2>1, MaxLenAssumption DEF TypeOK
    <3>2. CASE b \in blocks[i]
      <4>1. b * BlockSize < size[i] /\ b * BlockSize \in Nat
        BY <1>0, <3>2, BlockSizeAssumption, MaxLenAssumption DEF BlocksWithinSize, TypeOK
      <4> QED BY <4>1, <3>1, <2>3
    <3>3. CASE b \in StoredBlocks(off, len)
      <4>1. b \in Nat /\ b * BlockSize < off + len /\ b * BlockSize \in Nat
        BY <3>1, <3>3, StoredBlocksFact, BlockSizeAssumption
      <4> QED BY <4>1, <3>1, <2>3
    <3> QED BY <1>0, <2>1, <2>3, <3>2, <3>3 DEF TypeOK
  <2> QED BY <2>2, <2>3
<1>6. ASSUME NEW i \in Handles, NEW valid, NEW newMode, NEW newSize, NEW caller,
             Setattr(i, valid, newMode, newSize, caller)
      PROVE  BlocksWithinSize'
  <2>1. CASE "size" \in valid
    <3>1. /\ size' = [size EXCEPT ![i] = newSize]
          /\ blocks' = [blocks EXCEPT ![i] = Truncated(@, newSize)]
      BY <1>6, <2>1 DEF Setattr
    <3> QED BY <3>1 DEF TypeOK, BlocksWithinSize, Truncated
  <2>2. CASE "size" \notin valid
    BY <1>3, <1>6, <2>2 DEF Setattr
  <2> QED BY <2>1, <2>2
<1>7. CASE AttributeNext
  <2>1. ASSUME NEW i \in Handles, NEW x, NEW flag, Setxattr(i, x, flag) \/ Removexattr(i, x)
        PROVE  BlocksWithinSize'
    BY <1>3, <2>1 DEF Setxattr, Removexattr
  <2> QED BY <1>5, <1>6, <1>7, <2>1 DEF AttributeNext
<1>8. CASE (\E m \in {"rw", "ro"} : Mount(m)) \/ Unmount \/ UNCHANGED vars
  BY <1>3, <1>8 DEF Mount, Unmount, tables, vars
<1> QED BY <1>4, <1>7, <1>8 DEF Next

(* After any cut and any growth, nothing of the old contents is left past  *)
(* the end.                                                                *)
THEOREM NoBlockPastTheEnd == Spec => []BlocksWithinSize
<1>1. Init => BlocksWithinSize
  BY DEF Init, BlocksWithinSize
<1>2. TypeOK /\ Consistent /\ BlocksWithinSize /\ [Next]_vars => BlocksWithinSize'
  BY BlocksWithinSizeStep
<1> QED BY <1>1, <1>2, TypeCorrect, ConsistentAlways, PTL DEF Spec

(* kill_priv leaves no privilege, and takes nothing else away. *)
LEMMA KillPrivFact ==
  ASSUME NEW m, NEW x
  PROVE  /\ "suid" \notin KillMode(m) /\ ~({"sgid", "gx"} \subseteq KillMode(m))
         /\ KillMode(m) \subseteq m
         /\ Capability \notin KillXattrs(x) /\ KillXattrs(x) \subseteq x
  BY DEF KillMode, KillXattrs

(* One step drops what is due: one case per handler. *)
LEMMA PrivilegesStep ==
  ASSUME TypeOK, Consistent, PrivilegesDropped, [Next]_vars
  PROVE  PrivilegesDropped'
<1>0. Handles \subseteq Ino
  BY MaxInoAssumption DEF TypeOK, Handles, Ino
<1>1. ASSUME NEW p, NEW n, NEW k, NEW m, NEW s, InsertChild(p, n, k, m, s)
      PROVE  PrivilegesDropped'
  BY <1>1, FreshNumber DEF InsertChild, TypeOK, PrivilegesDropped
<1>2. ASSUME NEW gone, DeleteInode(gone) PROVE PrivilegesDropped'
  BY <1>2 DEF DeleteInode, PrivilegesDropped
<1>3. CASE UNCHANGED <<mode, xattrs, modeDue, capDue>>
  BY <1>3 DEF PrivilegesDropped
<1>4. CASE NamespaceNext
  BY <1>1, <1>2, <1>3, <1>4 DEF NamespaceNext, Mkdir, Create, Symlink, Link, Unlink, Rmdir, Rename
(* What write and setattr have in common: either the privileges of i are   *)
(* dropped, or nothing becomes due.                                        *)
<1>5. ASSUME NEW i \in Ino, NEW asked,
             mode' = [mode EXCEPT ![i] = KillMode(asked)],
             xattrs' = [xattrs EXCEPT ![i] = KillXattrs(@)],
             modeDue' \subseteq modeDue \cup {i}, capDue' \subseteq capDue \cup {i}
      PROVE  PrivilegesDropped'
  BY <1>5, KillPrivFact DEF TypeOK, PrivilegesDropped
<1>6. ASSUME NEW i \in Handles, NEW off, NEW len, NEW caller, Write(i, off, len, caller)
      PROVE  PrivilegesDropped'
  <2>1. CASE caller = "user"
    BY <1>0, <1>5, <1>6, <2>1 DEF Write
  <2>2. CASE caller # "user"
    BY <1>3, <1>6, <2>2 DEF Write
  <2> QED BY <2>1, <2>2
<1>7. ASSUME NEW i \in Handles, NEW valid, NEW newMode, NEW newSize, NEW caller \in Callers,
             Setattr(i, valid, newMode, newSize, caller)
      PROVE  PrivilegesDropped'
  <2> DEFINE asked == IF "mode" \in valid THEN newMode ELSE mode[i]
  <2>1. CASE "mode" \in valid
    <3>1. ~SetattrKills(i, valid, caller)
      BY <2>1 DEF SetattrKills
    <3>2. /\ mode' = [mode EXCEPT ![i] = newMode]
          /\ \A j \in Ino : xattrs'[j] = xattrs[j]
          /\ modeDue' = modeDue \ {i} /\ capDue' = capDue
      BY <1>7, <2>1, <3>1 DEF Setattr, TypeOK
    <3> QED BY <3>2 DEF PrivilegesDropped, TypeOK
  <2>2. CASE "mode" \notin valid /\ SetattrKills(i, valid, caller)
    <3>1. /\ mode' = [mode EXCEPT ![i] = KillMode(mode[i])]
          /\ xattrs' = [xattrs EXCEPT ![i] = KillXattrs(@)]
      BY <1>7, <2>2 DEF Setattr
    <3>2. modeDue' \subseteq modeDue \cup {i} /\ capDue' \subseteq capDue \cup {i}
      BY <1>7, <2>2 DEF Setattr
    <3> QED BY <1>0, <1>5, <3>1, <3>2
  <2>3. CASE "mode" \notin valid /\ ~SetattrKills(i, valid, caller)
    <3>1. ~Disturbs(i, valid, caller)
      BY <2>3 DEF SetattrKills, Disturbs, Callers
    <3>2. modeDue' = modeDue /\ capDue' = capDue
      BY <1>7, <2>3, <3>1 DEF Setattr
    <3>3. \A j \in Ino : mode'[j] = mode[j] /\ xattrs'[j] = xattrs[j]
      BY <1>7, <2>3 DEF Setattr, TypeOK
    <3> QED BY <3>2, <3>3 DEF PrivilegesDropped
  <2> QED BY <2>1, <2>2, <2>3
<1>8. ASSUME NEW i \in Handles, NEW x, NEW flag, Setxattr(i, x, flag)
      PROVE  PrivilegesDropped'
  BY <1>8 DEF Setxattr, TypeOK, PrivilegesDropped
<1>9. ASSUME NEW i \in Handles, NEW x, Removexattr(i, x)
      PROVE  PrivilegesDropped'
  BY <1>9 DEF Removexattr, TypeOK, PrivilegesDropped
<1>10. CASE AttributeNext
  BY <1>6, <1>7, <1>8, <1>9, <1>10 DEF AttributeNext
<1>11. CASE (\E m \in {"rw", "ro"} : Mount(m)) \/ Unmount \/ UNCHANGED vars
  BY <1>3, <1>11 DEF Mount, Unmount, tables, vars
<1> QED BY <1>4, <1>10, <1>11 DEF Next

(* The kill-privileges duty is met whatever requests come in what order. *)
THEOREM PrivilegesAreDropped == Spec => []PrivilegesDropped
<1>1. Init => PrivilegesDropped
  BY DEF Init, PrivilegesDropped
<1>2. TypeOK /\ Consistent /\ PrivilegesDropped /\ [Next]_vars => PrivilegesDropped'
  BY PrivilegesStep
<1> QED BY <1>1, <1>2, TypeCorrect, ConsistentAlways, PTL DEF Spec

-----------------------------------------------------------------------------
(* Induction on the natural numbers for a set: the form that needs no      *)
(* operator parameter.                                                     *)
LEMMA SetInduction ==
  ASSUME NEW S, 0 \in S, \A n \in Nat : n \in S => n + 1 \in S
  PROVE  Nat \subseteq S
<1> DEFINE T == Nat \ S
           R == {ss \in Nat \X Nat : ss[1] < ss[2]}
<1>1. SUFFICES ASSUME T # {} PROVE FALSE
  OBVIOUS
<1>2. IsWellFoundedOn(R, Nat)
  BY NatLessThanWellFounded, Zenon DEF OpToRel
<1>3. T \subseteq Nat
  OBVIOUS
<1> HIDE DEF R
<1>4. PICK x \in T : \A y \in T : ~(<<y, x>> \in R)
  BY <1>1, <1>2, <1>3, WFMin
<1>5. \A y \in T : ~(y < x)
  BY <1>4 DEF R
<1>6. x # 0 /\ x - 1 \in Nat /\ x - 1 \notin T
  BY <1>5
<1>7. (x - 1) + 1 \in S
  BY <1>6
<1> QED BY <1>6, <1>7

(* The tables of entries, as TypeOK has them. *)
DentryTables == [Ino -> [Names -> Ino \cup {None}]]

(* The recursive function inside Subtree, as an equation of its own: TLAPS *)
(* knows a recursive function as a CHOOSE, so that one exists, and what it *)
(* computes, has to be shown.                                              *)
IsLevel(level, d, i) ==
  level = [k \in 0..MaxIno |->
             IF k = 0 THEN {i} ELSE level[k - 1] \cup Children(d, level[k - 1])]

(* Subtree is the last level. *)
LEMMA SubtreeIsALevel ==
  ASSUME NEW d, NEW i
  PROVE  Subtree(d, i) = (CHOOSE level : IsLevel(level, d, i))[MaxIno]
  BY Zenon DEF Subtree, IsLevel

(* The levels exist, built one upon another. *)
LEMMA LevelsExist ==
  ASSUME NEW d, NEW i
  PROVE  \E level : IsLevel(level, d, i)
<1> DEFINE Upto(level, n) ==
      level = [k \in 0..n |->
             IF k = 0 THEN {i} ELSE level[k - 1] \cup Children(d, level[k - 1])]
<1> DEFINE S == {n \in Nat : \E level : Upto(level, n)}
<1>1. 0 \in S
  <2> DEFINE one == [k \in 0..0 |-> {i}]
  <2>1. Upto(one, 0)
    OBVIOUS
  <2> QED BY <2>1
<1>2. ASSUME NEW n \in Nat, n \in S PROVE n + 1 \in S
  <2>1. PICK level : Upto(level, n)
    BY <1>2
  <2>1a. \A k \in 0..n : level[k] = IF k = 0 THEN {i} ELSE level[k - 1] \cup Children(d, level[k - 1])
    BY <2>1
  <2> DEFINE more == [k \in 0..(n + 1) |->
              IF k = n + 1 THEN level[n] \cup Children(d, level[n]) ELSE level[k]]
  <2>2. \A k \in 0..n : more[k] = level[k]
    OBVIOUS
  <2>3. ASSUME NEW k \in 0..(n + 1)
        PROVE  more[k] = IF k = 0 THEN {i} ELSE more[k - 1] \cup Children(d, more[k - 1])
    <3>1. CASE k = 0
      <4>1. 0 \in 0..n
        OBVIOUS
      <4> HIDE DEF more
      <4> QED BY <4>1, <3>1, <2>1a, <2>2
    <3>2. CASE k # 0
      <4>1. k - 1 \in 0..n /\ more[k - 1] = level[k - 1]
        BY <3>2, <2>2
      <4>2. CASE k = n + 1
        <5>1. k - 1 = n
          BY <4>2
        <5> QED BY <4>1, <4>2, <3>2, <5>1
      <4>3. CASE k # n + 1
        <5>1. k \in 0..n /\ more[k] = level[k]
          BY <4>3
        <5> HIDE DEF more
        <5> QED BY <4>1, <5>1, <3>2, <2>1a
      <4> QED BY <4>2, <4>3
    <3> QED BY <3>1, <3>2
  <2>4. Upto(more, n + 1)
    <3>1. more = [k \in 0..(n + 1) |-> more[k]]
      OBVIOUS
    <3> HIDE DEF more
    <3>2. [k \in 0..(n + 1) |-> more[k]] =
           [k \in 0..(n + 1) |-> IF k = 0 THEN {i} ELSE more[k - 1] \cup Children(d, more[k - 1])]
      BY <2>3
    <3> QED BY <3>1, <3>2
  <2> HIDE DEF Upto, more
  <2>5. \E l : Upto(l, n + 1)
    BY <2>4
  <2> QED BY <2>5
<1> HIDE DEF S
<1>3. Nat \subseteq S
  BY <1>1, <1>2, SetInduction
<1>4. MaxIno \in S
  BY <1>3, MaxInoAssumption
<1> QED BY <1>4 DEF S, IsLevel

(* The level function Subtree stands for, equation by equation. *)
LEMMA SubtreeLevels ==
  ASSUME NEW d, NEW i
  PROVE  \E level :
           /\ Subtree(d, i) = level[MaxIno]
           /\ level[0] = {i}
           /\ \A k \in Nat : k < MaxIno =>
                level[k + 1] = level[k] \cup Children(d, level[k])
<1> DEFINE level == CHOOSE f : IsLevel(f, d, i)
<1>1. IsLevel(level, d, i)
  BY LevelsExist
<1>2. Subtree(d, i) = level[MaxIno]
  BY SubtreeIsALevel
<1> HIDE DEF level
<1>3. \A k \in 0..MaxIno :
        level[k] = IF k = 0 THEN {i} ELSE level[k - 1] \cup Children(d, level[k - 1])
  BY <1>1 DEF IsLevel
<1>4. level[0] = {i}
  <2>1. 0 \in 0..MaxIno
    BY MaxInoAssumption
  <2> QED BY <1>3, <2>1
<1>5. ASSUME NEW k \in Nat, k < MaxIno
      PROVE  level[k + 1] = level[k] \cup Children(d, level[k])
  <2>1. PICK j \in 0..MaxIno : j = k + 1 /\ j # 0 /\ j - 1 = k
    BY <1>5, MaxInoAssumption
  <2>2. level[j] = level[j - 1] \cup Children(d, level[j - 1])
    BY <2>1, <1>3
  <2> QED BY <2>1, <2>2
<1> QED BY <1>2, <1>4, <1>5

(* A set with i that holds the children of its members holds the subtree. *)
LEMMA SubtreeLeast ==
  ASSUME NEW d, NEW i, NEW S, i \in S, Children(d, S) \subseteq S
  PROVE  Subtree(d, i) \subseteq S
<1>1. PICK level :
        /\ Subtree(d, i) = level[MaxIno]
        /\ level[0] = {i}
        /\ \A k \in Nat : k < MaxIno =>
             level[k + 1] = level[k] \cup Children(d, level[k])
  BY SubtreeLevels
<1> DEFINE Good == {k \in Nat : k <= MaxIno => level[k] \subseteq S}
<1>2. 0 \in Good
  BY <1>1
<1>3. ASSUME NEW k \in Nat, k \in Good PROVE k + 1 \in Good
  <2> SUFFICES ASSUME k + 1 <= MaxIno PROVE level[k + 1] \subseteq S
    OBVIOUS
  <2>1. k < MaxIno /\ k <= MaxIno
    BY MaxInoAssumption
  <2>2. level[k] \subseteq S
    BY <1>3, <2>1
  <2>3. Children(d, level[k]) \subseteq Children(d, S)
    BY <2>2 DEF Children
  <2> QED BY <1>1, <2>1, <2>2, <2>3
<1> HIDE DEF Good
<1>4. Nat \subseteq Good
  BY <1>2, <1>3, SetInduction
<1>5. MaxIno \in Good
  BY <1>4, MaxInoAssumption
<1> QED BY <1>1, <1>5, MaxInoAssumption DEF Good

(* MaxIno levels are enough: the subtree holds the children of its         *)
(* members, because a level either adds an inode or is the last.           *)
LEMMA SubtreeClosed ==
  ASSUME NEW d \in DentryTables, NEW i \in Ino
  PROVE  /\ i \in Subtree(d, i) /\ Subtree(d, i) \subseteq Ino
         /\ Children(d, Subtree(d, i)) \subseteq Subtree(d, i)
<1>1. PICK level :
        /\ Subtree(d, i) = level[MaxIno]
        /\ level[0] = {i}
        /\ \A k \in Nat : k < MaxIno =>
             level[k + 1] = level[k] \cup Children(d, level[k])
  BY SubtreeLevels
<1> DEFINE Done(k) == Cardinality(level[k]) >= k + 1 \/ Children(d, level[k]) \subseteq level[k]
           Good == {k \in Nat : k <= MaxIno => /\ i \in level[k] /\ level[k] \subseteq Ino
                                               /\ Done(k)}
<1>2. IsFiniteSet(Ino) /\ Cardinality(Ino) = MaxIno
  BY FS_Interval, MaxInoAssumption DEF Ino
<1>3. 0 \in Good
  <2>1. Cardinality(level[0]) = 1
    BY <1>1, FS_Singleton
  <2> QED BY <1>1, <2>1
<1>4. ASSUME NEW k \in Nat, k \in Good PROVE k + 1 \in Good
  <2> SUFFICES ASSUME k + 1 <= MaxIno
               PROVE  i \in level[k + 1] /\ level[k + 1] \subseteq Ino /\ Done(k + 1)
    OBVIOUS
  <2>1. k < MaxIno /\ k <= MaxIno
    BY MaxInoAssumption
  <2>2. i \in level[k] /\ level[k] \subseteq Ino /\ Done(k)
    BY <1>4, <2>1
  <2>3. level[k + 1] = level[k] \cup Children(d, level[k])
    BY <1>1, <2>1
  <2>4. Children(d, level[k]) \subseteq Ino
    BY <2>2 DEF Children, DentryTables
  <2>5. Done(k + 1)
    <3>1. CASE Children(d, level[k]) \subseteq level[k]
      <4>1. level[k + 1] = level[k]
        BY <3>1, <2>3
      <4> QED BY <3>1, <4>1
    <3>2. CASE ~(Children(d, level[k]) \subseteq level[k])
      <4>1. Cardinality(level[k]) >= k + 1
        BY <2>2, <3>2
      <4>2. level[k] \subseteq level[k + 1] /\ level[k] # level[k + 1] /\ level[k + 1] \subseteq Ino
        BY <2>2, <2>3, <2>4, <3>2
      <4>3. IsFiniteSet(level[k + 1])
        BY <1>2, <4>2, FS_Subset
      <4>4. /\ Cardinality(level[k + 1]) \in Nat /\ Cardinality(level[k]) \in Nat
            /\ Cardinality(level[k]) < Cardinality(level[k + 1])
        BY <4>2, <4>3, FS_Subset, FS_CardinalityType
      <4> QED BY <4>1, <4>4
    <3> QED BY <3>1, <3>2
  <2> QED BY <2>2, <2>3, <2>4, <2>5
<1> HIDE DEF Good
<1>5. Nat \subseteq Good
  BY <1>3, <1>4, SetInduction
<1>6. i \in level[MaxIno] /\ level[MaxIno] \subseteq Ino /\ Done(MaxIno)
  BY <1>5, MaxInoAssumption DEF Good
<1>7. Children(d, level[MaxIno]) \subseteq level[MaxIno]
  <2>1. Cardinality(level[MaxIno]) <= MaxIno /\ Cardinality(level[MaxIno]) \in Nat
    BY <1>2, <1>6, FS_Subset, FS_CardinalityType
  <2> QED BY <1>6, <2>1, MaxInoAssumption
<1> QED BY <1>1, <1>6, <1>7

(* A set of inodes with the root that holds the children of its members    *)
(* holds every inode.                                                      *)
LEMMA RowsWithinClosed ==
  ASSUME TypeOK, AllReachableFromRoot,
         NEW S, Root \in S,
         \A a \in S, b \in Names : dentries[a][b] # None => dentries[a][b] \in S
  PROVE  \A i \in Ino : HasRow(i) => i \in S
<1>1. Children(dentries, S) \subseteq S
  BY DEF Children
<1>2. Subtree(dentries, Root) \subseteq S
  BY <1>1, SubtreeLeast
<1> QED BY <1>2 DEF AllReachableFromRoot

(* What the paths from the root reach after a step, to be compared with    *)
(* what they reached before.                                               *)
LEMMA ReachedAfter ==
  ASSUME TypeOK'
  PROVE  \E T : /\ Subtree(dentries', Root) = T
                /\ Root \in T /\ T \subseteq Ino
                /\ \A a \in T, b \in Names : dentries'[a][b] # None => dentries'[a][b] \in T
<1> DEFINE T == Subtree(dentries', Root)
<1>1. Root \in Ino /\ dentries' \in DentryTables
  BY MaxInoAssumption DEF Root, Ino, TypeOK, DentryTables
<1> HIDE DEF T
<1>2. Root \in T /\ T \subseteq Ino /\ Children(dentries', T) \subseteq T
  BY <1>1, SubtreeClosed DEF T
<1>3. \A a \in T, b \in Names : dentries'[a][b] # None => dentries'[a][b] \in T
  BY <1>2 DEF Children
<1> QED BY <1>2, <1>3 DEF T

(* A new entry only adds a way down. *)
LEMMA InsertReachable ==
  ASSUME TypeOK, TypeOK', AllReachableFromRoot,
         NEW p \in Ino, NEW n \in Names, NEW i \in Ino,
         kind[p] = "dir", dentries[p][n] = None,
         dentries' = LinkDentry(dentries, p, n, i),
         \A j \in Ino \ {i} : kind'[j] = kind[j]
  PROVE  AllReachableFromRoot'
<1>1. PICK T : /\ Subtree(dentries', Root) = T
               /\ Root \in T /\ T \subseteq Ino
               /\ \A a \in T, b \in Names : dentries'[a][b] # None => dentries'[a][b] \in T
  BY ReachedAfter
<1>2. \A a \in Ino, b \in Names :
        dentries'[a][b] = IF a = p /\ b = n THEN i ELSE dentries[a][b]
  <2>1. dentries \in [Ino -> [Names -> Ino \cup {None}]]
    BY DEF TypeOK
  <2> QED BY <2>1, LinkFact
<1>3. \A a \in T, b \in Names : dentries[a][b] # None => dentries[a][b] \in T
  BY <1>1, <1>2
<1>4. \A j \in Ino : HasRow(j) => j \in T
  BY <1>1, <1>3, RowsWithinClosed
<1>5. i \in T
  <2>1. p \in T
    BY <1>4 DEF HasRow, NoRow
  <2>2. i # None
    BY MaxInoAssumption DEF Ino, None
  <2> QED BY <1>1, <1>2, <2>1, <2>2
<1> QED BY <1>1, <1>4, <1>5 DEF AllReachableFromRoot, HasRow

(* A name goes, and the inode with it if it was the last: since it held no *)
(* entry, nothing else was reached through it.                             *)
LEMMA UnlinkReachable ==
  ASSUME TypeOK, TypeOK', Consistent, AllReachableFromRoot, NEW p \in Ino, NEW n \in Names,
         dentries[p][n] # None, Removable(dentries[p][n]),
         dentries' = DropDentry(dentries, p, n),
         DeleteInode(Nameless(dentries', dentries[p][n]))
  PROVE  AllReachableFromRoot'
<1> DEFINE t == dentries[p][n]
           gone == Nameless(dentries', t)
<1>1. PICK T : /\ Subtree(dentries', Root) = T
               /\ Root \in T /\ T \subseteq Ino
               /\ \A a \in T, b \in Names : dentries'[a][b] # None => dentries'[a][b] \in T
  BY ReachedAfter
<1>2. \A a \in Ino, b \in Names :
        dentries'[a][b] = IF a = p /\ b = n THEN None ELSE dentries[a][b]
  <2>1. dentries \in [Ino -> [Names -> Ino \cup {None}]]
    BY DEF TypeOK
  <2> QED BY <2>1, DropFact
<1>3. t \in Ino
  BY DEF TypeOK
<1>4. \A b \in Names : dentries[t][b] = None
  BY <1>3, Childless
<1>5. /\ dentries[p][n] = t
      /\ \A i \in Ino : HasRow(i)' => HasRow(i) /\ (i = t => HasName(dentries', t))
  BY DEF DeleteInode, HasRow, Nameless
<1> HIDE DEF t, gone
<1>6. \A i \in Ino : HasRow(i) => i \in T \cup {t}
  <2>1. \A a \in T \cup {t}, b \in Names :
          dentries[a][b] # None => dentries[a][b] \in T \cup {t}
    BY <1>1, <1>2, <1>4, <1>5
  <2> QED BY <1>1, <2>1, RowsWithinClosed
<1>7. HasName(dentries', t) => t \in T
  <2> SUFFICES ASSUME NEW a \in Ino, NEW b \in Names, dentries'[a][b] = t
               PROVE  t \in T
    BY DEF HasName
  <2>1. t # None
    BY <1>3, MaxInoAssumption DEF Ino, None
  <2>2. dentries[a][b] = t
    BY <1>2, <2>1
  <2>3. HasRow(a) /\ a # t
    BY <1>4, <2>1, <2>2 DEF Consistent, NoDanglingNames, HasRow, NoRow
  <2> QED BY <1>1, <1>6, <2>1, <2>3
<1> QED BY <1>1, <1>5, <1>6, <1>7 DEF AllReachableFromRoot

(* rename moves a subtree whole: its new parent is still reached, because  *)
(* the kernel lets nothing move below itself, and what it replaces held no *)
(* entry.                                                                  *)
LEMMA RenameReachable ==
  ASSUME TypeOK, TypeOK', Consistent, AllReachableFromRoot,
         NEW p \in Ino, NEW n \in Names, NEW q \in Ino, NEW m \in Names, NEW flag,
         Rename(p, n, q, m, flag)
  PROVE  AllReachableFromRoot'
<1> DEFINE src == dentries[p][n]
           t == dentries[q][m]
           d == DropDentry(dentries, q, m)
<1>1. /\ src \in Ino /\ t # src /\ t \in Ino \cup {None}
      /\ t # None => Removable(t)
      /\ kind[q] = "dir"
      /\ kind[src] = "dir" => q \notin Subtree(dentries, src)
      /\ dentries' = DropDentry(LinkDentry(d, q, m, src), p, n)
      /\ DeleteInode(IF t = None THEN {} ELSE Nameless(d, t))
  BY DEF Rename, TypeOK, KernelParent, KernelRename
<1>2. t # None => \A b \in Names : dentries[t][b] = None
  BY <1>1, Childless
<1>3. \A a \in Ino, b \in Names :
        /\ d[a][b] = IF a = q /\ b = m THEN None ELSE dentries[a][b]
        /\ dentries'[a][b] = IF a = p /\ b = n THEN None
                            ELSE IF a = q /\ b = m THEN src ELSE dentries[a][b]
  BY RenameEntries, <1>1
<1>4. ~(p = q /\ n = m)
  BY <1>1
<1>5. \A i \in Ino : HasRow(i)' => HasRow(i) /\ (i = t => HasName(d, t))
  BY <1>1, MaxInoAssumption DEF DeleteInode, HasRow, Nameless, Ino, None
<1>6. dentries[p][n] = src /\ dentries[q][m] = t /\ None \notin Ino
  BY MaxInoAssumption DEF Ino, None
<1>7. HasRow(q)
  BY <1>1 DEF HasRow, NoRow
<1> HIDE DEF t, src, d
<1>8. PICK T : /\ Subtree(dentries', Root) = T
               /\ Root \in T /\ T \subseteq Ino
               /\ \A a \in T, b \in Names : dentries'[a][b] # None => dentries'[a][b] \in T
  BY ReachedAfter
<1> DEFINE X == {t} \ {None}
<1>9. src \in T
  <2> SUFFICES ASSUME src \notin T PROVE FALSE
    OBVIOUS
  <2>1. q \notin T
    BY <1>1, <1>3, <1>4, <1>6, <1>8
  <2> DEFINE U == Subtree(dentries, src)
  <2>2. src \in U /\ U \subseteq Ino
        /\ \A a \in U, b \in Names : dentries[a][b] # None => dentries[a][b] \in U
    <3>1. dentries \in DentryTables
      BY DEF TypeOK, DentryTables
    <3>2. src \in U /\ U \subseteq Ino /\ Children(dentries, U) \subseteq U
      BY <1>1, <3>1, SubtreeClosed
    <3> HIDE DEF U
    <3> QED BY <3>2 DEF Children
  <2>3. q \notin U
    <3>1. CASE kind[src] = "dir"
      BY <1>1, <3>1
    <3>2. CASE kind[src] # "dir"
      <4>1. \A b \in Names : dentries[src][b] = None
        BY <1>1, <3>2 DEF Consistent, NoDanglingNames
      <4>2. Children(dentries, {src}) \subseteq {src}
        BY <4>1 DEF Children
      <4>3. U \subseteq {src}
        BY <4>2, SubtreeLeast
      <4> QED BY <1>1, <3>2, <4>3
    <3> QED BY <3>1, <3>2
  <2> HIDE DEF U
  <2>4. q \in T \cup U \cup X
    <3>1. \A a \in T \cup U \cup X, b \in Names :
            dentries[a][b] # None => dentries[a][b] \in T \cup U \cup X
      <4> SUFFICES ASSUME NEW a \in T \cup U \cup X, NEW b \in Names, dentries[a][b] # None
                   PROVE  dentries[a][b] \in T \cup U \cup X
        OBVIOUS
      <4>1. CASE a \in T
        BY <1>3, <1>6, <1>8, <2>2, <4>1
      <4>2. CASE a \in U
        BY <2>2, <4>2
      <4>3. CASE a \in X
        BY <1>2, <4>3
      <4> QED BY <4>1, <4>2, <4>3
    <3>2. Root \in T \cup U \cup X
      BY <1>8
    <3> DEFINE S == T \cup U \cup X
    <3>3. \A i \in Ino : HasRow(i) => i \in S
      <4> HIDE DEF X
      <4>1. Root \in S /\ \A a \in S, b \in Names : dentries[a][b] # None => dentries[a][b] \in S
        BY <3>1, <3>2
      <4> HIDE DEF S
      <4> QED BY <4>1, RowsWithinClosed
    <3> QED BY <1>7, <3>3
  <2>5. q \notin X
    BY <1>2, <1>6
  <2> QED BY <2>1, <2>3, <2>4, <2>5
<1>10. \A i \in Ino : HasRow(i) => i \in T \cup X
  <2>1. ASSUME NEW a \in T \cup X, NEW b \in Names, dentries[a][b] # None
        PROVE  dentries[a][b] \in T \cup X
    <3>1. CASE a \in T
      BY <1>3, <1>6, <1>8, <1>9, <2>1, <3>1
    <3>2. CASE a \in X
      BY <1>2, <2>1, <3>2
    <3> QED BY <2>1, <3>1, <3>2
  <2> DEFINE S == T \cup X
  <2>2. Root \in S /\ \A a \in S, b \in Names : dentries[a][b] # None => dentries[a][b] \in S
    BY <1>8, <2>1
  <2> HIDE DEF S
  <2>3. \A i \in Ino : HasRow(i) => i \in S
    BY <2>2, RowsWithinClosed
  <2> QED BY <2>3 DEF S
<1>11. t # None /\ HasName(d, t) => t \in T
  <2> SUFFICES ASSUME t # None, NEW a \in Ino, NEW b \in Names, d[a][b] = t
               PROVE  t \in T
    BY DEF HasName
  <2>1. dentries[a][b] = t /\ dentries'[a][b] = t
    BY <1>1, <1>3, <1>6
  <2>2. HasRow(a) /\ a # t
    BY <1>2, <2>1 DEF Consistent, NoDanglingNames, HasRow, NoRow
  <2> QED BY <1>8, <1>10, <2>1, <2>2
<1> QED BY <1>5, <1>6, <1>8, <1>10, <1>11 DEF AllReachableFromRoot

(* One step keeps every inode within reach: one case per handler. *)
LEMMA ReachableStep ==
  ASSUME TypeOK, TypeOK', Consistent, AllReachableFromRoot, [Next]_vars
  PROVE  AllReachableFromRoot'
<1>0. Handles \subseteq Ino
  BY MaxInoAssumption DEF TypeOK, Handles, Ino
<1>1. ASSUME NEW p \in Ino, NEW n \in Names, NEW k, NEW m, NEW s,
             kind[p] = "dir", dentries[p][n] = None, InsertChild(p, n, k, m, s)
      PROVE  AllReachableFromRoot'
  <2>1. NextIno \in Ino
    BY <1>1, MaxInoAssumption DEF InsertChild, NextIno, TypeOK, Ino
  <2>2. dentries' = LinkDentry(dentries, p, n, NextIno)
    BY <1>1 DEF InsertChild
  <2>3. \A j \in Ino \ {NextIno} : kind'[j] = kind[j]
    BY <1>1 DEF InsertChild, TypeOK
  <2> QED BY <1>1, <2>1, <2>2, <2>3, InsertReachable
<1>2. ASSUME NEW p \in Handles, NEW n \in Names, NEW i \in Handles, Link(i, p, n)
      PROVE  AllReachableFromRoot'
  BY <1>0, <1>2, InsertReachable DEF Link, KernelParent
<1>3. ASSUME NEW p \in Handles, NEW n \in Names, Unlink(p, n) \/ Rmdir(p, n)
      PROVE  AllReachableFromRoot'
  BY <1>0, <1>3, UnlinkReachable DEF Unlink, Rmdir, Removable
<1>4. ASSUME NEW p \in Handles, NEW n \in Names, NEW q \in Handles, NEW m \in Names,
             NEW flag \in RenameFlags, Rename(p, n, q, m, flag)
      PROVE  AllReachableFromRoot'
  BY <1>0, <1>4, RenameReachable
<1>5. CASE NamespaceNext
  BY <1>0, <1>1, <1>2, <1>3, <1>4, <1>5 DEF NamespaceNext, Mkdir, Create, Symlink, KernelParent
<1>6. CASE UNCHANGED <<kind, dentries>>
  BY <1>6 DEF AllReachableFromRoot, HasRow
<1>7. CASE AttributeNext
  BY <1>6, <1>7 DEF AttributeNext, Write, Setattr, Setxattr, Removexattr
<1>8. CASE (\E m \in {"rw", "ro"} : Mount(m)) \/ Unmount \/ UNCHANGED vars
  BY <1>6, <1>8 DEF Mount, Unmount, tables, vars
<1> QED BY <1>5, <1>7, <1>8 DEF Next

(* Whatever is created, linked, moved, replaced and removed, in any order  *)
(* and from any handle, a path leads from the root to every inode: rename  *)
(* cuts no subtree off, which no query of `coffer check` would notice.     *)
THEOREM EverythingReachable == Spec => []AllReachableFromRoot
<1>1. Init => AllReachableFromRoot
  <2> SUFFICES ASSUME Init PROVE AllReachableFromRoot
    OBVIOUS
  <2>1. Root \in Ino /\ dentries \in DentryTables
    BY MaxInoAssumption DEF Init, Root, Ino, DentryTables
  <2>2. Root \in Subtree(dentries, Root)
    BY <2>1, SubtreeClosed
  <2> QED BY <2>2 DEF Init, AllReachableFromRoot, HasRow
<1>2. TypeOK /\ TypeOK' /\ Consistent /\ AllReachableFromRoot /\ [Next]_vars => AllReachableFromRoot'
  BY ReachableStep
<1> QED BY <1>1, <1>2, TypeCorrect, ConsistentAlways, PTL DEF Spec

-----------------------------------------------------------------------------
(* The recursive function inside SumFunction, as an equation: the total of *)
(* a set of inodes is one size more than the total of the rest.            *)
IsSum(total, f) ==
  total = [s \in SUBSET DOMAIN f |->
             IF s = {} THEN 0
             ELSE f[CHOOSE x \in s : TRUE] + total[s \ {CHOOSE x \in s : TRUE}]]

(* The sum is the total of all inodes. *)
LEMMA SumIsATotal ==
  ASSUME NEW f
  PROVE  SumFunction(f) = (CHOOSE total : IsSum(total, f))[DOMAIN f]
  BY Zenon DEF SumFunction, SumFunctionOnSet, FoldFunctionOnSet, MapThenFoldSet, IsSum

(* The inode whose size is added last. *)
Pick(s) == CHOOSE x \in s : TRUE

(* There are finitely many inode numbers. *)
LEMMA SubsetsOfIno ==
  \A s \in SUBSET Ino : /\ IsFiniteSet(s)
                        /\ Cardinality(s) \in Nat /\ Cardinality(s) <= MaxIno
<1>1. IsFiniteSet(Ino) /\ Cardinality(Ino) = MaxIno
  BY FS_Interval, MaxInoAssumption DEF Ino
<1> QED BY <1>1, FS_Subset, FS_CardinalityType

(* Without it a set has one inode less. *)
LEMMA PickFact ==
  ASSUME NEW s \in SUBSET Ino, s # {}
  PROVE  /\ Pick(s) \in s /\ s \ {Pick(s)} \in SUBSET Ino
         /\ IsFiniteSet(s) /\ Cardinality(s) \in Nat \ {0}
         /\ Cardinality(s \ {Pick(s)}) = Cardinality(s) - 1
<1>1. Pick(s) \in s
  BY DEF Pick
<1>2. IsFiniteSet(s)
  BY SubsetsOfIno
<1> DEFINE x == Pick(s)
<1> HIDE DEF x
<1>3. Cardinality(s \ {x}) = Cardinality(s) - 1
  BY <1>1, <1>2, FS_RemoveElement DEF x
<1>4. Cardinality(s) \in Nat /\ Cardinality(s) # 0
  BY <1>2, FS_CardinalityType, FS_EmptySet
<1> QED BY <1>1, <1>2, <1>3, <1>4 DEF x

(* The totals exist, built from the smaller sets to the larger. *)
LEMMA TotalsExist ==
  ASSUME NEW f, DOMAIN f = Ino
  PROVE  \E total : IsSum(total, f)
<1> DEFINE Sets == SUBSET Ino
           Ok(total, s) == total[s] = IF s = {} THEN 0 ELSE f[Pick(s)] + total[s \ {Pick(s)}]
           Good == {n \in Nat : \E total : \A s \in Sets : Cardinality(s) <= n => Ok(total, s)}
<1>0. \A s \in Sets : IsFiniteSet(s) /\ Cardinality(s) \in Nat /\ Cardinality(s) <= MaxIno
  BY SubsetsOfIno
<1>1. 0 \in Good
  <2> DEFINE none == [s \in Sets |-> 0]
  <2>1. ASSUME NEW s \in Sets, Cardinality(s) <= 0 PROVE Ok(none, s)
    <3>1. s = {}
      BY <1>0, <2>1, FS_EmptySet
    <3> QED BY <3>1
  <2> HIDE DEF none, Ok
  <2> QED BY <2>1
<1>2. ASSUME NEW n \in Nat, n \in Good PROVE n + 1 \in Good
  <2>1. PICK total : \A s \in Sets : Cardinality(s) <= n => Ok(total, s)
    BY <1>2
  <2> DEFINE more == [s \in Sets |-> IF Cardinality(s) = n + 1
                                     THEN f[Pick(s)] + total[s \ {Pick(s)}] ELSE total[s]]
  <2>2. ASSUME NEW s \in Sets, Cardinality(s) <= n + 1 PROVE Ok(more, s)
    <3>1. CASE s = {}
      <4>1. Cardinality(s) = 0
        BY <3>1, FS_EmptySet
      <4>2. more[s] = total[s] /\ Cardinality(s) <= n
        BY <4>1
      <4> QED BY <2>1, <3>1, <4>2
    <3>2. CASE s # {}
      <4> DEFINE r == s \ {Pick(s)}
      <4>1. r \in Sets /\ Cardinality(r) = Cardinality(s) - 1
        BY <3>2, PickFact
      <4>2. Cardinality(s) \in Nat
        BY <1>0
      <4>3. Cardinality(r) # n + 1
        BY <4>1, <4>2, <2>2
      <4> HIDE DEF r
      <4>4. more[r] = total[r]
        BY <4>1, <4>3
      <4>5. CASE Cardinality(s) = n + 1
        BY <3>2, <4>4, <4>5 DEF r
      <4>6. CASE Cardinality(s) # n + 1
        <5>1. Cardinality(s) <= n /\ more[s] = total[s]
          BY <2>2, <4>2, <4>6
        <5>2. total[s] = f[Pick(s)] + total[r]
          BY <2>1, <3>2, <5>1 DEF r
        <5> HIDE DEF more
        <5> QED BY <3>2, <4>4, <5>1, <5>2 DEF r
      <4> QED BY <4>5, <4>6
    <3> QED BY <3>1, <3>2
  <2> HIDE DEF more, Ok, Sets
  <2>3. \E l : \A s \in Sets : Cardinality(s) <= n + 1 => Ok(l, s)
    BY <2>2
  <2> QED BY <2>3
<1> HIDE DEF Good
<1>3. Nat \subseteq Good
  BY <1>1, <1>2, SetInduction
<1>4. PICK total : \A s \in Sets : Cardinality(s) <= MaxIno => Ok(total, s)
  BY <1>3, MaxInoAssumption DEF Good
<1> DEFINE all == [s \in Sets |-> total[s]]
<1>5. \A s \in Sets : all[s] = IF s = {} THEN 0 ELSE f[Pick(s)] + all[s \ {Pick(s)}]
  <2> SUFFICES ASSUME NEW s \in Sets
               PROVE  all[s] = IF s = {} THEN 0 ELSE f[Pick(s)] + all[s \ {Pick(s)}]
    OBVIOUS
  <2>1. Ok(total, s)
    BY <1>0, <1>4
  <2>2. s # {} => s \ {Pick(s)} \in Sets
    OBVIOUS
  <2> QED BY <2>1, <2>2
<1>6. all = [s \in Sets |-> IF s = {} THEN 0 ELSE f[Pick(s)] + all[s \ {Pick(s)}]]
  <2>1. all = [s \in Sets |-> all[s]]
    OBVIOUS
  <2> HIDE DEF all, Sets
  <2> QED BY <1>5, <2>1
<1> HIDE DEF all
<1> QED BY <1>6, Zenon DEF IsSum, Pick

(* The recursion SumFunction stands for, equation by equation. *)
LEMMA SumTotals ==
  ASSUME NEW f, DOMAIN f = Ino
  PROVE  \E total :
           /\ SumFunction(f) = total[Ino]
           /\ \A s \in SUBSET Ino :
                total[s] = IF s = {} THEN 0 ELSE f[Pick(s)] + total[s \ {Pick(s)}]
<1> DEFINE total == CHOOSE g : IsSum(g, f)
<1>1. IsSum(total, f)
  BY TotalsExist
<1>2. SumFunction(f) = total[Ino]
  BY SumIsATotal
<1> HIDE DEF total
<1>3. total = [s \in SUBSET Ino |->
                 IF s = {} THEN 0 ELSE f[Pick(s)] + total[s \ {Pick(s)}]]
  BY <1>1, Zenon DEF IsSum, Pick
<1>4. \A s \in SUBSET Ino :
        total[s] = IF s = {} THEN 0 ELSE f[Pick(s)] + total[s \ {Pick(s)}]
  BY <1>3
<1> QED BY <1>2, <1>4

(* A sum changes by what its one changed term does: both sums take their   *)
(* terms in the same order, so the difference travels along.               *)
LEMMA SumChange ==
  ASSUME NEW f \in [Ino -> Nat], NEW g \in [Ino -> Nat], NEW i \in Ino,
         \A j \in Ino \ {i} : g[j] = f[j]
  PROVE  /\ SumFunction(f) \in Int
         /\ SumFunction(g) = SumFunction(f) + (g[i] - f[i])
<1>1. PICK F : /\ SumFunction(f) = F[Ino]
               /\ \A s \in SUBSET Ino : F[s] = IF s = {} THEN 0 ELSE f[Pick(s)] + F[s \ {Pick(s)}]
  BY SumTotals
<1>2. PICK G : /\ SumFunction(g) = G[Ino]
               /\ \A s \in SUBSET Ino : G[s] = IF s = {} THEN 0 ELSE g[Pick(s)] + G[s \ {Pick(s)}]
  BY SumTotals
<1> DEFINE Ok(s) == F[s] \in Int /\ G[s] = F[s] + (IF i \in s THEN g[i] - f[i] ELSE 0)
           Good == {n \in Nat : \A s \in SUBSET Ino : Cardinality(s) <= n => Ok(s)}
<1>0. \A s \in SUBSET Ino : IsFiniteSet(s) /\ Cardinality(s) \in Nat /\ Cardinality(s) <= MaxIno
  BY SubsetsOfIno
<1>3. 0 \in Good
  <2> SUFFICES ASSUME NEW s \in SUBSET Ino, Cardinality(s) <= 0 PROVE Ok(s)
    OBVIOUS
  <2>1. s = {}
    BY <1>0, FS_EmptySet
  <2>2. F[s] = 0 /\ G[s] = 0 /\ i \notin s
    BY <1>1, <1>2, <2>1
  <2> QED BY <2>2
<1>4. ASSUME NEW n \in Nat, n \in Good PROVE n + 1 \in Good
  <2> SUFFICES ASSUME NEW s \in SUBSET Ino, Cardinality(s) <= n + 1 PROVE Ok(s)
    OBVIOUS
  <2>1. CASE s = {}
    <3>1. F[s] = 0 /\ G[s] = 0 /\ i \notin s
      BY <1>1, <1>2, <2>1
    <3> QED BY <3>1
  <2>2. CASE s # {}
    <3> DEFINE x == Pick(s)
               r == s \ {x}
    <3>1. x \in s /\ r \in SUBSET Ino /\ Cardinality(r) = Cardinality(s) - 1
      BY <2>2, PickFact
    <3>2. F[s] = f[x] + F[r] /\ G[s] = g[x] + G[r]
      BY <1>1, <1>2, <2>2
    <3>3. Cardinality(r) <= n
      BY <1>0, <3>1
    <3>4. i \in r <=> i \in s /\ i # x
      OBVIOUS
    <3> HIDE DEF x, r
    <3>5. Ok(r)
      BY <1>4, <3>1, <3>3
    <3>6. f[x] \in Nat /\ g[x] \in Nat /\ f[i] \in Nat /\ g[i] \in Nat
      BY <3>1
    <3>7. CASE x = i
      BY <3>1, <3>2, <3>4, <3>5, <3>6, <3>7
    <3>8. CASE x # i
      <4>1. g[x] = f[x]
        BY <3>1, <3>8
      <4> QED BY <3>1, <3>2, <3>4, <3>5, <3>6, <3>8, <4>1
    <3> QED BY <3>7, <3>8
  <2> QED BY <2>1, <2>2
<1> HIDE DEF Good
<1>5. Nat \subseteq Good
  BY <1>3, <1>4, SetInduction
<1>6. Ok(Ino)
  BY <1>0, <1>5, MaxInoAssumption DEF Good
<1> QED BY <1>1, <1>2, <1>6

(* An empty container uses nothing. *)
LEMMA SumOfZeros ==
  ASSUME NEW f \in [Ino -> {0}]
  PROVE  SumFunction(f) = 0
<1>1. PICK F : /\ SumFunction(f) = F[Ino]
               /\ \A s \in SUBSET Ino : F[s] = IF s = {} THEN 0 ELSE f[Pick(s)] + F[s \ {Pick(s)}]
  BY SumTotals
<1> DEFINE Good == {n \in Nat : \A s \in SUBSET Ino : Cardinality(s) <= n => F[s] = 0}
<1>2. \A s \in SUBSET Ino : IsFiniteSet(s) /\ Cardinality(s) \in Nat /\ Cardinality(s) <= MaxIno
  BY SubsetsOfIno
<1>3. 0 \in Good
  <2> SUFFICES ASSUME NEW s \in SUBSET Ino, Cardinality(s) <= 0 PROVE F[s] = 0
    OBVIOUS
  <2>1. s = {}
    BY <1>2, FS_EmptySet
  <2> QED BY <1>1, <2>1
<1>4. ASSUME NEW n \in Nat, n \in Good PROVE n + 1 \in Good
  <2> SUFFICES ASSUME NEW s \in SUBSET Ino, Cardinality(s) <= n + 1, s # {} PROVE F[s] = 0
    BY <1>1
  <2>1. Pick(s) \in s /\ s \ {Pick(s)} \in SUBSET Ino /\ Cardinality(s \ {Pick(s)}) = Cardinality(s) - 1
    BY PickFact
  <2>2. F[s \ {Pick(s)}] = 0
    BY <1>2, <1>4, <2>1
  <2> QED BY <1>1, <2>1, <2>2
<1> HIDE DEF Good
<1>5. Nat \subseteq Good
  BY <1>3, <1>4, SetInduction
<1> QED BY <1>1, <1>2, <1>5, MaxInoAssumption DEF Good

(* Used follows the one size a handler changes. *)
LEMMA UsedChange ==
  ASSUME TypeOK, TypeOK', NEW i \in Ino, \A j \in Ino \ {i} : size'[j] = size[j]
  PROVE  Used \in Int /\ Used' = Used + (size'[i] - size[i])
<1>1. size \in [Ino -> Nat] /\ size' \in [Ino -> Nat]
  BY MaxLenAssumption DEF TypeOK
<1> QED BY <1>1, SumChange DEF Used

(* What a handler that lets a size grow has made sure of, by asking. *)
Granted(growth) ==
  \/ sum' = "failed"
  \/ /\ sum' = sum
     /\ growth > 0 /\ MaxSize \in 1..MaxLen /\ Used <= MaxSize => Used + growth <= MaxSize

(* HasRoomFor grants what it is asked for; Ceiling alone, and a handler    *)
(* that does not ask, grant nothing and let nothing grow.                  *)
LEMMA RoomGranted ==
  ASSUME TypeOK, Used \in Int
  PROVE  /\ \A g \in Int : HasRoomFor(g) => Granted(g)
         /\ \A g \in Int : g <= 0 /\ HasRoomFor(g) => Granted(0)
         /\ Ceiling(Used < MaxSize) => Granted(0)
         /\ UNCHANGED sum => \A g \in Int : g <= 0 => Granted(g)
<1>1. ASSUME NEW fits, Ceiling(fits)
      PROVE  \/ sum' = "failed"
             \/ sum' = sum /\ (MaxSize # 0 /\ Used <= MaxLen => fits)
  BY <1>1 DEF Ceiling
<1>2. ASSUME NEW g \in Int, HasRoomFor(g) PROVE Granted(g)
  <2>1. CASE g > 0
    <3>1. Ceiling(Used + g <= MaxSize)
      BY <1>2, <2>1 DEF HasRoomFor
    <3>2. \/ sum' = "failed"
          \/ sum' = sum /\ (MaxSize # 0 /\ Used <= MaxLen => Used + g <= MaxSize)
      BY <3>1 DEF Ceiling
    <3> QED BY <3>2, MaxSizeAssumption, MaxLenAssumption DEF Granted
  <2>2. CASE ~(g > 0)
    BY <1>2, <2>2 DEF HasRoomFor, Granted
  <2> QED BY <2>1, <2>2
<1>3. ASSUME NEW g \in Int, g <= 0, HasRoomFor(g) PROVE Granted(0)
  BY <1>3 DEF HasRoomFor, Granted
<1>4. ASSUME Ceiling(Used < MaxSize) PROVE Granted(0)
  BY <1>1, <1>4 DEF Granted
<1>5. ASSUME UNCHANGED sum, NEW g \in Int, g <= 0 PROVE Granted(g)
  BY <1>5 DEF Granted
<1> QED BY <1>2, <1>3, <1>4, <1>5

(* The sum of the sizes is a number. *)
LEMMA UsedIsInt ==
  ASSUME TypeOK
  PROVE  Used \in Int
<1>1. size \in [Ino -> Nat] /\ Root \in Ino
  BY MaxLenAssumption, MaxInoAssumption DEF TypeOK, Root, Ino
<1> QED BY <1>1, SumChange DEF Used

(* A handler that asks for room before it grows one size, or shrinks it,   *)
(* keeps the sum below the ceiling.                                        *)
LEMMA RoomKeepsCeiling ==
  ASSUME TypeOK, TypeOK', CeilingRespected,
         NEW i \in Ino, \A j \in Ino \ {i} : size'[j] = size[j],
         Granted(size'[i] - size[i])
  PROVE  CeilingRespected'
<1>1. Used \in Int /\ Used' = Used + (size'[i] - size[i])
  BY UsedChange
<1>2. size'[i] \in Nat /\ size[i] \in Nat
  BY MaxLenAssumption DEF TypeOK
<1>3. PICK g \in Int : g = size'[i] - size[i]
  BY <1>2
<1>4. Used' = Used + g /\ Granted(g)
  BY <1>1, <1>3
<1>5. CASE sum' = "failed"
  BY <1>5 DEF CeilingRespected
<1>6. CASE sum' # "failed"
  <2> SUFFICES ASSUME MaxSize \in 1..MaxLen, sum' = "read" PROVE Used' <= MaxSize
    BY DEF CeilingRespected
  <2>1. sum = "read" /\ (g > 0 /\ Used <= MaxSize => Used + g <= MaxSize)
    BY <1>4, <1>6 DEF Granted
  <2>2. Used <= MaxSize
    BY <2>1 DEF CeilingRespected
  <2> QED BY <1>1, <1>4, <2>1, <2>2, MaxSizeAssumption
<1> QED BY <1>5, <1>6

(* One step keeps below the ceiling: one case per handler. *)
LEMMA CeilingStep ==
  ASSUME TypeOK, TypeOK', Consistent, CeilingRespected, [Next]_vars
  PROVE  CeilingRespected'
<1>0. Handles \subseteq Ino
  BY MaxInoAssumption DEF TypeOK, Handles, Ino
<1>1. ASSUME NEW p, NEW n, NEW k, NEW m, NEW s \in Nat, Granted(s), InsertChild(p, n, k, m, s)
      PROVE  CeilingRespected'
  <2>1. NextIno \in Ino /\ size[NextIno] = 0
    BY <1>1, FreshNumber DEF InsertChild, Consistent, HasRow
  <2>2. size'[NextIno] = s /\ \A j \in Ino \ {NextIno} : size'[j] = size[j]
    BY <1>1, <2>1 DEF InsertChild, TypeOK
  <2>3. Granted(size'[NextIno] - size[NextIno])
    <3>1. size'[NextIno] - size[NextIno] = s
      BY <2>1, <2>2
    <3> QED BY <1>1, <3>1
  <2> QED BY <2>1, <2>2, <2>3, RoomKeepsCeiling
<1>2. /\ \A g \in Int : HasRoomFor(g) => Granted(g)
      /\ \A g \in Int : g <= 0 /\ HasRoomFor(g) => Granted(0)
      /\ Ceiling(Used < MaxSize) => Granted(0)
      /\ UNCHANGED sum => \A g \in Int : g <= 0 => Granted(g)
  BY UsedIsInt, RoomGranted
<1>3. ASSUME NEW t \in Ino \cup {None}, NEW gone \in SUBSET {t}, gone # {} => t \in Ino,
             DeleteInode(gone), UNCHANGED sum
      PROVE  CeilingRespected'
  <2> DEFINE i == IF t \in Ino THEN t ELSE Root
  <2>1. i \in Ino
    BY MaxInoAssumption DEF Root, Ino
  <2>2. \A j \in Ino : size'[j] = IF j \in gone THEN 0 ELSE size[j]
    BY <1>3, DeleteInodeFact
  <2>3. \A j \in Ino \ {i} : size'[j] = size[j]
    BY <1>3, <2>2
  <2>4. size'[i] \in Nat /\ size[i] \in Nat /\ size'[i] <= size[i]
    <3>1. size[i] \in Nat
      BY <2>1, MaxLenAssumption DEF TypeOK
    <3> HIDE DEF i
    <3> QED BY <2>1, <2>2, <3>1
  <2> HIDE DEF i
  <2>5. Granted(size'[i] - size[i])
    BY <1>2, <1>3, <2>4
  <2> QED BY <2>1, <2>3, <2>5, RoomKeepsCeiling
<1>4. CASE UNCHANGED <<size, sum>>
  BY <1>4 DEF CeilingRespected, Used
<1>5. ASSUME NEW p \in Handles, NEW n \in Names, Unlink(p, n) \/ Rmdir(p, n)
      PROVE  CeilingRespected'
  <2>1. PICK t \in Ino : \E gone \in SUBSET {t} : DeleteInode(gone) /\ UNCHANGED sum
    <3>1. dentries[p][n] \in Ino
      BY <1>0, <1>5 DEF Unlink, Rmdir, TypeOK
    <3> QED BY <1>5, <3>1 DEF Unlink, Rmdir, Nameless
  <2> QED BY <1>3, <2>1
<1>6. ASSUME NEW p \in Handles, NEW n \in Names, NEW q \in Handles, NEW m \in Names,
             NEW flag \in RenameFlags, Rename(p, n, q, m, flag)
      PROVE  CeilingRespected'
  <2>1. PICK t \in Ino \cup {None} :
          \E gone \in SUBSET {t} : DeleteInode(gone) /\ UNCHANGED sum /\ (gone # {} => t \in Ino)
    <3>1. dentries[q][m] \in Ino \cup {None}
      BY <1>0 DEF TypeOK
    <3> QED BY <1>6, <3>1 DEF Rename, Nameless
  <2> QED BY <1>3, <2>1
<1>7. CASE NamespaceNext
  <2>1. ASSUME NEW p \in Handles, NEW n \in Names, NEW len \in 1..MaxLen, Symlink(p, n, len)
        PROVE  CeilingRespected'
    BY <1>1, <1>2, <2>1, MaxLenAssumption DEF Symlink
  <2>2. ASSUME NEW p \in Handles, NEW n \in Names, NEW m \in Modes,
               Mkdir(p, n, m) \/ Create(p, n, m)
        PROVE  CeilingRespected'
    BY <1>1, <1>2, <2>2 DEF Mkdir, Create
  <2>3. ASSUME NEW p \in Handles, NEW n \in Names, NEW i \in Handles, Link(i, p, n)
        PROVE  CeilingRespected'
    BY <1>4, <2>3 DEF Link
  <2> QED BY <1>5, <1>6, <1>7, <2>1, <2>2, <2>3 DEF NamespaceNext
<1>8. ASSUME NEW i \in Handles, NEW off \in 0..MaxLen, NEW len \in 1..MaxLen,
             NEW caller \in Callers, Write(i, off, len, caller)
      PROVE  CeilingRespected'
  <2>1. i \in Ino /\ size[i] \in Nat /\ off \in Nat /\ len \in Nat
    BY <1>0, MaxLenAssumption DEF TypeOK
  <2>2. /\ size' = [size EXCEPT ![i] = IF off + len > @ THEN off + len ELSE @]
        /\ HasRoomFor(off + len - size[i])
    BY <1>8 DEF Write
  <2>3. size'[i] = (IF off + len > size[i] THEN off + len ELSE size[i])
    BY <2>1, <2>2 DEF TypeOK
  <2>4. \A j \in Ino \ {i} : size'[j] = size[j]
    BY <2>2 DEF TypeOK
  <2>5. Granted(size'[i] - size[i])
    <3>1. CASE off + len > size[i]
      <4>1. size'[i] = off + len
        BY <2>3, <3>1
      <4>2. size'[i] - size[i] = off + len - size[i]
        BY <2>1, <4>1
      <4>3. Granted(off + len - size[i])
        BY <1>2, <2>1, <2>2
      <4> QED BY <4>2, <4>3, Zenon
    <3>2. CASE ~(off + len > size[i])
      <4>1. size'[i] - size[i] = 0
        BY <2>1, <2>3, <3>2
      <4>2. Granted(0)
        <5>1. off + len - size[i] \in Int /\ off + len - size[i] <= 0
          BY <2>1, <3>2
        <5> QED BY <1>2, <2>2, <5>1
      <4> QED BY <4>1, <4>2
    <3> QED BY <3>1, <3>2
  <2> QED BY <2>1, <2>4, <2>5, RoomKeepsCeiling
<1>9. ASSUME NEW i \in Handles, NEW valid, NEW newMode, NEW newSize, NEW caller,
             Setattr(i, valid, newMode, newSize, caller)
      PROVE  CeilingRespected'
  <2>1. CASE "size" \in valid
    <3>1. size' = [size EXCEPT ![i] = newSize] /\ HasRoomFor(newSize - size[i])
      BY <1>9, <2>1 DEF Setattr
    <3>2. i \in Ino /\ size'[i] = newSize /\ \A j \in Ino \ {i} : size'[j] = size[j]
      BY <1>0, <3>1 DEF TypeOK
    <3>3. Granted(newSize - size[i])
      <4>1. newSize \in Nat /\ size[i] \in Nat
        BY <3>2, MaxLenAssumption DEF TypeOK
      <4> QED BY <1>2, <3>1, <4>1
    <3> QED BY <3>2, <3>3, RoomKeepsCeiling
  <2>2. CASE "size" \notin valid
    BY <1>4, <1>9, <2>2 DEF Setattr
  <2> QED BY <2>1, <2>2
<1>10. CASE AttributeNext
  <2>1. ASSUME NEW i \in Handles, NEW x, NEW flag, Setxattr(i, x, flag) \/ Removexattr(i, x)
        PROVE  CeilingRespected'
    BY <1>4, <2>1 DEF Setxattr, Removexattr
  <2> QED BY <1>8, <1>9, <1>10, <2>1 DEF AttributeNext
<1>11. CASE (\E m \in {"rw", "ro"} : Mount(m)) \/ Unmount \/ UNCHANGED vars
  BY <1>4, <1>11 DEF Mount, Unmount, tables, vars
<1> QED BY <1>7, <1>10, <1>11 DEF Next

(* --max-size holds for any number of files and any ceiling up to          *)
(* i64::MAX while the sizes can be read: create, symlink, write and        *)
(* setattr ask current_total_size for the room they take, and what unlink, *)
(* rmdir and rename free is counted exactly once.                          *)
THEOREM CeilingHolds == Spec => []CeilingRespected
<1>1. Init => CeilingRespected
  <2> SUFFICES ASSUME Init PROVE Used = 0
    BY MaxSizeAssumption DEF CeilingRespected
  <2>1. size \in [Ino -> {0}]
    BY DEF Init
  <2> QED BY <2>1, SumOfZeros DEF Used
<1>2. TypeOK /\ TypeOK' /\ Consistent /\ CeilingRespected /\ [Next]_vars => CeilingRespected'
  BY CeilingStep
<1> QED BY <1>1, <1>2, TypeCorrect, ConsistentAlways, PTL DEF Spec
=============================================================================
