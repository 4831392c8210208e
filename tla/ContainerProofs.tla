-------------------------- MODULE ContainerProofs --------------------------
(***************************************************************************)
(* What holds of a container file however many creators race for its path, *)
(* wherever they or an upgrade die, and whoever uses it in between - for   *)
(* every set of creators and names, every ceiling and every bound on inode *)
(* numbers.                                                                *)
(*                                                                         *)
(* The invariant has four parts.  Building: CREATE TABLE meta is won by    *)
(* one creator, and what that one has passed is in the file.  Formats: how *)
(* far the holder has got tells the format and the schema, and a creator   *)
(* is never at work on a format-1 container.  Naming: names and inodes     *)
(* match, in format 1 one to one.  Numbering: no number was ever given     *)
(* above the high-water mark.                                              *)
(***************************************************************************)
EXTENDS Container, TLAPS

Building ==
  /\ \A c, d \in Creators :
       creating[c] \in 3..Made /\ creating[d] \in 3..Made => c = d
  /\ \A c \in Creators :
       /\ creating[c] \in 3..Made  => "meta" \in schema
       /\ creating[c] \in 4..Made  => "inodes" \in schema
       /\ creating[c] \in 5..Made  => "dentries" \in schema
       /\ creating[c] \in 6..Made  => "data" \in schema
       /\ creating[c] \in 9..Made  => Root \in inodes
       /\ creating[c] = Made => maxSize = Ceiling[c]

Formats ==
  /\ version = 1 => /\ \A c \in Creators : creating[c] = Idle
                    /\ RootEntry \in entries
                    /\ \A e, f \in entries : e.ino = f.ino => e = f
                    /\ "xattrs" \in schema => "xattrs_gc" \in schema
  /\ version # 1 => \A e \in entries : e.ino # Root
  /\ "xattrs" \notin schema => xattrs = {}
  /\ holder \in {"old", "opening"} => version = 1
  /\ holder \in {"migrated", "ready", "serving", "readonly"} => version = 2
  /\ holder \in {"ready", "serving"} => {"xattrs", "xattrs_gc"} \subseteq schema
  /\ check \in {"opened", "format2", "named"} => version # 0
  /\ check \in {"format2", "named"} => version = 2

Naming ==
  /\ \A e \in entries : e.ino \in inodes
  /\ \A i \in inodes \ {Root} : \E e \in entries : e.ino = i

Numbering ==
  /\ inodes \subseteq given
  /\ \A i \in given : i <= seq
  /\ Root \in given => Root \in inodes

(* exists is apart from the rest: provers that know arithmetic do not take *)
(* kindly to Boolean variables.                                            *)
Present == /\ exists \in BOOLEAN
           /\ version # 0 => exists = TRUE

IInv == /\ TypeOK /\ Present /\ Building /\ Formats /\ Naming /\ Numbering
        /\ VersionRowIsLast /\ NoOrphanAttributes /\ CheckNeverAlarms

LEMMA ScriptFacts ==
  /\ Len(Script) = 10 /\ Steps = 1..10 /\ Made = 11 /\ Failed = 12
  /\ Script[1] = "open" /\ Script[2] = "meta" /\ Script[3] = "inodes"
  /\ Script[4] = "dentries" /\ Script[5] = "data" /\ Script[6] = "xattrs"
  /\ Script[7] = "xattrs_gc" /\ Script[8] = "root"
  /\ Script[9] = "schema_version" /\ Script[10] = "max_size"
  BY DEF Script, Steps, Made, Failed

(* The type of everything but exists. *)
NumType ==
  /\ creating \in [Creators -> 0..12]
  /\ schema \subseteq Schema
  /\ version \in {0, 1, 2}
  /\ maxSize \in Nat \cup {NoRow}
  /\ inodes \subseteq Ino /\ given \subseteq Ino
  /\ entries \subseteq Entries
  /\ xattrs \subseteq Ino
  /\ seq \in 0..MaxIno
  /\ holder \in {"none", "old", "opening", "migrated", "ready", "serving", "readonly"}
  /\ limit \in Nat
  /\ check \in {"off", "opened", "format2", "named", "alarm"}

Rest == /\ NumType /\ Building /\ Formats /\ Naming /\ Numbering
        /\ VersionRowIsLast /\ NoOrphanAttributes /\ CheckNeverAlarms

LEMMA Parts == IInv <=> Present /\ Rest
<1>1. TypeOK <=> exists \in BOOLEAN /\ NumType
  BY ScriptFacts, Zenon DEF TypeOK, NumType
<1> QED
  BY <1>1, Zenon DEF IInv, Rest, Present

LEMMA InitRest == Init => Rest
<1> SUFFICES ASSUME Init PROVE Rest
  OBVIOUS
<1> USE ScriptFacts, CeilingAssumption, MaxInoAssumption
<1>1. CASE version = 0
  BY <1>1 DEF Init, Rest, NumType, Building, Formats, Naming, Numbering,
     VersionRowIsLast, NoOrphanAttributes, CheckNeverAlarms, Idle, NoRow, Schema, Ino
<1>2. CASE version = 1
  <2>1. NumType
    <3>1. Version1 \cup {"xattrs", "xattrs_gc"} \subseteq Schema
      BY DEF Version1, Schema
    <3>2. 1 \in 1..MaxIno /\ 1 \in 0..MaxIno
      OBVIOUS
    <3>3. entries \subseteq Entries
      BY <1>2 DEF Init, Entries
    <3> QED
      BY <1>2, <3>1, <3>2, <3>3 DEF Init, NumType, Idle, Ino, Root
  <2>2. Building /\ CheckNeverAlarms /\ NoOrphanAttributes /\ VersionRowIsLast
    BY <1>2 DEF Init, Building, CheckNeverAlarms, NoOrphanAttributes, VersionRowIsLast,
       Idle, Version1, Root
  <2>3. Formats
    BY <1>2 DEF Init, Formats, Version1
  <2>4. Naming
    <3>1. RootEntry.ino = Root
      BY DEF RootEntry
    <3> QED
      BY <1>2, <3>1 DEF Init, Naming
  <2>5. Numbering
    BY <1>2 DEF Init, Numbering, Root
  <2> QED
    BY <2>1, <2>2, <2>3, <2>4, <2>5 DEF Rest
<1> QED
  BY <1>1, <1>2 DEF Init

LEMMA BeginCreateRest ==
  ASSUME Rest, NEW c \in Creators, BeginCreate(c), version # 1
  PROVE  Rest'
  BY ScriptFacts DEF Rest, NumType, Building, Formats, Naming, Numbering,
     VersionRowIsLast, NoOrphanAttributes, CheckNeverAlarms, Idle, BeginCreate, tables

LEMMA CreateFailsRest ==
  ASSUME Rest, NEW c \in Creators, CreateFails(c)
  PROVE  Rest'
  BY ScriptFacts DEF Rest, NumType, Building, Formats, Naming, Numbering,
     VersionRowIsLast, NoOrphanAttributes, CheckNeverAlarms, Idle, CreateFails, tables

LEMMA CreateStepRest ==
  ASSUME Rest, NEW c \in Creators, CreateStep(c)
  PROVE  Rest'
<1> USE ScriptFacts, CeilingAssumption, MaxInoAssumption
<1>1. version # 1
  BY DEF Rest, Formats, CreateStep, Idle
<1>2. /\ creating[c] \in 1..10
      /\ creating' = [creating EXCEPT ![c] = creating[c] + 1]
      /\ ~Conflicts(Script[creating[c]]) /\ Run(Script[creating[c]], c)
      /\ holder' = holder /\ limit' = limit /\ check' = check
  BY DEF CreateStep
<1>3. NumType'
  <2>1. creating' \in [Creators -> 0..12]
    BY <1>2 DEF Rest, NumType
  <2>2. schema' \subseteq Schema /\ version' \in {0, 1, 2}
    BY <1>2 DEF Rest, NumType, Run
  <2>3. maxSize' \in Nat \cup {NoRow}
    BY <1>2 DEF Rest, NumType, Run
  <2>4. Root \in Ino /\ Root \in 0..MaxIno
    BY DEF Root, Ino
  <2>5. inodes' \subseteq Ino /\ given' \subseteq Ino /\ seq' \in 0..MaxIno
    BY <1>2, <2>4 DEF Rest, NumType, Run
  <2>6. entries' = entries /\ xattrs' = xattrs
    BY <1>2 DEF Run
  <2> QED
    BY <1>2, <2>1, <2>2, <2>3, <2>5, <2>6 DEF Rest, NumType
<1>4. Building'
  BY <1>1, <1>2 DEF Rest, NumType, Building, Run, Conflicts, Schema
<1>5. Formats'
  BY <1>1, <1>2 DEF Rest, NumType, Formats, Run, Schema, Conflicts
<1>6. Naming' /\ Numbering' /\ NoOrphanAttributes' /\ CheckNeverAlarms'
  <2>1. /\ inodes' \in {inodes, inodes \cup {Root}} /\ entries' = entries /\ xattrs' = xattrs
        /\ \/ inodes' = inodes /\ given' = given /\ seq' = seq
           \/ /\ inodes' = inodes \cup {Root} /\ given' = given \cup {Root}
              /\ seq' = IF seq < Root THEN Root ELSE seq
    BY <1>2 DEF Run
  <2>2. Naming'
    BY <2>1 DEF Rest, Naming
  <2>3. Numbering'
    <3>1. inodes \subseteq given /\ (\A i \in given : i <= seq) /\ given \subseteq Ino /\ seq \in Nat
      BY DEF Rest, NumType, Numbering
    <3>2. inodes' \subseteq given'
      BY <2>1, <3>1
    <3>3. seq <= seq' /\ seq' \in Nat /\ (given' = given \/ Root <= seq')
      BY <2>1, <3>1 DEF Root
    <3>4. ASSUME NEW i \in given' PROVE i <= seq'
      <4>1. CASE i \in given
        <5>1. i \in Nat /\ i <= seq
          BY <4>1, <3>1 DEF Ino
        <5> QED
          BY <5>1, <3>1, <3>3
      <4>2. CASE i \notin given
        BY <4>2, <2>1, <3>3
      <4> QED
        BY <4>1, <4>2
    <3>5. Root \in given' => Root \in inodes'
      BY <2>1 DEF Rest, Numbering
    <3> QED
      BY <3>2, <3>4, <3>5 DEF Numbering
  <2> QED
    BY <1>2, <2>1, <2>2, <2>3 DEF Rest, NoOrphanAttributes, CheckNeverAlarms
<1>7. VersionRowIsLast'
  BY <1>1, <1>2 DEF Rest, NumType, Building, Run, Conflicts, Schema, VersionRowIsLast, Version1
<1> QED
  BY <1>3, <1>4, <1>5, <1>6, <1>7 DEF Rest

(* The name goes to the inode above every number ever given. *)
LEMMA NewInodeFacts ==
  ASSUME NumType, Numbering, Root \in inodes, NEW n \in Names, NewInode(n)
  PROVE  \E i \in Ino : \E e \in Entries :
           /\ i \notin given /\ i \notin inodes /\ i # Root
           /\ e.ino = i /\ e.parent = Root
           /\ inodes' = inodes \cup {i} /\ entries' = entries \cup {e}
           /\ given' = given \cup {i} /\ seq' = i
           /\ seq' \in 0..MaxIno /\ \A j \in given : j <= seq'
<1> USE MaxInoAssumption
<1> DEFINE i == seq + 1
           e == [parent |-> Root, name |-> n, ino |-> i]
<1>1. seq \in Nat /\ seq < MaxIno /\ seq >= 1
  BY DEF NumType, NewInode, Numbering, Root
<1>2. i \in Ino /\ i # Root /\ i \in 0..MaxIno
  BY <1>1 DEF Ino, Root
<1>3. i \notin given /\ \A j \in given : j <= i
  BY <1>1 DEF NumType, Numbering, Ino
<1>4. i \notin inodes
  BY <1>3 DEF Numbering
<1>5. e \in Entries /\ e.ino = i /\ e.parent = Root
  BY <1>2 DEF Entries
<1>6. /\ inodes' = inodes \cup {i} /\ entries' = entries \cup {e}
      /\ given' = given \cup {i} /\ seq' = i
  BY DEF NewInode
<1> QED
  BY <1>2, <1>3, <1>4, <1>5, <1>6

-----------------------------------------------------------------------------
(* The users of the container *)

LEMMA NewFileRest ==
  ASSUME Rest, NEW n \in Names, NewInode(n), holder \in {"old", "serving"},
         UNCHANGED <<creating, schema, version, maxSize, xattrs, holder, limit, check>>
  PROVE  Rest'
<1>0. Root \in inodes
  BY DEF Rest, Formats, VersionRowIsLast
<1>1. PICK i \in Ino : \E e \in Entries :
        /\ i \notin given /\ i \notin inodes /\ i # Root
        /\ e.ino = i /\ e.parent = Root
        /\ inodes' = inodes \cup {i} /\ entries' = entries \cup {e}
        /\ given' = given \cup {i} /\ seq' = i
        /\ seq' \in 0..MaxIno /\ \A j \in given : j <= seq'
  BY <1>0, NewInodeFacts DEF Rest
<1>2. PICK e \in Entries :
        /\ i \notin given /\ i \notin inodes /\ i # Root
        /\ e.ino = i /\ e.parent = Root
        /\ inodes' = inodes \cup {i} /\ entries' = entries \cup {e}
        /\ given' = given \cup {i} /\ seq' = i
        /\ seq' \in 0..MaxIno /\ \A j \in given : j <= seq'
  BY <1>1
<1>3. NumType'
  BY <1>2 DEF Rest, NumType
<1>4. Building' /\ VersionRowIsLast' /\ NoOrphanAttributes' /\ CheckNeverAlarms'
  BY <1>2 DEF Rest, Building, VersionRowIsLast, NoOrphanAttributes, CheckNeverAlarms
<1>5. \A f \in entries : f.ino # i
  BY <1>2 DEF Rest, Naming
<1>6. Formats'
  BY <1>2, <1>5 DEF Rest, Formats
<1>7. Naming'
  BY <1>2 DEF Rest, Naming
<1>8. Numbering'
  <2>1. i <= i
    BY DEF Ino
  <2> QED
    BY <1>2, <2>1 DEF Rest, Numbering
<1> QED
  BY <1>3, <1>4, <1>6, <1>7, <1>8 DEF Rest

LEMMA OldDeleteRest ==
  ASSUME Rest, NEW e \in entries, OldDelete(e)
  PROVE  Rest'
<1>1. /\ version = 1 /\ holder = "old" /\ e # RootEntry /\ RootEntry \in entries
      /\ \A f, g \in entries : f.ino = g.ino => f = g
      /\ "xattrs" \in schema => "xattrs_gc" \in schema
  BY DEF Rest, Formats, OldDelete
<1>2. e.ino # Root
  <2>1. RootEntry.ino = Root
    BY DEF RootEntry
  <2> QED
    BY <1>1, <2>1
<1>3. /\ inodes' = inodes \ {e.ino} /\ entries' = entries \ {e}
      /\ xattrs' = AttributesLeft(e.ino)
      /\ UNCHANGED <<creating, schema, version, maxSize, seq, holder, limit, check, given>>
  BY DEF OldDelete
<1>4. NumType'
  BY <1>3 DEF Rest, NumType, AttributesLeft
<1>5. Building' /\ VersionRowIsLast' /\ CheckNeverAlarms'
  BY <1>2, <1>3 DEF Rest, Building, VersionRowIsLast, CheckNeverAlarms
<1>6. Formats'
  BY <1>1, <1>3 DEF Rest, Formats, AttributesLeft
<1>7. Naming' /\ Numbering'
  BY <1>1, <1>2, <1>3 DEF Rest, Naming, Numbering
<1>8. NoOrphanAttributes'
  BY <1>1, <1>3 DEF Rest, Formats, NoOrphanAttributes, AttributesLeft
<1> QED
  BY <1>4, <1>5, <1>6, <1>7, <1>8 DEF Rest

LEMMA SetXattrRest ==
  ASSUME Rest, NEW i \in inodes, OldSetXattr(i) \/ SetXattr(i)
  PROVE  Rest'
  BY DEF Rest, NumType, Building, Formats, Naming, Numbering, VersionRowIsLast,
     NoOrphanAttributes, CheckNeverAlarms, OldSetXattr, SetXattr

LEMMA LinkRest ==
  ASSUME Rest, NEW e \in entries, NEW n \in Names, Link(e, n)
  PROVE  Rest'
<1> DEFINE f == [e EXCEPT !.name = n]
<1>1. /\ version = 2 /\ holder = "serving" /\ e.ino # Root
      /\ entries' = entries \cup {f}
      /\ UNCHANGED <<creating, schema, version, maxSize, inodes, xattrs, seq, holder, limit, check, given>>
  BY DEF Rest, Formats, Link
<1>2. f \in Entries /\ f.ino = e.ino
  <2>1. e \in Entries
    BY DEF Rest, NumType
  <2>2. e \in [parent : {Root}, name : Names, ino : Ino]
    <3>1. RootEntry.ino = Root
      BY DEF RootEntry
    <3>2. e # RootEntry
      BY <1>1, <3>1
    <3> QED
      BY <2>1, <3>2, Zenon DEF Entries
  <2> QED
    <3>1. f \in [parent : {Root}, name : Names, ino : Ino] /\ f.ino = e.ino
      BY <2>2
    <3> QED
      BY <3>1, Zenon DEF Entries
<1> HIDE DEF f
<1>3. NumType'
  BY <1>1, <1>2 DEF Rest, NumType
<1>4. Building' /\ VersionRowIsLast' /\ CheckNeverAlarms' /\ NoOrphanAttributes'
  BY <1>1 DEF Rest, Building, VersionRowIsLast, CheckNeverAlarms, NoOrphanAttributes
<1>5. Formats' /\ Naming' /\ Numbering'
  BY <1>1, <1>2 DEF Rest, Formats, Naming, Numbering
<1> QED
  BY <1>3, <1>4, <1>5 DEF Rest

LEMMA UnlinkRest ==
  ASSUME Rest, NEW e \in entries, Unlink(e)
  PROVE  Rest'
<1>1. /\ version = 2 /\ holder = "serving" /\ e.ino # Root
      /\ entries' = entries \ {e}
      /\ UNCHANGED <<creating, schema, version, maxSize, seq, holder, limit, check, given>>
  BY DEF Rest, Formats, Unlink
<1>2. \/ /\ \A f \in entries \ {e} : f.ino # e.ino
         /\ inodes' = inodes \ {e.ino} /\ xattrs' = xattrs \ {e.ino}
      \/ /\ \E f \in entries \ {e} : f.ino = e.ino
         /\ inodes' = inodes /\ xattrs' = xattrs
  BY DEF Unlink
<1>3. NumType'
  BY <1>1, <1>2 DEF Rest, NumType
<1>4. Building' /\ VersionRowIsLast' /\ CheckNeverAlarms' /\ NoOrphanAttributes'
  BY <1>1, <1>2 DEF Rest, Building, VersionRowIsLast, CheckNeverAlarms, NoOrphanAttributes
<1>5. Formats' /\ Numbering'
  BY <1>1, <1>2 DEF Rest, Formats, Numbering
<1>6. Naming'
  BY <1>1, <1>2 DEF Rest, Naming
<1> QED
  BY <1>3, <1>4, <1>5, <1>6 DEF Rest

-----------------------------------------------------------------------------
(* Opening *)

(* The high-water mark is carried over as it is. *)
LEMMA SequenceKept ==
  ASSUME NumType, Numbering
  PROVE  Max(inodes \cup {seq}) = seq
<1>1. seq \in Int /\ \A i \in inodes : i \in Int /\ i <= seq
  BY DEF NumType, Numbering, Ino
<1>2. \A y \in inodes \cup {seq} : seq >= y
  BY <1>1
<1>3. ASSUME NEW x \in inodes \cup {seq}, \A y \in inodes \cup {seq} : x >= y
      PROVE  x = seq
  BY <1>1, <1>3
<1> QED
  BY <1>2, <1>3 DEF Max

LEMMA MigrateRest ==
  ASSUME Rest, MigrateToV2
  PROVE  Rest'
<1>1. /\ version = 1 /\ holder = "opening" /\ RootEntry \in entries
      /\ \A c \in Creators : creating[c] = Idle
      /\ \A f, g \in entries : f.ino = g.ino => f = g
      /\ Version1 \subseteq schema /\ Root \in inodes
  BY DEF Rest, Formats, VersionRowIsLast, MigrateToV2
<1>2. /\ entries' = {e \in entries : e.ino # Root} /\ seq' = seq
      /\ schema' = (schema \cup {"dentries"}) \ {"xattrs_gc"}
      /\ version' = 2 /\ holder' = "migrated"
      /\ UNCHANGED <<creating, maxSize, inodes, xattrs, limit, check, given>>
  BY SequenceKept DEF Rest, MigrateToV2
<1>3. NumType'
  BY <1>2 DEF Rest, NumType, Schema
<1>4. Building'
  BY <1>1, <1>2, ScriptFacts DEF Building, Idle
<1>5. Formats'
  BY <1>1, <1>2 DEF Rest, Formats
<1>6. Naming' /\ Numbering' /\ CheckNeverAlarms' /\ NoOrphanAttributes'
  BY <1>2 DEF Rest, Naming, Numbering, CheckNeverAlarms, NoOrphanAttributes
<1>7. VersionRowIsLast'
  BY <1>1, <1>2 DEF VersionRowIsLast, Version1
<1> QED
  BY <1>3, <1>4, <1>5, <1>6, <1>7 DEF Rest

LEMMA AddXattrsRest ==
  ASSUME Rest, AddXattrs
  PROVE  Rest'
<1>1. /\ version = 2 /\ holder = "migrated" /\ holder' \in {"migrated", "ready"}
      /\ schema \subseteq schema' /\ schema' \subseteq schema \cup {"xattrs", "xattrs_gc"}
      /\ holder' = "ready" => {"xattrs", "xattrs_gc"} \subseteq schema'
      /\ UNCHANGED <<creating, version, maxSize, inodes, entries, xattrs, seq, limit, check, given>>
  BY DEF Rest, Formats, AddXattrs
<1>2. NumType'
  BY <1>1 DEF Rest, NumType, Schema
<1>3. Building' /\ VersionRowIsLast' /\ CheckNeverAlarms' /\ NoOrphanAttributes'
  BY <1>1 DEF Rest, Building, VersionRowIsLast, CheckNeverAlarms, NoOrphanAttributes
<1>4. Formats' /\ Naming' /\ Numbering'
  BY <1>1 DEF Rest, Formats, Naming, Numbering
<1> QED
  BY <1>2, <1>3, <1>4 DEF Rest

(* The steps that only move the holder, or set its ceiling. *)
LEMMA HolderRest ==
  ASSUME Rest, OldOpen \/ OpenWritable \/ Serve \/ ServeReadOnly \/ Leave
  PROVE  Rest'
<1>1. /\ UNCHANGED <<creating, tables, check, given>>
      /\ holder' \in {"none", "old", "opening", "migrated", "ready", "serving", "readonly"}
      /\ holder' \in {"old", "opening"} => version = 1
      /\ holder' \in {"migrated", "ready", "serving", "readonly"} => version = 2
      /\ holder' \in {"ready", "serving"} => {"xattrs", "xattrs_gc"} \subseteq schema
  BY DEF Rest, NumType, Formats, OldOpen, OpenWritable, Serve, ServeReadOnly, Leave, tables
<1>2. limit' \in Nat
  BY DEF Rest, NumType, OldOpen, OpenWritable, Serve, ServeReadOnly, Leave, StoredLimit, NoRow
<1>3. NumType'
  BY <1>1, <1>2 DEF Rest, NumType, tables
<1>4. Building' /\ VersionRowIsLast' /\ CheckNeverAlarms' /\ NoOrphanAttributes'
  BY <1>1 DEF Rest, Building, VersionRowIsLast, CheckNeverAlarms, NoOrphanAttributes, tables
<1>5. Formats' /\ Naming' /\ Numbering'
  BY <1>1 DEF Rest, Formats, Naming, Numbering, tables
<1> QED
  BY <1>3, <1>4, <1>5 DEF Rest

LEMMA CheckRest ==
  ASSUME Rest, Checking
  PROVE  Rest'
<1>1. UNCHANGED <<creating, tables, holder, limit, given>>
  BY DEF Checking, CheckOpen, CheckVersion, CountNames, CountInodes
<1>2. Dangling = {} /\ Unreachable = {}
  BY DEF Rest, Naming, Dangling, Unreachable
<1>3. /\ check' \in {"off", "opened", "format2", "named"}
      /\ check' = "opened" => version # 0
      /\ check' \in {"format2", "named"} => version = 2
  BY <1>2 DEF Rest, NumType, Formats, VersionRowIsLast, Checking, CheckOpen, CheckVersion,
     CountNames, CountInodes
<1>4. NumType' /\ CheckNeverAlarms'
  BY <1>1, <1>3 DEF Rest, NumType, CheckNeverAlarms, tables
<1>5. Building' /\ VersionRowIsLast' /\ NoOrphanAttributes'
  BY <1>1 DEF Rest, Building, VersionRowIsLast, NoOrphanAttributes, tables
<1>6. Formats' /\ Naming' /\ Numbering'
  BY <1>1, <1>3 DEF Rest, Formats, Naming, Numbering, tables
<1> QED
  BY <1>4, <1>5, <1>6 DEF Rest

-----------------------------------------------------------------------------
(* exists becomes TRUE with the first open, and stays. *)
LEMMA PresentStep ==
  ASSUME Present, Rest, [Next]_vars
  PROVE  Present'
<1>1. version' # 0 /\ version = 0 => exists' = TRUE
  BY DEF Rest, NumType, Formats, Next, Creating, BeginCreate, CreateStep, CreateFails, Run, OldUse, OldOpen,
     OldCreate, OldDelete, OldSetXattr, Opening, OpenWritable, MigrateToV2, AddXattrs, Serve,
     ServeReadOnly, Leave, Serving, Create, Link, Unlink, SetXattr, Checking, CheckOpen,
     CheckVersion, CountNames, CountInodes, tables, vars
<1>2. exists' = exists \/ exists' = TRUE
  BY Zenon DEF Next, Creating, BeginCreate, CreateStep, CreateFails, Run, OldUse, OldOpen,
     OldCreate, OldDelete, OldSetXattr, Opening, OpenWritable, MigrateToV2, AddXattrs, Serve,
     ServeReadOnly, Leave, Serving, Create, Link, Unlink, SetXattr, Checking, CheckOpen,
     CheckVersion, CountNames, CountInodes, tables, vars
<1> QED
  BY <1>1, <1>2, Zenon DEF Present

LEMMA Invariance == Spec => []IInv
<1>1. Init => IInv
  <2>1. Init => Present
    BY Zenon DEF Init, Present
  <2> QED
    BY <2>1, InitRest, Parts, Zenon
<1>2. IInv /\ [Next]_vars => IInv'
  <2> SUFFICES ASSUME Present, Rest, [Next]_vars
               PROVE  Rest'
    BY Parts, PresentStep, PTL
  <2>1. CASE Creating
    <3>1. PICK c \in Creators : BeginCreate(c) \/ CreateStep(c) \/ CreateFails(c)
      BY <2>1 DEF Creating
    <3>2. BeginCreate(c) => version # 1
      <4>1. BeginCreate(c) => exists # TRUE
        BY Zenon DEF BeginCreate
      <4>2. version = 1 => version # 0
        OBVIOUS
      <4> QED
        BY <4>1, <4>2, Zenon DEF Present
    <3> QED
      BY <3>1, <3>2, BeginCreateRest, CreateStepRest, CreateFailsRest
  <2>2. CASE OldUse
    <3>1. CASE OldOpen
      BY <3>1, HolderRest
    <3>2. ASSUME NEW n \in Names, OldCreate(n) PROVE Rest'
      BY <3>2, NewFileRest DEF OldCreate
    <3>3. ASSUME NEW e \in entries, OldDelete(e) PROVE Rest'
      BY <3>3, OldDeleteRest
    <3>4. ASSUME NEW i \in inodes, OldSetXattr(i) PROVE Rest'
      BY <3>4, SetXattrRest
    <3> QED
      BY <2>2, <3>1, <3>2, <3>3, <3>4 DEF OldUse
  <2>3. CASE Opening
    BY <2>3, HolderRest, MigrateRest, AddXattrsRest DEF Opening
  <2>4. CASE Serving
    <3>1. ASSUME NEW n \in Names, Create(n) PROVE Rest'
      BY <3>1, NewFileRest DEF Create
    <3>2. ASSUME NEW e \in entries, NEW n \in Names, Link(e, n) PROVE Rest'
      BY <3>2, LinkRest
    <3>3. ASSUME NEW e \in entries, Unlink(e) PROVE Rest'
      BY <3>3, UnlinkRest
    <3>4. ASSUME NEW i \in inodes, SetXattr(i) PROVE Rest'
      BY <3>4, SetXattrRest
    <3> QED
      BY <2>4, <3>1, <3>2, <3>3, <3>4 DEF Serving
  <2>5. CASE Checking
    BY <2>5, CheckRest
  <2>6. CASE UNCHANGED vars
    BY <2>6 DEF Rest, NumType, Building, Formats, Naming, Numbering, VersionRowIsLast,
       NoOrphanAttributes, CheckNeverAlarms, vars, tables
  <2> QED
    BY <2>1, <2>2, <2>3, <2>4, <2>5, <2>6 DEF Next
<1> QED
  BY <1>1, <1>2, PTL DEF Spec

-----------------------------------------------------------------------------
(* Every variable keeps its type; a mount's ceiling is always a number.    *)
THEOREM TypeCorrect == Spec => []TypeOK
<1>1. IInv => TypeOK
  BY Zenon DEF IInv
<1> QED
  BY <1>1, Invariance, PTL

(* Where open_db_with finds the version row, it finds a whole container.   *)
THEOREM OpensOnlyWhole == Spec => []VersionRowIsLast
<1>1. IInv => VersionRowIsLast
  BY Zenon DEF IInv
<1> QED
  BY <1>1, Invariance, PTL

(* What a mount serves is format 2 with its root, and under a writable one *)
(* with the trigger, whichever process did or did not finish the upgrade.  *)
THEOREM MountServesWhole == Spec => []ServedIsWhole
<1>1. IInv => ServedIsWhole
  <2>1. RootEntry.ino = Root
    BY DEF RootEntry
  <2> QED
    BY <2>1 DEF IInv, Formats, VersionRowIsLast, ServedIsWhole, Essential, Version1
<1> QED
  BY <1>1, Invariance, PTL

(* The trigger leaves no attributes behind, whichever coffer deletes.      *)
THEOREM AttributesGoWithInode == Spec => []NoOrphanAttributes
<1>1. IInv => NoOrphanAttributes
  BY Zenon DEF IInv
<1> QED
  BY <1>1, Invariance, PTL

(* coffer check raises no alarm, whatever happens between its statements.  *)
THEOREM CheckIsQuiet == Spec => []CheckNeverAlarms
<1>1. IInv => CheckNeverAlarms
  BY Zenon DEF IInv
<1> QED
  BY <1>1, Invariance, PTL

(* AUTOINCREMENT never hands a number out twice, the change of format      *)
(* included: migrate_to_v2 carries the high-water mark over.               *)
THEOREM NumbersUnique == Spec => NumbersNeverReused
<1>1. ASSUME Rest, Next
      PROVE  (inodes' \ inodes) \cap given = {}
  <2>1. ASSUME NEW n \in Names, NewInode(n), holder \in {"old", "serving"}
        PROVE  (inodes' \ inodes) \cap given = {}
    <3>1. Root \in inodes
      BY <1>1, <2>1 DEF Rest, Formats, VersionRowIsLast
    <3> QED
      BY <1>1, <2>1, <3>1, NewInodeFacts DEF Rest
  <2>2. ASSUME NEW c \in Creators, CreateStep(c)
        PROVE  (inodes' \ inodes) \cap given = {}
    <3>1. CASE Script[creating[c]] = "root"
      <4>1. inodes' = inodes \cup {Root} /\ Root \notin inodes
        BY <2>2, <3>1 DEF CreateStep, Run, Conflicts
      <4>2. Root \notin given
        BY <1>1, <4>1 DEF Rest, Numbering
      <4> QED
        BY <4>1, <4>2
    <3>2. CASE Script[creating[c]] # "root"
      <4>1. inodes' = inodes
        BY <2>2, <3>2 DEF CreateStep, Run
      <4> QED
        BY <4>1
    <3> QED
      BY <3>1, <3>2
  <2>3. \/ \E n \in Names : NewInode(n) /\ holder \in {"old", "serving"}
        \/ \E c \in Creators : CreateStep(c)
        \/ inodes' \subseteq inodes
    BY <1>1 DEF Next, Creating, BeginCreate, CreateFails, OldUse, OldOpen, OldCreate,
       OldDelete, OldSetXattr, Opening, OpenWritable, MigrateToV2, AddXattrs, Serve,
       ServeReadOnly, Leave, Serving, Create, Link, Unlink, SetXattr, Checking, CheckOpen,
       CheckVersion, CountNames, CountInodes, tables
  <2> QED
    BY <2>1, <2>2, <2>3
<1>2. IInv /\ [Next]_vars => [(inodes' \ inodes) \cap given = {}]_vars
  BY <1>1, Parts
<1> QED
  BY <1>2, Invariance, PTL DEF Spec, NumbersNeverReused

(* Creating, opening and upgrading leave every file, its name and its      *)
(* attributes alone; the root's own row is the only one migrate_to_v2 does *)
(* not turn into a name.                                                   *)
THEOREM UpgradeKeepsTree == Spec => OpeningKeepsTree
<1>1. ASSUME Rest, Next, holder \notin {"old", "serving"}
      PROVE  Files' = Files /\ xattrs' = xattrs /\ inodes \subseteq inodes'
  <2>1. CASE MigrateToV2
    <3>1. version = 1 /\ RootEntry \in entries /\ \A e, f \in entries : e.ino = f.ino => e = f
      BY <1>1, <2>1 DEF Rest, Formats, MigrateToV2
    <3>2. RootEntry.ino = Root /\ RootEntry.parent # Root
      BY DEF RootEntry, Root
    <3>3. entries' = {e \in entries : e.ino # Root} /\ xattrs' = xattrs /\ inodes' = inodes
      BY <2>1 DEF MigrateToV2
    <3>4. \A e \in entries : e.parent = Root => e.ino # Root
      BY <3>1, <3>2
    <3> QED
      BY <3>3, <3>4 DEF Files
  <2>2. CASE Opening /\ ~MigrateToV2
    BY <2>2 DEF Opening, OpenWritable, AddXattrs, Serve, ServeReadOnly, Leave, tables, Files
  <2>3. CASE Creating
    BY <2>3 DEF Creating, BeginCreate, CreateStep, Run, CreateFails, tables, Files
  <2>4. CASE OldUse \/ Serving \/ Checking
    BY <1>1, <2>4 DEF OldUse, OldOpen, OldCreate, OldDelete, OldSetXattr, Serving, Create,
       Link, Unlink, SetXattr, Checking, CheckOpen, CheckVersion, CountNames, CountInodes,
       tables, Files
  <2> QED
    BY <1>1, <2>1, <2>2, <2>3, <2>4 DEF Next
<1>2. IInv /\ [Next]_vars =>
        [holder \notin {"old", "serving"} =>
           Files' = Files /\ xattrs' = xattrs /\ inodes \subseteq inodes']_vars
  BY <1>1, Parts
<1> QED
  BY <1>2, Invariance, PTL DEF Spec, OpeningKeepsTree

(* The ceiling a mount enforces is that of the create that reported        *)
(* success, however many ran against it.                                   *)
THEOREM CeilingHonoured == Spec => CeilingAsCreated
<1>1. ASSUME Rest, Next, holder \in {"none", "ready"}, holder' \in {"serving", "readonly"},
             NEW c \in Creators, creating[c] = Made
      PROVE  limit' = Ceiling[c]
  <2>1. maxSize = Ceiling[c] /\ Ceiling[c] \in Nat
    BY <1>1, CeilingAssumption DEF Rest, Building
  <2>2. StoredLimit = Ceiling[c]
    BY <2>1 DEF StoredLimit, NoRow
  <2>3. limit' = StoredLimit
    BY <1>1 DEF Next, Creating, BeginCreate, CreateStep, CreateFails, OldUse, OldOpen, OldCreate,
       OldDelete, OldSetXattr, Opening, OpenWritable, MigrateToV2, AddXattrs, Serve,
       ServeReadOnly, Leave, Serving, Create, Link, Unlink, SetXattr, Checking, CheckOpen,
       CheckVersion, CountNames, CountInodes
  <2> QED
    BY <2>2, <2>3
<1>2. IInv /\ [Next]_vars =>
        [(holder \in {"none", "ready"} /\ holder' \in {"serving", "readonly"}) =>
           \A c \in Creators : creating[c] = Made => limit' = Ceiling[c]]_vars
  BY <1>1, Parts
<1> QED
  BY <1>2, Invariance, PTL DEF Spec, CeilingAsCreated
=============================================================================
