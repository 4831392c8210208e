------------------------------ MODULE Container ------------------------------
(***************************************************************************)
(* The life of one container file, src/db.rs: created statement by         *)
(* statement, or inherited from a coffer 0.1.x in format 1; opened for     *)
(* writing, which turns format 1 into format 2; served by a mount; looked  *)
(* at by `coffer check`.                                                   *)
(*                                                                         *)
(* create_container and open_db_with run outside any transaction, so each  *)
(* of their statements is committed by itself and a process can die - or   *)
(* a statement fail, on a full disk - between any two.  migrate_to_v2 is   *)
(* one transaction and one step.  create takes no lock: several may run at *)
(* once, and beside a mount.  Everything that writes an existing container *)
(* holds the lock of lock_exclusive (see ContainerLocks), so there is at   *)
(* most one `holder`; `check` takes no lock.                               *)
(*                                                                         *)
(* One directory, the root, is enough for what happens to names here; the  *)
(* full set of handlers is CofferFS.                                       *)
(***************************************************************************)
EXTENDS Integers, Sequences, FiniteSetsExt

CONSTANTS Creators,   \* the processes running `coffer create` on this path
          Ceiling,    \* Ceiling[c]: the --max-size of creator c, 0 for none
          Names,      \* the names an entry may have
          MaxIno      \* bound: inode numbers handed out are 1..MaxIno

ASSUME CeilingAssumption == Ceiling \in [Creators -> Nat]
ASSUME MaxInoAssumption  == MaxIno \in Nat \ {0}

Root  == 1                \* ROOT_INO
Ino   == 1..MaxIno
NoRow == -1               \* meta has no row max_size

(* A directory entry.  In format 1 it is the two columns of the inode's    *)
(* row, and the root has one too, (0, ''); in format 2 a row of dentries.  *)
RootEntry == [parent |-> 0, name |-> "", ino |-> Root]
Entries   == [parent : {Root}, name : Names, ino : Ino] \cup {RootEntry}

(* create_container, in its order: the file is made by opening it, then    *)
(* come the statements.  Left out: the index on dentries, and the rows     *)
(* created_at and block_size, which nobody reads.                          *)
Script == << "open", "meta", "inodes", "dentries", "data", "xattrs", "xattrs_gc",
             "root", "schema_version", "max_size" >>

Steps  == 1..Len(Script)
Idle   == 0
Made   == Len(Script) + 1
Failed == Len(Script) + 2

Schema    == {"meta", "inodes", "dentries", "data", "xattrs", "xattrs_gc"}
Version1  == {"meta", "inodes", "data"}           \* before 0.1.3
Essential == {"meta", "inodes", "dentries", "data"}

VARIABLES
  exists,   \* path.exists()
  creating, \* creating[c]: the statement c is about to run, or its outcome
  schema,   \* sqlite_master: the tables and the trigger there are
  version,  \* meta.schema_version; 0 while there is no such row
  maxSize,  \* meta.max_size
  inodes,   \* the numbers that have a row in inodes
  entries,  \* the names, wherever the format keeps them
  xattrs,   \* the inodes that have rows in xattrs
  seq,      \* sqlite_sequence: the high-water mark of AUTOINCREMENT
  holder,   \* how far the process that holds the container lock has got
  limit,    \* CofferFS.max_size of the mount; 0: no ceiling
  check,    \* what a running `coffer check` has found so far
  given     \* observer: every inode number ever given to an object

tables == <<schema, version, maxSize, inodes, entries, xattrs, seq>>
vars   == <<exists, creating, tables, holder, limit, check, given>>

TypeOK ==
  /\ exists \in BOOLEAN
  /\ creating \in [Creators -> 0..Failed]
  /\ schema \subseteq Schema
  /\ version \in {0, 1, 2}
  /\ maxSize \in Nat \cup {NoRow}
  /\ inodes \subseteq Ino /\ given \subseteq Ino
  /\ entries \subseteq Entries
  /\ xattrs \subseteq Ino
  /\ seq \in 0..MaxIno
  /\ holder \in {"none", "old", "opening", "migrated", "ready", "serving", "readonly"}
  /\ limit \in Nat
  /\ check \in {"off", "opened", "format2", "named", "alarm"}

(* Nothing at this path yet - or a container in the layout of coffer 0.1.x,*)
(* with or without the table that 0.1.3 added.                             *)
Init ==
  /\ creating = [c \in Creators |-> Idle]
  /\ holder = "none" /\ limit = 0 /\ check = "off" /\ xattrs = {}
  /\ \/ /\ exists = FALSE
        /\ schema = {} /\ version = 0 /\ maxSize = NoRow
        /\ inodes = {} /\ entries = {} /\ seq = 0 /\ given = {}
     \/ /\ exists = TRUE
        /\ schema \in {Version1, Version1 \cup {"xattrs", "xattrs_gc"}}
        /\ version = 1 /\ maxSize = 0
        /\ inodes = {Root} /\ entries = {RootEntry}
        /\ seq = Root /\ given = {Root}

-----------------------------------------------------------------------------
(* create_container *)

BugConflicts(s) == FALSE  \* IF NOT EXISTS and INSERT OR REPLACE throughout

(* Does the statement find what it makes already there?  CREATE TABLE and  *)
(* the inserts into inodes and meta are errors then; the two statements of *)
(* XATTRS_SCHEMA say IF NOT EXISTS.                                        *)
Conflicts(s) ==
  \/ s \in {"meta", "inodes", "dentries", "data"} /\ s \in schema
  \/ s = "root" /\ Root \in inodes
  \/ s = "schema_version" /\ version # 0
  \/ s = "max_size" /\ maxSize # NoRow

(* What the statement leaves in the file. *)
Run(s, c) ==
  /\ exists'  = TRUE
  /\ schema'  = IF s \in Schema THEN schema \cup {s} ELSE schema
  /\ version' = IF s = "schema_version" THEN 2 ELSE version
  /\ maxSize' = IF s = "max_size" THEN Ceiling[c] ELSE maxSize
  /\ inodes'  = IF s = "root" THEN inodes \cup {Root} ELSE inodes
  /\ seq'     = IF s = "root" /\ seq < Root THEN Root ELSE seq
  /\ given'   = IF s = "root" THEN given \cup {Root} ELSE given
  /\ UNCHANGED <<entries, xattrs>>

(* path.exists() is a look, not a reservation: another creator may open    *)
(* the path between this look and this creator's own open.                 *)
BeginCreate(c) ==
  /\ creating[c] = Idle
  /\ ~exists
  /\ creating' = [creating EXCEPT ![c] = 1]
  /\ UNCHANGED <<exists, tables, holder, limit, check, given>>

BugCreateStep(c) ==       \* the rows of meta first, the tables after
  LET order == << "open", "meta", "schema_version", "max_size", "inodes",
                  "dentries", "data", "xattrs", "xattrs_gc", "root" >>
      s == order[creating[c]] IN
  /\ creating[c] \in Steps
  /\ ~Conflicts(s)
  /\ Run(s, c)
  /\ creating' = [creating EXCEPT ![c] = @ + 1]
  /\ UNCHANGED <<holder, limit, check>>

CreateStep(c) ==
  /\ creating[c] \in Steps
  /\ ~Conflicts(Script[creating[c]])
  /\ Run(Script[creating[c]], c)
  /\ creating' = [creating EXCEPT ![c] = @ + 1]
  /\ UNCHANGED <<holder, limit, check>>

(* A statement fails, or the process dies.  The file stays as it is. *)
CreateFails(c) ==
  /\ creating[c] \in Steps
  /\ creating' = [creating EXCEPT ![c] = Failed]
  /\ UNCHANGED <<exists, tables, holder, limit, check, given>>

-----------------------------------------------------------------------------
(* Rows of inodes come and go *)

(* INSERT INTO inodes without a number: AUTOINCREMENT takes the one above  *)
(* the high-water mark.                                                    *)
NewInode(n) ==
  /\ seq < MaxIno
  /\ \A e \in entries : e.name # n
  /\ seq' = seq + 1
  /\ inodes' = inodes \cup {seq + 1}
  /\ entries' = entries \cup {[parent |-> Root, name |-> n, ino |-> seq + 1]}
  /\ given' = given \cup {seq + 1}

(* DELETE FROM inodes fires the trigger, whoever issued it. *)
BugAttributesLeft(i) == xattrs
AttributesLeft(i) == IF "xattrs_gc" \in schema THEN xattrs \ {i} ELSE xattrs

(* A coffer 0.1.x, which knows format 1 only.  One from before 0.1.3 knows *)
(* nothing of xattrs and deletes an inode with one plain DELETE.           *)
OldOpen ==
  /\ version = 1
  /\ holder = "none"
  /\ holder' = "old"
  /\ UNCHANGED <<exists, creating, tables, limit, check, given>>

OldCreate(n) ==
  /\ holder = "old"
  /\ NewInode(n)
  /\ UNCHANGED <<exists, creating, schema, version, maxSize, xattrs, holder, limit, check>>

OldDelete(e) ==
  /\ holder = "old"
  /\ e \in entries \ {RootEntry}
  /\ inodes' = inodes \ {e.ino}
  /\ entries' = entries \ {e}
  /\ xattrs' = AttributesLeft(e.ino)
  /\ UNCHANGED <<exists, creating, schema, version, maxSize, seq, holder, limit, check, given>>

OldSetXattr(i) ==         \* 0.1.3
  /\ holder = "old"
  /\ "xattrs" \in schema
  /\ i \in inodes
  /\ xattrs' = xattrs \cup {i}
  /\ UNCHANGED <<exists, creating, schema, version, maxSize, inodes, entries, seq, holder, limit, check, given>>

-----------------------------------------------------------------------------
(* open_db_with, and what cmd_mount does with the connection *)

(* The version row is read; anything but a coffer container is refused.    *)
OpenWritable ==
  /\ holder = "none"
  /\ version \in {1, 2}
  /\ holder' = IF version = 1 THEN "opening" ELSE "migrated"
  /\ UNCHANGED <<exists, creating, tables, limit, check, given>>

BugMigrateNames ==        \* WHERE ino > 2
  /\ holder = "opening"
  /\ entries' = {e \in entries : e.ino > Root + 1}
  /\ schema' = (schema \cup {"dentries"}) \ {"xattrs_gc"}
  /\ version' = 2
  /\ holder' = "migrated"
  /\ UNCHANGED <<exists, creating, maxSize, inodes, xattrs, seq, limit, check, given>>

BugMigrateSequence ==     \* no UPDATE sqlite_sequence
  /\ holder = "opening"
  /\ entries' = {e \in entries : e.ino # Root}
  /\ seq' = Max(inodes)
  /\ schema' = (schema \cup {"dentries"}) \ {"xattrs_gc"}
  /\ version' = 2
  /\ holder' = "migrated"
  /\ UNCHANGED <<exists, creating, maxSize, inodes, xattrs, limit, check, given>>

(* migrate_to_v2: the names go to dentries, the rows to a new table, the   *)
(* high-water mark - the larger of the old table's and what the copied     *)
(* rows made of the new one's - is carried over, and DROP TABLE inodes     *)
(* takes the trigger with it.                                              *)
MigrateToV2 ==
  /\ holder = "opening"
  /\ entries' = {e \in entries : e.ino # Root}
  /\ seq' = Max(inodes \cup {seq})
  /\ schema' = (schema \cup {"dentries"}) \ {"xattrs_gc"}
  /\ version' = 2
  /\ holder' = "migrated"
  /\ UNCHANGED <<exists, creating, maxSize, inodes, xattrs, limit, check, given>>

(* XATTRS_SCHEMA, two statements. *)
BugAddXattrs ==           \* the trigger is taken to have survived
  /\ holder = "migrated"
  /\ schema' = schema \cup {"xattrs"}
  /\ holder' = "ready"
  /\ UNCHANGED <<exists, creating, version, maxSize, inodes, entries, xattrs, seq, limit, check, given>>

AddXattrs ==
  /\ holder = "migrated"
  /\ \/ /\ "xattrs" \notin schema
        /\ schema' = schema \cup {"xattrs"}
        /\ UNCHANGED holder
     \/ /\ "xattrs" \in schema
        /\ schema' = schema \cup {"xattrs_gc"}
        /\ holder' = "ready"
  /\ UNCHANGED <<exists, creating, version, maxSize, inodes, entries, xattrs, seq, limit, check, given>>

(* read_max_size: no row, no ceiling. *)
StoredLimit == IF maxSize = NoRow THEN 0 ELSE maxSize

Serve ==
  /\ holder = "ready"
  /\ limit' = StoredLimit
  /\ holder' = "serving"
  /\ UNCHANGED <<exists, creating, tables, check, given>>

(* mount --read-only: opened without changing anything, and given up unless*)
(* the container is in format 2 already.                                   *)
ServeReadOnly ==
  /\ holder = "none"
  /\ version = 2
  /\ limit' = StoredLimit
  /\ holder' = "readonly"
  /\ UNCHANGED <<exists, creating, tables, check, given>>

(* The mount ends, the command is done - `passwd` and `compact` open the   *)
(* same way and leave these tables alone -, a statement of the opening     *)
(* fails (a migration then rolls back), or the process dies.               *)
Leave ==
  /\ holder # "none"
  /\ holder' = "none"
  /\ limit' = 0
  /\ UNCHANGED <<exists, creating, tables, check, given>>

-----------------------------------------------------------------------------
(* The handlers that change names, in format 2 *)

Create(n) ==
  /\ holder = "serving"
  /\ NewInode(n)
  /\ UNCHANGED <<exists, creating, schema, version, maxSize, xattrs, holder, limit, check>>

Link(e, n) ==             \* of a directory: EPERM
  /\ holder = "serving"
  /\ e \in entries /\ e.ino # Root
  /\ \A f \in entries : f.name # n
  /\ entries' = entries \cup {[e EXCEPT !.name = n]}
  /\ UNCHANGED <<exists, creating, schema, version, maxSize, inodes, xattrs, seq, holder, limit, check, given>>

(* unlink_dentry: the inode goes with its last name. *)
Unlink(e) ==
  LET last == \A f \in entries \ {e} : f.ino # e.ino IN
  /\ holder = "serving"
  /\ e \in entries /\ e.parent = Root
  /\ entries' = entries \ {e}
  /\ inodes' = IF last THEN inodes \ {e.ino} ELSE inodes
  /\ xattrs' = IF last THEN xattrs \ {e.ino} ELSE xattrs
  /\ UNCHANGED <<exists, creating, schema, version, maxSize, seq, holder, limit, check, given>>

SetXattr(i) ==
  /\ holder = "serving"
  /\ "xattrs" \in schema
  /\ i \in inodes
  /\ xattrs' = xattrs \cup {i}
  /\ UNCHANGED <<exists, creating, schema, version, maxSize, inodes, entries, seq, holder, limit, check, given>>

-----------------------------------------------------------------------------
(* coffer check: open read-only, read the version again, then two counts,  *)
(* each a statement - and a snapshot - of its own.                         *)

CheckOpen ==
  /\ check = "off"
  /\ version \in {1, 2}
  /\ check' = "opened"
  /\ UNCHANGED <<exists, creating, tables, holder, limit, given>>

BugCheckVersion ==        \* as if there were format 2 only
  /\ check = "opened"
  /\ check' = "format2"
  /\ UNCHANGED <<exists, creating, tables, holder, limit, given>>

CheckVersion ==
  /\ check = "opened"
  /\ check' = IF version = 2 THEN "format2" ELSE "off"
  /\ UNCHANGED <<exists, creating, tables, holder, limit, given>>

(* find_inconsistencies.  Without the table dentries a count is an error,  *)
(* and an error an alarm.                                                  *)
Dangling    == {e \in entries : e.ino \notin inodes}
Unreachable == {i \in inodes \ {Root} : \A e \in entries : e.ino # i}

CountNames ==
  /\ check = "format2"
  /\ check' = IF "dentries" \notin schema \/ Dangling # {} THEN "alarm" ELSE "named"
  /\ UNCHANGED <<exists, creating, tables, holder, limit, given>>

CountInodes ==
  /\ check = "named"
  /\ check' = IF "dentries" \notin schema \/ Unreachable # {} THEN "alarm" ELSE "off"
  /\ UNCHANGED <<exists, creating, tables, holder, limit, given>>

Creating == \E c \in Creators : BeginCreate(c) \/ CreateStep(c) \/ CreateFails(c)
OldUse   == \/ OldOpen
            \/ \E n \in Names : OldCreate(n)
            \/ \E e \in entries : OldDelete(e)
            \/ \E i \in inodes : OldSetXattr(i)
Opening  == OpenWritable \/ MigrateToV2 \/ AddXattrs \/ Serve \/ ServeReadOnly \/ Leave
Serving  == \/ \E n \in Names : Create(n)
            \/ \E e \in entries, n \in Names : Link(e, n)
            \/ \E e \in entries : Unlink(e)
            \/ \E i \in inodes : SetXattr(i)
Checking == CheckOpen \/ CheckVersion \/ CountNames \/ CountInodes

Next == Creating \/ OldUse \/ Opening \/ Serving \/ Checking

Spec == Init /\ [][Next]_vars

-----------------------------------------------------------------------------
(* The row schema_version says that the container is one: open_db_with     *)
(* goes by it alone.  Whatever create was doing when it died, and however  *)
(* many ran at once, where there is that row there are the tables of the   *)
(* format it names and the root directory.                                 *)
VersionRowIsLast ==
  version # 0 =>
    /\ Version1 \subseteq schema
    /\ version = 2 => "dentries" \in schema
    /\ Root \in inodes

(* A mount serves format 2, the root not among the names; a writable one   *)
(* with the table for attributes and the trigger that the migration        *)
(* dropped - also when the migration was done by an earlier process that   *)
(* died before it put the trigger back.                                    *)
ServedIsWhole ==
  holder \in {"serving", "readonly"} =>
    /\ version = 2 /\ Essential \subseteq schema
    /\ Root \in inodes /\ RootEntry \notin entries
    /\ holder = "serving" => {"xattrs", "xattrs_gc"} \subseteq schema

(* No attributes of an inode that is gone, also where the deleting coffer  *)
(* has never heard of attributes (db.rs:59-63).                            *)
NoOrphanAttributes == xattrs \subseteq inodes

(* `coffer check` takes no lock: files come and go and the container       *)
(* changes its format between its statements.  It raises no alarm over a   *)
(* container nothing is wrong with.                                        *)
CheckNeverAlarms == check # "alarm"

(* Only a user removes a name, a file or an attribute: making, opening and *)
(* upgrading a container, in any number of attempts, never does.           *)
Files == {e \in entries : e.parent = Root}
OpeningKeepsTree ==
  [][holder \notin {"old", "serving"} =>
       /\ Files' = Files /\ xattrs' = xattrs
       /\ inodes \subseteq inodes']_vars

(* A new inode gets a number no other ever had, before or after the change *)
(* of format (db.rs:156-163): FUSE handles outlive files.                  *)
NumbersNeverReused == [][(inodes' \ inodes) \cap given = {}]_vars

(* When a create has said that it made the container, every later mount    *)
(* enforces the ceiling that this create was asked for.                    *)
CeilingAsCreated ==
  [][(holder \in {"none", "ready"} /\ holder' \in {"serving", "readonly"}) =>
       \A c \in Creators : creating[c] = Made => limit' = Ceiling[c]]_vars

=============================================================================
