------------------------------ MODULE CofferFS ------------------------------
(***************************************************************************)
(* The FUSE handlers of src/fs.rs over the tables of a format-2 container. *)
(*                                                                         *)
(* Every handler takes the connection mutex, opens one SQLite transaction  *)
(* and either commits it or drops it, so a handler is one action; a        *)
(* request the handler refuses rolls back and is no step.  What makes the  *)
(* system interesting is not two handlers at once but the long sequences   *)
(* of requests: a file handle IS an inode number (open answers             *)
(* FileHandle(ino)), so a request may name an inode that is long gone.     *)
(*                                                                         *)
(* Times, owners and file contents are left out (contents: see FileBlocks).*)
(***************************************************************************)
EXTENDS Integers, FiniteSets, Functions

CONSTANTS Names,      \* the names an entry may have
          MaxIno,     \* bound: inode numbers handed out are 1..MaxIno
          Modes,      \* the modes a caller asks for, each a subset of ModeBits
          XNames,     \* names of extended attributes
          Capability, \* "security.capability", the one attribute that is a privilege
          BlockSize,  \* bytes of a row of `data`
          MaxLen,     \* MAX_FILE_SIZE: the largest length of a file
          MaxSize     \* the container's ceiling on SUM(size); 0: no ceiling

ModeBits == {"suid", "sgid", "gx"}

ASSUME MaxInoAssumption    == MaxIno \in Nat \ {0}
ASSUME ModesAssumption     == Modes \subseteq SUBSET ModeBits
ASSUME BlockSizeAssumption == BlockSize \in Nat \ {0}
ASSUME MaxLenAssumption    == MaxLen \in Nat
ASSUME MaxSizeAssumption   == MaxSize \in Nat

Root == 1                 \* ROOT_INO
None == 0                 \* no entry under this name
Ino  == 1..MaxIno
Kinds == {"dir", "file", "symlink"}
NoRow == "none"           \* kind of an inode number without a row

VARIABLES
  kind,     \* inodes.kind, NoRow where the table has no row
  mode,     \* inodes.mode, the three bits kill_priv looks at
  size,     \* inodes.size
  dentries, \* dentries: (parent, name) -> ino, the primary key as a function
  blocks,   \* data: the block numbers stored for an inode
  xattrs,   \* xattrs: the attribute names stored for an inode
  seq,      \* sqlite_sequence: the high-water mark of AUTOINCREMENT
  mount,    \* "none", "rw" or "ro"
  \* Observers, read by no action:
  issued,   \* every inode number ever given to an object
  modeDue,  \* changed by an unprivileged caller since their last chmod
  capDue,   \* the same, since `security.capability` was last set
  sum       \* "failed" once something grew although SUM(size) could not be read

tables == <<kind, mode, size, dentries, blocks, xattrs, seq>>
vars   == <<tables, mount, issued, modeDue, capDue, sum>>

TypeOK ==
  /\ kind \in [Ino -> Kinds \cup {NoRow}]
  /\ mode \in [Ino -> SUBSET ModeBits]
  /\ size \in [Ino -> 0..MaxLen]
  /\ dentries \in [Ino -> [Names -> Ino \cup {None}]]
  /\ blocks \in [Ino -> SUBSET (0..MaxLen)]
  /\ xattrs \in [Ino -> SUBSET XNames]
  /\ seq \in Ino
  /\ mount \in {"none", "rw", "ro"}
  /\ issued \subseteq Ino
  /\ modeDue \subseteq Ino
  /\ capDue \subseteq Ino
  /\ sum \in {"read", "failed"}

(* A container as create_container leaves it: an empty root directory.     *)
Init ==
  /\ kind = [i \in Ino |-> IF i = Root THEN "dir" ELSE NoRow]
  /\ mode = [i \in Ino |-> {}]
  /\ size = [i \in Ino |-> 0]
  /\ dentries = [p \in Ino |-> [n \in Names |-> None]]
  /\ blocks = [i \in Ino |-> {}]
  /\ xattrs = [i \in Ino |-> {}]
  /\ seq = Root
  /\ mount = "none"
  /\ issued = {Root}
  /\ modeDue = {}
  /\ capDue = {}
  /\ sum = "read"

-----------------------------------------------------------------------------
(* The helpers every handler shares.                                       *)

HasRow(i) == kind[i] # NoRow

Writable == mount = "rw"                            \* else EROFS

(* A mutation `Bug...` stands before the definition it is a plausible      *)
(* wrong version of; no action uses one.                                   *)
BugRowFound(i) == TRUE                             \* the handle is trusted

(* row_by_ino answers Some. *)
RowFound(i) == HasRow(i)

HasChildren(i) == \E n \in Names : dentries[i][n] # None

HasName(d, i) == \E p \in Ino, n \in Names : d[p][n] = i

LinkDentry(d, p, n, i) == [d EXCEPT ![p][n] = i]

DropDentry(d, p, n) == [d EXCEPT ![p][n] = None]

BugNamelessAlways(d, i) == {i}                     \* one name stands for the file

BugNamelessEarly(d, i) ==                          \* counted before the DELETE
  IF HasName(dentries, i) THEN {} ELSE {i}

(* The inode goes with its last name: unlink_dentry counts the names that  *)
(* remain in the table `d` once one of them is deleted.                    *)
Nameless(d, i) == IF HasName(d, i) THEN {} ELSE {i}

(* delete_inode, for the at most one member of `gone`. *)
DeleteInode(gone) ==
  /\ kind' = [i \in Ino |-> IF i \in gone THEN NoRow ELSE kind[i]]
  /\ mode' = [i \in Ino |-> IF i \in gone THEN {} ELSE mode[i]]
  /\ size' = [i \in Ino |-> IF i \in gone THEN 0 ELSE size[i]]
  /\ blocks' = [i \in Ino |-> IF i \in gone THEN {} ELSE blocks[i]]
  /\ xattrs' = [i \in Ino |-> IF i \in gone THEN {} ELSE xattrs[i]]
  /\ modeDue' = modeDue \ gone
  /\ capDue' = capDue \ gone

BugRemovable(i) == TRUE                            \* left to the kernel

(* A directory may be removed or replaced only while empty. *)
Removable(i) == kind[i] = "dir" => ~HasChildren(i)

Used == SumFunction(size)

(* `if let Ok(used) = current_total_size(..)`: the query answers an i64,   *)
(* and MaxLen is i64::MAX.  Where the sum is larger, or the table cannot   *)
(* be read, there is nothing to compare and the handler goes on.           *)
Ceiling(fits) ==
  \/ (MaxSize # 0 /\ Used <= MaxLen => fits) /\ UNCHANGED sum
  \/ MaxSize # 0 /\ sum' = "failed"

BugHasRoomFor(growth) ==                           \* any room is room enough
  IF growth > 0 THEN Ceiling(Used < MaxSize) ELSE UNCHANGED sum

HasRoomFor(growth) ==
  IF growth > 0 THEN Ceiling(Used + growth <= MaxSize) ELSE UNCHANGED sum

BugNextIno ==                                      \* a plain INTEGER PRIMARY KEY
  CHOOSE i \in 2..(seq + 1) : HasRow(i - 1) /\ \A j \in i..seq : ~HasRow(j)

(* SQLite's AUTOINCREMENT: never below a number that was ever used. *)
NextIno == seq + 1

InsertChild(p, n, k, m, s) ==
  /\ seq < MaxIno                                  \* bound of the model
  /\ kind' = [kind EXCEPT ![NextIno] = k]
  /\ mode' = [mode EXCEPT ![NextIno] = m]
  /\ size' = [size EXCEPT ![NextIno] = s]
  /\ dentries' = LinkDentry(dentries, p, n, NextIno)
  /\ seq' = IF NextIno > seq THEN NextIno ELSE seq
  /\ issued' = issued \cup {NextIno}
  /\ UNCHANGED <<blocks, xattrs, mount, modeDue, capDue>>

(* kill_priv: setuid always, setgid only where the group may execute. *)
KillMode(m) == m \ ({"suid"} \cup (IF "gx" \in m THEN {"sgid"} ELSE {}))

KillXattrs(x) == x \ {Capability}

StoredBlocks(off, len) == (off \div BlockSize)..((off + len - 1) \div BlockSize)

BugTruncated(stored, length) ==                    \* the block at the cut stays
  {b \in stored : b * BlockSize <= length}

(* truncate_inode: whole blocks past the end go, and a last block that     *)
(* would keep no byte goes too.                                            *)
Truncated(stored, length) == {b \in stored : b * BlockSize < length}

-----------------------------------------------------------------------------
(* What the kernel keeps from the handlers (external).                     *)

(* Entries are only added to or removed from a directory that is still     *)
(* there: the kernel marks a removed directory dead.                       *)
KernelParent(p) == kind[p] = "dir"

(* write(2) and truncate(2) reach regular files only; a handle may outlive *)
(* its inode, so the row may be gone.                                      *)
KernelRegular(i) == kind[i] \notin {"dir", "symlink"}

(* The objects with a name in a directory of S, by the table `d`. *)
Children(d, S) == {d[p][n] : p \in S, n \in Names} \ {None}

(* Everything at most MaxIno levels below i, i included. *)
Subtree(d, i) ==
  LET level[k \in 0..MaxIno] ==
        IF k = 0 THEN {i} ELSE level[k - 1] \cup Children(d, level[k - 1])
  IN  level[MaxIno]

(* rename(2): a directory replaces a directory, anything else anything     *)
(* else, and nothing moves below itself.                                   *)
KernelRename(src, q, target) ==
  /\ target # None => (kind[src] = "dir" <=> kind[target] = "dir")
  /\ kind[src] = "dir" => q \notin Subtree(dentries, src)

-----------------------------------------------------------------------------
(* The handlers.                                                           *)

Mkdir(p, n, m) ==
  /\ Writable /\ KernelParent(p)
  /\ dentries[p][n] = None
  /\ InsertChild(p, n, "dir", m, 0)
  /\ UNCHANGED sum

Create(p, n, m) ==
  /\ Writable /\ KernelParent(p)
  /\ dentries[p][n] = None
  /\ Ceiling(Used < MaxSize)
  /\ InsertChild(p, n, "file", m, 0)

Symlink(p, n, len) ==
  /\ Writable /\ KernelParent(p)
  /\ dentries[p][n] = None
  /\ HasRoomFor(len)
  /\ InsertChild(p, n, "symlink", {"gx"}, len)

Linkable(i) == RowFound(i) /\ kind[i] # "dir"

Link(i, p, n) ==
  /\ Writable /\ KernelParent(p)
  /\ Linkable(i)
  /\ dentries[p][n] = None
  /\ dentries' = LinkDentry(dentries, p, n, i)
  /\ UNCHANGED <<kind, mode, size, blocks, xattrs, seq, mount, issued, modeDue, capDue, sum>>

Unlink(p, n) ==
  LET i == dentries[p][n]
      d == DropDentry(dentries, p, n)
  IN  /\ Writable /\ KernelParent(p)
      /\ i # None /\ kind[i] # "dir"               \* the kernel sends rmdir for a directory
      /\ dentries' = d
      /\ DeleteInode(Nameless(d, i))
      /\ UNCHANGED <<seq, mount, issued, sum>>

Rmdir(p, n) ==
  LET i == dentries[p][n]
      d == DropDentry(dentries, p, n)
  IN  /\ Writable /\ KernelParent(p)
      /\ i \notin {None, Root} /\ kind[i] = "dir"
      /\ Removable(i)
      /\ dentries' = d
      /\ DeleteInode(Nameless(d, i))
      /\ UNCHANGED <<seq, mount, issued, sum>>

RenameFlags == {"none", "noreplace", "exchange", "whiteout"}

(* The UPDATE of the moved row fails on the primary key when the target is *)
(* another name of the same inode, and changes nothing when it is the very *)
(* same entry: in both cases no step.                                      *)
Rename(p, n, q, m, flag) ==
  LET src    == dentries[p][n]
      target == dentries[q][m]
      d      == DropDentry(dentries, q, m)
  IN  /\ Writable /\ KernelParent(p) /\ KernelParent(q)
      /\ src # None /\ target # src
      /\ flag \notin {"exchange", "whiteout"}
      /\ flag = "noreplace" => target = None
      /\ KernelRename(src, q, target)
      /\ target # None => Removable(target)
      /\ dentries' = DropDentry(LinkDentry(d, q, m, src), p, n)
      /\ DeleteInode(IF target = None THEN {} ELSE Nameless(d, target))
      /\ UNCHANGED <<seq, mount, issued, sum>>

Callers == {"root", "user"}

BugWithinLimit(off, len) == off <= MaxLen          \* the offset alone is checked

(* EFBIG past MAX_FILE_SIZE. *)
WithinLimit(off, len) == off + len <= MaxLen

(* A write with FUSE_WRITE_KILL_SUIDGID, which the kernel sets for a       *)
(* caller without CAP_FSETID, drops the privileges of the file.            *)
Write(i, off, len, caller) ==
  /\ Writable /\ KernelRegular(i)
  /\ WithinLimit(off, len)
  /\ RowFound(i)
  /\ HasRoomFor(off + len - size[i])
  /\ blocks' = [blocks EXCEPT ![i] = @ \cup StoredBlocks(off, len)]
  /\ size' = [size EXCEPT ![i] = IF off + len > @ THEN off + len ELSE @]
  /\ IF caller = "user"
       THEN /\ mode' = [mode EXCEPT ![i] = KillMode(@)]
            /\ xattrs' = [xattrs EXCEPT ![i] = KillXattrs(@)]
            /\ modeDue' = modeDue \cup {i}
            /\ capDue' = capDue \cup {i}
       ELSE UNCHANGED <<mode, xattrs, modeDue, capDue>>
  /\ UNCHANGED <<kind, dentries, seq, mount, issued>>

BugSetattrKills(i, valid, caller) ==               \* chown is forgotten
  "mode" \notin valid /\ "size" \in valid /\ caller = "user"

(* Whether setattr drops the privileges itself: a truncate by a caller     *)
(* other than root, a chown of anything but a directory, and never in a    *)
(* call that sets the mode.                                                *)
SetattrKills(i, valid, caller) ==
  /\ "mode" \notin valid
  /\ \/ "size" \in valid /\ caller = "user"
     \/ "owner" \in valid /\ kind[i] # "dir"

(* An unprivileged truncate, and any chown of what can be executed, leave  *)
(* the privileges due to be dropped.                                       *)
Disturbs(i, valid, caller) ==
  \/ "size" \in valid /\ caller # "root"
  \/ "owner" \in valid /\ kind[i] \in {"file", "symlink"}

(* `valid` is the set of attributes the request carries: mode, owner (uid, *)
(* gid or both), size.                                                     *)
Setattr(i, valid, newMode, newSize, caller) ==
  LET asked == IF "mode" \in valid THEN newMode ELSE mode[i]
      kills == SetattrKills(i, valid, caller)
  IN  /\ Writable /\ ("size" \in valid => KernelRegular(i))
      /\ RowFound(i)
      /\ IF "size" \in valid
           THEN WithinLimit(0, newSize) /\ HasRoomFor(newSize - size[i])
           ELSE UNCHANGED sum
      /\ mode' = [mode EXCEPT ![i] = IF kills THEN KillMode(asked) ELSE asked]
      /\ xattrs' = [xattrs EXCEPT ![i] = IF kills THEN KillXattrs(@) ELSE @]
      /\ IF "size" \in valid
           THEN /\ size' = [size EXCEPT ![i] = newSize]
                /\ blocks' = [blocks EXCEPT ![i] = Truncated(@, newSize)]
           ELSE UNCHANGED <<size, blocks>>
      /\ IF "mode" \in valid
           THEN modeDue' = modeDue \ {i} /\ capDue' = capDue
           ELSE LET due == IF Disturbs(i, valid, caller) THEN {i} ELSE {}
                IN  modeDue' = modeDue \cup due /\ capDue' = capDue \cup due
      /\ UNCHANGED <<kind, dentries, seq, mount, issued>>

(* flag: XATTR_CREATE, XATTR_REPLACE or neither. *)
Setxattr(i, x, flag) ==
  /\ Writable
  /\ RowFound(i)
  /\ flag = "create" => x \notin xattrs[i]
  /\ flag = "replace" => x \in xattrs[i]
  /\ xattrs' = [xattrs EXCEPT ![i] = @ \cup {x}]
  /\ capDue' = IF x = Capability THEN capDue \ {i} ELSE capDue
  /\ UNCHANGED <<kind, mode, size, dentries, blocks, seq, mount, issued, modeDue, sum>>

(* No row of `inodes` is looked up: what is deleted must have been stored. *)
Removexattr(i, x) ==
  /\ Writable
  /\ x \in xattrs[i]
  /\ xattrs' = [xattrs EXCEPT ![i] = @ \ {x}]
  /\ UNCHANGED <<kind, mode, size, dentries, blocks, seq, mount, issued, modeDue, capDue, sum>>

(* A mount, and its end by umount or by kill -9: every commit is already   *)
(* in the write-ahead log, so the tables are what the last handler left.   *)
Mount(m) ==
  /\ mount = "none"
  /\ mount' = m
  /\ UNCHANGED <<tables, issued, modeDue, capDue, sum>>

Unmount ==
  /\ mount # "none"
  /\ mount' = "none"
  /\ UNCHANGED <<tables, issued, modeDue, capDue, sum>>

-----------------------------------------------------------------------------
(* A request on an inode may name any number that was ever handed out. *)
Handles == 1..seq

NamespaceNext ==
  \E p \in Handles, n \in Names :
    \/ \E m \in Modes : Mkdir(p, n, m)
    \/ \E m \in Modes : Create(p, n, m)
    \/ \E len \in 1..MaxLen : Symlink(p, n, len)
    \/ \E i \in Handles : Link(i, p, n)
    \/ Unlink(p, n)
    \/ Rmdir(p, n)
    \/ \E q \in Handles, m \in Names, flag \in RenameFlags : Rename(p, n, q, m, flag)

AttributeNext ==
  \E i \in Handles :
    \/ \E off \in 0..MaxLen, len \in 1..MaxLen, caller \in Callers : Write(i, off, len, caller)
    \/ \E valid \in (SUBSET {"mode", "owner", "size"}) \ {{}},
          newMode \in Modes, newSize \in 0..(MaxLen + 1), caller \in Callers :
         Setattr(i, valid, newMode, newSize, caller)
    \/ \E x \in XNames, flag \in {"any", "create", "replace"} : Setxattr(i, x, flag)
    \/ \E x \in XNames : Removexattr(i, x)

Next ==
  \/ NamespaceNext
  \/ AttributeNext
  \/ \E m \in {"rw", "ro"} : Mount(m)
  \/ Unmount

Spec == Init /\ [][Next]_vars

-----------------------------------------------------------------------------
(* Safety.                                                                 *)

(* find_inconsistencies, first count: no name points at an inode that is   *)
(* not there - nor lies in a directory that is not there, which `coffer    *)
(* check` does not count.                                                  *)
NoDanglingNames ==
  \A p \in Ino, n \in Names :
    dentries[p][n] # None => HasRow(dentries[p][n]) /\ kind[p] = "dir"

(* find_inconsistencies, second count: every inode but the root has a      *)
(* name; its blocks would otherwise occupy space nothing can free.         *)
NoUnreachableInodes ==
  \A i \in Ino : HasRow(i) /\ i # Root => HasName(dentries, i)

(* Having a name is not enough: the path must lead to the root.  Replacing *)
(* a directory that is not empty would cut its subtree off (the comment of *)
(* ensure_removable), and no query of `coffer check` would see it.         *)
AllReachableFromRoot == {i \in Ino : HasRow(i)} \subseteq Subtree(dentries, Root)

(* A directory has one name, which rmdir, the constant link count 2 and    *)
(* the parent readdir looks up for ".." all rely on; the root has none.    *)
OneNamePerDirectory ==
  /\ ~HasName(dentries, Root)
  /\ \A p, q \in Ino : \A n, m \in Names :
       /\ dentries[p][n] # None
       /\ dentries[p][n] = dentries[q][m]
       /\ kind[dentries[p][n]] = "dir"
       => p = q /\ n = m

(* Blocks and attributes belong to an inode that is there: a handle that   *)
(* outlives its inode writes nothing, and a deleted inode takes its rows   *)
(* with it.                                                                *)
NoOrphanRows ==
  \A i \in Ino : ~HasRow(i) => blocks[i] = {} /\ xattrs[i] = {}

(* No block is stored beyond the end of its file: a file that is cut and   *)
(* grown again must read as zeros there.                                   *)
BlocksWithinSize ==
  \A i \in Ino : \A b \in blocks[i] : b * BlockSize < size[i]

(* --max-size, "a hard ceiling" (REFERENCE.md): the sizes of all inodes    *)
(* never add up to more than it, whichever of create, symlink, write and   *)
(* truncate grows one.  Not so where the check was skipped because the     *)
(* table could not be read; and not for a ceiling above i64::MAX, which    *)
(* parse_size accepts: past i64::MAX the sum has no value and every        *)
(* growth passes.                                                          *)
CeilingRespected == MaxSize \in 1..MaxLen /\ sum = "read" => Used <= MaxSize

(* The duty FUSE_HANDLE_KILLPRIV_V2 hands to coffer: what an unprivileged  *)
(* caller wrote, cut or had chowned keeps no setuid bit, no setgid bit of  *)
(* a group-executable file and no capability until they are given anew.    *)
PrivilegesDropped ==
  \A i \in Ino :
    /\ i \in modeDue => "suid" \notin mode[i] /\ ~({"sgid", "gx"} \subseteq mode[i])
    /\ i \in capDue => Capability \notin xattrs[i]

(* A number that once named an object never names another: a handle left   *)
(* from before an unlink reaches no other file.                            *)
InodeNumbersNeverReused ==
  [][\A i \in issued : kind'[i] \in {kind[i], NoRow}]_vars

(* The inductive invariant behind the four properties of the namespace,    *)
(* NoOrphanRows and CeilingRespected: the root is a directory, the         *)
(* high-water mark is above every number in use, nothing is due for a      *)
(* number not yet issued, and only a row adds to the sum of the sizes.     *)
Consistent ==
  /\ kind[Root] = "dir"
  /\ {i \in Ino : HasRow(i)} \subseteq issued
  /\ issued \subseteq 1..seq
  /\ modeDue \subseteq issued
  /\ capDue \subseteq issued
  /\ NoDanglingNames
  /\ NoUnreachableInodes
  /\ OneNamePerDirectory
  /\ NoOrphanRows
  /\ \A i \in Ino : ~HasRow(i) => size[i] = 0

(* What a mount that is read-only or gone leaves alone: everything. *)
OnlyWritableMountsChangeTables ==
  [][mount # "rw" => UNCHANGED tables]_vars

=============================================================================
