--------------------------- MODULE CompactOnIdle ---------------------------
(***************************************************************************)
(* --compact-on-idle (src/main.rs: spawn_compact_on_idle_watcher): a       *)
(* thread of the mount that runs VACUUM once the mount has been idle, if   *)
(* the file is much larger than what is in it.                             *)
(*                                                                         *)
(* Space is counted in units; MinReclaim of them are the 64 MiB of the     *)
(* code, 1/Ratio stands for its 10 %.  Names are apart from those of       *)
(* Unmount, where the daemon's other idle watcher is: one module proves    *)
(* the theorems about both.                                                *)
(***************************************************************************)
EXTENDS Integers

CONSTANTS MaxPages,   \* bound: the size of a container
          MaxMeta,    \* bound: what names, inodes, attributes and half-filled pages take
          MaxSize,    \* bound: the sum of the files' sizes
          MinReclaim, \* MIN_RECLAIM_BYTES
          Ratio       \* 1 / MIN_RECLAIM_FRACTION

ASSUME SizeAssumption ==
  /\ MaxPages \in Nat /\ MaxMeta \in Nat /\ MaxSize \in Nat
  /\ MinReclaim \in Nat /\ Ratio \in Nat

VARIABLES size,    \* SUM(size) over the inodes
          stored,  \* the blocks there are
          meta,    \* everything else that is in use
          free,    \* the free-list
          disk,    \* the length of the file
          quiet,   \* no call for the length of the threshold
          call,    \* "none", one that "waits" for the mutex, or "runs" with it
          on_disk, \* the watcher's reading of disk
          watcher, \* the thread: "sleep", "lock" or "vacuum", in which it has the mutex
          \* Observer, read by no action:
          reading  \* "true"; "long": on_disk was more than the pages; "nosum": no SUM(size)

content == <<size, stored, meta, free, disk>>
compactVars == <<content, quiet, call, on_disk, watcher, reading>>

Pages == stored + meta + free

CompactInit ==
  /\ size = 0 /\ stored = 0 /\ meta = 0 /\ free = 0 /\ disk = 0
  /\ quiet = FALSE /\ call = "none" /\ on_disk = 0
  /\ watcher = "sleep" /\ reading = "true"

-----------------------------------------------------------------------------
(* Handlers: touch() and only then the mutex.  One thread dispatches them, *)
(* so there is one call at a time.                                         *)
Arrive ==
  /\ call = "none"
  /\ call' = "waits"
  /\ quiet' = FALSE
  /\ UNCHANGED <<content, on_disk, watcher, reading>>

Enter ==
  /\ call = "waits" /\ watcher # "vacuum"
  /\ call' = "runs"
  /\ UNCHANGED <<content, quiet, on_disk, watcher, reading>>

(* A call may wait, or run, for longer than the threshold; but while       *)
(* nobody runs a VACUUM it does not wait that long.                        *)
QuietLongEnough ==
  /\ ~quiet
  /\ call = "waits" => watcher = "vacuum"
  /\ quiet' = TRUE
  /\ UNCHANGED <<content, call, on_disk, watcher, reading>>

(* What is added comes off the free-list first, what is removed goes there. *)
Taken == IF free > 0 THEN free - 1 ELSE 0

Grow == stored' = stored + 1 /\ size' = size + 1 /\ free' = Taken /\ UNCHANGED meta

Shrink == stored > 0 /\ stored' = stored - 1 /\ size' = size - 1 /\ free' = free + 1 /\ UNCHANGED meta

Extend == size' = size + 1 /\ UNCHANGED <<stored, meta, free>>

Truncate == size > stored /\ size' = size - 1 /\ UNCHANGED <<stored, meta, free>>

Create == meta < MaxMeta /\ meta' = meta + 1 /\ free' = Taken /\ UNCHANGED <<size, stored>>

Remove == meta > 0 /\ meta' = meta - 1 /\ free' = free + 1 /\ UNCHANGED <<size, stored>>

(* A commit goes to the log.  Some of them write the log to the file, and  *)
(* then the file is as long as its pages: it may also become shorter.      *)
Commit ==
  /\ Grow \/ Shrink \/ Extend \/ Truncate \/ Create \/ Remove
  /\ size' <= MaxSize /\ Pages' <= MaxPages
  /\ disk' \in {disk, Pages'}

Serve ==
  /\ call = "runs"
  /\ Commit \/ UNCHANGED content
  /\ call' = "none"
  /\ UNCHANGED <<quiet, on_disk, watcher, reading>>

-----------------------------------------------------------------------------
(* The watcher.  A mutation `Bug...` stands before the definition it is a  *)
(* plausible wrong version of; no action uses one.                         *)

(* Idle at the first look; the file's length is read without the mutex.    *)
(* It has slept for a second at least, in which a waiting call gets the    *)
(* mutex.                                                                  *)
Poll ==
  /\ watcher = "sleep" /\ quiet /\ call # "waits"
  /\ on_disk' = disk
  /\ watcher' = "lock"
  /\ reading' = IF disk > Pages THEN "long" ELSE "true"
  /\ UNCHANGED <<content, quiet, call>>

BugGap(used) ==                                     \* wraps around
  IF on_disk >= used THEN on_disk - used ELSE on_disk + MaxPages

(* saturating_sub *)
Gap(used) == IF on_disk >= used THEN on_disk - used ELSE 0

WorthIt(used) == Gap(used) >= MinReclaim /\ Gap(used) * Ratio >= on_disk

BugDecideOnce ==                                    \* the length is read only once
  /\ watcher = "lock" /\ call # "runs"
  /\ \E used \in {size, 0} :
       /\ watcher' = IF quiet /\ WorthIt(used) THEN "vacuum" ELSE "lock"
       /\ reading' = IF used = size THEN reading ELSE "nosum"
  /\ UNCHANGED <<content, quiet, call, on_disk>>

BugDecide ==                                        \* idle is asked for before the mutex only
  /\ watcher = "lock" /\ call # "runs"
  /\ \E used \in {size, 0} :
       /\ watcher' = IF WorthIt(used) THEN "vacuum" ELSE "sleep"
       /\ reading' = IF used = size THEN reading ELSE "nosum"
  /\ UNCHANGED <<content, quiet, call, on_disk>>

(* The mutex is taken, and the decision made under it.  A SUM(size) that   *)
(* cannot be had, for an error or because it is beyond an i64, counts as 0. *)
Decide ==
  /\ watcher = "lock" /\ call # "runs"
  /\ \E used \in {size, 0} :
       /\ watcher' = IF quiet /\ WorthIt(used) THEN "vacuum" ELSE "sleep"
       /\ reading' = IF used = size THEN reading ELSE "nosum"
  /\ UNCHANGED <<content, quiet, call, on_disk>>

Rebuild ==
  /\ watcher = "vacuum"
  /\ free' = 0
  /\ watcher' = "sleep"
  /\ UNCHANGED <<size, stored, meta, quiet, call, on_disk, reading>>

(* db::vacuum: VACUUM, and a checkpoint that truncates the file. *)
Vacuum == Rebuild /\ disk' = stored + meta

(* With a reader open the checkpoint answers that it is busy, in a row     *)
(* nobody reads, and the file keeps its length.                            *)
VacuumBesideReader == Rebuild /\ UNCHANGED disk

(* For want of room for the copy, say. *)
VacuumFails ==
  /\ watcher = "vacuum"
  /\ watcher' = "sleep"
  /\ UNCHANGED <<content, quiet, call, on_disk, reading>>

CompactNext ==
  \/ Arrive \/ Enter \/ QuietLongEnough \/ Serve
  \/ Poll \/ Decide \/ Vacuum \/ VacuumBesideReader \/ VacuumFails

CompactSpec == CompactInit /\ [][CompactNext]_compactVars

(* The threads run.  VACUUM does not fail for ever, and no reader is there *)
(* at the end of every one.                                                *)
CompactFairness ==
  /\ WF_compactVars(Enter) /\ WF_compactVars(Serve)
  /\ WF_compactVars(Poll) /\ WF_compactVars(Decide)
  /\ SF_compactVars(Vacuum)

CompactFairSpec == CompactSpec /\ CompactFairness

-----------------------------------------------------------------------------
CompactTypeOK ==
  /\ stored \in Nat /\ meta \in 0..MaxMeta /\ free \in Nat
  /\ size \in stored..MaxSize
  /\ Pages <= MaxPages /\ disk \in 0..MaxPages
  /\ on_disk \in 0..MaxPages
  /\ quiet \in BOOLEAN /\ call \in {"none", "waits", "runs"}
  /\ watcher \in {"sleep", "lock", "vacuum"}
  /\ reading \in {"true", "long", "nosum"}

(* A compaction has something to reclaim: the free-list makes up 64 MiB,   *)
(* but for what names, inodes and half-filled pages take - also when the   *)
(* file's length was read before the last call was served, with a log that *)
(* lags behind, and with holes in the files.  main.rs:703: "but only if    *)
(* there's a meaningful amount of freed-but-unreclaimed space to actually  *)
(* get back".  Three exceptions are real, and in each every poll of an     *)
(* idle mount rewrites the file for nothing: where the overhead alone      *)
(* takes 64 MiB; where SUM(size) cannot be had, so that nothing counts as  *)
(* used (main.rs:744); and where a reader has kept an earlier checkpoint   *)
(* from cutting the file, so that it is longer than its pages.             *)
VacuumReclaims ==
  watcher = "vacuum" /\ reading = "true" => free >= MinReclaim - meta

(* A compaction begins only where no call is in it or waits to be: the     *)
(* mutex keeps out one that runs, the second look at the clock, under the  *)
(* mutex, finds one that has come since the first.  main.rs:732: "activity *)
(* could have resumed in the (however brief) gap".  A call that comes      *)
(* right after the second look waits (REFERENCE.md:432: this "narrows but  *)
(* can't fully close that window"), and with a threshold of 0 any may.     *)
NoCompactionOverCall ==
  [][watcher # "vacuum" /\ watcher' = "vacuum" => call = "none"]_compactVars

(* Freed space is given back to the file system while the mount stays      *)
(* idle, unless holes make the files larger than the container and hide it *)
(* from the watcher.  REFERENCE.md:424: "a later deletion can be reclaimed *)
(* on a future idle period too".                                           *)
Reclaimable == disk - (stored + meta)

MuchFreed == Reclaimable >= MinReclaim /\ Reclaimable * Ratio >= disk

FreedSpaceReclaimed ==
  MuchFreed /\ size = stored /\ quiet ~> ~MuchFreed \/ size # stored \/ ~quiet

=============================================================================
