--------------------------- MODULE WatcherProofs ---------------------------
(***************************************************************************)
(* What run_unmount, called by the idle watcher or by `coffer umount`,     *)
(* does to whose mount, for any number of containers and processes.  The   *)
(* argument for AbortSafe and SuccessIsTrue: as long as no mount lies over *)
(* another one, a detach leaves the mountpoint empty, so whatever has the  *)
(* number looked up is not mounted there any more.  It stays so until a    *)
(* later mount is given that number, and then the promise is void.         *)
(*                                                                         *)
(* The second part is about the other watcher, --compact-on-idle.          *)
(***************************************************************************)
EXTENDS Unmount, CompactOnIdle, TLAPS

(* A detach takes the top of the stack. *)
LEMMA Shorter ==
  ASSUME stack \in Seq(Daemon), Detach
  PROVE  stack' \in Seq(Daemon) /\ Len(stack') = Len(stack) - 1 /\ Len(stack) \in Nat \ {0}
<1>1. Len(stack) \in Nat \ {0}
  BY DEF Detach
<1>2. PICK n \in Nat : n = Len(stack) - 1
  BY <1>1
<1>3. stack' = [i \in 1..n |-> stack[i]]
  BY <1>2 DEF Detach
<1>4. \A i \in 1..n : stack[i] \in Daemon
  BY <1>1, <1>2
<1>5. stack' \in Seq(Daemon) /\ Len(stack') = n
  BY <1>3, <1>4
<1> QED
  BY <1>1, <1>2, <1>5

(* fuse_connection_id names the number of a connection, or none. *)
LEMMA ConnectionType == TypeOK => Connection \in Number \cup {Nobody}
<1> SUFFICES ASSUME TypeOK PROVE Connection \in Number \cup {Nobody}
  OBVIOUS
<1> DEFINE own == {i \in 1..Len(stack) : stack[i] \notin Foreign}
           last == {i \in own : \A j \in own : j <= i}
<1>1. OwnMount = IF last = {} THEN Nobody ELSE stack[CHOOSE i \in last : TRUE]
  BY DEF OwnMount
<1>2. OwnMount \in Daemon \cup {Nobody}
  <2>1. CASE last = {}
    BY <1>1, <2>1
  <2>2. CASE last # {}
    <3>1. (CHOOSE i \in last : TRUE) \in last
      BY <2>2
    <3>2. \A i \in last : stack[i] \in Daemon
      BY DEF TypeOK
    <3> QED
      BY <1>1, <2>2, <3>1, <3>2
  <2> QED
    BY <2>1, <2>2
<1> QED
  BY <1>2 DEF Connection, TypeOK

-----------------------------------------------------------------------------
Labels == {"off", "polling", "plain", "lazy", "abort", "ok", "warned", "failed"}

LEMMA StepType == TypeOK /\ [Next]_vars => TypeOK'
<1> SUFFICES ASSUME TypeOK, [Next]_vars
             PROVE  TypeOK'
  OBVIOUS
<1> USE DEF Goto, Return, Actor, FreeNumbers
<1>d. /\ Foreign \subseteq Daemon /\ Watched \subseteq Daemon \ Foreign
  BY DaemonAssumption
<1>1. ASSUME NEW d \in Daemon, Mount(d)
      PROVE  TypeOK'
  <2>1. stack' \in Seq(Daemon)
    BY <1>1 DEF Mount, TypeOK
  <2>2. pc' \in [Actor -> Labels]
    BY <1>1 DEF Mount, TypeOK, Labels
  <2>3. conn' \in [Daemon -> Number \cup {Nobody}] /\ reused' \subseteq Actor
    BY <1>1 DEF Mount, TypeOK
  <2>4. /\ serving' \subseteq Daemon /\ idle' \subseteq Watched /\ stacked' \in BOOLEAN
        /\ UNCHANGED <<aborted, busy, found>>
    BY <1>1 DEF Mount, TypeOK
  <2> QED
    BY <2>1, <2>2, <2>3, <2>4 DEF TypeOK, Labels
<1>2. ASSUME NEW d \in Daemon, Use(d) \/ TimePasses(d) \/ LetGo(d)
      PROVE  TypeOK'
  <2>1. conn' \in [Daemon -> Number \cup {Nobody}]
    BY <1>2 DEF Use, TimePasses, LetGo, TypeOK
  <2> QED
    BY <1>2, <2>1 DEF Use, TimePasses, LetGo, unmounts, TypeOK
<1>3. ASSUME NEW d \in Daemon, SessionEnds(d) \/ Kill(d)
      PROVE  TypeOK'
  <2>1. pc' \in [Actor -> Labels] /\ found' \in [Actor -> Number \cup {Nobody}]
    BY <1>3 DEF SessionEnds, Kill, Ends, TypeOK, Labels
  <2> QED
    BY <1>3, <2>1 DEF SessionEnds, Kill, Ends, TypeOK, Labels
<1>4. ASSUME NEW a \in Actor, LookUp(a)
      PROVE  TypeOK'
  BY <1>4, ConnectionType DEF LookUp, TypeOK
<1>5. ASSUME NEW a \in Actor, Unmounting(a)
      PROVE  TypeOK'
  <2>1. stack' \in Seq(Daemon)
    <3>1. Detach \/ UNCHANGED stack
      BY <1>5 DEF Unmounting, Plain, Lazy, Abort
    <3> QED
      BY <3>1, Shorter DEF TypeOK
  <2>2. pc' \in [Actor -> Labels]
    BY <1>5 DEF Unmounting, Plain, Lazy, Abort, TypeOK, Labels
  <2>3. UNCHANGED <<serving, busy, idle, stacked>>
    BY <1>5 DEF Unmounting, Plain, Lazy, Abort
  <2>4. conn' \in [Daemon -> Number \cup {Nobody}]
    BY <1>5 DEF Unmounting, Plain, Lazy, Abort, TypeOK
  <2>5. found' \in [Actor -> Number \cup {Nobody}] /\ reused' \subseteq Actor
    BY <1>5 DEF Unmounting, Plain, Lazy, Abort, TypeOK
  <2>6. aborted' \subseteq Daemon
    BY <1>5 DEF Unmounting, Plain, Lazy, Abort, TypeOK
  <2> QED
    BY <2>1, <2>2, <2>3, <2>4, <2>5, <2>6 DEF TypeOK, Labels
<1>6. ASSUME UNCHANGED vars
      PROVE  TypeOK'
  BY <1>6 DEF vars, unmounts, TypeOK
<1> QED
  BY <1>1, <1>2, <1>3, <1>4, <1>5, <1>6 DEF Next, Umount, AutoUnmount

(* The state keeps its type (main.rs: cmd_mount, run_unmount,              *)
(* fuse_connection_id): for any containers, unmounters and numbers.        *)
THEOREM TypeCorrect == Spec => []TypeOK
<1>0. Init => stacked \in BOOLEAN
  BY DEF Init
<1>1. Init => TypeOK
  BY <1>0 DEF Init, TypeOK
<1> QED
  BY <1>1, StepType, PTL DEF Spec

-----------------------------------------------------------------------------
(* As long as no mount has come to lie over another one: who has detached  *)
(* something goes by the number of what is mounted no more, or by one      *)
(* that a later mount was given.                                           *)
Flat ==
  /\ Len(stack) <= 1
  /\ \A a \in Actor : pc[a] = "abort" /\ a \notin reused => Behind(a) \cap Mounted = {}

StackInv == ~stacked => Flat

(* Of one mount, it leaves none. *)
LEMMA DetachEmpties ==
  ASSUME TypeOK, Len(stack) <= 1, Detach
  PROVE  Mounted' = {} /\ Len(stack') = 0
<1>1. stack \in Seq(Daemon)
  BY DEF TypeOK
<1>2. Len(stack') = Len(stack) - 1 /\ Len(stack) \in Nat \ {0}
  BY <1>1, Shorter
<1>3. Len(stack') = 0
  BY <1>2
<1> QED
  BY <1>3 DEF Mounted

(* A connection keeps its number as long as it is there, so no other one   *)
(* comes to be behind a number.                                            *)
LEMMA NumbersKept ==
  ASSUME TypeOK, NEW a \in Actor, UNCHANGED stack, found'[a] = found[a],
         UNCHANGED conn \/ FreeNumbers
  PROVE  /\ Mounted' = Mounted
         /\ (Behind(a) \cap Mounted)' \subseteq Behind(a) \cap Mounted
<1>1. Mounted' = Mounted /\ Mounted \subseteq Daemon
  BY DEF Mounted, TypeOK
<1>2. ASSUME NEW d \in Daemon, d \in Mounted
      PROVE  conn'[d] = conn[d]
  BY <1>1, <1>2 DEF FreeNumbers, Live
<1> QED
  BY <1>1, <1>2 DEF Behind, Live

(* A step of the first action property, and the invariant after it. *)
Promised ==
  \A a \in Actor :
    a \notin reused /\ pc'[a] \in {"ok", "warned"} /\ pc[a] \notin {"ok", "warned"}
      => Behind(a) \cap Mounted' = {}

(* Every actor, as long as nothing is mounted over the mount. *)
LEMMA StepFlat ==
  ASSUME TypeOK, Flat, [Next]_vars, ~stacked'
  PROVE  Flat' /\ Promised
<1>d. Watched \subseteq Daemon /\ Nobody \notin Number
  BY DaemonAssumption
<1>1. ASSUME NEW d \in Daemon, Mount(d)
      PROVE  Flat' /\ Promised
  <2>1. stack = <<>> /\ stack' = Append(stack, d)
    BY <1>1 DEF Mount
  <2>2. Len(stack') = 1 /\ stack'[1] = d
    BY <2>1
  <2>3. Mounted' = {d}
    BY <2>2 DEF Mounted
  <2>4. PICK n \in Number : /\ conn' = [conn EXCEPT ![d] = n]
                            /\ reused' = reused \cup {a \in Actor : found[a] = n}
    BY <1>1 DEF Mount
  <2>5. UNCHANGED found /\ \A a \in Actor : pc'[a] = pc[a] \/ pc'[a] = "polling"
    BY <1>1 DEF Mount, TypeOK
  <2>6. ASSUME NEW a \in Actor, a \notin reused'
        PROVE  (Behind(a) \cap Mounted)' = {}
    <3>1. conn'[d] = n /\ found'[a] # n
      BY <2>4, <2>5, <2>6 DEF TypeOK
    <3> QED
      BY <2>3, <3>1 DEF Behind
  <2>7. Promised
    BY <2>5 DEF Promised
  <2> QED
    BY <2>2, <2>6, <2>7 DEF Flat
<1>2. ASSUME NEW d \in Daemon,
             Use(d) \/ TimePasses(d) \/ LetGo(d) \/ SessionEnds(d) \/ Kill(d)
      PROVE  Flat' /\ Promised
  <2>1. UNCHANGED stack /\ (UNCHANGED conn \/ FreeNumbers)
    BY <1>2 DEF Use, TimePasses, LetGo, SessionEnds, Kill, Ends
  <2>2. ASSUME NEW a \in Actor
        PROVE  \/ pc'[a] = "off"
               \/ pc'[a] = pc[a] /\ found'[a] = found[a] /\ (a \in reused' <=> a \in reused)
    BY <1>2 DEF Use, TimePasses, LetGo, SessionEnds, Kill, Ends, unmounts
  <2>3. ASSUME NEW a \in Actor, pc'[a] = "abort", a \notin reused'
        PROVE  (Behind(a) \cap Mounted)' = {}
    <3>1. pc[a] = "abort" /\ found'[a] = found[a] /\ a \notin reused
      BY <2>2, <2>3
    <3> QED
      BY <2>1, <3>1, NumbersKept DEF Flat
  <2> QED
    BY <2>1, <2>2, <2>3 DEF Flat, Promised
<1>3. ASSUME NEW a \in Actor, LookUp(a)
      PROVE  Flat' /\ Promised
  <2>1. UNCHANGED <<stack, conn, reused>>
    BY <1>3 DEF LookUp
  <2>2. ASSUME NEW b \in Actor
        PROVE  /\ b = a => pc'[b] = "plain"
               /\ b # a => pc'[b] = pc[b] /\ found'[b] = found[b]
    BY <1>3 DEF LookUp, TypeOK
  <2>3. ASSUME NEW b \in Actor, pc'[b] = "abort", b \notin reused'
        PROVE  (Behind(b) \cap Mounted)' = {}
    <3>1. pc[b] = "abort" /\ found'[b] = found[b] /\ b \notin reused
      BY <2>1, <2>2, <2>3
    <3> QED
      BY <2>1, <3>1, NumbersKept DEF Flat
  <2> QED
    BY <2>1, <2>2, <2>3 DEF Flat, Promised
<1>4. ASSUME NEW a \in Actor, Plain(a) \/ Lazy(a)
      PROVE  Flat' /\ Promised
  <2>1. FreeNumbers
    BY <1>4 DEF Plain, Lazy
  <2>2. ASSUME NEW b \in Actor, b # a
        PROVE  pc'[b] = pc[b] /\ found'[b] = found[b] /\ (b \in reused' <=> b \in reused)
    BY <1>4, <2>2 DEF Plain, Lazy, Goto, Return, TypeOK
  <2>3. CASE Detach
    <3>1. Mounted' = {} /\ Len(stack') = 0
      BY <2>3, DetachEmpties DEF Flat
    <3> QED
      BY <3>1 DEF Flat, Promised
  <2>4. CASE UNCHANGED stack /\ pc'[a] \in {"lazy", "failed"}
    <3>1. ASSUME NEW b \in Actor, pc'[b] = "abort", b \notin reused'
          PROVE  (Behind(b) \cap Mounted)' = {}
      <4>1. pc[b] = "abort" /\ found'[b] = found[b] /\ b \notin reused
        BY <2>2, <2>4, <3>1
      <4> QED
        BY <2>1, <2>4, <4>1, NumbersKept DEF Flat
    <3> QED
      BY <2>2, <2>4, <3>1 DEF Flat, Promised
  <2> QED
    BY <1>4, <2>3, <2>4 DEF Plain, Lazy, Goto, Return, TypeOK
<1>5. ASSUME NEW a \in Actor, Abort(a)
      PROVE  Flat' /\ Promised
  <2>1. UNCHANGED <<stack, conn>> /\ pc[a] = "abort"
    BY <1>5 DEF Abort
  <2>2. ASSUME NEW b \in Actor
        PROVE  /\ b = a => pc'[b] \in {"ok", "warned"}
               /\ b # a => pc'[b] = pc[b] /\ found'[b] = found[b] /\ (b \in reused' <=> b \in reused)
    BY <1>5 DEF Abort, Return, TypeOK
  <2>3. ASSUME NEW b \in Actor, pc'[b] = "abort", b \notin reused'
        PROVE  (Behind(b) \cap Mounted)' = {}
    <3>1. pc[b] = "abort" /\ found'[b] = found[b] /\ b \notin reused
      BY <2>2, <2>3
    <3> QED
      BY <2>1, <3>1, NumbersKept DEF Flat
  <2>4. Mounted' = Mounted
    BY <2>1 DEF Mounted
  <2>5. Promised
    BY <2>1, <2>2, <2>4 DEF Flat, Promised
  <2> QED
    BY <2>1, <2>3, <2>5 DEF Flat
<1>6. ASSUME UNCHANGED vars
      PROVE  Flat' /\ Promised
  <2>1. UNCHANGED <<stack, conn, pc, found, reused>>
    BY <1>6 DEF vars, unmounts
  <2>2. ASSUME NEW b \in Actor, pc'[b] = "abort", b \notin reused'
        PROVE  (Behind(b) \cap Mounted)' = {}
    BY <2>1, <2>2, NumbersKept DEF Flat
  <2> QED
    BY <2>1, <2>2 DEF Flat, Promised
<1> QED
  BY <1>1, <1>2, <1>3, <1>4, <1>5, <1>6 DEF Next, Umount, AutoUnmount, Unmounting, Actor

(* What was stacked once counts as stacked. *)
LEMMA StepStacked == TypeOK /\ [Next]_vars => (stacked => stacked')
<1>1. ASSUME NEW d \in Daemon,
             \/ Mount(d) \/ Use(d) \/ TimePasses(d) \/ LetGo(d) \/ SessionEnds(d) \/ Kill(d)
      PROVE  stacked => stacked'
  BY <1>1, Zenon DEF Mount, Use, TimePasses, LetGo, SessionEnds, Kill, Ends
<1>2. ASSUME NEW a \in Actor, LookUp(a) \/ Unmounting(a)
      PROVE  stacked => stacked'
  BY <1>2, Zenon DEF LookUp, Unmounting, Plain, Lazy, Abort
<1>3. ASSUME UNCHANGED vars
      PROVE  stacked => stacked'
  BY <1>3 DEF vars
<1> QED
  BY <1>1, <1>2, <1>3 DEF Next, Umount, AutoUnmount, Actor

LEMMA StackInvariance == Spec => []StackInv
<1>1. Init => StackInv
  BY DEF Init, StackInv, Flat
<1>2. TypeOK /\ StackInv /\ [Next]_vars => StackInv'
  BY StepFlat, StepStacked DEF StackInv
<1> QED
  BY <1>1, <1>2, TypeCorrect, PTL DEF Spec

(* As long as no mount lies over another one, no abort (main.rs:           *)
(* abort_fuse_connection) hits a mount that is still at the path, whatever *)
(* other processes did since the connection was looked up, unless its      *)
(* number was given to a later mount.                                      *)
THEOREM AbortSafe == Spec => AbortOnlyDetached
<1>1. ASSUME TypeOK, StackInv, NEW a \in Actor, pc[a] = "abort", pc'[a] = "ok",
             ~stacked, a \notin reused, [Next]_vars
      PROVE  (aborted' \ aborted) \cap Mounted = {}
  <2>1. Behind(a) \cap Mounted = {}
    BY <1>1 DEF StackInv, Flat
  <2>2. aborted' \subseteq aborted \cup Behind(a)
    <3>1. CASE \E d \in Daemon : \/ Mount(d) \/ Use(d) \/ TimePasses(d) \/ LetGo(d)
                                 \/ SessionEnds(d) \/ Kill(d)
      BY <3>1 DEF Mount, Use, TimePasses, LetGo, SessionEnds, Kill, Ends
    <3>2. ASSUME NEW b \in Actor, LookUp(b) \/ Plain(b) \/ Lazy(b)
          PROVE  aborted' = aborted
      BY <3>2 DEF LookUp, Plain, Lazy
    <3>3. ASSUME NEW b \in Actor, Abort(b)
          PROVE  aborted' \subseteq aborted \cup Behind(a)
      <4>1. b = a
        BY <1>1, <3>3 DEF Abort, Return, TypeOK
      <4> QED
        BY <3>3, <4>1 DEF Abort
    <3>4. CASE UNCHANGED vars
      BY <3>4 DEF vars
    <3> QED
      BY <1>1, <3>1, <3>2, <3>3, <3>4 DEF Next, Umount, AutoUnmount, Unmounting, Actor
  <2> QED
    BY <2>1, <2>2
<1> DEFINE Hits ==
      \A a \in Actor :
        pc[a] = "abort" /\ pc'[a] = "ok" /\ ~stacked /\ a \notin reused
          => (aborted' \ aborted) \cap Mounted = {}
<1>2. TypeOK /\ StackInv /\ [Next]_vars => [Hits]_vars
  BY <1>1
<1> QED
  BY <1>2, TypeCorrect, StackInvariance, PTL DEF Spec, AbortOnlyDetached

(* As long as no mount lies over another one, success of run_unmount means *)
(* that the mount it looked up is gone.                                    *)
THEOREM SuccessIsTrue == Spec => OkMeansUnmounted
<1> DEFINE Told ==
      \A a \in Actor :
        /\ ~stacked' /\ a \notin reused
        /\ pc'[a] \in {"ok", "warned"} /\ pc[a] \notin {"ok", "warned"}
        => Behind(a) \cap Mounted' = {}
<1>1. TypeOK /\ StackInv /\ [Next]_vars => [Told]_vars
  BY StepFlat, StepStacked DEF StackInv, Promised
<1> QED
  BY <1>1, TypeCorrect, StackInvariance, PTL DEF Spec, OkMeansUnmounted

-----------------------------------------------------------------------------
(***************************************************************************)
(* --compact-on-idle, the module CompactOnIdle: a compaction has           *)
(* something to reclaim, for every size of a container and of what in it   *)
(* is not file data, and no call waits when it begins.  The reading of the *)
(* file's length may be stale when it is used; the argument is that a      *)
(* container only shrinks by a compaction, so that a reading that was no   *)
(* more than there is stays so.                                            *)
(***************************************************************************)

(* The type, without and with only the Boolean state. *)
NumType ==
  /\ stored \in Nat /\ meta \in 0..MaxMeta /\ free \in Nat
  /\ size \in stored..MaxSize
  /\ Pages <= MaxPages /\ disk \in 0..MaxPages
  /\ on_disk \in 0..MaxPages
  /\ call \in {"none", "waits", "runs"}
  /\ watcher \in {"sleep", "lock", "vacuum"}
  /\ reading \in {"true", "long", "nosum"}

(* The two parts are the type invariant. *)
LEMMA CompactTypeParts == CompactTypeOK <=> NumType /\ quiet \in BOOLEAN
  BY Zenon DEF CompactTypeOK, NumType

(* The mutex, and a reading that is not larger than the container. *)
MutexInv == watcher = "vacuum" => call # "runs"

ReadingInv == watcher = "lock" /\ reading = "true" => on_disk <= Pages

(* Arithmetic for the next step. *)
LEMMA SumNat == \A x, y, z \in Nat : x + y + z \in Nat
  OBVIOUS

(* What a call does to the space: a container never gets smaller by one. *)
LEMMA Commits ==
  ASSUME NumType, Commit
  PROVE  /\ stored' \in Nat /\ meta' \in 0..MaxMeta /\ free' \in Nat
         /\ size' \in stored'..MaxSize
         /\ Pages' >= Pages
<1> USE SizeAssumption DEF Pages
<1>1. /\ stored \in Nat /\ meta \in 0..MaxMeta /\ free \in Nat /\ size \in stored..MaxSize
  BY DEF NumType
<1>2. size' <= MaxSize
  BY DEF Commit
<1>3. CASE Grow
  BY <1>1, <1>2, <1>3 DEF Grow, Taken
<1>4. CASE Shrink
  BY <1>1, <1>2, <1>4 DEF Shrink
<1>5. CASE Extend \/ Truncate
  BY <1>1, <1>2, <1>5 DEF Extend, Truncate
<1>6. CASE Create
  BY <1>1, <1>2, <1>6 DEF Create, Taken
<1>7. CASE Remove
  BY <1>1, <1>2, <1>7 DEF Remove
<1> QED
  BY <1>3, <1>4, <1>5, <1>6, <1>7 DEF Commit

Counted == NumType /\ MutexInv /\ ReadingInv

(* One step keeps the books: one case per action. *)
LEMMA StepCounted == Counted /\ [CompactNext]_compactVars => Counted'
<1> SUFFICES ASSUME Counted, [CompactNext]_compactVars PROVE Counted'
  OBVIOUS
<1> USE SizeAssumption DEF Counted
<1>1. CASE Arrive \/ Enter \/ QuietLongEnough \/ VacuumFails \/ UNCHANGED compactVars
  BY <1>1 DEF Arrive, Enter, QuietLongEnough, VacuumFails, compactVars, content, NumType, MutexInv,
              ReadingInv, Pages
<1>2. CASE Serve /\ Commit
  <2>1. /\ stored' \in Nat /\ meta' \in 0..MaxMeta /\ free' \in Nat
        /\ size' \in stored'..MaxSize
        /\ Pages' >= Pages
    BY <1>2, Commits
  <2>2. Pages \in Nat /\ Pages' \in Nat
    <3>1. stored \in Nat /\ meta \in Nat /\ free \in Nat
      BY DEF NumType
    <3>2. stored' \in Nat /\ meta' \in Nat /\ free' \in Nat
      BY <2>1
    <3> QED
      BY <3>1, <3>2, SumNat DEF Pages
  <2>3. Pages' <= MaxPages /\ disk' \in {disk, Pages'}
    BY <1>2 DEF Commit
  <2>4. disk' \in 0..MaxPages
    BY <2>2, <2>3 DEF NumType
  <2>5. UNCHANGED <<on_disk, watcher, reading>> /\ call' = "none"
    BY <1>2 DEF Serve
  <2>6. NumType'
    BY <2>1, <2>3, <2>4, <2>5 DEF NumType
  <2>7. ReadingInv'
    <3>1. on_disk \in Int
      BY DEF NumType
    <3> QED
      BY <2>1, <2>2, <2>5, <3>1 DEF ReadingInv
  <2> QED
    BY <2>5, <2>6, <2>7 DEF MutexInv
<1>3. CASE Serve /\ UNCHANGED content
  BY <1>3 DEF Serve, content, NumType, MutexInv, ReadingInv, Pages
<1>4. CASE Poll
  <2>1. UNCHANGED <<Pages, size, stored, meta, free, disk, call>> /\ on_disk' = disk
    BY <1>4 DEF Poll, content, Pages
  <2>2. Pages \in Nat /\ disk \in 0..MaxPages
    BY DEF NumType, Pages
  <2> QED
    BY <1>4, <2>1, <2>2 DEF Poll, NumType, MutexInv, ReadingInv
<1>5. CASE Decide
  <2>1. UNCHANGED <<Pages, size, stored, meta, free, disk, call, on_disk>>
    BY <1>5 DEF Decide, content, Pages
  <2>2. call # "runs" /\ watcher' \in {"vacuum", "sleep"} /\ reading' \in {reading, "nosum"}
    BY <1>5 DEF Decide
  <2> QED
    BY <2>1, <2>2 DEF NumType, MutexInv, ReadingInv
<1>6. CASE Vacuum \/ VacuumBesideReader
  <2>1. /\ free' = 0 /\ watcher' = "sleep" /\ disk' \in {disk, stored + meta}
        /\ UNCHANGED <<size, stored, meta, call, on_disk, reading>>
    BY <1>6 DEF Vacuum, VacuumBesideReader, Rebuild
  <2>2. stored + meta \in 0..MaxPages
    BY DEF NumType, Pages
  <2>3. Pages' = stored + meta
    BY <2>1, <2>2 DEF Pages
  <2> QED
    BY <2>1, <2>2, <2>3 DEF NumType, MutexInv, ReadingInv
<1> QED
  BY <1>1, <1>2, <1>3, <1>4, <1>5, <1>6 DEF CompactNext, Serve

(* The clock, which the arithmetic does not touch: while the watcher waits *)
(* for the mutex, a call that waits too has been seen on the clock.        *)
ClockInv == quiet \in BOOLEAN /\ (watcher = "lock" /\ call = "waits" => ~quiet)

LEMMA StepClock == ClockInv /\ [CompactNext]_compactVars => ClockInv'
<1> SUFFICES ASSUME ClockInv, [CompactNext]_compactVars PROVE ClockInv'
  OBVIOUS
<1>1. CASE Arrive \/ Enter
  BY <1>1, Zenon DEF Arrive, Enter, ClockInv
<1>2. CASE QuietLongEnough
  BY <1>2 DEF QuietLongEnough, ClockInv
<1>3. CASE Serve \/ Poll
  BY <1>3 DEF Serve, Poll, ClockInv
<1>4. CASE Decide \/ Vacuum \/ VacuumBesideReader \/ VacuumFails
  <2>1. watcher' \in {"vacuum", "sleep"} /\ quiet' = quiet
    BY <1>4 DEF Decide, Vacuum, VacuumBesideReader, Rebuild, VacuumFails
  <2> QED
    BY <2>1 DEF ClockInv
<1>5. CASE UNCHANGED compactVars
  BY <1>5, Zenon DEF compactVars, ClockInv
<1> QED
  BY <1>1, <1>2, <1>3, <1>4, <1>5 DEF CompactNext

LEMMA CountedAlways == CompactSpec => []Counted /\ []ClockInv
<1>1. CompactInit => Counted
  BY SizeAssumption DEF CompactInit, Counted, NumType, MutexInv, ReadingInv, Pages
<1>2. CompactInit => ClockInv
  BY Zenon DEF CompactInit, ClockInv
<1> QED
  BY <1>1, <1>2, StepCounted, StepClock, PTL DEF CompactSpec

(* The space keeps its books, whatever calls and compactions do            *)
(* (spawn_compact_on_idle_watcher, db::vacuum): blocks never count for     *)
(* more than the sizes of the files, and no length or reading is beyond    *)
(* the bound of the pages.                                                 *)
THEOREM SpaceAccounted == CompactSpec => []CompactTypeOK
<1>1. Counted /\ ClockInv => CompactTypeOK
  BY CompactTypeParts, Zenon DEF Counted, ClockInv
<1> QED
  BY <1>1, CountedAlways, PTL

(* spawn_compact_on_idle_watcher rewrites the file only for something: of  *)
(* MIN_RECLAIM_BYTES, all that names, inodes and half-filled pages do not  *)
(* take - where it could read SUM(size), and read a length of the file     *)
(* that no earlier checkpoint had left too long.                           *)
THEOREM NoPointlessVacuum == CompactSpec => []VacuumReclaims
<1>1. CompactInit => VacuumReclaims
  BY DEF CompactInit, VacuumReclaims
<1>2. ASSUME Counted, VacuumReclaims, [CompactNext]_compactVars
      PROVE  VacuumReclaims'
  <2> USE SizeAssumption
  <2>1. CASE Decide
    <3>1. UNCHANGED <<free, meta>> /\ watcher = "lock"
      BY <2>1 DEF Decide, content
    <3>2. ASSUME watcher' = "vacuum", reading' = "true"
          PROVE  free >= MinReclaim - meta
      <4>1. WorthIt(size) /\ reading = "true"
        BY <2>1, <3>2 DEF Decide
      <4>2. NumType /\ ReadingInv
        BY <1>2 DEF Counted
      <4>3. on_disk \in Int /\ size \in Int /\ stored \in Nat /\ meta \in 0..MaxMeta /\ free \in Nat
        BY <4>2 DEF NumType
      <4>4. on_disk <= stored + meta + free /\ size >= stored
        BY <3>1, <4>1, <4>2 DEF ReadingInv, NumType, Pages
      <4>5. PICK g \in Int : g = Gap(size) /\ g <= meta + free /\ g >= MinReclaim
        <5>1. Gap(size) \in Int /\ Gap(size) <= meta + free
          BY <4>3, <4>4 DEF Gap
        <5>2. Gap(size) >= MinReclaim
          BY <4>1 DEF WorthIt
        <5> QED
          BY <5>1, <5>2
      <4> QED
        BY <4>3, <4>5
    <3> QED
      BY <3>1, <3>2 DEF VacuumReclaims
  <2>2. CASE Poll \/ Vacuum \/ VacuumBesideReader \/ VacuumFails
    BY <2>2 DEF Poll, Vacuum, VacuumBesideReader, Rebuild, VacuumFails, VacuumReclaims
  <2>3. CASE Serve
    BY <1>2, <2>3 DEF Serve, Counted, MutexInv, VacuumReclaims
  <2>4. CASE Arrive \/ Enter \/ QuietLongEnough \/ UNCHANGED compactVars
    BY <1>2, <2>4 DEF Arrive, Enter, QuietLongEnough, compactVars, content, VacuumReclaims
  <2> QED
    BY <1>2, <2>1, <2>2, <2>3, <2>4 DEF CompactNext
<1> QED
  BY <1>1, <1>2, CountedAlways, PTL DEF CompactSpec

(* spawn_compact_on_idle_watcher looks at the clock again under the mutex, *)
(* so no VACUUM begins over a call that is running or has come.            *)
THEOREM LooksAgain == CompactSpec => NoCompactionOverCall
<1> DEFINE Alone == watcher # "vacuum" /\ watcher' = "vacuum" => call = "none"
<1>1. ASSUME Counted, ClockInv, [CompactNext]_compactVars, watcher # "vacuum", watcher' = "vacuum"
      PROVE  call = "none"
  <2>1. Decide
    BY <1>1 DEF CompactNext, Arrive, Enter, QuietLongEnough, Serve, Poll, Vacuum, VacuumBesideReader,
                Rebuild, VacuumFails, compactVars
  <2>2. watcher = "lock" /\ call # "runs" /\ quiet
    BY <1>1, <2>1 DEF Decide
  <2>3. call # "waits"
    BY <1>1, <2>2 DEF ClockInv
  <2> QED
    BY <1>1, <2>2, <2>3 DEF Counted, NumType
<1>2. Counted /\ ClockInv /\ [CompactNext]_compactVars => [Alone]_compactVars
  BY <1>1
<1> QED
  BY <1>2, CountedAlways, PTL DEF CompactSpec, NoCompactionOverCall

=============================================================================
