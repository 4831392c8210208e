------------------------------ MODULE Unmount ------------------------------
(***************************************************************************)
(* The end of a mount: `coffer umount` and the idle watcher of a daemon    *)
(* (src/main.rs: run_unmount, fuse_connection_id, abort_fuse_connection,   *)
(* spawn_idle_watcher).                                                    *)
(*                                                                         *)
(* Both go by the path of the mountpoint: look up the connection behind    *)
(* it, try a plain unmount, then a lazy one, then abort the connection     *)
(* found.  Other processes act between any two of these.  One mountpoint   *)
(* is modelled; a daemon stands for a container, and has its lock while it *)
(* serves.                                                                 *)
(***************************************************************************)
EXTENDS Integers, Sequences

CONSTANTS Daemon,  \* what may be mounted at the mountpoint
          Foreign, \* those that are not coffer's
          Watched, \* those with an --idle-timeout
          User,    \* `coffer umount` processes
          Number,  \* what the kernel numbers FUSE connections with
          Nobody   \* no mount, no connection

ASSUME DaemonAssumption ==
  /\ Foreign \subseteq Daemon /\ Watched \subseteq Daemon \ Foreign
  /\ User \cap Daemon = {} /\ Nobody \notin Daemon \cup Number

VARIABLES serving, \* the daemons that run
          stack,   \* what is mounted at the mountpoint, the visible one last
          aborted, \* the connections aborted by hand
          busy,    \* those of which somebody has a file open, or a directory
          idle,    \* the watched ones without a call for the length of the timeout
          pc,      \* who unmounts -> where in run_unmount it is
          conn,    \* daemon -> the number of its connection, Nobody if the kernel has none
          found,   \* who unmounts -> the number it looked up
          \* Observers, read by no action:
          reused,  \* who unmounts by a number that a later mount was given
          stacked  \* a mount has come to lie over another one

unmounts == <<pc, found, reused>>
vars == <<serving, stack, aborted, busy, idle, conn, unmounts, stacked>>

Actor == User \cup Watched

Mounted == {stack[i] : i \in 1..Len(stack)}

(* The kernel keeps a connection while it is mounted or a file is open on  *)
(* it, and its number with it; then the number is free.                    *)
Live == Mounted \cup busy

FreeNumbers == conn' = [d \in Daemon |-> IF d \in Live' THEN conn[d] ELSE Nobody]

Top(d) == stack # <<>> /\ stack[Len(stack)] = d

Init ==
  /\ serving = {} /\ stack = <<>> /\ aborted = {} /\ busy = {} /\ idle = {}
  /\ pc = [a \in Actor |-> "off"]
  /\ conn = [d \in Daemon |-> Nobody]
  /\ found = [a \in Actor |-> Nobody]
  /\ reused = {}
  /\ stacked = FALSE

-----------------------------------------------------------------------------
(* cmd_mount.  It asks for an empty directory, ahead of the password       *)
(* prompt, and reads what is mounted there by then to find out.  Another   *)
(* mount passes for one if its root is empty, or if it came only after the *)
(* look.  The number is that of an anonymous device: one that is free, be  *)
(* it because its connection ended a moment ago.                           *)
Mount(d) ==
  /\ d \notin serving \cup Live
  /\ \E n \in Number \ {conn[e] : e \in Daemon} :
       /\ conn' = [conn EXCEPT ![d] = n]
       /\ reused' = reused \cup {a \in Actor : found[a] = n}
  /\ serving' = serving \cup {d}
  /\ stack' = Append(stack, d)
  /\ idle' = {e \in idle : ~Top(e)} \ {d}
  /\ IF d \in Watched THEN pc' = [pc EXCEPT ![d] = "polling"] ELSE UNCHANGED pc
  /\ stacked' = (stacked \/ stack # <<>>)
  /\ UNCHANGED <<aborted, busy, found>>

(* A call reaches the daemon, through the mountpoint or a file open on it. *)
Use(d) ==
  /\ d \in serving \ aborted
  /\ Top(d) \/ d \in busy
  /\ busy' \in {busy \cup {d}, busy \ {d}}
  /\ idle' = idle \ {d}
  /\ UNCHANGED <<serving, stack, aborted, unmounts, stacked>>
  /\ FreeNumbers

TimePasses(d) ==
  /\ d \in (serving \cap Watched) \ idle
  /\ idle' = idle \cup {d}
  /\ UNCHANGED <<serving, stack, aborted, busy, conn, unmounts, stacked>>

(* Whoever has files open on a connection that is gone closes them. *)
LetGo(d) ==
  /\ d \in busy \ (serving \ aborted)
  /\ busy' = busy \ {d}
  /\ UNCHANGED <<serving, stack, aborted, idle, unmounts, stacked>>
  /\ FreeNumbers

(* The process is gone, its threads with it, the watcher among them. *)
Ends(d) ==
  /\ serving' = serving \ {d}
  /\ aborted' = aborted \ {d}
  /\ idle' = idle \ {d}
  /\ pc' = [a \in Actor |-> IF a = d THEN "off" ELSE pc[a]]
  /\ found' = [a \in Actor |-> IF a = d THEN Nobody ELSE found[a]]
  /\ reused' = reused \ {d}
  /\ UNCHANGED <<stack, busy, conn, stacked>>

(* session.run returns once the kernel has let the connection go.          *)
Over(d) == d \in aborted \/ d \notin Live

SessionEnds(d) == d \in serving /\ Over(d) /\ Ends(d)

(* A daemon that is killed leaves its mount behind. *)
Kill(d) == d \in serving /\ Ends(d)

-----------------------------------------------------------------------------
(* run_unmount.  A mutation `Bug...` stands before the definition it is a  *)
(* plausible wrong version of; no action uses one.                         *)
Goto(a, l) == pc' = [pc EXCEPT ![a] = l] /\ UNCHANGED <<found, reused>>

(* It returns, and what it looked up is forgotten. *)
Return(a, l) ==
  /\ pc' = [pc EXCEPT ![a] = l]
  /\ found' = [found EXCEPT ![a] = Nobody]
  /\ reused' = reused \ {a}

(* fuse_connection_id: of coffer's own mounts at the path the last one.    *)
OwnMount ==
  LET own == {i \in 1..Len(stack) : stack[i] \notin Foreign}
      last == {i \in own : \A j \in own : j <= i}
  IN  IF last = {} THEN Nobody ELSE stack[CHOOSE i \in last : TRUE]

Connection == IF OwnMount = Nobody THEN Nobody ELSE conn[OwnMount]

LookUp(a) ==
  /\ found' = [found EXCEPT ![a] = Connection]
  /\ pc' = [pc EXCEPT ![a] = "plain"]
  /\ UNCHANGED <<serving, stack, aborted, busy, idle, conn, reused, stacked>>

(* cmd_umount of something that is mounted. *)
Umount(u) ==
  /\ pc[u] \in {"off", "ok", "warned", "failed"}
  /\ stack # <<>>
  /\ LookUp(u)

BugAutoUnmount(d) ==                                \* not while files are open
  /\ pc[d] = "polling"
  /\ d \in (serving \cap idle) \ busy
  /\ LookUp(d)

(* The watcher of an idle mount. *)
AutoUnmount(d) ==
  /\ pc[d] = "polling"
  /\ d \in serving \cap idle
  /\ LookUp(d)

Detach == stack # <<>> /\ stack' = [i \in 1..(Len(stack) - 1) |-> stack[i]]

BugPlainReports(a) ==                               \* fusermount's status is not looked at
  /\ pc[a] = "plain"
  /\ ((\A d \in busy : ~Top(d)) /\ Detach) \/ UNCHANGED stack
  /\ Return(a, "ok")
  /\ UNCHANGED <<serving, aborted, busy, idle, stacked>>
  /\ FreeNumbers

(* fusermount -u.  It may be refused, as below an NFS home with            *)
(* root_squash.                                                            *)
Plain(a) ==
  /\ pc[a] = "plain"
  /\ \/ /\ \A d \in busy : ~Top(d)
        /\ Detach
        /\ Return(a, "ok")
     \/ /\ Goto(a, "lazy")
        /\ UNCHANGED stack
  /\ UNCHANGED <<serving, aborted, busy, idle, stacked>>
  /\ FreeNumbers

BugLazy(a) ==                                       \* aborts also what it could not detach
  /\ pc[a] = "lazy"
  /\ Detach \/ UNCHANGED stack
  /\ Goto(a, "abort")
  /\ UNCHANGED <<serving, aborted, busy, idle, stacked>>
  /\ FreeNumbers

(* fusermount -u -z *)
Lazy(a) ==
  /\ pc[a] = "lazy"
  /\ \/ Detach /\ Goto(a, "abort")
     \/ Return(a, "failed") /\ UNCHANGED stack
  /\ UNCHANGED <<serving, aborted, busy, idle, stacked>>
  /\ FreeNumbers

(* Whose connection has the number looked up. *)
Behind(a) == {d \in Live : conn[d] = found[a]}

BugAbort(a) ==                                      \* any error means it is gone
  /\ pc[a] = "abort"
  /\ Return(a, "ok")
  /\ aborted' \in {aborted, aborted \cup (Behind(a) \cap serving)}
  /\ UNCHANGED <<serving, stack, busy, idle, conn, stacked>>

(* abort_fuse_connection, if there was one.  One that is gone already has  *)
(* no abort file; one that may not be written to is warned of.             *)
Abort(a) ==
  /\ pc[a] = "abort"
  /\ \/ /\ aborted' = aborted \cup (Behind(a) \cap serving)
        /\ Return(a, "ok")
     \/ /\ Behind(a) # {}
        /\ UNCHANGED aborted
        /\ Return(a, "warned")
  /\ UNCHANGED <<serving, stack, busy, idle, conn, stacked>>

Unmounting(a) == Plain(a) \/ Lazy(a) \/ Abort(a)

Next ==
  \/ \E d \in Daemon : \/ Mount(d) \/ Use(d) \/ TimePasses(d) \/ LetGo(d)
                       \/ SessionEnds(d) \/ Kill(d)
  \/ \E u \in User : Umount(u)
  \/ \E d \in Watched : AutoUnmount(d)
  \/ \E a \in Actor : Unmounting(a)

Spec == Init /\ [][Next]_vars

(* Processes and threads run, the kernel ends a connection it is done      *)
(* with.  Nobody need ever close a file, ask for an unmount, or let a      *)
(* mount be idle.                                                          *)
Fairness ==
  /\ \A d \in Daemon \ Foreign : WF_vars(SessionEnds(d))
  /\ \A d \in Watched : WF_vars(AutoUnmount(d))
  /\ \A a \in Actor : WF_vars(Unmounting(a))

FairSpec == Spec /\ Fairness

-----------------------------------------------------------------------------
TypeOK ==
  /\ serving \subseteq Daemon /\ aborted \subseteq Daemon
  /\ busy \subseteq Daemon /\ idle \subseteq Watched
  /\ stack \in Seq(Daemon) /\ stacked \in BOOLEAN
  /\ pc \in [Actor -> {"off", "polling", "plain", "lazy", "abort", "ok", "warned", "failed"}]
  /\ conn \in [Daemon -> Number \cup {Nobody}]
  /\ found \in [Actor -> Number \cup {Nobody}]
  /\ reused \subseteq Actor

(* Whatever mounts, dies and unmounts in between: when an unmount reports  *)
(* success the mount it looked up is at the path no more, if no mount ever *)
(* came to lie over another one (run_unmount).  Where the number was given *)
(* to a later mount, that of the look-up is long gone.                     *)
OkMeansUnmounted ==
  [][\A a \in Actor :
       /\ ~stacked' /\ a \notin reused
       /\ pc'[a] \in {"ok", "warned"} /\ pc[a] \notin {"ok", "warned"}
       => Behind(a) \cap Mounted' = {}]_vars

(* Users of a container get I/O errors only once it is detached: an abort  *)
(* hits what is at the path no more - again if no mount ever came to lie   *)
(* over another one.  There is one exception: once the mount looked up is  *)
(* gone altogether its number is free, and the next FUSE mount to get it,  *)
(* coffer's or not, is aborted in its place, mounted as it is (against     *)
(* main.rs:838, that somebody else's mount is never aborted).              *)
AbortOnlyDetached ==
  [][\A a \in Actor :
       pc[a] = "abort" /\ pc'[a] = "ok" /\ ~stacked /\ a \notin reused
       => (aborted' \ aborted) \cap Mounted = {}]_vars

(* A container whose mount was detached with files open on it does not     *)
(* stay locked unseen: its daemon ends, or the user is warned, unless who  *)
(* unmounts is killed before the abort.  REFERENCE.md:463: "it exits       *)
(* cleanly and the lock is released immediately".  This is so if the mount *)
(* detached is the one that was looked up.  Where another has taken its    *)
(* place in between, the daemon of that one lives on, and nobody is told.  *)
DetachedDaemonEnds ==
  \A a \in Actor, d \in Daemon \ Foreign :
    pc[a] = "abort" /\ d \in serving \ Mounted /\ conn[d] = found[a]
      ~> d \notin serving \/ pc[a] = "warned" \/ pc[a] = "off"

(* REFERENCE.md:370: --idle-timeout "unmounts the container itself after   *)
(* it's seen no filesystem activity for that long", open files or not,     *)
(* unless fusermount refuses or another mount lies on top.                 *)
IdleIsUnmounted ==
  \A d \in Watched :
    d \in serving \cap idle \cap Mounted
      ~> d \notin serving \cap idle \cap Mounted \/ pc[d] = "failed" \/ stacked

=============================================================================
