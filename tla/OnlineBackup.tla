---------------------------- MODULE OnlineBackup ----------------------------
(***************************************************************************)
(* `coffer backup` of a container in use (src/ipc.rs, cmd_backup in        *)
(* src/main.rs).  A mount with exclusive locking makes the copy itself, in *)
(* the thread that serves its control socket: one request at a time, a few *)
(* pages at a time, so that handlers get at the connection between two     *)
(* steps.  Beside a mount with normal locking, or none, the command copies *)
(* by itself within one read transaction.                                  *)
(*                                                                         *)
(* The container is a sequence of pages.                                   *)
(***************************************************************************)
EXTENDS Integers, Sequences

CONSTANTS Client,       \* processes that ask over the socket
          Nobody,       \* no client
          Page,         \* what a page may hold
          MaxPages,     \* bound: pages of a container
          PagesPerStep  \* pages copied per hold of the mutex

ASSUME PagesAssumption == MaxPages \in Nat /\ PagesPerStep \in Nat \ {0}
ASSUME ClientAssumption == Nobody \notin Client

VARIABLES mount,   \* "none", "normal", "exclusive", or "old": exclusive, by 0.2.0
          source,  \* the container
          job,     \* who copies: "none", "daemon" or "direct"
          mark,    \* the container when the copy began: a direct copy's snapshot
          next,    \* the first page not yet copied
          dst,     \* the pages copied, not committed
          copy,    \* what opens at the destination
          dest,    \* whether another process has the destination locked: "free" or "busy"
          client,  \* client -> what it does
          verb,    \* client -> what it asks for
          queue,   \* clients that wait to be accepted
          serving, \* the client accepted, or Nobody
          phase    \* where the thread that serves it is

copying == <<source, job, mark, next, dst, copy>>
socket == <<client, verb, queue, serving, phase>>
vars == <<mount, copying, dest, socket>>

Image == UNION {[1..n -> Page] : n \in 1..MaxPages}
NoImage == <<>>

Init ==
  /\ mount = "none"
  /\ source \in Image
  /\ job = "none" /\ mark = NoImage /\ next = 1 /\ dst = <<>> /\ copy = NoImage /\ dest = "free"
  /\ client = [c \in Client |-> "idle"]
  /\ verb = [c \in Client |-> "backup-progress"]
  /\ queue = <<>> /\ serving = Nobody /\ phase = "accept"

-----------------------------------------------------------------------------
(* The copy, as sqlite3_backup makes it.  A mutation `Bug...` stands       *)
(* before the definition it is a plausible wrong version of.               *)

(* A write through the connection that is being copied from is carried     *)
(* into the pages copied already.                                          *)
Carried(image) == [i \in 1..(next - 1) |-> IF i <= Len(image) THEN image[i] ELSE dst[i]]

(* The pages copied after one more step. *)
StepTo(n, image) == [i \in 1..n |-> IF i < next THEN dst[i] ELSE image[i]]

(* A source that has shrunk below what is copied already is done, too. *)
LastStep(image) == next + PagesPerStep > Len(image)

BeginCopy(who) ==
  /\ job = "none"
  /\ job' = who
  /\ mark' = source
  /\ next' = 1
  /\ dst' = <<>>
  /\ UNCHANGED <<source, copy>>

MoreSteps(image) ==
  /\ ~LastStep(image)
  /\ dst' = StepTo(next + PagesPerStep - 1, image)
  /\ next' = next + PagesPerStep
  /\ UNCHANGED <<source, job, mark, copy>>

EndCopy ==
  /\ job' = "none"
  /\ mark' = NoImage
  /\ next' = 1
  /\ dst' = <<>>
  /\ UNCHANGED source

FinalStep(image) ==
  /\ LastStep(image)
  /\ copy' = StepTo(Len(image), image)
  /\ EndCopy

(* sqlite3_backup_finish before the end, or the end of the process that    *)
(* copies: the destination's transaction is rolled back.                   *)
RollBack == job # "none" /\ EndCopy /\ UNCHANGED copy

-----------------------------------------------------------------------------
(* The mount.  It cannot have the container exclusively while a direct     *)
(* backup has it open (ContainerLocks!Reopen).                             *)
Exclusive == {"exclusive", "old"}

Mount(locking) ==
  /\ mount = "none"
  /\ locking \in Exclusive => job = "none"
  /\ mount' = locking
  /\ UNCHANGED <<copying, dest, socket>>

BugWrite(image) ==                                  \* every write starts the copy over
  /\ mount # "none"
  /\ source' = image
  /\ IF job = "daemon" THEN next' = 1 /\ dst' = <<>> ELSE UNCHANGED <<next, dst>>
  /\ UNCHANGED <<mount, job, mark, copy, dest, socket>>

(* A handler, or the compaction of an idle mount: one transaction, under   *)
(* the mutex.                                                              *)
Write(image) ==
  /\ mount # "none"
  /\ source' = image
  /\ dst' = IF job = "daemon" THEN Carried(image) ELSE dst
  /\ UNCHANGED <<mount, job, mark, next, copy, dest, socket>>

(* Unmounted or killed, in the middle of a copy as well: the clients read  *)
(* the end of the connection.                                              *)
MountEnds ==
  /\ mount # "none"
  /\ mount' = "none"
  /\ IF job = "daemon" THEN RollBack ELSE UNCHANGED copying
  /\ client' = [c \in Client |-> "idle"]
  /\ verb' = [c \in Client |-> "backup-progress"]
  /\ queue' = <<>> /\ serving' = Nobody /\ phase' = "accept"
  /\ UNCHANGED dest

-----------------------------------------------------------------------------
(* cmd_backup without a socket: BEGIN and a first read fix the snapshot.   *)
DirectBegin ==
  /\ mount \notin Exclusive
  /\ BeginCopy("direct")
  /\ UNCHANGED <<mount, dest, socket>>

BugDirectStep ==                                    \* no transaction around the steps
  /\ job = "direct"
  /\ MoreSteps(source) \/ FinalStep(source)
  /\ UNCHANGED <<mount, dest, socket>>

(* SQLITE_BUSY and SQLITE_LOCKED: the step is tried again after 20 ms, and *)
(* again, without end.                                                     *)
DestFree == dest = "free"

DirectStep ==
  /\ job = "direct"
  /\ DestFree
  /\ MoreSteps(mark) \/ FinalStep(mark)
  /\ UNCHANGED <<mount, dest, socket>>

(* Interrupted, or a failure of a step. *)
DirectFails ==
  /\ job = "direct"
  /\ RollBack
  /\ UNCHANGED <<mount, dest, socket>>

(* Another process opens the destination, locks it, lets it go. *)
LockDest == DestFree /\ dest' = "busy" /\ UNCHANGED <<mount, copying, socket>>
FreeDest == ~DestFree /\ dest' = "free" /\ UNCHANGED <<mount, copying, socket>>

-----------------------------------------------------------------------------
(* Clients: request_backup and ask.  Not all that connects is `coffer      *)
(* backup`, and a `coffer backup` can be suspended or interrupted.         *)
Connect(c) ==
  /\ mount \in Exclusive
  /\ client[c] = "idle"
  /\ client' = [client EXCEPT ![c] = "connected"]
  /\ verb' = [verb EXCEPT ![c] = "backup-progress"]
  /\ queue' = Append(queue, c)
  /\ UNCHANGED <<mount, copying, dest, serving, phase>>

Send(c) ==
  /\ client[c] = "connected"
  /\ client' = [client EXCEPT ![c] = "sent"]
  /\ UNCHANGED <<mount, copying, dest, verb, queue, serving, phase>>

(* Reads nothing for a while. *)
Suspend(c) ==
  /\ client[c] = "sent"
  /\ client' = [client EXCEPT ![c] = "suspended"]
  /\ UNCHANGED <<mount, copying, dest, verb, queue, serving, phase>>

Resume(c) ==
  /\ client[c] = "suspended"
  /\ client' = [client EXCEPT ![c] = "sent"]
  /\ UNCHANGED <<mount, copying, dest, verb, queue, serving, phase>>

(* A client that is gone after it sent its request has still asked. *)
HangUp(c) ==
  /\ client[c] \in {"connected", "sent", "suspended"}
  /\ client' = [client EXCEPT ![c] = IF client[c] = "connected" THEN "left" ELSE "gone"]
  /\ UNCHANGED <<mount, copying, dest, verb, queue, serving, phase>>

-----------------------------------------------------------------------------
(* The daemon's thread: spawn, handle, serve, backup.                      *)
Accept ==
  /\ phase = "accept"
  /\ queue # <<>>
  /\ serving' = Head(queue)
  /\ queue' = Tail(queue)
  /\ phase' = "read"
  /\ UNCHANGED <<mount, copying, dest, client, verb>>

(* The stream of the client served is closed; an answer that cannot be     *)
(* delivered is dropped.                                                   *)
Answered ==
  /\ client' = [client EXCEPT ![serving] = "idle"]
  /\ serving' = Nobody
  /\ phase' = "accept"

(* An old daemon calls the verb malformed, and the client asks again. *)
AskAgain ==
  /\ verb' = [verb EXCEPT ![serving] = "backup"]
  /\ queue' = Append(queue, serving)
  /\ serving' = Nobody
  /\ phase' = "accept"
  /\ UNCHANGED client

(* The daemon knows `backup-progress`: that of 0.2.0 does not. *)
Progress == mount # "old"

BugReadRequest ==                                   \* no read timeout
  /\ phase = "read"
  /\ client[serving] # "connected"
  /\ \/ /\ client[serving] # "left"
        /\ Progress \/ verb[serving] = "backup"
        /\ BeginCopy("daemon")
        /\ phase' = "copy"
        /\ UNCHANGED <<client, verb, queue, serving>>
     \/ Answered /\ UNCHANGED <<copying, verb, queue>>
  /\ UNCHANGED <<mount, dest>>

(* One that has sent nothing within ten seconds, or no whole request, or   *)
(* the wrong password, or has another uid, is answered with an error.      *)
(* Checking the password and starting the copy each take the mutex.        *)
ReadRequest ==
  /\ phase = "read"
  /\ \/ /\ client[serving] \in {"sent", "suspended", "gone"}
        /\ Progress \/ verb[serving] = "backup"
        /\ BeginCopy("daemon")
        /\ phase' = "copy"
        /\ UNCHANGED <<client, verb, queue, serving>>
     \/ /\ client[serving] \in {"sent", "suspended"}
        /\ ~Progress /\ verb[serving] = "backup-progress"
        /\ AskAgain
        /\ UNCHANGED copying
     \/ Answered /\ UNCHANGED <<copying, verb, queue>>
  /\ UNCHANGED <<mount, dest>>

(* One step under the mutex.  A step that fails ends the copy; one that    *)
(* finds the destination locked is repeated, and `progress` is not called, *)
(* so that a client that has left is not noticed.                          *)
CopyStep ==
  /\ phase = "copy"
  /\ DestFree
  /\ \/ MoreSteps(source) /\ phase' = "report"
     \/ FinalStep(source) /\ phase' = "reply"
     \/ RollBack /\ phase' = "reply"
  /\ UNCHANGED <<mount, dest, client, verb, queue, serving>>

(* A progress line waits for a client that does not read, and a client     *)
(* that is gone ends the copy.                                             *)
Report ==
  /\ phase = "report"
  /\ \/ /\ verb[serving] = "backup" \/ client[serving] = "sent"
        /\ phase' = "copy"
        /\ UNCHANGED copying
     \/ /\ verb[serving] = "backup-progress" /\ client[serving] = "gone"
        /\ RollBack
        /\ phase' = "reply"
  /\ UNCHANGED <<mount, dest, client, verb, queue, serving>>

Reply ==
  /\ phase = "reply"
  /\ client[serving] # "suspended"
  /\ Answered
  /\ UNCHANGED <<mount, copying, dest, verb, queue>>

Thread == Accept \/ ReadRequest \/ CopyStep \/ Report \/ Reply

Next ==
  \/ \E locking \in {"normal"} \cup Exclusive : Mount(locking)
  \/ \E image \in Image : Write(image)
  \/ MountEnds
  \/ DirectBegin \/ DirectStep \/ DirectFails
  \/ LockDest \/ FreeDest
  \/ \E c \in Client : Connect(c) \/ Send(c) \/ Suspend(c) \/ Resume(c) \/ HangUp(c)
  \/ Thread

Spec == Init /\ [][Next]_vars

(* The thread goes on whenever it can; a write to a socket is woken when   *)
(* its client reads.                                                       *)
Fairness ==
  /\ WF_vars(Accept) /\ WF_vars(ReadRequest) /\ WF_vars(CopyStep)
  /\ SF_vars(Report) /\ SF_vars(Reply)

FairSpec == Spec /\ Fairness

-----------------------------------------------------------------------------
TypeOK ==
  /\ mount \in {"none", "normal"} \cup Exclusive
  /\ source \in Image
  /\ job \in {"none", "daemon", "direct"}
  /\ mark \in Image \cup {NoImage}
  /\ next \in 1..(MaxPages + 1)
  /\ dst \in [1..(next - 1) -> Page]
  /\ copy \in Image \cup {NoImage}
  /\ dest \in {"free", "busy"}
  /\ client \in [Client -> {"idle", "connected", "sent", "suspended", "gone", "left"}]
  /\ verb \in [Client -> {"backup", "backup-progress"}]
  /\ queue \in Seq(Client)
  /\ serving \in Client \cup {Nobody}
  /\ phase \in {"accept", "read", "copy", "report", "reply"}

(* The copy is one state of the container, never pages of several, however *)
(* many handlers ran between two steps.  REFERENCE.md: "a byte-consistent  *)
(* copy - safe to run even while the container is mounted and being        *)
(* written to".                                                            *)
Promise == INSTANCE Snapshot
ImplementsSnapshot == Promise!Spec

(* Between two steps of the daemon's copy what is copied equals the        *)
(* container as it is now: ipc.rs, "Writes made in between through the     *)
(* same connection are carried into the copy".                             *)
CopiedIsCurrent ==
  job = "daemon" => \A i \in 1..(next - 1) : i <= Len(source) => dst[i] = source[i]

(* The thread copies for somebody: no copy goes on for a client that was   *)
(* answered, or after the mount has lost the socket, and none is left open *)
(* when the next client is accepted.                                       *)
CopyHasClient == job = "daemon" <=> phase \in {"copy", "report"}

(* What progress depends on and the daemon cannot bring about: whoever has *)
(* the destination locked lets it go for good, and no client stops reading *)
(* for ever.  Without either the one thread waits for ever, and with it    *)
(* every client: the copy has no timeout (src/ipc.rs, backup).             *)
Attended == <>[]DestFree /\ \A c \in Client : []<>(client[c] # "suspended")

(* Whoever has sent its request is answered in the end, or the mount ends: *)
(* a client that sends nothing delays the others, as does one that does    *)
(* not read for a while or a destination that is locked for a while, but   *)
(* no longer.                                                              *)
EveryClientAnswered ==
  Attended => \A c \in Client : (client[c] = "sent" ~> client[c] \in {"idle", "gone"})

(* A copy is finished or given up, also that of a client that hangs up,    *)
(* once the destination is free.                                           *)
EveryCopyEnds == Attended => (job = "daemon" ~> job # "daemon")

=============================================================================
