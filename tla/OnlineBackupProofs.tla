------------------------- MODULE OnlineBackupProofs -------------------------
(***************************************************************************)
(* The copy is one state of the container, for every number of clients,    *)
(* every size of a container and every number of pages per step.           *)
(*                                                                         *)
(* What is copied is kept apart by who copies: the pages the daemon has    *)
(* copied are those of the container as it is now, the pages of a direct   *)
(* copy are those of its snapshot.  With the last step either becomes the  *)
(* whole of the state it is a prefix of.                                   *)
(***************************************************************************)
EXTENDS OnlineBackup, TLAPS

(* A container has pages, as many as its length says; no page at all is    *)
(* no container.                                                           *)
LEMMA Images ==
  ASSUME NEW x \in Image
  PROVE  /\ x \in Seq(Page)
         /\ Len(x) \in 1..MaxPages
         /\ DOMAIN x = 1..Len(x)
         /\ \A i \in 1..Len(x) : x[i] \in Page
         /\ x # NoImage
<1>1. PICK n \in 1..MaxPages : x \in [1..n -> Page]
  BY DEF Image
<1>2. n \in Nat /\ n >= 1
  BY <1>1, PagesAssumption
<1>3. x \in Seq(Page) /\ Len(x) = n
  BY <1>1, <1>2
<1>4. x # NoImage
  BY <1>2, <1>3 DEF NoImage
<1> QED
  BY <1>1, <1>2, <1>3, <1>4

LEMMA ImageIf ==
  ASSUME NEW n \in 1..MaxPages, NEW x \in [1..n -> Page]
  PROVE  x \in Image
  BY DEF Image

LEMMA Nothing == <<>> \in [1..0 -> Page] /\ <<>> \in [1..(1 - 1) -> Page]
<1>1. DOMAIN <<>> = 1..0
  OBVIOUS
<1> QED
  BY <1>1

-----------------------------------------------------------------------------
(* Who copies, from what, and how far the two agree. *)
MarkInv ==
  /\ job = "none" => mark = NoImage
  /\ job # "none" => mark \in Image
  /\ job = "direct" => \A i \in 1..(next - 1) : i <= Len(mark) => dst[i] = mark[i]

CopyInv == MarkInv /\ CopiedIsCurrent

(* Further steps and the last one, from an image the pages agree with. *)
LEMMA MoreStepsFacts ==
  ASSUME TypeOK, NEW x \in Image, MoreSteps(x),
         \A i \in 1..(next - 1) : i <= Len(x) => dst[i] = x[i]
  PROVE  /\ next' \in 1..(MaxPages + 1)
         /\ dst' \in [1..(next' - 1) -> Page]
         /\ \A i \in 1..(next' - 1) : i <= Len(x) => dst'[i] = x[i]
<1>1. /\ next \in 1..(MaxPages + 1) /\ MaxPages \in Nat /\ PagesPerStep \in Nat \ {0}
      /\ dst \in [1..(next - 1) -> Page]
  BY PagesAssumption DEF TypeOK
<1>2. Len(x) \in 1..MaxPages /\ \A i \in 1..Len(x) : x[i] \in Page
  BY Images
<1>3. next' = next + PagesPerStep /\ next' <= Len(x)
  BY <1>1, <1>2 DEF MoreSteps, LastStep
<1>4. dst' = [i \in 1..(next' - 1) |-> IF i < next THEN dst[i] ELSE x[i]]
  <2>1. dst' = [i \in 1..(next + PagesPerStep - 1) |-> IF i < next THEN dst[i] ELSE x[i]]
    BY DEF MoreSteps, StepTo
  <2>2. next' - 1 = next + PagesPerStep - 1
    BY <1>1, <1>3
  <2> QED
    BY <2>1, <2>2, Zenon
<1>5. \A i \in 1..(next' - 1) : (IF i < next THEN dst[i] ELSE x[i]) \in Page
  BY <1>1, <1>2, <1>3
<1>6. ASSUME NEW i \in 1..(next' - 1), i <= Len(x)
      PROVE  dst'[i] = x[i]
  BY <1>1, <1>3, <1>4, <1>6
<1> QED
  BY <1>1, <1>2, <1>3, <1>4, <1>5, <1>6

LEMMA FinalStepFacts ==
  ASSUME TypeOK, NEW x \in Image, FinalStep(x),
         \A i \in 1..(next - 1) : i <= Len(x) => dst[i] = x[i]
  PROVE  copy' = x
<1>1. next \in 1..(MaxPages + 1) /\ MaxPages \in Nat
  BY PagesAssumption DEF TypeOK
<1>2. Len(x) \in 1..MaxPages /\ DOMAIN x = 1..Len(x)
  BY Images
<1>3. copy' = [i \in 1..Len(x) |-> IF i < next THEN dst[i] ELSE x[i]]
  BY DEF FinalStep, StepTo
<1>4. \A i \in 1..Len(x) : (IF i < next THEN dst[i] ELSE x[i]) = x[i]
  BY <1>1, <1>2
<1>5. x = [i \in 1..Len(x) |-> x[i]]
  BY <1>2, Images
<1> QED
  BY <1>3, <1>4, <1>5

(* The pages after a write are still of the container as it is now. *)
LEMMA CarriedFacts ==
  ASSUME TypeOK, NEW x \in Image
  PROVE  /\ Carried(x) \in [1..(next - 1) -> Page]
         /\ \A i \in 1..(next - 1) : i <= Len(x) => Carried(x)[i] = x[i]
<1>1. next \in 1..(MaxPages + 1) /\ MaxPages \in Nat /\ dst \in [1..(next - 1) -> Page]
  BY PagesAssumption DEF TypeOK
<1>2. Len(x) \in 1..MaxPages /\ \A i \in 1..Len(x) : x[i] \in Page
  BY Images
<1>3. \A i \in 1..(next - 1) : (IF i <= Len(x) THEN x[i] ELSE dst[i]) \in Page
  BY <1>1, <1>2
<1> QED
  BY <1>3 DEF Carried
-----------------------------------------------------------------------------
(* The thread and its clients. *)
SocketType ==
  /\ mount \in {"none", "normal"} \cup Exclusive
  /\ dest \in {"free", "busy"}
  /\ client \in [Client -> {"idle", "connected", "sent", "suspended", "gone", "left"}]
  /\ verb \in [Client -> {"backup", "backup-progress"}]
  /\ queue \in Seq(Client)
  /\ serving \in Client \cup {Nobody}
  /\ phase \in {"accept", "read", "copy", "report", "reply"}

(* The container, the copy and the pages between the two. *)
CopyType ==
  /\ source \in Image
  /\ job \in {"none", "daemon", "direct"}
  /\ mark \in Image \cup {NoImage}
  /\ next \in 1..(MaxPages + 1)
  /\ dst \in [1..(next - 1) -> Page]
  /\ copy \in Image \cup {NoImage}

LEMMA TypeParts == TypeOK <=> SocketType /\ CopyType
  BY DEF TypeOK, SocketType, CopyType

(* Only a request that is accepted and has asked gets a copy under way. *)
Socketed == SocketType /\ CopyHasClient

Inv == CopyType /\ CopyInv /\ Socketed

LEMMA InvType == Inv => TypeOK
  BY TypeParts DEF Inv, Socketed

LEMMA InitInv == Init => Inv
<1> SUFFICES ASSUME Init PROVE Inv
  OBVIOUS
<1>1. MaxPages \in Nat
  BY PagesAssumption
<1>2. CopyType
  BY <1>1, Nothing DEF Init, CopyType
<1>3. CopyInv
  BY DEF Init, CopyInv, MarkInv, CopiedIsCurrent
<1>4. Socketed
  BY DEF Init, Socketed, SocketType, CopyHasClient
<1> QED
  BY <1>2, <1>3, <1>4 DEF Inv

-----------------------------------------------------------------------------
(* What the parts of an action do to the container and the copy: each      *)
(* keeps the invariant of the copy and is a step of the promise.           *)
Copied == CopyType /\ CopyInv

Kept == Copied' /\ [Promise!Next]_(Promise!vars)

LEMMA CopyUnchanged == Copied /\ UNCHANGED copying => Kept
  BY DEF Copied, CopyType, CopyInv, MarkInv, CopiedIsCurrent, Kept, copying, Promise!vars

LEMMA BeginKeeps ==
  ASSUME Copied, NEW who \in {"daemon", "direct"}, BeginCopy(who)
  PROVE  Kept
<1>1. source \in Image /\ MaxPages \in Nat
  BY PagesAssumption DEF Copied, CopyType
<1>2. CopyType'
  BY <1>1, Nothing DEF Copied, CopyType, BeginCopy
<1>3. MarkInv'
  BY <1>1 DEF BeginCopy, MarkInv
<1>4. CopiedIsCurrent'
  BY DEF BeginCopy, CopiedIsCurrent
<1>5. Promise!Begin
  BY DEF Copied, CopyInv, MarkInv, BeginCopy, Promise!Begin
<1> QED
  BY <1>2, <1>3, <1>4, <1>5 DEF Kept, Copied, CopyInv, Promise!Next

(* EndCopy, with a copy that is one state of the container or the old one. *)
LEMMA EndKeeps ==
  ASSUME Copied, job # "none", EndCopy, copy' \in {mark, source, copy}
  PROVE  Kept
<1>1. mark \in Image /\ mark # NoImage /\ source \in Image /\ MaxPages \in Nat
  BY PagesAssumption, Images DEF Copied, CopyType, CopyInv, MarkInv
<1>2. CopyType'
  BY <1>1, Nothing DEF Copied, CopyType, EndCopy
<1>3. MarkInv'
  BY DEF EndCopy, MarkInv
<1>4. CopiedIsCurrent'
  BY DEF EndCopy, CopiedIsCurrent
<1>5. Promise!End \/ Promise!Abandon
  BY <1>1 DEF EndCopy, Promise!End, Promise!Abandon
<1> QED
  BY <1>2, <1>3, <1>4, <1>5 DEF Kept, Copied, CopyInv, Promise!Next

LEMMA RollBackKeeps == Copied /\ RollBack => Kept
  BY EndKeeps DEF RollBack

(* A step from the image the copy goes by: the container itself for the    *)
(* daemon, the snapshot for a direct copy.                                 *)
LEMMA StepKeeps ==
  ASSUME Copied, TypeOK, NEW x \in Image, MoreSteps(x) \/ FinalStep(x),
         (job = "daemon" /\ x = source) \/ (job = "direct" /\ x = mark)
  PROVE  Kept
<1>1. \A i \in 1..(next - 1) : i <= Len(x) => dst[i] = x[i]
  BY DEF Copied, CopyInv, MarkInv, CopiedIsCurrent
<1>2. CASE MoreSteps(x)
  <2>1. /\ next' \in 1..(MaxPages + 1)
        /\ dst' \in [1..(next' - 1) -> Page]
        /\ \A i \in 1..(next' - 1) : i <= Len(x) => dst'[i] = x[i]
    BY <1>1, <1>2, MoreStepsFacts
  <2>2. UNCHANGED <<source, job, mark, copy>>
    BY <1>2 DEF MoreSteps
  <2>3. CopyType'
    BY <2>1, <2>2 DEF Copied, CopyType
  <2>4. MarkInv' /\ CopiedIsCurrent'
    BY <2>1, <2>2 DEF Copied, CopyInv, MarkInv, CopiedIsCurrent
  <2>5. UNCHANGED Promise!vars
    BY <2>2 DEF Promise!vars
  <2> QED
    BY <2>3, <2>4, <2>5 DEF Kept, Copied, CopyInv
<1>3. CASE FinalStep(x)
  <2>1. copy' = x
    BY <1>1, <1>3, FinalStepFacts
  <2>2. EndCopy
    BY <1>3 DEF FinalStep
  <2> QED
    BY <2>1, <2>2, EndKeeps
<1> QED
  BY <1>2, <1>3

LEMMA WriteKeeps ==
  ASSUME Copied, TypeOK, NEW x \in Image, Write(x)
  PROVE  Kept
<1>1. /\ source' = x
      /\ dst' = IF job = "daemon" THEN Carried(x) ELSE dst
      /\ UNCHANGED <<job, mark, next, copy>>
  BY DEF Write
<1>2. CopyType'
  BY <1>1, CarriedFacts DEF Copied, CopyType
<1>3. MarkInv'
  BY <1>1 DEF Copied, CopyInv, MarkInv
<1>4. CopiedIsCurrent'
  BY <1>1, CarriedFacts DEF CopiedIsCurrent
<1>5. Promise!Write
  BY <1>1 DEF Promise!Write
<1> QED
  BY <1>2, <1>3, <1>4, <1>5 DEF Kept, Copied, CopyInv, Promise!Next

-----------------------------------------------------------------------------
(* The socket's part of every action.  Answered and AskAgain only move one *)
(* client on.                                                              *)
LEMMA AnsweredType ==
  SocketType /\ Answered /\ UNCHANGED <<mount, dest, verb, queue>> => SocketType'
  BY DEF SocketType, Answered

LEMMA AskAgainType ==
  ASSUME SocketType, AskAgain, serving \in Client, UNCHANGED <<mount, dest>>
  PROVE  SocketType'
<1>1. Append(queue, serving) \in Seq(Client)
  BY DEF SocketType
<1> QED
  BY <1>1 DEF SocketType, AskAgain

(* A client is served whenever the thread is not waiting for one. *)
Served == phase # "accept" <=> serving # Nobody

LEMMA StepInv == Inv /\ Served /\ [Next]_vars => (Inv /\ Served)' /\ Kept
<1> SUFFICES ASSUME Inv, Served, [Next]_vars
             PROVE  (Inv /\ Served)' /\ Kept
  OBVIOUS
<1> USE DEF Socketed
<1>t. TypeOK /\ Copied /\ SocketType /\ CopyHasClient
  BY InvType DEF Inv, Copied
<1>n. Nobody \notin Client
  BY ClientAssumption
<1>k. Kept /\ SocketType' /\ CopyHasClient' /\ Served' => (Inv /\ Served)' /\ Kept
  BY DEF Kept, Copied, Inv
<1>1. ASSUME NEW locking \in {"normal"} \cup Exclusive, Mount(locking)
      PROVE  (Inv /\ Served)' /\ Kept
  <2>1. Kept
    BY <1>1, <1>t, CopyUnchanged DEF Mount
  <2>2. SocketType' /\ CopyHasClient' /\ Served'
    BY <1>1, <1>t DEF Mount, SocketType, CopyHasClient, Served, socket, copying
  <2> QED
    BY <1>k, <2>1, <2>2
<1>2. ASSUME NEW image \in Image, Write(image)
      PROVE  (Inv /\ Served)' /\ Kept
  <2>1. Kept
    BY <1>2, <1>t, WriteKeeps
  <2>2. SocketType' /\ CopyHasClient' /\ Served'
    BY <1>2, <1>t DEF Write, SocketType, CopyHasClient, Served, socket
  <2> QED
    BY <1>k, <2>1, <2>2
<1>3. ASSUME MountEnds
      PROVE  (Inv /\ Served)' /\ Kept
  <2>1. Kept
    BY <1>3, <1>t, CopyUnchanged, RollBackKeeps DEF MountEnds
  <2>2. job' # "daemon"
    BY <1>3 DEF MountEnds, RollBack, EndCopy, copying
  <2>3. SocketType' /\ CopyHasClient' /\ Served'
    BY <1>3, <1>t, <2>2 DEF MountEnds, SocketType, CopyHasClient, Served
  <2> QED
    BY <1>k, <2>1, <2>3
<1>4. ASSUME DirectBegin
      PROVE  (Inv /\ Served)' /\ Kept
  <2>1. Kept
    BY <1>4, <1>t, BeginKeeps DEF DirectBegin
  <2>2. SocketType' /\ CopyHasClient' /\ Served'
    BY <1>4, <1>t DEF DirectBegin, BeginCopy, SocketType, CopyHasClient, Served, socket
  <2> QED
    BY <1>k, <2>1, <2>2
<1>5. ASSUME DirectStep
      PROVE  (Inv /\ Served)' /\ Kept
  <2>1. mark \in Image
    BY <1>5, <1>t DEF DirectStep, Copied, CopyInv, MarkInv
  <2>2. Kept
    BY <1>5, <1>t, <2>1, StepKeeps DEF DirectStep
  <2>3. job' # "daemon"
    BY <1>5 DEF DirectStep, MoreSteps, FinalStep, EndCopy
  <2>4. SocketType' /\ CopyHasClient' /\ Served'
    BY <1>5, <1>t, <2>3 DEF DirectStep, SocketType, CopyHasClient, Served, socket
  <2> QED
    BY <1>k, <2>2, <2>4
<1>6. ASSUME DirectFails
      PROVE  (Inv /\ Served)' /\ Kept
  <2>1. Kept
    BY <1>6, <1>t, RollBackKeeps DEF DirectFails
  <2>2. SocketType' /\ CopyHasClient' /\ Served'
    BY <1>6, <1>t DEF DirectFails, RollBack, EndCopy, SocketType, CopyHasClient, Served, socket
  <2> QED
    BY <1>k, <2>1, <2>2
<1>7. ASSUME NEW c \in Client, Connect(c) \/ Send(c) \/ Suspend(c) \/ Resume(c) \/ HangUp(c)
      PROVE  (Inv /\ Served)' /\ Kept
  <2>1. Kept
    BY <1>7, <1>t, CopyUnchanged DEF Connect, Send, Suspend, Resume, HangUp
  <2>2. UNCHANGED <<mount, dest, serving, phase, job>>
    BY <1>7 DEF Connect, Send, Suspend, Resume, HangUp, copying
  <2>3. queue' \in Seq(Client)
    BY <1>7, <1>t DEF Connect, Send, Suspend, Resume, HangUp, SocketType
  <2>4. /\ client' \in [Client -> {"idle", "connected", "sent", "suspended", "gone", "left"}]
        /\ verb' \in [Client -> {"backup", "backup-progress"}]
    BY <1>7, <1>t DEF Connect, Send, Suspend, Resume, HangUp, SocketType
  <2>5. SocketType' /\ CopyHasClient' /\ Served'
    BY <1>t, <2>2, <2>3, <2>4 DEF SocketType, CopyHasClient, Served
  <2> QED
    BY <1>k, <2>1, <2>5
<1>8. ASSUME Accept
      PROVE  (Inv /\ Served)' /\ Kept
  <2>1. Kept
    BY <1>8, <1>t, CopyUnchanged DEF Accept
  <2>2. Head(queue) \in Client /\ Tail(queue) \in Seq(Client)
    BY <1>8, <1>t DEF Accept, SocketType
  <2>3. SocketType' /\ CopyHasClient' /\ Served'
    BY <1>8, <1>t, <1>n, <2>2 DEF Accept, SocketType, CopyHasClient, Served, copying
  <2> QED
    BY <1>k, <2>1, <2>3
<1>9. ASSUME ReadRequest
      PROVE  (Inv /\ Served)' /\ Kept
  <2>0. phase = "read" /\ UNCHANGED <<mount, dest>> /\ serving \in Client /\ job # "daemon"
    BY <1>9, <1>t DEF ReadRequest, Served, SocketType, CopyHasClient
  <2>1. CASE BeginCopy("daemon") /\ phase' = "copy" /\ UNCHANGED <<client, verb, queue, serving>>
    <3>1. Kept
      BY <1>t, <2>1, BeginKeeps
    <3>2. SocketType' /\ CopyHasClient' /\ Served'
      BY <1>t, <2>0, <2>1 DEF BeginCopy, SocketType, CopyHasClient, Served
    <3> QED
      BY <1>k, <3>1, <3>2
  <2>2. CASE AskAgain /\ UNCHANGED copying
    <3>1. Kept
      BY <1>t, <2>2, CopyUnchanged
    <3>2. SocketType'
      BY <1>t, <2>0, <2>2, AskAgainType
    <3>3. CopyHasClient' /\ Served'
      BY <2>0, <2>2 DEF AskAgain, CopyHasClient, Served, copying
    <3> QED
      BY <1>k, <3>1, <3>2, <3>3
  <2>3. CASE Answered /\ UNCHANGED <<copying, verb, queue>>
    <3>1. Kept
      BY <1>t, <2>3, CopyUnchanged
    <3>2. SocketType'
      BY <1>t, <2>0, <2>3, AnsweredType
    <3>3. CopyHasClient' /\ Served'
      BY <2>0, <2>3 DEF Answered, CopyHasClient, Served, copying
    <3> QED
      BY <1>k, <3>1, <3>2, <3>3
  <2> QED
    BY <1>9, <2>1, <2>2, <2>3 DEF ReadRequest
<1>10. ASSUME CopyStep
       PROVE  (Inv /\ Served)' /\ Kept
  <2>0. job = "daemon" /\ source \in Image
    BY <1>10, <1>t DEF CopyStep, CopyHasClient, Copied, CopyType
  <2>1. Kept
    <3>1. CASE MoreSteps(source) \/ FinalStep(source)
      <4>1. PICK x \in Image : x = source
        BY <2>0
      <4>2. MoreSteps(x) \/ FinalStep(x)
        BY <3>1, <4>1 DEF MoreSteps, FinalStep, LastStep, StepTo
      <4> QED
        BY <1>t, <2>0, <4>1, <4>2, StepKeeps
    <3>2. CASE RollBack
      BY <3>2, <1>t, RollBackKeeps
    <3> QED
      BY <1>10, <3>1, <3>2 DEF CopyStep
  <2>2. CopyHasClient'
    BY <1>10, <2>0 DEF CopyStep, CopyHasClient, MoreSteps, FinalStep, RollBack, EndCopy
  <2>3. SocketType' /\ Served'
    BY <1>10, <1>t DEF CopyStep, SocketType, Served
  <2> QED
    BY <1>k, <2>1, <2>2, <2>3
<1>11. ASSUME Report
       PROVE  (Inv /\ Served)' /\ Kept
  <2>1. Kept
    BY <1>11, <1>t, CopyUnchanged, RollBackKeeps DEF Report
  <2>2. CopyHasClient'
    BY <1>11, <1>t DEF Report, CopyHasClient, RollBack, EndCopy, copying
  <2>3. SocketType' /\ Served'
    BY <1>11, <1>t DEF Report, SocketType, Served
  <2> QED
    BY <1>k, <2>1, <2>2, <2>3
<1>12. ASSUME Reply
       PROVE  (Inv /\ Served)' /\ Kept
  <2>1. Kept
    BY <1>12, <1>t, CopyUnchanged DEF Reply
  <2>2. SocketType'
    BY <1>12, <1>t, AnsweredType DEF Reply
  <2>3. CopyHasClient' /\ Served'
    BY <1>12, <1>t DEF Reply, Answered, CopyHasClient, Served, copying
  <2> QED
    BY <1>k, <2>1, <2>2, <2>3
<1>13. ASSUME UNCHANGED vars
       PROVE  (Inv /\ Served)' /\ Kept
  <2>1. Kept
    BY <1>13, <1>t, CopyUnchanged DEF vars
  <2>2. SocketType' /\ CopyHasClient' /\ Served'
    BY <1>13, <1>t DEF vars, socket, copying, SocketType, CopyHasClient, Served
  <2> QED
    BY <1>k, <2>1, <2>2
<1>14. ASSUME LockDest \/ FreeDest
       PROVE  (Inv /\ Served)' /\ Kept
  <2>1. Kept
    BY <1>14, <1>t, CopyUnchanged DEF LockDest, FreeDest
  <2>2. SocketType' /\ CopyHasClient' /\ Served'
    BY <1>14, <1>t DEF LockDest, FreeDest, socket, copying, SocketType, CopyHasClient, Served
  <2> QED
    BY <1>k, <2>1, <2>2
<1> QED
  BY <1>1, <1>2, <1>3, <1>4, <1>5, <1>6, <1>7, <1>8, <1>9, <1>10, <1>11, <1>12, <1>13, <1>14
  DEF Next, Thread

-----------------------------------------------------------------------------
LEMMA Invariance == Spec => [](Inv /\ Served)
<1>1. Init => Inv /\ Served
  BY InitInv DEF Init, Served
<1> QED
  BY <1>1, StepInv, PTL DEF Spec

(* The state of the copy and of the socket keeps its type, whatever order  *)
(* requests, writes and the end of the mount come in.                      *)
THEOREM TypeCorrect == Spec => []TypeOK
  BY Invariance, InvType, PTL

(* What the daemon has copied (ipc.rs: backup) is at every moment what the *)
(* container holds, also after the writes between two steps.               *)
THEOREM CopyNeverStale == Spec => []CopiedIsCurrent
<1>1. Inv => CopiedIsCurrent
  BY DEF Inv, CopyInv
<1> QED
  BY <1>1, Invariance, PTL

(* The thread leaves no copy open behind the client it has answered        *)
(* (ipc.rs: sqlite3_backup_finish on every way out of backup).             *)
THEOREM NoCopyLeftOpen == Spec => []CopyHasClient
<1>1. Inv => CopyHasClient
  BY DEF Inv, Socketed
<1> QED
  BY <1>1, Invariance, PTL

(* A backup through the mount or beside it (ipc.rs: backup; main.rs:       *)
(* cmd_backup) implements Snapshot: the copy is the container at one       *)
(* moment, and one that is given up changes nothing.                       *)
THEOREM BackupIsSnapshot == Spec => ImplementsSnapshot
<1>1. Init => Promise!Init
  BY DEF Init, Promise!Init
<1>2. Inv /\ Served /\ [Next]_vars => [Promise!Next]_(Promise!vars)
  BY StepInv DEF Kept
<1> QED
  BY <1>1, <1>2, Invariance, PTL DEF Spec, ImplementsSnapshot, Promise!Spec

=============================================================================
