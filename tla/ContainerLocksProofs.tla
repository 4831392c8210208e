------------------------- MODULE ContainerLocksProofs -------------------------
(* Theorems about ContainerLocks, for any number of processes and keys.    *)
EXTENDS ContainerLocks, TLAPS

(* Every step, by name. *)
Step(p) ==
  \/ \E c \in Commands : Lock(p, c)
  \/ \E c \in Commands : StartReading(p, c)
  \/ AskPassword(p) \/ Open(p) \/ Bind(p) \/ Mount(p) \/ CloseOld(p) \/ Reopen(p)
  \/ EndSession(p) \/ RemoveSocket(p) \/ Rekey(p) \/ Use(p)
  \/ Finish(p) \/ Unlock(p) \/ Exit(p) \/ Die(p)

LEMMA NextStep == Next <=> \E p \in Proc : Step(p)
  BY DEF Next, Step

LEMMA CommandKinds ==
  ASSUME NEW c \in Commands
  PROVE  /\ c.kind \in {"mount", "passwd", "compact", "read"}
         /\ c.exclusive \in BOOLEAN /\ c.daemon \in BOOLEAN
  BY DEF Commands

-----------------------------------------------------------------------------
LEMMA InitTyped == Init => TypeOK
  <1> SUFFICES ASSUME Init PROVE TypeOK
    OBVIOUS
  <1>1. PICK c \in Commands : cmd = [p \in Proc |-> c]
    BY DEF Init
  <1>2. cmd \in [Proc -> Commands]
    BY <1>1
  <1> QED
    BY <1>2 DEF Init, TypeOK, Labels

LEMMA StepTyped ==
  ASSUME TypeOK, NEW p \in Proc, Step(p)
  PROVE  TypeOK'
  <1>1. ASSUME NEW c \in Commands, Lock(p, c) PROVE TypeOK'
    BY <1>1 DEF TypeOK, Labels, Lock, Goto
  <1>2. ASSUME NEW c \in Commands, StartReading(p, c) PROVE TypeOK'
    BY <1>2 DEF TypeOK, Labels, StartReading, Goto
  <1>3. CASE AskPassword(p)
    BY <1>3 DEF TypeOK, Labels, AskPassword, Goto
  <1>4. CASE Open(p)
    BY <1>4 DEF TypeOK, Labels, Open, OpenShared, Goto
  <1>5. CASE Bind(p)
    BY <1>5 DEF TypeOK, Labels, Bind, Goto
  <1>6. CASE Mount(p)
    BY <1>6 DEF TypeOK, Labels, Mount, Goto
  <1>7. CASE CloseOld(p)
    BY <1>7 DEF TypeOK, Labels, CloseOld, Close, Goto
  <1>8. CASE Reopen(p)
    <2>1. CASE OpenExclusive(p) /\ UNCHANGED <<server, socket>>
      BY <1>8, <2>1 DEF TypeOK, Labels, Reopen, OpenExclusive, Goto
    <2>2. CASE OpenShared(p) /\ server' = server \ {p} /\ socket' = IF p \in server THEN Stale ELSE socket
      BY <1>8, <2>2 DEF TypeOK, Labels, Reopen, OpenShared, Goto
    <2> QED
      BY <1>8, <2>1, <2>2 DEF Reopen
  <1>9. CASE EndSession(p)
    BY <1>9 DEF TypeOK, Labels, EndSession, Goto
  <1>10. CASE RemoveSocket(p)
    BY <1>10 DEF TypeOK, Labels, RemoveSocket, Goto
  <1>11. CASE Rekey(p)
    BY <1>11 DEF TypeOK, Labels, Rekey, Goto
  <1>12. CASE Use(p)
    BY <1>12 DEF TypeOK, Labels, Use, Goto
  <1>13. CASE Finish(p)
    BY <1>13 DEF TypeOK, Labels, Finish, Close, Released, Goto
  <1>14. CASE Die(p)
    BY <1>14 DEF TypeOK, Labels, Die, Close, Released, Goto
  <1>15. CASE Unlock(p)
    BY <1>15 DEF TypeOK, Labels, Unlock, Released, Goto
  <1>16. CASE Exit(p)
    BY <1>16 DEF TypeOK, Labels, Exit, Close, Goto
  <1> QED
    BY <1>1, <1>2, <1>3, <1>4, <1>5, <1>6, <1>7, <1>8, <1>9, <1>10, <1>11, <1>12, <1>13, <1>14,
       <1>15, <1>16
    DEF Step

(* Whatever a process does, the variables keep their types: no process     *)
(* holds the -shm lock without the index, no index is reset that nobody    *)
(* has mapped.                                                             *)
THEOREM TypeCorrect == Spec => []TypeOK
  <1>1. TypeOK /\ [Next]_vars => TypeOK'
    <2> SUFFICES ASSUME TypeOK, [Next]_vars PROVE TypeOK'
      OBVIOUS
    <2>1. CASE UNCHANGED vars
      BY <2>1 DEF TypeOK, vars
    <2>2. CASE Next
      BY <2>2, NextStep, StepTyped
    <2> QED
      BY <2>1, <2>2
  <1> QED
    BY <1>1, InitTyped, PTL DEF Spec

-----------------------------------------------------------------------------
(* A command that is going to write, or has written, has the flock until   *)
(* it returns; only a mount is ever at the stages of a mount.              *)
LockInv ==
  \A p \in Proc :
    /\ pc[p] \notin {"idle", "exiting"} /\ Writes(p) => lock = p
    /\ pc[p] \in {"locked", "bound", "mounted", "closed", "serving", "ended"} => Writes(p)

LEMMA StepKeepsLock ==
  ASSUME TypeOK, LockInv, NEW p \in Proc, Step(p)
  PROVE  LockInv'
  <1> USE DEF LockInv, Writes, TypeOK, Goto
  <1>1. ASSUME NEW c \in Commands, Lock(p, c) PROVE LockInv'
    BY <1>1, ProcAssumption DEF Lock
  <1>2. ASSUME NEW c \in Commands, StartReading(p, c) PROVE LockInv'
    BY <1>2 DEF StartReading
  <1>3. CASE AskPassword(p)
    BY <1>3 DEF AskPassword
  <1>4. CASE Open(p)
    BY <1>4 DEF Open
  <1>5. CASE Bind(p)
    <2>1. cmd[p].kind = "mount"
      BY <1>5 DEF Bind, Commands
    <2> QED
      BY <1>5, <2>1 DEF Bind
  <1>6. CASE Mount(p)
    BY <1>6 DEF Mount
  <1>7. CASE CloseOld(p)
    BY <1>7 DEF CloseOld
  <1>8. CASE Reopen(p)
    BY <1>8 DEF Reopen
  <1>9. CASE EndSession(p)
    BY <1>9 DEF EndSession
  <1>10. CASE RemoveSocket(p)
    BY <1>10 DEF RemoveSocket
  <1>11. CASE Rekey(p)
    BY <1>11 DEF Rekey
  <1>12. CASE Use(p)
    BY <1>12 DEF Use
  <1>13. CASE Finish(p)
    BY <1>13 DEF Finish, Released
  <1>14. CASE Die(p)
    BY <1>14 DEF Die, Released
  <1>15. CASE Unlock(p)
    BY <1>15 DEF Unlock, Released
  <1>16. CASE Exit(p)
    BY <1>16 DEF Exit
  <1> QED
    BY <1>1, <1>2, <1>3, <1>4, <1>5, <1>6, <1>7, <1>8, <1>9, <1>10, <1>11, <1>12, <1>13, <1>14,
       <1>15, <1>16
    DEF Step

LEMMA LockAlways == Spec => []LockInv
  <1>1. Init => LockInv
    <2> SUFFICES ASSUME Init PROVE LockInv
      OBVIOUS
    <2> QED
      BY DEF Init, LockInv, Writes
  <1>2. TypeOK /\ LockInv /\ [Next]_vars => LockInv'
    <2> SUFFICES ASSUME TypeOK, LockInv, [Next]_vars PROVE LockInv'
      OBVIOUS
    <2>1. CASE UNCHANGED vars
      BY <2>1 DEF LockInv, Writes, vars
    <2>2. CASE Next
      BY <2>2, NextStep, StepKeepsLock
    <2> QED
      BY <2>1, <2>2
  <1> QED
    BY <1>1, <1>2, TypeCorrect, PTL DEF Spec

LEMMA LockGivesOneWriter == LockInv => OneWriter
  BY DEF LockInv, OneWriter, AtWork, Opened, Writes

(* mount, passwd and compact exclude each other from the moment they look  *)
(* at the container until they return, through the fork of a daemon and    *)
(* whatever kills them.                                                    *)
THEOREM WritersExcludeEachOther == Spec => []OneWriter
  BY LockAlways, LockGivesOneWriter, PTL

-----------------------------------------------------------------------------
(* Only passwd changes the key, under the flock, and a connection that is  *)
(* going to write, or serve, was opened under the flock.                   *)
LEMMA StepKeepsKey ==
  ASSUME TypeOK, LockInv, NoStaleKey, NEW p \in Proc, Step(p)
  PROVE  NoStaleKey'
  <1> USE DEF TypeOK, LockInv, NoStaleKey, AtWork, Opened, Writes, Goto
  <1>1. ASSUME NEW c \in Commands, Lock(p, c) PROVE NoStaleKey'
    BY <1>1 DEF Lock
  <1>2. ASSUME NEW c \in Commands, StartReading(p, c) PROVE NoStaleKey'
    BY <1>2 DEF StartReading
  <1>3. CASE AskPassword(p)
    BY <1>3 DEF AskPassword
  <1>4. CASE Open(p)
    BY <1>4 DEF Open, OpenShared
  <1>5. CASE Bind(p)
    BY <1>5 DEF Bind
  <1>6. CASE Mount(p)
    BY <1>6 DEF Mount
  <1>7. CASE CloseOld(p)
    BY <1>7 DEF CloseOld, Close
  <1>8. CASE Reopen(p)
    BY <1>8 DEF Reopen, OpenShared, OpenExclusive
  <1>9. CASE EndSession(p)
    BY <1>9 DEF EndSession
  <1>10. CASE RemoveSocket(p)
    BY <1>10 DEF RemoveSocket
  <1>11. CASE Rekey(p)
    BY <1>11 DEF Rekey
  <1>12. CASE Use(p)
    BY <1>12 DEF Use
  <1>13. CASE Finish(p)
    BY <1>13 DEF Finish, Close, Released
  <1>14. CASE Die(p)
    BY <1>14 DEF Die, Close, Released
  <1>15. CASE Unlock(p)
    BY <1>15 DEF Unlock, Released
  <1>16. CASE Exit(p)
    BY <1>16 DEF Exit, Close
  <1> QED
    BY <1>1, <1>2, <1>3, <1>4, <1>5, <1>6, <1>7, <1>8, <1>9, <1>10, <1>11, <1>12, <1>13, <1>14,
       <1>15, <1>16
    DEF Step

(* No mount serves, and no passwd or compact works, with a key that is no  *)
(* longer the container's: not even a daemon, which uses the password it   *)
(* was given before the fork once more after it.                           *)
THEOREM KeyNeverStale == Spec => []NoStaleKey
  <1>1. Init => NoStaleKey
    <2> SUFFICES ASSUME Init PROVE NoStaleKey
      OBVIOUS
    <2> QED
      BY DEF Init, NoStaleKey, AtWork, Opened, Writes
  <1>2. TypeOK /\ LockInv /\ NoStaleKey /\ [Next]_vars => NoStaleKey'
    <2> SUFFICES ASSUME TypeOK, LockInv, NoStaleKey, [Next]_vars PROVE NoStaleKey'
      OBVIOUS
    <2>1. CASE UNCHANGED vars
      BY <2>1 DEF NoStaleKey, AtWork, Opened, Writes, vars
    <2>2. CASE Next
      BY <2>2, NextStep, StepKeepsKey
    <2> QED
      BY <2>1, <2>2
  <1> QED
    BY <1>1, <1>2, TypeCorrect, LockAlways, PTL DEF Spec

-----------------------------------------------------------------------------
(* Who has the index mapped and not both fcntl locks is a daemon that has  *)
(* just been forked, and so is one whose index was truncated.              *)
IndexInv ==
  /\ \A q \in mapped : q \notin shm \/ held[q] = "none" => pc[q] = "mounted"
  /\ \A q \in reset : pc[q] = "mounted"

LEMMA StepKeepsIndex ==
  ASSUME TypeOK, IndexInv, NEW p \in Proc, Step(p)
  PROVE  IndexInv'
  <1> USE DEF TypeOK, IndexInv, Goto
  <1>1. ASSUME NEW c \in Commands, Lock(p, c) PROVE IndexInv'
    BY <1>1 DEF Lock
  <1>2. ASSUME NEW c \in Commands, StartReading(p, c) PROVE IndexInv'
    BY <1>2 DEF StartReading
  <1>3. CASE AskPassword(p)
    BY <1>3 DEF AskPassword
  <1>4. CASE Open(p)
    BY <1>4 DEF Open, OpenShared
  <1>5. CASE Bind(p)
    BY <1>5 DEF Bind
  <1>6. CASE Mount(p)
    BY <1>6 DEF Mount
  <1>7. CASE CloseOld(p)
    BY <1>7 DEF CloseOld, Close
  <1>8. CASE Reopen(p)
    BY <1>8 DEF Reopen, OpenShared, OpenExclusive
  <1>9. CASE EndSession(p)
    BY <1>9 DEF EndSession
  <1>10. CASE RemoveSocket(p)
    BY <1>10 DEF RemoveSocket
  <1>11. CASE Rekey(p)
    BY <1>11 DEF Rekey
  <1>12. CASE Use(p)
    BY <1>12 DEF Use
  <1>13. CASE Finish(p)
    BY <1>13 DEF Finish, Close, Released
  <1>14. CASE Die(p)
    BY <1>14 DEF Die, Close, Released
  <1>15. CASE Unlock(p)
    BY <1>15 DEF Unlock, Released
  <1>16. CASE Exit(p)
    BY <1>16 DEF Exit, Close
  <1> QED
    BY <1>1, <1>2, <1>3, <1>4, <1>5, <1>6, <1>7, <1>8, <1>9, <1>10, <1>11, <1>12, <1>13, <1>14,
       <1>15, <1>16
    DEF Step

LEMMA IndexAlways == Spec => []IndexInv
  <1>1. Init => IndexInv
    <2> SUFFICES ASSUME Init PROVE IndexInv
      OBVIOUS
    <2> QED
      BY DEF Init, IndexInv
  <1>2. TypeOK /\ IndexInv /\ [Next]_vars => IndexInv'
    <2> SUFFICES ASSUME TypeOK, IndexInv, [Next]_vars PROVE IndexInv'
      OBVIOUS
    <2>1. CASE UNCHANGED vars
      BY <2>1 DEF IndexInv, vars
    <2>2. CASE Next
      BY <2>2, NextStep, StepKeepsIndex
    <2> QED
      BY <2>1, <2>2
  <1> QED
    BY <1>1, <1>2, TypeCorrect, PTL DEF Spec

(* No process goes on with a WAL index that another has truncated because  *)
(* it took itself for the only user of the container.                      *)
THEOREM IndexNeverReset == Spec => []IndexIntact
  <1>1. IndexInv => IndexIntact
    BY DEF IndexInv, IndexIntact
  <1> QED
    BY <1>1, IndexAlways, PTL

LEMMA StepKeepsExclusive ==
  ASSUME TypeOK, LockInv, IndexInv, ExclusiveIsAlone, NEW p \in Proc, Step(p)
  PROVE  ExclusiveIsAlone'
  <1> USE DEF TypeOK, ExclusiveIsAlone, Goto
  <1>1. ASSUME NEW c \in Commands, Lock(p, c) PROVE ExclusiveIsAlone'
    BY <1>1 DEF Lock
  <1>2. ASSUME NEW c \in Commands, StartReading(p, c) PROVE ExclusiveIsAlone'
    BY <1>2 DEF StartReading
  <1>3. CASE AskPassword(p)
    BY <1>3 DEF AskPassword
  <1>4. CASE Open(p)
    BY <1>4 DEF Open, OpenShared, CanShare
  <1>5. CASE Bind(p)
    BY <1>5 DEF Bind
  <1>6. CASE Mount(p)
    BY <1>6 DEF Mount
  <1>7. CASE CloseOld(p)
    BY <1>7 DEF CloseOld, Close
  <1>8. CASE Reopen(p)
    <2>1. CASE OpenExclusive(p) /\ CanExclude(p)
      <3>1. ASSUME NEW q \in Proc \ {p} PROVE held[q] = "none" /\ q \notin mapped
        BY <1>8, <2>1 DEF Reopen, CanExclude, LockInv, Writes, IndexInv
      <3> QED
        BY <1>8, <2>1, <3>1 DEF Reopen, OpenExclusive
    <2>2. CASE OpenShared(p) /\ CanShare(p)
      BY <1>8, <2>2 DEF Reopen, OpenShared, CanShare
    <2> QED
      BY <1>8, <2>1, <2>2 DEF Reopen
  <1>9. CASE EndSession(p)
    BY <1>9 DEF EndSession
  <1>10. CASE RemoveSocket(p)
    BY <1>10 DEF RemoveSocket
  <1>11. CASE Rekey(p)
    BY <1>11 DEF Rekey
  <1>12. CASE Use(p)
    BY <1>12 DEF Use
  <1>13. CASE Finish(p)
    BY <1>13 DEF Finish, Close, Released
  <1>14. CASE Die(p)
    BY <1>14 DEF Die, Close, Released
  <1>15. CASE Unlock(p)
    BY <1>15 DEF Unlock, Released
  <1>16. CASE Exit(p)
    BY <1>16 DEF Exit, Close
  <1> QED
    BY <1>1, <1>2, <1>3, <1>4, <1>5, <1>6, <1>7, <1>8, <1>9, <1>10, <1>11, <1>12, <1>13, <1>14,
       <1>15, <1>16
    DEF Step

(* While a mount holds the container exclusively no other process has it   *)
(* open, and none has the shared index mapped that the mount does not use. *)
THEOREM ExclusiveAlone == Spec => []ExclusiveIsAlone
  <1>1. Init => ExclusiveIsAlone
    <2> SUFFICES ASSUME Init PROVE ExclusiveIsAlone
      OBVIOUS
    <2> QED
      BY DEF Init, ExclusiveIsAlone
  <1>2. TypeOK /\ LockInv /\ IndexInv /\ ExclusiveIsAlone /\ [Next]_vars => ExclusiveIsAlone'
    <2> SUFFICES ASSUME TypeOK, LockInv, IndexInv, ExclusiveIsAlone, [Next]_vars PROVE ExclusiveIsAlone'
      OBVIOUS
    <2>1. CASE UNCHANGED vars
      BY <2>1 DEF ExclusiveIsAlone, vars
    <2>2. CASE Next
      BY <2>2, NextStep, StepKeepsExclusive
    <2> QED
      BY <2>1, <2>2
  <1> QED
    BY <1>1, <1>2, TypeCorrect, LockAlways, IndexAlways, PTL DEF Spec

-----------------------------------------------------------------------------
(* A listening socket is the one at the path, and its mount is under way.  *)
SocketInv ==
  \A q \in server :
    /\ pc[q] \in {"bound", "mounted", "closed", "serving", "ended"}
    /\ socket = q

LEMMA StepKeepsSocket ==
  ASSUME TypeOK, LockInv, SocketInv, NEW p \in Proc, Step(p)
  PROVE  SocketInv'
  <1> USE DEF TypeOK, SocketInv, Goto
  <1>1. ASSUME NEW c \in Commands, Lock(p, c) PROVE SocketInv'
    BY <1>1 DEF Lock
  <1>2. ASSUME NEW c \in Commands, StartReading(p, c) PROVE SocketInv'
    BY <1>2 DEF StartReading
  <1>3. CASE AskPassword(p)
    BY <1>3 DEF AskPassword
  <1>4. CASE Open(p)
    BY <1>4 DEF Open, OpenShared
  <1>5. CASE Bind(p)
    <2>1. lock = p
      BY <1>5 DEF Bind, LockInv, Writes, Commands
    <2>2. server = {}
      <3> SUFFICES ASSUME NEW q \in server PROVE FALSE
        OBVIOUS
      <3>1. lock = q /\ pc[q] # "open"
        BY DEF LockInv
      <3> QED
        BY <1>5, <2>1, <3>1 DEF Bind
    <2> QED
      BY <1>5, <2>2 DEF Bind
  <1>6. CASE Mount(p)
    BY <1>6 DEF Mount
  <1>7. CASE CloseOld(p)
    BY <1>7 DEF CloseOld, Close
  <1>8. CASE Reopen(p)
    BY <1>8 DEF Reopen, LockInv, Writes
  <1>9. CASE EndSession(p)
    BY <1>9 DEF EndSession
  <1>10. CASE RemoveSocket(p)
    BY <1>10 DEF RemoveSocket, LockInv, Writes
  <1>11. CASE Rekey(p)
    BY <1>11 DEF Rekey
  <1>12. CASE Use(p)
    BY <1>12 DEF Use
  <1>13. CASE Finish(p)
    BY <1>13 DEF Finish, Close, Released
  <1>14. CASE Die(p)
    BY <1>14 DEF Die, Close, Released
  <1>15. CASE Unlock(p)
    BY <1>15 DEF Unlock, Released
  <1>16. CASE Exit(p)
    BY <1>16 DEF Exit, Close
  <1> QED
    BY <1>1, <1>2, <1>3, <1>4, <1>5, <1>6, <1>7, <1>8, <1>9, <1>10, <1>11, <1>12, <1>13, <1>14,
       <1>15, <1>16
    DEF Step

LEMMA SocketAlways == Spec => []SocketInv
  <1>1. Init => SocketInv
    <2> SUFFICES ASSUME Init PROVE SocketInv
      OBVIOUS
    <2> QED
      BY DEF Init, SocketInv
  <1>2. TypeOK /\ LockInv /\ SocketInv /\ [Next]_vars => SocketInv'
    <2> SUFFICES ASSUME TypeOK, LockInv, SocketInv, [Next]_vars PROVE SocketInv'
      OBVIOUS
    <2>1. CASE UNCHANGED vars
      BY <2>1 DEF SocketInv, vars
    <2>2. CASE Next
      BY <2>2, NextStep, StepKeepsSocket
    <2> QED
      BY <2>1, <2>2
  <1> QED
    BY <1>1, <1>2, TypeCorrect, LockAlways, PTL DEF Spec

(* A mount that serves backups is found under the name of its socket: no   *)
(* other mount has replaced or removed it.                                 *)
THEOREM SocketNeverLost == Spec => []SocketIsOwn
  <1>1. SocketInv => SocketIsOwn
    BY DEF SocketInv, SocketIsOwn
  <1> QED
    BY <1>1, SocketAlways, PTL

=============================================================================
