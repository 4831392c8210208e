--------------------------- MODULE ContainerLocks ---------------------------
(***************************************************************************)
(* Who may use a container, and with which key: src/main.rs (cmd_mount,    *)
(* daemonize, cmd_passwd, cmd_compact and the commands that only read),    *)
(* src/db.rs (lock_exclusive, open_db_with), src/ipc.rs (bind, the guard). *)
(*                                                                         *)
(* Three locks of different nature meet here.  The flock belongs to an     *)
(* open file and goes with it through the fork of the daemon.  SQLite's    *)
(* fcntl locks - on the container, and on the -shm file that says the WAL  *)
(* index is in use - belong to a process and stay behind.  The name of the *)
(* control socket belongs to nobody.                                       *)
(***************************************************************************)
EXTENDS Integers, FiniteSets

CONSTANTS Proc,   \* the processes that run `coffer` commands
          Key,    \* passwords, and the keys they stand for
          Nobody, \* no process
          Stale   \* a socket file nobody listens on

ASSUME ProcAssumption == Nobody \notin Proc /\ Stale \notin Proc /\ Nobody # Stale

VARIABLES pc,     \* process -> how far its command is
          cmd,    \* process -> its command
          pw,     \* process -> the password its connection is keyed with
          key,    \* the key the container is encrypted with
          lock,   \* who has the flock on the container
          held,   \* process -> its fcntl lock on the container, as the kernel has it
          shm,    \* the processes that have the fcntl lock on the -shm file
          mapped, \* the processes that have the WAL index mapped
          reset,  \* those among them whose index another process has truncated
          server, \* the processes that have a listening control socket
          socket  \* the process whose socket is at the path, Nobody, or Stale

vars == <<pc, cmd, pw, key, lock, held, shm, mapped, reset, server, socket>>

(* Read stands for the commands that only read, `info` and `check` (a      *)
(* direct `backup` opens the container in the same way).  A read-only      *)
(* mount locks like one with normal locking.                               *)
Commands == [kind : {"passwd", "compact", "read"}, exclusive : {FALSE}, daemon : {FALSE}]
              \cup [kind : {"mount"}, exclusive : BOOLEAN, daemon : BOOLEAN]

Init ==
  /\ pc = [p \in Proc |-> "idle"]
  /\ cmd \in {[p \in Proc |-> c] : c \in {c \in Commands : c.kind = "read"}}
  /\ key \in Key
  /\ pw = [p \in Proc |-> key]
  /\ lock = Nobody
  /\ held = [p \in Proc |-> "none"]
  /\ shm = {} /\ mapped = {} /\ reset = {}
  /\ server = {} /\ socket = Nobody

-----------------------------------------------------------------------------
(* SQLite, as the code relies on it.  A mutation `Bug...` stands before    *)
(* the definition it is a plausible wrong version of; no action uses one.  *)

(* A connection with normal locking: refused while another holds the       *)
(* container exclusively.  Whoever finds the -shm lock free takes itself   *)
(* for the only user and starts the WAL index anew.                        *)
CanShare(p) == \A q \in Proc \ {p} : held[q] # "exclusive"

OpenShared(p) ==
  /\ held' = [held EXCEPT ![p] = "shared"]
  /\ shm' = shm \cup {p}
  /\ mapped' = mapped \cup {p}
  /\ reset' = IF shm = {} THEN mapped \ {p} ELSE reset \ {p}

(* With locking_mode = EXCLUSIVE the index is in the process's own memory. *)
CanExclude(p) == \A q \in Proc \ {p} : held[q] = "none"

OpenExclusive(p) ==
  /\ held' = [held EXCEPT ![p] = "exclusive"]
  /\ UNCHANGED <<shm, mapped, reset>>

Close(p) ==
  /\ held' = [held EXCEPT ![p] = "none"]
  /\ shm' = shm \ {p}
  /\ mapped' = mapped \ {p}
  /\ reset' = reset \ {p}

-----------------------------------------------------------------------------
Goto(p, l) == pc' = [pc EXCEPT ![p] = l]

BugLock(p, c) ==                                    \* passwd does not lock
  /\ pc[p] = "idle"
  /\ c.kind \in {"mount", "passwd", "compact"}
  /\ \/ c.kind = "passwd" /\ UNCHANGED lock
     \/ c.kind # "passwd" /\ lock = Nobody /\ lock' = p
  /\ cmd' = [cmd EXCEPT ![p] = c]
  /\ Goto(p, "locked")
  /\ UNCHANGED <<pw, key, held, shm, mapped, reset, server, socket>>

(* lock_exclusive, without waiting, ahead of everything else. *)
Lock(p, c) ==
  /\ pc[p] = "idle"
  /\ c.kind \in {"mount", "passwd", "compact"}
  /\ lock = Nobody
  /\ lock' = p
  /\ cmd' = [cmd EXCEPT ![p] = c]
  /\ Goto(p, "locked")
  /\ UNCHANGED <<pw, key, held, shm, mapped, reset, server, socket>>

AskPassword(p) ==
  /\ pc[p] = "locked"
  /\ \E k \in Key : pw' = [pw EXCEPT ![p] = k]
  /\ Goto(p, "asked")
  /\ UNCHANGED <<cmd, key, lock, held, shm, mapped, reset, server, socket>>

(* info, check, backup: a password and no lock. *)
StartReading(p, c) ==
  /\ pc[p] = "idle"
  /\ c.kind = "read"
  /\ cmd' = [cmd EXCEPT ![p] = c]
  /\ \E k \in Key : pw' = [pw EXCEPT ![p] = k]
  /\ Goto(p, "asked")
  /\ UNCHANGED <<key, lock, held, shm, mapped, reset, server, socket>>

(* open_db: it reads the schema version, which takes the right key.  A     *)
(* mount opens normally first, however it will lock.                       *)
Open(p) ==
  /\ pc[p] = "asked"
  /\ pw[p] = key
  /\ CanShare(p)
  /\ OpenShared(p)
  /\ Goto(p, "open")
  /\ UNCHANGED <<cmd, pw, key, lock, server, socket>>

(* ipc::bind, for an exclusive mount: whatever is at the path is taken to  *)
(* be stale.  The mount goes on without a socket if there cannot be one.   *)
Bind(p) ==
  /\ pc[p] = "open"
  /\ cmd[p].exclusive
  /\ \/ socket' = p /\ server' = server \cup {p}
     \/ UNCHANGED <<socket, server>>
  /\ Goto(p, "bound")
  /\ UNCHANGED <<cmd, pw, key, lock, held, shm, mapped, reset>>

BugMount(p) ==                                      \* the flock stays behind, too
  /\ cmd[p].kind = "mount"
  /\ pc[p] = (IF cmd[p].exclusive THEN "bound" ELSE "open")
  /\ Goto(p, IF cmd[p].exclusive \/ cmd[p].daemon THEN "mounted" ELSE "serving")
  /\ IF cmd[p].daemon
       THEN held' = [held EXCEPT ![p] = "none"] /\ shm' = shm \ {p} /\ lock' = Nobody
       ELSE UNCHANGED <<held, shm, lock>>
  /\ UNCHANGED <<cmd, pw, key, mapped, reset, server, socket>>

BugMountKeeps(p) ==                                 \* serves what it opened before the fork
  /\ cmd[p].kind = "mount"
  /\ pc[p] = (IF cmd[p].exclusive THEN "bound" ELSE "open")
  /\ Goto(p, IF cmd[p].exclusive THEN "mounted" ELSE "serving")
  /\ IF cmd[p].daemon THEN held' = [held EXCEPT ![p] = "none"] /\ shm' = shm \ {p}
                      ELSE UNCHANGED <<held, shm>>
  /\ UNCHANGED <<cmd, pw, key, lock, mapped, reset, server, socket>>

(* Session::new, and daemonize unless in the foreground.  The parent of    *)
(* the fork leaves, with it the fcntl locks; what is mapped stays mapped.  *)
(* A daemon and an exclusive mount need a connection of their own.         *)
Mount(p) ==
  /\ cmd[p].kind = "mount"
  /\ pc[p] = (IF cmd[p].exclusive THEN "bound" ELSE "open")
  /\ Goto(p, IF cmd[p].exclusive \/ cmd[p].daemon THEN "mounted" ELSE "serving")
  /\ IF cmd[p].daemon THEN held' = [held EXCEPT ![p] = "none"] /\ shm' = shm \ {p}
                      ELSE UNCHANGED <<held, shm>>
  /\ UNCHANGED <<cmd, pw, key, lock, mapped, reset, server, socket>>

(* The old connection goes first, the new one follows. *)
CloseOld(p) ==
  /\ pc[p] = "mounted"
  /\ Close(p)
  /\ Goto(p, "closed")
  /\ UNCHANGED <<cmd, pw, key, lock, server, socket>>

BugReopen(p) ==                                     \* as if the lock were known to be free
  /\ pc[p] = "closed"
  /\ pw[p] = key
  /\ IF cmd[p].exclusive THEN OpenExclusive(p) ELSE CanShare(p) /\ OpenShared(p)
  /\ UNCHANGED <<server, socket>>
  /\ Goto(p, "serving")
  /\ UNCHANGED <<cmd, pw, key, lock>>

(* If the container cannot be had exclusively - a reader has it open - the *)
(* mount goes on with normal locking.  Then it drops its listener, and the *)
(* file stays behind.                                                      *)
Reopen(p) ==
  /\ pc[p] = "closed"
  /\ pw[p] = key
  /\ \/ /\ cmd[p].exclusive /\ CanExclude(p)
        /\ OpenExclusive(p)
        /\ UNCHANGED <<server, socket>>
     \/ /\ ~(cmd[p].exclusive /\ CanExclude(p))
        /\ CanShare(p)
        /\ OpenShared(p)
        /\ server' = server \ {p}
        /\ socket' = IF p \in server THEN Stale ELSE socket
  /\ Goto(p, "serving")
  /\ UNCHANGED <<cmd, pw, key, lock>>

BugEndSession(p) ==                                 \* the socket's guard is dropped last
  /\ pc[p] = "serving"
  /\ Goto(p, "ended")
  /\ Close(p)
  /\ lock' = Nobody
  /\ UNCHANGED <<cmd, pw, key, server, socket>>

(* session.run returns. *)
EndSession(p) ==
  /\ pc[p] = "serving"
  /\ Goto(p, "ended")
  /\ UNCHANGED <<cmd, pw, key, lock, held, shm, mapped, reset, server, socket>>

(* The guard is dropped before the lock, and removes the name. *)
RemoveSocket(p) ==
  /\ pc[p] = "ended"
  /\ socket' = IF p \in server THEN Nobody ELSE socket
  /\ server' = server \ {p}
  /\ Goto(p, "done")
  /\ UNCHANGED <<cmd, pw, key, lock, held, shm, mapped, reset>>

(* passwd: PRAGMA rekey. *)
Rekey(p) ==
  /\ pc[p] = "open"
  /\ cmd[p].kind = "passwd"
  /\ \E k \in Key : key' = k /\ pw' = [pw EXCEPT ![p] = k]
  /\ Goto(p, "done")
  /\ UNCHANGED <<cmd, lock, held, shm, mapped, reset, server, socket>>

(* compact has vacuumed, a reader has read. *)
Use(p) ==
  /\ pc[p] = "open"
  /\ cmd[p].kind \in {"compact", "read"}
  /\ Goto(p, "done")
  /\ UNCHANGED <<cmd, pw, key, lock, held, shm, mapped, reset, server, socket>>

Released(p) == IF lock = p THEN Nobody ELSE lock

(* The command ends: the connection is closed, then the lock.  So does a   *)
(* mount whose session had the connection to itself.                       *)
Finish(p) ==
  /\ pc[p] = "done"
  /\ Close(p)
  /\ lock' = Released(p)
  /\ Goto(p, "idle")
  /\ UNCHANGED <<cmd, pw, key, server, socket>>

(* The threads that serve the socket and compact when idle share the       *)
(* connection of a mount and are not joined: cmd_mount returns, with it    *)
(* goes the lock, and the connection lives until the process exits.        *)
Unlock(p) ==
  /\ pc[p] = "done"
  /\ cmd[p].kind = "mount"
  /\ lock' = Released(p)
  /\ Goto(p, "exiting")
  /\ UNCHANGED <<cmd, pw, key, held, shm, mapped, reset, server, socket>>

Exit(p) ==
  /\ pc[p] = "exiting"
  /\ Close(p)
  /\ Goto(p, "idle")
  /\ UNCHANGED <<cmd, pw, key, lock, server, socket>>

(* Killed, or ended by an error anywhere: a wrong password, a container    *)
(* held exclusively, a mount(2) that fails.  The kernel releases what the  *)
(* process had, nobody removes its socket.                                 *)
Die(p) ==
  /\ pc[p] # "idle"
  /\ Close(p)
  /\ lock' = Released(p)
  /\ server' = server \ {p}
  /\ socket' = IF socket = p THEN Stale ELSE socket
  /\ Goto(p, "idle")
  /\ UNCHANGED <<cmd, pw, key>>

Next ==
  \E p \in Proc :
    \/ \E c \in Commands : Lock(p, c) \/ StartReading(p, c)
    \/ AskPassword(p) \/ Open(p) \/ Bind(p) \/ Mount(p) \/ CloseOld(p) \/ Reopen(p)
    \/ EndSession(p) \/ RemoveSocket(p) \/ Rekey(p) \/ Use(p)
    \/ Finish(p) \/ Unlock(p) \/ Exit(p) \/ Die(p)

Spec == Init /\ [][Next]_vars

-----------------------------------------------------------------------------
Labels == {"idle", "locked", "asked", "open", "bound", "mounted", "closed", "serving",
           "ended", "done", "exiting"}

TypeOK ==
  /\ pc \in [Proc -> Labels]
  /\ cmd \in [Proc -> Commands]
  /\ pw \in [Proc -> Key]
  /\ key \in Key
  /\ lock \in Proc \cup {Nobody}
  /\ held \in [Proc -> {"none", "shared", "exclusive"}]
  /\ shm \subseteq mapped /\ mapped \subseteq Proc /\ reset \subseteq mapped
  /\ server \subseteq Proc
  /\ socket \in Proc \cup {Nobody, Stale}

(* A process past the opening of its connection. *)
Opened(p) == pc[p] \notin {"idle", "locked", "asked"}
Writes(p) == cmd[p].kind # "read"

(* A mount, passwd or compact at work: the container open, and the command *)
(* not yet returned.                                                       *)
AtWork(p) == Opened(p) /\ Writes(p) /\ pc[p] # "exiting"

(* No two of mount, passwd and compact are at work on the container at the *)
(* same time.  REFERENCE.md: "two of them can never run against the same   *)
(* container at once".  That is more than the code does: a mount that has  *)
(* unlocked and not yet exited may still have a VACUUM under way beside    *)
(* the next writer, where only SQLite's locks keep them apart.             *)
OneWriter == \A p, q \in Proc : AtWork(p) /\ AtWork(q) => p = q

(* A mount never serves with a key the container no longer has: the        *)
(* password asked for before the fork still opens it after, and nothing    *)
(* rekeys the container under a live connection of a writer.  main.rs: "a  *)
(* connection that could otherwise end up stale".  The connection of a     *)
(* mount that has unlocked and is about to exit serves nobody.             *)
NoStaleKey == \A p \in Proc : AtWork(p) => pw[p] = key

(* No process works on a WAL index another has truncated: the "daemon dies *)
(* of SIGBUS at its next write" of main.rs.  The one connection that may   *)
(* be so is that of a daemon that has not yet replaced it.                 *)
IndexIntact == \A p \in reset : pc[p] = "mounted"

(* An exclusive mount has its index to itself, so nobody else may be       *)
(* reading through the shared one.                                         *)
ExclusiveIsAlone ==
  \A p \in Proc : held[p] = "exclusive" =>
    \A q \in Proc \ {p} : held[q] = "none" /\ q \notin mapped

(* A serving mount is found under its socket's name: the end of an earlier *)
(* mount removes only its own.  ipc.rs: "a live daemon for this container  *)
(* would hold lock_exclusive(), which the caller holds now".               *)
SocketIsOwn == \A p \in server : pc[p] \in {"bound", "mounted", "closed", "serving"} => socket = p

=============================================================================
