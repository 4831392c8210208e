# A specification of cofferFS

cofferFS keeps an encrypted filesystem in one SQLite (SQLCipher) file and
serves it over FUSE. The modules here describe it in TLA+, TLC checks them on
small instances, and the TLA+ proof system proves the most important results
for every value of the constants. Paths are relative to the root of the
repository; the crate is `src/`.

## 1. The system

| Part | Code | State it keeps | Operations |
|---|---|---|---|
| FUSE handlers | `src/fs.rs` | the tables `inodes`, `dentries`, `data`, `xattrs`; a connection behind one mutex | `mkdir create symlink link unlink rmdir rename write setattr setxattr removexattr`, and handlers that read |
| File contents | `src/fs.rs` (`write`, `truncate_inode`, `read`) | rows of `data`, one per 128 KiB block, and `inodes.size` | write, truncate, read |
| Directory scans | `src/fs.rs` (`readdir`) | nothing between two calls: the kernel hands an offset back | one page |
| Container | `src/db.rs` | the file, its `meta` table, its format | create, open, migrate, vacuum, verify a password |
| Locks and daemon | `src/main.rs`, `src/db.rs`, `src/ipc.rs` | flock, SQLite's fcntl locks, the key, the socket's name | mount, daemonize, passwd, compact, check, info |
| Unmounting | `src/main.rs` | what is mounted at a path, FUSE connections | umount, idle timeout, abort |
| Compaction when idle | `src/main.rs` | `last_activity`, the free-list | poll, decide, vacuum |
| Control socket | `src/ipc.rs`, `cmd_backup` | clients, the copy in progress | connect, serve, stepped backup, direct backup |
| Vault registry | `src/config.rs`, `cmd_add`/`cmd_remove` | `~/.coffer/config`, `config.tmp` | load, upsert, remove, save |
| Progress, completions, build, packaging | `progress.rs`, `completions.rs`, `build.rs`, scripts | - | output only |

How they interact: the kernel calls the handlers, one at a time; handlers,
compaction watcher and backup thread share the one connection and its mutex.
The daemon, `passwd` and `compact` exclude each other by an flock on the
container; `check`, `info` and `backup` are readers beside it, or - with
exclusive locking - `backup` asks the daemon through the socket. `coffer
umount` and the idle watcher reach a daemon only through the path of its
mountpoint and the kernel. All commands share the registry file, with no lock
at all.

What is hard about it, part by part, and what makes each correct:

- **Handlers.** A handler is a single transaction, so two handlers do not
  interleave; what can go wrong is a *sequence*. A file handle is an inode
  number, so a request may come for an inode that is gone. A file goes with
  the last of its names. `rename` deletes what it replaces. The ceiling counts
  growth through three handlers. Since `init` asks for
  `FUSE_HANDLE_KILLPRIV_V2`, the kernel leaves it to the handlers to drop
  setuid, setgid and `security.capability`. Correct means: the tables are
  always one tree with all its files, nothing belongs to an inode that is not
  there, the ceiling holds, no privilege survives a change it must not survive.
- **Contents.** Cutting inside a block and growing again must bring nothing
  back. Correct means: a POSIX file.
- **Directory scans.** The directory changes between two pages. Correct means:
  a name that is there throughout is returned, exactly once, and the scan ends.
- **Container.** Neither `create` nor the opening of a container is one
  transaction, `create` takes no lock, `check` takes none either, and older
  versions may have used the file. Correct means: what opens is whole, an
  upgrade loses nothing and can be cut off anywhere, no number is reused.
- **Locks.** Three kinds of lock, one of which does not survive the fork that
  makes the daemon. Correct means: one writer, the right key, no WAL index
  truncated under its user, a mount that is found under its socket.
- **Backup.** A copy taken step by step beside writes, clients that stall or
  vanish. Correct means: one state of the container; everybody is answered.
- **Unmounting.** Three attempts in a row, by a path that others mount at.
  Correct means: success says the truth, nothing still in use is aborted, no
  daemon lives on unseen with its lock.
- **Compaction.** A length read before the mutex is taken. Correct means: it is
  worth it, and none begins over a call that is there.
- **Registry.** Concurrent commands, kills, power losses. Correct means: it is
  replaced whole, and a command changes only its own section.

## 2. The modules

| Module | Models | Extends / instantiates |
|---|---|---|
| `CofferFS` | every handler that changes a table | - |
| `PosixFile` | what a regular file promises | - |
| `FileBlocks` | contents of one file in block rows | `INSTANCE PosixFile` |
| `ReadDir` | one directory scan among other processes | - |
| `Container` | one container file: create, old versions, upgrade, mount, check | - |
| `ContainerLocks` | who has a container open, with which locks, key and socket | - |
| `Snapshot` | what a backup promises | - |
| `OnlineBackup` | the two ways to make one, and the thread that serves the socket | `INSTANCE Snapshot` |
| `Unmount` | one mountpoint, its daemons and who unmounts them | - |
| `CompactOnIdle` | the compaction watcher and the mutex | - |
| `Registry` | the registry file among processes | - |
| `...Proofs` | theorems | the module they are named after |
| `WatcherProofs` | theorems about `Unmount` and `CompactOnIdle` | `Unmount`, `CompactOnIdle` |
| `MC...` | constants and symmetry for TLC | the module they are named after |

Operators named `Bug...` are plausible wrong versions of the definition that
follows them. No action uses one; they are there to show that the properties
would notice.

### CofferFS

Variables are the columns of the tables that decide anything: `kind`, `mode`
(the three bits `kill_priv` looks at), `size`, `dentries` (a function from
parent and name, as its primary key makes it), `blocks` (block numbers stored),
`xattrs` (names), `seq` (the high-water mark of `AUTOINCREMENT`), and `mount`.
`issued`, `modeDue`, `capDue` and `sum` are observers: no action reads them.

One action is one handler with its transaction. A request that is refused rolls
back and is no step, so guards are the handler's early returns; `EROFS` is
`Writable`, `EFBIG` `WithinLimit`, `ENOSPC` `HasRoomFor`, `ENOTEMPTY`
`Removable`, and so on. The ceiling is compared only if `SUM(size)` can be read
(`Ceiling`): a query that fails, or a sum beyond an `i64`, lets the handler go
on, and `sum` remembers that something grew so. What the *kernel* refuses before a handler sees it
(entries in a removed directory, a move of a directory below itself, a write to
what is no regular file) is in the operators `Kernel...`, marked external: the
code relies on it, and so does `AllReachableFromRoot`. Requests on inodes may
name any number ever handed out, which is how a stale handle shows.

Left out: times, owners and groups as values (a chown is an attribute of a
request, what matters is what it makes `setattr` drop), the contents of files
and of attributes, and reading handlers. `Mount` and `Unmount` are single steps:
with WAL a commit that was answered is not lost by killing the daemon, so a kill
is an `Unmount`.

### FileBlocks and PosixFile

`data[b]` is the row of block `b`, `<<>>` for none: a row may be short or
missing, and `size` is kept apart. `Patched` is one turn of the loop in `write`,
`Cut` is `truncate_inode`, `ByteAt`/`Read` the loop in `read`. Whether
`inodes.size` may grow (the ceiling) and whether the inode is still there are
`CofferFS`'s questions. `PosixFile` has the file as a sequence of bytes; the
refinement mapping is what reading the whole file returns.

### ReadDir

A call lists the directory anew, sorted by name behind `.` and `..`, and skips
`offset` entries. `Index` is the position in that list. How many entries
fit in a reply varies with their names, so a page takes any number up to
`PageSize`. Other processes create, rename, unlink, and remove the directory.
`listed`, `twice`, `stable`, `gone` and `come` are observers: what was returned,
what was there throughout, and whether an entry the scan had passed was taken
away or one put among them.

### Container

`Script` is `create_container` statement by statement, each committed by itself;
`creating[c]` is where creator `c` is in it. `create` looks whether the path
exists and takes no lock, so several creators may be at work on one file, and
beside a mount. A container of format 1 is what coffer 0.1.x leaves, with or
without the table `xattrs`; that version is an actor (`Old...`), as the trigger
`xattrs_gc` is there for its sake. `open_db_with` for a writer is
`OpenWritable`, `MigrateToV2` (one transaction, one step) and `AddXattrs` (two
statements); `Serve` and `ServeReadOnly` read the ceiling. `Leave` is the end of
the mount or command, or its death, at any of these points. `coffer check` reads
the version and makes its two counts in separate statements, while all that goes
on. The one writer at a time is `ContainerLocks`'s result.

### ContainerLocks

A process runs `mount` (exclusive or not, daemon or foreground), `passwd`,
`compact`, or a command that reads. `lock` is the flock: it goes with the open
file through the fork. `held` (on the container) and `shm` (on the WAL index)
are SQLite's fcntl locks as the kernel has them: `Mount` of a daemon loses both,
while `mapped` stays, and whoever opens the container in that window takes
itself for the first user and truncates the index (`reset`). `CloseOld` and
`Reopen` are the second connection of `cmd_mount`, with the way back to normal
locking when a reader is there; then the listener is dropped and its file stays
(`Stale`). The guard removes a *name* at the end (`RemoveSocket`), before the
lock is released. A command ends in `Finish`, which closes the connection and
then releases the lock. A mount may end otherwise: the threads that serve the
socket and compact share its connection and are not joined, so `Unlock` releases
the lock as `cmd_mount` returns, and the connection goes only when the process
does (`Exit`). `Die` is a kill or an error anywhere. What SQLite
does is in `CanShare`, `OpenShared`, `CanExclude`, `OpenExclusive`, `Close`.

### OnlineBackup and Snapshot

The container is a sequence of pages. `sqlite3_backup` is `BeginCopy`,
`MoreSteps`, `FinalStep` and `RollBack`; a write through the connection that is
copied from is carried into the pages copied already (`Carried`). A direct
backup copies from the snapshot of its read transaction (`mark`). `Write` is any
handler, or a VACUUM: any image may follow. Clients connect, send, stop reading,
resume and hang up; the daemon's one thread accepts one at a time, reads with a
timeout (after which the client is answered with an error), copies, reports and
replies. A daemon of version 0.2.0 (`mount = "old"`) does not know
`backup-progress` and is asked again with `backup`. Another process may lock the
destination (`LockDest`, `FreeDest`): a step then answers `SQLITE_BUSY` and is
tried again, without end and without a look at the client. `Snapshot` is the promise:
the copy is the container at the moment the backup began or ended, and an
abandoned backup leaves the destination alone.

### Unmount

One mountpoint with a *stack* of mounts. `run_unmount` is `LookUp` (the last of
coffer's own mounts in the table), `Plain`, `Lazy`, `Abort`, and other
processes act between any two of them. It is run by `coffer umount` (`User`) and
by a daemon's own idle watcher (`Watched`), which ends after one attempt. Any
fusermount may be refused, the abort file may be unwritable, daemons may be
killed and then leave a dead mount behind. A daemon ends when its connection is
aborted, or is neither mounted nor has files open on it. What is looked up is a
*number* (`found`), that of an anonymous device. The kernel gives a connection
one that is free (`conn`) and takes it back when the connection is gone, so a
later mount may have the number somebody still goes by; `Abort` then hits that
one (`Behind`). `stacked` and `reused` are observers: some mount has come to lie
over another one; somebody goes by a number that a later mount was given.

### CompactOnIdle

Space is counted in units of which `MinReclaim` are 64 MiB. `touch()` comes
before the mutex, so a call arrives (`Arrive`), gets the mutex (`Enter`) and is
served (`Serve`) in three steps. `Poll` reads the length of the file without the
mutex, `Decide` and `Vacuum` hold it. A commit goes to the log and may or may not
reach the file, so `disk` is behind the pages by any amount; it is ahead of them
after a VACUUM beside a reader, whose checkpoint answers "busy" to nobody and cuts
nothing (`VacuumBesideReader`). `size` may exceed what is stored (holes), `meta` is
what no VACUUM gives back, and a `SUM(size)` that fails counts as 0 (`Decide`).
`reading` is an observer: whether the figures of the last decision were true.

### Registry

A process runs a command: `Load`, `Edit` (the window between the two is long in
`create --save`, which loads the registry before it asks for a password), and
then `save` one system call at a time: `OpenTmp` (create and truncate),
`WriteAll`, `SyncAll`, `Rename`. Files are inodes, as it matters that a process
goes on writing to a file another has renamed. `Kill` ends a process anywhere;
`WriteAll` may leave a part (disk full, killed); `PowerLoss` takes away what was
not synced and may take back a rename, since the directory is not synced.
A text is a sequence of sections; a partial text is cut between two of them.
`together` is an observer: two commands have been under way at once.

## 3. What is checked

The runs together take about eight minutes on two cores.

| Run | Checks | Shows |
|---|---|---|
| `tables` | `TypeOK`, `NoDanglingNames`, `NoUnreachableInodes`, `AllReachableFromRoot`, `NoOrphanRows`, `BlocksWithinSize`, `CeilingRespected`, `InodeNumbersNeverReused` | the tables stay one tree, whatever the order of requests, stale handles included; size limit, block boundaries and - while the sum of the sizes can be read - the ceiling hold |
| `privileges` | `PrivilegesDropped`, `NoOrphanRows` | the KILLPRIV_V2 duty; no attribute for an inode that is gone |
| `file_blocks` | `NoStaleBytes`, `ImplementsPosix` | the rows are a POSIX file |
| `readdir` | `NothingMissed`, `NothingTwice`, `ScanEnds` | a scan ends; it skips only after a removal behind it, repeats only after an insertion behind it |
| `readdir_unlink` | `ScanIsComplete`, **violated** | an unlink between two pages hides a name |
| `container` | `VersionRowIsLast`, `ServedIsWhole`, `NoOrphanAttributes`, `CheckNeverAlarms`, `OpeningKeepsTree`, `NumbersNeverReused`, `CeilingAsCreated` | creates and upgrades that die anywhere, two creators, old versions and `check` beside them |
| `locks` | `OneWriter`, `NoStaleKey`, `IndexIntact`, `ExclusiveIsAlone`, `SocketIsOwn` | the locks do what the comments say, through the fork and deaths |
| `backup` | `ImplementsSnapshot`, `EveryClientAnswered`, `EveryCopyEnds` | a backup is one state of the container; nobody waits for ever on a daemon whose destination is free and whose clients read |
| `unmount` | `AbortOnlyDetached`, `OkMeansUnmounted`, `DetachedDaemonEnds`, `IdleIsUnmounted` | unmounting by path, against everything that may happen at the path |
| `compact` | `VacuumReclaims`, `NoCompactionOverCall`, `FreedSpaceReclaimed` | compaction with a stale reading is worth it, begins over no call, and gives space back |
| `registry` | `TypeOK`, `RewritesWhole`, `OthersKept` | commands that do not overlap are atomic, through kills and a power loss; what a command composes always parses |
| `registry_torn` | `NeverHalfWritten`, **violated** | two commands at once can leave an empty or mixed registry |

What is proved for every value of the constants (section 4) is not repeated in a
run where it adds nothing to the other properties: most type invariants, the
inductive invariants, and `OneNamePerDirectory`,
`OnlyWritableMountsChangeTables`, `CopiedIsCurrent`, `CopyHasClient`.

`find_inconsistencies`, which `coffer check` runs, counts names without an inode
and inodes without a name. `NoDanglingNames` is stronger (the parent must be a
directory that is there), and `AllReachableFromRoot` is a thing those two counts
cannot see: a cycle or an island of directories has names and inodes all around.

### Disagreements with what the repository says

Two are runs that TLC shows violated:

- **`readdir_unlink`** (`src/fs.rs:1160`). An offset counts entries of a list
  that is built anew for each call. When an entry already returned is unlinked,
  the rest move up and the next page skips one that nobody touched. The comment
  at `src/fs.rs:1130` and `tests/integration.sh:530` take the name order to make
  the offset "mean the same thing"; the order is the same, the offset is not.
  POSIX leaves open whether *changed* entries are returned, not the others. The
  tests list directories that do not change. `readdir` shows how far the damage
  goes: only removals hide a name, only insertions repeat one.
- **`registry_torn`** (`src/config.rs:318`). The temporary file has one name for
  all processes. One command opens and truncates it between another's sync and
  rename, so the emptied file becomes the registry and the second command's own
  rename fails. A mix of both texts may have a section twice, which every later
  command refuses to load. `REFERENCE.md:280` says the file is rewritten
  atomically.

The others are behind a condition or an alternative in a property. Each is a
behaviour TLC finds when the condition is taken away:

- *The registry's lost update.* A save writes the registry as this process
  loaded it (`src/main.rs:1245`). A section registered in between is gone,
  against "leaving every other line exactly as it was" (`src/config.rs:21`).
  `OthersKept` therefore speaks of commands that do not overlap (`~together'`).
- *Readers and `passwd`.* A reader takes no container lock, so `passwd` may rekey
  the container under it (`src/db.rs:570-573`, `REFERENCE.md:486-488`).
  `NoStaleKey` is about writers.
- *The idle watcher unmounts by path* (`src/main.rs:672-674`, `689`). If another
  mount has come to lie over its own - the emptiness check of `cmd_mount` passes
  over an empty root - it detaches that one. `OkMeansUnmounted`,
  `AbortOnlyDetached` and `IdleIsUnmounted` exclude `stacked` for this.
- *The watcher tries once* (`src/main.rs:698`, `1003-1006`; `REFERENCE.md:375-378`).
  A refused unmount leaves an idle mount in place for good: `pc = "failed"` in
  `IdleIsUnmounted`.
- *A connection looked up too early* (`src/main.rs:774-778`, `786`). Between look-up
  and lazy unmount the mount may be exchanged for another; the one detached then
  is not the one aborted, and its daemon lives on while files are open, against
  `REFERENCE.md:458-464`. `DetachedDaemonEnds` speaks of the connection looked up.
- *A number that is given out again* (`src/main.rs:834-836`, `933-935`). Between
  the look-up and the abort the connection may go, and the next FUSE mount of
  whomever gets its number. It is aborted in place of the one looked up, mounted
  and in use, against `src/main.rs:837-838` ("never aborts that").
  `AbortOnlyDetached` and `OkMeansUnmounted` exclude `reused` for this.
- *A ceiling that is not hard* (`src/fs.rs:494`, `718`, `887`, `1014`). The check is
  `if let Ok(used) = current_total_size(..)`: where the sum cannot be read, growth
  goes on, against "a hard ceiling" (`REFERENCE.md:22-24`). That takes a damaged
  page, or a ceiling above `i64::MAX`, which `parse_size` accepts, and holes
  enough to take the sum beyond it. `CeilingRespected` speaks of a readable sum
  and a ceiling that an `i64` holds.
- *The lock goes before the connection* (`src/main.rs:507`, `660`, `662`). When
  `cmd_mount` returns, the threads for the socket and for compaction still share
  the connection, and a VACUUM may be under way while the next command has the
  lock, against "two of them can never run against the same container at once"
  (`REFERENCE.md:483-485`). `OneWriter` and `NoStaleKey` end with the command.
- *A copy that waits for ever* (`src/ipc.rs:250`). A step that finds the destination
  locked is repeated without end, and `progress` is not called in between, so
  that a client that hangs up goes unnoticed and the one thread serves nobody.
  `EveryClientAnswered` and `EveryCopyEnds` are on condition (`Attended`) that the
  destination is free in the end and no client stops reading for ever.
- *Compaction that reclaims nothing* (`src/main.rs:745`, against `703-707`). The gap is
  file size minus `SUM(size)`. Where names, inodes and half-filled pages alone
  come to 64 MiB and 10 %, VACUUM cannot close it and every poll of an idle mount
  rewrites the file. `VacuumReclaims` is `MinReclaim - meta` for this. The same
  happens where `SUM(size)` fails and counts as 0 (`src/main.rs:742-744`), and after a
  VACUUM beside a reader, which kept the file from being cut (`src/db.rs:126-128`):
  `VacuumReclaims` excludes both (`reading`).
- *Format 2 without a table for attributes.* A death between the migration's
  commit and `XATTRS_SCHEMA` (`src/db.rs:449`) leaves one, and a read-only mount serves
  it as it is, against `REFERENCE.md:102-104`. `ServedIsWhole` asks for the table
  and its trigger of writable mounts only.
- *A container without its ceiling.* A create that dies between the row
  `schema_version` and the row `max_size` leaves a file that mounts, without a
  limit. `CeilingAsCreated` speaks of creates that reported success.

### Bounds

- `tables`: two names and inode numbers up to 4 (the root and three others):
  enough for a directory within a directory, a rename of either over the other,
  a file with two names, and a number that is deleted while a later one lives.
  Numbers are never reused, so `MaxIno` bounds creations. Blocks of two bytes,
  files up to three, a ceiling of three: one file can fill the container, or two
  together, and a cut falls before, at and inside a block boundary.
- `privileges`: one name, two objects, modes without privileges, with setgid
  alone (mandatory locking, which is kept) and with all; one privileged and one
  ordinary attribute.
- `file_blocks`: blocks of two bytes, files up to six, writes up to four, two
  byte values: a write may cover a block and parts of both neighbours.
- `readdir`: five names, pages of up to two entries: three pages at least, two of
  them behind names that come and go.
- `container`: two creators with different ceilings, two names, four inode
  numbers: a second link, a number freed before the upgrade and one after it.
- `locks`: three processes, two keys: two that exclude each other and a reader,
  or a mount between two others. Processes and keys are symmetric.
- `backup`: containers of one or two pages, copied a page at a time, so that a
  write, growth or shrinking falls between the pages; two clients, of which one
  may wait for the other. No bound on the number of backups, writes or mounts.
- `unmount`: two containers, one with an idle timeout, a foreign file system, one
  `coffer umount`: each may lie over or follow each other. Two numbers for
  connections: one may be kept by open files while the other is given out again.
  No bound on steps.
- `compact`: up to seven units, two of them worth a compaction if they are a
  third of the file, and up to two of overhead, which alone would be worth one.
- `registry`: two processes, two aliases, one value, four commands (two that
  overlap, one before, one after), one power loss; in `registry_torn` three
  commands and none. Inodes are as many as can be in use at once; inodes and
  processes are symmetric.

`CHECK_DEADLOCK FALSE` is set where the system may really stop: a scan ends; the
registry's commands are counted; and a container that a dying create left half
made is refused by everybody, with no process left.

### Fairness

- `ReadDir`: weak fairness of the scanning process's next call. A process that
  reads a directory goes on until an empty reply. Other processes owe nothing.
- `OnlineBackup`: weak fairness of the thread's steps that wait for nobody
  (`Accept`, `CopyStep`, and `ReadRequest`, which has a timeout). `Report` and
  `Reply` wait for a client to read, who may stop again before the thread runs:
  strong fairness, as a blocked write is woken when the buffer drains. A
  suspended client need not be resumed, nor a destination be unlocked, nor must
  anybody send or hang up: that neither lasts for ever is a condition of the two
  properties (`Attended`), as the code can do nothing about it.
- `Unmount`: weak fairness of the kernel ending a connection of one of coffer's
  daemons that it is done with, of
  the watcher's poll, and of an unmount under way. Nobody need ever close a
  file, ask for an unmount, or leave a mount idle.
- `CompactOnIdle`: weak fairness of the handler and of the watcher; strong
  fairness of `Vacuum`, which may fail (no room) or find a reader, but not every
  time. Two assumptions about time are in the guards: a call that waits while
  nobody runs a VACUUM does not wait for the length of the threshold
  (`QuietLongEnough`; not so with a threshold of 0), and one that waits gets the
  mutex while the watcher sleeps, which is for a second at least (`Poll`).

## 4. What is proved

Assumptions are those named `...Assumption` in the modules: bounds are natural
numbers, a block and a page have at least one unit, a mode is a set of mode bits,
names are finitely many, values that stand for "nobody" are nobody's.

| Module | Theorem | Property |
|---|---|---|
| `CofferFSProofs` | `TypeCorrect` | `TypeOK` |
| | `ConsistentAlways` | `Consistent` |
| | `CheckFindsNothing`, `NothingUnreachable` | `NoDanglingNames`, `NoUnreachableInodes` |
| | `NoRowIsOrphaned` | `NoOrphanRows` |
| | `DirectoriesHaveOneName` | `OneNamePerDirectory` |
| | `NumbersNeverReused` | `InodeNumbersNeverReused` |
| | `ReadOnlyKeepsTables` | `OnlyWritableMountsChangeTables` |
| | `NoBlockPastTheEnd` | `BlocksWithinSize` |
| | `PrivilegesAreDropped` | `PrivilegesDropped` |
| | `EverythingReachable` | `AllReachableFromRoot` |
| | `CeilingHolds` | `CeilingRespected` |
| `FileBlocksProofs` | `TypeCorrect`, `NothingStale` | `TypeOK`, `NoStaleBytes` |
| | `BlocksImplementPosix` | `ImplementsPosix` |
| `ReadDirProofs` | `TypeCorrect` | `TypeOK` |
| | `MissesOnlyAfterRemoval` | `NothingMissed` |
| | `RepeatsOnlyAfterInsertion` | `NothingTwice` |
| `ContainerProofs` | `TypeCorrect` | `TypeOK` |
| | `OpensOnlyWhole`, `MountServesWhole` | `VersionRowIsLast`, `ServedIsWhole` |
| | `AttributesGoWithInode` | `NoOrphanAttributes` |
| | `CheckIsQuiet` | `CheckNeverAlarms` |
| | `NumbersUnique`, `UpgradeKeepsTree` | `NumbersNeverReused`, `OpeningKeepsTree` |
| | `CeilingHonoured` | `CeilingAsCreated` |
| `ContainerLocksProofs` | `TypeCorrect` | `TypeOK` |
| | `WritersExcludeEachOther`, `KeyNeverStale` | `OneWriter`, `NoStaleKey` |
| | `IndexNeverReset`, `ExclusiveAlone` | `IndexIntact`, `ExclusiveIsAlone` |
| | `SocketNeverLost` | `SocketIsOwn` |
| `OnlineBackupProofs` | `TypeCorrect` | `TypeOK` |
| | `CopyNeverStale`, `NoCopyLeftOpen` | `CopiedIsCurrent`, `CopyHasClient` |
| | `BackupIsSnapshot` | `ImplementsSnapshot` |
| `WatcherProofs` | `TypeCorrect` | `TypeOK` |
| | `AbortSafe`, `SuccessIsTrue` | `AbortOnlyDetached`, `OkMeansUnmounted` |
| | `SpaceAccounted`, `NoPointlessVacuum` | `CompactTypeOK`, `VacuumReclaims` |
| | `LooksAgain` | `NoCompactionOverCall` |
| `RegistryProofs` | `TypeCorrect` | `TypeOK` |
| | `RegistryIsWhole`, `OtherSectionsKept` | `RewritesWhole`, `OthersKept` |

**The namespace.** None of its properties is inductive alone. That an unlink
leaves no inode without a name needs every name to point at a row; that removing
a directory leaves no dangling name needs it to have one name only, and no
children; that a new number disturbs nothing needs every number in use to be at
most `seq`, and every name to point at a number in use. `Consistent` is their
conjunction, with "the root is a directory" and "nothing is due for a number not
yet issued" and "what has no row has no size". The proof has one lemma for what adds a row (`InsertChild`), one
each for a second name, removal, rename, and one for the handlers that leave
`dentries` alone.

**Induction.** Two definitions of `CofferFS` and one of `Registry` are recursive
functions. To the prover such a function is a `CHOOSE`, so each proof begins by
building one that satisfies the equation (`LevelsExist`, `TotalsExist`,
`KeptExists`), and only then says what it computes. The library's induction rules
take an operator and cannot be instantiated; `SetInduction` says the same of a
*set* of numbers and follows from `WFMin`, that every nonempty set of numbers has
a least one.

**The tree.** `Subtree` walks as many levels as there are inode numbers.
`SubtreeClosed` shows that this is enough: a level either has more members than
the one before or is the last, and there are no more members than numbers.
`SubtreeLeast`: it is the least closed set, so reachability survives a step if
every closed set around the root after it holds all rows (`ReachedAfter`). A new
object is the child of a row. Removal takes away what has no entry under it. For
rename, let a set be closed after it: it holds the new parent, because the path
to that parent does not run through what moves - this is where the kernel's
refusal to move a directory below itself is used - hence what moves, and hence
everything below.

**The ceiling.** `SumFunction` takes its terms in an order of its own choice, the
same for any two functions on the same set; so a sum changes by what its one
changed term does (`SumChange`, by induction on the size of the set). A handler
that grows a file has compared exactly that change with the room left
(`RoomGranted`, `RoomKeepsCeiling`), unless `sum` says that it could not, and the
others let nothing grow. A new object takes a number
without a row, whose size must count as nothing before: the last conjunct of
`Consistent`.

**The blocks.** `PatchedFact` and `CutFact` say, for every position in a block,
which byte the new row has. `ByteAtFact` turns a position in the file into a
block and a position in it (`DivMod`), `WriteByte` and `TruncateByte` lift the
facts about one row to the file. `NoStaleBytes` enters where a file grows: what
lies past the end reads as zero (`ByteBeyondEnd`), which is what `PosixFile`
puts there. Each step then maps to a step of `PosixFile` or to a stutter.

**Scans.** A position is a cardinality, so the lemmas are about counting: adding
an entry moves others up by at most one, removing one down by at most one, and
a page takes the offset past exactly its entries. The invariant adds to
`NothingMissed` two facts about an open scan: while nothing behind the offset was
removed, every stable name not yet returned is still ahead (`StillAhead`); while
nothing was put there, every entry returned, there still or not, has its place
behind the offset (`AllBehind`).

**The container.** `Building`: `CREATE TABLE meta` is won by one creator, and
what that one has passed is in the file - which is why the version row comes
last. `Formats`: how far the holder has got tells the format and the schema, and
no creator is at work on a container of format 1. `Naming`: names and inodes
match, in format 1 one to one. `Numbering`: no number was ever given above the
high-water mark, which the migration carries over.

**The locks.** `LockInv`: a writer past its first step has the flock, until it
returns. From this
one writer follows, and with it that only the holder rekeys. `IndexInv`: whoever
has the index mapped, except a daemon still on its old connection, has the -shm
lock, so that nobody finds it free. `SocketInv`: a listener is the one at the
path, and its mount is under way - it has the flock, so that no other can bind.

**Backups.** While a copy runs, `mark` is the container at its beginning and what
is copied agrees with the container as it is (a daemon's copy) or with `mark` (a
direct one). The last step therefore maps to `Snapshot!End`, every way of giving
up to `Abandon`, and all that happens on the socket to a stutter.

**Unmounting.** `StackInv`: if nothing was ever stacked there is at most one mount
at the path, and what has the number a process in "abort" looked up is not it,
unless that number was given to a later mount: a detach empties the mountpoint,
and a connection keeps its number as long as it lasts (`NumbersKept`).

**Compaction.** The container shrinks by a compaction only, so a reading taken
before the mutex that was no more than the pages stays so (`ReadingInv`).
`ClockInv`: while the watcher waits for the mutex, a call that waits too has been
seen on the clock, which is what the second look finds.

**The registry.** What `retain` keeps is told section by section: `WithoutFact`
(what is left parses and has no section of that name), `WithoutNothing`,
`WithoutSame` (two texts that differ in sections of one name keep the same
others). `UpsertedFact` and `EditFact` follow, and with them that whatever a
command composes parses. `InTurn` is the invariant while commands do not overlap:
one process at most is at work; what `config` names, now and after a power loss,
is on the disk in full; and what the one at work has done so far is in the
temporary file, which nobody else has open. Its text differs from the registry in
its own section only, so the rename goes from one whole text to another. Once two
commands have overlapped the invariant is gone for good, which is what
`together` remembers, and `registry_torn` shows what happens then.

**Only model-checked.** All liveness: `ScanEnds`, `EveryClientAnswered`,
`EveryCopyEnds`, `DetachedDaemonEnds`, `IdleIsUnmounted`,
`FreedSpaceReclaimed`, because the prover does neither fairness nor `ENABLED`. The
two runs that expect a violation have counterexamples, and no theorem.

## 5. What is taken as given

SQLite's transactions are atomic and isolated, its backup carries writes of the
same connection along, and its locks work as described in `ContainerLocks`;
SQLCipher encrypts. FUSE requests reach the handlers one at a time (fuser's
single dispatch loop), and the kernel makes the checks of the `Kernel...`
operators. The connection's mutex is not poisoned.

A statement that fails inside a handler (an I/O error, a damaged page) mostly
drops the transaction and answers `EIO`: no step of the model. Some failures are
passed over instead. Two of them are modelled: the ceiling is skipped
(`src/fs.rs:494`, `718`, `887`, `1014`; `CofferFS!Ceiling`), and the watcher counts
nothing as used (`src/main.rs:742-744`; `CompactOnIdle!Decide`). Three are not, and
what is shown of those parts is shown for a database that can be read: `read`
returns zeros for a block it cannot get (`src/fs.rs:955`; `FileBlocks!ByteAt`),
`readdir` leaves out rows it cannot get (`src/fs.rs:1150`; `ReadDir!Entries`), and
`read_max_size` takes a row it cannot get for no ceiling (`src/db.rs:535-542`;
`Container!StoredLimit`).

## 6. What is not modelled

- Durability: what `synchronous = NORMAL` and a no-op `fsync` may lose of the
  last commits in a power loss is SQLite's WAL recovery, and no code here
  depends on which commits it was.
- The wall clock: idleness is whether the threshold has passed. A clock that
  jumps makes a mount idle too early or too late, which the models allow, but
  for a call that is waiting at that moment (`NoCompactionOverCall`).
- SQLite, SQLCipher, fuser, fusermount, the kernel: modelled only where the code
  leans on them.
- Which locking `auto` chooses for a file system (an input of `ContainerLocks`),
  mount options, log files, the look-up of a vault by name.
- Reading handlers (`getattr`, `statfs`, `getxattr`, ...): no state.
- `progress.rs`, `completions.rs`, `build.rs`, packaging, `setup.sh`: output and
  build steps without state that matters.
- Spelling of registry values (quotes, booleans, `~`), sizes and durations on
  the command line: conversions no property depends on.

## 7. Order of work, and what is left

The modules were written in the order of what they protect: `CofferFS`,
`PosixFile` and `FileBlocks`, `ReadDir`, `Registry`, then `ContainerLocks`,
`OnlineBackup` with `Snapshot`, `Unmount`, `CompactOnIdle`, `Container`, each with
its proofs.

Left: several readers with `passwd` (what a reader sees of a rekeyed container is
SQLCipher's answer); `ContainerLocks` and `Unmount` in one specification, so that
the lock of a detached daemon and the next mount's failure to get it are one
behaviour.
