------------------------------ MODULE Registry ------------------------------
(***************************************************************************)
(* The vault registry ~/.coffer/config (src/config.rs) and the commands    *)
(* that rewrite it: `add`, `remove`, `mount --save` and `create --save`.   *)
(* Each is a process of its own; nothing locks the registry or the one     *)
(* temporary file they all write to.  A process may be killed between any  *)
(* two steps, and the machine may lose power.                              *)
(*                                                                         *)
(* A text is a sequence of cells - the header comment or a whole section - *)
(* so a text that is cut short is cut between two sections.                *)
(***************************************************************************)
EXTENDS Integers, Sequences

CONSTANTS Proc,         \* the processes
          Alias,        \* the names of sections
          Value,        \* what a section says, positive
          Inode,        \* the files of the directory, written or renamed
          Header,       \* the comment in front of the sections
          MaxCommands,  \* bound: how many commands are started
          MaxBoots      \* bound: how often the power fails

None == 0
ASSUME ValueAssumption == None \notin Value
ASSUME InodeAssumption == None \notin Inode
ASSUME HeaderAssumption == Header \notin Alias
ASSUME BoundAssumption == MaxCommands \in Nat /\ MaxBoots \in Nat

VARIABLES proc,         \* the processes: program counter, arguments, locals
          file,         \* inode -> its text, as a reader sees it
          synced,       \* inode -> its text when it was last synced
          config,       \* the inode named `config`, or None
          configOnDisk, \* the inode `config` names after a power loss
          tmp,          \* the inode named `config.tmp`, or None
          started,      \* the commands so far
          boots,        \* the power losses so far
          \* Observer, read by no action:
          together      \* two commands have been under way at once

vars == <<proc, file, synced, config, configOnDisk, tmp, started, boots, together>>

HeaderCell == [name |-> Header, value |-> None]
Cells == {HeaderCell} \cup [name : Alias, value : Value]

Idle == [pc |-> "idle", alias |-> Header, value |-> None, text |-> <<>>, fd |-> None]

Init ==
  /\ proc = [p \in Proc |-> Idle]
  /\ file = [i \in Inode |-> <<>>]
  /\ synced = file
  /\ config = None
  /\ configOnDisk = None
  /\ tmp = None
  /\ started = 0
  /\ boots = 0
  /\ together = FALSE

-----------------------------------------------------------------------------
(* load_from: a registry that is not there yet is the header alone. *)
RegistryText == IF config = None THEN <<HeaderCell>> ELSE file[config]

(* parse refuses a duplicate section. *)
Parses(text) == \A i, j \in 1..Len(text) : text[i].name = text[j].name => i = j

(* A mutation `Bug...` stands before the definition it is a plausible      *)
(* wrong version of; no action uses one.                                   *)
BugUpsertedAppended(text, cell) == Append(text, cell)

BugUpsertedLast(text, cell) ==                      \* last_mut, not find
  IF \E i \in 1..Len(text) : text[i].name = cell.name
  THEN [text EXCEPT ![Len(text)] = cell]
  ELSE Append(text, cell)

Upserted(text, cell) ==
  IF \E i \in 1..Len(text) : text[i].name = cell.name
  THEN [i \in 1..Len(text) |-> IF text[i].name = cell.name THEN cell ELSE text[i]]
  ELSE Append(text, cell)

(* retain, section by section. *)
Without(text, a) ==
  LET kept[i \in 0..Len(text)] ==
        IF i = 0 THEN <<>>
        ELSE IF text[i].name # a THEN Append(kept[i - 1], text[i]) ELSE kept[i - 1]
  IN  kept[Len(text)]

(* Config::load; `value` None asks for a removal.  A text that does not    *)
(* parse is reported, and nothing done.                                    *)
Load(p) ==
  /\ proc[p].pc = "idle"
  /\ started < MaxCommands
  /\ started' = started + 1
  /\ Parses(RegistryText)
  /\ \E a \in Alias, v \in Value \cup {None} :
       proc' = [proc EXCEPT ![p] = [Idle EXCEPT !.pc = "loaded", !.alias = a, !.value = v,
                                                !.text = RegistryText]]
  /\ together' = (together \/ \E q \in Proc \ {p} : proc[q].pc # "idle")
  /\ UNCHANGED <<file, synced, config, configOnDisk, tmp, boots>>

(* cmd_add and cmd_remove, on the registry as it was loaded: create --save *)
(* asks for a password and makes the container in between.                 *)
Edit(p) ==
  /\ proc[p].pc = "loaded"
  /\ LET q == proc[p]
         cell == [name |-> q.alias, value |-> q.value]
     IN  proc' = [proc EXCEPT ![p] =
           IF q.value # None
             THEN [q EXCEPT !.pc = "edited", !.text = Upserted(q.text, cell)]
           ELSE IF Without(q.text, q.alias) # q.text
             THEN [q EXCEPT !.pc = "edited", !.text = Without(q.text, q.alias)]
           ELSE Idle]                               \* no registered vault
  /\ UNCHANGED <<file, synced, config, configOnDisk, tmp, started, boots, together>>

-----------------------------------------------------------------------------
(* Config::save, one step per system call.                                 *)
InUse == {config, configOnDisk, tmp} \cup {proc[p].fd : p \in Proc}

(* A file without a name that no process has open is gone. *)
Kept(texts) == [i \in Inode |-> IF i \in InUse' THEN texts[i] ELSE <<>>]

OpenTmp(p) ==
  /\ proc[p].pc = "edited"
  /\ \E i \in IF tmp = None THEN Inode \ InUse ELSE {tmp} :
       /\ tmp' = i
       /\ file' = [file EXCEPT ![i] = <<>>]
       /\ proc' = [proc EXCEPT ![p].pc = "open", ![p].fd = i]
  /\ UNCHANGED <<synced, config, configOnDisk, started, boots, together>>

(* The first n cells of a text, written over the start of a file. *)
Overwritten(old, text, n) ==
  [k \in 1..(IF Len(old) < n THEN n ELSE Len(old)) |-> IF k <= n THEN text[k] ELSE old[k]]

(* write_all is one write(2): it writes all, or the disk is full or the    *)
(* process killed and a part of the text is left in the file.              *)
WriteAll(p) ==
  LET q == proc[p]
  IN  /\ q.pc = "open"
      /\ UNCHANGED <<config, configOnDisk, tmp, started, boots, together>>
      /\ \E n \in 0..Len(q.text) :
           /\ proc' = [proc EXCEPT ![p] = IF n = Len(q.text) THEN [q EXCEPT !.pc = "written"] ELSE Idle]
           /\ file' = Kept([file EXCEPT ![q.fd] = Overwritten(@, q.text, n)])
           /\ synced' = Kept(synced)

BugSyncAll(p) ==                                    \* no sync_all
  /\ proc[p].pc = "written"
  /\ proc' = [proc EXCEPT ![p].pc = "synced", ![p].fd = None]
  /\ UNCHANGED <<config, configOnDisk, tmp, started, boots, together>>
  /\ file' = Kept(file)
  /\ synced' = Kept(synced)

SyncAll(p) ==
  /\ proc[p].pc = "written"
  /\ proc' = [proc EXCEPT ![p].pc = "synced", ![p].fd = None]
  /\ UNCHANGED <<config, configOnDisk, tmp, started, boots, together>>
  /\ file' = Kept(file)
  /\ synced' = Kept([synced EXCEPT ![proc[p].fd] = file[proc[p].fd]])

(* The directory is not synced: whether the disk has the new name yet is   *)
(* anyone's guess.                                                         *)
Rename(p) ==
  /\ proc[p].pc = "synced"
  /\ tmp # None
  /\ config' = tmp
  /\ configOnDisk' \in {configOnDisk, tmp}
  /\ tmp' = None
  /\ proc' = [proc EXCEPT ![p] = Idle]
  /\ UNCHANGED <<started, boots, together>>
  /\ file' = Kept(file)
  /\ synced' = Kept(synced)

(* Another process has renamed the temporary file meanwhile. *)
RenameFails(p) ==
  /\ proc[p].pc = "synced"
  /\ tmp = None
  /\ proc' = [proc EXCEPT ![p] = Idle]
  /\ UNCHANGED <<file, synced, config, configOnDisk, tmp, started, boots, together>>

(* Killed: the temporary file stays. *)
Kill(p) ==
  /\ proc[p].pc # "idle"
  /\ proc' = [proc EXCEPT ![p] = Idle]
  /\ UNCHANGED <<config, configOnDisk, tmp, started, boots, together>>
  /\ file' = Kept(file)
  /\ synced' = Kept(synced)

(* Files that were not synced may lose what was written since. *)
PowerLoss ==
  /\ boots < MaxBoots
  /\ boots' = boots + 1
  /\ proc' = [p \in Proc |-> Idle]
  /\ config' \in {config, configOnDisk}
  /\ configOnDisk' = config'
  /\ tmp' \in {tmp, None}
  /\ \E lost \in SUBSET {i \in Inode : file[i] # synced[i]} :
       file' = Kept([i \in Inode |-> IF i \in lost THEN synced[i] ELSE file[i]])
  /\ synced' = file'
  /\ UNCHANGED <<started, together>>

Next ==
  \/ \E p \in Proc : \/ Load(p) \/ Edit(p)
                     \/ OpenTmp(p) \/ WriteAll(p) \/ SyncAll(p) \/ Rename(p) \/ RenameFails(p)
                     \/ Kill(p)
  \/ PowerLoss

Spec == Init /\ [][Next]_vars

-----------------------------------------------------------------------------
Texts == {t \in Seq(Cells) : Parses(t)}

TypeOK ==
  /\ proc \in [Proc -> [pc : {"idle", "loaded", "edited", "open", "written", "synced"},
                        alias : Alias \cup {Header}, value : Value \cup {None},
                        text : Texts, fd : Inode \cup {None}]]
  /\ \A p \in Proc : /\ proc[p].pc \in {"open", "written"} <=> proc[p].fd # None
                     /\ proc[p].pc # "idle" => proc[p].alias \in Alias
  /\ file \in [Inode -> Seq(Cells)] /\ synced \in [Inode -> Seq(Cells)]
  /\ {config, configOnDisk, tmp} \subseteq Inode \cup {None}
  /\ tmp # None => tmp \notin {config, configOnDisk}
  /\ started \in 0..MaxCommands
  /\ boots \in 0..MaxBoots
  /\ together \in BOOLEAN

TextOnDisk == IF configOnDisk = None THEN <<HeaderCell>> ELSE file[configOnDisk]

(* The text of the registry changes only from one whole text to the whole  *)
(* text a command has composed, or back when the power fails.              *)
Whole ==
  RegistryText' # RegistryText =>
    \/ \E p \in Proc : proc[p].pc = "synced" /\ RegistryText' = proc[p].text
    \/ boots' # boots /\ RegistryText' = TextOnDisk

(* A command that puts its text in place leaves every section but its own  *)
(* as it found it, in its place.                                           *)
OthersUntouched ==
  \A p \in Proc :
    /\ proc[p].pc = "synced"
    /\ RegistryText' # RegistryText
    /\ RegistryText' = proc[p].text
    => Without(RegistryText', proc[p].alias) = Without(RegistryText, proc[p].alias)

(* While commands run one after the other - killed between any two steps,  *)
(* with a full disk, over the temporary file a killed one has left, and    *)
(* with a power loss - the registry is rewritten as a whole.               *)
RewritesWhole == [][~together' => Whole]_vars

(* And a command then rewrites its own section only.  config.rs: "`coffer  *)
(* add` / `coffer remove` rewrite one section while leaving every other    *)
(* line [...] exactly as it was".                                          *)
OthersKept == [][~together' => OthersUntouched]_vars

(* config.rs claims it of any two commands: "written via a temp file +     *)
(* rename, so a crash mid-write can never leave a half-written registry    *)
(* behind".                                                                *)
NeverHalfWritten == [][Whole]_vars

=============================================================================
