------------------------------ MODULE ReadDir ------------------------------
(***************************************************************************)
(* One scan of a directory through readdir() of src/fs.rs, in pages, while *)
(* other processes create, rename and unlink names in it.                  *)
(*                                                                         *)
(* The kernel asks for a page with the offset the last entry of the page   *)
(* before was given.  The handler keeps nothing between two calls: it      *)
(* lists the directory again, in name order behind `.` and `..`, and an    *)
(* offset is nothing but the number of entries to skip in that list.       *)
(***************************************************************************)
EXTENDS Integers, FiniteSets

CONSTANTS Name,    \* the names, numbered in the order SQLite sorts them
          PageSize \* bound: the most entries one reply buffer holds

ASSUME NameAssumption     == Name \subseteq Nat \ {0} /\ IsFiniteSet(Name)
ASSUME PageSizeAssumption == PageSize \in Nat \ {0}

VARIABLES names,   \* the directory's rows of `dentries`
          exists,  \* the directory itself has not been removed
          offset,  \* where the scan goes on
          scan,    \* "open", "done", or "failed" with ENOENT
          \* Observers, read by no action:
          listed,  \* the entries the scan has returned
          twice,   \* those it has returned more than once
          stable,  \* the names present since the scan began
          gone,    \* an entry before the offset has been removed
          come     \* an entry has appeared before the offset

observers == <<listed, twice, stable, gone, come>>
vars == <<names, exists, offset, scan, observers>>

Dot == -1
DotDot == 0

Init ==
  /\ names \in SUBSET Name
  /\ stable = names
  /\ exists = TRUE
  /\ offset = 0
  /\ scan = "open"
  /\ listed = {}
  /\ twice = {}
  /\ gone = FALSE
  /\ come = FALSE

-----------------------------------------------------------------------------
(* The list a call builds, and where an entry stands in it.                *)
Entries == {Dot, DotDot} \cup names

Index(e) == Cardinality({m \in Entries : m <= e})

(* A mutation `Bug...` stands before the definition it is a plausible      *)
(* wrong version of; no action uses one.                                   *)
BugPageRefused(n) ==                     \* the entry that did not fit is lost
  {e \in Entries : offset + 1 < Index(e) /\ Index(e) <= offset + n}

BugPageFromDots(n) ==                    \* the dots are not counted
  {e \in Entries : offset - 2 < Index(e) /\ Index(e) <= offset + n}

(* What fits of the entries from the offset on, when n of them fit. *)
Page(n) == {e \in Entries : offset < Index(e) /\ Index(e) <= offset + n}

BugNextOffset(page) == offset + Cardinality(page) - 1    \* i, not i + 1

(* The offset the last entry of the page is sent with: its index plus one. *)
NextOffset(page) == offset + Cardinality(page)

(* readdir(): an empty reply ends the scan.  How many entries fit depends  *)
(* on how long their names are; one always does.                           *)
Readdir ==
  /\ scan = "open"
  /\ exists
  /\ \E n \in 1..PageSize :
       LET page == Page(n)
       IN  \/ /\ page = {}
              /\ scan' = "done"
              /\ UNCHANGED <<offset, listed, twice>>
           \/ /\ page # {}
              /\ offset' = NextOffset(page)
              /\ listed' = listed \cup page
              /\ twice' = twice \cup (listed \cap page)
              /\ UNCHANGED scan
  /\ UNCHANGED <<names, exists, stable, gone, come>>

(* The parent of a directory that is gone cannot be found. *)
ReaddirGone ==
  /\ scan = "open"
  /\ ~exists
  /\ scan' = "failed"
  /\ UNCHANGED <<names, exists, offset, observers>>

-----------------------------------------------------------------------------
(* What other processes do to the directory in between.                    *)
Appear(a) ==
  /\ exists
  /\ a \notin names
  /\ names' = names \cup {a}
  /\ come' = (come \/ Index(a)' <= offset)
  /\ UNCHANGED <<exists, offset, scan, listed, twice, stable, gone>>

Vanish(a) ==
  /\ exists
  /\ a \in names
  /\ names' = names \ {a}
  /\ stable' = stable \ {a}
  /\ gone' = (gone \/ Index(a) <= offset)
  /\ UNCHANGED <<exists, offset, scan, listed, twice, come>>

(* The name b is new, or its row is replaced. *)
RenameWithin(a, b) ==
  /\ exists
  /\ a \in names
  /\ b # a
  /\ names' = (names \ {a}) \cup {b}
  /\ stable' = stable \ {a}
  /\ gone' = (gone \/ Index(a) <= offset)
  /\ come' = (come \/ (b \notin names /\ Index(b)' <= offset))
  /\ UNCHANGED <<exists, offset, scan, listed, twice>>

Rmdir ==
  /\ exists
  /\ names = {}                          \* ENOTEMPTY
  /\ exists' = FALSE
  /\ UNCHANGED <<names, offset, scan, observers>>

Others ==
  \/ \E a \in Name : Appear(a) \/ Vanish(a)
  \/ \E a, b \in Name : RenameWithin(a, b)
  \/ Rmdir

Scan == Readdir \/ ReaddirGone

Next == Scan \/ (scan = "open" /\ Others)

Spec == Init /\ [][Next]_vars

(* The scanning process goes on asking until the reply is empty. *)
FairSpec == Spec /\ WF_vars(Scan)

-----------------------------------------------------------------------------
TypeOK ==
  /\ names \in SUBSET Name
  /\ exists \in BOOLEAN
  /\ offset \in 0..(Cardinality(Name) + 2)
  /\ scan \in {"open", "done", "failed"}
  /\ listed \in SUBSET ({Dot, DotDot} \cup Name)
  /\ twice \in SUBSET listed
  /\ stable \in SUBSET names
  /\ gone \in BOOLEAN
  /\ come \in BOOLEAN

(* A finished scan has returned every name that was in the directory from  *)
(* its first call to its last, unless an entry it had passed was removed   *)
(* meanwhile.  Names that come make it return one twice, never skip one.   *)
NothingMissed == scan = "done" /\ ~gone => stable \subseteq listed

(* A scan returns no name twice, unless one appeared among the entries it  *)
(* had passed.  Names that go, those already returned included, and names  *)
(* that come back, make it skip one, never repeat one.                     *)
NothingTwice == ~come => twice = {}

(* What "readdir can be called again with an offset and get the same       *)
(* order" (fs.rs) promises the caller: a finished scan has returned every  *)
(* name that was there throughout, whatever else happened.                 *)
ScanIsComplete == scan = "done" => stable \subseteq listed

(* The offset grows with every page, while other processes put in and take *)
(* out names of which there are finitely many: the scan ends - in an empty *)
(* reply, or with ENOENT.  New names without end could keep it going.      *)
ScanEnds == <>(scan # "open")

=============================================================================
