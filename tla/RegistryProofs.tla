--------------------------- MODULE RegistryProofs ---------------------------
(***************************************************************************)
(* What the commands that rewrite the registry do to it, for any number of *)
(* processes, aliases, files, commands and power losses.  What `retain`    *)
(* keeps is shown by induction over the sections of a text.  The argument  *)
(* for the last two theorems: while commands run one after the other, the  *)
(* one at work has config.tmp to itself, and what `config` names is on the *)
(* disk already, so the rename moves from one whole text to another.       *)
(***************************************************************************)
EXTENDS Registry, WellFoundedInduction, TLAPS

(* Induction on the natural numbers for a set: the form that needs no      *)
(* operator parameter.                                                     *)
LEMMA SetInduction ==
  ASSUME NEW S, 0 \in S, \A n \in Nat : n \in S => n + 1 \in S
  PROVE  Nat \subseteq S
<1> DEFINE T == Nat \ S
           R == {ss \in Nat \X Nat : ss[1] < ss[2]}
<1>1. SUFFICES ASSUME T # {} PROVE FALSE
  OBVIOUS
<1>2. IsWellFoundedOn(R, Nat)
  BY NatLessThanWellFounded, Zenon DEF OpToRel
<1>3. T \subseteq Nat
  OBVIOUS
<1> HIDE DEF R
<1>4. PICK x \in T : \A y \in T : ~(<<y, x>> \in R)
  BY <1>1, <1>2, <1>3, WFMin
<1>5. \A y \in T : ~(y < x)
  BY <1>4 DEF R
<1>6. x # 0 /\ x - 1 \in Nat /\ x - 1 \notin T
  BY <1>5
<1>7. (x - 1) + 1 \in S
  BY <1>6
<1> QED BY <1>6, <1>7

-----------------------------------------------------------------------------
(* The recursive function inside Without, as an equation of its own. *)
IsKept(kept, text, a, n) ==
  kept = [i \in 0..n |->
            IF i = 0 THEN <<>>
            ELSE IF text[i].name # a THEN Append(kept[i - 1], text[i]) ELSE kept[i - 1]]

(* Without is what is kept of all sections. *)
LEMMA WithoutIsKept ==
  ASSUME NEW text, NEW a
  PROVE  Without(text, a) = (CHOOSE kept : IsKept(kept, text, a, Len(text)))[Len(text)]
  BY Zenon DEF Without, IsKept

(* What is kept exists, section by section. *)
LEMMA KeptExists ==
  ASSUME NEW text, NEW a, NEW len \in Nat
  PROVE  \E kept : IsKept(kept, text, a, len)
<1> DEFINE S == {n \in Nat : \E kept : IsKept(kept, text, a, n)}
           Then(k, old) == IF text[k].name # a THEN Append(old, text[k]) ELSE old
<1>1. 0 \in S
  <2> DEFINE one == [i \in 0..0 |-> <<>>]
  <2>1. IsKept(one, text, a, 0)
    BY DEF IsKept
  <2> QED BY <2>1
<1>2. ASSUME NEW n \in Nat, n \in S PROVE n + 1 \in S
  <2>1. PICK kept : IsKept(kept, text, a, n)
    BY <1>2
  <2>2. \A i \in 0..n : kept[i] = IF i = 0 THEN <<>> ELSE Then(i, kept[i - 1])
    BY <2>1 DEF IsKept
  <2> HIDE DEF Then
  <2> DEFINE more == [i \in 0..(n + 1) |-> IF i = n + 1 THEN Then(i, kept[n]) ELSE kept[i]]
  <2>3. \A i \in 0..n : more[i] = kept[i]
    OBVIOUS
  <2>4. more[n + 1] = Then(n + 1, kept[n])
    OBVIOUS
  <2>5. ASSUME NEW i \in 0..(n + 1)
        PROVE  more[i] = IF i = 0 THEN <<>> ELSE Then(i, more[i - 1])
    <3> HIDE DEF more
    <3>1. CASE i = 0
      <4>1. 0 \in 0..n
        OBVIOUS
      <4> QED BY <3>1, <4>1, <2>2, <2>3
    <3>2. CASE i = n + 1
      <4>1. i - 1 = n /\ n \in 0..n /\ i # 0
        BY <3>2
      <4> QED BY <3>2, <4>1, <2>3, <2>4
    <3>3. CASE i # 0 /\ i # n + 1
      <4>1. i \in 0..n /\ i - 1 \in 0..n
        BY <3>3
      <4> QED BY <3>3, <4>1, <2>2, <2>3
    <3> QED BY <3>1, <3>2, <3>3
  <2>6. more = [i \in 0..(n + 1) |-> more[i]]
    OBVIOUS
  <2> HIDE DEF more
  <2>7. more = [i \in 0..(n + 1) |-> IF i = 0 THEN <<>> ELSE Then(i, more[i - 1])]
    BY <2>5, <2>6
  <2>8. IsKept(more, text, a, n + 1)
    BY <2>7 DEF IsKept, Then
  <2>9. \E l : IsKept(l, text, a, n + 1)
    BY <2>8
  <2> QED BY <2>9
<1> HIDE DEF S
<1>3. Nat \subseteq S
  BY <1>1, <1>2, SetInduction
<1> QED BY <1>3 DEF S

(* The recursion Without stands for, equation by equation. *)
LEMMA WithoutSteps ==
  ASSUME NEW text \in Seq(Cells), NEW a
  PROVE  \E kept :
           /\ Without(text, a) = kept[Len(text)]
           /\ kept[0] = <<>>
           /\ \A k \in 1..Len(text) :
                kept[k] = IF text[k].name # a THEN Append(kept[k - 1], text[k]) ELSE kept[k - 1]
<1> DEFINE kept == CHOOSE f : IsKept(f, text, a, Len(text))
<1>0. Len(text) \in Nat
  OBVIOUS
<1>1. IsKept(kept, text, a, Len(text))
  BY <1>0, KeptExists
<1>2. Without(text, a) = kept[Len(text)]
  BY WithoutIsKept
<1> HIDE DEF kept
<1>3. \A k \in 0..Len(text) :
        kept[k] = IF k = 0 THEN <<>>
                  ELSE IF text[k].name # a THEN Append(kept[k - 1], text[k]) ELSE kept[k - 1]
  BY <1>1 DEF IsKept
<1>4. 0 \in 0..Len(text) /\ \A k \in 1..Len(text) : k \in 0..Len(text) /\ k # 0
  BY <1>0
<1>5. kept[0] = <<>>
  BY <1>3, <1>4
<1>6. \A k \in 1..Len(text) :
        kept[k] = IF text[k].name # a THEN Append(kept[k - 1], text[k]) ELSE kept[k - 1]
  BY <1>3, <1>4
<1> QED BY <1>2, <1>5, <1>6

(* What is kept are sections of the text, none of them called a. *)
LEMMA WithoutFact ==
  ASSUME NEW text \in Texts, NEW a
  PROVE  /\ Without(text, a) \in Texts
         /\ \A j \in 1..Len(Without(text, a)) : Without(text, a)[j].name # a
<1>0. text \in Seq(Cells) /\ Parses(text) /\ Len(text) \in Nat
  BY DEF Texts
<1>1. PICK kept :
        /\ Without(text, a) = kept[Len(text)]
        /\ kept[0] = <<>>
        /\ \A k \in 1..Len(text) :
             kept[k] = IF text[k].name # a THEN Append(kept[k - 1], text[k]) ELSE kept[k - 1]
  BY <1>0, WithoutSteps
<1> DEFINE Of(s, n) == \A j \in 1..Len(s) : s[j].name # a /\ \E k \in 1..n : s[j] = text[k]
           Good == {n \in Nat : n <= Len(text) =>
                      /\ kept[n] \in Seq(Cells) /\ Parses(kept[n])
                      /\ Of(kept[n], n)}
<1>2. 0 \in Good
  <2> DEFINE s == kept[0]
  <2>1. s \in Seq(Cells) /\ Len(s) = 0
    BY <1>1
  <2> HIDE DEF s
  <2>2. Parses(s) /\ Of(s, 0)
    BY <2>1 DEF Parses
  <2> QED BY <2>1, <2>2 DEF s
<1>3. ASSUME NEW n \in Nat, n \in Good PROVE n + 1 \in Good
  <2> SUFFICES ASSUME n + 1 <= Len(text)
               PROVE  /\ kept[n + 1] \in Seq(Cells) /\ Parses(kept[n + 1])
                      /\ Of(kept[n + 1], n + 1)
    OBVIOUS
  <2>1. PICK k \in 1..Len(text) : k = n + 1 /\ k - 1 = n
    BY <1>0
  <2> DEFINE s == kept[n]
             c == text[k]
  <2>2. kept[k] = IF c.name # a THEN Append(s, c) ELSE s
    BY <1>1, <2>1
  <2>3. s \in Seq(Cells) /\ Parses(s) /\ Of(s, n)
    BY <1>0, <1>3
  <2>4. c \in Cells
    BY <1>0
  <2>5. \A j \in 1..n : j \in 1..Len(text) /\ j # k /\ text[j].name # c.name
    BY <1>0, <2>1 DEF Parses
  <2>6. Of(s, k)
    BY <2>1, <2>3
  <2> HIDE DEF s, c
  <2>7. CASE c.name = a
    BY <2>1, <2>2, <2>3, <2>6, <2>7
  <2>8. CASE c.name # a
    <3> DEFINE u == Append(s, c)
    <3>1. u \in Seq(Cells) /\ Len(s) \in Nat /\ Len(u) = Len(s) + 1
      BY <2>3, <2>4
    <3>2. \A j \in 1..Len(u) : u[j] = IF j = Len(s) + 1 THEN c ELSE s[j]
      BY <2>3, <2>4
    <3>3. \A j \in 1..Len(u) : j # Len(s) + 1 => j \in 1..Len(s)
      BY <3>1
    <3> HIDE DEF u
    <3>4. \A j \in 1..Len(s) : s[j].name # c.name
      BY <2>3, <2>5
    <3>5. Parses(u)
      BY <2>3, <3>2, <3>3, <3>4 DEF Parses
    <3>6. Of(u, k)
      <4> SUFFICES ASSUME NEW j \in 1..Len(u)
                   PROVE  u[j].name # a /\ \E m \in 1..k : u[j] = text[m]
        OBVIOUS
      <4>1. CASE j = Len(s) + 1
        BY <2>1, <2>8, <3>2, <4>1 DEF c
      <4>2. CASE j # Len(s) + 1
        BY <2>6, <3>2, <3>3, <4>2
      <4> QED BY <4>1, <4>2
    <3>7. kept[k] = u
      BY <2>2, <2>8 DEF u
    <3> QED BY <2>1, <3>1, <3>5, <3>6, <3>7
  <2> QED BY <2>7, <2>8
<1> HIDE DEF Good
<1>4. Nat \subseteq Good
  BY <1>2, <1>3, SetInduction
<1>5. /\ kept[Len(text)] \in Seq(Cells) /\ Parses(kept[Len(text)])
      /\ Of(kept[Len(text)], Len(text))
  BY <1>0, <1>4 DEF Good
<1> QED BY <1>1, <1>5 DEF Texts

(* Where nothing is called a, all is kept. *)
LEMMA WithoutNothing ==
  ASSUME NEW text \in Seq(Cells), NEW a, \A k \in 1..Len(text) : text[k].name # a
  PROVE  Without(text, a) = text
<1>0. Len(text) \in Nat
  OBVIOUS
<1>1. PICK kept :
        /\ Without(text, a) = kept[Len(text)]
        /\ kept[0] = <<>>
        /\ \A k \in 1..Len(text) :
             kept[k] = IF text[k].name # a THEN Append(kept[k - 1], text[k]) ELSE kept[k - 1]
  BY WithoutSteps
<1> DEFINE Good == {n \in Nat : n <= Len(text) =>
                      /\ kept[n] \in Seq(Cells) /\ Len(kept[n]) = n
                      /\ \A j \in 1..n : kept[n][j] = text[j]}
<1>2. 0 \in Good
  <2> DEFINE s == kept[0]
  <2>1. s \in Seq(Cells) /\ Len(s) = 0
    BY <1>1
  <2> HIDE DEF s
  <2>2. \A j \in 1..0 : s[j] = text[j]
    OBVIOUS
  <2> QED BY <2>1, <2>2 DEF s
<1>3. ASSUME NEW n \in Nat, n \in Good PROVE n + 1 \in Good
  <2> SUFFICES ASSUME n + 1 <= Len(text)
               PROVE  /\ kept[n + 1] \in Seq(Cells) /\ Len(kept[n + 1]) = n + 1
                      /\ \A j \in 1..(n + 1) : kept[n + 1][j] = text[j]
    OBVIOUS
  <2>1. PICK k \in 1..Len(text) : k = n + 1 /\ k - 1 = n
    BY <1>0
  <2> DEFINE s == kept[n]
  <2>2. kept[k] = Append(s, text[k])
    BY <1>1, <2>1
  <2>3. s \in Seq(Cells) /\ Len(s) = n /\ \A j \in 1..n : s[j] = text[j]
    BY <1>0, <1>3
  <2>4. text[k] \in Cells
    OBVIOUS
  <2> HIDE DEF s
  <2> QED BY <2>1, <2>2, <2>3, <2>4
<1> HIDE DEF Good
<1>4. Nat \subseteq Good
  BY <1>2, <1>3, SetInduction
<1> DEFINE u == kept[Len(text)]
<1>5. u \in Seq(Cells) /\ Len(u) = Len(text) /\ \A j \in 1..Len(text) : u[j] = text[j]
  BY <1>0, <1>4 DEF Good
<1> HIDE DEF u
<1>6. u = text
  BY <1>5
<1> QED BY <1>1, <1>6 DEF u

(* Two texts that agree but for the sections called a keep the same. *)
LEMMA WithoutSame ==
  ASSUME NEW t \in Seq(Cells), NEW u \in Seq(Cells), NEW a, Len(t) <= Len(u),
         \A k \in 1..Len(t) : /\ t[k].name = a <=> u[k].name = a
                              /\ t[k].name # a => u[k] = t[k],
         \A k \in 1..Len(u) : k > Len(t) => u[k].name = a
  PROVE  Without(u, a) = Without(t, a)
<1>0. Len(t) \in Nat /\ Len(u) \in Nat
  OBVIOUS
<1>1. PICK f :
        /\ Without(t, a) = f[Len(t)]
        /\ f[0] = <<>>
        /\ \A k \in 1..Len(t) :
             f[k] = IF t[k].name # a THEN Append(f[k - 1], t[k]) ELSE f[k - 1]
  BY WithoutSteps
<1>2. PICK g :
        /\ Without(u, a) = g[Len(u)]
        /\ g[0] = <<>>
        /\ \A k \in 1..Len(u) :
             g[k] = IF u[k].name # a THEN Append(g[k - 1], u[k]) ELSE g[k - 1]
  BY WithoutSteps
<1> DEFINE Good == {n \in Nat : n <= Len(u) => g[n] = IF n <= Len(t) THEN f[n] ELSE f[Len(t)]}
<1>3. 0 \in Good
  BY <1>0, <1>1, <1>2
<1>4. ASSUME NEW n \in Nat, n \in Good PROVE n + 1 \in Good
  <2> SUFFICES ASSUME n + 1 <= Len(u)
               PROVE  g[n + 1] = IF n + 1 <= Len(t) THEN f[n + 1] ELSE f[Len(t)]
    OBVIOUS
  <2>1. PICK k \in 1..Len(u) : k = n + 1 /\ k - 1 = n
    BY <1>0
  <2>2. g[n] = IF n <= Len(t) THEN f[n] ELSE f[Len(t)]
    BY <1>0, <1>4
  <2>3. g[k] = IF u[k].name # a THEN Append(g[n], u[k]) ELSE g[n]
    BY <1>2, <2>1
  <2>4. CASE k <= Len(t)
    <3>1. k \in 1..Len(t) /\ n <= Len(t)
      BY <1>0, <2>1, <2>4
    <3>2. f[k] = IF t[k].name # a THEN Append(f[n], t[k]) ELSE f[n]
      BY <1>1, <2>1, <3>1
    <3>3. g[k] = f[k]
      BY <2>2, <2>3, <3>1, <3>2
    <3> QED BY <2>1, <2>4, <3>3
  <2>5. CASE ~(k <= Len(t))
    <3>1. u[k].name = a /\ k > Len(t)
      BY <1>0, <2>5
    <3>2. g[k] = g[n]
      BY <2>3, <3>1
    <3>3. g[n] = f[Len(t)]
      BY <1>0, <2>1, <2>2, <3>1
    <3> QED BY <2>1, <2>5, <3>2, <3>3
  <2> QED BY <2>4, <2>5
<1> HIDE DEF Good
<1>5. Nat \subseteq Good
  BY <1>3, <1>4, SetInduction
<1>6. g[Len(u)] = IF Len(u) <= Len(t) THEN f[Len(t)] ELSE f[Len(t)]
  <2>1. g[Len(u)] = IF Len(u) <= Len(t) THEN f[Len(u)] ELSE f[Len(t)]
    BY <1>0, <1>5 DEF Good
  <2>2. Len(u) <= Len(t) => Len(u) = Len(t)
    BY <1>0
  <2> QED BY <2>1, <2>2
<1> QED BY <1>1, <1>2, <1>6

(* upsert keeps a text well formed and every section but its own. *)
LEMMA UpsertedFact ==
  ASSUME NEW text \in Texts, NEW cell \in Cells
  PROVE  /\ Upserted(text, cell) \in Texts
         /\ Without(Upserted(text, cell), cell.name) = Without(text, cell.name)
<1> DEFINE u == Upserted(text, cell)
           a == cell.name
<1>0. text \in Seq(Cells) /\ Parses(text) /\ Len(text) \in Nat
  BY DEF Texts
<1>1. CASE \E i \in 1..Len(text) : text[i].name = a
  <2>1. u = [i \in 1..Len(text) |-> IF text[i].name = a THEN cell ELSE text[i]]
    BY <1>1 DEF Upserted
  <2>2. u \in Seq(Cells) /\ Len(u) = Len(text)
    <3>1. \A i \in 1..Len(text) : text[i] \in Cells
      BY <1>0
    <3> QED BY <1>0, <2>1, <3>1
  <2>3. \A i \in 1..Len(text) : u[i] = IF text[i].name = a THEN cell ELSE text[i]
    BY <2>1
  <2> HIDE DEF u
  <2>4. \A i \in 1..Len(text) : u[i].name = text[i].name
    BY <2>3
  <2>5. Parses(u)
    BY <1>0, <2>2, <2>4 DEF Parses
  <2>6. Without(u, a) = Without(text, a)
    <3>1. /\ Len(text) <= Len(u)
          /\ \A k \in 1..Len(text) : /\ text[k].name = a <=> u[k].name = a
                                     /\ text[k].name # a => u[k] = text[k]
          /\ \A k \in 1..Len(u) : k > Len(text) => u[k].name = a
      BY <1>0, <2>2, <2>3, <2>4
    <3> HIDE DEF a
    <3> QED BY <1>0, <2>2, <3>1, WithoutSame
  <2> QED BY <2>2, <2>5, <2>6 DEF u, Texts
<1>2. CASE ~\E i \in 1..Len(text) : text[i].name = a
  <2>1. u = Append(text, cell)
    BY <1>2 DEF Upserted
  <2>2. u \in Seq(Cells) /\ Len(u) = Len(text) + 1
    BY <1>0, <2>1
  <2>3. \A i \in 1..Len(u) : u[i] = IF i = Len(text) + 1 THEN cell ELSE text[i]
    BY <1>0, <2>1
  <2>4. \A i \in 1..Len(u) : i # Len(text) + 1 => i \in 1..Len(text)
    BY <1>0, <2>2
  <2> HIDE DEF u
  <2>5. Parses(u)
    BY <1>0, <1>2, <2>3, <2>4 DEF Parses
  <2>6. Without(u, a) = Without(text, a)
    <3>1. /\ Len(text) <= Len(u)
          /\ \A k \in 1..Len(text) : /\ text[k].name = a <=> u[k].name = a
                                     /\ text[k].name # a => u[k] = text[k]
          /\ \A k \in 1..Len(u) : k > Len(text) => u[k].name = a
      BY <1>0, <2>2, <2>3, <2>4
    <3> HIDE DEF a
    <3> QED BY <1>0, <2>2, <3>1, WithoutSame
  <2> QED BY <2>2, <2>5, <2>6 DEF u, Texts
<1> QED BY <1>1, <1>2

-----------------------------------------------------------------------------
(* The type, but for the one Boolean. *)
ProcType == [pc : {"idle", "loaded", "edited", "open", "written", "synced"},
             alias : Alias \cup {Header}, value : Value \cup {None},
             text : Texts, fd : Inode \cup {None}]

Underway(q) == /\ q.pc \in {"open", "written"} <=> q.fd # None
               /\ q.pc # "idle" => q.alias \in Alias

Files == [Inode -> Seq(Cells)]

NameType == /\ {config, configOnDisk, tmp} \subseteq Inode \cup {None}
            /\ tmp # None => tmp \notin {config, configOnDisk}

CountType == started \in 0..MaxCommands /\ boots \in 0..MaxBoots

ProcsType == proc \in [Proc -> ProcType] /\ \A p \in Proc : Underway(proc[p])

(* TypeOK, part by part. *)
LEMMA TypeParts ==
  TypeOK <=> ProcsType /\ file \in Files /\ synced \in Files /\ NameType /\ CountType
             /\ together \in BOOLEAN
  BY Zenon DEF TypeOK, ProcsType, ProcType, Underway, Files, NameType, CountType

(* The texts there are: the empty one, the header, and what load reads. *)
LEMMA EmptyText == <<>> \in Texts /\ <<HeaderCell>> \in Texts
<1>1. <<>> \in Seq(Cells) /\ Len(<<>>) = 0
  OBVIOUS
<1>2. HeaderCell \in Cells
  BY DEF Cells
<1>3. <<HeaderCell>> \in Seq(Cells) /\ Len(<<HeaderCell>>) = 1
  BY <1>2
<1> DEFINE s == <<>>
           t == <<HeaderCell>>
<1> HIDE DEF s, t
<1>4. Parses(s) /\ Parses(t)
  <2>1. Len(s) = 0 /\ Len(t) = 1
    BY <1>1, <1>3 DEF s, t
  <2> QED BY <2>1 DEF Parses
<1> QED BY <1>1, <1>3, <1>4 DEF s, t, Texts

(* A process that is not at work. *)
LEMMA IdleFact == Idle \in ProcType /\ Underway(Idle) /\ Idle.pc = "idle"
  BY EmptyText DEF Idle, ProcType, Underway, None

(* One process changes, the others stay. *)
LEMMA OneProc ==
  ASSUME ProcsType, NEW p \in Proc, NEW q \in ProcType, Underway(q),
         proc' = [proc EXCEPT ![p] = q]
  PROVE  ProcsType'
  BY DEF ProcsType, Underway

(* A file is overwritten with sections only. *)
LEMMA OverwrittenType ==
  ASSUME NEW old \in Seq(Cells), NEW text \in Seq(Cells), NEW n \in 0..Len(text)
  PROVE  Overwritten(old, text, n) \in Seq(Cells)
<1>1. Len(old) \in Nat /\ Len(text) \in Nat
  OBVIOUS
<1>2. PICK m \in Nat : m = IF Len(old) < n THEN n ELSE Len(old)
  BY <1>1
<1>3. \A k \in 1..m : (IF k <= n THEN text[k] ELSE old[k]) \in Cells
  BY <1>1, <1>2
<1>4. [k \in 1..m |-> IF k <= n THEN text[k] ELSE old[k]] \in Seq(Cells)
  BY <1>3
<1> QED BY <1>2, <1>4 DEF Overwritten

(* The command at its section: cmd_add or cmd_remove, on what it has loaded. *)
LEMMA EditFact ==
  ASSUME NEW q \in ProcType, q.pc = "loaded", Underway(q), NEW r,
         LET cell == [name |-> q.alias, value |-> q.value]
         IN  r = IF q.value # None
                   THEN [q EXCEPT !.pc = "edited", !.text = Upserted(q.text, cell)]
                 ELSE IF Without(q.text, q.alias) # q.text
                   THEN [q EXCEPT !.pc = "edited", !.text = Without(q.text, q.alias)]
                 ELSE Idle
  PROVE  /\ r \in ProcType /\ Underway(r)
         /\ \/ r = Idle
            \/ /\ r.pc = "edited" /\ r.alias = q.alias
               /\ Without(r.text, q.alias) = Without(q.text, q.alias)
<1> DEFINE cell == [name |-> q.alias, value |-> q.value]
           ups == Upserted(q.text, cell)
           rest == Without(q.text, q.alias)
<1>1. q.text \in Texts /\ q.alias \in Alias /\ q.value \in Value \cup {None} /\ q.fd = None
  BY DEF ProcType, Underway
<1>2. CASE q.value # None
  <2>1. cell \in Cells /\ cell.name = q.alias
    BY <1>1, <1>2 DEF Cells
  <2>2. r = [q EXCEPT !.pc = "edited", !.text = ups]
    BY <1>2
  <2> HIDE DEF cell
  <2>3. ups \in Texts /\ Without(ups, q.alias) = Without(q.text, q.alias)
    BY <1>1, <2>1, UpsertedFact
  <2> HIDE DEF ups
  <2>4. r \in ProcType /\ r.pc = "edited" /\ r.alias = q.alias /\ r.text = ups /\ r.fd = None
    BY <1>1, <2>2, <2>3 DEF ProcType
  <2> QED BY <1>1, <2>3, <2>4 DEF Underway
<1>3. CASE q.value = None /\ rest # q.text
  <2>1. r = [q EXCEPT !.pc = "edited", !.text = rest]
    BY <1>3
  <2>2. rest \in Texts /\ \A j \in 1..Len(rest) : rest[j].name # q.alias
    BY <1>1, WithoutFact
  <2>3. Without(rest, q.alias) = rest
    <3> HIDE DEF rest
    <3> QED BY <2>2, WithoutNothing DEF Texts
  <2>4. r \in ProcType /\ r.pc = "edited" /\ r.alias = q.alias /\ r.text = rest /\ r.fd = None
    <3> HIDE DEF rest
    <3> QED BY <1>1, <2>1, <2>2 DEF ProcType
  <2> QED BY <1>1, <2>3, <2>4 DEF Underway
<1>4. CASE q.value = None /\ rest = q.text
  <2>1. r = Idle
    BY <1>4
  <2> QED BY <2>1, IdleFact
<1> QED BY <1>2, <1>3, <1>4

(* What Config::load reads is a text, parseable or not. *)
LEMMA RegistryTextType ==
  ASSUME file \in Files, NameType
  PROVE  RegistryText \in Seq(Cells)
<1>1. <<HeaderCell>> \in Seq(Cells)
  BY EmptyText DEF Texts
<1> QED BY <1>1 DEF RegistryText, Files, NameType

(* TypeOK but for the Boolean, which needs another prover. *)
Typed == ProcsType /\ file \in Files /\ synced \in Files /\ NameType /\ CountType

(* One step keeps the types: one case per system call and failure. *)
LEMMA TypedStep ==
  ASSUME Typed, [Next]_vars
  PROVE  Typed'
<1>0. ProcsType /\ file \in Files /\ synced \in Files /\ NameType /\ CountType
  BY DEF Typed
<1>a. \A p \in Proc : proc[p] \in ProcType /\ Underway(proc[p])
  BY <1>0 DEF ProcsType
<1>b. <<>> \in Seq(Cells)
  OBVIOUS
<1>c. \A f \in Files : Kept(f) \in Files
  BY <1>b DEF Kept, Files
<1>1. ASSUME NEW p \in Proc, Load(p) PROVE Typed'
  <2>1. PICK a \in Alias, v \in Value \cup {None} :
          proc' = [proc EXCEPT ![p] = [Idle EXCEPT !.pc = "loaded", !.alias = a, !.value = v,
                                                   !.text = RegistryText]]
    BY <1>1 DEF Load
  <2> DEFINE q == [Idle EXCEPT !.pc = "loaded", !.alias = a, !.value = v, !.text = RegistryText]
  <2>2. RegistryText \in Texts
    BY <1>0, <1>1, RegistryTextType DEF Load, Texts
  <2>3. q \in ProcType /\ Underway(q)
    BY <2>2 DEF Idle, ProcType, Underway
  <2>4. ProcsType'
    <3> HIDE DEF q
    <3>1. proc' = [proc EXCEPT ![p] = q]
      BY <2>1 DEF q
    <3> QED BY <1>0, <2>3, <3>1, OneProc
  <2>5. started' \in 0..MaxCommands /\ boots' = boots
    BY <1>0, <1>1, BoundAssumption DEF Load, CountType
  <2> QED BY <1>0, <1>1, <2>4, <2>5 DEF Typed, Load, NameType, CountType
<1>2. ASSUME NEW p \in Proc, Edit(p) PROVE Typed'
  <2>1. PICK r \in ProcType : Underway(r) /\ proc' = [proc EXCEPT ![p] = r]
    BY <1>a, <1>2, EditFact DEF Edit
  <2>2. ProcsType'
    BY <1>0, <2>1, OneProc
  <2> QED BY <1>0, <1>2, <2>2 DEF Typed, Edit, NameType, CountType
<1>3. ASSUME NEW p \in Proc, OpenTmp(p) PROVE Typed'
  <2>1. PICK i \in IF tmp = None THEN Inode \ InUse ELSE {tmp} :
          /\ tmp' = i
          /\ file' = [file EXCEPT ![i] = <<>>]
          /\ proc' = [proc EXCEPT ![p].pc = "open", ![p].fd = i]
    BY <1>3 DEF OpenTmp
  <2>2. i \in Inode /\ i # None
    BY <1>0, <2>1, InodeAssumption DEF NameType
  <2>3. i \notin {config, configOnDisk}
    BY <1>0, <2>1 DEF NameType, InUse
  <2> DEFINE q == [proc[p] EXCEPT !.pc = "open", !.fd = i]
  <2>4. q \in ProcType /\ Underway(q)
    BY <1>3, <1>a, <2>2 DEF ProcType, Underway, OpenTmp
  <2>5. proc' = [proc EXCEPT ![p] = q]
    BY <1>0, <2>1 DEF ProcsType
  <2>6. ProcsType'
    <3> HIDE DEF q
    <3> QED BY <1>0, <2>4, <2>5, OneProc
  <2>7. file' \in Files
    BY <1>0, <1>b, <2>1 DEF Files
  <2>8. NameType'
    BY <1>0, <1>3, <2>1, <2>2, <2>3 DEF NameType, OpenTmp
  <2> QED BY <1>0, <1>3, <2>6, <2>7, <2>8 DEF Typed, OpenTmp, CountType
<1>4. ASSUME NEW p \in Proc, WriteAll(p) PROVE Typed'
  <2> DEFINE q == proc[p]
  <2>1. PICK n \in 0..Len(q.text) :
          /\ proc' = [proc EXCEPT ![p] = IF n = Len(q.text) THEN [q EXCEPT !.pc = "written"] ELSE Idle]
          /\ file' = Kept([file EXCEPT ![q.fd] = Overwritten(@, q.text, n)])
          /\ synced' = Kept(synced)
    BY <1>4 DEF WriteAll
  <2>2. q \in ProcType /\ Underway(q) /\ q.pc = "open"
    BY <1>4, <1>a DEF WriteAll
  <2> HIDE DEF q
  <2>3. [q EXCEPT !.pc = "written"] \in ProcType /\ Underway([q EXCEPT !.pc = "written"])
    BY <2>2 DEF ProcType, Underway
  <2>4. ProcsType'
    BY <1>0, <2>1, <2>3, IdleFact, OneProc
  <2>5. [file EXCEPT ![q.fd] = Overwritten(@, q.text, n)] \in Files
    <3>1. q.fd \in Inode /\ q.text \in Seq(Cells)
      BY <2>2 DEF ProcType, Underway, Texts
    <3>2. Overwritten(file[q.fd], q.text, n) \in Seq(Cells)
      BY <1>0, <3>1, OverwrittenType DEF Files
    <3> QED BY <1>0, <3>2 DEF Files
  <2>6. file' \in Files /\ synced' \in Files
    BY <1>0, <1>c, <2>1, <2>5
  <2>7. NameType' /\ CountType'
    BY <1>0, <1>4 DEF WriteAll, NameType, CountType
  <2> QED BY <2>4, <2>6, <2>7 DEF Typed
<1>5. ASSUME NEW p \in Proc, SyncAll(p) PROVE Typed'
  <2> DEFINE q == [proc[p] EXCEPT !.pc = "synced", !.fd = None]
  <2>1. q \in ProcType /\ Underway(q)
    BY <1>5, <1>a DEF SyncAll, ProcType, Underway
  <2>2. proc' = [proc EXCEPT ![p] = q]
    BY <1>0, <1>5 DEF ProcsType, SyncAll
  <2>3. ProcsType'
    <3> HIDE DEF q
    <3> QED BY <1>0, <2>1, <2>2, OneProc
  <2>4. proc[p].fd \in Inode
    BY <1>5, <1>a DEF SyncAll, ProcType, Underway
  <2>5. [synced EXCEPT ![proc[p].fd] = file[proc[p].fd]] \in Files
    BY <1>0, <2>4 DEF Files
  <2>6. file' \in Files /\ synced' \in Files
    BY <1>0, <1>5, <1>c, <2>5 DEF SyncAll
  <2>7. NameType' /\ CountType'
    BY <1>0, <1>5 DEF SyncAll, NameType, CountType
  <2> QED BY <2>3, <2>6, <2>7 DEF Typed
<1>6. ASSUME NEW p \in Proc, Rename(p) PROVE Typed'
  <2>1. ProcsType'
    BY <1>0, <1>6, IdleFact, OneProc DEF Rename
  <2>2. file' \in Files /\ synced' \in Files
    BY <1>0, <1>6, <1>c DEF Rename
  <2>3. NameType' /\ CountType'
    BY <1>0, <1>6 DEF Rename, NameType, CountType
  <2> QED BY <2>1, <2>2, <2>3 DEF Typed
<1>7. ASSUME NEW p \in Proc, RenameFails(p) PROVE Typed'
  <2>1. ProcsType'
    BY <1>0, <1>7, IdleFact, OneProc DEF RenameFails
  <2> QED BY <1>0, <1>7, <2>1 DEF Typed, RenameFails, NameType, CountType
<1>8. ASSUME NEW p \in Proc, Kill(p) PROVE Typed'
  <2>1. ProcsType'
    BY <1>0, <1>8, IdleFact, OneProc DEF Kill
  <2>2. file' \in Files /\ synced' \in Files
    BY <1>0, <1>8, <1>c DEF Kill
  <2>3. NameType' /\ CountType'
    BY <1>0, <1>8 DEF Kill, NameType, CountType
  <2> QED BY <2>1, <2>2, <2>3 DEF Typed
<1>9. CASE PowerLoss
  <2>1. ProcsType'
    BY <1>9, IdleFact DEF PowerLoss, ProcsType
  <2>2. file' \in Files /\ synced' \in Files
    <3>1. PICK lost : file' = Kept([i \in Inode |-> IF i \in lost THEN synced[i] ELSE file[i]])
      BY <1>9 DEF PowerLoss
    <3>2. [i \in Inode |-> IF i \in lost THEN synced[i] ELSE file[i]] \in Files
      BY <1>0 DEF Files
    <3> QED BY <1>9, <1>c, <3>1, <3>2 DEF PowerLoss
  <2>3. NameType'
    BY <1>0, <1>9 DEF PowerLoss, NameType
  <2>4. CountType'
    BY <1>0, <1>9, BoundAssumption DEF PowerLoss, CountType
  <2> QED BY <2>1, <2>2, <2>3, <2>4 DEF Typed
<1>10. CASE UNCHANGED vars
  BY <1>0, <1>10 DEF vars, Typed, ProcsType, NameType, CountType, Underway
<1> QED BY <1>1, <1>2, <1>3, <1>4, <1>5, <1>6, <1>7, <1>8, <1>9, <1>10 DEF Next

(* The types are an invariant by themselves. *)
LEMMA TypedAlways == Spec => []Typed
<1>1. Init => Typed
  <2> SUFFICES ASSUME Init PROVE Typed
    OBVIOUS
  <2>1. ProcsType
    BY IdleFact DEF Init, ProcsType
  <2>2. file \in Files /\ synced \in Files
    <3>1. <<>> \in Seq(Cells)
      OBVIOUS
    <3> QED BY <3>1 DEF Init, Files
  <2> QED BY <2>1, <2>2, BoundAssumption DEF Init, Typed, NameType, CountType
<1>2. Typed /\ [Next]_vars => Typed'
  BY TypedStep
<1> QED BY <1>1, <1>2, PTL DEF Spec

(* Every text a command holds parses again, for any number of processes,   *)
(* aliases and files, overlapping, killed or cut off by a power loss:      *)
(* neither upsert nor remove makes a duplicate section, which parse would  *)
(* refuse from then on.                                                    *)
THEOREM TypeCorrect == Spec => []TypeOK
<1>1. Init => together \in BOOLEAN
  BY Zenon DEF Init
<1>2. together \in BOOLEAN /\ [Next]_vars => (together \in BOOLEAN)'
  BY Zenon DEF Next, Load, Edit, OpenTmp, WriteAll, SyncAll, Rename, RenameFails, Kill, PowerLoss,
               vars
<1>3. Typed /\ together \in BOOLEAN => TypeOK
  BY TypeParts, Zenon DEF Typed
<1> QED BY <1>1, <1>2, <1>3, TypedAlways, PTL DEF Spec

-----------------------------------------------------------------------------
(* While commands run one after the other: one process at most is at work; *)
(* what config names, and what the disk has for it, is on the disk; and    *)
(* the one at work has the temporary file to itself, with all of its text  *)
(* in it once that is written, and nothing changed but its own section.    *)
Alone == \A p, q \in Proc : proc[p].pc # "idle" /\ proc[q].pc # "idle" => p = q

Settled == \A i \in {config, configOnDisk} : i # None => file[i] = synced[i]

Progress(p) ==
  /\ proc[p].pc = "loaded" => proc[p].text = RegistryText
  /\ proc[p].pc \in {"edited", "open", "written", "synced"} =>
       Without(proc[p].text, proc[p].alias) = Without(RegistryText, proc[p].alias)
  /\ proc[p].pc \in {"open", "written"} => proc[p].fd = tmp
  /\ proc[p].pc = "open" => file[tmp] = <<>>
  /\ proc[p].pc = "written" => file[tmp] = proc[p].text
  /\ proc[p].pc = "synced" =>
       tmp # None /\ file[tmp] = proc[p].text /\ synced[tmp] = proc[p].text

InTurn == Alone /\ Settled /\ \A p \in Proc : Progress(p)

(* It is enough to look at the one process at work. *)
LEMMA OnlyOne ==
  ASSUME NEW p \in Proc, \A q \in Proc \ {p} : proc'[q].pc = "idle",
         Progress(p)', Settled'
  PROVE  InTurn'
<1>1. Alone'
  BY DEF Alone
<1>2. \A q \in Proc \ {p} : Progress(q)'
  BY DEF Progress
<1> QED BY <1>1, <1>2 DEF InTurn

(* write_all into an empty file. *)
LEMMA OverwrittenWhole ==
  ASSUME NEW text \in Seq(Cells)
  PROVE  Overwritten(<<>>, text, Len(text)) = text
<1>1. Len(text) \in Nat /\ Len(<<>>) = 0
  OBVIOUS
<1>2. (IF Len(<<>>) < Len(text) THEN Len(text) ELSE Len(<<>>)) = Len(text)
  BY <1>1
<1>3. Overwritten(<<>>, text, Len(text)) =
        [k \in 1..Len(text) |-> IF k <= Len(text) THEN text[k] ELSE <<>>[k]]
  BY <1>2, Zenon DEF Overwritten
<1>4. \A k \in 1..Len(text) : k <= Len(text)
  BY <1>1
<1>5. [k \in 1..Len(text) |-> IF k <= Len(text) THEN text[k] ELSE <<>>[k]] =
        [k \in 1..Len(text) |-> text[k]]
  BY <1>4, Zenon
<1>6. text = [k \in 1..Len(text) |-> text[k]]
  OBVIOUS
<1> QED BY <1>3, <1>5, <1>6, Zenon

(* A step of a command that is alone keeps all that, and rewrites the      *)
(* registry as a whole if at all.                                          *)
LEMMA InTurnStep ==
  ASSUME Typed, InTurn, [Next]_vars,
         \A p \in Proc : Load(p) => \A q \in Proc \ {p} : proc[q].pc = "idle"
  PROVE  InTurn' /\ Whole
<1>0. /\ ProcsType /\ file \in Files /\ synced \in Files /\ NameType /\ CountType
      /\ Alone /\ Settled /\ \A p \in Proc : Progress(p)
  BY DEF Typed, InTurn
<1>a. \A p \in Proc : proc[p] \in ProcType /\ Underway(proc[p])
  BY <1>0 DEF ProcsType
<1>b. /\ config \in Inode \cup {None} /\ configOnDisk \in Inode \cup {None}
      /\ tmp \in Inode \cup {None}
      /\ tmp # None => tmp # config /\ tmp # configOnDisk
  BY <1>0 DEF NameType
<1>c. \A f \in Files, i \in Inode : i \in {config', configOnDisk', tmp'} => Kept(f)[i] = f[i]
  BY DEF Kept, InUse
<1>d. \A p \in Proc : proc[p].pc # "idle" => \A q \in Proc \ {p} : proc[q].pc = "idle"
  BY <1>0 DEF Alone
<1>e. ASSUME NEW p \in Proc, NEW r, proc' = [proc EXCEPT ![p] = r]
      PROVE  proc'[p] = r /\ \A q \in Proc \ {p} : proc'[q] = proc[q]
  BY <1>0, <1>e DEF ProcsType
<1>f. ASSUME UNCHANGED <<config, configOnDisk>>,
             \A i \in {config, configOnDisk} : i # None => file'[i] = file[i] /\ synced'[i] = synced[i]
      PROVE  Settled' /\ RegistryText' = RegistryText /\ Whole
  BY <1>0, <1>f DEF Settled, RegistryText, Whole
<1>g. ASSUME NEW p \in Proc, proc[p].pc # "idle", proc' = [proc EXCEPT ![p] = Idle], Settled'
      PROVE  InTurn'
  <2>1. proc'[p] = Idle /\ \A q \in Proc \ {p} : proc'[q].pc = "idle"
    BY <1>d, <1>e, <1>g
  <2>2. Progress(p)'
    BY <2>1, IdleFact DEF Progress
  <2> QED BY <1>g, <2>1, <2>2, OnlyOne
<1>1. ASSUME NEW p \in Proc, Load(p) PROVE InTurn' /\ Whole
  <2>1. PICK r : /\ proc' = [proc EXCEPT ![p] = r]
                 /\ r.pc = "loaded" /\ r.text = RegistryText
    <3>1. PICK a \in Alias, v \in Value \cup {None} :
            proc' = [proc EXCEPT ![p] = [Idle EXCEPT !.pc = "loaded", !.alias = a, !.value = v,
                                                     !.text = RegistryText]]
      BY <1>1 DEF Load
    <3> DEFINE q == [Idle EXCEPT !.pc = "loaded", !.alias = a, !.value = v, !.text = RegistryText]
    <3>2. q.pc = "loaded" /\ q.text = RegistryText
      BY DEF Idle
    <3> QED BY <3>1, <3>2
  <2>2. UNCHANGED <<file, synced, config, configOnDisk, tmp>>
    BY <1>1 DEF Load
  <2>3. Settled' /\ RegistryText' = RegistryText /\ Whole
    BY <1>f, <2>2
  <2>4. proc'[p] = r /\ \A q \in Proc \ {p} : proc'[q].pc = "idle"
    BY <1>1, <1>e, <2>1
  <2>5. Progress(p)'
    BY <2>1, <2>3, <2>4 DEF Progress
  <2> QED BY <2>3, <2>4, <2>5, OnlyOne
<1>2. ASSUME NEW p \in Proc, Edit(p) PROVE InTurn' /\ Whole
  <2>1. UNCHANGED <<file, synced, config, configOnDisk, tmp>> /\ proc[p].pc = "loaded"
    BY <1>2 DEF Edit
  <2>2. Settled' /\ RegistryText' = RegistryText /\ Whole
    BY <1>f, <2>1
  <2>3. PICK r : /\ proc' = [proc EXCEPT ![p] = r]
                 /\ \/ r = Idle
                    \/ /\ r.pc = "edited" /\ r.alias = proc[p].alias
                       /\ Without(r.text, proc[p].alias) = Without(proc[p].text, proc[p].alias)
    BY <1>2, <1>a, EditFact DEF Edit
  <2>4. proc'[p] = r /\ \A q \in Proc \ {p} : proc'[q].pc = "idle"
    BY <1>d, <1>e, <2>1, <2>3
  <2>5. proc[p].text = RegistryText
    BY <1>0, <2>1 DEF Progress
  <2>6. Progress(p)'
    BY <2>2, <2>3, <2>4, <2>5, IdleFact DEF Progress
  <2> QED BY <2>2, <2>4, <2>6, OnlyOne
<1>3. ASSUME NEW p \in Proc, OpenTmp(p) PROVE InTurn' /\ Whole
  <2>1. PICK i \in IF tmp = None THEN Inode \ InUse ELSE {tmp} :
          /\ tmp' = i
          /\ file' = [file EXCEPT ![i] = <<>>]
          /\ proc' = [proc EXCEPT ![p].pc = "open", ![p].fd = i]
    BY <1>3 DEF OpenTmp
  <2>2. i \in Inode /\ i # config /\ i # configOnDisk
    BY <1>b, <2>1 DEF InUse
  <2>3. UNCHANGED <<synced, config, configOnDisk>> /\ proc[p].pc = "edited"
    BY <1>3 DEF OpenTmp
  <2>4. file'[i] = <<>> /\ \A j \in Inode \ {i} : file'[j] = file[j]
    BY <1>0, <2>1, <2>2 DEF Files
  <2>5. Settled' /\ RegistryText' = RegistryText /\ Whole
    BY <1>b, <1>f, <2>2, <2>3, <2>4
  <2> DEFINE r == [proc[p] EXCEPT !.pc = "open", !.fd = i]
  <2>6. r.pc = "open" /\ r.fd = i /\ r.text = proc[p].text /\ r.alias = proc[p].alias
    BY <1>a DEF ProcType
  <2>7. proc' = [proc EXCEPT ![p] = r]
    BY <1>0, <2>1 DEF ProcsType
  <2> HIDE DEF r
  <2>8. proc'[p] = r /\ \A q \in Proc \ {p} : proc'[q].pc = "idle"
    BY <1>d, <1>e, <2>3, <2>7
  <2>9. Progress(p)'
    BY <1>0, <2>1, <2>3, <2>4, <2>5, <2>6, <2>8 DEF Progress
  <2> QED BY <2>5, <2>8, <2>9, OnlyOne
<1>4. ASSUME NEW p \in Proc, WriteAll(p) PROVE InTurn' /\ Whole
  <2> DEFINE q == proc[p]
             r == [q EXCEPT !.pc = "written"]
  <2>1. PICK n \in 0..Len(q.text) :
          /\ proc' = [proc EXCEPT ![p] = IF n = Len(q.text) THEN r ELSE Idle]
          /\ file' = Kept([file EXCEPT ![q.fd] = Overwritten(@, q.text, n)])
          /\ synced' = Kept(synced)
    BY <1>4 DEF WriteAll
  <2>2. UNCHANGED <<config, configOnDisk, tmp>> /\ q.pc = "open"
    BY <1>4 DEF WriteAll
  <2>3. /\ q.fd = tmp /\ tmp \in Inode /\ file[tmp] = <<>>
        /\ q.text \in Seq(Cells)
        /\ Without(q.text, q.alias) = Without(RegistryText, q.alias)
    <3>1. Progress(p) /\ q \in ProcType /\ Underway(q)
      BY <1>0, <1>a
    <3> QED BY <2>2, <3>1, <1>b DEF Progress, Underway, ProcType, Texts
  <2> DEFINE f == [file EXCEPT ![q.fd] = Overwritten(@, q.text, n)]
  <2>4. f \in Files /\ f[tmp] = Overwritten(<<>>, q.text, n) /\ \A j \in Inode \ {tmp} : f[j] = file[j]
    <3>0. <<>> \in Seq(Cells)
      OBVIOUS
    <3>1. Overwritten(<<>>, q.text, n) \in Seq(Cells)
      BY <2>3, <3>0, OverwrittenType
    <3> QED BY <1>0, <2>3, <3>1 DEF Files
  <2>5. r.pc = "written" /\ r.fd = q.fd /\ r.text = q.text /\ r.alias = q.alias
    BY <1>a DEF ProcType
  <2>6. file' = Kept(f)
    BY <2>1
  <2> HIDE DEF q, r, f
  <2>7. /\ file'[tmp] = f[tmp]
        /\ \A i \in {config, configOnDisk} : i # None => file'[i] = file[i] /\ synced'[i] = synced[i]
    <3>1. \A i \in Inode : i \in {config, configOnDisk, tmp} =>
            Kept(f)[i] = f[i] /\ Kept(synced)[i] = synced[i]
      BY <1>0, <1>c, <2>2, <2>4
    <3>2. \A i \in {config, configOnDisk} : i # None => i \in Inode \ {tmp}
      BY <1>b
    <3>3. synced' = Kept(synced)
      BY <2>1
    <3> QED BY <2>3, <2>4, <2>6, <3>1, <3>2, <3>3
  <2>8. Settled' /\ RegistryText' = RegistryText /\ Whole
    BY <1>f, <2>2, <2>7
  <2>9. CASE n = Len(q.text)
    <3>1. proc' = [proc EXCEPT ![p] = r]
      BY <2>1, <2>9
    <3>2. proc'[p] = r /\ \A s \in Proc \ {p} : proc'[s].pc = "idle"
      BY <1>d, <1>e, <2>2, <3>1 DEF q
    <3>3. file'[tmp] = q.text
      BY <2>3, <2>4, <2>7, <2>9, OverwrittenWhole
    <3>4. Progress(p)'
      BY <2>2, <2>3, <2>5, <2>8, <3>2, <3>3 DEF Progress
    <3> QED BY <2>8, <3>2, <3>4, OnlyOne
  <2>10. CASE n # Len(q.text)
    BY <1>g, <2>1, <2>2, <2>8, <2>10 DEF q
  <2> QED BY <2>9, <2>10
<1>5. ASSUME NEW p \in Proc, SyncAll(p) PROVE InTurn' /\ Whole
  <2> DEFINE q == proc[p]
             r == [q EXCEPT !.pc = "synced", !.fd = None]
             f == [synced EXCEPT ![q.fd] = file[q.fd]]
  <2>1. /\ proc' = [proc EXCEPT ![p] = r]
        /\ file' = Kept(file) /\ synced' = Kept(f)
        /\ UNCHANGED <<config, configOnDisk, tmp>> /\ q.pc = "written"
    BY <1>0, <1>5 DEF SyncAll, ProcsType
  <2>2. /\ q.fd = tmp /\ tmp \in Inode /\ file[tmp] = q.text
        /\ Without(q.text, q.alias) = Without(RegistryText, q.alias)
    <3>1. Progress(p) /\ q \in ProcType /\ Underway(q)
      BY <1>0, <1>a
    <3> QED BY <2>1, <3>1, <1>b DEF Progress, Underway, ProcType
  <2>3. f \in Files /\ f[tmp] = file[tmp] /\ \A j \in Inode \ {tmp} : f[j] = synced[j]
    BY <1>0, <2>2 DEF Files
  <2>4. r.pc = "synced" /\ r.text = q.text /\ r.alias = q.alias
    BY <1>a DEF ProcType
  <2> HIDE DEF q, r, f
  <2>5. /\ file'[tmp] = file[tmp] /\ synced'[tmp] = file[tmp]
        /\ \A i \in {config, configOnDisk} : i # None => file'[i] = file[i] /\ synced'[i] = synced[i]
    BY <1>0, <1>b, <1>c, <2>1, <2>2, <2>3
  <2>6. Settled' /\ RegistryText' = RegistryText /\ Whole
    BY <1>f, <2>1, <2>5
  <2>7. proc'[p] = r /\ \A s \in Proc \ {p} : proc'[s].pc = "idle"
    BY <1>d, <1>e, <2>1 DEF q
  <2>8. Progress(p)'
    BY <2>1, <2>2, <2>4, <2>5, <2>6, <2>7, InodeAssumption DEF Progress
  <2> QED BY <2>6, <2>7, <2>8, OnlyOne
<1>6. ASSUME NEW p \in Proc, Rename(p) PROVE InTurn' /\ Whole
  <2>1. /\ proc[p].pc = "synced" /\ tmp \in Inode
        /\ config' = tmp /\ configOnDisk' \in {configOnDisk, tmp}
        /\ proc' = [proc EXCEPT ![p] = Idle]
        /\ file' = Kept(file) /\ synced' = Kept(synced)
    BY <1>6, <1>b DEF Rename
  <2>2. file[tmp] = proc[p].text /\ synced[tmp] = proc[p].text
    BY <1>0, <2>1 DEF Progress
  <2>3. file'[tmp] = proc[p].text /\ synced'[tmp] = proc[p].text
    BY <1>0, <1>c, <2>1, <2>2
  <2>4. configOnDisk' # None => file'[configOnDisk'] = synced'[configOnDisk']
    BY <1>0, <1>b, <1>c, <2>1, <2>3 DEF Settled
  <2>5. Settled'
    BY <2>1, <2>3, <2>4 DEF Settled
  <2>6. RegistryText' = proc[p].text
    BY <2>1, <2>3, InodeAssumption DEF RegistryText
  <2>7. Whole
    BY <2>1, <2>6 DEF Whole
  <2> QED BY <1>g, <2>1, <2>5, <2>7
<1>7. ASSUME NEW p \in Proc, RenameFails(p) PROVE InTurn' /\ Whole
  <2>1. UNCHANGED <<file, synced, config, configOnDisk>>
    BY <1>7 DEF RenameFails
  <2> QED BY <1>f, <1>g, <1>7, <2>1 DEF RenameFails
<1>8. ASSUME NEW p \in Proc, Kill(p) PROVE InTurn' /\ Whole
  <2>1. UNCHANGED <<config, configOnDisk>> /\ file' = Kept(file) /\ synced' = Kept(synced)
    BY <1>8 DEF Kill
  <2>2. \A i \in {config, configOnDisk} : i # None => file'[i] = file[i] /\ synced'[i] = synced[i]
    BY <1>0, <1>b, <1>c, <2>1
  <2> QED BY <1>f, <1>g, <1>8, <2>1, <2>2 DEF Kill
<1>9. CASE PowerLoss
  <2>1. PICK lost : file' = Kept([i \in Inode |-> IF i \in lost THEN synced[i] ELSE file[i]])
    BY <1>9 DEF PowerLoss
  <2>2. /\ config' \in {config, configOnDisk} /\ synced' = file'
        /\ proc' = [p \in Proc |-> Idle] /\ boots' = boots + 1
    BY <1>9 DEF PowerLoss
  <2>3. InTurn'
    BY <2>2, IdleFact DEF InTurn, Alone, Settled, Progress
  <2>4. config' # None => file'[config'] = file[config']
    <3> DEFINE f == [i \in Inode |-> IF i \in lost THEN synced[i] ELSE file[i]]
    <3>1. f \in Files
      BY <1>0 DEF Files
    <3>2. \A i \in Inode : i \in {config, configOnDisk} => f[i] = file[i]
      BY <1>0, InodeAssumption DEF Settled
    <3> HIDE DEF f
    <3>3. file' = Kept(f)
      BY <2>1 DEF f
    <3> QED BY <1>b, <1>c, <2>2, <3>1, <3>2, <3>3
  <2>5. RegistryText' = RegistryText \/ RegistryText' = TextOnDisk
    BY <2>2, <2>4 DEF RegistryText, TextOnDisk
  <2>6. boots' # boots
    BY <1>0, <2>2, BoundAssumption DEF CountType
  <2> QED BY <2>3, <2>5, <2>6 DEF Whole
<1>10. CASE UNCHANGED vars
  BY <1>0, <1>10 DEF vars, InTurn, Alone, Settled, Progress, Whole, RegistryText
<1> QED BY <1>1, <1>2, <1>3, <1>4, <1>5, <1>6, <1>7, <1>8, <1>9, <1>10 DEF Next

(* The inductive invariant of commands in turn. *)
Turns == ~together => InTurn

(* As long as no two commands have overlapped, they take turns. *)
LEMMA TurnsAlways == Spec => []Turns /\ [][~together' => Whole]_vars
<1>1. Init => Turns
  <2> SUFFICES ASSUME Init PROVE InTurn
    BY DEF Turns
  <2> QED BY IdleFact DEF Init, InTurn, Alone, Settled, Progress
<1>2. ASSUME Typed, Turns, [Next]_vars
      PROVE  Turns' /\ (~together' => Whole)
  <2> SUFFICES ASSUME ~together' PROVE InTurn' /\ Whole
    BY Zenon DEF Turns
  <2>1. ~together
    BY <1>2, Zenon DEF Next, Load, Edit, OpenTmp, WriteAll, SyncAll, Rename, RenameFails, Kill,
                       PowerLoss, vars
  <2>2. \A p \in Proc : Load(p) => \A q \in Proc \ {p} : proc[q].pc = "idle"
    BY Zenon DEF Load
  <2>3. InTurn
    BY <1>2, <2>1 DEF Turns
  <2> QED BY <1>2, <2>2, <2>3, InTurnStep
<1> QED BY <1>1, <1>2, TypedAlways, PTL DEF Spec

(* Commands that run one after the other - killed between any two system   *)
(* calls, on a full disk, over the temporary file a killed one has left,   *)
(* or cut off by a power loss - leave the old registry or the new one:     *)
(* Config::save puts nothing half-written in place.                        *)
THEOREM RegistryIsWhole == Spec => RewritesWhole
<1> QED BY TurnsAlways, PTL DEF RewritesWhole

(* And upsert and remove leave every section but the named one as it was,  *)
(* in its place, however many there are.                                   *)
THEOREM OtherSectionsKept == Spec => OthersKept
<1>1. ASSUME Turns, [Next]_vars
      PROVE  [~together' => OthersUntouched]_vars
  <2>1. ~together' => ~together
    BY <1>1, Zenon DEF Next, Load, Edit, OpenTmp, WriteAll, SyncAll, Rename, RenameFails, Kill,
                       PowerLoss, vars
  <2>2. InTurn => OthersUntouched
    BY DEF InTurn, Progress, OthersUntouched
  <2>3. ~together => InTurn
    BY <1>1 DEF Turns
  <2> QED BY <2>1, <2>2, <2>3
<1> QED BY <1>1, TurnsAlways, PTL DEF Spec, OthersKept
=============================================================================
