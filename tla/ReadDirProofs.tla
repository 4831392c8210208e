--------------------------- MODULE ReadDirProofs ---------------------------
(***************************************************************************)
(* What a scan in pages may miss and repeat, for any names and any size of *)
(* the reply buffer.  The argument is about positions: numbering the       *)
(* entries of a directory in order is one to one, so an offset counts the  *)
(* entries before it, and removing or inserting one moves only those       *)
(* behind it.                                                              *)
(***************************************************************************)
EXTENDS ReadDir, FiniteSetTheorems, FunctionTheorems, TLAPS

(* The position of e among the integers of S, and how many are below it. *)
Upto(S, e) == {m \in S : m <= e}
Under(S, e) == {m \in S : m < e}
Pos(S, e) == Cardinality(Upto(S, e))
Below(S, e) == Cardinality(Under(S, e))

LEMMA Counts ==
  ASSUME NEW S, IsFiniteSet(S), NEW e
  PROVE  /\ IsFiniteSet(Upto(S, e)) /\ Pos(S, e) \in Nat /\ Pos(S, e) <= Cardinality(S)
         /\ IsFiniteSet(Under(S, e)) /\ Below(S, e) \in Nat
<1>1. Upto(S, e) \in SUBSET S /\ Under(S, e) \in SUBSET S
  BY DEF Upto, Under
<1>2. IsFiniteSet(Upto(S, e)) /\ Cardinality(Upto(S, e)) <= Cardinality(S)
  BY <1>1, FS_Subset
<1>3. IsFiniteSet(Under(S, e))
  BY <1>1, FS_Subset
<1> QED
  BY <1>2, <1>3, FS_CardinalityType DEF Pos, Below

(* A member of S is one more than those below it. *)
LEMMA PosBelow ==
  ASSUME NEW S, S \subseteq Int, IsFiniteSet(S), NEW e \in S
  PROVE  Pos(S, e) = Below(S, e) + 1
<1>0. \A m \in S : m \in Int /\ (m <= e <=> m < e \/ m = e)
  OBVIOUS
<1>1. \A m : m \in Upto(S, e) <=> m \in Under(S, e) \cup {e}
  BY <1>0 DEF Upto, Under
<1>3. e \notin Under(S, e)
  BY <1>0 DEF Under
<1>2. IsFiniteSet(Under(S, e))
  BY Counts
<1>4. Upto(S, e) = Under(S, e) \cup {e}
  BY <1>1
<1> QED
  BY <1>2, <1>3, <1>4, FS_AddElement DEF Pos, Below

(* Positions grow strictly. *)
LEMMA PosGrows ==
  ASSUME NEW S, S \subseteq Int, IsFiniteSet(S), NEW e \in S, NEW f \in S, e < f
  PROVE  Pos(S, e) < Pos(S, f)
<1>0. \A m \in S : m \in Int /\ (m <= e => m < f)
  OBVIOUS
<1>1. Upto(S, e) \in SUBSET Under(S, f)
  BY <1>0 DEF Upto, Under
<1>2. IsFiniteSet(Under(S, f)) /\ Below(S, f) \in Nat /\ Pos(S, e) \in Nat
  BY Counts
<1>3. Pos(S, e) <= Below(S, f)
  BY <1>1, <1>2, FS_Subset DEF Pos, Below
<1>4. Pos(S, f) = Below(S, f) + 1
  BY PosBelow
<1> QED
  BY <1>2, <1>3, <1>4

(* As many members lie in a range of positions as it has room for. *)
LEMMA Room ==
  ASSUME NEW S, S \subseteq Int, IsFiniteSet(S), NEW T \in SUBSET S,
         NEW i \in Nat, NEW j \in Nat, i <= j,
         \A e \in T : i < Pos(S, e) /\ Pos(S, e) <= j
  PROVE  IsFiniteSet(T) /\ Cardinality(T) \in Nat /\ Cardinality(T) <= j - i
<1> DEFINE f == [e \in T |-> Pos(S, e)]
<1>1. \A e \in T : Pos(S, e) \in (i + 1)..j
  BY Counts
<1>2. f \in [T -> (i + 1)..j]
  BY <1>1
<1>3. ASSUME NEW x \in T, NEW y \in T, f[x] = f[y]
      PROVE  x = y
  <2>1. x \in Int /\ y \in Int /\ Pos(S, x) = Pos(S, y) /\ Pos(S, x) \in Nat
    BY <1>3, Counts
  <2>2. x < y => Pos(S, x) < Pos(S, y)
    BY PosGrows
  <2>3. y < x => Pos(S, y) < Pos(S, x)
    BY PosGrows
  <2> QED
    BY <2>1, <2>2, <2>3
<1>4. f \in Injection(T, (i + 1)..j)
  BY <1>2, <1>3, Fun_IsInj
<1>5. IsFiniteSet((i + 1)..j) /\ Cardinality((i + 1)..j) = j - i
  <2>1. PICK k \in Int : k = i + 1
    OBVIOUS
  <2>2. IsFiniteSet(k..j) /\ Cardinality(k..j) = IF k > j THEN 0 ELSE j - k + 1
    BY <2>1, FS_Interval
  <2> QED
    BY <2>1, <2>2
<1>6. IsFiniteSet(T) /\ Cardinality(T) <= j - i
  BY <1>4, <1>5, FS_Injection
<1> QED
  BY <1>6, FS_CardinalityType

-----------------------------------------------------------------------------
(* One page: the entries of S behind position o, n at the most.            *)
Paged(S, o, n) == {e \in S : o < Pos(S, e) /\ Pos(S, e) <= o + n}

LEMMA Passed ==
  ASSUME NEW S, S \subseteq Int, IsFiniteSet(S), NEW o \in Nat, NEW T \in SUBSET S,
         \A e \in T : Pos(S, e) <= o
  PROVE  IsFiniteSet(T) /\ Cardinality(T) \in Nat /\ Cardinality(T) <= o
<1>1. \A e \in T : Pos(S, e) = Below(S, e) + 1 /\ Below(S, e) \in Nat
  BY PosBelow, Counts
<1>2. \A e \in T : 0 < Pos(S, e) /\ Pos(S, e) <= o
  BY <1>1
<1>3. PICK i \in Nat : i = 0
  OBVIOUS
<1>4. i <= o /\ \A e \in T : i < Pos(S, e) /\ Pos(S, e) <= o
  BY <1>2, <1>3
<1>5. IsFiniteSet(T) /\ Cardinality(T) \in Nat /\ Cardinality(T) <= o - i
  BY <1>4, Room
<1> QED
  BY <1>3, <1>5

LEMMA PageFits ==
  ASSUME NEW S, S \subseteq Int, IsFiniteSet(S), NEW o \in Nat, NEW n \in Nat \ {0}
  PROVE  /\ IsFiniteSet(Paged(S, o, n)) /\ Cardinality(Paged(S, o, n)) \in Nat
         /\ Cardinality(Paged(S, o, n)) <= n
<1>1. PICK j \in Nat : j = o + n
  OBVIOUS
<1>2. /\ Paged(S, o, n) \in SUBSET S
      /\ \A e \in Paged(S, o, n) : o < Pos(S, e) /\ Pos(S, e) <= j
  BY <1>1 DEF Paged
<1>3. o <= j
  BY <1>1
<1>4. /\ IsFiniteSet(Paged(S, o, n)) /\ Cardinality(Paged(S, o, n)) \in Nat
      /\ Cardinality(Paged(S, o, n)) <= j - o
  BY <1>2, <1>3, Room
<1> QED
  BY <1>1, <1>4

(* The offset after a page is still within the list. *)
LEMMA PageWithin ==
  ASSUME NEW S, S \subseteq Int, IsFiniteSet(S), NEW o \in Nat, NEW n \in Nat \ {0},
         Paged(S, o, n) # {}
  PROVE  o + Cardinality(Paged(S, o, n)) <= Cardinality(S)
<1>1. PICK c \in Nat : c = Cardinality(S)
  BY FS_CardinalityType
<1>2. \A e \in S : Pos(S, e) \in Nat /\ Pos(S, e) <= c
  BY <1>1, Counts
<1>3. /\ Paged(S, o, n) \in SUBSET S
      /\ \A e \in Paged(S, o, n) : o < Pos(S, e) /\ Pos(S, e) <= c
  BY <1>2 DEF Paged
<1>4. o <= c
  <2>1. PICK e \in Paged(S, o, n) : TRUE
    OBVIOUS
  <2>2. o < Pos(S, e) /\ Pos(S, e) <= c /\ Pos(S, e) \in Nat
    BY <1>2, <1>3, <2>1
  <2> QED
    BY <2>2
<1>5. Cardinality(Paged(S, o, n)) \in Nat /\ Cardinality(Paged(S, o, n)) <= c - o
  BY <1>3, <1>4, Room
<1> QED
  BY <1>1, <1>5

(* The offset after a page is behind every entry of it. *)
LEMMA PagePassed ==
  ASSUME NEW S, S \subseteq Int, IsFiniteSet(S), NEW o \in Nat, NEW n \in Nat \ {0},
         NEW e \in Paged(S, o, n)
  PROVE  Pos(S, e) <= o + Cardinality(Paged(S, o, n))
<1> DEFINE L == {m \in Upto(S, e) : Pos(S, m) <= o}
           P == {m \in Upto(S, e) : ~(Pos(S, m) <= o)}
<1>1. e \in S /\ e \in Int /\ Pos(S, e) <= o + n
  BY DEF Paged
<1>2. L \in SUBSET S /\ \A m \in L : Pos(S, m) <= o
  BY DEF Upto
<1>3. IsFiniteSet(L) /\ Cardinality(L) \in Nat /\ Cardinality(L) <= o
  BY <1>2, Passed
<1>4. ASSUME NEW m \in P
      PROVE  m \in Paged(S, o, n)
  <2>1. m \in S /\ m \in Int /\ m <= e /\ ~(Pos(S, m) <= o)
    BY DEF Upto
  <2>2. Pos(S, m) \in Nat /\ Pos(S, e) \in Nat
    BY Counts
  <2>3. m < e => Pos(S, m) < Pos(S, e)
    BY <1>1, <2>1, PosGrows
  <2>4. m < e \/ m = e
    BY <1>1, <2>1
  <2>5. o < Pos(S, m) /\ Pos(S, m) <= o + n
    BY <1>1, <2>1, <2>2, <2>3, <2>4
  <2> QED
    BY <2>1, <2>5 DEF Paged
<1>5. IsFiniteSet(Paged(S, o, n)) /\ Cardinality(Paged(S, o, n)) \in Nat
  BY PageFits
<1>6. IsFiniteSet(P) /\ Cardinality(P) <= Cardinality(Paged(S, o, n))
  BY <1>4, <1>5, FS_Subset
<1>7. Cardinality(P) \in Nat
  BY <1>6, FS_CardinalityType
<1>8. Upto(S, e) = L \cup P /\ L \cap P = {}
  OBVIOUS
<1>9. Cardinality(L \cup P) = Cardinality(L) + Cardinality(P) - Cardinality(L \cap P)
  BY <1>3, <1>6, FS_Union
<1>10. Cardinality(L \cap P) = 0
  BY <1>8, FS_EmptySet
<1>11. Pos(S, e) = Cardinality(L) + Cardinality(P) - 0
  BY <1>8, <1>9, <1>10 DEF Pos
<1> HIDE DEF L, P
<1> QED
  BY <1>3, <1>5, <1>6, <1>7, <1>11

(* An empty page means that nothing is behind the offset. *)
LEMMA PageEmpty ==
  ASSUME NEW S, S \subseteq Int, IsFiniteSet(S), NEW o \in Nat, NEW n \in Nat \ {0},
         Paged(S, o, n) = {}, NEW e \in S
  PROVE  Pos(S, e) <= o
<1> DEFINE L == {m \in S : Pos(S, m) <= o}
           H == {m \in S : ~(Pos(S, m) <= o)}
<1> SUFFICES ASSUME ~(Pos(S, e) <= o)
             PROVE  FALSE
  OBVIOUS
<1>1. PICK c \in Nat : c = Cardinality(S)
  BY FS_CardinalityType
<1>2. \A m \in S : Pos(S, m) \in Nat /\ Pos(S, m) <= c
  BY <1>1, Counts
<1>3. PICK j \in Nat : j = o + n
  OBVIOUS
<1>4. H \in SUBSET S /\ \A m \in H : j < Pos(S, m) /\ Pos(S, m) <= c
  BY <1>2, <1>3 DEF Paged
<1>5. j <= c
  BY <1>2, <1>4
<1>6. IsFiniteSet(H) /\ Cardinality(H) \in Nat /\ Cardinality(H) <= c - j
  <2> HIDE DEF H
  <2> QED
    BY <1>4, <1>5, Room
<1>7. IsFiniteSet(L) /\ Cardinality(L) \in Nat /\ Cardinality(L) <= o
  BY Passed
<1>8. S = L \cup H /\ L \cap H = {}
  OBVIOUS
<1>9. Cardinality(L \cup H) = Cardinality(L) + Cardinality(H) - Cardinality(L \cap H)
  BY <1>6, <1>7, FS_Union
<1>10. Cardinality(L \cap H) = 0
  BY <1>8, FS_EmptySet
<1>11. c = Cardinality(L) + Cardinality(H) - 0
  BY <1>1, <1>8, <1>9, <1>10
<1> HIDE DEF L, H
<1> QED
  BY <1>3, <1>6, <1>7, <1>11

-----------------------------------------------------------------------------
(* What a change of the directory does to positions.                       *)
LEMMA GrowthShiftsUp ==
  ASSUME NEW T, IsFiniteSet(T), NEW S \in SUBSET T, NEW e
  PROVE  Pos(S, e) <= Pos(T, e)
<1>1. Upto(S, e) \in SUBSET Upto(T, e)
  BY DEF Upto
<1>2. IsFiniteSet(Upto(T, e))
  BY Counts
<1> QED
  BY <1>1, <1>2, FS_Subset DEF Pos

(* Taking a away from behind the offset leaves what is behind it behind.   *)
LEMMA RemovalBehind ==
  ASSUME NEW S, S \subseteq Int, IsFiniteSet(S), NEW T, T \subseteq Int, IsFiniteSet(T),
         NEW o \in Nat, NEW a \in S, NEW e \in S, e # a, S \ {a} \subseteq T,
         Pos(S, a) > o, Pos(S, e) > o
  PROVE  Pos(T, e) > o
<1>1. /\ a \in Int /\ e \in Int /\ Pos(S, a) \in Nat /\ Pos(S, e) \in Nat /\ Pos(T, e) \in Nat
      /\ IsFiniteSet(Upto(T, e)) /\ IsFiniteSet(Upto(S, a))
  BY Counts
<1>2. CASE e < a
  <2>1. \A m \in S : m \in Int /\ (m <= e => m # a)
    BY <1>1, <1>2
  <2>2. Upto(S, e) \in SUBSET Upto(T, e)
    BY <2>1 DEF Upto
  <2>3. Pos(S, e) <= Pos(T, e)
    BY <1>1, <2>2, FS_Subset DEF Pos
  <2> QED
    BY <1>1, <2>3
<1>3. CASE a < e
  <2> DEFINE R == Upto(S, a) \ {a}
  <2>1. a \in Upto(S, a) /\ e \notin R
    BY <1>1, <1>3 DEF Upto
  <2>2. IsFiniteSet(R) /\ Cardinality(R) = Pos(S, a) - 1
    BY <1>1, <2>1, FS_RemoveElement DEF Pos
  <2>3. Cardinality(R \cup {e}) = Cardinality(R) + 1
    BY <2>1, <2>2, FS_AddElement
  <2>4. \A m \in S : m \in Int /\ (m <= a => m <= e)
    BY <1>1, <1>3
  <2>5. e \in T /\ e <= e
    BY <1>1
  <2>6. R \cup {e} \in SUBSET Upto(T, e)
    BY <2>4, <2>5 DEF Upto
  <2>7. Cardinality(R \cup {e}) <= Pos(T, e)
    BY <1>1, <2>6, FS_Subset DEF Pos
  <2> QED
    BY <1>1, <2>2, <2>3, <2>7
<1> QED
  BY <1>1, <1>2, <1>3

(* What is added behind the offset leaves what is before it before.        *)
LEMMA InsertBehind ==
  ASSUME NEW S, S \subseteq Int, IsFiniteSet(S), NEW T, IsFiniteSet(T),
         NEW o \in Nat, NEW b \in Int, NEW e \in Int, T \subseteq S \cup {b},
         b \in S \/ Pos(T, b) > o,
         Below(S, e) < o
  PROVE  Below(T, e) < o
<1>1. /\ IsFiniteSet(Under(S, e)) /\ Below(S, e) \in Nat /\ Below(T, e) \in Nat
      /\ IsFiniteSet(Under(S, b)) /\ Below(S, b) \in Nat /\ Pos(T, b) \in Nat
  BY Counts
<1>2. CASE b \in S \/ ~(b < e)
  <2>1. Under(T, e) \in SUBSET Under(S, e)
    BY <1>2 DEF Under
  <2>2. Below(T, e) <= Below(S, e)
    BY <1>1, <2>1, FS_Subset DEF Below
  <2> QED
    BY <1>1, <2>2
<1>3. CASE b \notin S /\ b < e
  <2>1. \A m \in S : m \in Int /\ (m < b => m < e) /\ (m <= b => m < b \/ m = b)
    BY <1>3
  <2>2. Under(S, b) \in SUBSET Under(S, e)
    BY <2>1 DEF Under
  <2>3. Below(S, b) <= Below(S, e)
    BY <1>1, <2>2, FS_Subset DEF Below
  <2>4. Upto(T, b) \in SUBSET (Under(S, b) \cup {b})
    BY <2>1 DEF Upto, Under
  <2>5. /\ IsFiniteSet(Under(S, b) \cup {b})
        /\ Cardinality(Under(S, b) \cup {b}) <= Below(S, b) + 1
    <3>1. /\ IsFiniteSet(Under(S, b) \cup {b})
          /\ Cardinality(Under(S, b) \cup {b}) =
               IF b \in Under(S, b) THEN Below(S, b) ELSE Below(S, b) + 1
      BY <1>1, FS_AddElement DEF Below
    <3> QED
      BY <1>1, <3>1
  <2>6. Pos(T, b) <= Cardinality(Under(S, b) \cup {b})
    BY <2>4, <2>5, FS_Subset DEF Pos
  <2>7. Cardinality(Under(S, b) \cup {b}) \in Nat
    BY <2>5, FS_CardinalityType
  <2> QED
    BY <1>1, <1>3, <2>3, <2>5, <2>6, <2>7
<1> QED
  BY <1>2, <1>3

-----------------------------------------------------------------------------
(* The directory is a finite set of integers, `.` and `..` with it. *)
LEMMA Finite ==
  ASSUME NEW N \in SUBSET Name
  PROVE  LET S == {Dot, DotDot} \cup N
         IN  S \subseteq Int /\ IsFiniteSet(S) /\ Cardinality(S) <= Cardinality(Name) + 2
<1>1. Name \subseteq Int /\ IsFiniteSet(Name) /\ Dot \in Int /\ DotDot \in Int
  BY NameAssumption DEF Dot, DotDot
<1>2. IsFiniteSet(N) /\ Cardinality(N) <= Cardinality(Name)
  BY <1>1, FS_Subset
<1>3. Cardinality(N) \in Nat /\ Cardinality(Name) \in Nat
  BY <1>1, <1>2, FS_CardinalityType
<1>4. /\ IsFiniteSet(N \cup {Dot})
      /\ Cardinality(N \cup {Dot}) = IF Dot \in N THEN Cardinality(N) ELSE Cardinality(N) + 1
  BY <1>2, FS_AddElement
<1>5. PICK M : M = N \cup {Dot}
  OBVIOUS
<1>6. /\ IsFiniteSet(M \cup {DotDot})
      /\ Cardinality(M \cup {DotDot}) =
           IF DotDot \in M THEN Cardinality(M) ELSE Cardinality(M) + 1
  BY <1>4, <1>5, FS_AddElement
<1>7. {Dot, DotDot} \cup N = M \cup {DotDot}
  BY <1>5
<1>8. Cardinality(M) \in Nat /\ Cardinality(M) <= Cardinality(Name) + 1
  BY <1>2, <1>3, <1>4, <1>5
<1>9. Cardinality(M \cup {DotDot}) <= Cardinality(Name) + 2
  BY <1>3, <1>6, <1>8
<1> QED
  BY <1>1, <1>6, <1>7, <1>9

LEMMA AsPositions ==
  /\ \A e : Index(e) = Pos(Entries, e)
  /\ \A n : Page(n) = Paged(Entries, offset, n)
<1>1. \A e : Index(e) = Pos(Entries, e)
  BY DEF Index, Pos, Upto
<1> QED
  BY <1>1 DEF Page, Paged

(* What has not been returned and was there throughout is still to come. *)
StillAhead == ~gone => \A e \in stable \ listed : Pos(Entries, e) > offset

(* What has been returned, there still or not, has its place before the    *)
(* offset.                                                                 *)
AllBehind == ~come => twice = {} /\ \A e \in listed : Below(Entries, e) < offset

Inv == TypeOK /\ StillAhead /\ AllBehind /\ NothingMissed

LEMMA InvInit == Init => Inv
<1> SUFFICES ASSUME Init PROVE Inv
  OBVIOUS
<1>1. Cardinality(Name) \in Nat
  BY NameAssumption, FS_CardinalityType
<1>2. gone \in BOOLEAN /\ come \in BOOLEAN /\ exists \in BOOLEAN
  BY DEF Init
<1>3. TypeOK
  BY <1>1, <1>2 DEF Init, TypeOK
<1>4. Entries \subseteq Int /\ IsFiniteSet(Entries)
  BY <1>3, Finite DEF TypeOK, Entries
<1>5. ASSUME NEW e \in stable PROVE Pos(Entries, e) > offset
  <2>1. e \in Entries
    BY DEF Init, Entries
  <2>2. Pos(Entries, e) = Below(Entries, e) + 1 /\ Below(Entries, e) \in Nat
    BY <1>4, <2>1, PosBelow, Counts
  <2> QED
    BY <2>2 DEF Init
<1>6. listed = {} /\ twice = {} /\ scan = "open"
  BY DEF Init
<1> QED
  BY <1>3, <1>5, <1>6 DEF Inv, StillAhead, AllBehind, NothingMissed

(* A page keeps the invariant: it passes what it returns, and passes       *)
(* nothing else.                                                           *)
LEMMA PageKeeps ==
  ASSUME Inv, NEW n \in Nat \ {0}, Page(n) # {},
         offset' = NextOffset(Page(n)), listed' = listed \cup Page(n),
         twice' = twice \cup (listed \cap Page(n)),
         UNCHANGED <<names, exists, scan, stable, gone, come>>, scan = "open"
  PROVE  Inv'
<1> DEFINE P == Page(n)
<1>t. TypeOK /\ StillAhead /\ AllBehind
  BY DEF Inv
<1>1. /\ Entries \subseteq Int /\ IsFiniteSet(Entries)
      /\ Cardinality(Entries) <= Cardinality(Name) + 2
  BY <1>t, Finite DEF TypeOK, Entries
<1>2. offset \in Nat /\ Cardinality(Name) \in Nat /\ Cardinality(Entries) \in Nat
  BY <1>1, <1>t, NameAssumption, FS_CardinalityType DEF TypeOK
<1>3. P = Paged(Entries, offset, n) /\ P \subseteq Entries /\ P # {}
  BY AsPositions DEF Page
<1>4. Cardinality(P) \in Nat /\ Cardinality(P) <= n
  BY <1>1, <1>2, <1>3, PageFits
<1>5. offset' = offset + Cardinality(P)
  BY DEF NextOffset
<1>6. offset' <= Cardinality(Entries)
  BY <1>1, <1>2, <1>3, <1>5, PageWithin
<1>7. Entries' = Entries
  BY DEF Entries
<1> HIDE DEF P
<1>8. offset' \in 0..(Cardinality(Name) + 2)
  BY <1>1, <1>2, <1>4, <1>5, <1>6
<1>9. listed' = listed \cup P /\ twice' = twice \cup (listed \cap P)
  BY DEF P
<1>10. TypeOK'
  BY <1>t, <1>3, <1>8, <1>9 DEF TypeOK, Entries
<1>11. ASSUME ~gone', NEW e \in stable' \ listed'
       PROVE  Pos(Entries', e) > offset'
  <2>1. e \in stable \ listed /\ e \notin P /\ ~gone
    BY <1>9, <1>11
  <2>2. e \in Entries /\ Pos(Entries, e) > offset
    BY <1>t, <2>1 DEF StillAhead, TypeOK, Entries
  <2>3. Pos(Entries, e) \in Nat
    BY <1>1, Counts
  <2>4. ~(Pos(Entries, e) <= offset + n)
    BY <1>2, <1>3, <2>1, <2>2, <2>3 DEF Paged
  <2> QED
    BY <1>2, <1>4, <1>5, <1>7, <2>3, <2>4
<1>12. ASSUME ~come', NEW e \in listed'
       PROVE  Below(Entries', e) < offset'
  <2>1. Below(Entries, e) \in Nat
    BY <1>1, Counts
  <2>2. CASE e \in listed
    <3>1. Below(Entries, e) < offset
      BY <1>t, <1>12, <2>2 DEF AllBehind
    <3> QED
      BY <1>2, <1>4, <1>5, <1>7, <2>1, <3>1
  <2>3. CASE e \in P
    <3>1. Pos(Entries, e) <= offset + Cardinality(P)
      BY <1>1, <1>2, <1>3, <2>3, PagePassed
    <3>2. Pos(Entries, e) = Below(Entries, e) + 1
      BY <1>1, <1>3, <2>3, PosBelow
    <3> QED
      BY <1>2, <1>4, <1>5, <1>7, <2>1, <3>1, <3>2
  <2> QED
    BY <1>9, <2>2, <2>3
<1>13. ASSUME ~come', NEW e \in listed \cap P
       PROVE  FALSE
  <2>1. Below(Entries, e) < offset /\ Below(Entries, e) \in Nat
    BY <1>t, <1>1, <1>13, Counts DEF AllBehind
  <2>2. Pos(Entries, e) = Below(Entries, e) + 1
    BY <1>1, <1>3, <1>13, PosBelow
  <2>3. offset < Pos(Entries, e)
    BY <1>3, <1>13 DEF Paged
  <2> QED
    BY <1>2, <2>1, <2>2, <2>3
<1>14. ~come' => twice' = {}
  BY <1>t, <1>9, <1>13 DEF AllBehind
<1> QED
  BY <1>10, <1>11, <1>12, <1>14 DEF Inv, StillAhead, AllBehind, NothingMissed

LEMMA ReaddirKeeps == ASSUME Inv, Readdir PROVE Inv'
<1>1. PICK n \in 1..PageSize :
        \/ Page(n) = {} /\ scan' = "done" /\ UNCHANGED <<offset, listed, twice>>
        \/ /\ Page(n) # {} /\ offset' = NextOffset(Page(n)) /\ listed' = listed \cup Page(n)
           /\ twice' = twice \cup (listed \cap Page(n)) /\ UNCHANGED scan
  BY DEF Readdir
<1>2. n \in Nat \ {0}
  BY PageSizeAssumption
<1>3. UNCHANGED <<names, exists, stable, gone, come>> /\ scan = "open"
  BY DEF Readdir
<1>4. CASE Page(n) # {}
  BY <1>1, <1>2, <1>3, <1>4, PageKeeps
<1>5. CASE Page(n) = {}
  <2>t. TypeOK /\ StillAhead /\ AllBehind
    BY DEF Inv
  <2>0. Cardinality(Name) \in Nat
    BY NameAssumption, FS_CardinalityType
  <2>1. offset \in Nat
    BY <2>t, <2>0 DEF TypeOK
  <2>9. Entries \subseteq Int /\ IsFiniteSet(Entries)
    BY <2>t, Finite DEF TypeOK, Entries
  <2>2. Paged(Entries, offset, n) = {}
    BY <1>5, AsPositions
  <2>3. \A e \in Entries : Pos(Entries, e) <= offset /\ Pos(Entries, e) \in Nat
    BY <1>2, <2>1, <2>2, <2>9, PageEmpty, Counts
  <2>4. stable \subseteq Entries
    BY <2>t DEF TypeOK, Entries
  <2>5. ~gone => stable \subseteq listed
    BY <2>t, <2>1, <2>3, <2>4 DEF StillAhead
  <2>6. scan' = "done" /\ UNCHANGED <<names, exists, offset, listed, twice, stable, gone, come>>
    BY <1>1, <1>3, <1>5
  <2>7. TypeOK'
    BY <2>t, <2>6 DEF TypeOK
  <2>8. Entries' = Entries
    BY <2>6 DEF Entries
  <2> QED
    BY <2>t, <2>5, <2>6, <2>7, <2>8 DEF Inv, StillAhead, AllBehind, NothingMissed
<1> QED
  BY <1>4, <1>5

(* What another process does to the directory while the scan is open: it   *)
(* may take one name away and put one in.                                  *)
LEMMA ChangeKeeps ==
  ASSUME Inv, scan = "open", UNCHANGED <<offset, scan, listed, twice>>,
         TypeOK',
         stable' \subseteq stable,
         ~gone' => ~gone,
         ~come' => ~come,
         ~gone' => \A e \in stable' \ listed :
                     Pos(Entries, e) > offset => Pos(Entries', e) > offset,
         ~come' => \A e \in listed : Below(Entries, e) < offset => Below(Entries', e) < offset
  PROVE  Inv'
<1>1. StillAhead'
  BY DEF Inv, StillAhead
<1>2. AllBehind'
  BY DEF Inv, AllBehind
<1>3. NothingMissed'
  BY DEF NothingMissed
<1> QED
  BY <1>1, <1>2, <1>3 DEF Inv

LEMMA AppearKeeps ==
  ASSUME Inv, scan = "open", NEW a \in Name, Appear(a)
  PROVE  Inv'
<1>t. TypeOK
  BY DEF Inv
<1>1. names' = names \cup {a} /\ UNCHANGED <<exists, offset, scan, listed, twice, stable, gone>>
  BY DEF Appear
<1>2. come' \in BOOLEAN
  BY Zenon DEF Appear
<1>3. TypeOK'
  BY <1>t, <1>1, <1>2 DEF TypeOK
<1>4. ~come' => ~come /\ ~(Index(a)' <= offset)
  BY Zenon DEF Appear
<1>5. Entries \subseteq Int /\ IsFiniteSet(Entries) /\ IsFiniteSet(Entries')
  BY <1>t, <1>3, Finite DEF TypeOK, Entries
<1>6. Entries' = Entries \cup {a} /\ a \in Int
  BY <1>1, NameAssumption DEF Entries
<1>7. offset \in Nat
  BY <1>t, NameAssumption, FS_CardinalityType DEF TypeOK
<1>8. Index(a)' = Pos(Entries', a)
  BY DEF Index, Pos, Upto
<1>9. ASSUME NEW e, Pos(Entries, e) > offset
      PROVE  Pos(Entries', e) > offset
  <2>1. Pos(Entries, e) <= Pos(Entries', e)
    BY <1>5, <1>6, GrowthShiftsUp
  <2>2. Pos(Entries, e) \in Nat /\ Pos(Entries', e) \in Nat
    BY <1>5, Counts
  <2> QED
    BY <1>7, <1>9, <2>1, <2>2
<1>10. ASSUME ~come', NEW e \in listed, Below(Entries, e) < offset
       PROVE  Below(Entries', e) < offset
  <2>1. Pos(Entries', a) > offset
    <3>1. Pos(Entries', a) \in Nat
      BY <1>5, Counts
    <3> QED
      BY <1>4, <1>7, <1>8, <1>10, <3>1
  <2>2. e \in Int
    BY <1>t, NameAssumption DEF TypeOK, Dot, DotDot
  <2>3. Entries' \subseteq Entries \cup {a}
    BY <1>6
  <2> QED
    BY <1>5, <1>6, <1>7, <1>10, <2>1, <2>2, <2>3, InsertBehind
<1> QED
  BY <1>1, <1>3, <1>4, <1>9, <1>10, ChangeKeeps

(* b is a name that is there, or one that appears. *)
LEMMA TakeAwayKeeps ==
  ASSUME Inv, scan = "open", UNCHANGED <<offset, scan, listed, twice>>,
         NEW a \in names, NEW b \in Name, TypeOK', stable' = stable \ {a},
         names \ {a} \subseteq names', names' \subseteq names \cup {b},
         ~gone' => ~gone /\ ~(Index(a) <= offset),
         ~come' => ~come /\ (b \in names \/ ~(Index(b)' <= offset))
  PROVE  Inv'
<1>t. TypeOK
  BY DEF Inv
<1>1. /\ Entries \subseteq Int /\ IsFiniteSet(Entries)
      /\ Entries' \subseteq Int /\ IsFiniteSet(Entries')
  BY <1>t, Finite DEF TypeOK, Entries
<1>2. /\ a \in Entries /\ b \in Int /\ Entries \ {a} \subseteq Entries'
      /\ Entries' \subseteq Entries \cup {b} /\ (b \in names => b \in Entries)
  BY NameAssumption DEF Entries
<1>3. offset \in Nat
  BY <1>t, NameAssumption, FS_CardinalityType DEF TypeOK
<1>4. Index(a) = Pos(Entries, a) /\ Index(b)' = Pos(Entries', b)
  BY DEF Index, Pos, Upto
<1>5. Pos(Entries, a) \in Nat /\ Pos(Entries', b) \in Nat
  BY <1>1, Counts
<1>6. ASSUME ~gone', NEW e \in stable' \ listed, Pos(Entries, e) > offset
      PROVE  Pos(Entries', e) > offset
  <2>1. e \in Entries /\ e # a
    BY <1>t, <1>6 DEF TypeOK, Entries
  <2>2. Pos(Entries, a) > offset
    BY <1>3, <1>4, <1>5, <1>6
  <2> QED
    BY <1>1, <1>2, <1>3, <1>6, <2>1, <2>2, RemovalBehind
<1>7. ASSUME ~come', NEW e \in listed, Below(Entries, e) < offset
      PROVE  Below(Entries', e) < offset
  <2>1. b \in Entries \/ Pos(Entries', b) > offset
    BY <1>2, <1>3, <1>4, <1>5, <1>7
  <2>2. e \in Int
    BY <1>t, NameAssumption DEF TypeOK, Dot, DotDot
  <2> QED
    BY <1>1, <1>2, <1>3, <1>7, <2>1, <2>2, InsertBehind
<1>8. stable' \subseteq stable
  OBVIOUS
<1> QED
  BY <1>6, <1>7, <1>8, ChangeKeeps

LEMMA VanishKeeps ==
  ASSUME Inv, scan = "open", NEW a \in Name, Vanish(a)
  PROVE  Inv'
<1>t. TypeOK
  BY DEF Inv
<1>1. /\ a \in names /\ names' = names \ {a} /\ stable' = stable \ {a}
      /\ UNCHANGED <<exists, offset, scan, listed, twice, come>>
  BY DEF Vanish
<1>2. gone' \in BOOLEAN
  BY Zenon DEF Vanish
<1>3. TypeOK'
  BY <1>t, <1>1, <1>2 DEF TypeOK
<1>4. ~gone' => ~gone /\ ~(Index(a) <= offset)
  BY Zenon DEF Vanish
<1>5. ~come' => ~come /\ a \in names
  BY <1>1
<1>6. names \ {a} \subseteq names' /\ names' \subseteq names \cup {a}
  BY <1>1
<1> QED
  BY <1>1, <1>3, <1>4, <1>5, <1>6, TakeAwayKeeps

LEMMA RenameKeeps ==
  ASSUME Inv, scan = "open", NEW a \in Name, NEW b \in Name, RenameWithin(a, b)
  PROVE  Inv'
<1>t. TypeOK
  BY DEF Inv
<1>1. /\ a \in names /\ names' = (names \ {a}) \cup {b} /\ stable' = stable \ {a}
      /\ UNCHANGED <<exists, offset, scan, listed, twice>>
  BY DEF RenameWithin
<1>2. gone' \in BOOLEAN /\ come' \in BOOLEAN
  BY Zenon DEF RenameWithin
<1>3. TypeOK'
  BY <1>t, <1>1, <1>2 DEF TypeOK
<1>4. ~gone' => ~gone /\ ~(Index(a) <= offset)
  BY Zenon DEF RenameWithin
<1>5. ~come' => ~come /\ (b \in names \/ ~(Index(b)' <= offset))
  BY Zenon DEF RenameWithin
<1>6. names \ {a} \subseteq names' /\ names' \subseteq names \cup {b}
  BY <1>1
<1> QED
  BY <1>1, <1>3, <1>4, <1>5, <1>6, TakeAwayKeeps

LEMMA InvStep == Inv /\ [Next]_vars => Inv'
<1> SUFFICES ASSUME Inv, [Next]_vars PROVE Inv'
  OBVIOUS
<1>1. CASE Readdir
  BY <1>1, ReaddirKeeps
<1>2. CASE ReaddirGone
  <2>1. UNCHANGED <<names, exists, offset, listed, twice, stable, gone, come>> /\ scan' = "failed"
    BY <1>2 DEF ReaddirGone, observers
  <2>2. TypeOK' /\ Entries' = Entries
    BY <2>1 DEF Inv, TypeOK, Entries
  <2> QED
    BY <2>1, <2>2 DEF Inv, StillAhead, AllBehind, NothingMissed
<1>3. ASSUME scan = "open", NEW a \in Name, Appear(a) \/ Vanish(a)
      PROVE  Inv'
  BY <1>3, AppearKeeps, VanishKeeps
<1>4. ASSUME scan = "open", NEW a \in Name, NEW b \in Name, RenameWithin(a, b)
      PROVE  Inv'
  BY <1>4, RenameKeeps
<1>5. CASE Rmdir
  <2>1. UNCHANGED <<names, scan, offset, listed, twice, stable, gone, come>> /\ exists' = FALSE
    BY <1>5 DEF Rmdir, observers
  <2>2. exists' \in BOOLEAN
    BY <2>1
  <2>3. TypeOK' /\ Entries' = Entries
    BY <2>1, <2>2 DEF Inv, TypeOK, Entries
  <2> QED
    BY <2>1, <2>3 DEF Inv, StillAhead, AllBehind, NothingMissed
<1>6. CASE UNCHANGED vars
  <2>1. UNCHANGED <<names, exists, scan, offset, listed, twice, stable, gone, come>>
    BY <1>6 DEF vars, observers
  <2>2. TypeOK' /\ Entries' = Entries
    BY <2>1 DEF Inv, TypeOK, Entries
  <2> QED
    BY <2>1, <2>2 DEF Inv, StillAhead, AllBehind, NothingMissed
<1> QED
  BY <1>1, <1>2, <1>3, <1>4, <1>5, <1>6 DEF Next, Scan, Others

LEMMA Invariance == Spec => []Inv
  BY InvInit, InvStep, PTL DEF Spec

-----------------------------------------------------------------------------
(* An offset readdir hands out is never behind the end of the list it was  *)
(* made from, so it stays within the names there are.                      *)
THEOREM TypeCorrect == Spec => []TypeOK
<1>1. Inv => TypeOK
  BY DEF Inv
<1> QED
  BY <1>1, Invariance, PTL

(* For any directory, any size of readdir's buffer and any changes made    *)
(* meanwhile: a finished scan has missed a name that was there throughout  *)
(* only if an entry it had passed was removed.                             *)
THEOREM MissesOnlyAfterRemoval == Spec => []NothingMissed
<1>1. Inv => NothingMissed
  BY DEF Inv
<1> QED
  BY <1>1, Invariance, PTL

(* And readdir returns a name twice only if one appeared among the entries *)
(* the scan had passed.                                                    *)
THEOREM RepeatsOnlyAfterInsertion == Spec => []NothingTwice
<1>1. Inv => NothingTwice
  BY DEF Inv, AllBehind, NothingTwice
<1> QED
  BY <1>1, Invariance, PTL

=============================================================================
