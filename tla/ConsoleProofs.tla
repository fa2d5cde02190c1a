--------------------------- MODULE ConsoleProofs ----------------------------
(***************************************************************************)
(* Theorems about the console plane and the terminal that drives it, for   *)
(* every geometry, every set of clusters, widths and break rules, every    *)
(* capacity and every ceiling of the parser.                               *)
(*                                                                         *)
(* Good, Fair and Kept are what the plane's proofs rest on; Reached, Seen  *)
(* and Led carry them through a byte of the terminal, StagesAre through a  *)
(* call, and TermInv through a history of calls.                           *)
(***************************************************************************)
EXTENDS Terminal, FiniteSetTheorems, WellFoundedInduction, TLAPS

-----------------------------------------------------------------------------
(* Numbers and sequences.                                                  *)

\* A set of natural numbers that is not empty has a least element.
LEMMA LeastExists ==
    ASSUME NEW I \in SUBSET Nat, I # {}
    PROVE  \E x \in I : \A y \in I : x <= y
<1>1. PICK x \in I : \A y \in I : ~(<<y, x>> \in OpToRel(<, Nat))
    BY NatLessThanWellFounded, WFMin
<1>2. \A y \in I : x <= y
  <2> SUFFICES ASSUME NEW y \in I PROVE ~(y < x)
      OBVIOUS
  <2>1. OpToRel(<, Nat) = {s \in Nat \X Nat : s[1] < s[2]}
      BY Zenon DEF OpToRel
  <2>2. y < x => <<y, x>> \in {s \in Nat \X Nat : s[1] < s[2]}
      OBVIOUS
  <2> QED BY <1>1, <2>1, <2>2
<1> QED BY <1>2

\* The numbers of a finite set are enumerated in increasing order.
LEMMA NthIs ==
    ASSUME NEW I \in SUBSET Int, IsFiniteSet(I)
    PROVE  /\ Cardinality(I) \in Nat
           /\ \A i \in 1 .. Cardinality(I) : Nth(I, i) \in I
           /\ \A n \in I : \E i \in 1 .. Cardinality(I) : Nth(I, i) = n
           /\ \A i, j \in 1 .. Cardinality(I) : Nth(I, i) = Nth(I, j) => i = j
<1> DEFINE UpTo(n) == {m \in I : m <= n}
           rank == [n \in I |-> Cardinality(UpTo(n))]
<1>1. Cardinality(I) \in Nat BY FS_CardinalityType
<1>2. ASSUME NEW n \in I
      PROVE  /\ IsFiniteSet(UpTo(n)) /\ Cardinality(UpTo(n)) \in 1 .. Cardinality(I)
  <2>1. UpTo(n) \in SUBSET I OBVIOUS
  <2>2. IsFiniteSet(UpTo(n)) /\ Cardinality(UpTo(n)) <= Cardinality(I)
      BY <2>1, FS_Subset
  <2>3. n \in UpTo(n) OBVIOUS
  <2>4. Cardinality(UpTo(n)) \in Nat /\ Cardinality(UpTo(n)) # 0
      BY <2>2, <2>3, FS_CardinalityType, FS_EmptySet
  <2> QED BY <2>2, <2>4, <1>1
<1>3. ASSUME NEW m \in I, NEW n \in I, m < n
      PROVE  Cardinality(UpTo(m)) # Cardinality(UpTo(n))
  <2>1. ASSUME NEW x \in UpTo(m) PROVE x \in UpTo(n)
    <3>1. x \in Int /\ m \in Int /\ n \in Int /\ x <= m OBVIOUS
    <3> QED BY <3>1, <1>3
  <2>2. n \in UpTo(n) /\ n \notin UpTo(m) BY <1>3
  <2>3. IsFiniteSet(UpTo(n)) BY <1>2
  <2> HIDE DEF UpTo
  <2> QED BY <2>1, <2>2, <2>3, FS_Subset
<1> HIDE DEF UpTo
<1>4. rank \in Injection(I, 1 .. Cardinality(I))
  <2>1. rank \in [I -> 1 .. Cardinality(I)] BY <1>2
  <2>2. ASSUME NEW m \in I, NEW n \in I, rank[m] = rank[n] PROVE m = n
      BY <2>2, <1>3
  <2> QED BY <2>1, <2>2 DEF Injection, IsInjective
<1>5. rank \in Surjection(I, 1 .. Cardinality(I))
  <2>1. /\ IsFiniteSet(1 .. Cardinality(I))
        /\ Cardinality(1 .. Cardinality(I)) = Cardinality(I)
      BY <1>1, FS_Interval
  <2> QED BY <1>4, <2>1, FS_Injection
<1>6. \A i \in 1 .. Cardinality(I) : \E n \in I : Cardinality(UpTo(n)) = i
    BY <1>5 DEF Surjection
<1>7. ASSUME NEW i \in 1 .. Cardinality(I)
      PROVE  Nth(I, i) \in I /\ Cardinality(UpTo(Nth(I, i))) = i
  <2>1. Nth(I, i) = CHOOSE n \in I : Cardinality(UpTo(n)) = i
      BY DEF Nth, UpTo
  <2> QED BY <2>1, <1>6
<1>8. ASSUME NEW n \in I PROVE \E i \in 1 .. Cardinality(I) : Nth(I, i) = n
  <2> DEFINE i == Cardinality(UpTo(n))
  <2>1. i \in 1 .. Cardinality(I) BY <1>2
  <2>2. Nth(I, i) \in I /\ Cardinality(UpTo(Nth(I, i))) = i BY <2>1, <1>7
  <2>3. ~(Nth(I, i) < n) /\ ~(n < Nth(I, i)) BY <2>2, <1>3
  <2>4. Nth(I, i) \in Int /\ n \in Int BY <2>2
  <2> HIDE DEF i
  <2>5. Nth(I, i) = n BY <2>3, <2>4
  <2> QED BY <2>1, <2>5
<1> QED BY <1>1, <1>7, <1>8

\* The elements of a sequence at some of its indices.
LEMMA PickedIs ==
    ASSUME NEW S, NEW s \in Seq(S), NEW I \in SUBSET DOMAIN s
    PROVE  /\ Picked(s, I) \in Seq(S)
           /\ Len(Picked(s, I)) \in Nat /\ Len(Picked(s, I)) <= Len(s)
           /\ DOMAIN Picked(s, I) = 1 .. Cardinality(I)
           /\ \A i \in DOMAIN Picked(s, I) :
                 Nth(I, i) \in I /\ Picked(s, I)[i] = s[Nth(I, i)]
           /\ \A n \in I : \E i \in DOMAIN Picked(s, I) : Nth(I, i) = n
           /\ \A i, j \in DOMAIN Picked(s, I) : Nth(I, i) = Nth(I, j) => i = j
<1>1. DOMAIN s = 1 .. Len(s) /\ Len(s) \in Nat OBVIOUS
<1>2. IsFiniteSet(1 .. Len(s)) /\ Cardinality(1 .. Len(s)) = Len(s)
  <2>1. 1 \in Int /\ Len(s) \in Int BY <1>1
  <2>2. /\ IsFiniteSet(1 .. Len(s))
        /\ Cardinality(1 .. Len(s)) = IF 1 > Len(s) THEN 0 ELSE Len(s) - 1 + 1
      BY <2>1, FS_Interval
  <2> QED BY <1>1, <2>2
<1>3. IsFiniteSet(I) /\ Cardinality(I) <= Len(s) BY <1>1, <1>2, FS_Subset
<1>4. I \in SUBSET Int BY <1>1
<1>5. /\ Cardinality(I) \in Nat
      /\ \A i \in 1 .. Cardinality(I) : Nth(I, i) \in I
      /\ \A n \in I : \E i \in 1 .. Cardinality(I) : Nth(I, i) = n
      /\ \A i, j \in 1 .. Cardinality(I) : Nth(I, i) = Nth(I, j) => i = j
    BY <1>3, <1>4, NthIs
<1>6. Picked(s, I) = [i \in 1 .. Cardinality(I) |-> s[Nth(I, i)]] BY DEF Picked
<1>7. \A i \in 1 .. Cardinality(I) : s[Nth(I, i)] \in S BY <1>1, <1>5
<1>8. Picked(s, I) \in [1 .. Cardinality(I) -> S] BY <1>6, <1>7
<1>9. Picked(s, I) \in Seq(S) /\ Len(Picked(s, I)) = Cardinality(I)
    BY <1>5, <1>8
<1> QED BY <1>3, <1>5, <1>6, <1>9

\* A function that is defined step by step within a set exists.
StepRuns(f, n, t, step) ==
    f[0] = t /\ \A i \in 1 .. n : f[i] = step[<<i, f[i - 1]>>]

LEMMA StepsExist ==
    ASSUME NEW T, NEW n \in Nat, NEW t \in T, NEW step \in [(1 .. n) \X T -> T]
    PROVE  \E f \in [0 .. n -> T] : StepRuns(f, n, t, step)
<1> DEFINE Runs(m, f) == StepRuns(f, m, t, step)
           bad == {m \in 0 .. n : ~ \E f \in [0 .. m -> T] : Runs(m, f)}
<1> SUFFICES ASSUME bad # {} PROVE FALSE
  <2>1. n \in 0 .. n OBVIOUS
  <2> QED BY <2>1
<1> USE DEF StepRuns
<1>1. bad \in SUBSET Nat OBVIOUS
<1>2. PICK m \in bad : \A y \in bad : m <= y BY <1>1, LeastExists
<1>3. m \in 0 .. n BY <1>2
<1>4. m # 0
  <2>1. Runs(0, [i \in 0 .. 0 |-> t]) OBVIOUS
  <2>2. [i \in 0 .. 0 |-> t] \in [0 .. 0 -> T] OBVIOUS
  <2> HIDE DEF Runs
  <2> QED BY <1>2, <2>1, <2>2
<1>5. m - 1 \in 0 .. n /\ ~(m <= m - 1) BY <1>3, <1>4
<1>6. PICK f \in [0 .. m - 1 -> T] : Runs(m - 1, f) BY <1>2, <1>5
<1> DEFINE g == [i \in 0 .. m |-> IF i = m THEN step[<<m, f[m - 1]>>] ELSE f[i]]
<1>7. g \in [0 .. m -> T]
  <2>1. f[m - 1] \in T BY <1>3, <1>4
  <2>2. <<m, f[m - 1]>> \in (1 .. n) \X T BY <2>1, <1>3, <1>4
  <2>3. step[<<m, f[m - 1]>>] \in T BY <2>2
  <2>4. \A i \in 0 .. m : i # m => i \in 0 .. m - 1 BY <1>3
  <2> QED BY <2>3, <2>4
<1>8. Runs(m, g)
  <2>1. g[0] = t BY <1>3, <1>4, <1>6
  <2>2. ASSUME NEW i \in 1 .. m PROVE g[i] = step[<<i, g[i - 1]>>]
    <3>1. i - 1 \in 0 .. m /\ i - 1 # m /\ g[i - 1] = f[i - 1] BY <1>3
    <3>2. CASE i = m BY <3>1, <3>2
    <3>3. CASE i # m
      <4>1. i \in 1 .. m - 1 BY <3>3, <1>3
      <4> QED BY <4>1, <3>1, <3>3, <1>6
    <3> QED BY <3>2, <3>3
  <2> QED BY <2>1, <2>2
<1> HIDE DEF g, Runs
<1> QED BY <1>2, <1>7, <1>8

-----------------------------------------------------------------------------
(* Planes.                                                                 *)

Statuses == {"OK", "E_CLUSTER", "E_COL_RANGE", "E_CAPACITY"}

Planes == [cells : [RowIds \X ColIds -> Cell],
           recs : {s \in Seq(ClusterRecord) : Len(s) <= MaxClusters},
           row : RowIds, col : 0 .. Cols, style : Styles, wrap : BOOLEAN,
           dirty : SUBSET RowIds, dirtyAll : BOOLEAN,
           writes : Nat, status : Statuses]

\* No two records at one position; what is recorded takes cells.
Distinct(p) ==
    \A i, j \in DOMAIN p.recs :
        p.recs[i].row = p.recs[j].row /\ p.recs[i].col = p.recs[j].col => i = j
Tall(p) == \A i \in DOMAIN p.recs : Width[p.recs[i].text] \in {1, 2}

\* The cell that a record stands on.
OnCell(p, x) ==
    /\ p.cells[<<x.row, x.col>>].glyph = Base[x.text]
    /\ p.cells[<<x.row, x.col>>].part = IF Width[x.text] = 2 THEN "lead" ELSE "whole"
OnCells(p) == \A i \in DOMAIN p.recs : OnCell(p, p.recs[i])

\* No record on the right half of a pair.
OffTails(p) ==
    \A i \in DOMAIN p.recs : p.cells[<<p.recs[i].row, p.recs[i].col>>].part # "tail"

\* A plane that may have parts of wide pairs, and a plane that is sound.
Fair(p) == p \in Planes /\ Distinct(p) /\ Tall(p) /\ OffTails(p)
Good(p) == Fair(p) /\ Whole(p) /\ OnCells(p)

\* What every operation of the plane preserves: either one.
Kept(p, q) == Fair(q) /\ (Good(p) => Good(q))

LEMMA PlaneFields ==
    ASSUME NEW p \in Planes
    PROVE  /\ p.cells \in [RowIds \X ColIds -> Cell]
           /\ p.recs \in Seq(ClusterRecord) /\ Len(p.recs) <= MaxClusters
           /\ Len(p.recs) \in Nat /\ DOMAIN p.recs = 1 .. Len(p.recs)
           /\ p.row \in RowIds /\ p.col \in 0 .. Cols /\ p.style \in Styles
           /\ p.wrap \in BOOLEAN /\ p.dirty \in SUBSET RowIds
           /\ p.dirtyAll \in BOOLEAN /\ p.writes \in Nat
           /\ p.status \in Statuses
BY DEF Planes

LEMMA SameCellsWhole ==
    ASSUME NEW p, NEW q, q.cells = p.cells, Whole(p)
    PROVE  Whole(q)
<1> DEFINE AllWhole(f) ==
        \A r \in RowIds, c \in ColIds :
            /\ f[<<r, c>>].part = "lead" =>
                  c + 1 \in ColIds /\ f[<<r, c + 1>>].part = "tail"
            /\ f[<<r, c>>].part = "tail" =>
                  c > 0 /\ f[<<r, c - 1>>].part = "lead"
<1>1. AllWhole(p.cells) BY Zenon DEF Whole
<1> HIDE DEF AllWhole
<1>2. AllWhole(q.cells) BY <1>1
<1> QED BY <1>2, Zenon DEF Whole, AllWhole

\* The search for a record finds the only one at a position.
LEMMA RecordAtIs ==
    ASSUME NEW p, NEW n \in Nat, DOMAIN p.recs = 1 .. n, NEW r, NEW c
    PROVE  IF \E i \in DOMAIN p.recs : p.recs[i].row = r /\ p.recs[i].col = c
           THEN /\ RecordAt(p, r, c) \in DOMAIN p.recs
                /\ p.recs[RecordAt(p, r, c)].row = r
                /\ p.recs[RecordAt(p, r, c)].col = c
                /\ RecordAt(p, r, c) # 0
           ELSE RecordAt(p, r, c) = 0
<1> DEFINE at == {i \in DOMAIN p.recs : p.recs[i].row = r /\ p.recs[i].col = c}
<1>1. RecordAt(p, r, c) = IF at = {} THEN 0 ELSE Nth(at, 1) BY DEF RecordAt
<1>2. CASE at = {} BY <1>1, <1>2
<1>3. CASE at # {}
  <2>1. IsFiniteSet(at) /\ at \in SUBSET Int
    <3>1. IsFiniteSet(1 .. n) BY FS_Interval
    <3>2. at \in SUBSET (1 .. n) OBVIOUS
    <3> QED BY <3>1, <3>2, FS_Subset
  <2> HIDE DEF at
  <2>2. Cardinality(at) \in Nat /\ Cardinality(at) # 0
      BY <1>3, <2>1, FS_CardinalityType, FS_EmptySet
  <2>3. Nth(at, 1) \in at BY <2>1, <2>2, NthIs
  <2> QED BY <1>1, <1>3, <2>3 DEF at
<1> QED BY <1>2, <1>3

LEMMA MatchingIs ==
    ASSUME NEW p \in Planes
    PROVE  Matching(p) <=> Distinct(p) /\ OnCells(p)
<1>1. Len(p.recs) \in Nat /\ DOMAIN p.recs = 1 .. Len(p.recs) BY PlaneFields
<1>2. Matching(p) <=>
          /\ \A i \in DOMAIN p.recs : RecordAt(p, p.recs[i].row, p.recs[i].col) = i
          /\ OnCells(p)
    BY DEF Matching, OnCells, OnCell
<1>3. ASSUME Distinct(p), NEW i \in DOMAIN p.recs
      PROVE  RecordAt(p, p.recs[i].row, p.recs[i].col) = i
  <2> DEFINE k == RecordAt(p, p.recs[i].row, p.recs[i].col)
  <2>1. /\ k \in DOMAIN p.recs
        /\ p.recs[k].row = p.recs[i].row /\ p.recs[k].col = p.recs[i].col
      BY <1>1, RecordAtIs
  <2> QED BY <1>3, <2>1 DEF Distinct
<1>4. ASSUME \A i \in DOMAIN p.recs : RecordAt(p, p.recs[i].row, p.recs[i].col) = i
      PROVE  Distinct(p)
    BY <1>4 DEF Distinct
<1> QED BY <1>2, <1>3, <1>4

\* Blanking cells that no pair leaves and no record stands on.
Closed(p, Q) ==
    \A r \in RowIds, c \in ColIds :
        p.cells[<<r, c>>].part = "lead" =>
            (<<r, c>> \in Q <=> <<r, c + 1>> \in Q)

LEMMA SetBlanksIs ==
    ASSUME NEW p \in Planes, NEW Q
    PROVE  /\ SetBlanks(p, Q) \in Planes
           /\ \A f \in {"recs", "row", "col", "style", "wrap", "dirty", "dirtyAll",
                        "writes", "status"} : SetBlanks(p, Q)[f] = p[f]
           /\ SetBlanks(p, Q).recs = p.recs
           /\ \A r \in RowIds, c \in ColIds :
                 SetBlanks(p, Q).cells[<<r, c>>] =
                     IF <<r, c>> \in Q THEN BlankCell(p) ELSE p.cells[<<r, c>>]
           /\ BlankCell(p) \in Cell
           /\ BlankCell(p).glyph = Blank /\ BlankCell(p).part = "whole"
<1>1. BlankCell(p) \in Cell /\ BlankCell(p).glyph = Blank /\ BlankCell(p).part = "whole"
    BY DEF BlankCell, Cell, Planes
<1>2. DOMAIN p.cells = RowIds \X ColIds /\ p.cells \in [RowIds \X ColIds -> Cell]
    BY DEF Planes
<1> DEFINE cells == [q \in RowIds \X ColIds |->
                        IF q \in Q THEN BlankCell(p) ELSE p.cells[q]]
<1>3. SetBlanks(p, Q) = [p EXCEPT !.cells = cells] BY <1>2 DEF SetBlanks
<1>4. cells \in [RowIds \X ColIds -> Cell] BY <1>1, <1>2
<1>5. \A r \in RowIds, c \in ColIds :
          cells[<<r, c>>] = IF <<r, c>> \in Q THEN BlankCell(p) ELSE p.cells[<<r, c>>]
    OBVIOUS
<1> HIDE DEF cells
<1> QED BY <1>1, <1>3, <1>4, <1>5 DEF Planes

-----------------------------------------------------------------------------
(* Records that are removed, and cells that are blanked.                   *)

Recs(p) == {p.recs[i] : i \in DOMAIN p.recs}

\* Everything but cells and records.
SameRegisters(p, q) ==
    /\ q.row = p.row /\ q.col = p.col /\ q.style = p.style /\ q.wrap = p.wrap
    /\ q.dirty = p.dirty /\ q.dirtyAll = p.dirtyAll
    /\ q.writes = p.writes /\ q.status = p.status

\* The content of a row.
SameRow(p, q, r) ==
    /\ \A c \in ColIds : q.cells[<<r, c>>] = p.cells[<<r, c>>]
    /\ \A x \in ClusterRecord : x.row = r => (x \in Recs(q) <=> x \in Recs(p))

\* q is p with the positions Q blank, and some records of their rows removed.
Blanked(p, q, Q) ==
    /\ q \in Planes /\ Distinct(q) /\ SameRegisters(p, q)
    /\ \A r \in RowIds, c \in ColIds :
          IF <<r, c>> \in Q
          THEN /\ q.cells[<<r, c>>].glyph = Blank
               /\ q.cells[<<r, c>>].part = "whole"
          ELSE q.cells[<<r, c>>] = p.cells[<<r, c>>]
    /\ Recs(q) \in SUBSET Recs(p)
    /\ \A x \in Recs(p) \ Recs(q) : \E c \in ColIds : <<x.row, c>> \in Q

LEMMA RecsAre ==
    ASSUME NEW p \in Planes
    PROVE  /\ Recs(p) \in SUBSET ClusterRecord
           /\ \A x \in Recs(p) : x.row \in RowIds /\ x.col \in ColIds /\ x.text \in Clusters
           /\ OnCells(p) <=> \A x \in Recs(p) : OnCell(p, x)
           /\ Tall(p) <=> \A x \in Recs(p) : Width[x.text] \in {1, 2}
           /\ OffTails(p) <=> \A x \in Recs(p) : p.cells[<<x.row, x.col>>].part # "tail"
           /\ Distinct(p) => \A x, y \in Recs(p) :
                                x.row = y.row /\ x.col = y.col => x = y
<1>1. /\ p.recs \in Seq(ClusterRecord)
      /\ \A i \in DOMAIN p.recs : p.recs[i] \in ClusterRecord
    BY PlaneFields
<1>2. Recs(p) \in SUBSET ClusterRecord BY <1>1 DEF Recs
<1>3. \A x \in ClusterRecord : x.row \in RowIds /\ x.col \in ColIds /\ x.text \in Clusters
    BY DEF ClusterRecord
<1>4. OnCells(p) <=> \A x \in Recs(p) : OnCell(p, x) BY DEF OnCells, Recs
<1>5. Tall(p) <=> \A x \in Recs(p) : Width[x.text] \in {1, 2} BY DEF Tall, Recs
<1>6. Distinct(p) => \A x, y \in Recs(p) : x.row = y.row /\ x.col = y.col => x = y
    BY DEF Distinct, Recs
<1>7. OffTails(p) <=> \A x \in Recs(p) : p.cells[<<x.row, x.col>>].part # "tail"
    BY DEF OffTails, Recs
<1> QED BY <1>2, <1>3, <1>4, <1>5, <1>6, <1>7

\* The records at some of the indices.
LEMMA RecordsPicked ==
    ASSUME NEW p \in Planes, Distinct(p), NEW I \in SUBSET DOMAIN p.recs
    PROVE  LET q == [p EXCEPT !.recs = Picked(p.recs, I)]
           IN  /\ q \in Planes /\ Distinct(q) /\ SameRegisters(p, q)
               /\ q.cells = p.cells
               /\ Recs(q) = {p.recs[i] : i \in I}
<1> DEFINE q == [p EXCEPT !.recs = Picked(p.recs, I)]
<1>1. /\ p.recs \in Seq(ClusterRecord) /\ Len(p.recs) <= MaxClusters /\ Len(p.recs) \in Nat
    BY PlaneFields
<1>2. /\ Picked(p.recs, I) \in Seq(ClusterRecord)
      /\ Len(Picked(p.recs, I)) \in Nat /\ Len(Picked(p.recs, I)) <= Len(p.recs)
      /\ \A i \in DOMAIN Picked(p.recs, I) :
            Nth(I, i) \in I /\ Picked(p.recs, I)[i] = p.recs[Nth(I, i)]
      /\ \A n \in I : \E i \in DOMAIN Picked(p.recs, I) : Nth(I, i) = n
      /\ \A i, j \in DOMAIN Picked(p.recs, I) : Nth(I, i) = Nth(I, j) => i = j
    BY <1>1, PickedIs, SMTT(40)
<1>3. q.recs = Picked(p.recs, I) /\ q.cells = p.cells /\ SameRegisters(p, q)
    BY DEF Planes, SameRegisters
<1>4. Len(Picked(p.recs, I)) <= MaxClusters BY <1>1, <1>2, ConsoleAssumption
<1>5. q \in Planes BY <1>2, <1>4 DEF Planes
<1> HIDE DEF q
<1>6. Distinct(q)
  <2> SUFFICES ASSUME NEW i \in DOMAIN q.recs, NEW j \in DOMAIN q.recs,
                      q.recs[i].row = q.recs[j].row, q.recs[i].col = q.recs[j].col
               PROVE  i = j
      BY DEF Distinct
  <2>1. /\ Nth(I, i) \in DOMAIN p.recs /\ q.recs[i] = p.recs[Nth(I, i)]
        /\ Nth(I, j) \in DOMAIN p.recs /\ q.recs[j] = p.recs[Nth(I, j)]
      BY <1>2, <1>3
  <2>2. Nth(I, i) = Nth(I, j) BY <2>1 DEF Distinct
  <2> QED BY <2>2, <1>2, <1>3
<1>7. Recs(q) = {p.recs[i] : i \in I}
  <2>1. ASSUME NEW i \in DOMAIN q.recs PROVE q.recs[i] \in {p.recs[n] : n \in I}
      BY <1>2, <1>3
  <2>2. ASSUME NEW n \in I PROVE \E i \in DOMAIN q.recs : q.recs[i] = p.recs[n]
      BY <1>2, <1>3
  <2> QED BY <2>1, <2>2 DEF Recs
<1> QED BY <1>3, <1>5, <1>6, <1>7 DEF q

LEMMA WithoutRecordIs ==
    ASSUME NEW p \in Planes, Distinct(p), NEW r, NEW c
    PROVE  LET q == WithoutRecord(p, r, c)
           IN  /\ q \in Planes /\ Distinct(q) /\ SameRegisters(p, q)
               /\ q.cells = p.cells
               /\ Recs(q) = {x \in Recs(p) : ~(x.row = r /\ x.col = c)}
<1> DEFINE k == RecordAt(p, r, c)
<1>1. Len(p.recs) \in Nat /\ DOMAIN p.recs = 1 .. Len(p.recs) BY PlaneFields
<1>2. CASE \E i \in DOMAIN p.recs : p.recs[i].row = r /\ p.recs[i].col = c
  <2>1. k \in DOMAIN p.recs /\ p.recs[k].row = r /\ p.recs[k].col = c /\ k # 0
      BY <1>1, <1>2, RecordAtIs
  <2> DEFINE I == DOMAIN p.recs \ {k}
             q == [p EXCEPT !.recs = Picked(p.recs, I)]
  <2>2. WithoutRecord(p, r, c) = q BY <2>1 DEF WithoutRecord, Planes
  <2>3. /\ q \in Planes /\ Distinct(q) /\ SameRegisters(p, q)
        /\ q.cells = p.cells
        /\ Recs(q) = {p.recs[i] : i \in I}
      BY RecordsPicked
  <2>4. {p.recs[i] : i \in I} = {x \in Recs(p) : ~(x.row = r /\ x.col = c)}
    <3>1. \A i \in I : ~(p.recs[i].row = r /\ p.recs[i].col = c)
        BY <2>1 DEF Distinct
    <3> QED BY <2>1, <3>1 DEF Recs
  <2> HIDE DEF q, I
  <2> QED BY <2>2, <2>3, <2>4
<1>3. CASE ~ \E i \in DOMAIN p.recs : p.recs[i].row = r /\ p.recs[i].col = c
  <2>1. k = 0 BY <1>1, <1>3, RecordAtIs
  <2>2. WithoutRecord(p, r, c) = p BY <2>1 DEF WithoutRecord
  <2>3. Recs(p) = {x \in Recs(p) : ~(x.row = r /\ x.col = c)} BY <1>3 DEF Recs
  <2> QED BY <2>2, <2>3 DEF SameRegisters
<1> QED BY <1>2, <1>3

\* Blanking cells keeps a plane fair ...
LEMMA BlankedFair ==
    ASSUME NEW p, Fair(p), NEW q, NEW Q, Blanked(p, q, Q)
    PROVE  /\ Fair(q)
           /\ \A r \in RowIds : (\A c \in ColIds : <<r, c>> \notin Q) => SameRow(p, q, r)
<1>1. p \in Planes /\ q \in Planes /\ Distinct(q) BY DEF Fair, Blanked
<1>2. \A r \in RowIds, c \in ColIds :
          IF <<r, c>> \in Q
          THEN q.cells[<<r, c>>].glyph = Blank /\ q.cells[<<r, c>>].part = "whole"
          ELSE q.cells[<<r, c>>] = p.cells[<<r, c>>]
    BY DEF Blanked
<1>3. \A x \in Recs(q) : x \in Recs(p) BY DEF Blanked
<1>4. Tall(q) BY <1>1, <1>3, RecsAre DEF Fair
<1>5. OffTails(q)
  <2> SUFFICES ASSUME NEW x \in Recs(q) PROVE q.cells[<<x.row, x.col>>].part # "tail"
      BY <1>1, RecsAre
  <2>1. x.row \in RowIds /\ x.col \in ColIds BY <1>1, RecsAre
  <2>2. p.cells[<<x.row, x.col>>].part # "tail" BY <1>1, <1>3, RecsAre DEF Fair
  <2> QED BY <2>1, <2>2, <1>2
<1>6. ASSUME NEW r \in RowIds, \A c \in ColIds : <<r, c>> \notin Q
      PROVE  SameRow(p, q, r)
  <2>1. \A c \in ColIds : q.cells[<<r, c>>] = p.cells[<<r, c>>] BY <1>2, <1>6
  <2>2. \A x \in ClusterRecord : x.row = r => (x \in Recs(q) <=> x \in Recs(p))
      BY <1>3, <1>6 DEF Blanked
  <2> QED BY <2>1, <2>2 DEF SameRow
<1> QED BY <1>1, <1>4, <1>5, <1>6 DEF Fair

\* ... and blanking whole pairs with all their records keeps it sound.
LEMMA BlankedGood ==
    ASSUME NEW p, Good(p), NEW q, NEW Q, Blanked(p, q, Q), Closed(p, Q),
           \A x \in Recs(q) : <<x.row, x.col>> \notin Q
    PROVE  Good(q)
<1>1. p \in Planes /\ q \in Planes /\ Whole(p) /\ Fair(p) BY DEF Good, Fair, Blanked
<1>2. \A r \in RowIds, c \in ColIds :
          IF <<r, c>> \in Q
          THEN q.cells[<<r, c>>].glyph = Blank /\ q.cells[<<r, c>>].part = "whole"
          ELSE q.cells[<<r, c>>] = p.cells[<<r, c>>]
    BY DEF Blanked
<1>3. \A x \in Recs(q) : x \in Recs(p) /\ <<x.row, x.col>> \notin Q BY DEF Blanked
<1>4. Whole(q)
  <2> SUFFICES ASSUME NEW r \in RowIds, NEW c \in ColIds
               PROVE  /\ q.cells[<<r, c>>].part = "lead" =>
                            c + 1 \in ColIds /\ q.cells[<<r, c + 1>>].part = "tail"
                      /\ q.cells[<<r, c>>].part = "tail" =>
                            c > 0 /\ q.cells[<<r, c - 1>>].part = "lead"
      BY DEF Whole
  <2>1. CASE q.cells[<<r, c>>].part = "lead"
    <3>1. <<r, c>> \notin Q /\ p.cells[<<r, c>>].part = "lead" BY <2>1, <1>2
    <3>2. c + 1 \in ColIds /\ p.cells[<<r, c + 1>>].part = "tail"
        BY <3>1, <1>1 DEF Whole
    <3>3. <<r, c + 1>> \notin Q BY <3>1 DEF Closed
    <3> QED BY <2>1, <3>2, <3>3, <1>2
  <2>2. CASE q.cells[<<r, c>>].part = "tail"
    <3>1. <<r, c>> \notin Q /\ p.cells[<<r, c>>].part = "tail" BY <2>2, <1>2
    <3>2. c > 0 /\ p.cells[<<r, c - 1>>].part = "lead" BY <3>1, <1>1 DEF Whole
    <3>3. c - 1 \in ColIds /\ (c - 1) + 1 = c
        BY <3>2, ConsoleAssumption DEF ColIds
    <3>4. <<r, c - 1>> \notin Q BY <3>1, <3>2, <3>3 DEF Closed
    <3> QED BY <2>2, <3>2, <3>3, <3>4, <1>2
  <2> QED BY <2>1, <2>2
<1>5. Fair(q) BY <1>1, BlankedFair
<1>6. OnCells(q)
  <2> SUFFICES ASSUME NEW x \in Recs(q) PROVE OnCell(q, x)
      BY <1>1, RecsAre
  <2>1. x \in Recs(p) /\ <<x.row, x.col>> \notin Q BY <1>3
  <2>2. x.row \in RowIds /\ x.col \in ColIds BY <2>1, <1>1, RecsAre
  <2>3. OnCell(p, x) BY <2>1, <1>1, RecsAre DEF Good
  <2>4. q.cells[<<x.row, x.col>>] = p.cells[<<x.row, x.col>>] BY <2>1, <2>2, <1>2
  <2> QED BY <2>3, <2>4 DEF OnCell
<1> QED BY <1>4, <1>5, <1>6 DEF Good

\* A position that takes a new cluster: blank, and without a record.
Free(p, r, c) ==
    /\ p.cells[<<r, c>>].glyph = Blank /\ p.cells[<<r, c>>].part = "whole"
    /\ \A x \in Recs(p) : ~(x.row = r /\ x.col = c)

\* scts_clear_cell takes the whole pair.
LEMMA ClearCellIs ==
    ASSUME NEW p, Fair(p), NEW r \in RowIds, NEW c \in ColIds
    PROVE  LET q == ClearCell(p, r, c)
           IN  /\ Kept(p, q) /\ SameRegisters(p, q)
               /\ \A s \in RowIds \ {r} : SameRow(p, q, s)
               /\ Free(q, r, c)
               /\ \A d \in ColIds : Free(p, r, d) => Free(q, r, d)
<1>1. p \in Planes /\ Distinct(p) /\ OffTails(p) BY DEF Fair
<1> DEFINE part == p.cells[<<r, c>>].part
           c0 == IF part = "tail" THEN c - 1 ELSE c
           Q == IF part = "tail" THEN {<<r, c - 1>>, <<r, c>>}
                ELSE IF part = "lead" THEN {<<r, c>>, <<r, c + 1>>} ELSE {<<r, c>>}
           w == WithoutRecord(p, r, c0)
           q == ClearCell(p, r, c)
<1>2. q = SetBlanks(w, Q) BY DEF ClearCell
<1>3. p.cells[<<r, c>>] \in Cell BY <1>1, PlaneFields
<1>4. part \in {"whole", "lead", "tail"} BY <1>3 DEF Cell
<1>5. c \in Int BY DEF ColIds
<1>6. /\ w \in Planes /\ Distinct(w) /\ SameRegisters(p, w) /\ w.cells = p.cells
      /\ Recs(w) = {x \in Recs(p) : ~(x.row = r /\ x.col = c0)}
    BY <1>1, WithoutRecordIs
<1>7. ASSUME Whole(p) PROVE Closed(p, Q)
  <2> SUFFICES ASSUME NEW s \in RowIds, NEW d \in ColIds, p.cells[<<s, d>>].part = "lead"
               PROVE  <<s, d>> \in Q <=> <<s, d + 1>> \in Q
      BY DEF Closed
  <2>1. d \in Int /\ d + 1 \in ColIds /\ p.cells[<<s, d + 1>>].part = "tail"
    <3>1. d \in Int BY DEF ColIds
    <3> HIDE DEF Q, w, part, c0, q
    <3> QED BY <3>1, <1>7 DEF Whole
  <2>2. CASE part = "tail"
    <3>1. c > 0 /\ p.cells[<<r, c - 1>>].part = "lead" BY <2>2, <1>7 DEF Whole
    <3>2. c - 1 \in ColIds /\ c - 1 \in Int BY <3>1, ConsoleAssumption DEF ColIds
    <3>3. <<s, d>> \in Q <=> s = r /\ (d = c - 1 \/ d = c) BY <2>2
    <3>4. <<s, d + 1>> \in Q <=> s = r /\ (d + 1 = c - 1 \/ d + 1 = c) BY <2>2
    <3>5. s = r => d # c /\ d + 1 # c - 1 BY <2>1, <2>2, <3>1
    <3> QED BY <3>3, <3>4, <3>5, <2>1, <1>5
  <2>3. CASE part = "lead"
    <3>1. c + 1 \in ColIds /\ p.cells[<<r, c + 1>>].part = "tail"
        BY <2>3, <1>7 DEF Whole
    <3>2. <<s, d>> \in Q <=> s = r /\ (d = c \/ d = c + 1) BY <2>3
    <3>3. <<s, d + 1>> \in Q <=> s = r /\ (d + 1 = c \/ d + 1 = c + 1) BY <2>3
    <3>4. s = r => d # c + 1 /\ d + 1 # c BY <2>1, <2>3, <3>1
    <3> QED BY <3>2, <3>3, <3>4, <2>1, <1>5
  <2>4. CASE part = "whole"
    <3>1. <<s, d>> \in Q <=> s = r /\ d = c BY <2>4
    <3>2. <<s, d + 1>> \in Q <=> s = r /\ d + 1 = c BY <2>4
    <3>3. s = r => d # c /\ d + 1 # c BY <2>1, <2>4
    <3> QED BY <3>1, <3>2, <3>3
  <2> QED BY <2>2, <2>3, <2>4, <1>4
<1>8. ASSUME Whole(p), OnCells(p)
      PROVE  \A x \in Recs(p) : <<x.row, x.col>> \in Q <=> x.row = r /\ x.col = c0
  <2> SUFFICES ASSUME NEW x \in Recs(p)
               PROVE  <<x.row, x.col>> \in Q <=> x.row = r /\ x.col = c0
      OBVIOUS
  <2>1. x.row \in RowIds /\ x.col \in ColIds /\ OnCell(p, x) BY <1>1, <1>8, RecsAre
  <2>2. p.cells[<<x.row, x.col>>].part # "tail" BY <2>1 DEF OnCell
  <2>3. CASE part = "tail"
      BY <2>2, <2>3
  <2>4. CASE part = "lead"
    <3>1. p.cells[<<r, c + 1>>].part = "tail" BY <2>4, <1>8 DEF Whole
    <3> QED BY <2>2, <2>4, <3>1
  <2>5. CASE part = "whole" BY <2>5
  <2> QED BY <2>3, <2>4, <2>5, <1>4
<1>9. <<r, c>> \in Q /\ \A s \in RowIds \ {r}, d \in ColIds : <<s, d>> \notin Q
    OBVIOUS
<1> HIDE DEF Q, w, part, c0
<1>10. /\ q \in Planes /\ q.recs = w.recs
       /\ \A s \in RowIds, d \in ColIds :
             q.cells[<<s, d>>] =
                 IF <<s, d>> \in Q THEN BlankCell(w) ELSE p.cells[<<s, d>>]
       /\ BlankCell(w).glyph = Blank /\ BlankCell(w).part = "whole"
    BY <1>2, <1>6, SetBlanksIs
<1>11. Distinct(q) /\ Recs(q) = Recs(w) BY <1>6, <1>10 DEF Distinct, Recs
<1>12. SameRegisters(p, q) BY <1>2, <1>6 DEF SetBlanks, Planes, SameRegisters
<1>13. Blanked(p, q, Q)
  <2>1. \A x \in Recs(p) \ Recs(q) : <<x.row, c>> \in Q BY <1>6, <1>9, <1>11
  <2> HIDE DEF q
  <2> QED BY <2>1, <1>6, <1>10, <1>11, <1>12 DEF Blanked
<1>14. \A x \in Recs(q) : x \in Recs(p) /\ ~(x.row = r /\ x.col = c0) BY <1>6, <1>11
<1> HIDE DEF q
<1>15. Fair(q) /\ \A s \in RowIds \ {r} : SameRow(p, q, s)
    BY <1>9, <1>13, BlankedFair
<1>16. ASSUME Good(p) PROVE Good(q)
  <2>1. Closed(p, Q) BY <1>7, <1>16 DEF Good
  <2>2. \A x \in Recs(q) : <<x.row, x.col>> \notin Q BY <1>8, <1>14, <1>16 DEF Good
  <2> QED BY <2>1, <2>2, <1>13, <1>16, BlankedGood
<1>17. Free(q, r, c)
  <2>1. \A x \in Recs(q) : ~(x.row = r /\ x.col = c)
    <3>1. CASE part = "tail" BY <3>1, <1>1, <1>14, RecsAre DEF part
    <3>2. CASE part # "tail" BY <3>2, <1>14 DEF c0
    <3> QED BY <3>1, <3>2
  <2> QED BY <2>1, <1>9, <1>13 DEF Blanked, Free
<1>18. ASSUME NEW d \in ColIds, Free(p, r, d) PROVE Free(q, r, d)
    BY <1>13, <1>18 DEF Blanked, Free
<1> QED BY <1>12, <1>15, <1>16, <1>17, <1>18 DEF q, Kept

-----------------------------------------------------------------------------
(* Placing a cluster.                                                      *)

Dirty(p, r) == p.dirtyAll \/ r \in p.dirty

\* What every operation that text leads to leaves as it was, or adds to.
Grows(p, q) ==
    /\ Kept(p, q)
    /\ q.style = p.style /\ q.wrap = p.wrap /\ q.writes = p.writes
    /\ \A r \in RowIds : Dirty(p, r) => Dirty(q, r)

\* A row that is not dirty has its old content.
Shown(p, q) == \A r \in RowIds : SameRow(p, q, r) \/ Dirty(q, r)

\* Moving the cursor, and what else no row shows.
LEMMA RegistersChange ==
    ASSUME NEW p, Fair(p), NEW q \in Planes, q.cells = p.cells, q.recs = p.recs
    PROVE  Kept(p, q) /\ Shown(p, q)
<1>1. Distinct(q) /\ Tall(q) /\ OffTails(q) BY DEF Fair, Distinct, Tall, OffTails
<1>2. ASSUME Good(p) PROVE Whole(q) /\ OnCells(q)
  <2>1. Whole(q) BY <1>2, SameCellsWhole DEF Good
  <2> QED BY <2>1, <1>2 DEF Good, OnCells, OnCell
<1> QED BY <1>1, <1>2 DEF Kept, Good, Fair, Shown, SameRow, Recs

LEMMA KeptKept ==
    ASSUME NEW p, NEW q, NEW x, Kept(p, q), Kept(q, x)
    PROVE  Kept(p, x)
BY DEF Kept

LEMMA ClearedIs ==
    ASSUME NEW p, Fair(p), NEW k \in Clusters, Width[k] \in {1, 2}, Fits(p, k)
    PROVE  LET q == Cleared(p, k)
           IN  /\ Kept(p, q) /\ SameRegisters(p, q)
               /\ \A s \in RowIds \ {p.row} : SameRow(p, q, s)
               /\ p.col \in ColIds /\ Free(q, p.row, p.col)
               /\ Width[k] = 2 => p.col + 1 \in ColIds /\ Free(q, p.row, p.col + 1)
<1>1. p \in Planes /\ p.row \in RowIds /\ p.col \in 0 .. Cols
    BY PlaneFields DEF Fair
<1>2. Cols \in Nat BY ConsoleAssumption
<1>3. p.col \in ColIds /\ (Width[k] = 2 => p.col + 1 \in ColIds)
    BY <1>1, <1>2 DEF Fits, ColIds
<1> DEFINE q1 == ClearCell(p, p.row, p.col)
           q2 == ClearCell(q1, p.row, p.col + 1)
<1>4. /\ Kept(p, q1) /\ Fair(q1) /\ SameRegisters(p, q1)
      /\ \A s \in RowIds \ {p.row} : SameRow(p, q1, s)
      /\ Free(q1, p.row, p.col)
    BY <1>1, <1>3, ClearCellIs DEF Kept
<1> HIDE DEF q1
<1>5. CASE Width[k] = 1
  <2>1. Cleared(p, k) = q1 BY <1>5 DEF Cleared, q1
  <2> QED BY <2>1, <1>3, <1>4, <1>5
<1>6. CASE Width[k] = 2
  <2>1. Cleared(p, k) = q2 BY <1>6 DEF Cleared, q1
  <2>2. /\ Kept(q1, q2) /\ SameRegisters(q1, q2)
        /\ \A s \in RowIds \ {p.row} : SameRow(q1, q2, s)
        /\ Free(q2, p.row, p.col + 1) /\ Free(q2, p.row, p.col)
      BY <1>1, <1>3, <1>4, <1>6, ClearCellIs
  <2> HIDE DEF q2
  <2>3. SameRegisters(p, q2) BY <1>4, <2>2 DEF SameRegisters
  <2>4. \A s \in RowIds \ {p.row} : SameRow(p, q2, s) BY <1>4, <2>2 DEF SameRow
  <2>5. Kept(p, q2) BY <1>4, <2>2, KeptKept
  <2> QED BY <2>1, <2>2, <2>3, <2>4, <2>5, <1>3
<1> QED BY <1>5, <1>6

\* Cells at the cursor, which are free, take the cluster.
WrittenCells(p, k) ==
    [q \in DOMAIN p.cells |->
        IF q \in Span(p.row, p.col, k) THEN CellOf(p, k, q[2] = p.col)
        ELSE p.cells[q]]
Written(p, k) == [p EXCEPT !.cells = WrittenCells(p, k)]

HasCells(p, k, q) ==
    \A r \in RowIds, c \in ColIds :
        q.cells[<<r, c>>] =
            IF r = p.row /\ c = p.col THEN CellOf(p, k, TRUE)
            ELSE IF r = p.row /\ c = p.col + 1 /\ Width[k] = 2
            THEN CellOf(p, k, FALSE)
            ELSE p.cells[<<r, c>>]

LEMMA WrittenIs ==
    ASSUME NEW p \in Planes, NEW k \in Clusters, Width[k] \in {1, 2},
           p.col \in ColIds, Width[k] = 2 => p.col + 1 \in ColIds
    PROVE  /\ Written(p, k) \in Planes /\ SameRegisters(p, Written(p, k))
           /\ Written(p, k).recs = p.recs
           /\ HasCells(p, k, Written(p, k))
<1>1. /\ p.cells \in [RowIds \X ColIds -> Cell] /\ p.style \in Styles
      /\ p.row \in RowIds
    BY PlaneFields
<1>2. \A first \in BOOLEAN : CellOf(p, k, first) \in Cell
    BY <1>1, ConsoleAssumption DEF CellOf, Cell
<1>3. WrittenCells(p, k) \in [RowIds \X ColIds -> Cell]
    BY <1>1, <1>2 DEF WrittenCells
<1>4. p.col \in Int BY DEF ColIds
<1>5. ASSUME NEW r \in RowIds, NEW c \in ColIds
      PROVE  WrittenCells(p, k)[<<r, c>>] =
                 IF r = p.row /\ c = p.col THEN CellOf(p, k, TRUE)
                 ELSE IF r = p.row /\ c = p.col + 1 /\ Width[k] = 2
                 THEN CellOf(p, k, FALSE)
                 ELSE p.cells[<<r, c>>]
  <2>1. c \in Int BY DEF ColIds
  <2>2. <<r, c>> \in Span(p.row, p.col, k) <=>
            r = p.row /\ c \in p.col .. p.col + Width[k] - 1
      BY DEF Span
  <2>3. c \in p.col .. p.col + Width[k] - 1 <=>
            c = p.col \/ (c = p.col + 1 /\ Width[k] = 2)
      BY <2>1, <1>4
  <2>4. WrittenCells(p, k)[<<r, c>>] =
            IF <<r, c>> \in Span(p.row, p.col, k) THEN CellOf(p, k, c = p.col)
            ELSE p.cells[<<r, c>>]
      BY <1>1 DEF WrittenCells
  <2>5. CASE c = p.col
    <3>1. CellOf(p, k, c = p.col) = CellOf(p, k, TRUE) BY <2>5 DEF CellOf
    <3>2. c # p.col + 1 BY <2>5, <1>4
    <3> QED BY <3>1, <3>2, <2>2, <2>3, <2>4, <2>5
  <2>6. CASE c # p.col
    <3>1. CellOf(p, k, c = p.col) = CellOf(p, k, FALSE) BY <2>6 DEF CellOf
    <3> QED BY <3>1, <2>2, <2>3, <2>4, <2>6
  <2> QED BY <2>5, <2>6
<1> QED BY <1>3, <1>5 DEF Written, Planes, SameRegisters, HasCells

LEMMA WrittenWhole ==
    ASSUME NEW p, Fair(p), NEW k \in Clusters, Width[k] \in {1, 2},
           p.col \in ColIds, Free(p, p.row, p.col),
           Width[k] = 2 => p.col + 1 \in ColIds /\ Free(p, p.row, p.col + 1)
    PROVE  /\ Kept(p, Written(p, k))
           /\ \A x \in Recs(Written(p, k)) : ~(x.row = p.row /\ x.col = p.col)
<1> DEFINE q == Written(p, k)
<1>1. p \in Planes /\ Distinct(p) /\ Tall(p) /\ OffTails(p) BY DEF Fair
<1>2. /\ q \in Planes /\ q.recs = p.recs
      /\ \A r \in RowIds, c \in ColIds :
            q.cells[<<r, c>>] =
                IF r = p.row /\ c = p.col THEN CellOf(p, k, TRUE)
                ELSE IF r = p.row /\ c = p.col + 1 /\ Width[k] = 2
                THEN CellOf(p, k, FALSE)
                ELSE p.cells[<<r, c>>]
    BY <1>1, WrittenIs, ZenonT(60) DEF HasCells
<1> HIDE DEF q
<1>3. /\ CellOf(p, k, TRUE).part = IF Width[k] = 1 THEN "whole" ELSE "lead"
      /\ CellOf(p, k, FALSE).part = IF Width[k] = 1 THEN "whole" ELSE "tail"
    BY DEF CellOf
<1>4. p.col \in Int /\ \A c \in ColIds : c \in Int BY DEF ColIds
<1>5. /\ p.cells[<<p.row, p.col>>].part = "whole"
      /\ Width[k] = 2 => p.cells[<<p.row, p.col + 1>>].part = "whole"
    BY DEF Free
<1>6. p.row \in RowIds BY <1>1, PlaneFields
<1>7. ASSUME Whole(p) PROVE Whole(q)
  <2> SUFFICES ASSUME NEW r \in RowIds, NEW c \in ColIds
               PROVE  /\ q.cells[<<r, c>>].part = "lead" =>
                            c + 1 \in ColIds /\ q.cells[<<r, c + 1>>].part = "tail"
                      /\ q.cells[<<r, c>>].part = "tail" =>
                            c > 0 /\ q.cells[<<r, c - 1>>].part = "lead"
      BY DEF Whole
  <2>0. c \in Int BY <1>4
  <2>1. CASE r = p.row /\ c = p.col
    <3>1. q.cells[<<r, c>>] = CellOf(p, k, TRUE) BY <2>1, <1>2
    <3>2. CASE Width[k] = 1 BY <3>1, <3>2, <1>3
    <3>3. CASE Width[k] = 2
      <4>1. c + 1 \in ColIds /\ c + 1 # c BY <2>0, <2>1, <3>3
      <4>2. q.cells[<<r, c + 1>>] = CellOf(p, k, FALSE) BY <4>1, <2>1, <3>3, <1>2
      <4> QED BY <3>1, <3>3, <4>1, <4>2, <1>3
    <3> QED BY <3>2, <3>3
  <2>2. CASE r = p.row /\ c = p.col + 1 /\ Width[k] = 2
    <3>1. c # p.col /\ c - 1 = p.col /\ c > 0 BY <2>2, <1>4 DEF ColIds
    <3>2. q.cells[<<r, c>>] = CellOf(p, k, FALSE) BY <2>2, <3>1, <1>2
    <3>3. q.cells[<<r, c - 1>>] = CellOf(p, k, TRUE) BY <2>2, <3>1, <1>2
    <3> QED BY <2>2, <3>1, <3>2, <3>3, <1>3
  <2>3. CASE ~(r = p.row /\ c = p.col) /\ ~(r = p.row /\ c = p.col + 1 /\ Width[k] = 2)
    <3>1. q.cells[<<r, c>>] = p.cells[<<r, c>>] BY <2>3, <1>2
    <3>2. CASE q.cells[<<r, c>>].part = "lead"
      <4>0. p.cells[<<r, c>>].part = "lead" BY <3>1, <3>2
      <4>1. c + 1 \in ColIds /\ p.cells[<<r, c + 1>>].part = "tail"
          BY <4>0, <1>7, Zenon DEF Whole
      <4>2. ~(r = p.row /\ c + 1 = p.col) BY <4>1, <1>5
      <4>3. c + 1 = p.col + 1 => c = p.col BY <2>0, <1>4
      <4>4. q.cells[<<r, c + 1>>] = p.cells[<<r, c + 1>>] BY <4>1, <4>2, <4>3, <2>3, <1>2
      <4> QED BY <3>2, <4>1, <4>4
    <3>3. CASE q.cells[<<r, c>>].part = "tail"
      <4>0. p.cells[<<r, c>>].part = "tail" BY <3>1, <3>3
      <4>1. c > 0 /\ p.cells[<<r, c - 1>>].part = "lead"
          BY <4>0, <1>7, Zenon DEF Whole
      <4>2. c - 1 \in ColIds BY <4>1, ConsoleAssumption DEF ColIds
      <4>3. ~(r = p.row /\ c - 1 = p.col) BY <4>1, <1>5
      <4>4. ~(r = p.row /\ c - 1 = p.col + 1 /\ Width[k] = 2)
        <5> SUFFICES ASSUME r = p.row, c - 1 = p.col + 1, Width[k] = 2 PROVE FALSE
            OBVIOUS
        <5>1. p.cells[<<r, c - 1>>].part = "whole" BY <1>5
        <5> QED BY <4>1, <5>1
      <4>5. q.cells[<<r, c - 1>>] = p.cells[<<r, c - 1>>] BY <4>2, <4>3, <4>4, <1>2
      <4> QED BY <3>3, <4>1, <4>5
    <3> QED BY <3>2, <3>3
  <2> QED BY <2>1, <2>2, <2>3
<1>8. Recs(q) = Recs(p) /\ Distinct(q) /\ Tall(q) BY <1>1, <1>2 DEF Recs, Distinct, Tall
<1>9. \A x \in Recs(q) : ~(x.row = p.row /\ x.col = p.col) BY <1>8 DEF Free
<1>10. ASSUME NEW x \in Recs(q)
       PROVE  /\ x.row \in RowIds /\ x.col \in ColIds /\ x \in Recs(p)
              /\ q.cells[<<x.row, x.col>>] = p.cells[<<x.row, x.col>>]
  <2>1. x.row \in RowIds /\ x.col \in ColIds BY <1>1, <1>8, RecsAre
  <2>2. ~(x.row = p.row /\ x.col = p.col) BY <1>9
  <2>3. ~(x.row = p.row /\ x.col = p.col + 1 /\ Width[k] = 2) BY <1>8 DEF Free
  <2> QED BY <2>1, <2>2, <2>3, <1>2, <1>8
<1>11. OffTails(q)
  <2>1. \A x \in Recs(q) : q.cells[<<x.row, x.col>>].part # "tail"
      BY <1>1, <1>10, RecsAre
  <2> QED BY <2>1, <1>2, RecsAre
<1>12. ASSUME OnCells(p) PROVE OnCells(q)
  <2>1. \A x \in Recs(q) : OnCell(p, x) BY <1>1, <1>10, <1>12, RecsAre
  <2>2. \A x \in Recs(q) : OnCell(q, x) BY <2>1, <1>10 DEF OnCell
  <2> QED BY <2>2, <1>2, RecsAre
<1>13. Kept(p, q) BY <1>2, <1>7, <1>8, <1>11, <1>12 DEF Kept, Good, Fair
<1> QED BY <1>9, <1>13 DEF q

\* The record that the new cluster gets when there is room.
RecordOf(p, k) == [row |-> p.row, col |-> p.col, text |-> k]

LEMMA RecordedIs ==
    ASSUME NEW p, Fair(p), NEW k \in Clusters, Width[k] \in {1, 2}, p.col \in ColIds,
           \A x \in Recs(p) : ~(x.row = p.row /\ x.col = p.col),
           OnCell(p, RecordOf(p, k))
    PROVE  LET q == Recorded(p, k)
           IN  /\ Kept(p, q) /\ SameRegisters(p, q)
               /\ \A s \in RowIds \ {p.row} : SameRow(p, q, s)
<1> DEFINE q == Recorded(p, k)
           x == RecordOf(p, k)
<1>1. /\ p \in Planes /\ Distinct(p) /\ Tall(p) /\ OffTails(p)
      /\ p.recs \in Seq(ClusterRecord) /\ Len(p.recs) \in Nat /\ p.row \in RowIds
    BY PlaneFields DEF Fair
<1>2. CASE ~(Len(p.recs) < MaxClusters)
  <2>1. q = p BY <1>2 DEF Recorded
  <2> QED BY <2>1 DEF SameRegisters, SameRow, Kept
<1>3. CASE Len(p.recs) < MaxClusters
  <2>1. q = [p EXCEPT !.recs = Append(p.recs, x)]
      BY <1>1, <1>3 DEF Recorded, RecordOf, Planes
  <2>2. x \in ClusterRecord /\ x.row = p.row /\ x.col = p.col /\ x.text = k
      BY <1>1 DEF RecordOf, ClusterRecord
  <2> HIDE DEF x
  <2>3. /\ Append(p.recs, x) \in Seq(ClusterRecord)
        /\ Len(Append(p.recs, x)) = Len(p.recs) + 1
        /\ DOMAIN Append(p.recs, x) = 1 .. Len(p.recs) + 1
        /\ \A i \in 1 .. Len(p.recs) : Append(p.recs, x)[i] = p.recs[i]
        /\ Append(p.recs, x)[Len(p.recs) + 1] = x
      BY <1>1, <2>2
  <2>4. Len(p.recs) + 1 <= MaxClusters BY <1>1, <1>3, ConsoleAssumption
  <2>5. q \in Planes /\ q.recs = Append(p.recs, x) /\ q.cells = p.cells
        /\ SameRegisters(p, q)
    <3>1. Append(p.recs, x) \in {s \in Seq(ClusterRecord) : Len(s) <= MaxClusters}
        BY <2>3, <2>4
    <3> QED BY <3>1, <2>1, <1>1 DEF Planes, SameRegisters
  <2> HIDE DEF q
  <2>6. DOMAIN p.recs = 1 .. Len(p.recs) BY <1>1
  <2>7. DOMAIN q.recs = DOMAIN p.recs \cup {Len(p.recs) + 1}
      BY <2>3, <2>5, <2>6, <1>1
  <2>8. /\ \A i \in DOMAIN p.recs : q.recs[i] = p.recs[i]
        /\ q.recs[Len(p.recs) + 1] = x
      BY <2>3, <2>5, <2>6
  <2>9. Recs(q) = Recs(p) \cup {x} BY <2>7, <2>8 DEF Recs
  <2>10. Distinct(q)
    <3> SUFFICES ASSUME NEW i \in DOMAIN q.recs, NEW j \in DOMAIN q.recs,
                        q.recs[i].row = q.recs[j].row, q.recs[i].col = q.recs[j].col
                 PROVE  i = j
        BY DEF Distinct
    <3>1. CASE i \in DOMAIN p.recs /\ j \in DOMAIN p.recs
        BY <3>1, <2>8, <1>1 DEF Distinct
    <3>2. CASE i \notin DOMAIN p.recs /\ j \notin DOMAIN p.recs BY <3>2, <2>7
    <3>3. ASSUME NEW m \in DOMAIN p.recs
          PROVE  ~(q.recs[m].row = x.row /\ q.recs[m].col = x.col)
        BY <2>2, <2>8 DEF Recs
    <3> QED BY <3>1, <3>2, <3>3, <2>7, <2>8
  <2>11. ASSUME Whole(p) PROVE Whole(q) BY <2>5, <2>11, SameCellsWhole
  <2>12. Tall(q) BY <1>1, <2>2, <2>5, <2>9, RecsAre
  <2>13. OffTails(q)
    <3>1. p.cells[<<x.row, x.col>>].part # "tail" BY DEF OnCell, x
    <3>2. \A y \in Recs(q) : q.cells[<<y.row, y.col>>].part # "tail"
        BY <3>1, <1>1, <2>5, <2>9, RecsAre
    <3> QED BY <3>2, <2>5, RecsAre
  <2>14. ASSUME OnCells(p) PROVE OnCells(q)
    <3>1. \A y \in Recs(q) : OnCell(p, y) BY <1>1, <2>9, <2>14, RecsAre DEF x
    <3>2. \A y \in Recs(q) : OnCell(q, y) BY <3>1, <2>5 DEF OnCell
    <3> QED BY <3>2, <2>5, RecsAre
  <2>15. \A s \in RowIds \ {p.row} : SameRow(p, q, s)
      BY <2>2, <2>5, <2>9 DEF SameRow
  <2>16. Kept(p, q)
      BY <2>5, <2>10, <2>11, <2>12, <2>13, <2>14 DEF Kept, Good, Fair
  <2> QED BY <2>5, <2>15, <2>16 DEF q
<1> QED BY <1>2, <1>3

\* Marking a row, with the cursor moved on in it.
LEMMA MarkedIs ==
    ASSUME NEW p, Fair(p), NEW c \in 0 .. Cols, NEW r \in RowIds
    PROVE  LET q == MarkDirty([p EXCEPT !.col = c], r)
           IN  /\ Grows(p, q) /\ q.col = c /\ q.row = p.row /\ q.status = p.status
               /\ Dirty(q, r) /\ \A s \in RowIds : SameRow(p, q, s)
<1> DEFINE q == MarkDirty([p EXCEPT !.col = c], r)
<1>1. p \in Planes BY DEF Fair
<1>2. /\ q \in Planes /\ q.cells = p.cells /\ q.recs = p.recs /\ q.style = p.style
      /\ q.wrap = p.wrap /\ q.writes = p.writes
      /\ q.col = c /\ q.row = p.row /\ q.status = p.status
    BY <1>1 DEF MarkDirty, Planes
<1>3. /\ Dirty(q, r)
      /\ \A s \in RowIds : Dirty(p, s) => Dirty(q, s)
    BY <1>1 DEF MarkDirty, Planes, Dirty
<1> HIDE DEF q
<1>4. Kept(p, q) BY <1>2, RegistersChange
<1>5. \A s \in RowIds : SameRow(p, q, s) BY <1>2 DEF SameRow, Recs
<1> QED BY <1>2, <1>3, <1>4, <1>5 DEF Grows, q

\* scts_place_cluster: it writes the row of the cursor and marks it, or fails
\* where the cluster does not fit.
LEMMA PlaceIs ==
    ASSUME NEW p, Fair(p), NEW k \in Clusters, Width[k] \in {1, 2}
    PROVE  LET q == Place(p, k)
           IN  /\ Grows(p, q) /\ Shown(p, q) /\ q.row = p.row
               /\ p.status # "OK" => q = p
               /\ p.status = "OK" /\ Fits(p, k) =>
                     q.status = "OK" /\ q.col = p.col + Width[k]
<1>1. /\ p \in Planes /\ p.row \in RowIds /\ p.col \in 0 .. Cols
      /\ p.status \in Statuses
    BY PlaneFields DEF Fair
<1>2. Grows(p, p) /\ Shown(p, p) BY DEF Grows, Kept, Shown, SameRow
<1>3. CASE p.status # "OK"
  <2>1. Place(p, k) = p BY <1>3 DEF Place
  <2> QED BY <2>1, <1>2, <1>3
<1>4. CASE p.status = "OK" /\ ~Fits(p, k)
  <2> DEFINE q == [p EXCEPT !.status = "E_COL_RANGE"]
  <2>1. Place(p, k) = q BY <1>4 DEF Place
  <2>2. /\ q \in Planes /\ q.cells = p.cells /\ q.recs = p.recs /\ q.style = p.style
        /\ q.wrap = p.wrap /\ q.writes = p.writes /\ q.row = p.row
        /\ q.dirty = p.dirty /\ q.dirtyAll = p.dirtyAll
      BY <1>1 DEF Planes, Statuses
  <2> HIDE DEF q
  <2>3. Kept(p, q) /\ Shown(p, q) BY <2>2, RegistersChange
  <2>4. Grows(p, q) BY <2>2, <2>3 DEF Grows, Dirty
  <2> QED BY <2>1, <2>2, <2>3, <2>4, <1>4
<1>5. CASE p.status = "OK" /\ Fits(p, k)
  <2> DEFINE a == Cleared(p, k)
             b == Written(a, k)
             d == Recorded(b, k)
             q == MarkDirty([d EXCEPT !.col = p.col + Width[k]], p.row)
  <2>1. /\ Kept(p, a) /\ Fair(a) /\ SameRegisters(p, a)
        /\ \A s \in RowIds \ {p.row} : SameRow(p, a, s)
        /\ p.col \in ColIds /\ Free(a, p.row, p.col)
        /\ Width[k] = 2 => p.col + 1 \in ColIds /\ Free(a, p.row, p.col + 1)
      BY <1>5, ClearedIs DEF Kept
  <2>2. /\ a \in Planes /\ a.row = p.row /\ a.col = p.col /\ a.style = p.style
        /\ a.status = p.status
      BY <2>1 DEF Fair, SameRegisters
  <2> HIDE DEF a
  <2>3. b \in Planes /\ b.recs = a.recs /\ HasCells(a, k, b)
    <3>1. a.col \in ColIds /\ (Width[k] = 2 => a.col + 1 \in ColIds) BY <2>1, <2>2
    <3>2. b \in Planes BY <2>2, <3>1, WrittenIs
    <3>3. b.recs = a.recs BY <2>2, <3>1, WrittenIs
    <3>4. HasCells(a, k, b) BY <2>2, <3>1, WrittenIs
    <3> QED BY <3>2, <3>3, <3>4
  <2>30. SameRegisters(a, b)
    <3>1. a.col \in ColIds /\ (Width[k] = 2 => a.col + 1 \in ColIds) BY <2>1, <2>2
    <3> QED BY <2>2, <3>1, WrittenIs, Zenon
  <2>4. /\ Kept(a, b)
        /\ \A x \in Recs(b) : ~(x.row = p.row /\ x.col = p.col)
      BY <2>1, <2>2, WrittenWhole
  <2>5. Place(p, k) = MarkDirty([d EXCEPT !.col = b.col + Width[k]], p.row)
    <3>1. b = [a EXCEPT !.cells = [q0 \in DOMAIN a.cells |->
                  IF q0 \in Span(p.row, p.col, k)
                  THEN CellOf(p, k, q0[2] = p.col) ELSE a.cells[q0]]]
        BY <2>2 DEF Written, WrittenCells, CellOf
    <3>2. d.col = b.col BY <2>3 DEF Recorded, Planes
    <3> QED BY <3>1, <3>2, <1>5 DEF Place, a
  <2>6. /\ b.row = p.row /\ b.col = p.col /\ b.status = "OK" /\ b.style = p.style
        /\ b.wrap = p.wrap /\ b.writes = p.writes /\ b.dirty = p.dirty
        /\ b.dirtyAll = p.dirtyAll
      BY <2>1, <2>30, <1>5 DEF SameRegisters
  <2>7. OnCell(b, RecordOf(b, k))
    <3>1. b.cells[<<p.row, p.col>>] = CellOf(a, k, TRUE)
        BY <2>1, <2>2, <2>3, <1>1 DEF HasCells
    <3>2. RecordOf(b, k).row = p.row /\ RecordOf(b, k).col = p.col
          /\ RecordOf(b, k).text = k
        BY <2>6 DEF RecordOf
    <3>3. /\ CellOf(a, k, TRUE).glyph = Base[k]
          /\ CellOf(a, k, TRUE).part = IF Width[k] = 2 THEN "lead" ELSE "whole"
        BY DEF CellOf
    <3> QED BY <3>1, <3>2, <3>3 DEF OnCell
  <2>8. \A s \in RowIds \ {p.row} : SameRow(p, b, s)
    <3>1. \A s \in RowIds \ {p.row}, c \in ColIds :
              b.cells[<<s, c>>] = a.cells[<<s, c>>]
        BY <2>2, <2>3 DEF HasCells
    <3>2. Recs(b) = Recs(a) BY <2>3 DEF Recs
    <3> QED BY <2>1, <3>1, <3>2 DEF SameRow
  <2> HIDE DEF b
  <2>9. Kept(p, b) /\ Fair(b) BY <2>1, <2>4, KeptKept DEF Kept
  <2>10. /\ Kept(b, d) /\ Fair(d) /\ SameRegisters(b, d)
         /\ \A s \in RowIds \ {p.row} : SameRow(b, d, s)
      BY <2>1, <2>4, <2>6, <2>7, <2>9, RecordedIs DEF Kept
  <2> HIDE DEF d
  <2>11. p.col + Width[k] \in 0 .. Cols
    <3>1. p.col \in Int /\ p.col >= 0 /\ Cols \in Nat BY <1>1, ConsoleAssumption
    <3> QED BY <3>1, <1>5 DEF Fits
  <2>12. /\ Grows(d, q) /\ q.col = p.col + Width[k] /\ q.row = d.row
         /\ q.status = d.status
         /\ Dirty(q, p.row) /\ \A s \in RowIds : SameRow(d, q, s)
      BY <1>1, <2>10, <2>11, MarkedIs
  <2>13. Place(p, k) = q BY <2>5, <2>6
  <2> HIDE DEF q
  <2>14. /\ d.row = p.row /\ d.status = "OK" /\ d.style = p.style /\ d.wrap = p.wrap
         /\ d.writes = p.writes /\ d.dirty = p.dirty /\ d.dirtyAll = p.dirtyAll
      BY <2>6, <2>10 DEF SameRegisters
  <2>15. Grows(p, q)
    <3>1. Kept(p, d) BY <2>9, <2>10, KeptKept
    <3>2. Kept(p, q) BY <3>1, <2>12, KeptKept DEF Grows
    <3> QED BY <3>2, <2>12, <2>14 DEF Grows, Dirty
  <2>16. Shown(p, q)
    <3> SUFFICES ASSUME NEW s \in RowIds, s # p.row PROVE SameRow(p, q, s)
        BY <2>12 DEF Shown
    <3>1. SameRow(p, b, s) /\ SameRow(b, d, s) /\ SameRow(d, q, s)
        BY <2>8, <2>10, <2>12
    <3> QED BY <3>1 DEF SameRow
  <2> QED BY <2>12, <2>13, <2>14, <2>15, <2>16, <1>5
<1> QED BY <1>3, <1>4, <1>5

-----------------------------------------------------------------------------
(* Scrolling and line ends.                                                *)

\* The records that a scroll by n keeps, and where.
LEMMA ScrolledRecordsAre ==
    ASSUME NEW p \in Planes, Distinct(p), NEW n \in Nat
    PROVE  LET s == ScrolledRecords(p.recs, n)
           IN  /\ s \in Seq(ClusterRecord) /\ Len(s) <= MaxClusters
               /\ \A i \in DOMAIN s : \E x \in Recs(p) :
                     /\ x.row >= n /\ s[i].row = x.row - n
                     /\ s[i].col = x.col /\ s[i].text = x.text
               /\ \A i, j \in DOMAIN s :
                     s[i].row = s[j].row /\ s[i].col = s[j].col => i = j
<1> DEFINE I == {i \in DOMAIN p.recs : p.recs[i].row >= n}
           kept == Picked(p.recs, I)
           s == ScrolledRecords(p.recs, n)
<1>1. /\ p.recs \in Seq(ClusterRecord) /\ Len(p.recs) \in Nat
      /\ Len(p.recs) <= MaxClusters /\ DOMAIN p.recs = 1 .. Len(p.recs)
    BY PlaneFields
<1>2. I \in SUBSET DOMAIN p.recs OBVIOUS
<1>3. \A i \in I : p.recs[i].row >= n OBVIOUS
<1>4. s = [i \in DOMAIN kept |-> [kept[i] EXCEPT !.row = @ - n]]
    BY DEF ScrolledRecords
<1> HIDE DEF I, s
<1>5. /\ kept \in Seq(ClusterRecord) /\ Len(kept) \in Nat /\ Len(kept) <= Len(p.recs)
      /\ \A i \in DOMAIN kept : Nth(I, i) \in I /\ kept[i] = p.recs[Nth(I, i)]
      /\ \A i, j \in DOMAIN kept : Nth(I, i) = Nth(I, j) => i = j
    BY <1>1, <1>2, PickedIs
<1> HIDE DEF kept
<1>6. DOMAIN kept = 1 .. Len(kept) BY <1>5
<1>7. ASSUME NEW i \in DOMAIN kept
      PROVE  /\ s[i] \in ClusterRecord
             /\ kept[i] \in Recs(p) /\ kept[i].row \in Nat /\ kept[i].row >= n
             /\ s[i].row = kept[i].row - n
             /\ s[i].col = kept[i].col /\ s[i].text = kept[i].text
  <2>1. kept[i] \in Recs(p) /\ kept[i].row >= n BY <1>2, <1>3, <1>5 DEF Recs
  <2>2. kept[i] \in ClusterRecord BY <2>1, RecsAre
  <2>3. s[i] = [kept[i] EXCEPT !.row = kept[i].row - n] BY <1>4
  <2>4. kept[i].row \in 0 .. Rows - 1 BY <2>2 DEF ClusterRecord, RowIds
  <2>5. kept[i].row - n \in 0 .. Rows - 1 BY <2>1, <2>4, ConsoleAssumption
  <2> QED BY <2>1, <2>2, <2>3, <2>4, <2>5 DEF ClusterRecord, RowIds
<1>8. s \in Seq(ClusterRecord) /\ DOMAIN s = DOMAIN kept /\ Len(s) = Len(kept)
  <2>1. DOMAIN s = 1 .. Len(kept) BY <1>4, <1>6
  <2>2. s \in [1 .. Len(kept) -> ClusterRecord] BY <1>4, <1>6, <1>7
  <2> QED BY <1>5, <1>6, <2>1, <2>2
<1>9. Len(s) <= MaxClusters BY <1>1, <1>5, <1>8, ConsoleAssumption
<1>10. \A i \in DOMAIN s : \E x \in Recs(p) :
           /\ x.row >= n /\ s[i].row = x.row - n
           /\ s[i].col = x.col /\ s[i].text = x.text
    BY <1>7, <1>8
<1>11. ASSUME NEW i \in DOMAIN s, NEW j \in DOMAIN s,
              s[i].row = s[j].row, s[i].col = s[j].col
       PROVE  i = j
  <2>1. kept[i].row = kept[j].row /\ kept[i].col = kept[j].col
    <3>1. i \in DOMAIN kept /\ j \in DOMAIN kept BY <1>8
    <3>2. /\ kept[i].row \in Nat /\ s[i].row = kept[i].row - n /\ s[i].col = kept[i].col
          /\ kept[j].row \in Nat /\ s[j].row = kept[j].row - n /\ s[j].col = kept[j].col
        BY <3>1, <1>7
    <3> QED BY <3>2, <1>11
  <2>2. /\ Nth(I, i) \in DOMAIN p.recs /\ kept[i] = p.recs[Nth(I, i)]
        /\ Nth(I, j) \in DOMAIN p.recs /\ kept[j] = p.recs[Nth(I, j)]
      BY <1>2, <1>5, <1>8
  <2>3. Nth(I, i) = Nth(I, j) BY <2>1, <2>2 DEF Distinct
  <2> QED BY <2>3, <1>5, <1>8
<1> QED BY <1>8, <1>9, <1>10, <1>11 DEF s

\* scts_scroll_impl: cells and records move together, and every row is dirty.
LEMMA ScrollIs ==
    ASSUME NEW p, Fair(p), NEW n \in Nat
    PROVE  LET q == Scroll(p, n)
           IN  /\ Grows(p, q) /\ Shown(p, q) /\ q.status = p.status
               /\ n = 0 => q = p
               /\ n # 0 => q.dirtyAll /\ q.row = Rows - 1
<1>1. /\ p \in Planes /\ Distinct(p) /\ Tall(p) /\ OffTails(p)
      /\ p.cells \in [RowIds \X ColIds -> Cell] /\ p.col \in 0 .. Cols
    BY PlaneFields DEF Fair
<1>2. CASE n = 0
  <2>1. Scroll(p, n) = p BY <1>2 DEF Scroll
  <2> QED BY <2>1, <1>2 DEF Grows, Kept, Shown, SameRow
<1>3. CASE n # 0
  <2> DEFINE q == Scroll(p, n)
             cells == [x \in RowIds \X ColIds |->
                         IF x[1] + n < Rows THEN p.cells[<<x[1] + n, x[2]>>]
                         ELSE BlankCell(p)]
             s == ScrolledRecords(p.recs, n)
  <2>0. n \in Nat /\ n > 0 /\ Rows \in Nat BY <1>3, ConsoleAssumption
  <2>1. BlankCell(p) \in Cell /\ BlankCell(p).part = "whole"
      BY <1>1, SetBlanksIs
  <2>2. cells \in [RowIds \X ColIds -> Cell]
    <3>1. ASSUME NEW x \in RowIds \X ColIds, x[1] + n < Rows
          PROVE  <<x[1] + n, x[2]>> \in RowIds \X ColIds
        BY <3>1, <2>0 DEF RowIds
    <3> QED BY <3>1, <2>1, <1>1
  <2>3. \A r \in RowIds, c \in ColIds :
            cells[<<r, c>>] = IF r + n < Rows THEN p.cells[<<r + n, c>>] ELSE BlankCell(p)
      OBVIOUS
  <2>4. /\ s \in Seq(ClusterRecord) /\ Len(s) <= MaxClusters
        /\ \A i \in DOMAIN s : \E x \in Recs(p) :
              /\ x.row >= n /\ s[i].row = x.row - n
              /\ s[i].col = x.col /\ s[i].text = x.text
        /\ \A i, j \in DOMAIN s :
              s[i].row = s[j].row /\ s[i].col = s[j].col => i = j
      BY <1>1, <2>0, ScrolledRecordsAre
  <2>5. q = [p EXCEPT !.cells = cells, !.recs = s, !.row = Rows - 1,
                      !.col = IF n >= Rows THEN 0 ELSE p.col,
                      !.dirtyAll = TRUE, !.dirty = {}]
    <3>1. DOMAIN p.cells = RowIds \X ColIds BY <1>1
    <3> QED BY <3>1, <1>1, <1>3 DEF Scroll, Planes
  <2> HIDE DEF cells, s
  <2>6. Rows - 1 \in RowIds /\ 0 \in 0 .. Cols BY ConsoleAssumption DEF RowIds
  <2>7. /\ q \in Planes /\ q.cells = cells /\ q.recs = s /\ q.row = Rows - 1
        /\ q.style = p.style /\ q.wrap = p.wrap /\ q.writes = p.writes
        /\ q.status = p.status /\ q.dirtyAll
    <3>1. s \in {t \in Seq(ClusterRecord) : Len(t) <= MaxClusters} BY <2>4
    <3> QED BY <3>1, <2>2, <2>5, <2>6, <1>1, ZenonT(60) DEF Planes
  <2> HIDE DEF q
  <2>8. ASSUME Whole(p) PROVE Whole(q)
    <3> SUFFICES ASSUME NEW r \in RowIds, NEW c \in ColIds
                 PROVE  /\ q.cells[<<r, c>>].part = "lead" =>
                              c + 1 \in ColIds /\ q.cells[<<r, c + 1>>].part = "tail"
                        /\ q.cells[<<r, c>>].part = "tail" =>
                              c > 0 /\ q.cells[<<r, c - 1>>].part = "lead"
        BY DEF Whole
    <3>1. CASE ~(r + n < Rows)
      <4>1. q.cells[<<r, c>>].part = "whole" BY <3>1, <2>1, <2>3, <2>7
      <4> QED BY <4>1
    <3>2. CASE r + n < Rows
      <4>1. r + n \in RowIds BY <3>2, <2>0 DEF RowIds
      <4>2. \A d \in ColIds : q.cells[<<r, d>>] = p.cells[<<r + n, d>>]
          BY <3>2, <2>3, <2>7
      <4>3. ASSUME q.cells[<<r, c>>].part = "lead"
            PROVE  c + 1 \in ColIds /\ q.cells[<<r, c + 1>>].part = "tail"
        <5>1. p.cells[<<r + n, c>>].part = "lead" BY <4>2, <4>3
        <5>2. c + 1 \in ColIds /\ p.cells[<<r + n, c + 1>>].part = "tail"
            BY <5>1, <4>1, <2>8, Zenon DEF Whole
        <5> QED BY <5>2, <4>2
      <4>4. ASSUME q.cells[<<r, c>>].part = "tail"
            PROVE  c > 0 /\ q.cells[<<r, c - 1>>].part = "lead"
        <5>1. p.cells[<<r + n, c>>].part = "tail" BY <4>2, <4>4
        <5>2. c > 0 /\ p.cells[<<r + n, c - 1>>].part = "lead"
            BY <5>1, <4>1, <2>8, Zenon DEF Whole
        <5>3. c - 1 \in ColIds BY <5>2, ConsoleAssumption DEF ColIds
        <5> QED BY <5>2, <5>3, <4>2
      <4> QED BY <4>3, <4>4
    <3> QED BY <3>1, <3>2
  <2>9. Distinct(q) BY <2>4, <2>7 DEF Distinct
  <2>10. ASSUME NEW i \in DOMAIN q.recs
         PROVE  \E x \in Recs(p) :
                   /\ q.recs[i].text = x.text
                   /\ q.cells[<<q.recs[i].row, q.recs[i].col>>] = p.cells[<<x.row, x.col>>]
    <3>1. PICK x \in Recs(p) :
              /\ x.row >= n /\ q.recs[i].row = x.row - n
              /\ q.recs[i].col = x.col /\ q.recs[i].text = x.text
        BY <2>4, <2>7
    <3>2. x.row \in RowIds /\ x.col \in ColIds BY <1>1, RecsAre
    <3>3. x.row - n \in RowIds /\ (x.row - n) + n = x.row /\ (x.row - n) + n < Rows
        BY <3>1, <3>2, <2>0 DEF RowIds
    <3>4. q.cells[<<x.row - n, x.col>>] = p.cells[<<x.row, x.col>>]
        BY <3>2, <3>3, <2>3, <2>7
    <3> QED BY <3>1, <3>4
  <2>11. Tall(q) /\ OffTails(q)
    <3>1. \A x \in Recs(p) :
              Width[x.text] \in {1, 2} /\ p.cells[<<x.row, x.col>>].part # "tail"
        BY <1>1, RecsAre
    <3> QED BY <3>1, <2>10 DEF Tall, OffTails
  <2>12. ASSUME OnCells(p) PROVE OnCells(q)
    <3>1. \A x \in Recs(p) : OnCell(p, x) BY <1>1, <2>12, RecsAre
    <3> QED BY <3>1, <2>10 DEF OnCells, OnCell
  <2>13. Kept(p, q) BY <2>7, <2>8, <2>9, <2>11, <2>12 DEF Kept, Good, Fair
  <2> QED BY <2>7, <2>13, <1>3 DEF Grows, Shown, Dirty, q
<1> QED BY <1>2, <1>3

LEMMA NewlineIs ==
    ASSUME NEW p, Fair(p)
    PROVE  LET q == Newline(p)
           IN  /\ Grows(p, q) /\ Shown(p, q) /\ q.status = p.status /\ q.col = 0
               /\ q.dirtyAll \/ q.row = p.row + 1
<1>1. p \in Planes /\ p.row \in RowIds /\ Rows \in Nat /\ Rows # 0
    BY PlaneFields, ConsoleAssumption DEF Fair
<1>2. CASE p.row + 1 < Rows
  <2> DEFINE q == [p EXCEPT !.row = p.row + 1, !.col = 0]
  <2>1. Newline(p) = q BY <1>1, <1>2 DEF Newline, Planes
  <2>2. p.row + 1 \in RowIds /\ 0 \in 0 .. Cols
      BY <1>1, <1>2, ConsoleAssumption DEF RowIds
  <2>3. /\ q \in Planes /\ q.cells = p.cells /\ q.recs = p.recs /\ q.style = p.style
        /\ q.wrap = p.wrap /\ q.writes = p.writes /\ q.row = p.row + 1 /\ q.col = 0
        /\ q.dirty = p.dirty /\ q.dirtyAll = p.dirtyAll /\ q.status = p.status
      BY <1>1, <2>2 DEF Planes
  <2> HIDE DEF q
  <2>4. Kept(p, q) /\ Shown(p, q) BY <2>3, RegistersChange
  <2> QED BY <2>1, <2>3, <2>4 DEF Grows, Dirty
<1>3. CASE ~(p.row + 1 < Rows)
  <2> DEFINE s == Scroll(p, 1)
             q == [s EXCEPT !.col = 0]
  <2>1. Newline(p) = q BY <1>3 DEF Newline
  <2>2. /\ Grows(p, s) /\ s.status = p.status /\ s.dirtyAll
    <3>1. 1 \in Nat /\ 1 # 0 OBVIOUS
    <3> QED BY <3>1, ScrollIs
  <2> HIDE DEF s
  <2>3. Fair(s) /\ s \in Planes /\ 0 \in 0 .. Cols
      BY <2>2, ConsoleAssumption DEF Grows, Kept, Fair
  <2>4. /\ q \in Planes /\ q.cells = s.cells /\ q.recs = s.recs /\ q.style = s.style
        /\ q.wrap = s.wrap /\ q.writes = s.writes /\ q.row = s.row /\ q.col = 0
        /\ q.dirty = s.dirty /\ q.dirtyAll = s.dirtyAll /\ q.status = s.status
      BY <2>3 DEF Planes
  <2> HIDE DEF q
  <2>5. Kept(p, q)
    <3>1. Kept(s, q) BY <2>3, <2>4, RegistersChange
    <3> QED BY <3>1, <2>2, KeptKept DEF Grows
  <2> QED BY <2>1, <2>2, <2>4, <2>5 DEF Grows, Shown, Dirty
<1> QED BY <1>2, <1>3

-----------------------------------------------------------------------------
(* The move of a run.                                                      *)

RunOf(p, c) == {i \in DOMAIN p.recs : p.recs[i].row = p.row /\ p.recs[i].col >= c}
RunCells(p, c) == UNION {Span(p.row, p.recs[i].col, p.recs[i].text) : i \in RunOf(p, c)}
Left(p, c) == [SetBlanks(p, RunCells(p, c))
                 EXCEPT !.recs = Picked(@, DOMAIN @ \ RunOf(p, c))]
Moved(p, c) == Picked(p.recs, RunOf(p, c))

LEMMA PairSpan ==
    ASSUME NEW e \in Int, NEW w \in {1, 2}, NEW d \in Int
    PROVE  d \in e .. e + w - 1 <=> d = e \/ (d = e + 1 /\ w = 2)
OBVIOUS

\* The cells that a record covers.
Covers(x, r, d) ==
    r = x.row /\ (d = x.col \/ (d = x.col + 1 /\ Width[x.text] = 2))

\* The cells of a run: a wide cluster stands on a lead and its tail.
LEMMA RunCellsAre ==
    ASSUME NEW p, Fair(p), NEW c \in Int
    PROVE  /\ \A r \in RowIds, d \in ColIds :
                 <<r, d>> \in RunCells(p, c) <=>
                     \E i \in RunOf(p, c) :
                        Covers(p.recs[i], r, d)
           /\ \A i \in RunOf(p, c) :
                 <<p.recs[i].row, p.recs[i].col>> \in RunCells(p, c)
           /\ Good(p) =>
                 /\ Closed(p, RunCells(p, c))
                 /\ \A i \in DOMAIN p.recs \ RunOf(p, c) :
                       <<p.recs[i].row, p.recs[i].col>> \notin RunCells(p, c)
<1> DEFINE Q == RunCells(p, c)
           run == RunOf(p, c)
<1>1. p \in Planes /\ Distinct(p) /\ Tall(p) BY DEF Fair
<1>2. ASSUME NEW i \in DOMAIN p.recs
      PROVE  /\ p.recs[i].row \in RowIds /\ p.recs[i].col \in ColIds
             /\ p.recs[i].col \in Int /\ Width[p.recs[i].text] \in {1, 2}
  <2>1. p.recs[i] \in Recs(p) BY DEF Recs
  <2>2. p.recs[i].row \in RowIds /\ p.recs[i].col \in ColIds BY <1>1, <2>1, RecsAre
  <2> QED BY <2>2, <1>1 DEF Tall, ColIds
<1>10. ASSUME Good(p), NEW i \in DOMAIN p.recs
       PROVE  /\ p.cells[<<p.recs[i].row, p.recs[i].col>>].part # "tail"
              /\ IF Width[p.recs[i].text] = 2
                 THEN p.cells[<<p.recs[i].row, p.recs[i].col + 1>>].part = "tail"
                 ELSE p.cells[<<p.recs[i].row, p.recs[i].col>>].part # "lead"
  <2> DEFINE x == p.recs[i]
  <2>1. x.row \in RowIds /\ x.col \in ColIds /\ OnCell(p, x) /\ Whole(p)
      BY <1>2, <1>10 DEF Good, OnCells
  <2> HIDE DEF x
  <2>3. p.cells[<<x.row, x.col>>].part = IF Width[x.text] = 2 THEN "lead" ELSE "whole"
      BY <2>1 DEF OnCell
  <2>4. CASE Width[x.text] = 2
    <3>1. p.cells[<<x.row, x.col>>].part = "lead" BY <2>3, <2>4
    <3>2. p.cells[<<x.row, x.col + 1>>].part = "tail"
        BY <2>1, <3>1, Zenon DEF Whole
    <3> QED BY <2>4, <3>1, <3>2 DEF x
  <2>5. CASE Width[x.text] # 2 BY <2>3, <2>5 DEF x
  <2> QED BY <2>4, <2>5
<1>3. \A i \in run : i \in DOMAIN p.recs /\ p.recs[i].row = p.row BY DEF RunOf
<1>4. ASSUME NEW i \in run, NEW r, NEW d \in Int
      PROVE  <<r, d>> \in Span(p.row, p.recs[i].col, p.recs[i].text) <=>
                 Covers(p.recs[i], r, d)
  <2> DEFINE e == p.recs[i].col
             w == Width[p.recs[i].text]
  <2>1. e \in Int /\ w \in {1, 2} /\ p.recs[i].row = p.row BY <1>2, <1>3
  <2>2. <<r, d>> \in Span(p.row, e, p.recs[i].text) <=>
            r = p.row /\ d \in e .. e + w - 1
      BY DEF Span
  <2> HIDE DEF e, w
  <2>3. d \in e .. e + w - 1 <=> d = e \/ (d = e + 1 /\ w = 2)
      BY <2>1, PairSpan
  <2>4. r = p.row <=> r = p.recs[i].row BY <2>1
  <2> QED BY <2>2, <2>3, <2>4, Zenon DEF e, w, Covers
<1> HIDE DEF run
<1>5. ASSUME NEW r, NEW d \in Int
      PROVE  <<r, d>> \in Q <=>
                 \E i \in run :
                    Covers(p.recs[i], r, d)
  <2>1. <<r, d>> \in Q <=>
            \E i \in run : <<r, d>> \in Span(p.row, p.recs[i].col, p.recs[i].text)
      BY DEF RunCells, run
  <2> QED BY <2>1, <1>4
<1> HIDE DEF Q
<1>6. ASSUME Good(p) PROVE Closed(p, Q)
  <2> SUFFICES ASSUME NEW r \in RowIds, NEW d \in ColIds, p.cells[<<r, d>>].part = "lead"
               PROVE  <<r, d>> \in Q <=> <<r, d + 1>> \in Q
      BY DEF Closed
  <2>1. d \in Int /\ p.cells[<<r, d + 1>>].part = "tail"
    <3>1. p.cells[<<r, d + 1>>].part = "tail" BY <1>6, Zenon DEF Good, Whole
    <3> QED BY <3>1 DEF ColIds
  <2>2. ASSUME NEW i \in run, r = p.recs[i].row,
               d = p.recs[i].col \/ (d = p.recs[i].col + 1 /\ Width[p.recs[i].text] = 2)
        PROVE  d + 1 = p.recs[i].col + 1 /\ Width[p.recs[i].text] = 2
    <3>1. d = p.recs[i].col BY <2>2, <1>3, <1>6, <1>10
    <3>2. Width[p.recs[i].text] = 2 BY <3>1, <2>2, <1>3, <1>6, <1>10
    <3> QED BY <3>1, <3>2
  <2>3. ASSUME NEW i \in run, r = p.recs[i].row,
               d + 1 = p.recs[i].col
                  \/ (d + 1 = p.recs[i].col + 1 /\ Width[p.recs[i].text] = 2)
        PROVE  d = p.recs[i].col
    <3>1. d + 1 # p.recs[i].col BY <2>1, <2>3, <1>3, <1>6, <1>10
    <3>2. d + 1 = p.recs[i].col + 1 /\ p.recs[i].col \in Int BY <3>1, <2>3, <1>2, <1>3
    <3> QED BY <3>2, <2>1
  <2>4. d + 1 \in Int BY <2>1
  <2>5. ASSUME <<r, d>> \in Q PROVE <<r, d + 1>> \in Q
    <3>1. PICK i \in run :
              Covers(p.recs[i], r, d)
        BY <2>1, <2>5, <1>5
    <3>2. d + 1 = p.recs[i].col + 1 /\ Width[p.recs[i].text] = 2 BY <3>1, <2>2 DEF Covers
    <3> QED BY <2>4, <3>1, <3>2, <1>5 DEF Covers
  <2>6. ASSUME <<r, d + 1>> \in Q PROVE <<r, d>> \in Q
    <3>1. PICK i \in run :
              Covers(p.recs[i], r, d + 1)
        BY <2>4, <2>6, <1>5
    <3>2. d = p.recs[i].col BY <3>1, <2>3 DEF Covers
    <3> QED BY <2>1, <3>1, <3>2, <1>5 DEF Covers
  <2> QED BY <2>5, <2>6
<1>7. ASSUME NEW i \in run PROVE <<p.recs[i].row, p.recs[i].col>> \in Q
  <2>1. p.recs[i].col \in Int BY <1>2, <1>3
  <2>2. Covers(p.recs[i], p.recs[i].row, p.recs[i].col) BY DEF Covers
  <2> QED BY <2>1, <2>2, <1>5
<1>8. ASSUME Good(p), NEW i \in DOMAIN p.recs \ run
      PROVE  <<p.recs[i].row, p.recs[i].col>> \notin Q
  <2> SUFFICES ASSUME <<p.recs[i].row, p.recs[i].col>> \in Q PROVE FALSE
      OBVIOUS
  <2>1. p.recs[i].col \in Int BY <1>2
  <2>2. PICK j \in run : Covers(p.recs[j], p.recs[i].row, p.recs[i].col)
      BY <2>1, <1>5, Zenon
  <2>3. j \in DOMAIN p.recs BY <1>3
  <2>4. p.recs[i].row = p.recs[j].row /\ p.recs[i].col = p.recs[j].col
      BY <2>2, <2>3, <1>8, <1>10 DEF Covers
  <2>5. i = j BY <2>3, <2>4, <1>1, Zenon DEF Distinct
  <2> QED BY <2>5
<1>9. \A r \in RowIds, d \in ColIds :
          <<r, d>> \in Q <=> \E i \in run : Covers(p.recs[i], r, d)
  <2>1. \A d \in ColIds : d \in Int BY DEF ColIds
  <2> QED BY <2>1, <1>5, Zenon
<1> QED BY <1>6, <1>7, <1>8, <1>9 DEF Q, run

\* What the move leaves differs only in the row of the cursor.
LEMMA LeftIs ==
    ASSUME NEW p, Fair(p), NEW c \in Int
    PROVE  LET q == Left(p, c)
           IN  /\ Kept(p, q) /\ SameRegisters(p, q)
               /\ \A r \in RowIds \ {p.row} : SameRow(p, q, r)
<1> DEFINE Q == RunCells(p, c)
           run == RunOf(p, c)
           b == SetBlanks(p, Q)
           I == DOMAIN b.recs \ run
           q == [b EXCEPT !.recs = Picked(b.recs, I)]
<1>1. p \in Planes /\ Distinct(p) BY DEF Fair
<1>2. /\ b \in Planes /\ b.recs = p.recs
      /\ \A r \in RowIds, d \in ColIds :
            b.cells[<<r, d>>] = IF <<r, d>> \in Q THEN BlankCell(p) ELSE p.cells[<<r, d>>]
      /\ BlankCell(p).glyph = Blank /\ BlankCell(p).part = "whole"
    BY <1>1, SetBlanksIs
<1>3. SameRegisters(p, b) BY <1>1 DEF SetBlanks, Planes, SameRegisters
<1>4. Left(p, c) = q BY <1>2 DEF Left, Planes
<1> HIDE DEF b
<1>5. Distinct(b) BY <1>1, <1>2 DEF Distinct
<1>6. /\ q \in Planes /\ Distinct(q) /\ SameRegisters(b, q)
      /\ q.cells = b.cells /\ Recs(q) = {b.recs[i] : i \in I}
    BY <1>2, <1>5, RecordsPicked
<1>7. Recs(q) = {p.recs[i] : i \in DOMAIN p.recs \ run} BY <1>2, <1>6
<1>8. SameRegisters(p, q) BY <1>3, <1>6 DEF SameRegisters
<1> HIDE DEF q
<1>9. ASSUME NEW r \in RowIds \ {p.row}, NEW d \in ColIds PROVE <<r, d>> \notin Q
  <2>1. \A i \in run : p.recs[i].row = p.row BY DEF RunOf
  <2>2. <<r, d>> \in Q => \E i \in run : Covers(p.recs[i], r, d) BY RunCellsAre
  <2> QED BY <2>1, <2>2 DEF Covers
<1>10. \A i \in run : <<p.recs[i].row, p.recs[i].col>> \in Q BY RunCellsAre
<1>11. ASSUME Good(p)
       PROVE  /\ Closed(p, Q)
              /\ \A i \in DOMAIN p.recs \ run : <<p.recs[i].row, p.recs[i].col>> \notin Q
    BY <1>11, RunCellsAre
<1> HIDE DEF Q, run
<1>12. Blanked(p, q, Q)
  <2>1. \A r \in RowIds, d \in ColIds :
            IF <<r, d>> \in Q
            THEN q.cells[<<r, d>>].glyph = Blank /\ q.cells[<<r, d>>].part = "whole"
            ELSE q.cells[<<r, d>>] = p.cells[<<r, d>>]
      BY <1>2, <1>6
  <2>2. Recs(q) \in SUBSET Recs(p) BY <1>7 DEF Recs
  <2>3. ASSUME NEW x \in Recs(p) \ Recs(q) PROVE \E d \in ColIds : <<x.row, d>> \in Q
    <3>1. PICK i \in DOMAIN p.recs : x = p.recs[i] BY DEF Recs
    <3>2. i \in run BY <3>1, <2>3, <1>7
    <3>3. <<x.row, x.col>> \in Q BY <3>1, <3>2, <1>10
    <3> QED BY <3>3, <1>1, RecsAre
  <2> QED BY <2>1, <2>2, <2>3, <1>6, <1>8 DEF Blanked
<1>13. Fair(q) /\ \A r \in RowIds \ {p.row} : SameRow(p, q, r)
    BY <1>9, <1>12, BlankedFair
<1>14. ASSUME Good(p) PROVE Good(q)
  <2>1. \A x \in Recs(q) : <<x.row, x.col>> \notin Q BY <1>7, <1>11, <1>14
  <2> QED BY <2>1, <1>11, <1>12, <1>14, BlankedGood
<1> QED BY <1>4, <1>8, <1>13, <1>14 DEF Kept

\* The records of a run are placed again one by one, on the row after the
\* line end.
LEMMA MoveSteps ==
    ASSUME NEW p, Fair(p), NEW c \in Int
    PROVE  LET m == Moved(p, c)
               s == Newline(Left(p, c))
           IN  /\ Len(m) \in Nat
               /\ \A i \in 1 .. Len(m) : m[i].text \in Clusters /\ Width[m[i].text] \in {1, 2}
               /\ \E f : /\ MoveRun(p, c) = f[Len(m)] /\ f[0] = s
                         /\ \A i \in 1 .. Len(m) : f[i] = Place(f[i - 1], m[i].text)
                         /\ \A i \in 0 .. Len(m) :
                               Grows(s, f[i]) /\ Shown(s, f[i]) /\ f[i].row = s.row
<1> DEFINE m == Moved(p, c)
           n == Len(m)
           s == Newline(Left(p, c))
           T == {q \in Planes : Grows(s, q) /\ Shown(s, q) /\ q.row = s.row}
           step == [z \in (1 .. n) \X T |-> Place(z[2], m[z[1]].text)]
           Runs(f) == f = [i \in 0 .. n |->
                              IF i = 0 THEN s ELSE Place(f[i - 1], m[i].text)]
           after == CHOOSE f : Runs(f)
<1>1. p \in Planes /\ p.recs \in Seq(ClusterRecord) /\ Tall(p)
    BY PlaneFields DEF Fair
<1>2. /\ m \in Seq(ClusterRecord) /\ n \in Nat /\ DOMAIN m = 1 .. n
      /\ \A i \in DOMAIN m : \E j \in DOMAIN p.recs : m[i] = p.recs[j]
  <2>1. RunOf(p, c) \in SUBSET DOMAIN p.recs BY DEF RunOf
  <2>2. m \in Seq(ClusterRecord)
        /\ \A i \in DOMAIN m : \E j \in DOMAIN p.recs : m[i] = p.recs[j]
      BY <1>1, <2>1, PickedIs DEF Moved
  <2> HIDE DEF m
  <2> QED BY <2>2
<1>3. \A i \in 1 .. n : m[i].text \in Clusters /\ Width[m[i].text] \in {1, 2}
  <2> SUFFICES ASSUME NEW i \in 1 .. n
               PROVE  m[i].text \in Clusters /\ Width[m[i].text] \in {1, 2}
      OBVIOUS
  <2>1. PICK j \in DOMAIN p.recs : m[i] = p.recs[j] BY <1>2
  <2>2. p.recs[j] \in Recs(p) BY DEF Recs
  <2>3. p.recs[j].text \in Clusters /\ Width[p.recs[j].text] \in {1, 2}
      BY <1>1, <2>2, RecsAre
  <2> HIDE DEF m
  <2> QED BY <2>1, <2>3
<1>4. MoveRun(p, c) = after[n] BY DEF MoveRun, Moved, Left, RunOf, RunCells
<1> HIDE DEF m, n
<1>5. s \in T
  <2>1. Fair(Left(p, c)) BY LeftIs DEF Kept
  <2>2. Grows(Left(p, c), s) BY <2>1, NewlineIs
  <2> HIDE DEF s
  <2>3. Fair(s) /\ s \in Planes BY <2>2 DEF Grows, Kept, Fair
  <2> QED BY <2>3 DEF Grows, Kept, Shown, SameRow
<1> HIDE DEF s
<1>6. ASSUME NEW i \in 1 .. n, NEW q \in T PROVE Place(q, m[i].text) \in T
  <2> DEFINE t == Place(q, m[i].text)
  <2>1. Fair(q) /\ Grows(s, q) /\ Shown(s, q) /\ q.row = s.row BY DEF Grows, Kept
  <2>2. Grows(q, t) /\ Shown(q, t) /\ t.row = q.row BY <2>1, <1>3, PlaceIs
  <2> HIDE DEF t
  <2>3. t \in Planes BY <2>2 DEF Grows, Kept, Fair
  <2>4. Grows(s, t) BY <2>1, <2>2, KeptKept DEF Grows
  <2>5. Shown(s, t)
    <3> SUFFICES ASSUME NEW r \in RowIds PROVE SameRow(s, t, r) \/ Dirty(t, r)
        BY DEF Shown
    <3>1. SameRow(s, q, r) \/ Dirty(q, r) BY <2>1 DEF Shown
    <3>2. SameRow(q, t, r) \/ Dirty(t, r) BY <2>2 DEF Shown
    <3>3. Dirty(q, r) => Dirty(t, r) BY <2>2 DEF Grows
    <3>4. SameRow(s, q, r) /\ SameRow(q, t, r) => SameRow(s, t, r) BY DEF SameRow
    <3> QED BY <3>1, <3>2, <3>3, <3>4
  <2> QED BY <2>1, <2>2, <2>3, <2>4, <2>5 DEF t
<1> HIDE DEF T
<1>7. step \in [(1 .. n) \X T -> T] BY <1>6
<1>8. \A i \in 1 .. n, q \in T : step[<<i, q>>] = Place(q, m[i].text) OBVIOUS
<1> HIDE DEF step
<1>9. PICK g \in [0 .. n -> T] :
          g[0] = s /\ \A i \in 1 .. n : g[i] = step[<<i, g[i - 1]>>]
  <2>1. n \in Nat BY <1>2
  <2>2. \E g \in [0 .. n -> T] : StepRuns(g, n, s, step)
      BY <2>1, <1>5, <1>7, StepsExist
  <2> QED BY <2>2 DEF StepRuns
<1>10. \A i \in 1 .. n : i - 1 \in 0 .. n /\ g[i - 1] \in T BY <1>2
<1>11. Runs(g)
  <2>1. \A i \in 1 .. n : g[i] = Place(g[i - 1], m[i].text) BY <1>8, <1>9, <1>10
  <2>2. \A i \in 0 .. n : i # 0 => i \in 1 .. n BY <1>2
  <2>3. g = [i \in 0 .. n |-> g[i]] OBVIOUS
  <2> QED BY <1>9, <2>1, <2>2, <2>3
<1>12. Runs(after)
  <2> HIDE DEF Runs
  <2> QED BY <1>11
<1> DEFINE a == after
<1>13. /\ a[0] = s
       /\ \A i \in 1 .. n : a[i] = Place(a[i - 1], m[i].text)
  <2>1. 0 \in 0 .. n /\ \A i \in 1 .. n : i \in 0 .. n /\ i # 0 BY <1>2
  <2> HIDE DEF after
  <2> QED BY <1>12, <2>1
<1> HIDE DEF after, Runs
<1>14. \A i \in 0 .. n : a[i] \in T
  <2> DEFINE bad == {i \in 0 .. n : a[i] \notin T}
  <2> SUFFICES ASSUME bad # {} PROVE FALSE
      OBVIOUS
  <2>1. bad \in SUBSET Nat OBVIOUS
  <2>2. PICK i \in bad : \A j \in bad : i <= j BY <2>1, LeastExists
  <2>3. i # 0 BY <2>2, <1>13, <1>5
  <2>4. i \in 1 .. n /\ i - 1 \in 0 .. n /\ ~(i <= i - 1)
    <3>1. i \in 0 .. n /\ n \in Nat BY <2>2, <1>2
    <3> QED BY <3>1, <2>3
  <2>5. a[i - 1] \in T BY <2>2, <2>4
  <2>6. a[i] \in T BY <2>4, <2>5, <1>6, <1>13
  <2> QED BY <2>2, <2>6
<1> DEFINE f == after
<1>15. MoveRun(p, c) = f[n] BY <1>4
<1>16. \A i \in 0 .. n : Grows(s, f[i]) /\ Shown(s, f[i]) /\ f[i].row = s.row
    BY <1>14 DEF T
<1>17. f[0] = s /\ \A i \in 1 .. n : f[i] = Place(f[i - 1], m[i].text) BY <1>13
<1> HIDE DEF f
<1> QED BY <1>2, <1>3, <1>15, <1>16, <1>17 DEF m, n, s

\* What a move changes: rows that become dirty, and the row that it leaves
\* downwards.
LEMMA MoveRunIs ==
    ASSUME NEW p, Fair(p), NEW c \in Int
    PROVE  LET q == MoveRun(p, c)
           IN  /\ Grows(p, q)
               /\ \A r \in RowIds :
                     SameRow(p, q, r) \/ Dirty(q, r) \/ (r = p.row /\ q.row = r + 1)
<1> DEFINE l == Left(p, c)
           s == Newline(l)
           q == MoveRun(p, c)
           n == Len(Moved(p, c))
<1>1. /\ Kept(p, l) /\ Fair(l) /\ SameRegisters(p, l)
      /\ \A r \in RowIds \ {p.row} : SameRow(p, l, r)
    BY LeftIs DEF Kept
<1> HIDE DEF l
<1>2. /\ Grows(l, s) /\ Shown(l, s)
      /\ s.dirtyAll \/ s.row = l.row + 1
    BY <1>1, NewlineIs
<1>3. Grows(s, q) /\ Shown(s, q) /\ q.row = s.row
  <2>1. n \in Nat BY MoveSteps
  <2>2. PICK f : /\ MoveRun(p, c) = f[n]
                 /\ \A i \in 0 .. n :
                       Grows(s, f[i]) /\ Shown(s, f[i]) /\ f[i].row = s.row
      BY MoveSteps DEF l
  <2>3. n \in 0 .. n BY <2>1
  <2> HIDE DEF n, s
  <2> QED BY <2>2, <2>3
<1> HIDE DEF s, q
<1>4. l.row = p.row /\ \A r \in RowIds : Dirty(p, r) => Dirty(l, r)
    BY <1>1 DEF SameRegisters, Dirty
<1>5. Grows(p, q)
  <2>1. l.style = p.style /\ l.wrap = p.wrap /\ l.writes = p.writes
      BY <1>1 DEF SameRegisters
  <2>2. Kept(p, s) BY <1>1, <1>2, KeptKept DEF Grows
  <2>3. Kept(p, q) BY <2>2, <1>3, KeptKept DEF Grows
  <2> QED BY <2>1, <2>3, <1>2, <1>3, <1>4 DEF Grows
<1>6. ASSUME NEW r \in RowIds
      PROVE  SameRow(p, q, r) \/ Dirty(q, r) \/ (r = p.row /\ q.row = r + 1)
  <2>1. SameRow(l, s, r) \/ Dirty(s, r) BY <1>2 DEF Shown
  <2>2. SameRow(s, q, r) \/ Dirty(q, r) BY <1>3 DEF Shown
  <2>3. Dirty(s, r) => Dirty(q, r) BY <1>3 DEF Grows
  <2>4. CASE r # p.row
    <3>1. SameRow(p, l, r) BY <1>1, <2>4
    <3>2. SameRow(l, s, r) /\ SameRow(s, q, r) => SameRow(p, q, r)
        BY <3>1 DEF SameRow
    <3> QED BY <2>1, <2>2, <2>3, <3>2
  <2>5. CASE r = p.row
    <3>1. CASE s.dirtyAll BY <2>3, <3>1 DEF Dirty
    <3>2. CASE ~s.dirtyAll
      <4>1. s.row = l.row + 1 BY <1>2, <3>2
      <4>2. q.row = p.row + 1 BY <4>1, <1>3, <1>4
      <4> QED BY <2>5, <4>2
    <3> QED BY <3>1, <3>2
  <2> QED BY <2>4, <2>5
<1> QED BY <1>5, <1>6 DEF q

-----------------------------------------------------------------------------
(* Wrapping.                                                               *)

\* In a row with records there is a last column to break before: the leftmost
\* record is one.
LEMMA LastBreakColIs ==
    ASSUME NEW p \in Planes, NEW r \in RowIds, RecordCols(p, r) # {}
    PROVE  LastBreakCol(p, r) \in ColIds /\ LastBreakCol(p, r) \in Nat
<1> DEFINE C == RecordCols(p, r)
           S == {c \in C : BreakBefore(p, r, c)}
<1>1. C \in SUBSET ColIds
  <2>1. \A i \in DOMAIN p.recs : p.recs[i] \in Recs(p) BY DEF Recs
  <2>2. \A i \in DOMAIN p.recs : p.recs[i].col \in ColIds BY <2>1, RecsAre
  <2> QED BY <2>2 DEF RecordCols
<1>2. \A c \in ColIds : c \in Nat /\ c < Cols BY ConsoleAssumption DEF ColIds
<1>3. Cols \in Nat BY ConsoleAssumption
<1> HIDE DEF C
<1>4. PICK least \in C : \A d \in C : least <= d
  <2>1. C \in SUBSET Nat BY <1>1, <1>2
  <2>2. C # {} BY DEF C
  <2> QED BY <2>1, <2>2, LeastExists
<1>5. least \in S
  <2>1. \A d \in C : ~(d < least)
    <3>1. \A d \in C : d \in Nat BY <1>1, <1>2
    <3> QED BY <3>1, <1>4
  <2>2. BreakBefore(p, r, least) BY <2>1 DEF BreakBefore, C
  <2> QED BY <2>2
<1> HIDE DEF S
<1>6. S \in SUBSET C BY DEF S
<1>7. \E c \in S : \A d \in S : d <= c
  <2> DEFINE rest == {Cols - c : c \in S}
  <2>1. \A c \in S : c \in Nat /\ c < Cols BY <1>1, <1>2, <1>6
  <2>2. rest \in SUBSET Nat BY <2>1, <1>3
  <2>3. rest # {} BY <1>5
  <2>4. PICK y \in rest : \A x \in rest : y <= x BY <2>2, <2>3, LeastExists
  <2>5. PICK c \in S : y = Cols - c BY <2>4
  <2>6. ASSUME NEW d \in S PROVE d <= c
    <3>1. Cols - d \in rest OBVIOUS
    <3>2. Cols - c <= Cols - d BY <3>1, <2>4, <2>5
    <3> QED BY <3>2, <2>1, <1>3
  <2> QED BY <2>6
<1>8. LastBreakCol(p, r) = Rightmost(S) BY DEF LastBreakCol, S, C
<1>9. Rightmost(S) \in S BY <1>7 DEF Rightmost
<1> QED BY <1>1, <1>2, <1>6, <1>8, <1>9

\* scts_flush_cluster, once the cluster has a base that takes cells.
LEMMA PlaceOrWrapIs ==
    ASSUME NEW p, Fair(p), NEW k \in Clusters, Width[k] \in {1, 2}
    PROVE  LET q == PlaceOrWrap(p, k)
           IN  /\ Grows(p, q)
               /\ \A r \in RowIds :
                     SameRow(p, q, r) \/ Dirty(q, r) \/ (r = p.row /\ q.row = r + 1)
<1>1. p \in Planes /\ p.row \in RowIds BY PlaneFields DEF Fair
<1> DEFINE q == PlaceOrWrap(p, k)
           Moves(b) == \A r \in RowIds :
               SameRow(p, b, r) \/ Dirty(b, r) \/ (r = p.row /\ b.row = r + 1)
<1>2. ASSUME NEW b, Grows(p, b), Moves(b)
      PROVE  Grows(p, Place(b, k)) /\ Moves(Place(b, k))
  <2> DEFINE d == Place(b, k)
  <2>1. Grows(b, d) /\ Shown(b, d) /\ d.row = b.row BY <1>2, PlaceIs DEF Grows, Kept
  <2> HIDE DEF d
  <2>2. Grows(p, d) BY <1>2, <2>1, KeptKept DEF Grows
  <2>3. Moves(d)
    <3> SUFFICES ASSUME NEW r \in RowIds
                 PROVE  SameRow(p, d, r) \/ Dirty(d, r) \/ (r = p.row /\ d.row = r + 1)
        OBVIOUS
    <3>1. SameRow(p, b, r) \/ Dirty(b, r) \/ (r = p.row /\ b.row = r + 1) BY <1>2
    <3>2. SameRow(b, d, r) \/ Dirty(d, r) BY <2>1 DEF Shown
    <3>3. Dirty(b, r) => Dirty(d, r) BY <2>1 DEF Grows
    <3>4. SameRow(p, b, r) /\ SameRow(b, d, r) => SameRow(p, d, r) BY DEF SameRow
    <3> QED BY <3>1, <3>2, <3>3, <3>4, <2>1
  <2> QED BY <2>2, <2>3 DEF d
<1>3. ASSUME NEW b, Grows(p, b), Shown(p, b) PROVE Grows(p, b) /\ Moves(b)
    BY <1>3 DEF Shown
<1>4. CASE Fits(p, k)
  <2>1. q = Place(p, k) BY <1>4 DEF PlaceOrWrap
  <2>2. Grows(p, q) /\ Shown(p, q) BY <2>1, PlaceIs
  <2> HIDE DEF q
  <2> QED BY <2>2, <1>3 DEF q
<1>5. ASSUME NEW e \in Statuses, q = [p EXCEPT !.status = e]
      PROVE  Grows(p, q) /\ Shown(p, q)
  <2> HIDE DEF q
  <2>1. /\ q \in Planes /\ q.cells = p.cells /\ q.recs = p.recs /\ q.style = p.style
        /\ q.wrap = p.wrap /\ q.writes = p.writes /\ q.row = p.row
        /\ q.dirty = p.dirty /\ q.dirtyAll = p.dirtyAll
      BY <1>1, <1>5 DEF Planes
  <2>2. Kept(p, q) /\ Shown(p, q) BY <2>1, RegistersChange
  <2> QED BY <2>1, <2>2 DEF Grows, Dirty
<1>6. CASE ~Fits(p, k) /\ ~p.wrap
  <2>1. q = [p EXCEPT !.status = "E_COL_RANGE"] BY <1>6 DEF PlaceOrWrap
  <2>2. Grows(p, q) /\ Shown(p, q) BY <2>1, <1>5 DEF Statuses
  <2> HIDE DEF q
  <2> QED BY <2>2, <1>3 DEF q
<1>7. CASE ~Fits(p, k) /\ p.wrap /\ Width[k] > Cols
  <2>1. q = [p EXCEPT !.status = "E_CLUSTER"] BY <1>7 DEF PlaceOrWrap
  <2>2. Grows(p, q) /\ Shown(p, q) BY <2>1, <1>5 DEF Statuses
  <2> HIDE DEF q
  <2> QED BY <2>2, <1>3 DEF q
<1>8. CASE /\ ~Fits(p, k) /\ p.wrap /\ ~(Width[k] > Cols)
           /\ ContinuesRun(p, k) /\ RunFits(p, k)
  <2> DEFINE c == LastBreakCol(p, p.row)
             b == MoveRun(p, c)
  <2>1. q = Place(b, k) BY <1>8 DEF PlaceOrWrap
  <2>2. c \in Int
    <3>1. RecordCols(p, p.row) # {} BY <1>8 DEF ContinuesRun
    <3> QED BY <3>1, <1>1, LastBreakColIs
  <2> HIDE DEF c
  <2>3. Grows(p, b) /\ Moves(b) BY <2>2, MoveRunIs
  <2> HIDE DEF b
  <2> QED BY <2>1, <2>3, <1>2
<1>9. CASE /\ ~Fits(p, k) /\ p.wrap /\ ~(Width[k] > Cols)
           /\ ~(ContinuesRun(p, k) /\ RunFits(p, k))
  <2> DEFINE b == Newline(p)
  <2>1. q = Place(b, k) BY <1>9 DEF PlaceOrWrap
  <2>2. Grows(p, b) /\ Shown(p, b) BY NewlineIs
  <2> HIDE DEF b
  <2>3. Grows(p, b) /\ Moves(b) BY <2>2, <1>3
  <2> QED BY <2>1, <2>3, <1>2
<1> QED BY <1>4, <1>6, <1>7, <1>8, <1>9

-----------------------------------------------------------------------------
(* The operations.                                                         *)

\* What a call of the plane's own operations may do.
Reached(p, q) ==
    /\ Kept(p, q)
    /\ \A r \in RowIds : Dirty(p, r) => Dirty(q, r)
    /\ \A r \in RowIds :
          SameRow(p, q, r) \/ Dirty(q, r) \/ (r = p.row /\ q.row = r + 1)

LEMMA GrownIsReached ==
    ASSUME NEW p, NEW q, Grows(p, q), Shown(p, q)
    PROVE  Reached(p, q)
BY DEF Grows, Shown, Reached

LEMMA CalledIs ==
    ASSUME Fair(plane)
    PROVE  /\ Called \in Planes /\ Fair(Called) /\ Kept(plane, Called)
           /\ Called.cells = plane.cells /\ Called.recs = plane.recs
           /\ Called.row = plane.row /\ Called.col = plane.col
           /\ Called.dirty = plane.dirty /\ Called.dirtyAll = plane.dirtyAll
           /\ Called.writes = plane.writes /\ Called.wrap = plane.wrap
           /\ Called.style = plane.style /\ Called.status = "OK"
           /\ \A q : Reached(Called, q) => Reached(plane, q)
<1>1. plane \in Planes BY DEF Fair
<1>2. /\ Called \in Planes /\ Called.cells = plane.cells /\ Called.recs = plane.recs
      /\ Called.row = plane.row /\ Called.col = plane.col
      /\ Called.dirty = plane.dirty /\ Called.dirtyAll = plane.dirtyAll
      /\ Called.writes = plane.writes /\ Called.wrap = plane.wrap
      /\ Called.style = plane.style /\ Called.status = "OK"
    BY <1>1 DEF Called, Planes, Statuses
<1>3. Kept(plane, Called) BY <1>2, RegistersChange
<1>4. ASSUME NEW q, Reached(Called, q) PROVE Reached(plane, q)
  <2>1. \A r \in RowIds : Dirty(plane, r) <=> Dirty(Called, r) BY <1>2 DEF Dirty
  <2>2. \A r \in RowIds : SameRow(Called, q, r) => SameRow(plane, q, r)
      BY <1>2 DEF SameRow, Recs
  <2>3. Kept(plane, q) BY <1>3, <1>4, KeptKept DEF Reached
  <2> QED BY <1>2, <1>4, <2>1, <2>2, <2>3 DEF Reached
<1> QED BY <1>2, <1>3, <1>4 DEF Kept

\* An operation that moves the cursor or changes a register.
LEMMA RegistersReached ==
    ASSUME NEW p, Fair(p), NEW q \in Planes, q.cells = p.cells, q.recs = p.recs,
           q.dirty = p.dirty, q.dirtyAll = p.dirtyAll
    PROVE  Reached(p, q)
<1>1. Kept(p, q) /\ Shown(p, q) BY RegistersChange
<1>2. \A r \in RowIds : Dirty(p, r) => Dirty(q, r) BY DEF Dirty
<1> QED BY <1>1, <1>2 DEF Reached, Shown

\* A plane that is blank and has no record.
LEMMA BlankIsGood ==
    ASSUME NEW p \in Planes, p.recs = <<>>,
           \A r \in RowIds, c \in ColIds : p.cells[<<r, c>>].part = "whole"
    PROVE  Good(p)
<1>1. Whole(p)
  <2> SUFFICES ASSUME NEW r \in RowIds, NEW c \in ColIds
               PROVE  /\ p.cells[<<r, c>>].part = "lead" =>
                            c + 1 \in ColIds /\ p.cells[<<r, c + 1>>].part = "tail"
                      /\ p.cells[<<r, c>>].part = "tail" =>
                            c > 0 /\ p.cells[<<r, c - 1>>].part = "lead"
      BY DEF Whole
  <2>1. p.cells[<<r, c>>].part = "whole" OBVIOUS
  <2> QED BY <2>1
<1>2. DOMAIN p.recs = {} OBVIOUS
<1>3. Distinct(p) /\ Tall(p) /\ OffTails(p) /\ OnCells(p)
    BY <1>2 DEF Distinct, Tall, OffTails, OnCells
<1> QED BY <1>1, <1>3 DEF Good, Fair

LEMMA NewPlaneIs ==
    ASSUME NEW s \in Styles, NEW w \in WrapOptions
    PROVE  Good(NewPlane(s, w)) /\ NewPlane(s, w).writes = 0
<1> DEFINE p == NewPlane(s, w)
           blank == [glyph |-> Blank, part |-> "whole", style |-> s]
<1>1. blank \in Cell BY DEF Cell
<1>2. [q \in RowIds \X ColIds |-> blank] \in [RowIds \X ColIds -> Cell] BY <1>1
<1>3. <<>> \in {t \in Seq(ClusterRecord) : Len(t) <= MaxClusters}
  <2>1. <<>> \in Seq(ClusterRecord) /\ Len(<<>>) = 0 OBVIOUS
  <2> QED BY <2>1, ConsoleAssumption
<1>4. 0 \in RowIds /\ 0 \in 0 .. Cols /\ 0 \in Nat /\ w \in BOOLEAN
    BY ConsoleAssumption DEF RowIds
<1>5. p \in Planes BY <1>2, <1>3, <1>4 DEF NewPlane, Planes, Statuses
<1>6. \A r \in RowIds, c \in ColIds : p.cells[<<r, c>>].part = "whole" BY DEF NewPlane
<1>7. p.recs = <<>> /\ p.writes = 0 BY DEF NewPlane
<1> HIDE DEF p
<1> QED BY <1>5, <1>6, <1>7, BlankIsGood DEF p

\* scts_plane_clear
LEMMA CleanedIs ==
    ASSUME NEW p \in Planes
    PROVE  LET q == Cleaned(p)
           IN  Good(q) /\ Reached(p, q) /\ q.writes = p.writes
<1> DEFINE b == SetBlanks(p, RowIds \X ColIds)
           q == Cleaned(p)
<1>2. /\ b \in Planes /\ b.writes = p.writes
      /\ \A r \in RowIds, c \in ColIds :
            b.cells[<<r, c>>] = IF <<r, c>> \in RowIds \X ColIds THEN BlankCell(p)
                                ELSE p.cells[<<r, c>>]
      /\ BlankCell(p).part = "whole"
  <2>1. SetBlanks(p, RowIds \X ColIds)["writes"] = p["writes"] BY SetBlanksIs
  <2> QED BY <2>1, SetBlanksIs
<1>3. q = [b EXCEPT !.recs = <<>>, !.row = 0, !.col = 0, !.dirtyAll = TRUE, !.dirty = {}]
    BY DEF Cleaned
<1> HIDE DEF b
<1>4. <<>> \in {t \in Seq(ClusterRecord) : Len(t) <= MaxClusters}
  <2>1. <<>> \in Seq(ClusterRecord) /\ Len(<<>>) = 0 OBVIOUS
  <2> QED BY <2>1, ConsoleAssumption
<1>5. 0 \in RowIds /\ 0 \in 0 .. Cols BY ConsoleAssumption DEF RowIds
<1>6. /\ q \in Planes /\ q.cells = b.cells /\ q.recs = <<>> /\ q.dirtyAll
      /\ q.writes = p.writes
    BY <1>2, <1>3, <1>4, <1>5 DEF Planes
<1> HIDE DEF q
<1>7. Good(q) BY <1>2, <1>6, BlankIsGood
<1> QED BY <1>6, <1>7 DEF Reached, Kept, Good, Dirty, q

\* scts_plane_write and scts_plane_put_cp, once there is a cluster to flush.
LEMMA WriteReaches ==
    ASSUME NEW p, Fair(p), NEW k \in Clusters, Width[k] > 0
    PROVE  LET b == PlaceOrWrap(p, k)
               q == [b EXCEPT !.writes = @ + 1]
           IN  /\ Reached(p, b) /\ b.writes = p.writes
               /\ Reached(p, q) /\ q.writes = p.writes + 1
<1> DEFINE b == PlaceOrWrap(p, k)
           q == [b EXCEPT !.writes = b.writes + 1]
<1>1. Width[k] \in {1, 2} BY ConsoleAssumption
<1>2. /\ Grows(p, b)
      /\ \A r \in RowIds :
            SameRow(p, b, r) \/ Dirty(b, r) \/ (r = p.row /\ b.row = r + 1)
    BY <1>1, PlaceOrWrapIs
<1> HIDE DEF b
<1>3. b.writes = p.writes /\ Reached(p, b) BY <1>2 DEF Grows, Reached
<1>4. Fair(b) /\ b \in Planes /\ b.writes \in Nat
    BY <1>3, PlaneFields DEF Reached, Kept, Fair
<1>5. /\ q \in Planes /\ q.cells = b.cells /\ q.recs = b.recs /\ q.row = b.row
      /\ q.dirty = b.dirty /\ q.dirtyAll = b.dirtyAll /\ q.writes = b.writes + 1
    BY <1>4 DEF Planes
<1> HIDE DEF q
<1>6. Kept(p, q)
  <2>1. Kept(b, q) BY <1>4, <1>5, RegistersChange
  <2> QED BY <2>1, <1>3, KeptKept DEF Reached
<1>7. Reached(p, q)
  <2>1. \A r \in RowIds : Dirty(q, r) <=> Dirty(b, r) BY <1>5 DEF Dirty
  <2>2. \A r \in RowIds : SameRow(p, b, r) => SameRow(p, q, r)
      BY <1>5 DEF SameRow, Recs
  <2> QED BY <1>3, <1>5, <1>6, <2>1, <2>2 DEF Reached
<1> QED BY <1>3, <1>5, <1>7 DEF b, q

\* scts_plane_tab
LEMMA TabbedIs ==
    ASSUME NEW p, Fair(p)
    PROVE  Reached(p, Tabbed(p)) /\ Tabbed(p).writes = p.writes
<1> DEFINE q == Tabbed(p)
           stop == NextStop(p)
<1>1. p \in Planes /\ p.col \in 0 .. Cols BY PlaneFields DEF Fair
<1>3. stop \in Nat
  <2>1. TabWidth \in Nat /\ TabWidth > 0 /\ p.col \in Nat BY <1>1, ConsoleAssumption
  <2>2. (p.col \div TabWidth) + 1 \in Nat BY <2>1
  <2> QED BY <2>1, <2>2 DEF NextStop
<1> HIDE DEF stop
<1>4. CASE stop < Cols
  <2>1. q = [p EXCEPT !.col = stop]
    <3>1. ~(stop >= Cols) BY <1>3, <1>4, ConsoleAssumption
    <3>2. Tabbed(p) = [p EXCEPT !.col = NextStop(p)]
        BY <1>4, <3>1 DEF Tabbed, stop
    <3> QED BY <3>2 DEF stop
  <2>2. stop \in 0 .. Cols BY <1>3, <1>4, ConsoleAssumption
  <2>3. /\ q \in Planes /\ q.cells = p.cells /\ q.recs = p.recs
        /\ q.dirty = p.dirty /\ q.dirtyAll = p.dirtyAll /\ q.writes = p.writes
      BY <1>1, <2>1, <2>2 DEF Planes
  <2> QED BY <2>3, RegistersReached
<1>5. CASE ~(stop < Cols) /\ p.wrap
  <2>1. q = Newline(p)
    <3>1. stop >= Cols BY <1>3, <1>5, ConsoleAssumption
    <3> QED BY <1>5, <3>1 DEF Tabbed, stop
  <2>2. Grows(p, q) /\ Shown(p, q) BY <2>1, NewlineIs
  <2> QED BY <2>2, GrownIsReached DEF Grows
<1>6. CASE ~(stop < Cols) /\ ~p.wrap
  <2>1. q = [p EXCEPT !.status = "E_COL_RANGE"] BY <1>6 DEF Tabbed, stop
  <2>2. /\ q \in Planes /\ q.cells = p.cells /\ q.recs = p.recs
        /\ q.dirty = p.dirty /\ q.dirtyAll = p.dirtyAll /\ q.writes = p.writes
      BY <1>1, <2>1 DEF Planes, Statuses
  <2> QED BY <2>2, RegistersReached
<1> QED BY <1>4, <1>5, <1>6

-----------------------------------------------------------------------------
(* What the sink receives for a row depends on the row alone.              *)

LEMMA RowTextIs ==
    ASSUME NEW p, Fair(p), NEW q, Fair(q), NEW r \in RowIds, SameRow(p, q, r)
    PROVE  RowText(p, r) = RowText(q, r)
<1>1. /\ p \in Planes /\ q \in Planes /\ Distinct(p) /\ Distinct(q)
      /\ Len(p.recs) \in Nat /\ DOMAIN p.recs = 1 .. Len(p.recs)
      /\ Len(q.recs) \in Nat /\ DOMAIN q.recs = 1 .. Len(q.recs)
    BY PlaneFields DEF Fair
<1>2. /\ \A c \in ColIds : q.cells[<<r, c>>] = p.cells[<<r, c>>]
      /\ \A x \in ClusterRecord : x.row = r => (x \in Recs(q) <=> x \in Recs(p))
    BY DEF SameRow
<1>3. ASSUME NEW c \in ColIds PROVE GlyphAt(p, r, c) = GlyphAt(q, r, c)
  <2> DEFINE i == RecordAt(p, r, c)
             j == RecordAt(q, r, c)
             Has(s) == \E n \in DOMAIN s.recs : s.recs[n].row = r /\ s.recs[n].col = c
  <2>1. IF Has(p) THEN /\ i \in DOMAIN p.recs /\ i # 0
                       /\ p.recs[i].row = r /\ p.recs[i].col = c
        ELSE i = 0
      BY <1>1, RecordAtIs
  <2>2. IF Has(q) THEN /\ j \in DOMAIN q.recs /\ j # 0
                       /\ q.recs[j].row = r /\ q.recs[j].col = c
        ELSE j = 0
      BY <1>1, RecordAtIs
  <2>3. /\ \A x \in Recs(p) : x \in ClusterRecord
        /\ \A x \in Recs(q) : x \in ClusterRecord
        /\ \A x, y \in Recs(q) : x.row = y.row /\ x.col = y.col => x = y
      BY <1>1, RecsAre
  <2>4. Has(p) <=> \E x \in Recs(p) : x.row = r /\ x.col = c BY DEF Recs
  <2>5. Has(q) <=> \E x \in Recs(q) : x.row = r /\ x.col = c BY DEF Recs
  <2>6. Has(p) <=> Has(q)
    <3> HIDE DEF Has
    <3> QED BY <1>2, <2>3, <2>4, <2>5
  <2>7. ASSUME Has(p) PROVE p.recs[i].text = q.recs[j].text
    <3>1. p.recs[i] \in Recs(p) /\ p.recs[i].row = r /\ p.recs[i].col = c
        BY <2>1, <2>7 DEF Recs
    <3>2. q.recs[j] \in Recs(q) /\ q.recs[j].row = r /\ q.recs[j].col = c
        BY <2>2, <2>6, <2>7 DEF Recs
    <3>3. p.recs[i] \in Recs(q) BY <1>2, <2>3, <3>1
    <3> HIDE DEF i, j
    <3>4. p.recs[i] = q.recs[j] BY <2>3, <3>1, <3>2, <3>3
    <3> QED BY <3>4
  <2>8. GlyphAt(p, r, c) =
            IF p.cells[<<r, c>>].glyph = Blank THEN Blank
            ELSE IF i = 0 THEN p.cells[<<r, c>>].glyph ELSE p.recs[i].text
      BY DEF GlyphAt, TextAt
  <2>9. GlyphAt(q, r, c) =
            IF q.cells[<<r, c>>].glyph = Blank THEN Blank
            ELSE IF j = 0 THEN q.cells[<<r, c>>].glyph ELSE q.recs[j].text
      BY DEF GlyphAt, TextAt
  <2>10. q.cells[<<r, c>>] = p.cells[<<r, c>>] BY <1>2
  <2>11. i = 0 <=> j = 0 BY <2>1, <2>2, <2>6
  <2>12. i # 0 => p.recs[i].text = q.recs[j].text BY <2>1, <2>7
  <2> HIDE DEF i, j, Has
  <2> QED BY <2>8, <2>9, <2>10, <2>11, <2>12
<1> DEFINE shown == {c \in ColIds : p.cells[<<r, c>>].part # "tail"}
<1>4. shown = {c \in ColIds : q.cells[<<r, c>>].part # "tail"} BY <1>2
<1>5. shown \in SUBSET ColIds OBVIOUS
<1>6. IsFiniteSet(shown) /\ shown \in SUBSET Int
  <2>1. Cols - 1 \in Int /\ ColIds = 0 .. Cols - 1 BY ConsoleAssumption DEF ColIds
  <2>2. IsFiniteSet(ColIds) /\ ColIds \in SUBSET Int BY <2>1, FS_Interval
  <2> HIDE DEF shown
  <2> QED BY <1>5, <2>2, FS_Subset
<1>7. RowText(p, r) = [i \in 1 .. Cardinality(shown) |-> GlyphAt(p, r, Nth(shown, i))]
    BY DEF RowText
<1>8. RowText(q, r) = [i \in 1 .. Cardinality(shown) |-> GlyphAt(q, r, Nth(shown, i))]
    BY <1>4 DEF RowText
<1> HIDE DEF shown
<1>9. \A i \in 1 .. Cardinality(shown) : Nth(shown, i) \in ColIds
    BY <1>5, <1>6, NthIs
<1> QED BY <1>3, <1>7, <1>8, <1>9

-----------------------------------------------------------------------------
(* The invariant.                                                          *)

PlaneInv ==
    Good(plane) /\ plane.writes <= MaxWrites /\ stale \in SUBSET RowIds

\* A step of the plane's own operations ...
Operates ==
    /\ Becomes(plane') /\ Reached(plane, plane')
    /\ plane'.writes <= MaxWrites
\* ... or one that gives rows to the sink.
Emits ==
    /\ Good(plane') /\ plane'.writes <= MaxWrites /\ stale' \in SUBSET stale
    /\ \A r \in stale' : Dirty(plane, r) => Dirty(plane', r)

LEMMA EmitRowIs ==
    ASSUME PlaneInv, NEW n \in RowIds, EmitRow(n)
    PROVE  Emits
<1> DEFINE d == IF n < TrackedRows THEN plane.dirty \ {n} ELSE plane.dirty
           q == [Called EXCEPT !.dirty = d]
<1>1. /\ Called \in Planes /\ Fair(Called) /\ Good(Called)
      /\ Called.writes <= MaxWrites
    BY CalledIs DEF PlaneInv, Good, Kept
<1>2. /\ Called.dirty = plane.dirty /\ Called.dirtyAll = plane.dirtyAll
    BY CalledIs DEF PlaneInv, Good
<1>3. plane' = q BY <1>2 DEF EmitRow
<1>4. d \in SUBSET RowIds BY <1>1, <1>2, PlaneFields
<1> HIDE DEF d
<1>5. /\ q \in Planes /\ q.cells = Called.cells /\ q.recs = Called.recs
      /\ q.dirty = d /\ q.dirtyAll = Called.dirtyAll /\ q.writes = Called.writes
    BY <1>1, <1>4 DEF Planes
<1> HIDE DEF q
<1>6. Good(q) /\ q.writes <= MaxWrites BY <1>1, <1>5, RegistersChange DEF Kept
<1>7. stale' = stale \ {n} BY DEF EmitRow
<1>8. ASSUME NEW r \in stale', Dirty(plane, r) PROVE Dirty(q, r)
    BY <1>2, <1>5, <1>7, <1>8 DEF Dirty, d
<1>9. stale' \in SUBSET stale BY <1>7
<1> QED BY <1>3, <1>6, <1>8, <1>9 DEF Emits

LEMMA FlushIs ==
    ASSUME PlaneInv, Flush
    PROVE  Emits
<1> DEFINE q == [Called EXCEPT !.dirty = {}, !.dirtyAll = FALSE]
<1>1. /\ Called \in Planes /\ Fair(Called) /\ Good(Called)
      /\ Called.writes <= MaxWrites
    BY CalledIs DEF PlaneInv, Good, Kept
<1>2. plane' = q BY DEF Flush
<1>3. /\ q \in Planes /\ q.cells = Called.cells /\ q.recs = Called.recs
      /\ q.writes = Called.writes
    BY <1>1 DEF Planes
<1> HIDE DEF q
<1>4. Good(q) /\ q.writes <= MaxWrites BY <1>1, <1>3, RegistersChange DEF Kept
<1>5. stale' = {r \in stale : ~Dirty(plane, r)} BY DEF Flush, RowDirty, Dirty
<1> QED BY <1>2, <1>4, <1>5 DEF Emits

LEMMA FlushFailsIs ==
    ASSUME PlaneInv, NEW n \in RowIds, FlushFails(n)
    PROVE  Emits
<1> DEFINE d == plane.dirty \ (0 .. n - 1)
           q == [plane EXCEPT !.dirty = d, !.status = "E_CAPACITY"]
<1>1. plane \in Planes /\ Fair(plane) BY DEF PlaneInv, Good, Fair
<1>2. plane' = q BY DEF FlushFails, FlushedDirty
<1>3. d \in SUBSET RowIds BY <1>1, PlaneFields
<1> HIDE DEF d
<1>4. /\ q \in Planes /\ q.cells = plane.cells /\ q.recs = plane.recs
      /\ q.dirty = d /\ q.dirtyAll = plane.dirtyAll /\ q.writes = plane.writes
    BY <1>1, <1>3 DEF Planes, Statuses
<1> HIDE DEF q
<1>5. Good(q) /\ q.writes <= MaxWrites
    BY <1>1, <1>4, RegistersChange DEF Kept, PlaneInv
<1>6. stale' = {r \in stale : r >= n \/ ~Dirty(plane, r)}
    BY DEF FlushFails, RowDirty, Dirty
<1>7. ASSUME NEW r \in stale', Dirty(plane, r) PROVE Dirty(q, r)
  <2>1. r \in stale /\ r >= n BY <1>6, <1>7
  <2>2. r \in Int /\ n \in Int BY <2>1 DEF PlaneInv, RowIds
  <2>3. r \notin 0 .. n - 1 BY <2>1, <2>2
  <2> QED BY <1>4, <1>7, <2>3 DEF Dirty, d
<1>8. stale' \in SUBSET stale BY <1>6
<1> QED BY <1>2, <1>5, <1>7, <1>8 DEF Emits

\* Every step is one of the two.
LEMMA StepIs ==
    ASSUME PlaneInv, Next
    PROVE  Operates \/ Emits
<1>0. Good(plane) /\ Fair(plane) /\ plane.writes <= MaxWrites BY DEF PlaneInv, Good
<1> DEFINE p == Called
<1>1. /\ Good(p) /\ Fair(p) /\ p \in Planes /\ p.writes = plane.writes
      /\ p.cells = plane.cells /\ p.recs = plane.recs /\ p.col = plane.col
      /\ p.dirty = plane.dirty /\ p.dirtyAll = plane.dirtyAll
      /\ \A q : Reached(p, q) => Reached(plane, q)
    BY <1>0, CalledIs DEF Kept
<1>2. ASSUME NEW q, Becomes(q), Reached(p, q), q.writes <= MaxWrites
      PROVE  Operates
  <2>1. plane' = q /\ Reached(plane, q) BY <1>1, <1>2 DEF Becomes
  <2> QED BY <1>2, <2>1 DEF Operates, Becomes
<1> HIDE DEF p
<1>3. ASSUME NEW q, Becomes(q), q \in Planes, q.cells = p.cells, q.recs = p.recs,
             q.dirty = p.dirty, q.dirtyAll = p.dirtyAll, q.writes = p.writes
      PROVE  Operates
    BY <1>0, <1>1, <1>2, <1>3, RegistersReached
<1>4. ASSUME NEW k \in Clusters, Write(k) PROVE Operates
  <2> DEFINE b == PlaceOrWrap(p, k)
             x == [b EXCEPT !.writes = @ + 1]
             q == IF b.status = "OK" THEN x ELSE b
  <2>1. Width[k] > 0 /\ plane.writes < MaxWrites /\ Becomes(q) BY <1>4 DEF Write, p
  <2>2. /\ Reached(p, b) /\ b.writes = p.writes
        /\ Reached(p, x) /\ x.writes = p.writes + 1
      BY <1>1, <2>1, WriteReaches
  <2>3. p.writes \in Nat /\ MaxWrites \in Nat
      BY <1>1, PlaneFields, ConsoleAssumption
  <2> HIDE DEF b, x
  <2>4. Reached(p, q) /\ q.writes <= MaxWrites BY <1>0, <1>1, <2>1, <2>2, <2>3
  <2> HIDE DEF q
  <2> QED BY <1>2, <2>1, <2>4
<1>5. ASSUME NEW k \in Clusters, WriteMark(k) PROVE Operates
  <2> DEFINE q == [plane EXCEPT !.status = "E_CLUSTER"]
  <2>1. plane \in Planes BY <1>0 DEF Fair
  <2>2. /\ q \in Planes /\ q.cells = p.cells /\ q.recs = p.recs
        /\ q.dirty = p.dirty /\ q.dirtyAll = p.dirtyAll /\ q.writes = p.writes
      BY <1>1, <2>1 DEF Planes, Statuses
  <2>3. Becomes(q) BY <1>5 DEF WriteMark
  <2> HIDE DEF q
  <2> QED BY <1>3, <2>2, <2>3
<1>6. ASSUME NEW s \in Styles, SetStyle(s) PROVE Operates
  <2> DEFINE q == [p EXCEPT !.style = s]
  <2>1. /\ q \in Planes /\ q.cells = p.cells /\ q.recs = p.recs
        /\ q.dirty = p.dirty /\ q.dirtyAll = p.dirtyAll /\ q.writes = p.writes
      BY <1>1 DEF Planes
  <2>2. Becomes(q) BY <1>6 DEF SetStyle, p
  <2> HIDE DEF q
  <2> QED BY <1>3, <2>1, <2>2
<1>7. ASSUME NEW n \in 0 .. Rows, ScrollBy(n) PROVE Operates
  <2> DEFINE q == Scroll(p, n)
  <2>1. Becomes(q) BY <1>7 DEF ScrollBy, p
  <2>2. Grows(p, q) /\ Shown(p, q) BY <1>1, ScrollIs, ConsoleAssumption
  <2> HIDE DEF q
  <2> QED BY <1>0, <1>1, <1>2, <2>1, <2>2, GrownIsReached DEF Grows
<1>8. ASSUME Clear PROVE Operates
  <2>1. Becomes(Cleaned(p)) BY <1>8 DEF Clear, p
  <2> QED BY <1>0, <1>1, <1>2, <2>1, CleanedIs
<1>9. ASSUME LineFeed PROVE Operates
  <2> DEFINE q == Newline(p)
  <2>1. Becomes(q) BY <1>9 DEF LineFeed, p
  <2>2. Grows(p, q) /\ Shown(p, q) BY <1>1, NewlineIs
  <2> HIDE DEF q
  <2> QED BY <1>0, <1>1, <1>2, <2>1, <2>2, GrownIsReached DEF Grows
<1>10. ASSUME CarriageReturn PROVE Operates
  <2> DEFINE q == [p EXCEPT !.col = 0]
  <2>1. 0 \in 0 .. Cols BY ConsoleAssumption
  <2>2. /\ q \in Planes /\ q.cells = p.cells /\ q.recs = p.recs
        /\ q.dirty = p.dirty /\ q.dirtyAll = p.dirtyAll /\ q.writes = p.writes
      BY <1>1, <2>1 DEF Planes
  <2>3. Becomes(q) BY <1>10 DEF CarriageReturn, Returned, p
  <2> HIDE DEF q
  <2> QED BY <1>3, <2>2, <2>3
<1>11. ASSUME Backspace PROVE Operates
  <2> DEFINE c == IF p.col > 0 THEN p.col - 1 ELSE 0
             q == [p EXCEPT !.col = c]
  <2>1. c \in 0 .. Cols
    <3>1. p.col \in 0 .. Cols /\ Cols \in Nat BY <1>1, PlaneFields, ConsoleAssumption
    <3> QED BY <3>1
  <2>2. Becomes(q) BY <1>11 DEF Backspace, SteppedBack, p
  <2> HIDE DEF c
  <2>3. /\ q \in Planes /\ q.cells = p.cells /\ q.recs = p.recs
        /\ q.dirty = p.dirty /\ q.dirtyAll = p.dirtyAll /\ q.writes = p.writes
      BY <1>1, <2>1 DEF Planes
  <2> HIDE DEF q
  <2> QED BY <1>3, <2>2, <2>3
<1>12. ASSUME Tab PROVE Operates
  <2>1. Becomes(Tabbed(p)) BY <1>12 DEF Tab, p
  <2> QED BY <1>0, <1>1, <1>2, <2>1, TabbedIs
<1>13. ASSUME NEW n \in RowIds, EmitRow(n) PROVE Emits BY <1>13, EmitRowIs
<1>14. ASSUME NEW n \in RowIds, FlushFails(n) PROVE Emits BY <1>14, FlushFailsIs
<1>15. ASSUME Flush PROVE Emits BY <1>15, FlushIs
<1> QED
    BY <1>4, <1>5, <1>6, <1>7, <1>8, <1>9, <1>10, <1>11, <1>12, <1>13, <1>14, <1>15
    DEF Next

\* The invariant: every plane that is reached is sound.
LEMMA PlaneInvAlways == Spec => []PlaneInv
<1>1. Init => PlaneInv
  <2> SUFFICES ASSUME Init PROVE PlaneInv
      OBVIOUS
  <2>1. PICK s \in Styles, w \in WrapOptions : plane = NewPlane(s, w) BY DEF Init
  <2>2. stale = RowIds BY DEF Init
  <2>3. 0 <= MaxWrites BY ConsoleAssumption
  <2> QED BY <2>1, <2>2, <2>3, NewPlaneIs DEF PlaneInv
<1>2. PlaneInv /\ [Next]_vars => PlaneInv'
  <2> SUFFICES ASSUME PlaneInv, [Next]_vars PROVE PlaneInv'
      OBVIOUS
  <2>1. CASE Next
    <3>1. CASE Operates
      <4>1. Good(plane') /\ plane'.writes <= MaxWrites
          BY <3>1 DEF Operates, Reached, Kept, PlaneInv
      <4>2. stale' \in SUBSET RowIds BY <3>1 DEF Operates, Becomes, Changed, PlaneInv
      <4> QED BY <4>1, <4>2 DEF PlaneInv, Good, Fair, Planes, Whole, Distinct, Tall, OffTails,
                                OnCells, OnCell
    <3>2. CASE Emits
      <4>1. /\ Good(plane') /\ plane'.writes <= MaxWrites
            /\ stale' \in SUBSET RowIds
          BY <3>2 DEF Emits, PlaneInv
      <4> QED BY <4>1 DEF PlaneInv
    <3> QED BY <2>1, <3>1, <3>2, StepIs
  <2>2. CASE UNCHANGED vars BY <2>2 DEF vars, PlaneInv
  <2> QED BY <2>1, <2>2
<1> QED BY <1>1, <1>2, PTL DEF Spec

\* Cells, records and cursor are one screen: scts_place_cluster,
\* scts_clear_cell, scts_move_run and scts_scroll_impl leave no half of a wide
\* pair, and no record without the cluster it stands for.
THEOREM ConsoleSound == Spec => []PlaneSound
<1>1. PlaneInv => PlaneSound
  <2> SUFFICES ASSUME PlaneInv PROVE PlaneSound
      OBVIOUS
  <2>1. /\ plane \in Planes /\ Whole(plane) /\ Distinct(plane) /\ OnCells(plane)
        /\ stale \in SUBSET RowIds /\ plane.writes <= MaxWrites
      BY DEF PlaneInv, Good, Fair
  <2>2. TypeOK
    <3>1. /\ plane.cells \in [RowIds \X ColIds -> Cell]
          /\ plane.recs \in Seq(ClusterRecord) /\ Len(plane.recs) <= MaxClusters
          /\ plane.row \in RowIds /\ plane.col \in 0 .. Cols
          /\ plane.style \in Styles /\ plane.wrap \in BOOLEAN
          /\ plane.dirty \in SUBSET RowIds /\ plane.dirtyAll \in BOOLEAN
          /\ plane.writes \in 0 .. MaxWrites /\ plane.status \in Statuses
      <4>1. plane.writes \in Nat BY <2>1, PlaneFields
      <4>2. plane.writes \in 0 .. MaxWrites BY <4>1, <2>1, ConsoleAssumption
      <4> QED BY <4>2, <2>1, PlaneFields
    <3> QED BY <2>1, <3>1 DEF TypeOK, Statuses
  <2>3. PairsWhole /\ RecordsMatchCells
      BY <2>1, MatchingIs DEF PairsWhole, RecordsMatchCells
  <2> QED BY <2>2, <2>3 DEF PlaneSound
<1> QED BY <1>1, PlaneInvAlways, PTL

\* The next flush repaints every row that changed, but for the one row that a
\* run was moved down from, which scts_move_run does not mark.
THEOREM DirtyCovers == Spec => OnlyMovesGoStale
<1>1. PlaneInv /\ [Next]_vars =>
          [\A r \in stale' \ stale :
              \/ RowDirty(r)'
              \/ r = plane.row /\ plane'.row = r + 1]_vars
  <2> SUFFICES ASSUME PlaneInv, Next, NEW r \in stale' \ stale
               PROVE  RowDirty(r)' \/ (r = plane.row /\ plane'.row = r + 1)
      BY DEF vars
  <2>1. CASE Operates
    <3>1. r \in RowIds /\ RowText(plane, r) # RowText(plane', r)
        BY <2>1 DEF Operates, Becomes, Changed
    <3>2. Fair(plane) /\ Fair(plane') BY <2>1 DEF Operates, Reached, Kept, Good, PlaneInv
    <3>3. ~SameRow(plane, plane', r) BY <3>1, <3>2, RowTextIs
    <3>4. Dirty(plane', r) \/ (r = plane.row /\ plane'.row = r + 1)
        BY <2>1, <3>1, <3>3 DEF Operates, Reached
    <3> QED BY <3>4 DEF Dirty, RowDirty
  <2>2. CASE Emits BY <2>2 DEF Emits
  <2> QED BY <2>1, <2>2, StepIs
<1> QED BY <1>1, PlaneInvAlways, PTL DEF Spec, OnlyMovesGoStale

\* A flush that gives up at a row its buffer cannot hold, and every other
\* call, leaves every row dirty that the sink did not get.
THEOREM RetrySound == Spec => RetryCovers
<1>1. PlaneInv /\ [Next]_vars =>
          [\A r \in stale' \cap stale : RowDirty(r) => RowDirty(r)']_vars
  <2> SUFFICES ASSUME PlaneInv, Next, NEW r \in stale' \cap stale, RowDirty(r)
               PROVE  RowDirty(r)'
      BY DEF vars
  <2>1. r \in RowIds /\ Dirty(plane, r) BY DEF PlaneInv, Dirty, RowDirty
  <2>2. Dirty(plane', r)
    <3>1. CASE Operates BY <2>1, <3>1 DEF Operates, Reached
    <3>2. CASE Emits BY <2>1, <3>2 DEF Emits
    <3> QED BY <3>1, <3>2, StepIs
  <2> QED BY <2>2 DEF Dirty, RowDirty
<1> QED BY <1>1, PlaneInvAlways, PTL DEF Spec, RetryCovers

-----------------------------------------------------------------------------
(* A run that ends at the cursor fits where it is moved to: its records       *)
(* cover different cells, so that their widths add up to no more than the     *)
(* cells from its first column to the cursor.                                 *)

\* Two records of a row cover different cells.
LEMMA RecordsApart ==
    ASSUME NEW p, Good(p), NEW i \in DOMAIN p.recs, NEW j \in DOMAIN p.recs, i # j,
           p.recs[i].row = p.recs[j].row, NEW r, NEW d \in Int,
           Covers(p.recs[i], r, d), Covers(p.recs[j], r, d)
    PROVE  FALSE
<1>1. p \in Planes /\ Whole(p) /\ Distinct(p) /\ OnCells(p) BY DEF Good, Fair
<1>2. ASSUME NEW n \in DOMAIN p.recs
      PROVE  /\ p.recs[n].row \in RowIds /\ p.recs[n].col \in ColIds
             /\ p.recs[n].col \in Int
             /\ p.cells[<<p.recs[n].row, p.recs[n].col>>].part # "tail"
             /\ Width[p.recs[n].text] = 2 =>
                   p.cells[<<p.recs[n].row, p.recs[n].col + 1>>].part = "tail"
  <2> DEFINE x == p.recs[n]
  <2>1. x \in Recs(p) BY DEF Recs
  <2>2. x.row \in RowIds /\ x.col \in ColIds /\ OnCell(p, x) BY <1>1, <2>1, RecsAre
  <2> HIDE DEF x
  <2>3. p.cells[<<x.row, x.col>>].part = IF Width[x.text] = 2 THEN "lead" ELSE "whole"
      BY <2>2 DEF OnCell
  <2>4. ASSUME Width[x.text] = 2 PROVE p.cells[<<x.row, x.col + 1>>].part = "tail"
    <3>1. p.cells[<<x.row, x.col>>].part = "lead" BY <2>3, <2>4
    <3> QED BY <2>2, <3>1, <1>1, Zenon DEF Whole
  <2> QED BY <2>2, <2>3, <2>4 DEF x, ColIds
<1>3. p.recs[i].col # p.recs[j].col
  <2>1. i # j => ~(p.recs[i].row = p.recs[j].row /\ p.recs[i].col = p.recs[j].col)
      BY <1>1, Zenon DEF Distinct
  <2> QED BY <2>1
<1>4. ASSUME NEW m \in DOMAIN p.recs, NEW n \in DOMAIN p.recs,
             p.recs[m].row = p.recs[n].row, Width[p.recs[m].text] = 2
      PROVE  p.recs[n].col # p.recs[m].col + 1
    BY <1>2, <1>4
<1>5. /\ d = p.recs[i].col \/ (d = p.recs[i].col + 1 /\ Width[p.recs[i].text] = 2)
      /\ d = p.recs[j].col \/ (d = p.recs[j].col + 1 /\ Width[p.recs[j].text] = 2)
    BY DEF Covers
<1>6. p.recs[i].col \in Int /\ p.recs[j].col \in Int BY <1>2
<1>7. Width[p.recs[i].text] = 2 => p.recs[j].col # p.recs[i].col + 1 BY <1>4
<1>8. Width[p.recs[j].text] = 2 => p.recs[i].col # p.recs[j].col + 1 BY <1>4
<1> QED BY <1>3, <1>5, <1>6, <1>7, <1>8

\* No record of the row goes on behind the cursor.
EndsAtCursor(p) ==
    \A i \in DOMAIN p.recs :
        p.recs[i].row = p.row => p.recs[i].col + Width[p.recs[i].text] <= p.col

\* The columns that the first i of the moved records cover.
CoveredBy(p, c, i) ==
    {d \in Int : \E j \in 1 .. i : Covers(Moved(p, c)[j], p.row, d)}

LEMMA CoveredByIs ==
    ASSUME NEW p, Good(p), NEW c \in Int, c <= p.col, EndsAtCursor(p),
           NEW i \in 1 .. Len(Moved(p, c))
    PROVE  LET m == Moved(p, c)
               w == Width[m[i].text]
           IN  /\ w \in {1, 2}
               /\ CoveredBy(p, c, 0) = {}
               /\ CoveredBy(p, c, i) \in SUBSET (c .. p.col - 1)
               /\ CoveredBy(p, c, i - 1) \in SUBSET (c .. p.col - 1)
               /\ Cardinality(CoveredBy(p, c, i)) = Cardinality(CoveredBy(p, c, i - 1)) + w
<1> DEFINE m == Moved(p, c)
           n == Len(m)
           w == Width[m[i].text]
           C == CoveredBy(p, c, i)
           B == CoveredBy(p, c, i - 1)
           run == RunOf(p, c)
<1>1. p \in Planes /\ p.recs \in Seq(ClusterRecord) /\ Tall(p) /\ p.col \in Int
    BY PlaneFields DEF Good, Fair
<1>2. /\ m \in Seq(ClusterRecord) /\ n \in Nat /\ DOMAIN m = 1 .. n
      /\ \A j \in 1 .. n : Nth(run, j) \in run /\ m[j] = p.recs[Nth(run, j)]
      /\ \A j, k \in 1 .. n : Nth(run, j) = Nth(run, k) => j = k
  <2>1. run \in SUBSET DOMAIN p.recs BY DEF RunOf
  <2>2. /\ m \in Seq(ClusterRecord)
        /\ \A j \in DOMAIN m : Nth(run, j) \in run /\ m[j] = p.recs[Nth(run, j)]
        /\ \A j, k \in DOMAIN m : Nth(run, j) = Nth(run, k) => j = k
      BY <1>1, <2>1, PickedIs DEF Moved
  <2> HIDE DEF m, run
  <2>3. n \in Nat /\ DOMAIN m = 1 .. n BY <2>2
  <2> QED BY <2>2, <2>3
<1>3. \A k \in run : /\ k \in DOMAIN p.recs /\ p.recs[k].row = p.row /\ p.recs[k].col >= c
                     /\ p.recs[k].col + Width[p.recs[k].text] <= p.col
    BY DEF RunOf, EndsAtCursor
<1>4. \A k \in DOMAIN p.recs : p.recs[k].col \in Int /\ Width[p.recs[k].text] \in {1, 2}
  <2>1. \A k \in DOMAIN p.recs : p.recs[k] \in Recs(p) BY DEF Recs
  <2>2. \A k \in DOMAIN p.recs : p.recs[k].col \in ColIds BY <1>1, <2>1, RecsAre
  <2> QED BY <2>2, <1>1 DEF ColIds, Tall
<1> HIDE DEF run, m, n
<1>5. ASSUME NEW j \in 1 .. n
      PROVE  /\ m[j].row = p.row /\ m[j].col \in Int /\ m[j].col >= c
             /\ m[j].col + Width[m[j].text] <= p.col /\ Width[m[j].text] \in {1, 2}
  <2>1. Nth(run, j) \in run /\ m[j] = p.recs[Nth(run, j)] BY <1>2
  <2> QED BY <2>1, <1>3, <1>4
<1>6. i \in 1 .. n BY DEF n, m
<1>7. ASSUME NEW j \in 1 .. n, NEW d \in Int, Covers(m[j], p.row, d)
      PROVE  d \in c .. p.col - 1
  <2>1. d = m[j].col \/ (d = m[j].col + 1 /\ Width[m[j].text] = 2)
      BY <1>7 DEF Covers
  <2>2. /\ m[j].col \in Int /\ m[j].col >= c
        /\ m[j].col + Width[m[j].text] <= p.col /\ Width[m[j].text] \in {1, 2}
      BY <1>5
  <2> QED BY <2>1, <2>2, <1>1, SMTT(40)
<1>8. \A j \in 1 .. i - 1 : j \in 1 .. n /\ j # i BY <1>2, <1>6
<1>9. \A j \in 1 .. i : j \in 1 .. n BY <1>2, <1>6
<1>10. C = {d \in Int : \E j \in 1 .. i : Covers(m[j], p.row, d)} BY DEF CoveredBy, m
<1>11. B = {d \in Int : \E j \in 1 .. i - 1 : Covers(m[j], p.row, d)} BY DEF CoveredBy, m
<1>12. CoveredBy(p, c, 0) = {} BY DEF CoveredBy
<1> HIDE DEF B, C
<1>13. C \in SUBSET (c .. p.col - 1) BY <1>7, <1>9, <1>10
<1>14. B \in SUBSET (c .. p.col - 1) BY <1>7, <1>8, <1>11
<1> DEFINE e == m[i].col
<1>15. e \in Int /\ w \in {1, 2} /\ m[i].row = p.row BY <1>5, <1>6
<1>16. ASSUME NEW d \in Int, Covers(m[i], p.row, d) PROVE d \notin B
  <2> SUFFICES ASSUME d \in B PROVE FALSE
      OBVIOUS
  <2>1. PICK j \in 1 .. i - 1 : Covers(m[j], p.row, d) BY <1>11
  <2>2. j \in 1 .. n /\ j # i BY <1>8
  <2>3. Nth(run, i) # Nth(run, j) BY <1>2, <1>6, <2>2
  <2>4. /\ Nth(run, i) \in run /\ m[i] = p.recs[Nth(run, i)]
        /\ Nth(run, j) \in run /\ m[j] = p.recs[Nth(run, j)]
      BY <1>2, <1>6, <2>2
  <2>5. /\ Nth(run, i) \in DOMAIN p.recs /\ Nth(run, j) \in DOMAIN p.recs
        /\ p.recs[Nth(run, i)].row = p.recs[Nth(run, j)].row
      BY <1>3, <2>4
  <2>6. Covers(p.recs[Nth(run, i)], p.row, d) /\ Covers(p.recs[Nth(run, j)], p.row, d)
      BY <1>16, <2>1, <2>4
  <2> QED BY <2>3, <2>5, <2>6, RecordsApart
<1>17. \A d \in Int : d \in C <=> d \in B \/ Covers(m[i], p.row, d)
  <2>1. \A j \in 1 .. i : j \in 1 .. i - 1 \/ j = i BY <1>6
  <2>2. i \in 1 .. i /\ \A j \in 1 .. i - 1 : j \in 1 .. i BY <1>6
  <2> QED BY <1>10, <1>11, <2>1, <2>2
<1>18. \A d \in Int : Covers(m[i], p.row, d) <=> d = e \/ (d = e + 1 /\ w = 2)
    BY <1>15 DEF Covers
<1>19. IsFiniteSet(B) /\ Cardinality(B) \in Nat /\ B \in SUBSET Int /\ C \in SUBSET Int
  <2>1. IsFiniteSet(c .. p.col - 1) BY <1>1, FS_Interval
  <2> QED BY <2>1, <1>10, <1>11, <1>14, FS_Subset, FS_CardinalityType
<1> HIDE DEF e, w
<1>20. e \notin B BY <1>15, <1>16, <1>18
<1>21. /\ IsFiniteSet(B \cup {e}) /\ Cardinality(B \cup {e}) = Cardinality(B) + 1
    BY <1>19, <1>20, FS_AddElement
<1>22. ASSUME w = 1 PROVE Cardinality(C) = Cardinality(B) + w
  <2>1. C = B \cup {e}
    <3>1. \A d \in Int : d \in C <=> d \in B \/ d = e BY <1>17, <1>18, <1>22
    <3>2. \A d : d \in C \/ d \in B \/ d = e => d \in Int BY <1>15, <1>19
    <3>3. \A d : d \in C <=> d \in B \cup {e} BY <3>1, <3>2
    <3> QED BY <3>3
  <2> QED BY <2>1, <1>21, <1>22
<1>23. ASSUME w = 2 PROVE Cardinality(C) = Cardinality(B) + w
  <2>1. e + 1 \in Int /\ e + 1 # e BY <1>15
  <2>2. e + 1 \notin B BY <2>1, <1>16, <1>18, <1>23
  <2>3. e + 1 \notin B \cup {e} BY <2>1, <2>2
  <2>4. Cardinality((B \cup {e}) \cup {e + 1}) = (Cardinality(B) + 1) + 1
      BY <1>21, <2>3, FS_AddElement
  <2>5. C = (B \cup {e}) \cup {e + 1}
    <3>1. \A d \in Int : d \in C <=> d \in B \/ d = e \/ d = e + 1
        BY <1>17, <1>18, <1>23
    <3>2. \A d : d \in C \/ d \in B \/ d = e \/ d = e + 1 => d \in Int
        BY <2>1, <1>15, <1>19
    <3>3. \A d : d \in C <=> d \in (B \cup {e}) \cup {e + 1} BY <3>1, <3>2
    <3> QED BY <3>3
  <2>6. Cardinality(B) \in Nat BY <1>19
  <2>7. (Cardinality(B) + 1) + 1 = Cardinality(B) + 2 BY <2>6
  <2> QED BY <2>4, <2>5, <2>7, <1>23
<1>24. Cardinality(C) = Cardinality(B) + w BY <1>15, <1>22, <1>23
<1> QED BY <1>12, <1>13, <1>14, <1>15, <1>24 DEF B, C, m, w

\* The move of a run that ends at the cursor succeeds, and its end is no
\* further from the start of the row than the cursor was from its start.
LEMMA MoveRunFits ==
    ASSUME NEW p, Good(p), NEW c \in Int, c <= p.col, EndsAtCursor(p),
           p.status = "OK", p.col - c <= Cols
    PROVE  LET q == MoveRun(p, c)
           IN  Good(q) /\ q.status = "OK" /\ q.col \in Int /\ q.col <= p.col - c
<1> DEFINE m == Moved(p, c)
           n == Len(m)
           s == Newline(Left(p, c))
           size(i) == Cardinality(CoveredBy(p, c, i))
<1>0. Fair(p) BY DEF Good
<1>1. p \in Planes /\ p.col \in Int /\ Cols \in Nat
    BY PlaneFields, ConsoleAssumption DEF Good, Fair
<1>2. n \in Nat /\ \A i \in 1 .. n : m[i].text \in Clusters /\ Width[m[i].text] \in {1, 2}
    BY <1>0, MoveSteps
<1>3. PICK f :
          /\ MoveRun(p, c) = f[n] /\ f[0] = s
          /\ \A i \in 1 .. n : f[i] = Place(f[i - 1], m[i].text)
          /\ \A i \in 0 .. n : Grows(s, f[i]) /\ Shown(s, f[i]) /\ f[i].row = s.row
    BY <1>0, MoveSteps
<1>4. \A i \in 0 .. n : Good(f[i])
  <2>1. Good(s)
    <3>1. Good(Left(p, c)) /\ Fair(Left(p, c)) BY <1>0, LeftIs DEF Kept
    <3>2. Kept(Left(p, c), s) BY <3>1, NewlineIs DEF Grows
    <3> QED BY <3>1, <3>2 DEF Kept
  <2> HIDE DEF s, n
  <2> QED BY <1>3, <2>1 DEF Grows, Kept
<1>5. s.status = "OK" /\ s.col = 0
  <2>1. Fair(Left(p, c)) /\ Left(p, c).status = "OK"
      BY <1>0, LeftIs DEF SameRegisters, Kept
  <2> QED BY <2>1, NewlineIs
<1>6. ASSUME NEW i \in 1 .. n
      PROVE  /\ CoveredBy(p, c, i) \in SUBSET (c .. p.col - 1)
             /\ size(i) = size(i - 1) + Width[m[i].text]
    BY CoveredByIs
<1>7. IsFiniteSet(c .. p.col - 1) /\ Cardinality(c .. p.col - 1) = p.col - c
  <2>1. p.col - 1 \in Int BY <1>1
  <2>2. /\ IsFiniteSet(c .. p.col - 1)
        /\ Cardinality(c .. p.col - 1) =
              IF c > p.col - 1 THEN 0 ELSE (p.col - 1) - c + 1
      BY <2>1, FS_Interval
  <2>3. (IF c > p.col - 1 THEN 0 ELSE (p.col - 1) - c + 1) = p.col - c BY <1>1
  <2> QED BY <2>2, <2>3
<1>8. CoveredBy(p, c, 0) = {} /\ size(0) = 0
  <2>1. CoveredBy(p, c, 0) = {} BY DEF CoveredBy
  <2> QED BY <2>1, FS_EmptySet
<1>9. ASSUME NEW i \in 0 .. n PROVE size(i) \in Nat /\ size(i) <= p.col - c
  <2>1. CASE i = 0 BY <2>1, <1>1, <1>8
  <2>2. CASE i # 0
    <3>1. i \in 1 .. n BY <2>2
    <3>2. CoveredBy(p, c, i) \in SUBSET (c .. p.col - 1) BY <3>1, <1>6
    <3>3. /\ IsFiniteSet(CoveredBy(p, c, i))
          /\ Cardinality(CoveredBy(p, c, i)) <= Cardinality(c .. p.col - 1)
        BY <3>2, <1>7, FS_Subset
    <3>4. size(i) \in Nat BY <3>3, FS_CardinalityType
    <3>5. size(i) <= p.col - c BY <3>3, <1>7
    <3> QED BY <3>4, <3>5
  <2> QED BY <2>1, <2>2
<1> HIDE DEF size, m, n, s
<1> DEFINE Reaches(i) == f[i].status = "OK" /\ f[i].col = size(i)
<1>10. Reaches(0) BY <1>3, <1>5, <1>8
<1>11. ASSUME NEW i \in 1 .. n, Reaches(i - 1) PROVE Reaches(i)
  <2> DEFINE k == m[i].text
             a == f[i - 1]
  <2>1. i - 1 \in 0 .. n /\ i \in 0 .. n BY <1>2
  <2>2. k \in Clusters /\ Width[k] \in {1, 2} BY <1>2
  <2>3. Good(a) /\ a.status = "OK" /\ a.col = size(i - 1) BY <2>1, <1>4, <1>11
  <2>4. size(i) = size(i - 1) + Width[k] BY <1>6
  <2>5. size(i) <= Cols
    <3>1. size(i) \in Nat /\ size(i) <= p.col - c BY <2>1, <1>9
    <3> QED BY <3>1, <1>1
  <2>6. f[i] = Place(a, k) BY <1>3
  <2> HIDE DEF a, k
  <2>7. Fits(a, k) BY <2>3, <2>4, <2>5 DEF Fits
  <2>8. Place(a, k).status = "OK" /\ Place(a, k).col = a.col + Width[k]
      BY <2>2, <2>3, <2>7, PlaceIs DEF Good
  <2> QED BY <2>3, <2>4, <2>6, <2>8
<1>12. Reaches(n)
  <2> DEFINE bad == {i \in 0 .. n : ~Reaches(i)}
  <2> SUFFICES ASSUME bad # {} PROVE FALSE
    <3>1. n \in 0 .. n BY <1>2
    <3> HIDE DEF Reaches
    <3> QED BY <3>1
  <2> HIDE DEF Reaches
  <2>1. bad \in SUBSET Nat OBVIOUS
  <2>2. PICK i \in bad : \A j \in bad : i <= j BY <2>1, LeastExists
  <2>3. i # 0 BY <2>2, <1>10
  <2>4. i \in 1 .. n /\ i - 1 \in 0 .. n /\ ~(i <= i - 1)
    <3>1. i \in 0 .. n /\ n \in Nat BY <2>2, <1>2
    <3> QED BY <3>1, <2>3
  <2>5. Reaches(i - 1) BY <2>2, <2>4
  <2>6. Reaches(i) BY <2>4, <2>5, <1>11
  <2> QED BY <2>2, <2>6
<1>13. n \in 0 .. n BY <1>2
<1>14. Good(f[n]) BY <1>4, <1>13
<1>15. f[n].status = "OK" /\ f[n].col \in Int /\ f[n].col <= p.col - c
    BY <1>9, <1>12, <1>13
<1> QED BY <1>3, <1>14, <1>15

\* With wrapping on, a cluster is refused for its column only if a record of
\* the row goes on behind the cursor.
LEMMA WrapPlaces ==
    ASSUME NEW p, Good(p), NEW k \in Clusters, Width[k] \in {1, 2}, p.wrap,
           p.status = "OK", EndsAtCursor(p)
    PROVE  PlaceOrWrap(p, k).status # "E_COL_RANGE"
<1> DEFINE q == PlaceOrWrap(p, k)
<1>1. p \in Planes /\ p.row \in RowIds /\ p.col \in 0 .. Cols /\ Cols \in Nat
    BY PlaneFields, ConsoleAssumption DEF Good, Fair
<1>0. Fair(p) BY DEF Good
<1>2. CASE Fits(p, k)
  <2>1. q = Place(p, k) BY <1>2 DEF PlaceOrWrap
  <2>2. Place(p, k).status = "OK" BY <1>0, <1>2, PlaceIs
  <2> QED BY <2>1, <2>2
<1>3. CASE ~Fits(p, k) /\ Width[k] > Cols
  <2>1. q = [p EXCEPT !.status = "E_CLUSTER"] BY <1>3 DEF PlaceOrWrap
  <2> QED BY <2>1, <1>1 DEF Planes
<1>4. CASE /\ ~Fits(p, k) /\ ~(Width[k] > Cols)
           /\ ContinuesRun(p, k) /\ RunFits(p, k)
  <2> DEFINE c == LastBreakCol(p, p.row)
             b == MoveRun(p, c)
  <2>1. q = Place(b, k) BY <1>4 DEF PlaceOrWrap
  <2>2. c \in Int
    <3>1. RecordCols(p, p.row) # {} BY <1>4 DEF ContinuesRun
    <3> QED BY <3>1, <1>1, LastBreakColIs
  <2>3. c < p.col /\ p.col - c + Width[k] <= Cols BY <1>4 DEF RunFits
  <2> HIDE DEF c
  <2>4. p.col \in Int /\ Width[k] \in Nat BY <1>1
  <2>5. c <= p.col /\ p.col - c <= Cols BY <2>2, <2>3, <2>4, <1>1
  <2>6. Good(b) /\ b.status = "OK" /\ b.col \in Int /\ b.col <= p.col - c
      BY <2>2, <2>5, MoveRunFits
  <2> HIDE DEF b
  <2>7. b.col + Width[k] <= Cols BY <2>2, <2>3, <2>4, <2>6, <1>1
  <2>8. Place(b, k).status = "OK" BY <2>6, <2>7, PlaceIs DEF Fits, Good
  <2> QED BY <2>1, <2>8
<1>5. CASE /\ ~Fits(p, k) /\ ~(Width[k] > Cols)
           /\ ~(ContinuesRun(p, k) /\ RunFits(p, k))
  <2> DEFINE b == Newline(p)
  <2>1. q = Place(b, k) BY <1>5 DEF PlaceOrWrap
  <2>2. Fair(b) /\ b.status = "OK" /\ b.col = 0 BY <1>0, NewlineIs DEF Grows, Kept
  <2> HIDE DEF b
  <2>3. b.col + Width[k] <= Cols BY <2>2, <1>1, <1>5
  <2>4. Place(b, k).status = "OK" BY <2>2, <2>3, PlaceIs DEF Fits
  <2> QED BY <2>1, <2>4
<1> QED BY <1>2, <1>3, <1>4, <1>5

\* scts_flush_cluster ends the line, or moves the run, before it places the
\* cluster: what it did so far is only left behind by an error where a record
\* goes on behind the cursor.
THEOREM WrapFailsInside == Spec => WrapFailsOnlyInside
<1>1. PlaneInv /\ [Next]_vars =>
          [plane.wrap /\ plane'.status = "E_COL_RANGE" =>
              \E i \in DOMAIN plane.recs :
                  LET x == plane.recs[i]
                  IN  x.row = plane.row /\ x.col + Width[x.text] > plane.col]_vars
  <2> SUFFICES ASSUME PlaneInv, Next, plane.wrap, plane'.status = "E_COL_RANGE",
                      \A i \in DOMAIN plane.recs :
                          ~(/\ plane.recs[i].row = plane.row
                            /\ plane.recs[i].col + Width[plane.recs[i].text] > plane.col)
               PROVE  FALSE
      BY DEF vars
  <2>1. /\ Good(plane) /\ plane \in Planes
        /\ Good(Called) /\ Fair(Called) /\ Called \in Planes /\ Called.recs = plane.recs
        /\ Called.row = plane.row /\ Called.col = plane.col /\ Called.wrap
        /\ Called.status = "OK"
      BY CalledIs DEF PlaneInv, Good, Fair, Kept
  <2>2. EndsAtCursor(Called)
    <3> SUFFICES ASSUME NEW i \in DOMAIN plane.recs, plane.recs[i].row = plane.row
                 PROVE  plane.recs[i].col + Width[plane.recs[i].text] <= plane.col
        BY <2>1 DEF EndsAtCursor
    <3>1. plane.recs[i] \in Recs(plane) BY DEF Recs
    <3>2. plane.recs[i].col \in Int /\ Width[plane.recs[i].text] \in Int
      <4>1. plane.recs[i].col \in ColIds /\ Width[plane.recs[i].text] \in {1, 2}
          BY <2>1, <3>1, RecsAre DEF Good, Fair
      <4> QED BY <4>1 DEF ColIds
    <3>3. plane.col \in Int BY <2>1, PlaneFields
    <3> QED BY <3>2, <3>3
  <2>3. ASSUME NEW k \in Clusters, Write(k) PROVE FALSE
    <3> DEFINE b == PlaceOrWrap(Called, k)
    <3>1. Width[k] \in {1, 2} BY <2>3, ConsoleAssumption DEF Write
    <3>2. b.status # "E_COL_RANGE" BY <2>1, <2>2, <3>1, WrapPlaces
    <3>3. plane' = IF b.status = "OK" THEN [b EXCEPT !.writes = @ + 1] ELSE b
        BY <2>3 DEF Write, Becomes
    <3>4. b \in Planes BY <2>1, <3>1, PlaceOrWrapIs DEF Grows, Kept, Fair
    <3> HIDE DEF b
    <3> QED BY <3>2, <3>3, <3>4 DEF Planes
  <2>4. ASSUME NEW k \in Clusters, WriteMark(k) PROVE FALSE
      BY <2>1, <2>4 DEF WriteMark, Becomes, Planes
  <2>5. ASSUME NEW s \in Styles, SetStyle(s) PROVE FALSE
      BY <2>1, <2>5 DEF SetStyle, Becomes, Planes
  <2>6. ASSUME NEW n \in 0 .. Rows, ScrollBy(n) PROVE FALSE
      BY <2>1, <2>6, ScrollIs, ConsoleAssumption DEF ScrollBy, Becomes
  <2>7. ASSUME Clear PROVE FALSE
      BY <2>1, <2>7 DEF Clear, Becomes, Cleaned, SetBlanks, Planes
  <2>8. ASSUME LineFeed PROVE FALSE
      BY <2>1, <2>8, NewlineIs DEF LineFeed, Becomes
  <2>9. ASSUME CarriageReturn PROVE FALSE
      BY <2>1, <2>9 DEF CarriageReturn, Becomes, Returned, Planes
  <2>10. ASSUME Backspace PROVE FALSE
      BY <2>1, <2>10 DEF Backspace, Becomes, SteppedBack, Planes
  <2>11. ASSUME Tab PROVE FALSE
    <3>1. Newline(Called).status = "OK" BY <2>1, NewlineIs
    <3>2. plane' = Tabbed(Called) BY <2>11 DEF Tab, Becomes
    <3>3. NextStop(Called) \in Int /\ Cols \in Int
      <4>1. TabWidth \in Nat /\ TabWidth > 0 /\ Called.col \in Nat
          BY <2>1, PlaneFields, ConsoleAssumption
      <4>2. (Called.col \div TabWidth) + 1 \in Nat BY <4>1
      <4> QED BY <4>1, <4>2, ConsoleAssumption DEF NextStop
    <3>4. CASE NextStop(Called) < Cols
      <4>1. ~(NextStop(Called) >= Cols) BY <3>3, <3>4
      <4>2. plane' = [Called EXCEPT !.col = NextStop(Called)]
          BY <3>2, <3>4, <4>1 DEF Tabbed
      <4> QED BY <2>1, <4>2 DEF Planes
    <3>5. CASE NextStop(Called) >= Cols
      <4>1. ~(NextStop(Called) < Cols) BY <3>3, <3>5
      <4>2. plane' = Newline(Called) BY <2>1, <3>2, <3>5, <4>1 DEF Tabbed
      <4> QED BY <3>1, <4>2
    <3> QED BY <3>3, <3>4, <3>5
  <2>12. ASSUME NEW n \in RowIds, EmitRow(n) PROVE FALSE
      BY <2>1, <2>12 DEF EmitRow, Planes
  <2>13. ASSUME NEW n \in RowIds, FlushFails(n) PROVE FALSE
      BY <2>1, <2>13 DEF FlushFails, Planes
  <2>14. ASSUME Flush PROVE FALSE
      BY <2>1, <2>14 DEF Flush, Planes
  <2> QED
      BY <2>3, <2>4, <2>5, <2>6, <2>7, <2>8, <2>9, <2>10, <2>11, <2>12, <2>13, <2>14
      DEF Next
<1> QED BY <1>1, PlaneInvAlways, PTL DEF Spec, WrapFailsOnlyInside

-----------------------------------------------------------------------------
(* The cells that the terminal blanks and moves.                            *)

\* What holds at the start and is kept by each step holds throughout.
LEMMA StaysWithin ==
    ASSUME NEW T, NEW n \in Nat, NEW f, f[0] \in T,
           \A i \in 1 .. n : f[i - 1] \in T => f[i] \in T
    PROVE  \A i \in 0 .. n : f[i] \in T
<1> DEFINE bad == {i \in 0 .. n : f[i] \notin T}
<1> SUFFICES ASSUME bad # {} PROVE FALSE
    OBVIOUS
<1>1. bad \in SUBSET Nat OBVIOUS
<1>2. PICK i \in bad : \A j \in bad : i <= j BY <1>1, LeastExists
<1>3. i # 0 BY <1>2
<1>4. i \in 1 .. n /\ i - 1 \in 0 .. n /\ ~(i <= i - 1)
  <2>1. i \in 0 .. n BY <1>2
  <2> QED BY <2>1, <1>3
<1>5. f[i - 1] \in T BY <1>2, <1>4
<1> QED BY <1>2, <1>4, <1>5

\* scte_blank_cell: the cursor may stand behind the last column, and the cell
\* is then another one.
LEMMA BlankedCellIs ==
    ASSUME NEW p, Fair(p), NEW r \in RowIds, NEW c \in 0 .. Cols, NEW beyond
    PROVE  LET q == BlankedCell(p, r, c, beyond)
           IN  Fair(q) /\ SameRegisters(p, q) /\ (c < Cols /\ Good(p) => Good(q))
<1>1. p \in Planes /\ Distinct(p) /\ DOMAIN p.cells = RowIds \X ColIds
    BY PlaneFields DEF Fair
<1> DEFINE x == CellIndex(r, c)
           part == IF x \in DOMAIN p.cells THEN p.cells[x].part ELSE beyond
           d == IF part = "tail" /\ c > 0 THEN c - 1
                ELSE IF part = "lead" /\ c + 1 < Cols THEN c + 1 ELSE c
           Q == {x, <<r, d>>}
           v == WithoutRecord(p, r, c)
           w == WithoutRecord(v, r, d)
           q == BlankedCell(p, r, c, beyond)
<1>2. q = SetBlanks(w, Q) BY DEF BlankedCell
<1>3. c \in Nat /\ Cols \in Nat /\ Rows \in Nat BY ConsoleAssumption
<1>4. c < Cols => c \in ColIds /\ x = <<r, c>> /\ part = p.cells[<<r, c>>].part
    BY <1>1, <1>3 DEF ColIds, CellIndex
<1>5. /\ w \in Planes /\ Distinct(w) /\ SameRegisters(p, w) /\ w.cells = p.cells
      /\ Recs(w) = {y \in Recs(p) : ~(y.row = r /\ (y.col = c \/ y.col = d))}
  <2> HIDE DEF d, v, w
  <2>1. /\ v \in Planes /\ Distinct(v) /\ SameRegisters(p, v) /\ v.cells = p.cells
        /\ Recs(v) = {y \in Recs(p) : ~(y.row = r /\ y.col = c)}
      BY <1>1, WithoutRecordIs DEF v
  <2>2. /\ w \in Planes /\ Distinct(w) /\ SameRegisters(v, w) /\ w.cells = v.cells
        /\ Recs(w) = {y \in Recs(v) : ~(y.row = r /\ y.col = d)}
      BY <2>1, WithoutRecordIs DEF w
  <2> QED BY <2>1, <2>2 DEF SameRegisters
<1>6. ASSUME c < Cols, Whole(p) PROVE Closed(p, Q)
  <2> SUFFICES ASSUME NEW s \in RowIds, NEW e \in ColIds, p.cells[<<s, e>>].part = "lead"
               PROVE  <<s, e>> \in Q <=> <<s, e + 1>> \in Q
      BY DEF Closed
  <2>0. x = <<r, c>> /\ part = p.cells[<<r, c>>].part /\ c \in ColIds BY <1>4, <1>6
  <2> HIDE DEF x, part
  <2>1. e \in Int /\ e + 1 \in ColIds /\ p.cells[<<s, e + 1>>].part = "tail"
    <3>1. e \in Int BY DEF ColIds
    <3> HIDE DEF d, Q, v, w, q
    <3> QED BY <3>1, <1>6 DEF Whole
  <2>2. CASE part = "tail"
    <3>0. p.cells[<<r, c>>].part = "tail" BY <2>0, <2>2
    <3>1. c > 0 /\ p.cells[<<r, c - 1>>].part = "lead" BY <2>0, <3>0, <1>6, Zenon DEF Whole
    <3>2. d = c - 1 BY <2>2, <3>1
    <3>3. <<s, e>> \in Q <=> s = r /\ (e = c - 1 \/ e = c) BY <2>0, <3>2
    <3>4. <<s, e + 1>> \in Q <=> s = r /\ (e + 1 = c - 1 \/ e + 1 = c) BY <2>0, <3>2
    <3>5. s = r => e # c /\ e + 1 # c - 1 BY <2>0, <2>1, <2>2, <3>1
    <3> QED BY <3>3, <3>4, <3>5, <2>1, <1>3
  <2>3. CASE part = "lead"
    <3>0. p.cells[<<r, c>>].part = "lead" BY <2>0, <2>3
    <3>1. c + 1 \in ColIds /\ p.cells[<<r, c + 1>>].part = "tail"
        BY <2>0, <3>0, <1>6, Zenon DEF Whole
    <3>2. d = c + 1 BY <2>3, <3>1, <1>3 DEF ColIds
    <3>3. <<s, e>> \in Q <=> s = r /\ (e = c \/ e = c + 1) BY <2>0, <3>2
    <3>4. <<s, e + 1>> \in Q <=> s = r /\ (e + 1 = c \/ e + 1 = c + 1) BY <2>0, <3>2
    <3>5. s = r => e # c + 1 /\ e + 1 # c BY <2>0, <2>1, <2>3, <3>1
    <3> QED BY <3>3, <3>4, <3>5, <2>1, <1>3
  <2>4. CASE part # "lead" /\ part # "tail"
    <3>1. d = c BY <2>4
    <3>2. <<s, e>> \in Q <=> s = r /\ e = c BY <2>0, <3>1
    <3>3. <<s, e + 1>> \in Q <=> s = r /\ e + 1 = c BY <2>0, <3>1
    <3>4. s = r => e # c /\ e + 1 # c BY <2>0, <2>1, <2>4
    <3> QED BY <3>2, <3>3, <3>4
  <2> QED BY <2>2, <2>3, <2>4
<1>7. <<r, d>> \in Q /\ (c < Cols => Q = {<<r, c>>, <<r, d>>}) BY <1>4
<1> HIDE DEF x, part, d, Q, v, w, q
<1>8. /\ q \in Planes /\ q.recs = w.recs /\ SameRegisters(w, q)
      /\ \A s \in RowIds, e \in ColIds :
            q.cells[<<s, e>>] =
                IF <<s, e>> \in Q THEN BlankCell(w) ELSE p.cells[<<s, e>>]
      /\ BlankCell(w).glyph = Blank /\ BlankCell(w).part = "whole"
    BY <1>2, <1>5, SetBlanksIs DEF SameRegisters
<1>9. Distinct(q) /\ Recs(q) = Recs(w) BY <1>5, <1>8 DEF Distinct, Recs
<1>10. SameRegisters(p, q) BY <1>5, <1>8 DEF SameRegisters
<1>11. Blanked(p, q, Q)
  <2>1. ASSUME NEW y \in Recs(p) \ Recs(q) PROVE \E e \in ColIds : <<y.row, e>> \in Q
    <3>1. y.row = r /\ (y.col = c \/ y.col = d) /\ y.col \in ColIds
        BY <1>1, <1>5, <1>9, RecsAre
    <3>2. CASE y.col = d BY <3>1, <3>2, <1>7
    <3>3. CASE y.col = c
      <4>1. c < Cols BY <3>1, <3>3, <1>3 DEF ColIds
      <4> QED BY <4>1, <3>1, <3>3, <1>7
    <3> QED BY <3>1, <3>2, <3>3
  <2> QED BY <2>1, <1>5, <1>8, <1>9, <1>10 DEF Blanked
<1>12. Fair(q) BY <1>11, BlankedFair
<1>13. ASSUME c < Cols, Good(p) PROVE Good(q)
  <2>1. Closed(p, Q) BY <1>6, <1>13 DEF Good
  <2>2. ASSUME NEW y \in Recs(q) PROVE <<y.row, y.col>> \notin Q
    <3>1. ~(y.row = r /\ (y.col = c \/ y.col = d)) BY <1>5, <1>9
    <3>2. Q = {<<r, c>>, <<r, d>>} BY <1>7, <1>13
    <3> QED BY <3>1, <3>2
  <2> QED BY <2>1, <2>2, <1>11, <1>13, BlankedGood
<1> QED BY <1>10, <1>12, <1>13 DEF q

\* Blanking a part of a row.
LEMMA ErasedIs ==
    ASSUME NEW p, Fair(p), NEW r \in RowIds, NEW a \in Nat, NEW b \in -1 .. Cols,
           a <= b + 1, NEW beyond
    PROVE  LET q == Erased(p, r, a, b, beyond)
           IN  Fair(q) /\ SameRegisters(p, q) /\ (b < Cols /\ Good(p) => Good(q))
<1> DEFINE n == b - a + 1
           T == {q \in Planes : Fair(q) /\ SameRegisters(p, q)
                                /\ (b < Cols /\ Good(p) => Good(q))}
           step == [z \in (1 .. n) \X T |-> BlankedCell(z[2], r, a + z[1] - 1, beyond)]
           Runs(f) == f = [i \in 0 .. n |-> IF i = 0 THEN p
                             ELSE BlankedCell(f[i - 1], r, a + i - 1, beyond)]
           after == CHOOSE f : Runs(f)
<1>1. n \in Nat /\ Cols \in Nat BY ConsoleAssumption
<1>2. Erased(p, r, a, b, beyond) = after[n] BY DEF Erased
<1>3. p \in T BY DEF SameRegisters, Fair
<1> HIDE DEF n
<1>4. ASSUME NEW i \in 1 .. n, NEW q \in T
      PROVE  BlankedCell(q, r, a + i - 1, beyond) \in T
  <2>1. a + i - 1 \in 0 .. Cols /\ (b < Cols => a + i - 1 < Cols) BY <1>1 DEF n
  <2>2. Fair(q) /\ SameRegisters(p, q) /\ (b < Cols /\ Good(p) => Good(q)) OBVIOUS
  <2> DEFINE t == BlankedCell(q, r, a + i - 1, beyond)
  <2>3. Fair(t) /\ SameRegisters(q, t) /\ (b < Cols /\ Good(q) => Good(t))
      BY <2>1, <2>2, BlankedCellIs
  <2> HIDE DEF t
  <2>4. SameRegisters(p, t) BY <2>2, <2>3 DEF SameRegisters
  <2>5. t \in Planes BY <2>3 DEF Fair
  <2> QED BY <2>2, <2>3, <2>4, <2>5 DEF t
<1>5. step \in [(1 .. n) \X T -> T] BY <1>4
<1>6. \A i \in 1 .. n, q \in T :
          step[<<i, q>>] = BlankedCell(q, r, a + i - 1, beyond)
    OBVIOUS
<1> HIDE DEF T, step
<1>7. PICK g \in [0 .. n -> T] : StepRuns(g, n, p, step) BY <1>1, <1>3, <1>5, StepsExist
<1>8. \A i \in 1 .. n : i \in 0 .. n /\ i # 0 /\ i - 1 \in 0 .. n /\ g[i - 1] \in T
    BY <1>1
<1>9. Runs(g)
  <2>1. g[0] = p /\ \A i \in 1 .. n : g[i] = BlankedCell(g[i - 1], r, a + i - 1, beyond)
      BY <1>6, <1>7, <1>8 DEF StepRuns
  <2>2. \A i \in 0 .. n : i # 0 => i \in 1 .. n BY <1>1
  <2>3. g = [i \in 0 .. n |-> g[i]] OBVIOUS
  <2> QED BY <2>1, <2>2, <2>3
<1>10. Runs(after)
  <2> HIDE DEF Runs
  <2> QED BY <1>9
<1> HIDE DEF after
<1>11. /\ after[0] = p
       /\ \A i \in 1 .. n : after[i] = BlankedCell(after[i - 1], r, a + i - 1, beyond)
  <2>1. 0 \in 0 .. n BY <1>1
  <2> QED BY <1>8, <1>10, <2>1
<1> HIDE DEF Runs
<1>12. \A i \in 1 .. n : after[i - 1] \in T => after[i] \in T BY <1>4, <1>11
<1>13. \A i \in 0 .. n : after[i] \in T BY <1>1, <1>3, <1>11, <1>12, StaysWithin
<1>14. after[n] \in T BY <1>1, <1>13
<1> QED BY <1>2, <1>14 DEF T

\* Blanking rows, each as a whole.
LEMMA ErasedRowsIs ==
    ASSUME NEW p, Fair(p), NEW a \in Nat, NEW b \in -1 .. Rows - 1, a <= b + 1, NEW beyond
    PROVE  LET q == ErasedRows(p, a, b, beyond)
           IN  Kept(p, q) /\ SameRegisters(p, q)
<1> DEFINE n == b - a + 1
           T == {q \in Planes : Kept(p, q) /\ SameRegisters(p, q)}
           row(i, q) == Erased(q, a + i - 1, 0, Cols - 1, beyond)
           step == [z \in (1 .. n) \X T |-> row(z[1], z[2])]
           Runs(f) == f = [i \in 0 .. n |-> IF i = 0 THEN p ELSE row(i, f[i - 1])]
           after == CHOOSE f : Runs(f)
<1>1. n \in Nat /\ Cols \in Nat /\ Rows \in Nat BY ConsoleAssumption
<1>2. ErasedRows(p, a, b, beyond) = after[n] BY DEF ErasedRows
<1>3. p \in T BY DEF SameRegisters, Kept, Fair
<1> HIDE DEF n
<1>4. ASSUME NEW i \in 1 .. n, NEW q \in T PROVE row(i, q) \in T
  <2>1. a + i - 1 \in RowIds BY <1>1 DEF n, RowIds
  <2>2. Kept(p, q) /\ SameRegisters(p, q) /\ Fair(q) BY DEF Kept
  <2>3. 0 \in Nat /\ Cols - 1 \in -1 .. Cols /\ 0 <= (Cols - 1) + 1 /\ Cols - 1 < Cols
      BY <1>1
  <2>4. Kept(q, row(i, q)) /\ SameRegisters(q, row(i, q))
      BY <2>1, <2>2, <2>3, ErasedIs DEF Kept
  <2> HIDE DEF row
  <2>5. SameRegisters(p, row(i, q)) BY <2>2, <2>4 DEF SameRegisters
  <2>6. Kept(p, row(i, q)) BY <2>2, <2>4, KeptKept
  <2> QED BY <2>5, <2>6 DEF Kept, Fair
<1> HIDE DEF row
<1>5. step \in [(1 .. n) \X T -> T] BY <1>4
<1>6. \A i \in 1 .. n, q \in T : step[<<i, q>>] = row(i, q) OBVIOUS
<1> HIDE DEF T, step
<1>7. PICK g \in [0 .. n -> T] : StepRuns(g, n, p, step) BY <1>1, <1>3, <1>5, StepsExist
<1>8. \A i \in 1 .. n : i \in 0 .. n /\ i # 0 /\ i - 1 \in 0 .. n /\ g[i - 1] \in T
    BY <1>1
<1>9. Runs(g)
  <2>1. g[0] = p /\ \A i \in 1 .. n : g[i] = row(i, g[i - 1])
      BY <1>6, <1>7, <1>8 DEF StepRuns
  <2>2. \A i \in 0 .. n : i # 0 => i \in 1 .. n BY <1>1
  <2>3. g = [i \in 0 .. n |-> g[i]] OBVIOUS
  <2> QED BY <2>1, <2>2, <2>3
<1>10. Runs(after)
  <2> HIDE DEF Runs
  <2> QED BY <1>9
<1> HIDE DEF after
<1>11. after[0] = p /\ \A i \in 1 .. n : after[i] = row(i, after[i - 1])
  <2>1. 0 \in 0 .. n BY <1>1
  <2> QED BY <1>8, <1>10, <2>1
<1> HIDE DEF Runs
<1>12. \A i \in 1 .. n : after[i - 1] \in T => after[i] \in T BY <1>4, <1>11
<1>13. \A i \in 0 .. n : after[i] \in T BY <1>1, <1>3, <1>11, <1>12, StaysWithin
<1>14. after[n] \in T BY <1>1, <1>13
<1> QED BY <1>2, <1>14 DEF T

\* What a sequence leaves of the plane: what Reached says, but that it may
\* have parted the pairs.
Seen(p, q) ==
    /\ Fair(q)
    /\ \A r \in RowIds : Dirty(p, r) => Dirty(q, r)
    /\ \A r \in RowIds :
          SameRow(p, q, r) \/ Dirty(q, r) \/ (r = p.row /\ q.row = r + 1)

LEMMA AllDirtySeen ==
    ASSUME NEW p, NEW q, Fair(q), q.dirtyAll
    PROVE  Seen(p, q) /\ (Kept(p, q) => Reached(p, q))
BY DEF Seen, Reached, Dirty

LEMMA DirtiedIs ==
    ASSUME NEW q, Fair(q)
    PROVE  LET x == [q EXCEPT !.dirtyAll = TRUE]
           IN  /\ Kept(q, x) /\ x.dirtyAll
               /\ x.row = q.row /\ x.col = q.col
<1> DEFINE x == [q EXCEPT !.dirtyAll = TRUE]
<1>1. q \in Planes BY DEF Fair
<1>2. /\ x \in Planes /\ x.cells = q.cells /\ x.recs = q.recs /\ x.dirtyAll
      /\ x.row = q.row /\ x.col = q.col
    BY <1>1 DEF Planes
<1> HIDE DEF x
<1>3. Kept(q, x) BY <1>2, RegistersChange
<1> QED BY <1>2, <1>3 DEF x

\* scte_erase_line and scte_erase_display take whole pairs, unless they go up
\* to a cursor behind the last column.
LEMMA EraseLineIs ==
    ASSUME NEW p, Fair(p), NEW mode, NEW beyond
    PROVE  LET q == EraseLine(p, mode, beyond)
           IN  /\ Fair(q) /\ q.dirtyAll /\ q.row = p.row /\ q.col = p.col
               /\ mode # 1 \/ p.col < Cols => Kept(p, q)
<1> DEFINE row(a, b) == Erased(p, p.row, a, b, beyond)
           x == CASE mode = 0 -> row(p.col, Cols - 1)
                  [] mode = 1 -> row(0, p.col)
                  [] mode = 2 -> row(0, Cols - 1)
                  [] OTHER -> p
           q == EraseLine(p, mode, beyond)
<1>1. /\ p \in Planes /\ p.row \in RowIds /\ p.col \in 0 .. Cols
      /\ Cols \in Nat /\ Rows \in Nat
    BY PlaneFields, ConsoleAssumption DEF Fair
<1>2. q = [x EXCEPT !.dirtyAll = TRUE] BY DEF EraseLine
<1>3. ASSUME NEW a \in Nat, NEW b \in -1 .. Cols, a <= b + 1
      PROVE  /\ Fair(row(a, b)) /\ SameRegisters(p, row(a, b))
             /\ b < Cols => Kept(p, row(a, b))
    BY <1>1, <1>3, ErasedIs DEF Kept
<1>4. /\ Fair(x) /\ SameRegisters(p, x)
      /\ mode # 1 \/ p.col < Cols => Kept(p, x)
  <2>1. CASE mode = 0
    <3>1. Fair(row(p.col, Cols - 1)) /\ SameRegisters(p, row(p.col, Cols - 1))
          /\ Kept(p, row(p.col, Cols - 1))
        BY <1>1, <1>3
    <3> HIDE DEF row
    <3> QED BY <3>1, <2>1
  <2>2. CASE mode = 1
    <3>1. Fair(row(0, p.col)) /\ SameRegisters(p, row(0, p.col))
          /\ (p.col < Cols => Kept(p, row(0, p.col)))
        BY <1>1, <1>3
    <3> HIDE DEF row
    <3>2. x = row(0, p.col) BY <2>2
    <3> QED BY <3>1, <3>2, <2>2
  <2>3. CASE mode = 2
    <3>1. Fair(row(0, Cols - 1)) /\ SameRegisters(p, row(0, Cols - 1))
          /\ Kept(p, row(0, Cols - 1))
        BY <1>1, <1>3
    <3> HIDE DEF row
    <3>2. x = row(0, Cols - 1) BY <2>3
    <3> QED BY <3>1, <3>2, <2>3
  <2>4. CASE mode \notin {0, 1, 2}
    <3> HIDE DEF row
    <3>1. x = p BY <2>4
    <3> QED BY <3>1 DEF SameRegisters, Kept
  <2> QED BY <2>1, <2>2, <2>3, <2>4
<1> HIDE DEF x
<1>5. Kept(x, q) /\ q.dirtyAll /\ q.row = x.row /\ q.col = x.col
    BY <1>2, <1>4, DirtiedIs
<1> HIDE DEF q
<1>6. mode # 1 \/ p.col < Cols => Kept(p, q) BY <1>4, <1>5, KeptKept
<1> QED BY <1>4, <1>5, <1>6 DEF q, SameRegisters, Kept

LEMMA EraseDisplayIs ==
    ASSUME NEW p, Fair(p), NEW mode, NEW beyond
    PROVE  LET q == EraseDisplay(p, mode, beyond)
           IN  /\ Fair(q) /\ q.dirtyAll
               /\ mode # 1 \/ p.col < Cols => Kept(p, q)
<1> DEFINE x == CASE mode = 0 ->
                    ErasedRows(EraseLine(p, 0, beyond), p.row + 1, Rows - 1, beyond)
               [] mode = 1 ->
                    EraseLine(ErasedRows(p, 0, p.row - 1, beyond), 1, beyond)
               [] mode \in {2, 3} -> ErasedRows(p, 0, Rows - 1, beyond)
               [] OTHER -> p
           q == EraseDisplay(p, mode, beyond)
<1>1. /\ p \in Planes /\ p.row \in 0 .. Rows - 1 /\ p.col \in 0 .. Cols
      /\ Cols \in Nat /\ Rows \in Nat \ {0}
    BY PlaneFields, ConsoleAssumption DEF Fair, RowIds
<1>2. q = [x EXCEPT !.dirtyAll = TRUE] BY DEF EraseDisplay
<1>3. Fair(x) /\ (mode # 1 \/ p.col < Cols => Kept(p, x))
  <2>1. CASE mode = 0
    <3> DEFINE y == EraseLine(p, 0, beyond)
    <3>1. Fair(y) /\ Kept(p, y) BY EraseLineIs
    <3> HIDE DEF y
    <3>2. /\ p.row + 1 \in Nat /\ Rows - 1 \in -1 .. Rows - 1
          /\ p.row + 1 <= (Rows - 1) + 1
        BY <1>1
    <3>3. Kept(y, ErasedRows(y, p.row + 1, Rows - 1, beyond))
        BY <3>1, <3>2, ErasedRowsIs
    <3>4. x = ErasedRows(y, p.row + 1, Rows - 1, beyond) BY <2>1 DEF y
    <3> HIDE DEF x
    <3>5. Kept(p, x) BY <3>1, <3>3, <3>4, KeptKept
    <3> QED BY <3>5 DEF Kept
  <2>2. CASE mode = 1
    <3> DEFINE y == ErasedRows(p, 0, p.row - 1, beyond)
    <3>1. 0 \in Nat /\ p.row - 1 \in -1 .. Rows - 1 /\ 0 <= (p.row - 1) + 1 BY <1>1
    <3>2. Kept(p, y) /\ SameRegisters(p, y) BY <3>1, ErasedRowsIs
    <3> HIDE DEF y
    <3>3. Fair(y) /\ y.col = p.col BY <3>2 DEF Kept, SameRegisters
    <3>4. Fair(EraseLine(y, 1, beyond))
          /\ (p.col < Cols => Kept(y, EraseLine(y, 1, beyond)))
        BY <3>3, EraseLineIs
    <3>5. x = EraseLine(y, 1, beyond) BY <2>2 DEF y
    <3> HIDE DEF x
    <3> QED BY <2>2, <3>2, <3>4, <3>5, KeptKept
  <2>3. CASE mode \in {2, 3}
    <3>1. 0 \in Nat /\ Rows - 1 \in -1 .. Rows - 1 /\ 0 <= (Rows - 1) + 1 BY <1>1
    <3>2. Kept(p, ErasedRows(p, 0, Rows - 1, beyond)) BY <3>1, ErasedRowsIs
    <3>3. x = ErasedRows(p, 0, Rows - 1, beyond) BY <2>3
    <3> HIDE DEF x
    <3> QED BY <3>2, <3>3 DEF Kept
  <2>4. CASE mode \notin {0, 1, 2, 3}
    <3>1. x = p BY <2>4
    <3> QED BY <3>1 DEF Kept
  <2> QED BY <2>1, <2>2, <2>3, <2>4
<1> HIDE DEF x
<1>4. Kept(x, q) /\ q.dirtyAll BY <1>2, <1>3, DirtiedIs
<1> HIDE DEF q
<1> QED BY <1>3, <1>4, KeptKept DEF q, Kept

\* Rows that take other rows, each of them at most once: cells and records
\* move together.
LEMMA RowsFromIs ==
    ASSUME NEW p, Fair(p), NEW from \in [RowIds -> RowIds \cup {-1}],
           \A r, s \in RowIds : from[r] = from[s] /\ from[r] # -1 => r = s
    PROVE  LET q == RowsFrom(p, from) IN Kept(p, q) /\ q.dirtyAll
<1> DEFINE I == {i \in DOMAIN p.recs : \E r \in RowIds : from[r] = p.recs[i].row}
           kept == Picked(p.recs, I)
           to(i) == CHOOSE r \in RowIds : from[r] = kept[i].row
           s == [i \in DOMAIN kept |-> [kept[i] EXCEPT !.row = to(i)]]
           cells == [x \in RowIds \X ColIds |->
                       IF from[x[1]] = -1 THEN BlankCell(p) ELSE p.cells[<<from[x[1]], x[2]>>]]
           q == RowsFrom(p, from)
<1>1. /\ p \in Planes /\ Distinct(p) /\ Tall(p) /\ OffTails(p)
      /\ p.cells \in [RowIds \X ColIds -> Cell]
      /\ p.recs \in Seq(ClusterRecord) /\ Len(p.recs) \in Nat
      /\ Len(p.recs) <= MaxClusters /\ DOMAIN p.recs = 1 .. Len(p.recs)
    BY PlaneFields DEF Fair
<1>2. q = [p EXCEPT !.cells = cells, !.recs = s, !.dirtyAll = TRUE, !.dirty = {}]
  <2>1. DOMAIN p.cells = RowIds \X ColIds BY <1>1
  <2> QED BY <2>1, <1>1 DEF RowsFrom, Planes
<1>3. I \in SUBSET DOMAIN p.recs
      /\ \A i \in I : \E r \in RowIds : from[r] = p.recs[i].row
    OBVIOUS
<1>4. BlankCell(p) \in Cell /\ BlankCell(p).part = "whole" BY <1>1, SetBlanksIs
<1>5. /\ cells \in [RowIds \X ColIds -> Cell]
      /\ \A r \in RowIds, c \in ColIds :
            cells[<<r, c>>] = IF from[r] = -1 THEN BlankCell(p) ELSE p.cells[<<from[r], c>>]
  <2>1. ASSUME NEW x \in RowIds \X ColIds, from[x[1]] # -1
        PROVE  <<from[x[1]], x[2]>> \in RowIds \X ColIds
      BY <2>1
  <2> QED BY <2>1, <1>4, <1>1
<1> HIDE DEF I, cells, q
<1>6. /\ kept \in Seq(ClusterRecord) /\ Len(kept) \in Nat /\ Len(kept) <= Len(p.recs)
      /\ \A i \in DOMAIN kept : Nth(I, i) \in I /\ kept[i] = p.recs[Nth(I, i)]
      /\ \A i, j \in DOMAIN kept : Nth(I, i) = Nth(I, j) => i = j
    BY <1>1, <1>3, PickedIs
<1> HIDE DEF kept
<1>7. DOMAIN kept = 1 .. Len(kept) BY <1>6
<1>8. ASSUME NEW i \in DOMAIN kept
      PROVE  /\ kept[i] \in Recs(p) /\ kept[i] \in ClusterRecord
             /\ to(i) \in RowIds /\ from[to(i)] = kept[i].row
  <2>1. kept[i] \in Recs(p) BY <1>3, <1>6 DEF Recs
  <2>2. kept[i] \in ClusterRecord BY <2>1, <1>1, RecsAre
  <2>3. \E r \in RowIds : from[r] = kept[i].row BY <1>3, <1>6
  <2> QED BY <2>1, <2>2, <2>3
<1>9. ASSUME NEW i \in DOMAIN kept
      PROVE  /\ s[i] \in ClusterRecord /\ s[i].row \in RowIds /\ from[s[i].row] = kept[i].row
             /\ s[i].col = kept[i].col /\ s[i].text = kept[i].text
  <2> HIDE DEF to
  <2>1. s[i] = [kept[i] EXCEPT !.row = to(i)] OBVIOUS
  <2> QED BY <2>1, <1>8 DEF ClusterRecord
<1>10. s \in Seq(ClusterRecord) /\ DOMAIN s = DOMAIN kept /\ Len(s) = Len(kept)
  <2> HIDE DEF to
  <2>1. DOMAIN s = 1 .. Len(kept) BY <1>7
  <2>2. s \in [1 .. Len(kept) -> ClusterRecord] BY <1>7, <1>9
  <2> HIDE DEF s
  <2> QED BY <2>1, <2>2, <1>6, <1>7
<1>11. Len(s) <= MaxClusters BY <1>1, <1>6, <1>10, ConsoleAssumption
<1> HIDE DEF s, to
<1>12. q \in Planes /\ q.cells = cells /\ q.recs = s /\ q.dirtyAll
  <2>1. s \in {t \in Seq(ClusterRecord) : Len(t) <= MaxClusters} BY <1>10, <1>11
  <2> QED BY <2>1, <1>1, <1>2, <1>5 DEF Planes
<1>13. Distinct(q)
  <2> SUFFICES ASSUME NEW i \in DOMAIN kept, NEW j \in DOMAIN kept,
                      s[i].row = s[j].row, s[i].col = s[j].col
               PROVE  i = j
      BY <1>10, <1>12 DEF Distinct
  <2>1. kept[i].row = kept[j].row /\ kept[i].col = kept[j].col BY <1>9
  <2>2. /\ Nth(I, i) \in DOMAIN p.recs /\ kept[i] = p.recs[Nth(I, i)]
        /\ Nth(I, j) \in DOMAIN p.recs /\ kept[j] = p.recs[Nth(I, j)]
      BY <1>3, <1>6
  <2>3. Nth(I, i) = Nth(I, j) BY <2>1, <2>2, <1>1 DEF Distinct
  <2> QED BY <2>3, <1>6
<1>14. ASSUME NEW i \in DOMAIN q.recs
       PROVE  \E x \in Recs(p) :
                 /\ q.recs[i].text = x.text
                 /\ q.cells[<<q.recs[i].row, q.recs[i].col>>] = p.cells[<<x.row, x.col>>]
  <2>1. i \in DOMAIN kept BY <1>10, <1>12
  <2>2. /\ s[i].row \in RowIds /\ from[s[i].row] = kept[i].row
        /\ s[i].col = kept[i].col /\ s[i].text = kept[i].text
      BY <2>1, <1>9
  <2>3. kept[i] \in Recs(p) /\ kept[i].row \in RowIds /\ kept[i].col \in ColIds
      BY <2>1, <1>1, <1>8, RecsAre
  <2>4. kept[i].row # -1 BY <2>3, ConsoleAssumption DEF RowIds
  <2>5. cells[<<s[i].row, s[i].col>>] = p.cells[<<kept[i].row, kept[i].col>>]
      BY <2>2, <2>3, <2>4, <1>5
  <2> QED BY <2>2, <2>3, <2>5, <1>12
<1>15. Tall(q) /\ OffTails(q)
  <2>1. \A x \in Recs(p) :
            Width[x.text] \in {1, 2} /\ p.cells[<<x.row, x.col>>].part # "tail"
      BY <1>1, RecsAre
  <2> QED BY <2>1, <1>14 DEF Tall, OffTails
<1>16. ASSUME OnCells(p) PROVE OnCells(q)
  <2>1. \A x \in Recs(p) : OnCell(p, x) BY <1>1, <1>16, RecsAre
  <2> QED BY <2>1, <1>14, ZenonT(60) DEF OnCells, OnCell
<1>17. ASSUME Whole(p) PROVE Whole(q)
  <2> SUFFICES ASSUME NEW r \in RowIds, NEW c \in ColIds
               PROVE  /\ q.cells[<<r, c>>].part = "lead" =>
                            c + 1 \in ColIds /\ q.cells[<<r, c + 1>>].part = "tail"
                      /\ q.cells[<<r, c>>].part = "tail" =>
                            c > 0 /\ q.cells[<<r, c - 1>>].part = "lead"
      BY DEF Whole
  <2>1. CASE from[r] = -1
    <3>1. q.cells[<<r, c>>].part = "whole" BY <2>1, <1>4, <1>5, <1>12
    <3> QED BY <3>1
  <2>2. CASE from[r] # -1
    <3> DEFINE f == from[r]
    <3>1. f \in RowIds BY <2>2
    <3>2. \A d \in ColIds : q.cells[<<r, d>>] = p.cells[<<f, d>>]
        BY <2>2, <1>5, <1>12
    <3> HIDE DEF f
    <3>3. ASSUME q.cells[<<r, c>>].part = "lead"
          PROVE  c + 1 \in ColIds /\ q.cells[<<r, c + 1>>].part = "tail"
      <4>1. p.cells[<<f, c>>].part = "lead" BY <3>2, <3>3
      <4>2. c + 1 \in ColIds /\ p.cells[<<f, c + 1>>].part = "tail"
          BY <4>1, <3>1, <1>17, Zenon DEF Whole
      <4> QED BY <4>2, <3>2
    <3>4. ASSUME q.cells[<<r, c>>].part = "tail"
          PROVE  c > 0 /\ q.cells[<<r, c - 1>>].part = "lead"
      <4>1. p.cells[<<f, c>>].part = "tail" BY <3>2, <3>4
      <4>2. c > 0 /\ p.cells[<<f, c - 1>>].part = "lead"
          BY <4>1, <3>1, <1>17, Zenon DEF Whole
      <4>3. c - 1 \in ColIds BY <4>2, ConsoleAssumption DEF ColIds
      <4> QED BY <4>2, <4>3, <3>2
    <3> QED BY <3>3, <3>4
  <2> QED BY <2>1, <2>2
<1> QED BY <1>12, <1>13, <1>15, <1>16, <1>17 DEF q, Kept, Good, Fair

\* scte_rows_down and scte_rows_up.
LEMMA RowsDownIs ==
    ASSUME NEW p, Fair(p), NEW top \in RowIds, NEW n \in Nat
    PROVE  Reached(p, RowsDown(p, top, n))
<1>1. CASE n = 0
  <2>1. RowsDown(p, top, n) = p BY <1>1 DEF RowsDown
  <2> QED BY <2>1 DEF Reached, Kept, SameRow
<1>2. CASE n # 0
  <2> DEFINE from == [r \in RowIds |->
                        IF r < top THEN r ELSE IF r < top + n THEN -1 ELSE r - n]
  <2>1. RowsDown(p, top, n) = RowsFrom(p, from) BY <1>2 DEF RowsDown
  <2>2. from \in [RowIds -> RowIds \cup {-1}] BY ConsoleAssumption DEF RowIds
  <2>3. \A r, s \in RowIds : from[r] = from[s] /\ from[r] # -1 => r = s
      BY ConsoleAssumption DEF RowIds
  <2> HIDE DEF from
  <2>4. Kept(p, RowsFrom(p, from)) /\ RowsFrom(p, from).dirtyAll BY <2>2, <2>3, RowsFromIs
  <2> QED BY <2>1, <2>4, AllDirtySeen DEF Kept
<1> QED BY <1>1, <1>2

LEMMA RowsUpIs ==
    ASSUME NEW p, Fair(p), NEW top \in RowIds, NEW n \in Nat
    PROVE  Reached(p, RowsUp(p, top, n))
<1>1. CASE n = 0
  <2>1. RowsUp(p, top, n) = p BY <1>1 DEF RowsUp
  <2> QED BY <2>1 DEF Reached, Kept, SameRow
<1>2. CASE n # 0
  <2> DEFINE from == [r \in RowIds |->
                        IF r < top THEN r ELSE IF r + n < Rows THEN r + n ELSE -1]
  <2>1. RowsUp(p, top, n) = RowsFrom(p, from) BY <1>2 DEF RowsUp
  <2>2. from \in [RowIds -> RowIds \cup {-1}] BY ConsoleAssumption DEF RowIds
  <2>3. \A r, s \in RowIds : from[r] = from[s] /\ from[r] # -1 => r = s
      BY ConsoleAssumption DEF RowIds
  <2> HIDE DEF from
  <2>4. Kept(p, RowsFrom(p, from)) /\ RowsFrom(p, from).dirtyAll BY <2>2, <2>3, RowsFromIs
  <2> QED BY <2>1, <2>4, AllDirtySeen DEF Kept
<1> QED BY <1>1, <1>2

\* scte_insert_cells and scte_delete_cells move cells within a row, and may
\* part pairs; the row has no record then.
LEMMA RowCellsFromIs ==
    ASSUME NEW p, Fair(p), NEW r \in RowIds, NEW from \in [ColIds -> ColIds \cup {-1}]
    PROVE  LET q == RowCellsFrom(p, r, from) IN Fair(q) /\ q.dirtyAll
<1> DEFINE I == {i \in DOMAIN p.recs : p.recs[i].row # r}
           v == [p EXCEPT !.recs = Picked(p.recs, I)]
           cells == [x \in RowIds \X ColIds |->
                       IF x[1] # r THEN p.cells[x]
                       ELSE IF from[x[2]] = -1 THEN BlankCell(p)
                       ELSE p.cells[<<r, from[x[2]]>>]]
           q == RowCellsFrom(p, r, from)
<1>1. /\ p \in Planes /\ Distinct(p) /\ Tall(p) /\ OffTails(p)
      /\ p.cells \in [RowIds \X ColIds -> Cell]
    BY PlaneFields DEF Fair
<1>2. I \in SUBSET DOMAIN p.recs /\ \A i \in I : p.recs[i].row # r OBVIOUS
<1>3. q = [p EXCEPT !.cells = cells, !.recs = Picked(p.recs, I), !.dirtyAll = TRUE]
  <2>1. DOMAIN p.cells = RowIds \X ColIds BY <1>1
  <2> QED BY <2>1, <1>1 DEF RowCellsFrom, Planes
<1>4. /\ cells \in [RowIds \X ColIds -> Cell]
      /\ \A s \in RowIds \ {r}, c \in ColIds : cells[<<s, c>>] = p.cells[<<s, c>>]
  <2>1. BlankCell(p) \in Cell BY <1>1, SetBlanksIs
  <2>2. ASSUME NEW x \in RowIds \X ColIds, from[x[2]] # -1
        PROVE  <<r, from[x[2]]>> \in RowIds \X ColIds
      BY <2>2
  <2> QED BY <2>1, <2>2, <1>1
<1> HIDE DEF I, cells
<1>5. v \in Planes /\ Distinct(v) /\ Recs(v) = {p.recs[i] : i \in I}
    BY <1>1, <1>2, RecordsPicked
<1>6. v.recs = Picked(p.recs, I) BY <1>1 DEF Planes
<1>7. q = [v EXCEPT !.cells = cells, !.dirtyAll = TRUE] BY <1>3, <1>1 DEF Planes
<1> HIDE DEF v, q
<1>8. q \in Planes /\ q.cells = cells /\ q.recs = v.recs /\ q.dirtyAll
    BY <1>4, <1>5, <1>7 DEF Planes
<1>9. Distinct(q) /\ Recs(q) = Recs(v) BY <1>5, <1>8 DEF Distinct, Recs
<1>10. ASSUME NEW x \in Recs(q)
       PROVE  /\ x \in Recs(p) /\ x.row \in RowIds /\ x.col \in ColIds
              /\ q.cells[<<x.row, x.col>>] = p.cells[<<x.row, x.col>>]
  <2>1. x \in Recs(p) /\ x.row # r BY <1>2, <1>5, <1>9 DEF Recs
  <2>2. x.row \in RowIds /\ x.col \in ColIds BY <2>1, <1>1, RecsAre
  <2> QED BY <2>1, <2>2, <1>4, <1>8
<1>11. Tall(q) /\ OffTails(q)
  <2>1. \A x \in Recs(p) :
            Width[x.text] \in {1, 2} /\ p.cells[<<x.row, x.col>>].part # "tail"
      BY <1>1, RecsAre
  <2> QED BY <2>1, <1>8, <1>10, RecsAre
<1> QED BY <1>8, <1>9, <1>11 DEF q, Fair

LEMMA CellsMovedAre ==
    ASSUME NEW p, Fair(p), NEW n \in Nat
    PROVE  Seen(p, CellsInserted(p, n)) /\ Seen(p, CellsDeleted(p, n))
<1>1. p \in Planes /\ p.row \in RowIds /\ p.col \in 0 .. Cols BY PlaneFields DEF Fair
<1>2. Seen(p, p) BY DEF Seen, SameRow
<1>3. CASE p.col >= Cols \/ n = 0 BY <1>2, <1>3 DEF CellsInserted, CellsDeleted
<1>4. CASE ~(p.col >= Cols \/ n = 0)
  <2> DEFINE on == [c \in ColIds |->
                      IF c < p.col THEN c ELSE IF c < p.col + n THEN -1 ELSE c - n]
             back == [c \in ColIds |->
                        IF c < p.col THEN c ELSE IF c + n < Cols THEN c + n ELSE -1]
  <2>1. on \in [ColIds -> ColIds \cup {-1}] /\ back \in [ColIds -> ColIds \cup {-1}]
      BY <1>1, ConsoleAssumption DEF ColIds
  <2>2. /\ CellsInserted(p, n) = RowCellsFrom(p, p.row, on)
        /\ CellsDeleted(p, n) = RowCellsFrom(p, p.row, back)
      BY <1>4 DEF CellsInserted, CellsDeleted
  <2> HIDE DEF on, back
  <2> QED BY <2>1, <2>2, <1>1, RowCellsFromIs, AllDirtySeen
<1> QED BY <1>3, <1>4

-----------------------------------------------------------------------------
(* What sequences do to the plane.                                          *)

LEMMA ParamIs ==
    ASSUME NEW t, t.params \in Seq(ParamValues), NEW i \in Nat \ {0}, NEW d \in Nat
    PROVE  /\ Param(t, i, d) \in Nat
           /\ d <= MaxParamValue => Param(t, i, d) \in 0 .. MaxParamValue
<1>1. CASE i > Len(t.params) \/ t.params[i] = Missing
    BY <1>1, TerminalAssumption DEF Param
<1>2. CASE ~(i > Len(t.params) \/ t.params[i] = Missing)
  <2>1. t.params[i] \in ParamValues BY <1>2
  <2>2. t.params[i] \in 0 .. MaxParamValue BY <2>1, <1>2 DEF ParamValues
  <2> QED BY <2>2, <1>2, TerminalAssumption DEF Param
<1> QED BY <1>1, <1>2

\* A step that only moves the cursor or sets a register of the plane.
LEMMA MovedTo ==
    ASSUME NEW p, Fair(p), NEW r \in RowIds, NEW c \in 0 .. Cols
    PROVE  /\ Reached(p, [p EXCEPT !.row = r])
           /\ Reached(p, [p EXCEPT !.col = c])
           /\ Reached(p, [[p EXCEPT !.row = r] EXCEPT !.col = c])
<1>1. p \in Planes BY DEF Fair
<1>2. /\ [p EXCEPT !.row = r] \in Planes /\ [p EXCEPT !.col = c] \in Planes
      /\ [[p EXCEPT !.row = r] EXCEPT !.col = c] \in Planes
    BY <1>1 DEF Planes
<1>3. /\ \A f \in {"cells", "recs", "dirty", "dirtyAll"} :
            /\ [p EXCEPT !.row = r][f] = p[f] /\ [p EXCEPT !.col = c][f] = p[f]
            /\ [[p EXCEPT !.row = r] EXCEPT !.col = c][f] = p[f]
    BY <1>1 DEF Planes
<1> QED BY <1>2, <1>3, RegistersReached

LEMMA CursorIs ==
    ASSUME NEW p, p \in Planes, NEW n \in Int
    PROVE  /\ ToRow(p, n) = [p EXCEPT !.row = AtMost(AtLeastZero(n), Rows - 1)]
           /\ ToCol(p, n) = [p EXCEPT !.col = AtMost(AtLeastZero(n), Cols - 1)]
           /\ AtMost(AtLeastZero(n), Rows - 1) \in RowIds
           /\ AtMost(AtLeastZero(n), Cols - 1) \in 0 .. Cols
           /\ n \in Nat => AtLeastZero(p.row - n) \in RowIds
           /\ n \in Nat => AtLeastZero(p.col - n) \in 0 .. Cols
<1>1. p.row \in 0 .. Rows - 1 /\ p.col \in 0 .. Cols BY PlaneFields DEF RowIds
<1>2. Rows \in Nat \ {0} /\ Cols \in Nat \ {0} BY ConsoleAssumption
<1> QED BY <1>1, <1>2 DEF ToRow, ToCol, AtMost, AtLeastZero, RowIds

LEMMA CursorReached ==
    ASSUME NEW p, Fair(p), NEW n \in Int, NEW m \in Int
    PROVE  /\ Reached(p, ToRow(p, n)) /\ Reached(p, ToCol(p, n))
           /\ Reached(p, ToCol(ToRow(p, n), m)) /\ Reached(p, Returned(ToRow(p, n)))
           /\ n \in Nat =>
                 /\ Reached(p, [p EXCEPT !.row = AtLeastZero(@ - n)])
                 /\ Reached(p, [p EXCEPT !.col = AtLeastZero(@ - n)])
                 /\ Reached(p, Returned([p EXCEPT !.row = AtLeastZero(@ - n)]))
<1>1. p \in Planes BY DEF Fair
<1> DEFINE r == AtMost(AtLeastZero(n), Rows - 1)
           x == [p EXCEPT !.row = r]
           c == AtMost(AtLeastZero(n), Cols - 1)
           d == AtMost(AtLeastZero(m), Cols - 1)
           u == AtLeastZero(p.row - n)
           v == AtLeastZero(p.col - n)
<1>2. /\ ToRow(p, n) = x /\ r \in RowIds
      /\ ToCol(p, n) = [p EXCEPT !.col = c] /\ c \in 0 .. Cols
      /\ n \in Nat => u \in RowIds /\ v \in 0 .. Cols
    BY <1>1, CursorIs
<1>3. 0 \in 0 .. Cols BY ConsoleAssumption
<1>4. n \in Nat => /\ [p EXCEPT !.row = AtLeastZero(@ - n)] = [p EXCEPT !.row = u]
                   /\ [p EXCEPT !.col = AtLeastZero(@ - n)] = [p EXCEPT !.col = v]
    BY <1>1 DEF Planes
<1> HIDE DEF r, c, u, v
<1>5. x \in Planes BY <1>1, <1>2 DEF Planes
<1>6. ToCol(x, m) = [x EXCEPT !.col = d] /\ d \in 0 .. Cols
  <2> HIDE DEF x
  <2> QED BY <1>5, CursorIs
<1> HIDE DEF d
<1>7. Reached(p, ToRow(p, n)) /\ Reached(p, ToCol(p, n))
  <2>1. Reached(p, [p EXCEPT !.row = r]) /\ Reached(p, [p EXCEPT !.col = c])
      BY <1>2, <1>3, MovedTo
  <2> QED BY <2>1, <1>2
<1>8. Reached(p, ToCol(ToRow(p, n), m))
  <2>1. Reached(p, [[p EXCEPT !.row = r] EXCEPT !.col = d]) BY <1>2, <1>6, MovedTo
  <2> QED BY <2>1, <1>2, <1>6
<1>9. Reached(p, Returned(ToRow(p, n))) BY <1>2, <1>3, MovedTo DEF Returned
<1>10. ASSUME n \in Nat
       PROVE  /\ Reached(p, [p EXCEPT !.row = u]) /\ Reached(p, [p EXCEPT !.col = v])
              /\ Reached(p, Returned([p EXCEPT !.row = u]))
    BY <1>2, <1>3, <1>10, MovedTo DEF Returned
<1> QED BY <1>4, <1>7, <1>8, <1>9, <1>10

\* scte_sgr
LEMMA StyledIs ==
    ASSUME NEW p, Fair(p), NEW t, t.params \in Seq(ParamValues)
    PROVE  Reached(p, Styled(p, t))
<1> DEFINE n == Len(t.params)
           next(i, x) == SgrStyle[Param(t, i, 0)][x]
           step == [z \in (1 .. n) \X Styles |-> next(z[1], z[2])]
           Runs(f) == f = [i \in 0 .. n |-> IF i = 0 THEN p.style ELSE next(i, f[i - 1])]
           after == CHOOSE f : Runs(f)
           style == IF t.params = <<>> THEN SgrStyle[0][p.style] ELSE after[n]
<1>1. p \in Planes /\ p.style \in Styles /\ n \in Nat BY PlaneFields DEF Fair
<1>2. SgrStyle \in [0 .. MaxParamValue -> [Styles -> Styles]] /\ MaxParamValue \in Nat
    BY TerminalAssumption
<1>3. Styled(p, t) = [p EXCEPT !.style = style] BY <1>1 DEF Styled, Planes
<1> HIDE DEF n
<1>4. ASSUME NEW i \in 1 .. n, NEW x \in Styles PROVE next(i, x) \in Styles
  <2>1. i \in Nat \ {0} /\ 0 \in Nat /\ 0 <= MaxParamValue BY <1>1, <1>2
  <2>2. Param(t, i, 0) \in 0 .. MaxParamValue BY <2>1, ParamIs
  <2> QED BY <2>2, <1>2
<1> HIDE DEF next
<1>5. step \in [(1 .. n) \X Styles -> Styles] BY <1>4
<1>6. \A i \in 1 .. n, x \in Styles : step[<<i, x>>] = next(i, x) OBVIOUS
<1> HIDE DEF step
<1>7. PICK g \in [0 .. n -> Styles] : StepRuns(g, n, p.style, step)
    BY <1>1, <1>5, StepsExist
<1>8. \A i \in 1 .. n : i \in 0 .. n /\ i # 0 /\ i - 1 \in 0 .. n /\ g[i - 1] \in Styles
    BY <1>1
<1>9. Runs(g)
  <2>1. g[0] = p.style /\ \A i \in 1 .. n : g[i] = next(i, g[i - 1])
      BY <1>6, <1>7, <1>8 DEF StepRuns
  <2>2. \A i \in 0 .. n : i # 0 => i \in 1 .. n BY <1>1
  <2>3. g = [i \in 0 .. n |-> g[i]] OBVIOUS
  <2> QED BY <2>1, <2>2, <2>3
<1>10. Runs(after)
  <2> HIDE DEF Runs
  <2> QED BY <1>9
<1> HIDE DEF after
<1>11. after[0] = p.style /\ \A i \in 1 .. n : after[i] = next(i, after[i - 1])
  <2>1. 0 \in 0 .. n BY <1>1
  <2> QED BY <1>8, <1>10, <2>1
<1> HIDE DEF Runs
<1>12. \A i \in 1 .. n : after[i - 1] \in Styles => after[i] \in Styles BY <1>4, <1>11
<1>13. \A i \in 0 .. n : after[i] \in Styles BY <1>1, <1>11, <1>12, StaysWithin
<1>14. style \in Styles BY <1>1, <1>2, <1>13
<1> HIDE DEF style
<1>15. /\ [p EXCEPT !.style = style] \in Planes
       /\ \A f \in {"cells", "recs", "dirty", "dirtyAll"} :
             [p EXCEPT !.style = style][f] = p[f]
    BY <1>1, <1>14 DEF Planes
<1> QED BY <1>3, <1>15, RegistersReached

\* SU: the cursor stays where it was.
LEMMA ScrolledUpIs ==
    ASSUME NEW p, Fair(p), NEW n \in Nat
    PROVE  Reached(p, ScrolledUp(p, n))
<1> DEFINE q == Scroll(p, n)
           x == ScrolledUp(p, n)
<1>1. p \in Planes /\ p.row \in RowIds /\ p.col \in 0 .. Cols BY PlaneFields DEF Fair
<1>2. Kept(p, q) /\ Fair(q) /\ q \in Planes /\ (n = 0 => q = p) /\ (n # 0 => q.dirtyAll)
    BY ScrollIs DEF Grows, Kept, Fair
<1>3. x = [q EXCEPT !.row = p.row, !.col = p.col] BY DEF ScrolledUp
<1> HIDE DEF q
<1>4. /\ x \in Planes /\ x.cells = q.cells /\ x.recs = q.recs
      /\ x.dirty = q.dirty /\ x.dirtyAll = q.dirtyAll
    BY <1>1, <1>2, <1>3 DEF Planes
<1> HIDE DEF x
<1>5. CASE n = 0
  <2> QED BY <1>2, <1>4, <1>5, RegistersReached DEF x
<1>6. CASE n # 0
  <2>1. Kept(q, x) BY <1>2, <1>4, RegistersChange
  <2>2. Kept(p, x) /\ Fair(x) /\ x.dirtyAll BY <2>1, <1>2, <1>4, <1>6, KeptKept DEF Kept
  <2> QED BY <2>2, AllDirtySeen DEF x
<1> QED BY <1>5, <1>6

\* The switch of scte_execute_csi: pairs and records are kept but by the
\* sequences that are known to disturb them.
LEMMA SequenceEffectIs ==
    ASSUME NEW p, Fair(p), NEW t, t.params \in Seq(ParamValues),
           NEW b \in Executable, NEW beyond
    PROVE  LET q == SequenceEffect(p, t, b, beyond)
           IN  Seen(p, q) /\ (Disturbs(p, t, b) \/ Reached(p, q))
<1> DEFINE n == Param(t, 1, 1)
           m == Param(t, 1, 0)
           k == Param(t, 2, 1)
           q == SequenceEffect(p, t, b, beyond)
<1>1. n \in Nat /\ m \in Nat /\ k \in Nat BY ParamIs
<1>2. p \in Planes /\ p.row \in RowIds /\ p.col \in 0 .. Cols BY PlaneFields DEF Fair
<1>3. p.row \in Nat /\ p.col \in Nat /\ 0 \in RowIds /\ Cols \in Nat
    BY <1>2, ConsoleAssumption DEF RowIds
<1>4. ASSUME Reached(p, q) PROVE Seen(p, q) BY <1>4 DEF Reached, Seen, Kept
<1>5. CASE b \in {"A", "B", "C", "D", "E", "F", "G", "H", "f"}
  <2>1. q = CASE b = "A" -> [p EXCEPT !.row = AtLeastZero(@ - n)]
              [] b = "B" -> ToRow(p, p.row + n)
              [] b = "C" -> ToCol(p, p.col + n)
              [] b = "D" -> [p EXCEPT !.col = AtLeastZero(@ - n)]
              [] b = "E" -> Returned(ToRow(p, p.row + n))
              [] b = "F" -> Returned([p EXCEPT !.row = AtLeastZero(@ - n)])
              [] b = "G" -> ToCol(p, n - 1)
              [] b \in {"H", "f"} -> ToCol(ToRow(p, n - 1), k - 1)
      BY <1>5 DEF SequenceEffect
  <2> HIDE DEF n, k, q
  <2>2. p.row + n \in Int /\ p.col + n \in Int /\ n - 1 \in Int /\ k - 1 \in Int
        /\ n \in Int
      BY <1>1, <1>3
  <2>3. Reached(p, q)
    <3>1. CASE b = "A" BY <2>1, <2>2, <3>1, <1>1, CursorReached
    <3>2. CASE b = "B"
      <4>1. q = ToRow(p, p.row + n) BY <2>1, <3>2
      <4> QED BY <4>1, <2>2, CursorReached
    <3>3. CASE b = "C"
      <4>1. q = ToCol(p, p.col + n) BY <2>1, <3>3
      <4> QED BY <4>1, <2>2, CursorReached
    <3>4. CASE b = "D"
      <4>1. q = [p EXCEPT !.col = AtLeastZero(@ - n)] BY <2>1, <3>4
      <4> QED BY <4>1, <2>2, <1>1, CursorReached
    <3>5. CASE b = "E"
      <4>1. q = Returned(ToRow(p, p.row + n)) BY <2>1, <3>5
      <4> QED BY <4>1, <2>2, CursorReached
    <3>6. CASE b = "F"
      <4>1. q = Returned([p EXCEPT !.row = AtLeastZero(@ - n)]) BY <2>1, <3>6
      <4> QED BY <4>1, <2>2, <1>1, CursorReached
    <3>7. CASE b = "G"
      <4>1. q = ToCol(p, n - 1) BY <2>1, <3>7
      <4> QED BY <4>1, <2>2, CursorReached
    <3>8. CASE b \in {"H", "f"}
      <4>1. q = ToCol(ToRow(p, n - 1), k - 1) BY <2>1, <3>8
      <4> QED BY <4>1, <2>2, CursorReached
    <3> QED BY <3>1, <3>2, <3>3, <3>4, <3>5, <3>6, <3>7, <3>8, <1>5
  <2> QED BY <2>3, <1>4 DEF q
<1>7. CASE b \in {"J", "K"}
  <2>1. q = IF b = "J" THEN EraseDisplay(p, m, beyond) ELSE EraseLine(p, m, beyond)
      BY <1>7 DEF SequenceEffect
  <2>2. Disturbs(p, t, b) <=> m = 1 /\ p.col = Cols BY <1>7 DEF Disturbs
  <2> HIDE DEF m, q
  <2>3. Fair(q) /\ q.dirtyAll /\ (m # 1 \/ p.col < Cols => Kept(p, q))
    <3>1. CASE b = "J" BY <2>1, <3>1, EraseDisplayIs
    <3>2. CASE b = "K"
      <4>1. q = EraseLine(p, m, beyond) BY <2>1, <3>2
      <4> QED BY <4>1, EraseLineIs
    <3> QED BY <3>1, <3>2, <1>7
  <2>4. Disturbs(p, t, b) \/ Kept(p, q) BY <2>2, <2>3, <1>2, <1>3
  <2> QED BY <2>3, <2>4, AllDirtySeen DEF q
<1>8. CASE b \in {"L", "M", "T"}
  <2>1. q = CASE b = "L" -> RowsDown(p, p.row, n)
              [] b = "M" -> RowsUp(p, p.row, n)
              [] b = "T" -> RowsDown(p, 0, n)
      BY <1>8 DEF SequenceEffect
  <2> HIDE DEF n, q
  <2>2. Reached(p, q) BY <2>1, <1>1, <1>2, <1>3, <1>8, RowsDownIs, RowsUpIs
  <2> QED BY <2>2, <1>4 DEF q
<1>9. CASE b \in {"P", "@"}
  <2>1. q = IF b = "P" THEN CellsDeleted(p, n) ELSE CellsInserted(p, n)
      BY <1>9 DEF SequenceEffect
  <2>2. Disturbs(p, t, b) BY <1>9 DEF Disturbs
  <2> HIDE DEF n, q
  <2>3. Seen(p, q) BY <2>1, <1>1, CellsMovedAre
  <2> QED BY <2>2, <2>3 DEF q
<1>10. CASE b = "S"
  <2>1. q = ScrolledUp(p, n) BY <1>10 DEF SequenceEffect
  <2> HIDE DEF n, q
  <2>2. Reached(p, q) BY <2>1, <1>1, ScrolledUpIs
  <2> QED BY <2>2, <1>4 DEF q
<1>11. CASE b = "m"
  <2>1. q = Styled(p, t) BY <1>11 DEF SequenceEffect
  <2> HIDE DEF q
  <2>2. Reached(p, q) BY <2>1, StyledIs
  <2> QED BY <2>2, <1>4 DEF q
<1> QED BY <1>5, <1>7, <1>8, <1>9, <1>10, <1>11 DEF Executable

-----------------------------------------------------------------------------
(* The parser.                                                              *)

\* What was read of a SUTF-8 sequence: its lead, and bytes that continue it.
Carries ==
    {<<>>} \cup {s \in Seq(DOMAIN LeadLength \cup Conts) :
                    /\ s # <<>> /\ s[1] \in DOMAIN LeadLength
                    /\ Len(s) < LeadLength[s[1]]
                    /\ \A i \in 2 .. Len(s) : s[i] \in Conts}

TermRecords ==
    [state : {"GROUND", "ESC", "CSI", "OSC", "OSC_ESC"}, carry : Carries,
     params : {s \in Seq(ParamValues) : Len(s) <= MaxParams}, cur : ParamValues,
     prefix : {None, "!"} \cup Privates, intermediate : {None} \cup Intermediates,
     overflow : BOOLEAN, savedRow : RowIds, savedCol : 0 .. Cols,
     visible : BOOLEAN, osc : 0 .. MaxOsc, oscOverflow : BOOLEAN]

\* The count of an OSC string is zero outside of one.
OscStates == {"OSC", "OSC_ESC"}
Idle(t) == t.state \notin OscStates => t.osc = 0 /\ t.oscOverflow = FALSE
Terms == {t \in TermRecords : Idle(t)}

LEMMA TermFields ==
    ASSUME NEW t \in Terms
    PROVE  /\ t \in TermRecords /\ Idle(t)
           /\ t.state \in {"GROUND", "ESC", "CSI", "OSC", "OSC_ESC"}
           /\ t.carry \in Carries
           /\ t.params \in Seq(ParamValues) /\ Len(t.params) <= MaxParams
           /\ t.cur \in ParamValues /\ t.prefix \in {None, "!"} \cup Privates
           /\ t.intermediate \in {None} \cup Intermediates /\ t.overflow \in BOOLEAN
           /\ t.savedRow \in RowIds /\ t.savedCol \in 0 .. Cols
           /\ t.visible \in BOOLEAN /\ t.osc \in 0 .. MaxOsc /\ t.oscOverflow \in BOOLEAN
BY DEF Terms, TermRecords

\* The registers of a control sequence.
LEMMA CsiResetIs ==
    ASSUME NEW t \in Terms
    PROVE  CsiReset(t) \in Terms /\ CsiReset(t).state = t.state
<1>1. <<>> \in {s \in Seq(ParamValues) : Len(s) <= MaxParams} BY TerminalAssumption
<1>2. Missing \in ParamValues BY DEF ParamValues
<1>3. t \in TermRecords /\ Idle(t) BY DEF Terms
<1> DEFINE u == CsiReset(t)
<1>4. u \in TermRecords /\ u.state = t.state /\ u.osc = t.osc /\ u.oscOverflow = t.oscOverflow
    BY <1>1, <1>2, <1>3 DEF CsiReset, TermRecords
<1> HIDE DEF u
<1> QED BY <1>3, <1>4 DEF Idle, Terms, u

LEMMA CsiRegistersAre ==
    ASSUME NEW t \in Terms
    PROVE  /\ \A b \in Privates \cup {"!"} :
                 [t EXCEPT !.prefix = b] \in Terms /\ [t EXCEPT !.prefix = b].state = t.state
           /\ \A b \in Intermediates :
                 /\ [t EXCEPT !.intermediate = b] \in Terms
                 /\ [t EXCEPT !.intermediate = b].state = t.state
           /\ [t EXCEPT !.overflow = TRUE] \in Terms
           /\ [t EXCEPT !.overflow = TRUE].state = t.state
<1>1. t \in TermRecords /\ Idle(t) BY DEF Terms
<1>2. ASSUME NEW b \in Privates \cup {"!"}
      PROVE  [t EXCEPT !.prefix = b] \in Terms /\ [t EXCEPT !.prefix = b].state = t.state
    BY <1>1 DEF TermRecords, Terms, Idle
<1>3. ASSUME NEW b \in Intermediates
      PROVE  /\ [t EXCEPT !.intermediate = b] \in Terms
             /\ [t EXCEPT !.intermediate = b].state = t.state
    BY <1>1 DEF TermRecords, Terms, Idle
<1>4. /\ [t EXCEPT !.overflow = TRUE] \in Terms
      /\ [t EXCEPT !.overflow = TRUE].state = t.state
    BY <1>1 DEF TermRecords, Terms, Idle
<1> QED BY <1>2, <1>3, <1>4

\* scte_param_digit and scte_param_push.
LEMMA ParamStep ==
    ASSUME NEW t \in Terms
    PROVE  /\ \A d \in 0 .. 2 :
                 DigitAdded(t, d) \in Terms /\ DigitAdded(t, d).state = t.state
           /\ Pushed(t) \in Terms /\ Pushed(t).state = t.state
<1>1. /\ t \in TermRecords /\ Idle(t) /\ t.params \in Seq(ParamValues)
      /\ Len(t.params) \in Nat /\ Len(t.params) <= MaxParams /\ t.cur \in ParamValues
    BY TermFields
<1>2. MaxParams \in Nat /\ MaxParamValue \in Nat BY TerminalAssumption
<1>3. /\ [t EXCEPT !.overflow = TRUE] \in Terms
      /\ [t EXCEPT !.overflow = TRUE].state = t.state
    BY CsiRegistersAre
<1>4. ASSUME NEW d \in 0 .. 2
      PROVE  DigitAdded(t, d) \in Terms /\ DigitAdded(t, d).state = t.state
  <2> DEFINE v == IF t.cur = Missing THEN 0 ELSE t.cur
             w == IF v > (MaxParamValue - d) \div 10 THEN MaxParamValue ELSE v * 10 + d
  <2>1. w \in ParamValues
    <3>1. v \in Nat BY <1>1 DEF ParamValues
    <3> HIDE DEF v
    <3>2. CASE v > (MaxParamValue - d) \div 10 BY <3>2, <1>2 DEF ParamValues
    <3>3. CASE ~(v > (MaxParamValue - d) \div 10)
      <4>1. v * 10 + d <= MaxParamValue BY <3>1, <3>3, <1>2
      <4> QED BY <3>1, <3>3, <4>1, <1>2 DEF ParamValues
    <3> QED BY <3>2, <3>3
  <2>2. DigitAdded(t, d) \in {t, [t EXCEPT !.overflow = TRUE], [t EXCEPT !.cur = w]}
      BY DEF DigitAdded
  <2> HIDE DEF w
  <2>3. [t EXCEPT !.cur = w] \in Terms /\ [t EXCEPT !.cur = w].state = t.state
      BY <2>1, <1>1 DEF TermRecords, Terms, Idle
  <2> QED BY <2>2, <2>3, <1>3
<1>5. Pushed(t) \in Terms /\ Pushed(t).state = t.state
  <2> DEFINE s == Append(t.params, t.cur)
             u == [t EXCEPT !.params = s, !.cur = Missing]
  <2>1. CASE ~t.overflow /\ ~(Len(t.params) >= MaxParams)
    <3>1. s \in {x \in Seq(ParamValues) : Len(x) <= MaxParams} BY <2>1, <1>1, <1>2
    <3>2. Missing \in ParamValues BY DEF ParamValues
    <3>3. Pushed(t) = u BY <2>1, <1>1 DEF Pushed, TermRecords
    <3> HIDE DEF s
    <3>4. u \in Terms /\ u.state = t.state
        BY <3>1, <3>2, <1>1 DEF TermRecords, Terms, Idle
    <3> QED BY <3>3, <3>4
  <2>2. CASE ~(~t.overflow /\ ~(Len(t.params) >= MaxParams))
    <3>1. Pushed(t) \in {t, [t EXCEPT !.overflow = TRUE]} BY <2>2 DEF Pushed
    <3> QED BY <3>1, <1>3
  <2> QED BY <2>1, <2>2
<1> QED BY <1>4, <1>5

\* The states of the parser, and what is saved and counted.
LEMMA StateStep ==
    ASSUME NEW t \in Terms
    PROVE  /\ \A x \in {"GROUND", "ESC", "CSI"} : t.state \notin OscStates =>
                 [t EXCEPT !.state = x] \in Terms /\ [t EXCEPT !.state = x].state = x
           /\ \A x \in OscStates :
                 [t EXCEPT !.state = x] \in Terms /\ [t EXCEPT !.state = x].state = x
           /\ CsiBegun(t) \in {u \in TermRecords : u.state = "CSI"}
           /\ t.state \notin OscStates => CsiBegun(t) \in Terms
           /\ OscBegun(t) \in Terms /\ ParserReset(t) \in Terms
           /\ [t EXCEPT !.osc = 0, !.oscOverflow = FALSE, !.state = "GROUND"] \in Terms
<1>1. t \in TermRecords /\ Idle(t) BY DEF Terms
<1>2. 0 \in 0 .. MaxOsc BY TerminalAssumption
<1>3. CsiReset(t) \in TermRecords /\ CsiReset(t) \in Terms /\ CsiReset(t).state = t.state
    BY CsiResetIs DEF Terms
<1>4. ASSUME NEW x \in {"GROUND", "ESC", "CSI"}, NEW u \in Terms, u.state \notin OscStates
      PROVE  [u EXCEPT !.state = x] \in Terms /\ [u EXCEPT !.state = x].state = x
    BY <1>4 DEF Terms, TermRecords, Idle
<1>5. ASSUME NEW x \in OscStates
      PROVE  [t EXCEPT !.state = x] \in Terms /\ [t EXCEPT !.state = x].state = x
    BY <1>1 DEF Terms, TermRecords, Idle, OscStates
<1>6. CsiBegun(t) \in {u \in TermRecords : u.state = "CSI"}
  <2> HIDE DEF CsiReset
  <2> QED BY <1>3 DEF CsiBegun, TermRecords
<1>7. OscBegun(t) \in Terms
    BY <1>1, <1>2 DEF OscBegun, Terms, TermRecords, Idle, OscStates
<1>8. ParserReset(t) \in Terms
  <2> DEFINE u == CsiReset(t)
  <2>1. u \in TermRecords BY <1>3
  <2>2. <<>> \in Carries BY DEF Carries
  <2>3. ParserReset(t) = [u EXCEPT !.carry = <<>>, !.osc = 0, !.oscOverflow = FALSE,
                                   !.state = "GROUND"]
      BY DEF ParserReset
  <2> HIDE DEF u
  <2> QED BY <2>1, <2>2, <2>3, <1>2 DEF Terms, TermRecords, Idle, OscStates
<1>9. [t EXCEPT !.osc = 0, !.oscOverflow = FALSE, !.state = "GROUND"] \in Terms
    BY <1>1, <1>2 DEF Terms, TermRecords, Idle, OscStates
<1> QED BY <1>3, <1>4, <1>5, <1>6, <1>7, <1>8, <1>9 DEF CsiBegun

LEMMA OscStep ==
    ASSUME NEW t \in Terms, t.state = "OSC"
    PROVE  LET u == IF t.osc < MaxOsc THEN [t EXCEPT !.osc = @ + 1]
                    ELSE [t EXCEPT !.oscOverflow = TRUE]
           IN  u \in Terms /\ u.state = "OSC"
<1>1. t \in TermRecords /\ t.osc \in 0 .. MaxOsc BY TermFields
<1>2. MaxOsc \in Nat BY TerminalAssumption
<1>3. t.osc < MaxOsc => t.osc + 1 \in 0 .. MaxOsc BY <1>1, <1>2
<1> QED BY <1>1, <1>3 DEF Terms, TermRecords, Idle, OscStates

LEMMA OtherRegisters ==
    ASSUME NEW t \in Terms, NEW c \in Carries, NEW r \in RowIds, NEW d \in 0 .. Cols,
           NEW v \in BOOLEAN
    PROVE  /\ [t EXCEPT !.carry = c] \in Terms /\ [t EXCEPT !.visible = v] \in Terms
           /\ [t EXCEPT !.savedRow = r, !.savedCol = d] \in Terms
           /\ [t EXCEPT !.carry = c].state = t.state
           /\ [t EXCEPT !.visible = v].state = t.state
           /\ [t EXCEPT !.savedRow = r, !.savedCol = d].state = t.state
<1>1. t \in TermRecords /\ Idle(t) BY DEF Terms
<1> QED BY <1>1 DEF Terms, TermRecords, Idle

-----------------------------------------------------------------------------
(* A byte.                                                                  *)

Events == {"none", "control", "quiet", "escape", "sequence", "mode", "unsupported",
           "directive", "text", "encoding_error"}
Snapshots == [t : Terms, p : Planes, e : Events, beyond : {"whole", "tail"},
              cut : BOOLEAN]

\* What a byte leads to: everything it changes is seen, and the pairs and the
\* records are kept unless it is known to disturb them.
Led(s, x) ==
    /\ x \in Snapshots /\ Seen(s.p, x.p)
    /\ s.cut => x.cut
    /\ x.cut \/ Kept(s.p, x.p)

Becoming(s, t, q, e) == [s EXCEPT !.t = t, !.p = q, !.e = e]

LEMMA LedBy ==
    ASSUME NEW s \in Snapshots, NEW t \in Terms, NEW q, Reached(s.p, q), NEW e \in Events
    PROVE  Led(s, Becoming(s, t, q, e))
<1> DEFINE x == Becoming(s, t, q, e)
<1>1. q \in Planes /\ Seen(s.p, q) /\ Kept(s.p, q) BY DEF Reached, Seen, Kept, Fair
<1>2. x \in Snapshots /\ x.p = q /\ x.cut = s.cut BY <1>1 DEF Snapshots, Becoming
<1> HIDE DEF x
<1> QED BY <1>1, <1>2 DEF Led, x

LEMMA SamePlaneReached ==
    ASSUME NEW p, Fair(p) PROVE Reached(p, p)
BY DEF Reached, Kept, SameRow

LEMMA LedInPlace ==
    ASSUME NEW s \in Snapshots, Fair(s.p), NEW t \in Terms, NEW e \in Events
    PROVE  Led(s, Becoming(s, t, s.p, e))
BY LedBy, SamePlaneReached

\* What comes after with the same plane.
LEMMA LedOn ==
    ASSUME NEW s, NEW x, Led(s, x), NEW y \in Snapshots, y.p = x.p, y.cut = x.cut
    PROVE  Led(s, y)
BY DEF Led

LEMMA QuietLed ==
    ASSUME NEW s \in Snapshots, Fair(s.p), NEW t \in Terms
    PROVE  Led(s, Quiet(s, t))
<1>1. Quiet(s, t) = Becoming(s, t, s.p, "quiet") BY DEF Quiet, Becoming, Snapshots
<1>2. "quiet" \in Events BY DEF Events
<1> QED BY <1>1, <1>2, LedInPlace

\* The status of a call is nothing that shows.
LEMMA AnsweredReached ==
    ASSUME NEW p, Fair(p), NEW q, Reached(p, q)
    PROVE  Reached(p, Answered(q))
<1> DEFINE x == Answered(q)
<1>1. Kept(p, q) /\ Fair(q) /\ q \in Planes BY DEF Reached, Kept, Fair
<1>2. /\ x \in Planes /\ x.cells = q.cells /\ x.recs = q.recs /\ x.row = q.row
      /\ x.dirty = q.dirty /\ x.dirtyAll = q.dirtyAll
    BY <1>1 DEF Answered, Planes, Statuses
<1> HIDE DEF x
<1>3. Kept(q, x) BY <1>1, <1>2, RegistersChange
<1>4. Kept(p, x) BY <1>1, <1>3, KeptKept
<1>5. ASSUME NEW r \in RowIds
      PROVE  /\ Dirty(p, r) => Dirty(x, r)
             /\ SameRow(p, x, r) \/ Dirty(x, r) \/ (r = p.row /\ x.row = r + 1)
  <2>1. Dirty(q, r) => Dirty(x, r) BY <1>2 DEF Dirty
  <2>2. SameRow(p, q, r) => SameRow(p, x, r) BY <1>2 DEF SameRow, Recs
  <2> QED BY <1>2, <2>1, <2>2 DEF Reached
<1> QED BY <1>4, <1>5 DEF Reached, x

LEMMA ControlEffectIs ==
    ASSUME NEW p, Fair(p), NEW b PROVE Reached(p, ControlEffect(p, b))
<1>1. p \in Planes /\ p.col \in 0 .. Cols BY PlaneFields DEF Fair
<1>2. CASE b = "BS"
  <2> DEFINE c == IF p.col > 0 THEN p.col - 1 ELSE 0
  <2>1. ControlEffect(p, b) = [p EXCEPT !.col = c]
      BY <1>1, <1>2 DEF ControlEffect, SteppedBack, Planes
  <2>2. c \in 0 .. Cols BY <1>1, ConsoleAssumption
  <2> HIDE DEF c
  <2>3. Reached(p, [p EXCEPT !.col = c])
    <3>1. 0 \in RowIds BY ConsoleAssumption DEF RowIds
    <3> QED BY <2>2, <3>1, MovedTo
  <2> QED BY <2>1, <2>3
<1>3. CASE b = "HT" BY <1>3, TabbedIs, AnsweredReached DEF ControlEffect
<1>4. CASE b = "LF"
  <2>1. Reached(p, Newline(p)) BY NewlineIs, GrownIsReached
  <2> QED BY <2>1, <1>4 DEF ControlEffect
<1>5. CASE b = "CR"
  <2>1. 0 \in RowIds /\ 0 \in 0 .. Cols BY ConsoleAssumption DEF RowIds
  <2>2. Reached(p, [p EXCEPT !.col = 0]) BY <2>1, MovedTo
  <2> QED BY <2>2, <1>5 DEF ControlEffect, Returned
<1>6. CASE b \notin {"BS", "HT", "LF", "CR"}
  <2>1. ControlEffect(p, b) = p BY <1>6 DEF ControlEffect
  <2> QED BY <2>1, SamePlaneReached
<1> QED BY <1>2, <1>3, <1>4, <1>5, <1>6

\* scte_control
LEMMA ControlLed ==
    ASSUME NEW s \in Snapshots, Fair(s.p), s.t.state \notin OscStates, NEW b
    PROVE  Led(s, Control(s, b))
<1> DEFINE t == [s.t EXCEPT !.state = IF b = "ESC" THEN "ESC" ELSE @]
           q == ControlEffect(s.p, b)
<1>1. s.t \in Terms BY DEF Snapshots
<1>2. t \in Terms
  <2>1. b # "ESC" => t = s.t BY <1>1 DEF Terms, TermRecords
  <2>2. b = "ESC" => t = [s.t EXCEPT !.state = "ESC"] OBVIOUS
  <2> HIDE DEF t
  <2> QED BY <2>1, <2>2, <1>1, StateStep
<1>3. Reached(s.p, q) BY ControlEffectIs
<1>4. Control(s, b) = Becoming(s, t, q, "control")
    BY <1>1 DEF Control, Becoming, Snapshots, Terms, TermRecords
<1>5. "control" \in Events BY DEF Events
<1> HIDE DEF t, q
<1> QED BY <1>2, <1>3, <1>4, <1>5, LedBy

\* scte_place_cp
LEMMA PlaceCpLed ==
    ASSUME NEW s \in Snapshots, Fair(s.p), NEW k \in Clusters \cup {"SCP", "inadmissible"}
    PROVE  Led(s, PlaceCp(s, k))
<1>1. s.t \in Terms /\ s.p \in Planes /\ "E_CLUSTER" \in Statuses
    BY DEF Snapshots, Statuses
<1>2. CASE k \in {"SCP", "inadmissible"}
  <2> DEFINE e == IF k = "SCP" THEN "directive" ELSE "unsupported"
  <2>1. PlaceCp(s, k) = Becoming(s, s.t, s.p, e)
      BY <1>2 DEF PlaceCp, Placed, Becoming, Snapshots
  <2>2. e \in Events BY DEF Events
  <2> HIDE DEF e
  <2> QED BY <2>1, <2>2, <1>1, LedInPlace
<1>3. CASE k \notin {"SCP", "inadmissible"}
  <2> DEFINE q == IF Width[k] = 0 THEN [s.p EXCEPT !.status = "E_CLUSTER"]
                  ELSE PlaceOrWrap(s.p, k)
             w == [q EXCEPT !.writes = @ + 1]
  <2>1. k \in Clusters /\ Width[k] \in 0 .. 2 BY <1>3, ConsoleAssumption
  <2>2. Reached(s.p, q)
    <3>1. CASE Width[k] = 0
      <4> DEFINE x == [s.p EXCEPT !.status = "E_CLUSTER"]
      <4>1. /\ x \in Planes /\ x.cells = s.p.cells /\ x.recs = s.p.recs
            /\ x.dirty = s.p.dirty /\ x.dirtyAll = s.p.dirtyAll
          BY <1>1 DEF Planes
      <4>2. q = x BY <3>1
      <4> HIDE DEF x, q
      <4> QED BY <4>1, <4>2, RegistersReached
    <3>2. CASE Width[k] # 0
      <4>1. q = PlaceOrWrap(s.p, k) /\ Width[k] > 0 BY <3>2, <2>1
      <4> HIDE DEF q
      <4> QED BY <4>1, <2>1, WriteReaches
    <3> QED BY <3>1, <3>2
  <2>3. q.status = "OK" => Reached(s.p, w)
    <3>1. CASE Width[k] = 0
      <4>1. q = [s.p EXCEPT !.status = "E_CLUSTER"] BY <3>1
      <4>2. q.status # "OK" BY <4>1, <1>1 DEF Planes
      <4> QED BY <4>2
    <3>2. CASE Width[k] # 0
      <4>1. w = [PlaceOrWrap(s.p, k) EXCEPT !.writes = @ + 1] /\ Width[k] > 0
          BY <3>2, <2>1
      <4> HIDE DEF w
      <4> QED BY <4>1, <2>1, WriteReaches
    <3> QED BY <3>1, <3>2
  <2>4. PlaceCp(s, k) = IF q.status = "OK" THEN [s EXCEPT !.p = w, !.e = "text"]
                        ELSE [s EXCEPT !.p = Answered(q), !.e = "unsupported"]
      BY <1>3 DEF PlaceCp, Placed
  <2> HIDE DEF q, w
  <2>5. CASE q.status = "OK"
    <3>1. PlaceCp(s, k) = Becoming(s, s.t, w, "text")
        BY <2>4, <2>5 DEF Snapshots, Becoming
    <3>2. "text" \in Events BY DEF Events
    <3> QED BY <3>1, <3>2, <1>1, <2>3, <2>5, LedBy
  <2>6. CASE q.status # "OK"
    <3>1. PlaceCp(s, k) = Becoming(s, s.t, Answered(q), "unsupported")
        BY <2>4, <2>6 DEF Snapshots, Becoming
    <3>2. "unsupported" \in Events BY DEF Events
    <3>3. Reached(s.p, Answered(q)) BY <2>2, AnsweredReached
    <3> QED BY <3>1, <3>2, <1>1, <3>3, LedBy
  <2> QED BY <2>5, <2>6
<1> QED BY <1>2, <1>3

\* The carry grows until its lead has all its bytes.
LEMMA CarryIs ==
    ASSUME NEW c \in Carries, c # <<>>, NEW b \in Conts
    PROVE  /\ Len(Append(c, b)) # LeadLength[Append(c, b)[1]] => Append(c, b) \in Carries
           /\ Len(Append(c, b)) = LeadLength[Append(c, b)[1]] =>
                 Append(c, b) \in Encoded(c[1])
           /\ c[1] \in DOMAIN LeadLength
<1> DEFINE a == Append(c, b)
           n == Len(c)
<1>1. /\ c \in Seq(DOMAIN LeadLength \cup Conts) /\ n \in Nat \ {0}
      /\ c[1] \in DOMAIN LeadLength /\ n < LeadLength[c[1]]
      /\ \A i \in 2 .. n : c[i] \in Conts
    BY DEF Carries
<1>2. LeadLength[c[1]] \in Nat \ {0, 1} BY <1>1, TerminalAssumption
<1>3. /\ a \in Seq(DOMAIN LeadLength \cup Conts) /\ Len(a) = n + 1 /\ a[1] = c[1]
      /\ DOMAIN a = 1 .. n + 1
      /\ \A i \in 1 .. n + 1 : a[i] = IF i = n + 1 THEN b ELSE c[i]
    BY <1>1
<1> HIDE DEF a, n
<1>4. \A i \in 2 .. n + 1 : a[i] \in Conts BY <1>1, <1>3
<1>5. ASSUME Len(a) # LeadLength[a[1]] PROVE a \in Carries
  <2>1. Len(a) < LeadLength[a[1]] /\ a # <<>> BY <1>1, <1>2, <1>3, <1>5
  <2> QED BY <2>1, <1>1, <1>3, <1>4 DEF Carries
<1>6. ASSUME Len(a) = LeadLength[a[1]] PROVE a \in Encoded(c[1])
  <2>1. LeadLength[c[1]] = n + 1 BY <1>3, <1>6
  <2>2. a \in [1 .. n + 1 -> {c[1]} \cup Conts]
    <3>1. \A i \in 1 .. n + 1 : a[i] \in {c[1]} \cup Conts BY <1>1, <1>3, <1>4
    <3>2. a = [i \in DOMAIN a |-> a[i]] BY <1>3
    <3> QED BY <3>1, <3>2, <1>3
  <2> QED BY <2>1, <2>2, <1>3, <1>4 DEF Encoded
<1> QED BY <1>1, <1>5, <1>6 DEF a

\* scte_ground_byte
LEMMA GroundLed ==
    ASSUME NEW s \in Snapshots, Fair(s.p), s.t.state \notin OscStates, NEW b
    PROVE  Led(s, GroundByte(s, b))
<1> DEFINE c == s.t.carry
           a == Append(c, b)
           whole == Len(a) = LeadLength[a[1]]
           done == [s EXCEPT !.t.carry = <<>>]
           set(x) == [s.t EXCEPT !.carry = x]
<1>1. s.t \in Terms /\ c \in Carries /\ <<>> \in Carries
    BY TermFields DEF Snapshots, Carries
<1>2. ASSUME NEW x \in Carries PROVE set(x) \in Terms
  <2>1. s.t.savedRow \in RowIds /\ s.t.savedCol \in 0 .. Cols BY <1>1, TermFields
  <2> QED BY <2>1, <1>1, OtherRegisters
<1>3. ASSUME NEW x \in Carries
      PROVE  Led(s, Quiet(s, [s.t EXCEPT !.carry = x]))
    BY <1>2, QuietLed
<1>4. Led(s, EncodingError(s))
  <2>1. EncodingError(s) = Becoming(s, set(<<>>), s.p, "encoding_error")
      BY DEF EncodingError, Becoming, Snapshots
  <2>2. "encoding_error" \in Events /\ set(<<>>) \in Terms BY <1>1, <1>2 DEF Events
  <2> HIDE DEF set
  <2> QED BY <2>1, <2>2, LedInPlace
<1>5. CASE c = <<>>
  <2>1. GroundByte(s, b) =
            CASE b \in C0 -> Control(s, b)
              [] b \in DOMAIN Letter -> PlaceCp(s, Letter[b])
              [] b \in DOMAIN LeadLength -> Quiet(s, [s.t EXCEPT !.carry = <<b>>])
              [] OTHER -> EncodingError(s)
      BY <1>5 DEF GroundByte
  <2>2. b \in C0 => Led(s, Control(s, b)) BY ControlLed
  <2>3. b \in DOMAIN Letter => Led(s, PlaceCp(s, Letter[b]))
      BY PlaceCpLed, TerminalAssumption
  <2>4. b \in DOMAIN LeadLength => Led(s, Quiet(s, [s.t EXCEPT !.carry = <<b>>]))
    <3> SUFFICES ASSUME b \in DOMAIN LeadLength PROVE <<b>> \in Carries BY <1>3
    <3>1. LeadLength[b] \in Nat \ {0, 1} BY TerminalAssumption
    <3> QED BY <3>1 DEF Carries
  <2> QED BY <2>1, <2>2, <2>3, <2>4, <1>4
<1>6. CASE c # <<>>
  <2>1. GroundByte(s, b) =
            CASE b \notin Conts -> EncodingError(s)
              [] b \in Conts /\ ~whole -> Quiet(s, [s.t EXCEPT !.carry = a])
              [] OTHER -> IF Decode[a] = "malformed" THEN EncodingError(s)
                          ELSE PlaceCp(done, Decode[a])
      BY <1>6 DEF GroundByte
  <2>2. ASSUME b \in Conts, ~whole PROVE Led(s, Quiet(s, [s.t EXCEPT !.carry = a]))
    <3>1. a \in Carries BY <2>2, <1>1, <1>6, CarryIs
    <3> QED BY <3>1, <1>3
  <2>3. ASSUME b \in Conts, whole, Decode[a] # "malformed"
        PROVE  Led(s, PlaceCp(done, Decode[a]))
    <3>1. a \in Encoded(c[1]) /\ c[1] \in DOMAIN LeadLength
        BY <2>3, <1>1, <1>6, CarryIs
    <3>2. Decode[a] \in Clusters \cup {"SCP", "inadmissible", "malformed"}
        BY <3>1, TerminalAssumption
    <3>3. done = [s EXCEPT !.t = set(<<>>)] BY DEF Snapshots
    <3> DEFINE k == Decode[a]
    <3>4. k \in Clusters \cup {"SCP", "inadmissible"} BY <3>2, <2>3
    <3> HIDE DEF k, set
    <3>5. done \in Snapshots /\ done.p = s.p /\ done.cut = s.cut
        BY <3>3, <1>1, <1>2 DEF Snapshots
    <3> HIDE DEF done
    <3>6. Led(done, PlaceCp(done, k)) BY <3>4, <3>5, PlaceCpLed
    <3> QED BY <3>5, <3>6 DEF Led, k
  <2> HIDE DEF a, done, whole
  <2> QED BY <2>1, <2>2, <2>3, <1>4
<1> QED BY <1>5, <1>6

\* scte_mode
LEMMA SetModesLed ==
    ASSUME NEW s \in Snapshots, Fair(s.p), NEW on \in BOOLEAN
    PROVE  /\ Led(s, SetModes(s, on)) /\ SetModes(s, on).t \in Terms
           /\ SetModes(s, on).t.state = s.t.state
<1> DEFINE values == {Param(s.t, i, 0) : i \in DOMAIN s.t.params}
           w == IF AutowrapMode \in values THEN on ELSE s.p.wrap
           v == IF CursorMode \in values THEN on ELSE s.t.visible
           e == IF values # {} /\ values \subseteq {AutowrapMode, CursorMode}
                THEN "mode" ELSE "unsupported"
           q == [s.p EXCEPT !.wrap = w]
           t == [s.t EXCEPT !.visible = v]
<1>1. s.t \in Terms /\ s.p \in Planes /\ s.p.wrap \in BOOLEAN /\ s.t.visible \in BOOLEAN
    BY TermFields, PlaneFields DEF Snapshots
<1>2. w \in BOOLEAN /\ v \in BOOLEAN BY <1>1
<1>3. e \in Events BY DEF Events
<1>4. SetModes(s, on) = [s EXCEPT !.p.wrap = w, !.t.visible = v, !.e = e]
    BY <1>1 DEF SetModes, Snapshots, Planes, Terms, TermRecords
<1> HIDE DEF w, v, e
<1>5. SetModes(s, on) = Becoming(s, t, q, e)
    BY <1>4 DEF Becoming, Snapshots
<1>6. t \in Terms /\ t.state = s.t.state
  <2>1. s.t.carry \in Carries /\ s.t.savedRow \in RowIds /\ s.t.savedCol \in 0 .. Cols
      BY <1>1, TermFields
  <2> QED BY <2>1, <1>1, <1>2, OtherRegisters
<1>7. Reached(s.p, q)
  <2>1. /\ q \in Planes /\ q.cells = s.p.cells /\ q.recs = s.p.recs
        /\ q.dirty = s.p.dirty /\ q.dirtyAll = s.p.dirtyAll
      BY <1>1, <1>2 DEF Planes
  <2> HIDE DEF q
  <2> QED BY <2>1, RegistersReached
<1>8. Becoming(s, t, q, e).t = t BY DEF Becoming, Snapshots
<1> HIDE DEF t, q
<1>9. Led(s, Becoming(s, t, q, e)) BY <1>3, <1>6, <1>7, LedBy
<1> QED BY <1>5, <1>6, <1>8, <1>9

LEMMA ExecutedLed ==
    ASSUME NEW s \in Snapshots, Fair(s.p), NEW b \in Executable
    PROVE  Led(s, Executed(s, b)) /\ Executed(s, b).t = s.t
<1> DEFINE q == SequenceEffect(s.p, s.t, b, s.beyond)
           d == Disturbs(s.p, s.t, b)
           x == Executed(s, b)
<1>1. s.t \in Terms /\ s.t.params \in Seq(ParamValues) /\ s.cut \in BOOLEAN
    BY TermFields DEF Snapshots
<1>2. Seen(s.p, q) /\ (d \/ Reached(s.p, q)) BY <1>1, SequenceEffectIs
<1>3. d \in BOOLEAN BY DEF Disturbs
<1>4. x = [s EXCEPT !.p = q, !.e = "sequence", !.cut = s.cut \/ d]
    BY DEF Executed, Snapshots
<1> HIDE DEF q, d
<1>5. q \in Planes /\ "sequence" \in Events /\ (s.cut \/ d) \in BOOLEAN
    BY <1>1, <1>2, <1>3 DEF Seen, Fair, Events
<1>6. x \in Snapshots /\ x.p = q /\ x.t = s.t /\ (x.cut <=> s.cut \/ d)
    BY <1>1, <1>3, <1>4, <1>5 DEF Snapshots
<1> HIDE DEF x
<1> QED BY <1>1, <1>2, <1>6 DEF Led, Reached, x

\* scte_execute_csi
LEMMA ExecuteCsiLed ==
    ASSUME NEW s \in Snapshots, Fair(s.p), NEW b
    PROVE  /\ Led(s, ExecuteCsi(s, b)) /\ ExecuteCsi(s, b).t \in Terms
           /\ ExecuteCsi(s, b).t.state = s.t.state
<1> DEFINE u == [s EXCEPT !.e = "unsupported"]
<1>1. s.t \in Terms BY DEF Snapshots
<1>2. Led(s, u) /\ u.t = s.t
  <2>1. u = Becoming(s, s.t, s.p, "unsupported") BY DEF Becoming, Snapshots
  <2>2. "unsupported" \in Events BY DEF Events
  <2>3. u.t = s.t BY DEF Snapshots
  <2> HIDE DEF u
  <2> QED BY <2>1, <2>2, <2>3, <1>1, LedInPlace
<1>3. CASE b \in {"h", "l"}
  <2> DEFINE on == b = "h"
  <2>1. on \in BOOLEAN OBVIOUS
  <2>2. ExecuteCsi(s, b) = IF ~s.t.overflow /\ s.t.prefix = "?" THEN SetModes(s, on) ELSE u
      BY <1>3 DEF ExecuteCsi, Executable
  <2> HIDE DEF on, u
  <2> QED BY <2>1, <2>2, <1>1, <1>2, SetModesLed
<1>4. CASE b \notin {"h", "l"}
  <2>1. ExecuteCsi(s, b) = IF ~s.t.overflow /\ s.t.prefix = None /\ b \in Executable
                           THEN Executed(s, b) ELSE u
      BY <1>4 DEF ExecuteCsi
  <2> HIDE DEF u
  <2> QED BY <2>1, <1>1, <1>2, ExecutedLed
<1> QED BY <1>3, <1>4

\* Back to the ground state with the registers of the sequence reset.
Forgotten(x, e) == Grounded([x EXCEPT !.t = CsiReset(@), !.e = e])

LEMMA ForgottenLed ==
    ASSUME NEW s, NEW x, Led(s, x), x.t.state \notin OscStates, NEW e \in Events
    PROVE  LET y == Forgotten(x, e)
           IN  Led(s, y) /\ y.t = [CsiReset(x.t) EXCEPT !.state = "GROUND"]
               /\ y.e = e /\ y.p = x.p
<1> DEFINE t == [CsiReset(x.t) EXCEPT !.state = "GROUND"]
           y == Forgotten(x, e)
<1>1. x \in Snapshots /\ x.t \in Terms BY DEF Led, Snapshots
<1>2. CsiReset(x.t) \in Terms /\ CsiReset(x.t).state = x.t.state BY <1>1, CsiResetIs
<1>3. t \in Terms BY <1>2, StateStep
<1>4. y = [x EXCEPT !.t = t, !.e = e] BY <1>1 DEF Forgotten, Grounded, Snapshots
<1> HIDE DEF t
<1>5. y \in Snapshots /\ y.p = x.p /\ y.cut = x.cut /\ y.t = t /\ y.e = e
    BY <1>1, <1>3, <1>4 DEF Snapshots
<1> HIDE DEF y
<1> QED BY <1>5, LedOn DEF t, y

\* scte_csi_byte, for a final byte: the last parameter is pushed, and the
\* sequence is executed and forgotten.
Ended(s, b) ==
    Grounded([ExecuteCsi([s EXCEPT !.t = IF HasParams(s.t) THEN Pushed(s.t) ELSE s.t], b)
                 EXCEPT !.t = CsiReset(@)])

LEMMA FinalLed ==
    ASSUME NEW s \in Snapshots, Fair(s.p), s.t.state \notin OscStates, NEW b
    PROVE  Led(s, Ended(s, b))
<1> DEFINE t == IF HasParams(s.t) THEN Pushed(s.t) ELSE s.t
           u == [s EXCEPT !.t = t]
           v == ExecuteCsi(u, b)
           y == Grounded([v EXCEPT !.t = CsiReset(@)])
<1>1. s.t \in Terms BY DEF Snapshots
<1>2. t \in Terms /\ t.state = s.t.state BY <1>1, ParamStep
<1> HIDE DEF t
<1>3. u \in Snapshots /\ u.p = s.p /\ u.cut = s.cut /\ u.t = t BY <1>2 DEF Snapshots
<1> HIDE DEF u
<1>4. Led(u, v) /\ v.t \in Terms /\ v.t.state = s.t.state BY <1>2, <1>3, ExecuteCsiLed
<1> HIDE DEF v
<1>5. Led(s, v) BY <1>3, <1>4 DEF Led
<1>6. v \in Snapshots /\ v.e \in Events BY <1>5 DEF Led, Snapshots
<1>7. y = Forgotten(v, v.e) BY <1>6 DEF Snapshots, Grounded, Forgotten
<1>8. v.t.state \notin OscStates BY <1>4
<1> HIDE DEF y
<1>9. Led(s, y) BY <1>5, <1>6, <1>7, <1>8, ForgottenLed
<1> QED BY <1>9 DEF Ended, t, u, v, y

LEMMA CsiByteIs ==
    ASSUME NEW s, NEW b
    PROVE  CsiByte(s, b) =
             IF b \in C0 THEN Control(s, b)
             ELSE IF b \in Privates \cup {"!"} /\ Fresh(s.t)
             THEN Quiet(s, [s.t EXCEPT !.prefix = b])
             ELSE IF b \in OtherParamBytes \cup (IF Fresh(s.t) THEN {} ELSE Privates)
             THEN Quiet(s, [s.t EXCEPT !.overflow = TRUE])
             ELSE IF b \in DOMAIN Digits THEN Quiet(s, DigitAdded(s.t, Digits[b]))
             ELSE IF b \in Separators THEN Quiet(s, Pushed(s.t))
             ELSE IF b \in Intermediates /\ ~(b = "!" /\ Fresh(s.t))
             THEN Quiet(s, IF s.t.intermediate = None
                           THEN [s.t EXCEPT !.intermediate = b]
                           ELSE [s.t EXCEPT !.overflow = TRUE])
             ELSE IF b \in Finals THEN Ended(s, b)
             ELSE Forgotten(s, "unsupported")
BY ZenonT(60)
   DEF CsiByte, Ended, Forgotten, C0, Privates, OtherParamBytes, Digits, Separators,
       Intermediates, Finals

LEMMA CsiLed ==
    ASSUME NEW s \in Snapshots, Fair(s.p), s.t.state \notin OscStates, NEW b
    PROVE  Led(s, CsiByte(s, b))
<1> DEFINE u == Forgotten(s, "unsupported")
<1>1. s.t \in Terms BY DEF Snapshots
<1>2. Led(s, Control(s, b)) BY ControlLed
<1>3. b \in Privates \cup {"!"} => Led(s, Quiet(s, [s.t EXCEPT !.prefix = b]))
    BY <1>1, CsiRegistersAre, QuietLed
<1>4. Led(s, Quiet(s, [s.t EXCEPT !.overflow = TRUE]))
    BY <1>1, CsiRegistersAre, QuietLed
<1>5. b \in DOMAIN Digits => Led(s, Quiet(s, DigitAdded(s.t, Digits[b])))
  <2> SUFFICES ASSUME b \in DOMAIN Digits
               PROVE  Led(s, Quiet(s, DigitAdded(s.t, Digits[b])))
      OBVIOUS
  <2>1. Digits[b] \in 0 .. 2 BY DEF Digits
  <2> HIDE DEF Digits
  <2> QED BY <2>1, <1>1, ParamStep, QuietLed
<1>6. Led(s, Quiet(s, Pushed(s.t))) BY <1>1, ParamStep, QuietLed
<1>7. b \in Intermediates =>
          Led(s, Quiet(s, IF s.t.intermediate = None THEN [s.t EXCEPT !.intermediate = b]
                          ELSE [s.t EXCEPT !.overflow = TRUE]))
  <2>1. b \in Intermediates => Led(s, Quiet(s, [s.t EXCEPT !.intermediate = b]))
      BY <1>1, CsiRegistersAre, QuietLed
  <2> QED BY <2>1, <1>4
<1>8. Led(s, Ended(s, b)) BY FinalLed
<1>9. Led(s, u)
  <2>1. "unsupported" \in Events /\ s.e \in Events BY DEF Events, Snapshots
  <2>2. Led(s, Becoming(s, s.t, s.p, s.e)) BY <2>1, <1>1, LedInPlace
  <2>3. Becoming(s, s.t, s.p, s.e) = s BY DEF Becoming, Snapshots
  <2>4. Led(s, s) BY <2>2, <2>3
  <2> QED BY <2>1, <2>4, ForgottenLed
<1> HIDE DEF u
<1>10. \/ CsiByte(s, b) \in {Control(s, b), Quiet(s, [s.t EXCEPT !.overflow = TRUE]),
                             Quiet(s, Pushed(s.t)), Ended(s, b), u}
       \/ /\ b \in Privates \cup {"!"}
          /\ CsiByte(s, b) = Quiet(s, [s.t EXCEPT !.prefix = b])
       \/ b \in DOMAIN Digits /\ CsiByte(s, b) = Quiet(s, DigitAdded(s.t, Digits[b]))
       \/ /\ b \in Intermediates
          /\ CsiByte(s, b) =
                Quiet(s, IF s.t.intermediate = None THEN [s.t EXCEPT !.intermediate = b]
                         ELSE [s.t EXCEPT !.overflow = TRUE])
    BY CsiByteIs DEF u
<1> QED BY <1>2, <1>3, <1>4, <1>5, <1>6, <1>7, <1>8, <1>9, <1>10

\* Escape sequences on the plane.
LEMMA EscapeReaches ==
    ASSUME NEW p, Fair(p)
    PROVE  /\ Reached(p, Newline(p)) /\ Reached(p, Newline(Returned(p)))
           /\ Reached(p, ReverseIndex(p)) /\ Reached(p, Cleaned(p))
<1>1. /\ p \in Planes /\ p.row \in RowIds /\ p.col \in 0 .. Cols
      /\ 0 \in RowIds /\ 0 \in 0 .. Cols
    BY PlaneFields, ConsoleAssumption DEF Fair, RowIds
<1>2. Reached(p, Newline(p)) BY NewlineIs, GrownIsReached
<1>3. Reached(p, Newline(Returned(p)))
  <2> DEFINE x == Returned(p)
             y == Newline(x)
  <2>1. Reached(p, x)
    <3>1. Reached(p, [p EXCEPT !.col = 0]) BY <1>1, MovedTo
    <3> QED BY <3>1 DEF Returned
  <2>2. /\ x.cells = p.cells /\ x.recs = p.recs /\ x.row = p.row
        /\ x.dirty = p.dirty /\ x.dirtyAll = p.dirtyAll
      BY <1>1 DEF Returned, Planes
  <2> HIDE DEF x
  <2>3. Fair(x) /\ Kept(p, x) BY <2>1 DEF Reached, Kept
  <2>4. Reached(x, y) BY <2>3, NewlineIs, GrownIsReached
  <2> HIDE DEF y
  <2>5. Kept(p, y) BY <2>3, <2>4, KeptKept DEF Reached
  <2>6. \A r \in RowIds : /\ Dirty(p, r) <=> Dirty(x, r)
                          /\ SameRow(p, y, r) <=> SameRow(x, y, r)
      BY <2>2 DEF Dirty, SameRow, Recs
  <2>7. Reached(p, y) BY <2>2, <2>4, <2>5, <2>6 DEF Reached
  <2> QED BY <2>7 DEF x, y
<1>4. CASE p.row > 0
  <2> DEFINE r == p.row - 1
  <2>1. r \in RowIds BY <1>1, <1>4, ConsoleAssumption DEF RowIds
  <2>2. ReverseIndex(p) = [p EXCEPT !.row = r] BY <1>1, <1>4 DEF Planes, ReverseIndex
  <2> HIDE DEF r
  <2>3. Reached(p, [p EXCEPT !.row = r]) BY <2>1, <1>1, MovedTo
  <2> QED BY <2>2, <2>3, <1>2, <1>3, CleanedIs, <1>1
<1>5. CASE ~(p.row > 0)
  <2>1. Reached(p, RowsDown(p, 0, 1)) BY <1>1, RowsDownIs
  <2>2. ReverseIndex(p) = RowsDown(p, 0, 1) BY <1>5 DEF ReverseIndex
  <2> QED BY <2>1, <2>2, <1>2, <1>3, CleanedIs, <1>1
<1> QED BY <1>4, <1>5

\* scte_esc_dispatch, one kind of byte after the other.
EscOnPlane(s, b) ==
    CASE b = "8" -> ToCol(ToRow(s.p, s.t.savedRow), s.t.savedCol)
      [] b = "D" -> Newline(s.p)
      [] b = "E" -> Newline(Returned(s.p))
      [] b = "M" -> ReverseIndex(s.p)
      [] b = "c" -> Cleaned(s.p)

EscOnTerm(s, b) ==
    IF b = "c" THEN ParserReset(s.t)
    ELSE IF b = "7"
    THEN [[s.t EXCEPT !.savedRow = s.p.row, !.savedCol = s.p.col] EXCEPT !.state = "GROUND"]
    ELSE [s.t EXCEPT !.state = "GROUND"]

LEMMA EscByteIs ==
    ASSUME NEW s \in Snapshots, NEW b
    PROVE  EscByte(s, b) =
             IF b = "[" THEN Quiet(s, CsiBegun(s.t))
             ELSE IF b = "]" THEN Quiet(s, OscBegun(s.t))
             ELSE IF b = "\\" THEN Quiet(s, [s.t EXCEPT !.state = "GROUND"])
             ELSE IF b = "ESC" THEN Quiet(s, s.t)
             ELSE IF b \in C0 THEN Control(s, b)
             ELSE IF b \in {"8", "D", "E", "M", "c"}
             THEN Becoming(s, EscOnTerm(s, b), EscOnPlane(s, b), "escape")
             ELSE IF b = "7" THEN Becoming(s, EscOnTerm(s, b), s.p, "escape")
             ELSE Becoming(s, [s.t EXCEPT !.state = "GROUND"], s.p, "unsupported")
<1>1. s.t \in TermRecords BY DEF Snapshots, Terms
<1>2. CASE b \in {"[", "]", "\\"} \cup C0
  <2> HIDE DEF Quiet
  <2>1. b # "\\" => EscByte(s, b) =
             IF b = "[" THEN Quiet(s, CsiBegun(s.t))
             ELSE IF b = "]" THEN Quiet(s, OscBegun(s.t))
             ELSE IF b = "ESC" THEN Quiet(s, s.t)
             ELSE Control(s, b)
      BY <1>2 DEF EscByte, C0
  <2>2. b = "\\" => EscByte(s, b) = Quiet(s, [s.t EXCEPT !.state = "GROUND"])
    <3>1. Quiet(Grounded(s), [s.t EXCEPT !.state = "GROUND"]) =
              Quiet(s, [s.t EXCEPT !.state = "GROUND"])
        BY DEF Quiet, Grounded, Snapshots
    <3> QED BY <3>1 DEF EscByte, C0
  <2> QED BY <2>1, <2>2, <1>2 DEF C0
<1>3. CASE b \in {"8", "D", "E", "M"}
  <2>1. EscByte(s, b) = Grounded([s EXCEPT !.p = EscOnPlane(s, b), !.e = "escape"])
    <3>1. CASE b = "8" BY <3>1 DEF EscByte, EscOnPlane, C0, Snapshots
    <3>2. CASE b = "D" BY <3>2 DEF EscByte, EscOnPlane, C0, Snapshots
    <3>3. CASE b = "E" BY <3>3 DEF EscByte, EscOnPlane, C0, Snapshots
    <3>4. CASE b = "M" BY <3>4 DEF EscByte, EscOnPlane, C0, Snapshots
    <3> QED BY <3>1, <3>2, <3>3, <3>4, <1>3
  <2>2. EscOnTerm(s, b) = [s.t EXCEPT !.state = "GROUND"] BY <1>3 DEF EscOnTerm
  <2>3. EscByte(s, b) = Becoming(s, EscOnTerm(s, b), EscOnPlane(s, b), "escape")
      BY <2>1, <2>2 DEF Becoming, Grounded, Snapshots
  <2> QED BY <2>3, <1>3 DEF C0
<1>4. CASE b = "c"
  <2>1. EscByte(s, b) = Becoming(s, EscOnTerm(s, b), EscOnPlane(s, b), "escape")
      BY <1>4 DEF EscByte, EscOnTerm, EscOnPlane, Becoming, C0, Snapshots
  <2> QED BY <2>1, <1>4 DEF C0
<1>5. CASE b = "7"
  <2>1. EscByte(s, b) = Grounded([s EXCEPT !.t.savedRow = s.p.row,
                                           !.t.savedCol = s.p.col, !.e = "escape"])
      BY <1>5 DEF EscByte, C0
  <2>2. EscByte(s, b) = Becoming(s, EscOnTerm(s, b), s.p, "escape")
      BY <2>1, <1>1, <1>5 DEF EscOnTerm, Becoming, Grounded, Snapshots, TermRecords
  <2> QED BY <2>2, <1>5 DEF C0
<1>6. CASE b \notin {"[", "]", "\\", "8", "D", "E", "M", "c", "7"} \cup C0
  <2>1. EscByte(s, b) = Grounded([s EXCEPT !.e = "unsupported"])
      BY <1>6 DEF EscByte, C0
  <2>2. EscByte(s, b) = Becoming(s, [s.t EXCEPT !.state = "GROUND"], s.p, "unsupported")
      BY <2>1 DEF Becoming, Grounded, Snapshots
  <2> QED BY <2>2, <1>6 DEF C0
<1> QED BY <1>2, <1>3, <1>4, <1>5, <1>6

LEMMA EscLed ==
    ASSUME NEW s \in Snapshots, Fair(s.p), s.t.state \notin OscStates, NEW b
    PROVE  Led(s, EscByte(s, b))
<1>1. /\ s.t \in Terms /\ s.p \in Planes /\ s.t.carry \in Carries /\ s.t.visible \in BOOLEAN
      /\ s.t.savedRow \in RowIds /\ s.t.savedCol \in 0 .. Cols
    BY TermFields DEF Snapshots
<1>2. /\ Led(s, Quiet(s, CsiBegun(s.t))) /\ Led(s, Quiet(s, OscBegun(s.t)))
      /\ Led(s, Quiet(s, s.t)) /\ Led(s, Quiet(s, [s.t EXCEPT !.state = "GROUND"]))
    BY <1>1, StateStep, QuietLed
<1>3. Led(s, Control(s, b)) BY ControlLed
<1>4. EscOnTerm(s, b) \in Terms
  <2> DEFINE t == [s.t EXCEPT !.savedRow = s.p.row, !.savedCol = s.p.col]
  <2>1. t \in Terms /\ t.state = s.t.state
    <3>1. s.p.row \in RowIds /\ s.p.col \in 0 .. Cols BY <1>1, PlaneFields
    <3>2. s.t \in TermRecords /\ Idle(s.t) BY <1>1 DEF Terms
    <3> QED BY <3>1, <3>2 DEF Terms, TermRecords, Idle
  <2>2. EscOnTerm(s, b) \in {ParserReset(s.t), [t EXCEPT !.state = "GROUND"],
                             [s.t EXCEPT !.state = "GROUND"]}
      BY DEF EscOnTerm
  <2> HIDE DEF t
  <2>3. t.state \notin OscStates /\ "GROUND" \in {"GROUND", "ESC", "CSI"} BY <2>1
  <2>4. [t EXCEPT !.state = "GROUND"] \in Terms BY <2>1, <2>3, StateStep
  <2>5. ParserReset(s.t) \in Terms /\ [s.t EXCEPT !.state = "GROUND"] \in Terms
      BY <1>1, <2>3, StateStep
  <2> QED BY <2>2, <2>4, <2>5
<1>5. "escape" \in Events /\ "unsupported" \in Events BY DEF Events
<1>6. b \in {"8", "D", "E", "M", "c"} => Reached(s.p, EscOnPlane(s, b))
  <2>1. s.t.savedRow \in Int /\ s.t.savedCol \in Int BY <1>1 DEF RowIds
  <2>2. CASE b = "8"
    <3>1. EscOnPlane(s, b) = ToCol(ToRow(s.p, s.t.savedRow), s.t.savedCol)
        BY <2>2 DEF EscOnPlane
    <3>2. Reached(s.p, ToCol(ToRow(s.p, s.t.savedRow), s.t.savedCol))
        BY <2>1, CursorReached
    <3> QED BY <3>1, <3>2
  <2>3. CASE b = "D"
    <3>1. EscOnPlane(s, b) = Newline(s.p) BY <2>3 DEF EscOnPlane
    <3> QED BY <3>1, EscapeReaches
  <2>4. CASE b = "E"
    <3>1. EscOnPlane(s, b) = Newline(Returned(s.p)) BY <2>4 DEF EscOnPlane
    <3> QED BY <3>1, EscapeReaches
  <2>5. CASE b = "M"
    <3>1. EscOnPlane(s, b) = ReverseIndex(s.p)
        BY <2>5 DEF EscOnPlane
    <3> QED BY <3>1, EscapeReaches
  <2>6. CASE b = "c"
    <3>1. EscOnPlane(s, b) = Cleaned(s.p) BY <2>6 DEF EscOnPlane
    <3> QED BY <3>1, EscapeReaches
  <2> QED BY <2>2, <2>3, <2>4, <2>5, <2>6
<1>7. b \in {"8", "D", "E", "M", "c"} =>
          Led(s, Becoming(s, EscOnTerm(s, b), EscOnPlane(s, b), "escape"))
    BY <1>4, <1>5, <1>6, LedBy
<1>8. Led(s, Becoming(s, EscOnTerm(s, b), s.p, "escape")) BY <1>4, <1>5, LedInPlace
<1>9. Led(s, Becoming(s, [s.t EXCEPT !.state = "GROUND"], s.p, "unsupported"))
    BY <1>1, <1>5, StateStep, LedInPlace
<1> QED BY <1>2, <1>3, <1>7, <1>8, <1>9, EscByteIs

\* scte_osc_byte and scte_osc_esc_byte.
LEMMA OscLed ==
    ASSUME NEW s \in Snapshots, Fair(s.p), s.t.state = "OSC", NEW b
    PROVE  Led(s, OscByte(s, b)) /\ Led(s, OscEnded(s))
<1>1. s.t \in Terms BY DEF Snapshots
<1>2. Led(s, OscEnded(s))
  <2> DEFINE t == [s.t EXCEPT !.osc = 0, !.oscOverflow = FALSE, !.state = "GROUND"]
             e == IF s.t.oscOverflow THEN "unsupported" ELSE "quiet"
  <2>1. t \in Terms BY <1>1, StateStep
  <2>2. e \in Events BY DEF Events
  <2>3. OscEnded(s) = Becoming(s, t, s.p, e) BY DEF OscEnded, Becoming, Snapshots
  <2> HIDE DEF t, e
  <2> QED BY <2>1, <2>2, <2>3, LedInPlace
<1>3. Led(s, Quiet(s, [s.t EXCEPT !.state = "OSC_ESC"]))
    BY <1>1, StateStep, QuietLed DEF OscStates
<1>4. Led(s, Quiet(s, IF s.t.osc < MaxOsc THEN [s.t EXCEPT !.osc = @ + 1]
                      ELSE [s.t EXCEPT !.oscOverflow = TRUE]))
    BY <1>1, OscStep, QuietLed
<1> QED BY <1>2, <1>3, <1>4 DEF OscByte

LEMMA OscEscLed ==
    ASSUME NEW s \in Snapshots, Fair(s.p), s.t.state = "OSC_ESC", NEW b
    PROVE  Led(s, OscEscByte(s, b))
<1> DEFINE u == [s EXCEPT !.t.state = "OSC"]
           t == [s.t EXCEPT !.state = "OSC"]
<1>1. s.t \in Terms BY DEF Snapshots
<1>2. t \in Terms /\ t.state = "OSC" BY <1>1, StateStep DEF OscStates
<1>3. u = [s EXCEPT !.t = t] BY DEF Snapshots
<1>4. s.t.oscOverflow = t.oscOverflow BY <1>1 DEF Terms, TermRecords
<1>5. OscEnded(s) = OscEnded([s EXCEPT !.t = t])
    BY <1>1 DEF OscEnded, Snapshots, Terms, TermRecords
<1> HIDE DEF t
<1>6. u \in Snapshots /\ u.p = s.p /\ u.cut = s.cut /\ u.t = t
    BY <1>2, <1>3 DEF Snapshots
<1>7. OscEscByte(s, b) = IF b = "\\" THEN OscEnded(u) ELSE OscByte(u, b)
    BY <1>3, <1>5 DEF OscEscByte
<1> HIDE DEF u
<1>8. Led(u, OscEscByte(s, b)) BY <1>2, <1>6, <1>7, OscLed
<1> QED BY <1>6, <1>8 DEF Led

\* One round of the loop of suts_scte_feed.
LEMMA FedLed ==
    ASSUME NEW s \in Snapshots, Fair(s.p), NEW b
    PROVE  Led(s, Fed(s, b)) /\ Led(s, FedOn(s, b))
<1>1. s.t \in Terms /\ s.t.state \in {"GROUND", "ESC", "CSI", "OSC", "OSC_ESC"}
    BY TermFields DEF Snapshots
<1>2. Led(s, Fed(s, b))
  <2>1. CASE s.t.state = "GROUND" BY <2>1, GroundLed DEF Fed, OscStates
  <2>2. CASE s.t.state = "ESC" BY <2>2, EscLed DEF Fed, OscStates
  <2>3. CASE s.t.state = "CSI" BY <2>3, CsiLed DEF Fed, OscStates
  <2>4. CASE s.t.state = "OSC" BY <2>4, OscLed DEF Fed
  <2>5. CASE s.t.state = "OSC_ESC" BY <2>5, OscEscLed DEF Fed
  <2> QED BY <2>1, <2>2, <2>3, <2>4, <2>5, <1>1
<1>3. Led(s, s)
  <2>1. Seen(s.p, s.p) /\ Kept(s.p, s.p) BY SamePlaneReached DEF Reached, Seen, Kept
  <2> QED BY <2>1 DEF Led
<1> QED BY <1>2, <1>3 DEF FedOn

-----------------------------------------------------------------------------
(* A call of suts_scte_feed, byte by byte.                                  *)

\* A snapshot of the terminal with its plane, as every byte leaves it.
Sound(s) == s \in Snapshots /\ Fair(s.p) /\ (s.cut \/ Good(s.p))

LEMMA FedSound ==
    ASSUME NEW s, Sound(s), NEW b
    PROVE  Sound(FedOn(s, b)) /\ Seen(s.p, FedOn(s, b).p)
<1>1. Led(s, FedOn(s, b)) BY FedLed DEF Sound
<1>2. FedOn(s, b) \in Snapshots /\ Seen(s.p, FedOn(s, b).p) BY <1>1 DEF Led
<1>3. FedOn(s, b).cut \/ Good(FedOn(s, b).p) BY <1>1 DEF Led, Kept, Sound
<1> QED BY <1>2, <1>3 DEF Sound, Seen

\* Stages is the recursion that it is written as.
LEMMA StagesAre ==
    ASSUME NEW s, Sound(s), NEW bytes, Len(bytes) \in Nat
    PROVE  LET f == Stages(s, bytes)
           IN  /\ f[0] = s /\ FedAll(s, bytes) = f[Len(bytes)]
               /\ \A i \in 1 .. Len(bytes) : f[i] = FedOn(f[i - 1], bytes[i])
               /\ \A i \in 0 .. Len(bytes) : Sound(f[i])
<1> DEFINE n == Len(bytes)
           T == {x \in Snapshots : Sound(x)}
           step == [z \in (1 .. n) \X T |-> FedOn(z[2], bytes[z[1]])]
           Runs(f) == f = [i \in 0 .. n |-> IF i = 0 THEN s ELSE FedOn(f[i - 1], bytes[i])]
           after == CHOOSE f : Runs(f)
<1>1. Stages(s, bytes) = after BY DEF Stages
<1>2. s \in T BY DEF Sound
<1>3. \A i \in 1 .. n, x \in T : FedOn(x, bytes[i]) \in T BY FedSound DEF Sound
<1> HIDE DEF n
<1>4. n \in Nat BY DEF n
<1>5. step \in [(1 .. n) \X T -> T] BY <1>3
<1>6. \A i \in 1 .. n, x \in T : step[<<i, x>>] = FedOn(x, bytes[i]) OBVIOUS
<1> HIDE DEF T, step
<1>7. PICK g \in [0 .. n -> T] : StepRuns(g, n, s, step) BY <1>2, <1>4, <1>5, StepsExist
<1>8. \A i \in 1 .. n : i \in 0 .. n /\ i # 0 /\ i - 1 \in 0 .. n /\ g[i - 1] \in T
    BY <1>4
<1>9. Runs(g)
  <2>1. g[0] = s /\ \A i \in 1 .. n : g[i] = FedOn(g[i - 1], bytes[i])
      BY <1>6, <1>7, <1>8 DEF StepRuns
  <2>2. \A i \in 0 .. n : i # 0 => i \in 1 .. n BY <1>4
  <2>3. g = [i \in 0 .. n |-> g[i]] OBVIOUS
  <2> QED BY <2>1, <2>2, <2>3
<1>10. Runs(after)
  <2> HIDE DEF Runs
  <2> QED BY <1>9
<1> HIDE DEF after
<1>11. after[0] = s /\ \A i \in 1 .. n : after[i] = FedOn(after[i - 1], bytes[i])
  <2>1. 0 \in 0 .. n BY <1>4
  <2> QED BY <1>8, <1>10, <2>1
<1> HIDE DEF Runs
<1>12. \A i \in 1 .. n : after[i - 1] \in T => after[i] \in T BY <1>3, <1>11
<1>13. \A i \in 0 .. n : after[i] \in T BY <1>2, <1>4, <1>11, <1>12, StaysWithin
<1>14. \A i \in 0 .. n : Sound(after[i]) BY <1>13 DEF T
<1> QED BY <1>1, <1>11, <1>14 DEF n, FedAll

-----------------------------------------------------------------------------
(* The invariant of the terminal.                                           *)

TermInv ==
    /\ term \in Terms /\ Fair(plane) /\ plane.writes <= MaxWrites
    /\ stale \in SUBSET RowIds /\ cut \in BOOLEAN
    /\ cut \/ Good(plane)

LEMMA CurrentIs ==
    ASSUME TermInv, NEW beyond \in {"whole", "tail"}
    PROVE  /\ Sound(Current(beyond)) /\ Current(beyond).t = term
           /\ Current(beyond).p = Called /\ Current(beyond).e = "none"
           /\ Current(beyond).beyond = beyond /\ Current(beyond).cut = cut
<1>1. Fair(Called) /\ Called \in Planes /\ Kept(plane, Called) BY CalledIs DEF TermInv
<1>2. "none" \in Events BY DEF Events
<1>3. Current(beyond) \in Snapshots BY <1>1, <1>2 DEF Current, Snapshots, TermInv
<1>4. /\ Current(beyond).t = term /\ Current(beyond).p = Called
      /\ Current(beyond).e = "none" /\ Current(beyond).beyond = beyond
      /\ Current(beyond).cut = cut
    BY DEF Current
<1>5. cut \/ Good(Called) BY <1>1 DEF Kept, TermInv
<1> QED BY <1>1, <1>3, <1>4, <1>5 DEF Sound

LEMMA TermInvStarts == TermInit => TermInv
<1> SUFFICES ASSUME TermInit PROVE TermInv
    OBVIOUS
<1>1. PICK s \in Styles, w \in WrapOptions : plane = NewPlane(s, w) BY DEF TermInit
<1>2. Good(plane) /\ Fair(plane) /\ plane.writes = 0 BY <1>1, NewPlaneIs DEF Good
<1>3. plane.writes <= MaxWrites BY <1>2, ConsoleAssumption
<1>4. term \in Terms
  <2>1. 0 \in 0 .. MaxOsc /\ 0 \in RowIds /\ 0 \in 0 .. Cols
      BY ConsoleAssumption, TerminalAssumption DEF RowIds
  <2>2. <<>> \in Carries /\ <<>> \in {l \in Seq(ParamValues) : Len(l) <= MaxParams}
        /\ Missing \in ParamValues
      BY TerminalAssumption DEF Carries, ParamValues
  <2>3. term \in TermRecords BY <2>1, <2>2 DEF TermInit, TermRecords
  <2>4. Idle(term) BY DEF TermInit, Idle
  <2> QED BY <2>3, <2>4 DEF Terms
<1> QED BY <1>2, <1>3, <1>4 DEF TermInit, TermInv

LEMMA TermInvStep == TermInv /\ [TermNext]_termVars => TermInv'
<1> SUFFICES ASSUME TermInv, [TermNext]_termVars PROVE TermInv'
    OBVIOUS
<1>1. ASSUME NEW bytes \in Chunks, Feed(bytes) PROVE TermInv'
  <2>1. PICK beyond \in Behind :
            LET s == FedAll(Current(beyond), bytes)
            IN  /\ s.p.writes <= MaxWrites
                /\ plane' = s.p /\ term' = s.t /\ cut' = s.cut
                /\ UNCHANGED stale
      BY <1>1 DEF Feed
  <2> DEFINE s == FedAll(Current(beyond), bytes)
  <2>2. Sound(Current(beyond)) BY CurrentIs DEF Behind
  <2>3. bytes \in Seq(STRING) BY TerminalAssumption
  <2>4. Len(bytes) \in Nat BY <2>3
  <2>5. Sound(s) BY <2>2, <2>4, StagesAre, SMTT(40)
  <2> HIDE DEF s
  <2>6. s \in Snapshots /\ Fair(s.p) /\ (s.cut \/ Good(s.p)) BY <2>5 DEF Sound
  <2>7. /\ s.p.writes <= MaxWrites /\ plane' = s.p /\ term' = s.t
        /\ cut' = s.cut /\ stale' = stale
      BY <2>1 DEF s
  <2>8. s.t \in Terms /\ s.cut \in BOOLEAN BY <2>6 DEF Snapshots
  <2>9. Fair(plane)' /\ (Good(plane)' <=> Good(s.p))
      BY <2>6, <2>7, ZenonT(60)
      DEF Good, Fair, Distinct, Tall, OffTails, Whole, OnCells, OnCell
  <2> QED BY <2>6, <2>7, <2>8, <2>9 DEF TermInv
<1>2. CASE Reset
  <2>1. ParserReset(term) \in Terms BY StateStep, ZenonT(60) DEF TermInv
  <2> QED BY <2>1, <1>2, ZenonT(60)
          DEF Reset, TermInv, Good, Fair, Distinct, Tall, OffTails, Whole, OnCells, OnCell
<1>3. CASE UNCHANGED termVars
  BY <1>3, ZenonT(60)
  DEF termVars, TermInv, Good, Fair, Distinct, Tall, OffTails, Whole, OnCells, OnCell
<1> QED BY <1>1, <1>2, <1>3 DEF TermNext

LEMMA TermInvAlways == TermSpec => []TermInv
BY TermInvStarts, TermInvStep, PTL DEF TermSpec

\* What the terminal does to the plane leaves its pairs whole and its records
\* on their cells, until it executes a sequence that is known to disturb them;
\* the parser of suts_scte_feed stays within its ceilings throughout.
THEOREM TerminalKeepsPlane == TermSpec => []PlaneKept
<1>1. TermInv => PlaneKept
  <2> SUFFICES ASSUME TermInv PROVE PlaneKept
      OBVIOUS
  <2>1. plane \in Planes /\ plane.writes \in Nat /\ plane.writes <= MaxWrites
      BY PlaneFields DEF TermInv, Fair
  <2>2. TypeOK
    <3>1. plane.writes \in 0 .. MaxWrites BY <2>1, ConsoleAssumption
    <3> QED BY <2>1, <3>1, PlaneFields DEF TypeOK, Statuses, TermInv
  <2>3. term.carry = <<>> \/ Len(term.carry) < LeadLength[term.carry[1]]
      BY TermFields DEF TermInv, Carries
  <2>4. TermTypeOK BY <2>2, <2>3, TermFields DEF TermTypeOK, TermInv
  <2>5. Good(plane) => PairsWhole /\ RecordsMatchCells
      BY <2>1, MatchingIs DEF Good, Fair, PairsWhole, RecordsMatchCells
  <2> QED BY <2>4, <2>5 DEF PlaneKept, TermInv
<1> QED BY <1>1, TermInvAlways, PTL

\* Whatever a byte changes on a plane that was flushed before the call is
\* repainted by the next flush, but for the row that scts_move_run leaves, and
\* no later byte of suts_scte_feed takes that back.
THEOREM TerminalShows == TermSpec => []ChangesShown
<1>1. TermInv => ChangesShown
  <2> SUFFICES ASSUME TermInv, NEW bytes \in Chunks, NEW i \in DOMAIN bytes
               PROVE  LET after == Stages(Flushed, bytes)
                      IN  ShownBy(after[i - 1].p, after[i].p)
      BY DEF ChangesShown
  <2> DEFINE c == Current("whole")
             q == [Called EXCEPT !.dirty = {}, !.dirtyAll = FALSE]
             f == Stages(Flushed, bytes)
  <2>1. Sound(c) /\ c.p = Called /\ c.cut = cut BY CurrentIs
  <2>2. c \in Snapshots /\ Fair(Called) /\ Called \in Planes BY <2>1 DEF Sound, Fair
  <2>3. q \in Planes /\ q.cells = Called.cells /\ q.recs = Called.recs
      BY <2>2 DEF Planes
  <2>4. Flushed = [c EXCEPT !.p = q] BY <2>1, <2>2 DEF Flushed, Snapshots, Planes
  <2> HIDE DEF c, q
  <2>5. Kept(Called, q) BY <2>2, <2>3, RegistersChange
  <2>6. Sound(Flushed)
    <3>1. Flushed \in Snapshots /\ Flushed.p = q /\ Flushed.cut = cut
        BY <2>1, <2>2, <2>3, <2>4 DEF Snapshots
    <3> QED BY <3>1, <2>1, <2>5 DEF Sound, Kept
  <2>7. bytes \in Seq(STRING) /\ Len(bytes) \in Nat /\ i \in 1 .. Len(bytes)
    <3>1. bytes \in Seq(STRING) BY TerminalAssumption
    <3> QED BY <3>1
  <2>8. /\ f[i] = FedOn(f[i - 1], bytes[i])
        /\ \A j \in 0 .. Len(bytes) : Sound(f[j])
      BY <2>6, <2>7, StagesAre
  <2> HIDE DEF f
  <2>9. Sound(f[i - 1]) /\ Sound(f[i]) BY <2>7, <2>8
  <2>10. Seen(f[i - 1].p, f[i].p) BY <2>8, <2>9, FedSound
  <2> DEFINE p == f[i - 1].p
             x == f[i].p
  <2>11. Fair(p) /\ Fair(x) BY <2>9 DEF Sound
  <2> HIDE DEF p, x
  <2>12. ShownBy(p, x)
    <3> SUFFICES ASSUME NEW r \in RowIds
                 PROVE  /\ Repainted(p, r) => Repainted(x, r)
                        /\ r \in Changed(p, x) =>
                              Repainted(x, r) \/ (r = p.row /\ x.row = r + 1)
        BY DEF ShownBy
    <3>1. /\ Dirty(p, r) => Dirty(x, r)
          /\ SameRow(p, x, r) \/ Dirty(x, r) \/ (r = p.row /\ x.row = r + 1)
        BY <2>10 DEF Seen, p, x
    <3>2. r \in Changed(p, x) => ~SameRow(p, x, r)
        BY <2>11, RowTextIs DEF Changed
    <3> QED BY <3>1, <3>2 DEF Repainted, Dirty
  <2> QED BY <2>12 DEF p, x, f
<1> QED BY <1>1, TermInvAlways, PTL

-----------------------------------------------------------------------------
(* What is left behind when a client stops within a sequence.               *)

\* Two snapshots with the same plane, event and history.
SamePlaces(x, y) == y.p = x.p /\ y.cut = x.cut /\ y.beyond = x.beyond

LEMMA QuietIs ==
    ASSUME NEW s \in Snapshots, NEW t
    PROVE  /\ Quiet(s, t).t = t /\ Quiet(s, t).e = "quiet"
           /\ SamePlaces(s, Quiet(s, t))
BY DEF Quiet, Snapshots, SamePlaces

\* ESC begins an escape sequence, or ends an OSC string if \ follows.
LEMMA EscSent ==
    ASSUME NEW x, Sound(x), x.t.carry = <<>>, x.e # "encoding_error"
    PROVE  LET y == FedOn(x, "ESC")
           IN  /\ SamePlaces(x, y) /\ y.e # "encoding_error"
               /\ y.t = [x.t EXCEPT !.state = IF x.t.state \in OscStates
                                              THEN "OSC_ESC" ELSE "ESC"]
<1> DEFINE y == FedOn(x, "ESC")
<1>1. /\ x \in Snapshots /\ x.t \in Terms /\ x.t \in TermRecords
      /\ x.t.state \in {"GROUND", "ESC", "CSI", "OSC", "OSC_ESC"}
    BY TermFields DEF Sound, Snapshots
<1>2. y = Fed(x, "ESC") BY DEF FedOn
<1>3. /\ Control(x, "ESC").t = [x.t EXCEPT !.state = "ESC"]
      /\ SamePlaces(x, Control(x, "ESC")) /\ Control(x, "ESC").e = "control"
  <2>1. ControlEffect(x.p, "ESC") = x.p BY DEF ControlEffect
  <2>2. Control(x, "ESC") = [x EXCEPT !.p = x.p, !.e = "control", !.t.state = "ESC"]
      BY <2>1 DEF Control
  <2> QED BY <2>2, <1>1 DEF Snapshots, SamePlaces
<1>4. CASE x.t.state = "GROUND"
  <2>1. "ESC" \in C0 /\ "ESC" \notin DOMAIN Letter /\ "ESC" \notin DOMAIN LeadLength
      BY TerminalAssumption DEF C0
  <2>2. Fed(x, "ESC") = GroundByte(x, "ESC") BY <1>4 DEF Fed
  <2>3. GroundByte(x, "ESC") = Control(x, "ESC") BY <2>1 DEF GroundByte
  <2> QED BY <1>2, <2>2, <2>3, <1>3, <1>4 DEF OscStates
<1>5. CASE x.t.state = "ESC"
  <2>1. y = Quiet(x, x.t) BY <1>1, <1>2, <1>5, EscByteIs DEF Fed
  <2>2. x.t = [x.t EXCEPT !.state = "ESC"] BY <1>1, <1>5 DEF TermRecords
  <2> QED BY <2>1, <2>2, <1>1, <1>5, QuietIs DEF OscStates
<1>6. CASE x.t.state = "CSI"
  <2>1. y = Control(x, "ESC") BY <1>2, <1>6, CsiByteIs DEF Fed, C0
  <2> QED BY <2>1, <1>3, <1>6 DEF OscStates
<1>7. CASE x.t.state = "OSC"
  <2>1. y = Quiet(x, [x.t EXCEPT !.state = "OSC_ESC"]) BY <1>2, <1>7 DEF Fed, OscByte
  <2> QED BY <2>1, <1>1, <1>7, QuietIs DEF OscStates
<1>8. CASE x.t.state = "OSC_ESC"
  <2> DEFINE u == [x EXCEPT !.t.state = "OSC"]
  <2>1. y = Quiet(u, [u.t EXCEPT !.state = "OSC_ESC"])
      BY <1>2, <1>8 DEF Fed, OscEscByte, OscByte
  <2>2. u.t = [x.t EXCEPT !.state = "OSC"] BY <1>1 DEF Snapshots
  <2>3. [u.t EXCEPT !.state = "OSC_ESC"] = [x.t EXCEPT !.state = "OSC_ESC"]
      BY <2>2, <1>1 DEF TermRecords
  <2>4. y = Quiet(x, [x.t EXCEPT !.state = "OSC_ESC"])
      BY <2>1, <2>3, <1>1 DEF Quiet, Snapshots
  <2> QED BY <2>4, <1>1, <1>8, QuietIs DEF OscStates
<1> QED BY <1>1, <1>4, <1>5, <1>6, <1>7, <1>8

\* Within an OSC string every other byte is only counted.
LEMMA OscSent ==
    ASSUME NEW x, Sound(x), x.t.state \in OscStates, x.e # "encoding_error",
           NEW b, b \notin {"BEL", "\\"}
    PROVE  LET y == FedOn(x, b)
           IN  /\ SamePlaces(x, y) /\ y.e # "encoding_error"
               /\ y.t.state \in OscStates /\ y.t.carry = x.t.carry
               /\ x.t.state = "OSC_ESC" /\ b # "ESC" => y.t.state = "OSC"
<1> DEFINE y == FedOn(x, b)
           u == [x EXCEPT !.t.state = "OSC"]
           c == IF u.t.osc < MaxOsc THEN [u.t EXCEPT !.osc = @ + 1]
                ELSE [u.t EXCEPT !.oscOverflow = TRUE]
           t == IF b = "ESC" THEN [u.t EXCEPT !.state = "OSC_ESC"] ELSE c
<1>1. x \in Snapshots /\ x.t \in TermRecords BY DEF Sound, Snapshots, Terms
<1>2. u.t \in TermRecords /\ u.t = [x.t EXCEPT !.state = "OSC"] /\ u \in [t : TermRecords,
          p : Planes, e : Events, beyond : {"whole", "tail"}, cut : BOOLEAN]
      /\ SamePlaces(x, u)
    BY <1>1 DEF TermRecords, Snapshots, Terms, SamePlaces
<1>3. x.t.state = "OSC" => u = x BY <1>1 DEF Snapshots, Terms, TermRecords
<1>4. y = OscByte(u, b)
  <2>1. CASE x.t.state = "OSC" BY <2>1, <1>3 DEF FedOn, Fed
  <2>2. CASE x.t.state = "OSC_ESC" BY <2>2 DEF FedOn, Fed, OscEscByte
  <2> QED BY <2>1, <2>2 DEF OscStates
<1>5. y = Quiet(u, t) BY <1>4 DEF OscByte
<1>6. t.state = (IF b = "ESC" THEN "OSC_ESC" ELSE "OSC") /\ t.carry = x.t.carry
    BY <1>1, <1>2 DEF TermRecords
<1> HIDE DEF t, u
<1>7. y.t = t /\ y.e = "quiet" /\ SamePlaces(u, y)
    BY <1>2, <1>5 DEF Quiet, SamePlaces
<1> QED BY <1>2, <1>6, <1>7 DEF SamePlaces, OscStates

\* Parameter bytes are only collected.
LEMMA ParamSent ==
    ASSUME NEW x, Sound(x), x.t.state = "CSI", x.e # "encoding_error",
           NEW b \in ParamBytes
    PROVE  LET y == FedOn(x, b)
           IN  /\ SamePlaces(x, y) /\ y.e # "encoding_error"
               /\ y.t.state = "CSI" /\ y.t.carry = x.t.carry
<1>1. x \in Snapshots /\ x.t \in TermRecords BY DEF Sound, Snapshots, Terms
<1>2. \E t : /\ FedOn(x, b) = Quiet(x, t)
             /\ \/ \E v : t = [x.t EXCEPT !.prefix = v]
                \/ \E v : t = [x.t EXCEPT !.intermediate = v]
                \/ t = [x.t EXCEPT !.overflow = TRUE]
                \/ \E d : t = DigitAdded(x.t, d)
                \/ t = Pushed(x.t)
  <2>1. FedOn(x, b) = CsiByte(x, b) BY DEF FedOn, Fed
  <2>2. b \notin C0 BY DEF ParamBytes, Digits, Separators, Privates, OtherParamBytes,
                           Intermediates, C0
  <2>3. \/ b \in Privates \cup {"!"} /\ Fresh(x.t)
        \/ b \in OtherParamBytes \cup (IF Fresh(x.t) THEN {} ELSE Privates)
        \/ b \in DOMAIN Digits
        \/ b \in Separators
        \/ b \in Intermediates /\ ~(b = "!" /\ Fresh(x.t))
      BY DEF ParamBytes
  <2> QED BY <2>1, <2>2, <2>3, CsiByteIs
<1>3. PICK t : /\ FedOn(x, b) = Quiet(x, t)
               /\ \/ \E v : t = [x.t EXCEPT !.prefix = v]
                  \/ \E v : t = [x.t EXCEPT !.intermediate = v]
                  \/ t = [x.t EXCEPT !.overflow = TRUE]
                  \/ \E d : t = DigitAdded(x.t, d)
                  \/ t = Pushed(x.t)
    BY <1>2
<1>4. t.state = x.t.state /\ t.carry = x.t.carry
    BY <1>1, <1>3 DEF DigitAdded, Pushed, TermRecords
<1> QED BY <1>1, <1>3, <1>4, QuietIs

\* [ begins a control sequence, and ] an OSC string.
LEMMA Opened ==
    ASSUME NEW x, Sound(x), x.t.state = "ESC", x.e # "encoding_error", NEW b \in {"[", "]"}
    PROVE  LET y == FedOn(x, b)
           IN  /\ SamePlaces(x, y) /\ y.e # "encoding_error" /\ y.t.carry = x.t.carry
               /\ y.t.state = IF b = "[" THEN "CSI" ELSE "OSC"
<1> DEFINE t == IF b = "[" THEN CsiBegun(x.t) ELSE OscBegun(x.t)
<1>1. x \in Snapshots /\ x.t \in TermRecords BY DEF Sound, Snapshots, Terms
<1>2. FedOn(x, b) = Quiet(x, t) BY <1>1, EscByteIs DEF FedOn, Fed
<1>3. t.carry = x.t.carry /\ t.state = IF b = "[" THEN "CSI" ELSE "OSC"
    BY <1>1 DEF CsiBegun, CsiReset, OscBegun, TermRecords
<1> HIDE DEF t
<1> QED BY <1>1, <1>2, <1>3, QuietIs

\* What a client that stops within a sequence has done: nothing to the plane.
LEMMA LeftBehind ==
    ASSUME NEW s, Sound(s), s.t.carry = <<>>, s.e # "encoding_error",
           NEW u \in Seq(STRING), Unended(u)
    PROVE  LET y == FedAll(s, u)
           IN  /\ Sound(y) /\ SamePlaces(s, y) /\ y.t.carry = <<>>
               /\ y.e # "encoding_error"
<1> DEFINE n == Len(u)
           f == Stages(s, u)
           Same(i) == /\ SamePlaces(s, f[i]) /\ f[i].t.carry = <<>>
                      /\ f[i].e # "encoding_error"
           Held(i) == IF i = 0 THEN TRUE
                      ELSE IF i = 1 THEN f[i].t.state \in {"ESC", "OSC_ESC"}
                      ELSE f[i].t.state \in OscStates
                           \/ (u[2] = "[" /\ f[i].t.state = "CSI")
           g == [i \in 0 .. n |-> IF Same(i) /\ Held(i) THEN 1 ELSE 0]
<1>1. n \in Nat /\ n # 0 /\ u[1] = "ESC" BY DEF Unended
<1>2. n > 1 => \/ u[2] = "[" /\ \A i \in 3 .. n : u[i] \in ParamBytes
               \/ u[2] = "]" /\ \A i \in 3 .. n : u[i] \notin {"BEL", "\\"}
    BY DEF Unended
<1>3. \A b \in ParamBytes : b \notin {"BEL", "\\"}
    BY DEF ParamBytes, Digits, Separators, Privates, OtherParamBytes, Intermediates
<1>4. /\ f[0] = s /\ FedAll(s, u) = f[n]
      /\ \A i \in 1 .. n : f[i] = FedOn(f[i - 1], u[i])
      /\ \A i \in 0 .. n : Sound(f[i])
    BY <1>1, StagesAre
<1> HIDE DEF f, n
<1>5. Same(0) BY <1>4 DEF SamePlaces
<1>6. ASSUME NEW i \in 1 .. n, Same(i - 1), Held(i - 1) PROVE Same(i) /\ Held(i)
  <2> DEFINE x == f[i - 1]
             y == f[i]
  <2>1. i - 1 \in 0 .. n /\ i \in Nat BY <1>1
  <2>2. y = FedOn(x, u[i]) /\ Sound(x) BY <1>4, <2>1
  <2>3. SamePlaces(s, x) /\ x.t.carry = <<>> /\ x.e # "encoding_error" BY <1>6
  <2>4. Held(i - 1) BY <1>6
  <2>5. x \in Snapshots /\ x.t \in TermRecords BY <2>2 DEF Sound, Snapshots, Terms
  <2> HIDE DEF x, y
  <2>6. CASE i = 1
    <3> DEFINE t == [x.t EXCEPT !.state = IF x.t.state \in OscStates
                                          THEN "OSC_ESC" ELSE "ESC"]
    <3>1. SamePlaces(x, y) /\ y.e # "encoding_error" /\ y.t = t
        BY <1>1, <2>2, <2>3, <2>6, EscSent
    <3>2. t.carry = x.t.carry /\ t.state \in {"ESC", "OSC_ESC"}
        BY <2>5 DEF TermRecords
    <3> QED BY <3>1, <3>2, <2>3, <2>6 DEF SamePlaces, x, y
  <2>7. CASE i # 1
    <3>1. SamePlaces(x, y) /\ y.e # "encoding_error" /\ y.t.carry = x.t.carry
          /\ (y.t.state \in OscStates \/ (u[2] = "[" /\ y.t.state = "CSI"))
      <4>1. CASE x.t.state \in OscStates
        <5>1. u[i] \notin {"BEL", "\\"}
            BY <1>1, <1>2, <1>3, <2>1, <2>7
        <5> QED BY <4>1, <5>1, <2>2, <2>3, OscSent
      <4>2. CASE i = 2 /\ x.t.state = "ESC"
        <5>1. u[i] \in {"[", "]"} BY <1>1, <1>2, <4>2
        <5> QED BY <4>2, <5>1, <2>2, <2>3, Opened DEF OscStates
      <4>3. CASE i # 2 /\ u[2] = "[" /\ x.t.state = "CSI"
        <5>1. u[i] \in ParamBytes BY <1>1, <1>2, <2>1, <2>7, <4>3
        <5> QED BY <4>3, <5>1, <2>2, <2>3, ParamSent
      <4>4. \/ x.t.state \in OscStates \/ (i = 2 /\ x.t.state = "ESC")
            \/ (i # 2 /\ u[2] = "[" /\ x.t.state = "CSI")
          BY <2>1, <2>4, <2>7 DEF x, OscStates
      <4> QED BY <4>1, <4>2, <4>3, <4>4
    <3> QED BY <3>1, <2>1, <2>3, <2>7 DEF SamePlaces, x, y
  <2> QED BY <2>6, <2>7
<1> HIDE DEF Same, Held
<1>7. g[0] = 1
  <2>1. Held(0) BY DEF Held
  <2>2. 0 \in 0 .. n BY <1>1
  <2> QED BY <2>1, <2>2, <1>5
<1>8. \A i \in 1 .. n : g[i - 1] \in {1} => g[i] \in {1}
  <2> SUFFICES ASSUME NEW i \in 1 .. n, g[i - 1] = 1 PROVE g[i] = 1
      OBVIOUS
  <2>1. i - 1 \in 0 .. n /\ i \in 0 .. n BY <1>1
  <2>2. Same(i - 1) /\ Held(i - 1) BY <2>1
  <2>3. Same(i) /\ Held(i) BY <2>2, <1>6
  <2> QED BY <2>1, <2>3
<1> HIDE DEF g
<1>9. g[n] = 1
  <2> DEFINE T == {1}
  <2>1. g[0] \in T /\ \A i \in 1 .. n : g[i - 1] \in T => g[i] \in T BY <1>7, <1>8
  <2> HIDE DEF T
  <2>2. \A i \in 0 .. n : g[i] \in T BY <2>1, <1>1, StaysWithin
  <2> QED BY <2>2, <1>1 DEF T
<1>10. Same(n)
  <2>1. n \in 0 .. n BY <1>1
  <2> QED BY <2>1, <1>9 DEF g
<1>11. Sound(f[n]) BY <1>1, <1>4
<1> QED BY <1>4, <1>10, <1>11 DEF Same

\* What scte_execute_csi does where it counts a sequence as unsupported, and
\* where the sequence is over a ceiling: at most the wrap mode is set.
LEMMA UnsupportedIs ==
    ASSUME NEW s \in Snapshots, NEW b,
           s.t.overflow \/ ExecuteCsi(s, b).e = "unsupported"
    PROVE  \E w : ExecuteCsi(s, b).p = [s.p EXCEPT !.wrap = w]
<1>1. s.p = [s.p EXCEPT !.wrap = s.p.wrap] BY DEF Snapshots, Planes
<1>2. [s EXCEPT !.e = "unsupported"].p = s.p BY DEF Snapshots
<1>3. CASE s.t.overflow
  <2>1. ExecuteCsi(s, b).p = s.p BY <1>2, <1>3 DEF ExecuteCsi
  <2> QED BY <2>1, <1>1
<1>4. CASE ~s.t.overflow /\ s.t.prefix = "?" /\ b \in {"h", "l"}
  <2> DEFINE values == {Param(s.t, i, 0) : i \in DOMAIN s.t.params}
             w == IF AutowrapMode \in values THEN b = "h" ELSE s.p.wrap
  <2>1. ExecuteCsi(s, b) = SetModes(s, b = "h") BY <1>4 DEF ExecuteCsi
  <2>2. SetModes(s, b = "h").p = [s.p EXCEPT !.wrap = w]
      BY DEF SetModes, Snapshots, Planes
  <2> HIDE DEF w
  <2> QED BY <2>1, <2>2
<1>5. CASE ~s.t.overflow /\ ~(s.t.prefix = "?" /\ b \in {"h", "l"})
  <2>1. Executed(s, b).e = "sequence" BY DEF Executed, Snapshots
  <2>2. ExecuteCsi(s, b) = [s EXCEPT !.e = "unsupported"]
      BY <2>1, <1>5 DEF ExecuteCsi
  <2> QED BY <2>2, <1>1, <1>2
<1> QED BY <1>3, <1>4, <1>5

\* Before its last byte a sequence has no effect, and one that is over a
\* ceiling, or is counted as unsupported, has none at all but for the modes
\* that scte_mode may have set.
THEOREM NothingHalfDone == TermSpec => []NoPartialEffect
<1>1. TermInv => NoPartialEffect
  <2> SUFFICES ASSUME TermInv, term.carry = <<>>, NEW u \in Unfinished
               PROVE  LET before == After(u)
                      IN  /\ SamePlane(before.p, plane)
                          /\ before.t.state = "CSI" =>
                               \A b \in Finals :
                                  before.t.overflow \/ Fed(before, b).e = "unsupported" =>
                                     SamePlane(plane,
                                        [Fed(before, b).p EXCEPT !.wrap = plane.wrap])
      BY DEF NoPartialEffect, Abandoned
  <2> DEFINE c == Current("whole")
             x == After(u)
  <2>1. Sound(c) /\ c.t = term /\ c.p = Called /\ c.e = "none" BY CurrentIs
  <2>2. u \in Seq(STRING) /\ Unended(u) BY TerminalAssumption
  <2> HIDE DEF c
  <2>3. Sound(FedAll(c, u)) /\ SamePlaces(c, FedAll(c, u))
      BY <2>1, <2>2, LeftBehind
  <2>4. Sound(x) /\ x.p = Called BY <2>1, <2>3 DEF SamePlaces, After, c
  <2> HIDE DEF x
  <2>5. plane \in Planes BY DEF TermInv, Fair
  <2>6. Called = [plane EXCEPT !.status = "OK"] BY <2>5 DEF Called, Planes
  <2>7. SamePlane(x.p, plane) BY <2>4, <2>5, <2>6 DEF SamePlane, Planes
  <2>8. ASSUME x.t.state = "CSI", NEW b \in Finals,
               x.t.overflow \/ Fed(x, b).e = "unsupported"
        PROVE  SamePlane(plane, [Fed(x, b).p EXCEPT !.wrap = plane.wrap])
    <3> DEFINE t == IF HasParams(x.t) THEN Pushed(x.t) ELSE x.t
               y == [x EXCEPT !.t = t]
               z == ExecuteCsi(y, b)
    <3>1. x \in Snapshots /\ x.t \in Terms /\ x.t \in TermRecords
        BY <2>4 DEF Sound, Snapshots, Terms
    <3>2. t \in Terms /\ (x.t.overflow => t.overflow)
        BY <3>1, ParamStep DEF Pushed
    <3> HIDE DEF t
    <3>3. y \in Snapshots /\ y.p = Called /\ y.t = t
        BY <2>4, <3>1, <3>2 DEF Snapshots
    <3>4. Fed(x, b) = Ended(x, b)
      <4>1. b \notin C0 \cup Privates \cup {"!"} \cup OtherParamBytes \cup DOMAIN Digits
                     \cup Separators \cup Intermediates
          BY DEF Finals, C0, Privates, OtherParamBytes, Digits, Separators, Intermediates
      <4>2. CsiByte(x, b) = Ended(x, b)
        <5> HIDE DEF C0, Privates, OtherParamBytes, Digits, Separators, Intermediates, Finals
        <5> QED BY <4>1, CsiByteIs
      <4> QED BY <4>2, <2>8 DEF Fed
    <3>5. Ended(x, b) = Grounded([z EXCEPT !.t = CsiReset(@)]) BY DEF Ended, t
    <3> HIDE DEF y
    <3>6. z \in Snapshots
      <4>1. Fair(y.p) BY <2>4, <3>3 DEF Sound
      <4> QED BY <4>1, <3>3, ExecuteCsiLed DEF Led
    <3> HIDE DEF z
    <3>7. Fed(x, b).p = z.p /\ Fed(x, b).e = z.e
        BY <3>4, <3>5, <3>6 DEF Grounded, Snapshots
    <3>8. PICK w : z.p = [y.p EXCEPT !.wrap = w]
      <4>1. y.t.overflow \/ z.e = "unsupported" BY <2>8, <3>2, <3>3, <3>7
      <4>2. y.t.overflow \/ ExecuteCsi(y, b).e = "unsupported" BY <4>1 DEF z
      <4>3. y \in Snapshots BY <3>3
      <4>4. \E w : ExecuteCsi(y, b).p = [y.p EXCEPT !.wrap = w]
          BY <4>2, <4>3, UnsupportedIs
      <4> QED BY <4>4 DEF z
    <3>9. [z.p EXCEPT !.wrap = plane.wrap] = Called
        BY <2>5, <2>6, <3>3, <3>8 DEF Planes
    <3> QED BY <2>5, <2>6, <3>7, <3>9 DEF SamePlane, Planes
  <2> QED BY <2>7, <2>8 DEF x
<1> QED BY <1>1, TermInvAlways, PTL

-----------------------------------------------------------------------------
(* Terminals that differ in what an ended sequence has left.                *)

\* Outside of a control sequence its registers play no part.
SameTerm(t, u) ==
    /\ t.state = u.state /\ t.carry = u.carry
    /\ t.savedRow = u.savedRow /\ t.savedCol = u.savedCol /\ t.visible = u.visible
    /\ t.osc = u.osc /\ t.oscOverflow = u.oscOverflow
    /\ t.state = "CSI" => t = u
Alike(x, y) == SamePlaces(x, y) /\ y.e = x.e /\ SameTerm(x.t, y.t)

LEMMA TermsAlike ==
    ASSUME NEW t \in TermRecords, NEW u \in TermRecords, SameTerm(t, u), t.state # "CSI"
    PROVE  /\ CsiReset(t) = CsiReset(u) /\ CsiBegun(t) = CsiBegun(u)
           /\ ParserReset(t) = ParserReset(u)
           /\ SameTerm(OscBegun(t), OscBegun(u))
           /\ \A x : x # "CSI" => SameTerm([t EXCEPT !.state = x], [u EXCEPT !.state = x])
           /\ \A c : SameTerm([t EXCEPT !.carry = c], [u EXCEPT !.carry = c])
           /\ \A o : SameTerm([t EXCEPT !.osc = o], [u EXCEPT !.osc = o])
           /\ \A f : SameTerm([t EXCEPT !.oscOverflow = f], [u EXCEPT !.oscOverflow = f])
           /\ \A r, k :
                 SameTerm([[t EXCEPT !.savedRow = r, !.savedCol = k] EXCEPT !.state = "GROUND"],
                          [[u EXCEPT !.savedRow = r, !.savedCol = k] EXCEPT !.state = "GROUND"])
           /\ SameTerm([t EXCEPT !.osc = 0, !.oscOverflow = FALSE, !.state = "GROUND"],
                       [u EXCEPT !.osc = 0, !.oscOverflow = FALSE, !.state = "GROUND"])
<1>1. CsiReset(t) = CsiReset(u) BY DEF CsiReset, SameTerm, TermRecords
<1>2. CsiBegun(t) = CsiBegun(u) /\ ParserReset(t) = ParserReset(u)
    BY <1>1 DEF CsiBegun, ParserReset
<1>3. SameTerm(OscBegun(t), OscBegun(u)) BY DEF OscBegun, SameTerm, TermRecords
<1>4. \A x : x # "CSI" => SameTerm([t EXCEPT !.state = x], [u EXCEPT !.state = x])
    BY DEF SameTerm, TermRecords
<1>5. /\ \A c : SameTerm([t EXCEPT !.carry = c], [u EXCEPT !.carry = c])
      /\ \A o : SameTerm([t EXCEPT !.osc = o], [u EXCEPT !.osc = o])
      /\ \A f : SameTerm([t EXCEPT !.oscOverflow = f], [u EXCEPT !.oscOverflow = f])
    BY DEF SameTerm, TermRecords
<1>6. \A r, k :
          SameTerm([[t EXCEPT !.savedRow = r, !.savedCol = k] EXCEPT !.state = "GROUND"],
                   [[u EXCEPT !.savedRow = r, !.savedCol = k] EXCEPT !.state = "GROUND"])
    BY DEF SameTerm, TermRecords
<1>7. SameTerm([t EXCEPT !.osc = 0, !.oscOverflow = FALSE, !.state = "GROUND"],
               [u EXCEPT !.osc = 0, !.oscOverflow = FALSE, !.state = "GROUND"])
    BY DEF SameTerm, TermRecords
<1> QED BY <1>1, <1>2, <1>3, <1>4, <1>5, <1>6, <1>7

LEMMA BecomingAlike ==
    ASSUME NEW x \in Snapshots, NEW y \in Snapshots, Alike(x, y),
           NEW t, NEW u, SameTerm(t, u), NEW q, NEW e
    PROVE  Alike(Becoming(x, t, q, e), Becoming(y, u, q, e))
BY DEF Becoming, Alike, SamePlaces, Snapshots

LEMMA QuietAlike ==
    ASSUME NEW x \in Snapshots, NEW y \in Snapshots, Alike(x, y),
           NEW t, NEW u, SameTerm(t, u)
    PROVE  Alike(Quiet(x, t), Quiet(y, u))
BY DEF Quiet, Alike, SamePlaces, Snapshots

LEMMA ControlAlike ==
    ASSUME NEW x \in Snapshots, NEW y \in Snapshots, Alike(x, y), x.t.state # "CSI", NEW b
    PROVE  Alike(Control(x, b), Control(y, b))
<1> DEFINE st(s) == IF b = "ESC" THEN "ESC" ELSE s.t.state
           to(s) == [s.t EXCEPT !.state = st(s)]
           q == ControlEffect(x.p, b)
<1>1. /\ x.t \in TermRecords /\ y.t \in TermRecords /\ SameTerm(x.t, y.t)
      /\ x.p = y.p /\ x.t.state = y.t.state
    BY DEF Alike, SameTerm, SamePlaces, Snapshots, Terms
<1>2. SameTerm(to(x), to(y)) BY <1>1, TermsAlike
<1>3. Control(x, b) = Becoming(x, to(x), q, "control")
    BY DEF Control, Becoming, Snapshots
<1>4. Control(y, b) = Becoming(y, to(y), q, "control")
    BY <1>1 DEF Control, Becoming, Snapshots
<1> HIDE DEF to, q
<1> QED BY <1>2, <1>3, <1>4, BecomingAlike

LEMMA PlaceCpAlike ==
    ASSUME NEW x \in Snapshots, NEW y \in Snapshots, Alike(x, y), NEW k
    PROVE  Alike(PlaceCp(x, k), PlaceCp(y, k))
<1>1. SameTerm(x.t, y.t) /\ x.p = y.p BY DEF Alike, SamePlaces
<1>2. CASE k \in {"SCP", "inadmissible"}
  <2> DEFINE e == IF k = "SCP" THEN "directive" ELSE "unsupported"
  <2>1. /\ PlaceCp(x, k) = Becoming(x, x.t, x.p, e)
        /\ PlaceCp(y, k) = Becoming(y, y.t, x.p, e)
      BY <1>1, <1>2 DEF PlaceCp, Placed, Becoming, Snapshots
  <2> HIDE DEF e
  <2> QED BY <2>1, <1>1, BecomingAlike
<1>3. CASE k \notin {"SCP", "inadmissible"}
  <2> DEFINE q == IF Width[k] = 0 THEN [x.p EXCEPT !.status = "E_CLUSTER"]
                  ELSE PlaceOrWrap(x.p, k)
             w == [q EXCEPT !.writes = @ + 1]
  <2>1. ASSUME NEW s \in {x, y}
        PROVE  PlaceCp(s, k) = IF q.status = "OK" THEN [s EXCEPT !.p = w, !.e = "text"]
                               ELSE [s EXCEPT !.p = Answered(q), !.e = "unsupported"]
      BY <1>1, <1>3, ZenonT(60) DEF PlaceCp, Placed
  <2> HIDE DEF q, w
  <2>2. \A s \in {x, y} : PlaceCp(s, k) = IF q.status = "OK" THEN Becoming(s, s.t, w, "text")
                                          ELSE Becoming(s, s.t, Answered(q), "unsupported")
      BY <2>1, ZenonT(60) DEF Snapshots, Becoming
  <2> QED BY <2>2, <1>1, BecomingAlike
<1> QED BY <1>2, <1>3

LEMMA GroundAlike ==
    ASSUME NEW x, Sound(x), NEW y, Sound(y), Alike(x, y), x.t.state = "GROUND", NEW b
    PROVE  Alike(GroundByte(x, b), GroundByte(y, b))
<1> DEFINE c == x.t.carry
           a == Append(c, b)
           whole == Len(a) = LeadLength[a[1]]
           none(s) == [s.t EXCEPT !.carry = <<>>]
           done(s) == [s EXCEPT !.t.carry = <<>>]
<1>1. /\ x \in Snapshots /\ y \in Snapshots /\ x.t \in TermRecords /\ y.t \in TermRecords
      /\ SameTerm(x.t, y.t) /\ x.p = y.p /\ y.t.carry = c /\ x.t.state # "CSI"
    BY DEF Alike, SameTerm, SamePlaces, Sound, Snapshots, Terms
<1>2. SameTerm(none(x), none(y)) BY <1>1, TermsAlike
<1>3. Alike(EncodingError(x), EncodingError(y))
  <2>1. /\ EncodingError(x) = Becoming(x, none(x), x.p, "encoding_error")
        /\ EncodingError(y) = Becoming(y, none(y), x.p, "encoding_error")
      BY <1>1 DEF EncodingError, Becoming, Snapshots
  <2> HIDE DEF none
  <2> QED BY <2>1, <1>1, <1>2, BecomingAlike
<1>4. \A v : Alike(Quiet(x, [x.t EXCEPT !.carry = v]), Quiet(y, [y.t EXCEPT !.carry = v]))
    BY <1>1, TermsAlike, QuietAlike
<1>5. \A k : Alike(PlaceCp(done(x), k), PlaceCp(done(y), k))
  <2>1. ASSUME NEW s, Sound(s)
        PROVE  done(s) = [s EXCEPT !.t = none(s)] /\ done(s) \in Snapshots
    <3>1. s \in Snapshots /\ s.t \in Terms BY <2>1 DEF Sound, Snapshots
    <3>2. s.t.savedRow \in RowIds /\ s.t.savedCol \in 0 .. Cols /\ <<>> \in Carries
        BY <3>1, TermFields DEF Carries
    <3>3. none(s) \in Terms BY <3>1, <3>2, OtherRegisters
    <3>4. done(s) = [s EXCEPT !.t = none(s)] BY <3>1 DEF Snapshots
    <3> HIDE DEF none, done
    <3> QED BY <3>1, <3>3, <3>4 DEF Snapshots
  <2> HIDE DEF none, done
  <2>2. done(x) \in Snapshots /\ done(y) \in Snapshots /\ Alike(done(x), done(y))
      BY <2>1, <1>1, <1>2 DEF Alike, SamePlaces, Snapshots
  <2> QED BY <2>2, PlaceCpAlike
<1>6. CASE c = <<>>
  <2>1. \A s \in {x, y} : GroundByte(s, b) =
            CASE b \in C0 -> Control(s, b)
              [] b \in DOMAIN Letter -> PlaceCp(s, Letter[b])
              [] b \in DOMAIN LeadLength -> Quiet(s, [s.t EXCEPT !.carry = <<b>>])
              [] OTHER -> EncodingError(s)
      BY <1>1, <1>6 DEF GroundByte
  <2>2. /\ b \in C0 => b \notin DOMAIN Letter \cup DOMAIN LeadLength
        /\ b \in DOMAIN Letter => b \notin DOMAIN LeadLength
      BY TerminalAssumption
  <2>3. \A s \in {x, y} : GroundByte(s, b) =
            IF b \in C0 THEN Control(s, b)
            ELSE IF b \in DOMAIN Letter THEN PlaceCp(s, Letter[b])
            ELSE IF b \in DOMAIN LeadLength THEN Quiet(s, [s.t EXCEPT !.carry = <<b>>])
            ELSE EncodingError(s)
      BY <2>1, <2>2
  <2>4. Alike(Control(x, b), Control(y, b)) BY <1>1, ControlAlike
  <2>5. Alike(PlaceCp(x, Letter[b]), PlaceCp(y, Letter[b])) BY <1>1, PlaceCpAlike
  <2> QED BY <2>3, <2>4, <2>5, <1>3, <1>4
<1>7. CASE c # <<>>
  <2>1. \A s \in {x, y} : GroundByte(s, b) =
            IF b \notin Conts THEN EncodingError(s)
            ELSE IF ~whole THEN Quiet(s, [s.t EXCEPT !.carry = a])
            ELSE IF Decode[a] = "malformed" THEN EncodingError(s)
            ELSE PlaceCp(done(s), Decode[a])
      BY <1>1, <1>7 DEF GroundByte
  <2> HIDE DEF a, whole, done
  <2> QED BY <2>1, <1>3, <1>4, <1>5
<1> QED BY <1>6, <1>7

LEMMA EscAlike ==
    ASSUME NEW x \in Snapshots, NEW y \in Snapshots, Alike(x, y), x.t.state = "ESC", NEW b
    PROVE  Alike(EscByte(x, b), EscByte(y, b))
<1> DEFINE ground(s) == [s.t EXCEPT !.state = "GROUND"]
<1>1. /\ x.t \in TermRecords /\ y.t \in TermRecords /\ SameTerm(x.t, y.t)
      /\ x.p = y.p /\ x.t.state # "CSI"
    BY DEF Alike, SamePlaces, Snapshots, Terms
<1>2. SameTerm(x.t, x.t) BY DEF SameTerm
<1>3. Alike(Quiet(x, CsiBegun(x.t)), Quiet(y, CsiBegun(y.t)))
  <2>1. CsiBegun(x.t) = CsiBegun(y.t) BY <1>1, TermsAlike
  <2>2. SameTerm(CsiBegun(x.t), CsiBegun(y.t)) BY <2>1 DEF SameTerm
  <2> QED BY <2>2, QuietAlike
<1>4. Alike(Quiet(x, OscBegun(x.t)), Quiet(y, OscBegun(y.t)))
    BY <1>1, TermsAlike, QuietAlike
<1>5. SameTerm(ground(x), ground(y)) BY <1>1, TermsAlike
<1>6. Alike(Quiet(x, ground(x)), Quiet(y, ground(y))) BY <1>5, QuietAlike
<1>7. Alike(Quiet(x, x.t), Quiet(y, y.t)) BY <1>1, QuietAlike
<1>8. Alike(Control(x, b), Control(y, b)) BY <1>1, ControlAlike
<1>9. SameTerm(EscOnTerm(x, b), EscOnTerm(y, b))
  <2>1. CASE b = "c"
    <3>1. ParserReset(x.t) = ParserReset(y.t) BY <1>1, TermsAlike
    <3>2. SameTerm(ParserReset(x.t), ParserReset(y.t)) BY <3>1 DEF SameTerm
    <3> QED BY <2>1, <3>2 DEF EscOnTerm
  <2>2. CASE b = "7"
    <3> DEFINE saved(s) == [[s.t EXCEPT !.savedRow = x.p.row, !.savedCol = x.p.col]
                               EXCEPT !.state = "GROUND"]
    <3>1. SameTerm(saved(x), saved(y)) BY <1>1, TermsAlike
    <3>2. EscOnTerm(x, b) = saved(x) /\ EscOnTerm(y, b) = saved(y)
        BY <1>1, <2>2 DEF EscOnTerm
    <3> HIDE DEF saved
    <3> QED BY <3>1, <3>2
  <2>3. CASE b \notin {"c", "7"} BY <2>3, <1>5 DEF EscOnTerm
  <2> QED BY <2>1, <2>2, <2>3
<1>10. b \in {"8", "D", "E", "M", "c"} => EscOnPlane(x, b) = EscOnPlane(y, b)
    BY <1>1 DEF EscOnPlane, SameTerm
<1>11. b \in {"8", "D", "E", "M", "c"} =>
           Alike(Becoming(x, EscOnTerm(x, b), EscOnPlane(x, b), "escape"),
                 Becoming(y, EscOnTerm(y, b), EscOnPlane(y, b), "escape"))
    BY <1>9, <1>10, BecomingAlike
<1>12. Alike(Becoming(x, EscOnTerm(x, b), x.p, "escape"),
             Becoming(y, EscOnTerm(y, b), y.p, "escape"))
    BY <1>1, <1>9, BecomingAlike
<1>13. Alike(Becoming(x, ground(x), x.p, "unsupported"),
             Becoming(y, ground(y), y.p, "unsupported"))
    BY <1>1, <1>5, BecomingAlike
<1>14. \A s \in {x, y} : EscByte(s, b) =
             IF b = "[" THEN Quiet(s, CsiBegun(s.t))
             ELSE IF b = "]" THEN Quiet(s, OscBegun(s.t))
             ELSE IF b = "\\" THEN Quiet(s, ground(s))
             ELSE IF b = "ESC" THEN Quiet(s, s.t)
             ELSE IF b \in C0 THEN Control(s, b)
             ELSE IF b \in {"8", "D", "E", "M", "c"}
             THEN Becoming(s, EscOnTerm(s, b), EscOnPlane(s, b), "escape")
             ELSE IF b = "7" THEN Becoming(s, EscOnTerm(s, b), s.p, "escape")
             ELSE Becoming(s, ground(s), s.p, "unsupported")
    BY EscByteIs
<1> HIDE DEF ground
<1> QED BY <1>3, <1>4, <1>6, <1>7, <1>8, <1>11, <1>12, <1>13, <1>14

LEMMA OscAlike ==
    ASSUME NEW x \in Snapshots, NEW y \in Snapshots, Alike(x, y), x.t.state \in OscStates,
           NEW b
    PROVE  /\ Alike(OscEnded(x), OscEnded(y))
           /\ Alike(OscByte(x, b), OscByte(y, b))
<1> DEFINE closed(s) == [s.t EXCEPT !.osc = 0, !.oscOverflow = FALSE, !.state = "GROUND"]
           e == IF x.t.oscOverflow THEN "unsupported" ELSE "quiet"
           counted(s) == IF s.t.osc < MaxOsc THEN [s.t EXCEPT !.osc = @ + 1]
                         ELSE [s.t EXCEPT !.oscOverflow = TRUE]
           waiting(s) == [s.t EXCEPT !.state = "OSC_ESC"]
<1>1. /\ x.t \in TermRecords /\ y.t \in TermRecords /\ SameTerm(x.t, y.t)
      /\ x.p = y.p /\ x.t.state # "CSI"
    BY DEF Alike, SamePlaces, Snapshots, Terms, OscStates
<1>2. x.t.osc = y.t.osc /\ x.t.oscOverflow = y.t.oscOverflow BY <1>1 DEF SameTerm
<1>3. SameTerm(closed(x), closed(y)) /\ SameTerm(waiting(x), waiting(y))
    BY <1>1, TermsAlike
<1>4. SameTerm(counted(x), counted(y))
  <2> DEFINE o == x.t.osc + 1
  <2>1. SameTerm([x.t EXCEPT !.osc = o], [y.t EXCEPT !.osc = o])
        /\ SameTerm([x.t EXCEPT !.oscOverflow = TRUE], [y.t EXCEPT !.oscOverflow = TRUE])
      BY <1>1, TermsAlike
  <2>2. \A s \in {x, y} : counted(s) = IF x.t.osc < MaxOsc THEN [s.t EXCEPT !.osc = o]
                                       ELSE [s.t EXCEPT !.oscOverflow = TRUE]
      BY <1>1, <1>2 DEF TermRecords
  <2> HIDE DEF o, counted
  <2> QED BY <2>1, <2>2
<1>5. Alike(OscEnded(x), OscEnded(y))
  <2>1. OscEnded(x) = Becoming(x, closed(x), x.p, e)
        /\ OscEnded(y) = Becoming(y, closed(y), x.p, e)
      BY <1>1, <1>2 DEF OscEnded, Becoming, Snapshots
  <2> HIDE DEF closed, e
  <2> QED BY <2>1, <1>3, BecomingAlike
<1>6. Alike(Quiet(x, waiting(x)), Quiet(y, waiting(y)))
      /\ Alike(Quiet(x, counted(x)), Quiet(y, counted(y)))
    BY <1>3, <1>4, QuietAlike
<1>7. \A s \in {x, y} : OscByte(s, b) =
          IF b = "BEL" THEN OscEnded(s)
          ELSE IF b = "ESC" THEN Quiet(s, waiting(s)) ELSE Quiet(s, counted(s))
    BY DEF OscByte
<1> HIDE DEF waiting, counted
<1> QED BY <1>5, <1>6, <1>7

LEMMA OscEscAlike ==
    ASSUME NEW x \in Snapshots, NEW y \in Snapshots, Alike(x, y), x.t.state = "OSC_ESC",
           NEW b
    PROVE  Alike(OscEscByte(x, b), OscEscByte(y, b))
<1> DEFINE back(s) == [s.t EXCEPT !.state = "OSC"]
           u(s) == [s EXCEPT !.t.state = "OSC"]
<1>1. /\ x.t \in TermRecords /\ y.t \in TermRecords /\ SameTerm(x.t, y.t)
      /\ x.p = y.p /\ x.t.state # "CSI" /\ y.t.state = "OSC_ESC"
    BY DEF Alike, SamePlaces, Snapshots, Terms, SameTerm
<1>2. SameTerm(back(x), back(y)) BY <1>1, TermsAlike
<1>3. ASSUME NEW s \in Snapshots, s.t.state = "OSC_ESC"
      PROVE  u(s) \in Snapshots /\ u(s).t = back(s) /\ SamePlaces(s, u(s)) /\ u(s).e = s.e
  <2>1. s.t \in Terms /\ "OSC" \in OscStates BY DEF Snapshots, OscStates
  <2>2. back(s) \in Terms BY <2>1, StateStep
  <2>3. u(s) = [s EXCEPT !.t = back(s)] BY DEF Snapshots
  <2> HIDE DEF back, u
  <2> QED BY <2>2, <2>3 DEF Snapshots, SamePlaces
<1>4. u(x).t.state = "OSC"
    BY <1>1, <1>3 DEF TermRecords
<1> HIDE DEF back, u
<1>5. /\ u(x) \in Snapshots /\ u(y) \in Snapshots /\ u(x).t = back(x) /\ u(y).t = back(y)
      /\ SamePlaces(x, u(x)) /\ SamePlaces(y, u(y)) /\ u(x).e = x.e /\ u(y).e = y.e
    BY <1>1, <1>3
<1>6. Alike(u(x), u(y)) BY <1>2, <1>5 DEF Alike, SamePlaces
<1>7. Alike(OscByte(u(x), b), OscByte(u(y), b)) BY <1>4, <1>5, <1>6, OscAlike DEF OscStates
<1>8. Alike(OscEnded(x), OscEnded(y)) BY OscAlike DEF OscStates
<1>9. \A s \in {x, y} : OscEscByte(s, b) = IF b = "\\" THEN OscEnded(s) ELSE OscByte(u(s), b)
    BY DEF OscEscByte, u
<1> QED BY <1>7, <1>8, <1>9

LEMMA FedAlike ==
    ASSUME NEW x, Sound(x), NEW y, Sound(y), Alike(x, y), NEW b
    PROVE  Alike(FedOn(x, b), FedOn(y, b))
<1>1. /\ x \in Snapshots /\ y \in Snapshots /\ SameTerm(x.t, y.t) /\ x.e = y.e
      /\ x.t.state = y.t.state
      /\ x.t.state \in {"GROUND", "ESC", "CSI", "OSC", "OSC_ESC"}
    BY TermFields DEF Alike, SameTerm, Sound, Snapshots
<1>2. Alike(Fed(x, b), Fed(y, b))
  <2>1. CASE x.t.state = "GROUND" BY <2>1, <1>1, GroundAlike DEF Fed
  <2>2. CASE x.t.state = "ESC" BY <2>2, <1>1, EscAlike DEF Fed
  <2>3. CASE x.t.state = "CSI"
    <3>1. x = y BY <2>3, <1>1 DEF Alike, SamePlaces, SameTerm, Snapshots
    <3> QED BY <3>1 DEF Alike, SamePlaces, SameTerm
  <2>4. CASE x.t.state = "OSC" BY <2>4, <1>1, OscAlike DEF Fed, OscStates
  <2>5. CASE x.t.state = "OSC_ESC" BY <2>5, <1>1, OscEscAlike DEF Fed
  <2> QED BY <2>1, <2>2, <2>3, <2>4, <2>5, <1>1
<1> QED BY <1>1, <1>2 DEF FedOn

LEMMA CallsAlike ==
    ASSUME NEW x, Sound(x), NEW y, Sound(y), Alike(x, y), NEW bytes, Len(bytes) \in Nat
    PROVE  Alike(FedAll(x, bytes), FedAll(y, bytes))
<1> DEFINE n == Len(bytes)
           f == Stages(x, bytes)
           g == Stages(y, bytes)
           h == [i \in 0 .. n |-> IF Alike(f[i], g[i]) THEN 1 ELSE 0]
           T == {1}
<1>1. /\ f[0] = x /\ FedAll(x, bytes) = f[n]
      /\ \A i \in 1 .. n : f[i] = FedOn(f[i - 1], bytes[i])
      /\ \A i \in 0 .. n : Sound(f[i])
    BY StagesAre
<1>2. /\ g[0] = y /\ FedAll(y, bytes) = g[n]
      /\ \A i \in 1 .. n : g[i] = FedOn(g[i - 1], bytes[i])
      /\ \A i \in 0 .. n : Sound(g[i])
    BY StagesAre
<1> HIDE DEF f, g, n
<1>3. n \in Nat /\ 0 \in 0 .. n /\ n \in 0 .. n BY DEF n
<1>4. h[0] \in T BY <1>1, <1>2, <1>3
<1>5. ASSUME NEW i \in 1 .. n, h[i - 1] \in T PROVE h[i] \in T
  <2>1. i \in 0 .. n /\ i - 1 \in 0 .. n BY <1>3
  <2>2. Alike(f[i - 1], g[i - 1]) BY <1>5, <2>1
  <2>3. Sound(f[i - 1]) /\ Sound(g[i - 1]) BY <1>1, <1>2, <2>1
  <2>4. Alike(f[i], g[i]) BY <1>1, <1>2, <2>2, <2>3, FedAlike
  <2> QED BY <2>1, <2>4
<1> HIDE DEF h, T
<1>6. h[n] \in T BY <1>3, <1>4, <1>5, StaysWithin
<1>7. Alike(f[n], g[n]) BY <1>3, <1>6 DEF h, T
<1> QED BY <1>1, <1>2, <1>7

\* ESC \ where no character is unfinished: whatever was begun is ended, and the
\* terminal is as after suts_scte_reset but for the registers.
LEMMA TerminatorIs ==
    ASSUME NEW x, Sound(x), x.t.carry = <<>>, x.e # "encoding_error"
    PROVE  LET y == FedAll(x, Terminator)
           IN  /\ Sound(y) /\ SamePlaces(x, y) /\ y.t.state = "GROUND"
               /\ SameTerm(y.t, ParserReset(x.t))
<1> DEFINE u == FedOn(x, "ESC")
           v == FedOn(u, "\\")
           t == [x.t EXCEPT !.osc = 0, !.oscOverflow = FALSE, !.state = "GROUND"]
<1>1. FedAll(x, Terminator) = v /\ Sound(u) /\ Sound(v)
  <2> DEFINE f == Stages(x, Terminator)
  <2>1. /\ Len(Terminator) = 2 /\ Terminator[1] = "ESC" /\ Terminator[2] = "\\"
      BY DEF Terminator
  <2>2. /\ f[0] = x /\ FedAll(x, Terminator) = f[Len(Terminator)]
        /\ \A i \in 1 .. Len(Terminator) : f[i] = FedOn(f[i - 1], Terminator[i])
        /\ \A i \in 0 .. Len(Terminator) : Sound(f[i])
    <3>1. Len(Terminator) \in Nat BY <2>1
    <3> QED BY <3>1, StagesAre
  <2> HIDE DEF f
  <2>3. f[1] = FedOn(f[0], Terminator[1]) /\ f[2] = FedOn(f[1], Terminator[2])
      BY <2>1, <2>2
  <2>4. Sound(f[1]) /\ Sound(f[2]) BY <2>1, <2>2
  <2> QED BY <2>1, <2>2, <2>3, <2>4
<1>2. /\ SamePlaces(x, u) /\ u.e # "encoding_error"
      /\ u.t = [x.t EXCEPT !.state = IF x.t.state \in OscStates
                                     THEN "OSC_ESC" ELSE "ESC"]
    BY EscSent
<1> HIDE DEF u
<1>3. /\ u \in Snapshots /\ x.t \in TermRecords /\ Idle(x.t) /\ v = Fed(u, "\\")
    BY <1>1, <1>2 DEF Sound, Snapshots, Terms, FedOn
<1>4. v.t = t /\ SamePlaces(u, v)
  <2>1. CASE x.t.state \in OscStates
    <3>1. u.t = [x.t EXCEPT !.state = "OSC_ESC"] BY <1>2, <2>1
    <3>2. u.t.state = "OSC_ESC" BY <3>1, <1>3 DEF TermRecords
    <3>3. v = OscEnded(u) BY <3>2, <1>3 DEF Fed, OscEscByte
    <3>4. [u.t EXCEPT !.osc = 0, !.oscOverflow = FALSE, !.state = "GROUND"] = t
        BY <3>1, <1>3 DEF TermRecords
    <3> QED BY <3>3, <3>4, <1>3 DEF OscEnded, SamePlaces, Snapshots
  <2>2. CASE x.t.state \notin OscStates
    <3>1. u.t = [x.t EXCEPT !.state = "ESC"] BY <1>2, <2>2
    <3>2. u.t.state = "ESC" BY <3>1, <1>3 DEF TermRecords
    <3>3. v = Quiet(u, [u.t EXCEPT !.state = "GROUND"])
      <4>1. EscByte(u, "\\") = Quiet(u, [u.t EXCEPT !.state = "GROUND"])
          BY <1>3, EscByteIs
      <4> QED BY <4>1, <3>2, <1>3 DEF Fed
    <3>4. x.t.osc = 0 /\ x.t.oscOverflow = FALSE BY <1>3, <2>2 DEF Idle
    <3>5. [u.t EXCEPT !.state = "GROUND"] = t
        BY <3>1, <3>4, <1>3 DEF TermRecords
    <3> QED BY <3>3, <3>5, <1>3, QuietIs
  <2> QED BY <2>1, <2>2
<1>5. t.state = "GROUND" BY <1>3 DEF TermRecords
<1>6. SameTerm(t, ParserReset(x.t))
    BY <1>3 DEF SameTerm, ParserReset, CsiReset, TermRecords
<1> HIDE DEF t, v
<1> QED BY <1>1, <1>2, <1>4, <1>5, <1>6 DEF SamePlaces

\* Whatever a client left unfinished, ESC \ ends it without touching the
\* plane, and a sequence after it does what it does after suts_scte_reset.
THEOREM ParserResynchronises == TermSpec => []Resynchronises
<1>1. TermInv => Resynchronises
  <2> SUFFICES ASSUME TermInv, term.carry = <<>>, NEW u \in Unfinished
               PROVE  LET x == After(u)
                          s == FedAll(x, Terminator)
                          fresh == [s EXCEPT !.t = ParserReset(x.t)]
                      IN  /\ s.t.state = "GROUND" /\ s.p = x.p
                          /\ \A i \in Probes :
                                SameOutcome(FedAll(s, i), FedAll(fresh, i))
      BY DEF Resynchronises, Abandoned
  <2> DEFINE c == Current("whole")
             x == After(u)
             s == FedAll(x, Terminator)
             fresh == [s EXCEPT !.t = ParserReset(x.t)]
  <2>1. Sound(c) /\ c.t = term /\ c.e = "none" BY CurrentIs
  <2>2. u \in Seq(STRING) /\ Unended(u) BY TerminalAssumption
  <2> HIDE DEF c
  <2>3. Sound(FedAll(c, u)) /\ FedAll(c, u).t.carry = <<>>
        /\ FedAll(c, u).e # "encoding_error"
      BY <2>1, <2>2, LeftBehind
  <2>4. Sound(x) /\ x.t.carry = <<>> /\ x.e # "encoding_error"
      BY <2>3 DEF After, c
  <2> HIDE DEF x
  <2>5. /\ Sound(s) /\ SamePlaces(x, s) /\ s.t.state = "GROUND"
        /\ SameTerm(s.t, ParserReset(x.t))
      BY <2>4, TerminatorIs
  <2> HIDE DEF s
  <2>6. ParserReset(x.t) \in Terms
    <3>1. x.t \in Terms BY <2>4 DEF Sound, Snapshots
    <3> QED BY <3>1, StateStep
  <2>7. /\ fresh \in Snapshots /\ SamePlaces(s, fresh) /\ fresh.e = s.e
        /\ fresh.t = ParserReset(x.t)
      BY <2>5, <2>6 DEF Sound, Snapshots, SamePlaces
  <2> HIDE DEF fresh
  <2>8. Sound(fresh) /\ Alike(s, fresh)
      BY <2>5, <2>7 DEF Sound, Alike, SamePlaces
  <2>9. ASSUME NEW i \in Probes PROVE SameOutcome(FedAll(s, i), FedAll(fresh, i))
    <3>1. i \in Seq(STRING) BY TerminalAssumption
    <3>2. Len(i) \in Nat BY <3>1
    <3>3. Alike(FedAll(s, i), FedAll(fresh, i)) BY <2>5, <2>8, <3>2, CallsAlike
    <3> QED BY <3>3 DEF Alike, SamePlaces, SameTerm, SameOutcome
  <2>10. s.p = x.p BY <2>5 DEF SamePlaces
  <2> QED BY <2>5, <2>9, <2>10 DEF fresh, s, x
<1> QED BY <1>1, TermInvAlways, PTL

=============================================================================
