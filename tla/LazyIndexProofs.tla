---------------------------- MODULE LazyIndexProofs ----------------------------
(* The lazily built index is exact for every table, size and hash, as long *)
(* as the callers keep the start-up order.                                 *)
EXTENDS LazyIndex, TLAPS

(* At most one thread builds, and then it is alone. *)
Alone == \A t, u \in Threads : Building(t) /\ u # t => pc[u] = "idle"

(* How far each thread has come. *)
Cleared(t) == pc[t] = "clear" => \A s \in 0 .. at[t] - 1 : index[s] = 0

InPlace(t) ==
  pc[t] = "place" =>
    /\ Placed(row[t] - 1)
    /\ \A q \in Arc(home[KeyOf[row[t]]], at[t]) : index[q] \in 1 .. row[t] - 1

InProbe(t) ==
  pc[t] = "probe" =>
    /\ ready /\ key[t] \in Keys
    /\ \A q \in Arc(home[key[t]], at[t]) : index[q] # 0 /\ KeyOf[index[q]] # key[t]

IInv ==
  /\ TypeOK /\ Alone /\ PublishedWhole
  /\ \A t \in Threads : Cleared(t) /\ InPlace(t) /\ InProbe(t)

--------------------------------------------------------------------------------
(* Going one slot on adds the slot just left to the arc walked. *)
LEMMA ArcGrows ==
  ASSUME NEW h \in Slot, NEW s \in Slot, Slots \in Nat, After(s) # h
  PROVE  After(s) \in Slot /\ Arc(h, After(s)) = Arc(h, s) \cup {s}
<1>1. CASE s = Slots - 1
  BY <1>1 DEF Arc, After, Slot
<1>2. CASE s # Slots - 1
  BY <1>2 DEF Arc, After, Slot
<1> QED BY <1>1, <1>2

(* A full turn walks every slot. *)
LEMMA ArcFull ==
  ASSUME NEW h \in Slot, NEW s \in Slot, Slots \in Nat, After(s) = h
  PROVE  Slot \subseteq Arc(h, s) \cup {s}
  BY DEF Arc, After, Slot

LEMMA ArcParts ==
  ASSUME NEW h \in Slot, NEW s \in Slot, NEW e \in Slot, Slots \in Nat
  PROVE  /\ Arc(h, s) \subseteq Slot
         /\ s \notin Arc(h, s)
         /\ Arc(h, h) = {}
         /\ s = e \/ s \in Arc(h, e) \/ e \in Arc(h, s)
<1>1. Arc(h, s) \subseteq Slot /\ s \notin Arc(h, s)
  BY DEF Arc, Slot
<1>2. Arc(h, h) = {}
  BY DEF Arc, Slot
<1>3. s = e \/ s \in Arc(h, e) \/ e \in Arc(h, s)
  BY DEF Arc, Slot
<1> QED BY <1>1, <1>2, <1>3

LEMMA Sorts ==
  /\ 0 \in Slot /\ 1 \in Row /\ 0 \notin Row
  /\ \A s \in Slot : After(s) \in Slot
  /\ \A s \in Slot : s # Slots - 1 => s + 1 \in Slot
  /\ \A r \in Row : KeyOf[r] \in Keys /\ (r < Rows => r + 1 \in Row)
  /\ \A f \in Homes : f \in [Keys -> Slot]
<1>1. \A s \in Slot : After(s) \in Slot
  BY IndexAssumption DEF Slot, After
<1> QED BY <1>1, IndexAssumption DEF Slot, Row

LEMMA Kinds == \A g \in Registries : g.init \in {"once", "always"}
<1> DEFINE Known(g) == g.init \in {"once", "always"}
<1>1. \A s, n : Known(Registry(s, n, "once")) /\ Known(Registry(s, n, "always"))
  BY DEF Registry
<1> HIDE DEF Known
<1>2. Known(Sucsl) /\ Known(Sums) /\ Known(SumsVariants) /\ Known(Suvtl) /\ Known(Sukemet) /\ Known(Sueasd)
  BY <1>1 DEF Sucsl, Sums, SumsVariants, Suvtl, Sukemet, Sueasd
<1>3. Known(Suamr) /\ Known(Sisr) /\ Known(SisrLinks) /\ Known(Sidn) /\ Known(Sueps) /\ Known(Ssre)
  BY <1>1 DEF Suamr, Sisr, SisrLinks, Sidn, Sueps, Ssre
<1>4. Known(Sncs) /\ Known(Sip) /\ Known(Sivd) /\ Known(Sldf) /\ Known(ScssAttributes) /\ Known(ScssSkeletons)
  BY <1>1 DEF Sncs, Sip, Sivd, Sldf, ScssAttributes, ScssSkeletons
<1>5. \A g \in Registries : Known(g)
  BY <1>2, <1>3, <1>4 DEF Registries
<1> QED BY <1>5 DEF Known

LEMMA Types == Init => TypeOK
<1> SUFFICES ASSUME Init PROVE TypeOK OBVIOUS
<1>1. builds \in {"once", "always"}
  BY Kinds DEF Init
<1>2. home \in [Keys -> Slot]
  BY Sorts DEF Init
<1>3. 0 \in Slot /\ 1 \in Row
  BY Sorts
<1> QED BY <1>1, <1>2, <1>3 DEF Init, TypeOK

LEMMA StepTypes ==
  ASSUME TypeOK, [Next]_vars
  PROVE  TypeOK'
<1> USE Sorts DEF TypeOK
<1>1. ASSUME NEW t \in Threads, CallInit(t) PROVE TypeOK'
  BY <1>1 DEF CallInit, StartBuild
<1>2. ASSUME NEW t \in Threads, NEW k \in Keys, CallFind(t, k) PROVE TypeOK'
  <2>1. CASE ready
    BY <1>2, <2>1 DEF CallFind
  <2>2. CASE ~ready
    BY <1>2, <2>2 DEF CallFind, StartBuild
  <2> QED BY <2>1, <2>2
<1>3. ASSUME NEW t \in Threads, Clear(t) PROVE TypeOK'
  <2>1. CASE at[t] = Slots - 1
    BY <1>3, <2>1 DEF Clear
  <2>2. CASE at[t] # Slots - 1
    BY <1>3, <2>2 DEF Clear
  <2> QED BY <2>1, <2>2
<1>4. ASSUME NEW t \in Threads, PlaceOccupied(t) PROVE TypeOK'
  BY <1>4 DEF PlaceOccupied
<1>5. ASSUME NEW t \in Threads, PlaceRow(t) PROVE TypeOK'
  BY <1>5 DEF PlaceRow
<1>6. ASSUME NEW t \in Threads, PlaceLast(t) PROVE TypeOK'
  <2>1. CASE key[t] = NoKey
    BY <1>6, <2>1 DEF PlaceLast
  <2>2. CASE key[t] # NoKey
    BY <1>6, <2>2 DEF PlaceLast
  <2> QED BY <2>1, <2>2
<1>7. ASSUME NEW t \in Threads, ProbeHit(t) \/ ProbeMiss(t) \/ ProbeNext(t) PROVE TypeOK'
  <2>1. CASE ProbeHit(t)
    BY <2>1 DEF ProbeHit, Return, Match
  <2>2. CASE ProbeMiss(t)
    BY <2>2 DEF ProbeMiss, Return
  <2>3. CASE ProbeNext(t)
    BY <2>3 DEF ProbeNext
  <2> QED BY <1>7, <2>1, <2>2, <2>3
<1>8. CASE UNCHANGED vars
  BY <1>8 DEF vars
<1> QED BY <1>1, <1>2, <1>3, <1>4, <1>5, <1>6, <1>7, <1>8 DEF Next, Step

(* Whoever may build the index is alone, and builds it alone. *)
LEMMA StepAlone ==
  ASSUME Serialised, TypeOK, Alone, [Next]_vars
  PROVE  Alone'
<1> USE DEF TypeOK
<1>1. ASSUME NEW t \in Threads, CallInit(t) PROVE Alone'
  BY <1>1 DEF CallInit, MayCall, StartBuild, Alone, Building
<1>2. ASSUME NEW t \in Threads, NEW k \in Keys, CallFind(t, k) PROVE Alone'
  <2>1. CASE ready
    BY <1>2, <2>1 DEF CallFind, MayCall, Alone, Building
  <2>2. CASE ~ready
    BY <1>2, <2>2 DEF CallFind, MayCall, Writes, StartBuild, Alone, Building
  <2> QED BY <2>1, <2>2
<1>3. ASSUME NEW t \in Threads, Step(t) PROVE Alone'
  BY <1>3 DEF Step, Clear, PlaceOccupied, PlaceRow, PlaceLast, ProbeHit, ProbeMiss, ProbeNext, Return,
              Alone, Building
<1>4. CASE UNCHANGED vars
  BY <1>4 DEF vars, Alone, Building
<1> QED BY <1>1, <1>2, <1>3, <1>4 DEF Next

(* A thread that does not step, in a step that leaves the index alone. *)
LEMMA Undisturbed ==
  ASSUME NEW t \in Threads, Cleared(t) /\ InPlace(t) /\ InProbe(t),
         UNCHANGED <<home, index>>, ready => ready',
         pc'[t] = pc[t], key'[t] = key[t], row'[t] = row[t], at'[t] = at[t]
  PROVE  (Cleared(t) /\ InPlace(t) /\ InProbe(t))'
  BY DEF Cleared, InPlace, InProbe, Placed, Arc

LEMMA IdleKeeps ==
  ASSUME NEW t \in Threads, pc'[t] = "idle"
  PROVE  (Cleared(t) /\ InPlace(t) /\ InProbe(t))'
  BY DEF Cleared, InPlace, InProbe

(* Placing the next row at a free slot that ends its chain. *)
LEMMA PlaceOne ==
  ASSUME NEW n \in Row, NEW s \in Slot, TypeOK, Placed(n - 1), index[s] = 0,
         \A q \in Arc(home[KeyOf[n]], s) : index[q] \in 1 .. n - 1,
         index' = [index EXCEPT ![s] = n], home' = home
  PROVE  Placed(n)'
<1> n \in Nat /\ n >= 1 /\ 1 .. n = (1 .. n - 1) \cup {n} /\ (0 .. n - 1) \subseteq 0 .. n
  BY IndexAssumption DEF Row
<1> index \in [Slot -> {0} \cup Row]
  BY DEF TypeOK
<1>1. \A q \in Slot : index'[q] = IF q = s THEN n ELSE index[q]
  OBVIOUS
<1>2. \A q \in Slot : index'[q] \in 0 .. n
  BY <1>1 DEF Placed
<1>3. \A q \in Slot : index[q] # n
  BY DEF Placed
<1>4. \A q, e \in Slot : index'[q] = index'[e] /\ index'[q] # 0 => q = e
  BY <1>1, <1>3 DEF Placed
<1>5. ASSUME NEW r \in 1 .. n
      PROVE  \E q \in Slot : index'[q] = r /\ \A w \in Arc(home[KeyOf[r]], q) : index'[w] \in 1 .. r - 1
  <2> r \in Row /\ home[KeyOf[r]] \in Slot
    BY Sorts, IndexAssumption DEF TypeOK, Row
  <2>1. CASE r = n
    <3> \A w \in Arc(home[KeyOf[r]], s) : w \in Slot /\ w # s
      BY ArcParts, IndexAssumption
    <3> QED BY <1>1, <2>1
  <2>2. CASE r \in 1 .. n - 1
    <3>1. PICK q \in Slot : index[q] = r /\ \A w \in Arc(home[KeyOf[r]], q) : index[w] \in 1 .. r - 1
      BY <2>2 DEF Placed
    <3>2. \A w \in Arc(home[KeyOf[r]], q) : w \in Slot
      BY ArcParts, IndexAssumption
    <3> QED BY <1>1, <3>1, <3>2
  <2> QED BY <2>1, <2>2
<1> QED BY <1>2, <1>4, <1>5 DEF Placed, Arc

(* A step that writes the index finds every other thread idle. *)
LEMMA OthersIdle ==
  ASSUME TypeOK, Alone, NEW t \in Threads, Building(t),
         pc' = [pc EXCEPT ![t] = pc'[t]]
  PROVE  \A u \in Threads \ {t} : (Cleared(u) /\ InPlace(u) /\ InProbe(u))'
<1> TAKE u \in Threads \ {t}
<1>1. pc'[u] = "idle"
  BY DEF Alone, TypeOK
<1> QED BY <1>1, IdleKeeps

LEMMA StepWhole ==
  ASSUME Serialised, IInv, [Next]_vars
  PROVE  PublishedWhole' /\ \A t \in Threads : (Cleared(t) /\ InPlace(t) /\ InProbe(t))'
<1> DEFINE Fine(t) == Cleared(t) /\ InPlace(t) /\ InProbe(t)
<1> USE DEF IInv
<1>t. TypeOK /\ TypeOK'
  BY StepTypes
<1>1. ASSUME NEW t \in Threads, CallInit(t) PROVE PublishedWhole' /\ \A u \in Threads : Fine(u)'
  <2>1. Building(t)'
    BY <1>t, <1>1 DEF CallInit, StartBuild, Building, TypeOK
  <2>2. Fine(t)'
    BY <1>t, <1>1 DEF CallInit, StartBuild, Cleared, InPlace, InProbe, TypeOK
  <2>3. \A u \in Threads \ {t} : Fine(u)'
    BY <1>t, <1>1, Undisturbed DEF CallInit, StartBuild, TypeOK
  <2> QED BY <2>1, <2>2, <2>3 DEF PublishedWhole
<1>2. ASSUME NEW t \in Threads, NEW k \in Keys, CallFind(t, k)
      PROVE PublishedWhole' /\ \A u \in Threads : Fine(u)'
  <2>1. \A u \in Threads \ {t} : Fine(u)'
    BY <1>t, <1>2, Undisturbed DEF CallFind, StartBuild, TypeOK
  <2>2. CASE ready
    <3>1. Fine(t)'
      <4>1. home[k] \in Slot /\ Arc(home[k], home[k]) = {}
        BY <1>t, ArcParts, IndexAssumption DEF TypeOK
      <4> QED BY <1>t, <1>2, <2>2, <4>1 DEF CallFind, Cleared, InPlace, InProbe, TypeOK, Arc
    <3>2. PublishedWhole'
      BY <1>t, <1>2, <2>2 DEF CallFind, MayCall, PublishedWhole, Building, TypeOK, Placed, Arc
    <3> QED BY <2>1, <3>1, <3>2
  <2>3. CASE ~ready
    BY <1>t, <1>2, <2>1, <2>3 DEF CallFind, StartBuild, Cleared, InPlace, InProbe, TypeOK, PublishedWhole
  <2> QED BY <2>2, <2>3
<1>3. ASSUME NEW t \in Threads, Clear(t) PROVE PublishedWhole' /\ \A u \in Threads : Fine(u)'
  <2>1. Building(t) /\ Building(t)' /\ pc' = [pc EXCEPT ![t] = pc'[t]]
    BY <1>t, <1>3 DEF Clear, Building, TypeOK
  <2>2. \A u \in Threads \ {t} : Fine(u)'
    BY <1>t, <2>1, OthersIdle
  <2>3. CASE at[t] = Slots - 1
    <3>1. \A s \in Slot : index'[s] = 0
      BY <1>t, <1>3, <2>3, IndexAssumption DEF Clear, Cleared, TypeOK, Slot
    <3>2. pc'[t] = "place" /\ row'[t] = 1 /\ at'[t] = home[KeyOf[1]] /\ home' = home
      BY <1>t, <1>3, <2>3 DEF Clear, TypeOK
    <3>3. Arc(home[KeyOf[1]], home[KeyOf[1]]) = {}
      BY <1>t, Sorts, ArcParts, IndexAssumption DEF TypeOK
    <3>4. Placed(0)'
      BY <3>1 DEF Placed
    <3>5. Fine(t)'
      BY <3>2, <3>3, <3>4 DEF Cleared, InPlace, InProbe, Arc
    <3> QED BY <2>1, <2>2, <3>5 DEF PublishedWhole
  <2>4. CASE at[t] # Slots - 1
    <3>1. Fine(t)'
      BY <1>t, <1>3, <2>4, IndexAssumption DEF Clear, Cleared, InPlace, InProbe, TypeOK, Slot
    <3> QED BY <2>1, <2>2, <3>1 DEF PublishedWhole
  <2> QED BY <2>3, <2>4
<1>4. ASSUME NEW t \in Threads, PlaceOccupied(t) PROVE PublishedWhole' /\ \A u \in Threads : Fine(u)'
  <2>1. Building(t) /\ Building(t)' /\ pc' = [pc EXCEPT ![t] = pc'[t]]
    BY <1>t, <1>4 DEF PlaceOccupied, Building, TypeOK
  <2>2. \A u \in Threads \ {t} : Fine(u)'
    BY <1>t, <2>1, OthersIdle
  <2>3. CASE After(at[t]) = home[KeyOf[row[t]]]
    <3>1. at'[t] = home[KeyOf[row[t]]] /\ at'[t] \in Slot /\ home' = home /\ row' = row /\ index' = index
      BY <1>t, <1>4, <2>3 DEF PlaceOccupied, TypeOK
    <3>2. Arc(at'[t], at'[t]) = {}
      BY <3>1, ArcParts, IndexAssumption
    <3>3. Fine(t)'
      BY <1>t, <1>4, <3>1, <3>2 DEF PlaceOccupied, Cleared, InPlace, InProbe, Placed, Arc, TypeOK
    <3> QED BY <2>1, <2>2, <3>3 DEF PublishedWhole
  <2>4. CASE After(at[t]) # home[KeyOf[row[t]]]
    <3>1. at'[t] = After(at[t]) /\ home' = home /\ row' = row /\ index' = index /\ pc'[t] = "place"
      BY <1>t, <1>4 DEF PlaceOccupied, TypeOK
    <3>2. Arc(home[KeyOf[row[t]]], at'[t]) = Arc(home[KeyOf[row[t]]], at[t]) \cup {at[t]}
      BY <1>t, <2>4, <3>1, ArcGrows, Sorts, IndexAssumption DEF TypeOK
    <3>3. index[at[t]] \in 1 .. row[t] - 1
      BY <1>t, <1>4 DEF PlaceOccupied, InPlace, Placed, TypeOK
    <3>4. InPlace(t)'
      BY <1>4, <3>1, <3>2, <3>3 DEF PlaceOccupied, InPlace, Placed, Arc
    <3> QED BY <2>1, <2>2, <3>1, <3>4 DEF Cleared, InProbe, PublishedWhole
  <2> QED BY <2>3, <2>4
<1>5. ASSUME NEW t \in Threads, PlaceRow(t) PROVE PublishedWhole' /\ \A u \in Threads : Fine(u)'
  <2>1. Building(t) /\ Building(t)' /\ pc' = [pc EXCEPT ![t] = pc'[t]]
    BY <1>t, <1>5 DEF PlaceRow, Building, TypeOK
  <2>2. \A u \in Threads \ {t} : Fine(u)'
    BY <1>t, <2>1, OthersIdle
  <2>0. PICK n \in Row : n = row[t]
    BY <1>t DEF TypeOK
  <2>p. at[t] \in Slot /\ index[at[t]] = 0 /\ pc[t] = "place" /\ home' = home
        /\ index' = [index EXCEPT ![at[t]] = n]
    BY <1>t, <1>5, <2>0 DEF PlaceRow, TypeOK
  <2>q. Placed(n - 1) /\ \A q \in Arc(home[KeyOf[n]], at[t]) : index[q] \in 1 .. n - 1
    BY <1>t, <2>0, <2>p DEF InPlace
  <2>r. PICK s \in Slot : s = at[t]
    BY <2>p
  <2>3. Placed(n)'
    BY <1>t, <2>p, <2>q, <2>r, PlaceOne
  <2>4. row'[t] = n + 1 /\ n \in Nat /\ row'[t] - 1 = n /\ row'[t] \in Row
    BY <1>t, <1>5, <2>0 DEF PlaceRow, TypeOK, Row
  <2>5. at'[t] = home[KeyOf[row'[t]]] /\ home' = home /\ at'[t] \in Slot
    BY <1>t, <1>5, <2>4 DEF PlaceRow, TypeOK
  <2>6. Arc(at'[t], at'[t]) = {}
    BY <2>5, ArcParts, IndexAssumption
  <2>7. pc'[t] = "place" /\ Placed(row[t] - 1)'
    BY <1>5, <2>p, <2>3, <2>4 DEF PlaceRow
  <2>8. Fine(t)'
    BY <2>5, <2>6, <2>7 DEF Cleared, InPlace, InProbe, Arc
  <2> QED BY <2>1, <2>2, <2>8 DEF PublishedWhole
<1>6. ASSUME NEW t \in Threads, PlaceLast(t) PROVE PublishedWhole' /\ \A u \in Threads : Fine(u)'
  <2>1. Building(t) /\ pc' = [pc EXCEPT ![t] = pc'[t]]
    BY <1>t, <1>6 DEF PlaceLast, Building, TypeOK
  <2>2. \A u \in Threads \ {t} : Fine(u)'
    BY <1>t, <2>1, OthersIdle
  <2>3. Placed(Rows)'
    BY <1>t, <1>6, PlaceOne DEF PlaceLast, InPlace, TypeOK
  <2>4. CASE key[t] = NoKey
    BY <1>t, <1>6, <2>2, <2>3, <2>4 DEF PlaceLast, Cleared, InPlace, InProbe, TypeOK, PublishedWhole
  <2>5. CASE key[t] # NoKey
    <3>1. pc'[t] = "probe" /\ at'[t] = home[key[t]] /\ home' = home /\ key' = key /\ ready'
          /\ key[t] \in Keys /\ home[key[t]] \in Slot
      BY <1>t, <1>6, <2>5 DEF PlaceLast, TypeOK
    <3>2. Arc(at'[t], at'[t]) = {}
      BY <3>1, ArcParts, IndexAssumption
    <3>3. Fine(t)'
      BY <3>1, <3>2 DEF Cleared, InPlace, InProbe, Arc
    <3> QED BY <2>2, <2>3, <3>3 DEF PublishedWhole
  <2> QED BY <2>4, <2>5
<1>7. ASSUME NEW t \in Threads, ProbeHit(t) \/ ProbeMiss(t)
      PROVE PublishedWhole' /\ \A u \in Threads : Fine(u)'
  <2>1. pc' = [pc EXCEPT ![t] = "idle"] /\ UNCHANGED <<home, ready, index, key, row, at>> /\ ~Building(t)
    BY <1>7 DEF ProbeHit, ProbeMiss, Return, Building
  <2>2. \A u \in Threads \ {t} : Fine(u)'
    BY <1>t, <2>1, Undisturbed DEF TypeOK
  <2>3. Fine(t)'
    BY <1>t, <2>1, IdleKeeps DEF TypeOK
  <2>4. PublishedWhole'
    BY <1>t, <2>1 DEF PublishedWhole, Building, TypeOK, Placed, Arc
  <2> QED BY <2>2, <2>3, <2>4
<1>8. ASSUME NEW t \in Threads, ProbeNext(t) PROVE PublishedWhole' /\ \A u \in Threads : Fine(u)'
  <2>1. pc' = pc /\ UNCHANGED <<home, ready, index, key, row>> /\ at' = [at EXCEPT ![t] = After(@)]
    BY <1>8 DEF ProbeNext
  <2>2. \A u \in Threads \ {t} : Fine(u)'
    BY <1>t, <2>1, Undisturbed DEF TypeOK
  <2>3. PublishedWhole'
    BY <1>t, <2>1 DEF PublishedWhole, Building, TypeOK, Placed, Arc
  <2>4. key[t] \in Keys /\ home[key[t]] \in Slot /\ at[t] \in Slot /\ at'[t] = After(at[t]) /\ pc[t] = "probe"
    BY <1>t, <1>8, <2>1 DEF ProbeNext, InProbe, TypeOK
  <2>5. Arc(home[key[t]], at'[t]) = Arc(home[key[t]], at[t]) \cup {at[t]}
    BY <1>8, <2>4, ArcGrows, IndexAssumption DEF ProbeNext
  <2>6. InProbe(t)'
    BY <1>8, <2>1, <2>4, <2>5 DEF ProbeNext, Match, InProbe, Arc
  <2> QED BY <2>1, <2>2, <2>3, <2>4, <2>6 DEF Cleared, InPlace
<1>9. CASE UNCHANGED vars
  <2>1. PublishedWhole'
    BY <1>9 DEF vars, PublishedWhole, Building, Placed, Arc
  <2> QED BY <1>9, <2>1, Undisturbed DEF vars
<1> QED BY <1>1, <1>2, <1>3, <1>4, <1>5, <1>6, <1>7, <1>8, <1>9 DEF Next, Step

(* What a lookup returns when it stops. *)
LEMMA StepAnswers ==
  ASSUME IInv, [Next]_vars, NEW t \in Threads, pc[t] = "probe", pc'[t] = "idle"
  PROVE  IF \E r \in Row : KeyOf[r] = key[t]
           THEN found'[t] \in Row /\ KeyOf[found'[t]] = key[t]
           ELSE found'[t] = 0
<1> TypeOK
  BY DEF IInv
<1>1. ProbeHit(t) \/ ProbeMiss(t)
  BY DEF Next, Step, CallInit, CallFind, StartBuild, Clear, PlaceOccupied, PlaceRow, PlaceLast, ProbeHit,
         ProbeMiss, ProbeNext, Return, TypeOK, vars
<1>2. index[at[t]] \in {0} \cup Row /\ at[t] \in Slot
  BY DEF TypeOK
<1>3. CASE ProbeHit(t)
  BY <1>2, <1>3 DEF ProbeHit, Match, Return, TypeOK, Row
<1>4. CASE ProbeMiss(t)
  <2>1. found'[t] = 0
    BY <1>4 DEF ProbeMiss, Return, TypeOK
  <2>2. ASSUME NEW r \in Row, KeyOf[r] = key[t] PROVE FALSE
    <3>1. key[t] \in Keys /\ home[key[t]] \in Slot
      BY DEF IInv, InProbe, TypeOK
    <3>2. \A u \in Threads : ~Building(u)
      BY DEF IInv, Alone, Building
    <3>3. Placed(Rows)
      BY <3>2 DEF IInv, InProbe, PublishedWhole
    <3>4. PICK s \in Slot : index[s] = r /\ \A q \in Arc(home[KeyOf[r]], s) : index[q] \in 1 .. r - 1
      BY <3>3 DEF Placed, Row
    <3>5. s \notin Arc(home[key[t]], at[t])
      BY <2>2, <3>4 DEF IInv, InProbe
    <3>6. s # at[t]
      BY <1>4, <2>2, <3>4, IndexAssumption DEF ProbeMiss, Match, Row
    <3>7. at[t] \in Arc(home[key[t]], s) /\ After(at[t]) # home[key[t]]
      BY <1>2, <3>1, <3>5, <3>6, ArcParts, ArcFull, IndexAssumption
    <3>8. index[at[t]] = 0
      BY <1>4, <3>7 DEF ProbeMiss
    <3> QED BY <2>2, <3>4, <3>7, <3>8 DEF Row
  <2> QED BY <2>1, <2>2
<1> QED BY <1>1, <1>3, <1>4

LEMMA Start == Init => IInv
<1> SUFFICES ASSUME Init PROVE IInv OBVIOUS
<1>1. TypeOK
  BY Types
<1>2. ready = FALSE /\ \A t \in Threads : pc[t] = "idle"
  BY DEF Init
<1> QED BY <1>1, <1>2 DEF IInv, Alone, Building, PublishedWhole, Cleared, InPlace, InProbe

LEMMA Always == Serialised => (Spec => []IInv)
<1> SUFFICES ASSUME Serialised PROVE Spec => []IInv
  OBVIOUS
<1>1. IInv /\ [Next]_vars => IInv'
  <2> SUFFICES ASSUME IInv, [Next]_vars PROVE IInv' OBVIOUS
  <2> QED BY StepTypes, StepAlone, StepWhole DEF IInv
<1> QED BY <1>1, Start, PTL DEF Spec

(* As long as the callers keep the start-up order, the published index is  *)
(* the one its table determines: every row once, behind rows placed before *)
(* it, however often init was called.                                      *)
THEOREM IndexWhole == Serialised => (Spec => []IndexIntact)
<1> SUFFICES ASSUME Serialised PROVE Spec => []IndexIntact
  OBVIOUS
<1>1. IInv => IndexIntact
  BY DEF IInv, IndexIntact
<1> QED BY <1>1, Always, PTL

(* ... and every lookup, of any number of threads at once, returns the row *)
(* of its key, or none exactly when the table has none: for every table,   *)
(* every larger index and every hash function.                             *)
THEOREM LookupsExact == Serialised => (Spec => AnswersExact)
<1> SUFFICES ASSUME Serialised PROVE Spec => AnswersExact
  OBVIOUS
<1>1. IInv /\ [Next]_vars =>
        \A t \in Threads :
          pc[t] = "probe" /\ pc'[t] = "idle" =>
            IF \E r \in Row : KeyOf[r] = key[t]
              THEN found'[t] \in Row /\ KeyOf[found'[t]] = key[t]
              ELSE found'[t] = 0
  BY StepAnswers
<1> QED BY <1>1, Always, PTL DEF Spec, AnswersExact
================================================================================
