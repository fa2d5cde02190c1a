-------------------------- MODULE NameTableProofs --------------------------
(***************************************************************************)
(* Theorems about the published-name table and the name store over it, for *)
(* any number of names, slots, records and generations, and any finite set *)
(* of handles smaller than the range of a reader count.                    *)
(***************************************************************************)
EXTENDS NameStore, FiniteSetTheorems, TLAPS

\* The handles cannot wrap a 32-bit sum of reader counts.
FewReaders == IsFiniteSet(Handles) /\ Cardinality(Handles) < ReaderMod

\* A slot that holds no name is as skto_slot_reclaim leaves it.
FreeIsClear == \A s \in SlotIds : slots[s].live \/ slots[s] = EmptySlot

\* The visible record of a live slot holds a generation.
ActiveIsLive == \A s \in SlotIds : slots[s].live => Active(s).live

-----------------------------------------------------------------------------
(* Sums of reader counts.                                                  *)

\* Each reference that is counted belongs to a handle of its own.
LEMMA ReferencesBounded ==
    ASSUME FewReaders,
           NEW S \in SUBSET SlotIds,
           NEW f \in [SlotIds -> Slot],
           \A s \in S, j \in SnapIds :
               f[s].snaps[j].readers <= Cardinality(Holders(s, j))
    PROVE  /\ IsFiniteSet(References(f, S))
           /\ Cardinality(References(f, S)) \in Nat
           /\ Cardinality(References(f, S)) < ReaderMod
<1> DEFINE N(s, j) == Cardinality(Holders(s, j))
           B == [p \in S \X SnapIds |->
                    CHOOSE b : b \in Bijection(1 .. N(p[1], p[2]),
                                               Holders(p[1], p[2]))]
           R == References(f, S)
           g == [r \in R |-> B[<<r[1], r[2]>>][r[3] + 1]]
<1>1. \A s \in S, j \in SnapIds :
          /\ N(s, j) \in Nat
          /\ B[<<s, j>>] \in Bijection(1 .. N(s, j), Holders(s, j))
  <2> SUFFICES ASSUME NEW s \in S, NEW j \in SnapIds
               PROVE  /\ N(s, j) \in Nat
                      /\ B[<<s, j>>] \in Bijection(1 .. N(s, j), Holders(s, j))
      OBVIOUS
  <2>1. IsFiniteSet(Holders(s, j))
      <3>1. Holders(s, j) \in SUBSET Handles BY DEF Holders
      <3> QED BY <3>1, FS_Subset DEF FewReaders
  <2>2. N(s, j) \in Nat /\ ExistsBijection(1 .. N(s, j), Holders(s, j))
      BY <2>1, FS_CardinalityType
  <2>3. \E b : b \in Bijection(1 .. N(s, j), Holders(s, j))
      BY <2>2 DEF ExistsBijection
  <2>4. B[<<s, j>>] = CHOOSE b : b \in Bijection(1 .. N(s, j), Holders(s, j))
      OBVIOUS
  <2> QED BY <2>2, <2>3, <2>4
<1> HIDE DEF N, B, g, R
<1>2. \A r \in R : /\ r[1] \in S
                   /\ r[2] \in SnapIds
                   /\ r[3] \in Nat
                   /\ r[3] + 1 \in 1 .. N(r[1], r[2])
                   /\ r = <<r[1], r[2], r[3]>>
  <2> SUFFICES ASSUME NEW r \in R
               PROVE  /\ r[1] \in S
                      /\ r[2] \in SnapIds
                      /\ r[3] \in Nat
                      /\ r[3] + 1 \in 1 .. N(r[1], r[2])
                      /\ r = <<r[1], r[2], r[3]>>
      OBVIOUS
  <2>1. /\ r \in S \X SnapIds \X (0 .. ReaderMod - 2)
        /\ r[3] < f[r[1]].snaps[r[2]].readers
      BY DEF References, R
  <2>2. /\ r[1] \in S /\ r[2] \in SnapIds /\ r[3] \in Nat
        /\ r = <<r[1], r[2], r[3]>>
      BY <2>1, SizeAssumption
  <2>3. f[r[1]].snaps[r[2]].readers \in Nat
      BY <2>2, SizeAssumption DEF Slot, Snapshot
  <2>4. f[r[1]].snaps[r[2]].readers <= N(r[1], r[2])
      BY <2>2 DEF N
  <2>5. N(r[1], r[2]) \in Nat BY <1>1, <2>2
  <2>6. r[3] + 1 \in 1 .. N(r[1], r[2])
      BY <2>1, <2>2, <2>3, <2>4, <2>5
  <2> QED BY <2>2, <2>6
<1>3. \A r \in R : g[r] \in Holders(r[1], r[2])
  <2> TAKE r \in R
  <2>1. B[<<r[1], r[2]>>] \in [1 .. N(r[1], r[2]) -> Holders(r[1], r[2])]
      BY <1>1, <1>2 DEF Bijection, Injection
  <2>2. B[<<r[1], r[2]>>][r[3] + 1] \in Holders(r[1], r[2])
      BY <2>1, <1>2
  <2>3. g[r] = B[<<r[1], r[2]>>][r[3] + 1] BY DEF g
  <2> QED BY <2>2, <2>3
<1>4. g \in [R -> Handles]
  <2>1. \A r \in R : g[r] \in Handles BY <1>3 DEF Holders
  <2>2. g = [r \in R |-> g[r]] BY DEF g
  <2> QED BY <2>1, <2>2
<1>5. \A r, q \in R : g[r] = g[q] => r = q
  <2> SUFFICES ASSUME NEW r \in R, NEW q \in R, g[r] = g[q]
               PROVE  r = q
      OBVIOUS
  <2>1. r[1] = q[1] /\ r[2] = q[2]
      BY <1>3 DEF Holders
  <2>2. B[<<r[1], r[2]>>] \in Injection(1 .. N(r[1], r[2]), Holders(r[1], r[2]))
      BY <1>1, <1>2 DEF Bijection
  <2>3. B[<<r[1], r[2]>>][r[3] + 1] = B[<<r[1], r[2]>>][q[3] + 1]
      BY <2>1 DEF g
  <2>4. r[3] + 1 \in 1 .. N(r[1], r[2]) /\ q[3] + 1 \in 1 .. N(r[1], r[2])
      BY <1>2, <2>1
  <2>5. r[3] + 1 = q[3] + 1
      BY <2>2, <2>3, <2>4 DEF Injection, IsInjective
  <2>6. r[3] = q[3] BY <2>5, <1>2
  <2> QED BY <2>1, <2>6, <1>2
<1>6. g \in Injection(R, Handles) BY <1>4, <1>5 DEF Injection, IsInjective
<1>7. IsFiniteSet(R) /\ Cardinality(R) <= Cardinality(Handles)
    BY <1>6, FS_Injection DEF FewReaders
<1>8. Cardinality(R) \in Nat /\ Cardinality(Handles) \in Nat
    BY <1>7, FS_CardinalityType DEF FewReaders
<1> QED BY <1>7, <1>8, SizeAssumption DEF FewReaders, R

\* So the sum is zero just when every count in it is.
LEMMA ReaderSumZero ==
    ASSUME FewReaders,
           NEW S \in SUBSET SlotIds,
           NEW f \in [SlotIds -> Slot],
           \A s \in S, j \in SnapIds :
               f[s].snaps[j].readers <= Cardinality(Holders(s, j))
    PROVE  /\ ReaderSum(f, S) \in Nat
           /\ ReaderSum(f, S) = 0
                <=> \A s \in S, j \in SnapIds : f[s].snaps[j].readers = 0
<1> DEFINE R == References(f, S)
<1>1. IsFiniteSet(R) /\ Cardinality(R) \in Nat /\ Cardinality(R) < ReaderMod
    BY ReferencesBounded
<1>2. ReaderSum(f, S) = Cardinality(R)
    BY <1>1, SizeAssumption DEF ReaderSum
<1>3. Cardinality(R) = 0 <=> R = {} BY <1>1, FS_EmptySet
<1>4. ASSUME R = {}, NEW s \in S, NEW j \in SnapIds
      PROVE  f[s].snaps[j].readers = 0
  <2>1. f[s].snaps[j].readers \in 0 .. ReaderMod - 1
      BY SizeAssumption DEF Slot, Snapshot
  <2>2. CASE f[s].snaps[j].readers > 0
    <3>1. <<s, j, 0>> \in S \X SnapIds \X (0 .. ReaderMod - 2)
        BY <2>1, <2>2, SizeAssumption
    <3>2. <<s, j, 0>> \in R BY <3>1, <2>2 DEF References
    <3> QED BY <3>2, <1>4
  <2> QED BY <2>1, <2>2, SizeAssumption
<1>5. ASSUME \A s \in S, j \in SnapIds : f[s].snaps[j].readers = 0
      PROVE  R = {}
  <2> SUFFICES ASSUME NEW r \in R PROVE FALSE OBVIOUS
  <2>1. /\ r[1] \in S /\ r[2] \in SnapIds /\ r[3] \in 0 .. ReaderMod - 2
        /\ r[3] < f[r[1]].snaps[r[2]].readers
      BY DEF References
  <2> QED BY <2>1, <1>5, SizeAssumption
<1> QED BY <1>1, <1>2, <1>3, <1>4, <1>5

-----------------------------------------------------------------------------
(* The inductive invariant.  FreeIsClear makes a fresh entry start from    *)
(* nothing; ActiveIsLive makes a lookup find a published record.           *)

StateInv ==
    /\ TypeOK
    /\ FreeIsClear
    /\ ActiveIsLive
    /\ ReadersExact
    /\ HeldViewsIntact
    /\ OneVisible
    /\ VisibleIsNewest
    /\ RetiredIsPinned
    /\ LiveExact

LEMMA EmptySlotType == EmptySlot \in Slot /\ EmptySnap \in Snapshot
BY SizeAssumption DEF EmptySlot, EmptySnap, Slot, Snapshot, SnapIds

LEMMA SlotRecord ==
    ASSUME NEW sn \in [SnapIds -> Snapshot], NEW a \in SnapIds,
           NEW l \in BOOLEAN, NEW r \in BOOLEAN
    PROVE  [snaps |-> sn, active |-> a, live |-> l, retired |-> r] \in Slot
BY DEF Slot

\* What the invariant says depends on the table and the views alone.
LEMMA InvFrame ==
    ASSUME StateInv, UNCHANGED <<slots, live, view>>,
           shutting_down' \in BOOLEAN,
           ret' \in [op : Operations, st : Statuses]
    PROVE  StateInv'
BY DEF StateInv, TypeOK, FreeIsClear, ActiveIsLive, ReadersExact, Holders,
       Holding, HeldViewsIntact, OneVisible, Matches, Active, VisibleIsNewest,
       RetiredIsPinned, LiveExact, LiveSlots

LEMMA HoldersFinite ==
    ASSUME FewReaders, NEW s, NEW j
    PROVE  /\ IsFiniteSet(Holders(s, j))
           /\ Cardinality(Holders(s, j)) \in Nat
           /\ Cardinality(Holders(s, j)) = 0 <=> Holders(s, j) = {}
<1>1. Holders(s, j) \in SUBSET Handles BY DEF Holders
<1>2. IsFiniteSet(Holders(s, j)) BY <1>1, FS_Subset DEF FewReaders
<1> QED BY <1>2, FS_CardinalityType, FS_EmptySet

\* The counts of the table, and of the table with one reference dropped,
\* stay within what handles account for.
LEMMA SlotReadersZero ==
    ASSUME FewReaders, TypeOK, ReadersExact, NEW S \in SUBSET SlotIds
    PROVE  /\ ReaderSum(slots, S) \in Nat
           /\ ReaderSum(slots, S) = 0
                <=> \A s \in S, j \in SnapIds : Holders(s, j) = {}
<1>1. slots \in [SlotIds -> Slot] BY DEF TypeOK
<1>2. \A s \in S, j \in SnapIds :
          /\ slots[s].snaps[j].readers = Cardinality(Holders(s, j))
          /\ Cardinality(Holders(s, j)) \in Nat
          /\ Cardinality(Holders(s, j)) = 0 <=> Holders(s, j) = {}
    BY HoldersFinite DEF ReadersExact
<1>3. \A s \in S, j \in SnapIds :
          slots[s].snaps[j].readers <= Cardinality(Holders(s, j))
    BY <1>2
<1>4. /\ ReaderSum(slots, S) \in Nat
      /\ ReaderSum(slots, S) = 0
           <=> \A s \in S, j \in SnapIds : slots[s].snaps[j].readers = 0
    BY <1>1, <1>3, ReaderSumZero
<1> QED BY <1>2, <1>4

LEMMA SlotsFinite ==
    ASSUME NEW S \in SUBSET SlotIds
    PROVE  IsFiniteSet(S) /\ Cardinality(S) \in 0 .. Capacity
<1>1. IsFiniteSet(SlotIds) /\ Cardinality(SlotIds) = Capacity
    BY FS_Interval, SizeAssumption DEF SlotIds
<1>2. IsFiniteSet(S) /\ Cardinality(S) <= Cardinality(SlotIds)
    BY <1>1, FS_Subset
<1>3. Cardinality(S) \in Nat BY <1>2, FS_CardinalityType
<1> QED BY <1>1, <1>2, <1>3, SizeAssumption

LEMMA InitInv == ASSUME FewReaders, Init PROVE StateInv
<1> USE DEF Init
<1>1. TypeOK
  <2>1. slots \in [SlotIds -> Slot] BY EmptySlotType
  <2>2. live \in 0 .. Capacity BY SizeAssumption
  <2>3. view \in [Handles -> View \cup {NoView}] OBVIOUS
  <2>4. ret \in [op : Operations, st : Statuses] BY DEF Operations, Statuses
  <2> QED BY <2>1, <2>2, <2>3, <2>4 DEF TypeOK
<1>2. \A s, j : Holders(s, j) = {} BY DEF Holders, Holding
<1>3. ReadersExact
    BY <1>2, FS_EmptySet, SizeAssumption DEF ReadersExact, EmptySlot, EmptySnap
<1>4. LiveSlots = {} BY DEF LiveSlots, EmptySlot
<1>5. LiveExact BY <1>4, FS_EmptySet DEF LiveExact
<1> QED
    BY <1>1, <1>3, <1>5 DEF StateInv, FreeIsClear, ActiveIsLive, HeldViewsIntact,
       Holding, OneVisible, Matches, VisibleIsNewest, RetiredIsPinned, EmptySlot

LEMMA FreshEntryInv ==
    ASSUME FewReaders, StateInv, NEW n \in Names, PublishFresh(n)
    PROVE  StateInv'
<1> USE SizeAssumption
<1>1. PICK s \in SlotIds :
          /\ FirstFree(s)
          /\ slots' = [slots EXCEPT
                ![s].snaps[0] = [name |-> n, gen |-> 0, readers |-> 0,
                                 live |-> TRUE],
                ![s].active = 0,
                ![s].live = TRUE]
    BY DEF PublishFresh
<1>2. /\ live' = live + 1 /\ UNCHANGED <<shutting_down, view>>
      /\ ret' = [op |-> "publish", st |-> "OK"]
      /\ NoMatch(n)
    BY DEF PublishFresh, Return
<1>3. ~slots[s].live /\ slots[s] = EmptySlot
    BY <1>1 DEF FirstFree, StateInv, FreeIsClear
<1>4. 0 \in SnapIds BY DEF SnapIds
<1>5. slots \in [SlotIds -> Slot] BY DEF StateInv, TypeOK
<1>6. \A t \in SlotIds : t # s => slots'[t] = slots[t] BY <1>1, <1>5
<1>7. /\ slots'[s].active = 0 /\ slots'[s].live = TRUE
      /\ slots'[s].retired = FALSE
      /\ slots'[s].snaps[0] = [name |-> n, gen |-> 0, readers |-> 0,
                              live |-> TRUE]
      /\ \A j \in SnapIds : j # 0 => slots'[s].snaps[j] = EmptySnap
    BY <1>1, <1>3, <1>4, <1>5 DEF EmptySlot, Slot
<1>8. slots' \in [SlotIds -> Slot]
  <2> DEFINE new == [name |-> n, gen |-> 0, readers |-> 0, live |-> TRUE]
  <2>1. new \in Snapshot BY DEF Snapshot
  <2>2. slots'[s].snaps \in [SnapIds -> Snapshot]
      BY <1>1, <1>4, <1>5, <2>1 DEF Slot
  <2>3. slots'[s] = [snaps |-> slots'[s].snaps, active |-> 0,
                     live |-> TRUE, retired |-> slots[s].retired]
      BY <1>1, <1>5 DEF Slot
  <2>4. slots[s].retired \in BOOLEAN BY <1>5 DEF Slot
  <2>6. slots'[s] \in Slot
      <3> HIDE <1>1
      <3> QED BY <2>2, <2>3, <2>4, <1>4, SlotRecord
  <2>5. slots' = [t \in SlotIds |-> slots'[t]] BY <1>1, <1>5
  <2> QED BY <2>6, <2>5, <1>5, <1>6
<1>9. \A t, j : Holders(t, j)' = Holders(t, j)
    BY <1>2 DEF Holders, Holding
<1>10. LiveSlots' = LiveSlots \cup {s} /\ s \notin LiveSlots
    BY <1>3, <1>6, <1>7 DEF LiveSlots
<1>11. LiveExact'
  <2>1. LiveSlots \in SUBSET SlotIds BY DEF LiveSlots
  <2>2. Cardinality(LiveSlots') = Cardinality(LiveSlots) + 1
      BY <2>1, <1>10, SlotsFinite, FS_AddElement
  <2> QED BY <1>2, <2>2 DEF StateInv, LiveExact
<1>12. TypeOK'
  <2>1. LiveSlots' \in SUBSET SlotIds BY DEF LiveSlots
  <2>2. live' \in 0 .. Capacity BY <1>11, <2>1, SlotsFinite DEF LiveExact
  <2> QED BY <1>2, <1>8, <2>2 DEF StateInv, TypeOK, Operations, Statuses
<1>13. ReadersExact'
  <2> SUFFICES ASSUME NEW t \in SlotIds, NEW j \in SnapIds
               PROVE  slots'[t].snaps[j].readers = Cardinality(Holders(t, j))
      BY <1>9 DEF ReadersExact
  <2>1. slots'[t].snaps[j].readers = slots[t].snaps[j].readers
      BY <1>3, <1>6, <1>7 DEF EmptySlot, EmptySnap
  <2> QED BY <2>1 DEF StateInv, ReadersExact
<1>14. HeldViewsIntact'
  <2> SUFFICES ASSUME NEW h \in Handles, Holding(h)
               PROVE  /\ slots'[view[h].slot].live
                      /\ slots'[view[h].slot].snaps[view[h].snap].live
                      /\ slots'[view[h].slot].snaps[view[h].snap].name
                            = view[h].name
                      /\ slots'[view[h].slot].snaps[view[h].snap].gen
                            = view[h].gen
      BY <1>2 DEF HeldViewsIntact, Holding
  <2>1. view[h].slot \in SlotIds
      BY DEF StateInv, TypeOK, Holding, View
  <2>2. view[h].slot # s BY <1>3 DEF StateInv, HeldViewsIntact
  <2> QED BY <2>1, <2>2, <1>6 DEF StateInv, HeldViewsIntact
<1>15. OneVisible'
  <2> SUFFICES ASSUME NEW m \in Names, NEW t \in SlotIds, NEW u \in SlotIds,
                      Matches(t, m)', Matches(u, m)'
               PROVE  t = u
      BY DEF OneVisible
  <2>1. \A q \in SlotIds : q # s => (Matches(q, m)' <=> Matches(q, m))
      BY <1>6 DEF Matches, Active
  <2>2. Matches(s, m)' => m = n BY <1>7 DEF Matches, Active
  <2> QED BY <2>1, <2>2, <1>2 DEF StateInv, OneVisible, NoMatch
<1>16. (FreeIsClear /\ ActiveIsLive /\ VisibleIsNewest)'
    BY <1>6, <1>7 DEF StateInv, FreeIsClear, ActiveIsLive, VisibleIsNewest,
       Active, EmptySnap
<1>17. RetiredIsPinned'
    BY <1>6, <1>7, <1>9 DEF StateInv, RetiredIsPinned
<1> QED BY <1>11, <1>12, <1>13, <1>14, <1>15, <1>16, <1>17 DEF StateInv

LEMMA ReplaceInv ==
    ASSUME FewReaders, StateInv, NEW n \in Names, PublishReplace(n)
    PROVE  StateInv'
<1> USE SizeAssumption
<1>1. PICK s \in SlotIds, j \in SnapIds :
          /\ FirstMatch(s, n) /\ ~Exhausted(s) /\ FirstReusable(s, j)
          /\ slots' = [slots EXCEPT
                ![s].snaps[j] = [name |-> n, gen |-> NextGeneration(s),
                                 readers |-> 0, live |-> TRUE],
                ![s].active = j]
    BY DEF PublishReplace
<1>2. /\ UNCHANGED <<live, shutting_down, view>>
      /\ ret' = [op |-> "publish", st |-> "OK"]
    BY DEF PublishReplace, Return
<1>3. slots \in [SlotIds -> Slot] BY DEF StateInv, TypeOK
<1>4. /\ slots[s].live /\ ~slots[s].retired /\ Active(s).name = n
      /\ slots[s].active \in SnapIds /\ slots[s].live = TRUE
      /\ slots[s].retired = FALSE
    BY <1>1, <1>3 DEF FirstMatch, Matches, Slot
<1>5. j # slots[s].active /\ slots[s].snaps[j].readers = 0
    BY <1>1 DEF FirstReusable, Reusable
<1>6. /\ Active(s).gen \in 0 .. MaxGen
      /\ NextGeneration(s) = Active(s).gen + 1
      /\ NextGeneration(s) \in 0 .. MaxGen
  <2>1. Active(s) \in Snapshot BY <1>3, <1>4 DEF Active, Slot
  <2>2. Active(s).gen \in 0 .. MaxGen BY <2>1 DEF Snapshot
  <2> QED BY <1>1, <2>2 DEF Exhausted, NextGeneration
<1> DEFINE new == [name |-> n, gen |-> NextGeneration(s), readers |-> 0,
                   live |-> TRUE]
<1>7. \A t \in SlotIds : t # s => slots'[t] = slots[t] BY <1>1, <1>3
<1>8. /\ slots'[s].active = j /\ slots'[s].live = TRUE
      /\ slots'[s].retired = FALSE
      /\ slots'[s].snaps[j] = new
      /\ \A k \in SnapIds : k # j => slots'[s].snaps[k] = slots[s].snaps[k]
    BY <1>1, <1>3, <1>4 DEF Slot
<1>9. slots' \in [SlotIds -> Slot]
  <2>1. new \in Snapshot BY <1>6 DEF Snapshot
  <2>2. slots'[s].snaps \in [SnapIds -> Snapshot]
      BY <1>1, <1>3, <2>1 DEF Slot
  <2>3. slots'[s] = [snaps |-> slots'[s].snaps, active |-> j,
                     live |-> TRUE, retired |-> FALSE]
      BY <1>1, <1>3, <1>4 DEF Slot
  <2>4. slots'[s] \in Slot
      <3> HIDE <1>1
      <3> QED BY <2>2, <2>3, SlotRecord
  <2>5. slots' = [t \in SlotIds |-> slots'[t]] BY <1>1, <1>3
  <2> QED BY <2>4, <2>5, <1>3, <1>7
<1>10. \A t, k : Holders(t, k)' = Holders(t, k)
    BY <1>2 DEF Holders, Holding
<1>11. Holders(s, j) = {}
    BY <1>5, HoldersFinite DEF StateInv, ReadersExact
<1>12. LiveSlots' = LiveSlots
    BY <1>4, <1>7, <1>8 DEF LiveSlots
<1>13. LiveExact' BY <1>2, <1>12 DEF StateInv, LiveExact
<1>14. TypeOK'
    BY <1>2, <1>9 DEF StateInv, TypeOK, Operations, Statuses
<1>15. ReadersExact'
  <2> SUFFICES ASSUME NEW t \in SlotIds, NEW k \in SnapIds
               PROVE  slots'[t].snaps[k].readers = Cardinality(Holders(t, k))
      BY <1>10 DEF ReadersExact
  <2>1. slots'[t].snaps[k].readers = slots[t].snaps[k].readers
      BY <1>5, <1>7, <1>8
  <2> QED BY <2>1 DEF StateInv, ReadersExact
<1>16. HeldViewsIntact'
  <2> SUFFICES ASSUME NEW h \in Handles, Holding(h)
               PROVE  /\ slots'[view[h].slot].live
                      /\ slots'[view[h].slot].snaps[view[h].snap].live
                      /\ slots'[view[h].slot].snaps[view[h].snap].name
                            = view[h].name
                      /\ slots'[view[h].slot].snaps[view[h].snap].gen
                            = view[h].gen
      BY <1>2 DEF HeldViewsIntact, Holding
  <2>1. view[h].slot \in SlotIds /\ view[h].snap \in SnapIds
      BY DEF StateInv, TypeOK, Holding, View
  <2>2. h \in Holders(view[h].slot, view[h].snap) BY DEF Holders
  <2>3. ~(view[h].slot = s /\ view[h].snap = j) BY <2>2, <1>11
  <2> QED BY <2>1, <2>3, <1>4, <1>7, <1>8 DEF StateInv, HeldViewsIntact
<1>17. OneVisible'
  <2>1. \A m \in Names, t \in SlotIds : Matches(t, m)' <=> Matches(t, m)
      BY <1>4, <1>7, <1>8 DEF Matches, Active
  <2> QED BY <2>1 DEF StateInv, OneVisible
<1>18. VisibleIsNewest'
  <2> SUFFICES ASSUME NEW t \in SlotIds, NEW k \in SnapIds,
                      slots'[t].live, slots'[t].snaps[k].live,
                      k # slots'[t].active
               PROVE  slots'[t].snaps[k].gen < Active(t)'.gen
      BY DEF VisibleIsNewest
  <2>1. CASE t # s
      BY <2>1, <1>7 DEF StateInv, VisibleIsNewest, Active
  <2>2. CASE t = s
    <3>1. Active(s)'.gen = Active(s).gen + 1 BY <1>6, <1>8 DEF Active
    <3>2. slots'[s].snaps[k] = slots[s].snaps[k] BY <2>2, <1>8
    <3>3. slots[s].snaps[k].gen <= Active(s).gen
        BY <2>2, <3>2, <1>4, <1>6, <1>3 DEF StateInv, VisibleIsNewest, Active,
           Slot, Snapshot
    <3>4. slots[s].snaps[k].gen \in Nat BY <1>3 DEF Slot, Snapshot
    <3> QED BY <2>2, <3>1, <3>2, <3>3, <3>4, <1>6
  <2> QED BY <2>1, <2>2
<1>19. (FreeIsClear /\ ActiveIsLive)'
    BY <1>7, <1>8 DEF StateInv, FreeIsClear, ActiveIsLive, Active
<1>20. RetiredIsPinned'
    BY <1>7, <1>8, <1>10 DEF StateInv, RetiredIsPinned
<1> QED BY <1>13, <1>14, <1>15, <1>16, <1>17, <1>18, <1>19, <1>20 DEF StateInv

LEMMA NoWrap ==
    ASSUME NEW m \in Nat \ {0}, NEW r \in 0 .. m - 2
    PROVE  (r + 1) % m = r + 1
BY SMT

LEMMA ResolveInv ==
    ASSUME FewReaders, StateInv, NEW n \in Names, NEW h \in Handles,
           Resolve(h, n)
    PROVE  StateInv'
<1> USE SizeAssumption
<1>1. PICK s \in SlotIds :
          /\ FirstMatch(s, n) /\ ~Saturated(s)
          /\ slots' = Taken(s)
          /\ view' = [view EXCEPT ![h] =
                [slot |-> s, snap |-> slots[s].active,
                 gen |-> Active(s).gen, name |-> Active(s).name]]
    BY DEF Resolve
<1>2. /\ UNCHANGED <<live, shutting_down>> /\ view[h] = NoView
      /\ ret' = [op |-> "resolve", st |-> "OK"]
    BY DEF Resolve, Return
<1>0. PICK a : a = slots[s].active OBVIOUS
<1> USE <1>0
<1> DEFINE v == [slot |-> s, snap |-> a, gen |-> Active(s).gen,
                 name |-> Active(s).name]
<1>3. /\ slots \in [SlotIds -> Slot]
      /\ view \in [Handles -> View \cup {NoView}]
    BY DEF StateInv, TypeOK
<1>4. /\ slots[s].live /\ ~slots[s].retired /\ Active(s).name = n
      /\ a \in SnapIds
    BY <1>1, <1>3 DEF FirstMatch, Matches, Slot
<1>5. Active(s) \in Snapshot /\ slots[s].snaps[a] = Active(s)
    BY <1>3, <1>4 DEF Active, Slot
<1>6. Active(s).readers \in 0 .. MaxReaders - 1
    BY <1>1, <1>5, SizeAssumption DEF Saturated, Snapshot
<1>60. (slots[s].snaps[a].readers + 1) % (MaxReaders + 1) = Active(s).readers + 1
  <2>1. MaxReaders + 1 \in Nat \ {0} /\ (MaxReaders + 1) - 2 = MaxReaders - 1
      BY SizeAssumption
  <2> QED BY <2>1, <1>5, <1>6, NoWrap
<1>7. v \in View /\ v # NoView
  <2>1. Active(s).gen \in 0 .. MaxGen BY <1>5 DEF Snapshot
  <2>2. v \in View BY <2>1, <1>4 DEF View
  <2> QED BY <2>2, ViewAssumption
<1>8. \A t \in SlotIds : t # s => slots'[t] = slots[t]
    BY <1>1, <1>3 DEF Taken
<1>9. /\ slots'[s].active = a /\ slots'[s].live = slots[s].live
      /\ slots'[s].retired = slots[s].retired
      /\ slots'[s].snaps[a].readers = Active(s).readers + 1
      /\ slots'[s].snaps[a].name = Active(s).name
      /\ slots'[s].snaps[a].gen = Active(s).gen
      /\ slots'[s].snaps[a].live = Active(s).live
      /\ \A k \in SnapIds : k # a => slots'[s].snaps[k] = slots[s].snaps[k]
    BY <1>1, <1>3, <1>4, <1>5, <1>60 DEF Taken, Slot, Snapshot, Active
<1>10. slots' \in [SlotIds -> Slot]
  <2> DEFINE new == [name |-> Active(s).name, gen |-> Active(s).gen,
                     readers |-> Active(s).readers + 1,
                     live |-> Active(s).live]
  <2>6. new \in Snapshot BY <1>5, <1>6, SizeAssumption DEF Snapshot
  <2>7. slots'[s].snaps[a] = new
      BY <1>1, <1>3, <1>4, <1>5, <1>60 DEF Taken, Slot, Snapshot, Active
  <2>8. slots'[s].snaps = [slots[s].snaps EXCEPT ![a] = slots'[s].snaps[a]]
      BY <1>1, <1>3, <1>4 DEF Taken, Slot
  <2>9. slots[s].snaps \in [SnapIds -> Snapshot] BY <1>3 DEF Slot
  <2>1. slots'[s].snaps \in [SnapIds -> Snapshot]
      <3> HIDE DEF new
      <3> QED BY <2>6, <2>7, <2>8, <2>9
  <2>2. slots'[s] = [snaps |-> slots'[s].snaps, active |-> a,
                     live |-> slots[s].live, retired |-> slots[s].retired]
      BY <1>1, <1>3, <1>4 DEF Taken, Slot
  <2>3. slots[s].live \in BOOLEAN /\ slots[s].retired \in BOOLEAN
      BY <1>3 DEF Slot
  <2>4. slots'[s] \in Slot
      <3> HIDE <1>1
      <3> QED BY <2>1, <2>2, <2>3, <1>4, SlotRecord
  <2>5. slots' = [t \in SlotIds |-> slots'[t]] BY <1>1, <1>3 DEF Taken
  <2> QED BY <2>4, <2>5, <1>3, <1>8
<1>11. /\ \A g \in Handles : g # h => view'[g] = view[g]
       /\ view'[h] = v
  <2>1. view' = [view EXCEPT ![h] = v] BY <1>1
  <2> HIDE DEF v
  <2> QED BY <2>1, <1>3
<1>24. v.slot = s /\ v.snap = a /\ v.gen = Active(s).gen
       /\ v.name = Active(s).name
    OBVIOUS
<1> HIDE DEF v
<1>12. Holders(s, a)' = Holders(s, a) \cup {h} /\ h \notin Holders(s, a)
  <2>1. h \notin Holders(s, a) BY <1>2 DEF Holders, Holding
  <2>2. h \in Holders(s, a)' BY <1>7, <1>11, <1>24 DEF Holders, Holding
  <2>3. \A g \in Handles : g # h =>
            (g \in Holders(s, a)' <=> g \in Holders(s, a))
      BY <1>11 DEF Holders, Holding
  <2>4. Holders(s, a)' \subseteq Handles /\ Holders(s, a) \subseteq Handles
      BY DEF Holders
  <2> QED BY <2>1, <2>2, <2>3, <2>4
<1>13. \A t, k : t # s \/ k # a => Holders(t, k)' = Holders(t, k)
    BY <1>2, <1>7, <1>11, <1>24 DEF Holders, Holding
<1>14. LiveExact'
  <2>1. LiveSlots' = LiveSlots BY <1>8, <1>9 DEF LiveSlots
  <2> QED BY <2>1, <1>2 DEF StateInv, LiveExact
<1>15. TypeOK'
  <2>2. view' = [view EXCEPT ![h] = v] BY <1>1 DEF v
  <2>1. view' \in [Handles -> View \cup {NoView}] BY <2>2, <1>3, <1>7
  <2> QED BY <2>1, <1>2, <1>10 DEF StateInv, TypeOK, Operations, Statuses
<1>16. ReadersExact'
  <2> SUFFICES ASSUME NEW t \in SlotIds, NEW k \in SnapIds
               PROVE  slots'[t].snaps[k].readers = Cardinality(Holders(t, k)')
      BY DEF ReadersExact
  <2>1. CASE t = s /\ k = a
    <3>1. Cardinality(Holders(s, a) \cup {h}) = Cardinality(Holders(s, a)) + 1
        BY <1>12, HoldersFinite, FS_AddElement
    <3>2. Active(s).readers = Cardinality(Holders(s, a))
        BY <1>4, <1>5 DEF StateInv, ReadersExact
    <3> QED BY <2>1, <3>1, <3>2, <1>9, <1>12
  <2>2. CASE t # s \/ k # a
    <3>1. slots'[t].snaps[k].readers = slots[t].snaps[k].readers
        BY <2>2, <1>8, <1>9
    <3> QED BY <2>2, <3>1, <1>13 DEF StateInv, ReadersExact
  <2> QED BY <2>1, <2>2
<1>17. \A t \in SlotIds, k \in SnapIds :
          /\ slots'[t].snaps[k].name = slots[t].snaps[k].name
          /\ slots'[t].snaps[k].gen = slots[t].snaps[k].gen
          /\ slots'[t].snaps[k].live = slots[t].snaps[k].live
          /\ slots'[t].live = slots[t].live
          /\ slots'[t].active = slots[t].active
          /\ slots'[t].retired = slots[t].retired
    BY <1>5, <1>8, <1>9
<1>18. HeldViewsIntact'
  <2> SUFFICES ASSUME NEW g \in Handles, view'[g] # NoView
               PROVE  /\ slots'[view'[g].slot].live
                      /\ slots'[view'[g].slot].snaps[view'[g].snap].live
                      /\ slots'[view'[g].slot].snaps[view'[g].snap].name
                            = view'[g].name
                      /\ slots'[view'[g].slot].snaps[view'[g].snap].gen
                            = view'[g].gen
      BY DEF HeldViewsIntact, Holding
  <2>1. CASE g = h
    <3>1. Active(s).live BY <1>4 DEF StateInv, ActiveIsLive
    <3>2. slots'[s].live /\ slots'[s].snaps[a].live BY <3>1, <1>4, <1>9
    <3> QED BY <2>1, <3>2, <1>9, <1>11, <1>24
  <2>2. CASE g # h
    <3>1. view'[g] = view[g] /\ view[g] \in View
        BY <2>2, <1>3, <1>11
    <3>2. view[g].slot \in SlotIds /\ view[g].snap \in SnapIds
        BY <3>1 DEF View
    <3>3. view[g] # NoView BY <2>2, <1>11
    <3>4. /\ slots[view[g].slot].live
          /\ slots[view[g].slot].snaps[view[g].snap].live
          /\ slots[view[g].slot].snaps[view[g].snap].name = view[g].name
          /\ slots[view[g].slot].snaps[view[g].snap].gen = view[g].gen
        BY <3>3 DEF StateInv, HeldViewsIntact, Holding
    <3>5. view'[g] = view[g] BY <2>2, <1>11
    <3> DEFINE q == view[g].slot
               k == view[g].snap
    <3>6. /\ slots'[q].live = slots[q].live
          /\ slots'[q].snaps[k].live = slots[q].snaps[k].live
          /\ slots'[q].snaps[k].name = slots[q].snaps[k].name
          /\ slots'[q].snaps[k].gen = slots[q].snaps[k].gen
        BY <3>2, <1>17
    <3> QED BY <3>4, <3>5, <3>6
  <2> QED BY <2>1, <2>2
<1>19. \A t \in SlotIds : /\ slots[t].active \in SnapIds
                          /\ Active(t)'.name = Active(t).name
                          /\ Active(t)'.gen = Active(t).gen
                          /\ Active(t)'.live = Active(t).live
  <2>1. \A t \in SlotIds : slots[t].active \in SnapIds BY <1>3 DEF Slot
  <2> QED BY <2>1, <1>17 DEF Active
<1>20. OneVisible'
  <2>1. \A m \in Names, t \in SlotIds : Matches(t, m)' <=> Matches(t, m)
      BY <1>17, <1>19 DEF Matches
  <2> QED BY <2>1 DEF StateInv, OneVisible
<1>21. FreeIsClear'
    BY <1>4, <1>8, <1>9 DEF StateInv, FreeIsClear
<1>22. (ActiveIsLive /\ VisibleIsNewest)'
    BY <1>17, <1>19 DEF StateInv, ActiveIsLive, VisibleIsNewest
<1>23. RetiredIsPinned'
  <2> SUFFICES ASSUME NEW t \in SlotIds, slots'[t].live, slots'[t].retired
               PROVE  \E k \in SnapIds : Holders(t, k)' # {}
      BY DEF RetiredIsPinned
  <2>1. t # s BY <1>4, <1>9
  <2> QED BY <2>1, <1>8, <1>13 DEF StateInv, RetiredIsPinned
<1> QED BY <1>14, <1>15, <1>16, <1>18, <1>20, <1>21, <1>22, <1>23 DEF StateInv

\* Giving a slot back keeps the invariant once no handle points into it.
LEMMA ReclaimInv ==
    ASSUME FewReaders, StateInv, NEW s \in SlotIds, slots[s].live, Reclaim(s),
           view' \in [Handles -> View \cup {NoView}],
           \A h \in Handles : view'[h] # NoView =>
               view'[h] = view[h] /\ view[h].slot # s,
           \A h \in Handles : view[h] # NoView /\ view[h].slot # s =>
               view'[h] = view[h],
           shutting_down' \in BOOLEAN,
           ret' \in [op : Operations, st : Statuses]
    PROVE  StateInv'
<1> USE SizeAssumption
<1>1. slots' = [slots EXCEPT ![s] = EmptySlot] /\ live' = live - 1
    BY DEF Reclaim
<1>2. /\ slots \in [SlotIds -> Slot]
      /\ view \in [Handles -> View \cup {NoView}]
    BY DEF StateInv, TypeOK
<1>3. /\ \A t \in SlotIds : t # s => slots'[t] = slots[t]
      /\ slots'[s] = EmptySlot
      /\ slots' \in [SlotIds -> Slot]
    BY <1>1, <1>2, EmptySlotType
<1>4. \A k : Holders(s, k)' = {} BY DEF Holders, Holding
<1>5. \A t \in SlotIds, k \in SnapIds :
          t # s => Holders(t, k)' = Holders(t, k)
  <2> SUFFICES ASSUME NEW t \in SlotIds, NEW k \in SnapIds, t # s,
                      NEW h \in Handles
               PROVE  h \in Holders(t, k)' <=> h \in Holders(t, k)
      BY DEF Holders
  <2> QED BY DEF Holders, Holding
<1>6. LiveExact' /\ live' \in 0 .. Capacity
  <2>1. LiveSlots' = LiveSlots \ {s} /\ s \in LiveSlots
      BY <1>3 DEF LiveSlots, EmptySlot
  <2>2. LiveSlots \in SUBSET SlotIds /\ LiveSlots' \in SUBSET SlotIds
      BY DEF LiveSlots
  <2>3. Cardinality(LiveSlots') = Cardinality(LiveSlots) - 1
      BY <2>1, <2>2, SlotsFinite, FS_RemoveElement
  <2>4. live' = Cardinality(LiveSlots')
      BY <1>1, <2>3 DEF StateInv, LiveExact
  <2>5. Cardinality(LiveSlots') \in 0 .. Capacity BY <2>2, SlotsFinite
  <2> QED BY <2>4, <2>5 DEF LiveExact
<1>7. TypeOK' BY <1>3, <1>6 DEF TypeOK
<1>8. ReadersExact'
  <2> SUFFICES ASSUME NEW t \in SlotIds, NEW k \in SnapIds
               PROVE  slots'[t].snaps[k].readers = Cardinality(Holders(t, k)')
      BY DEF ReadersExact
  <2>1. CASE t = s
    <3>1. slots'[s].snaps[k].readers = 0 BY <1>3 DEF EmptySlot, EmptySnap
    <3>2. Cardinality(Holders(s, k)') = 0 BY <1>4, FS_EmptySet
    <3> QED BY <2>1, <3>1, <3>2
  <2>2. CASE t # s
      BY <2>2, <1>3, <1>5 DEF StateInv, ReadersExact
  <2> QED BY <2>1, <2>2
<1>9. HeldViewsIntact'
  <2> SUFFICES ASSUME NEW h \in Handles, view'[h] # NoView
               PROVE  /\ slots'[view'[h].slot].live
                      /\ slots'[view'[h].slot].snaps[view'[h].snap].live
                      /\ slots'[view'[h].slot].snaps[view'[h].snap].name
                            = view'[h].name
                      /\ slots'[view'[h].slot].snaps[view'[h].snap].gen
                            = view'[h].gen
      BY DEF HeldViewsIntact, Holding
  <2>1. view'[h] = view[h] /\ view[h].slot # s OBVIOUS
  <2>2. view[h].slot \in SlotIds BY <2>1, <1>2 DEF View
  <2>3. slots'[view[h].slot] = slots[view[h].slot] BY <2>1, <2>2, <1>3
  <2> QED BY <2>1, <2>3 DEF StateInv, HeldViewsIntact, Holding
<1>10. OneVisible'
  <2>1. \A n \in Names, t \in SlotIds : Matches(t, n)' => Matches(t, n)
      BY <1>3 DEF Matches, Active, EmptySlot
  <2> QED BY <2>1 DEF StateInv, OneVisible
<1>11. (FreeIsClear /\ ActiveIsLive /\ VisibleIsNewest)'
    BY <1>3 DEF StateInv, FreeIsClear, ActiveIsLive, VisibleIsNewest, Active,
       EmptySlot
<1>12. RetiredIsPinned'
    BY <1>3, <1>5 DEF StateInv, RetiredIsPinned, EmptySlot
<1> QED BY <1>6, <1>7, <1>8, <1>9, <1>10, <1>11, <1>12 DEF StateInv

LEMMA RetireInv ==
    ASSUME FewReaders, StateInv, NEW n \in Names, Retire(n)
    PROVE  StateInv'
<1> USE SizeAssumption
<1>1. PICK s \in SlotIds :
          /\ FirstMatch(s, n)
          /\ IF ReaderSum(slots, {s}) = 0
             THEN Reclaim(s)
             ELSE /\ slots' = [slots EXCEPT ![s].retired = TRUE]
                  /\ UNCHANGED live
    BY DEF Retire
<1>2. /\ UNCHANGED <<shutting_down, view>>
      /\ ret' = [op |-> "retire", st |-> "OK"]
      /\ shutting_down' \in BOOLEAN
      /\ ret' \in [op : Operations, st : Statuses]
      /\ view' \in [Handles -> View \cup {NoView}]
    BY DEF Retire, Return, StateInv, TypeOK, Operations, Statuses
<1>3. slots \in [SlotIds -> Slot] BY DEF StateInv, TypeOK
<1>4. slots[s].live /\ ~slots[s].retired /\ slots[s].active \in SnapIds
    BY <1>1, <1>3 DEF FirstMatch, Matches, Slot
<1>5. /\ ReaderSum(slots, {s}) \in Nat
      /\ ReaderSum(slots, {s}) = 0 <=> \A k \in SnapIds : Holders(s, k) = {}
  <2>1. {s} \in SUBSET SlotIds OBVIOUS
  <2> QED BY <2>1, SlotReadersZero DEF StateInv
<1>6. CASE ReaderSum(slots, {s}) = 0
  <2>1. Reclaim(s) BY <1>1, <1>6
  <2>2. \A h \in Handles : view[h] # NoView => view[h].slot # s
    <3> SUFFICES ASSUME NEW h \in Handles, view[h] # NoView, view[h].slot = s
                 PROVE  FALSE
        OBVIOUS
    <3>1. view[h].snap \in SnapIds BY DEF StateInv, TypeOK, View
    <3>2. h \in Holders(s, view[h].snap) BY DEF Holders, Holding
    <3> QED BY <3>1, <3>2, <1>5, <1>6
  <2> QED BY <2>1, <2>2, <1>2, <1>4, ReclaimInv
<1>7. CASE ReaderSum(slots, {s}) # 0
  <2>1. slots' = [slots EXCEPT ![s].retired = TRUE] /\ live' = live
      BY <1>1, <1>7
  <2>2. /\ \A t \in SlotIds : t # s => slots'[t] = slots[t]
        /\ slots'[s] = [slots[s] EXCEPT !.retired = TRUE]
      BY <2>1, <1>3
  <2>3. /\ slots'[s].snaps = slots[s].snaps
        /\ slots'[s].active = slots[s].active
        /\ slots'[s].live = slots[s].live
        /\ slots'[s].retired = TRUE
      BY <2>2, <1>3 DEF Slot
  <2>4. slots' \in [SlotIds -> Slot]
    <3>1. [slots[s] EXCEPT !.retired = TRUE] \in Slot BY <1>3 DEF Slot
    <3> QED BY <3>1, <2>1, <1>3
  <2>5. \A t, k : Holders(t, k)' = Holders(t, k)
      BY <1>2 DEF Holders, Holding
  <2>6. LiveSlots' = LiveSlots BY <2>2, <2>3 DEF LiveSlots
  <2>7. (TypeOK /\ LiveExact)'
      BY <1>2, <2>1, <2>4, <2>6 DEF StateInv, TypeOK, LiveExact
  <2>8. \A t \in SlotIds : /\ slots'[t].snaps = slots[t].snaps
                          /\ slots'[t].active = slots[t].active
                          /\ slots'[t].live = slots[t].live
      BY <2>2, <2>3
  <2>9. (ReadersExact /\ ActiveIsLive /\ VisibleIsNewest)'
      BY <2>5, <2>8 DEF StateInv, ReadersExact, ActiveIsLive, VisibleIsNewest,
         Active
  <2>10. HeldViewsIntact'
    <3>1. \A h \in Handles : Holding(h) => view[h].slot \in SlotIds
        BY DEF StateInv, TypeOK, Holding, View
    <3> QED BY <3>1, <2>8, <1>2 DEF StateInv, HeldViewsIntact, Holding
  <2>11. OneVisible'
    <3>1. \A m \in Names, t \in SlotIds : Matches(t, m)' => Matches(t, m)
        BY <2>2, <2>3, <1>4 DEF Matches, Active
    <3> QED BY <3>1 DEF StateInv, OneVisible
  <2>12. FreeIsClear' BY <2>2, <2>3, <1>4 DEF StateInv, FreeIsClear
  <2>13. RetiredIsPinned'
    <3> SUFFICES ASSUME NEW t \in SlotIds, slots'[t].live, slots'[t].retired
                 PROVE  \E k \in SnapIds : Holders(t, k) # {}
        BY <2>5 DEF RetiredIsPinned
    <3>1. CASE t = s BY <3>1, <1>5, <1>7
    <3>2. CASE t # s BY <3>2, <2>2 DEF StateInv, RetiredIsPinned
    <3> QED BY <3>1, <3>2
  <2> QED BY <2>7, <2>9, <2>10, <2>11, <2>12, <2>13 DEF StateInv
<1> QED BY <1>6, <1>7

\* A held view always identifies its record, so the final release of a
\* reader never answers NOTFOUND.
LEMMA HeldIdentifies ==
    ASSUME FewReaders, StateInv, NEW h \in Handles, view[h] # NoView
    PROVE  Identifies(view[h])
<1> DEFINE v == view[h]
<1>1. v.slot \in SlotIds /\ v.snap \in SnapIds BY DEF StateInv, TypeOK, View
<1>2. /\ slots[v.slot].live
      /\ slots[v.slot].snaps[v.snap].live
      /\ slots[v.slot].snaps[v.snap].name = v.name
      /\ slots[v.slot].snaps[v.snap].gen = v.gen
    BY DEF StateInv, HeldViewsIntact, Holding
<1>3. h \in Holders(v.slot, v.snap) BY DEF Holders, Holding
<1>4. /\ Cardinality(Holders(v.slot, v.snap)) \in Nat
      /\ Cardinality(Holders(v.slot, v.snap)) # 0
    BY <1>3, HoldersFinite
<1>5. slots[v.slot].snaps[v.snap].readers > 0
    BY <1>1, <1>4 DEF StateInv, ReadersExact
<1> QED BY <1>2, <1>5 DEF Identifies

LEMMA ReleaseInv ==
    ASSUME FewReaders, StateInv, NEW h \in Handles, Release(h)
    PROVE  StateInv'
<1> USE SizeAssumption
<1>0. PICK v : v = view[h] OBVIOUS
<1>1. /\ v # NoView /\ v \in View /\ Identifies(v)
      /\ v.slot \in SlotIds /\ v.snap \in SnapIds
  <2>1. v # NoView BY <1>0 DEF Release
  <2>2. v \in View BY <2>1, <1>0 DEF StateInv, TypeOK
  <2>3. Identifies(v) BY <2>1, <1>0, HeldIdentifies
  <2> QED BY <2>1, <2>2, <2>3 DEF View
<1>2. PICK s \in SlotIds, j \in SnapIds : s = v.slot /\ j = v.snap
    BY <1>1
<1>3. /\ view' = [view EXCEPT ![h] = NoView]
      /\ UNCHANGED shutting_down
      /\ ret' = [op |-> "release", st |-> "OK"]
      /\ IF IsLastOfRetired(v)
         THEN Reclaim(s)
         ELSE slots' = Dropped(v) /\ UNCHANGED live
    BY <1>0, <1>1, <1>2 DEF Release, ReleaseView, Return
<1>4. /\ slots \in [SlotIds -> Slot]
      /\ view \in [Handles -> View \cup {NoView}]
    BY DEF StateInv, TypeOK
<1>5. /\ view' \in [Handles -> View \cup {NoView}]
      /\ view'[h] = NoView
      /\ \A g \in Handles : g # h => view'[g] = view[g]
      /\ shutting_down' \in BOOLEAN
      /\ ret' \in [op : Operations, st : Statuses]
    BY <1>3, <1>4 DEF StateInv, TypeOK, Operations, Statuses
<1>6. /\ slots[s].live /\ slots[s].snaps[j].readers > 0
      /\ slots[s].snaps[j] \in Snapshot
    BY <1>1, <1>2, <1>4 DEF Identifies, Slot
<1>7. h \in Holders(s, j) BY <1>0, <1>1, <1>2 DEF Holders, Holding
<1>8. Holders(s, j)' = Holders(s, j) \ {h}
  <2> SUFFICES ASSUME NEW g \in Handles
               PROVE  g \in Holders(s, j)' <=> g \in Holders(s, j) /\ g # h
      BY DEF Holders
  <2> QED BY <1>5 DEF Holders, Holding
<1>9. \A t \in SlotIds, k \in SnapIds :
          t # s \/ k # j => Holders(t, k)' = Holders(t, k)
  <2> SUFFICES ASSUME NEW t \in SlotIds, NEW k \in SnapIds, t # s \/ k # j,
                      NEW g \in Handles
               PROVE  g \in Holders(t, k)' <=> g \in Holders(t, k)
      BY DEF Holders
  <2> QED BY <1>0, <1>2, <1>5 DEF Holders, Holding
<1> DEFINE D == Dropped(v)
<1>10. /\ \A t \in SlotIds : t # s => D[t] = slots[t]
       /\ D[s].active = slots[s].active /\ D[s].live = slots[s].live
       /\ D[s].retired = slots[s].retired
       /\ \A k \in SnapIds : k # j => D[s].snaps[k] = slots[s].snaps[k]
       /\ D[s].snaps[j] = [slots[s].snaps[j] EXCEPT !.readers = @ - 1]
    BY <1>2, <1>4 DEF Dropped, Slot
<1>11. /\ D[s].snaps[j].readers = slots[s].snaps[j].readers - 1
       /\ D[s].snaps[j].name = slots[s].snaps[j].name
       /\ D[s].snaps[j].gen = slots[s].snaps[j].gen
       /\ D[s].snaps[j].live = slots[s].snaps[j].live
       /\ D[s].snaps[j] \in Snapshot
    BY <1>6, <1>10 DEF Snapshot
<1>12. D \in [SlotIds -> Slot]
  <2>1. D[s].snaps = [slots[s].snaps EXCEPT ![j] = D[s].snaps[j]]
      BY <1>2, <1>4 DEF Dropped, Slot
  <2>2. slots[s].snaps \in [SnapIds -> Snapshot] BY <1>4 DEF Slot
  <2>3. D[s] = [snaps |-> D[s].snaps, active |-> slots[s].active,
                live |-> slots[s].live, retired |-> slots[s].retired]
      BY <1>2, <1>4 DEF Dropped, Slot
  <2>4. /\ slots[s].active \in SnapIds /\ slots[s].live \in BOOLEAN
        /\ slots[s].retired \in BOOLEAN
      BY <1>4 DEF Slot
  <2>5. D = [t \in SlotIds |-> D[t]] BY <1>2, <1>4 DEF Dropped
  <2> HIDE DEF D
  <2>6. D[s].snaps \in [SnapIds -> Snapshot] BY <2>1, <2>2, <1>11
  <2>7. D[s] \in Slot BY <2>3, <2>4, <2>6, SlotRecord
  <2> QED BY <2>5, <2>7, <1>4, <1>10
<1> HIDE DEF D
<1>13. \A t \in SlotIds, k \in SnapIds :
          /\ D[t].snaps[k].name = slots[t].snaps[k].name
          /\ D[t].snaps[k].gen = slots[t].snaps[k].gen
          /\ D[t].snaps[k].live = slots[t].snaps[k].live
          /\ D[t].live = slots[t].live
          /\ D[t].active = slots[t].active
          /\ D[t].retired = slots[t].retired
    BY <1>10, <1>11
<1>14. \A t \in SlotIds, k \in SnapIds :
          D[t].snaps[k].readers = Cardinality(Holders(t, k)')
  <2> SUFFICES ASSUME NEW t \in SlotIds, NEW k \in SnapIds
               PROVE  D[t].snaps[k].readers = Cardinality(Holders(t, k)')
      OBVIOUS
  <2>1. CASE t = s /\ k = j
    <3>1. Cardinality(Holders(s, j) \ {h}) = Cardinality(Holders(s, j)) - 1
        BY <1>7, HoldersFinite, FS_RemoveElement
    <3>2. slots[s].snaps[j].readers = Cardinality(Holders(s, j))
        BY DEF StateInv, ReadersExact
    <3> QED BY <2>1, <3>1, <3>2, <1>8, <1>11
  <2>2. CASE t # s \/ k # j
    <3>1. D[t].snaps[k].readers = slots[t].snaps[k].readers
        BY <2>2, <1>10
    <3> QED BY <2>2, <3>1, <1>9 DEF StateInv, ReadersExact
  <2> QED BY <2>1, <2>2
<1>15. /\ ReaderSum(D, {s}) \in Nat
       /\ ReaderSum(D, {s}) = 0
             <=> \A k \in SnapIds : Holders(s, k)' = {}
  <2>1. \A k \in SnapIds :
            /\ D[s].snaps[k].readers <= Cardinality(Holders(s, k))
            /\ D[s].snaps[k].readers = 0 <=> Holders(s, k)' = {}
    <3> SUFFICES ASSUME NEW k \in SnapIds
                 PROVE  /\ D[s].snaps[k].readers <= Cardinality(Holders(s, k))
                        /\ D[s].snaps[k].readers = 0 <=> Holders(s, k)' = {}
        OBVIOUS
    <3>1. Holders(s, k)' \subseteq Holders(s, k) BY <1>8, <1>9
    <3>2. /\ IsFiniteSet(Holders(s, k)')
          /\ Cardinality(Holders(s, k)') <= Cardinality(Holders(s, k))
        BY <3>1, HoldersFinite, FS_Subset
    <3>3. Cardinality(Holders(s, k)') = 0 <=> Holders(s, k)' = {}
        BY <3>2, FS_EmptySet
    <3> QED BY <3>2, <3>3, <1>14
  <2>2. \A t \in {s}, k \in SnapIds :
            D[t].snaps[k].readers <= Cardinality(Holders(t, k))
      BY <2>1
  <2>3. {s} \in SUBSET SlotIds OBVIOUS
  <2>4. /\ ReaderSum(D, {s}) \in Nat
        /\ ReaderSum(D, {s}) = 0
             <=> \A t \in {s}, k \in SnapIds : D[t].snaps[k].readers = 0
      BY <2>2, <2>3, <1>12, ReaderSumZero
  <2> QED BY <2>1, <2>4
<1>16. CASE IsLastOfRetired(v)
  <2>1. Reclaim(s) BY <1>3, <1>16
  <2>2. \A k \in SnapIds : Holders(s, k)' = {}
      BY <1>2, <1>15, <1>16 DEF IsLastOfRetired, D
  <2>3. \A g \in Handles : view'[g] # NoView =>
            view'[g] = view[g] /\ view[g].slot # s
    <3> SUFFICES ASSUME NEW g \in Handles, view'[g] # NoView
                 PROVE  view'[g] = view[g] /\ view[g].slot # s
        OBVIOUS
    <3>1. view'[g] = view[g] /\ view[g] \in View BY <1>4, <1>5
    <3>2. view[g].snap \in SnapIds BY <3>1 DEF View
    <3>3. view[g].slot = s => g \in Holders(s, view[g].snap)'
        BY <3>1 DEF Holders, Holding
    <3> QED BY <3>1, <3>2, <3>3, <2>2
  <2>4. \A g \in Handles : view[g] # NoView /\ view[g].slot # s =>
            view'[g] = view[g]
      BY <1>0, <1>2, <1>5
  <2> QED BY <2>1, <2>3, <2>4, <1>5, <1>6, ReclaimInv
<1>17. CASE ~IsLastOfRetired(v)
  <2>1. slots' = D /\ live' = live BY <1>3, <1>17 DEF D
  <2>2. LiveSlots' = LiveSlots
      BY <2>1, <1>10 DEF LiveSlots
  <2>3. (TypeOK /\ LiveExact)'
      BY <2>1, <2>2, <1>5, <1>12 DEF StateInv, TypeOK, LiveExact
  <2>4. ReadersExact' BY <2>1, <1>14 DEF ReadersExact
  <2>5. \A t \in SlotIds : /\ slots[t].active \in SnapIds
                          /\ Active(t)'.name = Active(t).name
                          /\ Active(t)'.gen = Active(t).gen
                          /\ Active(t)'.live = Active(t).live
    <3>1. \A t \in SlotIds : slots[t].active \in SnapIds BY <1>4 DEF Slot
    <3> QED BY <3>1, <2>1, <1>13 DEF Active
  <2>6. \A t \in SlotIds : /\ slots'[t].live = slots[t].live
                          /\ slots'[t].retired = slots[t].retired
      BY <2>1, <1>10
  <2>7. OneVisible'
    <3>1. \A m \in Names, t \in SlotIds : Matches(t, m)' <=> Matches(t, m)
        BY <2>5, <2>6 DEF Matches
    <3> QED BY <3>1 DEF StateInv, OneVisible
  <2>8. (ActiveIsLive /\ VisibleIsNewest)'
      BY <2>1, <2>5, <2>6, <1>13 DEF StateInv, ActiveIsLive, VisibleIsNewest
  <2>9. FreeIsClear'
      BY <2>1, <1>6, <1>10 DEF StateInv, FreeIsClear
  <2>10. HeldViewsIntact'
    <3> SUFFICES ASSUME NEW g \in Handles, view'[g] # NoView
                 PROVE  /\ D[view[g].slot].live
                        /\ D[view[g].slot].snaps[view[g].snap].live
                        /\ D[view[g].slot].snaps[view[g].snap].name
                              = view[g].name
                        /\ D[view[g].slot].snaps[view[g].snap].gen
                              = view[g].gen
                        /\ view'[g] = view[g]
        BY <2>1 DEF HeldViewsIntact, Holding
    <3>1. view'[g] = view[g] /\ view[g] \in View /\ view[g] # NoView
        BY <1>4, <1>5
    <3>2. view[g].slot \in SlotIds /\ view[g].snap \in SnapIds
        BY <3>1 DEF View
    <3>3. /\ slots[view[g].slot].live
          /\ slots[view[g].slot].snaps[view[g].snap].live
          /\ slots[view[g].slot].snaps[view[g].snap].name = view[g].name
          /\ slots[view[g].slot].snaps[view[g].snap].gen = view[g].gen
        BY <3>1 DEF StateInv, HeldViewsIntact, Holding
    <3> DEFINE q == view[g].slot
               k == view[g].snap
    <3>4. /\ D[q].live = slots[q].live
          /\ D[q].snaps[k].live = slots[q].snaps[k].live
          /\ D[q].snaps[k].name = slots[q].snaps[k].name
          /\ D[q].snaps[k].gen = slots[q].snaps[k].gen
        BY <3>2, <1>13
    <3> QED BY <3>1, <3>3, <3>4
  <2>11. RetiredIsPinned'
    <3> SUFFICES ASSUME NEW t \in SlotIds, slots'[t].live, slots'[t].retired
                 PROVE  \E k \in SnapIds : Holders(t, k)' # {}
        BY DEF RetiredIsPinned
    <3>1. slots[t].live /\ slots[t].retired BY <2>6
    <3>2. CASE t = s
      <4>1. ReaderSum(D, {s}) # 0
          BY <1>2, <1>17, <3>1, <3>2 DEF IsLastOfRetired, D
      <4> QED BY <4>1, <3>2, <1>15
    <3>3. CASE t # s BY <3>1, <3>3, <1>9 DEF StateInv, RetiredIsPinned
    <3> QED BY <3>2, <3>3
  <2> QED BY <2>3, <2>4, <2>7, <2>8, <2>9, <2>10, <2>11 DEF StateInv
<1> QED BY <1>16, <1>17

LEMMA DestroyInv ==
    ASSUME FewReaders, StateInv, Destroy
    PROVE  StateInv'
<1> USE SizeAssumption
<1>1. LiveSlots \in SUBSET SlotIds BY DEF LiveSlots
<1>2. /\ ReaderSum(slots, LiveSlots) \in Nat
      /\ ReaderSum(slots, LiveSlots) = 0
            <=> \A s \in LiveSlots, j \in SnapIds : Holders(s, j) = {}
    BY <1>1, SlotReadersZero DEF StateInv
<1>3. CASE ReaderSum(slots, LiveSlots) > 0
  <2>1. /\ UNCHANGED <<slots, live, view, shutting_down>>
        /\ ret' = [op |-> "destroy", st |-> "BUSY"]
      BY <1>3 DEF Destroy, Fail, Return, table
  <2>2. shutting_down' \in BOOLEAN /\ ret' \in [op : Operations, st : Statuses]
      BY <2>1 DEF StateInv, TypeOK, Operations, Statuses
  <2> QED BY <2>1, <2>2, InvFrame
<1>4. CASE ReaderSum(slots, LiveSlots) = 0
  <2>1. /\ slots' = [s \in SlotIds |-> EmptySlot] /\ live' = 0
        /\ shutting_down' = FALSE /\ UNCHANGED view
        /\ ret' = [op |-> "destroy", st |-> "OK"]
      BY <1>2, <1>4 DEF Destroy, Return
  <2>2. \A h \in Handles : view[h] = NoView
    <3> SUFFICES ASSUME NEW h \in Handles, view[h] # NoView PROVE FALSE
        OBVIOUS
    <3>1. view[h].slot \in SlotIds /\ view[h].snap \in SnapIds
        BY DEF StateInv, TypeOK, View
    <3>2. view[h].slot \in LiveSlots
        BY <3>1 DEF StateInv, HeldViewsIntact, Holding, LiveSlots
    <3>3. h \in Holders(view[h].slot, view[h].snap) BY DEF Holders, Holding
    <3> QED BY <3>1, <3>2, <3>3, <1>2, <1>4
  <2>3. TypeOK'
    <3>1. slots' \in [SlotIds -> Slot] BY <2>1, EmptySlotType
    <3>2. live' \in 0 .. Capacity BY <2>1
    <3> QED BY <3>1, <3>2, <2>1 DEF StateInv, TypeOK, Operations, Statuses
  <2>4. \A s, j : Holders(s, j)' = {} BY <2>1, <2>2 DEF Holders, Holding
  <2>5. ReadersExact'
    <3> SUFFICES ASSUME NEW s \in SlotIds, NEW j \in SnapIds
                 PROVE  slots'[s].snaps[j].readers = Cardinality(Holders(s, j)')
        BY DEF ReadersExact
    <3>1. slots'[s].snaps[j].readers = 0 BY <2>1 DEF EmptySlot, EmptySnap
    <3> QED BY <3>1, <2>4, FS_EmptySet
  <2>6. LiveSlots' = {} BY <2>1 DEF LiveSlots, EmptySlot
  <2>7. LiveExact' BY <2>1, <2>6, FS_EmptySet DEF LiveExact
  <2> QED
      BY <2>1, <2>2, <2>3, <2>5, <2>7 DEF StateInv, FreeIsClear, ActiveIsLive,
         HeldViewsIntact, Holding, OneVisible, Matches, VisibleIsNewest,
         RetiredIsPinned, EmptySlot
<1> QED BY <1>2, <1>3, <1>4

-----------------------------------------------------------------------------
(* Every operation keeps the invariant.                                    *)

\* The operations that only report.
LEMMA ReportInv ==
    ASSUME StateInv, NEW op \in Operations, NEW st \in Statuses, Fail(op, st)
    PROVE  StateInv'
<1>1. /\ UNCHANGED <<slots, live, view, shutting_down>>
      /\ ret' = [op |-> op, st |-> st]
    BY DEF Fail, Return, table
<1>2. shutting_down' \in BOOLEAN /\ ret' \in [op : Operations, st : Statuses]
    BY <1>1 DEF StateInv, TypeOK
<1> QED BY <1>1, <1>2, InvFrame

LEMMA StepInv ==
    ASSUME FewReaders, StateInv, [Next]_vars
    PROVE  StateInv'
<1> USE DEF Operations, Statuses
<1>1. ASSUME NEW n \in Names, PublishFresh(n) PROVE StateInv'
    BY <1>1, FreshEntryInv
<1>2. ASSUME NEW n \in Names, PublishReplace(n) PROVE StateInv'
    BY <1>2, ReplaceInv
<1>3. ASSUME NEW n \in Names, PublishRefused(n) PROVE StateInv'
    BY <1>3, ReportInv DEF PublishRefused
<1>4. ASSUME NEW n \in Names, Observe(n) PROVE StateInv'
    BY <1>4, ReportInv DEF Observe
<1>5. ASSUME NEW n \in Names, Retire(n) PROVE StateInv'
    BY <1>5, RetireInv
<1>6. ASSUME NEW n \in Names, RetireMissing(n) PROVE StateInv'
    BY <1>6, ReportInv DEF RetireMissing
<1>7. ASSUME NEW n \in Names, NEW h \in Handles, Resolve(h, n) PROVE StateInv'
    BY <1>7, ResolveInv
<1>8. ASSUME NEW n \in Names, NEW h \in Handles, ResolveRefused(h, n)
      PROVE  StateInv'
    BY <1>8, ReportInv DEF ResolveRefused
<1>9. ASSUME NEW h \in Handles, Release(h) PROVE StateInv'
    BY <1>9, ReleaseInv
<1>10. CASE Shutdown
  <2>1. /\ UNCHANGED <<slots, live, view>> /\ shutting_down' \in BOOLEAN
        /\ ret' \in [op : Operations, st : Statuses]
      BY <1>10 DEF Shutdown, Return
  <2> QED BY <2>1, InvFrame
<1>11. CASE Drain BY <1>11, ReportInv DEF Drain
<1>12. CASE Destroy BY <1>12, DestroyInv
<1>13. CASE UNCHANGED vars
  <2>1. UNCHANGED <<slots, live, view, shutting_down, ret>>
      BY <1>13 DEF vars
  <2> QED BY <2>1, InvFrame DEF StateInv, TypeOK
<1> QED
    BY <1>1, <1>2, <1>3, <1>4, <1>5, <1>6, <1>7, <1>8, <1>9, <1>10, <1>11,
       <1>12, <1>13 DEF Next

\* StateInv holds in every reachable state.
LEMMA TableInv == ASSUME FewReaders PROVE Spec => []StateInv
<1>1. Init => StateInv BY InitInv
<1>2. StateInv /\ [Next]_vars => StateInv' BY StepInv
<1> QED BY <1>1, <1>2, PTL DEF Spec

\* The table is typed, and every reader count, slot and counter agrees with
\* what the clients hold, in every reachable state.
THEOREM TableCorrect == ASSUME FewReaders PROVE Spec => []TableSound
<1>1. StateInv => TableSound BY DEF StateInv, TableSound, SlotsSound
<1> QED BY <1>1, TableInv, PTL

\* The record behind a held view keeps the name and the generation that were
\* acquired, whatever is published, retired or destroyed meanwhile.
THEOREM ViewsIntact == ASSUME FewReaders PROVE Spec => []HeldViewsIntact
<1>1. StateInv => HeldViewsIntact BY DEF StateInv
<1> QED BY <1>1, TableInv, PTL

-----------------------------------------------------------------------------
(* What the returned statuses mean.                                        *)

LEMMA NoReaderLeftStep ==
    ASSUME FewReaders, StateInv, NoReaderLeft, [Next]_vars
    PROVE  NoReaderLeft'
<1>1. ASSUME ReaderSum(slots, LiveSlots) = 0, NEW h \in Handles, Holding(h)
      PROVE  FALSE
  <2>1. LiveSlots \in SUBSET SlotIds BY DEF LiveSlots
  <2>2. \A s \in LiveSlots, j \in SnapIds : Holders(s, j) = {}
      BY <1>1, <2>1, SlotReadersZero DEF StateInv
  <2>3. view[h].slot \in SlotIds /\ view[h].snap \in SnapIds
      BY <1>1 DEF StateInv, TypeOK, View, Holding
  <2>4. view[h].slot \in LiveSlots
      BY <1>1, <2>3 DEF StateInv, HeldViewsIntact, LiveSlots
  <2>5. h \in Holders(view[h].slot, view[h].snap) BY <1>1 DEF Holders
  <2> QED BY <2>2, <2>3, <2>4, <2>5
<1>2. CASE Drain
  <2>1. view' = view BY <1>2 DEF Drain, Fail
  <2>2. ret'.st = "OK" => ReaderSum(slots, LiveSlots) = 0
      BY <1>2 DEF Drain, Fail, Return
  <2>3. ret' = [op |-> ret'.op, st |-> ret'.st]
      BY <1>2 DEF Drain, Fail, Return
  <2> QED BY <2>1, <2>2, <2>3, <1>1 DEF NoReaderLeft, Holding
<1>3. CASE Destroy
  <2>1. LiveSlots \in SUBSET SlotIds BY DEF LiveSlots
  <2>2. ReaderSum(slots, LiveSlots) \in Nat
      BY <2>1, SlotReadersZero DEF StateInv
  <2>3. view' = view BY <1>3 DEF Destroy, Fail
  <2>4. ret'.st = "OK" => ReaderSum(slots, LiveSlots) = 0
      BY <1>3, <2>2 DEF Destroy, Fail, Return
  <2> QED BY <2>3, <2>4, <1>1 DEF NoReaderLeft, Holding
<1>4. CASE UNCHANGED vars
    BY <1>4 DEF vars, NoReaderLeft, Holding
<1>5. CASE Next /\ ~Drain /\ ~Destroy
  <2> DEFINE Other == {"publish", "resolve", "observe", "retire", "release",
                       "shutdown"}
  <2>1. \A n \in Names : PublishFresh(n) \/ PublishReplace(n) \/ PublishRefused(n)
            => ret'.op \in Other
    <3>1. \A n \in Names : PublishFresh(n) => ret'.op = "publish"
        BY DEF PublishFresh, Return
    <3>2. \A n \in Names : PublishReplace(n) => ret'.op = "publish"
        BY DEF PublishReplace, Return
    <3>3. \A n \in Names : PublishRefused(n) => ret'.op = "publish"
        BY DEF PublishRefused, Fail, Return
    <3> QED BY <3>1, <3>2, <3>3
  <2>2. \A n \in Names : Observe(n) \/ Retire(n) \/ RetireMissing(n)
            => ret'.op \in Other
      BY DEF Observe, Retire, RetireMissing, Fail, Return
  <2>3. \A n \in Names, h \in Handles : Resolve(h, n) \/ ResolveRefused(h, n)
            => ret'.op \in Other
      BY DEF Resolve, ResolveRefused, Fail, Return
  <2>4. \A h \in Handles : Release(h) => ret'.op \in Other
      BY DEF Release, ReleaseView, Return
  <2>5. Shutdown => ret'.op \in Other BY DEF Shutdown, Return
  <2>6. ret'.op \in Other
      BY <1>5, <2>1, <2>2, <2>3, <2>4, <2>5 DEF Next
  <2> QED BY <2>6 DEF NoReaderLeft
<1> QED BY <1>2, <1>3, <1>4, <1>5

\* A drain or a destroy that reports success leaves no reader behind.
THEOREM DrainTruthful == ASSUME FewReaders PROVE Spec => []NoReaderLeft
<1>1. Init => StateInv /\ NoReaderLeft
  <2>1. Init => ret.op = "init" BY DEF Init
  <2>2. ret.op = "init" => NoReaderLeft BY DEF NoReaderLeft
  <2> QED BY <2>1, <2>2, InitInv
<1>2. StateInv /\ NoReaderLeft /\ [Next]_vars => StateInv' /\ NoReaderLeft'
    BY StepInv, NoReaderLeftStep
<1> QED BY <1>1, <1>2, PTL DEF Spec

LEMMA BusyMeansPinnedStep ==
    ASSUME FewReaders, StateInv, BusyMeansPinned, [Next]_vars
    PROVE  BusyMeansPinned'
<1> DEFINE Busy == [op |-> "publish", st |-> "BUSY"]
<1>1. ASSUME NEW n \in Names, PublishRefused(n), ret' = Busy
      PROVE  BusyMeansPinned'
  <2>1. PICK s \in SlotIds : FirstMatch(s, n) /\ \A j \in SnapIds : ~Reusable(s, j)
      BY <1>1 DEF PublishRefused, Fail, Return
  <2>2. UNCHANGED <<slots, view>> BY <1>1 DEF PublishRefused, Fail, table
  <2>3. ASSUME NEW j \in SnapIds \ {slots[s].active} PROVE Holders(s, j) # {}
    <3>1. slots[s].snaps[j].readers # 0 BY <2>1 DEF Reusable
    <3> QED BY <3>1, HoldersFinite DEF StateInv, ReadersExact
  <2>4. \A j : Holders(s, j)' = Holders(s, j) BY <2>2 DEF Holders, Holding
  <2> QED BY <2>2, <2>3, <2>4 DEF BusyMeansPinned
<1>2. CASE UNCHANGED vars
    BY <1>2 DEF vars, BusyMeansPinned, Holders, Holding
<1>3. ASSUME Next, ret' = Busy PROVE \E n \in Names : PublishRefused(n)
    BY <1>3 DEF Next, PublishFresh, PublishReplace, Observe, Retire,
       RetireMissing, Resolve, ResolveRefused, Release, ReleaseView, Shutdown,
       Drain, Destroy, Fail, Return
<1> QED BY <1>1, <1>2, <1>3 DEF BusyMeansPinned

\* BUSY from publish is never spurious: readers hold every other record.
THEOREM BusyJustified == ASSUME FewReaders PROVE Spec => []BusyMeansPinned
<1>1. Init => StateInv /\ BusyMeansPinned
  <2>1. Init => ret.op = "init" BY DEF Init
  <2>2. ret.op = "init" => BusyMeansPinned BY DEF BusyMeansPinned
  <2> QED BY <2>1, <2>2, InitInv
<1>2. StateInv /\ BusyMeansPinned /\ [Next]_vars
          => StateInv' /\ BusyMeansPinned'
    BY StepInv, BusyMeansPinnedStep
<1> QED BY <1>1, <1>2, PTL DEF Spec

-----------------------------------------------------------------------------
(* The table implements the registry.                                      *)

\* The publication a lookup of n sees, as the refinement mapping computes it.
LEMMA LookupIs ==
    ASSUME OneVisible, NEW n \in Names, NEW s \in SlotIds, Matches(s, n)
    PROVE  Lookup[n] = Active(s).gen
<1>1. ~NoMatch(n) BY DEF NoMatch
<1>2. (CHOOSE t \in SlotIds : Matches(t, n)) = s BY DEF OneVisible
<1> QED BY <1>1, <1>2 DEF Lookup

LEMMA NextLookupIs ==
    ASSUME OneVisible', NEW n \in Names, NEW s \in SlotIds, Matches(s, n)'
    PROVE  Lookup'[n] = Active(s)'.gen
<1>1. ~NoMatch(n)' BY DEF NoMatch
<1>2. (CHOOSE t \in SlotIds : Matches(t, n)') = s BY DEF OneVisible
<1> QED BY <1>1, <1>2 DEF Lookup

\* A step that leaves the matches of a name and its generation alone leaves
\* what a lookup of it sees alone.
LEMMA LookupKept ==
    ASSUME StateInv, StateInv', NEW n \in Names,
           \A s \in SlotIds : /\ Matches(s, n)' <=> Matches(s, n)
                              /\ Matches(s, n) => Active(s)'.gen = Active(s).gen
    PROVE  Lookup'[n] = Lookup[n]
<1>1. CASE NoMatch(n) BY <1>1 DEF Lookup, NoMatch
<1>2. CASE ~NoMatch(n)
  <2>1. PICK s \in SlotIds : Matches(s, n) BY <1>2 DEF NoMatch
  <2>2. Lookup[n] = Active(s).gen BY <2>1, LookupIs DEF StateInv
  <2>3. Lookup'[n] = Active(s)'.gen BY <2>1, NextLookupIs DEF StateInv
  <2> QED BY <2>1, <2>2, <2>3
<1> QED BY <1>1, <1>2

LEMMA LookupsKept ==
    ASSUME StateInv, StateInv',
           \A n \in Names, s \in SlotIds :
               /\ Matches(s, n)' <=> Matches(s, n)
               /\ Matches(s, n) => Active(s)'.gen = Active(s).gen
    PROVE  Lookup' = Lookup
<1>1. \A n \in Names : Lookup'[n] = Lookup[n] BY LookupKept
<1> QED BY <1>1 DEF Lookup

\* As long as views stay put and the records behind them keep their name
\* and generation, the readers' side of the registry does not change.
LEMMA SameReading ==
    ASSUME StateInv, NEW h \in Handles, view'[h] = view[h],
           HeldViewsIntact'
    PROVE  Reading'[h] = Reading[h]
<1>1. CASE view[h] = NoView BY <1>1 DEF Reading, Holding
<1>2. CASE view[h] # NoView
  <2>1. /\ slots[view[h].slot].snaps[view[h].snap].name = view[h].name
        /\ slots[view[h].slot].snaps[view[h].snap].gen = view[h].gen
      BY <1>2 DEF StateInv, HeldViewsIntact, Holding
  <2>2. /\ slots'[view[h].slot].snaps[view[h].snap].name = view[h].name
        /\ slots'[view[h].slot].snaps[view[h].snap].gen = view[h].gen
      BY <1>2 DEF HeldViewsIntact, Holding
  <2> QED BY <1>2, <2>1, <2>2 DEF Reading, Holding
<1> QED BY <1>1, <1>2

LEMMA AllSameReading ==
    ASSUME StateInv, StateInv', view' = view
    PROVE  Reading' = Reading
<1>1. \A h \in Handles : Reading'[h] = Reading[h]
    BY SameReading DEF StateInv
<1> QED BY <1>1 DEF Reading

LEMMA SameTable ==
    ASSUME UNCHANGED <<slots, view, shutting_down>>
    PROVE  UNCHANGED Registry!rvars
BY DEF Registry!rvars, Lookup, NoMatch, Matches, Active, Reading, Holding

LEMMA PublishFreshRefines ==
    ASSUME FewReaders, StateInv, StateInv', NEW n \in Names, PublishFresh(n)
    PROVE  Registry!Publish(n)
<1> USE SizeAssumption
<1>1. PICK s \in SlotIds :
          /\ FirstFree(s)
          /\ slots' = [slots EXCEPT
                ![s].snaps[0] = [name |-> n, gen |-> 0, readers |-> 0,
                                 live |-> TRUE],
                ![s].active = 0,
                ![s].live = TRUE]
    BY DEF PublishFresh
<1>2. ~shutting_down /\ NoMatch(n) /\ UNCHANGED <<shutting_down, view>>
    BY DEF PublishFresh, Admitted
<1>3. slots \in [SlotIds -> Slot] /\ 0 \in SnapIds
    BY DEF StateInv, TypeOK, SnapIds
<1>4. ~slots[s].live /\ slots[s] = EmptySlot
    BY <1>1 DEF FirstFree, StateInv, FreeIsClear
<1>5. /\ \A t \in SlotIds : t # s => slots'[t] = slots[t]
      /\ slots'[s].active = 0 /\ slots'[s].live = TRUE
      /\ slots'[s].retired = FALSE
      /\ slots'[s].snaps[0] = [name |-> n, gen |-> 0, readers |-> 0,
                              live |-> TRUE]
    BY <1>1, <1>3, <1>4 DEF EmptySlot, Slot
<1>6. Matches(s, n)' /\ Active(s)'.gen = 0
    BY <1>5 DEF Matches, Active
<1>7. \A m \in Names, t \in SlotIds : t # s =>
          /\ Matches(t, m)' <=> Matches(t, m)
          /\ Active(t)' = Active(t)
    BY <1>5 DEF Matches, Active
<1>8. \A m \in Names : ~Matches(s, m) /\ (m # n => ~Matches(s, m)')
    BY <1>4, <1>5 DEF Matches, Active
<1>9. Lookup[n] = -1 BY <1>2 DEF Lookup
<1>10. Lookup' = [Lookup EXCEPT ![n] = 0]
  <2> SUFFICES ASSUME NEW m \in Names
               PROVE  Lookup'[m] = IF m = n THEN 0 ELSE Lookup[m]
      BY DEF Lookup
  <2>1. CASE m = n BY <2>1, <1>6, NextLookupIs DEF StateInv
  <2>2. CASE m # n
    <3>1. \A t \in SlotIds : Matches(t, m)' <=> Matches(t, m)
        BY <2>2, <1>7, <1>8
    <3>2. \A t \in SlotIds : Matches(t, m) => Active(t)' = Active(t)
        BY <1>7, <1>8
    <3> QED BY <2>2, <3>1, <3>2, LookupKept
  <2> QED BY <2>1, <2>2
<1>11. Reading' = Reading BY <1>2, AllSameReading
<1>12. \E g \in 0 .. MaxGen :
          /\ IF Lookup[n] = -1 THEN g = 0 ELSE g = Lookup[n] + 1
          /\ Lookup' = [Lookup EXCEPT ![n] = g]
  <2> WITNESS 0 \in 0 .. MaxGen
  <2> QED BY <1>9, <1>10
<1> QED BY <1>2, <1>11, <1>12 DEF Registry!Publish

LEMMA PublishReplaceRefines ==
    ASSUME FewReaders, StateInv, StateInv', NEW n \in Names, PublishReplace(n)
    PROVE  Registry!Publish(n)
<1> USE SizeAssumption
<1>1. PICK s \in SlotIds, j \in SnapIds :
          /\ FirstMatch(s, n) /\ ~Exhausted(s) /\ FirstReusable(s, j)
          /\ slots' = [slots EXCEPT
                ![s].snaps[j] = [name |-> n, gen |-> NextGeneration(s),
                                 readers |-> 0, live |-> TRUE],
                ![s].active = j]
    BY DEF PublishReplace
<1>2. ~shutting_down /\ UNCHANGED <<shutting_down, view>>
    BY DEF PublishReplace, Admitted
<1>3. slots \in [SlotIds -> Slot] BY DEF StateInv, TypeOK
<1>4. Matches(s, n) BY <1>1 DEF FirstMatch
<1>5. /\ \A t \in SlotIds : t # s => slots'[t] = slots[t]
      /\ slots'[s].active = j /\ slots'[s].live = slots[s].live
      /\ slots'[s].retired = slots[s].retired
      /\ slots'[s].snaps[j] = [name |-> n, gen |-> NextGeneration(s),
                              readers |-> 0, live |-> TRUE]
    BY <1>1, <1>3 DEF Slot
<1>6. Active(s)'.name = n /\ Active(s)'.gen = NextGeneration(s)
    BY <1>5 DEF Active
<1>7. \A m \in Names, t \in SlotIds : Matches(t, m)' <=> Matches(t, m)
    BY <1>4, <1>5, <1>6 DEF Matches, Active
<1>8. \A m \in Names : m # n => Lookup'[m] = Lookup[m]
  <2> SUFFICES ASSUME NEW m \in Names, m # n PROVE Lookup'[m] = Lookup[m]
      OBVIOUS
  <2>1. \A t \in SlotIds : Matches(t, m) => Active(t)'.gen = Active(t).gen
      BY <1>4, <1>5 DEF Matches, Active
  <2> QED BY <2>1, <1>7, LookupKept
<1>9. Lookup[n] = Active(s).gen BY <1>4, LookupIs DEF StateInv
<1>10. Lookup'[n] = NextGeneration(s)
    BY <1>4, <1>6, <1>7, NextLookupIs DEF StateInv
<1>11. /\ Active(s).gen \in Nat /\ NextGeneration(s) = Active(s).gen + 1
       /\ NextGeneration(s) \in 0 .. MaxGen
  <2>1. Active(s).gen \in 0 .. MaxGen
      BY <1>3 DEF Active, Slot, Snapshot
  <2> QED BY <2>1, <1>1 DEF Exhausted, NextGeneration
<1>15. PICK g \in 0 .. MaxGen : g = NextGeneration(s) BY <1>11
<1>12. Lookup' = [Lookup EXCEPT ![n] = g]
  <2>1. Lookup'[n] = g BY <1>10, <1>15
  <2>2. DOMAIN Lookup = Names /\ DOMAIN Lookup' = Names BY DEF Lookup
  <2>3. Lookup = [m \in Names |-> Lookup[m]] BY DEF Lookup
  <2>4. Lookup' = [m \in Names |-> Lookup'[m]] BY DEF Lookup
  <2> HIDE DEF Lookup
  <2> QED BY <1>8, <2>1, <2>2, <2>3, <2>4
<1>13. Reading' = Reading BY <1>2, AllSameReading
<1>14. IF Lookup[n] = -1 THEN g = 0 ELSE g = Lookup[n] + 1
    BY <1>9, <1>11, <1>15
<1> QED BY <1>2, <1>12, <1>13, <1>14 DEF Registry!Publish

LEMMA ResolveRefines ==
    ASSUME FewReaders, StateInv, StateInv', NEW n \in Names, NEW h \in Handles,
           Resolve(h, n)
    PROVE  Registry!Acquire(h, n)
<1> USE SizeAssumption
<1>0. PICK s \in SlotIds, a \in SnapIds :
          /\ FirstMatch(s, n) /\ a = slots[s].active
          /\ slots' = Taken(s)
          /\ view' = [view EXCEPT ![h] =
                [slot |-> s, snap |-> a,
                 gen |-> Active(s).gen, name |-> Active(s).name]]
    BY DEF Resolve, StateInv, TypeOK, Slot
<1>1. ~shutting_down /\ UNCHANGED shutting_down /\ view[h] = NoView
    BY DEF Resolve
<1>2. /\ slots \in [SlotIds -> Slot]
      /\ view \in [Handles -> View \cup {NoView}]
      /\ view' \in [Handles -> View \cup {NoView}]
    BY DEF StateInv, TypeOK
<1>3. Matches(s, n) /\ Active(s).name = n BY <1>0 DEF FirstMatch, Matches
<1>4. \A t \in SlotIds : /\ slots'[t].active = slots[t].active
                         /\ slots'[t].live = slots[t].live
                         /\ slots'[t].retired = slots[t].retired
                         /\ Active(t)'.name = Active(t).name
                         /\ Active(t)'.gen = Active(t).gen
    BY <1>0, <1>2 DEF Taken, Active, Slot, Snapshot
<1>5. Lookup' = Lookup
  <2>1. \A m \in Names, t \in SlotIds : Matches(t, m)' <=> Matches(t, m)
      BY <1>4 DEF Matches
  <2> QED BY <2>1, <1>4, LookupsKept
<1>6. Lookup[n] = Active(s).gen BY <1>3, LookupIs DEF StateInv
<1>7. Lookup[n] # -1
  <2>1. Active(s).gen \in 0 .. MaxGen BY <1>2 DEF Active, Slot, Snapshot
  <2> QED BY <2>1, <1>6
<1>8. /\ view'[h].slot = s /\ view'[h].snap = a
      /\ view'[h].gen = Active(s).gen /\ view'[h].name = n
      /\ view'[h] # NoView
  <2> DEFINE v == [slot |-> s, snap |-> a,
                   gen |-> Active(s).gen, name |-> Active(s).name]
  <2>1. v \in View BY <1>2, <1>3, <1>0 DEF View, Active, Slot, Snapshot
  <2>2. view'[h] = v BY <1>0, <1>2
  <2> QED BY <2>1, <2>2, <1>3, ViewAssumption
<1>9. \A g \in Handles : g # h => view'[g] = view[g]
    BY <1>0, <1>2
<1>10. Reading'[h] = [name |-> n, gen |-> Lookup[n]]
    BY <1>6, <1>8 DEF Reading, Holding, StateInv, HeldViewsIntact
<1>11. \A g \in Handles : g # h => Reading'[g] = Reading[g]
    BY <1>9, SameReading DEF StateInv
<1>12. Reading' = [Reading EXCEPT ![h] = [name |-> n, gen |-> Lookup[n]]]
    BY <1>10, <1>11 DEF Reading
<1>13. Reading[h] = NoView BY <1>1 DEF Reading, Holding
<1> QED BY <1>1, <1>5, <1>7, <1>12, <1>13 DEF Registry!Acquire

LEMMA ReleaseRefines ==
    ASSUME FewReaders, StateInv, StateInv', NEW h \in Handles, Release(h)
    PROVE  Registry!LetGo(h)
<1> USE SizeAssumption
<1>0. PICK v : v = view[h] OBVIOUS
<1>1. /\ v # NoView /\ v \in View /\ v.slot \in SlotIds /\ v.snap \in SnapIds
      /\ Identifies(v)
  <2>1. v # NoView BY <1>0 DEF Release
  <2>2. v \in View BY <2>1, <1>0 DEF StateInv, TypeOK
  <2> QED BY <2>1, <2>2, <1>0, HeldIdentifies DEF View
<1>2. /\ view' = [view EXCEPT ![h] = NoView] /\ UNCHANGED shutting_down
      /\ IF IsLastOfRetired(v)
         THEN slots' = [slots EXCEPT ![v.slot] = EmptySlot]
         ELSE slots' = Dropped(v)
    BY <1>0, <1>1 DEF Release, ReleaseView, Reclaim
<1>3. /\ slots \in [SlotIds -> Slot]
      /\ view \in [Handles -> View \cup {NoView}]
    BY DEF StateInv, TypeOK
<1>4. Lookup' = Lookup
  <2>1. CASE IsLastOfRetired(v)
    <3>1. slots' = [slots EXCEPT ![v.slot] = EmptySlot] BY <2>1, <1>2
    <3>2. \A m \in Names : ~Matches(v.slot, m) /\ ~Matches(v.slot, m)'
        BY <2>1, <3>1, <1>1, <1>3 DEF IsLastOfRetired, Matches, EmptySlot
    <3>3. \A t \in SlotIds : t # v.slot => slots'[t] = slots[t]
        BY <3>1, <1>3
    <3>4. \A m \in Names, t \in SlotIds :
              /\ Matches(t, m)' <=> Matches(t, m)
              /\ Matches(t, m) => Active(t)'.gen = Active(t).gen
        BY <3>2, <3>3 DEF Matches, Active
    <3> QED BY <3>4, LookupsKept
  <2>2. CASE ~IsLastOfRetired(v)
    <3>1. \A t \in SlotIds : /\ slots'[t].active = slots[t].active
                             /\ slots'[t].live = slots[t].live
                             /\ slots'[t].retired = slots[t].retired
                             /\ Active(t)'.name = Active(t).name
                             /\ Active(t)'.gen = Active(t).gen
      <4>1. slots' = Dropped(v) BY <2>2, <1>2
      <4>2. \A t \in SlotIds : t # v.slot => slots'[t] = slots[t]
          BY <4>1, <1>1, <1>3 DEF Dropped
      <4>3. /\ slots'[v.slot].active = slots[v.slot].active
            /\ slots'[v.slot].live = slots[v.slot].live
            /\ slots'[v.slot].retired = slots[v.slot].retired
          BY <4>1, <1>1, <1>3 DEF Dropped, Slot
      <4>4. \A j \in SnapIds :
                /\ slots'[v.slot].snaps[j].name = slots[v.slot].snaps[j].name
                /\ slots'[v.slot].snaps[j].gen = slots[v.slot].snaps[j].gen
          BY <4>1, <1>1, <1>3 DEF Dropped, Slot, Snapshot
      <4>5. \A t \in SlotIds : slots[t].active \in SnapIds
          BY <1>3 DEF Slot
      <4> QED BY <4>2, <4>3, <4>4, <4>5 DEF Active
    <3>2. \A m \in Names, t \in SlotIds : Matches(t, m)' <=> Matches(t, m)
        BY <3>1 DEF Matches
    <3> QED BY <3>1, <3>2, LookupsKept
  <2> QED BY <2>1, <2>2
<1>5. Reading'[h] = NoView BY <1>2, <1>3 DEF Reading, Holding
<1>6. \A g \in Handles : g # h => Reading'[g] = Reading[g]
  <2>1. \A g \in Handles : g # h => view'[g] = view[g] BY <1>2, <1>3
  <2> QED BY <2>1, SameReading DEF StateInv
<1>7. Reading' = [Reading EXCEPT ![h] = NoView] BY <1>5, <1>6 DEF Reading
<1>8. Reading[h] # NoView
  <2>1. /\ slots[v.slot].snaps[v.snap].name = v.name
        /\ slots[v.slot].snaps[v.snap].gen = v.gen
      BY <1>0, <1>1 DEF StateInv, HeldViewsIntact, Holding
  <2>2. Reading[h] = [name |-> v.name, gen |-> v.gen]
      BY <2>1, <1>0, <1>1 DEF Reading, Holding
  <2> QED BY <2>2, <1>1, PublicationAssumption DEF View
<1> QED BY <1>2, <1>4, <1>7, <1>8 DEF Registry!LetGo


LEMMA RetireRefines ==
    ASSUME FewReaders, StateInv, StateInv', NEW n \in Names, Retire(n)
    PROVE  Registry!Withdraw(n)
<1> USE SizeAssumption
<1>1. PICK s \in SlotIds :
          /\ FirstMatch(s, n)
          /\ \/ slots' = [slots EXCEPT ![s] = EmptySlot]
             \/ slots' = [slots EXCEPT ![s].retired = TRUE]
    BY DEF Retire, Reclaim
<1>2. UNCHANGED <<shutting_down, view>> BY DEF Retire
<1>3. slots \in [SlotIds -> Slot] BY DEF StateInv, TypeOK
<1>4. Matches(s, n) BY <1>1 DEF FirstMatch
<1>5. /\ \A t \in SlotIds : t # s => slots'[t] = slots[t]
      /\ ~slots'[s].live \/ slots'[s].retired
  <2>1. CASE slots' = [slots EXCEPT ![s] = EmptySlot]
      BY <2>1, <1>3 DEF EmptySlot
  <2>2. CASE slots' = [slots EXCEPT ![s].retired = TRUE]
      BY <2>2, <1>3 DEF Slot
  <2> QED BY <1>1, <2>1, <2>2
<1>6. \A m \in Names : ~Matches(s, m)' BY <1>5 DEF Matches
<1>7. \A m \in Names, t \in SlotIds : t # s =>
          (Matches(t, m)' <=> Matches(t, m)) /\ Active(t)' = Active(t)
    BY <1>5 DEF Matches, Active
<1>8. \A m \in Names : m # n => ~Matches(s, m) BY <1>4 DEF Matches
<1>9. \A m \in Names : m # n => Lookup'[m] = Lookup[m]
  <2> SUFFICES ASSUME NEW m \in Names, m # n PROVE Lookup'[m] = Lookup[m]
      OBVIOUS
  <2>1. \A t \in SlotIds : /\ Matches(t, m)' <=> Matches(t, m)
                           /\ Matches(t, m) => Active(t)'.gen = Active(t).gen
      BY <1>6, <1>7, <1>8
  <2> QED BY <2>1, LookupKept
<1>10. Lookup'[n] = -1
  <2>1. \A t \in SlotIds : t # s => ~Matches(t, n)
      BY <1>4 DEF StateInv, OneVisible
  <2>2. NoMatch(n)' BY <2>1, <1>6, <1>7 DEF NoMatch
  <2> QED BY <2>2 DEF Lookup
<1>11. Lookup' = [Lookup EXCEPT ![n] = -1]
  <2>1. Lookup = [m \in Names |-> Lookup[m]] BY DEF Lookup
  <2>2. Lookup' = [m \in Names |-> Lookup'[m]] BY DEF Lookup
  <2> QED BY <2>1, <2>2, <1>9, <1>10
<1>12. Lookup[n] # -1
  <2>1. Active(s).gen \in 0 .. MaxGen BY <1>3 DEF Active, Slot, Snapshot
  <2>2. Lookup[n] = Active(s).gen BY <1>4, LookupIs DEF StateInv
  <2> QED BY <2>1, <2>2
<1>13. Reading' = Reading BY <1>2, AllSameReading
<1> QED BY <1>2, <1>11, <1>12, <1>13 DEF Registry!Withdraw

LEMMA DestroyRefines ==
    ASSUME FewReaders, StateInv, StateInv', NoReaderLeft', Destroy
    PROVE  Registry!Reset \/ UNCHANGED Registry!rvars
<1>1. CASE UNCHANGED <<slots, view, shutting_down>>
    BY <1>1, SameTable
<1>2. CASE /\ slots' = [s \in SlotIds |-> EmptySlot] /\ shutting_down' = FALSE
           /\ ret' = [op |-> "destroy", st |-> "OK"] /\ view' = view
  <2>1. \A h \in Handles : ~Holding(h) BY <1>2 DEF NoReaderLeft, Holding
  <2>2. \A h \in Handles : Reading[h] = NoView BY <2>1 DEF Reading
  <2>3. Reading' = Reading BY <1>2, AllSameReading
  <2>4. \A n \in Names : NoMatch(n)'
      BY <1>2 DEF NoMatch, Matches, EmptySlot
  <2>5. Lookup' = [n \in Names |-> -1] BY <2>4 DEF Lookup
  <2> QED BY <1>2, <2>2, <2>3, <2>5 DEF Registry!Reset
<1> QED BY <1>1, <1>2 DEF Destroy, Fail, table, Return

\* Every operation of the table is a step of the registry, or none.
LEMMA StepRefines ==
    ASSUME FewReaders, StateInv, StateInv', NoReaderLeft', [Next]_vars
    PROVE  [Registry!Step]_(Registry!rvars)
<1>1. ASSUME NEW n \in Names, PublishFresh(n) PROVE Registry!Step
    BY <1>1, PublishFreshRefines DEF Registry!Step
<1>2. ASSUME NEW n \in Names, PublishReplace(n) PROVE Registry!Step
    BY <1>2, PublishReplaceRefines DEF Registry!Step
<1>3. ASSUME NEW n \in Names, Retire(n) PROVE Registry!Step
    BY <1>3, RetireRefines DEF Registry!Step
<1>4. ASSUME NEW n \in Names, NEW h \in Handles, Resolve(h, n)
      PROVE  Registry!Step
    BY <1>4, ResolveRefines DEF Registry!Step
<1>5. ASSUME NEW h \in Handles, Release(h) PROVE Registry!Step
    BY <1>5, ReleaseRefines DEF Registry!Step
<1>6. ASSUME Shutdown PROVE Registry!Step
  <2>1. UNCHANGED <<slots, view>> /\ shutting_down' = TRUE
      BY <1>6 DEF Shutdown
  <2>2. Lookup' = Lookup BY <2>1 DEF Lookup, NoMatch, Matches, Active
  <2>3. Reading' = Reading BY <2>1, AllSameReading
  <2> QED BY <2>1, <2>2, <2>3 DEF Registry!Step, Registry!Close
<1>7. ASSUME Destroy PROVE [Registry!Step]_(Registry!rvars)
    BY <1>7, DestroyRefines DEF Registry!Step
<1>8. ASSUME NEW op, NEW st, Fail(op, st) PROVE UNCHANGED Registry!rvars
    BY <1>8, SameTable DEF Fail, table
<1>9. ASSUME NEW n \in Names,
             \/ PublishRefused(n) \/ Observe(n) \/ RetireMissing(n) \/ Drain
             \/ \E h \in Handles : ResolveRefused(h, n)
      PROVE  UNCHANGED Registry!rvars
    BY <1>9, <1>8 DEF PublishRefused, Observe, RetireMissing, ResolveRefused,
       Drain
<1>10. ASSUME Drain PROVE UNCHANGED Registry!rvars
    BY <1>10, <1>8 DEF Drain
<1>11. ASSUME UNCHANGED vars PROVE UNCHANGED Registry!rvars
    BY <1>11, SameTable DEF vars
<1> QED
    BY <1>1, <1>2, <1>3, <1>4, <1>5, <1>6, <1>7, <1>9, <1>10, <1>11 DEF Next

\* The table implements the abstract registry: what clients look up and what
\* held views read follow it step by step.
THEOREM TableRefines == ASSUME FewReaders PROVE Spec => RefinesRegistry
<1>1. Init => Registry!Open
  <2> SUFFICES ASSUME Init PROVE Registry!Open
      OBVIOUS
  <2>1. \A n \in Names : NoMatch(n) BY DEF Init, NoMatch, Matches, EmptySlot
  <2>2. Lookup = [n \in Names |-> -1] BY <2>1 DEF Lookup
  <2>3. Reading = [h \in Handles |-> NoView] BY DEF Init, Reading, Holding
  <2> QED BY <2>2, <2>3 DEF Init, Registry!Open
<1>2. Init => StateInv BY InitInv
<1>3. StateInv /\ [Next]_vars => StateInv' BY StepInv
<1>4. StateInv /\ StateInv' /\ NoReaderLeft' /\ [Next]_vars
          => [Registry!Step]_(Registry!rvars)
    BY StepRefines
<1>5. Spec => []NoReaderLeft BY DrainTruthful
<1> QED
    BY <1>1, <1>2, <1>3, <1>4, <1>5, PTL DEF Spec, RefinesRegistry,
       Registry!RegistrySpec

-----------------------------------------------------------------------------
(* What the registry shows is what the table holds, so that facts about the  *)
(* registry's steps carry over.                                              *)

LEMMA LookupAbsent ==
    ASSUME StateInv, NEW n \in Names
    PROVE  NoMatch(n) <=> Lookup[n] = -1
<1> USE SizeAssumption
<1>1. CASE NoMatch(n) BY <1>1 DEF Lookup
<1>2. CASE ~NoMatch(n)
  <2>1. PICK s \in SlotIds : Matches(s, n) BY <1>2 DEF NoMatch
  <2>2. Active(s).gen \in 0 .. MaxGen
      BY DEF StateInv, TypeOK, Active, Slot, Snapshot
  <2>3. Lookup[n] = Active(s).gen BY <2>1, LookupIs DEF StateInv
  <2> QED BY <1>2, <2>2, <2>3
<1> QED BY <1>1, <1>2

LEMMA ReadingNothing ==
    ASSUME StateInv, NEW h \in Handles
    PROVE  Holding(h) <=> Reading[h] # NoView
<1>1. CASE ~Holding(h) BY <1>1 DEF Reading
<1>2. CASE Holding(h)
  <2>1. view[h] \in View BY <1>2 DEF StateInv, TypeOK, Holding
  <2>2. Reading[h] = [name |-> view[h].name, gen |-> view[h].gen]
      BY <1>2 DEF Reading, StateInv, HeldViewsIntact
  <2> QED BY <1>2, <2>1, <2>2, PublicationAssumption DEF View
<1> QED BY <1>1, <1>2

\* Between shutdown and destroy no name becomes visible and no view is taken.
THEOREM ClosedIsClosed == ASSUME FewReaders PROVE Spec => ClosedAdmitsNothing
<1> DEFINE Kept == shutting_down /\ shutting_down' =>
        /\ \A h \in Handles : Holding(h)' => Holding(h)
        /\ \A n \in Names : NoMatch(n) => NoMatch(n)'
<1>7. StateInv' => (\A h \in Handles : Holding(h) <=> Reading[h] # NoView)'
  <2>1. StateInv => \A h \in Handles : Holding(h) <=> Reading[h] # NoView
      BY ReadingNothing
  <2> QED BY <2>1, PTL
<1>8. StateInv' => (\A n \in Names : NoMatch(n) <=> Lookup[n] = -1)'
  <2>1. StateInv => \A n \in Names : NoMatch(n) <=> Lookup[n] = -1
      BY LookupAbsent
  <2> QED BY <2>1, PTL
<1>1. ASSUME StateInv, StateInv', NoReaderLeft', [Next]_vars PROVE Kept
  <2> SUFFICES ASSUME shutting_down, shutting_down' PROVE Kept
      OBVIOUS
  <2>1. [Registry!Step]_(Registry!rvars) BY <1>1, StepRefines
  <2>2. /\ \A h \in Handles : Reading'[h] # NoView => Reading[h] # NoView
        /\ \A n \in Names : Lookup[n] = -1 => Lookup'[n] = -1
    <3>1. Lookup = [n \in Names |-> Lookup[n]] BY DEF Lookup
    <3>2. Reading = [h \in Handles |-> Reading[h]] BY DEF Reading
    <3>3. ~Registry!Reset BY DEF Registry!Reset
    <3>4. \A n \in Names : /\ ~Registry!Publish(n)
                           /\ \A h \in Handles : ~Registry!Acquire(h, n)
        BY DEF Registry!Publish, Registry!Acquire
    <3>5. ASSUME NEW n \in Names, Registry!Withdraw(n)
          PROVE  /\ Reading' = Reading
                 /\ \A m \in Names : Lookup[m] = -1 => Lookup'[m] = -1
        BY <3>1, <3>5 DEF Registry!Withdraw
    <3>6. ASSUME NEW g \in Handles, Registry!LetGo(g)
          PROVE  /\ Lookup' = Lookup
                 /\ \A h \in Handles : Reading'[h] # NoView => Reading[h] # NoView
        BY <3>2, <3>6 DEF Registry!LetGo
    <3>7. Registry!Close => Lookup' = Lookup /\ Reading' = Reading
        BY DEF Registry!Close
    <3>8. UNCHANGED Registry!rvars => Lookup' = Lookup /\ Reading' = Reading
        BY DEF Registry!rvars
    <3> HIDE DEF Lookup, Reading
    <3> QED BY <2>1, <3>3, <3>4, <3>5, <3>6, <3>7, <3>8 DEF Registry!Step
  <2>3. \A h \in Handles : Holding(h) <=> Reading[h] # NoView
      BY <1>1, ReadingNothing
  <2>4. \A n \in Names : NoMatch(n) <=> Lookup[n] = -1
      BY <1>1, LookupAbsent
  <2> HIDE DEF Lookup, Reading, Holding, NoMatch
  <2> QED BY <1>1, <1>7, <1>8, <2>2, <2>3, <2>4
<1>2. UNCHANGED vars => Kept
    BY DEF vars, Holding, NoMatch, Matches, Active
<1>3. Init => StateInv BY InitInv
<1>4. StateInv /\ [Next]_vars => StateInv' BY StepInv
<1>5. Spec => []NoReaderLeft BY DrainTruthful
<1>6. StateInv /\ StateInv' /\ NoReaderLeft' /\ [Next]_vars => [Kept]_vars
    BY <1>1
<1> QED BY <1>3, <1>4, <1>5, <1>6, PTL DEF Spec, ClosedAdmitsNothing

-----------------------------------------------------------------------------
(* The name store.  Its steps are steps of the table, so that StateInv      *)
(* holds of it; what is added follows the numbers of the publications.      *)

\* h expects a generation of a name that was not withdrawn since.
Live(h) == known[h] # NotKnown /\ ~known[h].withdrawn

\* s is where the name that h expects is visible, at its generation or a later
\* one; a record of that generation is the publication h saw; and a view that
\* h holds lies in s.
Tracks(h, s) ==
    /\ Matches(s, known[h].name)
    /\ known[h].gen <= Active(s).gen
    /\ \A j \in SnapIds :
          slots[s].snaps[j].live /\ slots[s].snaps[j].gen = known[h].gen
              => made[s][j] = known[h].made
    /\ Holding(h) => view[h].slot = s

Knowledge == [name : Names \cup {NoName}, gen : 0 .. MaxGen, made : Nat,
              withdrawn : BOOLEAN]

StoreTypeOK ==
    /\ made \in [SlotIds -> [SnapIds -> Nat]]
    /\ count \in Nat
    /\ known \in [Handles -> Knowledge]
    /\ \A h \in Handles : known[h] # NotKnown => known[h].name \in Names

HeldIsKnown ==
    \A h \in Handles : Holding(h) =>
        /\ known[h] # NotKnown
        /\ view[h].name = known[h].name
        /\ h \notin probing => view[h].gen = known[h].gen

KnownIsTracked == \A h \in Handles : Live(h) => \E s \in SlotIds : Tracks(h, s)

StoreInv == StateInv /\ StoreTypeOK /\ HeldIsKnown /\ KnownIsTracked

\* Whatever changes of a slot are reader counts.
OnlyReaders(s) ==
    /\ slots'[s].live = slots[s].live
    /\ slots'[s].retired = slots[s].retired
    /\ slots'[s].active = slots[s].active
    /\ \A j \in SnapIds :
          /\ slots'[s].snaps[j].name = slots[s].snaps[j].name
          /\ slots'[s].snaps[j].gen = slots[s].snaps[j].gen
          /\ slots'[s].snaps[j].live = slots[s].snaps[j].live

LEMMA TrackKept ==
    ASSUME StateInv, NEW h \in Handles, NEW s \in SlotIds, Tracks(h, s),
           known'[h] = known[h], made'[s] = made[s], OnlyReaders(s),
           Holding(h)' => view'[h].slot = s
    PROVE  Tracks(h, s)'
<1>1. slots[s].active \in SnapIds BY DEF StateInv, TypeOK, Slot
<1> QED BY <1>1 DEF Tracks, OnlyReaders, Matches, Active

\* A step that changes nothing of the table but reader counts, and of the
\* handles nothing, keeps what is tracked.
LEMMA UnchangedTracked ==
    ASSUME StateInv, KnownIsTracked, UNCHANGED <<slots, view, made>>,
           NEW h \in Handles, Live(h), known'[h] = known[h]
    PROVE  \E s \in SlotIds : Tracks(h, s)'
<1>1. PICK s \in SlotIds : Tracks(h, s) BY DEF KnownIsTracked
<1>2. OnlyReaders(s) BY DEF OnlyReaders
<1>3. Holding(h)' => view'[h].slot = s BY <1>1 DEF Tracks, Holding
<1>4. Tracks(h, s)' BY <1>1, <1>2, <1>3, TrackKept
<1> QED BY <1>4

LEMMA StoreInitInv == ASSUME FewReaders, StoreInit PROVE StoreInv
<1>1. StateInv BY InitInv DEF StoreInit
<1>2. NotKnown \in Knowledge
    BY SizeAssumption DEF NotKnown, Knowledge
<1>3. StoreTypeOK
    BY <1>2 DEF StoreInit, StoreTypeOK
<1>4. HeldIsKnown BY DEF StoreInit, Init, HeldIsKnown, Holding
<1>5. KnownIsTracked BY DEF StoreInit, KnownIsTracked, Live
<1> QED BY <1>1, <1>3, <1>4, <1>5 DEF StoreInv

LEMMA StorePublishInv ==
    ASSUME FewReaders, StoreInv, StateInv', NEW n \in Names, StorePublish(n)
    PROVE  StoreInv'
<1> USE SizeAssumption DEF StoreInv
<1>1. /\ UNCHANGED <<known, probing, view>> /\ count' = count + 1
      /\ made' = [s \in SlotIds |->
                    IF slots'[s] = slots[s] THEN made[s]
                    ELSE [made[s] EXCEPT ![slots'[s].active] = count']]
    BY DEF StorePublish, PublishFresh, PublishReplace
<1>2. slots \in [SlotIds -> Slot] BY DEF StateInv, TypeOK
<1>3. StoreTypeOK'
  <2>1. ASSUME NEW s \in SlotIds PROVE made'[s] \in [SnapIds -> Nat]
    <3>1. made[s] \in [SnapIds -> Nat] /\ count' \in Nat
        BY <1>1 DEF StoreTypeOK
    <3>2. [made[s] EXCEPT ![slots'[s].active] = count'] \in [SnapIds -> Nat]
        BY <3>1
    <3> QED BY <1>1, <3>1, <3>2
  <2>2. made' \in [SlotIds -> [SnapIds -> Nat]] BY <1>1, <2>1
  <2> QED BY <1>1, <2>2 DEF StoreTypeOK
<1>4. HeldIsKnown' BY <1>1 DEF HeldIsKnown, Holding
<1>5. ASSUME NEW h \in Handles, NEW t \in SlotIds, Tracks(h, t),
             slots'[t] = slots[t]
      PROVE  Tracks(h, t)'
  <2>1. OnlyReaders(t) BY <1>5 DEF OnlyReaders
  <2>2. made'[t] = made[t] BY <1>1, <1>5
  <2>3. Holding(h)' => view'[h].slot = t BY <1>1, <1>5 DEF Tracks, Holding
  <2> QED BY <1>1, <1>5, <2>1, <2>2, <2>3, TrackKept
<1>6. KnownIsTracked'
  <2> SUFFICES ASSUME NEW h \in Handles, Live(h)
               PROVE  \E s \in SlotIds : Tracks(h, s)'
      BY <1>1 DEF KnownIsTracked, Live
  <2>1. PICK s \in SlotIds : Tracks(h, s) BY DEF KnownIsTracked
  <2>2. CASE slots'[s] = slots[s] BY <2>1, <2>2, <1>5
  <2>3. CASE slots'[s] # slots[s] /\ PublishFresh(n)
    <3>1. PICK t \in SlotIds :
              /\ FirstFree(t)
              /\ slots' = [slots EXCEPT
                    ![t].snaps[0] = [name |-> n, gen |-> 0, readers |-> 0,
                                     live |-> TRUE],
                    ![t].active = 0, ![t].live = TRUE]
        BY <2>3 DEF PublishFresh
    <3>2. t = s BY <3>1, <2>3, <1>2
    <3> QED BY <3>1, <3>2, <2>1 DEF FirstFree, Tracks, Matches
  <2>4. CASE slots'[s] # slots[s] /\ PublishReplace(n)
    <3>1. PICK t \in SlotIds, j \in SnapIds :
              /\ FirstMatch(t, n) /\ FirstReusable(t, j)
              /\ slots' = [slots EXCEPT
                    ![t].snaps[j] = [name |-> n, gen |-> NextGeneration(t),
                                     readers |-> 0, live |-> TRUE],
                    ![t].active = j]
        BY <2>4 DEF PublishReplace
    <3>2. t = s BY <3>1, <2>4, <1>2
    <3>3. n = known[h].name
        BY <2>1, <3>1, <3>2 DEF Tracks, FirstMatch, Matches
    <3>4. /\ slots'[s].active = j /\ slots'[s].live = slots[s].live
          /\ slots'[s].retired = slots[s].retired
          /\ slots'[s].snaps[j].name = n
          /\ slots'[s].snaps[j].gen = Active(s).gen + 1
          /\ \A k \in SnapIds : k # j => slots'[s].snaps[k] = slots[s].snaps[k]
        BY <3>1, <3>2, <1>2 DEF Slot, NextGeneration
    <3>5. \A k \in SnapIds : k # j => made'[s][k] = made[s][k]
        BY <1>1, <2>4, <3>4 DEF StoreTypeOK
    <3>6. known[h].gen \in Nat /\ Active(s).gen \in Nat
      <4>1. Active(s) \in Snapshot BY <1>2 DEF Active, Slot
      <4> QED BY <4>1 DEF StoreTypeOK, Knowledge, Snapshot
    <3>7. Active(s)'.gen = Active(s).gen + 1 /\ Active(s)'.name = n
        BY <3>4 DEF Active
    <3>8. known'[h].gen < Active(s)'.gen BY <1>1, <2>1, <3>6, <3>7 DEF Tracks
    <3>9. Matches(s, known[h].name)'
        BY <1>1, <2>1, <3>3, <3>4, <3>7 DEF Tracks, Matches
    <3>10. \A k \in SnapIds :
              slots'[s].snaps[k].live /\ slots'[s].snaps[k].gen = known[h].gen
                  => made'[s][k] = known[h].made
        BY <2>1, <3>4, <3>5, <3>6, <3>8, <1>1 DEF Tracks
    <3>11. known'[h].gen <= Active(s)'.gen BY <1>1, <3>6, <3>7, <3>8
    <3>12. Tracks(h, s)'
        BY <1>1, <2>1, <3>9, <3>10, <3>11 DEF Tracks, Holding
    <3> QED BY <3>12
  <2> QED BY <2>2, <2>3, <2>4 DEF StorePublish
<1> QED BY <1>3, <1>4, <1>6

LEMMA LearnInv ==
    ASSUME FewReaders, StoreInv, StateInv', NEW n \in Names, NEW h \in Handles,
           Learn(h, n)
    PROVE  StoreInv'
<1> USE SizeAssumption DEF StoreInv
<1>1. PICK s \in SlotIds :
          /\ FirstMatch(s, n)
          /\ known' = [known EXCEPT ![h] =
                [name |-> n, gen |-> Active(s).gen,
                 made |-> made[s][slots[s].active], withdrawn |-> FALSE]]
    BY DEF Learn
<1>2. /\ UNCHANGED <<made, count, probing>> /\ UNCHANGED <<slots, view>>
      /\ known[h] = NotKnown
    BY DEF Learn, Observe, Fail, table
<1>3. slots \in [SlotIds -> Slot] BY DEF StateInv, TypeOK
<1>4. /\ slots[s].active \in SnapIds /\ Active(s).gen \in 0 .. MaxGen
      /\ made[s][slots[s].active] \in Nat /\ n # NoName
    BY <1>3, NameAssumption DEF Active, Slot, Snapshot, StoreTypeOK
<1> DEFINE seen == [name |-> n, gen |-> Active(s).gen,
                    made |-> made[s][slots[s].active], withdrawn |-> FALSE]
<1>5. seen \in Knowledge BY <1>4 DEF Knowledge
<1>6. /\ known'[h] = seen
      /\ \A g \in Handles : g # h => known'[g] = known[g]
    BY <1>1 DEF StoreTypeOK
<1>7. StoreTypeOK'
  <2>1. known' \in [Handles -> Knowledge] BY <1>1, <1>5 DEF StoreTypeOK
  <2> QED BY <1>2, <1>6, <2>1 DEF StoreTypeOK
<1>8. ~Holding(h) BY <1>2 DEF HeldIsKnown
<1>9. HeldIsKnown' BY <1>2, <1>6, <1>8 DEF HeldIsKnown, Holding
<1>10. KnownIsTracked'
  <2> SUFFICES ASSUME NEW g \in Handles, Live(g)'
               PROVE  \E t \in SlotIds : Tracks(g, t)'
      BY DEF KnownIsTracked
  <2>1. CASE g # h
      BY <2>1, <1>2, <1>6, UnchangedTracked DEF Live
  <2>2. CASE g = h
    <3>1. Matches(s, n) BY <1>1 DEF FirstMatch
    <3>2. \A j \in SnapIds :
              slots[s].snaps[j].live /\ slots[s].snaps[j].gen = Active(s).gen
                  => j = slots[s].active
      <4> SUFFICES ASSUME NEW j \in SnapIds, slots[s].snaps[j].live,
                          slots[s].snaps[j].gen = Active(s).gen,
                          j # slots[s].active
                   PROVE  FALSE
          OBVIOUS
      <4>1. slots[s].snaps[j].gen < Active(s).gen
          BY <3>1 DEF Matches, StateInv, VisibleIsNewest
      <4> QED BY <4>1, <1>4
    <3>3. Tracks(h, s)'
        BY <1>2, <1>4, <1>6, <1>8, <3>1, <3>2 DEF Tracks, Matches, Active, Holding
    <3> QED BY <2>2, <3>3
  <2> QED BY <2>1, <2>2
<1> QED BY <1>7, <1>9, <1>10

LEMMA ForgetInv ==
    ASSUME FewReaders, StoreInv, StateInv', NEW h \in Handles, Forget(h)
    PROVE  StoreInv'
<1> USE SizeAssumption DEF StoreInv
<1>1. /\ UNCHANGED <<slots, view, made, count, probing>> /\ view[h] = NoView
      /\ known' = [known EXCEPT ![h] = NotKnown]
    BY DEF Forget, vars
<1>2. /\ known'[h] = NotKnown
      /\ \A g \in Handles : g # h => known'[g] = known[g]
    BY <1>1 DEF StoreTypeOK
<1>3. StoreTypeOK'
  <2>1. NotKnown \in Knowledge BY DEF NotKnown, Knowledge
  <2>2. known' \in [Handles -> Knowledge] BY <1>1, <2>1 DEF StoreTypeOK
  <2> QED BY <1>1, <1>2, <2>2 DEF StoreTypeOK
<1>4. HeldIsKnown' BY <1>1, <1>2 DEF HeldIsKnown, Holding
<1>5. KnownIsTracked'
    BY <1>1, <1>2, UnchangedTracked DEF KnownIsTracked, Live
<1> QED BY <1>3, <1>4, <1>5

LEMMA ResolveReadersOnly ==
    ASSUME StateInv, NEW n \in Names, NEW h \in Handles, Resolve(h, n)
    PROVE  /\ \A s \in SlotIds : OnlyReaders(s)
           /\ \A g \in Handles : g # h => view'[g] = view[g]
           /\ view[h] = NoView
           /\ \E s \in SlotIds : Matches(s, n) /\ view'[h].slot = s
                                 /\ view'[h].name = n
<1> USE SizeAssumption
<1>1. PICK s \in SlotIds :
          /\ FirstMatch(s, n)
          /\ slots' = Taken(s)
          /\ view' = [view EXCEPT ![h] =
                [slot |-> s, snap |-> slots[s].active,
                 gen |-> Active(s).gen, name |-> Active(s).name]]
    BY DEF Resolve
<1>2. slots \in [SlotIds -> Slot] /\ view \in [Handles -> View \cup {NoView}]
    BY DEF StateInv, TypeOK
<1>3. \A t \in SlotIds : OnlyReaders(t)
    BY <1>1, <1>2 DEF OnlyReaders, Taken, Slot, Snapshot
<1>4. Matches(s, n) /\ Active(s).name = n BY <1>1 DEF FirstMatch, Matches
<1>5. view'[h].slot = s /\ view'[h].name = n BY <1>1, <1>2, <1>4
<1>6. \A g \in Handles : g # h => view'[g] = view[g] BY <1>1, <1>2
<1> QED BY <1>3, <1>4, <1>5, <1>6 DEF Resolve

LEMMA ResolveAtBeginInv ==
    ASSUME FewReaders, StoreInv, StateInv', NEW h \in Handles,
           ResolveAtBegin(h)
    PROVE  StoreInv'
<1> USE SizeAssumption DEF StoreInv
<1>1. /\ known[h] # NotKnown /\ Resolve(h, known[h].name)
      /\ probing' = probing \cup {h} /\ UNCHANGED <<made, count, known>>
    BY DEF ResolveAtBegin
<1>2. known[h].name \in Names BY <1>1 DEF StoreTypeOK
<1>3. /\ \A s \in SlotIds : OnlyReaders(s)
      /\ \A g \in Handles : g # h => view'[g] = view[g]
    BY <1>1, <1>2, ResolveReadersOnly
<1>4. PICK s \in SlotIds : /\ Matches(s, known[h].name)
                           /\ view'[h].slot = s /\ view'[h].name = known[h].name
    BY <1>1, <1>2, ResolveReadersOnly
<1>5. StoreTypeOK' BY <1>1 DEF StoreTypeOK
<1>6. HeldIsKnown' BY <1>1, <1>3, <1>4 DEF HeldIsKnown, Holding
<1>7. KnownIsTracked'
  <2> SUFFICES ASSUME NEW g \in Handles, Live(g)
               PROVE  \E t \in SlotIds : Tracks(g, t)'
      BY <1>1 DEF KnownIsTracked, Live
  <2>1. PICK t \in SlotIds : Tracks(g, t) BY DEF KnownIsTracked
  <2>2. Holding(g)' => view'[g].slot = t
    <3>1. CASE g = h
      <4>1. t = s
          BY <2>1, <3>1, <1>2, <1>4 DEF Tracks, StateInv, OneVisible
      <4> QED BY <4>1, <3>1, <1>4
    <3>2. CASE g # h BY <2>1, <3>2, <1>3 DEF Tracks, Holding
    <3> QED BY <3>1, <3>2
  <2>3. Tracks(g, t)' BY <1>1, <1>3, <2>1, <2>2, TrackKept
  <2> QED BY <2>3
<1> QED BY <1>5, <1>6, <1>7

\* A release leaves alone whatever is visible.
LEMMA ReleaseKeepsVisible ==
    ASSUME StateInv, NEW h \in Handles, Release(h)
    PROVE  /\ \A s \in SlotIds : ~slots[s].retired => OnlyReaders(s)
           /\ view'[h] = NoView
           /\ \A g \in Handles : g # h => view'[g] = view[g]
<1> USE SizeAssumption
<1>0. PICK v : v = view[h] OBVIOUS
<1>1. slots \in [SlotIds -> Slot] /\ view \in [Handles -> View \cup {NoView}]
    BY DEF StateInv, TypeOK
<1>2. v \in View /\ v.slot \in SlotIds /\ v.snap \in SnapIds
    BY <1>0, <1>1 DEF Release, View
<1>3. view' = [view EXCEPT ![h] = NoView] /\ ReleaseView(v)
    BY <1>0 DEF Release
<1>4. CASE slots' = slots
    BY <1>1, <1>3, <1>4 DEF OnlyReaders
<1>5. CASE slots' = Dropped(v)
  <2>1. \A s \in SlotIds : OnlyReaders(s)
      BY <1>1, <1>2, <1>5 DEF OnlyReaders, Dropped, Slot, Snapshot
  <2> QED BY <2>1, <1>1, <1>3
<1>6. CASE IsLastOfRetired(v) /\ Reclaim(v.slot)
  <2>1. slots[v.slot].retired BY <1>6 DEF IsLastOfRetired
  <2>2. \A s \in SlotIds : s # v.slot => slots'[s] = slots[s]
      BY <1>1, <1>6 DEF Reclaim
  <2> QED BY <1>1, <1>3, <2>1, <2>2 DEF OnlyReaders
<1> QED BY <1>3, <1>4, <1>5, <1>6 DEF ReleaseView

LEMMA ReleasedInv ==
    ASSUME FewReaders, StoreInv, StateInv', NEW h \in Handles, Release(h),
           UNCHANGED <<made, count, known>>, 
           \A g \in Handles : g # h => (g \in probing' <=> g \in probing)
    PROVE  StoreInv'
<1> USE SizeAssumption DEF StoreInv
<1>1. /\ \A s \in SlotIds : ~slots[s].retired => OnlyReaders(s)
      /\ view'[h] = NoView
      /\ \A g \in Handles : g # h => view'[g] = view[g]
    BY ReleaseKeepsVisible
<1>2. StoreTypeOK' BY DEF StoreTypeOK
<1>3. HeldIsKnown' BY <1>1 DEF HeldIsKnown, Holding
<1>4. KnownIsTracked'
  <2> SUFFICES ASSUME NEW g \in Handles, Live(g)
               PROVE  \E t \in SlotIds : Tracks(g, t)'
      BY DEF KnownIsTracked, Live
  <2>1. PICK t \in SlotIds : Tracks(g, t) BY DEF KnownIsTracked
  <2>2. OnlyReaders(t) BY <1>1, <2>1 DEF Tracks, Matches
  <2>3. Holding(g)' => view'[g].slot = t BY <1>1, <2>1 DEF Tracks, Holding
  <2>4. Tracks(g, t)' BY <2>1, <2>2, <2>3, TrackKept
  <2> QED BY <2>4
<1> QED BY <1>2, <1>3, <1>4

LEMMA StoreRetireInv ==
    ASSUME FewReaders, StoreInv, StateInv', NEW n \in Names, StoreRetire(n)
    PROVE  StoreInv'
<1> USE SizeAssumption DEF StoreInv
<1>1. /\ Retire(n) /\ UNCHANGED <<made, count, probing, view>>
      /\ known' = [h \in Handles |->
            IF known[h].name = n THEN [known[h] EXCEPT !.withdrawn = TRUE]
            ELSE known[h]]
    BY DEF StoreRetire, Retire
<1>2. slots \in [SlotIds -> Slot] BY DEF StateInv, TypeOK
<1>3. \A h \in Handles :
          /\ known'[h] \in Knowledge
          /\ known'[h].name = known[h].name /\ known'[h].gen = known[h].gen
          /\ known'[h].withdrawn = (known[h].withdrawn \/ known[h].name = n)
          /\ known[h].name # n => known'[h] = known[h]
    BY <1>1 DEF StoreTypeOK, Knowledge
<1>4. \A h \in Handles : known'[h] = NotKnown <=> known[h] = NotKnown
    BY <1>3, NameAssumption DEF NotKnown
<1>5. StoreTypeOK' BY <1>1, <1>3, <1>4 DEF StoreTypeOK
<1>6. HeldIsKnown' BY <1>1, <1>3, <1>4 DEF HeldIsKnown, Holding
<1>7. KnownIsTracked'
  <2> SUFFICES ASSUME NEW h \in Handles, Live(h)'
               PROVE  \E t \in SlotIds : Tracks(h, t)'
      BY DEF KnownIsTracked
  <2>1. known[h].name # n /\ Live(h) BY <1>3, <1>4 DEF Live
  <2>2. PICK t \in SlotIds : Tracks(h, t) BY <2>1 DEF KnownIsTracked
  <2>3. PICK s \in SlotIds :
            /\ FirstMatch(s, n)
            /\ \/ slots' = [slots EXCEPT ![s] = EmptySlot]
               \/ slots' = [slots EXCEPT ![s].retired = TRUE]
      BY <1>1 DEF Retire, Reclaim
  <2>4. s # t BY <2>1, <2>2, <2>3 DEF Tracks, FirstMatch, Matches
  <2>5. slots'[t] = slots[t] BY <2>3, <2>4, <1>2
  <2>6. OnlyReaders(t) BY <2>5 DEF OnlyReaders
  <2>7. Holding(h)' => view'[h].slot = t BY <1>1, <2>2 DEF Tracks, Holding
  <2>8. Tracks(h, t)' BY <1>1, <1>3, <2>1, <2>2, <2>6, <2>7, TrackKept
  <2> QED BY <2>8
<1> QED BY <1>5, <1>6, <1>7

LEMMA StoreDestroyInv ==
    ASSUME FewReaders, StoreInv, StateInv', StoreDestroy
    PROVE  StoreInv'
<1> USE SizeAssumption DEF StoreInv
<1>1. /\ UNCHANGED <<made, count, probing, view>>
      /\ known' = [h \in Handles |->
            IF known[h] # NotKnown /\ ret'.st = "OK"
            THEN [known[h] EXCEPT !.withdrawn = TRUE] ELSE known[h]]
      /\ ret'.st = "OK" \/ UNCHANGED slots
    BY DEF StoreDestroy, Destroy, Fail, Return, table
<1>2. \A h \in Handles :
          /\ known'[h] \in Knowledge
          /\ known'[h].name = known[h].name /\ known'[h].gen = known[h].gen
          /\ ret'.st = "OK" /\ known[h] # NotKnown => known'[h].withdrawn
          /\ ret'.st # "OK" => known'[h] = known[h]
          /\ known[h] = NotKnown => known'[h] = NotKnown
    BY <1>1 DEF StoreTypeOK, Knowledge
<1>3. \A h \in Handles : known'[h] = NotKnown <=> known[h] = NotKnown
  <2> SUFFICES ASSUME NEW h \in Handles, known'[h] = NotKnown
               PROVE  known[h] = NotKnown
      BY <1>2
  <2>1. known[h].name = NoName BY <1>2 DEF NotKnown
  <2> QED BY <2>1, NameAssumption DEF StoreTypeOK
<1>4. StoreTypeOK' BY <1>1, <1>2, <1>3 DEF StoreTypeOK
<1>5. HeldIsKnown' BY <1>1, <1>2, <1>3 DEF HeldIsKnown, Holding
<1>6. KnownIsTracked'
  <2> SUFFICES ASSUME NEW h \in Handles, Live(h)'
               PROVE  \E t \in SlotIds : Tracks(h, t)'
      BY DEF KnownIsTracked
  <2>1. ret'.st # "OK" BY <1>2, <1>3 DEF Live
  <2>2. known'[h] = known[h] BY <1>2, <2>1
  <2> QED BY <1>1, <2>1, <2>2, UnchangedTracked DEF Live
<1> QED BY <1>4, <1>5, <1>6

\* Steps of the store are steps of the table.
LEMMA StoreStepIsTableStep ==
    ASSUME StoreTypeOK, [StoreNext]_storeVars
    PROVE  [Next]_vars
<1>1. ASSUME NEW n \in Names,
             \/ StorePublish(n) \/ StoreRetire(n)
             \/ \E h \in Handles : Learn(h, n)
      PROVE  Next
    BY <1>1 DEF StorePublish, StoreRetire, Learn, Next
<1>2. ASSUME NEW h \in Handles, ResolveAtBegin(h) PROVE Next
  <2>1. known[h].name \in Names
      BY <1>2 DEF ResolveAtBegin, StoreTypeOK
  <2> QED BY <1>2, <2>1 DEF ResolveAtBegin, Next
<1>3. ASSUME NEW h \in Handles, ResolveAtReject(h) \/ StoreRelease(h) PROVE Next
    BY <1>3 DEF ResolveAtReject, Rejected, StoreRelease, Next
<1>4. ASSUME NEW h \in Handles, Forget(h) \/ ResolveAtAccept(h)
      PROVE  UNCHANGED vars
    BY <1>4 DEF Forget, ResolveAtAccept
<1>5. ASSUME StoreShutdown \/ StoreDestroy PROVE Next
    BY <1>5 DEF StoreShutdown, StoreDestroy, Next
<1>6. ASSUME UNCHANGED storeVars PROVE UNCHANGED vars
    BY <1>6 DEF storeVars
<1> QED BY <1>1, <1>2, <1>3, <1>4, <1>5, <1>6 DEF StoreNext

LEMMA StoreStepInv ==
    ASSUME FewReaders, StoreInv, [StoreNext]_storeVars
    PROVE  StoreInv'
<1>1. [Next]_vars BY StoreStepIsTableStep DEF StoreInv
<1>2. StateInv' BY <1>1, StepInv DEF StoreInv
<1>3. ASSUME NEW n \in Names, StorePublish(n) PROVE StoreInv'
    BY <1>2, <1>3, StorePublishInv
<1>4. ASSUME NEW n \in Names, StoreRetire(n) PROVE StoreInv'
    BY <1>2, <1>4, StoreRetireInv
<1>5. ASSUME NEW n \in Names, NEW h \in Handles, Learn(h, n) PROVE StoreInv'
    BY <1>2, <1>5, LearnInv
<1>6. ASSUME NEW h \in Handles, Forget(h) PROVE StoreInv'
    BY <1>2, <1>6, ForgetInv
<1>7. ASSUME NEW h \in Handles, ResolveAtBegin(h) PROVE StoreInv'
    BY <1>2, <1>7, ResolveAtBeginInv
<1>8. ASSUME NEW h \in Handles, ResolveAtReject(h) PROVE StoreInv'
    BY <1>2, <1>8, ReleasedInv DEF ResolveAtReject, Rejected
<1>9. ASSUME NEW h \in Handles, StoreRelease(h) PROVE StoreInv'
    BY <1>2, <1>9, ReleasedInv DEF StoreRelease
<1>10. ASSUME UNCHANGED <<slots, view, made, count, known>>,
              \A h \in Handles :
                  h \in probing' \/ (h \in probing /\ view[h].gen = known[h].gen)
                  \/ h \notin probing
       PROVE  StoreInv'
  <2>1. StoreTypeOK' BY <1>10 DEF StoreInv, StoreTypeOK
  <2>2. HeldIsKnown' BY <1>10 DEF StoreInv, HeldIsKnown, Holding
  <2>3. KnownIsTracked'
      BY <1>10, UnchangedTracked DEF StoreInv, KnownIsTracked, Live
  <2> QED BY <1>2, <2>1, <2>2, <2>3 DEF StoreInv
<1>11. ASSUME NEW h \in Handles, ResolveAtAccept(h) PROVE StoreInv'
    BY <1>10, <1>11 DEF ResolveAtAccept, Expected, vars
<1>12. ASSUME StoreShutdown PROVE StoreInv'
    BY <1>10, <1>12 DEF StoreShutdown, Shutdown
<1>13. ASSUME UNCHANGED storeVars PROVE StoreInv'
    BY <1>10, <1>13 DEF storeVars, vars
<1>14. ASSUME StoreDestroy PROVE StoreInv'
    BY <1>2, <1>14, StoreDestroyInv
<1> QED
    BY <1>3, <1>4, <1>5, <1>6, <1>7, <1>8, <1>9, <1>11, <1>12, <1>13, <1>14
    DEF StoreNext

\* What resolve_at accepted is the publication whose generation was learned,
\* unless its name was withdrawn since.
THEOREM AcceptedCorrect ==
    ASSUME FewReaders
    PROVE  StoreSpec => []AcceptedIsExpected
<1>1. StoreInit => StoreInv BY StoreInitInv
<1>2. StoreInv /\ [StoreNext]_storeVars => StoreInv' BY StoreStepInv
<1>3. StoreInv => AcceptedIsExpected
  <2> SUFFICES ASSUME StoreInv, NEW h \in Handles, h \notin probing,
                      Holding(h), ~known[h].withdrawn
               PROVE  made[view[h].slot][view[h].snap] = known[h].made
      BY DEF AcceptedIsExpected
  <2>1. PICK s \in SlotIds : Tracks(h, s)
      BY DEF StoreInv, HeldIsKnown, KnownIsTracked, Live
  <2>2. view[h].slot = s /\ view[h].gen = known[h].gen
      BY <2>1 DEF Tracks, StoreInv, HeldIsKnown
  <2>3. view[h].snap \in SnapIds
      BY DEF StoreInv, StateInv, TypeOK, View, Holding
  <2>4. slots[s].snaps[view[h].snap].live
        /\ slots[s].snaps[view[h].snap].gen = known[h].gen
      BY <2>2 DEF StoreInv, StateInv, HeldViewsIntact
  <2> QED BY <2>1, <2>2, <2>3, <2>4 DEF Tracks
<1> QED BY <1>1, <1>2, <1>3, PTL DEF StoreSpec

=============================================================================
