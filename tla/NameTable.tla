------------------------------ MODULE NameTable ------------------------------
(***************************************************************************)
(* The SKTO published-name table (src/suas/suas_skto.c, section "Names").  *)
(*                                                                         *)
(* A slot holds one published name.  It owns a fixed pool of snapshot      *)
(* records: one is visible (active), the others keep older generations     *)
(* for readers that still hold them.  Every operation of the C code runs   *)
(* between skto_table_lock and skto_table_unlock, so it is one action      *)
(* here; callers of a table without callbacks must serialise it themselves. *)
(*                                                                         *)
(* A handle is a place a client keeps one acquired view.  view[h].slot and *)
(* view[h].snap are the address of the record (view->bytes), view[h].gen   *)
(* its generation, and view[h].name what the bytes read when the view was  *)
(* taken: the length of the view is Len[view[h].name].                     *)
(***************************************************************************)
EXTENDS Integers, FiniteSets

CONSTANTS
    Names,       \* byte sequences a client may ask for
    Publishable, \* those suas_skto_name_check admits
    Len,         \* Len[n]: length of a name, all that release compares
    Handles,     \* places that hold an acquired view
    Capacity,    \* SKTO_NAME_CAPACITY
    Snapshots,   \* SKTO_NAME_SNAPSHOTS
    MaxGen,      \* 0xFFFFFFFF, the last generation
    MaxReaders,  \* UINT32_MAX, the most readers one record counts
    ReaderMod,   \* 2^32, the modulus of the reader sums
    NoName,      \* contents of a cleared record
    NoView       \* a handle that holds nothing

ASSUME SizeAssumption ==
    /\ Capacity \in Nat \ {0}
    /\ Snapshots \in Nat \ {0}
    /\ MaxGen \in Nat
    /\ ReaderMod \in Nat \ {0}
    /\ MaxReaders \in 0 .. ReaderMod - 1

ASSUME NameAssumption ==
    /\ Publishable \subseteq Names
    /\ Len \in [Names -> Nat]
    /\ NoName \notin Names

SlotIds == 0 .. Capacity - 1
SnapIds == 0 .. Snapshots - 1

Snapshot == [name : Names \cup {NoName}, gen : 0 .. MaxGen,
             readers : 0 .. MaxReaders, live : BOOLEAN]
Slot == [snaps : [SnapIds -> Snapshot], active : SnapIds,
         live : BOOLEAN, retired : BOOLEAN]
View == [slot : SlotIds, snap : SnapIds, gen : 0 .. MaxGen, name : Names]

\* NoView is neither a descriptor nor a publication read through one.
ASSUME ViewAssumption == NoView \notin View
ASSUME PublicationAssumption ==
    \A n \in Names, g \in 0 .. MaxGen : NoView # [name |-> n, gen |-> g]

Statuses == {"OK", "OVERFLOW", "POLICY", "FULL", "NOTFOUND", "BUSY"}
Operations == {"init", "publish", "resolve", "observe", "retire", "release",
               "shutdown", "drain", "destroy"}

VARIABLES
    slots,          \* table->slots
    live,           \* table->live
    shutting_down,  \* table->shutting_down
    view,           \* the views clients hold
    ret             \* the last operation and the status it returned

table == <<slots, live, shutting_down>>
vars == <<slots, live, shutting_down, view, ret>>

EmptySnap == [name |-> NoName, gen |-> 0, readers |-> 0, live |-> FALSE]
EmptySlot == [snaps |-> [j \in SnapIds |-> EmptySnap],
              active |-> 0, live |-> FALSE, retired |-> FALSE]

-----------------------------------------------------------------------------
(* Reading the table.                                                      *)

Active(s) == slots[s].snaps[slots[s].active]

\* Slip: a retired slot still matches.
Matches_IgnoresRetired(s, n) == slots[s].live /\ Active(s).name = n

Matches(s, n) == /\ slots[s].live
                 /\ ~slots[s].retired
                 /\ Active(s).name = n

\* The loops run upwards and stop at the first hit.
FirstMatch(s, n) == Matches(s, n) /\ \A t \in 0 .. s - 1 : ~Matches(t, n)

NoMatch(n) == \A s \in SlotIds : ~Matches(s, n)

FirstFree(s) == ~slots[s].live /\ \A t \in 0 .. s - 1 : slots[t].live

\* Slips: any record but the visible one is taken, read or not; or a record
\* that once held a generation is never taken again.
Reusable_IgnoresReaders(s, j) == j # slots[s].active
Reusable_NeverUsed(s, j) == j # slots[s].active /\ ~slots[s].snaps[j].live

Reusable(s, j) == j # slots[s].active /\ slots[s].snaps[j].readers = 0
FirstReusable(s, j) == Reusable(s, j) /\ \A k \in 0 .. j - 1 : ~Reusable(s, k)

\* A uint32_t sum of reader counts over records of a table f, as the number
\* of references those counts stand for.
References(f, S) ==
    {r \in S \X SnapIds \X (0 .. ReaderMod - 2) :
         r[3] < f[r[1]].snaps[r[2]].readers}

\* Slip: only the visible record of each slot is counted.
ReaderSum_VisibleOnly(f, S) ==
    Cardinality({r \in References(f, S) : r[2] = f[r[1]].active}) % ReaderMod
ReaderSum(f, S) == Cardinality(References(f, S)) % ReaderMod

LiveSlots == {s \in SlotIds : slots[s].live}

-----------------------------------------------------------------------------
Return(op, st) == ret' = [op |-> op, st |-> st]

\* An operation that fails leaves the table as it found it.
Fail(op, st) == Return(op, st) /\ UNCHANGED <<table, view>>

\* skto_names_clear and both initialisers.
Init ==
    /\ slots = [s \in SlotIds |-> EmptySlot]
    /\ live = 0
    /\ shutting_down = FALSE
    /\ view = [h \in Handles |-> NoView]
    /\ ret = [op |-> "init", st |-> "OK"]

Admitted(n) == n \in Publishable /\ ~shutting_down

\* suas_skto_publish: the name is new and takes the first free slot.
PublishFresh(n) ==
    /\ Admitted(n)
    /\ NoMatch(n)
    /\ \E s \in SlotIds :
          /\ FirstFree(s)
          /\ slots' = [slots EXCEPT
                ![s].snaps[0] = [name |-> n, gen |-> 0, readers |-> 0,
                                 live |-> TRUE],
                ![s].active = 0,
                ![s].live = TRUE]
    /\ live' = live + 1
    /\ Return("publish", "OK")
    /\ UNCHANGED <<shutting_down, view>>

Exhausted(s) == Active(s).gen = MaxGen
NextGeneration(s) == Active(s).gen + 1

\* suas_skto_publish: an equal name is visible; generation + 1 goes into the
\* first inactive record no reader holds.
PublishReplace(n) ==
    /\ Admitted(n)
    /\ \E s \in SlotIds, j \in SnapIds :
          /\ FirstMatch(s, n)
          /\ ~Exhausted(s)
          /\ FirstReusable(s, j)
          /\ slots' = [slots EXCEPT
                ![s].snaps[j] = [name |-> n, gen |-> NextGeneration(s),
                                 readers |-> 0, live |-> TRUE],
                ![s].active = j]
    /\ Return("publish", "OK")
    /\ UNCHANGED <<live, shutting_down, view>>

PublishRefused(n) ==
    \/ ~Admitted(n) /\ Fail("publish", "POLICY")
    \/ /\ Admitted(n)
       /\ \E s \in SlotIds : FirstMatch(s, n) /\ Exhausted(s)
       /\ Fail("publish", "OVERFLOW")
    \/ /\ Admitted(n)
       /\ \E s \in SlotIds : /\ FirstMatch(s, n)
                             /\ ~Exhausted(s)
                             /\ \A j \in SnapIds : ~Reusable(s, j)
       /\ Fail("publish", "BUSY")
    \/ /\ Admitted(n)
       /\ NoMatch(n)
       /\ LiveSlots = SlotIds
       /\ Fail("publish", "FULL")

\* Slips: the count wraps; the reader is not counted.
Saturated_Never(s) == FALSE
Saturated(s) == Active(s).readers = MaxReaders
Taken_NotCounted(s) == slots
Taken(s) ==
    [slots EXCEPT ![s].snaps[slots[s].active].readers =
                      (@ + 1) % (MaxReaders + 1)]

\* suas_skto_resolve with an out_view: take one reference on the visible
\* record, unless its count is already UINT32_MAX.
Resolve(h, n) ==
    /\ view[h] = NoView
    /\ ~shutting_down
    /\ \E s \in SlotIds :
          /\ FirstMatch(s, n)
          /\ ~Saturated(s)
          /\ slots' = Taken(s)
          /\ view' = [view EXCEPT ![h] =
                [slot |-> s, snap |-> slots[s].active,
                 gen |-> Active(s).gen, name |-> Active(s).name]]
    /\ Return("resolve", "OK")
    /\ UNCHANGED <<live, shutting_down>>

ResolveRefused(h, n) ==
    /\ view[h] = NoView
    /\ \/ shutting_down /\ Fail("resolve", "POLICY")
       \/ ~shutting_down /\ NoMatch(n) /\ Fail("resolve", "NOTFOUND")
       \/ /\ ~shutting_down
          /\ \E s \in SlotIds : FirstMatch(s, n) /\ Saturated(s)
          /\ Fail("resolve", "BUSY")

\* suas_skto_resolve with out_view == NULL: an observation, no reference.
Observe(n) ==
    \/ ~shutting_down /\ ~NoMatch(n) /\ Fail("observe", "OK")
    \/ ~shutting_down /\ NoMatch(n) /\ Fail("observe", "NOTFOUND")
    \/ shutting_down /\ Fail("observe", "POLICY")

\* skto_slot_reclaim with the table->live-- that follows each call of it.
Reclaim(s) ==
    slots' = [slots EXCEPT ![s] = EmptySlot] /\ live' = live - 1

\* suas_skto_retire, allowed while shutting down.
Retire(n) ==
    /\ \E s \in SlotIds :
          /\ FirstMatch(s, n)
          /\ IF ReaderSum(slots, {s}) = 0
             THEN Reclaim(s)
             ELSE /\ slots' = [slots EXCEPT ![s].retired = TRUE]
                  /\ UNCHANGED live
    /\ Return("retire", "OK")
    /\ UNCHANGED <<shutting_down, view>>

RetireMissing(n) == NoMatch(n) /\ Fail("retire", "NOTFOUND")

\* The record a view designates for suas_skto_name_release: same address,
\* generation and length, in a live slot, with a reader left to drop.
Identifies(v) ==
    LET snap == slots[v.slot].snaps[v.snap] IN
    /\ slots[v.slot].live
    /\ snap.live
    /\ snap.readers > 0
    /\ snap.gen = v.gen
    /\ Len[snap.name] = Len[v.name]

Dropped(v) == [slots EXCEPT ![v.slot].snaps[v.snap].readers = @ - 1]

\* The last release of a retired slot reclaims it.
\* Slip: releases leave reclaiming to somebody else.
IsLastOfRetired_Never(v) == FALSE
IsLastOfRetired(v) ==
    slots[v.slot].retired /\ ReaderSum(Dropped(v), {v.slot}) = 0

\* The body of suas_skto_name_release for any view a caller passes.
ReleaseView(v) ==
    \/ /\ Identifies(v)
       /\ IF IsLastOfRetired(v)
          THEN Reclaim(v.slot)
          ELSE slots' = Dropped(v) /\ UNCHANGED live
       /\ Return("release", "OK")
    \/ /\ ~Identifies(v)
       /\ UNCHANGED <<slots, live>>
       /\ Return("release", "NOTFOUND")

\* A client that keeps the rule "exactly once": its handle is empty after.
Release(h) ==
    /\ view[h] # NoView
    /\ ReleaseView(view[h])
    /\ view' = [view EXCEPT ![h] = NoView]
    /\ UNCHANGED shutting_down

Shutdown ==
    /\ shutting_down' = TRUE
    /\ Return("shutdown", "OK")
    /\ UNCHANGED <<slots, live, view>>

\* suas_skto_names_drain: a report, read under the lock.
Drain == Fail("drain", IF ReaderSum(slots, LiveSlots) = 0 THEN "OK" ELSE "BUSY")

\* suas_skto_names_destroy: the clear also resets shutting_down.
Destroy ==
    IF ReaderSum(slots, LiveSlots) > 0
    THEN Fail("destroy", "BUSY")
    ELSE /\ slots' = [s \in SlotIds |-> EmptySlot]
         /\ live' = 0
         /\ shutting_down' = FALSE
         /\ Return("destroy", "OK")
         /\ UNCHANGED view

Next ==
    \/ \E n \in Names :
          \/ PublishFresh(n) \/ PublishReplace(n) \/ PublishRefused(n)
          \/ Observe(n) \/ Retire(n) \/ RetireMissing(n)
          \/ \E h \in Handles : Resolve(h, n) \/ ResolveRefused(h, n)
    \/ \E h \in Handles : Release(h)
    \/ Shutdown \/ Drain \/ Destroy

Spec == Init /\ [][Next]_vars

-----------------------------------------------------------------------------
(* Properties.                                                             *)

Holding(h) == view[h] # NoView
Holders(s, j) == {h \in Handles : /\ Holding(h)
                                  /\ view[h].slot = s
                                  /\ view[h].snap = j}

\* The types of the table, of the views and of the returned status.
TypeOK ==
    /\ slots \in [SlotIds -> Slot]
    /\ live \in 0 .. Capacity
    /\ shutting_down \in BOOLEAN
    /\ view \in [Handles -> View \cup {NoView}]
    /\ ret \in [op : Operations, st : Statuses]

\* A reader count is the number of views taken on that record and not yet
\* released, whatever publications, retirements and failed destroys happened.
ReadersExact ==
    \A s \in SlotIds, j \in SnapIds :
        slots[s].snaps[j].readers = Cardinality(Holders(s, j))

\* A view stays byte-exact until its release: the record behind its address
\* still holds the name and the generation the reader acquired.
HeldViewsIntact ==
    \A h \in Handles : Holding(h) =>
        LET v == view[h]
            snap == slots[v.slot].snaps[v.snap]
        IN  /\ slots[v.slot].live
            /\ snap.live
            /\ snap.name = v.name
            /\ snap.gen = v.gen

\* A name is visible in at most one slot, though retired slots may still
\* hold records of the same name.
OneVisible ==
    \A n \in Names, s, t \in SlotIds : Matches(s, n) /\ Matches(t, n) => s = t

\* A lookup sees the newest generation of a slot: every other record the slot
\* still owns is strictly older.  The code refuses a publication beyond the last
\* generation (skto.c:917); with one that wraps, as SUAS-018 12.5 and its Q5
\* have it, this would be false.
VisibleIsNewest ==
    \A s \in SlotIds, j \in SnapIds :
        slots[s].live /\ slots[s].snaps[j].live /\ j # slots[s].active
            => slots[s].snaps[j].gen < Active(s).gen

\* No slot is stranded: one that was retired is occupied only for the sake of
\* a reader, whose release will free it.
RetiredIsPinned ==
    \A s \in SlotIds : slots[s].live /\ slots[s].retired
        => \E j \in SnapIds : Holders(s, j) # {}

\* table->live counts the occupied slots (it is decremented on two paths).
LiveExact == live = Cardinality(LiveSlots)

\* The bookkeeping of the slots, whichever path published and reclaimed them.
SlotsSound == OneVisible /\ VisibleIsNewest /\ RetiredIsPinned /\ LiveExact

\* Counts, slots and views agree with each other in every reachable state.
TableSound == TypeOK /\ ReadersExact /\ SlotsSound

\* Drain and destroy report success only when no reader is left.
NoReaderLeft ==
    ret \in [op : {"drain", "destroy"}, st : {"OK"}]
        => \A h \in Handles : ~Holding(h)

\* A publication is refused with BUSY only when readers pin every record but
\* the visible one.
BusyMeansPinned ==
    ret = [op |-> "publish", st |-> "BUSY"]
        => \E s \in SlotIds : \A j \in SnapIds \ {slots[s].active} :
                Holders(s, j) # {}

\* Between shutdown and destroy no name becomes visible and no view is taken.
ClosedAdmitsNothing ==
    [][shutting_down /\ shutting_down' =>
        /\ \A h \in Handles : Holding(h)' => Holding(h)
        /\ \A n \in Names : NoMatch(n) => NoMatch(n)']_vars

\* A retired slot is given back once its readers have released.
RetiredIsReclaimed ==
    \A s \in SlotIds : slots[s].retired ~> ~slots[s].live

\* The registry a client sees: what a lookup of each name finds, and what the
\* bytes behind each held view read now.
Lookup == [n \in Names |->
    IF NoMatch(n) THEN -1
    ELSE Active(CHOOSE s \in SlotIds : Matches(s, n)).gen]
Reading == [h \in Handles |->
    IF Holding(h)
    THEN [name |-> slots[view[h].slot].snaps[view[h].snap].name,
          gen |-> slots[view[h].slot].snaps[view[h].snap].gen]
    ELSE NoView]

Registry == INSTANCE NameRegistry WITH
    Absent <- -1, Nothing <- NoView,
    visible <- Lookup, held <- Reading, closed <- shutting_down

\* Every operation is one step of the abstract registry, or none: a lookup
\* finds the visible generation, a held view reads what was acquired.
RefinesRegistry == Registry!RegistrySpec

=============================================================================
