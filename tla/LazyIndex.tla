------------------------------- MODULE LazyIndex -------------------------------
(***************************************************************************)
(* The static registries (SUAS-008 to 010, 013 to 017, SUTS-003 to 007,    *)
(* SUTR-11 and 12) share one design: an immutable table of rows and an     *)
(* open-addressing index over it that the first call builds.  The index is *)
(* plain static storage without a lock, and some registries rebuild it at  *)
(* every call of their init function.                                      *)
(*                                                                         *)
(* A slot holds a row number; 0 is a free slot (the code keeps a used flag *)
(* beside the row, or stores the row plus one).  Hashes are abstract: any  *)
(* key may start at any slot.                                              *)
(***************************************************************************)
EXTENDS Naturals

CONSTANTS Threads, Keys,
          Rows,        \* the number of rows of the table
          Slots,       \* the size of the index
          KeyOf,       \* the key of each row
          Homes,       \* the hash functions considered
          Serialised,  \* the callers keep the documented start-up order
          NoKey

Row == 1 .. Rows
Slot == 0 .. Slots - 1

ASSUME IndexAssumption ==
  /\ Rows \in Nat \ {0} /\ Slots \in Nat /\ Rows < Slots
  /\ KeyOf \in [Row -> Keys]
  /\ \A r, s \in Row : KeyOf[r] = KeyOf[s] => r = s
  /\ Homes \subseteq [Keys -> Slot]
  /\ NoKey \notin Keys
  /\ Serialised \in BOOLEAN

--------------------------------------------------------------------------------
(* The registries: slots of the index, rows of the table, and whether init *)
(* builds once, because it tests the ready flag, or always.                *)
Registry(slots, rows, init) == [slots |-> slots, rows |-> rows, init |-> init]

Sucsl == Registry(512, 86, "once")
Sums == Registry(256, 55, "once")
SumsVariants == Registry(256, 10, "once")
Suvtl == Registry(1024, 217, "once")
Sukemet == Registry(16384, 5109, "once")
Sueasd == Registry(65536, 18815, "once")
Suamr == Registry(512, 33, "once")
Sisr == Registry(512, 14, "once")
SisrLinks == Registry(128, 8, "once")
Sidn == Registry(256, 59, "once")
Sueps == Registry(256, 53, "once")
Ssre == Registry(256, 62, "always")
Sncs == Registry(128, 23, "always")
Sip == Registry(256, 28, "always")
Sivd == Registry(256, 20, "always")
Sldf == Registry(128, 15, "always")
ScssAttributes == Registry(256, 31, "always")
ScssSkeletons == Registry(256, 22, "always")

Registries == {Sucsl, Sums, SumsVariants, Suvtl, Sukemet, Sueasd, Suamr, Sisr, SisrLinks, Sidn,
               Sueps, Ssre, Sncs, Sip, Sivd, Sldf, ScssAttributes, ScssSkeletons}

(* Every shipped registry has the free slot that ends the probes of a      *)
(* missing key and the build's search for a place.                         *)
ASSUME RegistriesFit == \A g \in Registries : g.rows < g.slots

--------------------------------------------------------------------------------
VARIABLES home,    \* the slot each key hashes to (chosen once)
          builds,  \* whether the registry's init tests the ready flag (chosen once)
          ready, index,
          pc,      \* what each thread is doing
          key,     \* the key its call looks for; NoKey for a call of init
          row, at, \* its loop variables
          found    \* what its last lookup returned; 0 is "no such key"

vars == <<home, builds, ready, index, pc, key, row, at, found>>

TypeOK ==
  /\ home \in [Keys -> Slot]
  /\ builds \in {"once", "always"}
  /\ ready \in BOOLEAN
  /\ index \in [Slot -> {0} \cup Row]
  /\ pc \in [Threads -> {"idle", "clear", "place", "probe"}]
  /\ key \in [Threads -> Keys \cup {NoKey}]
  /\ row \in [Threads -> Row]
  /\ at \in [Threads -> Slot]
  /\ found \in [Threads -> {0} \cup Row]

Init ==
  /\ home \in Homes
  /\ builds \in {g.init : g \in Registries}
  /\ ready = FALSE
  /\ index = [s \in Slot |-> 0]
  /\ pc = [t \in Threads |-> "idle"]
  /\ key = [t \in Threads |-> NoKey]
  /\ row = [t \in Threads |-> 1]
  /\ at = [t \in Threads |-> 0]
  /\ found = [t \in Threads |-> 0]

(* Slip: the probe runs off the end of the index instead of wrapping. *)
After_Stuck(s) == IF s = Slots - 1 THEN s ELSE s + 1

After(s) == IF s = Slots - 1 THEN 0 ELSE s + 1

Building(t) == pc[t] \in {"clear", "place"}

(* A call that writes the index: the first one, and every init of a        *)
(* registry whose init does not test the flag.                             *)
Writes(k) == ~ready \/ (k = NoKey /\ builds = "always")

(* The start-up order two of the documents ask for: a call that may build  *)
(* the index runs alone, so that afterwards lookups may run concurrently.  *)
MayCall(t, k) ==
  Serialised =>
    /\ \A u \in Threads : ~Building(u)
    /\ Writes(k) => \A u \in Threads \ {t} : pc[u] = "idle"

StartBuild(t, k) ==
  /\ pc' = [pc EXCEPT ![t] = "clear"]
  /\ key' = [key EXCEPT ![t] = k]
  /\ at' = [at EXCEPT ![t] = 0]

(* The init function. *)
CallInit(t) ==
  /\ pc[t] = "idle" /\ MayCall(t, NoKey)
  /\ Writes(NoKey)
  /\ StartBuild(t, NoKey)
  /\ UNCHANGED <<home, builds, ready, index, row, found>>

(* A query: it builds the index if nobody has. *)
CallFind(t, k) ==
  /\ pc[t] = "idle" /\ MayCall(t, k)
  /\ IF ready
       THEN /\ pc' = [pc EXCEPT ![t] = "probe"]
            /\ key' = [key EXCEPT ![t] = k]
            /\ at' = [at EXCEPT ![t] = home[k]]
       ELSE StartBuild(t, k)
  /\ UNCHANGED <<home, builds, ready, index, row, found>>

(* One step of the loop that frees all slots. *)
Clear(t) ==
  /\ pc[t] = "clear"
  /\ index' = [index EXCEPT ![at[t]] = 0]
  /\ IF at[t] = Slots - 1
       THEN /\ pc' = [pc EXCEPT ![t] = "place"]
            /\ row' = [row EXCEPT ![t] = 1]
            /\ at' = [at EXCEPT ![t] = home[KeyOf[1]]]
       ELSE /\ at' = [at EXCEPT ![t] = @ + 1]
            /\ UNCHANGED <<pc, row>>
  /\ UNCHANGED <<home, builds, ready, key, found>>

(* The row's place is taken: try the next slot. *)
PlaceOccupied(t) ==
  /\ pc[t] = "place" /\ index[at[t]] # 0
  /\ at' = [at EXCEPT ![t] = After(@)]
  /\ UNCHANGED <<home, builds, ready, index, pc, key, row, found>>

(* Slip: a row is written to the slot it hashes to, whatever stands there. *)
PlaceRow_Over(t) ==
  /\ pc[t] = "place" /\ row[t] < Rows
  /\ index' = [index EXCEPT ![at[t]] = row[t]]
  /\ row' = [row EXCEPT ![t] = @ + 1]
  /\ at' = [at EXCEPT ![t] = home[KeyOf[row[t] + 1]]]
  /\ UNCHANGED <<home, builds, ready, pc, key, found>>

PlaceRow(t) ==
  /\ pc[t] = "place" /\ index[at[t]] = 0 /\ row[t] < Rows
  /\ index' = [index EXCEPT ![at[t]] = row[t]]
  /\ row' = [row EXCEPT ![t] = @ + 1]
  /\ at' = [at EXCEPT ![t] = home[KeyOf[row[t] + 1]]]
  /\ UNCHANGED <<home, builds, ready, pc, key, found>>

(* The last row: the index is published, and a query goes on to its lookup. *)
PlaceLast(t) ==
  /\ pc[t] = "place" /\ index[at[t]] = 0 /\ row[t] = Rows
  /\ index' = [index EXCEPT ![at[t]] = row[t]]
  /\ ready' = TRUE
  /\ IF key[t] = NoKey
       THEN /\ pc' = [pc EXCEPT ![t] = "idle"]
            /\ UNCHANGED at
       ELSE /\ pc' = [pc EXCEPT ![t] = "probe"]
            /\ at' = [at EXCEPT ![t] = home[key[t]]]
  /\ UNCHANGED <<home, builds, key, row, found>>

Return(t, r) ==
  /\ found' = [found EXCEPT ![t] = r]
  /\ pc' = [pc EXCEPT ![t] = "idle"]
  /\ UNCHANGED <<home, builds, ready, index, key, row, at>>

Match(t) == index[at[t]] # 0 /\ KeyOf[index[at[t]]] = key[t]

ProbeHit(t) == pc[t] = "probe" /\ Match(t) /\ Return(t, index[at[t]])

(* Slip: the lookup looks at the slot the key hashes to and no further. *)
ProbeMiss_First(t) == pc[t] = "probe" /\ ~Match(t) /\ Return(t, 0)

(* A free slot ends the chain, and so does a full turn. *)
ProbeMiss(t) ==
  /\ pc[t] = "probe" /\ ~Match(t)
  /\ index[at[t]] = 0 \/ After(at[t]) = home[key[t]]
  /\ Return(t, 0)

ProbeNext(t) ==
  /\ pc[t] = "probe" /\ ~Match(t)
  /\ index[at[t]] # 0 /\ After(at[t]) # home[key[t]]
  /\ at' = [at EXCEPT ![t] = After(@)]
  /\ UNCHANGED <<home, builds, ready, index, pc, key, row, found>>

Step(t) ==
  \/ Clear(t) \/ PlaceOccupied(t) \/ PlaceRow(t) \/ PlaceLast(t)
  \/ ProbeHit(t) \/ ProbeMiss(t) \/ ProbeNext(t)

Next ==
  \E t \in Threads :
    \/ CallInit(t)
    \/ \E k \in Keys : CallFind(t, k)
    \/ Step(t)

(* A thread inside a call goes on with it. *)
Spec == Init /\ [][Next]_vars /\ \A t \in Threads : WF_vars(Step(t))

--------------------------------------------------------------------------------
(* The slots from s up to e, e excluded, in the order of the probes. *)
Arc(s, e) == IF s <= e THEN s .. e - 1 ELSE (s .. Slots - 1) \cup (0 .. e - 1)

(* The rows from 1 to n and no others are in the index, each once, and     *)
(* the slots between the one a row hashes to and the one it got hold rows  *)
(* placed before it.  This determines the index.                           *)
Placed(n) ==
  /\ \A s \in Slot : index[s] \in 0 .. n
  /\ \A s, e \in Slot : index[s] = index[e] /\ index[s] # 0 => s = e
  /\ \A r \in 1 .. n : \E s \in Slot :
       index[s] = r /\ \A q \in Arc(home[KeyOf[r]], s) : index[q] \in 1 .. r - 1

(* Once the index is published and nobody rebuilds it, it is the one the   *)
(* table and the hashes determine, however often init was called: SUAS-009 *)
(* section 3, "the index is always the same afterwards".                   *)
PublishedWhole ==
  ready /\ (\A t \in Threads : ~Building(t)) => Placed(Rows)

(* The index and the variables of every call are well typed, and a         *)
(* published index is whole.                                               *)
IndexIntact == TypeOK /\ PublishedWhole

(* A lookup returns a row exactly when the table has one for the key, and  *)
(* then that row: collisions, chains that wrap, lookups that run           *)
(* concurrently and later calls of init never make a registered key        *)
(* missing.  SUTR-012 section 4.7: after init lookups "may run             *)
(* concurrently".                                                          *)
AnswersExact ==
  [][\A t \in Threads :
       pc[t] = "probe" /\ pc'[t] = "idle" =>
         IF \E r \in Row : KeyOf[r] = key[t]
           THEN found'[t] \in Row /\ KeyOf[found'[t]] = key[t]
           ELSE found'[t] = 0]_vars

(* Every call returns: the search for a free slot and the probes of a      *)
(* missing key do not go round forever.                                    *)
CallsReturn == \A t \in Threads : pc[t] # "idle" ~> pc[t] = "idle"
================================================================================
