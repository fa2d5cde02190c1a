------------------------ MODULE PluginLifecycleProofs ------------------------
(***************************************************************************)
(* Theorems about the plugin tables, for any blobs, ranges and capacities. *)
(***************************************************************************)
EXTENDS PluginLifecycle, NaturalsInduction, WellFoundedInduction, TLAPS

-----------------------------------------------------------------------------
(* Sequences.                                                              *)

LEMMA EmptyIs == ASSUME NEW S PROVE <<>> \in Seq(S) /\ Len(<<>>) = 0
OBVIOUS

LEMMA AppendedIs ==
    ASSUME NEW S, NEW s \in Seq(S), NEW e \in S
    PROVE  /\ Append(s, e) \in Seq(S) /\ Len(Append(s, e)) = Len(s) + 1
           /\ \A i \in 1 .. Len(s) : Append(s, e)[i] = s[i]
           /\ Append(s, e)[Len(s) + 1] = e
OBVIOUS

LEMMA JoinedIs ==
    ASSUME NEW S, NEW s \in Seq(S), NEW t \in Seq(S)
    PROVE  /\ s \o t \in Seq(S) /\ Len(s \o t) = Len(s) + Len(t)
           /\ \A i \in 1 .. Len(s) : (s \o t)[i] = s[i]
           /\ \A k \in 1 .. Len(t) : (s \o t)[Len(s) + k] = t[k]
OBVIOUS

-----------------------------------------------------------------------------
(* Ranges and gates.                                                       *)

\* The search for the first faulty range finds it.
LEMMA FirstIs ==
    ASSUME NEW I \in SUBSET Nat, I # {}
    PROVE  LET x == CHOOSE i \in I : \A j \in I : i <= j
           IN  x \in I /\ \A j \in I : x <= j
<1>1. PICK x \in I : \A y \in I : ~(<<y, x>> \in OpToRel(<, Nat))
    BY NatLessThanWellFounded, WFMin
<1>2. \A y \in I : x <= y
  <2> SUFFICES ASSUME NEW y \in I PROVE ~(y < x)
      OBVIOUS
  <2>1. OpToRel(<, Nat) = {s \in Nat \X Nat : s[1] < s[2]}
      BY Zenon DEF OpToRel
  <2>2. y < x => <<y, x>> \in {s \in Nat \X Nat : s[1] < s[2]}
      OBVIOUS
  <2> QED BY <1>1, <2>1, <2>2
<1> QED BY <1>2

\* A range that passes the policy is not empty and holds no frozen codepoint.
LEMMA CleanRange ==
    ASSUME NEW r \in Range, RangeFault(r) = "OK"
    PROVE  /\ r.start <= r.end
           /\ \A c \in r.start .. r.end : ~IsFrozen(c)
<1>1. r.start \in Nat /\ r.end \in Nat
    BY PluginAssumption DEF Range, Codepoints
<1>2. /\ ~(r.start > r.end) /\ ~(r.start <= ScpMax)
      /\ ~(r.start <= BaseLimit /\ r.end >= TrapMin)
    BY DEF RangeFault
<1> QED BY <1>1, <1>2, PluginAssumption DEF IsFrozen

\* The policy answers OK only if every range passes it.
LEMMA CleanRanges ==
    ASSUME NEW rs \in Seq(Range), RangesStatus(rs) = "OK"
    PROVE  \A i \in DOMAIN rs : RangeFault(rs[i]) = "OK"
<1> DEFINE faulty == {i \in DOMAIN rs : RangeFault(rs[i]) # "OK"}
<1>1. faulty \in SUBSET Nat OBVIOUS
<1>2. CASE faulty = {} BY <1>2
<1>3. CASE faulty # {}
  <2>1. RangesStatus(rs) =
            IF rs = <<>> THEN "INVALID_RANGE"
            ELSE RangeFault(rs[CHOOSE i \in faulty : \A j \in faulty : i <= j])
      BY <1>3 DEF RangesStatus
  <2> HIDE DEF faulty
  <2>2. (CHOOSE i \in faulty : \A j \in faulty : i <= j) \in faulty
      BY <1>1, <1>3, FirstIs
  <2>3. RangeFault(rs[CHOOSE i \in faulty : \A j \in faulty : i <= j]) # "OK"
      BY <2>2 DEF faulty
  <2> QED BY <2>1, <2>3
<1> QED BY <1>2, <1>3

\* The status of a range list, however many faults it has.
LEMMA RangesStatuses ==
    ASSUME NEW rs
    PROVE  RangesStatus(rs) \in {"INVALID_RANGE", "RANGE_PROTECTED", "OK"}
BY DEF RangesStatus, RangeFault

\* A blob is staged, and an id mounted, only where there is room.
LEMMA StagedHasRoom ==
    ASSUME NEW b \in Blobs, StageStatus(b) = "REBOOT_REQUIRED"
    PROVE  ~(Len(pending) >= MaxPending)
<1>1. b.form \in Forms BY PluginAssumption
<1>2. b.form # "REBOOT_REQUIRED" BY <1>1 DEF Forms
<1>3. ParseStatus(b) \in {"INVALID_RANGE", "INVALID_BLOB", "OK"}
    BY DEF ParseStatus
<1>4. RangesStatus(b.ranges) # "REBOOT_REQUIRED" BY RangesStatuses
<1> QED BY <1>2, <1>3, <1>4 DEF StageStatus

LEMMA MountedHasRoom ==
    ASSUME NEW id, NEW fs, NEW rs, MountStatus(id, fs, rs) = "OK"
    PROVE  ~(Len(mounted) >= MaxMounted)
BY DEF MountStatus

\* What register_plugin_ranges leaves in the registry.
LEMMA RegisteredIs ==
    ASSUME registered \in Seq(Range), Len(registered) <= MaxRegistered,
           NEW rs \in Seq(Range)
    PROVE  LET room == MaxRegistered - Len(registered)
               taken == IF Len(rs) <= room THEN Len(rs) ELSE room
           IN  /\ Registered(rs) \in Seq(Range)
               /\ Len(Registered(rs)) = Len(registered) + taken
               /\ taken \in 0 .. Len(rs)
               /\ Len(Registered(rs)) <= MaxRegistered
               /\ \A j \in 1 .. Len(registered) : Registered(rs)[j] = registered[j]
               /\ \A k \in 1 .. taken : Registered(rs)[Len(registered) + k] = rs[k]
<1> DEFINE room == MaxRegistered - Len(registered)
           taken == IF Len(rs) <= room THEN Len(rs) ELSE room
           new == SubSeq(rs, 1, taken)
<1>1. Len(registered) \in Nat /\ Len(rs) \in Nat /\ MaxRegistered \in Nat
    BY PluginAssumption
<1>2. taken \in 0 .. Len(rs) /\ Len(registered) + taken <= MaxRegistered
    BY <1>1
<1>3. new \in Seq(Range) /\ Len(new) = taken /\ \A k \in 1 .. taken : new[k] = rs[k]
    BY <1>2
<1>4. Registered(rs) = registered \o new BY DEF Registered
<1> HIDE DEF new, taken, room
<1>5. /\ Registered(rs) \in Seq(Range)
      /\ Len(Registered(rs)) = Len(registered) + taken
      /\ \A j \in 1 .. Len(registered) : Registered(rs)[j] = registered[j]
      /\ \A k \in 1 .. taken : Registered(rs)[Len(registered) + k] = rs[k]
  <2>1. /\ registered \o new \in Seq(Range)
        /\ Len(registered \o new) = Len(registered) + Len(new)
        /\ \A j \in 1 .. Len(registered) : (registered \o new)[j] = registered[j]
        /\ \A k \in 1 .. Len(new) : (registered \o new)[Len(registered) + k] = new[k]
      BY <1>3, JoinedIs
  <2> QED BY <2>1, <1>3, <1>4
<1> QED BY <1>2, <1>5 DEF room, taken

-----------------------------------------------------------------------------
(* The inductive invariant.                                                *)

\* The commit counts no further than the bound that BootBegin looked at.
CountCovered ==
    next # 0 => quarantined + Len(pending) - next + 1 <= MaxQuarantined

\* What is registered has passed the policy.
RegistryClean == \A j \in DOMAIN registered : RangeFault(registered[j]) = "OK"

TablesInv ==
    /\ TypeOK
    /\ CountCovered
    /\ RegistryClean
    /\ DroppedWhenFull
    /\ NothingDropped => OneOwner

LEMMA InitTables == Init => TablesInv
<1> SUFFICES ASSUME Init PROVE TablesInv OBVIOUS
<1> USE DEF Init
<1>1. /\ MaxPending \in Nat /\ MaxMounted \in Nat /\ MaxRegistered \in Nat
      /\ MaxQuarantined \in Nat
    BY PluginAssumption
<1>2. TypeOK
  <2>1. pending \in Seq(Blobs) /\ Len(pending) = 0 BY EmptyIs
  <2>2. active \in Seq(Blobs) /\ Len(active) = 0 BY EmptyIs
  <2>3. registered \in Seq(Range) /\ Len(registered) = 0 BY EmptyIs
  <2>4. mounted \in Seq(STRING \X Tails) /\ Len(mounted) = 0 BY EmptyIs
  <2>5. parts \subseteq (STRING \X Tails) OBVIOUS
  <2>6. reboot \in BOOLEAN OBVIOUS
  <2>7. quarantined = 0 /\ next = 0 OBVIOUS
  <2> HIDE DEF Init
  <2> QED BY <1>1, <2>1, <2>2, <2>3, <2>4, <2>5, <2>6, <2>7 DEF TypeOK
<1>3. CountCovered /\ RegistryClean /\ NothingDropped /\ OneOwner
    BY DEF CountCovered, RegistryClean, NothingDropped, OneOwner
<1> QED BY <1>2, <1>3 DEF TablesInv, DroppedWhenFull

\* Only a commit and a reset touch the name space.
LEMMA SpaceFrame ==
    ASSUME TablesInv, TypeOK', CountCovered', UNCHANGED <<active, registered>>
    PROVE  TablesInv'
BY DEF TablesInv, RegistryClean, DroppedWhenFull, NothingDropped, OneOwner

LEMMA StageInv ==
    ASSUME TablesInv, NEW b \in Blobs, StageInstall(b)
    PROVE  TablesInv'
<1> USE PluginAssumption DEF TablesInv, TypeOK, StageInstall
<1>1. pending' \in Seq(Blobs) /\ Len(pending') <= MaxPending /\ reboot' \in BOOLEAN
  <2>1. CASE StageStatus(b) = "REBOOT_REQUIRED"
    <3>1. ~(Len(pending) >= MaxPending) BY <2>1, StagedHasRoom
    <3>2. pending' = Append(pending, b) /\ reboot' = TRUE BY <2>1
    <3>3. Len(pending) \in Nat /\ MaxPending \in Nat OBVIOUS
    <3>4. pending \in Seq(Blobs) OBVIOUS
    <3>5. Append(pending, b) \in Seq(Blobs) /\ Len(Append(pending, b)) = Len(pending) + 1
        BY <3>4, AppendedIs
    <3> HIDE DEF TablesInv, TypeOK, StageInstall
    <3> QED BY <3>1, <3>2, <3>3, <3>5
  <2>2. CASE StageStatus(b) # "REBOOT_REQUIRED" BY <2>2
  <2> QED BY <2>1, <2>2
<1>2. TypeOK' BY <1>1
<1>3. CountCovered' BY DEF CountCovered
<1> QED BY <1>2, <1>3, SpaceFrame

LEMMA ResetsInv ==
    ASSUME TablesInv, StageReset \/ PartitionReset \/ BootReset
    PROVE  TablesInv'
<1> USE PluginAssumption DEF TablesInv, TypeOK
<1>1. CASE StageReset
  <2>1. pending' = <<>> /\ reboot' = FALSE /\ next = 0 /\ next' = 0
      BY <1>1 DEF StageReset, Unstage
  <2>2. MaxPending \in Nat /\ Len(pending') = 0 /\ pending' \in Seq(Blobs)
      BY <2>1, EmptyIs
  <2>3. reboot' \in BOOLEAN BY <2>1
  <2>6. next' \in 0 .. Len(pending') /\ Len(pending') <= MaxPending
    <3> HIDE PluginAssumption DEF TablesInv, TypeOK
    <3> QED BY <2>1, <2>2
  <2>4. TypeOK' BY <1>1, <2>2, <2>3, <2>6 DEF StageReset
  <2>5. CountCovered' BY <2>1 DEF CountCovered
  <2> QED BY <1>1, <2>4, <2>5, SpaceFrame DEF StageReset
<1>2. CASE PartitionReset
  <2>1. TypeOK' /\ CountCovered' BY <1>2 DEF PartitionReset, CountCovered
  <2> QED BY <1>2, <2>1, SpaceFrame DEF PartitionReset
<1>3. CASE BootReset
  <2>1. active' = <<>> /\ registered' = <<>> BY <1>3 DEF BootReset, Forgotten
  <2>2. TypeOK' /\ CountCovered'
      BY <1>3, <2>1 DEF BootReset, CountCovered
  <2> QED BY <2>1, <2>2 DEF RegistryClean, DroppedWhenFull, NothingDropped,
      OneOwner
<1> QED BY <1>1, <1>2, <1>3

LEMMA MountInv ==
    ASSUME TablesInv, NEW b \in Blobs, NEW fs, NEW t \in Tails, Mount(b, fs, t)
    PROVE  TablesInv'
<1> USE PluginAssumption DEF TablesInv, TypeOK, Mount
<1>1. <<b.id, t>> \in STRING \X Tails OBVIOUS
<1>2. ~(Len(mounted) >= MaxMounted) BY MountedHasRoom
<1>3. mounted' \in Seq(STRING \X Tails) /\ Len(mounted') <= MaxMounted
    BY <1>1, <1>2
<1>4. TypeOK' BY <1>1, <1>3
<1>5. CountCovered' BY DEF CountCovered
<1> QED BY <1>4, <1>5, SpaceFrame

LEMMA UnmountInv ==
    ASSUME TablesInv, NEW p \in parts, Unmount(p)
    PROVE  TablesInv'
<1> USE PluginAssumption DEF TablesInv, TypeOK, Unmount
<1> DEFINE same == {i \in DOMAIN mounted : mounted[i] = p}
           k == CHOOSE i \in same : \A j \in same : i <= j
<1>1. mounted' \in Seq(STRING \X Tails) /\ Len(mounted') <= MaxMounted
  <2>1. CASE same = {} BY <2>1
  <2>2. CASE same # {}
    <3>1. mounted' = SubSeq(mounted, 1, k - 1)
                     \o SubSeq(mounted, k + 1, Len(mounted))
        BY <2>2
    <3>0. DOMAIN mounted = 1 .. Len(mounted) /\ Len(mounted) \in Nat OBVIOUS
    <3>10. same \subseteq DOMAIN mounted OBVIOUS
    <3>2. same \in SUBSET Nat /\ same \subseteq 1 .. Len(mounted)
      <4> HIDE DEF same, TablesInv, TypeOK, Unmount
      <4> QED BY <3>0, <3>10
    <3> HIDE DEF same
    <3>3. k \in same BY <2>2, <3>2, FirstIs
    <3>4. k \in 1 .. Len(mounted) BY <3>2, <3>3
    <3> HIDE DEF k
    <3>5. /\ SubSeq(mounted, 1, k - 1) \in Seq(STRING \X Tails)
          /\ SubSeq(mounted, k + 1, Len(mounted)) \in Seq(STRING \X Tails)
          /\ Len(SubSeq(mounted, 1, k - 1)) = k - 1
          /\ Len(SubSeq(mounted, k + 1, Len(mounted))) = Len(mounted) - k
        BY <3>4
    <3>6. /\ mounted' \in Seq(STRING \X Tails)
          /\ Len(mounted') = Len(SubSeq(mounted, 1, k - 1))
                             + Len(SubSeq(mounted, k + 1, Len(mounted)))
        BY <3>1, <3>5
    <3>7. Len(mounted) \in Nat /\ MaxMounted \in Nat /\ Len(mounted) <= MaxMounted
        OBVIOUS
    <3> HIDE PluginAssumption DEF TablesInv, TypeOK, Unmount
    <3>8. Len(mounted') = (k - 1) + (Len(mounted) - k) BY <3>5, <3>6
    <3>9. Len(mounted') <= MaxMounted BY <3>4, <3>7, <3>8
    <3> QED BY <3>6, <3>9
  <2> QED BY <2>1, <2>2
<1>2. TypeOK' BY <1>1
<1>3. CountCovered' BY DEF CountCovered
<1> QED BY <1>2, <1>3, SpaceFrame

LEMMA BootBeginInv ==
    ASSUME TablesInv, BootBegin
    PROVE  TablesInv'
<1> USE PluginAssumption DEF TablesInv, TypeOK, BootBegin
<1>1. CASE pending = <<>>
  <2>1. TypeOK' /\ CountCovered' BY <1>1 DEF Unstage, CountCovered
  <2> QED BY <2>1, SpaceFrame
<1>2. CASE pending # <<>>
  <2>1. Len(pending) \in Nat \ {0} BY <1>2
  <2>2. TypeOK' BY <1>2, <2>1
  <2>3. CountCovered' BY <1>2, <2>1 DEF CountCovered
  <2> QED BY <2>2, <2>3, SpaceFrame
<1> QED BY <1>1, <1>2

\* The loop counter and the staging table after an iteration.
LEMMA NextBlobKeeps ==
    ASSUME TablesInv, next # 0, NextBlob,
           quarantined' \in {quarantined, quarantined + 1}
    PROVE  /\ pending' \in Seq(Blobs) /\ Len(pending') <= MaxPending
           /\ reboot' \in BOOLEAN /\ next' \in 0 .. Len(pending')
           /\ quarantined' \in 0 .. MaxQuarantined
           /\ CountCovered'
<1>1. /\ Len(pending) \in Nat /\ next \in 1 .. Len(pending)
      /\ MaxPending \in Nat /\ MaxQuarantined \in Nat /\ quarantined \in Nat
      /\ Len(pending) <= MaxPending /\ quarantined <= MaxQuarantined
      /\ quarantined + Len(pending) - next + 1 <= MaxQuarantined
    BY PluginAssumption DEF TablesInv, TypeOK, CountCovered
<1>2. pending \in Seq(Blobs) /\ reboot \in BOOLEAN BY DEF TablesInv, TypeOK
<1>3. quarantined' \in 0 .. MaxQuarantined BY <1>1
<1>4. CASE next < Len(pending)
  <2>1. next' = next + 1 /\ pending' = pending /\ reboot' = reboot
      BY <1>4 DEF NextBlob
  <2>2. CountCovered' BY <1>1, <1>4, <2>1 DEF CountCovered
  <2>3. next' \in 0 .. Len(pending') BY <1>1, <1>4, <2>1
  <2> QED BY <1>1, <1>2, <1>3, <2>1, <2>2, <2>3
<1>5. CASE ~(next < Len(pending))
  <2>1. next' = 0 /\ pending' = <<>> /\ reboot' = FALSE
      BY <1>5 DEF NextBlob, Unstage
  <2>2. pending' \in Seq(Blobs) /\ Len(pending') = 0 BY <2>1, EmptyIs
  <2>3. Len(pending') <= MaxPending /\ next' \in 0 .. Len(pending')
      BY <1>1, <2>1, <2>2
  <2>4. CountCovered' BY <2>1 DEF CountCovered
  <2>5. reboot' \in BOOLEAN BY <2>1
  <2> QED BY <1>3, <2>2, <2>3, <2>4, <2>5
<1> QED BY <1>4, <1>5

LEMMA BootRejectInv ==
    ASSUME TablesInv, BootReject
    PROVE  TablesInv'
<1>1. /\ next # 0 /\ NextBlob /\ quarantined' = quarantined + 1
      /\ UNCHANGED <<active, registered, mounted, parts>>
    BY DEF BootReject, Quarantine
<1>2. TypeOK' /\ CountCovered'
    BY <1>1, NextBlobKeeps DEF TablesInv, TypeOK
<1> QED BY <1>1, <1>2, SpaceFrame

LEMMA BootMountedIs ==
    ASSUME TablesInv, next # 0, NEW t \in Tails,
           MountStatus(pending[next].id, "OWFS", pending[next].ranges) = "OK",
           mounted' = Append(mounted, <<pending[next].id, t>>)
    PROVE  /\ pending[next] \in Blobs
           /\ mounted' \in Seq(STRING \X Tails) /\ Len(mounted') <= MaxMounted
<1> USE PluginAssumption DEF TablesInv, TypeOK
<1>1. next \in 1 .. Len(pending) OBVIOUS
<1>2. pending[next] \in Blobs BY <1>1
<1>3. <<pending[next].id, t>> \in STRING \X Tails BY <1>2
<1>4. ~(Len(mounted) >= MaxMounted) BY MountedHasRoom
<1> HIDE DEF TypeOK, TablesInv
<1>5. mounted \in Seq(STRING \X Tails) BY DEF TablesInv, TypeOK
<1> QED BY <1>2, <1>3, <1>4, <1>5

LEMMA BootMountOnlyInv ==
    ASSUME TablesInv, NEW t \in Tails, BootMountOnly(t)
    PROVE  TablesInv'
<1>1. /\ next # 0 /\ NextBlob /\ quarantined' = quarantined + 1
      /\ UNCHANGED <<active, registered, parts>>
      /\ MountStatus(pending[next].id, "OWFS", pending[next].ranges) = "OK"
      /\ mounted' = Append(mounted, <<pending[next].id, t>>)
    BY DEF BootMountOnly, Quarantine
<1>2. mounted' \in Seq(STRING \X Tails) /\ Len(mounted') <= MaxMounted
    BY <1>1, BootMountedIs
<1>3. TypeOK' /\ CountCovered'
    BY <1>1, <1>2, NextBlobKeeps DEF TablesInv, TypeOK
<1> QED BY <1>1, <1>3, SpaceFrame

\* The blob of the current iteration, and how many of its ranges fit.
Booted == pending[next]
Taken(rs) ==
    LET room == MaxRegistered - Len(registered)
    IN  IF Len(rs) <= room THEN Len(rs) ELSE room

\* What an activation does to the tables.
LEMMA ActivatedIs ==
    ASSUME TablesInv, NEW t \in Tails, BootActivate(t)
    PROVE  /\ next # 0 /\ NextBlob /\ UNCHANGED <<parts, quarantined>>
           /\ Booted \in Blobs /\ Booted.ranges \in Seq(Range)
           /\ ParseStatus(Booted) = "OK"
           /\ RangesStatus(Booted.ranges) = "OK" /\ RangesFree(Booted.ranges)
           /\ mounted' \in Seq(STRING \X Tails) /\ Len(mounted') <= MaxMounted
           /\ registered' \in Seq(Range)
           /\ Len(registered') = Len(registered) + Taken(Booted.ranges)
           /\ Taken(Booted.ranges) \in 0 .. Len(Booted.ranges)
           /\ Len(registered') <= MaxRegistered
           /\ \A j \in 1 .. Len(registered) : registered'[j] = registered[j]
           /\ \A k \in 1 .. Taken(Booted.ranges) :
                  registered'[Len(registered) + k] = Booted.ranges[k]
           /\ active' \in Seq(Blobs) /\ Len(active') = Len(active) + 1
           /\ \A i \in 1 .. Len(active) : active'[i] = active[i]
           /\ active'[Len(active) + 1] = Booted
           /\ Len(active) < MaxMounted /\ Len(active') <= MaxMounted
<1> DEFINE b == pending[next]
           rs == b.ranges
<1>1. /\ next # 0 /\ NextBlob /\ UNCHANGED <<parts, quarantined>>
      /\ MountStatus(b.id, "OWFS", rs) = "OK"
      /\ ParseStatus(b) = "OK"
      /\ RangesStatus(rs) = "OK" /\ RangesFree(rs)
      /\ Len(active) < MaxMounted
      /\ mounted' = Append(mounted, <<b.id, t>>)
      /\ active' = Append(active, b)
      /\ registered' = Registered(rs)
    BY DEF BootActivate, Passes
<1>2. /\ b \in Blobs
      /\ mounted' \in Seq(STRING \X Tails) /\ Len(mounted') <= MaxMounted
    BY <1>1, BootMountedIs
<1>3. rs \in Seq(Range) BY <1>2, PluginAssumption
<1>4. /\ registered \in Seq(Range) /\ Len(registered) <= MaxRegistered
      /\ active \in Seq(Blobs) /\ Len(active) \in Nat
      /\ MaxMounted \in Nat
    BY <1>3, PluginAssumption DEF TablesInv, TypeOK
<1> HIDE DEF b, rs
<1>5. /\ registered' \in Seq(Range) /\ Len(registered') = Len(registered) + Taken(rs)
      /\ Taken(rs) \in 0 .. Len(rs) /\ Len(registered') <= MaxRegistered
      /\ \A j \in 1 .. Len(registered) : registered'[j] = registered[j]
      /\ \A k \in 1 .. Taken(rs) : registered'[Len(registered) + k] = rs[k]
    BY <1>1, <1>3, <1>4, RegisteredIs DEF Taken
<1>6. /\ active' \in Seq(Blobs) /\ Len(active') = Len(active) + 1
      /\ \A i \in 1 .. Len(active) : active'[i] = active[i]
      /\ active'[Len(active) + 1] = b
      /\ Len(active') <= MaxMounted
    BY <1>1, <1>2, <1>4, AppendedIs
<1>7. b = Booted /\ rs = Booted.ranges BY DEF b, rs, Booted
<1> QED BY <1>1, <1>2, <1>3, <1>5, <1>6, <1>7

\* No active plugin owns a codepoint of the plugin that passes the gates.
LEMMA NobodyOwns ==
    ASSUME TablesInv, NothingDropped, NEW t \in Tails, BootActivate(t),
           NEW i \in DOMAIN active, NEW c \in CodepointsOf(active[i].ranges)
    PROVE  c \notin CodepointsOf(Booted.ranges)
<1> SUFFICES ASSUME c \in CodepointsOf(Booted.ranges) PROVE FALSE
    OBVIOUS
<1> DEFINE rs == Booted.ranges
<1>1. rs \in Seq(Range) /\ RangesFree(rs) BY ActivatedIs
<1>2. registered \in Seq(Range) BY DEF TablesInv, TypeOK
<1>3. PICK k \in DOMAIN active[i].ranges :
          c \in active[i].ranges[k].start .. active[i].ranges[k].end
    BY DEF CodepointsOf
<1>4. PICK j \in DOMAIN registered : registered[j] = active[i].ranges[k]
    BY <1>3 DEF NothingDropped
<1>5. PICK m \in DOMAIN rs : c \in rs[m].start .. rs[m].end
    BY DEF CodepointsOf
<1> HIDE DEF rs
<1>6. registered[j] \in Range /\ rs[m] \in Range BY <1>1, <1>2
<1>7. /\ registered[j].start \in Nat /\ registered[j].end \in Nat
      /\ rs[m].start \in Nat /\ rs[m].end \in Nat
    BY <1>6, PluginAssumption DEF Range, Codepoints
<1>8. Overlap(rs[m], registered[j]) BY <1>3, <1>4, <1>5, <1>7 DEF Overlap
<1> QED BY <1>8, <1>1 DEF RangesFree

\* What fits is found in the registry afterwards.
LEMMA NothingDroppedKept ==
    ASSUME TablesInv, NEW t \in Tails, BootActivate(t), NothingDropped,
           Taken(Booted.ranges) = Len(Booted.ranges)
    PROVE  NothingDropped'
<1> DEFINE rs == Booted.ranges
<1>1. /\ rs \in Seq(Range) /\ Len(rs) \in Nat
      /\ registered \in Seq(Range) /\ Len(registered) \in Nat
      /\ active \in Seq(Blobs) /\ Len(active) \in Nat
    BY ActivatedIs DEF TablesInv, TypeOK
<1>2. /\ registered' \in Seq(Range)
      /\ Len(registered') = Len(registered) + Len(rs)
      /\ \A j \in 1 .. Len(registered) : registered'[j] = registered[j]
      /\ \A k \in 1 .. Len(rs) : registered'[Len(registered) + k] = rs[k]
      /\ active' \in Seq(Blobs) /\ Len(active') = Len(active) + 1
      /\ \A i \in 1 .. Len(active) : active'[i] = active[i]
      /\ active'[Len(active) + 1] = Booted
    BY ActivatedIs
<1> HIDE DEF rs
<1> SUFFICES ASSUME NEW i \in 1 .. Len(active'),
                    NEW k \in DOMAIN active'[i].ranges
             PROVE  \E j \in DOMAIN registered' :
                        registered'[j] = active'[i].ranges[k]
    BY <1>2 DEF NothingDropped
<1>3. CASE i \in 1 .. Len(active)
  <2>1. i \in DOMAIN active /\ active'[i] = active[i] BY <1>3, <1>1, <1>2
  <2>2. k \in DOMAIN active[i].ranges BY <2>1
  <2>3. PICK j \in DOMAIN registered : registered[j] = active[i].ranges[k]
      BY <2>1, <2>2 DEF NothingDropped
  <2>4. j \in 1 .. Len(registered) /\ j \in DOMAIN registered'
      BY <2>3, <1>1, <1>2
  <2>5. registered'[j] = active'[i].ranges[k] BY <2>1, <2>3, <2>4, <1>2
  <2> QED BY <2>4, <2>5
<1>4. CASE i \notin 1 .. Len(active)
  <2>1. i = Len(active) + 1 BY <1>4, <1>1, <1>2
  <2>2. active'[i] = Booted /\ k \in 1 .. Len(rs) BY <2>1, <1>1, <1>2 DEF rs
  <2>3. /\ Len(registered) + k \in 1 .. Len(registered')
        /\ registered'[Len(registered) + k] = rs[k]
      BY <2>2, <1>1, <1>2
  <2>4. Len(registered) + k \in DOMAIN registered' BY <2>3, <1>2
  <2> QED BY <2>2, <2>3, <2>4 DEF rs
<1> QED BY <1>3, <1>4

\* A range that was dropped stays away.
LEMMA DroppedStays ==
    ASSUME TablesInv, NEW t \in Tails, BootActivate(t)
    PROVE  NothingDropped' => NothingDropped
<1> DEFINE taken == Taken(Booted.ranges)
<1>1. /\ registered \in Seq(Range) /\ Len(registered) \in Nat
      /\ Len(registered) <= MaxRegistered /\ MaxRegistered \in Nat
      /\ active \in Seq(Blobs) /\ Len(active) \in Nat
    BY PluginAssumption DEF TablesInv, TypeOK
<1>2. /\ registered' \in Seq(Range) /\ Len(registered') = Len(registered) + taken
      /\ taken \in 0 .. Len(Booted.ranges) /\ Len(registered') <= MaxRegistered
      /\ \A j \in 1 .. Len(registered) : registered'[j] = registered[j]
      /\ active' \in Seq(Blobs) /\ Len(active') = Len(active) + 1
      /\ \A i \in 1 .. Len(active) : active'[i] = active[i]
    BY ActivatedIs
<1>3. Len(Booted.ranges) \in Nat
  <2>1. Booted.ranges \in Seq(Range) BY ActivatedIs
  <2> QED BY <2>1
<1> HIDE DEF taken
<1>4. CASE Len(registered) = MaxRegistered
  <2>1. Len(registered') = Len(registered) BY <1>1, <1>2, <1>3, <1>4
  <2> SUFFICES ASSUME NothingDropped', NEW i \in DOMAIN active,
                      NEW k \in DOMAIN active[i].ranges
               PROVE  \E j \in DOMAIN registered :
                          registered[j] = active[i].ranges[k]
      BY DEF NothingDropped
  <2>2. i \in DOMAIN active' /\ active'[i] = active[i] BY <1>1, <1>2
  <2>3. PICK j \in DOMAIN registered' : registered'[j] = active[i].ranges[k]
      BY <2>2 DEF NothingDropped
  <2>4. j \in 1 .. Len(registered) BY <2>1, <2>3, <1>2
  <2>5. j \in DOMAIN registered BY <2>4, <1>1
  <2> QED BY <2>3, <2>4, <2>5, <1>2
<1>5. CASE NothingDropped BY <1>5
<1> QED BY <1>4, <1>5 DEF TablesInv, DroppedWhenFull

LEMMA BootActivateInv ==
    ASSUME TablesInv, NEW t \in Tails, BootActivate(t)
    PROVE  TablesInv'
<1> DEFINE b == Booted
           rs == b.ranges
           taken == Taken(rs)
<1>1. /\ next # 0 /\ NextBlob /\ UNCHANGED <<parts, quarantined>>
      /\ RangesStatus(rs) = "OK" /\ rs \in Seq(Range)
      /\ mounted' \in Seq(STRING \X Tails) /\ Len(mounted') <= MaxMounted
    BY ActivatedIs
<1>4. /\ registered \in Seq(Range) /\ Len(registered) <= MaxRegistered
      /\ active \in Seq(Blobs) /\ Len(active) \in Nat /\ Len(registered) \in Nat
      /\ MaxRegistered \in Nat /\ MaxMounted \in Nat /\ Len(rs) \in Nat
    BY <1>1, PluginAssumption DEF TablesInv, TypeOK
<1>5. /\ registered' \in Seq(Range) /\ Len(registered') = Len(registered) + taken
      /\ taken \in 0 .. Len(rs) /\ Len(registered') <= MaxRegistered
      /\ \A j \in 1 .. Len(registered) : registered'[j] = registered[j]
      /\ \A k \in 1 .. taken : registered'[Len(registered) + k] = rs[k]
    BY ActivatedIs
<1>6. /\ active' \in Seq(Blobs) /\ Len(active') = Len(active) + 1
      /\ \A i \in 1 .. Len(active) : active'[i] = active[i]
      /\ active'[Len(active) + 1] = b
      /\ Len(active') <= MaxMounted
    BY ActivatedIs
<1> HIDE DEF b, rs, taken
<1>7. TypeOK' /\ CountCovered'
    BY <1>1, <1>5, <1>6, NextBlobKeeps DEF TablesInv, TypeOK
<1>8. RegistryClean'
  <2> SUFFICES ASSUME NEW j \in 1 .. Len(registered')
               PROVE  RangeFault(registered'[j]) = "OK"
      BY <1>5 DEF RegistryClean
  <2>1. CASE j \in 1 .. Len(registered)
      BY <2>1, <1>4, <1>5 DEF TablesInv, RegistryClean
  <2>2. CASE j \notin 1 .. Len(registered)
    <3>1. j - Len(registered) \in 1 .. taken BY <2>2, <1>4, <1>5
    <3>2. registered'[Len(registered) + (j - Len(registered))]
             = rs[j - Len(registered)]
        BY <3>1, <1>5
    <3>3. registered'[j] = rs[j - Len(registered)] BY <3>2, <1>4
    <3>4. j - Len(registered) \in DOMAIN rs BY <3>1, <1>1, <1>4, <1>5
    <3> QED BY <3>3, <3>4, <1>1, CleanRanges
  <2> QED BY <2>1, <2>2
<1>9. DroppedWhenFull'
  <2>1. CASE taken = Len(rs) /\ NothingDropped
      BY <2>1, NothingDroppedKept DEF DroppedWhenFull, taken, rs, b
  <2>2. CASE ~(taken = Len(rs) /\ NothingDropped)
    <3>1. Len(registered') = MaxRegistered
        BY <2>2, <1>4, <1>5 DEF TablesInv, DroppedWhenFull, taken, Taken
    <3> QED BY <3>1 DEF DroppedWhenFull
  <2> QED BY <2>1, <2>2
<1>10. NothingDropped' => NothingDropped BY DroppedStays
<1>11. ASSUME NothingDropped, NEW i \in DOMAIN active,
              NEW c \in CodepointsOf(active[i].ranges)
       PROVE  c \notin CodepointsOf(rs)
    BY <1>11, NobodyOwns DEF rs, b
<1>12. NothingDropped' => OneOwner'
  <2>0. NothingDropped => OneOwner BY DEF TablesInv
  <2>9. /\ active \in Seq(Blobs) /\ DOMAIN active = 1 .. Len(active)
        /\ DOMAIN active' = 1 .. Len(active')
      BY <1>4, <1>6
  <2> SUFFICES ASSUME NothingDropped,
                      NEW i \in 1 .. Len(active'), NEW j \in 1 .. Len(active'),
                      i # j,
                      NEW c \in CodepointsOf(active'[i].ranges),
                      c \in CodepointsOf(active'[j].ranges)
               PROVE  FALSE
      BY <2>9, <1>10 DEF OneOwner
  <2>1. CASE i \in 1 .. Len(active) /\ j \in 1 .. Len(active)
    <3>1. i \in DOMAIN active /\ j \in DOMAIN active BY <2>1, <2>9
    <3>2. active'[i] = active[i] /\ active'[j] = active[j] BY <2>1, <1>6
    <3>3. CodepointsOf(active[i].ranges) \cap CodepointsOf(active[j].ranges) = {}
        BY <2>0, <3>1 DEF OneOwner
    <3> QED BY <3>2, <3>3
  <2>2. CASE i \notin 1 .. Len(active)
    <3>1. i = Len(active) + 1 /\ j \in DOMAIN active BY <2>2, <1>4, <1>6
    <3>2. active'[i] = b /\ active'[j] = active[j] BY <3>1, <1>4, <1>6
    <3> QED BY <3>1, <3>2, <1>11 DEF rs, b
  <2>3. CASE j \notin 1 .. Len(active)
    <3>1. j = Len(active) + 1 /\ i \in DOMAIN active BY <2>3, <1>4, <1>6
    <3>2. active'[j] = b /\ active'[i] = active[i] BY <3>1, <1>4, <1>6
    <3> QED BY <3>1, <3>2, <1>11 DEF rs, b
  <2> QED BY <2>1, <2>2, <2>3
<1> QED BY <1>7, <1>8, <1>9, <1>12 DEF TablesInv

LEMMA TablesStep == TablesInv /\ [Next]_vars => TablesInv'
<1> SUFFICES ASSUME TablesInv, [Next]_vars PROVE TablesInv'
    OBVIOUS
<1>1. CASE UNCHANGED vars
  <2>1. TypeOK' /\ CountCovered'
      BY <1>1 DEF vars, TablesInv, TypeOK, CountCovered
  <2> QED BY <1>1, <2>1, SpaceFrame DEF vars
<1>2. CASE Next
    BY <1>2, StageInv, MountInv, UnmountInv, ResetsInv, BootBeginInv,
       BootRejectInv, BootMountOnlyInv, BootActivateInv DEF Next, Booting
<1> QED BY <1>1, <1>2

LEMMA TablesAlways == Spec => []TablesInv
BY InitTables, TablesStep, PTL DEF Spec

\* The tables are typed, no frozen codepoint is registered, and as long as no
\* range was dropped no codepoint has two owners.
THEOREM TablesCorrect == Spec => []TablesSound
<1>1. TablesInv => FrozenUnowned
  <2> SUFFICES ASSUME TablesInv, NEW c \in CodepointsOf(registered)
               PROVE  ~IsFrozen(c)
      BY DEF FrozenUnowned
  <2>1. PICK i \in DOMAIN registered : c \in registered[i].start .. registered[i].end
      BY DEF CodepointsOf
  <2>2. registered[i] \in Range /\ RangeFault(registered[i]) = "OK"
      BY DEF TablesInv, TypeOK, RegistryClean
  <2> QED BY <2>1, <2>2, CleanRange
<1>2. TablesInv => TablesSound BY <1>1 DEF TablesInv, TablesSound
<1> QED BY <1>2, TablesAlways, PTL

\* Each iteration of the commit activates its blob or counts it as quarantined.
THEOREM BlobsDecided == Spec => EveryBlobDecided
<1>1. TablesInv /\ [Next]_vars =>
          [next # 0 /\ next' # next =>
              \/ Len(active') = Len(active) + 1 /\ quarantined' = quarantined
              \/ active' = active /\ quarantined' = quarantined + 1]_vars
  <2> SUFFICES ASSUME TablesInv, Next, next # 0, next' # next
               PROVE  \/ Len(active') = Len(active) + 1 /\ quarantined' = quarantined
                      \/ active' = active /\ quarantined' = quarantined + 1
      OBVIOUS
  <2>1. Booting
      BY DEF Next, StageInstall, Mount, Unmount, StageReset, PartitionReset,
         BootReset, BootBegin
  <2>2. CASE BootReject BY <2>2 DEF BootReject, Quarantine
  <2>3. ASSUME NEW t \in Tails, BootMountOnly(t)
        PROVE  active' = active /\ quarantined' = quarantined + 1
      BY <2>3 DEF BootMountOnly, Quarantine
  <2>4. ASSUME NEW t \in Tails, BootActivate(t)
        PROVE  Len(active') = Len(active) + 1 /\ quarantined' = quarantined
      BY <2>4 DEF BootActivate, TablesInv, TypeOK
  <2> QED BY <2>1, <2>2, <2>3, <2>4 DEF Booting
<1> QED BY <1>1, TablesAlways, PTL DEF Spec, EveryBlobDecided

-----------------------------------------------------------------------------
(* The additive name space.                                                *)

\* Everything but a commit and a reset leaves the name space alone.
LEMMA SpaceChanges ==
    ASSUME [Next]_vars
    PROVE  \/ UNCHANGED <<active, registered>>
           \/ active' = <<>> /\ registered' = <<>>
           \/ \E t \in Tails : BootActivate(t)
<1>1. CASE UNCHANGED vars BY <1>1 DEF vars
<1>2. ASSUME NEW b \in Blobs, NEW fs, NEW t, StageInstall(b) \/ Mount(b, fs, t)
      PROVE  UNCHANGED <<active, registered>>
    BY <1>2 DEF StageInstall, Mount
<1>3. ASSUME NEW p, Unmount(p) PROVE UNCHANGED <<active, registered>>
    BY <1>3 DEF Unmount
<1>4. StageReset \/ PartitionReset \/ BootBegin => UNCHANGED <<active, registered>>
    BY DEF StageReset, PartitionReset, BootBegin
<1>5. BootReset => active' = <<>> /\ registered' = <<>> BY DEF BootReset, Forgotten
<1>6. ASSUME NEW t, BootReject \/ BootMountOnly(t)
      PROVE  UNCHANGED <<active, registered>>
    BY <1>6 DEF BootReject, BootMountOnly
<1> QED BY <1>1, <1>2, <1>3, <1>4, <1>5, <1>6 DEF Next, Booting

\* The plugins in whose ranges a codepoint lies.
Owners(c) == {i \in DOMAIN active : c \in CodepointsOf(active[i].ranges)}
First(I) == CHOOSE i \in I : \A j \in I : i <= j

LEMMA LookupIs ==
    /\ Lookup = [c \in Codepoints |->
                    IF Owners(c) = {} THEN <<>> ELSE <<active[First(Owners(c))].id>>]
    /\ Lookup' = [c \in Codepoints |->
                    IF Owners(c)' = {} THEN <<>>
                    ELSE <<active'[First(Owners(c)')].id>>]
BY DEF Lookup, Owners, First

LEMMA ClearedSpace ==
    ASSUME active = <<>>
    PROVE  Lookup = [c \in Codepoints |-> <<>>]
<1>1. \A c : Owners(c) = {} BY DEF Owners
<1> QED BY <1>1, LookupIs

LEMMA NoCodepoints == CodepointsOf(<<>>) = {}
BY DEF CodepointsOf


\* What becomes addressable of the plugin that is activated: the codepoints of
\* its first ranges, as many as the registry had room for.
Got == UNION {Booted.ranges[k].start .. Booted.ranges[k].end :
                 k \in 1 .. Taken(Booted.ranges)}

LEMMA ActivateAddresses ==
    ASSUME TablesInv, NEW t \in Tails, BootActivate(t)
    PROVE  CodepointsOf(registered') = CodepointsOf(registered) \cup Got
<1> DEFINE rs == Booted.ranges
           n == Len(registered)
           taken == Taken(rs)
<1>1. /\ rs \in Seq(Range) /\ Len(rs) \in Nat /\ taken \in 0 .. Len(rs)
      /\ registered \in Seq(Range) /\ n \in Nat
    BY ActivatedIs DEF TablesInv, TypeOK
<1>2. /\ registered' \in Seq(Range) /\ Len(registered') = n + taken
      /\ \A j \in 1 .. n : registered'[j] = registered[j]
      /\ \A k \in 1 .. taken : registered'[n + k] = rs[k]
    BY ActivatedIs
<1>3. Got = UNION {rs[k].start .. rs[k].end : k \in 1 .. taken} BY DEF Got
<1> HIDE DEF rs, n, taken
<1>4. DOMAIN registered' = 1 .. n + taken /\ DOMAIN registered = 1 .. n
    BY <1>1, <1>2 DEF n
<1>5. ASSUME NEW c \in CodepointsOf(registered')
      PROVE  c \in CodepointsOf(registered) \cup Got
  <2>1. PICK i \in 1 .. n + taken : c \in registered'[i].start .. registered'[i].end
      BY <1>4 DEF CodepointsOf
  <2>2. CASE i \in 1 .. n
    <3>1. registered'[i] = registered[i] BY <2>2, <1>2
    <3> QED BY <2>1, <2>2, <3>1, <1>4 DEF CodepointsOf
  <2>3. CASE i \notin 1 .. n
    <3>1. i - n \in 1 .. taken /\ n + (i - n) = i BY <2>3, <1>1
    <3>2. registered'[i] = rs[i - n] BY <3>1, <1>2
    <3> QED BY <2>1, <3>1, <3>2, <1>3
  <2> QED BY <2>2, <2>3
<1>6. ASSUME NEW c \in CodepointsOf(registered) PROVE c \in CodepointsOf(registered')
  <2>1. PICK i \in 1 .. n : c \in registered[i].start .. registered[i].end
      BY <1>4 DEF CodepointsOf
  <2>2. i \in DOMAIN registered' /\ registered'[i] = registered[i]
      BY <1>1, <1>2, <1>4
  <2> QED BY <2>1, <2>2 DEF CodepointsOf
<1>7. ASSUME NEW c \in Got PROVE c \in CodepointsOf(registered')
  <2>1. PICK k \in 1 .. taken : c \in rs[k].start .. rs[k].end
      BY <1>3
  <2>2. n + k \in DOMAIN registered' /\ registered'[n + k] = rs[k]
      BY <1>1, <1>2, <1>4
  <2> QED BY <2>1, <2>2 DEF CodepointsOf
<1> QED BY <1>5, <1>6, <1>7

\* No codepoint of the plugin was addressable before.
LEMMA NothingAddressable ==
    ASSUME TablesInv, NEW t \in Tails, BootActivate(t)
    PROVE  CodepointsOf(Booted.ranges) \cap CodepointsOf(registered) = {}
<1> SUFFICES ASSUME NEW c \in CodepointsOf(Booted.ranges),
                    c \in CodepointsOf(registered)
             PROVE  FALSE
    OBVIOUS
<1> DEFINE rs == Booted.ranges
<1>1. rs \in Seq(Range) /\ RangesFree(rs) BY ActivatedIs
<1>2. registered \in Seq(Range) BY DEF TablesInv, TypeOK
<1>3. PICK m \in DOMAIN rs : c \in rs[m].start .. rs[m].end BY DEF CodepointsOf
<1>4. PICK j \in DOMAIN registered : c \in registered[j].start .. registered[j].end
    BY DEF CodepointsOf
<1> HIDE DEF rs
<1>5. registered[j] \in Range /\ rs[m] \in Range BY <1>1, <1>2
<1>6. /\ registered[j].start \in Nat /\ registered[j].end \in Nat
      /\ rs[m].start \in Nat /\ rs[m].end \in Nat
    BY <1>5, PluginAssumption DEF Range, Codepoints
<1>7. Overlap(rs[m], registered[j]) BY <1>3, <1>4, <1>6 DEF Overlap
<1> QED BY <1>7, <1>1 DEF RangesFree

\* A range the registry has no room for is neither among those before it nor
\* among those already registered: it is lost.
LEMMA DroppedIsLost ==
    ASSUME TablesInv, NEW t \in Tails, BootActivate(t),
           Taken(Booted.ranges) # Len(Booted.ranges)
    PROVE  Got # CodepointsOf(Booted.ranges) /\ ~NothingDropped'
<1> DEFINE rs == Booted.ranges
           n == Len(registered)
           taken == Taken(rs)
           lost == taken + 1
<1>1. /\ rs \in Seq(Range) /\ Len(rs) \in Nat /\ taken \in 0 .. Len(rs)
      /\ registered \in Seq(Range) /\ n \in Nat
      /\ RangesFree(rs) /\ RangesStatus(rs) = "OK"
    BY ActivatedIs DEF TablesInv, TypeOK
<1>2. /\ registered' \in Seq(Range) /\ Len(registered') = n + taken
      /\ \A j \in 1 .. n : registered'[j] = registered[j]
      /\ \A k \in 1 .. taken : registered'[n + k] = rs[k]
    BY ActivatedIs
<1>3. /\ active' \in Seq(Blobs) /\ Len(active') = Len(active) + 1
      /\ Len(active) \in Nat /\ active'[Len(active) + 1] = Booted
    BY ActivatedIs DEF TablesInv, TypeOK
<1>4. taken # Len(rs) OBVIOUS
<1>5. Got = UNION {rs[k].start .. rs[k].end : k \in 1 .. taken} BY DEF Got
<1>6. CodepointsOf(rs) = UNION {rs[k].start .. rs[k].end : k \in DOMAIN rs}
    BY DEF CodepointsOf
<1>7. rs = Booted.ranges OBVIOUS
<1> HIDE DEF rs, n, taken
<1>8. lost \in 1 .. Len(rs) /\ lost \in DOMAIN rs BY <1>1, <1>4
<1>9. rs[lost] \in Range /\ rs[lost].start <= rs[lost].end
      /\ rs[lost].start \in Nat /\ rs[lost].end \in Nat
  <2>1. rs[lost] \in Range /\ RangeFault(rs[lost]) = "OK"
      BY <1>1, <1>8, CleanRanges
  <2> QED BY <2>1, CleanRange, PluginAssumption DEF Range, Codepoints
<1>10. ASSUME NEW k \in 1 .. taken PROVE ~Overlap(rs[lost], rs[k])
  <2>1. k \in 1 .. lost - 1 BY <1>1
  <2> QED BY <2>1, <1>1, <1>8 DEF RangesFree
<1>11. Got # CodepointsOf(rs)
  <2>1. rs[lost].start \in CodepointsOf(rs) BY <1>6, <1>8, <1>9
  <2>2. ASSUME NEW k \in 1 .. taken, rs[lost].start \in rs[k].start .. rs[k].end
        PROVE  FALSE
    <3>1. rs[k] \in Range BY <1>1
    <3>2. rs[k].start \in Nat /\ rs[k].end \in Nat
        BY <3>1, PluginAssumption DEF Range, Codepoints
    <3>3. Overlap(rs[lost], rs[k]) BY <2>2, <3>2, <1>9 DEF Overlap
    <3> QED BY <3>3, <1>10
  <2>3. rs[lost].start \notin Got BY <2>2, <1>5
  <2> QED BY <2>1, <2>3
<1>12. Overlap(rs[lost], rs[lost]) BY <1>9 DEF Overlap
<1>13. ASSUME NothingDropped' PROVE FALSE
  <2>1. Len(active) + 1 \in DOMAIN active' BY <1>3
  <2>2. PICK j \in DOMAIN registered' : registered'[j] = rs[lost]
      BY <1>13, <2>1, <1>3, <1>7, <1>8 DEF NothingDropped
  <2>3. j \in 1 .. n + taken BY <1>2
  <2>4. CASE j \in 1 .. n
    <3>1. j \in DOMAIN registered /\ registered[j] = rs[lost]
        BY <2>2, <2>4, <1>1, <1>2 DEF n
    <3> QED BY <3>1, <1>1, <1>8, <1>12 DEF RangesFree
  <2>5. CASE j \notin 1 .. n
    <3>1. j - n \in 1 .. taken /\ n + (j - n) = j BY <2>3, <2>5, <1>1
    <3>2. rs[j - n] = rs[lost] BY <3>1, <2>2, <1>2
    <3> QED BY <3>1, <3>2, <1>10, <1>12
  <2> QED BY <2>4, <2>5
<1> QED BY <1>11, <1>13, <1>7

\* The plugin gets those of its codepoints that nobody owned; no other codepoint
\* changes hands.
LEMMA ActivateOwners ==
    ASSUME TablesInv, NEW t \in Tails, BootActivate(t), NEW c \in Codepoints
    PROVE  Lookup'[c] =
               IF c \in CodepointsOf(Booted.ranges) /\ Lookup[c] = <<>>
               THEN <<Booted.id>> ELSE Lookup[c]
<1> DEFINE n == Len(active)
<1>1. /\ active' \in Seq(Blobs) /\ Len(active') = n + 1
      /\ \A i \in 1 .. n : active'[i] = active[i]
      /\ active'[n + 1] = Booted
    BY ActivatedIs
<1>2. active \in Seq(Blobs) /\ n \in Nat BY DEF TablesInv, TypeOK
<1>3. DOMAIN active = 1 .. n /\ DOMAIN active' = 1 .. n + 1 BY <1>1, <1>2
<1> HIDE DEF n
<1>4. Owners(c)' = {i \in DOMAIN active' : c \in CodepointsOf(active'[i].ranges)}
    BY DEF Owners
<1>5. /\ Lookup[c] = IF Owners(c) = {} THEN <<>> ELSE <<active[First(Owners(c))].id>>
      /\ Lookup'[c] = IF Owners(c)' = {} THEN <<>>
                       ELSE <<active'[First(Owners(c)')].id>>
    BY LookupIs
<1>6. Owners(c) \subseteq 1 .. n /\ Owners(c) \in SUBSET Nat
    BY <1>2, <1>3 DEF Owners
<1>7. ASSUME NEW i \in 1 .. n PROVE i \in Owners(c)' <=> i \in Owners(c)
  <2>1. i \in DOMAIN active /\ i \in DOMAIN active' BY <1>2, <1>3
  <2>2. active'[i] = active[i] BY <1>1
  <2> QED BY <2>1, <2>2, <1>4 DEF Owners
<1>8. n + 1 \in Owners(c)' <=> c \in CodepointsOf(Booted.ranges)
    BY <1>1, <1>2, <1>3, <1>4
<1>9. Owners(c)' \subseteq 1 .. n + 1 /\ Owners(c)' \in SUBSET Nat
    BY <1>2, <1>3, <1>4
<1>10. CASE Owners(c) = {}
  <2>1. Lookup[c] = <<>> BY <1>5, <1>10
  <2>2. CASE c \in CodepointsOf(Booted.ranges)
    <3>1. Owners(c)' = {n + 1} BY <1>2, <1>7, <1>8, <1>9, <1>10, <2>2
    <3>2. First({n + 1}) = n + 1 BY <1>2 DEF First
    <3> QED BY <2>1, <2>2, <3>1, <3>2, <1>1, <1>5
  <2>3. CASE c \notin CodepointsOf(Booted.ranges)
    <3>1. Owners(c)' = {} BY <1>2, <1>7, <1>8, <1>9, <1>10, <2>3
    <3> QED BY <2>1, <2>3, <3>1, <1>5
  <2> QED BY <2>2, <2>3
<1>11. CASE Owners(c) # {}
  <2> DEFINE k == First(Owners(c))
  <2>1. k \in Owners(c) /\ (\A j \in Owners(c) : k <= j)
      BY <1>6, <1>11, FirstIs DEF First
  <2>2. k \in 1 .. n /\ k \in Owners(c)' BY <2>1, <1>6, <1>7
  <2>3. \A j \in Owners(c)' : k <= j
    <3> SUFFICES ASSUME NEW j \in Owners(c)' PROVE k <= j OBVIOUS
    <3>1. CASE j \in 1 .. n BY <3>1, <2>1, <1>7
    <3>2. CASE j \notin 1 .. n BY <3>2, <2>2, <1>2, <1>9
    <3> QED BY <3>1, <3>2
  <2>4. First(Owners(c)') = k
    <3>1. /\ First(Owners(c)') \in Owners(c)'
          /\ \A j \in Owners(c)' : First(Owners(c)') <= j
        BY <1>9, <2>2, FirstIs DEF First
    <3>2. First(Owners(c)') <= k /\ k <= First(Owners(c)') BY <3>1, <2>2, <2>3
    <3>3. First(Owners(c)') \in Nat /\ k \in Nat BY <3>1, <1>9, <2>2
    <3> QED BY <3>2, <3>3
  <2>5. Lookup'[c] = <<active[k].id>> /\ Lookup[c] = <<active[k].id>>
    <3>1. active'[k] = active[k] BY <2>2, <1>1
    <3> HIDE DEF k
    <3>2. Owners(c)' # {} BY <2>2
    <3>3. Lookup'[c] = <<active'[k].id>> BY <1>5, <2>4, <3>2
    <3>4. Lookup[c] = <<active[k].id>> BY <1>5, <1>11 DEF k
    <3> QED BY <3>1, <3>3, <3>4
  <2> QED BY <2>5
<1> QED BY <1>10, <1>11

LEMMA ActivateClaims ==
    ASSUME TablesInv, NEW t \in Tails, BootActivate(t)
    PROVE  Space!SomeClaim
<1> DEFINE k == [id |-> <<Booted.id>>, codepoints |-> CodepointsOf(Booted.ranges)]
<1>1. Booted \in Blobs /\ Booted.ranges \in Seq(Range)
      /\ Taken(Booted.ranges) \in 0 .. Len(Booted.ranges)
    BY ActivatedIs
<1>2. k \in Claims BY <1>1 DEF Claims
<1>3. Got \subseteq k.codepoints
  <2>1. \A i \in 1 .. Taken(Booted.ranges) : i \in DOMAIN Booted.ranges BY <1>1
  <2> QED BY <2>1 DEF Got, CodepointsOf
<1>4. CodepointsOf(registered)' = CodepointsOf(registered) \cup Got
    BY ActivateAddresses
<1>5. k.codepoints \cap CodepointsOf(registered) = {} BY NothingAddressable
<1>6. Lookup' = [c \in Codepoints |->
                    IF c \in k.codepoints /\ Lookup[c] = <<>> THEN k.id
                    ELSE Lookup[c]]
  <2>1. Lookup' = [c \in Codepoints |-> Lookup'[c]] BY LookupIs
  <2>2. \A c \in Codepoints :
            Lookup'[c] = IF c \in k.codepoints /\ Lookup[c] = <<>> THEN k.id
                         ELSE Lookup[c]
      BY ActivateOwners
  <2> QED BY <2>1, <2>2
<1>7. NothingDropped' = (NothingDropped /\ Got = k.codepoints)
  <2>1. CASE Taken(Booted.ranges) = Len(Booted.ranges)
    <3>1. Got = k.codepoints
      <4>1. DOMAIN Booted.ranges = 1 .. Len(Booted.ranges) BY <1>1
      <4> QED BY <4>1, <2>1 DEF Got, CodepointsOf
    <3>2. NothingDropped => NothingDropped' BY <2>1, NothingDroppedKept
    <3>3. NothingDropped' => NothingDropped BY DroppedStays
    <3> HIDE DEF k
    <3>4. NothingDropped' <=> NothingDropped BY <3>2, <3>3
    <3>5. NothingDropped \in BOOLEAN /\ NothingDropped' \in BOOLEAN
        BY DEF NothingDropped
    <3> QED BY <3>1, <3>4, <3>5
  <2>2. CASE Taken(Booted.ranges) # Len(Booted.ranges)
    <3>1. Got # k.codepoints /\ ~NothingDropped' BY <2>2, DroppedIsLost
    <3>2. NothingDropped' \in BOOLEAN BY DEF NothingDropped
    <3> HIDE DEF k
    <3> QED BY <3>1, <3>2
  <2> QED BY <2>1, <2>2
<1> HIDE DEF k
<1>8. Space!Claim(k, Got) BY <1>4, <1>5, <1>6, <1>7 DEF Space!Claim
<1> QED BY <1>2, <1>3, <1>8 DEF Space!SomeClaim

\* Seen from outside, plugins come one at a time, over nothing that is
\* addressable, and go all together; no lookup changes its answer in between, and
\* the space is whole until a registration finds the registry full.
THEOREM PluginsRefine == Spec => RefinesPluginSpace
<1>1. Init => Space!Nobody
    BY ClearedSpace, NoCodepoints DEF Init, Space!Nobody, NothingDropped
<1>2. TablesInv /\ [Next]_vars =>
          [Space!ClearAll \/ Space!SomeClaim]_(Space!spaceVars)
  <2> SUFFICES ASSUME TablesInv, [Next]_vars
               PROVE  [Space!ClearAll \/ Space!SomeClaim]_(Space!spaceVars)
      OBVIOUS
  <2>1. CASE UNCHANGED <<active, registered>>
    <3>1. Lookup' = Lookup BY <2>1 DEF Lookup
    <3>2. CodepointsOf(registered)' = CodepointsOf(registered)
        BY <2>1 DEF CodepointsOf
    <3>3. NothingDropped' = NothingDropped BY <2>1 DEF NothingDropped
    <3> QED BY <3>1, <3>2, <3>3 DEF Space!spaceVars
  <2>2. CASE active' = <<>> /\ registered' = <<>>
    <3>1. CodepointsOf(registered)' = {} BY <2>2, NoCodepoints
    <3>2. Lookup' = [c \in Codepoints |-> <<>>]
      <4>1. \A c : Owners(c)' = {} BY <2>2 DEF Owners
      <4> QED BY <4>1, LookupIs
    <3>3. NothingDropped' = TRUE BY <2>2 DEF NothingDropped
    <3> QED BY <3>1, <3>2, <3>3 DEF Space!ClearAll
  <2>3. ASSUME NEW t \in Tails, BootActivate(t) PROVE Space!SomeClaim
      BY <2>3, ActivateClaims
  <2> QED BY <2>1, <2>2, <2>3, SpaceChanges
<1> QED BY <1>1, <1>2, TablesAlways, PTL DEF Spec, RefinesPluginSpace, Space!SpaceSpec

=============================================================================
