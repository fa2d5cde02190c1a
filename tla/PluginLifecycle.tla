-------------------------- MODULE PluginLifecycle --------------------------
(***************************************************************************)
(* Installing plugins (superunicode_extended/plugin/src): blobs are staged *)
(* at run time (plugin_stage.c), and the next boot puts every staged blob  *)
(* through its gates, mounts its partition (plugin_partition.c) and enters *)
(* its codepoint ranges into the active name space (plugin_boot.c).        *)
(*                                                                         *)
(* sucs_plugin_commit_on_boot is a loop over the staged blobs.  Here each  *)
(* iteration is a step; next is the loop index, and nothing else runs      *)
(* while it is not 0.  The last iteration also empties the staging table.  *)
(***************************************************************************)
EXTENDS Integers, Sequences, FiniteSets

CONSTANTS
    Blobs,          \* [id, form, ranges, intact]
    ScpMax,         \* SUCS_PLUGIN_SCP_MAX
    TrapMin,        \* SUCS_PLUGIN_TRAP_MIN
    BaseLimit,      \* SUCS_PLUGIN_BASE_LIMIT, the Sentinel
    MaxCodepoint,   \* bound on the 64-bit codepoints
    MaxRanges,      \* SUCS_PLUGIN_MAX_RANGES
    MaxPending,     \* SUCS_PLUGIN_MAX_PENDING
    MaxMounted,     \* SUCS_PLUGIN_MAX_MOUNTED
    MaxRegistered,  \* SUCS_PLUGIN_MAX_REGISTERED_RANGES
    MaxQuarantined, \* bound on the quarantine counter
    MaxParts        \* bound on the descriptors of direct mounts

Codepoints == 0 .. MaxCodepoint
Range == [start : Codepoints, end : Codepoints]

\* What sucs_plugin_stage_install finds wrong with the header, if anything;
\* "truncated" is a blob that ends before its last range record.
Forms == {"well", "truncated", "INVALID_BLOB", "BUFFER_TOO_SMALL",
          "UNSUPPORTED_VERSION", "INVALID_ID"}

ASSUME PluginAssumption ==
    /\ Blobs \subseteq [id : STRING, form : Forms, ranges : Seq(Range),
                        intact : BOOLEAN]
    /\ ScpMax \in Nat /\ TrapMin \in Nat /\ BaseLimit \in Nat
    /\ ScpMax < TrapMin /\ TrapMin < BaseLimit
    /\ MaxCodepoint \in Nat
    /\ MaxRanges \in Nat /\ MaxPending \in Nat /\ MaxMounted \in Nat
    /\ MaxRegistered \in Nat /\ MaxQuarantined \in Nat /\ MaxParts \in Nat

\* The bytes that follow the terminator of an id: the packer writes zeros,
\* mount leaves those of its caller's descriptor as they were.
Tails == {"zero", "other"}

VARIABLES
    pending,      \* g_pending: staged blobs
    reboot,       \* g_reboot_required
    active,       \* g_active
    registered,   \* g_registered
    mounted,      \* g_mounted: ids with the bytes after their terminator
    parts,        \* descriptors that callers of mount still have
    quarantined,  \* g_quarantined_count
    next          \* loop index of the boot commit, 0 outside of it

vars == <<pending, reboot, active, registered, mounted, parts, quarantined,
          next>>

-----------------------------------------------------------------------------
(* Ranges (plugin_checksum.c).                                             *)

Overlap(a, b) == a.start <= b.end /\ b.start <= a.end

\* extsucs_is_valid: only the trap slots below the Sentinel are invalid.
IsValid(c) == c < TrapMin \/ c >= BaseLimit

RangeFault(r) ==
    IF r.start > r.end \/ ~IsValid(r.start) \/ ~IsValid(r.end)
    THEN "INVALID_RANGE"
    ELSE IF r.start <= ScpMax \/ (r.start <= BaseLimit /\ r.end >= TrapMin)
    THEN "RANGE_PROTECTED"
    ELSE "OK"

\* sucs_plugin_validate_ranges: the status of the first faulty range.
RangesStatus(rs) ==
    LET faulty == {i \in DOMAIN rs : RangeFault(rs[i]) # "OK"} IN
    IF rs = <<>> THEN "INVALID_RANGE"
    ELSE IF faulty = {} THEN "OK"
    ELSE RangeFault(rs[CHOOSE i \in faulty : \A j \in faulty : i <= j])

\* sucs_plugin_parse_ranges, for a blob whose header passed.
ParseStatus(b) ==
    IF b.ranges = <<>> \/ Len(b.ranges) > MaxRanges THEN "INVALID_RANGE"
    ELSE IF b.form = "truncated" THEN "INVALID_BLOB"
    ELSE "OK"

-----------------------------------------------------------------------------
(* Staging.                                                                *)

Init ==
    /\ pending = <<>> /\ reboot = FALSE
    /\ active = <<>> /\ registered = <<>>
    /\ mounted = <<>> /\ parts = {}
    /\ quarantined = 0 /\ next = 0

StageStatus(b) ==
    IF b.form \notin {"well", "truncated"} THEN b.form
    ELSE IF ParseStatus(b) # "OK" THEN ParseStatus(b)
    ELSE IF RangesStatus(b.ranges) # "OK" THEN RangesStatus(b.ranges)
    ELSE IF \E i \in DOMAIN pending : pending[i].id = b.id THEN "DUPLICATE_ID"
    ELSE IF Len(pending) >= MaxPending THEN "STAGING_FULL"
    ELSE "REBOOT_REQUIRED"

\* sucs_plugin_stage_install
StageInstall(b) ==
    /\ next = 0
    /\ IF StageStatus(b) = "REBOOT_REQUIRED"
       THEN pending' = Append(pending, b) /\ reboot' = TRUE
       ELSE UNCHANGED <<pending, reboot>>
    /\ UNCHANGED <<active, registered, mounted, parts, quarantined, next>>

\* Slip: the reset forgets the blobs.
Unstage_KeepBlobs == UNCHANGED pending /\ reboot' = FALSE
Unstage == pending' = <<>> /\ reboot' = FALSE

StageReset ==
    /\ next = 0
    /\ Unstage
    /\ UNCHANGED <<active, registered, mounted, parts, quarantined, next>>

-----------------------------------------------------------------------------
(* Partitions.                                                             *)

\* sucs_plugin_partition_mount, up to the point where it writes: ids are
\* compared over all their bytes, and a header's id is padded with zeros.
MountStatus(id, fs, rs) ==
    IF fs # "OWFS" THEN "NOT_OWFS"
    ELSE IF RangesStatus(rs) # "OK" THEN "INVALID_RANGE"
    ELSE IF \E i \in DOMAIN mounted : mounted[i] = <<id, "zero">>
    THEN "DUPLICATE_ID"
    ELSE IF Len(mounted) >= MaxMounted THEN "MOUNT_FAILED"
    ELSE "OK"

\* A call from the kernel with a descriptor of its own.
Mount(b, fs, tail) ==
    /\ next = 0
    /\ Cardinality(parts) < MaxParts
    /\ MountStatus(b.id, fs, b.ranges) = "OK"
    /\ mounted' = Append(mounted, <<b.id, tail>>)
    /\ parts' = parts \cup {<<b.id, tail>>}
    /\ UNCHANGED <<pending, reboot, active, registered, quarantined, next>>

\* sucs_plugin_partition_unmount: the first partition with the id goes.
Unmount(p) ==
    /\ next = 0
    /\ p \in parts
    /\ LET same == {i \in DOMAIN mounted : mounted[i] = p} IN
       IF same = {} THEN UNCHANGED mounted
       ELSE LET k == CHOOSE i \in same : \A j \in same : i <= j IN
            mounted' = SubSeq(mounted, 1, k - 1)
                       \o SubSeq(mounted, k + 1, Len(mounted))
    /\ parts' = parts \ {p}
    /\ UNCHANGED <<pending, reboot, active, registered, quarantined, next>>

PartitionReset ==
    /\ next = 0
    /\ mounted' = <<>>
    /\ UNCHANGED <<pending, reboot, active, registered, parts, quarantined,
                   next>>

-----------------------------------------------------------------------------
(* The boot commit.                                                        *)

\* Slip: only the first range of a plugin is compared.
RangesFree_FirstOnly(rs) ==
    \A j \in DOMAIN registered : ~Overlap(rs[1], registered[j])

RangesFree(rs) ==
    \A i \in DOMAIN rs :
        /\ \A j \in DOMAIN registered : ~Overlap(rs[i], registered[j])
        /\ \A k \in 1 .. i - 1 : ~Overlap(rs[i], rs[k])

\* Gates 1 to 3: checksums, range policy, collisions.
Passes(b) ==
    /\ b.intact
    /\ ParseStatus(b) = "OK"
    /\ RangesStatus(b.ranges) = "OK"
    /\ RangesFree(b.ranges)

\* register_plugin_ranges: what does not fit is dropped without a word.
\* Slip: only the first range of a plugin is registered.
Registered_FirstOnly(rs) == Append(registered, rs[1])
Registered(rs) ==
    LET room == MaxRegistered - Len(registered) IN
    registered \o SubSeq(rs, 1, IF Len(rs) <= room THEN Len(rs) ELSE room)

\* End of the iteration for pending[next]; the last one empties the staging.
NextBlob ==
    IF next < Len(pending)
    THEN next' = next + 1 /\ UNCHANGED <<pending, reboot>>
    ELSE next' = 0 /\ Unstage

BootBegin ==
    /\ next = 0
    /\ quarantined + Len(pending) <= MaxQuarantined
    /\ IF pending = <<>> THEN Unstage /\ UNCHANGED next
       ELSE next' = 1 /\ UNCHANGED <<pending, reboot>>
    /\ UNCHANGED <<active, registered, mounted, parts, quarantined>>

\* Slip: a quarantined plugin is not counted.
Quarantine_Uncounted == UNCHANGED quarantined
Quarantine == quarantined' = quarantined + 1

\* A gate fails, the mount included.
BootReject ==
    /\ next # 0
    /\ LET b == pending[next] IN
       /\ ~(Passes(b) /\ MountStatus(b.id, "OWFS", b.ranges) = "OK")
       /\ Quarantine
    /\ NextBlob
    /\ UNCHANGED <<active, registered, mounted, parts>>

\* The partition is mounted, and then the plugin does not fit.
BootMountOnly(tail) ==
    /\ next # 0
    /\ LET b == pending[next] IN
       /\ Passes(b) /\ MountStatus(b.id, "OWFS", b.ranges) = "OK"
       /\ Len(active) >= MaxMounted
       /\ mounted' = Append(mounted, <<b.id, tail>>)
       /\ Quarantine
    /\ NextBlob
    /\ UNCHANGED <<active, registered, parts>>

BootActivate(tail) ==
    /\ next # 0
    /\ LET b == pending[next] IN
       /\ Passes(b) /\ MountStatus(b.id, "OWFS", b.ranges) = "OK"
       /\ Len(active) < MaxMounted
       /\ mounted' = Append(mounted, <<b.id, tail>>)
       /\ active' = Append(active, b)
       /\ registered' = Registered(b.ranges)
    /\ NextBlob
    /\ UNCHANGED <<parts, quarantined>>

\* sucs_plugin_boot_reset
Forgotten == active' = <<>> /\ registered' = <<>>
BootReset ==
    /\ next = 0
    /\ Forgotten
    /\ mounted' = <<>>
    /\ quarantined' = 0
    /\ UNCHANGED <<pending, reboot, parts, next>>

Booting == BootReject \/ \E t \in Tails : BootMountOnly(t) \/ BootActivate(t)

Next ==
    \/ \E b \in Blobs :
          StageInstall(b) \/ \E fs \in {"OWFS", "USFS"}, t \in Tails : Mount(b, fs, t)
    \/ \E p \in parts : Unmount(p)
    \/ StageReset \/ PartitionReset \/ BootReset
    \/ BootBegin \/ Booting

Spec == Init /\ [][Next]_vars
FairSpec == Spec /\ WF_vars(Booting)

-----------------------------------------------------------------------------
(* Properties.                                                             *)

CodepointsOf(rs) == UNION {rs[i].start .. rs[i].end : i \in DOMAIN rs}
IsFrozen(c) == c <= ScpMax \/ c \in TrapMin .. BaseLimit

\* Types of the tables, their capacities, and the reboot flag.
TypeOK ==
    /\ pending \in Seq(Blobs) /\ Len(pending) <= MaxPending
    /\ reboot \in BOOLEAN
    /\ active \in Seq(Blobs) /\ Len(active) <= MaxMounted
    /\ registered \in Seq(Range) /\ Len(registered) <= MaxRegistered
    /\ mounted \in Seq(STRING \X Tails) /\ Len(mounted) <= MaxMounted
    /\ parts \subseteq (STRING \X Tails)
    /\ quarantined \in 0 .. MaxQuarantined
    /\ next \in 0 .. Len(pending)

\* The registry of ranges had room for every range of the active plugins.
NothingDropped ==
    \A i \in DOMAIN active : \A k \in DOMAIN active[i].ranges :
        \E j \in DOMAIN registered : registered[j] = active[i].ranges[k]

\* A codepoint belongs to at most one active plugin.
OneOwner ==
    \A i, j \in DOMAIN active :
        i # j => CodepointsOf(active[i].ranges)
                     \cap CodepointsOf(active[j].ranges) = {}

\* No plugin ever makes a frozen codepoint addressable.
FrozenUnowned == \A c \in CodepointsOf(registered) : ~IsFrozen(c)

\* A range of an active plugin is missing only from a full registry.
DroppedWhenFull == NothingDropped \/ Len(registered) = MaxRegistered

\* The tables hold a name space outside the frozen codepoints that is
\* unambiguous as long as the registry has room for every range (SUTR-5);
\* register_plugin_ranges drops what does not fit and tells nobody.
TablesSound ==
    TypeOK /\ DroppedWhenFull /\ (NothingDropped => OneOwner) /\ FrozenUnowned

\* Every staged blob is decided by the commit that consumes it: it becomes
\* active, or the quarantine count grows.
EveryBlobDecided ==
    [][next # 0 /\ next' # next =>
        \/ Len(active') = Len(active) + 1 /\ quarantined' = quarantined
        \/ active' = active /\ quarantined' = quarantined + 1]_vars

\* The commit ends: what is staged when it begins is consumed.
BootEnds == next # 0 ~> (next = 0 /\ pending = <<>>)

\* The name space a reader of the tables sees: the first active plugin that has
\* the codepoint, or none.
Lookup == [c \in Codepoints |->
    LET owners == {i \in DOMAIN active : c \in CodepointsOf(active[i].ranges)} IN
    IF owners = {} THEN <<>>
    ELSE <<active[CHOOSE i \in owners : \A j \in owners : i <= j].id>>]

Claims == {[id |-> <<b.id>>, codepoints |-> CodepointsOf(b.ranges)] : b \in Blobs}

Space == INSTANCE PluginSpace WITH
    Unowned <- <<>>, owner <- Lookup, addressable <- CodepointsOf(registered),
    complete <- NothingDropped

\* The tables implement the additive name space, also when the registry is full
\* and ranges are dropped: lookups go on finding the first plugin that claimed a
\* codepoint, and a plugin is never let in over a range that is registered.
RefinesPluginSpace == Space!SpaceSpec

=============================================================================
