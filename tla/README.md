# SuperUnicode verification

TLA+ models of the stateful core of the SuperUnicode repository, TLC
configurations that check them on small instances, and TLAPS proofs of the
theorems that hold for every size. Modules are named after the part of the code
they model; `PROJECT.json` maps every definition to the lines it translates.

Contents: [inventory](#1-inventory-of-the-system) · [plan](#2-plan) ·
[modules](#3-modules-and-the-code-they-model) · [runs](#4-runs-bounds-and-what-they-show) ·
[fairness](#5-fairness) · [proofs](#6-what-is-proved) ·
[limits](#7-what-is-only-model-checked-and-what-is-not-modelled) ·
[where code and documents disagree](#8-where-the-code-and-its-documents-disagree)

## 1. Inventory of the system

SuperUnicode is a family of freestanding C99 libraries. There are no threads and
no allocation inside it: state lives in structures the caller owns, and hosts
(a kernel, a console, a plugin loader) call in, some of them concurrently
behind lock callbacks. What is hard is therefore: calls of several clients
interleaving between the operations of one table, long legal sequences of
calls, operations that fail halfway and are retried, fixed capacities, and
counters at their limits. Nothing of it is persisted by the code modelled here,
except that a staged plugin waits for a boot.

| Component | State | Operations | Talks to | Correct when |
| --- | --- | --- | --- | --- |
| SKTO name table (`suas_skto.c`, SUAS-018 §9) | slots of snapshot records with reader counts, `live`, `shutting_down` | publish, resolve, retire, release, shutdown, drain, destroy | lock callbacks of the host; used by the name store | a held view never changes, counts equal views, lookups see the newest generation, shutdown ends |
| Name store (`compat/ow_skto_name.c`) | a name table | the same, plus `resolve_at`, two table operations with no lock between them | name table; OWFS/USFS names | an accepted view is the expected publication, no reference leaks from a rejected one |
| Plugins (`superunicode_extended/plugin`, SUTR-5) | staging table, active table, registry of ranges, mounted partitions, quarantine count | stage, commit on boot (5 gates), mount, unmount, resets, lookups | kernel boot; storage | every codepoint has one owner, frozen codepoints none, every staged blob is decided once |
| STIM text input (`suas_stim.c`, SUAS-019) | layout (bindings, foldings), context (pending dead key, counters) | bind, compose, feed, flush, reset | keyboard events; a buffer of the caller | each accepted stroke adds its text exactly once, whatever buffers are too small |
| SCTS console (`suts_scts.c`, SUTS-011) | cells, cluster records, cursor, style, dirty rows | write, put_cp, tab, line end, scroll, clear, emit_row, flush | SGW (widths), SBR (breaks), STS (clusters), a sink | wide pairs stay whole, records match cells, the sink's screen is the plane |
| File volume index (`compat/vip`) | entries; a trie over path hashes in a node pool | init, insert, lookup, remove, verify | storage | table and trie are one map; nodes are neither lost nor shared |
| SCTE terminal (`suts_scte.c`, SUTS-012) | parser state, saved cursor, modes | feed bytes | drives SCTS | control sequences act atomically whatever way the input is cut |
| Batch converters and codecs (`sutf_convert`, SUTF, SUST, VSUTF, the bridges to UTF-8) | two pointers of the caller; nothing between calls | one converter for each pair of forms, strict or lenient; encode, decode, length, isLegal | everything | decode inverts encode, ill-formed input is refused, a conversion can be resumed where it stopped |
| e-SUST transport (`sust/src/esust.c`) | a table of guest pages | map, unmap, unmap all, lookups, translation both ways, frames | host and guest | the table is a map; a frame means what it meant while its page stays mapped |
| SUCF normal forms (`suas_sucf.c`, SUAS-004) | an engine with a starter, a window of marks, a FIFO of controls | state init, process codepoint, flush, transform, quick check | console, names, tools | what comes out is the canonical form of what went in, and is its own form |
| Registries (SIS, SNCS, SIP, SSRE, SISR, SUVTL, SUAMR, SUEASD, SUKEMET, SSP, SLDF, SIVD, SCSS, SIDN, SUEPS, SULDF, SUSCH, SUSN, SUTR-7 to SUTR-14) | constant tables; most build an index on first use | init, lookups | each other | the index answers as the table does, also while several threads look up |
| Queues SIE, SIM, SKC and name check SFS (`src/sutr`) | ring, channel, buffer | push/pop, send/receive, write | input, IPC, console | first in first out, nothing lost once accepted |
| Text algorithms (STS, SBR, SDF, SUCA, SRE, SKTO text) | none between calls, small automata inside | segment, break, order, match | console, input, names | the automaton agrees with the definition by pairs |
| SUF fonts (`suf`) | a file image | parse, build, convert | tools | what is built parses back |
| BANcode, bootloader and storage copies, crosswalks, command line tools, tests, data, site | – | – | – | – |

The hazards this code is exposed to are listed in `PROJECT.json` with the line
where each bites and the properties that would notice.

## 2. Plan

Order of the work, most important behaviour first:

1. **Name table** with its abstract registry, and all of its safety proved
   (done: `NameRegistry`, `NameTable`, `NameTableProofs`); then the **name
   store** over it (`NameStore`, done, its safety in `NameTableProofs`).
2. **Plugin lifecycle** against an additive name space (`PluginSpace`,
   `PluginLifecycle`, `PluginLifecycleProofs`, done).
3. **Text input** against a stream of text (`TextStream`, `TextInput`,
   `TextInputProofs`, done).
4. **Console plane** (`Console`, done), then the **terminal** that drives it
   (`Terminal` over the operators of `Console`, done), and proofs of all that
   the console and the terminal promise (`ConsoleProofs`, done).
5. **Volume index** against a map (`VolumeMap`, `VolumeIndex`,
   `VolumeIndexProofs`, done).
6. **Lazily built indexes** of the registries, with threads (`LazyIndex`,
   `LazyIndexProofs`, done).
7. **e-SUST page table** against a map (`PageMap`, `GuestPages`,
   proofs in `TransportProofs`, done).
8. **Codecs and converters**: encoding forms as operators (`Codecs`), the
   resumable loop over two of them (`Converter`), with proofs in
   `TransportProofs` (done).
9. **Normal forms**: the engine against forms defined on whole texts
   (`CanonicalForms`, `CanonicalFormsProofs`, done).
10. Left: the queues SIE, SIM and SKC as one pipeline; cluster and line
    boundaries, bidirectional framing, regular expressions and collation as
    operators with a reference definition. Proof left: that a second pass of
    the normal forms changes nothing.

Modules that are proved about use no recursive operators: loops are recursive
functions over an interval (`[i \in 0 .. n |-> ...]`), quantifiers over "the first
index such that", or sets.

## 3. Modules and the code they model

**`NameRegistry`** is what the published-name table promises: visible names with
a generation each, and readers that hold a publication. **`NameTable`** is the
code: `slots` is `table->slots`, a slot has its `snaps`, the index of the active
one, and the flags `live` and `retired`; `view[h]` is the descriptor a client
keeps between resolve and release. Every C operation runs between
`skto_table_lock` and `skto_table_unlock`, so each is one action; errors are
actions too (`PublishRefused`, `ResolveRefused`, ...) because which error comes
back, and that nothing changed, is part of the contract. A name is a model
value with a length, since the release compares only lengths. The reader sums
of drain, destroy and retire are counted modulo `ReaderMod` (2^32 in the code), and
a record counts no more than `MaxReaders` (`UINT32_MAX`): a resolve that would
count one more is refused (`Saturated`). So is a publication at the last
generation (`Exhausted`, `MaxGen`).
A handle is emptied by its release: the model's clients release each view once.

**`NameStore`** adds `resolve_at`, the only operation of the store that is not
one of the table: it resolves, compares the generation after the lock is gone,
and releases on a mismatch. `ResolveAtBegin`, `ResolveAtAccept` and
`ResolveAtReject` are its halves. Two history variables (`made`, `known`)
number publications so that properties can speak of "the same publication".

**`PluginSpace`** is an additive name space: plugins claim codepoints nobody
owns, all at once. **`PluginLifecycle`** models `plugin_stage.c`,
`plugin_boot.c` and `plugin_partition.c` with the range policy of
`plugin_checksum.c`. A blob is a record of its id, what is wrong with its
header, its ranges, and whether its checksums match. The boot commit is a loop,
one step per blob, that nothing else interrupts (`next`). The bytes behind the
terminator of an id, which the code compares and no code initialises, are a
nondeterministic choice (`Tails`). `NothingDropped` says that the registry holds
every range of the active plugins: `register_plugin_ranges` drops without an
error what does not fit, so that `TablesSound` promises one owner only while
nothing was dropped. `PluginSpace` has that case too: a claim that gets only some of
its codepoints leaves the space incomplete, and those it did not get may be
claimed again, but an owned codepoint keeps the owner a lookup finds.

**`TextStream`** is the text an application reads; **`TextInput`** is
`suas_stim.c`. Each call is an action: `Bind`, `Compose`, `FeedDead`,
`FeedText`, `FeedIgnored`, `Flush`, `Reset`. `Overwrite` is the caller who writes into
a binding of the layout it owns without a call; `written` remembers that. An emission is all or nothing into
a buffer of `cap` bytes, and codepoints have the width of their SUTF-8 form.

**`Console`** is the plane of `suts_scts.c`. The functions of the code call each
other deeply (a write flushes a cluster, which may wrap, which may move a run,
which ends a line, which may scroll), so each is an operator from plane to
plane and the public operations are actions that apply one. A cluster is a
value with a base and a width; which clusters are glued (no break opportunity
between them) stands for SBR. `stale` is history: the rows whose text changed
since the sink last received them. The record list is a sequence, and the loops
of the code that compact it keep the elements at some indices (`Picked`) in their
order (`Nth`).

**`Terminal`** EXTENDS `Console` and is `suts_scte.c`: the parser is a function
from a byte and a record (terminal, plane, what the byte did) to the next such
record, one operator per C function; `Stages` are the records after each byte of
one call, with the early return of the code at an encoding error, and `Feed`
takes the last of them. The status of a placement or a tab is that of one call
into the plane and is answered there (`Answered`): a codepoint that was not placed
does not keep the text behind it in the same call off the plane. Bytes are named by
strings; a call hands over one of `Chunks`, which are whole sequences and pieces
of sequences, so that two clients can cut into each other. The 64-bit counters
are the effect of a byte (`s.e`); the three CSI states, between which the code
makes no difference, are one. What the cell behind the last one of the plane
reads as is a choice (`beyond`). `cut` is history: a sequence has been executed
that is known to part pairs.

**`VolumeMap`** is a bounded map; **`VolumeIndex`** is `univip_fvip.c`. The pool,
the walks and the pruning are operators from tree to tree in the order of the
code's loops, which are recursive functions over the levels of the trie; a child
whose bit in `child_bitmap` is clear is `NoNode`. Hashes are sequences of nibbles,
which the run keeps short; two paths share one.

**`LazyIndex`** is the design eighteen indexes of the registries share: an
open-addressing index in static storage that the first call builds. It follows
`sutr_sucsl.c` and takes the sizes of all the others (`Registries`; an assumption
checks that each has a free slot). Threads take turns at every slot they write or
probe. Hashes are any function (`home`), and `builds` tells the registries whose
init tests the ready flag from those that rebuild. `Serialised` is the start-up
order the documents ask for: a call that may build runs alone.

**`PageMap`** is a bounded map of guest pages with the answers of its calls;
**`GuestPages`** is `esust.c`, whose table is a sequence in the order the code
keeps it, with the removal that moves the last entry into the gap. `wire` holds
frames on their way between host and guest; `asked` and `answer` are the last
call and what it returned. A frame whose page was unmapped, or mapped elsewhere,
is not `intact` any more, and nothing is promised of it.

**`Codecs`** has the encoding forms as operators: what one step of a decoder
finds at the front of a source (a codepoint, something ill-formed, too little),
and what encoding writes. Codepoints are sequences of bytes, so that 64-bit and
larger values need no large integers. The length of a frame is capped at `LebCap`,
and no source is that long (`ConverterAssumption`). **`Converter`** is the loop all converters
share: an action for each way a turn of the loop ends (`Put`, `Replace`,
`ReplaceCut`, `StopCut`, `StopIllegal`, `StopFull`, `Finish`), and `Call`, the
caller who comes back with more source or another buffer. A bridge between UTF-8
and SUTF-8 or VSUTF starts again instead of going on.

**`CanonicalForms`** is `suas_sucf.c`: `engine` is `suas_sucf_state_t` with the
caller's buffer, and each function of the code is an operator on it. The insertion
loop of the window is stated by where the mark comes to stand. The data tables
are parameters. `FormsAssumption` says how a row looks. Parts of a row may have rows
of their own, as in three of the shipped ones (U+0391, U+1E9B, U+212B); a text
none of whose codepoints has such parts is `Simple`, and `Canonical` and
`NormalForm` are about simple texts. `PairsAssumption` says that a row of two whose
first part has a row of two itself begins with a codepoint whose parts have rows;
it holds of the shipped rows, where nothing is composed from three.
`ClassAssumption` says that a Hangul syllable and its jamo
have class 0 and no row: no row of the two tables is one of them, and a
caller who tailors (`overrides` of `suas_sucf_options_t`, none by default) leaves
them alone. Otherwise a syllable, which the code parts and composes by
arithmetic without asking for a class, would have parts that sort. The forms are
defined independently on whole texts (`Canon`, by counting what precedes). What the
code lets pass by the window is every codepoint from 0x110000 up (`IsControl`), the
native ones with the controls.

The `MC*` modules give the constants their values, and each `.cfg` is a run.

## 4. Runs, bounds and what they show

| Run | Shows | Bounds |
| --- | --- | --- |
| `names` | the invariants of the table, and that it implements the registry | 2 slots of 3 records, 2 publishable names and one that is only asked for, 2 readers, generations 0 to 3. Three records are the least with a choice of inactive record; two readers can pin both inactive ones; four generations make a record be reused and the last one be refused. Readers and names are symmetric; no property has an operator that would tell them apart |
| `store` | `resolve_at` between publications, retirements and a shutdown; a shutdown ends, and a retired slot comes back | 2 names, 2 clients, 3 publications: enough for a name to be withdrawn and reach the same generation again. One record counts one reader, so that the second is refused |
| `plugins` | one owner for each codepoint, frozen codepoints unowned, every blob decided, the commit ends, the tables implement the name space | 9 codepoints for the six regions of the space; 11 blobs with every fault the gates look for; 2 staged, 3 mounted, 2 ranges a blob and 2 in the registry, so that it fills up, drops a range of a plugin it activates, and lets a later one claim it again (in the code 16 plugins of up to 64 ranges each meet 256 places) |
| `stim` | the context implements the stream; emissions fit and are paid for, and are admissible unless the layout was written into; layouts grow without changing what they meant | 2 keys, 1 modifier, a reserved modifier, 3 bindings, 2 foldings, a trap that the caller writes into a binding, buffers of 0 and 4 bytes, 3 events: a dead key, its letter, and one more |
| `console` | pairs, records, dirty rows, failed flushes, wrapping | 2 rows of 3 cells, 2 records, wrapping on and off, 3 writes in all; a letter, the letter with a mark, a wide comma, a bare mark. Three columns are the least in which a run can be moved next to a pair |
| `terminal` | the plane stays sound under every sequence but those named; a sequence does nothing before its last byte, and nothing at all over a ceiling; what one client leaves unfinished does not leak into the next; every change is repainted | 2 rows of 2 columns, 1 write, so that a wide pair fills a row; 2 parameters, values to 2 (modes 7 and 25 become 1 and 2), 1 byte of OSC; 62 chunks with every final byte the code executes, every ESC dispatch, C0 inside sequences, all outcomes of decoding, and text behind a codepoint or a tab that fails; 6 ways to stop in the middle, 4 sequences that may follow, tried from every state |
| `terminal_erase` | a violation: an erase of the line up to the cursor reaches the next row | as above |
| `volume` | table and trie are one map over hashes, pool conserved | depth 3, binary nibbles, 6 nodes for paths that need up to 8, 2 entries, two paths with one hash |
| `index` | a published index is the one table and hashes determine, concurrent lookups answer as the table does, every call returns | 3 rows and a missing key in 4 slots, all hashing to the last two slots in every way: chains of three rows, chains that wrap, a probe that runs along them; 2 threads |
| `pages` | the table is a map, frames stay faithful | 3 guest pages for 2 entries, 3 host pages of 2 codepoints of which one holds a trap, 1 frame. `VIEW` hides the last call and its answer, on which no step depends; properties of steps see them |
| `convert` | conversions are faithful, seamless, within their buffers, and end | every pair of forms in the code, strict and lenient; sources of up to two pieces with the shortest and longest encodings of each form, the values next to its limits and everything its decoder refuses; windows of every length, buffers of 2 and 12 units |
| `forms` | the engine computes the canonical form, controls and native codepoints pass in order, forms are stable, a YES of the quick check may be relied on | 14 codepoints (a letter, two marks it composes with, a mark tailored to the class of one of them, pairs, a singleton, a letter whose row contains it, a syllable, jamo, a control, a native codepoint), texts of 4 in both forms, a window of 2 and a FIFO of 1, so that both overflow; buffers of 2, which fill up, and of 12 |

`CHECK_DEADLOCK` is off in `convert` only, where a finished conversion stops.
Every property of a passing run has a variant of a mapped definition (the
operators whose comment begins with "Slip") that breaks it: a forgotten
decrement, a missing guard, a wrong end of a range.

## 5. Fairness

- `NameStore!StoreFairSpec`: each reader releases what it holds, which the
  header demands ("exactly once"); the owner of a table that is shutting down
  calls destroy again, which answers BUSY until the last release; and a call of
  `resolve_at` that began returns, as its second half is straight-line code.
  Nothing is assumed of publishers, of new readers or of whoever begins a
  shutdown.
- `PluginLifecycle!FairSpec`: the boot loop runs on. It is one function and
  nothing else runs meanwhile.
- `LazyIndex!Spec`: a thread inside a call goes on with it; nothing is assumed
  about when calls are made.
- `Converter!FairSpec`: weak fairness of `ConvNext`. The converter is a function
  without waiting, and its caller goes on until the conversion ended, with more
  source when it is asked for and a larger buffer when a codepoint did not fit.

## 6. What is proved

All proofs are checked by TLAPS for every value of the constants that satisfies
the named assumptions.

**`NameTableProofs`**, under `FewReaders` (the set of handles is finite and
smaller than 2^32, so that no 32-bit sum of reader counts wraps):

- `TableCorrect`: `TableSound` (`TypeOK`, `ReadersExact` and `SlotsSound`) and
  `HeldViewsIntact` always hold. None of these is inductive alone. That a held view is intact
  needs the counts to be exact, because publish reuses records whose count is
  0; that counts are exact needs views to be intact, because release finds its
  record by generation and length; both need that a free slot is wholly cleared
  (`FreeIsClear`) and that the active record of an occupied slot is live
  (`ActiveIsLive`). `StateInv` is their conjunction; one lemma per operation
  shows that it is preserved, and `ReferencesBounded` and `ReaderSumZero` relate
  the 32-bit sum to the set of holders by an injection.
- `DrainTruthful`: a drain or destroy that answers OK leaves no reader.
- `BusyJustified`: BUSY from publish means every other record is held.
- `TableRefines`: every step is a step of `NameRegistry` or none, with the
  refinement mapping `Lookup` and `Reading`.
- `ClosedIsClosed`: between shutdown and destroy nothing becomes visible and no
  view is taken.
- `ViewsIntact`: `HeldViewsIntact` on its own, from the same invariant.
- `AcceptedCorrect`, for the name store: what `resolve_at` accepted is the
  publication whose generation the client had learned (`AcceptedIsExpected`).
  `StoreInv` adds to `StateInv` that a held view is a publication the client
  knows (`HeldIsKnown`), and that a known one whose name was not withdrawn since
  is tracked by the slot of its name (`KnownIsTracked`): the slot is at its
  generation or beyond, and generations only grow while a name stays.

**`PluginLifecycleProofs`**, for any blobs, codepoints and capacities:

- `TablesCorrect`: `TablesSound` always holds. `TablesInv` adds to it that what is
  registered passed the range policy (`RegistryClean`), and that a range was
  dropped only if the registry is full (`DroppedWhenFull`), which it then stays
  until a reset: gate 3 compares a new blob with the registry and not with the
  active plugins, so that one owner follows only where the registry holds all of
  their ranges, and once it does not it never will again by an activation.
- `BlobsDecided`: every iteration of the commit activates its blob or adds one to
  the quarantine count (`EveryBlobDecided`).
- `PluginsRefine` (`RefinesPluginSpace`): every step is a step of `PluginSpace` or
  none, with no assumption on the blobs; the owner is the one a lookup finds. An
  activation in a registry that overflows is a claim that gets what still fits:
  the first plugin with a codepoint stays the first, because `active` only grows
  between resets, and gate 3 keeps a new claim off what is registered.

**`VolumeIndexProofs`**, for any paths and hashes, any depth of the trie and sizes
of its node pool and table:

- `IndexCorrect`: `IndexSound` always holds. `IndexInv` says of the tree (`Sound`)
  that a node has one parent at most and the root none, that what lies on the
  stack is empty and linked from nowhere, and that what does not lie there is on
  the path of a key (`AllReached`); and of tree and table (`Filed`) that a node
  with an entry is where the hash of the entry leads, that each entry has such a
  node, and that no walk ends at a node without an entry. `AllReached` is what
  gives one depth to each node: paths that meet are one path (`PathsApart`), so
  that a leaf has no children (`LeafBare`) and `univip_prune` frees it.
- The loops are followed step by step: `Created` is what holds of a walk that has
  made its way to a level (old paths stay, new ones lie along the key, the last
  node is the only new one that is empty), `Trimmed` what holds when pruning has
  come to a level (paths are only cut, and none that leads to an entry). A node
  hung in and a node taken out keep a tree sound (`SoundGrows`, `SoundShrinks`).
- `WasteBounded` (`OnlyExhaustionWastes`) and `IndexRefines` (`RefinesVolumeMap`):
  each call keeps the invariant, leaves no new empty branch unless it ran out of
  nodes, and is a step of the map or none (`Good`, one lemma per action).

**`ConsoleProofs`**, for any geometry, repertoire of clusters, relation `Glued`
and capacity of the record list:

- `ConsoleSound`: `PlaneSound` always holds. The invariant `PlaneInv` says of the
  plane (`Good`): types, pairs are whole, no two records at one position, each
  record stands on the cell of its base, and recorded clusters take one or two
  cells. There is a lemma for each function of the code that maps planes to
  planes (`ClearCellIs`, `PlaceIs`, `ScrollIs`, `NewlineIs`, `MoveRunIs`,
  `PlaceOrWrapIs`): from a plane that is good to one that is, with what happens to
  row, dirty rows and text. That a lead has its tail is not enough to place a
  cluster: clearing the first of its cells may blank a lead to the left, and that
  takes the record there with it, so that all parts of `Good` go together.
- `DirtyCovers` (`OnlyMovesGoStale`) and `RetrySound` (`RetryCovers`): every step
  is one of the plane's operations, which mark the rows whose text they change
  but for the row a run is moved away from, or gives rows to the sink (`StepIs`).
- `WrapFailsInside` (`WrapFailsOnlyInside`): the records of a moved run cover
  disjoint columns (`RecordsApart`), which lie between the break and the cursor
  if no record of the row reaches behind it (`CoveredByIs`); what the code
  compares with the width of the plane then bounds what it places
  (`MoveRunFits`), and no placement of the run, nor the new cluster, can fail.

The same module proves what the terminal promises, for any chunks of bytes, any
decoding and any numbers of parameters and OSC bytes. It needs of the bytes only
what `TerminalAssumption` says: control bytes, letters and lead bytes are
different bytes.

- `TerminalKeepsPlane` (`PlaneKept`): unless a sequence that parts pairs has been
  executed (`cut`), the plane is as the console keeps it. `Good` is lost with the
  first pair that is parted, and the terminal goes on from there, so that the
  lemmas about planes start from less, `Fair`: types, cursor and records in the
  plane. `Kept` says that a function leads from fair to fair and from good to
  good; each byte is one of the parser's branches (`FedLed`), a call is a
  sequence of bytes (`StagesAre`), and `TermInv` holds between calls. It adds
  that parameters and the OSC count stay below their ceilings and that the count
  is zero outside an OSC (`Idle`).
- `TerminalShows` (`ChangesShown`): each byte of a call marks every row whose text
  it changes, except the row a run is moved away from, and no byte takes a mark
  back; on planes with parted pairs too.
- `NothingHalfDone` (`NoPartialEffect`): before its last byte a sequence has left
  the plane as it was (`LeftBehind`), and with it too if it is over a ceiling or
  is counted as unsupported, but for the modes it may have set (`UnsupportedIs`).
- `ParserResynchronises` (`Resynchronises`): whatever was left unfinished, `ESC \`
  ends it without touching the plane, and leaves a terminal that differs from a
  reset one only in fields the parser sets before it reads them (`TerminatorIs`);
  from two such terminals the same bytes do the same (`FedAlike`, `CallsAlike`).

**`TextInputProofs`**:

- `ContextCorrect`: `ContextSound` always holds: an input context is well
  typed, emits nothing inadmissible unless its layout was written into without a call
  (`Clean`), is paid for each emission by an event of its
  own, and never builds a sequence longer than its scratch array. The induction
  needs that layouts hold admissible codepoints and well-formed bindings only;
  the bound on sequences follows from the latter, since a pending dead key adds
  one codepoint to a binding of at most the array's length less one.
- `ContextRefines`: the context implements the stream, failed calls included.
- `LayoutGrows` (`LayoutGrowsBehind`): a layout that grows under its contexts
  takes nothing back. A binding goes behind those that events select already, and
  a pair is added only when none of the table is the same.

**`LazyIndexProofs`**, for callers that keep the start-up order (`Serialised`)
and any number of threads, rows, slots and any hashes:

- `IndexWhole`: `IndexIntact` always holds: types are right, and a published
  index that nobody rebuilds has every row once, at the place table and hashes
  determine. The induction follows the build row by
  row (`Placed(n)`) and says of a probing or placing thread that all slots it has
  passed are taken (`Arc`).
- `LookupsExact`: a lookup returns the row of its key, or nothing if there is
  none.

**`TransportProofs`** has two components. The page table, for any pages and sizes:

- `TableSound` and `FramesKept` (`TypeOK`, `FrameFaithful`), from the inductive
  `IInv`: the table is well typed without two entries of one page, and an
  intact frame is backed by an entry of the codepoint's host page (`Backed`).
- `TableIsMap`: every call has the effect and the answer of `PageMap`.

The converters, for every pair of forms, strict and lenient, any source of units
of the first form shorter than `LebCap`, cut into windows and buffers of any sizes:

- `RoomIsKept` (`RoomKept`): no call writes behind its buffer. `LengthAgrees` is
  the lemma behind it: for each form the function asked for a length, which is
  not the encoder, gives the number of units the encoder writes.
- `ConversionIsFaithful` (`Faithful`): the buffer holds the encodings of the
  codepoints delivered, a strict conversion has consumed just theirs, and its
  verdict is that of isLegal. It rests on what is true of each decoder, whatever
  it is given (`Found`, `DecodeFound`): it takes at least one unit and no more
  than there are, one that asks for more takes all, and a codepoint has exactly
  the encoding that was taken, so that no form has two encodings of one codepoint
  that both decode.
- `ConversionIsSeamless` (`Seamless`): what all calls deliver together is the text
  of one uninterrupted conversion. A decoder that found something complete finds
  the same when more of the source has come (`DecodeStable`), so that
  what the loop finds in its window is what the whole source has there
  (`HereIs`). The induction says that the text delivered and what is ahead
  (`RestOf`) make up the whole (`Foretold`), until a lenient call has replaced a
  codepoint that was cut off.

The invariant `Keeps` is their conjunction with the types (`Shaped`), why a call
stopped (`Stopped`), and that a number of any size finds its buffer empty
(`Alone`). That `Whole`, `IsLegal` and the values of multi-byte sequences, which
the modules define by recursion, are functions at all is shown first
(`StepsExist`, `BackStepsExist`), by least counterexamples.

**`CanonicalFormsProofs`**, for any tables that satisfy `FormsAssumption`,
`PairsAssumption` and `ClassAssumption`, as the shipped tables do, any tailoring
that does, and any sizes of window, FIFO and buffer:

- `EngineFits`: the window, the FIFO and the caller's buffer are never written
  behind their ends, whatever is fed and in whatever order calls come. One lemma
  for each function of the code says that it keeps `Fit`; what is written is left
  open, since that depends on a choice from the data tables.
- `FormsAreCanonical` (`Canonical`): what the engine has written and what it holds,
  parted again and without controls and native codepoints, is the canonical order of
  what it was given, if that is a simple text; when the buffer was too small, what
  fits is a beginning of that. The invariant is `FormsKept`: `Resting` holds of
  every text (the arrays, and that an engine without a starter holds nothing),
  `FormsRead` of simple ones. Its heart is `Holds`: the parted text that left and
  the starter still held stand where the whole text has them, and the window is the
  portion still open, sorted by class (`Stands`). The argument goes along the
  functions of the code. A codepoint's rank counts those that precede it, and ranks
  are a permutation of the places (`Ranked`), so appending a codepoint sets it in at
  one place and moves the rest by one (`RankGrows`). A starter comes last and opens
  a sequence (`OpensAlone`); a mark comes to stand in the open portion behind those
  of its class or less, which is where the insertion loop puts it; with a full
  window the portion is closed and the next mark is last again. Composing changes no
  parted text: a composite parts into the pair it was made of, and the marks the
  starter takes in are those that stand right behind it.
- `ControlsKeepPlace` (`ControlsPass`, for simple texts): the controls and native
  codepoints that were let out and those that wait are those of the text, in its
  order (`Passing`, kept by every function of the code in both forms), and in the
  decomposed form each that was let out stays where it was seen (`Placed`, which is
  inductive together with `FormsKept`). `Placed` counts starters: those written and
  the one held are those read, so that what waits follows the last of them; writing
  a sequence lets the waiting controls out behind it (`WritingPlaces`), and an
  overfull FIFO lets one out before a starter that then has more controls than the
  FIFO holds (`ControlPlaces`), a number that only grows (`CompanyGrows`).
- `SkippingIsSafe` (`SkipIsSafe`): a text that is passed has no codepoint with
  parts and no mark behind one of a greater class (`QuickRises`); such a text is
  its own canonical order, in portions of any size (`RisingIsCanonical`), and a
  bulk call writes the canonical order of its text (`TransformReads`, from the
  lemmas of both invariants). The check says no to every row, so that what it
  passes is simple (`QuickSimple`), and the theorem needs no such condition.

## 7. What is only model-checked, and what is not modelled

Only model-checked: the liveness properties (fairness is out of the prover's
reach) and one invariant of the normal forms, `NormalForm`. The induction
theorems of the library take an operator as a parameter, which the installed
provers cannot instantiate. Where `ConsoleProofs`, `VolumeIndexProofs`,
`TransportProofs` and `CanonicalFormsProofs` need an induction over numbers (the
records of a moved run, the bytes of a call, the levels of a trie, the places of
a source or a text) they argue from a least counterexample (`LeastExists`), and
show that a function defined by recursion exists before they use it
(`StepsExist`). `NormalForm` compares two passes of the engine over a whole
text, place by place and with its controls; what is proved of one pass
(`Canonical`, `ControlsPass`) fixes what its composed form parts into, and not
where it composes.

Abstractions that matter:

- The lock of a name table is taken to exclude; a table without callbacks must
  be serialised by its callers (SUAS-018 §12.5 asks the same), and destroying a
  store while a call is inside it is outside the contract.
- Bytes of names, paths and fonts, checksums and hashes are values or fields;
  admission of raw bytes is the set `Publishable`, a form of a path.
- The console takes widths, glue and clusters as constants: the rules of SGW,
  SBR and STS are not modelled, nor is the decoding of its input, its L0 sink or
  the registry of glyph zones.
- The terminal runs over a new plane and the decoding of a codepoint is a
  constant (`Decode`): text, a directive, inadmissible or malformed. The callbacks
  (directives, bell) are taken not to call back in. `PlaneKept` says nothing once
  ICH, DCH, or an erase with the cursor behind the last column has been executed,
  since the code parts pairs there; the run shows that nothing else does.
- The volume index leaves out the registry of volumes and the arithmetic of
  absolute addresses.
- The indexes of the registries differ in hash, in the type of their keys and in
  how a free slot is marked; what they share is modelled. Callers that break the
  documented start-up order are left out: the builds then race on plain memory.
- The converters are modelled for big-endian bytes; little-endian SUST-16 and the
  containers of `sustfixed.c` are not. Left out as well: the copies between
  arrays of codepoints (`sucs_conv.c`), LEB128 lengths of ten digits, where the
  code looks for overflow, a lenient `ConvertESUTF8toSUCSBig` on an empty window
  (it writes U+FFFD), the callbacks of the streaming codec and the arithmetic of
  `extsucs_big.c`.
- The normal forms leave out NULL arguments. Of texts with U+0391, U+1E9B or U+212B,
  whose parts the code does not part again, `Canonical` and `NormalForm` promise
  nothing (section 8).

Components not modelled, each with its reason, are listed in `PROJECT.json`.
Most are lookups in constant tables or pure conversions. More than half of the
repository's lines (`sucs_ucd_names.c` alone has 103,873 of some 175,500) are
generated tables of names and data, which no definition could translate; the
share of lines that the map covers is small for that reason.

## 8. Where the code and its documents disagree

`terminal_erase` is a run that finds a disagreement (`findings` in `PROJECT.json`
quotes the sentence): erasing up to a cursor that waits to wrap goes on in the
next row, or behind the plane.

Seen while modelling and kept in the models as the code has them. The passing
properties are worded, or their instances chosen, so that these do not count:

- Names: generations start again at 0 after a retirement, so that a stale
  generation 0 is accepted for the next publication, which `ow_skto_name.h`
  denies (`AcceptedIsExpected` excepts names that were withdrawn). A second
  release of one descriptor takes the reference of another reader of the same
  generation. At the last generation publish answers OVERFLOW
  (`suas_skto.c`:917-919), where SUAS-018, 12.5 and its open question Q5 let the
  32-bit generation wrap: the models refuse as the code does, so that
  `TableSound` and `HeldViewsIntact` say nothing of a generation that wraps.
  The drain sum may wrap at 2^32. Destroy clears `shutting_down`, so
  a destroyed table can be published into again.
- Plugins: ranges that do not fit into the registry of ranges are dropped
  silently and may be claimed twice (`TablesSound` promises one owner only while
  none was; in `PluginSpace` such a claim leaves the space incomplete). Ids are
  compared over bytes nobody initialised; the quarantine count accumulates over
  commits; a plugin quarantined at the last gate stays mounted.
- Text input: an event whose emission did not fit is counted. SUAS-019 (section 8
  and C8) requires a second test of admissibility at emission, since a caller may
  change a layout after its bindings were tested; `stim_emit` (`suas_stim.c`:128-155)
  has none, and what a caller writes into a layout is emitted as it is.
  `EmitsAdmissible` says what is left: only `bind` and `compose` keep it true.
- Console: the row a run is moved away from is not marked dirty, so that the sink
  shows the run twice (`OnlyMovesGoStale` says that this is the only way). Marks
  are dropped once a plane has 64 cluster records; the records of a moved run are
  placed in the order of writing, not of columns; a moved run may be longer than
  was tested, so that a write fails with wrapping on and after the line end
  (`WrapFailsOnlyInside` allows just that).
- Volume index: an insertion that runs out of nodes leaves its branch behind; a
  lookup compares hashes but not paths, though a comment says so, and `VolumeMap`
  is therefore a map over hashes.
- Terminal: a CSI with an intermediate byte is executed as if it had none;
  `?7;9h` sets mode 7 and is counted as unsupported; at an encoding error the call
  returns and the rest of its buffer is never read; the byte that breaks a
  multi-byte sequence, be it ESC, is lost; every codepoint is placed as a cluster
  of its own, so a combining mark is unsupported; ICH and DCH part the halves of
  pairs and drop the records of their row.
- Converters: the bytes `F0 41 42` at the end of a source count as truncated, so
  that a lenient conversion replaces them as one and swallows two valid
  characters; a frame whose announced length is huge asks for more source
  forever; a lenient call whose window ends inside a codepoint replaces it, though
  the rest may still come (`cut`; `Seamless` excepts it).
- e-SUST: a frame whose page was mapped elsewhere meanwhile decodes without an
  error to another codepoint.
- Normal forms: the quick check says YES in the composed form for texts the
  transform changes (á with U+0323; the jamo of a syllable; Œ as two starters),
  though the header says the check never changes the result, which is why
  `SkipIsSafe` is about the decomposed form; it says NO to texts the transform
  leaves alone. Native codepoints (0x120000 and up) are starters of class 0 to
  `suas_sucf_ccc`, to its test (`test_suas_sucf.c`:50-52) and to SUAS-004, 5.1, by
  which they neither combine nor reorder against marks; `sucf_absorb` holds them in
  the FIFO of the controls, so that a mark read behind one is sorted, composed with
  the starter before it, and written before it. `Canonical` leaves them out of the
  text like controls, and `ControlsPass` says only that they keep their own order
  and their starter. Decomposition goes one level deep (U+212B becomes U+00C5,
  U+1E9B begins with U+017F), and the row of U+0391 contains U+0391, so that its
  text grows with every pass: what comes out of such texts is not a normal form. A
  mark at the head of a text is taken for a starter and not ordered; a pair of marks
  that SUAS-004, 5.3 never composes (U+0344, U+0F73) is composed there, as
  `sucf_compose_pair` knows no exclusions. Of more controls behind one starter than
  the FIFO holds, the first is let out before that starter. Trap markers do not end
  a sequence, and a full window commits the whole sequence, where SUAS-004 says
  otherwise. The overrides of compositions are never read. After a full buffer the
  engine has emitted part of a sequence it still holds, so that a caller has to
  start again.
