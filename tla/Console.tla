------------------------------ MODULE Console -------------------------------
(***************************************************************************)
(* The System Console Text Service (SUTS-011, src/suts/suts_scts.c): a     *)
(* plane of cells with a cursor, wide pairs, a bounded list of cluster     *)
(* records, wrapping at break opportunities, scrolling, and rows that a    *)
(* sink repaints when they are dirty.                                      *)
(*                                                                         *)
(* A cluster is one value; Base gives the cluster of its base codepoint    *)
(* alone, which is what a cell can hold.  Only its record holds the whole  *)
(* cluster.  The plane is one record, and an operator per function of the  *)
(* code maps a plane to the next one, so that the operations that call     *)
(* each other compose as in the code.                                      *)
(***************************************************************************)
EXTENDS Integers, Sequences, FiniteSets

CONSTANTS
    Rows, Cols,         \* geometry of the plane
    Clusters,           \* what is written: grapheme clusters
    Base,               \* Base[k]: the cluster of the first codepoint of k
    Width,              \* Width[k]: cells of k (suas_sgw_cells)
    Glued,              \* pairs between which SBR allows no break
    Styles,             \* values of fg and bg together
    Blank,              \* SCTS_MARK_BLANK
    WrapOptions, TabWidth,  \* what scts_plane_init is asked for
    MaxClusters,        \* SCTS_MAX_CLUSTERS
    TrackedRows,        \* rows with a bit of their own in dirty (64)
    MaxWrites           \* bound on the clusters written

ASSUME ConsoleAssumption ==
    /\ Rows \in Nat \ {0} /\ Cols \in Nat \ {0}
    /\ Base \in [Clusters -> Clusters]
    /\ \A k \in Clusters : Base[Base[k]] = Base[k]
    /\ Width \in [Clusters -> 0..2]
    /\ \A k \in Clusters : Width[Base[k]] = Width[k]
    /\ Glued \subseteq Clusters \X Clusters
    /\ Blank \notin Clusters
    /\ WrapOptions \subseteq BOOLEAN /\ TabWidth \in Nat \ {0}
    /\ MaxClusters \in Nat /\ TrackedRows \in Nat /\ MaxWrites \in Nat

RowIds == 0 .. Rows - 1
ColIds == 0 .. Cols - 1

VARIABLES
    plane,      \* scts_plane_t with its cells
    stale       \* rows that changed since the sink last received them

vars == <<plane, stale>>

Cell == [glyph : Clusters \cup {Blank}, part : {"whole", "lead", "tail"},
         style : Styles]
ClusterRecord == [row : RowIds, col : ColIds, text : Clusters]

TypeOK ==
    /\ plane.cells \in [RowIds \X ColIds -> Cell]
    /\ plane.recs \in Seq(ClusterRecord) /\ Len(plane.recs) <= MaxClusters
    /\ plane.row \in RowIds /\ plane.col \in 0 .. Cols
    /\ plane.style \in Styles /\ plane.wrap \in BOOLEAN
    /\ plane.dirty \subseteq RowIds /\ plane.dirtyAll \in BOOLEAN
    /\ plane.writes \in 0 .. MaxWrites
    /\ plane.status \in {"OK", "E_CLUSTER", "E_COL_RANGE", "E_CAPACITY"}
    /\ stale \subseteq RowIds

-----------------------------------------------------------------------------
\* Parts of a sequence, by their indices.

\* The i-th of a set of numbers, and the elements of a sequence at some of its
\* indices, in their order.
Nth(I, i) == CHOOSE n \in I : Cardinality({m \in I : m <= n}) = i
Picked(s, I) == [i \in 1 .. Cardinality(I) |-> s[Nth(I, i)]]

-----------------------------------------------------------------------------
\* Cells and cluster records.

\* scts_set_blank: a blank in the current style.
BlankCell(p) == [glyph |-> Blank, part |-> "whole", style |-> p.style]
SetBlanks(p, positions) ==
    [p EXCEPT !.cells = [q \in DOMAIN @ |->
        IF q \in positions THEN BlankCell(p) ELSE @[q]]]

\* scts_find_cluster: the first record at a position, or 0.
RecordAt(p, r, c) ==
    LET at == {i \in DOMAIN p.recs : p.recs[i].row = r /\ p.recs[i].col = c}
    IN  IF at = {} THEN 0 ELSE Nth(at, 1)

\* scts_remove_cluster_at
\* Slip: the record outlives its cell.
WithoutRecord_Kept(p, r, c) == p
WithoutRecord(p, r, c) ==
    IF RecordAt(p, r, c) = 0 THEN p
    ELSE [p EXCEPT !.recs = Picked(@, DOMAIN @ \ {RecordAt(p, r, c)})]

\* scts_clear_cell: a blank, and the other half of a wide pair with it.
ClearCell(p, r, c) ==
    CASE p.cells[<<r, c>>].part = "tail" ->
            SetBlanks(WithoutRecord(p, r, c - 1), {<<r, c - 1>>, <<r, c>>})
      [] p.cells[<<r, c>>].part = "lead" ->
            SetBlanks(WithoutRecord(p, r, c), {<<r, c>>, <<r, c + 1>>})
      [] OTHER ->
            SetBlanks(WithoutRecord(p, r, c), {<<r, c>>})

\* scts_mark_dirty.  Slip: a row past the last bit is forgotten.
MarkDirty_LowRows(p, r) ==
    IF r + 1 < TrackedRows THEN [p EXCEPT !.dirty = @ \cup {r}] ELSE p
MarkDirty(p, r) ==
    IF r < TrackedRows THEN [p EXCEPT !.dirty = @ \cup {r}]
    ELSE [p EXCEPT !.dirtyAll = TRUE]

-----------------------------------------------------------------------------
\* scts_place_cluster.

Fits(p, k) == p.col + Width[k] <= Cols

Span(r, c, k) == {<<r, d>> : d \in c .. c + Width[k] - 1}

CellOf(p, k, first) == [
    glyph |-> IF first THEN Base[k] ELSE Blank,
    part |-> IF Width[k] = 1 THEN "whole" ELSE IF first THEN "lead" ELSE "tail",
    style |-> p.style]

\* The record, when there is room for one.
Recorded(p, k) ==
    IF Len(p.recs) < MaxClusters
    THEN [p EXCEPT !.recs =
            Append(@, [row |-> p.row, col |-> p.col, text |-> k])]
    ELSE p

Cleared(p, k) ==
    LET q == ClearCell(p, p.row, p.col)
    IN  IF Width[k] = 2 THEN ClearCell(q, p.row, p.col + 1) ELSE q

Place(p, k) ==
    IF p.status # "OK" THEN p
    ELSE IF ~Fits(p, k) THEN [p EXCEPT !.status = "E_COL_RANGE"]
    ELSE LET written == [Cleared(p, k) EXCEPT !.cells = [q \in DOMAIN @ |->
                  IF q \in Span(p.row, p.col, k)
                  THEN CellOf(p, k, q[2] = p.col) ELSE @[q]]]
         IN  MarkDirty([Recorded(written, k) EXCEPT !.col = @ + Width[k]], p.row)

-----------------------------------------------------------------------------
\* Scrolling and line ends.

\* scts_scroll_impl: cells and records move together.
ScrolledRecords(recs, n) ==
    LET kept == Picked(recs, {i \in DOMAIN recs : recs[i].row >= n})
    IN  [i \in DOMAIN kept |-> [kept[i] EXCEPT !.row = @ - n]]

Scroll(p, n) ==
    IF n = 0 THEN p
    ELSE [p EXCEPT
        !.cells = [q \in DOMAIN @ |-> IF q[1] + n < Rows THEN @[<<q[1] + n, q[2]>>]
                                      ELSE BlankCell(p)],
        !.recs = ScrolledRecords(@, n),
        !.row = Rows - 1,
        !.col = IF n >= Rows THEN 0 ELSE @,
        !.dirtyAll = TRUE,
        !.dirty = {}]

\* scts_newline_impl
Newline(p) ==
    IF p.row + 1 < Rows THEN [p EXCEPT !.row = @ + 1, !.col = 0]
    ELSE [Scroll(p, 1) EXCEPT !.col = 0]

-----------------------------------------------------------------------------
\* Wrapping.

\* scts_row_clusters: the columns of the records of a row.
RecordCols(p, r) == {p.recs[i].col : i \in {j \in DOMAIN p.recs : p.recs[j].row = r}}

TextAt(p, r, c) == p.recs[RecordAt(p, r, c)].text

\* scts_break_before: between a cluster and the one recorded before it.
BreakBefore(p, r, c) ==
    \A d \in RecordCols(p, r) :
        d < c /\ (\A e \in RecordCols(p, r) : e <= d \/ e >= c)
            => <<TextAt(p, r, d), TextAt(p, r, c)>> \notin Glued

Rightmost(cols) == CHOOSE c \in cols : \A d \in cols : d <= c

\* scts_last_break_col
LastBreakCol(p, r) ==
    Rightmost({c \in RecordCols(p, r) : BreakBefore(p, r, c)})

\* The new cluster continues a run that must not be broken before it.
ContinuesRun(p, k) ==
    LET cols == RecordCols(p, p.row)
    IN  cols # {} /\ <<TextAt(p, p.row, Rightmost(cols)), k>> \in Glued

\* The run fits on the next row together with the new cluster.
\* Slip: the new cluster is not counted.
RunFits_Alone(p, k) ==
    LET c == LastBreakCol(p, p.row)
    IN  c > 0 /\ c < p.col /\ p.col - c <= Cols
RunFits(p, k) ==
    LET c == LastBreakCol(p, p.row)
    IN  c > 0 /\ c < p.col /\ p.col - c + Width[k] <= Cols

\* scts_move_run: the records from a column on, in the order of the records.
MoveRun(p, c) ==
    LET run == {i \in DOMAIN p.recs : p.recs[i].row = p.row /\ p.recs[i].col >= c}
        moved == Picked(p.recs, run)
        left == [SetBlanks(p, UNION {Span(p.row, p.recs[i].col, p.recs[i].text)
                                     : i \in run})
                   EXCEPT !.recs = Picked(@, DOMAIN @ \ run)]
        after[i \in 0 .. Len(moved)] ==
            IF i = 0 THEN Newline(left) ELSE Place(after[i - 1], moved[i].text)
    IN  after[Len(moved)]

\* scts_flush_cluster, once the cluster has a base that takes cells.
PlaceOrWrap(p, k) ==
    IF Fits(p, k) THEN Place(p, k)
    ELSE IF ~p.wrap THEN [p EXCEPT !.status = "E_COL_RANGE"]
    ELSE IF Width[k] > Cols THEN [p EXCEPT !.status = "E_CLUSTER"]
    ELSE IF ContinuesRun(p, k) /\ RunFits(p, k)
    THEN Place(MoveRun(p, LastBreakCol(p, p.row)), k)
    ELSE Place(Newline(p), k)

-----------------------------------------------------------------------------
\* What the sink receives for a row (scts_plane_emit_row, levels L1 to L3;
\* scts_plane_serialize_row): the whole cluster where there is a record, the
\* base where there is none.
GlyphAt(p, r, c) ==
    IF p.cells[<<r, c>>].glyph = Blank THEN Blank
    ELSE IF RecordAt(p, r, c) = 0 THEN p.cells[<<r, c>>].glyph
    ELSE TextAt(p, r, c)

RowText(p, r) ==
    LET shown == {c \in ColIds : p.cells[<<r, c>>].part # "tail"}
    IN  [i \in 1 .. Cardinality(shown) |-> GlyphAt(p, r, Nth(shown, i))]

Changed(p, q) == {r \in RowIds : RowText(p, r) # RowText(q, r)}

\* A call of the plane's own operations, which no sink sees.
Becomes(p) ==
    /\ plane' = p
    /\ stale' = stale \cup Changed(plane, plane')

Called == [plane EXCEPT !.status = "OK"]

-----------------------------------------------------------------------------
\* scts_plane_init, which ends in scts_plane_clear.
Cleaned(p) ==
    [SetBlanks(p, RowIds \X ColIds) EXCEPT
        !.recs = <<>>, !.row = 0, !.col = 0, !.dirtyAll = TRUE, !.dirty = {}]

NewPlane(s, w) ==
    [cells |-> [q \in RowIds \X ColIds |->
                  [glyph |-> Blank, part |-> "whole", style |-> s]],
     recs |-> <<>>, row |-> 0, col |-> 0, style |-> s, wrap |-> w,
     dirty |-> {}, dirtyAll |-> TRUE, writes |-> 0, status |-> "OK"]

Init ==
    /\ \E s \in Styles, w \in WrapOptions : plane = NewPlane(s, w)
    /\ stale = RowIds

Clear == Becomes(Cleaned(Called))

SetStyle(s) == Becomes([Called EXCEPT !.style = s])

\* scts_flush_cluster as scts_plane_write and scts_plane_put_cp call it; only
\* a write that succeeds is counted.
Write(k) ==
    /\ Width[k] > 0
    /\ plane.writes < MaxWrites
    /\ LET p == PlaceOrWrap(Called, k)
       IN  Becomes(IF p.status = "OK" THEN [p EXCEPT !.writes = @ + 1] ELSE p)

\* A cluster whose base takes no cell.
WriteMark(k) == Width[k] = 0 /\ Becomes([plane EXCEPT !.status = "E_CLUSTER"])

LineFeed == Becomes(Newline(Called))

Returned(p) == [p EXCEPT !.col = 0]
CarriageReturn == Becomes(Returned(Called))

SteppedBack(p) == [p EXCEPT !.col = IF @ > 0 THEN @ - 1 ELSE 0]
Backspace == Becomes(SteppedBack(Called))

\* scts_plane_tab: at the last stop a new line, or an error without wrapping.
NextStop(p) == ((p.col \div TabWidth) + 1) * TabWidth

Tabbed(p) ==
    CASE NextStop(p) < Cols -> [p EXCEPT !.col = NextStop(p)]
      [] NextStop(p) >= Cols /\ p.wrap -> Newline(p)
      [] OTHER -> [p EXCEPT !.status = "E_COL_RANGE"]

Tab == Becomes(Tabbed(Called))

ScrollBy(n) == Becomes(Scroll(Called, n))

\* scts_plane_emit_row
EmitRow(r) ==
    /\ plane' = [Called EXCEPT !.dirty = IF r < TrackedRows THEN @ \ {r} ELSE @]
    /\ stale' = stale \ {r}

RowDirty(r) == plane.dirtyAll \/ r \in plane.dirty

\* scts_plane_flush, when the scratch buffer suffices for every row ...
Flush ==
    /\ plane' = [Called EXCEPT !.dirty = {}, !.dirtyAll = FALSE]
    /\ stale' = {r \in stale : ~RowDirty(r)}

\* ... or is too small for the row n, the first one that fails.
\* Slip: the rows are no longer dirty when the flush gives up.
FlushedDirty_Forgotten(n) == {}
FlushedDirty(n) == plane.dirty \ (0 .. n - 1)

FlushFails(n) ==
    /\ RowDirty(n)
    /\ plane' = [plane EXCEPT !.dirty = FlushedDirty(n),
                             !.status = "E_CAPACITY"]
    /\ stale' = {r \in stale : r >= n \/ ~RowDirty(r)}

Next ==
    \/ \E k \in Clusters : Write(k) \/ WriteMark(k)
    \/ \E s \in Styles : SetStyle(s)
    \/ \E n \in 0 .. Rows : ScrollBy(n)
    \/ \E r \in RowIds : EmitRow(r) \/ FlushFails(r)
    \/ Clear \/ LineFeed \/ CarriageReturn \/ Backspace \/ Tab \/ Flush

Spec == Init /\ [][Next]_vars

-----------------------------------------------------------------------------
\* A wide pair is an atom through writes, moves, scrolls and clears: a lead has
\* its tail beside it and a tail its lead (section 5.3).
Whole(p) ==
    \A r \in RowIds, c \in ColIds :
        /\ p.cells[<<r, c>>].part = "lead" =>
              c + 1 \in ColIds /\ p.cells[<<r, c + 1>>].part = "tail"
        /\ p.cells[<<r, c>>].part = "tail" =>
              c > 0 /\ p.cells[<<r, c - 1>>].part = "lead"
PairsWhole == Whole(plane)

\* The list of records and the cells agree: a record stands where its base
\* stands, with its width, and a cell has at most one.
Matching(p) ==
    \A i \in DOMAIN p.recs :
        LET x == p.recs[i]
            cell == p.cells[<<x.row, x.col>>]
        IN  /\ RecordAt(p, x.row, x.col) = i
            /\ cell.glyph = Base[x.text]
            /\ cell.part = IF Width[x.text] = 2 THEN "lead" ELSE "whole"
RecordsMatchCells == Matching(plane)

\* Cells, records and cursor are one screen, whatever was written over what.
PlaneSound == TypeOK /\ PairsWhole /\ RecordsMatchCells

\* The table of errors (section 8) knows E_COL_RANGE for writes with wrapping
\* off only.  With wrapping on, the line end and the move of a run end in it
\* halfway only if the run went on behind the cursor.
WrapFailsOnlyInside == [][
    plane.wrap /\ plane'.status = "E_COL_RANGE" =>
        \E i \in DOMAIN plane.recs :
            LET x == plane.recs[i]
            IN  x.row = plane.row /\ x.col + Width[x.text] > plane.col]_vars

\* A row that changed without becoming dirty is one that a run was moved away
\* from, downwards; every other change is repainted by the next flush, and by
\* the retry of a flush that failed.
OnlyMovesGoStale == [][
    \A r \in stale' \ stale :
        \/ RowDirty(r)'
        \/ r = plane.row /\ plane'.row = r + 1
    ]_vars

\* A failed flush, or the emission of a row, leaves every row dirty that the
\* sink did not get.
RetryCovers == [][
    \A r \in stale' \cap stale : RowDirty(r) => RowDirty(r)']_vars

=============================================================================
