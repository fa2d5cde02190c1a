------------------------------ MODULE Terminal ------------------------------
(***************************************************************************)
(* The System Console Terminal Emulation (SUTS-012, src/suts/suts_scte.c): *)
(* a byte-stream parser that drives the plane of Console.                  *)
(*                                                                         *)
(* A byte is a string that names it.  Feeding one maps a record of the     *)
(* terminal s.t and its plane s.p to the next such record, as              *)
(* suts_scte_feed does byte by byte, and tells in s.e what the byte did:   *)
(* which of the counters it moved, if any.  A call of suts_scte_feed hands *)
(* over one of Chunks: whole sequences, or pieces of them, since a client  *)
(* may split a sequence over calls, stop in the middle, or share the       *)
(* terminal with another client.                                           *)
(***************************************************************************)
EXTENDS Console, SequencesExt

CONSTANTS
    Chunks,         \* what one call of suts_scte_feed is given
    Unfinished,     \* what a client may leave behind when it stops
    Probes,         \* sequences that another one then sends
    Letter,         \* Letter[b]: the cluster of a printable byte
    LeadLength,     \* LeadLength[b]: bytes of a SUTF-8 sequence that b leads
    Conts,          \* continuation bytes
    Decode,         \* Decode[carry]: a cluster, or "SCP", "inadmissible" or
                    \* "malformed"
    MaxParams,      \* SCTE_MAX_PARAMS
    MaxParamValue,  \* SCTE_MAX_PARAM_VALUE
    MaxOsc,         \* SCTE_MAX_OSC
    AutowrapMode, CursorMode,   \* 7 and 25
    SgrStyle        \* SgrStyle[v][style]: the style that parameter v selects

Digits == [b \in {"0", "1", "2"} |->
              CASE b = "0" -> 0 [] b = "1" -> 1 [] OTHER -> 2]
C0 == {"NUL", "BEL", "BS", "HT", "LF", "CR", "ESC"}  \* NUL: all ignored ones
Separators == {";", ":"}
Privates == {"?", ">"}
OtherParamBytes == {"<", "="}
Intermediates == {"!", " "}
Finals == {"A", "B", "C", "D", "E", "F", "G", "H", "f", "J", "K", "L", "M",
           "P", "@", "S", "T", "m", "h", "l", "c", "q", "[", "]", "\\"}

\* Whole sequences of SUTF-8, by their lead.
Encoded(b) == {s \in [1 .. LeadLength[b] -> {b} \cup Conts] :
                  s[1] = b /\ \A i \in 2 .. LeadLength[b] : s[i] \in Conts}

\* A sequence that has not been ended: what began with ESC, and lacks the final
\* byte of a control sequence or the terminator of an OSC string.
ParamBytes == DOMAIN Digits \cup Separators \cup Privates \cup OtherParamBytes
              \cup Intermediates
Unended(u) ==
    /\ u # <<>> /\ u[1] = "ESC"
    /\ Len(u) > 1 =>
          \/ u[2] = "[" /\ \A i \in 3 .. Len(u) : u[i] \in ParamBytes
          \/ u[2] = "]" /\ \A i \in 3 .. Len(u) : u[i] \notin {"BEL", "\\"}

ASSUME TerminalAssumption ==
    /\ MaxParams \in Nat \ {0} /\ MaxParamValue \in Nat /\ MaxOsc \in Nat
    /\ AutowrapMode # CursorMode
    /\ SgrStyle \in [0 .. MaxParamValue -> [Styles -> Styles]]
    /\ \A b \in DOMAIN Letter : Letter[b] \in Clusters /\ b \notin C0
    /\ \A b \in DOMAIN LeadLength : b \notin C0 \cup DOMAIN Letter
    /\ \A b \in DOMAIN LeadLength : LeadLength[b] \in Nat \ {0, 1}
    /\ \A b \in DOMAIN LeadLength : \A s \in Encoded(b) :
          Decode[s] \in Clusters \cup {"SCP", "inadmissible", "malformed"}
    /\ Clusters \cap {"SCP", "inadmissible", "malformed"} = {}
    /\ Chunks \cup Probes \cup Unfinished \subseteq Seq(STRING)
    /\ \A u \in Unfinished : Unended(u)

Missing == -1       \* SCTE_PARAM_MISSING; as cur, have_param is false
None == "none"      \* no prefix, no intermediate

VARIABLES
    term,   \* scte_term_t
    cut     \* history: a sequence that disturbs the cells was executed

termVars == <<plane, stale, term, cut>>

ParamValues == 0 .. MaxParamValue \cup {Missing}

TermTypeOK ==
    /\ TypeOK
    /\ term.state \in {"GROUND", "ESC", "CSI", "OSC", "OSC_ESC"}
    /\ term.carry = <<>> \/ Len(term.carry) < LeadLength[term.carry[1]]
    /\ term.params \in Seq(ParamValues) /\ Len(term.params) <= MaxParams
    /\ term.cur \in ParamValues
    /\ term.prefix \in {None, "!"} \cup Privates
    /\ term.intermediate \in {None} \cup Intermediates
    /\ term.overflow \in BOOLEAN
    /\ term.savedRow \in RowIds /\ term.savedCol \in 0 .. Cols
    /\ term.visible \in BOOLEAN
    /\ term.osc \in 0 .. MaxOsc /\ term.oscOverflow \in BOOLEAN
    /\ cut \in BOOLEAN

-----------------------------------------------------------------------------
\* Operations on the cells that the plane does not have.

\* The cell that scte_cell finds: a column behind the last one is the first
\* cell of the next row.
CellIndex(r, c) == IF c < Cols THEN <<r, c>> ELSE <<r + 1, 0>>

\* scte_blank_cell.  Behind the last cell of the plane lies memory that is not
\* its own, and reads as the half of a pair or not.
\* Slip: the other half of a wide pair stays.
BlankedCell_Half(p, r, c, beyond) ==
    SetBlanks(WithoutRecord(p, r, c), {CellIndex(r, c)})
BlankedCell(p, r, c, beyond) ==
    LET q == CellIndex(r, c)
        part == IF q \in DOMAIN p.cells THEN p.cells[q].part ELSE beyond
        d == IF part = "tail" /\ c > 0 THEN c - 1    \* the other half, if any
             ELSE IF part = "lead" /\ c + 1 < Cols THEN c + 1 ELSE c
    IN  SetBlanks(WithoutRecord(WithoutRecord(p, r, c), r, d), {q, <<r, d>>})

\* Blank the columns from a to b of a row, or rows, in their order.
Erased(p, r, a, b, beyond) ==
    LET upTo[i \in 0 .. b - a + 1] ==
          IF i = 0 THEN p ELSE BlankedCell(upTo[i - 1], r, a + i - 1, beyond)
    IN  upTo[b - a + 1]

ErasedRows(p, a, b, beyond) ==
    LET upTo[i \in 0 .. b - a + 1] ==
          IF i = 0 THEN p ELSE Erased(upTo[i - 1], a + i - 1, 0, Cols - 1, beyond)
    IN  upTo[b - a + 1]

\* Rows that take the content of other rows: from[r] is the row whose content
\* goes to r, or -1 for a blank row.
RowsFrom(p, from) ==
    LET kept == Picked(p.recs, {i \in DOMAIN p.recs :
                                    \E r \in RowIds : from[r] = p.recs[i].row})
    IN  [p EXCEPT
            !.cells = [q \in DOMAIN @ |-> IF from[q[1]] = -1 THEN BlankCell(p)
                                          ELSE @[from[q[1]], q[2]]],
            !.recs = [i \in DOMAIN kept |-> [kept[i] EXCEPT
                         !.row = CHOOSE r \in RowIds : from[r] = kept[i].row]],
            !.dirtyAll = TRUE,
            !.dirty = {}]

\* scte_rows_down and scte_rows_up.
RowsDown(p, top, n) ==
    IF n = 0 THEN p
    ELSE RowsFrom(p, [r \in RowIds |->
            IF r < top THEN r ELSE IF r < top + n THEN -1 ELSE r - n])
RowsUp(p, top, n) ==
    IF n = 0 THEN p
    ELSE RowsFrom(p, [r \in RowIds |->
            IF r < top THEN r ELSE IF r + n < Rows THEN r + n ELSE -1])

\* A row whose cells behind a column take the content of other columns; its
\* records are dropped.  Slip: the plane is not marked dirty.
RowCellsFrom_Clean(p, r, from) ==
    [p EXCEPT
        !.cells = [q \in DOMAIN @ |->
            IF q[1] # r THEN @[q]
            ELSE IF from[q[2]] = -1 THEN BlankCell(p) ELSE @[r, from[q[2]]]],
        !.recs = Picked(@, {i \in DOMAIN @ : @[i].row # r})]
RowCellsFrom(p, r, from) ==
    [p EXCEPT
        !.cells = [q \in DOMAIN @ |->
            IF q[1] # r THEN @[q]
            ELSE IF from[q[2]] = -1 THEN BlankCell(p) ELSE @[r, from[q[2]]]],
        !.recs = Picked(@, {i \in DOMAIN @ : @[i].row # r}),
        !.dirtyAll = TRUE]

\* scte_insert_cells and scte_delete_cells, at the cursor.
CellsInserted(p, n) ==
    IF p.col >= Cols \/ n = 0 THEN p
    ELSE RowCellsFrom(p, p.row, [c \in ColIds |->
            IF c < p.col THEN c ELSE IF c < p.col + n THEN -1 ELSE c - n])
CellsDeleted(p, n) ==
    IF p.col >= Cols \/ n = 0 THEN p
    ELSE RowCellsFrom(p, p.row, [c \in ColIds |->
            IF c < p.col THEN c ELSE IF c + n < Cols THEN c + n ELSE -1])

-----------------------------------------------------------------------------
\* Parameters.

\* scte_csi_reset
CsiReset(t) ==
    [t EXCEPT !.params = <<>>, !.cur = Missing, !.prefix = None,
              !.intermediate = None, !.overflow = FALSE]

\* scte_parser_reset, which is suts_scte_reset.
ParserReset(t) ==
    [CsiReset(t) EXCEPT !.carry = <<>>, !.osc = 0, !.oscOverflow = FALSE,
                        !.state = "GROUND"]

\* scte_param_digit
DigitAdded(t, d) ==
    IF t.overflow THEN t
    ELSE IF Len(t.params) >= MaxParams THEN [t EXCEPT !.overflow = TRUE]
    ELSE LET v == IF t.cur = Missing THEN 0 ELSE t.cur
         IN  [t EXCEPT !.cur = IF v > (MaxParamValue - d) \div 10
                               THEN MaxParamValue ELSE v * 10 + d]

\* scte_param_push
Pushed(t) ==
    IF t.overflow THEN t
    ELSE IF Len(t.params) >= MaxParams THEN [t EXCEPT !.overflow = TRUE]
    ELSE [t EXCEPT !.params = Append(@, t.cur), !.cur = Missing]

\* scte_param
Param(t, i, default) ==
    IF i > Len(t.params) \/ t.params[i] = Missing THEN default ELSE t.params[i]

HasParams(t) == t.cur # Missing \/ t.params # <<>>

\* Nothing of the sequence has been read: a private prefix may follow.
Fresh(t) == t.prefix = None /\ t.intermediate = None /\ ~HasParams(t)

-----------------------------------------------------------------------------
\* Effects.

\* What a call of the plane leaves behind: its status belongs to its caller.
Answered(p) == [p EXCEPT !.status = "OK"]

\* scte_control, which does not look at the status of a tab.  ESC leaves the
\* parameters of the sequence it interrupts.
ControlEffect(p, b) ==
    CASE b = "BS" -> SteppedBack(p)
      [] b = "HT" -> Answered(Tabbed(p))
      [] b = "LF" -> Newline(p)
      [] b = "CR" -> Returned(p)
      [] OTHER -> p

Control(s, b) ==
    [s EXCEPT !.p = ControlEffect(@, b), !.e = "control",
              !.t.state = IF b = "ESC" THEN "ESC" ELSE @]

AtMost(n, m) == IF n > m THEN m ELSE n
AtLeastZero(n) == IF n < 0 THEN 0 ELSE n
ToRow(p, r) == [p EXCEPT !.row = AtMost(AtLeastZero(r), Rows - 1)]
ToCol(p, c) == [p EXCEPT !.col = AtMost(AtLeastZero(c), Cols - 1)]

\* scte_erase_line and scte_erase_display.
EraseLine(p, mode, beyond) ==
    LET q == CASE mode = 0 -> Erased(p, p.row, p.col, Cols - 1, beyond)
               [] mode = 1 -> Erased(p, p.row, 0, p.col, beyond)
               [] mode = 2 -> Erased(p, p.row, 0, Cols - 1, beyond)
               [] OTHER -> p
    IN  [q EXCEPT !.dirtyAll = TRUE]

EraseDisplay(p, mode, beyond) ==
    LET q == CASE mode = 0 ->
                    ErasedRows(EraseLine(p, 0, beyond), p.row + 1, Rows - 1, beyond)
               [] mode = 1 ->
                    EraseLine(ErasedRows(p, 0, p.row - 1, beyond), 1, beyond)
               [] mode \in {2, 3} -> ErasedRows(p, 0, Rows - 1, beyond)
               [] OTHER -> p
    IN  [q EXCEPT !.dirtyAll = TRUE]

\* scte_sgr
Styled(p, t) ==
    LET upTo[i \in 0 .. Len(t.params)] ==
          IF i = 0 THEN p.style ELSE SgrStyle[Param(t, i, 0)][upTo[i - 1]]
    IN  [p EXCEPT !.style = IF t.params = <<>> THEN SgrStyle[0][@]
                            ELSE upTo[Len(t.params)]]

\* SU: the cursor stays where it was.
ScrolledUp(p, n) == [Scroll(p, n) EXCEPT !.row = p.row, !.col = p.col]

\* The switch of scte_execute_csi.
SequenceEffect(p, t, b, beyond) ==
    LET n == Param(t, 1, 1)
    IN  CASE b = "A" -> [p EXCEPT !.row = AtLeastZero(@ - n)]
          [] b = "B" -> ToRow(p, p.row + n)
          [] b = "C" -> ToCol(p, p.col + n)
          [] b = "D" -> [p EXCEPT !.col = AtLeastZero(@ - n)]
          [] b = "E" -> Returned(ToRow(p, p.row + n))
          [] b = "F" -> Returned([p EXCEPT !.row = AtLeastZero(@ - n)])
          [] b = "G" -> ToCol(p, n - 1)
          [] b \in {"H", "f"} -> ToCol(ToRow(p, n - 1), Param(t, 2, 1) - 1)
          [] b = "J" -> EraseDisplay(p, Param(t, 1, 0), beyond)
          [] b = "K" -> EraseLine(p, Param(t, 1, 0), beyond)
          [] b = "L" -> RowsDown(p, p.row, n)
          [] b = "M" -> RowsUp(p, p.row, n)
          [] b = "P" -> CellsDeleted(p, n)
          [] b = "@" -> CellsInserted(p, n)
          [] b = "S" -> ScrolledUp(p, n)
          [] b = "T" -> RowsDown(p, 0, n)
          [] b = "m" -> Styled(p, t)

Executable == {"A", "B", "C", "D", "E", "F", "G", "H", "f", "J", "K", "L",
               "M", "P", "@", "S", "T", "m"}

\* scte_mode, for the prefix it knows: what it knows of the list takes effect.
SetModes(s, on) ==
    LET values == {Param(s.t, i, 0) : i \in DOMAIN s.t.params}
    IN  [s EXCEPT
            !.p.wrap = IF AutowrapMode \in values THEN on ELSE @,
            !.t.visible = IF CursorMode \in values THEN on ELSE @,
            !.e = IF values # {} /\ values \subseteq {AutowrapMode, CursorMode}
                  THEN "mode" ELSE "unsupported"]

\* Moving cells within a row takes no care of pairs, and an erase up to a
\* cursor behind the last column goes on in the next row.
Disturbs(p, t, b) ==
    \/ b \in {"P", "@"}
    \/ b \in {"J", "K"} /\ Param(t, 1, 0) = 1 /\ p.col = Cols

Executed(s, b) ==
    [s EXCEPT !.p = SequenceEffect(@, s.t, b, s.beyond), !.e = "sequence",
              !.cut = @ \/ Disturbs(s.p, s.t, b)]

\* scte_execute_csi.  The intermediate byte plays no part.
\* Slip: a sequence over the ceilings is executed with what fitted.
ExecuteCsi_Always(s, b) ==
    IF s.t.prefix = "?" /\ b \in {"h", "l"} THEN SetModes(s, b = "h")
    ELSE IF s.t.prefix = None /\ b \in Executable THEN Executed(s, b)
    ELSE [s EXCEPT !.e = "unsupported"]
ExecuteCsi(s, b) ==
    IF s.t.overflow THEN [s EXCEPT !.e = "unsupported"]
    ELSE IF s.t.prefix = "?" /\ b \in {"h", "l"} THEN SetModes(s, b = "h")
    ELSE IF s.t.prefix = None /\ b \in Executable THEN Executed(s, b)
    ELSE [s EXCEPT !.e = "unsupported"]

-----------------------------------------------------------------------------
\* The states of the parser.

Quiet(s, t) == [s EXCEPT !.t = t, !.e = "quiet"]
Grounded(s) == [s EXCEPT !.t.state = "GROUND"]

\* scte_csi_byte; its three states do nothing different from each other.
CsiByte(s, b) ==
    CASE b \in C0 -> Control(s, b)
      [] b \in Privates \cup {"!"} /\ Fresh(s.t) ->
            Quiet(s, [s.t EXCEPT !.prefix = b])
      [] b \in OtherParamBytes \cup (IF Fresh(s.t) THEN {} ELSE Privates) ->
            Quiet(s, [s.t EXCEPT !.overflow = TRUE])
      [] b \in DOMAIN Digits -> Quiet(s, DigitAdded(s.t, Digits[b]))
      [] b \in Separators -> Quiet(s, Pushed(s.t))
      [] b \in Intermediates /\ ~(b = "!" /\ Fresh(s.t)) ->
            Quiet(s, IF s.t.intermediate = None
                     THEN [s.t EXCEPT !.intermediate = b]
                     ELSE [s.t EXCEPT !.overflow = TRUE])
      [] b \in Finals ->
            LET t == IF HasParams(s.t) THEN Pushed(s.t) ELSE s.t
            IN  Grounded([ExecuteCsi([s EXCEPT !.t = t], b) EXCEPT !.t = CsiReset(@)])
      [] OTHER -> Grounded([s EXCEPT !.t = CsiReset(@), !.e = "unsupported"])

\* RI: in the first row the plane scrolls down instead.
ReverseIndex(p) ==
    IF p.row > 0 THEN [p EXCEPT !.row = @ - 1] ELSE RowsDown(p, 0, 1)

\* scte_esc_dispatch.  Slip: a sequence begins with what the last one left.
CsiBegun_Kept(t) == [t EXCEPT !.state = "CSI"]
CsiBegun(t) == [CsiReset(t) EXCEPT !.state = "CSI"]
OscBegun(t) == [t EXCEPT !.osc = 0, !.oscOverflow = FALSE, !.state = "OSC"]

EscByte(s, b) ==
    CASE b = "[" -> Quiet(s, CsiBegun(s.t))
      [] b = "]" -> Quiet(s, OscBegun(s.t))
      [] b = "\\" -> Quiet(Grounded(s), [s.t EXCEPT !.state = "GROUND"])
      [] b = "ESC" -> Quiet(s, s.t)
      [] b \in C0 \ {"ESC"} -> Control(s, b)
      [] b = "7" -> Grounded([s EXCEPT !.t.savedRow = s.p.row,
                                       !.t.savedCol = s.p.col, !.e = "escape"])
      [] b = "8" -> Grounded([s EXCEPT !.e = "escape",
                        !.p = ToCol(ToRow(@, s.t.savedRow), s.t.savedCol)])
      [] b = "D" -> Grounded([s EXCEPT !.p = Newline(@), !.e = "escape"])
      [] b = "E" -> Grounded([s EXCEPT !.p = Newline(Returned(@)), !.e = "escape"])
      [] b = "M" -> Grounded([s EXCEPT !.p = ReverseIndex(@), !.e = "escape"])
      [] b = "c" -> [s EXCEPT !.p = Cleaned(@), !.t = ParserReset(@), !.e = "escape"]
      [] OTHER -> Grounded([s EXCEPT !.e = "unsupported"])

\* The end of an OSC string: oversized ones are counted.
OscEnded(s) ==
    [s EXCEPT !.t = [@ EXCEPT !.osc = 0, !.oscOverflow = FALSE, !.state = "GROUND"],
              !.e = IF s.t.oscOverflow THEN "unsupported" ELSE "quiet"]

\* scte_osc_byte and scte_osc_esc_byte.
OscByte(s, b) ==
    CASE b = "BEL" -> OscEnded(s)
      [] b = "ESC" -> Quiet(s, [s.t EXCEPT !.state = "OSC_ESC"])
      [] OTHER -> Quiet(s, IF s.t.osc < MaxOsc THEN [s.t EXCEPT !.osc = @ + 1]
                           ELSE [s.t EXCEPT !.oscOverflow = TRUE])

OscEscByte(s, b) ==
    IF b = "\\" THEN OscEnded(s) ELSE OscByte([s EXCEPT !.t.state = "OSC"], b)

\* scte_place_cp.  A codepoint that is not placed is counted; its status is that
\* of one call of the plane and says nothing to the next one.
Placed(s, q) ==
    IF q.status = "OK" THEN [s EXCEPT !.p = [q EXCEPT !.writes = @ + 1], !.e = "text"]
    ELSE [s EXCEPT !.p = Answered(q), !.e = "unsupported"]

PlaceCp(s, k) ==
    CASE k = "SCP" -> [s EXCEPT !.e = "directive"]
      [] k = "inadmissible" -> [s EXCEPT !.e = "unsupported"]
      [] OTHER -> Placed(s, IF Width[k] = 0 THEN [s.p EXCEPT !.status = "E_CLUSTER"]
                            ELSE PlaceOrWrap(s.p, k))

\* scte_ground_byte.  A byte that does not continue the carry is lost with it.
EncodingError(s) == [s EXCEPT !.t.carry = <<>>, !.e = "encoding_error"]

GroundByte(s, b) ==
    LET carry == Append(s.t.carry, b)
        whole == Len(carry) = LeadLength[carry[1]]
        done == [s EXCEPT !.t.carry = <<>>]
    IN  IF s.t.carry = <<>>
        THEN CASE b \in C0 -> Control(s, b)
               [] b \in DOMAIN Letter -> PlaceCp(s, Letter[b])
               [] b \in DOMAIN LeadLength -> Quiet(s, [s.t EXCEPT !.carry = <<b>>])
               [] OTHER -> EncodingError(s)
        ELSE CASE b \notin Conts -> EncodingError(s)
               [] b \in Conts /\ ~whole -> Quiet(s, [s.t EXCEPT !.carry = carry])
               [] OTHER -> IF Decode[carry] = "malformed" THEN EncodingError(s)
                           ELSE PlaceCp(done, Decode[carry])

\* One round of the loop of suts_scte_feed.
Fed(s, b) ==
    CASE s.t.state = "GROUND" -> GroundByte(s, b)
      [] s.t.state = "ESC" -> EscByte(s, b)
      [] s.t.state = "CSI" -> CsiByte(s, b)
      [] s.t.state = "OSC" -> OscByte(s, b)
      [] s.t.state = "OSC_ESC" -> OscEscByte(s, b)

-----------------------------------------------------------------------------
\* suts_scte_init over a new plane.
TermInit ==
    /\ \E s \in Styles, w \in WrapOptions : plane = NewPlane(s, w)
    /\ stale = RowIds /\ cut = FALSE
    /\ term = [state |-> "GROUND", carry |-> <<>>, params |-> <<>>,
               cur |-> Missing, prefix |-> None, intermediate |-> None,
               overflow |-> FALSE, savedRow |-> 0, savedCol |-> 0,
               visible |-> TRUE, osc |-> 0, oscOverflow |-> FALSE]

Current(beyond) ==
    [t |-> term, p |-> Called, e |-> "none", beyond |-> beyond, cut |-> cut]

\* Where the cell behind the cursor may be behind the plane.
Behind == IF plane.row = Rows - 1 THEN {"whole", "tail"} ELSE {"whole"}

\* suts_scte_feed, byte by byte: an encoding error ends it, and the rest of the
\* buffer is never read.
FedOn(x, b) == IF x.e = "encoding_error" THEN x ELSE Fed(x, b)
Stages(s, bytes) ==
    LET after[i \in 0 .. Len(bytes)] ==
          IF i = 0 THEN s ELSE FedOn(after[i - 1], bytes[i])
    IN  after
FedAll(s, bytes) == Stages(s, bytes)[Len(bytes)]

Feed(bytes) ==
    \E beyond \in Behind :
        LET s == FedAll(Current(beyond), bytes)
        IN  /\ s.p.writes <= MaxWrites
            /\ plane' = s.p /\ term' = s.t /\ cut' = s.cut
            /\ UNCHANGED stale     \* no sink: every row is still to be shown

\* suts_scte_reset
Reset == term' = ParserReset(term) /\ UNCHANGED <<plane, stale, cut>>

TermNext == (\E bytes \in Chunks : Feed(bytes)) \/ Reset

TermSpec == TermInit /\ [][TermNext]_termVars

-----------------------------------------------------------------------------
\* What the terminal does to the plane leaves its pairs whole and its records
\* on their cells, until a sequence is executed that is known to disturb them:
\* ICH, DCH, or an erase up to a cursor that waits to wrap.
PlaneKept == TermTypeOK /\ (cut \/ (PairsWhole /\ RecordsMatchCells))

\* What a call leads to from here; the memory behind the plane plays no part.
After(bytes) == FedAll(Current("whole"), bytes)
SamePlane(p, q) == [p EXCEPT !.status = "OK"] = [q EXCEPT !.status = "OK"]
Abandoned == IF term.carry = <<>> THEN {After(u) : u \in Unfinished} ELSE {}

\* Before its last byte a sequence has no effect, and one that is over a
\* ceiling, or is counted as unsupported, has none at all but for the modes it
\* may have set (C2, C7, C8 and C13 of the standard).
NoPartialEffect ==
    \A before \in Abandoned :
        /\ SamePlane(before.p, plane)
        /\ before.t.state = "CSI" => \A s \in {Fed(before, b) : b \in Finals} :
              before.t.overflow \/ s.e = "unsupported" =>
                  SamePlane(plane, [s.p EXCEPT !.wrap = plane.wrap])

\* Whatever a client left unfinished, ESC \ ends it without touching the
\* plane, and a sequence after it does what it does after suts_scte_reset.
Terminator == <<"ESC", "\\">>
SameOutcome(x, y) == x.p = y.p /\ x.e = y.e /\ x.t.visible = y.t.visible
Resynchronises ==
    \A before \in Abandoned : \A s \in {FedAll(before, Terminator)} :
        /\ s.t.state = "GROUND" /\ s.p = before.p
        /\ \A i \in Probes, fresh \in {[s EXCEPT !.t = ParserReset(before.t)]} :
              SameOutcome(FedAll(s, i), FedAll(fresh, i))

\* Whatever a byte changes on a plane that was flushed before the call is
\* repainted by the next flush, but for the row that a run is moved away from,
\* and no later byte takes that back.
Flushed == [Current("whole") EXCEPT !.p.dirty = {}, !.p.dirtyAll = FALSE]
Repainted(p, r) == p.dirtyAll \/ r \in p.dirty
ShownBy(p, q) ==
    \A r \in RowIds :
        /\ Repainted(p, r) => Repainted(q, r)
        /\ r \in Changed(p, q) => Repainted(q, r) \/ (r = p.row /\ q.row = r + 1)
ChangesShown ==
    \A bytes \in Chunks : \A after \in {Stages(Flushed, bytes)} :
        \A i \in DOMAIN bytes : ShownBy(after[i - 1].p, after[i].p)

\* Section 6.3.2: EL erases in the line of the cursor.
EraseStaysInLine ==
    term.state = "GROUND" /\ term.carry = <<>> => \A mode \in DOMAIN Digits :
        \A q \in DOMAIN plane.cells : q[1] # plane.row =>
            After(<<"ESC", "[", mode, "K">>).p.cells[q] = plane.cells[q]
=============================================================================
