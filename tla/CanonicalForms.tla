----------------------------- MODULE CanonicalForms -----------------------------
(***************************************************************************)
(* SUCF, the canonical forms of a text (suas/suas_sucf.c): an engine that  *)
(* is fed codepoints one by one, takes them apart, holds back a starter    *)
(* and the marks behind it in a window sorted by combining class, and puts *)
(* starter and marks together again for the composed form.  Whatever is    *)
(* above the bridge passes by the window through a FIFO, the native        *)
(* codepoints with the controls.                                           *)
(*                                                                         *)
(* Codepoints are numbers; the two data tables are parameters.             *)
(***************************************************************************)
EXTENDS Integers, Sequences, SequencesExt, FiniteSetsExt

CONSTANTS
  Codepoints,     \* what texts are made of
  Decomposition,  \* SUCF_DECOMP_TABLE: <<d1>> or <<d1, d2>> of a codepoint
  Class,          \* SUCF_CCC_TABLE: the class of a mark
  Tailored,       \* the classes a caller overrides
  Window,         \* SUCF_WINDOW
  Depth,          \* SUCF_INVAR_DEPTH
  Rooms,          \* capacities of the caller's buffer
  MaxText         \* bound: codepoints of a text

ScpMin == 1114112            \* 0x110000; all above is SCP, native, plugin or trap
NativeMin == 1179648         \* 0x120000
Sentinel == 2147483647
HangulBase == 44032
HangulEnd == 55203

(* sucf_absorb asks for no more than this: a native codepoint, which is a  *)
(* starter of class 0 to suas_sucf_ccc, to its test and to SUAS-004, 5.1,  *)
(* is held like a control here, and does not end a sequence of marks.      *)
IsControl(cp) == cp >= ScpMin
IsHangul(cp) == cp \in HangulBase .. HangulEnd

(* A row has one part or two.  Parts may have rows of their own: U+0391,   *)
(* U+1E9B and U+212B do.  But nothing is put together from three: what is  *)
(* made of two parts without rows opens no pair.                           *)
ASSUME FormsAssumption ==
  /\ Window \in Nat \ {0} /\ Depth \in Nat \ {0} /\ MaxText \in Nat
  /\ Codepoints \subseteq Nat /\ Rooms \subseteq Nat
  /\ \A cp \in DOMAIN Decomposition :
       /\ cp \in 1 .. ScpMin - 1 /\ ~IsHangul(cp)
       /\ Decomposition[cp] \in Seq(1 .. ScpMin - 1) /\ Len(Decomposition[cp]) \in 1 .. 2
       /\ \A i \in DOMAIN Decomposition[cp] : ~IsHangul(Decomposition[cp][i])

ASSUME PairsAssumption ==
  \A cp, base \in DOMAIN Decomposition :
    Len(Decomposition[cp]) = 2 /\ Decomposition[cp][1] = base =>
      \/ Len(Decomposition[base]) = 1
      \/ \E i \in DOMAIN Decomposition[base] : Decomposition[base][i] \in DOMAIN Decomposition

Forms == {"C", "D"}

VARIABLES engine,   \* the state of the engine and the caller's buffer
          text,     \* what it was fed since the last start
          ended     \* the text was flushed

vars == <<engine, text, ended>>

Start(form, room) ==
  [form |-> form, starter |-> Sentinel, win |-> <<>>, inv |-> <<>>, seeded |-> FALSE,
   room |-> room, out |-> <<>>, ok |-> TRUE]

--------------------------------------------------------------------------------
(* Properties of a codepoint. *)
Ccc(cp) ==
  IF cp \in DOMAIN Tailored THEN Tailored[cp]
  ELSE IF cp < NativeMin /\ cp \in DOMAIN Class THEN Class[cp]
  ELSE 0

HangulParts(cp) ==
  LET s == cp - HangulBase
      t == s % 28
      lv == s \div 28
  IN <<4352 + (lv \div 21), 4449 + (lv % 21)>> \o (IF t = 0 THEN <<>> ELSE <<4519 + t>>)

(* Classes are numbers, and no caller gives one to a syllable or to its    *)
(* jamo, which have no row either: they compose by arithmetic.             *)
Jamo == (4352 .. 4370) \cup (4449 .. 4469) \cup (4520 .. 4546)

ASSUME ClassAssumption ==
  /\ \A cp \in DOMAIN Class : Class[cp] \in Int
  /\ \A cp \in DOMAIN Tailored : Tailored[cp] \in Int
  /\ \A cp \in (HangulBase .. HangulEnd) \cup Jamo :
       Ccc(cp) = 0 /\ cp \notin DOMAIN Decomposition

DecomposeOne(cp) ==
  IF IsHangul(cp) THEN HangulParts(cp)
  ELSE IF cp \in DOMAIN Decomposition THEN Decomposition[cp]
  ELSE <<cp>>

(* 0 where nothing composes. *)
ComposePair(base, mark) ==
  LET rows == {cp \in DOMAIN Decomposition : Decomposition[cp] = <<base, mark>>}
  IN IF rows = {} THEN 0 ELSE Min(rows)

ComposeHangul(a, b) ==
  IF a \in 4352 .. 4370 /\ b \in 4449 .. 4469
    THEN HangulBase + (a - 4352) * 588 + (b - 4449) * 28
  ELSE IF IsHangul(a) /\ (a - HangulBase) % 28 = 0 /\ b \in 4520 .. 4546
    THEN a + (b - 4519)
  ELSE 0

--------------------------------------------------------------------------------
(* The engine.  A call writes to out until the caller's buffer is full;    *)
(* then it returns where it stands, and of the engine nothing can be used  *)
(* but its initialiser.                                                    *)
Cut(e) ==
  IF Len(e.out) <= e.room THEN e
  ELSE [e EXCEPT !.out = SubSeq(@, 1, e.room), !.ok = FALSE]

FlushInv(e) == [e EXCEPT !.out = @ \o e.inv, !.inv = <<>>]

(* The starter after i marks were put into it, or 0. *)
Merged(e) ==
  LET base[i \in 0 .. Len(e.win)] ==
        IF i = 0 THEN e.starter
        ELSE IF e.form = "D" \/ base[i - 1] = 0 THEN 0
        ELSE ComposePair(base[i - 1], e.win[i])
  IN base

Sequence(e) ==
  LET base == Merged(e)
      k == Max({0} \cup {i \in DOMAIN e.win : base[i] # 0})
  IN (IF e.starter = Sentinel THEN <<>> ELSE <<base[k]>>) \o SubSeq(e.win, k + 1, Len(e.win))

Finalize(e) ==
  [e EXCEPT !.out = @ \o Sequence(e) \o e.inv, !.win = <<>>, !.inv = <<>>, !.starter = Sentinel]

(* Slip: a mark is also moved before those of its own class. *)
Insert_Unstable(win, cp) ==
  LET behind == Max({0} \cup {i \in DOMAIN win : Ccc(win[i]) < Ccc(cp)})
  IN SubSeq(win, 1, behind) \o <<cp>> \o SubSeq(win, behind + 1, Len(win))

(* A mark moves before the marks of a greater class at the end. *)
Insert(win, cp) ==
  LET behind == Max({0} \cup {i \in DOMAIN win : Ccc(win[i]) <= Ccc(cp)})
  IN SubSeq(win, 1, behind) \o <<cp>> \o SubSeq(win, behind + 1, Len(win))

(* Slip: a full FIFO makes room by letting the newcomer out. *)
Hold_PassBy(e, cp) ==
  IF Len(e.inv) < Depth THEN [e EXCEPT !.inv = Append(@, cp)]
  ELSE [e EXCEPT !.out = Append(@, cp)]

Hold(e, cp) ==
  IF Len(e.inv) < Depth THEN [e EXCEPT !.inv = Append(@, cp)]
  ELSE [e EXCEPT !.out = Append(@, Head(e.inv)), !.inv = Append(Tail(@), cp)]

NewStarter(e, cp) ==
  LET syllable == IF e.form = "C" /\ e.win = <<>> /\ e.starter # Sentinel
                    THEN ComposeHangul(e.starter, cp) ELSE 0
  IN IF syllable # 0 THEN [e EXCEPT !.starter = syllable]
     ELSE [Finalize(e) EXCEPT !.starter = cp]

(* Slip: the mark that finds the window full opens a sequence as a starter. *)
NewMark_Reseeds(e, cp) ==
  IF Len(e.win) < Window THEN [e EXCEPT !.win = Insert(@, cp)]
  ELSE [Finalize(e) EXCEPT !.starter = cp]

NewMark(e, cp) ==
  IF Len(e.win) < Window THEN [e EXCEPT !.win = Insert(@, cp)]
  ELSE [Finalize(e) EXCEPT !.win = <<cp>>]

Absorb(e, cp) ==
  CASE IsControl(cp) -> Hold(e, cp)
    [] ~IsControl(cp) /\ ~e.seeded -> [FlushInv(e) EXCEPT !.seeded = TRUE, !.starter = cp]
    [] ~IsControl(cp) /\ e.seeded /\ Ccc(cp) = 0 -> NewStarter(e, cp)
    [] ~IsControl(cp) /\ e.seeded /\ Ccc(cp) # 0 -> NewMark(e, cp)

(* A codepoint has at most three parts, which are absorbed one by one. *)
Process(e, cp) ==
  LET parts == IF IsControl(cp) \/ (IsHangul(cp) /\ e.form = "C") THEN <<cp>>
               ELSE DecomposeOne(cp)
      one == {Absorb(e, parts[1])}
      two == IF Len(parts) < 2 THEN one ELSE {Absorb(d, parts[2]) : d \in one}
      all == IF Len(parts) < 3 THEN two ELSE {Absorb(d, parts[3]) : d \in two}
  IN CHOOSE d \in all : TRUE

FlushText(e) == IF e.seeded THEN [Finalize(e) EXCEPT !.seeded = FALSE] ELSE FlushInv(e)

(* What the bulk call writes when its buffer is large enough; it refuses a *)
(* buffer shorter than the text at once.                                   *)
Transform(form, s) ==
  LET fed[i \in 0 .. Len(s)] == IF i = 0 THEN Start(form, 0) ELSE Process(fed[i - 1], s[i])
  IN CHOOSE out \in {FlushText(e).out : e \in {fed[Len(s)]}} : TRUE

(* Slip: the class of the mark before is not remembered. *)
QuickStep_Forgets(form, q, cp) ==
  CASE IsControl(cp) -> q
    [] ~IsControl(cp) /\ (IsHangul(cp) \/ cp \in DOMAIN Decomposition) ->
         [starter |-> cp, prev |-> 0, yes |-> q.yes /\ form = "C" /\ Len(DecomposeOne(cp)) > 1]
    [] ~IsControl(cp) /\ ~IsHangul(cp) /\ cp \notin DOMAIN Decomposition ->
         IF Ccc(cp) = 0 THEN [q EXCEPT !.starter = cp, !.prev = 0]
         ELSE [q EXCEPT !.yes = @ /\ q.prev <= Ccc(cp)
                                  /\ ~(form = "C" /\ q.starter # 0
                                         /\ ComposePair(q.starter, cp) # 0)]

QuickStep(form, q, cp) ==
  CASE IsControl(cp) -> q
    [] ~IsControl(cp) /\ (IsHangul(cp) \/ cp \in DOMAIN Decomposition) ->
         [starter |-> cp, prev |-> 0, yes |-> q.yes /\ form = "C" /\ Len(DecomposeOne(cp)) > 1]
    [] ~IsControl(cp) /\ ~IsHangul(cp) /\ cp \notin DOMAIN Decomposition ->
         IF Ccc(cp) = 0 THEN [q EXCEPT !.starter = cp, !.prev = 0]
         ELSE [q EXCEPT !.prev = Ccc(cp),
                        !.yes = @ /\ q.prev <= Ccc(cp)
                                  /\ ~(form = "C" /\ q.starter # 0
                                         /\ ComposePair(q.starter, cp) # 0)]

(* YES: the transform may be skipped. *)
QuickYes(form, s) ==
  LET seen[i \in 0 .. Len(s)] ==
        IF i = 0 THEN [starter |-> 0, prev |-> -1, yes |-> TRUE] ELSE QuickStep(form, seen[i - 1], s[i])
  IN seen[Len(s)].yes

--------------------------------------------------------------------------------
Init ==
  /\ \E form \in Forms, room \in Rooms : engine = Start(form, room)
  /\ text = <<>>
  /\ ended = FALSE

Feed(cp) ==
  /\ ~ended /\ engine.ok /\ Len(text) < MaxText
  /\ engine' = Cut(Process(engine, cp))
  /\ text' = Append(text, cp)
  /\ UNCHANGED ended

Flush ==
  /\ ~ended /\ engine.ok
  /\ engine' = Cut(FlushText(engine))
  /\ ended' = engine'.ok
  /\ UNCHANGED text

(* The caller reads its buffer and starts another text, after an end or a  *)
(* failure; after an end it may go on with the state as flush left it.     *)
StateInit ==
  /\ ended \/ ~engine.ok
  /\ \E form \in Forms, room \in Rooms : engine' = Start(form, room)
  /\ text' = <<>>
  /\ ended' = FALSE

GoOn ==
  /\ ended
  /\ \E room \in Rooms : engine' = [engine EXCEPT !.out = <<>>, !.room = room]
  /\ text' = <<>>
  /\ ended' = FALSE

Next == (\E cp \in Codepoints : Feed(cp)) \/ Flush \/ StateInit \/ GoOn

Spec == Init /\ [][Next]_vars

--------------------------------------------------------------------------------
(* The forms, defined on whole texts. *)
Plain(s) == FlattenSeq([i \in DOMAIN s |-> IF IsControl(s[i]) THEN <<>> ELSE <<s[i]>>])
Controls(s) == FlattenSeq([i \in DOMAIN s |-> IF IsControl(s[i]) THEN <<s[i]>> ELSE <<>>])
Parted(s) == FlattenSeq([i \in DOMAIN s |-> DecomposeOne(s[i])])

(* A text is simple when a part of a codepoint is never parted again: the  *)
(* engine looks a row up once (suas_sucf_decompose_one).                   *)
PartsOnce(cp) == \A i \in DOMAIN DecomposeOne(cp) : DecomposeOne(cp)[i] \notin DOMAIN Decomposition
Simple(s) == \A i \in DOMAIN s : PartsOnce(s[i])

(* The sequence a codepoint of a parted text belongs to begins at a        *)
(* starter, or at the head of the text; its marks are taken in portions of *)
(* a window.                                                               *)
HeadOf(u, i) == Max({j \in 1 .. i : j = 1 \/ Ccc(u[j]) = 0})
Portion(u, i) ==
  LET h == HeadOf(u, i) IN <<h, IF i = h THEN -1 ELSE (i - h - 1) \div Window>>

(* Within a portion marks stand by class, marks of a class as they came. *)
Precedes(u, i, j) ==
  IF Portion(u, i) = Portion(u, j)
    THEN Ccc(u[i]) < Ccc(u[j]) \/ (Ccc(u[i]) = Ccc(u[j]) /\ i < j)
    ELSE i < j

Canon(u) ==
  LET place == [i \in DOMAIN u |-> 1 + Cardinality({j \in DOMAIN u : Precedes(u, j, i)})]
  IN [k \in DOMAIN u |-> u[CHOOSE i \in DOMAIN u : place[i] = k]]

Held == (IF engine.starter = Sentinel THEN <<>> ELSE <<engine.starter>>) \o engine.win

(* In both forms what was written and what is held back of a simple text   *)
(* are, once parted, the canonical decomposition of what was read (SUAS-   *)
(* 004, 3.3 and 5.4); a full buffer cuts it, and nothing else.  Controls   *)
(* and native codepoints do not count: marks are sorted, and compose,      *)
(* across them.  Of native codepoints SUAS-004, 5.1 says the contrary:     *)
(* that they are starters, and neither combine nor reorder against marks.  *)
Canonical ==
  Simple(text) =>
    LET whole == Canon(Parted(Plain(text)))
    IN IF engine.ok THEN Parted(Plain(engine.out) \o Held) = whole
       ELSE IsPrefix(Parted(Plain(engine.out)), whole)

StartersBefore(s, k) ==
  Cardinality({i \in DOMAIN s : /\ ~IsControl(s[i]) /\ Ccc(s[i]) = 0
                                /\ Len(Controls(SubSeq(s, 1, i))) < k})

(* The controls that follow the same starter as the k-th. *)
Company(s, k) ==
  Cardinality({c \in DOMAIN Controls(s) : StartersBefore(s, c) = StartersBefore(s, k)})

(* Controls, and native codepoints with them, pass unchanged and in order. *)
(* In the decomposed form each stays behind the starter it followed and    *)
(* before the next, unless more follow one starter than the FIFO holds;    *)
(* even then it is let out no earlier than right before that starter.      *)
(* Among the marks between two starters it has no place: a mark read after *)
(* a native codepoint is written before it, though SUAS-004, 5.1 makes     *)
(* that codepoint the starter of the mark.                                 *)
ControlsPass ==
  LET parted == Parted(text)
      passed == Controls(engine.out)
  IN engine.ok =>
       /\ passed \o engine.inv = Controls(text)
       /\ engine.form = "D" => \A k \in DOMAIN passed :
            LET before == StartersBefore(parted, k)
                now == StartersBefore(engine.out, k)
            IN now = before \/ (now = before - 1 /\ Company(parted, k) > Depth)

(* A finished simple text is its own form: both targets are normal forms   *)
(* (SUAS-004, 4, ED5 and ED6).  Where more controls follow a starter than  *)
(* the FIFO holds, they move on with every pass.                           *)
NormalForm ==
  ended /\ Simple(text) =>
    LET again == Transform(engine.form, engine.out)
    IN /\ Plain(again) = Plain(engine.out)
       /\ (\A k \in DOMAIN Controls(engine.out) : Company(engine.out, k) <= Depth) =>
            again = engine.out

(* Skipping a text on the quick check's word leaves it in the decomposed   *)
(* form (SUAS-004, 5.5), up to the places of its controls.                 *)
SkipIsSafe ==
  ended /\ QuickYes("D", text) =>
    Plain(Transform("D", text)) = Plain(text)
================================================================================
