----------------------------- MODULE TextInput ------------------------------
(***************************************************************************)
(* The System Text Input Model (SUAS-019, src/suas/suas_stim.c): an input  *)
(* context that turns key events into text through an ordered layout, with *)
(* one pending dead key, a composition table and all-or-nothing emission   *)
(* into a buffer of the caller.                                            *)
(*                                                                         *)
(* Codepoints are members of Chars; Width gives the bytes of their SUTF-8  *)
(* form, which is all that the emission looks at.  text is the             *)
(* concatenation of everything the context has emitted: the code keeps no  *)
(* such history, its caller does.                                          *)
(***************************************************************************)
EXTENDS Naturals, SequencesExt

CONSTANTS
    Keys, Modifiers,    \* keycodes and modifier bits
    Reserved,           \* modifier bits outside STIM_MOD_ALL
    Chars, NoChar,      \* codepoints; NoChar stands for has_pending = false
    Inadmissible,       \* codepoints that must not be emitted (section 8)
    Width,              \* stim_utf8_len
    Bindings,           \* the requests made to layout_bind
    Overwrites,         \* what the caller writes into a layout without a call
    Compositions,       \* the requests made to layout_compose
    MaxSequence,        \* STIM_MAX_SEQUENCE
    BindingCap, CompositionCap,     \* after the clamp; storage of 0 is NULL
    Caps,               \* sizes of the caller's buffers
    MaxEvents           \* bound on the events of a context

ASSUME TextInputAssumption ==
    /\ NoChar \notin Chars
    /\ Inadmissible \subseteq Chars
    /\ Width \in [Chars -> 1..6]
    /\ Bindings \subseteq [key : Keys, required : SUBSET (Modifiers \cup Reserved),
            forbidden : SUBSET (Modifiers \cup Reserved),
            kind : {"TEXT", "DEAD"}, cps : Seq(Chars)]
    /\ Overwrites \subseteq Bindings
    /\ Compositions \subseteq [pending : Chars, next : Chars, result : Chars]
    /\ Caps \subseteq Nat /\ MaxEvents \in Nat
    /\ MaxSequence \in Nat \ {0}
    /\ BindingCap \in Nat /\ CompositionCap \in Nat

Actions == {"PRESS", "RELEASE", "REPEAT"}

VARIABLES
    bindings, compositions,     \* stim_layout_t
    pending, events, emitted,   \* stim_state_t
    written,                    \* whether the caller wrote into the layout itself
    status,                     \* what the last call returned
    text                        \* everything emitted so far

layoutVars == <<bindings, compositions>>
stateVars == <<pending, events, emitted>>
vars == <<bindings, compositions, pending, events, emitted, written, status, text>>

TypeOK ==
    /\ bindings \in Seq(Bindings) /\ Len(bindings) <= BindingCap
    /\ compositions \in Seq(Compositions)
    /\ Len(compositions) <= CompositionCap
    /\ pending \in Chars \cup {NoChar}
    /\ events \in 0..MaxEvents
    /\ emitted \in 0..MaxEvents
    /\ status \in {"OK", "E_BINDING", "E_FULL", "E_CAPACITY", "E_INADMISSIBLE"}
    /\ written \in BOOLEAN
    /\ text \in Seq(Chars)

-----------------------------------------------------------------------------
\* The layout.

Admissible(c) == c \notin Inadmissible

\* suas_stim_layout_bind refuses the shape of a request ...
\* Slip: the length of the sequence is not compared with the array's.
WellFormed_Unbounded(b) ==
    /\ b.required \cap b.forbidden = {}
    /\ (b.required \cup b.forbidden) \cap Reserved = {}
    /\ Len(b.cps) > 0
    /\ b.kind = "DEAD" => Len(b.cps) = 1
WellFormed(b) ==
    /\ b.required \cap b.forbidden = {}
    /\ (b.required \cup b.forbidden) \cap Reserved = {}
    /\ Len(b.cps) \in 1..MaxSequence
    /\ b.kind = "DEAD" => Len(b.cps) = 1

SameTrigger(a, b) ==
    a.key = b.key /\ a.required = b.required /\ a.forbidden = b.forbidden

BindingsFull == Len(bindings) >= BindingCap

\* ... its codepoints, a layout that is full, and a trigger that is bound.
BindStatus(b) ==
    IF BindingCap = 0 THEN "E_FULL"
    ELSE IF ~WellFormed(b) THEN "E_BINDING"
    ELSE IF \E i \in DOMAIN b.cps : ~Admissible(b.cps[i]) THEN "E_INADMISSIBLE"
    ELSE IF BindingsFull THEN "E_FULL"
    ELSE IF \E i \in DOMAIN bindings : SameTrigger(bindings[i], b)
         THEN "E_BINDING"
    ELSE "OK"

\* Slip: a new binding is placed in front.
WithBinding_First(b) == <<b>> \o bindings
WithBinding(b) == Append(bindings, b)

Bind(b) ==
    /\ status' = BindStatus(b)
    /\ bindings' = IF status' = "OK" THEN WithBinding(b) ELSE bindings
    /\ UNCHANGED <<compositions, stateVars, written, text>>

FoldAdmissible(f) ==
    Admissible(f.pending) /\ Admissible(f.next) /\ Admissible(f.result)

FoldKnown(f) == \E i \in DOMAIN compositions :
    compositions[i].pending = f.pending /\ compositions[i].next = f.next

ComposeStatus(f) ==
    IF ~FoldAdmissible(f) THEN "E_INADMISSIBLE"
    ELSE IF Len(compositions) >= CompositionCap THEN "E_FULL"
    ELSE IF FoldKnown(f) THEN "E_BINDING"
    ELSE "OK"

Compose(f) ==
    /\ status' = ComposeStatus(f)
    /\ compositions' = IF status' = "OK" THEN Append(compositions, f)
                       ELSE compositions
    /\ UNCHANGED <<bindings, stateVars, written, text>>

\* The layout is storage of the caller, who may write other codepoints into a
\* binding without any test.
Overwrite(i, b) ==
    /\ SameTrigger(bindings[i], b) /\ bindings[i].kind = b.kind
    /\ WellFormed(b)
    /\ bindings' = [bindings EXCEPT ![i] = b]
    /\ written' = TRUE
    /\ UNCHANGED <<compositions, stateVars, status, text>>

-----------------------------------------------------------------------------
\* What an event produces.

Fits(b, e) ==
    /\ b.key = e.key
    /\ b.required \subseteq e.modifiers
    /\ b.forbidden \cap e.modifiers = {}

\* stim_find_binding: the bindings an event selects, the first one only.
Selected(e) == {i \in DOMAIN bindings :
    /\ Fits(bindings[i], e)
    /\ \A j \in 1..(i - 1) : ~Fits(bindings[j], e)}

\* stim_find_composition
Results(p, c) == {compositions[i].result : i \in
    {k \in DOMAIN compositions :
        compositions[k].pending = p /\ compositions[k].next = c}}

\* The pending dead key as its spacing form.
Spacing == IF pending = NoChar THEN <<>> ELSE <<pending>>

TextOf(s) ==
    IF Results(pending, s[1]) = {} THEN Spacing \o s
    ELSE <<CHOOSE c \in Results(pending, s[1]) : TRUE>> \o Tail(s)

Bytes(s) == FoldLeft(LAMBDA n, c : n + Width[c], 0, s)

-----------------------------------------------------------------------------
\* Events.

\* stim_emit: nothing or all of it, whatever the codepoints are.
Emit(s, cap) ==
    /\ status' = IF Bytes(s) <= cap THEN "OK" ELSE "E_CAPACITY"
    /\ text' = IF status' = "OK" THEN text \o s ELSE text
    /\ emitted' = IF status' = "OK" /\ s # <<>> THEN emitted + 1 ELSE emitted
    /\ UNCHANGED written

\* suas_stim_feed counts every event with a known action before it looks at it.
Counted == events < MaxEvents /\ events' = events + 1

\* A release, or a key without a binding.
FeedIgnored(e) ==
    /\ e.action = "RELEASE" \/ Selected(e) = {}
    /\ Counted
    /\ status' = "OK"
    /\ UNCHANGED <<layoutVars, pending, emitted, written, text>>

\* Slip: the new dead key takes over before the old one is written.
HoldDead_Early(c) == pending' = c
HoldDead(c) == pending' = IF status' = "OK" THEN c ELSE pending

FeedDead(e, cap) ==
    /\ e.action # "RELEASE"
    /\ \E i \in Selected(e) :
          /\ bindings[i].kind = "DEAD"
          /\ Emit(Spacing, cap)
          /\ HoldDead(bindings[i].cps[1])
    /\ Counted
    /\ UNCHANGED layoutVars

Consumed == pending' = IF status' = "OK" THEN NoChar ELSE pending

FeedText(e, cap) ==
    /\ e.action # "RELEASE"
    /\ \E i \in Selected(e) :
          /\ bindings[i].kind = "TEXT"
          /\ Emit(TextOf(bindings[i].cps), cap)
          /\ Consumed
    /\ Counted
    /\ UNCHANGED layoutVars

\* suas_stim_flush
Flush(cap) ==
    /\ Emit(Spacing, cap)
    /\ Consumed
    /\ UNCHANGED <<layoutVars, events>>

\* suas_stim_reset
Reset ==
    /\ pending' = NoChar
    /\ UNCHANGED <<layoutVars, events, emitted, written, status, text>>

-----------------------------------------------------------------------------
\* suas_stim_layout_init and suas_stim_init.
Init ==
    /\ bindings = <<>> /\ compositions = <<>>
    /\ pending = NoChar /\ events = 0 /\ emitted = 0
    /\ written = FALSE
    /\ status = "OK"
    /\ text = <<>>

Events == [key : Keys, modifiers : SUBSET Modifiers, action : Actions]

Next ==
    \/ \E b \in Bindings : Bind(b)
    \/ \E f \in Compositions : Compose(f)
    \/ \E i \in DOMAIN bindings, b \in Overwrites : Overwrite(i, b)
    \/ \E e \in Events, cap \in Caps :
          FeedIgnored(e) \/ FeedDead(e, cap) \/ FeedText(e, cap)
    \/ \E cap \in Caps : Flush(cap)
    \/ Reset

Spec == Init /\ [][Next]_vars

-----------------------------------------------------------------------------
\* The context is the stream of text its caller reads: buffers that are too
\* small, and the retries they cause, change neither the text nor the pending
\* dead key; every dead key is folded, written or dropped by reset.
Stream == INSTANCE TextStream WITH
    held <- pending, folds <- ToSet(compositions), Foldings <- Compositions,
    Words <- {b.cps : b \in {c \in Bindings : c.kind = "TEXT" /\ c.cps # <<>>}}
RefinesTextStream == Stream!Spec

\* What bind and compose admitted is all that is ever emitted, and a dead key or
\* a folding lets nothing else in.  It is so only as long as the caller does not
\* write into the layout: SUAS-019 (section 8 and C8) asks for a second test at
\* emission for that very case, and stim_emit has none.
Clean(c) == written \/ Admissible(c)
EmitsAdmissible == \A i \in DOMAIN text : Clean(text[i])

\* Every emission is paid for by an event of its own: a dead key that waits has
\* one in hand, so no sequence of flushes, retries and letters writes it twice.
EmissionsPaid ==
    emitted <= events /\ (pending # NoChar => emitted < events)

\* What any event or flush could emit next fits in the array that feed builds
\* it in, of one element more than the longest binding (seq in suas_stim_feed).
FitsScratch ==
    \A i \in DOMAIN bindings : Len(TextOf(bindings[i].cps)) <= MaxSequence + 1

\* What a context holds, has emitted and may emit next, in any order of calls.
ContextSound == TypeOK /\ EmitsAdmissible /\ EmissionsPaid /\ FitsScratch

\* What a layout offered before a call it offers after it: an event that
\* selects a binding still does, and a pair that composes keeps its result.
OffersKept ==
    /\ \A e \in Events : \A i \in Selected(e) :
          i \in Selected(e)' /\ bindings'[i] = bindings[i]
    /\ \A p, c \in Chars : Results(p, c) # {} => Results(p, c)' = Results(p, c)

\* A layout may grow while a context uses it, and no call takes back an offer; the
\* caller who writes into it may.
Rewritten == \E i \in DOMAIN bindings, b \in Overwrites : Overwrite(i, b)
LayoutGrowsBehind ==
    [][layoutVars' = layoutVars \/ OffersKept \/ Rewritten]_vars

=============================================================================
