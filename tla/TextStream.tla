----------------------------- MODULE TextStream -----------------------------
(***************************************************************************)
(* What an input context promises the application that reads its text:     *)
(* every stroke that is accepted adds exactly its own text, an accent that *)
(* is held is folded into the next text, delivered before it or dropped on *)
(* request, and nothing that was delivered is ever taken back.  Buffers,   *)
(* their sizes and the retries of the caller do not appear.                *)
(***************************************************************************)
EXTENDS Sequences

CONSTANTS
    Chars, NoChar,
    Words,      \* the texts that a stroke may stand for
    Foldings    \* the foldings that may be learned: records as in folds

VARIABLES
    text,       \* everything delivered so far
    held,       \* the accent that waits for its letter, or NoChar
    folds       \* the known foldings: records [pending, next, result]

streamVars == <<text, held, folds>>

Init == text = <<>> /\ held = NoChar /\ folds = {}

Waiting == IF held = NoChar THEN <<>> ELSE <<held>>

Folded(s) == {f \in folds : f.pending = held /\ f.next = Head(s)}

Accent(c) ==
    /\ text' = text \o Waiting
    /\ held' = c
    /\ UNCHANGED folds

Letters(s) ==
    /\ \/ \E f \in Folded(s) : text' = text \o <<f.result>> \o Tail(s)
       \/ Folded(s) = {} /\ text' = text \o Waiting \o s
    /\ held' = NoChar
    /\ UNCHANGED folds

Settle == text' = text \o Waiting /\ held' = NoChar /\ UNCHANGED folds

Drop == held' = NoChar /\ UNCHANGED <<text, folds>>

\* A folding is learned once: the pair it is about has no other.
LearnFold(f) ==
    /\ \A g \in folds : g.pending # f.pending \/ g.next # f.next
    /\ folds' = folds \cup {f}
    /\ UNCHANGED <<text, held>>

Next ==
    \/ \E c \in Chars : Accent(c)
    \/ \E s \in Words : Letters(s)
    \/ \E f \in Foldings : LearnFold(f)
    \/ Settle
    \/ Drop

Spec == Init /\ [][Next]_streamVars
=============================================================================
