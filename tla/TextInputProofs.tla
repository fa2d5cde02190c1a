-------------------------- MODULE TextInputProofs ---------------------------
(***************************************************************************)
(* Theorems about the input context, for any keys, codepoints, requests,   *)
(* capacities and buffer sizes.                                            *)
(***************************************************************************)
EXTENDS TextInput, SequenceTheorems, TLAPS

\* Whatever the layout can contribute to a text may be emitted, or the caller has
\* written into it.
LayoutAdmissible ==
    /\ \A i \in DOMAIN bindings : \A j \in DOMAIN bindings[i].cps :
          Clean(bindings[i].cps[j])
    /\ \A i \in DOMAIN compositions : Clean(compositions[i].result)
    /\ pending # NoChar => Clean(pending)

\* A binding has the shape that layout_bind admitted.
LayoutWellFormed == \A i \in DOMAIN bindings : WellFormed(bindings[i])

IInv ==
    /\ TypeOK /\ EmissionsPaid
    /\ LayoutAdmissible /\ LayoutWellFormed /\ EmitsAdmissible

-----------------------------------------------------------------------------
\* The sequences that an event or a flush hands to stim_emit are made of
\* codepoints of the layout, so they are admissible.
AdmissibleText(s) ==
    s \in Seq(Chars) /\ \A i \in DOMAIN s : Clean(s[i])

LEMMA ConcatAdmissible ==
    ASSUME NEW s, NEW t, AdmissibleText(s), AdmissibleText(t)
    PROVE  AdmissibleText(s \o t) /\ Len(s \o t) = Len(s) + Len(t)
<1>1. /\ s \o t \in Seq(Chars)
      /\ Len(s \o t) = Len(s) + Len(t)
      /\ \A i \in 1 .. Len(s) + Len(t) :
            (s \o t)[i] = IF i <= Len(s) THEN s[i] ELSE t[i - Len(s)]
  BY ConcatProperties DEF AdmissibleText
<1>2. \A i \in 1 .. Len(s) + Len(t) : Clean((s \o t)[i])
  BY <1>1 DEF AdmissibleText
<1>3. QED
  BY <1>1, <1>2 DEF AdmissibleText

LEMMA SpacingProperties ==
    ASSUME TypeOK, LayoutAdmissible
    PROVE  /\ AdmissibleText(Spacing)
           /\ Len(Spacing) = IF pending = NoChar THEN 0 ELSE 1
<1>1. CASE pending = NoChar
  BY <1>1 DEF Spacing, AdmissibleText
<1>2. CASE pending # NoChar
  BY <1>2 DEF Spacing, TypeOK, LayoutAdmissible, AdmissibleText
<1>3. QED
  BY <1>1, <1>2

LEMMA TextProperties ==
    ASSUME TypeOK, LayoutAdmissible, LayoutWellFormed,
           NEW i \in DOMAIN bindings
    PROVE  LET s == bindings[i].cps IN
           /\ s \in Seq(Chars) /\ s # <<>>
           /\ AdmissibleText(TextOf(s)) /\ TextOf(s) # <<>>
<1> DEFINE s == bindings[i].cps
           c == CHOOSE d \in Results(pending, s[1]) : TRUE
<1>1. AdmissibleText(s) /\ Len(s) \in Nat \ {0}
  BY TextInputAssumption
  DEF TypeOK, LayoutWellFormed, WellFormed, LayoutAdmissible, AdmissibleText
<1>2. CASE Results(pending, s[1]) = {}
  <2>1. TextOf(s) = Spacing \o s
    BY <1>2 DEF TextOf
  <2>2. AdmissibleText(Spacing) /\ Len(Spacing) \in Nat
    BY SpacingProperties
  <2>3. AdmissibleText(Spacing \o s) /\ Len(Spacing \o s) # 0
    BY <1>1, <2>2, ConcatAdmissible
  <2>4. QED
    BY <1>1, <2>1, <2>3 DEF AdmissibleText
<1>3. CASE Results(pending, s[1]) # {}
  <2>1. c \in Chars /\ Clean(c)
    <3>1. c \in Results(pending, s[1])
      BY <1>3
    <3>2. QED
      <4>1. PICK k \in DOMAIN compositions : compositions[k].result = c
        BY <3>1 DEF Results
      <4>2. compositions[k] \in Compositions
        BY DEF TypeOK
      <4>3. QED
        BY <4>1, <4>2, TextInputAssumption DEF LayoutAdmissible
  <2>2. TextOf(s) = <<c>> \o Tail(s)
    BY <1>3 DEF TextOf
  <2> HIDE DEF c
  <2>3. AdmissibleText(Tail(s)) /\ Len(Tail(s)) \in Nat
    <3>1. /\ Tail(s) \in Seq(Chars) /\ Len(Tail(s)) = Len(s) - 1
          /\ \A k \in 1 .. Len(Tail(s)) : Tail(s)[k] = s[k + 1]
      BY <1>1, HeadTailProperties DEF AdmissibleText
    <3>2. \A k \in 1 .. Len(Tail(s)) : k + 1 \in DOMAIN s
      BY <1>1, <3>1 DEF AdmissibleText
    <3>3. DOMAIN Tail(s) = 1 .. Len(Tail(s))
      BY <3>1
    <3>4. QED
      BY <1>1, <3>1, <3>2, <3>3 DEF AdmissibleText
  <2>4. AdmissibleText(<<c>>) /\ Len(<<c>>) = 1
    BY <2>1 DEF AdmissibleText
  <2>5. AdmissibleText(<<c>> \o Tail(s)) /\ Len(<<c>> \o Tail(s)) # 0
    BY <2>3, <2>4, ConcatAdmissible
  <2>6. QED
    BY <1>1, <2>2, <2>5 DEF AdmissibleText
<1>4. QED
  BY <1>2, <1>3

\* What stim_emit does with such a sequence.
LEMMA EmitProperties ==
    ASSUME TypeOK, EmitsAdmissible,
           NEW s, NEW cap \in Caps, Emit(s, cap), AdmissibleText(s)
    PROVE  /\ text' \in Seq(Chars) /\ written' = written
           /\ EmitsAdmissible'
           /\ status' \in {"OK", "E_CAPACITY"}
           /\ emitted' \in {emitted, emitted + 1}
           /\ s = <<>> => emitted' = emitted
           /\ status' # "OK" => emitted' = emitted /\ text' = text
           /\ status' = "OK" => text' = text \o s
<1>1. /\ status' \in {"OK", "E_CAPACITY"} /\ written' = written
      /\ emitted' \in {emitted, emitted + 1}
      /\ s = <<>> => emitted' = emitted
      /\ status' # "OK" => emitted' = emitted /\ text' = text
      /\ status' = "OK" => text' = text \o s
  BY DEF Emit
<1>2. AdmissibleText(text)
  BY DEF TypeOK, EmitsAdmissible, AdmissibleText
<1>3. AdmissibleText(text')
  BY <1>1, <1>2, ConcatAdmissible
<1>4. QED
  <2>1. EmitsAdmissible'
    BY <1>1, <1>3 DEF AdmissibleText, EmitsAdmissible, Clean, Admissible
  <2>2. text' \in Seq(Chars)
    BY <1>3 DEF AdmissibleText
  <2>3. QED
    BY <1>1, <2>1, <2>2

-----------------------------------------------------------------------------
\* The invariant is inductive: one lemma per operation.
LEMMA InitEstablishes == Init => IInv
<1> SUFFICES ASSUME Init PROVE IInv
  OBVIOUS
<1>1. TypeOK
  <2>1. /\ BindingCap \in Nat /\ CompositionCap \in Nat /\ MaxEvents \in Nat
    BY TextInputAssumption
  <2>2. /\ bindings \in Seq(Bindings) /\ Len(bindings) = 0
        /\ compositions \in Seq(Compositions) /\ Len(compositions) = 0
    BY EmptySeq DEF Init
  <2>3. text \in Seq(Chars)
    BY EmptySeq DEF Init
  <2>4. /\ pending = NoChar /\ events = 0 /\ emitted = 0
        /\ status = "OK" /\ written = FALSE
    BY DEF Init
  <2>5. Len(bindings) <= BindingCap /\ Len(compositions) <= CompositionCap
        /\ events \in 0..MaxEvents /\ emitted \in 0..MaxEvents
    BY <2>1, <2>2, <2>4
  <2>6. QED
    BY <2>2, <2>3, <2>4, <2>5, Zenon DEF TypeOK
<1>2. EmissionsPaid
  BY DEF EmissionsPaid, Init
<1>3. LayoutAdmissible /\ LayoutWellFormed /\ EmitsAdmissible
  BY DEF LayoutAdmissible, LayoutWellFormed, EmitsAdmissible, Init
<1>4. QED
  BY <1>1, <1>2, <1>3 DEF IInv

LEMMA BindKeeps ==
    ASSUME IInv, NEW b \in Bindings, Bind(b)
    PROVE  IInv'
<1> USE DEF IInv
<1>1. CASE status' # "OK"
  <2>1. UNCHANGED <<bindings, compositions, pending, events, emitted, written, text>>
    BY <1>1 DEF Bind, stateVars
  <2>2. status' \in {"E_BINDING", "E_FULL", "E_INADMISSIBLE"}
    BY <1>1 DEF Bind, BindStatus
  <2>3. QED
    BY <2>1, <2>2 DEF TypeOK, EmissionsPaid, LayoutAdmissible,
        LayoutWellFormed, EmitsAdmissible, Clean, Admissible, WellFormed
<1>2. CASE status' = "OK"
  <2>1. /\ bindings' = Append(bindings, b)
        /\ UNCHANGED <<compositions, pending, events, emitted, written, text>>
    BY <1>2 DEF Bind, WithBinding, stateVars
  <2>2. /\ WellFormed(b) /\ Len(bindings) < BindingCap
        /\ \A j \in DOMAIN b.cps : Admissible(b.cps[j])
    BY <1>2, TextInputAssumption DEF Bind, BindStatus, BindingsFull, TypeOK
  <2>3. /\ bindings' \in Seq(Bindings) /\ Len(bindings') = Len(bindings) + 1
        /\ \A i \in DOMAIN bindings' : bindings'[i] =
              IF i \in DOMAIN bindings THEN bindings[i] ELSE b
    BY <2>1 DEF TypeOK
  <2>4. TypeOK'
    BY <1>2, <2>1, <2>2, <2>3, TextInputAssumption DEF TypeOK
  <2>5. LayoutWellFormed'
    BY <2>2, <2>3 DEF LayoutWellFormed, WellFormed
  <2>6. LayoutAdmissible'
    BY <2>1, <2>2, <2>3 DEF LayoutAdmissible, Clean, Admissible
  <2>7. QED
    BY <2>1, <2>4, <2>5, <2>6 DEF EmissionsPaid, EmitsAdmissible, Clean, Admissible
<1>3. QED
  BY <1>1, <1>2

LEMMA ComposeKeeps ==
    ASSUME IInv, NEW f \in Compositions, Compose(f)
    PROVE  IInv'
<1> USE DEF IInv
<1>1. CASE status' # "OK"
  <2>1. UNCHANGED <<bindings, compositions, pending, events, emitted, written, text>>
    BY <1>1 DEF Compose, stateVars
  <2>2. status' \in {"E_BINDING", "E_FULL", "E_INADMISSIBLE"}
    BY <1>1 DEF Compose, ComposeStatus
  <2>3. QED
    BY <2>1, <2>2 DEF TypeOK, EmissionsPaid, LayoutAdmissible,
        LayoutWellFormed, EmitsAdmissible, Clean, Admissible, WellFormed
<1>2. CASE status' = "OK"
  <2>1. /\ compositions' = Append(compositions, f)
        /\ UNCHANGED <<bindings, pending, events, emitted, written, text>>
    BY <1>2 DEF Compose, stateVars
  <2>2. Admissible(f.result) /\ Len(compositions) < CompositionCap
    BY <1>2, TextInputAssumption DEF Compose, ComposeStatus, FoldAdmissible, TypeOK
  <2>3. /\ compositions' \in Seq(Compositions)
        /\ Len(compositions') = Len(compositions) + 1
        /\ \A i \in DOMAIN compositions' : compositions'[i] =
              IF i \in DOMAIN compositions THEN compositions[i] ELSE f
    BY <2>1 DEF TypeOK
  <2>4. TypeOK'
    BY <1>2, <2>1, <2>2, <2>3, TextInputAssumption DEF TypeOK
  <2>5. LayoutAdmissible'
    BY <2>1, <2>2, <2>3 DEF LayoutAdmissible, Clean, Admissible
  <2>6. QED
    BY <2>1, <2>4, <2>5
    DEF EmissionsPaid, EmitsAdmissible, LayoutWellFormed, WellFormed, Clean, Admissible
<1>3. QED
  BY <1>1, <1>2

\* A call that leaves the layout alone and emits keeps the invariant when it
\* pays for a dead key that it takes or writes.
LEMMA EmittingKeeps ==
    ASSUME IInv, UNCHANGED layoutVars, UNCHANGED written,
           text' \in Seq(Chars), EmitsAdmissible',
           status' \in {"OK", "E_CAPACITY"},
           pending' \in Chars \cup {NoChar},
           pending' # NoChar => Clean(pending'),
           events' \in 0 .. MaxEvents, emitted' \in Nat, EmissionsPaid'
    PROVE  IInv'
<1>1. emitted' \in 0 .. MaxEvents
  BY TextInputAssumption DEF EmissionsPaid
<1>2. TypeOK'
  BY <1>1 DEF IInv, TypeOK, layoutVars
<1>3. LayoutAdmissible' /\ LayoutWellFormed'
  BY DEF IInv, LayoutAdmissible, LayoutWellFormed, WellFormed, Clean, Admissible, layoutVars
<1>4. QED
  BY <1>2, <1>3 DEF IInv

LEMMA FeedIgnoredKeeps ==
    ASSUME IInv, NEW e \in Events, FeedIgnored(e)
    PROVE  IInv'
<1>1. UNCHANGED <<layoutVars, pending, emitted, written, text>> /\ status' = "OK"
  BY DEF FeedIgnored
<1>2. events' = events + 1 /\ events' \in 0 .. MaxEvents
  BY TextInputAssumption DEF FeedIgnored, Counted, IInv, TypeOK
<1>3. EmissionsPaid'
  <2>1. emitted \in Nat /\ events \in Nat /\ EmissionsPaid
    BY DEF IInv, TypeOK
  <2>2. QED
    BY <1>1, <1>2, <2>1 DEF EmissionsPaid
<1>4. QED
  BY <1>1, <1>2, <1>3, EmittingKeeps
  DEF IInv, TypeOK, EmitsAdmissible, Clean, Admissible, LayoutAdmissible

LEMMA FeedDeadKeeps ==
    ASSUME IInv, NEW e \in Events, NEW cap \in Caps, FeedDead(e, cap)
    PROVE  IInv'
<1> USE DEF IInv
<1>1. PICK i \in Selected(e) :
          /\ bindings[i].kind = "DEAD"
          /\ Emit(Spacing, cap)
          /\ HoldDead(bindings[i].cps[1])
  BY DEF FeedDead
<1>2. events' = events + 1 /\ events' \in 0 .. MaxEvents /\ UNCHANGED layoutVars
  <2>1. Counted /\ UNCHANGED layoutVars
    BY DEF FeedDead
  <2>2. events \in 0 .. MaxEvents
    BY DEF TypeOK
  <2>3. MaxEvents \in Nat
    BY TextInputAssumption
  <2> HIDE DEF IInv
  <2> QED BY <2>1, <2>2, <2>3 DEF Counted
<1>3. i \in DOMAIN bindings /\ AdmissibleText(bindings[i].cps)
      /\ bindings[i].cps[1] \in Chars /\ Clean(bindings[i].cps[1])
  BY <1>1, TextInputAssumption
  DEF Selected, TypeOK, LayoutAdmissible, LayoutWellFormed, WellFormed, AdmissibleText
<1>4. AdmissibleText(Spacing) /\ Len(Spacing) = IF pending = NoChar THEN 0 ELSE 1
  BY SpacingProperties
<1>5. /\ text' \in Seq(Chars) /\ EmitsAdmissible' /\ written' = written
      /\ status' \in {"OK", "E_CAPACITY"}
      /\ emitted' \in {emitted, emitted + 1}
      /\ Spacing = <<>> => emitted' = emitted
      /\ status' # "OK" => emitted' = emitted
  BY <1>1, <1>4, EmitProperties
<1>6. /\ pending' \in Chars \cup {NoChar}
      /\ pending' # NoChar => Clean(pending')
      /\ status' # "OK" => pending' = pending
  BY <1>1, <1>3 DEF HoldDead, TypeOK, LayoutAdmissible, Clean
<1>7. EmissionsPaid'
  <2>1. emitted \in Nat /\ events \in Nat /\ EmissionsPaid
    BY DEF TypeOK
  <2>2. pending = NoChar => Spacing = <<>>
    BY DEF Spacing
  <2> HIDE DEF IInv
  <2>3. QED
    BY <1>2, <1>4, <1>5, <1>6, <2>1, <2>2 DEF EmissionsPaid
<1>8. emitted' \in Nat
  BY <1>5 DEF TypeOK
<1>9. QED
  BY <1>2, <1>5, <1>6, <1>7, <1>8, EmittingKeeps

LEMMA FeedTextKeeps ==
    ASSUME IInv, NEW e \in Events, NEW cap \in Caps, FeedText(e, cap)
    PROVE  IInv'
<1> USE DEF IInv
<1>1. PICK i \in Selected(e) :
          /\ bindings[i].kind = "TEXT"
          /\ Emit(TextOf(bindings[i].cps), cap)
          /\ Consumed
  BY DEF FeedText
<1>2. events' = events + 1 /\ events' \in 0 .. MaxEvents /\ UNCHANGED layoutVars
  <2>1. Counted /\ UNCHANGED layoutVars
    BY DEF FeedText
  <2>2. events \in 0 .. MaxEvents
    BY DEF TypeOK
  <2>3. MaxEvents \in Nat
    BY TextInputAssumption
  <2> HIDE DEF IInv
  <2> QED BY <2>1, <2>2, <2>3 DEF Counted
<1>3. AdmissibleText(TextOf(bindings[i].cps))
  BY <1>1, TextProperties DEF Selected
<1>4. /\ text' \in Seq(Chars) /\ EmitsAdmissible' /\ written' = written
      /\ status' \in {"OK", "E_CAPACITY"}
      /\ emitted' \in {emitted, emitted + 1}
      /\ status' # "OK" => emitted' = emitted
  BY <1>1, <1>3, EmitProperties
<1>5. pending' \in {pending, NoChar} /\ (status' # "OK" => pending' = pending)
      /\ (status' = "OK" => pending' = NoChar)
  BY <1>1 DEF Consumed
<1>6. EmissionsPaid'
  <2>1. emitted \in Nat /\ events \in Nat /\ EmissionsPaid
    BY DEF TypeOK
  <2> HIDE DEF IInv
  <2>2. QED
    BY <1>2, <1>4, <1>5, <2>1 DEF EmissionsPaid
<1>7. emitted' \in Nat
  BY <1>4 DEF TypeOK
<1>8. pending' \in Chars \cup {NoChar} /\ (pending' # NoChar => Clean(pending'))
  BY <1>4, <1>5 DEF TypeOK, LayoutAdmissible, Clean
<1>9. QED
  BY <1>2, <1>4, <1>6, <1>7, <1>8, EmittingKeeps

LEMMA FlushKeeps ==
    ASSUME IInv, NEW cap \in Caps, Flush(cap)
    PROVE  IInv'
<1> USE DEF IInv
<1>1. Emit(Spacing, cap) /\ Consumed /\ UNCHANGED <<layoutVars, events>>
  BY DEF Flush
<1>2. AdmissibleText(Spacing) /\ Len(Spacing) = IF pending = NoChar THEN 0 ELSE 1
  BY SpacingProperties
<1>3. /\ text' \in Seq(Chars) /\ EmitsAdmissible' /\ written' = written
      /\ status' \in {"OK", "E_CAPACITY"}
      /\ emitted' \in {emitted, emitted + 1}
      /\ Spacing = <<>> => emitted' = emitted
      /\ status' # "OK" => emitted' = emitted
  BY <1>1, <1>2, EmitProperties
<1>4. pending' = IF status' = "OK" THEN NoChar ELSE pending
  BY <1>1 DEF Consumed
<1>5. EmissionsPaid'
  <2>1. emitted \in Nat /\ events \in Nat /\ EmissionsPaid
    BY DEF TypeOK
  <2>2. pending = NoChar => Spacing = <<>>
    BY DEF Spacing
  <2> HIDE DEF IInv
  <2>3. QED
    BY <1>1, <1>2, <1>3, <1>4, <2>1, <2>2 DEF EmissionsPaid
<1>6. emitted' \in Nat /\ events' \in 0 .. MaxEvents /\ UNCHANGED layoutVars
  BY <1>1, <1>3 DEF TypeOK
<1>7. pending' \in Chars \cup {NoChar} /\ (pending' # NoChar => Clean(pending'))
  BY <1>3, <1>4 DEF TypeOK, LayoutAdmissible, Clean
<1>8. QED
  BY <1>3, <1>5, <1>6, <1>7, EmittingKeeps

LEMMA ResetKeeps ==
    ASSUME IInv, Reset
    PROVE  IInv'
<1> USE DEF IInv
<1>1. pending' = NoChar /\ UNCHANGED <<layoutVars, events, emitted, written, status, text>>
  BY DEF Reset
<1>2. QED
  BY <1>1 DEF TypeOK, EmissionsPaid, LayoutAdmissible,
      LayoutWellFormed, WellFormed, EmitsAdmissible, Clean, Admissible, layoutVars

\* What is written into a binding has its shape, and is not vouched for.
LEMMA OverwriteKeeps ==
    ASSUME IInv, NEW i \in DOMAIN bindings, NEW b \in Overwrites, Overwrite(i, b)
    PROVE  IInv'
<1>1. /\ bindings' = [bindings EXCEPT ![i] = b] /\ written' = TRUE
      /\ UNCHANGED <<compositions, pending, events, emitted, status, text>>
      /\ WellFormed(b) /\ b \in Bindings
  BY TextInputAssumption DEF Overwrite, stateVars
<1>2. /\ bindings' \in Seq(Bindings) /\ Len(bindings') = Len(bindings)
      /\ \A k \in DOMAIN bindings' :
            k \in DOMAIN bindings /\ bindings'[k] \in {bindings[k], b}
  BY <1>1 DEF IInv, TypeOK
<1>3. TypeOK' /\ EmissionsPaid'
  BY <1>1, <1>2 DEF IInv, TypeOK, EmissionsPaid
<1>4. LayoutWellFormed'
  BY <1>1, <1>2 DEF IInv, LayoutWellFormed, WellFormed
<1>5. LayoutAdmissible' /\ EmitsAdmissible'
  BY <1>1 DEF LayoutAdmissible, EmitsAdmissible, Clean
<1>6. QED
  BY <1>3, <1>4, <1>5 DEF IInv

LEMMA StepKeeps ==
    ASSUME IInv, [Next]_vars
    PROVE  IInv'
<1>1. CASE UNCHANGED vars
  BY <1>1 DEF vars, IInv, TypeOK, EmissionsPaid, LayoutAdmissible,
      LayoutWellFormed, WellFormed, EmitsAdmissible, Clean, Admissible
<1>2. CASE Next
  BY <1>2, BindKeeps, ComposeKeeps, FeedIgnoredKeeps, FeedDeadKeeps,
     FeedTextKeeps, FlushKeeps, ResetKeeps, OverwriteKeeps DEF Next
<1>3. QED
  BY <1>1, <1>2

\* At most the pending dead key comes in front of a binding's sequence.
LEMMA SequencesFit == IInv => FitsScratch
<1> SUFFICES ASSUME IInv, NEW i \in DOMAIN bindings
             PROVE  Len(TextOf(bindings[i].cps)) <= MaxSequence + 1
  BY DEF FitsScratch
<1> DEFINE s == bindings[i].cps
           c == CHOOSE d \in Results(pending, s[1]) : TRUE
<1>1. s \in Seq(Chars) /\ Len(s) \in 1 .. MaxSequence
  BY TextInputAssumption DEF IInv, TypeOK, LayoutWellFormed, WellFormed
<1>2. AdmissibleText(s)
  BY <1>1 DEF IInv, TypeOK, LayoutAdmissible, AdmissibleText
<1>3. TextOf(s) = IF Results(pending, s[1]) = {} THEN Spacing \o s ELSE <<c>> \o Tail(s)
  BY DEF TextOf
<1> HIDE DEF s, c
<1>4. Len(Spacing \o s) <= Len(s) + 1
  <2>1. AdmissibleText(Spacing) /\ Len(Spacing) \in 0 .. 1
    BY SpacingProperties DEF IInv
  <2>2. Len(Spacing \o s) = Len(Spacing) + Len(s)
    BY <1>2, <2>1, ConcatAdmissible
  <2>3. Len(s) \in Nat
    BY <1>1
  <2>4. \A m, n, k : m = n + k /\ n \in 0 .. 1 /\ k \in Nat => m <= k + 1
    OBVIOUS
  <2> QED BY <2>1, <2>2, <2>3, <2>4, Zenon
<1>5. Len(<<c>> \o Tail(s)) = Len(s)
  BY <1>1
<1>6. Len(TextOf(s)) <= Len(s) + 1
  BY <1>1, <1>3, <1>4, <1>5
<1>7. MaxSequence \in Nat
  BY TextInputAssumption
<1>8. TextOf(s) \in Seq(Chars)
  <2>1. AdmissibleText(TextOf(bindings[i].cps))
    BY TextProperties, Zenon DEF IInv
  <2> QED BY <2>1 DEF s, AdmissibleText
<1>9. Len(TextOf(s)) <= MaxSequence + 1
  <2>1. Len(TextOf(s)) \in Nat
    BY <1>8
  <2>2. Len(s) \in Nat /\ Len(s) <= MaxSequence
    BY <1>1, <1>7
  <2> QED BY <1>6, <1>7, <2>1, <2>2
<1> QED BY <1>9 DEF s

\* Every state of an input context (suas_stim.c) is well typed, has emitted
\* nothing inadmissible unless the caller wrote into the layout, no more often than it was fed, and what it may emit
\* next fits into the array it is built in.
THEOREM ContextCorrect == Spec => []ContextSound
<1>1. Init => IInv
  BY InitEstablishes
<1>2. IInv /\ [Next]_vars => IInv'
  BY StepKeeps
<1>3. IInv => ContextSound
  BY SequencesFit DEF IInv, ContextSound
<1>4. QED
  BY <1>1, <1>2, <1>3, PTL DEF Spec

-----------------------------------------------------------------------------
\* Each operation is a step of the text stream, or none.

LEMMA FoldingsAgree ==
    ASSUME NEW s \in Seq(Chars), s # <<>>
    PROVE  /\ \A f \in Stream!Folded(s) : f.result \in Results(pending, s[1])
           /\ \A c \in Results(pending, s[1]) :
                 \E f \in Stream!Folded(s) : f.result = c
<1>1. Head(s) = s[1]
  OBVIOUS
<1>2. QED
  BY <1>1 DEF Stream!Folded, Results, ToSet

LEMMA InitMaps == Init => Stream!Init
BY DEF Init, Stream!Init, ToSet

LEMMA BindMaps ==
    ASSUME NEW b \in Bindings, Bind(b)
    PROVE  UNCHANGED Stream!streamVars
BY DEF Bind, Stream!streamVars, stateVars

LEMMA ComposeMaps ==
    ASSUME IInv, NEW f \in Compositions, Compose(f)
    PROVE  [Stream!Next]_Stream!streamVars
<1>1. CASE status' # "OK"
  BY <1>1 DEF Compose, Stream!streamVars, stateVars
<1>2. CASE status' = "OK"
  <2>1. /\ compositions' = Append(compositions, f)
        /\ UNCHANGED <<pending, text>> /\ ~FoldKnown(f)
    BY <1>2 DEF Compose, ComposeStatus, stateVars
  <2>2. /\ Len(compositions') = Len(compositions) + 1
        /\ \A i \in 1 .. Len(compositions') : compositions'[i] =
              IF i <= Len(compositions) THEN compositions[i] ELSE f
        /\ Len(compositions) \in Nat
        /\ DOMAIN compositions = 1 .. Len(compositions)
        /\ DOMAIN compositions' = 1 .. Len(compositions')
    BY <2>1 DEF IInv, TypeOK
  <2>3. ToSet(compositions)' = ToSet(compositions) \cup {f}
    <3> DEFINE n == Len(compositions)
    <3>1. ToSet(compositions)' = {compositions'[i] : i \in 1 .. n + 1}
      BY <2>2 DEF ToSet
    <3>2. ToSet(compositions) = {compositions[i] : i \in 1 .. n}
      BY <2>2 DEF ToSet
    <3>3. /\ \A i \in 1 .. n : compositions'[i] = compositions[i]
          /\ compositions'[n + 1] = f
      BY <2>2
    <3> HIDE DEF n
    <3>4. n \in Nat
      BY <2>2 DEF n
    <3>5. \A i : i \in 1 .. n + 1 <=> i \in 1 .. n \/ i = n + 1
      BY <3>4
    <3>6. QED
      BY <3>1, <3>2, <3>3, <3>5
  <2>4. \A g \in ToSet(compositions) : g.pending # f.pending \/ g.next # f.next
    BY <2>1 DEF ToSet, FoldKnown
  <2>5. Stream!LearnFold(f)
    BY <2>1, <2>3, <2>4 DEF Stream!LearnFold
  <2>6. QED
    BY <2>5 DEF Stream!Next
<1>3. QED
  BY <1>1, <1>2

LEMMA FeedDeadMaps ==
    ASSUME IInv, NEW e \in Events, NEW cap \in Caps, FeedDead(e, cap)
    PROVE  [Stream!Next]_Stream!streamVars
<1>1. PICK i \in Selected(e) :
          /\ bindings[i].kind = "DEAD"
          /\ Emit(Spacing, cap)
          /\ HoldDead(bindings[i].cps[1])
  BY DEF FeedDead
<1>2. UNCHANGED compositions /\ bindings[i].cps[1] \in Chars
  BY <1>1, TextInputAssumption
  DEF FeedDead, layoutVars, IInv, TypeOK, Selected, LayoutWellFormed, WellFormed
<1>3. CASE status' = "OK"
  <2>1. Stream!Accent(bindings[i].cps[1])
    BY <1>1, <1>2, <1>3
    DEF Emit, HoldDead, Spacing, Stream!Accent, Stream!Waiting
  <2>2. QED
    BY <1>2, <2>1 DEF Stream!Next
<1>4. CASE status' # "OK"
  BY <1>1, <1>2, <1>4 DEF Emit, HoldDead, Stream!streamVars
<1>5. QED
  BY <1>3, <1>4

LEMMA FeedTextMaps ==
    ASSUME IInv, NEW e \in Events, NEW cap \in Caps, FeedText(e, cap)
    PROVE  [Stream!Next]_Stream!streamVars
<1>1. PICK i \in Selected(e) :
          /\ bindings[i].kind = "TEXT"
          /\ Emit(TextOf(bindings[i].cps), cap)
          /\ Consumed
  BY DEF FeedText
<1> DEFINE s == bindings[i].cps
           c == CHOOSE d \in Results(pending, s[1]) : TRUE
<1>2. /\ UNCHANGED compositions
      /\ s \in Seq(Chars) /\ s # <<>>
      /\ s \in {b.cps : b \in {d \in Bindings : d.kind = "TEXT" /\ d.cps # <<>>}}
  <2>1. i \in DOMAIN bindings /\ bindings[i] \in Bindings
    BY <1>1 DEF Selected, IInv, TypeOK
  <2>2. s \in Seq(Chars) /\ s # <<>>
    BY <2>1, TextProperties DEF IInv
  <2>3. QED
    BY <1>1, <2>1, <2>2 DEF FeedText, layoutVars
<1>3. text \in Seq(Chars)
  BY DEF IInv, TypeOK
<1> HIDE DEF s
<1>4. CASE status' # "OK"
  BY <1>1, <1>2, <1>4 DEF Emit, Consumed, Stream!streamVars
<1>5. CASE status' = "OK"
  <2>1. text' = text \o TextOf(s) /\ pending' = NoChar
    BY <1>1, <1>5 DEF Emit, Consumed, s
  <2>2. CASE Results(pending, s[1]) = {}
    <3>1. Stream!Folded(s) = {} /\ TextOf(s) = Stream!Waiting \o s
      BY <1>2, <2>2, FoldingsAgree DEF TextOf, Spacing, Stream!Waiting
    <3>2. Stream!Waiting \in Seq(Chars)
      BY DEF IInv, TypeOK, Stream!Waiting
    <3>3. text' = text \o Stream!Waiting \o s
      BY <1>2, <1>3, <2>1, <3>1, <3>2, ConcatAssociative
    <3>4. Stream!Letters(s)
      BY <1>2, <2>1, <3>1, <3>3 DEF Stream!Letters
    <3>5. QED
      BY <1>2, <3>4 DEF Stream!Next
  <2>3. CASE Results(pending, s[1]) # {}
    <3>1. PICK f \in Stream!Folded(s) : f.result = c
      BY <1>2, <2>3, FoldingsAgree
    <3>2. TextOf(s) = <<f.result>> \o Tail(s)
      BY <2>3, <3>1 DEF TextOf
    <3> HIDE DEF c
    <3>3. f.result \in Chars
      BY TextInputAssumption DEF Stream!Folded, ToSet, IInv, TypeOK
    <3>4. Tail(s) \in Seq(Chars) /\ <<f.result>> \in Seq(Chars)
      BY <1>2, <3>3, HeadTailProperties
    <3>5. text' = text \o <<f.result>> \o Tail(s)
      BY <1>3, <2>1, <3>2, <3>4, ConcatAssociative
    <3>6. Stream!Letters(s)
      BY <1>2, <2>1, <3>5 DEF Stream!Letters
    <3>7. QED
      BY <1>2, <3>6 DEF Stream!Next
  <2>4. QED
    BY <2>2, <2>3
<1>6. QED
  BY <1>4, <1>5

LEMMA FlushMaps ==
    ASSUME NEW cap \in Caps, Flush(cap)
    PROVE  [Stream!Next]_Stream!streamVars
<1>1. Emit(Spacing, cap) /\ Consumed /\ UNCHANGED compositions
  BY DEF Flush, layoutVars
<1>2. CASE status' = "OK"
  <2>1. Stream!Settle
    BY <1>1, <1>2 DEF Emit, Consumed, Spacing, Stream!Settle, Stream!Waiting
  <2>2. QED
    BY <2>1 DEF Stream!Next
<1>3. CASE status' # "OK"
  BY <1>1, <1>3 DEF Emit, Consumed, Stream!streamVars
<1>4. QED
  BY <1>2, <1>3

LEMMA OverwriteMaps ==
    ASSUME NEW i, NEW b, Overwrite(i, b)
    PROVE  UNCHANGED Stream!streamVars
BY DEF Overwrite, Stream!streamVars, stateVars

LEMMA StepMaps ==
    ASSUME IInv, [Next]_vars
    PROVE  [Stream!Next]_Stream!streamVars
<1>1. CASE UNCHANGED vars
  BY <1>1 DEF vars, Stream!streamVars
<1>2. ASSUME NEW e \in Events, FeedIgnored(e)
      PROVE  UNCHANGED Stream!streamVars
  BY <1>2 DEF FeedIgnored, Stream!streamVars, layoutVars
<1>3. CASE Reset
  <2>1. Stream!Drop
    BY <1>3 DEF Reset, Stream!Drop, layoutVars
  <2>2. QED
    BY <2>1 DEF Stream!Next
<1>4. CASE Next
  BY <1>2, <1>3, <1>4, BindMaps, ComposeMaps, FeedDeadMaps, FeedTextMaps, FlushMaps,
     OverwriteMaps
  DEF Next
<1>5. QED
  BY <1>1, <1>4

\* An input context (suas_stim_feed, _flush and _reset) implements the stream of
\* text its caller reads: calls that fail for want of room are invisible.
THEOREM ContextRefines == Spec => RefinesTextStream
<1>1. Init => IInv /\ Stream!Init
  BY InitEstablishes, InitMaps
<1>2. IInv /\ [Next]_vars => IInv'
  BY StepKeeps
<1>3. IInv /\ [Next]_vars => [Stream!Next]_Stream!streamVars
  BY StepMaps
<1>4. QED
  BY <1>1, <1>2, <1>3, PTL DEF Spec, RefinesTextStream, Stream!Spec

-----------------------------------------------------------------------------
\* A layout only grows, at its end and by pairs it does not fold yet.

LEMMA BindOffers ==
    ASSUME IInv, NEW b \in Bindings, Bind(b)
    PROVE  layoutVars' = layoutVars \/ OffersKept
<1>1. compositions' = compositions
  BY DEF Bind
<1>2. CASE status' # "OK"
  BY <1>1, <1>2 DEF Bind, layoutVars
<1>3. CASE status' = "OK"
  <2>1. bindings \in Seq(Bindings) /\ bindings' = Append(bindings, b)
    BY <1>3 DEF Bind, WithBinding, IInv, TypeOK
  <2>2. /\ DOMAIN bindings = 1 .. Len(bindings) /\ Len(bindings) \in Nat
        /\ DOMAIN bindings' = 1 .. (Len(bindings) + 1)
        /\ \A i \in DOMAIN bindings : bindings'[i] = bindings[i]
    BY <2>1
  <2>3. ASSUME NEW e \in Events, NEW i \in Selected(e)
        PROVE  i \in Selected(e)' /\ bindings'[i] = bindings[i]
    <3>1. i \in 1 .. Len(bindings) /\ Fits(bindings[i], e)
      BY <2>2, <2>3 DEF Selected
    <3>2. \A j \in 1 .. (i - 1) : j \in DOMAIN bindings
      BY <2>2, <3>1
    <3>3. \A j \in 1 .. (i - 1) : ~Fits(bindings'[j], e)
      BY <2>2, <2>3, <3>2 DEF Selected
    <3>4. i \in DOMAIN bindings' /\ Fits(bindings'[i], e)
      BY <2>2, <3>1
    <3>5. QED
      BY <2>2, <3>1, <3>3, <3>4 DEF Selected, Fits
  <2>4. \A p, c \in Chars : Results(p, c)' = Results(p, c)
    BY <1>1 DEF Results
  <2>5. QED
    BY <2>3, <2>4 DEF OffersKept
<1>4. QED
  BY <1>2, <1>3

LEMMA ComposeOffers ==
    ASSUME IInv, NEW f \in Compositions, Compose(f)
    PROVE  layoutVars' = layoutVars \/ OffersKept
<1>1. bindings' = bindings
  BY DEF Compose
<1>2. CASE status' # "OK"
  BY <1>1, <1>2 DEF Compose, layoutVars
<1>3. CASE status' = "OK"
  <2>1. /\ compositions \in Seq(Compositions)
        /\ compositions' = Append(compositions, f) /\ ~FoldKnown(f)
    BY <1>3 DEF Compose, ComposeStatus, IInv, TypeOK
  <2>2. /\ DOMAIN compositions \subseteq DOMAIN compositions'
        /\ \A i \in DOMAIN compositions' : compositions'[i] =
              IF i \in DOMAIN compositions THEN compositions[i] ELSE f
    BY <2>1
  <2>3. ASSUME NEW p \in Chars, NEW c \in Chars, Results(p, c) # {}
        PROVE  Results(p, c)' = Results(p, c)
    <3>1. ~(f.pending = p /\ f.next = c)
      BY <2>1, <2>3 DEF Results, FoldKnown
    <3>2. {k \in DOMAIN compositions' :
              compositions'[k].pending = p /\ compositions'[k].next = c}
        = {k \in DOMAIN compositions :
              compositions[k].pending = p /\ compositions[k].next = c}
      BY <2>2, <3>1
    <3>3. QED
      BY <2>2, <3>2 DEF Results
  <2>4. \A e \in Events : Selected(e)' = Selected(e)
    BY <1>1 DEF Selected, Fits
  <2>5. QED
    BY <1>1, <2>3, <2>4 DEF OffersKept
<1>4. QED
  BY <1>2, <1>3

LEMMA StepOffers ==
    ASSUME IInv, [Next]_vars
    PROVE  layoutVars' = layoutVars \/ OffersKept \/ Rewritten
<1>1. ASSUME NEW e \in Events, NEW cap \in Caps,
             FeedIgnored(e) \/ FeedDead(e, cap) \/ FeedText(e, cap)
      PROVE  layoutVars' = layoutVars
  BY <1>1 DEF FeedIgnored, FeedDead, FeedText
<1>2. ASSUME NEW cap \in Caps, Flush(cap)
      PROVE  layoutVars' = layoutVars
  BY <1>2 DEF Flush
<1>3. CASE Reset
  BY <1>3 DEF Reset
<1>4. CASE UNCHANGED vars
  BY <1>4 DEF vars, layoutVars
<1>5. CASE Next
  BY <1>1, <1>2, <1>3, <1>5, BindOffers, ComposeOffers DEF Next, Rewritten
<1>6. QED
  BY <1>4, <1>5

\* suas_stim_layout_bind and _compose on a layout in use, in any order with the
\* events of its contexts: no event loses its binding, no pair its result.  Only a
\* caller who writes into the layout himself can take something back.
THEOREM LayoutGrows == Spec => LayoutGrowsBehind
<1>1. Init => IInv
  BY InitEstablishes
<1>2. IInv /\ [Next]_vars => IInv'
  BY StepKeeps
<1>3. IInv /\ [Next]_vars => [layoutVars' = layoutVars \/ OffersKept \/ Rewritten]_vars
  BY StepOffers
<1>4. QED
  BY <1>1, <1>2, <1>3, PTL DEF Spec, LayoutGrowsBehind

=============================================================================
