-------------------------- MODULE CanonicalFormsProofs --------------------------
(* For any text, tables and sizes: the arrays of the engine hold what is   *)
(* written into them, and what has left it and what it still holds is the  *)
(* canonical order of what it was given.                                   *)
EXTENDS CanonicalForms, SequenceTheorems, FiniteSetTheorems, FunctionTheorems,
  WellFoundedInduction, TLAPS

(* What codepoints are written and held as starters is left open. *)
Shape(A, B) ==
  [form : Forms, starter : A, win : Seq(Nat), inv : Seq(Nat), seeded : BOOLEAN,
   room : Nat, out : Seq(B), ok : BOOLEAN]

(* What the window and the FIFO may hold; the buffer is cut afterwards. *)
Fit(e) ==
  /\ \E A, B : e \in Shape(A, B)
  /\ Len(e.win) <= Window /\ Len(e.inv) <= Depth

(* No array of the engine is written behind its end: win and wccc take     *)
(* SUCF_WINDOW marks, inv takes SUCF_INVAR_DEPTH controls, and out what    *)
(* its caller says (suas_sucf.c, sucf_absorb and sucf_emit).               *)
ArraysHold == Fit(engine) /\ Len(engine.out) <= engine.room

--------------------------------------------------------------------------------
LEMMA MinIn ==
  ASSUME NEW I, I \subseteq Nat, I # {}
  PROVE  Min(I) \in I /\ \A y \in I : Min(I) <= y
<1>1. PICK x \in I : \A y \in I : ~(<<y, x>> \in OpToRel(<, Nat))
  BY NatLessThanWellFounded, WFMin
<1>2. \A y \in I : x <= y
  <2> SUFFICES ASSUME NEW y \in I PROVE ~(y < x)
    OBVIOUS
  <2>1. y < x => <<y, x>> \in {s \in Nat \X Nat : s[1] < s[2]}
    OBVIOUS
  <2>2. OpToRel(<, Nat) = {s \in Nat \X Nat : s[1] < s[2]}
    BY Zenon DEF OpToRel
  <2> QED BY <1>1, <2>1, <2>2
<1> QED BY <1>2 DEF Min

LEMMA MaxIn ==
  ASSUME NEW n \in Nat, NEW I, I \subseteq 0 .. n, I # {}
  PROVE  Max(I) \in I
<1> DEFINE J == {n - x : x \in I}
<1>1. J \subseteq Nat /\ J # {}
  <2>1. PICK x \in I : TRUE
    OBVIOUS
  <2>2. n - x \in J
    BY <2>1
  <2>3. \A y \in I : n - y \in Nat
    OBVIOUS
  <2> QED BY <2>2, <2>3
<1>2. Min(J) \in J /\ \A y \in J : Min(J) <= y
  <2> HIDE DEF J
  <2> QED BY <1>1, MinIn
<1>3. PICK x \in I : Min(J) = n - x
  BY <1>2
<1>4. \A y \in I : y <= x
  <2> SUFFICES ASSUME NEW y \in I PROVE y <= x
    OBVIOUS
  <2>1. n - y \in J
    OBVIOUS
  <2>2. n - x <= n - y
    BY <1>2, <1>3, <2>1
  <2> QED BY <2>2
<1> QED BY <1>4 DEF Max

LEMMA Joined ==
  ASSUME NEW A, NEW B, NEW s \in Seq(A), NEW t \in Seq(B)
  PROVE  s \o t \in Seq(A \cup B) /\ Len(s \o t) = Len(s) + Len(t)
<1>1. s \in Seq(A \cup B) /\ t \in Seq(A \cup B)
  OBVIOUS
<1> QED BY <1>1

LEMMA Split ==
  ASSUME NEW S, NEW s \in Seq(S), NEW i \in 0 .. Len(s)
  PROVE  /\ SubSeq(s, 1, i) \in Seq(S) /\ Len(SubSeq(s, 1, i)) = i
         /\ SubSeq(s, i + 1, Len(s)) \in Seq(S) /\ Len(SubSeq(s, i + 1, Len(s))) = Len(s) - i
<1>1. Len(s) \in Nat /\ i \in Nat /\ i <= Len(s)
  OBVIOUS
<1>2. \A j \in 1 .. Len(s) : s[j] \in S
  OBVIOUS
<1>3. /\ SubSeq(s, 1, i) \in Seq(S)
      /\ Len(SubSeq(s, 1, i)) = IF 1 <= i THEN i - 1 + 1 ELSE 0
  BY <1>1, <1>2, SubSeqProperties
<1>4. /\ SubSeq(s, i + 1, Len(s)) \in Seq(S)
      /\ Len(SubSeq(s, i + 1, Len(s))) = IF i + 1 <= Len(s) THEN Len(s) - (i + 1) + 1 ELSE 0
  <2>1. \A j \in i + 1 .. Len(s) : s[j] \in S
    BY <1>1, <1>2
  <2> QED BY <1>1, <2>1, SubSeqProperties
<1>5. Len(SubSeq(s, 1, i)) = i
  BY <1>1, <1>3
<1>6. Len(SubSeq(s, i + 1, Len(s))) = Len(s) - i
  BY <1>1, <1>4
<1> QED BY <1>3, <1>4, <1>5, <1>6

--------------------------------------------------------------------------------
LEMMA SequenceIs == ASSUME NEW e, Fit(e) PROVE \E S : Sequence(e) \in Seq(S)
<1> DEFINE base == Merged(e)
           I == {0} \cup {i \in DOMAIN e.win : base[i] # 0}
           k == Max(I)
           b == base[k]
           lead == IF e.starter = Sentinel THEN <<>> ELSE <<b>>
<1>0. e.win \in Seq(Nat)
  BY DEF Fit, Shape
<1>1. k \in 0 .. Len(e.win)
  <2>1. I \subseteq 0 .. Len(e.win) /\ I # {} /\ Len(e.win) \in Nat
    BY <1>0
  <2> HIDE DEF I
  <2>2. k \in I
    BY <2>1, MaxIn
  <2> QED BY <2>1, <2>2
<1>2. Sequence(e) = lead \o SubSeq(e.win, k + 1, Len(e.win))
  BY DEF Sequence
<1> HIDE DEF k
<1>3. SubSeq(e.win, k + 1, Len(e.win)) \in Seq(Nat)
  BY <1>0, <1>1, Split
<1>4. lead \in Seq({b})
  <2> HIDE DEF b
  <2>1. <<>> \in Seq({b})
    OBVIOUS
  <2>2. <<b>> \in Seq({b})
    OBVIOUS
  <2> QED BY <2>1, <2>2
<1> DEFINE rest == SubSeq(e.win, k + 1, Len(e.win))
<1>5. rest \in Seq(Nat) /\ Sequence(e) = lead \o rest
  BY <1>2, <1>3
<1> HIDE DEF lead, b, rest
<1>6. lead \o rest \in Seq({b} \cup Nat)
  BY <1>4, <1>5, Joined
<1> QED BY <1>5, <1>6

LEMMA Linked == \A s, t \in Seq(Nat) : s \o t \in Seq(Nat) /\ Len(s \o t) = Len(s) + Len(t)
OBVIOUS

LEMMA Between ==
  ASSUME NEW u \in Seq(Nat), NEW v \in Seq(Nat), NEW cp \in Nat
  PROVE  u \o <<cp>> \o v \in Seq(Nat) /\ Len(u \o <<cp>> \o v) = Len(u) + 1 + Len(v)
<1>1. <<cp>> \in Seq(Nat) /\ Len(<<cp>>) = 1
  OBVIOUS
<1>2. ASSUME NEW m \in Seq(Nat), Len(m) = 1
      PROVE  u \o m \o v \in Seq(Nat) /\ Len(u \o m \o v) = Len(u) + 1 + Len(v)
  <2>1. u \o m \in Seq(Nat) /\ Len(u \o m) = Len(u) + Len(m)
    BY Linked, Zenon
  <2>2. ASSUME NEW w \in Seq(Nat), Len(w) = Len(u) + Len(m)
        PROVE  w \o v \in Seq(Nat) /\ Len(w \o v) = Len(u) + 1 + Len(v)
    <3>1. w \o v \in Seq(Nat) /\ Len(w \o v) = Len(w) + Len(v)
      BY Linked, Zenon
    <3> QED BY <1>2, <2>2, <3>1
  <2> QED BY <2>1, <2>2
<1> QED BY <1>1, <1>2

LEMMA InsertIs ==
  ASSUME NEW win \in Seq(Nat), NEW cp \in Nat
  PROVE  Insert(win, cp) \in Seq(Nat) /\ Len(Insert(win, cp)) = Len(win) + 1
<1> DEFINE I == {0} \cup {i \in DOMAIN win : Ccc(win[i]) <= Ccc(cp)}
           k == Max(I)
<1>1. k \in 0 .. Len(win)
  <2>1. I \subseteq 0 .. Len(win) /\ I # {} /\ Len(win) \in Nat
    OBVIOUS
  <2> HIDE DEF I
  <2>2. k \in I
    BY <2>1, MaxIn
  <2> QED BY <2>1, <2>2
<1>2. Insert(win, cp) = SubSeq(win, 1, k) \o <<cp>> \o SubSeq(win, k + 1, Len(win))
  BY DEF Insert
<1> HIDE DEF k
<1>3. /\ SubSeq(win, 1, k) \in Seq(Nat) /\ Len(SubSeq(win, 1, k)) = k
      /\ SubSeq(win, k + 1, Len(win)) \in Seq(Nat)
      /\ Len(SubSeq(win, k + 1, Len(win))) = Len(win) - k
  BY <1>1, Split
<1>4. Insert(win, cp) \in Seq(Nat) /\ Len(Insert(win, cp)) = k + 1 + (Len(win) - k)
  BY <1>2, <1>3, Between
<1> QED BY <1>1, <1>4

(* A step that only writes, and one that ends a sequence. *)
LEMMA Fits ==
  ASSUME NEW A, NEW B, NEW e \in Shape(A, B), Len(e.win) <= Window, Len(e.inv) <= Depth
  PROVE  Fit(e)
BY DEF Fit

LEMMA FlushInvFits == ASSUME NEW e, Fit(e) PROVE Fit(FlushInv(e))
<1>1. PICK A, B : e \in Shape(A, B)
  BY DEF Fit
<1> DEFINE out == e.out \o e.inv
           none == <<>>
<1>2. PICK H : out \in Seq(H)
  BY <1>1, Joined DEF Shape
<1>3. FlushInv(e) = [e EXCEPT !.out = out, !.inv = none]
  BY <1>1 DEF FlushInv, Shape
<1>4. none \in Seq(Nat) /\ Len(none) = 0
  OBVIOUS
<1> HIDE DEF out, none
<1>5. FlushInv(e) \in Shape(A, H) /\ FlushInv(e).win = e.win /\ FlushInv(e).inv = none
  BY <1>1, <1>2, <1>3, <1>4 DEF Shape
<1> QED BY <1>4, <1>5, Fits, FormsAssumption DEF Fit

LEMMA FinalizeIs ==
  ASSUME NEW e, Fit(e)
  PROVE  \E A, B : /\ Finalize(e) \in Shape(A, B)
                   /\ Len(Finalize(e).win) = 0 /\ Len(Finalize(e).inv) = 0
<1>1. PICK A, B : e \in Shape(A, B)
  BY DEF Fit
<1>2. PICK S : Sequence(e) \in Seq(S)
  BY SequenceIs
<1> DEFINE out == e.out \o Sequence(e) \o e.inv
           none == <<>>
<1>3. PICK H : out \in Seq(H)
  <2>1. e.out \o Sequence(e) \in Seq(B \cup S)
    BY <1>1, <1>2, Joined DEF Shape
  <2> QED BY <1>1, <2>1, Joined DEF Shape
<1>4. Finalize(e) = [e EXCEPT !.out = out, !.win = none, !.inv = none, !.starter = Sentinel]
  BY <1>1 DEF Finalize, Shape
<1>5. none \in Seq(Nat) /\ Len(none) = 0
  OBVIOUS
<1> HIDE DEF out, none
<1>6. /\ Finalize(e) \in Shape({Sentinel}, H)
      /\ Finalize(e).win = none /\ Finalize(e).inv = none
  BY <1>1, <1>3, <1>4, <1>5 DEF Shape
<1> QED BY <1>5, <1>6

LEMMA HoldFits == ASSUME NEW e, Fit(e), NEW cp \in Nat PROVE Fit(Hold(e, cp))
<1>1. PICK A, B : e \in Shape(A, B)
  BY DEF Fit
<1>2. CASE Len(e.inv) < Depth
  <2>1. Hold(e, cp) = [e EXCEPT !.inv = Append(e.inv, cp)]
    BY <1>1, <1>2 DEF Hold, Shape
  <2>2. Append(e.inv, cp) \in Seq(Nat) /\ Len(Append(e.inv, cp)) <= Depth
    BY <1>1, <1>2, FormsAssumption DEF Shape
  <2>3. Hold(e, cp) \in Shape(A, B) /\ Hold(e, cp).win = e.win
        /\ Hold(e, cp).inv = Append(e.inv, cp)
    BY <1>1, <2>1, <2>2 DEF Shape
  <2> QED BY <2>2, <2>3, Fits DEF Fit
<1>3. CASE ~(Len(e.inv) < Depth)
  <2> DEFINE out == Append(e.out, Head(e.inv))
             inv == Append(Tail(e.inv), cp)
  <2>1. e.inv \in Seq(Nat) /\ e.inv # <<>> /\ Len(e.inv) = Depth
    BY <1>1, <1>3, FormsAssumption DEF Fit, Shape
  <2>2. inv \in Seq(Nat) /\ Len(inv) = Depth /\ Head(e.inv) \in Nat
    BY <2>1
  <2>3. PICK H : out \in Seq(H)
    <3>1. e.out \in Seq(B \cup Nat) /\ Head(e.inv) \in B \cup Nat
      BY <1>1, <2>2 DEF Shape
    <3> QED BY <3>1
  <2>4. Hold(e, cp) = [e EXCEPT !.out = out, !.inv = inv]
    BY <1>1, <1>3 DEF Hold, Shape
  <2> HIDE DEF out, inv
  <2>5. Hold(e, cp) \in Shape(A, H) /\ Hold(e, cp).win = e.win /\ Hold(e, cp).inv = inv
    BY <1>1, <2>2, <2>3, <2>4 DEF Shape
  <2> QED BY <2>2, <2>5, Fits, FormsAssumption DEF Fit
<1> QED BY <1>2, <1>3

LEMMA AbsorbFits == ASSUME NEW e, Fit(e), NEW cp \in Nat PROVE Fit(Absorb(e, cp))
<1>1. PICK A, B : e \in Shape(A, B)
  BY DEF Fit
<1>2. PICK C, D : /\ Finalize(e) \in Shape(C, D)
                  /\ Len(Finalize(e).win) = 0 /\ Len(Finalize(e).inv) = 0
  BY FinalizeIs
<1> DEFINE f == Finalize(e)
           v == FlushInv(e)
<1>3. Fit([v EXCEPT !.seeded = TRUE, !.starter = cp])
  <2>1. Fit(v)
    BY FlushInvFits
  <2> HIDE DEF v
  <2>2. PICK G, H : v \in Shape(G, H)
    BY <2>1 DEF Fit
  <2> DEFINE w == [v EXCEPT !.seeded = TRUE, !.starter = cp]
  <2>3. w \in Shape({cp}, H) /\ w.win = v.win /\ w.inv = v.inv
    BY <2>2 DEF Shape
  <2> HIDE DEF w
  <2>4. Fit(w)
    BY <2>1, <2>3, Fits DEF Fit
  <2> QED BY <2>4 DEF w
<1>4. Fit(NewStarter(e, cp))
  <2> DEFINE syllable == IF e.form = "C" /\ e.win = <<>> /\ e.starter # Sentinel
                           THEN ComposeHangul(e.starter, cp) ELSE 0
             w == [e EXCEPT !.starter = syllable]
             n == [f EXCEPT !.starter = cp]
  <2>1. NewStarter(e, cp) = IF syllable # 0 THEN w ELSE n
    BY DEF NewStarter
  <2> HIDE DEF syllable, f
  <2>2. w \in Shape({syllable}, B) /\ w.win = e.win /\ w.inv = e.inv
    BY <1>1 DEF Shape
  <2>3. n \in Shape({cp}, D) /\ n.win = f.win /\ n.inv = f.inv
    BY <1>2 DEF Shape, f
  <2> HIDE DEF w, n
  <2>4. Fit(w)
    BY <2>2, Fits DEF Fit
  <2>5. Fit(n)
    BY <1>2, <2>3, Fits, FormsAssumption DEF f
  <2> QED BY <2>1, <2>4, <2>5
<1>5. Fit(NewMark(e, cp))
  <2> DEFINE win == Insert(e.win, cp)
             only == <<cp>>
             w == [e EXCEPT !.win = win]
             n == [f EXCEPT !.win = only]
  <2>1. NewMark(e, cp) = IF Len(e.win) < Window THEN w ELSE n
    BY <1>1 DEF NewMark, Shape
  <2>2. win \in Seq(Nat) /\ Len(win) = Len(e.win) + 1 /\ e.win \in Seq(Nat)
    BY <1>1, InsertIs DEF Shape
  <2>7. only \in Seq(Nat) /\ Len(only) = 1
    OBVIOUS
  <2> HIDE DEF win, f, only
  <2>3. w \in Shape(A, B) /\ w.win = win /\ w.inv = e.inv
    BY <1>1, <2>2 DEF Shape
  <2>4. n \in Shape(C, D) /\ n.win = only /\ n.inv = f.inv
    BY <1>2, <2>7 DEF Shape, f
  <2> HIDE DEF w, n
  <2>5. Len(e.win) < Window => Fit(w)
    BY <2>2, <2>3, Fits, FormsAssumption DEF Fit
  <2>6. Fit(n)
    <3>1. Len(n.win) <= Window /\ Len(n.inv) <= Depth
      BY <1>2, <2>4, <2>7, FormsAssumption DEF f
    <3> QED BY <2>4, <3>1, Fits
  <2> QED BY <2>1, <2>5, <2>6
<1>6. Fit(Hold(e, cp))
  BY HoldFits
<1>7. CASE IsControl(cp)
  BY <1>6, <1>7 DEF Absorb
<1>8. CASE ~IsControl(cp) /\ ~e.seeded
  BY <1>3, <1>8 DEF Absorb
<1>9. CASE ~IsControl(cp) /\ e.seeded /\ Ccc(cp) = 0
  BY <1>4, <1>9 DEF Absorb
<1>10. CASE ~IsControl(cp) /\ e.seeded /\ Ccc(cp) # 0
  BY <1>5, <1>10 DEF Absorb
<1> QED BY <1>7, <1>8, <1>9, <1>10

LEMMA PartsAre ==
  ASSUME NEW cp \in Nat
  PROVE  DecomposeOne(cp) \in Seq(Nat) /\ Len(DecomposeOne(cp)) \in 1 .. 3
<1>1. CASE IsHangul(cp)
  <2> DEFINE s == cp - HangulBase
             t == s % 28
             lv == s \div 28
             l == 4352 + (lv \div 21)
             v == 4449 + (lv % 21)
  <2>1. l \in Nat /\ v \in Nat /\ t \in Nat
    BY <1>1 DEF IsHangul, HangulBase
  <2>2. DecomposeOne(cp) = <<l, v>> \o (IF t = 0 THEN <<>> ELSE <<4519 + t>>)
    BY <1>1 DEF DecomposeOne, HangulParts
  <2> HIDE DEF l, v, t
  <2> QED BY <2>1, <2>2
<1>2. CASE ~IsHangul(cp) /\ cp \in DOMAIN Decomposition
  <2> DEFINE d == Decomposition[cp]
  <2>1. DecomposeOne(cp) = d
    BY <1>2 DEF DecomposeOne
  <2>2. d \in Seq(1 .. ScpMin - 1) /\ Len(d) \in 1 .. 2
    BY <1>2, FormsAssumption, Zenon
  <2> HIDE DEF d
  <2>3. ScpMin \in Nat
    BY DEF ScpMin
  <2>4. d \in Seq(Nat)
    BY <2>2, <2>3
  <2> QED BY <2>1, <2>2, <2>4
<1>3. CASE ~IsHangul(cp) /\ cp \notin DOMAIN Decomposition
  BY <1>3 DEF DecomposeOne
<1> QED BY <1>1, <1>2, <1>3

LEMMA ProcessFits == ASSUME NEW e, Fit(e), NEW cp \in Nat PROVE Fit(Process(e, cp))
<1> DEFINE parts == IF IsControl(cp) \/ (IsHangul(cp) /\ e.form = "C") THEN <<cp>>
                    ELSE DecomposeOne(cp)
           one == {Absorb(e, parts[1])}
           two == IF Len(parts) < 2 THEN one ELSE {Absorb(d, parts[2]) : d \in one}
           all == IF Len(parts) < 3 THEN two ELSE {Absorb(d, parts[3]) : d \in two}
<1>1. parts \in Seq(Nat) /\ Len(parts) \in 1 .. 3
  BY PartsAre
<1>2. Process(e, cp) = CHOOSE d \in all : TRUE
  BY DEF Process
<1> HIDE DEF parts
<1>3. parts[1] \in Nat /\ (Len(parts) >= 2 => parts[2] \in Nat) /\ (Len(parts) >= 3 => parts[3] \in Nat)
  BY <1>1
<1>4. one # {} /\ \A d \in one : Fit(d)
  BY <1>3, AbsorbFits
<1> HIDE DEF one
<1>5. two # {} /\ \A d \in two : Fit(d)
  BY <1>1, <1>3, <1>4, AbsorbFits
<1> HIDE DEF two
<1>6. all # {} /\ \A d \in all : Fit(d)
  BY <1>1, <1>3, <1>5, AbsorbFits
<1> HIDE DEF all
<1> QED BY <1>2, <1>6

LEMMA FlushFits == ASSUME NEW e, Fit(e) PROVE Fit(FlushText(e))
<1> DEFINE f == Finalize(e)
           n == [f EXCEPT !.seeded = FALSE]
<1>1. PICK C, D : f \in Shape(C, D) /\ Len(f.win) = 0 /\ Len(f.inv) = 0
  BY FinalizeIs
<1>2. FlushText(e) = IF e.seeded THEN n ELSE FlushInv(e)
  BY DEF FlushText
<1> HIDE DEF f
<1>3. n \in Shape(C, D) /\ n.win = f.win /\ n.inv = f.inv
  BY <1>1 DEF Shape
<1> HIDE DEF n
<1>4. Fit(n)
  BY <1>1, <1>3, Fits, FormsAssumption
<1> QED BY <1>2, <1>4, FlushInvFits

LEMMA CutHolds ==
  ASSUME NEW e, Fit(e)
  PROVE  Fit(Cut(e)) /\ Len(Cut(e).out) <= Cut(e).room
<1>1. PICK A, B : e \in Shape(A, B)
  BY DEF Fit
<1>2. CASE Len(e.out) <= e.room
  BY <1>2 DEF Cut
<1>3. CASE ~(Len(e.out) <= e.room)
  <2> DEFINE out == SubSeq(e.out, 1, e.room)
  <2>1. out \in Seq(B) /\ Len(out) = e.room
    BY <1>1, <1>3, Split DEF Shape
  <2>2. Cut(e) = [e EXCEPT !.out = out, !.ok = FALSE]
    BY <1>1, <1>3 DEF Cut, Shape
  <2> HIDE DEF out
  <2>3. /\ Cut(e) \in Shape(A, B) /\ Cut(e).win = e.win /\ Cut(e).inv = e.inv
        /\ Cut(e).out = out /\ Cut(e).room = e.room
    BY <1>1, <2>1, <2>2 DEF Shape
  <2>4. Fit(Cut(e))
    BY <2>3, Fits DEF Fit
  <2> QED BY <1>1, <2>1, <2>3, <2>4 DEF Shape
<1> QED BY <1>2, <1>3

LEMMA StartHolds ==
  ASSUME NEW form \in Forms, NEW room \in Rooms
  PROVE  Fit(Start(form, room)) /\ Len(Start(form, room).out) <= Start(form, room).room
<1> DEFINE e == Start(form, room)
<1>1. room \in Nat
  BY FormsAssumption
<1>2. e \in Shape({Sentinel}, Nat) /\ e.win = <<>> /\ e.inv = <<>> /\ e.out = <<>> /\ e.room = room
  BY <1>1 DEF Start, Shape
<1> HIDE DEF e
<1>3. Fit(e)
  BY <1>2, Fits, FormsAssumption
<1> QED BY <1>1, <1>2, <1>3 DEF e

--------------------------------------------------------------------------------
LEMMA StepHolds == ArraysHold /\ [Next]_vars => ArraysHold'
<1> SUFFICES ASSUME Fit(engine), Len(engine.out) <= engine.room, [Next]_vars
             PROVE  Fit(engine') /\ Len(engine'.out) <= engine'.room
  BY DEF ArraysHold
<1>1. ASSUME NEW cp \in Codepoints, Feed(cp)
      PROVE  Fit(engine') /\ Len(engine'.out) <= engine'.room
  <2> DEFINE e == Process(engine, cp)
  <2>1. engine' = Cut(e) /\ cp \in Nat
    BY <1>1, FormsAssumption DEF Feed
  <2>2. Fit(e)
    BY <2>1, ProcessFits
  <2> HIDE DEF e
  <2> QED BY <2>1, <2>2, CutHolds
<1>2. ASSUME Flush PROVE Fit(engine') /\ Len(engine'.out) <= engine'.room
  <2> DEFINE e == FlushText(engine)
  <2>1. engine' = Cut(e)
    BY <1>2 DEF Flush
  <2>2. Fit(e)
    BY FlushFits
  <2> HIDE DEF e
  <2> QED BY <2>1, <2>2, CutHolds
<1>3. ASSUME StateInit PROVE Fit(engine') /\ Len(engine'.out) <= engine'.room
  <2>1. PICK form \in Forms, room \in Rooms : engine' = Start(form, room)
    BY <1>3 DEF StateInit
  <2> QED BY <2>1, StartHolds
<1>4. ASSUME GoOn PROVE Fit(engine') /\ Len(engine'.out) <= engine'.room
  <2> DEFINE none == <<>>
  <2>1. PICK room \in Rooms : engine' = [engine EXCEPT !.out = none, !.room = room]
    BY <1>4 DEF GoOn
  <2>2. PICK A, B : engine \in Shape(A, B)
    BY DEF Fit
  <2>3. room \in Nat /\ none \in Seq(B) /\ Len(none) = 0
    BY FormsAssumption
  <2> HIDE DEF none
  <2>4. /\ engine' \in Shape(A, B) /\ engine'.win = engine.win /\ engine'.inv = engine.inv
        /\ engine'.out = none /\ engine'.room = room
    BY <2>1, <2>2, <2>3 DEF Shape
  <2>5. Fit(engine')
    BY <2>4, Fits DEF Fit
  <2> QED BY <2>3, <2>4, <2>5
<1>5. CASE UNCHANGED vars
  BY <1>5 DEF vars
<1> QED BY <1>1, <1>2, <1>3, <1>4, <1>5 DEF Next

(* No call writes behind the end of win, inv or the caller's buffer, for   *)
(* every text, every order of calls and every size of the arrays.          *)
THEOREM EngineFits == Spec => []ArraysHold
<1>1. Init => ArraysHold
  BY StartHolds DEF Init, ArraysHold
<1> QED BY <1>1, StepHolds, PTL DEF Spec

--------------------------------------------------------------------------------
(* Sequences of sequences, and texts whose codepoints are taken apart. *)
LEMMA LeastExists ==
  ASSUME NEW I, I \subseteq Nat, I # {}
  PROVE  \E x \in I : \A y \in I : x <= y
BY MinIn

LEMMA Listed ==
  ASSUME NEW S, NEW n \in Nat, NEW t \in [1 .. n -> S]
  PROVE  t \in Seq(S) /\ Len(t) = n
OBVIOUS

LEMMA SeqIs ==
  ASSUME NEW S, NEW s \in Seq(S)
  PROVE  /\ Len(s) \in Nat /\ DOMAIN s = 1 .. Len(s) /\ s = [i \in 1 .. Len(s) |-> s[i]]
         /\ \A i \in 1 .. Len(s) : s[i] \in S
OBVIOUS

LEMMA NonEmpty ==
  ASSUME NEW S, NEW s \in Seq(S), s # <<>>
  PROVE  Len(s) \in Nat /\ 1 \in 1 .. Len(s) /\ s[1] \in S
<1>1. Len(s) \in Nat /\ Len(s) # 0 OBVIOUS
<1>2. 1 \in 1 .. Len(s) BY <1>1
<1> QED BY <1>1, <1>2, SeqIs

(* A sequence of sequences, one after the other. *)
Flattens(f, s) == f = [i \in 1 .. Len(s) |-> IF i = 1 THEN s[i] ELSE f[i - 1] \o s[i]]

LEMMA FlattenExists ==
  ASSUME NEW S, NEW s \in Seq(S)
  PROVE  \E f : Flattens(f, s)
<1> DEFINE n == Len(s)
           Runs(f, m) == f = [i \in 1 .. m |-> IF i = 1 THEN s[i] ELSE f[i - 1] \o s[i]]
           bad == {m \in 0 .. n : ~ \E f : Runs(f, m)}
<1>1. n \in Nat OBVIOUS
<1> HIDE DEF n
<1> HIDE DEF Runs
<1>2. bad = {}
  <2> SUFFICES ASSUME bad # {} PROVE FALSE
      OBVIOUS
  <2>1. bad \subseteq Nat OBVIOUS
  <2>2. PICK m \in bad : \A y \in bad : m <= y BY <2>1, LeastExists
  <2>3. m \in 0 .. n /\ ~ \E f : Runs(f, m) BY <2>2
  <2>4. m # 0
    <3>1. Runs(<<>>, 0) BY DEF Runs
    <3> QED BY <2>3, <3>1
  <2>5. m - 1 \in 0 .. n /\ ~(m <= m - 1) BY <2>3, <2>4, <1>1
  <2>6. PICK f : Runs(f, m - 1) BY <2>2, <2>5
  <2> DEFINE g == [i \in 1 .. m |-> IF i = m THEN (IF m = 1 THEN s[m] ELSE f[m - 1] \o s[m]) ELSE f[i]]
  <2>7. \A i \in 1 .. m : g[i] = IF i = 1 THEN s[i] ELSE g[i - 1] \o s[i]
    <3> SUFFICES ASSUME NEW i \in 1 .. m PROVE g[i] = IF i = 1 THEN s[i] ELSE g[i - 1] \o s[i]
        OBVIOUS
    <3>1. CASE i = m
      <4>1. m # 1 => m - 1 \in 1 .. m /\ m - 1 # m BY <2>3, <2>4
      <4>2. m # 1 => g[m - 1] = f[m - 1] BY <4>1
      <4> QED BY <3>1, <4>2
    <3>2. CASE i # m
      <4>1. i \in 1 .. m - 1 /\ i - 1 # m BY <3>2, <2>3
      <4>2. f[i] = IF i = 1 THEN s[i] ELSE f[i - 1] \o s[i] BY <4>1, <2>6 DEF Runs
      <4>3. g[i] = f[i] /\ (i # 1 => g[i - 1] = f[i - 1])
        <5>1. i # 1 => i - 1 \in 1 .. m BY <4>1
        <5> QED BY <3>2, <4>1, <5>1
      <4> HIDE DEF g
      <4> QED BY <4>2, <4>3
    <3> QED BY <3>1, <3>2
  <2>8. g = [i \in 1 .. m |-> g[i]] OBVIOUS
  <2> HIDE DEF g
  <2>9. Runs(g, m) BY <2>7, <2>8 DEF Runs
  <2> QED BY <2>3, <2>9
<1>3. \E f : Runs(f, n)
  <2>1. n \in 0 .. n BY <1>1
  <2> QED BY <1>2, <2>1
<1> QED BY <1>3 DEF Flattens, n, Runs

LEMMA FlattenIs ==
  ASSUME NEW S, NEW s \in Seq(S), s # <<>>
  PROVE  \E f : Flattens(f, s) /\ FlattenSeq(s) = f[Len(s)]
<1> DEFINE f == CHOOSE f : Flattens(f, s)
<1>1. Flattens(f, s)
  <2> HIDE DEF f
  <2> QED BY FlattenExists DEF f
<1>2. FlattenSeq(s) = f[Len(s)]
  <2>1. Len(s) # 0 OBVIOUS
  <2> QED BY <2>1, Zenon DEF FlattenSeq, Flattens
<1> HIDE DEF f
<1> QED BY <1>1, <1>2

LEMMA FlattenOne ==
  ASSUME NEW S, NEW s \in Seq(S), Len(s) = 1
  PROVE  FlattenSeq(s) = s[1]
<1>1. s # <<>> OBVIOUS
<1>2. PICK f : Flattens(f, s) /\ FlattenSeq(s) = f[Len(s)] BY <1>1, FlattenIs
<1>3. f = [i \in 1 .. 1 |-> IF i = 1 THEN s[i] ELSE f[i - 1] \o s[i]] BY <1>2 DEF Flattens
<1>4. f[1] = s[1] BY <1>3
<1> QED BY <1>2, <1>4

LEMMA FlattenMore ==
  ASSUME NEW S, NEW s \in Seq(S), s # <<>>, NEW t \in Seq(S), NEW x,
         Len(t) = Len(s) + 1, t[Len(t)] = x, \A i \in 1 .. Len(s) : t[i] = s[i]
  PROVE  FlattenSeq(t) = FlattenSeq(s) \o x
<1> DEFINE n == Len(s)
           k == Len(t)
<1>1. n \in Nat /\ n # 0 /\ k = n + 1 /\ t # <<>> BY NonEmpty, SeqIs
<1>2. PICK f : Flattens(f, s) /\ FlattenSeq(s) = f[n] BY FlattenIs
<1>3. PICK g : Flattens(g, t) /\ FlattenSeq(t) = g[k] BY <1>1, FlattenIs
<1>4. t[k] = x /\ \A i \in 1 .. n : t[i] = s[i] OBVIOUS
<1>5. /\ \A i \in 1 .. n : f[i] = IF i = 1 THEN s[i] ELSE f[i - 1] \o s[i]
      /\ \A i \in 1 .. k : g[i] = IF i = 1 THEN t[i] ELSE g[i - 1] \o t[i]
    BY <1>2, <1>3 DEF Flattens
<1> HIDE DEF n, k
<1>6. \A i \in 1 .. n : g[i] = f[i]
  <2> DEFINE bad == {i \in 1 .. n : g[i] # f[i]}
  <2> SUFFICES ASSUME bad # {} PROVE FALSE
      OBVIOUS
  <2>1. bad \subseteq Nat OBVIOUS
  <2>2. PICK i \in bad : \A j \in bad : i <= j BY <2>1, LeastExists
  <2>3. i \in 1 .. n /\ g[i] # f[i] /\ i \in 1 .. k BY <2>2, <1>1
  <2>4. i # 1 => i - 1 \in 1 .. n /\ ~(i <= i - 1) BY <2>3, <1>1
  <2>5. i # 1 => g[i - 1] = f[i - 1] BY <2>2, <2>4
  <2> QED BY <2>3, <2>5, <1>4, <1>5
<1>7. g[k] = g[n] \o x
  <2>1. k \in 1 .. k /\ k # 1 /\ k - 1 = n BY <1>1
  <2> QED BY <2>1, <1>4, <1>5
<1>8. n \in 1 .. n BY <1>1
<1> QED BY <1>2, <1>3, <1>6, <1>7, <1>8

--------------------------------------------------------------------------------
(* A text whose codepoints are replaced, each by a sequence of its own.    *)
Codes == [Nat -> Seq(Nat)]
Spread(f, s) == FlattenSeq([i \in DOMAIN s |-> f[s[i]]])

LEMMA SpreadNone == \A f : Spread(f, <<>>) = <<>>
<1> TAKE f
<1> DEFINE t == [i \in DOMAIN <<>> |-> f[<<>>[i]]]
<1>1. t = <<>> OBVIOUS
<1>2. FlattenSeq(<<>>) = <<>> BY DEF FlattenSeq
<1> HIDE DEF t
<1> QED BY <1>1, <1>2 DEF Spread, t

LEMMA SpreadMore ==
  ASSUME NEW f \in Codes, NEW s \in Seq(Nat), NEW c \in Nat, Spread(f, s) \in Seq(Nat)
  PROVE  /\ Spread(f, Append(s, c)) = Spread(f, s) \o f[c]
         /\ Spread(f, Append(s, c)) \in Seq(Nat)
<1> DEFINE t == [i \in DOMAIN s |-> f[s[i]]]
           a == Append(s, c)
           v == [i \in DOMAIN a |-> f[a[i]]]
           x == f[c]
<1>1. /\ x \in Seq(Nat) /\ a \in Seq(Nat) /\ Len(a) = Len(s) + 1 /\ a[Len(a)] = c
      /\ \A i \in 1 .. Len(s) : a[i] = s[i]
  BY DEF Codes
<1>2. DOMAIN s = 1 .. Len(s) /\ DOMAIN a = 1 .. Len(a) /\ Len(s) \in Nat
  BY <1>1, SeqIs
<1> HIDE DEF a, x
<1>3. \A i \in 1 .. Len(s) : i \in 1 .. Len(a) BY <1>1, <1>2
<1>4. t \in Seq(Seq(Nat)) /\ Len(t) = Len(s)
  <2>1. t \in [1 .. Len(s) -> Seq(Nat)] BY <1>2, SeqIs DEF Codes
  <2> QED BY <1>2, <2>1, Listed
<1>5. v \in Seq(Seq(Nat)) /\ Len(v) = Len(a)
  <2>1. v \in [1 .. Len(a) -> Seq(Nat)] BY <1>1, <1>2, SeqIs DEF Codes
  <2>2. Len(a) \in Nat BY <1>1, SeqIs
  <2> QED BY <2>1, <2>2, Listed
<1>6. Len(a) \in 1 .. Len(a) BY <1>1, <1>2
<1>7. v[Len(v)] = x /\ \A i \in 1 .. Len(t) : v[i] = t[i]
  BY <1>1, <1>2, <1>3, <1>4, <1>5, <1>6 DEF x
<1>8. Spread(f, s) = FlattenSeq(t) /\ Spread(f, a) = FlattenSeq(v)
  BY DEF Spread
<1> HIDE DEF t, v
<1>9. CASE s = <<>>
  <2>0. Len(v) = Len(s) + 1 /\ Len(s) = 0 BY <1>1, <1>5, <1>9
  <2>1. Len(v) = 1 /\ v # <<>>
    <3> HIDE DEF v
    <3> QED BY <2>0
  <2>2. FlattenSeq(v) = x BY <2>1, <1>5, <1>7, FlattenOne
  <2>3. Spread(f, s) = <<>> BY <1>9, SpreadNone
  <2>4. <<>> \o x = x BY <1>1
  <2>5. Spread(f, a) = Spread(f, s) \o x /\ Spread(f, a) \in Seq(Nat)
    BY <1>1, <1>8, <2>2, <2>3, <2>4
  <2> QED BY <2>5 DEF a, x
<1>10. CASE s # <<>>
  <2>1. t # <<>> /\ Len(v) = Len(t) + 1 BY <1>1, <1>4, <1>5, <1>10
  <2>2. FlattenSeq(v) = FlattenSeq(t) \o x BY <2>1, <1>4, <1>5, <1>7, FlattenMore
  <2>3. Spread(f, a) = Spread(f, s) \o x BY <1>8, <2>2
  <2>4. Spread(f, s) \o x \in Seq(Nat) BY <1>1
  <2> QED BY <2>3, <2>4 DEF a, x
<1> QED BY <1>9, <1>10

LEMMA PopIs ==
  ASSUME NEW S, NEW s \in Seq(S), s # <<>>
  PROVE  \E r \in Seq(S), c \in S : s = Append(r, c) /\ Len(s) = Len(r) + 1
<1> DEFINE n == Len(s)
           r == SubSeq(s, 1, n - 1)
           c == s[n]
<1>1. n \in Nat /\ n # 0 /\ n - 1 \in 0 .. n BY NonEmpty
<1>2. r \in Seq(S) /\ Len(r) = n - 1 BY <1>1, Split
<1>3. n \in 1 .. n BY <1>1
<1>4. c \in S BY <1>3, SeqIs
<1>5. s = Append(r, c) BY <1>1, <1>2
<1>6. Len(s) = Len(r) + 1 BY <1>1, <1>2
<1> HIDE DEF n, r, c
<1> QED BY <1>2, <1>4, <1>5, <1>6

LEMMA Regroup ==
  ASSUME NEW x \in Seq(Nat), NEW y \in Seq(Nat), NEW z \in Seq(Nat)
  PROVE  (x \o y) \o z = x \o (y \o z)
OBVIOUS

LEMMA Appended == \A s \in Seq(Nat), c \in Nat : Append(s, c) = s \o <<c>> /\ <<c>> \in Seq(Nat)
BY AppendIsConcat

LEMMA SpreadIs == ASSUME NEW f \in Codes, NEW s \in Seq(Nat) PROVE Spread(f, s) \in Seq(Nat)
<1> DEFINE bad == {m \in Nat : \E r \in Seq(Nat) : Len(r) = m /\ Spread(f, r) \notin Seq(Nat)}
<1>1. bad = {}
  <2> SUFFICES ASSUME bad # {} PROVE FALSE
    OBVIOUS
  <2>1. bad \subseteq Nat OBVIOUS
  <2>2. PICK m \in bad : \A y \in bad : m <= y BY <2>1, LeastExists
  <2>3. PICK r \in Seq(Nat) : Len(r) = m /\ Spread(f, r) \notin Seq(Nat) BY <2>2
  <2>4. r # <<>>
    <3>1. <<>> \in Seq(Nat) OBVIOUS
    <3> QED BY <2>3, <3>1, SpreadNone
  <2>5. PICK q \in Seq(Nat), c \in Nat : r = Append(q, c) /\ Len(r) = Len(q) + 1
    BY <2>3, <2>4, PopIs
  <2>6. Len(q) \in Nat /\ ~(m <= Len(q)) BY <2>3, <2>5
  <2>7. Spread(f, q) \in Seq(Nat) BY <2>2, <2>6
  <2>8. Spread(f, r) \in Seq(Nat) BY <2>5, <2>7, SpreadMore
  <2> QED BY <2>3, <2>8
<1>2. Len(s) \in Nat OBVIOUS
<1> HIDE DEF bad
<1>3. Len(s) \notin bad BY <1>1
<1> QED BY <1>2, <1>3 DEF bad

LEMMA SpreadJoin ==
  ASSUME NEW f \in Codes, NEW s \in Seq(Nat), NEW t \in Seq(Nat)
  PROVE  Spread(f, s \o t) = Spread(f, s) \o Spread(f, t)
<1> DEFINE bad == {m \in Nat : \E r \in Seq(Nat) :
                      Len(r) = m /\ Spread(f, s \o r) # Spread(f, s) \o Spread(f, r)}
<1>0. Spread(f, s) \in Seq(Nat) BY SpreadIs
<1>1. bad = {}
  <2> SUFFICES ASSUME bad # {} PROVE FALSE
    OBVIOUS
  <2>1. bad \subseteq Nat OBVIOUS
  <2> HIDE DEF bad
  <2>2. PICK m \in bad : \A y \in bad : m <= y BY <2>1, LeastExists
  <2>3. PICK r \in Seq(Nat) : Len(r) = m /\ Spread(f, s \o r) # Spread(f, s) \o Spread(f, r) BY <2>2 DEF bad
  <2>4. r # <<>>
    <3>1. s \o <<>> = s OBVIOUS
    <3>2. Spread(f, s) \o <<>> = Spread(f, s) BY <1>0
    <3> QED BY <2>3, <3>1, <3>2, SpreadNone
  <2>5. PICK q \in Seq(Nat), c \in Nat : r = Append(q, c) /\ Len(r) = Len(q) + 1
    BY <2>3, <2>4, PopIs
  <2>6. Len(q) \in Nat /\ ~(m <= Len(q)) BY <2>3, <2>5
  <2>7. Spread(f, s \o q) = Spread(f, s) \o Spread(f, q) BY <2>2, <2>6 DEF bad
  <2>8. s \o q \in Seq(Nat) /\ s \o r = Append(s \o q, c)
    <3>1. <<c>> \in Seq(Nat) /\ s \o q \in Seq(Nat) BY ConcatProperties, <2>5
    <3>2. r = q \o <<c>> /\ Append(s \o q, c) = (s \o q) \o <<c>>
      BY <2>5, <3>1, Appended, Zenon
    <3>3. (s \o q) \o <<c>> = s \o (q \o <<c>>)
      <4>1. ASSUME NEW z \in Seq(Nat) PROVE (s \o q) \o z = s \o (q \o z)
        BY Regroup
      <4> QED BY <3>1, <4>1, Zenon
    <3> QED BY <3>1, <3>2, <3>3, Zenon
  <2>9. Spread(f, s \o q) \in Seq(Nat) /\ Spread(f, q) \in Seq(Nat) /\ f[c] \in Seq(Nat)
    BY <2>8, SpreadIs DEF Codes
  <2>10. Spread(f, s \o r) = Spread(f, s \o q) \o f[c]
    <3>1. Spread(f, Append(s \o q, c)) = Spread(f, s \o q) \o f[c]
      BY <2>5, <2>8, <2>9, SpreadMore
    <3> QED BY <2>8, <3>1, Zenon
  <2>13. Spread(f, r) = Spread(f, q) \o f[c]
    BY <2>5, <2>9, SpreadMore, Zenon
  <2>12. (Spread(f, s) \o Spread(f, q)) \o f[c] = Spread(f, s) \o (Spread(f, q) \o f[c])
    BY <1>0, <2>9, Regroup, Zenon
  <2> QED BY <2>3, <2>7, <2>10, <2>12, <2>13
<1>2. Len(t) \in Nat OBVIOUS
<1> HIDE DEF bad
<1>3. Len(t) \notin bad BY <1>1
<1> QED BY <1>2, <1>3 DEF bad

LEMMA SpreadOne == ASSUME NEW f \in Codes, NEW c \in Nat PROVE Spread(f, <<c>>) = f[c]
<1>1. <<>> \in Seq(Nat) /\ Append(<<>>, c) = <<c>> OBVIOUS
<1>2. f[c] \in Seq(Nat) BY DEF Codes
<1>3. <<>> \o f[c] = f[c] BY <1>2
<1>4. Spread(f, <<>>) = <<>> BY SpreadNone
<1>5. Spread(f, Append(<<>>, c)) = <<>> \o f[c] BY <1>1, <1>4, SpreadMore
<1> QED BY <1>1, <1>3, <1>5

--------------------------------------------------------------------------------
(* The places of the codepoints in the canonical order. *)
LEMMA MaxIs ==
  ASSUME NEW n \in Nat, NEW I, I \subseteq 0 .. n, I # {}
  PROVE  Max(I) \in I /\ \A y \in I : y <= Max(I)
<1> DEFINE J == {n - x : x \in I}
<1>1. J \subseteq Nat /\ J # {}
  <2>1. PICK x \in I : TRUE
    OBVIOUS
  <2>2. n - x \in J
    BY <2>1
  <2>3. \A y \in I : n - y \in Nat
    OBVIOUS
  <2> QED BY <2>2, <2>3
<1>2. Min(J) \in J /\ \A y \in J : Min(J) <= y
  <2> HIDE DEF J
  <2> QED BY <1>1, MinIn
<1>3. PICK x \in I : Min(J) = n - x
  BY <1>2
<1>4. \A y \in I : y <= x
  <2> SUFFICES ASSUME NEW y \in I PROVE y <= x
    OBVIOUS
  <2>1. n - y \in J
    OBVIOUS
  <2>2. n - x <= n - y
    BY <1>2, <1>3, <2>1
  <2> QED BY <2>2
<1> QED BY <1>4 DEF Max

LEMMA CccIs == \A cp \in Nat : Ccc(cp) \in Int
BY ClassAssumption DEF Ccc

--------------------------------------------------------------------------------
(* The order of the marks. *)
Rank(u, i) == 1 + Cardinality({j \in DOMAIN u : Precedes(u, j, i)})

(* Every place is taken by one codepoint. *)
Ranked(u) ==
  /\ \A i \in 1 .. Len(u) : Rank(u, i) \in 1 .. Len(u)
  /\ \A i, j \in 1 .. Len(u) : Rank(u, i) = Rank(u, j) => i = j
  /\ \A k \in 1 .. Len(u) : \E i \in 1 .. Len(u) : Rank(u, i) = k

LEMMA CanonIs ==
  ASSUME NEW u \in Seq(Nat), Ranked(u)
  PROVE  /\ Canon(u) \in Seq(Nat) /\ Len(Canon(u)) = Len(u)
         /\ \A i \in 1 .. Len(u) : Canon(u)[Rank(u, i)] = u[i]
<1> DEFINE place == [i \in DOMAIN u |-> 1 + Cardinality({j \in DOMAIN u : Precedes(u, j, i)})]
           at(k) == CHOOSE i \in DOMAIN u : place[i] = k
<1>1. DOMAIN u = 1 .. Len(u) /\ Len(u) \in Nat BY SeqIs
<1>2. \A i \in 1 .. Len(u) : place[i] = Rank(u, i) BY <1>1 DEF Rank
<1>3. Canon(u) = [k \in DOMAIN u |-> u[at(k)]] BY DEF Canon
<1> HIDE DEF place
<1>4. ASSUME NEW k \in 1 .. Len(u) PROVE at(k) \in 1 .. Len(u) /\ Rank(u, at(k)) = k
  <2>1. \E i \in DOMAIN u : place[i] = k BY <1>1, <1>2 DEF Ranked
  <2>2. at(k) \in DOMAIN u /\ place[at(k)] = k BY <2>1
  <2> QED BY <1>1, <1>2, <2>2
<1> HIDE DEF at
<1>5. Canon(u) \in [1 .. Len(u) -> Nat] BY <1>1, <1>3, <1>4, SeqIs
<1>6. ASSUME NEW i \in 1 .. Len(u) PROVE Canon(u)[Rank(u, i)] = u[i]
  <2>1. Rank(u, i) \in 1 .. Len(u) BY DEF Ranked
  <2>2. at(Rank(u, i)) = i BY <1>4, <2>1 DEF Ranked
  <2> QED BY <1>1, <1>3, <2>1, <2>2
<1> QED BY <1>1, <1>5, <1>6, Listed

(* The codepoint the sequence of the i-th begins at. *)
LEMMA HeadIs ==
  ASSUME NEW u \in Seq(Nat), NEW i \in 1 .. Len(u)
  PROVE  /\ HeadOf(u, i) \in 1 .. i
         /\ HeadOf(u, i) = 1 \/ Ccc(u[HeadOf(u, i)]) = 0
         /\ \A j \in 1 .. i : j = 1 \/ Ccc(u[j]) = 0 => j <= HeadOf(u, i)
<1> DEFINE I == {j \in 1 .. i : j = 1 \/ Ccc(u[j]) = 0}
<1>1. I \subseteq 0 .. i /\ 1 \in I /\ i \in Nat
  BY SeqIs
<1>2. HeadOf(u, i) = Max(I) BY DEF HeadOf
<1>3. \A j \in I : j \in 1 .. i /\ (j = 1 \/ Ccc(u[j]) = 0) OBVIOUS
<1>4. \A j \in 1 .. i : j = 1 \/ Ccc(u[j]) = 0 => j \in I OBVIOUS
<1> HIDE DEF I
<1>5. I # {} BY <1>1
<1>6. Max(I) \in I /\ \A y \in I : y <= Max(I) BY <1>1, <1>5, MaxIs
<1> QED BY <1>2, <1>3, <1>4, <1>6

(* What is read later changes nothing of what was read.                    *)
LEMMA OrderStays ==
  ASSUME NEW u \in Seq(Nat), NEW c \in Nat, NEW i \in 1 .. Len(u)
  PROVE  /\ HeadOf(Append(u, c), i) = HeadOf(u, i)
         /\ Portion(Append(u, c), i) = Portion(u, i)
<1> DEFINE v == Append(u, c)
<1>1. \A j \in 1 .. i : v[j] = u[j]
  <2>1. Len(u) \in Nat BY SeqIs
  <2>2. \A j \in 1 .. i : j \in 1 .. Len(u) BY <2>1
  <2> QED BY <2>2
<1> HIDE DEF v
<1>2. {j \in 1 .. i : j = 1 \/ Ccc(v[j]) = 0} = {j \in 1 .. i : j = 1 \/ Ccc(u[j]) = 0}
  BY <1>1
<1>3. HeadOf(v, i) = HeadOf(u, i) BY <1>2, Zenon DEF HeadOf
<1> QED BY <1>3 DEF v, Portion

LEMMA PrecedesStays ==
  ASSUME NEW u \in Seq(Nat), NEW c \in Nat, NEW i \in 1 .. Len(u), NEW j \in 1 .. Len(u)
  PROVE  Precedes(Append(u, c), i, j) <=> Precedes(u, i, j)
<1>1. Append(u, c)[i] = u[i] /\ Append(u, c)[j] = u[j] OBVIOUS
<1>2. Portion(Append(u, c), i) = Portion(u, i) /\ Portion(Append(u, c), j) = Portion(u, j)
  BY OrderStays
<1> QED BY <1>1, <1>2, Zenon DEF Precedes

(* As many codepoints as there are places up to b stand up to b. *)
LEMMA UpTo ==
  ASSUME NEW u \in Seq(Nat), Ranked(u), NEW b \in 0 .. Len(u)
  PROVE  Cardinality({j \in 1 .. Len(u) : Rank(u, j) <= b}) = b
<1> DEFINE T == {j \in 1 .. Len(u) : Rank(u, j) <= b}
           f == [k \in 1 .. b |-> CHOOSE i \in 1 .. Len(u) : Rank(u, i) = k]
<1>1. Len(u) \in Nat /\ b \in Nat BY SeqIs
<1>2. ASSUME NEW k \in 1 .. b PROVE f[k] \in 1 .. Len(u) /\ Rank(u, f[k]) = k
  <2>1. k \in 1 .. Len(u) BY <1>1
  <2>2. \E i \in 1 .. Len(u) : Rank(u, i) = k BY <2>1 DEF Ranked
  <2> QED BY <2>2
<1> HIDE DEF f
<1>3. f \in [1 .. b -> T]
  <2>1. \A k \in 1 .. b : f[k] \in T BY <1>1, <1>2
  <2> HIDE DEF T
  <2> QED BY <2>1 DEF f
<1>4. \A k, m \in 1 .. b : f[k] = f[m] => k = m BY <1>2
<1>5. \A j \in T : \E k \in 1 .. b : f[k] = j
  <2> SUFFICES ASSUME NEW j \in T PROVE \E k \in 1 .. b : f[k] = j
    OBVIOUS
  <2>1. Rank(u, j) \in 1 .. b BY <1>1 DEF Ranked
  <2>2. f[Rank(u, j)] = j BY <1>2, <2>1 DEF Ranked
  <2> QED BY <2>1, <2>2
<1> HIDE DEF T
<1>6. ExistsBijection(1 .. b, T)
  <2>1. f \in Injection(1 .. b, T) BY <1>3, <1>4 DEF Injection, IsInjective
  <2>2. f \in Surjection(1 .. b, T) BY <1>3, <1>5, Zenon DEF Surjection
  <2>3. f \in Bijection(1 .. b, T) BY <2>1, <2>2, Zenon DEF Bijection
  <2> QED BY <2>3 DEF ExistsBijection
<1>7. Cardinality(T) = b BY <1>1, <1>6, FS_CountingElements
<1> QED BY <1>7 DEF T

--------------------------------------------------------------------------------
(* A codepoint that is read finds its place. *)
(* A codepoint set in behind the first b of a sequence. *)
SetIn(s, b, c) == SubSeq(s, 1, b) \o <<c>> \o SubSeq(s, b + 1, Len(s))

LEMMA SetInIs ==
  ASSUME NEW s \in Seq(Nat), NEW b \in 0 .. Len(s), NEW c \in Nat
  PROVE  /\ SetIn(s, b, c) \in Seq(Nat) /\ Len(SetIn(s, b, c)) = Len(s) + 1
         /\ SetIn(s, b, c)[b + 1] = c
         /\ \A i \in 1 .. Len(s) : SetIn(s, b, c)[IF i <= b THEN i ELSE i + 1] = s[i]
<1> DEFINE l == SubSeq(s, 1, b)
           m == <<c>>
           r == SubSeq(s, b + 1, Len(s))
<1>1. /\ l \in Seq(Nat) /\ Len(l) = b
      /\ r \in Seq(Nat) /\ Len(r) = Len(s) - b
  BY Split
<1>2. Len(s) \in Nat /\ b \in Nat /\ b <= Len(s) BY SeqIs
<1>3. /\ \A i \in 1 .. b : l[i] = s[i]
      /\ \A i \in 1 .. Len(s) - b : r[i] = s[b + i]
  <2>1. \A i \in b + 1 .. Len(s) : s[i] \in Nat BY <1>2, SeqIs
  <2>2. \A i \in 1 .. b : s[i] \in Nat BY <1>2, SeqIs
  <2>3. \A i \in 1 .. b - 1 + 1 : l[i] = s[1 + i - 1] BY <1>2, <2>2, SubSeqProperties
  <2>4. \A i \in 1 .. Len(s) - (b + 1) + 1 : r[i] = s[b + 1 + i - 1] BY <1>2, <2>1, SubSeqProperties
  <2> QED BY <1>2, <2>3, <2>4
<1>4. m \in Seq(Nat) /\ Len(m) = 1 /\ m[1] = c OBVIOUS
<1>5. SetIn(s, b, c) = l \o m \o r BY DEF SetIn
<1> HIDE DEF l, m, r
<1> DEFINE a == l \o m
<1>6. /\ a \in Seq(Nat) /\ Len(a) = b + 1
      /\ \A i \in 1 .. b : a[i] = l[i]
      /\ a[b + 1] = c
  <2>1. /\ a \in Seq(Nat) /\ Len(a) = Len(l) + Len(m)
        /\ \A i \in 1 .. Len(l) + Len(m) : a[i] = IF i <= Len(l) THEN l[i] ELSE m[i - Len(l)]
    BY <1>1, <1>4, ConcatProperties
  <2> HIDE DEF a
  <2>2. \A i \in 1 .. b + 1 : a[i] = IF i <= b THEN l[i] ELSE m[i - b] BY <1>1, <1>4, <2>1
  <2>3. b + 1 \in 1 .. b + 1 /\ ~(b + 1 <= b) /\ b + 1 - b = 1 BY <1>2
  <2>4. \A i \in 1 .. b : i \in 1 .. b + 1 /\ i <= b BY <1>2
  <2> QED BY <1>1, <1>4, <2>1, <2>2, <2>3, <2>4
<1>7. SetIn(s, b, c) = a \o r BY <1>5
<1> HIDE DEF a
<1> DEFINE t == a \o r
<1>8. /\ t \in Seq(Nat) /\ Len(t) = Len(s) + 1
      /\ \A i \in 1 .. Len(s) + 1 : t[i] = IF i <= b + 1 THEN a[i] ELSE r[i - (b + 1)]
  <2>1. \A i \in 1 .. Len(a) + Len(r) : t[i] = IF i <= Len(a) THEN a[i] ELSE r[i - Len(a)]
    BY <1>1, <1>6, ConcatProperties
  <2>2. t \in Seq(Nat) /\ Len(t) = Len(a) + Len(r) BY <1>1, <1>6, ConcatProperties
  <2> HIDE DEF t
  <2>3. Len(a) + Len(r) = Len(s) + 1 BY <1>1, <1>2, <1>6
  <2> QED BY <1>1, <1>6, <2>1, <2>2, <2>3
<1> HIDE DEF t
<1>9. t[b + 1] = c BY <1>2, <1>6, <1>8
<1>10. ASSUME NEW i \in 1 .. Len(s) PROVE t[IF i <= b THEN i ELSE i + 1] = s[i]
  <2>1. CASE i <= b
    <3>1. i \in 1 .. b /\ i \in 1 .. Len(s) + 1 /\ i <= b + 1 BY <1>2, <2>1
    <3>2. t[i] = a[i] BY <1>8, <3>1
    <3> QED BY <1>3, <1>6, <2>1, <3>1, <3>2
  <2>2. CASE ~(i <= b)
    <3>1. i + 1 \in 1 .. Len(s) + 1 /\ ~(i + 1 <= b + 1) /\ i - b \in 1 .. Len(s) - b
      BY <1>2, <2>2
    <3>2. t[i + 1] = r[i - b] BY <1>2, <1>8, <3>1
    <3>3. r[i - b] = s[i] BY <1>2, <1>3, <3>1
    <3> QED BY <2>2, <3>2, <3>3
  <2> QED BY <2>1, <2>2
<1> QED BY <1>7, <1>8, <1>9, <1>10 DEF t

(* It is found by its places. *)
LEMMA SetInBy ==
  ASSUME NEW s \in Seq(Nat), NEW b \in 0 .. Len(s), NEW c \in Nat,
         NEW t \in Seq(Nat), Len(t) = Len(s) + 1, t[b + 1] = c,
         \A i \in 1 .. Len(s) : t[IF i <= b THEN i ELSE i + 1] = s[i]
  PROVE  t = SetIn(s, b, c)
<1> DEFINE v == SetIn(s, b, c)
<1>1. /\ v \in Seq(Nat) /\ Len(v) = Len(s) + 1 /\ v[b + 1] = c
      /\ \A i \in 1 .. Len(s) : v[IF i <= b THEN i ELSE i + 1] = s[i]
  BY SetInIs
<1> HIDE DEF v
<1>2. Len(s) \in Nat /\ b \in Nat /\ b <= Len(s) BY SeqIs
<1>3. ASSUME NEW k \in 1 .. Len(t) PROVE t[k] = v[k]
  <2>1. CASE k <= b
    <3>1. k \in 1 .. Len(s) BY <1>2, <2>1
    <3> QED BY <1>1, <2>1, <3>1
  <2>2. CASE k = b + 1 BY <1>1, <2>2
  <2>3. CASE k > b + 1
    <3>1. k - 1 \in 1 .. Len(s) /\ ~(k - 1 <= b) /\ k - 1 + 1 = k BY <1>2, <2>3
    <3>2. t[k - 1 + 1] = s[k - 1] /\ v[k - 1 + 1] = s[k - 1] BY <1>1, <3>1
    <3> QED BY <3>1, <3>2
  <2> QED BY <1>2, <2>1, <2>2, <2>3
<1>4. t = v BY <1>1, <1>3, SeqEqual
<1> QED BY <1>4 DEF v

LEMMA SetInAfter ==
  ASSUME NEW p \in Seq(Nat), NEW s \in Seq(Nat), NEW b \in 0 .. Len(s), NEW c \in Nat
  PROVE  SetIn(p \o s, Len(p) + b, c) = p \o SetIn(s, b, c)
<1> DEFINE v == SetIn(s, b, c)
<1>1. /\ v \in Seq(Nat) /\ Len(v) = Len(s) + 1 /\ v[b + 1] = c
      /\ \A i \in 1 .. Len(s) : v[IF i <= b THEN i ELSE i + 1] = s[i]
  <2>1. v = SetIn(s, b, c) OBVIOUS
  <2> HIDE DEF v
  <2>2. SetIn(s, b, c) \in Seq(Nat) BY SetInIs
  <2>3. Len(SetIn(s, b, c)) = Len(s) + 1 /\ SetIn(s, b, c)[b + 1] = c BY SetInIs
  <2>4. \A i \in 1 .. Len(s) : SetIn(s, b, c)[IF i <= b THEN i ELSE i + 1] = s[i] BY SetInIs
  <2> QED BY <2>1, <2>2, <2>3, <2>4, Zenon
<1>2. Len(s) \in Nat /\ Len(p) \in Nat /\ b \in Nat /\ b <= Len(s) BY SeqIs
<1> HIDE DEF v
<1> DEFINE q == p \o s
           t == p \o v
<1>3. /\ q \in Seq(Nat) /\ Len(q) = Len(p) + Len(s)
      /\ \A i \in 1 .. Len(p) + Len(s) : q[i] = IF i <= Len(p) THEN p[i] ELSE s[i - Len(p)]
  BY ConcatProperties
<1>4. /\ t \in Seq(Nat) /\ Len(t) = Len(p) + Len(v)
      /\ \A i \in 1 .. Len(p) + Len(v) : t[i] = IF i <= Len(p) THEN p[i] ELSE v[i - Len(p)]
  BY <1>1, ConcatProperties
<1> HIDE DEF q, t
<1> DEFINE d == Len(p) + b
<1>5. d \in 0 .. Len(q) BY <1>2, <1>3
<1>6. t[d + 1] = c
  <2>1. d + 1 \in 1 .. Len(p) + Len(v) /\ ~(d + 1 <= Len(p)) /\ d + 1 - Len(p) = b + 1
    BY <1>1, <1>2
  <2> QED BY <1>1, <1>4, <2>1
<1>7. ASSUME NEW i \in 1 .. Len(q) PROVE t[IF i <= d THEN i ELSE i + 1] = q[i]
  <2>1. CASE i <= Len(p)
    <3>1. i \in 1 .. Len(p) + Len(s) /\ i \in 1 .. Len(p) + Len(v) /\ i <= d
      <4>1. i \in Nat /\ 1 <= i BY <1>3
      <4> QED BY <1>1, <1>2, <2>1, <4>1
    <3>2. q[i] = p[i] /\ t[i] = p[i] BY <1>3, <1>4, <2>1, <3>1
    <3> QED BY <3>1, <3>2
  <2>2. CASE ~(i <= Len(p))
    <3> DEFINE k == i - Len(p)
    <3>1. k \in 1 .. Len(s) /\ (i <= d <=> k <= b) /\ i = Len(p) + k BY <1>2, <1>3, <2>2
    <3>2. q[i] = s[k] BY <1>3, <2>2
    <3>3. v[IF k <= b THEN k ELSE k + 1] = s[k] BY <1>1, <3>1
    <3>4. CASE k <= b
      <4>1. i \in 1 .. Len(p) + Len(v) BY <1>1, <1>2, <1>3
      <4>2. t[i] = v[k] BY <1>4, <2>2, <4>1
      <4> QED BY <3>1, <3>2, <3>3, <3>4, <4>2
    <3>5. CASE ~(k <= b)
      <4>1. i + 1 \in 1 .. Len(p) + Len(v) /\ ~(i + 1 <= Len(p)) /\ i + 1 - Len(p) = k + 1
        <5>1. i \in 1 .. Len(p) + Len(s) BY <1>3
        <5> QED BY <1>1, <1>2, <2>2, <5>1
      <4>2. t[i + 1] = v[k + 1] BY <1>4, <4>1
      <4> QED BY <3>1, <3>2, <3>3, <3>5, <4>2
    <3> QED BY <3>4, <3>5
  <2> QED BY <2>1, <2>2
<1>8. Len(t) = Len(q) + 1 BY <1>1, <1>2, <1>3, <1>4
<1> HIDE DEF d
<1>9. t = SetIn(q, d, c) BY <1>3, <1>4, <1>5, <1>6, <1>7, <1>8, SetInBy
<1> QED BY <1>9 DEF q, t, d, v

LEMMA SetInLast ==
  ASSUME NEW s \in Seq(Nat), NEW c \in Nat
  PROVE  SetIn(s, Len(s), c) = s \o <<c>>
<1> DEFINE t == s \o <<c>>
<1>1. Len(s) \in Nat /\ Len(s) \in 0 .. Len(s) BY SeqIs
<1>2. /\ t \in Seq(Nat) /\ Len(t) = Len(s) + 1 /\ t[Len(s) + 1] = c
      /\ \A i \in 1 .. Len(s) : t[i] = s[i]
  OBVIOUS
<1> HIDE DEF t
<1>3. t = SetIn(s, Len(s), c)
  <2>1. \A i \in 1 .. Len(s) : t[IF i <= Len(s) THEN i ELSE i + 1] = s[i] BY <1>1, <1>2
  <2> QED BY <1>1, <1>2, <2>1, SetInBy
<1> QED BY <1>3 DEF t

--------------------------------------------------------------------------------
(* The codepoint that is read next takes place b + 1. *)
LEMMA RankGrows ==
  ASSUME NEW u \in Seq(Nat), Ranked(u), NEW c \in Nat, NEW b \in 0 .. Len(u),
         \A i \in 1 .. Len(u) :
           /\ Precedes(Append(u, c), Len(u) + 1, i) <=> Rank(u, i) > b
           /\ Precedes(Append(u, c), i, Len(u) + 1) <=> Rank(u, i) <= b
  PROVE  /\ Rank(Append(u, c), Len(u) + 1) = b + 1
         /\ \A i \in 1 .. Len(u) :
              Rank(Append(u, c), i) = IF Rank(u, i) <= b THEN Rank(u, i) ELSE Rank(u, i) + 1
         /\ Ranked(Append(u, c))
         /\ Canon(Append(u, c)) = SetIn(Canon(u), b, c)
<1> DEFINE n == Len(u)
           v == Append(u, c)
<1>1. n \in Nat /\ b \in Nat /\ b <= n BY SeqIs
<1>2. /\ v \in Seq(Nat) /\ Len(v) = n + 1 /\ DOMAIN v = 1 .. n + 1 /\ v[n + 1] = c
      /\ \A i \in 1 .. n : v[i] = u[i]
  OBVIOUS
<1>3. DOMAIN u = 1 .. n BY SeqIs
<1>4. \A i, j \in 1 .. n : Precedes(v, i, j) <=> Precedes(u, i, j) BY PrecedesStays
<1>5. \A i \in 1 .. n : Rank(u, i) \in 1 .. n BY DEF Ranked
<1>6. \A i \in 1 .. n : /\ Precedes(v, n + 1, i) <=> Rank(u, i) > b
                        /\ Precedes(v, i, n + 1) <=> Rank(u, i) <= b
  OBVIOUS
<1> HIDE DEF n, v
<1>7. ~Precedes(v, n + 1, n + 1)
  <2>1. Ccc(v[n + 1]) \in Int BY <1>2, CccIs
  <2> QED BY <1>1, <2>1 DEF Precedes
<1>8. Rank(v, n + 1) = b + 1
  <2>1. {j \in DOMAIN v : Precedes(v, j, n + 1)} = {j \in 1 .. n : Rank(u, j) <= b}
    BY <1>1, <1>2, <1>6, <1>7
  <2>2. Cardinality({j \in 1 .. n : Rank(u, j) <= b}) = b BY UpTo DEF n
  <2>3. Rank(v, n + 1) = 1 + Cardinality({j \in DOMAIN v : Precedes(v, j, n + 1)})
    BY Zenon DEF Rank
  <2>4. Rank(v, n + 1) = 1 + b BY <2>1, <2>2, <2>3, Zenon
  <2> QED BY <1>1, <2>4
<1>9. ASSUME NEW i \in 1 .. n
      PROVE  Rank(v, i) = IF Rank(u, i) <= b THEN Rank(u, i) ELSE Rank(u, i) + 1
  <2> DEFINE A == {j \in DOMAIN u : Precedes(u, j, i)}
             B == {j \in DOMAIN v : Precedes(v, j, i)}
  <2>1. IsFiniteSet(A) /\ n + 1 \notin A /\ Cardinality(A) \in Nat
    <3>1. IsFiniteSet(1 .. n) BY <1>1, FS_Interval
    <3>2. A \in SUBSET (1 .. n) BY <1>3
    <3>3. IsFiniteSet(A) BY <3>1, <3>2, FS_Subset
    <3>4. Cardinality(A) \in Nat BY <3>3, FS_CardinalityType
    <3>5. n + 1 \notin 1 .. n BY <1>1
    <3> QED BY <3>2, <3>3, <3>4, <3>5
  <2>2. B = IF Rank(u, i) <= b THEN A ELSE A \cup {n + 1}
    <3>1. \A j \in 1 .. n : j \in B <=> j \in A BY <1>1, <1>2, <1>3, <1>4
    <3>2. n + 1 \in B <=> ~(Rank(u, i) <= b)
      <4>1. n + 1 \in B <=> Precedes(v, n + 1, i) BY <1>1, <1>2
      <4>2. Rank(u, i) \in Int BY <1>5
      <4>3. Precedes(v, n + 1, i) <=> Rank(u, i) > b BY <1>6
      <4> QED BY <1>1, <4>1, <4>2, <4>3
    <3>3. B \subseteq (1 .. n) \cup {n + 1} /\ A \subseteq 1 .. n BY <1>1, <1>2, <1>3
    <3> HIDE DEF A, B
    <3>4. \A x \in A : x \in 1 .. n /\ x \in B BY <3>1, <3>3
    <3>5. \A x \in B : x \in A \/ x = n + 1 BY <3>1, <3>3
    <3>6. CASE Rank(u, i) <= b
      <4>1. n + 1 \notin B BY <3>2, <3>6
      <4>2. B = A BY <3>4, <3>5, <4>1
      <4> QED BY <3>6, <4>2
    <3>7. CASE ~(Rank(u, i) <= b)
      <4>1. n + 1 \in B BY <3>2, <3>7
      <4>2. B = A \cup {n + 1} BY <3>4, <3>5, <4>1
      <4> QED BY <3>7, <4>2
    <3> QED BY <3>6, <3>7
  <2>3. Rank(u, i) = 1 + Cardinality(A) /\ Rank(v, i) = 1 + Cardinality(B) BY DEF Rank
  <2> HIDE DEF A, B
  <2>4. Cardinality(A \cup {n + 1}) = Cardinality(A) + 1 BY <2>1, FS_AddElement
  <2> QED BY <2>1, <2>2, <2>3, <2>4
<1>10. Ranked(v)
  <2>0. \A i \in 1 .. n + 1 : i = n + 1 \/ i \in 1 .. n BY <1>1
  <2>1. ASSUME NEW i \in 1 .. n + 1 PROVE Rank(v, i) \in 1 .. n + 1
    <3>1. CASE i = n + 1 BY <1>1, <1>8, <3>1
    <3>2. CASE i \in 1 .. n
      <4>1. Rank(u, i) \in 1 .. n BY <1>5, <3>2
      <4>2. Rank(v, i) = IF Rank(u, i) <= b THEN Rank(u, i) ELSE Rank(u, i) + 1 BY <1>9, <3>2
      <4> QED BY <1>1, <4>1, <4>2
    <3> QED BY <2>0, <3>1, <3>2
  <2>4. \A i \in 1 .. n : Rank(v, i) # b + 1
    <3> SUFFICES ASSUME NEW i \in 1 .. n PROVE Rank(v, i) # b + 1
      OBVIOUS
    <3>1. Rank(u, i) \in 1 .. n BY <1>5
    <3>2. Rank(v, i) = IF Rank(u, i) <= b THEN Rank(u, i) ELSE Rank(u, i) + 1 BY <1>9
    <3> QED BY <1>1, <3>1, <3>2
  <2>2. ASSUME NEW i \in 1 .. n + 1, NEW j \in 1 .. n + 1, Rank(v, i) = Rank(v, j) PROVE i = j
    <3>1. CASE i = n + 1 /\ j = n + 1 BY <3>1
    <3>2. CASE i = n + 1 /\ j # n + 1 BY <1>8, <2>0, <2>2, <2>4, <3>2
    <3>3. CASE i # n + 1 /\ j = n + 1 BY <1>8, <2>0, <2>2, <2>4, <3>3
    <3>4. CASE i # n + 1 /\ j # n + 1
      <4>1. i \in 1 .. n /\ j \in 1 .. n BY <1>1, <3>4
      <4>3. Rank(u, i) \in 1 .. n /\ Rank(u, j) \in 1 .. n BY <1>5, <4>1
      <4>4. /\ Rank(v, i) = IF Rank(u, i) <= b THEN Rank(u, i) ELSE Rank(u, i) + 1
            /\ Rank(v, j) = IF Rank(u, j) <= b THEN Rank(u, j) ELSE Rank(u, j) + 1
        BY <1>9, <4>1
      <4>5. \A x, y \in 1 .. n :
              (IF x <= b THEN x ELSE x + 1) = (IF y <= b THEN y ELSE y + 1) => x = y
        BY <1>1
      <4>2. Rank(u, i) = Rank(u, j) BY <2>2, <4>3, <4>4, <4>5, Zenon
      <4> QED BY <4>1, <4>2 DEF Ranked, n
    <3> QED BY <3>1, <3>2, <3>3, <3>4
  <2>3. ASSUME NEW k \in 1 .. n + 1 PROVE \E i \in 1 .. n + 1 : Rank(v, i) = k
    <3>1. CASE k = b + 1
      <4>1. n + 1 \in 1 .. n + 1 BY <1>1
      <4> QED BY <1>8, <3>1, <4>1
    <3>2. CASE k <= b
      <4>1. k \in 1 .. n BY <1>1, <3>2
      <4>2. PICK i \in 1 .. n : Rank(u, i) = k BY <4>1 DEF Ranked, n
      <4>3. i \in 1 .. n + 1 /\ Rank(v, i) = k BY <1>1, <1>9, <3>2, <4>2
      <4> QED BY <4>3
    <3>3. CASE k > b + 1
      <4>1. k - 1 \in 1 .. n /\ ~(k - 1 <= b) /\ k - 1 + 1 = k BY <1>1, <3>3
      <4>2. PICK i \in 1 .. n : Rank(u, i) = k - 1 BY <4>1 DEF Ranked, n
      <4>4. Rank(v, i) = IF Rank(u, i) <= b THEN Rank(u, i) ELSE Rank(u, i) + 1 BY <1>9
      <4>5. Rank(v, i) = k BY <4>1, <4>2, <4>4
      <4>3. i \in 1 .. n + 1 /\ Rank(v, i) = k BY <1>1, <4>5
      <4> QED BY <4>3
    <3> QED BY <1>1, <3>1, <3>2, <3>3
  <2> QED BY <1>2, <2>1, <2>2, <2>3 DEF Ranked
<1>11. Canon(v) = SetIn(Canon(u), b, c)
  <2> DEFINE s == Canon(u)
             t == Canon(v)
  <2>1. s \in Seq(Nat) /\ Len(s) = n /\ \A i \in 1 .. n : s[Rank(u, i)] = u[i]
    BY CanonIs DEF n
  <2>2. t \in Seq(Nat) /\ Len(t) = n + 1 /\ \A i \in 1 .. n + 1 : t[Rank(v, i)] = v[i]
    BY <1>2, <1>10, CanonIs
  <2> HIDE DEF s, t
  <2>3. t[b + 1] = c
    <3>1. n + 1 \in 1 .. n + 1 BY <1>1
    <3> QED BY <1>2, <1>8, <2>2, <3>1
  <2>4. ASSUME NEW k \in 1 .. Len(s) PROVE t[IF k <= b THEN k ELSE k + 1] = s[k]
    <3>1. k \in 1 .. n BY <2>1
    <3>2. PICK i \in 1 .. n : Rank(u, i) = k BY <3>1 DEF Ranked, n
    <3>3. i \in 1 .. n + 1 /\ Rank(v, i) = IF k <= b THEN k ELSE k + 1 BY <1>1, <1>9, <3>2
    <3> QED BY <1>2, <2>1, <2>2, <3>2, <3>3
  <2>5. b \in 0 .. Len(s) /\ Len(t) = Len(s) + 1 BY <1>1, <2>1, <2>2
  <2>6. t = SetIn(s, b, c)
    <3>1. \A k \in 1 .. Len(s) : t[IF k <= b THEN k ELSE k + 1] = s[k] BY <2>4
    <3> HIDE DEF n, v
    <3>2. s \in Seq(Nat) /\ t \in Seq(Nat) /\ c \in Nat BY <2>1, <2>2
    <3> QED BY <2>3, <2>5, <3>1, <3>2, SetInBy
  <2> QED BY <2>6 DEF s, t
<1> QED BY <1>8, <1>9, <1>10, <1>11 DEF n, v

--------------------------------------------------------------------------------
(* What is in its place, and the portion that is open. *)
LEMMA Parcels ==
  /\ \A w \in Nat \ {0}, q \in Nat, r \in Nat : r < w => (w * q + r) \div w = q
  /\ \A w \in Nat \ {0}, q \in Nat, x \in Nat : x < w * q => x \div w < q
  /\ \A w \in Nat \ {0}, q \in Nat : w * q + w = w * (q + 1) /\ w * q \in Nat
  /\ \A w \in Nat \ {0} : w * 0 = 0
OBVIOUS

(* Marks in the order of their classes. *)
Ordered(win) == \A i, j \in 1 .. Len(win) : i < j => Ccc(win[i]) <= Ccc(win[j])

(* Of a text that was read, p is in its place and win is the portion that  *)
(* is still open.                                                          *)
Stands(p, win, u) ==
  /\ u \in Seq(Nat) /\ u # <<>> /\ p \in Seq(Nat) /\ win \in Seq(Nat)
  /\ Ranked(u) /\ Canon(u) = p \o win
  /\ Len(win) <= Window /\ Ordered(win)
  /\ \A i \in 1 .. Len(u) : Rank(u, i) > Len(p) <=> i > Len(p)
  /\ \E q \in Nat :
       /\ Len(u) - HeadOf(u, Len(u)) = Window * q + Len(win)
       /\ \A i \in 1 .. Len(u) : Portion(u, i) = <<HeadOf(u, Len(u)), q>> <=> i > Len(p)

LEMMA NoneRanked == Ranked(<<>>) /\ Canon(<<>>) = <<>>
<1>1. DOMAIN <<>> = 1 .. 0 /\ Len(<<>>) = 0 OBVIOUS
<1>2. Ranked(<<>>) BY <1>1 DEF Ranked
<1>3. <<>> \in Seq(Nat) OBVIOUS
<1>4. Canon(<<>>) \in Seq(Nat) /\ Len(Canon(<<>>)) = 0 BY <1>1, <1>2, <1>3, CanonIs
<1>5. \A s \in Seq(Nat) : Len(s) = 0 => s = <<>> OBVIOUS
<1> QED BY <1>2, <1>4, <1>5

(* A starter, or the first codepoint of a text, begins a sequence. *)
LEMMA NewHead ==
  ASSUME NEW u \in Seq(Nat), NEW c \in Nat
  PROVE  /\ u = <<>> \/ Ccc(c) = 0 => HeadOf(Append(u, c), Len(u) + 1) = Len(u) + 1
         /\ u # <<>> /\ Ccc(c) # 0 => HeadOf(Append(u, c), Len(u) + 1) = HeadOf(u, Len(u))
<1> DEFINE n == Len(u)
           v == Append(u, c)
           h == HeadOf(v, n + 1)
<1>1. /\ n \in Nat /\ v \in Seq(Nat) /\ Len(v) = n + 1 /\ v[n + 1] = c
      /\ \A i \in 1 .. n : v[i] = u[i]
      /\ (u = <<>> => n = 0) /\ (u # <<>> => n > 0)
  OBVIOUS
<1> HIDE DEF n, v
<1>2. n + 1 \in 1 .. Len(v) BY <1>1
<1>3. /\ h \in 1 .. n + 1 /\ (h = 1 \/ Ccc(v[h]) = 0)
      /\ \A j \in 1 .. n + 1 : j = 1 \/ Ccc(v[j]) = 0 => j <= h
  BY <1>1, <1>2, HeadIs
<1> HIDE DEF h
<1>4. ASSUME u = <<>> \/ Ccc(c) = 0 PROVE h = n + 1
  <2>1. n + 1 \in 1 .. n + 1 /\ (n + 1 = 1 \/ Ccc(v[n + 1]) = 0) BY <1>1, <1>4
  <2>2. n + 1 <= h BY <1>3, <2>1
  <2> QED BY <1>1, <1>3, <2>2
<1>5. ASSUME u # <<>>, Ccc(c) # 0 PROVE h = HeadOf(u, n)
  <2> DEFINE g == HeadOf(u, n)
  <2>1. n \in 1 .. Len(u) BY <1>1, <1>5 DEF n
  <2>2. /\ g \in 1 .. n /\ (g = 1 \/ Ccc(u[g]) = 0)
        /\ \A j \in 1 .. n : j = 1 \/ Ccc(u[j]) = 0 => j <= g
    BY <2>1, HeadIs
  <2> HIDE DEF g
  <2>3. h # n + 1 BY <1>1, <1>3, <1>5
  <2>4. h \in 1 .. n BY <1>1, <1>3, <2>3
  <2>5. h <= g BY <1>1, <1>3, <2>2, <2>4
  <2>6. g \in 1 .. n + 1 /\ (g = 1 \/ Ccc(v[g]) = 0) BY <1>1, <2>2
  <2>7. g <= h BY <1>3, <2>6
  <2>8. h = g BY <2>2, <2>4, <2>5, <2>7
  <2> QED BY <2>8 DEF g
<1> QED BY <1>4, <1>5 DEF h, n, v

(* A codepoint that begins a portion stands behind all that was read. *)
LEMMA Apart ==
  ASSUME NEW u \in Seq(Nat), Ranked(u), NEW c \in Nat,
         \A i \in 1 .. Len(u) : Portion(u, i) # Portion(Append(u, c), Len(u) + 1)
  PROVE  /\ Ranked(Append(u, c)) /\ Canon(Append(u, c)) = Canon(u) \o <<c>>
         /\ \A i \in 1 .. Len(u) + 1 : Rank(Append(u, c), i) > Len(u) <=> i > Len(u)
<1> DEFINE n == Len(u)
           v == Append(u, c)
<1>1. n \in Nat /\ n \in 0 .. n /\ n \in 0 .. Len(u) BY SeqIs
<1>2. ASSUME NEW i \in 1 .. n
      PROVE  /\ Precedes(v, n + 1, i) <=> Rank(u, i) > n
             /\ Precedes(v, i, n + 1) <=> Rank(u, i) <= n
  <2>1. Portion(v, i) # Portion(v, n + 1) BY OrderStays
  <2>2. Precedes(v, n + 1, i) <=> n + 1 < i BY <2>1 DEF Precedes
  <2>3. Precedes(v, i, n + 1) <=> i < n + 1 BY <2>1 DEF Precedes
  <2>4. Rank(u, i) \in 1 .. n BY DEF Ranked
  <2> QED BY <1>1, <2>2, <2>3, <2>4
<1>3. /\ Rank(v, n + 1) = n + 1
      /\ \A i \in 1 .. n : Rank(v, i) = IF Rank(u, i) <= n THEN Rank(u, i) ELSE Rank(u, i) + 1
      /\ Ranked(v)
      /\ Canon(v) = SetIn(Canon(u), n, c)
  BY <1>1, <1>2, RankGrows
<1>4. SetIn(Canon(u), n, c) = Canon(u) \o <<c>>
  <2>1. Canon(u) \in Seq(Nat) /\ Len(Canon(u)) = n BY CanonIs
  <2> QED BY <2>1, SetInLast
<1>5. \A i \in 1 .. n : Rank(u, i) \in 1 .. n BY DEF Ranked
<1>6. ASSUME NEW i \in 1 .. n + 1 PROVE Rank(v, i) > n <=> i > n
  <2> HIDE DEF n, v
  <2>1. CASE i = n + 1 BY <1>1, <1>3, <2>1
  <2>2. CASE i \in 1 .. n
    <3>1. Rank(u, i) \in 1 .. n BY <1>5, <2>2
    <3>2. Rank(v, i) = IF Rank(u, i) <= n THEN Rank(u, i) ELSE Rank(u, i) + 1 BY <1>3, <2>2
    <3> QED BY <1>1, <2>2, <3>1, <3>2
  <2> QED BY <1>1, <2>1, <2>2
<1> QED BY <1>3, <1>4, <1>6

LEMMA PortionIs ==
  ASSUME NEW u, NEW i, NEW h, HeadOf(u, i) = h, i # h,
         NEW k, (i - h - 1) \div Window = k
  PROVE  Portion(u, i) = <<h, k>>
BY DEF Portion

LEMMA OpensAlone ==
  ASSUME NEW u \in Seq(Nat), Ranked(u), NEW c \in Nat, u = <<>> \/ Ccc(c) = 0
  PROVE  Stands(Canon(u) \o <<c>>, <<>>, Append(u, c))
<1> DEFINE n == Len(u)
           v == Append(u, c)
           p == Canon(u) \o <<c>>
           none == <<>>
<1>1. n \in Nat /\ v \in Seq(Nat) /\ Len(v) = n + 1 /\ v # <<>> OBVIOUS
<1>2. HeadOf(v, n + 1) = n + 1 BY NewHead
<1>3. \A i \in 1 .. n : HeadOf(v, i) \in 1 .. i
  <2>1. \A i \in 1 .. n : i \in 1 .. Len(v) BY <1>1
  <2> QED BY <1>1, <2>1, HeadIs
<1>4. Portion(v, n + 1) = <<n + 1, -1>> BY <1>2 DEF Portion
<1>5. \A i \in 1 .. n : Portion(v, i)[1] # n + 1 BY <1>1, <1>3 DEF Portion
<1>6. \A i \in 1 .. n : Portion(u, i) # Portion(v, n + 1)
  <2>1. \A i \in 1 .. n : Portion(v, i) = Portion(u, i) BY OrderStays
  <2> QED BY <1>4, <1>5, <2>1
<1>7. /\ Ranked(v) /\ Canon(v) = p
      /\ \A i \in 1 .. n + 1 : Rank(v, i) > n <=> i > n
  BY <1>6, Apart
<1>8. p \in Seq(Nat) /\ Len(p) = n + 1
  <2>1. Canon(v) \in Seq(Nat) /\ Len(Canon(v)) = n + 1 BY <1>1, <1>7, CanonIs
  <2> QED BY <1>7, <2>1
<1> HIDE DEF n, v, p, none
<1>9. none \in Seq(Nat) /\ Len(none) = 0 /\ p = p \o none BY <1>8 DEF none
<1>10. \A i \in 1 .. n + 1 : Rank(v, i) > n + 1 <=> i > n + 1
  <2>1. \A i \in 1 .. n + 1 : Rank(v, i) \in 1 .. n + 1 BY <1>1, <1>7 DEF Ranked
  <2> QED BY <1>1, <2>1
<1>11. \A i \in 1 .. n + 1 : Portion(v, i) = <<n + 1, 0>> <=> i > n + 1
  <2> SUFFICES ASSUME NEW i \in 1 .. n + 1 PROVE Portion(v, i) # <<n + 1, 0>>
    BY <1>1
  <2>1. i = n + 1 \/ i \in 1 .. n BY <1>1
  <2>2. CASE i = n + 1 BY <1>4, <2>2
  <2>3. CASE i \in 1 .. n BY <1>5, <2>3
  <2> QED BY <2>1, <2>2, <2>3
<1>12. n + 1 - (n + 1) = Window * 0 + 0 /\ Window >= 0 BY <1>1, Parcels, FormsAssumption
<1>13. Ordered(none) BY <1>9 DEF Ordered
<1>14. Stands(p, none, v)
  <2>1. \E q \in Nat : /\ Len(v) - HeadOf(v, Len(v)) = Window * q + Len(none)
                       /\ \A i \in 1 .. Len(v) : Portion(v, i) = <<HeadOf(v, Len(v)), q>> <=> i > Len(p)
    <3>1. 0 \in Nat OBVIOUS
    <3>2. Len(v) - HeadOf(v, Len(v)) = Window * 0 + Len(none) BY <1>1, <1>2, <1>9, <1>12
    <3>3. \A i \in 1 .. Len(v) : Portion(v, i) = <<HeadOf(v, Len(v)), 0>> <=> i > Len(p)
      BY <1>1, <1>2, <1>8, <1>11
    <3> QED BY <3>1, <3>2, <3>3
  <2>2. /\ Canon(v) = p \o none
        /\ \A i \in 1 .. Len(v) : Rank(v, i) > Len(p) <=> i > Len(p)
        /\ Len(none) <= Window
    <3>1. Canon(v) = p \o none BY <1>7, <1>9
    <3>2. \A i \in 1 .. Len(v) : Rank(v, i) > Len(p) <=> i > Len(p)
      BY <1>1, <1>8, <1>10
    <3>3. Len(none) <= Window BY <1>9, <1>12
    <3> QED BY <3>1, <3>2, <3>3, Zenon
  <2> QED BY <1>1, <1>7, <1>8, <1>9, <1>13, <2>1, <2>2, Zenon DEF Stands
<1> QED BY <1>14 DEF n, v, p, none

LEMMA StandsIs ==
  ASSUME NEW p, NEW win, NEW u, Stands(p, win, u)
  PROVE  /\ u \in Seq(Nat) /\ u # <<>> /\ p \in Seq(Nat) /\ win \in Seq(Nat)
         /\ Len(p) + Len(win) = Len(u) /\ Canon(u) \in Seq(Nat) /\ Len(Canon(u)) = Len(u)
         /\ HeadOf(u, Len(u)) \in 1 .. Len(u)
<1>1. /\ u \in Seq(Nat) /\ u # <<>> /\ p \in Seq(Nat) /\ win \in Seq(Nat)
      /\ Ranked(u) /\ Canon(u) = p \o win
  BY DEF Stands
<1>2. Canon(u) \in Seq(Nat) /\ Len(Canon(u)) = Len(u) BY <1>1, CanonIs
<1>3. Len(p) + Len(win) = Len(p \o win) BY <1>1
<1>4. Len(p) + Len(win) = Len(u) BY <1>1, <1>2, <1>3
<1>5. Len(u) \in 1 .. Len(u) BY <1>1
<1>6. HeadOf(u, Len(u)) \in 1 .. Len(u) BY <1>1, <1>5, HeadIs
<1> QED BY <1>1, <1>2, <1>4, <1>6

(* A starter that is read while a sequence is open begins the next.        *)
LEMMA Opens ==
  ASSUME NEW p, NEW win, NEW u, Stands(p, win, u), NEW c \in Nat, Ccc(c) = 0
  PROVE  Stands(p \o win \o <<c>>, <<>>, Append(u, c))
<1>1. u \in Seq(Nat) /\ Ranked(u) /\ Canon(u) = p \o win BY DEF Stands
<1>2. Stands(Canon(u) \o <<c>>, <<>>, Append(u, c)) BY <1>1, OpensAlone
<1> QED BY <1>1, <1>2

(* A mark that finds the window full begins a portion. *)
LEMMA NextPortion ==
  ASSUME NEW p, NEW win, NEW u, Stands(p, win, u), NEW c \in Nat, Ccc(c) # 0,
         Len(win) = Window
  PROVE  Stands(p \o win, <<c>>, Append(u, c))
<1> DEFINE n == Len(u)
           v == Append(u, c)
           h == HeadOf(u, n)
           a == p \o win
           m == <<c>>
<1>1. /\ n \in Nat \ {0} /\ v \in Seq(Nat) /\ Len(v) = n + 1 /\ v # <<>>
      /\ u \in Seq(Nat) /\ Ranked(u) /\ Canon(u) = a /\ h \in 1 .. n
      /\ a \in Seq(Nat) /\ Len(a) = n
  <2>1. /\ u \in Seq(Nat) /\ u # <<>> /\ h \in 1 .. n
        /\ Canon(u) \in Seq(Nat) /\ Len(Canon(u)) = n
    BY StandsIs
  <2>2. Ranked(u) /\ Canon(u) = a BY DEF Stands
  <2>3. n \in Nat \ {0} /\ v \in Seq(Nat) /\ Len(v) = n + 1 /\ v # <<>> BY <2>1
  <2> HIDE DEF n, v, a, h
  <2> QED BY <2>1, <2>2, <2>3
<1>2. PICK q \in Nat :
        /\ n - h = Window * q + Window
        /\ \A i \in 1 .. n : Portion(u, i) = <<h, q>> <=> i > Len(p)
  BY DEF Stands
<1>3. /\ Window \in Nat \ {0} /\ Window * q + Window = Window * (q + 1)
      /\ Window * (q + 1) + Window = Window * (q + 2) /\ Window * q \in Nat
      /\ Window * (q + 1) \in Nat
  BY Parcels, FormsAssumption
<1>4. HeadOf(v, n + 1) = h BY <1>1, StandsIs, NewHead
<1>5. \A i \in 1 .. n : HeadOf(v, i) = HeadOf(u, i) /\ Portion(v, i) = Portion(u, i)
  BY <1>1, OrderStays
<1> HIDE DEF n, v, h, a
<1>6. Portion(v, n + 1) = <<h, q + 1>>
  <2>1. n + 1 - h - 1 = Window * (q + 1) + 0 /\ n + 1 # h BY <1>1, <1>2, <1>3
  <2>2. (Window * (q + 1) + 0) \div Window = q + 1
    <3>1. q + 1 \in Nat /\ 0 \in Nat /\ 0 < Window BY <1>3
    <3> QED BY <1>3, <3>1, Parcels
  <2>3. (n + 1 - h - 1) \div Window = q + 1 BY <2>1, <2>2
  <2>4. n + 1 # h BY <2>1
  <2> QED BY <1>1, <1>4, <2>3, <2>4, PortionIs
<1>7. ASSUME NEW i \in 1 .. n PROVE Portion(v, i) # <<h, q + 1>>
  <2>0. HeadOf(v, i) \in 1 .. i
    <3>1. i \in 1 .. Len(v) BY <1>1
    <3> QED BY <1>1, <3>1, HeadIs
  <2>1. CASE HeadOf(v, i) # h BY <2>1 DEF Portion
  <2>2. CASE HeadOf(v, i) = h /\ i = h BY <2>2 DEF Portion
  <2>3. CASE HeadOf(v, i) = h /\ i # h
    <3>1. i - h - 1 \in Nat /\ i - h - 1 < Window * (q + 1)
      BY <1>1, <1>2, <1>3, <2>0, <2>3
    <3>2. (i - h - 1) \div Window < q + 1 BY <1>3, <3>1, Parcels
    <3>3. Portion(v, i) = <<h, (i - h - 1) \div Window>> BY <2>3 DEF Portion
    <3> QED BY <3>2, <3>3
  <2> QED BY <2>1, <2>2, <2>3
<1>8. /\ Ranked(v) /\ Canon(v) = a \o m
      /\ \A i \in 1 .. n + 1 : Rank(v, i) > n <=> i > n
  <2>1. \A i \in 1 .. n : Portion(u, i) # Portion(v, n + 1) BY <1>5, <1>6, <1>7
  <2> QED BY <1>1, <2>1, Apart DEF n, v
<1>9. m \in Seq(Nat) /\ Len(m) = 1 OBVIOUS
<1> HIDE DEF m
<1>10. Ordered(m) BY <1>9 DEF Ordered
<1>11. \A i \in 1 .. n + 1 : Portion(v, i) = <<h, q + 1>> <=> i > n
  <2>1. \A i \in 1 .. n + 1 : i = n + 1 \/ i \in 1 .. n BY <1>1
  <2>2. n + 1 > n /\ \A i \in 1 .. n : ~(i > n) BY <1>1
  <2> QED BY <1>6, <1>7, <2>1, <2>2
<1>12. n + 1 - h = Window * (q + 1) + 1 /\ 1 <= Window BY <1>1, <1>2, <1>3
<1>13. Stands(a, m, v)
  <2>1. \E r \in Nat : /\ Len(v) - HeadOf(v, Len(v)) = Window * r + Len(m)
                       /\ \A i \in 1 .. Len(v) : Portion(v, i) = <<HeadOf(v, Len(v)), r>> <=> i > Len(a)
    <3>1. q + 1 \in Nat OBVIOUS
    <3>2. Len(v) - HeadOf(v, Len(v)) = Window * (q + 1) + Len(m) BY <1>1, <1>4, <1>9, <1>12
    <3>3. \A i \in 1 .. Len(v) : Portion(v, i) = <<HeadOf(v, Len(v)), q + 1>> <=> i > Len(a)
      BY <1>1, <1>4, <1>11
    <3> QED BY <3>1, <3>2, <3>3
  <2>2. /\ \A i \in 1 .. Len(v) : Rank(v, i) > Len(a) <=> i > Len(a)
        /\ Len(m) <= Window
    BY <1>1, <1>8, <1>9, <1>12
  <2> QED BY <1>1, <1>8, <1>9, <1>10, <2>1, <2>2, Zenon DEF Stands
<1> QED BY <1>13 DEF v, a, m, n

--------------------------------------------------------------------------------
(* A mark joins the portion. *)
LEMMA SetInNat ==
  \A s \in Seq(Nat), c \in Nat : \A b \in 0 .. Len(s) :
    /\ SetIn(s, b, c) \in Seq(Nat) /\ Len(SetIn(s, b, c)) = Len(s) + 1
    /\ SetIn(s, b, c)[b + 1] = c
    /\ \A i \in 1 .. Len(s) : SetIn(s, b, c)[IF i <= b THEN i ELSE i + 1] = s[i]
    /\ \A p \in Seq(Nat) : SetIn(p \o s, Len(p) + b, c) = p \o SetIn(s, b, c)
<1> TAKE s \in Seq(Nat), c \in Nat
<1> TAKE b \in 0 .. Len(s)
<1>1. /\ SetIn(s, b, c) \in Seq(Nat) /\ Len(SetIn(s, b, c)) = Len(s) + 1
      /\ SetIn(s, b, c)[b + 1] = c
  BY SetInIs
<1>2. \A i \in 1 .. Len(s) : SetIn(s, b, c)[IF i <= b THEN i ELSE i + 1] = s[i] BY SetInIs
<1>3. ASSUME NEW p \in Seq(Nat) PROVE SetIn(p \o s, Len(p) + b, c) = p \o SetIn(s, b, c)
  BY SetInAfter
<1> QED BY <1>1, <1>2, <1>3

(* A mark goes in behind those of its class and of lower ones. *)
LEMMA BehindIs ==
  ASSUME NEW win \in Seq(Nat), Ordered(win), NEW c \in Nat
  PROVE  \E b \in 0 .. Len(win) :
           /\ Insert(win, c) = SetIn(win, b, c)
           /\ \A k \in 1 .. Len(win) : k <= b <=> Ccc(win[k]) <= Ccc(c)
<1> DEFINE I == {0} \cup {i \in DOMAIN win : Ccc(win[i]) <= Ccc(c)}
           b == Max(I)
<1>1. Len(win) \in Nat /\ DOMAIN win = 1 .. Len(win) BY SeqIs
<1>2. \A k \in 1 .. Len(win) : Ccc(win[k]) \in Int BY CccIs, SeqIs
<1>3. Ccc(c) \in Int BY CccIs
<1>4. Insert(win, c) = SetIn(win, b, c) BY DEF Insert, SetIn
<1>5. I \subseteq 0 .. Len(win) /\ I # {} BY <1>1
<1>6. \A k \in I : k = 0 \/ (k \in 1 .. Len(win) /\ Ccc(win[k]) <= Ccc(c)) BY <1>1
<1>7. \A k \in 1 .. Len(win) : Ccc(win[k]) <= Ccc(c) => k \in I BY <1>1
<1> HIDE DEF I
<1>8. b \in I /\ \A y \in I : y <= b BY <1>1, <1>5, MaxIs
<1> HIDE DEF b
<1>9. b \in 0 .. Len(win) BY <1>5, <1>8
<1>10. ASSUME NEW k \in 1 .. Len(win) PROVE k <= b <=> Ccc(win[k]) <= Ccc(c)
  <2>1. Ccc(win[k]) <= Ccc(c) => k <= b BY <1>7, <1>8
  <2>2. ASSUME k <= b PROVE Ccc(win[k]) <= Ccc(c)
    <3>1. b \in 1 .. Len(win) /\ Ccc(win[b]) <= Ccc(c) BY <1>1, <1>6, <1>8, <1>9, <2>2
    <3>2. CASE k = b BY <3>1, <3>2
    <3>3. CASE k < b
      <4>1. Ccc(win[k]) <= Ccc(win[b]) BY <3>1, <3>3 DEF Ordered
      <4> QED BY <1>2, <1>3, <3>1, <4>1
    <3> QED BY <1>1, <1>9, <2>2, <3>2, <3>3
  <2> QED BY <2>1, <2>2
<1> QED BY <1>4, <1>9, <1>10

LEMMA StaysOrdered ==
  ASSUME NEW win \in Seq(Nat), Ordered(win), NEW c \in Nat, NEW b \in 0 .. Len(win),
         \A k \in 1 .. Len(win) : k <= b <=> Ccc(win[k]) <= Ccc(c)
  PROVE  Ordered(SetIn(win, b, c))
<1> DEFINE t == SetIn(win, b, c)
           w == Len(win)
<1>1. t \in Seq(Nat) /\ Len(t) = w + 1 BY SetInIs
<1>2. t[b + 1] = c BY SetInIs
<1>3. \A i \in 1 .. w : t[IF i <= b THEN i ELSE i + 1] = win[i]
  <2>1. \A i \in 1 .. Len(win) : SetIn(win, b, c)[IF i <= b THEN i ELSE i + 1] = win[i]
    BY SetInNat, Zenon
  <2> QED BY <2>1, Zenon
<1>4. w \in Nat /\ b \in Nat /\ b <= w BY SeqIs
<1>5. \A k \in 1 .. w : k <= b <=> Ccc(win[k]) <= Ccc(c) OBVIOUS
<1>6. \A i, j \in 1 .. w : i < j => Ccc(win[i]) <= Ccc(win[j]) BY DEF Ordered
<1>7. \A k \in 1 .. w : Ccc(win[k]) \in Int BY CccIs, SeqIs
<1>8. Ccc(c) \in Int BY CccIs
<1> HIDE DEF t, w
<1>9. \A i \in 1 .. w + 1 : i <= b => i \in 1 .. w /\ t[i] = win[i]
  <2> SUFFICES ASSUME NEW i \in 1 .. w + 1, i <= b PROVE i \in 1 .. w /\ t[i] = win[i]
    OBVIOUS
  <2>1. i \in 1 .. w BY <1>4
  <2> QED BY <1>3, <2>1
<1>10. \A i \in 1 .. w + 1 : i > b + 1 => i - 1 \in 1 .. w /\ ~(i - 1 <= b) /\ t[i] = win[i - 1]
  <2> SUFFICES ASSUME NEW i \in 1 .. w + 1, i > b + 1
               PROVE  i - 1 \in 1 .. w /\ ~(i - 1 <= b) /\ t[i] = win[i - 1]
    OBVIOUS
  <2>1. i - 1 \in 1 .. w /\ ~(i - 1 <= b) /\ i - 1 + 1 = i BY <1>4
  <2>2. t[i - 1 + 1] = win[i - 1] BY <1>3, <2>1
  <2> QED BY <2>1, <2>2
<1>11. ASSUME NEW i \in 1 .. w + 1, NEW j \in 1 .. w + 1, i < j PROVE Ccc(t[i]) <= Ccc(t[j])
  <2>1. CASE j <= b
    <3>1. i \in 1 .. w /\ j \in 1 .. w /\ t[i] = win[i] /\ t[j] = win[j] BY <1>4, <1>9, <1>11, <2>1
    <3> QED BY <1>6, <1>11, <3>1
  <2>2. CASE j = b + 1
    <3>1. i \in 1 .. w /\ i <= b /\ t[i] = win[i] BY <1>4, <1>9, <1>11, <2>2
    <3>2. Ccc(win[i]) <= Ccc(c) BY <1>5, <3>1
    <3> QED BY <1>2, <2>2, <3>1, <3>2
  <2>3. CASE j > b + 1
    <3>1. j - 1 \in 1 .. w /\ ~(j - 1 <= b) /\ t[j] = win[j - 1] BY <1>10, <2>3
    <3>2. ~(Ccc(win[j - 1]) <= Ccc(c)) BY <1>5, <3>1
    <3>3. CASE i <= b
      <4>1. i \in 1 .. w /\ t[i] = win[i] /\ i < j - 1 BY <1>4, <1>9, <2>3, <3>3
      <4>2. Ccc(win[i]) <= Ccc(win[j - 1]) BY <1>6, <3>1, <4>1
      <4> QED BY <3>1, <4>1, <4>2
    <3>4. CASE i = b + 1
      <4>1. Ccc(win[j - 1]) \in Int BY <1>7, <3>1
      <4>2. Ccc(c) <= Ccc(win[j - 1]) BY <1>8, <3>2, <4>1
      <4> QED BY <1>2, <3>1, <3>4, <4>2
    <3>5. CASE i > b + 1
      <4>1. i - 1 \in 1 .. w /\ t[i] = win[i - 1] /\ i - 1 < j - 1 BY <1>4, <1>10, <1>11, <3>5
      <4>2. Ccc(win[i - 1]) <= Ccc(win[j - 1]) BY <1>6, <3>1, <4>1
      <4> QED BY <3>1, <4>1, <4>2
    <3> QED BY <1>4, <3>3, <3>4, <3>5
  <2> QED BY <1>4, <2>1, <2>2, <2>3
<1>12. Ordered(t) BY <1>1, <1>11 DEF Ordered
<1> QED BY <1>12 DEF t

(* A mark that finds room joins the portion that is open. *)
LEMMA Joins ==
  ASSUME NEW p, NEW win, NEW u, Stands(p, win, u), NEW c \in Nat, Ccc(c) # 0,
         Len(win) < Window
  PROVE  Stands(p, Insert(win, c), Append(u, c))
<1> DEFINE n == Len(u)
           v == Append(u, c)
           h == HeadOf(u, n)
           l == Len(p)
           w == Len(win)
<1>1. /\ u \in Seq(Nat) /\ u # <<>> /\ p \in Seq(Nat) /\ win \in Seq(Nat)
      /\ l + w = n /\ h \in 1 .. n
  BY StandsIs
<1>2. /\ Ranked(u) /\ Canon(u) = p \o win /\ w <= Window /\ Ordered(win)
      /\ \A i \in 1 .. n : Rank(u, i) > l <=> i > l
  BY DEF Stands
<1>3. PICK q \in Nat :
        /\ n - h = Window * q + w
        /\ \A i \in 1 .. n : Portion(u, i) = <<h, q>> <=> i > l
  BY DEF Stands
<1>4. PICK b \in 0 .. w :
        /\ Insert(win, c) = SetIn(win, b, c)
        /\ \A k \in 1 .. w : k <= b <=> Ccc(win[k]) <= Ccc(c)
  BY <1>1, <1>2, BehindIs
<1>5. /\ n \in Nat \ {0} /\ l \in Nat /\ w \in Nat
      /\ v \in Seq(Nat) /\ Len(v) = n + 1 /\ v # <<>> /\ v[n + 1] = c
      /\ \A i \in 1 .. n : v[i] = u[i]
  BY <1>1
<1>6. Window \in Nat \ {0} /\ Window * q \in Nat /\ w < Window BY Parcels, FormsAssumption
<1>7. HeadOf(v, n + 1) = h BY <1>1, NewHead
<1>8. \A i \in 1 .. n : HeadOf(v, i) = HeadOf(u, i) /\ Portion(v, i) = Portion(u, i)
  BY <1>1, OrderStays
<1> HIDE DEF n, v, h, l, w
<1>9. Portion(v, n + 1) = <<h, q>>
  <2>1. n + 1 - h - 1 = Window * q + w /\ n + 1 # h BY <1>1, <1>3, <1>5, <1>6
  <2>2. (Window * q + w) \div Window = q BY <1>5, <1>6, Parcels
  <2>3. (n + 1 - h - 1) \div Window = q BY <2>1, <2>2
  <2> QED BY <1>1, <1>5, <1>7, <2>1, <2>3, PortionIs
<1>10. \A i \in 1 .. n : Rank(u, i) \in 1 .. n BY <1>2 DEF Ranked, n
<1>11. ASSUME NEW i \in 1 .. n
       PROVE  /\ Precedes(v, n + 1, i) <=> Rank(u, i) > l + b
              /\ Precedes(v, i, n + 1) <=> Rank(u, i) <= l + b
  <2>1. Rank(u, i) \in 1 .. n BY <1>10
  <2>2. CASE i <= l
    <3>1. Portion(v, i) # Portion(v, n + 1) BY <1>3, <1>5, <1>8, <1>9, <2>2
    <3>2. Precedes(v, n + 1, i) <=> n + 1 < i BY <3>1 DEF Precedes
    <3>3. Precedes(v, i, n + 1) <=> i < n + 1 BY <3>1 DEF Precedes
    <3>4. Rank(u, i) <= l BY <1>2, <1>5, <2>1, <2>2
    <3> QED BY <1>4, <1>5, <2>1, <3>2, <3>3, <3>4
  <2>3. CASE i > l
    <3> DEFINE k == Rank(u, i) - l
    <3>1. Portion(v, i) = Portion(v, n + 1) BY <1>3, <1>8, <1>9, <2>3
    <3>2. k \in 1 .. w
      <4>1. Rank(u, i) > l BY <1>2, <2>3
      <4>2. \A r \in 1 .. n : r > l => r - l \in 1 .. w BY <1>1, <1>5
      <4> QED BY <2>1, <4>1, <4>2
    <3>3. win[k] = u[i]
      <4>1. Canon(u)[Rank(u, i)] = u[i] BY <1>1, <1>2, CanonIs DEF n
      <4>2. (p \o win)[Rank(u, i)] = win[k]
        <5>1. /\ Rank(u, i) \in 1 .. Len(p) + Len(win) /\ ~(Rank(u, i) <= Len(p))
              /\ Rank(u, i) - Len(p) = k
          BY <1>1, <1>5, <2>1, <3>2 DEF l, w
        <5> QED BY <1>1, <5>1, ConcatProperties
      <4> QED BY <1>2, <4>1, <4>2
    <3>4. v[i] = u[i] /\ v[n + 1] = c BY <1>5
    <3>5. Ccc(win[k]) \in Int /\ Ccc(c) \in Int
      <4>1. win[k] \in Nat BY <1>1, <3>2, SeqIs DEF w
      <4> QED BY <4>1, CccIs
    <3>6. Precedes(v, n + 1, i) <=> Ccc(c) < Ccc(win[k])
      <4>1. ~(n + 1 < i) BY <1>5
      <4> QED BY <3>1, <3>3, <3>4, <4>1 DEF Precedes
    <3>7. Precedes(v, i, n + 1) <=> Ccc(win[k]) <= Ccc(c)
      <4>1. i < n + 1 BY <1>5
      <4>2. Precedes(v, i, n + 1) <=> Ccc(win[k]) < Ccc(c) \/ Ccc(win[k]) = Ccc(c)
        BY <3>1, <3>3, <3>4, <4>1 DEF Precedes
      <4> QED BY <3>5, <4>2
    <3>8. k <= b <=> Ccc(win[k]) <= Ccc(c) BY <1>4, <3>2
    <3>9. k <= b <=> Rank(u, i) <= l + b BY <1>4, <1>5, <2>1
    <3>10. Rank(u, i) > l + b <=> ~(Rank(u, i) <= l + b) BY <1>4, <1>5, <2>1
    <3>11. Ccc(c) < Ccc(win[k]) <=> ~(Ccc(win[k]) <= Ccc(c)) BY <3>5
    <3> HIDE DEF k
    <3> QED BY <3>6, <3>7, <3>8, <3>9, <3>10, <3>11
  <2> QED BY <1>5, <2>2, <2>3
<1>12. /\ Rank(v, n + 1) = l + b + 1
       /\ \A i \in 1 .. n : Rank(v, i) = IF Rank(u, i) <= l + b THEN Rank(u, i) ELSE Rank(u, i) + 1
       /\ Ranked(v)
       /\ Canon(v) = SetIn(Canon(u), l + b, c)
  <2>1. l + b \in 0 .. n BY <1>1, <1>4, <1>5
  <2> QED BY <1>1, <1>2, <1>11, <2>1, RankGrows DEF n, v
<1> DEFINE t == Insert(win, c)
<1>13. t \in Seq(Nat) /\ Len(t) = w + 1 BY <1>1, InsertIs DEF w
<1>14. Canon(v) = p \o t
  <2>1. SetIn(p \o win, Len(p) + b, c) = p \o SetIn(win, b, c)
    <3>1. p \in Seq(Nat) /\ win \in Seq(Nat) /\ b \in 0 .. Len(win) /\ c \in Nat
      BY <1>1, <1>4 DEF w
    <3> HIDE DEF t
    <3> QED BY <3>1, SetInNat, Zenon
  <2> QED BY <1>2, <1>4, <1>12, <2>1 DEF l
<1>15. Ordered(t)
  <2>1. Ordered(SetIn(win, b, c)) BY <1>1, <1>2, <1>4, StaysOrdered DEF w
  <2> QED BY <1>4, <2>1
<1> HIDE DEF t
<1>16. ASSUME NEW i \in 1 .. n + 1
       PROVE  (Rank(v, i) > l <=> i > l) /\ (Portion(v, i) = <<h, q>> <=> i > l)
  <2>1. CASE i = n + 1
    <3>1. n + 1 > l /\ l + b + 1 > l BY <1>1, <1>4, <1>5
    <3> QED BY <1>9, <1>12, <2>1, <3>1
  <2>2. CASE i \in 1 .. n
    <3>1. Rank(u, i) \in 1 .. n /\ (Rank(u, i) > l <=> i > l) BY <1>2, <1>10, <2>2
    <3>2. Rank(v, i) = IF Rank(u, i) <= l + b THEN Rank(u, i) ELSE Rank(u, i) + 1 BY <1>12, <2>2
    <3>3. Rank(v, i) > l <=> Rank(u, i) > l BY <1>4, <1>5, <3>1, <3>2
    <3>4. Portion(v, i) = <<h, q>> <=> i > l BY <1>3, <1>8, <2>2
    <3> QED BY <3>1, <3>3, <3>4
  <2> QED BY <1>5, <2>1, <2>2
<1>17. Stands(p, t, v)
  <2>1. \E r \in Nat : /\ Len(v) - HeadOf(v, Len(v)) = Window * r + Len(t)
                       /\ \A i \in 1 .. Len(v) : Portion(v, i) = <<HeadOf(v, Len(v)), r>> <=> i > Len(p)
    <3>1. Len(v) - HeadOf(v, Len(v)) = Window * q + Len(t)
      BY <1>1, <1>3, <1>5, <1>6, <1>7, <1>13
    <3>2. \A i \in 1 .. Len(v) : Portion(v, i) = <<HeadOf(v, Len(v)), q>> <=> i > Len(p)
      BY <1>5, <1>7, <1>16 DEF l
    <3> QED BY <3>1, <3>2
  <2>2. /\ \A i \in 1 .. Len(v) : Rank(v, i) > Len(p) <=> i > Len(p)
        /\ Len(t) <= Window
    BY <1>5, <1>6, <1>13, <1>16 DEF l
  <2> QED BY <1>1, <1>5, <1>12, <1>13, <1>14, <1>15, <2>1, <2>2, Zenon DEF Stands
<1> QED BY <1>17 DEF v, t

--------------------------------------------------------------------------------
(* Texts of visible codepoints and of controls. *)
LEMMA Widened == ASSUME NEW S, NEW T, S \subseteq T, NEW s \in Seq(S) PROVE s \in Seq(T)
BY SeqMonotonic

LEMMA SpreadWiped ==
  ASSUME NEW f \in Codes, NEW T, T \subseteq Nat, \A c \in T : f[c] = <<>>, NEW s \in Seq(T)
  PROVE  Spread(f, s) = <<>>
<1> DEFINE bad == {m \in Nat : \E r \in Seq(T) : Len(r) = m /\ Spread(f, r) # <<>>}
<1>1. bad = {}
  <2> SUFFICES ASSUME bad # {} PROVE FALSE
    OBVIOUS
  <2>1. bad \subseteq Nat OBVIOUS
  <2>2. PICK m \in bad : \A y \in bad : m <= y BY <2>1, LeastExists
  <2>3. PICK r \in Seq(T) : Len(r) = m /\ Spread(f, r) # <<>> BY <2>2
  <2>4. r # <<>> BY <2>3, SpreadNone
  <2>5. PICK q \in Seq(T), c \in T : r = Append(q, c) /\ Len(r) = Len(q) + 1
    BY <2>3, <2>4, PopIs
  <2>6. Len(q) \in Nat /\ ~(m <= Len(q)) BY <2>3, <2>5
  <2>7. Spread(f, q) = <<>> BY <2>2, <2>6
  <2>8. q \in Seq(Nat) /\ c \in Nat BY <2>5, Widened
  <2>9. <<>> \in Seq(Nat) /\ <<>> \o <<>> = <<>> OBVIOUS
  <2>10. Spread(f, r) = <<>> \o f[c] BY <2>5, <2>7, <2>8, <2>9, SpreadMore
  <2> QED BY <2>3, <2>9, <2>10
<1>2. Len(s) \in Nat OBVIOUS
<1> HIDE DEF bad
<1>3. Len(s) \notin bad BY <1>1
<1> QED BY <1>2, <1>3 DEF bad

LEMMA SpreadSame ==
  ASSUME NEW f \in Codes, NEW T, T \subseteq Nat, \A c \in T : f[c] = <<c>>, NEW s \in Seq(T)
  PROVE  Spread(f, s) = s
<1> DEFINE bad == {m \in Nat : \E r \in Seq(T) : Len(r) = m /\ Spread(f, r) # r}
<1>1. bad = {}
  <2> SUFFICES ASSUME bad # {} PROVE FALSE
    OBVIOUS
  <2>1. bad \subseteq Nat OBVIOUS
  <2>2. PICK m \in bad : \A y \in bad : m <= y BY <2>1, LeastExists
  <2>3. PICK r \in Seq(T) : Len(r) = m /\ Spread(f, r) # r BY <2>2
  <2>4. r # <<>> BY <2>3, SpreadNone
  <2>5. PICK q \in Seq(T), c \in T : r = Append(q, c) /\ Len(r) = Len(q) + 1
    BY <2>3, <2>4, PopIs
  <2>6. Len(q) \in Nat /\ ~(m <= Len(q)) BY <2>3, <2>5
  <2>7. Spread(f, q) = q BY <2>2, <2>6
  <2>8. q \in Seq(Nat) /\ c \in Nat BY <2>5, Widened
  <2>9. r = q \o <<c>> BY <2>5, <2>8, Appended
  <2>10. Spread(f, r) = q \o f[c] BY <2>5, <2>7, <2>8, SpreadMore
  <2> QED BY <2>3, <2>9, <2>10
<1>2. Len(s) \in Nat OBVIOUS
<1> HIDE DEF bad
<1>3. Len(s) \notin bad BY <1>1
<1> QED BY <1>2, <1>3 DEF bad

--------------------------------------------------------------------------------
(* Codepoints without a row, those a starter may be, and controls.         *)
Atoms == {c \in Nat : ~IsControl(c) /\ c \notin DOMAIN Decomposition /\ DecomposeOne(c) = <<c>>}
Leads == Atoms \cup (HangulBase .. HangulEnd)
Controlled == {c \in Nat : IsControl(c)}
Visible == {c \in Nat : ~IsControl(c)}

PlainOf == [c \in Nat |-> IF IsControl(c) THEN <<>> ELSE <<c>>]
PartsOf == [c \in Nat |-> DecomposeOne(c)]

LEMMA CodesAre == PlainOf \in Codes /\ PartsOf \in Codes
<1>1. \A c \in Nat : DecomposeOne(c) \in Seq(Nat) BY PartsAre
<1>2. PartsOf \in Codes BY <1>1 DEF PartsOf, Codes
<1>3. \A c \in Nat : (IF IsControl(c) THEN <<>> ELSE <<c>>) \in Seq(Nat)
  <2> SUFFICES ASSUME NEW c \in Nat PROVE (IF IsControl(c) THEN <<>> ELSE <<c>>) \in Seq(Nat)
    OBVIOUS
  <2>1. <<>> \in Seq(Nat) /\ <<c>> \in Seq(Nat) OBVIOUS
  <2> QED BY <2>1, Zenon
<1>4. PlainOf \in Codes BY <1>3, Zenon DEF PlainOf, Codes
<1> QED BY <1>2, <1>4

LEMMA TextsSpread ==
  ASSUME NEW s \in Seq(Nat)
  PROVE  Plain(s) = Spread(PlainOf, s) /\ Parted(s) = Spread(PartsOf, s)
<1>1. DOMAIN s = 1 .. Len(s) /\ \A i \in 1 .. Len(s) : s[i] \in Nat BY SeqIs
<1>2. [i \in DOMAIN s |-> IF IsControl(s[i]) THEN <<>> ELSE <<s[i]>>] = [i \in DOMAIN s |-> PlainOf[s[i]]]
  BY <1>1, Zenon DEF PlainOf
<1>3. [i \in DOMAIN s |-> DecomposeOne(s[i])] = [i \in DOMAIN s |-> PartsOf[s[i]]]
  BY <1>1, Zenon DEF PartsOf
<1> QED BY <1>2, <1>3, Zenon DEF Plain, Parted, Spread

LEMMA VisibleAre ==
  /\ Atoms \subseteq Nat /\ Atoms \subseteq Leads /\ Leads \subseteq Visible /\ Visible \subseteq Nat
  /\ Controlled \subseteq Nat /\ Sentinel \in Nat /\ Sentinel \notin Visible
<1>1. Atoms \subseteq Nat /\ Atoms \subseteq Leads BY DEF Atoms, Leads
<1>2. Visible \subseteq Nat /\ Controlled \subseteq Nat BY DEF Visible, Controlled
<1>3. Sentinel \in Nat /\ IsControl(Sentinel) BY SMT DEF Sentinel, IsControl, ScpMin
<1>4. \A c \in HangulBase .. HangulEnd : c \in Nat /\ ~IsControl(c)
  BY SMT DEF IsControl, ScpMin, HangulBase, HangulEnd
<1>5. Sentinel \notin Visible BY <1>3 DEF Visible
<1>6. \A c \in Atoms : c \in Visible BY DEF Atoms, Visible
<1>7. \A c \in HangulBase .. HangulEnd : c \in Visible BY <1>4 DEF Visible
<1> QED BY <1>1, <1>2, <1>3, <1>5, <1>6, <1>7 DEF Leads

LEMMA PlainIs ==
  /\ \A s \in Seq(Nat) : Plain(s) \in Seq(Nat)
  /\ \A s, t \in Seq(Nat) : Plain(s \o t) = Plain(s) \o Plain(t)
  /\ \A s \in Seq(Controlled) : s \in Seq(Nat) /\ Plain(s) = <<>>
  /\ \A s \in Seq(Visible) : s \in Seq(Nat) /\ Plain(s) = s
  /\ Plain(<<>>) = <<>>
<1>1. ASSUME NEW s \in Seq(Nat) PROVE Plain(s) \in Seq(Nat)
  BY CodesAre, TextsSpread, SpreadIs
<1>2. ASSUME NEW s \in Seq(Nat), NEW t \in Seq(Nat) PROVE Plain(s \o t) = Plain(s) \o Plain(t)
  <2>1. s \o t \in Seq(Nat) OBVIOUS
  <2>2. Plain(s \o t) = Spread(PlainOf, s \o t) BY <2>1, TextsSpread
  <2>3. Plain(s) = Spread(PlainOf, s) /\ Plain(t) = Spread(PlainOf, t) BY TextsSpread
  <2>4. Spread(PlainOf, s \o t) = Spread(PlainOf, s) \o Spread(PlainOf, t)
    BY CodesAre, SpreadJoin
  <2> QED BY <2>2, <2>3, <2>4, Zenon
<1>3. ASSUME NEW s \in Seq(Controlled) PROVE s \in Seq(Nat) /\ Plain(s) = <<>>
  <2>1. s \in Seq(Nat) BY VisibleAre, Widened
  <2>2. \A c \in Controlled : PlainOf[c] = <<>> BY Zenon DEF Controlled, PlainOf
  <2>3. Spread(PlainOf, s) = <<>> BY <2>2, CodesAre, VisibleAre, SpreadWiped
  <2> QED BY <2>1, <2>3, TextsSpread
<1>4. ASSUME NEW s \in Seq(Visible) PROVE s \in Seq(Nat) /\ Plain(s) = s
  <2>1. s \in Seq(Nat) BY VisibleAre, Widened
  <2>2. \A c \in Visible : PlainOf[c] = <<c>> BY Zenon DEF Visible, PlainOf
  <2>3. Spread(PlainOf, s) = s BY <2>2, CodesAre, VisibleAre, SpreadSame
  <2> QED BY <2>1, <2>3, TextsSpread
<1>5. Plain(<<>>) = <<>>
  <2>1. <<>> \in Seq(Nat) OBVIOUS
  <2> QED BY <2>1, TextsSpread, SpreadNone
<1> QED BY <1>1, <1>2, <1>3, <1>4, <1>5

LEMMA PartedIs ==
  /\ \A s \in Seq(Nat) : Parted(s) \in Seq(Nat)
  /\ \A s, t \in Seq(Nat) : Parted(s \o t) = Parted(s) \o Parted(t)
  /\ \A s \in Seq(Atoms) : s \in Seq(Nat) /\ Parted(s) = s
  /\ \A c \in Nat : Parted(<<c>>) = DecomposeOne(c)
  /\ Parted(<<>>) = <<>>
<1>1. ASSUME NEW s \in Seq(Nat) PROVE Parted(s) \in Seq(Nat)
  BY CodesAre, TextsSpread, SpreadIs
<1>2. ASSUME NEW s \in Seq(Nat), NEW t \in Seq(Nat) PROVE Parted(s \o t) = Parted(s) \o Parted(t)
  <2>1. s \o t \in Seq(Nat) OBVIOUS
  <2>2. Parted(s \o t) = Spread(PartsOf, s \o t) BY <2>1, TextsSpread
  <2>3. Parted(s) = Spread(PartsOf, s) /\ Parted(t) = Spread(PartsOf, t) BY TextsSpread
  <2>4. Spread(PartsOf, s \o t) = Spread(PartsOf, s) \o Spread(PartsOf, t)
    BY CodesAre, SpreadJoin
  <2> QED BY <2>2, <2>3, <2>4, Zenon
<1>3. ASSUME NEW s \in Seq(Atoms) PROVE s \in Seq(Nat) /\ Parted(s) = s
  <2>1. s \in Seq(Nat) BY VisibleAre, Widened
  <2>2. \A c \in Atoms : PartsOf[c] = <<c>> BY Zenon DEF Atoms, PartsOf
  <2>3. Spread(PartsOf, s) = s BY <2>2, CodesAre, VisibleAre, SpreadSame
  <2> QED BY <2>1, <2>3, TextsSpread
<1>4. ASSUME NEW c \in Nat PROVE Parted(<<c>>) = DecomposeOne(c)
  <2>1. <<c>> \in Seq(Nat) OBVIOUS
  <2>2. Parted(<<c>>) = Spread(PartsOf, <<c>>) BY <2>1, TextsSpread
  <2>3. Spread(PartsOf, <<c>>) = PartsOf[c] BY CodesAre, SpreadOne
  <2> QED BY <2>2, <2>3, Zenon DEF PartsOf
<1>5. Parted(<<>>) = <<>>
  <2>1. <<>> \in Seq(Nat) OBVIOUS
  <2> QED BY <2>1, TextsSpread, SpreadNone
<1> QED BY <1>1, <1>2, <1>3, <1>4, <1>5

--------------------------------------------------------------------------------
(* Parts and compositions. *)
LEMMA RowIs ==
  ASSUME NEW c \in DOMAIN Decomposition
  PROVE  /\ c \in 1 .. ScpMin - 1 /\ ~IsHangul(c) /\ c \in Nat
         /\ Decomposition[c] \in Seq(1 .. ScpMin - 1) /\ Len(Decomposition[c]) \in 1 .. 2
         /\ \A i \in 1 .. Len(Decomposition[c]) :
              Decomposition[c][i] \in Visible /\ ~IsHangul(Decomposition[c][i])
         /\ DecomposeOne(c) = Decomposition[c]
<1> DEFINE d == Decomposition[c]
<1>1. /\ c \in 1 .. ScpMin - 1 /\ ~IsHangul(c)
      /\ d \in Seq(1 .. ScpMin - 1) /\ Len(d) \in 1 .. 2
      /\ \A i \in DOMAIN d : ~IsHangul(d[i])
  BY FormsAssumption, Zenon
<1>2. DecomposeOne(c) = d BY <1>1 DEF DecomposeOne
<1> HIDE DEF d
<1>3. ScpMin \in Nat BY SMT DEF ScpMin
<1>4. DOMAIN d = 1 .. Len(d) /\ \A i \in 1 .. Len(d) : d[i] \in 1 .. ScpMin - 1 BY <1>1, SeqIs
<1>5. ASSUME NEW i \in 1 .. Len(d) PROVE d[i] \in Visible /\ ~IsHangul(d[i])
  <2>1. d[i] \in Nat /\ ~IsControl(d[i]) BY <1>3, <1>4 DEF IsControl
  <2> QED BY <1>1, <1>4, <2>1 DEF Visible
<1> QED BY <1>1, <1>2, <1>3, <1>5 DEF d

LEMMA JamoAre == \A c \in Jamo : c \in Atoms /\ Ccc(c) = 0 /\ ~IsHangul(c)
<1> SUFFICES ASSUME NEW c \in Jamo PROVE c \in Atoms /\ Ccc(c) = 0 /\ ~IsHangul(c)
  OBVIOUS
<1>1. c \in Nat /\ ~IsControl(c) /\ ~IsHangul(c)
  <2>1. c \in Nat /\ c <= 4546 BY SMT DEF Jamo
  <2>2. ~(c >= 1114112) /\ ~(c >= 44032) BY <2>1, SMT
  <2>3. ~IsControl(c) BY <2>2, SMT DEF IsControl, ScpMin
  <2>4. ~IsHangul(c) BY <2>1, <2>2, SMT DEF IsHangul, HangulBase
  <2> QED BY <2>1, <2>3, <2>4
<1>2. Ccc(c) = 0 /\ c \notin DOMAIN Decomposition BY ClassAssumption
<1> QED BY <1>1, <1>2 DEF Atoms, DecomposeOne

LEMMA HangulIs ==
  ASSUME NEW c \in HangulBase .. HangulEnd
  PROVE  /\ c \in Nat /\ Ccc(c) = 0 /\ ~IsControl(c) /\ IsHangul(c)
         /\ \E l, v \in Jamo : \/ DecomposeOne(c) = <<l, v>>
                               \/ \E t \in Jamo : DecomposeOne(c) = <<l, v>> \o <<t>>
<1> DEFINE s == c - HangulBase
           t == s % 28
           lv == s \div 28
           l == 4352 + (lv \div 21)
           v == 4449 + (lv % 21)
<1>1. c \in Nat /\ ~IsControl(c) /\ IsHangul(c)
  BY SMT DEF IsControl, ScpMin, IsHangul, HangulBase, HangulEnd
<1>2. Ccc(c) = 0 BY ClassAssumption
<1>3. s \in 0 .. 11171 BY SMT DEF HangulBase, HangulEnd
<1>4. DecomposeOne(c) = <<l, v>> \o (IF t = 0 THEN <<>> ELSE <<4519 + t>>)
  BY <1>1, SMT DEF DecomposeOne, HangulParts
<1> HIDE DEF s
<1>5. t \in 0 .. 27 /\ lv \in 0 .. 398
  <2>1. s \in Nat /\ s < 11172 BY <1>3
  <2>2. s % 28 \in 0 .. 27 BY <2>1, SMT
  <2>3. s \div 28 \in Nat /\ s \div 28 < 399 BY <2>1, SMT
  <2>4. s \div 28 \in 0 .. 398 BY <2>3, SMT
  <2> QED BY <2>2, <2>4
<1> HIDE DEF t, lv
<1>6. lv \div 21 \in 0 .. 18 /\ lv % 21 \in 0 .. 20 BY <1>5
<1>7. l \in Jamo /\ v \in Jamo BY <1>6, SMT DEF Jamo
<1>8. t # 0 => 4519 + t \in Jamo BY <1>5, SMT DEF Jamo
<1> HIDE DEF l, v
<1>9. CASE t = 0
  <2>1. <<l, v>> \o <<>> = <<l, v>> OBVIOUS
  <2>2. DecomposeOne(c) = <<l, v>> BY <1>4, <1>9, <2>1
  <2> QED BY <1>1, <1>2, <1>7, <2>2
<1>10. CASE t # 0
  <2>1. DecomposeOne(c) = <<l, v>> \o <<4519 + t>> BY <1>4, <1>10
  <2> QED BY <1>1, <1>2, <1>7, <1>8, <1>10, <2>1
<1> QED BY <1>9, <1>10

--------------------------------------------------------------------------------
(* Pairs and syllables. *)
LEMMA PairIs ==
  ASSUME NEW a, NEW b
  PROVE  \/ ComposePair(a, b) = 0
         \/ /\ ComposePair(a, b) \in DOMAIN Decomposition
            /\ Decomposition[ComposePair(a, b)] = <<a, b>>
<1> DEFINE rows == {cp \in DOMAIN Decomposition : Decomposition[cp] = <<a, b>>}
<1>1. ComposePair(a, b) = IF rows = {} THEN 0 ELSE Min(rows) BY DEF ComposePair
<1>2. rows \subseteq Nat BY RowIs
<1>3. \A cp \in rows : cp \in DOMAIN Decomposition /\ Decomposition[cp] = <<a, b>> OBVIOUS
<1> HIDE DEF rows
<1>4. rows # {} => Min(rows) \in rows BY <1>2, MinIn
<1> QED BY <1>1, <1>3, <1>4

(* What a row makes of two parts has these parts.                          *)
LEMMA PairParts ==
  ASSUME NEW a, NEW b, NEW r, r = ComposePair(a, b), r # 0
  PROVE  /\ r \in Visible /\ r \in DOMAIN Decomposition /\ Decomposition[r] = <<a, b>>
         /\ DecomposeOne(r) = <<a, b>> /\ a \in Visible /\ ~IsHangul(a)
<1>1. r \in DOMAIN Decomposition /\ Decomposition[r] = <<a, b>> BY PairIs
<1>2. /\ r \in 1 .. ScpMin - 1 /\ r \in Nat
      /\ \A i \in 1 .. Len(Decomposition[r]) :
           Decomposition[r][i] \in Visible /\ ~IsHangul(Decomposition[r][i])
      /\ DecomposeOne(r) = Decomposition[r]
  BY <1>1, RowIs
<1>3. Len(<<a, b>>) = 2 /\ <<a, b>>[1] = a OBVIOUS
<1>4. 1 \in 1 .. 2 OBVIOUS
<1>5. a \in Visible /\ ~IsHangul(a) BY <1>1, <1>2, <1>3, <1>4
<1>6. r \in Visible
  <2>1. ~IsControl(r)
    <3>1. ScpMin \in Nat BY SMT DEF ScpMin
    <3>2. r \in 1 .. ScpMin - 1 BY <1>2
    <3> QED BY <3>1, <3>2, SMT DEF IsControl
  <2> QED BY <1>2, <2>1 DEF Visible
<1> QED BY <1>1, <1>2, <1>5, <1>6

(* What is put together from two codepoints without rows opens no pair.    *)
LEMMA NoThird ==
  ASSUME NEW a, a \notin DOMAIN Decomposition, NEW b, b \notin DOMAIN Decomposition,
         NEW r, r = ComposePair(a, b), r # 0, NEW m
  PROVE  ComposePair(r, m) = 0
<1> SUFFICES ASSUME ComposePair(r, m) # 0 PROVE FALSE
  OBVIOUS
<1>1. r \in DOMAIN Decomposition /\ Decomposition[r] = <<a, b>> BY PairParts
<1> DEFINE q == ComposePair(r, m)
<1>2. q \in DOMAIN Decomposition /\ Decomposition[q] = <<r, m>>
  <2>1. q = ComposePair(r, m) /\ q # 0 OBVIOUS
  <2> HIDE DEF q
  <2> QED BY <2>1, PairParts
<1> HIDE DEF q
<1>3. /\ Len(<<r, m>>) = 2 /\ <<r, m>>[1] = r /\ Len(<<a, b>>) = 2
      /\ \A i \in DOMAIN <<a, b>> : <<a, b>>[i] = a \/ <<a, b>>[i] = b
  OBVIOUS
<1>4. \/ Len(Decomposition[r]) = 1
      \/ \E i \in DOMAIN Decomposition[r] : Decomposition[r][i] \in DOMAIN Decomposition
  <2>1. Len(Decomposition[q]) = 2 /\ Decomposition[q][1] = r BY <1>2, <1>3, Zenon
  <2> QED BY <1>1, <1>2, <2>1, PairsAssumption, Zenon
<1>5. Len(Decomposition[r]) = 2 BY <1>1, <1>3, Zenon
<1>6. \A i \in DOMAIN Decomposition[r] : Decomposition[r][i] \notin DOMAIN Decomposition
  BY <1>1, <1>3, Zenon
<1>7. 1 # 2 OBVIOUS
<1> QED BY <1>4, <1>5, <1>6, <1>7, Zenon

LEMMA Same ==
  ASSUME NEW s \in Seq(Nat), NEW t \in Seq(Nat), Len(s) = Len(t), \A i \in 1 .. Len(s) : s[i] = t[i]
  PROVE  s = t
<1>1. s = [i \in 1 .. Len(s) |-> s[i]] /\ t = [i \in 1 .. Len(t) |-> t[i]] BY SeqIs
<1>2. [i \in 1 .. Len(s) |-> s[i]] = [i \in 1 .. Len(t) |-> t[i]] OBVIOUS
<1> QED BY <1>1, <1>2, Zenon
LEMMA TwoAre == ASSUME NEW a \in Nat, NEW b \in Nat PROVE <<a>> \o <<b>> = <<a, b>>
<1> DEFINE x == <<a>>
 y == <<b>>
 z == <<a,b>>
<1>1. x \in Seq(Nat) /\ Len(x) = 1 /\ x[1] = a OBVIOUS
<1>2. y \in Seq(Nat) /\ Len(y) = 1 /\ y[1] = b OBVIOUS
<1>3. z \in Seq(Nat) /\ Len(z) = 2 /\ z[1] = a /\ z[2] = b OBVIOUS
<1> HIDE DEF x,y,z
<1>4. x \o y \in Seq(Nat) /\ Len(x \o y) = 2 /\ (x \o y)[1] = a /\ (x \o y)[2] = b
  <2>1. x \o y \in Seq(Nat) /\ Len(x \o y) = 2
    <3>1. x \o y \in Seq(Nat) /\ Len(x \o y) = Len(x) + Len(y) BY <1>1, <1>2, Linked, Zenon
    <3>2. \A m, n : m = 1 /\ n = 1 => m + n = 2 OBVIOUS
    <3> QED BY <1>1, <1>2, <3>1, <3>2, Zenon
  <2>2. \A i \in 1 .. Len(x) + Len(y) : (x \o y)[i] = IF i <= Len(x) THEN x[i] ELSE y[i - Len(x)]
    BY <1>1, <1>2, ConcatProperties, Zenon
  <2>3. 1 \in 1 .. 1 + 1 /\ 2 \in 1 .. 1 + 1 /\ 1 <= 1 /\ ~(2 <= 1) /\ 2 - 1 = 1 OBVIOUS
  <2>4. 1 + 1 = 2 OBVIOUS
  <2> QED BY <1>1, <1>2, <2>1, <2>2, <2>3, <2>4, Zenon
<1>5. \A i \in 1 .. 2 : i = 1 \/ i = 2 OBVIOUS
<1>6. x \o y = z
 <2>1. \A i \in 1 .. Len(x \o y) : (x \o y)[i] = z[i] BY <1>3, <1>4, <1>5
 <2>2. x \o y \in Seq(Nat) /\ z \in Seq(Nat) /\ Len(x \o y) = Len(z) BY <1>3, <1>4
 <2> DEFINE s == x \o y
 <2> HIDE DEF s
 <2>3. s = z BY <2>1, <2>2, Same DEF s
 <2> QED BY <2>3 DEF s
<1> QED BY <1>6 DEF x,y,z

(* A syllable by the numbers of its jamo. *)
Onset(l) == 4352 + l
Nucleus(v) == 4449 + v
Coda(t) == 4519 + t
Blocks(l, v, t) == <<Onset(l), Nucleus(v)>> \o (IF t = 0 THEN <<>> ELSE <<Coda(t)>>)
Syllable(s) == Blocks((s \div 28) \div 21, (s \div 28) % 21, s % 28)
Numbered(s) == s \in Nat /\ s < 11172
Open(s) == s % 28 = 0
Onsets == 0 .. 18
Nuclei == 0 .. 20
Codas == 1 .. 27
NumberOf(l, v) == l * 588 + v * 28

LEMMA SyllableIs ==
  ASSUME NEW s, Numbered(s), NEW x, x = HangulBase + s
  PROVE  x \in HangulBase .. HangulEnd /\ DecomposeOne(x) = Syllable(s)
<1>1. x \in HangulBase .. HangulEnd /\ x - HangulBase = s
  BY SMT DEF Numbered, HangulBase, HangulEnd
<1>2. IsHangul(x) BY <1>1, SMT DEF IsHangul
<1>3. DecomposeOne(x) = HangulParts(x) BY <1>2, SMT DEF DecomposeOne
<1>4. HangulParts(x) = Syllable(x - HangulBase)
  BY SMT DEF HangulParts, Syllable, Blocks, Onset, Nucleus, Coda
<1> QED BY <1>1, <1>3, <1>4, SMT

LEMMA BlocksAre ==
  ASSUME NEW l \in Nat, NEW v \in Nat
  PROVE  /\ Onset(l) \in Nat /\ Nucleus(v) \in Nat
         /\ Blocks(l, v, 0) = <<Onset(l)>> \o <<Nucleus(v)>>
         /\ \A t : t # 0 => Blocks(l, v, t) = Blocks(l, v, 0) \o <<Coda(t)>>
<1>1. Onset(l) \in Nat /\ Nucleus(v) \in Nat BY DEF Onset, Nucleus
<1>2. Blocks(l, v, 0) = <<Onset(l), Nucleus(v)>> \o <<>> BY Zenon DEF Blocks
<1>3. <<Onset(l), Nucleus(v)>> \o <<>> = <<Onset(l), Nucleus(v)>> OBVIOUS
<1>4. <<Onset(l)>> \o <<Nucleus(v)>> = <<Onset(l), Nucleus(v)>> BY <1>1, TwoAre, Zenon
<1>5. ASSUME NEW t, t # 0 PROVE Blocks(l, v, t) = <<Onset(l), Nucleus(v)>> \o <<Coda(t)>>
  BY <1>5, Zenon DEF Blocks
<1>6. Blocks(l, v, 0) = <<Onset(l), Nucleus(v)>> BY <1>2, <1>3, Zenon
<1> QED BY <1>1, <1>4, <1>5, <1>6, Zenon

LEMMA OnsetNucleus ==
  ASSUME NEW x \in Onsets, NEW y \in Nuclei, NEW s, s = NumberOf(x, y)
  PROVE  Numbered(s) /\ Syllable(s) = <<Onset(x)>> \o <<Nucleus(y)>>
<1> DEFINE z == 21 * x + y
<1>0. x \in 0 .. 18 /\ y \in 0 .. 20 /\ s = x * 588 + y * 28 BY DEF Onsets, Nuclei, NumberOf
<1>1. s = 28 * z /\ z \in Nat /\ s \in Nat /\ s < 11172 BY <1>0
<1>2. z \div 21 = x /\ z % 21 = y BY <1>0
<1> HIDE DEF z
<1>3. s % 28 = 0 /\ s \div 28 = z BY <1>1
<1>4. Syllable(s) = Blocks(x, y, 0) BY <1>2, <1>3, SMT DEF Syllable
<1>5. x \in Nat /\ y \in Nat BY <1>0
<1>6. Blocks(x, y, 0) = <<Onset(x)>> \o <<Nucleus(y)>> BY <1>5, BlocksAre
<1>7. Numbered(s) BY <1>1 DEF Numbered
<1> QED BY <1>4, <1>6, <1>7, Zenon

LEMMA WithCoda ==
  ASSUME NEW s, Numbered(s), Open(s), NEW d \in Codas
  PROVE  Numbered(s + d) /\ Syllable(s + d) = Syllable(s) \o <<Coda(d)>>
<1> DEFINE z == s \div 28
<1>0. s \in Nat /\ s < 11172 /\ s % 28 = 0 /\ d \in 1 .. 27 BY DEF Numbered, Open, Codas
<1>1. s = 28 * z /\ z \in Nat BY <1>0
<1> HIDE DEF z
<1>2. s + d \in Nat /\ s + d < 11172 BY <1>0, <1>1
<1>3. (s + d) % 28 = d /\ (s + d) \div 28 = z BY <1>0, <1>1
<1>4. s \div 28 = z BY DEF z
<1> DEFINE l == z \div 21
           v == z % 21
<1>5. Syllable(s) = Blocks(l, v, 0) BY <1>0, <1>4, SMT DEF Syllable
<1>6. Syllable(s + d) = Blocks(l, v, d) BY <1>3, SMT DEF Syllable
<1>7. l \in Nat /\ v \in Nat /\ d # 0 BY <1>0, <1>1
<1> HIDE DEF l, v
<1>8. Blocks(l, v, d) = Blocks(l, v, 0) \o <<Coda(d)>>
  <2>1. \A t : t # 0 => Blocks(l, v, t) = Blocks(l, v, 0) \o <<Coda(t)>>
    BY <1>7, BlocksAre, Zenon
  <2> QED BY <1>7, <2>1, Zenon
<1>9. Numbered(s + d) BY <1>2 DEF Numbered
<1> QED BY <1>5, <1>6, <1>8, <1>9, Zenon

LEMMA SyllableGrows ==
  ASSUME NEW a \in Leads, NEW c \in Leads, NEW r, r = ComposeHangul(a, c), r # 0
  PROVE  /\ r \in HangulBase .. HangulEnd /\ c \in Jamo
         /\ DecomposeOne(r) = DecomposeOne(a) \o <<c>>
<1> DEFINE opens == a \in 4352 .. 4370 /\ c \in 4449 .. 4469
<1>1. a \in Nat /\ c \in Nat BY VisibleAre
<1>2. CASE opens
  <2> DEFINE x == a - 4352
             y == c - 4449
             s == x * 588 + y * 28
  <2>1. r = HangulBase + x * 588 + y * 28 BY <1>2, SMT DEF ComposeHangul
  <2>2. x \in Onsets /\ x \in Int /\ y \in Nuclei /\ y \in Int BY <1>2, SMT DEF Onsets, Nuclei
  <2>3. a = Onset(x) /\ c = Nucleus(y) BY <1>1, SMT DEF Onset, Nucleus
  <2>0. s = NumberOf(x, y) BY SMT DEF NumberOf
  <2> HIDE DEF x, y, s
  <2>4. Numbered(s) /\ Syllable(s) = <<Onset(x)>> \o <<Nucleus(y)>>
    BY <2>0, <2>2, OnsetNucleus, Zenon
  <2>5. r = HangulBase + s BY <2>0, <2>1, <2>2, SMT DEF HangulBase, NumberOf
  <2>6. r \in HangulBase .. HangulEnd /\ DecomposeOne(r) = Syllable(s) BY <2>4, <2>5, SyllableIs
  <2>7. a \in Jamo /\ c \in Jamo BY <1>2, SMT DEF Jamo
  <2> HIDE DEF opens
  <2>8. DecomposeOne(a) = <<a>> BY <2>7, JamoAre DEF Atoms
  <2>9. DecomposeOne(r) = DecomposeOne(a) \o <<c>> BY <2>3, <2>4, <2>6, <2>8, Zenon
  <2> QED BY <2>6, <2>7, <2>9
<1>3. CASE ~opens
  <2> DEFINE s == a - HangulBase
             d == c - 4519
  <2>1. /\ IsHangul(a) /\ Open(s) /\ c \in 4520 .. 4546
        /\ r = a + d
    BY <1>3, SMT DEF ComposeHangul, Open
  <2>2. d \in Codas /\ d \in Int /\ c = Coda(d) BY <2>1, SMT DEF Codas, Coda
  <2>3. Numbered(s) /\ s \in Int /\ a = HangulBase + s
    BY <1>1, <2>1, SMT DEF Numbered, IsHangul, HangulBase, HangulEnd
  <2>4. r = HangulBase + (s + d) BY <2>1, <2>2, <2>3, SMT DEF HangulBase
  <2>5. Open(s) BY <2>1
  <2>9. c \in Jamo BY <2>1, SMT DEF Jamo
  <2> HIDE DEF s, d, opens
  <2>6. Numbered(s + d) /\ Syllable(s + d) = Syllable(s) \o <<Coda(d)>>
    BY <2>2, <2>3, <2>5, WithCoda, Zenon
  <2>7. r \in HangulBase .. HangulEnd /\ DecomposeOne(r) = Syllable(s + d)
    BY <2>4, <2>6, SyllableIs
  <2>8. DecomposeOne(a) = Syllable(s) BY <2>3, SyllableIs
  <2>10. DecomposeOne(r) = DecomposeOne(a) \o <<c>> BY <2>2, <2>6, <2>7, <2>8, Zenon
  <2> QED BY <2>7, <2>9, <2>10
<1> HIDE DEF opens
<1> QED BY <1>2, <1>3

--------------------------------------------------------------------------------
(* The engine, between calls. *)
Engine ==
  [form : Forms, starter : Leads \cup {Sentinel}, win : Seq(Atoms), inv : Seq(Controlled),
   seeded : BOOLEAN, room : Nat, out : Seq(Nat), ok : BOOLEAN]

Read(e) == Parted(Plain(e.out))
Lead(e) == IF e.starter = Sentinel THEN <<>> ELSE DecomposeOne(e.starter)

(* It holds what the parted text u needs to go on. *)
Holds(e, u) ==
  /\ e \in Engine
  /\ IF e.seeded THEN Stands(Read(e) \o Lead(e), e.win, u)
     ELSE u = <<>> /\ Read(e) = <<>> /\ e.starter = Sentinel /\ e.win = <<>>

LEMMA PartsTyped ==
  /\ \A c \in Leads : DecomposeOne(c) \in Seq(Nat) /\ c \in Nat
  /\ \A e \in Engine : Read(e) \in Seq(Nat) /\ Lead(e) \in Seq(Nat) /\ e.win \in Seq(Nat)
<1>1. \A c \in Leads : DecomposeOne(c) \in Seq(Nat) /\ c \in Nat BY PartsAre, VisibleAre
<1>2. ASSUME NEW e \in Engine
      PROVE  Read(e) \in Seq(Nat) /\ Lead(e) \in Seq(Nat) /\ e.win \in Seq(Nat)
  <2>1. e.out \in Seq(Nat) /\ e.win \in Seq(Atoms) /\ e.starter \in Leads \cup {Sentinel}
    BY DEF Engine
  <2>2. Read(e) \in Seq(Nat) BY <2>1, PlainIs, PartedIs DEF Read
  <2>3. e.win \in Seq(Nat) BY <2>1, PartedIs
  <2>4. <<>> \in Seq(Nat) OBVIOUS
  <2>5. Lead(e) \in Seq(Nat) BY <1>1, <2>1, <2>4, Zenon DEF Lead
  <2> QED BY <2>2, <2>3, <2>5
<1> QED BY <1>1, <1>2

(* A starter that composes by a row has none itself. *)
LEMMA PairLeads ==
  ASSUME NEW a \in Leads \cup {Sentinel}, NEW b, ComposePair(a, b) # 0
  PROVE  a \in Atoms
<1>1. a \in Visible /\ ~IsHangul(a) BY PairParts
<1>2. a # Sentinel BY <1>1, VisibleAre
<1>3. a \notin HangulBase .. HangulEnd BY <1>1, Zenon DEF IsHangul
<1> QED BY <1>2, <1>3, Zenon DEF Leads

(* The starter takes in at most one mark. *)
LEMMA MergedIs ==
  ASSUME NEW e \in Engine
  PROVE  /\ Merged(e)[0] = e.starter
         /\ \A i \in 1 .. Len(e.win) :
              Merged(e)[i] # 0 =>
                i = 1 /\ e.form # "D" /\ Merged(e)[1] = ComposePair(e.starter, e.win[1])
<1> DEFINE w == Len(e.win)
           Grow(f) == f = [i \in 0 .. w |->
                             IF i = 0 THEN e.starter
                             ELSE IF e.form = "D" \/ f[i - 1] = 0 THEN 0
                             ELSE ComposePair(f[i - 1], e.win[i])]
           x == IF e.form = "D" \/ e.starter = 0 THEN 0 ELSE ComposePair(e.starter, e.win[1])
           g == [i \in 0 .. w |-> IF i = 0 THEN e.starter ELSE IF i = 1 THEN x ELSE 0]
<1>1. w \in Nat
  <2>1. e.win \in Seq(Nat) BY PartsTyped
  <2> QED BY <2>1
<1>2. \A m : x # 0 /\ 1 <= w => ComposePair(x, m) = 0
  <2> SUFFICES ASSUME NEW m, x # 0, 1 <= w PROVE ComposePair(x, m) = 0
    OBVIOUS
  <2>1. x = ComposePair(e.starter, e.win[1]) OBVIOUS
  <2>2. 1 \in 1 .. Len(e.win) BY <1>1
  <2>3. e.win \in Seq(Atoms) /\ e.starter \in Leads \cup {Sentinel} BY DEF Engine
  <2>4. e.win[1] \in Atoms BY <2>2, <2>3, SeqIs
  <2> HIDE DEF x, w
  <2>5. e.starter \in Atoms BY <2>1, <2>3, PairLeads
  <2>6. \A c \in Atoms : c \notin DOMAIN Decomposition BY DEF Atoms
  <2> QED BY <2>1, <2>4, <2>5, <2>6, NoThird
<1>3. Grow(g)
  <2>1. \A i \in 0 .. w : g[i] = IF i = 0 THEN e.starter ELSE IF i = 1 THEN x ELSE 0 OBVIOUS
  <2>2. ASSUME NEW i \in 0 .. w
        PROVE  g[i] = IF i = 0 THEN e.starter
                      ELSE IF e.form = "D" \/ g[i - 1] = 0 THEN 0
                      ELSE ComposePair(g[i - 1], e.win[i])
    <3>1. CASE i = 0 BY <2>1, <3>1
    <3>2. CASE i = 1
      <4>1. i - 1 = 0 /\ 0 \in 0 .. w BY <1>1, <3>2
      <4>2. g[i - 1] = e.starter BY <2>1, <4>1
      <4> QED BY <2>1, <3>2, <4>2
    <3>3. CASE i = 2
      <4>1. i - 1 = 1 /\ 1 \in 0 .. w BY <1>1, <3>3
      <4>2. g[i - 1] = x BY <2>1, <4>1
      <4>3. g[i] = 0 BY <2>1, <3>3
      <4>4. 1 <= w BY <1>1, <3>3
      <4> HIDE DEF g, x, w
      <4> QED BY <1>2, <3>3, <4>2, <4>3, <4>4
    <3>4. CASE i > 2
      <4>1. i - 1 \in 0 .. w /\ i - 1 # 0 /\ i - 1 # 1 BY <1>1, <3>4
      <4>2. g[i - 1] = 0 BY <2>1, <4>1
      <4> QED BY <2>1, <3>4, <4>2
    <3> QED BY <3>1, <3>2, <3>3, <3>4
  <2> HIDE DEF g, x
  <2>3. g = [i \in 0 .. w |-> g[i]] BY DEF g
  <2> QED BY <2>2, <2>3
<1>4. Merged(e) = CHOOSE f : Grow(f) BY DEF Merged
<1>5. Grow(Merged(e))
  <2> HIDE DEF Grow, g
  <2> QED BY <1>3, <1>4
<1> DEFINE b == Merged(e)
<1> HIDE DEF w, x, g
<1>6. \A i \in 0 .. w : b[i] = IF i = 0 THEN e.starter
                               ELSE IF e.form = "D" \/ b[i - 1] = 0 THEN 0
                               ELSE ComposePair(b[i - 1], e.win[i])
  BY <1>5
<1> HIDE DEF b, Grow
<1>7. b[0] = e.starter BY <1>1, <1>6
<1>8. ASSUME 1 \in 0 .. w PROVE b[1] = x
  <2>1. 1 - 1 = 0 /\ 1 # 0 OBVIOUS
  <2> QED BY <1>6, <1>7, <1>8, <2>1 DEF x
<1>9. \A i \in 2 .. w : b[i] = 0
  <2> DEFINE bad == {i \in 2 .. w : b[i] # 0}
  <2> SUFFICES ASSUME bad # {} PROVE FALSE
    OBVIOUS
  <2>1. bad \subseteq Nat OBVIOUS
  <2>2. PICK i \in bad : \A j \in bad : i <= j BY <2>1, LeastExists
  <2>3. i \in 2 .. w /\ b[i] # 0 /\ i \in 0 .. w /\ i # 0 BY <2>2
  <2>4. b[i] = IF e.form = "D" \/ b[i - 1] = 0 THEN 0 ELSE ComposePair(b[i - 1], e.win[i])
    BY <1>6, <2>3
  <2>5. CASE i = 2
    <3>1. 1 \in 0 .. w /\ i - 1 = 1 BY <1>1, <2>3, <2>5
    <3>2. b[i - 1] = x BY <1>8, <3>1
    <3>3. 1 <= w BY <1>1, <3>1
    <3> QED BY <1>2, <2>3, <2>4, <3>2, <3>3
  <2>6. CASE i # 2
    <3>1. i - 1 \in 2 .. w /\ ~(i <= i - 1) BY <1>1, <2>3, <2>6
    <3>2. b[i - 1] = 0 BY <2>2, <3>1
    <3> QED BY <2>3, <2>4, <3>2
  <2> QED BY <2>5, <2>6
<1>10. ASSUME NEW i \in 1 .. Len(e.win), b[i] # 0
       PROVE  i = 1 /\ e.form # "D" /\ b[1] = ComposePair(e.starter, e.win[1])
  <2>1. i \in 0 .. w /\ (i = 1 \/ i \in 2 .. w) BY <1>1 DEF w
  <2>2. i = 1 BY <1>9, <1>10, <2>1
  <2>3. b[1] = x BY <1>8, <2>1, <2>2
  <2>4. x # 0 BY <1>10, <2>2, <2>3
  <2>5. x = ComposePair(e.starter, e.win[1]) /\ e.form # "D" BY <2>4 DEF x
  <2> QED BY <2>2, <2>3, <2>5
<1> QED BY <1>7, <1>10 DEF b

--------------------------------------------------------------------------------
(* What the engine writes. *)
LEMMA Concat ==
  /\ \A x, y, z \in Seq(Nat) : (x \o y) \o z = x \o (y \o z)
  /\ \A x, y \in Seq(Nat) : x \o y \in Seq(Nat)
  /\ \A x \in Seq(Nat) : x \o <<>> = x /\ <<>> \o x = x
  /\ <<>> \in Seq(Nat)
  /\ \A c \in Nat : <<c>> \in Seq(Nat)
<1>1. \A x, y, z \in Seq(Nat) : (x \o y) \o z = x \o (y \o z) BY Regroup, Zenon
<1>2. \A x, y \in Seq(Nat) : x \o y \in Seq(Nat) BY Linked, Zenon
<1>3. \A x \in Seq(Nat) : x \o <<>> = x /\ <<>> \o x = x BY ConcatEmptySeq, Zenon
<1>4. <<>> \in Seq(Nat) /\ \A c \in Nat : <<c>> \in Seq(Nat) OBVIOUS
<1> QED BY <1>1, <1>2, <1>3, <1>4, Zenon

(* What is written for a sequence are its starter and its marks. *)
LEMMA SequenceHolds ==
  ASSUME NEW e \in Engine
  PROVE  Sequence(e) \in Seq(Visible) /\ Parted(Sequence(e)) = Lead(e) \o e.win
<1> DEFINE w == e.win
           base == Merged(e)
           I == {0} \cup {i \in DOMAIN w : base[i] # 0}
           k == Max(I)
           lead == IF e.starter = Sentinel THEN <<>> ELSE <<base[k]>>
           rest == SubSeq(w, k + 1, Len(w))
<1>1. Sequence(e) = lead \o rest BY DEF Sequence
<1>2. /\ w \in Seq(Atoms) /\ w \in Seq(Nat) /\ w \in Seq(Visible)
      /\ e.starter \in Leads \cup {Sentinel} /\ Lead(e) \in Seq(Nat)
      /\ Len(w) \in Nat /\ DOMAIN w = 1 .. Len(w)
  <2>1. w \in Seq(Atoms) /\ e.starter \in Leads \cup {Sentinel} BY DEF Engine
  <2>2. w \in Seq(Nat) /\ w \in Seq(Visible)
    <3>1. Atoms \subseteq Nat /\ Atoms \subseteq Visible BY VisibleAre
    <3> QED BY <2>1, <3>1, Widened
  <2>3. Lead(e) \in Seq(Nat) BY PartsTyped
  <2>4. Len(w) \in Nat /\ DOMAIN w = 1 .. Len(w) BY <2>1, SeqIs
  <2> QED BY <2>1, <2>2, <2>3, <2>4
<1>3. /\ base[0] = e.starter
      /\ \A i \in 1 .. Len(w) : base[i] # 0 => i = 1 /\ base[1] = ComposePair(e.starter, w[1])
  BY MergedIs
<1> HIDE DEF base, w
<1>4. /\ \A i \in I :
           i = 0 \/ (i = 1 /\ 1 \in 1 .. Len(w) /\ base[1] # 0 /\ base[1] = ComposePair(e.starter, w[1]))
      /\ I \subseteq 0 .. Len(w) /\ I # {}
  BY <1>2, <1>3
<1> HIDE DEF I
<1>5. k \in I BY <1>2, <1>4, MaxIn
<1> HIDE DEF k
<1>6. CASE k = 0
  <2>1. rest = w
    <3>1. SubSeq(w, 1, Len(w)) = w BY <1>2, SubSeqFull
    <3>2. 0 + 1 = 1 OBVIOUS
    <3> QED BY <1>6, <3>1, <3>2
  <2>2. lead \in Seq(Visible) /\ lead \in Seq(Nat) /\ Parted(lead) = Lead(e)
    <3>1. CASE e.starter = Sentinel
      <4>1. lead = <<>> /\ Lead(e) = <<>> BY <3>1, Zenon DEF Lead
      <4>2. <<>> \in Seq(Visible) OBVIOUS
      <4> QED BY <4>1, <4>2, PartedIs, Concat
    <3>2. CASE e.starter # Sentinel
      <4>1. lead = <<e.starter>> /\ Lead(e) = DecomposeOne(e.starter)
        BY <1>3, <1>6, <3>2, Zenon DEF Lead
      <4>2. e.starter \in Visible /\ e.starter \in Nat BY <1>2, <3>2, VisibleAre
      <4>3. <<e.starter>> \in Seq(Visible) BY <4>2
      <4> QED BY <4>1, <4>2, <4>3, PartedIs, Concat
    <3> QED BY <3>1, <3>2
  <2> HIDE DEF lead, rest
  <2>3. Parted(w) = w BY <1>2, PartedIs
  <2>4. Parted(lead \o w) = Parted(lead) \o Parted(w) BY <1>2, <2>2, PartedIs, Zenon
  <2>5. lead \o w \in Seq(Visible) BY <1>2, <2>2, ConcatProperties
  <2> QED BY <1>1, <2>1, <2>2, <2>3, <2>4, <2>5, Zenon DEF w
<1>7. CASE k = 1
  <2> DEFINE r == base[1]
             m == w[1]
             a == e.starter
  <2>1. 1 \in 1 .. Len(w) /\ r # 0 /\ r = ComposePair(a, m) BY <1>4, <1>5, <1>7
  <2>0. a \in Leads \cup {Sentinel} /\ m \in Atoms BY <1>2, <2>1, SeqIs DEF w
  <2> HIDE DEF r, m, a
  <2>2. /\ r \in Visible /\ DecomposeOne(r) = <<a, m>> /\ a \in Atoms /\ m \in Atoms
    BY <2>0, <2>1, PairParts, PairLeads
  <2>3. a # Sentinel /\ a \in Nat /\ m \in Nat /\ r \in Nat BY <2>2, VisibleAre
  <2>4. lead = <<r>> BY <1>7, <2>3, Zenon DEF r, a
  <2>5. rest = SubSeq(w, 2, Len(w))
    <3>1. 1 + 1 = 2 OBVIOUS
    <3> QED BY <1>7, <3>1
  <2> HIDE DEF lead, rest
  <2>6. rest \in Seq(Atoms) /\ rest \in Seq(Visible) /\ rest \in Seq(Nat)
    <3>1. rest \in Seq(Atoms)
      <4>1. 1 \in 0 .. Len(w) /\ 1 + 1 = 2 BY <1>2, <2>1
      <4> QED BY <1>2, <2>5, <4>1, Split
    <3>2. Atoms \subseteq Nat /\ Atoms \subseteq Visible BY VisibleAre
    <3> QED BY <3>1, <3>2, Widened
  <2>7. w = <<m>> \o rest
    <3>1. Len(w) \in 1 .. Len(w) /\ 1 + 1 = 2 BY <1>2, <2>1
    <3>2. SubSeq(w, 1, Len(w)) = <<w[1]>> \o SubSeq(w, 2, Len(w))
      BY <1>2, <2>1, <3>1, SubSeqRecursiveFirst
    <3>3. SubSeq(w, 1, Len(w)) = w BY <1>2, SubSeqFull
    <3> QED BY <2>5, <3>2, <3>3, Zenon DEF m
  <2>8. Lead(e) = <<a>>
    <3>1. DecomposeOne(a) = <<a>> BY <2>2 DEF Atoms
    <3> QED BY <2>3, <3>1, Zenon DEF Lead, a
  <2>9. Parted(<<r>> \o rest) = <<a, m>> \o rest
    <3>1. <<r>> \in Seq(Nat) BY <2>3, Concat
    <3>2. Parted(<<r>> \o rest) = Parted(<<r>>) \o Parted(rest) BY <2>6, <3>1, PartedIs, Zenon
    <3>3. Parted(<<r>>) = <<a, m>> /\ Parted(rest) = rest BY <2>2, <2>3, <2>6, PartedIs, Zenon
    <3> QED BY <3>2, <3>3, Zenon
  <2>10. <<a, m>> \o rest = <<a>> \o w
    <3>1. <<a>> \o <<m>> = <<a, m>> BY <2>3, TwoAre
    <3>2. <<a>> \in Seq(Nat) /\ <<m>> \in Seq(Nat) BY <2>3, Concat
    <3>3. (<<a>> \o <<m>>) \o rest = <<a>> \o (<<m>> \o rest)
      <4> DEFINE x == <<a>>
                 y == <<m>>
      <4>1. x \in Seq(Nat) /\ y \in Seq(Nat) BY <3>2, Zenon
      <4> HIDE DEF x, y
      <4>2. (x \o y) \o rest = x \o (y \o rest) BY <2>6, <4>1, Regroup
      <4> QED BY <4>2, Zenon DEF x, y
    <3> QED BY <2>7, <3>1, <3>3, Zenon
  <2>11. <<r>> \o rest \in Seq(Visible)
    <3>0. \A z \in Visible : <<z>> \in Seq(Visible) OBVIOUS
    <3>1. <<r>> \in Seq(Visible) BY <2>2, <3>0, Zenon
    <3> QED BY <2>6, <3>1, ConcatProperties
  <2> QED BY <1>1, <2>4, <2>8, <2>9, <2>10, <2>11, Zenon DEF w
<1> QED BY <1>4, <1>5, <1>6, <1>7

LEMMA InsertTyped ==
  ASSUME NEW win \in Seq(Atoms), NEW c \in Atoms
  PROVE  Insert(win, c) \in Seq(Atoms)
<1> DEFINE I == {0} \cup {i \in DOMAIN win : Ccc(win[i]) <= Ccc(c)}
           k == Max(I)
           l == SubSeq(win, 1, k)
           m == <<c>>
           r == SubSeq(win, k + 1, Len(win))
<1>1. k \in 0 .. Len(win)
  <2>1. I \subseteq 0 .. Len(win) /\ I # {} /\ Len(win) \in Nat OBVIOUS
  <2> HIDE DEF I
  <2>2. k \in I BY <2>1, MaxIn
  <2> QED BY <2>1, <2>2
<1>2. Insert(win, c) = l \o m \o r BY DEF Insert
<1> HIDE DEF k
<1>3. l \in Seq(Atoms) /\ r \in Seq(Atoms) BY <1>1, Split
<1>4. m \in Seq(Atoms) OBVIOUS
<1> HIDE DEF l, m, r
<1>5. l \o m \in Seq(Atoms) BY <1>3, <1>4, ConcatProperties
<1>6. (l \o m) \o r \in Seq(Atoms) BY <1>3, <1>5, ConcatProperties
<1> QED BY <1>2, <1>6

(* Controls that are written do not show. *)
LEMMA Writes ==
  ASSUME NEW a \in Seq(Nat), NEW i \in Seq(Controlled)
  PROVE  /\ a \o i \in Seq(Nat) /\ Parted(Plain(a \o i)) = Parted(Plain(a))
         /\ \A s \in Seq(Visible) :
              /\ a \o s \o i \in Seq(Nat)
              /\ Parted(Plain(a \o s \o i)) = Parted(Plain(a)) \o Parted(s)
<1>1. i \in Seq(Nat) /\ Plain(i) = <<>> BY PlainIs
<1>2. ASSUME NEW b \in Seq(Nat) PROVE b \o i \in Seq(Nat) /\ Plain(b \o i) = Plain(b)
  <2>1. Plain(b \o i) = Plain(b) \o Plain(i) /\ Plain(b) \in Seq(Nat) BY <1>1, PlainIs, Zenon
  <2>2. Plain(b) \o <<>> = Plain(b) BY <2>1, Concat
  <2> QED BY <1>1, <2>1, <2>2, Concat, Zenon
<1>3. ASSUME NEW s \in Seq(Visible)
      PROVE  a \o s \in Seq(Nat) /\ Parted(Plain(a \o s)) = Parted(Plain(a)) \o Parted(s)
  <2>1. s \in Seq(Nat) /\ Plain(s) = s BY PlainIs
  <2>0. Plain(a \o s) = Plain(a) \o Plain(s) BY <2>1, PlainIs, Zenon
  <2>2. Plain(a \o s) = Plain(a) \o s BY <2>0, <2>1, Zenon
  <2>3. Plain(a) \in Seq(Nat) BY PlainIs
  <2>4. Parted(Plain(a) \o s) = Parted(Plain(a)) \o Parted(s) BY <2>1, <2>3, PartedIs, Zenon
  <2> QED BY <2>1, <2>2, <2>4, Concat, Zenon
<1>4. ASSUME NEW s \in Seq(Visible)
      PROVE  /\ a \o s \o i \in Seq(Nat)
             /\ Parted(Plain(a \o s \o i)) = Parted(Plain(a)) \o Parted(s)
  <2>1. a \o s \in Seq(Nat) /\ Parted(Plain(a \o s)) = Parted(Plain(a)) \o Parted(s) BY <1>3
  <2>2. (a \o s) \o i \in Seq(Nat) /\ Plain((a \o s) \o i) = Plain(a \o s) BY <1>2, <2>1, Zenon
  <2> QED BY <2>1, <2>2, Zenon
<1>5. a \o i \in Seq(Nat) /\ Plain(a \o i) = Plain(a) BY <1>2
<1> QED BY <1>4, <1>5, Zenon

LEMMA EngineIs ==
  ASSUME NEW e \in Engine
  PROVE  /\ e.form \in Forms /\ e.starter \in Leads \cup {Sentinel} /\ e.win \in Seq(Atoms)
         /\ e.win \in Seq(Nat) /\ e.inv \in Seq(Controlled) /\ e.seeded \in BOOLEAN
         /\ e.room \in Nat /\ e.out \in Seq(Nat) /\ e.ok \in BOOLEAN
         /\ Read(e) \in Seq(Nat) /\ Lead(e) \in Seq(Nat)
BY PartsTyped, Zenon DEF Engine

(* The end of a sequence writes all that is held back. *)
LEMMA FinalizeKeeps ==
  ASSUME NEW e \in Engine
  PROVE  /\ Finalize(e) \in Engine /\ Read(Finalize(e)) = Read(e) \o Lead(e) \o e.win
         /\ Finalize(e).starter = Sentinel /\ Finalize(e).win = <<>>
         /\ Finalize(e).seeded = e.seeded
<1> DEFINE s == Sequence(e)
           out == e.out \o s \o e.inv
           none == <<>>
           f == [e EXCEPT !.out = out, !.win = none, !.inv = none, !.starter = Sentinel]
<1>1. /\ e.out \in Seq(Nat) /\ e.inv \in Seq(Controlled)
      /\ Read(e) \in Seq(Nat) /\ Lead(e) \in Seq(Nat) /\ e.win \in Seq(Nat)
  BY EngineIs
<1>2. s \in Seq(Visible) /\ Parted(s) = Lead(e) \o e.win BY SequenceHolds
<1>3. Finalize(e) = f BY DEF Finalize, Engine
<1> HIDE DEF s
<1>4. out \in Seq(Nat) /\ Parted(Plain(out)) = Read(e) \o Parted(s)
  BY <1>1, <1>2, Writes, Zenon DEF Read
<1>5. none \in Seq(Atoms) /\ none \in Seq(Controlled) OBVIOUS
<1> HIDE DEF out, none
<1>6. f \in Engine /\ f.out = out /\ f.starter = Sentinel /\ f.win = none /\ f.seeded = e.seeded
  BY <1>4, <1>5 DEF Engine
<1> HIDE DEF f
<1>7. Read(f) = Read(e) \o (Lead(e) \o e.win) BY <1>2, <1>4, <1>6, Zenon DEF Read
<1>8. (Read(e) \o Lead(e)) \o e.win = Read(e) \o (Lead(e) \o e.win) BY <1>1, Regroup
<1>9. Read(f) = Read(e) \o Lead(e) \o e.win BY <1>7, <1>8, Zenon
<1> QED BY <1>3, <1>6, <1>9, Zenon DEF none

LEMMA FlushInvKeeps ==
  ASSUME NEW e \in Engine
  PROVE  /\ FlushInv(e) \in Engine /\ Read(FlushInv(e)) = Read(e)
         /\ FlushInv(e).starter = e.starter /\ FlushInv(e).win = e.win
         /\ FlushInv(e).seeded = e.seeded
<1> DEFINE out == e.out \o e.inv
           none == <<>>
           f == [e EXCEPT !.out = out, !.inv = none]
<1>1. e.out \in Seq(Nat) /\ e.inv \in Seq(Controlled) BY EngineIs
<1>2. FlushInv(e) = f BY DEF FlushInv, Engine
<1>3. out \in Seq(Nat) /\ Parted(Plain(out)) = Read(e) BY <1>1, Writes, Zenon DEF Read
<1>4. none \in Seq(Controlled) OBVIOUS
<1> HIDE DEF out, none
<1>5. /\ f \in Engine /\ f.out = out /\ f.starter = e.starter /\ f.win = e.win
      /\ f.seeded = e.seeded
  BY <1>3, <1>4 DEF Engine
<1> HIDE DEF f
<1>6. Read(f) = Read(e) BY <1>3, <1>5, Zenon DEF Read
<1> QED BY <1>2, <1>5, <1>6, Zenon

(* A control that is held back or let out does not show. *)
LEMMA HoldKeeps ==
  ASSUME NEW e \in Engine, NEW c \in Controlled
  PROVE  /\ Hold(e, c) \in Engine /\ Read(Hold(e, c)) = Read(e)
         /\ Hold(e, c).starter = e.starter /\ Hold(e, c).win = e.win
         /\ Hold(e, c).seeded = e.seeded
<1>1. e.out \in Seq(Nat) /\ e.inv \in Seq(Controlled) BY EngineIs
<1>2. CASE Len(e.inv) < Depth
  <2> DEFINE inv == Append(e.inv, c)
             f == [e EXCEPT !.inv = inv]
  <2>1. Hold(e, c) = f BY <1>2 DEF Hold, Engine
  <2>2. inv \in Seq(Controlled) BY <1>1
  <2> HIDE DEF inv
  <2>3. /\ f \in Engine /\ f.out = e.out /\ f.starter = e.starter /\ f.win = e.win
        /\ f.seeded = e.seeded
    BY <2>2 DEF Engine
  <2> HIDE DEF f
  <2> QED BY <2>1, <2>3, Zenon DEF Read
<1>3. CASE ~(Len(e.inv) < Depth)
  <2> DEFINE h == Head(e.inv)
             out == Append(e.out, h)
             inv == Append(Tail(e.inv), c)
             f == [e EXCEPT !.out = out, !.inv = inv]
  <2>1. Hold(e, c) = f BY <1>3 DEF Hold, Engine
  <2>2. e.inv # <<>> BY <1>1, <1>3, FormsAssumption
  <2>3. h \in Controlled /\ Tail(e.inv) \in Seq(Controlled) BY <1>1, <2>2, HeadTailProperties
  <2>4. inv \in Seq(Controlled) BY <2>3
  <2> HIDE DEF h, inv
  <2>5. out \in Seq(Nat) /\ Parted(Plain(out)) = Read(e)
    <3> DEFINE m == <<h>>
    <3>1. h \in Nat BY <2>3, VisibleAre
    <3>2. out = e.out \o m BY <1>1, <3>1, Appended, Zenon
    <3>3. m \in Seq(Controlled) BY <2>3
    <3> HIDE DEF m
    <3> QED BY <1>1, <3>2, <3>3, Writes, Zenon DEF Read
  <2> HIDE DEF out
  <2>6. /\ f \in Engine /\ f.out = out /\ f.starter = e.starter /\ f.win = e.win
        /\ f.seeded = e.seeded
    BY <2>4, <2>5 DEF Engine
  <2> HIDE DEF f
  <2> QED BY <2>1, <2>5, <2>6, Zenon DEF Read
<1> QED BY <1>2, <1>3

--------------------------------------------------------------------------------
LEMMA OpensMore ==
  ASSUME NEW p, NEW u, Stands(p, <<>>, u), NEW c \in Nat, Ccc(c) = 0
  PROVE  Stands(p \o <<c>>, <<>>, u \o <<c>>)
<1>1. Stands(p \o <<>> \o <<c>>, <<>>, Append(u, c)) BY Opens
<1>2. p \in Seq(Nat) /\ u \in Seq(Nat) BY StandsIs
<1>3. p \o <<>> = p BY <1>2, Concat
<1>4. Append(u, c) = u \o <<c>> BY <1>2, Appended
<1> QED BY <1>1, <1>3, <1>4, Zenon

(* The jamo of a syllable are starters. *)
LEMMA OpensSyllable ==
  ASSUME NEW p \in Seq(Nat), NEW u \in Seq(Nat), NEW c \in HangulBase .. HangulEnd,
         \A l \in Jamo : Stands(p \o <<l>>, <<>>, u \o <<l>>)
  PROVE  Stands(p \o DecomposeOne(c), <<>>, u \o DecomposeOne(c))
<1>0. \A l \in Jamo : l \in Nat /\ Ccc(l) = 0 /\ <<l>> \in Seq(Nat)
  BY JamoAre, VisibleAre, Concat
<1>1. ASSUME NEW l \in Jamo, NEW v \in Jamo
      PROVE  Stands(p \o <<l, v>>, <<>>, u \o <<l, v>>)
  <2>1. Stands((p \o <<l>>) \o <<v>>, <<>>, (u \o <<l>>) \o <<v>>) BY <1>0, OpensMore
  <2>2. <<l>> \o <<v>> = <<l, v>> BY <1>0, TwoAre
  <2>3. \A s \in Seq(Nat) : (s \o <<l>>) \o <<v>> = s \o (<<l>> \o <<v>>)
    <3> DEFINE x == <<l>>
               y == <<v>>
    <3>1. x \in Seq(Nat) /\ y \in Seq(Nat) BY <1>0
    <3> HIDE DEF x, y
    <3>2. \A s \in Seq(Nat) : (s \o x) \o y = s \o (x \o y) BY <3>1, Regroup
    <3> QED BY <3>2 DEF x, y
  <2> QED BY <2>1, <2>2, <2>3, Zenon
<1>2. ASSUME NEW l \in Jamo, NEW v \in Jamo, NEW t \in Jamo
      PROVE  Stands(p \o (<<l, v>> \o <<t>>), <<>>, u \o (<<l, v>> \o <<t>>))
  <2> DEFINE x == <<l, v>>
             y == <<t>>
  <2>1. Stands((p \o x) \o y, <<>>, (u \o x) \o y) BY <1>0, <1>1, OpensMore
  <2>2. x \in Seq(Nat) /\ y \in Seq(Nat) BY <1>0
  <2> HIDE DEF x, y
  <2>3. \A s \in Seq(Nat) : (s \o x) \o y = s \o (x \o y) BY <2>2, Regroup
  <2>4. Stands(p \o (x \o y), <<>>, u \o (x \o y)) BY <2>1, <2>3, Zenon
  <2> QED BY <2>4, Zenon DEF x, y
<1> QED BY <1>1, <1>2, HangulIs, Zenon

LEMMA LeadsOpen ==
  ASSUME NEW c \in Leads
  PROVE  /\ Stands(DecomposeOne(c), <<>>, DecomposeOne(c))
         /\ \A p, win, u : Stands(p, win, u) /\ Ccc(c) = 0 =>
              Stands(p \o win \o DecomposeOne(c), <<>>, u \o DecomposeOne(c))
<1>1. ASSUME NEW l \in Nat PROVE Stands(<<>> \o <<l>>, <<>>, <<>> \o <<l>>)
  <2>1. <<>> \in Seq(Nat) BY Concat
  <2>2. Stands(Canon(<<>>) \o <<l>>, <<>>, Append(<<>>, l)) BY <2>1, NoneRanked, OpensAlone
  <2>3. Append(<<>>, l) = <<>> \o <<l>> BY <2>1, Appended, Zenon
  <2> QED BY <2>2, <2>3, NoneRanked, Zenon
<1>2. ASSUME NEW p, NEW win, NEW u, Stands(p, win, u), NEW l \in Nat, Ccc(l) = 0
      PROVE  Stands(p \o win \o <<l>>, <<>>, u \o <<l>>)
  <2>1. Stands(p \o win \o <<l>>, <<>>, Append(u, l)) BY <1>2, Opens
  <2>2. u \in Seq(Nat) BY <1>2, StandsIs
  <2>3. Append(u, l) = u \o <<l>> BY <2>2, Appended
  <2> QED BY <2>1, <2>3, Zenon
<1>3. CASE c \in Atoms
  <2>1. c \in Nat /\ DecomposeOne(c) = <<c>> BY <1>3 DEF Atoms
  <2>2. <<>> \o <<c>> = <<c>> BY <2>1, Concat
  <2>3. Stands(<<c>>, <<>>, <<c>>) BY <1>1, <2>1, <2>2, Zenon
  <2> QED BY <1>2, <2>1, <2>3, Zenon
<1>4. CASE c \in HangulBase .. HangulEnd
  <2> DEFINE h == HangulBase .. HangulEnd
  <2>1. \A l \in Jamo : l \in Nat /\ Ccc(l) = 0 BY JamoAre, VisibleAre
  <2>2. Stands(DecomposeOne(c), <<>>, DecomposeOne(c))
    <3>1. \A l \in Jamo : Stands(<<>> \o <<l>>, <<>>, <<>> \o <<l>>) BY <1>1, <2>1, Zenon
    <3>2. Stands(<<>> \o DecomposeOne(c), <<>>, <<>> \o DecomposeOne(c))
      BY <1>4, <3>1, Concat, OpensSyllable
    <3>3. <<>> \o DecomposeOne(c) = DecomposeOne(c) BY PartsTyped, Concat
    <3> QED BY <3>2, <3>3, Zenon
  <2>3. ASSUME NEW p, NEW win, NEW u, Stands(p, win, u)
        PROVE  Stands(p \o win \o DecomposeOne(c), <<>>, u \o DecomposeOne(c))
    <3> DEFINE a == p \o win
    <3>1. u \in Seq(Nat) /\ a \in Seq(Nat) BY <2>3, StandsIs, Concat
    <3>2. \A l \in Jamo : Stands(a \o <<l>>, <<>>, u \o <<l>>) BY <1>2, <2>1, <2>3, Zenon
    <3> HIDE DEF a
    <3>3. Stands(a \o DecomposeOne(c), <<>>, u \o DecomposeOne(c))
      BY <1>4, <3>1, <3>2, OpensSyllable
    <3> QED BY <3>3 DEF a
  <2> QED BY <2>2, <2>3, Zenon
<1> QED BY <1>3, <1>4 DEF Leads

--------------------------------------------------------------------------------
(* One part, and one codepoint, is absorbed. *)
LEMMA HoldsIs ==
  ASSUME NEW e, NEW u, Holds(e, u)
  PROVE  e \in Engine /\ u \in Seq(Nat)
<1>1. e \in Engine BY DEF Holds
<1>2. CASE e.seeded
  <2>1. Stands(Read(e) \o Lead(e), e.win, u) BY <1>2 DEF Holds
  <2> QED BY <1>1, <2>1, StandsIs
<1>3. CASE ~e.seeded BY <1>1, <1>3, Concat DEF Holds
<1> QED BY <1>2, <1>3

(* The engine with another starter. *)
LEMMA Starts ==
  ASSUME NEW e \in Engine, NEW c \in Leads, NEW b \in BOOLEAN
  PROVE  LET f == [e EXCEPT !.seeded = b, !.starter = c]
         IN /\ f \in Engine /\ Read(f) = Read(e) /\ Lead(f) = DecomposeOne(c)
            /\ f.win = e.win /\ f.seeded = b
<1> DEFINE f == [e EXCEPT !.seeded = b, !.starter = c]
<1>1. f \in Engine /\ f.out = e.out /\ f.starter = c /\ f.win = e.win /\ f.seeded = b
  BY DEF Engine
<1>2. c # Sentinel BY VisibleAre
<1> HIDE DEF f
<1>3. Read(f) = Read(e) /\ Lead(f) = DecomposeOne(c) BY <1>1, <1>2, Zenon DEF Read, Lead
<1> QED BY <1>1, <1>3 DEF f

LEMMA SeedHolds ==
  ASSUME NEW e, NEW u, Holds(e, u), ~e.seeded, NEW c \in Leads
  PROVE  Holds([FlushInv(e) EXCEPT !.seeded = TRUE, !.starter = c], u \o DecomposeOne(c))
<1> DEFINE v == FlushInv(e)
           f == [v EXCEPT !.seeded = TRUE, !.starter = c]
<1>1. e \in Engine /\ u = <<>> /\ Read(e) = <<>> /\ e.win = <<>> BY DEF Holds
<1>2. v \in Engine /\ Read(v) = <<>> /\ v.win = <<>> BY <1>1, FlushInvKeeps, Zenon
<1> HIDE DEF v
<1>3. /\ f \in Engine /\ Read(f) = <<>> /\ Lead(f) = DecomposeOne(c) /\ f.win = <<>>
      /\ f.seeded = TRUE
  BY <1>2, Starts
<1> HIDE DEF f
<1>4. <<>> \o DecomposeOne(c) = DecomposeOne(c) BY PartsTyped, Concat
<1>5. Stands(Read(f) \o Lead(f), f.win, u \o DecomposeOne(c))
  BY <1>1, <1>3, <1>4, LeadsOpen, Zenon
<1>6. Holds(f, u \o DecomposeOne(c)) BY <1>3, <1>5, Zenon DEF Holds
<1> QED BY <1>6 DEF f, v

LEMMA StarterHolds ==
  ASSUME NEW e, NEW u, Holds(e, u), e.seeded, NEW c \in Leads, Ccc(c) = 0
  PROVE  Holds(NewStarter(e, c), u \o DecomposeOne(c))
<1> DEFINE syllable == IF e.form = "C" /\ e.win = <<>> /\ e.starter # Sentinel
                         THEN ComposeHangul(e.starter, c) ELSE 0
           w == [e EXCEPT !.starter = syllable]
           z == Finalize(e)
           n == [z EXCEPT !.starter = c]
<1>1. /\ e \in Engine /\ Stands(Read(e) \o Lead(e), e.win, u) /\ e.seeded = TRUE
      /\ u \in Seq(Nat) /\ c \in Nat /\ Read(e) \in Seq(Nat) /\ Lead(e) \in Seq(Nat)
  <2>1. e \in Engine /\ Stands(Read(e) \o Lead(e), e.win, u) BY DEF Holds
  <2>2. e.seeded = TRUE BY <2>1, EngineIs
  <2> QED BY <2>1, <2>2, StandsIs, VisibleAre, EngineIs
<1>2. NewStarter(e, c) = IF syllable # 0 THEN w ELSE n BY DEF NewStarter
<1>3. CASE syllable # 0
  <2>1. /\ e.win = <<>> /\ e.starter # Sentinel
        /\ syllable = ComposeHangul(e.starter, c)
    BY <1>3
  <2> HIDE DEF syllable
  <2>2. e.starter \in Leads BY <1>1, <2>1, EngineIs
  <2>3. /\ syllable \in HangulBase .. HangulEnd /\ c \in Jamo
        /\ DecomposeOne(syllable) = DecomposeOne(e.starter) \o <<c>>
    BY <1>3, <2>1, <2>2, SyllableGrows
  <2>4. syllable \in Leads BY <2>3 DEF Leads
  <2>5. w = [e EXCEPT !.seeded = TRUE, !.starter = syllable] BY <1>1 DEF Engine
  <2>6. /\ w \in Engine /\ Read(w) = Read(e) /\ Lead(w) = DecomposeOne(syllable)
        /\ w.win = e.win /\ w.seeded = TRUE
    BY <1>1, <2>4, <2>5, Starts
  <2> HIDE DEF w
  <2>7. Lead(w) = Lead(e) \o <<c>> BY <2>1, <2>3, <2>6, Zenon DEF Lead
  <2>8. DecomposeOne(c) = <<c>> BY <2>3, JamoAre DEF Atoms
  <2>9. Stands((Read(e) \o Lead(e)) \o <<c>>, <<>>, u \o <<c>>) BY <1>1, <2>1, OpensMore
  <2>10. (Read(e) \o Lead(e)) \o <<c>> = Read(e) \o (Lead(e) \o <<c>>)
    <3> DEFINE m == <<c>>
    <3>1. m \in Seq(Nat) BY <1>1
    <3> HIDE DEF m
    <3>2. (Read(e) \o Lead(e)) \o m = Read(e) \o (Lead(e) \o m) BY <1>1, <3>1, Regroup
    <3> QED BY <3>2 DEF m
  <2>11. Stands(Read(w) \o Lead(w), w.win, u \o DecomposeOne(c))
    BY <2>1, <2>6, <2>7, <2>8, <2>9, <2>10, Zenon
  <2>12. Holds(w, u \o DecomposeOne(c)) BY <2>6, <2>11, Zenon DEF Holds
  <2> QED BY <1>2, <1>3, <2>12
<1>4. CASE syllable = 0
  <2>1. NewStarter(e, c) = n BY <1>2, <1>4
  <2> HIDE DEF syllable, w
  <2>2. /\ z \in Engine /\ Read(z) = Read(e) \o Lead(e) \o e.win /\ z.win = <<>>
        /\ z.seeded = TRUE
    BY <1>1, FinalizeKeeps
  <2> HIDE DEF z
  <2>3. n = [z EXCEPT !.seeded = TRUE, !.starter = c] BY <2>2 DEF Engine
  <2> HIDE DEF n
  <2>4. /\ n \in Engine /\ Read(n) = Read(z) /\ Lead(n) = DecomposeOne(c)
        /\ n.win = <<>> /\ n.seeded = TRUE
    BY <2>2, <2>3, Starts
  <2>5. Stands((Read(e) \o Lead(e)) \o e.win \o DecomposeOne(c), <<>>, u \o DecomposeOne(c))
    BY <1>1, LeadsOpen
  <2>6. Stands(Read(n) \o Lead(n), n.win, u \o DecomposeOne(c))
    BY <2>2, <2>4, <2>5, Zenon
  <2>7. Holds(n, u \o DecomposeOne(c)) BY <2>4, <2>6, Zenon DEF Holds
  <2> QED BY <2>1, <2>7
<1> QED BY <1>3, <1>4

LEMMA MarkHolds ==
  ASSUME NEW e, NEW u, Holds(e, u), e.seeded, NEW c \in Atoms, Ccc(c) # 0
  PROVE  Holds(NewMark(e, c), u \o <<c>>)
<1> DEFINE p == Read(e) \o Lead(e)
<1>1. /\ e \in Engine /\ Stands(p, e.win, u) /\ e.seeded = TRUE /\ e.win \in Seq(Atoms)
      /\ u \in Seq(Nat) /\ c \in Nat
  <2>1. e \in Engine /\ Stands(Read(e) \o Lead(e), e.win, u) BY DEF Holds
  <2> QED BY <2>1, StandsIs, VisibleAre, EngineIs
<1>2. Append(u, c) = u \o <<c>> BY <1>1, Appended
<1>3. CASE Len(e.win) < Window
  <2> DEFINE win == Insert(e.win, c)
             f == [e EXCEPT !.win = win]
  <2>1. NewMark(e, c) = f BY <1>1, <1>3 DEF NewMark, Engine
  <2>2. win \in Seq(Atoms) BY <1>1, InsertTyped
  <2>3. Stands(p, win, u \o <<c>>)
    <3>1. Stands(p, win, Append(u, c)) BY <1>1, <1>3, Joins
    <3> QED BY <1>2, <3>1, Zenon
  <2> HIDE DEF win
  <2>4. /\ f \in Engine /\ f.out = e.out /\ f.starter = e.starter /\ f.win = win
        /\ f.seeded = TRUE
    BY <1>1, <2>2 DEF Engine
  <2> HIDE DEF f
  <2>5. Read(f) \o Lead(f) = p BY <2>4, Zenon DEF Read, Lead
  <2>6. Holds(f, u \o <<c>>) BY <2>3, <2>4, <2>5, Zenon DEF Holds
  <2> QED BY <2>1, <2>6
<1>4. CASE ~(Len(e.win) < Window)
  <2> DEFINE z == Finalize(e)
             win == <<c>>
             f == [z EXCEPT !.win = win]
  <2>1. NewMark(e, c) = f BY <1>1, <1>4 DEF NewMark, Engine
  <2>2. Len(e.win) = Window
    <3>1. Len(e.win) <= Window BY <1>1 DEF Stands
    <3>2. Len(e.win) \in Nat BY <1>1
    <3> QED BY <1>4, <3>1, <3>2, FormsAssumption
  <2>3. Stands(p \o e.win, win, u \o <<c>>)
    <3>1. Stands(p \o e.win, win, Append(u, c)) BY <1>1, <2>2, NextPortion
    <3> QED BY <1>2, <3>1, Zenon
  <2>4. /\ z \in Engine /\ Read(z) = p \o e.win /\ z.starter = Sentinel /\ z.seeded = TRUE
    BY <1>1, FinalizeKeeps
  <2>5. win \in Seq(Atoms) OBVIOUS
  <2> HIDE DEF z, win
  <2>6. /\ f \in Engine /\ f.out = z.out /\ f.starter = z.starter /\ f.win = win
        /\ f.seeded = TRUE
    BY <2>4, <2>5 DEF Engine
  <2> HIDE DEF f
  <2>7. Read(f) = p \o e.win /\ Lead(f) = <<>> BY <2>4, <2>6, Zenon DEF Read, Lead
  <2>8. Read(f) \o Lead(f) = p \o e.win
    <3>1. Read(f) \in Seq(Nat) BY <2>6, EngineIs
    <3>2. Read(f) \o <<>> = Read(f) BY <3>1, Concat
    <3> QED BY <2>7, <3>2, Zenon
  <2>9. Holds(f, u \o <<c>>) BY <2>3, <2>6, <2>8, Zenon DEF Holds
  <2> QED BY <2>1, <2>9
<1> QED BY <1>3, <1>4

LEMMA AbsorbHolds ==
  ASSUME NEW e, NEW u, Holds(e, u), NEW c \in Leads
  PROVE  Holds(Absorb(e, c), u \o DecomposeOne(c))
<1>1. ~IsControl(c) BY VisibleAre DEF Visible
<1>2. CASE ~e.seeded
  <2>1. Absorb(e, c) = [FlushInv(e) EXCEPT !.seeded = TRUE, !.starter = c]
    BY <1>1, <1>2 DEF Absorb
  <2> DEFINE f == [FlushInv(e) EXCEPT !.seeded = TRUE, !.starter = c]
  <2>2. Holds(f, u \o DecomposeOne(c)) BY <1>2, SeedHolds
  <2> HIDE DEF f
  <2> QED BY <2>1, <2>2 DEF f
<1>3. CASE e.seeded /\ Ccc(c) = 0
  <2>1. Absorb(e, c) = NewStarter(e, c) BY <1>1, <1>3 DEF Absorb
  <2> QED BY <1>3, <2>1, StarterHolds
<1>4. CASE e.seeded /\ Ccc(c) # 0
  <2>1. Absorb(e, c) = NewMark(e, c) BY <1>1, <1>4 DEF Absorb
  <2>2. c \in Atoms BY <1>4, HangulIs DEF Leads
  <2>3. DecomposeOne(c) = <<c>> BY <2>2 DEF Atoms
  <2> QED BY <1>4, <2>1, <2>2, <2>3, MarkHolds
<1> QED BY <1>2, <1>3, <1>4

LEMMA ControlHolds ==
  ASSUME NEW e, NEW u, Holds(e, u), NEW c \in Controlled
  PROVE  Holds(Absorb(e, c), u)
<1>1. IsControl(c) BY DEF Controlled
<1>2. Absorb(e, c) = Hold(e, c) BY <1>1 DEF Absorb
<1>3. e \in Engine BY HoldsIs
<1> DEFINE f == Hold(e, c)
<1>4. /\ f \in Engine /\ Read(f) = Read(e) /\ f.starter = e.starter /\ f.win = e.win
      /\ f.seeded = e.seeded
  BY <1>3, HoldKeeps
<1> HIDE DEF f
<1>5. Lead(f) = Lead(e) BY <1>4, Zenon DEF Lead
<1>6. Holds(f, u) BY <1>4, <1>5, Zenon DEF Holds
<1> QED BY <1>2, <1>6 DEF f

LEMMA VisibleParts ==
  ASSUME NEW c \in Visible, PartsOnce(c)
  PROVE  /\ c \in Nat /\ DecomposeOne(c) \in Seq(Atoms) /\ DecomposeOne(c) \in Seq(Nat)
         /\ Len(DecomposeOne(c)) \in 1 .. 3
<1>1. c \in Nat /\ ~IsControl(c) BY DEF Visible
<1>2. DecomposeOne(c) \in Seq(Nat) /\ Len(DecomposeOne(c)) \in 1 .. 3 BY <1>1, PartsAre
<1>3. CASE c \in DOMAIN Decomposition
  <2> DEFINE d == Decomposition[c]
  <2>0. /\ d \in Seq(1 .. ScpMin - 1) /\ DecomposeOne(c) = d
        /\ \A i \in 1 .. Len(d) : d[i] \in Visible /\ ~IsHangul(d[i])
    BY <1>3, RowIs
  <2> HIDE DEF d
  <2>1. ASSUME NEW i \in 1 .. Len(d) PROVE d[i] \in Atoms
    <3>1. i \in DOMAIN d BY <2>0, SeqIs
    <3>2. d[i] \notin DOMAIN Decomposition BY <2>0, <3>1, Zenon DEF PartsOnce
    <3>3. DecomposeOne(d[i]) = <<d[i]>> BY <2>0, <3>2, Zenon DEF DecomposeOne
    <3> QED BY <2>0, <3>2, <3>3, Zenon DEF Atoms, Visible
  <2>2. Len(d) \in Nat /\ d = [i \in 1 .. Len(d) |-> d[i]] BY <2>0, SeqIs
  <2>3. [i \in 1 .. Len(d) |-> d[i]] \in [1 .. Len(d) -> Atoms] BY <2>1
  <2>4. [i \in 1 .. Len(d) |-> d[i]] \in Seq(Atoms) BY <2>2, <2>3, Listed
  <2>5. d \in Seq(Atoms) BY <2>2, <2>4, Zenon
  <2> QED BY <1>1, <1>2, <2>0, <2>5
<1>4. CASE IsHangul(c)
  <2>1. c \in HangulBase .. HangulEnd BY <1>4 DEF IsHangul
  <2>2. Jamo \subseteq Atoms BY JamoAre
  <2>3. \A l, v \in Jamo : <<l, v>> \in Seq(Atoms) BY <2>2
  <2>4. ASSUME NEW l \in Jamo, NEW v \in Jamo, NEW t \in Jamo
        PROVE  <<l, v>> \o <<t>> \in Seq(Atoms)
    <3> DEFINE x == <<l, v>>
               y == <<t>>
    <3>1. x \in Seq(Atoms) /\ y \in Seq(Atoms) BY <2>2
    <3> HIDE DEF x, y
    <3>2. x \o y \in Seq(Atoms) BY <3>1, ConcatProperties
    <3> QED BY <3>2 DEF x, y
  <2>5. DecomposeOne(c) \in Seq(Atoms) BY <2>1, <2>3, <2>4, HangulIs, Zenon
  <2> QED BY <1>1, <1>2, <2>5
<1>5. CASE c \notin DOMAIN Decomposition /\ ~IsHangul(c)
  <2>1. DecomposeOne(c) = <<c>> BY <1>5 DEF DecomposeOne
  <2>2. c \in Atoms BY <1>1, <1>5, <2>1 DEF Atoms
  <2>3. <<c>> \in Seq(Atoms) BY <2>2
  <2> QED BY <1>1, <1>2, <2>1, <2>3
<1> QED BY <1>3, <1>4, <1>5

LEMMA UpToThree ==
  ASSUME NEW s \in Seq(Nat)
  PROVE  /\ Len(s) = 1 => s = <<s[1]>>
         /\ Len(s) = 2 => s = <<s[1]>> \o <<s[2]>>
         /\ Len(s) = 3 => s = (<<s[1]>> \o <<s[2]>>) \o <<s[3]>>
<1>1. Len(s) \in Nat /\ SubSeq(s, 1, Len(s)) = s BY SubSeqFull
<1>2. ASSUME NEW n \in Nat, n <= Len(s), n >= 1
      PROVE  SubSeq(s, 1, n) = SubSeq(s, 1, n - 1) \o <<s[n]>>
  <2>1. 1 \in 1 .. Len(s) /\ n \in 1 .. Len(s) BY <1>1, <1>2
  <2> QED BY <2>1, SubSeqRecursiveSecond
<1>3. ASSUME Len(s) >= 1 PROVE SubSeq(s, 1, 1) = <<s[1]>>
  <2>1. SubSeq(s, 1, 0) = <<>> BY SubSeqEmpty
  <2>2. SubSeq(s, 1, 1) = SubSeq(s, 1, 1 - 1) \o <<s[1]>> BY <1>1, <1>2, <1>3
  <2>3. 1 - 1 = 0 OBVIOUS
  <2>4. s[1] \in Nat BY <1>1, <1>3
  <2>5. <<>> \o <<s[1]>> = <<s[1]>> BY <2>4, Concat, Zenon
  <2> QED BY <2>1, <2>2, <2>3, <2>5, Zenon
<1>4. ASSUME Len(s) >= 2 PROVE SubSeq(s, 1, 2) = <<s[1]>> \o <<s[2]>>
  <2>1. SubSeq(s, 1, 2) = SubSeq(s, 1, 2 - 1) \o <<s[2]>> BY <1>1, <1>2, <1>4
  <2>2. 2 - 1 = 1 /\ Len(s) >= 1 BY <1>1, <1>4
  <2> QED BY <1>3, <2>1, <2>2
<1>5. ASSUME Len(s) >= 3 PROVE SubSeq(s, 1, 3) = (<<s[1]>> \o <<s[2]>>) \o <<s[3]>>
  <2>1. SubSeq(s, 1, 3) = SubSeq(s, 1, 3 - 1) \o <<s[3]>> BY <1>1, <1>2, <1>5
  <2>2. 3 - 1 = 2 /\ Len(s) >= 2 BY <1>1, <1>5
  <2> QED BY <1>4, <2>1, <2>2
<1>6. ASSUME Len(s) = 1 PROVE s = <<s[1]>>
  <2>1. Len(s) >= 1 /\ SubSeq(s, 1, 1) = s BY <1>1, <1>6
  <2> QED BY <1>3, <2>1, Zenon
<1>7. ASSUME Len(s) = 2 PROVE s = <<s[1]>> \o <<s[2]>>
  <2>1. Len(s) >= 2 /\ SubSeq(s, 1, 2) = s BY <1>1, <1>7
  <2> QED BY <1>4, <2>1, Zenon
<1>8. ASSUME Len(s) = 3 PROVE s = (<<s[1]>> \o <<s[2]>>) \o <<s[3]>>
  <2>1. Len(s) >= 3 /\ SubSeq(s, 1, 3) = s BY <1>1, <1>8
  <2> QED BY <1>5, <2>1, Zenon
<1> QED BY <1>6, <1>7, <1>8

(* A codepoint is absorbed part by part. *)
LEMMA ProcessIs ==
  ASSUME NEW e, NEW cp, NEW parts, Len(parts) \in 1 .. 3,
         parts = IF IsControl(cp) \/ (IsHangul(cp) /\ e.form = "C") THEN <<cp>>
                 ELSE DecomposeOne(cp)
  PROVE  /\ Len(parts) = 1 => Process(e, cp) = Absorb(e, parts[1])
         /\ Len(parts) = 2 => Process(e, cp) = Absorb(Absorb(e, parts[1]), parts[2])
         /\ Len(parts) = 3 =>
              Process(e, cp) = Absorb(Absorb(Absorb(e, parts[1]), parts[2]), parts[3])
<1> DEFINE one == {Absorb(e, parts[1])}
           two == IF Len(parts) < 2 THEN one ELSE {Absorb(d, parts[2]) : d \in one}
           all == IF Len(parts) < 3 THEN two ELSE {Absorb(d, parts[3]) : d \in two}
<1>1. Process(e, cp) = CHOOSE d \in all : TRUE BY DEF Process
<1>2. \A x : (CHOOSE d \in {x} : TRUE) = x OBVIOUS
<1>3. ASSUME Len(parts) = 1 PROVE all = {Absorb(e, parts[1])}
  <2>0. 1 < 2 /\ 1 < 3 OBVIOUS
  <2>1. Len(parts) < 2 /\ Len(parts) < 3 BY <1>3, <2>0, Zenon
  <2> QED BY <2>1
<1>4. ASSUME Len(parts) = 2 PROVE all = {Absorb(Absorb(e, parts[1]), parts[2])}
  <2>0. ~(2 < 2) /\ 2 < 3 OBVIOUS
  <2>1. ~(Len(parts) < 2) /\ Len(parts) < 3 BY <1>4, <2>0, Zenon
  <2> QED BY <2>1
<1>5. ASSUME Len(parts) = 3 PROVE all = {Absorb(Absorb(Absorb(e, parts[1]), parts[2]), parts[3])}
  <2>1. ~(Len(parts) < 2) /\ ~(Len(parts) < 3) BY <1>5
  <2> QED BY <2>1
<1> HIDE DEF all
<1>6. ASSUME NEW x, all = {x} PROVE Process(e, cp) = x BY <1>1, <1>2, <1>6, Zenon
<1> QED BY <1>3, <1>4, <1>5, <1>6, Zenon

LEMMA ProcessHolds ==
  ASSUME NEW e, NEW u, Holds(e, u), NEW cp \in Nat, PartsOnce(cp)
  PROVE  Holds(Process(e, cp), IF IsControl(cp) THEN u ELSE u \o DecomposeOne(cp))
<1> DEFINE parts == IF IsControl(cp) \/ (IsHangul(cp) /\ e.form = "C") THEN <<cp>>
                    ELSE DecomposeOne(cp)
<1>0. \A x : Len(<<x>>) = 1 /\ <<x>>[1] = x /\ Len(<<x>>) \in 1 .. 3 OBVIOUS
<1>1. CASE IsControl(cp)
  <2>1. parts = <<cp>> BY <1>1
  <2> HIDE DEF parts
  <2>2. Len(parts) = 1 /\ parts[1] = cp /\ Len(parts) \in 1 .. 3 BY <1>0, <2>1
  <2>3. Process(e, cp) = Absorb(e, cp) BY <2>2, ProcessIs DEF parts
  <2>4. cp \in Controlled BY <1>1 DEF Controlled
  <2>5. Holds(Process(e, cp), u) BY <2>3, <2>4, ControlHolds
  <2> QED BY <1>1, <2>5
<1>2. CASE ~IsControl(cp) /\ IsHangul(cp) /\ e.form = "C"
  <2>1. parts = <<cp>> BY <1>2
  <2> HIDE DEF parts
  <2>2. Len(parts) = 1 /\ parts[1] = cp /\ Len(parts) \in 1 .. 3 BY <1>0, <2>1
  <2>3. Process(e, cp) = Absorb(e, cp) BY <2>2, ProcessIs DEF parts
  <2>4. cp \in Leads BY <1>2 DEF Leads, IsHangul
  <2>5. Holds(Process(e, cp), u \o DecomposeOne(cp)) BY <2>3, <2>4, AbsorbHolds
  <2> QED BY <1>2, <2>5
<1>3. CASE ~IsControl(cp) /\ ~(IsHangul(cp) /\ e.form = "C")
  <2>1. parts = DecomposeOne(cp) BY <1>3
  <2>2. cp \in Visible BY <1>3 DEF Visible
  <2> HIDE DEF parts
  <2>3. parts \in Seq(Atoms) /\ parts \in Seq(Nat) /\ Len(parts) \in 1 .. 3
    BY <2>1, <2>2, VisibleParts
  <2>4. \A i \in 1 .. Len(parts) : parts[i] \in Atoms BY <2>3, SeqIs
  <2>5. ASSUME NEW d, NEW v, Holds(d, v), NEW a \in Atoms PROVE Holds(Absorb(d, a), v \o <<a>>)
    <3>1. DecomposeOne(a) = <<a>> /\ a \in Leads BY VisibleAre DEF Atoms
    <3> QED BY <2>5, <3>1, AbsorbHolds
  <2>6. u \in Seq(Nat) BY HoldsIs
  <2>7. /\ Len(parts) = 1 => Process(e, cp) = Absorb(e, parts[1])
        /\ Len(parts) = 2 => Process(e, cp) = Absorb(Absorb(e, parts[1]), parts[2])
        /\ Len(parts) = 3 =>
             Process(e, cp) = Absorb(Absorb(Absorb(e, parts[1]), parts[2]), parts[3])
    <3>1. parts = IF IsControl(cp) \/ (IsHangul(cp) /\ e.form = "C") THEN <<cp>>
                  ELSE DecomposeOne(cp)
      BY DEF parts
    <3> QED BY <2>3, <3>1, ProcessIs
  <2>8. \A a \in Atoms : <<a>> \in Seq(Nat) BY VisibleAre, Concat
  <2>9. CASE Len(parts) = 1
    <3>1. 1 \in 1 .. Len(parts) BY <2>9
    <3>2. Holds(Absorb(e, parts[1]), u \o <<parts[1]>>) BY <2>4, <2>5, <3>1
    <3>3. parts = <<parts[1]>> BY <2>3, <2>9, UpToThree
    <3> QED BY <1>3, <2>1, <2>7, <2>9, <3>2, <3>3, Zenon
  <2>10. CASE Len(parts) = 2
    <3> DEFINE x == <<parts[1]>>
               y == <<parts[2]>>
    <3>1. parts[1] \in Atoms /\ parts[2] \in Atoms BY <2>4, <2>10
    <3>2. Holds(Absorb(Absorb(e, parts[1]), parts[2]), (u \o x) \o y) BY <2>5, <3>1
    <3>3. parts = x \o y BY <2>3, <2>10, UpToThree
    <3>4. x \in Seq(Nat) /\ y \in Seq(Nat) BY <2>8, <3>1
    <3> HIDE DEF x, y
    <3>5. (u \o x) \o y = u \o (x \o y) BY <2>6, <3>4, Regroup
    <3> QED BY <1>3, <2>1, <2>7, <2>10, <3>2, <3>3, <3>5, Zenon
  <2>11. CASE Len(parts) = 3
    <3> DEFINE x == <<parts[1]>>
               y == <<parts[2]>>
               z == <<parts[3]>>
    <3>1. parts[1] \in Atoms /\ parts[2] \in Atoms /\ parts[3] \in Atoms BY <2>4, <2>11
    <3>2. Holds(Absorb(Absorb(Absorb(e, parts[1]), parts[2]), parts[3]), ((u \o x) \o y) \o z)
      <4>1. Holds(Absorb(Absorb(e, parts[1]), parts[2]), (u \o x) \o y) BY <2>5, <3>1
      <4> QED BY <2>5, <3>1, <4>1
    <3>3. parts = (x \o y) \o z BY <2>3, <2>11, UpToThree
    <3>4. x \in Seq(Nat) /\ y \in Seq(Nat) /\ z \in Seq(Nat) BY <2>8, <3>1
    <3> HIDE DEF x, y, z
    <3>5. (u \o x) \o y = u \o (x \o y) BY <2>6, <3>4, Regroup
    <3>6. x \o y \in Seq(Nat) BY <3>4, Linked
    <3>7. (u \o (x \o y)) \o z = u \o ((x \o y) \o z) BY <2>6, <3>4, <3>6, Regroup
    <3> QED BY <1>3, <2>1, <2>7, <2>11, <3>2, <3>3, <3>5, <3>7, Zenon
  <2> QED BY <2>3, <2>9, <2>10, <2>11
<1> QED BY <1>1, <1>2, <1>3

--------------------------------------------------------------------------------
(* After an end nothing is held back. *)
Flushed(e) == e \in Engine /\ e.starter = Sentinel /\ e.win = <<>> /\ ~e.seeded

LEMMA FlushHolds ==
  ASSUME NEW e, NEW u, Holds(e, u)
  PROVE  Flushed(FlushText(e)) /\ Read(FlushText(e)) = Canon(u)
<1>1. e \in Engine BY HoldsIs
<1>2. CASE e.seeded
  <2> DEFINE z == Finalize(e)
             f == [z EXCEPT !.seeded = FALSE]
  <2>1. FlushText(e) = f BY <1>2 DEF FlushText
  <2>2. /\ z \in Engine /\ Read(z) = Read(e) \o Lead(e) \o e.win /\ z.starter = Sentinel
        /\ z.win = <<>>
    BY <1>1, FinalizeKeeps
  <2>3. Canon(u) = (Read(e) \o Lead(e)) \o e.win BY <1>2 DEF Holds, Stands
  <2> HIDE DEF z
  <2>4. /\ f \in Engine /\ f.out = z.out /\ f.starter = z.starter /\ f.win = z.win
        /\ f.seeded = FALSE
    BY <2>2 DEF Engine
  <2> HIDE DEF f
  <2>5. Read(f) = Canon(u) BY <2>2, <2>3, <2>4, Zenon DEF Read
  <2>6. Flushed(f) BY <2>2, <2>4, Zenon DEF Flushed
  <2> QED BY <2>1, <2>5, <2>6
<1>3. CASE ~e.seeded
  <2> DEFINE f == FlushInv(e)
  <2>1. FlushText(e) = f BY <1>3 DEF FlushText
  <2>2. u = <<>> /\ Read(e) = <<>> /\ e.starter = Sentinel /\ e.win = <<>>
    BY <1>3 DEF Holds
  <2>3. /\ f \in Engine /\ Read(f) = Read(e) /\ f.starter = e.starter /\ f.win = e.win
        /\ f.seeded = e.seeded
    BY <1>1, FlushInvKeeps
  <2> HIDE DEF f
  <2>4. Read(f) = Canon(u) BY <2>2, <2>3, NoneRanked, Zenon
  <2>5. Flushed(f) BY <1>3, <2>2, <2>3, Zenon DEF Flushed
  <2> QED BY <2>1, <2>4, <2>5
<1> QED BY <1>2, <1>3

LEMMA PrefixOfJoin ==
  ASSUME NEW s \in Seq(Nat), NEW t \in Seq(Nat)
  PROVE  IsPrefix(s, s \o t)
<1>1. Len(s) \in Nat /\ Len(t) \in Nat /\ Len(s \o t) = Len(s) + Len(t) BY Linked
<1>2. Len(s) <= Len(s \o t) BY <1>1
<1>3. SubSeq(s, 1, Len(s)) = SubSeq(s \o t, 1, Len(s))
  <2>1. CASE Len(s) = 0
    <3>1. Len(s) < 1 BY <2>1
    <3> QED BY <1>1, <3>1, SubSeqEmpty
  <2>2. CASE Len(s) # 0
    <3>1. 1 \in 1 .. Len(s) /\ Len(s) \in 1 .. Len(s) BY <1>1, <2>2
    <3> QED BY <3>1, SubSeqOfConcat1
  <2> QED BY <2>1, <2>2
<1> QED BY <1>2, <1>3 DEF IsPrefix

(* What a full buffer holds is the head of what there was to write. *)
LEMMA CutIs ==
  ASSUME NEW d \in Engine, NEW r \in Seq(Nat)
  PROVE  /\ Cut(d) \in Engine /\ IsPrefix(Read(Cut(d)), Read(d) \o r)
         /\ Cut(d).ok => Cut(d) = d
<1>1. d.out \in Seq(Nat) /\ d.room \in Nat /\ Read(d) \in Seq(Nat) BY EngineIs
<1>2. CASE Len(d.out) <= d.room
  <2>1. Cut(d) = d BY <1>2 DEF Cut
  <2>2. IsPrefix(Read(d), Read(d) \o r) BY <1>1, PrefixOfJoin
  <2> QED BY <2>1, <2>2, Zenon
<1>3. CASE ~(Len(d.out) <= d.room)
  <2> DEFINE k == d.room
             a == SubSeq(d.out, 1, k)
             b == SubSeq(d.out, k + 1, Len(d.out))
             f == [d EXCEPT !.out = a, !.ok = FALSE]
  <2>1. Cut(d) = f BY <1>3 DEF Cut, Engine
  <2>2. k \in 0 .. Len(d.out) /\ Len(d.out) \in Nat BY <1>1, <1>3
  <2>3. a \in Seq(Nat) /\ b \in Seq(Nat) BY <1>1, <2>2, Split
  <2>4. d.out = a \o b
    <3>1. 1 \in 1 .. Len(d.out) + 1 /\ k \in 1 - 1 .. Len(d.out) /\ Len(d.out) \in k .. Len(d.out)
      BY <2>2
    <3>2. a \o b = SubSeq(d.out, 1, Len(d.out)) BY <1>1, <3>1, ConcatAdjacentSubSeq
    <3>3. SubSeq(d.out, 1, Len(d.out)) = d.out BY <1>1, SubSeqFull
    <3> QED BY <3>2, <3>3, Zenon
  <2> HIDE DEF a, b, k
  <2>5. f \in Engine /\ f.out = a /\ f.ok = FALSE BY <2>3 DEF Engine
  <2> HIDE DEF f
  <2> DEFINE x == Parted(Plain(a))
             y == Parted(Plain(b))
  <2>6. Plain(d.out) = Plain(a) \o Plain(b) /\ Plain(a) \in Seq(Nat) /\ Plain(b) \in Seq(Nat)
    BY <2>3, <2>4, PlainIs, Zenon
  <2>7. Read(d) = x \o y /\ x \in Seq(Nat) /\ y \in Seq(Nat)
    <3>1. Parted(Plain(a) \o Plain(b)) = x \o y BY <2>6, PartedIs, Zenon
    <3>2. x \in Seq(Nat) /\ y \in Seq(Nat) BY <2>6, PartedIs
    <3> QED BY <2>6, <3>1, <3>2, Zenon DEF Read
  <2>8. Read(f) = x BY <2>5, Zenon DEF Read
  <2> HIDE DEF x, y
  <2>9. (x \o y) \o r = x \o (y \o r) BY <2>7, Regroup
  <2>10. y \o r \in Seq(Nat) BY <2>7, Linked
  <2>11. IsPrefix(x, x \o (y \o r)) BY <2>7, <2>10, PrefixOfJoin
  <2>12. IsPrefix(Read(f), Read(d) \o r) BY <2>7, <2>8, <2>9, <2>11, Zenon
  <2> QED BY <2>1, <2>5, <2>12, Zenon
<1> QED BY <1>2, <1>3

--------------------------------------------------------------------------------
(* Whatever the text, an engine that was not given a starter holds none.   *)
Unseeded(e) == ~e.seeded => e.starter = Sentinel /\ e.win = <<>>

LEMMA AbsorbSeeds ==
  ASSUME NEW e, Fit(e), Unseeded(e), NEW cp \in Nat
  PROVE  Unseeded(Absorb(e, cp))
<1>1. PICK A, B : e \in Shape(A, B)
  BY DEF Fit
<1>2. CASE IsControl(cp)
  <2> DEFINE inv == Append(e.inv, cp)
             out == Append(e.out, Head(e.inv))
             turned == Append(Tail(e.inv), cp)
             v == [e EXCEPT !.inv = inv]
             w == [e EXCEPT !.out = out, !.inv = turned]
  <2>1. Absorb(e, cp) = IF Len(e.inv) < Depth THEN v ELSE w
    BY <1>1, <1>2 DEF Absorb, Hold, Shape
  <2> HIDE DEF inv, out, turned
  <2>2. v.seeded = e.seeded /\ v.starter = e.starter /\ v.win = e.win
    BY <1>1 DEF Shape
  <2>3. w.seeded = e.seeded /\ w.starter = e.starter /\ w.win = e.win
    BY <1>1 DEF Shape
  <2> HIDE DEF v, w
  <2> QED BY <2>1, <2>2, <2>3, Zenon DEF Unseeded
<1>3. CASE ~IsControl(cp) /\ ~e.seeded
  <2> DEFINE v == FlushInv(e)
             w == [v EXCEPT !.seeded = TRUE, !.starter = cp]
  <2>1. Absorb(e, cp) = w
    BY <1>3 DEF Absorb
  <2>2. Fit(v)
    BY FlushInvFits
  <2> HIDE DEF v
  <2>3. PICK C, D : v \in Shape(C, D)
    BY <2>2 DEF Fit
  <2>4. w.seeded = TRUE
    BY <2>3 DEF Shape
  <2> HIDE DEF w
  <2> QED BY <2>1, <2>4, Zenon DEF Unseeded
<1> DEFINE f == Finalize(e)
<1>4. \E C, D : f \in Shape(C, D)
  BY FinalizeIs
<1>5. f.seeded = e.seeded
  <2> DEFINE out == e.out \o Sequence(e) \o e.inv
             none == <<>>
             g == [e EXCEPT !.out = out, !.win = none, !.inv = none, !.starter = Sentinel]
  <2>1. f = g
    BY <1>1 DEF Finalize, Shape
  <2> HIDE DEF out, none, f
  <2>2. g.seeded = e.seeded
    BY <1>1 DEF Shape
  <2> QED BY <2>1, <2>2
<1>6. CASE ~IsControl(cp) /\ e.seeded /\ Ccc(cp) = 0
  <2> DEFINE syllable == IF e.form = "C" /\ e.win = <<>> /\ e.starter # Sentinel
                           THEN ComposeHangul(e.starter, cp) ELSE 0
             w == [e EXCEPT !.starter = syllable]
             n == [f EXCEPT !.starter = cp]
  <2>1. Absorb(e, cp) = IF syllable # 0 THEN w ELSE n
    BY <1>6 DEF Absorb, NewStarter
  <2> HIDE DEF syllable, f
  <2>2. w.seeded = e.seeded
    BY <1>1 DEF Shape
  <2>3. n.seeded = f.seeded
    BY <1>4 DEF Shape
  <2> HIDE DEF w, n
  <2>4. Absorb(e, cp).seeded
    BY <1>5, <1>6, <2>1, <2>2, <2>3
  <2> QED BY <2>4, Zenon DEF Unseeded
<1>7. CASE ~IsControl(cp) /\ e.seeded /\ Ccc(cp) # 0
  <2> DEFINE win == Insert(e.win, cp)
             only == <<cp>>
             w == [e EXCEPT !.win = win]
             n == [f EXCEPT !.win = only]
  <2>1. Absorb(e, cp) = IF Len(e.win) < Window THEN w ELSE n
    BY <1>1, <1>7 DEF Absorb, NewMark, Shape
  <2> HIDE DEF win, f, only
  <2>2. w.seeded = e.seeded
    BY <1>1 DEF Shape
  <2>3. n.seeded = f.seeded
    BY <1>4 DEF Shape
  <2> HIDE DEF w, n
  <2>4. Absorb(e, cp).seeded
    BY <1>5, <1>7, <2>1, <2>2, <2>3
  <2> QED BY <2>4, Zenon DEF Unseeded
<1> QED BY <1>2, <1>3, <1>6, <1>7

LEMMA ProcessSeeds ==
  ASSUME NEW e, Fit(e), Unseeded(e), NEW cp \in Nat
  PROVE  Unseeded(Process(e, cp))
<1> DEFINE parts == IF IsControl(cp) \/ (IsHangul(cp) /\ e.form = "C") THEN <<cp>>
                    ELSE DecomposeOne(cp)
<1>1. parts \in Seq(Nat) /\ Len(parts) \in 1 .. 3
  <2>1. <<cp>> \in Seq(Nat) /\ Len(<<cp>>) \in 1 .. 3
    OBVIOUS
  <2> QED BY <2>1, PartsAre, Zenon
<1>0. parts = IF IsControl(cp) \/ (IsHangul(cp) /\ e.form = "C") THEN <<cp>>
              ELSE DecomposeOne(cp)
  OBVIOUS
<1> HIDE DEF parts
<1>2. /\ Len(parts) = 1 => Process(e, cp) = Absorb(e, parts[1])
      /\ Len(parts) = 2 => Process(e, cp) = Absorb(Absorb(e, parts[1]), parts[2])
      /\ Len(parts) = 3 =>
           Process(e, cp) = Absorb(Absorb(Absorb(e, parts[1]), parts[2]), parts[3])
  BY <1>0, <1>1, ProcessIs
<1>3. \A i \in 1 .. Len(parts) : parts[i] \in Nat
  BY <1>1, SeqIs
<1> DEFINE Good(d) == Fit(d) /\ Unseeded(d)
<1>4. ASSUME NEW d, NEW c \in Nat, Good(d) PROVE Good(Absorb(d, c))
  <2>1. Fit(d) /\ Unseeded(d)
    BY <1>4
  <2>2. Fit(Absorb(d, c))
    BY <2>1, AbsorbFits
  <2>3. Unseeded(Absorb(d, c))
    BY <2>1, AbsorbSeeds
  <2> QED BY <2>2, <2>3
<1>5. Good(e)
  OBVIOUS
<1> HIDE DEF Good
<1>6. CASE Len(parts) = 1
  <2>1. parts[1] \in Nat
    BY <1>3, <1>6
  <2>2. Good(Process(e, cp))
    BY <1>2, <1>4, <1>5, <1>6, <2>1, Zenon
  <2> QED BY <2>2 DEF Good
<1>7. CASE Len(parts) = 2
  <2>1. parts[1] \in Nat /\ parts[2] \in Nat
    BY <1>3, <1>7
  <2>2. Good(Process(e, cp))
    BY <1>2, <1>4, <1>5, <1>7, <2>1, Zenon
  <2> QED BY <2>2 DEF Good
<1>8. CASE Len(parts) = 3
  <2>1. parts[1] \in Nat /\ parts[2] \in Nat /\ parts[3] \in Nat
    BY <1>3, <1>8
  <2>2. Good(Process(e, cp))
    BY <1>2, <1>4, <1>5, <1>8, <2>1, Zenon
  <2> QED BY <2>2 DEF Good
<1> QED BY <1>1, <1>6, <1>7, <1>8

LEMMA FlushEmpties ==
  ASSUME NEW e, Fit(e), Unseeded(e)
  PROVE  LET f == FlushText(e)
         IN ~f.seeded /\ f.starter = Sentinel /\ f.win = <<>> /\ f.inv = <<>>
<1>1. PICK A, B : e \in Shape(A, B)
  BY DEF Fit
<1> DEFINE none == <<>>
           f == FlushText(e)
<1>2. CASE e.seeded
  <2> DEFINE out == e.out \o Sequence(e) \o e.inv
             g == [e EXCEPT !.out = out, !.win = none, !.inv = none, !.starter = Sentinel,
                            !.seeded = FALSE]
  <2>1. f = g
    BY <1>1, <1>2 DEF FlushText, Finalize, Shape
  <2> HIDE DEF out, none, f
  <2>2. ~g.seeded /\ g.starter = Sentinel /\ g.win = none /\ g.inv = none
    BY <1>1 DEF Shape
  <2> QED BY <2>1, <2>2 DEF none, f
<1>3. CASE ~e.seeded
  <2> DEFINE out == e.out \o e.inv
             g == [e EXCEPT !.out = out, !.inv = none]
  <2>1. f = g
    BY <1>1, <1>3 DEF FlushText, FlushInv, Shape
  <2> HIDE DEF out, none, f
  <2>2. /\ g.seeded = e.seeded /\ g.starter = e.starter /\ g.win = e.win /\ g.inv = none
    BY <1>1 DEF Shape
  <2>3. e.starter = Sentinel /\ e.win = none
    BY <1>3, Zenon DEF Unseeded, none
  <2> QED BY <1>3, <2>1, <2>2, <2>3 DEF none, f
<1> QED BY <1>2, <1>3

(* The invariant: what holds of every text ... *)
Resting ==
  /\ ArraysHold /\ text \in Seq(Nat) /\ Unseeded(engine)
  /\ ended => engine.ok /\ ~engine.seeded /\ engine.inv = <<>>

(* ... and of a simple one: what the engine has written and holds back is  *)
(* what it has read.                                                       *)
Goal(s) == Parted(Plain(s))

FormsRead ==
  /\ engine \in Engine
  /\ ended => engine.ok /\ Flushed(engine) /\ Read(engine) = Canon(Goal(text))
  /\ engine.ok /\ ~ended => Holds(engine, Goal(text))
  /\ ~engine.ok => IsPrefix(Read(engine), Canon(Goal(text)))

FormsKept == Resting /\ (Simple(text) => FormsRead)

LEMMA HoldsAll ==
  ASSUME NEW e, NEW u, Holds(e, u)
  PROVE  Canon(u) = (Read(e) \o Lead(e)) \o e.win
<1>1. CASE e.seeded BY <1>1 DEF Holds, Stands
<1>2. CASE ~e.seeded
  <2>1. u = <<>> /\ Read(e) = <<>> /\ e.starter = Sentinel /\ e.win = <<>>
    BY <1>2 DEF Holds
  <2>2. Lead(e) = <<>> BY <2>1, Zenon DEF Lead
  <2>3. <<>> \o <<>> = <<>> BY Concat
  <2> QED BY <2>1, <2>2, <2>3, NoneRanked, Zenon
<1> QED BY <1>1, <1>2

LEMMA RoomsAre == \A room \in Rooms : room \in Nat
BY FormsAssumption

LEMMA StartHoldsNothing ==
  ASSUME NEW form \in Forms, NEW room \in Nat
  PROVE  Holds(Start(form, room), Goal(<<>>)) /\ Start(form, room).ok = TRUE
<1> DEFINE e == Start(form, room)
<1>2. <<>> \in Seq(Atoms) /\ <<>> \in Seq(Controlled) /\ <<>> \in Seq(Nat) OBVIOUS
<1>3. /\ e \in Engine /\ e.out = <<>> /\ e.starter = Sentinel /\ e.win = <<>>
      /\ e.seeded = FALSE /\ e.ok = TRUE
  BY <1>2 DEF Start, Engine
<1> HIDE DEF e
<1>4. Goal(<<>>) = <<>> BY PlainIs, PartedIs, Zenon DEF Goal
<1>5. Read(e) = <<>> BY <1>3, <1>4, Zenon DEF Read, Goal
<1>6. Holds(e, Goal(<<>>)) BY <1>3, <1>4, <1>5, Zenon DEF Holds
<1> QED BY <1>3, <1>6 DEF e

LEMMA OneMore ==
  ASSUME NEW s \in Seq(Nat), NEW cp \in Nat
  PROVE  /\ Append(s, cp) \in Seq(Nat)
         /\ Goal(Append(s, cp)) = IF IsControl(cp) THEN Goal(s) ELSE Goal(s) \o DecomposeOne(cp)
<1> DEFINE m == <<cp>>
<1>1. Append(s, cp) = s \o m /\ m \in Seq(Nat) BY Appended
<1>2. IsControl(cp) => m \in Seq(Controlled)
  <2>1. \A z \in Controlled : <<z>> \in Seq(Controlled) OBVIOUS
  <2> QED BY <2>1 DEF Controlled
<1>3. ~IsControl(cp) => m \in Seq(Visible)
  <2>1. \A z \in Visible : <<z>> \in Seq(Visible) OBVIOUS
  <2> QED BY <2>1 DEF Visible
<1>4. Parted(m) = DecomposeOne(cp) BY PartedIs, Zenon
<1> HIDE DEF m
<1>5. Append(s, cp) \in Seq(Nat) BY <1>1, Linked
<1>6. Plain(s \o m) = Plain(s) \o Plain(m) /\ Plain(s) \in Seq(Nat) BY <1>1, PlainIs, Zenon
<1>7. CASE IsControl(cp)
  <2>1. Plain(m) = <<>> BY <1>2, <1>7, PlainIs, Zenon
  <2>2. Plain(s) \o <<>> = Plain(s) BY <1>6, Concat
  <2>3. Goal(Append(s, cp)) = Goal(s) BY <1>1, <1>6, <2>1, <2>2, Zenon DEF Goal
  <2> QED BY <1>5, <1>7, <2>3
<1>8. CASE ~IsControl(cp)
  <2>1. Plain(m) = m BY <1>3, <1>8, PlainIs, Zenon
  <2>2. Parted(Plain(s) \o m) = Parted(Plain(s)) \o Parted(m) BY <1>1, <1>6, PartedIs, Zenon
  <2>3. Goal(Append(s, cp)) = Goal(s) \o DecomposeOne(cp)
    BY <1>1, <1>4, <1>6, <2>1, <2>2, Zenon DEF Goal
  <2> QED BY <1>5, <1>8, <2>3
<1> QED BY <1>7, <1>8

LEMMA SimplerText ==
  ASSUME NEW s \in Seq(Nat), NEW cp \in Nat, Simple(Append(s, cp))
  PROVE  Simple(s) /\ PartsOnce(cp)
<1> DEFINE n == Len(s)
           v == Append(s, cp)
<1>1. /\ n \in Nat /\ DOMAIN s = 1 .. n /\ DOMAIN v = 1 .. n + 1
      /\ v[n + 1] = cp /\ \A i \in 1 .. n : v[i] = s[i]
  <2>1. n \in Nat /\ DOMAIN s = 1 .. n
    BY SeqIs
  <2>2. /\ v \in Seq(Nat) /\ Len(v) = n + 1 /\ v[n + 1] = cp /\ \A i \in 1 .. n : v[i] = s[i]
    BY AppendProperties
  <2> QED BY <2>1, <2>2, SeqIs
<1> HIDE DEF n
<1>2. \A i \in DOMAIN v : PartsOnce(v[i])
  BY Zenon DEF Simple
<1> HIDE DEF v
<1>3. n + 1 \in 1 .. n + 1 /\ \A i \in 1 .. n : i \in 1 .. n + 1
  BY <1>1
<1>4. PartsOnce(cp)
  BY <1>1, <1>2, <1>3, Zenon
<1>5. \A i \in DOMAIN s : PartsOnce(s[i])
  BY <1>1, <1>2, <1>3, Zenon
<1> QED BY <1>4, <1>5 DEF Simple

LEMMA CutLeaves ==
  ASSUME NEW e, Fit(e)
  PROVE  /\ Cut(e).seeded = e.seeded /\ Cut(e).starter = e.starter /\ Cut(e).win = e.win
         /\ Cut(e).inv = e.inv
<1>1. PICK A, B : e \in Shape(A, B)
  BY DEF Fit
<1> DEFINE out == SubSeq(e.out, 1, e.room)
           f == [e EXCEPT !.out = out, !.ok = FALSE]
<1>2. Cut(e) = e \/ Cut(e) = f
  BY <1>1 DEF Cut, Shape
<1> HIDE DEF out
<1>3. /\ f.seeded = e.seeded /\ f.starter = e.starter /\ f.win = e.win
      /\ f.inv = e.inv
  BY <1>1 DEF Shape
<1> HIDE DEF f
<1> QED BY <1>2, <1>3

LEMMA FormsBegin == Init => FormsKept
<1> SUFFICES ASSUME Init PROVE FormsKept
  OBVIOUS
<1>1. PICK form \in Forms, room \in Rooms : engine = Start(form, room) BY DEF Init
<1>2. text = <<>> /\ ended = FALSE BY DEF Init
<1>3. Holds(engine, Goal(text)) /\ engine.ok = TRUE
  BY <1>1, <1>2, RoomsAre, StartHoldsNothing, Zenon
<1>4. engine \in Engine /\ text \in Seq(Nat) BY <1>2, <1>3, HoldsIs, Concat, Zenon
<1>5. ArraysHold
  BY <1>1, StartHolds DEF ArraysHold
<1>6. Unseeded(engine)
  <2>1. \A f, r : Start(f, r).starter = Sentinel /\ Start(f, r).win = <<>> BY DEF Start
  <2> QED BY <1>1, <2>1, Zenon DEF Unseeded
<1>7. Resting BY <1>2, <1>4, <1>5, <1>6, Zenon DEF Resting
<1>8. FormsRead BY <1>2, <1>3, <1>4, Zenon DEF FormsRead
<1> QED BY <1>7, <1>8 DEF FormsKept

LEMMA RestingStep == Resting /\ [Next]_vars => Resting'
<1> SUFFICES ASSUME Resting, [Next]_vars PROVE Resting'
  OBVIOUS
<1>0. ArraysHold /\ Fit(engine) /\ text \in Seq(Nat) /\ Unseeded(engine)
  BY DEF Resting, ArraysHold
<1>6. ArraysHold' BY <1>0, StepHolds
<1>7. Fit(engine') BY <1>6 DEF ArraysHold
<1>1. ASSUME NEW cp \in Codepoints, Feed(cp) PROVE Resting'
  <2> DEFINE d == Process(engine, cp)
  <2>1. /\ ~ended /\ engine' = Cut(d) /\ text' = Append(text, cp) /\ ended' = ended /\ cp \in Nat
    BY <1>1, FormsAssumption DEF Feed
  <2>2. Fit(d) /\ Unseeded(d) BY <1>0, <2>1, ProcessFits, ProcessSeeds
  <2> HIDE DEF d
  <2>3. engine'.seeded = d.seeded /\ engine'.starter = d.starter /\ engine'.win = d.win
    BY <2>1, <2>2, CutLeaves
  <2>4. Unseeded(engine') BY <2>2, <2>3, Zenon DEF Unseeded
  <2>5. text' \in Seq(Nat) BY <1>0, <2>1, OneMore
  <2>6. ~ended' BY <2>1
  <2> QED BY <1>6, <2>4, <2>5, <2>6 DEF Resting, Unseeded
<1>2. ASSUME Flush PROVE Resting'
  <2> DEFINE d == FlushText(engine)
  <2>1. engine' = Cut(d) /\ text' = text /\ ended' = engine'.ok
    BY <1>2 DEF Flush
  <2>2. Fit(d) BY <1>0, FlushFits
  <2>3. ~d.seeded /\ d.starter = Sentinel /\ d.win = <<>> /\ d.inv = <<>>
    BY <1>0, FlushEmpties
  <2> HIDE DEF d
  <2>4. /\ engine'.seeded = d.seeded /\ engine'.starter = d.starter /\ engine'.win = d.win
        /\ engine'.inv = d.inv
    BY <2>1, <2>2, CutLeaves
  <2>5. ended' => engine'.ok /\ ~engine'.seeded /\ engine'.inv = <<>>
    BY <2>1, <2>3, <2>4
  <2>6. ~engine'.seeded => engine'.starter = Sentinel /\ engine'.win = <<>>
    BY <2>3, <2>4
  <2>7. text' \in Seq(Nat) BY <1>0, <2>1
  <2> QED BY <1>6, <2>5, <2>6, <2>7 DEF Resting, Unseeded
<1>3. ASSUME StateInit PROVE Resting'
  <2>1. PICK form \in Forms, room \in Rooms : engine' = Start(form, room)
    BY <1>3 DEF StateInit
  <2>2. text' = <<>> /\ ended' = FALSE BY <1>3 DEF StateInit
  <2>3. engine'.starter = Sentinel /\ engine'.win = <<>> BY <2>1 DEF Start
  <2>4. text' \in Seq(Nat) BY <2>2, Concat, Zenon
  <2> QED BY <1>6, <2>2, <2>3, <2>4 DEF Resting, Unseeded
<1>4. ASSUME GoOn PROVE Resting'
  <2> DEFINE none == <<>>
  <2>1. PICK room \in Rooms : engine' = [engine EXCEPT !.out = none, !.room = room]
    BY <1>4 DEF GoOn
  <2>2. text' = <<>> /\ ended' = FALSE BY <1>4 DEF GoOn
  <2>3. PICK A, B : engine \in Shape(A, B)
    BY <1>0 DEF Fit
  <2> HIDE DEF none
  <2>4. /\ engine'.starter = engine.starter /\ engine'.win = engine.win
        /\ engine'.seeded = engine.seeded
    BY <2>1, <2>3 DEF Shape
  <2>5. text' \in Seq(Nat) BY <2>2, Concat, Zenon
  <2> QED BY <1>0, <1>6, <2>2, <2>4, <2>5 DEF Resting, Unseeded
<1>5. CASE UNCHANGED vars
  BY <1>5, <1>6 DEF vars, Resting, Unseeded
<1> QED BY <1>1, <1>2, <1>3, <1>4, <1>5 DEF Next

LEMMA FormsStep == FormsKept /\ [Next]_vars => FormsKept'
<1> SUFFICES ASSUME FormsKept, [Next]_vars, Simple(text') PROVE FormsRead'
  <2>1. ASSUME FormsKept, [Next]_vars PROVE Resting'
    BY <2>1, RestingStep DEF FormsKept
  <2> QED BY <2>1 DEF FormsKept
<1> DEFINE u == Goal(text)
<1>0. Resting /\ text \in Seq(Nat) BY DEF FormsKept, Resting
<1>6. Simple(text) => FormsRead BY DEF FormsKept
<1>1. ASSUME NEW cp \in Codepoints, Feed(cp) PROVE FormsRead'
  <2> DEFINE d == Process(engine, cp)
             v == IF IsControl(cp) THEN u ELSE u \o DecomposeOne(cp)
  <2>1. /\ ~ended /\ engine.ok /\ engine' = Cut(d) /\ text' = Append(text, cp)
        /\ ended' = ended /\ cp \in Nat
    BY <1>1, FormsAssumption DEF Feed
  <2>0. Simple(text) /\ PartsOnce(cp) BY <1>0, <2>1, SimplerText
  <2>2. Holds(engine, u) BY <1>6, <2>0, <2>1 DEF FormsRead
  <2>3. Holds(d, v) BY <2>0, <2>1, <2>2, ProcessHolds
  <2>4. text' \in Seq(Nat) /\ Goal(text') = v BY <1>0, <2>1, OneMore
  <2> HIDE DEF d, v
  <2>5. d \in Engine /\ Canon(v) = (Read(d) \o Lead(d)) \o d.win BY <2>3, HoldsIs, HoldsAll
  <2>6. /\ engine' \in Engine /\ IsPrefix(Read(engine'), Canon(v))
        /\ engine'.ok => engine' = d
    <3> DEFINE r == Lead(d) \o d.win
    <3>1. Read(d) \in Seq(Nat) /\ Lead(d) \in Seq(Nat) /\ d.win \in Seq(Nat) BY <2>5, EngineIs
    <3>2. r \in Seq(Nat) BY <3>1, Linked
    <3>3. (Read(d) \o Lead(d)) \o d.win = Read(d) \o r BY <3>1, Regroup
    <3> HIDE DEF r
    <3>4. /\ Cut(d) \in Engine /\ IsPrefix(Read(Cut(d)), Read(d) \o r)
          /\ Cut(d).ok => Cut(d) = d
      BY <2>5, <3>2, CutIs
    <3> QED BY <2>1, <2>5, <3>3, <3>4, Zenon
  <2>7. engine'.ok => Holds(engine', Goal(text')) BY <2>3, <2>4, <2>6, Zenon
  <2>8. /\ engine' \in Engine /\ text' \in Seq(Nat) /\ ~ended'
        /\ IsPrefix(Read(engine'), Canon(Goal(text')))
    BY <2>1, <2>4, <2>6, Zenon
  <2> QED BY <2>7, <2>8 DEF FormsRead, Read, Flushed, Holds, Lead
<1>2. ASSUME Flush PROVE FormsRead'
  <2> DEFINE d == FlushText(engine)
  <2>1. /\ ~ended /\ engine.ok /\ engine' = Cut(d) /\ text' = text /\ ended' = engine'.ok
    BY <1>2 DEF Flush
  <2>2. Holds(engine, u) BY <1>6, <2>1 DEF FormsRead
  <2>3. Flushed(d) /\ Read(d) = Canon(u) BY <2>2, FlushHolds
  <2> HIDE DEF d
  <2>4. d \in Engine /\ Read(d) \in Seq(Nat) BY <2>3, EngineIs DEF Flushed
  <2>5. /\ engine' \in Engine /\ IsPrefix(Read(engine'), Canon(u))
        /\ engine'.ok => engine' = d
    <3>1. <<>> \in Seq(Nat) /\ Read(d) \o <<>> = Read(d) BY <2>4, Concat
    <3>2. /\ Cut(d) \in Engine /\ IsPrefix(Read(Cut(d)), Read(d) \o <<>>)
          /\ Cut(d).ok => Cut(d) = d
      BY <2>4, <3>1, CutIs
    <3> QED BY <2>1, <2>3, <3>1, <3>2, Zenon
  <2>6. engine'.ok \in BOOLEAN BY <2>5, EngineIs
  <2>7. text' \in Seq(Nat) /\ Goal(text') = u BY <1>0, <2>1
  <2>8. ended' => Flushed(engine') /\ Read(engine') = Canon(Goal(text'))
    BY <2>1, <2>3, <2>5, <2>7, Zenon
  <2>9. /\ engine' \in Engine /\ text' \in Seq(Nat) /\ (ended' <=> engine'.ok)
        /\ IsPrefix(Read(engine'), Canon(Goal(text')))
    BY <2>1, <2>5, <2>6, <2>7
  <2> QED BY <2>8, <2>9 DEF FormsRead
<1>3. ASSUME StateInit PROVE FormsRead'
  <2>1. PICK form \in Forms, room \in Rooms : engine' = Start(form, room)
    BY <1>3 DEF StateInit
  <2>2. text' = <<>> /\ ended' = FALSE BY <1>3 DEF StateInit
  <2>3. Holds(engine', Goal(text')) /\ engine'.ok = TRUE
    BY <2>1, <2>2, RoomsAre, StartHoldsNothing, Zenon
  <2>4. engine' \in Engine /\ text' \in Seq(Nat) BY <2>2, <2>3, HoldsIs, Concat, Zenon
  <2> QED BY <2>2, <2>3, <2>4 DEF FormsRead
<1>4. ASSUME GoOn PROVE FormsRead'
  <2> DEFINE none == <<>>
  <2>1. PICK room \in Rooms : engine' = [engine EXCEPT !.out = none, !.room = room]
    BY <1>4 DEF GoOn
  <2>2. text' = <<>> /\ ended' = FALSE /\ ended BY <1>4 DEF GoOn
  <2>3. /\ engine.ok /\ engine.starter = Sentinel /\ engine.win = <<>> /\ ~engine.seeded
        /\ engine.inv = none
    BY <1>0, <2>2 DEF Resting, Unseeded
  <2>4. room \in Nat /\ none \in Seq(Nat) /\ none \in Seq(Atoms) /\ none \in Seq(Controlled)
    BY FormsAssumption
  <2>10. PICK A, B : engine \in Shape(A, B) BY <1>0 DEF Resting, ArraysHold, Fit
  <2>11. engine.win = none BY <2>3 DEF none
  <2> HIDE DEF none
  <2>5. /\ engine' \in Engine /\ engine'.out = none /\ engine'.starter = engine.starter
        /\ engine'.win = engine.win /\ engine'.seeded = engine.seeded /\ engine'.ok = engine.ok
    BY <2>1, <2>3, <2>4, <2>10, <2>11 DEF Engine, Shape
  <2>6. Goal(<<>>) = <<>> BY PlainIs, PartedIs, Zenon DEF Goal
  <2>7. Read(engine') = <<>> BY <2>5, <2>6, Zenon DEF Read, Goal, none
  <2>8. Holds(engine', Goal(text')) BY <2>2, <2>3, <2>5, <2>6, <2>7, Zenon DEF Holds
  <2>9. text' \in Seq(Nat) BY <2>2, Concat, Zenon
  <2> QED BY <2>2, <2>3, <2>5, <2>8, <2>9 DEF FormsRead
<1>5. ASSUME UNCHANGED vars PROVE FormsRead'
  <2>1. engine' = engine /\ text' = text /\ ended' = ended BY <1>5 DEF vars
  <2>2. Simple(text) BY <2>1
  <2>3. FormsRead BY <1>6, <2>2
  <2> QED BY <2>1, <2>3 DEF FormsRead
<1> QED BY <1>1, <1>2, <1>3, <1>4, <1>5 DEF Next

LEMMA KeptIsCanonical == FormsKept => Canonical
<1> DEFINE whole == Canon(Parted(Plain(text)))
<1> SUFFICES ASSUME FormsRead
             PROVE  IF engine.ok THEN Parted(Plain(engine.out) \o Held) = whole
                    ELSE IsPrefix(Parted(Plain(engine.out)), whole)
  BY Zenon DEF Canonical, FormsKept
<1>0. whole = Canon(Goal(text)) BY DEF Goal
<1> HIDE DEF whole
<1>1. engine \in Engine BY DEF FormsRead
<1>2. CASE ~engine.ok
  <2>1. IsPrefix(Parted(Plain(engine.out)), whole) BY <1>0, <1>2, Zenon DEF FormsRead, Read
  <2> QED BY <1>2, <2>1
<1>3. CASE engine.ok
  <2>1. whole = (Read(engine) \o Lead(engine)) \o engine.win
    <3>1. CASE ended
      <4>1. Flushed(engine) /\ Read(engine) = whole BY <1>0, <3>1, Zenon DEF FormsRead
      <4>2. Lead(engine) = <<>> /\ engine.win = <<>> BY <4>1, Zenon DEF Flushed, Lead
      <4>3. Read(engine) \o <<>> = Read(engine) BY <1>1, EngineIs, Concat
      <4> QED BY <4>1, <4>2, <4>3, Zenon
    <3>2. CASE ~ended
      <4>1. Holds(engine, Goal(text)) BY <1>3, <3>2 DEF FormsRead
      <4> QED BY <1>0, <4>1, HoldsAll, Zenon
    <3> QED BY <3>1, <3>2
  <2> DEFINE lead == IF engine.starter = Sentinel THEN <<>> ELSE <<engine.starter>>
             win == engine.win
             out == engine.out
  <2>2. /\ out \in Seq(Nat) /\ win \in Seq(Atoms) /\ win \in Seq(Nat)
        /\ Lead(engine) \in Seq(Nat) /\ Plain(out) \in Seq(Nat)
    BY <1>1, EngineIs, PlainIs
  <2>3. lead \in Seq(Nat) /\ Parted(lead) = Lead(engine)
    <3>1. CASE engine.starter = Sentinel
      BY <3>1, Concat, PartedIs, Zenon DEF Lead
    <3>2. CASE engine.starter # Sentinel
      <4>1. engine.starter \in Nat BY <1>1, <3>2, EngineIs, VisibleAre
      <4> QED BY <3>2, <4>1, Concat, PartedIs, Zenon DEF Lead
    <3> QED BY <3>1, <3>2
  <2>4. Held = lead \o win BY DEF Held
  <2>5. Parted(win) = win BY <2>2, PartedIs
  <2>6. Read(engine) = Parted(Plain(out)) BY DEF Read
  <2> HIDE DEF lead, win, out
  <2>7. lead \o win \in Seq(Nat) BY <2>2, <2>3, Linked
  <2>8. Parted(Plain(out) \o (lead \o win)) = Parted(Plain(out)) \o Parted(lead \o win)
    BY <2>2, <2>7, PartedIs, Zenon
  <2>9. Parted(lead \o win) = Parted(lead) \o Parted(win) BY <2>2, <2>3, PartedIs, Zenon
  <2>10. Parted(Plain(out) \o Held) = Read(engine) \o (Lead(engine) \o win)
    BY <2>3, <2>4, <2>5, <2>6, <2>8, <2>9, Zenon
  <2>11. (Read(engine) \o Lead(engine)) \o win = Read(engine) \o (Lead(engine) \o win)
    <3>1. Read(engine) \in Seq(Nat) BY <1>1, EngineIs
    <3> QED BY <2>2, <3>1, Regroup
  <2>12. Parted(Plain(engine.out) \o Held) = whole BY <2>1, <2>10, <2>11, Zenon DEF win, out
  <2> QED BY <1>3, <2>12
<1> QED BY <1>2, <1>3

(* Of a text no part of which has a row of its own, both forms are the     *)
(* canonical decomposition, whatever the rest of the tables and the        *)
(* window: sucf_absorb and sucf_finalize lose nothing, reorder marks as    *)
(* the standard does, and compose only what parts again into the same      *)
(* codepoints.  What passes by the window is left out on both sides, the   *)
(* native codepoints with the controls: marks are sorted and composed      *)
(* across a native one, where SUAS-004, 5.1, has it end their sequence.    *)
THEOREM FormsAreCanonical == Spec => []Canonical
BY FormsBegin, FormsStep, KeptIsCanonical, PTL DEF Spec

--------------------------------------------------------------------------------
LEMMA NoLess ==
  ASSUME NEW n \in Nat, NEW w \in Nat \ {0}
  PROVE  n \div w >= 0
<1> SUFFICES ASSUME n \div w < 0 PROVE FALSE
  OBVIOUS
<1>1. w \in Int /\ w > 0 /\ n \in Int OBVIOUS
<1>2. n \div w \in Int /\ n % w \in 0 .. w - 1 /\ n = w * (n \div w) + (n % w)
  BY <1>1, SMT
<1> DEFINE q == n \div w
<1>3. q <= -1 BY <1>2
<1> HIDE DEF q
<1>4. w * q <= -w BY <1>1, <1>2, <1>3, SMT DEF q
<1> QED BY <1>1, <1>2, <1>4 DEF q

(* A text whose marks stand by class. *)
Rising(u) == \A i \in 2 .. Len(u) : Ccc(u[i]) = 0 \/ Ccc(u[i - 1]) <= Ccc(u[i])

(* Within a portion they do so throughout. *)
LEMMA RisesOn ==
  ASSUME NEW u \in Seq(Nat), Rising(u), NEW i \in 1 .. Len(u), NEW j \in 1 .. Len(u),
         i < j, Portion(u, i) = Portion(u, j)
  PROVE  Ccc(u[i]) <= Ccc(u[j])
<1> DEFINE h == HeadOf(u, i)
<1>0. Len(u) \in Nat /\ \A k \in 1 .. Len(u) : u[k] \in Nat BY SeqIs
<1>1. \A k \in 1 .. Len(u) : Ccc(u[k]) \in Int BY <1>0, CccIs
<1>2. h \in 1 .. i /\ HeadOf(u, j) = h /\ i # h
  <2>1. Portion(u, i)[1] = h /\ Portion(u, j)[1] = HeadOf(u, j) BY DEF Portion
  <2>2. h \in 1 .. i BY HeadIs
  <2>3. HeadOf(u, j) = h BY <2>1
  <2>4. i # h
    <3> SUFFICES ASSUME i = h PROVE FALSE
      OBVIOUS
    <3>1. Portion(u, i)[2] = -1 BY DEF Portion
    <3>2. j # h BY <1>0
    <3>3. Portion(u, j)[2] = (j - h - 1) \div Window BY <2>3, <3>2 DEF Portion
    <3>4. j - h - 1 \in Nat BY <1>0
    <3>5. Window \in Nat \ {0} BY FormsAssumption
    <3>6. (j - h - 1) \div Window >= 0 BY <3>4, <3>5, NoLess
    <3> HIDE DEF h
    <3> QED BY <3>1, <3>3, <3>6
  <2> QED BY <2>2, <2>3, <2>4
<1> HIDE DEF h
<1>3. \A k \in i + 1 .. j : Ccc(u[k]) # 0
  <2> SUFFICES ASSUME NEW k \in i + 1 .. j, Ccc(u[k]) = 0 PROVE FALSE
    OBVIOUS
  <2>1. k \in 1 .. j BY <1>0
  <2>2. k <= HeadOf(u, j) BY <2>1, HeadIs
  <2> QED BY <1>0, <1>2, <2>2
<1> DEFINE bad == {k \in i .. j : ~(Ccc(u[i]) <= Ccc(u[k]))}
<1>4. bad = {}
  <2> SUFFICES ASSUME bad # {} PROVE FALSE
    OBVIOUS
  <2>1. bad \subseteq Nat OBVIOUS
  <2>2. PICK k \in bad : \A y \in bad : k <= y BY <2>1, LeastExists
  <2>3. k \in i .. j /\ ~(Ccc(u[i]) <= Ccc(u[k])) /\ k \in 1 .. Len(u) BY <2>2, <1>0
  <2>4. k # i BY <1>1, <2>3
  <2>5. k - 1 \in i .. j /\ k - 1 \in 1 .. Len(u) /\ k \in 2 .. Len(u) /\ k \in i + 1 .. j
        /\ ~(k <= k - 1)
    BY <1>0, <2>3, <2>4
  <2>6. Ccc(u[i]) <= Ccc(u[k - 1]) BY <2>2, <2>5
  <2>7. Ccc(u[k - 1]) <= Ccc(u[k]) BY <1>3, <2>5 DEF Rising
  <2>8. Ccc(u[i]) \in Int /\ Ccc(u[k - 1]) \in Int /\ Ccc(u[k]) \in Int BY <1>1, <2>5
  <2> QED BY <2>3, <2>6, <2>7, <2>8
<1>5. j \in i .. j BY <1>0
<1> QED BY <1>4, <1>5

(* It is in canonical order already. *)
LEMMA RisingIsCanonical ==
  ASSUME NEW u \in Seq(Nat), Rising(u)
  PROVE  Canon(u) = u
<1> DEFINE n == Len(u)
<1>0. n \in Nat /\ DOMAIN u = 1 .. n /\ \A k \in 1 .. n : u[k] \in Nat BY SeqIs
<1>1. \A k \in 1 .. n : Ccc(u[k]) \in Int BY <1>0, CccIs
<1>2. ASSUME NEW i \in 1 .. n, NEW j \in 1 .. n PROVE Precedes(u, i, j) <=> i < j
  <2>1. CASE Portion(u, i) # Portion(u, j) BY <2>1 DEF Precedes
  <2>2. CASE Portion(u, i) = Portion(u, j)
    <3>1. Precedes(u, i, j) <=> \/ Ccc(u[i]) < Ccc(u[j])
                                \/ Ccc(u[i]) = Ccc(u[j]) /\ i < j
      BY <2>2 DEF Precedes
    <3>2. Ccc(u[i]) \in Int /\ Ccc(u[j]) \in Int BY <1>1
    <3>3. i < j => Ccc(u[i]) <= Ccc(u[j]) BY <2>2, RisesOn
    <3>4. j < i => Ccc(u[j]) <= Ccc(u[i]) BY <2>2, RisesOn
    <3> HIDE DEF n
    <3>5. i < j \/ j < i \/ i = j BY <1>0
    <3> QED BY <1>0, <3>1, <3>2, <3>3, <3>4, <3>5
  <2> QED BY <2>1, <2>2
<1>3. ASSUME NEW i \in 1 .. n PROVE Rank(u, i) = i
  <2>1. {j \in DOMAIN u : Precedes(u, j, i)} = 1 .. i - 1 BY <1>0, <1>2
  <2>2. Cardinality(1 .. i - 1) = i - 1
    <3>1. 1 \in Int /\ i - 1 \in Int BY <1>0
    <3>2. Cardinality(1 .. i - 1) = IF 1 > i - 1 THEN 0 ELSE i - 1 - 1 + 1
      BY <3>1, FS_Interval
    <3> QED BY <1>0, <3>2
  <2>3. Rank(u, i) = 1 + Cardinality(1 .. i - 1) BY <2>1, Zenon DEF Rank
  <2> QED BY <1>0, <2>2, <2>3
<1>4. Ranked(u) BY <1>0, <1>3 DEF Ranked
<1>5. Canon(u) \in Seq(Nat) /\ Len(Canon(u)) = n /\ \A i \in 1 .. n : Canon(u)[Rank(u, i)] = u[i]
  BY <1>4, CanonIs
<1>6. \A i \in 1 .. Len(Canon(u)) : Canon(u)[i] = u[i] BY <1>3, <1>5
<1> QED BY <1>5, <1>6, Same

LEMMA PlainMore ==
  ASSUME NEW s \in Seq(Nat), NEW cp \in Nat
  PROVE  /\ Plain(s) \in Seq(Nat) /\ Append(s, cp) \in Seq(Nat)
         /\ Plain(Append(s, cp)) = IF IsControl(cp) THEN Plain(s) ELSE Append(Plain(s), cp)
<1> DEFINE m == <<cp>>
<1>1. Append(s, cp) = s \o m /\ m \in Seq(Nat) BY Appended
<1>2. IsControl(cp) => m \in Seq(Controlled)
  <2>1. \A z \in Controlled : <<z>> \in Seq(Controlled) OBVIOUS
  <2> QED BY <2>1 DEF Controlled
<1>3. ~IsControl(cp) => m \in Seq(Visible)
  <2>1. \A z \in Visible : <<z>> \in Seq(Visible) OBVIOUS
  <2> QED BY <2>1 DEF Visible
<1>4. Plain(s) \in Seq(Nat) BY PlainIs
<1>5. Append(Plain(s), cp) = Plain(s) \o m BY <1>4, Appended
<1> HIDE DEF m
<1>6. Append(s, cp) \in Seq(Nat) BY <1>1, Linked
<1>7. Plain(s \o m) = Plain(s) \o Plain(m) BY <1>1, PlainIs, Zenon
<1>8. CASE IsControl(cp)
  <2>1. Plain(m) = <<>> BY <1>2, <1>8, PlainIs, Zenon
  <2>2. Plain(s) \o <<>> = Plain(s) BY <1>4, Concat
  <2>3. Plain(Append(s, cp)) = Plain(s) BY <1>1, <1>7, <2>1, <2>2, Zenon
  <2> QED BY <1>4, <1>6, <1>8, <2>3
<1>9. CASE ~IsControl(cp)
  <2>1. Plain(m) = m BY <1>3, <1>9, PlainIs, Zenon
  <2>2. Plain(Append(s, cp)) = Append(Plain(s), cp) BY <1>1, <1>5, <1>7, <2>1, Zenon
  <2> QED BY <1>4, <1>6, <1>9, <2>2
<1> QED BY <1>8, <1>9

(* What the quick check knows after each codepoint. *)
Ignorant == [starter |-> 0, prev |-> -1, yes |-> TRUE]
Looks(f, form, s) ==
  f = [i \in 0 .. Len(s) |-> IF i = 0 THEN Ignorant ELSE QuickStep(form, f[i - 1], s[i])]

LEMMA QuickIs ==
  ASSUME NEW form, NEW s \in Seq(Nat)
  PROVE  \E f : Looks(f, form, s) /\ QuickYes(form, s) = f[Len(s)].yes
<1> DEFINE n == Len(s)
           Runs(f, m) == f = [i \in 0 .. m |-> IF i = 0 THEN Ignorant ELSE QuickStep(form, f[i - 1], s[i])]
           bad == {m \in 0 .. n : ~ \E f : Runs(f, m)}
<1>1. n \in Nat OBVIOUS
<1> HIDE DEF n
<1> HIDE DEF Runs
<1>2. bad = {}
  <2> SUFFICES ASSUME bad # {} PROVE FALSE
    OBVIOUS
  <2>1. bad \subseteq Nat OBVIOUS
  <2>2. PICK m \in bad : \A y \in bad : m <= y BY <2>1, LeastExists
  <2>3. m \in 0 .. n /\ ~ \E f : Runs(f, m) BY <2>2
  <2>4. m # 0
    <3> DEFINE f == [i \in 0 .. 0 |-> Ignorant]
    <3>1. f = [i \in 0 .. 0 |-> IF i = 0 THEN Ignorant ELSE QuickStep(form, f[i - 1], s[i])]
      <4>1. \A i \in 0 .. 0 : i = 0 OBVIOUS
      <4> QED BY <4>1
    <3> HIDE DEF f
    <3>2. Runs(f, 0) BY <3>1, Zenon DEF Runs
    <3> QED BY <2>3, <3>2
  <2>5. m - 1 \in 0 .. n /\ ~(m <= m - 1) BY <2>3, <2>4, <1>1
  <2>6. PICK f : Runs(f, m - 1) BY <2>2, <2>5
  <2> DEFINE g == [i \in 0 .. m |-> IF i = m THEN QuickStep(form, f[m - 1], s[m]) ELSE f[i]]
  <2>7. \A i \in 0 .. m : g[i] = IF i = 0 THEN Ignorant ELSE QuickStep(form, g[i - 1], s[i])
    <3> SUFFICES ASSUME NEW i \in 0 .. m
                 PROVE  g[i] = IF i = 0 THEN Ignorant ELSE QuickStep(form, g[i - 1], s[i])
      OBVIOUS
    <3>1. CASE i = m
      <4>1. m - 1 \in 0 .. m /\ m - 1 # m BY <2>3, <2>4
      <4>2. g[m - 1] = f[m - 1] BY <4>1
      <4>3. g[m] = QuickStep(form, f[m - 1], s[m]) BY <2>3
      <4> HIDE DEF g
      <4> QED BY <2>4, <3>1, <4>2, <4>3
    <3>2. CASE i # m
      <4>1. i \in 0 .. m - 1 /\ i - 1 # m BY <3>2, <2>3
      <4>2. f[i] = IF i = 0 THEN Ignorant ELSE QuickStep(form, f[i - 1], s[i])
        BY <4>1, <2>6 DEF Runs
      <4>3. g[i] = f[i] /\ (i # 0 => g[i - 1] = f[i - 1])
        <5>1. i # 0 => i - 1 \in 0 .. m BY <4>1
        <5> QED BY <3>2, <4>1, <5>1
      <4> HIDE DEF g
      <4> QED BY <4>2, <4>3
    <3> QED BY <3>1, <3>2
  <2>8. g = [i \in 0 .. m |-> g[i]] OBVIOUS
  <2> HIDE DEF g
  <2>9. Runs(g, m) BY <2>7, <2>8 DEF Runs
  <2> QED BY <2>3, <2>9
<1>3. \E f : Looks(f, form, s)
  <2>1. n \in 0 .. n BY <1>1
  <2>2. \E f : Runs(f, n) BY <1>2, <2>1
  <2> QED BY <2>2, Zenon DEF Looks, Runs, n
<1> DEFINE f == CHOOSE f : Looks(f, form, s)
<1>4. Looks(f, form, s)
  <2> HIDE DEF f
  <2> QED BY <1>3 DEF f
<1>5. QuickYes(form, s) = f[Len(s)].yes BY Zenon DEF QuickYes, Looks, Ignorant
<1> HIDE DEF f
<1> QED BY <1>4, <1>5

(* As long as it says yes, what it saw needs no parting and no sorting. *)
Looked == [starter : Nat, prev : Int, yes : BOOLEAN]
Trusts(q, u) ==
  /\ q \in Looked /\ u \in Seq(Nat)
  /\ q.yes => /\ u \in Seq(Atoms) /\ Rising(u)
              /\ q.prev = IF u = <<>> THEN -1 ELSE Ccc(u[Len(u)])

LEMMA RisesMore ==
  ASSUME NEW u \in Seq(Atoms), Rising(u), NEW c \in Atoms,
         u = <<>> \/ Ccc(c) = 0 \/ Ccc(u[Len(u)]) <= Ccc(c)
  PROVE  LET v == Append(u, c)
         IN v \in Seq(Atoms) /\ Rising(v) /\ v # <<>> /\ v[Len(v)] = c
<1> DEFINE n == Len(u)
           v == Append(u, c)
<1>1. /\ n \in Nat /\ v \in Seq(Atoms) /\ Len(v) = n + 1 /\ v # <<>> /\ v[n + 1] = c
      /\ \A i \in 1 .. n : v[i] = u[i]
  <2>1. n \in Nat BY LenProperties
  <2>2. /\ v \in Seq(Atoms) /\ Len(v) = n + 1 /\ v # <<>> /\ v[n + 1] = c
        /\ \A i \in 1 .. n : v[i] = u[i]
    BY AppendProperties
  <2> QED BY <2>1, <2>2
<1>2. u = <<>> => n = 0 OBVIOUS
<1> HIDE DEF v, n
<1>3. ASSUME NEW i \in 2 .. Len(v) PROVE Ccc(v[i]) = 0 \/ Ccc(v[i - 1]) <= Ccc(v[i])
  <2>1. CASE i = n + 1
    <3>1. n # 0 /\ i - 1 = n /\ n \in 1 .. n BY <1>1, <2>1
    <3>2. v[i] = c /\ v[i - 1] = u[n] BY <1>1, <2>1, <3>1
    <3> QED BY <1>2, <3>1, <3>2 DEF n
  <2>2. CASE i # n + 1
    <3>1. i \in 2 .. n /\ i - 1 \in 1 .. n /\ i \in 1 .. n BY <1>1, <2>2
    <3>2. v[i] = u[i] /\ v[i - 1] = u[i - 1] BY <1>1, <3>1
    <3>3. Ccc(u[i]) = 0 \/ Ccc(u[i - 1]) <= Ccc(u[i]) BY <3>1 DEF Rising, n
    <3> QED BY <3>2, <3>3
  <2> QED BY <2>1, <2>2
<1>4. Rising(v) BY <1>3 DEF Rising
<1> QED BY <1>1, <1>4 DEF v

LEMMA TrustsMore ==
  ASSUME NEW q, NEW u, Trusts(q, u), NEW cp \in Nat
  PROVE  Trusts(QuickStep("D", q, cp), IF IsControl(cp) THEN u ELSE Append(u, cp))
<1> DEFINE r == QuickStep("D", q, cp)
           v == Append(u, cp)
<1>1. q \in Looked /\ u \in Seq(Nat) /\ v \in Seq(Nat) BY DEF Trusts
<1>2. q.starter \in Nat /\ q.prev \in Int /\ q.yes \in BOOLEAN BY <1>1 DEF Looked
<1>3. Ccc(cp) \in Int BY CccIs
<1>4. q.yes => /\ u \in Seq(Atoms) /\ Rising(u)
               /\ q.prev = IF u = <<>> THEN -1 ELSE Ccc(u[Len(u)])
  BY DEF Trusts
<1>5. CASE IsControl(cp)
  <2>1. r = q BY <1>5 DEF QuickStep
  <2> HIDE DEF r, v
  <2> QED BY <1>5, <2>1 DEF r
<1>6. CASE ~IsControl(cp) /\ (IsHangul(cp) \/ cp \in DOMAIN Decomposition)
  <2>1. r = [starter |-> cp, prev |-> 0, yes |-> FALSE]
    <3>1. "D" # "C" OBVIOUS
    <3>2. r = [starter |-> cp, prev |-> 0,
               yes |-> q.yes /\ "D" = "C" /\ Len(DecomposeOne(cp)) > 1]
      BY <1>6 DEF QuickStep
    <3>3. (q.yes /\ "D" = "C" /\ Len(DecomposeOne(cp)) > 1) = FALSE BY <3>1, Zenon
    <3> QED BY <3>2, <3>3, Zenon
  <2> HIDE DEF r
  <2>2. r \in Looked /\ r.yes = FALSE BY <2>1 DEF Looked
  <2> HIDE DEF v
  <2>3. Trusts(r, v) BY <1>1, <2>2, Zenon DEF Trusts
  <2> QED BY <1>6, <2>3 DEF r, v
<1>7. CASE ~IsControl(cp) /\ ~IsHangul(cp) /\ cp \notin DOMAIN Decomposition
  <2>1. cp \in Atoms BY <1>7 DEF Atoms, DecomposeOne
  <2>2. CASE Ccc(cp) = 0
    <3>1. r = [q EXCEPT !.starter = cp, !.prev = 0] BY <1>7, <2>2 DEF QuickStep
    <3> HIDE DEF r
    <3>5. r = [starter |-> cp, prev |-> 0, yes |-> q.yes] BY <1>1, <3>1 DEF Looked
    <3>2. r \in Looked /\ r.prev = 0 /\ r.yes = q.yes BY <1>2, <3>5 DEF Looked
    <3>3. q.yes => v \in Seq(Atoms) /\ Rising(v) /\ v # <<>> /\ v[Len(v)] = cp
      BY <1>4, <2>1, <2>2, RisesMore
    <3> HIDE DEF v
    <3>4. Trusts(r, v) BY <1>1, <2>2, <3>2, <3>3, Zenon DEF Trusts
    <3> QED BY <1>7, <3>4 DEF r, v
  <2>3. CASE Ccc(cp) # 0
    <3> DEFINE yes == /\ q.yes /\ q.prev <= Ccc(cp)
                      /\ ~("D" = "C" /\ q.starter # 0 /\ ComposePair(q.starter, cp) # 0)
    <3>1. r = [q EXCEPT !.prev = Ccc(cp), !.yes = yes] BY <1>7, <2>3, Zenon DEF QuickStep
    <3>2. yes \in BOOLEAN /\ (yes => q.yes /\ q.prev <= Ccc(cp)) OBVIOUS
    <3> HIDE DEF r, yes
    <3>3. r \in Looked /\ r.prev = Ccc(cp) /\ r.yes = yes BY <1>1, <1>3, <3>1, <3>2 DEF Looked
    <3>4. yes => v \in Seq(Atoms) /\ Rising(v) /\ v # <<>> /\ v[Len(v)] = cp
      <4> SUFFICES ASSUME yes PROVE v \in Seq(Atoms) /\ Rising(v) /\ v # <<>> /\ v[Len(v)] = cp
        OBVIOUS
      <4>1. u = <<>> \/ Ccc(u[Len(u)]) <= Ccc(cp) BY <1>4, <3>2
      <4> QED BY <1>4, <2>1, <3>2, <4>1, RisesMore
    <3> HIDE DEF v
    <3>5. Trusts(r, v) BY <1>1, <3>3, <3>4, Zenon DEF Trusts
    <3> QED BY <1>7, <3>5 DEF r, v
  <2> QED BY <2>2, <2>3
<1> QED BY <1>5, <1>6, <1>7

LEMMA Reads ==
  ASSUME NEW s \in Seq(Nat), NEW i \in 1 .. Len(s)
  PROVE  /\ SubSeq(s, 1, i - 1) \in Seq(Nat) /\ s[i] \in Nat
         /\ SubSeq(s, 1, i) = Append(SubSeq(s, 1, i - 1), s[i])
<1>1. Len(s) \in Nat /\ s[i] \in Nat BY SeqIs
<1>2. i - 1 \in 0 .. Len(s) BY <1>1
<1>3. SubSeq(s, 1, i - 1) \in Seq(Nat) BY <1>1, <1>2, Split
<1>4. 1 \in 1 .. Len(s) BY <1>1
<1>5. SubSeq(s, 1, i) = SubSeq(s, 1, i - 1) \o <<s[i]>> BY <1>4, SubSeqRecursiveSecond
<1> QED BY <1>1, <1>3, <1>5, Appended

LEMMA QuickRises ==
  ASSUME NEW s \in Seq(Nat), QuickYes("D", s)
  PROVE  Plain(s) \in Seq(Atoms) /\ Rising(Plain(s))
<1> DEFINE n == Len(s)
           at(i) == Plain(SubSeq(s, 1, i))
<1>0. n \in Nat /\ at(n) = Plain(s)
  <2>1. SubSeq(s, 1, Len(s)) = s BY SubSeqFull
  <2>2. Len(s) \in Nat BY SeqIs
  <2> QED BY <2>1, <2>2, Zenon
<1>1. PICK f : Looks(f, "D", s) /\ QuickYes("D", s) = f[n].yes BY QuickIs
<1>2. \A i \in 0 .. n : f[i] = IF i = 0 THEN Ignorant ELSE QuickStep("D", f[i - 1], s[i])
  BY <1>1 DEF Looks
<1>3. at(0) = <<>>
  <2>1. SubSeq(s, 1, 0) = <<>> BY SubSeqEmpty
  <2> QED BY <2>1, PlainIs
<1>4. \A i \in 1 .. n : /\ s[i] \in Nat
                        /\ at(i) = IF IsControl(s[i]) THEN at(i - 1) ELSE Append(at(i - 1), s[i])
  BY Reads, PlainMore, Zenon
<1> HIDE DEF n, at
<1> DEFINE bad == {i \in 0 .. n : ~Trusts(f[i], at(i))}
<1>5. bad = {}
  <2> SUFFICES ASSUME bad # {} PROVE FALSE
    OBVIOUS
  <2>1. bad \subseteq Nat OBVIOUS
  <2>2. PICK m \in bad : \A y \in bad : m <= y BY <2>1, LeastExists
  <2>3. m \in 0 .. n /\ ~Trusts(f[m], at(m)) BY <2>2
  <2>4. m # 0
    <3>1. f[0] = Ignorant BY <1>0, <1>2
    <3>2. Ignorant \in Looked /\ Ignorant.prev = -1 BY DEF Ignorant, Looked
    <3>3. <<>> \in Seq(Atoms) /\ Rising(<<>>)
      <4>1. \A i \in 2 .. Len(<<>>) : FALSE OBVIOUS
      <4>2. Rising(<<>>) BY <4>1, Zenon DEF Rising
      <4> QED BY <4>2
    <3>4. Trusts(Ignorant, <<>>) BY <3>2, <3>3, Concat, Zenon DEF Trusts
    <3> QED BY <1>3, <2>3, <3>1, <3>4
  <2>5. m - 1 \in 0 .. n /\ ~(m <= m - 1) /\ m \in 1 .. n BY <1>0, <2>3, <2>4
  <2>6. Trusts(f[m - 1], at(m - 1)) BY <2>2, <2>5
  <2>7. f[m] = QuickStep("D", f[m - 1], s[m]) BY <1>2, <2>3, <2>4
  <2> QED BY <1>4, <2>3, <2>5, <2>6, <2>7, TrustsMore, Zenon
<1>6. Trusts(f[n], at(n))
  <2>1. n \in 0 .. n BY <1>0
  <2> QED BY <1>5, <2>1
<1> QED BY <1>0, <1>1, <1>6 DEF Trusts

--------------------------------------------------------------------------------
(* An engine for the decomposed form. *)
Marks == {c \in Atoms : Ccc(c) # 0}
Singles == Atoms \cup Controlled
Settled(e) ==
  /\ e \in Engine /\ e.form = "D" /\ e.starter \in Atoms \cup {Sentinel}
  /\ e.win \in Seq(Marks) /\ e.out \in Seq(Singles)

LEMMA SinglesAre ==
  /\ Marks \subseteq Atoms /\ Atoms \subseteq Singles /\ Controlled \subseteq Singles
  /\ Singles \subseteq Nat /\ Marks \subseteq Singles /\ Marks \subseteq Nat
BY VisibleAre DEF Marks, Singles

LEMMA SequenceWhole ==
  ASSUME NEW e, Settled(e)
  PROVE  /\ Sequence(e) = Lead(e) \o e.win /\ Lead(e) \in Seq(Atoms)
         /\ Lead(e) = IF e.starter = Sentinel THEN <<>> ELSE <<e.starter>>
         /\ Lead(e) \o e.win \in Seq(Atoms)
<1> DEFINE w == e.win
           base == Merged(e)
           I == {0} \cup {i \in DOMAIN w : base[i] # 0}
           k == Max(I)
           lead == IF e.starter = Sentinel THEN <<>> ELSE <<base[k]>>
           rest == SubSeq(w, k + 1, Len(w))
<1>1. Sequence(e) = lead \o rest BY DEF Sequence
<1>2. /\ e \in Engine /\ w \in Seq(Atoms) /\ Len(w) \in Nat /\ DOMAIN w = 1 .. Len(w)
      /\ e.starter \in Atoms \cup {Sentinel} /\ e.form = "D"
  <2>1. e \in Engine /\ e.form = "D" /\ e.starter \in Atoms \cup {Sentinel} BY DEF Settled
  <2>2. w \in Seq(Atoms) BY <2>1, EngineIs
  <2> QED BY <2>1, <2>2, SeqIs
<1>3. base[0] = e.starter /\ \A i \in 1 .. Len(w) : ~(base[i] # 0)
  BY <1>2, MergedIs
<1> HIDE DEF base
<1>4. I = {0} BY <1>2, <1>3
<1>5. k = 0
  <2>1. I \subseteq 0 .. 0 /\ I # {} BY <1>4
  <2> HIDE DEF I
  <2>2. k \in I BY <2>1, MaxIn
  <2> QED BY <1>4, <2>2
<1> HIDE DEF k
<1>6. rest = w
  <2>1. SubSeq(w, 1, Len(w)) = w BY <1>2, SubSeqFull
  <2>2. 0 + 1 = 1 OBVIOUS
  <2> QED BY <1>5, <2>1, <2>2
<1>7. lead = IF e.starter = Sentinel THEN <<>> ELSE <<e.starter>> BY <1>3, <1>5
<1>8. Lead(e) = lead
  <2>1. CASE e.starter = Sentinel BY <1>7, <2>1, Zenon DEF Lead
  <2>2. CASE e.starter # Sentinel
    <3>1. DecomposeOne(e.starter) = <<e.starter>> BY <1>2, <2>2 DEF Atoms
    <3> QED BY <1>7, <2>2, <3>1, Zenon DEF Lead
  <2> QED BY <2>1, <2>2
<1>9. lead \in Seq(Atoms)
  <2>1. <<>> \in Seq(Atoms) /\ \A c \in Atoms : <<c>> \in Seq(Atoms) OBVIOUS
  <2> QED BY <1>2, <1>7, <2>1, Zenon
<1> HIDE DEF lead, rest, w
<1>10. lead \o w \in Seq(Atoms) BY <1>2, <1>9, ConcatProperties
<1> QED BY <1>1, <1>6, <1>7, <1>8, <1>9, <1>10, Zenon DEF w

(* What it does with a part ... *)
LEMMA InsertMark ==
  ASSUME NEW win \in Seq(Marks), NEW c \in Marks
  PROVE  Insert(win, c) \in Seq(Marks)
<1> DEFINE I == {0} \cup {i \in DOMAIN win : Ccc(win[i]) <= Ccc(c)}
           k == Max(I)
           l == SubSeq(win, 1, k)
           m == <<c>>
           r == SubSeq(win, k + 1, Len(win))
<1>1. k \in 0 .. Len(win)
  <2>1. I \subseteq 0 .. Len(win) /\ I # {} /\ Len(win) \in Nat OBVIOUS
  <2> HIDE DEF I
  <2>2. k \in I BY <2>1, MaxIn
  <2> QED BY <2>1, <2>2
<1>2. Insert(win, c) = l \o m \o r BY DEF Insert
<1> HIDE DEF k
<1>3. l \in Seq(Marks) /\ r \in Seq(Marks) BY <1>1, Split
<1>4. m \in Seq(Marks) OBVIOUS
<1> HIDE DEF l, m, r
<1>5. l \o m \in Seq(Marks) BY <1>3, <1>4, ConcatProperties
<1>6. (l \o m) \o r \in Seq(Marks) BY <1>3, <1>5, ConcatProperties
<1> QED BY <1>2, <1>6

LEMMA SettledFinalizes ==
  ASSUME NEW e, Settled(e)
  PROVE  LET f == Finalize(e)
         IN /\ Settled(f) /\ f.out = e.out \o (Lead(e) \o e.win) \o e.inv /\ f.inv = <<>>
            /\ f.starter = Sentinel /\ f.win = <<>> /\ f.seeded = e.seeded /\ f.ok = e.ok
<1> DEFINE s == Lead(e) \o e.win
           out == e.out \o s \o e.inv
           none == <<>>
           f == [e EXCEPT !.out = out, !.win = none, !.inv = none, !.starter = Sentinel]
<1>1. /\ e \in Engine /\ e.form = "D" /\ e.out \in Seq(Singles) /\ e.inv \in Seq(Controlled)
      /\ s \in Seq(Atoms)
  BY EngineIs, SequenceWhole DEF Settled
<1>2. Finalize(e) = f
  <2>1. Sequence(e) = s BY SequenceWhole
  <2> QED BY <1>1, <2>1 DEF Finalize, Engine
<1> HIDE DEF s
<1>3. s \in Seq(Singles) /\ e.inv \in Seq(Singles) BY <1>1, SinglesAre, Widened
<1>4. out \in Seq(Singles)
  <2>1. e.out \o s \in Seq(Singles) BY <1>1, <1>3, ConcatProperties
  <2> QED BY <1>3, <2>1, ConcatProperties
<1>5. out \in Seq(Nat) BY <1>4, SinglesAre, Widened
<1>6. none \in Seq(Marks) /\ none \in Seq(Controlled) /\ none \in Seq(Atoms) OBVIOUS
<1> HIDE DEF out, none
<1>7. /\ f \in Engine /\ f.out = out /\ f.starter = Sentinel /\ f.win = none /\ f.seeded = e.seeded
      /\ f.inv = none /\ f.ok = e.ok /\ f.form = "D"
  BY <1>1, <1>5, <1>6 DEF Engine
<1> HIDE DEF f
<1>8. Settled(f) BY <1>4, <1>6, <1>7, Zenon DEF Settled
<1> QED BY <1>2, <1>7, <1>8, Zenon DEF none, out, s

--------------------------------------------------------------------------------
ControlsOf == [c \in Nat |-> IF IsControl(c) THEN <<c>> ELSE <<>>]

LEMMA ControlsAre ==
  /\ \A s \in Seq(Nat) : Controls(s) \in Seq(Nat)
  /\ \A s, t \in Seq(Nat) : Controls(s \o t) = Controls(s) \o Controls(t)
  /\ \A s \in Seq(Controlled) : s \in Seq(Nat) /\ Controls(s) = s
  /\ \A s \in Seq(Visible) : s \in Seq(Nat) /\ Controls(s) = <<>>
  /\ Controls(<<>>) = <<>>
<1>0. ControlsOf \in Codes
  <2>1. \A c \in Nat : (IF IsControl(c) THEN <<c>> ELSE <<>>) \in Seq(Nat)
    <3> SUFFICES ASSUME NEW c \in Nat PROVE (IF IsControl(c) THEN <<c>> ELSE <<>>) \in Seq(Nat)
      OBVIOUS
    <3>1. <<>> \in Seq(Nat) /\ <<c>> \in Seq(Nat) OBVIOUS
    <3> QED BY <3>1, Zenon
  <2> QED BY <2>1, Zenon DEF ControlsOf, Codes
<1>6. ASSUME NEW s \in Seq(Nat) PROVE Controls(s) = Spread(ControlsOf, s)
  <2>1. DOMAIN s = 1 .. Len(s) /\ \A i \in 1 .. Len(s) : s[i] \in Nat BY SeqIs
  <2>2. [i \in DOMAIN s |-> IF IsControl(s[i]) THEN <<s[i]>> ELSE <<>>]
          = [i \in DOMAIN s |-> ControlsOf[s[i]]]
    BY <2>1, Zenon DEF ControlsOf
  <2> QED BY <2>2, Zenon DEF Controls, Spread
<1>1. ASSUME NEW s \in Seq(Nat) PROVE Controls(s) \in Seq(Nat)
  BY <1>0, <1>6, SpreadIs
<1>2. ASSUME NEW s \in Seq(Nat), NEW t \in Seq(Nat)
      PROVE  Controls(s \o t) = Controls(s) \o Controls(t)
  <2>1. s \o t \in Seq(Nat) OBVIOUS
  <2>2. Spread(ControlsOf, s \o t) = Spread(ControlsOf, s) \o Spread(ControlsOf, t)
    BY <1>0, SpreadJoin
  <2> QED BY <1>6, <2>1, <2>2, Zenon
<1>3. ASSUME NEW s \in Seq(Controlled) PROVE s \in Seq(Nat) /\ Controls(s) = s
  <2>1. s \in Seq(Nat) BY VisibleAre, Widened
  <2>2. \A c \in Controlled : ControlsOf[c] = <<c>> BY Zenon DEF Controlled, ControlsOf
  <2>3. Spread(ControlsOf, s) = s BY <1>0, <2>2, VisibleAre, SpreadSame
  <2> QED BY <1>6, <2>1, <2>3
<1>4. ASSUME NEW s \in Seq(Visible) PROVE s \in Seq(Nat) /\ Controls(s) = <<>>
  <2>1. s \in Seq(Nat) BY VisibleAre, Widened
  <2>2. \A c \in Visible : ControlsOf[c] = <<>> BY Zenon DEF Visible, ControlsOf
  <2>3. Spread(ControlsOf, s) = <<>> BY <1>0, <2>2, VisibleAre, SpreadWiped
  <2> QED BY <1>6, <2>1, <2>3
<1>5. Controls(<<>>) = <<>>
  <2>1. <<>> \in Seq(Nat) OBVIOUS
  <2> QED BY <1>6, <2>1, SpreadNone
<1> QED BY <1>1, <1>2, <1>3, <1>4, <1>5

--------------------------------------------------------------------------------
(* Places counted in controls and in starters. *)
Passed(s) == Len(Controls(s))
Opening(s, i) == ~IsControl(s[i]) /\ Ccc(s[i]) = 0
Starters(s) == Cardinality({i \in DOMAIN s : Opening(s, i)})

LEMMA PassedIs ==
  ASSUME NEW s \in Seq(Nat), NEW x \in Seq(Nat)
  PROVE  /\ Passed(s) \in Nat /\ DOMAIN Controls(s) = 1 .. Passed(s)
         /\ Passed(s \o x) = Passed(s) + Passed(x) /\ Passed(s) <= Passed(s \o x)
<1>1. Controls(s) \in Seq(Nat) /\ Controls(x) \in Seq(Nat) BY ControlsAre
<1>2. Controls(s \o x) = Controls(s) \o Controls(x) BY ControlsAre
<1>3. Len(Controls(s) \o Controls(x)) = Len(Controls(s)) + Len(Controls(x)) BY <1>1, Linked
<1>4. Passed(s) \in Nat /\ Passed(x) \in Nat /\ DOMAIN Controls(s) = 1 .. Passed(s)
  BY <1>1, SeqIs DEF Passed
<1>5. Passed(s \o x) = Passed(s) + Passed(x) BY <1>2, <1>3, Zenon DEF Passed
<1> QED BY <1>4, <1>5

LEMMA PlacesFinite ==
  ASSUME NEW s \in Seq(Nat), NEW I, I \subseteq DOMAIN s
  PROVE  IsFiniteSet(I) /\ Cardinality(I) \in Nat
<1>1. DOMAIN s = 1 .. Len(s) /\ Len(s) \in Int /\ 1 \in Int BY SeqIs
<1>2. IsFiniteSet(1 .. Len(s)) BY <1>1, FS_Interval
<1>3. IsFiniteSet(I) BY <1>1, <1>2, FS_Subset
<1> QED BY <1>3, FS_CardinalityType

LEMMA JoinIs ==
  ASSUME NEW s \in Seq(Nat), NEW x \in Seq(Nat)
  PROVE  /\ s \o x \in Seq(Nat) /\ Len(s) \in Nat /\ Len(x) \in Nat
         /\ Len(s \o x) = Len(s) + Len(x) /\ DOMAIN s = 1 .. Len(s)
         /\ DOMAIN (s \o x) = 1 .. Len(s \o x)
         /\ \A i \in 1 .. Len(s) : /\ (s \o x)[i] = s[i] /\ s[i] \in Nat
                                   /\ SubSeq(s \o x, 1, i) = SubSeq(s, 1, i)
         /\ \A i \in Len(s) + 1 .. Len(s \o x) :
              /\ i - Len(s) \in 1 .. Len(x) /\ (s \o x)[i] = x[i - Len(s)]
              /\ \E y \in Seq(Nat) : SubSeq(s \o x, 1, i) = s \o y
<1>1. s \o x \in Seq(Nat) /\ Len(s \o x) = Len(s) + Len(x) BY Linked
<1>2. Len(s) \in Nat /\ Len(x) \in Nat /\ DOMAIN s = 1 .. Len(s) BY SeqIs
<1>3. DOMAIN (s \o x) = 1 .. Len(s \o x) BY <1>1, SeqIs
<1>4. ASSUME NEW i \in 1 .. Len(s)
      PROVE  /\ (s \o x)[i] = s[i] /\ s[i] \in Nat
             /\ SubSeq(s \o x, 1, i) = SubSeq(s, 1, i)
  <2>1. (s \o x)[i] = s[i] /\ s[i] \in Nat OBVIOUS
  <2>2. 1 \in 1 .. Len(s) BY <1>2
  <2>3. SubSeq(s \o x, 1, i) = SubSeq(s, 1, i) BY <2>2, SubSeqOfConcat1
  <2> QED BY <2>1, <2>3
<1>5. ASSUME NEW i \in Len(s) + 1 .. Len(s \o x)
      PROVE  /\ i - Len(s) \in 1 .. Len(x) /\ (s \o x)[i] = x[i - Len(s)]
             /\ \E y \in Seq(Nat) : SubSeq(s \o x, 1, i) = s \o y
  <2>1. i - Len(s) \in 1 .. Len(x) BY <1>1, <1>2
  <2>2. (s \o x)[i] = x[i - Len(s)] BY <1>1, <1>2, <2>1
  <2> DEFINE y == SubSeq(x, 1, i - Len(s))
  <2>3. y \in Seq(Nat) /\ Len(y) = i - Len(s) /\ \A j \in 1 .. Len(y) : y[j] = x[j]
    BY <2>1
  <2> DEFINE z == SubSeq(s \o x, 1, i)
             w == s \o x
  <2>4. w \in Seq(Nat) /\ i \in 0 .. Len(w) BY <1>1, <1>2
  <2>0. ASSUME NEW j \in 1 .. i PROVE w[j] = IF j <= Len(s) THEN s[j] ELSE x[j - Len(s)]
    <3>1. j \in 1 .. Len(s) + Len(x) BY <1>1, <1>2
    <3> QED BY <1>2, <3>1, ConcatProperties
  <2>5. z \in Seq(Nat) /\ Len(z) = i /\ \A j \in 1 .. i : z[j] = w[j]
    <3> HIDE DEF w
    <3>1. z = SubSeq(w, 1, i) BY DEF w
    <3>2. SubSeq(w, 1, i) \in Seq(Nat) /\ Len(SubSeq(w, 1, i)) = i
          /\ \A j \in 1 .. i : SubSeq(w, 1, i)[j] = w[j]
      BY <2>4
    <3> HIDE DEF z
    <3> QED BY <3>1, <3>2, Zenon
  <2> HIDE DEF y, z
  <2>6. s \o y \in Seq(Nat) /\ Len(s \o y) = i BY <1>2, <2>3, Linked
  <2>7. ASSUME NEW j \in 1 .. i PROVE (s \o y)[j] = IF j <= Len(s) THEN s[j] ELSE y[j - Len(s)]
    <3>1. j \in 1 .. Len(s) + Len(y) BY <1>2, <2>3
    <3> QED BY <1>2, <2>3, <3>1, ConcatProperties
  <2>8. \A j \in 1 .. Len(z) : z[j] = (s \o y)[j]
    <3> SUFFICES ASSUME NEW j \in 1 .. i PROVE z[j] = (s \o y)[j]
      BY <2>5
    <3>1. j > Len(s) => j - Len(s) \in 1 .. Len(y) BY <1>2, <2>3
    <3>2. z[j] = w[j] BY <2>5
    <3>3. CASE j <= Len(s)
      <4>1. w[j] = s[j] BY <2>0, <3>3, Zenon
      <4>2. (s \o y)[j] = s[j] BY <2>7, <3>3, Zenon
      <4> QED BY <3>2, <4>1, <4>2, Zenon
    <3>4. CASE ~(j <= Len(s))
      <4>1. w[j] = x[j - Len(s)] BY <2>0, <3>4, Zenon
      <4>2. (s \o y)[j] = y[j - Len(s)] BY <2>7, <3>4, Zenon
      <4>3. j - Len(s) \in 1 .. Len(y) BY <1>2, <3>1, <3>4
      <4>4. y[j - Len(s)] = x[j - Len(s)] BY <2>3, <4>3, Zenon
      <4> QED BY <3>2, <4>1, <4>2, <4>4, Zenon
    <3> QED BY <3>3, <3>4
  <2>9. z = s \o y BY <2>5, <2>6, <2>8, Same
  <2> QED BY <2>1, <2>2, <2>3, <2>9 DEF z
<1> QED BY <1>1, <1>2, <1>3, <1>4, <1>5

Before(s, k) == {i \in DOMAIN s : Opening(s, i) /\ Passed(SubSeq(s, 1, i)) < k}

LEMMA BeforeIs == \A s, k : StartersBefore(s, k) = Cardinality(Before(s, k))
<1> TAKE s, k
<1>1. {i \in DOMAIN s : /\ ~IsControl(s[i]) /\ Ccc(s[i]) = 0
                        /\ Len(Controls(SubSeq(s, 1, i))) < k} = Before(s, k)
  BY Zenon DEF Before, Opening, Passed
<1> QED BY <1>1, Zenon DEF StartersBefore

(* A text that goes on moves no control that was there. *)
LEMMA StartersStay ==
  ASSUME NEW s \in Seq(Nat), NEW x \in Seq(Nat), NEW k \in 1 .. Passed(s)
  PROVE  StartersBefore(s \o x, k) = StartersBefore(s, k)
<1> DEFINE w == s \o x
<1>0. Passed(s) \in Nat BY PassedIs
<1>1. /\ Len(s) \in Nat /\ Len(x) \in Nat /\ Len(w) = Len(s) + Len(x) /\ DOMAIN s = 1 .. Len(s)
      /\ DOMAIN w = 1 .. Len(w)
      /\ \A i \in 1 .. Len(s) : w[i] = s[i] /\ SubSeq(w, 1, i) = SubSeq(s, 1, i)
      /\ \A i \in Len(s) + 1 .. Len(w) : \E y \in Seq(Nat) : SubSeq(w, 1, i) = s \o y
  BY JoinIs
<1> HIDE DEF w
<1>2. ASSUME NEW i \in 1 .. Len(s)
      PROVE  (Opening(w, i) <=> Opening(s, i)) /\ SubSeq(w, 1, i) = SubSeq(s, 1, i)
  BY <1>1, Zenon DEF Opening
<1>3. ASSUME NEW i \in Len(s) + 1 .. Len(w) PROVE ~(Passed(SubSeq(w, 1, i)) < k)
  <2>1. PICK y \in Seq(Nat) : SubSeq(w, 1, i) = s \o y BY <1>1
  <2>2. Passed(s) <= Passed(s \o y) /\ Passed(s \o y) = Passed(s) + Passed(y) /\ Passed(y) \in Nat
    BY PassedIs
  <2>3. ~(Passed(s \o y) < k) BY <1>0, <2>2
  <2> QED BY <2>1, <2>3, Zenon
<1>4. Before(w, k) = Before(s, k)
  <2>1. \A i \in 1 .. Len(w) : i \in 1 .. Len(s) \/ i \in Len(s) + 1 .. Len(w) BY <1>1
  <2>2. \A i \in 1 .. Len(s) : i \in 1 .. Len(w) BY <1>1
  <2>3. ASSUME NEW i \in Before(w, k) PROVE i \in Before(s, k)
    <3>1. i \in 1 .. Len(w) /\ Opening(w, i) /\ Passed(SubSeq(w, 1, i)) < k
      BY <1>1, Zenon DEF Before
    <3>2. i \in 1 .. Len(s) BY <1>3, <2>1, <3>1, Zenon
    <3> QED BY <1>1, <1>2, <3>1, <3>2, Zenon DEF Before
  <2>4. ASSUME NEW i \in Before(s, k) PROVE i \in Before(w, k)
    <3>1. i \in 1 .. Len(s) /\ Opening(s, i) /\ Passed(SubSeq(s, 1, i)) < k
      BY <1>1, Zenon DEF Before
    <3> QED BY <1>1, <1>2, <2>2, <3>1, Zenon DEF Before
  <2> QED BY <2>3, <2>4
<1>5. StartersBefore(w, k) = StartersBefore(s, k) BY <1>4, BeforeIs, Zenon
<1> QED BY <1>5 DEF w

(* All starters stand before a control that is yet to come. *)
LEMMA StartersAll ==
  ASSUME NEW s \in Seq(Nat), NEW x \in Seq(Controlled), NEW k \in Nat, Passed(s) < k
  PROVE  StartersBefore(s \o x, k) = Starters(s) /\ Starters(s \o x) = Starters(s)
<1> DEFINE w == s \o x
<1>0. Passed(s) \in Nat /\ x \in Seq(Nat) BY PassedIs, ControlsAre
<1>1. /\ Len(s) \in Nat /\ Len(x) \in Nat /\ Len(w) = Len(s) + Len(x) /\ DOMAIN s = 1 .. Len(s)
      /\ DOMAIN w = 1 .. Len(w)
      /\ \A i \in 1 .. Len(s) : w[i] = s[i] /\ SubSeq(w, 1, i) = SubSeq(s, 1, i)
      /\ \A i \in Len(s) + 1 .. Len(w) : i - Len(s) \in 1 .. Len(x) /\ w[i] = x[i - Len(s)]
  BY <1>0, JoinIs
<1> HIDE DEF w
<1>2. ASSUME NEW i \in 1 .. Len(s)
      PROVE  (Opening(w, i) <=> Opening(s, i)) /\ Passed(SubSeq(w, 1, i)) < k
  <2>1. (Opening(w, i) <=> Opening(s, i)) /\ SubSeq(w, 1, i) = SubSeq(s, 1, i)
    BY <1>1, Zenon DEF Opening
  <2> DEFINE a == SubSeq(s, 1, i)
             b == SubSeq(s, i + 1, Len(s))
  <2>2. a \in Seq(Nat) /\ b \in Seq(Nat) /\ s = a \o b
    <3>1. i \in 0 .. Len(s) BY <1>1
    <3>2. a \in Seq(Nat) /\ b \in Seq(Nat) BY <3>1, Split
    <3>3. 1 \in 1 .. Len(s) + 1 /\ i \in 1 - 1 .. Len(s) /\ Len(s) \in i .. Len(s) BY <1>1
    <3>4. a \o b = SubSeq(s, 1, Len(s)) BY <3>3, ConcatAdjacentSubSeq
    <3>5. SubSeq(s, 1, Len(s)) = s BY SubSeqFull
    <3> QED BY <3>2, <3>4, <3>5, Zenon
  <2> HIDE DEF b
  <2>3. Passed(a) <= Passed(s) /\ Passed(a) \in Nat
    <3> HIDE DEF a
    <3> QED BY <2>2, PassedIs
  <2>4. Passed(a) < k BY <1>0, <2>3
  <2> QED BY <2>1, <2>4, Zenon
<1>3. ASSUME NEW i \in Len(s) + 1 .. Len(w) PROVE ~Opening(w, i)
  <2>1. x[i - Len(s)] \in Controlled BY <1>1, SeqIs
  <2> QED BY <1>1, <2>1, Zenon DEF Opening, Controlled
<1>5. \A i \in 1 .. Len(w) : i \in 1 .. Len(s) \/ i \in Len(s) + 1 .. Len(w) BY <1>1
<1>6. \A i \in 1 .. Len(s) : i \in 1 .. Len(w) BY <1>1
<1> DEFINE all == {i \in DOMAIN s : Opening(s, i)}
<1>7. Before(w, k) = all
  <2>1. ASSUME NEW i \in Before(w, k) PROVE i \in all
    <3>1. i \in 1 .. Len(w) /\ Opening(w, i) BY <1>1, Zenon DEF Before
    <3>2. i \in 1 .. Len(s) BY <1>3, <1>5, <3>1, Zenon
    <3> QED BY <1>1, <1>2, <3>1, <3>2, Zenon
  <2>2. ASSUME NEW i \in all PROVE i \in Before(w, k)
    <3>1. i \in 1 .. Len(s) /\ Opening(s, i) BY <1>1, Zenon
    <3> QED BY <1>1, <1>2, <1>6, <3>1, Zenon DEF Before
  <2> HIDE DEF all
  <2> QED BY <2>1, <2>2
<1>8. {i \in DOMAIN w : Opening(w, i)} = all
  <2>1. ASSUME NEW i \in DOMAIN w, Opening(w, i) PROVE i \in all
    <3>1. i \in 1 .. Len(s) BY <1>1, <1>3, <1>5, <2>1, Zenon
    <3> QED BY <1>1, <1>2, <2>1, <3>1, Zenon
  <2>2. ASSUME NEW i \in all PROVE i \in DOMAIN w /\ Opening(w, i)
    <3>1. i \in 1 .. Len(s) /\ Opening(s, i) BY <1>1, Zenon
    <3> QED BY <1>1, <1>2, <1>6, <3>1, Zenon
  <2> HIDE DEF all
  <2> QED BY <2>1, <2>2
<1>9. StartersBefore(w, k) = Cardinality(all) BY <1>7, BeforeIs, Zenon
<1>10. Starters(w) = Cardinality(all) BY <1>8, Zenon DEF Starters
<1>11. Starters(s) = Cardinality(all) BY DEF Starters
<1> QED BY <1>9, <1>10, <1>11, Zenon DEF w

(* Marks are no starters. *)
LEMMA StartersSame ==
  ASSUME NEW s \in Seq(Nat), NEW x \in Seq(Nat),
         \A i \in 1 .. Len(x) : IsControl(x[i]) \/ Ccc(x[i]) # 0
  PROVE  Starters(s \o x) = Starters(s) /\ Starters(s) \in Nat
<1> DEFINE w == s \o x
           all == {i \in DOMAIN s : Opening(s, i)}
<1>1. /\ Len(s) \in Nat /\ Len(x) \in Nat /\ Len(w) = Len(s) + Len(x) /\ DOMAIN s = 1 .. Len(s)
      /\ DOMAIN w = 1 .. Len(w)
      /\ \A i \in 1 .. Len(s) : w[i] = s[i]
      /\ \A i \in Len(s) + 1 .. Len(w) : i - Len(s) \in 1 .. Len(x) /\ w[i] = x[i - Len(s)]
  BY JoinIs
<1> HIDE DEF w
<1>2. \A i \in 1 .. Len(s) : Opening(w, i) <=> Opening(s, i) BY <1>1, Zenon DEF Opening
<1>3. \A i \in Len(s) + 1 .. Len(w) : ~Opening(w, i) BY <1>1, Zenon DEF Opening
<1>5. \A i \in 1 .. Len(w) : i \in 1 .. Len(s) \/ i \in Len(s) + 1 .. Len(w) BY <1>1
<1>6. \A i \in 1 .. Len(s) : i \in 1 .. Len(w) BY <1>1
<1>8. {i \in DOMAIN w : Opening(w, i)} = all
  <2>1. ASSUME NEW i \in DOMAIN w, Opening(w, i) PROVE i \in all
    <3>1. i \in 1 .. Len(s) BY <1>1, <1>3, <1>5, <2>1, Zenon
    <3> QED BY <1>1, <1>2, <2>1, <3>1, Zenon
  <2>2. ASSUME NEW i \in all PROVE i \in DOMAIN w /\ Opening(w, i)
    <3>1. i \in 1 .. Len(s) /\ Opening(s, i) BY <1>1, Zenon
    <3> QED BY <1>1, <1>2, <1>6, <3>1, Zenon
  <2> HIDE DEF all
  <2> QED BY <2>1, <2>2
<1>9. all \subseteq DOMAIN s OBVIOUS
<1> HIDE DEF all
<1>10. Cardinality(all) \in Nat BY <1>9, PlacesFinite
<1>11. Starters(w) = Cardinality(all) /\ Starters(s) = Cardinality(all)
  BY <1>8, Zenon DEF Starters, all
<1> QED BY <1>10, <1>11, Zenon DEF w

LEMMA StartersMore ==
  ASSUME NEW s \in Seq(Nat), NEW c \in Nat, ~IsControl(c), Ccc(c) = 0
  PROVE  Starters(s \o <<c>>) = Starters(s) + 1
<1> DEFINE w == s \o <<c>>
           all == {i \in DOMAIN s : Opening(s, i)}
           n == Len(s)
<1>1. /\ n \in Nat /\ DOMAIN s = 1 .. n /\ DOMAIN w = 1 .. n + 1 /\ w[n + 1] = c
      /\ \A i \in 1 .. n : w[i] = s[i]
  <2>1. w = Append(s, c) BY Appended
  <2>2. DOMAIN s = 1 .. Len(s) /\ Len(s) \in Nat BY SeqIs
  <2>3. /\ Append(s, c) \in Seq(Nat) /\ Len(Append(s, c)) = Len(s) + 1
        /\ Append(s, c)[Len(s) + 1] = c
        /\ \A i \in 1 .. Len(s) : Append(s, c)[i] = s[i]
    BY <2>2
  <2>4. DOMAIN Append(s, c) = 1 .. Len(s) + 1 BY <2>3, SeqIs
  <2> HIDE DEF w
  <2> QED BY <2>1, <2>2, <2>3, <2>4, Zenon
<1>2. all \subseteq DOMAIN s OBVIOUS
<1> HIDE DEF w, n
<1>3. \A i \in 1 .. n : Opening(w, i) <=> Opening(s, i) BY <1>1, Zenon DEF Opening
<1>4. Opening(w, n + 1) BY <1>1, Zenon DEF Opening
<1>5. {i \in DOMAIN w : Opening(w, i)} = all \cup {n + 1}
  <2>1. \A i \in 1 .. n + 1 : i = n + 1 \/ i \in 1 .. n BY <1>1
  <2>2. \A i \in 1 .. n : i \in 1 .. n + 1 BY <1>1
  <2>3. n + 1 \in 1 .. n + 1 BY <1>1
  <2>4. \A i : i \in all <=> i \in 1 .. n /\ Opening(s, i) BY <1>1, Zenon
  <2> HIDE DEF all
  <2> QED BY <1>1, <1>3, <1>4, <2>1, <2>2, <2>3, <2>4
<1> HIDE DEF all
<1>6. IsFiniteSet(all) /\ n + 1 \notin all /\ Cardinality(all) \in Nat
  BY <1>1, <1>2, PlacesFinite
<1>7. Cardinality(all \cup {n + 1}) = Cardinality(all) + 1 BY <1>6, FS_AddElement
<1> QED BY <1>5, <1>7, Zenon DEF Starters, all, w

--------------------------------------------------------------------------------
(* Absorbing a part: it opens a sequence, joins the window, or finds the   *)
(* window full.                                                            *)
Written(e) == e.out \o (Lead(e) \o e.win) \o e.inv

LEMMA SettledAbsorbs ==
  ASSUME NEW e, Settled(e), ~e.seeded => e.starter = Sentinel /\ e.win = <<>>, NEW c \in Atoms
  PROVE  LET f == Absorb(e, c)
         IN /\ Settled(f) /\ f.seeded = TRUE
            /\ \/ f.out = Written(e) /\ f.inv = <<>> /\ f.starter = c
               \/ /\ f.out = Written(e) /\ f.inv = <<>> /\ f.starter = Sentinel /\ Ccc(c) # 0
               \/ f.out = e.out /\ f.inv = e.inv /\ f.starter = e.starter /\ Ccc(c) # 0
<1> DEFINE none == <<>>
<1>1. /\ e \in Engine /\ e.form = "D" /\ e.out \in Seq(Singles) /\ e.inv \in Seq(Controlled)
      /\ e.starter \in Atoms \cup {Sentinel} /\ e.win \in Seq(Marks) /\ e.seeded \in BOOLEAN
      /\ e.out \in Seq(Nat)
  BY EngineIs DEF Settled
<1>2. ~IsControl(c) /\ c \in Leads /\ c # Sentinel BY VisibleAre DEF Atoms
<1>3. none \in Seq(Marks) /\ none \in Seq(Controlled) /\ none \in Seq(Atoms) OBVIOUS
<1>4. CASE ~e.seeded
  <2> DEFINE out == e.out \o e.inv
             f == [e EXCEPT !.out = out, !.inv = none, !.seeded = TRUE, !.starter = c]
  <2>1. Absorb(e, c) = [FlushInv(e) EXCEPT !.seeded = TRUE, !.starter = c]
    BY <1>2, <1>4 DEF Absorb
  <2>2. Absorb(e, c) = f BY <1>1, <2>1 DEF FlushInv, Engine
  <2>3. out \in Seq(Singles)
    <3>1. e.inv \in Seq(Singles) BY <1>1, SinglesAre, Widened
    <3> QED BY <1>1, <3>1, ConcatProperties
  <2>4. out \in Seq(Nat) BY <2>3, SinglesAre, Widened
  <2>5. out = Written(e)
    <3>1. Lead(e) = <<>> /\ e.win = <<>> BY <1>4, Zenon DEF Lead
    <3>2. <<>> \o <<>> = <<>> BY Concat
    <3>3. e.out \o <<>> = e.out BY <1>1, Concat
    <3> QED BY <3>1, <3>2, <3>3, Zenon DEF Written
  <2> HIDE DEF out, none
  <2>6. /\ f \in Engine /\ f.out = out /\ f.inv = none /\ f.starter = c /\ f.seeded = TRUE
        /\ f.win = e.win /\ f.form = "D"
    BY <1>1, <1>2, <1>3, <2>4 DEF Engine
  <2> HIDE DEF f
  <2>7. Settled(f) BY <1>1, <2>3, <2>6, Zenon DEF Settled
  <2> QED BY <2>2, <2>5, <2>6, <2>7, Zenon DEF none
<1>5. CASE e.seeded
  <2> DEFINE z == Finalize(e)
  <2>1. /\ Settled(z) /\ z.out = Written(e) /\ z.inv = none
        /\ z.starter = Sentinel /\ z.win = none /\ z.seeded = e.seeded /\ z.ok = e.ok
    BY SettledFinalizes DEF Written
  <2>2. z \in Engine /\ z.form = "D" /\ z.out \in Seq(Singles) BY <2>1 DEF Settled
  <2> HIDE DEF z, none
  <2>3. CASE Ccc(c) = 0
    <3> DEFINE f == [z EXCEPT !.starter = c]
    <3>1. Absorb(e, c) = NewStarter(e, c) BY <1>2, <1>5, <2>3 DEF Absorb
    <3>2. NewStarter(e, c) = f
      <4>1. e.form # "C" BY <1>1
      <4> QED BY <4>1 DEF NewStarter, z
    <3>3. /\ f \in Engine /\ f.out = z.out /\ f.inv = none /\ f.starter = c /\ f.seeded = e.seeded
          /\ f.win = none /\ f.form = "D"
      BY <1>2, <2>1, <2>2 DEF Engine
    <3> HIDE DEF f
    <3>4. Settled(f) BY <1>3, <2>2, <3>3, Zenon DEF Settled
    <3>5. f.seeded = TRUE BY <1>1, <1>5, <3>3
    <3> QED BY <2>1, <3>1, <3>2, <3>3, <3>4, <3>5, Zenon DEF none
  <2>4. CASE Ccc(c) # 0
    <3>1. Absorb(e, c) = NewMark(e, c) BY <1>2, <1>5, <2>4 DEF Absorb
    <3>2. c \in Marks BY <2>4 DEF Marks
    <3>3. CASE Len(e.win) < Window
      <4> DEFINE win == Insert(e.win, c)
                 f == [e EXCEPT !.win = win]
      <4>1. NewMark(e, c) = f BY <1>1, <3>3 DEF NewMark, Engine
      <4>2. win \in Seq(Marks) BY <1>1, <3>2, InsertMark
      <4>3. win \in Seq(Atoms) BY <4>2, SinglesAre, Widened
      <4> HIDE DEF win
      <4>4. /\ f \in Engine /\ f.out = e.out /\ f.inv = e.inv /\ f.starter = e.starter
            /\ f.seeded = e.seeded /\ f.win = win /\ f.form = "D"
        BY <1>1, <4>3 DEF Engine
      <4> HIDE DEF f
      <4>5. Settled(f) BY <1>1, <4>2, <4>4, Zenon DEF Settled
      <4>6. f.seeded = TRUE BY <1>1, <1>5, <4>4
      <4> QED BY <2>4, <3>1, <4>1, <4>4, <4>5, <4>6, Zenon
    <3>4. CASE ~(Len(e.win) < Window)
      <4> DEFINE win == <<c>>
                 f == [z EXCEPT !.win = win]
      <4>1. NewMark(e, c) = f BY <3>4, Zenon DEF NewMark, z
      <4>2. win \in Seq(Marks) /\ win \in Seq(Atoms) BY <3>2
      <4> HIDE DEF win
      <4>4. /\ f \in Engine /\ f.out = z.out /\ f.inv = none /\ f.starter = Sentinel
            /\ f.seeded = e.seeded /\ f.win = win /\ f.form = "D"
        BY <2>1, <2>2, <4>2 DEF Engine
      <4> HIDE DEF f
      <4>5. Settled(f) BY <2>2, <4>2, <4>4, Zenon DEF Settled
      <4>6. f.seeded = TRUE BY <1>1, <1>5, <4>4
      <4> QED BY <2>1, <2>4, <3>1, <4>1, <4>4, <4>5, <4>6, Zenon DEF none
    <3> QED BY <3>3, <3>4
  <2> QED BY <2>3, <2>4
<1> QED BY <1>4, <1>5

(* ... and with a control. *)
LEMMA ControlWaits ==
  ASSUME NEW e \in Engine, NEW c \in Controlled
  PROVE  LET f == Absorb(e, c)
         IN /\ f \in Engine /\ f.form = e.form /\ f.starter = e.starter /\ f.win = e.win
            /\ f.seeded = e.seeded
            /\ \/ Len(e.inv) < Depth /\ f.out = e.out /\ f.inv = Append(e.inv, c)
               \/ /\ ~(Len(e.inv) < Depth) /\ e.inv # <<>>
                  /\ f.out = Append(e.out, Head(e.inv)) /\ f.inv = Append(Tail(e.inv), c)
<1>1. e.out \in Seq(Nat) /\ e.inv \in Seq(Controlled) BY EngineIs
<1>2. Absorb(e, c) = Hold(e, c)
  <2>1. IsControl(c) BY DEF Controlled
  <2> QED BY <2>1 DEF Absorb
<1>3. CASE Len(e.inv) < Depth
  <2> DEFINE inv == Append(e.inv, c)
             f == [e EXCEPT !.inv = inv]
  <2>1. Hold(e, c) = f BY <1>3 DEF Hold, Engine
  <2>2. inv \in Seq(Controlled) BY <1>1
  <2> HIDE DEF inv
  <2>3. /\ f \in Engine /\ f.out = e.out /\ f.starter = e.starter /\ f.win = e.win
        /\ f.seeded = e.seeded /\ f.form = e.form /\ f.inv = inv
    BY <2>2 DEF Engine
  <2> HIDE DEF f
  <2> QED BY <1>2, <1>3, <2>1, <2>3, Zenon DEF inv
<1>4. CASE ~(Len(e.inv) < Depth)
  <2> DEFINE h == Head(e.inv)
             out == Append(e.out, h)
             inv == Append(Tail(e.inv), c)
             f == [e EXCEPT !.out = out, !.inv = inv]
  <2>1. Hold(e, c) = f BY <1>4 DEF Hold, Engine
  <2>2. e.inv # <<>> BY <1>1, <1>4, FormsAssumption
  <2>3. h \in Controlled /\ Tail(e.inv) \in Seq(Controlled) BY <1>1, <2>2, HeadTailProperties
  <2>4. inv \in Seq(Controlled) BY <2>3
  <2>5. out \in Seq(Nat)
    <3>1. h \in Nat BY <2>3, VisibleAre
    <3> HIDE DEF h
    <3> QED BY <1>1, <3>1
  <2> HIDE DEF out, inv
  <2>6. /\ f \in Engine /\ f.out = out /\ f.starter = e.starter /\ f.win = e.win
        /\ f.seeded = e.seeded /\ f.form = e.form /\ f.inv = inv
    BY <2>4, <2>5 DEF Engine
  <2> HIDE DEF f
  <2> QED BY <1>2, <1>4, <2>1, <2>2, <2>6, Zenon DEF out, inv, h
<1> QED BY <1>3, <1>4

--------------------------------------------------------------------------------
(* What is said of a control that was let out. *)
Kept(out, t, k) ==
  \/ StartersBefore(out, k) = StartersBefore(t, k)
  \/ StartersBefore(out, k) = StartersBefore(t, k) - 1 /\ Company(t, k) > Depth

LEMMA Companions ==
  ASSUME NEW s \in Seq(Nat), NEW I, \A c \in I : c \in 1 .. Passed(s)
  PROVE  IsFiniteSet(I) /\ Cardinality(I) \in Nat
<1>1. Controls(s) \in Seq(Nat) /\ DOMAIN Controls(s) = 1 .. Passed(s) BY ControlsAre, PassedIs
<1>2. I \subseteq DOMAIN Controls(s) BY <1>1
<1> QED BY <1>1, <1>2, PlacesFinite

LEMMA CompanyGrows ==
  ASSUME NEW s \in Seq(Nat), NEW x \in Seq(Nat), NEW k \in 1 .. Passed(s)
  PROVE  Company(s, k) \in Nat /\ Company(s \o x, k) \in Nat /\ Company(s, k) <= Company(s \o x, k)
<1> DEFINE w == s \o x
           A == {c \in DOMAIN Controls(s) : StartersBefore(s, c) = StartersBefore(s, k)}
           B == {c \in DOMAIN Controls(w) : StartersBefore(w, c) = StartersBefore(w, k)}
<1>1. w \in Seq(Nat) /\ <<>> \in Seq(Nat) BY Concat
<1>2. /\ Passed(s) \in Nat /\ Passed(w) \in Nat /\ Passed(s) <= Passed(w)
      /\ DOMAIN Controls(s) = 1 .. Passed(s) /\ DOMAIN Controls(w) = 1 .. Passed(w)
  <2>1. Passed(s) \in Nat /\ Passed(s) <= Passed(w) /\ DOMAIN Controls(s) = 1 .. Passed(s)
    BY PassedIs
  <2> HIDE DEF w
  <2>2. Passed(w) \in Nat /\ DOMAIN Controls(w) = 1 .. Passed(w) BY <1>1, PassedIs
  <2> QED BY <2>1, <2>2
<1>3. \A c \in 1 .. Passed(s) : StartersBefore(w, c) = StartersBefore(s, c) BY StartersStay
<1> HIDE DEF w
<1>4. \A c \in 1 .. Passed(s) : c \in 1 .. Passed(w) BY <1>2
<1>5. A \subseteq B
  <2> SUFFICES ASSUME NEW c \in A PROVE c \in B
    OBVIOUS
  <2>1. c \in 1 .. Passed(s) /\ StartersBefore(s, c) = StartersBefore(s, k) BY <1>2
  <2>2. StartersBefore(w, c) = StartersBefore(w, k) BY <1>3, <2>1
  <2> QED BY <1>2, <1>4, <2>1, <2>2, Zenon
<1>6. \A c \in A : c \in 1 .. Passed(s) BY <1>2
<1>7. \A c \in B : c \in 1 .. Passed(w) BY <1>2
<1>8. Company(s, k) = Cardinality(A) /\ Company(w, k) = Cardinality(B) BY DEF Company
<1> HIDE DEF A, B
<1>9. Cardinality(A) \in Nat BY <1>6, Companions
<1>10. IsFiniteSet(B) /\ Cardinality(B) \in Nat BY <1>1, <1>7, Companions
<1>11. Cardinality(A) <= Cardinality(B) BY <1>5, <1>10, FS_Subset
<1> QED BY <1>8, <1>9, <1>10, <1>11 DEF w

LEMMA CompanyOf ==
  ASSUME NEW s \in Seq(Nat), NEW a \in Nat, NEW m, NEW k \in a + 1 .. Passed(s),
         \A c \in a + 1 .. Passed(s) : StartersBefore(s, c) = m
  PROVE  Company(s, k) \in Nat /\ Passed(s) - a <= Company(s, k)
<1> DEFINE A == a + 1 .. Passed(s)
           B == {c \in DOMAIN Controls(s) : StartersBefore(s, c) = StartersBefore(s, k)}
<1>1. Passed(s) \in Nat /\ DOMAIN Controls(s) = 1 .. Passed(s) /\ a + 1 \in Int /\ Passed(s) \in Int
  BY PassedIs
<1>2. A \subseteq B
  <2> SUFFICES ASSUME NEW c \in A PROVE c \in B
    OBVIOUS
  <2>1. c \in 1 .. Passed(s) BY <1>1
  <2>2. StartersBefore(s, c) = StartersBefore(s, k) OBVIOUS
  <2> QED BY <1>1, <2>1, <2>2, Zenon
<1>3. \A c \in B : c \in 1 .. Passed(s) BY <1>1
<1>4. Cardinality(A) = Passed(s) - a
  <2>1. Cardinality(A) = IF a + 1 > Passed(s) THEN 0 ELSE Passed(s) - (a + 1) + 1
    BY <1>1, FS_Interval
  <2>2. ~(a + 1 > Passed(s)) BY <1>1
  <2> QED BY <1>1, <2>1, <2>2
<1>5. Company(s, k) = Cardinality(B) BY DEF Company
<1> HIDE DEF A, B
<1>6. IsFiniteSet(B) /\ Cardinality(B) \in Nat BY <1>3, Companions
<1>7. Cardinality(A) <= Cardinality(B) BY <1>2, <1>6, FS_Subset
<1> QED BY <1>4, <1>5, <1>6, <1>7

LEMMA BeforeTyped ==
  ASSUME NEW s \in Seq(Nat), NEW k
  PROVE  StartersBefore(s, k) \in Nat /\ Starters(s) \in Nat
<1>1. Before(s, k) \subseteq DOMAIN s BY DEF Before
<1>2. Cardinality(Before(s, k)) \in Nat BY <1>1, PlacesFinite
<1> DEFINE all == {i \in DOMAIN s : Opening(s, i)}
<1>3. all \subseteq DOMAIN s OBVIOUS
<1> HIDE DEF all
<1>4. Cardinality(all) \in Nat BY <1>3, PlacesFinite
<1> QED BY <1>2, <1>4, BeforeIs, Zenon DEF Starters, all

(* It stays true when more is written and read. *)
LEMMA KeptStays ==
  ASSUME NEW o \in Seq(Nat), NEW t \in Seq(Nat), NEW y \in Seq(Nat), NEW x \in Seq(Nat),
         NEW k \in 1 .. Passed(o), k \in 1 .. Passed(t), Kept(o, t, k)
  PROVE  Kept(o \o y, t \o x, k)
<1>1. StartersBefore(o \o y, k) = StartersBefore(o, k) BY StartersStay
<1>2. StartersBefore(t \o x, k) = StartersBefore(t, k) BY StartersStay
<1>3. Company(t, k) \in Nat /\ Company(t \o x, k) \in Nat /\ Company(t, k) <= Company(t \o x, k)
  BY CompanyGrows
<1>4. Company(t, k) > Depth => Company(t \o x, k) > Depth BY <1>3, FormsAssumption
<1> QED BY <1>1, <1>2, <1>4, Zenon DEF Kept

(* The controls of the parted text t, those that were let out and those    *)
(* that wait.                                                              *)
Extra(e) == IF e.starter # Sentinel /\ Ccc(e.starter) = 0 THEN 1 ELSE 0

Placed(e, t) ==
  /\ Settled(e) /\ t \in Seq(Nat) /\ Len(e.inv) <= Depth
  /\ ~e.seeded => e.starter = Sentinel /\ e.win = <<>>
  /\ Controls(e.out) \o e.inv = Controls(t)
  /\ Starters(e.out) + Extra(e) = Starters(t)
  /\ \A k \in 1 .. Passed(e.out) : Kept(e.out, t, k)
  /\ \A k \in Passed(e.out) + 1 .. Passed(t) : StartersBefore(t, k) = Starters(t)

LEMMA PlacedIs ==
  ASSUME NEW e, NEW t, Placed(e, t)
  PROVE  /\ Settled(e) /\ t \in Seq(Nat) /\ e \in Engine /\ e.out \in Seq(Nat)
         /\ e.inv \in Seq(Controlled) /\ e.inv \in Seq(Nat) /\ Len(e.inv) \in Nat
         /\ Lead(e) \in Seq(Atoms) /\ e.win \in Seq(Marks) /\ Lead(e) \o e.win \in Seq(Atoms)
         /\ Passed(e.out) \in Nat /\ Passed(t) = Passed(e.out) + Len(e.inv)
         /\ Starters(e.out) \in Nat /\ Starters(t) \in Nat
         /\ e.starter \in Atoms \cup {Sentinel} /\ e.seeded \in BOOLEAN
<1>1. Settled(e) /\ t \in Seq(Nat) /\ Controls(e.out) \o e.inv = Controls(t) BY DEF Placed
<1>2. e \in Engine /\ e.out \in Seq(Nat) /\ e.inv \in Seq(Controlled) /\ e.seeded \in BOOLEAN
  BY <1>1, EngineIs DEF Settled
<1>3. e.inv \in Seq(Nat) /\ Len(e.inv) \in Nat BY <1>2, ControlsAre, SeqIs
<1>4. Lead(e) \in Seq(Atoms) /\ Lead(e) \o e.win \in Seq(Atoms) BY <1>1, SequenceWhole
<1>5. e.win \in Seq(Marks) /\ e.starter \in Atoms \cup {Sentinel} BY <1>1 DEF Settled
<1>6. Controls(e.out) \in Seq(Nat) BY <1>2, ControlsAre
<1>7. Len(Controls(e.out) \o e.inv) = Len(Controls(e.out)) + Len(e.inv) BY <1>3, <1>6, Linked
<1>8. Passed(t) = Passed(e.out) + Len(e.inv) BY <1>1, <1>7, Zenon DEF Passed
<1>9. Passed(e.out) \in Nat BY <1>2, PassedIs
<1>10. Starters(e.out) \in Nat /\ Starters(t) \in Nat BY <1>1, <1>2, BeforeTyped
<1> QED BY <1>1, <1>2, <1>3, <1>4, <1>5, <1>8, <1>9, <1>10

LEMMA StarterCounts ==
  ASSUME NEW o \in Seq(Nat), NEW c \in Visible
  PROVE  Starters(o \o <<c>>) = Starters(o) + (IF Ccc(c) = 0 THEN 1 ELSE 0)
<1>1. c \in Nat /\ ~IsControl(c) /\ <<c>> \in Seq(Nat) BY DEF Visible
<1>2. CASE Ccc(c) = 0 BY <1>1, <1>2, StartersMore
<1>3. CASE Ccc(c) # 0
  <2> DEFINE x == <<c>>
  <2>1. \A i \in 1 .. Len(x) : x[i] = c OBVIOUS
  <2>2. x \in Seq(Nat) /\ \A i \in 1 .. Len(x) : IsControl(x[i]) \/ Ccc(x[i]) # 0
    BY <1>1, <1>3, <2>1
  <2> HIDE DEF x
  <2>3. Starters(o \o x) = Starters(o) /\ Starters(o) \in Nat BY <2>2, StartersSame
  <2>4. Starters(o \o x) = Starters(o) + 0 BY <2>3
  <2> QED BY <1>3, <2>4, Zenon DEF x
<1> QED BY <1>2, <1>3

(* What a sequence writes leaves every control where it should be. *)
LEMMA WritingPlaces ==
  ASSUME NEW e, NEW t, Placed(e, t)
  PROVE  LET o == Written(e)
         IN /\ o \in Seq(Nat) /\ Controls(o) = Controls(t) /\ Passed(o) = Passed(t)
            /\ Starters(o) = Starters(t)
            /\ \A k \in 1 .. Passed(t) : Kept(o, t, k)
<1> DEFINE l == Lead(e)
           w == e.win
           a == l \o w
           b == e.out \o a
           o == b \o e.inv
<1>1. /\ t \in Seq(Nat) /\ e.out \in Seq(Nat) /\ e.inv \in Seq(Controlled) /\ e.inv \in Seq(Nat)
      /\ Len(e.inv) \in Nat /\ l \in Seq(Atoms) /\ w \in Seq(Marks) /\ a \in Seq(Atoms)
      /\ Passed(e.out) \in Nat /\ Passed(t) = Passed(e.out) + Len(e.inv)
      /\ Starters(e.out) \in Nat /\ Starters(t) \in Nat /\ Settled(e)
  BY PlacedIs
<1>2. o = Written(e) BY DEF Written
<1>3. /\ a \in Seq(Visible) /\ a \in Seq(Nat) /\ Controls(a) = <<>>
      /\ l \in Seq(Nat) /\ w \in Seq(Nat)
  <2> HIDE DEF a, l, w
  <2>1. Atoms \subseteq Visible /\ Marks \subseteq Nat /\ Atoms \subseteq Nat
    BY VisibleAre, SinglesAre
  <2> QED BY <1>1, <2>1, Widened, ControlsAre
<1>4. l = IF e.starter = Sentinel THEN <<>> ELSE <<e.starter>> BY <1>1, SequenceWhole
<1> DEFINE p == e.out
           n == e.inv
<1>5. /\ Controls(p) \o n = Controls(t) /\ Starters(p) + Extra(e) = Starters(t)
      /\ \A k \in 1 .. Passed(p) : Kept(p, t, k)
      /\ \A k \in Passed(p) + 1 .. Passed(t) : StartersBefore(t, k) = Starters(t)
  BY DEF Placed
<1>6. /\ p \in Seq(Nat) /\ n \in Seq(Controlled) /\ n \in Seq(Nat) /\ Len(n) \in Nat
      /\ Passed(p) \in Nat /\ Passed(t) = Passed(p) + Len(n)
  BY <1>1
<1>7. b = p \o a /\ o = b \o n /\ a = l \o w OBVIOUS
<1>16. w \in Seq(Marks) BY <1>1
<1>17. e.starter # Sentinel => e.starter \in Visible
  <2>1. e.starter \in Atoms \cup {Sentinel} BY PlacedIs
  <2> QED BY <2>1, VisibleAre
<1> HIDE DEF l, w, a, b, o, p, n
<1>8. b \in Seq(Nat) /\ o \in Seq(Nat) BY <1>3, <1>6, <1>7, Linked
<1>9. Controls(b) = Controls(p)
  <2>1. Controls(p) \in Seq(Nat) BY <1>6, ControlsAre
  <2>2. Controls(p \o a) = Controls(p) \o Controls(a) BY <1>3, <1>6, ControlsAre, Zenon
  <2>3. Controls(p) \o <<>> = Controls(p) BY <2>1, Concat
  <2> QED BY <1>3, <1>7, <2>2, <2>3, Zenon
<1>10. Controls(o) = Controls(t)
  <2>1. Controls(b \o n) = Controls(b) \o Controls(n) /\ Controls(n) = n
    BY <1>6, <1>8, ControlsAre, Zenon
  <2> QED BY <1>5, <1>7, <1>9, <2>1, Zenon
<1>11. Passed(o) = Passed(t) /\ Passed(b) = Passed(p) BY <1>9, <1>10, Zenon DEF Passed
<1>12. Starters(b) = Starters(t)
  <2>1. Starters(p \o l) = Starters(t) /\ p \o l \in Seq(Nat)
    <3>1. p \o l \in Seq(Nat) BY <1>3, <1>6, Linked
    <3>2. CASE e.starter = Sentinel
      <4>1. l = <<>> BY <1>4, <3>2
      <4>2. p \o <<>> = p BY <1>6, Concat
      <4>3. Extra(e) = 0 BY <3>2 DEF Extra
      <4>4. Starters(p) \in Nat BY <1>6, BeforeTyped
      <4>5. Starters(p) = Starters(t) BY <1>5, <4>3, <4>4
      <4> QED BY <3>1, <4>1, <4>2, <4>5, Zenon
    <3>3. CASE e.starter # Sentinel
      <4>1. l = <<e.starter>> BY <1>4, <3>3
      <4>2. e.starter \in Visible BY <1>17, <3>3
      <4>3. Extra(e) = IF Ccc(e.starter) = 0 THEN 1 ELSE 0 BY <3>3, Zenon DEF Extra
      <4>4. Starters(p \o <<e.starter>>) = Starters(p) + (IF Ccc(e.starter) = 0 THEN 1 ELSE 0)
        BY <1>6, <4>2, StarterCounts
      <4> QED BY <1>5, <3>1, <4>1, <4>3, <4>4, Zenon
    <3> QED BY <3>2, <3>3
  <2>2. \A i \in 1 .. Len(w) : IsControl(w[i]) \/ Ccc(w[i]) # 0
    <3>1. \A i \in 1 .. Len(w) : w[i] \in Marks BY <1>16, SeqIs
    <3> QED BY <3>1 DEF Marks
  <2>3. Starters((p \o l) \o w) = Starters(p \o l) BY <1>3, <2>1, <2>2, StartersSame
  <2>4. (p \o l) \o w = p \o (l \o w) BY <1>3, <1>6, Regroup
  <2> QED BY <1>7, <2>1, <2>3, <2>4, Zenon
<1>13. Starters(o) = Starters(t)
  <2>1. Passed(b) < Passed(b) + 1 /\ Passed(b) + 1 \in Nat BY <1>6, <1>11
  <2>2. Starters(b \o n) = Starters(b) BY <1>6, <1>8, <2>1, StartersAll
  <2> QED BY <1>7, <1>12, <2>2, Zenon
<1>14. ASSUME NEW k \in 1 .. Passed(t) PROVE Kept(o, t, k)
  <2>1. CASE k \in 1 .. Passed(p)
    <3>1. Kept(p, t, k) BY <1>5, <2>1
    <3>2. a \o n \in Seq(Nat) /\ <<>> \in Seq(Nat) BY <1>3, <1>6, Linked, Concat
    <3>3. Kept(p \o (a \o n), t \o <<>>, k)
      <4> HIDE DEF Kept
      <4> QED BY <1>1, <1>6, <2>1, <3>1, <3>2, KeptStays
    <3>4. o = p \o (a \o n)
      <4>1. (p \o a) \o n = p \o (a \o n) BY <1>3, <1>6, Regroup
      <4> QED BY <1>7, <4>1, Zenon
    <3>5. t \o <<>> = t BY <1>1, Concat
    <3> QED BY <3>3, <3>4, <3>5, Zenon
  <2>2. CASE k \notin 1 .. Passed(p)
    <3>1. k \in Passed(p) + 1 .. Passed(t) /\ Passed(b) < k /\ k \in Nat BY <1>6, <1>11, <2>2
    <3>2. StartersBefore(t, k) = Starters(t) BY <1>5, <3>1
    <3>3. StartersBefore(b \o n, k) = Starters(b) BY <1>6, <1>8, <3>1, StartersAll
    <3>4. StartersBefore(o, k) = StartersBefore(t, k) BY <1>7, <1>12, <3>2, <3>3, Zenon
    <3> QED BY <3>4, Zenon DEF Kept
  <2> QED BY <2>1, <2>2
<1> QED BY <1>2, <1>8, <1>10, <1>11, <1>13, <1>14, Zenon

(* A visible codepoint that is read moves no control. *)
LEMMA ReadingPlaces ==
  ASSUME NEW o \in Seq(Nat), NEW t \in Seq(Nat), NEW c \in Visible, Passed(o) <= Passed(t),
         \A k \in 1 .. Passed(o) : Kept(o, t, k)
  PROVE  /\ t \o <<c>> \in Seq(Nat) /\ Controls(t \o <<c>>) = Controls(t)
         /\ Passed(t \o <<c>>) = Passed(t)
         /\ \A k \in 1 .. Passed(o) : Kept(o, t \o <<c>>, k)
         /\ \A k \in 1 .. Passed(t) : StartersBefore(t \o <<c>>, k) = StartersBefore(t, k)
<1> DEFINE x == <<c>>
<1>1. x \in Seq(Visible) OBVIOUS
<1> HIDE DEF x
<1>2. x \in Seq(Nat) /\ Controls(x) = <<>> BY <1>1, ControlsAre
<1>3. t \o x \in Seq(Nat) BY <1>2, Linked
<1>4. Controls(t \o x) = Controls(t) \o Controls(x) /\ Controls(t) \in Seq(Nat)
  BY <1>2, ControlsAre, Zenon
<1>5. Controls(t) \o <<>> = Controls(t) BY <1>4, Concat
<1>6. Controls(t \o x) = Controls(t) BY <1>2, <1>4, <1>5, Zenon
<1>7. Passed(t \o x) = Passed(t) BY <1>6, Zenon DEF Passed
<1>8. ASSUME NEW k \in 1 .. Passed(o) PROVE Kept(o, t \o x, k)
  <2>0. Passed(o) \in Nat /\ Passed(t) \in Nat BY PassedIs
  <2>1. k \in 1 .. Passed(t) BY <2>0
  <2>2. Kept(o, t, k) /\ <<>> \in Seq(Nat) BY Concat
  <2>3. Kept(o \o <<>>, t \o x, k)
    <3> HIDE DEF Kept
    <3> QED BY <1>2, <2>1, <2>2, KeptStays
  <2>4. o \o <<>> = o BY Concat
  <2> QED BY <2>3, <2>4, Zenon
<1>9. \A k \in 1 .. Passed(t) : StartersBefore(t \o x, k) = StartersBefore(t, k)
  BY <1>2, StartersStay
<1> QED BY <1>3, <1>6, <1>7, <1>8, <1>9 DEF x

LEMMA PartPlaces ==
  ASSUME NEW e, NEW t, Placed(e, t), NEW c \in Atoms
  PROVE  Placed(Absorb(e, c), t \o <<c>>) /\ Absorb(e, c).seeded = TRUE
<1> DEFINE f == Absorb(e, c)
           o == Written(e)
           v == t \o <<c>>
           one == IF Ccc(c) = 0 THEN 1 ELSE 0
<1>1. c \in Visible /\ c # Sentinel BY VisibleAre
<1>2. /\ Settled(f) /\ f.seeded = TRUE
      /\ \/ f.out = o /\ f.inv = <<>> /\ f.starter = c
         \/ f.out = o /\ f.inv = <<>> /\ f.starter = Sentinel /\ Ccc(c) # 0
         \/ f.out = e.out /\ f.inv = e.inv /\ f.starter = e.starter /\ Ccc(c) # 0
  <2>1. Settled(e) /\ (~e.seeded => e.starter = Sentinel /\ e.win = <<>>) BY DEF Placed
  <2> QED BY <2>1, SettledAbsorbs, Zenon
<1>3. /\ o \in Seq(Nat) /\ Controls(o) = Controls(t) /\ Passed(o) = Passed(t)
      /\ Starters(o) = Starters(t) /\ \A k \in 1 .. Passed(t) : Kept(o, t, k)
  BY WritingPlaces
<1>4. /\ t \in Seq(Nat) /\ e.out \in Seq(Nat) /\ Passed(e.out) \in Nat /\ Passed(t) \in Nat
      /\ Passed(e.out) <= Passed(t) /\ Starters(t) \in Nat /\ Controls(t) \in Seq(Nat)
  <2>1. /\ t \in Seq(Nat) /\ e.out \in Seq(Nat) /\ Passed(e.out) \in Nat /\ Starters(t) \in Nat
        /\ Len(e.inv) \in Nat /\ Passed(t) = Passed(e.out) + Len(e.inv)
    BY PlacedIs
  <2>2. Controls(t) \in Seq(Nat) BY <2>1, ControlsAre
  <2>3. Passed(t) \in Nat /\ Passed(e.out) <= Passed(t) BY <2>1
  <2> QED BY <2>1, <2>2, <2>3, Zenon
<1>5. Starters(v) = Starters(t) + one BY <1>1, <1>4, StarterCounts
<1> HIDE DEF f, o
<1>6. /\ v \in Seq(Nat) /\ Controls(v) = Controls(t) /\ Passed(v) = Passed(t)
      /\ \A k \in 1 .. Passed(o) : Kept(o, v, k)
  <2>1. Passed(o) <= Passed(t) BY <1>3, <1>4
  <2>2. \A k \in 1 .. Passed(o) : Kept(o, t, k) BY <1>3, Zenon
  <2> QED BY <1>1, <1>3, <1>4, <2>1, <2>2, ReadingPlaces
<1>7. ASSUME f.out = o, f.inv = <<>>, f.starter = c \/ (f.starter = Sentinel /\ Ccc(c) # 0)
      PROVE  Placed(f, v)
  <2>1. Extra(f) = one
    <3>1. CASE f.starter = c BY <1>1, <3>1, Zenon DEF Extra
    <3>2. CASE f.starter = Sentinel /\ Ccc(c) # 0 BY <3>2, Zenon DEF Extra
    <3> QED BY <1>7, <3>1, <3>2
  <2>2. Controls(f.out) \o f.inv = Controls(v)
    <3>1. Controls(t) \o <<>> = Controls(t) BY <1>4, Concat
    <3> QED BY <1>3, <1>6, <1>7, <3>1, Zenon
  <2>3. Len(f.inv) <= Depth
    <3>1. Len(<<>>) = 0 OBVIOUS
    <3>2. 0 <= Depth BY FormsAssumption
    <3> QED BY <1>7, <3>1, <3>2, Zenon
  <2>4. Starters(f.out) + Extra(f) = Starters(v) BY <1>3, <1>5, <1>7, <2>1, Zenon
  <2>5. \A k \in Passed(f.out) + 1 .. Passed(v) : StartersBefore(v, k) = Starters(v)
    <3>1. Passed(f.out) = Passed(t) BY <1>3, <1>7, Zenon
    <3>2. \A k \in Passed(f.out) + 1 .. Passed(v) : FALSE BY <1>4, <1>6, <3>1
    <3> QED BY <3>2, Zenon
  <2>6. \A k \in 1 .. Passed(f.out) : Kept(f.out, v, k) BY <1>6, <1>7, Zenon
  <2> HIDE DEF v, one
  <2> QED BY <1>2, <1>6, <2>2, <2>3, <2>4, <2>5, <2>6, Zenon DEF Placed
<1>8. ASSUME f.out = e.out, f.inv = e.inv, f.starter = e.starter, Ccc(c) # 0
      PROVE  Placed(f, v)
  <2>0. /\ Len(e.inv) <= Depth /\ Controls(e.out) \o e.inv = Controls(t)
        /\ Starters(e.out) + Extra(e) = Starters(t)
        /\ \A k \in 1 .. Passed(e.out) : Kept(e.out, t, k)
        /\ \A k \in Passed(e.out) + 1 .. Passed(t) : StartersBefore(t, k) = Starters(t)
    BY DEF Placed
  <2>1. Extra(f) = Extra(e) BY <1>8, Zenon DEF Extra
  <2>2. Starters(v) = Starters(t) BY <1>4, <1>5, <1>8
  <2>3. /\ \A k \in 1 .. Passed(e.out) : Kept(e.out, v, k)
        /\ \A k \in 1 .. Passed(t) : StartersBefore(v, k) = StartersBefore(t, k)
    BY <1>1, <1>4, <2>0, ReadingPlaces
  <2>4. \A k \in Passed(e.out) + 1 .. Passed(t) : k \in 1 .. Passed(t) BY <1>4
  <2> HIDE DEF v, one
  <2>5. \A k \in Passed(f.out) + 1 .. Passed(v) : StartersBefore(v, k) = Starters(v)
    BY <1>6, <1>8, <2>0, <2>2, <2>3, <2>4, Zenon
  <2> QED BY <1>2, <1>6, <1>8, <2>0, <2>1, <2>2, <2>3, <2>5, Zenon DEF Placed
<1>9. Placed(f, v)
  <2>1. \/ f.out = o /\ f.inv = <<>> /\ (f.starter = c \/ (f.starter = Sentinel /\ Ccc(c) # 0))
        \/ f.out = e.out /\ f.inv = e.inv /\ f.starter = e.starter /\ Ccc(c) # 0
    BY <1>2, Zenon
  <2> HIDE DEF v
  <2> QED BY <1>7, <1>8, <2>1, Zenon
<1> QED BY <1>2, <1>9, Zenon DEF f, v

LEMMA ControlPlaces ==
  ASSUME NEW e, NEW t, Placed(e, t), NEW c \in Controlled
  PROVE  Placed(Absorb(e, c), t \o <<c>>)
<1> DEFINE f == Absorb(e, c)
           x == <<c>>
           v == t \o x
           p == e.out
           n == e.inv
<1>0. x \in Seq(Controlled) OBVIOUS
<1>1. /\ t \in Seq(Nat) /\ p \in Seq(Nat) /\ n \in Seq(Controlled) /\ n \in Seq(Nat)
      /\ Len(n) \in Nat /\ Passed(p) \in Nat /\ Passed(t) = Passed(p) + Len(n)
      /\ Starters(p) \in Nat /\ Starters(t) \in Nat /\ Settled(e) /\ e \in Engine
  BY PlacedIs
<1>2. /\ Len(n) <= Depth /\ Controls(p) \o n = Controls(t)
      /\ Starters(p) + Extra(e) = Starters(t)
      /\ \A k \in 1 .. Passed(p) : Kept(p, t, k)
      /\ \A k \in Passed(p) + 1 .. Passed(t) : StartersBefore(t, k) = Starters(t)
      /\ ~e.seeded => e.starter = Sentinel /\ e.win = <<>>
  BY DEF Placed
<1>3. /\ f \in Engine /\ f.form = e.form /\ f.starter = e.starter /\ f.win = e.win
      /\ f.seeded = e.seeded
      /\ \/ Len(n) < Depth /\ f.out = p /\ f.inv = Append(n, c)
         \/ /\ ~(Len(n) < Depth) /\ n # <<>>
            /\ f.out = Append(p, Head(n)) /\ f.inv = Append(Tail(n), c)
  BY <1>1, ControlWaits
<1> HIDE DEF f, p, n, x
<1>4. x \in Seq(Nat) /\ Controls(x) = x /\ c \in Nat /\ x = <<c>>
  <2>1. c \in Nat BY VisibleAre
  <2> QED BY <1>0, <2>1, ControlsAre DEF x
<1>5. v \in Seq(Nat) /\ Controls(v) = Controls(t) \o x /\ Controls(t) \in Seq(Nat)
  <2>1. Controls(t \o x) = Controls(t) \o Controls(x) BY <1>1, <1>4, ControlsAre, Zenon
  <2>2. t \o x \in Seq(Nat) BY <1>1, <1>4, Linked
  <2> QED BY <1>1, <1>4, <2>1, <2>2, ControlsAre, Zenon
<1>6. Passed(v) = Passed(t) + 1
  <2>1. Len(Controls(t) \o x) = Len(Controls(t)) + Len(x) BY <1>4, <1>5, Linked
  <2>2. Len(x) = 1 BY <1>4
  <2> QED BY <1>5, <2>1, <2>2, Zenon DEF Passed
<1>7. /\ Starters(v) = Starters(t)
      /\ \A k \in Passed(p) + 1 .. Passed(v) : StartersBefore(v, k) = Starters(v)
  <2>1. Passed(t) \in Nat /\ Passed(t) + 1 \in Nat /\ Passed(t) < Passed(t) + 1 BY <1>1
  <2>2. Starters(v) = Starters(t) /\ StartersBefore(v, Passed(t) + 1) = Starters(t)
    BY <1>0, <1>1, <2>1, StartersAll
  <2>3. \A k \in 1 .. Passed(t) : StartersBefore(v, k) = StartersBefore(t, k)
    BY <1>1, <1>4, StartersStay
  <2>4. \A k \in Passed(p) + 1 .. Passed(v) :
          k = Passed(t) + 1 \/ (k \in 1 .. Passed(t) /\ k \in Passed(p) + 1 .. Passed(t))
    <3> HIDE DEF v
    <3>1. Passed(p) \in Nat /\ Passed(t) \in Nat BY <1>1
    <3> QED BY <1>6, <3>1
  <2> HIDE DEF v
  <2> QED BY <1>2, <2>2, <2>3, <2>4, Zenon
<1>8. \A y \in Seq(Nat) : \A k \in 1 .. Passed(p) : Kept(p \o y, v, k)
  <2> SUFFICES ASSUME NEW y \in Seq(Nat), NEW k \in 1 .. Passed(p) PROVE Kept(p \o y, v, k)
    OBVIOUS
  <2>1. k \in 1 .. Passed(t) /\ Kept(p, t, k) BY <1>1, <1>2
  <2> HIDE DEF Kept
  <2> QED BY <1>1, <1>4, <2>1, KeptStays
<1>9. /\ f.form = "D" /\ f.starter \in Atoms \cup {Sentinel} /\ f.win \in Seq(Marks)
      /\ p \in Seq(Singles) /\ Extra(f) = Extra(e)
      /\ ~f.seeded => f.starter = Sentinel /\ f.win = <<>>
  <2>1. /\ e.form = "D" /\ e.starter \in Atoms \cup {Sentinel} /\ e.win \in Seq(Marks)
        /\ p \in Seq(Singles)
    BY <1>1 DEF Settled, p
  <2>2. Extra(f) = Extra(e) BY <1>3, Zenon DEF Extra
  <2> QED BY <1>2, <1>3, <2>1, <2>2, Zenon
<1>10. CASE Len(n) < Depth /\ f.out = p /\ f.inv = Append(n, c)
  <2>1. Append(n, c) = n \o x /\ Len(Append(n, c)) = Len(n) + 1
    <3>1. Append(n, c) = n \o x BY <1>1, <1>4, Appended, Zenon
    <3>2. Len(Append(n, c)) = Len(n) + 1 BY <1>1, <1>4
    <3> QED BY <3>1, <3>2
  <2>2. Len(f.inv) <= Depth
    <3>1. Len(n) + 1 <= Depth BY <1>1, <1>10, FormsAssumption
    <3> QED BY <1>10, <2>1, <3>1, Zenon
  <2>3. Controls(f.out) \o f.inv = Controls(v)
    <3>1. Controls(p) \in Seq(Nat) BY <1>1, ControlsAre
    <3>2. (Controls(p) \o n) \o x = Controls(p) \o (n \o x) BY <1>1, <1>4, <3>1, Regroup
    <3> QED BY <1>2, <1>5, <1>10, <2>1, <3>2, Zenon
  <2>4. \A k \in 1 .. Passed(p) : Kept(p, v, k)
    <3>1. p \o <<>> = p /\ <<>> \in Seq(Nat) BY <1>1, Concat
    <3> QED BY <1>8, <3>1, Zenon
  <2>5. Starters(f.out) + Extra(f) = Starters(v) BY <1>2, <1>7, <1>9, <1>10, Zenon
  <2>6. Settled(f) BY <1>3, <1>9, <1>10, Zenon DEF Settled
  <2> HIDE DEF v
  <2>7. Placed(f, v) BY <1>5, <1>7, <1>9, <1>10, <2>2, <2>3, <2>4, <2>5, <2>6, Zenon DEF Placed
  <2> QED BY <2>7 DEF f, v, x
<1>11. CASE /\ ~(Len(n) < Depth) /\ n # <<>>
            /\ f.out = Append(p, Head(n)) /\ f.inv = Append(Tail(n), c)
  <2> DEFINE h == Head(n)
             r == Tail(n)
             y == <<h>>
             o == p \o y
  <2>1. /\ h \in Controlled /\ r \in Seq(Controlled) /\ Len(r) = Len(n) - 1 /\ n = <<h>> \o r
    <3>1. h \in Controlled /\ r \in Seq(Controlled) /\ Len(r) = Len(n) - 1
      BY <1>1, <1>11, HeadTailProperties
    <3>2. n = <<h>> \o r BY <1>1, <1>11
    <3> QED BY <3>1, <3>2
  <2> HIDE DEF h, r
  <2>2. y \in Seq(Controlled) BY <2>1
  <2>3. h \in Nat /\ r \in Seq(Nat) /\ y \in Seq(Nat) /\ Controls(y) = y /\ Len(y) = 1
    <3>1. h \in Nat /\ r \in Seq(Nat) BY <2>1, VisibleAre, ControlsAre
    <3>2. Len(y) = 1 OBVIOUS
    <3> HIDE DEF y
    <3> QED BY <2>2, <3>1, <3>2, ControlsAre
  <2>4. f.out = o /\ f.inv = Append(r, c) BY <1>1, <1>11, <2>3, Appended, Zenon DEF h, r
  <2>5. n = y \o r BY <2>1
  <2>6. Append(r, c) = r \o x /\ Len(Append(r, c)) = Len(r) + 1
    <3>1. Append(r, c) = r \o x BY <1>4, <2>3, Appended, Zenon
    <3>2. Len(Append(r, c)) = Len(r) + 1 BY <1>4, <2>3
    <3> QED BY <3>1, <3>2
  <2> HIDE DEF y, o
  <2>7. o \in Seq(Nat) /\ Controls(o) = Controls(p) \o y /\ Controls(p) \in Seq(Nat)
    <3>1. o = p \o y BY DEF o
    <3>2. p \o y \in Seq(Nat) /\ Controls(p \o y) = Controls(p) \o Controls(y)
      BY <1>1, <2>3, Linked, ControlsAre
    <3> QED BY <1>1, <2>3, <3>1, <3>2, ControlsAre, Zenon
  <2>8. Passed(o) = Passed(p) + 1
    <3>1. Len(Controls(p) \o y) = Len(Controls(p)) + Len(y) BY <2>3, <2>7, Linked
    <3> QED BY <2>3, <2>7, <3>1, Zenon DEF Passed
  <2>9. Len(f.inv) <= Depth
    <3>1. Len(f.inv) = Len(n)
      <4>1. Len(f.inv) = Len(n) - 1 + 1 BY <2>1, <2>4, <2>6, Zenon
      <4> QED BY <1>1, <4>1
    <3> QED BY <1>2, <3>1, Zenon
  <2>10. Controls(f.out) \o f.inv = Controls(v)
    <3>1. r \o x \in Seq(Nat) BY <1>4, <2>3, Linked
    <3>2. (Controls(p) \o y) \o (r \o x) = Controls(p) \o (y \o (r \o x))
      BY <2>3, <2>7, <3>1, Regroup
    <3>3. (y \o r) \o x = y \o (r \o x) BY <1>4, <2>3, Regroup
    <3>4. (Controls(p) \o n) \o x = Controls(p) \o (n \o x)
      <4>1. Controls(p) \in Seq(Nat) /\ n \in Seq(Nat) /\ x \in Seq(Nat) BY <1>1, <1>4, <2>7, Zenon
      <4> HIDE DEF v
      <4> QED BY <4>1, Regroup
    <3> QED BY <1>2, <1>5, <2>4, <2>5, <2>6, <2>7, <3>2, <3>3, <3>4, Zenon
  <2>11. Starters(o) = Starters(p) /\ StartersBefore(o, Passed(p) + 1) = Starters(p)
    <3>1. Passed(p) < Passed(p) + 1 /\ Passed(p) + 1 \in Nat BY <1>1
    <3>2. /\ StartersBefore(p \o y, Passed(p) + 1) = Starters(p)
          /\ Starters(p \o y) = Starters(p)
      BY <1>1, <2>2, <3>1, StartersAll
    <3> QED BY <3>2 DEF o
  <2>12. Kept(o, v, Passed(p) + 1)
    <3>1. Len(n) = Depth /\ Depth \in Nat /\ Depth # 0 BY <1>1, <1>2, <1>11, FormsAssumption
    <3>2. Passed(p) + 1 \in Passed(p) + 1 .. Passed(v) BY <1>1, <1>6, <3>1
    <3>3. StartersBefore(v, Passed(p) + 1) = Starters(t) BY <1>7, <3>2, Zenon
    <3>4. Passed(v) - Passed(p) <= Company(v, Passed(p) + 1) /\ Company(v, Passed(p) + 1) \in Nat
      BY <1>1, <1>5, <1>7, <3>2, CompanyOf
    <3>5. Company(v, Passed(p) + 1) > Depth
      <4> DEFINE m == Company(v, Passed(p) + 1)
      <4>1. m \in Nat /\ Passed(v) - Passed(p) <= m BY <3>4
      <4> HIDE DEF m, v
      <4>2. m > Depth BY <1>1, <1>6, <3>1, <4>1
      <4> QED BY <4>2 DEF m
    <3>6. Extra(e) = 0 \/ Extra(e) = 1 BY DEF Extra
    <3>7. CASE Extra(e) = 0
      <4>1. Starters(p) = Starters(t) BY <1>1, <1>2, <3>7
      <4> QED BY <2>11, <3>3, <4>1, Zenon DEF Kept
    <3>8. CASE Extra(e) = 1
      <4>1. Starters(p) = Starters(t) - 1 BY <1>1, <1>2, <3>8
      <4> QED BY <2>11, <3>3, <3>5, <4>1, Zenon DEF Kept
    <3> QED BY <3>6, <3>7, <3>8
  <2>13. \A k \in 1 .. Passed(o) : Kept(o, v, k)
    <3>1. \A k \in 1 .. Passed(o) : k = Passed(p) + 1 \/ k \in 1 .. Passed(p) BY <1>1, <2>8
    <3>2. \A k \in 1 .. Passed(p) : Kept(o, v, k) BY <1>8, <2>3, Zenon DEF o
    <3> QED BY <2>12, <3>1, <3>2, Zenon
  <2>14. Starters(f.out) + Extra(f) = Starters(v) BY <1>2, <1>7, <1>9, <2>4, <2>11, Zenon
  <2>15. \A k \in Passed(o) + 1 .. Passed(v) : StartersBefore(v, k) = Starters(v)
    <3>1. \A k \in Passed(o) + 1 .. Passed(v) : k \in Passed(p) + 1 .. Passed(v)
      BY <1>1, <2>8
    <3> QED BY <1>7, <3>1, Zenon
  <2>16. Settled(f)
    <3>1. y \in Seq(Singles) BY <2>2, SinglesAre, Widened
    <3>2. o \in Seq(Singles) BY <1>9, <3>1, ConcatProperties DEF o
    <3> QED BY <1>3, <1>9, <2>4, <3>2, Zenon DEF Settled
  <2> HIDE DEF v
  <2>17. Placed(f, v)
    BY <1>5, <1>9, <2>4, <2>9, <2>10, <2>13, <2>14, <2>15, <2>16, Zenon DEF Placed
  <2> QED BY <2>17 DEF f, v, x
<1> QED BY <1>3, <1>10, <1>11

(* A codepoint is read part by part; a control has one part. *)
LEMMA ControlWhole ==
  ASSUME NEW c \in Controlled
  PROVE  c \in Nat /\ IsControl(c) /\ DecomposeOne(c) = <<c>>
<1>1. c \in Nat /\ IsControl(c) BY DEF Controlled
<1>2. ~IsHangul(c)
  <2>1. \A h \in HangulBase .. HangulEnd : ~IsControl(h) BY VisibleAre DEF Leads, Visible
  <2> QED BY <1>1, <2>1, Zenon DEF IsHangul
<1>3. c \notin DOMAIN Decomposition
  <2>1. \A k \in 1 .. ScpMin - 1 : ~IsControl(k)
    <3>1. ScpMin \in Nat BY SMT DEF ScpMin
    <3>2. \A k \in 1 .. ScpMin - 1 : ~(k >= ScpMin) BY <3>1
    <3> QED BY <3>2, Zenon DEF IsControl
  <2>2. \A k \in DOMAIN Decomposition : k \in 1 .. ScpMin - 1 BY FormsAssumption
  <2> QED BY <1>1, <2>1, <2>2, Zenon
<1> QED BY <1>1, <1>2, <1>3, Zenon DEF DecomposeOne

LEMMA ProcessPlaces ==
  ASSUME NEW e, NEW t, Placed(e, t), NEW cp \in Nat, PartsOnce(cp)
  PROVE  Placed(Process(e, cp), t \o DecomposeOne(cp))
<1> DEFINE parts == DecomposeOne(cp)
<1>0. \A x : Len(<<x>>) = 1 /\ <<x>>[1] = x /\ Len(<<x>>) \in 1 .. 3 OBVIOUS
<1>1. t \in Seq(Nat) /\ e.form = "D" BY DEF Placed, Settled
<1>2. IsControl(cp) => parts = <<cp>>
  <2>1. IsControl(cp) => cp \in Controlled BY DEF Controlled
  <2> QED BY <2>1, ControlWhole
<1>3. parts = IF IsControl(cp) \/ (IsHangul(cp) /\ e.form = "C") THEN <<cp>>
              ELSE DecomposeOne(cp)
  BY <1>1, <1>2
<1> HIDE DEF parts
<1>4. CASE IsControl(cp)
  <2>1. Len(parts) = 1 /\ parts[1] = cp /\ Len(parts) \in 1 .. 3 BY <1>0, <1>2, <1>4
  <2>2. Process(e, cp) = Absorb(e, cp) BY <1>3, <2>1, ProcessIs
  <2>3. cp \in Controlled BY <1>4 DEF Controlled
  <2>4. Placed(Process(e, cp), t \o <<cp>>) BY <2>2, <2>3, ControlPlaces, Zenon
  <2> QED BY <1>2, <1>4, <2>4, Zenon DEF parts
<1>5. CASE ~IsControl(cp)
  <2>1. cp \in Visible BY <1>5 DEF Visible
  <2>2. parts \in Seq(Atoms) /\ parts \in Seq(Nat) /\ Len(parts) \in 1 .. 3
    BY <2>1, VisibleParts DEF parts
  <2>3. \A i \in 1 .. Len(parts) : parts[i] \in Atoms BY <2>2, SeqIs
  <2>4. \A a \in Atoms : <<a>> \in Seq(Nat) BY VisibleAre, Concat
  <2>5. /\ Len(parts) = 1 => Process(e, cp) = Absorb(e, parts[1])
        /\ Len(parts) = 2 => Process(e, cp) = Absorb(Absorb(e, parts[1]), parts[2])
        /\ Len(parts) = 3 =>
             Process(e, cp) = Absorb(Absorb(Absorb(e, parts[1]), parts[2]), parts[3])
    BY <1>3, <2>2, ProcessIs
  <2>6. ASSUME NEW d, NEW v, Placed(d, v), NEW a \in Atoms PROVE Placed(Absorb(d, a), v \o <<a>>)
    BY <2>6, PartPlaces
  <2>7. CASE Len(parts) = 1
    <3>1. 1 \in 1 .. Len(parts) BY <2>7
    <3>2. Placed(Absorb(e, parts[1]), t \o <<parts[1]>>) BY <2>3, <2>6, <3>1
    <3>3. parts = <<parts[1]>> BY <2>2, <2>7, UpToThree
    <3> QED BY <2>5, <2>7, <3>2, <3>3, Zenon DEF parts
  <2>8. CASE Len(parts) = 2
    <3> DEFINE x == <<parts[1]>>
               y == <<parts[2]>>
    <3>1. parts[1] \in Atoms /\ parts[2] \in Atoms BY <2>3, <2>8
    <3>2. Placed(Absorb(Absorb(e, parts[1]), parts[2]), (t \o x) \o y) BY <2>6, <3>1
    <3>3. parts = x \o y BY <2>2, <2>8, UpToThree
    <3>4. x \in Seq(Nat) /\ y \in Seq(Nat) BY <2>4, <3>1
    <3> HIDE DEF x, y
    <3>5. (t \o x) \o y = t \o (x \o y) BY <1>1, <3>4, Regroup
    <3> QED BY <2>5, <2>8, <3>2, <3>3, <3>5, Zenon DEF parts
  <2>9. CASE Len(parts) = 3
    <3> DEFINE x == <<parts[1]>>
               y == <<parts[2]>>
               z == <<parts[3]>>
    <3>1. parts[1] \in Atoms /\ parts[2] \in Atoms /\ parts[3] \in Atoms BY <2>3, <2>9
    <3>2. Placed(Absorb(Absorb(Absorb(e, parts[1]), parts[2]), parts[3]), ((t \o x) \o y) \o z)
      <4>1. Placed(Absorb(Absorb(e, parts[1]), parts[2]), (t \o x) \o y) BY <2>6, <3>1
      <4> QED BY <2>6, <3>1, <4>1
    <3>3. parts = (x \o y) \o z BY <2>2, <2>9, UpToThree
    <3>4. x \in Seq(Nat) /\ y \in Seq(Nat) /\ z \in Seq(Nat) BY <2>4, <3>1
    <3> HIDE DEF x, y, z
    <3>5. (t \o x) \o y = t \o (x \o y) BY <1>1, <3>4, Regroup
    <3>6. x \o y \in Seq(Nat) BY <3>4, Linked
    <3>7. (t \o (x \o y)) \o z = t \o ((x \o y) \o z) BY <1>1, <3>4, <3>6, Regroup
    <3> QED BY <2>5, <2>9, <3>2, <3>3, <3>5, <3>7, Zenon DEF parts
  <2> QED BY <2>2, <2>7, <2>8, <2>9
<1> QED BY <1>4, <1>5

LEMMA FlushPlaces ==
  ASSUME NEW e, NEW t, Placed(e, t)
  PROVE  /\ Placed(FlushText(e), t) /\ FlushText(e).inv = <<>>
         /\ FlushText(e).out = Written(e) /\ FlushText(e).win = <<>>
         /\ FlushText(e).starter = Sentinel
<1> DEFINE f == FlushText(e)
           none == <<>>
<1>1. /\ Settled(e) /\ (~e.seeded => e.starter = Sentinel /\ e.win = <<>>)
      /\ e.seeded \in BOOLEAN /\ e \in Engine
  BY PlacedIs DEF Placed
<1>2. /\ Settled(f) /\ f.out = Written(e) /\ f.inv = none /\ f.starter = Sentinel
      /\ f.win = none /\ f.seeded = FALSE
  <2>1. CASE e.seeded
    <3> DEFINE z == Finalize(e)
               g == [z EXCEPT !.seeded = FALSE]
    <3>1. f = g BY <2>1 DEF FlushText
    <3>2. /\ Settled(z) /\ z.out = Written(e) /\ z.inv = none /\ z.starter = Sentinel
          /\ z.win = none
      BY <1>1, SettledFinalizes DEF Written
    <3>3. /\ z \in Engine /\ z.form = "D" /\ z.out \in Seq(Singles) /\ z.win \in Seq(Marks)
          /\ z.starter \in Atoms \cup {Sentinel}
      BY <3>2, Zenon DEF Settled
    <3> HIDE DEF z, f
    <3>4. /\ g \in Engine /\ g.out = z.out /\ g.inv = z.inv /\ g.starter = z.starter
          /\ g.win = z.win /\ g.seeded = FALSE /\ g.form = "D"
      BY <3>3 DEF Engine
    <3> HIDE DEF g, none
    <3>5. Settled(g) BY <3>3, <3>4, Zenon DEF Settled
    <3> QED BY <3>1, <3>2, <3>4, <3>5, Zenon
  <2>2. CASE ~e.seeded
    <3> DEFINE out == e.out \o e.inv
               g == [e EXCEPT !.out = out, !.inv = none]
    <3>1. f = g BY <2>2 DEF FlushText, FlushInv
    <3>2. /\ e.form = "D" /\ e.out \in Seq(Singles) /\ e.win = none /\ e.starter = Sentinel
          /\ e.inv \in Seq(Controlled) /\ e.out \in Seq(Nat) /\ e.seeded = FALSE
      BY <1>1, <2>2, EngineIs DEF Settled
    <3>3. Written(e) = out
      <4>1. Lead(e) = <<>> BY <1>1, <3>2, SequenceWhole
      <4>2. <<>> \o <<>> = <<>> /\ e.out \o <<>> = e.out BY <3>2, Concat
      <4> QED BY <3>2, <4>1, <4>2, Zenon DEF Written
    <3>4. out \in Seq(Singles) /\ out \in Seq(Nat)
      <4>1. e.inv \in Seq(Singles) BY <3>2, SinglesAre, Widened
      <4>2. out \in Seq(Singles) BY <3>2, <4>1, ConcatProperties
      <4> QED BY <4>2, SinglesAre, Widened
    <3>5. none \in Seq(Controlled) /\ none \in Seq(Marks) OBVIOUS
    <3> HIDE DEF out, none, f
    <3>6. /\ g \in Engine /\ g.out = out /\ g.inv = none /\ g.starter = e.starter
          /\ g.win = e.win /\ g.seeded = e.seeded /\ g.form = "D"
      BY <1>1, <3>2, <3>4, <3>5 DEF Engine
    <3> HIDE DEF g
    <3>7. g.starter \in Atoms \cup {Sentinel} BY <3>2, <3>6
    <3>8. Settled(g) BY <3>2, <3>4, <3>5, <3>6, <3>7, Zenon DEF Settled
    <3> QED BY <3>1, <3>2, <3>3, <3>6, <3>8, Zenon
  <2> QED BY <2>1, <2>2
<1>3. /\ Written(e) \in Seq(Nat) /\ Controls(Written(e)) = Controls(t)
      /\ Passed(Written(e)) = Passed(t) /\ Starters(Written(e)) = Starters(t)
      /\ \A k \in 1 .. Passed(t) : Kept(Written(e), t, k)
  BY WritingPlaces
<1>4. t \in Seq(Nat) /\ Passed(t) \in Nat /\ Starters(t) \in Nat /\ Controls(t) \in Seq(Nat)
  <2>1. t \in Seq(Nat) BY DEF Placed
  <2> QED BY <2>1, PassedIs, BeforeTyped, ControlsAre
<1> HIDE DEF f
<1>5. Len(f.inv) <= Depth
  <2>1. Len(none) = 0 /\ 0 <= Depth BY FormsAssumption
  <2> QED BY <1>2, <2>1, Zenon
<1>6. Controls(f.out) \o f.inv = Controls(t)
  <2>1. Controls(t) \o <<>> = Controls(t) BY <1>4, Concat
  <2> QED BY <1>2, <1>3, <2>1, Zenon
<1>7. Starters(f.out) + Extra(f) = Starters(t)
  <2>1. Extra(f) = 0 BY <1>2 DEF Extra
  <2>2. Starters(t) + 0 = Starters(t) BY <1>4
  <2> QED BY <1>2, <1>3, <2>1, <2>2, Zenon
<1>8. \A k \in Passed(f.out) + 1 .. Passed(t) : FALSE
  <2>1. Passed(f.out) = Passed(t) BY <1>2, <1>3, Zenon
  <2> QED BY <1>4, <2>1
<1>9. \A k \in 1 .. Passed(f.out) : Kept(f.out, t, k) BY <1>2, <1>3, Zenon
<1>10. ~f.seeded => f.starter = Sentinel /\ f.win = <<>> BY <1>2, Zenon DEF none
<1>11. Settled(f) /\ t \in Seq(Nat) BY <1>2, <1>4, Zenon
<1> HIDE DEF none
<1>12. \A k \in Passed(f.out) + 1 .. Passed(t) : StartersBefore(t, k) = Starters(t)
  BY <1>8, Zenon
<1>13. Placed(f, t) BY <1>5, <1>6, <1>7, <1>9, <1>10, <1>11, <1>12, Zenon DEF Placed
<1> QED BY <1>2, <1>13, Zenon DEF f, none

LEMMA NothingPlaced ==
  ASSUME NEW e \in Engine, e.form = "D", e.out = <<>>, e.inv = <<>>, e.win = <<>>,
         e.starter = Sentinel
  PROVE  Placed(e, <<>>)
<1> DEFINE none == <<>>
<1>1. none \in Seq(Nat) /\ none \in Seq(Marks) /\ none \in Seq(Singles) /\ Len(none) = 0 OBVIOUS
<1>2. Controls(none) = none BY ControlsAre, Zenon
<1>3. none \o none = none BY Concat
<1>4. Starters(none) = 0
  <2>1. {i \in DOMAIN none : Opening(none, i)} = {}
    <3>1. DOMAIN none = 1 .. 0 BY <1>1, SeqIs
    <3>2. \A i \in 1 .. 0 : FALSE OBVIOUS
    <3> HIDE DEF none
    <3> QED BY <3>1, <3>2
  <2>2. Cardinality({}) = 0 BY FS_EmptySet
  <2> HIDE DEF none
  <2> QED BY <2>1, <2>2, Zenon DEF Starters
<1> HIDE DEF none
<1>5. Passed(none) = 0 BY <1>1, <1>2, Zenon DEF Passed
<1>6. /\ e.out = none /\ e.inv = none /\ e.win = none BY DEF none
<1>7. Settled(e) BY <1>1, <1>6 DEF Settled
<1>8. Extra(e) = 0 BY DEF Extra
<1>9. 0 <= Depth BY FormsAssumption
<1>10. \A k \in 1 .. Passed(e.out) : FALSE BY <1>5, <1>6
<1>11. \A k \in Passed(e.out) + 1 .. Passed(none) : FALSE BY <1>5, <1>6
<1>12. Starters(e.out) + Extra(e) = Starters(none) BY <1>4, <1>6, <1>8
<1>13. Len(e.inv) <= Depth BY <1>1, <1>6, <1>9, Zenon
<1>14. Controls(e.out) \o e.inv = Controls(none) BY <1>2, <1>3, <1>6, Zenon
<1>15. Placed(e, none) BY <1>1, <1>6, <1>7, <1>10, <1>11, <1>12, <1>13, <1>14, Zenon DEF Placed
<1> QED BY <1>15 DEF none

--------------------------------------------------------------------------------
(* In both forms, the controls that were let out and those that wait. *)
Passing(e) == Controls(e.out) \o e.inv

LEMMA WritingPasses ==
  ASSUME NEW a \in Seq(Nat), NEW s \in Seq(Visible), NEW i \in Seq(Controlled)
  PROVE  /\ Controls(a \o s \o i) = Controls(a) \o i /\ Controls(a \o i) = Controls(a) \o i
         /\ (Controls(a) \o i) \o <<>> = Controls(a) \o i
<1>1. /\ s \in Seq(Nat) /\ Controls(s) = <<>> /\ i \in Seq(Nat) /\ Controls(i) = i
      /\ Controls(a) \in Seq(Nat)
  BY ControlsAre
<1>2. a \o s \in Seq(Nat) BY <1>1, Linked
<1>3. Controls((a \o s) \o i) = Controls(a \o s) \o Controls(i) BY <1>1, <1>2, ControlsAre, Zenon
<1>4. Controls(a \o s) = Controls(a) \o Controls(s) BY <1>1, ControlsAre, Zenon
<1>5. Controls(a) \o <<>> = Controls(a) BY <1>1, Concat
<1>6. Controls(a \o i) = Controls(a) \o Controls(i) BY <1>1, ControlsAre, Zenon
<1>7. Controls(a) \o i \in Seq(Nat) BY <1>1, Linked
<1>8. (Controls(a) \o i) \o <<>> = Controls(a) \o i BY <1>7, Concat
<1> QED BY <1>1, <1>3, <1>4, <1>5, <1>6, <1>8, Zenon

LEMMA FinalizePasses ==
  ASSUME NEW e \in Engine
  PROVE  LET f == Finalize(e)
         IN /\ f \in Engine /\ f.form = e.form /\ f.inv = <<>> /\ Passing(f) = Passing(e)
            /\ Controls(f.out) = Passing(e)
<1> DEFINE s == Sequence(e)
           out == e.out \o s \o e.inv
           none == <<>>
           f == [e EXCEPT !.out = out, !.win = none, !.inv = none, !.starter = Sentinel]
<1>1. e.out \in Seq(Nat) /\ e.inv \in Seq(Controlled) BY EngineIs
<1>2. s \in Seq(Visible) BY SequenceHolds
<1>3. Finalize(e) = f BY DEF Finalize, Engine
<1> HIDE DEF s
<1>4. Controls(out) = Passing(e) /\ Passing(e) \o none = Passing(e)
  BY <1>1, <1>2, WritingPasses, Zenon DEF Passing
<1>5. f \in Engine BY <1>3, FinalizeKeeps
<1> HIDE DEF out, none
<1>6. f.form = e.form /\ f.inv = none /\ f.out = out BY DEF Engine
<1> HIDE DEF f
<1>7. Passing(f) = Passing(e) BY <1>4, <1>6, Zenon DEF Passing
<1> QED BY <1>3, <1>4, <1>5, <1>6, <1>7, Zenon DEF none

LEMMA FlushInvPasses ==
  ASSUME NEW e \in Engine
  PROVE  LET f == FlushInv(e)
         IN /\ f \in Engine /\ f.form = e.form /\ f.inv = <<>> /\ Passing(f) = Passing(e)
<1> DEFINE out == e.out \o e.inv
           none == <<>>
           f == [e EXCEPT !.out = out, !.inv = none]
<1>1. e.out \in Seq(Nat) /\ e.inv \in Seq(Controlled) BY EngineIs
<1>2. none \in Seq(Visible) OBVIOUS
<1>3. FlushInv(e) = f BY DEF FlushInv, Engine
<1>4. Controls(out) = Passing(e) /\ Passing(e) \o none = Passing(e)
  BY <1>1, <1>2, WritingPasses, Zenon DEF Passing
<1>5. f \in Engine BY <1>3, FlushInvKeeps
<1> HIDE DEF out, none
<1>6. f.form = e.form /\ f.inv = none /\ f.out = out BY DEF Engine
<1> HIDE DEF f
<1>7. Passing(f) = Passing(e) BY <1>4, <1>6, Zenon DEF Passing
<1> QED BY <1>3, <1>5, <1>6, <1>7, Zenon DEF none

(* Nothing but out and inv, and the form, matters here. *)
LEMMA SamePassing ==
  ASSUME NEW e, NEW f, f.form = e.form, f.out = e.out, f.inv = e.inv
  PROVE  f.form = e.form /\ Passing(f) = Passing(e)
BY Zenon DEF Passing

LEMMA AbsorbPasses ==
  ASSUME NEW e \in Engine, NEW c \in Leads
  PROVE  LET f == Absorb(e, c) IN f.form = e.form /\ Passing(f) = Passing(e)
<1>1. ~IsControl(c) BY VisibleAre DEF Visible
<1>2. CASE ~e.seeded
  <2> DEFINE z == FlushInv(e)
             f == [z EXCEPT !.seeded = TRUE, !.starter = c]
  <2>1. Absorb(e, c) = f BY <1>1, <1>2 DEF Absorb
  <2>2. z \in Engine /\ z.form = e.form /\ Passing(z) = Passing(e) BY FlushInvPasses
  <2> HIDE DEF z
  <2>3. f.form = z.form /\ f.out = z.out /\ f.inv = z.inv BY <2>2 DEF Engine
  <2> HIDE DEF f
  <2>4. f.form = e.form /\ Passing(f) = Passing(e) BY <2>2, <2>3, SamePassing, Zenon
  <2> QED BY <2>1, <2>4
<1>3. ASSUME NEW g, g = e \/ g = Finalize(e)
      PROVE  g \in Engine /\ g.form = e.form /\ Passing(g) = Passing(e)
  BY <1>3, FinalizePasses, Zenon
<1>4. CASE e.seeded /\ Ccc(c) = 0
  <2> DEFINE syllable == IF e.form = "C" /\ e.win = <<>> /\ e.starter # Sentinel
                           THEN ComposeHangul(e.starter, c) ELSE 0
             z == Finalize(e)
             f == [e EXCEPT !.starter = syllable]
             h == [z EXCEPT !.starter = c]
  <2>1. Absorb(e, c) = IF syllable # 0 THEN f ELSE h BY <1>1, <1>4 DEF Absorb, NewStarter
  <2>2. z \in Engine /\ z.form = e.form /\ Passing(z) = Passing(e) BY <1>3
  <2> HIDE DEF z, syllable
  <2>3. h.form = z.form /\ h.out = z.out /\ h.inv = z.inv BY <2>2 DEF Engine
  <2>4. f.form = e.form /\ f.out = e.out /\ f.inv = e.inv BY DEF Engine
  <2> HIDE DEF f, h
  <2>5. h.form = e.form /\ Passing(h) = Passing(e) BY <2>2, <2>3, SamePassing, Zenon
  <2>6. f.form = e.form /\ Passing(f) = Passing(e) BY <2>4, SamePassing, Zenon
  <2> QED BY <2>1, <2>5, <2>6
<1>5. CASE e.seeded /\ Ccc(c) # 0
  <2> DEFINE win == Insert(e.win, c)
             one == <<c>>
             z == Finalize(e)
             f == [e EXCEPT !.win = win]
             h == [z EXCEPT !.win = one]
  <2>1. Absorb(e, c) = IF Len(e.win) < Window THEN f ELSE h
    BY <1>1, <1>5 DEF Absorb, NewMark, Engine
  <2>2. z \in Engine /\ z.form = e.form /\ Passing(z) = Passing(e) BY <1>3
  <2> HIDE DEF z, win, one
  <2>3. h.form = z.form /\ h.out = z.out /\ h.inv = z.inv BY <2>2 DEF Engine
  <2>4. f.form = e.form /\ f.out = e.out /\ f.inv = e.inv BY DEF Engine
  <2> HIDE DEF f, h
  <2>5. h.form = e.form /\ Passing(h) = Passing(e) BY <2>2, <2>3, SamePassing, Zenon
  <2>6. f.form = e.form /\ Passing(f) = Passing(e) BY <2>4, SamePassing, Zenon
  <2> QED BY <2>1, <2>5, <2>6
<1> QED BY <1>2, <1>4, <1>5

LEMMA ControlPasses ==
  ASSUME NEW e \in Engine, NEW c \in Controlled
  PROVE  LET f == Absorb(e, c) IN f.form = e.form /\ Passing(f) = Passing(e) \o <<c>>
<1> DEFINE f == Absorb(e, c)
           x == <<c>>
           p == e.out
           n == e.inv
<1>0. x \in Seq(Controlled) OBVIOUS
<1>1. p \in Seq(Nat) /\ n \in Seq(Controlled) /\ n \in Seq(Nat) /\ Controls(p) \in Seq(Nat)
  <2>1. p \in Seq(Nat) /\ n \in Seq(Controlled) BY EngineIs
  <2> HIDE DEF p, n
  <2> QED BY <2>1, ControlsAre
<1>2. /\ f.form = e.form
      /\ \/ f.out = p /\ f.inv = Append(n, c)
         \/ n # <<>> /\ f.out = Append(p, Head(n)) /\ f.inv = Append(Tail(n), c)
  BY ControlWaits
<1>3. c \in Nat /\ x = <<c>> BY VisibleAre
<1>4. Passing(e) = Controls(p) \o n BY DEF Passing
<1> HIDE DEF f, p, n, x
<1>5. x \in Seq(Nat) BY <1>0, ControlsAre
<1>6. (Controls(p) \o n) \o x = Controls(p) \o (n \o x) BY <1>1, <1>5, Regroup
<1>7. ASSUME f.out = p, f.inv = Append(n, c) PROVE Passing(f) = Passing(e) \o x
  <2>1. Append(n, c) = n \o x BY <1>1, <1>3, Appended, Zenon
  <2> QED BY <1>4, <1>6, <1>7, <2>1, Zenon DEF Passing
<1>8. ASSUME n # <<>>, f.out = Append(p, Head(n)), f.inv = Append(Tail(n), c)
      PROVE  Passing(f) = Passing(e) \o x
  <2> DEFINE h == Head(n)
             r == Tail(n)
             y == <<h>>
  <2>1. h \in Controlled /\ r \in Seq(Controlled) /\ n = <<h>> \o r
    <3>1. h \in Controlled /\ r \in Seq(Controlled) BY <1>1, <1>8, HeadTailProperties
    <3>2. n = <<h>> \o r BY <1>1, <1>8
    <3> QED BY <3>1, <3>2
  <2> HIDE DEF h, r
  <2>2. h \in Nat /\ r \in Seq(Nat) /\ n = y \o r BY <2>1, VisibleAre, ControlsAre
  <2>3. y \in Seq(Controlled) BY <2>1
  <2>4. Append(p, h) = p \o y /\ Append(r, c) = r \o x BY <1>1, <1>3, <2>2, Appended, Zenon
  <2> HIDE DEF y
  <2>5. y \in Seq(Nat) /\ Controls(y) = y BY <2>3, ControlsAre
  <2>6. Controls(p \o y) = Controls(p) \o y BY <1>1, <2>5, ControlsAre, Zenon
  <2>7. r \o x \in Seq(Nat) BY <1>5, <2>2, Linked
  <2>8. (Controls(p) \o y) \o (r \o x) = Controls(p) \o (y \o (r \o x))
    BY <1>1, <2>5, <2>7, Regroup
  <2>9. (y \o r) \o x = y \o (r \o x) BY <1>5, <2>2, <2>5, Regroup
  <2>10. f.out = p \o y /\ f.inv = r \o x BY <1>8, <2>4, Zenon DEF h, r
  <2> QED BY <1>4, <1>6, <2>2, <2>6, <2>8, <2>9, <2>10, Zenon DEF Passing
<1>9. Passing(f) = Passing(e) \o x BY <1>2, <1>7, <1>8, Zenon
<1> QED BY <1>2, <1>9 DEF f, x

LEMMA ProcessPasses ==
  ASSUME NEW e, NEW u, Holds(e, u), NEW cp \in Nat, PartsOnce(cp)
  PROVE  /\ Process(e, cp).form = e.form
         /\ Passing(Process(e, cp)) = IF IsControl(cp) THEN Passing(e) \o <<cp>> ELSE Passing(e)
<1> DEFINE parts == IF IsControl(cp) \/ (IsHangul(cp) /\ e.form = "C") THEN <<cp>>
                    ELSE DecomposeOne(cp)
<1>0. \A x : Len(<<x>>) = 1 /\ <<x>>[1] = x /\ Len(<<x>>) \in 1 .. 3 OBVIOUS
<1>1. e \in Engine BY HoldsIs
<1>2. CASE IsControl(cp)
  <2>1. parts = <<cp>> BY <1>2
  <2> HIDE DEF parts
  <2>2. Len(parts) = 1 /\ parts[1] = cp /\ Len(parts) \in 1 .. 3 BY <1>0, <2>1
  <2>3. Process(e, cp) = Absorb(e, cp) BY <2>2, ProcessIs DEF parts
  <2>4. cp \in Controlled BY <1>2 DEF Controlled
  <2>5. Absorb(e, cp).form = e.form /\ Passing(Absorb(e, cp)) = Passing(e) \o <<cp>>
    BY <1>1, <2>4, ControlPasses
  <2> QED BY <1>2, <2>3, <2>5, Zenon
<1>3. CASE ~IsControl(cp)
  <2>1. cp \in Visible BY <1>3 DEF Visible
  <2>2. /\ Len(parts) \in 1 .. 3 /\ \A i \in 1 .. Len(parts) : parts[i] \in Leads
    <3>1. CASE IsHangul(cp) /\ e.form = "C"
      <4>1. parts = <<cp>> BY <3>1
      <4>2. cp \in Leads BY <3>1 DEF Leads, IsHangul
      <4> HIDE DEF parts
      <4>3. \A i \in 1 .. Len(parts) : i = 1 BY <1>0, <4>1
      <4> QED BY <1>0, <4>1, <4>2, <4>3, Zenon
    <3>2. CASE ~(IsHangul(cp) /\ e.form = "C")
      <4>1. parts = DecomposeOne(cp) BY <1>3, <3>2
      <4> HIDE DEF parts
      <4>2. parts \in Seq(Atoms) /\ Len(parts) \in 1 .. 3 BY <2>1, <4>1, VisibleParts
      <4>3. \A i \in 1 .. Len(parts) : parts[i] \in Atoms BY <4>2, SeqIs
      <4> QED BY <4>2, <4>3, VisibleAre
    <3> QED BY <3>1, <3>2
  <2>3. /\ Len(parts) = 1 => Process(e, cp) = Absorb(e, parts[1])
        /\ Len(parts) = 2 => Process(e, cp) = Absorb(Absorb(e, parts[1]), parts[2])
        /\ Len(parts) = 3 =>
             Process(e, cp) = Absorb(Absorb(Absorb(e, parts[1]), parts[2]), parts[3])
    BY <2>2, ProcessIs
  <2> DEFINE Like(d) == (\E v : Holds(d, v)) /\ d.form = e.form /\ Passing(d) = Passing(e)
  <2>4. ASSUME NEW d, Like(d), NEW a \in Leads PROVE Like(Absorb(d, a))
    <3>1. PICK v : Holds(d, v) BY <2>4
    <3>2. d \in Engine BY <3>1, HoldsIs
    <3>3. Holds(Absorb(d, a), v \o DecomposeOne(a)) BY <3>1, AbsorbHolds
    <3>4. Absorb(d, a).form = d.form /\ Passing(Absorb(d, a)) = Passing(d)
      BY <3>2, AbsorbPasses
    <3> QED BY <2>4, <3>3, <3>4, Zenon
  <2>5. Like(e) OBVIOUS
  <2> HIDE DEF Like, parts
  <2>6. Len(parts) = 1 \/ Len(parts) = 2 \/ Len(parts) = 3 BY <2>2
  <2>7. /\ parts[1] \in Leads /\ (Len(parts) >= 2 => parts[2] \in Leads)
        /\ (Len(parts) = 3 => parts[3] \in Leads)
    BY <2>2
  <2>8. Like(Absorb(e, parts[1])) BY <2>4, <2>5, <2>7
  <2>9. CASE Len(parts) = 1
    <3>1. Like(Process(e, cp)) BY <2>3, <2>8, <2>9, Zenon
    <3> QED BY <1>3, <3>1 DEF Like
  <2>10. CASE Len(parts) = 2
    <3>0. parts[2] \in Leads BY <2>7, <2>10
    <3>1. Like(Absorb(Absorb(e, parts[1]), parts[2])) BY <2>4, <2>8, <3>0
    <3>2. Like(Process(e, cp)) BY <2>3, <2>10, <3>1, Zenon
    <3> QED BY <1>3, <3>2 DEF Like
  <2>11. CASE Len(parts) = 3
    <3>0. parts[2] \in Leads /\ parts[3] \in Leads BY <2>7, <2>11
    <3>1. Like(Absorb(Absorb(e, parts[1]), parts[2])) BY <2>4, <2>8, <3>0
    <3>2. Like(Absorb(Absorb(Absorb(e, parts[1]), parts[2]), parts[3])) BY <2>4, <3>0, <3>1
    <3>3. Like(Process(e, cp)) BY <2>3, <2>11, <3>2, Zenon
    <3> QED BY <1>3, <3>3 DEF Like
  <2> QED BY <2>6, <2>9, <2>10, <2>11
<1> QED BY <1>2, <1>3

LEMMA FlushPasses ==
  ASSUME NEW e \in Engine
  PROVE  LET f == FlushText(e)
         IN f.form = e.form /\ f.inv = <<>> /\ Passing(f) = Passing(e)
<1>1. CASE e.seeded
  <2> DEFINE z == Finalize(e)
             f == [z EXCEPT !.seeded = FALSE]
  <2>1. FlushText(e) = f BY <1>1 DEF FlushText
  <2>2. z \in Engine /\ z.form = e.form /\ z.inv = <<>> /\ Passing(z) = Passing(e)
    BY FinalizePasses
  <2> HIDE DEF z
  <2>3. f.form = z.form /\ f.out = z.out /\ f.inv = z.inv BY <2>2 DEF Engine
  <2> HIDE DEF f
  <2>4. Passing(f) = Passing(e) BY <2>2, <2>3, SamePassing, Zenon
  <2> QED BY <2>1, <2>2, <2>3, <2>4
<1>2. CASE ~e.seeded
  <2>1. FlushText(e) = FlushInv(e) BY <1>2 DEF FlushText
  <2> QED BY <2>1, FlushInvPasses
<1> QED BY <1>1, <1>2

--------------------------------------------------------------------------------
(* The controls of a simple text, in its own order and in its decomposed   *)
(* form.                                                                   *)
Stays ==
  /\ engine.ok => Passing(engine) = Controls(text)
  /\ engine.ok /\ engine.form = "D" => Placed(engine, Parted(text))

FormsPlaced == FormsKept /\ (Simple(text) => Stays)

LEMMA ReadsOneMore ==
  ASSUME NEW s \in Seq(Nat), NEW cp \in Nat
  PROVE  /\ Parted(Append(s, cp)) = Parted(s) \o DecomposeOne(cp)
         /\ Controls(Append(s, cp)) = IF IsControl(cp) THEN Controls(s) \o <<cp>> ELSE Controls(s)
<1> DEFINE m == <<cp>>
<1>1. Append(s, cp) = s \o m /\ m \in Seq(Nat) BY Appended
<1>2. IsControl(cp) => m \in Seq(Controlled)
  <2>1. \A z \in Controlled : <<z>> \in Seq(Controlled) OBVIOUS
  <2> QED BY <2>1 DEF Controlled
<1>3. ~IsControl(cp) => m \in Seq(Visible)
  <2>1. \A z \in Visible : <<z>> \in Seq(Visible) OBVIOUS
  <2> QED BY <2>1 DEF Visible
<1>4. Parted(m) = DecomposeOne(cp) BY PartedIs, Zenon
<1> HIDE DEF m
<1>5. Parted(s \o m) = Parted(s) \o Parted(m) BY <1>1, PartedIs, Zenon
<1>6. Controls(s \o m) = Controls(s) \o Controls(m) /\ Controls(s) \in Seq(Nat)
  BY <1>1, ControlsAre, Zenon
<1>7. IsControl(cp) => Controls(m) = m BY <1>2, ControlsAre, Zenon
<1>8. ~IsControl(cp) => Controls(m) = <<>> BY <1>3, ControlsAre, Zenon
<1>9. Controls(s) \o <<>> = Controls(s) BY <1>6, Concat
<1>10. Parted(Append(s, cp)) = Parted(s) \o DecomposeOne(cp) BY <1>1, <1>4, <1>5, Zenon
<1>11. Controls(Append(s, cp)) = IF IsControl(cp) THEN Controls(s) \o m ELSE Controls(s)
  BY <1>1, <1>6, <1>7, <1>8, <1>9, Zenon
<1> QED BY <1>10, <1>11 DEF m

LEMMA NothingPasses ==
  ASSUME NEW e, e.out = <<>>, e.inv = <<>>
  PROVE  Passing(e) = Controls(<<>>) /\ Parted(<<>>) = <<>>
<1>1. Controls(<<>>) = <<>> /\ <<>> \o <<>> = <<>> BY ControlsAre, Concat
<1>2. Parted(<<>>) = <<>> BY PartedIs, Zenon
<1> QED BY <1>1, <1>2, Zenon DEF Passing

LEMMA StartsEmpty ==
  ASSUME NEW form \in Forms, NEW room \in Nat
  PROVE  LET e == Start(form, room)
         IN /\ e \in Engine /\ e.form = form /\ e.out = <<>> /\ e.inv = <<>> /\ e.win = <<>>
            /\ e.starter = Sentinel
<1> DEFINE e == Start(form, room)
<1>1. e \in Engine BY StartHoldsNothing, HoldsIs
<1>2. /\ e.form = form /\ e.out = <<>> /\ e.inv = <<>> /\ e.win = <<>>
      /\ e.starter = Sentinel
  BY DEF Start
<1> QED BY <1>1, <1>2

LEMMA StartPlaced ==
  ASSUME NEW form \in Forms, NEW room \in Nat
  PROVE  LET e == Start(form, room)
         IN /\ Passing(e) = Controls(<<>>)
            /\ e.form = "D" => Placed(e, Parted(<<>>))
<1> DEFINE e == Start(form, room)
<1>1. /\ e \in Engine /\ e.out = <<>> /\ e.inv = <<>> /\ e.win = <<>>
      /\ e.starter = Sentinel
  BY StartsEmpty
<1> HIDE DEF e
<1>2. Passing(e) = Controls(<<>>) /\ Parted(<<>>) = <<>> BY <1>1, NothingPasses
<1>3. e.form = "D" => Placed(e, <<>>) BY <1>1, NothingPlaced
<1> QED BY <1>2, <1>3 DEF e

LEMMA PlacesStep == FormsPlaced /\ [Next]_vars => FormsPlaced'
<1> SUFFICES ASSUME FormsPlaced, [Next]_vars, Simple(text') PROVE Stays'
  <2>1. ASSUME FormsPlaced, [Next]_vars PROVE FormsKept'
    BY <2>1, FormsStep DEF FormsPlaced
  <2> QED BY <2>1 DEF FormsPlaced
<1>0. FormsKept /\ Resting /\ text \in Seq(Nat) BY DEF FormsPlaced, FormsKept, Resting
<1>7. Simple(text) => FormsRead /\ Stays BY DEF FormsPlaced, FormsKept
<1>6. FormsRead'
  <2>1. FormsKept' BY <1>0, FormsStep
  <2> QED BY <2>1 DEF FormsKept
<1>1. ASSUME NEW cp \in Codepoints, Feed(cp) PROVE Stays'
  <2> DEFINE d == Process(engine, cp)
  <2>1. /\ ~ended /\ engine.ok /\ engine' = Cut(d) /\ text' = Append(text, cp)
        /\ ended' = ended /\ cp \in Nat
    BY <1>1, FormsAssumption DEF Feed
  <2>0. Simple(text) /\ PartsOnce(cp) BY <1>0, <2>1, SimplerText
  <2>2. Holds(engine, Goal(text)) BY <1>7, <2>0, <2>1 DEF FormsRead
  <2>3. d \in Engine
    <3>1. Holds(d, IF IsControl(cp) THEN Goal(text) ELSE Goal(text) \o DecomposeOne(cp))
      BY <2>0, <2>1, <2>2, ProcessHolds
    <3> QED BY <3>1, HoldsIs
  <2>4. /\ d.form = engine.form
        /\ Passing(d) = IF IsControl(cp) THEN Passing(engine) \o <<cp>> ELSE Passing(engine)
    BY <2>0, <2>1, <2>2, ProcessPasses
  <2>5. engine.form = "D" => Placed(d, Parted(text) \o DecomposeOne(cp))
    <3>1. engine.form = "D" => Placed(engine, Parted(text)) BY <1>7, <2>0, <2>1 DEF Stays
    <3> QED BY <2>0, <2>1, <3>1, ProcessPlaces
  <2>6. /\ Parted(text') = Parted(text) \o DecomposeOne(cp)
        /\ Controls(text') = IF IsControl(cp) THEN Controls(text) \o <<cp>> ELSE Controls(text)
    BY <1>0, <2>1, ReadsOneMore
  <2> HIDE DEF d
  <2>7. engine'.ok => engine' = d
    <3>1. <<>> \in Seq(Nat) BY Concat
    <3>2. Cut(d).ok => Cut(d) = d BY <2>3, <3>1, CutIs
    <3> QED BY <2>1, <3>2, Zenon
  <2>8. Passing(engine) = Controls(text) BY <1>7, <2>0, <2>1 DEF Stays
  <2>9. engine'.ok => Passing(engine') = Controls(text')
    <3>1. Passing(d) = Controls(text')
      <4>1. CASE IsControl(cp) BY <2>4, <2>6, <2>8, <4>1, Zenon
      <4>2. CASE ~IsControl(cp) BY <2>4, <2>6, <2>8, <4>2, Zenon
      <4> QED BY <4>1, <4>2
    <3> QED BY <2>7, <3>1, Zenon
  <2>10. engine'.ok /\ engine'.form = "D" => Placed(engine', Parted(text'))
    BY <2>4, <2>5, <2>6, <2>7, Zenon
  <2> QED BY <2>9, <2>10, Zenon DEF Stays
<1>2. ASSUME Flush PROVE Stays'
  <2> DEFINE d == FlushText(engine)
  <2>1. /\ ~ended /\ engine.ok /\ engine' = Cut(d) /\ text' = text /\ ended' = engine'.ok
    BY <1>2 DEF Flush
  <2>0. Simple(text) BY <2>1
  <2>5. engine \in Engine BY <1>7, <2>0 DEF FormsRead
  <2>2. d.form = engine.form /\ d.inv = <<>> /\ Passing(d) = Passing(engine)
    BY <2>5, FlushPasses
  <2>3. d \in Engine
    <3>1. Holds(engine, Goal(text)) BY <1>7, <2>0, <2>1 DEF FormsRead
    <3> QED BY <3>1, FlushHolds DEF Flushed
  <2>4. engine.form = "D" => Placed(d, Parted(text))
    <3>1. engine.form = "D" => Placed(engine, Parted(text)) BY <1>7, <2>0, <2>1 DEF Stays
    <3> QED BY <3>1, FlushPlaces
  <2> HIDE DEF d
  <2>7. engine'.ok => engine' = d
    <3>1. <<>> \in Seq(Nat) BY Concat
    <3>2. Cut(d).ok => Cut(d) = d BY <2>3, <3>1, CutIs
    <3> QED BY <2>1, <3>2, Zenon
  <2>8. Passing(engine) = Controls(text) BY <1>7, <2>0, <2>1 DEF Stays
  <2>9. engine'.ok => Passing(engine') = Controls(text') BY <2>1, <2>2, <2>7, <2>8, Zenon
  <2>10. engine'.ok /\ engine'.form = "D" => Placed(engine', Parted(text'))
    BY <2>1, <2>2, <2>4, <2>7, Zenon
  <2> QED BY <2>9, <2>10, Zenon DEF Stays
<1>3. ASSUME StateInit PROVE Stays'
  <2>1. PICK form \in Forms, room \in Rooms : engine' = Start(form, room)
    BY <1>3 DEF StateInit
  <2>2. text' = <<>> /\ ended' = FALSE BY <1>3 DEF StateInit
  <2>3. /\ Passing(engine') = Controls(text')
        /\ engine'.form = "D" => Placed(engine', Parted(text'))
    BY <2>1, <2>2, RoomsAre, StartPlaced, Zenon
  <2> QED BY <2>3, Zenon DEF Stays
<1>4. ASSUME GoOn PROVE Stays'
  <2> DEFINE none == <<>>
  <2>1. PICK room \in Rooms : engine' = [engine EXCEPT !.out = none, !.room = room]
    BY <1>4 DEF GoOn
  <2>2. text' = none /\ ended' = FALSE /\ ended BY <1>4 DEF GoOn
  <2>3. engine.starter = Sentinel /\ engine.win = none /\ engine.inv = none
    BY <1>0, <2>2 DEF Resting, Unseeded
  <2>4. PICK A, B : engine \in Shape(A, B) BY <1>0 DEF Resting, ArraysHold, Fit
  <2> HIDE DEF none
  <2>5. /\ engine'.out = none /\ engine'.starter = engine.starter
        /\ engine'.win = engine.win /\ engine'.inv = engine.inv
    BY <2>1, <2>4 DEF Shape
  <2>6. engine' \in Engine BY <1>6 DEF FormsRead
  <2>7. /\ engine'.out = <<>> /\ engine'.inv = <<>> /\ engine'.win = <<>>
        /\ engine'.starter = Sentinel /\ text' = <<>>
    BY <2>2, <2>3, <2>5, Zenon DEF none
  <2>8. Passing(engine') = Controls(<<>>) /\ Parted(<<>>) = <<>> BY <2>7, NothingPasses
  <2>9. engine'.form = "D" => Placed(engine', <<>>) BY <2>6, <2>7, NothingPlaced
  <2> QED BY <2>7, <2>8, <2>9, Zenon DEF Stays
<1>5. ASSUME UNCHANGED vars PROVE Stays'
  <2>1. engine' = engine /\ text' = text BY <1>5 DEF vars
  <2>2. Stays BY <1>7, <2>1
  <2> QED BY <2>1, <2>2 DEF Stays
<1> QED BY <1>1, <1>2, <1>3, <1>4, <1>5 DEF Next

LEMMA PlacedPass == FormsPlaced => (Simple(text) => ControlsPass)
<1> SUFFICES ASSUME Stays, engine.ok
             PROVE  /\ Controls(engine.out) \o engine.inv = Controls(text)
                    /\ engine.form = "D" => \A k \in DOMAIN Controls(engine.out) :
                         Kept(engine.out, Parted(text), k)
  BY Zenon DEF ControlsPass, Kept, FormsPlaced
<1>1. Controls(engine.out) \o engine.inv = Controls(text) BY DEF Stays, Passing
<1>2. ASSUME engine.form = "D" PROVE \A k \in DOMAIN Controls(engine.out) :
                                       Kept(engine.out, Parted(text), k)
  <2>1. Placed(engine, Parted(text)) BY <1>2 DEF Stays
  <2>2. engine.out \in Seq(Nat) BY <2>1, PlacedIs
  <2>3. DOMAIN Controls(engine.out) = 1 .. Passed(engine.out) BY <2>2, PassedIs
  <2> QED BY <2>1, <2>3, Zenon DEF Placed
<1> QED BY <1>1, <1>2

(* Of a text no part of which has a row of its own, what passes by the     *)
(* window keeps its place, whatever the tables and the depth of the FIFO:  *)
(* no control and no native codepoint is lost, doubled or overtaken by     *)
(* another, and in the decomposed form each stays with its starter, or is  *)
(* let out right before it by an overfull FIFO (sucf_emit_invariant).      *)
(* What marks do beside it is not said: they sort across it.               *)
THEOREM ControlsKeepPlace == Spec => [](Simple(text) => ControlsPass)
<1>1. Init => FormsPlaced
  <2> SUFFICES ASSUME Init PROVE FormsPlaced
    OBVIOUS
  <2>1. PICK form \in Forms, room \in Rooms : engine = Start(form, room) BY DEF Init
  <2>2. text = <<>> /\ ended = FALSE BY DEF Init
  <2>3. /\ Passing(engine) = Controls(text)
        /\ engine.form = "D" => Placed(engine, Parted(text))
    BY <2>1, <2>2, RoomsAre, StartPlaced, Zenon
  <2> QED BY <2>3, FormsBegin, Zenon DEF FormsPlaced, Stays
<1> QED BY <1>1, PlacesStep, PlacedPass, PTL DEF Spec

--------------------------------------------------------------------------------
(* The engine of a bulk call after each codepoint. *)
Works(f, form, s) ==
  f = [i \in 0 .. Len(s) |-> IF i = 0 THEN Start(form, 0) ELSE Process(f[i - 1], s[i])]

LEMMA TransformIs ==
  ASSUME NEW form, NEW s \in Seq(Nat)
  PROVE  \E f : Works(f, form, s) /\ Transform(form, s) = FlushText(f[Len(s)]).out
<1> DEFINE n == Len(s)
           Runs(f, m) == f = [i \in 0 .. m |-> IF i = 0 THEN Start(form, 0) ELSE Process(f[i - 1], s[i])]
           bad == {m \in 0 .. n : ~ \E f : Runs(f, m)}
<1>1. n \in Nat OBVIOUS
<1> HIDE DEF n
<1> HIDE DEF Runs
<1>2. bad = {}
  <2> SUFFICES ASSUME bad # {} PROVE FALSE
    OBVIOUS
  <2>1. bad \subseteq Nat OBVIOUS
  <2>2. PICK m \in bad : \A y \in bad : m <= y BY <2>1, LeastExists
  <2>3. m \in 0 .. n /\ ~ \E f : Runs(f, m) BY <2>2
  <2>4. m # 0
    <3> DEFINE f == [i \in 0 .. 0 |-> Start(form, 0)]
    <3>1. f = [i \in 0 .. 0 |-> IF i = 0 THEN Start(form, 0) ELSE Process(f[i - 1], s[i])]
      <4>1. \A i \in 0 .. 0 : i = 0 OBVIOUS
      <4> QED BY <4>1
    <3> HIDE DEF f
    <3>2. Runs(f, 0) BY <3>1, Zenon DEF Runs
    <3> QED BY <2>3, <3>2
  <2>5. m - 1 \in 0 .. n /\ ~(m <= m - 1) BY <2>3, <2>4, <1>1
  <2>6. PICK f : Runs(f, m - 1) BY <2>2, <2>5
  <2> DEFINE g == [i \in 0 .. m |-> IF i = m THEN Process(f[m - 1], s[m]) ELSE f[i]]
  <2>7. \A i \in 0 .. m : g[i] = IF i = 0 THEN Start(form, 0) ELSE Process(g[i - 1], s[i])
    <3> SUFFICES ASSUME NEW i \in 0 .. m
                 PROVE  g[i] = IF i = 0 THEN Start(form, 0) ELSE Process(g[i - 1], s[i])
      OBVIOUS
    <3>1. CASE i = m
      <4>1. m - 1 \in 0 .. m /\ m - 1 # m BY <2>3, <2>4
      <4>2. g[m - 1] = f[m - 1] BY <4>1
      <4>3. g[m] = Process(f[m - 1], s[m]) BY <2>3
      <4> HIDE DEF g
      <4> QED BY <2>4, <3>1, <4>2, <4>3
    <3>2. CASE i # m
      <4>1. i \in 0 .. m - 1 /\ i - 1 # m BY <3>2, <2>3
      <4>2. f[i] = IF i = 0 THEN Start(form, 0) ELSE Process(f[i - 1], s[i])
        BY <4>1, <2>6 DEF Runs
      <4>3. g[i] = f[i] /\ (i # 0 => g[i - 1] = f[i - 1])
        <5>1. i # 0 => i - 1 \in 0 .. m BY <4>1
        <5> QED BY <3>2, <4>1, <5>1
      <4> HIDE DEF g
      <4> QED BY <4>2, <4>3
    <3> QED BY <3>1, <3>2
  <2>8. g = [i \in 0 .. m |-> g[i]] OBVIOUS
  <2> HIDE DEF g
  <2>9. Runs(g, m) BY <2>7, <2>8 DEF Runs
  <2> QED BY <2>3, <2>9
<1>3. \E f : Works(f, form, s)
  <2>1. n \in 0 .. n BY <1>1
  <2>2. \E f : Runs(f, n) BY <1>2, <2>1
  <2> QED BY <2>2, Zenon DEF Works, Runs, n
<1> DEFINE f == CHOOSE f : Works(f, form, s)
<1>4. Works(f, form, s)
  <2> HIDE DEF f
  <2> QED BY <1>3 DEF f
<1> DEFINE b == f[Len(s)]
<1>5. Transform(form, s) = CHOOSE out \in {FlushText(e).out : e \in {b}} : TRUE
  BY Zenon DEF Transform, Works
<1>6. Transform(form, s) = FlushText(b).out
  <2> HIDE DEF b
  <2>1. {FlushText(e).out : e \in {b}} = {FlushText(b).out} OBVIOUS
  <2>2. \A x : (CHOOSE out \in {x} : TRUE) = x OBVIOUS
  <2> QED BY <1>5, <2>1, <2>2, Zenon
<1> HIDE DEF f
<1> QED BY <1>4, <1>6

LEMMA PlainSingles ==
  ASSUME NEW s \in Seq(Singles)
  PROVE  Plain(s) \in Seq(Atoms)
<1> DEFINE bad == {m \in Nat : \E r \in Seq(Singles) : Len(r) = m /\ Plain(r) \notin Seq(Atoms)}
<1>1. bad = {}
  <2> SUFFICES ASSUME bad # {} PROVE FALSE
    OBVIOUS
  <2>1. bad \subseteq Nat OBVIOUS
  <2>2. PICK m \in bad : \A y \in bad : m <= y BY <2>1, LeastExists
  <2>3. PICK r \in Seq(Singles) : Len(r) = m /\ Plain(r) \notin Seq(Atoms) BY <2>2
  <2>4. r # <<>>
    <3>1. <<>> \in Seq(Atoms) /\ Plain(<<>>) = <<>> BY PlainIs
    <3> QED BY <2>3, <3>1
  <2>5. PICK q \in Seq(Singles), c \in Singles : r = Append(q, c) /\ Len(r) = Len(q) + 1
    BY <2>3, <2>4, PopIs
  <2>6. Len(q) \in Nat /\ ~(m <= Len(q)) BY <2>3, <2>5
  <2>7. Plain(q) \in Seq(Atoms) BY <2>2, <2>6
  <2>8. q \in Seq(Nat) /\ c \in Nat BY <2>5, SinglesAre, Widened
  <2>9. Plain(r) = IF IsControl(c) THEN Plain(q) ELSE Append(Plain(q), c)
    BY <2>5, <2>8, PlainMore
  <2>10. CASE IsControl(c) BY <2>3, <2>7, <2>9, <2>10
  <2>11. CASE ~IsControl(c)
    <3>1. c \in Atoms BY <2>11 DEF Singles, Controlled
    <3>2. Append(Plain(q), c) \in Seq(Atoms) BY <2>7, <3>1
    <3> QED BY <2>3, <2>9, <2>11, <3>2
  <2> QED BY <2>10, <2>11
<1>2. Len(s) \in Nat OBVIOUS
<1> HIDE DEF bad
<1>3. Len(s) \notin bad BY <1>1
<1> QED BY <1>2, <1>3 DEF bad

(* A bulk call writes the canonical decomposition. *)
LEMMA TransformReads ==
  ASSUME NEW s \in Seq(Nat), Simple(s)
  PROVE  Plain(Transform("D", s)) = Canon(Goal(s))
<1> DEFINE n == Len(s)
           at(i) == SubSeq(s, 1, i)
<1>0. n \in Nat /\ at(n) = s
  <2>1. SubSeq(s, 1, Len(s)) = s BY SubSeqFull
  <2>2. Len(s) \in Nat BY SeqIs
  <2> QED BY <2>1, <2>2, Zenon
<1>1. PICK f : Works(f, "D", s) /\ Transform("D", s) = FlushText(f[n]).out BY TransformIs
<1>2. \A i \in 0 .. n : f[i] = IF i = 0 THEN Start("D", 0) ELSE Process(f[i - 1], s[i])
  BY <1>1 DEF Works
<1>3. at(0) = <<>> BY SubSeqEmpty
<1>20. \A i \in 1 .. n : PartsOnce(s[i]) BY <1>0, SeqIs DEF Simple
<1>4. \A i \in 1 .. n : s[i] \in Nat /\ at(i - 1) \in Seq(Nat) /\ at(i) = Append(at(i - 1), s[i])
  BY Reads, Zenon
<1> HIDE DEF n, at
<1> DEFINE Good(e, t) == Holds(e, Goal(t)) /\ Placed(e, Parted(t))
           bad == {i \in 0 .. n : ~Good(f[i], at(i))}
<1>5. bad = {}
  <2> SUFFICES ASSUME bad # {} PROVE FALSE
    OBVIOUS
  <2>1. bad \subseteq Nat OBVIOUS
  <2>2. PICK m \in bad : \A y \in bad : m <= y BY <2>1, LeastExists
  <2>3. m \in 0 .. n /\ ~Good(f[m], at(m)) BY <2>2
  <2>4. m # 0
    <3>1. f[0] = Start("D", 0) BY <1>0, <1>2
    <3>2. "D" \in Forms /\ 0 \in Nat BY DEF Forms
    <3>3. Holds(Start("D", 0), Goal(<<>>)) BY <3>2, StartHoldsNothing
    <3>4. Placed(Start("D", 0), Parted(<<>>)) BY <3>2, StartPlaced, StartsEmpty
    <3> QED BY <1>3, <2>3, <3>1, <3>3, <3>4, Zenon
  <2>5. m - 1 \in 0 .. n /\ ~(m <= m - 1) /\ m \in 1 .. n BY <1>0, <2>3, <2>4
  <2>6. Good(f[m - 1], at(m - 1)) BY <2>2, <2>5
  <2>7. f[m] = Process(f[m - 1], s[m]) BY <1>2, <2>3, <2>4
  <2>8. /\ s[m] \in Nat /\ at(m - 1) \in Seq(Nat) /\ at(m) = Append(at(m - 1), s[m])
    BY <1>4, <2>5
  <2>11. PartsOnce(s[m]) BY <1>20, <2>5
  <2>9. Holds(f[m], Goal(at(m)))
    <3>1. Holds(f[m], IF IsControl(s[m]) THEN Goal(at(m - 1)) ELSE Goal(at(m - 1)) \o DecomposeOne(s[m]))
      BY <2>6, <2>7, <2>8, <2>11, ProcessHolds, Zenon
    <3> QED BY <2>8, <3>1, OneMore, Zenon
  <2>10. Placed(f[m], Parted(at(m)))
    <3>1. Placed(f[m], Parted(at(m - 1)) \o DecomposeOne(s[m]))
      BY <2>6, <2>7, <2>8, <2>11, ProcessPlaces, Zenon
    <3> QED BY <2>8, <3>1, ReadsOneMore, Zenon
  <2> QED BY <2>3, <2>9, <2>10
<1>6. Good(f[n], at(n))
  <2>1. n \in 0 .. n BY <1>0
  <2> QED BY <1>5, <2>1
<1> DEFINE h == FlushText(f[n])
<1>7. Read(h) = Canon(Goal(s)) /\ Placed(h, Parted(s))
  BY <1>0, <1>6, FlushHolds, FlushPlaces, Zenon
<1>8. Transform("D", s) = h.out BY <1>1
<1> HIDE DEF h
<1>9. h.out \in Seq(Singles) BY <1>7, PlacedIs DEF Settled
<1>10. Plain(h.out) \in Seq(Atoms) BY <1>9, PlainSingles
<1>11. Read(h) = Plain(h.out) BY <1>10, PartedIs, Zenon DEF Read
<1> QED BY <1>7, <1>8, <1>11

(* What the quick check passes parts once: it says no to every row. *)
LEMMA QuickParts ==
  ASSUME NEW q \in Looked, NEW cp \in Nat, QuickStep("D", q, cp).yes
  PROVE  q.yes /\ PartsOnce(cp)
<1> DEFINE r == QuickStep("D", q, cp)
<1>1. PartsOnce(cp) \/ (~IsControl(cp) /\ (IsHangul(cp) \/ cp \in DOMAIN Decomposition))
  <2>1. ASSUME ~IsHangul(cp), cp \notin DOMAIN Decomposition PROVE PartsOnce(cp)
    BY <2>1 DEF PartsOnce, DecomposeOne
  <2>2. ASSUME IsControl(cp) PROVE PartsOnce(cp)
    <3>1. cp \in Controlled BY <2>2 DEF Controlled
    <3>2. ~IsHangul(cp)
      <4>1. \A h \in HangulBase .. HangulEnd : ~IsControl(h) BY VisibleAre DEF Leads, Visible
      <4> QED BY <2>2, <4>1, Zenon DEF IsHangul
    <3>3. cp \notin DOMAIN Decomposition
      <4>1. \A k \in 1 .. ScpMin - 1 : ~IsControl(k)
        <5>1. ScpMin \in Nat BY SMT DEF ScpMin
        <5>2. \A k \in 1 .. ScpMin - 1 : ~(k >= ScpMin) BY <5>1
        <5> QED BY <5>2, Zenon DEF IsControl
      <4>2. \A k \in DOMAIN Decomposition : k \in 1 .. ScpMin - 1 BY FormsAssumption
      <4> QED BY <2>2, <4>1, <4>2, Zenon
    <3> QED BY <2>1, <3>2, <3>3
  <2> QED BY <2>1, <2>2
<1>2. CASE IsControl(cp)
  <2>1. r = q BY <1>2 DEF QuickStep
  <2> HIDE DEF r
  <2>2. q.yes BY <2>1 DEF r
  <2> QED BY <1>1, <1>2, <2>2
<1>3. CASE ~IsControl(cp) /\ (IsHangul(cp) \/ cp \in DOMAIN Decomposition)
  <2>1. r = [starter |-> cp, prev |-> 0,
             yes |-> q.yes /\ "D" = "C" /\ Len(DecomposeOne(cp)) > 1]
    BY <1>3 DEF QuickStep
  <2>2. r.yes = (q.yes /\ "D" = "C" /\ Len(DecomposeOne(cp)) > 1)
    BY <2>1
  <2>3. "D" # "C" OBVIOUS
  <2> QED BY <2>2, <2>3, Zenon
<1>4. CASE ~IsControl(cp) /\ ~IsHangul(cp) /\ cp \notin DOMAIN Decomposition
  <2>1. CASE Ccc(cp) = 0
    <3>1. r = [q EXCEPT !.starter = cp, !.prev = 0] BY <1>4, <2>1 DEF QuickStep
    <3> HIDE DEF r
    <3>2. r.yes = q.yes BY <3>1 DEF Looked
    <3> QED BY <1>1, <1>4, <3>2, Zenon DEF r
  <2>2. CASE Ccc(cp) # 0
    <3> DEFINE yes == /\ q.yes /\ q.prev <= Ccc(cp)
                      /\ ~("D" = "C" /\ q.starter # 0 /\ ComposePair(q.starter, cp) # 0)
    <3>1. r = [q EXCEPT !.prev = Ccc(cp), !.yes = yes] BY <1>4, <2>2, Zenon DEF QuickStep
    <3>2. yes => q.yes OBVIOUS
    <3> HIDE DEF r, yes
    <3>3. r.yes = yes BY <3>1 DEF Looked
    <3> QED BY <1>1, <1>4, <3>2, <3>3, Zenon DEF r
  <2> QED BY <2>1, <2>2
<1> QED BY <1>2, <1>3, <1>4

LEMMA QuickLooks ==
  ASSUME NEW q \in Looked, NEW cp \in Nat
  PROVE  QuickStep("D", q, cp) \in Looked
<1>1. q.starter \in Nat /\ q.prev \in Int /\ q.yes \in BOOLEAN /\ Ccc(cp) \in Int
  BY CccIs DEF Looked
<1>2. CASE IsControl(cp)
  BY <1>2 DEF QuickStep
<1>3. CASE ~IsControl(cp) /\ (IsHangul(cp) \/ cp \in DOMAIN Decomposition)
  <2> DEFINE yes == q.yes /\ "D" = "C" /\ Len(DecomposeOne(cp)) > 1
  <2>1. QuickStep("D", q, cp) = [starter |-> cp, prev |-> 0, yes |-> yes]
    BY <1>3 DEF QuickStep
  <2>2. yes \in BOOLEAN OBVIOUS
  <2> HIDE DEF yes
  <2> QED BY <2>1, <2>2 DEF Looked
<1>4. CASE ~IsControl(cp) /\ ~IsHangul(cp) /\ cp \notin DOMAIN Decomposition /\ Ccc(cp) = 0
  <2>1. QuickStep("D", q, cp) = [q EXCEPT !.starter = cp, !.prev = 0] BY <1>4 DEF QuickStep
  <2>2. QuickStep("D", q, cp) = [starter |-> cp, prev |-> 0, yes |-> q.yes]
    BY <2>1 DEF Looked
  <2> QED BY <1>1, <2>2 DEF Looked
<1>5. CASE ~IsControl(cp) /\ ~IsHangul(cp) /\ cp \notin DOMAIN Decomposition /\ Ccc(cp) # 0
  <2> DEFINE yes == /\ q.yes /\ q.prev <= Ccc(cp)
                    /\ ~("D" = "C" /\ q.starter # 0 /\ ComposePair(q.starter, cp) # 0)
  <2>1. QuickStep("D", q, cp) = [q EXCEPT !.prev = Ccc(cp), !.yes = yes]
    BY <1>5, Zenon DEF QuickStep
  <2>2. yes \in BOOLEAN OBVIOUS
  <2> HIDE DEF yes
  <2>3. QuickStep("D", q, cp) = [starter |-> q.starter, prev |-> Ccc(cp), yes |-> yes]
    BY <2>1 DEF Looked
  <2> QED BY <1>1, <2>2, <2>3 DEF Looked
<1> QED BY <1>2, <1>3, <1>4, <1>5

LEMMA QuickSimple ==
  ASSUME NEW s \in Seq(Nat), QuickYes("D", s)
  PROVE  Simple(s)
<1> DEFINE n == Len(s)
<1>0. n \in Nat /\ DOMAIN s = 1 .. n /\ \A i \in 1 .. n : s[i] \in Nat BY SeqIs
<1>1. PICK f : Looks(f, "D", s) /\ QuickYes("D", s) = f[n].yes BY QuickIs
<1>2. \A i \in 0 .. n : f[i] = IF i = 0 THEN Ignorant ELSE QuickStep("D", f[i - 1], s[i])
  BY <1>1 DEF Looks
<1> HIDE DEF n
<1> DEFINE Good(i) == f[i] \in Looked /\ (f[i].yes => \A k \in 1 .. i : PartsOnce(s[k]))
           bad == {i \in 0 .. n : ~Good(i)}
<1>5. bad = {}
  <2> SUFFICES ASSUME bad # {} PROVE FALSE
    OBVIOUS
  <2>1. bad \subseteq Nat OBVIOUS
  <2>2. PICK m \in bad : \A y \in bad : m <= y BY <2>1, LeastExists
  <2>3. m \in 0 .. n /\ ~Good(m) BY <2>2
  <2>4. m # 0
    <3>1. f[0] = Ignorant BY <1>0, <1>2
    <3>2. Ignorant \in Looked BY DEF Ignorant, Looked
    <3>3. \A k \in 1 .. 0 : FALSE OBVIOUS
    <3>4. Good(0) BY <3>1, <3>2, <3>3
    <3> QED BY <2>3, <3>4
  <2>5. m - 1 \in 0 .. n /\ ~(m <= m - 1) /\ m \in 1 .. n BY <1>0, <2>3, <2>4
  <2>6. Good(m - 1) BY <2>2, <2>5
  <2>7. f[m] = QuickStep("D", f[m - 1], s[m]) /\ s[m] \in Nat BY <1>0, <1>2, <2>3, <2>4, <2>5
  <2>8. f[m] \in Looked BY <2>6, <2>7, QuickLooks
  <2>9. f[m].yes => f[m - 1].yes /\ PartsOnce(s[m]) BY <2>6, <2>7, QuickParts
  <2>10. \A k \in 1 .. m : k = m \/ k \in 1 .. m - 1 BY <2>3
  <2>11. Good(m) BY <2>6, <2>8, <2>9, <2>10
  <2> QED BY <2>3, <2>11
<1>6. Good(n)
  <2>1. n \in 0 .. n BY <1>0
  <2> QED BY <1>5, <2>1
<1>7. f[n].yes BY <1>1
<1> QED BY <1>0, <1>6, <1>7 DEF Simple

LEMMA SkipLeaves ==
  ASSUME NEW s \in Seq(Nat), QuickYes("D", s)
  PROVE  Plain(Transform("D", s)) = Plain(s)
<1>1. Plain(s) \in Seq(Atoms) /\ Rising(Plain(s)) BY QuickRises
<1>2. Plain(s) \in Seq(Nat) /\ Goal(s) = Plain(s) BY <1>1, PartedIs, Zenon DEF Goal
<1>3. Canon(Plain(s)) = Plain(s) BY <1>1, <1>2, RisingIsCanonical
<1>4. Simple(s) BY QuickSimple
<1> QED BY <1>2, <1>3, <1>4, TransformReads, Zenon

(* What the quick check passes, the bulk call would not change, whatever   *)
(* the tables say: sucf_quick_check(SUCF_FORM_D) looks at the parts and at *)
(* the order of the marks as the engine does.                              *)
THEOREM SkippingIsSafe == Spec => []SkipIsSafe
<1>1. FormsKept => SkipIsSafe
  <2>1. FormsKept => text \in Seq(Nat) BY DEF FormsKept, Resting
  <2> QED BY <2>1, SkipLeaves, Zenon DEF SkipIsSafe
<1> QED BY <1>1, FormsBegin, FormsStep, PTL DEF Spec
================================================================================
