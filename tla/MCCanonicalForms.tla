---------------------------- MODULE MCCanonicalForms ----------------------------
(* A letter with two marks it composes with, a mark of the class of one of *)
(* them that the caller has tailored, a pair of starters, a singleton, a   *)
(* letter whose row gives it to itself, a syllable and the jamo of         *)
(* syllables, a control and a native codepoint.  Rows and classes are      *)
(* those of suas_sucf.c.                                                   *)
EXTENDS CanonicalForms

cc == \h63
acute == \h301
cedilla == \h327
private == \hE000
cAcute == \h107
cCedilla == \hE7
oe == \h153
longS == \h17F
alpha == \h391
longSDot == \h1E9B
angstrom == \h212B
aRing == \hC5
jamoL == \h1100
jamoV == \h1161
jamoT == \h11A8
gag == \hAC01
halt == \h110000
native == \h120000

MCCodepoints ==
  {cc, acute, cedilla, private, cAcute, oe, longS, alpha, jamoL, jamoV, jamoT, gag, halt, native}
MCDecomposition ==
  (cAcute :> <<cc, acute>>) @@ (cCedilla :> <<cc, cedilla>>)
    @@ (oe :> <<\h6F, \h65>>) @@ (longS :> <<\h73>>) @@ (alpha :> <<alpha, acute>>)
    @@ (longSDot :> <<longS, \h307>>) @@ (angstrom :> <<aRing>>) @@ (aRing :> <<\h41, \h30A>>)
MCClass == (acute :> 230) @@ (cedilla :> 202) @@ (\h307 :> 230) @@ (\h30A :> 230)
MCTailored == private :> 230
================================================================================
