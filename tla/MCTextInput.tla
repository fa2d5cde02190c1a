---------------------------- MODULE MCTextInput -----------------------------
(***************************************************************************)
(* TextInput for TLC: a dead key (grave), a letter that composes with it,  *)
(* a letter key that emits two codepoints, and requests that layout_bind   *)
(* and layout_compose must refuse.                                         *)
(***************************************************************************)
EXTENDS TextInput

Widths == [c \in Chars |-> IF c = "a" THEN 1 ELSE 2]

B(k, req, forb, kind, cps) ==
    [key |-> k, required |-> req, forbidden |-> forb, kind |-> kind, cps |-> cps]

Requests == {
    B("k1", {}, {}, "DEAD", <<"grave">>),
    B("k2", {"shift"}, {}, "DEAD", <<"acute">>),
    B("k2", {}, {"shift"}, "TEXT", <<"a">>),
    B("k2", {}, {}, "TEXT", <<"a", "grave">>)}

Refused == {
    B("k2", {"shift"}, {"shift"}, "TEXT", <<"a">>),
    B("k2", {"hyper"}, {}, "TEXT", <<"a">>),
    B("k2", {}, {}, "TEXT", <<"a", "a", "a">>),
    B("k2", {}, {}, "TEXT", <<>>),
    B("k2", {}, {}, "DEAD", <<"a", "a">>),
    B("k2", {}, {}, "TEXT", <<"trap">>)}

C(p, n, r) == [pending |-> p, next |-> n, result |-> r]

Folds == {C("grave", "a", "agrave"), C("acute", "a", "agrave"), C("grave", "a", "a"), C("grave", "a", "trap")}

AllRequests == Requests \cup Refused

\* The caller lets a key emit a trap.
Trapped == {B("k2", {}, {}, "TEXT", <<"trap">>)}
=============================================================================
