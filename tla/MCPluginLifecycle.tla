------------------------- MODULE MCPluginLifecycle -------------------------
(***************************************************************************)
(* PluginLifecycle for TLC, over 9 codepoints: 0 stands for the Bridge and *)
(* the System Control Plane, 1-5 for the Native plane, 6 and 7 for a trap  *)
(* and the Sentinel, 8 for ExtSUCS.                                        *)
(***************************************************************************)
EXTENDS PluginLifecycle, TLC

R(a, b) == [start |-> a, end |-> b]
Blob(i, f, rs, ok) == [id |-> i, form |-> f, ranges |-> rs, intact |-> ok]

FirstA == Blob("a", "well", <<R(3, 4)>>, TRUE)
SecondA == Blob("a", "well", <<R(5, 5)>>, TRUE)
CollidesWithA == Blob("b", "well", <<R(8, 8), R(4, 4)>>, TRUE)
SelfOverlap == Blob("b", "well", <<R(1, 2), R(2, 2)>>, TRUE)
Corrupt == Blob("a", "well", <<R(1, 1)>>, FALSE)
OnFrozen == Blob("b", "well", <<R(0, 1)>>, TRUE)
OnTrap == Blob("b", "well", <<R(5, 8)>>, TRUE)
Backwards == Blob("b", "well", <<R(2, 1)>>, TRUE)
NoRanges == Blob("b", "well", <<>>, TRUE)
Cut == Blob("b", "truncated", <<R(1, 1)>>, TRUE)
Foreign == Blob("b", "INVALID_BLOB", <<R(1, 1)>>, TRUE)

AllBlobs == {FirstA, SecondA, CollidesWithA, SelfOverlap, Corrupt,
             OnFrozen, OnTrap, Backwards, NoRanges, Cut, Foreign}

=============================================================================
