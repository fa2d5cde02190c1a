---------------------------- MODULE MCNameTable ----------------------------
(***************************************************************************)
(* NameTable for TLC: two publishable names of equal length and one that   *)
(* is only ever asked for; the .cfg files choose sizes and readers.        *)
(***************************************************************************)
EXTENDS NameTable, TLC

CONSTANTS n1, n2, odd, h1, h2

MCNames == {n1, n2, odd}
MCPublishable == {n1, n2}
MCLen == [n \in MCNames |-> IF n = odd THEN 2 ELSE 1]
MCHandles == {h1, h2}
Symmetry == Permutations(MCPublishable) \cup Permutations(MCHandles)

=============================================================================
