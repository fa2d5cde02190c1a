---------------------------- MODULE MCNameStore ----------------------------
(* NameStore for TLC: two names, two clients.                              *)
EXTENDS NameStore, TLC

CONSTANTS n1, n2, h1, h2

MCNames == {n1, n2}
MCLen == [n \in MCNames |-> 1]
MCHandles == {h1, h2}

=============================================================================
