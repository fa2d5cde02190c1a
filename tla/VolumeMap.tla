----------------------------- MODULE VolumeMap ------------------------------
(***************************************************************************)
(* What a file volume index promises: a bounded map from keys to entries.  *)
(* An entry is added under a key that has none and taken away as a whole;  *)
(* an operation that fails leaves the map alone.                           *)
(***************************************************************************)
EXTENDS Naturals, FiniteSets

CONSTANTS Keys, Entries, Bound

VARIABLE index      \* the entries, by key

Empty == [k \in {} |-> k]

Add(k, e) ==
    /\ k \notin DOMAIN index
    /\ Cardinality(DOMAIN index) < Bound
    /\ index' = [j \in DOMAIN index \cup {k} |-> IF j = k THEN e ELSE index[j]]

Delete(k) ==
    /\ k \in DOMAIN index
    /\ index' = [j \in DOMAIN index \ {k} |-> index[j]]

MapInit == index = Empty
MapNext ==
    \/ \E k \in Keys : Delete(k) \/ \E e \in Entries : Add(k, e)
    \/ index' = Empty
MapSpec == MapInit /\ [][MapNext]_index

=============================================================================
