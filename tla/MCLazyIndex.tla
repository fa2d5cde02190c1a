------------------------------ MODULE MCLazyIndex ------------------------------
(* Three rows, a fourth key that is not registered and an index of four    *)
(* slots.  All keys hash to the last two slots: chains of up to three      *)
(* rows, chains that wrap, and a missing key that runs along them.         *)
EXTENDS LazyIndex, TLC

CONSTANTS ka, kb, kc, kd, t1, t2

MCKeys == {ka, kb, kc, kd}
MCKeyOf == <<ka, kb, kc>>

MCHomes == [MCKeys -> {2, 3}]
================================================================================
