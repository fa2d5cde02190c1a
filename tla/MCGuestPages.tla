------------------------------ MODULE MCGuestPages ------------------------------
(* Three guest pages for a table of two entries and three pages of the     *)
(* host, of which one holds a trap: guests share a page of the host, a     *)
(* full table refuses, and removal moves the last entry into a gap.        *)
EXTENDS GuestPages

CONSTANTS p1, p2, p3, b1, b2, b3, ro, rw
MCPages == {p1, p2, p3}
MCBases == {b1, b2, b3}
MCFlags == {ro, rw}
MCTraps == {[base |-> b3, offset |-> 1]}

(* Calls and answers decide nothing that follows. *)
Lasting == <<table, wire>>
================================================================================
