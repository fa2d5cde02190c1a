-------------------------------- MODULE PageMap --------------------------------
(***************************************************************************)
(* What e-SUST promises (sust/include/esust.h): a map from guest pages to  *)
(* pages of the host's codepoints, through which coordinates are           *)
(* translated.  Nothing but the map decides an answer, and it never leads  *)
(* to a trap.                                                              *)
(***************************************************************************)
EXTENDS Integers, FiniteSets

CONSTANTS
    Pages,      \* guest page indices
    Bases,      \* pages of the host
    Flags,
    PageSize,   \* codepoints in a page
    Traps,      \* codepoints a guest never reaches
    MaxPages,
    Done,       \* the answer true
    Refused     \* the answer false, or 0 bytes

VARIABLES
    map,        \* the mapped pages, with base and flags
    asked,      \* the last call
    answer      \* what it returned

pvars == <<map, asked, answer>>

Codepoints == [base : Bases, offset : 0 .. PageSize - 1]

Usable(at) == at.offset = 0 /\ \A c \in Traps : c.base # at.base

Empty == map = [p \in {} |-> 0] /\ asked = <<>> /\ answer = Refused

Map(p, at, f) ==
    LET room == p \in DOMAIN map \/ Cardinality(DOMAIN map) < MaxPages
    IN IF Usable(at) /\ room
         THEN /\ answer' = Done
              /\ map' = [q \in DOMAIN map \cup {p} |->
                           IF q = p THEN [base |-> at.base, flags |-> f] ELSE map[q]]
         ELSE answer' = Refused /\ UNCHANGED map

Unmap(p) ==
    /\ answer' = IF p \in DOMAIN map THEN Done ELSE Refused
    /\ map' = [q \in DOMAIN map \ {p} |-> map[q]]

UnmapAll == map' = [p \in {} |-> 0] /\ UNCHANGED answer

IsMapped(p) ==
    /\ answer' = IF p \in DOMAIN map THEN map[p].flags ELSE Refused
    /\ UNCHANGED map

\* Where several pages show a codepoint, any of them may be named.
ToGuest(c) ==
    LET shown == {p \in DOMAIN map : map[p].base = c.base}
    IN /\ IF shown = {} \/ c \in Traps
            THEN answer' = Refused
            ELSE \E p \in shown : answer' = [page |-> p, offset |-> c.offset]
       /\ UNCHANGED map

ToHost(p, o) ==
    /\ answer' = IF p \in DOMAIN map /\ o < PageSize
                   THEN [base |-> map[p].base, offset |-> o] ELSE Refused
    /\ UNCHANGED map

Ask(call) == asked' = call

Use ==
    \/ UnmapAll /\ Ask(<<"unmap_all">>)
    \/ \E p \in Pages :
          \/ \E at \in Codepoints, f \in Flags : Map(p, at, f) /\ Ask(<<"map", p, at, f>>)
          \/ Unmap(p) /\ Ask(<<"unmap", p>>)
          \/ IsMapped(p) /\ Ask(<<"is_mapped", p>>)
          \/ \E o \in 0 .. PageSize : ToHost(p, o) /\ Ask(<<"to_host", p, o>>)
    \/ \E c \in Codepoints : ToGuest(c) /\ Ask(<<"to_guest", c>>)

PageSpec == Empty /\ [][Use]_pvars
================================================================================
