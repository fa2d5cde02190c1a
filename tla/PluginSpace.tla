---------------------------- MODULE PluginSpace ----------------------------
(***************************************************************************)
(* What the plugin subsystem promises: an additive name space.  A plugin   *)
(* claims codepoints of which none is addressable; those without an owner  *)
(* become its own, and no owner ever loses one until the whole space is    *)
(* cleared.  As long as the space is complete, every claim has made all    *)
(* its codepoints addressable, so what is addressable is what is owned and *)
(* a claim finds its codepoints without an owner; a claim that gets only   *)
(* some of them leaves the space incomplete.                               *)
(***************************************************************************)
CONSTANTS Codepoints, Claims, Unowned

VARIABLES owner, addressable, complete

spaceVars == <<owner, addressable, complete>>

Nobody == /\ owner = [c \in Codepoints |-> Unowned]
          /\ addressable = {}
          /\ complete = TRUE

\* A claim is a record of a plugin and the set of its codepoints; got is what
\* becomes addressable of them.
Claim(k, got) ==
    /\ k.codepoints \cap addressable = {}
    /\ addressable' = addressable \cup got
    /\ complete' = (complete /\ got = k.codepoints)
    /\ owner' = [c \in Codepoints |->
                    IF c \in k.codepoints /\ owner[c] = Unowned THEN k.id
                    ELSE owner[c]]

ClearAll == /\ addressable' = {}
            /\ owner' = [c \in Codepoints |-> Unowned]
            /\ complete' = TRUE

SomeClaim == \E k \in Claims : \E got \in SUBSET k.codepoints : Claim(k, got)

SpaceSpec == Nobody /\ [][ClearAll \/ SomeClaim]_spaceVars

=============================================================================
