---------------------------- MODULE NameRegistry ----------------------------
(***************************************************************************)
(* What the published-name table promises its clients: a registry that     *)
(* maps each visible name to a generation, and readers that hold a         *)
(* publication (a name together with its generation) which nothing changes *)
(* until they let it go.  There are no slots, records or counters here.    *)
(***************************************************************************)
EXTENDS Integers

CONSTANTS
    Names, Handles, MaxGen,
    Absent,     \* a name nobody can look up
    Nothing     \* a handle that holds no publication

VARIABLES
    visible,    \* visible[n]: the generation a lookup of n sees, or Absent
    held,       \* held[h]: the publication handle h reads
    closed      \* publication and acquisition are refused

rvars == <<visible, held, closed>>

Open == /\ visible = [n \in Names |-> Absent]
        /\ held = [h \in Handles |-> Nothing]
        /\ closed = FALSE

\* A first publication has generation 0, a replacement the next one.
Publish(n) ==
    /\ ~closed
    /\ \E g \in 0 .. MaxGen :
          /\ IF visible[n] = Absent THEN g = 0 ELSE g = visible[n] + 1
          /\ visible' = [visible EXCEPT ![n] = g]
    /\ UNCHANGED <<held, closed>>

Withdraw(n) ==
    /\ visible[n] # Absent
    /\ visible' = [visible EXCEPT ![n] = Absent]
    /\ UNCHANGED <<held, closed>>

Acquire(h, n) ==
    /\ ~closed
    /\ held[h] = Nothing
    /\ visible[n] # Absent
    /\ held' = [held EXCEPT ![h] = [name |-> n, gen |-> visible[n]]]
    /\ UNCHANGED <<visible, closed>>

LetGo(h) ==
    /\ held[h] # Nothing
    /\ held' = [held EXCEPT ![h] = Nothing]
    /\ UNCHANGED <<visible, closed>>

Close == closed' = TRUE /\ UNCHANGED <<visible, held>>

\* The registry ends only when nobody holds anything.
Reset ==
    /\ \A h \in Handles : held[h] = Nothing
    /\ visible' = [n \in Names |-> Absent]
    /\ closed' = FALSE
    /\ UNCHANGED held

Step ==
    \/ \E n \in Names :
          Publish(n) \/ Withdraw(n) \/ \E h \in Handles : Acquire(h, n)
    \/ \E h \in Handles : LetGo(h)
    \/ Close \/ Reset

RegistrySpec == Open /\ [][Step]_rvars

=============================================================================
