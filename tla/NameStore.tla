----------------------------- MODULE NameStore -----------------------------
(***************************************************************************)
(* The OpenWindows name store (compat/ow_skto_name.c) over the published-  *)
(* name table.  Its publish, resolve, release, retire, shutdown, drain and *)
(* destroy are the table's operations; ow_skto_name_resolve_at makes two   *)
(* of them, a resolve and, when the generation is not the expected one, a  *)
(* release, and other clients may act in between.                          *)
(*                                                                         *)
(* made[s][j] numbers the publication in a record and tells apart two that *)
(* have the same name and generation; the code has no such number.         *)
(***************************************************************************)
EXTENDS NameTable

CONSTANT MaxPublications    \* bound on the publications of a behaviour

VARIABLES
    made,       \* made[s][j]: number of the publication in a record
    count,      \* publications so far
    known,      \* known[h]: the generation h expects, and what it saw then
    probing     \* handles between the two halves of resolve_at

storeVars == <<vars, made, count, known, probing>>

NotKnown == [name |-> NoName, gen |-> 0, made |-> 0, withdrawn |-> FALSE]

StoreInit ==
    /\ Init
    /\ made = [s \in SlotIds |-> [j \in SnapIds |-> 0]]
    /\ count = 0
    /\ known = [h \in Handles |-> NotKnown]
    /\ probing = {}

\* ow_skto_name_publish.  The record that became visible gets a new number.
StorePublish(n) ==
    /\ count < MaxPublications
    /\ PublishFresh(n) \/ PublishReplace(n)
    /\ count' = count + 1
    /\ made' = [s \in SlotIds |->
                  IF slots'[s] = slots[s] THEN made[s]
                  ELSE [made[s] EXCEPT ![slots'[s].active] = count']]
    /\ UNCHANGED <<known, probing>>

\* A client learns a generation from a resolve that takes no reference.
Learn(h, n) ==
    /\ h \notin probing
    /\ known[h] = NotKnown
    /\ Observe(n)
    /\ \E s \in SlotIds :
          /\ ~shutting_down /\ FirstMatch(s, n)
          /\ known' = [known EXCEPT ![h] =
                [name |-> n, gen |-> Active(s).gen,
                 made |-> made[s][slots[s].active], withdrawn |-> FALSE]]
    /\ UNCHANGED <<made, count, probing>>

Forget(h) ==
    /\ h \notin probing /\ view[h] = NoView /\ known[h] # NotKnown
    /\ known' = [known EXCEPT ![h] = NotKnown]
    /\ UNCHANGED <<vars, made, count, probing>>

\* ow_skto_name_resolve_at: the resolve acquires a reference.
ResolveAtBegin(h) ==
    /\ known[h] # NotKnown
    /\ Resolve(h, known[h].name)
    /\ probing' = probing \cup {h}
    /\ UNCHANGED <<made, count, known>>

\* Slip: the generation is not compared.
Expected_Any(h) == TRUE
Expected(h) == view[h].gen = known[h].gen

\* ... and the generation that was returned is the expected one.
ResolveAtAccept(h) ==
    /\ h \in probing
    /\ Expected(h)
    /\ probing' = probing \ {h}
    /\ UNCHANGED <<vars, made, count, known>>

\* ... or it is not, and the reference is released again.
\* Slip: the rejected reference is kept.
Rejected_Kept(h) == view' = [view EXCEPT ![h] = NoView]
                    /\ UNCHANGED <<table, ret>>
Rejected(h) == Release(h)
ResolveAtReject(h) ==
    /\ h \in probing
    /\ ~Expected(h)
    /\ Rejected(h)
    /\ probing' = probing \ {h}
    /\ UNCHANGED <<made, count, known>>

StoreRelease(h) == /\ h \notin probing
                   /\ Release(h)
                   /\ UNCHANGED <<made, count, known, probing>>

\* Who expected the name remembers that it was withdrawn since (history).
StoreRetire(n) ==
    /\ Retire(n)
    /\ known' = [h \in Handles |->
                    IF known[h].name = n THEN [known[h] EXCEPT !.withdrawn = TRUE]
                    ELSE known[h]]
    /\ UNCHANGED <<made, count, probing>>

StoreShutdown == Shutdown /\ UNCHANGED <<made, count, known, probing>>

\* A successful destroy withdraws every name.
StoreDestroy ==
    /\ Destroy
    /\ known' = [h \in Handles |->
                    IF known[h] # NotKnown /\ ret'.st = "OK"
                    THEN [known[h] EXCEPT !.withdrawn = TRUE] ELSE known[h]]
    /\ UNCHANGED <<made, count, probing>>

StoreNext ==
    \/ \E n \in Names : \/ StorePublish(n) \/ StoreRetire(n)
                        \/ \E h \in Handles : Learn(h, n)
    \/ \E h \in Handles :
          \/ Forget(h) \/ ResolveAtBegin(h) \/ ResolveAtAccept(h)
          \/ ResolveAtReject(h) \/ StoreRelease(h)
    \/ StoreShutdown \/ StoreDestroy

StoreSpec == StoreInit /\ [][StoreNext]_storeVars

\* A call of resolve_at that began comes to its end, clients release what
\* they were given, and the owner keeps asking for the end.
StoreFairSpec ==
    /\ StoreSpec
    /\ \A h \in Handles :
          /\ WF_storeVars(ResolveAtAccept(h) \/ ResolveAtReject(h))
          /\ WF_storeVars(StoreRelease(h))
    /\ WF_storeVars(shutting_down /\ StoreDestroy)

-----------------------------------------------------------------------------
\* A view that resolve_at accepted reads the very publication whose
\* generation the client learned, unless the name was withdrawn in between:
\* generations count publications of one slot, not of one name.
AcceptedIsExpected ==
    \A h \in Handles \ probing :
        /\ Holding(h)
        /\ ~known[h].withdrawn
        => made[view[h].slot][view[h].snap] = known[h].made

\* Probes in flight cannot keep a shutdown from ending.
StoreShutdownCompletes ==
    shutting_down ~> (ret = [op |-> "destroy", st |-> "OK"])

=============================================================================
