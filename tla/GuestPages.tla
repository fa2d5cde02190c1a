------------------------------- MODULE GuestPages -------------------------------
(***************************************************************************)
(* The e-SUST transport (sust/src/esust.c): a table of mapped guest pages  *)
(* kept in the order they were mapped, until a removal moves the last      *)
(* entry into the gap, and the frames of page and offset that are on their *)
(* way between host and guest while pages come and go.                     *)
(*                                                                         *)
(* A codepoint of the host is a page of the host and an offset in it.  The *)
(* flag PRESENT is in every entry and is left out.                         *)
(***************************************************************************)
EXTENDS Integers, Sequences, FiniteSets, SequencesExt

CONSTANTS Pages, Bases, Flags, PageSize, Traps, MaxPages, Refused, Done,
          MaxFrames   \* bound: frames on their way

Codepoints == [base : Bases, offset : 0 .. PageSize - 1]

ASSUME PagesAssumption ==
  /\ PageSize \in Nat \ {0} /\ MaxPages \in Nat /\ MaxFrames \in Nat
  /\ Traps \subseteq Codepoints
  /\ Refused \notin Codepoints \cup [page : Pages, offset : 0 .. PageSize - 1]

VARIABLES table,    \* the entries in use
          asked,    \* the last call; encoding and decoding a frame translate
          answer,   \* what it returned
          wire      \* frames, each with the codepoint it was made for and
                    \* whether the mapping of its page is still the same

vars == <<table, asked, answer, wire>>

Entry == [page : Pages, base : Bases, flags : Flags]
Frame == [page : Pages, offset : 0 .. PageSize - 1, cp : Codepoints, intact : BOOLEAN]

Init == table = <<>> /\ asked = <<>> /\ answer = Refused /\ wire = {}

--------------------------------------------------------------------------------
(* find_page, host_base_valid *)
Find(p) == SelectInSeq(table, LAMBDA e : e.page = p)
BaseValid(at) == at.offset = 0 /\ ~\E c \in Traps : c.base = at.base

(* The caller changes what a page means: frames that name it are void. *)
Void(gone) == wire' = {IF f.page \in gone THEN [f EXCEPT !.intact = FALSE] ELSE f : f \in wire}

(* Slip: a page that is mapped already gets a second entry. *)
MapPage_Append(p, at, f) ==
  IF BaseValid(at) /\ Len(table) < MaxPages
    THEN /\ table' = Append(table, [page |-> p, base |-> at.base, flags |-> f])
         /\ answer' = Done
         /\ Void({p})
    ELSE answer' = Refused /\ UNCHANGED <<table, wire>>

MapPage(p, at, f) ==
  LET i == Find(p)
      entry == [page |-> p, base |-> at.base, flags |-> f]
  IN \/ /\ BaseValid(at) /\ i # 0
        /\ table' = [table EXCEPT ![i] = entry]
        /\ answer' = Done
        /\ IF table[i].base = at.base THEN UNCHANGED wire ELSE Void({p})
     \/ /\ BaseValid(at) /\ i = 0 /\ Len(table) < MaxPages
        /\ table' = Append(table, entry)
        /\ answer' = Done
        /\ UNCHANGED wire
     \/ /\ ~BaseValid(at) \/ (i = 0 /\ Len(table) >= MaxPages)
        /\ answer' = Refused
        /\ UNCHANGED <<table, wire>>

(* Slip: the count goes down, but the last entry stays where it is. *)
UnmapPage_Drop(p) ==
  LET i == Find(p)
  IN \/ /\ i # 0
        /\ table' = Front(table)
        /\ answer' = Done
        /\ Void({p})
     \/ i = 0 /\ answer' = Refused /\ UNCHANGED <<table, wire>>

UnmapPage(p) ==
  LET i == Find(p)
      last == Len(table)
  IN \/ /\ i # 0
        /\ table' = [j \in 1 .. last - 1 |-> IF j = i THEN table[last] ELSE table[j]]
        /\ answer' = Done
        /\ Void({p})
     \/ i = 0 /\ answer' = Refused /\ UNCHANGED <<table, wire>>

UnmapAll == table' = <<>> /\ Void(Pages) /\ UNCHANGED answer

IsPageMapped(p) ==
  /\ answer' = IF Find(p) = 0 THEN Refused ELSE table[Find(p)].flags
  /\ UNCHANGED <<table, wire>>

(* The first entry whose host page holds the codepoint. *)
FindHost(c) == SelectInSeq(table, LAMBDA e : e.base = c.base)
Guest(c) ==
  LET i == FindHost(c)
  IN IF c \in Traps \/ i = 0 THEN Refused ELSE [page |-> table[i].page, offset |-> c.offset]

(* The codepoint at a coordinate; it is checked once more. *)
Host(p, o) ==
  LET i == Find(p)
      c == [base |-> table[i].base, offset |-> o]
  IN IF o >= PageSize \/ i = 0 THEN Refused
     ELSE IF c \in Traps THEN Refused ELSE c

TranslateToGuest(c) == answer' = Guest(c) /\ UNCHANGED <<table, wire>>
TranslateToHost(p, o) == answer' = Host(p, o) /\ UNCHANGED <<table, wire>>

EncodeIpc(c) ==
  /\ Cardinality(wire) < MaxFrames
  /\ answer' = Guest(c)
  /\ IF Guest(c) = Refused THEN UNCHANGED wire
     ELSE wire' = wire \cup {[page |-> Guest(c).page, offset |-> c.offset,
                              cp |-> c, intact |-> TRUE]}
  /\ UNCHANGED table

(* A frame may arrive more than once. *)
DecodeIpc(f) ==
  /\ answer' = Host(f.page, f.offset)
  /\ wire' \in {wire, wire \ {f}}
  /\ UNCHANGED table

Ask(call) == asked' = call

Next ==
  \/ UnmapAll /\ Ask(<<"unmap_all">>)
  \/ \E p \in Pages :
       \/ \E at \in Codepoints, f \in Flags : MapPage(p, at, f) /\ Ask(<<"map", p, at, f>>)
       \/ UnmapPage(p) /\ Ask(<<"unmap", p>>)
       \/ IsPageMapped(p) /\ Ask(<<"is_mapped", p>>)
       \/ \E o \in 0 .. PageSize : TranslateToHost(p, o) /\ Ask(<<"to_host", p, o>>)
  \/ \E c \in Codepoints : (TranslateToGuest(c) \/ EncodeIpc(c)) /\ Ask(<<"to_guest", c>>)
  \/ \E f \in wire : DecodeIpc(f) /\ Ask(<<"to_host", f.page, f.offset>>)

Spec == Init /\ [][Next]_vars

--------------------------------------------------------------------------------
(* Entries are well-formed and within the table, and no two are of one     *)
(* page: removal moves an entry and never copies one.  No mapped page has  *)
(* a trap in it.                                                           *)
TypeOK ==
  /\ table \in Seq(Entry) /\ Len(table) <= MaxPages
  /\ \A i, j \in DOMAIN table : table[i].page = table[j].page => i = j
  /\ \A i \in DOMAIN table, c \in Traps : table[i].base # c.base
  /\ wire \subseteq Frame

(* A frame decodes to the codepoint it was made for as long as its page    *)
(* keeps its mapping, whatever happens to the pages around it in the table *)
(* meanwhile (SUTR-4, section 3.3).                                        *)
FrameFaithful == \A f \in wire : f.intact => Host(f.page, f.offset) = f.cp

(* The table in its changing order is a map, and every call answers as the *)
(* map does.                                                               *)
Mapping ==
  [p \in {table[i].page : i \in DOMAIN table} |->
     [base |-> table[Find(p)].base, flags |-> table[Find(p)].flags]]
Abstract == INSTANCE PageMap WITH map <- Mapping
RefinesPageMap == Abstract!PageSpec
================================================================================
