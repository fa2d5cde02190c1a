---------------------------- MODULE TransportProofs ----------------------------
(* The page table of e-SUST is a map and frames keep their meaning, for    *)
(* any number of pages and frames; the converters are faithful, stay in    *)
(* their buffers and take up where they stopped, for sources of any length *)
(* below LebCap, of any units, cut into pieces in any way.                 *)
EXTENDS GuestPages, Converter, FiniteSetTheorems, WellFoundedInduction,
        SequenceTheorems, TLAPS

(* A frame that is still good names an entry of the table. *)
Backed ==
  \A f \in wire : f.intact =>
    \E i \in DOMAIN table :
      table[i].page = f.page /\ f.cp = [base |-> table[i].base, offset |-> f.offset]

IInv == TypeOK /\ Backed

(* What the two searches find. *)
FindSpec ==
  \A p \in Pages :
    \/ Find(p) = 0 /\ \A i \in DOMAIN table : table[i].page # p
    \/ Find(p) \in DOMAIN table /\ table[Find(p)].page = p

FindHostSpec ==
  \A c \in Codepoints :
    \/ FindHost(c) = 0 /\ \A i \in DOMAIN table : table[i].base # c.base
    \/ FindHost(c) \in DOMAIN table /\ table[FindHost(c)].base = c.base

--------------------------------------------------------------------------------
(* Least numbers. *)
LEMMA LeastExists ==
  ASSUME NEW I, I \subseteq Nat, I # {}
  PROVE  \E x \in I : \A y \in I : x <= y
<1>1. PICK x \in I : \A y \in I : ~(<<y, x>> \in OpToRel(<, Nat))
  BY NatLessThanWellFounded, WFMin
<1>2. \A y \in I : x <= y
  <2> SUFFICES ASSUME NEW y \in I PROVE ~(y < x)
    OBVIOUS
  <2>1. y < x => <<y, x>> \in {s \in Nat \X Nat : s[1] < s[2]}
    OBVIOUS
  <2>2. OpToRel(<, Nat) = {s \in Nat \X Nat : s[1] < s[2]}
    BY Zenon DEF OpToRel
  <2> QED BY <1>1, <2>1, <2>2
<1> QED BY <1>2

LEMMA MinIs ==
  ASSUME NEW I, I \subseteq Nat, I # {}
  PROVE  Min(I) \in I /\ \A y \in I : Min(I) <= y
BY LeastExists DEF Min

LEMMA Searches == TypeOK => FindSpec /\ FindHostSpec
<1> SUFFICES ASSUME TypeOK PROVE FindSpec /\ FindHostSpec
  OBVIOUS
<1>0. DOMAIN table = 1 .. Len(table) /\ Len(table) \in Nat
  BY DEF TypeOK
<1>1. FindSpec
  <2> SUFFICES ASSUME NEW p \in Pages
               PROVE \/ Find(p) = 0 /\ \A i \in DOMAIN table : table[i].page # p
                     \/ Find(p) \in DOMAIN table /\ table[Find(p)].page = p
    BY DEF FindSpec
  <2> DEFINE I == {i \in 1 .. Len(table) : table[i].page = p}
  <2>1. Find(p) = IF I # {} THEN Min(I) ELSE 0
    BY DEF Find, SelectInSeq
  <2>2. I # {} => Min(I) \in I
    <3>1. I \subseteq Nat
      BY <1>0
    <3> HIDE DEF I
    <3> QED BY <3>1, MinIs
  <2> QED BY <1>0, <2>1, <2>2
<1>2. FindHostSpec
  <2> SUFFICES ASSUME NEW c \in Codepoints
               PROVE \/ FindHost(c) = 0 /\ \A i \in DOMAIN table : table[i].base # c.base
                     \/ FindHost(c) \in DOMAIN table /\ table[FindHost(c)].base = c.base
    BY DEF FindHostSpec
  <2> DEFINE I == {i \in 1 .. Len(table) : table[i].base = c.base}
  <2>1. FindHost(c) = IF I # {} THEN Min(I) ELSE 0
    BY DEF FindHost, SelectInSeq
  <2>2. I # {} => Min(I) \in I
    <3>1. I \subseteq Nat
      BY <1>0
    <3> HIDE DEF I
    <3> QED BY <3>1, MinIs
  <2> QED BY <1>0, <2>1, <2>2
<1> QED BY <1>1, <1>2

LEMMA EntryAt ==
  ASSUME TypeOK, NEW i \in DOMAIN table
  PROVE  table[i] \in Entry /\ table[i].page \in Pages /\ table[i].base \in Bases
<1>1. table[i] \in Entry
  BY DEF TypeOK
<1> QED BY <1>1 DEF Entry

(* The entry of a page decides what its coordinates mean, and the last     *)
(* check never fires.                                                      *)
LEMMA HostIs ==
  ASSUME TypeOK, NEW i \in DOMAIN table, NEW o \in 0 .. PageSize - 1
  PROVE  Host(table[i].page, o) = [base |-> table[i].base, offset |-> o]
<1> DEFINE p == table[i].page
           c == [base |-> table[i].base, offset |-> o]
<1>1. p \in Pages
  BY EntryAt
<1>2. Find(p) = i
  BY <1>1, Searches DEF FindSpec, TypeOK
<1>3. c \notin Traps
  BY DEF TypeOK
<1>4. ~(o >= PageSize) /\ i # 0
  BY PagesAssumption DEF TypeOK
<1> QED BY <1>2, <1>3, <1>4 DEF Host

LEMMA HostOf ==
  ASSUME TypeOK, NEW p \in Pages, NEW o \in 0 .. PageSize
  PROVE  Host(p, o) = IF o = PageSize \/ \A i \in DOMAIN table : table[i].page # p
                        THEN Refused
                        ELSE [base |-> table[Find(p)].base, offset |-> o]
<1>1. CASE o = PageSize
  BY <1>1, PagesAssumption DEF Host
<1>2. CASE o # PageSize /\ \A i \in DOMAIN table : table[i].page # p
  <2>1. Find(p) = 0
    BY <1>2, Searches DEF FindSpec
  <2> QED BY <1>2, <2>1 DEF Host
<1>3. CASE o # PageSize /\ \E i \in DOMAIN table : table[i].page = p
  <2>1. Find(p) \in DOMAIN table /\ table[Find(p)].page = p
    BY <1>3, Searches DEF FindSpec
  <2>2. o \in 0 .. PageSize - 1
    BY <1>3, PagesAssumption
  <2> QED BY <1>3, <2>1, <2>2, HostIs
<1> QED BY <1>1, <1>2, <1>3

LEMMA GuestIs ==
  ASSUME TypeOK, NEW c \in Codepoints
  PROVE  \/ /\ Guest(c) = Refused
            /\ c \in Traps \/ \A i \in DOMAIN table : table[i].base # c.base
         \/ \E i \in DOMAIN table :
              /\ c \notin Traps /\ table[i].base = c.base
              /\ Guest(c) = [page |-> table[i].page, offset |-> c.offset]
<1>1. CASE FindHost(c) = 0
  BY <1>1, Searches DEF Guest, FindHostSpec, TypeOK
<1>2. CASE FindHost(c) # 0
  BY <1>2, Searches DEF Guest, FindHostSpec
<1> QED BY <1>1, <1>2

LEMMA BackedFaithful == IInv => FrameFaithful
<1> SUFFICES ASSUME IInv, NEW f \in wire, f.intact PROVE Host(f.page, f.offset) = f.cp
  BY DEF FrameFaithful
<1>1. PICK i \in DOMAIN table :
        table[i].page = f.page /\ f.cp = [base |-> table[i].base, offset |-> f.offset]
  BY DEF IInv, Backed
<1>2. f.offset \in 0 .. PageSize - 1
  BY DEF IInv, TypeOK, Frame
<1> QED BY <1>1, <1>2, HostIs DEF IInv

--------------------------------------------------------------------------------
LEMMA InitInv == Init => IInv
  BY PagesAssumption DEF Init, IInv, TypeOK, Backed, Codepoints

(* What map and unmap do to the table, entry by entry. *)
EntryOf(p, at, f) == [page |-> p, base |-> at.base, flags |-> f]

Remaps(p, at, f, i) ==
  /\ BaseValid(at) /\ answer' = Done
  /\ table[i].page = p
  /\ table' \in Seq(Entry) /\ Len(table') = Len(table) /\ DOMAIN table' = DOMAIN table
  /\ \A j \in DOMAIN table : table'[j] = IF j = i THEN EntryOf(p, at, f) ELSE table[j]
  /\ IF table[i].base = at.base THEN UNCHANGED wire ELSE Void({p})

Appends(p, at, f) ==
  /\ BaseValid(at) /\ answer' = Done
  /\ Len(table) < MaxPages /\ \A j \in DOMAIN table : table[j].page # p
  /\ table' \in Seq(Entry) /\ Len(table') = Len(table) + 1
  /\ DOMAIN table' = 1 .. Len(table) + 1
  /\ \A j \in DOMAIN table' :
       table'[j] = IF j \in DOMAIN table THEN table[j] ELSE EntryOf(p, at, f)
  /\ UNCHANGED wire

Refuses(p, at) ==
  /\ answer' = Refused /\ UNCHANGED <<table, wire>>
  /\ ~BaseValid(at) \/ (Len(table) >= MaxPages /\ \A j \in DOMAIN table : table[j].page # p)

Removes(p, i) ==
  /\ answer' = Done /\ Void({p})
  /\ table[i].page = p
  /\ table' \in Seq(Entry) /\ Len(table') = Len(table) - 1 /\ DOMAIN table' = 1 .. Len(table) - 1
  /\ \A j \in DOMAIN table' : table'[j] = IF j = i THEN table[Len(table)] ELSE table[j]

LEMMA MapEffect ==
  ASSUME TypeOK, NEW p \in Pages, NEW at \in Codepoints, NEW f \in Flags, MapPage(p, at, f)
  PROVE  (\E i \in DOMAIN table : Remaps(p, at, f, i)) \/ Appends(p, at, f) \/ Refuses(p, at)
<1> DEFINE i == Find(p)
           entry == EntryOf(p, at, f)
<1>0. /\ entry \in Entry
      /\ DOMAIN table = 1 .. Len(table) /\ Len(table) \in Nat /\ MaxPages \in Nat
  BY PagesAssumption DEF TypeOK, Entry, Codepoints, EntryOf
<1>1. CASE BaseValid(at) /\ i # 0
  <2>1. i \in DOMAIN table /\ table[i].page = p
    BY <1>1, Searches DEF FindSpec
  <2>2. /\ table' = [table EXCEPT ![i] = entry] /\ answer' = Done
        /\ IF table[i].base = at.base THEN UNCHANGED wire ELSE Void({p})
    BY <1>1 DEF MapPage, EntryOf
  <2> HIDE DEF i
  <2>3. /\ table' \in Seq(Entry) /\ Len(table') = Len(table) /\ DOMAIN table' = DOMAIN table
        /\ \A j \in DOMAIN table : table'[j] = IF j = i THEN entry ELSE table[j]
    BY <1>0, <2>1, <2>2 DEF TypeOK
  <2> QED BY <1>1, <2>1, <2>2, <2>3 DEF Remaps
<1>2. CASE BaseValid(at) /\ i = 0 /\ Len(table) < MaxPages
  <2>1. \A j \in DOMAIN table : table[j].page # p
    BY <1>0, <1>2, Searches DEF FindSpec
  <2>2. table' = Append(table, entry) /\ wire' = wire /\ answer' = Done
    BY <1>0, <1>2 DEF MapPage, EntryOf
  <2>3. /\ table' \in Seq(Entry) /\ Len(table') = Len(table) + 1
        /\ DOMAIN table' = 1 .. Len(table) + 1
        /\ \A j \in DOMAIN table' : table'[j] = IF j \in DOMAIN table THEN table[j] ELSE entry
    BY <1>0, <2>2 DEF TypeOK
  <2> QED BY <1>2, <2>1, <2>2, <2>3 DEF Appends
<1>3. CASE ~BaseValid(at) \/ (i = 0 /\ Len(table) >= MaxPages)
  <2>1. answer' = Refused /\ UNCHANGED <<table, wire>>
    BY <1>0, <1>3 DEF MapPage, EntryOf
  <2>2. i = 0 => \A j \in DOMAIN table : table[j].page # p
    BY <1>0, Searches DEF FindSpec
  <2> HIDE DEF i
  <2> QED BY <1>3, <2>1, <2>2 DEF Refuses
<1>4. \/ BaseValid(at) /\ i # 0
      \/ BaseValid(at) /\ i = 0 /\ Len(table) < MaxPages
      \/ ~BaseValid(at) \/ (i = 0 /\ Len(table) >= MaxPages)
  BY <1>0
<1> HIDE DEF i
<1> QED BY <1>1, <1>2, <1>3, <1>4

LEMMA UnmapEffect ==
  ASSUME TypeOK, NEW p \in Pages, UnmapPage(p)
  PROVE  \/ \E i \in DOMAIN table : Removes(p, i)
         \/ /\ answer' = Refused /\ UNCHANGED <<table, wire>>
            /\ \A j \in DOMAIN table : table[j].page # p
<1> DEFINE i == Find(p)
           last == Len(table)
<1>0. DOMAIN table = 1 .. last /\ last \in Nat
  BY DEF TypeOK
<1>1. CASE i # 0
  <2>1. i \in DOMAIN table /\ table[i].page = p
    BY <1>1, Searches DEF FindSpec
  <2>2. /\ table' = [j \in 1 .. last - 1 |-> IF j = i THEN table[last] ELSE table[j]]
        /\ Void({p}) /\ answer' = Done
    BY <1>1, <1>0, <2>1 DEF UnmapPage
  <2> HIDE DEF i
  <2>3. last \in DOMAIN table /\ last - 1 \in Nat
    BY <1>0, <2>1
  <2>4. \A j \in 1 .. last - 1 : (IF j = i THEN table[last] ELSE table[j]) \in Entry
    BY <1>0, <2>3, EntryAt
  <2>5. /\ table' \in Seq(Entry) /\ Len(table') = last - 1 /\ DOMAIN table' = 1 .. last - 1
        /\ \A j \in DOMAIN table' : table'[j] = IF j = i THEN table[last] ELSE table[j]
    BY <2>2, <2>3, <2>4
  <2> QED BY <2>1, <2>2, <2>5 DEF Removes
<1>2. CASE i = 0
  <2>1. answer' = Refused /\ UNCHANGED <<table, wire>>
    BY <1>2 DEF UnmapPage
  <2>2. \A j \in DOMAIN table : table[j].page # p
    BY <1>0, <1>2, Searches DEF FindSpec
  <2> QED BY <2>1, <2>2
<1> QED BY <1>1, <1>2

(* The table a step leaves is well-formed; with it frames stay backed, or  *)
(* are void because their page is.                                         *)
LEMMA MapKeeps ==
  ASSUME IInv, NEW p \in Pages, NEW at \in Codepoints, NEW f \in Flags, MapPage(p, at, f)
  PROVE  IInv'
<1>0. TypeOK /\ DOMAIN table = 1 .. Len(table) /\ Len(table) \in Nat /\ MaxPages \in Nat
  BY PagesAssumption DEF IInv, TypeOK
<1>1. ASSUME NEW i \in DOMAIN table, Remaps(p, at, f, i)
      PROVE  IInv'
  <2> USE <1>1 DEF Remaps, EntryOf
  <2>4. \A j \in DOMAIN table' : table'[j].page = table[j].page
    OBVIOUS
  <2>5. \A j \in DOMAIN table', c \in Traps : table'[j].base # c.base
    BY <1>0, <1>1 DEF TypeOK, BaseValid
  <2>6. wire' \subseteq Frame
    <3>1. Void({p}) => wire' \subseteq Frame
      BY DEF IInv, TypeOK, Void, Frame
    <3> QED BY <1>0, <1>1, <3>1 DEF TypeOK
  <2>7. TypeOK'
    BY <1>0, <1>1, <2>4, <2>5, <2>6 DEF TypeOK
  <2>8. Backed'
    <3> SUFFICES ASSUME NEW g \in wire', g.intact
                 PROVE \E j \in DOMAIN table' :
                         /\ table'[j].page = g.page
                         /\ g.cp = [base |-> table'[j].base, offset |-> g.offset]
      BY DEF Backed
    <3>1. g \in wire /\ (g.page = p => table[i].base = at.base)
      BY <1>1 DEF Void, IInv, TypeOK, Frame
    <3>2. PICK j \in DOMAIN table : /\ table[j].page = g.page
                                    /\ g.cp = [base |-> table[j].base, offset |-> g.offset]
      BY <3>1 DEF IInv, Backed
    <3>3. table'[j].base = table[j].base
      BY <1>1, <3>1, <3>2
    <3> QED BY <1>1, <2>4, <3>2, <3>3
  <2> QED BY <2>7, <2>8 DEF IInv
<1>2. ASSUME Appends(p, at, f)
      PROVE  IInv'
  <2> USE <1>2 DEF Appends, EntryOf
  <2>4. \A j, k \in DOMAIN table' : table'[j].page = table'[k].page => j = k
    BY <1>0, <1>2 DEF TypeOK
  <2>5. \A j \in DOMAIN table', c \in Traps : table'[j].base # c.base
    BY <1>0, <1>2 DEF TypeOK, BaseValid
  <2>6. TypeOK'
    BY <1>0, <1>2, <2>4, <2>5 DEF TypeOK
  <2>7. Backed'
    <3>1. \A j \in DOMAIN table : j \in DOMAIN table' /\ table'[j] = table[j]
      BY <1>0, <1>2
    <3> SUFFICES ASSUME NEW g \in wire', g.intact
                 PROVE \E j \in DOMAIN table' :
                         /\ table'[j].page = g.page
                         /\ g.cp = [base |-> table'[j].base, offset |-> g.offset]
      BY DEF Backed
    <3>2. PICK j \in DOMAIN table : /\ table[j].page = g.page
                                    /\ g.cp = [base |-> table[j].base, offset |-> g.offset]
      BY <1>2 DEF IInv, Backed
    <3> QED BY <3>1, <3>2
  <2> QED BY <2>6, <2>7 DEF IInv
<1>3. ASSUME Refuses(p, at) PROVE IInv'
  BY <1>3 DEF Refuses, IInv, TypeOK, Backed
<1> QED BY <1>0, <1>1, <1>2, <1>3, MapEffect

LEMMA UnmapKeeps ==
  ASSUME IInv, NEW p \in Pages, UnmapPage(p)
  PROVE  IInv'
<1> DEFINE last == Len(table)
<1>0. TypeOK /\ DOMAIN table = 1 .. last /\ last \in Nat /\ MaxPages \in Nat
  BY PagesAssumption DEF IInv, TypeOK
<1>1. ASSUME NEW i \in DOMAIN table, Removes(p, i)
      PROVE  IInv'
  <2> USE <1>1 DEF Removes
  <2>4. \A j, k \in DOMAIN table' : table'[j].page = table'[k].page => j = k
    BY <1>0, <1>1 DEF TypeOK
  <2>5. \A j \in DOMAIN table', c \in Traps : table'[j].base # c.base
    BY <1>0, <1>1 DEF TypeOK
  <2>6. wire' \subseteq Frame
    BY <1>1 DEF IInv, TypeOK, Void, Frame
  <2>7. TypeOK'
    BY <1>0, <1>1, <2>4, <2>5, <2>6 DEF TypeOK
  <2>8. Backed'
    <3> SUFFICES ASSUME NEW g \in wire', g.intact
                 PROVE \E j \in DOMAIN table' :
                         /\ table'[j].page = g.page
                         /\ g.cp = [base |-> table'[j].base, offset |-> g.offset]
      BY DEF Backed
    <3>1. g \in wire /\ g.page # p
      BY <1>1 DEF Void, IInv, TypeOK, Frame
    <3>2. PICK j \in DOMAIN table : /\ table[j].page = g.page
                                    /\ g.cp = [base |-> table[j].base, offset |-> g.offset]
      BY <3>1 DEF IInv, Backed
    <3>3. j # i
      BY <1>1, <3>1, <3>2
    <3>4. CASE j = last
      <4>1. i \in DOMAIN table' /\ table'[i] = table[last]
        BY <1>0, <1>1, <3>3, <3>4
      <4> QED BY <3>2, <3>4, <4>1
    <3>5. CASE j # last
      <4>1. j \in DOMAIN table' /\ table'[j] = table[j]
        BY <1>0, <1>1, <3>2, <3>3, <3>5
      <4> QED BY <3>2, <4>1
    <3> QED BY <3>4, <3>5
  <2> QED BY <2>7, <2>8 DEF IInv
<1>2. ASSUME UNCHANGED <<table, wire>> PROVE IInv'
  BY <1>2 DEF IInv, TypeOK, Backed
<1> QED BY <1>0, <1>1, <1>2, UnmapEffect

LEMMA UnmapAllKeeps == ASSUME IInv, UnmapAll PROVE IInv'
<1>1. table' = <<>> /\ Void(Pages)
  BY DEF UnmapAll
<1>2. wire' \subseteq Frame /\ \A g \in wire' : ~g.intact
  BY <1>1 DEF Void, IInv, TypeOK, Frame
<1> QED BY <1>1, <1>2, PagesAssumption DEF IInv, TypeOK, Backed

LEMMA EncodeKeeps ==
  ASSUME IInv, NEW c \in Codepoints, EncodeIpc(c)
  PROVE  IInv'
<1>1. table' = table
  BY DEF EncodeIpc
<1>2. CASE wire' = wire
  BY <1>1, <1>2 DEF IInv, TypeOK, Backed
<1>3. CASE Guest(c) # Refused
  <2>1. PICK i \in DOMAIN table :
          /\ table[i].base = c.base
          /\ Guest(c) = [page |-> table[i].page, offset |-> c.offset]
    BY <1>3, GuestIs DEF IInv
  <2> DEFINE g == [page |-> Guest(c).page, offset |-> c.offset, cp |-> c, intact |-> TRUE]
  <2>2. wire' = wire \cup {g}
    BY <1>3 DEF EncodeIpc
  <2>3. g.page = table[i].page /\ g.page \in Pages
    BY <2>1, EntryAt DEF IInv
  <2>4. g \in Frame
    BY <2>3 DEF Frame, Codepoints
  <2>5. g.cp = [base |-> table[i].base, offset |-> g.offset]
    BY <2>1 DEF Codepoints
  <2>6. TypeOK'
    BY <1>1, <2>2, <2>4 DEF IInv, TypeOK
  <2>7. Backed'
    BY <1>1, <2>2, <2>3, <2>5 DEF IInv, Backed
  <2> QED BY <2>6, <2>7 DEF IInv
<1> QED BY <1>2, <1>3 DEF EncodeIpc

LEMMA StepInv == IInv /\ [Next]_vars => IInv'
<1> SUFFICES ASSUME IInv, [Next]_vars PROVE IInv'
  OBVIOUS
<1>1. ASSUME UNCHANGED <<table, wire>> PROVE IInv'
  BY <1>1 DEF IInv, TypeOK, Backed
<1>2. ASSUME NEW p \in Pages, IsPageMapped(p) PROVE IInv'
  BY <1>1, <1>2 DEF IsPageMapped
<1>3. ASSUME NEW p \in Pages, NEW o, TranslateToHost(p, o) PROVE IInv'
  BY <1>1, <1>3 DEF TranslateToHost
<1>4. ASSUME NEW c \in Codepoints, TranslateToGuest(c) PROVE IInv'
  BY <1>1, <1>4 DEF TranslateToGuest
<1>5. ASSUME NEW f \in wire, DecodeIpc(f) PROVE IInv'
  BY <1>5 DEF DecodeIpc, IInv, TypeOK, Backed
<1>6. CASE UNCHANGED vars
  BY <1>1, <1>6 DEF vars
<1> QED
  BY <1>2, <1>3, <1>4, <1>5, <1>6, MapKeeps, UnmapKeeps, UnmapAllKeeps, EncodeKeeps DEF Next

(* The table is a list of distinct, trap-free pages within its capacity,   *)
(* whatever is mapped and unmapped in whatever order.                      *)
THEOREM TableSound == Spec => []TypeOK
<1>1. IInv => TypeOK
  BY DEF IInv
<1> QED BY <1>1, InitInv, StepInv, PTL DEF Spec

(* A frame decodes to what it was made for until its page is remapped or   *)
(* unmapped (SUTR-4, section 3.3), for any table, codepoints and frames.   *)
THEOREM FramesKept == Spec => []FrameFaithful
  BY InitInv, StepInv, BackedFaithful, PTL DEF Spec

--------------------------------------------------------------------------------
(* The map the table stands for. *)
MappedPages == {table[i].page : i \in DOMAIN table}

MappingSpec ==
  /\ Mapping = [p \in MappedPages |-> Mapping[p]]
  /\ \A i \in DOMAIN table :
       Mapping[table[i].page] = [base |-> table[i].base, flags |-> table[i].flags]
  /\ Cardinality(MappedPages) = Len(table)

LEMMA MappingIs == TypeOK => MappingSpec
<1> SUFFICES ASSUME TypeOK PROVE MappingSpec
  OBVIOUS
<1>0. DOMAIN table = 1 .. Len(table) /\ Len(table) \in Nat
  BY DEF TypeOK
<1>1. Mapping = [p \in MappedPages |->
                   [base |-> table[Find(p)].base, flags |-> table[Find(p)].flags]]
  BY DEF Mapping, MappedPages
<1>2. \A i \in DOMAIN table : Find(table[i].page) = i
  <2> SUFFICES ASSUME NEW i \in DOMAIN table PROVE Find(table[i].page) = i
    OBVIOUS
  <2>1. table[i].page \in Pages
    BY EntryAt
  <2> QED BY <2>1, Searches DEF FindSpec, TypeOK
<1>3. Cardinality(MappedPages) = Len(table)
  <2> DEFINE g == [i \in 1 .. Len(table) |-> table[i].page]
  <2>1. g \in Bijection(1 .. Len(table), MappedPages)
    <3>1. g \in [1 .. Len(table) -> MappedPages]
      BY <1>0 DEF MappedPages
    <3>2. \A i, j \in 1 .. Len(table) : g[i] = g[j] => i = j
      BY <1>0 DEF TypeOK
    <3>3. \A p \in MappedPages : \E i \in 1 .. Len(table) : g[i] = p
      BY <1>0 DEF MappedPages
    <3> HIDE DEF g
    <3> QED BY <3>1, <3>2, <3>3 DEF Bijection, Injection, Surjection, IsInjective
  <2>2. IsFiniteSet(1 .. Len(table)) /\ Cardinality(1 .. Len(table)) = Len(table)
    <3>1. Len(table) \in Int /\ 1 \in Int
      BY <1>0
    <3>2. /\ IsFiniteSet(1 .. Len(table))
          /\ Cardinality(1 .. Len(table)) = IF 1 > Len(table) THEN 0 ELSE Len(table) - 1 + 1
      BY <3>1, FS_Interval
    <3> QED BY <1>0, <3>2
  <2>3. ExistsBijection(1 .. Len(table), MappedPages)
    BY <2>1 DEF ExistsBijection
  <2> QED BY <2>2, <2>3, FS_Bijection
<1>4. MappedPages \subseteq Pages
  BY EntryAt DEF MappedPages
<1> QED
  BY <1>1, <1>2, <1>3 DEF MappingSpec, MappedPages

(* Two tables of the same rows stand for the same map. *)
LEMMA MappingPrimed ==
  ASSUME TypeOK', NEW S, NEW e, S = {table'[j].page : j \in DOMAIN table'},
         e = [q \in S |-> e[q]],
         \A j \in DOMAIN table' :
           e[table'[j].page] = [base |-> table'[j].base, flags |-> table'[j].flags]
  PROVE  Mapping' = e
<1>1. MappingSpec'
  BY MappingIs, PTL
<1>2. MappedPages' = S
  BY DEF MappedPages
<1>3. Mapping' = [q \in S |-> Mapping'[q]]
  BY <1>1, <1>2 DEF MappingSpec
<1>4. \A j \in DOMAIN table' : Mapping'[table'[j].page] = e[table'[j].page]
  <2>1. \A j \in DOMAIN table' :
          Mapping'[table'[j].page] = [base |-> table'[j].base, flags |-> table'[j].flags]
    BY <1>1 DEF MappingSpec
  <2>2. \A j \in DOMAIN table' :
          e[table'[j].page] = [base |-> table'[j].base, flags |-> table'[j].flags]
    OBVIOUS
  <2> SUFFICES ASSUME NEW j \in DOMAIN table' PROVE Mapping'[table'[j].page] = e[table'[j].page]
    OBVIOUS
  <2>3. Mapping'[table'[j].page] = [base |-> table'[j].base, flags |-> table'[j].flags]
    BY <2>1
  <2>4. e[table'[j].page] = [base |-> table'[j].base, flags |-> table'[j].flags]
    BY <2>2
  <2> QED BY <2>3, <2>4, Zenon
<1>5. \A q \in S : Mapping'[q] = e[q]
  BY <1>4
<1> QED BY <1>3, <1>5

LEMMA MappingSame == ASSUME TypeOK, TypeOK', table' = table PROVE Mapping' = Mapping
<1> DEFINE e == Mapping
<1>1. MappingSpec
  BY MappingIs
<1>2. /\ e = [q \in MappedPages |-> e[q]]
      /\ \A j \in DOMAIN table : e[table[j].page] = [base |-> table[j].base, flags |-> table[j].flags]
  BY <1>1 DEF MappingSpec
<1>3. MappedPages = {table'[j].page : j \in DOMAIN table'}
  BY DEF MappedPages
<1> HIDE DEF e
<1>4. Mapping' = e
  BY <1>2, <1>3, MappingPrimed
<1> QED BY <1>4 DEF e

LEMMA SameCardinality == \A S : Abstract!Cardinality(S) = Cardinality(S)
  BY DEF Abstract!Cardinality, Cardinality, Abstract!IsFiniteSet, IsFiniteSet

LEMMA UsableIs == \A at \in Codepoints : Abstract!Usable(at) <=> BaseValid(at)
  BY DEF Abstract!Usable, BaseValid

LEMMA MapRefines ==
  ASSUME TypeOK, TypeOK', NEW p \in Pages, NEW at \in Codepoints, NEW f \in Flags,
         MapPage(p, at, f)
  PROVE  Abstract!Map(p, at, f)
<1> DEFINE e == [q \in DOMAIN Mapping \cup {p} |->
                   IF q = p THEN [base |-> at.base, flags |-> f] ELSE Mapping[q]]
<1>0. /\ DOMAIN Mapping = MappedPages /\ Cardinality(MappedPages) = Len(table)
      /\ \A i \in DOMAIN table :
           Mapping[table[i].page] = [base |-> table[i].base, flags |-> table[i].flags]
      /\ DOMAIN table = 1 .. Len(table) /\ Len(table) \in Nat /\ MaxPages \in Nat
  BY MappingIs, PagesAssumption DEF MappingSpec, TypeOK
<1>1. ASSUME NEW i \in DOMAIN table, Remaps(p, at, f, i)
      PROVE  Abstract!Map(p, at, f)
  <2>1. p \in MappedPages
    BY <1>1 DEF Remaps, MappedPages
  <2>2. MappedPages \cup {p} = {table'[j].page : j \in DOMAIN table'}
    BY <1>1 DEF Remaps, MappedPages, EntryOf
  <2>3. \A j \in DOMAIN table' :
          e[table'[j].page] = [base |-> table'[j].base, flags |-> table'[j].flags]
    <3> SUFFICES ASSUME NEW j \in DOMAIN table'
                 PROVE  e[table'[j].page] = [base |-> table'[j].base, flags |-> table'[j].flags]
      OBVIOUS
    <3>1. table'[j].page \in DOMAIN e
      BY <1>0, <2>2
    <3>2. CASE j = i
      BY <1>1, <3>1, <3>2 DEF Remaps, EntryOf
    <3>3. CASE j # i
      <4>1. table[j].page # p /\ table'[j] = table[j] /\ j \in DOMAIN table
        BY <1>1, <3>3 DEF Remaps, TypeOK
      <4> QED BY <1>0, <3>1, <4>1
    <3> QED BY <3>2, <3>3
  <2>4. Mapping' = e
    <3>1. e = [q \in MappedPages \cup {p} |-> e[q]]
      BY <1>0
    <3> HIDE DEF e
    <3> QED BY <2>2, <2>3, <3>1, MappingPrimed
  <2>5. answer' = Done /\ BaseValid(at)
    BY <1>1 DEF Remaps
  <2>6. Abstract!Usable(at) /\ p \in DOMAIN Mapping
    BY <1>0, <2>1, <2>5, UsableIs
  <2> QED BY <2>4, <2>5, <2>6, SameCardinality DEF Abstract!Map
<1>2. ASSUME Appends(p, at, f)
      PROVE  Abstract!Map(p, at, f)
  <2>2. MappedPages \cup {p} = {table'[j].page : j \in DOMAIN table'}
    <3>1. \A j \in DOMAIN table : j \in DOMAIN table' /\ table'[j].page = table[j].page
      BY <1>0, <1>2 DEF Appends
    <3>2. Len(table) + 1 \in DOMAIN table' /\ table'[Len(table) + 1].page = p
      BY <1>0, <1>2 DEF Appends, EntryOf
    <3>3. \A j \in DOMAIN table' : j \in DOMAIN table \/ j = Len(table) + 1
      BY <1>0, <1>2 DEF Appends
    <3> QED BY <3>1, <3>2, <3>3 DEF MappedPages
  <2>3. \A j \in DOMAIN table' :
          e[table'[j].page] = [base |-> table'[j].base, flags |-> table'[j].flags]
    <3> SUFFICES ASSUME NEW j \in DOMAIN table'
                 PROVE  e[table'[j].page] = [base |-> table'[j].base, flags |-> table'[j].flags]
      OBVIOUS
    <3>1. table'[j].page \in DOMAIN e
      BY <1>0, <2>2
    <3>2. CASE j \notin DOMAIN table
      BY <1>2, <3>1, <3>2 DEF Appends, EntryOf
    <3>3. CASE j \in DOMAIN table
      <4>1. table[j].page # p /\ table'[j] = table[j]
        BY <1>2, <3>3 DEF Appends
      <4> QED BY <1>0, <3>1, <3>3, <4>1
    <3> QED BY <3>2, <3>3
  <2>4. Mapping' = e
    <3>1. e = [q \in MappedPages \cup {p} |-> e[q]]
      BY <1>0
    <3> HIDE DEF e
    <3> QED BY <2>2, <2>3, <3>1, MappingPrimed
  <2>5. answer' = Done /\ BaseValid(at) /\ Len(table) < MaxPages
    BY <1>2 DEF Appends
  <2>6. Abstract!Usable(at) /\ Cardinality(DOMAIN Mapping) < MaxPages
    BY <1>0, <2>5, UsableIs
  <2> QED BY <2>4, <2>5, <2>6, SameCardinality DEF Abstract!Map
<1>3. ASSUME Refuses(p, at)
      PROVE  Abstract!Map(p, at, f)
  <2>1. Mapping' = Mapping /\ answer' = Refused
    BY <1>3, MappingSame DEF Refuses
  <2> HIDE DEF e
  <2>2. ~BaseValid(at) \/ (p \notin MappedPages /\ ~(Len(table) < MaxPages))
    <3>1. Len(table) >= MaxPages <=> ~(Len(table) < MaxPages)
      BY <1>0
    <3> QED BY <1>3, <3>1 DEF Refuses, MappedPages
  <2>3. ~(Abstract!Usable(at) /\ (p \in DOMAIN Mapping \/ Cardinality(DOMAIN Mapping) < MaxPages))
    BY <1>0, <2>2, UsableIs
  <2> QED BY <2>1, <2>3, SameCardinality DEF Abstract!Map
<1> HIDE DEF e
<1> QED BY <1>1, <1>2, <1>3, MapEffect

LEMMA UnmapRefines ==
  ASSUME TypeOK, TypeOK', NEW p \in Pages, UnmapPage(p)
  PROVE  Abstract!Unmap(p)
<1> DEFINE e == [q \in DOMAIN Mapping \ {p} |-> Mapping[q]]
           last == Len(table)
<1>0. /\ DOMAIN Mapping = MappedPages /\ Mapping = [q \in MappedPages |-> Mapping[q]]
      /\ \A i \in DOMAIN table :
           Mapping[table[i].page] = [base |-> table[i].base, flags |-> table[i].flags]
      /\ DOMAIN table = 1 .. last /\ last \in Nat
  BY MappingIs DEF MappingSpec, TypeOK
<1>1. ASSUME NEW i \in DOMAIN table, Removes(p, i)
      PROVE  Abstract!Unmap(p)
  <2>0. \A j \in DOMAIN table' :
          \E k \in DOMAIN table : k # i /\ table'[j] = table[k]
    BY <1>0, <1>1 DEF Removes
  <2>1. \A k \in DOMAIN table : k # i => \E j \in DOMAIN table' : table'[j] = table[k]
    <3> SUFFICES ASSUME NEW k \in DOMAIN table, k # i
                 PROVE \E j \in DOMAIN table' : table'[j] = table[k]
      OBVIOUS
    <3>1. CASE k = last
      <4>1. i \in DOMAIN table' /\ table'[i] = table[last]
        BY <1>0, <1>1, <3>1 DEF Removes
      <4> QED BY <3>1, <4>1
    <3>2. CASE k # last
      <4>1. k \in DOMAIN table' /\ table'[k] = table[k]
        BY <1>0, <1>1, <3>2 DEF Removes
      <4> QED BY <4>1
    <3> QED BY <3>1, <3>2
  <2>2. \A k \in DOMAIN table : k # i <=> table[k].page # p
    BY <1>1 DEF Removes, TypeOK
  <2>3. MappedPages \ {p} = {table'[j].page : j \in DOMAIN table'}
    <3>1. ASSUME NEW q \in MappedPages, q # p
          PROVE  \E j \in DOMAIN table' : table'[j].page = q
      BY <2>1, <2>2, <3>1 DEF MappedPages
    <3>2. ASSUME NEW j \in DOMAIN table' PROVE table'[j].page \in MappedPages \ {p}
      BY <2>0, <2>2 DEF MappedPages
    <3> QED BY <3>1, <3>2
  <2>4. \A j \in DOMAIN table' :
          e[table'[j].page] = [base |-> table'[j].base, flags |-> table'[j].flags]
    <3> SUFFICES ASSUME NEW j \in DOMAIN table'
                 PROVE  e[table'[j].page] = [base |-> table'[j].base, flags |-> table'[j].flags]
      OBVIOUS
    <3>1. table'[j].page \in DOMAIN e
      BY <1>0, <2>3
    <3>2. PICK k \in DOMAIN table : k # i /\ table'[j] = table[k]
      BY <2>0
    <3> QED BY <1>0, <3>1, <3>2
  <2>5. Mapping' = e
    <3>1. e = [q \in MappedPages \ {p} |-> e[q]]
      BY <1>0
    <3> HIDE DEF e
    <3> QED BY <2>3, <2>4, <3>1, MappingPrimed
  <2>6. answer' = Done /\ p \in DOMAIN Mapping
    BY <1>0, <1>1 DEF Removes, MappedPages
  <2> QED BY <2>5, <2>6 DEF Abstract!Unmap
<1>2. ASSUME answer' = Refused, UNCHANGED <<table, wire>>, \A j \in DOMAIN table : table[j].page # p
      PROVE  Abstract!Unmap(p)
  <2>1. Mapping' = Mapping
    BY <1>2, MappingSame
  <2>2. p \notin DOMAIN Mapping
    BY <1>0, <1>2 DEF MappedPages
  <2>3. e = Mapping
    BY <1>0, <2>2
  <2> QED BY <1>2, <2>1, <2>2, <2>3 DEF Abstract!Unmap
<1> HIDE DEF e
<1> QED BY <1>1, <1>2, UnmapEffect

LEMMA UnmapAllRefines == ASSUME TypeOK, TypeOK', UnmapAll PROVE Abstract!UnmapAll
<1> DEFINE e == [q \in {} |-> 0]
<1>1. {table'[j].page : j \in DOMAIN table'} = {} /\ DOMAIN table' = {}
  BY DEF UnmapAll
<1>2. Mapping' = e
  <2>1. e = [q \in {} |-> e[q]]
    OBVIOUS
  <2> HIDE DEF e
  <2> QED BY <1>1, <2>1, MappingPrimed
<1> QED BY <1>2 DEF UnmapAll, Abstract!UnmapAll

(* The calls that only look. *)
LEMMA LookRefines ==
  ASSUME TypeOK, TypeOK', table' = table
  PROVE  /\ Mapping' = Mapping
         /\ \A p \in Pages : IsPageMapped(p) => Abstract!IsMapped(p)
         /\ \A p \in Pages, o \in 0 .. PageSize : answer' = Host(p, o) => Abstract!ToHost(p, o)
         /\ \A c \in Codepoints : answer' = Guest(c) => Abstract!ToGuest(c)
<1>0. Mapping' = Mapping
  BY MappingSame
<1> DEFINE m == Mapping
<1>a. /\ DOMAIN m = MappedPages
      /\ \A i \in DOMAIN table : m[table[i].page].base = table[i].base
      /\ \A i \in DOMAIN table : m[table[i].page].flags = table[i].flags
  <2>1. /\ DOMAIN m = MappedPages
        /\ \A i \in DOMAIN table :
             m[table[i].page] = [base |-> table[i].base, flags |-> table[i].flags]
    BY MappingIs DEF MappingSpec
  <2> HIDE DEF m
  <2> SUFFICES ASSUME NEW i \in DOMAIN table
               PROVE  m[table[i].page].base = table[i].base /\ m[table[i].page].flags = table[i].flags
    BY <2>1
  <2>2. m[table[i].page] = [base |-> table[i].base, flags |-> table[i].flags]
    BY <2>1
  <2> QED BY <2>2
<1> HIDE DEF m
<1>1. ASSUME NEW p \in Pages
      PROVE  \/ Find(p) = 0 /\ p \notin DOMAIN m
             \/ /\ Find(p) # 0 /\ Find(p) \in DOMAIN table /\ p \in DOMAIN m
                /\ m[p].base = table[Find(p)].base /\ m[p].flags = table[Find(p)].flags
                /\ \E i \in DOMAIN table : table[i].page = p
  <2>1. CASE Find(p) = 0 /\ \A i \in DOMAIN table : table[i].page # p
    BY <1>a, <2>1 DEF MappedPages
  <2>2. CASE Find(p) \in DOMAIN table /\ table[Find(p)].page = p
    <3>1. Find(p) # 0
      BY <2>2 DEF TypeOK
    <3> QED BY <1>a, <2>2, <3>1 DEF MappedPages
  <2> QED BY <2>1, <2>2, Searches DEF FindSpec
<1>2. ASSUME NEW p \in Pages, IsPageMapped(p) PROVE Abstract!IsMapped(p)
  BY <1>0, <1>1, <1>2 DEF m, IsPageMapped, Abstract!IsMapped
<1>3. ASSUME NEW p \in Pages, NEW o \in 0 .. PageSize, answer' = Host(p, o)
      PROVE  Abstract!ToHost(p, o)
  <2>1. ~(o < PageSize) <=> o = PageSize
    BY PagesAssumption
  <2>2. p \in DOMAIN m <=> \E i \in DOMAIN table : table[i].page = p
    BY <1>a DEF MappedPages
  <2>3. p \in DOMAIN m => m[p].base = table[Find(p)].base
    BY <1>1
  <2> QED BY <1>0, <1>3, <2>1, <2>2, <2>3, HostOf DEF m, Abstract!ToHost
<1>4. ASSUME NEW c \in Codepoints, answer' = Guest(c) PROVE Abstract!ToGuest(c)
  <2> DEFINE shown == {p \in DOMAIN m : m[p].base = c.base}
  <2>1. \A i \in DOMAIN table : table[i].base = c.base => table[i].page \in shown
    BY <1>a DEF MappedPages
  <2>2. \A p \in shown : \E i \in DOMAIN table : table[i].page = p /\ table[i].base = c.base
    BY <1>a DEF MappedPages
  <2>3. CASE Guest(c) = Refused /\ (c \in Traps \/ \A i \in DOMAIN table : table[i].base # c.base)
    <3>1. shown = {} \/ c \in Traps
      BY <2>2, <2>3
    <3> QED BY <1>0, <1>4, <2>3, <3>1 DEF m, Abstract!ToGuest
  <2>4. CASE \E i \in DOMAIN table :
               /\ c \notin Traps /\ table[i].base = c.base
               /\ Guest(c) = [page |-> table[i].page, offset |-> c.offset]
    <3>1. PICK p \in shown : c \notin Traps /\ Guest(c) = [page |-> p, offset |-> c.offset]
      BY <2>1, <2>4
    <3> QED BY <1>0, <1>4, <3>1 DEF m, Abstract!ToGuest
  <2> QED BY <2>3, <2>4, GuestIs
<1> QED BY <1>0, <1>2, <1>3, <1>4

LEMMA StepRefines == IInv /\ IInv' /\ [Next]_vars => [Abstract!Use]_(Abstract!pvars)
<1> SUFFICES ASSUME TypeOK, TypeOK', [Next]_vars PROVE [Abstract!Use]_(Abstract!pvars)
  BY DEF IInv
<1> USE DEF Ask, Abstract!Ask
<1>1. ASSUME NEW p \in Pages, NEW at \in Codepoints, NEW f \in Flags,
             MapPage(p, at, f), Ask(<<"map", p, at, f>>)
      PROVE  Abstract!Use
  <2>1. Abstract!Map(p, at, f)
    BY <1>1, MapRefines
  <2> QED BY <1>1, <2>1 DEF Abstract!Use, Codepoints, Abstract!Codepoints
<1>2. ASSUME NEW p \in Pages, UnmapPage(p), Ask(<<"unmap", p>>) PROVE Abstract!Use
  <2>1. Abstract!Unmap(p)
    BY <1>2, UnmapRefines
  <2> QED BY <1>2, <2>1 DEF Abstract!Use
<1>3. ASSUME UnmapAll, Ask(<<"unmap_all">>) PROVE Abstract!Use
  <2>1. Abstract!UnmapAll
    BY <1>3, UnmapAllRefines
  <2> QED BY <1>3, <2>1 DEF Abstract!Use
<1>4. ASSUME NEW p \in Pages, IsPageMapped(p), Ask(<<"is_mapped", p>>) PROVE Abstract!Use
  <2>1. table' = table
    BY <1>4 DEF IsPageMapped
  <2>2. Abstract!IsMapped(p)
    BY <1>4, <2>1, LookRefines
  <2> QED BY <1>4, <2>2 DEF Abstract!Use
<1>5. ASSUME NEW p \in Pages, NEW o \in 0 .. PageSize, table' = table,
             answer' = Host(p, o), Ask(<<"to_host", p, o>>)
      PROVE  Abstract!Use
  <2>1. Abstract!ToHost(p, o)
    BY <1>5, LookRefines
  <2> QED BY <1>5, <2>1 DEF Abstract!Use
<1>6. ASSUME NEW c \in Codepoints, table' = table, answer' = Guest(c), Ask(<<"to_guest", c>>)
      PROVE  Abstract!Use
  <2>1. Abstract!ToGuest(c)
    BY <1>6, LookRefines
  <2> QED BY <1>6, <2>1 DEF Abstract!Use, Codepoints, Abstract!Codepoints
<1>7. ASSUME NEW f \in wire, DecodeIpc(f), Ask(<<"to_host", f.page, f.offset>>)
      PROVE  Abstract!Use
  <2>1. f.page \in Pages /\ f.offset \in 0 .. PageSize
    BY PagesAssumption DEF TypeOK, Frame
  <2> QED BY <1>5, <1>7, <2>1 DEF DecodeIpc
<1>8. CASE UNCHANGED vars
  <2>1. table' = table /\ asked' = asked /\ answer' = answer
    BY <1>8 DEF vars
  <2> QED BY <2>1, LookRefines DEF Abstract!pvars
<1>9. ASSUME NEW p \in Pages, NEW o \in 0 .. PageSize,
             TranslateToHost(p, o), Ask(<<"to_host", p, o>>)
      PROVE  Abstract!Use
  BY <1>5, <1>9 DEF TranslateToHost
<1>10. ASSUME NEW c \in Codepoints, TranslateToGuest(c) \/ EncodeIpc(c), Ask(<<"to_guest", c>>)
       PROVE  Abstract!Use
  BY <1>6, <1>10 DEF TranslateToGuest, EncodeIpc
<1> QED
  BY <1>1, <1>2, <1>3, <1>4, <1>7, <1>8, <1>9, <1>10 DEF Next

(* The table of esust.c, whatever order its entries are in, answers every  *)
(* call as the map of pages does (sust/include/esust.h).                   *)
THEOREM TableIsMap == Spec => RefinesPageMap
<1>1. Init => Abstract!Empty
  <2> SUFFICES ASSUME Init PROVE Mapping = [p \in {} |-> 0] /\ asked = <<>> /\ answer = Refused
    BY DEF Abstract!Empty
  <2>1. TypeOK
    BY InitInv DEF IInv
  <2>2. Mapping = [p \in MappedPages |-> Mapping[p]] /\ MappedPages = {}
    BY <2>1, MappingIs DEF MappingSpec, Init, MappedPages
  <2> QED BY <2>2 DEF Init
<1> QED
  BY <1>1, InitInv, StepInv, StepRefines, PTL DEF Spec, RefinesPageMap, Abstract!PageSpec

--------------------------------------------------------------------------------
(* The converters.  First what the helpers of Codecs return. *)

(* Bytes and magnitudes. *)
Octets == 0 .. 255

LEMMA OctetIs ==
  ASSUME NEW b \in Octets
  PROVE  /\ b \in Nat /\ b \in Int /\ b \in 0 .. 255 /\ b % 64 \in 0 .. 63 /\ b % 64 \in Nat
         /\ b % 128 \in 0 .. 127
BY DEF Octets

LEMMA SeqIs ==
  ASSUME NEW S, NEW s \in Seq(S)
  PROVE  /\ Len(s) \in Nat /\ DOMAIN s = 1 .. Len(s) /\ s = [i \in 1 .. Len(s) |-> s[i]]
         /\ \A i \in 1 .. Len(s) : s[i] \in S
OBVIOUS

LEMMA SubIs ==
  ASSUME NEW S, NEW s \in Seq(S), NEW m \in Nat \ {0}, NEW n \in Nat, n <= Len(s), m <= n + 1
  PROVE  /\ SubSeq(s, m, n) \in Seq(S) /\ Len(SubSeq(s, m, n)) = n - m + 1
         /\ \A i \in 1 .. n - m + 1 : SubSeq(s, m, n)[i] = s[m + i - 1]
OBVIOUS

LEMMA StripIs ==
  ASSUME NEW s \in Seq(Octets)
  PROVE  /\ Strip(s) \in Seq(Octets) /\ Len(Strip(s)) <= Len(s)
         /\ Strip(s) # <<>> => Strip(s)[1] # 0
         /\ Pad(Strip(s), Len(s)) = s
<1> DEFINE I == {i \in 1 .. Len(s) : s[i] # 0}
           n == Len(s)
           m == Strip(s)
<1>1. n \in Nat /\ DOMAIN s = 1 .. n /\ s = [i \in 1 .. n |-> s[i]] BY SeqIs
<1>2. CASE I = {}
  <2>1. m = <<>> BY <1>2 DEF Strip, SelectInSeq
  <2>2. \A i \in 1 .. n : s[i] = 0 BY <1>2
  <2>3. Pad(<<>>, n) = [i \in 1 .. n |-> 0] BY <1>1 DEF Pad
  <2> QED BY <2>1, <2>2, <2>3, <1>1
<1>3. CASE I # {}
  <2> DEFINE f == Min(I)
  <2>1. f \in I /\ \A y \in I : f <= y
    <3>1. I \subseteq Nat OBVIOUS
    <3> HIDE DEF I
    <3> QED BY <1>3, <3>1, MinIs
  <2>2. m = SubSeq(s, f, n)
    <3>1. SelectInSeq(s, LAMBDA b : b # 0) = f BY <1>3 DEF SelectInSeq
    <3>2. f # 0 BY <2>1
    <3> QED BY <3>1, <3>2 DEF Strip
  <2> HIDE DEF f, m
  <2>3. f \in 1 .. n /\ s[f] # 0 /\ \A i \in 1 .. n : i < f => s[i] = 0 BY <2>1, <1>1
  <2>4. /\ m \in Seq(Octets) /\ Len(m) = n - f + 1
        /\ \A i \in 1 .. n - f + 1 : m[i] = s[f + i - 1]
      BY <2>2, <2>3, <1>1, SubIs
  <2>5. m[1] # 0 BY <2>3, <2>4
  <2>6. Pad(m, n) = s
    <3>1. ASSUME NEW i \in 1 .. n
          PROVE  (IF i <= n - Len(m) THEN 0 ELSE m[i - n + Len(m)]) = s[i]
      <4>1. CASE i < f BY <4>1, <2>3, <2>4, <1>1
      <4>2. CASE i >= f
        <5>1. i - n + Len(m) = i - f + 1 /\ i - f + 1 \in 1 .. n - f + 1 BY <4>2, <2>3, <2>4, <1>1
        <5>2. m[i - f + 1] = s[f + (i - f + 1) - 1] BY <5>1, <2>4
        <5>3. f + (i - f + 1) - 1 = i BY <2>3, <1>1
        <5> QED BY <5>1, <5>2, <5>3, <4>2, <2>3, <2>4, <1>1
      <4> QED BY <4>1, <4>2, <2>3
    <3>2. Pad(m, n) = [i \in 1 .. n |-> s[i]] BY <3>1 DEF Pad
    <3> QED BY <3>2, <1>1
  <2> QED BY <2>3, <2>4, <2>5, <2>6 DEF m
<1> QED BY <1>2, <1>3

LEMMA PadIs ==
  ASSUME NEW m \in Seq(Octets), NEW n \in Nat, Len(m) <= n
  PROVE  Pad(m, n) \in Seq(Octets) /\ Len(Pad(m, n)) = n
<1>1. ASSUME NEW i \in 1 .. n
      PROVE  (IF i <= n - Len(m) THEN 0 ELSE m[i - n + Len(m)]) \in Octets
  <2>1. Len(m) \in Nat OBVIOUS
  <2>2. CASE i <= n - Len(m) BY <2>2 DEF Octets
  <2>3. CASE ~(i <= n - Len(m))
    <3>1. i - n + Len(m) \in 1 .. Len(m) BY <2>1, <2>3
    <3> QED BY <3>1, <2>3
  <2> QED BY <2>2, <2>3
<1>2. Pad(m, n) \in [1 .. n -> Octets] BY <1>1 DEF Pad
<1> QED BY <1>2

(* The number four bytes make. *)
MaxNarrow == 2147483647
NumberOf(a, b, c, d) == 16777216 * a + 65536 * b + 256 * c + d

LEMMA NarrowIs ==
  ASSUME NEW m \in Seq(Octets)
  PROVE  /\ Len(m) < 4 => Narrow(m) /\ Pad(m, 4)[1] = 0
         /\ Len(m) <= 4 => (Narrow(m) <=> Pad(m, 4)[1] < 128)
         /\ Len(m) > 4 => ~Narrow(m)
<1> DEFINE n == Len(m)
<1>1. n \in Nat /\ \A i \in 1 .. n : m[i] \in Octets OBVIOUS
<1>2. Narrow(m) <=> n < 4 \/ (n = 4 /\ m[1] < 128) BY DEF Narrow
<1>3. Pad(m, 4)[1] = IF 1 <= 4 - n THEN 0 ELSE m[1 - 4 + n] BY DEF Pad
<1> HIDE DEF n
<1>4. n < 4 => Pad(m, 4)[1] = 0 BY <1>1, <1>3
<1>5. n = 4 => Pad(m, 4)[1] = m[1] BY <1>1, <1>3
<1>6. /\ n < 4 => Narrow(m) /\ Pad(m, 4)[1] = 0
      /\ n <= 4 => (Narrow(m) <=> Pad(m, 4)[1] < 128)
      /\ n > 4 => ~Narrow(m)
    BY <1>1, <1>2, <1>4, <1>5
<1> QED BY <1>6 DEF n

LEMMA StripFour ==
  ASSUME NEW a \in Octets, NEW b \in Octets, NEW c \in Octets, NEW d \in Octets
  PROVE  LET m == Strip(<<a, b, c, d>>)
         IN  /\ m \in Magnitudes(4) /\ NatOf(m) = NumberOf(a, b, c, d)
             /\ Pad(m, 4) = <<a, b, c, d>>
             /\ Narrow(m) <=> a < 128
<1> DEFINE s == <<a, b, c, d>>
           m == Strip(s)
<1>1. s \in Seq(Octets) /\ Len(s) = 4 OBVIOUS
<1>2. s[1] = a /\ s[2] = b /\ s[3] = c /\ s[4] = d OBVIOUS
<1> HIDE DEF s
<1>3. /\ m \in Seq(Octets) /\ Len(m) <= 4 /\ (m # <<>> => m[1] # 0)
      /\ Pad(m, 4) = s
    BY <1>1, StripIs
<1> HIDE DEF m
<1>4. m \in Magnitudes(4) BY <1>3 DEF Magnitudes, Octets
<1>5. NatOf(m) = NumberOf(a, b, c, d) BY <1>2, <1>3, SMT DEF NatOf, NumberOf
<1>6. Narrow(m) <=> a < 128 BY <1>2, <1>3, NarrowIs
<1> QED BY <1>3, <1>4, <1>5, <1>6 DEF s, m

(* The bytes of a number below 2^31. *)
LEMMA MagnitudeOfIs ==
  ASSUME NEW v \in Nat, v <= MaxNarrow
  PROVE  MagnitudeOf[v] \in Magnitudes(4) /\ NatOf(MagnitudeOf[v]) = v /\ Narrow(MagnitudeOf[v])
<1>1. PICK a \in Octets, b \in Octets, c \in Octets, d \in Octets :
        /\ a < 128 /\ NumberOf(a, b, c, d) = v
        /\ MagnitudeOf[v] = Strip(<<a, b, c, d>>)
  <2> DEFINE A == v \div 16777216
             B == (v \div 65536) % 256
             C == (v \div 256) % 256
             D == v % 256
  <2>1. A \in 0 .. 127 /\ B \in 0 .. 255 /\ C \in 0 .. 255 /\ D \in 0 .. 255
      BY SMT DEF MaxNarrow
  <2>2. NumberOf(A, B, C, D) = v BY SMT DEF NumberOf, MaxNarrow
  <2>3. MagnitudeOf[v] = Strip(<<A, B, C, D>>) BY SMT DEF MagnitudeOf
  <2> HIDE DEF A, B, C, D
  <2>4. A \in Octets /\ A < 128 /\ B \in Octets /\ C \in Octets /\ D \in Octets
      BY <2>1 DEF Octets
  <2> QED BY <2>2, <2>3, <2>4
<1> QED BY <1>1, StripFour

LEMMA NatOfIs ==
  ASSUME NEW m \in Seq(Octets)
  PROVE  NatOf(m) \in Nat /\ (Narrow(m) => NatOf(m) <= MaxNarrow)
<1> DEFINE n == Len(m)
           p == Pad(m, 4)
<1>1. \A i \in 1 .. 4 : p[i] \in Octets
  <2> SUFFICES ASSUME NEW i \in 1 .. 4 PROVE p[i] \in Octets
      OBVIOUS
  <2>1. n \in Nat /\ \A j \in 1 .. n : m[j] \in Octets OBVIOUS
  <2>2. p[i] = IF i <= 4 - n THEN 0 ELSE m[i - 4 + n] BY DEF Pad
  <2> HIDE DEF n, p
  <2>3. CASE i <= 4 - n BY <2>2, <2>3 DEF Octets
  <2>4. CASE ~(i <= 4 - n)
    <3>1. i - 4 + n \in 1 .. n BY <2>1, <2>4
    <3> QED BY <3>1, <2>1, <2>2, <2>4
  <2> QED BY <2>3, <2>4
<1>2. Narrow(m) => p[1] < 128
  <2>1. n \in Nat OBVIOUS
  <2>2. n > 4 \/ n <= 4 BY <2>1
  <2>3. p[1] = 0 => p[1] < 128 OBVIOUS
  <2> QED BY <2>2, <2>3, NarrowIs
<1>3. NatOf(m) = NumberOf(p[1], p[2], p[3], p[4]) BY SMT DEF NatOf, NumberOf
<1> HIDE DEF p
<1>4. p[1] \in 0 .. 255 /\ p[2] \in 0 .. 255 /\ p[3] \in 0 .. 255 /\ p[4] \in 0 .. 255
    BY <1>1 DEF Octets
<1>5. \A a, b, c, d \in 0 .. 255 :
          NumberOf(a, b, c, d) \in Nat /\ (a < 128 => NumberOf(a, b, c, d) <= MaxNarrow)
    BY SMT DEF NumberOf, MaxNarrow
<1>6. /\ NumberOf(p[1], p[2], p[3], p[4]) \in Nat
      /\ p[1] < 128 => NumberOf(p[1], p[2], p[3], p[4]) <= MaxNarrow
    BY <1>4, <1>5
<1> QED BY <1>2, <1>3, <1>6

\* A function that is defined step by step within a set exists.
StepRuns(f, n, t, step) ==
    f[0] = t /\ \A i \in 1 .. n : f[i] = step[<<i, f[i - 1]>>]

LEMMA StepsExist ==
    ASSUME NEW T, NEW n \in Nat, NEW t \in T, NEW step \in [(1 .. n) \X T -> T]
    PROVE  \E f \in [0 .. n -> T] : StepRuns(f, n, t, step)
<1> DEFINE Runs(m, f) == StepRuns(f, m, t, step)
           bad == {m \in 0 .. n : ~ \E f \in [0 .. m -> T] : Runs(m, f)}
<1> SUFFICES ASSUME bad # {} PROVE FALSE
  <2>1. n \in 0 .. n OBVIOUS
  <2> QED BY <2>1
<1> USE DEF StepRuns
<1>1. bad \in SUBSET Nat OBVIOUS
<1>2. PICK m \in bad : \A y \in bad : m <= y BY <1>1, LeastExists
<1>3. m \in 0 .. n BY <1>2
<1>4. m # 0
  <2>1. Runs(0, [i \in 0 .. 0 |-> t]) OBVIOUS
  <2>2. [i \in 0 .. 0 |-> t] \in [0 .. 0 -> T] OBVIOUS
  <2> HIDE DEF Runs
  <2> QED BY <1>2, <2>1, <2>2
<1>5. m - 1 \in 0 .. n /\ ~(m <= m - 1) BY <1>3, <1>4
<1>6. PICK f \in [0 .. m - 1 -> T] : Runs(m - 1, f) BY <1>2, <1>5
<1> DEFINE g == [i \in 0 .. m |-> IF i = m THEN step[<<m, f[m - 1]>>] ELSE f[i]]
<1>7. g \in [0 .. m -> T]
  <2>1. f[m - 1] \in T BY <1>3, <1>4
  <2>2. <<m, f[m - 1]>> \in (1 .. n) \X T BY <2>1, <1>3, <1>4
  <2>3. step[<<m, f[m - 1]>>] \in T BY <2>2
  <2>4. \A i \in 0 .. m : i # m => i \in 0 .. m - 1 BY <1>3
  <2> QED BY <2>3, <2>4
<1>8. Runs(m, g)
  <2>1. g[0] = t BY <1>3, <1>4, <1>6
  <2>2. ASSUME NEW i \in 1 .. m PROVE g[i] = step[<<i, g[i - 1]>>]
    <3>1. i - 1 \in 0 .. m /\ i - 1 # m /\ g[i - 1] = f[i - 1] BY <1>3
    <3>2. CASE i = m BY <3>1, <3>2
    <3>3. CASE i # m
      <4>1. i \in 1 .. m - 1 BY <3>3, <1>3
      <4> QED BY <4>1, <3>1, <3>3, <1>6
    <3> QED BY <3>2, <3>3
  <2> QED BY <2>1, <2>2
<1> HIDE DEF g, Runs
<1> QED BY <1>2, <1>7, <1>8
(* Texts of octets: what a first byte announces. *)
LEMMA MaxIs ==
  ASSUME NEW I, I \subseteq 1 .. 6, I # {}
  PROVE  Max(I) \in I /\ \A y \in I : y <= Max(I)
<1> DEFINE J == {7 - i : i \in I}
<1>1. J \subseteq Nat /\ J # {}
  <2>1. PICK y \in I : TRUE OBVIOUS
  <2>2. 7 - y \in J BY <2>1
  <2>3. \A z \in I : 7 - z \in Nat OBVIOUS
  <2> QED BY <2>2, <2>3
<1>2. PICK x \in J : \A y \in J : x <= y BY <1>1, LeastExists
<1>3. 7 - x \in I BY <1>2
<1>4. \A y \in I : 7 - y \in J OBVIOUS
<1>5. \A y \in I : y <= 7 - x
  <2> SUFFICES ASSUME NEW y \in I PROVE y <= 7 - x
      OBVIOUS
  <2> HIDE DEF J
  <2>1. x <= 7 - y BY <1>2, <1>4
  <2>2. x \in Int /\ y \in Int BY <1>1, <1>2
  <2> QED BY <2>1, <2>2
<1> HIDE DEF J
<1>6. \E z \in I : \A y \in I : z >= y BY <1>3, <1>5
<1>7. Max(I) \in I /\ \A y \in I : Max(I) >= y BY <1>6 DEF Max
<1> QED BY <1>7

(* What a first byte announces.                                            *)
LEMMA LeadLengthIs ==
  ASSUME NEW b \in Octets
  PROVE  LET n == LeadLength(b)
         IN  /\ n \in 0 .. 6
             /\ n # 0 => LeadOf[n] \in Nat /\ LeadOf[n] <= b
<1> DEFINE n == LeadLength(b)
           I == {i \in 1 .. 6 : LeadOf[i] <= b}
<1>1. CASE b \in 128 .. 191 \cup 254 .. 255 BY <1>1 DEF LeadLength
<1>2. CASE ~(b \in 128 .. 191 \cup 254 .. 255)
  <2>1. n = Max(I) BY <1>2 DEF LeadLength
  <2>2. 1 \in I BY DEF LeadOf, Octets
  <2>3. Max(I) \in I
    <3>1. I \subseteq 1 .. 6 OBVIOUS
    <3> HIDE DEF I
    <3> QED BY <3>1, <2>2, MaxIs
  <2> HIDE DEF n
  <2>4. n \in 1 .. 6 /\ LeadOf[n] <= b BY <2>1, <2>3
  <2>5. \A i \in 1 .. 6 : LeadOf[i] \in Nat BY DEF LeadOf
  <2> QED BY <2>4, <2>5 DEF n
<1> QED BY <1>1, <1>2

(* The value of a multi-byte form, byte by byte. *)
LEMMA ValueIs ==
  ASSUME NEW s \in Seq(Octets), NEW n \in 1 .. 6, n <= Len(s), LeadOf[n] \in Nat, LeadOf[n] <= s[1]
  PROVE  \E f \in [0 .. n - 1 -> Nat] :
            /\ f[0] = s[1] - LeadOf[n] /\ MultiByteValue(s, n) = f[n - 1]
            /\ \A i \in 1 .. n - 1 : f[i] = 64 * f[i - 1] + (s[i + 1] % 64)
<1> DEFINE t == s[1] - LeadOf[n]
           k == n - 1
           step == [z \in (1 .. k) \X Nat |-> 64 * z[2] + (s[z[1] + 1] % 64)]
           Runs(f) == f = [i \in 0 .. k |-> IF i = 0 THEN t ELSE 64 * f[i - 1] + (s[i + 1] % 64)]
           upTo == CHOOSE f : Runs(f)
<1>1. MultiByteValue(s, n) = upTo[k] BY DEF MultiByteValue
<1>2. \A i \in 1 .. k : s[i + 1] \in 0 .. 255 /\ s[i + 1] % 64 \in Nat
  <2>1. ASSUME NEW i \in 1 .. k PROVE i + 1 \in 1 .. Len(s) OBVIOUS
  <2>2. \A i \in 1 .. Len(s) : s[i] \in Octets BY SeqIs
  <2> QED BY <2>1, <2>2, OctetIs
<1>3. k \in Nat /\ t \in Nat
  <2>1. 1 \in 1 .. Len(s) OBVIOUS
  <2>2. s[1] \in Int
    <3>1. s[1] \in Octets BY <2>1
    <3> QED BY <3>1, OctetIs
  <2>3. \A x \in Int, y \in Nat : y <= x => x - y \in Nat OBVIOUS
  <2>4. t \in Nat
    <3> DEFINE x == s[1]
               y == LeadOf[n]
    <3>1. x \in Int /\ y \in Nat /\ y <= x BY <2>2
    <3> HIDE DEF x, y
    <3>2. x - y \in Nat BY <3>1
    <3> QED BY <3>2 DEF x, y
  <2>5. k \in Nat OBVIOUS
  <2> QED BY <2>4, <2>5
<1>4. \A i \in 1 .. k, x \in Nat : step[<<i, x>>] = 64 * x + (s[i + 1] % 64) OBVIOUS
<1>5. step \in [(1 .. k) \X Nat -> Nat] BY <1>2
<1> HIDE DEF t, step, k
<1>6. PICK g \in [0 .. k -> Nat] : StepRuns(g, k, t, step) BY <1>3, <1>5, StepsExist
<1>7. \A i \in 1 .. k : i \in 0 .. k /\ i # 0 /\ i - 1 \in 0 .. k /\ g[i - 1] \in Nat BY <1>3
<1>8. g[0] = t /\ \A i \in 1 .. k : g[i] = 64 * g[i - 1] + (s[i + 1] % 64)
    BY <1>4, <1>6, <1>7 DEF StepRuns
<1>9. Runs(g)
  <2>1. \A i \in 0 .. k : i # 0 => i \in 1 .. k BY <1>3
  <2>2. g = [i \in 0 .. k |-> g[i]] OBVIOUS
  <2> QED BY <2>1, <2>2, <1>8
<1>10. Runs(upTo)
  <2> HIDE DEF Runs
  <2> QED BY <1>9
<1> HIDE DEF upTo
<1>11. upTo[0] = t /\ \A i \in 1 .. k : upTo[i] = 64 * upTo[i - 1] + (s[i + 1] % 64)
  <2>1. 0 \in 0 .. k BY <1>3
  <2> QED BY <1>7, <1>10, <2>1
<1>12. upTo = [i \in 0 .. k |-> upTo[i]] BY <1>10
<1> HIDE DEF Runs
<1>13. \A i \in 0 .. k : upTo[i] = g[i]
  <2> DEFINE bad == {i \in 0 .. k : upTo[i] # g[i]}
  <2> SUFFICES ASSUME bad # {} PROVE FALSE
      OBVIOUS
  <2>1. bad \subseteq Nat OBVIOUS
  <2>2. PICK i \in bad : \A j \in bad : i <= j BY <2>1, LeastExists
  <2>3. i \in 0 .. k /\ upTo[i] # g[i] BY <2>2
  <2>4. i # 0 BY <2>3, <1>8, <1>11
  <2>5. i \in 1 .. k /\ i - 1 \in 0 .. k /\ ~(i <= i - 1) BY <2>3, <2>4, <1>3
  <2>6. upTo[i - 1] = g[i - 1] BY <2>2, <2>5
  <2> QED BY <2>3, <2>5, <2>6, <1>8, <1>11
<1>14. upTo = g BY <1>12, <1>13
<1> QED BY <1>1, <1>6, <1>8, <1>14 DEF t, k

(* What lies behind a byte in a number of n bytes is cut off by its shift. *)
LEMMA ShiftsDivide ==
  /\ \A k \in 1 .. 6 : Shift[k] \in Nat \ {0}
  /\ Shift[1] = 1 /\ \A k \in 1 .. 5 : Shift[k + 1] = 64 * Shift[k]
BY SMT DEF Shift

LEMMA Divided ==
  ASSUME NEW k \in 1 .. 6, NEW a \in Nat, NEW r \in Nat, r < Shift[k]
  PROVE  (Shift[k] * a + r) \div Shift[k] = a
<1>1. CASE k = 1 BY <1>1, SMT DEF Shift
<1>2. CASE k = 2 BY <1>2, SMT DEF Shift
<1>3. CASE k = 3 BY <1>3, SMT DEF Shift
<1>4. CASE k = 4 BY <1>4, SMT DEF Shift
<1>5. CASE k = 5 BY <1>5, SMT DEF Shift
<1>6. CASE k = 6 BY <1>6, SMT DEF Shift
<1>7. k \in {1, 2, 3, 4, 5, 6} OBVIOUS
<1> QED BY <1>1, <1>2, <1>3, <1>4, <1>5, <1>6, <1>7

LEMMA ShiftMore ==
  ASSUME NEW k \in 1 .. 5, NEW a \in Nat, NEW c \in 0 .. 63, NEW r \in Nat, r < Shift[k]
  PROVE  /\ Shift[k] * (64 * a + c) + r = Shift[k + 1] * a + (Shift[k] * c + r)
         /\ Shift[k] * c + r \in Nat /\ Shift[k] * c + r < Shift[k + 1]
<1>1. CASE k = 1 BY <1>1, SMT DEF Shift
<1>2. CASE k = 2 BY <1>2, SMT DEF Shift
<1>3. CASE k = 3 BY <1>3, SMT DEF Shift
<1>4. CASE k = 4 BY <1>4, SMT DEF Shift
<1>5. CASE k = 5 BY <1>5, SMT DEF Shift
<1>6. k \in {1, 2, 3, 4, 5} OBVIOUS
<1> QED BY <1>1, <1>2, <1>3, <1>4, <1>5, <1>6

Grows(f, c, n) == \A i \in 1 .. n - 1 : f[i] = 64 * f[i - 1] + c[i]

LEMMA ShiftedIs ==
  ASSUME NEW n \in 1 .. 6, NEW f \in [0 .. n - 1 -> Nat], NEW c \in [1 .. n - 1 -> 0 .. 63],
         Grows(f, c, n)
  PROVE  \A k \in 0 .. n - 1 : f[n - 1] \div Shift[k + 1] = f[n - 1 - k]
<1> DEFINE v == f[n - 1]
           bad == {k \in 0 .. n - 1 :
                     ~ \E r \in Nat : r < Shift[k + 1] /\ v = Shift[k + 1] * f[n - 1 - k] + r}
<1>1. bad = {}
  <2> SUFFICES ASSUME bad # {} PROVE FALSE
      OBVIOUS
  <2>1. bad \subseteq Nat OBVIOUS
  <2>2. PICK k \in bad : \A j \in bad : k <= j BY <2>1, LeastExists
  <2>3. k \in 0 .. n - 1 BY <2>2
  <2>4. CASE k = 0
    <3>1. v \in Nat OBVIOUS
    <3>2. n - 1 - 0 = n - 1 OBVIOUS
    <3>3. 0 \in Nat /\ 0 < Shift[0 + 1] /\ v = Shift[0 + 1] * f[n - 1 - 0] + 0
      <4>1. 0 + 1 = 1 /\ Shift[1] = 1 BY ShiftsDivide
      <4> HIDE DEF v
      <4> QED BY <3>1, <4>1, <3>2 DEF v
    <3>4. \E r \in Nat : r < Shift[0 + 1] /\ v = Shift[0 + 1] * f[n - 1 - 0] + r BY <3>3
    <3> HIDE DEF v
    <3> QED BY <2>2, <2>4, <3>4
  <2>5. CASE k # 0
    <3> DEFINE j == n - 1 - k
    <3>1. k \in 1 .. 5 /\ k - 1 \in 0 .. n - 1 /\ ~(k <= k - 1) /\ (k - 1) + 1 = k
          /\ n - 1 - (k - 1) = j + 1 /\ j + 1 \in 1 .. n - 1 /\ j \in 0 .. n - 1 /\ (j + 1) - 1 = j
        BY <2>3, <2>5
    <3>2. PICK r \in Nat : r < Shift[k] /\ v = Shift[k] * f[j + 1] + r
      <4>1. k - 1 \notin bad BY <2>2, <3>1
      <4> HIDE DEF v, j
      <4> QED BY <4>1, <3>1
    <3>3. f[j + 1] = 64 * f[j] + c[j + 1] /\ c[j + 1] \in 0 .. 63 /\ f[j] \in Nat BY <3>1 DEF Grows
    <3> HIDE DEF v, j
    <3>4. /\ v = Shift[k + 1] * f[j] + (Shift[k] * c[j + 1] + r)
          /\ Shift[k] * c[j + 1] + r \in Nat /\ Shift[k] * c[j + 1] + r < Shift[k + 1]
      <4>1. k \in 1 .. 5 BY <3>1
      <4> HIDE DEF bad
      <4> DEFINE a == f[j]
                 d == c[j + 1]
      <4>2. a \in Nat /\ d \in 0 .. 63 BY <3>3
      <4>3. v = Shift[k] * (64 * a + d) + r /\ r < Shift[k] BY <3>2, <3>3
      <4> HIDE DEF a, d
      <4>4. /\ Shift[k] * (64 * a + d) + r = Shift[k + 1] * a + (Shift[k] * d + r)
            /\ Shift[k] * d + r \in Nat /\ Shift[k] * d + r < Shift[k + 1]
          BY ZenonT(60), <4>1, <4>2, <4>3, ShiftMore
      <4>5. v = Shift[k + 1] * a + (Shift[k] * d + r) BY <4>3, <4>4
      <4> QED BY <4>4, <4>5 DEF a, d
    <3> QED BY <2>2, <3>4 DEF j
  <2> QED BY <2>4, <2>5
<1> HIDE DEF v
<1>2. ASSUME NEW k \in 0 .. n - 1 PROVE v \div Shift[k + 1] = f[n - 1 - k]
  <2>1. PICK r \in Nat : r < Shift[k + 1] /\ v = Shift[k + 1] * f[n - 1 - k] + r BY <1>1
  <2>2. k + 1 \in 1 .. 6 /\ n - 1 - k \in 0 .. n - 1 OBVIOUS
  <2>3. f[n - 1 - k] \in Nat BY <2>2
  <2> QED BY <2>1, <2>2, <2>3, Divided
<1> QED BY <1>2 DEF v

(* The values of the six lengths follow on each other without a gap.       *)
LEMMA RangesMeet ==
  /\ \A n \in 1 .. 6 : /\ FirstOf[n] \in Nat /\ LastOf[n] \in Nat /\ LastOf[n] <= MaxNarrow
                       /\ FirstOf[n] <= LastOf[n] /\ LeadOf[n] \in Nat
  /\ \A n \in 1 .. 5 : FirstOf[n + 1] = LastOf[n] + 1
  /\ FirstOf[1] = 0 /\ LastOf[6] = MaxNarrow
BY SMT DEF FirstOf, LastOf, LeadOf, MaxNarrow

LEMMA RangesApart ==
  ASSUME NEW i \in 1 .. 6, NEW n \in 1 .. 6, i < n
  PROVE  LastOf[i] < FirstOf[n]
BY SMT DEF FirstOf, LastOf

(* The only length for a value. *)
LEMMA ShortestIs ==
  ASSUME NEW n \in 1 .. 6, NEW v \in Nat, FirstOf[n] <= v, v <= LastOf[n]
  PROVE  Min({i \in 1 .. 6 : v <= LastOf[i]}) = n
<1> DEFINE I == {i \in 1 .. 6 : v <= LastOf[i]}
<1>1. n \in I /\ I \subseteq Nat OBVIOUS
<1>2. \A i \in I : i >= n
  <2> SUFFICES ASSUME NEW i \in I, i < n PROVE FALSE
      BY <1>1
  <2>1. i \in 1 .. 6 /\ v <= LastOf[i] OBVIOUS
  <2>2. LastOf[i] < FirstOf[n] /\ LastOf[i] \in Nat /\ FirstOf[n] \in Nat
      BY <2>1, RangesApart, RangesMeet
  <2> QED BY <2>1, <2>2
<1> HIDE DEF I
<1>3. Min(I) \in I /\ \A y \in I : Min(I) <= y BY <1>1, MinIs
<1>4. Min(I) >= n /\ Min(I) <= n BY <1>1, <1>2, <1>3
<1>5. Min(I) \in Nat BY <1>1, <1>3
<1> QED BY <1>4, <1>5 DEF I

(* Continuation bytes. *)
LEMMA TailByteIs ==
  ASSUME NEW b \in 128 .. 191
  PROVE  b % 64 \in 0 .. 63 /\ 128 + (b % 64) = b
BY SMT

LEMMA DigitIs ==
  ASSUME NEW a \in Nat, NEW c \in 0 .. 63
  PROVE  (64 * a + c) % 64 = c
BY SMT

(* The bytes of a multi-byte form, from their value. *)
LEMMA BytesFromValue ==
  ASSUME NEW s \in Seq(Octets), NEW n \in 1 .. 6, n <= Len(s), LeadOf[n] <= s[1],
         \A i \in 2 .. n : s[i] \in 128 .. 191,
         NEW v, v = MultiByteValue(s, n)
  PROVE  /\ v \in Nat
         /\ SubSeq(s, 1, n) =
              [i \in 1 .. n |-> IF i = 1 THEN LeadOf[n] + (v \div Shift[n])
                                ELSE 128 + ((v \div Shift[n - i + 1]) % 64)]
<1>1. LeadOf[n] \in Nat BY RangesMeet
<1>2. PICK f \in [0 .. n - 1 -> Nat] :
        /\ f[0] = s[1] - LeadOf[n] /\ v = f[n - 1]
        /\ \A i \in 1 .. n - 1 : f[i] = 64 * f[i - 1] + (s[i + 1] % 64)
    BY <1>1, ValueIs
<1> DEFINE c == [i \in 1 .. n - 1 |-> s[i + 1] % 64]
<1>3. c \in [1 .. n - 1 -> 0 .. 63]
  <2>1. ASSUME NEW i \in 1 .. n - 1 PROVE s[i + 1] % 64 \in 0 .. 63
    <3>1. i + 1 \in 2 .. n OBVIOUS
    <3> QED BY <3>1, TailByteIs
  <2> QED BY <2>1
<1>4. \A i \in 1 .. n - 1 : c[i] = s[i + 1] % 64 OBVIOUS
<1> HIDE DEF c
<1>5. Grows(f, c, n) BY <1>2, <1>4 DEF Grows
<1>6. \A k \in 0 .. n - 1 : v \div Shift[k + 1] = f[n - 1 - k]
  <2>1. \A k \in 0 .. n - 1 : f[n - 1] \div Shift[k + 1] = f[n - 1 - k]
      BY <1>3, <1>5, ShiftedIs
  <2> QED BY <2>1, <1>2
<1> DEFINE g == [i \in 1 .. n |-> IF i = 1 THEN LeadOf[n] + (v \div Shift[n])
                                  ELSE 128 + ((v \div Shift[n - i + 1]) % 64)]
<1>7. ASSUME NEW i \in 1 .. n PROVE g[i] = s[i]
  <2>1. CASE i = 1
    <3>1. n - 1 \in 0 .. n - 1 /\ (n - 1) + 1 = n /\ n - 1 - (n - 1) = 0 OBVIOUS
    <3>2. v \div Shift[n] = f[0] BY <3>1, <1>6
    <3>3. s[1] \in Int
      <4>1. 1 \in 1 .. Len(s) OBVIOUS
      <4>2. s[1] \in Octets BY <4>1
      <4> QED BY <4>2, OctetIs
    <3>4. g[1] = LeadOf[n] + f[0] BY <3>2, <2>1
    <3> HIDE DEF g
    <3> QED BY <3>3, <3>4, <1>1, <1>2, <2>1
  <2>2. CASE i # 1
    <3>1. n - i \in 0 .. n - 1 /\ (n - i) + 1 = n - i + 1 /\ n - 1 - (n - i) = i - 1
          /\ i - 1 \in 1 .. n - 1 /\ (i - 1) + 1 = i /\ i \in 2 .. n /\ (i - 1) - 1 \in 0 .. n - 1
        BY <2>2
    <3>2. v \div Shift[n - i + 1] = f[i - 1] BY <3>1, <1>6
    <3>3. f[i - 1] = 64 * f[(i - 1) - 1] + (s[i] % 64) BY <3>1, <1>2
    <3>4. s[i] \in 128 .. 191 BY <3>1
    <3>5. f[(i - 1) - 1] \in Nat BY <3>1
    <3>6. f[i - 1] % 64 = s[i] % 64
      <4> DEFINE a == f[(i - 1) - 1]
                 b == s[i] % 64
      <4>1. a \in Nat /\ b \in 0 .. 63 BY <3>4, <3>5, TailByteIs
      <4>2. f[i - 1] = 64 * a + b BY <3>3
      <4> HIDE DEF a, b
      <4>3. f[i - 1] % 64 = b BY SMTT(30), <4>1, <4>2, DigitIs
      <4> QED BY <4>3 DEF b
    <3>7. g[i] = 128 + ((v \div Shift[n - i + 1]) % 64) BY <2>2
    <3> HIDE DEF g
    <3> QED BY <3>2, <3>4, <3>6, <3>7, TailByteIs
  <2> QED BY <2>1, <2>2
<1>8. SubSeq(s, 1, n) = g
  <2>1. SubSeq(s, 1, n) = [i \in 1 .. n |-> s[i]]
    <3>1. /\ SubSeq(s, 1, n) \in Seq(Octets) /\ Len(SubSeq(s, 1, n)) = n
          /\ \A i \in 1 .. n : SubSeq(s, 1, n)[i] = s[i]
      <4>1. n - 1 + 1 = n /\ \A i \in 1 .. n : 1 + i - 1 = i OBVIOUS
      <4> QED BY <4>1, SubIs
    <3> DEFINE u == SubSeq(s, 1, n)
    <3> HIDE DEF u
    <3>2. u = [i \in 1 .. n |-> u[i]] BY <3>1, SeqIs DEF u
    <3> QED BY <3>1, <3>2 DEF u
  <2>2. g = [i \in 1 .. n |-> g[i]] OBVIOUS
  <2> HIDE DEF g
  <2> QED BY <2>1, <2>2, <1>7
<1>9. v \in Nat
  <2>1. n - 1 \in 0 .. n - 1 OBVIOUS
  <2> QED BY <2>1, <1>2
<1> QED BY <1>8, <1>9

(* What a decoder finds: what it takes is there, what is too little is all *)
(* there is, and what is a codepoint has just that encoding.               *)
Found(form, s, d) ==
  /\ d \in [status : {"ok", "invalid", "truncated"}, cp : Seq(Octets), used : 1 .. Len(s)]
  /\ d.status = "truncated" => d.used = Len(s)
  /\ d.status = "ok" => /\ d.cp \in Magnitudes(LebCap - 1)
                        /\ SubSeq(s, 1, d.used) = Encode(form, d.cp)

(* More source changes nothing of what has been found. *)
Begins(s, t) == Len(s) <= Len(t) /\ \A i \in 1 .. Len(s) : s[i] = t[i]

LEMMA MagnitudesIs ==
  ASSUME NEW n \in Nat, NEW m
  PROVE  m \in Magnitudes(n) <=> m \in Seq(Octets) /\ Len(m) <= n /\ (m # <<>> => m[1] # 0)
BY Zenon DEF Magnitudes, Octets

(* What a decoder may answer, one lemma for each answer.                   *)
LEMMA FoundInvalid ==
  ASSUME NEW form, NEW S, NEW s \in Seq(S), NEW u \in 1 .. Len(s)
  PROVE  Found(form, s, Invalid(u))
BY DEF Found, Invalid

LEMMA FoundTruncated ==
  ASSUME NEW form, NEW S, NEW s \in Seq(S), s # <<>>
  PROVE  Found(form, s, Truncated(Len(s)))
BY DEF Found, Truncated

LEMMA FoundDecoded ==
  ASSUME NEW form, NEW S, NEW s \in Seq(S), NEW m \in Magnitudes(LebCap - 1), NEW u \in 1 .. Len(s),
         SubSeq(s, 1, u) = Encode(form, m)
  PROVE  Found(form, s, Decoded(m, u))
<1>1. m \in Seq(Octets) BY DEF Magnitudes, Octets
<1> DEFINE d == Decoded(m, u)
<1>2. d = [status |-> "ok", cp |-> m, used |-> u] BY DEF Decoded
<1>3. d \in [status : {"ok", "invalid", "truncated"}, cp : Seq(Octets), used : 1 .. Len(s)]
    BY <1>1, <1>2
<1>4. d.status = "ok" /\ d.cp = m /\ d.used = u BY <1>2
<1> HIDE DEF d
<1>5. d.status = "truncated" => d.used = Len(s) BY <1>4
<1> QED BY Zenon, <1>3, <1>4, <1>5 DEF Found, d

LEMMA FoundChecked ==
  ASSUME NEW form, NEW S, NEW s \in Seq(S), NEW m \in Magnitudes(LebCap - 1), NEW u \in 1 .. Len(s),
         NEW valid, valid => SubSeq(s, 1, u) = Encode(form, m)
  PROVE  Found(form, s, Checked(valid, m, u))
<1>1. CASE valid
  <2>1. Checked(valid, m, u) = Decoded(m, u) BY <1>1 DEF Checked
  <2>2. SubSeq(s, 1, u) = Encode(form, m) BY <1>1
  <2> QED BY <2>1, <2>2, FoundDecoded
<1>2. CASE ~valid
  <2>1. Checked(valid, m, u) = Invalid(u) BY <1>2 DEF Checked
  <2> QED BY <2>1, FoundInvalid
<1> QED BY <1>1, <1>2

LEMMA Smaller ==
  ASSUME NEW n \in Nat, n < LebCap, NEW m \in Magnitudes(n)
  PROVE  m \in Magnitudes(LebCap - 1)
<1>1. LebCap \in Nat /\ LebCap - 1 \in Nat /\ n <= LebCap - 1 BY SMT DEF LebCap
<1>2. m \in Seq(Octets) /\ Len(m) <= n /\ (m # <<>> => m[1] # 0) BY MagnitudesIs
<1>3. Len(m) <= LebCap - 1 BY <1>1, <1>2
<1> QED BY <1>1, <1>2, <1>3, MagnitudesIs

LEMMA SmallCaps == 4 < LebCap /\ 8 < LebCap /\ LebCap \in Nat
BY SMT DEF LebCap

(* The multi-byte forms, and that more bytes behind a whole sequence       *)
(* change nothing.                                                         *)
LEMMA MultiByteFound ==
  ASSUME NEW s \in Seq(Octets), s # <<>>, NEW domain
  PROVE  LET d == MultiByte(s, domain)
         IN  /\ Found("SUTF8", s, d)
             /\ d.status = "ok" => Narrow(d.cp)
<1> DEFINE n == LeadLength(s[1])
           v == MultiByteValue(s, n)
           m == MagnitudeOf[v]
           d == MultiByte(s, domain)
           tails == \A i \in 2 .. n : s[i] \in 128 .. 191
           valid == v \in FirstOf[n] .. LastOf[n] /\ Valid(domain, m)
<1>1. d = IF n = 0 THEN Invalid(1)
          ELSE IF Len(s) < n THEN Truncated(Len(s))
          ELSE IF ~tails THEN Invalid(1)
          ELSE Checked(valid, m, n)
    BY Zenon DEF MultiByte
<1>2. Len(s) \in Nat /\ 1 \in 1 .. Len(s) /\ s[1] \in Octets
  <2>1. Len(s) \in Nat /\ Len(s) # 0 OBVIOUS
  <2>2. 1 \in 1 .. Len(s) BY <2>1
  <2> QED BY <2>1, <2>2, SeqIs
<1>3. n \in 0 .. 6 /\ (n # 0 => LeadOf[n] \in Nat /\ LeadOf[n] <= s[1])
    BY <1>2, LeadLengthIs
<1> HIDE DEF d, n
<1>4. CASE d \in {Invalid(1), Truncated(Len(s))}
  <2>1. Found("SUTF8", s, d) BY <1>2, <1>4, FoundInvalid, FoundTruncated
  <2>2. d.status # "ok" BY <1>4 DEF Invalid, Truncated
  <2> QED BY <2>1, <2>2 DEF d
<1>5. CASE n # 0 /\ ~(Len(s) < n) /\ tails
  <2>1. n \in 1 .. 6 /\ n <= Len(s) /\ n \in 1 .. Len(s) BY <1>2, <1>3, <1>5
  <2> DEFINE bytes == [i \in 1 .. n |-> IF i = 1 THEN LeadOf[n] + (v \div Shift[n])
                                        ELSE 128 + ((v \div Shift[n - i + 1]) % 64)]
  <2>2. v \in Nat /\ SubSeq(s, 1, n) = bytes
    <3> HIDE DEF v, bytes
    <3>1. \A w : w = MultiByteValue(s, n) => w \in Nat /\ SubSeq(s, 1, n) =
              [i \in 1 .. n |-> IF i = 1 THEN LeadOf[n] + (w \div Shift[n])
                                ELSE 128 + ((w \div Shift[n - i + 1]) % 64)]
        BY <1>3, <1>5, <2>1, BytesFromValue
    <3> QED BY <3>1 DEF v, bytes
  <2>3. d = Checked(valid, m, n) BY <1>1, <1>5
  <2> HIDE DEF v, bytes
  <2>4. CASE ~valid
    <3>1. d = Invalid(n) BY <2>3, <2>4 DEF Checked
    <3>2. d.status # "ok" BY <3>1 DEF Invalid
    <3> QED BY <3>1, <3>2, <2>1, FoundInvalid DEF d
  <2>5. CASE valid
    <3>1. FirstOf[n] <= v /\ v <= LastOf[n] /\ v <= MaxNarrow
      <4>1. /\ FirstOf[n] \in Nat /\ LastOf[n] \in Nat /\ LastOf[n] <= MaxNarrow
          BY <2>1, RangesMeet
      <4>2. MaxNarrow \in Nat BY SMT DEF MaxNarrow
      <4>3. FirstOf[n] <= v /\ v <= LastOf[n] BY <2>5, <4>1
      <4> QED BY <4>1, <4>2, <4>3, <2>2
    <3>2. m \in Magnitudes(4) /\ NatOf(m) = v /\ Narrow(m) BY <2>2, <3>1, MagnitudeOfIs
    <3> HIDE DEF m
    <3>3. Min({i \in 1 .. 6 : NatOf(m) <= LastOf[i]}) = n BY <2>1, <2>2, <3>1, <3>2, ShortestIs
    <3>4. EncodeBytes(m) = bytes BY <3>2, <3>3 DEF EncodeBytes, bytes
    <3>5. Encode("SUTF8", m) = EncodeBytes(m) BY DEF Encode
    <3>6. m \in Magnitudes(LebCap - 1) BY <3>2, SmallCaps, Smaller
    <3>7. Found("SUTF8", s, d) BY <2>1, <2>2, <2>3, <3>4, <3>5, <3>6, FoundChecked
    <3>8. d = Decoded(m, n) BY <2>3, <2>5 DEF Checked
    <3>9. d.status = "ok" => Narrow(d.cp) BY <3>2, <3>8 DEF Decoded
    <3> QED BY <3>7, <3>9 DEF d
  <2> QED BY <2>4, <2>5
<1>6. d \in {Invalid(1), Truncated(Len(s))} \/ (n # 0 /\ ~(Len(s) < n) /\ tails) BY <1>1
<1> QED BY <1>4, <1>5, <1>6

LEMMA ValueStable ==
  ASSUME NEW s \in Seq(Octets), NEW t \in Seq(Octets), Begins(s, t),
         NEW n \in 1 .. 6, n <= Len(s), LeadOf[n] <= s[1]
  PROVE  MultiByteValue(s, n) = MultiByteValue(t, n)
<1>1. Len(s) \in Nat /\ Len(t) \in Nat /\ Len(s) <= Len(t) BY DEF Begins
<1>2. s[1] = t[1] /\ n <= Len(t)
  <2>1. 1 \in 1 .. Len(s) BY <1>1
  <2> QED BY <1>1, <2>1 DEF Begins
<1>3. LeadOf[n] \in Nat BY RangesMeet
<1>4. PICK f \in [0 .. n - 1 -> Nat] :
        /\ f[0] = s[1] - LeadOf[n] /\ MultiByteValue(s, n) = f[n - 1]
        /\ \A i \in 1 .. n - 1 : f[i] = 64 * f[i - 1] + (s[i + 1] % 64)
    BY <1>3, ValueIs
<1>5. LeadOf[n] <= t[1] BY <1>2
<1>6. PICK g \in [0 .. n - 1 -> Nat] :
        /\ g[0] = t[1] - LeadOf[n] /\ MultiByteValue(t, n) = g[n - 1]
        /\ \A i \in 1 .. n - 1 : g[i] = 64 * g[i - 1] + (t[i + 1] % 64)
    BY <1>2, <1>3, <1>5, ValueIs
<1>7. \A i \in 0 .. n - 1 : f[i] = g[i]
  <2> DEFINE bad == {i \in 0 .. n - 1 : f[i] # g[i]}
  <2> SUFFICES ASSUME bad # {} PROVE FALSE
      OBVIOUS
  <2>1. bad \subseteq Nat OBVIOUS
  <2>2. PICK i \in bad : \A j \in bad : i <= j BY <2>1, LeastExists
  <2>3. i \in 0 .. n - 1 /\ f[i] # g[i] BY <2>2
  <2>4. i # 0 BY <2>3, <1>2, <1>4, <1>6
  <2>5. i \in 1 .. n - 1 /\ i - 1 \in 0 .. n - 1 /\ ~(i <= i - 1) /\ i + 1 \in 1 .. Len(s)
      BY <2>3, <2>4, <1>1
  <2>6. f[i - 1] = g[i - 1] BY <2>2, <2>5
  <2>7. s[i + 1] = t[i + 1] BY <2>5 DEF Begins
  <2>8. f[i] = 64 * f[i - 1] + (s[i + 1] % 64) BY <2>5, <1>4
  <2>9. g[i] = 64 * g[i - 1] + (t[i + 1] % 64) BY <2>5, <1>6
  <2> QED BY <2>3, <2>6, <2>7, <2>8, <2>9
<1>8. n - 1 \in 0 .. n - 1 OBVIOUS
<1> QED BY <1>4, <1>6, <1>7, <1>8

LEMMA MultiByteStable ==
  ASSUME NEW s \in Seq(Octets), NEW t \in Seq(Octets), s # <<>>, Begins(s, t), NEW domain,
         MultiByte(s, domain).status # "truncated"
  PROVE  MultiByte(t, domain) = MultiByte(s, domain)
<1> DEFINE n == LeadLength(s[1])
           tails(u) == \A i \in 2 .. n : u[i] \in 128 .. 191
           valid(v) == v \in FirstOf[n] .. LastOf[n] /\ Valid(domain, MagnitudeOf[v])
           checked(v) == Checked(valid(v), MagnitudeOf[v], n)
           d(u) == IF n = 0 THEN Invalid(1)
                   ELSE IF Len(u) < n THEN Truncated(Len(u))
                   ELSE IF ~tails(u) THEN Invalid(1)
                   ELSE checked(MultiByteValue(u, n))
<1>1. MultiByte(s, domain) = d(s) BY Zenon DEF MultiByte
<1>2. /\ Len(s) \in Nat /\ Len(t) \in Nat /\ Len(s) <= Len(t) /\ 1 \in 1 .. Len(s)
      /\ s[1] = t[1] /\ s[1] \in Octets
  <2>1. Len(s) \in Nat /\ Len(t) \in Nat /\ Len(s) # 0 OBVIOUS
  <2>2. 1 \in 1 .. Len(s) BY <2>1
  <2> QED BY <2>1, <2>2, SeqIs DEF Begins
<1>3. MultiByte(t, domain) = d(t)
  <2>1. LeadLength(t[1]) = n BY <1>2
  <2> HIDE DEF n
  <2> QED BY Zenon, <2>1 DEF MultiByte
<1>4. n \in 0 .. 6 /\ (n # 0 => LeadOf[n] \in Nat /\ LeadOf[n] <= s[1])
    BY <1>2, LeadLengthIs
<1> HIDE DEF n, checked
<1>5. CASE n = 0 BY <1>1, <1>3, <1>5
<1>6. CASE n # 0
  <2>1. ~(Len(s) < n) BY <1>1, <1>6 DEF Truncated
  <2>2. n \in 1 .. 6 /\ n <= Len(s) /\ ~(Len(t) < n) BY <2>1, <1>2, <1>4, <1>6
  <2>3. tails(s) <=> tails(t)
    <3>1. \A i \in 2 .. n : i \in 1 .. Len(s) BY <2>2, <1>2
    <3>2. \A i \in 2 .. n : s[i] = t[i] BY <3>1 DEF Begins
    <3> QED BY <3>2
  <2>4. MultiByteValue(s, n) = MultiByteValue(t, n) BY <1>4, <2>2, ValueStable
  <2> HIDE DEF tails
  <2>5. d(s) = d(t) BY <2>1, <2>2, <2>3, <2>4
  <2> HIDE DEF d
  <2> QED BY <1>1, <1>3, <2>5
<1> QED BY <1>5, <1>6

Duplets == 0 .. MaxWord

LEMMA NonEmpty ==
  ASSUME NEW S, NEW s \in Seq(S), s # <<>>
  PROVE  Len(s) \in Nat /\ 1 \in 1 .. Len(s) /\ s[1] \in S
<1>1. Len(s) \in Nat /\ Len(s) # 0 OBVIOUS
<1>2. 1 \in 1 .. Len(s) BY <1>1
<1> QED BY <1>1, <1>2, SeqIs

LEMMA FrontIs ==
  ASSUME NEW S, NEW s \in Seq(S), NEW n \in Nat, n <= Len(s)
  PROVE  SubSeq(s, 1, n) = [i \in 1 .. n |-> s[i]]
<1>1. /\ SubSeq(s, 1, n) \in Seq(S) /\ Len(SubSeq(s, 1, n)) = n
      /\ \A i \in 1 .. n : SubSeq(s, 1, n)[i] = s[i]
  <2>1. n - 1 + 1 = n /\ \A i \in 1 .. n : 1 + i - 1 = i OBVIOUS
  <2> QED BY <2>1, SubIs
<1> DEFINE u == SubSeq(s, 1, n)
<1> HIDE DEF u
<1>2. u = [i \in 1 .. n |-> u[i]] BY <1>1, SeqIs DEF u
<1> QED BY <1>1, <1>2 DEF u

LEMMA HighBitIs == HighBit \in Nat /\ \A w \in Duplets : w \in Nat /\ w <= MaxNarrow
BY SMT DEF HighBit, Duplets, MaxNarrow, MaxWord

(* Words: SUTF-16, and SUST-16 byte by byte.                               *)
LEMMA DupletIs ==
  ASSUME NEW w \in Duplets
  PROVE  /\ w \div 256 \in Octets /\ w % 256 \in Octets
         /\ 256 * (w \div 256) + (w % 256) = w
         /\ (w % HighBit) \div 256 \in Octets
         /\ ~(w < HighBit) => w = HighBit + 256 * ((w % HighBit) \div 256) + (w % 256)
<1>1. w \in Nat /\ w <= 65535 BY SMTT(30) DEF Duplets, MaxWord
<1>2. w \div 256 \in 0 .. 255 /\ w % 256 \in 0 .. 255 BY <1>1, SMT
<1>3. 256 * (w \div 256) + (w % 256) = w BY <1>1, SMT
<1> DEFINE q == w \div 256
           r == w % 256
           h == IF q < 128 THEN 0 ELSE 1
           z == 256 * (q - 128 * h) + r
<1>4. q \in 0 .. 255 /\ r \in 0 .. 255 /\ w = 256 * q + r BY <1>1, <1>2, <1>3
<1> HIDE DEF q, r
<1>5. h \in Nat /\ z \in Nat /\ z < 32768 /\ w = 32768 * h + z /\ q - 128 * h \in 0 .. 255
    BY <1>4
<1>6. ~(w < 32768) => h = 1 BY <1>4
<1> DEFINE y == q - 128 * h
<1>7. z = 256 * y + r /\ y \in Nat /\ r < 256 /\ r \in Nat /\ y \in 0 .. 255 BY <1>4, <1>5
<1> HIDE DEF h, z, y
<1>8. (32768 * h + z) % 32768 = z BY <1>5, SMT
<1>9. (256 * y + r) \div 256 = y BY <1>7, SMT
<1>10. w % 32768 = z /\ z \div 256 = y
  <2>1. w % 32768 = z BY <1>5, <1>8
  <2>2. z \div 256 = y BY <1>7, <1>9
  <2> QED BY <2>1, <2>2
<1>11. ~(w < 32768) => w = 32768 + 256 * y + r BY <1>5, <1>6, <1>7
<1>12. /\ (w % 32768) \div 256 \in 0 .. 255
       /\ ~(w < 32768) => w = 32768 + 256 * ((w % 32768) \div 256) + (w % 256)
    BY <1>7, <1>10, <1>11 DEF r
<1> QED BY <1>2, <1>3, <1>12, SMT DEF Octets, HighBit

LEMMA PairIs ==
  ASSUME NEW a \in Octets, NEW b \in Octets, NEW c \in Octets, NEW d \in Octets
  PROVE  /\ NumberOf(a, b, c, d) \div 65536 = 256 * a + b
         /\ NumberOf(a, b, c, d) % 65536 = 256 * c + d
         /\ NumberOf(a, b, c, d) \in Nat
<1> DEFINE x == 256 * a + b
           y == 256 * c + d
<1>1. a \in 0 .. 255 /\ b \in 0 .. 255 /\ c \in 0 .. 255 /\ d \in 0 .. 255 BY DEF Octets
<1>2. x \in Nat BY <1>1
<1>3. y \in Nat /\ y < 65536 BY <1>1, SMT
<1>4. NumberOf(a, b, c, d) = 65536 * x + y BY <1>1, SMT DEF NumberOf
<1> HIDE DEF x, y
<1>5. (65536 * x + y) \div 65536 = x BY <1>2, <1>3, SMT
<1>6. (65536 * x + y) % 65536 = y BY <1>2, <1>3, SMT
<1>7. 65536 * x + y \in Nat BY <1>2, <1>3
<1> QED BY <1>4, <1>5, <1>6, <1>7, SMT DEF x, y

LEMMA WordsFound ==
  ASSUME NEW s \in Seq(Duplets), s # <<>>
  PROVE  LET d == Words(s)
         IN  /\ d \in [status : {"ok", "invalid", "truncated"}, cp : Seq(Octets), used : 1 .. Len(s)]
             /\ d.status = "truncated" => d.used = Len(s)
             /\ d.status = "ok" => d.cp \in Magnitudes(4) /\ SubSeq(s, 1, d.used) = EncodeWords(d.cp)
             /\ s[1] < HighBit => d.used = 1 /\ d.status # "truncated"
             /\ ~(s[1] < HighBit) /\ Len(s) >= 2 => d.used = 2 /\ d.status # "truncated"
<1> DEFINE d == Words(s)
           a == (s[1] % HighBit) \div 256
           b == s[1] % 256
           e == s[2] \div 256
           f == s[2] % 256
           m == Strip(<<a, b, e, f>>)
           k == MagnitudeOf[s[1]]
<1>1. Len(s) \in Nat /\ 1 \in 1 .. Len(s) /\ s[1] \in Duplets BY NonEmpty
<1>2. d = IF s[1] < HighBit THEN Checked(Valid("Base", k), k, 1)
          ELSE IF Len(s) < 2 THEN Truncated(1)
          ELSE Checked(NatOf(m) >= HighBit /\ Valid("Base", m), m, 2)
    BY Zenon DEF Words
<1> DEFINE Good == /\ d \in [status : {"ok", "invalid", "truncated"}, cp : Seq(Octets), used : 1 .. Len(s)]
                   /\ d.status = "truncated" => d.used = Len(s)
                   /\ d.status = "ok" => d.cp \in Magnitudes(4) /\ SubSeq(s, 1, d.used) = EncodeWords(d.cp)
<1> HIDE DEF d
<1>3. ASSUME NEW x \in Magnitudes(4), NEW u \in 1 .. Len(s), NEW valid,
             valid => SubSeq(s, 1, u) = EncodeWords(x), d = Checked(valid, x, u)
      PROVE  Good /\ d.used = u /\ d.status # "truncated"
  <2>0. x \in Seq(Octets) BY DEF Magnitudes, Octets
  <2>1. CASE valid
    <3>1. d = [status |-> "ok", cp |-> x, used |-> u] BY <1>3, <2>1 DEF Checked, Decoded
    <3>2. d \in [status : {"ok", "invalid", "truncated"}, cp : Seq(Octets), used : 1 .. Len(s)]
        BY <2>0, <3>1
    <3>3. d.status = "ok" /\ d.cp = x /\ d.used = u BY <3>1
    <3>4. SubSeq(s, 1, u) = EncodeWords(x) BY <2>1, <1>3
    <3> QED BY Zenon, <3>2, <3>3, <3>4, <1>3
  <2>2. CASE ~valid
    <3>1. d = [status |-> "invalid", cp |-> <<>>, used |-> u] BY <1>3, <2>2 DEF Checked, Invalid
    <3>2. d \in [status : {"ok", "invalid", "truncated"}, cp : Seq(Octets), used : 1 .. Len(s)]
        BY <3>1
    <3>3. d.status = "invalid" /\ d.used = u BY <3>1
    <3> QED BY <3>2, <3>3
  <2> QED BY <2>1, <2>2
<1>4. CASE s[1] < HighBit
  <2>1. k \in Magnitudes(4) /\ NatOf(k) = s[1]
    <3>1. s[1] \in Nat /\ s[1] <= MaxNarrow BY <1>1, HighBitIs
    <3> QED BY <3>1, MagnitudeOfIs
  <2> HIDE DEF k
  <2>2. EncodeWords(k) = <<s[1]>>
    <3> QED BY <2>1, <1>4 DEF EncodeWords
  <2>3. SubSeq(s, 1, 1) = <<s[1]>>
    <3>1. 1 <= Len(s) BY <1>1
    <3>2. SubSeq(s, 1, 1) = [i \in 1 .. 1 |-> s[i]] BY <3>1, FrontIs
    <3>3. [i \in 1 .. 1 |-> s[i]] = <<s[1]>> OBVIOUS
    <3> QED BY <3>2, <3>3
  <2>4. d = Checked(Valid("Base", k), k, 1) BY <1>2, <1>4
  <2>5. Good /\ d.used = 1 /\ d.status # "truncated" BY <1>1, <1>3, <2>1, <2>2, <2>3, <2>4
  <2> QED BY <1>4, <2>5 DEF d
<1>5. CASE ~(s[1] < HighBit) /\ Len(s) < 2
  <2>1. Len(s) = 1
    <3> DEFINE k1 == Len(s)
    <3>1. k1 \in Nat /\ 1 \in 1 .. k1 /\ k1 < 2 BY <1>1, <1>5
    <3> HIDE DEF k1
    <3>2. k1 = 1 BY <3>1
    <3> QED BY <3>2 DEF k1
  <2>2. d = [status |-> "truncated", cp |-> <<>>, used |-> 1] BY <1>2, <1>5 DEF Truncated
  <2>3. d \in [status : {"ok", "invalid", "truncated"}, cp : Seq(Octets), used : 1 .. Len(s)]
      BY <2>1, <2>2
  <2>4. d.status = "truncated" /\ d.used = 1 BY <2>2
  <2>5. ~(Len(s) >= 2) BY <2>1
  <2> QED BY <1>5, <2>1, <2>3, <2>4, <2>5 DEF d
<1>6. CASE ~(s[1] < HighBit) /\ ~(Len(s) < 2)
  <2>1. 2 <= Len(s) /\ 2 \in 1 .. Len(s) BY <1>1, <1>6
  <2>2. s[2] \in Duplets BY <2>1, SeqIs
  <2>3. /\ a \in Octets /\ b \in Octets /\ e \in Octets /\ f \in Octets
        /\ HighBit + 256 * a + b = s[1] /\ 256 * e + f = s[2]
    <3>1. a \in Octets /\ b \in Octets /\ s[1] = HighBit + 256 * a + b
        BY <1>1, <1>6, DupletIs
    <3>2. e \in Octets /\ f \in Octets /\ 256 * e + f = s[2] BY <2>2, DupletIs
    <3> QED BY <3>1, <3>2
  <2> HIDE DEF a, b, e, f
  <2>4. m \in Magnitudes(4) /\ NatOf(m) = NumberOf(a, b, e, f) BY <2>3, StripFour
  <2> HIDE DEF m
  <2>5. NatOf(m) \div 65536 = 256 * a + b /\ NatOf(m) % 65536 = s[2] /\ NatOf(m) \in Nat
      BY <2>3, <2>4, PairIs
  <2>6. HighBit + (NatOf(m) \div 65536) = s[1]
    <3> DEFINE x == NatOf(m) \div 65536
               y == s[1]
               h == HighBit
    <3>1. a \in Int /\ b \in Int /\ h \in Int BY <2>3, OctetIs, HighBitIs
    <3>2. x = 256 * a + b /\ h + 256 * a + b = y BY <2>3, <2>5
    <3> HIDE DEF x, y, h
    <3>3. h + x = y BY <3>1, <3>2
    <3> QED BY <3>3 DEF x, y, h
  <2>7. NatOf(m) >= HighBit => EncodeWords(m) = <<s[1], s[2]>>
    <3>1. NatOf(m) >= HighBit => ~(NatOf(m) < HighBit) BY <2>5, HighBitIs
    <3>2. EncodeWords(m) = IF NatOf(m) < HighBit THEN <<NatOf(m)>>
                           ELSE <<HighBit + (NatOf(m) \div 65536), NatOf(m) % 65536>>
        BY SMT DEF EncodeWords
    <3> QED BY <2>5, <2>6, <3>1, <3>2
  <2>8. SubSeq(s, 1, 2) = <<s[1], s[2]>>
    <3>1. SubSeq(s, 1, 2) = [i \in 1 .. 2 |-> s[i]] BY <2>1, FrontIs
    <3>2. [i \in 1 .. 2 |-> s[i]] = <<s[1], s[2]>> OBVIOUS
    <3> QED BY <3>1, <3>2
  <2>9. d = Checked(NatOf(m) >= HighBit /\ Valid("Base", m), m, 2) BY <1>2, <1>6
  <2>10. Good /\ d.used = 2 /\ d.status # "truncated" BY <1>3, <2>1, <2>4, <2>7, <2>8, <2>9
  <2> QED BY <1>6, <2>10 DEF d
<1> QED BY <1>4, <1>5, <1>6

LEMMA WordsStable ==
  ASSUME NEW s \in Seq(Duplets), NEW t \in Seq(Duplets), s # <<>>, Begins(s, t),
         Words(s).status # "truncated"
  PROVE  Words(t) = Words(s)
<1>1. /\ Len(s) \in Nat /\ Len(t) \in Nat /\ Len(s) <= Len(t) /\ 1 \in 1 .. Len(s)
      /\ s[1] = t[1]
  <2>1. Len(s) \in Nat /\ 1 \in 1 .. Len(s) BY NonEmpty
  <2> QED BY <2>1 DEF Begins
<1> DEFINE k == MagnitudeOf[s[1]]
           first == Checked(Valid("Base", k), k, 1)
           m(u) == Strip(<<(s[1] % HighBit) \div 256, s[1] % 256, u[2] \div 256, u[2] % 256>>)
           second(u) == Checked(NatOf(m(u)) >= HighBit /\ Valid("Base", m(u)), m(u), 2)
           d(u) == IF s[1] < HighBit THEN first
                   ELSE IF Len(u) < 2 THEN Truncated(1) ELSE second(u)
<1>2. Words(s) = d(s) BY Zenon DEF Words
<1>3. Words(t) = d(t) BY <1>1, SMT DEF Words
<1> HIDE DEF first
<1>4. CASE s[1] < HighBit BY <1>2, <1>3, <1>4
<1>5. CASE ~(s[1] < HighBit)
  <2>1. ~(Len(s) < 2)
    <3> HIDE DEF second
    <3> QED BY <1>2, <1>5 DEF Truncated
  <2>2. ~(Len(t) < 2) /\ s[2] = t[2]
    <3>1. 2 \in 1 .. Len(s) BY <1>1, <2>1
    <3> QED BY <1>1, <2>1, <3>1 DEF Begins
  <2>3. second(s) = second(t) BY <2>2
  <2> HIDE DEF second
  <2> QED BY <1>2, <1>3, <1>5, <2>1, <2>2, <2>3
<1> QED BY <1>4, <1>5

Joined(s, n) == [i \in 1 .. n \div 2 |-> 256 * s[2 * i - 1] + s[2 * i]]

Halved(w, n) ==
  [i \in 1 .. n |-> IF i % 2 = 1 THEN w[(i + 1) \div 2] \div 256 ELSE w[i \div 2] % 256]

LEMMA DupletsAre == \A w \in Nat : w <= MaxWord => w \in Duplets
<1>1. MaxWord \in Nat BY SMT DEF MaxWord
<1> QED BY <1>1 DEF Duplets

LEMMA JoinIs ==
  ASSUME NEW a \in Octets, NEW b \in Octets
  PROVE  /\ 256 * a + b \in Duplets
         /\ (256 * a + b) \div 256 = a /\ (256 * a + b) % 256 = b
         /\ 256 * a + b < HighBit <=> a < 128
<1>1. a \in Nat /\ b \in Nat /\ a < 256 /\ b < 256 BY DEF Octets
<1>2. (256 * a + b) \div 256 = a /\ (256 * a + b) % 256 = b BY <1>1, SMT
<1>3. 256 * a + b \in Nat /\ 256 * a + b <= MaxWord BY <1>1, SMT DEF MaxWord
<1>4. 256 * a + b < 32768 <=> a < 128 BY <1>1, SMT
<1>5. 256 * a + b \in Duplets BY <1>3, DupletsAre
<1>6. 256 * a + b < HighBit <=> a < 128 BY <1>4, SMT DEF HighBit
<1> QED BY <1>2, <1>5, <1>6

LEMMA JoinedIs ==
  ASSUME NEW s \in Seq(Octets), NEW n \in {2, 4}, n <= Len(s)
  PROVE  /\ Joined(s, n) \in Seq(Duplets) /\ Len(Joined(s, n)) = n \div 2
         /\ n \div 2 \in 1 .. 2 /\ Joined(s, n) # <<>>
         /\ Joined(s, n)[1] < HighBit <=> s[1] < 128
         /\ SubSeq(s, 1, n) = Halved(Joined(s, n), n)
<1>1. n \div 2 \in 1 .. 2 /\ (n = 2 => n \div 2 = 1) /\ (n = 4 => n \div 2 = 2) OBVIOUS
<1> DEFINE k == n \div 2
           w == Joined(s, n)
<1>2. \A i \in 1 .. n : s[i] \in Octets
  <2>1. \A i \in 1 .. n : i \in 1 .. Len(s) OBVIOUS
  <2> QED BY <2>1, SeqIs
<1>3. ASSUME NEW i \in 1 .. k
      PROVE  /\ 2 * i - 1 \in 1 .. n /\ 2 * i \in 1 .. n
             /\ w[i] = 256 * s[2 * i - 1] + s[2 * i]
  <2>1. w[i] = 256 * s[2 * i - 1] + s[2 * i] BY DEF Joined
  <2>2. i = 1 \/ (i = 2 /\ n = 4) BY <1>1
  <2> HIDE DEF w
  <2> QED BY <2>1, <2>2
<1>4. \A i \in 1 .. k : /\ w[i] \in Duplets
                        /\ w[i] \div 256 = s[2 * i - 1] /\ w[i] % 256 = s[2 * i]
                        /\ w[i] < HighBit <=> s[2 * i - 1] < 128
  <2> HIDE DEF w, k
  <2> SUFFICES ASSUME NEW i \in 1 .. k
               PROVE  /\ w[i] \in Duplets
                      /\ w[i] \div 256 = s[2 * i - 1] /\ w[i] % 256 = s[2 * i]
                      /\ w[i] < HighBit <=> s[2 * i - 1] < 128
      OBVIOUS
  <2>1. s[2 * i - 1] \in Octets /\ s[2 * i] \in Octets BY <1>2, <1>3
  <2> QED BY <2>1, <1>3, JoinIs
<1>5. w \in Seq(Duplets) /\ Len(w) = k
  <2>1. w = [i \in 1 .. k |-> w[i]] BY DEF Joined
  <2> HIDE DEF w
  <2>2. w \in [1 .. k -> Duplets] BY <1>4, <2>1
  <2>3. k \in Nat BY <1>1
  <2> HIDE DEF k
  <2> QED BY <2>2, <2>3
<1>6. w # <<>> BY <1>1, <1>5
<1>7. w[1] < HighBit <=> s[1] < 128
  <2>1. 1 \in 1 .. k /\ 2 * 1 - 1 = 1 BY <1>1
  <2> HIDE DEF w, k
  <2> QED BY <1>4, <2>1
<1> HIDE DEF w
<1>8. ASSUME NEW i \in 1 .. n
      PROVE  (IF i % 2 = 1 THEN w[(i + 1) \div 2] \div 256 ELSE w[i \div 2] % 256) = s[i]
  <2>1. CASE i = 1
    <3>1. 1 \in 1 .. k /\ 2 * 1 - 1 = 1 /\ (1 + 1) \div 2 = 1 /\ 1 % 2 = 1 BY <1>1
    <3> QED BY <2>1, <3>1, <1>4
  <2>2. CASE i = 2
    <3>1. 1 \in 1 .. k /\ 2 * 1 = 2 /\ 2 \div 2 = 1 /\ 2 % 2 # 1 BY <1>1
    <3> QED BY <2>2, <3>1, <1>4
  <2>3. CASE i = 3
    <3>1. 2 \in 1 .. k /\ 2 * 2 - 1 = 3 /\ (3 + 1) \div 2 = 2 /\ 3 % 2 = 1 BY <1>1, <2>3
    <3> QED BY <2>3, <3>1, <1>4
  <2>4. CASE i = 4
    <3>1. 2 \in 1 .. k /\ 2 * 2 = 4 /\ 4 \div 2 = 2 /\ 4 % 2 # 1 BY <1>1, <2>4
    <3> QED BY <2>4, <3>1, <1>4
  <2> QED BY <2>1, <2>2, <2>3, <2>4
<1>9. SubSeq(s, 1, n) = [i \in 1 .. n |-> s[i]] BY FrontIs
<1>10. Halved(w, n) = [i \in 1 .. n |-> s[i]] BY <1>8 DEF Halved
<1> QED BY <1>1, <1>5, <1>6, <1>7, <1>9, <1>10 DEF w

LEMMA WordBytesIs ==
  ASSUME NEW s, NEW n, n = IF s[1] >= 128 THEN 4 ELSE 2
  PROVE  WordBytes(s) = IF Len(s) < n THEN Truncated(Len(s))
                        ELSE [Words(Joined(s, n)) EXCEPT !.used = 2 * @]
BY Zenon DEF WordBytes, Joined

LEMMA WordBytesFound ==
  ASSUME NEW s \in Seq(Octets), s # <<>>
  PROVE  Found("SUST16", s, WordBytes(s))
<1> DEFINE n == IF s[1] >= 128 THEN 4 ELSE 2
           w == Joined(s, n)
           x == Words(w)
           d == WordBytes(s)
<1>1. Len(s) \in Nat /\ 1 \in 1 .. Len(s) /\ s[1] \in Octets BY NonEmpty
<1>2. d = IF Len(s) < n THEN Truncated(Len(s)) ELSE [x EXCEPT !.used = 2 * @]
    BY WordBytesIs
<1>3. n \in {2, 4} OBVIOUS
<1>4. s[1] \in Int /\ (s[1] < 128 <=> n = 2)
  <2>1. s[1] \in Int BY <1>1, OctetIs
  <2> QED BY <2>1
<1> HIDE DEF d, n
<1>5. CASE Len(s) < n BY <1>2, <1>5, FoundTruncated DEF d
<1>6. CASE ~(Len(s) < n)
  <2>1. n <= Len(s) /\ n \in 1 .. Len(s) BY <1>1, <1>3, <1>6
  <2>2. /\ w \in Seq(Duplets) /\ Len(w) = n \div 2 /\ w # <<>>
        /\ w[1] < HighBit <=> s[1] < 128
        /\ SubSeq(s, 1, n) = Halved(w, n)
      BY <1>3, <2>1, JoinedIs
  <2> HIDE DEF w
  <2>3. /\ x \in [status : {"ok", "invalid", "truncated"}, cp : Seq(Octets), used : 1 .. Len(w)]
        /\ x.status = "ok" => x.cp \in Magnitudes(4) /\ SubSeq(w, 1, x.used) = EncodeWords(x.cp)
        /\ w[1] < HighBit => x.used = 1 /\ x.status # "truncated"
        /\ ~(w[1] < HighBit) /\ Len(w) >= 2 => x.used = 2 /\ x.status # "truncated"
      BY <2>2, WordsFound
  <2>4. x.status # "truncated" /\ x.used = Len(w) /\ 2 * x.used = n
    <3>1. CASE n = 2
      <4>1. Len(w) = 1 BY <2>2, <3>1
      <4> QED BY <4>1, <3>1, <1>4, <2>2, <2>3
    <3>2. CASE n = 4
      <4>1. Len(w) = 2 BY <2>2, <3>2
      <4>2. ~(w[1] < HighBit) BY <1>4, <2>2, <3>2
      <4> QED BY <4>1, <4>2, <3>2, <2>3
    <3> QED BY <1>3, <3>1, <3>2
  <2> HIDE DEF x
  <2>5. d = [x EXCEPT !.used = 2 * @] BY <1>2, <1>6
  <2>6. /\ d \in [status : {"ok", "invalid", "truncated"}, cp : Seq(Octets), used : 1 .. Len(s)]
        /\ d.status = x.status /\ d.cp = x.cp /\ d.used = n
    <3>1. d = [x EXCEPT !.used = n] BY <2>4, <2>5
    <3> QED BY <3>1, <2>1, <2>3
  <2>7. ASSUME x.status = "ok"
        PROVE  x.cp \in Magnitudes(LebCap - 1) /\ SubSeq(s, 1, n) = Encode("SUST16", x.cp)
    <3>1. x.cp \in Magnitudes(LebCap - 1) BY <2>3, <2>7, SmallCaps, Smaller
    <3>2. SubSeq(w, 1, Len(w)) = w BY <2>2
    <3>3. w = EncodeWords(x.cp) BY <2>3, <2>4, <2>7, <3>2
    <3>4. 2 * Len(w) = n BY <2>4
    <3>5. EncodeWordBytes(x.cp) = Halved(w, n) BY <3>3, <3>4 DEF EncodeWordBytes, Halved
    <3>6. Encode("SUST16", x.cp) = EncodeWordBytes(x.cp) BY DEF Encode
    <3> QED BY <3>1, <3>5, <3>6, <2>2
  <2> QED BY <2>4, <2>6, <2>7 DEF Found, d
<1> QED BY <1>5, <1>6

LEMMA WordBytesStable ==
  ASSUME NEW s \in Seq(Octets), NEW t \in Seq(Octets), s # <<>>, Begins(s, t),
         WordBytes(s).status # "truncated"
  PROVE  WordBytes(t) = WordBytes(s)
<1> DEFINE n == IF s[1] >= 128 THEN 4 ELSE 2
<1>1. /\ Len(s) \in Nat /\ Len(t) \in Nat /\ Len(s) <= Len(t) /\ 1 \in 1 .. Len(s)
      /\ s[1] = t[1]
  <2>1. Len(s) \in Nat /\ 1 \in 1 .. Len(s) BY NonEmpty
  <2> QED BY <2>1 DEF Begins
<1>2. n = IF t[1] >= 128 THEN 4 ELSE 2 BY <1>1
<1>3. n \in {2, 4} OBVIOUS
<1>4. WordBytes(s) = IF Len(s) < n THEN Truncated(Len(s))
                     ELSE [Words(Joined(s, n)) EXCEPT !.used = 2 * @]
    BY WordBytesIs
<1> HIDE DEF n
<1>5. WordBytes(t) = IF Len(t) < n THEN Truncated(Len(t))
                     ELSE [Words(Joined(t, n)) EXCEPT !.used = 2 * @]
    BY <1>2, WordBytesIs
<1>6. ~(Len(s) < n) BY <1>4 DEF Truncated
<1>7. ~(Len(t) < n) BY <1>1, <1>3, <1>6
<1>8. Joined(t, n) = Joined(s, n)
  <2>1. ASSUME NEW i \in 1 .. n \div 2 PROVE s[2 * i - 1] = t[2 * i - 1] /\ s[2 * i] = t[2 * i]
    <3>1. 2 * i - 1 \in 1 .. Len(s) /\ 2 * i \in 1 .. Len(s) BY <1>1, <1>3, <1>6
    <3> QED BY <3>1 DEF Begins
  <2> QED BY <2>1 DEF Joined
<1> QED BY <1>4, <1>5, <1>6, <1>7, <1>8

(* Codepoints in containers of a fixed width.                              *)
LEMMA ContainerFound ==
  ASSUME NEW s \in Seq(Octets), s # <<>>, NEW n \in {4, 8}, NEW domain,
         NEW form, \A m : Encode(form, m) = Pad(m, n)
  PROVE  Found(form, s, Container(s, n, domain))
<1> DEFINE u == SubSeq(s, 1, n)
           m == Strip(u)
           d == Container(s, n, domain)
<1>1. d = IF Len(s) < n THEN Truncated(Len(s)) ELSE Checked(Valid(domain, m), m, n)
    BY DEF Container
<1>2. Len(s) \in Nat /\ n \in Nat \ {0} BY NonEmpty
<1> HIDE DEF d
<1>3. CASE Len(s) < n BY <1>1, <1>3, FoundTruncated DEF d
<1>4. CASE ~(Len(s) < n)
  <2>1. n <= Len(s) /\ n \in 1 .. Len(s) BY <1>2, <1>4
  <2>2. u \in Seq(Octets) /\ Len(u) = n
    <3>1. n - 1 + 1 = n BY <1>2
    <3> QED BY <1>2, <2>1, <3>1, SubIs
  <2> HIDE DEF u
  <2>3. m \in Seq(Octets) /\ Len(m) <= n /\ (m # <<>> => m[1] # 0) /\ Pad(m, n) = u
      BY <2>2, StripIs
  <2> HIDE DEF m
  <2>4. m \in Magnitudes(LebCap - 1)
    <3>1. m \in Magnitudes(n) BY <1>2, <2>3, MagnitudesIs
    <3> QED BY <1>2, <3>1, SmallCaps, Smaller
  <2>5. d = Checked(Valid(domain, m), m, n) BY <1>1, <1>4
  <2>6. SubSeq(s, 1, n) = Encode(form, m) BY <2>3 DEF u
  <2> QED BY <2>1, <2>4, <2>5, <2>6, FoundChecked DEF d
<1> QED BY <1>3, <1>4

LEMMA FrontStable ==
  ASSUME NEW S, NEW s \in Seq(S), NEW t \in Seq(S), Begins(s, t),
         NEW a \in Nat \ {0}, NEW b \in Nat, b <= Len(s), a <= b + 1
  PROVE  SubSeq(s, a, b) = SubSeq(t, a, b)
<1>1. Len(s) \in Nat /\ Len(t) \in Nat /\ b <= Len(t) BY DEF Begins
<1> DEFINE x == SubSeq(s, a, b)
           y == SubSeq(t, a, b)
<1>2. /\ x \in Seq(S) /\ Len(x) = b - a + 1
      /\ \A i \in 1 .. b - a + 1 : x[i] = s[a + i - 1]
    BY SubIs
<1>3. /\ y \in Seq(S) /\ Len(y) = b - a + 1
      /\ \A i \in 1 .. b - a + 1 : y[i] = t[a + i - 1]
    BY <1>1, SubIs
<1> HIDE DEF x, y
<1>4. \A i \in 1 .. b - a + 1 : x[i] = y[i]
  <2>1. ASSUME NEW i \in 1 .. b - a + 1 PROVE a + i - 1 \in 1 .. Len(s) BY <1>1
  <2> QED BY <2>1, <1>2, <1>3 DEF Begins
<1>5. x = [i \in 1 .. b - a + 1 |-> x[i]] BY <1>2, SeqIs
<1>6. y = [i \in 1 .. b - a + 1 |-> y[i]] BY <1>3, SeqIs
<1>7. x = y BY <1>4, <1>5, <1>6
<1> QED BY <1>7 DEF x, y

LEMMA ContainerStable ==
  ASSUME NEW s \in Seq(Octets), NEW t \in Seq(Octets), s # <<>>, Begins(s, t),
         NEW n \in {4, 8}, NEW domain, Container(s, n, domain).status # "truncated"
  PROVE  Container(t, n, domain) = Container(s, n, domain)
<1> DEFINE m(u) == Strip(SubSeq(u, 1, n))
           d(u) == IF Len(u) < n THEN Truncated(Len(u)) ELSE Checked(Valid(domain, m(u)), m(u), n)
<1>1. Container(s, n, domain) = d(s) /\ Container(t, n, domain) = d(t) BY DEF Container
<1>2. Len(s) \in Nat /\ Len(t) \in Nat /\ Len(s) <= Len(t) /\ n \in Nat \ {0}
    BY NonEmpty DEF Begins
<1>3. ~(Len(s) < n) BY <1>1 DEF Truncated
<1>4. ~(Len(t) < n) /\ n <= Len(s) /\ 1 <= n + 1 BY <1>2, <1>3
<1>5. m(t) = m(s)
  <2>1. SubSeq(s, 1, n) = SubSeq(t, 1, n) BY <1>2, <1>4, FrontStable
  <2> QED BY <2>1
<1> HIDE DEF m
<1> QED BY <1>1, <1>3, <1>4, <1>5

LEMMA UnitFound ==
  ASSUME NEW n \in Nat, n < LebCap, NEW s \in Seq(Magnitudes(n)), s # <<>>, NEW domain,
         NEW form, \A m : Encode(form, m) = <<m>>
  PROVE  Found(form, s, Unit(s, domain))
<1>1. Len(s) \in Nat /\ 1 \in 1 .. Len(s) /\ s[1] \in Magnitudes(n) BY NonEmpty
<1>2. s[1] \in Magnitudes(LebCap - 1) BY <1>1, Smaller
<1>3. SubSeq(s, 1, 1) = <<s[1]>>
  <2>1. 1 <= Len(s) BY <1>1
  <2>2. SubSeq(s, 1, 1) = [i \in 1 .. 1 |-> s[i]] BY <2>1, FrontIs
  <2>3. [i \in 1 .. 1 |-> s[i]] = <<s[1]>> OBVIOUS
  <2> QED BY <2>2, <2>3
<1>4. SubSeq(s, 1, 1) = Encode(form, s[1]) BY <1>3
<1> QED BY <1>1, <1>2, <1>4, FoundChecked DEF Unit

LEMMA UnitStable ==
  ASSUME NEW S, NEW s \in Seq(S), NEW t \in Seq(S), s # <<>>, Begins(s, t), NEW domain
  PROVE  Unit(t, domain) = Unit(s, domain)
<1>1. 1 \in 1 .. Len(s) BY NonEmpty
<1>2. s[1] = t[1] BY <1>1 DEF Begins
<1> QED BY <1>2 DEF Unit

LEMMA FrameEncoding ==
  ASSUME NEW m, ~Narrow(m)
  PROVE  /\ Len(m) <= 8 => Encode("ESUTF8", m) = <<254>> \o Pad(m, 8)
         /\ ~(Len(m) <= 8) => Encode("ESUTF8", m) = <<255>> \o LebOf(Len(m)) \o m
BY Zenon DEF Encode, EncodeFrame

LEMMA NarrowFrame ==
  ASSUME NEW m, Narrow(m)
  PROVE  Encode("ESUTF8", m) = EncodeBytes(m)
BY Zenon DEF Encode, EncodeFrame

(* A text is its front and the rest. *)
LEMMA Cut ==
  ASSUME NEW S, NEW s \in Seq(S), NEW k \in Nat, NEW n \in Nat, k <= n, n <= Len(s)
  PROVE  SubSeq(s, 1, n) = SubSeq(s, 1, k) \o SubSeq(s, k + 1, n)
<1> DEFINE x == SubSeq(s, 1, k)
           y == SubSeq(s, k + 1, n)
           z == SubSeq(s, 1, n)
<1>1. Len(s) \in Nat BY SeqIs
<1>2. x \in Seq(S) /\ Len(x) = k /\ \A i \in 1 .. k : x[i] = s[i]
  <2>1. k - 1 + 1 = k /\ (\A i \in 1 .. k : 1 + i - 1 = i) /\ k <= Len(s) /\ 1 <= k + 1 BY <1>1
  <2> QED BY <2>1, SubIs
<1>3. y \in Seq(S) /\ Len(y) = n - k /\ \A i \in 1 .. n - k : y[i] = s[k + i]
  <2>1. /\ n - (k + 1) + 1 = n - k /\ \A i \in 1 .. n - k : k + 1 + i - 1 = k + i
        /\ k + 1 \in Nat \ {0} /\ k + 1 <= n + 1
      BY <1>1
  <2> QED BY <2>1, SubIs
<1>4. z \in Seq(S) /\ Len(z) = n /\ \A i \in 1 .. n : z[i] = s[i]
  <2>1. n - 1 + 1 = n /\ (\A i \in 1 .. n : 1 + i - 1 = i) /\ 1 <= n + 1 BY <1>1
  <2> QED BY <2>1, SubIs
<1> HIDE DEF x, y, z
<1>5. x \o y \in Seq(S) /\ Len(x \o y) = n
  <2>1. x \o y \in Seq(S) /\ Len(x \o y) = Len(x) + Len(y) BY <1>2, <1>3
  <2>2. k + (n - k) = n OBVIOUS
  <2> QED BY <2>1, <2>2, <1>2, <1>3
<1>6. ASSUME NEW i \in 1 .. n PROVE (x \o y)[i] = z[i]
  <2>1. CASE i <= k
    <3>1. i \in 1 .. k /\ i \in 1 .. Len(x) BY <2>1, <1>2
    <3>2. (x \o y)[i] = x[i] BY <3>1, <1>2, <1>3
    <3> QED BY <3>1, <3>2, <1>2, <1>4
  <2>2. CASE ~(i <= k)
    <3>1. i - k \in 1 .. n - k /\ k + (i - k) = i BY <2>2
    <3>2. (x \o y)[i] = y[i - k] BY <2>2, <1>2, <1>3
    <3> QED BY <3>1, <3>2, <1>3, <1>4
  <2> QED BY <2>1, <2>2
<1>7. x \o y = [i \in 1 .. n |-> (x \o y)[i]] BY <1>5, SeqIs
<1>8. z = [i \in 1 .. n |-> z[i]] BY <1>4, SeqIs
<1>9. z = x \o y BY <1>6, <1>7, <1>8
<1> QED BY <1>9 DEF x, y, z

LEMMA FrontOne ==
  ASSUME NEW S, NEW s \in Seq(S), s # <<>>
  PROVE  SubSeq(s, 1, 1) = <<s[1]>>
<1>1. 1 <= Len(s) BY NonEmpty
<1>2. SubSeq(s, 1, 1) = [i \in 1 .. 1 |-> s[i]] BY <1>1, FrontIs
<1>3. [i \in 1 .. 1 |-> s[i]] = <<s[1]>> OBVIOUS
<1> QED BY <1>2, <1>3

(* The frame of FE and eight bytes.                                        *)
LEMMA LongFrameFound ==
  ASSUME NEW s \in Seq(Octets), s # <<>>, s[1] = 254
  PROVE  /\ Found("ESUTF8", s, LongFrame(s))
         /\ LongFrame(s).status = "ok" => ~Narrow(LongFrame(s).cp) /\ Len(LongFrame(s).cp) <= 8
<1> DEFINE u == SubSeq(s, 2, 9)
           m == Strip(u)
           d == LongFrame(s)
           valid == ~Narrow(m) /\ Valid("Ext", m)
<1>1. d = IF Len(s) < 9 THEN Truncated(Len(s)) ELSE Checked(valid, m, 9)
    BY Zenon DEF LongFrame
<1>2. Len(s) \in Nat BY NonEmpty
<1> HIDE DEF d
<1>3. CASE Len(s) < 9
  <2>1. d = Truncated(Len(s)) BY <1>1, <1>3
  <2>2. d.status # "ok" BY <2>1 DEF Truncated
  <2> QED BY <2>1, <2>2, FoundTruncated DEF d
<1>4. CASE ~(Len(s) < 9)
  <2>1. 9 <= Len(s) /\ 9 \in 1 .. Len(s) BY <1>2, <1>4
  <2>2. u \in Seq(Octets) /\ Len(u) = 8
    <3>1. 9 - 2 + 1 = 8 /\ 2 \in Nat \ {0} /\ 9 \in Nat /\ 2 <= 9 + 1 OBVIOUS
    <3> QED BY <2>1, <3>1, SubIs
  <2> HIDE DEF u
  <2>3. m \in Seq(Octets) /\ Len(m) <= 8 /\ (m # <<>> => m[1] # 0) /\ Pad(m, 8) = u
    <3>1. /\ m \in Seq(Octets) /\ Len(m) <= Len(u) /\ (m # <<>> => m[1] # 0)
          /\ Pad(m, Len(u)) = u
        BY ZenonT(60), <2>2, StripIs
    <3> HIDE DEF m
    <3> QED BY <2>2, <3>1, Zenon
  <2> HIDE DEF m
  <2>4. m \in Magnitudes(LebCap - 1)
    <3>1. m \in Magnitudes(8) BY <2>3, MagnitudesIs
    <3> QED BY <3>1, SmallCaps, Smaller
  <2>5. d = Checked(valid, m, 9) BY <1>1, <1>4
  <2>6. SubSeq(s, 1, 9) = <<254>> \o u
    <3>1. SubSeq(s, 1, 9) = SubSeq(s, 1, 1) \o SubSeq(s, 1 + 1, 9)
      <4>1. 1 \in Nat /\ 9 \in Nat /\ 1 <= 9 OBVIOUS
      <4> QED BY <2>1, <4>1, Cut
    <3>2. 1 + 1 = 2 /\ SubSeq(s, 1, 1) = <<254>> BY FrontOne
    <3> QED BY <3>1, <3>2 DEF u
  <2>7. valid => SubSeq(s, 1, 9) = Encode("ESUTF8", m) BY <2>3, <2>6, FrameEncoding
  <2> HIDE DEF valid
  <2>8. CASE valid
    <3>1. d = Decoded(m, 9) BY <2>5, <2>8 DEF Checked
    <3>2. d.cp = m BY <3>1 DEF Decoded
    <3>3. Found("ESUTF8", s, d)
      <4>1. 9 \in 1 .. Len(s) /\ SubSeq(s, 1, 9) = Encode("ESUTF8", m) BY <2>1, <2>7, <2>8
      <4> DEFINE k == 9
      <4>2. k \in 1 .. Len(s) /\ SubSeq(s, 1, k) = Encode("ESUTF8", m) /\ d = Decoded(m, k)
          BY <3>1, <4>1
      <4> HIDE DEF k
      <4> QED BY <2>4, <4>2, FoundDecoded
    <3> QED BY <2>3, <2>8, <3>2, <3>3 DEF d, valid
  <2>9. CASE ~valid
    <3>1. d = Invalid(9) BY <2>5, <2>9 DEF Checked
    <3>2. d.status # "ok" BY <3>1 DEF Invalid
    <3> QED BY <2>1, <3>1, <3>2, FoundInvalid DEF d
  <2> QED BY <2>8, <2>9
<1> QED BY <1>3, <1>4

LEMMA LongFrameStable ==
  ASSUME NEW s \in Seq(Octets), NEW t \in Seq(Octets), s # <<>>, Begins(s, t),
         LongFrame(s).status # "truncated"
  PROVE  LongFrame(t) = LongFrame(s)
<1> DEFINE m(u) == Strip(SubSeq(u, 2, 9))
           checked(v) == Checked(~Narrow(v) /\ Valid("Ext", v), v, 9)
           d(u) == IF Len(u) < 9 THEN Truncated(Len(u)) ELSE checked(m(u))
<1>1. LongFrame(s) = d(s) /\ LongFrame(t) = d(t) BY Zenon DEF LongFrame
<1>2. Len(s) \in Nat /\ Len(t) \in Nat /\ Len(s) <= Len(t) BY NonEmpty DEF Begins
<1> HIDE DEF checked
<1>3. ~(Len(s) < 9) BY <1>1 DEF Truncated
<1>4. ~(Len(t) < 9) /\ 9 <= Len(s) BY <1>2, <1>3
<1>5. m(t) = m(s)
  <2>1. SubSeq(s, 2, 9) = SubSeq(t, 2, 9)
    <3>1. 2 \in Nat \ {0} /\ 9 \in Nat /\ 2 <= 9 + 1 OBVIOUS
    <3> QED BY <1>4, <3>1, FrontStable
  <2> QED BY <2>1
<1> HIDE DEF m
<1> QED BY <1>1, <1>3, <1>4, <1>5

(* Numbers of up to three digits. *)
LEMMA LebMaxIs ==
  ASSUME NEW n \in Nat, NEW k \in 1 .. 3,
         k = 1 \/ n >= LebUnit[k], k = 3 \/ n < LebUnit[k + 1]
  PROVE  LebOf(n) = [i \in 1 .. k |-> ((n \div LebUnit[i]) % 128) + (IF i < k THEN 128 ELSE 0)]
<1> DEFINE I == {1} \cup {i \in 1 .. 3 : n >= LebUnit[i]}
<1>1. LebUnit[1] = 1 /\ LebUnit[2] = 128 /\ LebUnit[3] = 16384 BY DEF LebUnit
<1>2. k \in I OBVIOUS
<1>3. \A i \in I : i <= k
  <2>1. k < 3 => ~(n >= LebUnit[k + 1]) BY <1>1
  <2>2. k = 1 => ~(n >= LebUnit[3]) BY <1>1
  <2>3. ASSUME NEW i \in 1 .. 3, i > k PROVE ~(n >= LebUnit[i])
    <3>1. i = k + 1 \/ (k = 1 /\ i = 3) BY <2>3
    <3> QED BY <2>1, <2>2, <2>3, <3>1
  <2> QED BY <2>3
<1>4. Max(I) = k
  <2>1. I \subseteq 1 .. 6 /\ I # {} BY <1>2
  <2> HIDE DEF I
  <2>2. Max(I) \in I /\ \A y \in I : y <= Max(I) BY <2>1, MaxIs
  <2>3. Max(I) \in 1 .. 6 BY <2>1, <2>2
  <2>4. k <= Max(I) /\ Max(I) <= k BY <1>2, <1>3, <2>2
  <2> QED BY <2>3, <2>4
<1>5. LebOf(n) = [i \in 1 .. Max(I) |-> ((n \div LebUnit[i]) % 128) + (IF i < Max(I) THEN 128 ELSE 0)]
    BY DEF LebOf
<1> QED BY <1>4, <1>5

LEMMA LebOne ==
  ASSUME NEW a \in 0 .. 127
  PROVE  LebOf(a) = <<a>> /\ a \in Nat
<1>1. a \in Nat /\ LebUnit[1] = 1 /\ (1 = 1 \/ a >= LebUnit[1]) /\ a < LebUnit[1 + 1] BY DEF LebUnit
<1>2. LebOf(a) = [i \in 1 .. 1 |-> ((a \div LebUnit[i]) % 128) + (IF i < 1 THEN 128 ELSE 0)]
    BY <1>1, LebMaxIs
<1>3. (a \div 1) % 128 = a BY SMT
<1>4. \A i \in 1 .. 1 : ((a \div LebUnit[i]) % 128) + (IF i < 1 THEN 128 ELSE 0) = a
    BY <1>1, <1>3
<1> QED BY <1>1, <1>2, <1>4

LEMMA LebTwo ==
  ASSUME NEW a \in 128 .. 255, NEW b \in 1 .. 127
  PROVE  LET n == (a % 128) + 128 * b
         IN  n \in Nat /\ n < LebCap /\ LebOf(n) = <<a, b>>
<1> DEFINE n == (a % 128) + 128 * b
           c == a % 128
<1>1. c \in Nat /\ c < 128 /\ a = 128 + c BY SMT
<1>2. n = 128 * b + c BY <1>1
<1> HIDE DEF n, c
<1>3. n \in Nat /\ n >= 128 /\ n < 16384 BY <1>1, <1>2
<1>4. n < LebCap BY <1>3, SMT DEF LebCap
<1>5. n \div 128 = b /\ n % 128 = c /\ n \div 1 = n
  <2>1. (128 * b + c) \div 128 = b BY <1>1, SMT
  <2>2. (128 * b + c) % 128 = c BY <1>1, SMT
  <2>3. n \div 1 = n BY <1>3, SMT
  <2> QED BY <1>2, <2>1, <2>2, <2>3
<1>6. b % 128 = b BY SMT
<1> DEFINE f == [i \in 1 .. 2 |-> ((n \div LebUnit[i]) % 128) + (IF i < 2 THEN 128 ELSE 0)]
<1>7. LebOf(n) = f
  <2>1. n >= LebUnit[2] /\ n < LebUnit[2 + 1] BY <1>3 DEF LebUnit
  <2> QED BY <1>3, <2>1, LebMaxIs
<1>8. f[1] = a
  <2>1. LebUnit[1] = 1 BY DEF LebUnit
  <2>2. f[1] = ((n \div 1) % 128) + 128 BY <2>1
  <2> HIDE DEF f
  <2> QED BY <2>2, <1>1, <1>5
<1>9. f[2] = b
  <2>1. LebUnit[2] = 128 BY DEF LebUnit
  <2>2. f[2] = ((n \div 128) % 128) + 0 BY <2>1
  <2> HIDE DEF f
  <2> QED BY <2>2, <1>5, <1>6
<1>10. f = <<a, b>>
  <2>1. f = [i \in 1 .. 2 |-> f[i]] OBVIOUS
  <2> HIDE DEF f
  <2>2. [i \in 1 .. 2 |-> f[i]] = <<f[1], f[2]>> OBVIOUS
  <2> QED BY <1>8, <1>9, <2>1, <2>2
<1> QED BY <1>3, <1>4, <1>7, <1>10 DEF n, c

LebSum(c, e, d) == c + 128 * e + 16384 * d

LEMMA LebThree ==
  ASSUME NEW c \in 0 .. 127, NEW e \in 0 .. 127, NEW d \in 1 .. 127
  PROVE  LebSum(c, e, d) \in Nat /\ LebOf(LebSum(c, e, d)) = <<128 + c, 128 + e, d>>
<1> DEFINE n == LebSum(c, e, d)
           x == 128 * d + e
           y == 128 * e + c
<1>1. c \in Nat /\ c < 128 /\ e \in Nat /\ e < 128 OBVIOUS
<1>2. n = 128 * x + c /\ n = 16384 * d + y /\ x \in Nat /\ y \in Nat /\ y < 16384
    BY <1>1 DEF LebSum
<1>3. n \in Nat /\ n >= 16384 BY <1>1 DEF LebSum
<1>4. x = 128 * d + e OBVIOUS
<1> HIDE DEF n, x, y
<1>5. n \div 128 = x /\ n % 128 = c /\ n \div 1 = n /\ n \div 16384 = d /\ x % 128 = e /\ d % 128 = d
  <2>1. (128 * x + c) \div 128 = x BY <1>1, <1>2, SMT
  <2>2. (128 * x + c) % 128 = c BY <1>1, <1>2, SMT
  <2>3. n \div 1 = n BY <1>3, SMT
  <2>4. (16384 * d + y) \div 16384 = d BY <1>2, SMT
  <2>5. (128 * d + e) % 128 = e BY <1>1, SMT
  <2>6. d % 128 = d BY SMT
  <2> QED BY <1>2, <1>4, <2>1, <2>2, <2>3, <2>4, <2>5, <2>6
<1> DEFINE f == [i \in 1 .. 3 |-> ((n \div LebUnit[i]) % 128) + (IF i < 3 THEN 128 ELSE 0)]
<1>6. LebOf(n) = f
  <2>1. n >= LebUnit[3] BY <1>3 DEF LebUnit
  <2> QED BY <1>3, <2>1, LebMaxIs
<1>7. f[1] = 128 + c
  <2>1. LebUnit[1] = 1 BY DEF LebUnit
  <2>2. f[1] = ((n \div 1) % 128) + 128 BY <2>1
  <2> HIDE DEF f
  <2> QED BY <2>2, <1>1, <1>5
<1>8. f[2] = 128 + e
  <2>1. LebUnit[2] = 128 BY DEF LebUnit
  <2>2. f[2] = ((n \div 128) % 128) + 128 BY <2>1
  <2> HIDE DEF f
  <2> QED BY <2>2, <1>1, <1>5
<1>9. f[3] = d
  <2>1. LebUnit[3] = 16384 BY DEF LebUnit
  <2>2. f[3] = ((n \div 16384) % 128) + 0 BY <2>1
  <2> HIDE DEF f
  <2> QED BY <2>2, <1>5
<1>10. f = <<128 + c, 128 + e, d>>
  <2>1. f = [i \in 1 .. 3 |-> f[i]] OBVIOUS
  <2> HIDE DEF f
  <2>2. [i \in 1 .. 3 |-> f[i]] = <<f[1], f[2], f[3]>> OBVIOUS
  <2> QED BY <1>7, <1>8, <1>9, <2>1, <2>2
<1> QED BY <1>3, <1>6, <1>10 DEF n

LEMMA LebThreeAt ==
  ASSUME NEW a \in 128 .. 255, NEW b \in 128 .. 255, NEW d \in 1 .. 127
  PROVE  /\ LebSum(a % 128, b % 128, d) \in Nat
         /\ LebOf(LebSum(a % 128, b % 128, d)) = <<a, b, d>>
<1>1. \A c \in 128 .. 255 : c % 128 \in 0 .. 127 /\ 128 + (c % 128) = c BY SMT
<1> DEFINE x == a % 128
           y == b % 128
<1>2. x \in 0 .. 127 /\ 128 + x = a /\ y \in 0 .. 127 /\ 128 + y = b BY <1>1
<1> HIDE DEF x, y
<1>3. LebSum(x, y, d) \in Nat /\ LebOf(LebSum(x, y, d)) = <<128 + x, 128 + y, d>>
    BY ZenonT(60), <1>2, LebThree
<1> QED BY <1>2, <1>3 DEF x, y

LEMMA LebUndone ==
  ASSUME NEW t \in Seq(Octets), t # <<>>,
         \A i \in 1 .. Len(t) : t[i] < 128 <=> i = Len(t),
         Len(t) = 1 \/ t[Len(t)] # 0, LebValue(t) < LebCap
  PROVE  LebValue(t) \in Nat /\ LebOf(LebValue(t)) = t
<1> DEFINE k == Len(t)
           part(i) == IF i \in DOMAIN t THEN LebUnit[i] * (t[i] % 128) ELSE 0
           v == LebValue(t)
<1>1. k \in Nat /\ k # 0 /\ DOMAIN t = 1 .. k /\ t = [i \in 1 .. k |-> t[i]]
      /\ \A i \in 1 .. k : t[i] \in Octets
    BY SeqIs, NonEmpty
<1>2. v = IF k > 3 THEN LebCap ELSE part(1) + part(2) + part(3) BY DEF LebValue
<1>3. LebCap \in Nat BY SmallCaps
<1>4. LebUnit[1] = 1 /\ LebUnit[2] = 128 /\ LebUnit[3] = 16384 BY DEF LebUnit
<1>5. \A i \in 1 .. k : t[i] \in 0 .. 255 BY <1>1, OctetIs
<1>6. (k = 1 \/ t[k] # 0) /\ (\A i \in 1 .. k : t[i] < 128 <=> i = k) /\ v < LebCap OBVIOUS
<1> HIDE DEF k, v
<1>7. k \in 1 .. 3 BY <1>1, <1>2, <1>3, <1>6
<1>8. \A x \in 0 .. 255 : (x < 128 => x \in 0 .. 127) /\ (~(x < 128) => x \in 128 .. 255)
                         /\ (x < 128 /\ x # 0 => x \in 1 .. 127)
    OBVIOUS
<1>9. \A x \in 0 .. 255 : (x < 128 => x % 128 = x) /\ x % 128 \in Int BY SMT
<1> DEFINE a == t[1]
           b == t[2]
           d == t[3]
<1>10. CASE k = 1
  <2>1. a \in 0 .. 255 /\ a < 128 BY <1>5, <1>6, <1>10
  <2>2. part(1) = 1 * (a % 128) /\ part(2) = 0 /\ part(3) = 0 BY <1>1, <1>4, <1>10
  <2>3. t = <<a>>
    <3>1. [i \in 1 .. 1 |-> t[i]] = <<t[1]>> OBVIOUS
    <3> QED BY <1>1, <1>10, <3>1
  <2> HIDE DEF part, a
  <2>4. a \in 0 .. 127 /\ a % 128 = a BY <2>1, <1>8, <1>9
  <2>5. v = a BY <1>2, <1>10, <2>2, <2>4
  <2>6. LebOf(v) = <<a>> /\ v \in Nat BY <2>4, <2>5, LebOne
  <2> QED BY <2>3, <2>6 DEF v
<1>11. CASE k = 2
  <2>1. a \in 0 .. 255 /\ ~(a < 128) /\ b \in 0 .. 255 /\ b < 128 /\ b # 0
      BY <1>5, <1>6, <1>11
  <2>2. part(1) = 1 * (a % 128) /\ part(2) = 128 * (b % 128) /\ part(3) = 0
      BY <1>1, <1>4, <1>11
  <2>3. t = <<a, b>>
    <3>1. [i \in 1 .. 2 |-> t[i]] = <<t[1], t[2]>> OBVIOUS
    <3> QED BY <1>1, <1>11, <3>1
  <2> HIDE DEF part, a, b
  <2>4. a \in 128 .. 255 /\ b \in 1 .. 127 /\ b % 128 = b /\ a % 128 \in Int
      BY <2>1, <1>8, <1>9
  <2>5. v = (a % 128) + 128 * b BY <1>2, <1>11, <2>2, <2>4
  <2>6. LebOf(v) = <<a, b>> /\ v \in Nat BY ZenonT(60), <2>4, <2>5, LebTwo
  <2> QED BY <2>3, <2>6 DEF v
<1>12. CASE k = 3
  <2>1. /\ a \in 0 .. 255 /\ ~(a < 128) /\ b \in 0 .. 255 /\ ~(b < 128)
        /\ d \in 0 .. 255 /\ d < 128 /\ d # 0
      BY <1>5, <1>6, <1>12
  <2>2. part(1) = 1 * (a % 128) /\ part(2) = 128 * (b % 128) /\ part(3) = 16384 * (d % 128)
      BY <1>1, <1>4, <1>12
  <2>3. t = <<a, b, d>>
    <3>1. [i \in 1 .. 3 |-> t[i]] = <<t[1], t[2], t[3]>> OBVIOUS
    <3> QED BY <1>1, <1>12, <3>1
  <2> HIDE DEF part, a, b, d
  <2>4. a \in 128 .. 255 /\ b \in 128 .. 255 BY <2>1, <1>8
  <2>5. d \in 1 .. 127 /\ d % 128 = d BY <2>1, <1>8, <1>9
  <2>6. LebSum(a % 128, b % 128, d) \in Nat /\ LebOf(LebSum(a % 128, b % 128, d)) = <<a, b, d>>
      BY ZenonT(60), <2>4, <2>5, LebThreeAt
  <2>7. v = LebSum(a % 128, b % 128, d)
    <3>1. v = part(1) + part(2) + part(3) BY <1>2, <1>12
    <3>2. a % 128 \in Int /\ b % 128 \in Int BY <2>1, <1>9
    <3> QED BY <2>2, <2>5, <3>1, <3>2 DEF LebSum
  <2> QED BY <2>3, <2>6, <2>7 DEF v
<1> QED BY <1>7, <1>10, <1>11, <1>12

LEMMA LebValueIs ==
  ASSUME NEW t \in Seq(Octets)
  PROVE  LebValue(t) \in Nat
<1> DEFINE part(i) == IF i \in DOMAIN t THEN LebUnit[i] * (t[i] % 128) ELSE 0
<1>1. LebValue(t) = IF Len(t) > 3 THEN LebCap ELSE part(1) + part(2) + part(3) BY DEF LebValue
<1>2. \A i \in DOMAIN t : t[i] % 128 \in Nat BY SeqIs, OctetIs
<1>3. LebUnit[1] \in Nat /\ LebUnit[2] \in Nat /\ LebUnit[3] \in Nat BY DEF LebUnit
<1>4. part(1) \in Nat /\ part(2) \in Nat /\ part(3) \in Nat
  <2>1. \A x \in Nat, y \in Nat : x * y \in Nat OBVIOUS
  <2> QED BY <1>2, <1>3, <2>1
<1> HIDE DEF part
<1>5. part(1) + part(2) + part(3) \in Nat BY <1>4
<1> QED BY <1>1, <1>5, SmallCaps

(* Where the length of a frame ends. *)
Ends(s) == {i \in 2 .. Len(s) : s[i] < 128}

LEMMA EndIs ==
  ASSUME NEW s \in Seq(Octets), Ends(s) # {}
  PROVE  LET end == Min(Ends(s))
             digits == SubSeq(s, 2, end)
         IN  /\ end \in 2 .. Len(s) /\ s[end] < 128
             /\ \A i \in 2 .. Len(s) : s[i] < 128 => end <= i
             /\ digits \in Seq(Octets) /\ Len(digits) = end - 1 /\ digits # <<>>
             /\ \A i \in 1 .. end - 1 : digits[i] = s[i + 1]
             /\ \A i \in 1 .. Len(digits) : digits[i] < 128 <=> i = Len(digits)
<1> DEFINE end == Min(Ends(s))
           digits == SubSeq(s, 2, end)
<1>1. Ends(s) \subseteq Nat BY DEF Ends
<1>2. end \in Ends(s) /\ \A i \in Ends(s) : end <= i BY <1>1, MinIs
<1> HIDE DEF end
<1>3. Len(s) \in Nat OBVIOUS
<1>4. end \in 2 .. Len(s) /\ s[end] < 128 /\ \A i \in 2 .. Len(s) : s[i] < 128 => end <= i
    BY <1>2 DEF Ends
<1>5. digits \in Seq(Octets) /\ Len(digits) = end - 1 /\ \A i \in 1 .. end - 1 : digits[i] = s[i + 1]
  <2>1. /\ end - 2 + 1 = end - 1 /\ 2 \in Nat \ {0} /\ end \in Nat /\ end <= Len(s) /\ 2 <= end + 1
        /\ \A i \in 1 .. end - 1 : 2 + i - 1 = i + 1
      BY <1>3, <1>4
  <2> QED BY <2>1, SubIs
<1> HIDE DEF digits
<1>6. digits # <<>>
  <2>1. Len(digits) # 0 BY <1>4, <1>5
  <2> QED BY <2>1
<1>7. ASSUME NEW i \in 1 .. Len(digits) PROVE digits[i] < 128 <=> i = Len(digits)
  <2>1. i \in 1 .. end - 1 /\ digits[i] = s[i + 1] BY <1>5
  <2>2. i + 1 \in 2 .. Len(s) /\ i + 1 <= end BY <2>1, <1>3, <1>4
  <2>3. CASE i = Len(digits)
    <3>1. i + 1 = end BY <2>3, <1>4, <1>5
    <3> QED BY <2>1, <2>3, <3>1, <1>4
  <2>4. CASE i # Len(digits)
    <3>1. ~(end <= i + 1) BY <2>1, <2>4, <1>4, <1>5
    <3> QED BY <2>1, <2>2, <2>4, <3>1, <1>4
  <2> QED BY <2>3, <2>4
<1> QED BY <1>4, <1>5, <1>6, <1>7 DEF end, digits

(* The frame as it is read, with the end of its length given. *)
FrameAt(s, end, size) ==
  IF (end > 2 /\ s[end] = 0) \/ size < 9 THEN Invalid(end)
  ELSE IF Len(s) < end + size THEN Truncated(Len(s))
  ELSE Checked(s[end + 1] # 0, SubSeq(s, end + 1, end + size), end + size)

LEMMA BigFrameIs ==
  ASSUME NEW s
  PROVE  BigFrame(s) = IF Ends(s) = {} THEN Truncated(Len(s))
                       ELSE FrameAt(s, Min(Ends(s)), LebValue(SubSeq(s, 2, Min(Ends(s)))))
BY Zenon DEF BigFrame, Ends, FrameAt

(* The frame of FF and a length.                                           *)
LEMMA BigFrameFound ==
  ASSUME NEW s \in Seq(Octets), s # <<>>, s[1] = 255, Len(s) < LebCap
  PROVE  Found("ESUTF8", s, BigFrame(s))
<1> DEFINE end == Min(Ends(s))
           digits == SubSeq(s, 2, end)
           size == LebValue(digits)
           used == end + size
           m == SubSeq(s, end + 1, used)
           d == BigFrame(s)
<1>1. Len(s) \in Nat BY NonEmpty
<1>2. CASE Ends(s) = {}
  <2>1. d = Truncated(Len(s)) BY <1>2, BigFrameIs
  <2> QED BY <2>1, FoundTruncated DEF d
<1>3. CASE Ends(s) # {}
  <2>1. d = FrameAt(s, end, size) BY <1>3, BigFrameIs
  <2>2. /\ end \in 2 .. Len(s)
        /\ digits \in Seq(Octets) /\ Len(digits) = end - 1 /\ digits # <<>>
        /\ \A i \in 1 .. end - 1 : digits[i] = s[i + 1]
        /\ \A i \in 1 .. Len(digits) : digits[i] < 128 <=> i = Len(digits)
      BY <1>3, EndIs
  <2> HIDE DEF end, digits, d
  <2>3. end \in 1 .. Len(s) /\ end \in Nat /\ end > 1 BY <1>1, <2>2
  <2>4. size \in Nat BY <2>2, LebValueIs
  <2>5. CASE (end > 2 /\ s[end] = 0) \/ size < 9
    <3>1. d = Invalid(end) BY <2>1, <2>5 DEF FrameAt
    <3> QED BY <3>1, <2>3, FoundInvalid DEF d
  <2>6. CASE ~((end > 2 /\ s[end] = 0) \/ size < 9) /\ Len(s) < used
    <3>1. d = Truncated(Len(s)) BY <2>1, <2>6 DEF FrameAt
    <3> QED BY <3>1, FoundTruncated DEF d
  <2>7. CASE ~((end > 2 /\ s[end] = 0) \/ size < 9) /\ ~(Len(s) < used)
    <3>1. d = Checked(s[end + 1] # 0, m, used) BY <2>1, <2>7 DEF FrameAt
    <3>2. size < LebCap /\ size > 8 /\ used <= Len(s) /\ used \in Nat /\ used \in 1 .. Len(s)
          /\ end <= used /\ end + 1 <= used
      <4> HIDE DEF size
      <4>1. used <= Len(s) BY <2>7, <1>1, <2>3, <2>4
      <4>2. size < LebCap BY <4>1, <1>1, <2>3, <2>4, SmallCaps
      <4>3. size > 8 BY <2>7, <2>4
      <4> QED BY <4>1, <4>2, <4>3, <1>1, <2>3, <2>4
    <3>3. LebOf(size) = digits
      <4>1. Len(digits) = 1 \/ digits[Len(digits)] # 0
        <5>1. CASE end > 2
          <6>1. s[end] # 0 BY <5>1, <2>7
          <6>2. end - 1 \in 1 .. end - 1 /\ (end - 1) + 1 = end BY <2>3
          <6> QED BY <6>1, <6>2, <2>2
        <5>2. CASE ~(end > 2)
          <6>1. end - 1 = 1 BY <5>2, <2>3
          <6> QED BY <6>1, <2>2
        <5> QED BY <5>1, <5>2
      <4> HIDE DEF digits
      <4> QED BY <4>1, <2>2, <3>2, LebUndone
    <3> HIDE DEF size
    <3>4. m \in Seq(Octets) /\ Len(m) = size /\ m[1] = s[end + 1]
      <4>1. /\ used - (end + 1) + 1 = size /\ end + 1 \in Nat \ {0} /\ end + 1 <= used + 1
            /\ 1 \in 1 .. size /\ end + 1 + 1 - 1 = end + 1
          BY <2>3, <2>4, <3>2
      <4> HIDE DEF used
      <4>2. m \in Seq(Octets) /\ Len(m) = used - (end + 1) + 1
            /\ \A i \in 1 .. used - (end + 1) + 1 : m[i] = s[end + 1 + i - 1]
          BY <4>1, <3>2, SubIs
      <4> HIDE DEF m
      <4>3. m[1] = s[end + 1 + 1 - 1] BY <4>1, <4>2
      <4> QED BY <4>1, <4>2, <4>3
    <3> HIDE DEF used
    <3>5. SubSeq(s, 1, used) = (<<255>> \o digits) \o m
      <4>1. SubSeq(s, 1, used) = SubSeq(s, 1, end) \o m BY <2>3, <3>2, Cut
      <4>2. SubSeq(s, 1, end) = SubSeq(s, 1, 1) \o SubSeq(s, 1 + 1, end)
        <5>1. 1 \in Nat /\ 1 <= end /\ end <= Len(s) BY <2>3
        <5> QED BY <2>3, <5>1, Cut
      <4>3. 1 + 1 = 2 /\ SubSeq(s, 1, 1) = <<255>> BY FrontOne
      <4> QED BY <4>1, <4>2, <4>3 DEF digits
    <3>6. CASE s[end + 1] = 0
      <4>1. d = Invalid(used) BY <3>1, <3>6 DEF Checked
      <4> HIDE DEF used
      <4> QED BY <3>2, <4>1, FoundInvalid DEF d
    <3>7. CASE s[end + 1] # 0
      <4>1. d = Decoded(m, used) BY <3>1, <3>7 DEF Checked
      <4> HIDE DEF m
      <4>2. m # <<>> /\ m[1] # 0
        <5>1. Len(m) # 0 BY <3>2, <3>4, <2>4
        <5>2. Len(<<>>) = 0 OBVIOUS
        <5> QED BY <3>4, <3>7, <5>1, <5>2
      <4>3. m \in Magnitudes(LebCap - 1)
        <5>1. LebCap - 1 \in Nat /\ size <= LebCap - 1 BY <3>2, <2>4, SmallCaps
        <5> QED BY <5>1, <3>4, <4>2, MagnitudesIs
      <4>4. Len(m) > 4 /\ ~(Len(m) <= 8) BY <3>2, <3>4, <2>4
      <4>5. ~Narrow(m) BY <3>4, <4>4, NarrowIs
      <4>6. Encode("ESUTF8", m) = <<255>> \o LebOf(Len(m)) \o m BY <4>4, <4>5, FrameEncoding
      <4>7. SubSeq(s, 1, used) = Encode("ESUTF8", m) BY <3>3, <3>4, <3>5, <4>6
      <4> QED BY <3>2, <4>1, <4>3, <4>7, FoundDecoded DEF d
    <3> QED BY <3>6, <3>7
  <2> QED BY <2>5, <2>6, <2>7
<1> QED BY <1>2, <1>3

LEMMA BigFrameStable ==
  ASSUME NEW s \in Seq(Octets), NEW t \in Seq(Octets), s # <<>>, Begins(s, t),
         BigFrame(s).status # "truncated"
  PROVE  BigFrame(t) = BigFrame(s)
<1> DEFINE end == Min(Ends(s))
           size == LebValue(SubSeq(s, 2, end))
<1>1. Len(s) \in Nat /\ Len(t) \in Nat /\ Len(s) <= Len(t) BY NonEmpty DEF Begins
<1>2. Ends(s) # {} BY BigFrameIs DEF Truncated
<1>3. BigFrame(s) = FrameAt(s, end, size) BY <1>2, BigFrameIs
<1>4. /\ end \in 2 .. Len(s) /\ s[end] < 128
      /\ \A i \in 2 .. Len(s) : s[i] < 128 => end <= i
      /\ SubSeq(s, 2, end) \in Seq(Octets)
    BY <1>2, EndIs
<1> HIDE DEF end
<1>5. end \in Nat /\ end > 1 /\ end \in 1 .. Len(s) /\ end \in 2 .. Len(t) /\ t[end] = s[end]
  <2>1. end \in 1 .. Len(s) /\ end \in 2 .. Len(t) BY <1>1, <1>4
  <2> QED BY <1>4, <2>1 DEF Begins
<1>6. end \in Ends(t) /\ \A i \in Ends(t) : end <= i
  <2>1. end \in Ends(t) BY <1>4, <1>5 DEF Ends
  <2>2. ASSUME NEW i \in Ends(t) PROVE end <= i
    <3>1. i \in 2 .. Len(t) /\ t[i] < 128 BY DEF Ends
    <3>2. CASE i <= Len(s)
      <4>1. i \in 2 .. Len(s) /\ i \in 1 .. Len(s) BY <3>1, <3>2, <1>1
      <4>2. s[i] = t[i] BY <4>1 DEF Begins
      <4> QED BY <3>1, <4>1, <4>2, <1>4
    <3>3. CASE ~(i <= Len(s)) BY <3>1, <3>3, <1>1, <1>4
    <3> QED BY <3>2, <3>3
  <2> QED BY <2>1, <2>2
<1>7. Min(Ends(t)) = end
  <2>1. Ends(t) \subseteq Nat /\ Ends(t) # {} BY <1>6 DEF Ends
  <2>2. Min(Ends(t)) \in Ends(t) /\ \A i \in Ends(t) : Min(Ends(t)) <= i BY <2>1, MinIs
  <2> DEFINE k == Min(Ends(t))
  <2>3. k \in Nat /\ k <= end /\ end <= k BY <2>1, <2>2, <1>6
  <2> HIDE DEF k
  <2>4. k = end BY <2>3, <1>5
  <2> QED BY <2>4 DEF k
<1>8. LebValue(SubSeq(t, 2, end)) = size
  <2>1. 2 \in Nat \ {0} /\ end <= Len(s) /\ 2 <= end + 1 BY <1>1, <1>5
  <2>2. SubSeq(s, 2, end) = SubSeq(t, 2, end) BY <1>5, <2>1, FrontStable
  <2> QED BY <2>2
<1>9. BigFrame(t) = FrameAt(t, end, size)
  <2>1. Ends(t) # {} BY <1>6
  <2> HIDE DEF size
  <2> QED BY <1>7, <1>8, <2>1, BigFrameIs DEF size
<1>10. size \in Nat BY <1>4, LebValueIs
<1> HIDE DEF size
<1>11. CASE (end > 2 /\ s[end] = 0) \/ size < 9 BY <1>3, <1>5, <1>9, <1>11 DEF FrameAt
<1>12. CASE ~((end > 2 /\ s[end] = 0) \/ size < 9)
  <2> DEFINE used == end + size
  <2>1. ~(Len(s) < used) BY <1>3, <1>12 DEF FrameAt, Truncated
  <2>2. used \in Nat /\ used <= Len(s) /\ ~(Len(t) < used) /\ end + 1 \in 1 .. Len(s)
        /\ end + 1 \in Nat \ {0} /\ end + 1 <= used + 1
      BY <2>1, <1>1, <1>5, <1>10, <1>12
  <2> HIDE DEF used
  <2>3. s[end + 1] = t[end + 1] BY <2>2 DEF Begins
  <2>4. SubSeq(s, end + 1, used) = SubSeq(t, end + 1, used) BY <2>2, FrontStable
  <2>5. FrameAt(s, end, size) = Checked(s[end + 1] # 0, SubSeq(s, end + 1, used), used)
      BY <1>12, <2>1 DEF FrameAt, used
  <2>6. FrameAt(t, end, size) = Checked(t[end + 1] # 0, SubSeq(t, end + 1, used), used)
      BY <1>5, <1>12, <2>2 DEF FrameAt, used
  <2> QED BY <1>3, <1>9, <2>3, <2>4, <2>5, <2>6
<1> QED BY <1>11, <1>12

ByteForms == {"SUTF8", "UTF8", "VSUTF", "ESUTF8", "SUST16", "SUST32", "ESUST32", "ESUST64"}
UnitForms == {"SUTF32", "SUCS", "ESUTF32", "ESUTF64", "ESUCS", "SUCSBig"}
Forms == ByteForms \cup UnitForms \cup {"SUTF16"}

(* All forms.                                                              *)
LEMMA UnitsAre ==
  /\ \A form \in ByteForms : UnitsOf(form) = Octets
  /\ UnitsOf("SUTF16") = Duplets
  /\ \A form \in UnitForms : \E n \in Nat : n < LebCap /\ UnitsOf(form) = Magnitudes(n)
<1>1. ASSUME NEW form \in ByteForms PROVE UnitsOf(form) = Octets BY DEF ByteForms, UnitsOf, Octets
<1>2. UnitsOf("SUTF16") = Duplets BY Zenon DEF UnitsOf, Duplets
<1>3. ASSUME NEW form \in UnitForms PROVE \E n \in Nat : n < LebCap /\ UnitsOf(form) = Magnitudes(n)
  <2>1. 4 \in Nat /\ 8 \in Nat /\ LebCap - 1 \in Nat /\ LebCap - 1 < LebCap /\ 4 < LebCap /\ 8 < LebCap
      BY SmallCaps
  <2>2. CASE form \in {"SUTF32", "SUCS", "ESUTF32"}
    <3>1. UnitsOf(form) = Magnitudes(4) BY <2>2 DEF UnitsOf
    <3> QED BY <2>1, <3>1
  <2>3. CASE form \in {"ESUTF64", "ESUCS"}
    <3>1. UnitsOf(form) = Magnitudes(8) BY <2>3 DEF UnitsOf
    <3> QED BY <2>1, <3>1
  <2>4. CASE form = "SUCSBig"
    <3>1. UnitsOf(form) = Magnitudes(LebCap - 1) BY <2>4 DEF UnitsOf
    <3> QED BY <2>1, <3>1
  <2> QED BY <2>2, <2>3, <2>4 DEF UnitForms
<1> QED BY <1>1, <1>2, <1>3

LEMMA EncodeIs ==
  ASSUME NEW m
  PROVE  /\ \A form \in {"SUTF8", "UTF8"} : Encode(form, m) = EncodeBytes(m)
         /\ \A form \in {"ESUTF8", "VSUTF"} : Encode(form, m) = EncodeFrame(m)
         /\ Encode("SUTF16", m) = EncodeWords(m) /\ Encode("SUST16", m) = EncodeWordBytes(m)
         /\ \A form \in {"SUST32", "ESUST32"} : Encode(form, m) = Pad(m, 4)
         /\ Encode("ESUST64", m) = Pad(m, 8)
         /\ \A form \in UnitForms : Encode(form, m) = <<m>>
<1>1. ASSUME NEW form \in {"SUTF8", "UTF8"} PROVE Encode(form, m) = EncodeBytes(m) BY DEF Encode
<1>2. ASSUME NEW form \in {"ESUTF8", "VSUTF"} PROVE Encode(form, m) = EncodeFrame(m) BY DEF Encode
<1>3. Encode("SUTF16", m) = EncodeWords(m) /\ Encode("SUST16", m) = EncodeWordBytes(m) BY DEF Encode
<1>4. ASSUME NEW form \in {"SUST32", "ESUST32"} PROVE Encode(form, m) = Pad(m, 4) BY DEF Encode
<1>5. Encode("ESUST64", m) = Pad(m, 8) BY DEF Encode
<1>6. ASSUME NEW form \in UnitForms PROVE Encode(form, m) = <<m>> BY DEF Encode, UnitForms
<1> QED BY <1>1, <1>2, <1>3, <1>4, <1>5, <1>6

LEMMA DecodeIs ==
  ASSUME NEW s, s # <<>>
  PROVE  /\ Decode("SUTF8", s) = MultiByte(s, "Base") /\ Decode("UTF8", s) = MultiByte(s, "Unicode")
         /\ Decode("VSUTF", s) = Vsutf(s) /\ Decode("ESUTF8", s) = Esutf8(s)
         /\ Decode("SUTF16", s) = Words(s) /\ Decode("SUST16", s) = WordBytes(s)
         /\ Decode("SUST32", s) = Container(s, 4, "Base") /\ Decode("ESUST32", s) = Container(s, 4, "Ext")
         /\ Decode("ESUST64", s) = Container(s, 8, "Ext")
         /\ \A form \in UnitForms : \E domain : Decode(form, s) = Unit(s, domain)
                                           /\ \A t : t # <<>> => Decode(form, t) = Unit(t, domain)
<1>1. Decode("SUTF8", s) = MultiByte(s, "Base") /\ Decode("UTF8", s) = MultiByte(s, "Unicode")
    BY DEF Decode
<1>2. Decode("VSUTF", s) = Vsutf(s) /\ Decode("ESUTF8", s) = Esutf8(s) BY DEF Decode
<1>3. Decode("SUTF16", s) = Words(s) /\ Decode("SUST16", s) = WordBytes(s) BY DEF Decode
<1>4. Decode("SUST32", s) = Container(s, 4, "Base") /\ Decode("ESUST32", s) = Container(s, 4, "Ext")
    BY DEF Decode
<1>5. Decode("ESUST64", s) = Container(s, 8, "Ext") BY DEF Decode
<1>6. ASSUME NEW form \in UnitForms
      PROVE  \E domain : Decode(form, s) = Unit(s, domain)
                         /\ \A t : t # <<>> => Decode(form, t) = Unit(t, domain)
  <2>1. CASE form \in {"SUTF32", "SUCS"}
    <3>1. \A t : t # <<>> => Decode(form, t) = Unit(t, "Base") BY <2>1 DEF Decode
    <3> QED BY <3>1
  <2>2. CASE form \in {"ESUTF32", "ESUTF64", "ESUCS", "SUCSBig"}
    <3>1. \A t : t # <<>> => Decode(form, t) = Unit(t, "Ext") BY <2>2 DEF Decode
    <3> QED BY <3>1
  <2> QED BY <2>1, <2>2 DEF UnitForms
<1> QED BY <1>1, <1>2, <1>3, <1>4, <1>5, <1>6

LEMMA FoundSame ==
  ASSUME NEW f, NEW g, NEW s, NEW d, Found(f, s, d), d.status = "ok" => Encode(f, d.cp) = Encode(g, d.cp)
  PROVE  Found(g, s, d)
BY DEF Found

LEMMA Esutf8Is ==
  ASSUME NEW s
  PROVE  /\ s[1] = 255 => Esutf8(s) = BigFrame(s) /\ Vsutf(s) = Invalid(1)
         /\ s[1] = 254 => Esutf8(s) = LongFrame(s)
         /\ s[1] # 254 /\ s[1] # 255 => Esutf8(s) = MultiByte(s, "Ext")
         /\ s[1] # 255 => Vsutf(s) = Esutf8(s)
BY DEF Esutf8, Vsutf

LEMMA Esutf8Found ==
  ASSUME NEW s \in Seq(Octets), s # <<>>, Len(s) < LebCap
  PROVE  Found("ESUTF8", s, Esutf8(s))
<1>1. CASE s[1] = 255 BY <1>1, BigFrameFound, Esutf8Is
<1>2. CASE s[1] = 254 BY <1>2, LongFrameFound, Esutf8Is
<1>3. CASE s[1] # 254 /\ s[1] # 255
  <2> DEFINE d == MultiByte(s, "Ext")
  <2>1. Esutf8(s) = d BY <1>3, Esutf8Is
  <2>2. Found("SUTF8", s, d) /\ (d.status = "ok" => Narrow(d.cp)) BY MultiByteFound
  <2> HIDE DEF d
  <2>3. d.status = "ok" => Encode("SUTF8", d.cp) = Encode("ESUTF8", d.cp)
      BY <2>2, NarrowFrame, EncodeIs
  <2> QED BY <2>1, <2>2, <2>3, FoundSame
<1> QED BY <1>1, <1>2, <1>3

LEMMA VsutfFound ==
  ASSUME NEW s \in Seq(Octets), s # <<>>, Len(s) < LebCap
  PROVE  Found("VSUTF", s, Vsutf(s))
<1>1. CASE s[1] = 255
  <2>1. 1 \in 1 .. Len(s) BY NonEmpty
  <2> QED BY <1>1, <2>1, FoundInvalid, Esutf8Is
<1>2. CASE s[1] # 255
  <2>1. Vsutf(s) = Esutf8(s) BY <1>2, Esutf8Is
  <2>2. Encode("ESUTF8", Esutf8(s).cp) = Encode("VSUTF", Esutf8(s).cp) BY EncodeIs
  <2> QED BY <2>1, <2>2, Esutf8Found, FoundSame
<1> QED BY <1>1, <1>2

LEMMA WordsAreFound ==
  ASSUME NEW s \in Seq(Duplets), s # <<>>
  PROVE  Found("SUTF16", s, Words(s))
<1> DEFINE d == Words(s)
<1>1. /\ d \in [status : {"ok", "invalid", "truncated"}, cp : Seq(Octets), used : 1 .. Len(s)]
      /\ d.status = "truncated" => d.used = Len(s)
      /\ d.status = "ok" => d.cp \in Magnitudes(4) /\ SubSeq(s, 1, d.used) = EncodeWords(d.cp)
    BY WordsFound
<1> HIDE DEF d
<1>2. d.status = "ok" => d.cp \in Magnitudes(LebCap - 1) BY <1>1, SmallCaps, Smaller
<1>3. Encode("SUTF16", d.cp) = EncodeWords(d.cp) BY EncodeIs
<1>4. Found("SUTF16", s, d) BY <1>1, <1>2, <1>3 DEF Found
<1> QED BY <1>4 DEF d

(* Whatever a decoder is given, what it takes is there, and a codepoint    *)
(* has the one encoding that was taken.                                    *)
LEMMA DecodeFound ==
  ASSUME NEW form \in Forms, NEW s \in Seq(UnitsOf(form)), s # <<>>, Len(s) < LebCap
  PROVE  Found(form, s, Decode(form, s))
<1>1. CASE form \in ByteForms
  <2>1. s \in Seq(Octets)
    <3>1. UnitsOf(form) = Octets BY <1>1, UnitsAre
    <3> QED BY <3>1
  <2>2. CASE form \in {"SUTF8", "UTF8"}
    <3>1. \E domain : Decode(form, s) = MultiByte(s, domain) BY <2>2, DecodeIs
    <3>2. \A domain : Found("SUTF8", s, MultiByte(s, domain)) BY <2>1, MultiByteFound
    <3>3. Encode("SUTF8", Decode(form, s).cp) = Encode(form, Decode(form, s).cp) BY <2>2, EncodeIs
    <3> QED BY <3>1, <3>2, <3>3, FoundSame
  <2>3. CASE form = "VSUTF" BY <2>1, <2>3, DecodeIs, VsutfFound
  <2>4. CASE form = "ESUTF8" BY <2>1, <2>4, DecodeIs, Esutf8Found
  <2>5. CASE form = "SUST16" BY <2>1, <2>5, DecodeIs, WordBytesFound
  <2>6. CASE form \in {"SUST32", "ESUST32"}
    <3>1. \E domain : Decode(form, s) = Container(s, 4, domain) BY <2>6, DecodeIs
    <3>2. \A m : Encode(form, m) = Pad(m, 4) BY <2>6, EncodeIs
    <3>3. 4 \in {4, 8} OBVIOUS
    <3> QED BY <2>1, <3>1, <3>2, <3>3, ContainerFound
  <2>7. CASE form = "ESUST64"
    <3>1. Decode(form, s) = Container(s, 8, "Ext") BY <2>7, DecodeIs
    <3>2. \A m : Encode(form, m) = Pad(m, 8) BY <2>7, EncodeIs
    <3>3. 8 \in {4, 8} OBVIOUS
    <3> QED BY <2>1, <3>1, <3>2, <3>3, ContainerFound
  <2> QED BY <1>1, <2>2, <2>3, <2>4, <2>5, <2>6, <2>7 DEF ByteForms
<1>2. CASE form \in UnitForms
  <2>1. PICK n \in Nat : n < LebCap /\ UnitsOf(form) = Magnitudes(n) BY <1>2, UnitsAre
  <2>2. PICK domain : Decode(form, s) = Unit(s, domain) BY <1>2, DecodeIs
  <2>3. \A m : Encode(form, m) = <<m>> BY <1>2, EncodeIs
  <2>4. s \in Seq(Magnitudes(n)) BY <2>1
  <2> QED BY <2>1, <2>2, <2>3, <2>4, UnitFound
<1>3. CASE form = "SUTF16"
  <2>1. s \in Seq(Duplets)
    <3>1. UnitsOf(form) = Duplets BY <1>3, UnitsAre
    <3> QED BY <3>1
  <2> QED BY <1>3, <2>1, DecodeIs, WordsAreFound
<1> QED BY <1>1, <1>2, <1>3 DEF Forms

LEMMA Esutf8Stable ==
  ASSUME NEW s \in Seq(Octets), NEW t \in Seq(Octets), s # <<>>, Begins(s, t)
  PROVE  /\ Esutf8(s).status # "truncated" => Esutf8(t) = Esutf8(s)
         /\ Vsutf(s).status # "truncated" => Vsutf(t) = Vsutf(s)
<1>1. s[1] = t[1]
  <2>1. 1 \in 1 .. Len(s) BY NonEmpty
  <2> QED BY <2>1 DEF Begins
<1>2. Esutf8(s).status # "truncated" => Esutf8(t) = Esutf8(s)
  <2>1. CASE s[1] = 255
    <3>1. Esutf8(s) = BigFrame(s) /\ Esutf8(t) = BigFrame(t) BY <1>1, <2>1, Esutf8Is
    <3> QED BY <3>1, BigFrameStable
  <2>2. CASE s[1] = 254
    <3>1. Esutf8(s) = LongFrame(s) /\ Esutf8(t) = LongFrame(t) BY <1>1, <2>2, Esutf8Is
    <3> QED BY <3>1, LongFrameStable
  <2>3. CASE s[1] # 254 /\ s[1] # 255
    <3>1. Esutf8(s) = MultiByte(s, "Ext") /\ Esutf8(t) = MultiByte(t, "Ext") BY <1>1, <2>3, Esutf8Is
    <3> QED BY <3>1, MultiByteStable
  <2> QED BY <2>1, <2>2, <2>3
<1> QED BY <1>1, <1>2, Esutf8Is

(* What a decoder finds complete it finds again when more of the source    *)
(* has come.                                                               *)
LEMMA DecodeStable ==
  ASSUME NEW form \in Forms, NEW s \in Seq(UnitsOf(form)), NEW t \in Seq(UnitsOf(form)), s # <<>>,
         Begins(s, t), Decode(form, s).status # "truncated"
  PROVE  Decode(form, t) = Decode(form, s)
<1>1. t # <<>>
  <2>1. Len(s) \in Nat /\ 1 \in 1 .. Len(s) BY NonEmpty
  <2>2. Len(t) \in Nat /\ Len(s) <= Len(t) BY SeqIs DEF Begins
  <2>3. Len(t) # 0 BY <2>1, <2>2
  <2>4. Len(<<>>) = 0 OBVIOUS
  <2> QED BY <2>3, <2>4
<1>2. CASE form \in ByteForms
  <2>1. s \in Seq(Octets) /\ t \in Seq(Octets)
    <3>1. UnitsOf(form) = Octets BY <1>2, UnitsAre
    <3> QED BY <3>1
  <2>2. CASE form \in {"SUTF8", "UTF8"} BY <1>1, <2>1, <2>2, DecodeIs, MultiByteStable
  <2>3. CASE form \in {"VSUTF", "ESUTF8"} BY <1>1, <2>1, <2>3, DecodeIs, Esutf8Stable
  <2>4. CASE form = "SUST16" BY <1>1, <2>1, <2>4, DecodeIs, WordBytesStable
  <2>5. CASE form \in {"SUST32", "ESUST32", "ESUST64"}
    <3>1. 4 \in {4, 8} /\ 8 \in {4, 8} OBVIOUS
    <3> QED BY <1>1, <2>1, <2>5, <3>1, DecodeIs, ContainerStable
  <2> QED BY <1>2, <2>2, <2>3, <2>4, <2>5 DEF ByteForms
<1>3. CASE form \in UnitForms
  <2>1. PICK domain : \A u : u # <<>> => Decode(form, u) = Unit(u, domain) BY <1>3, DecodeIs
  <2> QED BY <1>1, <2>1, UnitStable
<1>4. CASE form = "SUTF16"
  <2>1. s \in Seq(Duplets) /\ t \in Seq(Duplets)
    <3>1. UnitsOf(form) = Duplets BY <1>4, UnitsAre
    <3> QED BY <3>1
  <2> QED BY <1>1, <1>4, <2>1, DecodeIs, WordsStable
<1> QED BY <1>2, <1>3, <1>4 DEF Forms

(* What encodings are made of. *)
Cells == Int \cup Seq(Octets)

(* The functions asked for a length agree with the encoders.               *)
LEMMA ByteLengthIs ==
  ASSUME NEW m \in Seq(Octets), Narrow(m)
  PROVE  /\ EncodeBytes(m) \in Seq(Cells) /\ ByteLength(m) \in Nat
         /\ Len(EncodeBytes(m)) = ByteLength(m)
<1> DEFINE v == NatOf(m)
           I == {i \in 1 .. 6 : v <= LastOf[i]}
           n == Min(I)
           J == {i \in 1 .. 6 : v >= FirstOf[i]}
           byte(i) == IF i = 1 THEN LeadOf[n] + (v \div Shift[n])
                      ELSE 128 + ((v \div Shift[n - i + 1]) % 64)
<1>1. v \in Nat /\ v <= MaxNarrow BY NatOfIs
<1>2. EncodeBytes(m) = [i \in 1 .. n |-> byte(i)] /\ ByteLength(m) = Cardinality(J)
    BY DEF EncodeBytes, ByteLength
<1> HIDE DEF v
<1>3. n \in I /\ \A i \in I : n <= i
  <2>1. 6 \in I BY <1>1, RangesMeet
  <2>2. I \subseteq Nat /\ I # {} BY <2>1
  <2> HIDE DEF I
  <2> QED BY <2>2, MinIs
<1> HIDE DEF n
<1>4. n \in 1 .. 6 /\ v <= LastOf[n] BY <1>3
<1>5. FirstOf[n] <= v
  <2>1. CASE n = 1 BY <2>1, <1>1, RangesMeet
  <2>2. CASE n # 1
    <3>1. n - 1 \in 1 .. 6 /\ n - 1 \in 1 .. 5 /\ ~(n <= n - 1) /\ (n - 1) + 1 = n BY <2>2, <1>4
    <3>2. ~(v <= LastOf[n - 1]) BY <3>1, <1>3
    <3>3. LastOf[n - 1] \in Nat /\ FirstOf[n] = LastOf[n - 1] + 1
      <4>1. FirstOf[(n - 1) + 1] = LastOf[n - 1] + 1 BY <3>1, RangesMeet
      <4> QED BY <3>1, <4>1, RangesMeet
    <3> QED BY <1>1, <3>2, <3>3
  <2> QED BY <2>1, <2>2
<1>6. J = 1 .. n
  <2>1. ASSUME NEW i \in 1 .. 6 PROVE v >= FirstOf[i] <=> i <= n
    <3>1. FirstOf[i] \in Nat /\ FirstOf[n] \in Nat /\ LastOf[i] \in Nat /\ LastOf[n] \in Nat
          /\ FirstOf[i] <= LastOf[i]
        BY <1>4, RangesMeet
    <3>2. i < n \/ i = n \/ n < i BY <1>4
    <3>3. CASE i < n
      <4>1. LastOf[i] < FirstOf[n] BY <1>4, <3>3, RangesApart
      <4> QED BY <1>1, <1>5, <3>1, <3>3, <4>1, <1>4
    <3>4. CASE i = n BY <1>1, <1>5, <3>1, <3>4, <1>4
    <3>5. CASE n < i
      <4>1. LastOf[n] < FirstOf[i] BY <1>4, <3>5, RangesApart
      <4> QED BY <1>1, <1>4, <3>1, <3>5, <4>1
    <3> QED BY <3>2, <3>3, <3>4, <3>5
  <2>2. \A i : i \in 1 .. n <=> i \in 1 .. 6 /\ i <= n BY <1>4
  <2> QED BY <2>1, <2>2
<1>7. ByteLength(m) = n
  <2>1. Cardinality(1 .. n) = n
    <3>1. 1 \in Int /\ n \in Int /\ 1 <= n BY <1>4
    <3>2. Cardinality(1 .. n) = IF 1 > n THEN 0 ELSE n - 1 + 1 BY <3>1, FS_Interval
    <3> QED BY <3>1, <3>2
  <2> QED BY <2>1, <1>2, <1>6
<1>8. \A i \in 1 .. n : byte(i) \in Int
  <2>1. \A k \in 1 .. 6 : Shift[k] \in Nat \ {0} /\ LeadOf[k] \in Nat BY ShiftsDivide, RangesMeet
  <2>2. \A y \in Nat \ {0} : v \div y \in Int /\ 128 + ((v \div y) % 64) \in Int BY <1>1
  <2>3. \A x \in Int, y \in Nat : y + x \in Int OBVIOUS
  <2>4. \A i \in 1 .. n : n - i + 1 \in 1 .. 6 BY <1>4
  <2>5. \A i \in 1 .. n : 128 + ((v \div Shift[n - i + 1]) % 64) \in Int
    <3>1. \A k \in 1 .. 6 : 128 + ((v \div Shift[k]) % 64) \in Int BY <2>1, <2>2
    <3> QED BY <2>4, <3>1
  <2>6. LeadOf[n] + (v \div Shift[n]) \in Int
    <3>1. v \div Shift[n] \in Int BY <2>1, <2>2, <1>4
    <3> QED BY <2>1, <2>3, <3>1, <1>4
  <2> QED BY <2>5, <2>6
<1> HIDE DEF byte
<1>9. n \in Nat /\ [i \in 1 .. n |-> byte(i)] \in [1 .. n -> Cells] BY <1>4, <1>8 DEF Cells
<1>10. [i \in 1 .. n |-> byte(i)] \in Seq(Cells) /\ Len([i \in 1 .. n |-> byte(i)]) = n BY <1>9
<1> QED BY <1>2, <1>7, <1>9, <1>10

LEMMA WordLengthIs ==
  ASSUME NEW m \in Seq(Octets)
  PROVE  /\ EncodeWords(m) \in Seq(Int) /\ WordLength(m) \in {1, 2}
         /\ Len(EncodeWords(m)) = WordLength(m)
         /\ EncodeWordBytes(m) \in Seq(Cells) /\ Len(EncodeWordBytes(m)) = 2 * WordLength(m)
<1> DEFINE v == NatOf(m)
           w == EncodeWords(m)
           n == WordLength(m)
<1>1. v \in Nat /\ HighBit \in Nat BY NatOfIs, HighBitIs
<1>2. w \in Seq(Int) /\ n \in {1, 2} /\ Len(w) = n
  <2>1. HighBit + (v \div 65536) \in Int /\ v % 65536 \in Int BY <1>1
  <2>2. CASE v < HighBit
    <3>1. w = <<v>> /\ n = 1 BY <2>2 DEF EncodeWords, WordLength
    <3> QED BY <3>1, <1>1
  <2>3. CASE ~(v < HighBit)
    <3>1. w = <<HighBit + (v \div 65536), v % 65536>> /\ n = 2 BY <2>3 DEF EncodeWords, WordLength
    <3> QED BY <3>1, <2>1
  <2> QED BY <2>2, <2>3
<1> DEFINE byte(i) == IF i % 2 = 1 THEN w[(i + 1) \div 2] \div 256 ELSE w[i \div 2] % 256
<1>3. EncodeWordBytes(m) = [i \in 1 .. 2 * Len(w) |-> byte(i)] BY DEF EncodeWordBytes
<1> HIDE DEF w, n
<1>4. \A i \in 1 .. n : w[i] \in Int BY <1>2
<1>5. \A x \in Int : x \div 256 \in Int /\ x % 256 \in Int OBVIOUS
<1>6. \A i \in 1 .. 2 * n : (i + 1) \div 2 \in 1 .. n /\ (i % 2 # 1 => i \div 2 \in 1 .. n)
  <2>1. CASE n = 1 BY <2>1
  <2>2. CASE n = 2 BY <2>2
  <2> QED BY <1>2, <2>1, <2>2
<1>7. \A i \in 1 .. 2 * n : byte(i) \in Int BY <1>4, <1>5, <1>6
<1> HIDE DEF byte
<1>8. 2 * n \in Nat BY <1>2
<1> DEFINE k == 2 * n
<1> HIDE DEF k
<1>9. [i \in 1 .. k |-> byte(i)] \in [1 .. k -> Cells] BY <1>7, <1>8 DEF Cells, k
<1>10. [i \in 1 .. k |-> byte(i)] \in Seq(Cells) /\ Len([i \in 1 .. k |-> byte(i)]) = k
    BY <1>8, <1>9 DEF k
<1> QED BY <1>2, <1>3, <1>10 DEF k, n, w

LEMMA LebOfIs ==
  ASSUME NEW n \in Nat
  PROVE  LebOf(n) \in Seq(Int) /\ Len(LebOf(n)) \in Nat
<1> DEFINE I == {1} \cup {i \in 1 .. 3 : n >= LebUnit[i]}
           size == Max(I)
           digit(i) == ((n \div LebUnit[i]) % 128) + (IF i < size THEN 128 ELSE 0)
<1>1. LebOf(n) = [i \in 1 .. size |-> digit(i)] BY DEF LebOf
<1>2. size \in 1 .. 3
  <2>1. I \subseteq 1 .. 3 /\ I \subseteq 1 .. 6 /\ I # {} OBVIOUS
  <2> HIDE DEF I
  <2>2. size \in I BY <2>1, MaxIs
  <2> QED BY <2>1, <2>2
<1> HIDE DEF size
<1>3. \A i \in 1 .. 3 : LebUnit[i] \in Nat \ {0} BY DEF LebUnit
<1>4. \A y \in Nat \ {0} : (n \div y) % 128 \in Int OBVIOUS
<1>5. \A i \in 1 .. size : digit(i) \in Int
  <2>1. \A i \in 1 .. size : i \in 1 .. 3 BY <1>2
  <2>2. \A i \in 1 .. size : (n \div LebUnit[i]) % 128 \in Int BY <1>3, <1>4, <2>1
  <2> QED BY <2>2
<1> HIDE DEF digit
<1>6. size \in Nat /\ [i \in 1 .. size |-> digit(i)] \in [1 .. size -> Int] BY <1>2, <1>5
<1> QED BY <1>1, <1>6

LEMMA BothIs ==
  ASSUME NEW S, NEW x \in Seq(S), NEW y \in Seq(S)
  PROVE  x \o y \in Seq(S) /\ Len(x \o y) = Len(x) + Len(y)
OBVIOUS

LEMMA FrameLengthIs ==
  ASSUME NEW m \in Seq(Octets)
  PROVE  /\ EncodeFrame(m) \in Seq(Cells) /\ FrameLength(m) \in Nat
         /\ Len(EncodeFrame(m)) = FrameLength(m)
<1>1. CASE Narrow(m)
  <2>1. EncodeFrame(m) = EncodeBytes(m) /\ FrameLength(m) = ByteLength(m)
      BY <1>1, Zenon DEF EncodeFrame, FrameLength
  <2> QED BY <1>1, <2>1, ByteLengthIs
<1>2. CASE ~Narrow(m) /\ Len(m) <= 8
  <2> DEFINE p == Pad(m, 8)
  <2>1. EncodeFrame(m) = <<254>> \o p /\ FrameLength(m) = 9
      BY <1>2, Zenon DEF EncodeFrame, FrameLength
  <2>2. p \in Seq(Octets) /\ Len(p) = 8 BY <1>2, PadIs
  <2> DEFINE f == <<254>>
  <2> HIDE DEF p
  <2>3. Octets \subseteq Cells /\ 254 \in Cells BY OctetIs DEF Cells
  <2>4. p \in Seq(Cells) BY <2>2, <2>3
  <2>5. f \in Seq(Cells) /\ Len(f) = 1 BY <2>3
  <2> HIDE DEF f
  <2>6. f \o p \in Seq(Cells) /\ Len(f \o p) = Len(f) + Len(p) BY <2>4, <2>5, BothIs
  <2>7. Len(f) + Len(p) = 9 BY <2>2, <2>5
  <2> QED BY <2>1, <2>6, <2>7 DEF f
<1>3. CASE ~Narrow(m) /\ ~(Len(m) <= 8)
  <2> DEFINE n == LebOf(Len(m))
  <2>1. EncodeFrame(m) = <<255>> \o n \o m /\ FrameLength(m) = 1 + Len(n) + Len(m)
      BY <1>3, Zenon DEF EncodeFrame, FrameLength
  <2>2. n \in Seq(Int) /\ Len(n) \in Nat
    <3>1. Len(m) \in Nat OBVIOUS
    <3> QED BY <3>1, LebOfIs
  <2> HIDE DEF n
  <2>3. Octets \subseteq Cells /\ Int \subseteq Cells /\ 255 \in Cells BY OctetIs DEF Cells
  <2>4. n \in Seq(Cells) /\ m \in Seq(Cells) /\ <<255>> \in Seq(Cells) /\ Len(<<255>>) = 1 BY <2>2, <2>3
  <2>5. <<255>> \o n \in Seq(Cells) /\ Len(<<255>> \o n) = 1 + Len(n) BY <2>2, <2>4, BothIs
  <2>6. (<<255>> \o n) \o m \in Seq(Cells) /\ Len((<<255>> \o n) \o m) = 1 + Len(n) + Len(m)
      BY <2>4, <2>5, BothIs
  <2>7. 1 + Len(n) + Len(m) \in Nat BY <2>2
  <2> QED BY <2>1, <2>6, <2>7
<1> QED BY <1>1, <1>2, <1>3

LEMMA HeldIs ==
  ASSUME NEW m, NEW form \in Forms, Holds(form, m)
  PROVE  /\ form \in {"SUTF8", "UTF8", "SUST32"} => Narrow(m)
         /\ form = "ESUST32" => Len(m) <= 4
         /\ form = "ESUST64" => Len(m) <= 8
<1>1. CASE form \in {"SUTF8", "SUST32"}
  <2>1. Valid("Base", m) BY <1>1 DEF Holds
  <2>2. Narrow(m) BY <2>1, SMT DEF Valid
  <2> QED BY <1>1, <2>2
<1>2. CASE form = "UTF8"
  <2>1. Valid("Unicode", m) BY <1>2 DEF Holds
  <2>2. Narrow(m) BY <2>1, SMT DEF Valid
  <2> QED BY <1>2, <2>2
<1>3. CASE form \in {"ESUST32", "ESUST64"} BY <1>3 DEF Holds
<1> QED BY <1>1, <1>2, <1>3

(* A length is asked as a number.                                          *)
LEMMA LengthIs ==
  ASSUME NEW m
  PROVE  /\ \A form \in {"SUTF8", "UTF8"} : Length(form, m) = ByteLength(m)
         /\ \A form \in {"ESUTF8", "VSUTF"} : Length(form, m) = FrameLength(m)
         /\ Length("SUTF16", m) = WordLength(m) /\ Length("SUST16", m) = 2 * WordLength(m)
         /\ \A form \in {"SUST32", "ESUST32"} : Length(form, m) = 4
         /\ Length("ESUST64", m) = 8
         /\ \A form \in UnitForms : Length(form, m) = IF form = "SUCSBig" THEN Limbs(m) ELSE 1
<1>1. ASSUME NEW form \in {"SUTF8", "UTF8"} PROVE Length(form, m) = ByteLength(m) BY DEF Length
<1>2. ASSUME NEW form \in {"ESUTF8", "VSUTF"} PROVE Length(form, m) = FrameLength(m) BY DEF Length
<1>3. Length("SUTF16", m) = WordLength(m) /\ Length("SUST16", m) = 2 * WordLength(m) BY DEF Length
<1>4. ASSUME NEW form \in {"SUST32", "ESUST32"} PROVE Length(form, m) = 4 BY DEF Length
<1>5. Length("ESUST64", m) = 8 BY DEF Length
<1>6. ASSUME NEW form \in UnitForms PROVE Length(form, m) = IF form = "SUCSBig" THEN Limbs(m) ELSE 1
    BY DEF Length, UnitForms
<1> QED BY <1>1, <1>2, <1>3, <1>4, <1>5, <1>6

(* An encoding has the length asked for beforehand. *)
LEMMA LengthAgrees ==
  ASSUME NEW form \in Forms, NEW m \in Magnitudes(LebCap - 1), Holds(form, m)
  PROVE  /\ Encode(form, m) \in Seq(Cells) /\ Length(form, m) \in Nat
         /\ form # "SUCSBig" => Len(Encode(form, m)) = Length(form, m)
<1>1. m \in Seq(Octets) BY SmallCaps, MagnitudesIs
<1>2. Octets \subseteq Cells /\ Int \subseteq Cells BY OctetIs DEF Cells
<1>3. CASE form \in {"SUTF8", "UTF8"}
  <2>1. Encode(form, m) = EncodeBytes(m) /\ Length(form, m) = ByteLength(m) BY <1>3, EncodeIs, LengthIs
  <2> QED BY <1>1, <1>3, <2>1, HeldIs, ByteLengthIs
<1>4. CASE form \in {"ESUTF8", "VSUTF"}
  <2>1. Encode(form, m) = EncodeFrame(m) /\ Length(form, m) = FrameLength(m) BY <1>4, EncodeIs, LengthIs
  <2> QED BY <1>1, <2>1, FrameLengthIs
<1>5. CASE form = "SUTF16"
  <2>1. Encode(form, m) = EncodeWords(m) /\ Length(form, m) = WordLength(m) BY <1>5, EncodeIs, LengthIs
  <2>2. EncodeWords(m) \in Seq(Cells) BY <1>1, <1>2, WordLengthIs
  <2> QED BY <1>1, <2>1, <2>2, WordLengthIs
<1>6. CASE form = "SUST16"
  <2>1. Encode(form, m) = EncodeWordBytes(m) /\ Length(form, m) = 2 * WordLength(m)
      BY <1>6, EncodeIs, LengthIs
  <2>2. 2 * WordLength(m) \in Nat BY <1>1, WordLengthIs
  <2> QED BY <1>1, <2>1, <2>2, WordLengthIs
<1>7. CASE form \in {"SUST32", "ESUST32"}
  <2>1. Encode(form, m) = Pad(m, 4) /\ Length(form, m) = 4 BY <1>7, EncodeIs, LengthIs
  <2>2. Len(m) <= 4
    <3>1. Len(m) > 4 \/ Len(m) <= 4 BY <1>1, SeqIs
    <3>2. Narrow(m) => Len(m) <= 4 BY <1>1, <3>1, NarrowIs
    <3> QED BY <1>7, <3>2, HeldIs
  <2>3. Pad(m, 4) \in Seq(Octets) /\ Len(Pad(m, 4)) = 4 BY <1>1, <2>2, PadIs
  <2>4. Pad(m, 4) \in Seq(Cells) BY <1>2, <2>3
  <2> QED BY <2>1, <2>3, <2>4
<1>8. CASE form = "ESUST64"
  <2>1. Encode(form, m) = Pad(m, 8) /\ Length(form, m) = 8 BY <1>8, EncodeIs, LengthIs
  <2>2. Pad(m, 8) \in Seq(Octets) /\ Len(Pad(m, 8)) = 8 BY <1>1, <1>8, HeldIs, PadIs
  <2>3. Pad(m, 8) \in Seq(Cells) BY <1>2, <2>2
  <2> QED BY <2>1, <2>2, <2>3
<1>9. CASE form \in UnitForms
  <2>1. Encode(form, m) = <<m>> /\ Length(form, m) = IF form = "SUCSBig" THEN Limbs(m) ELSE 1
      BY <1>9, EncodeIs, LengthIs
  <2>2. Limbs(m) \in Nat
    <3>1. \A n \in Nat : (n + 3) \div 4 \in Nat OBVIOUS
    <3>2. Len(m) \in Nat BY <1>1
    <3> QED BY <3>1, <3>2 DEF Limbs
  <2>3. m \in Cells BY <1>1 DEF Cells
  <2> QED BY <2>1, <2>2, <2>3
<1> QED BY <1>3, <1>4, <1>5, <1>6, <1>7, <1>8, <1>9 DEF Forms, ByteForms

(* A sequence of sequences, one after the other. *)
Flattens(f, s) == f = [i \in 1 .. Len(s) |-> IF i = 1 THEN s[i] ELSE f[i - 1] \o s[i]]

LEMMA FlattenExists ==
  ASSUME NEW S, NEW s \in Seq(S)
  PROVE  \E f : Flattens(f, s)
<1> DEFINE n == Len(s)
           Runs(f, m) == f = [i \in 1 .. m |-> IF i = 1 THEN s[i] ELSE f[i - 1] \o s[i]]
           bad == {m \in 0 .. n : ~ \E f : Runs(f, m)}
<1>1. n \in Nat OBVIOUS
<1> HIDE DEF n
<1> HIDE DEF Runs
<1>2. bad = {}
  <2> SUFFICES ASSUME bad # {} PROVE FALSE
      OBVIOUS
  <2>1. bad \subseteq Nat OBVIOUS
  <2>2. PICK m \in bad : \A y \in bad : m <= y BY <2>1, LeastExists
  <2>3. m \in 0 .. n /\ ~ \E f : Runs(f, m) BY <2>2
  <2>4. m # 0
    <3>1. Runs(<<>>, 0) BY DEF Runs
    <3> QED BY <2>3, <3>1
  <2>5. m - 1 \in 0 .. n /\ ~(m <= m - 1) BY <2>3, <2>4, <1>1
  <2>6. PICK f : Runs(f, m - 1) BY <2>2, <2>5
  <2> DEFINE g == [i \in 1 .. m |-> IF i = m THEN (IF m = 1 THEN s[m] ELSE f[m - 1] \o s[m]) ELSE f[i]]
  <2>7. \A i \in 1 .. m : g[i] = IF i = 1 THEN s[i] ELSE g[i - 1] \o s[i]
    <3> SUFFICES ASSUME NEW i \in 1 .. m PROVE g[i] = IF i = 1 THEN s[i] ELSE g[i - 1] \o s[i]
        OBVIOUS
    <3>1. CASE i = m
      <4>1. m # 1 => m - 1 \in 1 .. m /\ m - 1 # m BY <2>3, <2>4
      <4>2. m # 1 => g[m - 1] = f[m - 1] BY <4>1
      <4> QED BY <3>1, <4>2
    <3>2. CASE i # m
      <4>1. i \in 1 .. m - 1 /\ i - 1 # m BY <3>2, <2>3
      <4>2. f[i] = IF i = 1 THEN s[i] ELSE f[i - 1] \o s[i] BY <4>1, <2>6 DEF Runs
      <4>3. g[i] = f[i] /\ (i # 1 => g[i - 1] = f[i - 1])
        <5>1. i # 1 => i - 1 \in 1 .. m BY <4>1
        <5> QED BY <3>2, <4>1, <5>1
      <4> HIDE DEF g
      <4> QED BY <4>2, <4>3
    <3> QED BY <3>1, <3>2
  <2>8. g = [i \in 1 .. m |-> g[i]] OBVIOUS
  <2> HIDE DEF g
  <2>9. Runs(g, m) BY <2>7, <2>8 DEF Runs
  <2> QED BY <2>3, <2>9
<1>3. \E f : Runs(f, n)
  <2>1. n \in 0 .. n BY <1>1
  <2> QED BY <1>2, <2>1
<1> QED BY <1>3 DEF Flattens, n, Runs

LEMMA FlattenIs ==
  ASSUME NEW S, NEW s \in Seq(S), s # <<>>
  PROVE  \E f : Flattens(f, s) /\ FlattenSeq(s) = f[Len(s)]
<1> DEFINE f == CHOOSE f : Flattens(f, s)
<1>1. Flattens(f, s)
  <2> HIDE DEF f
  <2> QED BY FlattenExists DEF f
<1>2. FlattenSeq(s) = f[Len(s)]
  <2>1. Len(s) # 0 OBVIOUS
  <2> QED BY <2>1, Zenon DEF FlattenSeq, Flattens
<1> HIDE DEF f
<1> QED BY <1>1, <1>2

LEMMA FlattenOne ==
  ASSUME NEW S, NEW s \in Seq(S), Len(s) = 1
  PROVE  FlattenSeq(s) = s[1]
<1>1. s # <<>> OBVIOUS
<1>2. PICK f : Flattens(f, s) /\ FlattenSeq(s) = f[Len(s)] BY <1>1, FlattenIs
<1>3. f = [i \in 1 .. 1 |-> IF i = 1 THEN s[i] ELSE f[i - 1] \o s[i]] BY <1>2 DEF Flattens
<1>4. f[1] = s[1] BY <1>3
<1> QED BY <1>2, <1>4

LEMMA FlattenMore ==
  ASSUME NEW S, NEW s \in Seq(S), s # <<>>, NEW t \in Seq(S), NEW x,
         Len(t) = Len(s) + 1, t[Len(t)] = x, \A i \in 1 .. Len(s) : t[i] = s[i]
  PROVE  FlattenSeq(t) = FlattenSeq(s) \o x
<1> DEFINE n == Len(s)
           k == Len(t)
<1>1. n \in Nat /\ n # 0 /\ k = n + 1 /\ t # <<>> BY NonEmpty, SeqIs
<1>2. PICK f : Flattens(f, s) /\ FlattenSeq(s) = f[n] BY FlattenIs
<1>3. PICK g : Flattens(g, t) /\ FlattenSeq(t) = g[k] BY <1>1, FlattenIs
<1>4. t[k] = x /\ \A i \in 1 .. n : t[i] = s[i] OBVIOUS
<1>5. /\ \A i \in 1 .. n : f[i] = IF i = 1 THEN s[i] ELSE f[i - 1] \o s[i]
      /\ \A i \in 1 .. k : g[i] = IF i = 1 THEN t[i] ELSE g[i - 1] \o t[i]
    BY <1>2, <1>3 DEF Flattens
<1> HIDE DEF n, k
<1>6. \A i \in 1 .. n : g[i] = f[i]
  <2> DEFINE bad == {i \in 1 .. n : g[i] # f[i]}
  <2> SUFFICES ASSUME bad # {} PROVE FALSE
      OBVIOUS
  <2>1. bad \subseteq Nat OBVIOUS
  <2>2. PICK i \in bad : \A j \in bad : i <= j BY <2>1, LeastExists
  <2>3. i \in 1 .. n /\ g[i] # f[i] /\ i \in 1 .. k BY <2>2, <1>1
  <2>4. i # 1 => i - 1 \in 1 .. n /\ ~(i <= i - 1) BY <2>3, <1>1
  <2>5. i # 1 => g[i - 1] = f[i - 1] BY <2>2, <2>4
  <2> QED BY <2>3, <2>5, <1>4, <1>5
<1>7. g[k] = g[n] \o x
  <2>1. k \in 1 .. k /\ k # 1 /\ k - 1 = n BY <1>1
  <2> QED BY <2>1, <1>4, <1>5
<1>8. n \in 1 .. n BY <1>1
<1> QED BY <1>2, <1>3, <1>6, <1>7, <1>8

Points == Magnitudes(LebCap - 1)

LEMMA EncodingsEmpty == ASSUME NEW form PROVE Encodings(form, <<>>) = <<>>
BY DEF Encodings, FlattenSeq

(* The encodings of a text that grows. *)
LEMMA EncodingsMore ==
  ASSUME NEW form, NEW cps \in Seq(Points), NEW m \in Points, NEW S, Encode(form, m) \in Seq(S)
  PROVE  Encodings(form, Append(cps, m)) = Encodings(form, cps) \o Encode(form, m)
<1> DEFINE n == Len(cps)
           more == Append(cps, m)
           s == [i \in 1 .. n |-> Encode(form, cps[i])]
           t == [i \in 1 .. Len(more) |-> Encode(form, more[i])]
           E == {Encode(form, p) : p \in Points}
           x == Encode(form, m)
<1>1. n \in Nat /\ Len(more) = n + 1 /\ more[n + 1] = m /\ (\A i \in 1 .. n : more[i] = cps[i])
      /\ \A i \in 1 .. n : cps[i] \in Points
    OBVIOUS
<1>2. Encodings(form, more) = FlattenSeq(t) /\ Encodings(form, cps) = FlattenSeq(s) BY DEF Encodings
<1> HIDE DEF n, more
<1>3. s \in [1 .. n -> E] BY <1>1
<1>4. \A i \in 1 .. n + 1 : more[i] \in Points
  <2>1. \A i \in 1 .. n + 1 : i \in 1 .. n \/ i = n + 1 BY <1>1
  <2> QED BY <2>1, <1>1
<1>5. t \in [1 .. n + 1 -> E] BY <1>1, <1>4
<1> HIDE DEF s, t, E
<1>6. s \in Seq(E) /\ Len(s) = n /\ t \in Seq(E) /\ Len(t) = n + 1 BY <1>1, <1>3, <1>5
<1>7. t[n + 1] = x /\ \A i \in 1 .. n : t[i] = s[i]
  <2>1. n + 1 \in 1 .. n + 1 /\ \A i \in 1 .. n : i \in 1 .. n + 1 BY <1>1
  <2> QED BY <2>1, <1>1 DEF s, t
<1> HIDE DEF x
<1>8. CASE n = 0
  <2>1. Len(t) = 1 /\ t[1] = x BY <1>6, <1>7, <1>8
  <2>2. FlattenSeq(t) = x BY <1>6, <2>1, FlattenOne
  <2>3. s = <<>> BY <1>6, <1>8
  <2>4. FlattenSeq(s) = <<>> BY <2>3 DEF FlattenSeq
  <2>5. <<>> \o x = x BY DEF x
  <2> QED BY <1>2, <2>2, <2>4, <2>5 DEF x, more
<1>9. CASE n # 0
  <2>1. s # <<>> BY <1>6, <1>9
  <2>2. FlattenSeq(t) = FlattenSeq(s) \o x BY <1>6, <1>7, <2>1, FlattenMore
  <2> QED BY <1>2, <2>2 DEF x, more
<1> QED BY <1>8, <1>9

(* A function whose values are those of later places exists. *)
RunsBack(f, n, end, nxt, h) ==
  f = [i \in 1 .. n + 1 |-> IF i > n THEN end ELSE h[<<i, f[nxt[i]]>>]]

LEMMA BackStepsExist ==
  ASSUME NEW V, NEW n \in Nat, NEW end \in V, NEW nxt \in [1 .. n -> 1 .. n + 1],
         \A i \in 1 .. n : nxt[i] > i, NEW h \in [(1 .. n) \X V -> V]
  PROVE  \E f : RunsBack(f, n, end, nxt, h)
<1> DEFINE From(k) == (n + 1 - k) .. (n + 1)
           Runs(f, k) == /\ f \in [From(k) -> V]
                         /\ \A i \in From(k) : f[i] = IF i > n THEN end ELSE h[<<i, f[nxt[i]]>>]
           bad == {k \in 0 .. n : ~ \E f : Runs(f, k)}
<1> HIDE DEF Runs
<1>1. bad = {}
  <2> SUFFICES ASSUME bad # {} PROVE FALSE
      OBVIOUS
  <2>1. bad \subseteq Nat OBVIOUS
  <2>2. PICK k \in bad : \A y \in bad : k <= y BY <2>1, LeastExists
  <2>3. k \in 0 .. n /\ ~ \E f : Runs(f, k) BY <2>2
  <2>4. k # 0
    <3>1. \A i \in From(0) : i > n OBVIOUS
    <3>2. [i \in From(0) |-> end] \in [From(0) -> V] OBVIOUS
    <3>3. Runs([i \in From(0) |-> end], 0) BY <3>1, <3>2 DEF Runs
    <3> QED BY <2>3, <3>3
  <2>5. k - 1 \in 0 .. n /\ ~(k <= k - 1) BY <2>3, <2>4
  <2>6. PICK f : Runs(f, k - 1) BY <2>2, <2>5
  <2> DEFINE p == n + 1 - k
             g == [i \in From(k) |-> IF i = p THEN h[<<p, f[nxt[p]]>>] ELSE f[i]]
  <2>7. /\ p \in 1 .. n /\ p \notin From(k - 1)
        /\ \A i \in From(k) : i = p \/ (i # p /\ i \in From(k - 1))
        /\ \A i \in From(k - 1) : i \in From(k) /\ i # p
        /\ \A i \in From(k - 1) : i <= n => i \in 1 .. n
      BY <2>3, <2>4
  <2>8. nxt[p] \in From(k - 1)
    <3>1. nxt[p] \in 1 .. n + 1 /\ nxt[p] > p BY <2>7
    <3> DEFINE q == nxt[p]
    <3> HIDE DEF q
    <3>2. q \in From(k - 1) BY <3>1, <2>3, <2>4 DEF q
    <3> QED BY <3>2 DEF q
  <2>9. f \in [From(k - 1) -> V]
        /\ \A i \in From(k - 1) : f[i] = IF i > n THEN end ELSE h[<<i, f[nxt[i]]>>]
      BY <2>6 DEF Runs
  <2>10. \A i \in From(k - 1) : g[i] = f[i] BY <2>7
  <2>11. g[p] = h[<<p, f[nxt[p]]>>] /\ p \in From(k) BY <2>3
  <2>12. g \in [From(k) -> V]
    <3>1. f[nxt[p]] \in V BY <2>8, <2>9
    <3>2. <<p, f[nxt[p]]>> \in (1 .. n) \X V BY <3>1, <2>7
    <3>3. h[<<p, f[nxt[p]]>>] \in V BY <3>2
    <3>4. \A i \in From(k) : i # p => f[i] \in V BY <2>7, <2>9
    <3> QED BY <3>3, <3>4
  <2> HIDE DEF g
  <2>13. ASSUME NEW i \in From(k) PROVE g[i] = IF i > n THEN end ELSE h[<<i, g[nxt[i]]>>]
    <3>1. CASE i = p
      <4>1. g[nxt[p]] = f[nxt[p]] BY <2>8, <2>10
      <4>2. ~(i > n) BY <3>1, <2>7
      <4> QED BY <3>1, <4>1, <4>2, <2>11
    <3>2. CASE i # p
      <4>1. i \in From(k - 1) BY <3>2, <2>7
      <4>2. ~(i > n) => nxt[i] \in From(k - 1)
        <5> SUFFICES ASSUME ~(i > n) PROVE nxt[i] \in From(k - 1)
            OBVIOUS
        <5>1. i \in 1 .. n BY <4>1, <2>7
        <5>2. nxt[i] \in 1 .. n + 1 /\ nxt[i] > i BY <5>1
        <5> DEFINE q == nxt[i]
        <5> HIDE DEF q
        <5>3. q \in From(k - 1) BY <4>1, <5>1, <5>2, <2>3, <2>4 DEF q
        <5> QED BY <5>3 DEF q
      <4>3. ~(i > n) => g[nxt[i]] = f[nxt[i]] BY <4>2, <2>10
      <4>4. g[i] = f[i] BY <4>1, <2>10
      <4> QED BY <4>1, <4>3, <4>4, <2>9
    <3> QED BY <3>1, <3>2
  <2>14. Runs(g, k) BY <2>12, <2>13 DEF Runs
  <2> QED BY <2>3, <2>14
<1>2. PICK f : Runs(f, n)
  <2>1. n \in 0 .. n OBVIOUS
  <2> QED BY <1>1, <2>1
<1>3. From(n) = 1 .. n + 1 OBVIOUS
<1>4. /\ f \in [1 .. n + 1 -> V]
      /\ \A i \in 1 .. n + 1 : f[i] = IF i > n THEN end ELSE h[<<i, f[nxt[i]]>>]
    BY <1>2, <1>3 DEF Runs
<1>5. f = [i \in 1 .. n + 1 |-> f[i]] BY <1>4
<1>6. RunsBack(f, n, end, nxt, h) BY <1>4, <1>5 DEF RunsBack
<1> QED BY <1>6

StepsBack(V, n, end, nxt, h) ==
  /\ n \in Nat /\ end \in V /\ nxt \in [1 .. n -> 1 .. n + 1]
  /\ \A i \in 1 .. n : nxt[i] > i
  /\ h \in [(1 .. n) \X V -> V]

ValuesBack(f, V, n, end, nxt, h) ==
  /\ \A i \in 1 .. n + 1 : f[i] \in V
  /\ f[n + 1] = end /\ \A i \in 1 .. n : f[i] = h[<<i, f[nxt[i]]>>]

LEMMA BackStepsAre ==
  ASSUME NEW V, NEW n, NEW end, NEW nxt, NEW h, StepsBack(V, n, end, nxt, h),
         NEW f, RunsBack(f, n, end, nxt, h)
  PROVE  ValuesBack(f, V, n, end, nxt, h)
<1>0. /\ n \in Nat /\ end \in V /\ nxt \in [1 .. n -> 1 .. n + 1]
      /\ \A i \in 1 .. n : nxt[i] > i
      /\ h \in [(1 .. n) \X V -> V]
    BY DEF StepsBack
<1>1. \A i \in 1 .. n + 1 : f[i] = IF i > n THEN end ELSE h[<<i, f[nxt[i]]>>] BY DEF RunsBack
<1>2. n + 1 \in 1 .. n + 1 /\ n + 1 > n /\ \A i \in 1 .. n : i \in 1 .. n + 1 /\ ~(i > n) BY <1>0
<1>3. f[n + 1] = end /\ \A i \in 1 .. n : f[i] = h[<<i, f[nxt[i]]>>] BY <1>1, <1>2
<1> DEFINE bad == {k \in 0 .. n : f[n + 1 - k] \notin V}
<1>4. bad = {}
  <2> SUFFICES ASSUME bad # {} PROVE FALSE
      OBVIOUS
  <2>1. bad \subseteq Nat OBVIOUS
  <2>2. PICK k \in bad : \A y \in bad : k <= y BY <2>1, LeastExists
  <2> DEFINE i == n + 1 - k
             q == nxt[i]
  <2>3. k \in 0 .. n /\ f[i] \notin V BY <2>2
  <2>4. k # 0 BY <2>3, <1>0, <1>3
  <2>5. i \in 1 .. n BY <2>3, <2>4, <1>0
  <2>6. q \in 1 .. n + 1 /\ q > i BY <2>5, <1>0
  <2> HIDE DEF q
  <2>7. n + 1 - q \in 0 .. n /\ ~(k <= n + 1 - q) /\ n + 1 - (n + 1 - q) = q BY <2>6, <2>3, <1>0
  <2>8. f[q] \in V BY <2>2, <2>7
  <2>9. <<i, f[q]>> \in (1 .. n) \X V BY <2>5, <2>8
  <2>10. h[<<i, f[q]>>] \in V BY <2>9, <1>0
  <2> HIDE DEF i
  <2> QED BY <2>3, <2>5, <2>10, <1>3 DEF q
<1>5. \A i \in 1 .. n + 1 : n + 1 - i \in 0 .. n /\ n + 1 - (n + 1 - i) = i BY <1>0
<1>6. \A i \in 1 .. n + 1 : f[i] \in V BY <1>4, <1>5
<1> QED BY <1>3, <1>6 DEF ValuesBack

LEMMA StepsBackAre ==
  ASSUME NEW V, NEW n, NEW end, NEW nxt, NEW h, StepsBack(V, n, end, nxt, h)
  PROVE  \E f : RunsBack(f, n, end, nxt, h) /\ ValuesBack(f, V, n, end, nxt, h)
<1>1. \E f : RunsBack(f, n, end, nxt, h) BY BackStepsExist DEF StepsBack
<1> QED BY <1>1, BackStepsAre

LEMMA JobIs ==
  ASSUME NEW j \in Jobs
  PROVE  /\ j.from \in Forms /\ j.to \in Forms /\ j.flags \in {"strict", "lenient"}
         /\ j.units \in Seq(UnitsOf(j.from)) /\ Len(j.units) \in Nat /\ Len(j.units) < LebCap
<1>1. /\ <<j.from, j.to>> \in Conversions /\ j.flags \in {"strict", "lenient"}
      /\ j.units \in Seq(UnitsOf(j.from)) /\ Len(j.units) < LebCap
    BY ConverterAssumption
<1>2. ASSUME NEW a, NEW b, NEW x, NEW y, <<a, b>> \in Both(x, y), x \in Forms, y \in Forms
      PROVE  a \in Forms /\ b \in Forms
    BY <1>2 DEF Both
<1>3. \A a, b : <<a, b>> \in SutfConversions => a \in Forms /\ b \in Forms
    BY <1>2 DEF SutfConversions, Forms, ByteForms, UnitForms
<1>4. \A a, b : <<a, b>> \in SustConversions => a \in Forms /\ b \in Forms
    BY <1>2 DEF SustConversions, Forms, ByteForms, UnitForms
<1>5. \A a, b : <<a, b>> \in EsutfConversions => a \in Forms /\ b \in Forms
    BY <1>2 DEF EsutfConversions, Forms, ByteForms, UnitForms
<1>6. \A a, b : <<a, b>> \in EsustConversions => a \in Forms /\ b \in Forms
    BY <1>2 DEF EsustConversions, Forms, ByteForms, UnitForms
<1>7. \A a, b : <<a, b>> \in BridgeConversions => a \in Forms /\ b \in Forms
    BY <1>2 DEF BridgeConversions, Forms, ByteForms, UnitForms
<1>8. j.from \in Forms /\ j.to \in Forms BY <1>1, <1>3, <1>4, <1>5, <1>6, <1>7 DEF Conversions
<1> QED BY <1>1, <1>8, SeqIs

(* The source from a place on, and what is there. *)
From(s, i) == SubSeq(s, i, Len(s))
At(form, s, i) == Decode(form, From(s, i))

LEMMA FromIs ==
  ASSUME NEW S, NEW s \in Seq(S), NEW i \in 1 .. Len(s)
  PROVE  From(s, i) \in Seq(S) /\ Len(From(s, i)) = Len(s) - i + 1 /\ From(s, i) # <<>>
<1> DEFINE n == Len(s)
           r == From(s, i)
<1>1. n \in Nat OBVIOUS
<1>2. r \in Seq(S) /\ Len(r) = n - i + 1
  <2>1. i \in Nat \ {0} /\ n <= Len(s) /\ i <= n + 1 BY <1>1
  <2> HIDE DEF n
  <2>2. SubSeq(s, i, n) \in Seq(S) /\ Len(SubSeq(s, i, n)) = n - i + 1 BY <1>1, <2>1, SubIs
  <2> QED BY <2>2 DEF From, n
<1>3. r # <<>>
  <2>1. n - i + 1 # 0 BY <1>1
  <2> HIDE DEF r, n
  <2>2. Len(<<>>) = 0 OBVIOUS
  <2> QED BY <2>1, <2>2, <1>2
<1> QED BY <1>2, <1>3

LEMMA AtIs ==
  ASSUME NEW form \in Forms, NEW s \in Seq(UnitsOf(form)), Len(s) < LebCap, NEW i \in 1 .. Len(s)
  PROVE  LET d == At(form, s, i)
         IN  /\ Found(form, From(s, i), d) /\ d.used \in Nat /\ d.used > 0
             /\ i + d.used \in 1 .. Len(s) + 1 /\ i + d.used > i
             /\ d.status \in {"ok", "invalid", "truncated"}
             /\ d.status = "ok" => d.cp \in Points
             /\ d.status = "truncated" => i + d.used = Len(s) + 1
<1> DEFINE n == Len(s)
           r == From(s, i)
           d == At(form, s, i)
<1>1. n \in Nat /\ i \in 1 .. n OBVIOUS
<1>2. r \in Seq(UnitsOf(form)) /\ Len(r) = n - i + 1 /\ r # <<>> BY FromIs
<1>3. Found(form, r, d)
  <2>1. Len(r) < LebCap BY <1>1, <1>2, SmallCaps
  <2> HIDE DEF r
  <2> QED BY <1>2, <2>1, DecodeFound DEF At, r
<1> HIDE DEF r, d, n
<1>4. d.used \in 1 .. n - i + 1 /\ d.status \in {"ok", "invalid", "truncated"}
      /\ (d.status = "ok" => d.cp \in Points) /\ (d.status = "truncated" => d.used = n - i + 1)
    BY <1>2, <1>3 DEF Found, Points
<1> DEFINE k == d.used
<1> HIDE DEF k
<1>5. k \in 1 .. n - i + 1 /\ (d.status = "truncated" => k = n - i + 1) BY <1>4 DEF k
<1>6. k \in Nat /\ k > 0 /\ i + k \in 1 .. n + 1 /\ i + k > i
      /\ (d.status = "truncated" => i + k = n + 1)
    BY <1>1, <1>5
<1> QED BY <1>3, <1>4, <1>6 DEF k, n, r, d

(* What is delivered from a place on. *)
Bridged(j) == "UTF8" \in {j.from, j.to}
Delivered(j, d, r) ==
  IF d.status = "ok" /\ Holds(j.to, d.cp) THEN <<d.cp>> \o r
  ELSE IF j.flags = "strict" \/ (Bridged(j) /\ d.status # "ok") THEN <<>>
  ELSE IF d.status = "truncated" THEN <<Replacement>>
  ELSE <<Replacement>> \o r
RestRuns(j, rest) ==
  rest = [i \in 1 .. Len(j.units) + 1 |->
            IF i > Len(j.units) THEN <<>>
            ELSE Delivered(j, At(j.from, j.units, i), rest[i + At(j.from, j.units, i).used])]
RestOf(j) == CHOOSE rest : RestRuns(j, rest)

LEMMA ReplacementIs == Replacement \in Points
<1>1. Replacement \in Seq(Octets) /\ Len(Replacement) <= 4 /\ Replacement[1] # 0
    BY DEF Replacement, Octets
<1>2. Replacement \in Magnitudes(4) BY <1>1, MagnitudesIs
<1> QED BY <1>2, SmallCaps, Smaller DEF Points

LEMMA DeliveredIs ==
  ASSUME NEW j, NEW d, d.status = "ok" => d.cp \in Points, NEW r \in Seq(Points)
  PROVE  Delivered(j, d, r) \in Seq(Points)
<1>1. <<Replacement>> \in Seq(Points) /\ <<Replacement>> \o r \in Seq(Points) /\ <<>> \in Seq(Points)
    BY ReplacementIs
<1>2. d.status = "ok" => <<d.cp>> \o r \in Seq(Points) OBVIOUS
<1> QED BY <1>1, <1>2, Zenon DEF Delivered

(* An uninterrupted conversion goes from codepoint to codepoint: what it   *)
(* delivers from a place on.                                               *)
LEMMA RestIs ==
  ASSUME NEW j \in Jobs
  PROVE  /\ Whole(j) = RestOf(j)[1]
         /\ \A i \in 1 .. Len(j.units) + 1 : RestOf(j)[i] \in Seq(Points)
         /\ RestOf(j)[Len(j.units) + 1] = <<>>
         /\ \A i \in 1 .. Len(j.units) :
              LET d == At(j.from, j.units, i)
              IN  RestOf(j)[i] = Delivered(j, d, RestOf(j)[i + d.used])
<1> DEFINE n == Len(j.units)
           V == Seq(Points)
           a(i) == At(j.from, j.units, i)
           nxt == [i \in 1 .. n |-> i + a(i).used]
           h == [z \in (1 .. n) \X V |-> Delivered(j, a(z[1]), z[2])]
           rest == RestOf(j)
<1>1. n \in Nat /\ j.from \in Forms /\ j.units \in Seq(UnitsOf(j.from)) /\ n < LebCap BY JobIs
<1>2. \A i \in 1 .. n : i + a(i).used \in 1 .. n + 1 /\ i + a(i).used > i
                        /\ (a(i).status = "ok" => a(i).cp \in Points)
    BY <1>1, AtIs
<1>3. Whole(j) = rest[1] BY Zenon DEF Whole, RestOf, RestRuns, Delivered, Bridged, At, From
<1> HIDE DEF n, a, rest
<1>4. nxt \in [1 .. n -> 1 .. n + 1] /\ \A i \in 1 .. n : nxt[i] > i /\ nxt[i] = i + a(i).used BY <1>2
<1>5. h \in [(1 .. n) \X V -> V]
  <2>1. ASSUME NEW z \in (1 .. n) \X V PROVE Delivered(j, a(z[1]), z[2]) \in V
    <3>1. z[1] \in 1 .. n /\ z[2] \in V OBVIOUS
    <3> QED BY <3>1, <1>2, DeliveredIs
  <2> QED BY <2>1
<1>6. \A i \in 1 .. n, r \in V : h[<<i, r>>] = Delivered(j, a(i), r) OBVIOUS
<1> DEFINE none == <<>>
<1>7. none \in V OBVIOUS
<1> HIDE DEF nxt, h, V, none
<1>9. StepsBack(V, n, none, nxt, h) BY <1>1, <1>4, <1>5, <1>7 DEF StepsBack
<1>8. PICK f : RunsBack(f, n, none, nxt, h) /\ ValuesBack(f, V, n, none, nxt, h)
    BY <1>9, StepsBackAre
<1>10. /\ \A i \in 1 .. n + 1 : f[i] \in V
       /\ f[n + 1] = none /\ \A i \in 1 .. n : f[i] = h[<<i, f[nxt[i]]>>]
    BY <1>8 DEF ValuesBack
<1>11. f = [i \in 1 .. n + 1 |-> f[i]] BY <1>8 DEF RunsBack
<1>12. ASSUME NEW i \in 1 .. n + 1
       PROVE  f[i] = IF i > n THEN none ELSE Delivered(j, a(i), f[i + a(i).used])
  <2>1. CASE i > n
    <3>1. i = n + 1 BY <1>1, <2>1
    <3> QED BY <1>10, <2>1, <3>1
  <2>2. CASE ~(i > n)
    <3>1. i \in 1 .. n BY <1>1, <2>2
    <3>2. nxt[i] \in 1 .. n + 1 BY <3>1, <1>4
    <3>3. f[nxt[i]] \in V BY <3>2, <1>10
    <3>4. h[<<i, f[nxt[i]]>>] = Delivered(j, a(i), f[nxt[i]]) BY <3>1, <3>3, <1>6
    <3> QED BY <2>2, <3>1, <3>4, <1>4, <1>10
  <2> QED BY <2>1, <2>2
<1>13. RestRuns(j, f)
  <2>1. f = [i \in 1 .. n + 1 |-> IF i > n THEN none ELSE Delivered(j, a(i), f[i + a(i).used])]
      BY <1>11, <1>12
  <2> QED BY <2>1, Zenon DEF RestRuns, n, a, none
<1>14. RestRuns(j, rest)
  <2>1. RestRuns(j, CHOOSE r : RestRuns(j, r)) BY <1>13
  <2> QED BY <2>1 DEF RestOf, rest
<1>15. rest = [i \in 1 .. n + 1 |-> IF i > n THEN none ELSE Delivered(j, a(i), rest[i + a(i).used])]
    BY <1>14, Zenon DEF RestRuns, n, a, none
<1>16. rest[n + 1] = none /\ \A i \in 1 .. n : rest[i] = Delivered(j, a(i), rest[i + a(i).used])
  <2>1. n + 1 \in 1 .. n + 1 /\ n + 1 > n /\ \A i \in 1 .. n : i \in 1 .. n + 1 /\ ~(i > n) BY <1>1
  <2> QED BY <2>1, <1>15
<1>17. \A i \in 1 .. n + 1 : rest[i] \in V
  <2> DEFINE bad == {k \in 0 .. n : rest[n + 1 - k] \notin V}
  <2>1. bad = {}
    <3> SUFFICES ASSUME bad # {} PROVE FALSE
        OBVIOUS
    <3>1. bad \subseteq Nat OBVIOUS
    <3>2. PICK k \in bad : \A y \in bad : k <= y BY <3>1, LeastExists
    <3> DEFINE i == n + 1 - k
               q == nxt[i]
    <3>3. k \in 0 .. n /\ rest[i] \notin V BY <3>2
    <3>4. k # 0 BY <3>3, <1>16, <1>7, <1>1
    <3>5. i \in 1 .. n BY <3>3, <3>4, <1>1
    <3>6. q \in 1 .. n + 1 /\ q > i /\ q = i + a(i).used BY <3>5, <1>4
    <3> HIDE DEF q
    <3>7. n + 1 - q \in 0 .. n /\ ~(k <= n + 1 - q) /\ n + 1 - (n + 1 - q) = q BY <3>6, <3>3, <1>1
    <3>8. rest[q] \in V BY <3>2, <3>7
    <3> HIDE DEF i
    <3>9. Delivered(j, a(i), rest[q]) \in V BY <3>5, <3>8, <1>2, DeliveredIs DEF V
    <3> QED BY <3>3, <3>5, <3>6, <3>9, <1>16
  <2>2. \A i \in 1 .. n + 1 : n + 1 - i \in 0 .. n /\ n + 1 - (n + 1 - i) = i BY <1>1
  <2> QED BY <2>1, <2>2
<1> QED BY <1>3, <1>16, <1>17 DEF rest, n, a, V, none

(* Whether a source is legal from a place on. *)
LegalRuns(form, s, rest) ==
  rest = [i \in 1 .. Len(s) + 1 |->
            i > Len(s) \/ (At(form, s, i).status = "ok" /\ rest[i + At(form, s, i).used])]
LegalOf(form, s) == CHOOSE rest : LegalRuns(form, s, rest)

(* The isLegal functions go the same way.                                  *)
LEMMA LegalIs ==
  ASSUME NEW form \in Forms, NEW s \in Seq(UnitsOf(form)), Len(s) < LebCap
  PROVE  /\ IsLegal(form, s) <=> LegalOf(form, s)[1]
         /\ LegalOf(form, s)[Len(s) + 1]
         /\ \A i \in 1 .. Len(s) :
              LET d == At(form, s, i)
              IN  LegalOf(form, s)[i] <=> d.status = "ok" /\ LegalOf(form, s)[i + d.used]
<1> DEFINE n == Len(s)
           a(i) == At(form, s, i)
           nxt == [i \in 1 .. n |-> i + a(i).used]
           h == [z \in (1 .. n) \X BOOLEAN |-> a(z[1]).status = "ok" /\ z[2]]
           rest == LegalOf(form, s)
<1>1. n \in Nat OBVIOUS
<1>2. \A i \in 1 .. n : i + a(i).used \in 1 .. n + 1 /\ i + a(i).used > i BY AtIs
<1>3. IsLegal(form, s) <=> rest[1] BY Zenon DEF IsLegal, LegalOf, LegalRuns, At, From
<1> HIDE DEF n, a, rest
<1>4. nxt \in [1 .. n -> 1 .. n + 1] /\ \A i \in 1 .. n : nxt[i] > i /\ nxt[i] = i + a(i).used BY <1>2
<1>5. h \in [(1 .. n) \X BOOLEAN -> BOOLEAN] OBVIOUS
<1>6. \A i \in 1 .. n, r \in BOOLEAN : h[<<i, r>>] = (a(i).status = "ok" /\ r) BY Zenon
<1> HIDE DEF nxt, h
<1>7. StepsBack(BOOLEAN, n, TRUE, nxt, h) BY <1>1, <1>4, <1>5 DEF StepsBack
<1>8. PICK f : RunsBack(f, n, TRUE, nxt, h) /\ ValuesBack(f, BOOLEAN, n, TRUE, nxt, h)
    BY <1>7, StepsBackAre
<1>9. /\ \A i \in 1 .. n + 1 : f[i] \in BOOLEAN
      /\ f[n + 1] = TRUE /\ \A i \in 1 .. n : f[i] = h[<<i, f[nxt[i]]>>]
    BY <1>8 DEF ValuesBack
<1>10. f = [i \in 1 .. n + 1 |-> f[i]] BY <1>8 DEF RunsBack
<1>11. ASSUME NEW i \in 1 .. n + 1
       PROVE  f[i] = (i > n \/ (a(i).status = "ok" /\ f[i + a(i).used]))
  <2>1. CASE i > n
    <3>1. i = n + 1 BY <1>1, <2>1
    <3> QED BY <1>9, <2>1, <3>1
  <2>2. CASE ~(i > n)
    <3>1. i \in 1 .. n BY <1>1, <2>2
    <3>2. nxt[i] \in 1 .. n + 1 BY <3>1, <1>4
    <3>3. f[nxt[i]] \in BOOLEAN BY <3>2, <1>9
    <3>4. h[<<i, f[nxt[i]]>>] = (a(i).status = "ok" /\ f[nxt[i]]) BY <3>1, <3>3, <1>6
    <3> QED BY <2>2, <3>1, <3>4, <1>4, <1>9
  <2> QED BY <2>1, <2>2
<1>12. LegalRuns(form, s, f)
  <2>1. f = [i \in 1 .. n + 1 |-> i > n \/ (a(i).status = "ok" /\ f[i + a(i).used])]
      BY <1>10, <1>11
  <2> QED BY <2>1, Zenon DEF LegalRuns, n, a
<1>13. LegalRuns(form, s, rest)
  <2>1. LegalRuns(form, s, CHOOSE r : LegalRuns(form, s, r)) BY <1>12
  <2> QED BY <2>1 DEF LegalOf, rest
<1>14. rest = [i \in 1 .. n + 1 |-> i > n \/ (a(i).status = "ok" /\ rest[i + a(i).used])]
    BY <1>13, Zenon DEF LegalRuns, n, a
<1>15. rest[n + 1] /\ \A i \in 1 .. n : rest[i] <=> (a(i).status = "ok" /\ rest[i + a(i).used])
  <2>1. n + 1 \in 1 .. n + 1 /\ n + 1 > n /\ \A i \in 1 .. n : i \in 1 .. n + 1 /\ ~(i > n) BY <1>1
  <2>2. \A i \in 1 .. n + 1 : rest[i] = (i > n \/ (a(i).status = "ok" /\ rest[i + a(i).used]))
      BY <1>14
  <2> QED BY <2>1, <2>2, Zenon
<1> QED BY <1>3, <1>15 DEF rest, n, a

(* The converter and its caller between two turns of the loop.             *)
Shaped ==
  /\ job \in Jobs /\ arrived \in 0 .. Len(job.units) /\ source \in 0 .. arrived
  /\ target \in Seq(Cells) /\ room \in Nat
  /\ pc \in {"loop", "caller"} /\ text \in Seq(Points) /\ mark \in 0 .. Len(text)

Here == Decode(job.from, Window)

LEMMA SubSubs ==
  ASSUME NEW S, NEW s \in Seq(S), NEW a \in Nat, NEW b \in Nat, a <= b, b <= Len(s),
         NEW k \in Nat, a + k <= b
  PROVE  SubSeq(SubSeq(s, a + 1, b), 1, k) = SubSeq(s, a + 1, a + k)
<1> DEFINE w == SubSeq(s, a + 1, b)
           x == SubSeq(w, 1, k)
           y == SubSeq(s, a + 1, a + k)
<1>0. Len(s) \in Nat OBVIOUS
<1>1. w \in Seq(S) /\ Len(w) = b - a /\ \A i \in 1 .. b - a : w[i] = s[a + i]
  <2>1. /\ b - (a + 1) + 1 = b - a /\ a + 1 \in Nat \ {0} /\ a + 1 <= b + 1
        /\ \A i \in 1 .. b - a : a + 1 + i - 1 = a + i
      OBVIOUS
  <2> QED BY <2>1, SubIs
<1> HIDE DEF w
<1>2. x \in Seq(S) /\ Len(x) = k /\ \A i \in 1 .. k : x[i] = w[i]
  <2>1. k - 1 + 1 = k /\ 1 <= k + 1 /\ k <= Len(w) /\ \A i \in 1 .. k : 1 + i - 1 = i BY <1>1
  <2> QED BY <2>1, <1>1, SubIs
<1>3. y \in Seq(S) /\ Len(y) = k /\ \A i \in 1 .. k : y[i] = s[a + i]
  <2>1. /\ a + k - (a + 1) + 1 = k /\ a + 1 \in Nat \ {0} /\ a + k \in Nat /\ a + 1 <= a + k + 1
        /\ a + k <= Len(s) /\ \A i \in 1 .. k : a + 1 + i - 1 = a + i
      BY <1>0
  <2> QED BY <2>1, SubIs
<1> HIDE DEF x, y
<1>4. \A i \in 1 .. k : x[i] = y[i]
  <2>1. \A i \in 1 .. k : i \in 1 .. b - a OBVIOUS
  <2> QED BY <2>1, <1>1, <1>2, <1>3
<1>5. x = [i \in 1 .. k |-> x[i]] BY <1>2, SeqIs
<1>6. y = [i \in 1 .. k |-> y[i]] BY <1>3, SeqIs
<1>7. x = y BY <1>4, <1>5, <1>6
<1> QED BY <1>7 DEF x, y, w

LEMMA WindowBegins ==
  ASSUME NEW S, NEW s \in Seq(S), NEW a \in Nat, NEW b \in Nat, a < b, b <= Len(s)
  PROVE  LET w == SubSeq(s, a + 1, b)
         IN  /\ w \in Seq(S) /\ Len(w) = b - a /\ w # <<>>
             /\ Begins(w, From(s, a + 1)) /\ From(s, a + 1) \in Seq(S)
             /\ b = Len(s) => w = From(s, a + 1)
<1> DEFINE n == Len(s)
           w == SubSeq(s, a + 1, b)
           r == From(s, a + 1)
<1>1. n \in Nat OBVIOUS
<1>2. w \in Seq(S) /\ Len(w) = b - a /\ \A i \in 1 .. b - a : w[i] = s[a + i]
  <2>1. /\ b - (a + 1) + 1 = b - a /\ a + 1 \in Nat \ {0} /\ a + 1 <= b + 1
        /\ \A i \in 1 .. b - a : a + 1 + i - 1 = a + i
      OBVIOUS
  <2> QED BY <2>1, SubIs
<1>3. r \in Seq(S) /\ Len(r) = n - a /\ \A i \in 1 .. n - a : r[i] = s[a + i]
  <2>1. /\ n - (a + 1) + 1 = n - a /\ a + 1 \in Nat \ {0} /\ a + 1 <= n + 1 /\ n <= Len(s)
        /\ \A i \in 1 .. n - a : a + 1 + i - 1 = a + i
      BY <1>1
  <2> HIDE DEF n
  <2>2. LET u == SubSeq(s, a + 1, n)
        IN  /\ u \in Seq(S) /\ Len(u) = n - (a + 1) + 1
            /\ \A i \in 1 .. n - (a + 1) + 1 : u[i] = s[a + 1 + i - 1]
      BY <1>1, <2>1, SubIs
  <2> QED BY <2>1, <2>2 DEF From, n
<1>4. w # <<>>
  <2>1. b - a # 0 OBVIOUS
  <2>2. Len(<<>>) = 0 OBVIOUS
  <2> HIDE DEF w
  <2> QED BY <1>2, <2>1, <2>2
<1>5. b = n => w = r BY DEF From
<1> HIDE DEF w, r
<1>6. Begins(w, r)
  <2>1. b - a <= n - a /\ \A i \in 1 .. b - a : i \in 1 .. n - a BY <1>1
  <2> HIDE DEF n
  <2> QED BY <2>1, <1>2, <1>3 DEF Begins
<1> QED BY <1>2, <1>3, <1>4, <1>5, <1>6 DEF w, r

(* What the loop finds where it stands, in the window it has, is what the  *)
(* whole source has there, unless it is cut off.                           *)
LEMMA HereIs ==
  ASSUME Shaped, source < arrived
  PROVE  /\ Here.used \in Nat /\ Here.used > 0 /\ source + Here.used \in 0 .. arrived
         /\ Here.status \in {"ok", "invalid", "truncated"}
         /\ Here.status = "ok" => /\ Here.cp \in Points
                                  /\ SubSeq(job.units, source + 1, source + Here.used)
                                       = Encode(job.from, Here.cp)
         /\ Here.status = "truncated" => source + Here.used = arrived
         /\ Here.status # "truncated" \/ arrived = Len(job.units)
              => At(job.from, job.units, source + 1) = Here
         /\ source + 1 \in 1 .. Len(job.units)
<1> DEFINE s == job.units
           n == Len(s)
           form == job.from
           d == Here
<1>1. form \in Forms /\ s \in Seq(UnitsOf(form)) /\ n \in Nat /\ n < LebCap BY JobIs DEF Shaped
<1>2. arrived \in Nat /\ source \in Nat /\ source < arrived /\ arrived <= n BY <1>1 DEF Shaped
<1> HIDE DEF n
<1>3. /\ Window \in Seq(UnitsOf(form)) /\ Len(Window) = arrived - source /\ Window # <<>>
      /\ Begins(Window, From(s, source + 1)) /\ From(s, source + 1) \in Seq(UnitsOf(form))
      /\ arrived = n => Window = From(s, source + 1)
  <2> DEFINE S == UnitsOf(form)
             w == SubSeq(s, source + 1, arrived)
  <2>1. s \in Seq(S) /\ arrived <= Len(s) BY <1>1, <1>2 DEF n
  <2> HIDE DEF s, S
  <2>2. /\ w \in Seq(S) /\ Len(w) = arrived - source /\ w # <<>>
        /\ Begins(w, From(s, source + 1)) /\ From(s, source + 1) \in Seq(S)
        /\ arrived = Len(s) => w = From(s, source + 1)
      BY <1>2, <2>1, WindowBegins
  <2>3. Window = w BY DEF Window, s
  <2> HIDE DEF w
  <2> QED BY <2>2, <2>3 DEF n, S
<1>4. Found(form, Window, d)
  <2>1. Len(Window) < LebCap BY <1>1, <1>2, <1>3, SmallCaps
  <2> QED BY <1>1, <1>3, <2>1, DecodeFound DEF Here
<1>5. d.status # "truncated" \/ arrived = n => At(form, s, source + 1) = d
    BY <1>1, <1>3, DecodeStable DEF At, Here
<1> HIDE DEF d
<1>6. /\ d.used \in 1 .. arrived - source /\ d.status \in {"ok", "invalid", "truncated"}
      /\ d.status = "truncated" => d.used = arrived - source
      /\ d.status = "ok" => d.cp \in Points /\ SubSeq(Window, 1, d.used) = Encode(form, d.cp)
    BY <1>3, <1>4 DEF Found, Points
<1> DEFINE k == d.used
<1> HIDE DEF k
<1>7. k \in 1 .. arrived - source BY <1>6 DEF k
<1>8. k \in Nat /\ k > 0 /\ source + k \in 0 .. arrived /\ source + k <= arrived
      /\ (k = arrived - source => source + k = arrived)
      /\ source + 1 \in 1 .. n
    BY <1>1, <1>2, <1>7
<1>9. SubSeq(Window, 1, k) = SubSeq(s, source + 1, source + k)
  <2>1. source <= arrived BY <1>2
  <2> QED BY <1>1, <1>2, <1>8, <2>1, SubSubs DEF Window, n
<1> QED BY <1>5, <1>6, <1>8, <1>9 DEF k, d, n

LEMMA ReplacementHeld ==
  ASSUME NEW form \in Forms
  PROVE  Holds(form, Replacement)
<1> DEFINE m == Replacement
<1>1. m[1] = 255 /\ m[2] = 253 /\ Len(m) = 2 BY DEF Replacement
<1> HIDE DEF m
<1>2. Narrow(m) /\ ~InTopRow(m) /\ Len(m) <= 4 /\ Len(m) <= 8 BY <1>1 DEF Narrow, InTopRow
<1>3. NatOf(m) = 65533
  <2> DEFINE p == Pad(m, 4)
  <2>1. p[1] = 0 /\ p[2] = 0 /\ p[3] = 255 /\ p[4] = 253 BY <1>1 DEF Pad
  <2>2. NatOf(m) = 16777216 * p[1] + 65536 * p[2] + 256 * p[3] + p[4] BY SMT DEF NatOf
  <2> HIDE DEF p
  <2> QED BY <2>1, <2>2, SMT
<1>4. Valid("Base", m) BY <1>2, SMT DEF Valid
<1>5. Valid("Ext", m) BY <1>2, SMT DEF Valid
<1>6. Valid("Unicode", m) BY <1>2, <1>3, SMT DEF Valid
<1>7. CASE form \in {"SUTF8", "SUTF16", "SUTF32", "SUST16", "SUST32", "SUCS"} BY <1>4, <1>7 DEF Holds, m
<1>8. CASE form = "UTF8" BY <1>6, <1>8 DEF Holds, m
<1>9. CASE form \in {"ESUTF32", "ESUST32", "ESUTF64", "ESUST64", "ESUCS", "VSUTF", "ESUTF8", "SUCSBig"}
    BY <1>2, <1>5, <1>9 DEF Holds, m
<1> QED BY <1>7, <1>8, <1>9 DEF Forms, ByteForms, UnitForms

(* A number of any size finds its buffer empty. *)
Alone == OneByOne /\ pc = "loop" => target = <<>>

(* Both sides of the text. *)
Took ==
  /\ target = Encodings(job.to, SubSeq(text, mark + 1, Len(text)))
  /\ Strict => SubSeq(job.units, 1, source) = Encodings(job.from, text)

LEMMA TailMore ==
  ASSUME NEW S, NEW s \in Seq(S), NEW m \in S, NEW k \in 0 .. Len(s)
  PROVE  LET t == Append(s, m)
         IN  /\ t \in Seq(S) /\ Len(t) = Len(s) + 1
             /\ SubSeq(s, k + 1, Len(s)) \in Seq(S)
             /\ SubSeq(t, k + 1, Len(t)) = Append(SubSeq(s, k + 1, Len(s)), m)
<1> DEFINE n == Len(s)
           t == Append(s, m)
           x == SubSeq(s, k + 1, n)
           y == SubSeq(t, k + 1, n + 1)
           z == Append(x, m)
<1>1. n \in Nat /\ k \in Nat /\ k <= n OBVIOUS
<1>2. t \in Seq(S) /\ Len(t) = n + 1 /\ t[n + 1] = m /\ \A i \in 1 .. n : t[i] = s[i] OBVIOUS
<1> HIDE DEF t
<1>3. x \in Seq(S) /\ Len(x) = n - k /\ \A i \in 1 .. n - k : x[i] = s[k + i]
  <2>1. /\ n - (k + 1) + 1 = n - k /\ k + 1 \in Nat \ {0} /\ k + 1 <= n + 1 /\ n <= Len(s)
        /\ \A i \in 1 .. n - k : k + 1 + i - 1 = k + i
      BY <1>1
  <2> HIDE DEF n
  <2> QED BY <1>1, <2>1, SubIs
<1>4. y \in Seq(S) /\ Len(y) = n + 1 - k /\ \A i \in 1 .. n + 1 - k : y[i] = t[k + i]
  <2>1. /\ n + 1 - (k + 1) + 1 = n + 1 - k /\ k + 1 \in Nat \ {0} /\ k + 1 <= (n + 1) + 1
        /\ n + 1 <= Len(t) /\ n + 1 \in Nat
        /\ \A i \in 1 .. n + 1 - k : k + 1 + i - 1 = k + i
      BY <1>1, <1>2
  <2> HIDE DEF n
  <2> QED BY <1>1, <1>2, <2>1, SubIs
<1> HIDE DEF x, y, n
<1>5. z \in Seq(S) /\ Len(z) = n - k + 1 /\ z[n - k + 1] = m /\ \A i \in 1 .. n - k : z[i] = x[i]
    BY <1>3
<1> HIDE DEF z
<1>6. ASSUME NEW i \in 1 .. n + 1 - k PROVE y[i] = z[i]
  <2>1. CASE i = n + 1 - k
    <3>1. k + i = n + 1 /\ i = n - k + 1 BY <2>1, <1>1
    <3> QED BY <3>1, <1>2, <1>4, <1>5
  <2>2. CASE i # n + 1 - k
    <3>1. i \in 1 .. n - k /\ k + i \in 1 .. n BY <2>2, <1>1
    <3> QED BY <3>1, <1>2, <1>3, <1>4, <1>5
  <2> QED BY <2>1, <2>2
<1>7. y = [i \in 1 .. n + 1 - k |-> y[i]] BY <1>4, SeqIs
<1>8. z = [i \in 1 .. n + 1 - k |-> z[i]]
  <2>1. n - k + 1 = n + 1 - k BY <1>1
  <2> QED BY <2>1, <1>5, SeqIs
<1>9. y = z BY <1>6, <1>7, <1>8
<1> QED BY <1>2, <1>3, <1>9 DEF t, n, x, y, z

(* The effect of delivering a codepoint. *)
Delivers(m, used) ==
  /\ pc = "loop" /\ m \in Points /\ Holds(job.to, m) /\ HasRoom(m)
  /\ Write(m)
  /\ source' = source + used
  /\ UNCHANGED <<job, arrived, room, mark>>
  /\ pc' \in {"loop", "caller"} /\ (OneByOne => pc' = "caller")

(* A delivery fits the buffer, and adds to both sides of the text the      *)
(* encodings of one codepoint.                                             *)
LEMMA DeliversKeeps ==
  ASSUME Shaped, RoomKept, Alone, Took, source < arrived,
         NEW m, Delivers(m, Here.used), Strict => Here.status = "ok" /\ m = Here.cp
  PROVE  Shaped' /\ RoomKept' /\ Alone' /\ Took'
<1> DEFINE to == job.to
           x == Encode(to, m)
           tail == SubSeq(text, mark + 1, Len(text))
<1>1. /\ pc = "loop" /\ m \in Points /\ Holds(to, m) /\ HasRoom(m)
      /\ target' = target \o x /\ text' = Append(text, m)
      /\ source' = source + Here.used
      /\ job' = job /\ arrived' = arrived /\ room' = room /\ mark' = mark
      /\ pc' \in {"loop", "caller"} /\ (OneByOne => pc' = "caller")
    BY DEF Delivers, Write
<1>2. to \in Forms /\ job.from \in Forms /\ job \in Jobs BY JobIs DEF Shaped
<1>3. x \in Seq(Cells) /\ Length(to, m) \in Nat /\ (to # "SUCSBig" => Len(x) = Length(to, m))
    BY <1>1, <1>2, LengthAgrees DEF Points
<1>4. target' \in Seq(Cells) /\ Len(target') = Len(target) + Len(x)
    BY <1>1, <1>3, BothIs DEF Shaped
<1>5. /\ text' \in Seq(Points) /\ Len(text') = Len(text) + 1 /\ tail \in Seq(Points)
      /\ SubSeq(text', mark + 1, Len(text')) = Append(tail, m)
  <2>1. text \in Seq(Points) /\ mark \in 0 .. Len(text) BY DEF Shaped
  <2> HIDE DEF tail
  <2> QED BY ZenonT(60), <1>1, <2>1, TailMore DEF tail
<1>6. mark' \in 0 .. Len(text')
  <2>1. Len(text) \in Nat /\ mark \in 0 .. Len(text) BY SeqIs DEF Shaped
  <2> QED BY <2>1, <1>1, <1>5
<1>7. Shaped'
  <2>1. source' \in 0 .. arrived BY <1>1, HereIs
  <2> QED BY <1>1, <1>4, <1>5, <1>6, <2>1 DEF Shaped
<1>8. RoomKept'
  <2>1. Length(to, m) <= room - Len(target) /\ room \in Nat /\ Len(target) \in Nat
      BY <1>1, SeqIs DEF HasRoom, Shaped
  <2>2. CASE to = "SUCSBig"
    <3>1. target = <<>> BY <1>1, <2>2 DEF Alone, OneByOne
    <3>2. x = <<m>> /\ Length(to, m) = Limbs(m)
        BY <2>2, EncodeIs, LengthIs DEF UnitForms
    <3>3. target' = <<m>> BY <1>1, <3>1, <3>2
    <3>4. Len(target) = 0 BY <3>1
    <3>5. Limbs(m) <= room BY <2>1, <3>2, <3>4
    <3>6. Len(target') <= 1 /\ \A i \in DOMAIN target' : Limbs(target'[i]) <= room BY <3>3, <3>5
    <3> QED BY <1>1, <2>2, <3>6 DEF RoomKept
  <2>3. CASE to # "SUCSBig"
    <3>1. Len(target') <= room BY <1>3, <1>4, <2>1, <2>3
    <3> QED BY <1>1, <2>3, <3>1 DEF RoomKept
  <2> QED BY <2>2, <2>3
<1>9. Alone' BY <1>1 DEF Alone, OneByOne
<1>10. Took'
  <2>1. target' = Encodings(to, SubSeq(text', mark' + 1, Len(text')))
    <3>1. Encodings(to, Append(tail, m)) = Encodings(to, tail) \o x
        BY <1>1, <1>3, <1>5, EncodingsMore
    <3> QED BY <1>1, <1>5, <3>1 DEF Took
  <2>2. Strict => SubSeq(job.units, 1, source') = Encodings(job.from, text')
    <3> SUFFICES ASSUME Strict PROVE SubSeq(job.units, 1, source') = Encodings(job.from, text')
        OBVIOUS
    <3> DEFINE s == job.units
               y == SubSeq(s, source + 1, source + Here.used)
    <3>1. y = Encode(job.from, m) BY HereIs
    <3>2. s \in Seq(UnitsOf(job.from)) /\ Len(s) \in Nat BY <1>2, JobIs
    <3>3. source \in Nat /\ Here.used \in Nat /\ source + Here.used \in Nat
          /\ source <= source + Here.used /\ source + Here.used <= Len(s)
      <4> DEFINE k == Here.used
      <4>1. k \in Nat /\ source + k \in 0 .. arrived BY HereIs
      <4>2. arrived \in 0 .. Len(s) /\ source \in 0 .. arrived BY DEF Shaped
      <4> HIDE DEF k, s
      <4>3. source \in Nat /\ k \in Nat /\ source + k \in Nat /\ source <= source + k
            /\ source + k <= Len(s)
          BY <3>2, <4>1, <4>2
      <4> QED BY <4>3 DEF k
    <3>4. SubSeq(s, 1, source + Here.used) = SubSeq(s, 1, source) \o y
        BY <3>2, <3>3, Cut
    <3>5. y \in Seq(UnitsOf(job.from))
      <4>1. source + 1 \in Nat \ {0} /\ source + 1 <= source + Here.used + 1 BY <3>3
      <4> QED BY <3>2, <3>3, <4>1, SubIs
    <3>6. Encodings(job.from, text') = Encodings(job.from, text) \o Encode(job.from, m)
      <4>1. text \in Seq(Points) BY DEF Shaped
      <4> HIDE DEF y
      <4> QED BY <1>1, <3>1, <3>5, <4>1, EncodingsMore
    <3> QED BY <1>1, <3>1, <3>4, <3>6 DEF Took
  <2> QED BY <1>1, <2>1, <2>2 DEF Took, Strict
<1> QED BY <1>7, <1>8, <1>9, <1>10

(* Why a call stopped. *)
Stopped ==
  /\ Bridge => arrived = Len(job.units) \/ (pc = "caller" /\ result = "none")
  /\ pc = "caller" =>
       /\ result = "conversionOK" /\ ~OneByOne => source = arrived
       /\ result = "sourceExhausted" =>
            IF Strict THEN source < arrived /\ Here.status = "truncated" ELSE source = arrived
       /\ result = "sourceIllegal" =>
            source < arrived /\ ~Deliverable(Here) /\ ~Replaceable(Here)
              /\ (Here.status = "truncated" => Bridge)

(* What has been delivered, and what is ahead, make up the whole. *)
Foretold ==
  /\ Strict => (IsLegal(job.from, job.units) <=> LegalOf(job.from, job.units)[source + 1])
  /\ ~cut => Whole(job) = text \o RestOf(job)[source + 1]

(* One step of what is ahead.                                              *)
LEMMA AheadIs ==
  ASSUME Shaped, source < arrived, Here.status # "truncated" \/ arrived = Len(job.units)
  PROVE  LET next == source + Here.used + 1
         IN  /\ RestOf(job)[source + 1] = Delivered(job, Here, RestOf(job)[next])
             /\ RestOf(job)[next] \in Seq(Points)
             /\ LegalOf(job.from, job.units)[source + 1]
                  <=> Here.status = "ok" /\ LegalOf(job.from, job.units)[next]
<1> DEFINE n == Len(job.units)
           k == Here.used
<1>1. At(job.from, job.units, source + 1) = Here /\ source + 1 \in 1 .. n
      /\ k \in Nat /\ source + k \in 0 .. arrived
    BY HereIs
<1>2. job \in Jobs /\ arrived \in 0 .. n /\ source \in Nat BY DEF Shaped
<1>3. job.from \in Forms /\ job.units \in Seq(UnitsOf(job.from)) /\ n \in Nat /\ n < LebCap
    BY <1>2, JobIs
<1> HIDE DEF n, k
<1>4. (source + 1) + k = source + k + 1 /\ source + k + 1 \in 1 .. n + 1
    BY <1>1, <1>2, <1>3
<1>5. RestOf(job)[source + 1] = Delivered(job, Here, RestOf(job)[(source + 1) + k])
    BY <1>1, <1>2, RestIs DEF n, k
<1>6. RestOf(job)[source + k + 1] \in Seq(Points) BY <1>2, <1>4, RestIs DEF n
<1>7. LegalOf(job.from, job.units)[source + 1]
        <=> Here.status = "ok" /\ LegalOf(job.from, job.units)[(source + 1) + k]
    BY <1>1, <1>3, LegalIs DEF n, k
<1> QED BY <1>4, <1>5, <1>6, <1>7 DEF k

LEMMA NothingAhead ==
  ASSUME Shaped, source = Len(job.units)
  PROVE  RestOf(job)[source + 1] = <<>> /\ LegalOf(job.from, job.units)[source + 1]
<1>1. job \in Jobs BY DEF Shaped
<1> QED BY <1>1, JobIs, RestIs, LegalIs

Regrouped(a, m, r) == a \o (<<m>> \o r) = Append(a, m) \o r

LEMMA Regroup ==
  ASSUME NEW S, NEW a \in Seq(S), NEW m \in S, NEW r \in Seq(S)
  PROVE  Regrouped(a, m, r)
<1>1. <<m>> \in Seq(S) /\ Append(a, m) = a \o <<m>> OBVIOUS
<1> QED BY <1>1, ConcatAssociative DEF Regrouped

(* A delivery takes from what is ahead what it adds to the text. *)
LEMMA DeliversForetold ==
  ASSUME Shaped, Foretold, source < arrived, NEW m, Delivers(m, Here.used), cut' = cut,
         Here.status # "truncated",
         \A r : Delivered(job, Here, r) = <<m>> \o r,
         Strict => Here.status = "ok"
  PROVE  Foretold'
<1> DEFINE next == source + Here.used + 1
           rest == RestOf(job)
           legal == LegalOf(job.from, job.units)
<1>1. text' = Append(text, m) /\ source' = source + Here.used /\ job' = job /\ m \in Points
    BY DEF Delivers, Write
<1>2. rest[source + 1] = Delivered(job, Here, rest[next]) /\ rest[next] \in Seq(Points)
      /\ (legal[source + 1] <=> Here.status = "ok" /\ legal[next])
    BY AheadIs
<1>3. source' + 1 = next BY <1>1
<1>4. text \in Seq(Points) BY DEF Shaped
<1>5. text \o (<<m>> \o rest[next]) = text' \o rest[next]
  <2> HIDE DEF next, rest
  <2>1. m \in Points /\ text \in Seq(Points) /\ rest[next] \in Seq(Points)
      BY <1>1, <1>2, <1>4
  <2>2. Regrouped(text, m, rest[next]) BY <2>1, Regroup
  <2> QED BY <1>1, <2>2 DEF Regrouped
<1>6. ~cut' => Whole(job) = text' \o rest[source' + 1] BY <1>2, <1>3, <1>5 DEF Foretold
<1>7. Strict => (IsLegal(job.from, job.units) <=> legal[source' + 1]) BY <1>2, <1>3 DEF Foretold
<1> QED BY <1>1, <1>6, <1>7 DEF Foretold, Strict

(* The inductive invariant.                                                *)
Keeps == Shaped /\ RoomKept /\ Alone /\ Took /\ Stopped /\ Foretold

(* It holds at the beginning, and each step keeps it: one lemma for each   *)
(* action.                                                                 *)
LEMMA KeptInit == ASSUME ConvInit PROVE Keeps
<1>1. job \in Jobs /\ arrived = 0 /\ source = 0 /\ target = <<>> /\ room = 0
      /\ pc = "caller" /\ result = "none" /\ text = <<>> /\ mark = 0 /\ cut = FALSE
    BY DEF ConvInit
<1>2. /\ job.from \in Forms /\ job.units \in Seq(UnitsOf(job.from)) /\ Len(job.units) \in Nat
      /\ Len(job.units) < LebCap
    BY <1>1, JobIs
<1>3. Shaped BY <1>1, <1>2 DEF Shaped
<1>4. RoomKept BY <1>1 DEF RoomKept
<1>5. Alone BY <1>1 DEF Alone
<1>6. Took
  <2>1. SubSeq(<<>>, 0 + 1, Len(<<>>)) = <<>> OBVIOUS
  <2>2. SubSeq(job.units, 1, 0) = <<>> BY <1>2
  <2> QED BY <1>1, <2>1, <2>2, EncodingsEmpty DEF Took
<1>7. Stopped BY <1>1 DEF Stopped
<1>8. Foretold
  <2>1. 0 + 1 = 1 /\ 1 \in 1 .. Len(job.units) + 1 BY <1>2
  <2>2. RestOf(job)[1] \in Seq(Points) /\ Whole(job) = RestOf(job)[1] BY <1>1, <2>1, RestIs
  <2>3. <<>> \o RestOf(job)[1] = RestOf(job)[1] BY <2>2
  <2>4. IsLegal(job.from, job.units) <=> LegalOf(job.from, job.units)[1] BY <1>2, LegalIs
  <2> QED BY <1>1, <2>1, <2>2, <2>3, <2>4 DEF Foretold
<1> QED BY <1>3, <1>4, <1>5, <1>6, <1>7, <1>8 DEF Keeps

LEMMA DeliverableIs ==
  ASSUME Shaped, source < arrived, Deliverable(Here)
  PROVE  Here.status = "ok" /\ Here.cp \in Points /\ Holds(job.to, Here.cp)
         /\ \A r : Delivered(job, Here, r) = <<Here.cp>> \o r
BY HereIs DEF Deliverable, Delivered

LEMMA PutKeeps == ASSUME Keeps, Put(Here) PROVE Keeps'
<1>1. /\ pc = "loop" /\ source < arrived /\ Deliverable(Here)
      /\ pc' = (IF OneByOne THEN "caller" ELSE pc)
      /\ result' = (IF OneByOne THEN "conversionOK" ELSE result)
      /\ source' = source + Here.used
      /\ UNCHANGED <<job, arrived, room, mark, cut>>
    BY DEF Put, Looping, Return
<1>2. Shaped /\ RoomKept /\ Alone /\ Took /\ Stopped /\ Foretold BY DEF Keeps
<1>3. Here.status = "ok" /\ Here.cp \in Points /\ Holds(job.to, Here.cp)
      /\ \A r : Delivered(job, Here, r) = <<Here.cp>> \o r
    BY <1>1, <1>2, DeliverableIs
<1>4. Delivers(Here.cp, Here.used) BY <1>1, <1>3 DEF Put, Delivers
<1>5. Shaped' /\ RoomKept' /\ Alone' /\ Took' BY <1>1, <1>2, <1>3, <1>4, DeliversKeeps
<1>6. Foretold' BY <1>1, <1>2, <1>3, <1>4, DeliversForetold
<1>7. Stopped' BY <1>1, <1>2 DEF Stopped, OneByOne, Bridge
<1> QED BY <1>5, <1>6, <1>7 DEF Keeps

LEMMA ReplaceableIs ==
  ASSUME Shaped, source < arrived, Replaceable(Here)
  PROVE  /\ ~Strict /\ ~Deliverable(Here) /\ (Bridge => Here.status = "ok")
         /\ Here.status # "truncated" => \A r : Delivered(job, Here, r) = <<Replacement>> \o r
         /\ Here.status = "truncated" => \A r : Delivered(job, Here, r) = <<Replacement>>
         /\ Replacement \in Points /\ Holds(job.to, Replacement)
<1>1. ~Strict /\ ~Deliverable(Here) /\ (Bridge => Here.status = "ok") BY DEF Replaceable
<1>2. job.to \in Forms BY JobIs DEF Shaped
<1>3. Replacement \in Points /\ Holds(job.to, Replacement) BY <1>2, ReplacementIs, ReplacementHeld
<1>4. ASSUME NEW r
      PROVE  Delivered(job, Here, r) = IF Here.status = "truncated" THEN <<Replacement>>
                                       ELSE <<Replacement>> \o r
    BY <1>1 DEF Delivered, Deliverable, Strict, Bridge, Bridged
<1> QED BY <1>1, <1>3, <1>4

LEMMA ReplaceKeeps == ASSUME Keeps, Replace(Here) PROVE Keeps'
<1>1. /\ pc = "loop" /\ source < arrived /\ Here.status # "truncated" /\ Replaceable(Here)
      /\ HasRoom(Replacement)
      /\ pc' = (IF OneByOne THEN "caller" ELSE pc)
      /\ result' = (IF OneByOne THEN "conversionOK" ELSE result)
      /\ source' = source + Here.used
      /\ UNCHANGED <<job, arrived, room, mark, cut>>
    BY DEF Replace, Looping, Return, Malformed
<1>2. Shaped /\ RoomKept /\ Alone /\ Took /\ Stopped /\ Foretold BY DEF Keeps
<1>3. ~Strict /\ (\A r : Delivered(job, Here, r) = <<Replacement>> \o r)
      /\ Replacement \in Points /\ Holds(job.to, Replacement)
    BY <1>1, <1>2, ReplaceableIs
<1>4. Delivers(Replacement, Here.used) BY <1>1, <1>3 DEF Replace, Delivers
<1>5. Shaped' /\ RoomKept' /\ Alone' /\ Took' BY <1>1, <1>2, <1>3, <1>4, DeliversKeeps
<1>6. Foretold' BY <1>1, <1>2, <1>3, <1>4, DeliversForetold
<1>7. Stopped' BY <1>1, <1>2 DEF Stopped, OneByOne, Bridge
<1> QED BY <1>5, <1>6, <1>7 DEF Keeps

LEMMA ReplaceCutKeeps == ASSUME Keeps, ReplaceCut(Here) PROVE Keeps'
<1>1. /\ pc = "loop" /\ source < arrived /\ Here.status = "truncated" /\ Replaceable(Here)
      /\ HasRoom(Replacement) /\ Write(Replacement)
      /\ pc' = "caller" /\ result' = "sourceExhausted"
      /\ source' = source + Here.used
      /\ cut' = (cut \/ arrived < Len(job.units))
      /\ UNCHANGED <<job, arrived, room, mark>>
    BY DEF ReplaceCut, Looping, Return
<1>2. Shaped /\ RoomKept /\ Alone /\ Took /\ Stopped /\ Foretold BY DEF Keeps
<1>3. ~Strict /\ ~Bridge /\ (\A r : Delivered(job, Here, r) = <<Replacement>>)
      /\ Replacement \in Points /\ Holds(job.to, Replacement)
    BY <1>1, <1>2, ReplaceableIs
<1>4. Delivers(Replacement, Here.used) BY <1>1, <1>3 DEF Delivers
<1>5. Shaped' /\ RoomKept' /\ Alone' /\ Took' BY <1>1, <1>2, <1>3, <1>4, DeliversKeeps
<1>6. source' = arrived BY <1>1, <1>2, HereIs
<1>7. Foretold'
  <2>1. ASSUME ~cut' PROVE Whole(job) = text' \o RestOf(job)[source' + 1]
    <3>1. ~cut /\ arrived = Len(job.units)
      <4>1. arrived \in 0 .. Len(job.units) /\ Len(job.units) \in Nat BY <1>2, JobIs DEF Shaped
      <4>2. ~cut /\ ~(arrived < Len(job.units)) BY <1>1, <2>1
      <4>3. arrived = Len(job.units) BY <4>1, <4>2
      <4> QED BY <4>2, <4>3
    <3>2. RestOf(job)[source + 1] = <<Replacement>> BY <1>1, <1>2, <1>3, <3>1, AheadIs
    <3>3. RestOf(job)[source' + 1] = <<>>
      <4>1. job' = job /\ source' = Len(job'.units) BY <1>1, <1>6, <3>1
      <4>2. RestOf(job)[Len(job.units) + 1] = <<>> BY <1>2, RestIs DEF Shaped
      <4> QED BY <4>1, <4>2
    <3>4. text' = Append(text, Replacement) /\ text \in Seq(Points)
        BY <1>1, <1>2 DEF Write, Shaped
    <3>5. text \o <<Replacement>> = text' \o <<>> BY <1>3, <3>4
    <3> QED BY <1>2, <3>1, <3>2, <3>3, <3>5 DEF Foretold
  <2> QED BY <1>1, <1>3, <2>1 DEF Foretold, Strict
<1>8. Stopped' BY <1>1, <1>3, <1>6 DEF Stopped, Bridge, Strict
<1> QED BY <1>5, <1>7, <1>8 DEF Keeps

(* A call that stops changes nothing but its result. *)
Stops == UNCHANGED <<job, arrived, source, target, room, text, mark, cut>> /\ pc' = "caller"

LEMMA StopsKeeps ==
  ASSUME Keeps, Stops
  PROVE  /\ Shaped' /\ RoomKept' /\ Alone' /\ Took' /\ Foretold'
         /\ Here' = Here /\ (Strict' <=> Strict) /\ (OneByOne' <=> OneByOne) /\ (Bridge' <=> Bridge)
         /\ (Deliverable(Here))' <=> Deliverable(Here)
         /\ (Replaceable(Here))' <=> Replaceable(Here)
<1>1. UNCHANGED <<job, arrived, source, target, room, text, mark, cut>> /\ pc' = "caller" BY DEF Stops
<1>2. Here' = Here BY <1>1 DEF Here, Window
<1>3. (Strict' <=> Strict) /\ (OneByOne' <=> OneByOne) /\ (Bridge' <=> Bridge)
    BY <1>1 DEF Strict, OneByOne, Bridge
<1>4. (Deliverable(Here))' <=> Deliverable(Here) BY <1>1, <1>2 DEF Deliverable
<1>5. (Replaceable(Here))' <=> Replaceable(Here)
    BY <1>1, <1>2, <1>3, <1>4 DEF Replaceable
<1>6. Shaped' BY <1>1 DEF Keeps, Shaped
<1>7. RoomKept' BY <1>1 DEF Keeps, RoomKept
<1>8. Alone' BY <1>1 DEF Keeps, Alone
<1>9. Took' BY <1>1, <1>3 DEF Keeps, Took
<1>10. Foretold' BY <1>1, <1>3 DEF Keeps, Foretold
<1> QED BY <1>2, <1>3, <1>4, <1>5, <1>6, <1>7, <1>8, <1>9, <1>10

(* Nothing has been converted: as at the beginning, and when a bridge's    *)
(* caller starts again.                                                    *)
LEMMA FreshTook ==
  ASSUME NEW j \in Jobs, NEW t, t = <<>>
  PROVE  /\ <<>> = Encodings(j.to, SubSeq(t, 0 + 1, Len(t)))
         /\ SubSeq(j.units, 1, 0) = Encodings(j.from, t)
<1>1. SubSeq(<<>>, 0 + 1, Len(<<>>)) = <<>> OBVIOUS
<1>2. SubSeq(j.units, 1, 0) = <<>> BY JobIs
<1> QED BY <1>1, <1>2, EncodingsEmpty

LEMMA FreshForetold ==
  ASSUME NEW j \in Jobs
  PROVE  /\ IsLegal(j.from, j.units) <=> LegalOf(j.from, j.units)[0 + 1]
         /\ Whole(j) = <<>> \o RestOf(j)[0 + 1]
<1>1. /\ j.from \in Forms /\ j.units \in Seq(UnitsOf(j.from)) /\ Len(j.units) \in Nat
      /\ Len(j.units) < LebCap
    BY JobIs
<1>2. 0 + 1 = 1 /\ 1 \in 1 .. Len(j.units) + 1 BY <1>1
<1>3. RestOf(j)[1] \in Seq(Points) /\ Whole(j) = RestOf(j)[1] BY <1>2, RestIs
<1>4. <<>> \o RestOf(j)[1] = RestOf(j)[1] BY <1>3
<1>5. IsLegal(j.from, j.units) <=> LegalOf(j.from, j.units)[1] BY <1>1, LegalIs
<1> QED BY <1>2, <1>3, <1>4, <1>5

LEMMA StopCutKeeps == ASSUME Keeps, StopCut(Here) PROVE Keeps'
<1>1. /\ source < arrived /\ Here.status = "truncated" /\ ~Replaceable(Here) /\ ~Bridge
      /\ result' = "sourceExhausted" /\ Stops
    BY DEF StopCut, Looping, Return, Unwritten, Stops
<1>2. Strict BY <1>1 DEF Replaceable, Deliverable
<1>3. source' = source /\ arrived' = arrived BY <1>1 DEF Stops
<1>4. /\ Shaped' /\ RoomKept' /\ Alone' /\ Took' /\ Foretold'
      /\ Here' = Here /\ (Strict' <=> Strict) /\ (Bridge' <=> Bridge)
    BY <1>1, StopsKeeps
<1>5. Stopped' BY <1>1, <1>2, <1>3, <1>4 DEF Stopped
<1> QED BY <1>4, <1>5 DEF Keeps

LEMMA StopIllegalKeeps == ASSUME Keeps, StopIllegal(Here) PROVE Keeps'
<1>1. /\ source < arrived /\ ~Deliverable(Here) /\ ~Replaceable(Here)
      /\ (Here.status = "truncated" => Bridge) /\ pc = "loop"
      /\ result' = "sourceIllegal" /\ Stops
    BY DEF StopIllegal, Looping, Return, Unwritten, Stops
<1>2. source' = source /\ arrived' = arrived /\ job' = job BY <1>1 DEF Stops
<1>3. /\ Shaped' /\ RoomKept' /\ Alone' /\ Took' /\ Foretold'
      /\ Here' = Here /\ (Strict' <=> Strict) /\ (Bridge' <=> Bridge)
      /\ ((Deliverable(Here))' <=> Deliverable(Here))
      /\ ((Replaceable(Here))' <=> Replaceable(Here))
    BY <1>1, StopsKeeps
<1>4. Bridge => arrived = Len(job.units) BY <1>1 DEF Keeps, Stopped
<1>5. Stopped' BY <1>1, <1>2, <1>3, <1>4 DEF Stopped
<1> QED BY <1>3, <1>5 DEF Keeps

LEMMA StopFullKeeps == ASSUME Keeps, StopFull(Here) PROVE Keeps'
<1>1. result' = "targetExhausted" /\ Stops /\ pc = "loop"
    BY DEF StopFull, Looping, Return, Unwritten, Stops
<1>2. arrived' = arrived /\ job' = job BY <1>1 DEF Stops
<1>3. Shaped' /\ RoomKept' /\ Alone' /\ Took' /\ Foretold' /\ (Bridge' <=> Bridge)
    BY <1>1, StopsKeeps
<1>4. Bridge => arrived = Len(job.units) BY <1>1 DEF Keeps, Stopped
<1>5. Stopped' BY <1>1, <1>2, <1>3, <1>4 DEF Stopped
<1> QED BY <1>3, <1>5 DEF Keeps

LEMMA FinishKeeps == ASSUME Keeps, Finish PROVE Keeps'
<1>1. result' = "conversionOK" /\ Stops /\ pc = "loop" /\ source = arrived
    BY DEF Finish, Return, Unwritten, Stops
<1>2. arrived' = arrived /\ job' = job /\ source' = source BY <1>1 DEF Stops
<1>3. Shaped' /\ RoomKept' /\ Alone' /\ Took' /\ Foretold' /\ (Bridge' <=> Bridge)
    BY <1>1, StopsKeeps
<1>4. Bridge => arrived = Len(job.units) BY <1>1 DEF Keeps, Stopped
<1>5. Stopped' BY <1>1, <1>2, <1>3, <1>4 DEF Stopped
<1> QED BY <1>3, <1>5 DEF Keeps

(* The caller goes on from where the converter stopped, or starts a bridge *)
(* again.                                                                  *)
LEMMA CallKeeps ==
  ASSUME Keeps, NEW end \in 0 .. Len(job.units), NEW size \in Rooms, Call(end, size)
  PROVE  Keeps'
<1>1. /\ end >= arrived /\ (Bridge => end = Len(job.units))
      /\ arrived' = end /\ room' = size /\ target' = <<>> /\ pc' = "loop"
      /\ job' = job /\ cut' = cut
      /\ Bridge => source' = 0 /\ text' = <<>> /\ mark' = 0
      /\ ~Bridge => mark' = Len(text) /\ source' = source /\ text' = text
    BY DEF Call
<1>2. Shaped /\ Took /\ Foretold BY DEF Keeps
<1>3. job \in Jobs /\ Len(job.units) \in Nat BY <1>2, JobIs DEF Shaped
<1>4. size \in Nat BY ConverterAssumption
<1>5. text \in Seq(Points) /\ arrived \in 0 .. Len(job.units) /\ source \in 0 .. arrived
    BY <1>2 DEF Shaped
<1>6. (Strict' <=> Strict) /\ (Bridge' <=> Bridge) /\ (OneByOne' <=> OneByOne)
    BY <1>1 DEF Strict, Bridge, OneByOne
<1>7. target' \in Seq(Cells) /\ Len(target') = 0 /\ DOMAIN target' = {} BY <1>1
<1>8. Shaped'
  <2>1. arrived' \in 0 .. Len(job'.units) BY <1>1
  <2>2. source' \in 0 .. arrived'
    <3>1. CASE Bridge BY <3>1, <1>1, <1>3
    <3>2. CASE ~Bridge BY <3>2, <1>1, <1>3, <1>5
    <3> QED BY <3>1, <3>2
  <2>3. text' \in Seq(Points) /\ mark' \in 0 .. Len(text')
    <3>1. CASE Bridge BY <3>1, <1>1
    <3>2. CASE ~Bridge
      <4>1. Len(text) \in Nat BY <1>5, SeqIs
      <4> QED BY <3>2, <4>1, <1>1, <1>5
    <3> QED BY <3>1, <3>2
  <2> QED BY <1>1, <1>3, <1>4, <1>7, <2>1, <2>2, <2>3 DEF Shaped
<1>9. RoomKept'
  <2>1. Len(target') <= room' /\ Len(target') <= 1 BY <1>1, <1>4, <1>7
  <2> QED BY <1>7, <2>1 DEF RoomKept
<1>10. Alone' BY <1>1 DEF Alone
<1>11. Took'
  <2>1. CASE Bridge BY <2>1, <1>1, <1>3, <1>6, FreshTook DEF Took
  <2>2. CASE ~Bridge
    <3>1. SubSeq(text, Len(text) + 1, Len(text)) = <<>> BY <1>5
    <3>2. target' = Encodings(job'.to, SubSeq(text', mark' + 1, Len(text')))
        BY <2>2, <3>1, <1>1, EncodingsEmpty
    <3>3. Strict' => SubSeq(job'.units, 1, source') = Encodings(job'.from, text')
        BY <2>2, <1>1, <1>2, <1>6 DEF Took
    <3> QED BY <3>2, <3>3 DEF Took
  <2> QED BY <2>1, <2>2
<1>12. Stopped' BY <1>1, <1>6 DEF Stopped
<1>13. Foretold'
  <2>1. CASE Bridge BY <2>1, <1>1, <1>3, <1>6, FreshForetold DEF Foretold
  <2>2. CASE ~Bridge BY <2>2, <1>1, <1>2, <1>6 DEF Foretold
  <2> QED BY <2>1, <2>2
<1> QED BY <1>8, <1>9, <1>10, <1>11, <1>12, <1>13 DEF Keeps

LEMMA StutterKeeps == ASSUME Keeps, UNCHANGED convVars PROVE Keeps'
<1>1. UNCHANGED <<job, arrived, source, target, room, pc, result, text, mark, cut>> BY DEF convVars
<1>2. Here' = Here /\ (Strict' <=> Strict) /\ (OneByOne' <=> OneByOne) /\ (Bridge' <=> Bridge)
    BY <1>1 DEF Here, Window, Strict, OneByOne, Bridge
<1>3. ((Deliverable(Here))' <=> Deliverable(Here)) /\ ((Replaceable(Here))' <=> Replaceable(Here))
    BY <1>1, <1>2 DEF Deliverable, Replaceable
<1>4. Shaped' BY <1>1 DEF Keeps, Shaped
<1>5. RoomKept' BY <1>1 DEF Keeps, RoomKept
<1>6. Alone' BY <1>1, <1>2 DEF Keeps, Alone
<1>7. Took' BY <1>1, <1>2 DEF Keeps, Took
<1>8. Stopped' BY <1>1, <1>2, <1>3 DEF Keeps, Stopped
<1>9. Foretold' BY <1>1, <1>2 DEF Keeps, Foretold
<1> QED BY <1>4, <1>5, <1>6, <1>7, <1>8, <1>9 DEF Keeps

LEMMA KeptNext == ASSUME Keeps, [ConvNext]_convVars PROVE Keeps'
<1>1. CASE Convert
  <2>1. CASE Finish BY <2>1, FinishKeeps
  <2>2. CASE Put(Here) BY <2>2, PutKeeps
  <2>3. CASE Replace(Here) BY <2>3, ReplaceKeeps
  <2>4. CASE ReplaceCut(Here) BY <2>4, ReplaceCutKeeps
  <2>5. CASE StopCut(Here) BY <2>5, StopCutKeeps
  <2>6. CASE StopIllegal(Here) BY <2>6, StopIllegalKeeps
  <2>7. CASE StopFull(Here) BY <2>7, StopFullKeeps
  <2>8. \/ Finish \/ Put(Here) \/ Replace(Here) \/ ReplaceCut(Here) \/ StopCut(Here)
        \/ StopIllegal(Here) \/ StopFull(Here)
      BY <1>1 DEF Convert, Here
  <2> QED BY <2>1, <2>2, <2>3, <2>4, <2>5, <2>6, <2>7, <2>8
<1>2. CASE \E end \in 0 .. Len(job.units), size \in Rooms : Call(end, size) BY <1>2, CallKeeps
<1>3. CASE UNCHANGED convVars BY <1>3, StutterKeeps
<1> QED BY <1>1, <1>2, <1>3 DEF ConvNext

--------------------------------------------------------------------------------
(* Where an ended conversion stands. *)
LEMMA EndedIs ==
  ASSUME Keeps, Ended
  PROVE  \/ /\ result = "sourceIllegal" /\ source < arrived
            /\ ~Deliverable(Here) /\ ~Replaceable(Here)
            /\ Here.status # "truncated" \/ arrived = Len(job.units)
         \/ /\ result = "conversionOK" /\ source = Len(job.units)
         \/ /\ result = "sourceExhausted" /\ Strict
            /\ source < arrived /\ arrived = Len(job.units) /\ Here.status = "truncated"
         \/ /\ result = "sourceExhausted" /\ ~Strict /\ source = Len(job.units)
<1>1. pc = "caller" /\ Stopped BY DEF Ended, Keeps
<1>2. CASE result = "sourceIllegal" BY <1>1, <1>2 DEF Stopped
<1>3. CASE arrived = Len(job.units) /\ result = "conversionOK" BY <1>1, <1>3 DEF Stopped, Ended
<1>4. CASE arrived = Len(job.units) /\ result = "sourceExhausted" BY <1>1, <1>4 DEF Stopped
<1> QED BY <1>2, <1>3, <1>4 DEF Ended

(* Nothing is ahead of a conversion that has ended.                        *)
LEMMA NothingLeft ==
  ASSUME Keeps, Ended
  PROVE  RestOf(job)[source + 1] = <<>>
<1>1. Shaped BY DEF Keeps
<1>2. CASE source = Len(job.units) BY <1>1, <1>2, NothingAhead
<1>3. ASSUME source < arrived, Here.status # "truncated" \/ arrived = Len(job.units),
             ~Deliverable(Here), Strict \/ ~Replaceable(Here)
      PROVE  RestOf(job)[source + 1] = <<>>
  <2> DEFINE r == RestOf(job)[source + Here.used + 1]
  <2>1. RestOf(job)[source + 1] = Delivered(job, Here, r) BY <1>1, <1>3, AheadIs
  <2> HIDE DEF r
  <2>2. Delivered(job, Here, r) = <<>>
      BY <1>3 DEF Delivered, Deliverable, Replaceable, Strict, Bridge, Bridged
  <2> QED BY <2>1, <2>2
<1>4. Here.status = "truncated" => ~Deliverable(Here) BY DEF Deliverable
<1> QED BY <1>2, <1>3, <1>4, EndedIs

(* From the invariant to what a run checks.                                *)
LEMMA KeepsLegal == ASSUME Keeps PROVE LegalAgrees
<1> SUFFICES ASSUME Ended, Strict
             PROVE  /\ result = "conversionOK" => IsLegal(job.from, job.units)
                    /\ IsLegal(job.from, job.units) /\ result # "conversionOK"
                         => Here.status = "ok" /\ ~Holds(job.to, Here.cp)
    BY DEF LegalAgrees, Here
<1> DEFINE ahead == LegalOf(job.from, job.units)[source + 1]
<1>1. Shaped /\ (IsLegal(job.from, job.units) <=> ahead) BY DEF Keeps, Foretold
<1>2. CASE result = "sourceIllegal"
  <2>1. source < arrived /\ ~Deliverable(Here)
        /\ (Here.status # "truncated" \/ arrived = Len(job.units))
      BY <1>2, EndedIs
  <2>2. ahead => Here.status = "ok" BY <1>1, <2>1, AheadIs
  <2> QED BY <1>1, <1>2, <2>1, <2>2 DEF Deliverable
<1>3. CASE result = "conversionOK"
  <2>1. source = Len(job.units) BY <1>3, EndedIs
  <2>2. ahead BY <1>1, <2>1, NothingAhead
  <2> QED BY <1>1, <1>3, <2>2
<1>4. CASE result = "sourceExhausted"
  <2>1. source < arrived /\ arrived = Len(job.units) /\ Here.status = "truncated"
      BY <1>4, EndedIs
  <2>2. ahead => Here.status = "ok" BY <1>1, <2>1, AheadIs
  <2> QED BY <1>1, <1>4, <2>1, <2>2
<1> QED BY <1>2, <1>3, <1>4, EndedIs

LEMMA KeepsFaithful == ASSUME Keeps PROVE Faithful
BY KeepsLegal DEF Keeps, Took, Faithful

LEMMA PrefixIs ==
  ASSUME NEW S, NEW s \in Seq(S), NEW r \in Seq(S)
  PROVE  IsPrefix(s, s \o r)
<1> DEFINE n == Len(s)
           t == s \o r
<1>1. n \in Nat /\ Len(r) \in Nat /\ Len(t) = n + Len(r) /\ t \in Seq(S)
      /\ \A i \in 1 .. n : t[i] = s[i]
    BY BothIs
<1> QED BY <1>1 DEF IsPrefix

LEMMA KeepsSeamless == ASSUME Keeps PROVE Seamless
<1> SUFFICES ASSUME pc = "caller", ~cut
             PROVE  IsPrefix(text, Whole(job)) /\ (Ended => text = Whole(job))
    BY DEF Seamless
<1> DEFINE r == RestOf(job)[source + 1]
<1>1. Shaped /\ Whole(job) = text \o r BY DEF Keeps, Foretold
<1>2. text \in Seq(Points) BY <1>1 DEF Shaped
<1>3. r \in Seq(Points)
  <2>1. job \in Jobs /\ arrived \in 0 .. Len(job.units) /\ source \in 0 .. arrived
        /\ Len(job.units) \in Nat
      BY <1>1, JobIs DEF Shaped
  <2>2. source + 1 \in 1 .. Len(job.units) + 1 BY <2>1
  <2> QED BY <2>1, <2>2, RestIs
<1>4. IsPrefix(text, Whole(job)) BY <1>1, <1>2, <1>3, PrefixIs
<1>5. Ended => text = Whole(job)
  <2>1. Ended => r = <<>> BY NothingLeft
  <2>2. text \o <<>> = text BY <1>2
  <2> QED BY <1>1, <2>1, <2>2
<1> QED BY <1>4, <1>5

(* Shaped, and what the loop keeps, in every state. *)
THEOREM KeptAlways == ConvSpec => []Keeps
<1>1. ConvInit => Keeps BY KeptInit
<1>2. Keeps /\ [ConvNext]_convVars => Keeps' BY KeptNext
<1> QED BY <1>1, <1>2, PTL DEF ConvSpec

(* No call writes behind its buffer, replacements included, for any source *)
(* and any buffers: the length an encoding is asked for beforehand is the  *)
(* length it takes.                                                        *)
THEOREM RoomIsKept == ConvSpec => []RoomKept
<1>1. Keeps => RoomKept BY DEF Keeps
<1> QED BY <1>1, KeptAlways, PTL

(* The buffer holds the encodings of the codepoints delivered, a strict    *)
(* conversion has consumed just theirs, and it succeeds on legal sources   *)
(* only and on all of them that the target can hold.                       *)
THEOREM ConversionIsFaithful == ConvSpec => []Faithful
<1>1. Keeps => Faithful BY KeepsFaithful
<1> QED BY <1>1, KeptAlways, PTL

(* However source and buffers are cut into pieces, the text delivered is   *)
(* the one an uninterrupted conversion delivers.                           *)
THEOREM ConversionIsSeamless == ConvSpec => []Seamless
<1>1. Keeps => Seamless BY KeepsSeamless
<1> QED BY <1>1, KeptAlways, PTL
================================================================================
