-------------------------- MODULE VolumeIndexProofs -------------------------
(***************************************************************************)
(* Theorems about the file volume index, for any paths, hashes, depth of   *)
(* the trie and sizes of its pools.                                        *)
(***************************************************************************)
EXTENDS VolumeIndex, FiniteSetTheorems, WellFoundedInduction, TLAPS

-----------------------------------------------------------------------------
(* Steps.                                                                  *)

\* A set of natural numbers that is not empty has a least element.
LEMMA LeastExists ==
    ASSUME NEW I \in SUBSET Nat, I # {}
    PROVE  \E x \in I : \A y \in I : x <= y
<1>1. PICK x \in I : \A y \in I : ~(<<y, x>> \in OpToRel(<, Nat))
    BY NatLessThanWellFounded, WFMin
<1>2. \A y \in I : x <= y
  <2> SUFFICES ASSUME NEW y \in I PROVE ~(y < x)
      OBVIOUS
  <2>1. OpToRel(<, Nat) = {s \in Nat \X Nat : s[1] < s[2]}
      BY Zenon DEF OpToRel
  <2>2. y < x => <<y, x>> \in {s \in Nat \X Nat : s[1] < s[2]}
      OBVIOUS
  <2> QED BY <1>1, <2>1, <2>2
<1> QED BY <1>2

\* What holds of 0, and of each number if it holds of the one before.
LEMMA Upwards ==
    ASSUME NEW n \in Nat, NEW G \in SUBSET Nat, 0 \in G,
           \A i \in 1 .. n : i - 1 \in G => i \in G
    PROVE  \A i \in 0 .. n : i \in G
<1> DEFINE bad == {i \in 0 .. n : i \notin G}
<1> SUFFICES ASSUME bad # {} PROVE FALSE
    OBVIOUS
<1>1. bad \in SUBSET Nat OBVIOUS
<1>2. PICK m \in bad : \A y \in bad : m <= y BY <1>1, LeastExists
<1>3. m \in 0 .. n /\ m \notin G BY <1>2
<1>4. m # 0 BY <1>3
<1>5. m \in 1 .. n /\ m - 1 \in 0 .. n /\ ~(m <= m - 1) BY <1>3, <1>4
<1>6. m - 1 \in G BY <1>2, <1>5
<1> QED BY <1>3, <1>5, <1>6

\* A function that is defined step by step within a set exists.
StepRuns(f, n, t, step) ==
    f[0] = t /\ \A i \in 1 .. n : f[i] = step[<<i, f[i - 1]>>]

LEMMA StepsExist ==
    ASSUME NEW T, NEW n \in Nat, NEW t \in T, NEW step \in [(1 .. n) \X T -> T]
    PROVE  \E f \in [0 .. n -> T] : StepRuns(f, n, t, step)
<1> DEFINE Runs(m, f) == StepRuns(f, m, t, step)
           bad == {m \in 0 .. n : ~ \E f \in [0 .. m -> T] : Runs(m, f)}
<1> SUFFICES ASSUME bad # {} PROVE FALSE
  <2>1. n \in 0 .. n OBVIOUS
  <2> QED BY <2>1
<1> USE DEF StepRuns
<1>1. bad \in SUBSET Nat OBVIOUS
<1>2. PICK m \in bad : \A y \in bad : m <= y BY <1>1, LeastExists
<1>3. m \in 0 .. n BY <1>2
<1>4. m # 0
  <2>1. Runs(0, [i \in 0 .. 0 |-> t]) OBVIOUS
  <2>2. [i \in 0 .. 0 |-> t] \in [0 .. 0 -> T] OBVIOUS
  <2> HIDE DEF Runs
  <2> QED BY <1>2, <2>1, <2>2
<1>5. m - 1 \in 0 .. n /\ ~(m <= m - 1) BY <1>3, <1>4
<1>6. PICK f \in [0 .. m - 1 -> T] : Runs(m - 1, f) BY <1>2, <1>5
<1> DEFINE g == [i \in 0 .. m |-> IF i = m THEN step[<<m, f[m - 1]>>] ELSE f[i]]
<1>7. g \in [0 .. m -> T]
  <2>1. f[m - 1] \in T BY <1>3, <1>4
  <2>2. <<m, f[m - 1]>> \in (1 .. n) \X T BY <2>1, <1>3, <1>4
  <2>3. step[<<m, f[m - 1]>>] \in T BY <2>2
  <2>4. \A i \in 0 .. m : i # m => i \in 0 .. m - 1 BY <1>3
  <2> QED BY <2>3, <2>4
<1>8. Runs(m, g)
  <2>1. g[0] = t BY <1>3, <1>4, <1>6
  <2>2. ASSUME NEW i \in 1 .. m PROVE g[i] = step[<<i, g[i - 1]>>]
    <3>1. i - 1 \in 0 .. m /\ i - 1 # m /\ g[i - 1] = f[i - 1] BY <1>3
    <3>2. CASE i = m BY <3>1, <3>2
    <3>3. CASE i # m
      <4>1. i \in 1 .. m - 1 BY <3>3, <1>3
      <4> QED BY <4>1, <3>1, <3>3, <1>6
    <3> QED BY <3>2, <3>3
  <2> QED BY <2>1, <2>2
<1> HIDE DEF g, Runs
<1> QED BY <1>2, <1>7, <1>8

-----------------------------------------------------------------------------
(* Trees and paths.                                                        *)

Places == NodeIds \cup {NoNode}
Trees == [nodes : [NodeIds -> Node], free : Seq(NodeIds), root : Places]

Free(t) == Range(t.free)

LEMMA TreeFields ==
    ASSUME NEW t \in Trees
    PROVE  /\ t.nodes \in [NodeIds -> Node] /\ t.free \in Seq(NodeIds)
           /\ t.root \in Places
           /\ \A n \in NodeIds : /\ t.nodes[n] \in Node
                                /\ t.nodes[n].kids \in [Nibbles -> Places]
                                /\ t.nodes[n].entry \in EntryIds \cup {NoEntry}
           /\ Free(t) \in SUBSET NodeIds
           /\ Free(t) = {t.free[i] : i \in 1 .. Len(t.free)}
           /\ Len(t.free) \in Nat /\ DOMAIN t.free = 1 .. Len(t.free)
           /\ t.free \in [1 .. Len(t.free) -> NodeIds]
BY DEF Trees, Node, Places, Free, Range

LEMMA EmptyIs ==
    /\ EmptyNode \in Node /\ EmptyNode.entry = NoEntry
    /\ \A m \in Nibbles : EmptyNode.kids[m] = NoNode
    /\ \A d \in Node : d.entry = NoEntry /\ (\A m \in Nibbles : d.kids[m] = NoNode)
                         => d = EmptyNode
<1>1. EmptyNode \in Node /\ EmptyNode.entry = NoEntry
      /\ \A m \in Nibbles : EmptyNode.kids[m] = NoNode
    BY DEF EmptyNode, Node
<1>2. ASSUME NEW d \in Node, d.entry = NoEntry, \A m \in Nibbles : d.kids[m] = NoNode
      PROVE  d = EmptyNode
  <2>1. d.kids = [m \in Nibbles |-> NoNode] BY <1>2 DEF Node
  <2>2. d = [kids |-> d.kids, entry |-> d.entry] BY DEF Node
  <2> QED BY <2>1, <2>2, <1>2 DEF EmptyNode
<1> QED BY <1>1, <1>2

LEMMA KidIs ==
    ASSUME NEW t \in Trees, NEW n \in Places, NEW m \in Nibbles
    PROVE  /\ Child(t, n, m) \in Places
           /\ n = NoNode => Child(t, n, m) = NoNode
           /\ n # NoNode => n \in NodeIds /\ Child(t, n, m) = t.nodes[n].kids[m]
<1>1. n # NoNode => n \in NodeIds BY DEF Places
<1>2. NoNode \in Places BY DEF Places
<1> QED BY <1>1, <1>2, TreeFields DEF Child

LEMMA KeyIs ==
    ASSUME NEW k \in Keys, NEW i \in 1 .. Depth
    PROVE  k[i] \in Nibbles
BY DEF Keys

\* The loop of univip_walk_const.
LEMMA PathIs ==
    ASSUME NEW t \in Trees, NEW k \in Keys
    PROVE  /\ Path(t, k) \in [0 .. Depth -> Places]
           /\ Path(t, k)[0] = t.root
           /\ \A i \in 1 .. Depth :
                 Path(t, k)[i] = Child(t, Path(t, k)[i - 1], k[i])
<1>0. Depth \in Nat BY IndexAssumption
<1> DEFINE step == [z \in (1 .. Depth) \X Places |-> Child(t, z[2], k[z[1]])]
           G(i, f) == IF i = 0 THEN t.root ELSE Child(t, f[i - 1], k[i])
<1>1. t.root \in Places BY TreeFields
<1>2. step \in [(1 .. Depth) \X Places -> Places]
  <2> SUFFICES ASSUME NEW z \in (1 .. Depth) \X Places
               PROVE  Child(t, z[2], k[z[1]]) \in Places
      OBVIOUS
  <2>1. z[1] \in 1 .. Depth /\ z[2] \in Places OBVIOUS
  <2> QED BY <2>1, KidIs, KeyIs
<1>3. \A i \in 1 .. Depth, n \in Places : step[<<i, n>>] = Child(t, n, k[i])
    OBVIOUS
<1> HIDE DEF step
<1>4. \E f \in [0 .. Depth -> Places] : StepRuns(f, Depth, t.root, step)
    BY <1>0, <1>1, <1>2, StepsExist
<1>5. PICK f \in [0 .. Depth -> Places] : StepRuns(f, Depth, t.root, step)
    BY <1>4
<1>6. \A i \in 1 .. Depth : f[i] = Child(t, f[i - 1], k[i])
  <2> SUFFICES ASSUME NEW i \in 1 .. Depth PROVE f[i] = Child(t, f[i - 1], k[i])
      OBVIOUS
  <2>1. i - 1 \in 0 .. Depth BY <1>0
  <2>2. f[i - 1] \in Places BY <2>1
  <2> QED BY <2>2, <1>3, <1>5 DEF StepRuns
<1>7. f[0] = t.root BY <1>5 DEF StepRuns
<1>8. f = [i \in 0 .. Depth |-> G(i, f)]
  <2>1. \A i \in 0 .. Depth : i = 0 \/ i \in 1 .. Depth BY <1>0
  <2>2. \A i \in 0 .. Depth : f[i] = G(i, f) BY <1>6, <1>7, <2>1
  <2>3. f = [i \in 0 .. Depth |-> f[i]] OBVIOUS
  <2> QED BY <2>2, <2>3
<1> DEFINE at == CHOOSE g : g = [i \in 0 .. Depth |-> G(i, g)]
<1>9. at = [i \in 0 .. Depth |-> G(i, at)] BY <1>8
<1>10. Path(t, k) = at BY DEF Path
<1> HIDE DEF at
<1>11. /\ at[0] = t.root
       /\ \A i \in 1 .. Depth : at[i] = Child(t, at[i - 1], k[i])
  <2>1. 0 \in 0 .. Depth BY <1>0
  <2>2. ASSUME NEW i \in 1 .. Depth PROVE at[i] = Child(t, at[i - 1], k[i])
    <3>1. i \in 0 .. Depth /\ i # 0 BY <1>0
    <3> QED BY <3>1, <1>9
  <2> QED BY <2>1, <2>2, <1>9
<1>12. \A i \in 0 .. Depth : at[i] \in Places
  <2> DEFINE good == {i \in 0 .. Depth : at[i] \in Places}
  <2>1. 0 \in good BY <1>0, <1>1, <1>11
  <2>2. ASSUME NEW i \in 1 .. Depth, i - 1 \in good PROVE i \in good
    <3>1. at[i] = Child(t, at[i - 1], k[i]) /\ at[i - 1] \in Places
        BY <2>2, <1>11
    <3>2. at[i] \in Places BY <3>1, KidIs, KeyIs
    <3> QED BY <3>2
  <2>3. good \in SUBSET Nat OBVIOUS
  <2> HIDE DEF good
  <2>4. \A i \in 0 .. Depth : i \in good BY <1>0, <2>1, <2>2, <2>3, Upwards
  <2> QED BY <2>4 DEF good
<1>13. at \in [0 .. Depth -> Places] BY <1>9, <1>12
<1> QED BY <1>10, <1>11, <1>13

-----------------------------------------------------------------------------
(* Sound trees.                                                            *)

\* A node has one parent at most, the root none.
OneParent(t) ==
    \A n, o \in NodeIds : \A m, l \in Nibbles :
        t.nodes[n].kids[m] = t.nodes[o].kids[l] /\ t.nodes[n].kids[m] # NoNode
            => n = o /\ m = l
RootAbove(t) ==
    t.root # NoNode => \A n \in NodeIds : \A m \in Nibbles : t.nodes[n].kids[m] # t.root

\* What is in use does not lie on the stack; what lies there is empty.
NoneFree(t) ==
    /\ t.root \notin Free(t)
    /\ \A n \in NodeIds : \A m \in Nibbles : t.nodes[n].kids[m] \notin Free(t)
FreeEmpty(t) == \A n \in Free(t) : t.nodes[n] = EmptyNode

\* What is in use lies on the path of a key.
OnPath(t, n) == \E k \in Keys : \E i \in 0 .. Depth : Path(t, k)[i] = n
AllReached(t) == \A n \in NodeIds \ Free(t) : OnPath(t, n)

Sound(t) ==
    /\ t \in Trees /\ IsInjective(t.free)
    /\ OneParent(t) /\ RootAbove(t) /\ NoneFree(t) /\ FreeEmpty(t) /\ AllReached(t)

LEMMA OneParentIs ==
    ASSUME NEW t, OneParent(t), NEW n \in NodeIds, NEW o \in NodeIds,
           NEW l \in Nibbles, NEW h \in Nibbles, NEW c, c # NoNode,
           t.nodes[n].kids[l] = c, t.nodes[o].kids[h] = c
    PROVE  n = o /\ l = h
BY SMT DEF OneParent

LEMMA DepthIs == Depth \in Nat /\ Depth # 0
                 /\ \A i \in 1 .. Depth : i - 1 \in 0 .. Depth /\ i \in 0 .. Depth
BY IndexAssumption

\* A path that has ended does not go on.
LEMMA PathCut ==
    ASSUME NEW t \in Trees, NEW k \in Keys, NEW i \in 0 .. Depth,
           Path(t, k)[i] = NoNode
    PROVE  \A j \in i .. Depth : Path(t, k)[j] = NoNode
<1> DEFINE good == {d \in 0 .. Depth - i : Path(t, k)[i + d] = NoNode}
<1>0. Depth \in Nat /\ Depth - i \in Nat BY DepthIs
<1>1. 0 \in good BY <1>0
<1>2. ASSUME NEW d \in 1 .. Depth - i, d - 1 \in good PROVE d \in good
  <2>1. i + d \in 1 .. Depth /\ (i + d) - 1 = i + (d - 1) /\ d \in 0 .. Depth - i
      BY <1>0
  <2>2. Path(t, k)[i + (d - 1)] = NoNode BY <1>2
  <2>3. NoNode \in Places BY DEF Places
  <2>4. Path(t, k)[i + d] = Child(t, NoNode, k[i + d]) BY <2>1, <2>2, PathIs
  <2>5. Path(t, k)[i + d] = NoNode BY <2>1, <2>3, <2>4, KidIs, KeyIs
  <2> QED BY <2>1, <2>5
<1>3. good \in SUBSET Nat OBVIOUS
<1> HIDE DEF good
<1>4. \A d \in 0 .. Depth - i : d \in good BY <1>0, <1>1, <1>2, <1>3, Upwards
<1> SUFFICES ASSUME NEW j \in i .. Depth PROVE Path(t, k)[j] = NoNode
    OBVIOUS
<1>5. j - i \in 0 .. Depth - i /\ i + (j - i) = j BY <1>0
<1>6. j - i \in good BY <1>4, <1>5
<1> QED BY <1>5, <1>6 DEF good

\* Where a path goes it was not ended before.
LEMMA PathOpen ==
    ASSUME NEW t \in Trees, NEW k \in Keys, NEW i \in 0 .. Depth,
           Path(t, k)[i] # NoNode
    PROVE  \A j \in 0 .. i : Path(t, k)[j] \in NodeIds
<1> SUFFICES ASSUME NEW j \in 0 .. i PROVE Path(t, k)[j] \in NodeIds
    OBVIOUS
<1>1. j \in 0 .. Depth /\ i \in j .. Depth BY DepthIs
<1>2. Path(t, k)[j] # NoNode BY <1>1, PathCut
<1>3. Path(t, k)[j] \in Places BY <1>1, PathIs
<1> QED BY <1>2, <1>3 DEF Places

\* A node on a path behind the root is a child of the one before it.
LEMMA PathKid ==
    ASSUME NEW t \in Trees, NEW k \in Keys, NEW i \in 1 .. Depth,
           Path(t, k)[i] # NoNode
    PROVE  /\ Path(t, k)[i - 1] \in NodeIds /\ Path(t, k)[i] \in NodeIds
           /\ k[i] \in Nibbles
           /\ Path(t, k)[i] = t.nodes[Path(t, k)[i - 1]].kids[k[i]]
<1>1. i \in 0 .. Depth /\ i - 1 \in 0 .. i /\ i \in 0 .. i BY DepthIs
<1>2. Path(t, k)[i - 1] \in NodeIds /\ Path(t, k)[i] \in NodeIds
    BY <1>1, PathOpen
<1>3. k[i] \in Nibbles BY KeyIs
<1>4. Path(t, k)[i] = Child(t, Path(t, k)[i - 1], k[i]) BY PathIs
<1>5. Path(t, k)[i - 1] # NoNode BY <1>2, IndexAssumption
<1>6. Path(t, k)[i - 1] \in Places BY <1>2 DEF Places
<1> QED BY <1>2, <1>3, <1>4, <1>5, <1>6, KidIs

\* Nodes on paths are in use.
LEMMA PathInUse ==
    ASSUME NEW t, Sound(t), NEW k \in Keys, NEW i \in 0 .. Depth
    PROVE  Path(t, k)[i] \notin Free(t)
<1>1. t \in Trees /\ NoneFree(t) BY DEF Sound
<1>2. Free(t) \in SUBSET NodeIds /\ NoNode \notin NodeIds
    BY <1>1, TreeFields, IndexAssumption
<1>3. CASE Path(t, k)[i] = NoNode BY <1>2, <1>3
<1>4. CASE i = 0 BY <1>1, <1>4, PathIs DEF NoneFree
<1>5. CASE i # 0 /\ Path(t, k)[i] # NoNode
  <2>1. i \in 1 .. Depth BY <1>5, DepthIs
  <2>2. /\ Path(t, k)[i - 1] \in NodeIds /\ k[i] \in Nibbles
        /\ Path(t, k)[i] = t.nodes[Path(t, k)[i - 1]].kids[k[i]]
      BY <1>1, <1>5, <2>1, PathKid
  <2> QED BY <1>1, <2>2 DEF NoneFree
<1> QED BY <1>3, <1>4, <1>5

\* The first digits of two keys agree.
Agree(k, l, i) == \A m \in 1 .. i : k[m] = l[m]

\* Paths that meet have been one.
LEMMA PathsApart ==
    ASSUME NEW t, Sound(t), NEW k \in Keys, NEW l \in Keys,
           NEW i \in 0 .. Depth, NEW j \in 0 .. Depth,
           Path(t, k)[i] = Path(t, l)[j], Path(t, k)[i] # NoNode
    PROVE  i = j /\ Agree(k, l, i)
<1> DEFINE P(a) == \A b \in 0 .. Depth :
                      Path(t, k)[a] = Path(t, l)[b] /\ Path(t, k)[a] # NoNode
                          => a = b /\ Agree(k, l, a)
           good == {a \in 0 .. Depth : P(a)}
<1>0. t \in Trees /\ OneParent(t) /\ RootAbove(t) BY DEF Sound
<1>1. 0 \in good
  <2> SUFFICES ASSUME NEW b \in 0 .. Depth,
                      Path(t, k)[0] = Path(t, l)[b], Path(t, k)[0] # NoNode
               PROVE  0 = b
      BY DepthIs DEF Agree
  <2>1. Path(t, k)[0] = t.root BY <1>0, PathIs
  <2> SUFFICES ASSUME b # 0 PROVE FALSE
      OBVIOUS
  <2>2. b \in 1 .. Depth BY DepthIs
  <2>3. /\ Path(t, l)[b - 1] \in NodeIds /\ l[b] \in Nibbles
        /\ Path(t, l)[b] = t.nodes[Path(t, l)[b - 1]].kids[l[b]]
      BY <1>0, <2>2, PathKid
  <2> QED BY <1>0, <2>1, <2>3 DEF RootAbove
<1>2. ASSUME NEW a \in 1 .. Depth, a - 1 \in good PROVE a \in good
  <2>1. P(a - 1) BY <1>2
  <2>2. a \in 0 .. Depth /\ a - 1 \in 0 .. Depth BY DepthIs
  <2> HIDE DEF good
  <2>3. ASSUME NEW b \in 0 .. Depth,
               Path(t, k)[a] = Path(t, l)[b], Path(t, k)[a] # NoNode
        PROVE  a = b /\ Agree(k, l, a)
    <3>1. /\ Path(t, k)[a - 1] \in NodeIds /\ k[a] \in Nibbles
          /\ Path(t, k)[a] = t.nodes[Path(t, k)[a - 1]].kids[k[a]]
        BY <1>0, <2>3, PathKid
    <3>2. b # 0
      <4> SUFFICES ASSUME b = 0 PROVE FALSE
          OBVIOUS
      <4>1. Path(t, k)[a] = t.root BY <1>0, <2>3, PathIs
      <4> QED BY <1>0, <2>3, <3>1, <4>1 DEF RootAbove
    <3>3. b \in 1 .. Depth /\ b - 1 \in 0 .. Depth BY <3>2, DepthIs
    <3>4. /\ Path(t, l)[b - 1] \in NodeIds /\ l[b] \in Nibbles
          /\ Path(t, l)[b] = t.nodes[Path(t, l)[b - 1]].kids[l[b]]
        BY <1>0, <2>3, <3>3, PathKid
    <3>5. Path(t, k)[a - 1] = Path(t, l)[b - 1] /\ k[a] = l[b]
      <4> DEFINE c == Path(t, k)[a]
                 n == Path(t, k)[a - 1]
                 o == Path(t, l)[b - 1]
      <4>1. /\ t.nodes[n].kids[k[a]] = c /\ t.nodes[o].kids[l[b]] = c /\ c # NoNode
            /\ n \in NodeIds /\ o \in NodeIds
          BY <2>3, <3>1, <3>4
      <4> HIDE DEF c, n, o
      <4>2. n = o /\ k[a] = l[b] BY <1>0, <3>1, <3>4, <4>1, OneParentIs
      <4> QED BY <4>2 DEF n, o
    <3>6. Path(t, k)[a - 1] # NoNode BY <3>1, IndexAssumption
    <3>7. a - 1 = b - 1 /\ Agree(k, l, a - 1) BY <2>1, <3>3, <3>5, <3>6
    <3>8. a = b BY <3>7, <2>2, <3>3
    <3>9. \A m \in 1 .. a : m \in 1 .. a - 1 \/ m = a BY <2>2
    <3> QED BY <3>5, <3>7, <3>8, <3>9 DEF Agree
  <2>4. P(a) BY <2>3
  <2> QED BY <2>2, <2>4 DEF good
<1>3. good \in SUBSET Nat OBVIOUS
<1> HIDE DEF good
<1>4. \A a \in 0 .. Depth : a \in good BY DepthIs, <1>1, <1>2, <1>3, Upwards
<1>5. i \in good BY <1>4
<1> QED BY <1>5 DEF good

-----------------------------------------------------------------------------
(* A tree that grows by a node.                                            *)

\* univip_node_alloc.
LEMMA AllocIs ==
    ASSUME NEW t, Sound(t), t.free # <<>>
    PROVE  /\ Top(t) \in Free(t) /\ Top(t) \in NodeIds
           /\ Alloc(t) \in Trees /\ IsInjective(Alloc(t).free)
           /\ Alloc(t).nodes = t.nodes /\ Alloc(t).root = t.root
           /\ Free(Alloc(t)) = Free(t) \ {Top(t)}
<1>0. t \in Trees /\ IsInjective(t.free) /\ FreeEmpty(t) BY DEF Sound
<1> DEFINE s == t.free
           n == Len(s)
<1>1. /\ s \in Seq(NodeIds) /\ n \in Nat /\ DOMAIN s = 1 .. n
      /\ Free(t) = {s[i] : i \in 1 .. n} /\ Free(t) \in SUBSET NodeIds
      /\ t.nodes \in [NodeIds -> Node] /\ t.root \in Places
    BY <1>0, TreeFields
<1>2. n # 0 BY <1>1
<1>3. n \in 1 .. n BY <1>1, <1>2
<1>4. Top(t) = s[n] BY DEF Top
<1>5. Top(t) \in Free(t) /\ Top(t) \in NodeIds BY <1>1, <1>3, <1>4
<1> DEFINE r == SubSeq(s, 1, n - 1)
<1>6. /\ r \in Seq(NodeIds) /\ Len(r) = n - 1 /\ DOMAIN r = 1 .. n - 1
      /\ \A i \in 1 .. n - 1 : r[i] = s[i]
  <2>1. n - 1 \in Nat BY <1>1, <1>2
  <2>2. r = [i \in 1 .. n - 1 |-> s[i]] BY <1>1, <2>1
  <2>3. \A i \in 1 .. n - 1 : i \in 1 .. n BY <1>1
  <2>4. r \in [1 .. n - 1 -> NodeIds] BY <2>2, <2>3, <1>1
  <2> HIDE DEF r
  <2> QED BY <2>1, <2>2, <2>4
<1>7. t.nodes[Top(t)] = EmptyNode BY <1>0, <1>5 DEF FreeEmpty
<1>8. [t.nodes EXCEPT ![Top(t)] = EmptyNode] = t.nodes BY <1>1, <1>5, <1>7
<1>9. Alloc(t) = [t EXCEPT !.free = r]
  <2>1. Alloc(t) = [t EXCEPT !.nodes = [t.nodes EXCEPT ![Top(t)] = EmptyNode],
                             !.free = r]
      BY DEF Alloc
  <2>2. Alloc(t) = [t EXCEPT !.nodes = t.nodes, !.free = r] BY <2>1, <1>8
  <2> QED BY <2>2, <1>0 DEF Trees
<1> HIDE DEF r
<1>10. /\ Alloc(t) \in Trees /\ Alloc(t).nodes = t.nodes /\ Alloc(t).root = t.root
       /\ Alloc(t).free = r
    BY <1>0, <1>6, <1>9 DEF Trees
<1>11. \A i, j \in 1 .. n : s[i] = s[j] => i = j
    BY <1>0, <1>1 DEF IsInjective
<1>12. IsInjective(r)
  <2>1. \A i \in 1 .. n - 1 : i \in 1 .. n BY <1>1
  <2> QED BY <1>6, <1>11, <2>1 DEF IsInjective
<1>13. Free(Alloc(t)) = {r[i] : i \in 1 .. n - 1}
    BY <1>6, <1>10 DEF Free, Range
<1>14. \A x : x \in Free(Alloc(t)) <=> x \in Free(t) /\ x # Top(t)
  <2>1. ASSUME NEW x \in Free(Alloc(t)) PROVE x \in Free(t) /\ x # Top(t)
    <3>1. PICK i \in 1 .. n - 1 : x = r[i] BY <1>13
    <3>2. i \in 1 .. n /\ i # n /\ x = s[i] BY <3>1, <1>1, <1>6
    <3> QED BY <3>2, <1>1, <1>3, <1>4, <1>11
  <2>2. ASSUME NEW x \in Free(t), x # Top(t) PROVE x \in Free(Alloc(t))
    <3>1. PICK i \in 1 .. n : x = s[i] BY <1>1
    <3>2. i # n BY <2>2, <3>1, <1>4
    <3>3. i \in 1 .. n - 1 BY <3>1, <3>2, <1>1
    <3> QED BY <3>1, <3>3, <1>6, <1>13
  <2> QED BY <2>1, <2>2
<1> QED BY <1>5, <1>10, <1>12, <1>14

\* u is t with the node c hung below a.
Grows(t, u, a, m, c) ==
    /\ a \in NodeIds \ Free(t) /\ m \in Nibbles /\ c \in Free(t)
    /\ t.nodes[a].kids[m] = NoNode
    /\ u \in Trees /\ IsInjective(u.free)
    /\ u.root = t.root /\ Free(u) = Free(t) \ {c}
    /\ u.nodes[a].kids[m] = c
    /\ \A n \in NodeIds : \A l \in Nibbles :
          n # a \/ l # m => u.nodes[n].kids[l] = t.nodes[n].kids[l]
    /\ \A n \in NodeIds : u.nodes[n].entry = t.nodes[n].entry

\* The path of k reaches the link from a, m at the level i.
Takes(t, k, i, a, m) == i # 0 /\ Path(t, k)[i - 1] = a /\ k[i] = m

PathGrows(t, u, a, m, c, k, i) ==
    \/ Path(t, k)[i] # NoNode /\ Path(u, k)[i] = Path(t, k)[i]
    \/ Path(t, k)[i] = NoNode /\ Takes(t, k, i, a, m) /\ Path(u, k)[i] = c
    \/ Path(t, k)[i] = NoNode /\ ~Takes(t, k, i, a, m) /\ Path(u, k)[i] = NoNode

LEMMA PathGrowsIs ==
    ASSUME NEW t, Sound(t), NEW u, NEW a, NEW m, NEW c, Grows(t, u, a, m, c),
           NEW k \in Keys
    PROVE  \A i \in 0 .. Depth : PathGrows(t, u, a, m, c, k, i)
<1> DEFINE good == {i \in 0 .. Depth : PathGrows(t, u, a, m, c, k, i)}
<1>0. /\ t \in Trees /\ NoneFree(t) /\ FreeEmpty(t) /\ u \in Trees
      /\ Free(t) \in SUBSET NodeIds /\ NoNode \notin NodeIds
    BY TreeFields, IndexAssumption DEF Sound, Grows
<1>1. 0 \in good
  <2>1. Path(t, k)[0] = t.root /\ Path(u, k)[0] = t.root
      BY <1>0, PathIs DEF Grows
  <2> QED BY <2>1, DepthIs DEF PathGrows, Takes
<1>2. ASSUME NEW i \in 1 .. Depth, i - 1 \in good PROVE i \in good
  <2>1. i \in 0 .. Depth /\ i - 1 \in 0 .. Depth /\ i # 0 BY DepthIs
  <2>2. PathGrows(t, u, a, m, c, k, i - 1) BY <1>2
  <2>3. /\ Path(t, k)[i] = Child(t, Path(t, k)[i - 1], k[i])
        /\ Path(u, k)[i] = Child(u, Path(u, k)[i - 1], k[i])
        /\ Path(t, k)[i - 1] \in Places /\ Path(u, k)[i - 1] \in Places
        /\ k[i] \in Nibbles
      BY <1>0, <2>1, PathIs, KeyIs
  <2> SUFFICES PathGrows(t, u, a, m, c, k, i)
      BY <2>1
  <2> HIDE DEF good
  <2>4. CASE Path(t, k)[i - 1] # NoNode
    <3> DEFINE q == Path(t, k)[i - 1]
    <3>1. Path(u, k)[i - 1] = q BY <2>2, <2>4 DEF PathGrows
    <3>2. /\ q \in NodeIds /\ Path(t, k)[i] = t.nodes[q].kids[k[i]]
          /\ Path(u, k)[i] = u.nodes[q].kids[k[i]]
        BY <1>0, <2>3, <2>4, <3>1, KidIs
    <3>3. CASE q = a /\ k[i] = m
      <4>1. Path(t, k)[i] = NoNode /\ Path(u, k)[i] = c BY <3>2, <3>3 DEF Grows
      <4> QED BY <4>1, <3>3, <2>1 DEF PathGrows, Takes
    <3>4. CASE ~(q = a /\ k[i] = m)
      <4>1. Path(t, k)[i] = Path(u, k)[i] BY <2>3, <3>2, <3>4 DEF Grows
      <4> QED BY <4>1, <3>4 DEF PathGrows, Takes
    <3> QED BY <3>3, <3>4
  <2>5. CASE Path(t, k)[i - 1] = NoNode
    <3>1. Path(t, k)[i] = NoNode BY <1>0, <2>3, <2>5, KidIs
    <3>2. a # NoNode BY <1>0 DEF Grows
    <3>3. Path(u, k)[i - 1] \in {c, NoNode} BY <2>2, <2>5 DEF PathGrows
    <3>4. Path(u, k)[i] = NoNode
      <4>1. CASE Path(u, k)[i - 1] = NoNode BY <1>0, <2>3, <4>1, KidIs
      <4>2. CASE Path(u, k)[i - 1] = c
        <5>1. c \in NodeIds /\ c # a /\ t.nodes[c] = EmptyNode
            BY <1>0 DEF Grows, FreeEmpty
        <5>2. Path(u, k)[i] = u.nodes[c].kids[k[i]]
            BY <1>0, <2>3, <4>2, <5>1, KidIs
        <5>3. u.nodes[c].kids[k[i]] = t.nodes[c].kids[k[i]]
            BY <2>3, <5>1 DEF Grows
        <5> QED BY <2>3, <5>1, <5>2, <5>3, EmptyIs
      <4> QED BY <3>3, <4>1, <4>2
    <3> QED BY <2>5, <3>1, <3>2, <3>4 DEF PathGrows, Takes
  <2> QED BY <2>4, <2>5
<1>3. good \in SUBSET Nat OBVIOUS
<1> HIDE DEF good
<1>4. \A i \in 0 .. Depth : i \in good BY DepthIs, <1>1, <1>2, <1>3, Upwards
<1> QED BY <1>4 DEF good

LEMMA SoundGrows ==
    ASSUME NEW t, Sound(t), NEW u, NEW a, NEW m, NEW c, Grows(t, u, a, m, c),
           NEW k \in Keys, NEW i \in 1 .. Depth,
           Path(t, k)[i - 1] = a, k[i] = m
    PROVE  Sound(u) /\ Path(u, k)[i] = c
<1>0. /\ t \in Trees /\ OneParent(t) /\ RootAbove(t) /\ NoneFree(t)
      /\ FreeEmpty(t) /\ AllReached(t) /\ u \in Trees /\ IsInjective(u.free)
      /\ Free(t) \in SUBSET NodeIds /\ NoNode \notin NodeIds
    BY TreeFields, IndexAssumption DEF Sound, Grows
<1>1. /\ a \in NodeIds /\ a \notin Free(t) /\ c \in NodeIds /\ c # a /\ c \in Free(t)
      /\ m \in Nibbles /\ c # NoNode
    BY <1>0 DEF Grows
<1>2. /\ u.root = t.root /\ Free(u) = Free(t) \ {c}
      /\ u.nodes[a].kids[m] = c /\ t.nodes[a].kids[m] = NoNode
      /\ \A n \in NodeIds : \A l \in Nibbles :
            n # a \/ l # m => u.nodes[n].kids[l] = t.nodes[n].kids[l]
      /\ \A n \in NodeIds : u.nodes[n].entry = t.nodes[n].entry
    BY DEF Grows
<1>3. \A n \in NodeIds : \A l \in Nibbles :
          t.nodes[n].kids[l] # c /\ (u.nodes[n].kids[l] = c => n = a /\ l = m)
    BY <1>0, <1>1, <1>2 DEF NoneFree
<1>4. OneParent(u)
  <2> SUFFICES ASSUME NEW n \in NodeIds, NEW o \in NodeIds,
                      NEW l \in Nibbles, NEW h \in Nibbles,
                      u.nodes[n].kids[l] = u.nodes[o].kids[h],
                      u.nodes[n].kids[l] # NoNode
               PROVE  n = o /\ l = h
      BY DEF OneParent
  <2>1. CASE u.nodes[n].kids[l] = c BY <1>3, <2>1
  <2>2. CASE u.nodes[n].kids[l] # c
    <3>1. u.nodes[n].kids[l] = t.nodes[n].kids[l] BY <1>2, <2>2
    <3>2. u.nodes[o].kids[h] = t.nodes[o].kids[h] BY <1>2, <2>2
    <3> DEFINE d == u.nodes[n].kids[l]
    <3>3. t.nodes[n].kids[l] = d /\ t.nodes[o].kids[h] = d /\ d # NoNode
        BY <3>1, <3>2
    <3> HIDE DEF d
    <3> QED BY <1>0, <3>3, OneParentIs
  <2> QED BY <2>1, <2>2
<1>5. RootAbove(u)
  <2>1. u.root # c BY <1>0, <1>1, <1>2 DEF NoneFree
  <2> QED BY <2>1, <1>0, <1>2 DEF RootAbove
<1>6. NoneFree(u) BY <1>0, <1>2 DEF NoneFree
<1>7. FreeEmpty(u)
  <2> SUFFICES ASSUME NEW n \in Free(u) PROVE u.nodes[n] = EmptyNode
      BY DEF FreeEmpty
  <2>1. n \in Free(t) /\ n # a /\ n \in NodeIds BY <1>0, <1>1, <1>2
  <2>2. t.nodes[n] = EmptyNode BY <1>0, <2>1 DEF FreeEmpty
  <2>3. u.nodes[n].entry = NoEntry /\ \A l \in Nibbles : u.nodes[n].kids[l] = NoNode
      BY <1>2, <2>1, <2>2, EmptyIs
  <2>4. u.nodes[n] \in Node BY <1>0, <2>1, TreeFields
  <2> QED BY <2>3, <2>4, EmptyIs
<1>8. Path(u, k)[i] = c
  <2>1. i \in 0 .. Depth /\ i # 0 BY DepthIs
  <2>2. PathGrows(t, u, a, m, c, k, i) BY <2>1, PathGrowsIs
  <2>3. Path(t, k)[i] = NoNode
    <3>1. /\ Path(t, k)[i] = Child(t, a, m) /\ a \in Places
        BY <1>0, <1>1, PathIs DEF Places
    <3> QED BY <3>1, <1>0, <1>1, <1>2, KidIs
  <2> QED BY <2>1, <2>2, <2>3 DEF PathGrows, Takes
<1>9. AllReached(u)
  <2> SUFFICES ASSUME NEW n \in NodeIds \ Free(u) PROVE OnPath(u, n)
      BY DEF AllReached
  <2>1. CASE n = c
    <3>1. i \in 0 .. Depth BY DepthIs
    <3> QED BY <2>1, <3>1, <1>8 DEF OnPath
  <2>2. CASE n # c
    <3>1. OnPath(t, n) BY <2>2, <1>0, <1>2 DEF AllReached
    <3>2. PICK l \in Keys, j \in 0 .. Depth : Path(t, l)[j] = n
        BY <3>1 DEF OnPath
    <3>3. PathGrows(t, u, a, m, c, l, j) BY PathGrowsIs
    <3>4. n # NoNode BY <1>0
    <3>5. Path(u, l)[j] = n BY <3>2, <3>3, <3>4 DEF PathGrows
    <3> QED BY <3>5 DEF OnPath
  <2> QED BY <2>1, <2>2
<1>10. Sound(u) BY <1>0, <1>4, <1>5, <1>6, <1>7, <1>9 DEF Sound
<1> QED BY <1>8, <1>10

-----------------------------------------------------------------------------
(* The root.                                                               *)

\* In a tree without a root nothing is in use.
LEMMA NoRoot ==
    ASSUME NEW t, Sound(t), t.root = NoNode
    PROVE  /\ NodeIds = Free(t)
           /\ \A n \in NodeIds : t.nodes[n] = EmptyNode
           /\ \A k \in Keys, i \in 0 .. Depth : Path(t, k)[i] = NoNode
<1>0. /\ t \in Trees /\ FreeEmpty(t) /\ AllReached(t)
      /\ Free(t) \in SUBSET NodeIds /\ NoNode \notin NodeIds
    BY TreeFields, IndexAssumption DEF Sound
<1>1. ASSUME NEW k \in Keys, NEW i \in 0 .. Depth PROVE Path(t, k)[i] = NoNode
  <2>1. Path(t, k)[0] = NoNode BY <1>0, PathIs
  <2>2. 0 \in 0 .. Depth BY DepthIs
  <2> QED BY <1>0, <2>1, <2>2, PathCut
<1>2. NodeIds = Free(t) BY <1>0, <1>1 DEF AllReached, OnPath
<1> QED BY <1>0, <1>1, <1>2 DEF FreeEmpty

LEMMA SoundRooted ==
    ASSUME NEW t, Sound(t), t.root = NoNode, NEW c \in Free(t), NEW u \in Trees,
           IsInjective(u.free), u.nodes = t.nodes, u.root = c,
           Free(u) = Free(t) \ {c}, Keys # {}
    PROVE  /\ Sound(u)
           /\ \A k \in Keys : /\ Path(u, k)[0] = c
                              /\ \A i \in 1 .. Depth : Path(u, k)[i] = NoNode
<1>0. /\ t \in Trees /\ NodeIds = Free(t) /\ NoNode \notin NodeIds
      /\ \A n \in NodeIds : u.nodes[n] = EmptyNode
    BY NoRoot, IndexAssumption DEF Sound
<1>1. /\ \A n \in NodeIds : \A m \in Nibbles : u.nodes[n].kids[m] = NoNode
      /\ c \in NodeIds /\ c # NoNode
    BY <1>0, EmptyIs
<1>2. OneParent(u) /\ RootAbove(u) /\ NoneFree(u) /\ FreeEmpty(u)
    BY <1>0, <1>1 DEF OneParent, RootAbove, NoneFree, FreeEmpty
<1>3. ASSUME NEW k \in Keys
      PROVE  Path(u, k)[0] = c /\ \A i \in 1 .. Depth : Path(u, k)[i] = NoNode
  <2>1. Path(u, k)[0] = c BY PathIs
  <2>2. 1 \in 1 .. Depth /\ 1 \in 0 .. Depth /\ 1 - 1 = 0 BY DepthIs
  <2>3. Path(u, k)[1] = Child(u, c, k[1]) /\ k[1] \in Nibbles /\ c \in Places
      BY <1>1, <2>1, <2>2, PathIs, KeyIs DEF Places
  <2>4. Path(u, k)[1] = NoNode BY <1>1, <2>3, KidIs
  <2> QED BY <2>1, <2>2, <2>4, PathCut
<1>4. AllReached(u)
  <2>1. PICK k \in Keys : TRUE OBVIOUS
  <2>2. Path(u, k)[0] = c /\ 0 \in 0 .. Depth BY <1>3, DepthIs
  <2>3. \A n \in NodeIds \ Free(u) : n = c BY <1>0
  <2> QED BY <2>2, <2>3 DEF AllReached, OnPath
<1>5. Sound(u) BY <1>2, <1>4 DEF Sound
<1> QED BY <1>3, <1>5

-----------------------------------------------------------------------------
(* A tree that loses a node.                                               *)

\* The stack has room for every node that is in use.
LEMMA StackRoom ==
    ASSUME NEW t \in Trees, IsInjective(t.free), NEW n \in NodeIds \ Free(t)
    PROVE  Len(t.free) < MaxNodes
<1> DEFINE s == t.free
           b == Len(s)
           f == [i \in 1 .. b + 1 |-> IF i = b + 1 THEN n ELSE s[i]]
<1>1. /\ b \in Nat /\ DOMAIN s = 1 .. b /\ s \in [1 .. b -> NodeIds]
      /\ \A i \in 1 .. b : s[i] # n
      /\ \A i, j \in 1 .. b : s[i] = s[j] => i = j
    BY TreeFields DEF IsInjective
<1> HIDE DEF b, s
<1>2. \A i \in 1 .. b + 1 : i \in 1 .. b \/ i = b + 1 BY <1>1
<1>3. f \in [1 .. b + 1 -> NodeIds] BY <1>1, <1>2
<1>4. \A i, j \in 1 .. b + 1 : f[i] = f[j] => i = j BY <1>1, <1>2
<1>5. f \in Injection(1 .. b + 1, NodeIds)
    BY <1>3, <1>4 DEF Injection, IsInjective
<1>6. MaxNodes \in Nat BY IndexAssumption
<1>7. IsFiniteSet(NodeIds) /\ Cardinality(NodeIds) <= MaxNodes
  <2>1. 0 \in Int /\ MaxNodes - 1 \in Int BY <1>6
  <2>2. /\ IsFiniteSet(NodeIds)
        /\ Cardinality(NodeIds)
             = IF 0 > MaxNodes - 1 THEN 0 ELSE (MaxNodes - 1) - 0 + 1
      BY <2>1, FS_Interval, Zenon DEF NodeIds
  <2>3. (IF 0 > MaxNodes - 1 THEN 0 ELSE (MaxNodes - 1) - 0 + 1) <= MaxNodes
      BY <1>6
  <2> QED BY <2>2, <2>3
<1>8. Cardinality(1 .. b + 1) = b + 1
  <2>1. 1 \in Int /\ b + 1 \in Int /\ ~(1 > b + 1) /\ (b + 1) - 1 + 1 = b + 1
      BY <1>1
  <2> QED BY <2>1, FS_Interval
<1>9. Cardinality(1 .. b + 1) <= Cardinality(NodeIds)
    BY <1>5, <1>7, FS_Injection
<1>10. Cardinality(NodeIds) \in Nat BY <1>7, FS_CardinalityType
<1>11. b < MaxNodes BY <1>1, <1>6, <1>7, <1>8, <1>9, <1>10
<1> QED BY <1>11 DEF b, s

\* univip_node_free.
LEMMA NodeFreeIs ==
    ASSUME NEW t \in Trees, IsInjective(t.free), NEW n \in NodeIds \ Free(t),
           t.nodes[n] = EmptyNode
    PROVE  /\ NodeFree(t, n) \in Trees /\ IsInjective(NodeFree(t, n).free)
           /\ NodeFree(t, n).nodes = t.nodes /\ NodeFree(t, n).root = t.root
           /\ Free(NodeFree(t, n)) = Free(t) \cup {n}
<1> DEFINE s == t.free
           b == Len(s)
           r == Append(s, n)
<1>1. /\ s \in Seq(NodeIds) /\ b \in Nat /\ DOMAIN s = 1 .. b
      /\ Free(t) = {s[i] : i \in 1 .. b}
      /\ t.nodes \in [NodeIds -> Node] /\ t.root \in Places
      /\ \A i \in 1 .. b : s[i] # n
      /\ \A i, j \in 1 .. b : s[i] = s[j] => i = j
    BY TreeFields DEF IsInjective
<1>2. /\ r \in Seq(NodeIds) /\ Len(r) = b + 1 /\ DOMAIN r = 1 .. b + 1
      /\ r[b + 1] = n /\ \A i \in 1 .. b : r[i] = s[i]
    BY <1>1
<1>3. [t.nodes EXCEPT ![n] = EmptyNode] = t.nodes BY <1>1
<1>4. NodeFree(t, n) = [t EXCEPT !.free = r]
  <2>1. NodeFree(t, n) = [t EXCEPT !.nodes = [t.nodes EXCEPT ![n] = EmptyNode],
                                   !.free = r]
      BY StackRoom DEF NodeFree
  <2>2. NodeFree(t, n) = [t EXCEPT !.nodes = t.nodes, !.free = r] BY <2>1, <1>3
  <2> QED BY <2>2 DEF Trees
<1> HIDE DEF r, b
<1>5. /\ NodeFree(t, n) \in Trees /\ NodeFree(t, n).free = r
      /\ NodeFree(t, n).nodes = t.nodes /\ NodeFree(t, n).root = t.root
    BY <1>2, <1>4 DEF Trees
<1>6. \A i \in 1 .. b + 1 : i \in 1 .. b \/ i = b + 1 BY <1>1
<1>7. \A i \in 1 .. b : i \in 1 .. b + 1 BY <1>1
<1>8. b + 1 \in 1 .. b + 1 BY <1>1
<1>9. IsInjective(r) BY <1>1, <1>2, <1>6 DEF IsInjective
<1>10. Free(NodeFree(t, n)) = {r[i] : i \in 1 .. b + 1}
    BY <1>2, <1>5 DEF Free, Range
<1>11. \A x : x \in Free(NodeFree(t, n)) <=> x \in Free(t) \/ x = n
  <2>1. ASSUME NEW x \in Free(NodeFree(t, n)) PROVE x \in Free(t) \/ x = n
      BY <1>1, <1>2, <1>6, <1>10
  <2>2. ASSUME NEW x \in Free(t) PROVE x \in Free(NodeFree(t, n))
      BY <1>1, <1>2, <1>7, <1>10
  <2>3. n \in Free(NodeFree(t, n)) BY <1>2, <1>8, <1>10
  <2> QED BY <2>1, <2>2, <2>3
<1> QED BY <1>5, <1>9, <1>11

\* u is t without the empty node d below a.
Shrinks(t, u, a, m, d) ==
    /\ a \in NodeIds /\ m \in Nibbles /\ d \in NodeIds
    /\ t.nodes[a].kids[m] = d /\ t.nodes[d] = EmptyNode
    /\ u \in Trees /\ IsInjective(u.free)
    /\ u.root = t.root /\ Free(u) = Free(t) \cup {d}
    /\ u.nodes[a].kids[m] = NoNode
    /\ \A n \in NodeIds : \A l \in Nibbles :
          n # a \/ l # m => u.nodes[n].kids[l] = t.nodes[n].kids[l]
    /\ \A n \in NodeIds : u.nodes[n].entry = t.nodes[n].entry

PathShrinks(t, u, d, k, i) ==
    \/ Path(t, k)[i] = d /\ Path(u, k)[i] = NoNode
    \/ Path(t, k)[i] # d /\ Path(u, k)[i] = Path(t, k)[i]

LEMMA PathShrinksIs ==
    ASSUME NEW t, Sound(t), NEW u, NEW a, NEW m, NEW d, Shrinks(t, u, a, m, d),
           NEW k \in Keys
    PROVE  \A i \in 0 .. Depth : PathShrinks(t, u, d, k, i)
<1> DEFINE good == {i \in 0 .. Depth : PathShrinks(t, u, d, k, i)}
<1>0. /\ t \in Trees /\ OneParent(t) /\ RootAbove(t) /\ u \in Trees
      /\ NoNode \notin NodeIds
    BY IndexAssumption DEF Sound, Shrinks
<1>9. /\ a \in NodeIds /\ d \in NodeIds /\ m \in Nibbles /\ d # NoNode
      /\ t.nodes[a].kids[m] = d /\ t.nodes[d] = EmptyNode
      /\ u.nodes[a].kids[m] = NoNode /\ u.root = t.root
      /\ \A n \in NodeIds : \A l \in Nibbles :
            n # a \/ l # m => u.nodes[n].kids[l] = t.nodes[n].kids[l]
    BY <1>0 DEF Shrinks
<1>1. 0 \in good
  <2>1. Path(t, k)[0] = t.root /\ Path(u, k)[0] = t.root
      BY <1>0, <1>9, PathIs
  <2>2. t.root # d BY <1>0, <1>9 DEF RootAbove
  <2> QED BY <2>1, <2>2, DepthIs DEF PathShrinks
<1>2. ASSUME NEW i \in 1 .. Depth, i - 1 \in good PROVE i \in good
  <2>1. i \in 0 .. Depth /\ i - 1 \in 0 .. Depth BY DepthIs
  <2>2. PathShrinks(t, u, d, k, i - 1) BY <1>2
  <2> DEFINE q == Path(t, k)[i - 1]
             n == k[i]
  <2>3. /\ Path(t, k)[i] = Child(t, q, n)
        /\ Path(u, k)[i] = Child(u, Path(u, k)[i - 1], n)
        /\ q \in Places /\ Path(u, k)[i - 1] \in Places /\ n \in Nibbles
      BY <1>0, <2>1, PathIs, KeyIs
  <2> SUFFICES PathShrinks(t, u, d, k, i)
      BY <2>1
  <2> HIDE DEF good, q, n
  <2>4. CASE q = d
    <3>0. Path(t, k)[i] = t.nodes[d].kids[n] BY <1>0, <1>9, <2>3, <2>4, KidIs
    <3>1. Path(t, k)[i] = NoNode BY <1>9, <2>3, <3>0, EmptyIs
    <3>2. Path(u, k)[i - 1] = NoNode BY <2>2, <2>4 DEF PathShrinks, q
    <3>3. Path(u, k)[i] = NoNode BY <1>0, <2>3, <3>2, KidIs
    <3> QED BY <1>9, <3>1, <3>3 DEF PathShrinks
  <2>5. CASE q = NoNode
    <3>1. Path(t, k)[i] = NoNode BY <1>0, <2>3, <2>5, KidIs
    <3>2. Path(u, k)[i - 1] = NoNode BY <2>2, <2>5 DEF PathShrinks, q
    <3>3. Path(u, k)[i] = NoNode BY <1>0, <2>3, <3>2, KidIs
    <3> QED BY <1>9, <3>1, <3>3 DEF PathShrinks
  <2>6. CASE q # d /\ q # NoNode
    <3>1. Path(u, k)[i - 1] = q BY <2>2, <2>6 DEF PathShrinks, q
    <3>2. /\ q \in NodeIds /\ Path(t, k)[i] = t.nodes[q].kids[n]
          /\ Path(u, k)[i] = u.nodes[q].kids[n]
        BY <1>0, <2>3, <2>6, <3>1, KidIs
    <3>3. CASE q = a /\ n = m
        BY <1>9, <3>2, <3>3 DEF PathShrinks
    <3>4. CASE ~(q = a /\ n = m)
      <4>1. Path(u, k)[i] = Path(t, k)[i] BY <1>9, <2>3, <3>2, <3>4
      <4>2. Path(t, k)[i] # d
        <5> SUFFICES ASSUME t.nodes[q].kids[n] = d PROVE FALSE
            BY <3>2
        <5> QED BY <1>0, <1>9, <2>3, <3>2, <3>4, OneParentIs
      <4> QED BY <4>1, <4>2 DEF PathShrinks
    <3> QED BY <3>3, <3>4
  <2> QED BY <2>4, <2>5, <2>6
<1>3. good \in SUBSET Nat OBVIOUS
<1> HIDE DEF good
<1>4. \A i \in 0 .. Depth : i \in good BY DepthIs, <1>1, <1>2, <1>3, Upwards
<1> QED BY <1>4 DEF good

LEMMA SoundShrinks ==
    ASSUME NEW t, Sound(t), NEW u, NEW a, NEW m, NEW d, Shrinks(t, u, a, m, d)
    PROVE  Sound(u)
<1>0. /\ t \in Trees /\ OneParent(t) /\ RootAbove(t) /\ NoneFree(t)
      /\ FreeEmpty(t) /\ AllReached(t) /\ u \in Trees /\ IsInjective(u.free)
      /\ Free(t) \in SUBSET NodeIds /\ NoNode \notin NodeIds
    BY TreeFields, IndexAssumption DEF Sound, Shrinks
<1>1. /\ a \in NodeIds /\ d \in NodeIds /\ m \in Nibbles /\ d # NoNode
      /\ t.nodes[a].kids[m] = d /\ t.nodes[d] = EmptyNode
      /\ u.nodes[a].kids[m] = NoNode /\ u.root = t.root
      /\ Free(u) = Free(t) \cup {d}
    BY <1>0 DEF Shrinks
<1>2. /\ \A n \in NodeIds : \A l \in Nibbles :
            n # a \/ l # m => u.nodes[n].kids[l] = t.nodes[n].kids[l]
      /\ \A n \in NodeIds : u.nodes[n].entry = t.nodes[n].entry
    BY DEF Shrinks
<1>3. ASSUME NEW n \in NodeIds, NEW l \in Nibbles, u.nodes[n].kids[l] # NoNode
      PROVE  u.nodes[n].kids[l] = t.nodes[n].kids[l] /\ u.nodes[n].kids[l] # d
  <2>1. ~(n = a /\ l = m) BY <1>1, <1>3
  <2>2. u.nodes[n].kids[l] = t.nodes[n].kids[l] BY <1>2, <2>1
  <2>3. t.nodes[n].kids[l] # d BY <1>0, <1>1, <2>1, OneParentIs
  <2> QED BY <2>2, <2>3
<1>4. OneParent(u)
  <2> SUFFICES ASSUME NEW n \in NodeIds, NEW o \in NodeIds,
                      NEW l \in Nibbles, NEW h \in Nibbles,
                      u.nodes[n].kids[l] = u.nodes[o].kids[h],
                      u.nodes[n].kids[l] # NoNode
               PROVE  n = o /\ l = h
      BY DEF OneParent
  <2> DEFINE c == u.nodes[n].kids[l]
  <2>1. t.nodes[n].kids[l] = c /\ t.nodes[o].kids[h] = c /\ c # NoNode BY <1>3
  <2> HIDE DEF c
  <2> QED BY <1>0, <2>1, OneParentIs
<1>5. RootAbove(u) BY <1>0, <1>1, <1>3 DEF RootAbove
<1>6. NoneFree(u)
  <2>1. u.root \notin Free(u) BY <1>0, <1>1 DEF NoneFree, RootAbove
  <2>2. ASSUME NEW n \in NodeIds, NEW l \in Nibbles
        PROVE  u.nodes[n].kids[l] \notin Free(u)
    <3>1. CASE u.nodes[n].kids[l] = NoNode BY <1>0, <1>1, <3>1
    <3>2. CASE u.nodes[n].kids[l] # NoNode
        BY <1>0, <1>1, <1>3, <3>2 DEF NoneFree
    <3> QED BY <3>1, <3>2
  <2> QED BY <2>1, <2>2 DEF NoneFree
<1>7. FreeEmpty(u)
  <2> SUFFICES ASSUME NEW n \in Free(u) PROVE u.nodes[n] = EmptyNode
      BY DEF FreeEmpty
  <2>1. n \in NodeIds /\ t.nodes[n] = EmptyNode BY <1>0, <1>1 DEF FreeEmpty
  <2>2. \A l \in Nibbles : u.nodes[n].kids[l] = NoNode
      BY <1>1, <1>2, <2>1, EmptyIs
  <2>3. u.nodes[n].entry = NoEntry BY <1>2, <2>1, EmptyIs
  <2>4. u.nodes[n] \in Node BY <1>0, <2>1, TreeFields
  <2> QED BY <2>2, <2>3, <2>4, EmptyIs
<1>8. AllReached(u)
  <2> SUFFICES ASSUME NEW n \in NodeIds \ Free(u) PROVE OnPath(u, n)
      BY DEF AllReached
  <2>1. OnPath(t, n) /\ n # d BY <1>0, <1>1 DEF AllReached
  <2>2. PICK l \in Keys, j \in 0 .. Depth : Path(t, l)[j] = n
      BY <2>1 DEF OnPath
  <2>3. PathShrinks(t, u, d, l, j) BY PathShrinksIs
  <2>4. Path(u, l)[j] = n BY <2>1, <2>2, <2>3 DEF PathShrinks
  <2> QED BY <2>4 DEF OnPath
<1> QED BY <1>0, <1>4, <1>5, <1>6, <1>7, <1>8 DEF Sound

-----------------------------------------------------------------------------
(* univip_walk with create.                                                *)

Walkers == [tree : Trees, at : Places]

LEMMA AllocType ==
    ASSUME NEW t \in Trees, t.free # <<>>
    PROVE  Top(t) \in NodeIds /\ Alloc(t) \in Trees
<1> DEFINE s == t.free
           n == Len(s)
           r == SubSeq(s, 1, n - 1)
<1>1. /\ s \in Seq(NodeIds) /\ n \in Nat
      /\ t.nodes \in [NodeIds -> Node] /\ t.root \in Places
    BY TreeFields
<1>2. n # 0 BY <1>1
<1>3. n \in 1 .. n BY <1>1, <1>2
<1>4. Top(t) \in NodeIds BY <1>1, <1>3 DEF Top
<1>5. r \in Seq(NodeIds)
  <2>1. n - 1 \in Nat BY <1>1, <1>2
  <2>2. r = [i \in 1 .. n - 1 |-> s[i]] BY <1>1, <2>1
  <2>3. \A i \in 1 .. n - 1 : i \in 1 .. n BY <1>1
  <2>5. \A i \in 1 .. n - 1 : s[i] \in NodeIds BY <2>3, <1>1
  <2> HIDE DEF s, n
  <2>4. r \in [1 .. n - 1 -> NodeIds] BY <2>2, <2>5
  <2> HIDE DEF r
  <2> QED BY <2>1, <2>4
<1>6. [t.nodes EXCEPT ![Top(t)] = EmptyNode] \in [NodeIds -> Node]
    BY <1>1, EmptyIs
<1>7. Alloc(t) = [t EXCEPT !.nodes = [t.nodes EXCEPT ![Top(t)] = EmptyNode],
                           !.free = r]
    BY DEF Alloc
<1> HIDE DEF r
<1> QED BY <1>1, <1>4, <1>5, <1>6, <1>7 DEF Trees

\* A link set in a node.
LEMMA LinkType ==
    ASSUME NEW t \in Trees, NEW a \in NodeIds, NEW m \in Nibbles, NEW c \in Places
    PROVE  /\ [t EXCEPT !.nodes[a].kids[m] = c] \in Trees
           /\ [t EXCEPT !.nodes[a].kids[m] = c].free = t.free
           /\ [t EXCEPT !.nodes[a].kids[m] = c].root = t.root
           /\ [t EXCEPT !.nodes[a].kids[m] = c].nodes[a].kids[m] = c
           /\ \A n \in NodeIds : \A l \in Nibbles : n # a \/ l # m =>
                 [t EXCEPT !.nodes[a].kids[m] = c].nodes[n].kids[l]
                     = t.nodes[n].kids[l]
           /\ \A n \in NodeIds :
                 [t EXCEPT !.nodes[a].kids[m] = c].nodes[n].entry
                     = t.nodes[n].entry
<1> DEFINE d == [t.nodes[a] EXCEPT !.kids = [t.nodes[a].kids EXCEPT ![m] = c]]
           ns == [t.nodes EXCEPT ![a] = d]
           u == [t EXCEPT !.nodes[a].kids[m] = c]
<1>1. t.nodes[a].kids \in [Nibbles -> Places] /\ t.nodes[a] \in Node
      /\ t.nodes \in [NodeIds -> Node]
    BY TreeFields
<1>2. /\ [t.nodes[a].kids EXCEPT ![m] = c] \in [Nibbles -> Places]
      /\ [t.nodes[a].kids EXCEPT ![m] = c][m] = c
      /\ \A l \in Nibbles : l # m =>
            [t.nodes[a].kids EXCEPT ![m] = c][l] = t.nodes[a].kids[l]
    BY <1>1
<1>3. /\ d \in Node /\ d.kids = [t.nodes[a].kids EXCEPT ![m] = c]
      /\ d.entry = t.nodes[a].entry
    BY <1>1, <1>2 DEF Node, Places
<1>4. u = [t EXCEPT !.nodes = ns] OBVIOUS
<1> HIDE DEF d
<1>5. ns \in [NodeIds -> Node] /\ ns[a] = d
      /\ \A n \in NodeIds : n # a => ns[n] = t.nodes[n]
    BY <1>1, <1>3
<1> HIDE DEF ns
<1>6. u \in Trees /\ u.free = t.free /\ u.root = t.root /\ u.nodes = ns
    BY <1>4, <1>5 DEF Trees
<1> HIDE DEF u
<1>7. u.nodes[a].kids[m] = c BY <1>2, <1>3, <1>5, <1>6
<1>8. \A n \in NodeIds : \A l \in Nibbles : n # a \/ l # m =>
          u.nodes[n].kids[l] = t.nodes[n].kids[l]
    BY <1>2, <1>3, <1>5, <1>6
<1>9. \A n \in NodeIds : u.nodes[n].entry = t.nodes[n].entry
    BY <1>3, <1>5, <1>6
<1> QED BY <1>6, <1>7, <1>8, <1>9 DEF u

Linked(t, u, a, m, c) ==
    /\ u \in Trees /\ u.free = t.free /\ u.root = t.root
    /\ u.nodes[a].kids[m] = c
    /\ \A n \in NodeIds : \A l \in Nibbles : n # a \/ l # m =>
          u.nodes[n].kids[l] = t.nodes[n].kids[l]
    /\ \A n \in NodeIds : u.nodes[n].entry = t.nodes[n].entry

LEMMA LinkIs ==
    ASSUME NEW t \in Trees, NEW a \in NodeIds, NEW m \in Nibbles, NEW c \in Places,
           NEW u, u = [t EXCEPT !.nodes[a].kids[m] = c]
    PROVE  Linked(t, u, a, m, c)
BY LinkType DEF Linked

\* The child that a step adds.
Below(t, a, m) == [Alloc(t) EXCEPT !.nodes[a].kids[m] = Top(t)]

LEMMA StepCases ==
    ASSUME NEW w, NEW m
    PROVE  /\ w.at = NoNode => Step(w, m) = w
           /\ w.at # NoNode /\ Child(w.tree, w.at, m) # NoNode
                 => Step(w, m) = [w EXCEPT !.at = Child(w.tree, w.at, m)]
           /\ w.at # NoNode /\ Child(w.tree, w.at, m) = NoNode /\ w.tree.free = <<>>
                 => Step(w, m) = [w EXCEPT !.at = NoNode]
           /\ w.at # NoNode /\ Child(w.tree, w.at, m) = NoNode /\ w.tree.free # <<>>
                 => Step(w, m) = [tree |-> Below(w.tree, w.at, m), at |-> Top(w.tree)]
BY DEF Step, Below

LEMMA StepType ==
    ASSUME NEW w \in Walkers, NEW m \in Nibbles
    PROVE  Step(w, m) \in Walkers
<1>0. w.tree \in Trees /\ w.at \in Places /\ NoNode \in Places
    BY DEF Walkers, Places
<1>1. CASE w.at = NoNode BY <1>1, StepCases
<1>2. CASE w.at # NoNode /\ Child(w.tree, w.at, m) # NoNode
  <2>1. Child(w.tree, w.at, m) \in Places BY <1>0, KidIs
  <2> QED BY <1>2, <2>1, StepCases DEF Walkers
<1>3. CASE w.at # NoNode /\ Child(w.tree, w.at, m) = NoNode /\ w.tree.free = <<>>
    BY <1>0, <1>3, StepCases DEF Walkers
<1>4. CASE w.at # NoNode /\ Child(w.tree, w.at, m) = NoNode /\ w.tree.free # <<>>
  <2>1. /\ Top(w.tree) \in NodeIds /\ Alloc(w.tree) \in Trees
        /\ Top(w.tree) \in Places /\ w.at \in NodeIds
      BY <1>0, <1>4, AllocType DEF Places
  <2>2. Below(w.tree, w.at, m) \in Trees BY <2>1, LinkType DEF Below
  <2> QED BY <1>4, <2>1, <2>2, StepCases DEF Walkers
<1> QED BY <1>1, <1>2, <1>3, <1>4

Begun(t) == [tree |-> AllocRoot(t), at |-> AllocRoot(t).root]

LEMMA BegunType ==
    ASSUME NEW t \in Trees
    PROVE  Begun(t) \in Walkers
<1>1. CASE t.root # NoNode \/ t.free = <<>>
  <2>1. AllocRoot(t) = t BY <1>1 DEF AllocRoot
  <2> QED BY <2>1, TreeFields DEF Begun, Walkers
<1>2. CASE ~(t.root # NoNode \/ t.free = <<>>)
  <2>1. AllocRoot(t) = [Alloc(t) EXCEPT !.root = Top(t)] BY <1>2 DEF AllocRoot
  <2>2. Alloc(t) \in Trees /\ Top(t) \in Places BY <1>2, AllocType DEF Places
  <2>3. AllocRoot(t) \in Trees BY <2>1, <2>2 DEF Trees
  <2>4. AllocRoot(t).root \in Places BY <2>3, TreeFields
  <2> QED BY <2>3, <2>4 DEF Begun, Walkers
<1> QED BY <1>1, <1>2

\* The loop of univip_walk.
Creates(t, k, f) ==
    /\ f[0] = Begun(t)
    /\ \A i \in 1 .. Depth : f[i] = Step(f[i - 1], k[i])
    /\ WalkCreate(t, k) = f[Depth]

LEMMA CreatesIs ==
    ASSUME NEW t \in Trees, NEW k \in Keys
    PROVE  \E f : Creates(t, k, f)
<1>0. Depth \in Nat BY IndexAssumption
<1> DEFINE step == [z \in (1 .. Depth) \X Walkers |-> Step(z[2], k[z[1]])]
           G(i, f) == IF i = 0 THEN Begun(t) ELSE Step(f[i - 1], k[i])
<1>1. Begun(t) \in Walkers BY BegunType
<1>2. step \in [(1 .. Depth) \X Walkers -> Walkers]
  <2> SUFFICES ASSUME NEW z \in (1 .. Depth) \X Walkers
               PROVE  Step(z[2], k[z[1]]) \in Walkers
      OBVIOUS
  <2>1. z[1] \in 1 .. Depth /\ z[2] \in Walkers OBVIOUS
  <2> QED BY <2>1, StepType, KeyIs
<1>3. \A i \in 1 .. Depth, n \in Walkers : step[<<i, n>>] = Step(n, k[i])
    OBVIOUS
<1> HIDE DEF step
<1>4. \E f \in [0 .. Depth -> Walkers] : StepRuns(f, Depth, Begun(t), step)
    BY <1>0, <1>1, <1>2, StepsExist
<1>5. PICK f \in [0 .. Depth -> Walkers] : StepRuns(f, Depth, Begun(t), step)
    BY <1>4
<1>6. \A i \in 1 .. Depth : f[i] = Step(f[i - 1], k[i])
  <2> SUFFICES ASSUME NEW i \in 1 .. Depth PROVE f[i] = Step(f[i - 1], k[i])
      OBVIOUS
  <2>1. i - 1 \in 0 .. Depth BY <1>0
  <2>2. f[i - 1] \in Walkers BY <2>1
  <2> QED BY <2>2, <1>3, <1>5 DEF StepRuns
<1>7. f[0] = Begun(t) BY <1>5 DEF StepRuns
<1>8. f = [i \in 0 .. Depth |-> G(i, f)]
  <2>1. \A i \in 0 .. Depth : i = 0 \/ i \in 1 .. Depth BY <1>0
  <2>2. \A i \in 0 .. Depth : f[i] = G(i, f) BY <1>6, <1>7, <2>1
  <2>3. f = [i \in 0 .. Depth |-> f[i]] OBVIOUS
  <2> QED BY <2>2, <2>3
<1> DEFINE made == CHOOSE g : g = [i \in 0 .. Depth |-> G(i, g)]
<1>9. made = [i \in 0 .. Depth |-> G(i, made)] BY <1>8
<1>10. WalkCreate(t, k) = made[Depth] BY DEF WalkCreate, Begun
<1> HIDE DEF made
<1>11. made[0] = Begun(t)
  <2>1. 0 \in 0 .. Depth BY <1>0
  <2> QED BY <2>1, <1>9
<1>12. \A i \in 1 .. Depth : made[i] = Step(made[i - 1], k[i])
  <2> SUFFICES ASSUME NEW i \in 1 .. Depth
               PROVE  made[i] = Step(made[i - 1], k[i])
      OBVIOUS
  <2>1. i \in 0 .. Depth /\ i # 0 BY <1>0
  <2> QED BY <2>1, <1>9
<1> QED BY <1>10, <1>11, <1>12 DEF Creates

\* What is in use and empty in u, but for a, was so in t.
NoHollow(t, u, a) ==
    \A n \in NodeIds \ Free(u) :
        u.nodes[n] = EmptyNode /\ n # a => n \notin Free(t) /\ t.nodes[n] = EmptyNode

\* Old paths stay, and new ones go along k, to the level i at most.
OldStay(t, u) ==
    \A l \in Keys, j \in 0 .. Depth :
        Path(t, l)[j] # NoNode => Path(u, l)[j] = Path(t, l)[j]
NewAlong(t, u, k, i) ==
    \A l \in Keys, j \in 0 .. Depth :
        Path(u, l)[j] # Path(t, l)[j] => j <= i /\ Agree(k, l, j)
SameEntries(t, u) == \A n \in NodeIds : u.nodes[n].entry = t.nodes[n].entry

\* A walk for k that has come to the level i.
Created(t, k, w, i) ==
    /\ w \in Walkers /\ Sound(w.tree)
    /\ Free(w.tree) \subseteq Free(t) /\ SameEntries(t, w.tree)
    /\ OldStay(t, w.tree) /\ NewAlong(t, w.tree, k, i)
    /\ w.at # NoNode => w.at = Path(w.tree, k)[i] /\ NoHollow(t, w.tree, w.at)
    /\ w.at = NoNode => Path(w.tree, k)[Depth] = NoNode

LEMMA CreatedFirst ==
    ASSUME NEW t, Sound(t), NEW k \in Keys
    PROVE  Created(t, k, Begun(t), 0)
<1>0. t \in Trees /\ Begun(t) \in Walkers BY BegunType DEF Sound
<1>1. CASE t.root # NoNode \/ t.free = <<>>
  <2>1. Begun(t) = [tree |-> t, at |-> t.root] BY <1>1 DEF AllocRoot, Begun
  <2>2. Path(t, k)[0] = t.root BY <1>0, PathIs
  <2>3. t.root = NoNode => Path(t, k)[Depth] = NoNode
      BY NoRoot, DepthIs
  <2>4. Begun(t).tree = t /\ Begun(t).at = t.root BY <2>1
  <2> QED BY <1>0, <2>2, <2>3, <2>4
          DEF Created, SameEntries, OldStay, NewAlong, NoHollow
<1>2. CASE ~(t.root # NoNode \/ t.free = <<>>)
  <2> DEFINE c == Top(t)
             u == [Alloc(t) EXCEPT !.root = c]
  <2>1. Begun(t).tree = u /\ Begun(t).at = u.root BY <1>2 DEF AllocRoot, Begun
  <2>2. /\ c \in Free(t) /\ c \in NodeIds
        /\ Alloc(t) \in Trees /\ IsInjective(Alloc(t).free)
        /\ Alloc(t).nodes = t.nodes /\ Free(Alloc(t)) = Free(t) \ {c}
      BY <1>2, AllocIs
  <2> HIDE DEF c
  <2>3. /\ u \in Trees /\ u.free = Alloc(t).free /\ u.nodes = t.nodes /\ u.root = c
      BY <2>2 DEF Trees, Places
  <2>4. Free(u) = Free(t) \ {c} BY <2>2, <2>3 DEF Free
  <2> HIDE DEF u
  <2>5. /\ Sound(u)
        /\ \A l \in Keys : /\ Path(u, l)[0] = c
                           /\ \A i \in 1 .. Depth : Path(u, l)[i] = NoNode
      BY <1>2, <2>2, <2>3, <2>4, SoundRooted
  <2>6. /\ NodeIds = Free(t)
        /\ \A l \in Keys, i \in 0 .. Depth : Path(t, l)[i] = NoNode
      BY <1>2, NoRoot
  <2>7. OldStay(t, u) BY <2>6 DEF OldStay
  <2>8. NewAlong(t, u, k, 0)
    <3> SUFFICES ASSUME NEW l \in Keys, NEW j \in 0 .. Depth,
                        Path(u, l)[j] # Path(t, l)[j]
                 PROVE  j <= 0 /\ Agree(k, l, j)
        BY DEF NewAlong
    <3>1. j \notin 1 .. Depth BY <2>5, <2>6
    <3>2. j = 0 BY <3>1, DepthIs
    <3> QED BY <3>2 DEF Agree
  <2>9. NoHollow(t, u, c) BY <2>4, <2>6 DEF NoHollow
  <2>10. c # NoNode BY <2>2, IndexAssumption
  <2>11. SameEntries(t, u) /\ Free(u) \subseteq Free(t) BY <2>3, <2>4 DEF SameEntries
  <2> QED BY <1>0, <2>1, <2>3, <2>5, <2>7, <2>8, <2>9, <2>10, <2>11 DEF Created
<1> QED BY <1>1, <1>2

\* A step that makes a node.
LEMMA CreatedBelow ==
    ASSUME NEW t, Sound(t), NEW k \in Keys, NEW i \in 1 .. Depth, NEW w,
           Created(t, k, w, i - 1), w.at # NoNode,
           Child(w.tree, w.at, k[i]) = NoNode, w.tree.free # <<>>
    PROVE  Created(t, k, [tree |-> Below(w.tree, w.at, k[i]), at |-> Top(w.tree)], i)
<1> DEFINE s == w.tree
           a == w.at
           m == k[i]
           c == Top(s)
           u == Below(s, a, m)
<1>1. /\ s \in Trees /\ a \in NodeIds /\ Sound(s) /\ m \in Nibbles
      /\ i \in 0 .. Depth /\ i - 1 \in 0 .. Depth
      /\ a = Path(s, k)[i - 1] /\ NoHollow(t, s, a)
      /\ Free(s) \subseteq Free(t) /\ SameEntries(t, s)
      /\ OldStay(t, s) /\ NewAlong(t, s, k, i - 1)
    BY KeyIs, DepthIs DEF Created, Walkers, Places
<1>2. a \notin Free(s) BY <1>1, PathInUse
<1>3. /\ c \in Free(s) /\ c \in NodeIds /\ c \in Places
      /\ Alloc(s) \in Trees /\ IsInjective(Alloc(s).free)
      /\ Alloc(s).nodes = s.nodes /\ Alloc(s).root = s.root
      /\ Free(Alloc(s)) = Free(s) \ {c}
    BY <1>1, AllocIs DEF Places
<1>4. /\ u \in Trees /\ u.free = Alloc(s).free /\ u.root = s.root
      /\ u.nodes[a].kids[m] = c
      /\ \A n \in NodeIds : \A l \in Nibbles : n # a \/ l # m =>
            u.nodes[n].kids[l] = s.nodes[n].kids[l]
      /\ \A n \in NodeIds : u.nodes[n].entry = s.nodes[n].entry
  <2> DEFINE v == Alloc(s)
  <2>1. u = [v EXCEPT !.nodes[a].kids[m] = c] BY DEF Below
  <2>2. v \in Trees /\ v.nodes = s.nodes /\ v.root = s.root BY <1>3
  <2>3. a \in NodeIds /\ m \in Nibbles /\ c \in Places BY <1>1, <1>3
  <2> HIDE DEF s, a, m, c, v, u
  <2>4. Linked(v, u, a, m, c) BY <2>1, <2>2, <2>3, LinkIs
  <2> QED BY <2>2, <2>4 DEF v, Linked
<1>5. Child(s, a, m) = s.nodes[a].kids[m] /\ Child(s, a, m) = NoNode
    BY <1>1, KidIs DEF Places
<1>6. [tree |-> u, at |-> c].tree = u /\ [tree |-> u, at |-> c].at = c
    OBVIOUS
<1> SUFFICES Created(t, k, [tree |-> u, at |-> c], i)
    OBVIOUS
<1>20. w.tree = s /\ m = k[i] OBVIOUS
<1> HIDE DEF s, a, m, c, u
<1>7. Grows(s, u, a, m, c)
  <2>1. Free(u) = Free(s) \ {c} /\ IsInjective(u.free)
      BY <1>3, <1>4 DEF Free
  <2> QED BY <1>1, <1>2, <1>3, <1>4, <1>5, <2>1 DEF Grows
<1>8. Sound(u) /\ Path(u, k)[i] = c BY <1>1, <1>7, <1>20, SoundGrows
<1>9. \A l \in Keys, j \in 0 .. Depth : PathGrows(s, u, a, m, c, l, j)
    BY <1>1, <1>7, PathGrowsIs
<1>10. OldStay(t, u)
  <2> SUFFICES ASSUME NEW l \in Keys, NEW j \in 0 .. Depth, Path(t, l)[j] # NoNode
               PROVE  Path(u, l)[j] = Path(t, l)[j]
      BY DEF OldStay
  <2>1. Path(s, l)[j] = Path(t, l)[j] BY <1>1 DEF OldStay
  <2>2. PathGrows(s, u, a, m, c, l, j) BY <1>9
  <2> QED BY <2>1, <2>2 DEF PathGrows
<1>11. NewAlong(t, u, k, i)
  <2> SUFFICES ASSUME NEW l \in Keys, NEW j \in 0 .. Depth,
                      Path(u, l)[j] # Path(t, l)[j]
               PROVE  j <= i /\ Agree(k, l, j)
      BY DEF NewAlong
  <2>1. CASE Path(s, l)[j] # Path(t, l)[j]
    <3>1. j <= i - 1 /\ Agree(k, l, j) BY <1>1, <2>1 DEF NewAlong
    <3> QED BY <3>1, <1>1
  <2>2. CASE Path(s, l)[j] = Path(t, l)[j]
    <3>1. Takes(s, l, j, a, m) BY <1>9, <2>2 DEF PathGrows
    <3>2. j \in 1 .. Depth /\ Path(s, l)[j - 1] = a /\ l[j] = m
        BY <3>1, DepthIs DEF Takes
    <3>3. a # NoNode /\ j - 1 \in 0 .. Depth BY <1>1, <3>2, IndexAssumption, DepthIs
    <3>4. i - 1 = j - 1 /\ Agree(k, l, i - 1)
        BY <1>1, <3>2, <3>3, PathsApart
    <3>5. i = j BY <3>4, <3>2, <1>1
    <3>6. \A h \in 1 .. i : h \in 1 .. i - 1 \/ h = i BY <1>1
    <3>7. k[i] = l[i] BY <1>20, <3>2, <3>5
    <3>8. Agree(k, l, i) BY <3>4, <3>6, <3>7 DEF Agree
    <3> QED BY <3>5, <3>8
  <2> QED BY <2>1, <2>2
<1>12. NoHollow(t, u, c)
  <2> SUFFICES ASSUME NEW n \in NodeIds \ Free(u), u.nodes[n] = EmptyNode, n # c
               PROVE  n \notin Free(t) /\ t.nodes[n] = EmptyNode
      BY DEF NoHollow
  <2>1. n \notin Free(s) BY <1>7 DEF Grows
  <2>2. n # a
    <3> SUFFICES ASSUME n = a PROVE FALSE
        OBVIOUS
    <3>1. c = NoNode BY <1>1, <1>4, EmptyIs
    <3> QED BY <3>1, <1>3, IndexAssumption
  <2>3. s.nodes[n] \in Node BY <1>1, TreeFields
  <2>4. \A l \in Nibbles : s.nodes[n].kids[l] = NoNode
      BY <1>4, <2>2, EmptyIs
  <2>5. s.nodes[n].entry = NoEntry BY <1>4, EmptyIs
  <2>6. s.nodes[n] = EmptyNode BY <2>3, <2>4, <2>5, EmptyIs
  <2> QED BY <1>1, <2>1, <2>2, <2>6 DEF NoHollow
<1>13. Free(u) \subseteq Free(t) BY <1>1, <1>7 DEF Grows
<1>14. SameEntries(t, u) BY <1>1, <1>4 DEF SameEntries
<1>15. [tree |-> u, at |-> c] \in Walkers BY <1>3, <1>4 DEF Walkers
<1>16. c # NoNode BY <1>3, IndexAssumption
<1> QED BY <1>6, <1>8, <1>10, <1>11, <1>12, <1>13, <1>14, <1>15, <1>16 DEF Created

LEMMA CreatedNext ==
    ASSUME NEW t, Sound(t), NEW k \in Keys, NEW i \in 1 .. Depth, NEW w,
           Created(t, k, w, i - 1)
    PROVE  Created(t, k, Step(w, k[i]), i)
<1>1. /\ w \in Walkers /\ w.tree \in Trees /\ Sound(w.tree) /\ k[i] \in Nibbles
      /\ w.at \in Places /\ i \in 0 .. Depth /\ i - 1 \in 0 .. Depth
      /\ Step(w, k[i]) \in Walkers
    BY KeyIs, DepthIs, StepType DEF Created, Walkers
<1>2. NewAlong(t, w.tree, k, i)
  <2>1. NewAlong(t, w.tree, k, i - 1) BY DEF Created
  <2>2. \A j \in 0 .. Depth : j <= i - 1 => j <= i BY <1>1
  <2> QED BY <2>1, <2>2 DEF NewAlong
<1>3. CASE w.at = NoNode
  <2>1. Step(w, k[i]) = w BY <1>3, StepCases
  <2> QED BY <1>2, <1>3, <2>1 DEF Created
<1>4. CASE w.at # NoNode /\ Child(w.tree, w.at, k[i]) # NoNode
  <2> DEFINE c == Child(w.tree, w.at, k[i])
             v == Step(w, k[i])
  <2>1. v = [w EXCEPT !.at = c] BY <1>4, StepCases
  <2>2. v.tree = w.tree /\ v.at = c BY <2>1 DEF Walkers, Created
  <2>3. w.at = Path(w.tree, k)[i - 1] /\ NoHollow(t, w.tree, w.at)
      BY <1>4 DEF Created
  <2>4. Path(w.tree, k)[i] = c BY <1>1, <2>3, PathIs
  <2>5. w.at \in NodeIds /\ c = w.tree.nodes[w.at].kids[k[i]]
      BY <1>1, <1>4, KidIs
  <2>6. w.tree.nodes[w.at] # EmptyNode
      BY <1>1, <1>4, <2>5, EmptyIs
  <2>7. NoHollow(t, w.tree, c) BY <2>3, <2>6 DEF NoHollow
  <2>8. c # NoNode BY <1>4
  <2>9. v \in Walkers BY <1>1
  <2> HIDE DEF c, v
  <2>10. Created(t, k, v, i) BY <1>2, <2>2, <2>4, <2>7, <2>8, <2>9 DEF Created
  <2> QED BY <2>10 DEF v
<1>5. CASE w.at # NoNode /\ Child(w.tree, w.at, k[i]) = NoNode /\ w.tree.free = <<>>
  <2> DEFINE v == Step(w, k[i])
  <2>1. v = [w EXCEPT !.at = NoNode] BY <1>5, StepCases
  <2>2. v.tree = w.tree /\ v.at = NoNode BY <2>1 DEF Walkers, Created
  <2>3. w.at = Path(w.tree, k)[i - 1] BY <1>5 DEF Created
  <2>4. Path(w.tree, k)[i] = NoNode BY <1>1, <1>5, <2>3, PathIs
  <2>5. Depth \in i .. Depth BY <1>1, DepthIs
  <2>6. Path(w.tree, k)[Depth] = NoNode BY <1>1, <2>4, <2>5, PathCut
  <2>9. v \in Walkers BY <1>1
  <2> HIDE DEF v
  <2>10. Created(t, k, v, i) BY <1>2, <2>2, <2>6, <2>9 DEF Created
  <2> QED BY <2>10 DEF v
<1>6. CASE w.at # NoNode /\ Child(w.tree, w.at, k[i]) = NoNode /\ w.tree.free # <<>>
  <2>1. Step(w, k[i]) = [tree |-> Below(w.tree, w.at, k[i]), at |-> Top(w.tree)]
      BY <1>6, StepCases
  <2> QED BY <1>6, <2>1, CreatedBelow
<1> QED BY <1>3, <1>4, <1>5, <1>6

LEMMA WalkCreateIs ==
    ASSUME NEW t, Sound(t), NEW k \in Keys
    PROVE  Created(t, k, WalkCreate(t, k), Depth)
<1>0. t \in Trees BY DEF Sound
<1>1. PICK f : Creates(t, k, f) BY <1>0, CreatesIs
<1> DEFINE good == {i \in 0 .. Depth : Created(t, k, f[i], i)}
<1>2. 0 \in good BY <1>1, CreatedFirst, DepthIs DEF Creates
<1>3. ASSUME NEW i \in 1 .. Depth, i - 1 \in good PROVE i \in good
  <2>1. Created(t, k, f[i - 1], i - 1) /\ f[i] = Step(f[i - 1], k[i])
      BY <1>1, <1>3 DEF Creates
  <2>2. Created(t, k, f[i], i) BY <2>1, CreatedNext
  <2> QED BY <2>2, DepthIs
<1>4. good \in SUBSET Nat OBVIOUS
<1> HIDE DEF good
<1>5. \A i \in 0 .. Depth : i \in good BY DepthIs, <1>2, <1>3, <1>4, Upwards
<1>6. Depth \in 0 .. Depth BY DepthIs
<1>7. Created(t, k, f[Depth], Depth) BY <1>5, <1>6 DEF good
<1> QED BY <1>1, <1>7 DEF Creates

-----------------------------------------------------------------------------
(* An entry set in a node.                                                 *)

Marked(t, u, n, e) ==
    /\ u \in Trees /\ u.free = t.free /\ u.root = t.root
    /\ u.nodes[n].entry = e
    /\ \A o \in NodeIds : u.nodes[o].kids = t.nodes[o].kids
    /\ \A o \in NodeIds : o # n => u.nodes[o] = t.nodes[o]

LEMMA MarkIs ==
    ASSUME NEW t \in Trees, NEW n \in NodeIds, NEW e \in EntryIds \cup {NoEntry},
           NEW u, u = [t EXCEPT !.nodes[n].entry = e]
    PROVE  Marked(t, u, n, e)
<1> DEFINE d == [t.nodes[n] EXCEPT !.entry = e]
           ns == [t.nodes EXCEPT ![n] = d]
<1>1. t.nodes[n] \in Node /\ t.nodes \in [NodeIds -> Node] BY TreeFields
<1>2. d \in Node /\ d.kids = t.nodes[n].kids /\ d.entry = e BY <1>1 DEF Node
<1>3. u = [t EXCEPT !.nodes = ns] OBVIOUS
<1> HIDE DEF d
<1>4. ns \in [NodeIds -> Node] /\ ns[n] = d
      /\ \A o \in NodeIds : o # n => ns[o] = t.nodes[o]
    BY <1>1, <1>2
<1> HIDE DEF ns
<1>5. u \in Trees /\ u.free = t.free /\ u.root = t.root /\ u.nodes = ns
    BY <1>3, <1>4 DEF Trees
<1> QED BY <1>2, <1>4, <1>5 DEF Marked

LEMMA MarkedPath ==
    ASSUME NEW t \in Trees, NEW u, NEW n, NEW e, Marked(t, u, n, e), NEW k \in Keys
    PROVE  \A i \in 0 .. Depth : Path(u, k)[i] = Path(t, k)[i]
<1> DEFINE good == {i \in 0 .. Depth : Path(u, k)[i] = Path(t, k)[i]}
<1>0. u \in Trees /\ u.root = t.root
      /\ \A o \in NodeIds : u.nodes[o].kids = t.nodes[o].kids
    BY DEF Marked
<1>1. 0 \in good BY <1>0, PathIs, DepthIs
<1>2. ASSUME NEW i \in 1 .. Depth, i - 1 \in good PROVE i \in good
  <2>1. i \in 0 .. Depth /\ i - 1 \in 0 .. Depth BY DepthIs
  <2> DEFINE q == Path(t, k)[i - 1]
  <2>2. Path(u, k)[i - 1] = q BY <1>2
  <2>3. q \in Places /\ k[i] \in Nibbles BY <2>1, PathIs, KeyIs
  <2>4. Path(t, k)[i] = Child(t, q, k[i]) /\ Path(u, k)[i] = Child(u, q, k[i])
      BY <1>0, <2>2, PathIs
  <2> HIDE DEF q
  <2>5. Child(t, q, k[i]) = Child(u, q, k[i]) BY <1>0, <2>3, KidIs
  <2> QED BY <2>1, <2>4, <2>5
<1>3. good \in SUBSET Nat OBVIOUS
<1> HIDE DEF good
<1>4. \A i \in 0 .. Depth : i \in good BY DepthIs, <1>1, <1>2, <1>3, Upwards
<1> QED BY <1>4 DEF good

LEMMA SoundMarked ==
    ASSUME NEW t, Sound(t), NEW u, NEW n \in NodeIds \ Free(t), NEW e,
           Marked(t, u, n, e)
    PROVE  Sound(u) /\ Free(u) = Free(t)
<1>0. /\ t \in Trees /\ OneParent(t) /\ RootAbove(t) /\ NoneFree(t)
      /\ FreeEmpty(t) /\ AllReached(t) /\ IsInjective(t.free)
      /\ Free(t) \in SUBSET NodeIds
    BY TreeFields DEF Sound
<1>1. /\ u \in Trees /\ u.free = t.free /\ u.root = t.root
      /\ \A o \in NodeIds : u.nodes[o].kids = t.nodes[o].kids
      /\ \A o \in NodeIds : o # n => u.nodes[o] = t.nodes[o]
    BY DEF Marked
<1>2. Free(u) = Free(t) BY <1>1 DEF Free
<1>3. OneParent(u) BY <1>0, <1>1 DEF OneParent
<1>4. RootAbove(u) BY <1>0, <1>1 DEF RootAbove
<1>5. NoneFree(u) BY <1>0, <1>1, <1>2 DEF NoneFree
<1>6. FreeEmpty(u) BY <1>0, <1>1, <1>2 DEF FreeEmpty
<1>7. AllReached(u)
  <2> SUFFICES ASSUME NEW o \in NodeIds \ Free(u) PROVE OnPath(u, o)
      BY DEF AllReached
  <2>1. OnPath(t, o) BY <1>0, <1>2 DEF AllReached
  <2>2. PICK l \in Keys, j \in 0 .. Depth : Path(t, l)[j] = o
      BY <2>1 DEF OnPath
  <2>3. Path(u, l)[j] = o BY <1>0, <2>2, MarkedPath
  <2> QED BY <2>3 DEF OnPath
<1> QED BY <1>0, <1>1, <1>2, <1>3, <1>4, <1>5, <1>6, <1>7 DEF Sound

-----------------------------------------------------------------------------
(* univip_prune.                                                           *)

LEMMA NodeFreeType ==
    ASSUME NEW t \in Trees, NEW n \in NodeIds
    PROVE  NodeFree(t, n) \in Trees
<1>1. CASE Len(t.free) < MaxNodes
  <2>1. Append(t.free, n) \in Seq(NodeIds)
        /\ [t.nodes EXCEPT ![n] = EmptyNode] \in [NodeIds -> Node]
        /\ t.root \in Places
      BY TreeFields, EmptyIs
  <2>2. NodeFree(t, n) = [t EXCEPT !.nodes = [t.nodes EXCEPT ![n] = EmptyNode],
                                   !.free = Append(t.free, n)]
      BY <1>1 DEF NodeFree
  <2> QED BY <2>1, <2>2 DEF Trees
<1>2. CASE ~(Len(t.free) < MaxNodes) BY <1>2 DEF NodeFree
<1> QED BY <1>1, <1>2

LEMMA TrimType ==
    ASSUME NEW t \in Trees, NEW a \in NodeIds, NEW d \in NodeIds, NEW m \in Nibbles
    PROVE  Trim(t, a, d, m) \in Trees
<1> DEFINE v == [t EXCEPT !.nodes[a].kids[m] = NoNode]
<1>1. NoNode \in Places BY DEF Places
<1>2. v \in Trees BY <1>1, LinkType
<1>3. Trim(t, a, d, m) = IF IsEmpty(t, d) THEN NodeFree(v, d) ELSE t
    BY DEF Trim
<1> HIDE DEF v
<1> QED BY <1>2, <1>3, NodeFreeType

LEMMA TrimShrinks ==
    ASSUME NEW t, Sound(t), NEW a \in NodeIds, NEW d \in NodeIds, NEW m \in Nibbles,
           t.nodes[a].kids[m] = d, t.nodes[d] = EmptyNode
    PROVE  Shrinks(t, Trim(t, a, d, m), a, m, d)
<1> DEFINE v == [t EXCEPT !.nodes[a].kids[m] = NoNode]
           u == Trim(t, a, d, m)
<1>0. /\ t \in Trees /\ IsInjective(t.free) /\ NoneFree(t) /\ NoNode \in Places
      /\ NoNode \notin NodeIds
    BY IndexAssumption DEF Sound, Places
<1>1. u = NodeFree(v, d) BY DEF Trim, IsEmpty
<1>2. Linked(t, v, a, m, NoNode) BY <1>0, LinkIs
<1> HIDE DEF v, u
<1>3. /\ v \in Trees /\ v.free = t.free /\ v.root = t.root
      /\ v.nodes[a].kids[m] = NoNode
      /\ \A n \in NodeIds : \A l \in Nibbles : n # a \/ l # m =>
            v.nodes[n].kids[l] = t.nodes[n].kids[l]
      /\ \A n \in NodeIds : v.nodes[n].entry = t.nodes[n].entry
    BY <1>2 DEF Linked
<1>4. d # a /\ d \notin Free(t) BY <1>0, EmptyIs DEF NoneFree
<1>5. v.nodes[d] = EmptyNode
  <2>1. v.nodes[d] \in Node BY <1>3, TreeFields
  <2>2. \A l \in Nibbles : v.nodes[d].kids[l] = NoNode BY <1>3, <1>4, EmptyIs
  <2>3. v.nodes[d].entry = NoEntry BY <1>3, EmptyIs
  <2> QED BY <2>1, <2>2, <2>3, EmptyIs
<1>6. Free(v) = Free(t) BY <1>3 DEF Free
<1>7. /\ u \in Trees /\ IsInjective(u.free) /\ u.nodes = v.nodes
      /\ u.root = v.root /\ Free(u) = Free(v) \cup {d}
    BY <1>0, <1>1, <1>3, <1>4, <1>5, <1>6, NodeFreeIs
<1>8. Shrinks(t, u, a, m, d) BY <1>3, <1>6, <1>7 DEF Shrinks
<1> QED BY <1>8 DEF u

\* The loop of univip_prune: the i-th step is at the level Depth + 1 - i.
TrimAt(t, k, u, l) == Trim(u, Path(t, k)[l - 1], Path(t, k)[l], k[l])
Uprooted(u) ==
    IF IsEmpty(u, u.root) THEN [NodeFree(u, u.root) EXCEPT !.root = NoNode] ELSE u
Prunes(t, k, f) ==
    /\ f[0] = t
    /\ \A i \in 1 .. Depth : f[i] = TrimAt(t, k, f[i - 1], Depth + 1 - i)
    /\ Prune(t, k) = Uprooted(f[Depth])

LEMMA LevelIs ==
    \A i \in 1 .. Depth : /\ Depth + 1 - i \in 1 .. Depth
                          /\ Depth - i \in 0 .. Depth
                          /\ (Depth + 1 - i) - 1 = Depth - i
                          /\ Depth - (i - 1) = Depth + 1 - i
BY DepthIs

LEMMA PrunesIs ==
    ASSUME NEW t \in Trees, NEW k \in Keys, Walk(t, k) # NoNode
    PROVE  \E f : Prunes(t, k, f)
<1>0. Depth \in Nat BY IndexAssumption
<1> DEFINE step == [z \in (1 .. Depth) \X Trees |->
                       TrimAt(t, k, z[2], Depth + 1 - z[1])]
           G(i, f) == IF i = 0 THEN t ELSE TrimAt(t, k, f[i - 1], Depth + 1 - i)
<1>1. \A j \in 0 .. Depth : Path(t, k)[j] \in NodeIds
  <2>1. Depth \in 0 .. Depth BY <1>0
  <2>2. Path(t, k)[Depth] # NoNode BY DEF Walk
  <2> QED BY <2>1, <2>2, PathOpen
<1>2. step \in [(1 .. Depth) \X Trees -> Trees]
  <2> SUFFICES ASSUME NEW z \in (1 .. Depth) \X Trees
               PROVE  TrimAt(t, k, z[2], Depth + 1 - z[1]) \in Trees
      OBVIOUS
  <2> DEFINE l == Depth + 1 - z[1]
  <2>1. z[1] \in 1 .. Depth /\ z[2] \in Trees OBVIOUS
  <2>2. l \in 1 .. Depth BY <2>1, LevelIs
  <2> HIDE DEF l
  <2>3. l \in 0 .. Depth /\ l - 1 \in 0 .. Depth BY <2>2, DepthIs
  <2>4. Path(t, k)[l] \in NodeIds /\ Path(t, k)[l - 1] \in NodeIds
      BY <1>1, <2>3
  <2>5. TrimAt(t, k, z[2], l) \in Trees
      BY <2>1, <2>2, <2>4, TrimType, KeyIs DEF TrimAt
  <2> QED BY <2>5 DEF l
<1>3. \A i \in 1 .. Depth, u \in Trees :
          step[<<i, u>>] = TrimAt(t, k, u, Depth + 1 - i)
    OBVIOUS
<1> HIDE DEF step
<1>4. \E f \in [0 .. Depth -> Trees] : StepRuns(f, Depth, t, step)
    BY <1>0, <1>2, StepsExist
<1>5. PICK f \in [0 .. Depth -> Trees] : StepRuns(f, Depth, t, step)
    BY <1>4
<1>6. \A i \in 1 .. Depth : f[i] = TrimAt(t, k, f[i - 1], Depth + 1 - i)
  <2> SUFFICES ASSUME NEW i \in 1 .. Depth
               PROVE  f[i] = TrimAt(t, k, f[i - 1], Depth + 1 - i)
      OBVIOUS
  <2>1. i - 1 \in 0 .. Depth BY <1>0
  <2>2. f[i - 1] \in Trees BY <2>1
  <2> QED BY <2>2, <1>3, <1>5 DEF StepRuns
<1>7. f[0] = t BY <1>5 DEF StepRuns
<1>8. f = [i \in 0 .. Depth |-> G(i, f)]
  <2>1. \A i \in 0 .. Depth : i = 0 \/ i \in 1 .. Depth BY <1>0
  <2>2. \A i \in 0 .. Depth : f[i] = G(i, f) BY <1>6, <1>7, <2>1
  <2>3. f = [i \in 0 .. Depth |-> f[i]] OBVIOUS
  <2> QED BY <2>2, <2>3
<1> DEFINE trimmed == CHOOSE g : g = [i \in 0 .. Depth |-> G(i, g)]
<1>9. trimmed = [i \in 0 .. Depth |-> G(i, trimmed)] BY <1>8
<1>10. Prune(t, k) = Uprooted(trimmed[Depth])
  <2>1. Path(t, k)[Depth] # NoNode BY DEF Walk
  <2> QED BY <2>1 DEF Prune, Uprooted, TrimAt
<1> HIDE DEF trimmed
<1>11. trimmed[0] = t
  <2>1. 0 \in 0 .. Depth BY <1>0
  <2> QED BY <2>1, <1>9
<1>12. \A i \in 1 .. Depth :
          trimmed[i] = TrimAt(t, k, trimmed[i - 1], Depth + 1 - i)
  <2> SUFFICES ASSUME NEW i \in 1 .. Depth
               PROVE  trimmed[i] = TrimAt(t, k, trimmed[i - 1], Depth + 1 - i)
      OBVIOUS
  <2>1. i \in 0 .. Depth /\ i # 0 BY <1>0
  <2> QED BY <2>1, <1>9
<1> QED BY <1>10, <1>11, <1>12 DEF Prunes

\* Paths are only cut, and none that leads to an entry.
OnlyCut(t, u) ==
    \A l \in Keys, j \in 0 .. Depth :
        Path(u, l)[j] = Path(t, l)[j] \/ Path(u, l)[j] = NoNode
EntriesKept(t, u) ==
    \A l \in Keys, j \in 0 .. Depth :
        Path(t, l)[j] # NoNode /\ t.nodes[Path(t, l)[j]].entry # NoEntry
            => Path(u, l)[j] = Path(t, l)[j]

\* After i steps of the loop.
Trimmed(t, k, u, i) ==
    /\ Sound(u) /\ Free(t) \subseteq Free(u) /\ SameEntries(t, u)
    /\ \A j \in 0 .. Depth - i : Path(u, k)[j] = Path(t, k)[j]
    /\ OnlyCut(t, u) /\ EntriesKept(t, u)
    /\ i = 0 => u = t
    /\ i # 0 => Path(u, k)[Depth] = NoNode
    /\ \A n \in NodeIds \ Free(u) : u.nodes[n] = EmptyNode =>
          \/ n = Path(t, k)[Depth - i]
          \/ t.nodes[n] = EmptyNode /\ n # Path(t, k)[Depth]

LEMMA TrimmedFirst ==
    ASSUME NEW t, Sound(t), NEW k \in Keys
    PROVE  Trimmed(t, k, t, 0)
<1>1. Depth - 0 = Depth BY DepthIs
<1>2. \A n \in NodeIds \ Free(t) : t.nodes[n] = EmptyNode =>
          \/ n = Path(t, k)[Depth]
          \/ t.nodes[n] = EmptyNode /\ n # Path(t, k)[Depth]
    OBVIOUS
<1> QED BY <1>1, <1>2 DEF Trimmed, SameEntries, OnlyCut, EntriesKept

LEMMA TrimmedNext ==
    ASSUME NEW t, Sound(t), NEW k \in Keys, Path(t, k)[Depth] # NoNode,
           t.nodes[Path(t, k)[Depth]] = EmptyNode,
           NEW i \in 1 .. Depth, NEW u, Trimmed(t, k, u, i - 1)
    PROVE  Trimmed(t, k, TrimAt(t, k, u, Depth + 1 - i), i)
<1> DEFINE h == Depth + 1 - i
           a == Path(t, k)[h - 1]
           d == Path(t, k)[h]
           m == k[h]
           v == TrimAt(t, k, u, h)
<1>1. /\ h \in 1 .. Depth /\ h - 1 \in 0 .. Depth /\ h \in 0 .. Depth
      /\ h - 1 = Depth - i /\ Depth - (i - 1) = h /\ i # 0 /\ h \in 0 .. h
      /\ h - 1 \in 0 .. h
    BY LevelIs, DepthIs
<1> HIDE DEF h
<1>2. /\ t \in Trees /\ Sound(u) /\ u \in Trees /\ Free(t) \subseteq Free(u)
      /\ SameEntries(t, u) /\ OnlyCut(t, u) /\ EntriesKept(t, u)
      /\ \A j \in 0 .. h : Path(u, k)[j] = Path(t, k)[j]
      /\ i - 1 = 0 => u = t
      /\ i - 1 # 0 => Path(u, k)[Depth] = NoNode
      /\ \A n \in NodeIds \ Free(u) : u.nodes[n] = EmptyNode =>
            n = d \/ (t.nodes[n] = EmptyNode /\ n # Path(t, k)[Depth])
    BY <1>1 DEF Trimmed, Sound
<1>3. Depth \in 0 .. Depth /\ \A j \in 0 .. Depth : Path(t, k)[j] \in NodeIds
    BY <1>2, DepthIs, PathOpen
<1>4. /\ a \in NodeIds /\ d \in NodeIds /\ m \in Nibbles /\ NoNode \notin NodeIds
      /\ Path(u, k)[h - 1] = a /\ Path(u, k)[h] = d
    BY <1>1, <1>2, <1>3, KeyIs, IndexAssumption
<1>5. u.nodes[a].kids[m] = d
    BY <1>1, <1>2, <1>4, PathKid
<1>6. v = Trim(u, a, d, m) BY DEF TrimAt
<1>20. i = 1 => h = Depth BY <1>1, DepthIs
<1>21. i - 1 = 0 => i = 1 BY DepthIs
<1>22. \A j \in 0 .. Depth - i : j \in 0 .. h /\ j # h /\ j \in 0 .. Depth
    BY <1>1, DepthIs
<1> SUFFICES Trimmed(t, k, v, i)
    BY DEF h
<1> HIDE DEF v
<1>7. CASE u.nodes[d] # EmptyNode
  <2>1. v = u BY <1>6, <1>7 DEF Trim, IsEmpty
  <2>2. i # 1 BY <1>2, <1>7, <1>20
  <2>3. Path(u, k)[Depth] = NoNode BY <1>2, <1>21, <2>2
  <2>4. \A n \in NodeIds \ Free(u) : u.nodes[n] = EmptyNode =>
            \/ n = Path(t, k)[Depth - i]
            \/ t.nodes[n] = EmptyNode /\ n # Path(t, k)[Depth]
      BY <1>2, <1>7
  <2>5. \A j \in 0 .. Depth - i : Path(u, k)[j] = Path(t, k)[j]
      BY <1>2, <1>22
  <2> QED BY <1>1, <1>2, <2>1, <2>3, <2>4, <2>5 DEF Trimmed
<1>8. CASE u.nodes[d] = EmptyNode
  <2>1. Shrinks(u, v, a, m, d)
      BY <1>2, <1>4, <1>5, <1>6, <1>8, TrimShrinks
  <2>2. Sound(v) BY <1>2, <2>1, SoundShrinks
  <2>3. \A l \in Keys, j \in 0 .. Depth : PathShrinks(u, v, d, l, j)
      BY <1>2, <2>1, PathShrinksIs
  <2> HIDE DEF a, d, m
  <2>4. Free(t) \subseteq Free(v) /\ Free(v) = Free(u) \cup {d}
      BY <1>2, <2>1 DEF Shrinks
  <2>5. SameEntries(t, v) BY <1>2, <2>1 DEF Shrinks, SameEntries
  <2>6. \A j \in 0 .. Depth - i : Path(v, k)[j] = Path(t, k)[j]
    <3> SUFFICES ASSUME NEW j \in 0 .. Depth - i
                 PROVE  Path(v, k)[j] = Path(t, k)[j]
        OBVIOUS
    <3>1. j \in 0 .. h /\ j # h /\ j \in 0 .. Depth BY <1>22
    <3>2. Path(u, k)[j] = Path(t, k)[j] BY <1>2, <3>1
    <3>3. Path(u, k)[j] # d
      <4> SUFFICES ASSUME Path(u, k)[j] = d PROVE FALSE
          OBVIOUS
      <4>1. Path(u, k)[h] = Path(u, k)[j] /\ Path(u, k)[h] # NoNode BY <1>4
      <4>2. h = j BY <1>1, <1>2, <3>1, <4>1, PathsApart
      <4> QED BY <3>1, <4>2
    <3>4. PathShrinks(u, v, d, k, j) BY <2>3, <3>1
    <3> QED BY <3>2, <3>3, <3>4 DEF PathShrinks
  <2>7. OnlyCut(t, v)
    <3> SUFFICES ASSUME NEW l \in Keys, NEW j \in 0 .. Depth
                 PROVE  Path(v, l)[j] = Path(t, l)[j] \/ Path(v, l)[j] = NoNode
        BY DEF OnlyCut
    <3>1. Path(u, l)[j] = Path(t, l)[j] \/ Path(u, l)[j] = NoNode
        BY <1>2 DEF OnlyCut
    <3>2. PathShrinks(u, v, d, l, j) BY <2>3
    <3> QED BY <3>1, <3>2 DEF PathShrinks
  <2>8. EntriesKept(t, v)
    <3> SUFFICES ASSUME NEW l \in Keys, NEW j \in 0 .. Depth,
                        Path(t, l)[j] # NoNode,
                        t.nodes[Path(t, l)[j]].entry # NoEntry
                 PROVE  Path(v, l)[j] = Path(t, l)[j]
        BY DEF EntriesKept
    <3> DEFINE p == Path(t, l)[j]
    <3>1. Path(u, l)[j] = p BY <1>2 DEF EntriesKept
    <3>2. p \in NodeIds /\ t.nodes[p].entry # NoEntry
      <4>1. p \in Places /\ p # NoNode BY <1>2, PathIs
      <4> QED BY <4>1 DEF Places
    <3> HIDE DEF p
    <3>3. u.nodes[p].entry # NoEntry BY <1>2, <3>2 DEF SameEntries
    <3>4. p # d BY <1>8, <3>3, EmptyIs
    <3>5. PathShrinks(u, v, d, l, j) BY <2>3
    <3>6. Path(v, l)[j] = p BY <3>1, <3>4, <3>5 DEF PathShrinks
    <3> QED BY <3>6 DEF p
  <2>9. Path(v, k)[Depth] = NoNode
    <3>1. PathShrinks(u, v, d, k, Depth) BY <2>3, <1>3
    <3>2. Path(u, k)[Depth] = d \/ Path(u, k)[Depth] = NoNode
        BY <1>2, <1>4, <1>20, <1>21
    <3> QED BY <3>1, <3>2 DEF PathShrinks
  <2>10. ASSUME NEW n \in NodeIds \ Free(v), v.nodes[n] = EmptyNode
         PROVE  \/ n = Path(t, k)[Depth - i]
                \/ t.nodes[n] = EmptyNode /\ n # Path(t, k)[Depth]
    <3>1. n \notin Free(u) /\ n # d BY <2>4, <2>10
    <3>2. CASE n = a BY <1>1, <3>2 DEF a
    <3>3. CASE n # a
      <4>1. u.nodes[n] \in Node BY <1>2, TreeFields
      <4>2. \A l \in Nibbles : u.nodes[n].kids[l] = NoNode
          BY <2>1, <2>10, <3>3, EmptyIs DEF Shrinks
      <4>3. u.nodes[n].entry = NoEntry BY <2>1, <2>10, EmptyIs DEF Shrinks
      <4>4. u.nodes[n] = EmptyNode BY <4>1, <4>2, <4>3, EmptyIs
      <4> QED BY <1>2, <3>1, <4>4 DEF d
    <3> QED BY <3>2, <3>3
  <2> QED BY <1>1, <2>2, <2>4, <2>5, <2>6, <2>7, <2>8, <2>9, <2>10 DEF Trimmed
<1> QED BY <1>7, <1>8

\* A root without children and entry, freed.
LEMMA UprootIs ==
    ASSUME NEW u, Sound(u), u.root # NoNode, u.nodes[u.root] = EmptyNode
    PROVE  /\ Sound(Uprooted(u)) /\ Uprooted(u).root = NoNode
           /\ Uprooted(u).nodes = u.nodes /\ Free(Uprooted(u)) = NodeIds
           /\ \A l \in Keys, j \in 1 .. Depth : Path(u, l)[j] = NoNode
<1> DEFINE r == u.root
           v == Uprooted(u)
<1>0. /\ u \in Trees /\ IsInjective(u.free) /\ NoneFree(u) /\ FreeEmpty(u)
      /\ AllReached(u) /\ Free(u) \in SUBSET NodeIds /\ NoNode \notin NodeIds
    BY TreeFields, IndexAssumption DEF Sound
<1>1. r \in NodeIds /\ r \notin Free(u)
    BY <1>0, TreeFields DEF Places, NoneFree
<1>2. ASSUME NEW l \in Keys, NEW j \in 1 .. Depth PROVE Path(u, l)[j] = NoNode
  <2>1. 1 \in 1 .. Depth /\ 1 \in 0 .. Depth /\ 1 - 1 = 0 /\ j \in 1 .. Depth
      BY DepthIs
  <2>2. Path(u, l)[1] = Child(u, r, l[1]) /\ l[1] \in Nibbles /\ r \in Places
      BY <1>0, <1>1, <2>1, PathIs, KeyIs DEF Places
  <2>3. Path(u, l)[1] = NoNode BY <1>0, <1>1, <2>2, KidIs, EmptyIs
  <2> QED BY <1>0, <2>1, <2>3, PathCut
<1>3. Free(u) \cup {r} = NodeIds
  <2> SUFFICES ASSUME NEW n \in NodeIds, n \notin Free(u) PROVE n = r
      BY <1>0, <1>1
  <2>1. OnPath(u, n) BY <1>0 DEF AllReached
  <2>2. PICK l \in Keys, j \in 0 .. Depth : Path(u, l)[j] = n BY <2>1 DEF OnPath
  <2>3. j \notin 1 .. Depth BY <1>0, <1>2, <2>2
  <2>4. j = 0 BY <2>3, DepthIs
  <2> QED BY <1>0, <2>2, <2>4, PathIs
<1>4. v = [NodeFree(u, r) EXCEPT !.root = NoNode] BY DEF Uprooted, IsEmpty
<1>5. /\ NodeFree(u, r) \in Trees /\ IsInjective(NodeFree(u, r).free)
      /\ NodeFree(u, r).nodes = u.nodes
      /\ Free(NodeFree(u, r)) = NodeIds
    BY <1>0, <1>1, <1>3, NodeFreeIs
<1> HIDE DEF v
<1>6. /\ v \in Trees /\ v.free = NodeFree(u, r).free /\ v.nodes = u.nodes
      /\ v.root = NoNode
    BY <1>4, <1>5 DEF Trees, Places
<1>7. Free(v) = NodeIds BY <1>5, <1>6 DEF Free
<1>8. \A n \in NodeIds : v.nodes[n] = EmptyNode BY <1>0, <1>3, <1>6 DEF FreeEmpty
<1>9. \A n \in NodeIds : \A m \in Nibbles : v.nodes[n].kids[m] = NoNode
    BY <1>8, EmptyIs
<1>10. OneParent(v) /\ RootAbove(v) BY <1>6, <1>9 DEF OneParent, RootAbove
<1>11. NoneFree(v) BY <1>0, <1>6, <1>7, <1>9 DEF NoneFree
<1>12. FreeEmpty(v) /\ AllReached(v) BY <1>7, <1>8 DEF FreeEmpty, AllReached
<1>13. Sound(v) BY <1>5, <1>6, <1>10, <1>11, <1>12 DEF Sound
<1> QED BY <1>2, <1>6, <1>7, <1>13 DEF v

\* v is t without what the walk for k led to alone.
Pruned(t, k, v) ==
    /\ Sound(v) /\ SameEntries(t, v) /\ Free(t) \subseteq Free(v)
    /\ Walk(v, k) = NoNode
    /\ \A l \in Keys : Walk(v, l) = Walk(t, l) \/ Walk(v, l) = NoNode
    /\ \A l \in Keys :
          Walk(t, l) # NoNode /\ t.nodes[Walk(t, l)].entry # NoEntry
              => Walk(v, l) = Walk(t, l)
    /\ \A n \in NodeIds \ Free(v) : v.nodes[n] = EmptyNode =>
          t.nodes[n] = EmptyNode /\ n # Walk(t, k)

LEMMA PruneIs ==
    ASSUME NEW t, Sound(t), NEW k \in Keys, Walk(t, k) # NoNode,
           t.nodes[Walk(t, k)] = EmptyNode
    PROVE  Pruned(t, k, Prune(t, k))
<1>0. t \in Trees BY DEF Sound
<1>1. PICK f : Prunes(t, k, f) BY <1>0, PrunesIs
<1>2. Path(t, k)[Depth] # NoNode /\ t.nodes[Path(t, k)[Depth]] = EmptyNode
    BY DEF Walk
<1> DEFINE good == {i \in 0 .. Depth : Trimmed(t, k, f[i], i)}
<1>3. 0 \in good BY <1>1, TrimmedFirst, DepthIs DEF Prunes
<1>4. ASSUME NEW i \in 1 .. Depth, i - 1 \in good PROVE i \in good
  <2>1. /\ Trimmed(t, k, f[i - 1], i - 1)
        /\ f[i] = TrimAt(t, k, f[i - 1], Depth + 1 - i)
      BY <1>1, <1>4 DEF Prunes
  <2>2. Trimmed(t, k, f[i], i) BY <1>2, <2>1, TrimmedNext
  <2> QED BY <2>2, DepthIs
<1>5. good \in SUBSET Nat OBVIOUS
<1> HIDE DEF good
<1>6. \A i \in 0 .. Depth : i \in good BY DepthIs, <1>3, <1>4, <1>5, Upwards
<1>7. Depth \in 0 .. Depth /\ Depth - Depth = 0 /\ 0 \in 0 .. 0 /\ 0 \in 0 .. Depth
      /\ Depth # 0 /\ Depth \in 1 .. Depth
    BY DepthIs
<1> DEFINE u == f[Depth]
           v == Prune(t, k)
<1>8. Trimmed(t, k, u, Depth) BY <1>6, <1>7 DEF good
<1>9. v = Uprooted(u) BY <1>1 DEF Prunes
<1> HIDE DEF u, v
<1>10. /\ Sound(u) /\ u \in Trees /\ Free(t) \subseteq Free(u) /\ SameEntries(t, u)
       /\ Path(u, k)[0] = Path(t, k)[0] /\ Path(u, k)[Depth] = NoNode
       /\ OnlyCut(t, u) /\ EntriesKept(t, u)
       /\ \A n \in NodeIds \ Free(u) : u.nodes[n] = EmptyNode =>
             \/ n = Path(t, k)[0]
             \/ t.nodes[n] = EmptyNode /\ n # Path(t, k)[Depth]
    BY <1>7, <1>8 DEF Trimmed, Sound
<1>11. u.root = Path(t, k)[0] /\ u.root \in NodeIds /\ u.root # NoNode
  <2>1. Path(t, k)[0] \in NodeIds BY <1>0, <1>2, <1>7, PathOpen
  <2> QED BY <2>1, <1>10, PathIs, IndexAssumption
<1>12. \A l \in Keys : Walk(u, l) = Walk(t, l) \/ Walk(u, l) = NoNode
    BY <1>7, <1>10 DEF OnlyCut, Walk
<1>13. \A l \in Keys :
          Walk(t, l) # NoNode /\ t.nodes[Walk(t, l)].entry # NoEntry
              => Walk(u, l) = Walk(t, l)
    BY <1>7, <1>10 DEF EntriesKept, Walk
<1>14. CASE u.nodes[u.root] # EmptyNode
  <2>1. v = u BY <1>9, <1>14 DEF Uprooted, IsEmpty
  <2>2. \A n \in NodeIds \ Free(u) : u.nodes[n] = EmptyNode =>
            t.nodes[n] = EmptyNode /\ n # Walk(t, k)
      BY <1>10, <1>11, <1>14 DEF Walk
  <2>3. Walk(u, k) = NoNode BY <1>10 DEF Walk
  <2>4. Pruned(t, k, v) BY <1>10, <1>12, <1>13, <2>1, <2>2, <2>3 DEF Pruned
  <2> QED BY <2>4 DEF v
<1>15. CASE u.nodes[u.root] = EmptyNode
  <2>1. /\ Sound(v) /\ v.root = NoNode /\ v.nodes = u.nodes /\ Free(v) = NodeIds
        /\ \A l \in Keys, j \in 1 .. Depth : Path(u, l)[j] = NoNode
      BY <1>9, <1>10, <1>11, <1>15, UprootIs
  <2>2. \A l \in Keys : Walk(v, l) = NoNode BY <1>7, <2>1, NoRoot DEF Walk
  <2>3. \A l \in Keys : Walk(u, l) = NoNode BY <1>7, <2>1 DEF Walk
  <2>4. \A l \in Keys : Walk(v, l) = Walk(u, l) BY <2>2, <2>3
  <2>5. SameEntries(t, v) BY <1>10, <2>1 DEF SameEntries
  <2>6. Free(t) \subseteq Free(v) BY <1>0, <2>1, TreeFields
  <2>7. Pruned(t, k, v)
      BY <1>12, <1>13, <2>1, <2>2, <2>4, <2>5, <2>6 DEF Pruned
  <2> QED BY <2>7 DEF v
<1> QED BY <1>14, <1>15

-----------------------------------------------------------------------------
(* Entries and the nodes they are filed in.                                *)

KeyIn(es, i) == Hash[es[i].path]
Table(es) == /\ DOMAIN es \subseteq EntryIds
             /\ \A i \in DOMAIN es : es[i] \in Entry /\ KeyIn(es, i) \in Keys

\* A node with an entry is where the key of the entry leads.
Owned(t, es) ==
    \A n \in NodeIds : t.nodes[n].entry # NoEntry =>
        t.nodes[n].entry \in DOMAIN es /\ Walk(t, KeyIn(es, t.nodes[n].entry)) = n
\* The key of an entry leads to a node with that entry.
Filled(t, es) ==
    \A i \in DOMAIN es : /\ Walk(t, KeyIn(es, i)) # NoNode
                         /\ t.nodes[Walk(t, KeyIn(es, i))].entry = i
\* A walk that does not end leads to an entry.
LeavesFull(t) ==
    \A k \in Keys : Walk(t, k) # NoNode => t.nodes[Walk(t, k)].entry # NoEntry
Filed(t, es) == Owned(t, es) /\ Filled(t, es) /\ LeavesFull(t)

Hollows(t) == {n \in NodeIds \ Free(t) : t.nodes[n] = EmptyNode}

LEMMA WholeAgree ==
    ASSUME NEW k \in Keys, NEW l \in Keys, Agree(k, l, Depth)
    PROVE  k = l
<1>1. k = [m \in 1 .. Depth |-> k[m]] /\ l = [m \in 1 .. Depth |-> l[m]]
    BY DEF Keys
<1>2. \A m \in 1 .. Depth : k[m] = l[m] BY DEF Agree
<1>3. [m \in 1 .. Depth |-> k[m]] = [m \in 1 .. Depth |-> l[m]] BY <1>2
<1> QED BY <1>1, <1>3

LEMMA WalkIs ==
    ASSUME NEW t, Sound(t), NEW k \in Keys
    PROVE  /\ Walk(t, k) \in Places
           /\ Walk(t, k) # NoNode => Walk(t, k) \in NodeIds \ Free(t)
           /\ \A l \in Keys : Walk(t, l) = Walk(t, k) /\ Walk(t, k) # NoNode => l = k
<1>1. t \in Trees /\ Depth \in 0 .. Depth BY DepthIs DEF Sound
<1>2. Walk(t, k) \in Places BY <1>1, PathIs DEF Walk
<1>3. Walk(t, k) # NoNode => Walk(t, k) \in NodeIds \ Free(t)
    BY <1>1, <1>2, PathInUse DEF Walk, Places
<1>4. ASSUME NEW l \in Keys, Walk(t, l) = Walk(t, k), Walk(t, k) # NoNode
      PROVE  l = k
  <2>1. Agree(k, l, Depth) BY <1>1, <1>4, PathsApart DEF Walk
  <2> QED BY <2>1, WholeAgree
<1> QED BY <1>2, <1>3, <1>4

\* What a walk leads to has no children.
LEMMA LeafBare ==
    ASSUME NEW t, Sound(t), NEW k \in Keys, Walk(t, k) # NoNode,
           NEW m \in Nibbles
    PROVE  t.nodes[Walk(t, k)].kids[m] = NoNode
<1> DEFINE n == Walk(t, k)
           c == t.nodes[n].kids[m]
<1> SUFFICES ASSUME c # NoNode PROVE FALSE
    OBVIOUS
<1>1. /\ t \in Trees /\ OneParent(t) /\ RootAbove(t) /\ NoneFree(t) /\ AllReached(t)
      /\ Depth \in 0 .. Depth
    BY DepthIs DEF Sound
<1>2. n \in NodeIds BY WalkIs
<1>3. c \in NodeIds /\ c \notin Free(t)
    BY <1>1, <1>2, TreeFields DEF Places, NoneFree
<1>4. OnPath(t, c) BY <1>1, <1>3 DEF AllReached
<1>5. PICK l \in Keys, j \in 0 .. Depth : Path(t, l)[j] = c BY <1>4 DEF OnPath
<1>6. t.root # c BY <1>1, <1>2 DEF RootAbove
<1>7. j # 0 BY <1>1, <1>5, <1>6, PathIs
<1>8. j \in 1 .. Depth /\ j - 1 \in 0 .. Depth /\ j - 1 # Depth BY <1>7, DepthIs
<1> DEFINE o == Path(t, l)[j - 1]
<1>9. o \in NodeIds /\ l[j] \in Nibbles /\ t.nodes[o].kids[l[j]] = c
    BY <1>1, <1>5, <1>8, PathKid
<1>10. t.nodes[n].kids[m] = c /\ c # NoNode OBVIOUS
<1>11. Path(t, k)[Depth] = n /\ n # NoNode BY DEF Walk
<1> HIDE DEF c, n
<1>12. o = n
  <2> HIDE DEF o
  <2> QED BY <1>1, <1>2, <1>9, <1>10, OneParentIs
<1>13. Depth = j - 1 BY <1>1, <1>8, <1>11, <1>12, PathsApart
<1> QED BY <1>8, <1>13

\* Two entries have two keys.
LEMMA KeysApart ==
    ASSUME NEW t, NEW es, Filled(t, es), NEW i \in DOMAIN es, NEW j \in DOMAIN es,
           KeyIn(es, i) = KeyIn(es, j)
    PROVE  i = j
BY DEF Filled

\* A tree that a walk with create has grown, whether or not it came to an end.
LEMMA FiledCreated ==
    ASSUME NEW t, Sound(t), NEW es, Table(es), Filed(t, es),
           NEW k \in Keys, Walk(t, k) = NoNode, NEW w, Created(t, k, w, Depth)
    PROVE  /\ Owned(w.tree, es) /\ Filled(w.tree, es)
           /\ \A l \in Keys : l # k => Walk(w.tree, l) = Walk(t, l)
           /\ w.at # NoNode => /\ w.at \in NodeIds \ Free(w.tree)
                               /\ w.at = Walk(w.tree, k)
                               /\ w.tree.nodes[w.at].entry = NoEntry
           /\ w.at = NoNode => Walk(w.tree, k) = NoNode
<1> DEFINE u == w.tree
<1>1. /\ Sound(u) /\ SameEntries(t, u) /\ OldStay(t, u) /\ NewAlong(t, u, k, Depth)
      /\ Depth \in 0 .. Depth
    BY DepthIs DEF Created
<1>2. w.at = NoNode => Walk(u, k) = NoNode BY DEF Created, Walk
<1>3. w.at # NoNode => w.at = Walk(u, k) BY DEF Created, Walk
<1> HIDE DEF u
<1>4. \A l \in Keys : Walk(t, l) # NoNode => Walk(u, l) = Walk(t, l)
    BY <1>1 DEF OldStay, Walk
<1>5. ASSUME NEW l \in Keys, l # k PROVE Walk(u, l) = Walk(t, l)
  <2> SUFFICES ASSUME Walk(u, l) # Walk(t, l) PROVE FALSE
      OBVIOUS
  <2>1. Agree(k, l, Depth) BY <1>1 DEF NewAlong, Walk
  <2> QED BY <1>5, <2>1, WholeAgree
<1>6. ASSUME NEW n \in NodeIds, u.nodes[n].entry # NoEntry
      PROVE  /\ u.nodes[n].entry \in DOMAIN es
             /\ Walk(t, KeyIn(es, u.nodes[n].entry)) = n
             /\ Walk(u, KeyIn(es, u.nodes[n].entry)) = n
             /\ KeyIn(es, u.nodes[n].entry) \in Keys
  <2> DEFINE e == u.nodes[n].entry
  <2>1. t.nodes[n].entry = e BY <1>1 DEF SameEntries
  <2>2. e \in DOMAIN es /\ Walk(t, KeyIn(es, e)) = n
      BY <1>6, <2>1 DEF Filed, Owned
  <2>3. n # NoNode BY IndexAssumption
  <2>4. KeyIn(es, e) \in Keys BY <2>2 DEF Table
  <2> HIDE DEF e
  <2>5. Walk(u, KeyIn(es, e)) = n BY <1>4, <2>2, <2>3, <2>4
  <2> QED BY <2>2, <2>4, <2>5 DEF e
<1>7. Owned(u, es) BY <1>6 DEF Owned
<1>8. Filled(u, es)
  <2> SUFFICES ASSUME NEW i \in DOMAIN es
               PROVE  /\ Walk(u, KeyIn(es, i)) # NoNode
                      /\ u.nodes[Walk(u, KeyIn(es, i))].entry = i
      BY DEF Filled
  <2> DEFINE n == Walk(t, KeyIn(es, i))
  <2>1. n # NoNode /\ t.nodes[n].entry = i BY DEF Filed, Filled
  <2>2. KeyIn(es, i) \in Keys BY DEF Table
  <2>3. Walk(u, KeyIn(es, i)) = n BY <1>4, <2>1, <2>2
  <2>4. n \in NodeIds BY <2>1, <2>2, WalkIs
  <2> HIDE DEF n
  <2>5. u.nodes[n].entry = i BY <1>1, <2>1, <2>4 DEF SameEntries
  <2> QED BY <2>1, <2>3, <2>5
<1>9. ASSUME w.at # NoNode
      PROVE  w.at \in NodeIds \ Free(u) /\ u.nodes[w.at].entry = NoEntry
  <2> DEFINE n == w.at
  <2>1. n = Walk(u, k) /\ n # NoNode BY <1>3, <1>9
  <2>2. n \in NodeIds \ Free(u) BY <1>1, <2>1, WalkIs
  <2> HIDE DEF n
  <2>3. u.nodes[n].entry = NoEntry
    <3> SUFFICES ASSUME u.nodes[n].entry # NoEntry PROVE FALSE
        OBVIOUS
    <3> DEFINE l == KeyIn(es, u.nodes[n].entry)
    <3>1. Walk(t, l) = n /\ Walk(u, l) = n /\ l \in Keys BY <1>6, <2>2
    <3> HIDE DEF l
    <3>2. l = k BY <1>1, <2>1, <3>1, WalkIs
    <3> QED BY <2>1, <3>1, <3>2
  <2> QED BY <2>2, <2>3 DEF n
<1> QED BY <1>2, <1>3, <1>5, <1>7, <1>8, <1>9 DEF u

\* The second half of fvip_insert_entry.
LEMMA FiledInsert ==
    ASSUME NEW t, Sound(t), NEW es, Table(es), Filed(t, es),
           NEW k \in Keys, Walk(t, k) = NoNode, NEW w, Created(t, k, w, Depth),
           w.at # NoNode, NEW i \in EntryIds, i \notin DOMAIN es,
           NEW v, Marked(w.tree, v, w.at, i),
           NEW fs, DOMAIN fs = DOMAIN es \cup {i}, KeyIn(fs, i) = k,
           \A j \in DOMAIN es : fs[j] = es[j]
    PROVE  Sound(v) /\ Filed(v, fs) /\ Hollows(v) \subseteq Hollows(t)
<1> DEFINE u == w.tree
           n == w.at
<1>1. Sound(u) /\ u \in Trees BY DEF Created, Sound
<1>2. /\ Owned(u, es) /\ Filled(u, es)
      /\ \A l \in Keys : l # k => Walk(u, l) = Walk(t, l)
      /\ n \in NodeIds /\ n \notin Free(u) /\ n # NoNode /\ n = Walk(u, k)
      /\ u.nodes[n].entry = NoEntry
    BY FiledCreated
<1>3. NoHollow(t, u, n) BY DEF Created
<1>4. Marked(u, v, n, i) OBVIOUS
<1> HIDE DEF u, n
<1>5. Sound(v) /\ Free(v) = Free(u) BY <1>1, <1>2, <1>4, SoundMarked
<1>6. /\ v.nodes[n].entry = i
      /\ \A o \in NodeIds : o # n => v.nodes[o] = u.nodes[o]
    BY <1>4 DEF Marked
<1>7. \A l \in Keys : Walk(v, l) = Walk(u, l)
    BY <1>1, <1>4, MarkedPath, DepthIs DEF Walk
<1>8. i # NoEntry BY IndexAssumption
<1>9. \A j \in DOMAIN es : KeyIn(fs, j) = KeyIn(es, j) /\ KeyIn(es, j) \in Keys
    BY DEF KeyIn, Table
<1>10. Owned(v, fs)
  <2> SUFFICES ASSUME NEW o \in NodeIds, v.nodes[o].entry # NoEntry
               PROVE  /\ v.nodes[o].entry \in DOMAIN fs
                      /\ Walk(v, KeyIn(fs, v.nodes[o].entry)) = o
      BY DEF Owned
  <2>1. CASE o = n BY <1>2, <1>6, <1>7, <2>1
  <2>2. CASE o # n
    <3> DEFINE e == u.nodes[o].entry
    <3>1. v.nodes[o].entry = e BY <1>6, <2>2
    <3>2. e \in DOMAIN es /\ Walk(u, KeyIn(es, e)) = o
        BY <1>2, <3>1 DEF Owned
    <3> HIDE DEF e
    <3>3. KeyIn(fs, e) = KeyIn(es, e) /\ KeyIn(es, e) \in Keys BY <1>9, <3>2
    <3> QED BY <1>7, <3>1, <3>2, <3>3
  <2> QED BY <2>1, <2>2
<1>11. Filled(v, fs)
  <2> SUFFICES ASSUME NEW j \in DOMAIN fs
               PROVE  /\ Walk(v, KeyIn(fs, j)) # NoNode
                      /\ v.nodes[Walk(v, KeyIn(fs, j))].entry = j
      BY DEF Filled
  <2>1. CASE j = i
    <3>1. Walk(v, KeyIn(fs, j)) = n BY <1>2, <1>7, <2>1
    <3> QED BY <1>2, <1>6, <2>1, <3>1
  <2>2. CASE j # i
    <3>1. j \in DOMAIN es BY <2>2
    <3> DEFINE o == Walk(u, KeyIn(es, j))
    <3>2. o # NoNode /\ u.nodes[o].entry = j BY <1>2, <3>1 DEF Filled
    <3>3. KeyIn(fs, j) = KeyIn(es, j) /\ KeyIn(es, j) \in Keys BY <1>9, <3>1
    <3>4. Walk(v, KeyIn(fs, j)) = o BY <1>7, <3>3
    <3>5. o \in NodeIds BY <1>1, <3>2, <3>3, WalkIs
    <3> HIDE DEF o
    <3>6. j # NoEntry BY <3>1, IndexAssumption DEF Table
    <3>7. o # n BY <1>2, <3>2, <3>6
    <3>8. v.nodes[o].entry = j BY <1>6, <3>2, <3>5, <3>7
    <3> QED BY <3>2, <3>4, <3>8
  <2> QED BY <2>1, <2>2
<1>12. LeavesFull(v)
  <2> SUFFICES ASSUME NEW l \in Keys, Walk(v, l) # NoNode
               PROVE  v.nodes[Walk(v, l)].entry # NoEntry
      BY DEF LeavesFull
  <2>1. CASE l = k BY <1>2, <1>6, <1>7, <1>8, <2>1
  <2>2. CASE l # k
    <3> DEFINE o == Walk(t, l)
    <3>1. Walk(u, l) = o /\ Walk(v, l) = o BY <1>2, <1>7, <2>2
    <3>2. o # NoNode /\ t.nodes[o].entry # NoEntry
        BY <3>1 DEF Filed, LeavesFull
    <3>3. o \in NodeIds BY <3>2, WalkIs
    <3> HIDE DEF o
    <3>4. u.nodes[o].entry # NoEntry
        BY <3>2, <3>3 DEF Created, SameEntries, u
    <3>5. o # n BY <1>2, <3>4
    <3> QED BY <1>6, <3>1, <3>3, <3>4, <3>5
  <2> QED BY <2>1, <2>2
<1>13. Hollows(v) \subseteq Hollows(t)
  <2> SUFFICES ASSUME NEW o \in NodeIds, o \notin Free(v), v.nodes[o] = EmptyNode
               PROVE  o \notin Free(t) /\ t.nodes[o] = EmptyNode
      BY DEF Hollows
  <2>1. o # n BY <1>6, <1>8, EmptyIs
  <2> QED BY <1>3, <1>5, <1>6, <2>1 DEF NoHollow
<1> QED BY <1>5, <1>10, <1>11, <1>12, <1>13 DEF Filed

\* A walk with create that ran out of nodes.
LEMMA FiledExhausted ==
    ASSUME NEW t, Sound(t), NEW es, Table(es), Filed(t, es),
           NEW k \in Keys, Walk(t, k) = NoNode, NEW w, Created(t, k, w, Depth),
           w.at = NoNode
    PROVE  Sound(w.tree) /\ Filed(w.tree, es)
<1> DEFINE u == w.tree
<1>1. /\ Owned(u, es) /\ Filled(u, es) /\ Walk(u, k) = NoNode
      /\ \A l \in Keys : l # k => Walk(u, l) = Walk(t, l)
    BY FiledCreated
<1>2. Sound(u) /\ SameEntries(t, u) BY DEF Created
<1> HIDE DEF u
<1>3. LeavesFull(u)
  <2> SUFFICES ASSUME NEW l \in Keys, Walk(u, l) # NoNode
               PROVE  u.nodes[Walk(u, l)].entry # NoEntry
      BY DEF LeavesFull
  <2> DEFINE o == Walk(t, l)
  <2>1. Walk(u, l) = o /\ o # NoNode BY <1>1
  <2>2. t.nodes[o].entry # NoEntry BY <2>1 DEF Filed, LeavesFull
  <2>3. o \in NodeIds BY <2>1, WalkIs
  <2> HIDE DEF o
  <2> QED BY <1>2, <2>1, <2>2, <2>3 DEF SameEntries
<1>4. Sound(u) /\ Filed(u, es) BY <1>1, <1>2, <1>3 DEF Filed
<1> QED BY <1>4 DEF u

\* fvip_remove_entry: the entry taken from its node, and the branch pruned.
LEMMA FiledRemove ==
    ASSUME NEW t, Sound(t), NEW es, Table(es), Filed(t, es), NEW k \in Keys,
           NEW n, n = Walk(t, k), n # NoNode, NEW i, i = t.nodes[n].entry,
           NEW u, Marked(t, u, n, NoEntry),
           NEW fs, DOMAIN fs = DOMAIN es \ {i}, \A j \in DOMAIN fs : fs[j] = es[j]
    PROVE  /\ Sound(Prune(u, k)) /\ Filed(Prune(u, k), fs)
           /\ Hollows(Prune(u, k)) \subseteq Hollows(t)
<1> DEFINE v == Prune(u, k)
<1>1. n \in NodeIds \ Free(t) /\ t \in Trees BY WalkIs DEF Sound
<1>2. Sound(u) /\ Free(u) = Free(t) /\ u \in Trees BY <1>1, SoundMarked DEF Sound
<1>3. /\ u.nodes[n].entry = NoEntry /\ u.nodes[n].kids = t.nodes[n].kids
      /\ \A o \in NodeIds : o # n => u.nodes[o] = t.nodes[o]
    BY <1>1 DEF Marked
<1>4. \A l \in Keys : Walk(u, l) = Walk(t, l)
    BY <1>1, MarkedPath, DepthIs DEF Walk
<1>5. u.nodes[n] = EmptyNode
  <2>1. u.nodes[n] \in Node BY <1>1, <1>2, TreeFields
  <2>2. \A m \in Nibbles : u.nodes[n].kids[m] = NoNode BY <1>3, LeafBare
  <2> QED BY <1>3, <2>1, <2>2, EmptyIs
<1>6. Walk(u, k) = n BY <1>4
<1>7. Pruned(u, k, v) BY <1>2, <1>5, <1>6, PruneIs
<1> HIDE DEF v
<1>8. /\ Sound(v) /\ SameEntries(u, v) /\ Free(u) \subseteq Free(v)
      /\ Walk(v, k) = NoNode
      /\ \A l \in Keys : Walk(v, l) = Walk(t, l) \/ Walk(v, l) = NoNode
      /\ \A l \in Keys :
            Walk(t, l) # NoNode /\ u.nodes[Walk(t, l)].entry # NoEntry
                => Walk(v, l) = Walk(t, l)
      /\ \A o \in NodeIds \ Free(v) : v.nodes[o] = EmptyNode =>
            u.nodes[o] = EmptyNode /\ o # n
    BY <1>4, <1>6, <1>7 DEF Pruned
<1>9. \A j \in DOMAIN fs : /\ j \in DOMAIN es /\ j # i
                           /\ KeyIn(fs, j) = KeyIn(es, j) /\ KeyIn(es, j) \in Keys
    BY DEF KeyIn, Table
<1>10. Owned(v, fs)
  <2> SUFFICES ASSUME NEW o \in NodeIds, v.nodes[o].entry # NoEntry
               PROVE  /\ v.nodes[o].entry \in DOMAIN fs
                      /\ Walk(v, KeyIn(fs, v.nodes[o].entry)) = o
      BY DEF Owned
  <2> DEFINE e == v.nodes[o].entry
  <2>1. u.nodes[o].entry = e BY <1>8 DEF SameEntries
  <2>2. o # n BY <1>3, <2>1
  <2>3. t.nodes[o].entry = e BY <1>3, <2>1, <2>2
  <2>4. e # NoEntry OBVIOUS
  <2> HIDE DEF e
  <2>5. e \in DOMAIN es /\ Walk(t, KeyIn(es, e)) = o
      BY <2>3, <2>4 DEF Filed, Owned
  <2>6. e # i
    <3> SUFFICES ASSUME e = i PROVE FALSE
        OBVIOUS
    <3>1. Walk(t, KeyIn(es, i)) = n BY <1>1, <2>4 DEF Filed, Owned
    <3> QED BY <2>2, <2>5, <3>1
  <2>7. e \in DOMAIN fs /\ KeyIn(fs, e) = KeyIn(es, e) /\ KeyIn(es, e) \in Keys
      BY <1>9, <2>5, <2>6
  <2>8. o # NoNode /\ u.nodes[o].entry # NoEntry BY <2>1, <2>4, IndexAssumption
  <2>9. Walk(v, KeyIn(fs, e)) = o BY <1>8, <2>5, <2>7, <2>8
  <2> QED BY <2>7, <2>9 DEF e
<1>11. Filled(v, fs)
  <2> SUFFICES ASSUME NEW j \in DOMAIN fs
               PROVE  /\ Walk(v, KeyIn(fs, j)) # NoNode
                      /\ v.nodes[Walk(v, KeyIn(fs, j))].entry = j
      BY DEF Filled
  <2>1. /\ j \in DOMAIN es /\ j # i /\ KeyIn(fs, j) = KeyIn(es, j)
        /\ KeyIn(es, j) \in Keys /\ j # NoEntry
      BY <1>9, IndexAssumption DEF Table
  <2> DEFINE o == Walk(t, KeyIn(es, j))
  <2>2. o # NoNode /\ t.nodes[o].entry = j BY <2>1 DEF Filed, Filled
  <2>3. o \in NodeIds /\ o # n BY <2>1, <2>2, WalkIs
  <2> HIDE DEF o
  <2>4. u.nodes[o].entry = j BY <1>3, <2>2, <2>3
  <2>5. Walk(v, KeyIn(fs, j)) = o BY <1>8, <2>1, <2>2, <2>4 DEF o
  <2>6. v.nodes[o].entry = j BY <1>8, <2>3, <2>4 DEF SameEntries
  <2> QED BY <2>2, <2>5, <2>6
<1>12. LeavesFull(v)
  <2> SUFFICES ASSUME NEW l \in Keys, Walk(v, l) # NoNode
               PROVE  v.nodes[Walk(v, l)].entry # NoEntry
      BY DEF LeavesFull
  <2> DEFINE o == Walk(t, l)
  <2>1. Walk(v, l) = o /\ o # NoNode BY <1>8
  <2>2. t.nodes[o].entry # NoEntry BY <2>1 DEF Filed, LeavesFull
  <2>3. o \in NodeIds BY <2>1, WalkIs
  <2>4. l # k BY <1>8
  <2>5. o # n
    <3> SUFFICES ASSUME o = n PROVE FALSE
        OBVIOUS
    <3>1. l = k BY WalkIs
    <3> QED BY <2>4, <3>1
  <2> HIDE DEF o
  <2>6. v.nodes[o].entry = t.nodes[o].entry
      BY <1>3, <1>8, <2>3, <2>5 DEF SameEntries
  <2> QED BY <2>1, <2>2, <2>6
<1>13. Hollows(v) \subseteq Hollows(t)
  <2> SUFFICES ASSUME NEW o \in NodeIds, o \notin Free(v), v.nodes[o] = EmptyNode
               PROVE  o \notin Free(t) /\ t.nodes[o] = EmptyNode
      BY DEF Hollows
  <2>1. u.nodes[o] = EmptyNode /\ o # n BY <1>8
  <2> QED BY <1>2, <1>3, <1>8, <2>1
<1>14. Sound(v) /\ Filed(v, fs) /\ Hollows(v) \subseteq Hollows(t)
    BY <1>8, <1>10, <1>11, <1>12, <1>13 DEF Filed
<1> QED BY <1>14 DEF v

\* fvip_init_volume_index.
LEMMA FreshSound ==
    /\ Sound(FreshTree) /\ FreshTree.root = NoNode /\ Hollows(FreshTree) = {}
<1> DEFINE t == FreshTree
           s == [i \in 1 .. MaxNodes |-> MaxNodes - i]
<1>0. MaxNodes \in Nat /\ NoNode \notin NodeIds BY IndexAssumption
<1>1. t.free = s /\ t.nodes = [n \in NodeIds |-> EmptyNode] /\ t.root = NoNode
    BY DEF FreshTree
<1>2. /\ \A i \in 1 .. MaxNodes : MaxNodes - i \in NodeIds
      /\ \A n \in NodeIds : MaxNodes - n \in 1 .. MaxNodes
                            /\ MaxNodes - (MaxNodes - n) = n
      /\ \A i, j \in 1 .. MaxNodes : MaxNodes - i = MaxNodes - j => i = j
    BY <1>0 DEF NodeIds
<1>3. s \in [1 .. MaxNodes -> NodeIds] BY <1>2
<1>4. s \in Seq(NodeIds) BY <1>0, <1>3
<1>5. t = [nodes |-> [n \in NodeIds |-> EmptyNode], free |-> s, root |-> NoNode]
    BY DEF FreshTree
<1>6. DOMAIN s = 1 .. MaxNodes /\ \A i \in 1 .. MaxNodes : s[i] = MaxNodes - i
    OBVIOUS
<1>7. [n \in NodeIds |-> EmptyNode] \in [NodeIds -> Node] BY EmptyIs
<1> HIDE DEF s
<1>8. t \in Trees BY <1>4, <1>5, <1>7 DEF Trees, Places
<1>9. IsInjective(s) BY <1>2, <1>6 DEF IsInjective
<1>10. Free(t) = NodeIds
  <2>1. Free(t) = {s[i] : i \in 1 .. MaxNodes} BY <1>1, <1>6 DEF Free, Range
  <2>2. \A n \in NodeIds : n \in Free(t)
    <3> SUFFICES ASSUME NEW n \in NodeIds PROVE n \in Free(t)
        OBVIOUS
    <3>1. MaxNodes - n \in 1 .. MaxNodes /\ s[MaxNodes - n] = n BY <1>2, <1>6
    <3> QED BY <2>1, <3>1
  <2> QED BY <1>8, <2>2, TreeFields
<1>11. \A n \in NodeIds : t.nodes[n] = EmptyNode BY <1>1
<1>12. \A n \in NodeIds : \A m \in Nibbles : t.nodes[n].kids[m] = NoNode
    BY <1>11, EmptyIs
<1> HIDE DEF t
<1>13. OneParent(t) /\ RootAbove(t) BY <1>1, <1>12 DEF OneParent, RootAbove
<1>14. NoneFree(t) BY <1>0, <1>1, <1>10, <1>12 DEF NoneFree
<1>15. FreeEmpty(t) /\ AllReached(t) BY <1>10, <1>11 DEF FreeEmpty, AllReached
<1>16. Sound(t) BY <1>1, <1>8, <1>9, <1>13, <1>14, <1>15 DEF Sound
<1>17. Hollows(t) = {} BY <1>10 DEF Hollows
<1> QED BY <1>1, <1>16, <1>17 DEF t

LEMMA FreshFiled ==
    ASSUME NEW t, Sound(t), t.root = NoNode, NEW es, DOMAIN es = {}
    PROVE  Filed(t, es)
<1>1. \A k \in Keys : Walk(t, k) = NoNode BY NoRoot, DepthIs DEF Walk
<1>2. \A n \in NodeIds : t.nodes[n].entry = NoEntry BY NoRoot, EmptyIs
<1> QED BY <1>1, <1>2 DEF Filed, Owned, Filled, LeavesFull

\* The stack holds no more nodes than there are.
LEMMA StackFits ==
    ASSUME NEW t \in Trees, IsInjective(t.free)
    PROVE  Len(t.free) <= MaxNodes
<1> DEFINE b == Len(t.free)
<1>1. b \in Nat /\ t.free \in [1 .. b -> NodeIds] BY TreeFields
<1>2. t.free \in Injection(1 .. b, NodeIds) BY <1>1 DEF Injection
<1>3. MaxNodes \in Nat BY IndexAssumption
<1>4. /\ IsFiniteSet(NodeIds) /\ Cardinality(NodeIds) \in Nat
      /\ Cardinality(NodeIds) <= MaxNodes
  <2>1. 0 \in Int /\ MaxNodes - 1 \in Int BY <1>3
  <2>2. /\ IsFiniteSet(NodeIds)
        /\ Cardinality(NodeIds)
             = IF 0 > MaxNodes - 1 THEN 0 ELSE (MaxNodes - 1) - 0 + 1
      BY <2>1, FS_Interval, Zenon DEF NodeIds
  <2>3. (IF 0 > MaxNodes - 1 THEN 0 ELSE (MaxNodes - 1) - 0 + 1) <= MaxNodes
      BY <1>3
  <2> QED BY <2>2, <2>3, FS_CardinalityType
<1>5. Cardinality(1 .. b) <= Cardinality(NodeIds)
    BY <1>2, <1>4, FS_Injection
<1>6. Cardinality(1 .. b) = b
  <2>1. 1 \in Int /\ b \in Int BY <1>1
  <2>2. Cardinality(1 .. b) = IF 1 > b THEN 0 ELSE b - 1 + 1 BY <2>1, FS_Interval
  <2> HIDE DEF b
  <2> QED BY <1>1, <2>2
<1> HIDE DEF b
<1>7. b <= MaxNodes BY <1>1, <1>3, <1>4, <1>5, <1>6
<1> QED BY <1>7 DEF b

-----------------------------------------------------------------------------
(* The invariant: the tree is sound and holds the entries of the table.    *)

IndexInv ==
    /\ TypeOK
    /\ Sound(tree)
    /\ Filed(tree, entries)
    /\ Cardinality(DOMAIN entries) = count

Returns == {"OK", "NOT_FOUND", "ALREADY_EXISTS", "TABLE_FULL", "PATH_TOO_LONG",
            "INVALID_SUTF8", "POOL_EXHAUSTED"}

LEMMA EntryIdsFinite ==
    IsFiniteSet(EntryIds) /\ Cardinality(EntryIds) = MaxEntries /\ EntryIds \subseteq Nat
<1>1. MaxEntries \in Nat BY IndexAssumption
<1>2. 0 \in Int /\ MaxEntries - 1 \in Int BY <1>1
<1>3. /\ IsFiniteSet(EntryIds)
      /\ Cardinality(EntryIds)
           = IF 0 > MaxEntries - 1 THEN 0 ELSE (MaxEntries - 1) - 0 + 1
    BY <1>2, FS_Interval, Zenon DEF EntryIds
<1>4. (IF 0 > MaxEntries - 1 THEN 0 ELSE (MaxEntries - 1) - 0 + 1) = MaxEntries
    BY <1>1
<1>5. EntryIds \subseteq Nat BY <1>1 DEF EntryIds
<1> QED BY <1>3, <1>4, <1>5

LEMMA TableIs ==
    ASSUME NEW es, DOMAIN es \subseteq EntryIds, Range(es) \subseteq Entry
    PROVE  Table(es)
<1> SUFFICES ASSUME NEW i \in DOMAIN es PROVE es[i] \in Entry /\ KeyIn(es, i) \in Keys
    BY DEF Table
<1>1. es[i] \in Entry BY DEF Range
<1>2. es[i].path \in Paths BY <1>1 DEF Entry
<1> QED BY <1>1, <1>2, IndexAssumption DEF KeyIn

LEMMA InvFacts ==
    ASSUME IndexInv
    PROVE  /\ Table(entries) /\ Sound(tree) /\ tree \in Trees
           /\ Filed(tree, entries) /\ count \in 0 .. MaxEntries
           /\ DOMAIN entries \subseteq EntryIds /\ Range(entries) \subseteq Entry
           /\ IsFiniteSet(DOMAIN entries) /\ Cardinality(DOMAIN entries) = count
<1>1. DOMAIN entries \subseteq EntryIds /\ Range(entries) \subseteq Entry
      /\ count \in 0 .. MaxEntries
    BY DEF IndexInv, TypeOK
<1>2. Table(entries) BY <1>1, TableIs
<1>3. IsFiniteSet(DOMAIN entries) BY <1>1, EntryIdsFinite, FS_Subset
<1> QED BY <1>1, <1>2, <1>3 DEF IndexInv, Sound

\* The types of what a step leaves.
LEMMA TypeNext ==
    ASSUME Sound(tree'), DOMAIN entries' \subseteq EntryIds,
           Range(entries') \subseteq Entry, count' \in 0 .. MaxEntries,
           ret' \in Returns
    PROVE  TypeOK'
<1>1. tree' \in Trees /\ IsInjective(tree'.free) BY DEF Sound
<1>2. Len(tree'.free) <= MaxNodes BY <1>1, StackFits
<1> QED BY <1>1, <1>2, TreeFields DEF TypeOK, Returns, Places

\* The loop for a free entry finds one in a table that is not full.
LEMMA SlotIs ==
    ASSUME IndexInv, count < MaxEntries
    PROVE  Slot \in EntryIds /\ Slot \notin DOMAIN entries
<1> DEFINE I == EntryIds \ DOMAIN entries
<1>1. I # {}
  <2> SUFFICES ASSUME I = {} PROVE FALSE
      OBVIOUS
  <2>1. DOMAIN entries = EntryIds BY InvFacts
  <2>2. count = MaxEntries BY <2>1, InvFacts, EntryIdsFinite
  <2> QED BY <2>2, InvFacts, IndexAssumption
<1>2. I \in SUBSET Nat BY EntryIdsFinite
<1>3. \E i \in I : \A j \in I : i <= j BY <1>1, <1>2, LeastExists
<1>4. Slot \in I BY <1>3 DEF Slot, FirstFree
<1> QED BY <1>4

LEMMA FoundIs ==
    ASSUME IndexInv, NEW p \in Paths
    PROVE  /\ Hash[p] \in Keys /\ Found(p) \in Places
           /\ Found(p) # NoNode =>
                 /\ Found(p) \in NodeIds
                 /\ tree.nodes[Found(p)].entry # NoEntry
                 /\ tree.nodes[Found(p)].entry \in DOMAIN entries
<1>1. Hash[p] \in Keys BY IndexAssumption
<1>2. Found(p) \in Places /\ (Found(p) # NoNode => Found(p) \in NodeIds)
    BY <1>1, InvFacts, WalkIs DEF Found
<1>3. Found(p) # NoNode => tree.nodes[Found(p)].entry # NoEntry
    BY <1>1, InvFacts DEF Found, Filed, LeavesFull
<1> QED BY <1>1, <1>2, <1>3, InvFacts DEF Filed, Owned

LEMMA InsertStatusIs ==
    ASSUME IndexInv, NEW p \in Paths
    PROVE  /\ InsertStatus(p) \in Returns
           /\ InsertStatus(p) = "OK" => Found(p) = NoNode /\ count < MaxEntries
<1>1. Form[p] \in {"good", "long", "malformed"} BY IndexAssumption
<1>2. count < MaxEntries \/ count >= MaxEntries BY InvFacts, IndexAssumption
<1>3. CASE Form[p] = "long" BY <1>3 DEF InsertStatus, Returns
<1>4. CASE Form[p] = "malformed" BY <1>4 DEF InsertStatus, Returns
<1>5. CASE Form[p] = "good" /\ ~(count < MaxEntries)
    BY <1>2, <1>5 DEF InsertStatus, Returns
<1>6. CASE Form[p] = "good" /\ count < MaxEntries
  <2>1. ~(count >= MaxEntries) BY <1>6, InvFacts, IndexAssumption
  <2>2. CASE Found(p) = NoNode BY <1>6, <2>1, <2>2 DEF InsertStatus, Returns
  <2>3. CASE Found(p) # NoNode
    <3>1. tree.nodes[Found(p)].entry # NoEntry BY <2>3, FoundIs
    <3> QED BY <1>6, <2>1, <2>3, <3>1 DEF InsertStatus, Returns
  <2> QED BY <2>2, <2>3
<1> QED BY <1>1, <1>3, <1>4, <1>5, <1>6

LEMMA LookupStatusIs ==
    ASSUME IndexInv, NEW p \in Paths
    PROVE  /\ LookupStatus(p) \in {"OK", "PATH_TOO_LONG", "NOT_FOUND"}
           /\ LookupStatus(p) = "OK" => Found(p) # NoNode
<1>1. CASE Form[p] = "long" BY <1>1 DEF LookupStatus
<1>2. CASE Form[p] # "long" /\ Found(p) = NoNode BY <1>2 DEF LookupStatus
<1>3. CASE Form[p] # "long" /\ Found(p) # NoNode
  <2>1. tree.nodes[Found(p)].entry \in DOMAIN entries BY <1>3, FoundIs
  <2> QED BY <1>3, <2>1 DEF LookupStatus
<1> QED BY <1>1, <1>2, <1>3

-----------------------------------------------------------------------------
(* What lookups find.                                                      *)

ContentsOf(es) == [k \in {KeyIn(es, i) : i \in DOMAIN es} |->
    es[CHOOSE i \in DOMAIN es : KeyIn(es, i) = k]]

LEMMA ContentsIs ==
    ASSUME NEW t, NEW es, Filled(t, es)
    PROVE  /\ DOMAIN ContentsOf(es) = {KeyIn(es, i) : i \in DOMAIN es}
           /\ \A i \in DOMAIN es : ContentsOf(es)[KeyIn(es, i)] = es[i]
<1>1. ASSUME NEW i \in DOMAIN es
      PROVE  ContentsOf(es)[KeyIn(es, i)] = es[i]
  <2> DEFINE j == CHOOSE h \in DOMAIN es : KeyIn(es, h) = KeyIn(es, i)
  <2>1. j \in DOMAIN es /\ KeyIn(es, j) = KeyIn(es, i) OBVIOUS
  <2>2. ContentsOf(es)[KeyIn(es, i)] = es[j] BY DEF ContentsOf
  <2> HIDE DEF j
  <2>3. j = i BY <2>1, KeysApart
  <2> QED BY <2>2, <2>3
<1> QED BY <1>1 DEF ContentsOf

LEMMA ContentsAdd ==
    ASSUME NEW t, NEW es, Filled(t, es), NEW v, NEW fs, Filled(v, fs),
           NEW i, i \notin DOMAIN es, DOMAIN fs = DOMAIN es \cup {i},
           \A j \in DOMAIN es : fs[j] = es[j]
    PROVE  /\ KeyIn(fs, i) \notin DOMAIN ContentsOf(es)
           /\ ContentsOf(fs) =
                 [k \in DOMAIN ContentsOf(es) \cup {KeyIn(fs, i)} |->
                    IF k = KeyIn(fs, i) THEN fs[i] ELSE ContentsOf(es)[k]]
<1> DEFINE C == ContentsOf(es)
           D == ContentsOf(fs)
           q == KeyIn(fs, i)
           E == [k \in DOMAIN C \cup {q} |-> IF k = q THEN fs[i] ELSE C[k]]
<1>1. /\ DOMAIN C = {KeyIn(es, j) : j \in DOMAIN es}
      /\ \A j \in DOMAIN es : C[KeyIn(es, j)] = es[j]
    BY ContentsIs
<1>2. /\ DOMAIN D = {KeyIn(fs, j) : j \in DOMAIN fs}
      /\ \A j \in DOMAIN fs : D[KeyIn(fs, j)] = fs[j]
    BY ContentsIs
<1>3. D = [k \in DOMAIN D |-> D[k]] BY DEF ContentsOf
<1>4. \A j \in DOMAIN es : KeyIn(fs, j) = KeyIn(es, j) BY DEF KeyIn
<1> HIDE DEF C, D
<1>5. ASSUME NEW j \in DOMAIN es PROVE KeyIn(es, j) # q
  <2> SUFFICES ASSUME KeyIn(es, j) = q PROVE FALSE
      OBVIOUS
  <2>1. KeyIn(fs, j) = KeyIn(fs, i) /\ j \in DOMAIN fs /\ i \in DOMAIN fs BY <1>4
  <2>2. j = i BY <2>1, KeysApart
  <2> QED BY <2>2
<1>6. q \notin DOMAIN C BY <1>1, <1>5
<1>7. DOMAIN D = DOMAIN C \cup {q} BY <1>1, <1>2, <1>4
<1>8. \A k \in DOMAIN D : D[k] = IF k = q THEN fs[i] ELSE C[k]
  <2> SUFFICES ASSUME NEW j \in DOMAIN fs
               PROVE  D[KeyIn(fs, j)]
                        = IF KeyIn(fs, j) = q THEN fs[i] ELSE C[KeyIn(fs, j)]
      BY <1>2
  <2>1. CASE j = i BY <1>2, <2>1
  <2>2. CASE j # i
    <3>1. j \in DOMAIN es BY <2>2
    <3>2. KeyIn(fs, j) = KeyIn(es, j) /\ KeyIn(es, j) # q BY <1>4, <1>5, <3>1
    <3>3. D[KeyIn(fs, j)] = fs[j] /\ fs[j] = es[j] /\ C[KeyIn(es, j)] = es[j]
        BY <1>1, <1>2, <3>1
    <3> QED BY <3>2, <3>3
  <2> QED BY <2>1, <2>2
<1>9. D = E BY <1>3, <1>7, <1>8
<1> QED BY <1>6, <1>9 DEF C, D

LEMMA ContentsDelete ==
    ASSUME NEW t, NEW es, Filled(t, es), NEW v, NEW fs, Filled(v, fs),
           NEW i \in DOMAIN es, DOMAIN fs = DOMAIN es \ {i},
           \A j \in DOMAIN fs : fs[j] = es[j]
    PROVE  /\ KeyIn(es, i) \in DOMAIN ContentsOf(es)
           /\ ContentsOf(fs) = [k \in DOMAIN ContentsOf(es) \ {KeyIn(es, i)} |->
                                  ContentsOf(es)[k]]
<1> DEFINE C == ContentsOf(es)
           D == ContentsOf(fs)
           q == KeyIn(es, i)
           E == [k \in DOMAIN C \ {q} |-> C[k]]
<1>1. /\ DOMAIN C = {KeyIn(es, j) : j \in DOMAIN es}
      /\ \A j \in DOMAIN es : C[KeyIn(es, j)] = es[j]
    BY ContentsIs
<1>2. /\ DOMAIN D = {KeyIn(fs, j) : j \in DOMAIN fs}
      /\ \A j \in DOMAIN fs : D[KeyIn(fs, j)] = fs[j]
    BY ContentsIs
<1>3. D = [k \in DOMAIN D |-> D[k]] BY DEF ContentsOf
<1>4. \A j \in DOMAIN fs : KeyIn(fs, j) = KeyIn(es, j) BY DEF KeyIn
<1> HIDE DEF C, D
<1>5. ASSUME NEW j \in DOMAIN es, j # i PROVE KeyIn(es, j) # q
    BY <1>5, KeysApart
<1>6. DOMAIN D = DOMAIN C \ {q} BY <1>1, <1>2, <1>4, <1>5
<1>7. \A k \in DOMAIN D : D[k] = C[k]
  <2> SUFFICES ASSUME NEW j \in DOMAIN fs
               PROVE  D[KeyIn(fs, j)] = C[KeyIn(fs, j)]
      BY <1>2
  <2>1. D[KeyIn(fs, j)] = fs[j] /\ fs[j] = es[j] /\ C[KeyIn(es, j)] = es[j]
      BY <1>1, <1>2
  <2> QED BY <1>4, <2>1
<1>8. D = E BY <1>3, <1>6, <1>7
<1>9. q \in DOMAIN C BY <1>1
<1> QED BY <1>8, <1>9 DEF C, D

\* There are no more keys than entries.
LEMMA ContentsSize ==
    ASSUME NEW es, IsFiniteSet(DOMAIN es)
    PROVE  Cardinality(DOMAIN ContentsOf(es)) <= Cardinality(DOMAIN es)
<1> DEFINE f == [i \in DOMAIN es |-> KeyIn(es, i)]
           T == {KeyIn(es, i) : i \in DOMAIN es}
<1>1. f \in Surjection(DOMAIN es, T) BY DEF Surjection
<1>2. Cardinality(T) <= Cardinality(DOMAIN es) BY <1>1, FS_Surjection
<1>3. DOMAIN ContentsOf(es) = T BY DEF ContentsOf
<1> QED BY <1>2, <1>3

-----------------------------------------------------------------------------
(* Steps.                                                                  *)

\* A step keeps the invariant, wastes nothing and maps to a step of the map.
Good == /\ IndexInv'
        /\ Hollow' \subseteq Hollow \/ ret' = "POOL_EXHAUSTED"
        /\ Map!MapNext \/ UNCHANGED Contents

LEMMA HollowIs == Hollow = Hollows(tree) /\ Contents = ContentsOf(entries)
BY DEF Hollow, Hollows, InUse, Free, IsEmpty, Contents, ContentsOf, KeyIn

LEMMA HollowNext == Hollow' = Hollows(tree') /\ Contents' = ContentsOf(entries')
BY DEF Hollow, Hollows, InUse, Free, IsEmpty, Contents, ContentsOf, KeyIn

LEMMA InsertGood ==
    ASSUME IndexInv, NEW p \in Paths, NEW o \in Offsets, InsertEntry(p, o)
    PROVE  Good
<1> DEFINE k == Hash[p]
           w == WalkCreate(tree, k)
           i == Slot
           v == [w.tree EXCEPT !.nodes[w.at].entry = i]
           e == [path |-> p, offset |-> o]
           fs == [j \in DOMAIN entries \cup {i} |-> IF j = i THEN e ELSE entries[j]]
<1>1. /\ w.at # NoNode /\ tree' = v /\ entries' = fs
      /\ count' = count + 1 /\ ret' = "OK" /\ InsertStatus(p) = "OK"
    BY DEF InsertEntry
<1>2. /\ Table(entries) /\ Sound(tree) /\ tree \in Trees /\ Filed(tree, entries)
      /\ count \in 0 .. MaxEntries /\ DOMAIN entries \subseteq EntryIds
      /\ Range(entries) \subseteq Entry /\ IsFiniteSet(DOMAIN entries)
      /\ Cardinality(DOMAIN entries) = count
    BY InvFacts
<1>3. Found(p) = NoNode /\ count < MaxEntries BY <1>1, InsertStatusIs
<1>4. k \in Keys /\ Walk(tree, k) = NoNode BY <1>3, FoundIs DEF Found
<1>5. i \in EntryIds /\ i \notin DOMAIN entries BY <1>3, SlotIs
<1> HIDE DEF i, k
<1>6. Created(tree, k, w, Depth) BY <1>2, <1>4, WalkCreateIs
<1> HIDE DEF w
<1>7. w.at \in NodeIds /\ w.tree \in Trees
    BY <1>1, <1>2, <1>4, <1>6, FiledCreated DEF Created, Walkers
<1>8. Marked(w.tree, v, w.at, i) BY <1>5, <1>7, MarkIs
<1> HIDE DEF v
<1>9. /\ DOMAIN fs = DOMAIN entries \cup {i} /\ fs[i] = e
      /\ \A j \in DOMAIN entries : fs[j] = entries[j]
    BY <1>5
<1>10. e \in Entry /\ e.path = p BY DEF Entry
<1> HIDE DEF e, fs
<1>11. KeyIn(fs, i) = k BY <1>9, <1>10 DEF KeyIn, k
<1>12. Sound(v) /\ Filed(v, fs) /\ Hollows(v) \subseteq Hollows(tree)
    BY <1>1, <1>2, <1>4, <1>5, <1>6, <1>8, <1>9, <1>11, FiledInsert
<1>13. DOMAIN fs \subseteq EntryIds /\ Range(fs) \subseteq Entry
    BY <1>2, <1>5, <1>9, <1>10 DEF Range
<1>14. Cardinality(DOMAIN fs) = count + 1
    BY <1>2, <1>5, <1>9, FS_AddElement
<1>15. count + 1 \in 0 .. MaxEntries BY <1>2, <1>3, IndexAssumption
<1>16. TypeOK' BY <1>1, <1>12, <1>13, <1>15, TypeNext DEF Returns
<1>17. IndexInv' BY <1>1, <1>12, <1>14, <1>16 DEF IndexInv
<1>18. Map!Add(k, e)
  <2>1. /\ KeyIn(fs, i) \notin DOMAIN ContentsOf(entries)
        /\ ContentsOf(fs) =
              [j \in DOMAIN ContentsOf(entries) \cup {KeyIn(fs, i)} |->
                 IF j = KeyIn(fs, i) THEN fs[i] ELSE ContentsOf(entries)[j]]
      BY <1>2, <1>5, <1>9, <1>12, ContentsAdd DEF Filed
  <2>2. Cardinality(DOMAIN ContentsOf(entries)) < MaxEntries
    <3>1. Cardinality(DOMAIN ContentsOf(entries)) <= count BY <1>2, ContentsSize
    <3>2. IsFiniteSet(DOMAIN ContentsOf(entries))
      <4>1. DOMAIN ContentsOf(entries) = {KeyIn(entries, j) : j \in DOMAIN entries}
          BY DEF ContentsOf
      <4> DEFINE f == [j \in DOMAIN entries |-> KeyIn(entries, j)]
      <4>2. f \in Surjection(DOMAIN entries,
                             {KeyIn(entries, j) : j \in DOMAIN entries})
          BY DEF Surjection
      <4> QED BY <1>2, <4>1, <4>2, FS_Surjection
    <3>3. Cardinality(DOMAIN ContentsOf(entries)) \in Nat
        BY <3>2, FS_CardinalityType
    <3> QED BY <1>2, <1>3, <3>1, <3>3, IndexAssumption
  <2>3. Contents' = ContentsOf(fs) BY <1>1, HollowNext
  <2>4. Map!Cardinality(DOMAIN Contents) < MaxEntries
    <3>1. Map!Cardinality(DOMAIN Contents) = Cardinality(DOMAIN Contents)
        BY DEF Map!Cardinality, Cardinality
    <3> QED BY <2>2, <3>1, HollowIs
  <2> QED BY <1>9, <1>11, <2>1, <2>3, <2>4, HollowIs DEF Map!Add
<1>19. Map!MapNext
  <2>1. k \in {Hash[q] : q \in Paths} BY DEF k
  <2> QED BY <1>10, <1>18, <2>1 DEF Map!MapNext
<1> QED BY <1>1, <1>12, <1>17, <1>19, HollowIs, HollowNext DEF Good

LEMMA ExhaustedGood ==
    ASSUME IndexInv, NEW p \in Paths, InsertExhausted(p)
    PROVE  Good
<1> DEFINE k == Hash[p]
           w == WalkCreate(tree, k)
<1>1. /\ w.at = NoNode /\ tree' = w.tree /\ entries' = entries
      /\ count' = count /\ ret' = "POOL_EXHAUSTED" /\ InsertStatus(p) = "OK"
    BY DEF InsertExhausted
<1>2. /\ Table(entries) /\ Sound(tree) /\ tree \in Trees /\ Filed(tree, entries)
      /\ count \in 0 .. MaxEntries /\ DOMAIN entries \subseteq EntryIds
      /\ Range(entries) \subseteq Entry /\ Cardinality(DOMAIN entries) = count
    BY InvFacts
<1>3. k \in Keys /\ Walk(tree, k) = NoNode
    BY <1>1, InsertStatusIs, FoundIs DEF Found
<1> HIDE DEF k
<1>4. Created(tree, k, w, Depth) BY <1>2, <1>3, WalkCreateIs
<1> HIDE DEF w
<1>5. Sound(w.tree) /\ Filed(w.tree, entries)
    BY <1>1, <1>2, <1>3, <1>4, FiledExhausted
<1>6. TypeOK' BY <1>1, <1>2, <1>5, TypeNext DEF Returns
<1>7. IndexInv' BY <1>1, <1>2, <1>5, <1>6 DEF IndexInv
<1>8. UNCHANGED Contents BY <1>1, HollowIs, HollowNext
<1> QED BY <1>1, <1>7, <1>8 DEF Good

LEMMA RemoveGood ==
    ASSUME IndexInv, NEW p \in Paths, RemoveEntry(p)
    PROVE  Good
<1> DEFINE k == Hash[p]
           n == Found(p)
           i == tree.nodes[n].entry
           u == [tree EXCEPT !.nodes[n].entry = NoEntry]
           v == Prune(u, k)
           fs == [j \in DOMAIN entries \ {i} |-> entries[j]]
<1>1. /\ tree' = v /\ entries' = fs /\ count' = count - 1 /\ ret' = "OK"
      /\ LookupStatus(p) = "OK"
    BY DEF RemoveEntry, Unlinked
<1>2. /\ Table(entries) /\ Sound(tree) /\ tree \in Trees /\ Filed(tree, entries)
      /\ count \in 0 .. MaxEntries /\ DOMAIN entries \subseteq EntryIds
      /\ Range(entries) \subseteq Entry /\ IsFiniteSet(DOMAIN entries)
      /\ Cardinality(DOMAIN entries) = count
    BY InvFacts
<1>3. k \in Keys /\ n = Walk(tree, k) /\ n # NoNode /\ n \in NodeIds
      /\ i \in DOMAIN entries
    BY <1>1, LookupStatusIs, FoundIs DEF Found
<1>4. Marked(tree, u, n, NoEntry) BY <1>2, <1>3, MarkIs
<1>5. DOMAIN fs = DOMAIN entries \ {i} /\ \A j \in DOMAIN fs : fs[j] = entries[j]
    OBVIOUS
<1>20. i = tree.nodes[n].entry OBVIOUS
<1> HIDE DEF u, i, n, fs
<1>6. Sound(v) /\ Filed(v, fs) /\ Hollows(v) \subseteq Hollows(tree)
    BY <1>2, <1>3, <1>4, <1>5, <1>20, FiledRemove
<1> HIDE DEF v
<1>7. DOMAIN fs \subseteq EntryIds /\ Range(fs) \subseteq Entry
    BY <1>2, <1>5 DEF Range
<1>8. Cardinality(DOMAIN fs) = count - 1
    BY <1>2, <1>3, <1>5, FS_RemoveElement
<1>9. count - 1 \in 0 .. MaxEntries
  <2>1. Cardinality(DOMAIN fs) \in Nat
      BY <1>2, <1>5, FS_RemoveElement, FS_CardinalityType
  <2> QED BY <1>2, <1>8, <2>1, IndexAssumption
<1>10. TypeOK' BY <1>1, <1>6, <1>7, <1>9, TypeNext DEF Returns
<1>11. IndexInv' BY <1>1, <1>6, <1>8, <1>10 DEF IndexInv
<1>12. Map!MapNext
  <2>1. /\ KeyIn(entries, i) \in DOMAIN ContentsOf(entries)
        /\ ContentsOf(fs) = [j \in DOMAIN ContentsOf(entries) \ {KeyIn(entries, i)} |->
                               ContentsOf(entries)[j]]
    <3>1. Filled(tree, entries) /\ Filled(v, fs) BY <1>2, <1>6 DEF Filed
    <3>2. i \in DOMAIN entries BY <1>3
    <3> QED BY <1>5, <3>1, <3>2, ContentsDelete
  <2>2. Contents' = ContentsOf(fs) BY <1>1, HollowNext
  <2>3. Map!Delete(KeyIn(entries, i)) BY <2>1, <2>2, HollowIs DEF Map!Delete
  <2>4. KeyIn(entries, i) \in {Hash[q] : q \in Paths}
    <3>1. entries[i].path \in Paths BY <1>2, <1>3 DEF Table, Entry
    <3> QED BY <3>1 DEF KeyIn
  <2> QED BY <2>3, <2>4 DEF Map!MapNext
<1> QED BY <1>1, <1>6, <1>11, <1>12, HollowIs, HollowNext DEF Good

LEMMA InitGood ==
    ASSUME IndexInv, InitVolumeIndex
    PROVE  Good
<1>1. /\ tree' = FreshTree /\ entries' = [i \in {} |-> i] /\ count' = 0 /\ ret' = "OK"
    BY DEF InitVolumeIndex
<1>2. Sound(tree') /\ tree'.root = NoNode /\ Hollows(tree') = {}
    BY <1>1, FreshSound
<1>3. DOMAIN entries' = {} BY <1>1
<1>4. Filed(tree', entries') BY <1>2, <1>3, FreshFiled
<1>5. Cardinality(DOMAIN entries') = 0 BY <1>3, FS_EmptySet
<1>6. DOMAIN entries' \subseteq EntryIds /\ Range(entries') \subseteq Entry
    BY <1>3 DEF Range
<1>7. count' \in 0 .. MaxEntries BY <1>1, IndexAssumption
<1>8. TypeOK' BY <1>1, <1>2, <1>6, <1>7, TypeNext DEF Returns
<1>9. IndexInv' BY <1>1, <1>2, <1>4, <1>5, <1>8 DEF IndexInv
<1>10. Contents' = Map!Empty
  <2>1. ContentsOf(entries') = [k \in {} |-> k] BY <1>3 DEF ContentsOf
  <2> QED BY <2>1, HollowNext DEF Map!Empty
<1>11. Map!MapNext BY <1>10 DEF Map!MapNext
<1> QED BY <1>2, <1>9, <1>11, HollowNext DEF Good

\* What a refusal leaves alone.
LEMMA RefusedGood ==
    ASSUME IndexInv, ret' \in Returns, UNCHANGED <<tree, entries, count>>
    PROVE  Good
<1>1. TypeOK' BY DEF IndexInv, TypeOK, Returns
<1>2. IndexInv' BY <1>1 DEF IndexInv
<1>3. Hollow' = Hollow /\ Contents' = Contents BY HollowIs, HollowNext
<1> QED BY <1>2, <1>3 DEF Good

LEMMA NextGood ==
    ASSUME IndexInv, [Next]_vars
    PROVE  Good
<1>1. ASSUME NEW p \in Paths, InsertRefused(p) PROVE Good
  <2>1. ret' \in Returns BY <1>1, InsertStatusIs DEF InsertRefused
  <2> QED BY <1>1, <2>1, RefusedGood DEF InsertRefused
<1>2. ASSUME NEW p \in Paths, RemoveRefused(p) PROVE Good
  <2>1. LookupStatus(p) \in {"OK", "PATH_TOO_LONG", "NOT_FOUND"} BY LookupStatusIs
  <2>2. ret' \in Returns BY <1>2, <2>1 DEF RemoveRefused, Returns
  <2> QED BY <1>2, <2>2, RefusedGood DEF RemoveRefused
<1>3. ASSUME UNCHANGED vars PROVE Good
  <2>1. ret' \in Returns BY <1>3 DEF IndexInv, TypeOK, vars, Returns
  <2> QED BY <1>3, <2>1, RefusedGood DEF vars
<1> QED BY <1>1, <1>2, <1>3, InsertGood, ExhaustedGood, RemoveGood, InitGood DEF Next

LEMMA InitInv ==
    ASSUME Init
    PROVE  IndexInv /\ Contents = Map!Empty
<1>1. tree = FreshTree /\ entries = [i \in {} |-> i] /\ count = 0 /\ ret = "OK"
    BY DEF Init
<1>2. Sound(tree) /\ tree.root = NoNode /\ tree \in Trees /\ IsInjective(tree.free)
    BY <1>1, FreshSound DEF Sound
<1>3. DOMAIN entries = {} BY <1>1
<1>4. Filed(tree, entries) BY <1>2, <1>3, FreshFiled
<1>5. Cardinality(DOMAIN entries) = 0 BY <1>3, FS_EmptySet
<1>6. DOMAIN entries \subseteq EntryIds /\ Range(entries) \subseteq Entry
    BY <1>3 DEF Range
<1>7. count \in 0 .. MaxEntries BY <1>1, IndexAssumption
<1>8. Len(tree.free) <= MaxNodes BY <1>2, StackFits
<1>9. TypeOK BY <1>1, <1>2, <1>6, <1>7, <1>8, TreeFields DEF TypeOK, Places
<1>10. IndexInv BY <1>1, <1>2, <1>4, <1>5, <1>9 DEF IndexInv
<1>11. Contents = Map!Empty
  <2>1. ContentsOf(entries) = [k \in {} |-> k] BY <1>3 DEF ContentsOf
  <2> QED BY <2>1, HollowIs DEF Map!Empty
<1> QED BY <1>10, <1>11

-----------------------------------------------------------------------------
(* What the invariant says of the index.                                   *)

\* A sound tree loses no node of its pool and uses none twice.
LEMMA Conserved ==
    ASSUME Sound(tree)
    PROVE  PoolConserved
<1>0. /\ tree \in Trees /\ IsInjective(tree.free) /\ OneParent(tree)
      /\ RootAbove(tree) /\ NoneFree(tree) /\ FreeEmpty(tree) /\ AllReached(tree)
      /\ Free(tree) \in SUBSET NodeIds /\ NoNode \notin NodeIds
    BY TreeFields, IndexAssumption DEF Sound
<1>1. InUse = NodeIds \ Free(tree) BY DEF InUse, Free
<1>2. \A l \in Links : /\ l[1] \in NodeIds /\ l[2] \in Nibbles
                       /\ Target(l) = tree.nodes[l[1]].kids[l[2]]
                       /\ Target(l) # NoNode /\ l = <<l[1], l[2]>>
    BY DEF Links, Target
<1>3. \A l \in Links : Target(l) \in InUse
  <2> SUFFICES ASSUME NEW l \in Links PROVE Target(l) \in InUse
      OBVIOUS
  <2>1. Target(l) \in Places BY <1>0, <1>2, TreeFields
  <2>2. Target(l) \notin Free(tree) BY <1>0, <1>2 DEF NoneFree
  <2> QED BY <1>1, <1>2, <2>1, <2>2 DEF Places
<1>4. tree.root # NoNode => tree.root \in InUse
    BY <1>0, <1>1, TreeFields DEF Places, NoneFree
<1>5. ASSUME NEW n \in InUse
      PROVE  n = tree.root \/ n \in {Target(l) : l \in Links}
  <2>0. n \in NodeIds /\ n # NoNode BY <1>0, <1>1
  <2>1. OnPath(tree, n) BY <1>0, <1>1 DEF AllReached
  <2>2. PICK k \in Keys, j \in 0 .. Depth : Path(tree, k)[j] = n
      BY <2>1 DEF OnPath
  <2>3. CASE j = 0 BY <1>0, <2>2, <2>3, PathIs
  <2>4. CASE j # 0
    <3>1. j \in 1 .. Depth BY <2>4, DepthIs
    <3> DEFINE a == Path(tree, k)[j - 1]
               l == <<a, k[j]>>
    <3>2. a \in NodeIds /\ k[j] \in Nibbles /\ n = tree.nodes[a].kids[k[j]]
        BY <1>0, <2>0, <2>2, <3>1, PathKid
    <3>3. l \in Links /\ Target(l) = n BY <2>0, <3>2 DEF Links, Target
    <3> QED BY <3>3
  <2> QED BY <2>3, <2>4
<1>6. InUse = ({tree.root} \ {NoNode}) \cup {Target(l) : l \in Links}
  <2>1. \A n \in InUse : n # NoNode BY <1>0, <1>1
  <2> QED BY <1>3, <1>4, <1>5, <2>1
<1>7. ASSUME NEW l \in Links, NEW m \in Links, Target(l) = Target(m) PROVE l = m
  <2> DEFINE c == Target(l)
  <2>1. /\ tree.nodes[l[1]].kids[l[2]] = c /\ tree.nodes[m[1]].kids[m[2]] = c
        /\ c # NoNode
      BY <1>2, <1>7
  <2> HIDE DEF c
  <2>2. l[1] \in NodeIds /\ l[2] \in Nibbles /\ m[1] \in NodeIds /\ m[2] \in Nibbles
      BY <1>2
  <2>3. l[1] = m[1] /\ l[2] = m[2] BY <1>0, <2>1, <2>2, OneParentIs
  <2> QED BY <1>2, <2>3
<1>8. \A l \in Links : Target(l) # tree.root BY <1>0, <1>2 DEF RootAbove
<1>9. \A n \in Range(tree.free) : IsEmpty(tree, n)
    BY <1>0 DEF FreeEmpty, Free, IsEmpty
<1> QED BY <1>0, <1>6, <1>7, <1>8, <1>9 DEF PoolConserved

\* There is a node with an entry for each entry.
LEMMA TerminalsIs ==
    ASSUME IndexInv
    PROVE  Cardinality(Terminals) = count
<1> DEFINE at == [i \in DOMAIN entries |-> Walk(tree, KeyIn(entries, i))]
<1>1. /\ Table(entries) /\ Sound(tree) /\ Owned(tree, entries)
      /\ Filled(tree, entries) /\ DOMAIN entries \subseteq EntryIds
      /\ IsFiniteSet(DOMAIN entries) /\ Cardinality(DOMAIN entries) = count
    BY InvFacts DEF Filed
<1>2. ASSUME NEW i \in DOMAIN entries
      PROVE  at[i] \in NodeIds /\ tree.nodes[at[i]].entry = i
  <2>1. KeyIn(entries, i) \in Keys BY <1>1 DEF Table
  <2>2. at[i] = Walk(tree, KeyIn(entries, i)) OBVIOUS
  <2>3. at[i] # NoNode /\ tree.nodes[at[i]].entry = i BY <1>1, <2>2 DEF Filled
  <2> QED BY <1>1, <2>1, <2>2, <2>3, WalkIs
<1>3. ASSUME NEW n \in Terminals
      PROVE  \E i \in DOMAIN entries : at[i] = n
  <2> DEFINE i == tree.nodes[n].entry
  <2>1. n \in NodeIds /\ i \in DOMAIN entries BY DEF Terminals
  <2>2. i # NoEntry BY <1>1, <2>1, IndexAssumption
  <2>3. Walk(tree, KeyIn(entries, i)) = n BY <1>1, <2>1, <2>2 DEF Owned
  <2>4. at[i] = n BY <2>1, <2>3
  <2> QED BY <2>1, <2>4
<1>4. DOMAIN at = DOMAIN entries OBVIOUS
<1>10. at = [i \in DOMAIN entries |-> at[i]] OBVIOUS
<1> HIDE DEF at
<1>5. \A i \in DOMAIN entries : at[i] \in Terminals BY <1>2 DEF Terminals
<1>6. at \in [DOMAIN entries -> Terminals] BY <1>5, <1>10
<1>7. \A i, j \in DOMAIN entries : at[i] = at[j] => i = j BY <1>2
<1>8. at \in Bijection(DOMAIN entries, Terminals)
    BY <1>3, <1>4, <1>6, <1>7 DEF Bijection, Injection, Surjection, IsInjective
<1>9. ExistsBijection(DOMAIN entries, Terminals) BY <1>8 DEF ExistsBijection
<1> QED BY <1>1, <1>9, FS_Bijection

LEMMA SoundIndex ==
    ASSUME IndexInv
    PROVE  IndexSound
<1>1. /\ Table(entries) /\ Sound(tree) /\ tree \in Trees /\ Filed(tree, entries)
      /\ Cardinality(DOMAIN entries) = count
    BY InvFacts
<1>2. TypeOK /\ PoolConserved BY Conserved DEF IndexInv
<1>3. VerifyIntegrity = "OK"
  <2>1. tree.root = NoNode => DOMAIN entries = {}
    <3> SUFFICES ASSUME tree.root = NoNode, NEW i \in DOMAIN entries PROVE FALSE
        OBVIOUS
    <3>1. KeyIn(entries, i) \in Keys BY <1>1 DEF Table
    <3>2. Walk(tree, KeyIn(entries, i)) = NoNode
        BY <1>1, <3>1, NoRoot, DepthIs DEF Walk
    <3> QED BY <1>1, <3>2 DEF Filed, Filled
  <2>2. \A n \in NodeIds : Range(tree.nodes[n].kids) \subseteq NodeIds \cup {NoNode}
      BY <1>1, TreeFields DEF Range, Places
  <2>3. Cardinality(Terminals) = count BY TerminalsIs
  <2> QED BY <1>1, <2>1, <2>2, <2>3 DEF VerifyIntegrity
<1>4. ASSUME NEW i \in DOMAIN entries
      PROVE  Lookup(entries[i].path) = entries[i]
  <2>1. tree.nodes[Found(entries[i].path)].entry = i
      BY <1>1 DEF Filed, Filled, Found, KeyIn
  <2> QED BY <2>1 DEF Lookup
<1>5. \A p \in Paths : LookupStatus(p) # "ENTRY_CORRUPT" BY LookupStatusIs
<1> QED BY <1>2, <1>3, <1>4, <1>5 DEF IndexSound

-----------------------------------------------------------------------------
(* Theorems.                                                               *)

LEMMA Inductive == Spec => []IndexInv
<1>1. Init => IndexInv BY InitInv
<1>2. IndexInv /\ [Next]_vars => IndexInv' BY NextGood DEF Good
<1> QED BY <1>1, <1>2, PTL DEF Spec

\* Whatever calls are made of an index in whatever order, its pool is whole,
\* every entry is where the hash of its path leads and nothing else is: the
\* check of fvip_verify_integrity would find no fault, and the corruption that
\* fvip_lookup_entry looks for does not arise.
THEOREM IndexCorrect == Spec => []IndexSound
<1>1. IndexInv => IndexSound BY SoundIndex
<1> QED BY <1>1, Inductive, PTL

\* Of all calls only an insertion that runs out of nodes leaves branches
\* without an entry behind; univip_prune takes away all that a removal empties.
THEOREM WasteBounded == Spec => OnlyExhaustionWastes
<1>1. IndexInv /\ [Next]_vars
          => [Hollow' \subseteq Hollow \/ ret' = "POOL_EXHAUSTED"]_vars
    BY NextGood DEF Good
<1> QED BY <1>1, Inductive, PTL DEF Spec, OnlyExhaustionWastes

\* The table with its trie is a bounded map over hashes: a call adds one entry
\* or takes one away, and one that fails changes nothing that lookups find.
THEOREM IndexRefines == Spec => RefinesVolumeMap
<1>1. Init => Map!MapInit BY InitInv DEF Map!MapInit
<1>2. IndexInv /\ [Next]_vars => [Map!MapNext]_Contents
    BY NextGood DEF Good
<1> QED BY <1>1, <1>2, Inductive, PTL DEF Spec, RefinesVolumeMap, Map!MapSpec

=============================================================================
