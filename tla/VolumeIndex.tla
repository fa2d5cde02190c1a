---------------------------- MODULE VolumeIndex -----------------------------
(***************************************************************************)
(* The file volume index (compat/vip/univip_fvip.c): a table of entries    *)
(* and, embedded in it, a trie over the nibbles of the hash of a path,     *)
(* whose nodes come from a pool with a stack of free ones.                 *)
(*                                                                         *)
(* A tree is a record of its nodes, the stack and the root; the functions  *)
(* univip_walk, univip_prune and those they call map a tree to the next    *)
(* one.  node_count and entry_count are not kept: they are MaxNodes less   *)
(* the height of the stack, and table->count.                              *)
(***************************************************************************)
EXTENDS Integers, Sequences, FiniteSets, Functions

CONSTANTS
    Paths,      \* path arguments
    Form,       \* Form[p]: "good", "long" (or empty), "malformed" (not SUTF-8)
    Hash,       \* Hash[p]: the nibbles of the hash, the first one on top
    Nibbles, Depth,     \* UNIVIP_CHILDREN_PER_NODE, UNIVIP_NIBBLE_COUNT
    Offsets,
    MaxNodes,   \* UNIVIP_MAX_NODES
    MaxEntries, \* FVIP_MAX_ENTRIES
    NoNode, NoEntry

NodeIds == 0 .. MaxNodes - 1
EntryIds == 0 .. MaxEntries - 1
Keys == [1 .. Depth -> Nibbles]

ASSUME IndexAssumption ==
    /\ Form \in [Paths -> {"good", "long", "malformed"}]
    /\ Hash \in [Paths -> Keys]
    /\ Depth \in Nat \ {0} /\ MaxNodes \in Nat /\ MaxEntries \in Nat
    /\ NoNode \notin NodeIds /\ NoEntry \notin EntryIds

VARIABLES
    tree,       \* univip_tree_t
    entries,    \* the occupied entries of the table
    count,      \* table->count
    ret         \* what the last call returned

vars == <<tree, entries, count, ret>>

Entry == [path : Paths, offset : Offsets]

\* univip_node_t: a child whose bit is clear is NoNode.
Node == [kids : [Nibbles -> NodeIds \cup {NoNode}], entry : EntryIds \cup {NoEntry}]
EmptyNode == [kids |-> [n \in Nibbles |-> NoNode], entry |-> NoEntry]

TypeOK ==
    /\ tree.nodes \in [NodeIds -> Node]
    /\ tree.free \in Seq(NodeIds) /\ Len(tree.free) <= MaxNodes
    /\ tree.root \in NodeIds \cup {NoNode}
    /\ DOMAIN entries \subseteq EntryIds /\ Range(entries) \subseteq Entry
    /\ count \in 0 .. MaxEntries
    /\ ret \in {"OK", "NOT_FOUND", "ALREADY_EXISTS", "TABLE_FULL", "PATH_TOO_LONG",
                "INVALID_SUTF8", "POOL_EXHAUSTED"}

-----------------------------------------------------------------------------
\* The pool.  The top of the stack is the last element of free.

FreshTree == [nodes |-> [n \in NodeIds |-> EmptyNode],
              free |-> [i \in 1 .. MaxNodes |-> MaxNodes - i],
              root |-> NoNode]

\* univip_node_alloc, when the stack is not empty.
Top(t) == t.free[Len(t.free)]
Alloc(t) == [t EXCEPT !.nodes[Top(t)] = EmptyNode, !.free = SubSeq(@, 1, Len(@) - 1)]

\* univip_node_free.
NodeFree(t, n) ==
    IF Len(t.free) < MaxNodes
    THEN [t EXCEPT !.nodes[n] = EmptyNode, !.free = Append(@, n)]
    ELSE t

-----------------------------------------------------------------------------
\* Walks.

\* univip_walk_const, and univip_walk without create.
Child(t, n, nib) == IF n = NoNode THEN NoNode ELSE t.nodes[n].kids[nib]

\* The nodes on the way along a key, by level; NoNode where it has ended.
Path(t, key) ==
    LET at[i \in 0 .. Depth] ==
            IF i = 0 THEN t.root ELSE Child(t, at[i - 1], key[i])
    IN  at
Walk(t, key) == Path(t, key)[Depth]

\* univip_walk with create, as the tree and the node it came to.  A walk that
\* runs out of nodes leaves those it made.
AllocRoot(t) ==
    IF t.root # NoNode \/ t.free = <<>> THEN t
    ELSE [Alloc(t) EXCEPT !.root = Top(t)]

Step(w, nib) ==
    IF w.at = NoNode THEN w
    ELSE IF Child(w.tree, w.at, nib) # NoNode
    THEN [w EXCEPT !.at = Child(w.tree, w.at, nib)]
    ELSE IF w.tree.free = <<>> THEN [w EXCEPT !.at = NoNode]
    ELSE [tree |-> [Alloc(w.tree) EXCEPT
                       !.nodes[w.at].kids[nib] = Top(w.tree)],
          at |-> Top(w.tree)]

WalkCreate(t, key) ==
    LET made[i \in 0 .. Depth] ==
            IF i = 0 THEN [tree |-> AllocRoot(t), at |-> AllocRoot(t).root]
            ELSE Step(made[i - 1], key[i])
    IN  made[Depth]

\* univip_prune: bottom-up along the path of a key; the node at a level is
\* freed when it has neither children nor an entry.
IsEmpty(t, n) == t.nodes[n] = EmptyNode

Trim(t, parent, node, nib) ==
    IF IsEmpty(t, node)
    THEN NodeFree([t EXCEPT !.nodes[parent].kids[nib] = NoNode], node)
    ELSE t

Prune(t, key) ==
    LET at == Path(t, key)
        trimmed[i \in 0 .. Depth] ==
            IF i = 0 THEN t
            ELSE LET level == Depth + 1 - i
                 IN  Trim(trimmed[i - 1], at[level - 1], at[level], key[level])
        below == trimmed[Depth]
    IN  IF at[Depth] = NoNode THEN t
        ELSE IF IsEmpty(below, below.root)
        THEN [NodeFree(below, below.root) EXCEPT !.root = NoNode]
        ELSE below

-----------------------------------------------------------------------------
\* fvip_init_volume_index
Init ==
    /\ tree = FreshTree
    /\ entries = [i \in {} |-> i]
    /\ count = 0
    /\ ret = "OK"

InitVolumeIndex ==
    /\ tree' = FreshTree
    /\ entries' = [i \in {} |-> i]
    /\ count' = 0
    /\ ret' = "OK"

\* The loop takes the first entry that is not occupied.
FirstFree == CHOOSE i \in EntryIds \ DOMAIN entries :
                \A j \in EntryIds \ DOMAIN entries : i <= j

Found(p) == Walk(tree, Hash[p])

\* Slip: the entries are taken to be occupied without gaps.
Slot_Last == count
Slot == FirstFree

\* fvip_insert_entry up to the first thing it changes.  A walk that finds a
\* node with an entry takes it for an entry of the same path.
\* Slip: duplicates are not looked for.
InsertStatus_Duplicates(p) ==
    CASE Form[p] = "long" -> "PATH_TOO_LONG"
      [] Form[p] = "malformed" -> "INVALID_SUTF8"
      [] Form[p] = "good" /\ count >= MaxEntries -> "TABLE_FULL"
      [] OTHER -> "OK"
InsertStatus(p) ==
    CASE Form[p] = "long" -> "PATH_TOO_LONG"
      [] Form[p] = "malformed" -> "INVALID_SUTF8"
      [] Form[p] = "good" /\ count >= MaxEntries -> "TABLE_FULL"
      [] Form[p] = "good" /\ count < MaxEntries /\ Found(p) # NoNode
            /\ tree.nodes[Found(p)].entry # NoEntry -> "ALREADY_EXISTS"
      [] OTHER -> "OK"

\* The rest of fvip_insert_entry.
InsertEntry(p, o) ==
    /\ InsertStatus(p) = "OK"
    /\ LET w == WalkCreate(tree, Hash[p]) IN
       /\ w.at # NoNode
       /\ tree' = [w.tree EXCEPT !.nodes[w.at].entry = Slot]
       /\ entries' = [i \in DOMAIN entries \cup {Slot} |->
             IF i = Slot THEN [path |-> p, offset |-> o] ELSE entries[i]]
    /\ count' = count + 1
    /\ ret' = "OK"

\* The pool has no node for the path, and its upper nodes are left behind.
InsertExhausted(p) ==
    /\ InsertStatus(p) = "OK"
    /\ LET w == WalkCreate(tree, Hash[p]) IN
       /\ w.at = NoNode
       /\ tree' = w.tree
    /\ ret' = "POOL_EXHAUSTED"
    /\ UNCHANGED <<entries, count>>

InsertRefused(p) ==
    /\ InsertStatus(p) # "OK"
    /\ ret' = InsertStatus(p)
    /\ UNCHANGED <<tree, entries, count>>

\* fvip_lookup_entry: the entry of the node that the hash leads to.
LookupStatus(p) ==
    CASE Form[p] = "long" -> "PATH_TOO_LONG"
      [] Form[p] # "long" /\ Found(p) = NoNode -> "NOT_FOUND"
      [] Form[p] # "long" /\ Found(p) # NoNode
            /\ tree.nodes[Found(p)].entry \notin DOMAIN entries -> "ENTRY_CORRUPT"
      [] OTHER -> "OK"
Lookup(p) == entries[tree.nodes[Found(p)].entry]

\* fvip_remove_entry: it looks no closer at the path than the lookup does.
\* Slip: the branch is not pruned.
Unlinked_Unpruned(p) == [tree EXCEPT !.nodes[Found(p)].entry = NoEntry]
Unlinked(p) == Prune([tree EXCEPT !.nodes[Found(p)].entry = NoEntry], Hash[p])

RemoveEntry(p) ==
    /\ LookupStatus(p) = "OK"
    /\ tree' = Unlinked(p)
    /\ entries' = [i \in DOMAIN entries \ {tree.nodes[Found(p)].entry} |-> entries[i]]
    /\ count' = count - 1
    /\ ret' = "OK"

RemoveRefused(p) ==
    /\ LookupStatus(p) # "OK"
    /\ ret' = IF /\ LookupStatus(p) = "ENTRY_CORRUPT"
                 /\ tree.nodes[Found(p)].entry # NoEntry
              THEN "NOT_FOUND" ELSE LookupStatus(p)
    /\ UNCHANGED <<tree, entries, count>>

Next ==
    \/ \E p \in Paths :
          \/ InsertExhausted(p) \/ InsertRefused(p)
          \/ RemoveEntry(p) \/ RemoveRefused(p)
          \/ \E o \in Offsets : InsertEntry(p, o)
    \/ InitVolumeIndex

Spec == Init /\ [][Next]_vars

\* fvip_verify_integrity, for entries whose own fields are sound.
Terminals == {n \in NodeIds : tree.nodes[n].entry \in DOMAIN entries}
VerifyIntegrity ==
    IF Cardinality(DOMAIN entries) # count THEN "TABLE_CORRUPT"
    ELSE IF tree.root = NoNode
    THEN IF DOMAIN entries # {} THEN "TABLE_CORRUPT" ELSE "OK"
    ELSE IF \E n \in NodeIds :
                ~(Range(tree.nodes[n].kids) \subseteq NodeIds \cup {NoNode})
    THEN "NODE_CORRUPT"
    ELSE IF Cardinality(Terminals) # count THEN "TABLE_CORRUPT"
    ELSE "OK"

-----------------------------------------------------------------------------
InUse == NodeIds \ Range(tree.free)
Links == {l \in NodeIds \X Nibbles : tree.nodes[l[1]].kids[l[2]] # NoNode}
Target(l) == tree.nodes[l[1]].kids[l[2]]

\* No node is lost and none is used twice: the stack holds each free node
\* once, and every other node has exactly one parent, the root none.
PoolConserved ==
    /\ IsInjective(tree.free)
    /\ InUse = ({tree.root} \ {NoNode}) \cup {Target(l) : l \in Links}
    /\ \A l, m \in Links : Target(l) = Target(m) => l = m
    /\ \A l \in Links : Target(l) # tree.root
    /\ \A n \in Range(tree.free) : IsEmpty(tree, n)

\* Every entry is where the hash of its path leads, and nothing else is: the
\* check of the code finds no fault, and a lookup never reports one.
IndexSound ==
    /\ TypeOK /\ PoolConserved
    /\ VerifyIntegrity = "OK"
    /\ \A i \in DOMAIN entries : Lookup(entries[i].path) = entries[i]
    /\ \A p \in Paths : LookupStatus(p) # "ENTRY_CORRUPT"

Hollow == {n \in InUse : IsEmpty(tree, n)}

\* A branch that leads to no entry was left behind by an insertion that ran
\* out of nodes; insertions and removals that succeed leave none.
OnlyExhaustionWastes == [][
    Hollow' \subseteq Hollow \/ ret' = "POOL_EXHAUSTED"]_vars

\* What lookups find under each key.
Contents == [k \in {Hash[entries[i].path] : i \in DOMAIN entries} |->
    entries[CHOOSE i \in DOMAIN entries : Hash[entries[i].path] = k]]

Map == INSTANCE VolumeMap WITH
    Keys <- {Hash[p] : p \in Paths}, Entries <- Entry, Bound <- MaxEntries,
    index <- Contents

\* The table and its trie are together one map over hashes.
RefinesVolumeMap == Map!MapSpec

=============================================================================
