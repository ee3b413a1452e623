------------------------------ MODULE Critbit ------------------------------
(***************************************************************************)
(* serum_dex/critbit.rs: one side of the order book, a crit-bit tree whose *)
(* nodes live in a slab of fixed size.  A node that is given back goes on  *)
(* a free list threaded through the slab itself.  Keys have Bits bits (the *)
(* code: 128), of which bit 0 is the most significant.                     *)
(***************************************************************************)
EXTENDS Integers, SequencesExt

CONSTANTS
    Bits,      \* width of a key
    Keys,      \* the keys used
    Capacity,  \* nodes().len()
    Values,    \* what a leaf holds besides its key
    Limits,    \* limits that find_by is called with
    None       \* Option::None

VARIABLES
    slab,   \* the header's fields and nodes, handle -> node
    op,     \* the last call,
    answer  \* and what it returned

vars == <<slab, op, answer>>

Handles == 0 .. Capacity - 1

Uninitialized == [tag |-> "Uninitialized"]
LeafNode(k, v) == [tag |-> "LeafNode", key |-> k, value |-> v]
InnerNode(len, k, ch) ==
    [tag |-> "InnerNode", prefix_len |-> len, key |-> k, children |-> ch]

Live(node) == node.tag \in {"InnerNode", "LeafNode"}

\* Slab::new over a zeroed account.
Init ==
    /\ slab = [bump_index |-> 0, free_list_len |-> 0, free_list_head |-> 0,
               root_node |-> 0, leaf_count |-> 0,
               nodes |-> [h \in Handles |-> Uninitialized]]
    /\ op = "new"
    /\ answer = None

(***************************************************************************)
(* The slab.  Each operator returns the slab after the call.               *)
(***************************************************************************)
\* The conditions that insert asserts of the free list.
FreeListAsserts(s) ==
    s.free_list_len > 0 =>
        \/ s.nodes[s.free_list_head].tag = "FreeNode" /\ s.free_list_len > 1
        \/ s.nodes[s.free_list_head].tag = "LastFreeNode" /\ s.free_list_len = 1

Full(s) == s.free_list_len = 0 /\ s.bump_index = Capacity

\* The handle that insert gives its node, when the slab is not full.
NextHandle(s) == IF s.free_list_len = 0 THEN s.bump_index ELSE s.free_list_head

SlabInsert(s, node) ==
    IF s.free_list_len = 0
    THEN [s EXCEPT !.nodes[s.bump_index] = node, !.bump_index = @ + 1]
    ELSE [s EXCEPT !.nodes[s.free_list_head] = node,
                   !.free_list_head = s.nodes[s.free_list_head].next,
                   !.free_list_len = @ - 1]

SlabRemove(s, h) ==
    [s EXCEPT !.nodes[h] = [tag |-> IF s.free_list_len = 0 THEN "LastFreeNode"
                                                           ELSE "FreeNode",
                            next |-> s.free_list_head],
              !.free_list_len = @ + 1,
              !.free_list_head = h]

(***************************************************************************)
(* The tree.                                                               *)
(***************************************************************************)
\* (a ^ b).leading_zeros()
SharedPrefixLen(a, b) ==
    Max({n \in 0..Bits : a \div 2^(Bits - n) = b \div 2^(Bits - n)})

\* The crit bit, and the child that walk_down takes; children are numbered
\* from 1.
CritBit(len, k) == 1 + ((k \div 2^(Bits - 1 - len)) % 2)
WalkDown(node, k) == node.children[CritBit(node.prefix_len, k)]

\* What x becomes in n turns of a loop.  No walk down the tree is longer than
\* Bits turns; a walk that has ended stays where it is.
Repeat(Turn(_), x, n) ==
    LET after[i \in 0..n] == IF i = 0 THEN x ELSE Turn(after[i - 1])
    IN  after[n]

\* The leaf that find_min_max ends at.
Extreme(s, child) ==
    LET Turn(h) == IF s.nodes[h].tag = "InnerNode" THEN s.nodes[h].children[child] ELSE h
    IN  Repeat(Turn, s.root_node, Bits)

\* insert_leaf's root after its loop: the node that becomes the leaf's parent,
\* or the leaf with its key.
InsertionPoint(s, k) ==
    LET Turn(h) == IF /\ s.nodes[h].tag = "InnerNode"
                      /\ SharedPrefixLen(s.nodes[h].key, k) >= s.nodes[h].prefix_len
                   THEN WalkDown(s.nodes[h], k) ELSE h
    IN  Repeat(Turn, s.root_node, Bits)

\* The slab with the node at h pushed below an inner node that takes its place.
Split(s, h, k, v) ==
    LET old == s.nodes[h]
        len == SharedPrefixLen(old.key, k)
        leaf_h == NextHandle(s)
        s1 == SlabInsert(s, LeafNode(k, v))
        moved_h == NextHandle(s1)
        s2 == SlabInsert(s1, old)
        children == IF CritBit(len, k) = 2 THEN <<moved_h, leaf_h>>
                                           ELSE <<leaf_h, moved_h>>
    IN  IF Full(s) THEN [ok |-> FALSE, slab |-> s]
        ELSE IF Full(s1) THEN [ok |-> FALSE, slab |-> SlabRemove(s1, leaf_h)]
        ELSE [ok |-> TRUE,
              slab |-> [s2 EXCEPT !.nodes[h] = InnerNode(len, k, children),
                                  !.leaf_count = @ + 1]]

\* A plausible bug: an order with the key of another one replaces it, and
\* the caller is not told.
Inserted_OldDropped(s, k, v) ==
    LET h == InsertionPoint(s, k)
        split == Split(s, h, k, v)
    IN  IF s.leaf_count = 0
        THEN [ok |-> TRUE, old |-> None,
              slab |-> [SlabInsert(s, LeafNode(k, v)) EXCEPT
                                 !.root_node = NextHandle(s), !.leaf_count = 1]]
        ELSE IF s.nodes[h].tag = "LeafNode" /\ s.nodes[h].key = k
        THEN [ok |-> TRUE, old |-> None, slab |-> [s EXCEPT !.nodes[h] = LeafNode(k, v)]]
        ELSE [ok |-> split.ok, old |-> None, slab |-> split.slab]

\* What insert_leaf returns, and the slab it leaves.
Inserted(s, k, v) ==
    LET h == InsertionPoint(s, k)
        node == s.nodes[h]
    IN  IF s.leaf_count = 0
        THEN [ok |-> ~Full(s), old |-> None,
              slab |-> IF Full(s) THEN s
                       ELSE [SlabInsert(s, LeafNode(k, v)) EXCEPT
                                 !.root_node = NextHandle(s), !.leaf_count = 1]]
        ELSE IF node.tag = "LeafNode" /\ node.key = k
        THEN [ok |-> TRUE, old |-> node.value,
              slab |-> [s EXCEPT !.nodes[h] = LeafNode(k, v)]]
        ELSE LET split == Split(s, h, k, v)
             IN  [ok |-> split.ok, old |-> None, slab |-> split.slab]

InsertLeaf(k, v) ==
    LET result == Inserted(slab, k, v) IN
    /\ op' = "insert"
    /\ slab' = result.slab
    /\ answer' = [ok |-> result.ok, old |-> result.old]

\* The leaf that a walk down to k ends at, and the last inner node before it.
Found(s, k) ==
    LET Turn(at) == LET n == s.nodes[at.child] IN
                    IF n.tag = "InnerNode"
                    THEN [parent |-> at.child, child |-> WalkDown(n, k)] ELSE at
    IN  Repeat(Turn, [parent |-> None, child |-> s.root_node], Bits)

\* remove_by_key's change of the slab, for a key that is in the tree.
RemoveFound(s, k) ==
    LET f == Found(s, k)
        parent == s.nodes[f.parent]
        other_h == parent.children[3 - CritBit(parent.prefix_len, k)]
        s1 == SlabRemove(s, other_h)
    IN  IF f.parent = None
        THEN SlabRemove([s EXCEPT !.root_node = 0, !.leaf_count = 0], f.child)
        ELSE SlabRemove([s1 EXCEPT !.nodes[f.parent] = s.nodes[other_h],
                                   !.leaf_count = @ - 1], f.child)

RemoveByKey(remove, k) ==
    LET leaf == slab.nodes[Found(slab, k).child]
        present == slab.leaf_count > 0 /\ leaf.key = k
    IN  /\ op' = remove
        /\ slab' = IF present THEN RemoveFound(slab, k) ELSE slab
        /\ answer' = [key |-> k, value |-> IF present THEN leaf.value ELSE None]

RemoveExtreme(remove, child) ==
    IF slab.leaf_count = 0
    THEN op' = remove /\ answer' = None /\ UNCHANGED slab
    ELSE RemoveByKey(remove, slab.nodes[Extreme(slab, child)].key)

\* A turn of find_by's loop pops a node, and pushes its children.
FindBy(v, limit) ==
    LET start == [stack |-> IF slab.leaf_count = 0 THEN <<>> ELSE <<slab.root_node>>,
                  keys |-> {}]
        Turn(found) ==
            LET n == slab.nodes[Last(found.stack)]
                rest == Front(found.stack)
            IN  IF found.stack = <<>> THEN found
                ELSE IF n.tag = "InnerNode"
                THEN [found EXCEPT !.stack = rest \o n.children]
                ELSE [stack |-> rest,
                      keys |-> found.keys \cup (IF n.value = v THEN {n.key} ELSE {})]
    IN  /\ op' = "find_by"
        /\ answer' = Repeat(Turn, start, limit).keys
        /\ UNCHANGED slab

Next ==
    \/ \E k \in Keys, v \in Values : InsertLeaf(k, v)
    \/ \E k \in Keys : RemoveByKey("remove", k)
    \/ RemoveExtreme("remove_min", 1)
    \/ RemoveExtreme("remove_max", 2)
    \/ \E v \in Values, limit \in Limits : FindBy(v, limit)

Spec == Init /\ [][Next]_vars
-----------------------------------------------------------------------------
\* The nodes that the root reaches, and the leaves among them.
Tree ==
    LET Below(S) == S \cup UNION {ToSet(slab.nodes[h].children) :
                                    h \in {g \in S : slab.nodes[g].tag = "InnerNode"}}
    IN  Repeat(Below, IF slab.leaf_count = 0 THEN {} ELSE {slab.root_node}, Bits)

Leaves == {h \in Tree : slab.nodes[h].tag = "LeafNode"}

\* The orders in the slab's leaves, all of which are in the tree (NoNodeIsLost).
Orders ==
    LET leaves == {h \in Handles : slab.nodes[h].tag = "LeafNode"} IN
    [k \in {slab.nodes[h].key : h \in leaves} |->
        slab.nodes[CHOOSE h \in leaves : slab.nodes[h].key = k].value]

\* The slab's free list, in the order in which it will be used.
FreeList ==
    LET More(list) == Append(list, slab.nodes[Last(list)].next) IN
    IF slab.free_list_len = 0 THEN <<>>
    ELSE Repeat(More, <<slab.free_list_head>>, slab.free_list_len - 1)

\* The header's counters stay within the slab, and handles within the nodes
\* that were handed out.
TypeOK ==
    /\ slab.bump_index \in 0..Capacity
    /\ slab.free_list_len \in 0..slab.bump_index
    /\ slab.free_list_head \in Handles
    /\ slab.root_node \in Handles
    /\ slab.leaf_count \in 0..Capacity
    /\ DOMAIN slab.nodes = Handles

\* Whatever calls are made, every node handed out is either in the tree or on
\* the free list, once: none is lost, so an insert fails only when the book is
\* full, and none is in use twice.  The free list's tags are those that insert
\* asserts.
NoNodeIsLost ==
    LET tree == Tree
        free == FreeList
    IN  /\ FreeListAsserts(slab)
        /\ \A h \in tree : Live(slab.nodes[h])
        /\ tree \cup ToSet(free) = 0 .. slab.bump_index - 1
        /\ tree \cap ToSet(free) = {}
        /\ IsInjective(free)
        /\ slab.leaf_count = Cardinality(Leaves)
        /\ slab.leaf_count > 0 => Cardinality(tree) = 2 * slab.leaf_count - 1

\* What the test's check_invariants asserts: below an inner node the prefixes
\* are longer, agree with its own, and the crit bit is that of the side.
PrefixesNest ==
    \A h \in Tree : slab.nodes[h].tag = "InnerNode" =>
        LET n == slab.nodes[h] IN
        \A side \in 1..2 :
            LET c == slab.nodes[n.children[side]] IN
            /\ c.tag = "InnerNode" => c.prefix_len > n.prefix_len
            /\ SharedPrefixLen(c.key, n.key) >= n.prefix_len
            /\ CritBit(n.prefix_len, c.key) = side

Map == INSTANCE OrderMap WITH
    Keys <- Keys, Values <- Values, Limits <- Limits, None <- None,
    MaxLeaves <- (Capacity + 1) \div 2, orders <- Orders, op <- op, answer <- answer

\* The tree is an ordered map: every call changes the set of orders, and
\* answers, as OrderMap's does; it refuses an order only when there are
\* half as many orders as nodes.  No node is lost and the prefixes nest.
IsAnOrderMap == [](TypeOK /\ NoNodeIsLost /\ PrefixesNest) /\ Map!Spec
=============================================================================
