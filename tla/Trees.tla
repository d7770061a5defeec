-------------------------------- MODULE Trees --------------------------------
(***************************************************************************)
(* The search trees of lib/asdd/include/tree.h, in which the server keeps  *)
(* its processes, threads, segments, tracepoints and injections.           *)
(*                                                                         *)
(* A tree is the sequence of its keys in the order of their insertion:     *)
(* this determines the links of an unbalanced tree, and every shape a      *)
(* balanced tree may have is among them.  NoNode is a null pointer.        *)
(***************************************************************************)
EXTENDS Integers, Sequences, FiniteSets

NoNode == 0

Keys(tree) == {tree[n] : n \in 1..Len(tree)}

Place(tree, k) == CHOOSE n \in 1..Len(tree) : tree[n] = k

\* The link to the parent: the nearest key above or below at the time of the
\* insertion, the later of the two.
parent(tree, k) ==
    LET older == {tree[n] : n \in 1..(Place(tree, k) - 1)}
        below == {j \in older : j < k /\ \A m \in older : m < k => m <= j}
        above == {j \in older : j > k /\ \A m \in older : m > k => m >= j}
        near == below \cup above
    IN  IF near = {} THEN NoNode
        ELSE CHOOSE j \in near : \A m \in near : Place(tree, m) <= Place(tree, j)

Child(tree, side) == IF side = {} THEN NoNode ELSE CHOOSE k \in side : TRUE
left(tree, k) == Child(tree, {j \in Keys(tree) : j < k /\ parent(tree, j) = k})
right(tree, k) == Child(tree, {j \in Keys(tree) : j > k /\ parent(tree, j) = k})

root(tree) == IF tree = <<>> THEN NoNode ELSE tree[1]

------------------------------------------------------------------------------

tree_get_node(tree, key) ==
    LET go[node \in Keys(tree) \cup {NoNode}] ==
            IF node = NoNode \/ key = node THEN node
            ELSE IF key < node THEN go[left(tree, node)] ELSE go[right(tree, node)]
    IN  go[root(tree)]

\* The last node on the way to the key.
tree_get_close_node(tree, key) ==
    LET go[node \in Keys(tree) \cup {NoNode}] ==
            LET next == IF key < node THEN left(tree, node) ELSE right(tree, node)
            IN  IF node = NoNode \/ key = node \/ next = NoNode THEN node ELSE go[next]
    IN  go[root(tree)]

tree_get_min(tree, start) ==
    LET go[node \in Keys(tree) \cup {NoNode}] ==
            IF node = NoNode \/ left(tree, node) = NoNode THEN node
            ELSE go[left(tree, node)]
    IN  go[start]

tree_get_max(tree, start) ==
    LET go[node \in Keys(tree) \cup {NoNode}] ==
            IF node = NoNode \/ right(tree, node) = NoNode THEN node
            ELSE go[right(tree, node)]
    IN  go[start]

tree_iter_start(tree) == tree_get_min(tree, root(tree))

tree_iter_next(tree, node) ==
    LET up[k \in Keys(tree)] ==
            IF parent(tree, k) # NoNode /\ right(tree, parent(tree, k)) = k
            THEN up[parent(tree, k)] ELSE parent(tree, k)
    IN  IF node = NoNode THEN NoNode
        ELSE IF right(tree, node) # NoNode THEN tree_get_min(tree, right(tree, node))
        ELSE up[node]

\* tree_iter_prev: a node with a left subtree takes the largest key of its
\* right one.
tree_iter_prev(tree, node) ==
    LET up[k \in Keys(tree)] ==
            IF parent(tree, k) # NoNode /\ left(tree, parent(tree, k)) = k
            THEN up[parent(tree, k)] ELSE parent(tree, k)
    IN  IF node = NoNode THEN NoNode
        ELSE IF left(tree, node) # NoNode THEN tree_get_max(tree, right(tree, node))
        ELSE up[node]

\* Mutant: the node next to the key is taken as it is.
tree_get_node_le_close(tree, key) == tree_get_close_node(tree, key)

tree_get_node_le(tree, key) ==
    LET close == tree_get_close_node(tree, key)
    IN  IF close = NoNode \/ close <= key THEN close ELSE tree_iter_prev(tree, close)

\* tree_get_node_range: turns the wrong way; it has no caller.
tree_get_node_range(tree, a, b) ==
    LET go[node \in Keys(tree) \cup {NoNode}] ==
            IF node = NoNode \/ (a <= node /\ node < b) THEN node
            ELSE IF node < a THEN go[left(tree, node)] ELSE go[right(tree, node)]
    IN  go[root(tree)]

\* TREE_ITER, as the keys it visits
tree_iter(tree) ==
    LET from[node \in Keys(tree) \cup {NoNode}] ==
            IF node = NoNode THEN <<>> ELSE <<node>> \o from[tree_iter_next(tree, node)]
    IN  from[tree_iter_start(tree)]

\* tree_size
tree_size(tree) == Len(tree_iter(tree))

------------------------------------------------------------------------------
(* Segments in the tree of a process (process/segment.c): `end' gives the   *)
(* end of the segment that starts at a key.                                 *)

segment_get(tree, end, address) ==
    LET segment == tree_get_node_le(tree, address)
    IN  IF segment = NoNode \/ address >= end[segment] THEN NoNode ELSE segment
==============================================================================
