----------------------------- MODULE MCRBTree ------------------------------
(***************************************************************************)
(* RBTree with a handful of keys.  Which addresses the nodes have does not *)
(* matter: Shape names every node by its key, so that trees that differ in *)
(* addresses only are one state.  ret is left out because nothing reads    *)
(* it, the father of forgeNode because the code never does, and map        *)
(* because it follows from the tree.                                       *)
(***************************************************************************)
EXTENDS RBTree, Sequences

CONSTANTS u, v
\* Two values at one key are enough to see whether it keeps its own.
MCValOf == [k \in Key |-> IF k = 4 THEN {u, v} ELSE {u}]

KeyOf(x) == IF x \in Nodes THEN node[x].key ELSE x

Subtree ==
  LET tree[x \in Nodes \cup {Forge, NULL}, n \in 0 .. Cardinality(Nodes)] ==
        IF x \notin Nodes THEN <<x>>
        ELSE IF n = 0 THEN <<"deep">>
        ELSE <<node[x].key, node[x].val, node[x].color, KeyOf(node[x].father),
               tree[node[x].lc, n - 1], tree[node[x].rc, n - 1]>>
  IN  tree[first, Cardinality(Nodes)]

Shape == <<Subtree, node[Forge].color, node[Forge].lc, node[Forge].rc,
           cnt_key, Cardinality(heap), pc,
           KeyOf(loc.cur), KeyOf(loc.father), loc.del \in heap, loc.steps,
           KeyOf(entry), ekey, abort>>
=============================================================================
