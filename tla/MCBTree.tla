------------------------------ MODULE MCBTree -------------------------------
(***************************************************************************)
(* BTree with a handful of keys.  Which addresses the nodes have does not  *)
(* matter, nor what is in an array beyond cnt_used: Shape writes the tree  *)
(* down from its first node.  ret is left out because nothing reads it.    *)
(***************************************************************************)
EXTENDS BTree, Sequences

CONSTANTS v1, v2
\* Two values at one key are enough to see whether it keeps its own.  With m_fork 2
\* seven keys make three levels, and with nine an inner node can borrow a child from
\* its brother; six are enough for the others to split, to borrow from either side
\* and to merge.
MCValOf == [f \in Forks |-> [k \in Key |-> IF f = 2 THEN {IF k % 2 = 0 THEN v1 ELSE v2}
                                          ELSE IF k = 4 THEN {v1, v2}
                                          ELSE IF k > 6 THEN {} ELSE {v1}]]

\* The subtree at x, which should have the parent p; the marks tell which of the
\* variables point at x.
Subtree(x) ==
  LET Mark(y) == <<y = loc.node, y = loc.ins.pl, IF entry = NULL THEN FALSE ELSE y = entry.ploc>>
      tree[y \in Nodes \cup {NULL}, p \in Nodes \cup {NULL}, n \in 0 .. Cardinality(Nodes)] ==
        IF y = NULL THEN <<>>
        ELSE IF n = 0 THEN <<"deep">>
        ELSE << [i \in 0 .. used(Tree, y) - 1 |-> getkv(Tree, y, i)],
                [i \in 0 .. used(Tree, y) |-> tree[getchild(Tree, y, i), y, n - 1]],
                Mark(y), parent(Tree, y) = p >>
  IN  tree[x, IF x = loc.ins.pr THEN loc.node ELSE NULL, Cardinality(Nodes)]

\* The first item is there so that every array is evaluated before a state is stored.
\* Of a process that has stopped nothing matters.
Shape == IF pc = "dead" THEN <<node \in {node}>> ELSE
         <<node \in {node}, bt_fork, Subtree(first), Subtree(loc.ins.pr), Cardinality(heap), cnt_key, pc,
           loc.idx, loc.ins.kv, loc.b_first, loc.val, seen, lost, abort,
           IF entry = NULL THEN NULL ELSE entry.idx_key>>
=============================================================================
