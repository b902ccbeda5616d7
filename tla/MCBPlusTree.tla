---------------------------- MODULE MCBPlusTree -----------------------------
(***************************************************************************)
(* BPlusTree with a handful of keys.  Which addresses the nodes have does  *)
(* not matter, nor what is in an array beyond cnt_used: Shape writes the   *)
(* tree down from its first node.  ret is left out because nothing reads   *)
(* it.                                                                     *)
(***************************************************************************)
EXTENDS BPlusTree, Sequences

CONSTANTS v1, v2
ILP32Configs == [build : {"ILP32"}, fork : {3, 4}]
LP64Configs == [build : {"LP64"}, fork : {3, 4}]

\* Two values at one key are enough to see whether it keeps its own.  With m_fork 3
\* ten keys let an inner node take from its neighbour; seven, in two or three
\* leaves, are enough with 4.
ValuesOf(c, k) == IF c.fork = 3 THEN {IF k % 2 = 0 THEN v1 ELSE v2}
                  ELSE IF k = 3 THEN {v1, v2}
                  ELSE IF k > 6 THEN {} ELSE {v1}
ILP32ValOf == [c \in ILP32Configs |-> [k \in Key |-> ValuesOf(c, k)]]
LP64ValOf == [c \in LP64Configs |-> [k \in Key |-> ValuesOf(c, k)]]

FirstKey(x) == IF x = NULL THEN NULL ELSE getkey(tree, x, 0)

\* The subtree at x, d levels below the first node, which should have the parent p.
Subtree(x, d) ==
  LET sub[y \in Nodes, m \in d .. tree.deep, p \in Nodes \cup {NULL}] ==
        << y = loc.cur, y = loc.bro, y = loc.parent, tree.n[y].mark, parent(tree, y) = p,
           FirstKey(tree.n[y].nextLeaf),
           [i \in 0 .. used(tree, y) - 1 |-> getkey(tree, y, i)],
           [i \in 0 .. used(tree, y) - 1 |->
              IF m = tree.deep THEN getchild(tree, y, i) ELSE sub[getchild(tree, y, i), m + 1, y]] >>
  IN  IF x = NULL THEN <<>> ELSE sub[x, d, IF x = loc.bro THEN parent(tree, loc.cur) ELSE NULL]

\* The level of the node that a split has made.
BroLevel == CHOOSE d \in 0 .. tree.deep : loc.cur \in Level(d)

\* The first item is there so that every array is evaluated before a state is stored.
\* Of a process that has stopped nothing matters but whether an assertion did it.
Shape == IF pc = "dead" THEN <<tree \in {tree}, tree.ok>> ELSE
         << tree \in {tree}, config, Subtree(tree.firstNode, 0),
            IF pc = "insert" THEN Subtree(loc.bro, BroLevel) ELSE <<>>,
            FirstKey(tree.firstLeaf), Cardinality(FreeList(tree.freeNode)),
            Cardinality(FreeList(tree.freeLeaf)), Cardinality(heap), tree.ok, tree.deep,
            cnt_key, pc, loc.dad, loc.key, loc.type, loc.b_ok, loc.val, erased,
            0 \in DOMAIN seen >>
=============================================================================
