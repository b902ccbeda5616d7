------------------------------- MODULE RBTree -------------------------------
(***************************************************************************)
(* tl_rbtree.c: a red-black tree with father links.  Every missing child   *)
(* is one and the same node, the static forgeNode, which rotations write   *)
(* to.  The loops of i_adjust and d_adjust are a step per iteration, so    *)
(* that what holds between their iterations can be stated.                 *)
(***************************************************************************)
EXTENDS Integers, FiniteSets

CONSTANTS
  Key, Val,   \* keycmp orders the keys as the integers are
  ValOf,      \* the values that callers put at a key (a bound)
  Nodes,      \* the addresses malloc may give to a node
  Forge,      \* &forgeNode
  NULL

ASSUME RBAssumption ==
  /\ Key \subseteq Int /\ IsFiniteSet(Nodes) /\ Forge \notin Nodes /\ NULL \notin Nodes \cup {Forge}
  /\ NULL \notin Key \cup Val /\ ValOf \in [Key -> SUBSET Val]

RED == 1
BLACK == 2

VARIABLES
  first,    \* root->firstN
  node,     \* node -> [key, val, color, father, lc, rc]
  cnt_key,
  heap,     \* external: the nodes that are allocated
  pc,       \* "none", "idle", or the loop a call is in
  loc,      \* that loop's pcur, father and, in an erase, pdel; and its iterations
  entry,    \* the caller: where its entry is, or NULL
  ekey,     \* history: the key at which the entry was put
  ret,      \* what the last call returned: its code and the value it handed back
  abort,    \* a tl_assert has failed
  map       \* history: what is in the tree, key by key

vars == <<first, node, cnt_key, heap, pc, loc, entry, ekey, ret, abort, map>>

isforge(x) == x = Forge
Free == [key |-> NULL, val |-> NULL, color |-> BLACK, father |-> NULL, lc |-> NULL, rc |-> NULL]
NoLoc == [cur |-> NULL, father |-> NULL, del |-> NULL, steps |-> 0]

\* A tree is a value that the operators work on: the first node, the nodes, and
\* whether every assertion met on the way held.
Tree == [first |-> first, n |-> node, ok |-> TRUE]
SetTree(T) == first' = T.first /\ node' = T.n /\ abort' = (abort \/ ~T.ok)
Assert(T, cond) == [T EXCEPT !.ok = @ /\ cond]
Paint(T, x, c) == [T EXCEPT !.n[x].color = c]

Returns(c, v) == ret' = [code |-> c, val |-> v]

-----------------------------------------------------------------------------
(* locateKey: the node with key k, or the one below which it belongs. *)

Side(k, x) == IF k < node[x].key THEN "lc" ELSE "rc"

Locate(k) ==
  LET down[x \in heap] == LET y == node[x][Side(k, x)]
                          IN  IF node[x].key = k \/ isforge(y) THEN x ELSE down[y]
  IN  down[first]

Has(k) == IF first = NULL THEN FALSE ELSE node[Locate(k)].key = k

\* The last node from x on side s.
Edge(N, x, s) == LET down[y \in heap] == IF isforge(N[y][s]) THEN y ELSE down[N[y][s]]
                 IN  down[x]

-----------------------------------------------------------------------------
(* l_rotate (side "lc") and r_rotate (side "rc"): x goes down on side s and the
   child on its other side comes up.  The father of the subtree that changes
   sides is written even when that is forgeNode. *)

Other(s) == IF s = "lc" THEN "rc" ELSE "lc"

\* x hangs at its father, or is the first node: r_rotate asserts it, l_rotate does
\* not.
HangsRight(T, x) == LET f == T.n[x].father
                   IN  IF f = NULL THEN T.first = x ELSE x \in {T.n[f].lc, T.n[f].rc}

\* The child x of f is replaced by y; without a father y is the first node.
Replace(T, f, x, y) ==
  IF f = NULL THEN [T EXCEPT !.first = y]
  ELSE IF T.n[f].lc = x THEN [T EXCEPT !.n[f].lc = y] ELSE [T EXCEPT !.n[f].rc = y]

\* mutant: the subtree keeps its old father.
RotateNoFather(T, x, s) ==
  LET p == T.n[x][Other(s)]
      R == Replace(T, T.n[x].father, x, p)
  IN  [R EXCEPT !.n[x][Other(s)] = T.n[p][s], !.n[p].father = T.n[x].father,
                !.n[x].father = p, !.n[p][s] = x]

Rotate(T, x, s) ==
  LET p == T.n[x][Other(s)]
      R == Replace(Assert(T, s = "rc" => HangsRight(T, x)), T.n[x].father, x, p)
  IN  [R EXCEPT !.n[x][Other(s)] = T.n[p][s], !.n[T.n[p][s]].father = x,
                !.n[p].father = T.n[x].father, !.n[x].father = p, !.n[p][s] = x]

-----------------------------------------------------------------------------
(* The nodes of the tree, from the first node down. *)

Below(N, x) ==
  LET sub[n \in 0 .. Cardinality(Nodes)] ==
        [y \in Nodes \cup {Forge, NULL} |->
           IF y \notin Nodes \/ n = 0 THEN {}
           ELSE {y} \cup sub[n - 1][N[y].lc] \cup sub[n - 1][N[y].rc]]
  IN  sub[Cardinality(Nodes)][x]
Reached == Below(node, first)
TreeMap == [k \in {node[x].key : x \in Reached} |->
              node[CHOOSE x \in Reached : node[x].key = k].val]
Observe == map' = TreeMap'

-----------------------------------------------------------------------------
Init ==
  /\ first = NULL
  /\ node = [x \in Nodes \cup {Forge} |->
               IF isforge(x) THEN [Free EXCEPT !.lc = Forge, !.rc = Forge] ELSE Free]
  /\ cnt_key = 0 /\ heap = {} /\ pc = "none" /\ loc = NoLoc
  /\ entry = NULL /\ ekey = NULL /\ ret = [code |-> 0, val |-> NULL] /\ abort = FALSE
  /\ map = [k \in {} |-> NULL]

TreeInit ==
  /\ pc = "none" /\ pc' = "idle"
  /\ first' = NULL /\ cnt_key' = 0
  /\ UNCHANGED <<node, heap, loc, entry, ekey, ret, abort>> /\ Observe

-----------------------------------------------------------------------------
(* tl_rbtree_insert. *)

\* trb_alloc_node.
NewNode(k, v, father, color) ==
  [key |-> k, val |-> v, color |-> color, father |-> father, lc |-> Forge, rc |-> Forge]

Malloc(x) == x \in Nodes \ heap /\ heap' = heap \cup {x}

InsertFirst(k, v, x) ==
  /\ pc = "idle" /\ first = NULL
  /\ Malloc(x)
  /\ first' = x /\ node' = [node EXCEPT ![x] = NewNode(k, v, NULL, BLACK)]
  /\ cnt_key' = cnt_key + 1
  /\ Returns(0, NULL)
  /\ UNCHANGED <<pc, loc, entry, ekey, abort>> /\ Observe

\* The key is there.  With b_update its value is handed back and stays.
InsertAgain(k, b_update) ==
  /\ pc = "idle" /\ Has(k)
  /\ IF b_update THEN Returns(0, node[Locate(k)].val) ELSE Returns(-1, NULL)
  /\ UNCHANGED <<first, node, cnt_key, heap, pc, loc, entry, ekey, abort>> /\ Observe

InsertLeaf(k, v, x) ==
  /\ pc = "idle" /\ first # NULL /\ ~Has(k)
  /\ Malloc(x)
  /\ LET p == Locate(k)
     IN  node' = [node EXCEPT ![x] = NewNode(k, v, p, RED), ![p][Side(k, p)] = x]
  /\ cnt_key' = cnt_key + 1
  /\ pc' = "i_adjust" /\ loc' = [NoLoc EXCEPT !.cur = x]
  /\ Returns(0, NULL)
  /\ UNCHANGED <<first, entry, ekey, abort>> /\ Observe

InsertFails(k) ==
  /\ pc = "idle" /\ ~Has(k)
  /\ Returns(-1, NULL)
  /\ UNCHANGED <<first, node, cnt_key, heap, pc, loc, entry, ekey, abort>> /\ Observe

\* i_adjust stops at a first node or below a black father.
IStops(x) == IF node[x].father = NULL THEN TRUE ELSE node[node[x].father].color = BLACK

IAdjustEnd ==
  /\ pc = "i_adjust" /\ IStops(loc.cur)
  /\ node' = [node EXCEPT ![first].color = BLACK]
  /\ pc' = "idle" /\ loc' = NoLoc
  /\ UNCHANGED <<first, cnt_key, heap, entry, ekey, ret, abort>> /\ Observe

\* The father and the uncle are both red: the grandfather takes their colour.
RecolourHalf(T, g) == Paint(Paint(T, T.n[g].lc, BLACK), g, RED)   \* mutant: one side only
Recolour(T, g) == Paint(Paint(Paint(T, T.n[g].lc, BLACK), T.n[g].rc, BLACK), g, RED)

IAdjustUp ==
  /\ pc = "i_adjust" /\ ~IStops(loc.cur)
  /\ LET g == node[node[loc.cur].father].father
     IN  /\ node[node[g].lc].color = node[node[g].rc].color
         /\ SetTree(Recolour(Assert(Tree, node[node[g].lc].color = RED), g))
         /\ loc' = [loc EXCEPT !.cur = g, !.steps = @ + 1]
  /\ UNCHANGED <<cnt_key, heap, pc, entry, ekey, ret>> /\ Observe

\* The uncle is black: a rotation of the grandfather g, after one of the father
\* if x is on its inner side.
Straighten(T, x, f, s) == IF T.n[f][s] = x THEN T ELSE Rotate(T, f, s)

IRotate(T, x) ==
  LET f  == T.n[x].father
      g  == T.n[f].father
      s  == IF f = T.n[g].lc THEN "lc" ELSE "rc"
      T1 == Straighten(T, x, f, s)
      T2 == Paint(Paint(T1, g, RED), T1.n[g][s], BLACK)
  IN  Rotate(T2, g, Other(s))

IAdjustRotate ==
  /\ pc = "i_adjust" /\ ~IStops(loc.cur)
  /\ LET g == node[node[loc.cur].father].father
     IN  /\ node[node[g].lc].color # node[node[g].rc].color
         /\ SetTree(IRotate(Tree, loc.cur))
         /\ loc' = [loc EXCEPT !.cur = g, !.steps = @ + 1]
  /\ UNCHANGED <<cnt_key, heap, pc, entry, ekey, ret>> /\ Observe

-----------------------------------------------------------------------------
(* tl_rbtree_query. *)

Query(k) ==
  /\ pc = "idle"
  /\ IF Has(k) THEN Returns(0, node[Locate(k)].val) ELSE Returns(-1, NULL)
  /\ UNCHANGED <<first, node, cnt_key, heap, pc, loc, entry, ekey, abort>> /\ Observe

-----------------------------------------------------------------------------
(* tl_rbtree_erase. *)

\* The node that leaves: that of k or, when it has two children, its successor,
\* whose key and value it takes.
Succeed(x) == Edge(node, node[x].rc, "lc")
HasTwo(x) == ~isforge(node[x].lc) /\ ~isforge(node[x].rc)

\* The entry is lost to the caller when it is at k or at the next key: where it
\* points may be freed, or hold another key.
NextKey(k) == {j \in Key : j > k /\ Has(j) /\ \A i \in Key : Has(i) /\ i > k => j <= i}
EntryAfterErase(k) == IF ekey \in {k} \cup NextKey(k) THEN NULL ELSE entry
LoseEntry(k) == /\ entry' = EntryAfterErase(k)
                /\ ekey' = IF EntryAfterErase(k) = NULL THEN NULL ELSE ekey

\* The tree without del, whose one child pu comes up, and that child.
OnlyChild(x) == IF isforge(node[x].lc) THEN node[x].rc ELSE node[x].lc

InPlace(f, pu) == IF f = NULL /\ isforge(pu) THEN NULL ELSE pu

Unlink(T, del, pu) ==
  LET f  == T.n[del].father
      T1 == Replace(Assert(T, HangsRight(T, del)), f, del, InPlace(f, pu))
  IN  IF isforge(pu) THEN T1 ELSE [T1 EXCEPT !.n[pu].father = f]

\* trb_free_node.
FreeNodeLeaks(T, x) == SetTree(T) /\ UNCHANGED heap /\ cnt_key' = cnt_key - 1   \* mutant
FreeNode(T, x) == /\ SetTree([T EXCEPT !.n[x] = Free])
                  /\ heap' = heap \ {x}
                  /\ cnt_key' = cnt_key - 1

Erase(k) ==
  /\ pc = "idle" /\ Has(k)
  /\ LET x   == Locate(k)
         del == IF HasTwo(x) THEN Succeed(x) ELSE x
         pu  == OnlyChild(del)
         T   == Unlink([Tree EXCEPT !.n[x].key = node[del].key, !.n[x].val = node[del].val],
                       del, pu)
     IN  /\ Returns(0, node[x].val)
         /\ IF node[del].color = BLACK /\ T.first # NULL
            THEN /\ SetTree(T)
                 /\ pc' = "d_adjust"
                 /\ loc' = [NoLoc EXCEPT !.cur = pu, !.father = node[del].father, !.del = del]
                 /\ UNCHANGED <<heap, cnt_key>>
            ELSE FreeNode(T, del) /\ UNCHANGED <<pc, loc>>
  /\ LoseEntry(k) /\ Observe

EraseMisses(k) ==
  /\ pc = "idle" /\ ~Has(k)
  /\ Returns(-1, NULL)
  /\ UNCHANGED <<first, node, cnt_key, heap, pc, loc, entry, ekey, abort>> /\ Observe

\* d_adjust goes on while x is forgeNode or black, and not the first node.
DStops(x) == x = first \/ (~isforge(x) /\ node[x].color # BLACK)

DAdjustEnd ==
  /\ pc = "d_adjust" /\ DStops(loc.cur)
  /\ FreeNode(Paint(Tree, loc.cur, BLACK), loc.del)
  /\ pc' = "idle" /\ loc' = NoLoc
  /\ UNCHANGED <<entry, ekey, ret>> /\ Observe

\* A brother b of x that is red is rotated up, so that x gets a black one.
Brother(T, x, f) == IF x = T.n[f].lc THEN T.n[f].rc ELSE T.n[f].lc
SideOf(T, x, f) == IF x = T.n[f].lc THEN "lc" ELSE "rc"

BlackBrother(T, x, f) ==
  LET b == Brother(T, x, f)
      s == SideOf(T, x, f)
  IN  IF T.n[b].color = RED
      THEN Rotate(Paint(Paint(Assert(T, T.n[f].color = BLACK), f, RED), b, BLACK), f, s)
      ELSE T

\* x on side s is short of a black node, and its black brother has a red child:
\* the child is turned to the far side of the brother if it is not there, and
\* the brother takes the father's place and colour.
Turn(T, b, s) ==
  IF T.n[T.n[b][Other(s)]].color = BLACK
  THEN Rotate(Paint(Paint(T, T.n[b][s], BLACK), b, RED), b, Other(s))
  ELSE T

DRotate(T, x, f, s) ==
  LET T1 == Turn(T, Brother(T, x, f), s)
      b  == Brother(T1, x, f)
      T2 == Paint(T1, b, T1.n[f].color)
  IN  Rotate(Paint(Paint(T2, f, BLACK), T2.n[b][Other(s)], BLACK), f, s)

BothBlack(T, b) == T.n[T.n[b].lc].color = BLACK /\ T.n[T.n[b].rc].color = BLACK

ResumeSame(T, x) == x                     \* mutant: the loop goes on where it was
Resume(T, x) == T.first

DAdjust ==
  /\ pc = "d_adjust" /\ ~DStops(loc.cur)
  /\ LET x  == loc.cur
         f  == loc.father
         T1 == BlackBrother(Assert(Tree, ~isforge(Brother(Tree, x, f))), x, f)
         b  == Brother(T1, x, f)
         T2 == Assert(T1, T1.n[b].color = BLACK)
         T3 == IF BothBlack(T2, b) THEN Paint(T2, b, RED)
               ELSE DRotate(T2, x, f, SideOf(T2, x, f))
         up == IF BothBlack(T2, b) THEN f ELSE Resume(T3, x)
     IN  /\ SetTree(T3)
         /\ loc' = [loc EXCEPT !.cur = up, !.father = T3.n[up].father, !.steps = @ + 1]
  /\ UNCHANGED <<cnt_key, heap, pc, entry, ekey, ret>> /\ Observe

-----------------------------------------------------------------------------
(* The entry: tl_rbtree_first, _last, _next, _prev and _set. *)

Move(x) ==
  /\ IF x = NULL THEN Returns(-1, NULL) /\ UNCHANGED <<entry, ekey>>
     ELSE Returns(0, NULL) /\ entry' = x /\ ekey' = node[x].key
  /\ UNCHANGED <<first, node, cnt_key, heap, pc, loc, abort>> /\ Observe

GoFirst == pc = "idle" /\ Move(IF first = NULL THEN NULL ELSE Edge(node, first, "lc"))
GoLast  == pc = "idle" /\ Move(IF first = NULL THEN NULL ELSE Edge(node, first, "rc"))

\* mutant: the father, whichever side x is on.
ClimbsOnce(x, s) == node[x].father

\* The next node from x on side s: the last one on the other side below, or the
\* first ancestor that x is not on side s of.
ClimbsFrom(x, s) ==
  LET up[y \in heap] == LET f == node[y].father
                        IN  IF f = NULL THEN NULL ELSE IF y # node[f][s] THEN f ELSE up[f]
  IN  up[x]
Along(x, s) == IF isforge(node[x][s]) THEN ClimbsFrom(x, s)
               ELSE Edge(node, node[x][s], Other(s))

GoNext == pc = "idle" /\ entry # NULL /\ Move(Along(entry, "rc"))
GoPrev == pc = "idle" /\ entry # NULL /\ Move(Along(entry, "lc"))

SetVal(v) ==
  /\ pc = "idle" /\ entry # NULL /\ v \in ValOf[node[entry].key]
  /\ node' = [node EXCEPT ![entry].val = v]
  /\ UNCHANGED <<first, cnt_key, heap, pc, loc, entry, ekey, ret, abort>> /\ Observe

-----------------------------------------------------------------------------
\* tl_rbtree_destroy frees every node it reaches.
Destroy ==
  /\ pc = "idle" /\ pc' = "none"
  /\ heap' = heap \ Reached
  /\ node' = [x \in Nodes \cup {Forge} |-> IF x \in Reached THEN Free ELSE node[x]]
  /\ first' = NULL /\ cnt_key' = 0 /\ entry' = NULL /\ ekey' = NULL
  /\ UNCHANGED <<loc, ret, abort>> /\ Observe

-----------------------------------------------------------------------------
Insert == \E k \in Key : \/ \E v \in ValOf[k], x \in Nodes : InsertFirst(k, v, x)
                         \/ \E v \in ValOf[k], x \in Nodes : InsertLeaf(k, v, x)
                         \/ \E b_update \in BOOLEAN : InsertAgain(k, b_update)
                         \/ InsertFails(k)
Lookup == \E k \in Key : Query(k)
Delete == \E k \in Key : Erase(k) \/ EraseMisses(k)
Walk == GoFirst \/ GoLast \/ GoNext \/ GoPrev \/ \E v \in Val : SetVal(v)
Adjust == IAdjustEnd \/ IAdjustUp \/ IAdjustRotate \/ DAdjustEnd \/ DAdjust

Next == TreeInit \/ Insert \/ Lookup \/ Delete \/ Walk \/ Adjust \/ Destroy

Spec == Init /\ [][Next]_vars

-----------------------------------------------------------------------------
\* The nodes of either side of x, the black nodes on every way down from x (-1 if
\* the ways differ), and the nodes that are red below a red father.  During
\* d_adjust what is at cur stands for one black node more.
Missing(f, x) == IF pc = "d_adjust" /\ f = loc.father /\ x = loc.cur THEN 1 ELSE 0

BlackHeight ==
  LET bh[x \in Reached \cup {Forge}] ==
        IF isforge(x) THEN 0
        ELSE LET l == bh[node[x].lc] + Missing(x, node[x].lc)
                 r == bh[node[x].rc] + Missing(x, node[x].rc)
             IN  IF l < 0 \/ l # r THEN -Cardinality(Nodes)
                 ELSE l + IF node[x].color = BLACK THEN 1 ELSE 0
  IN  bh

IsRed(x) == node[x].color = RED
RedRed == {x \in Reached : IsRed(x) /\ node[x].father # NULL /\ IsRed(node[x].father)}

-----------------------------------------------------------------------------
TypeOK ==
  /\ first \in Nodes \cup {NULL}
  /\ node \in [Nodes \cup {Forge} ->
                 [key : Key \cup {NULL}, val : Val \cup {NULL}, color : {RED, BLACK},
                  father : Nodes \cup {NULL}, lc : Nodes \cup {Forge, NULL},
                  rc : Nodes \cup {Forge, NULL}]]
  /\ heap \subseteq Nodes /\ cnt_key \in Nat
  /\ pc \in {"none", "idle", "i_adjust", "d_adjust"}
  /\ entry \in Nodes \cup {NULL} /\ ekey \in Key \cup {NULL}
  /\ abort \in BOOLEAN

(* No tl_assert of the rotations, of i_adjust, of d_adjust or of erase fails.
   Between the iterations of the loops, too, the nodes are a search tree: every
   key on the left of a node is less and every key on its right is greater, and
   every father link is the inverse of a child link. *)
SearchTree ==
  /\ TypeOK /\ ~abort
  /\ \A x \in Reached :
       /\ \A y \in Below(node, node[x].lc) : node[y].key < node[x].key
       /\ \A y \in Below(node, node[x].rc) : node[y].key > node[x].key
       /\ x = first \/ x \in {node[node[x].father].lc, node[node[x].father].rc}
       /\ x = first => node[x].father = NULL

(* The first node is black, no red node has a red father, and all ways down
   have as many black nodes; inside the loops of i_adjust and d_adjust nothing
   is wrong with the tree but at cur.  forgeNode, the one static object under
   the leaves of all the trees, stays black and without children: the rotations
   write nothing but its father, which is never read. *)
RedBlack ==
  /\ node[Forge].color = BLACK /\ node[Forge].lc = Forge /\ node[Forge].rc = Forge
  /\ first # NULL =>
       /\ BlackHeight[first] >= 0
       /\ \A x \in RedRed : loc.cur = x \/ (pc = "d_adjust" /\ loc.cur = node[x].father)
       /\ IsRed(first) => loc.cur = first

(* cnt_key and the heap agree with the tree: no node is leaked, none that was
   freed is reached, and destroy leaves nothing.  An entry survives whatever is
   inserted and erased around it: it points at a node of the tree that holds the
   key it was put at. *)
EntryStays == entry # NULL => entry \in Reached /\ node[entry].key = ekey

CountExact ==
  /\ EntryStays
  /\ cnt_key = Cardinality(heap)
  /\ heap = Reached \cup (IF pc = "d_adjust" THEN {loc.del} ELSE {})
  /\ pc = "d_adjust" => loc.del \notin Reached
  /\ pc = "none" => heap = {}

(* The adjustment after an insert or an erase is logarithmic: it ends after
   log2(n + 1) iterations at most, n being the number of nodes. *)
AdjustIsShort == 2^loc.steps <= cnt_key + 1

-----------------------------------------------------------------------------
(* The tree implements the map. *)
M == INSTANCE OrderedMap WITH
       Nothing <- NULL, open <- pc # "none", map <- map, at <- ekey, ret <- ret

ImplementsMap == M!Spec
=============================================================================
