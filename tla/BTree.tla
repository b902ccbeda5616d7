------------------------------- MODULE BTree --------------------------------
(***************************************************************************)
(* tl_btree2.c: a B-tree whose nodes hold up to m_fork keys, with links to *)
(* the parents.  The loops of insert_1 and erase_2 are a step per          *)
(* iteration.  What is in an array beyond cnt_used is stale: reading it    *)
(* gives Junk, and nothing may come of it.                                 *)
(***************************************************************************)
EXTENDS Integers, FiniteSets

CONSTANTS
  Key, Val,   \* keycmp orders the keys as the integers are
  ValOf,      \* m_fork -> key -> the values that callers put at the key (a bound)
  Nodes,      \* the addresses calloc may give to a node
  Pool,       \* stands for the pools that calls of tl_btree_init have taken
  Forks,      \* the values of m_fork that a tree is made with
  MaxWalk,    \* the most keys in a tree that the caller walks (a bound)
  NULL, Junk,
  Front, End  \* names for the positions off the two ends of the tree

LOCAL INSTANCE Search

ASSUME BTAssumption ==
  /\ Key \subseteq Int /\ Forks \subseteq Nat \ {0, 1}
  /\ ValOf \in [Forks -> [Key -> SUBSET Val]]
  /\ NULL \notin Nodes \cup Key \cup Val /\ Junk \notin Nodes \cup {NULL}
  /\ Pool \notin Nodes /\ MaxWalk \in Nat

VARIABLES
  bt_fork,  \* root->bpc.m_fork, as the caller configures it
  first,    \* root->first
  node,     \* node -> [used, kv, ch, parent]: cnt_used, *pkv, *pc, parent
  cnt_key,
  heap,     \* external: what is allocated, nodes and Pool
  pc,       \* "none", "idle", the loop a call is in, or "dead"
  loc,      \* that loop's node, idx, ins and b_first, and the value to hand back
  entry,    \* the caller's entry [ploc, idx_key], or NULL
  ret,      \* what the last call returned: its code and the value it handed back
  lost,     \* history: a node that was out of memory's reach was dropped
  abort,    \* a tl_assert has failed, or an index was outside its array
  seen      \* history: what the caller saw when the last call returned

vars == <<bt_fork, first, node, cnt_key, heap, pc, loc, entry, ret, lost, abort, seen>>

bt_maxc == bt_fork + 1
bt_minc == IF bt_maxc % 2 = 1 THEN 1 + bt_maxc \div 2 ELSE bt_maxc \div 2
mink == bt_minc - 1

\* tb_alloc_node: calloc.
Fresh == [used |-> 0, kv |-> [i \in 0 .. bt_fork - 1 |-> Junk],
          ch |-> [i \in 0 .. bt_fork |-> NULL], parent |-> NULL]
NoIns == [kv |-> Junk, pl |-> NULL, pr |-> NULL]
NoLoc == [node |-> NULL, idx |-> 0, ins |-> NoIns, b_first |-> TRUE, val |-> NULL]

Calloc(x) == x \in Nodes \ heap /\ heap' = heap \cup {x}

\* A tree is a value that the operators work on: the first node, the nodes, and
\* whether every assertion met on the way held.
Tree == [first |-> first, n |-> node, ok |-> TRUE]
SetTree(T) == first' = T.first /\ node' = T.n /\ abort' = (abort \/ ~T.ok)
Assert(T, cond) == [T EXCEPT !.ok = @ /\ cond]

Returns(c, v) == ret' = [code |-> c, val |-> v]

-----------------------------------------------------------------------------
(* Reading and writing a node. *)

used(T, x) == T.n[x].used
parent(T, x) == T.n[x].parent
getkv(T, x, i) == IF i \in 0 .. used(T, x) - 1 THEN T.n[x].kv[i] ELSE Junk
getchild(T, x, i) == IF i \in 0 .. used(T, x) THEN T.n[x].ch[i] ELSE Junk

setused(T, x, u) == [T EXCEPT !.n[x].used = u]
setkv(T, x, i, kv) == [Assert(T, i \in 0 .. bt_fork - 1) EXCEPT !.n[x].kv[i] = kv]
SetNoParent(T, x, i, c) ==               \* mutant: the child keeps its parent
  [Assert(T, i \in 0 .. bt_fork) EXCEPT !.n[x].ch[i] = c]
setchild(T, x, i, c) ==
  LET S == [Assert(T, i \in 0 .. bt_fork) EXCEPT !.n[x].ch[i] = c]
  IN  IF c = NULL THEN S ELSE [S EXCEPT !.n[c].parent = x]

\* The loops that set m keys and m children of x, from index i on, to those of y
\* from index j on: the children get x as their parent.
CopyKV(T, x, i, y, j, m) ==
  [Assert(T, i + m <= bt_fork) EXCEPT !.n[x].kv =
     [k \in DOMAIN @ |-> IF k \in i .. i + m - 1 THEN getkv(T, y, j + k - i) ELSE @[k]]]
CopyChildren(T, x, i, y, j, m) ==
  LET moved == {getchild(T, y, j + k) : k \in 0 .. m - 1}
      S == [Assert(T, i + m <= bt_fork + 1) EXCEPT !.n[x].ch =
              [k \in DOMAIN @ |-> IF k \in i .. i + m - 1 THEN getchild(T, y, j + k - i) ELSE @[k]]]
  IN  [S EXCEPT !.n = [z \in Nodes |-> IF z \in moved THEN [@[z] EXCEPT !.parent = x] ELSE @[z]]]

\* Nothing moves when the keys end at idx, the last child neither.
tb_shift_left(T, x, idx, cnt) ==
  LET m == used(T, x) - idx
  IN  IF m <= 0 THEN T
      ELSE CopyChildren(CopyKV(T, x, idx - cnt, x, idx, m), x, idx - cnt, x, idx, m + 1)
tb_shift_right(T, x, idx, cnt) ==
  LET m == used(T, x) - idx
  IN  IF m <= 0 THEN T
      ELSE CopyChildren(CopyKV(T, x, idx + cnt, x, idx, m), x, idx + cnt, x, idx, m + 1)

-----------------------------------------------------------------------------
(* tb_locate_key: where k is, or the place in a leaf where it belongs. *)

KeysOf(T, x) == [i \in 0 .. used(T, x) - 1 |-> T.n[x].kv[i].key]
lowerbound(T, x, k) == bsearch(KeysOf(T, x), used(T, x), k)

IsAt(T, x, i, k) == i < used(T, x) /\ getkv(T, x, i).key = k

locate(k) ==
  LET down[x \in Nodes] ==
        LET i == lowerbound(Tree, x, k)
        IN  IF IsAt(Tree, x, i, k) \/ getchild(Tree, x, i) = NULL THEN [ploc |-> x, idx |-> i]
            ELSE down[getchild(Tree, x, i)]
  IN  IF first = NULL THEN [ploc |-> NULL, idx |-> 0] ELSE down[first]

Found(l, k) == IF l.ploc = NULL THEN FALSE ELSE IsAt(Tree, l.ploc, l.idx, k)
Has(k) == Found(locate(k), k)
ValAt(l) == getkv(Tree, l.ploc, l.idx).val

\* tb_locate_node: its index in its parent, -1 without one, -2 where it asserts.
locate_node(T, x) ==
  LET p == parent(T, x)
      I == {i \in 0 .. used(T, p) : getchild(T, p, i) = x}
  IN  IF p = NULL THEN -1 ELSE IF I = {} THEN -2 ELSE CHOOSE i \in I : \A j \in I : i <= j

\* The last node below x on the way along its first, or last, children.
Leftmost(x) == LET down[y \in Nodes] == LET c == getchild(Tree, y, 0)
                                        IN  IF c = NULL THEN y ELSE down[c]
               IN  down[x]
Rightmost(x) == LET down[y \in Nodes] == LET c == getchild(Tree, y, used(Tree, y))
                                         IN  IF c = NULL THEN y ELSE down[c]
                IN  down[x]

\* The nodes of the tree below x, and what they hold.
Below(x) ==
  LET sub[y \in Nodes \cup {NULL}, n \in 0 .. Cardinality(Nodes)] ==
        IF y = NULL \/ n = 0 THEN {}
        ELSE {y} \cup UNION {sub[getchild(Tree, y, i), n - 1] : i \in 0 .. used(Tree, y)}
  IN  sub[x, Cardinality(Nodes)]
Reached == Below(first)
PairsOf(x) == {getkv(Tree, x, i) : i \in 0 .. used(Tree, x) - 1}
Pairs == UNION {PairsOf(x) : x \in Reached}
TreeMap == [k \in {p.key : p \in Pairs} |-> (CHOOSE p \in Pairs : p.key = k).val]

\* What the caller sees: the map, and where his entry is.
Position == IF entry = NULL THEN NULL
            ELSE IF entry.idx_key < 0 THEN Front
            ELSE IF entry.idx_key >= used(Tree, entry.ploc) THEN End
            ELSE getkv(Tree, entry.ploc, entry.idx_key).key
Seen == [map |-> TreeMap, at |-> Position]
Observe == seen' = IF pc' \in {"none", "idle"} THEN Seen' ELSE seen

-----------------------------------------------------------------------------
Init ==
  /\ bt_fork \in Forks /\ first = NULL /\ node = [x \in Nodes |-> Fresh] /\ cnt_key = 0
  /\ heap = {} /\ pc = "none" /\ loc = NoLoc
  /\ entry = NULL /\ ret = [code |-> 0, val |-> NULL] /\ lost = FALSE /\ abort = FALSE
  /\ seen = [map |-> TreeMap, at |-> NULL]

(* tl_btree_init takes a pool in every build.  This build has no use for it and
   keeps no pointer to it, so it is never given back.
   Bound: nodes that were lost are not carried over into another tree. *)
TreeInit ==
  /\ pc = "none" /\ heap \subseteq {Pool} /\ pc' = "idle"
  /\ heap' = {Pool} /\ first' = NULL /\ cnt_key' = 0
  /\ Returns(0, NULL)
  /\ UNCHANGED <<bt_fork, node, loc, entry, lost, abort>> /\ Observe

\* There is no memory for the pool, or none for the root, and the pool is lost.
TreeInitFails ==
  /\ pc = "none"
  /\ UNCHANGED heap \/ heap' = heap \cup {Pool}
  /\ Returns(-1, NULL)
  /\ UNCHANGED <<bt_fork, first, node, cnt_key, pc, loc, entry, lost, abort>> /\ Observe

-----------------------------------------------------------------------------
(* tl_btree_insert. *)

InsertAgain(k, v, b_update) ==
  /\ pc = "idle"
  /\ LET l == locate(k)
     IN  /\ Found(l, k)
         /\ IF b_update
            THEN node' = [node EXCEPT ![l.ploc].kv[l.idx].val = v] /\ Returns(0, ValAt(l))
            ELSE UNCHANGED node /\ Returns(-1, NULL)
  /\ UNCHANGED <<bt_fork, first, cnt_key, heap, pc, loc, entry, lost, abort>> /\ Observe

InsertNew(k, v) ==
  /\ pc = "idle" /\ entry = NULL /\ ~Has(k)
  /\ pc' = "insert_1"
  /\ loc' = [NoLoc EXCEPT !.node = locate(k).ploc, !.idx = locate(k).idx,
                          !.ins.kv = [key |-> k, val |-> v]]
  /\ UNCHANGED <<bt_fork, first, node, cnt_key, heap, entry, ret, lost, abort>> /\ Observe

full(x) == used(Tree, x) = bt_fork

insert_2(T, x, idx, ins) ==
  LET S == setkv(tb_shift_right(T, x, idx, 1), x, idx, ins.kv)
      U == setchild(setchild(S, x, idx, ins.pl), x, idx + 1, ins.pr)
  IN  setused(U, x, used(T, x) + 1)

EndCall == pc' = "idle" /\ loc' = NoLoc

InsertHere ==
  /\ pc = "insert_1" /\ loc.node # NULL /\ ~full(loc.node)
  /\ SetTree(insert_2(Tree, loc.node, loc.idx, loc.ins))
  /\ cnt_key' = cnt_key + 1
  /\ Returns(0, NULL) /\ EndCall
  /\ UNCHANGED <<bt_fork, heap, entry, lost>> /\ Observe

\* insert_3: the keys of the full node x and the one to insert are halved between
\* x and the new node y; the one in the middle goes up.
SplitLate == bt_minc        \* mutant: one key too many stays
idx_split == bt_minc - 1
UpLate(x, idx, ins) ==           \* mutant: the key before the middle is not considered
  IF idx = idx_split THEN ins.kv ELSE getkv(Tree, x, idx_split)
Up(x, idx, ins) ==
  IF idx = idx_split THEN ins.kv
  ELSE IF idx > idx_split THEN getkv(Tree, x, idx_split) ELSE getkv(Tree, x, idx_split - 1)

insert_3(x, idx, ins, y) ==
  LET b_new == idx > idx_split
      from  == IF b_new THEN idx_split + 1 ELSE idx_split
      m     == used(Tree, x) - from
      T0    == [Tree EXCEPT !.n[y] = Fresh]
      T1    == IF m <= 0 THEN T0
               ELSE setused(CopyChildren(CopyKV(T0, y, 0, x, from, m), y, 0, x, from, m + 1), y, m)
      T2    == setused(T1, x, IF idx < idx_split THEN idx_split - 1 ELSE idx_split)
      T3    == IF idx = idx_split
               THEN setchild(setchild(T2, x, used(T2, x), ins.pl), y, 0, ins.pr)
               ELSE IF b_new THEN insert_2(T2, y, idx - from, ins) ELSE insert_2(T2, x, idx, ins)
  IN  [T3 EXCEPT !.n[y].parent = parent(T3, x)]

Split(y) ==
  /\ pc = "insert_1" /\ loc.node # NULL /\ full(loc.node)
  /\ Calloc(y)
  /\ LET x  == loc.node
         T  == insert_3(x, loc.idx, loc.ins, y)
         kv == Up(x, loc.idx, loc.ins)
         p  == parent(T, x)
     IN  /\ SetTree(T)
         /\ loc' = [loc EXCEPT !.node = p, !.ins = [kv |-> kv, pl |-> x, pr |-> y],
                               !.idx = IF p = NULL THEN @ ELSE lowerbound(T, p, kv.key)]
  /\ UNCHANGED <<bt_fork, cnt_key, pc, entry, ret, lost>> /\ Observe

\* insert_3 answers a failing calloc with tl_assert(false).
SplitFails ==
  /\ pc = "insert_1" /\ loc.node # NULL /\ full(loc.node)
  /\ pc' = "dead"
  /\ UNCHANGED <<bt_fork, first, node, cnt_key, heap, loc, entry, ret, lost, abort>> /\ Observe

NewFirst(y) ==
  /\ pc = "insert_1" /\ loc.node = NULL
  /\ Calloc(y)
  /\ LET T == setkv([Tree EXCEPT !.n[y] = Fresh, !.first = y], y, 0, loc.ins.kv)
     IN  SetTree(setused(setchild(setchild(T, y, 0, loc.ins.pl), y, 1, loc.ins.pr), y, 1))
  /\ cnt_key' = cnt_key + 1
  /\ Returns(0, NULL) /\ EndCall
  /\ UNCHANGED <<bt_fork, entry, lost>> /\ Observe

\* root->first is overwritten before the result of calloc is looked at: a tree
\* whose first node has just been split is lost.
NewFirstFails ==
  /\ pc = "insert_1" /\ loc.node = NULL
  /\ first' = NULL /\ lost' = (lost \/ loc.ins.pl # NULL)
  /\ Returns(-1, NULL) /\ EndCall
  /\ UNCHANGED <<bt_fork, node, cnt_key, heap, entry, abort>> /\ Observe

-----------------------------------------------------------------------------
(* tl_btree_query. *)

Query(k) ==
  /\ pc = "idle"
  /\ LET l == locate(k) IN IF Found(l, k) THEN Returns(0, ValAt(l)) ELSE Returns(-1, NULL)
  /\ UNCHANGED <<bt_fork, first, node, cnt_key, heap, pc, loc, entry, lost, abort, seen>>

-----------------------------------------------------------------------------
(* tl_btree_erase. *)

\* The leaf that loses a key: that of k, or the one with the next key, which takes
\* the place of k.
Successor(l) == LET c == getchild(Tree, l.ploc, l.idx + 1)
                IN  IF c = NULL THEN l.ploc ELSE Leftmost(c)

Erase(k) ==
  /\ pc = "idle" /\ entry = NULL /\ Has(k)
  /\ LET l   == locate(k)
         suc == Successor(l)
         T   == IF suc = l.ploc THEN tb_shift_left(Tree, suc, l.idx + 1, 1)
                ELSE tb_shift_left(setkv(Tree, l.ploc, l.idx, getkv(Tree, suc, 0)), suc, 1, 1)
     IN  /\ SetTree(setused(T, suc, used(T, suc) - 1))
         /\ loc' = [NoLoc EXCEPT !.node = suc, !.val = ValAt(l)]
  /\ pc' = "erase_2"
  /\ UNCHANGED <<bt_fork, first, cnt_key, heap, entry, ret, lost>> /\ Observe

EraseMisses(k) ==
  /\ pc = "idle" /\ ~Has(k)
  /\ Returns(-1, NULL)
  /\ UNCHANGED <<bt_fork, first, node, cnt_key, heap, pc, loc, entry, lost, abort, seen>>

EraseReturns ==
  pc' = "idle" /\ loc' = NoLoc /\ cnt_key' = cnt_key - 1 /\ Returns(0, loc.val)

tb_free_node(T, x) == SetTree([T EXCEPT !.n[x] = Fresh]) /\ heap' = heap \ {x}

\* The node has keys enough, or it is the first node, which may go when empty.
Enough == mink <= used(Tree, loc.node)
IsFirst == locate_node(Tree, loc.node) = -1

EraseEnds ==
  /\ pc = "erase_2" /\ (Enough \/ (IsFirst /\ used(Tree, loc.node) > 0))
  /\ SetTree(Assert(Tree, ~Enough => first = loc.node))
  /\ EraseReturns
  /\ UNCHANGED <<bt_fork, heap, entry, lost>> /\ Observe

Lower(x) ==
  LET c == getchild(Tree, x, 0)
  IN  IF loc.b_first THEN [Tree EXCEPT !.first = NULL]
      ELSE [Tree EXCEPT !.first = c, !.n[c].parent = NULL]

EraseFirst ==
  /\ pc = "erase_2" /\ ~Enough /\ IsFirst /\ used(Tree, loc.node) = 0
  /\ tb_free_node(Assert(Lower(loc.node), first = loc.node), loc.node)
  /\ EraseReturns
  /\ UNCHANGED <<bt_fork, entry, lost>> /\ Observe

\* The brothers pl and pr of the node, and the assertions before one is chosen.
idx == locate_node(Tree, loc.node)
pl == IF idx = 0 THEN NULL ELSE getchild(Tree, parent(Tree, loc.node), idx - 1)
pr == IF idx = used(Tree, parent(Tree, loc.node)) THEN NULL
      ELSE getchild(Tree, parent(Tree, loc.node), idx + 1)
More(b) == IF b = NULL THEN FALSE ELSE mink < used(Tree, b)
AsFew(b) == IF b = NULL THEN FALSE ELSE mink = used(Tree, b)
Located == Assert(Tree, idx >= 0 /\ mink - 1 = used(Tree, loc.node))
IsShort == pc = "erase_2" /\ ~Enough /\ ~IsFirst

\* erase_3: a key of the brother goes through the parent.
erase_3_left(T, x, bro) ==
  LET p  == parent(T, x)
      i  == lowerbound(T, p, getkv(T, bro, used(T, bro) - 1).key)
      T1 == tb_shift_right(Assert(T, used(T, p) # i), x, 0, 1)
      T2 == IF used(T, x) = 0 THEN setchild(T1, x, 1, getchild(T1, x, 0)) ELSE T1
      T3 == setchild(setkv(T2, x, 0, getkv(T, p, i)), x, 0, getchild(T, bro, used(T, bro)))
      T4 == setkv(T3, p, i, getkv(T, bro, used(T, bro) - 1))
  IN  setused(setused(T4, x, used(T, x) + 1), bro, used(T, bro) - 1)

erase_3_right(T, x, bro) ==
  LET p  == parent(T, x)
      i  == lowerbound(T, p, getkv(T, bro, 0).key)
      T1 == setkv(Assert(T, 0 < i), x, used(T, x), getkv(T, p, i - 1))
      T2 == setchild(setused(T1, x, used(T, x) + 1), x, used(T, x) + 1, getchild(T, bro, 0))
      T3 == tb_shift_left(setkv(T2, p, i - 1, getkv(T, bro, 0)), bro, 1, 1)
  IN  setused(T3, bro, used(T, bro) - 1)

Borrow ==
  /\ IsShort /\ (More(pl) \/ More(pr))
  /\ SetTree(IF More(pr) THEN erase_3_right(Located, loc.node, pr)
             ELSE erase_3_left(Located, loc.node, pl))
  /\ EraseReturns
  /\ UNCHANGED <<bt_fork, heap, entry, lost>> /\ Observe

\* erase_4: the node's keys and the one between them go to the brother.
erase_4_left(T, x, bro) ==
  LET p  == parent(T, x)
      u  == used(T, bro)
      T1 == setkv(Assert(T, bro = getchild(T, p, idx - 1)), bro, u, getkv(T, p, idx - 1))
      T2 == CopyChildren(CopyKV(T1, bro, u + 1, x, 0, used(T, x)), bro, u + 1, x, 0, used(T, x) + 1)
      T3 == tb_shift_left(setused(T2, bro, u + 1 + used(T, x)), p, idx, 1)
  IN  setchild(T3, p, idx - 1, bro)

erase_4_right(T, x, bro) ==
  LET p  == parent(T, x)
      u  == used(T, x) + 1
      T1 == setused(setkv(T, x, u - 1, getkv(T, p, idx)), x, u)
      T2 == tb_shift_right(T1, bro, 0, u)
      T3 == CopyChildren(CopyKV(T2, bro, 0, x, 0, u), bro, 0, x, 0, u)
      T4 == tb_shift_left(setused(T3, bro, used(T, bro) + u), p, idx + 1, 1)
  IN  setchild(T4, p, idx, bro)

Merge ==
  /\ IsShort /\ ~More(pl) /\ ~More(pr) /\ (AsFew(pl) \/ AsFew(pr))
  /\ LET bro == IF AsFew(pr) THEN pr ELSE pl
         T   == IF AsFew(pr) THEN erase_4_right(Located, loc.node, pr)
                ELSE erase_4_left(Located, loc.node, pl)
         p   == parent(T, bro)
     IN  /\ tb_free_node(setused(T, p, used(T, p) - 1), loc.node)
         /\ loc' = [loc EXCEPT !.node = p, !.b_first = FALSE]
  /\ UNCHANGED <<bt_fork, cnt_key, pc, entry, ret, lost>> /\ Observe

-----------------------------------------------------------------------------
(* The entry: tl_btree_first, _last, _next, _prev and _set.  It is the caller's, and
   only he knows of it: he gives it up before an insert or an erase, which move
   the keys, and before the destroy. *)

GiveUp ==
  /\ pc = "idle" /\ entry # NULL /\ entry' = NULL
  /\ UNCHANGED <<bt_fork, first, node, cnt_key, heap, pc, loc, ret, lost, abort>> /\ Observe

Goes(e, code) ==
  /\ pc = "idle" /\ entry' = e
  /\ Returns(code, NULL)
  /\ UNCHANGED <<bt_fork, first, node, cnt_key, heap, pc, loc, lost, abort>> /\ Observe
At(x, i) == [ploc |-> x, idx_key |-> i]

GoFirst ==
  /\ cnt_key <= MaxWalk
  /\ IF first = NULL THEN Goes(entry, -1) ELSE Goes(At(Leftmost(first), 0), 0)
GoLast ==
  /\ cnt_key <= MaxWalk
  /\ IF first = NULL THEN Goes(entry, -1)
     ELSE Goes(At(Rightmost(first), used(Tree, Rightmost(first)) - 1), 0)

\* The first ancestor of x that is no last child on the way up, or first child, and
\* the index of the key beside that way; NULL if there is none.
UpRight(x) ==
  LET up[y \in Nodes] == LET i == locate_node(Tree, y)
                         IN  IF i = -1 THEN NULL
                             ELSE IF i = used(Tree, parent(Tree, y)) THEN up[parent(Tree, y)]
                             ELSE At(parent(Tree, y), i)
  IN  up[x]
UpLeftNext(x) ==                 \* mutant: the index is not lowered
  LET up[y \in Nodes] == LET i == locate_node(Tree, y)
                         IN  IF i = -1 THEN NULL
                             ELSE IF i = 0 THEN up[parent(Tree, y)]
                             ELSE At(parent(Tree, y), i)
  IN  up[x]
UpLeft(x) ==
  LET up[y \in Nodes] == LET i == locate_node(Tree, y)
                         IN  IF i = -1 THEN NULL
                             ELSE IF i = 0 THEN up[parent(Tree, y)]
                             ELSE At(parent(Tree, y), i - 1)
  IN  up[x]

\* The call has no step beyond the end for the caller: it would look outside the
\* arrays of the leaf.
GoNext ==
  /\ entry # NULL
  /\ LET x == entry.ploc
         i == entry.idx_key + 1
         c == getchild(Tree, x, i)
     IN  /\ i <= used(Tree, x)
         /\ IF c # NULL THEN Goes(At(Leftmost(c), 0), 0)
            ELSE IF i <= used(Tree, x) - 1 THEN Goes(At(x, i), 0)
            ELSE IF UpRight(x) = NULL THEN Goes(At(x, i), -1) ELSE Goes(UpRight(x), 0)

GoPrev ==
  /\ entry # NULL
  /\ LET x == entry.ploc
         c == getchild(Tree, x, entry.idx_key)
         i == entry.idx_key - 1
     IN  /\ entry.idx_key >= 0
         /\ IF c # NULL THEN Goes(At(Rightmost(c), used(Tree, Rightmost(c)) - 1), 0)
            ELSE IF i >= 0 THEN Goes(At(x, i), 0)
            ELSE IF UpLeft(x) = NULL THEN Goes(At(x, i), -1) ELSE Goes(UpLeft(x), 0)

SetVal(v) ==
  /\ pc = "idle" /\ entry # NULL
  /\ entry.idx_key \in 0 .. used(Tree, entry.ploc) - 1
  /\ v \in ValOf[bt_fork][getkv(Tree, entry.ploc, entry.idx_key).key]
  /\ node' = [node EXCEPT ![entry.ploc].kv[entry.idx_key].val = v]
  /\ UNCHANGED <<bt_fork, first, cnt_key, heap, pc, loc, entry, ret, lost, abort>> /\ Observe

-----------------------------------------------------------------------------
(* tl_btree_destroy walks the tree with a queue of nodes and frees each.  The
   result of tl_queue_push is not looked at: a node for which there is no memory
   in the queue is missed, with all below it.  Bound: at most one push fails. *)

IsLeaf(x) == getchild(Tree, x, 0) = NULL
WellMade(x) == /\ 0 < used(Tree, x)
               /\ IsLeaf(x) => \A i \in 0 .. used(Tree, x) : getchild(Tree, x, i) = NULL

Destroy(missed) ==
  /\ pc = "idle" /\ entry = NULL /\ pc' = "none"
  /\ missed \in Reached \cup {NULL}
  /\ LET freed == Reached \ Below(missed)
     IN  /\ heap' = heap \ freed
         /\ node' = [x \in Nodes |-> IF x \in freed THEN Fresh ELSE node[x]]
         /\ abort' = (abort \/ \E x \in freed : ~WellMade(x))
  /\ lost' = (lost \/ missed # NULL)
  /\ first' = NULL /\ cnt_key' = 0
  /\ UNCHANGED <<bt_fork, loc, entry, ret>> /\ Observe

\* A queue that cannot be made is answered with tl_assert(false).
DestroyFails ==
  /\ pc = "idle" /\ entry = NULL /\ pc' = "dead"
  /\ UNCHANGED <<bt_fork, first, node, cnt_key, heap, loc, entry, ret, lost, abort>> /\ Observe

-----------------------------------------------------------------------------
Insert == \/ \E k \in Key : \E v \in ValOf[bt_fork][k] :
                \/ \E b_update \in BOOLEAN : InsertAgain(k, v, b_update)
                \/ InsertNew(k, v)
          \/ InsertHere \/ SplitFails \/ NewFirstFails
          \/ \E y \in Nodes : Split(y) \/ NewFirst(y)
Lookup == \E k \in Key : Query(k)
Delete == \/ \E k \in Key : Erase(k) \/ EraseMisses(k)
          \/ EraseEnds \/ EraseFirst \/ Borrow \/ Merge
Walk == GiveUp \/ GoFirst \/ GoLast \/ GoNext \/ GoPrev \/ \E v \in Val : SetVal(v)

Next == \/ TreeInit \/ TreeInitFails \/ Insert \/ Lookup \/ Delete \/ Walk
        \/ (\E x \in Nodes \cup {NULL} : Destroy(x)) \/ DestroyFails

Spec == Init /\ [][Next]_vars

-----------------------------------------------------------------------------
\* The part that a split has cut off and not yet hung up again.
CutOff == Below(loc.ins.pr)

\* The levels of leaves below x; one level if the leaves are all at the same.
LevelsOf(x) ==
  LET lv[y \in Nodes] == IF IsLeaf(y) THEN {0}
                         ELSE {l + 1 : l \in UNION {lv[getchild(Tree, y, i)] : i \in 0 .. used(Tree, y)}}
  IN  lv[x]

KeysBelow(x) == {p.key : p \in UNION {PairsOf(y) : y \in Below(x)}}

TypeOK ==
  /\ bt_fork \in Forks /\ first \in Nodes \cup {NULL}
  /\ node \in [Nodes -> [used : 0 .. bt_fork,
                         kv : [0 .. bt_fork - 1 -> [key : Key, val : Val] \cup {Junk}],
                         ch : [0 .. bt_fork -> Nodes \cup {NULL}],
                         parent : Nodes \cup {NULL}]]
  /\ cnt_key \in Nat /\ heap \subseteq Nodes \cup {Pool}
  /\ pc \in {"none", "idle", "insert_1", "erase_2", "dead"}

(* No tl_assert fails (but the one that answers a failing calloc), no array is
   written outside its bounds, and a node that is short always has a brother to
   borrow from or to merge with, which the last assertion of erase_2 is about. *)
NoAbort == /\ ~abort
           /\ IsShort => More(pl) \/ More(pr) \/ AsFew(pl) \/ AsFew(pr)

(* Nothing aborts.  Between the iterations of the loops, too, the keys below the child i of a node
   lie between its keys i - 1 and i.  While a split goes up, the key that goes up
   lies between the half that stayed and the one that was cut off. *)
InOrder(x) ==
  \A i \in 0 .. used(Tree, x) - 1 :
    /\ i > 0 => getkv(Tree, x, i - 1).key < getkv(Tree, x, i).key
    /\ \A k \in KeysBelow(getchild(Tree, x, i)) : k < getkv(Tree, x, i).key
    /\ \A k \in KeysBelow(getchild(Tree, x, i + 1)) : k > getkv(Tree, x, i).key
SearchTree ==
  /\ TypeOK /\ NoAbort
  /\ \A x \in Reached \cup CutOff : InOrder(x)
  /\ loc.ins.pl # NULL =>
       /\ \A k \in KeysBelow(loc.ins.pl) : k < loc.ins.kv.key
       /\ \A k \in KeysBelow(loc.ins.pr) : k > loc.ins.kv.key

(* All leaves are at one level and every node but the first has mink to m_fork
   keys, which is what tl_btree_check looks for; only the node an erase has come
   to may be one key short, and the first node is never empty when a call ends.
   The half that a split has cut off is as deep as the one that stayed. *)
Balanced ==
  /\ \A x \in {first, loc.ins.pr} \ {NULL} : Cardinality(LevelsOf(x)) = 1
  /\ loc.ins.pl # NULL => LevelsOf(loc.ins.pl) = LevelsOf(loc.ins.pr)
  /\ \A x \in Reached \cup CutOff :
       /\ used(Tree, x) <= bt_fork
       /\ LET least == IF x = first THEN 1 ELSE mink
          IN  used(Tree, x) >= IF pc = "erase_2" /\ x = loc.node THEN least - 1 ELSE least

(* Every node has the parent whose child it is and cnt_key counts the keys.
   Unless nodes were lost, what is allocated is the nodes of the tree and the
   pool, so that a destroy leaves the pool that init took and nothing else. *)
LinksExact ==
  /\ \A x \in Reached \cup CutOff, i \in 0 .. bt_fork :
       LET c == getchild(Tree, x, i) IN c \in Nodes => parent(Tree, c) = x
  /\ first # NULL => parent(Tree, first) = NULL
  /\ ~lost => /\ heap \ {Pool} = Reached \cup CutOff
              /\ pc # "none" => Pool \in heap
              /\ pc = "idle" => cnt_key = Cardinality(Pairs)

-----------------------------------------------------------------------------
(* The tree implements the map; a call takes effect when it returns. *)
M == INSTANCE CursorMap WITH
       Nothing <- NULL, open <- pc # "none", map <- seen.map, at <- seen.at, ret <- ret

ImplementsMap == M!Spec
=============================================================================
