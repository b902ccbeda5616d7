----------------------------- MODULE BPlusTree ------------------------------
(***************************************************************************)
(* tl_btree.c: a B+ tree.  Inner nodes have the greatest key below each    *)
(* child, leaves have the values and a chain from the least key to the     *)
(* greatest.  The loops of tb_do_insert and tb_do_del are a step per level.*)
(* A leaf is told from an inner node by bit 31 of cnt_used, which is an    *)
(* intptr_t: where that has 32 bits, leaf() is true of a leaf; where it    *)
(* has 64 bits, leaf() is true of nothing.                                 *)
(***************************************************************************)
EXTENDS Integers, FiniteSets

CONSTANTS
  Key, Val,   \* keycmp orders the keys as the integers are; the key 0 is NULL
  ValOf,      \* config -> key -> the values that callers put at the key (a bound)
  Nodes,      \* the addresses malloc may give to a node or a leaf
  Pool,       \* stands for the pools that calls of tl_bplustree_init have taken
  Configs,    \* the builds and the m_fork of the trees: records [build, fork]
  NULL, Junk

ASSUME BPAssumption ==
  /\ Key \subseteq Nat /\ ValOf \in [Configs -> [Key -> SUBSET Val]]
  /\ Configs \subseteq [build : {"ILP32", "LP64"}, fork : Nat \ {0, 1, 2}]
  /\ NULL \notin Nodes \cup Key \cup Val /\ Junk \notin Nodes \cup {NULL}
  /\ Pool \notin Nodes

VARIABLES
  config,   \* the build, and root->bt_config
  tree,     \* firstNode, firstLeaf, freeNode, freeLeaf, cnt_deep, the nodes n
            \* and ok: no tl_assert has failed
  cnt_key,
  heap,     \* external: what is allocated, nodes, leaves and Pool
  pc,       \* "none", "idle", the loop a call is in, "broken" or "dead"
  loc,      \* that loop's pcur, parent, pbro, idx_dad, key, insRes.type and b_ok,
            \* and the value to hand back
  erased,   \* cnt of a tl_bplustree_destroy under way, else NULL
  ret,      \* what the last call returned: its code, key and value
  seen      \* history: what is in the tree, key by key, when no call is under way,
            \* and what was in it when it was destroyed

vars == <<config, tree, cnt_key, heap, pc, loc, erased, ret, seen>>

bt_fork == config.fork
bt_split == (bt_fork + 1) \div 2
bt_mergeThreshold == bt_fork - bt_split

\* parent and next share a word, and so do a leaf's values and a node's children.
Fresh(mark) == [used |-> 0, mark |-> mark, key |-> [i \in 0 .. bt_fork - 1 |-> Junk],
                child |-> [i \in 0 .. bt_fork - 1 |-> NULL], parent |-> NULL, nextLeaf |-> NULL]
NoTree == [firstNode |-> NULL, firstLeaf |-> NULL, freeNode |-> NULL, freeLeaf |-> NULL,
           deep |-> 0, n |-> [x \in Nodes |-> Fresh(FALSE)], ok |-> TRUE]
NoLoc == [cur |-> NULL, parent |-> NULL, bro |-> NULL, dad |-> 0, key |-> NULL,
          type |-> "I_OK", b_ok |-> FALSE, val |-> NULL]

Returns(c, k, v) == ret' = [code |-> c, key |-> k, val |-> v]
Assert(T, cond) == [T EXCEPT !.ok = @ /\ cond]

-----------------------------------------------------------------------------
(* A node of the tree T. *)

leaf(T, x) == config.build = "ILP32" /\ T.n[x].mark
used(T, x) == T.n[x].used
parent(T, x) == T.n[x].parent
full(T, x) == used(T, x) = bt_fork
getkey(T, x, i) == IF i \in 0 .. used(T, x) - 1 THEN T.n[x].key[i] ELSE Junk
getchild(T, x, i) == IF i \in 0 .. used(T, x) - 1 THEN T.n[x].child[i] ELSE Junk
getmaxkey(T, x) == getkey(T, x, used(T, x) - 1)
setkey(T, x, i, k) == [Assert(T, i \in 0 .. bt_fork - 1) EXCEPT !.n[x].key[i] = k]
setchild(T, x, i, c) == [T EXCEPT !.n[x].child[i] = c]

\* init, which keeps the mark of a leaf if it sees one.
init(T, x, cnt) == [T EXCEPT !.n[x].used = cnt, !.n[x].mark = leaf(T, x)]
dec(T, x, m) == [Assert(T, used(T, x) >= m) EXCEPT !.n[x].used = @ - m]

\* tb_locate_key: the first key that is not less than k.
locate_key(T, x, k) ==
  LET I == {i \in 0 .. used(T, x) - 1 : getkey(T, x, i) >= k}
  IN  IF I = {} THEN used(T, x) ELSE CHOOSE i \in I : \A j \in I : i <= j

\* tb_shift_right by one, and shiftLeft by m: the entries from idx on.
Moved(T, x, f, idx, m, u) ==
  [j \in 0 .. bt_fork - 1 |-> IF j \in idx + m .. u - 1 + m THEN f[j - m] ELSE f[j]]
shift_right(T, x, idx) ==
  [T EXCEPT !.n[x].key = Moved(T, x, @, idx, 1, used(T, x)),
            !.n[x].child = Moved(T, x, @, idx, 1, used(T, x))]
shiftLeft(T, x, idx, m) ==
  [Assert(T, 0 <= idx - m) EXCEPT !.n[x].key = Moved(T, x, @, idx, -m, used(T, x)),
                                  !.n[x].child = Moved(T, x, @, idx, -m, used(T, x))]

\* tb_insert_leaf, where c is a value, and tb_insert_node, where it is one if the
\* node looks like a leaf.
Put(T, x, idx, k, c, inner) ==
  LET S == setchild(setkey(shift_right(Assert(T, ~full(T, x)), x, idx), x, idx, k), x, idx, c)
      U == [S EXCEPT !.n[x].used = @ + 1]
  IN  IF inner THEN [U EXCEPT !.n[c].parent = x] ELSE U
insert_leaf(T, x, idx, k, c) == Put(T, x, idx, k, c, FALSE)
insert_node(T, x, idx, k, c) == Put(T, x, idx, k, c, ~leaf(T, x))

\* The m entries of y from index j on are put into x, from index i on.
PutRun(T, x, i, y, j, m, inner) ==
  LET put[k \in 0 .. m] ==
        IF k = 0 THEN T
        ELSE Put(put[k - 1], x, i + k - 1, getkey(T, y, j + k - 1), getchild(T, y, j + k - 1), inner)
  IN  put[m]

\* updateUp: the greatest key of x goes into its slot dad of the parent, and on up
\* as long as that slot is the last one of its node.
UpdateParent(T, x, dad) ==               \* mutant: the parent only
  IF parent(T, x) = NULL THEN T ELSE setkey(T, parent(T, x), dad, getmaxkey(T, x))
updateUp(T, x, dad) ==
  LET slots[y \in Nodes, d \in 0 .. bt_fork] ==
        LET p == parent(T, y)
        IN  {<<p, d>>} \cup
            IF d < used(T, p) - 1 \/ parent(T, p) = NULL THEN {}
            ELSE slots[p, locate_key(T, parent(T, p), getkey(T, p, d))]
      S == slots[x, dad]
      k == getmaxkey(T, x)
  IN  IF parent(T, x) = NULL THEN T
      ELSE [Assert(T, getchild(T, parent(T, x), dad) = x /\ \A s \in S : s[2] < used(T, s[1]))
              EXCEPT !.n = [y \in Nodes |->
                [@[y] EXCEPT !.key = [j \in DOMAIN @ |-> IF <<y, j>> \in S THEN k ELSE @[j]]]]]

-----------------------------------------------------------------------------
(* tb_alloc_node and tb_alloc_leaf take from a list of free ones, or from malloc;
   tb_free_node and tb_free_leaf put there. *)

Alloc(y, free) == IF free = NULL THEN y \in Nodes \ heap /\ heap' = heap \cup {y}
                  ELSE y = free /\ UNCHANGED heap
TakeNode(T, y) ==
  [T EXCEPT !.freeNode = IF @ = NULL THEN NULL ELSE parent(T, @), !.n[y] = Fresh(FALSE)]
TakeLeaf(T, y) ==
  [T EXCEPT !.freeLeaf = IF @ = NULL THEN NULL ELSE parent(T, @), !.n[y] = Fresh(TRUE)]
free_node(T, x) ==
  [T EXCEPT !.n[x] = [Fresh(FALSE) EXCEPT !.parent = T.freeNode], !.freeNode = x]
free_leaf(T, x) ==
  [T EXCEPT !.n[x] = [Fresh(FALSE) EXCEPT !.parent = T.freeLeaf], !.freeLeaf = x]

-----------------------------------------------------------------------------
(* tb_find_leaf: the leaf where k is or belongs, its place there, and the place of
   the leaf in its parent. *)

find_leaf(k) ==
  LET down[x \in Nodes, d \in 0 .. tree.deep, dad \in 0 .. bt_fork] ==
        LET i == locate_key(tree, x, k)
            c == IF i < used(tree, x) THEN i ELSE i - 1
        IN  IF d = tree.deep THEN [ploc |-> x, idx |-> i, dad |-> dad]
            ELSE down[getchild(tree, x, c), d + 1, c]
  IN  IF tree.firstNode = NULL THEN [ploc |-> NULL, idx |-> 0, dad |-> 0]
      ELSE down[tree.firstNode, 0, 0]

Has(k) == LET l == find_leaf(k)
          IN  IF l.ploc = NULL THEN FALSE ELSE getkey(tree, l.ploc, l.idx) = k
ValAt(l) == getchild(tree, l.ploc, l.idx)

\* tl_bplustree_get: along the chain to the key of rank i.
NoPair == [key |-> NULL, val |-> NULL]
get(i) ==
  LET skip[x \in Nodes \cup {NULL}, m \in 0 .. i] ==
        IF x = NULL THEN NoPair
        ELSE IF m < used(tree, x) THEN [key |-> getkey(tree, x, m), val |-> getchild(tree, x, m)]
        ELSE skip[tree.n[x].nextLeaf, m - used(tree, x)]
  IN  skip[tree.firstLeaf, i]

-----------------------------------------------------------------------------
\* The nodes d levels below the first, the leaves, and the map that queries see.
Level(d) ==
  LET at[m \in 0 .. tree.deep] ==
        IF m = 0 THEN {tree.firstNode} \ {NULL}
        ELSE UNION {{getchild(tree, x, i) : i \in 0 .. used(tree, x) - 1} : x \in at[m - 1]}
  IN  at[d]
Leaves == Level(tree.deep)
Pairs(x) == {<<getkey(tree, x, i), getchild(tree, x, i)>> : i \in 0 .. used(tree, x) - 1}
TreeMap == LET P == UNION {Pairs(x) : x \in Leaves}
           IN  [k \in {p[1] : p \in P} |-> (CHOOSE p \in P : p[1] = k)[2]]
Observe == seen' = IF pc' = "idle" /\ erased' = NULL THEN TreeMap' ELSE seen

-----------------------------------------------------------------------------
Init ==
  /\ config \in Configs /\ tree = NoTree /\ cnt_key = 0 /\ heap = {} /\ pc = "none"
  /\ loc = NoLoc /\ erased = NULL /\ ret = [code |-> 0, key |-> NULL, val |-> NULL]
  /\ seen = TreeMap

(* tl_bplustree_init takes a pool in every build and stores it in root->tp, of which
   this build makes no use: not to take memory from it, nor to destroy it.
   Bound: nodes that were lost are not carried over into another tree. *)
TreeInit ==
  /\ pc = "none" /\ heap \subseteq {Pool} /\ pc' = "idle"
  /\ heap' = {Pool} /\ tree' = NoTree /\ cnt_key' = 0
  /\ Returns(0, NULL, NULL)
  /\ UNCHANGED <<config, loc, erased>> /\ Observe

\* There is no memory for the pool; or none for the root, and the pool is destroyed.
\* Or the config is NULL, or has an m_fork below 3 or no keycmp, and the pool stays.
TreeInitFails ==
  /\ pc = "none"
  /\ UNCHANGED heap \/ heap' = heap \cup {Pool}
  /\ Returns(-1, NULL, NULL)
  /\ UNCHANGED <<config, tree, cnt_key, pc, loc, erased>> /\ Observe

Idle == pc = "idle" /\ erased = NULL

-----------------------------------------------------------------------------
(* tl_bplustree_insert. *)

InsertAgain(k, v, b_update) ==
  /\ Idle /\ Has(k)
  /\ IF b_update THEN /\ tree' = setchild(tree, find_leaf(k).ploc, find_leaf(k).idx, v)
                      /\ Returns(0, NULL, NULL)
     ELSE UNCHANGED tree /\ Returns(-1, NULL, NULL)
  /\ UNCHANGED <<config, cnt_key, heap, pc, loc, erased>> /\ Observe

Inserted == cnt_key' = cnt_key + 1 /\ Returns(0, NULL, NULL) /\ pc' = "idle" /\ loc' = NoLoc

InsertFirst(k, v, y) ==
  /\ Idle /\ tree.firstNode = NULL
  /\ Alloc(y, tree.freeLeaf)
  /\ LET T == [TakeLeaf(tree, y) EXCEPT !.firstNode = y, !.firstLeaf = y]
     IN  tree' = insert_leaf(T, y, 0, k, v)
  /\ Inserted
  /\ UNCHANGED <<config, erased>> /\ Observe

\* The first leaf is used without a look at what tb_alloc_leaf returned.
InsertCrashes ==
  /\ Idle /\ tree.firstNode = NULL /\ tree.freeLeaf = NULL
  /\ pc' = "dead"
  /\ UNCHANGED <<config, tree, cnt_key, heap, loc, erased, ret>> /\ Observe

\* The leaf has room: the parents learn of a new greatest key.
InsertRoom(k, v) ==
  LET l == find_leaf(k)
      x == l.ploc
      T == insert_leaf(tree, x, l.idx, k, v)
  IN  /\ Idle /\ ~Has(k) /\ x # NULL /\ ~full(tree, x)
      /\ tree' = IF l.idx = used(tree, x) THEN updateUp(T, x, l.dad) ELSE T
      /\ Inserted
      /\ UNCHANGED <<config, heap, erased>> /\ Observe

\* The full x gives the entries from the middle on to the new y, before the new entry
\* goes into one of the two.
SplitKeeps(T, x, y, idx, k, c, inner) ==     \* mutant: it always goes to the left
  LET from == bt_split - 1
      T1   == PutRun(T, y, 0, x, from, used(T, x) - from, inner)
  IN  Put(dec(init(T1, x, bt_split), x, 1), x, IF idx < from THEN idx ELSE from, k, c, inner)
Split(T, x, y, idx, k, c, inner) ==
  LET b_new == idx >= bt_split
      from  == IF b_new THEN bt_split ELSE bt_split - 1
      T1    == init(PutRun(T, y, 0, x, from, used(T, x) - from, inner), x, bt_split)
  IN  IF b_new THEN Put(T1, y, idx - bt_split, k, c, inner)
      ELSE Put(dec(T1, x, 1), x, idx, k, c, inner)

\* Whether the new node y has the new greatest key: insRes.type.
SplitType(T, y, k) == IF k = getmaxkey(T, y) THEN "I_SPLITUPDATE" ELSE "I_SPLIT"

InsertSplit(k, v, y) ==
  LET l == find_leaf(k)
      x == l.ploc
      S == Split(TakeLeaf(tree, y), x, y, l.idx, k, v, FALSE)
      T == [S EXCEPT !.n[y].nextLeaf = S.n[x].nextLeaf, !.n[x].nextLeaf = y,
                     !.n[y].parent = parent(S, x)]
  IN  /\ Idle /\ ~Has(k) /\ x # NULL /\ full(tree, x)
      /\ Alloc(y, tree.freeLeaf)
      /\ tree' = Assert(T, used(S, x) + used(S, y) = bt_fork + 1)
      /\ loc' = [NoLoc EXCEPT !.cur = x, !.bro = y, !.dad = l.dad, !.type = SplitType(T, y, k)]
      /\ pc' = "insert"
      /\ UNCHANGED <<config, cnt_key, erased, ret>> /\ Observe

InsertSplitFails(k) ==
  /\ Idle /\ ~Has(k) /\ find_leaf(k).ploc # NULL /\ full(tree, find_leaf(k).ploc)
  /\ tree.freeLeaf = NULL
  /\ Returns(-1, NULL, NULL)
  /\ UNCHANGED <<config, tree, cnt_key, heap, pc, loc, erased, seen>>

(* tb_do_insert: the new node takes the place of pcur in the parent, and pcur is
   inserted before it. *)
Above == parent(tree, loc.cur)
Displaced ==
  LET T == setchild(tree, Above, loc.dad, loc.bro)
  IN  IF loc.type = "I_SPLITUPDATE" THEN updateUp(T, loc.bro, loc.dad) ELSE T
Place == locate_key(Displaced, Above, getmaxkey(tree, loc.cur))

InsertInParent ==
  /\ pc = "insert" /\ Above # NULL /\ ~full(tree, Above)
  /\ LET T == insert_node(Displaced, Above, Place, getmaxkey(tree, loc.cur), loc.cur)
     IN  tree' = IF Place = used(tree, Above) THEN updateUp(T, Above, loc.dad) ELSE T
  /\ Inserted
  /\ UNCHANGED <<config, heap, erased>> /\ Observe

SplitParent(y) ==
  /\ pc = "insert" /\ Above # NULL /\ full(tree, Above)
  /\ Alloc(y, tree.freeNode)
  /\ LET k == getmaxkey(tree, loc.cur)
         S == Split(TakeNode(Displaced, y), Above, y, Place, k, loc.cur, TRUE)
         T == [S EXCEPT !.n[y].parent = parent(S, Above)]
     IN  /\ tree' = T
         /\ loc' = [loc EXCEPT !.cur = Above, !.bro = y, !.type = SplitType(T, y, k),
                      !.dad = IF parent(T, Above) = NULL THEN @
                              ELSE locate_key(T, parent(T, Above), getmaxkey(T, y))]
  /\ UNCHANGED <<config, cnt_key, pc, erased, ret>> /\ Observe

NewRoot(y) ==
  /\ pc = "insert" /\ Above = NULL
  /\ Alloc(y, tree.freeNode)
  /\ LET T == [TakeNode(tree, y) EXCEPT !.firstNode = y, !.deep = @ + 1]
         S == insert_node(T, y, 0, getmaxkey(T, loc.cur), loc.cur)
     IN  tree' = insert_node(S, y, 1, getmaxkey(S, loc.bro), loc.bro)
  /\ Inserted
  /\ UNCHANGED <<config, erased>> /\ Observe

\* The half that was to go up is in the chain of leaves, or below pcur, but in no
\* parent.  Bound: what later calls make of such a tree is not followed.
InsertBreaks ==
  /\ pc = "insert" /\ tree.freeNode = NULL
  /\ IF Above = NULL THEN UNCHANGED tree ELSE full(tree, Above) /\ tree' = Displaced
  /\ pc' = "broken"
  /\ Returns(-1, NULL, NULL)
  /\ UNCHANGED <<config, cnt_key, heap, loc, erased>> /\ Observe

-----------------------------------------------------------------------------
(* tl_bplustree_query and tl_bplustree_get. *)

Query(k) ==
  /\ Idle
  /\ IF Has(k) THEN Returns(0, NULL, ValAt(find_leaf(k))) ELSE Returns(-1, NULL, NULL)
  /\ UNCHANGED <<config, tree, cnt_key, heap, pc, loc, erased, seen>>

Get(i) ==
  /\ Idle /\ i \in 0 .. cnt_key
  /\ Returns(0, get(i).key, get(i).val)
  /\ UNCHANGED <<config, tree, cnt_key, heap, pc, loc, erased, seen>>

-----------------------------------------------------------------------------
(* tl_bplustree_erase.  A destroy erases the first key until it reads 0. *)

Callable(k) == pc = "idle" /\ (erased # NULL => k = get(0).key /\ k # 0)

\* tb_do_del asserts that it works on a leaf; if not, the process stops.
Erase(k) ==
  LET l == find_leaf(k)
      x == l.ploc
      T == dec(shiftLeft(tree, x, l.idx + 1, 1), x, 1)
      updates == l.idx = used(T, x) /\ used(T, x) > 0
  IN  /\ Callable(k) /\ Has(k)
      /\ tree' = Assert(IF updates THEN updateUp(T, x, l.dad) ELSE T, leaf(tree, x))
      /\ pc' = IF leaf(tree, x) THEN "erase" ELSE "dead"
      /\ loc' = [NoLoc EXCEPT !.cur = x, !.key = IF updates THEN getmaxkey(T, x) ELSE k,
                              !.val = ValAt(l)]
      /\ UNCHANGED <<config, cnt_key, heap, erased, ret>> /\ Observe

EraseMisses(k) ==
  /\ Idle /\ ~Has(k)
  /\ Returns(-1, NULL, NULL)
  /\ UNCHANGED <<config, tree, cnt_key, heap, pc, loc, erased, seen>>

\* The neighbours of the child idx of x.
Left(T, x, idx) == IF idx = 0 THEN NULL ELSE getchild(T, x, idx - 1)
Right(T, x, idx) == IF idx >= used(T, x) - 1 THEN NULL ELSE getchild(T, x, idx + 1)

\* merge2: src, to the right of dst, is emptied into it.  In merge the chain of the
\* leaves goes past it.
MergeNoChain(T, dst, src) ==             \* mutant: it does not
  init(PutRun(T, dst, used(T, dst), src, 0, used(T, src), ~leaf(T, dst)), src, 0)
Merge2(T, dst, src) ==
  LET S == PutRun(T, dst, used(T, dst), src, 0, used(T, src), ~leaf(T, dst))
      U == init(Assert(S, bt_fork >= used(T, dst) + used(T, src)), src, 0)
  IN  IF leaf(T, dst) THEN [U EXCEPT !.n[dst].nextLeaf = T.n[src].nextLeaf] ELSE U

CanMerge(T, x, y) == IF x = NULL \/ y = NULL THEN FALSE ELSE bt_fork >= used(T, x) + used(T, y)

\* The child i of x is freed and leaves x.
FreeChild(T, x, i) ==
  LET c == getchild(T, x, i)
      S == IF leaf(T, c) THEN free_leaf(T, c) ELSE free_node(T, c)
  IN  dec(shiftLeft(S, x, i + 1, 1), x, 1)
Widen(T, x, i) == setkey(T, x, i - 1, getkey(T, x, i))

merge(T, x, idx) ==
  LET cur == getchild(T, x, idx)
      l   == Left(T, x, idx)
      r   == Right(T, x, idx)
  IN  IF CanMerge(T, l, cur) THEN FreeChild(Widen(Merge2(T, l, cur), x, idx), x, idx)
      ELSE IF CanMerge(T, cur, r) THEN FreeChild(Widen(Merge2(T, cur, r), x, idx + 1), x, idx + 1)
      ELSE IF l # NULL \/ r # NULL THEN T
      ELSE LET S == Assert(T, used(T, x) = 1)
           IN  FreeChild(IF leaf(T, cur) /\ T.firstLeaf = cur
                         THEN [S EXCEPT !.firstLeaf = T.n[cur].nextLeaf] ELSE S, x, 0)

\* rebalance: the greater neighbour gives half of what it has beyond the threshold.
count(T, x) == IF x = NULL THEN -1 ELSE used(T, x)
extra(T, x) == IF x = NULL THEN 0 ELSE (used(T, x) - bt_mergeThreshold) \div 2

rebalance(T, x, idx) ==
  LET cur  == getchild(T, x, idx)
      l    == Left(T, x, idx)
      r    == Right(T, x, idx)
      b_l  == count(T, l) >= count(T, r)
      from == IF b_l THEN l ELSE r
      m    == extra(T, from)
      S    == IF b_l THEN PutRun(T, cur, 0, from, used(T, from) - m, m, ~leaf(T, cur))
              ELSE shiftLeft(PutRun(T, cur, used(T, cur), from, 0, m, ~leaf(T, cur)), from, m, m)
      U    == dec(S, from, m)
  IN  IF m <= 0 THEN T
      ELSE IF b_l THEN setkey(U, x, idx - 1, getmaxkey(U, from)) ELSE setkey(U, x, idx, getmaxkey(U, cur))

\* One level of tb_do_del; b_ok if it merged or rebalanced.
EraseUp ==
  /\ pc = "erase" /\ Above # NULL
  /\ LET idx == locate_key(tree, Above, loc.key)
         M   == merge(tree, Above, idx)
         T   == IF M # tree THEN M ELSE rebalance(tree, Above, idx)
     IN  IF used(tree, loc.cur) <= bt_mergeThreshold
         THEN tree' = T /\ loc' = [loc EXCEPT !.cur = Above, !.parent = Above, !.b_ok = T # tree]
         ELSE /\ UNCHANGED tree
              /\ loc' = [loc EXCEPT !.cur = Above, !.parent = Above, !.b_ok = FALSE]
  /\ UNCHANGED <<config, cnt_key, heap, pc, erased, ret>> /\ Observe

\* A first node with one child gives way to it; a leaf that was all of the tree and is
\* empty goes.
LowerRoot(T, x) ==
  LET c == getchild(T, x, 0)
  IN  free_node([Assert(T, loc.b_ok) EXCEPT !.firstNode = c, !.n[c].parent = NULL, !.deep = @ - 1], x)
EraseEnd ==
  /\ pc = "erase" /\ Above = NULL
  /\ LET x == tree.firstNode
         T == Assert(tree, loc.parent = NULL => x = tree.firstLeaf)
     IN  tree' = IF loc.parent = x /\ ~leaf(T, x) /\ used(T, x) = 1 THEN LowerRoot(T, x)
                 ELSE IF loc.parent = NULL /\ used(T, x) = 0
                 THEN [free_leaf(T, x) EXCEPT !.firstNode = NULL, !.firstLeaf = NULL]
                 ELSE T
  /\ cnt_key' = cnt_key - 1 /\ pc' = "idle" /\ loc' = NoLoc
  /\ IF erased = NULL THEN Returns(0, NULL, loc.val) /\ UNCHANGED erased
     ELSE erased' = erased + 1 /\ UNCHANGED ret
  /\ UNCHANGED <<config, heap>> /\ Observe

-----------------------------------------------------------------------------
(* tl_bplustree_destroy. *)

FreeList(x) ==
  LET list[y \in Nodes \cup {NULL}, m \in 0 .. Cardinality(Nodes)] ==
        IF y = NULL \/ m = 0 THEN {} ELSE {y} \cup list[parent(tree, y), m - 1]
  IN  list[x, Cardinality(Nodes)]
Spare == FreeList(tree.freeNode) \cup FreeList(tree.freeLeaf)

DestroyCall == Idle /\ erased' = 0 /\ UNCHANGED <<config, tree, cnt_key, heap, pc, loc, ret>> /\ Observe

DestroyEnd ==
  /\ pc = "idle" /\ erased # NULL /\ get(0).key \in {0, NULL}
  /\ heap' = heap \ Spare /\ tree' = NoTree /\ cnt_key' = 0
  /\ pc' = "none" /\ erased' = NULL
  /\ Returns(erased, NULL, NULL)
  /\ UNCHANGED <<config, loc>> /\ Observe

-----------------------------------------------------------------------------
Insert == \/ \E k \in Key : \/ \E v \in ValOf[config][k] : \/ \E b_update \in BOOLEAN : InsertAgain(k, v, b_update)
                                                  \/ InsertRoom(k, v)
                                                  \/ \E y \in Nodes : InsertFirst(k, v, y) \/ InsertSplit(k, v, y)
                            \/ InsertSplitFails(k)
          \/ InsertCrashes \/ InsertInParent \/ InsertBreaks
          \/ \E y \in Nodes : SplitParent(y) \/ NewRoot(y)
Lookup == (\E k \in Key : Query(k)) \/ (\E i \in 0 .. Cardinality(Key) : Get(i))
Delete == \/ \E k \in Key : Erase(k) \/ EraseMisses(k)
          \/ EraseUp \/ EraseEnd

Next == TreeInit \/ TreeInitFails \/ Insert \/ Lookup \/ Delete \/ DestroyCall \/ DestroyEnd

Spec == Init /\ [][Next]_vars

-----------------------------------------------------------------------------
TypeOK ==
  /\ config \in Configs /\ cnt_key \in Nat /\ heap \subseteq Nodes \cup {Pool}
  /\ tree.n \in [Nodes -> [used : 0 .. bt_fork, mark : BOOLEAN,
                           key : [0 .. bt_fork - 1 -> Key \cup {Junk}],
                           child : [0 .. bt_fork - 1 -> Nodes \cup Val \cup {NULL, Junk}],
                           parent : Nodes \cup {NULL}, nextLeaf : Nodes \cup {NULL}]]
  /\ {tree.firstNode, tree.firstLeaf, tree.freeNode, tree.freeLeaf} \subseteq Nodes \cup {NULL}
  /\ pc \in {"none", "idle", "insert", "erase", "broken", "dead"}

\* The children of x, and all that the index reaches.
Children(x) == {getchild(tree, x, i) : i \in 0 .. used(tree, x) - 1}
Reached == UNION {Level(d) : d \in 0 .. tree.deep}
Inner == UNION {Level(d) : d \in 0 .. tree.deep - 1}

(* No node is emptier than the threshold at which it is merged, or takes from a
   neighbour; none is empty; a first node that is not a leaf has two children. *)
Filled ==
  pc = "idle" => \A x \in Reached :
    used(tree, x) >= IF x # tree.firstNode THEN bt_mergeThreshold
                     ELSE IF tree.deep > 0 THEN 2 ELSE 1

(* No tl_assert fails, no index leaves its array, and an erase of a key that is
   there, which the test asserts to return 0, gets past the assertion that it is
   in a leaf. *)
AssertsHold == tree.ok

(* Between calls the keys of an inner node are exactly the greatest ones below its
   children, which are its children's parent: updateUp has told every level that
   a split, a merge, a rebalance or an erase of the last key concerned; and they
   are filled, and no assertion fails. *)
Indexed ==
  /\ TypeOK /\ AssertsHold /\ Filled
  /\ pc = "idle" =>
       /\ \A x \in Reached : \A i \in 1 .. used(tree, x) - 1 : getkey(tree, x, i - 1) < getkey(tree, x, i)
       /\ \A x \in Inner : \A i \in 0 .. used(tree, x) - 1 :
            LET c == getchild(tree, x, i)
            IN  /\ parent(tree, c) = x
                /\ getkey(tree, x, i) = getmaxkey(tree, c)
                /\ i > 0 => getkey(tree, c, 0) > getkey(tree, x, i - 1)
       /\ tree.firstNode # NULL => parent(tree, tree.firstNode) = NULL

(* The chain of the leaves is the leaves that the index reaches, in order; the
   memory is the tree, the spare nodes, none of it twice, and the pool.  A destroy
   gives back every node and leaf, unless the first key is 0, which it takes for
   the end, but never the pool. *)
Least(X) == CHOOSE x \in X : \A y \in X : getkey(tree, x, 0) <= getkey(tree, y, 0)
IsLeast(x, X) == IF X = {} THEN x = NULL ELSE x = Least(X)
ChainExact ==
  /\ pc = "idle" =>
       LET L == Leaves
           R == Reached
       IN  /\ IsLeast(tree.firstLeaf, L)
           /\ \A x \in L : IsLeast(tree.n[x].nextLeaf, {y \in L : getkey(tree, y, 0) > getkey(tree, x, 0)})
           /\ heap = R \cup Spare \cup {Pool} /\ R \cap Spare = {}
           /\ FreeList(tree.freeNode) \cap FreeList(tree.freeLeaf) = {}
           /\ cnt_key = Cardinality(DOMAIN TreeMap)
  /\ pc = "none" /\ 0 \notin DOMAIN seen => heap \subseteq {Pool}

-----------------------------------------------------------------------------
(* The tree implements the map, which knows of no assertion. *)
M == INSTANCE IndexedMap WITH
       Nothing <- NULL, ret <- ret,
       st  <- CASE ~tree.ok -> "aborted" [] pc = "none" -> "none" [] pc \in {"broken", "dead"} -> "over" [] OTHER -> "open",
       map <- IF pc = "none" THEN [k \in {} |-> NULL] ELSE seen

ImplementsMap == M!Spec
=============================================================================
