---------------------------- MODULE RBTreeProofs ----------------------------
(***************************************************************************)
(* tl_rbtree_t is a red-black tree, for every set of keys, values and      *)
(* nodes, and what is in it is what the abstract ordered map holds.        *)
(*                                                                         *)
(* The first part is about the operators of RBTree, that is, about a       *)
(* search tree in a memory of nodes: a painting, a rotation, and an        *)
(* iteration of i_adjust and of d_adjust.  IsTree says what a search tree  *)
(* is, and which nodes are below which; Good adds the colours and the      *)
(* black heights, with one link that may be short of a black node and some *)
(* nodes that may be red below red: so it holds between two iterations.    *)
(*                                                                         *)
(* The second part is about the calls.  IInv adds what each phase of a     *)
(* call knows of its locals: which node may be red below red in i_adjust,  *)
(* which link is short of a black node in d_adjust, and which node is      *)
(* still to be freed.                                                      *)
(***************************************************************************)
EXTENDS RBTree, FiniteSetTheorems, WellFoundedInduction, NaturalsInduction, TLAPS

Sides == {"lc", "rc"}
NodeRec == [key : Key \cup {NULL}, val : Val \cup {NULL}, color : {RED, BLACK},
            father : Nodes \cup {NULL}, lc : Nodes \cup {Forge, NULL},
            rc : Nodes \cup {Forge, NULL}]
Memory == [Nodes \cup {Forge} -> NodeRec]

\* The key i belongs on side s of the key j.
Before(s, i, j) == IF s = "lc" THEN i < j ELSE j < i

(* The nodes S of the memory N are search trees, D being what is below each of
   them, and itself. *)
Sorted(N, S, D) ==
  /\ S \subseteq Nodes
  /\ D \in [S \cup {Forge} -> SUBSET S] /\ D[Forge] = {}
  /\ \A x \in S :
       /\ N[x].key \in Key
       /\ N[x].lc \in S \cup {Forge} /\ N[x].rc \in S \cup {Forge}
       /\ D[x] = {x} \cup D[N[x].lc] \cup D[N[x].rc]
       /\ \A y \in D[N[x].lc] : N[y].key < N[x].key
       /\ \A y \in D[N[x].rc] : N[y].key > N[x].key

(* The father links are the inverse of the links down, and r has none. *)
Linked(N, r, S) ==
  /\ r \in S /\ N[r].father = NULL
  /\ \A x \in S : x # r => N[x].father \in S /\ x \in {N[N[x].father].lc, N[N[x].father].rc}
  /\ \A x \in S : /\ N[x].lc \in S => N[N[x].lc].father = x
                  /\ N[x].rc \in S => N[N[x].rc].father = x

-----------------------------------------------------------------------------
(* There is a least one of some natural numbers. *)
LEMMA LeastOf ==
  ASSUME NEW T, T \subseteq Nat, T # {}
  PROVE  \E x \in T : \A y \in T : x <= y
<1> DEFINE R == OpToRel(<, Nat)
<1>1. IsWellFoundedOn(R, Nat)
  BY NatLessThanWellFounded, Zenon
<1>2. \A x, y \in Nat : <<y, x>> \in R <=> y < x
  BY DEF OpToRel
<1> HIDE DEF R
<1>3. PICK x \in T : \A y \in T : ~ (<<y, x>> \in R)
  BY <1>1, WFMin, Zenon
<1>4. \A y \in T : ~(y < x)
  BY <1>2, <1>3, Zenon
<1> HIDE <1>1, <1>2, <1>3
<1> QED
  BY <1>4

(* What is below a node is seen from either side. *)
LEMMA SidesOf ==
  ASSUME NEW N \in Memory, NEW S, NEW D, Sorted(N, S, D), NEW x \in S, NEW s \in Sides
  PROVE  /\ x \in Nodes /\ x # Forge /\ x # NULL /\ x \in D[x]
         /\ Other(s) \in Sides /\ Other(Other(s)) = s /\ Other(s) # s
         /\ N[x].key \in Int
         /\ N[x][s] \in S \cup {Forge} /\ N[x][s] # x /\ D[N[x][s]] \in SUBSET S
         /\ D[N[x][s]] \subseteq D[x] /\ x \notin D[N[x][s]]
         /\ D[x] = {x} \cup D[N[x][s]] \cup D[N[x][Other(s)]]
         /\ D[N[x][s]] \cap D[N[x][Other(s)]] = {}
         /\ \A y \in D[N[x][s]] : y \in S /\ N[y].key \in Int /\ Before(s, N[y].key, N[x].key)
<1>1. /\ x \in Nodes /\ x # Forge /\ x # NULL /\ N[x].key \in Int
      /\ \A y \in S : N[y].key \in Int
  <2>1. S \subseteq Nodes /\ \A y \in S : N[y].key \in Key
    BY Zenon DEF Sorted
  <2> QED
    BY <2>1, RBAssumption
<1>2. /\ D[x] = {x} \cup D[N[x].lc] \cup D[N[x].rc]
      /\ N[x].lc \in S \cup {Forge} /\ N[x].rc \in S \cup {Forge}
      /\ D[N[x].lc] \in SUBSET S /\ D[N[x].rc] \in SUBSET S
      /\ \A y \in D[N[x].lc] : N[y].key < N[x].key
      /\ \A y \in D[N[x].rc] : N[y].key > N[x].key
  BY DEF Sorted
<1>3. \A y \in S : y \in D[y]
  BY DEF Sorted
<1>4. x \notin D[N[x].lc] /\ x \notin D[N[x].rc] /\ N[x].lc # x /\ N[x].rc # x
  BY <1>1, <1>2, <1>3
<1>5. D[N[x].lc] \cap D[N[x].rc] = {}
  <2> SUFFICES ASSUME NEW y \in D[N[x].lc], y \in D[N[x].rc] PROVE FALSE
    OBVIOUS
  <2> QED
    BY <1>1, <1>2
<1>6. CASE s = "lc"
  <2>1. Other(s) = "rc" /\ Other("rc") = "lc" /\ N[x][s] = N[x].lc /\ N[x][Other(s)] = N[x].rc
    BY <1>6 DEF Other
  <2> QED
    BY <1>1, <1>2, <1>3, <1>4, <1>5, <1>6, <2>1 DEF Sides, Before
<1>7. CASE s = "rc"
  <2>1. Other(s) = "lc" /\ Other("lc") = "rc" /\ N[x][s] = N[x].rc /\ N[x][Other(s)] = N[x].lc
    BY <1>7 DEF Other
  <2> QED
    BY <1>1, <1>2, <1>3, <1>4, <1>5, <1>7, <2>1 DEF Sides, Before
<1> QED
  BY <1>6, <1>7 DEF Sides

(* The nodes are finitely many, and fewer are below a child. *)
LEMMA Smaller ==
  ASSUME NEW N \in Memory, NEW S, NEW D, Sorted(N, S, D), NEW x \in S
  PROVE  /\ IsFiniteSet(S) /\ IsFiniteSet(D[x]) /\ Cardinality(D[x]) \in Nat
         /\ \A s \in Sides : Cardinality(D[N[x][s]]) \in Nat
                             /\ Cardinality(D[N[x][s]]) < Cardinality(D[x])
<1>1. IsFiniteSet(S)
  BY FS_Subset, RBAssumption DEF Sorted
<1>2. D[x] \in SUBSET S
  BY DEF Sorted
<1>3. IsFiniteSet(D[x]) /\ Cardinality(D[x]) \in Nat
  BY <1>1, <1>2, FS_Subset, FS_CardinalityType
<1>4. ASSUME NEW s \in Sides
      PROVE  Cardinality(D[N[x][s]]) \in Nat /\ Cardinality(D[N[x][s]]) < Cardinality(D[x])
  <2>1. D[N[x][s]] \in SUBSET (D[x] \ {x}) /\ x \in D[x]
    BY SidesOf
  <2>2. IsFiniteSet(D[x] \ {x}) /\ Cardinality(D[x] \ {x}) = Cardinality(D[x]) - 1
    BY <1>3, <2>1, FS_RemoveElement
  <2>3. IsFiniteSet(D[N[x][s]]) /\ Cardinality(D[N[x][s]]) <= Cardinality(D[x] \ {x})
    BY <2>1, <2>2, FS_Subset
  <2>4. Cardinality(D[N[x][s]]) \in Nat
    BY <2>3, FS_CardinalityType
  <2> QED
    BY <1>3, <2>2, <2>3, <2>4
<1> QED
  BY <1>1, <1>3, <1>4

(* Induction from the leaves up: what holds for a node when it does for both of its
   children holds for all.  P is the set of those it holds for. *)
LEMMA FromLeaves ==
  ASSUME NEW N \in Memory, NEW S, NEW D, Sorted(N, S, D), NEW P, Forge \in P,
         \A x \in S : (\A s \in Sides : N[x][s] \in P) => x \in P
  PROVE  S \subseteq P
<1> SUFFICES ASSUME S \ P # {} PROVE FALSE
  OBVIOUS
<1> DEFINE C == {Cardinality(D[x]) : x \in S \ P}
<1>1. C \subseteq Nat /\ C # {}
  BY Smaller
<1>2. PICK m \in C : \A i \in C : m <= i
  <2> HIDE DEF C
  <2> QED
    BY <1>1, LeastOf
<1>3. PICK x \in S \ P : Cardinality(D[x]) = m
  OBVIOUS
<1>4. ASSUME NEW s \in Sides PROVE N[x][s] \in P
  <2>1. N[x][s] \in S \cup {Forge}
    BY SidesOf
  <2>2. Cardinality(D[N[x][s]]) < m /\ Cardinality(D[N[x][s]]) \in Nat /\ m \in Nat
    BY <1>3, Smaller
  <2>3. CASE N[x][s] \in S \ P
    <3>1. Cardinality(D[N[x][s]]) \in C
      BY <2>3
    <3> HIDE DEF C
    <3> QED
      BY <1>2, <2>2, <3>1
  <2> QED
    BY <2>1, <2>3
<1> QED
  BY <1>3, <1>4

(* What is below a node that is below x is below x. *)
LEMMA BelowBelow ==
  ASSUME NEW N \in Memory, NEW S, NEW D, Sorted(N, S, D), NEW x \in S, NEW y \in D[x]
  PROVE  y \in S /\ D[y] \subseteq D[x]
<1> DEFINE P == {z \in S \cup {Forge} : \A w \in D[z] : w \in S /\ D[w] \subseteq D[z]}
<1>1. Forge \in P
  BY DEF Sorted
<1>2. ASSUME NEW z \in S, \A s \in Sides : N[z][s] \in P
      PROVE  z \in P
  <2>1. D[z] = {z} \cup D[N[z]["lc"]] \cup D[N[z][Other("lc")]] /\ Other("lc") = "rc"
        /\ "rc" \in Sides /\ "lc" \in Sides
    BY SidesOf DEF Sides, Other
  <2> QED
    BY <1>2, <2>1
<1> HIDE DEF P
<1>3. x \in P
  BY <1>1, <1>2, FromLeaves
<1> QED
  BY <1>3 DEF P

(* A node below x other than x has its father below x. *)
LEMMA FatherBelow ==
  ASSUME NEW N \in Memory, NEW S, NEW D, Sorted(N, S, D), NEW r, Linked(N, r, S),
         NEW x \in S, NEW y \in D[x], y # x
  PROVE  N[y].father \in D[x]
<1> DEFINE P == {z \in S \cup {Forge} : \A w \in D[z] : w # z => N[w].father \in D[z]}
<1>1. Forge \in P
  BY DEF Sorted
<1>2. ASSUME NEW z \in S, \A s \in Sides : N[z][s] \in P
      PROVE  z \in P
  <2>1. /\ D[z] = {z} \cup D[N[z].lc] \cup D[N[z].rc]
        /\ N[z].lc \in P /\ N[z].rc \in P
        /\ N[z].lc \in S \cup {Forge} /\ N[z].rc \in S \cup {Forge} /\ D[Forge] = {}
    BY <1>2 DEF Sorted, Sides
  <2>2. /\ N[z].lc \in S => N[N[z].lc].father = z
        /\ N[z].rc \in S => N[N[z].rc].father = z
    BY DEF Linked
  <2> QED
    BY <2>1, <2>2
<1> HIDE DEF P
<1>3. x \in P
  BY <1>1, <1>2, FromLeaves
<1> QED
  BY <1>3 DEF P

(* Induction from the first node down: what holds for a node when it does for its
   father holds for all. *)
LEMMA FromFirst ==
  ASSUME NEW N \in Memory, NEW S, NEW D, Sorted(N, S, D), NEW r, Linked(N, r, S), D[r] = S,
         NEW P, r \in P, \A x \in S : x # r /\ N[x].father \in P => x \in P
  PROVE  S \subseteq P
<1> DEFINE Q == {z \in S \cup {Forge} : z \in P => D[z] \subseteq P}
<1>1. Forge \in Q
  BY DEF Sorted
<1>2. ASSUME NEW z \in S, \A s \in Sides : N[z][s] \in Q
      PROVE  z \in Q
  <2> SUFFICES ASSUME z \in P PROVE D[z] \subseteq P
    OBVIOUS
  <2>1. /\ D[z] = {z} \cup D[N[z].lc] \cup D[N[z].rc]
        /\ N[z].lc \in Q /\ N[z].rc \in Q
        /\ N[z].lc \in S \cup {Forge} /\ N[z].rc \in S \cup {Forge} /\ D[Forge] = {}
        /\ Forge \notin S
    BY <1>2, RBAssumption DEF Sorted, Sides
  <2>2. /\ N[z].lc \in S => N[N[z].lc].father = z
        /\ N[z].rc \in S => N[N[z].rc].father = z
        /\ N[r].father = NULL /\ z # NULL
    BY RBAssumption DEF Linked, Sorted
  <2>3. (N[z].lc \in S => N[z].lc \in P) /\ (N[z].rc \in S => N[z].rc \in P)
    BY <2>2
  <2> QED
    BY <2>1, <2>3
<1> HIDE DEF Q
<1>3. r \in Q
  BY <1>1, <1>2, FromLeaves DEF Linked
<1> QED
  BY <1>3 DEF Q

(* No two nodes have the same key. *)
LEMMA KeysDiffer ==
  ASSUME NEW N \in Memory, NEW S, NEW D, Sorted(N, S, D), NEW x \in S,
         NEW y \in D[x], NEW z \in D[x], N[y].key = N[z].key
  PROVE  y = z
<1> DEFINE P == {w \in S \cup {Forge} : \A u, t \in D[w] : N[u].key = N[t].key => u = t}
<1>1. Forge \in P
  BY DEF Sorted
<1>2. ASSUME NEW w \in S, \A s \in Sides : N[w][s] \in P
      PROVE  w \in P
  <2>1. /\ D[w] = {w} \cup D[N[w].lc] \cup D[N[w].rc]
        /\ N[w].lc \in P /\ N[w].rc \in P
        /\ N[w].key \in Int
        /\ \A u \in D[N[w].lc] : N[u].key \in Int /\ N[u].key < N[w].key
        /\ \A u \in D[N[w].rc] : N[u].key \in Int /\ N[u].key > N[w].key
    BY <1>2, RBAssumption DEF Sorted, Sides
  <2> QED
    BY <2>1
<1> HIDE DEF P
<1>3. x \in P
  BY <1>1, <1>2, FromLeaves
<1> QED
  BY <1>3 DEF P

-----------------------------------------------------------------------------
\* Walking down from any node, to the child on the side that Way says until a node
\* of Stop; f gives the ends of these walks.
Leads(N, S, Stop, Way) ==
  /\ Stop \subseteq S /\ Way \in [S -> Sides]
  /\ \A x \in S : x \notin Stop => N[x][Way[x]] \in S
EndOf(f, N, Stop, Way, x) == f[x] = IF x \in Stop THEN x ELSE f[N[x][Way[x]]]
Ends(f, N, S, Stop, Way) == f \in [S -> S] /\ \A x \in S : EndOf(f, N, Stop, Way, x)

(* Every such walk has an end. *)
LEMMA DownExists ==
  ASSUME NEW N \in Memory, NEW S, NEW D, Sorted(N, S, D), NEW r \in S, D[r] = S,
         NEW Stop, NEW Way, Leads(N, S, Stop, Way)
  PROVE  \E f : Ends(f, N, S, Stop, Way)
<1>0. /\ Stop \subseteq S /\ Way \in [S -> Sides]
      /\ \A x \in S : x \notin Stop => N[x][Way[x]] \in S
  BY DEF Leads
<1> DEFINE Walks(f, z) == \A x \in D[z] : f[x] = IF x \in Stop THEN x ELSE f[N[x][Way[x]]]
           P == {z \in S \cup {Forge} : \E f \in [D[z] -> S] : Walks(f, z)}
<1>1. Forge \in P
  <2>1. [x \in {} |-> r] \in [D[Forge] -> S] /\ D[Forge] = {}
    BY DEF Sorted
  <2> QED
    BY <2>1
<1>2. ASSUME NEW z \in S, \A s \in Sides : N[z][s] \in P
      PROVE  z \in P
  <2> DEFINE y == N[z].lc
             w == N[z].rc
  <2>1. /\ D[z] = {z} \cup D[y] \cup D[w] /\ z \notin D[y] /\ z \notin D[w] /\ D[y] \cap D[w] = {}
        /\ y \in P /\ w \in P /\ D[z] \subseteq S
        /\ \A x \in S : x \in D[x]
    <3>0. y \in P /\ w \in P
      BY <1>2 DEF Sides
    <3>1. /\ D[z] = {z} \cup D[y] \cup D[w]
          /\ D[z] \subseteq S /\ \A x \in S : x \in D[x]
      BY DEF Sorted
    <3>2. /\ z \notin D[N[z]["lc"]] /\ z \notin D[N[z]["rc"]]
          /\ D[N[z]["lc"]] \cap D[N[z][Other("lc")]] = {} /\ Other("lc") = "rc"
      BY SidesOf DEF Sides, Other
    <3> HIDE DEF P
    <3> QED
      BY <3>0, <3>1, <3>2, Zenon
  <2>2. PICK f \in [D[y] -> S] : Walks(f, y)
    BY <2>1, Zenon
  <2>3. PICK h \in [D[w] -> S] : Walks(h, w)
    BY <2>1, Zenon
  <2> DEFINE e == IF z \in Stop THEN z ELSE IF Way[z] = "lc" THEN f[y] ELSE h[w]
             g == [x \in D[z] |-> IF x = z THEN e ELSE IF x \in D[y] THEN f[x] ELSE h[x]]
  <2>4. e \in S /\ (z \notin Stop => N[z][Way[z]] \in D[z] /\ N[z][Way[z]] # z
                                     /\ e = IF Way[z] = "lc" THEN f[y] ELSE h[w])
    <3>1. CASE z \in Stop
      BY <3>1, Zenon
    <3>2. CASE z \notin Stop /\ Way[z] = "lc"
      <4>1. N[z][Way[z]] = y /\ y \in S /\ y \in D[y] /\ f[y] \in S
        BY <1>0, <2>1, <2>2, <3>2, Zenon
      <4> QED
        BY <2>1, <3>2, <4>1, Zenon
    <3>3. CASE z \notin Stop /\ Way[z] = "rc"
      <4>1. N[z][Way[z]] = w /\ w \in S /\ w \in D[w] /\ h[w] \in S
        BY <1>0, <2>1, <2>3, <3>3, Zenon
      <4> QED
        BY <2>1, <3>3, <4>1, Zenon
    <3> QED
      BY <1>0, <3>1, <3>2, <3>3 DEF Sides
  <2>5. g \in [D[z] -> S]
    BY <2>1, <2>2, <2>3, <2>4, Zenon
  <2>6. /\ g[z] = e /\ \A x \in D[y] : g[x] = f[x]
        /\ \A x \in D[w] : g[x] = h[x]
    BY <2>1, <2>2, <2>3
  <2> HIDE DEF e, g
  <2>7. ASSUME NEW x \in D[z] PROVE g[x] = IF x \in Stop THEN x ELSE g[N[x][Way[x]]]
    <3>1. x \in S /\ Way[x] \in Sides
      BY <1>0, <2>1
    <3>2. x \notin Stop => N[x][Way[x]] \in D[x]
      <4>1. D[N[x][Way[x]]] \subseteq D[x]
        BY <3>1, SidesOf
      <4> QED
        BY <1>0, <2>1, <3>1, <4>1
    <3>3. CASE x = z
      <4>1. CASE z \in Stop
        BY <2>6, <3>3, <4>1 DEF e
      <4>2. CASE z \notin Stop /\ Way[z] = "lc"
        <5>1. y \in D[y] /\ N[z][Way[z]] = y
          BY <1>0, <2>1, <3>1, <3>3, <4>2
        <5> QED
          BY <2>4, <2>6, <3>3, <4>2, <5>1
      <4>3. CASE z \notin Stop /\ Way[z] = "rc"
        <5>1. w \in D[w] /\ N[z][Way[z]] = w
          BY <1>0, <2>1, <3>1, <3>3, <4>3
        <5> QED
          BY <2>4, <2>6, <3>3, <4>3, <5>1
      <4> QED
        BY <3>1, <3>3, <4>1, <4>2, <4>3 DEF Sides
    <3>4. CASE x \in D[y]
      <4>1. y \in S
        BY <2>1, <3>4 DEF Sorted
      <4>2. D[x] \subseteq D[y]
        BY <3>4, <4>1, BelowBelow
      <4>3. f[x] = IF x \in Stop THEN x ELSE f[N[x][Way[x]]]
        BY <2>2, <3>4
      <4> QED
        BY <2>6, <3>2, <3>4, <4>2, <4>3
    <3>5. CASE x \in D[w]
      <4>1. w \in S
        BY <2>1, <3>5 DEF Sorted
      <4>2. D[x] \subseteq D[w]
        BY <3>5, <4>1, BelowBelow
      <4>3. h[x] = IF x \in Stop THEN x ELSE h[N[x][Way[x]]]
        BY <2>3, <3>5
      <4> QED
        BY <2>6, <3>2, <3>5, <4>2, <4>3
    <3> QED
      BY <2>1, <3>3, <3>4, <3>5, Zenon
  <2>8. Walks(g, z)
    BY <2>7
  <2> QED
    BY <2>5, <2>8
<1> HIDE DEF P
<1>3. r \in P
  BY <1>1, <1>2, FromLeaves
<1>4. PICK f \in [D[r] -> S] : Walks(f, r)
  BY <1>3 DEF P
<1> QED
  BY <1>4 DEF Ends, EndOf

\* What the recursive function in Locate(k) is.
Locates(f, k) ==
  f = [x \in heap |-> IF node[x].key = k \/ isforge(node[x][Side(k, x)]) THEN x
                      ELSE f[node[x][Side(k, x)]]]

(* locateKey finds the node with the key or, if there is none, the node below which
   it belongs: on that side is forgeNode, and the key is on the same side of every
   node further up. *)
LEMMA Located ==
  ASSUME node \in Memory, NEW D, Sorted(node, heap, D), first \in heap, D[first] = heap,
         NEW k \in Int
  PROVE  /\ Locate(k) \in heap
         /\ \/ node[Locate(k)].key = k
            \/ /\ \A y \in heap : node[y].key # k
               /\ node[Locate(k)][Side(k, Locate(k))] = Forge
               /\ \A z \in heap, s \in Sides :
                    Locate(k) \in D[node[z][s]] => Before(s, k, node[z].key)
<1> DEFINE Stop == {x \in heap : node[x].key = k \/ node[x][Side(k, x)] = Forge}
           Way == [x \in heap |-> Side(k, x)]
<1>1. \A x \in heap : Side(k, x) \in Sides /\ node[x].key \in Int
                      /\ (node[x].key # k => Before(Side(k, x), k, node[x].key))
  <2>1. \A x \in heap : node[x].key \in Int
    BY SidesOf DEF Sides
  <2> QED
    BY <2>1 DEF Side, Sides, Before
<1>2. \A x \in heap : node[x][Side(k, x)] \in heap \cup {Forge}
  BY <1>1, SidesOf
<1>3. Way \in [heap -> Sides]
  BY <1>1
<1>4. PICK f : Ends(f, node, heap, Stop, Way)
  <2>1. Leads(node, heap, Stop, Way)
    BY <1>2, <1>3 DEF Leads
  <2> HIDE DEF Stop, Way
  <2> QED
    BY <2>1, DownExists
<1>5. Locates(f, k)
  <2>1. \A x \in heap : f[x] = IF node[x].key = k \/ isforge(node[x][Side(k, x)]) THEN x
                               ELSE f[node[x][Side(k, x)]]
    BY <1>4 DEF isforge, Ends, EndOf
  <2>2. f \in [heap -> heap]
    BY <1>4 DEF Ends
  <2> QED
    BY <2>1, <2>2 DEF Locates
<1> DEFINE g == CHOOSE h : Locates(h, k)
<1>6. Locates(g, k)
  BY <1>5, Zenon
<1>7. Locate(k) = g[first]
  BY DEF Locate, Locates
<1> HIDE DEF g
<1>8. \A x \in heap : g[x] = IF node[x].key = k \/ node[x][Side(k, x)] = Forge THEN x
                             ELSE g[node[x][Side(k, x)]]
  BY <1>6 DEF Locates, isforge
<1> DEFINE Belongs(z) ==
             /\ \A y \in D[z] : node[y].key # k
             /\ node[g[z]][Side(k, g[z])] = Forge
             /\ \A w \in D[z], s \in Sides : g[z] \in D[node[w][s]] => Before(s, k, node[w].key)
           P == {z \in heap \cup {Forge} :
                   z # Forge => g[z] \in D[z] /\ (node[g[z]].key = k \/ Belongs(z))}
<1>9. ASSUME NEW z \in heap, \A s \in Sides : node[z][s] \in P
      PROVE  g[z] \in D[z] /\ (node[g[z]].key = k \/ Belongs(z))
  <2> DEFINE t == Side(k, z)
             y == node[z][t]
             v == node[z][Other(t)]
  <2>1. /\ z \in D[z] /\ z \notin D[y] /\ t \in Sides /\ y \in heap \cup {Forge} /\ y \in P
        /\ D[z] = {z} \cup D[y] \cup D[v] /\ D[y] \cap D[v] = {}
        /\ \A x \in D[y] : node[x].key \in Int /\ Before(t, node[x].key, node[z].key)
    BY <1>1, <1>9, SidesOf
  <2>2. /\ z \notin D[v] /\ Other(t) \in Sides /\ v \in heap \cup {Forge}
        /\ \A x \in D[v] : node[x].key \in Int /\ Before(Other(t), node[x].key, node[z].key)
    BY <2>1, SidesOf
  <2>3. CASE node[z].key = k
    BY <1>8, <2>1, <2>3
  <2>4. ASSUME node[z].key # k PROVE \A x \in D[v] : node[x].key # k
    <3>1. Before(t, k, node[z].key) /\ node[z].key \in Int
      BY <1>1, <2>4
    <3> HIDE DEF t
    <3> QED
      BY <2>1, <2>2, <3>1 DEF Before, Sides, Other
  <2>5. ASSUME NEW w \in D[v], NEW s \in Sides, NEW x \in {z} \cup D[y]
        PROVE  x \notin D[node[w][s]]
    <3>1. v \in heap
      BY <2>2 DEF Sorted
    <3>2. w \in heap /\ D[w] \subseteq D[v]
      BY <3>1, BelowBelow
    <3>3. D[node[w][s]] \subseteq D[w]
      BY <3>2, SidesOf
    <3> QED
      BY <2>1, <2>2, <3>2, <3>3
  <2>6. ASSUME node[z].key # k, y = Forge PROVE g[z] \in D[z] /\ Belongs(z)
    <3>1. g[z] = z /\ D[y] = {}
      BY <1>8, <2>6, Zenon DEF Sorted
    <3>2. \A s \in Sides : z \notin D[node[z][s]]
      BY SidesOf
    <3>3. \A x \in D[z] : node[x].key # k
      BY <2>1, <2>4, <2>6, <3>1, Zenon
    <3>4. \A w \in D[z], s \in Sides : z \notin D[node[w][s]]
      BY <2>1, <2>5, <3>1, <3>2
    <3> QED
      BY <2>1, <2>6, <3>1, <3>3, <3>4
  <2>7. ASSUME node[z].key # k, y # Forge PROVE g[z] \in D[z] /\ (node[g[z]].key = k \/ Belongs(z))
    <3>1. g[z] = g[y] /\ y \in heap
      BY <1>8, <2>1, <2>7, Zenon
    <3>2. g[y] \in D[y] /\ (node[g[y]].key = k \/ Belongs(y))
      BY <2>1, <2>7
    <3>3. ASSUME Belongs(y) PROVE Belongs(z)
      <4>1. \A x \in D[z] : node[x].key # k
        BY <2>1, <2>4, <2>7, <3>3, Zenon
      <4>2. ASSUME NEW w \in D[z], NEW s \in Sides, g[z] \in D[node[w][s]]
            PROVE  Before(s, k, node[w].key)
        <5>1. CASE w \in D[y]
          BY <3>1, <3>3, <4>2, <5>1, Zenon
        <5>2. CASE w \in D[v]
          BY <2>5, <3>1, <3>2, <4>2, <5>2
        <5>3. CASE w = z
          <6>1. s = t \/ s = Other(t)
            BY <2>1 DEF Sides, Other
          <6>2. s = t
            BY <2>1, <3>1, <3>2, <4>2, <5>3, <6>1
          <6> QED
            BY <1>1, <2>7, <5>3, <6>2, Zenon
        <5> QED
          BY <2>1, <5>1, <5>2, <5>3, Zenon
      <4> QED
        BY <3>1, <3>3, <4>1, <4>2, Zenon
    <3> QED
      BY <2>1, <3>1, <3>2, <3>3, Zenon
  <2> QED
    BY <2>3, <2>6, <2>7, Zenon
<1> HIDE DEF Belongs
<1>10. Forge \in P
  OBVIOUS
<1>11. \A z \in heap : (\A s \in Sides : node[z][s] \in P) => z \in P
  BY <1>9
<1>12. first \in P /\ first # Forge
  <2> HIDE DEF P
  <2>1. heap \subseteq P
    BY <1>10, <1>11, FromLeaves, Zenon
  <2> QED
    BY <2>1, RBAssumption DEF Sorted
<1> QED
  BY <1>7, <1>12 DEF Belongs

\* What the recursive function in Edge(node, x, s) is.
Edges(f, s) ==
  f = [y \in heap |-> IF isforge(node[y][s]) THEN y ELSE f[node[y][s]]]

(* The last node from x on side s is the one with the least key on that side, and
   nothing is on that side of it. *)
LEMMA EdgeIs ==
  ASSUME node \in Memory, NEW D, Sorted(node, heap, D), NEW r \in heap, D[r] = heap,
         NEW x \in heap, NEW s \in Sides
  PROVE  /\ Edge(node, x, s) \in D[x] /\ node[Edge(node, x, s)][s] = Forge
         /\ \A y \in D[x] : y # Edge(node, x, s) =>
                              Before(s, node[Edge(node, x, s)].key, node[y].key)
<1> DEFINE Stop == {y \in heap : node[y][s] = Forge}
           Way == [y \in heap |-> s]
<1>1. PICK f : Ends(f, node, heap, Stop, Way)
  <2>1. Leads(node, heap, Stop, Way)
    BY SidesOf DEF Leads
  <2> HIDE DEF Stop, Way
  <2> QED
    BY <2>1, DownExists
<1>2. Edges(f, s)
  <2>1. \A y \in heap : f[y] = IF isforge(node[y][s]) THEN y ELSE f[node[y][s]]
    BY <1>1 DEF isforge, Ends, EndOf
  <2>2. f \in [heap -> heap]
    BY <1>1 DEF Ends
  <2> QED
    BY <2>1, <2>2 DEF Edges
<1> DEFINE g == CHOOSE h : Edges(h, s)
<1>3. Edges(g, s)
  BY <1>2, Zenon
<1>4. Edge(node, x, s) = g[x]
  BY DEF Edge, Edges
<1> HIDE DEF g
<1>5. \A y \in heap : g[y] = IF node[y][s] = Forge THEN y ELSE g[node[y][s]]
  BY <1>3 DEF Edges, isforge
<1> DEFINE Last(z) == /\ g[z] \in D[z] /\ node[g[z]][s] = Forge
                      /\ \A y \in D[z] : y # g[z] => Before(s, node[g[z]].key, node[y].key)
           P == {z \in heap \cup {Forge} : z # Forge => Last(z)}
<1>6. ASSUME NEW z \in heap, \A t \in Sides : node[z][t] \in P
      PROVE  Last(z)
  <2> DEFINE y == node[z][s]
             v == node[z][Other(s)]
  <2>1. /\ z \in D[z] /\ y \in heap \cup {Forge} /\ y \in P /\ node[z].key \in Int
        /\ D[z] = {z} \cup D[y] \cup D[v]
        /\ \A w \in D[y] : node[w].key \in Int /\ Before(s, node[w].key, node[z].key)
    BY <1>6, SidesOf
  <2>2. \A w \in D[v] : node[w].key \in Int /\ Before(Other(s), node[w].key, node[z].key)
    BY <2>1, SidesOf
  <2>3. \A i, j \in Int : Before(Other(s), i, j) <=> Before(s, j, i)
    BY DEF Before, Other, Sides
  <2>4. CASE y = Forge
    <3>1. g[z] = z /\ D[y] = {}
      BY <1>5, <2>4, Zenon DEF Sorted
    <3> QED
      BY <2>1, <2>2, <2>3, <2>4, <3>1
  <2>5. CASE y # Forge
    <3>1. g[z] = g[y] /\ Last(y)
      BY <1>5, <2>1, <2>5
    <3>2. \A i, j, k \in Int : Before(s, i, j) /\ Before(s, j, k) => Before(s, i, k)
      BY DEF Before, Sides
    <3>3. node[g[y]].key \in Int /\ Before(s, node[g[y]].key, node[z].key) /\ g[y] \in D[z]
      BY <2>1, <3>1, Zenon
    <3>4. ASSUME NEW w \in D[z], w # g[y] PROVE Before(s, node[g[y]].key, node[w].key)
      <4>1. CASE w \in D[y]
        BY <3>1, <3>4, <4>1, Zenon
      <4>2. CASE w = z
        BY <3>3, <4>2, Zenon
      <4>3. CASE w \in D[v]
        <5>1. node[w].key \in Int /\ Before(s, node[z].key, node[w].key)
          BY <2>1, <2>2, <2>3, <4>3
        <5> QED
          BY <2>1, <3>2, <3>3, <5>1, Zenon
      <4> QED
        BY <2>1, <4>1, <4>2, <4>3
    <3> QED
      BY <3>1, <3>3, <3>4, Zenon
  <2> QED
    BY <2>4, <2>5, Zenon
<1> HIDE DEF Last
<1>7. x \in P /\ x # Forge
  <2>1. Forge \in P /\ \A z \in heap : (\A t \in Sides : node[z][t] \in P) => z \in P
    BY <1>6
  <2> HIDE DEF P
  <2>2. heap \subseteq P
    BY <2>1, FromLeaves, Zenon
  <2> QED
    BY <2>2, RBAssumption DEF Sorted
<1> QED
  BY <1>4, <1>7 DEF Last

-----------------------------------------------------------------------------
(* Induction up to a bound. *)
LEMMA UpTo ==
  ASSUME NEW n \in Nat, NEW P, 0 \in P, \A m \in 0 .. n - 1 : m \in P => m + 1 \in P
  PROVE  \A m \in 0 .. n : m \in P
<1> SUFFICES ASSUME (0 .. n) \ P # {} PROVE FALSE
  OBVIOUS
<1> DEFINE C == (0 .. n) \ P
<1>1. C \subseteq Nat /\ C # {}
  OBVIOUS
<1>2. PICK m \in C : \A i \in C : m <= i
  <2> HIDE DEF C
  <2> QED
    BY <1>1, LeastOf
<1>3. m # 0 /\ m - 1 \in 0 .. n - 1 /\ m - 1 \notin C
  BY <1>2
<1>4. m - 1 \in P /\ (m - 1) + 1 = m
  BY <1>3
<1> QED
  BY <1>2, <1>3, <1>4

\* A step of the recursive function in Below(N, x): what it is for one level more.
Deeper(N, h, n) ==
  [y \in Nodes \cup {Forge, NULL} |->
     IF y \notin Nodes \/ n = 0 THEN {} ELSE {y} \cup h[N[y].lc] \cup h[N[y].rc]]
Subs(f, N, C) == f = [n \in 0 .. C |-> Deeper(N, f[n - 1], n)]

(* There is such a function. *)
LEMMA SubsExist ==
  ASSUME NEW N \in Memory, NEW C \in Nat
  PROVE  \E f : Subs(f, N, C)
<1> DEFINE P == {m \in 0 .. C : \E f : Subs(f, N, m)}
<1>1. 0 \in P
  <2> DEFINE none == [y \in Nodes \cup {Forge, NULL} |-> {}]
             f == [n \in 0 .. 0 |-> none]
  <2>1. \A h : Deeper(N, h, 0) = none
    BY DEF Deeper
  <2> HIDE DEF none
  <2>2. \A n \in 0 .. 0 : f[n] = Deeper(N, f[n - 1], n)
    BY <2>1
  <2>3. Subs(f, N, 0)
    BY <2>2, Zenon DEF Subs
  <2> QED
    BY <2>3
<1>2. ASSUME NEW m \in 0 .. C - 1, m \in P PROVE m + 1 \in P
  <2>1. PICK f : Subs(f, N, m)
    BY <1>2
  <2> DEFINE g == [n \in 0 .. m + 1 |-> IF n = m + 1 THEN Deeper(N, f[m], n) ELSE f[n]]
  <2>2. \A n \in 0 .. m : f[n] = Deeper(N, f[n - 1], n)
    BY <2>1 DEF Subs
  <2>3. ASSUME NEW n \in 0 .. m + 1 PROVE g[n] = Deeper(N, g[n - 1], n)
    <3>1. CASE n = 0
      <4>1. g[0] = Deeper(N, f[0 - 1], 0)
        BY <2>2
      <4>2. Deeper(N, f[0 - 1], 0) = Deeper(N, g[0 - 1], 0)
        BY DEF Deeper
      <4> QED
        BY <3>1, <4>1, <4>2
    <3>2. CASE n \in 1 .. m
      <4>1. g[n] = f[n] /\ g[n - 1] = f[n - 1] /\ n \in 0 .. m
        BY <3>2
      <4> HIDE DEF g
      <4> QED
        BY <2>2, <4>1
    <3>3. CASE n = m + 1
      <4>1. g[m + 1] = Deeper(N, f[m], m + 1) /\ g[(m + 1) - 1] = f[m]
        OBVIOUS
      <4> HIDE DEF g
      <4> QED
        BY <3>3, <4>1
    <3> QED
      BY <3>1, <3>2, <3>3
  <2>4. g = [n \in 0 .. m + 1 |-> g[n]]
    OBVIOUS
  <2> HIDE DEF g
  <2>5. Subs(g, N, m + 1)
    BY <2>3, <2>4 DEF Subs
  <2> QED
    BY <2>5
<1> HIDE DEF P
<1>3. \A m \in 0 .. C : m \in P
  BY <1>1, <1>2, UpTo
<1>4. C \in P
  BY <1>3
<1> QED
  BY <1>4 DEF P

(* Below gives what is below a node, and itself. *)
LEMMA BelowIs ==
  ASSUME NEW N \in Memory, NEW S, NEW D, Sorted(N, S, D), NEW x \in S \cup {Forge}
  PROVE  Below(N, x) = D[x]
<1> DEFINE C == Cardinality(Nodes)
           f == CHOOSE h : Subs(h, N, C)
<1>1. C \in Nat
  BY FS_CardinalityType, RBAssumption
<1>2. Subs(f, N, C)
  <2> HIDE DEF C
  <2> QED
    BY <1>1, SubsExist, Zenon
<1>3. Below(N, x) = f[C][x]
  BY DEF Below, Subs, Deeper
<1> HIDE DEF f
<1>4. \A n \in 0 .. C : \A y \in Nodes \cup {Forge, NULL} :
        /\ y \notin Nodes \/ n = 0 => f[n][y] = {}
        /\ y \in Nodes /\ n # 0 =>
             f[n][y] = {y} \cup f[n - 1][N[y].lc] \cup f[n - 1][N[y].rc]
  <2> HIDE DEF C
  <2>1. \A n \in 0 .. C : f[n] = Deeper(N, f[n - 1], n)
    BY <1>2 DEF Subs
  <2> SUFFICES ASSUME NEW n \in 0 .. C, NEW y \in Nodes \cup {Forge, NULL}
               PROVE  /\ y \notin Nodes \/ n = 0 => f[n][y] = {}
                      /\ y \in Nodes /\ n # 0 =>
                           f[n][y] = {y} \cup f[n - 1][N[y].lc] \cup f[n - 1][N[y].rc]
    OBVIOUS
  <2>2. f[n][y] = Deeper(N, f[n - 1], n)[y]
    BY <2>1
  <2> QED
    BY <2>2 DEF Deeper
<1>5. /\ \A y \in S : /\ y \in Nodes /\ N[y].lc \in S \cup {Forge} /\ N[y].rc \in S \cup {Forge}
                      /\ D[y] = {y} \cup D[N[y].lc] \cup D[N[y].rc]
      /\ D[Forge] = {} /\ Cardinality(D[Forge]) = 0 /\ Forge \notin Nodes
  BY FS_EmptySet, RBAssumption DEF Sorted
<1>6. \A y \in S : /\ Cardinality(D[y]) \in Nat
                   /\ Cardinality(D[N[y].lc]) \in Nat /\ Cardinality(D[N[y].lc]) < Cardinality(D[y])
                   /\ Cardinality(D[N[y].rc]) \in Nat /\ Cardinality(D[N[y].rc]) < Cardinality(D[y])
  BY Smaller DEF Sides
<1> HIDE DEF C
<1> DEFINE P == {n \in 0 .. C : \A y \in S \cup {Forge} : Cardinality(D[y]) <= n => f[n][y] = D[y]}
<1>7. 0 \in P
  <2>1. \A y \in S : ~(Cardinality(D[y]) <= 0)
    BY <1>6
  <2>2. f[0][Forge] = {}
    BY <1>1, <1>4
  <2>3. \A y \in S \cup {Forge} : Cardinality(D[y]) <= 0 => f[0][y] = D[y]
    BY <1>5, <2>1, <2>2
  <2> QED
    BY <1>1, <2>3
<1>8. ASSUME NEW m \in 0 .. C - 1, m \in P PROVE m + 1 \in P
  <2>1. m + 1 \in 0 .. C /\ m + 1 # 0 /\ (m + 1) - 1 = m
    BY <1>1
  <2>2. ASSUME NEW y \in S \cup {Forge}, Cardinality(D[y]) <= m + 1
        PROVE  f[m + 1][y] = D[y]
    <3>1. CASE y = Forge
      BY <1>4, <1>5, <2>1, <3>1
    <3>2. CASE y \in S
      <4>1. Cardinality(D[N[y].lc]) <= m /\ Cardinality(D[N[y].rc]) <= m
        BY <1>6, <2>2, <3>2
      <4>2. f[m][N[y].lc] = D[N[y].lc] /\ f[m][N[y].rc] = D[N[y].rc]
        BY <1>5, <1>8, <3>2, <4>1
      <4>3. f[m + 1][y] = {y} \cup f[m][N[y].lc] \cup f[m][N[y].rc]
        BY <1>4, <1>5, <2>1, <3>2
      <4> QED
        BY <1>5, <3>2, <4>2, <4>3
    <3> QED
      BY <3>1, <3>2
  <2> QED
    BY <2>1, <2>2
<1> HIDE DEF P
<1>9. C \in P
  <2>1. \A m \in 0 .. C : m \in P
    BY <1>1, <1>7, <1>8, UpTo
  <2> QED
    BY <1>1, <2>1
<1>10. Cardinality(D[x]) <= C
  <2>1. IsFiniteSet(Nodes) /\ D[x] \subseteq Nodes
    BY RBAssumption DEF Sorted
  <2> QED
    BY <2>1, FS_Subset DEF C
<1> QED
  BY <1>3, <1>9, <1>10 DEF P

-----------------------------------------------------------------------------
(* l_rotate and r_rotate: the links that a rotation writes, and the tree that it leaves. *)

Trees == [first : Nodes \cup {NULL}, n : Memory, ok : BOOLEAN]

\* In the nodes K the memory R is N but for the colours.
Alike(N, R, K) ==
  /\ R \in Memory
  /\ \A y \in K : /\ R[y].key = N[y].key /\ R[y].val = N[y].val /\ R[y].father = N[y].father
                  /\ R[y].lc = N[y].lc /\ R[y].rc = N[y].rc
                  /\ \A t \in Sides : R[y][t] = N[y][t]
\* There x is painted in c.
Painted(N, R, K, x, c) ==
  Alike(N, R, K) /\ \A y \in K : R[y].color = IF y = x THEN c ELSE N[y].color

(* Painting a node changes nothing but its colour. *)
LEMMA PaintIs ==
  ASSUME NEW T \in Trees, NEW x \in Nodes \cup {Forge}, NEW c \in {RED, BLACK}
  PROVE  /\ Paint(T, x, c) \in Trees
         /\ Paint(T, x, c).first = T.first /\ Paint(T, x, c).ok = T.ok
         /\ Painted(T.n, Paint(T, x, c).n, Nodes \cup {Forge}, x, c)
<1>1. T.n \in Memory /\ T.n[x] \in NodeRec
  BY DEF Trees, Memory, NodeRec
<1> DEFINE Mem == [T.n EXCEPT ![x] = [T.n[x] EXCEPT !.color = c]]
<1>2. Paint(T, x, c) = [T EXCEPT !.n = Mem]
  BY <1>1 DEF Paint, Trees, Memory, NodeRec
<1>3. Mem \in Memory /\ Mem[x] = [T.n[x] EXCEPT !.color = c]
      /\ \A y \in Nodes \cup {Forge} : y # x => Mem[y] = T.n[y]
  BY <1>1 DEF Memory, NodeRec
<1> HIDE DEF Mem
<1>4. ASSUME NEW y \in Nodes \cup {Forge}
      PROVE  /\ Mem[y].key = T.n[y].key /\ Mem[y].val = T.n[y].val /\ Mem[y].father = T.n[y].father
             /\ Mem[y].lc = T.n[y].lc /\ Mem[y].rc = T.n[y].rc
             /\ \A t \in Sides : Mem[y][t] = T.n[y][t]
             /\ Mem[y].color = IF y = x THEN c ELSE T.n[y].color
  <2>1. CASE y = x
    BY <1>1, <1>3, <2>1 DEF NodeRec, Sides
  <2>2. CASE y # x
    BY <1>3, <2>2
  <2> QED
    BY <2>1, <2>2
<1>5. Painted(T.n, Mem, Nodes \cup {Forge}, x, c)
  BY <1>3, <1>4 DEF Painted, Alike
<1> QED
  BY <1>2, <1>3, <1>5 DEF Trees

(* A node is written. *)
LEMMA PutIs ==
  ASSUME NEW N \in Memory, NEW x \in Nodes \cup {Forge}, NEW r \in NodeRec
  PROVE  /\ [N EXCEPT ![x] = r] \in Memory /\ [N EXCEPT ![x] = r][x] = r
         /\ \A y \in Nodes \cup {Forge} : y # x => [N EXCEPT ![x] = r][y] = N[y]
BY DEF Memory

(* A link is written. *)
LEMMA LinkIs ==
  ASSUME NEW r \in NodeRec, NEW s \in Sides, NEW y \in Nodes \cup {Forge}
  PROVE  /\ [r EXCEPT ![s] = y] \in NodeRec
         /\ [r EXCEPT ![s] = y][s] = y /\ [r EXCEPT ![s] = y][Other(s)] = r[Other(s)]
         /\ [r EXCEPT ![s] = y].key = r.key /\ [r EXCEPT ![s] = y].val = r.val
         /\ [r EXCEPT ![s] = y].color = r.color /\ [r EXCEPT ![s] = y].father = r.father
<1>1. CASE s = "lc"
  BY <1>1 DEF NodeRec, Sides, Other
<1>2. CASE s = "rc"
  BY <1>2 DEF NodeRec, Sides, Other
<1> QED
  BY <1>1, <1>2 DEF Sides

(* A father link is written. *)
LEMMA FatherIs ==
  ASSUME NEW r \in NodeRec, NEW f \in Nodes \cup {NULL}
  PROVE  /\ [r EXCEPT !.father = f] \in NodeRec
         /\ [r EXCEPT !.father = f].key = r.key /\ [r EXCEPT !.father = f].val = r.val
         /\ [r EXCEPT !.father = f].color = r.color /\ [r EXCEPT !.father = f].father = f
         /\ [r EXCEPT !.father = f].lc = r.lc /\ [r EXCEPT !.father = f].rc = r.rc
         /\ \A t \in Sides : [r EXCEPT !.father = f][t] = r[t]
BY DEF NodeRec, Sides

\* The memory R is what a rotation of x to the side s makes of N: p comes up, c changes
\* sides and f is the father.
Rotated(N, R, x, s, p, c, f) ==
  /\ R \in Memory
  /\ \A y \in Nodes \cup {Forge} :
       /\ R[y].key = N[y].key /\ R[y].val = N[y].val /\ R[y].color = N[y].color
       /\ y \notin {x, p, c, f} => R[y] = N[y]
  /\ R[x][s] = N[x][s] /\ R[x][Other(s)] = c /\ R[x].father = p
  /\ R[p][s] = x /\ R[p][Other(s)] = N[p][Other(s)] /\ R[p].father = f
  /\ R[c].father = x /\ R[c].lc = N[c].lc /\ R[c].rc = N[c].rc
  /\ f # NULL => /\ R[f].father = N[f].father
                 /\ \E t \in Sides : /\ N[f][t] = x /\ R[f][t] = p
                                     /\ R[f][Other(t)] = N[f][Other(t)]

\* The nodes that a rotation of x to the side s finds.
Rotatable(T, x, s, p, c, f) ==
  /\ T \in Trees /\ x \in Nodes /\ s \in Sides /\ p \in Nodes /\ c \in Nodes \cup {Forge}
  /\ p = T.n[x][Other(s)] /\ c = T.n[p][s] /\ f = T.n[x].father
  /\ x # p /\ c # x /\ c # p /\ f # x /\ f # p /\ c # f
  /\ f = NULL => T.first = x
  /\ f # NULL => x \in {T.n[f].lc, T.n[f].rc}

(* l_rotate and r_rotate write these links and no others. *)
LEMMA RotatableIs ==
  ASSUME NEW T, NEW x, NEW s, NEW p, NEW c, NEW f, Rotatable(T, x, s, p, c, f)
  PROVE  /\ Rotate(T, x, s) \in Trees /\ Rotate(T, x, s).ok = T.ok
         /\ Rotate(T, x, s).first = IF f = NULL THEN p ELSE T.first
         /\ Rotated(T.n, Rotate(T, x, s).n, x, s, p, c, f)
<1> DEFINE o == Other(s)
           N == T.n
<1>a. /\ T \in Trees /\ x \in Nodes /\ s \in Sides /\ p \in Nodes /\ c \in Nodes \cup {Forge}
      /\ x # p /\ c # x /\ c # p /\ f # x /\ f # p /\ c # f
  BY DEF Rotatable
<1>b. p = T.n[x][o] /\ c = T.n[p][s] /\ f = T.n[x].father
  BY DEF Rotatable
<1>d. /\ f = NULL => T.first = x
      /\ f # NULL => x \in {T.n[f].lc, T.n[f].rc}
  BY DEF Rotatable
<1>1. /\ N \in Memory /\ o \in Sides /\ o # s /\ f \in Nodes \cup {NULL}
      /\ NULL \notin Nodes /\ Forge \notin Nodes /\ Forge # NULL
  BY <1>a, <1>b, RBAssumption, Zenon DEF Trees, Memory, NodeRec, Sides, Other
<1>2. Assert(T, s = "rc" => HangsRight(T, x)) = T
  <2>1. HangsRight(T, x)
    BY <1>b, <1>d, Zenon DEF HangsRight
  <2> QED
    BY <1>a, <2>1 DEF Assert, Trees
<1> DEFINE R1 == Replace(T, f, x, p)
<1>3. /\ R1 \in Trees /\ R1.ok = T.ok /\ R1.first = IF f = NULL THEN p ELSE T.first
      /\ \A y \in Nodes \cup {Forge} : y # f => R1.n[y] = N[y]
      /\ f # NULL => /\ R1.n[f].key = N[f].key /\ R1.n[f].val = N[f].val
                     /\ R1.n[f].color = N[f].color /\ R1.n[f].father = N[f].father
                     /\ \E t \in Sides : /\ N[f][t] = x /\ R1.n[f][t] = p
                                         /\ R1.n[f][Other(t)] = N[f][Other(t)]
  <2>1. CASE f = NULL
    BY <1>a, <1>d, <1>1, <2>1 DEF Replace, Trees
  <2>2. CASE f # NULL /\ N[f].lc = x
    <3> DEFINE Mem == [N EXCEPT ![f] = [N[f] EXCEPT !.lc = p]]
    <3>1. R1 = [T EXCEPT !.n = Mem]
      BY <1>1, <2>2, Zenon DEF Replace, Trees, Memory, NodeRec
    <3>2. /\ Mem \in Memory /\ \A y \in Nodes \cup {Forge} : y # f => Mem[y] = N[y]
          /\ Mem[f] = [N[f] EXCEPT !.lc = p]
      BY <1>a, <1>1, <2>2 DEF Memory, NodeRec
    <3>3. /\ Mem[f].key = N[f].key /\ Mem[f].val = N[f].val /\ Mem[f].rc = N[f].rc
          /\ Mem[f].color = N[f].color /\ Mem[f].father = N[f].father /\ Mem[f].lc = p
      <4>1. N[f] \in NodeRec
        BY <1>1, <2>2, Zenon DEF Memory
      <4> HIDE DEF Mem
      <4> QED
        BY <3>2, <4>1 DEF NodeRec
    <3> HIDE DEF Mem
    <3>4. R1.n = Mem /\ R1 \in Trees /\ R1.ok = T.ok /\ R1.first = T.first
      BY <1>a, <3>1, <3>2, Zenon DEF Trees
    <3>5. /\ N[f]["lc"] = x /\ R1.n[f]["lc"] = p
          /\ R1.n[f][Other("lc")] = N[f][Other("lc")] /\ "lc" \in Sides
      BY <2>2, <3>3, <3>4 DEF Other, Sides
    <3> HIDE DEF R1
    <3> QED
      BY <2>2, <3>2, <3>3, <3>4, <3>5, Zenon
  <2>3. CASE f # NULL /\ N[f].lc # x
    <3> DEFINE Mem == [N EXCEPT ![f] = [N[f] EXCEPT !.rc = p]]
    <3>1. R1 = [T EXCEPT !.n = Mem]
      BY <1>1, <2>3, Zenon DEF Replace, Trees, Memory, NodeRec
    <3>2. /\ Mem \in Memory /\ \A y \in Nodes \cup {Forge} : y # f => Mem[y] = N[y]
          /\ Mem[f] = [N[f] EXCEPT !.rc = p]
      BY <1>a, <1>1, <2>3 DEF Memory, NodeRec
    <3>3. /\ Mem[f].key = N[f].key /\ Mem[f].val = N[f].val /\ Mem[f].rc = p
          /\ Mem[f].color = N[f].color /\ Mem[f].father = N[f].father /\ Mem[f].lc = N[f].lc
      <4>1. N[f] \in NodeRec
        BY <1>1, <2>3, Zenon DEF Memory
      <4> HIDE DEF Mem
      <4> QED
        BY <3>2, <4>1 DEF NodeRec
    <3> HIDE DEF Mem
    <3>4. R1.n = Mem /\ R1 \in Trees /\ R1.ok = T.ok /\ R1.first = T.first
      BY <1>a, <3>1, <3>2, Zenon DEF Trees
    <3>5. /\ N[f]["rc"] = x /\ R1.n[f]["rc"] = p
          /\ R1.n[f][Other("rc")] = N[f][Other("rc")] /\ "rc" \in Sides
      BY <1>a, <1>b, <1>d, <2>3, <3>3, <3>4, Zenon DEF Other, Sides
    <3> HIDE DEF R1
    <3> QED
      BY <2>3, <3>2, <3>3, <3>4, <3>5, Zenon
  <2> QED
    BY <2>1, <2>2, <2>3, Zenon
<1> DEFINE R == Rotate(T, x, s)
<1>4. R = [R1 EXCEPT !.n[x][o] = T.n[p][s], !.n[T.n[p][s]].father = x,
                     !.n[p].father = T.n[x].father, !.n[x].father = p, !.n[p][s] = x]
  <2>1. R1 = Replace(Assert(T, s = "rc" => HangsRight(T, x)), T.n[x].father, x, T.n[x][o])
    BY <1>b, <1>2, Zenon
  <2> HIDE DEF R1
  <2> QED
    BY <1>b, <2>1, Zenon DEF Rotate
<1> HIDE DEF R1, R
<1> DEFINE rx1 == [N[x] EXCEPT ![o] = c]
           rx == [rx1 EXCEPT !.father = p]
           ch == [N[c] EXCEPT !.father = x]
           rp1 == [N[p] EXCEPT !.father = f]
           rp == [rp1 EXCEPT ![s] = x]
           M1 == [R1.n EXCEPT ![x] = rx1]
           M2 == [M1 EXCEPT ![c] = ch]
           M3 == [M2 EXCEPT ![p] = rp1]
           M4 == [M3 EXCEPT ![x] = rx]
           M5 == [M4 EXCEPT ![p] = rp]
<1>5. /\ R1.n \in Memory /\ R1.n[x] = N[x] /\ R1.n[p] = N[p] /\ R1.n[c] = N[c]
      /\ N[x] \in NodeRec /\ N[p] \in NodeRec /\ N[c] \in NodeRec
  BY <1>a, <1>1, <1>3 DEF Trees, Memory
<1> HIDE DEF N
<1>6. rx1 \in NodeRec /\ rx \in NodeRec /\ ch \in NodeRec /\ rp1 \in NodeRec /\ rp \in NodeRec
  <2>1. rx1 \in NodeRec /\ ch \in NodeRec /\ rp1 \in NodeRec
    BY <1>a, <1>1, <1>5, LinkIs, FatherIs, ZenonT(30)
  <2> HIDE DEF rx1, ch, rp1
  <2> QED
    BY <1>a, <1>1, <2>1, LinkIs, FatherIs
<1>7. /\ rx.key = N[x].key /\ rx.val = N[x].val /\ rx.color = N[x].color
      /\ rx[s] = N[x][s] /\ rx[o] = c /\ rx.father = p
      /\ ch.key = N[c].key /\ ch.val = N[c].val /\ ch.color = N[c].color
      /\ ch.lc = N[c].lc /\ ch.rc = N[c].rc /\ ch.father = x
      /\ rp.key = N[p].key /\ rp.val = N[p].val /\ rp.color = N[p].color
      /\ rp[s] = x /\ rp[o] = N[p][o] /\ rp.father = f
  <2>1. /\ rx1.key = N[x].key /\ rx1.val = N[x].val /\ rx1.color = N[x].color
        /\ rx1[s] = N[x][s] /\ rx1[o] = c
    <3>1. CASE s = "lc" /\ o = "rc"
      BY <1>5, <3>1, Zenon DEF NodeRec
    <3>2. CASE s = "rc" /\ o = "lc"
      BY <1>5, <3>2, Zenon DEF NodeRec
    <3> QED
      BY <1>a, <3>1, <3>2, Zenon DEF Sides, Other
  <2>2. /\ ch.key = N[c].key /\ ch.val = N[c].val /\ ch.color = N[c].color
        /\ ch.lc = N[c].lc /\ ch.rc = N[c].rc /\ ch.father = x
    BY <1>1, <1>5, FatherIs
  <2>3. /\ rp1.key = N[p].key /\ rp1.val = N[p].val /\ rp1.color = N[p].color
        /\ rp1[o] = N[p][o] /\ rp1.father = f
    BY <1>1, <1>5, FatherIs
  <2> HIDE DEF rx1, ch, rp1
  <2>4. /\ rx.key = rx1.key /\ rx.val = rx1.val /\ rx.color = rx1.color
        /\ rx[s] = rx1[s] /\ rx[o] = rx1[o] /\ rx.father = p
    BY <1>a, <1>1, <1>6, FatherIs
  <2>5. /\ rp.key = rp1.key /\ rp.val = rp1.val /\ rp.color = rp1.color
        /\ rp[s] = x /\ rp[o] = rp1[o] /\ rp.father = rp1.father
    BY <1>a, <1>1, <1>6, LinkIs
  <2> QED
    BY <2>1, <2>2, <2>3, <2>4, <2>5
<1>8. /\ R = [R1 EXCEPT !.n = M5] /\ M5 \in Memory
      /\ M5[x] = rx /\ M5[c] = ch /\ M5[p] = rp
      /\ \A y \in Nodes \cup {Forge} : y \notin {x, c, p} => M5[y] = R1.n[y]
  <2> HIDE DEF rx1, rx, ch, rp1, rp
  <2>1. /\ M1 \in Memory /\ M1[x] = rx1
        /\ \A y \in Nodes \cup {Forge} : y # x => M1[y] = R1.n[y]
    BY <1>a, <1>5, <1>6, PutIs
  <2> HIDE DEF M1
  <2>2. /\ M2 \in Memory /\ M2[x] = rx1 /\ M2[c] = ch
        /\ \A y \in Nodes \cup {Forge} : y \notin {x, c} => M2[y] = R1.n[y]
    BY <1>a, <1>6, <2>1, PutIs
  <2> HIDE DEF M2
  <2>3. /\ M3 \in Memory /\ M3[x] = rx1 /\ M3[c] = ch /\ M3[p] = rp1
        /\ \A y \in Nodes \cup {Forge} : y \notin {x, c, p} => M3[y] = R1.n[y]
    BY <1>a, <1>6, <2>2, PutIs
  <2> HIDE DEF M3
  <2>4. /\ M4 \in Memory /\ M4[x] = rx /\ M4[c] = ch /\ M4[p] = rp1
        /\ \A y \in Nodes \cup {Forge} : y \notin {x, c, p} => M4[y] = R1.n[y]
    BY <1>a, <1>6, <2>3, PutIs
  <2> HIDE DEF M4
  <2>5. /\ M5 \in Memory /\ M5[x] = rx /\ M5[c] = ch /\ M5[p] = rp
        /\ \A y \in Nodes \cup {Forge} : y \notin {x, c, p} => M5[y] = R1.n[y]
    BY <1>a, <1>6, <2>4, PutIs
  <2>6. R = [R1 EXCEPT !.n = M5]
    <3>1. R1 \in Trees /\ R1.n \in Memory
      BY <1>3 DEF Trees
    <3>2. R = [R1 EXCEPT !.n[x][o] = c, !.n[c].father = x, !.n[p].father = f,
                         !.n[x].father = p, !.n[p][s] = x]
      BY <1>b, <1>4, Zenon DEF N
    <3>3. M5 = [R1.n EXCEPT ![x][o] = c, ![c].father = x, ![p].father = f,
                            ![x].father = p, ![p][s] = x]
      BY <1>a, <1>1, <1>5, <3>1, ZenonT(30) DEF M1, M2, M3, M4, rx, rx1, ch, rp, rp1, Memory
    <3> HIDE DEF M5
    <3> QED
      BY <1>a, <3>1, <3>2, <3>3, ZenonT(30) DEF Trees, Memory, NodeRec
  <2> QED
    BY <2>5, <2>6, Zenon
<1> HIDE DEF M5, rx, ch, rp, o
<1>9. R \in Trees /\ R.n = M5 /\ R.ok = T.ok /\ R.first = IF f = NULL THEN p ELSE T.first
  BY <1>3, <1>8, Zenon DEF Trees
<1>10. \A y \in Nodes \cup {Forge} :
         /\ M5[y].key = N[y].key /\ M5[y].val = N[y].val /\ M5[y].color = N[y].color
         /\ y \notin {x, p, c, f} => M5[y] = N[y]
  <2> SUFFICES ASSUME NEW y \in Nodes \cup {Forge}
               PROVE  /\ M5[y].key = N[y].key /\ M5[y].val = N[y].val /\ M5[y].color = N[y].color
                      /\ y \notin {x, p, c, f} => M5[y] = N[y]
    OBVIOUS
  <2>1. CASE y \in {x, p, c}
    BY <1>7, <1>8, <2>1, Zenon
  <2>2. CASE y \notin {x, p, c}
    <3>1. M5[y] = R1.n[y]
      BY <1>8, <2>2, Zenon
    <3>2. CASE y = f
      BY <1>1, <1>3, <3>1, <3>2, Zenon
    <3>3. CASE y # f
      BY <1>3, <3>1, <3>3, Zenon
    <3> QED
      BY <3>2, <3>3, Zenon
  <2> QED
    BY <2>1, <2>2, Zenon
<1>11. f # NULL => /\ M5[f].father = N[f].father
                   /\ \E t \in Sides : /\ N[f][t] = x /\ M5[f][t] = p
                                       /\ M5[f][Other(t)] = N[f][Other(t)]
  <2>1. f # NULL => M5[f] = R1.n[f]
    BY <1>a, <1>1, <1>8
  <2> QED
    BY <1>3, <2>1
<1>13. Rotated(N, M5, x, s, p, c, f)
  BY <1>7, <1>8, <1>10, <1>11, Zenon DEF Rotated, o
<1> QED
  BY <1>9, <1>13, Zenon DEF R, N

(* The same, of the nodes by their links. *)
LEMMA RotateIs ==
  ASSUME NEW T \in Trees, NEW x \in Nodes, NEW s \in Sides,
         NEW p, p = T.n[x][Other(s)], p \in Nodes, NEW c, c = T.n[p][s], c \in Nodes \cup {Forge},
         NEW f, f = T.n[x].father, x # p, c # x, c # p, f # x, f # p, c # f,
         f = NULL => T.first = x, f # NULL => x \in {T.n[f].lc, T.n[f].rc}
  PROVE  /\ Rotate(T, x, s) \in Trees /\ Rotate(T, x, s).ok = T.ok
         /\ Rotate(T, x, s).first = IF f = NULL THEN p ELSE T.first
         /\ Rotated(T.n, Rotate(T, x, s).n, x, s, p, c, f)
BY RotatableIs DEF Rotatable

-----------------------------------------------------------------------------
\* A tree from r on, of the nodes S.
IsTree(N, r, S, D) == Sorted(N, S, D) /\ Linked(N, r, S) /\ D[r] = S

\* The same, seen from either side.
BySides(N, r, S, D) ==
  /\ S \in SUBSET Nodes /\ D \in [S \cup {Forge} -> SUBSET S] /\ D[Forge] = {}
  /\ r \in S /\ N[r].father = NULL /\ D[r] = S
  /\ \A x \in S : N[x].key \in Key /\ D[x] = {x} \cup D[N[x].lc] \cup D[N[x].rc]
  /\ \A x \in S, t \in Sides :
       /\ N[x][t] \in S \cup {Forge}
       /\ \A y \in D[N[x][t]] : Before(t, N[y].key, N[x].key)
       /\ N[x][t] \in S => N[N[x][t]].father = x
  /\ \A x \in S : x # r => N[x].father \in S /\ \E t \in Sides : N[N[x].father][t] = x

(* What makes a tree, seen from either side. *)
LEMMA TreeBySides ==
  ASSUME NEW N \in Memory, NEW r, NEW S, NEW D, BySides(N, r, S, D)
  PROVE  IsTree(N, r, S, D)
<1>0. /\ S \in SUBSET Nodes /\ D \in [S \cup {Forge} -> SUBSET S] /\ D[Forge] = {}
      /\ r \in S /\ N[r].father = NULL /\ D[r] = S
      /\ \A x \in S : N[x].key \in Key /\ D[x] = {x} \cup D[N[x].lc] \cup D[N[x].rc]
      /\ \A x \in S, t \in Sides :
           /\ N[x][t] \in S \cup {Forge}
           /\ \A y \in D[N[x][t]] : Before(t, N[y].key, N[x].key)
           /\ N[x][t] \in S => N[N[x][t]].father = x
      /\ \A x \in S : x # r => N[x].father \in S /\ \E t \in Sides : N[N[x].father][t] = x
  BY DEF BySides
<1>1. \A x \in S : N[x].lc = N[x]["lc"] /\ N[x].rc = N[x]["rc"]
  OBVIOUS
<1>2. \A y \in S : N[y].key \in Int
  BY <1>0, RBAssumption
<1>3. Sorted(N, S, D)
  BY <1>0, <1>1, <1>2 DEF Sorted, Sides, Before
<1>4. Linked(N, r, S)
  BY <1>0, <1>1 DEF Linked, Sides
<1> QED
  BY <1>0, <1>3, <1>4 DEF IsTree

(* The links of a tree, from either side. *)
LEMMA LinksOf ==
  ASSUME NEW N \in Memory, NEW r, NEW S, NEW D, IsTree(N, r, S, D), NEW x \in S
  PROVE  /\ \A t \in Sides : N[x][t] \in S => N[N[x][t]].father = x
         /\ x # r => N[x].father \in S /\ \E t \in Sides : N[N[x].father][t] = x
         /\ x = r <=> N[x].father = NULL
BY RBAssumption DEF IsTree, Linked, Sides, Sorted

(* In a tree the nodes that a rotation writes to are different ones. *)
LEMMA RotateReady ==
  ASSUME NEW N \in Memory, NEW r, NEW S, NEW D, IsTree(N, r, S, D), NEW x \in S, NEW s \in Sides,
         NEW p, p = N[x][Other(s)], p \in S, NEW c, c = N[p][s],
         NEW f, f = N[x].father
  PROVE  /\ c \in S \cup {Forge} /\ f \in S \cup {NULL} /\ x # p /\ c # x /\ c # p /\ f # x
         /\ f # p /\ c # f /\ (f = NULL => r = x) /\ (f # NULL => x \in {N[f].lc, N[f].rc})
         /\ N[x][s] # p /\ N[p][Other(s)] # x /\ N[p][Other(s)] # p /\ N[x][s] # x
<1>1. Sorted(N, S, D)
  BY DEF IsTree
<1>2. /\ x \in D[x] /\ p \in D[p] /\ D[p] \subseteq D[x] /\ x \notin D[p] /\ p # x
      /\ N[x][s] # x /\ Other(s) \in Sides
      /\ D[N[x][s]] \cap D[N[x][Other(s)]] = {}
  BY <1>1, SidesOf
<1>3. /\ c \in S \cup {Forge} /\ c # p /\ D[c] \subseteq D[p] /\ (c \in S => c \in D[c])
      /\ D[N[p][Other(s)]] \subseteq D[p] /\ N[p][Other(s)] # p
      /\ (N[p][Other(s)] \in S => N[p][Other(s)] \in D[N[p][Other(s)]])
  <2>1. N[p][Other(s)] \in S \cup {Forge} /\ c \in S \cup {Forge} /\ c # p /\ N[p][Other(s)] # p
        /\ D[c] \subseteq D[p] /\ D[N[p][Other(s)]] \subseteq D[p]
    BY <1>1, <1>2, SidesOf
  <2> QED
    BY <1>1, <2>1, SidesOf
<1>4. f \in S \cup {NULL} /\ (f = NULL => r = x)
      /\ (f # NULL => x \in {N[f].lc, N[f].rc} /\ \E t \in Sides : N[f][t] = x)
  BY LinksOf DEF IsTree, Linked
<1>5. ASSUME f # NULL PROVE x \in D[f] /\ f # x
  <2>1. f \in S
    BY <1>4, <1>5
  <2>2. PICK t \in Sides : N[f][t] = x
    BY <1>4, <1>5
  <2> QED
    BY <1>1, <1>2, <2>1, <2>2, SidesOf
<1>6. S \subseteq Nodes /\ NULL \notin Nodes /\ Forge \notin Nodes /\ Forge # NULL
  BY <1>1, RBAssumption, Zenon DEF Sorted
<1>7. c # x /\ N[p][Other(s)] # x /\ N[x][s] # p
  BY <1>2, <1>3
<1>8. f # p /\ c # f
  BY <1>2, <1>3, <1>4, <1>5, <1>6
<1> QED
  BY <1>2, <1>3, <1>4, <1>5, <1>6, <1>7, <1>8

\* What is below the nodes once x has gone down to the side s.
Turned(N, D, x, s, p, c) == [D EXCEPT ![x] = {x} \cup D[N[x][s]] \cup D[c], ![p] = D[x]]

\* A rotation of x, a node of the tree D, to the side s.
Turning(N, R, r, S, D, x, s, p, c, f) ==
  /\ N \in Memory /\ IsTree(N, r, S, D) /\ x \in S /\ s \in Sides /\ p \in S
  /\ p = N[x][Other(s)] /\ c = N[p][s] /\ f = N[x].father /\ Rotated(N, R, x, s, p, c, f)

(* A rotation of a tree gives a tree of the same nodes, in the same order. *)
LEMMA TurningTree ==
  ASSUME NEW N, NEW R, NEW r, NEW S, NEW D, NEW x, NEW s, NEW p, NEW c, NEW f,
         Turning(N, R, r, S, D, x, s, p, c, f)
  PROVE  IsTree(R, IF f = NULL THEN p ELSE r, S, Turned(N, D, x, s, p, c))
<1> DEFINE E == Turned(N, D, x, s, p, c)
           q == IF f = NULL THEN p ELSE r
           o == Other(s)
<1>a. N \in Memory /\ x \in S /\ s \in Sides /\ p \in S
  BY DEF Turning
<1>b. p = N[x][o] /\ c = N[p][s] /\ f = N[x].father
  BY DEF Turning
<1>d. IsTree(N, r, S, D) /\ Rotated(N, R, x, s, p, c, f)
  BY DEF Turning
<1>1. /\ Sorted(N, S, D) /\ D[r] = S /\ S \in SUBSET Nodes /\ D \in [S \cup {Forge} -> SUBSET S]
      /\ D[Forge] = {} /\ NULL \notin Nodes /\ Forge \notin Nodes /\ Forge # NULL
      /\ N[r].father = NULL /\ r \in S
  BY <1>a, <1>d, RBAssumption DEF IsTree, Sorted, Linked
<1>2. /\ c \in S \cup {Forge} /\ f \in S \cup {NULL} /\ x # p /\ c # x /\ c # p /\ f # x
      /\ f # p /\ c # f /\ (f = NULL => r = x) /\ (f # NULL => x \in {N[f].lc, N[f].rc})
      /\ N[x][s] # p /\ N[p][o] # x /\ N[p][o] # p /\ N[x][s] # x
  BY <1>a, <1>b, <1>d, RotateReady
<1>3. /\ o \in Sides /\ o # s /\ Other(o) = s /\ \A t \in Sides : t = s \/ t = o
  BY <1>a DEF Other, Sides
<1>4. /\ R \in Memory
      /\ \A y \in S : R[y].key = N[y].key /\ (y \notin {x, p, c, f} => R[y] = N[y])
      /\ R[x][s] = N[x][s] /\ R[x][o] = c /\ R[x].father = p
      /\ R[p][s] = x /\ R[p][o] = N[p][o] /\ R[p].father = f
      /\ R[c].father = x /\ \A t \in Sides : R[c][t] = N[c][t]
      /\ f # NULL => /\ R[f].father = N[f].father
                     /\ \E t \in Sides : /\ N[f][t] = x /\ R[f][t] = p
                                         /\ R[f][Other(t)] = N[f][Other(t)]
  BY <1>a, <1>d, <1>1, ZenonT(30) DEF Rotated, Sides
<1>5. /\ E \in [S \cup {Forge} -> SUBSET S] /\ E[Forge] = {}
      /\ E[x] = {x} \cup D[N[x][s]] \cup D[c] /\ E[p] = D[x]
      /\ \A y \in S \cup {Forge} : y # x /\ y # p => E[y] = D[y]
  <2>1. N[x][s] \in S \cup {Forge}
    BY <1>a, <1>1, SidesOf
  <2>2. {x} \cup D[N[x][s]] \cup D[c] \in SUBSET S /\ D[x] \in SUBSET S
    BY <1>a, <1>1, <1>2, <2>1, Zenon
  <2> QED
    BY <1>a, <1>1, <1>2, <2>2, Zenon DEF Turned
<1> HIDE DEF E, o
<1>6. /\ D[x] = {x} \cup D[N[x][s]] \cup D[p] /\ D[p] = {p} \cup D[c] \cup D[N[p][o]]
      /\ x \notin D[p] /\ x \notin D[N[x][s]]
  BY <1>a, <1>b, <1>1, SidesOf DEF o
<1>7. /\ \A y \in S : \A t \in Sides : N[y][t] \in S => N[N[y][t]].father = y
      /\ \A y \in S : y # r => N[y].father \in S /\ \E t \in Sides : N[N[y].father][t] = y
      /\ \A y \in S : y = r <=> N[y].father = NULL
  BY <1>a, <1>d, LinksOf
<1>8. \A y \in S, t \in Sides :
        /\ N[y][t] \in S \cup {Forge} /\ N[y].key \in Key
        /\ D[y] = {y} \cup D[N[y][t]] \cup D[N[y][Other(t)]]
        /\ \A z \in D[N[y][t]] : z \in S /\ Before(t, N[z].key, N[y].key)
  <2> SUFFICES ASSUME NEW y \in S, NEW t \in Sides
               PROVE  /\ N[y][t] \in S \cup {Forge} /\ N[y].key \in Key
                      /\ D[y] = {y} \cup D[N[y][t]] \cup D[N[y][Other(t)]]
                      /\ \A z \in D[N[y][t]] : z \in S /\ Before(t, N[z].key, N[y].key)
    OBVIOUS
  <2>1. N[y].key \in Key
    BY <1>1 DEF Sorted
  <2> QED
    BY <1>a, <1>1, <2>1, SidesOf
\* Only these three get another father.
<1>18. \A z \in S : z \notin {x, p, c} => R[z].father = N[z].father
  <2> SUFFICES ASSUME NEW z \in S, z \notin {x, p, c} PROVE R[z].father = N[z].father
    BY Zenon
  <2>1. CASE z = f
    BY <1>1, <1>4, <2>1, Zenon
  <2>2. CASE z # f
    BY <1>4, <2>2, Zenon
  <2> QED
    BY <2>1, <2>2
\* The children of a node other than x, p and f are the same, and so is what is below.
<1>9. ASSUME NEW y \in S, y \notin {x, p, f}, NEW t \in Sides
      PROVE  R[y][t] = N[y][t] /\ N[y][t] # x /\ N[y][t] # p /\ E[R[y][t]] = D[N[y][t]]
  <2>1. R[y][t] = N[y][t]
    BY <1>4, <1>9
  <2>2. N[y][t] # x /\ N[y][t] # p
    <3>1. N[x].father = f /\ N[p].father = x
      BY <1>a, <1>b, <1>3, <1>7 DEF o
    <3> QED
      BY <1>a, <1>7, <1>9, <3>1
  <2>3. N[y][t] \in S \cup {Forge}
    BY <1>8, Zenon
  <2> QED
    BY <1>5, <2>1, <2>2, <2>3
<1>10. ASSUME f # NULL
       PROVE  /\ f \in S /\ E[f] = D[f]
              /\ \A t \in Sides :
                   /\ R[f][t] = IF N[f][t] = x THEN p ELSE N[f][t]
                   /\ E[R[f][t]] = D[N[f][t]]
  <2>1. f \in S /\ f # x /\ f # p
    BY <1>2, <1>10, Zenon
  <2>2. PICK t \in Sides : /\ N[f][t] = x /\ R[f][t] = p
                           /\ R[f][Other(t)] = N[f][Other(t)]
    BY <1>4, <1>10, Zenon
  <2>3. N[f][Other(t)] # x /\ N[f][Other(t)] # p /\ N[f][Other(t)] \in S \cup {Forge}
    <3>1. D[N[f][t]] \cap D[N[f][Other(t)]] = {} /\ Other(t) \in Sides
      BY <1>a, <1>1, <2>1, SidesOf
    <3>2. x \in D[x] /\ p \in D[x] /\ p \in D[p]
      BY <1>6
    <3> QED
      BY <1>8, <2>1, <2>2, <3>1, <3>2, Zenon
  <2>4. \A u \in Sides : u = t \/ u = Other(t)
    BY DEF Sides, Other
  <2>5. E[f] = D[f] /\ E[p] = D[x] /\ E[N[f][Other(t)]] = D[N[f][Other(t)]]
    BY <1>5, <2>1, <2>3, Zenon
  <2>6. ASSUME NEW u \in Sides
        PROVE  R[f][u] = (IF N[f][u] = x THEN p ELSE N[f][u]) /\ E[R[f][u]] = D[N[f][u]]
    <3>1. CASE u = t
      BY <2>2, <2>5, <3>1, Zenon
    <3>2. CASE u = Other(t)
      BY <2>2, <2>3, <2>5, <3>2
    <3> QED
      BY <2>4, <3>1, <3>2, Zenon
  <2> QED
    BY <2>1, <2>5, <2>6, Zenon
<1>11. /\ E[R[x][s]] = D[N[x][s]] /\ E[R[x][o]] = D[c]
       /\ E[R[p][s]] = E[x] /\ E[R[p][o]] = D[N[p][o]]
  <2>1. N[x][s] \in S \cup {Forge} /\ N[p][o] \in S \cup {Forge}
    BY <1>a, <1>3, <1>8
  <2>2. R[x][s] = N[x][s] /\ R[x][o] = c /\ R[p][s] = x /\ R[p][o] = N[p][o]
    BY <1>4, Zenon
  <2>3. E[N[x][s]] = D[N[x][s]]
    BY <1>2, <1>5, <2>1, Zenon
  <2>4. E[c] = D[c]
    BY <1>2, <1>5, Zenon
  <2>5. E[N[p][o]] = D[N[p][o]]
    BY <1>2, <1>5, <2>1, Zenon
  <2> QED
    BY <2>2, <2>3, <2>4, <2>5, Zenon
<1>12. ASSUME NEW y \in S PROVE R[y].key \in Key /\ E[y] = {y} \cup E[R[y].lc] \cup E[R[y].rc]
  <2>1. R[y].key \in Key
    BY <1>3, <1>4, <1>8
  <2>2. E[y] = {y} \cup E[R[y][s]] \cup E[R[y][o]]
    <3>1. CASE y \notin {x, p, f}
      BY <1>a, <1>3, <1>5, <1>8, <1>9, <3>1 DEF o
    <3>2. CASE y = f /\ f # NULL
      BY <1>a, <1>3, <1>8, <1>10, <3>2 DEF o
    <3>3. CASE y = x
      BY <1>5, <1>11, <3>3
    <3>4. CASE y = p
      BY <1>5, <1>6, <1>11, <3>4, ZenonT(30)
    <3> QED
      BY <1>1, <3>1, <3>2, <3>3, <3>4
  <2>3. R[y].lc = R[y]["lc"] /\ R[y].rc = R[y]["rc"]
    OBVIOUS
  <2> QED
    BY <1>3, <2>1, <2>2, <2>3 DEF Sides, o, Other
<1>13. ASSUME NEW y \in S, NEW t \in Sides
       PROVE  /\ R[y][t] \in S \cup {Forge}
              /\ \A z \in E[R[y][t]] : Before(t, R[z].key, R[y].key)
  <2>1. \A z \in S : R[z].key = N[z].key
    BY <1>4
  <2>2. CASE y \notin {x, p, f}
    BY <1>8, <1>9, <2>1, <2>2
  <2>3. CASE y = f /\ f # NULL
    BY <1>a, <1>8, <1>10, <2>1, <2>3
  <2>4. CASE y = x
    <3>1. /\ N[x][s] \in S \cup {Forge}
          /\ \A z \in D[N[x][s]] : z \in S /\ Before(s, N[z].key, N[x].key)
          /\ \A z \in D[p] : z \in S /\ Before(o, N[z].key, N[x].key)
      BY <1>a, <1>b, <1>3, <1>8 DEF o
    <3>2. CASE t = s
      BY <1>4, <1>11, <2>1, <2>4, <3>1, <3>2, ZenonT(30)
    <3>3. CASE t = o
      <4>1. R[x][o] = c /\ E[R[x][o]] = D[c] /\ c \in S \cup {Forge} /\ D[c] \subseteq D[p]
        BY <1>2, <1>4, <1>6, <1>11, Zenon
      <4> QED
        BY <2>1, <2>4, <3>1, <3>3, <4>1, Zenon
    <3> QED
      BY <1>3, <3>2, <3>3
  <2>5. CASE y = p
    <3>1. /\ N[p][o] \in S \cup {Forge}
          /\ \A z \in D[N[p][o]] : z \in S /\ Before(o, N[z].key, N[p].key)
          /\ \A z \in D[c] : z \in S /\ Before(s, N[z].key, N[p].key)
          /\ \A z \in D[N[x][s]] : z \in S /\ Before(s, N[z].key, N[x].key)
          /\ Before(o, N[p].key, N[x].key)
      BY <1>b, <1>a, <1>3, <1>6, <1>8 DEF o
    <3>2. \A z \in S : N[z].key \in Int
      BY <1>8, RBAssumption DEF Sides
    <3>3. ASSUME NEW z \in E[x] PROVE z \in S /\ Before(s, N[z].key, N[p].key)
      <4>1. Before(s, N[x].key, N[p].key)
        BY <3>1, <3>2 DEF Before, Sides, o, Other
      <4>2. CASE z \in D[N[x][s]]
        <5>1. z \in S /\ Before(s, N[z].key, N[x].key)
          BY <3>1, <4>2
        <5> QED
          BY <1>a, <3>2, <4>1, <5>1 DEF Before
      <4> QED
        BY <1>a, <1>5, <3>1, <4>1, <4>2
    <3>4. CASE t = s
      BY <1>a, <1>4, <1>11, <2>1, <2>5, <3>3, <3>4, ZenonT(30)
    <3>5. CASE t = o
      BY <1>4, <1>11, <2>1, <2>5, <3>1, <3>5, Zenon
    <3> QED
      BY <1>3, <3>4, <3>5
  <2> QED
    BY <1>1, <2>2, <2>3, <2>4, <2>5
<1>14. ASSUME NEW y \in S, NEW t \in Sides, R[y][t] \in S
       PROVE  R[R[y][t]].father = y
  <2>1. \A z \in S : z \notin {x, p, c} => R[z].father = N[z].father
    BY <1>18, Zenon
  <2>2. N[p].father = x /\ N[x].father = f /\ (c \in S => N[c].father = p)
    BY <1>a, <1>b, <1>3, <1>7 DEF o
  <2>3. CASE y \notin {x, p, f}
    <3>1. R[y][t] = N[y][t] /\ N[y][t] # x /\ N[y][t] # p
      BY <1>9, <2>3
    <3>2. N[N[y][t]].father = y
      BY <1>7, <1>14, <3>1
    <3> QED
      BY <1>14, <2>1, <2>2, <2>3, <3>1, <3>2
  <2>4. CASE y = f /\ f # NULL
    <3>1. CASE N[f][t] = x
      BY <1>4, <1>10, <2>4, <3>1, Zenon
    <3>2. CASE N[f][t] # x
      <4>1. R[f][t] = N[f][t]
        BY <1>10, <2>4, <3>2, Zenon
      <4>2. N[N[f][t]].father = f
        BY <1>7, <1>14, <2>4, <4>1
      <4> QED
        BY <1>2, <1>14, <2>1, <2>2, <2>4, <3>2, <4>1, <4>2
    <3> QED
      BY <3>1, <3>2, Zenon
  <2>5. CASE y = x
    <3>1. CASE t = s
      <4>1. R[x][s] = N[x][s] /\ N[N[x][s]].father = x
        BY <1>4, <1>7, <1>14, <2>5, <3>1
      <4>2. N[x][s] \in S /\ N[x][s] # x /\ N[x][s] # p
        BY <1>2, <1>14, <2>5, <3>1, <4>1, Zenon
      <4>3. N[x][s] # c
        BY <1>2, <2>2, <4>1, <4>2, Zenon
      <4>4. R[N[x][s]].father = x
        BY <2>1, <4>1, <4>2, <4>3, Zenon
      <4> QED
        BY <2>5, <3>1, <4>1, <4>4, Zenon
    <3>2. CASE t = o
      BY <1>4, <2>5, <3>2
    <3> QED
      BY <1>3, <3>1, <3>2
  <2>6. CASE y = p
    <3>1. CASE t = s
      BY <1>4, <2>6, <3>1, Zenon
    <3>2. CASE t = o
      <4>1. R[p][o] = N[p][o] /\ N[N[p][o]].father = p
        BY <1>3, <1>4, <1>7, <1>14, <2>6, <3>2
      <4>2. N[p][o] # c
        <5>1. D[N[p][s]] \cap D[N[p][o]] = {} /\ (c \in S => c \in D[c])
          BY <1>a, <1>b, <1>1, SidesOf DEF o
        <5> QED
          BY <1>b, <1>a, <1>14, <2>6, <3>2, <4>1, <5>1, Zenon
      <4> QED
        BY <1>2, <1>14, <2>1, <2>6, <3>2, <4>1, <4>2, Zenon
    <3> QED
      BY <1>3, <3>1, <3>2
  <2> QED
    BY <1>1, <2>3, <2>4, <2>5, <2>6
<1>15. q \in S /\ R[q].father = NULL /\ E[q] = S
  <2>1. CASE f = NULL
    BY <1>a, <1>1, <1>2, <1>4, <1>5, <2>1, ZenonT(30)
  <2>2. CASE f # NULL
    <3>1. r # x /\ r # p /\ r # c
      <4>1. N[p].father = x /\ (c \in S => N[c].father = p) /\ N[x].father = f
        BY <1>a, <1>b, <1>3, <1>7 DEF o
      <4> QED
        BY <1>a, <1>1, <1>2, <2>2, <4>1
    <3> QED
      BY <1>1, <1>4, <1>5, <2>2, <3>1, Zenon
  <2> QED
    BY <2>1, <2>2
<1>16. ASSUME NEW y \in S, y # q
       PROVE  R[y].father \in S /\ \E t \in Sides : R[R[y].father][t] = y
  <2>1. CASE y = x
    BY <1>a, <1>4, <2>1
  <2>2. CASE y = p
    <3>1. f # NULL
      BY <1>16, <2>2
    <3> QED
      BY <1>2, <1>4, <2>2, <3>1, ZenonT(30)
  <2>3. CASE y = c
    BY <1>a, <1>3, <1>4, <2>3, Zenon
  <2>4. CASE y \notin {x, p, c}
    <3>1. R[y].father = N[y].father
      BY <1>18, <2>4
    <3>2. y # r
      BY <1>2, <1>16, <2>4
    <3>3. N[y].father \in S /\ \E t \in Sides : N[N[y].father][t] = y
      BY <1>7, <3>2
    <3>4. PICK t \in Sides : N[N[y].father][t] = y
      BY <3>3
    <3>5. R[N[y].father][t] = y
      <4>1. CASE N[y].father \notin {x, p, f}
        BY <1>9, <3>3, <3>4, <4>1
      <4>2. CASE N[y].father = f
        <5>1. f # NULL
          BY <1>1, <3>3, <4>2
        <5> QED
          BY <1>10, <2>4, <3>4, <4>2, <5>1
      <4>3. CASE N[y].father = x
        <5>1. t # o
          BY <1>a, <1>b, <2>4, <3>4, <4>3 DEF o
        <5> QED
          BY <1>3, <1>4, <3>4, <4>3, <5>1
      <4>4. CASE N[y].father = p
        <5>1. t # s
          BY <1>a, <1>b, <2>4, <3>4, <4>4
        <5> QED
          BY <1>3, <1>4, <3>4, <4>4, <5>1
      <4> QED
        BY <4>1, <4>2, <4>3, <4>4
    <3> QED
      BY <3>1, <3>3, <3>5
  <2> QED
    BY <2>1, <2>2, <2>3, <2>4, Zenon
<1> HIDE DEF q
<1>17. IsTree(R, q, S, E)
  <2>1. /\ R \in Memory /\ S \in SUBSET Nodes /\ E \in [S \cup {Forge} -> SUBSET S]
        /\ E[Forge] = {} /\ q \in S /\ R[q].father = NULL /\ E[q] = S
    BY <1>1, <1>4, <1>5, <1>15
  <2>2. \A y \in S : R[y].key \in Key /\ E[y] = {y} \cup E[R[y].lc] \cup E[R[y].rc]
    BY <1>12
  <2>3. \A y \in S, t \in Sides :
          /\ R[y][t] \in S \cup {Forge}
          /\ \A z \in E[R[y][t]] : Before(t, R[z].key, R[y].key)
          /\ R[y][t] \in S => R[R[y][t]].father = y
    BY <1>13, <1>14
  <2>4. \A y \in S : y # q => R[y].father \in S /\ \E t \in Sides : R[R[y].father][t] = y
    BY <1>16
  <2>5. BySides(R, q, S, E)
    BY <2>1, <2>2, <2>3, <2>4 DEF BySides
  <2> QED
    BY <2>1, <2>5, TreeBySides
<1> QED
  BY <1>17, Zenon DEF q, E

(* The same, of the memory and the nodes by their names. *)
LEMMA RotateTree ==
  ASSUME NEW N \in Memory, NEW r, NEW S, NEW D, IsTree(N, r, S, D), NEW x \in S, NEW s \in Sides,
         NEW p, p = N[x][Other(s)], p \in S, NEW c, c = N[p][s],
         NEW f, f = N[x].father, NEW R, Rotated(N, R, x, s, p, c, f)
  PROVE  IsTree(R, IF f = NULL THEN p ELSE r, S, Turned(N, D, x, s, p, c))
BY TurningTree DEF Turning

-----------------------------------------------------------------------------
(* A rotation, seen from the tree. *)

(* A node other than forgeNode is a child once. *)
LEMMA OneFather ==
  ASSUME NEW N \in Memory, NEW r, NEW S, NEW D, IsTree(N, r, S, D),
         NEW x \in S, NEW y \in S, NEW t \in Sides, NEW u \in Sides,
         N[x][t] = N[y][u], N[x][t] \in S
  PROVE  x = y /\ t = u
<1>1. N[N[x][t]].father = x /\ N[N[y][u]].father = y
  BY LinksOf
<1>2. x = y
  BY <1>1
<1>3. Sorted(N, S, D)
  BY DEF IsTree
<1>4. D[N[x][t]] \cap D[N[x][Other(t)]] = {} /\ N[x][t] \in D[N[x][t]]
  <2>1. D[N[x][t]] \cap D[N[x][Other(t)]] = {}
    BY <1>3, SidesOf
  <2>2. \A z \in S : z \in D[z]
    BY <1>3 DEF Sorted
  <2> QED
    BY <2>1, <2>2
<1>5. u = t \/ u = Other(t)
  BY DEF Sides, Other
<1> QED
  BY <1>2, <1>4, <1>5

\* R is N but for values and colours, and for the father of forgeNode.
SameLinks(N, R, S) ==
  /\ R \in Memory
  /\ \A y \in S : /\ R[y].key = N[y].key /\ R[y].father = N[y].father
                  /\ R[y].lc = N[y].lc /\ R[y].rc = N[y].rc

(* Colours do not matter to the tree. *)
LEMMA SameTree ==
  ASSUME NEW N \in Memory, NEW r, NEW S, NEW D, IsTree(N, r, S, D), NEW R, SameLinks(N, R, S)
  PROVE  IsTree(R, r, S, D)
<1>1. S \subseteq Nodes
  BY DEF IsTree, Sorted
<1>2. Sorted(N, S, D) /\ Linked(N, r, S) /\ D[r] = S
  BY DEF IsTree
<1>3. Sorted(R, S, D)
  <2>1. /\ D \in [S \cup {Forge} -> SUBSET S] /\ D[Forge] = {}
        /\ \A x \in S :
             /\ N[x].key \in Key
             /\ N[x].lc \in S \cup {Forge} /\ N[x].rc \in S \cup {Forge}
             /\ D[x] = {x} \cup D[N[x].lc] \cup D[N[x].rc]
             /\ \A y \in D[N[x].lc] : y \in S /\ N[y].key < N[x].key
             /\ \A y \in D[N[x].rc] : y \in S /\ N[y].key > N[x].key
    BY <1>2 DEF Sorted
  <2>2. \A y \in S : R[y].key = N[y].key /\ R[y].lc = N[y].lc /\ R[y].rc = N[y].rc
    BY DEF SameLinks
  <2> QED
    BY <1>1, <2>1, <2>2 DEF Sorted
<1>4. Linked(R, r, S)
  BY <1>2 DEF Linked, SameLinks
<1> QED
  BY <1>2, <1>3, <1>4 DEF IsTree

\* R is what N has become when x has gone down to the side s and p has come up, colours
\* aside.
Moved(N, R, S, x, s, p) ==
  /\ R \in Memory
  /\ \A y \in S : R[y].key = N[y].key /\ R[y].val = N[y].val
  /\ \A y \in S \ {x, p}, t \in Sides : R[y][t] = IF N[y][t] = x THEN p ELSE N[y][t]
  /\ R[x][s] = N[x][s] /\ R[x][Other(s)] = N[p][s]
  /\ R[p][s] = x /\ R[p][Other(s)] = N[p][Other(s)]
  /\ R[p].father = N[x].father /\ R[x].father = p
  /\ R[Forge].lc = N[Forge].lc /\ R[Forge].rc = N[Forge].rc
SameColours(N, R, S) == \A y \in S \cup {Forge} : R[y].color = N[y].color

(* What a rotation does to a tree. *)
LEMMA RotateAll ==
  ASSUME NEW T \in Trees, NEW S, NEW D, IsTree(T.n, T.first, S, D), NEW x \in S, NEW s \in Sides,
         T.n[x][Other(s)] \in S
  PROVE  /\ Rotate(T, x, s) \in Trees /\ Rotate(T, x, s).ok = T.ok
         /\ Rotate(T, x, s).first = IF T.n[x].father = NULL THEN T.n[x][Other(s)] ELSE T.first
         /\ Moved(T.n, Rotate(T, x, s).n, S, x, s, T.n[x][Other(s)])
         /\ SameColours(T.n, Rotate(T, x, s).n, S)
         /\ \E E : IsTree(Rotate(T, x, s).n, Rotate(T, x, s).first, S, E)
<1> DEFINE N == T.n
           p == N[x][Other(s)]
           c == N[p][s]
           f == N[x].father
           R == Rotate(T, x, s).n
<1>1. N \in Memory /\ S \subseteq Nodes /\ Forge \notin Nodes /\ NULL \notin Nodes /\ Forge # NULL
      /\ Sorted(N, S, D)
  BY RBAssumption DEF Trees, IsTree, Sorted
<1>2. /\ c \in S \cup {Forge} /\ f \in S \cup {NULL} /\ x # p /\ c # x /\ c # p /\ f # x
      /\ f # p /\ c # f /\ (f = NULL => T.first = x) /\ (f # NULL => x \in {N[f].lc, N[f].rc})
  <2> HIDE DEF f, c, p
  <2>1. p = N[x][Other(s)] /\ c = N[p][s] /\ f = N[x].father /\ p \in S
    BY DEF p, c, f
  <2> QED
    BY <1>1, <2>1, RotateReady
<1>3. /\ Rotate(T, x, s) \in Trees /\ Rotate(T, x, s).ok = T.ok
      /\ Rotate(T, x, s).first = IF f = NULL THEN p ELSE T.first
      /\ Rotated(N, R, x, s, p, c, f)
  <2>1. x \in Nodes /\ p \in Nodes /\ c \in Nodes \cup {Forge}
    BY <1>1, <1>2
  <2> HIDE DEF R, N
  <2>2. p = T.n[x][Other(s)] /\ c = T.n[p][s] /\ f = T.n[x].father
    BY DEF N
  <2> HIDE DEF f, c, p
  <2> QED
    BY <1>2, <2>1, <2>2, RotateIs DEF N, R
<1>4. IsTree(R, IF f = NULL THEN p ELSE T.first, S, Turned(N, D, x, s, p, c))
  <2> HIDE DEF R
  <2>2. p = N[x][Other(s)] /\ c = N[p][s] /\ f = N[x].father /\ p \in S
    OBVIOUS
  <2> HIDE DEF f, c, p
  <2> QED
    BY <1>1, <1>3, <2>2, RotateTree
<1>5. ASSUME NEW y \in S \ {x, p}, NEW t \in Sides
      PROVE  R[y][t] = IF N[y][t] = x THEN p ELSE N[y][t]
  <2> HIDE DEF R
  <2>1. N[y][t] \in S \cup {Forge}
    BY <1>1, SidesOf
  <2>2. CASE y # f /\ y # c
    <3>1. N[y][t] # x
      BY <2>2, LinksOf, <1>1
    <3> QED
      BY <1>1, <1>3, <2>2, <3>1, Zenon DEF Rotated
  <2>3. CASE y = c
    <3>1. N[y][t] # x
      BY <1>1, <1>2, <2>3, LinksOf
    <3> QED
      BY <1>3, <2>3, <3>1, Zenon DEF Rotated, Sides
  <2>4. CASE y = f
    <3>1. PICK u \in Sides : /\ N[f][u] = x /\ R[f][u] = p
                             /\ R[f][Other(u)] = N[f][Other(u)]
      BY <1>1, <1>3, <2>4, Zenon DEF Rotated
    <3>2. t = u \/ t = Other(u)
      BY DEF Sides, Other
    <3>3. CASE t = u
      BY <2>4, <3>1, <3>3
    <3>4. CASE t = Other(u)
      <4>1. N[f][t] # x
        BY <1>1, <2>4, <3>1, <3>4, OneFather DEF Sides, Other
      <4> QED
        BY <2>4, <3>1, <3>4, <4>1
    <3> QED
      BY <3>2, <3>3, <3>4
  <2> QED
    BY <2>2, <2>3, <2>4
<1>6. Moved(N, R, S, x, s, p)
  <2> HIDE DEF R
  <2>1. R[Forge].lc = N[Forge].lc /\ R[Forge].rc = N[Forge].rc
    BY <1>1, <1>2, <1>3, ZenonT(30) DEF Rotated
  <2>2. \A y \in S : R[y].key = N[y].key /\ R[y].val = N[y].val
    BY <1>1, <1>3, ZenonT(30) DEF Rotated
  <2>3. /\ R \in Memory /\ R[x][s] = N[x][s] /\ R[x][Other(s)] = N[p][s]
        /\ R[p][s] = x /\ R[p][Other(s)] = N[p][Other(s)]
        /\ R[p].father = N[x].father /\ R[x].father = p
    BY <1>3, ZenonT(30) DEF Rotated
  <2> QED
    BY <1>5, <2>1, <2>2, <2>3 DEF Moved
<1>7. SameColours(N, R, S)
  <2> HIDE DEF R
  <2> QED
    BY <1>1, <1>3, Zenon DEF Rotated, SameColours
<1> QED
  BY <1>3, <1>4, <1>6, <1>7

-----------------------------------------------------------------------------
(* The colours and the black heights, and what painting and rotating do to them. *)

\* B is the number of black nodes on every way down from the nodes of S; what hangs at f on
\* side s stands for one more.
Heights(N, S, B, f, s) ==
  /\ B \in [S \cup {Forge} -> Nat] /\ B[Forge] = 0
  /\ \A x \in S, t \in Sides :
       B[x] = B[N[x][t]] + (IF x = f /\ t = s THEN 1 ELSE 0)
                         + (IF N[x].color = BLACK THEN 1 ELSE 0)
\* No red node but those of E has a red father.
Coloured(N, S, E) ==
  \A x \in S, t \in Sides : N[x].color = RED /\ N[N[x][t]].color = RED => N[x][t] \in E
ForgeFine(N) == N[Forge].color = BLACK /\ N[Forge].lc = Forge /\ N[Forge].rc = Forge

Good(T, S, B, f, s, E) ==
  /\ T \in Trees /\ (\E D : IsTree(T.n, T.first, S, D))
  /\ Heights(T.n, S, B, f, s) /\ Coloured(T.n, S, E) /\ ForgeFine(T.n)
SameMap(N, R, S) == \A y \in S : R[y].key = N[y].key /\ R[y].val = N[y].val

ElsewhereAt(N, R, S, x, s, p, y, t) ==
  /\ R[y][t] = IF N[y][t] = x THEN p ELSE N[y][t]
  /\ R[y][t] \in S \cup {Forge} /\ N[y][t] \in S \cup {Forge} /\ N[y][t] # p
  /\ N[y][t] \in S => N[y][t] \notin {N[x][s], N[p][s], N[p][Other(s)]}

(* A rotation is seen only at the nodes that it moves. *)
LEMMA ElsewhereAll ==
  ASSUME NEW N \in Memory, NEW r, NEW S, NEW D, IsTree(N, r, S, D), NEW x \in S, NEW s \in Sides,
         NEW p, p = N[x][Other(s)], p \in S, NEW R, Moved(N, R, S, x, s, p)
  PROVE  \A y \in S : y # x /\ y # p => \A t \in Sides : ElsewhereAt(N, R, S, x, s, p, y, t)
<1> SUFFICES ASSUME NEW y \in S, y # x, y # p, NEW t \in Sides
             PROVE  ElsewhereAt(N, R, S, x, s, p, y, t)
  OBVIOUS
<1>1. N[y][t] \in S \cup {Forge} /\ Other(s) \in Sides
  BY SidesOf DEF IsTree
<1>2. R[y][t] = IF N[y][t] = x THEN p ELSE N[y][t]
  BY DEF Moved
<1>3. N[y][t] # p
  BY <1>1, OneFather
<1>4. ASSUME N[y][t] \in S PROVE N[y][t] \notin {N[x][s], N[p][s], N[p][Other(s)]}
  BY <1>1, <1>4, OneFather
<1>5. R[y][t] \in S \cup {Forge}
  BY <1>1, <1>2
<1> QED
  BY <1>1, <1>2, <1>3, <1>4, <1>5, Zenon DEF ElsewhereAt

LEMMA Elsewhere ==
  ASSUME NEW N \in Memory, NEW r, NEW S, NEW D, IsTree(N, r, S, D), NEW x \in S, NEW s \in Sides,
         NEW p, p = N[x][Other(s)], p \in S, NEW R, Moved(N, R, S, x, s, p),
         NEW y \in S, y # x, y # p, NEW t \in Sides
  PROVE  /\ R[y][t] = IF N[y][t] = x THEN p ELSE N[y][t]
         /\ R[y][t] \in S \cup {Forge} /\ N[y][t] \in S \cup {Forge} /\ N[y][t] # p
         /\ N[y][t] \in S => N[y][t] \notin {N[x][s], N[p][s], N[p][Other(s)]}
<1>1. ElsewhereAt(N, R, S, x, s, p, y, t)
  BY ElsewhereAll, Zenon
<1> QED
  BY <1>1, Zenon DEF ElsewhereAt

(* The two children of a node differ from it, and from each other. *)
LEMMA Children ==
  ASSUME NEW N \in Memory, NEW r, NEW S, NEW D, IsTree(N, r, S, D), NEW x \in S, NEW s \in Sides
  PROVE  /\ Other(s) \in Sides /\ Other(s) # s /\ Other(Other(s)) = s
         /\ \A t \in Sides : t = s \/ t = Other(s)
         /\ x # Forge /\ x \in Nodes /\ N[x] \in NodeRec
         /\ \A t \in Sides : N[x][t] \in S \cup {Forge} /\ N[x][t] # x /\ N[x][t] \in Nodes \cup {Forge}
         /\ N[x][s] \in S => N[x][s] # N[x][Other(s)] /\ N[N[x][s]].father = x
         /\ N[x][Other(s)] \in S => N[x][s] # N[x][Other(s)] /\ N[N[x][Other(s)]].father = x
<1>1. Sorted(N, S, D) /\ S \subseteq Nodes
  BY DEF IsTree, Sorted
<1>2. Other(s) \in Sides /\ Other(s) # s /\ Other(Other(s)) = s /\ \A t \in Sides : t = s \/ t = Other(s)
  BY DEF Sides, Other
<1>3. x # Forge /\ x \in Nodes /\ \A t \in Sides : N[x][t] \in S \cup {Forge} /\ N[x][t] # x
  BY <1>1, SidesOf
<1>4. N[x] \in NodeRec
  BY <1>3 DEF Memory
<1>5. N[x][s] = N[x][Other(s)] => N[x][s] \notin S
  BY <1>2, OneFather
<1>6. \A t \in Sides : N[x][t] \in S => N[N[x][t]].father = x
  BY LinksOf
<1> QED
  BY <1>1, <1>2, <1>3, <1>4, <1>5, <1>6, Zenon

(* A node is not its own grandchild. *)
LEMMA NotAbove ==
  ASSUME NEW N \in Memory, NEW r, NEW S, NEW D, IsTree(N, r, S, D), NEW x \in S, NEW t \in Sides,
         NEW y \in S, y = N[x][t], NEW u \in Sides
  PROVE  N[y][u] # x
<1>1. Sorted(N, S, D)
  BY DEF IsTree
<1>2. x \notin D[y] /\ x \in D[x]
  BY <1>1, SidesOf
<1>3. D[N[y][u]] \subseteq D[y]
  BY <1>1, SidesOf
<1> QED
  BY <1>2, <1>3

(* Nor its own great-grandchild. *)
LEMMA NotBelow ==
  ASSUME NEW N \in Memory, NEW r, NEW S, NEW D, IsTree(N, r, S, D), NEW x \in S, NEW t \in Sides,
         NEW y \in S, y = N[x][t], NEW u \in Sides, NEW z \in S, z = N[y][u], NEW v \in Sides
  PROVE  N[z][v] # x
<1>1. Sorted(N, S, D)
  BY DEF IsTree
<1>2. x \notin D[y] /\ x \in D[x]
  BY <1>1, SidesOf
<1>3. \A w \in S : \A e \in Sides : D[N[w][e]] \subseteq D[w]
  BY <1>1, SidesOf
<1>4. D[z] \subseteq D[y] /\ D[N[z][v]] \subseteq D[z]
  BY <1>3
<1> QED
  BY <1>2, <1>4

(* The black nodes below a node. *)
LEMMA HeightIn ==
  ASSUME NEW N \in Memory, NEW r, NEW S, NEW D, IsTree(N, r, S, D), NEW B, NEW f, NEW u,
         Heights(N, S, B, f, u), NEW x \in S, NEW t \in Sides
  PROVE  /\ B[x] \in Nat /\ B[N[x][t]] \in Nat /\ B[Forge] = 0
         /\ x # f \/ t # u => B[x] = B[N[x][t]] + (IF N[x].color = BLACK THEN 1 ELSE 0)
         /\ x = f /\ t = u => B[x] = B[N[x][t]] + 1 + (IF N[x].color = BLACK THEN 1 ELSE 0)
<1>1. N[x][t] \in S \cup {Forge}
  BY Children
<1>2. B \in [S \cup {Forge} -> Nat] /\ B[Forge] = 0
  BY DEF Heights
<1>3. B[x] = B[N[x][t]] + (IF x = f /\ t = u THEN 1 ELSE 0)
                        + (IF N[x].color = BLACK THEN 1 ELSE 0)
  BY Zenon DEF Heights
<1> QED
  BY <1>1, <1>2, <1>3

-----------------------------------------------------------------------------
(* An inner red node x below a red father f is turned to the outer side. *)
LEMMA StraightenTree ==
  ASSUME NEW T, NEW S, NEW B, NEW x \in S, NEW f \in S, NEW g \in S, NEW s \in Sides,
         Good(T, S, B, NULL, "lc", {x}), T.n[f][Other(s)] = x, T.n[g][s] = f,
         T.n[x].color = RED, T.n[f].color = RED, T.n[g].color = BLACK
  PROVE  /\ Good(Rotate(T, f, s), S, B, NULL, "lc", {f}) /\ Rotate(T, f, s).ok = T.ok
         /\ Rotate(T, f, s).first = T.first
         /\ SameMap(T.n, Rotate(T, f, s).n, S) /\ SameColours(T.n, Rotate(T, f, s).n, S)
         /\ Rotate(T, f, s).n[x][s] = f /\ Rotate(T, f, s).n[g][s] = x
         /\ Rotate(T, f, s).n[g][Other(s)] = T.n[g][Other(s)]
<1> DEFINE N == T.n
           R == Rotate(T, f, s).n
           o == Other(s)
<1>1. T \in Trees /\ N \in Memory /\ Heights(N, S, B, NULL, "lc") /\ Coloured(N, S, {x}) /\ ForgeFine(N)
  BY DEF Good, Trees
<1>2. PICK D : IsTree(N, T.first, S, D)
  BY DEF Good
<1>3. /\ Rotate(T, f, s) \in Trees /\ Rotate(T, f, s).ok = T.ok
      /\ Rotate(T, f, s).first = IF N[f].father = NULL THEN N[f][o] ELSE T.first
      /\ Moved(N, R, S, f, s, x) /\ SameColours(N, R, S)
      /\ \E E : IsTree(R, Rotate(T, f, s).first, S, E)
  BY <1>1, <1>2, RotateAll, ZenonT(30)
<1> HIDE DEF R
<1>4. /\ o \in Sides /\ o # s /\ \A t \in Sides : t = s \/ t = o
      /\ N[f].father = g /\ g # NULL /\ g # f /\ g # x /\ f # x
      /\ N[f][s] # x /\ N[x][s] # x /\ N[x][o] # x /\ N[x][s] # f /\ N[x][o] # f
      /\ N[g][o] # f
      /\ N[f][s] \in S \cup {Forge} /\ N[x][s] \in S \cup {Forge} /\ N[x][o] \in S \cup {Forge}
  <2>1. /\ o \in Sides /\ o # s /\ \A t \in Sides : t = s \/ t = o
        /\ N[f].father = g /\ g # f /\ f # x /\ N[x].father = f /\ g \in Nodes
        /\ N[f][s] # x /\ N[x][s] # x /\ N[x][o] # x /\ N[g][o] # f
        /\ N[f][s] \in S \cup {Forge} /\ N[x][s] \in S \cup {Forge} /\ N[x][o] \in S \cup {Forge}
        /\ (N[x][s] \in S => N[N[x][s]].father = x) /\ (N[x][o] \in S => N[N[x][o]].father = x)
    BY <1>1, <1>2, Children
  <2>2. g # NULL /\ g # x
    BY <2>1, RBAssumption DEF RED, BLACK
  <2>3. N[x][s] # f /\ N[x][o] # f
    BY <2>1, <2>2
  <2> QED
    BY <2>1, <2>2, <2>3
<1>5. /\ R[f][s] = N[f][s] /\ R[f][o] = N[x][s] /\ R[x][s] = f /\ R[x][o] = N[x][o]
      /\ R \in Memory /\ R[Forge].lc = N[Forge].lc /\ R[Forge].rc = N[Forge].rc
      /\ \A y \in S \cup {Forge} : R[y].color = N[y].color
      /\ SameMap(N, R, S)
  BY <1>3 DEF Moved, SameColours, SameMap
<1>6. ASSUME NEW y \in S, y # x, y # f, NEW t \in Sides
      PROVE  /\ R[y][t] = IF N[y][t] = f THEN x ELSE N[y][t]
             /\ N[y][t] # x /\ N[y][t] \in S \cup {Forge}
  BY <1>1, <1>2, <1>3, <1>6, Elsewhere
<1>7. /\ B \in [S \cup {Forge} -> Nat] /\ B[Forge] = 0
      /\ \A y \in S, t \in Sides : B[y] = B[N[y][t]] + (IF N[y].color = BLACK THEN 1 ELSE 0)
  <2>1. \A y \in S : y # NULL
    BY <1>2, RBAssumption DEF IsTree, Sorted
  <2>2. B \in [S \cup {Forge} -> Nat] /\ B[Forge] = 0
    BY <1>1 DEF Heights
  <2>3. ASSUME NEW y \in S, NEW t \in Sides
        PROVE  B[y] = B[N[y][t]] + (IF N[y].color = BLACK THEN 1 ELSE 0)
    BY <1>1, <1>2, <2>1, <2>3, HeightIn
  <2> QED
    BY <2>2, <2>3
<1>8. B[f] = B[x] /\ B[x] = B[N[x][s]] /\ B[x] = B[N[x][o]] /\ B[f] = B[N[f][s]]
  <2>1. RED # BLACK
    BY DEF RED, BLACK
  <2> QED
    BY <1>4, <1>7, <2>1
<1>9. Heights(R, S, B, NULL, "lc")
  <2> SUFFICES ASSUME NEW y \in S, NEW t \in Sides
               PROVE  B[y] = B[R[y][t]] + (IF y = NULL /\ t = "lc" THEN 1 ELSE 0)
                                        + (IF R[y].color = BLACK THEN 1 ELSE 0)
    BY <1>7, Zenon DEF Heights
  <2>1. y # NULL
    BY <1>2, RBAssumption DEF IsTree, Sorted
  <2>2. B[R[y][t]] = B[N[y][t]]
    <3>1. CASE y = f
      BY <1>4, <1>5, <1>8, <3>1, ZenonT(30)
    <3>2. CASE y = x
      <4>1. CASE t = s
        BY <1>5, <1>8, <3>2, <4>1
      <4>2. CASE t = o
        BY <1>5, <3>2, <4>2
      <4> QED
        BY <1>4, <4>1, <4>2
    <3>3. CASE y # f /\ y # x
      BY <1>6, <1>8, <3>3
    <3> QED
      BY <3>1, <3>2, <3>3
  <2>3. B[y] = B[R[y][t]] + (IF R[y].color = BLACK THEN 1 ELSE 0) /\ B[R[y][t]] \in Nat
    <3>1. B[N[y][t]] \in Nat
      BY <1>1, <1>2, HeightIn
    <3> QED
      BY <1>5, <1>7, <2>2, <3>1
  <2> QED
    BY <2>1, <2>3
<1>10. Coloured(R, S, {f})
  <2> SUFFICES ASSUME NEW y \in S, NEW t \in Sides, R[y].color = RED, R[R[y][t]].color = RED
               PROVE  R[y][t] = f
    BY DEF Coloured
  <2>1. \A z \in S, u \in Sides : N[z].color = RED /\ N[N[z][u]].color = RED => N[z][u] = x
    BY <1>1 DEF Coloured
  <2>2. N[y].color = RED /\ N[x].color = RED /\ N[f].color = RED /\ y # g
    BY <1>5 DEF RED, BLACK
  <2>3. CASE y = f
    BY <1>4, <1>5, <2>1, <2>2, <2>3
  <2>4. CASE y = x
    BY <1>4, <1>5, <2>1, <2>2, <2>4
  <2>5. CASE y # f /\ y # x
    <3>1. N[y][t] # f
      BY <1>1, <1>2, <1>4, <2>2, OneFather
    <3>2. R[y][t] = N[y][t] /\ N[y][t] # x /\ N[y][t] \in S \cup {Forge}
      BY <1>6, <2>5, <3>1
    <3> QED
      BY <1>5, <2>1, <2>2, <3>2
  <2> QED
    BY <2>3, <2>4, <2>5
<1>11. ForgeFine(R)
  BY <1>1, <1>5 DEF ForgeFine
<1>12. R[g][s] = x /\ R[g][o] = N[g][o]
  BY <1>4, <1>6
<1> QED
  BY <1>3, <1>4, <1>5, <1>9, <1>10, <1>11, <1>12 DEF Good, R

\* R is T with y of the colour c.
Repaints(T, R, y, c) == R = Paint(T, y, c)
Repainted(T, R, S, D, y, c) ==
  /\ R \in Trees /\ R.ok = T.ok /\ R.first = T.first /\ IsTree(R.n, T.first, S, D)
  /\ Painted(T.n, R.n, S \cup {Forge}, y, c)

-----------------------------------------------------------------------------
(* Painting a node of a tree. *)
LEMMA Repaint ==
  ASSUME NEW T \in Trees, NEW S, NEW D, IsTree(T.n, T.first, S, D), NEW y \in S,
         NEW c \in {RED, BLACK}
  PROVE  Repainted(T, Paint(T, y, c), S, D, y, c)
<1> DEFINE R == Paint(T, y, c).n
<1>1. S \subseteq Nodes /\ y \in Nodes \cup {Forge}
  BY DEF IsTree, Sorted
<1>2. /\ Paint(T, y, c) \in Trees /\ Paint(T, y, c).ok = T.ok /\ Paint(T, y, c).first = T.first
      /\ Painted(T.n, R, Nodes \cup {Forge}, y, c)
  BY <1>1, PaintIs
<1> HIDE DEF R
<1>3. Painted(T.n, R, S \cup {Forge}, y, c) /\ T.n \in Memory
  BY <1>1, <1>2 DEF Painted, Alike, Trees
<1>4. IsTree(R, T.first, S, D)
  <2>1. SameLinks(T.n, R, S)
    BY <1>3 DEF Painted, Alike, SameLinks
  <2> QED
    BY <1>3, <2>1, SameTree
<1> QED
  BY <1>2, <1>3, <1>4 DEF R, Repainted

\* The same with the new memory under a name of its own.
LEMMA RepaintIs ==
  ASSUME NEW T \in Trees, NEW S, NEW D, IsTree(T.n, T.first, S, D), NEW y \in S,
         NEW c \in {RED, BLACK}, NEW R, Repaints(T, R, y, c)
  PROVE  Repainted(T, R, S, D, y, c)
BY Repaint DEF Repaints

(* The grandfather g of an outer red node x goes down to the other side, its colour and
   that of the father f exchanged. *)
LEMMA OuterTree ==
  ASSUME NEW T, NEW S, NEW B, NEW x \in S, NEW f \in S, NEW g \in S, NEW s \in Sides,
         Good(T, S, B, NULL, "lc", {x}), T.n[f][s] = x, T.n[g][s] = f,
         T.n[x].color = RED, T.n[f].color = RED, T.n[g].color = BLACK,
         T.n[T.n[g][Other(s)]].color = BLACK,
         NEW R, R = Rotate(Paint(Paint(T, g, RED), T.n[g][s], BLACK), g, Other(s))
  PROVE  /\ R.ok = T.ok /\ SameMap(T.n, R.n, S)
         /\ R.n[g].color = RED /\ R.n[g].father = f /\ R.n[f].color = BLACK
         /\ T.n[T.first].color = BLACK => R.n[R.first].color = BLACK
         /\ \E C : Good(R, S, C, NULL, "lc", {}) /\ C[g] = B[f] /\ C[f] = B[g]
<1> DEFINE N == T.n
           o == Other(s)
           T1 == Paint(T, g, RED)
           T2 == Paint(T1, f, BLACK)
<1>1. T \in Trees /\ N \in Memory /\ Heights(N, S, B, NULL, "lc") /\ Coloured(N, S, {x}) /\ ForgeFine(N)
  BY DEF Good, Trees
<1>2. PICK D : IsTree(N, T.first, S, D)
  BY DEF Good
<1>3. /\ T1 \in Trees /\ T1.ok = T.ok /\ T1.first = T.first /\ IsTree(T1.n, T.first, S, D)
      /\ Painted(N, T1.n, S \cup {Forge}, g, RED)
  <2>1. RED \in {RED, BLACK} /\ Repaints(T, T1, g, RED)
    BY DEF Repaints
  <2> HIDE DEF T1
  <2>2. Repainted(T, T1, S, D, g, RED)
    BY <1>1, <1>2, <2>1, RepaintIs
  <2> QED
    BY <2>2 DEF Repainted
<1> HIDE DEF T1
<1>4. /\ T2 \in Trees /\ T2.ok = T.ok /\ T2.first = T.first /\ IsTree(T2.n, T.first, S, D)
      /\ Painted(T1.n, T2.n, S \cup {Forge}, f, BLACK)
  <2>1. BLACK \in {RED, BLACK} /\ Repaints(T1, T2, f, BLACK)
    BY DEF Repaints
  <2>2. T1 \in Trees /\ IsTree(T1.n, T1.first, S, D)
    BY <1>3
  <2> HIDE DEF T2
  <2>3. Repainted(T1, T2, S, D, f, BLACK)
    BY <2>1, <2>2, RepaintIs
  <2> QED
    BY <1>3, <2>3 DEF Repainted
<1> HIDE DEF T2
<1> DEFINE Mem == T2.n
<1>5. /\ Alike(N, Mem, S \cup {Forge}) /\ Mem[g].color = RED /\ Mem[f].color = BLACK
      /\ \A z \in S \cup {Forge} : z # f /\ z # g => Mem[z].color = N[z].color
      /\ R = Rotate(T2, g, o) /\ Mem \in Memory
  <2>1. f # g
    BY DEF RED, BLACK
  <2>2. Alike(N, Mem, S \cup {Forge})
    BY <1>3, <1>4 DEF Alike, Painted
  <2>3. R = Rotate(T2, g, o)
    BY Zenon DEF T1, T2
  <2> QED
    BY <1>3, <1>4, <2>1, <2>2, <2>3 DEF Alike, Painted
<1>6. /\ o \in Sides /\ o # s /\ Other(o) = s /\ \A t \in Sides : t = s \/ t = o
      /\ N[f].father = g /\ g # f /\ f # x /\ N[x].father = f /\ N[g][o] # f /\ N[f][o] # x
      /\ N[f][o] # f /\ g # x /\ f # NULL
      /\ N[f][o] \in S \cup {Forge} /\ N[g][o] \in S \cup {Forge} /\ N[g][o] # g
      /\ f # Forge /\ g # Forge
  <2>1. g # x
    BY DEF RED, BLACK
  <2>2. f # NULL
    BY <1>2, RBAssumption DEF IsTree, Sorted
  <2> QED
    BY <1>1, <1>2, <2>1, <2>2, Children
<1>7. /\ R \in Trees /\ R.ok = T.ok /\ R.first = IF N[g].father = NULL THEN f ELSE T.first
      /\ Moved(Mem, R.n, S, g, o, f) /\ SameColours(Mem, R.n, S)
      /\ \E E : IsTree(R.n, R.first, S, E)
  <2>1. Mem[g][Other(o)] = f /\ Mem[g].father = N[g].father
    BY <1>5, <1>6 DEF Alike
  <2>2. T2 \in Trees /\ IsTree(T2.n, T2.first, S, D) /\ T2.n[g][Other(o)] \in S
    BY <1>4, <2>1, Zenon
  <2>3. /\ Rotate(T2, g, o) \in Trees /\ Rotate(T2, g, o).ok = T2.ok
        /\ Rotate(T2, g, o).first = IF T2.n[g].father = NULL THEN T2.n[g][Other(o)] ELSE T2.first
        /\ Moved(T2.n, Rotate(T2, g, o).n, S, g, o, T2.n[g][Other(o)])
        /\ SameColours(T2.n, Rotate(T2, g, o).n, S)
        /\ \E E : IsTree(Rotate(T2, g, o).n, Rotate(T2, g, o).first, S, E)
    BY <1>6, <2>2, RotateAll
  <2> QED
    BY <1>4, <1>5, <2>1, <2>3, Zenon
<1>8. /\ R.n[g][o] = N[g][o] /\ R.n[g][s] = N[f][o] /\ R.n[f][o] = g /\ R.n[f][s] = x
      /\ R.n \in Memory /\ R.n[Forge].lc = N[Forge].lc /\ R.n[Forge].rc = N[Forge].rc
      /\ R.n[g].father = f /\ R.n[g].color = RED /\ R.n[f].color = BLACK
      /\ \A z \in S \cup {Forge} : z # f /\ z # g => R.n[z].color = N[z].color
      /\ SameMap(N, R.n, S)
  BY <1>5, <1>6, <1>7 DEF Moved, SameColours, SameMap, Alike
<1>9. ASSUME NEW y \in S, y # g, y # f, NEW t \in Sides
      PROVE  /\ R.n[y][t] = IF N[y][t] = g THEN f ELSE N[y][t]
             /\ N[y][t] # f /\ N[y][t] \in S \cup {Forge}
  <2>1. Mem[g][Other(o)] = f /\ Mem[y][t] = N[y][t]
    BY <1>5, <1>6 DEF Alike
  <2> QED
    BY <1>4, <1>5, <1>6, <1>7, <1>9, <2>1, Elsewhere
<1> DEFINE C == [B EXCEPT ![f] = B[g], ![g] = B[f]]
<1>10. ASSUME NEW y \in S, NEW t \in Sides
       PROVE  /\ B[y] = B[N[y][t]] + (IF N[y].color = BLACK THEN 1 ELSE 0) /\ B[y] \in Nat
              /\ B[N[y][t]] \in Nat /\ y # NULL
  <2>1. y # NULL
    BY <1>2, RBAssumption DEF IsTree, Sorted
  <2> QED
    BY <1>1, <1>2, <2>1, HeightIn
<1>11. /\ C \in [S \cup {Forge} -> Nat] /\ C[f] = B[g] /\ C[g] = B[f] /\ C[Forge] = 0
       /\ \A y \in S \cup {Forge} : y # f /\ y # g => C[y] = B[y]
  <2>1. B \in [S \cup {Forge} -> Nat] /\ B[Forge] = 0
    BY <1>1, Zenon DEF Heights
  <2> QED
    BY <1>6, <2>1
<1> HIDE DEF C
<1>12. /\ B[g] = B[f] + 1 /\ B[f] = B[x] /\ B[f] = B[N[f][o]] /\ B[g] = B[N[g][o]] + 1
       /\ B[f] \in Nat
  BY <1>6, <1>10 DEF RED, BLACK
<1>13. Heights(R.n, S, C, NULL, "lc")
  <2> SUFFICES ASSUME NEW y \in S, NEW t \in Sides
               PROVE  C[y] = C[R.n[y][t]] + (IF R.n[y].color = BLACK THEN 1 ELSE 0)
                      /\ C[R.n[y][t]] \in Nat
    BY <1>10, <1>11 DEF Heights
  <2>1. CASE y = g
    <3>1. C[N[f][o]] = B[f] /\ C[N[g][o]] = B[f]
      <4>1. N[f][o] # g
        BY <1>1, <1>2, <1>6, NotAbove
      <4> QED
        BY <1>6, <1>11, <1>12, <4>1
    <3> QED
      BY <1>6, <1>8, <1>11, <1>12, <2>1, <3>1 DEF RED, BLACK
  <2>2. CASE y = f
    <3>1. C[g] = B[f] /\ C[x] = B[f]
      BY <1>6, <1>11, <1>12
    <3> QED
      BY <1>6, <1>8, <1>11, <1>12, <2>2, <3>1
  <2>3. CASE y # g /\ y # f
    <3>1. C[R.n[y][t]] = B[N[y][t]]
      BY <1>9, <1>11, <2>3
    <3> QED
      BY <1>8, <1>10, <1>11, <2>3, <3>1
  <2> QED
    BY <2>1, <2>2, <2>3, Zenon
<1>14. Coloured(R.n, S, {})
  <2> SUFFICES ASSUME NEW y \in S, NEW t \in Sides, R.n[y].color = RED, R.n[R.n[y][t]].color = RED
               PROVE  FALSE
    BY Zenon DEF Coloured
  <2>1. \A z \in S, u \in Sides : N[z].color = RED /\ N[N[z][u]].color = RED => N[z][u] = x
    BY <1>1 DEF Coloured
  <2>2. y # f
    BY <1>8 DEF RED, BLACK
  <2>3. CASE y = g
    <3>1. N[f][o] # g
      BY <1>1, <1>2, <1>6, NotAbove
    <3>2. R.n[N[f][o]].color = N[N[f][o]].color /\ R.n[N[g][o]].color = N[N[g][o]].color
      BY <1>6, <1>8, <3>1, Zenon
    <3> QED
      BY <1>6, <1>8, <2>1, <2>3, <3>2 DEF RED, BLACK
  <2>4. CASE y # g
    <3>1. N[y][t] # g
      BY <1>8, <1>9, <2>2, <2>4 DEF RED, BLACK
    <3>2. R.n[y][t] = N[y][t] /\ N[y][t] # f /\ N[y][t] \in S \cup {Forge}
      BY <1>9, <2>2, <2>4, <3>1, Zenon
    <3>3. N[y][t] = x
      BY <1>8, <2>1, <2>2, <2>4, <3>1, <3>2
    <3> QED
      BY <1>1, <1>2, <1>6, <2>2, <3>3, OneFather
  <2> QED
    BY <2>3, <2>4, Zenon
<1>15. ForgeFine(R.n)
  BY <1>1, <1>6, <1>8 DEF ForgeFine
<1>16. N[T.first].color = BLACK => R.n[R.first].color = BLACK
  <2>1. T.first \in S /\ N[T.first].father = NULL
    BY <1>2, Zenon DEF IsTree, Linked
  <2> QED
    BY <1>7, <1>8, <2>1 DEF RED, BLACK
<1>17. Good(R, S, C, NULL, "lc", {})
  BY <1>7, <1>13, <1>14, <1>15 DEF Good
<1> QED
  BY <1>7, <1>8, <1>11, <1>16, <1>17

-----------------------------------------------------------------------------
\* A tree T is painted, which gives T2, and its node x is to be rotated to the side s.
Swing(T, T2, S, x, s, p) ==
  /\ T \in Trees /\ T2 \in Trees /\ T2.first = T.first
  /\ \E D : IsTree(T.n, T.first, S, D) /\ IsTree(T2.n, T2.first, S, D)
  /\ Alike(T.n, T2.n, S \cup {Forge})
  /\ x \in S /\ s \in Sides /\ p \in S /\ p = T.n[x][Other(s)]
\* R is what that gives.
Swung(T, T2, R, S, x, s, p) ==
  /\ R \in Trees /\ R.ok = T2.ok
  /\ R.first = IF T.n[x].father = NULL THEN p ELSE T.first
  /\ \E E : IsTree(R.n, R.first, S, E)
  /\ SameMap(T.n, R.n, S) /\ SameColours(T2.n, R.n, S)
  /\ R.n[x][s] = T.n[x][s] /\ R.n[x][Other(s)] = T.n[p][s]
  /\ R.n[p][s] = x /\ R.n[p][Other(s)] = T.n[p][Other(s)]
  /\ R.n[Forge].lc = T.n[Forge].lc /\ R.n[Forge].rc = T.n[Forge].rc
\* Elsewhere only p takes the place of x.
SwungAt(T, R, S, x, s, p, y) ==
  \A t \in Sides :
    /\ R.n[y][t] = IF T.n[y][t] = x THEN p ELSE T.n[y][t]
    /\ R.n[y][t] \in S \cup {Forge} /\ T.n[y][t] \in S \cup {Forge} /\ T.n[y][t] # p
    /\ T.n[y][t] \in S => T.n[y][t] # T.n[p][Other(s)]

(* What the rotation gives. *)
LEMMA SwungIs ==
  ASSUME NEW T, NEW T2, NEW S, NEW x, NEW s, NEW p, Swing(T, T2, S, x, s, p)
  PROVE  /\ Swung(T, T2, Rotate(T2, x, s), S, x, s, p)
         /\ \A y \in S : y # x /\ y # p => SwungAt(T, Rotate(T2, x, s), S, x, s, p, y)
<1> DEFINE N == T.n
           Mem == T2.n
           R == Rotate(T2, x, s)
<1>0. /\ T \in Trees /\ T2 \in Trees /\ T2.first = T.first
      /\ Alike(T.n, T2.n, S \cup {Forge})
      /\ x \in S /\ s \in Sides /\ p \in S /\ p = T.n[x][Other(s)]
  BY DEF Swing
<1>00. PICK D : IsTree(T.n, T.first, S, D) /\ IsTree(T2.n, T2.first, S, D)
  BY DEF Swing
<1>1. N \in Memory /\ Mem \in Memory /\ x \in S \cup {Forge} /\ p \in S \cup {Forge}
  BY <1>0, Zenon DEF Trees
<1>2. Mem[x][Other(s)] = p /\ Other(s) \in Sides /\ Mem[p][s] = N[p][s] /\ Mem[x][s] = N[x][s]
      /\ Mem[p][Other(s)] = N[p][Other(s)] /\ Mem[x].father = N[x].father
      /\ Mem[Forge].lc = N[Forge].lc /\ Mem[Forge].rc = N[Forge].rc
  <2>1. Other(s) \in Sides
    BY DEF Sides, Other
  <2> QED
    BY <1>0, <1>1, <2>1 DEF Alike
<1>3. /\ R \in Trees /\ R.ok = T2.ok
      /\ R.first = IF Mem[x].father = NULL THEN Mem[x][Other(s)] ELSE T2.first
      /\ Moved(Mem, R.n, S, x, s, Mem[x][Other(s)])
      /\ SameColours(Mem, R.n, S)
      /\ \E E : IsTree(R.n, R.first, S, E)
  <2>1. Mem[x][Other(s)] \in S
    BY <1>0, <1>2
  <2> QED
    BY <1>0, <1>00, <2>1, RotateAll, Zenon
<1> HIDE DEF R
<1>4. Moved(Mem, R.n, S, x, s, p)
  BY <1>2, <1>3, Zenon
<1>5. ASSUME NEW y \in S, y # x, y # p
      PROVE  SwungAt(T, R, S, x, s, p, y)
  <2> SUFFICES ASSUME NEW t \in Sides
               PROVE  /\ R.n[y][t] = IF N[y][t] = x THEN p ELSE N[y][t]
                      /\ R.n[y][t] \in S \cup {Forge} /\ N[y][t] \in S \cup {Forge} /\ N[y][t] # p
                      /\ N[y][t] \in S => N[y][t] # N[p][Other(s)]
    BY DEF SwungAt
  <2>1. Mem[y][t] = N[y][t]
    BY <1>0, Zenon DEF Alike
  <2> HIDE DEF Mem
  <2>2. /\ R.n[y][t] = IF Mem[y][t] = x THEN p ELSE Mem[y][t]
        /\ R.n[y][t] \in S \cup {Forge} /\ Mem[y][t] \in S \cup {Forge} /\ Mem[y][t] # p
        /\ Mem[y][t] \in S => Mem[y][t] \notin {Mem[x][s], Mem[p][s], Mem[p][Other(s)]}
    <3>1. IsTree(Mem, T2.first, S, D) /\ Mem \in Memory
      BY <1>00, <1>1 DEF Mem
    <3>2. x \in S /\ s \in Sides /\ p \in S /\ p = Mem[x][Other(s)]
      BY <1>0, <1>2 DEF Mem
    <3>3. Moved(Mem, R.n, S, x, s, p)
      BY <1>4, Zenon DEF Mem
    <3>4. ElsewhereAt(Mem, R.n, S, x, s, p, y, t)
      BY <1>5, <3>1, <3>2, <3>3, ElsewhereAll, Zenon
    <3> QED
      BY <3>4, Zenon DEF ElsewhereAt
  <2> QED
    BY <1>2, <2>1, <2>2 DEF Mem
<1>6. SameMap(N, R.n, S)
  BY <1>0, <1>4 DEF Moved, SameMap, Alike
<1>7. /\ R.n[x][s] = N[x][s] /\ R.n[x][Other(s)] = N[p][s]
      /\ R.n[p][s] = x /\ R.n[p][Other(s)] = N[p][Other(s)]
      /\ R.n[Forge].lc = N[Forge].lc /\ R.n[Forge].rc = N[Forge].rc
  BY <1>2, <1>4, Zenon DEF Moved
<1>8. Swung(T, T2, R, S, x, s, p)
  BY <1>0, <1>2, <1>3, <1>6, <1>7 DEF Swung
<1> QED
  BY <1>5, <1>8 DEF R

\* Heights and Coloured at one node.
HeightAt(N, B, f, s, y) ==
  \A t \in Sides : B[y] = B[N[y][t]] + (IF y = f /\ t = s THEN 1 ELSE 0)
                                     + (IF N[y].color = BLACK THEN 1 ELSE 0)
ColourAt(N, y) == \A t \in Sides : ~(N[y].color = RED /\ N[N[y][t]].color = RED)

\* The children l and r of y, on side s and on the other, and the black nodes i below y.
BlackOver(N, C, y, s, l, r, i) ==
  /\ s \in Sides /\ l = N[y][s] /\ r = N[y][Other(s)] /\ N[y].color = BLACK
  /\ i \in Nat /\ C[l] = i /\ C[r] = i /\ C[y] = i + 1
RedOver(N, C, y, s, l, r, i) ==
  /\ s \in Sides /\ l = N[y][s] /\ r = N[y][Other(s)] /\ N[y].color = RED
  /\ N[l].color = BLACK /\ N[r].color = BLACK
  /\ i \in Nat /\ C[r] = i /\ C[y] = i

(* A black node is as its children tell. *)
LEMMA BlackAt ==
  ASSUME NEW N, NEW C, NEW y, NEW s, NEW l, NEW r, NEW i, BlackOver(N, C, y, s, l, r, i),
         NEW f, NEW u, y # f
  PROVE  HeightAt(N, C, f, u, y) /\ ColourAt(N, y)
<1>1. \A t \in Sides : t = s \/ t = Other(s)
  BY DEF Sides, Other, BlackOver
<1>2. \A t \in Sides : C[N[y][t]] = i
  BY <1>1 DEF BlackOver
<1> QED
  BY <1>2 DEF HeightAt, ColourAt, RED, BLACK, BlackOver

(* So is a red one. *)
LEMMA RedAt ==
  ASSUME NEW N, NEW C, NEW y, NEW s, NEW l, NEW r, NEW i, RedOver(N, C, y, s, l, r, i),
         NEW f, NEW u, y # f, C[l] = i
  PROVE  HeightAt(N, C, f, u, y) /\ ColourAt(N, y)
<1>1. \A t \in Sides : t = s \/ t = Other(s)
  BY DEF Sides, Other, RedOver
<1>2. \A t \in Sides : C[N[y][t]] = i /\ N[N[y][t]].color = BLACK
  BY <1>1 DEF RedOver
<1> QED
  BY <1>2 DEF HeightAt, ColourAt, RED, BLACK, RedOver

(* And the one that is short of a black node on side s. *)
LEMMA RedShortAt ==
  ASSUME NEW N, NEW C, NEW y, NEW s, NEW l, NEW r, NEW i, RedOver(N, C, y, s, l, r, i),
         NEW j \in Nat, C[l] = j, i = j + 1
  PROVE  HeightAt(N, C, y, s, y) /\ ColourAt(N, y)
<1>1. s \in Sides /\ Other(s) # s /\ \A t \in Sides : t = s \/ t = Other(s)
  BY DEF Sides, Other, RedOver
<1>2. ASSUME NEW t \in Sides
      PROVE  /\ C[y] = C[N[y][t]] + (IF t = s THEN 1 ELSE 0)
             /\ N[N[y][t]].color = BLACK
  <2>1. CASE t = s
    BY <2>1 DEF RedOver
  <2>2. CASE t = Other(s)
    BY <1>1, <2>2 DEF RedOver
  <2> QED
    BY <1>1, <2>1, <2>2
<1>3. N[y].color # BLACK
  BY DEF RedOver, RED, BLACK
<1>4. \A t \in Sides : C[N[y][t]] + (IF t = s THEN 1 ELSE 0) \in Nat
  <2>1. \A t \in Sides : C[N[y][t]] \in Nat
    BY <1>1 DEF RedOver
  <2> QED
    BY <2>1
<1> QED
  BY <1>2, <1>3, <1>4 DEF HeightAt, ColourAt, RED, BLACK

\* No more than x, p and the far child q of p are painted, and p and q are no redder; and
\* what is above them is not higher or lower.
Recoloured(T, T2, S, x, p, q) ==
  /\ T2.n[Forge].color = BLACK
  /\ \A y \in S : y \notin {x, p, q} => T2.n[y].color = T.n[y].color
  /\ T2.n[p].color = RED => T.n[x].color = RED
AsHigh(S, B, C, f, u, h, v, x, p, q) ==
  /\ C \in [S \cup {Forge} -> Nat] /\ C[Forge] = 0 /\ C[p] = B[x]
  /\ \A y \in S : y \notin {x, p, q} =>
       C[y] = B[y] /\ \A t \in Sides : y = h /\ t = v <=> y = f /\ t = u
FineAt(N, S, C, h, v, x, p, q) ==
  \A y \in S : y \in {x, p, q} => HeightAt(N, C, h, v, y) /\ ColourAt(N, y)

(* All is well after a rotation when it is at x, p and q. *)
LEMMA SwungGood ==
  ASSUME NEW T, NEW S, NEW B, NEW f, NEW u, Good(T, S, B, f, u, {}),
         NEW T2, NEW x, NEW s, NEW p, Swing(T, T2, S, x, s, p),
         NEW R, R = Rotate(T2, x, s), NEW q, q = p \/ q = T.n[p][Other(s)],
         Recoloured(T, T2, S, x, p, q), NEW C, NEW h, NEW v,
         AsHigh(S, B, C, f, u, h, v, x, p, q), FineAt(R.n, S, C, h, v, x, p, q)
  PROVE  /\ Good(R, S, C, h, v, {})
         /\ T.n[T.first].color = BLACK => R.n[R.first].color = BLACK
<1> DEFINE N == T.n
<1>0. /\ T \in Trees /\ T2 \in Trees /\ x \in S /\ s \in Sides /\ p \in S /\ p = N[x][Other(s)]
  BY DEF Swing
<1>00. PICK D : IsTree(N, T.first, S, D)
  BY DEF Swing
<1>1. N \in Memory /\ Heights(N, S, B, f, u) /\ Coloured(N, S, {}) /\ ForgeFine(N)
      /\ Forge \notin S /\ NULL \notin S
  BY <1>00, RBAssumption DEF Good, Trees, IsTree, Sorted
<1>2. /\ Swung(T, T2, R, S, x, s, p)
      /\ \A y \in S : y # x /\ y # p => SwungAt(T, R, S, x, s, p, y)
  BY SwungIs
<1>3. ASSUME NEW y \in S, y \notin {x, p, q}, NEW t \in Sides
      PROVE  /\ R.n[y][t] = IF N[y][t] = x THEN p ELSE N[y][t]
             /\ R.n[y][t] \in S \cup {Forge} /\ N[y][t] \in S \cup {Forge}
             /\ N[y][t] # p /\ (N[y][t] \in S => N[y][t] # q)
  <2>1. SwungAt(T, R, S, x, s, p, y)
    BY <1>2, <1>3, Zenon
  <2> QED
    BY <1>3, <2>1 DEF SwungAt
<1>4. /\ \A y \in S : R.n[y].color = T2.n[y].color
      /\ R.n[Forge].color = BLACK /\ N[Forge].color = BLACK
      /\ \A y \in S : y \notin {x, p, q} => R.n[y].color = N[y].color
      /\ R.n[p].color = RED => N[x].color = RED
  BY <1>0, <1>1, <1>2 DEF Swung, SameColours, ForgeFine, Recoloured
<1>5. Heights(R.n, S, C, h, v)
  <2>0. C \in [S \cup {Forge} -> Nat] /\ C[Forge] = 0 /\ C[p] = B[x]
    BY DEF AsHigh
  <2> SUFFICES ASSUME NEW y \in S, NEW t \in Sides
               PROVE  C[y] = C[R.n[y][t]] + (IF y = h /\ t = v THEN 1 ELSE 0)
                                          + (IF R.n[y].color = BLACK THEN 1 ELSE 0)
    BY <2>0 DEF Heights
  <2>1. CASE y \in {x, p, q}
    <3>1. HeightAt(R.n, C, h, v, y)
      BY <2>1 DEF FineAt
    <3> QED
      BY <3>1 DEF HeightAt
  <2>2. CASE y \notin {x, p, q}
    <3>1. B[y] = B[N[y][t]] + (IF y = f /\ t = u THEN 1 ELSE 0)
                            + (IF N[y].color = BLACK THEN 1 ELSE 0)
          /\ B[Forge] = 0
      BY <1>1 DEF Heights
    <3>2. C[R.n[y][t]] = B[N[y][t]]
      <4>1. CASE N[y][t] = x
        BY <1>3, <2>0, <2>2, <4>1, Zenon
      <4>2. CASE N[y][t] # x /\ N[y][t] = Forge
        BY <1>3, <2>0, <2>2, <3>1, <4>2
      <4>3. CASE N[y][t] # x /\ N[y][t] # Forge
        <5>1. R.n[y][t] = N[y][t] /\ N[y][t] \in S /\ N[y][t] \notin {x, p, q}
          BY <1>3, <2>2, <4>3
        <5> QED
          BY <5>1, Zenon DEF AsHigh
      <4> QED
        BY <4>1, <4>2, <4>3, Zenon
    <3>3. C[y] = B[y] /\ R.n[y].color = N[y].color /\ (y = h /\ t = v <=> y = f /\ t = u)
      BY <1>4, <2>2 DEF AsHigh
    <3> QED
      BY <3>1, <3>2, <3>3
  <2> QED
    BY <2>1, <2>2
<1>6. Coloured(R.n, S, {})
  <2> SUFFICES ASSUME NEW y \in S, NEW t \in Sides, R.n[y].color = RED, R.n[R.n[y][t]].color = RED
               PROVE  FALSE
    BY DEF Coloured
  <2>1. CASE y \in {x, p, q}
    <3>1. ColourAt(R.n, y)
      BY <2>1 DEF FineAt
    <3> QED
      BY <3>1 DEF ColourAt
  <2>2. CASE y \notin {x, p, q}
    <3>1. ~(N[y].color = RED /\ N[N[y][t]].color = RED)
      BY <1>1 DEF Coloured
    <3>2. N[y].color = RED
      BY <1>4, <2>2
    <3>3. CASE N[y][t] = x
      <4>1. R.n[y][t] = p
        BY <1>3, <2>2, <3>3, Zenon
      <4> QED
        BY <1>4, <3>1, <3>2, <3>3, <4>1, Zenon
    <3>4. CASE N[y][t] # x
      <4>1. R.n[y][t] = N[y][t] /\ N[y][t] \in S \cup {Forge} /\ N[y][t] # p
            /\ (N[y][t] \in S => N[y][t] # q)
        BY <1>3, <2>2, <3>4
      <4>2. R.n[N[y][t]].color = N[N[y][t]].color
        BY <1>4, <3>4, <4>1
      <4> QED
        BY <3>1, <3>2, <4>1, <4>2
    <3> QED
      BY <3>3, <3>4
  <2> QED
    BY <2>1, <2>2, Zenon
<1>7. ForgeFine(R.n)
  BY <1>1, <1>2, <1>4 DEF ForgeFine, Swung
<1>8. N[T.first].color = BLACK => R.n[R.first].color = BLACK
  <2>0. R.first = IF N[x].father = NULL THEN p ELSE T.first
    BY <1>2 DEF Swung
  <2>1. T.first \in S /\ N[T.first].father = NULL
    BY <1>00 DEF IsTree, Linked
  <2>2. N[p].father = x /\ (q # p /\ q \in S => N[q].father = p) /\ x # NULL /\ p # NULL
    <3>1. x # NULL /\ p # NULL /\ Other(s) \in Sides
      BY <1>0, <1>1 DEF Sides, Other
    <3>2. \A z \in S : \A t \in Sides : N[z][t] \in S => N[N[z][t]].father = z
      BY <1>00, <1>1, LinksOf
    <3>3. N[p].father = x
      BY <1>0, <3>1, <3>2, Zenon
    <3>4. q # p /\ q \in S => N[q].father = p
      BY <1>0, <3>1, <3>2
    <3> QED
      BY <3>1, <3>3, <3>4
  <2>3. R.n[p].color \in {RED, BLACK}
    <3>1. p \in Nodes
      BY <1>0, <1>00, Zenon DEF IsTree, Sorted
    <3> QED
      BY <1>2, <3>1, Zenon DEF Swung, Trees, Memory, NodeRec
  <2>4. N[x].father = NULL => x = T.first
    BY <1>0, <1>00, <1>1, LinksOf
  <2>5. CASE N[x].father = NULL
    BY <1>4, <2>0, <2>3, <2>4, <2>5 DEF RED, BLACK
  <2>6. CASE N[x].father # NULL
    <3>1. T.first \notin {x, p, q}
      BY <2>1, <2>2, <2>6
    <3> QED
      BY <1>4, <2>0, <2>1, <2>6, <3>1
  <2> QED
    BY <2>5, <2>6
<1> QED
  BY <1>2, <1>5, <1>6, <1>7, <1>8 DEF Good, Swung

-----------------------------------------------------------------------------
(* The cases of an iteration of d_adjust. *)

\* In d_adjust: what is at x, on side s of f, is short of a black node, and black.
Short(T, S, B, x, f, s) ==
  /\ Good(T, S, B, f, s, {}) /\ f \in S /\ s \in Sides /\ T.n[f][s] = x
  /\ T.n[x].color = BLACK /\ T.n[T.first].color = BLACK

(* The heights and the colours of the children. *)
LEMMA InGood ==
  ASSUME NEW T, NEW S, NEW B, NEW f, NEW u, Good(T, S, B, f, u, {}), NEW y \in S, NEW t \in Sides
  PROVE  /\ T.n \in Memory /\ T \in Trees /\ y # Forge /\ y # NULL /\ T.n[y].color \in {RED, BLACK}
         /\ T.n[y][t] \in S \cup {Forge} /\ T.n[y][t] # y
         /\ T.n[y].color = RED => T.n[T.n[y][t]].color = BLACK
         /\ T.n[y][t] \in S => T.n[T.n[y][t]].father = y /\ T.n[y][t] # T.n[y][Other(t)]
         /\ B[y] \in Nat /\ B[T.n[y][t]] \in Nat /\ B[Forge] = 0
         /\ y # f \/ t # u =>
              B[y] = B[T.n[y][t]] + (IF T.n[y].color = BLACK THEN 1 ELSE 0)
         /\ y = f /\ t = u =>
              B[y] = B[T.n[y][t]] + 1 + (IF T.n[y].color = BLACK THEN 1 ELSE 0)
<1> DEFINE N == T.n
<1>1. T \in Trees /\ N \in Memory /\ Heights(N, S, B, f, u) /\ Coloured(N, S, {}) /\ ForgeFine(N)
  BY DEF Good, Trees
<1>2. PICK D : IsTree(N, T.first, S, D)
  BY DEF Good
<1>3. /\ N[y][t] \in S \cup {Forge} /\ N[y][t] # y
      /\ N[y][t] \in S => N[N[y][t]].father = y /\ N[y][t] # N[y][Other(t)]
  <2> HIDE DEF N
  <2>1. \A w \in Sides : N[y][w] \in S \cup {Forge} /\ N[y][w] # y
    BY <1>1, <1>2, Children
  <2>2. N[y][t] \in S => N[N[y][t]].father = y /\ N[y][t] # N[y][Other(t)]
    BY <1>1, <1>2, Children
  <2> QED
    BY <2>1, <2>2
<1>4. y \in Nodes /\ N[y].color \in {RED, BLACK} /\ N[N[y][t]].color \in {RED, BLACK}
      /\ y # Forge /\ y # NULL
  <2>1. S \subseteq Nodes
    BY <1>2 DEF IsTree, Sorted
  <2> QED
    BY <1>1, <1>3, <2>1, RBAssumption DEF Memory, NodeRec
<1>5. N[y].color = RED => N[N[y][t]].color = BLACK
  BY <1>1, <1>4 DEF Coloured
<1>6. /\ B[y] \in Nat /\ B[N[y][t]] \in Nat /\ B[Forge] = 0
      /\ y # f \/ t # u => B[y] = B[N[y][t]] + (IF N[y].color = BLACK THEN 1 ELSE 0)
      /\ y = f /\ t = u => B[y] = B[N[y][t]] + 1 + (IF N[y].color = BLACK THEN 1 ELSE 0)
  BY <1>1, <1>2, HeightIn
<1> QED
  BY <1>1, <1>3, <1>4, <1>5, <1>6

\* c is the child of y on side t.
IsChild(T, y, t, c) == c = T.n[y][t]

(* What InGood says of a child. *)
LEMMA ChildIs ==
  ASSUME NEW T, NEW S, NEW B, NEW f, NEW u, Good(T, S, B, f, u, {}), NEW y \in S, NEW t \in Sides,
         NEW c, IsChild(T, y, t, c)
  PROVE  /\ c \in S \cup {Forge} /\ c # y
         /\ T.n[y].color = RED => T.n[c].color = BLACK
         /\ c \in S => T.n[c].father = y
         /\ B[y] \in Nat /\ B[c] \in Nat
         /\ (y # f \/ t # u) /\ T.n[y].color = BLACK => B[y] = B[c] + 1
         /\ (y # f \/ t # u) /\ T.n[y].color = RED => B[y] = B[c]
<1>1. c = T.n[y][t]
  BY Zenon DEF IsChild
<1>2. /\ T.n[y][t] \in S \cup {Forge} /\ T.n[y][t] # y
      /\ T.n[y].color = RED => T.n[T.n[y][t]].color = BLACK
      /\ T.n[y][t] \in S => T.n[T.n[y][t]].father = y
      /\ B[y] \in Nat /\ B[T.n[y][t]] \in Nat
  BY InGood
<1>3. /\ (y # f \/ t # u) =>
           B[y] = B[T.n[y][t]] + (IF T.n[y].color = BLACK THEN 1 ELSE 0)
  BY InGood
<1>4. RED # BLACK
  BY DEF RED, BLACK
<1> QED
  BY <1>1, <1>2, <1>3, <1>4

(* A child of a child is not the node. *)
LEMMA GrandIs ==
  ASSUME NEW T, NEW S, NEW B, NEW f, NEW u, Good(T, S, B, f, u, {}), NEW y \in S, NEW t \in Sides,
         NEW c \in S, IsChild(T, y, t, c), NEW v \in Sides, NEW d, IsChild(T, c, v, d)
  PROVE  d # y
<1>1. PICK D : IsTree(T.n, T.first, S, D) /\ T.n \in Memory
  BY DEF Good, Trees
<1>2. c = T.n[y][t] /\ d = T.n[c][v]
  BY Zenon DEF IsChild
<1>3. T.n[c][v] # y
  BY <1>1, <1>2, NotAbove
<1> QED
  BY <1>2, <1>3

(* Nor is a child of that. *)
LEMMA GreatIs ==
  ASSUME NEW T, NEW S, NEW B, NEW f, NEW u, Good(T, S, B, f, u, {}), NEW y \in S, NEW t \in Sides,
         NEW c \in S, IsChild(T, y, t, c), NEW v \in Sides, NEW d \in S, IsChild(T, c, v, d),
         NEW w \in Sides, NEW e, IsChild(T, d, w, e)
  PROVE  e # y
<1>1. PICK D : IsTree(T.n, T.first, S, D) /\ T.n \in Memory
  BY Zenon DEF Good, Trees
<1>2. c = T.n[y][t] /\ d = T.n[c][v] /\ e = T.n[d][w]
  BY DEF IsChild
<1>3. T.n[d][w] # y
  BY <1>1, <1>2, NotBelow, Zenon
<1> QED
  BY <1>2, <1>3, Zenon

(* The brother of x. *)
LEMMA BrotherIs ==
  ASSUME NEW T, NEW S, NEW B, NEW x, NEW f, NEW s, Short(T, S, B, x, f, s),
         NEW b, b = T.n[f][Other(s)]
  PROVE  /\ b \in S /\ b # x /\ b # f /\ T.n[b].father = f /\ x \in S \cup {Forge} /\ x # f
         /\ Other(s) \in Sides /\ Other(s) # s /\ Other(Other(s)) = s
         /\ \A t \in Sides : t = s \/ t = Other(s)
         /\ B[x] \in Nat /\ B[b] = B[x] + 1 /\ f # NULL
         /\ B[f] = B[b] + (IF T.n[f].color = BLACK THEN 1 ELSE 0)
         /\ Brother(T, x, f) = b /\ SideOf(T, x, f) = s
<1>1. Good(T, S, B, f, s, {}) /\ f \in S /\ s \in Sides /\ T.n[f][s] = x
  BY DEF Short
<1>2. Other(s) \in Sides /\ Other(s) # s /\ Other(Other(s)) = s
      /\ \A t \in Sides : t = s \/ t = Other(s)
  BY <1>1 DEF Sides, Other
<1>3. /\ x \in S \cup {Forge} /\ x # f /\ B[x] \in Nat /\ B[Forge] = 0 /\ f # NULL
      /\ B[f] = B[x] + 1 + (IF T.n[f].color = BLACK THEN 1 ELSE 0)
      /\ x \in S => x # T.n[f][Other(s)]
  BY <1>1, InGood
<1>4. /\ b \in S \cup {Forge} /\ b # f /\ B[b] \in Nat
      /\ B[f] = B[b] + (IF T.n[f].color = BLACK THEN 1 ELSE 0)
      /\ b \in S => T.n[b].father = f
  BY <1>1, <1>2, InGood
<1>5. B[b] = B[x] + 1
  BY <1>3, <1>4
<1>6. b \in S /\ b # x
  BY <1>3, <1>4, <1>5
<1>7. Brother(T, x, f) = b /\ SideOf(T, x, f) = s
  <2>1. CASE s = "lc"
    BY <1>1, <2>1 DEF Brother, SideOf, Other
  <2>2. CASE s = "rc"
    BY <1>1, <1>6, <2>2, Zenon DEF Brother, SideOf, Other
  <2> QED
    BY <1>1, <2>1, <2>2 DEF Sides
<1> QED
  BY <1>2, <1>3, <1>4, <1>5, <1>6, <1>7

\* R is T with y and z painted.
TwoPainted(T, R, S, y, c, z, d) ==
  /\ R \in Trees /\ R.ok = T.ok /\ R.first = T.first
  /\ Alike(T.n, R.n, S \cup {Forge}) /\ R.n[y].color = c /\ R.n[z].color = d
  /\ \A w \in S \cup {Forge} : w # y /\ w # z => R.n[w].color = T.n[w].color

(* A tree and two paints. *)
LEMMA TwoPaints ==
  ASSUME NEW T \in Trees, NEW S, NEW D, IsTree(T.n, T.first, S, D), NEW y \in S, NEW z \in S,
         NEW c \in {RED, BLACK}, NEW d \in {RED, BLACK}, y # z,
         NEW R, R = Paint(Paint(T, y, c), z, d)
  PROVE  TwoPainted(T, R, S, y, c, z, d) /\ IsTree(R.n, R.first, S, D)
<1> DEFINE T1 == Paint(T, y, c)
<1>1. /\ T1 \in Trees /\ T1.ok = T.ok /\ T1.first = T.first /\ IsTree(T1.n, T.first, S, D)
      /\ Painted(T.n, T1.n, S \cup {Forge}, y, c)
  <2>1. Repainted(T, T1, S, D, y, c)
    BY Repaint
  <2> HIDE DEF T1
  <2> QED
    BY <2>1 DEF Repainted
<1>2. Repaints(T1, R, z, d)
  BY DEF Repaints
<1> HIDE DEF T1
<1>3. /\ R \in Trees /\ R.ok = T1.ok /\ R.first = T1.first /\ IsTree(R.n, T1.first, S, D)
      /\ Painted(T1.n, R.n, S \cup {Forge}, z, d)
  <2>1. T1 \in Trees /\ IsTree(T1.n, T1.first, S, D)
    BY <1>1
  <2>2. Repainted(T1, R, S, D, z, d)
    BY <1>2, <2>1, RepaintIs, Zenon
  <2> QED
    BY <2>2 DEF Repainted
<1>4. Alike(T.n, R.n, S \cup {Forge})
  BY <1>1, <1>3 DEF Painted, Alike
<1>5. \A w \in S \cup {Forge} :
        R.n[w].color = IF w = z THEN d ELSE IF w = y THEN c ELSE T.n[w].color
  BY <1>1, <1>3 DEF Painted
<1> QED
  BY <1>1, <1>3, <1>4, <1>5 DEF TwoPainted

-----------------------------------------------------------------------------
\* The brother b of x is red, and comes up.
RedBrother(T, S, B, x, f, s, o, b, n, q, T2, R) ==
  /\ Short(T, S, B, x, f, s) /\ o = Other(s) /\ b = T.n[f][o] /\ T.n[b].color = RED
  /\ n = T.n[b][s] /\ q = T.n[b][o]
  /\ T2 = Paint(Paint(T, f, RED), b, BLACK) /\ R = Rotate(T2, f, s)

(* A red brother b comes up. *)
LEMMA RedBrotherTree ==
  ASSUME NEW T, NEW S, NEW B, NEW x, NEW f, NEW s, NEW o, NEW b, NEW n, NEW q, NEW T2, NEW R,
         RedBrother(T, S, B, x, f, s, o, b, n, q, T2, R)
  PROVE  /\ T.n[f].color = BLACK /\ R.ok = T.ok /\ SameMap(T.n, R.n, S)
         /\ R.n[f][o] = n /\ R.n[n].color = BLACK
         /\ \E C : Short(R, S, C, x, f, s) /\ C[x] = B[x]
<1> DEFINE N == T.n
<1>0. Short(T, S, B, x, f, s)
  BY DEF RedBrother
<1>a. o = Other(s) /\ b = N[f][o] /\ N[b].color = RED /\ n = N[b][s] /\ q = N[b][o]
  BY DEF RedBrother
<1>r. N[b].color = RED
  BY <1>a, Zenon
<1>b. T2 = Paint(Paint(T, f, RED), b, BLACK) /\ R = Rotate(T2, f, s)
  BY DEF RedBrother
<1>1. /\ Good(T, S, B, f, s, {}) /\ f \in S /\ s \in Sides /\ N[f][s] = x
      /\ N[x].color = BLACK /\ N[T.first].color = BLACK /\ T \in Trees /\ ForgeFine(N)
  BY <1>0 DEF Short, Good
<1>2. PICK D : IsTree(N, T.first, S, D)
  BY <1>0, Zenon DEF Short, Good
<1>3. /\ b \in S /\ b # x /\ b # f /\ N[b].father = f /\ x \in S \cup {Forge} /\ x # f
      /\ o \in Sides /\ o # s /\ Other(o) = s /\ (\A t \in Sides : t = s \/ t = o)
      /\ B[x] \in Nat /\ B[b] = B[x] + 1 /\ f # NULL
  BY <1>0, <1>a, BrotherIs
<1>4. N[f].color = BLACK /\ B[f] = B[b] + 1
  <2>1. N[f].color = RED => N[N[f][o]].color = BLACK
    BY <1>1, <1>3, InGood
  <2>2. N[f].color \in {RED, BLACK}
    BY <1>1, InGood
  <2>3. B[f] = B[b] + (IF T.n[f].color = BLACK THEN 1 ELSE 0)
    BY <1>0, <1>a, BrotherIs
  <2>4. N[f].color = BLACK
    BY <1>a, <2>1, <2>2, Zenon DEF RED, BLACK
  <2> QED
    BY <2>3, <2>4, Zenon
<1>5. /\ n \in S \cup {Forge} /\ n # b /\ N[n].color = BLACK /\ B[n] = B[b] /\ n # f
  <2>1. RED # BLACK
    BY DEF RED, BLACK
  <2>2. n # f
    BY <1>a, <1>1, <1>2, <1>3, NotAbove DEF Trees
  <2>3. /\ N[b][s] \in S \cup {Forge} /\ N[b][s] # b /\ N[N[b][s]].color = BLACK
        /\ B[N[b][s]] = B[b]
    BY <1>r, <1>1, <1>3, <2>1, InGood
  <2> QED
    BY <1>a, <2>2, <2>3, Zenon
<1>6. /\ q \in S \cup {Forge} /\ q # b /\ N[q].color = BLACK /\ B[q] = B[b] /\ q # f
  <2>1. RED # BLACK
    BY DEF RED, BLACK
  <2>2. q # f
    BY <1>a, <1>1, <1>2, <1>3, NotAbove DEF Trees
  <2>3. /\ N[b][o] \in S \cup {Forge} /\ N[b][o] # b /\ N[N[b][o]].color = BLACK
        /\ B[N[b][o]] = B[b]
    BY <1>r, <1>1, <1>3, <2>1, InGood
  <2> QED
    BY <1>a, <2>2, <2>3, Zenon
<1>7. f # Forge /\ b # Forge
  BY <1>1, <1>3, InGood
<1>8. /\ T2 \in Trees /\ T2.ok = T.ok /\ T2.first = T.first /\ IsTree(T2.n, T.first, S, D)
      /\ Alike(N, T2.n, S \cup {Forge}) /\ T2.n[f].color = RED /\ T2.n[b].color = BLACK
      /\ \A w \in S \cup {Forge} : w # f /\ w # b => T2.n[w].color = N[w].color
  <2>1. RED \in {RED, BLACK} /\ BLACK \in {RED, BLACK}
    BY Zenon
  <2>2. T \in Trees /\ IsTree(T.n, T.first, S, D) /\ f \in S /\ b \in S /\ f # b
    BY <1>1, <1>2, <1>3, Zenon
  <2> HIDE <1>1, <1>2, <1>3
  <2>3. TwoPainted(T, T2, S, f, RED, b, BLACK) /\ IsTree(T2.n, T2.first, S, D)
    BY <1>b, <2>1, <2>2, TwoPaints
  <2> QED
    BY <2>3, Zenon DEF TwoPainted
<1>9. Swing(T, T2, S, f, s, b)
  BY <1>a, <1>1, <1>2, <1>3, <1>8 DEF Swing
<1>10. /\ R.n[f][s] = x /\ R.n[f][o] = n /\ R.n[b][s] = f /\ R.n[b][o] = q
       /\ R.ok = T.ok /\ SameMap(N, R.n, S) /\ SameColours(T2.n, R.n, S)
  <2>1. Swung(T, T2, R, S, f, s, b)
    BY <1>b, <1>9, SwungIs
  <2> QED
    BY <1>a, <1>1, <1>8, <2>1, Zenon DEF Swung
<1>11. /\ R.n[f].color = RED /\ R.n[b].color = BLACK
       /\ \A y \in S \cup {Forge} : y # f /\ y # b => R.n[y].color = N[y].color
  <2>1. \A y \in S \cup {Forge} : R.n[y].color = T2.n[y].color
    BY <1>10, ZenonT(30) DEF SameColours
  <2>2. R.n[f].color = T2.n[f].color /\ R.n[b].color = T2.n[b].color
    BY <1>1, <1>3, <2>1
  <2>3. \A y \in S \cup {Forge} : y # f /\ y # b => R.n[y].color = N[y].color
    BY <1>8, <2>1, ZenonT(30)
  <2> QED
    BY <1>8, <2>2, <2>3, ZenonT(30)
<1> DEFINE C == [B EXCEPT ![f] = B[b], ![b] = B[f]]
<1>12. /\ C \in [S \cup {Forge} -> Nat] /\ C[f] = B[b] /\ C[b] = B[b] + 1 /\ C[Forge] = 0
       /\ \A y \in S \cup {Forge} : y # f /\ y # b => C[y] = B[y]
  <2>1. B \in [S \cup {Forge} -> Nat] /\ B[Forge] = 0
    BY <1>1 DEF Good, Heights
  <2> QED
    BY <1>1, <1>3, <1>4, <1>7, <2>1
<1> HIDE DEF C
<1>13. /\ C[x] = B[x] /\ C[n] = B[b] /\ C[q] = B[b] /\ R.n[x].color = BLACK /\ R.n[n].color = BLACK
  BY <1>1, <1>3, <1>5, <1>6, <1>11, <1>12, ZenonT(30)
<1>14. HeightAt(R.n, C, f, s, f) /\ ColourAt(R.n, f)
  <2>1. RedOver(R.n, C, f, s, x, n, B[b])
    BY <1>a, <1>1, <1>3, <1>10, <1>11, <1>12, <1>13, ZenonT(30) DEF RedOver
  <2>2. C[x] = B[x] /\ B[b] = B[x] + 1 /\ B[x] \in Nat
    BY <1>3, <1>13, Zenon
  <2> QED
    BY <2>1, <2>2, RedShortAt
<1>15. HeightAt(R.n, C, f, s, b) /\ ColourAt(R.n, b)
  <2>1. BlackOver(R.n, C, b, s, f, q, B[b])
    BY <1>a, <1>1, <1>3, <1>10, <1>11, <1>12, <1>13, ZenonT(30) DEF BlackOver
  <2> QED
    BY <1>3, <2>1, BlackAt
<1>16. FineAt(R.n, S, C, f, s, f, b, b)
  BY <1>14, <1>15 DEF FineAt
<1>17. Recoloured(T, T2, S, f, b, b)
  <2>1. T2.n[Forge].color = N[Forge].color
    BY <1>7, <1>8, Zenon
  <2>2. N[Forge].color = BLACK
    BY <1>1, Zenon DEF ForgeFine
  <2>3. \A y \in S : y \notin {f, b} => T2.n[y].color = N[y].color
    BY <1>8, Zenon
  <2>4. ~ (T2.n[b].color = RED)
    BY <1>8 DEF RED, BLACK
  <2> QED
    BY <2>1, <2>2, <2>3, <2>4 DEF Recoloured
<1>18. AsHigh(S, B, C, f, s, f, s, f, b, b)
  BY <1>3, <1>4, <1>12, Zenon DEF AsHigh
<1>19. Good(R, S, C, f, s, {}) /\ R.n[R.first].color = BLACK
  <2>1. /\ Good(T, S, B, f, s, {}) /\ R = Rotate(T2, f, s) /\ N[T.first].color = BLACK
        /\ b = b \/ b = T.n[b][Other(s)]
    BY <1>b, <1>1
  <2> QED
    BY <1>9, <1>16, <1>17, <1>18, <2>1, SwungGood
<1>20. Short(R, S, C, x, f, s)
  BY <1>1, <1>10, <1>13, <1>19, Zenon DEF Short
<1> QED
  BY <1>4, <1>10, <1>13, <1>20, Zenon

(* The same, of the nodes by their links. *)
LEMMA BlackBrotherTree ==
  ASSUME NEW T, NEW S, NEW B, NEW x, NEW f, NEW s, Short(T, S, B, x, f, s),
         NEW o, o = Other(s), NEW b, b = T.n[f][o], T.n[b].color = RED,
         NEW n, n = T.n[b][s], NEW q, q = T.n[b][o],
         NEW T2, T2 = Paint(Paint(T, f, RED), b, BLACK), NEW R, R = Rotate(T2, f, s)
  PROVE  /\ T.n[f].color = BLACK /\ R.ok = T.ok /\ SameMap(T.n, R.n, S)
         /\ R.n[f][o] = n /\ R.n[n].color = BLACK
         /\ \E C : Short(R, S, C, x, f, s) /\ C[x] = B[x]
BY RedBrotherTree DEF RedBrother

\* The brother b of x is black, q is its child on the far side and n that on the near one.
Around(T, f, s, o, b, q, n) ==
  /\ o = Other(s) /\ b = T.n[f][o] /\ T.n[b].color = BLACK
  /\ q = T.n[b][o] /\ n = T.n[b][s]
TurnTo(T, b, o, n, T2, R) == T2 = Paint(Paint(T, n, BLACK), b, RED) /\ R = Rotate(T2, b, o)
DRotateTo(T, f, s, b, q, T2, R) ==
  T2 = Paint(Paint(Paint(T, b, T.n[f].color), f, BLACK), q, BLACK) /\ R = Rotate(T2, f, s)

\* What is known of them.
AroundAre(T, S, B, x, f, s, o, b, q, n) ==
  /\ b \in S /\ b # x /\ b # f /\ b # NULL /\ b # Forge /\ T.n[b].father = f
  /\ x \in S \cup {Forge} /\ x # f /\ f # NULL /\ f # Forge
  /\ o \in Sides /\ o # s /\ o = Other(s) /\ s = Other(o)
  /\ B[x] \in Nat /\ B[b] = B[x] + 1
  /\ T.n[f].color \in {RED, BLACK}
  /\ T.n[f].color = BLACK => B[f] = B[b] + 1
  /\ T.n[f].color = RED => B[f] = B[b]
  /\ q \in S \cup {Forge} /\ q # b /\ q # f /\ B[q] = B[x]
  /\ n \in S \cup {Forge} /\ n # b /\ n # f /\ B[n] = B[x]
  /\ n \in S => q # n
  /\ q \in S => q # n
  /\ IsChild(T, f, s, x) /\ IsChild(T, f, o, b) /\ IsChild(T, b, o, q) /\ IsChild(T, b, s, n)

(* Two children are not the same. *)
LEMMA TwinIs ==
  ASSUME NEW T, NEW S, NEW B, NEW f, NEW u, Good(T, S, B, f, u, {}), NEW y \in S,
         NEW t \in Sides, NEW v \in Sides, t # v,
         NEW c \in S, IsChild(T, y, t, c), NEW d, IsChild(T, y, v, d)
  PROVE  c # d
<1>1. c = T.n[y][t] /\ d = T.n[y][v]
  BY DEF IsChild
<1>2. v = Other(t)
  BY DEF Sides, Other
<1>3. T.n[y][t] \in S => T.n[y][t] # T.n[y][Other(t)]
  BY InGood
<1> QED
  BY <1>1, <1>2, <1>3

(* It follows. *)
LEMMA AroundIs ==
  ASSUME NEW T, NEW S, NEW B, NEW x, NEW f, NEW s, Short(T, S, B, x, f, s),
         NEW o, NEW b, NEW q, NEW n, Around(T, f, s, o, b, q, n)
  PROVE  AroundAre(T, S, B, x, f, s, o, b, q, n)
<1>1. /\ Good(T, S, B, f, s, {}) /\ f \in S /\ s \in Sides
  BY DEF Short, Good
<1>2. IsChild(T, f, s, x) /\ IsChild(T, f, o, b) /\ IsChild(T, b, o, q) /\ IsChild(T, b, s, n)
  BY DEF IsChild, Short, Around
<1>3. T.n[b].color = BLACK /\ o = Other(s)
  BY DEF Around
<1>4. /\ b \in S /\ b # x /\ b # f /\ T.n[b].father = f /\ x \in S \cup {Forge} /\ x # f
      /\ o \in Sides /\ o # s /\ Other(o) = s
      /\ B[x] \in Nat /\ B[b] = B[x] + 1 /\ f # NULL
      /\ B[f] = B[b] + (IF T.n[f].color = BLACK THEN 1 ELSE 0)
  <2>1. b = T.n[f][Other(s)]
    BY Zenon DEF Around
  <2> QED
    BY <1>3, <2>1, BrotherIs
<1>5. /\ T.n[f].color \in {RED, BLACK} /\ f # Forge /\ b # Forge /\ b # NULL
  BY <1>1, <1>4, InGood
<1>6. /\ T.n[f].color = BLACK => B[f] = B[b] + 1
      /\ T.n[f].color = RED => B[f] = B[b]
  BY <1>4 DEF RED, BLACK
<1>7. q \in S \cup {Forge} /\ q # b /\ B[q] = B[x]
  <2>1. q \in S \cup {Forge} /\ q # b /\ B[q] \in Nat /\ B[b] = B[q] + 1
    BY <1>1, <1>2, <1>3, <1>4, ChildIs
  <2> QED
    BY <1>4, <2>1
<1>8. n \in S \cup {Forge} /\ n # b /\ B[n] = B[x]
  <2>1. n \in S \cup {Forge} /\ n # b /\ B[n] \in Nat /\ B[b] = B[n] + 1
    BY <1>1, <1>2, <1>3, <1>4, ChildIs
  <2> QED
    BY <1>4, <2>1
<1>9. q # f /\ n # f
  BY <1>1, <1>2, <1>4, GrandIs
<1>10. q \in S => q # n
  BY <1>1, <1>2, <1>4, TwinIs
<1> QED
  BY <1>2, <1>3, <1>4, <1>5, <1>6, <1>7, <1>8, <1>9, <1>10 DEF AroundAre

(* The black brother b has a red child n on the near side only: n comes up. *)
LEMMA TurnTree ==
  ASSUME NEW T, NEW S, NEW B, NEW x, NEW f, NEW s, Short(T, S, B, x, f, s),
         NEW o, NEW b, NEW q, NEW n, Around(T, f, s, o, b, q, n),
         T.n[q].color = BLACK, T.n[n].color = RED,
         NEW T2, NEW R, TurnTo(T, b, o, n, T2, R)
  PROVE  /\ R.ok = T.ok /\ SameMap(T.n, R.n, S)
         /\ R.n[f][o] = n /\ R.n[n].color = BLACK /\ R.n[n][o] = b /\ R.n[b].color = RED
         /\ \E C : Short(R, S, C, x, f, s) /\ C[x] = B[x]
<1> DEFINE N == T.n
<1>0. PICK m, k : IsChild(T, n, o, m) /\ IsChild(T, n, s, k)
  BY DEF IsChild
<1>b. T2 = Paint(Paint(T, n, BLACK), b, RED) /\ R = Rotate(T2, b, o)
  BY DEF TurnTo
<1>1. /\ Good(T, S, B, f, s, {}) /\ f \in S /\ s \in Sides
      /\ N[x].color = BLACK /\ N[T.first].color = BLACK /\ T \in Trees /\ ForgeFine(N)
  BY DEF Short, Good
<1>2. PICK D : IsTree(N, T.first, S, D)
  BY DEF Short, Good
<1>3. AroundAre(T, S, B, x, f, s, o, b, q, n)
  BY AroundIs
<1>a. /\ b \in S /\ b # x /\ b # f /\ b # NULL /\ b # Forge /\ x \in S \cup {Forge} /\ x # f
      /\ o \in Sides /\ o # s /\ o = Other(s) /\ s = Other(o)
      /\ B[x] \in Nat /\ B[b] = B[x] + 1 /\ f # NULL /\ f # Forge
      /\ q \in S \cup {Forge} /\ q # b /\ q # f /\ B[q] = B[x]
      /\ n \in S \cup {Forge} /\ n # b /\ n # f /\ B[n] = B[x]
      /\ IsChild(T, f, s, x) /\ IsChild(T, f, o, b) /\ IsChild(T, b, o, q) /\ IsChild(T, b, s, n)
  BY <1>3 DEF AroundAre
<1>c. N[b].color = BLACK
  BY DEF Around
<1>4. RED # BLACK
  BY DEF RED, BLACK
<1>6. n \in S /\ n # q /\ n # x /\ n # Forge
  <2>1. n # Forge /\ n # x /\ n # q
    BY <1>1, <1>4 DEF ForgeFine
  <2> QED
    BY <1>a, <2>1
<1>8. m \in S \cup {Forge} /\ m # n /\ m # b /\ N[m].color = BLACK /\ B[m] = B[x]
  <2>1. m # b
    BY <1>0, <1>1, <1>a, <1>6, GrandIs
  <2>2. m \in S \cup {Forge} /\ m # n /\ N[m].color = BLACK /\ B[n] = B[m]
    BY <1>0, <1>1, <1>a, <1>6, ChildIs
  <2> QED
    BY <1>a, <2>1, <2>2
<1>9. k \in S \cup {Forge} /\ k # n /\ k # b /\ N[k].color = BLACK /\ B[k] = B[x]
  <2>1. k # b
    BY <1>0, <1>1, <1>a, <1>6, GrandIs
  <2>2. k \in S \cup {Forge} /\ k # n /\ N[k].color = BLACK /\ B[n] = B[k]
    BY <1>0, <1>1, <1>a, <1>6, ChildIs
  <2> QED
    BY <1>a, <2>1, <2>2
<1>10. TwoPainted(T, T2, S, n, BLACK, b, RED) /\ IsTree(T2.n, T2.first, S, D)
  <2>1. RED \in {RED, BLACK} /\ BLACK \in {RED, BLACK}
    OBVIOUS
  <2>2. T \in Trees /\ IsTree(T.n, T.first, S, D) /\ n \in S /\ b \in S /\ n # b
    BY <1>1, <1>2, <1>a, <1>6
  <2> HIDE <1>1, <1>2, <1>a, <1>6
  <2> QED
    BY <1>b, <2>1, <2>2, TwoPaints
<1>11. Swing(T, T2, S, b, o, n)
  <2>1. n = T.n[b][Other(o)]
    BY <1>a, Zenon DEF IsChild
  <2>2. /\ T2 \in Trees /\ T2.first = T.first /\ Alike(T.n, T2.n, S \cup {Forge})
    BY <1>10 DEF TwoPainted
  <2> QED
    BY <1>1, <1>2, <1>6, <1>10, <1>a, <2>1, <2>2 DEF Swing
<1>12. /\ IsChild(R, b, o, q) /\ IsChild(R, b, s, m) /\ IsChild(R, n, o, b) /\ IsChild(R, n, s, k)
       /\ R.ok = T.ok /\ SameMap(N, R.n, S) /\ SameColours(T2.n, R.n, S)
       /\ IsChild(R, f, o, n) /\ IsChild(R, f, s, x)
  <2>1. Swung(T, T2, R, S, b, o, n) /\ SwungAt(T, R, S, b, o, n, f)
    <3>1. f \in S /\ f # b /\ f # n /\ R = Rotate(T2, b, o)
      BY <1>1, <1>a, <1>b
    <3> QED
      BY <1>11, <3>1, SwungIs
  <2>2. IsChild(R, f, o, n) /\ IsChild(R, f, s, x)
    <3>1. T.n[f][o] = b /\ T.n[f][s] = x
      BY <1>a, Zenon DEF IsChild
    <3>2. /\ R.n[f][o] = IF T.n[f][o] = b THEN n ELSE T.n[f][o]
          /\ R.n[f][s] = IF T.n[f][s] = b THEN n ELSE T.n[f][s]
      BY <1>1, <1>a, <2>1 DEF SwungAt
    <3> QED
      BY <1>a, <3>1, <3>2, Zenon DEF IsChild
  <2>3. IsChild(R, b, o, q) /\ IsChild(R, b, s, m) /\ IsChild(R, n, o, b) /\ IsChild(R, n, s, k)
    <3>1. R.n[b][o] = T.n[b][o] /\ R.n[b][s] = T.n[n][o] /\ R.n[n][o] = b /\ R.n[n][s] = T.n[n][s]
      BY <1>a, <2>1 DEF Swung
    <3> QED
      BY <1>0, <1>a, <3>1, Zenon DEF IsChild
  <2> QED
    BY <1>10, <2>1, <2>2, <2>3 DEF Swung, TwoPainted
<1>13. /\ R.n[b].color = RED /\ R.n[n].color = BLACK
       /\ \A y \in S \cup {Forge} : y # n /\ y # b => R.n[y].color = N[y].color
  <2>1. \A y \in S \cup {Forge} : R.n[y].color = T2.n[y].color
    BY <1>12 DEF SameColours
  <2>2. /\ T2.n[n].color = BLACK /\ T2.n[b].color = RED
        /\ \A w \in S \cup {Forge} : w # n /\ w # b => T2.n[w].color = N[w].color
    BY <1>10 DEF TwoPainted
  <2> QED
    BY <1>6, <1>a, <2>1, <2>2
<1> DEFINE C == [B EXCEPT ![n] = B[b], ![b] = B[n]]
<1>14. /\ C \in [S \cup {Forge} -> Nat] /\ C[n] = B[x] + 1 /\ C[b] = B[x] /\ C[Forge] = 0
       /\ \A y \in S \cup {Forge} : y # n /\ y # b => C[y] = B[y]
  <2>1. B \in [S \cup {Forge} -> Nat] /\ B[Forge] = 0
    BY <1>1 DEF Good, Heights
  <2> QED
    BY <1>a, <1>6, <2>1
<1> HIDE DEF C
<1>15. /\ C[x] = B[x] /\ C[q] = B[x] /\ C[m] = B[x] /\ C[k] = B[x]
       /\ R.n[x].color = BLACK /\ R.n[q].color = BLACK /\ R.n[m].color = BLACK
  BY <1>1, <1>a, <1>6, <1>8, <1>9, <1>13, <1>14
<1>16. HeightAt(R.n, C, f, s, b) /\ ColourAt(R.n, b)
  <2>1. RedOver(R.n, C, b, s, m, q, B[x])
    <3>1. m = R.n[b][s] /\ q = R.n[b][Other(s)]
      BY <1>12, <1>a, Zenon DEF IsChild
    <3> QED
      BY <1>1, <1>a, <1>13, <1>14, <1>15, <3>1 DEF RedOver
  <2>2. b # f /\ C[m] = B[x]
    BY <1>a, <1>15
  <2> QED
    BY <2>1, <2>2, RedAt
<1>17. HeightAt(R.n, C, f, s, n) /\ ColourAt(R.n, n)
  <2>1. BlackOver(R.n, C, n, s, k, b, B[x])
    <3>1. k = R.n[n][s] /\ b = R.n[n][Other(s)]
      BY <1>12, <1>a, Zenon DEF IsChild
    <3> QED
      BY <1>1, <1>a, <1>13, <1>14, <1>15, <3>1 DEF BlackOver
  <2>2. n # f
    BY <1>a
  <2> QED
    BY <2>1, <2>2, BlackAt, Zenon
<1>18. FineAt(R.n, S, C, f, s, b, n, n)
  BY <1>16, <1>17 DEF FineAt
<1>19. Recoloured(T, T2, S, b, n, n)
  <2>1. /\ T2.n[n].color = BLACK
        /\ \A w \in S \cup {Forge} : w # n /\ w # b => T2.n[w].color = N[w].color
    BY <1>10 DEF TwoPainted
  <2> QED
    BY <1>1, <1>4, <1>6, <1>a, <2>1 DEF Recoloured, ForgeFine
<1>20. AsHigh(S, B, C, f, s, f, s, b, n, n)
  <2>1. C[n] = B[b]
    BY <1>a, <1>14, Zenon
  <2> QED
    BY <1>14, <2>1 DEF AsHigh
<1>21. Good(R, S, C, f, s, {}) /\ R.n[R.first].color = BLACK
  <2>1. Good(T, S, B, f, s, {}) /\ R = Rotate(T2, b, o) /\ N[T.first].color = BLACK
    BY <1>1, <1>b
  <2> QED
    BY <1>11, <1>18, <1>19, <1>20, <2>1, SwungGood
<1>22. Short(R, S, C, x, f, s)
  <2>1. R.n[f][s] = x
    BY <1>12, ZenonT(30) DEF IsChild
  <2> QED
    BY <1>1, <1>15, <1>21, <2>1 DEF Short
<1>23. R.n[f][o] = n /\ R.n[n][o] = b
  BY <1>12, Zenon DEF IsChild
<1> QED
  BY <1>12, <1>13, <1>15, <1>22, <1>23
(* The black brother b with a red child q on the far side takes the place of f: nothing is
   short any more. *)
LEMMA DRotateTree ==
  ASSUME NEW T, NEW S, NEW B, NEW x, NEW f, NEW s, Short(T, S, B, x, f, s),
         NEW o, NEW b, NEW q, NEW n, Around(T, f, s, o, b, q, n), T.n[q].color = RED,
         NEW T2, NEW R, DRotateTo(T, f, s, b, q, T2, R)
  PROVE  /\ R.ok = T.ok /\ SameMap(T.n, R.n, S) /\ R.n[R.first].color = BLACK
         /\ \E C : Good(R, S, C, NULL, "lc", {}) /\ C[f] = B[x] + 1
<1> DEFINE N == T.n
           col == N[f].color
           T1 == Paint(Paint(T, b, col), f, BLACK)
<1>0. PICK l, r : IsChild(T, q, s, l) /\ IsChild(T, q, o, r)
  BY DEF IsChild
<1>b. T1 = Paint(Paint(T, b, col), f, BLACK) /\ T2 = Paint(T1, q, BLACK) /\ R = Rotate(T2, f, s)
      /\ col = N[f].color
  BY DEF DRotateTo
<1> HIDE DEF col, T1
<1>1. /\ Good(T, S, B, f, s, {}) /\ f \in S /\ s \in Sides
      /\ N[x].color = BLACK /\ N[T.first].color = BLACK /\ T \in Trees /\ ForgeFine(N)
  BY DEF Short, Good
<1>2. PICK D : IsTree(N, T.first, S, D)
  BY DEF Short, Good
<1>3. AroundAre(T, S, B, x, f, s, o, b, q, n)
  BY AroundIs
<1>a. /\ b \in S /\ b # x /\ b # f /\ b # NULL /\ b # Forge /\ x \in S \cup {Forge} /\ x # f
      /\ o \in Sides /\ o # s /\ o = Other(s) /\ s = Other(o)
      /\ B[x] \in Nat /\ B[b] = B[x] + 1 /\ f # NULL /\ f # Forge
      /\ q \in S \cup {Forge} /\ q # b /\ q # f /\ B[q] = B[x]
      /\ n \in S \cup {Forge} /\ n # b /\ n # f /\ B[n] = B[x]
      /\ IsChild(T, f, s, x) /\ IsChild(T, f, o, b) /\ IsChild(T, b, o, q) /\ IsChild(T, b, s, n)
  BY <1>3, Zenon DEF AroundAre
<1>e. /\ q \in S => q # n
      /\ col \in {RED, BLACK}
      /\ col = BLACK => B[f] = B[x] + 2
      /\ col = RED => B[f] = B[x] + 1
  BY <1>3, <1>b DEF AroundAre
<1>c. N[b].color = BLACK
  BY DEF Around
<1>4. RED # BLACK
  BY DEF RED, BLACK
<1>6. q \in S /\ q # x /\ q # Forge /\ q # n /\ q # NULL
  <2>1. q # Forge /\ q # x
    BY <1>1, <1>4 DEF ForgeFine
  <2>2. q \in S
    BY <1>a, <2>1
  <2>3. q # NULL
    BY <1>1, <2>2, InGood
  <2> QED
    BY <1>e, <2>1, <2>2, <2>3
<1>7. l \in S \cup {Forge} /\ l # q /\ B[l] = B[x] /\ l # f /\ l # b
  <2>1. l # b
    BY <1>0, <1>1, <1>a, <1>6, GrandIs
  <2>2. l # f
    BY <1>0, <1>1, <1>a, <1>6, GreatIs, Zenon
  <2>3. l \in S \cup {Forge} /\ l # q /\ B[q] = B[l]
    BY <1>0, <1>1, <1>a, <1>6, ChildIs
  <2> QED
    BY <1>a, <2>1, <2>2, <2>3
<1>8. r \in S \cup {Forge} /\ r # q /\ B[r] = B[x] /\ r # f /\ r # b
  <2>1. r # b
    BY <1>0, <1>1, <1>a, <1>6, GrandIs
  <2>2. r # f
    BY <1>0, <1>1, <1>a, <1>6, GreatIs
  <2>3. r \in S \cup {Forge} /\ r # q /\ B[q] = B[r]
    BY <1>0, <1>1, <1>a, <1>6, ChildIs
  <2> QED
    BY <1>a, <2>1, <2>2, <2>3
<1>10. /\ T2 \in Trees /\ T2.ok = T.ok /\ T2.first = T.first /\ IsTree(T2.n, T.first, S, D)
       /\ Alike(N, T2.n, S \cup {Forge})
       /\ T2.n[f].color = BLACK /\ T2.n[b].color = col /\ T2.n[q].color = BLACK
       /\ \A w \in S \cup {Forge} : w # f /\ w # b /\ w # q => T2.n[w].color = N[w].color
  <2>1. BLACK \in {RED, BLACK} /\ col \in {RED, BLACK}
    BY <1>e
  <2>2. T \in Trees /\ IsTree(T.n, T.first, S, D) /\ f \in S /\ b \in S /\ b # f /\ q \in S
        /\ q # f /\ q # b
    BY <1>1, <1>2, <1>a, <1>6
  <2>b. T1 = Paint(Paint(T, b, col), f, BLACK) /\ T2 = Paint(T1, q, BLACK)
    BY <1>b
  <2> HIDE <1>0, <1>1, <1>2, <1>3, <1>a, <1>e, <1>6, <1>7, <1>8
  <2>3. TwoPainted(T, T1, S, b, col, f, BLACK) /\ IsTree(T1.n, T1.first, S, D)
    BY <2>b, <2>1, <2>2, TwoPaints
  <2>4. /\ T2 \in Trees /\ T2.ok = T1.ok /\ T2.first = T1.first /\ IsTree(T2.n, T1.first, S, D)
        /\ Painted(T1.n, T2.n, S \cup {Forge}, q, BLACK)
    <3>1. T1 \in Trees
      BY <2>3 DEF TwoPainted
    <3>2. IsTree(T1.n, T1.first, S, D) /\ q \in S /\ BLACK \in {RED, BLACK} /\ T2 = Paint(T1, q, BLACK)
      BY <2>b, <2>1, <2>2, <2>3, Zenon
    <3> HIDE <2>b, <2>1, <2>2, <2>3
    <3> QED
      <4>1. Repaints(T1, T2, q, BLACK) /\ T1 \in Trees /\ IsTree(T1.n, T1.first, S, D)
            /\ q \in S /\ BLACK \in {RED, BLACK}
        BY <3>1, <3>2 DEF Repaints
      <4>2. Repainted(T1, T2, S, D, q, BLACK)
        BY <4>1, RepaintIs
      <4> QED
        BY <4>2 DEF Repainted
  <2>5. Alike(N, T2.n, S \cup {Forge})
    BY <2>3, <2>4 DEF TwoPainted, Painted, Alike
  <2>6. /\ T1.n[b].color = col /\ T1.n[f].color = BLACK
        /\ \A w \in S \cup {Forge} : w # b /\ w # f => T1.n[w].color = N[w].color
        /\ \A w \in S \cup {Forge} : T2.n[w].color = IF w = q THEN BLACK ELSE T1.n[w].color
    BY <2>3, <2>4 DEF TwoPainted, Painted
  <2>7. T2.n[f].color = BLACK /\ T2.n[b].color = col /\ T2.n[q].color = BLACK
    BY <2>2, <2>6
  <2>8. \A w \in S \cup {Forge} : w # f /\ w # b /\ w # q => T2.n[w].color = N[w].color
    BY <2>6
  <2> QED
    BY <2>3, <2>4, <2>5, <2>7, <2>8 DEF TwoPainted
<1>11. Swing(T, T2, S, f, s, b)
  <2>1. b = T.n[f][Other(s)]
    BY <1>a, Zenon DEF IsChild
  <2> QED
    BY <1>1, <1>2, <1>10, <1>a, <2>1 DEF Swing
<1>12. /\ IsChild(R, f, s, x) /\ IsChild(R, f, o, n) /\ IsChild(R, b, s, f) /\ IsChild(R, b, o, q)
       /\ R.ok = T.ok /\ SameMap(N, R.n, S) /\ SameColours(T2.n, R.n, S)
       /\ IsChild(R, q, s, l) /\ IsChild(R, q, o, r)
  <2>1. Swung(T, T2, R, S, f, s, b) /\ SwungAt(T, R, S, f, s, b, q)
    <3>1. q \in S /\ q # f /\ q # b /\ R = Rotate(T2, f, s)
      BY <1>6, <1>a, <1>b
    <3> QED
      BY <1>11, <3>1, SwungIs
  <2>2. IsChild(R, q, s, l) /\ IsChild(R, q, o, r)
    <3>1. T.n[q][s] = l /\ T.n[q][o] = r
      BY <1>0 DEF IsChild
    <3>2. /\ R.n[q][o] = IF T.n[q][o] = f THEN b ELSE T.n[q][o]
          /\ R.n[q][s] = IF T.n[q][s] = f THEN b ELSE T.n[q][s]
      BY <1>1, <1>a, <2>1 DEF SwungAt
    <3> QED
      BY <1>7, <1>8, <3>1, <3>2 DEF IsChild
  <2>3. IsChild(R, f, s, x) /\ IsChild(R, f, o, n) /\ IsChild(R, b, s, f) /\ IsChild(R, b, o, q)
    <3>1. R.n[f][s] = T.n[f][s] /\ R.n[f][o] = T.n[b][s] /\ R.n[b][s] = f /\ R.n[b][o] = T.n[b][o]
      BY <1>a, <2>1 DEF Swung
    <3> QED
      BY <1>a, <3>1, Zenon DEF IsChild
  <2> QED
    BY <1>10, <2>1, <2>2, <2>3 DEF Swung
<1>13. /\ R.n[f].color = BLACK /\ R.n[b].color = col /\ R.n[q].color = BLACK
  <2>1. \A y \in S \cup {Forge} : R.n[y].color = T2.n[y].color
    BY <1>12 DEF SameColours
  <2> QED
    BY <1>1, <1>a, <1>6, <1>10, <2>1
<1> DEFINE C == [B EXCEPT ![f] = B[b], ![b] = B[f], ![q] = B[b]]
<1>14. /\ C \in [S \cup {Forge} -> Nat] /\ C[f] = B[x] + 1 /\ C[b] = B[f] /\ C[q] = B[x] + 1
       /\ C[Forge] = 0 /\ \A y \in S \cup {Forge} : y # f /\ y # b /\ y # q => C[y] = B[y]
  <2>1. B \in [S \cup {Forge} -> Nat] /\ B[Forge] = 0
    BY <1>1 DEF Good, Heights
  <2> QED
    BY <1>1, <1>a, <1>6, <2>1
<1> HIDE DEF C
<1>15. C[x] = B[x] /\ C[n] = B[x] /\ C[l] = B[x] /\ C[r] = B[x]
  BY <1>a, <1>6, <1>7, <1>8, <1>14
<1>16. HeightAt(R.n, C, NULL, "lc", f) /\ ColourAt(R.n, f)
  <2>1. BlackOver(R.n, C, f, s, x, n, B[x])
    <3>1. x = R.n[f][s] /\ n = R.n[f][Other(s)]
      BY <1>12, <1>a, Zenon DEF IsChild
    <3> QED
      BY <1>1, <1>a, <1>13, <1>14, <1>15, <3>1 DEF BlackOver
  <2> QED
    BY <1>a, <2>1, BlackAt
<1>17. HeightAt(R.n, C, NULL, "lc", q) /\ ColourAt(R.n, q)
  <2>1. BlackOver(R.n, C, q, s, l, r, B[x])
    <3>1. l = R.n[q][s] /\ r = R.n[q][Other(s)]
      BY <1>12, <1>a, Zenon DEF IsChild
    <3> QED
      BY <1>1, <1>a, <1>13, <1>14, <1>15, <3>1 DEF BlackOver
  <2> QED
    BY <1>6, <2>1, BlackAt
<1>18. HeightAt(R.n, C, NULL, "lc", b) /\ ColourAt(R.n, b)
  <2>1. f = R.n[b][s] /\ q = R.n[b][Other(s)] /\ b # NULL
    BY <1>12, <1>a, Zenon DEF IsChild
  <2>2. CASE col = BLACK
    <3>1. BlackOver(R.n, C, b, s, f, q, B[x] + 1)
      BY <1>1, <1>a, <1>e, <1>13, <1>14, <2>1, <2>2 DEF BlackOver
    <3> QED
      BY <2>1, <3>1, BlackAt, Zenon
  <2>3. CASE col = RED
    <3>1. RedOver(R.n, C, b, s, f, q, B[x] + 1)
      BY <1>1, <1>a, <1>e, <1>13, <1>14, <2>1, <2>3 DEF RedOver
    <3>2. C[f] = B[x] + 1
      BY <1>14
    <3> QED
      BY <2>1, <3>1, <3>2, RedAt
  <2> QED
    BY <1>e, <2>2, <2>3
<1>19. FineAt(R.n, S, C, NULL, "lc", f, b, q)
  BY <1>16, <1>17, <1>18 DEF FineAt
<1>20. Recoloured(T, T2, S, f, b, q)
  BY <1>b, <1>1, <1>a, <1>6, <1>10, Zenon DEF Recoloured, ForgeFine
<1>21. AsHigh(S, B, C, f, s, NULL, "lc", f, b, q)
  <2>1. \A y \in S : y # NULL
    BY <1>2, RBAssumption DEF IsTree, Sorted
  <2>2. C[b] = B[f]
    BY <1>14
  <2> QED
    BY <1>14, <2>1, <2>2 DEF AsHigh
<1>22. Good(R, S, C, NULL, "lc", {}) /\ R.n[R.first].color = BLACK
  <2>1. /\ Good(T, S, B, f, s, {}) /\ R = Rotate(T2, f, s) /\ N[T.first].color = BLACK
        /\ q = T.n[b][Other(s)]
    BY <1>1, <1>b, <1>a, Zenon DEF IsChild
  <2> QED
    BY <1>11, <1>19, <1>20, <1>21, <2>1, SwungGood
<1>23. C[f] = B[x] + 1
  BY <1>14
<1> QED
  BY <1>12, <1>22, <1>23

-----------------------------------------------------------------------------
(* The iterations of i_adjust and d_adjust, and how they end. *)

\* Between two iterations of d_adjust: what is at x, on side s of f, is short of a black
\* node, unless f is NULL.
DLoop(T, S, B, x, f, s) ==
  /\ Good(T, S, B, f, s, {x, T.n[x].lc, T.n[x].rc}) /\ s \in Sides /\ x \in S \cup {Forge}
  /\ T.n[T.first].color = RED => x = T.first
  /\ f = NULL => x = T.first
  /\ f # NULL => f \in S /\ T.n[f][s] = x
\* Between two iterations of i_adjust.
ILoop(T, S, B, x) ==
  /\ Good(T, S, B, NULL, "lc", {x}) /\ x \in S /\ T.n[x].color = RED
  /\ T.n[T.first].color = RED => x = T.first

(* A good tree has a first node and colours. *)
LEMMA FirstIn ==
  ASSUME NEW T, NEW S, NEW B, NEW f, NEW s, NEW E, Good(T, S, B, f, s, E)
  PROVE  /\ T.first \in S /\ T.n[T.first].father = NULL /\ T.first # NULL /\ T.first # Forge
         /\ T.n \in Memory /\ T.ok \in BOOLEAN /\ Forge \notin S /\ NULL \notin S
         /\ B \in [S \cup {Forge} -> Nat] /\ B[Forge] = 0 /\ S \subseteq Nodes
         /\ \A y \in S \cup {Forge} : T.n[y].color \in {RED, BLACK}
<1>1. PICK D : IsTree(T.n, T.first, S, D)
  BY DEF Good
<1>2. S \subseteq Nodes /\ T.first \in S /\ T.n[T.first].father = NULL
  BY <1>1 DEF IsTree, Sorted, Linked
<1>3. T.n \in Memory /\ T.ok \in BOOLEAN
  BY DEF Good, Trees
<1>4. \A y \in S \cup {Forge} : T.n[y].color \in {RED, BLACK}
  BY <1>2, <1>3 DEF Memory, NodeRec
<1> QED
  BY <1>2, <1>3, <1>4, RBAssumption DEF Good, Heights

(* Its nodes and their children. *)
LEMMA KidsOf ==
  ASSUME NEW T, NEW S, NEW B, NEW f, NEW s, NEW E, Good(T, S, B, f, s, E)
  PROVE  \A y \in S : \A t \in Sides :
           /\ T.n[y][t] \in S \cup {Forge} /\ T.n[y][t] # y
           /\ T.n[y][t] \in S => T.n[T.n[y][t]].father = y
<1>1. PICK D : IsTree(T.n, T.first, S, D)
  BY DEF Good
<1>2. T.n \in Memory
  BY FirstIn
<1>3. \A y \in S : \A t \in Sides : T.n[y][t] \in S \cup {Forge} /\ T.n[y][t] # y
  <2> SUFFICES ASSUME NEW y \in S, NEW t \in Sides
               PROVE  T.n[y][t] \in S \cup {Forge} /\ T.n[y][t] # y
    OBVIOUS
  <2>1. Sorted(T.n, S, D)
    BY <1>1 DEF IsTree
  <2> QED
    BY <1>2, <2>1, SidesOf
<1>4. \A y \in S : \A t \in Sides : T.n[y][t] \in S => T.n[T.n[y][t]].father = y
  BY <1>1, <1>2, LinksOf
<1> QED
  BY <1>3, <1>4

\* h is the father of y, and y is on its side v; or the first node has no father.
Hangs(T, S, y, h, v) ==
  /\ h = T.n[y].father /\ v \in Sides
  /\ \/ h = NULL /\ y = T.first
     \/ h \in S /\ h # NULL /\ h # y /\ T.n[h][v] = y /\ y # T.first

(* Every node hangs somewhere, and nowhere else. *)
LEMMA HangsIs ==
  ASSUME NEW T, NEW S, NEW B, NEW f, NEW s, NEW E, Good(T, S, B, f, s, E), NEW y \in S
  PROVE  \E h, v : /\ Hangs(T, S, y, h, v)
                   /\ \A z \in S : \A t \in Sides : T.n[z][t] = y <=> z = h /\ t = v
<1>1. PICK D : IsTree(T.n, T.first, S, D)
  BY DEF Good
<1>2. T.n \in Memory /\ NULL \notin S /\ Forge \notin S
  BY FirstIn
<1> DEFINE h == T.n[y].father
<1>3. CASE y = T.first
  <2>1. h = NULL
    BY <1>1, <1>3, FirstIn
  <2>2. \A z \in S : \A t \in Sides : T.n[z][t] = y => T.n[y].father = z
    BY <1>1, <1>2, LinksOf
  <2>3. Hangs(T, S, y, h, "lc")
    BY <1>3, <2>1 DEF Hangs, Sides
  <2>4. \A z \in S : \A t \in Sides : T.n[z][t] = y <=> z = h /\ t = "lc"
    BY <1>2, <2>1, <2>2
  <2> QED
    BY <2>3, <2>4
<1>4. CASE y # T.first
  <2>1. h \in S /\ \E t \in Sides : T.n[h][t] = y
    BY <1>1, <1>2, <1>4, LinksOf
  <2>2. PICK v \in Sides : T.n[h][v] = y
    BY <2>1
  <2>3. h # y
    <3>1. \A z \in S : \A t \in Sides : T.n[z][t] # z
      BY <1>1, <1>2, Children
    <3> QED
      BY <2>1, <2>2, <3>1
  <2>4. Hangs(T, S, y, h, v)
    BY <1>2, <1>4, <2>1, <2>2, <2>3 DEF Hangs
  <2>5. ASSUME NEW z \in S, NEW t \in Sides, T.n[z][t] = y
        PROVE  z = h /\ t = v
    BY <1>1, <1>2, <2>1, <2>2, <2>5, OneFather
  <2>6. \A z \in S : \A t \in Sides : T.n[z][t] = y <=> z = h /\ t = v
    BY <2>2, <2>5
  <2> QED
    BY <2>4, <2>6
<1> QED
  BY <1>3, <1>4

(* A tree is good if it is the same one, painted, and the heights and colours fit. *)
LEMMA PaintedGood ==
  ASSUME NEW T, NEW S, NEW B, NEW f, NEW s, NEW E, Good(T, S, B, f, s, E),
         NEW R, R \in Trees, R.first = T.first, Alike(T.n, R.n, S \cup {Forge}),
         R.n[Forge].color = BLACK,
         NEW C, NEW h, NEW v, NEW F, Heights(R.n, S, C, h, v), Coloured(R.n, S, F)
  PROVE  Good(R, S, C, h, v, F)
<1>1. PICK D : IsTree(T.n, T.first, S, D)
  BY DEF Good
<1>2. SameLinks(T.n, R.n, S) /\ T.n \in Memory
  BY FirstIn DEF Alike, SameLinks
<1>3. IsTree(R.n, R.first, S, D)
  BY <1>1, <1>2, SameTree
<1>4. ForgeFine(R.n)
  BY DEF ForgeFine, Good, Alike
<1> QED
  BY <1>3, <1>4 DEF Good

(* d_adjust goes on only at what is black and not the first node. *)
LEMMA DGoesOn ==
  ASSUME NEW T, NEW S, NEW B, NEW x, NEW f, NEW s, DLoop(T, S, B, x, f, s),
         x # T.first, isforge(x) \/ T.n[x].color = BLACK
  PROVE  Short(T, S, B, x, f, s)
<1>1. /\ T.first \in S /\ \A y \in S \cup {Forge} : T.n[y].color \in {RED, BLACK}
  <2>1. PICK E : Good(T, S, B, f, s, E)
    BY Zenon DEF DLoop
  <2> QED
    BY <2>1, FirstIn
<1>2. T.n[x].color = BLACK /\ ForgeFine(T.n)
  BY DEF DLoop, Good, ForgeFine, isforge
<1>3. T.n[T.first].color = BLACK
  BY <1>1 DEF DLoop
<1>4. Coloured(T.n, S, {})
  <2> SUFFICES ASSUME NEW y \in S, NEW t \in Sides, T.n[y].color = RED, T.n[T.n[y][t]].color = RED
               PROVE  FALSE
    BY DEF Coloured
  <2>1. T.n[y][t] \in {x, T.n[x].lc, T.n[x].rc}
    BY DEF DLoop, Good, Coloured
  <2>2. T.n[y][t] # x /\ y # x
    BY <1>2 DEF RED, BLACK
  <2>3. T.n[y][t] \in S
    <3>1. PICK D : IsTree(T.n, T.first, S, D)
      BY DEF DLoop, Good
    <3>2. T.n[y][t] \in S \cup {Forge}
      <4>1. T.n \in Memory
        BY FirstIn DEF DLoop
      <4> QED
        BY <3>1, <4>1, Children
    <3> QED
      BY <1>2, <3>2 DEF ForgeFine, RED, BLACK
  <2>4. x # Forge
    <3>1. T.n[Forge].lc = Forge /\ T.n[Forge].rc = Forge /\ Forge \notin S
      BY <1>2, FirstIn DEF ForgeFine, DLoop
    <3> QED
      BY <2>1, <2>3, <3>1
  <2>5. x \in S /\ \E u \in Sides : T.n[y][t] = T.n[x][u]
    BY <2>1, <2>2, <2>4 DEF DLoop, Sides
  <2>6. PICK D : IsTree(T.n, T.first, S, D)
    BY DEF DLoop, Good
  <2>7. T.n \in Memory
    BY FirstIn DEF DLoop
  <2> QED
    BY <2>2, <2>3, <2>5, <2>6, <2>7, OneFather
<1>5. Good(T, S, B, f, s, {})
  BY <1>4 DEF DLoop, Good
<1> QED
  BY <1>2, <1>3, <1>5 DEF DLoop, Short

-----------------------------------------------------------------------------
(* x is painted black when d_adjust stops there: the tree is whole again. *)
LEMMA DEndTree ==
  ASSUME NEW T, NEW S, NEW B, NEW x \in S, NEW f, NEW s, DLoop(T, S, B, x, f, s),
         x = T.first => f = NULL, x = T.first \/ T.n[x].color = RED, NEW R, R = Paint(T, x, BLACK)
  PROVE  /\ R.ok = T.ok /\ SameMap(T.n, R.n, S) /\ R.first = T.first
         /\ R.n[R.first].color = BLACK
         /\ \E C : /\ Good(R, S, C, NULL, "lc", {})
                   /\ \A y \in S : C[y] >= B[y]
<1> DEFINE N == T.n
           one == IF N[x].color = RED THEN 1 ELSE 0
           C == [B EXCEPT ![x] = B[x] + one]
<1>1. /\ Good(T, S, B, f, s, {x, N[x].lc, N[x].rc}) /\ s \in Sides
      /\ T \in Trees /\ ForgeFine(N) /\ Heights(N, S, B, f, s)
      /\ Coloured(N, S, {x, N[x].lc, N[x].rc})
  BY DEF DLoop, Good
<1>2. PICK D : IsTree(N, T.first, S, D)
  BY DEF DLoop, Good
<1>3. /\ T.first \in S /\ N \in Memory /\ Forge \notin S /\ NULL \notin S
      /\ B \in [S \cup {Forge} -> Nat] /\ B[Forge] = 0
      /\ \A y \in S \cup {Forge} : N[y].color \in {RED, BLACK}
  <2>1. PICK E : Good(T, S, B, f, s, E)
    BY DEF DLoop
  <2> QED
    BY <2>1, FirstIn
<1>4. /\ R \in Trees /\ R.ok = T.ok /\ R.first = T.first
      /\ Painted(N, R.n, S \cup {Forge}, x, BLACK)
  <2>1. BLACK \in {RED, BLACK} /\ Repaints(T, R, x, BLACK) /\ x \in S /\ T \in Trees
    BY <1>1 DEF Repaints
  <2>2. Repainted(T, R, S, D, x, BLACK)
    BY <1>2, <2>1, RepaintIs
  <2> QED
    BY <2>2 DEF Repainted
<1>5. /\ Alike(N, R.n, S \cup {Forge}) /\ R.n[x].color = BLACK
      /\ \A y \in S \cup {Forge} : y # x => R.n[y].color = N[y].color
      /\ \A y \in S : \A t \in Sides : R.n[y][t] = N[y][t]
  BY <1>4 DEF Painted, Alike
<1>6. SameMap(N, R.n, S)
  BY <1>5 DEF SameMap, Alike
<1>7. R.n[R.first].color = BLACK
  BY <1>3, <1>4, <1>5 DEF DLoop
<1>8. /\ C \in [S \cup {Forge} -> Nat] /\ C[Forge] = 0 /\ C[x] = B[x] + one
      /\ \A y \in S \cup {Forge} : y # x => C[y] = B[y]
      /\ one \in {0, 1} /\ (N[x].color = RED => one = 1) /\ (N[x].color = BLACK => one = 0)
  BY <1>3 DEF RED, BLACK
<1> HIDE DEF C, one
<1>9. /\ x = T.first => f = NULL
      /\ x # T.first => N[x].color = RED /\ f \in S /\ N[f][s] = x
  BY DEF DLoop
<1>10. PICK h, v : /\ Hangs(T, S, x, h, v)
                   /\ \A z \in S : \A t \in Sides : N[z][t] = x <=> z = h /\ t = v
  BY <1>1, HangsIs
<1>11. ASSUME NEW y \in S, NEW t \in Sides
       PROVE  C[y] = C[R.n[y][t]] + (IF R.n[y].color = BLACK THEN 1 ELSE 0)
              /\ C[R.n[y][t]] \in Nat
  <2>1. /\ B[y] \in Nat /\ B[N[y][t]] \in Nat
        /\ y # f \/ t # s => B[y] = B[N[y][t]] + (IF N[y].color = BLACK THEN 1 ELSE 0)
        /\ y = f /\ t = s => B[y] = B[N[y][t]] + 1 + (IF N[y].color = BLACK THEN 1 ELSE 0)
    BY <1>1, <1>2, <1>3, HeightIn
  <2>2. N[y][t] \in S \cup {Forge} /\ N[y][t] # y
    <3>1. \A z \in S : \A u \in Sides : N[z][u] \in S \cup {Forge} /\ N[z][u] # z
      BY KidsOf DEF DLoop
    <3> QED
      BY <3>1, Zenon
  <2>3. CASE N[y][t] = x
    <3>1. x # T.first
      BY <1>3, <1>10, <2>3 DEF Hangs
    <3>2. y = f /\ t = s
      BY <1>9, <1>10, <2>3, <3>1, <1>1
    <3> QED
      BY <1>3, <1>5, <1>8, <1>9, <2>1, <2>2, <2>3, <3>1, <3>2
  <2>4. CASE N[y][t] # x
    <3>1. y # f \/ t # s
      BY <1>3, <1>9, <2>4
    <3>2. C[N[y][t]] = B[N[y][t]]
      BY <1>8, <2>2, <2>4, Zenon
    <3>3. CASE y = x
      BY <1>3, <1>5, <1>8, <2>1, <3>1, <3>2, <3>3 DEF RED, BLACK
    <3>4. CASE y # x
      BY <1>5, <1>8, <2>1, <3>1, <3>2, <3>4
    <3> QED
      BY <3>3, <3>4
  <2> QED
    BY <2>3, <2>4, Zenon
<1>12. Heights(R.n, S, C, NULL, "lc")
  BY <1>3, <1>8, <1>11 DEF Heights
<1>13. Coloured(R.n, S, {})
  <2> SUFFICES ASSUME NEW y \in S, NEW t \in Sides, R.n[y].color = RED, R.n[R.n[y][t]].color = RED
               PROVE  FALSE
    BY Zenon DEF Coloured
  <2>1. N[y][t] \in S \cup {Forge}
    BY <1>2, <1>3, Children
  <2>2. y # x /\ N[y][t] # x /\ N[y].color = RED /\ N[N[y][t]].color = RED
    BY <1>5, <2>1 DEF RED, BLACK
  <2>3. N[y][t] \in {N[x].lc, N[x].rc}
    BY <1>1, <2>2 DEF Coloured
  <2>4. N[y][t] \in S
    BY <1>1, <2>1, <2>2 DEF ForgeFine, RED, BLACK
  <2>5. \E u \in Sides : N[y][t] = N[x][u]
    BY <2>3 DEF Sides
  <2> QED
    BY <1>2, <1>3, <2>2, <2>4, <2>5, OneFather
<1>14. R.n[Forge].color = BLACK
  BY <1>1, <1>3, <1>5 DEF ForgeFine
<1>15. Good(R, S, C, NULL, "lc", {})
  BY <1>1, <1>4, <1>5, <1>12, <1>13, <1>14, PaintedGood
<1>16. \A y \in S : C[y] >= B[y]
  BY <1>3, <1>8
<1> QED
  BY <1>4, <1>6, <1>7, <1>15, <1>16

(* The end of i_adjust is such a case. *)
LEMMA IEndTree ==
  ASSUME NEW T, NEW S, NEW B, NEW x, ILoop(T, S, B, x),
         T.n[x].father = NULL \/ T.n[T.n[x].father].color = BLACK
  PROVE  DLoop(T, S, B, T.first, NULL, "lc")
<1>1. /\ T.first \in S /\ T.n \in Memory /\ NULL \notin S
  BY FirstIn DEF ILoop
<1>2. PICK D : IsTree(T.n, T.first, S, D)
  BY DEF ILoop, Good
<1>3. Coloured(T.n, S, {})
  <2> SUFFICES ASSUME NEW y \in S, NEW t \in Sides, T.n[y].color = RED, T.n[T.n[y][t]].color = RED
               PROVE  FALSE
    BY DEF Coloured
  <2>1. T.n[y][t] = x /\ x \in S
    BY DEF ILoop, Good, Coloured
  <2>2. T.n[x].father = y
    BY <1>1, <1>2, <2>1, LinksOf
  <2> QED
    BY <1>1, <2>2 DEF RED, BLACK
<1>4. Good(T, S, B, NULL, "lc", {T.first, T.n[T.first].lc, T.n[T.first].rc})
  BY <1>3 DEF ILoop, Good, Coloured
<1> QED
  BY <1>1, <1>4 DEF DLoop, ILoop, Sides

-----------------------------------------------------------------------------
(* The black brother b has no red child: it becomes red, and f is short of a black node. *)
LEMMA BothBlackTree ==
  ASSUME NEW T, NEW S, NEW B, NEW x, NEW f, NEW s, Short(T, S, B, x, f, s),
         NEW o, NEW b, NEW q, NEW n, Around(T, f, s, o, b, q, n),
         T.n[q].color = BLACK, T.n[n].color = BLACK, NEW R, R = Paint(T, b, RED)
  PROVE  /\ R.ok = T.ok /\ SameMap(T.n, R.n, S) /\ R.n[f].father = T.n[f].father
         /\ R.n[R.first].color = BLACK
         /\ \E C, u : DLoop(R, S, C, f, T.n[f].father, u) /\ C[f] = B[f] - 1
<1> DEFINE N == T.n
<1>1. /\ Good(T, S, B, f, s, {}) /\ f \in S /\ s \in Sides
      /\ N[x].color = BLACK /\ N[T.first].color = BLACK /\ T \in Trees /\ ForgeFine(N)
      /\ Coloured(N, S, {}) /\ Heights(N, S, B, f, s)
  BY DEF Short, Good
<1>2. PICK D : IsTree(N, T.first, S, D)
  BY DEF Short, Good
<1>3. /\ b \in S /\ b # x /\ b # f /\ b # Forge /\ x \in S \cup {Forge} /\ x # f
      /\ o \in Sides /\ o # s /\ o = Other(s)
      /\ B[x] \in Nat /\ B[b] = B[x] + 1 /\ f # NULL /\ f # Forge
      /\ IsChild(T, f, s, x) /\ IsChild(T, f, o, b) /\ IsChild(T, b, o, q) /\ IsChild(T, b, s, n)
      /\ N[f].color = BLACK => B[f] = B[b] + 1
      /\ N[f].color = RED => B[f] = B[b]
  <2>1. AroundAre(T, S, B, x, f, s, o, b, q, n)
    BY AroundIs
  <2> QED
    BY <2>1 DEF AroundAre
<1>4. /\ T.first \in S /\ N \in Memory /\ Forge \notin S /\ NULL \notin S
      /\ B \in [S \cup {Forge} -> Nat] /\ B[Forge] = 0
      /\ \A y \in S \cup {Forge} : N[y].color \in {RED, BLACK}
  BY <1>1, FirstIn
<1>5. N[b].color = BLACK
  BY DEF Around
<1>6. /\ R \in Trees /\ R.ok = T.ok /\ R.first = T.first
      /\ Painted(N, R.n, S \cup {Forge}, b, RED)
  <2>1. RED \in {RED, BLACK} /\ Repaints(T, R, b, RED) /\ b \in S /\ T \in Trees
    BY <1>1, <1>3 DEF Repaints
  <2>2. Repainted(T, R, S, D, b, RED)
    BY <1>2, <2>1, RepaintIs, Zenon
  <2> QED
    BY <2>2 DEF Repainted
<1>7. /\ Alike(N, R.n, S \cup {Forge}) /\ R.n[b].color = RED
      /\ \A y \in S \cup {Forge} : y # b => R.n[y].color = N[y].color
      /\ \A y \in S : \A t \in Sides : R.n[y][t] = N[y][t]
      /\ R.n[f].father = N[f].father
  BY <1>1, <1>3, <1>6 DEF Painted, Alike
<1>8. SameMap(N, R.n, S)
  BY <1>7 DEF SameMap, Alike
<1>9. \A y \in S : \A t \in Sides : N[y][t] = b <=> y = f /\ t = o
  <2>1. N[f][o] = b
    BY <1>3, Zenon DEF IsChild
  <2>2. ASSUME NEW y \in S, NEW t \in Sides, N[y][t] = b
        PROVE  y = f /\ t = o
    BY <1>1, <1>2, <1>3, <1>4, <2>1, <2>2, OneFather
  <2> QED
    BY <2>1, <2>2
<1>10. b # T.first
  <2>1. N[b].father = f
    BY <1>1, <1>3, <1>9, KidsOf
  <2>2. N[T.first].father = NULL
    BY <1>1, FirstIn
  <2> QED
    BY <1>3, <2>1, <2>2, Zenon
<1>11. R.n[R.first].color = BLACK
  BY <1>1, <1>4, <1>6, <1>7, <1>10
<1> DEFINE C == [B EXCEPT ![b] = B[x], ![f] = B[f] - 1]
<1>12. /\ C \in [S \cup {Forge} -> Nat] /\ C[Forge] = 0 /\ C[b] = B[x] /\ C[f] = B[f] - 1
       /\ \A y \in S \cup {Forge} : y # b /\ y # f => C[y] = B[y]
       /\ N[f].color = BLACK => C[f] = B[x] + 1
       /\ N[f].color = RED => C[f] = B[x]
  BY <1>1, <1>3, <1>4
<1> HIDE DEF C
<1>13. PICK h, v : /\ Hangs(T, S, f, h, v)
                   /\ \A z \in S : \A t \in Sides : N[z][t] = f <=> z = h /\ t = v
  BY <1>1, HangsIs
<1>14. ASSUME NEW y \in S, NEW t \in Sides
       PROVE  /\ C[R.n[y][t]] \in Nat
              /\ y # h \/ t # v => C[y] = C[R.n[y][t]] + (IF R.n[y].color = BLACK THEN 1 ELSE 0)
              /\ y = h /\ t = v => C[y] = C[R.n[y][t]] + 1 + (IF R.n[y].color = BLACK THEN 1 ELSE 0)
  <2>1. /\ B[y] \in Nat /\ B[N[y][t]] \in Nat
        /\ y # f \/ t # s => B[y] = B[N[y][t]] + (IF N[y].color = BLACK THEN 1 ELSE 0)
    BY <1>1, <1>2, <1>4, HeightIn
  <2>2. N[y][t] \in S \cup {Forge} /\ N[y][t] # y
    BY <1>1, KidsOf
  <2>3. CASE y = f
    <3>1. y # h
      BY <1>3, <2>3, <1>13, Zenon DEF Hangs
    <3>2. R.n[y].color = N[y].color /\ N[y].color \in {RED, BLACK}
      BY <1>1, <1>3, <1>4, <1>7, <2>3
    <3>3. C[N[y][t]] = B[x]
      <4>1. t = s \/ t = o
        BY <1>1, <1>3 DEF Sides, Other
      <4>2. N[f][s] = x /\ N[f][o] = b
        BY <1>3, Zenon DEF IsChild
      <4> QED
        BY <1>3, <1>12, <2>3, <4>1, <4>2
    <3> QED
      BY <1>3, <1>7, <1>12, <2>3, <3>1, <3>2, <3>3 DEF RED, BLACK
  <2>4. CASE y = b
    <3>1. N[y][t] # f
      <4>1. IsChild(T, b, t, N[b][t])
        BY DEF IsChild
      <4> QED
        BY <1>1, <1>3, <2>4, <4>1, GrandIs
    <3>2. C[N[y][t]] = B[x]
      BY <1>3, <1>5, <1>12, <2>1, <2>2, <2>4, <3>1
    <3>3. N[y][t] # f => (y # h \/ t # v)
      BY <1>13, Zenon
    <3> QED
      BY <1>3, <1>7, <1>12, <2>4, <3>1, <3>2, <3>3 DEF RED, BLACK
  <2>5. CASE y # f /\ y # b
    <3>1. N[y][t] # b
      BY <1>9, <2>5
    <3>2. C[y] = B[y] /\ R.n[y].color = N[y].color /\ R.n[y][t] = N[y][t]
      BY <1>7, <1>12, <2>5, Zenon
    <3>3. CASE N[y][t] = f
      BY <1>1, <1>4, <1>12, <1>13, <2>1, <2>5, <3>2, <3>3
    <3>4. CASE N[y][t] # f
      BY <1>12, <1>13, <2>1, <2>2, <2>5, <3>1, <3>2, <3>4
    <3> QED
      BY <3>3, <3>4
  <2> QED
    BY <2>3, <2>4, <2>5, Zenon
<1>15. Heights(R.n, S, C, h, v)
  BY <1>12, <1>14 DEF Heights
<1>16. Coloured(R.n, S, {f, R.n[f].lc, R.n[f].rc})
  <2>0. b \in {R.n[f].lc, R.n[f].rc}
    <3>1. R.n[f][o] = b
      BY <1>1, <1>3, <1>7, Zenon DEF IsChild
    <3>2. o = "lc" \/ o = "rc"
      BY <1>3 DEF Sides
    <3> HIDE <1>3, <1>7
    <3> QED
      BY <3>1, <3>2
  <2> SUFFICES ASSUME NEW y \in S, NEW t \in Sides, R.n[y].color = RED, R.n[R.n[y][t]].color = RED,
                      R.n[y][t] # b
               PROVE  FALSE
    BY <2>0, Zenon DEF Coloured
  <2>1. N[y][t] \in S \cup {Forge} /\ R.n[y][t] = N[y][t] /\ N[y][t] # b
    BY <1>1, <1>7, KidsOf
  <2>2. N[N[y][t]].color = RED
    BY <1>7, <2>1
  <2>3. CASE y = b
    <3>1. t = s \/ t = o
      BY <1>1, <1>3 DEF Sides, Other
    <3>2. N[b][s] = n /\ N[b][o] = q
      BY <1>3, Zenon DEF IsChild
    <3>3. N[b][t] = n \/ N[b][t] = q
      BY <3>1, <3>2, Zenon
    <3> QED
      BY <2>2, <2>3, <3>3 DEF RED, BLACK
  <2>4. CASE y # b
    BY <1>1, <1>7, <2>2, <2>4 DEF Coloured
  <2> QED
    BY <2>3, <2>4
<1>17. Good(R, S, C, h, v, {f, R.n[f].lc, R.n[f].rc})
  <2>1. R.n[Forge].color = BLACK
    BY <1>1, <1>3, <1>7 DEF ForgeFine
  <2> QED
    BY <1>1, <1>6, <1>7, <1>15, <1>16, <2>1, PaintedGood
<1>18. DLoop(R, S, C, f, N[f].father, v)
  <2>1. h = N[f].father /\ v \in Sides
    BY <1>13 DEF Hangs
  <2>2. (h = NULL => f = T.first) /\ (h # NULL => h \in S /\ N[h][v] = f)
    BY <1>13 DEF Hangs
  <2>3. h # NULL => R.n[h][v] = f
    BY <1>7, <2>1, <2>2
  <2> QED
    BY <1>1, <1>6, <1>11, <1>17, <2>1, <2>2, <2>3 DEF DLoop, RED, BLACK
<1> QED
  BY <1>6, <1>7, <1>8, <1>11, <1>12, <1>18

-----------------------------------------------------------------------------
(* An assertion that holds leaves a tree as it is. *)
LEMMA AssertIs ==
  ASSUME NEW T \in Trees, NEW c, c
  PROVE  Assert(T, c) = T
BY DEF Assert, Trees

(* Painting changes no link. *)
LEMMA PaintLinks ==
  ASSUME NEW T \in Trees, NEW x \in Nodes, NEW c \in {RED, BLACK}, NEW y \in Nodes, NEW t \in Sides
  PROVE  Paint(T, x, c).n[y][t] = T.n[y][t]
<1>1. Painted(T.n, Paint(T, x, c).n, Nodes \cup {Forge}, x, c)
  BY PaintIs
<1> QED
  BY <1>1 DEF Painted, Alike

\* x is short of a black node, it has a black brother, and nothing else has changed.
Evened(T, T1, S, B, x, f, s) ==
  /\ T1.ok = T.ok /\ SameMap(T.n, T1.n, S) /\ T1.n[T1.n[f][Other(s)]].color = BLACK
  /\ \E C : Short(T1, S, C, x, f, s) /\ C[x] = B[x]

(* The first part of an iteration of d_adjust. *)
LEMMA BlackBrotherIs ==
  ASSUME NEW T, NEW S, NEW B, NEW x, NEW f, NEW s, Short(T, S, B, x, f, s),
         NEW T1, T1 = BlackBrother(Assert(T, ~isforge(Brother(T, x, f))), x, f)
  PROVE  Evened(T, T1, S, B, x, f, s)
<1> DEFINE o == Other(s)
           b == T.n[f][o]
           n == T.n[b][s]
           q == T.n[b][o]
           T2 == Paint(Paint(T, f, RED), b, BLACK)
<1>1. /\ Good(T, S, B, f, s, {}) /\ T \in Trees /\ s \in Sides /\ f \in S
  BY DEF Short, Good
<1>2. b \in S /\ b # x /\ Brother(T, x, f) = b /\ SideOf(T, x, f) = s
  BY BrotherIs
<1>3. b # Forge /\ T.n[b].color \in {RED, BLACK}
  <2>1. Forge \notin S /\ \A y \in S \cup {Forge} : T.n[y].color \in {RED, BLACK}
    BY <1>1, FirstIn
  <2> QED
    BY <1>2, <2>1
<1>4. Assert(T, ~isforge(Brother(T, x, f))) = T
  BY <1>1, <1>2, <1>3, AssertIs DEF isforge
<1>5. T1 = BlackBrother(T, x, f)
  BY <1>4
<1>6. T1 = IF T.n[b].color = RED
           THEN Rotate(Paint(Paint(Assert(T, T.n[f].color = BLACK), f, RED), b, BLACK), f, s)
           ELSE T
  BY <1>2, <1>5 DEF BlackBrother
<1>7. CASE T.n[b].color = RED
  <2>1. /\ T.n[f].color = BLACK /\ Rotate(T2, f, s).ok = T.ok
        /\ SameMap(T.n, Rotate(T2, f, s).n, S)
        /\ Rotate(T2, f, s).n[f][o] = n /\ Rotate(T2, f, s).n[n].color = BLACK
        /\ \E C : Short(Rotate(T2, f, s), S, C, x, f, s) /\ C[x] = B[x]
    BY <1>7, BlackBrotherTree
  <2>2. Assert(T, T.n[f].color = BLACK) = T
    BY <1>1, <2>1, AssertIs
  <2>3. T1 = Rotate(T2, f, s)
    BY <1>6, <1>7, <2>2
  <2> HIDE DEF T2, n, b, q
  <2> QED
    BY <2>1, <2>3, Zenon DEF Evened
<1>8. CASE T.n[b].color = BLACK
  <2>1. T1 = T
    BY <1>6, <1>8 DEF RED, BLACK
  <2>2. SameMap(T.n, T.n, S)
    BY DEF SameMap
  <2> QED
    BY <1>8, <2>1, <2>2 DEF Evened
<1> QED
  BY <1>3, <1>7, <1>8

\* Where d_adjust goes on: no node is short any more, or f is.
Progress(T, T3, S, B, x, f, up) ==
  /\ T3.ok = T.ok /\ SameMap(T.n, T3.n, S) /\ T3.n[T3.first].color = BLACK
  /\ \E C, u : /\ DLoop(T3, S, C, up, T3.n[up].father, u)
               /\ \/ up = f /\ T3.n[f].color = BLACK /\ C[f] = B[x] + 1
                  \/ up = f /\ T3.n[f].color = RED /\ C[f] = B[x]
                  \/ up = T3.first /\ C[f] = B[x] + 1

(* The brother has no red child. *)
LEMMA BothBlackIs ==
  ASSUME NEW T, NEW S, NEW B, NEW x, NEW f, NEW s, Short(T, S, B, x, f, s),
         NEW b, b = T.n[f][Other(s)], T.n[b].color = BLACK, BothBlack(T, b)
  PROVE  Progress(T, Paint(T, b, RED), S, B, x, f, f)
<1> DEFINE o == Other(s)
           n == T.n[b][s]
           q == T.n[b][o]
           R == Paint(T, b, RED)
<1>0. s \in Sides
  BY DEF Short
<1>r. R = Paint(T, b, RED)
  OBVIOUS
<1>1. Around(T, f, s, o, b, q, n)
  BY Zenon DEF Around
<1>2. T.n[q].color = BLACK /\ T.n[n].color = BLACK
  BY <1>0, Zenon DEF BothBlack, Sides, Other
<1>3. /\ R.ok = T.ok /\ SameMap(T.n, R.n, S) /\ R.n[f].father = T.n[f].father
      /\ R.n[R.first].color = BLACK
      /\ \E C, u : DLoop(R, S, C, f, T.n[f].father, u) /\ C[f] = B[f] - 1
  <2> HIDE DEF R, n, q, o
  <2> QED
    BY <1>r, <1>1, <1>2, BothBlackTree
<1>4. PICK C, u : DLoop(R, S, C, f, T.n[f].father, u) /\ C[f] = B[f] - 1
  BY <1>3, Zenon
<1>5. AroundAre(T, S, B, x, f, s, o, b, q, n)
  BY <1>1, AroundIs
<1>6. /\ B[x] \in Nat /\ B[b] = B[x] + 1 /\ T.n[f].color \in {RED, BLACK} /\ f # b
      /\ T.n[f].color = BLACK => B[f] = B[b] + 1
      /\ T.n[f].color = RED => B[f] = B[b]
  BY <1>5, Zenon DEF AroundAre
<1>7. R.n[f].color = T.n[f].color
  <2>1. T \in Trees /\ b \in Nodes /\ f \in Nodes
    <3>1. Good(T, S, B, f, s, {}) /\ f \in S /\ b \in S
      BY <1>5, Zenon DEF Short, AroundAre
    <3> QED
      BY <3>1, FirstIn, Zenon DEF Good
  <2>2. RED \in {RED, BLACK}
    OBVIOUS
  <2>3. Painted(T.n, R.n, Nodes \cup {Forge}, b, RED)
    BY <2>1, <2>2, PaintIs
  <2> QED
    BY <1>6, <2>1, <2>3 DEF Painted
<1> HIDE DEF R
<1>8. DLoop(R, S, C, f, R.n[f].father, u)
  BY <1>3, <1>4
<1>9. \/ R.n[f].color = BLACK /\ C[f] = B[x] + 1
      \/ R.n[f].color = RED /\ C[f] = B[x]
  BY <1>4, <1>6, <1>7
<1>10. Progress(T, R, S, B, x, f, f)
  BY <1>3, <1>8, <1>9, Zenon DEF Progress
<1> QED
  BY <1>10 DEF R

(* The brother has one: nothing is short when d_adjust goes on at the first node. *)
LEMMA DRotateIs ==
  ASSUME NEW T, NEW S, NEW B, NEW x, NEW f, NEW s, Short(T, S, B, x, f, s),
         NEW b, b = T.n[f][Other(s)], T.n[b].color = BLACK, ~BothBlack(T, b),
         NEW T3, T3 = DRotate(T, x, f, s)
  PROVE  Progress(T, T3, S, B, x, f, T3.first)
<1> DEFINE o == Other(s)
           n == T.n[b][s]
           q == T.n[b][o]
           T2 == Paint(Paint(T, n, BLACK), b, RED)
           T1 == Turn(T, b, s)
           c == T1.n[f][o]
           m == T1.n[c][s]
           r == T1.n[c][o]
           T4 == Paint(T1, c, T1.n[f].color)
           T5 == Paint(Paint(T4, f, BLACK), r, BLACK)
<1>0. s \in Sides /\ f \in S /\ Good(T, S, B, f, s, {}) /\ T \in Trees
  BY DEF Short, Good
<1>1. Around(T, f, s, o, b, q, n)
  BY Zenon DEF Around
<1>2. AroundAre(T, S, B, x, f, s, o, b, q, n)
  BY <1>1, AroundIs
<1>3. T.n[q].color \in {RED, BLACK} /\ T.n[n].color \in {RED, BLACK}
  <2>1. \A y \in S \cup {Forge} : T.n[y].color \in {RED, BLACK}
    BY <1>0, FirstIn, ZenonT(30)
  <2>2. q \in S \cup {Forge} /\ n \in S \cup {Forge}
    BY <1>2, Zenon DEF AroundAre
  <2> QED
    BY <2>1, <2>2
<1>4. ~(T.n[q].color = BLACK /\ T.n[n].color = BLACK)
  BY <1>0 DEF BothBlack, Sides, Other
<1>5. /\ T1.ok = T.ok /\ SameMap(T.n, T1.n, S) /\ T1.n[c].color = BLACK /\ T1.n[r].color = RED
      /\ \E C : Short(T1, S, C, x, f, s) /\ C[x] = B[x]
  <2>1. CASE T.n[q].color = BLACK
    <3>1. T.n[n].color = RED
      BY <1>3, <1>4, <2>1
    <3>2. T1 = Rotate(T2, b, o)
      BY <2>1 DEF Turn
    <3>3. TurnTo(T, b, o, n, T2, T1)
      BY <3>2 DEF TurnTo
    <3> HIDE DEF T1, T2, n, q, o
    <3>4. /\ T1.ok = T.ok /\ SameMap(T.n, T1.n, S)
          /\ T1.n[f][o] = n /\ T1.n[n].color = BLACK /\ T1.n[n][o] = b /\ T1.n[b].color = RED
          /\ \E C : Short(T1, S, C, x, f, s) /\ C[x] = B[x]
      BY <1>1, <2>1, <3>1, <3>3, TurnTree
    <3> QED
      BY <3>4, Zenon
  <2>2. CASE T.n[q].color = RED
    <3>1. T1 = T
      BY <2>2 DEF Turn, RED, BLACK
    <3>2. SameMap(T.n, T.n, S)
      BY DEF SameMap
    <3> QED
      BY <2>2, <3>1, <3>2, Zenon
  <2> QED
    BY <1>3, <2>1, <2>2, Zenon
<1>6. PICK C : Short(T1, S, C, x, f, s) /\ C[x] = B[x]
  BY <1>5, Zenon
<1>7. Brother(T, x, f) = b
  BY BrotherIs
<1>8. T3 = Rotate(Paint(Paint(Paint(T1, Brother(T1, x, f), T1.n[f].color), f, BLACK),
                        Paint(T1, Brother(T1, x, f), T1.n[f].color).n[Brother(T1, x, f)][o], BLACK),
                  f, s)
  BY <1>7, Zenon DEF DRotate
<1> HIDE DEF T1
<1>9. Brother(T1, x, f) = c
  BY <1>6, BrotherIs
<1>10. T3 = Rotate(Paint(Paint(T4, f, BLACK), T4.n[c][o], BLACK), f, s)
  BY <1>8, <1>9, Zenon
<1> HIDE DEF T4
<1>11. Around(T1, f, s, o, c, r, m)
  BY <1>5 DEF Around
<1>12. T4.n[c][o] = r
  <2>1. AroundAre(T1, S, C, x, f, s, o, c, r, m)
    BY <1>6, <1>11, AroundIs
  <2>2. c \in S /\ o \in Sides /\ T1.n[f].color \in {RED, BLACK}
    BY <2>1, Zenon DEF AroundAre
  <2>3. T1 \in Trees /\ S \subseteq Nodes
    <3>1. Good(T1, S, C, f, s, {})
      BY <1>6 DEF Short
    <3> QED
      BY <3>1, FirstIn DEF Good
  <2> HIDE DEF c, o
  <2>4. Paint(T1, c, T1.n[f].color).n[c][o] = T1.n[c][o]
    BY <2>2, <2>3, PaintLinks
  <2> QED
    BY <2>4, Zenon DEF T4
<1>13. DRotateTo(T1, f, s, c, r, T5, T3)
  BY <1>10, <1>12 DEF DRotateTo, T4
<1> HIDE DEF T5, c, r, m, o
<1>14. /\ T3.ok = T1.ok /\ SameMap(T1.n, T3.n, S) /\ T3.n[T3.first].color = BLACK
       /\ \E E : Good(T3, S, E, NULL, "lc", {}) /\ E[f] = C[x] + 1
  BY <1>5, <1>6, <1>11, <1>13, DRotateTree
<1>15. PICK E : Good(T3, S, E, NULL, "lc", {}) /\ E[f] = C[x] + 1
  BY <1>14
<1>16. /\ T3.first \in S /\ T3.n[T3.first].father = NULL
  BY <1>15, FirstIn
<1>17. DLoop(T3, S, E, T3.first, T3.n[T3.first].father, "lc")
  <2>1. Good(T3, S, E, NULL, "lc", {T3.first, T3.n[T3.first].lc, T3.n[T3.first].rc})
    BY <1>15 DEF Good, Coloured
  <2> QED
    BY <1>16, <2>1 DEF DLoop, Sides
<1>18. SameMap(T.n, T3.n, S)
  BY <1>5, <1>14 DEF SameMap
<1> QED
  BY <1>5, <1>6, <1>14, <1>15, <1>17, <1>18 DEF Progress

\* An iteration of d_adjust, as DAdjust has it.
DStep(T, x, f, T3, up) ==
  LET T1 == BlackBrother(Assert(T, ~isforge(Brother(T, x, f))), x, f)
      b  == Brother(T1, x, f)
      T2 == Assert(T1, T1.n[b].color = BLACK)
  IN  /\ T3 = IF BothBlack(T2, b) THEN Paint(T2, b, RED)
              ELSE DRotate(T2, x, f, SideOf(T2, x, f))
      /\ up = IF BothBlack(T2, b) THEN f ELSE Resume(T3, x)

(* It makes progress. *)
LEMMA DStepIs ==
  ASSUME NEW T, NEW S, NEW B, NEW x, NEW f, NEW s, Short(T, S, B, x, f, s),
         NEW T3, NEW up, DStep(T, x, f, T3, up)
  PROVE  Progress(T, T3, S, B, x, f, up)
<1> DEFINE T1 == BlackBrother(Assert(T, ~isforge(Brother(T, x, f))), x, f)
           b == T1.n[f][Other(s)]
<1>1. Evened(T, T1, S, B, x, f, s)
  BY BlackBrotherIs
<1>2. /\ T3 = IF BothBlack(Assert(T1, T1.n[Brother(T1, x, f)].color = BLACK), Brother(T1, x, f))
              THEN Paint(Assert(T1, T1.n[Brother(T1, x, f)].color = BLACK), Brother(T1, x, f), RED)
              ELSE DRotate(Assert(T1, T1.n[Brother(T1, x, f)].color = BLACK), x, f,
                           SideOf(Assert(T1, T1.n[Brother(T1, x, f)].color = BLACK), x, f))
      /\ up = IF BothBlack(Assert(T1, T1.n[Brother(T1, x, f)].color = BLACK), Brother(T1, x, f))
              THEN f ELSE T3.first
  BY DEF DStep, Resume
<1> HIDE DEF T1
<1>3. T1.ok = T.ok /\ SameMap(T.n, T1.n, S) /\ T1.n[b].color = BLACK
  BY <1>1 DEF Evened
<1>4. PICK C : Short(T1, S, C, x, f, s) /\ C[x] = B[x]
  BY <1>1 DEF Evened
<1>5. Brother(T1, x, f) = b /\ SideOf(T1, x, f) = s
  BY <1>4, BrotherIs
<1>6. T1 \in Trees
  BY <1>4 DEF Short, Good
<1>7. Assert(T1, T1.n[Brother(T1, x, f)].color = BLACK) = T1
  BY <1>3, <1>5, <1>6, AssertIs, Zenon
<1>8. /\ T3 = IF BothBlack(T1, b) THEN Paint(T1, b, RED) ELSE DRotate(T1, x, f, s)
      /\ up = IF BothBlack(T1, b) THEN f ELSE T3.first
  BY <1>2, <1>5, <1>7, Zenon
<1>9. b = T1.n[f][Other(s)]
  OBVIOUS
<1> HIDE DEF b
<1>10. Progress(T1, T3, S, C, x, f, up)
  <2>1. CASE BothBlack(T1, b)
    BY <1>3, <1>4, <1>8, <1>9, <2>1, BothBlackIs
  <2>2. CASE ~BothBlack(T1, b)
    BY <1>3, <1>4, <1>8, <1>9, <2>2, DRotateIs
  <2> QED
    BY <2>1, <2>2
<1>11. SameMap(T1.n, T3.n, S) => SameMap(T.n, T3.n, S)
  BY <1>3 DEF SameMap
<1> QED
  BY <1>3, <1>4, <1>10, <1>11 DEF Progress

-----------------------------------------------------------------------------
\* The red father f of x, on side s of the black grandfather g; the uncle is u.
Above(T, S, B, x, f, g, s, u) ==
  /\ f \in S /\ g \in S /\ s \in Sides /\ f # g /\ x # f /\ x # g
  /\ f = T.n[x].father /\ g = T.n[f].father /\ IsChild(T, g, s, f) /\ IsChild(T, g, Other(s), u)
  /\ u \in S \cup {Forge} /\ u # f /\ u # g /\ g # Forge /\ f # Forge /\ g # NULL
  /\ T.n[f].color = RED /\ T.n[g].color = BLACK /\ T.n[u].color \in {RED, BLACK}
  /\ T.n[T.first].color = BLACK
  /\ B[g] = B[f] + 1 /\ B[u] = B[f] /\ B[f] = B[x] /\ B[f] \in Nat
  /\ s = (IF f = T.n[g].lc THEN "lc" ELSE "rc")

(* i_adjust goes on only below a red father. *)
LEMMA IGoesOn ==
  ASSUME NEW T, NEW S, NEW B, NEW x, ILoop(T, S, B, x),
         ~(T.n[x].father = NULL \/ T.n[T.n[x].father].color = BLACK)
  PROVE  \E f, g, s, u : Above(T, S, B, x, f, g, s, u)
<1>1. /\ Good(T, S, B, NULL, "lc", {x}) /\ x \in S /\ T.n[x].color = RED
      /\ Coloured(T.n, S, {x}) /\ Heights(T.n, S, B, NULL, "lc")
  BY DEF ILoop, Good
<1>2. PICK D : IsTree(T.n, T.first, S, D)
  BY DEF ILoop, Good
<1>3. /\ T.first \in S /\ T.n[T.first].father = NULL /\ T.n \in Memory
      /\ Forge \notin S /\ NULL \notin S /\ B \in [S \cup {Forge} -> Nat] /\ B[Forge] = 0
      /\ \A y \in S \cup {Forge} : T.n[y].color \in {RED, BLACK}
  BY <1>1, FirstIn
<1>4. RED # BLACK
  BY DEF RED, BLACK
<1>5. PICK f, v : Hangs(T, S, x, f, v)
  BY <1>1, HangsIs
<1>6. f \in S /\ f = T.n[x].father /\ v \in Sides /\ T.n[f][v] = x /\ f # x /\ x # T.first
      /\ T.n[f].color = RED
  BY <1>3, <1>5 DEF Hangs
<1>7. T.n[T.first].color = BLACK
  BY <1>3, <1>6 DEF ILoop
<1>8. PICK g, s : Hangs(T, S, f, g, s)
  BY <1>1, <1>6, HangsIs, Zenon
<1>9. g \in S /\ g = T.n[f].father /\ s \in Sides /\ T.n[g][s] = f /\ g # f /\ f # T.first
      /\ g # NULL
  BY <1>4, <1>6, <1>7, <1>8, Zenon DEF Hangs
<1>10. T.n[g].color = BLACK
  <2>1. ~(T.n[g].color = RED /\ T.n[T.n[g][s]].color = RED)
    BY <1>1, <1>6, <1>9 DEF Coloured
  <2> QED
    BY <1>3, <1>6, <1>9, <2>1
<1> DEFINE u == T.n[g][Other(s)]
<1>11. g # x
  BY <1>1, <1>4, <1>10
<1>12. Other(s) \in Sides /\ Other(s) # s
  BY <1>9 DEF Sides, Other
<1>13. u \in S \cup {Forge} /\ u # g
  BY <1>1, <1>9, <1>12, KidsOf
<1>14. u # f
  <2>1. u = f => Other(s) = s
    BY <1>2, <1>3, <1>6, <1>9, <1>12, OneFather
  <2> QED
    BY <1>12, <2>1, Zenon
<1>15. /\ B[g] = B[f] + 1 /\ B[g] = B[u] + 1 /\ B[f] = B[x] /\ B[f] \in Nat /\ B[u] \in Nat
  <2>1. \A y \in S : y # NULL
    BY <1>3
  <2>2. ASSUME NEW y \in S, NEW t \in Sides
        PROVE  /\ B[y] \in Nat /\ B[T.n[y][t]] \in Nat
               /\ T.n[y].color = BLACK => B[y] = B[T.n[y][t]] + 1
               /\ T.n[y].color = RED => B[y] = B[T.n[y][t]]
    BY <1>1, <1>2, <1>3, <1>4, <2>1, HeightIn
  <2>3. B[g] = B[f] + 1
    BY <1>9, <1>10, <2>2
  <2>4. B[g] = B[u] + 1 /\ B[u] \in Nat
    BY <1>9, <1>10, <1>12, <2>2, Zenon
  <2>5. B[f] = B[x] /\ B[f] \in Nat
    BY <1>6, <2>2
  <2> QED
    BY <2>3, <2>4, <2>5
<1>16. s = (IF f = T.n[g].lc THEN "lc" ELSE "rc")
  <2>1. CASE s = "lc"
    BY <1>9, <2>1
  <2>2. CASE s = "rc"
    BY <1>14, <2>2 DEF Other
  <2> QED
    BY <1>9, <2>1, <2>2 DEF Sides
<1>17. IsChild(T, g, s, f) /\ IsChild(T, g, Other(s), u)
  BY <1>9 DEF IsChild
<1>18. T.n[u].color \in {RED, BLACK}
  BY <1>3, <1>13
<1>19. B[u] = B[f]
  BY <1>15
<1> HIDE DEF u
<1>20. Above(T, S, B, x, f, g, s, u)
  BY <1>3, <1>6, <1>7, <1>9, <1>10, <1>11, <1>13, <1>14, <1>15, <1>16, <1>17, <1>18, <1>19, Zenon DEF Above
<1> QED
  BY <1>20

\* Where i_adjust goes on.
Rises(T, R, S, B, x, g) ==
  /\ R.ok = T.ok /\ SameMap(T.n, R.n, S)
  /\ \E C : /\ ILoop(R, S, C, g) /\ \E y \in S : C[y] = B[x] + 1
            /\ \/ C[g] = B[x] + 1
               \/ R.n[R.n[g].father].color = BLACK

(* The uncle is black: one rotation or two. *)
LEMMA IRotateIs ==
  ASSUME NEW T, NEW S, NEW B, NEW x, ILoop(T, S, B, x), NEW f, NEW g, NEW s, NEW u,
         Above(T, S, B, x, f, g, s, u), T.n[u].color = BLACK
  PROVE  Rises(T, IRotate(T, x), S, B, x, g)
<1> DEFINE T1 == Straighten(T, x, f, s)
           R == IRotate(T, x)
           o == Other(s)
<1>0. /\ f = T.n[x].father /\ g = T.n[f].father
      /\ s = (IF f = T.n[g].lc THEN "lc" ELSE "rc")
  BY ZenonT(30) DEF Above
<1>1. /\ f \in S /\ g \in S /\ s \in Sides /\ f # g /\ x # f /\ x # g
      /\ T.n[f].color = RED /\ T.n[g].color = BLACK /\ T.n[T.first].color = BLACK
      /\ B[g] = B[f] + 1 /\ B[f] = B[x] /\ B[f] \in Nat
  BY ZenonT(30) DEF Above
<1>2. T.n[g][s] = f /\ T.n[T.n[g][o]].color = BLACK
  BY Zenon DEF Above, IsChild
<1>3. /\ Good(T, S, B, NULL, "lc", {x}) /\ x \in S /\ T.n[x].color = RED
  BY DEF ILoop
<1>4. R = Rotate(Paint(Paint(T1, g, RED), T1.n[g][s], BLACK), g, o)
  BY <1>0, Zenon DEF IRotate
<1>5. PICK h, v : Hangs(T, S, x, h, v)
  BY <1>3, HangsIs
<1>6. T.n[f][v] = x /\ v \in Sides
  <2>1. h = f /\ f # NULL
    <3>1. NULL \notin S
      BY <1>3, FirstIn
    <3> QED
      BY <1>0, <1>1, <1>5, <3>1, Zenon DEF Hangs
  <2> QED
    BY <1>5, <2>1 DEF Hangs
<1>7. v = s \/ v = o
  BY <1>1, <1>6 DEF Sides, Other
<1>8. \E C, y : /\ R.ok = T.ok /\ SameMap(T.n, R.n, S) /\ y \in S
                /\ R.n[g].color = RED /\ R.n[g].father = y /\ R.n[y].color = BLACK
                /\ R.n[R.first].color = BLACK
                /\ Good(R, S, C, NULL, "lc", {}) /\ C[g] = B[x] /\ C[y] = B[g]
  <2>1. CASE T.n[f][s] = x
    <3>1. T1 = T
      BY <2>1 DEF Straighten
    <3>2. R = Rotate(Paint(Paint(T, g, RED), T.n[g][s], BLACK), g, o)
      BY <1>4, <3>1, Zenon
    <3> HIDE DEF R
    <3>3. /\ R.ok = T.ok /\ SameMap(T.n, R.n, S)
          /\ R.n[g].color = RED /\ R.n[g].father = f /\ R.n[f].color = BLACK
          /\ R.n[R.first].color = BLACK
          /\ \E C : Good(R, S, C, NULL, "lc", {}) /\ C[g] = B[f] /\ C[f] = B[g]
      BY <1>1, <1>2, <1>3, <2>1, <3>2, OuterTree
    <3> QED
      BY <1>1, <3>3
  <2>2. CASE T.n[f][s] # x
    <3>1. T1 = Rotate(T, f, s) /\ T.n[f][Other(s)] = x
      BY <1>6, <1>7, <2>2 DEF Straighten
    <3> HIDE DEF R, T1
    <3>2. /\ Good(T1, S, B, NULL, "lc", {f}) /\ T1.ok = T.ok /\ T1.first = T.first
          /\ SameMap(T.n, T1.n, S) /\ SameColours(T.n, T1.n, S)
          /\ T1.n[x][s] = f /\ T1.n[g][s] = x /\ T1.n[g][Other(s)] = T.n[g][Other(s)]
      BY <1>1, <1>2, <1>3, <3>1, StraightenTree
    <3>3. \A y \in S \cup {Forge} : T1.n[y].color = T.n[y].color
      BY <3>2 DEF SameColours
    <3>4. T.n[g][o] \in S \cup {Forge} /\ T.first \in S
      BY <1>1, <1>3, FirstIn, Zenon DEF Above, IsChild
    <3>5. /\ T1.n[f].color = RED /\ T1.n[x].color = RED /\ T1.n[g].color = BLACK
          /\ T1.n[T1.n[g][Other(s)]].color = BLACK /\ T1.n[T1.first].color = BLACK
      BY <1>1, <1>2, <1>3, <3>2, <3>3, <3>4
    <3>6. /\ R.ok = T1.ok /\ SameMap(T1.n, R.n, S)
          /\ R.n[g].color = RED /\ R.n[g].father = x /\ R.n[x].color = BLACK
          /\ R.n[R.first].color = BLACK
          /\ \E C : Good(R, S, C, NULL, "lc", {}) /\ C[g] = B[x] /\ C[x] = B[g]
      BY <1>1, <1>3, <1>4, <3>2, <3>5, OuterTree
    <3>7. SameMap(T.n, R.n, S)
      BY <3>2, <3>6 DEF SameMap
    <3> QED
      BY <1>3, <3>2, <3>6, <3>7
  <2> QED
    BY <2>1, <2>2
<1> HIDE DEF R
<1>9. PICK C, y : /\ R.ok = T.ok /\ SameMap(T.n, R.n, S) /\ y \in S
                  /\ R.n[g].color = RED /\ R.n[g].father = y /\ R.n[y].color = BLACK
                  /\ R.n[R.first].color = BLACK
                  /\ Good(R, S, C, NULL, "lc", {}) /\ C[g] = B[x] /\ C[y] = B[g]
  BY <1>8
<1>10. ILoop(R, S, C, g)
  <2>1. Good(R, S, C, NULL, "lc", {g})
    BY <1>9 DEF Good, Coloured
  <2> QED
    BY <1>1, <1>9, <2>1 DEF ILoop, RED, BLACK
<1>11. C[y] = B[x] + 1
  BY <1>1, <1>9
<1>12. Rises(T, R, S, B, x, g)
  BY <1>9, <1>10, <1>11 DEF Rises
<1> QED
  BY <1>12 DEF R

(* The uncle is red: he and the father become black, the grandfather red. *)
LEMMA RecolourIs ==
  ASSUME NEW T, NEW S, NEW B, NEW x, ILoop(T, S, B, x), NEW f, NEW g, NEW s, NEW u,
         Above(T, S, B, x, f, g, s, u), T.n[u].color = RED
  PROVE  Rises(T, Recolour(T, g), S, B, x, g)
<1> DEFINE N == T.n
           l == N[g].lc
           r == N[g].rc
           T1 == Paint(T, l, BLACK)
           T2 == Paint(T1, r, BLACK)
           R == Paint(T2, g, RED)
<1>1. /\ f \in S /\ g \in S /\ s \in Sides /\ f # g /\ x # f /\ x # g /\ g # NULL
      /\ N[f].color = RED /\ N[g].color = BLACK /\ N[T.first].color = BLACK
      /\ B[g] = B[f] + 1 /\ B[f] = B[x] /\ B[u] = B[f] /\ B[f] \in Nat
      /\ u \in S \cup {Forge} /\ u # f /\ u # g
      /\ IsChild(T, g, s, f) /\ IsChild(T, g, Other(s), u)
  BY ZenonT(30) DEF Above
<1>0. f = N[x].father
  BY Zenon DEF Above
<1>2. /\ Good(T, S, B, NULL, "lc", {x}) /\ x \in S /\ N[x].color = RED
      /\ Coloured(N, S, {x}) /\ Heights(N, S, B, NULL, "lc") /\ ForgeFine(N) /\ T \in Trees
  BY DEF ILoop, Good
<1>3. PICK D : IsTree(N, T.first, S, D)
  BY DEF ILoop, Good
<1>4. /\ T.first \in S /\ N[T.first].father = NULL /\ N \in Memory
      /\ Forge \notin S /\ NULL \notin S /\ B \in [S \cup {Forge} -> Nat] /\ B[Forge] = 0
      /\ \A y \in S \cup {Forge} : N[y].color \in {RED, BLACK}
  BY <1>2, FirstIn
<1>5. u # Forge
  BY <1>2 DEF ForgeFine, RED, BLACK
<1>6. {f, u} = {l, r} /\ l # r
  <2>1. N[g][s] = f /\ N[g][Other(s)] = u
    BY <1>1 DEF IsChild
  <2>2. CASE s = "lc"
    <3>1. f = l /\ u = r
      BY <2>1, <2>2 DEF Other
    <3> QED
      BY <1>1, <3>1
  <2>3. CASE s = "rc"
    <3>1. f = r /\ u = l
      BY <2>1, <2>3 DEF Other
    <3> QED
      BY <1>1, <3>1
  <2> QED
    BY <1>1, <2>2, <2>3 DEF Sides
<1>k. l = N[g].lc /\ r = N[g].rc
  OBVIOUS
<1>t. T1 = Paint(T, l, BLACK)
  OBVIOUS
<1>r. R = Paint(Paint(T1, r, BLACK), g, RED) /\ Recolour(T, g) = R
  BY DEF Recolour
<1> HIDE DEF l, r, T1, T2, R
<1>7. /\ l \in S /\ r \in S /\ l # r /\ l # g /\ r # g /\ N[l].color = RED /\ N[r].color = RED
      /\ B[l] = B[x] /\ B[r] = B[x] /\ l # Forge /\ r # Forge
  <2>1. u \in S
    BY <1>1, <1>5
  <2>2. (l = f /\ r = u) \/ (l = u /\ r = f)
    BY <1>6
  <2> QED
    BY <1>1, <1>2, <1>4, <1>5, <1>6, <2>1, <2>2
<1>8. RED \in {RED, BLACK} /\ BLACK \in {RED, BLACK} /\ RED # BLACK
  BY DEF RED, BLACK
<1>9. /\ T1 \in Trees /\ T1.ok = T.ok /\ T1.first = T.first /\ IsTree(T1.n, T1.first, S, D)
      /\ Painted(N, T1.n, S \cup {Forge}, l, BLACK)
  <2>1. T \in Trees /\ IsTree(T.n, T.first, S, D) /\ l \in S
    BY <1>2, <1>3, <1>7
  <2>2. BLACK \in {RED, BLACK}
    OBVIOUS
  <2> HIDE <1>1, <1>2, <1>3, <1>4, <1>7
  <2>3. Repainted(T, Paint(T, l, BLACK), S, D, l, BLACK)
    BY <2>1, <2>2, Repaint
  <2> QED
    BY <1>t, <2>3 DEF Repainted
<1>11. TwoPainted(T1, R, S, r, BLACK, g, RED) /\ IsTree(R.n, R.first, S, D)
  <2>1. R = Paint(Paint(T1, r, BLACK), g, RED)
    BY <1>r
  <2> HIDE <1>r
  <2> QED
    BY <1>1, <1>7, <1>8, <1>9, <2>1, TwoPaints
<1>12. /\ R \in Trees /\ R.ok = T.ok /\ R.first = T.first /\ Alike(N, R.n, S \cup {Forge})
       /\ R.n[l].color = BLACK /\ R.n[r].color = BLACK /\ R.n[g].color = RED
       /\ \A y \in S \cup {Forge} : y # l /\ y # r /\ y # g => R.n[y].color = N[y].color
  <2>1. Alike(N, R.n, S \cup {Forge})
    BY <1>9, <1>11 DEF Painted, TwoPainted, Alike
  <2>2. \A y \in S \cup {Forge} : T1.n[y].color = IF y = l THEN BLACK ELSE N[y].color
    BY <1>9 DEF Painted
  <2>3. /\ R.n[r].color = BLACK /\ R.n[g].color = RED
        /\ \A y \in S \cup {Forge} : y # r /\ y # g => R.n[y].color = T1.n[y].color
    BY <1>11 DEF TwoPainted
  <2> QED
    BY <1>7, <1>9, <1>11, <2>1, <2>2, <2>3 DEF TwoPainted
<1>13. /\ SameMap(N, R.n, S)
       /\ \A y \in S : \A t \in Sides : R.n[y][t] = N[y][t]
  BY <1>12 DEF SameMap, Alike
<1>14. \A t \in Sides : N[g][t] \in {l, r}
  BY <1>k DEF Sides
<1>15. \A y \in S : \A t \in Sides : N[y][t] \in {l, r} => y = g
  <2> SUFFICES ASSUME NEW y \in S, NEW t \in Sides, N[y][t] \in {l, r}
               PROVE  y = g
    BY Zenon
  <2>1. N[N[y][t]].father = y
    BY <1>2, <1>7, KidsOf
  <2>2. \A w \in Sides : N[g][w] \in S => N[N[g][w]].father = g
    BY <1>1, <1>2, KidsOf
  <2>3. N[l].father = g /\ N[r].father = g
    BY <1>7, <1>k, <2>2, Zenon DEF Sides
  <2> QED
    BY <2>1, <2>3
<1> DEFINE C == [B EXCEPT ![l] = B[g], ![r] = B[g]]
<1>16. /\ C \in [S \cup {Forge} -> Nat] /\ C[Forge] = 0 /\ C[l] = B[g] /\ C[r] = B[g] /\ C[g] = B[g]
       /\ \A y \in S \cup {Forge} : y # l /\ y # r => C[y] = B[y]
  BY <1>1, <1>4, <1>7, Zenon
<1> HIDE DEF C
<1>17. ASSUME NEW y \in S, NEW t \in Sides
       PROVE  C[y] = C[R.n[y][t]] + (IF R.n[y].color = BLACK THEN 1 ELSE 0)
              /\ C[R.n[y][t]] \in Nat
  <2>1. /\ B[y] \in Nat /\ B[N[y][t]] \in Nat
        /\ B[y] = B[N[y][t]] + (IF N[y].color = BLACK THEN 1 ELSE 0)
    <3>1. y # NULL
      BY <1>4, Zenon
    <3> QED
      BY <1>2, <1>3, <1>4, <3>1, HeightIn
  <2>2. N[y][t] \in S \cup {Forge} /\ R.n[y][t] = N[y][t]
    BY <1>2, <1>13, KidsOf
  <2>3. CASE y = g
    <3>1. C[N[y][t]] = B[g]
      BY <1>14, <1>16, <2>3, Zenon
    <3> QED
      BY <1>1, <1>8, <1>12, <1>16, <2>2, <2>3, <3>1
  <2>4. CASE y # g
    <3>1. C[N[y][t]] = B[N[y][t]]
      BY <1>15, <1>16, <2>2, <2>4, Zenon
    <3>2. CASE y = l \/ y = r
      BY <1>1, <1>7, <1>8, <1>12, <1>16, <2>1, <2>2, <3>1, <3>2
    <3>3. CASE y # l /\ y # r
      BY <1>12, <1>16, <2>1, <2>2, <2>4, <3>1, <3>3, Zenon
    <3> QED
      BY <3>2, <3>3
  <2> QED
    BY <2>3, <2>4, Zenon
<1>18. Heights(R.n, S, C, NULL, "lc")
  BY <1>4, <1>16, <1>17 DEF Heights
<1>19. N[x].father = f /\ f \in {l, r}
  BY <1>0, <1>6
<1>20. Coloured(R.n, S, {g})
  <2> SUFFICES ASSUME NEW y \in S, NEW t \in Sides, R.n[y].color = RED, R.n[R.n[y][t]].color = RED,
                      R.n[y][t] # g
               PROVE  FALSE
    BY Zenon DEF Coloured
  <2>1. N[y][t] \in S \cup {Forge} /\ R.n[y][t] = N[y][t] /\ N[y][t] # g
    BY <1>2, <1>13, KidsOf
  <2>2. y # g
    BY <1>8, <1>12, <1>14, <2>1
  <2>3. y # l /\ y # r /\ N[y][t] # l /\ N[y][t] # r
    BY <1>8, <1>12, <2>1
  <2>4. N[y].color = RED /\ N[N[y][t]].color = RED
    BY <1>12, <2>1, <2>2, <2>3, Zenon
  <2>5. N[y][t] = x
    BY <1>2, <2>4, Zenon DEF Coloured
  <2>6. N[x].father = y
    BY <1>2, <2>5, KidsOf
  <2> QED
    BY <1>19, <2>3, <2>6, Zenon
<1>21. Good(R, S, C, NULL, "lc", {g})
  <2>1. R.n[Forge].color = BLACK
    BY <1>1, <1>2, <1>4, <1>7, <1>12 DEF ForgeFine
  <2> QED
    BY <1>2, <1>12, <1>18, <1>20, <2>1, PaintedGood
<1>22. ILoop(R, S, C, g)
  <2>1. R.n[R.first].color = RED => g = R.first
    BY <1>1, <1>4, <1>8, <1>12
  <2> QED
    BY <1>1, <1>12, <1>21, <2>1, Zenon DEF ILoop
<1>23. C[g] = B[x] + 1
  BY <1>1, <1>16, Zenon
<1>24. Rises(T, R, S, B, x, g)
  BY <1>1, <1>12, <1>13, <1>22, <1>23 DEF Rises
<1> QED
  BY <1>24, <1>r

-----------------------------------------------------------------------------
(* The calls. *)

\* A red-black tree, as it is between the calls.
Whole(T, S, B) == Good(T, S, B, NULL, "lc", {}) /\ T.n[T.first].color = BLACK

(* A tree is the same when nothing that is in it has changed but values. *)
LEMMA SameGood ==
  ASSUME NEW T, NEW S, NEW B, NEW f, NEW s, NEW E, Good(T, S, B, f, s, E),
         NEW R \in Trees, R.first = T.first, SameLinks(T.n, R.n, S), SameColours(T.n, R.n, S),
         R.n[Forge].lc = T.n[Forge].lc, R.n[Forge].rc = T.n[Forge].rc
  PROVE  /\ Good(R, S, B, f, s, E)
         /\ \A y \in S : \A t \in Sides : R.n[y][t] = T.n[y][t]
<1>1. PICK D : IsTree(T.n, T.first, S, D)
  BY DEF Good
<1>2. T.n \in Memory /\ Heights(T.n, S, B, f, s) /\ Coloured(T.n, S, E) /\ ForgeFine(T.n)
  BY FirstIn DEF Good
<1>3. IsTree(R.n, R.first, S, D)
  BY <1>1, <1>2, SameTree
<1>4. \A y \in S : \A t \in Sides : R.n[y][t] = T.n[y][t]
  BY DEF SameLinks, Sides
<1>5. \A y \in S \cup {Forge} : R.n[y].color = T.n[y].color
  BY Zenon DEF SameColours
<1>6. Heights(R.n, S, B, f, s)
  BY <1>2, <1>4, <1>5 DEF Heights
<1>7. Coloured(R.n, S, E)
  <2> SUFFICES ASSUME NEW y \in S, NEW t \in Sides, R.n[y].color = RED, R.n[R.n[y][t]].color = RED
               PROVE  R.n[y][t] \in E
    BY Zenon DEF Coloured
  <2>1. T.n[y][t] \in S \cup {Forge}
    BY KidsOf
  <2> QED
    BY <1>2, <1>4, <1>5, <2>1 DEF Coloured
<1>8. ForgeFine(R.n)
  BY <1>2, <1>5 DEF ForgeFine
<1> QED
  BY <1>3, <1>4, <1>6, <1>7, <1>8 DEF Good

(* The first node that is inserted. *)
LEMMA SingleTree ==
  ASSUME NEW T \in Trees, ForgeFine(T.n), NEW x \in Nodes, NEW k \in Key, NEW v \in Val,
         NEW R \in Trees, R.first = x, R.n = [T.n EXCEPT ![x] = NewNode(k, v, NULL, BLACK)]
  PROVE  \E B : Whole(R, {x}, B)
<1> DEFINE D == [y \in {x} \cup {Forge} |-> IF y = x THEN {x} ELSE {}]
           B == [y \in {x} \cup {Forge} |-> IF y = x THEN 1 ELSE 0]
<1>1. T.n \in Memory /\ x # Forge
  BY RBAssumption DEF Trees
<1>2. /\ R.n[x].key = k /\ R.n[x].father = NULL /\ R.n[x].color = BLACK
      /\ R.n[x].lc = Forge /\ R.n[x].rc = Forge
      /\ R.n[Forge] = T.n[Forge]
  BY <1>1 DEF NewNode, Memory
<1>3. \A t \in Sides : R.n[x][t] = Forge
  BY <1>2 DEF Sides
<1>4. IsTree(R.n, R.first, {x}, D)
  BY <1>1, <1>2 DEF IsTree, Sorted, Linked
<1>5. Heights(R.n, {x}, B, NULL, "lc")
  <2>1. x # NULL
    BY RBAssumption
  <2> QED
    BY <1>1, <1>2, <1>3, <2>1 DEF Heights
<1>6. Coloured(R.n, {x}, {})
  BY <1>2 DEF Coloured, RED, BLACK
<1>7. ForgeFine(R.n)
  BY <1>2 DEF ForgeFine
<1> QED
  BY <1>2, <1>4, <1>5, <1>6, <1>7 DEF Whole, Good

\* x is a new leaf on side s of p.
Leaf(N, R, S, p, s, x, k) ==
  /\ R \in Memory /\ x \in Nodes \ S /\ p \in S /\ s \in Sides /\ k \in Key /\ N[p][s] = Forge
  /\ R[x].key = k /\ R[x].father = p /\ R[x].color = RED
  /\ \A t \in Sides : R[x][t] = Forge
  /\ \A y \in S \cup {Forge} :
       /\ R[y].key = N[y].key /\ R[y].val = N[y].val /\ R[y].father = N[y].father
       /\ R[y].color = N[y].color
       /\ \A t \in Sides : R[y][t] = IF y = p /\ t = s THEN x ELSE N[y][t]
\* That is where k belongs.
Fits(N, S, D, p, s, k) ==
  /\ Before(s, k, N[p].key)
  /\ \A z \in S, t \in Sides : p \in D[N[z][t]] => Before(t, k, N[z].key)

(* The tree with a new leaf. *)
LEMMA LeafTree ==
  ASSUME NEW N \in Memory, NEW r, NEW S, NEW D, IsTree(N, r, S, D), NEW R, NEW p, NEW s, NEW x,
         NEW k, Leaf(N, R, S, p, s, x, k), Fits(N, S, D, p, s, k)
  PROVE  \E E : IsTree(R, r, S \cup {x}, E)
<1> DEFINE U == S \cup {x}
           E == [z \in U \cup {Forge} |-> IF z = x THEN {x} ELSE IF p \in D[z] THEN D[z] \cup {x} ELSE D[z]]
<1>1. /\ Sorted(N, S, D) /\ Linked(N, r, S) /\ D[r] = S /\ S \subseteq Nodes
      /\ D \in [S \cup {Forge} -> SUBSET S] /\ D[Forge] = {} /\ r \in S /\ N[r].father = NULL
      /\ \A z \in S : N[z].key \in Key
  BY DEF IsTree, Sorted, Linked
<1>2. /\ R \in Memory /\ x \in Nodes \ S /\ p \in S /\ s \in Sides /\ k \in Key /\ N[p][s] = Forge
      /\ R[x].key = k /\ R[x].father = p
      /\ \A t \in Sides : R[x][t] = Forge
      /\ \A y \in S \cup {Forge} : R[y].key = N[y].key /\ R[y].father = N[y].father
      /\ \A y \in S \cup {Forge} : \A t \in Sides : R[y][t] = IF y = p /\ t = s THEN x ELSE N[y][t]
  BY DEF Leaf
<1>3. x # Forge
  BY <1>2, RBAssumption
<1>4. /\ E \in [U \cup {Forge} -> SUBSET U] /\ E[Forge] = {} /\ E[x] = {x}
      /\ \A z \in S \cup {Forge} : E[z] = IF p \in D[z] THEN D[z] \cup {x} ELSE D[z]
  BY <1>1, <1>2, <1>3
<1> HIDE DEF E
<1>5. \A z \in S : \A t \in Sides :
        /\ z \in D[z] /\ N[z][t] \in S \cup {Forge} /\ z \notin D[N[z][t]]
        /\ D[N[z][t]] \subseteq D[z]
        /\ D[z] = {z} \cup D[N[z][t]] \cup D[N[z][Other(t)]]
        /\ \A y \in D[N[z][t]] : y \in S /\ Before(t, N[y].key, N[z].key)
  <2> SUFFICES ASSUME NEW z \in S, NEW t \in Sides
               PROVE  /\ z \in D[z] /\ N[z][t] \in S \cup {Forge} /\ z \notin D[N[z][t]]
                      /\ D[N[z][t]] \subseteq D[z]
                      /\ D[z] = {z} \cup D[N[z][t]] \cup D[N[z][Other(t)]]
                      /\ \A y \in D[N[z][t]] : y \in S /\ Before(t, N[y].key, N[z].key)
    OBVIOUS
  <2> QED
    BY <1>1, SidesOf
<1>6. r \in U /\ R[r].father = NULL /\ E[r] = U
  BY <1>1, <1>2, <1>4
<1>7. E[x] = {x} \cup E[R[x].lc] \cup E[R[x].rc]
  <2>1. R[x].lc = Forge /\ R[x].rc = Forge
    BY <1>2 DEF Sides
  <2> QED
    BY <1>4, <2>1
<1>8. ASSUME NEW z \in S PROVE E[z] = {z} \cup E[R[z].lc] \cup E[R[z].rc]
  <2>1. D[z] = {z} \cup D[N[z].lc] \cup D[N[z].rc] /\ N[z].lc \in S \cup {Forge}
        /\ N[z].rc \in S \cup {Forge}
    BY <1>1, Zenon DEF Sorted
  <2>2. CASE z # p
    <3>1. R[z].lc = N[z].lc /\ R[z].rc = N[z].rc
      BY <1>2, <2>2 DEF Sides
    <3> QED
      <4>1. /\ E[z] = IF p \in D[z] THEN D[z] \cup {x} ELSE D[z]
            /\ E[N[z].lc] = IF p \in D[N[z].lc] THEN D[N[z].lc] \cup {x} ELSE D[N[z].lc]
            /\ E[N[z].rc] = IF p \in D[N[z].rc] THEN D[N[z].rc] \cup {x} ELSE D[N[z].rc]
        BY <1>4, <2>1, Zenon
      <4>2. E[R[z].lc] = E[N[z].lc] /\ E[R[z].rc] = E[N[z].rc]
        BY <3>1
      <4> QED
        BY <2>1, <2>2, <4>1, <4>2
  <2>3. CASE z = p
    <3>1. E[p] = D[p] \cup {x}
      <4>1. p \in D[p]
        BY <1>2, <1>5
      <4> QED
        BY <1>2, <1>4, <4>1
    <3>2. p \notin D[N[p].lc] /\ p \notin D[N[p].rc]
      BY <1>2, <1>5 DEF Sides
    <3>3. CASE s = "lc"
      <4>1. R[p].lc = x /\ R[p].rc = N[p].rc /\ N[p].lc = Forge
        BY <1>2, <3>3 DEF Sides
      <4>2. E[N[p].rc] = D[N[p].rc]
        BY <1>4, <2>1, <2>3, <3>2
      <4> QED
        BY <1>1, <1>4, <2>1, <2>3, <3>1, <4>1, <4>2
    <3>4. CASE s = "rc"
      <4>1. R[p].rc = x /\ R[p].lc = N[p].lc /\ N[p].rc = Forge
        BY <1>2, <3>4 DEF Sides
      <4>2. E[N[p].lc] = D[N[p].lc]
        BY <1>4, <2>1, <2>3, <3>2
      <4> QED
        BY <1>1, <1>4, <2>1, <2>3, <3>1, <4>1, <4>2
    <3> QED
      BY <1>2, <3>3, <3>4 DEF Sides
  <2> QED
    BY <2>2, <2>3, Zenon
<1>9. \A z \in U : R[z].key \in Key /\ E[z] = {z} \cup E[R[z].lc] \cup E[R[z].rc]
  BY <1>1, <1>2, <1>7, <1>8
<1>10. ASSUME NEW z \in U, NEW t \in Sides
       PROVE  /\ R[z][t] \in U \cup {Forge}
              /\ \A y \in E[R[z][t]] : Before(t, R[y].key, R[z].key)
              /\ R[z][t] \in U => R[R[z][t]].father = z
  <2>1. CASE z = x
    <3>1. R[z][t] = Forge
      BY <1>2, <2>1
    <3> QED
      <4>1. E[R[z][t]] = {}
        BY <1>4, <3>1
      <4>2. Forge \notin S /\ Forge # x
        BY <1>1, <1>3, RBAssumption
      <4> QED
        BY <3>1, <4>1, <4>2
  <2>2. CASE z = p /\ t = s
    <3>1. R[z][t] = x
      BY <1>2, <2>2
    <3>2. Before(t, k, N[p].key)
      BY <2>2 DEF Fits
    <3> QED
      BY <1>2, <1>4, <2>2, <3>1, <3>2
  <2>3. CASE z \in S /\ (z # p \/ t # s)
    <3>1. R[z][t] = N[z][t] /\ N[z][t] \in S \cup {Forge}
      BY <1>2, <1>5, <2>3
    <3>2. ASSUME NEW y \in E[N[z][t]] PROVE Before(t, R[y].key, R[z].key)
      <4>1. CASE y \in D[N[z][t]]
        BY <1>2, <1>5, <2>3, <4>1
      <4>2. CASE y \notin D[N[z][t]]
        <5>1. y = x /\ p \in D[N[z][t]]
          <6>1. E[N[z][t]] = IF p \in D[N[z][t]] THEN D[N[z][t]] \cup {x} ELSE D[N[z][t]]
            BY <1>4, <3>1, Zenon
          <6> QED
            BY <3>2, <4>2, <6>1
        <5> QED
          BY <1>2, <2>3, <5>1 DEF Fits
      <4> QED
        BY <4>1, <4>2
    <3>3. N[z][t] \in S => N[N[z][t]].father = z
      BY <1>1, <2>3, LinksOf
    <3>4. N[z][t] # x
      BY <1>2, <1>3, <3>1
    <3> QED
      BY <1>2, <3>1, <3>2, <3>3, <3>4
  <2> QED
    BY <1>2, <2>1, <2>2, <2>3
<1>11. ASSUME NEW z \in U, z # r
       PROVE  R[z].father \in U /\ \E t \in Sides : R[R[z].father][t] = z
  <2>1. CASE z = x
    <3>1. R[p][s] = x
      BY <1>2
    <3> QED
      BY <1>2, <2>1, <3>1
  <2>2. CASE z \in S
    <3>1. N[z].father \in S /\ \E t \in Sides : N[N[z].father][t] = z
      BY <1>1, <1>11, <2>2, LinksOf
    <3>2. PICK t \in Sides : N[N[z].father][t] = z
      BY <3>1
    <3>3. R[N[z].father][t] = z
      <4>1. R[N[z].father][t] = IF N[z].father = p /\ t = s THEN x ELSE N[N[z].father][t]
        BY <1>2, <3>1, Zenon
      <4>2. N[p][s] # z
        <5>1. N[p][s] = Forge /\ z # Forge
          BY <1>1, <1>2, <2>2, RBAssumption
        <5> QED
          BY <5>1
      <4> QED
        BY <3>2, <4>1, <4>2
    <3> QED
      BY <1>2, <2>2, <3>1, <3>3
  <2> QED
    BY <2>1, <2>2
<1>12. BySides(R, r, U, E)
  BY <1>1, <1>2, <1>4, <1>6, <1>9, <1>10, <1>11 DEF BySides
<1>13. IsTree(R, r, U, E)
  BY <1>2, <1>12, TreeBySides
<1> QED
  BY <1>13
\* All ways down from a node have as many black nodes.
Level(N, S, B) ==
  /\ B \in [S \cup {Forge} -> Nat] /\ B[Forge] = 0
  /\ \A y \in S, t \in Sides : B[y] = B[N[y][t]] + (IF N[y].color = BLACK THEN 1 ELSE 0)

(* That is what the heights say when no node is short of a black one. *)
LEMMA LevelIs ==
  ASSUME NEW N, NEW S, NULL \notin S, NEW B, NEW u,
         \A y \in S : \A t \in Sides : N[y][t] \in S \cup {Forge}
  PROVE  Heights(N, S, B, NULL, u) <=> Level(N, S, B)
<1> SUFFICES ASSUME B \in [S \cup {Forge} -> Nat], NEW y \in S, NEW t \in Sides
             PROVE  B[y] = B[N[y][t]] + (IF y = NULL /\ t = u THEN 1 ELSE 0)
                                      + (IF N[y].color = BLACK THEN 1 ELSE 0)
                    <=> B[y] = B[N[y][t]] + (IF N[y].color = BLACK THEN 1 ELSE 0)
  BY DEF Heights, Level
<1>1. B[N[y][t]] + (IF y = NULL /\ t = u THEN 1 ELSE 0) = B[N[y][t]]
  <2>1. B[N[y][t]] \in Nat /\ y # NULL
    OBVIOUS
  <2> QED
    BY <2>1
<1> QED
  BY <1>1

(* Inserting a leaf leaves nothing wrong with the tree but, perhaps, the leaf's colour. *)
LEMMA LeafGood ==
  ASSUME NEW T, NEW S, NEW B, Whole(T, S, B), NEW R \in Trees, R.first = T.first,
         NEW p, NEW s, NEW x, NEW k, Leaf(T.n, R.n, S, p, s, x, k),
         NEW D, IsTree(T.n, T.first, S, D), Fits(T.n, S, D, p, s, k)
  PROVE  \E C : ILoop(R, S \cup {x}, C, x) /\ C[x] = 0
<1> DEFINE U == S \cup {x}
           C == [y \in U \cup {Forge} |-> IF y = x THEN 0 ELSE B[y]]
<1>1. Good(T, S, B, NULL, "lc", {}) /\ T.n[T.first].color = BLACK
  BY DEF Whole
<1>2. /\ T.first \in S /\ T.n \in Memory /\ Forge \notin S
      /\ B \in [S \cup {Forge} -> Nat] /\ B[Forge] = 0
      /\ \A y \in S \cup {Forge} : T.n[y].color \in {RED, BLACK}
  BY <1>1, FirstIn
<1>3. Heights(T.n, S, B, NULL, "lc") /\ Coloured(T.n, S, {}) /\ ForgeFine(T.n)
  BY <1>1 DEF Good
<1>4. /\ R.n \in Memory /\ x \in Nodes \ S /\ p \in S /\ s \in Sides /\ T.n[p][s] = Forge
      /\ R.n[x].color = RED /\ \A t \in Sides : R.n[x][t] = Forge
      /\ \A y \in S \cup {Forge} : R.n[y].color = T.n[y].color
      /\ \A y \in S \cup {Forge} : \A t \in Sides : R.n[y][t] = IF y = p /\ t = s THEN x ELSE T.n[y][t]
  BY DEF Leaf
<1>5. x # Forge /\ x # NULL /\ NULL \notin S
  <2>1. Forge \notin S /\ NULL \notin S
    BY <1>1, FirstIn
  <2> QED
    BY <1>4, <2>1, RBAssumption
<1>6. \E E : IsTree(R.n, R.first, U, E)
  BY <1>2, LeafTree
<1>7. /\ C \in [U \cup {Forge} -> Nat] /\ C[x] = 0 /\ C[Forge] = 0
      /\ \A y \in S \cup {Forge} : C[y] = B[y]
  BY <1>2, <1>4, <1>5
<1> HIDE DEF C
<1>8. \A y \in S : \A t \in Sides : T.n[y][t] \in S \cup {Forge}
  BY <1>1, KidsOf
<1>9. Heights(R.n, U, C, NULL, "lc")
  <2> SUFFICES ASSUME NEW y \in U, NEW t \in Sides
               PROVE  C[y] = C[R.n[y][t]] + (IF R.n[y].color = BLACK THEN 1 ELSE 0)
    <3>1. Level(R.n, U, C) => Heights(R.n, U, C, NULL, "lc")
      <4>1. \A y \in U : \A t \in Sides : R.n[y][t] \in U \cup {Forge}
        BY <1>4, <1>8
      <4> QED
        BY <1>5, <4>1, LevelIs
    <3> QED
      BY <1>7, <3>1 DEF Level
  <2>1. CASE y = x
    <3>1. R.n[y][t] = Forge /\ R.n[y].color # BLACK
      BY <1>4, <2>1 DEF RED, BLACK
    <3> QED
      BY <1>7, <2>1, <3>1
  <2>2. CASE y \in S
    <3>1. B[y] = B[T.n[y][t]] + (IF T.n[y].color = BLACK THEN 1 ELSE 0)
      <4>1. Level(T.n, S, B)
        BY <1>3, <1>5, <1>8, LevelIs
      <4> QED
        BY <2>2, <4>1 DEF Level
    <3>2. R.n[y].color = T.n[y].color
      BY <1>4, <2>2
    <3>3. C[R.n[y][t]] = B[T.n[y][t]]
      <4>1. CASE y = p /\ t = s
        <5>1. R.n[y][t] = x
          BY <1>4, <4>1
        <5> QED
          BY <1>2, <1>4, <1>7, <4>1, <5>1
      <4>2. CASE ~(y = p /\ t = s)
        <5>1. R.n[y][t] = T.n[y][t]
          BY <1>4, <2>2, <4>2
        <5> QED
          BY <1>7, <1>8, <2>2, <5>1
      <4> QED
        BY <4>1, <4>2
    <3> QED
      BY <1>7, <2>2, <3>1, <3>2, <3>3
  <2> QED
    BY <2>1, <2>2
<1>10. Coloured(R.n, U, {x})
  <2> SUFFICES ASSUME NEW y \in U, NEW t \in Sides, R.n[y].color = RED, R.n[R.n[y][t]].color = RED
               PROVE  R.n[y][t] = x
    BY DEF Coloured
  <2>1. RED # BLACK /\ R.n[Forge].color = BLACK
    BY <1>3, <1>4 DEF ForgeFine, RED, BLACK
  <2>2. CASE y = x
    BY <1>4, <2>1, <2>2, Zenon
  <2>3. CASE y \in S /\ ~(y = p /\ t = s)
    <3>1. R.n[y][t] = T.n[y][t] /\ T.n[y][t] \in S \cup {Forge}
      BY <1>4, <1>8, <2>3
    <3>2. T.n[y].color = RED /\ T.n[T.n[y][t]].color = RED
      BY <1>4, <2>3, <3>1
    <3> QED
      BY <1>3, <2>3, <3>2, Zenon DEF Coloured
  <2>4. CASE y = p /\ t = s
    BY <1>4, <2>4
  <2> QED
    BY <2>2, <2>3, <2>4
<1>11. ForgeFine(R.n)
  <2>1. p # Forge
    BY <1>2, <1>4
  <2>2. \A t \in Sides : R.n[Forge][t] = T.n[Forge][t]
    BY <1>4, <2>1
  <2> QED
    BY <1>3, <1>4, <2>2 DEF ForgeFine, Sides
<1>12. Good(R, U, C, NULL, "lc", {x})
  BY <1>6, <1>9, <1>10, <1>11 DEF Good
<1>13. R.n[R.first].color # RED
  BY <1>1, <1>2, <1>4 DEF RED, BLACK
<1> QED
  BY <1>4, <1>7, <1>12, <1>13 DEF ILoop
\* del leaves the tree: it has no child on one side, and x is it or the node whose
\* successor it is.
Leaving(N, S, D, x, del, u, pu, f) ==
  /\ del \in S /\ x \in S /\ u \in Sides
  /\ pu = N[del][u] /\ N[del][Other(u)] = Forge /\ f = N[del].father
  /\ x # del => /\ del \in D[N[x].rc]
                /\ \A y \in D[N[x].rc] : y # del => N[del].key < N[y].key
\* R is N without it, x having taken its key and value, and pu its place.
Left(N, R, S, x, del, pu, f) ==
  /\ R \in Memory
  /\ \A y \in S \ {del} :
       /\ R[y].key = (IF y = x THEN N[del].key ELSE N[y].key)
       /\ R[y].father = (IF y = pu THEN f ELSE N[y].father)
  /\ \A y \in (S \cup {Forge}) \ {del} :
       /\ R[y].color = N[y].color
       /\ \A t \in Sides : R[y][t] = IF N[y][t] = del THEN pu ELSE N[y][t]

NewFirst(r, f, pu, q) == q = (IF f = NULL THEN pu ELSE r) /\ (f # NULL \/ pu # Forge)

(* The tree without a node. *)
LEMMA UnlinkTree ==
  ASSUME NEW N \in Memory, NEW r, NEW S, NEW D, IsTree(N, r, S, D), NEW R, NEW x, NEW del,
         NEW u, NEW pu, NEW f, Leaving(N, S, D, x, del, u, pu, f),
         Left(N, R, S, x, del, pu, f), NEW q, NewFirst(r, f, pu, q)
  PROVE  \E E : IsTree(R, q, S \ {del}, E)
<1> DEFINE U == S \ {del}
           E == [z \in U \cup {Forge} |-> D[z] \ {del}]
<1> q = (IF f = NULL THEN pu ELSE r) /\ (f # NULL \/ pu # Forge)
  BY Zenon DEF NewFirst
<1>1. /\ Sorted(N, S, D) /\ Linked(N, r, S) /\ D[r] = S /\ S \subseteq Nodes
      /\ D \in [S \cup {Forge} -> SUBSET S] /\ D[Forge] = {} /\ r \in S /\ N[r].father = NULL
      /\ \A z \in S : N[z].key \in Key
  BY DEF IsTree, Sorted, Linked
<1>2. /\ del \in S /\ x \in S /\ u \in Sides
      /\ pu = N[del][u] /\ N[del][Other(u)] = Forge /\ f = N[del].father
  BY DEF Leaving
<1>3. /\ R \in Memory
      /\ \A y \in U : R[y].key = IF y = x THEN N[del].key ELSE N[y].key
      /\ \A y \in U : R[y].father = IF y = pu THEN f ELSE N[y].father
      /\ \A y \in U : \A t \in Sides : R[y][t] = IF N[y][t] = del THEN pu ELSE N[y][t]
  BY DEF Left
<1>4. Forge \notin S /\ NULL \notin S /\ NULL # Forge
  BY <1>1, RBAssumption
<1>5. E \in [U \cup {Forge} -> SUBSET U] /\ E[Forge] = {} /\ \A z \in U \cup {Forge} : E[z] = D[z] \ {del}
  BY <1>1, <1>4
<1> HIDE DEF E
<1>6. \A z \in S : \A t \in Sides :
        /\ z \in D[z] /\ N[z][t] \in S \cup {Forge} /\ z \notin D[N[z][t]] /\ N[z][t] # z
        /\ D[N[z][t]] \subseteq D[z]
        /\ D[z] = {z} \cup D[N[z][t]] \cup D[N[z][Other(t)]]
        /\ \A y \in D[N[z][t]] : y \in S /\ Before(t, N[y].key, N[z].key)
  <2> SUFFICES ASSUME NEW z \in S, NEW t \in Sides
               PROVE  /\ z \in D[z] /\ N[z][t] \in S \cup {Forge} /\ z \notin D[N[z][t]] /\ N[z][t] # z
                      /\ D[N[z][t]] \subseteq D[z]
                      /\ D[z] = {z} \cup D[N[z][t]] \cup D[N[z][Other(t)]]
                      /\ \A y \in D[N[z][t]] : y \in S /\ Before(t, N[y].key, N[z].key)
    OBVIOUS
  <2> QED
    BY <1>1, SidesOf
<1>7. pu \in U \cup {Forge} /\ D[del] = {del} \cup D[pu] /\ del \notin D[pu] /\ E[pu] = D[pu]
  <2>1. /\ pu \in S \cup {Forge} /\ pu # del /\ del \notin D[pu]
        /\ D[del] = {del} \cup D[pu] \cup D[Forge]
    BY <1>2, <1>6
  <2> QED
    <3>1. pu \in U \cup {Forge} /\ D[del] = {del} \cup D[pu]
      BY <1>1, <2>1
    <3>2. E[pu] = D[pu] \ {del}
      BY <1>5, <3>1, Zenon
    <3> QED
      BY <2>1, <3>1, <3>2
<1>8. \A z \in U : \A t \in Sides : R[z][t] \in U \cup {Forge} /\ E[R[z][t]] = D[N[z][t]] \ {del}
  <2> SUFFICES ASSUME NEW z \in U, NEW t \in Sides
               PROVE  R[z][t] \in U \cup {Forge} /\ E[R[z][t]] = D[N[z][t]] \ {del}
    OBVIOUS
  <2>1. N[z][t] \in S \cup {Forge} /\ R[z][t] = IF N[z][t] = del THEN pu ELSE N[z][t]
    BY <1>3, <1>6
  <2>2. CASE N[z][t] = del
    BY <1>7, <2>1, <2>2
  <2>3. CASE N[z][t] # del
    BY <1>5, <2>1, <2>3, Zenon
  <2> QED
    BY <2>2, <2>3
<1>9. \A z \in U : R[z].key \in Key /\ E[z] = {z} \cup E[R[z].lc] \cup E[R[z].rc]
  <2> SUFFICES ASSUME NEW z \in U
               PROVE  R[z].key \in Key /\ E[z] = {z} \cup E[R[z].lc] \cup E[R[z].rc]
    OBVIOUS
  <2>1. D[z] = {z} \cup D[N[z].lc] \cup D[N[z].rc] /\ z # del
    BY <1>1 DEF Sorted
  <2>2. E[R[z].lc] = D[N[z].lc] \ {del} /\ E[R[z].rc] = D[N[z].rc] \ {del}
    BY <1>8 DEF Sides
  <2>3. E[z] = D[z] \ {del}
    BY <1>5
  <2>4. R[z].key \in Key
    BY <1>1, <1>2, <1>3
  <2> QED
    BY <2>1, <2>2, <2>3, <2>4, Zenon
<1>10. ASSUME NEW z \in U, NEW t \in Sides, NEW y \in E[R[z][t]]
       PROVE  Before(t, R[y].key, R[z].key)
  <2>1. /\ y \in D[N[z][t]] /\ y \in U /\ y # z /\ Before(t, N[y].key, N[z].key)
        /\ N[z].key \in Int /\ N[y].key \in Int /\ N[del].key \in Int /\ N[x].key \in Int
    <3>1. E[R[z][t]] = D[N[z][t]] \ {del}
      BY <1>8
    <3>2. y \in D[N[z][t]] /\ y # del
      BY <1>10, <3>1
    <3>3. y \in S /\ y # z /\ Before(t, N[y].key, N[z].key)
      BY <1>6, <3>2
    <3>4. \A w \in S : N[w].key \in Int
      BY <1>1, RBAssumption
    <3> QED
      BY <1>2, <3>2, <3>3, <3>4
  <2>2. CASE z # x /\ y # x
    BY <1>3, <2>1, <2>2
  <2>3. CASE z = x
    <3>1. /\ x # del /\ del \in D[N[x].rc]
          /\ \A w \in D[N[x].rc] : w # del => N[del].key < N[w].key
      BY <2>3 DEF Leaving
    <3>2. R[z].key = N[del].key /\ R[y].key = N[y].key
      BY <1>3, <2>1, <2>3
    <3>3. CASE t = "rc"
      <4>1. N[del].key < N[y].key
        BY <2>1, <2>3, <3>1, <3>3
      <4> QED
        BY <3>2, <3>3, <4>1 DEF Before
    <3>4. CASE t = "lc"
      <4>1. Before("rc", N[del].key, N[x].key)
        BY <1>2, <1>6, <3>1 DEF Sides
      <4>2. N[x].key < N[del].key /\ N[y].key < N[x].key
        BY <2>1, <2>3, <3>4, <4>1 DEF Before
      <4> QED
        BY <2>1, <3>2, <3>4, <4>2 DEF Before
    <3> QED
      BY <3>3, <3>4 DEF Sides
  <2>4. CASE y = x
    <3>1. x # del /\ del \in D[N[x].rc]
      BY <2>1, <2>4 DEF Leaving
    <3>2. R[z].key = N[z].key /\ R[y].key = N[del].key
      BY <1>3, <2>1, <2>4, Zenon
    <3>3. del \in D[x]
      BY <1>2, <1>6, <3>1 DEF Sides
    <3>4. N[z][t] \in S
      BY <1>1, <1>6, <2>1
    <3>5. D[x] \subseteq D[N[z][t]]
      BY <1>1, <2>1, <2>4, <3>4, BelowBelow
    <3>6. Before(t, N[del].key, N[z].key)
      BY <1>6, <3>3, <3>5
    <3> QED
      BY <3>2, <3>6
  <2> QED
    BY <2>2, <2>3, <2>4
<1>11. ASSUME NEW z \in U, NEW t \in Sides, R[z][t] \in U PROVE R[R[z][t]].father = z
  <2>1. N[z][t] \in S \cup {Forge} /\ R[z][t] = IF N[z][t] = del THEN pu ELSE N[z][t]
    BY <1>3, <1>6
  <2>2. CASE N[z][t] = del
    <3>1. f = z
      BY <1>2, <2>2, LinksOf
    <3> QED
      BY <1>3, <1>11, <2>1, <2>2, <3>1, Zenon
  <2>3. CASE N[z][t] # del
    <3>1. R[z][t] = N[z][t] /\ N[z][t] \in S
      BY <1>11, <2>1, <2>3, Zenon
    <3>2. N[N[z][t]].father = z
      BY <3>1, LinksOf
    <3>3. N[z][t] # pu
      BY <1>2, <3>1, OneFather
    <3> QED
      BY <1>3, <1>11, <3>1, <3>2, <3>3
  <2> QED
    BY <2>2, <2>3
<1>12. CASE f = NULL
  <2>1. r = del /\ q = pu /\ pu \in U
    <3>1. r = del
      <4>1. N[del].father = NULL /\ del \in S
        BY <1>2, <1>12
      <4> HIDE <1>1, <1>2, <1>3, <1>5, <1>6, <1>7, <1>8, <1>9
      <4> QED
        BY <4>1, LinksOf
    <3>2. pu \in U
      BY <1>7, <1>12
    <3> QED
      BY <1>12, <3>1, <3>2
  <2>2. R[q].father = NULL /\ E[q] = U
    BY <1>1, <1>3, <1>7, <1>12, <2>1
  <2>3. ASSUME NEW z \in U, z # q PROVE R[z].father \in U /\ \E t \in Sides : R[R[z].father][t] = z
    <3>1. N[z].father \in S /\ \E t \in Sides : N[N[z].father][t] = z
      BY <2>1, LinksOf
    <3>2. PICK t \in Sides : N[N[z].father][t] = z
      BY <3>1
    <3>3. N[z].father # del
      BY <1>2, <1>4, <2>1, <2>3, <3>2 DEF Sides, Other
    <3>4. R[z].father = N[z].father
      BY <1>3, <2>1, <2>3
    <3>5. R[N[z].father][t] = z
      BY <1>3, <3>1, <3>2, <3>3, Zenon
    <3> QED
      BY <3>1, <3>3, <3>4, <3>5, Zenon
  <2> QED
    <3>1. BySides(R, q, U, E)
      BY <1>1, <1>5, <1>8, <1>9, <1>10, <1>11, <2>1, <2>2, <2>3 DEF BySides
    <3> QED
      BY <1>3, <3>1, TreeBySides, Zenon
<1>13. CASE f # NULL
  <2>1. q = r /\ r # del /\ r \in U
    BY <1>1, <1>2, <1>13, Zenon
  <2>2. f \in S /\ \E t \in Sides : N[f][t] = del
    BY <1>2, <2>1, LinksOf
  <2>3. f # del
    BY <1>6, <2>2
  <2>4. pu \in S => N[pu].father = del
    BY <1>2, LinksOf
  <2>5. R[q].father = NULL /\ E[q] = U
    BY <1>1, <1>2, <1>3, <1>4, <1>5, <2>1, <2>4
  <2>6. ASSUME NEW z \in U, z # q PROVE R[z].father \in U /\ \E t \in Sides : R[R[z].father][t] = z
    <3>1. CASE z = pu
      <4>1. PICK t \in Sides : N[f][t] = del
        BY <2>2
      <4>2. R[f][t] = z
        BY <1>3, <2>2, <2>3, <3>1, <4>1
      <4> QED
        BY <1>3, <2>2, <2>3, <3>1, <4>2, Zenon
    <3>2. CASE z # pu
      <4>1. N[z].father \in S /\ \E t \in Sides : N[N[z].father][t] = z
        BY <2>1, <2>6, LinksOf
      <4>2. PICK t \in Sides : N[N[z].father][t] = z
        BY <4>1
      <4>3. N[z].father # del
        BY <1>2, <1>4, <3>2, <4>2 DEF Sides, Other
      <4>4. R[z].father = N[z].father
        BY <1>3, <3>2, Zenon
      <4>5. R[N[z].father][t] = z
        BY <1>3, <4>1, <4>2, <4>3
      <4> QED
        BY <4>1, <4>3, <4>4, <4>5
    <3> QED
      BY <3>1, <3>2
  <2> QED
    <3>1. BySides(R, q, U, E)
      BY <1>1, <1>5, <1>8, <1>9, <1>10, <1>11, <2>1, <2>5, <2>6 DEF BySides
    <3> QED
      BY <1>3, <3>1, TreeBySides
<1> QED
  BY <1>12, <1>13
\* T becomes R when del leaves it.
Unlinks(T, R, S, D, x, del, u, pu, f) ==
  /\ R \in Trees /\ R.ok = T.ok
  /\ NewFirst(T.first, f, pu, R.first)
  /\ IsTree(T.n, T.first, S, D) /\ Leaving(T.n, S, D, x, del, u, pu, f)
  /\ Left(T.n, R.n, S, x, del, pu, f)

(* What is then wrong with the tree is that pu is short of a black node, if del was
   black. *)
LEMMA UnlinkGood ==
  ASSUME NEW T, NEW S, NEW B, Whole(T, S, B), NEW R, NEW D, NEW x, NEW del, NEW u, NEW pu, NEW f,
         Unlinks(T, R, S, D, x, del, u, pu, f)
  PROVE  /\ T.n[del].color = RED => \E C : Whole(R, S \ {del}, C)
         /\ T.n[del].color = BLACK => \E C, v : DLoop(R, S \ {del}, C, pu, f, v)
<1> DEFINE U == S \ {del}
           C == [y \in U \cup {Forge} |-> B[y]]
<1>1. Good(T, S, B, NULL, "lc", {}) /\ T.n[T.first].color = BLACK
  BY DEF Whole
<1>2. /\ T.first \in S /\ T.n \in Memory /\ Forge \notin S /\ NULL \notin S
      /\ B \in [S \cup {Forge} -> Nat] /\ B[Forge] = 0
      /\ \A y \in S \cup {Forge} : T.n[y].color \in {RED, BLACK}
  BY <1>1, FirstIn
<1>3. /\ R \in Trees /\ R.first = (IF f = NULL THEN pu ELSE T.first) /\ (f # NULL \/ pu # Forge)
      /\ \E E : IsTree(R.n, R.first, U, E)
  <2>1. /\ R \in Trees /\ NewFirst(T.first, f, pu, R.first)
        /\ IsTree(T.n, T.first, S, D) /\ Leaving(T.n, S, D, x, del, u, pu, f)
        /\ Left(T.n, R.n, S, x, del, pu, f)
    BY DEF Unlinks
  <2>2. R.first = (IF f = NULL THEN pu ELSE T.first) /\ (f # NULL \/ pu # Forge)
    BY <2>1 DEF NewFirst
  <2>3. \E E : IsTree(R.n, R.first, U, E)
    <3>1. T.n \in Memory
      BY <1>2
    <3> HIDE <1>1, <1>2
    <3> QED
      BY <2>1, <3>1, UnlinkTree
  <2> QED
    BY <2>1, <2>2, <2>3
<1>4. /\ del \in S /\ u \in Sides /\ pu = T.n[del][u] /\ f = T.n[del].father
  BY DEF Unlinks, Leaving
<1>5. /\ \A y \in U \cup {Forge} : R.n[y].color = T.n[y].color
      /\ \A y \in U \cup {Forge} : \A t \in Sides : R.n[y][t] = IF T.n[y][t] = del THEN pu ELSE T.n[y][t]
  <2>1. (S \cup {Forge}) \ {del} = U \cup {Forge}
    BY <1>2, <1>4, Zenon
  <2> QED
    BY <2>1 DEF Unlinks, Left
<1>6. PICK v \in Sides : /\ f = NULL => del = T.first
                         /\ f # NULL => f \in S /\ f # del /\ T.n[f][v] = del
                         /\ \A z \in S : \A t \in Sides : T.n[z][t] = del <=> z = f /\ t = v
  <2>1. PICK h, v : /\ Hangs(T, S, del, h, v)
                    /\ \A z \in S : \A t \in Sides : T.n[z][t] = del <=> z = h /\ t = v
    BY <1>1, <1>4, HangsIs
  <2> QED
    BY <1>4, <2>1 DEF Hangs
<1>7. /\ C \in [U \cup {Forge} -> Nat] /\ C[Forge] = 0
      /\ \A y \in U \cup {Forge} : C[y] = B[y]
  BY <1>2
<1> HIDE DEF C
<1>8. \A y \in S : \A t \in Sides : T.n[y][t] \in S \cup {Forge} /\ T.n[y][t] # y
  BY <1>1, KidsOf
<1>9. pu \in U \cup {Forge}
  BY <1>4, <1>8
<1>10. Level(T.n, S, B) /\ Coloured(T.n, S, {}) /\ ForgeFine(T.n)
  <2>1. Heights(T.n, S, B, NULL, "lc") /\ Coloured(T.n, S, {}) /\ ForgeFine(T.n)
    BY <1>1 DEF Good
  <2> QED
    BY <1>2, <1>8, <2>1, LevelIs
<1>11. B[del] = B[pu] + (IF T.n[del].color = BLACK THEN 1 ELSE 0)
  BY <1>4, <1>10 DEF Level
<1>12. \A y \in U : \A t \in Sides : R.n[y][t] \in U \cup {Forge}
  <2> SUFFICES ASSUME NEW y \in U, NEW t \in Sides PROVE R.n[y][t] \in U \cup {Forge}
    OBVIOUS
  <2>1. R.n[y][t] = IF T.n[y][t] = del THEN pu ELSE T.n[y][t]
    BY <1>5
  <2> QED
    BY <1>8, <1>9, <2>1
<1>13. ForgeFine(R.n)
  <2>1. del # Forge /\ T.n[Forge].lc = Forge /\ T.n[Forge].rc = Forge /\ T.n[Forge].color = BLACK
    BY <1>2, <1>4, <1>10 DEF ForgeFine
  <2>2. R.n[Forge].lc = Forge /\ R.n[Forge].rc = Forge
    BY <1>5, <2>1 DEF Sides
  <2> QED
    BY <1>5, <2>1, <2>2 DEF ForgeFine
<1>14. ASSUME NEW y \in U, NEW t \in Sides
       PROVE  C[y] = C[R.n[y][t]] + (IF y = f /\ t = v /\ T.n[del].color = BLACK THEN 1 ELSE 0)
                                  + (IF R.n[y].color = BLACK THEN 1 ELSE 0)
  <2>1. /\ C[y] = B[y] /\ R.n[y].color = T.n[y].color /\ C[R.n[y][t]] = B[R.n[y][t]]
        /\ R.n[y][t] = IF T.n[y][t] = del THEN pu ELSE T.n[y][t]
        /\ T.n[y][t] \in S \cup {Forge}
    BY <1>5, <1>7, <1>8, <1>12
  <2>2. B[y] = B[T.n[y][t]] + (IF T.n[y].color = BLACK THEN 1 ELSE 0)
    BY <1>10 DEF Level
  <2>3. B[pu] \in Nat /\ B[T.n[y][t]] \in Nat
    BY <1>2, <1>9, <2>1
  <2>4. T.n[y][t] = del <=> y = f /\ t = v
    BY <1>6
  <2>5. CASE T.n[y][t] = del
    BY <1>11, <2>1, <2>2, <2>3, <2>4, <2>5
  <2>6. CASE T.n[y][t] # del
    BY <2>1, <2>2, <2>3, <2>4, <2>6
  <2> QED
    BY <2>5, <2>6
<1>15. ASSUME NEW y \in U, NEW t \in Sides, R.n[y].color = RED, R.n[R.n[y][t]].color = RED
       PROVE  R.n[y][t] = pu /\ T.n[del].color # RED
  <2>1. /\ R.n[y].color = T.n[y].color /\ T.n[R.n[y][t]].color = RED
        /\ R.n[y][t] = IF T.n[y][t] = del THEN pu ELSE T.n[y][t]
    BY <1>5, <1>12, <1>15, Zenon
  <2>2. T.n[T.n[y][t]].color # RED
    BY <1>10, <1>15, <2>1 DEF Coloured
  <2> QED
    BY <2>1, <2>2
<1>16. f # NULL => f \in U /\ R.n[f][v] = pu /\ R.first = T.first /\ T.first \in U
  <2> SUFFICES ASSUME f # NULL PROVE f \in U /\ R.n[f][v] = pu /\ T.first \in U
    BY <1>3
  <2>1. T.n[T.first].father = NULL
    BY <1>1, FirstIn
  <2> QED
    BY <1>2, <1>4, <1>5, <1>6, <2>1
<1>17. ASSUME T.n[del].color = RED PROVE Whole(R, U, C)
  <2>1. T.n[del].color # BLACK
    BY <1>17 DEF RED, BLACK
  <2>2. f # NULL
    BY <1>1, <1>6, <2>1
  <2>3. Level(R.n, U, C)
    <3> SUFFICES ASSUME NEW y \in U, NEW t \in Sides
                 PROVE  C[y] = C[R.n[y][t]] + (IF R.n[y].color = BLACK THEN 1 ELSE 0)
      BY <1>7 DEF Level
    <3>1. C[R.n[y][t]] \in Nat
      BY <1>7, <1>12
    <3> QED
      BY <1>14, <2>1, <3>1
  <2>4. Heights(R.n, U, C, NULL, "lc")
    BY <1>2, <1>12, <2>3, LevelIs
  <2>5. Coloured(R.n, U, {})
    BY <1>15, <1>17 DEF Coloured
  <2>6. R.n[R.first].color = BLACK
    BY <1>1, <1>5, <1>16, <2>2
  <2> QED
    BY <1>3, <1>13, <2>4, <2>5, <2>6 DEF Whole, Good
<1>18. ASSUME T.n[del].color = BLACK PROVE DLoop(R, U, C, pu, f, v)
  <2>1. Heights(R.n, U, C, f, v)
    <3> SUFFICES ASSUME NEW y \in U, NEW t \in Sides
                 PROVE  C[y] = C[R.n[y][t]] + (IF y = f /\ t = v THEN 1 ELSE 0)
                                            + (IF R.n[y].color = BLACK THEN 1 ELSE 0)
      BY <1>7 DEF Heights
    <3> QED
      BY <1>14, <1>18
  <2>2. Coloured(R.n, U, {pu, R.n[pu].lc, R.n[pu].rc})
    BY <1>15 DEF Coloured
  <2>3. Good(R, U, C, f, v, {pu, R.n[pu].lc, R.n[pu].rc})
    BY <1>3, <1>13, <2>1, <2>2 DEF Good
  <2>4. R.n[R.first].color = RED => pu = R.first
    <3>1. CASE f = NULL
      BY <1>3, <3>1
    <3>2. CASE f # NULL
      BY <1>1, <1>5, <1>16, <3>2 DEF RED, BLACK
    <3> QED
      BY <3>1, <3>2
  <2> QED
    BY <1>3, <1>9, <1>16, <2>3, <2>4 DEF DLoop
<1> QED
  BY <1>17, <1>18

-----------------------------------------------------------------------------
(* tl_rbtree_iter_next and tl_rbtree_iter_prev: the neighbours of a key. *)

\* All that is in K has greater keys, or all has less keys, than z.
AllBeyond(N, s, z, K) == \A y \in K : Before(s, N[z].key, N[y].key)

(* A node that is not below x is on the same side of all that is. *)
LEMMA Apart ==
  ASSUME NEW N \in Memory, NEW r, NEW S, NEW D, IsTree(N, r, S, D), NEW x \in S,
         NEW z \in S, z \notin D[x]
  PROVE  \E s \in Sides : AllBeyond(N, s, z, D[x])
<1>1. Sorted(N, S, D) /\ Linked(N, r, S) /\ D[r] = S /\ S \subseteq Nodes /\ r \in S
  BY DEF IsTree, Sorted, Linked
<1>2. \A y \in S : N[y].key \in Int
  BY <1>1, SidesOf DEF Sides
<1> DEFINE P == {y \in S : z \notin D[y] => \E s \in Sides : AllBeyond(N, s, z, D[y])}
<1>3. r \in P
  BY <1>1
<1>4. ASSUME NEW y \in S, y # r, N[y].father \in P PROVE y \in P
  <2> DEFINE f == N[y].father
  <2>1. f \in S /\ (z \notin D[f] => \E s \in Sides : AllBeyond(N, s, z, D[f]))
    BY <1>4
  <2>2. PICK t \in Sides : N[f][t] = y
    BY <1>4, LinksOf
  <2> HIDE DEF f
  <2>3. /\ D[y] \subseteq D[f] /\ D[f] = {f} \cup D[y] \cup D[N[f][Other(t)]] /\ D[y] \in SUBSET S
        /\ \A w \in D[y] : Before(t, N[w].key, N[f].key)
        /\ Other(t) \in Sides
    BY <1>1, <2>1, <2>2, SidesOf
  <2>4. \A w \in D[N[f][Other(t)]] : Before(Other(t), N[w].key, N[f].key)
    BY <1>1, <2>1, <2>3, SidesOf
  <2>5. ASSUME z \notin D[f], z \notin D[y] PROVE \E s \in Sides : AllBeyond(N, s, z, D[y])
    BY <2>1, <2>3, <2>5 DEF AllBeyond
  <2>6. ASSUME z \in D[f], z \notin D[y] PROVE AllBeyond(N, Other(t), z, D[y])
    <3> SUFFICES ASSUME NEW w \in D[y] PROVE Before(Other(t), N[z].key, N[w].key)
      BY DEF AllBeyond
    <3>1. Before(t, N[w].key, N[f].key)
      BY <2>3
    <3>2. z = f \/ Before(Other(t), N[z].key, N[f].key)
      BY <2>3, <2>4, <2>6
    <3>3. N[z].key \in Int /\ N[w].key \in Int /\ N[f].key \in Int
      BY <1>2, <2>1, <2>3
    <3> QED
      BY <3>1, <3>2, <3>3 DEF Before, Other, Sides
  <2> QED
    BY <2>3, <2>5, <2>6
<1> HIDE DEF P
<1>5. S \subseteq P
  BY <1>1, <1>3, <1>4, FromFirst
<1> QED
  BY <1>5 DEF P

\* What the recursive function in ClimbsFrom(x, s) is.
Climbs(g, s) ==
  g = [y \in heap |-> IF node[y].father = NULL THEN NULL
                      ELSE IF y # node[node[y].father][s] THEN node[y].father
                      ELSE g[node[y].father]]

\* The nodes that x is on side s of.
Over(D, x, s) == {a \in heap : x \in D[node[a][s]]}
Lowest(D, A) == IF A = {} THEN NULL ELSE CHOOSE a \in A : \A b \in A : a \in D[b]

(* There is such a function. *)
LEMMA ClimbsExist ==
  ASSUME node \in Memory, NEW r, NEW D, IsTree(node, r, heap, D), NEW s \in Sides
  PROVE  \E g : Climbs(g, s)
<1> DEFINE o == Other(s)
           g == [y \in heap |-> Lowest(D, Over(D, y, o))]
<1>1. Sorted(node, heap, D) /\ Linked(node, r, heap) /\ D[r] = heap
  BY DEF IsTree
<1>2. \A y \in heap : \A t \in Sides :
        /\ y \in D[y] /\ y \notin D[node[y][t]] /\ D[node[y][t]] \subseteq D[y] /\ y # NULL
        /\ D[node[y][t]] \cap D[node[y][Other(t)]] = {}
        /\ node[y][t] \in heap \cup {Forge} /\ (node[y][t] = Forge => D[node[y][t]] = {})
  <2> SUFFICES ASSUME NEW y \in heap, NEW t \in Sides
               PROVE  /\ y \in D[y] /\ y \notin D[node[y][t]] /\ D[node[y][t]] \subseteq D[y]
                      /\ y # NULL
                      /\ D[node[y][t]] \cap D[node[y][Other(t)]] = {}
                      /\ node[y][t] \in heap \cup {Forge}
                      /\ (node[y][t] = Forge => D[node[y][t]] = {})
    OBVIOUS
  <2>1. D[Forge] = {}
    BY <1>1 DEF Sorted
  <2> QED
    BY <1>1, <2>1, SidesOf
<1>3. o \in Sides /\ Other(o) = s
  BY DEF Sides, Other
<1> HIDE DEF o
<1>4. \A y \in heap : \A b \in Over(D, y, o) : b \in heap /\ y \in D[b] /\ y # b
  BY <1>2, <1>3 DEF Over
<1>5. ASSUME NEW y \in heap
      PROVE  g[y] = IF node[y].father = NULL THEN NULL
                    ELSE IF y # node[node[y].father][s] THEN node[y].father
                    ELSE g[node[y].father]
  <2>1. \A b \in Over(D, y, o) : node[y].father \in D[b]
    BY <1>1, <1>4, FatherBelow
  <2>2. g[y] = Lowest(D, Over(D, y, o))
    OBVIOUS
  <2> HIDE DEF g
  <2>3. CASE y = r
    <3>1. node[y].father = NULL
      BY <2>3, LinksOf
    <3>2. \A b \in heap : NULL \notin D[b]
      BY <1>1, RBAssumption DEF Sorted
    <3>3. Over(D, y, o) = {}
      BY <1>4, <2>1, <3>1, <3>2
    <3> QED
      BY <2>2, <3>1, <3>3 DEF Lowest
  <2>4. CASE y # r
    <3> DEFINE f == node[y].father
    <3>1. f \in heap /\ f # NULL /\ \E t \in Sides : node[f][t] = y
      BY <1>2, <2>4, LinksOf
    <3> HIDE DEF f
    <3>2. CASE y # node[f][s]
      <4>1. node[f][o] = y
        BY <1>3, <3>1, <3>2 DEF Sides, Other
      <4>2. f \in Over(D, y, o)
        BY <1>2, <3>1, <4>1 DEF Over
      <4>3. \A a \in Over(D, y, o) : (\A b \in Over(D, y, o) : a \in D[b]) <=> a = f
        <5>1. \A b \in Over(D, y, o) : f \in D[b]
          BY <2>1 DEF f
        <5>2. ASSUME NEW a \in Over(D, y, o), a \in D[f] PROVE a = f
          <6>1. a \in heap /\ y \in D[node[a][o]]
            BY <5>2 DEF Over
          <6>2. ASSUME a # f PROVE FALSE
            <7>1. node[a][o] # y
              BY <1>3, <3>1, <4>1, <6>1, <6>2, OneFather
            <7>2. node[a][o] \in heap
              BY <1>2, <1>3, <6>1
            <7>3. f \in D[node[a][o]]
              BY <1>1, <6>1, <7>1, <7>2, FatherBelow DEF f
            <7>4. D[f] \subseteq D[node[a][o]]
              BY <1>1, <7>2, <7>3, BelowBelow
            <7>5. a \in D[node[a][o]]
              BY <5>2, <7>4
            <7> QED
              BY <1>2, <1>3, <6>1, <7>5
          <6> QED
            BY <6>2
        <5> QED
          BY <4>2, <5>1, <5>2
      <4>4. Lowest(D, Over(D, y, o)) = f
        <5>1. Over(D, y, o) # {}
          BY <4>2
        <5>2. Lowest(D, Over(D, y, o)) =
                CHOOSE a \in Over(D, y, o) : \A b \in Over(D, y, o) : a \in D[b]
          BY <5>1 DEF Lowest
        <5>3. (CHOOSE a \in Over(D, y, o) : \A b \in Over(D, y, o) : a \in D[b]) = f
          BY <4>2, <4>3, Zenon
        <5> QED
          BY <5>2, <5>3
      <4> QED
        BY <2>2, <3>1, <3>2, <4>4 DEF f
    <3>3. CASE y = node[f][s]
      <4>1. ASSUME NEW a \in heap, y \in D[node[a][o]] PROVE f \in D[node[a][o]]
        <5>1. a # f
          BY <1>2, <1>3, <3>1, <3>3, <4>1
        <5>2. node[a][o] # y
          BY <1>3, <3>1, <3>3, <5>1, OneFather
        <5>3. node[a][o] \in heap
          BY <1>2, <1>3, <4>1
        <5> QED
          BY <1>1, <4>1, <5>2, <5>3, FatherBelow DEF f
      <4>2. ASSUME NEW a \in heap, f \in D[node[a][o]] PROVE y \in D[node[a][o]]
        <5>1. node[a][o] \in heap
          BY <1>2, <1>3, <4>2
        <5>2. D[f] \subseteq D[node[a][o]]
          BY <1>1, <4>2, <5>1, BelowBelow
        <5>3. y \in D[f]
          BY <1>2, <3>1, <3>3
        <5> QED
          BY <5>2, <5>3
      <4>3. Over(D, y, o) = Over(D, f, o)
        BY <4>1, <4>2 DEF Over
      <4>4. g[f] = Lowest(D, Over(D, f, o))
        BY <3>1 DEF g
      <4> QED
        BY <2>2, <3>1, <3>3, <4>3, <4>4 DEF f
    <3> QED
      BY <3>2, <3>3
  <2> QED
    BY <2>3, <2>4
<1>6. Climbs(g, s)
  <2>1. g = [y \in heap |-> g[y]]
    OBVIOUS
  <2> HIDE DEF g
  <2> QED
    BY <1>5, <2>1 DEF Climbs
<1> QED
  BY <1>6
\* r is the next node after all of K on side s, or there is none.
NextOf(N, S, K, s, r) ==
  IF r = NULL THEN \A z \in S \ K : \A w \in K : Before(Other(s), N[z].key, N[w].key)
  ELSE /\ r \in S \ K
       /\ \A w \in K : Before(s, N[r].key, N[w].key)
       /\ \A z \in S \ K : \/ z = r
                           \/ Before(s, N[z].key, N[r].key)
                           \/ \A w \in K : Before(Other(s), N[z].key, N[w].key)

(* The climb from a node finds the next node after all that is below it. *)
LEMMA ClimbIs ==
  ASSUME node \in Memory, NEW r, NEW D, IsTree(node, r, heap, D), NEW s \in Sides, NEW x \in heap
  PROVE  NextOf(node, heap, D[x], s, ClimbsFrom(x, s))
<1> DEFINE g == CHOOSE h : Climbs(h, s)
<1>1. Climbs(g, s)
  BY ClimbsExist, Zenon
<1>2. ClimbsFrom(x, s) = g[x]
  BY DEF ClimbsFrom, Climbs
<1> HIDE DEF g
<1>3. \A y \in heap : g[y] = IF node[y].father = NULL THEN NULL
                             ELSE IF y # node[node[y].father][s] THEN node[y].father
                             ELSE g[node[y].father]
  BY <1>1 DEF Climbs
<1>4. Sorted(node, heap, D) /\ Linked(node, r, heap) /\ D[r] = heap /\ r \in heap
      /\ NULL \notin heap
  BY RBAssumption DEF IsTree, Sorted, Linked
<1>5. \A y \in heap : node[y].key \in Int
  BY <1>4, SidesOf DEF Sides
<1>6. Other(s) \in Sides /\ Other(Other(s)) = s /\ Other(s) # s /\ \A t \in Sides : t = s \/ t = Other(s)
  BY DEF Sides, Other
<1>7. ASSUME NEW i \in Int, NEW j \in Int, NEW k \in Int
      PROVE  /\ Before(s, i, j) <=> Before(Other(s), j, i)
             /\ Before(s, i, j) /\ Before(s, j, k) => Before(s, i, k)
             /\ Before(Other(s), i, j) /\ Before(Other(s), j, k) => Before(Other(s), i, k)
  BY DEF Before, Sides, Other
<1> DEFINE P == {y \in heap : NextOf(node, heap, D[y], s, g[y])}
<1>8. r \in P
  <2>1. g[r] = NULL
    BY <1>3, <1>4, LinksOf
  <2> QED
    BY <1>4, <2>1 DEF NextOf
<1>9. ASSUME NEW y \in heap, y # r, node[y].father \in P PROVE y \in P
  <2> DEFINE f == node[y].father
  <2>1. f \in heap /\ f # NULL /\ NextOf(node, heap, D[f], s, g[f])
    BY <1>4, <1>9
  <2>2. PICK t \in Sides : node[f][t] = y
    BY <1>9, LinksOf
  <2>3. g[y] = IF y # node[f][s] THEN f ELSE g[f]
    BY <1>3, <2>1
  <2> HIDE DEF f
  <2>4. /\ D[y] \subseteq D[f] /\ D[f] = {f} \cup D[y] \cup D[node[f][Other(t)]] /\ D[f] \subseteq heap
        /\ \A w \in D[y] : Before(t, node[w].key, node[f].key)
        /\ Other(t) \in Sides /\ f \in D[f] /\ f \notin D[y]
    BY <1>4, <2>1, <2>2, SidesOf, BelowBelow
  <2>5. \A w \in D[node[f][Other(t)]] : Before(Other(t), node[w].key, node[f].key)
    BY <1>4, <2>1, <2>4, SidesOf
  <2>6. CASE y # node[f][s]
    <3>1. t = Other(s) /\ g[y] = f
      BY <1>6, <2>2, <2>3, <2>6
    <3>2. \A w \in D[y] : Before(s, node[f].key, node[w].key)
      BY <1>5, <1>7, <2>1, <2>4, <3>1
    <3>3. ASSUME NEW z \in heap \ D[y]
          PROVE  \/ z = f \/ Before(s, node[z].key, node[f].key)
                 \/ \A w \in D[y] : Before(Other(s), node[z].key, node[w].key)
      <4>1. CASE z \in D[f]
        BY <1>6, <2>4, <2>5, <3>1, <4>1
      <4>2. CASE z \notin D[f]
        <5>1. PICK u \in Sides : AllBeyond(node, u, z, D[f])
          BY <2>1, <4>2, Apart
        <5>2. \A w \in D[f] : Before(u, node[z].key, node[w].key)
          BY <5>1 DEF AllBeyond
        <5> QED
          BY <1>6, <2>4, <5>2
      <4> QED
        BY <4>1, <4>2
    <3>4. f \in heap \ D[y]
      BY <2>1, <2>4
    <3> QED
      BY <2>1, <3>1, <3>2, <3>3, <3>4 DEF NextOf
  <2>7. CASE y = node[f][s]
    <3>1. t = s /\ g[y] = g[f]
      <4>1. t = s
        BY <2>1, <2>2, <2>7, <1>9, OneFather
      <4> QED
        BY <2>3, <2>7, <4>1
    <3>2. ASSUME NEW z \in heap \ D[y], z \in D[f], NEW w \in D[y]
          PROVE  Before(Other(s), node[z].key, node[w].key)
      <4>1. Before(Other(s), node[f].key, node[w].key)
        BY <1>5, <1>7, <2>1, <2>4, <3>1
      <4>2. z = f \/ Before(Other(s), node[z].key, node[f].key)
        BY <2>4, <2>5, <3>1, <3>2
      <4>3. node[z].key \in Int /\ node[f].key \in Int /\ node[w].key \in Int
        BY <1>5, <2>1, <2>4
      <4> QED
        BY <1>7, <4>1, <4>2, <4>3
    <3>3. CASE g[f] = NULL
      <4>1. \A z \in heap \ D[f] : \A w \in D[f] : Before(Other(s), node[z].key, node[w].key)
        BY <2>1, <3>3 DEF NextOf
      <4>2. \A z \in heap \ D[y] : \A w \in D[y] : Before(Other(s), node[z].key, node[w].key)
        BY <2>4, <3>2, <4>1
      <4> QED
        BY <3>1, <3>3, <4>2 DEF NextOf
    <3>4. CASE g[f] # NULL
      <4> DEFINE q == g[f]
      <4>1. /\ q \in heap \ D[f]
            /\ \A w \in D[f] : Before(s, node[q].key, node[w].key)
            /\ \A z \in heap \ D[f] : \/ z = q
                                      \/ Before(s, node[z].key, node[q].key)
                                      \/ \A w \in D[f] : Before(Other(s), node[z].key, node[w].key)
        BY <2>1, <3>4 DEF NextOf
      <4> HIDE DEF q
      <4>2. q \in heap \ D[y] /\ \A w \in D[y] : Before(s, node[q].key, node[w].key)
        BY <2>4, <4>1
      <4>3. ASSUME NEW z \in heap \ D[y]
            PROVE  \/ z = q \/ Before(s, node[z].key, node[q].key)
                   \/ \A w \in D[y] : Before(Other(s), node[z].key, node[w].key)
        <5>1. CASE z \in D[f]
          BY <3>2, <5>1
        <5>2. CASE z \notin D[f]
          BY <2>4, <4>1, <5>2
        <5> QED
          BY <5>1, <5>2
      <4> QED
        BY <3>1, <3>4, <4>2, <4>3 DEF NextOf, q
    <3> QED
      BY <3>3, <3>4
  <2> QED
    BY <2>6, <2>7
<1> HIDE DEF P
<1>10. heap \subseteq P
  BY <1>4, <1>8, <1>9, FromFirst
<1> QED
  BY <1>2, <1>10 DEF P

(* tl_rbtree_next (side "rc") and tl_rbtree_prev ("lc") find the next node. *)
LEMMA AlongIs ==
  ASSUME node \in Memory, NEW r, NEW D, IsTree(node, r, heap, D), NEW s \in Sides, NEW x \in heap
  PROVE  NextOf(node, heap, {x}, s, Along(x, s))
<1>1. Sorted(node, heap, D) /\ Linked(node, r, heap) /\ D[r] = heap /\ r \in heap
      /\ NULL \notin heap
  BY RBAssumption DEF IsTree, Sorted, Linked
<1>2. \A y \in heap : node[y].key \in Int
  BY <1>1, SidesOf DEF Sides
<1>3. Other(s) \in Sides /\ Other(Other(s)) = s
  BY DEF Sides, Other
<1>4. ASSUME NEW i \in Int, NEW j \in Int, NEW k \in Int
      PROVE  /\ Before(s, i, j) <=> Before(Other(s), j, i)
             /\ Before(s, i, j) /\ Before(s, j, k) => Before(s, i, k)
             /\ Before(Other(s), i, j) /\ Before(Other(s), j, k) => Before(Other(s), i, k)
  BY DEF Before, Sides, Other
<1>5. /\ x \in D[x] /\ D[x] = {x} \cup D[node[x][s]] \cup D[node[x][Other(s)]]
      /\ D[x] \subseteq heap /\ x \notin D[node[x][s]] /\ node[x][s] \in heap \cup {Forge}
      /\ \A w \in D[node[x][s]] : Before(s, node[w].key, node[x].key)
  BY <1>1, SidesOf, BelowBelow
<1>6. \A w \in D[node[x][Other(s)]] : Before(Other(s), node[w].key, node[x].key)
  BY <1>1, <1>3, SidesOf
<1>7. CASE node[x][s] = Forge
  <2> DEFINE q == ClimbsFrom(x, s)
  <2>1. Along(x, s) = q /\ NextOf(node, heap, D[x], s, q)
    BY <1>7, ClimbIs DEF Along, isforge
  <2> HIDE DEF q
  <2>2. D[node[x][s]] = {}
    BY <1>1, <1>7 DEF Sorted
  <2>3. \A z \in D[x] : z # x => Before(Other(s), node[z].key, node[x].key)
    BY <1>5, <1>6, <2>2
  <2>4. CASE q = NULL
    <3>1. \A z \in heap \ D[x] : Before(Other(s), node[z].key, node[x].key)
      BY <1>5, <2>1, <2>4 DEF NextOf
    <3> QED
      BY <2>1, <2>3, <2>4, <3>1 DEF NextOf
  <2>5. CASE q # NULL
    <3>1. /\ q \in heap \ D[x] /\ Before(s, node[q].key, node[x].key)
          /\ \A z \in heap \ D[x] : \/ z = q \/ Before(s, node[z].key, node[q].key)
                                    \/ Before(Other(s), node[z].key, node[x].key)
      BY <1>5, <2>1, <2>5 DEF NextOf
    <3> QED
      BY <1>5, <2>1, <2>3, <2>5, <3>1 DEF NextOf
  <2> QED
    BY <2>4, <2>5
<1>8. CASE node[x][s] # Forge
  <2> DEFINE c == node[x][s]
             q == Edge(node, node[x][s], Other(s))
  <2>1. Along(x, s) = q /\ c \in heap
    BY <1>5, <1>8 DEF Along, isforge
  <2>2. q \in D[c] /\ \A y \in D[c] : y # q => Before(Other(s), node[q].key, node[y].key)
    BY <1>1, <1>3, <2>1, EdgeIs
  <2> HIDE DEF q, c
  <2>3. q \in heap /\ q # x /\ q # NULL /\ Before(s, node[q].key, node[x].key)
    BY <1>1, <1>5, <2>2 DEF c
  <2>4. ASSUME NEW z \in heap \ {x}
        PROVE  \/ z = q \/ Before(s, node[z].key, node[q].key)
               \/ Before(Other(s), node[z].key, node[x].key)
    <3>1. CASE z \in D[c]
      <4>1. node[z].key \in Int /\ node[q].key \in Int
        BY <1>2, <2>3, <2>4
      <4> QED
        BY <1>4, <2>2, <3>1, <4>1
    <3>2. CASE z \in D[node[x][Other(s)]]
      BY <1>6, <3>2
    <3>3. CASE z \notin D[x]
      <4>1. PICK u \in Sides : AllBeyond(node, u, z, D[x])
        BY <3>3, Apart
      <4>2. Before(u, node[z].key, node[x].key) /\ Before(u, node[z].key, node[q].key)
        BY <1>5, <2>2, <4>1 DEF AllBeyond, c
      <4>3. u = s \/ u = Other(s)
        BY DEF Sides, Other
      <4> QED
        BY <4>2, <4>3
    <3> QED
      BY <1>5, <2>4, <3>1, <3>2, <3>3 DEF c
  <2> QED
    BY <2>1, <2>3, <2>4 DEF NextOf
<1> QED
  BY <1>7, <1>8

-----------------------------------------------------------------------------
(* tl_rbtree_erase: what takes the place of a node. *)

\* x has taken the key k and the value v.
Rekeyed(N, R, x, k, v) ==
  /\ R \in Memory
  /\ \A y \in Nodes \cup {Forge} :
       /\ R[y].key = (IF y = x THEN k ELSE N[y].key) /\ R[y].val = (IF y = x THEN v ELSE N[y].val)
       /\ R[y].father = N[y].father /\ R[y].color = N[y].color
       /\ R[y].lc = N[y].lc /\ R[y].rc = N[y].rc

Rekeys(T, R, x, k, v) == R = [T EXCEPT !.n[x].key = k, !.n[x].val = v]

(* A node takes another's key and value. *)
LEMMA RekeyIs ==
  ASSUME NEW T \in Trees, NEW x \in Nodes, NEW k \in Key, NEW v \in Val \cup {NULL},
         NEW R, Rekeys(T, R, x, k, v)
  PROVE  R \in Trees /\ R.first = T.first /\ R.ok = T.ok /\ Rekeyed(T.n, R.n, x, k, v)
<1>1. T.n \in Memory /\ T.n[x] \in NodeRec
  BY DEF Trees, Memory, NodeRec
<1> DEFINE q == [T.n[x] EXCEPT !.key = k, !.val = v]
           Mem == [T.n EXCEPT ![x] = q]
<1>2. R = [T EXCEPT !.n = Mem]
  BY <1>1 DEF Rekeys, Trees, Memory, NodeRec
<1>3. /\ q \in NodeRec /\ q.key = k /\ q.val = v /\ q.father = T.n[x].father
      /\ q.color = T.n[x].color /\ q.lc = T.n[x].lc /\ q.rc = T.n[x].rc
  BY <1>1 DEF NodeRec
<1> HIDE DEF q
<1>4. Mem \in Memory /\ Mem[x] = q /\ \A y \in Nodes \cup {Forge} : y # x => Mem[y] = T.n[y]
  BY <1>1, <1>3, PutIs
<1> HIDE DEF Mem
<1>5. R \in Trees /\ R.first = T.first /\ R.ok = T.ok /\ R.n = Mem
  BY <1>2, <1>4 DEF Trees
<1>6. Rekeyed(T.n, Mem, x, k, v)
  BY <1>3, <1>4 DEF Rekeyed
<1> QED
  BY <1>5, <1>6

\* y hangs at f on side v, where x did.
Hung(N, R, f, v, y) ==
  /\ R \in Memory
  /\ \A z \in Nodes \cup {Forge} :
       /\ R[z].key = N[z].key /\ R[z].val = N[z].val
       /\ R[z].father = N[z].father /\ R[z].color = N[z].color
       /\ \A t \in Sides : R[z][t] = IF z = f /\ t = v THEN y ELSE N[z][t]

OnlyChildOf(T, f, v, x) == T.n[f][v] = x /\ T.n[f][Other(v)] # x

(* Replacing a child writes one link. *)
LEMMA ReplaceIs ==
  ASSUME NEW T \in Trees, NEW f \in Nodes, NEW v \in Sides, NEW x, OnlyChildOf(T, f, v, x),
         NEW y \in Nodes \cup {Forge}
  PROVE  /\ Replace(T, f, x, y) \in Trees /\ Replace(T, f, x, y).ok = T.ok
         /\ Replace(T, f, x, y).first = T.first
         /\ Hung(T.n, Replace(T, f, x, y).n, f, v, y)
<1>1. T.n \in Memory /\ T.n[f] \in NodeRec /\ f # NULL
  BY RBAssumption DEF Trees, Memory, NodeRec
<1> DEFINE q == [T.n[f] EXCEPT ![v] = y]
           Mem == [T.n EXCEPT ![f] = q]
           R == Replace(T, f, x, y)
<1>2. R = [T EXCEPT !.n = Mem]
  <2>1. CASE v = "lc"
    <3>1. T.n[f].lc = x
      BY <2>1 DEF OnlyChildOf
    <3> QED
      BY <1>1, <2>1, <3>1 DEF Replace, Trees, Memory, NodeRec
  <2>2. CASE v = "rc"
    <3>1. T.n[f].lc # x
      BY <2>2 DEF Other, OnlyChildOf
    <3> QED
      BY <1>1, <2>2, <3>1 DEF Replace, Trees, Memory, NodeRec
  <2> QED
    BY <2>1, <2>2 DEF Sides
<1>3. /\ q \in NodeRec /\ q.key = T.n[f].key /\ q.val = T.n[f].val /\ q.father = T.n[f].father
      /\ q.color = T.n[f].color /\ q[v] = y /\ q[Other(v)] = T.n[f][Other(v)]
  BY <1>1, LinkIs
<1> HIDE DEF q, R
<1>4. Mem \in Memory /\ Mem[f] = q /\ \A z \in Nodes \cup {Forge} : z # f => Mem[z] = T.n[z]
  BY <1>1, <1>3, PutIs
<1> HIDE DEF Mem
<1>5. R \in Trees /\ R.first = T.first /\ R.ok = T.ok /\ R.n = Mem
  BY <1>2, <1>4 DEF Trees
<1>6. \A t \in Sides : t = v \/ t = Other(v)
  BY DEF Sides, Other
<1>7. Hung(T.n, Mem, f, v, y)
  BY <1>3, <1>4, <1>6 DEF Hung
<1> QED
  BY <1>5, <1>7 DEF R

\* p has the father f.
Adopted(N, R, p, f) ==
  /\ R \in Memory
  /\ \A z \in Nodes \cup {Forge} :
       /\ R[z].key = N[z].key /\ R[z].val = N[z].val
       /\ R[z].father = (IF z = p THEN f ELSE N[z].father) /\ R[z].color = N[z].color
       /\ \A t \in Sides : R[z][t] = N[z][t]

Adopts(T, R, p, f) == R = [T EXCEPT !.n[p].father = f]

(* A node gets another father. *)
LEMMA AdoptIs ==
  ASSUME NEW T \in Trees, NEW p \in Nodes, NEW f \in Nodes \cup {NULL},
         NEW R, Adopts(T, R, p, f)
  PROVE  R \in Trees /\ R.first = T.first /\ R.ok = T.ok /\ Adopted(T.n, R.n, p, f)
<1>1. T.n \in Memory /\ T.n[p] \in NodeRec
  BY DEF Trees, Memory, NodeRec
<1> DEFINE q == [T.n[p] EXCEPT !.father = f]
           Mem == [T.n EXCEPT ![p] = q]
<1>2. R = [T EXCEPT !.n = Mem]
  BY <1>1 DEF Adopts, Trees, Memory, NodeRec
<1>3. /\ q \in NodeRec /\ q.key = T.n[p].key /\ q.val = T.n[p].val /\ q.father = f
      /\ q.color = T.n[p].color /\ \A t \in Sides : q[t] = T.n[p][t]
  BY <1>1, FatherIs
<1> HIDE DEF q
<1>4. Mem \in Memory /\ Mem[p] = q /\ \A z \in Nodes \cup {Forge} : z # p => Mem[z] = T.n[z]
  BY <1>1, <1>3, PutIs
<1> HIDE DEF Mem
<1>5. R \in Trees /\ R.first = T.first /\ R.ok = T.ok /\ R.n = Mem
  BY <1>2, <1>4 DEF Trees
<1>6. Adopted(T.n, Mem, p, f)
  BY <1>3, <1>4 DEF Adopted
<1> QED
  BY <1>5, <1>6

\* What Unlink(K, del, pu) is when del is in the tree K of the nodes S, with the
\* father f.
UnlinkReady(K, S, del, pu, f) ==
  /\ K \in Trees /\ S \subseteq Nodes /\ del \in S /\ f = K.n[del].father
  /\ pu \in Nodes \cup {Forge}
  /\ \E v \in Sides : /\ f = NULL => K.first = del
                      /\ f # NULL => f \in S /\ K.n[f][v] = del
                      /\ \A z \in S, t \in Sides : K.n[z][t] = del <=> z = f /\ t = v
  /\ K.n[Forge].lc = Forge /\ K.n[Forge].rc = Forge
UnlinkedAt(K, R, del, pu, f, y) ==
  /\ R.n[y].key = K.n[y].key /\ R.n[y].val = K.n[y].val /\ R.n[y].color = K.n[y].color
  /\ y # Forge => R.n[y].father = (IF y = pu THEN f ELSE K.n[y].father)
  /\ \A t \in Sides : R.n[y][t] = IF K.n[y][t] = del THEN pu ELSE K.n[y][t]
Unlinked(K, R, S, del, pu, f) ==
  /\ R \in Trees /\ R.ok = K.ok
  /\ R.first = (IF f = NULL THEN InPlace(f, pu) ELSE K.first)
  /\ \A y \in S \cup {Forge} : UnlinkedAt(K, R, del, pu, f, y)

(* Unlink does that. *)
LEMMA UnlinkIs ==
  ASSUME NEW K, NEW S, NEW del, NEW pu, NEW f, UnlinkReady(K, S, del, pu, f)
  PROVE  Unlinked(K, Unlink(K, del, pu), S, del, pu, f)
<1>1. /\ K \in Trees /\ S \subseteq Nodes /\ del \in S /\ f = K.n[del].father
      /\ pu \in Nodes \cup {Forge} /\ K.n[Forge].lc = Forge /\ K.n[Forge].rc = Forge
  BY DEF UnlinkReady
<1>2. PICK v \in Sides : /\ f = NULL => K.first = del
                         /\ f # NULL => f \in S /\ K.n[f][v] = del
                         /\ \A z \in S, t \in Sides : K.n[z][t] = del <=> z = f /\ t = v
  BY DEF UnlinkReady
<1>3. /\ Forge \notin Nodes /\ NULL \notin Nodes /\ NULL # Forge /\ f \in Nodes \cup {NULL}
      /\ Other(v) \in Sides /\ Other(v) # v /\ \A t \in Sides : K.n[Forge][t] = Forge
  BY <1>1, <1>2, RBAssumption DEF Sides, Other
<1>4. HangsRight(K, del)
  <2>1. f = NULL => K.first = del
    BY <1>2
  <2>2. f # NULL => del \in {K.n[f].lc, K.n[f].rc}
    BY <1>2 DEF Sides
  <2>3. f = K.n[del].father
    BY <1>1
  <2> QED
    BY <2>1, <2>2, <2>3 DEF HangsRight
<1>5. Assert(K, HangsRight(K, del)) = K
  BY <1>1, <1>4, AssertIs
<1> DEFINE T1 == Replace(K, f, del, InPlace(f, pu))
           R == Unlink(K, del, pu)
<1>6. R = IF pu = Forge THEN T1 ELSE [T1 EXCEPT !.n[pu].father = f]
  BY <1>1, <1>5 DEF Unlink, isforge
<1> HIDE DEF R
<1>7. /\ T1 \in Trees /\ T1.ok = K.ok
      /\ T1.first = (IF f = NULL THEN InPlace(f, pu) ELSE K.first)
      /\ \A y \in S \cup {Forge} :
           /\ T1.n[y].key = K.n[y].key /\ T1.n[y].val = K.n[y].val /\ T1.n[y].color = K.n[y].color
           /\ T1.n[y].father = K.n[y].father
           /\ \A t \in Sides : T1.n[y][t] = IF K.n[y][t] = del THEN pu ELSE K.n[y][t]
  <2>1. CASE f = NULL
    <3>1. T1 = [K EXCEPT !.first = InPlace(f, pu)]
      BY <2>1 DEF Replace
    <3> HIDE DEF T1
    <3>2. InPlace(f, pu) \in Nodes \cup {NULL}
      BY <1>1, <2>1 DEF InPlace, isforge
    <3>3. T1 \in Trees /\ T1.ok = K.ok /\ T1.first = InPlace(f, pu) /\ T1.n = K.n
      BY <1>1, <3>1, <3>2 DEF Trees
    <3>4. \A y \in S \cup {Forge} : \A t \in Sides : K.n[y][t] # del
      <4> SUFFICES ASSUME NEW y \in S \cup {Forge}, NEW t \in Sides PROVE K.n[y][t] # del
        OBVIOUS
      <4>1. CASE y = Forge
        <5>1. K.n[y][t] = Forge /\ del # Forge
          BY <1>1, <1>3, <4>1
        <5> QED
          BY <5>1
      <4>2. CASE y \in S
        <5>1. y # f
          BY <1>1, <1>3, <2>1, <4>2
        <5> QED
          BY <1>2, <4>2, <5>1
      <4> QED
        BY <4>1, <4>2
    <3> QED
      BY <2>1, <3>3, <3>4
  <2>2. CASE f # NULL
    <3>1. InPlace(f, pu) = pu /\ f \in S /\ f \in Nodes
      BY <1>1, <1>2, <2>2 DEF InPlace
    <3>2. OnlyChildOf(K, f, v, del)
      BY <1>2, <1>3, <2>2, <3>1 DEF OnlyChildOf
    <3>3. T1 \in Trees /\ T1.ok = K.ok /\ T1.first = K.first /\ Hung(K.n, T1.n, f, v, pu)
      <4> HIDE <1>2
      <4> QED
        BY <1>1, <3>1, <3>2, ReplaceIs
    <3> HIDE DEF T1
    <3>4. \A y \in S \cup {Forge} : \A t \in Sides : K.n[y][t] = del <=> y = f /\ t = v
      BY <1>1, <1>2, <1>3, <3>1
    <3>5. ASSUME NEW y \in S \cup {Forge}
          PROVE  /\ T1.n[y].key = K.n[y].key /\ T1.n[y].val = K.n[y].val
                 /\ T1.n[y].color = K.n[y].color /\ T1.n[y].father = K.n[y].father
                 /\ \A t \in Sides : T1.n[y][t] = IF y = f /\ t = v THEN pu ELSE K.n[y][t]
      BY <1>1, <3>3 DEF Hung
    <3> QED
      BY <2>2, <3>3, <3>4, <3>5
  <2> QED
    BY <2>1, <2>2
<1> HIDE DEF T1
<1>8. ASSUME pu = Forge PROVE Unlinked(K, R, S, del, pu, f)
  <2>1. R = T1
    BY <1>6, <1>8
  <2>2. ASSUME NEW y \in S \cup {Forge} PROVE UnlinkedAt(K, R, del, pu, f, y)
    <3>1. /\ T1.n[y].key = K.n[y].key /\ T1.n[y].val = K.n[y].val
          /\ T1.n[y].color = K.n[y].color /\ T1.n[y].father = K.n[y].father
          /\ \A t \in Sides : T1.n[y][t] = IF K.n[y][t] = del THEN pu ELSE K.n[y][t]
      BY <1>7
    <3>2. y = pu => y = Forge
      BY <1>8
    <3> QED
      BY <2>1, <3>1, <3>2 DEF UnlinkedAt
  <2>3. T1 \in Trees /\ T1.ok = K.ok /\ T1.first = (IF f = NULL THEN InPlace(f, pu) ELSE K.first)
    BY <1>7
  <2> QED
    BY <2>1, <2>2, <2>3 DEF Unlinked
<1>9. ASSUME pu # Forge PROVE Unlinked(K, R, S, del, pu, f)
  <2>1. pu \in Nodes /\ R = [T1 EXCEPT !.n[pu].father = f]
    BY <1>1, <1>6, <1>9
  <2>2. R \in Trees /\ R.first = T1.first /\ R.ok = T1.ok /\ Adopted(T1.n, R.n, pu, f)
    <3>1. T1 \in Trees /\ f \in Nodes \cup {NULL}
      BY <1>3, <1>7
    <3>2. Adopts(T1, R, pu, f)
      BY <2>1 DEF Adopts
    <3>3. pu \in Nodes
      BY <2>1
    <3> HIDE <1>6, <1>9, <2>1
    <3> QED
      BY <3>1, <3>2, <3>3, AdoptIs
  <2>3. ASSUME NEW y \in S \cup {Forge}
        PROVE  /\ R.n[y].key = T1.n[y].key /\ R.n[y].val = T1.n[y].val
               /\ R.n[y].color = T1.n[y].color
               /\ R.n[y].father = (IF y = pu THEN f ELSE T1.n[y].father)
               /\ \A t \in Sides : R.n[y][t] = T1.n[y][t]
    BY <1>1, <2>2 DEF Adopted
  <2>4. ASSUME NEW y \in S \cup {Forge} PROVE UnlinkedAt(K, R, del, pu, f, y)
    <3>1. /\ T1.n[y].key = K.n[y].key /\ T1.n[y].val = K.n[y].val
          /\ T1.n[y].color = K.n[y].color /\ T1.n[y].father = K.n[y].father
          /\ \A t \in Sides : T1.n[y][t] = IF K.n[y][t] = del THEN pu ELSE K.n[y][t]
      BY <1>7
    <3> QED
      BY <2>3, <3>1 DEF UnlinkedAt
  <2>5. T1 \in Trees /\ T1.ok = K.ok /\ T1.first = (IF f = NULL THEN InPlace(f, pu) ELSE K.first)
    BY <1>7
  <2> QED
    BY <2>2, <2>4, <2>5 DEF Unlinked
<1> QED
  BY <1>8, <1>9 DEF R
-----------------------------------------------------------------------------
\* The node that an erase of k takes out, and the tree without it.
DelOf(k) == IF HasTwo(Locate(k)) THEN Succeed(Locate(k)) ELSE Locate(k)
Rekey(k) == [Tree EXCEPT !.n[Locate(k)].key = node[DelOf(k)].key,
                         !.n[Locate(k)].val = node[DelOf(k)].val]
Gone(k) == Unlink(Rekey(k), DelOf(k), OnlyChild(DelOf(k)))

(* The tree that the variables hold. *)
LEMMA TreeIs ==
  ASSUME TypeOK
  PROVE  /\ Tree \in Trees /\ Tree.n = node /\ Tree.first = first /\ Tree.ok = TRUE
         /\ node \in Memory /\ \A y \in Nodes \cup {Forge} : node[y] \in NodeRec
BY DEF TypeOK, Tree, Trees, Memory, NodeRec

(* The node that is taken out is the one with the key or its successor. *)
LEMMA DelIs ==
  ASSUME node \in Memory, NEW D, IsTree(node, first, heap, D), first # NULL, NEW k \in Key, Has(k)
  PROVE  /\ Locate(k) \in heap /\ node[Locate(k)].key = k
         /\ \E u : Leaving(node, heap, D, Locate(k), DelOf(k), u, OnlyChild(DelOf(k)),
                           node[DelOf(k)].father)
<1> DEFINE x == Locate(k)
           del == DelOf(k)
           pu == OnlyChild(del)
<1>1. Sorted(node, heap, D) /\ first \in heap /\ D[first] = heap
  BY DEF IsTree, Linked
<1>2. x \in heap /\ node[x].key = k
  <2>1. k \in Int
    BY RBAssumption
  <2>2. x \in heap
    BY <1>1, <2>1, Located
  <2> QED
    BY <2>2 DEF Has
<1>3. node[x].rc \in heap \cup {Forge} /\ node[x].lc \in heap \cup {Forge}
  BY <1>1, <1>2 DEF Sorted
<1>4. CASE HasTwo(x)
  <2>1. del = Edge(node, node[x].rc, "lc") /\ node[x].rc \in heap
    BY <1>3, <1>4 DEF DelOf, Succeed, HasTwo, isforge
  <2>2. /\ del \in D[node[x].rc] /\ node[del]["lc"] = Forge
        /\ \A y \in D[node[x].rc] : y # del => Before("lc", node[del].key, node[y].key)
    BY <1>1, <2>1, EdgeIs DEF Sides
  <2>3. \A y \in D[node[x].rc] : y # del => node[del].key < node[y].key
    BY <2>2 DEF Before
  <2>4. del \in heap
    BY <1>1, <2>1, <2>2, BelowBelow
  <2>5. pu = node[del]["rc"] /\ Other("rc") = "lc" /\ "rc" \in Sides
    BY <2>2 DEF OnlyChild, isforge, Other, Sides
  <2> HIDE DEF pu, del, x
  <2>6. Leaving(node, heap, D, x, del, "rc", pu, node[del].father)
    BY <1>2, <2>2, <2>3, <2>4, <2>5 DEF Leaving
  <2> QED
    BY <1>2, <2>6 DEF pu, del, x
<1>5. CASE ~HasTwo(x)
  <2>1. del = x /\ (node[x].lc = Forge \/ node[x].rc = Forge)
    BY <1>5 DEF DelOf, HasTwo, isforge
  <2>2. pu = IF node[x].lc = Forge THEN node[x].rc ELSE node[x].lc
    BY <2>1 DEF OnlyChild, isforge
  <2> HIDE DEF pu, del, x
  <2>3. CASE node[x].lc = Forge
    <3>1. pu = node[x]["rc"] /\ node[x][Other("rc")] = Forge /\ "rc" \in Sides
      BY <2>2, <2>3 DEF Other, Sides
    <3>2. Leaving(node, heap, D, x, del, "rc", pu, node[del].father)
      BY <1>2, <2>1, <3>1 DEF Leaving
    <3> QED
      BY <1>2, <3>2 DEF pu, del, x
  <2>4. CASE node[x].lc # Forge
    <3>1. pu = node[x]["lc"] /\ node[x][Other("lc")] = Forge /\ "lc" \in Sides
      BY <2>1, <2>2, <2>4 DEF Other, Sides
    <3>2. Leaving(node, heap, D, x, del, "lc", pu, node[del].father)
      BY <1>2, <2>1, <3>1 DEF Leaving
    <3> QED
      BY <1>2, <3>2 DEF pu, del, x
  <2> QED
    BY <2>3, <2>4
<1> QED
  BY <1>4, <1>5

(* The successor has the next key. *)
LEMMA NextIs ==
  ASSUME NEW N \in Memory, NEW r, NEW S, NEW D, IsTree(N, r, S, D), NEW x, NEW del,
         NEW u, NEW pu, NEW f, Leaving(N, S, D, x, del, u, pu, f), x # del
  PROVE  /\ N[del].key > N[x].key
         /\ \A z \in S : N[z].key > N[x].key => N[del].key <= N[z].key
<1>1. Sorted(N, S, D)
  BY DEF IsTree
<1>2. /\ x \in S /\ del \in S /\ del \in D[N[x].rc]
      /\ \A y \in D[N[x].rc] : y # del => N[del].key < N[y].key
  BY DEF Leaving
<1>3. \A y \in S : N[y].key \in Int
  BY <1>1, SidesOf DEF Sides
<1>4. /\ x \in D[x] /\ D[x] = {x} \cup D[N[x].lc] \cup D[N[x].rc]
      /\ \A y \in D[N[x].lc] : N[y].key < N[x].key
      /\ \A y \in D[N[x].rc] : N[y].key > N[x].key
  BY <1>1, <1>2 DEF Sorted
<1>5. ASSUME NEW z \in S, N[z].key > N[x].key PROVE N[del].key <= N[z].key
  <2>1. CASE z \in D[x]
    <3>1. z \in D[N[x].rc]
      BY <1>2, <1>3, <1>4, <1>5, <2>1
    <3> QED
      BY <1>2, <1>3, <3>1
  <2>2. CASE z \notin D[x]
    <3>1. PICK s \in Sides : AllBeyond(N, s, z, D[x])
      BY <1>2, <2>2, Apart
    <3>2. Before(s, N[z].key, N[x].key) /\ Before(s, N[z].key, N[del].key)
      BY <1>2, <1>4, <3>1 DEF AllBeyond
    <3> QED
      BY <1>2, <1>3, <1>5, <3>2 DEF Before, Sides
  <2> QED
    BY <2>1, <2>2
<1> QED
  BY <1>2, <1>4, <1>5

\* The tree T without del.
GoneTo(T, x, del, pu, f) ==
  /\ T \in Trees /\ T.ok = TRUE /\ ForgeFine(T.n) /\ x \in heap /\ del \in heap
  /\ \A y \in heap \ {del} : /\ T.n[y].key = (IF y = x THEN node[del].key ELSE node[y].key)
                             /\ T.n[y].val = (IF y = x THEN node[del].val ELSE node[y].val)
  /\ T.first = NULL => heap = {del}
  /\ node[del].color = RED => \E C : Whole(T, heap \ {del}, C)
  /\ node[del].color = BLACK /\ T.first # NULL =>
       \E C, v : DLoop(T, heap \ {del}, C, pu, f, v)

(* What an erase gives. *)
LEMMA GoneIs ==
  ASSUME TypeOK, NEW B, Whole(Tree, heap, B), first # NULL, NEW k \in Key, Has(k)
  PROVE  /\ node[Locate(k)].key = k
         /\ GoneTo(Gone(k), Locate(k), DelOf(k), OnlyChild(DelOf(k)), node[DelOf(k)].father)
         /\ DelOf(k) # Locate(k) =>
              /\ node[DelOf(k)].key > k
              /\ \A z \in heap : node[z].key > k => node[DelOf(k)].key <= node[z].key
<1> DEFINE x == Locate(k)
           del == DelOf(k)
           pu == OnlyChild(del)
           f == node[del].father
           K == Rekey(k)
           T == Gone(k)
<1>1. /\ Tree \in Trees /\ Tree.n = node /\ Tree.first = first /\ Tree.ok = TRUE
      /\ node \in Memory /\ \A y \in Nodes \cup {Forge} : node[y] \in NodeRec
  BY TreeIs
<1>2. Good(Tree, heap, B, NULL, "lc", {}) /\ node[first].color = BLACK
  BY <1>1 DEF Whole
<1>3. PICK D : IsTree(node, first, heap, D)
  BY <1>1, <1>2 DEF Good
<1>4. ForgeFine(node) /\ heap \subseteq Nodes /\ Forge \notin heap /\ NULL \notin heap
  BY <1>1, <1>2, FirstIn DEF Good
<1>5. x \in heap /\ node[x].key = k
  BY <1>1, <1>3, DelIs
<1>6. PICK u : Leaving(node, heap, D, x, del, u, pu, f)
  BY <1>1, <1>3, DelIs
<1>7. /\ del \in heap /\ u \in Sides /\ pu = node[del][u] /\ node[del][Other(u)] = Forge
      /\ pu \in heap \cup {Forge} /\ pu # del
  <2>1. del \in heap /\ u \in Sides /\ pu = node[del][u] /\ node[del][Other(u)] = Forge
    BY <1>6 DEF Leaving
  <2>2. Sorted(node, heap, D)
    BY <1>3 DEF IsTree
  <2> QED
    BY <1>1, <2>1, <2>2, SidesOf
<1>8. K \in Trees /\ K.first = first /\ K.ok = TRUE
      /\ Rekeyed(node, K.n, x, node[del].key, node[del].val)
  <2>1. x \in Nodes /\ node[del].key \in Key /\ node[del].val \in Val \cup {NULL}
    <3>1. node[del].key \in Key
      BY <1>3, <1>7 DEF IsTree, Sorted
    <3> QED
      BY <1>1, <1>4, <1>5, <1>7, <3>1 DEF NodeRec
  <2>2. Rekeys(Tree, K, x, node[del].key, node[del].val)
    BY DEF Rekey, Rekeys
  <2> HIDE DEF x, del, K
  <2> QED
    <3>1. Tree \in Trees
      BY <1>1
    <3> HIDE <1>1, <1>2, <1>3, <1>4, <1>5, <1>6, <1>7
    <3>2. /\ K \in Trees /\ K.first = Tree.first /\ K.ok = Tree.ok
          /\ Rekeyed(Tree.n, K.n, x, node[del].key, node[del].val)
      BY <2>1, <2>2, <3>1, RekeyIs
    <3> QED
      BY <1>1, <3>2
<1>9. T = Unlink(K, del, pu)
  BY DEF Gone
<1>10. DelOf(k) # Locate(k) => /\ node[DelOf(k)].key > k
                               /\ \A z \in heap : node[z].key > k => node[DelOf(k)].key <= node[z].key
  BY <1>1, <1>3, <1>5, <1>6, NextIs
<1> HIDE DEF x, del, pu, f, K, T
<1>11. \A y \in heap \cup {Forge} :
         /\ K.n[y].key = (IF y = x THEN node[del].key ELSE node[y].key)
         /\ K.n[y].val = (IF y = x THEN node[del].val ELSE node[y].val)
         /\ K.n[y].father = node[y].father /\ K.n[y].color = node[y].color
         /\ K.n[y].lc = node[y].lc /\ K.n[y].rc = node[y].rc
         /\ \A t \in Sides : K.n[y][t] = node[y][t]
  BY <1>4, <1>8 DEF Rekeyed, Sides
<1>12. UnlinkReady(K, heap, del, pu, f)
  <2>1. PICK h, v : /\ Hangs(Tree, heap, del, h, v)
                    /\ \A z \in heap : \A t \in Sides : Tree.n[z][t] = del <=> z = h /\ t = v
    BY <1>2, <1>7, HangsIs
  <2>2. h = f /\ v \in Sides
    BY <1>1, <2>1 DEF Hangs, f
  <2>3. /\ f = NULL => first = del
        /\ f # NULL => f \in heap /\ node[f][v] = del
        /\ \A z \in heap : \A t \in Sides : node[z][t] = del <=> z = f /\ t = v
    BY <1>1, <2>1, <2>2 DEF Hangs
  <2>4. /\ f = NULL => K.first = del
        /\ f # NULL => f \in heap /\ K.n[f][v] = del
        /\ \A z \in heap : \A t \in Sides : K.n[z][t] = del <=> z = f /\ t = v
    BY <1>8, <1>11, <2>2, <2>3
  <2>5. K.n[del].father = f
    BY <1>7, <1>11 DEF f
  <2>6. K.n[Forge].lc = Forge /\ K.n[Forge].rc = Forge
    BY <1>4, <1>11 DEF ForgeFine
  <2> QED
    BY <1>4, <1>7, <1>8, <2>2, <2>4, <2>5, <2>6 DEF UnlinkReady
<1>13. /\ T \in Trees /\ T.ok = TRUE /\ T.first = (IF f = NULL THEN InPlace(f, pu) ELSE first)
       /\ \A y \in heap \cup {Forge} : UnlinkedAt(K, T, del, pu, f, y)
  <2>1. Unlinked(K, T, heap, del, pu, f)
    BY <1>9, <1>12, UnlinkIs
  <2> QED
    BY <1>8, <2>1 DEF Unlinked
<1>14. \A y \in heap \cup {Forge} :
         /\ T.n[y].key = (IF y = x THEN node[del].key ELSE node[y].key)
         /\ T.n[y].val = (IF y = x THEN node[del].val ELSE node[y].val)
         /\ T.n[y].color = node[y].color
         /\ y # Forge => T.n[y].father = (IF y = pu THEN f ELSE node[y].father)
         /\ \A t \in Sides : T.n[y][t] = IF node[y][t] = del THEN pu ELSE node[y][t]
  <2> SUFFICES ASSUME NEW y \in heap \cup {Forge}
               PROVE  /\ T.n[y].key = (IF y = x THEN node[del].key ELSE node[y].key)
                      /\ T.n[y].val = (IF y = x THEN node[del].val ELSE node[y].val)
                      /\ T.n[y].color = node[y].color
                      /\ y # Forge => T.n[y].father = (IF y = pu THEN f ELSE node[y].father)
                      /\ \A t \in Sides : T.n[y][t] = IF node[y][t] = del THEN pu ELSE node[y][t]
    OBVIOUS
  <2>1. UnlinkedAt(K, T, del, pu, f, y)
    BY <1>13
  <2> QED
    BY <1>11, <2>1 DEF UnlinkedAt
<1>15. Left(node, T.n, heap, x, del, pu, f)
  <2>1. T.n \in Memory
    BY <1>13 DEF Trees
  <2>2. \A y \in heap \ {del} : y # Forge
    BY <1>4
  <2> QED
    BY <1>14, <2>1, <2>2 DEF Left
<1>16. ForgeFine(T.n)
  <2>1. /\ T.n[Forge].color = node[Forge].color
        /\ \A t \in Sides : T.n[Forge][t] = IF node[Forge][t] = del THEN pu ELSE node[Forge][t]
    BY <1>14
  <2>2. node[Forge].lc # del /\ node[Forge].rc # del
    BY <1>4, <1>7 DEF ForgeFine
  <2> QED
    BY <1>4, <2>1, <2>2 DEF ForgeFine, Sides
<1>17. T.first = NULL => f = NULL /\ pu = Forge
  BY <1>1, <1>3, <1>4, <1>7, <1>13 DEF InPlace, isforge
<1>18. f = NULL /\ pu = Forge => heap = {del} /\ node[del].color = BLACK /\ T.first = NULL
  <2> SUFFICES ASSUME f = NULL, pu = Forge PROVE heap = {del} /\ node[del].color = BLACK
    BY <1>13 DEF InPlace, isforge
  <2>1. del = first
    BY <1>1, <1>3, <1>7, LinksOf DEF f
  <2>2. Sorted(node, heap, D) /\ D[first] = heap /\ D[Forge] = {}
    BY <1>3 DEF IsTree, Sorted
  <2>3. D[del] = {del} \cup D[node[del][u]] \cup D[node[del][Other(u)]]
    BY <1>1, <1>7, <2>2, SidesOf
  <2> QED
    BY <1>2, <1>7, <2>1, <2>2, <2>3
<1>19. ASSUME T.first # NULL
       PROVE  Unlinks(Tree, T, heap, D, x, del, u, pu, f)
  <2>1. f # NULL \/ pu # Forge
    BY <1>18, <1>19
  <2>2. f = NULL => InPlace(f, pu) = pu
    BY <2>1 DEF InPlace, isforge
  <2>3. NewFirst(first, f, pu, T.first)
    BY <1>13, <2>1, <2>2 DEF NewFirst
  <2> QED
    BY <1>1, <1>3, <1>6, <1>13, <1>15, <2>3 DEF Unlinks
<1>20. T.first # NULL =>
         /\ node[del].color = RED => \E C : Whole(T, heap \ {del}, C)
         /\ node[del].color = BLACK => \E C, v : DLoop(T, heap \ {del}, C, pu, f, v)
  BY <1>1, <1>19, UnlinkGood
<1>21. \A y \in heap \ {del} : /\ T.n[y].key = (IF y = x THEN node[del].key ELSE node[y].key)
                               /\ T.n[y].val = (IF y = x THEN node[del].val ELSE node[y].val)
  BY <1>14
<1>22. node[del].color = RED => T.first # NULL
  BY <1>17, <1>18 DEF RED, BLACK
<1>23. GoneTo(T, x, del, pu, f)
  BY <1>5, <1>7, <1>13, <1>16, <1>17, <1>18, <1>20, <1>21, <1>22 DEF GoneTo
<1> QED
  BY <1>5, <1>10, <1>23 DEF x, del, pu, f, T

-----------------------------------------------------------------------------
(* The inductive invariant. *)

\* The nodes of the tree: in an erase, not the one that is about to be freed.
Live == IF pc = "d_adjust" THEN heap \ {loc.del} ELSE heap

IsLoc(l) == {"cur", "father", "del", "steps"} \subseteq DOMAIN l

\* What the tree T of the nodes S is in each phase of a call.
ShapeOf(T, h, S, p, l) ==
  /\ T.first = NULL <=> S = {}
  /\ p = "none" => h = {}
  /\ p \in {"i_adjust", "d_adjust"} => IsLoc(l)
  /\ p = "idle" /\ S # {} => \E B : Whole(T, S, B)
  /\ p = "i_adjust" => \E B : ILoop(T, S, B, l.cur)
  /\ p = "d_adjust" => l.del \in h /\ \E B, s : DLoop(T, S, B, l.cur, l.father, s)
Shape == ShapeOf(Tree, heap, Live, pc, loc)

Sound == ~abort /\ cnt_key = Cardinality(heap) /\ ForgeFine(node)

EntryFits == /\ entry # NULL => entry \in Live /\ node[entry].key = ekey
             /\ entry = NULL => ekey = NULL

(* The invariant that the steps preserve. *)
IInv == TypeOK /\ Sound /\ Shape /\ EntryFits /\ map = TreeMap

(* The types, in terms of the memory. *)
LEMMA TypeIs ==
  TypeOK <=> /\ first \in Nodes \cup {NULL} /\ node \in Memory
             /\ heap \subseteq Nodes /\ cnt_key \in Nat
             /\ pc \in {"none", "idle", "i_adjust", "d_adjust"}
             /\ entry \in Nodes \cup {NULL} /\ ekey \in Key \cup {NULL}
             /\ abort \in BOOLEAN
BY DEF TypeOK, Memory, NodeRec

(* The variables take the tree T over. *)
LEMMA SetTreeIs ==
  ASSUME NEW T \in Trees, T.ok = TRUE, SetTree(T), ~abort, abort \in BOOLEAN
  PROVE  Tree' = T /\ first' = T.first /\ node' = T.n /\ ~abort' /\ abort' \in BOOLEAN
BY DEF SetTree, Tree, Trees

(* An entry stays where it is. *)
LEMMA EntryKept ==
  ASSUME EntryFits, entry' = entry, ekey' = ekey, Live \subseteq Live',
         \A y \in Live : node'[y].key = node[y].key
  PROVE  EntryFits'
BY DEF EntryFits

(* The nodes are counted. *)
LEMMA Counted ==
  ASSUME TypeOK, cnt_key = Cardinality(heap), NEW x \in Nodes
  PROVE  /\ x \notin heap => Cardinality(heap \cup {x}) = cnt_key + 1
         /\ x \in heap => Cardinality(heap \ {x}) = cnt_key - 1 /\ cnt_key - 1 \in Nat
<1>1. IsFiniteSet(heap) /\ cnt_key \in Nat
  BY RBAssumption, FS_Subset DEF TypeOK
<1>2. x \in heap => cnt_key # 0
  BY <1>1, FS_EmptySet
<1>3. x \notin heap => Cardinality(heap \cup {x}) = Cardinality(heap) + 1
  BY <1>1, FS_AddElement
<1>4. x \in heap => Cardinality(heap \ {x}) = Cardinality(heap) - 1
  BY <1>1, FS_RemoveElement
<1> QED
  BY <1>1, <1>2, <1>3, <1>4

(* Nothing is below NULL. *)
LEMMA BelowNull ==
  ASSUME NEW N \in Memory
  PROVE  Below(N, NULL) = {}
<1> DEFINE C == Cardinality(Nodes)
           f == CHOOSE h : Subs(h, N, C)
<1>1. C \in Nat
  BY FS_CardinalityType, RBAssumption
<1>2. Subs(f, N, C)
  <2> HIDE DEF C
  <2> QED
    BY <1>1, SubsExist, Zenon
<1>3. Below(N, NULL) = f[C][NULL]
  BY DEF Below, Subs, Deeper
<1> HIDE DEF f
<1>4. f[C] = Deeper(N, f[C - 1], C)
  <2> HIDE DEF C
  <2> QED
    BY <1>1, <1>2 DEF Subs
<1>5. Deeper(N, f[C - 1], C)[NULL] = {}
  BY RBAssumption DEF Deeper
<1> QED
  BY <1>3, <1>4, <1>5

(* The initial state. *)
LEMMA IInvInit ==
  Init => IInv
<1> SUFFICES ASSUME Init PROVE IInv
  OBVIOUS
<1>1. /\ first = NULL /\ cnt_key = 0 /\ heap = {} /\ pc = "none"
      /\ entry = NULL /\ ekey = NULL /\ abort = FALSE /\ map = [k \in {} |-> NULL]
      /\ node = [x \in Nodes \cup {Forge} |->
                   IF isforge(x) THEN [Free EXCEPT !.lc = Forge, !.rc = Forge] ELSE Free]
  BY DEF Init
<1>2. Free \in NodeRec /\ [Free EXCEPT !.lc = Forge, !.rc = Forge] \in NodeRec
  BY DEF Free, NodeRec, RED, BLACK
<1>3. node \in Memory /\ ForgeFine(node)
  BY <1>1, <1>2 DEF Memory, ForgeFine, isforge, Free
<1>4. TypeOK
  BY <1>1, <1>3, TypeIs
<1>5. Sound
  BY <1>1, <1>3, FS_EmptySet DEF Sound
<1>6. Live = {} /\ EntryFits
  BY <1>1 DEF Live, EntryFits
<1>7. Shape
  BY <1>1, <1>6 DEF Shape, ShapeOf, Tree
<1>8. TreeMap = [k \in {} |-> NULL]
  <2>1. Reached = {}
    BY <1>1, <1>3, BelowNull DEF Reached
  <2> QED
    BY <2>1 DEF TreeMap
<1> QED
  BY <1>1, <1>4, <1>5, <1>6, <1>7, <1>8 DEF IInv
\* A step that changes neither the tree nor the phase.
Calm == UNCHANGED <<first, node, cnt_key, heap, pc, loc, abort>>

(* Such a step preserves the invariant if the entry fits. *)
LEMMA CalmKeeps ==
  ASSUME IInv, Calm, Observe, entry' \in Nodes \cup {NULL}, ekey' \in Key \cup {NULL},
         entry' # NULL => entry' \in Live /\ node[entry'].key = ekey',
         entry' = NULL => ekey' = NULL
  PROVE  IInv'
<1>1. Tree' = Tree /\ Live' = Live
  BY DEF Calm, Tree, Live
<1>2. TypeOK'
  BY TypeIs DEF IInv, Calm, TypeOK
<1>3. Sound'
  BY DEF IInv, Calm, Sound
<1>4. Shape'
  BY <1>1 DEF IInv, Calm, Shape
<1>5. EntryFits'
  BY <1>1 DEF EntryFits, Calm
<1> QED
  BY <1>2, <1>3, <1>4, <1>5 DEF IInv, Observe

(* When a key is found or not, nothing changes. *)
LEMMA AskKeeps ==
  ASSUME IInv, NEW k \in Key,
         \/ \E b_update \in BOOLEAN : InsertAgain(k, b_update)
         \/ InsertFails(k) \/ Query(k) \/ EraseMisses(k)
  PROVE  IInv'
<1>1. Calm /\ Observe /\ entry' = entry /\ ekey' = ekey
  BY DEF InsertAgain, InsertFails, Query, EraseMisses, Calm
<1>2. TypeOK /\ EntryFits
  BY DEF IInv
<1> QED
  BY <1>1, <1>2, CalmKeeps DEF TypeOK, EntryFits

(* The facts of an idle tree that is not empty. *)
LEMMA IdleIs ==
  ASSUME IInv, pc = "idle"
  PROVE  /\ TypeOK /\ ~abort /\ cnt_key = Cardinality(heap) /\ ForgeFine(node) /\ Live = heap
         /\ first = NULL <=> heap = {}
         /\ first # NULL => /\ \E B : Whole(Tree, heap, B)
                            /\ \E D : IsTree(node, first, heap, D)
<1>1. TypeOK /\ ~abort /\ cnt_key = Cardinality(heap) /\ ForgeFine(node) /\ Live = heap
  BY DEF IInv, Sound, Live
<1>2. Tree.first = first /\ Tree.n = node
  BY DEF Tree
<1>3. /\ first = NULL <=> heap = {}
      /\ heap # {} => \E B : Whole(Tree, heap, B)
  BY <1>1, <1>2 DEF IInv, Shape, ShapeOf
<1> QED
  BY <1>1, <1>2, <1>3 DEF Whole, Good

(* The entry moves to a node. *)
LEMMA MoveKeeps ==
  ASSUME IInv, pc = "idle", NEW x, x = NULL \/ x \in heap, x # NULL => node[x].key \in Key, Move(x)
  PROVE  IInv'
<1>1. Live = heap /\ TypeOK /\ EntryFits /\ heap \subseteq Nodes /\ NULL \notin Nodes
  BY IdleIs, RBAssumption DEF IInv, TypeOK
<1>2. Calm /\ Observe
  BY DEF Move, Calm
<1>3. CASE x = NULL
  <2>1. entry' = entry /\ ekey' = ekey
    BY <1>3 DEF Move
  <2> QED
    BY <1>1, <1>2, <2>1, CalmKeeps DEF TypeOK, EntryFits
<1>4. CASE x # NULL
  <2>1. entry' = x /\ ekey' = node[x].key
    BY <1>4 DEF Move
  <2> QED
    BY <1>1, <1>2, <1>4, <2>1, CalmKeeps
<1> QED
  BY <1>3, <1>4

(* The entry walks. *)
LEMMA WalkKeeps ==
  ASSUME IInv, GoFirst \/ GoLast \/ GoNext \/ GoPrev
  PROVE  IInv'
<1>1. pc = "idle" /\ TypeOK /\ EntryFits /\ Live = heap /\ node \in Memory /\ NULL \notin heap
  BY IdleIs, TypeIs, RBAssumption DEF GoFirst, GoLast, GoNext, GoPrev, IInv
<1>2. CASE first = NULL
  <2>1. heap = {} /\ entry = NULL
    BY <1>1, <1>2, IdleIs DEF EntryFits
  <2> QED
    BY <1>1, <1>2, <2>1, MoveKeeps DEF GoFirst, GoLast, GoNext, GoPrev
<1>3. CASE first # NULL
  <2>1. PICK D : IsTree(node, first, heap, D)
    BY <1>1, <1>3, IdleIs
  <2>2. /\ Sorted(node, heap, D) /\ first \in heap /\ D[first] = heap
        /\ \A y \in heap : node[y].key \in Key
    BY <2>1 DEF IsTree, Linked, Sorted
  <2>3. ASSUME NEW s \in Sides PROVE Edge(node, first, s) \in heap
    BY <1>1, <2>2, EdgeIs
  <2>4. ASSUME NEW s \in Sides, entry # NULL PROVE Along(entry, s) = NULL \/ Along(entry, s) \in heap
    <3>1. entry \in heap
      BY <1>1, <2>4 DEF EntryFits
    <3>2. NextOf(node, heap, {entry}, s, Along(entry, s))
      BY <1>1, <2>1, <3>1, AlongIs
    <3> QED
      BY <3>2 DEF NextOf
  <2>5. "lc" \in Sides /\ "rc" \in Sides
    BY DEF Sides
  <2>6. \E x : (x = NULL \/ x \in heap) /\ Move(x)
    BY <1>3, <2>3, <2>4, <2>5 DEF GoFirst, GoLast, GoNext, GoPrev
  <2>7. PICK x : (x = NULL \/ x \in heap) /\ Move(x)
    BY <2>6
  <2> QED
    BY <1>1, <2>2, <2>7, MoveKeeps
<1> QED
  BY <1>2, <1>3
\* A step after which the variables hold the tree T.
Holds(T) ==
  /\ T \in Trees /\ Tree' = T /\ first' = T.first /\ node' = T.n
  /\ ~abort' /\ abort' \in BOOLEAN /\ ForgeFine(T.n)
  /\ heap' \subseteq Nodes /\ cnt_key' \in Nat /\ cnt_key' = Cardinality(heap')
  /\ pc' \in {"none", "idle", "i_adjust", "d_adjust"}
  /\ Observe

(* Such a step preserves the invariant if the shape and the entry are right. *)
LEMMA HoldsKeeps ==
  ASSUME NEW T, Holds(T), ShapeOf(T, heap', Live', pc', loc'), EntryFits',
         entry' \in Nodes \cup {NULL}, ekey' \in Key \cup {NULL}
  PROVE  IInv'
<1>1. first' \in Nodes \cup {NULL} /\ node' \in Memory
  BY DEF Holds, Trees
<1>2. TypeOK'
  BY <1>1, TypeIs DEF Holds, TypeOK, Memory, NodeRec
<1>3. Sound'
  BY DEF Holds, Sound
<1>4. Shape'
  BY DEF Holds, Shape
<1> QED
  BY <1>2, <1>3, <1>4 DEF IInv, Observe, Holds

(* A new node. *)
LEMMA NewNodeIs ==
  ASSUME NEW k \in Key, NEW v \in ValOf[k], NEW p \in Nodes \cup {NULL}, NEW c \in {RED, BLACK}
  PROVE  NewNode(k, v, p, c) \in NodeRec
<1>1. v \in Val
  BY RBAssumption
<1> QED
  BY <1>1 DEF NewNode, NodeRec

\* The tree has a new node x with key k and value v.
Gains(x, k, v) ==
  /\ Live' = heap \cup {x} /\ x \notin heap /\ node'[x].key = k /\ node'[x].val = v
  /\ \A y \in heap : node'[y].key = node[y].key /\ node'[y].val = node[y].val

(* The first node is inserted. *)
LEMMA InsertFirstKeeps ==
  ASSUME IInv, NEW k \in Key, NEW v \in ValOf[k], NEW x \in Nodes, InsertFirst(k, v, x)
  PROVE  IInv' /\ Gains(x, k, v)
<1>1. /\ pc = "idle" /\ first = NULL /\ x \notin heap /\ heap' = heap \cup {x}
      /\ first' = x /\ node' = [node EXCEPT ![x] = NewNode(k, v, NULL, BLACK)]
      /\ cnt_key' = cnt_key + 1 /\ Observe
      /\ pc' = pc /\ loc' = loc /\ entry' = entry /\ ekey' = ekey /\ abort' = abort
  BY DEF InsertFirst, Malloc
<1>2. /\ TypeOK /\ ~abort /\ cnt_key = Cardinality(heap) /\ ForgeFine(node) /\ Live = heap
      /\ heap = {}
  BY <1>1, IdleIs
<1>3. node \in Memory /\ abort \in BOOLEAN /\ cnt_key \in Nat
  BY <1>2, TypeIs
<1>4. node' \in Memory
  BY <1>1, <1>3, NewNodeIs, PutIs DEF RED, BLACK
<1> DEFINE R == [first |-> x, n |-> node', ok |-> TRUE]
<1>5. R \in Trees /\ Tree' = R /\ R.first = x /\ R.n = node'
  BY <1>1, <1>4 DEF Trees, Tree
<1> HIDE DEF R
<1>6. Tree \in Trees /\ Tree.n = node
  BY <1>2, TreeIs
<1>7. PICK B : Whole(R, {x}, B)
  <2>1. v \in Val
    BY RBAssumption
  <2>2. R.n = [Tree.n EXCEPT ![x] = NewNode(k, v, NULL, BLACK)] /\ ForgeFine(Tree.n)
    BY <1>1, <1>2, <1>5, <1>6
  <2> HIDE <1>1, <1>2
  <2> QED
    BY <1>5, <1>6, <2>1, <2>2, SingleTree
<1>8. heap' = {x} /\ Live' = {x}
  BY <1>1, <1>2 DEF Live
<1>9. ShapeOf(R, heap', Live', pc', loc')
  BY <1>1, <1>5, <1>7, <1>8, RBAssumption DEF ShapeOf
<1>10. EntryFits'
  BY <1>1, <1>2 DEF IInv, EntryFits
<1>11. Holds(R)
  <2>1. ForgeFine(R.n)
    BY <1>7 DEF Whole, Good
  <2>2. cnt_key' = Cardinality(heap')
    BY <1>1, <1>2, Counted
  <2> QED
    BY <1>1, <1>2, <1>3, <1>5, <1>8, <2>1, <2>2 DEF Holds
<1>12. Gains(x, k, v)
  <2>1. node'[x] = NewNode(k, v, NULL, BLACK)
    BY <1>1, <1>3 DEF Memory
  <2> QED
    BY <1>1, <1>2, <1>8, <2>1 DEF Gains, NewNode
<1> QED
  BY <1>1, <1>2, <1>9, <1>10, <1>11, <1>12, HoldsKeeps DEF TypeOK

AddsLeaf(N, R, x, p, s, k, v) ==
  N[p][s] = Forge /\ R = [N EXCEPT ![x] = NewNode(k, v, p, RED), ![p][s] = x]

(* The links of the memory with a new leaf. *)
LEMMA LeafIs ==
  ASSUME NEW N \in Memory, NEW S, S \subseteq Nodes, NEW x \in Nodes \ S, NEW p \in S,
         NEW s \in Sides, NEW k \in Key, NEW v \in ValOf[k],
         NEW R, AddsLeaf(N, R, x, p, s, k, v)
  PROVE  Leaf(N, R, S, p, s, x, k)
<1> DEFINE q == NewNode(k, v, p, RED)
           Mem == [N EXCEPT ![x] = q]
           r == [N[p] EXCEPT ![s] = x]
           L == [Mem EXCEPT ![p] = r]
<1>1. p \in Nodes /\ p # x /\ Forge # x /\ Forge # p /\ N[p] \in NodeRec /\ RED \in {RED, BLACK}
  BY RBAssumption DEF Memory
<1>2. q \in NodeRec
  BY <1>1, NewNodeIs
<1> HIDE DEF q
<1>3. Mem \in Memory /\ Mem[x] = q /\ \A y \in Nodes \cup {Forge} : y # x => Mem[y] = N[y]
  BY <1>2, PutIs
<1>4. /\ r \in NodeRec /\ r.key = N[p].key /\ r.val = N[p].val /\ r.father = N[p].father
      /\ r.color = N[p].color /\ r[s] = x /\ r[Other(s)] = N[p][Other(s)]
  BY <1>1, LinkIs
<1>5. R = [Mem EXCEPT ![p] = [Mem[p] EXCEPT ![s] = x]]
  BY <1>1 DEF Memory, q, AddsLeaf
<1>6. R = L
  BY <1>1, <1>3, <1>5
<1> HIDE DEF Mem, r
<1>7. /\ L \in Memory /\ L[p] = r /\ L[x] = q
      /\ \A y \in Nodes \cup {Forge} : y # x /\ y # p => L[y] = N[y]
  BY <1>1, <1>3, <1>4, PutIs
<1> HIDE DEF L
<1>8. /\ q.key = k /\ q.father = p /\ q.color = RED /\ \A t \in Sides : q[t] = Forge
  BY DEF NewNode, Sides, q
<1>9. \A t \in Sides : t = s \/ t = Other(s)
  BY DEF Sides, Other
<1>10. Other(s) # s
  BY DEF Sides, Other
<1>11. ASSUME NEW y \in S \cup {Forge}
       PROVE  /\ L[y].key = N[y].key /\ L[y].val = N[y].val /\ L[y].father = N[y].father
              /\ L[y].color = N[y].color
              /\ \A t \in Sides : L[y][t] = IF y = p /\ t = s THEN x ELSE N[y][t]
  <2>1. CASE y = p
    BY <1>4, <1>7, <1>9, <1>10, <2>1
  <2>2. CASE y # p
    <3>1. L[y] = N[y]
      BY <1>1, <1>7, <2>2
    <3> QED
      BY <2>2, <3>1
  <2> QED
    BY <2>1, <2>2
<1>12. Leaf(N, L, S, p, s, x, k)
  <2>1. x \in Nodes \ S /\ p \in S /\ s \in Sides /\ k \in Key /\ N[p][s] = Forge
    BY DEF AddsLeaf
  <2> QED
    BY <1>7, <1>8, <1>11, <2>1 DEF Leaf
<1> QED
  BY <1>6, <1>12
(* A leaf is inserted. *)
LEMMA InsertLeafKeeps ==
  ASSUME IInv, NEW k \in Key, NEW v \in ValOf[k], NEW x \in Nodes, InsertLeaf(k, v, x)
  PROVE  IInv' /\ Gains(x, k, v)
<1> DEFINE p == Locate(k)
           s == Side(k, p)
<1>1. /\ pc = "idle" /\ first # NULL /\ ~Has(k) /\ x \notin heap /\ heap' = heap \cup {x}
      /\ node' = [node EXCEPT ![x] = NewNode(k, v, p, RED), ![p][s] = x]
      /\ cnt_key' = cnt_key + 1 /\ Observe
      /\ pc' = "i_adjust" /\ loc'.cur = x /\ IsLoc(loc')
      /\ first' = first /\ entry' = entry /\ ekey' = ekey /\ abort' = abort
  BY DEF InsertLeaf, Malloc, NoLoc, IsLoc
<1>2. /\ TypeOK /\ ~abort /\ cnt_key = Cardinality(heap) /\ ForgeFine(node) /\ Live = heap
      /\ \E B : Whole(Tree, heap, B)
      /\ \E D : IsTree(node, first, heap, D)
  BY <1>1, IdleIs
<1>3. PICK B : Whole(Tree, heap, B)
  BY <1>2
<1>4. PICK D : IsTree(node, first, heap, D)
  BY <1>2
<1>5. /\ node \in Memory /\ abort \in BOOLEAN /\ cnt_key \in Nat /\ heap \subseteq Nodes
      /\ first \in Nodes \cup {NULL}
  BY <1>2, TypeIs
<1>6. Sorted(node, heap, D) /\ first \in heap /\ D[first] = heap /\ k \in Int
  BY <1>4, RBAssumption DEF IsTree, Linked
<1>7. /\ p \in heap /\ node[p].key # k /\ node[p][s] = Forge
      /\ \A z \in heap, t \in Sides : p \in D[node[z][t]] => Before(t, k, node[z].key)
  BY <1>1, <1>5, <1>6, Located DEF Has
<1>8. s \in Sides /\ Before(s, k, node[p].key)
  <2>1. node[p].key \in Int
    BY <1>6, <1>7, RBAssumption DEF Sorted
  <2> QED
    BY <1>6, <1>7, <2>1 DEF Side, Sides, Before
<1>9. AddsLeaf(node, node', x, p, s, k, v)
  BY <1>1, <1>7 DEF AddsLeaf
<1> HIDE DEF p, s
<1>10. Leaf(node, node', heap, p, s, x, k)
  <2>1. x \in Nodes \ heap
    BY <1>1
  <2> HIDE <1>1
  <2> QED
    BY <1>5, <1>7, <1>8, <1>9, <2>1, LeafIs
<1> DEFINE R == [first |-> first, n |-> node', ok |-> TRUE]
<1>11. R \in Trees /\ Tree' = R /\ R.first = first /\ R.n = node'
  BY <1>1, <1>5, <1>10 DEF Trees, Tree, Leaf
<1> HIDE DEF R
<1>12. Tree \in Trees /\ Tree.n = node /\ Tree.first = first
  BY <1>2, TreeIs
<1>13. Fits(node, heap, D, p, s, k)
  BY <1>7, <1>8 DEF Fits
<1>14. PICK C : ILoop(R, heap \cup {x}, C, x)
  <2>1. /\ Leaf(Tree.n, R.n, heap, p, s, x, k) /\ IsTree(Tree.n, Tree.first, heap, D)
        /\ Fits(Tree.n, heap, D, p, s, k) /\ R.first = Tree.first
    BY <1>4, <1>10, <1>11, <1>12, <1>13
  <2> HIDE <1>1, <1>12
  <2> QED
    BY <1>3, <1>11, <2>1, LeafGood
<1>15. Live' = heap' /\ heap' = heap \cup {x} /\ heap' \subseteq Nodes
  BY <1>1, <1>5 DEF Live
<1>16. ShapeOf(R, heap', Live', pc', loc')
  <2>1. R.first # NULL
    BY <1>1, <1>11
  <2> QED
    BY <1>1, <1>14, <1>15, <2>1 DEF ShapeOf
<1>17. EntryFits'
  <2>1. \A y \in Live : node'[y].key = node[y].key
    BY <1>2, <1>10 DEF Leaf
  <2> QED
    BY <1>1, <1>2, <1>15, <2>1, EntryKept DEF IInv
<1>18. Holds(R)
  <2>1. ForgeFine(R.n)
    BY <1>14 DEF ILoop, Good
  <2>2. cnt_key' = Cardinality(heap')
    BY <1>1, <1>2, Counted
  <2> QED
    BY <1>1, <1>2, <1>5, <1>11, <1>15, <2>1, <2>2 DEF Holds
<1>19. Gains(x, k, v)
  <2>1. node'[x] = NewNode(k, v, p, RED)
    <3>1. x # p /\ x \in Nodes /\ p \in Nodes
      BY <1>1, <1>5, <1>7
    <3> QED
      BY <1>1, <1>5, <3>1 DEF Memory, p, s
  <2>2. \A y \in heap : node'[y].key = node[y].key /\ node'[y].val = node[y].val
    BY <1>10 DEF Leaf
  <2> QED
    <3>1. node'[x].key = k /\ node'[x].val = v
      BY <2>1 DEF NewNode
    <3>2. Live' = heap \cup {x} /\ x \notin heap
      BY <1>1, <1>15
    <3> QED
      BY <2>2, <3>1, <3>2 DEF Gains
<1> QED
  BY <1>1, <1>2, <1>16, <1>17, <1>18, <1>19, HoldsKeeps DEF TypeOK

(* What the invariant says in a loop. *)
LEMMA LoopIs ==
  ASSUME IInv, pc \in {"i_adjust", "d_adjust"}
  PROVE  /\ TypeOK /\ ~abort /\ cnt_key = Cardinality(heap) /\ EntryFits
         /\ Tree \in Trees /\ Tree.n = node /\ Tree.first = first /\ Tree.ok = TRUE
         /\ abort \in BOOLEAN /\ cnt_key \in Nat /\ heap \subseteq Nodes /\ node \in Memory
         /\ IsLoc(loc)
         /\ pc = "i_adjust" => Live = heap /\ \E B : ILoop(Tree, heap, B, loc.cur)
         /\ pc = "d_adjust" => /\ Live = heap \ {loc.del} /\ loc.del \in heap
                               /\ \E B, s : DLoop(Tree, Live, B, loc.cur, loc.father, s)
<1>1. TypeOK
  BY DEF IInv
<1> QED
  BY <1>1, TreeIs, TypeIs DEF IInv, Sound, Shape, ShapeOf, Live

(* An iteration of a loop changes no key. *)
LEMMA LoopEntry ==
  ASSUME IInv, Live' = Live, entry' = entry, ekey' = ekey, SameMap(node, node', Live)
  PROVE  EntryFits'
BY EntryKept DEF IInv, SameMap

(* i_adjust comes to an end. *)
LEMMA IAdjustEndKeeps ==
  ASSUME IInv, IAdjustEnd
  PROVE  IInv' /\ Live' = Live /\ SameMap(node, node', Live)
<1>1. /\ pc = "i_adjust" /\ IStops(loc.cur)
      /\ node' = [node EXCEPT ![first].color = BLACK]
      /\ pc' = "idle" /\ Observe
      /\ UNCHANGED <<first, cnt_key, heap, entry, ekey, ret, abort>>
  BY DEF IAdjustEnd
<1>2. /\ TypeOK /\ ~abort /\ cnt_key = Cardinality(heap) /\ EntryFits
      /\ Tree \in Trees /\ Tree.n = node /\ Tree.first = first /\ Tree.ok = TRUE
      /\ abort \in BOOLEAN /\ cnt_key \in Nat /\ heap \subseteq Nodes
      /\ Live = heap /\ \E B : ILoop(Tree, heap, B, loc.cur)
  BY <1>1, LoopIs
<1>3. PICK B : ILoop(Tree, heap, B, loc.cur)
  BY <1>2
<1> DEFINE R == Paint(Tree, first, BLACK)
<1>4. Tree' = R
  <2> DEFINE Mem == [node EXCEPT ![first] = [node[first] EXCEPT !.color = BLACK]]
  <2>1. first \in Nodes \cup {Forge} /\ node \in Memory
    BY <1>1, <1>3, FirstIn, <1>2, LoopIs DEF ILoop
  <2>2. R \in Trees /\ R.first = Tree.first /\ R.ok = Tree.ok
    BY <1>2, <2>1, PaintIs DEF RED, BLACK
  <2>3. node[first] \in NodeRec
    BY <2>1 DEF Memory
  <2>4. [node EXCEPT ![first].color = BLACK] = Mem
    BY <2>1, <2>3 DEF Memory, NodeRec
  <2>5. R = [Tree EXCEPT !.n = Mem]
    BY <1>2, <2>1, <2>3 DEF Trees, Memory, NodeRec, Paint
  <2>6. R.n = Mem
    BY <1>2, <2>5 DEF Trees
  <2> HIDE DEF Mem, R
  <2>7. SetTree(R)
    BY <1>1, <1>2, <2>2, <2>4, <2>6 DEF SetTree
  <2> QED
    BY <1>2, <2>2, <2>7, SetTreeIs
<1>5. DLoop(Tree, heap, B, first, NULL, "lc")
  <2>1. Tree.n[loc.cur].father = NULL \/ Tree.n[Tree.n[loc.cur].father].color = BLACK
    BY <1>1, <1>2 DEF IStops
  <2>2. DLoop(Tree, heap, B, Tree.first, NULL, "lc")
    BY <1>3, <2>1, IEndTree
  <2> QED
    BY <1>2, <2>2
<1>6. first \in heap
  BY <1>2, <1>3, FirstIn DEF ILoop
<1>7. /\ R.ok = TRUE /\ SameMap(node, R.n, heap) /\ R.first = first /\ R.n[R.first].color = BLACK
      /\ \E C : Good(R, heap, C, NULL, "lc", {})
  <2>1. Tree.first \in heap /\ DLoop(Tree, heap, B, Tree.first, NULL, "lc")
    BY <1>2, <1>5, <1>6
  <2>2. Tree \in Trees /\ Tree.ok = TRUE
    BY <1>2
  <2> DEFINE Q == Paint(Tree, Tree.first, BLACK)
  <2>3. /\ Q.ok = TRUE /\ SameMap(Tree.n, Q.n, heap) /\ Q.first = Tree.first
        /\ Q.n[Q.first].color = BLACK
        /\ \E C : Good(Q, heap, C, NULL, "lc", {})
    <3> HIDE <1>1, <1>2, <1>4 DEF R
    <3> QED
      BY <2>1, <2>2, DEndTree
  <2>4. Q = R
    BY <1>2
  <2> HIDE DEF Q, R
  <2> QED
    BY <1>2, <2>3, <2>4
<1> HIDE DEF R
<1>8. /\ R \in Trees /\ ForgeFine(R.n) /\ \E C : Whole(R, heap, C)
  BY <1>7 DEF Good, Whole
<1>9. Live' = heap /\ heap' = heap /\ node' = R.n /\ first' = R.first
  BY <1>1, <1>4, <1>7, Zenon DEF Live, Tree
<1>10. ShapeOf(R, heap', Live', pc', loc')
  <2>1. R.first # NULL /\ heap # {}
    BY <1>2, <1>6, <1>7, RBAssumption
  <2> QED
    BY <1>1, <1>8, <1>9, <2>1 DEF ShapeOf
<1>11. EntryFits'
  BY <1>1, <1>2, <1>7, <1>9, LoopEntry
<1>12. Holds(R)
  BY <1>1, <1>2, <1>4, <1>8, <1>9 DEF Holds
<1> QED
  BY <1>1, <1>2, <1>7, <1>9, <1>10, <1>11, <1>12, HoldsKeeps DEF TypeOK

(* i_adjust goes on. *)
LEMMA IAdjustKeeps ==
  ASSUME IInv, IAdjustUp \/ IAdjustRotate
  PROVE  IInv' /\ Live' = Live /\ SameMap(node, node', Live)
<1> DEFINE x == loc.cur
           h == node[node[x].father].father
<1>1. /\ pc = "i_adjust" /\ ~IStops(x) /\ Observe
      /\ loc' = [loc EXCEPT !.cur = h, !.steps = @ + 1]
      /\ UNCHANGED <<cnt_key, heap, pc, entry, ekey, ret>>
  BY Zenon DEF IAdjustUp, IAdjustRotate
<1>2. /\ TypeOK /\ ~abort /\ cnt_key = Cardinality(heap) /\ EntryFits
      /\ Tree \in Trees /\ Tree.n = node /\ Tree.first = first /\ Tree.ok = TRUE
      /\ abort \in BOOLEAN /\ cnt_key \in Nat /\ heap \subseteq Nodes
      /\ Live = heap /\ \E B : ILoop(Tree, heap, B, x)
  BY <1>1, LoopIs
<1>3. PICK B : ILoop(Tree, heap, B, x)
  BY <1>2
<1>4. PICK f, g, s, u : Above(Tree, heap, B, x, f, g, s, u)
  <2>1. ~(Tree.n[x].father = NULL \/ Tree.n[Tree.n[x].father].color = BLACK)
    BY <1>1, <1>2 DEF IStops
  <2> HIDE <1>1, <1>2 DEF x
  <2> QED
    BY <1>3, <2>1, IGoesOn
<1>5. /\ g = h /\ f = node[x].father /\ s \in Sides
      /\ node[g][s] = f /\ node[g][Other(s)] = u /\ node[f].color = RED /\ node[u].color \in {RED, BLACK}
  BY <1>2, <1>4, ZenonT(30) DEF Above, IsChild
<1>6. node[node[g].lc].color = node[node[g].rc].color <=> node[u].color = RED
  BY <1>5 DEF Sides, Other, RED, BLACK
<1>7. \E T : SetTree(T) /\ Rises(Tree, T, heap, B, x, g)
  <2>1. CASE IAdjustUp
    <3>1. node[node[g].lc].color = node[node[g].rc].color
      BY <1>5, <2>1, ZenonT(30) DEF IAdjustUp
    <3>2. node[u].color = RED /\ node[node[g].lc].color = RED
      BY <1>5, <1>6, <3>1, ZenonT(30) DEF Sides, Other
    <3>3. SetTree(Recolour(Assert(Tree, node[node[g].lc].color = RED), g))
      BY <1>5, <2>1, Zenon DEF IAdjustUp
    <3>4. Assert(Tree, node[node[g].lc].color = RED) = Tree
      BY <1>2, <3>2, AssertIs
    <3>5. SetTree(Recolour(Tree, g))
      BY <3>3, <3>4
    <3>6. Tree.n[u].color = RED
      BY <1>2, <3>2
    <3> HIDE <1>1, <1>2, <1>5, <1>6, <2>1, <3>1, <3>2, <3>3, <3>4 DEF x, h
    <3>7. Rises(Tree, Recolour(Tree, g), heap, B, x, g)
      BY <1>3, <1>4, <3>6, RecolourIs
    <3> QED
      BY <3>5, <3>7
  <2>2. CASE IAdjustRotate
    <3>1. node[node[g].lc].color # node[node[g].rc].color
      BY <1>5, <2>2, ZenonT(30) DEF IAdjustRotate
    <3>2. Tree.n[u].color = BLACK
      BY <1>2, <1>5, <1>6, <3>1, ZenonT(30)
    <3>3. SetTree(IRotate(Tree, x))
      BY <2>2, Zenon DEF IAdjustRotate
    <3> HIDE <1>1, <1>2, <1>5, <1>6, <2>2, <3>1 DEF x, h
    <3>4. Rises(Tree, IRotate(Tree, x), heap, B, x, g)
      BY <1>3, <1>4, <3>2, IRotateIs
    <3> QED
      BY <3>3, <3>4
  <2> QED
    BY <2>1, <2>2
<1>8. PICK T : SetTree(T) /\ Rises(Tree, T, heap, B, x, g)
  BY <1>7
<1>9. /\ T \in Trees /\ T.ok = TRUE /\ SameMap(node, T.n, heap) /\ ForgeFine(T.n) /\ T.first \in heap
      /\ \E C : ILoop(T, heap, C, g)
  <2>1. PICK C : ILoop(T, heap, C, g)
    BY <1>8 DEF Rises
  <2>2. Good(T, heap, C, NULL, "lc", {g})
    BY <2>1 DEF ILoop
  <2>3. T.first \in heap
    BY <2>2, FirstIn
  <2> QED
    BY <1>2, <1>8, <2>1, <2>2, <2>3 DEF Rises, Good
<1>10. Tree' = T /\ first' = T.first /\ node' = T.n /\ ~abort' /\ abort' \in BOOLEAN
  BY <1>2, <1>8, <1>9, SetTreeIs
<1>15. loc'.cur = h /\ IsLoc(loc')
  <2>1. IsLoc(loc)
    BY <1>1, LoopIs, Zenon
  <2> QED
    BY <1>1, <2>1 DEF IsLoc
<1>11. Live' = heap /\ heap' = heap /\ pc' = "i_adjust" /\ loc'.cur = g /\ IsLoc(loc')
  BY <1>1, <1>5, <1>15 DEF Live
<1>12. ShapeOf(T, heap', Live', pc', loc')
  <2>1. T.first # NULL
    BY <1>2, <1>9, RBAssumption, Zenon
  <2> QED
    BY <1>9, <1>11, <2>1 DEF ShapeOf
<1>13. EntryFits'
  BY <1>1, <1>2, <1>9, <1>10, <1>11, LoopEntry
<1>14. Holds(T)
  BY <1>1, <1>2, <1>9, <1>10, <1>11 DEF Holds
<1> QED
  BY <1>1, <1>2, <1>9, <1>10, <1>11, <1>12, <1>13, <1>14, HoldsKeeps DEF TypeOK

-----------------------------------------------------------------------------
(* tl_rbtree_init: nothing is allocated. *)
LEMMA TreeInitKeeps ==
  ASSUME IInv, TreeInit
  PROVE  IInv'
<1>1. /\ pc = "none" /\ pc' = "idle" /\ first' = NULL /\ cnt_key' = 0 /\ Observe
      /\ UNCHANGED <<node, heap, loc, entry, ekey, abort>>
  BY DEF TreeInit
<1>2. TypeOK /\ Sound /\ EntryFits /\ heap = {} /\ Live = heap
  BY <1>1 DEF IInv, Shape, ShapeOf, Live
<1>3. TypeOK'
  BY <1>1, <1>2 DEF TypeOK
<1>4. Sound'
  BY <1>1, <1>2, FS_EmptySet DEF Sound
<1>5. Live' = {}
  BY <1>1, <1>2 DEF Live
<1>6. Shape'
  BY <1>1, <1>2, <1>5 DEF Shape, ShapeOf, Tree
<1>7. EntryFits'
  BY <1>1, <1>2, <1>5 DEF EntryFits
<1> QED
  BY <1>1, <1>3, <1>4, <1>6, <1>7 DEF IInv, Observe

\* The value at the entry is v, and nothing else has changed.
Sets(v) ==
  /\ Live' = Live
  /\ \A y \in Live : /\ node'[y].key = node[y].key
                    /\ node'[y].val = IF y = entry THEN v ELSE node[y].val

(* tl_rbtree_set: a value changes, nothing else. *)
LEMMA SetValKeeps ==
  ASSUME IInv, NEW v \in Val, SetVal(v)
  PROVE  IInv' /\ Sets(v)
<1>1. /\ pc = "idle" /\ entry # NULL /\ v \in ValOf[node[entry].key]
      /\ node' = [node EXCEPT ![entry].val = v] /\ Observe
      /\ UNCHANGED <<first, cnt_key, heap, pc, loc, entry, ekey, abort>>
  BY DEF SetVal
<1>2. /\ TypeOK /\ ~abort /\ cnt_key = Cardinality(heap) /\ ForgeFine(node) /\ Live = heap
      /\ entry \in heap /\ EntryFits /\ heap # {} /\ heap \subseteq Nodes
      /\ \E B : Whole(Tree, heap, B)
  BY <1>1, IdleIs DEF IInv, EntryFits, TypeOK
<1>3. PICK B : Whole(Tree, heap, B)
  BY <1>2
<1>4. node \in Memory /\ entry \in Nodes /\ node[entry] \in NodeRec /\ entry # Forge
      /\ first \in Nodes \cup {NULL} /\ abort \in BOOLEAN /\ cnt_key \in Nat
  BY <1>2, TypeIs, TreeIs, RBAssumption
<1> DEFINE r == [node[entry] EXCEPT !.val = v]
<1>5. r \in NodeRec /\ \A c \in {"key", "color", "father", "lc", "rc"} : r[c] = node[entry][c]
  BY <1>4 DEF NodeRec
<1>6. node' = [node EXCEPT ![entry] = r]
  BY <1>1, <1>4 DEF Memory, NodeRec
<1> HIDE DEF r
<1>7. /\ node' \in Memory /\ node'[entry] = r
      /\ \A y \in Nodes \cup {Forge} : y # entry => node'[y] = node[y]
  <2>1. entry \in Nodes \cup {Forge} /\ node \in Memory /\ r \in NodeRec
    BY <1>4, <1>5
  <2> DEFINE Q == [node EXCEPT ![entry] = r]
  <2>2. /\ Q \in Memory /\ Q[entry] = r
        /\ \A y \in Nodes \cup {Forge} : y # entry => Q[y] = node[y]
    <3> HIDE <1>1, <1>2, <1>4, <1>6
    <3> QED
      BY <2>1, PutIs
  <2> QED
    BY <1>6, <2>2
<1>8. \A y \in Nodes \cup {Forge} : \A c \in {"key", "color", "father", "lc", "rc"} : node'[y][c] = node[y][c]
  BY <1>5, <1>7
<1> DEFINE R == [first |-> first, n |-> node', ok |-> TRUE]
<1>9. R \in Trees /\ Tree' = R /\ R.first = first /\ R.n = node'
  BY <1>1, <1>4, <1>7 DEF Trees, Tree
<1> HIDE DEF R
<1>10. Tree \in Trees /\ Tree.n = node /\ Tree.first = first
  BY <1>2, TreeIs
<1>11. Whole(R, heap, B)
  <2>1. SameLinks(Tree.n, R.n, heap) /\ SameColours(Tree.n, R.n, heap)
    <3>1. /\ \A y \in heap : /\ node'[y].key = node[y].key /\ node'[y].father = node[y].father
                             /\ node'[y].lc = node[y].lc /\ node'[y].rc = node[y].rc
          /\ \A y \in heap \cup {Forge} : node'[y].color = node[y].color
      BY <1>2, <1>8
    <3>2. SameLinks(node, node', heap) /\ SameColours(node, node', heap)
      BY <1>7, <3>1 DEF SameLinks, SameColours
    <3> QED
      BY <1>9, <1>10, <3>2
  <2>2. R.first = Tree.first /\ R.n[Forge].lc = Tree.n[Forge].lc /\ R.n[Forge].rc = Tree.n[Forge].rc
    BY <1>8, <1>9, <1>10
  <2>3. Good(Tree, heap, B, NULL, "lc", {}) /\ Tree.n[Tree.first].color = BLACK
    BY <1>3 DEF Whole
  <2>4. Good(R, heap, B, NULL, "lc", {})
    BY <1>9, <2>1, <2>2, <2>3, SameGood
  <2>5. R.n[R.first].color = BLACK
    BY <2>2, <2>3, <2>1, FirstIn DEF SameColours
  <2> QED
    BY <2>4, <2>5 DEF Whole
<1>12. Live' = heap /\ heap' = heap
  BY <1>1 DEF Live
<1>13. ShapeOf(R, heap', Live', pc', loc')
  BY <1>1, <1>2, <1>9, <1>11, <1>12, IdleIs DEF ShapeOf
<1>14. EntryFits'
  <2>1. \A y \in Live : node'[y].key = node[y].key
    BY <1>2, <1>8
  <2> QED
    BY <1>1, <1>2, <1>12, <2>1, EntryKept
<1>15. Holds(R)
  <2>1. ForgeFine(R.n)
    BY <1>11 DEF Whole, Good
  <2> QED
    BY <1>1, <1>2, <1>4, <1>9, <2>1 DEF Holds
<1>16. Sets(v)
  <2>1. r.val = v
    BY <1>4 DEF r, NodeRec
  <2>2. \A y \in Live : /\ node'[y].key = node[y].key
                      /\ node'[y].val = IF y = entry THEN v ELSE node[y].val
    BY <1>2, <1>7, <1>8, <2>1
  <2> QED
    BY <1>2, <1>12, <2>2 DEF Sets
<1> QED
  BY <1>1, <1>2, <1>13, <1>14, <1>15, <1>16, HoldsKeeps DEF TypeOK

(* What is reached is what is allocated. *)
LEMMA ReachedIs ==
  ASSUME IInv, pc = "idle"
  PROVE  Reached = heap
<1>1. /\ TypeOK /\ node \in Memory
      /\ first = NULL <=> heap = {}
      /\ first # NULL => \E D : IsTree(node, first, heap, D)
  BY IdleIs, TypeIs
<1>2. CASE first = NULL
  BY <1>1, <1>2, BelowNull DEF Reached
<1>3. CASE first # NULL
  <2>1. PICK D : IsTree(node, first, heap, D)
    BY <1>1, <1>3
  <2>2. Sorted(node, heap, D) /\ first \in heap \cup {Forge} /\ D[first] = heap
    BY <2>1 DEF IsTree, Linked
  <2> QED
    BY <1>1, <2>2, BelowIs DEF Reached
<1> QED
  BY <1>2, <1>3

(* tl_rbtree_destroy: everything is freed. *)
LEMMA DestroyKeeps ==
  ASSUME IInv, Destroy
  PROVE  IInv'
<1>1. /\ pc = "idle" /\ pc' = "none" /\ heap' = heap \ Reached
      /\ node' = [x \in Nodes \cup {Forge} |-> IF x \in Reached THEN Free ELSE node[x]]
      /\ first' = NULL /\ cnt_key' = 0 /\ entry' = NULL /\ ekey' = NULL
      /\ loc' = loc /\ abort' = abort /\ Observe
  BY DEF Destroy
<1>2. /\ TypeOK /\ ~abort /\ ForgeFine(node) /\ Reached = heap
  BY <1>1, IdleIs, ReachedIs
<1>3. node \in Memory /\ heap \subseteq Nodes /\ abort \in BOOLEAN
  BY <1>2, TypeIs
<1>4. heap' = {} /\ Live' = {}
  BY <1>1, <1>2 DEF Live
<1>5. node' \in Memory /\ ForgeFine(node')
  <2>1. Free \in NodeRec
    BY DEF Free, NodeRec, RED, BLACK
  <2>2. node'[Forge] = node[Forge]
    BY <1>1, <1>2, <1>3, RBAssumption, Zenon
  <2>3. node' \in Memory
    BY <1>1, <1>3, <2>1, Zenon DEF Memory
  <2> QED
    BY <1>2, <2>2, <2>3, Zenon DEF ForgeFine
<1>6. TypeOK'
  BY <1>1, <1>2, <1>4, <1>5, TypeIs, Zenon DEF TypeOK, Memory, NodeRec
<1>7. Sound'
  BY <1>1, <1>2, <1>4, <1>5, FS_EmptySet DEF Sound
<1>8. Shape'
  BY <1>1, <1>4 DEF Shape, ShapeOf, Tree
<1>9. EntryFits'
  BY <1>1 DEF EntryFits
<1> QED
  BY <1>1, <1>6, <1>7, <1>8, <1>9 DEF IInv, Observe

(* A step that changes nothing. *)
LEMMA StutterKeeps ==
  ASSUME IInv, UNCHANGED vars
  PROVE  IInv'
<1>1. Tree' = Tree /\ Live' = Live
  BY DEF vars, Tree, Live
<1>2. TypeOK'
  BY DEF IInv, vars, TypeOK
<1>3. Sound'
  BY DEF IInv, vars, Sound
<1>4. Shape'
  BY <1>1 DEF IInv, vars, Shape
<1>5. EntryFits'
  BY <1>1 DEF IInv, EntryFits, vars
<1>6. map' = TreeMap'
  <2>1. node' = node /\ first' = first /\ map' = map /\ map = TreeMap
    BY DEF vars, IInv
  <2>2. Reached' = Reached
    BY <2>1 DEF Reached
  <2>3. TreeMap' = TreeMap
    BY <2>1, <2>2 DEF TreeMap
  <2> QED
    BY <2>1, <2>3
<1> QED
  BY <1>2, <1>3, <1>4, <1>5, <1>6 DEF IInv

-----------------------------------------------------------------------------
\* The tree T after x has been freed.
Freed(T, x) == [T EXCEPT !.n[x] = Free]

(* Nothing but x changes. *)
LEMMA FreedIs ==
  ASSUME NEW T \in Trees, NEW x \in Nodes
  PROVE  /\ Freed(T, x) \in Trees /\ Freed(T, x).first = T.first /\ Freed(T, x).ok = T.ok
         /\ \A y \in Nodes \cup {Forge} : y # x => Freed(T, x).n[y] = T.n[y]
<1> DEFINE Mem == [T.n EXCEPT ![x] = Free]
<1>1. T.n \in Memory /\ Free \in NodeRec
  BY DEF Trees, Free, NodeRec, RED, BLACK
<1>2. Freed(T, x) = [T EXCEPT !.n = Mem]
  BY DEF Freed, Trees
<1>3. Mem \in Memory /\ \A y \in Nodes \cup {Forge} : y # x => Mem[y] = T.n[y]
  BY <1>1 DEF Memory
<1> HIDE DEF Mem
<1>4. [T EXCEPT !.n = Mem] \in Trees /\ [T EXCEPT !.n = Mem].n = Mem /\ [T EXCEPT !.n = Mem].first = T.first
      /\ [T EXCEPT !.n = Mem].ok = T.ok
  BY <1>3 DEF Trees
<1> QED
  BY <1>2, <1>3, <1>4

(* A tree that x is not in stays good. *)
LEMMA FreedGood ==
  ASSUME NEW T, NEW S, NEW x \in Nodes, x \notin S, NEW B, Whole(T, S, B)
  PROVE  Whole(Freed(T, x), S, B) /\ SameMap(T.n, Freed(T, x).n, S)
<1>1. T \in Trees /\ S \subseteq Nodes /\ Good(T, S, B, NULL, "lc", {})
  BY DEF Whole, Good, IsTree, Sorted
<1>2. /\ Freed(T, x) \in Trees /\ Freed(T, x).first = T.first
      /\ \A y \in Nodes \cup {Forge} : y # x => Freed(T, x).n[y] = T.n[y]
  BY <1>1, FreedIs
<1>3. \A y \in S \cup {Forge} : Freed(T, x).n[y] = T.n[y]
  BY <1>1, <1>2, RBAssumption
<1>4. /\ SameLinks(T.n, Freed(T, x).n, S) /\ SameColours(T.n, Freed(T, x).n, S)
      /\ SameMap(T.n, Freed(T, x).n, S)
  BY <1>2, <1>3 DEF SameLinks, SameColours, SameMap, Trees
<1>5. Good(Freed(T, x), S, B, NULL, "lc", {})
  BY <1>1, <1>2, <1>3, <1>4, SameGood
<1>6. T.first \in S
  BY <1>1, FirstIn
<1> QED
  BY <1>2, <1>3, <1>4, <1>5, <1>6 DEF Whole

(* What is short is below a father unless it is the first node. *)
LEMMA ShortFirst ==
  ASSUME NEW T, NEW S, NEW B, NEW x, NEW f, NEW s, DLoop(T, S, B, x, f, s)
  PROVE  x = T.first => f = NULL
<1> SUFFICES ASSUME x = T.first, f # NULL PROVE FALSE
  OBVIOUS
<1>1. f \in S /\ s \in Sides /\ T.n[f][s] = x /\ Good(T, S, B, f, s, {x, T.n[x].lc, T.n[x].rc})
  BY DEF DLoop
<1>2. PICK D : IsTree(T.n, T.first, S, D)
  BY <1>1, Zenon DEF Good
<1>3. x \in S /\ T.n[x].father = NULL /\ S \subseteq Nodes
  BY <1>2, Zenon DEF IsTree, Linked, Sorted
<1>4. T.n[x].father = f
  BY <1>1, <1>2, <1>3 DEF IsTree, Linked, Sides
<1> QED
  BY <1>3, <1>4

\* What d_adjust does when it stops.
Ended == Paint(Tree, loc.cur, BLACK)

(* d_adjust comes to an end. *)
LEMMA DAdjustEndKeeps ==
  ASSUME IInv, DAdjustEnd
  PROVE  IInv' /\ Live' = Live /\ SameMap(node, node', Live)
<1> DEFINE x == loc.cur
           del == loc.del
           P == Ended
           R == Freed(P, del)
<1>1. /\ pc = "d_adjust" /\ DStops(x) /\ SetTree(R) /\ heap' = heap \ {del}
      /\ cnt_key' = cnt_key - 1 /\ pc' = "idle" /\ Observe
      /\ UNCHANGED <<entry, ekey, ret>>
  BY DEF DAdjustEnd, FreeNode, Freed, Ended
<1>2. /\ TypeOK /\ ~abort /\ cnt_key = Cardinality(heap) /\ EntryFits
      /\ Tree \in Trees /\ Tree.n = node /\ Tree.first = first /\ Tree.ok = TRUE
      /\ abort \in BOOLEAN /\ cnt_key \in Nat /\ heap \subseteq Nodes
      /\ Live = heap \ {del} /\ del \in heap
      /\ \E B, s : DLoop(Tree, Live, B, x, loc.father, s)
  BY <1>1, LoopIs
<1>3. PICK B, s : DLoop(Tree, Live, B, x, loc.father, s)
  BY <1>2
<1>4. x \in Live /\ (x = Tree.first => loc.father = NULL) /\ (x = Tree.first \/ Tree.n[x].color = RED)
  <2>1. x \in Live \cup {Forge} /\ Tree.first \in Live /\ Tree.n[x].color \in {RED, BLACK}
    <3> HIDE <1>1, <1>2 DEF x
    <3>1. x \in Live \cup {Forge} /\ \E E : Good(Tree, Live, B, loc.father, s, E)
      BY <1>3 DEF DLoop
    <3>2. PICK E : Good(Tree, Live, B, loc.father, s, E)
      BY <3>1
    <3>3. Tree.first \in Live /\ \A y \in Live \cup {Forge} : Tree.n[y].color \in {RED, BLACK}
      BY <3>2, FirstIn
    <3> QED
      BY <3>1, <3>3
  <2> QED
    BY <1>1, <1>2, <1>3, <2>1, ShortFirst DEF DStops, isforge
<1>5. /\ P.ok = TRUE /\ SameMap(node, P.n, Live) /\ P.first = first /\ P.first # NULL
      /\ \E C : Whole(P, Live, C)
  <2>1. P = Paint(Tree, x, BLACK)
    BY DEF Ended
  <2> HIDE <1>1, <1>2 DEF x, P
  <2>2. /\ P.ok = Tree.ok /\ SameMap(Tree.n, P.n, Live) /\ P.first = Tree.first
        /\ P.n[P.first].color = BLACK
        /\ \E C : Good(P, Live, C, NULL, "lc", {})
    BY <1>3, <1>4, <2>1, DEndTree, ZenonT(30)
  <2>3. \E C : Whole(P, Live, C)
    BY <2>2 DEF Whole
  <2>4. Tree.first # NULL
    <3>1. Live \subseteq Nodes /\ Tree.first \in Live
      BY <1>3, FirstIn DEF DLoop, Good, IsTree, Sorted
    <3> QED
      BY <3>1, RBAssumption
  <2> QED
    BY <1>2, <2>2, <2>3, <2>4
<1>6. PICK C : Whole(P, Live, C)
  BY <1>5
<1>7. P \in Trees /\ del \in Nodes /\ del \notin Live
  BY <1>2, <1>6 DEF Whole, Good
<1> HIDE DEF P
<1>8. /\ R \in Trees /\ R.first = P.first /\ R.ok = TRUE /\ Whole(R, Live, C)
      /\ SameMap(P.n, R.n, Live)
  BY <1>5, <1>6, <1>7, FreedIs, FreedGood
<1> HIDE DEF R
<1>9. Tree' = R /\ first' = R.first /\ node' = R.n /\ ~abort' /\ abort' \in BOOLEAN
  BY <1>1, <1>2, <1>8, SetTreeIs
<1>10. Live' = Live /\ heap' = Live
  BY <1>1, <1>2 DEF Live
<1>11. ShapeOf(R, heap', Live', pc', loc')
  <2>1. R.first # NULL /\ Live # {}
    BY <1>4, <1>5, <1>8
  <2> QED
    BY <1>1, <1>8, <1>10, <2>1 DEF ShapeOf
<1>14. SameMap(node, node', Live)
  BY <1>5, <1>8, <1>9 DEF SameMap
<1>12. EntryFits'
  BY <1>1, <1>10, <1>14, LoopEntry
<1>13. Holds(R)
  <2>1. ForgeFine(R.n)
    BY <1>8 DEF Whole, Good
  <2>2. cnt_key' = Cardinality(heap') /\ cnt_key' \in Nat
    BY <1>1, <1>2, <1>7, Counted
  <2> QED
    BY <1>1, <1>2, <1>8, <1>9, <1>10, <2>1, <2>2 DEF Holds
<1> QED
  BY <1>1, <1>2, <1>10, <1>11, <1>12, <1>13, <1>14, HoldsKeeps DEF TypeOK

\* The loop goes on with the tree T at the node up.
GoesOn(T, up) ==
  SetTree(T) /\ loc' = [loc EXCEPT !.cur = up, !.father = T.n[up].father, !.steps = @ + 1]

(* d_adjust goes on. *)
LEMMA DAdjustKeeps ==
  ASSUME IInv, DAdjust
  PROVE  IInv' /\ Live' = Live /\ SameMap(node, node', Live)
<1> DEFINE x == loc.cur
           f == loc.father
           del == loc.del
<1>1. /\ pc = "d_adjust" /\ ~DStops(x) /\ Observe
      /\ UNCHANGED <<cnt_key, heap, pc, entry, ekey, ret>>
  BY ZenonT(30) DEF DAdjust
<1>2. \E T, up : DStep(Tree, x, f, T, up) /\ GoesOn(T, up)
  BY ZenonT(30) DEF DAdjust, DStep, GoesOn
<1>3. /\ TypeOK /\ ~abort /\ cnt_key = Cardinality(heap) /\ EntryFits
      /\ Tree \in Trees /\ Tree.n = node /\ Tree.first = first /\ Tree.ok = TRUE
      /\ abort \in BOOLEAN /\ cnt_key \in Nat /\ heap \subseteq Nodes
      /\ Live = heap \ {del} /\ del \in heap /\ IsLoc(loc)
      /\ \E B, s : DLoop(Tree, Live, B, x, f, s)
  BY <1>1, LoopIs
<1>4. PICK B, s : DLoop(Tree, Live, B, x, f, s)
  BY <1>3
<1>5. PICK T, up : DStep(Tree, x, f, T, up) /\ GoesOn(T, up)
  BY <1>2
<1>6. x # Tree.first /\ (isforge(x) \/ Tree.n[x].color = BLACK)
  BY <1>1, <1>3 DEF DStops
<1>7. Progress(Tree, T, Live, B, x, f, up)
  <2> HIDE <1>1, <1>3 DEF x, f
  <2>1. Short(Tree, Live, B, x, f, s)
    BY <1>4, <1>6, DGoesOn
  <2>2. DStep(Tree, x, f, T, up)
    BY <1>5
  <2> QED
    BY <2>1, <2>2, DStepIs
<1>8. PICK C, u : DLoop(T, Live, C, up, T.n[up].father, u)
  BY <1>7 DEF Progress
<1>9. /\ T \in Trees /\ T.ok = TRUE /\ SameMap(node, T.n, Live) /\ ForgeFine(T.n)
      /\ T.first # NULL /\ Live # {}
  <2>1. \E E : Good(T, Live, C, T.n[up].father, u, E)
    BY <1>8 DEF DLoop
  <2>2. PICK E : Good(T, Live, C, T.n[up].father, u, E)
    BY <2>1
  <2>3. T.first \in Live /\ T.first # NULL
    BY <2>2, FirstIn
  <2>4. T \in Trees /\ ForgeFine(T.n)
    BY <2>2 DEF Good
  <2>5. T.ok = Tree.ok /\ SameMap(Tree.n, T.n, Live)
    BY <1>7 DEF Progress
  <2> QED
    BY <1>3, <2>3, <2>4, <2>5
<1>10. Tree' = T /\ first' = T.first /\ node' = T.n /\ ~abort' /\ abort' \in BOOLEAN
  BY <1>3, <1>5, <1>9, SetTreeIs DEF GoesOn
<1>11. /\ loc'.cur = up /\ loc'.father = T.n[up].father /\ loc'.del = del /\ IsLoc(loc')
  BY <1>3, <1>5 DEF GoesOn, IsLoc
<1>12. Live' = Live /\ heap' = heap /\ pc' = "d_adjust"
  BY <1>1, <1>11 DEF Live
<1>13. ShapeOf(T, heap', Live', pc', loc')
  BY <1>3, <1>8, <1>9, <1>11, <1>12 DEF ShapeOf
<1>14. EntryFits'
  BY <1>1, <1>9, <1>10, <1>12, LoopEntry
<1>15. Holds(T)
  BY <1>1, <1>3, <1>9, <1>10, <1>12 DEF Holds
<1> QED
  BY <1>1, <1>3, <1>9, <1>10, <1>12, <1>13, <1>14, <1>15, HoldsKeeps DEF TypeOK

-----------------------------------------------------------------------------
(* A key is found when a node has it. *)
LEMMA HasIs ==
  ASSUME IInv, pc = "idle", NEW k \in Key
  PROVE  Has(k) <=> \E z \in heap : node[z].key = k
<1>1. node \in Memory /\ k \in Int
  BY RBAssumption, TypeIs DEF IInv
<1>2. CASE first = NULL
  BY <1>2, IdleIs DEF Has
<1>3. CASE first # NULL
  <2>1. PICK D : IsTree(node, first, heap, D)
    BY <1>3, IdleIs
  <2>2. Sorted(node, heap, D) /\ first \in heap /\ D[first] = heap
    BY <2>1 DEF IsTree, Linked
  <2>3. Locate(k) \in heap /\ (node[Locate(k)].key = k \/ \A y \in heap : node[y].key # k)
    BY <1>1, <2>2, Located
  <2>4. Has(k) <=> node[Locate(k)].key = k
    BY <1>3 DEF Has
  <2> QED
    BY <2>3, <2>4
<1> QED
  BY <1>2, <1>3

\* What an erase with key k does to the tree of an idle state.
Goes(k) ==
  /\ node[Locate(k)].key = k
  /\ GoneTo(Gone(k), Locate(k), DelOf(k), OnlyChild(DelOf(k)), node[DelOf(k)].father)
  /\ DelOf(k) # Locate(k) =>
       /\ node[DelOf(k)].key > k
       /\ \A z \in heap : node[z].key > k => node[DelOf(k)].key <= node[z].key

(* The key is there. *)
LEMMA GoesIs ==
  ASSUME IInv, pc = "idle", NEW k \in Key, Has(k)
  PROVE  first # NULL /\ Goes(k) /\ DelOf(k) \in heap /\ Locate(k) \in heap
<1>1. first # NULL
  BY DEF Has
<1>2. TypeOK /\ \E B : Whole(Tree, heap, B)
  BY <1>1, IdleIs
<1>3. PICK B : Whole(Tree, heap, B)
  BY <1>2
<1>4. Goes(k)
  BY <1>1, <1>2, <1>3, GoneIs DEF Goes
<1> QED
  BY <1>1, <1>4 DEF Goes, GoneTo

(* An entry that the caller keeps is at a node that neither leaves nor changes its key. *)
LEMMA LoseEntryIs ==
  ASSUME IInv, pc = "idle", NEW k \in Key, Has(k), LoseEntry(k)
  PROVE  /\ entry' \in Nodes \cup {NULL} /\ ekey' \in Key \cup {NULL}
         /\ entry' = NULL => ekey' = NULL
         /\ entry' # NULL => /\ entry' \in heap /\ entry' # DelOf(k) /\ entry' # Locate(k)
                             /\ node[entry'].key = ekey'
<1>1. EntryFits /\ Live = heap /\ entry \in Nodes \cup {NULL} /\ ekey \in Key \cup {NULL}
  BY IdleIs DEF IInv, TypeOK
<1>2. Goes(k) /\ DelOf(k) \in heap
  BY GoesIs
<1>3. CASE EntryAfterErase(k) = NULL
  BY <1>3 DEF LoseEntry
<1>4. CASE EntryAfterErase(k) # NULL
  <2>1. entry # NULL /\ entry' = entry /\ ekey' = ekey /\ ekey # k /\ ekey \notin NextKey(k)
    BY <1>4 DEF LoseEntry, EntryAfterErase
  <2>2. entry \in heap /\ node[entry].key = ekey
    BY <1>1, <2>1 DEF EntryFits
  <2>3. entry # Locate(k)
    BY <1>2, <2>1, <2>2 DEF Goes
  <2>4. DelOf(k) # Locate(k) => node[DelOf(k)].key \in NextKey(k)
    <3> SUFFICES ASSUME DelOf(k) # Locate(k) PROVE node[DelOf(k)].key \in NextKey(k)
      OBVIOUS
    <3> DEFINE j == node[DelOf(k)].key
    <3>1. \A z \in heap : node[z].key \in Key
      <4>1. first # NULL
        BY GoesIs
      <4>2. PICK D : IsTree(node, first, heap, D)
        BY <4>1, IdleIs
      <4> QED
        BY <4>2 DEF IsTree, Sorted
    <3>2. j \in Key /\ Has(j)
      BY <1>2, <3>1, HasIs
    <3>3. j > k /\ \A z \in heap : node[z].key > k => j <= node[z].key
      BY <1>2 DEF Goes
    <3>4. ASSUME NEW i \in Key, Has(i), i > k PROVE j <= i
      <4>1. PICK z \in heap : node[z].key = i
        BY <3>4, HasIs
      <4> QED
        BY <3>3, <3>4, <4>1
    <3>5. j > k /\ \A i \in Key : Has(i) /\ i > k => j <= i
      BY <3>3, <3>4
    <3> HIDE DEF j
    <3>6. j \in NextKey(k)
      BY <3>2, <3>5 DEF NextKey
    <3> QED
      BY <3>6 DEF j
  <2> QED
    BY <1>1, <2>1, <2>2, <2>3, <2>4
<1> QED
  BY <1>3, <1>4

\* The last part of an erase: del is kept for the loop, or freed.
EraseEnds(T, del, pu) ==
  IF node[del].color = BLACK /\ T.first # NULL
  THEN /\ SetTree(T)
       /\ pc' = "d_adjust"
       /\ loc' = [NoLoc EXCEPT !.cur = pu, !.father = node[del].father, !.del = del]
       /\ UNCHANGED <<heap, cnt_key>>
  ELSE FreeNode(T, del) /\ UNCHANGED <<pc, loc>>

\* The node del has left the tree, and x has its key and value.
Leaves(x, del) ==
  /\ Live' = heap \ {del}
  /\ \A y \in Live' : /\ node'[y].key = (IF y = x THEN node[del].key ELSE node[y].key)
                     /\ node'[y].val = (IF y = x THEN node[del].val ELSE node[y].val)

(* A key is erased. *)
LEMMA EraseKeeps ==
  ASSUME IInv, NEW k \in Key, Erase(k)
  PROVE  IInv' /\ Leaves(Locate(k), DelOf(k))
<1> DEFINE x == Locate(k)
           del == DelOf(k)
           pu == OnlyChild(del)
           f == node[del].father
           T == Gone(k)
           S == heap \ {del}
<1>1. pc = "idle" /\ Has(k) /\ LoseEntry(k) /\ Observe /\ EraseEnds(T, del, pu)
  BY DEF Erase, EraseEnds, DelOf, Rekey, Gone
<1>2. /\ TypeOK /\ ~abort /\ cnt_key = Cardinality(heap) /\ heap \subseteq Nodes
      /\ abort \in BOOLEAN /\ cnt_key \in Nat
  BY <1>1, IdleIs DEF TypeOK
<1>3. del \in heap /\ x \in heap /\ GoneTo(T, x, del, pu, f)
  BY <1>1, GoesIs DEF Goes
<1>4. /\ entry' \in Nodes \cup {NULL} /\ ekey' \in Key \cup {NULL}
      /\ entry' = NULL => ekey' = NULL
      /\ entry' # NULL => /\ entry' \in heap /\ entry' # del /\ entry' # x
                          /\ node[entry'].key = ekey'
  BY <1>1, LoseEntryIs
<1> HIDE DEF T, x, pu, del, f
<1>5. /\ T \in Trees /\ T.ok = TRUE /\ ForgeFine(T.n) /\ del \in Nodes
      /\ \A y \in S : y # x => T.n[y].key = node[y].key
  BY <1>2, <1>3 DEF GoneTo
<1>6. ASSUME Live' = S, SameMap(T.n, node', S) PROVE EntryFits' /\ Leaves(x, del)
  <2>1. EntryFits'
    BY <1>4, <1>5, <1>6 DEF EntryFits, SameMap
  <2>2. Leaves(x, del)
    BY <1>3, <1>6 DEF Leaves, SameMap, GoneTo
  <2> QED
    BY <2>1, <2>2
<1>7. ASSUME node[del].color = BLACK /\ T.first # NULL PROVE IInv' /\ Leaves(x, del)
  <2>1. /\ SetTree(T) /\ pc' = "d_adjust" /\ heap' = heap /\ cnt_key' = cnt_key
        /\ loc' = [NoLoc EXCEPT !.cur = pu, !.father = f, !.del = del]
    BY <1>1, <1>7 DEF EraseEnds, f
  <2>2. loc'.cur = pu /\ loc'.father = f /\ loc'.del = del /\ IsLoc(loc')
    BY <2>1 DEF NoLoc, IsLoc
  <2>3. \E C, v : DLoop(T, S, C, pu, f, v)
    BY <1>3, <1>7 DEF GoneTo
  <2>4. S # {}
    <3>1. \E C, v, E : Good(T, S, C, f, v, E)
      BY <2>3 DEF DLoop
    <3> QED
      BY <3>1, FirstIn
  <2>5. Tree' = T /\ first' = T.first /\ node' = T.n /\ ~abort' /\ abort' \in BOOLEAN
    BY <1>2, <1>5, <2>1, SetTreeIs
  <2>6. Live' = S
    BY <2>1, <2>2 DEF Live
  <2>7. ShapeOf(T, heap', Live', pc', loc')
    BY <1>3, <1>7, <2>1, <2>2, <2>3, <2>4, <2>6 DEF ShapeOf
  <2>8. EntryFits' /\ Leaves(x, del)
    BY <1>6, <2>5, <2>6 DEF SameMap
  <2>9. Holds(T)
    BY <1>1, <1>2, <1>5, <2>1, <2>5 DEF Holds
  <2> QED
    BY <1>4, <2>7, <2>8, <2>9, HoldsKeeps
<1>8. ASSUME ~(node[del].color = BLACK /\ T.first # NULL) PROVE IInv' /\ Leaves(x, del)
  <2> DEFINE R == Freed(T, del)
  <2>1. SetTree(R) /\ heap' = S /\ cnt_key' = cnt_key - 1 /\ pc' = "idle" /\ loc' = loc
    BY <1>1, <1>8 DEF EraseEnds, FreeNode, Freed
  <2>2. /\ R \in Trees /\ R.first = T.first /\ R.ok = T.ok
        /\ \A y \in Nodes \cup {Forge} : y # del => R.n[y] = T.n[y]
    BY <1>5, FreedIs
  <2>3. ForgeFine(R.n) /\ SameMap(T.n, R.n, S)
    <3>1. del # Forge /\ \A y \in S : y \in Nodes /\ y # del
      BY <1>2, <1>5, RBAssumption
    <3>2. \A y \in S \cup {Forge} : R.n[y] = T.n[y]
      BY <2>2, <3>1
    <3> HIDE DEF R
    <3> QED
      BY <1>5, <3>2 DEF ForgeFine, SameMap
  <2>4. T.first # NULL => \E C : Whole(T, S, C)
    <3>1. node[del].color \in {RED, BLACK}
      BY <1>2, <1>5, TreeIs DEF NodeRec
    <3> QED
      BY <1>3, <1>8, <3>1 DEF GoneTo
  <2>5. T.first # NULL => S # {} /\ \E C : Whole(R, S, C)
    <3> SUFFICES ASSUME T.first # NULL PROVE S # {} /\ \E C : Whole(R, S, C)
      OBVIOUS
    <3>1. PICK C : Whole(T, S, C)
      BY <2>4
    <3>2. Whole(R, S, C)
      BY <1>5, <3>1, FreedGood
    <3> QED
      BY <3>1, <3>2, FirstIn DEF Whole
  <2>6. T.first = NULL => S = {}
    BY <1>3 DEF GoneTo
  <2> HIDE DEF R
  <2>7. Tree' = R /\ first' = R.first /\ node' = R.n /\ ~abort' /\ abort' \in BOOLEAN
    BY <1>2, <1>5, <2>1, <2>2, SetTreeIs
  <2>8. Live' = S
    BY <2>1 DEF Live
  <2>9. ShapeOf(R, heap', Live', pc', loc')
    BY <2>1, <2>2, <2>5, <2>6, <2>8, Zenon DEF ShapeOf
  <2>10. EntryFits' /\ Leaves(x, del)
    BY <1>6, <2>3, <2>7, <2>8, Zenon
  <2>11. Holds(R)
    <3>1. cnt_key' = Cardinality(heap') /\ cnt_key' \in Nat
      BY <1>2, <1>3, <1>5, <2>1, Counted
    <3> QED
      BY <1>1, <1>2, <2>1, <2>2, <2>3, <2>7, <3>1 DEF Holds
  <2> QED
    BY <1>4, <2>9, <2>10, <2>11, HoldsKeeps
<1>9. IInv' /\ Leaves(x, del)
  BY <1>7, <1>8
<1> QED
  BY <1>9 DEF x, del

-----------------------------------------------------------------------------
(* The theorems, and the map that the tree implements. *)

(* Every step preserves the invariant. *)
LEMMA IInvNext ==
  IInv /\ [Next]_vars => IInv'
<1> SUFFICES ASSUME IInv, [Next]_vars PROVE IInv'
  OBVIOUS
<1>1. CASE TreeInit
  BY <1>1, TreeInitKeeps
<1>2. ASSUME NEW k \in Key,
             \/ \E v \in ValOf[k], x \in Nodes : InsertFirst(k, v, x) \/ InsertLeaf(k, v, x)
             \/ \E b_update \in BOOLEAN : InsertAgain(k, b_update)
             \/ InsertFails(k) \/ Query(k) \/ EraseMisses(k) \/ Erase(k)
      PROVE  IInv'
  BY <1>2, InsertFirstKeeps, InsertLeafKeeps, AskKeeps, EraseKeeps
<1>3. CASE Insert \/ Lookup \/ Delete
  BY <1>2, <1>3 DEF Insert, Lookup, Delete
<1>4. CASE Walk
  BY <1>4, WalkKeeps, SetValKeeps DEF Walk
<1>5. CASE Adjust
  BY <1>5, IAdjustEndKeeps, IAdjustKeeps, DAdjustEndKeeps, DAdjustKeeps DEF Adjust
<1>6. CASE Destroy
  BY <1>6, DestroyKeeps
<1>7. CASE UNCHANGED vars
  BY <1>7, StutterKeeps
<1> QED
  BY <1>1, <1>3, <1>4, <1>5, <1>6, <1>7 DEF Next

(* The invariant holds in every state. *)
THEOREM TreeInvariant == Spec => []IInv
BY IInvInit, IInvNext, PTL DEF Spec

(* The types of the variables are as declared. *)
THEOREM TypeCorrect == Spec => []TypeOK
<1>1. IInv => TypeOK
  BY DEF IInv
<1> QED
  BY <1>1, TreeInvariant, PTL

-----------------------------------------------------------------------------
(* A first node makes a tree of the nodes, in every phase. *)
LEMMA Standing ==
  ASSUME IInv
  PROVE  /\ TypeOK /\ node \in Memory /\ ~abort /\ ForgeFine(node) /\ Live \subseteq Nodes
         /\ first = NULL <=> Live = {}
         /\ pc = "none" => heap = {}
         /\ first # NULL => \E D : IsTree(node, first, Live, D)
         /\ first # NULL => \E B, f, s, E : Good(Tree, Live, B, f, s, E)
<1>1. /\ TypeOK /\ node \in Memory /\ ~abort /\ ForgeFine(node) /\ Live \subseteq Nodes
      /\ Tree.n = node /\ Tree.first = first
  BY TypeIs, TreeIs DEF IInv, Sound, Live
<1>2. /\ first = NULL <=> Live = {}
      /\ pc = "none" => heap = {}
  BY <1>1 DEF IInv, Shape, ShapeOf
<1>3. first # NULL => \E B, f, s, E : Good(Tree, Live, B, f, s, E)
  <2> SUFFICES ASSUME first # NULL PROVE \E B, f, s, E : Good(Tree, Live, B, f, s, E)
    OBVIOUS
  <2>1. Live # {} /\ pc # "none"
    BY <1>2 DEF Live
  <2>2. CASE pc = "idle"
    BY <2>1, <2>2 DEF IInv, Shape, ShapeOf, Whole
  <2>3. CASE pc = "i_adjust"
    BY <2>1, <2>3 DEF IInv, Shape, ShapeOf, ILoop
  <2>4. CASE pc = "d_adjust"
    BY <2>1, <2>4 DEF IInv, Shape, ShapeOf, DLoop
  <2> QED
    BY <1>1, <2>1, <2>2, <2>3, <2>4 DEF TypeOK
<1>4. first # NULL => \E D : IsTree(node, first, Live, D)
  BY <1>1, <1>3 DEF Good
<1> QED
  BY <1>1, <1>2, <1>3, <1>4

(* The nodes that are reached, and those below a node. *)
LEMMA ReachedAll ==
  ASSUME IInv, NEW D, IsTree(node, first, Live, D)
  PROVE  Reached = Live /\ \A x \in Live \cup {Forge} : Below(node, x) = D[x]
<1>1. node \in Memory /\ Sorted(node, Live, D) /\ first \in Live /\ D[first] = Live
  BY Standing DEF IsTree, Linked
<1>2. \A x \in Live \cup {Forge} : Below(node, x) = D[x]
  BY <1>1, BelowIs
<1> QED
  BY <1>1, <1>2 DEF Reached

(* What is reached is what is live. *)
LEMMA ReachedLive ==
  ASSUME IInv
  PROVE  Reached = Live
<1>1. CASE first = NULL
  BY <1>1, Standing, BelowNull DEF Reached
<1>2. CASE first # NULL
  BY <1>2, Standing, ReachedAll
<1> QED
  BY <1>1, <1>2

(* The nodes are a search tree with father links, between the iterations of the
   loops, too, and no assertion fails. *)
THEOREM SearchTreeCorrect == Spec => []SearchTree
<1>1. IInv => SearchTree
  <2> SUFFICES ASSUME IInv PROVE SearchTree
    OBVIOUS
  <2>1. TypeOK /\ ~abort
    BY Standing
  <2>2. ASSUME NEW x \in Reached
        PROVE  /\ \A y \in Below(node, node[x].lc) : node[y].key < node[x].key
               /\ \A y \in Below(node, node[x].rc) : node[y].key > node[x].key
               /\ x = first \/ x \in {node[node[x].father].lc, node[node[x].father].rc}
               /\ x = first => node[x].father = NULL
    <3>1. first # NULL /\ x \in Live
      BY <2>2, ReachedLive, Standing
    <3>2. PICK D : IsTree(node, first, Live, D)
      BY <3>1, Standing
    <3>3. \A z \in Live \cup {Forge} : Below(node, z) = D[z]
      BY <3>2, ReachedAll
    <3>4. /\ Sorted(node, Live, D) /\ Linked(node, first, Live)
      BY <3>2, Zenon DEF IsTree
    <3>5. /\ node[x].lc \in Live \cup {Forge} /\ node[x].rc \in Live \cup {Forge}
          /\ \A y \in D[node[x].lc] : node[y].key < node[x].key
          /\ \A y \in D[node[x].rc] : node[y].key > node[x].key
      BY <3>1, <3>4 DEF Sorted
    <3>6. /\ x = first \/ x \in {node[node[x].father].lc, node[node[x].father].rc}
          /\ x = first => node[x].father = NULL
      BY <3>1, <3>4 DEF Linked
    <3>7. /\ Below(node, node[x].lc) = D[node[x].lc]
          /\ Below(node, node[x].rc) = D[node[x].rc]
      BY <3>3, <3>5
    <3> QED
      BY <3>5, <3>6, <3>7
  <2> QED
    BY <2>1, <2>2 DEF SearchTree
<1> QED
  BY <1>1, TreeInvariant, PTL

(* The count, the heap and the entry agree with the tree. *)
THEOREM CountExactCorrect == Spec => []CountExact
<1>1. IInv => CountExact
  <2> SUFFICES ASSUME IInv PROVE CountExact
    OBVIOUS
  <2>1. Reached = Live /\ cnt_key = Cardinality(heap) /\ EntryFits
    BY ReachedLive DEF IInv, Sound
  <2>2. pc = "d_adjust" => loc.del \in heap
    BY DEF IInv, Shape, ShapeOf
  <2>3. pc = "none" => heap = {}
    BY Standing
  <2> QED
    BY <2>1, <2>2, <2>3 DEF CountExact, EntryStays, EntryFits, Live
<1> QED
  BY <1>1, TreeInvariant, PTL

-----------------------------------------------------------------------------
\* Where a red node may be below a red father, and where a black node is missing.
Spared(E) == /\ pc = "idle" => E = {}
             /\ pc = "i_adjust" => E = {loc.cur}
             /\ pc = "d_adjust" => E = {loc.cur, node[loc.cur].lc, node[loc.cur].rc}
Lacking(f, s) == /\ pc # "d_adjust" => f = NULL
                 /\ pc = "d_adjust" => /\ f = loc.father /\ s \in Sides
                                       /\ f # NULL => f \in Live /\ node[f][s] = loc.cur

(* In every phase the tree is red and black but for what the phase spares. *)
LEMMA Phases ==
  ASSUME IInv, first # NULL
  PROVE  /\ \E B, f, s, E : Heights(node, Live, B, f, s) /\ Coloured(node, Live, E)
                            /\ Spared(E) /\ Lacking(f, s)
         /\ node[first].color = RED => loc.cur = first
         /\ pc = "d_adjust" => loc.cur \in Live \cup {Forge}
<1>1. TypeOK /\ Tree.n = node /\ Tree.first = first /\ Live # {} /\ pc # "none"
  BY Standing, TreeIs DEF Live
<1>2. CASE pc = "idle"
  <2>1. PICK B : Whole(Tree, Live, B)
    BY <1>1, <1>2 DEF IInv, Shape, ShapeOf
  <2>2. Heights(node, Live, B, NULL, "lc") /\ Coloured(node, Live, {}) /\ node[first].color = BLACK
    BY <1>1, <2>1 DEF Whole, Good
  <2>3. Spared({}) /\ Lacking(NULL, "lc")
    BY <1>2 DEF Spared, Lacking
  <2> QED
    BY <1>2, <2>2, <2>3 DEF RED, BLACK
<1>3. CASE pc = "i_adjust"
  <2>1. PICK B : ILoop(Tree, Live, B, loc.cur)
    BY <1>1, <1>3 DEF IInv, Shape, ShapeOf
  <2>2. /\ Heights(node, Live, B, NULL, "lc") /\ Coloured(node, Live, {loc.cur})
        /\ node[first].color = RED => loc.cur = first
    BY <1>1, <2>1 DEF ILoop, Good
  <2>3. Spared({loc.cur}) /\ Lacking(NULL, "lc")
    BY <1>3 DEF Spared, Lacking
  <2> QED
    BY <1>3, <2>2, <2>3
<1>4. CASE pc = "d_adjust"
  <2>1. PICK B, s : DLoop(Tree, Live, B, loc.cur, loc.father, s)
    BY <1>1, <1>4 DEF IInv, Shape, ShapeOf
  <2> DEFINE E == {loc.cur, node[loc.cur].lc, node[loc.cur].rc}
  <2>2. /\ Heights(node, Live, B, loc.father, s) /\ Coloured(node, Live, E)
        /\ node[first].color = RED => loc.cur = first
        /\ loc.cur \in Live \cup {Forge} /\ s \in Sides
        /\ loc.father # NULL => loc.father \in Live /\ node[loc.father][s] = loc.cur
    BY <1>1, <2>1 DEF DLoop, Good
  <2>3. Spared(E) /\ Lacking(loc.father, s)
    BY <1>4, <2>2 DEF Spared, Lacking
  <2> HIDE DEF E
  <2> QED
    BY <1>4, <2>2, <2>3
<1> QED
  BY <1>1, <1>2, <1>3, <1>4 DEF TypeOK

(* A red node below a red father is at the loop's node, or below it in d_adjust. *)
LEMMA RedRedIs ==
  ASSUME IInv, NEW x \in RedRed
  PROVE  loc.cur = x \/ (pc = "d_adjust" /\ loc.cur = node[x].father)
<1>1. x \in Live /\ node[x].color = RED /\ node[x].father # NULL /\ node[node[x].father].color = RED
  BY ReachedLive DEF RedRed, IsRed
<1>2. first # NULL /\ ForgeFine(node) /\ Live \subseteq Nodes /\ pc # "none" /\ TypeOK
  BY <1>1, Standing DEF Live
<1>3. PICK D : IsTree(node, first, Live, D)
  BY <1>2, Standing
<1>4. Linked(node, first, Live)
  BY <1>3 DEF IsTree
<1> DEFINE f == node[x].father
<1>5. f \in Live /\ \E t \in Sides : node[f][t] = x
  BY <1>1, <1>4 DEF Linked, Sides
<1>6. PICK B, g, s, E : Coloured(node, Live, E) /\ Spared(E)
  BY <1>2, Phases
<1>7. x \in E
  BY <1>1, <1>5, <1>6 DEF Coloured
<1>8. ASSUME pc = "d_adjust", loc.cur # x PROVE loc.cur = f
  <2>1. x \in {node[loc.cur].lc, node[loc.cur].rc}
    BY <1>6, <1>7, <1>8, Zenon DEF Spared
  <2>2. loc.cur # Forge
    BY <1>1, <1>2, <2>1, RBAssumption DEF ForgeFine
  <2>3. loc.cur \in Live
    BY <1>2, <1>8, <2>2, Phases
  <2> QED
    BY <1>1, <1>4, <2>1, <2>3 DEF Linked
<1> QED
  BY <1>2, <1>6, <1>7, <1>8 DEF Spared, TypeOK

\* What BlackHeight computes at x, from what it is at its children.
Counts(x, l, r) == IF l < 0 \/ l # r THEN -Cardinality(Nodes)
                   ELSE l + IF node[x].color = BLACK THEN 1 ELSE 0
HeightFrom(b, x) == IF isforge(x) THEN 0
                  ELSE Counts(x, b[node[x].lc] + Missing(x, node[x].lc),
                                 b[node[x].rc] + Missing(x, node[x].rc))
IsHeight(b, S) == b = [x \in S \cup {Forge} |-> HeightFrom(b, x)]

(* A black node is missing on one side of a node at most. *)
LEMMA MissingIs ==
  ASSUME IInv, NEW B, NEW f, NEW s, Heights(node, Live, B, f, s), Lacking(f, s), NEW x \in Live
  PROVE  \A t \in Sides : Missing(x, node[x][t]) = IF x = f /\ t = s THEN 1 ELSE 0
<1> SUFFICES ASSUME NEW t \in Sides
             PROVE  Missing(x, node[x][t]) = IF x = f /\ t = s THEN 1 ELSE 0
  OBVIOUS
<1>1. x # NULL
  BY Standing, RBAssumption
<1>2. CASE pc = "d_adjust" /\ x = f
  <2>1. f = loc.father /\ s \in Sides /\ node[x][s] = loc.cur
    BY <1>1, <1>2 DEF Lacking
  <2>2. ASSUME t # s, node[x][t] = loc.cur PROVE FALSE
    <3>1. first # NULL
      BY Standing
    <3>2. PICK D : IsTree(node, first, Live, D)
      BY <3>1, Standing
    <3>3. node[x][t] \in Live \cup {Forge} /\ B[node[x][t]] \in Nat
      BY <3>2 DEF IsTree, Sorted, Sides, Heights
    <3>4. /\ B[x] = B[node[x][t]] + 0 + (IF node[x].color = BLACK THEN 1 ELSE 0)
          /\ B[x] = B[node[x][s]] + 1 + (IF node[x].color = BLACK THEN 1 ELSE 0)
      BY <1>2, <2>1, <2>2 DEF Heights
    <3> QED
      BY <2>1, <2>2, <3>3, <3>4
  <2> QED
    BY <1>2, <2>1, <2>2 DEF Missing
<1>3. CASE ~(pc = "d_adjust" /\ x = f)
  BY <1>1, <1>3 DEF Missing, Lacking
<1> QED
  BY <1>2, <1>3

(* The heights of the invariant are those that BlackHeight computes. *)
LEMMA HeightIs ==
  ASSUME IInv, first # NULL
  PROVE  \E b : IsHeight(b, Live) /\ b \in [Live \cup {Forge} -> Nat]
<1>1. PICK B, f, s, E : Heights(node, Live, B, f, s) /\ Lacking(f, s)
  BY Phases
<1>2. /\ B \in [Live \cup {Forge} -> Nat] /\ B[Forge] = 0 /\ Forge \notin Live
  BY <1>1, Standing, RBAssumption DEF Heights
<1>3. ASSUME NEW x \in Live PROVE B[x] = HeightFrom(B, x)
  <2>1. "lc" \in Sides /\ "rc" \in Sides /\ node[x].lc \in Live \cup {Forge}
        /\ node[x].rc \in Live \cup {Forge}
    <3>1. first # NULL
      OBVIOUS
    <3>2. PICK D : IsTree(node, first, Live, D)
      BY <3>1, Standing
    <3> QED
      BY <3>2 DEF IsTree, Sorted, Sides
  <2>2. /\ Missing(x, node[x].lc) = IF x = f /\ "lc" = s THEN 1 ELSE 0
        /\ Missing(x, node[x].rc) = IF x = f /\ "rc" = s THEN 1 ELSE 0
    <3>1. \A t \in Sides : Missing(x, node[x][t]) = IF x = f /\ t = s THEN 1 ELSE 0
      BY <1>1, MissingIs
    <3> QED
      BY <2>1, <3>1
  <2> DEFINE l == B[node[x].lc] + Missing(x, node[x].lc)
             r == B[node[x].rc] + Missing(x, node[x].rc)
  <2>3. /\ B[x] = l + (IF node[x].color = BLACK THEN 1 ELSE 0)
        /\ B[x] = r + (IF node[x].color = BLACK THEN 1 ELSE 0)
    <3>1. /\ B[x] = B[node[x]["lc"]] + (IF x = f /\ "lc" = s THEN 1 ELSE 0)
                      + (IF node[x].color = BLACK THEN 1 ELSE 0)
          /\ B[x] = B[node[x]["rc"]] + (IF x = f /\ "rc" = s THEN 1 ELSE 0)
                      + (IF node[x].color = BLACK THEN 1 ELSE 0)
      BY <1>1, <2>1 DEF Heights
    <3> QED
      BY <2>2, <3>1
  <2>4. l \in Nat /\ r \in Nat
    BY <1>2, <2>1, <2>2
  <2> HIDE DEF l, r
  <2>5. Counts(x, l, r) = B[x]
    BY <2>3, <2>4 DEF Counts
  <2>6. ~isforge(x)
    BY <1>2 DEF isforge
  <2> QED
    BY <2>5, <2>6 DEF HeightFrom, l, r
<1>4. B[Forge] = HeightFrom(B, Forge)
  BY <1>2 DEF HeightFrom, isforge
<1>5. IsHeight(B, Live)
  BY <1>2, <1>3, <1>4 DEF IsHeight
<1> QED
  BY <1>2, <1>5

(* There is one such height at most. *)
LEMMA HeightOne ==
  ASSUME IInv, first # NULL, NEW a, IsHeight(a, Live), NEW b, IsHeight(b, Live)
  PROVE  a[first] = b[first]
<1>1. PICK D : IsTree(node, first, Live, D)
  BY Standing
<1>2. Sorted(node, Live, D) /\ node \in Memory /\ first \in Live
  BY <1>1, Standing DEF IsTree, Linked
<1> DEFINE P == {z \in Live \cup {Forge} : a[z] = b[z]}
<1>3. ASSUME NEW z \in Live \cup {Forge}
      PROVE  a[z] = HeightFrom(a, z) /\ b[z] = HeightFrom(b, z)
  <2>1. a = [y \in Live \cup {Forge} |-> HeightFrom(a, y)]
    BY DEF IsHeight
  <2>2. b = [y \in Live \cup {Forge} |-> HeightFrom(b, y)]
    BY DEF IsHeight
  <2>3. a[z] = HeightFrom(a, z)
    BY <2>1
  <2>4. b[z] = HeightFrom(b, z)
    BY <2>2
  <2> QED
    BY <2>3, <2>4
<1>4. Forge \in P
  <2>1. HeightFrom(a, Forge) = 0 /\ HeightFrom(b, Forge) = 0
    BY DEF HeightFrom, isforge
  <2> QED
    BY <1>3, <2>1
<1>5. ASSUME NEW z \in Live, \A s \in Sides : node[z][s] \in P
      PROVE  z \in P
  <2>1. a[node[z].lc] = b[node[z].lc] /\ a[node[z].rc] = b[node[z].rc]
    BY <1>5 DEF Sides
  <2>2. HeightFrom(a, z) = HeightFrom(b, z)
    BY <2>1 DEF HeightFrom
  <2> QED
    BY <1>3, <2>2
<1> HIDE DEF P
<1>6. Live \subseteq P
  BY <1>2, <1>4, <1>5, FromLeaves
<1> QED
  BY <1>2, <1>6 DEF P

(* The tree is red and black at all times but where a loop is at work. *)
THEOREM RedBlackCorrect == Spec => []RedBlack
<1>1. IInv => RedBlack
  <2> SUFFICES ASSUME IInv PROVE RedBlack
    OBVIOUS
  <2>1. ForgeFine(node)
    BY Standing
  <2>2. ASSUME first # NULL PROVE BlackHeight[first] >= 0
    <3>1. BlackHeight = CHOOSE b : IsHeight(b, Reached)
      BY DEF BlackHeight, IsHeight, HeightFrom, Counts
    <3>2. PICK a : IsHeight(a, Live) /\ a \in [Live \cup {Forge} -> Nat]
      BY <2>2, HeightIs
    <3>3. IsHeight(BlackHeight, Live)
      BY <3>1, <3>2, ReachedLive
    <3>4. BlackHeight[first] = a[first]
      BY <2>2, <3>2, <3>3, HeightOne
    <3>5. first \in Live
      <4>1. PICK D : IsTree(node, first, Live, D)
        BY <2>2, Standing
      <4> QED
        BY <4>1 DEF IsTree, Linked
    <3> QED
      BY <3>2, <3>4, <3>5
  <2>3. \A x \in RedRed : loc.cur = x \/ (pc = "d_adjust" /\ loc.cur = node[x].father)
    BY RedRedIs
  <2>4. first # NULL => (IsRed(first) => loc.cur = first)
    BY Phases DEF IsRed
  <2> QED
    BY <2>1, <2>2, <2>3, <2>4 DEF RedBlack, ForgeFine
<1> QED
  BY <1>1, TreeInvariant, PTL

-----------------------------------------------------------------------------
\* The map holds the keys and values of the live nodes.
MapFits == /\ map = [k \in {node[z].key : z \in Live} |-> map[k]]
           /\ \A z \in Live : map[node[z].key] = node[z].val

(* The keys of the live nodes are keys, and differ. *)
LEMMA LiveKeys ==
  ASSUME IInv
  PROVE  /\ \A z \in Live : node[z].key \in Key
         /\ \A y, z \in Live : node[y].key = node[z].key => y = z
<1> SUFFICES ASSUME Live # {}
             PROVE  /\ \A z \in Live : node[z].key \in Key
                    /\ \A y, z \in Live : node[y].key = node[z].key => y = z
  OBVIOUS
<1>1. first # NULL /\ node \in Memory
  BY Standing
<1>2. PICK D : IsTree(node, first, Live, D)
  BY <1>1, Standing
<1>3. Sorted(node, Live, D) /\ first \in Live /\ D[first] = Live
  BY <1>2 DEF IsTree, Linked
<1>4. \A y, z \in Live : node[y].key = node[z].key => y = z
  BY <1>1, <1>3, KeysDiffer
<1> QED
  BY <1>3, <1>4 DEF Sorted

(* The map is what the tree holds. *)
LEMMA MapIs ==
  IInv => MapFits
<1> SUFFICES ASSUME IInv PROVE MapFits
  OBVIOUS
<1>1. map = TreeMap /\ Reached = Live
  BY ReachedLive DEF IInv
<1>2. map = [k \in {node[x].key : x \in Live} |->
               node[CHOOSE x \in Live : node[x].key = k].val]
  BY <1>1 DEF TreeMap
<1>3. ASSUME NEW z \in Live PROVE map[node[z].key] = node[z].val
  <2> DEFINE y == CHOOSE x \in Live : node[x].key = node[z].key
  <2>1. y \in Live /\ node[y].key = node[z].key
    OBVIOUS
  <2>2. y = z
    BY <2>1, LiveKeys
  <2>3. map[node[z].key] = node[y].val
    BY <1>2
  <2> QED
    BY <2>2, <2>3
<1>4. map = [k \in {node[x].key : x \in Live} |-> map[k]]
  BY <1>2
<1> QED
  BY <1>3, <1>4 DEF MapFits

(* The map after a step, from the nodes. *)
LEMMA MapBecomes ==
  ASSUME IInv', NEW K, NEW Q, Q = [j \in K |-> Q[j]], K = {node'[z].key : z \in Live'},
         \A z \in Live' : Q[node'[z].key] = node'[z].val
  PROVE  map' = Q
<1>1. MapFits'
  BY MapIs, PTL
<1>2. /\ map' = [k \in K |-> map'[k]]
      /\ \A z \in Live' : map'[node'[z].key] = node'[z].val
  BY <1>1 DEF MapFits
<1>3. ASSUME NEW j \in K PROVE map'[j] = Q[j]
  <2>1. PICK z \in Live' : j = node'[z].key
    BY <1>3
  <2> QED
    BY <1>2, <2>1
<1> QED
  BY <1>2, <1>3

(* In an idle state the tree answers as the map does. *)
LEMMA Answers ==
  ASSUME IInv, pc = "idle"
  PROVE  /\ Live = heap /\ DOMAIN map = {node[z].key : z \in heap} /\ DOMAIN map \subseteq Key
         /\ \A k \in Key : Has(k) <=> k \in DOMAIN map
         /\ \A k \in Key : Has(k) => node[Locate(k)].val = map[k]
         /\ entry # NULL => entry \in heap /\ ekey = node[entry].key /\ ekey # NULL
         /\ entry = NULL => ekey = NULL
<1>1. Live = heap /\ EntryFits
  BY DEF Live, IInv
<1>2. MapFits
  BY MapIs
<1>3. /\ DOMAIN map = {node[z].key : z \in heap}
      /\ \A z \in heap : map[node[z].key] = node[z].val
  BY <1>1, <1>2 DEF MapFits
<1>4. \A k \in Key : Has(k) <=> k \in DOMAIN map
  BY <1>3, HasIs
<1>5. \A k \in Key : Has(k) => node[Locate(k)].val = map[k]
  <2> SUFFICES ASSUME NEW k \in Key, Has(k) PROVE node[Locate(k)].val = map[k]
    OBVIOUS
  <2>1. Locate(k) \in heap /\ node[Locate(k)].key = k
    BY GoesIs DEF Goes
  <2> QED
    BY <1>3, <2>1
<1>6. \A z \in heap : node[z].key \in Key
  BY <1>1, LiveKeys
<1>7. NULL \notin Key
  BY RBAssumption
<1> QED
  BY <1>1, <1>3, <1>4, <1>5, <1>6, <1>7 DEF EntryFits

(* What changes neither the nodes nor the phase leaves the map as it is. *)
LEMMA CalmMap ==
  ASSUME IInv, first' = first, node' = node, Observe
  PROVE  map' = map
<1>1. Reached' = Reached
  BY DEF Reached
<1>2. TreeMap' = TreeMap
  BY <1>1 DEF TreeMap
<1> QED
  BY <1>2 DEF IInv, Observe

(* Without live nodes the map is empty. *)
LEMMA MapEmpty ==
  ASSUME IInv', Live' = {}
  PROVE  map' = [k \in {} |-> NULL]
<1>1. MapFits'
  BY MapIs, PTL
<1>2. map' = [k \in {node'[z].key : z \in Live'} |-> map'[k]]
  BY <1>1 DEF MapFits
<1>3. map' = [k \in {} |-> map'[k]]
  BY <1>2
<1> QED
  BY <1>3

(* tl_rbtree_init makes the empty map. *)
LEMMA OpenStep ==
  ASSUME IInv, IInv', TreeInit
  PROVE  M!Open
<1>1. pc = "none" /\ pc' = "idle" /\ ekey' = ekey /\ ret' = ret /\ heap' = heap
  BY DEF TreeInit
<1>2. heap = {} /\ Live = {} /\ EntryFits
  BY <1>1, Standing DEF Live, IInv
<1>3. Live' = {}
  BY <1>1, <1>2 DEF Live
<1>4. map' = [k \in {} |-> NULL]
  BY <1>3, MapEmpty
<1> QED
  BY <1>1, <1>2, <1>4 DEF M!Open, M!Empty, EntryFits

(* tl_rbtree_destroy makes an end of the map. *)
LEMMA CloseStep ==
  ASSUME IInv, IInv', Destroy
  PROVE  M!Close
<1>1. pc = "idle" /\ pc' = "none" /\ ekey' = NULL /\ ret' = ret
  BY DEF Destroy
<1>2. Live' = {}
  <2>1. heap' = {}
    BY <1>1, Standing, MapIs, ReachedIs DEF Destroy
  <2> QED
    BY <1>1, <2>1 DEF Live
<1>3. map' = [k \in {} |-> NULL]
  BY <1>2, MapEmpty
<1> QED
  BY <1>1, <1>3 DEF M!Close, M!Empty

(* A new key. *)
LEMMA InsertStep ==
  ASSUME IInv, IInv', NEW k \in Key, NEW v \in ValOf[k], NEW x \in Nodes,
         InsertFirst(k, v, x) \/ InsertLeaf(k, v, x), Gains(x, k, v)
  PROVE  M!Insert(k, v)
<1>1. /\ pc = "idle" /\ pc' # "none" /\ ekey' = ekey /\ ret' = [code |-> 0, val |-> NULL]
      /\ ~Has(k)
  BY DEF InsertFirst, InsertLeaf, Returns, Has
<1>2. /\ DOMAIN map = {node[z].key : z \in heap} /\ k \notin DOMAIN map
      /\ \A z \in heap : map[node[z].key] = node[z].val
  BY <1>1, Answers, MapIs, Zenon DEF MapFits
<1> DEFINE K == DOMAIN map \cup {k}
           Q == [j \in K |-> IF j = k THEN v ELSE map[j]]
<1>3. K = {node'[z].key : z \in Live'}
  BY <1>2 DEF Gains
<1>4. \A z \in Live' : Q[node'[z].key] = node'[z].val
  BY <1>2 DEF Gains
<1>5. Q = [j \in K |-> Q[j]]
  OBVIOUS
<1> HIDE DEF Q, K
<1>6. map' = Q
  BY <1>3, <1>4, <1>5, MapBecomes
<1> QED
  BY <1>1, <1>2, <1>6 DEF M!Insert, M!Keys, M!Returns, Q, K

(* What only reads. *)
LEMMA AskStep ==
  ASSUME IInv, IInv', NEW k \in Key,
         \/ \E b_update \in BOOLEAN : InsertAgain(k, b_update)
         \/ InsertFails(k) \/ Query(k) \/ EraseMisses(k)
  PROVE  M!InsertAgain(k) \/ M!InsertFails \/ M!Query(k) \/ M!EraseMisses(k)
<1>1. pc = "idle" /\ pc' = pc /\ ekey' = ekey /\ map' = map
  BY CalmMap DEF InsertAgain, InsertFails, Query, EraseMisses
<1>2. /\ Has(k) <=> k \in DOMAIN map
      /\ Has(k) => node[Locate(k)].val = map[k]
  BY <1>1, Answers
<1>3. CASE \E b_update \in BOOLEAN : InsertAgain(k, b_update)
  BY <1>1, <1>2, <1>3 DEF InsertAgain, Returns, M!InsertAgain, M!Keys, M!Returns
<1>4. CASE InsertFails(k)
  BY <1>1, <1>4 DEF InsertFails, Returns, M!InsertFails, M!Returns
<1>5. CASE Query(k)
  BY <1>1, <1>2, <1>5 DEF Query, Returns, M!Query, M!Keys, M!Returns
<1>6. CASE EraseMisses(k)
  BY <1>1, <1>2, <1>6 DEF EraseMisses, Returns, M!EraseMisses, M!Keys, M!Returns
<1> QED
  BY <1>3, <1>4, <1>5, <1>6

(* What the caller's entry becomes when the key k is erased. *)
LEMMA EraseAt ==
  ASSUME IInv, pc = "idle", NEW k \in Key, Has(k), LoseEntry(k)
  PROVE  ekey' = IF ekey = k \/ (ekey # NULL /\ ekey \in {j \in DOMAIN map : j > k}
                                /\ \A j \in {j \in DOMAIN map : j > k} : ekey <= j)
                 THEN NULL ELSE ekey
<1>1. /\ DOMAIN map \subseteq Key /\ \A j \in Key : Has(j) <=> j \in DOMAIN map
      /\ entry # NULL => ekey # NULL
      /\ entry = NULL => ekey = NULL
      /\ NULL \notin Key
  BY Answers, RBAssumption
<1>2. \A j \in Key : j \in NextKey(k) <=> /\ j \in DOMAIN map /\ j > k
                                          /\ \A i \in DOMAIN map : i > k => j <= i
  BY <1>1 DEF NextKey
<1>3. ekey \in NextKey(k) <=> /\ ekey # NULL /\ ekey \in {j \in DOMAIN map : j > k}
                              /\ \A j \in {j \in DOMAIN map : j > k} : ekey <= j
  <2>1. ekey \in NextKey(k) => ekey \in Key
    BY DEF NextKey
  <2> QED
    BY <1>1, <1>2, <2>1
<1>4. ekey' = IF ekey = k \/ ekey \in NextKey(k) \/ entry = NULL THEN NULL ELSE ekey
  BY DEF LoseEntry, EntryAfterErase
<1>5. ekey' = IF ekey = k \/ ekey \in NextKey(k) THEN NULL ELSE ekey
  BY <1>1, <1>4
<1> QED
  BY <1>3, <1>5

(* A key that is erased. *)
LEMMA EraseStep ==
  ASSUME IInv, IInv', NEW k \in Key, Erase(k), Leaves(Locate(k), DelOf(k))
  PROVE  M!Erase(k)
<1> DEFINE x == Locate(k)
           del == DelOf(k)
           from(z) == IF z = x THEN del ELSE z
           K == DOMAIN map \ {k}
           Q == [j \in K |-> map[j]]
<1>1. /\ pc = "idle" /\ Has(k) /\ LoseEntry(k) /\ ret' = [code |-> 0, val |-> node[x].val]
      /\ pc' # "none"
  BY DEF Erase, Returns
<1>2. x \in heap /\ del \in heap /\ node[x].key = k
  BY <1>1, GoesIs DEF Goes
<1>3. /\ DOMAIN map = {node[z].key : z \in heap} /\ k \in DOMAIN map /\ node[x].val = map[k]
      /\ \A z \in heap : map[node[z].key] = node[z].val
  BY <1>1, Answers, MapIs DEF MapFits
<1>4. \A y, z \in heap : node[y].key = node[z].key => y = z
  BY <1>1, LiveKeys, Answers
<1>5. ekey' = IF ekey = k \/ (ekey # NULL /\ ekey \in {j \in DOMAIN map : j > k}
                              /\ \A j \in {j \in DOMAIN map : j > k} : ekey <= j)
              THEN NULL ELSE ekey
  BY <1>1, EraseAt
<1>6. Live' = heap \ {del}
  BY DEF Leaves
<1>7. \A z \in Live' : /\ from(z) \in heap /\ from(z) # x
                       /\ node'[z].key = node[from(z)].key /\ node'[z].val = node[from(z)].val
  BY <1>2 DEF Leaves
<1>8. \A w \in heap : w # x => \E z \in Live' : from(z) = w
  <2> SUFFICES ASSUME NEW w \in heap, w # x PROVE \E z \in Live' : from(z) = w
    OBVIOUS
  <2>1. CASE w = del
    <3>1. x \in Live' /\ from(x) = w
      BY <1>2, <1>6, <2>1
    <3> QED
      BY <3>1
  <2>2. CASE w # del
    <3>1. w \in Live' /\ from(w) = w
      BY <1>6, <2>2
    <3> QED
      BY <3>1
  <2> QED
    BY <2>1, <2>2
<1> HIDE DEF x, del, from
<1>9. K = {node'[z].key : z \in Live'}
  <2>1. ASSUME NEW j \in K PROVE \E z \in Live' : j = node'[z].key
    <3>1. PICK w \in heap : j = node[w].key
      BY <1>3
    <3>2. PICK z \in Live' : from(z) = w
      BY <1>2, <1>8, <3>1
    <3> QED
      BY <1>7, <3>1, <3>2
  <2>2. ASSUME NEW z \in Live' PROVE node'[z].key \in K
    BY <1>2, <1>3, <1>4, <1>7
  <2> HIDE DEF K
  <2> QED
    BY <2>1, <2>2
<1>10. \A z \in Live' : Q[node'[z].key] = node'[z].val
  <2> SUFFICES ASSUME NEW z \in Live' PROVE Q[node'[z].key] = node'[z].val
    OBVIOUS
  <2>1. node'[z].key \in K
    BY <1>9
  <2>2. Q[node'[z].key] = map[node'[z].key]
    BY <2>1
  <2>3. map[node[from(z)].key] = node[from(z)].val
    BY <1>3, <1>7
  <2> QED
    BY <1>7, <2>2, <2>3, Zenon
<1>11. Q = [j \in K |-> Q[j]]
  OBVIOUS
<1> HIDE DEF Q, K
<1>12. map' = Q
  BY <1>9, <1>10, <1>11, MapBecomes, Zenon
<1> QED
  BY <1>1, <1>3, <1>5, <1>12 DEF M!Erase, M!Keys, M!Returns, M!IsLeast, M!Above, Q, K

(* tl_rbtree_set puts a value at the entry's key. *)
LEMMA SetStep ==
  ASSUME IInv, IInv', NEW v \in Val, SetVal(v), Sets(v)
  PROVE  M!Set(v)
<1>1. pc = "idle" /\ entry # NULL /\ pc' = pc /\ ekey' = ekey /\ ret' = ret
  BY DEF SetVal
<1>2. /\ Live = heap /\ entry \in heap /\ ekey = node[entry].key /\ ekey # NULL
      /\ DOMAIN map = {node[z].key : z \in heap}
      /\ map = [j \in DOMAIN map |-> map[j]]
      /\ \A z \in heap : map[node[z].key] = node[z].val
  BY <1>1, Answers, MapIs DEF MapFits
<1>3. \A y, z \in heap : node[y].key = node[z].key => y = z
  BY <1>2, LiveKeys
<1> DEFINE K == DOMAIN map
           Q == [map EXCEPT ![ekey] = v]
<1>4. Live' = heap /\ \A z \in heap : /\ node'[z].key = node[z].key
                                      /\ node'[z].val = IF z = entry THEN v ELSE node[z].val
  BY <1>2 DEF Sets
<1>5. K = {node'[z].key : z \in Live'}
  BY <1>2, <1>4
<1>6. \A z \in Live' : Q[node'[z].key] = node'[z].val
  BY <1>2, <1>3, <1>4
<1>7. Q = [j \in K |-> Q[j]]
  BY <1>2
<1> HIDE DEF Q, K
<1>8. map' = Q
  BY <1>5, <1>6, <1>7, MapBecomes
<1> QED
  BY <1>1, <1>2, <1>8 DEF M!Set, Q

(* An iteration of a loop is not seen. *)
LEMMA LoopStep ==
  ASSUME IInv, IInv', Adjust, Live' = Live, SameMap(node, node', Live)
  PROVE  UNCHANGED M!mapVars
<1>1. (pc # "none") = (pc' # "none") /\ ekey' = ekey /\ ret' = ret
  BY Zenon DEF Adjust, IAdjustEnd, IAdjustUp, IAdjustRotate, DAdjustEnd, DAdjust
<1>2. MapFits
  BY MapIs
<1>3. /\ {node'[z].key : z \in Live'} = {node[z].key : z \in Live}
      /\ \A z \in Live' : map[node'[z].key] = node'[z].val
  BY <1>2 DEF MapFits, SameMap
<1>4. map = [j \in {node'[z].key : z \in Live'} |-> map[j]]
  BY <1>2, <1>3 DEF MapFits
<1>5. map' = map
  BY <1>3, <1>4, MapBecomes
<1> QED
  BY <1>1, <1>5 DEF M!mapVars

(* The entry goes to the first node of one side, or to the next on it. *)
LEMMA MoveStep ==
  ASSUME IInv, NEW x, Move(x), pc = "idle"
  PROVE  IF x = NULL THEN M!Stay ELSE M!MoveTo(node[x].key)
<1>1. map' = map /\ pc' = pc
  BY CalmMap DEF Move
<1>2. CASE x = NULL
  BY <1>1, <1>2 DEF Move, Returns, M!Stay, M!Returns
<1>3. CASE x # NULL
  BY <1>1, <1>3 DEF Move, Returns, M!MoveTo, M!Returns
<1> QED
  BY <1>2, <1>3

(* tl_rbtree_first and tl_rbtree_last. *)
LEMMA EndStep ==
  ASSUME IInv, GoFirst \/ GoLast
  PROVE  M!First \/ M!Last
<1>1. pc = "idle"
  BY DEF GoFirst, GoLast
<1>2. DOMAIN map = {node[z].key : z \in heap} /\ Live = heap /\ NULL \notin heap
  BY <1>1, Answers, Standing, RBAssumption
<1>3. CASE first = NULL
  <2>1. heap = {} /\ Move(NULL)
    BY <1>1, <1>2, <1>3, Standing DEF GoFirst, GoLast
  <2>2. M!Stay
    BY <1>1, <2>1, MoveStep
  <2> QED
    BY <1>2, <2>1, <2>2 DEF M!First, M!Last, M!Keys
<1>4. CASE first # NULL
  <2>1. PICK D : IsTree(node, first, heap, D)
    BY <1>2, <1>4, Standing
  <2>2. Sorted(node, heap, D) /\ first \in heap /\ D[first] = heap /\ node \in Memory
    BY <2>1, Standing DEF IsTree, Linked
  <2>3. \A z \in heap : node[z].key \in Int
    BY <1>2, LiveKeys, RBAssumption
  <2>4. ASSUME NEW s \in Sides
        PROVE  /\ Edge(node, first, s) \in heap
               /\ \A y \in heap : y # Edge(node, first, s) =>
                                    Before(s, node[Edge(node, first, s)].key, node[y].key)
    BY <2>2, EdgeIs
  <2>5. CASE GoFirst
    <3> DEFINE x == Edge(node, first, "lc")
    <3>1. x \in heap /\ \A y \in heap : node[x].key <= node[y].key
      BY <2>3, <2>4 DEF Sides, Before
    <3>2. Move(x)
      BY <1>4, <2>5 DEF GoFirst
    <3> HIDE DEF x
    <3>3. M!MoveTo(node[x].key)
      BY <1>1, <1>2, <3>1, <3>2, MoveStep
    <3> QED
      BY <1>2, <3>1, <3>3 DEF M!First, M!Keys, M!IsLeast
  <2>6. CASE GoLast
    <3> DEFINE x == Edge(node, first, "rc")
    <3>1. x \in heap /\ \A y \in heap : node[y].key <= node[x].key
      BY <2>3, <2>4 DEF Sides, Before
    <3>2. Move(x)
      BY <1>4, <2>6 DEF GoLast
    <3> HIDE DEF x
    <3>3. M!MoveTo(node[x].key)
      BY <1>1, <1>2, <3>1, <3>2, MoveStep
    <3> QED
      BY <1>2, <3>1, <3>3 DEF M!Last, M!Keys, M!IsGreatest
  <2> QED
    BY <2>5, <2>6
<1> QED
  BY <1>3, <1>4

(* tl_rbtree_next and tl_rbtree_prev. *)
LEMMA AlongStep ==
  ASSUME IInv, GoNext \/ GoPrev
  PROVE  M!Advance \/ M!Retreat
<1>1. pc = "idle" /\ entry # NULL
  BY DEF GoNext, GoPrev
<1>2. /\ DOMAIN map = {node[z].key : z \in heap} /\ Live = heap
      /\ entry \in heap /\ ekey = node[entry].key /\ ekey # NULL
  BY <1>1, Answers
<1>3. first # NULL /\ NULL \notin heap /\ node \in Memory
  BY <1>2, Standing, RBAssumption
<1>4. PICK D : IsTree(node, first, heap, D)
  BY <1>2, <1>3, Standing
<1>5. \A z \in heap : node[z].key \in Int
  BY <1>2, LiveKeys, RBAssumption
<1>6. ASSUME NEW s \in Sides PROVE NextOf(node, heap, {entry}, s, Along(entry, s))
  BY <1>2, <1>3, <1>4, AlongIs
<1>7. CASE GoNext
  <2> DEFINE x == Along(entry, "rc")
  <2>1. NextOf(node, heap, {entry}, "rc", x)
    BY <1>6 DEF Sides
  <2>2. Move(x)
    BY <1>7 DEF GoNext
  <2> HIDE DEF x
  <2>3. CASE x = NULL
    <3>1. \A z \in heap : ~(node[z].key > ekey)
      BY <1>2, <1>5, <2>1, <2>3 DEF NextOf, Before, Other
    <3>2. M!Stay
      BY <1>1, <2>2, <2>3, MoveStep
    <3> QED
      BY <1>2, <3>1, <3>2 DEF M!Advance, M!Above, M!Keys
  <2>4. CASE x # NULL
    <3>1. x \in heap /\ node[x].key > ekey
      BY <1>2, <2>1, <2>4 DEF NextOf, Before
    <3>2. \A z \in heap : node[z].key > ekey => node[x].key <= node[z].key
      BY <1>2, <1>5, <2>1, <2>4, <3>1 DEF NextOf, Before, Other
    <3>3. M!MoveTo(node[x].key)
      BY <1>1, <2>2, <2>4, MoveStep, Zenon
    <3> QED
      BY <1>2, <3>1, <3>2, <3>3 DEF M!Advance, M!Above, M!Keys, M!IsLeast
  <2> QED
    BY <2>3, <2>4
<1>8. CASE GoPrev
  <2> DEFINE x == Along(entry, "lc")
  <2>1. NextOf(node, heap, {entry}, "lc", x)
    BY <1>6 DEF Sides
  <2>2. Move(x)
    BY <1>8 DEF GoPrev
  <2> HIDE DEF x
  <2>3. CASE x = NULL
    <3>1. \A z \in heap : ~(node[z].key < ekey)
      BY <1>2, <1>5, <2>1, <2>3 DEF NextOf, Before, Other
    <3>2. M!Stay
      BY <1>1, <2>2, <2>3, MoveStep
    <3> QED
      BY <1>2, <3>1, <3>2, Zenon DEF M!Retreat, M!Below, M!Keys
  <2>4. CASE x # NULL
    <3>1. x \in heap /\ node[x].key < ekey
      BY <1>2, <2>1, <2>4, Zenon DEF NextOf, Before
    <3>2. \A z \in heap : node[z].key < ekey => node[z].key <= node[x].key
      BY <1>2, <1>5, <2>1, <2>4, <3>1 DEF NextOf, Before, Other
    <3>3. M!MoveTo(node[x].key)
      BY <1>1, <2>2, <2>4, MoveStep
    <3> QED
      BY <1>2, <3>1, <3>2, <3>3, Zenon DEF M!Retreat, M!Below, M!Keys, M!IsGreatest
  <2> QED
    BY <2>3, <2>4
<1> QED
  BY <1>7, <1>8

(* Every step of the tree is a step of the map, or is not seen. *)
LEMMA MapNext ==
  IInv /\ IInv' /\ [Next]_vars => [M!Next]_(M!mapVars)
<1> SUFFICES ASSUME IInv, IInv', [Next]_vars PROVE M!Next \/ UNCHANGED M!mapVars
  OBVIOUS
<1>1. CASE TreeInit
  BY <1>1, OpenStep DEF M!Next
<1>2. CASE Insert
  <2>1. PICK k \in Key : \/ \E v \in ValOf[k], x \in Nodes : InsertFirst(k, v, x)
                         \/ \E v \in ValOf[k], x \in Nodes : InsertLeaf(k, v, x)
                         \/ \E b_update \in BOOLEAN : InsertAgain(k, b_update)
                         \/ InsertFails(k)
    BY <1>2 DEF Insert
  <2>2. ASSUME NEW v \in ValOf[k], NEW x \in Nodes, InsertFirst(k, v, x) \/ InsertLeaf(k, v, x)
        PROVE  M!Next
    <3>1. M!Insert(k, v)
      BY <2>2, InsertFirstKeeps, InsertLeafKeeps, InsertStep, Zenon
    <3>2. v \in Val /\ pc # "none"
      BY <2>2, RBAssumption DEF InsertFirst, InsertLeaf
    <3> QED
      BY <3>1, <3>2 DEF M!Next, M!Call
  <2>3. ASSUME (\E b_update \in BOOLEAN : InsertAgain(k, b_update)) \/ InsertFails(k)
        PROVE  M!Next
    <3>1. pc # "none"
      BY <2>3 DEF InsertAgain, InsertFails
    <3>2. M!InsertAgain(k) \/ M!InsertFails \/ M!Query(k) \/ M!EraseMisses(k)
      BY <2>3, AskStep, Zenon
    <3> QED
      BY <3>1, <3>2, Zenon DEF M!Next, M!Call
  <2> QED
    BY <2>1, <2>2, <2>3
<1>3. ASSUME NEW k \in Key, Query(k) \/ EraseMisses(k) PROVE M!Next
  <2>1. pc # "none"
    BY <1>3 DEF Query, EraseMisses
  <2>2. M!InsertAgain(k) \/ M!InsertFails \/ M!Query(k) \/ M!EraseMisses(k)
    BY <1>3, AskStep
  <2> QED
    BY <2>1, <2>2 DEF M!Next, M!Call
<1>4. ASSUME NEW k \in Key, Erase(k) PROVE M!Next
  <2>1. M!Erase(k) /\ pc # "none"
    BY <1>4, EraseKeeps, EraseStep, Zenon DEF Erase
  <2> QED
    BY <2>1 DEF M!Next, M!Call
<1>5. CASE Walk
  <2>1. ASSUME NEW v \in Val, SetVal(v) PROVE M!Next
    <3>1. M!Set(v) /\ pc # "none"
      BY <2>1, SetValKeeps, SetStep DEF SetVal
    <3> QED
      BY <3>1 DEF M!Next, M!Call
  <2>2. ASSUME GoFirst \/ GoLast \/ GoNext \/ GoPrev PROVE M!Next
    <3>1. pc # "none"
      BY <2>2 DEF GoFirst, GoLast, GoNext, GoPrev
    <3>2. M!First \/ M!Last \/ M!Advance \/ M!Retreat
      BY <2>2, EndStep, AlongStep
    <3> QED
      BY <3>1, <3>2 DEF M!Next, M!Call
  <2> QED
    BY <1>5, <2>1, <2>2 DEF Walk
<1>6. CASE Adjust
  <2>1. Live' = Live /\ SameMap(node, node', Live)
    BY <1>6, IAdjustEndKeeps, IAdjustKeeps, DAdjustEndKeeps, DAdjustKeeps DEF Adjust
  <2> QED
    BY <1>6, <2>1, LoopStep
<1>7. CASE Destroy
  BY <1>7, CloseStep DEF M!Next
<1>8. CASE UNCHANGED vars
  BY <1>8 DEF vars, M!mapVars
<1> QED
  BY <1>1, <1>2, <1>3, <1>4, <1>5, <1>6, <1>7, <1>8, Zenon DEF Next, Lookup, Delete

(* The tree is a map from keys to values with an entry that walks it in order. *)
THEOREM MapImplemented == Spec => ImplementsMap
<1>1. Init => M!Init
  BY DEF Init, M!Init, M!Empty
<1>2. IInv /\ IInv' /\ [Next]_vars => [M!Next]_(M!mapVars)
  BY MapNext
<1> QED
  BY <1>1, <1>2, TreeInvariant, PTL DEF Spec, ImplementsMap, M!Spec
=============================================================================
