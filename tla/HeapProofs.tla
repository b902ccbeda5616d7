----------------------------- MODULE HeapProofs -----------------------------
(***************************************************************************)
(* The heap of tl_heap_t stays a heap, for every number of elements, every *)
(* limit and every increment, and so does the caller's array.  First what  *)
(* an iteration of hp_down and of hp_up, and the end of either, do to the  *)
(* order: SiftGood is the part of both inductive invariants that is about  *)
(* the array; it says what the hole and ele are, so that OrderedFrom is    *)
(* kept.  IInv, of tl_heap_t, adds what the growing array and its failures *)
(* leave behind: after a failed realloc hp_cnt is above hp_used, so that   *)
(* no later add can take the array for full.  ArrayInv, of tl_heap_adjust, *)
(* tl_heap_down and tl_heap_up, adds that getidx tells the truth about     *)
(* every place.  When tl_heap_adjust is given a b that its loop cannot     *)
(* meet it leaves the array, and does not return: Sane is before.          *)
(***************************************************************************)
EXTENDS Heap, HeapArray, FiniteSetTheorems, WellFoundedInduction, TLAPS

SiftTyped ==
  /\ raft \in BOOLEAN /\ key \in [Item -> Int]
  /\ used \in 0 .. Size /\ array \in [Place -> Item \cup {Junk}]

\* What is below the hole has been looked at from it; an element that has not
\* moved yet still lies in its place.
HoleGood ==
  /\ ele \in Item /\ tmp \in Place /\ idx \in Place
  /\ tmp < used \/ (used = 0 /\ tmp = 0)
  /\ pc = "down" => idx <= tmp
  /\ pc = "up" => tmp <= idx
  /\ tmp = idx => array[tmp] = ele

ElementsGood == \A i \in 0 .. used - 1 : (Sifting => i # tmp) => array[i] \in Item

SiftGood == SiftTyped /\ ElementsGood /\ (Sifting => HoleGood)

-----------------------------------------------------------------------------
(* A set of natural numbers has a least one. *)
LEMMA LeastNat ==
  ASSUME NEW T, T \subseteq Nat, T # {}
  PROVE  \E x \in T : \A y \in T : x <= y
<1> DEFINE R == OpToRel(<, Nat)
<1>1. IsWellFoundedOn(R, Nat)
  BY NatLessThanWellFounded, Zenon
<1>2. \A x, y \in Nat : <<y, x>> \in R <=> y < x
  BY DEF OpToRel
<1> HIDE DEF R
<1>3. PICK x \in T : \A y \in T : ~ (<<y, x>> \in R)
  BY <1>1, WFMin, Zenon
<1>4. \A y \in T : ~(y < x)
  BY <1>2, <1>3, Zenon
<1> HIDE <1>1, <1>2, <1>3
<1> QED
  BY <1>4

(* Beats orders the elements: what does not beat one does not beat what that
   does not beat either, and two elements never beat each other. *)
LEMMA BeatsOrders ==
  ASSUME raft \in BOOLEAN, key \in [Item -> Int],
         NEW x \in Item, NEW y \in Item, NEW z \in Item
  PROVE  /\ ~Beats(x, y) /\ ~Beats(y, z) => ~Beats(x, z)
         /\ Beats(x, y) => ~Beats(y, x)
         /\ ~Beats(x, x)
BY DEF Beats

(* The arithmetic of the array. *)
LEMMA Family ==
  ASSUME NEW i \in Nat \ {0}
  PROVE  /\ parent(i) \in Nat /\ parent(i) < i
         /\ \A t \in Nat : parent(i) = t <=> i \in {lchild(t), lchild(t) + 1}
BY DEF parent, lchild

\* The child that hp_down chooses is in the heap, and no child beats it.
LEMMA BestChildGood ==
  ASSUME SiftGood, Sifting, lchild(tmp) < used, pc = "down"
  PROVE  /\ BestChild(tmp) \in {lchild(tmp), lchild(tmp) + 1}
         /\ BestChild(tmp) < used /\ BestChild(tmp) \in Place /\ BestChild(tmp) > tmp
         /\ array[BestChild(tmp)] \in Item
         /\ \A i \in 1 .. used - 1 :
              parent(i) = tmp => array[i] \in Item /\ ~Beats(array[i], array[BestChild(tmp)])
<1> DEFINE c == lchild(tmp)
<1>1. tmp \in Nat /\ c \in Nat /\ c > tmp /\ used \in Nat /\ used <= Size
  BY SiftAssumption DEF SiftGood, SiftTyped, HoleGood, lchild, Place
<1>2. c \in 0 .. used - 1 /\ c # tmp /\ array[c] \in Item
  BY <1>1 DEF SiftGood, ElementsGood
<1>3. c < used - 1 => c + 1 \in 0 .. used - 1 /\ c + 1 # tmp /\ array[c + 1] \in Item
  BY <1>1 DEF SiftGood, ElementsGood
<1>4. \A i \in 1 .. used - 1 : parent(i) = tmp => i = c \/ (i = c + 1 /\ c < used - 1)
  BY <1>1, Family
<1>5. CASE c < used - 1 /\ Beats(array[c + 1], array[c])
  <2>1. BestChild(tmp) = c + 1
    BY <1>5 DEF BestChild
  <2>2. ~Beats(array[c], array[c + 1]) /\ ~Beats(array[c + 1], array[c + 1])
    BY <1>2, <1>3, <1>5, BeatsOrders DEF SiftGood, SiftTyped
  <2>3. \A i \in 1 .. used - 1 :
          parent(i) = tmp => array[i] \in Item /\ ~Beats(array[i], array[c + 1])
    BY <1>2, <1>3, <1>4, <1>5, <2>2
  <2>4. c + 1 < used /\ c + 1 \in Place /\ c + 1 > tmp
    BY <1>1, <1>5, SiftAssumption DEF Place
  <2> QED
    BY <1>3, <1>5, <2>1, <2>3, <2>4
<1>6. CASE ~(c < used - 1 /\ Beats(array[c + 1], array[c]))
  <2>1. BestChild(tmp) = c
    BY <1>6 DEF BestChild
  <2>2. ~Beats(array[c], array[c])
    BY <1>2, BeatsOrders DEF SiftGood, SiftTyped
  <2>3. \A i \in 1 .. used - 1 :
          parent(i) = tmp => array[i] \in Item /\ ~Beats(array[i], array[c])
    BY <1>2, <1>3, <1>4, <1>6, <2>2
  <2>4. c < used /\ c \in Place /\ c > tmp
    BY <1>1, SiftAssumption DEF Place
  <2> QED
    BY <1>2, <2>1, <2>3, <2>4
<1> QED
  BY <1>5, <1>6

-----------------------------------------------------------------------------
\* With ele in the hole, a move exchanges two elements.
Swaps(p, q) ==
  /\ Filled'[p] = Filled[q] /\ Filled'[q] = Filled[p]
  /\ \A i \in Place \ {p, q} : Filled'[i] = Filled[i]

\* An iteration of hp_down, of which c is the child that moves up to the old hole:
\* what it does to the elements.
LEMMA DownGood ==
  ASSUME SiftGood, NEW gets \in BOOLEAN, DownMoves(gets)
  PROVE  LET c == BestChild(tmp)
         IN  /\ SiftGood' /\ tmp' = c /\ c > tmp
             /\ tmp \in 0 .. used - 1 /\ c \in 0 .. used - 1 /\ Swaps(tmp, c)
             /\ Filled[tmp] = ele /\ \A i \in Place \ {tmp} : Filled[i] = array[i]
             /\ Filled'[c] = ele /\ Filled'[tmp] = array[c]
             /\ \A i \in Place \ {tmp, c} : Filled'[i] = array[i]
<1> DEFINE c == BestChild(tmp)
<1>1. Sifting /\ pc = "down" /\ lchild(tmp) < used /\ ~Beats(ele, array[c])
  BY DEF DownMoves, DownStops, Sifting
<1>2. /\ c \in {lchild(tmp), lchild(tmp) + 1} /\ c < used /\ c \in Place /\ c > tmp
      /\ array[c] \in Item
      /\ \A i \in 1 .. used - 1 :
           parent(i) = tmp => array[i] \in Item /\ ~Beats(array[i], array[c])
  BY <1>1, BestChildGood
<1>3. SiftTyped /\ ElementsGood /\ HoleGood
  BY <1>1 DEF SiftGood
<1>4. /\ array' = [array EXCEPT ![tmp] = array[c]] /\ tmp' = c
      /\ raft' = raft /\ key' = key /\ used' = used /\ pc' = pc
      /\ idx' = idx /\ ele' = ele /\ lo' = lo
  BY DEF DownMoves, MoveTo
<1>5. tmp \in Nat /\ c \in Nat /\ tmp < used /\ used \in Nat /\ idx \in Nat /\ idx <= tmp
  BY <1>1, <1>2, <1>3, SiftAssumption DEF SiftTyped, HoleGood, Place
<1> HIDE DEF c
<1>6. SiftTyped'
  BY <1>2, <1>3, <1>4 DEF SiftTyped
<1>7. ElementsGood'
  BY <1>1, <1>2, <1>3, <1>4, <1>5 DEF ElementsGood, SiftTyped, HoleGood, Sifting
<1>8. HoleGood'
  BY <1>1, <1>2, <1>3, <1>4, <1>5 DEF HoleGood
<1>9. SiftGood'
  BY <1>6, <1>7, <1>8 DEF SiftGood
\* Filled before and after.
<1>10. /\ Filled[tmp] = ele /\ \A i \in Place \ {tmp} : Filled[i] = array[i]
       /\ Filled'[c] = ele /\ Filled'[tmp] = array[c]
       /\ \A i \in Place \ {tmp, c} : Filled'[i] = array[i]
  BY <1>1, <1>2, <1>3, <1>4, <1>5 DEF Filled, Sifting, SiftTyped, HoleGood
<1>11. Swaps(tmp, c) /\ tmp \in 0 .. used - 1 /\ c \in 0 .. used - 1
  <2>1. c # tmp /\ Filled[c] = array[c]
    BY <1>2, <1>5, <1>10
  <2>2. Swaps(tmp, c)
    BY <1>10, <2>1 DEF Swaps
  <2>3. tmp \in 0 .. used - 1 /\ c \in 0 .. used - 1
    BY <1>2, <1>5
  <2> QED
    BY <2>2, <2>3
<1> QED
  BY <1>2, <1>4, <1>9, <1>10, <1>11 DEF c

\* What it does to their order.
LEMMA DownKeeps ==
  ASSUME SiftGood, lo \in Nat, lo <= tmp, OrderedFrom(lo),
         NEW gets \in BOOLEAN, DownMoves(gets)
  PROVE  /\ SiftGood' /\ OrderedFrom(lo)' /\ lo' <= tmp'
         /\ \E p, q \in 0 .. used - 1 : Swaps(p, q)
<1> DEFINE c == BestChild(tmp)
<1>1. Sifting /\ pc = "down" /\ lchild(tmp) < used /\ ~Beats(ele, array[c])
  BY DEF DownMoves, DownStops, Sifting
<1>2. /\ c \in {lchild(tmp), lchild(tmp) + 1} /\ c < used /\ c \in Place /\ c > tmp
      /\ array[c] \in Item
      /\ \A i \in 1 .. used - 1 :
           parent(i) = tmp => array[i] \in Item /\ ~Beats(array[i], array[c])
  BY <1>1, BestChildGood
<1>3. SiftTyped /\ ElementsGood /\ HoleGood
  BY <1>1 DEF SiftGood
<1>4. /\ array' = [array EXCEPT ![tmp] = array[c]] /\ tmp' = c
      /\ raft' = raft /\ key' = key /\ used' = used /\ pc' = pc
      /\ idx' = idx /\ ele' = ele /\ lo' = lo
  BY DEF DownMoves, MoveTo
<1>5. tmp \in Nat /\ c \in Nat /\ tmp < used /\ used \in Nat /\ idx \in Nat /\ idx <= tmp
  BY <1>1, <1>2, <1>3, SiftAssumption DEF SiftTyped, HoleGood, Place
<1> HIDE DEF c
<1>9. /\ SiftGood' /\ tmp \in 0 .. used - 1 /\ c \in 0 .. used - 1 /\ Swaps(tmp, c)
      /\ Filled[tmp] = ele /\ \A i \in Place \ {tmp} : Filled[i] = array[i]
      /\ Filled'[c] = ele /\ Filled'[tmp] = array[c]
      /\ \A i \in Place \ {tmp, c} : Filled'[i] = array[i]
  BY DownGood DEF c
<1>10. /\ Filled[tmp] = ele /\ \A i \in Place \ {tmp} : Filled[i] = array[i]
       /\ Filled'[c] = ele /\ Filled'[tmp] = array[c]
       /\ \A i \in Place \ {tmp, c} : Filled'[i] = array[i]
  BY <1>9
<1>11. ASSUME \A i \in 1 .. used - 1 :
                /\ parent(i) >= lo /\ parent(i) # c
                     => ~Beats(Filled'[i], Filled'[parent(i)])
                /\ parent(i) = c /\ parent(c) >= lo
                     => ~Beats(Filled'[i], Filled'[parent(c)])
       PROVE  OrderedFrom(lo)'
  BY <1>1, <1>4, <1>11 DEF OrderedFrom, Settled, Beats, Sifting
<1>12. \A i \in 1 .. used - 1 :
         /\ parent(i) >= lo /\ parent(i) # tmp => ~Beats(Filled[i], Filled[parent(i)])
         /\ parent(i) = tmp /\ tmp # 0 /\ parent(tmp) >= lo
              => ~Beats(Filled[i], Filled[parent(tmp)])
  BY <1>1 DEF OrderedFrom, Settled
<1>13. ASSUME NEW i \in 1 .. used - 1
       PROVE  /\ parent(i) >= lo /\ parent(i) # c
                   => ~Beats(Filled'[i], Filled'[parent(i)])
              /\ parent(i) = c /\ parent(c) >= lo
                   => ~Beats(Filled'[i], Filled'[parent(c)])
  <2>1. i \in Place /\ parent(i) \in Place /\ parent(i) < i /\ parent(c) = tmp
        /\ i \in 1 .. used - 1 /\ c \in 1 .. used - 1
    BY <1>2, <1>3, <1>5, Family, SiftAssumption DEF SiftTyped, Place
  <2>2. CASE i = c
    BY <1>1, <1>10, <2>1, <2>2
  <2>3. CASE i = tmp
    <3>1. tmp # 0 /\ parent(tmp) < tmp /\ parent(tmp) \in Place \ {tmp, c} /\ c # tmp /\ c \in Place
      BY <1>5, <1>2, <2>1, <2>3
    <3>2. parent(tmp) >= lo => ~Beats(Filled[c], Filled[parent(tmp)])
      BY <1>12, <2>1, <3>1
    <3>3. Filled[c] = array[c] /\ Filled[parent(tmp)] = Filled'[parent(tmp)]
      BY <1>10, <3>1
    <3>4. Filled'[i] = array[c]
      BY <1>10, <2>3
    <3> QED
      BY <1>5, <2>1, <2>3, <3>1, <3>2, <3>3, <3>4
  <2>4. CASE parent(i) = tmp /\ i # c
    BY <1>2, <1>5, <1>10, <2>1, <2>4
  <2>5. CASE parent(i) = c
    <3>1. i \in Place \ {tmp, c} /\ c # tmp /\ c \in Place /\ c >= lo
      BY <1>5, <1>2, <2>1, <2>5
    <3>2. ~Beats(Filled[i], Filled[c])
      BY <1>12, <2>1, <2>5, <3>1
    <3>3. Filled[i] = Filled'[i] /\ Filled[c] = Filled'[tmp]
      BY <1>10, <3>1
    <3> QED
      BY <2>1, <2>5, <3>2, <3>3
  <2>6. CASE i \notin {tmp, c} /\ parent(i) \notin {tmp, c}
    BY <1>5, <1>10, <1>12, <2>1, <2>6
  <2> QED
    BY <2>2, <2>3, <2>4, <2>5, <2>6
<1>14. OrderedFrom(lo)'
  BY <1>11, <1>13
<1> QED
  BY <1>2, <1>4, <1>5, <1>9, <1>14

\* An iteration of hp_up, in which the element above comes down from p.
LEMMA UpGood ==
  ASSUME SiftGood, NEW gets \in BOOLEAN, UpMoves(gets)
  PROVE  LET p == parent(tmp)
         IN  /\ SiftGood' /\ tmp' = p /\ p < tmp
             /\ tmp \in 0 .. used - 1 /\ p \in 0 .. used - 1 /\ Swaps(tmp, p)
             /\ Filled[tmp] = ele /\ \A i \in Place \ {tmp} : Filled[i] = array[i]
             /\ Filled'[p] = ele /\ Filled'[tmp] = array[p]
             /\ \A i \in Place \ {tmp, p} : Filled'[i] = array[i]
<1> DEFINE p == parent(tmp)
<1>1. Sifting /\ pc = "up" /\ tmp # 0 /\ ~Beats(array[p], ele)
  BY DEF UpMoves, UpStops, Sifting
<1>2. SiftTyped /\ ElementsGood /\ HoleGood
  BY <1>1 DEF SiftGood
<1>3. tmp \in Nat /\ tmp \in Place /\ used \in Nat /\ idx \in Nat /\ tmp <= idx /\ tmp < used
  BY <1>1, <1>2, SiftAssumption DEF SiftTyped, HoleGood, Place
<1>4. p \in Nat /\ p < tmp /\ p \in Place /\ p < used /\ array[p] \in Item
  <2>1. p \in Nat /\ p < tmp
    BY <1>1, <1>3, Family
  <2>2. array[p] \in Item
    BY <1>1, <1>2, <1>3, <2>1 DEF ElementsGood
  <2> QED
    BY <1>3, <2>1, <2>2, SiftAssumption DEF Place
<1>5. /\ array' = [array EXCEPT ![tmp] = array[p]] /\ tmp' = p
      /\ raft' = raft /\ key' = key /\ used' = used /\ pc' = pc
      /\ idx' = idx /\ ele' = ele
  BY DEF UpMoves, MoveTo
<1> HIDE DEF p
<1>6. SiftTyped'
  BY <1>2, <1>4, <1>5 DEF SiftTyped
<1>7. ElementsGood'
  BY <1>1, <1>2, <1>3, <1>4, <1>5 DEF ElementsGood, SiftTyped, HoleGood, Sifting
<1>8. HoleGood'
  BY <1>1, <1>2, <1>3, <1>4, <1>5 DEF HoleGood
<1>9. SiftGood'
  BY <1>6, <1>7, <1>8 DEF SiftGood
<1>10. /\ Filled[tmp] = ele /\ \A i \in Place \ {tmp} : Filled[i] = array[i]
       /\ Filled'[p] = ele /\ Filled'[tmp] = array[p]
       /\ \A i \in Place \ {tmp, p} : Filled'[i] = array[i]
  BY <1>1, <1>2, <1>3, <1>4, <1>5 DEF Filled, Sifting, SiftTyped, HoleGood
<1>11. Swaps(tmp, p) /\ tmp \in 0 .. used - 1 /\ p \in 0 .. used - 1
  <2>1. p # tmp /\ Filled[p] = array[p]
    BY <1>4, <1>3, <1>10
  <2>2. Swaps(tmp, p)
    BY <1>10, <2>1 DEF Swaps
  <2>3. tmp \in 0 .. used - 1 /\ p \in 0 .. used - 1
    BY <1>3, <1>4
  <2> QED
    BY <2>2, <2>3
<1> QED
  BY <1>4, <1>5, <1>9, <1>10, <1>11 DEF p

\* What it does to their order.
LEMMA UpKeeps ==
  ASSUME SiftGood, OrderedFrom(0), NEW gets \in BOOLEAN, UpMoves(gets)
  PROVE  /\ SiftGood' /\ OrderedFrom(0)'
         /\ \E i, j \in 0 .. used - 1 : Swaps(i, j)
<1> DEFINE p == parent(tmp)
<1>1. Sifting /\ pc = "up" /\ tmp # 0 /\ ~Beats(array[p], ele)
  BY DEF UpMoves, UpStops, Sifting
<1>2. SiftTyped /\ ElementsGood /\ HoleGood
  BY <1>1 DEF SiftGood
<1>3. tmp \in Nat /\ tmp \in Place /\ used \in Nat /\ idx \in Nat /\ tmp <= idx /\ tmp < used
  BY <1>1, <1>2, SiftAssumption DEF SiftTyped, HoleGood, Place
<1>4. p \in Nat /\ p < tmp /\ p \in Place /\ p < used /\ array[p] \in Item
  <2>1. p \in Nat /\ p < tmp
    BY <1>1, <1>3, Family
  <2>2. array[p] \in Item
    BY <1>1, <1>2, <1>3, <2>1 DEF ElementsGood
  <2> QED
    BY <1>3, <2>1, <2>2, SiftAssumption DEF Place
<1>5. /\ array' = [array EXCEPT ![tmp] = array[p]] /\ tmp' = p
      /\ raft' = raft /\ key' = key /\ used' = used /\ pc' = pc
      /\ idx' = idx /\ ele' = ele
  BY DEF UpMoves, MoveTo
<1> HIDE DEF p
<1>9. /\ SiftGood' /\ tmp \in 0 .. used - 1 /\ p \in 0 .. used - 1 /\ Swaps(tmp, p)
      /\ Filled[tmp] = ele /\ \A i \in Place \ {tmp} : Filled[i] = array[i]
      /\ Filled'[p] = ele /\ Filled'[tmp] = array[p]
      /\ \A i \in Place \ {tmp, p} : Filled'[i] = array[i]
  BY UpGood DEF p
<1>10. /\ Filled[tmp] = ele /\ \A i \in Place \ {tmp} : Filled[i] = array[i]
       /\ Filled'[p] = ele /\ Filled'[tmp] = array[p]
       /\ \A i \in Place \ {tmp, p} : Filled'[i] = array[i]
  BY <1>9
<1>11. ASSUME \A i \in 1 .. used - 1 :
                /\ i # p => ~Beats(Filled'[i], Filled'[parent(i)])
                /\ parent(i) = p /\ p # 0 => ~Beats(Filled'[i], Filled'[parent(p)])
       PROVE  OrderedFrom(0)'
  BY <1>1, <1>5, <1>11 DEF OrderedFrom, Settled, Beats, Sifting
<1>12. \A i \in 1 .. used - 1 :
         /\ i # tmp => ~Beats(Filled[i], Filled[parent(i)])
         /\ parent(i) = tmp => ~Beats(Filled[i], Filled[p])
  <2>1. \A i \in 1 .. used - 1 : parent(i) \in Nat
    BY <1>3, Family
  <2> QED
    BY <1>1, <1>3, <1>4, <2>1 DEF OrderedFrom, Settled, p
<1>13. ASSUME NEW i \in 1 .. used - 1
       PROVE  /\ i # p => ~Beats(Filled'[i], Filled'[parent(i)])
              /\ parent(i) = p /\ p # 0 => ~Beats(Filled'[i], Filled'[parent(p)])
  <2>1. i \in Place /\ parent(i) \in Place /\ parent(i) < i /\ parent(tmp) = p
    BY <1>2, <1>3, Family, SiftAssumption DEF SiftTyped, Place, p
  <2>2. i # tmp => array[i] \in Item
    BY <1>2, <1>3 DEF ElementsGood
  <2>3. p # 0 => parent(p) \in Place \ {tmp, p} /\ array[parent(p)] \in Item
                 /\ ~Beats(array[p], array[parent(p)])
    <3> SUFFICES ASSUME p # 0
                 PROVE  parent(p) \in Place \ {tmp, p} /\ array[parent(p)] \in Item
                        /\ ~Beats(array[p], array[parent(p)])
      OBVIOUS
    <3>1. parent(p) \in Nat /\ parent(p) < p
      BY <1>4, Family
    <3>2. parent(p) \in Place \ {tmp, p} /\ array[parent(p)] \in Item
      BY <1>2, <1>3, <1>4, <3>1, SiftAssumption DEF ElementsGood, Place
    <3>3. ~Beats(Filled[p], Filled[parent(p)])
      BY <1>3, <1>4, <1>12
    <3> QED
      BY <1>4, <1>10, <3>2, <3>3
  <2>4. CASE i = tmp
    <3>1. Filled'[i] = array[p] /\ Filled'[p] = ele
      BY <1>10, <2>4
    <3>2. p # 0 => Filled'[parent(p)] = array[parent(p)]
      BY <1>10, <2>3
    <3> QED
      BY <1>1, <2>1, <2>3, <2>4, <3>1, <3>2
  <2>5. CASE parent(i) = tmp
    <3>1. i \in Place \ {tmp, p}
      BY <1>3, <1>4, <2>1, <2>5
    <3>2. Filled'[i] = Filled[i] /\ Filled'[tmp] = Filled[p]
      BY <1>4, <1>10, <3>1
    <3> QED
      BY <1>4, <1>12, <2>5, <3>2
  <2>6. CASE parent(i) = p /\ i # tmp
    <3>1. i \in Place \ {tmp, p}
      BY <1>4, <2>1, <2>6
    <3>2. Filled'[i] = array[i] /\ Filled[i] = array[i] /\ Filled[p] = array[p] /\ Filled'[p] = ele
      BY <1>4, <1>10, <3>1
    <3>3. ~Beats(array[i], array[p])
      BY <1>12, <2>6, <3>2
    <3>4. ~Beats(array[i], ele)
      BY <1>1, <1>2, <1>4, <2>2, <2>6, <3>3, BeatsOrders DEF SiftTyped, HoleGood
    <3>5. p # 0 => ~Beats(array[i], array[parent(p)]) /\ Filled'[parent(p)] = array[parent(p)]
      BY <1>2, <1>4, <1>10, <2>2, <2>3, <2>6, <3>3, BeatsOrders DEF SiftTyped
    <3> QED
      BY <2>6, <3>2, <3>4, <3>5
  <2>7. CASE i # tmp /\ parent(i) \notin {tmp, p}
    <3>1. i # p => i \in Place \ {tmp, p} /\ parent(i) \in Place \ {tmp, p}
      BY <2>1, <2>7
    <3>2. i # p => Filled'[i] = Filled[i] /\ Filled'[parent(i)] = Filled[parent(i)]
      BY <1>10, <3>1
    <3> QED
      BY <1>12, <2>7, <3>2
  <2> QED
    BY <2>4, <2>5, <2>6, <2>7
<1>14. OrderedFrom(0)'
  BY <1>11, <1>13
<1> QED
  BY <1>9, <1>14

\* The end of either: what is put back in the hole is an element of the array.
LEMMA EndGood ==
  ASSUME SiftGood, NEW gets \in BOOLEAN, SiftEnds(gets)
  PROVE  /\ array' = Filled /\ Filled \in [Place -> Item \cup {Junk}]
         /\ Filled[tmp] = ele /\ \A i \in Place \ {tmp} : Filled[i] = array[i]
         /\ \A i \in 0 .. used - 1 : i \in Place /\ Filled[i] \in Item
<1>1. Sifting /\ SiftTyped /\ ElementsGood /\ HoleGood
  BY DEF SiftEnds, Stops, SiftGood
<1>2. array' = Filled
  BY <1>1 DEF SiftEnds, PutBack, MoveTo, Filled, HoleGood, SiftTyped
<1>3. \A i \in Place : Filled[i] = IF i = tmp THEN ele ELSE array[i]
  BY <1>1 DEF Filled, SiftTyped
<1>4. tmp \in Nat /\ used \in Nat /\ used <= Size
  BY <1>1, SiftAssumption DEF HoleGood, Place, SiftTyped
<1>5. \A i \in 0 .. used - 1 : i \in Place /\ Filled[i] \in Item
  <2>1. \A i \in 0 .. used - 1 : i \in Place
    BY <1>4, SiftAssumption DEF Place
  <2> QED
    BY <1>1, <1>3, <2>1 DEF ElementsGood, HoleGood
<1>6. Filled \in [Place -> Item \cup {Junk}] /\ Filled[tmp] = ele
  BY <1>1, <1>3 DEF Filled, HoleGood, SiftTyped
<1> QED
  BY <1>2, <1>3, <1>5, <1>6

\* ele fits in the hole.
LEMMA EndSettles ==
  ASSUME SiftGood, NEW n \in Nat, OrderedFrom(n), Stops
  PROVE  \A i \in 1 .. used - 1 : parent(i) >= n => Settled(i)
<1>1. Sifting /\ SiftTyped /\ ElementsGood /\ HoleGood
  BY DEF Stops, SiftGood
<1>3. \A i \in Place : Filled[i] = IF i = tmp THEN ele ELSE array[i]
  BY <1>1 DEF Filled, SiftTyped
<1>4. tmp \in Nat /\ used \in Nat /\ used <= Size
  BY <1>1, SiftAssumption DEF HoleGood, Place, SiftTyped
<1>5. \A i \in 0 .. used - 1 : i \in Place /\ Filled[i] \in Item
  <2>1. \A i \in 0 .. used - 1 : i \in Place
    BY <1>4, SiftAssumption DEF Place
  <2> QED
    BY <1>1, <1>3, <2>1 DEF ElementsGood, HoleGood
<1>8. ASSUME NEW i \in 1 .. used - 1, parent(i) >= n
      PROVE  Settled(i)
  <2>1. parent(i) \in Nat /\ parent(i) < i /\ parent(i) \in 0 .. used - 1 /\ i \in 0 .. used - 1
    BY <1>4, Family
  <2>2. CASE pc = "down" /\ parent(i) = tmp
    <3>1. lchild(tmp) < used
      BY <1>4, <2>1, <2>2, Family DEF lchild
    <3>2. Beats(ele, array[BestChild(tmp)])
      BY <2>2, <3>1 DEF Stops, DownStops
    <3>3. array[BestChild(tmp)] \in Item /\ array[i] \in Item /\ ~Beats(array[i], array[BestChild(tmp)])
      BY <1>1, <2>2, <3>1, BestChildGood
    <3>4. ~Beats(array[i], ele)
      BY <1>1, <3>2, <3>3, BeatsOrders DEF HoleGood, SiftTyped, Beats
    <3> QED
      BY <1>3, <1>4, <1>5, <2>1, <2>2, <3>4 DEF Settled
  <2>3. CASE pc = "up" /\ i = tmp
    <3>1. Beats(array[parent(i)], ele)
      BY <2>3 DEF Stops, UpStops
    <3>2. array[parent(i)] \in Item
      BY <1>1, <2>1, <2>3 DEF ElementsGood
    <3>3. ~Beats(ele, array[parent(i)])
      BY <1>1, <3>1, <3>2, BeatsOrders DEF HoleGood, SiftTyped
    <3> QED
      BY <1>3, <1>5, <2>1, <2>3, <3>3 DEF Settled
  <2>4. CASE ~(pc = "down" /\ parent(i) = tmp) /\ ~(pc = "up" /\ i = tmp)
    BY <1>8, <2>4 DEF OrderedFrom
  <2> QED
    BY <2>2, <2>3, <2>4
<1> QED
  BY <1>8

\* The function returns.
LEMMA EndKeeps ==
  ASSUME SiftGood, NEW n \in Nat, OrderedFrom(n),
         NEW gets \in BOOLEAN, SiftEnds(gets), pc' \notin {"down", "up"}
  PROVE  SiftGood' /\ OrderedFrom(n)' /\ array' = Filled /\ Filled' = Filled
<1>1. Sifting /\ ~Sifting' /\ SiftTyped
  BY DEF SiftEnds, Stops, Sifting, SiftGood
<1>2. /\ array' = Filled /\ Filled' = Filled /\ raft' = raft /\ key' = key /\ used' = used
      /\ Filled \in [Place -> Item \cup {Junk}]
      /\ \A i \in 0 .. used - 1 : Filled[i] \in Item
  BY <1>1, EndGood DEF SiftEnds, Filled
<1>3. SiftGood'
  BY <1>1, <1>2 DEF SiftGood, SiftTyped, ElementsGood
<1>4. \A i \in 1 .. used - 1 : parent(i) >= n => ~Beats(Filled[i], Filled[parent(i)])
  BY EndSettles DEF SiftEnds, Settled
<1>5. OrderedFrom(n)'
  BY <1>1, <1>2, <1>4 DEF OrderedFrom, Settled, Beats, Sifting
<1> QED
  BY <1>2, <1>3, <1>5

-----------------------------------------------------------------------------
\* No element is in the array twice.
Distinct == \A i, j \in 0 .. used - 1 : Filled[i] = Filled[j] => i = j

\* An exchange of two elements loses none.
LEMMA SwapKeepsAll ==
  ASSUME used \in 0 .. Size, used' = used,
         NEW p \in 0 .. used - 1, NEW q \in 0 .. used - 1, Swaps(p, q)
  PROVE  Contents' = Contents /\ (Distinct => Distinct')
<1> DEFINE S == 0 .. used - 1
<1>1. S \subseteq Place
  BY SiftAssumption DEF Place
<1>2. /\ Filled'[p] = Filled[q] /\ Filled'[q] = Filled[p]
      /\ \A i \in S \ {p, q} : Filled'[i] = Filled[i]
  BY <1>1 DEF Swaps
<1>3. Contents' = {Filled'[i] : i \in S}
  BY DEF Contents
<1>4. \A i \in S : \E j \in S : Filled'[i] = Filled[j]
  BY <1>2
<1>5. \A i \in S : \E j \in S : Filled[i] = Filled'[j]
  BY <1>2
<1>6. Contents' = Contents
  <2>1. Contents = {Filled[i] : i \in S}
    BY DEF Contents
  <2> HIDE DEF S
  <2>2. Contents' \subseteq Contents
    BY <1>3, <1>4, <2>1, Zenon
  <2>3. Contents \subseteq Contents'
    BY <1>3, <1>5, <2>1, Zenon
  <2> QED
    BY <2>2, <2>3
<1>7. Distinct' <=> \A i, j \in S : Filled'[i] = Filled'[j] => i = j
  BY DEF Distinct
<1>8. ASSUME Distinct, NEW i \in S, NEW j \in S, Filled'[i] = Filled'[j] PROVE i = j
  <2> DEFINE m(k) == IF k = p THEN q ELSE IF k = q THEN p ELSE k
  <2>1. \A k \in S : m(k) \in S /\ Filled'[k] = Filled[m(k)]
    BY <1>2
  <2>2. Filled[m(i)] = Filled[m(j)]
    BY <1>8, <2>1
  <2>3. m(i) = m(j)
    BY <1>8, <2>1, <2>2 DEF Distinct
  <2> QED
    BY <2>3
<1> QED
  BY <1>6, <1>7, <1>8

\* The elements, when neither the array nor their number changes.
LEMMA SameAll ==
  ASSUME UNCHANGED <<array, used>>, ~Sifting, ~Sifting'
  PROVE  Contents' = Contents /\ (Distinct => Distinct')
BY DEF Contents, Distinct, Filled

-----------------------------------------------------------------------------
\* An array that is a heap, between the calls.
Settles == ~Sifting /\ SiftGood /\ OrderedFrom(0)

\* What that says of the elements and of those above them.
LEMMA SettledOrder ==
  ASSUME Settles
  PROVE  /\ used \in Nat /\ used <= Size /\ Size \in Nat
         /\ \A i \in 0 .. used - 1 : i \in Place /\ array[i] \in Item
         /\ \A i \in 1 .. used - 1 : /\ parent(i) \in 0 .. used - 1 /\ parent(i) < i
                                   /\ ~Beats(array[i], array[parent(i)])
<1>1. used \in Nat /\ used <= Size /\ Size \in Nat
  BY SiftAssumption DEF Settles, SiftGood, SiftTyped
<1>2. \A i \in 0 .. used - 1 : i \in Place /\ array[i] \in Item
  BY <1>1 DEF Settles, SiftGood, ElementsGood, Place
<1>3. \A i \in 1 .. used - 1 : parent(i) \in 0 .. used - 1 /\ parent(i) < i /\ parent(i) >= 0
  BY <1>1, Family
<1>4. \A i \in 1 .. used - 1 : ~Beats(array[i], array[parent(i)])
  BY <1>3 DEF Settles, OrderedFrom, Settled, Filled, Sifting
<1> QED
  BY <1>1, <1>2, <1>3, <1>4

(* The element on top is beaten by none: one that beat it, of the smallest
   index, would beat the one above it too. *)
LEMMA TopBest ==
  ASSUME Settles, used > 0
  PROVE  \A i \in 0 .. used - 1 : ~Beats(array[i], array[0])
<1> DEFINE T == {i \in 0 .. used - 1 : Beats(array[i], array[0])}
<1>1. SUFFICES ASSUME T # {} PROVE FALSE
  OBVIOUS
<1>2. PICK i \in T : \A j \in T : i <= j
  <2>1. T \subseteq Nat
    BY SettledOrder
  <2> HIDE DEF T
  <2> QED
    BY <1>1, <2>1, LeastNat
<1>3. i \in 0 .. used - 1 /\ 0 \in 0 .. used - 1 /\ Beats(array[i], array[0])
      /\ array[0] \in Item /\ array[i] \in Item /\ used \in Nat
  BY SettledOrder
<1>4. i # 0
  BY <1>3, BeatsOrders DEF Settles, SiftGood, SiftTyped
<1>5. parent(i) \in 0 .. used - 1 /\ parent(i) < i /\ ~Beats(array[i], array[parent(i)])
      /\ array[parent(i)] \in Item
  BY <1>3, <1>4, SettledOrder
<1>6. ~Beats(array[parent(i)], array[0])
  BY <1>2, <1>3, <1>5
<1> QED
  BY <1>3, <1>5, <1>6, BeatsOrders DEF Settles, SiftGood, SiftTyped

\* An element x is put behind the others and starts up.
LEMMA AppendStarts ==
  ASSUME Settles, used < Size, NEW x \in Item,
         StartAt("up", [array EXCEPT ![used] = x], used + 1, used),
         raft' = raft, key' = key
  PROVE  SiftGood' /\ OrderedFrom(0)'
<1>1. /\ array' = [array EXCEPT ![used] = x] /\ used' = used + 1 /\ pc' = "up"
      /\ idx' = used /\ tmp' = used /\ Sifting'
  BY DEF StartAt, Sifting
<1>2. used \in Place /\ used \in Nat /\ Size \in Nat /\ SiftTyped
  BY SettledOrder DEF Place, Settles, SiftGood
<1>3. array'[used] = x /\ ele' = x /\ Filled' = array'
      /\ \A i \in Place \ {used} : array'[i] = array[i]
  BY <1>1, <1>2 DEF StartAt, SiftTyped, Filled
<1>4. SiftTyped'
  BY <1>1, <1>2 DEF SiftTyped
<1>5. ElementsGood' /\ HoleGood'
  BY <1>1, <1>2, <1>3, SettledOrder DEF ElementsGood, HoleGood
<1>6. \A i \in 1 .. used - 1 : i \in Place \ {used} /\ parent(i) \in Place \ {used}
  BY <1>2, SettledOrder
<1>7. \A i \in 1 .. used - 1 : ~Beats(array'[i], array'[parent(i)])
  BY <1>3, <1>6, SettledOrder
<1>8. \A i \in 1 .. used : parent(i) # used
  BY <1>2, Family
<1>9. OrderedFrom(0)'
  BY <1>1, <1>2, <1>3, <1>7, <1>8 DEF OrderedFrom, Settled, Beats
<1> QED
  BY <1>1, <1>4, <1>5, <1>9 DEF SiftGood

\* The first n elements stay and x, taken for the one on top, starts down.
LEMMA ReplaceStarts ==
  ASSUME Settles, NEW n \in 0 .. used, used > 0, NEW x \in Item,
         StartAt("down", [array EXCEPT ![0] = x], n, 0),
         raft' = raft, key' = key
  PROVE  SiftGood' /\ OrderedFrom(0)'
<1>1. /\ array' = [array EXCEPT ![0] = x] /\ used' = n /\ pc' = "down"
      /\ idx' = 0 /\ tmp' = 0 /\ Sifting'
  BY DEF StartAt, Sifting
<1>2. 0 \in Place /\ n \in Nat /\ used \in Nat /\ n <= Size /\ Size \in Nat /\ SiftTyped
  BY SettledOrder, SiftAssumption DEF Place, Settles, SiftGood
<1>3. array'[0] = x /\ ele' = x /\ Filled' = array'
      /\ \A i \in Place \ {0} : array'[i] = array[i]
  BY <1>1, <1>2 DEF StartAt, SiftTyped, Filled
<1>4. SiftTyped'
  BY <1>1, <1>2 DEF SiftTyped
<1>5. ElementsGood' /\ HoleGood'
  BY <1>1, <1>2, <1>3, SettledOrder DEF ElementsGood, HoleGood
<1>6. \A i \in 1 .. n - 1 : parent(i) # 0 => ~Beats(array'[i], array'[parent(i)])
  <2> SUFFICES ASSUME NEW i \in 1 .. n - 1, parent(i) # 0
               PROVE  ~Beats(array'[i], array'[parent(i)])
    OBVIOUS
  <2>1. i \in 1 .. used - 1 /\ i \in Place \ {0} /\ parent(i) \in Place \ {0}
    BY <1>2, SettledOrder
  <2> QED
    BY <1>3, <2>1, SettledOrder
<1>7. OrderedFrom(0)'
  BY <1>1, <1>2, <1>3, <1>6 DEF OrderedFrom, Settled, Beats
<1> QED
  BY <1>1, <1>4, <1>5, <1>7 DEF SiftGood

-----------------------------------------------------------------------------
(* tl_heap_t. *)

IInv ==
  /\ SiftTyped /\ lo = 0
  /\ pc \in {"none", "idle", "crashed", "up", "down"}
  /\ cont \in BOOLEAN /\ cnt \in 0 .. Size /\ used \in 0 .. cnt
  /\ pc = "none" => cnt = 0 /\ ~cont
  /\ Sifting => cont
  /\ ~cont => used < cnt \/ used = 0
  /\ cont \/ used = 0 => SiftGood /\ OrderedFrom(0)

\* tl_heap_init leaves an array of no elements.
LEMMA InitIInv == Init => IInv
<1> SUFFICES ASSUME Init PROVE IInv
  OBVIOUS
<1>1. ~Sifting /\ used = 0
  BY DEF Init, Sifting
<1>2. SiftTyped
  <2>1. key \in [Item -> Int]
    BY SiftAssumption DEF Init
  <2>2. array \in [Place -> Item \cup {Junk}]
    BY DEF Init, Unwritten
  <2>3. used \in 0 .. Size
    BY <1>1, SiftAssumption
  <2>4. raft \in BOOLEAN
    BY DEF Init
  <2> QED
    BY <2>1, <2>2, <2>3, <2>4 DEF SiftTyped
<1>3. SiftGood /\ OrderedFrom(0)
  BY <1>1, <1>2 DEF SiftGood, ElementsGood, OrderedFrom
<1> QED
  <2>1. lo = 0 /\ pc = "none" /\ ~cont /\ cont \in BOOLEAN /\ cnt = 0
    BY DEF Init
  <2>2. cnt \in 0 .. Size /\ used \in 0 .. cnt
    BY <1>1, <2>1, SiftAssumption
  <2> QED
    BY <1>1, <1>2, <1>3, <2>1, <2>2 DEF IInv

\* The array, when neither it nor what is compared changes.
LEMMA Same ==
  ASSUME UNCHANGED <<raft, key, array, used>>, ~Sifting, ~Sifting'
  PROVE  /\ SiftTyped => SiftTyped'
         /\ SiftGood => SiftGood'
         /\ OrderedFrom(0) => OrderedFrom(0)'
<1>1. SiftTyped => SiftTyped'
  BY DEF SiftTyped
<1>2. SiftGood => SiftGood'
  BY <1>1 DEF SiftGood, ElementsGood
<1>3. OrderedFrom(0) => OrderedFrom(0)'
  BY DEF OrderedFrom, Settled, Filled, Beats, Sifting
<1> QED
  BY <1>1, <1>2, <1>3

\* An array of no elements, whatever it holds.
LEMMA NoElements ==
  ASSUME SiftTyped, ~Sifting, used = 0
  PROVE  SiftGood /\ OrderedFrom(0)
BY DEF SiftGood, ElementsGood, OrderedFrom

\* Every step of every call keeps the invariant.
LEMMA NextIInv == IInv /\ [Next]_vars => IInv'
<1> SUFFICES ASSUME IInv, [Next]_vars PROVE IInv'
  OBVIOUS
<1> USE SiftAssumption, HeapAssumption
<1>0. Size \in Nat /\ cnt \in Nat /\ used \in Nat /\ Inc \in Nat
  BY DEF IInv
<1>1. CASE HeapInit
  <2>1. ~Sifting /\ ~Sifting' /\ UNCHANGED <<raft, key, array, used, cnt, cont, lo>> /\ pc' = "idle"
    BY <1>1 DEF HeapInit, Fixed, Quiet, Sifting
  <2> QED
    BY <2>1, Same DEF IInv
<1>2. CASE \E x \in Item : AddRoom(x)
  <2>1. PICK x \in Item : AddRoom(x)
    BY <1>2
  <2>2. CASE cont
    <3>1. Append(x) /\ UNCHANGED <<raft, key, cnt, cont, lo>> /\ pc = "idle" /\ used # cnt
      BY <2>1, <2>2 DEF AddRoom, Fixed
    <3>2. Settles /\ used < Size
      BY <1>0, <2>2, <3>1 DEF IInv, Settles, Sifting
    <3>3. SiftGood' /\ OrderedFrom(0)' /\ pc' = "up" /\ used' = used + 1
      BY <3>1, <3>2, AppendStarts DEF Append, StartAt
    <3> QED
      BY <1>0, <2>2, <3>1, <3>3 DEF IInv, SiftGood
  <2>3. CASE ~cont
    <3>1. pc' = "crashed" /\ UNCHANGED <<raft, key, array, used, cnt, cont, lo>> /\ ~Sifting /\ ~Sifting'
      BY <2>1, <2>3 DEF AddRoom, Crash, Quiet, Fixed, Sifting
    <3> QED
      BY <3>1, Same DEF IInv
  <2> QED
    BY <2>2, <2>3
<1>3. CASE \E x \in Item : AddGrows(x)
  <2>1. PICK x \in Item : AddGrows(x)
    BY <1>3
  <2>2. Append(x) /\ UNCHANGED <<raft, key, lo>> /\ pc = "idle" /\ used = cnt /\ cnt < Size
        /\ cnt' = Grown /\ cont' = TRUE
    BY <2>1 DEF AddGrows, Fixed
  <2>3. Grown \in 0 .. Size /\ used + 1 <= Grown
    BY <1>0, <2>2 DEF Grown
  <2>4. Settles
    BY <1>0, <2>2 DEF IInv, Settles, Sifting
  <2>5. SiftGood' /\ OrderedFrom(0)' /\ pc' = "up" /\ used' = used + 1
    BY <2>2, <2>4, AppendStarts DEF Append, StartAt
  <2> QED
    BY <1>0, <2>2, <2>3, <2>5 DEF IInv, SiftGood
<1>4. CASE AddFails
  <2>1. /\ ~Sifting /\ ~Sifting' /\ UNCHANGED <<raft, key, used, pc, lo>> /\ pc = "idle"
        /\ used = cnt /\ cnt < Size /\ cnt' = Grown /\ cont' = FALSE /\ array' = Unwritten
    BY <1>4 DEF AddFails, Fixed, Sifting
  <2>2. Grown \in 0 .. Size /\ used < Grown
    BY <1>0, <2>1 DEF Grown
  <2>3. SiftTyped'
    BY <2>1 DEF IInv, SiftTyped, Unwritten
  <2>4. used' = 0 => SiftGood' /\ OrderedFrom(0)'
    BY <2>1, <2>3 DEF SiftGood, ElementsGood, OrderedFrom
  <2>5. cnt' \in 0 .. Size /\ used' \in 0 .. cnt' /\ used' < cnt'
    BY <1>0, <2>1, <2>2
  <2>6. ~cont' /\ cont' \in BOOLEAN /\ lo' = 0 /\ pc' = "idle"
    BY <2>1 DEF IInv
  <2> QED
    BY <2>1, <2>3, <2>4, <2>5, <2>6 DEF IInv
<1>5. CASE AddFull \/ Top \/ PopEmpty
  <2>1. ~Sifting /\ ~Sifting' /\ UNCHANGED <<raft, key, array, used, cnt, cont, lo, pc>>
    BY <1>5 DEF AddFull, Top, PopEmpty, Fixed, Quiet, Sifting
  <2> QED
    BY <2>1, Same DEF IInv
<1>6. CASE \E x \in Item : Replace(x)
  <2>1. PICK x \in Item : Replace(x)
    BY <1>6
  <2>2. CASE cont
    <3>1. /\ StartAt("down", [array EXCEPT ![0] = x], used, 0)
          /\ UNCHANGED <<raft, key, cnt, cont, lo>> /\ pc = "idle" /\ used > 0
      BY <2>1, <2>2 DEF Replace, Fixed
    <3>2. Settles
      BY <2>2, <3>1 DEF IInv, Settles, Sifting
    <3>3. SiftGood' /\ OrderedFrom(0)' /\ pc' = "down" /\ used' = used
      <4>1. used \in 0 .. used
        BY <1>0
      <4> QED
        BY <2>1, <3>1, <3>2, <4>1, ReplaceStarts DEF StartAt
    <3> QED
      BY <1>0, <2>2, <3>1, <3>3 DEF IInv, SiftGood
  <2>3. CASE ~cont
    <3>1. pc' = "crashed" /\ UNCHANGED <<raft, key, array, used, cnt, cont, lo>> /\ ~Sifting /\ ~Sifting'
      BY <2>1, <2>3 DEF Replace, Crash, Quiet, Fixed, Sifting
    <3> QED
      BY <3>1, Same DEF IInv
  <2> QED
    BY <2>2, <2>3
<1>7. CASE Pop
  <2>2. CASE cont
    <3>1. /\ StartAt("down", [array EXCEPT ![0] = array[Last]], used - 1, 0)
          /\ UNCHANGED <<raft, key, cnt, cont, lo>> /\ pc = "idle" /\ used > 0
      BY <1>7, <2>2 DEF Pop, Fixed
    <3>2. Settles
      BY <2>2, <3>1 DEF IInv, Settles, Sifting
    <3>3. array[Last] \in Item /\ used - 1 \in 0 .. used
      BY <1>0, <3>1, <3>2, SettledOrder DEF Last
    <3>4. SiftGood' /\ OrderedFrom(0)' /\ pc' = "down" /\ used' = used - 1
      BY <3>1, <3>2, <3>3, ReplaceStarts DEF StartAt
    <3> QED
      BY <1>0, <2>2, <3>1, <3>4 DEF IInv, SiftGood
  <2>3. CASE ~cont
    <3>1. pc' = "crashed" /\ UNCHANGED <<raft, key, array, used, cnt, cont, lo>> /\ ~Sifting /\ ~Sifting'
      BY <1>7, <2>3 DEF Pop, Crash, Quiet, Fixed, Sifting
    <3> QED
      BY <3>1, Same DEF IInv
  <2> QED
    BY <2>2, <2>3
<1>8. CASE Destroy
  <2>1. /\ ~Sifting' /\ UNCHANGED <<raft, key, lo>> /\ array' = Unwritten /\ used' = 0
        /\ cnt' = 0 /\ cont' = FALSE /\ pc' = "none"
    BY <1>8 DEF Destroy, Fixed, Sifting
  <2>2. SiftTyped'
    BY <2>1 DEF IInv, SiftTyped, Unwritten
  <2>3. SiftGood' /\ OrderedFrom(0)'
    BY <2>1, <2>2 DEF SiftGood, ElementsGood, OrderedFrom
  <2>4. cnt' \in 0 .. Size /\ used' \in 0 .. cnt'
    BY <1>0, <2>1
  <2>5. ~cont' /\ cont' \in BOOLEAN /\ lo' = 0
    BY <2>1 DEF IInv
  <2> QED
    BY <2>1, <2>2, <2>3, <2>4, <2>5 DEF IInv
<1>9. CASE (DownMoves(FALSE) \/ UpMoves(FALSE)) /\ UNCHANGED <<cnt, cont, ret>>
  <2>1. Sifting /\ cont /\ SiftGood /\ OrderedFrom(0) /\ lo = 0 /\ lo' = lo /\ pc' = pc
        /\ used' = used /\ cnt' = cnt /\ cont' = cont
    BY <1>9 DEF DownMoves, UpMoves, Sifting, IInv
  <2>2. tmp >= 0
    BY <2>1 DEF SiftGood, HoleGood, Place
  <2>3. SiftGood' /\ OrderedFrom(0)'
    <3>1. CASE DownMoves(FALSE)
      BY <2>1, <2>2, <3>1, DownKeeps
    <3>2. CASE UpMoves(FALSE)
      BY <2>1, <3>2, UpKeeps
    <3> QED
      BY <1>9, <3>1, <3>2
  <2> QED
    BY <1>0, <2>1, <2>3 DEF IInv, SiftGood, Sifting
<1>10. CASE SiftEnds(FALSE) /\ pc' = "idle" /\ UNCHANGED <<idx, tmp, ele, lo, cnt, cont, ret>>
  <2>1. Sifting /\ cont /\ SiftGood /\ OrderedFrom(0) /\ lo' = lo /\ pc' = "idle"
        /\ used' = used /\ cnt' = cnt /\ cont' = cont
    BY <1>10 DEF SiftEnds, Stops, IInv
  <2>2. 0 <= tmp
    BY <2>1 DEF SiftGood, HoleGood, Place
  <2>3. SiftGood' /\ OrderedFrom(0)'
    BY <1>10, <2>1, <2>2, EndKeeps
  <2> QED
    BY <1>0, <2>1, <2>3 DEF IInv, SiftGood, Sifting
<1>11. CASE UNCHANGED vars
  <2>1. UNCHANGED <<raft, key, array, used, pc, idx, tmp, ele, lo, cnt, cont>>
    BY <1>11 DEF vars
  <2>2. SiftTyped' = SiftTyped /\ Sifting' = Sifting /\ (SiftGood => SiftGood')
    BY <2>1 DEF SiftTyped, Sifting, SiftGood, ElementsGood, HoleGood
  <2>3. OrderedFrom(0) => OrderedFrom(0)'
    BY <2>1 DEF OrderedFrom, Settled, Filled, Beats, Sifting
  <2> QED
    BY <2>1, <2>2, <2>3 DEF IInv
<1> QED
  BY <1>1, <1>2, <1>3, <1>4, <1>5, <1>6, <1>7, <1>8, <1>9, <1>10, <1>11
     DEF Next, Call, SiftStep

(* For any limit and any increment, the array of tl_heap_t is a heap between
   the calls, and within them but for the element on its way. *)
THEOREM HeapOrdered == Spec => []Ordered
<1>1. IInv => Ordered
  BY DEF IInv, Ordered
<1> QED
  BY InitIInv, NextIInv, <1>1, PTL DEF Spec
-----------------------------------------------------------------------------
(* The elements of the array, ele in the hole, are all different: so it holds
   as many as hp_used says, and the one that is taken is gone. *)
LInv == IInv /\ (cont => Distinct)

\* The array holds as many elements as hp_used says.
LEMMA HowMany ==
  ASSUME used \in Nat, Distinct
  PROVE  IsFiniteSet(Contents) /\ Cardinality(Contents) = used
<1> DEFINE S == 0 .. used - 1
           f == [i \in S |-> Filled[i]]
<1>1. IsFiniteSet(S) /\ Cardinality(S) = used
  BY FS_Interval
<1>2. f \in [S -> Contents]
  BY DEF Contents
<1>3. f \in Injection(S, Contents)
  BY <1>2 DEF Injection, IsInjective, Distinct
<1>4. f \in Surjection(S, Contents)
  BY <1>2 DEF Surjection, Contents
<1>5. ExistsBijection(S, Contents)
  BY <1>3, <1>4 DEF ExistsBijection, Bijection
<1> QED
  BY <1>1, <1>5, FS_Bijection

\* The element that tl_heap_add appends joins the others.
LEMMA AppendAdds ==
  ASSUME Settles, used < Size, NEW x \in Item, x \notin Contents, Append(x)
  PROVE  Contents' = Contents \cup {x} /\ (Distinct => Distinct')
<1>1. /\ used \in Nat /\ used \in Place /\ used' = used + 1
      /\ array' = [array EXCEPT ![used] = x] /\ array \in [Place -> Item \cup {Junk}]
      /\ Filled = array
  BY SettledOrder, SiftAssumption
     DEF Append, StartAt, Place, Settles, SiftGood, SiftTyped, Filled
<1>2. Filled' = array'
  BY <1>1 DEF Append, StartAt, Filled
<1>3. Filled'[used] = x /\ \A i \in 0 .. used - 1 : Filled'[i] = Filled[i]
  BY <1>1, <1>2, SiftAssumption, SettledOrder
<1>4. 0 .. used' - 1 = (0 .. used - 1) \cup {used}
  BY <1>1
<1>5. Contents' = {Filled'[i] : i \in (0 .. used - 1) \cup {used}}
  BY <1>4 DEF Contents
<1>6. Contents' = Contents \cup {x}
  BY <1>3, <1>5 DEF Contents
<1>7. \A i \in 0 .. used - 1 : Filled[i] # x
  BY DEF Contents
<1>8. Distinct => Distinct'
  BY <1>3, <1>4, <1>7 DEF Distinct
<1> QED
  BY <1>6, <1>8

\* The element on top gives way to x, which is new or the last one.
LEMMA ReplaceTakes ==
  ASSUME Settles, used > 0, Distinct, NEW n \in {used - 1, used}, NEW x \in Item,
         StartAt("down", [array EXCEPT ![0] = x], n, 0),
         n = used => x \notin Contents,
         n = used - 1 => x = array[Last]
  PROVE  /\ Contents' = (Contents \ {array[0]}) \cup (IF n = used THEN {x} ELSE {})
         /\ Distinct'
<1>1. /\ used \in Nat /\ 0 \in Place /\ used' = n /\ n \in Nat
      /\ array' = [array EXCEPT ![0] = x] /\ array \in [Place -> Item \cup {Junk}]
      /\ Filled = array
  BY SettledOrder, SiftAssumption DEF StartAt, Place, Settles, SiftGood, SiftTyped, Filled
<1>2. Filled' = array'
  BY <1>1 DEF StartAt, Filled
<1>3. Filled'[0] = x /\ \A i \in 1 .. used - 1 : Filled'[i] = Filled[i]
  BY <1>1, <1>2, SettledOrder
<1>4. \A i, j \in 0 .. used - 1 : Filled[i] = Filled[j] => i = j
  BY DEF Distinct
<1>5. Contents \ {array[0]} = {Filled[i] : i \in 1 .. used - 1}
  BY <1>1, <1>4 DEF Contents
<1>6. CASE n = used
  <2>1. Contents' = {Filled'[i] : i \in 0 .. used - 1}
    BY <1>1, <1>6 DEF Contents
  <2>2. 0 .. used - 1 = {0} \cup (1 .. used - 1)
    BY <1>1
  <2>3. Contents' = {x} \cup {Filled[i] : i \in 1 .. used - 1}
    BY <1>3, <2>1, <2>2
  <2>4. \A i \in 0 .. used - 1 : Filled[i] # x
    BY <1>6 DEF Contents
  <2>5. Distinct'
    BY <1>1, <1>3, <1>4, <1>6, <2>2, <2>4 DEF Distinct
  <2> QED
    BY <1>5, <1>6, <2>3, <2>5
<1>7. CASE n = used - 1
  <2>1. Contents' = {Filled'[i] : i \in 0 .. used - 2}
    BY <1>1, <1>7 DEF Contents
  <2>2. x = Filled[used - 1] /\ n # used
    BY <1>1, <1>7 DEF Last
  <2>3. \A i \in 0 .. used - 2 : \E j \in 1 .. used - 1 : Filled'[i] = Filled[j]
    BY <1>1, <1>3, <2>2
  <2>4. \A j \in 1 .. used - 1 : \E i \in 0 .. used - 2 : Filled'[i] = Filled[j]
    <3> SUFFICES ASSUME NEW j \in 1 .. used - 1
                 PROVE  \E i \in 0 .. used - 2 : Filled'[i] = Filled[j]
      OBVIOUS
    <3>1. CASE j = used - 1
      BY <1>1, <1>3, <2>2, <3>1
    <3>2. CASE j # used - 1
      BY <1>1, <1>3, <3>2
    <3> QED
      BY <3>1, <3>2
  <2>5. Contents' = {Filled[i] : i \in 1 .. used - 1}
    BY <2>1, <2>3, <2>4
  <2>6. Distinct'
    <3> SUFFICES ASSUME NEW i \in 0 .. used - 2, NEW j \in 0 .. used - 2, Filled'[i] = Filled'[j]
                 PROVE  i = j
      BY <1>1, <1>7 DEF Distinct
    <3> DEFINE m(k) == IF k = 0 THEN used - 1 ELSE k
    <3>1. \A k \in 0 .. used - 2 : m(k) \in 0 .. used - 1 /\ Filled'[k] = Filled[m(k)]
      BY <1>1, <1>3, <2>2
    <3>2. m(i) = m(j)
      BY <1>4, <3>1
    <3> QED
      BY <1>1, <3>2
  <2> QED
    BY <1>5, <2>2, <2>5, <2>6
<1> QED
  BY <1>6, <1>7
-----------------------------------------------------------------------------
(* What the promise knows of a state, and what it may do in it. *)
LEMMA WhatIs ==
  ASSUME LInv
  PROVE  /\ pc = "idle" /\ used = cnt => State = "open"
         /\ pc = "idle" /\ ~cont /\ used > 0 => State = "broken"
         /\ pc \notin {"none", "crashed"} /\ cont => State = "open"
         /\ ~cont => Items = {}
         /\ cont => /\ Items = Contents /\ used \in Nat
                    /\ Cardinality(Items) = used /\ (Items = {} <=> used = 0)
<1>1. used \in Nat /\ cnt \in Nat /\ used <= cnt /\ cont \in BOOLEAN
      /\ (~cont => used < cnt \/ used = 0)
  BY SiftAssumption DEF LInv, IInv
<1>2. cont => Cardinality(Contents) = used /\ (Contents = {} <=> used = 0)
  <2> SUFFICES ASSUME cont PROVE Cardinality(Contents) = used /\ (Contents = {} <=> used = 0)
    OBVIOUS
  <2>1. IsFiniteSet(Contents) /\ Cardinality(Contents) = used
    BY <1>1, HowMany DEF LInv
  <2> QED
    BY <2>1, FS_EmptySet
<1> QED
  BY <1>1, <1>2 DEF State, Items

\* The element on top may be handed out.
LEMMA TopIsBest ==
  ASSUME LInv, cont, ~Sifting, used > 0
  PROVE  Q!IsBest(array[0])
<1>1. Settles /\ used \in Nat /\ Items = Contents /\ Filled = array
  BY WhatIs DEF LInv, IInv, Settles, Filled
<1>2. \A i \in 0 .. used - 1 : array[i] \in Item /\ ~Beats(array[i], array[0])
  BY <1>1, SettledOrder, TopBest
<1>3. array[0] \in Items /\ \A y \in Items : y \in Item /\ ~Beats(y, array[0])
  BY <1>1, <1>2 DEF Contents
<1>4. raft \in BOOLEAN /\ key \in [Item -> Int]
  BY DEF LInv, IInv, SiftTyped
<1> QED
  BY <1>3, <1>4 DEF Q!IsBest, Beats

\* The promise counts as the heap does.
LEMMA SameCardinality == \A S : Q!Cardinality(S) = Cardinality(S)
  BY DEF Q!Cardinality, Cardinality

\* At first the array holds nothing.
LEMMA InitLInv == Init => LInv
  BY InitIInv DEF Init, LInv

\* Every step of the heap is one of the promise, or none.
LEMMA NextImplements == LInv /\ [Next]_vars => LInv' /\ [Q!Next]_<<State, raft, key, Items, ret>>
<1> SUFFICES ASSUME LInv, [Next]_vars
             PROVE  (cont' => Distinct') /\ [Q!Next]_<<State, raft, key, Items, ret>>
  BY NextIInv DEF LInv
<1> USE SiftAssumption, HeapAssumption DEF Q!Next, Q!Returns, Returns
<1>0. /\ Size \in Nat \ {0} /\ cnt \in Nat /\ used \in Nat /\ used <= cnt /\ cnt <= Size
      /\ Inc \in Nat \ {0} /\ cont \in BOOLEAN
      /\ (~cont => used < cnt \/ used = 0) /\ (cont => Distinct) /\ IInv'
  BY NextIInv DEF LInv, IInv
<1>s. cont /\ ~Sifting => Settles
  BY DEF LInv, IInv, Settles
<1>q. UNCHANGED <<State, raft, key, Items, ret>> => [Q!Next]_<<State, raft, key, Items, ret>>
  OBVIOUS
<1>1. CASE HeapInit
  <2>1. /\ pc = "none" /\ pc' = "idle" /\ ~cont /\ ~cont' /\ cnt = 0 /\ cnt' = 0
        /\ UNCHANGED <<raft, key, ret>>
    BY <1>1 DEF HeapInit, Fixed, Quiet, LInv, IInv
  <2>2. Q!Open
    BY <2>1 DEF Q!Open, State, Items
  <2> QED
    BY <2>1, <2>2
<1>2. CASE \E x \in Item : AddRoom(x)
  <2>1. PICK x \in Item : AddRoom(x)
    BY <1>2
  <2>2. pc = "idle" /\ ~Sifting /\ used # cnt /\ x \notin Contents /\ UNCHANGED <<raft, key>>
    BY <2>1 DEF AddRoom, Fixed, Sifting
  <2>3. CASE cont
    <3>1. Append(x) /\ ret' = [code |-> 0, ele |-> Junk] /\ cont' /\ pc' = "up"
      BY <2>1, <2>3 DEF AddRoom, Append, StartAt
    <3>2. Contents' = Contents \cup {x} /\ Distinct'
      BY <1>0, <1>s, <2>2, <2>3, <3>1, AppendAdds
    <3>3. State = "open" /\ Items = Contents /\ Cardinality(Items) < Size
      BY <1>0, <2>2, <2>3, WhatIs
    <3>4. State' = "open" /\ Items' = Items \cup {x}
      BY <3>1, <3>2, <3>3 DEF State, Items
    <3>5. Q!Add(x)
      BY <2>2, <3>1, <3>3, <3>4, SameCardinality DEF Q!Add
    <3> QED
      BY <2>2, <3>2, <3>5
  <2>4. CASE ~cont
    <3>1. pc' = "crashed" /\ ~cont' /\ UNCHANGED ret
      BY <2>1, <2>4 DEF AddRoom, Crash, Quiet
    <3>2. State = "broken" /\ State' = "crashed" /\ Items = {} /\ Items' = {}
      BY <1>0, <2>2, <2>4, <3>1 DEF State, Items
    <3>3. Q!Crash
      BY <3>1, <3>2 DEF Q!Crash
    <3> QED
      BY <2>2, <3>1, <3>3
  <2> QED
    BY <2>3, <2>4
<1>3. CASE \E x \in Item : AddGrows(x)
  <2>1. PICK x \in Item : AddGrows(x)
    BY <1>3
  <2>2. /\ pc = "idle" /\ ~Sifting /\ used = cnt /\ cnt < Size /\ x \notin Contents
        /\ UNCHANGED <<raft, key>> /\ cont' /\ Append(x) /\ ret' = [code |-> 0, ele |-> Junk]
        /\ pc' = "up"
    BY <2>1 DEF AddGrows, Fixed, Sifting, Append, StartAt
  <2>3. Settles /\ Distinct
    BY <1>0, <2>2 DEF LInv, IInv, Settles, Distinct
  <2>4. Contents' = Contents \cup {x} /\ Distinct'
    BY <2>2, <2>3, AppendAdds, <1>0
  <2>5. State = "open" /\ State' = "open" /\ Items' = Contents'
    BY <2>2, WhatIs DEF State, Items
  <2>6. Items = Contents /\ Cardinality(Items) = used
    <3>1. CASE cont
      BY <3>1, WhatIs
    <3>2. CASE ~cont
      <4>1. used = 0 /\ Contents = {} /\ Items = {}
        BY <1>0, <2>2, <3>2, WhatIs DEF Contents
      <4> QED
        BY <4>1, FS_EmptySet
    <3> QED
      BY <3>1, <3>2
  <2>7. Q!Add(x)
    BY <1>0, <2>2, <2>4, <2>5, <2>6, SameCardinality DEF Q!Add
  <2> QED
    BY <2>2, <2>4, <2>7
<1>4. CASE AddFails
  <2>1. /\ pc = "idle" /\ pc' = "idle" /\ used = cnt /\ cnt < Size /\ UNCHANGED <<raft, key>>
        /\ ~cont' /\ cnt' = Grown /\ ret' = [code |-> -1, ele |-> Junk]
    BY <1>4 DEF AddFails, Fixed
  <2>2. State = "open" /\ State' = "broken" /\ Items' = {}
    BY <1>0, <2>1, WhatIs DEF State, Items, Grown
  <2>3. Q!Break
    BY <2>1, <2>2 DEF Q!Break
  <2> QED
    BY <2>1, <2>3
<1>5. CASE AddFull
  <2>1. /\ pc = "idle" /\ UNCHANGED <<pc, raft, key, array, used, cnt, cont, tmp, ele>>
        /\ used = Size /\ used = cnt /\ ret' = [code |-> -1, ele |-> Junk]
    BY <1>0, <1>5 DEF AddFull, Fixed, Quiet
  <2>2. cont /\ cont' /\ ~Sifting /\ ~Sifting'
    BY <1>0, <2>1 DEF Sifting
  <2>3. Contents' = Contents /\ Distinct'
    BY <1>0, <2>1, <2>2, SameAll
  <2>4. State = "open" /\ State' = "open" /\ Items' = Items /\ Cardinality(Items) = Size
    BY <2>1, <2>2, <2>3, WhatIs DEF State, Items
  <2>5. Q!Refuse
    BY <2>1, <2>4, SameCardinality DEF Q!Refuse
  <2> QED
    BY <2>1, <2>3, <2>5
<1>6. CASE Top
  <2>1. /\ pc = "idle" /\ UNCHANGED <<pc, raft, key, array, used, cnt, cont, tmp, ele>>
        /\ ret' = [code |-> 0, ele |-> IF used > 0 /\ cont THEN array[0] ELSE Junk]
        /\ ~Sifting /\ ~Sifting'
    BY <1>6 DEF Top, Fixed, Quiet, Sifting
  <2>2. Contents' = Contents /\ (cont' => Distinct')
    BY <1>0, <2>1, SameAll
  <2>3. State' = State /\ Items' = Items /\ State \in {"open", "broken"}
    BY <2>1, <2>2 DEF State, Items
  <2>4. Items = {} <=> ~(used > 0 /\ cont)
    BY <1>0, WhatIs
  <2>5. Q!Top
    <3>1. CASE Items = {}
      BY <2>1, <2>3, <2>4, <3>1 DEF Q!Top
    <3>2. CASE Items # {}
      <4>1. Q!IsBest(array[0]) /\ array[0] \in Items /\ ret' = [code |-> 0, ele |-> array[0]]
        BY <2>1, <2>4, <3>2, TopIsBest DEF Q!IsBest
      <4> QED
        BY <2>3, <3>2, <4>1 DEF Q!Top
    <3> QED
      BY <3>1, <3>2
  <2> QED
    BY <2>1, <2>2, <2>5
<1>7. CASE PopEmpty
  <2>1. /\ pc = "idle" /\ UNCHANGED <<pc, raft, key, array, used, cnt, cont, tmp, ele>>
        /\ used = 0 /\ ret' = [code |-> -1, ele |-> Junk] /\ ~Sifting /\ ~Sifting'
    BY <1>7 DEF PopEmpty, Fixed, Quiet, Sifting
  <2>2. Contents' = Contents /\ (cont' => Distinct')
    BY <1>0, <2>1, SameAll
  <2>3. State' = State /\ Items' = Items /\ State \in {"open", "broken"} /\ Items = {}
    BY <2>1, <2>2, WhatIs DEF State, Items
  <2>4. Q!Pop
    BY <2>1, <2>3 DEF Q!Pop
  <2> QED
    BY <2>1, <2>2, <2>4
<1>8. CASE \E x \in Item : Replace(x)
  <2>1. PICK x \in Item : Replace(x)
    BY <1>8
  <2>2. pc = "idle" /\ ~Sifting /\ used > 0 /\ x \notin Contents /\ UNCHANGED <<raft, key>>
    BY <2>1 DEF Replace, Fixed, Sifting
  <2>3. CASE cont
    <3>1. /\ StartAt("down", [array EXCEPT ![0] = x], used, 0)
          /\ UNCHANGED <<cont, ret>> /\ pc' = "down"
      BY <2>1, <2>3 DEF Replace, StartAt
    <3>2. Contents' = (Contents \ {array[0]}) \cup {x} /\ Distinct'
      <4>1. used # used - 1
        BY <1>0
      <4> QED
        BY <1>0, <1>s, <2>2, <2>3, <3>1, <4>1, ReplaceTakes
    <3>3. State = "open" /\ Items = Contents /\ Items # {} /\ Q!IsBest(array[0])
      BY <2>2, <2>3, WhatIs, TopIsBest
    <3>4. State' = "open" /\ Items' = (Items \ {array[0]}) \cup {x}
      BY <2>3, <3>1, <3>2, <3>3 DEF State, Items
    <3>5. array[0] \in Items
      BY <3>3 DEF Q!IsBest
    <3>6. Q!Replace(x)
      BY <2>2, <3>1, <3>3, <3>4, <3>5 DEF Q!Replace
    <3> QED
      BY <2>2, <3>2, <3>6
  <2>4. CASE ~cont
    <3>1. pc' = "crashed" /\ ~cont' /\ UNCHANGED ret
      BY <2>1, <2>4 DEF Replace, Crash, Quiet
    <3>2. State = "broken" /\ State' = "crashed" /\ Items = {} /\ Items' = {}
      BY <1>0, <2>2, <2>4, <3>1 DEF State, Items
    <3>3. Q!Crash
      BY <3>1, <3>2 DEF Q!Crash
    <3> QED
      BY <2>2, <3>1, <3>3
  <2> QED
    BY <2>3, <2>4
<1>9. CASE Pop
  <2>2. pc = "idle" /\ ~Sifting /\ used > 0 /\ UNCHANGED <<raft, key>>
    BY <1>9 DEF Pop, Fixed, Sifting
  <2>3. CASE cont
    <3>1. /\ StartAt("down", [array EXCEPT ![0] = array[Last]], used - 1, 0)
          /\ ret' = [code |-> 0, ele |-> array[0]] /\ UNCHANGED cont /\ pc' = "down"
      BY <1>9, <2>3 DEF Pop, StartAt
    <3>2. Contents' = Contents \ {array[0]} /\ Distinct'
      <4>1. array[Last] \in Item /\ used - 1 # used
        BY <1>0, <1>s, <2>2, <2>3, SettledOrder DEF Last
      <4> QED
        BY <1>0, <1>s, <2>2, <2>3, <3>1, <4>1, ReplaceTakes
    <3>3. State = "open" /\ Items = Contents /\ Items # {} /\ Q!IsBest(array[0])
      BY <2>2, <2>3, WhatIs, TopIsBest
    <3>4. State' = "open" /\ Items' = Items \ {array[0]}
      BY <2>3, <3>1, <3>2, <3>3 DEF State, Items
    <3>5. array[0] \in Items
      BY <3>3 DEF Q!IsBest
    <3>6. Q!Pop
      BY <2>2, <3>1, <3>3, <3>4, <3>5 DEF Q!Pop
    <3> QED
      BY <2>2, <3>2, <3>6
  <2>4. CASE ~cont
    <3>1. pc' = "crashed" /\ ~cont' /\ UNCHANGED ret
      BY <1>9, <2>4 DEF Pop, Crash, Quiet
    <3>2. State = "broken" /\ State' = "crashed" /\ Items = {} /\ Items' = {}
      BY <1>0, <2>2, <2>4, <3>1 DEF State, Items
    <3>3. Q!Crash
      BY <3>1, <3>2 DEF Q!Crash
    <3> QED
      BY <2>2, <3>1, <3>3
  <2> QED
    BY <2>3, <2>4
<1>10. CASE Destroy
  <2>1. pc = "idle" /\ pc' = "none" /\ ~cont' /\ UNCHANGED <<raft, key, ret>>
    BY <1>10 DEF Destroy, Fixed
  <2>2. State \in {"open", "broken"} /\ State' = "none" /\ Items' = {}
    BY <2>1 DEF State, Items
  <2>3. Q!Close
    BY <2>1, <2>2 DEF Q!Close
  <2> QED
    BY <2>1, <2>3
<1>11. CASE (DownMoves(FALSE) \/ UpMoves(FALSE)) /\ UNCHANGED <<cnt, cont, ret>>
  <2>1. /\ Sifting /\ cont /\ SiftGood /\ OrderedFrom(0) /\ lo = 0 /\ Distinct
        /\ UNCHANGED <<raft, key, used, pc, cnt, cont, ret>> /\ used \in 0 .. Size
    BY <1>0, <1>11 DEF DownMoves, UpMoves, Sifting, LInv, IInv, SiftTyped
  <2>2. tmp >= 0
    BY <2>1 DEF SiftGood, HoleGood, Place
  <2>3. \E p, q \in 0 .. used - 1 : Swaps(p, q)
    <3>1. CASE DownMoves(FALSE)
      BY <2>1, <2>2, <3>1, DownKeeps
    <3>2. CASE UpMoves(FALSE)
      BY <2>1, <3>2, UpKeeps
    <3> QED
      BY <1>11, <3>1, <3>2
  <2>4. Contents' = Contents /\ Distinct'
    BY <2>1, <2>3, SwapKeepsAll
  <2>5. State' = State /\ Items' = Items
    BY <2>1, <2>4 DEF State, Items
  <2> QED
    BY <1>q, <2>1, <2>4, <2>5
<1>12. CASE SiftEnds(FALSE) /\ pc' = "idle" /\ UNCHANGED <<idx, tmp, ele, lo, cnt, cont, ret>>
  <2>1. /\ Sifting /\ cont /\ SiftGood /\ OrderedFrom(0) /\ Distinct /\ pc' = "idle"
        /\ UNCHANGED <<raft, key, used, cnt, cont, ret>>
    BY <1>0, <1>12 DEF SiftEnds, Stops, LInv, IInv
  <2>2. 0 <= tmp
    BY <2>1 DEF SiftGood, HoleGood, Place
  <2>3. Filled' = Filled
    BY <1>12, <2>1, <2>2, EndKeeps
  <2>4. Contents' = Contents /\ Distinct'
    BY <2>1, <2>3 DEF Contents, Distinct
  <2>5. State' = State /\ Items' = Items
    BY <2>1, <2>4 DEF State, Items, Sifting
  <2> QED
    BY <1>q, <2>1, <2>4, <2>5
<1>13. CASE UNCHANGED vars
  <2>1. UNCHANGED <<raft, key, array, used, pc, tmp, ele, cnt, cont, ret>>
    BY <1>13 DEF vars
  <2>2. Filled' = Filled
    BY <2>1 DEF Filled, Sifting
  <2>3. Contents' = Contents /\ (Distinct => Distinct')
    BY <2>1, <2>2 DEF Contents, Distinct
  <2>4. State' = State /\ Items' = Items
    BY <2>1, <2>3 DEF State, Items
  <2> QED
    BY <1>0, <1>q, <2>1, <2>3, <2>4
<1> QED
  BY <1>1, <1>2, <1>3, <1>4, <1>5, <1>6, <1>7, <1>8, <1>9, <1>10, <1>11, <1>12, <1>13
     DEF Next, Call, SiftStep

(* The heap implements the priority queue, for any limit, increment and set of
   elements: what tl_heap_pop hands out no other element beats, none is lost or
   doubled on its way, and an add is refused only when hp_ele_cnt are in it. *)
THEOREM HeapImplements == Spec => ImplementsQueue
<1>1. Init => Q!Init
  <2> SUFFICES ASSUME Init PROVE Q!Init
    OBVIOUS
  <2>1. key \in [Item -> Int]
    BY SiftAssumption DEF Init
  <2> QED
    BY <2>1 DEF Init, Q!Init, State, Items
<1>2. LInv /\ [Next]_vars => [Q!Next]_(Q!queueVars)
  BY NextImplements DEF Q!queueVars
<1> QED
  BY InitLInv, NextImplements, <1>1, <1>2, PTL DEF Spec, ImplementsQueue, Q!Spec

-----------------------------------------------------------------------------
(* The caller's array. *)

Sane == pc # "lost" /\ (adjusting => b <= lo)

\* The element on its way is where it came from until it moves.
ToldGood ==
  /\ \A i \in 0 .. used - 1 : (Sifting /\ i = tmp) \/ told[array[i]] = i
  /\ Sifting /\ tmp = idx => told[ele] = idx

Placed ==
  /\ raft \in BOOLEAN /\ key \in [Item -> Int] /\ told \in [Item -> Int]
  /\ b \in Nat /\ lo \in Nat /\ adjusting \in BOOLEAN
  /\ pc \in {"raw", "adjusted", "idle", "down", "up", "lost"}
  /\ pc = "raw" => array = [i \in Place |-> i + 1] /\ used = 0 /\ b = 0
  /\ adjusting => pc \in {"down", "lost"}
  /\ adjusting /\ Sane => lo <= tmp
  /\ ~adjusting => lo = 0
  /\ pc = "lost" => b > 0
  /\ Sane => SiftGood /\ Distinct
  /\ ~adjusting /\ pc \in {"idle", "down", "up"} => ToldGood

ArrayInv == Placed /\ (b = 0 => OrderedFrom(lo))

\* The array that tl_heap_adjust has not seen holds each element once.
LEMMA InitArrayInv == ArrayInit => ArrayInv
<1> SUFFICES ASSUME ArrayInit PROVE ArrayInv
  OBVIOUS
<1>1. /\ array = [i \in Place |-> i + 1] /\ used = 0 /\ b = 0 /\ lo = 0 /\ pc = "raw" /\ ~adjusting
      /\ raft \in BOOLEAN /\ key \in [Item -> Int] /\ told \in [Item -> Int]
  <2>1. key \in [Item -> Int]
    BY SiftAssumption DEF ArrayInit
  <2>2. told \in [Item -> Int]
    BY DEF ArrayInit
  <2> QED
    BY <2>1, <2>2 DEF ArrayInit
<1>2. SiftTyped
  BY <1>1, SiftAssumption, HeapArrayAssumption DEF SiftTyped, Place
<1>3. SiftGood /\ Distinct /\ OrderedFrom(lo)
  BY <1>1, <1>2 DEF SiftGood, ElementsGood, Sifting, Distinct, OrderedFrom
<1>4. b \in Nat /\ lo \in Nat
  BY <1>1
<1>5. adjusting \in BOOLEAN
  BY DEF ArrayInit
<1> QED
  BY <1>1, <1>3, <1>4, <1>5 DEF ArrayInv, Placed

-----------------------------------------------------------------------------
(* tl_heap_adjust. *)

\* The array from first on, of which e - first elements are adjusted, and in which
\* the hole begins at c.
LEMMA RawGood ==
  ASSUME Placed, pc = "raw", NEW first \in Nat, NEW e \in 0 .. Size, e > first,
         array' = From(first), used' = e - first, raft' = raft, key' = key
  PROVE  /\ SiftTyped' /\ used' \in Nat
         /\ \A i \in 0 .. used' - 1 : i \in Place /\ array'[i] = first + i + 1 /\ array'[i] \in Item
<1>1. /\ array = [i \in Place |-> i + 1] /\ Size \in Nat /\ Item = 1 .. Size
      /\ raft \in BOOLEAN /\ key \in [Item -> Int]
  BY SiftAssumption, HeapArrayAssumption DEF Placed
<1>2. array' = [i \in Place |-> IF first + i < Size THEN first + i + 1 ELSE Junk]
  BY <1>1 DEF From, Place
<1>3. \A i \in 0 .. used' - 1 : i \in Place /\ first + i < Size
  BY <1>1 DEF Place
<1>4. array' \in [Place -> Item \cup {Junk}]
  BY <1>1, <1>2 DEF Place
<1> QED
  BY <1>1, <1>2, <1>3, <1>4 DEF SiftTyped

\* tl_heap_adjust returns at once when there is nothing to compare.
LEMMA TooShortKeeps ==
  ASSUME ArrayInv, NEW first \in Nat, NEW e \in 0 .. Size, AdjustTooShort(first, e)
  PROVE  ArrayInv'
<1>1. /\ Placed /\ pc = "raw" /\ pc' = "adjusted" /\ e - first <= 1 /\ array' = From(first)
      /\ used' = (IF e > first THEN e - first ELSE 0) /\ b' = first
      /\ UNCHANGED <<raft, key, idx, tmp, ele, lo, told, adjusting>>
      /\ ~adjusting /\ lo = 0 /\ Size \in Nat
  BY SiftAssumption DEF ArrayInv, Placed, AdjustTooShort
<1>2. SiftTyped' /\ ElementsGood' /\ used' \in {0, 1}
  <2>1. CASE e > first
    <3>1. used' = 1 /\ used' = e - first
      BY <1>1, <2>1
    <3> QED
      BY <1>1, <2>1, <3>1, RawGood DEF ElementsGood
  <2>2. CASE ~(e > first)
    <3>1. array' \in [Place -> Item \cup {Junk}]
      <4>1. array = [i \in Place |-> i + 1] /\ \A i \in Place : i + 1 \in Item
        BY <1>1, HeapArrayAssumption DEF Placed, Place
      <4>2. \A i \in Place : first + i < Size => first + i \in Place
        BY <1>1 DEF Place
      <4> QED
        BY <1>1, <4>1, <4>2 DEF From
    <3> QED
      BY <1>1, <2>2, <3>1 DEF SiftTyped, ElementsGood, Placed
  <2> QED
    BY <2>1, <2>2
<1>3. SiftGood' /\ Distinct' /\ OrderedFrom(lo)'
  BY <1>1, <1>2 DEF SiftGood, Sifting, Distinct, OrderedFrom
<1> QED
  BY <1>1, <1>3 DEF ArrayInv, Placed

\* tl_heap_adjust begins at the parent of the last element.
LEMMA AdjustKeeps ==
  ASSUME ArrayInv, NEW first \in Nat, NEW e \in 0 .. Size, Adjust(first, e)
  PROVE  ArrayInv'
<1> DEFINE c == FirstC(e)
<1>1. /\ Placed /\ pc = "raw" /\ pc' = "down" /\ e - first > 1 /\ array' = From(first)
      /\ used' = e - first /\ idx' = c /\ tmp' = c /\ ele' = From(first)[c]
      /\ b' = first /\ adjusting' = TRUE /\ lo' = c
      /\ UNCHANGED <<raft, key, told>> /\ Size \in Nat /\ e \in Nat /\ e > first /\ e > 1
  BY SiftAssumption DEF ArrayInv, Adjust, StartAt
<1>2. c \in Nat /\ 2 * c <= e - 2 /\ e - 2 <= 2 * c + 1
  BY <1>1 DEF FirstC, parent
<1>3. /\ SiftTyped' /\ used' \in Nat
      /\ \A i \in 0 .. used' - 1 : i \in Place /\ array'[i] = first + i + 1 /\ array'[i] \in Item
  BY <1>1, RawGood
<1> HIDE DEF c
<1>4. first <= c => c \in 0 .. used' - 1
  BY <1>1, <1>2
<1>5. first <= c => SiftGood' /\ Distinct'
  <2> SUFFICES ASSUME first <= c PROVE SiftGood' /\ Distinct'
    OBVIOUS
  <2>1. ele' = array'[c]
    BY <1>1
  <2>2. HoleGood'
    BY <1>1, <1>2, <1>3, <1>4, <2>1 DEF HoleGood
  <2>3. ElementsGood'
    BY <1>3 DEF ElementsGood
  <2>4. Filled' = array'
    BY <1>1, <1>3, <1>4, <2>1 DEF Filled, Sifting, SiftTyped
  <2>5. Distinct'
    <3>1. ASSUME NEW i \in 0 .. used' - 1, NEW j \in 0 .. used' - 1, array'[i] = array'[j]
          PROVE  i = j
      <4>1. first + i + 1 = first + j + 1
        BY <1>3, <3>1
      <4> QED
        BY <1>3, <4>1
    <3> QED
      BY <2>4, <3>1 DEF Distinct
  <2> QED
    BY <1>3, <2>2, <2>3, <2>5 DEF SiftGood
<1>6. OrderedFrom(lo)'
  <2>1. ASSUME NEW i \in 1 .. used' - 1 PROVE parent(i) <= c
    BY <1>1, <1>2 DEF parent
  <2>2. c # 0 => parent(c) < c
    BY <1>2, Family
  <2>3. \A i \in 1 .. used' - 1 : parent(i) \in Nat
    BY <1>3, Family
  <2>4. \A i \in 1 .. used' - 1 : parent(i) >= c => parent(i) = c
    BY <1>2, <2>1, <2>3
  <2>5. c # 0 => ~(parent(c) >= c)
    BY <1>2, <2>2, Family
  <2>6. pc' = "down" /\ tmp' = c /\ lo' = c
    BY <1>1
  <2> QED
    BY <2>4, <2>5, <2>6 DEF OrderedFrom
<1> QED
  BY <1>1, <1>2, <1>5, <1>6 DEF ArrayInv, Placed, Sane

\* The call before AdjustNext, AdjustEnds or AdjustWraps is over.
LEMMA AdjustSettles ==
  ASSUME ArrayInv, adjusting, Sane, SiftEnds(FALSE)
  PROVE  /\ SiftTyped /\ HoleGood /\ pc = "down" /\ lo <= tmp /\ b <= lo
         /\ array' = Filled /\ Filled \in [Place -> Item \cup {Junk}]
         /\ Filled[tmp] = ele /\ \A i \in Place \ {tmp} : Filled[i] = array[i]
         /\ \A i \in 0 .. used - 1 : i \in Place /\ Filled[i] \in Item
         /\ b = 0 => \A i \in 1 .. used - 1 :
                       parent(i) >= lo => ~Beats(Filled[i], Filled[parent(i)])
         /\ UNCHANGED <<raft, key, used, told>>
<1>1. /\ Placed /\ SiftGood /\ Sifting /\ pc = "down" /\ lo \in Nat /\ lo <= tmp /\ b <= lo
      /\ (b = 0 => OrderedFrom(lo))
  BY DEF ArrayInv, Placed, Sane, SiftEnds, Stops, Sifting
<1>2. UNCHANGED <<raft, key, used, told>>
  BY DEF SiftEnds, PutBack, MoveTo
<1>3. b = 0 => \A i \in 1 .. used - 1 : parent(i) >= lo => ~Beats(Filled[i], Filled[parent(i)])
  BY <1>1, EndSettles DEF SiftEnds, Settled
<1>4. SiftTyped /\ HoleGood
  BY <1>1 DEF SiftGood
<1> QED
  BY <1>1, <1>2, <1>3, <1>4, EndGood

\* hp_down has put one element in its place, and the one before it is next.
LEMMA AdjustNextKeeps ==
  ASSUME ArrayInv, AdjustNext
  PROVE  ArrayInv'
<1>1. /\ Placed /\ adjusting /\ lo # b /\ lo > 0 /\ SiftEnds(FALSE)
      /\ lo' = lo - 1 /\ idx' = lo - 1 /\ tmp' = lo - 1 /\ ele' = array[lo - 1]
      /\ UNCHANGED <<pc, b, adjusting>> /\ lo \in Nat /\ b \in Nat /\ lo' \in Nat
  <2>1. lo \in Nat /\ b \in Nat /\ Placed
    BY DEF ArrayInv, Placed
  <2>2. /\ adjusting /\ lo # b /\ lo > 0 /\ SiftEnds(FALSE)
        /\ lo' = lo - 1 /\ idx' = lo - 1 /\ tmp' = lo - 1 /\ ele' = array[lo - 1]
        /\ UNCHANGED <<pc, b, adjusting>>
    BY Zenon DEF AdjustNext
  <2>3. lo' \in Nat
    BY <2>1, <2>2
  <2> QED
    BY <2>1, <2>2, <2>3
<1>2. UNCHANGED <<raft, key, used, told>>
  BY <1>1 DEF SiftEnds, PutBack, MoveTo
<1>3. CASE Sane
  <2>1. /\ SiftTyped /\ HoleGood /\ pc = "down" /\ lo <= tmp /\ b <= lo
        /\ array' = Filled /\ Filled \in [Place -> Item \cup {Junk}]
        /\ Filled[tmp] = ele /\ \A i \in Place \ {tmp} : Filled[i] = array[i]
        /\ \A i \in 0 .. used - 1 : i \in Place /\ Filled[i] \in Item
        /\ b = 0 => \A i \in 1 .. used - 1 :
                      parent(i) >= lo => ~Beats(Filled[i], Filled[parent(i)])
    BY <1>1, <1>3, AdjustSettles
  <2>2. /\ used \in Nat /\ tmp \in Nat /\ tmp < used
        /\ lo - 1 \in 0 .. used - 1 /\ lo - 1 \in Place /\ lo - 1 # tmp /\ lo - 1 < tmp
    <3>1. tmp \in Nat /\ used \in Nat /\ (tmp < used \/ (used = 0 /\ tmp = 0))
      BY <2>1, SiftAssumption DEF HoleGood, SiftTyped, Place
    <3>2. tmp > 0 /\ tmp < used /\ lo - 1 < tmp
      BY <1>1, <2>1, <3>1
    <3> QED
      BY <1>1, <2>1, <3>1, <3>2
  <2>3. ele' = array'[tmp'] /\ tmp' \in Place
    BY <1>1, <2>1, <2>2
  <2>4. Filled' = array'
    BY <1>1, <2>1, <2>3 DEF Filled, Sifting
  <2>5. SiftGood'
    <3>1. SiftTyped'
      BY <1>2, <2>1 DEF SiftTyped
    <3>2. ElementsGood'
      BY <1>2, <2>1 DEF ElementsGood
    <3>3. HoleGood'
      BY <1>1, <1>2, <2>1, <2>2, <2>3 DEF HoleGood
    <3> QED
      BY <3>1, <3>2, <3>3 DEF SiftGood
  <2>6. Distinct'
    BY <1>2, <1>3, <2>1, <2>4 DEF Distinct, ArrayInv, Placed
  <2>7. b = 0 => OrderedFrom(lo)'
    <3> SUFFICES ASSUME b = 0, NEW i \in 1 .. used - 1
                 PROVE  /\ parent(i) >= lo' /\ parent(i) # tmp' => Settled(i)'
                        /\ parent(i) = tmp' /\ tmp' # 0 => ~(parent(tmp') >= lo')
      BY <1>1, <1>2, <2>1 DEF OrderedFrom
    <3>1. parent(i) \in Nat
      BY <2>2, Family
    <3>2. parent(i) >= lo' /\ parent(i) # tmp' => parent(i) >= lo
      BY <1>1, <3>1
    <3>3. tmp' # 0 => parent(tmp') < tmp' /\ parent(tmp') \in Nat
      BY <1>1, <2>2, Family
    <3>4. parent(i) >= lo => Settled(i)'
      BY <1>2, <2>1, <2>4 DEF Settled, Beats
    <3> QED
      BY <1>1, <3>2, <3>3, <3>4
  <2>8. (adjusting /\ Sane)' => lo' <= tmp'
    BY <1>1
  <2> QED
    BY <1>1, <1>2, <2>1, <2>5, <2>6, <2>7, <2>8 DEF ArrayInv, Placed
<1>4. CASE ~Sane
  <2>1. ~Sane' /\ b # 0
    BY <1>1, <1>4 DEF Sane, Placed
  <2>2. (b = 0)' <=> b = 0
    BY <1>1
  <2> QED
    BY <1>1, <1>2, <2>1, <2>2 DEF ArrayInv, Placed
<1> QED
  BY <1>3, <1>4

\* The element at b was the last: the whole array is in order if b is 0.
LEMMA AdjustEndsKeeps ==
  ASSUME ArrayInv, AdjustEnds
  PROVE  ArrayInv'
<1>1. /\ Placed /\ adjusting /\ lo = b /\ SiftEnds(FALSE)
      /\ pc' = "adjusted" /\ lo' = 0 /\ adjusting' = FALSE /\ b' = b
      /\ lo \in Nat /\ b \in Nat
  BY DEF ArrayInv, Placed, AdjustEnds
<1>2. UNCHANGED <<raft, key, used, told>>
  BY <1>1 DEF SiftEnds, PutBack, MoveTo
<1>3. Sane
  BY <1>1 DEF SiftEnds, Stops, Sifting, Sane
<1>4. /\ SiftTyped /\ HoleGood /\ pc = "down" /\ lo <= tmp /\ b <= lo
      /\ array' = Filled /\ Filled \in [Place -> Item \cup {Junk}]
      /\ Filled[tmp] = ele /\ \A i \in Place \ {tmp} : Filled[i] = array[i]
      /\ \A i \in 0 .. used - 1 : i \in Place /\ Filled[i] \in Item
      /\ b = 0 => \A i \in 1 .. used - 1 :
                    parent(i) >= lo => ~Beats(Filled[i], Filled[parent(i)])
  BY <1>1, <1>3, AdjustSettles
<1>5. Filled' = array' /\ ~Sifting'
  BY <1>1 DEF Filled, Sifting
<1>6. SiftGood'
  BY <1>2, <1>4, <1>5 DEF SiftGood, SiftTyped, ElementsGood
<1>7. Distinct'
  BY <1>2, <1>3, <1>4, <1>5 DEF Distinct, ArrayInv, Placed
<1>8. b = 0 => OrderedFrom(lo)'
  BY <1>1, <1>2, <1>4, <1>5 DEF OrderedFrom, Settled, Beats, Sifting
<1> QED
  BY <1>1, <1>2, <1>6, <1>7, <1>8 DEF ArrayInv, Placed

\* The loop goes below 0 only if b is not, and nothing is said from there on.
LEMMA AdjustWrapsKeeps ==
  ASSUME ArrayInv, AdjustWraps
  PROVE  ArrayInv'
<1>1. /\ Placed /\ adjusting /\ lo # b /\ lo = 0 /\ pc' = "lost" /\ b > 0
      /\ UNCHANGED <<lo, b, adjusting>> /\ b \in Nat
      /\ UNCHANGED <<raft, key, used, told>>
  BY DEF ArrayInv, Placed, AdjustWraps, SiftEnds, PutBack, MoveTo
<1>2. ~Sane' /\ b' # 0
  BY <1>1 DEF Sane
<1> QED
  BY <1>1, <1>2 DEF ArrayInv, Placed

-----------------------------------------------------------------------------
(* tl_heap_down and tl_heap_up, and the calls of hp_down from tl_heap_adjust. *)

\* The element at q moves to the hole, p, and getidx says so.
LEMMA MoveTells ==
  ASSUME SiftGood, Distinct, told \in [Item -> Int], Sifting,
         \A i \in 0 .. used - 1 : i = tmp \/ told[array[i]] = i,
         NEW p \in 0 .. used - 1, NEW q \in 0 .. used - 1, p = tmp, q # p,
         \A i \in Place \ {p} : Filled[i] = array[i],
         array' = [array EXCEPT ![p] = array[q]],
         told' = [told EXCEPT ![array[q]] = p]
  PROVE  /\ told' \in [Item -> Int]
         /\ \A i \in 0 .. used - 1 : i = q \/ told'[array'[i]] = i
<1>1. /\ \A i \in 0 .. used - 1 : i \in Place /\ (i # p => array[i] \in Item)
      /\ array \in [Place -> Item \cup {Junk}] /\ used \in Nat /\ p \in Int
  BY SiftAssumption DEF SiftGood, SiftTyped, ElementsGood, Place
<1>2. array[q] \in Item /\ Filled[q] = array[q]
  BY <1>1
<1>3. told' \in [Item -> Int]
  BY <1>1, <1>2
<1>4. ASSUME NEW i \in 0 .. used - 1, i # q PROVE told'[array'[i]] = i
  <2>1. CASE i = p
    BY <1>1, <1>2, <2>1
  <2>2. CASE i # p
    <3>1. Filled[i] # Filled[q]
      BY <1>4 DEF Distinct
    <3>2. Filled[i] = array[i] /\ array'[i] = array[i] /\ array[i] \in Item
      BY <1>1, <2>2
    <3>3. told'[array[i]] = told[array[i]]
      BY <1>2, <3>1, <3>2
    <3> QED
      BY <2>2, <3>2, <3>3
  <2> QED
    BY <2>1, <2>2
<1> QED
  BY <1>3, <1>4

\* A child moves up, of tl_heap_adjust or of a caller's tl_heap_down.
LEMMA DownMovesKeeps ==
  ASSUME ArrayInv, DownMoves(~adjusting), UNCHANGED <<b, adjusting>>
  PROVE  ArrayInv'
<1> DEFINE c == BestChild(tmp)
<1>1. /\ Placed /\ pc = "down" /\ array' = [array EXCEPT ![tmp] = array[c]] /\ tmp' = c
      /\ (IF ~adjusting THEN told' = [told EXCEPT ![array[c]] = tmp] ELSE told' = told)
      /\ UNCHANGED <<raft, key, used, pc, idx, ele, lo, b, adjusting>>
      /\ (Sane' <=> Sane)
  BY DEF ArrayInv, Placed, DownMoves, MoveTo, Sane
<1>2. CASE ~Sane
  <2>1. adjusting /\ b # 0 /\ told' = told
    BY <1>1, <1>2 DEF Sane, Placed
  <2> QED
    BY <1>1, <1>2, <2>1 DEF ArrayInv, Placed
<1>3. CASE Sane
  <2>1. SiftGood /\ Distinct /\ (~adjusting) \in BOOLEAN /\ Sifting /\ used \in 0 .. Size
    BY <1>1, <1>3 DEF Placed, SiftGood, SiftTyped, Sifting
  <2>2. /\ SiftGood' /\ c > tmp
        /\ tmp \in 0 .. used - 1 /\ c \in 0 .. used - 1 /\ Swaps(tmp, c)
        /\ \A i \in Place \ {tmp} : Filled[i] = array[i]
    BY <2>1, DownGood
  <2> HIDE DEF c
  <2>3. Distinct'
    BY <1>1, <2>1, <2>2, SwapKeepsAll
  <2>4. adjusting /\ Sane => lo' <= tmp'
    BY <1>1, <2>2 DEF Placed
  <2>5. b = 0 => OrderedFrom(lo)'
    <3> SUFFICES ASSUME b = 0 PROVE OrderedFrom(lo)'
      OBVIOUS
    <3>1. lo \in Nat /\ lo <= tmp /\ OrderedFrom(lo)
      BY <1>1, <1>3, <2>2 DEF ArrayInv, Placed
    <3> QED
      BY <2>1, <3>1, DownKeeps
  <2>6. told' \in [Item -> Int] /\ (~adjusting => ToldGood')
    <3>1. CASE adjusting
      BY <1>1, <3>1 DEF Placed
    <3>2. CASE ~adjusting
      <4>1. \A i \in 0 .. used - 1 : i = tmp \/ told[array[i]] = i
        BY <1>1, <3>2 DEF Placed, ToldGood
      <4>2. told' = [told EXCEPT ![array[c]] = tmp] /\ told \in [Item -> Int]
        BY <1>1, <3>2 DEF Placed
      <4>3. c # tmp
        BY <2>2
      <4>4. told' \in [Item -> Int] /\ \A i \in 0 .. used - 1 : i = c \/ told'[array'[i]] = i
        BY <1>1, <2>1, <2>2, <4>1, <4>2, <4>3, MoveTells
      <4>5. tmp' # idx'
        BY <1>1, <2>1, <2>2, SiftAssumption DEF SiftGood, HoleGood, Place
      <4> QED
        BY <1>1, <2>1, <4>4, <4>5 DEF ToldGood, Sifting
    <3> QED
      BY <3>1, <3>2
  <2> QED
    BY <1>1, <1>3, <2>2, <2>3, <2>4, <2>5, <2>6 DEF ArrayInv, Placed
<1> QED
  BY <1>2, <1>3

\* A parent moves down, in a tl_heap_up of the caller's.
LEMMA UpMovesKeeps ==
  ASSUME ArrayInv, UpMoves(TRUE), UNCHANGED <<b, adjusting>>
  PROVE  ArrayInv'
<1> DEFINE p == parent(tmp)
<1>1. /\ Placed /\ pc = "up" /\ array' = [array EXCEPT ![tmp] = array[p]] /\ tmp' = p
      /\ told' = [told EXCEPT ![array[p]] = tmp]
      /\ UNCHANGED <<raft, key, used, pc, idx, ele, lo, b, adjusting>>
      /\ Sane /\ Sane' /\ ~adjusting /\ lo = 0 /\ told \in [Item -> Int]
  BY DEF ArrayInv, Placed, UpMoves, MoveTo, Sane
<1>2. SiftGood /\ Distinct /\ Sifting /\ used \in 0 .. Size
  BY <1>1 DEF Placed, SiftGood, SiftTyped, Sifting
<1>3. /\ SiftGood' /\ p < tmp
      /\ tmp \in 0 .. used - 1 /\ p \in 0 .. used - 1 /\ Swaps(tmp, p)
      /\ \A i \in Place \ {tmp} : Filled[i] = array[i]
  BY <1>2, UpGood
<1> HIDE DEF p
<1>4. Distinct'
  BY <1>1, <1>2, <1>3, SwapKeepsAll
<1>5. b = 0 => OrderedFrom(lo)'
  BY <1>1, <1>2, UpKeeps DEF ArrayInv
<1>6. told' \in [Item -> Int] /\ ToldGood'
  <2>1. \A i \in 0 .. used - 1 : i = tmp \/ told[array[i]] = i
    BY <1>1 DEF Placed, ToldGood
  <2>2. p # tmp
    BY <1>3
  <2>3. told' \in [Item -> Int] /\ \A i \in 0 .. used - 1 : i = p \/ told'[array'[i]] = i
    BY <1>1, <1>2, <1>3, <2>1, <2>2, MoveTells
  <2>4. tmp' # idx'
    BY <1>1, <1>2, <1>3, SiftAssumption DEF SiftGood, HoleGood, Place
  <2> QED
    BY <1>1, <1>2, <2>3, <2>4 DEF ToldGood, Sifting
<1> QED
  BY <1>1, <1>3, <1>4, <1>5, <1>6 DEF ArrayInv, Placed

\* The element goes into the hole, and getidx tells the place of it.
LEMMA EndsKeeps ==
  ASSUME ArrayInv, ~adjusting, SiftEnds(TRUE), pc' = "idle",
         UNCHANGED <<idx, tmp, ele, lo, b, adjusting>>
  PROVE  ArrayInv'
<1>1. /\ Placed /\ Sifting /\ Sane /\ SiftGood /\ Distinct /\ lo = 0 /\ ToldGood
      /\ UNCHANGED <<raft, key, used, lo, b, adjusting>> /\ told \in [Item -> Int]
  BY DEF ArrayInv, Placed, SiftEnds, Stops, Sifting, Sane
<1>2. /\ array' = Filled /\ Filled \in [Place -> Item \cup {Junk}]
      /\ Filled[tmp] = ele /\ \A i \in Place \ {tmp} : Filled[i] = array[i]
      /\ \A i \in 0 .. used - 1 : i \in Place /\ Filled[i] \in Item
  BY <1>1, EndGood
<1>3. Filled' = array' /\ ~Sifting'
  BY DEF Filled, Sifting
<1>4. SiftGood'
  BY <1>1, <1>2, <1>3 DEF SiftGood, SiftTyped, ElementsGood
<1>5. Distinct'
  BY <1>1, <1>2, <1>3 DEF Distinct
<1>6. b = 0 => OrderedFrom(lo)'
  <2> SUFFICES ASSUME b = 0 PROVE OrderedFrom(0)'
    BY <1>1
  <2>1. OrderedFrom(0) /\ pc' \notin {"down", "up"}
    BY <1>1 DEF ArrayInv
  <2> QED
    BY <1>1, <2>1, EndKeeps
<1>7. ele \in Item /\ tmp \in Int /\ tmp \in Place
  BY <1>1, SiftAssumption DEF SiftGood, HoleGood, Place
<1>8. told' = IF idx = tmp THEN told ELSE [told EXCEPT ![ele] = tmp]
  BY DEF SiftEnds, PutBack, MoveTo
<1>9. told' \in [Item -> Int] /\ told'[ele] = tmp
      /\ \A x \in Item \ {ele} : told'[x] = told[x]
  BY <1>1, <1>7, <1>8 DEF ToldGood
<1>10. ASSUME NEW i \in 0 .. used - 1 PROVE told'[array'[i]] = i
  <2>1. CASE i = tmp
    BY <1>2, <1>9, <2>1
  <2>2. CASE i # tmp
    <3>1. Filled[i] # ele
      <4>1. CASE tmp \in 0 .. used - 1
        BY <1>1, <1>2, <2>2, <4>1 DEF Distinct
      <4>2. CASE tmp \notin 0 .. used - 1
        BY <1>1, <1>10, <4>2, SiftAssumption DEF SiftGood, SiftTyped, HoleGood, Place
      <4> QED
        BY <4>1, <4>2
    <3>2. Filled[i] = array[i] /\ Filled[i] \in Item /\ told[array[i]] = i
      BY <1>1, <1>2, <2>2 DEF ToldGood
    <3> QED
      BY <1>2, <1>9, <3>1, <3>2
  <2> QED
    BY <2>1, <2>2
<1>11. ToldGood'
  BY <1>1, <1>3, <1>10 DEF ToldGood
<1> QED
  BY <1>1, <1>4, <1>5, <1>6, <1>9, <1>11 DEF ArrayInv, Placed

-----------------------------------------------------------------------------
(* The caller. *)

\* Between the calls.
LEMMA AtRest ==
  ASSUME ArrayInv, pc \in {"adjusted", "idle"}
  PROVE  /\ SiftGood /\ Distinct /\ ~Sifting /\ Sane /\ ~adjusting /\ lo = 0 /\ Filled = array
         /\ raft \in BOOLEAN /\ key \in [Item -> Int] /\ told \in [Item -> Int] /\ b \in Nat
         /\ array \in [Place -> Item \cup {Junk}] /\ used \in Nat /\ used <= Size /\ Size \in Nat
         /\ \A i \in 0 .. used - 1 : i \in Place /\ array[i] \in Item
         /\ \A i \in 0 .. used - 1, j \in 0 .. used - 1 : array[i] = array[j] => i = j
         /\ b = 0 => OrderedFrom(0) /\ Settles
         /\ pc = "idle" => \A i \in 0 .. used - 1 : told[array[i]] = i
<1>1. /\ ~Sifting /\ Sane /\ ~adjusting /\ Placed /\ lo = 0
  BY DEF ArrayInv, Placed, Sane, Sifting
<1>2. SiftGood /\ Distinct /\ Filled = array
  BY <1>1 DEF Placed, Filled
<1>3. /\ array \in [Place -> Item \cup {Junk}] /\ used \in Nat /\ used <= Size /\ Size \in Nat
  BY <1>2, SiftAssumption DEF SiftGood, SiftTyped
<1>4. \A i \in 0 .. used - 1 : i \in Place /\ array[i] \in Item
  BY <1>1, <1>2, <1>3 DEF SiftGood, ElementsGood, Place
<1>5. \A i \in 0 .. used - 1, j \in 0 .. used - 1 : array[i] = array[j] => i = j
  BY <1>2 DEF Distinct
<1>6. pc = "idle" => \A i \in 0 .. used - 1 : told[array[i]] = i
  BY <1>1 DEF Placed, ToldGood
<1>7. b = 0 => OrderedFrom(0) /\ Settles
  BY <1>1, <1>2 DEF ArrayInv, Settles
<1> QED
  BY <1>1, <1>2, <1>3, <1>4, <1>5, <1>6, <1>7 DEF Placed

\* The caller sees for itself where tl_heap_adjust has left the elements.
LEMMA LookKeeps ==
  ASSUME ArrayInv, Look
  PROVE  ArrayInv'
<1> DEFINE Found(x) == \E i \in 0 .. used - 1 : array[i] = x
           Where(x) == CHOOSE i \in 0 .. used - 1 : array[i] = x
<1>1. /\ pc = "adjusted" /\ pc' = "idle"
      /\ told' = [x \in Item |-> IF Found(x) THEN Where(x) ELSE told[x]]
      /\ UNCHANGED <<raft, key, array, used, idx, tmp, ele, lo, b, adjusting>>
  BY DEF Look
<1>2. /\ SiftGood /\ Distinct /\ ~Sifting /\ Sane /\ ~adjusting /\ lo = 0 /\ Filled = array
      /\ told \in [Item -> Int] /\ used \in Nat
      /\ \A i \in 0 .. used - 1 : i \in Place /\ array[i] \in Item
      /\ \A i \in 0 .. used - 1, j \in 0 .. used - 1 : array[i] = array[j] => i = j
      /\ b = 0 => OrderedFrom(0)
  BY <1>1, AtRest
<1>3. \A x \in Item : Found(x) => Where(x) \in 0 .. used - 1 /\ array[Where(x)] = x
  OBVIOUS
<1> HIDE DEF Where
<1>4. told' \in [Item -> Int]
  <2>1. \A x \in Item : Found(x) => Where(x) \in Int
    BY <1>2, <1>3
  <2> HIDE DEF Found
  <2> QED
    BY <1>1, <1>2, <2>1
<1>5. ASSUME NEW i \in 0 .. used - 1 PROVE told'[array[i]] = i
  <2>1. Found(array[i]) /\ array[i] \in Item
    BY <1>2
  <2>2. Where(array[i]) \in 0 .. used - 1 /\ array[Where(array[i])] = array[i]
    BY <1>3, <2>1
  <2>3. Where(array[i]) = i
    BY <1>2, <2>2
  <2> HIDE DEF Found
  <2> QED
    BY <1>1, <2>1, <2>3
<1>6. ~Sifting' /\ Filled' = array' /\ Sane'
  BY <1>1, <1>2 DEF Sifting, Filled, Sane
<1>7. SiftGood' /\ Distinct' /\ ToldGood'
  BY <1>1, <1>2, <1>5, <1>6 DEF SiftGood, SiftTyped, ElementsGood, Distinct, ToldGood
<1>8. b = 0 => OrderedFrom(lo)'
  BY <1>1, <1>2, <1>6 DEF OrderedFrom, Settled, Beats, Sifting
<1> QED
  BY <1>1, <1>2, <1>4, <1>7, <1>8 DEF ArrayInv, Placed

\* A call of tl_heap_up or tl_heap_down for place p of an array with n elements, all
\* of whose places but p have been told.
LEMMA CallGood ==
  ASSUME NEW where \in {"up", "down"}, NEW a \in [Place -> Item \cup {Junk}],
         NEW n \in 0 .. Size, NEW p \in Place, p < n \/ (n = 0 /\ p = 0),
         StartAt(where, a, n, p), a[p] \in Item,
         \A i \in 0 .. n - 1 : a[i] \in Item,
         \A i \in 0 .. n - 1, j \in 0 .. n - 1 : a[i] = a[j] => i = j,
         raft \in BOOLEAN, raft' = raft, key' \in [Item -> Int],
         told' \in [Item -> Int], told'[a[p]] = p,
         \A i \in 0 .. n - 1 : i # p => told'[a[i]] = i
  PROVE  SiftGood' /\ Distinct' /\ ToldGood' /\ Filled' = a /\ Sifting'
<1>1. array' = a /\ used' = n /\ pc' = where /\ idx' = p /\ tmp' = p /\ ele' = a[p] /\ Sifting'
  BY DEF StartAt, Sifting
<1>2. Filled' = a
  BY <1>1 DEF Filled
<1>3. SiftGood'
  <2>1. SiftTyped' /\ ElementsGood'
    BY <1>1 DEF SiftTyped, ElementsGood
  <2>2. p <= p
    BY SiftAssumption DEF Place
  <2>3. HoleGood'
    BY <1>1, <2>2 DEF HoleGood
  <2> QED
    BY <2>1, <2>3 DEF SiftGood
<1>4. Distinct'
  BY <1>1, <1>2 DEF Distinct
<1>5. ToldGood'
  BY <1>1 DEF ToldGood
<1> QED
  BY <1>1, <1>2, <1>3, <1>4, <1>5

\* What it takes for the rest of the invariant.
LEMMA CallKeeps ==
  ASSUME Placed, SiftGood', Distinct', ToldGood', Sifting', ~adjusting, lo = 0,
         raft' = raft, key' \in [Item -> Int], told' \in [Item -> Int],
         UNCHANGED <<lo, b, adjusting>>, b = 0 => OrderedFrom(0)'
  PROVE  ArrayInv'
<1>1. Sane' /\ pc' \in {"down", "up"}
  BY DEF Sane, Sifting
<1> QED
  BY <1>1 DEF ArrayInv, Placed

\* The caller puts an element behind the last and calls tl_heap_up for it.
LEMMA AppendKeeps ==
  ASSUME ArrayInv, NEW x \in Item, AppendLast(x)
  PROVE  ArrayInv'
<1> DEFINE a == [array EXCEPT ![used] = x]
<1>1. /\ pc = "idle" /\ used < Size /\ x \notin Contents
      /\ StartAt("up", a, used + 1, used) /\ told' = [told EXCEPT ![x] = used]
      /\ UNCHANGED <<raft, key, lo, b, adjusting>>
  BY DEF AppendLast
<1>2. /\ Placed /\ ~adjusting /\ lo = 0 /\ Filled = array
      /\ raft \in BOOLEAN /\ key \in [Item -> Int] /\ told \in [Item -> Int]
      /\ array \in [Place -> Item \cup {Junk}] /\ used \in Nat /\ used <= Size /\ Size \in Nat
      /\ \A i \in 0 .. used - 1 : i \in Place /\ array[i] \in Item
      /\ \A i \in 0 .. used - 1, j \in 0 .. used - 1 : array[i] = array[j] => i = j
      /\ \A i \in 0 .. used - 1 : told[array[i]] = i
      /\ (b = 0 => Settles)
  BY <1>1, AtRest DEF ArrayInv
<1>3. used \in Place
  BY <1>1, <1>2 DEF Place
<1>4. /\ a \in [Place -> Item \cup {Junk}] /\ a[used] = x
      /\ \A i \in 0 .. used - 1 : a[i] = array[i] /\ array[i] # x
  BY <1>1, <1>2, <1>3 DEF Contents
<1> HIDE DEF a
<1>5. \A i \in 0 .. (used + 1) - 1 : i = used \/ i \in 0 .. used - 1
  BY <1>2
<1>6. /\ \A i \in 0 .. (used + 1) - 1 : a[i] \in Item
      /\ \A i \in 0 .. (used + 1) - 1, j \in 0 .. (used + 1) - 1 : a[i] = a[j] => i = j
  BY <1>2, <1>4, <1>5
<1>7. /\ told' \in [Item -> Int] /\ told'[a[used]] = used
      /\ \A i \in 0 .. (used + 1) - 1 : i # used => told'[a[i]] = i
  BY <1>1, <1>2, <1>4, <1>5
<1>8. SiftGood' /\ Distinct' /\ ToldGood' /\ Sifting'
  <2>1. used + 1 \in 0 .. Size /\ used < used + 1
    BY <1>1, <1>2
  <2> QED
    BY <1>1, <1>2, <1>3, <1>4, <1>6, <1>7, <2>1, CallGood
<1>9. b = 0 => OrderedFrom(0)'
  BY <1>1, <1>2, AppendStarts DEF a
<1> QED
  BY <1>1, <1>2, <1>7, <1>8, <1>9, CallKeeps

\* The last element takes the place of the first, and goes down from there.
LEMMA TakeTopKeeps ==
  ASSUME ArrayInv, TakeTop
  PROVE  ArrayInv'
<1> DEFINE x == array[used - 1]
           a == [array EXCEPT ![0] = x]
<1>1. /\ pc = "idle" /\ used > 0
      /\ StartAt("down", a, used - 1, 0) /\ told' = [told EXCEPT ![x] = 0]
      /\ UNCHANGED <<raft, key, lo, b, adjusting>>
  BY DEF TakeTop
<1>2. /\ Placed /\ ~adjusting /\ lo = 0
      /\ raft \in BOOLEAN /\ key \in [Item -> Int] /\ told \in [Item -> Int]
      /\ array \in [Place -> Item \cup {Junk}] /\ used \in Nat /\ used <= Size /\ Size \in Nat
      /\ \A i \in 0 .. used - 1 : i \in Place /\ array[i] \in Item
      /\ \A i \in 0 .. used - 1, j \in 0 .. used - 1 : array[i] = array[j] => i = j
      /\ \A i \in 0 .. used - 1 : told[array[i]] = i
      /\ (b = 0 => Settles)
  BY <1>1, AtRest DEF ArrayInv
<1>3. 0 \in Place /\ used - 1 \in 0 .. used - 1 /\ x \in Item
  BY <1>1, <1>2 DEF Place
<1>4. /\ a \in [Place -> Item \cup {Junk}] /\ a[0] = x
      /\ \A i \in 0 .. (used - 1) - 1 : i # 0 => a[i] = array[i] /\ array[i] # x
  BY <1>1, <1>2, <1>3
<1>5. /\ \A i \in 0 .. (used - 1) - 1 : a[i] \in Item
      /\ \A i \in 0 .. (used - 1) - 1, j \in 0 .. (used - 1) - 1 : a[i] = a[j] => i = j
  <2>1. \A i \in 0 .. (used - 1) - 1 : i \in 0 .. used - 1
    BY <1>2
  <2> HIDE DEF a, x
  <2> QED
    BY <1>2, <1>3, <1>4, <2>1
<1>6. /\ told' \in [Item -> Int] /\ told'[a[0]] = 0
      /\ \A i \in 0 .. (used - 1) - 1 : i # 0 => told'[a[i]] = i
  <2>1. \A i \in 0 .. (used - 1) - 1 : i \in 0 .. used - 1
    BY <1>2
  <2> HIDE DEF a, x
  <2> QED
    BY <1>1, <1>2, <1>3, <1>4, <1>5, <2>1
<1> HIDE DEF x
<1>7. SiftGood' /\ Distinct' /\ ToldGood' /\ Sifting'
  <2> HIDE DEF a
  <2>1. used - 1 \in 0 .. Size /\ (0 < used - 1 \/ (used - 1 = 0 /\ 0 = 0))
    BY <1>1, <1>2
  <2> QED
    BY <1>1, <1>2, <1>3, <1>4, <1>5, <1>6, <2>1, CallGood
<1>8. b = 0 => OrderedFrom(0)'
  <2>1. used - 1 \in 0 .. used
    BY <1>1, <1>2
  <2> QED
    BY <1>1, <1>2, <1>3, <2>1, ReplaceStarts
<1> QED
  BY <1>1, <1>2, <1>6, <1>7, <1>8, CallKeeps

\* The element at p is moved towards the top if it has become better, and down if it
\* has become worse: it is the only one that may be out of order.
LEMMA RekeyOrders ==
  ASSUME Settles, NEW p \in 0 .. used - 1, NEW k \in Int, k # key[array[p]],
         key' = [key EXCEPT ![array[p]] = k], raft' = raft,
         \A i \in 0 .. used - 1, j \in 0 .. used - 1 : array[i] = array[j] => i = j,
         array' = array, used' = used, tmp' = p, Filled' = array,
         pc' = IF raft = (k > key[array[p]]) THEN "up" ELSE "down"
  PROVE  OrderedFrom(0)'
<1> DEFINE x == array[p]
<1>1. /\ used \in Nat /\ used <= Size /\ Size \in Nat
      /\ \A i \in 0 .. used - 1 : i \in Place /\ array[i] \in Item
      /\ \A i \in 1 .. used - 1 : /\ parent(i) \in 0 .. used - 1 /\ parent(i) < i
                                  /\ ~Beats(array[i], array[parent(i)])
  BY SettledOrder
<1>2. raft \in BOOLEAN /\ key \in [Item -> Int] /\ x \in Item
  BY <1>1 DEF Settles, SiftGood, SiftTyped
<1>3. /\ \A i \in 0 .. used - 1 : i # p => key'[array[i]] = key[array[i]]
      /\ key'[x] = k
  BY <1>1, <1>2
<1>4. \A i \in 0 .. used - 1 : key[array[i]] \in Int
  BY <1>1, <1>2
<1>5. pc' = "up" => \A y \in Item : ~Beats(y, x) =>
                      ~(IF raft THEN key[y] > k ELSE key[y] < k)
  BY <1>2 DEF Beats
<1>6. pc' = "down" => \A y \in Item : ~Beats(x, y) =>
                        ~(IF raft THEN k > key[y] ELSE k < key[y])
  BY <1>2 DEF Beats
<1>7. ASSUME NEW i \in 1 .. used - 1
      PROVE  /\ ~(pc' = "down" /\ parent(i) = p) /\ ~(pc' = "up" /\ i = p) => Settled(i)'
             /\ parent(i) = p /\ p # 0 => ~Beats(array[i], array[parent(p)])'
  <2>1. i \in 0 .. used - 1 /\ parent(i) \in 0 .. used - 1 /\ parent(i) < i
        /\ ~Beats(array[i], array[parent(i)])
    BY <1>1
  <2>2. Settled(i)' <=> ~(IF raft THEN key'[array[i]] > key'[array[parent(i)]]
                          ELSE key'[array[i]] < key'[array[parent(i)]])
    BY DEF Settled, Beats
  <2>3. CASE i # p /\ parent(i) # p
    BY <1>3, <2>1, <2>2, <2>3 DEF Beats
  <2>4. CASE i = p
    <3>1. parent(i) # p
      BY <1>1, <2>1, <2>4
    <3>2. pc' = "down" => Settled(i)'
      BY <1>1, <1>3, <1>6, <2>1, <2>2, <2>4, <3>1
    <3> QED
      BY <2>4, <3>1, <3>2
  <2>5. CASE parent(i) = p
    <3>1. i # p
      BY <1>1, <2>1, <2>5
    <3>2. pc' = "up" => Settled(i)'
      BY <1>1, <1>3, <1>5, <2>1, <2>2, <2>5, <3>1
    <3>3. p # 0 => ~Beats(array[i], array[parent(p)])'
      <4> SUFFICES ASSUME p # 0 PROVE ~Beats(array[i], array[parent(p)])'
        OBVIOUS
      <4>1. p \in 1 .. used - 1 /\ parent(p) \in 0 .. used - 1 /\ parent(p) # p
            /\ ~Beats(array[p], array[parent(p)])
        BY <1>1
      <4>2. ~Beats(array[i], array[parent(p)])
        BY <1>1, <1>2, <2>1, <2>5, <4>1, BeatsOrders
      <4> QED
        BY <1>3, <2>1, <3>1, <4>1, <4>2 DEF Beats
    <3> QED
      BY <2>5, <3>1, <3>2, <3>3
  <2> QED
    BY <2>3, <2>4, <2>5
<1> QED
  BY <1>7 DEF OrderedFrom, Beats

\* The caller changes the key of an element where it is and moves it up or down.
LEMMA RekeyKeeps ==
  ASSUME ArrayInv, NEW x \in Item, NEW k \in Key, Rekey(x, k)
  PROVE  ArrayInv'
<1> DEFINE where == IF raft = (k > key[x]) THEN "up" ELSE "down"
<1>1. /\ pc = "idle" /\ x \in Contents /\ k # key[x] /\ k \in Int
      /\ key' = [key EXCEPT ![x] = k] /\ StartAt(where, array, used, told[x])
      /\ UNCHANGED <<raft, told, lo, b, adjusting>>
  BY SiftAssumption DEF Rekey
<1>2. /\ Placed /\ ~adjusting /\ lo = 0 /\ Filled = array
      /\ raft \in BOOLEAN /\ key \in [Item -> Int] /\ told \in [Item -> Int]
      /\ array \in [Place -> Item \cup {Junk}] /\ used \in Nat /\ used <= Size /\ Size \in Nat
      /\ \A i \in 0 .. used - 1 : i \in Place /\ array[i] \in Item
      /\ \A i \in 0 .. used - 1, j \in 0 .. used - 1 : array[i] = array[j] => i = j
      /\ \A i \in 0 .. used - 1 : told[array[i]] = i
      /\ (b = 0 => Settles)
  BY <1>1, AtRest DEF ArrayInv
<1>3. PICK p \in 0 .. used - 1 : array[p] = x
  BY <1>1, <1>2 DEF Contents
<1>4. told[x] = p /\ p \in Place /\ p < used
  BY <1>2, <1>3
<1>5. key' \in [Item -> Int]
  BY <1>1, <1>2
<1>6. SiftGood' /\ Distinct' /\ ToldGood' /\ Sifting' /\ Filled' = array
  <2>1. where \in {"up", "down"} /\ used \in 0 .. Size
    BY <1>2
  <2> HIDE DEF where
  <2>2. StartAt(where, array, used, p)
    BY <1>1, <1>4
  <2>3. /\ raft' = raft /\ told' = told /\ told' \in [Item -> Int] /\ array[p] \in Item
        /\ told'[array[p]] = p /\ \A i \in 0 .. used - 1 : i # p => told'[array[i]] = i
    BY <1>1, <1>2, <1>3, <1>4
  <2>4. /\ \A i \in 0 .. used - 1 : array[i] \in Item
        /\ \A i \in 0 .. used - 1, j \in 0 .. used - 1 : array[i] = array[j] => i = j
    BY <1>2
  <2> QED
    BY <1>2, <1>4, <1>5, <2>1, <2>2, <2>3, <2>4, CallGood
<1>7. b = 0 => OrderedFrom(0)'
  <2>1. array' = array /\ used' = used /\ tmp' = p /\ pc' = where
    BY <1>1, <1>4 DEF StartAt
  <2> QED
    BY <1>1, <1>2, <1>3, <1>6, <2>1, RekeyOrders
<1> QED
  BY <1>1, <1>2, <1>5, <1>6, <1>7, CallKeeps

-----------------------------------------------------------------------------
(* The invariant is inductive: one lemma per action. *)
LEMMA NextArrayInv == ArrayInv /\ [ArrayNext]_arrayVars => ArrayInv'
<1> SUFFICES ASSUME ArrayInv, [ArrayNext]_arrayVars PROVE ArrayInv'
  OBVIOUS
<1>1. CASE \E first \in AdjustFrom, e \in 0 .. Size : AdjustTooShort(first, e) \/ Adjust(first, e)
  BY <1>1, HeapArrayAssumption, TooShortKeeps, AdjustKeeps
<1>2. CASE Look \/ TakeTop
  BY <1>2, LookKeeps, TakeTopKeeps
<1>3. CASE ArrayStep
  <2>1. CASE DownMoves(~adjusting) /\ UNCHANGED <<b, adjusting>>
    BY <2>1, DownMovesKeeps
  <2>2. CASE UpMoves(TRUE) /\ UNCHANGED <<b, adjusting>>
    BY <2>2, UpMovesKeeps
  <2>3. CASE /\ ~adjusting /\ SiftEnds(TRUE)
             /\ pc' = "idle" /\ UNCHANGED <<idx, tmp, ele, lo, b, adjusting>>
    BY <2>3, EndsKeeps
  <2>4. CASE AdjustNext \/ AdjustEnds \/ AdjustWraps
    BY <2>4, AdjustNextKeeps, AdjustEndsKeeps, AdjustWrapsKeeps
  <2> QED
    BY <1>3, <2>1, <2>2, <2>3, <2>4 DEF ArrayStep
<1>4. CASE \E x \in Item : AppendLast(x) \/ \E k \in Key : Rekey(x, k)
  BY <1>4, AppendKeeps, RekeyKeeps
<1>5. CASE UNCHANGED arrayVars
  BY <1>5 DEF arrayVars, ArrayInv, Placed, Sane, SiftGood, SiftTyped, ElementsGood, HoleGood, Distinct,
              ToldGood, OrderedFrom, Settled, Filled, Beats, Sifting, BestChild
<1> QED
  BY <1>1, <1>2, <1>3, <1>4, <1>5 DEF ArrayNext

(* Adjusted from its first element, the caller's array is a heap from where
   tl_heap_adjust has come to, and stays one in tl_heap_up and tl_heap_down but for
   the element on its way, whatever keys are changed. *)
THEOREM ArraysOrdered == ArraySpec => []ArrayOrdered
<1>1. ArrayInv => ArrayOrdered
  BY DEF ArrayInv, ArrayOrdered
<1> QED
  BY <1>1, InitArrayInv, NextArrayInv, PTL DEF ArraySpec

(* getidx has told the place of every element, whatever tl_heap_adjust was given. *)
THEOREM PlacesTold == ArraySpec => []ToldExact
<1>1. ArrayInv => ToldExact
  BY DEF ArrayInv, Placed, ToldGood, ToldExact
<1> QED
  BY <1>1, InitArrayInv, NextArrayInv, PTL DEF ArraySpec
=============================================================================
