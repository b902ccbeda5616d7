----------------------------- MODULE QueueProofs -----------------------------
(***************************************************************************)
(* The chunk lists of tl_queue, for any number of chunks and of elements   *)
(* in a chunk.  The chunks in use are U[i] .. U[j - 1], from the head to   *)
(* the tail, and the spares F[n - 1] .. F[0], the first to be taken again  *)
(* at the front.  So a push or a pop moves one of i, j and n, and no chunk *)
(* changes its place in a row.                                             *)
(* tl_queue is a FIFO by what the lists are when they are followed link by *)
(* link, and by what each call does to the elements in them.               *)
(***************************************************************************)
EXTENDS Queue, FiniteSetTheorems, NaturalsInduction, SequenceTheorems, WellFoundedInduction,
        TLAPS

Chunk == [s : 0 .. CHUNK, e : 0 .. CHUNK, next : Chunks \cup {NULL, Junk},
          container : [Place -> Val \cup {Junk}]]
Lists == [Chunks -> Chunk]

Row == [Nat -> Chunks \cup {NULL}]

\* The fields of the chunks, and of the queue itself.
Typed ==
  /\ size \in Nat /\ peak \in Nat /\ size <= peak
  /\ list \in Lists
  /\ heap \subseteq Chunks /\ IsFiniteSet(heap)
  /\ pc \in {"none", "open", "free_f", "free_h"}
  /\ abort = FALSE

\* The chunks from U[i] on are linked in this order, the last to none.
UsedIs(U, i, j) ==
  /\ i <= j
  /\ \A k \in i .. j - 1 : U[k] \in heap
  /\ \A k \in i .. j - 1, m \in i .. j - 1 : U[k] = U[m] => k = m
  /\ \A k \in i .. j - 1 : list[U[k]].next = IF k + 1 = j THEN NULL ELSE U[k + 1]

SparesAre(F, n) ==
  /\ \A k \in 0 .. n - 1 : F[k] \in heap
  /\ \A k \in 0 .. n - 1, m \in 0 .. n - 1 : F[k] = F[m] => k = m
  /\ \A k \in 0 .. n - 1 : list[F[k]].next = IF k = 0 THEN NULL ELSE F[k - 1]

\* No chunk is in both rows, and none is lost.
Apart(U, i, j, F, n) ==
  /\ \A k \in i .. j - 1, m \in 0 .. n - 1 : U[k] # F[m]
  /\ \A x \in heap : (\E k \in i .. j - 1 : U[k] = x) \/ \E k \in 0 .. n - 1 : F[k] = x
  /\ Cardinality(heap) = (j - i) + n

\* Elements are missing at the front of the head and at the back of the tail only.
Windows(U, i, j) ==
  /\ \A k \in i .. j - 1 : /\ list[U[k]].s < list[U[k]].e
                           /\ k > i => list[U[k]].s = 0
                           /\ k + 1 < j => list[U[k]].e = CHUNK
  /\ size = IF i = j THEN 0 ELSE (j - 1 - i) * CHUNK + list[U[j - 1]].e - list[U[i]].s

FirstUsed(U, i, j) == IF i = j THEN NULL ELSE U[i]
LastUsed(U, i, j) == IF i = j THEN NULL ELSE U[j - 1]
FirstSpare(F, n) == IF n = 0 THEN NULL ELSE F[n - 1]

Rows(U, i, j, F, n) ==
  /\ UsedIs(U, i, j) /\ SparesAre(F, n) /\ Apart(U, i, j, F, n)
  /\ pc \in {"none", "open"} =>
       /\ Windows(U, i, j) /\ l = NULL
       /\ h = FirstUsed(U, i, j) /\ t = LastUsed(U, i, j) /\ f = FirstSpare(F, n)
  /\ pc = "free_f" => h = FirstUsed(U, i, j) /\ l = FirstSpare(F, n)
  /\ pc = "free_h" => n = 0 /\ l = FirstUsed(U, i, j)

\* What the caller holds is the first element.
HeldGood ==
  held # Nowhere => /\ pc = "open" /\ h \in heap
                    /\ held.chunk = h /\ held.at = list[h].s
                    /\ list[h].container[list[h].s] = held.ele

IInv ==
  /\ Typed /\ HeldGood
  /\ pc = "none" => heap = {} /\ size = 0
  /\ pc = "open" => Cardinality(heap) * CHUNK <= peak + 2 * CHUNK - 2
  /\ \E U \in Row, i \in Nat, j \in Nat, F \in Row, n \in Nat : Rows(U, i, j, F, n)

-----------------------------------------------------------------------------
(* One chunk more holds CHUNK elements more. *)
LEMMA Times ==
  ASSUME NEW a \in Int
  PROVE  /\ a * CHUNK \in Int /\ (a + 1) * CHUNK = a * CHUNK + CHUNK
         /\ (a - 1) * CHUNK = a * CHUNK - CHUNK
BY QueueAssumption

\* Without chunks there is nothing to say.
LEMMA InitIInv == Init => IInv
<1> SUFFICES ASSUME Init PROVE IInv
  OBVIOUS
<1> DEFINE R == [k \in Nat |-> NULL]
<1>1. R \in Row /\ 0 \in Nat
  BY DEF Row
<1>2. NoList \in Chunk
  BY QueueAssumption DEF NoList, Chunk
<1>3. IsFiniteSet(heap) /\ Cardinality(heap) = 0
  BY FS_EmptySet DEF Init
<1>4. Typed
  BY <1>2, <1>3 DEF Init, Typed, Lists
<1>5. Rows(R, 0, 0, R, 0)
  BY <1>3 DEF Init, Rows, UsedIs, SparesAre, Apart, Windows, FirstUsed, LastUsed, FirstSpare
<1> QED
  BY <1>1, <1>4, <1>5 DEF Init, IInv, HeldGood

-----------------------------------------------------------------------------
(* tl_queue_push. *)

\* The rows of an open queue, read from its fields.
LEMMA OpenRows ==
  ASSUME Typed, pc = "open", NEW U \in Row, NEW i \in Nat, NEW j \in Nat, NEW F \in Row,
         NEW n \in Nat, Rows(U, i, j, F, n)
  PROVE  /\ i <= j /\ (t = NULL <=> i = j) /\ (h = NULL <=> i = j) /\ (f = NULL <=> n = 0)
         /\ i < j => /\ t = U[j - 1] /\ h = U[i] /\ t \in heap /\ h \in heap
                     /\ list[t].next = NULL
         /\ n > 0 => f = F[n - 1] /\ f \in heap /\ list[f].next = FirstSpare(F, n - 1)
         /\ list \in Lists /\ size \in Nat
<1>1. NULL \notin heap
  BY QueueAssumption DEF Typed
<1>2. i <= j /\ h = FirstUsed(U, i, j) /\ t = LastUsed(U, i, j) /\ f = FirstSpare(F, n)
  BY DEF Rows, UsedIs
<1>3. i < j => i \in i .. j - 1 /\ j - 1 \in i .. j - 1
  OBVIOUS
<1>4. n > 0 => n - 1 \in 0 .. n - 1
  OBVIOUS
<1>5. i < j => /\ t = U[j - 1] /\ h = U[i] /\ t \in heap /\ h \in heap
               /\ list[t].next = NULL
  BY <1>2, <1>3 DEF Rows, UsedIs, FirstUsed, LastUsed
<1>6. n > 0 => f = F[n - 1] /\ f \in heap /\ list[f].next = FirstSpare(F, n - 1)
  BY <1>2, <1>4 DEF Rows, SparesAre, FirstSpare
<1>7. i = j => t = NULL /\ h = NULL
  BY <1>2 DEF FirstUsed, LastUsed
<1>8. n = 0 => f = NULL
  BY <1>2 DEF FirstSpare
<1> QED
  BY <1>1, <1>2, <1>5, <1>6, <1>7, <1>8 DEF Typed

\* An element is written behind the others of its chunk.
LEMMA StoreGood ==
  ASSUME NEW L \in Lists, NEW c \in Chunks, NEW v \in Val, L[c].e < CHUNK, Store(L, c, v)
  PROVE  /\ list' \in Lists
         /\ list'[c].s = L[c].s /\ list'[c].e = L[c].e + 1 /\ list'[c].next = L[c].next
         /\ list'[c].container[L[c].e] = v
         /\ \A p \in Place : p # L[c].e => list'[c].container[p] = L[c].container[p]
         /\ \A x \in Chunks \ {c} : list'[x] = L[x]
<1> DEFINE con == [L[c].container EXCEPT ![L[c].e] = v]
           r == [L[c] EXCEPT !.container = con, !.e = L[c].e + 1]
<1>1. /\ L[c] \in Chunk /\ L[c].e \in Place /\ L[c].e + 1 \in 0 .. CHUNK
      /\ L[c].container \in [Place -> Val \cup {Junk}]
  BY QueueAssumption DEF Lists, Chunk, Place
<1>2. list' = [L EXCEPT ![c] = r]
  BY <1>1 DEF Store, Lists, Chunk
<1>3. /\ con \in [Place -> Val \cup {Junk}] /\ con[L[c].e] = v
      /\ \A p \in Place : p # L[c].e => con[p] = L[c].container[p]
  BY <1>1
<1> HIDE DEF con
<1>4. r \in Chunk /\ r.s = L[c].s /\ r.e = L[c].e + 1 /\ r.next = L[c].next /\ r.container = con
  BY <1>1, <1>3 DEF Chunk
<1> HIDE DEF r
<1> QED
  BY <1>2, <1>3, <1>4 DEF Lists

\* The chunks after newList has found c, with the link from the old tail.
Linked(L, c) ==
  /\ L[c].s = 0 /\ L[c].e = 0 /\ L[c].next = NULL
  /\ t # NULL => /\ list[t].e = CHUNK /\ L[t].next = c /\ L[t].s = list[t].s
                 /\ L[t].e = list[t].e /\ L[t].container = list[t].container
  /\ \A x \in Chunks : x # c /\ x # t => L[x] = list[x]

\* A chunk that newList has found stands behind the tail, with one element in it.
LEMMA GrowRows ==
  ASSUME Typed, pc = "open", NEW U \in Row, NEW i \in Nat, NEW j \in Nat, NEW F \in Row,
         NEW n \in Nat, Rows(U, i, j, F, n),
         NEW L \in Lists, NEW c \in Chunks, NEW v \in Val, NewList(c), Store(L, c, v),
         Linked(L, c)
  PROVE  /\ Rows([U EXCEPT ![j] = c], i, j + 1, F, IF n = 0 THEN 0 ELSE n - 1)'
         /\ Typed' /\ heap \subseteq heap' /\ c # h /\ c # t
         /\ heap' = heap \/ (n = 0 /\ Cardinality(heap') = Cardinality(heap) + 1)
<1> DEFINE U2 == [U EXCEPT ![j] = c]
           n2 == IF n = 0 THEN 0 ELSE n - 1
<1>1. /\ i <= j /\ (t = NULL <=> i = j) /\ (h = NULL <=> i = j) /\ (f = NULL <=> n = 0)
      /\ i < j => /\ t = U[j - 1] /\ h = U[i] /\ t \in heap /\ h \in heap
                  /\ list[t].next = NULL
      /\ n > 0 => f = F[n - 1] /\ f \in heap /\ list[f].next = FirstSpare(F, n - 1)
      /\ list \in Lists /\ size \in Nat
  BY OpenRows
<1>2. /\ U2 \in Row /\ U2[j] = c /\ \A k \in i .. j - 1 : U2[k] = U[k]
      /\ n2 \in Nat /\ j + 1 \in Nat
  BY DEF Row
<1>3. /\ UsedIs(U, i, j) /\ SparesAre(F, n) /\ Apart(U, i, j, F, n) /\ Windows(U, i, j)
      /\ l = NULL /\ heap \subseteq Chunks /\ IsFiniteSet(heap) /\ peak \in Nat /\ size <= peak
  BY DEF Rows, Typed
<1>4. /\ \A k \in i .. j - 1 : U[k] # c
      /\ \A k \in 0 .. n2 - 1 : F[k] # c
      /\ c \in heap' /\ heap \subseteq heap' /\ heap' \subseteq heap \cup {c}
      /\ IsFiniteSet(heap') /\ Cardinality(heap') = (j + 1 - i) + n2
      /\ f' = FirstSpare(F, n2)
      /\ heap' = heap \/ (n = 0 /\ Cardinality(heap') = Cardinality(heap) + 1)
  <2>1. CASE n > 0
    <3>1. c = F[n - 1] /\ c \in heap /\ heap' = heap /\ f' = FirstSpare(F, n - 1) /\ n2 = n - 1
      BY <1>1, <2>1 DEF NewList, HasSpare
    <3>2. n - 1 \in 0 .. n - 1
      BY <2>1
    <3> QED
      BY <1>3, <3>1, <3>2 DEF SparesAre, Apart
  <2>2. CASE n = 0
    <3>1. c \notin heap /\ heap' = heap \cup {c} /\ f' = f /\ n2 = 0
      BY <1>1, <2>2 DEF NewList, HasSpare
    <3>2. IsFiniteSet(heap') /\ Cardinality(heap') = Cardinality(heap) + 1
      BY <1>3, <3>1, FS_AddElement
    <3> QED
      BY <1>1, <1>3, <2>2, <3>1, <3>2 DEF UsedIs, Apart, FirstSpare
  <2> QED
    BY <2>1, <2>2
<1>5. /\ list' \in Lists /\ list'[c].s = 0 /\ list'[c].e = 1 /\ list'[c].next = NULL
      /\ \A x \in Chunks : x # c /\ x # t => list'[x] = list[x]
      /\ t # NULL => /\ list'[t].next = c /\ list'[t].s = list[t].s /\ list'[t].e = CHUNK
                     /\ list[t].e = CHUNK
      /\ c # t /\ c # h
  <2>1. L[c].e < CHUNK
    BY QueueAssumption DEF Linked
  <2>2. c # t /\ c # h
    <3>1. i < j => i \in i .. j - 1 /\ j - 1 \in i .. j - 1
      OBVIOUS
    <3>2. c # NULL
      BY QueueAssumption
    <3> QED
      BY <1>1, <1>4, <3>1, <3>2
  <2> HIDE DEF U2, n2
  <2>3. t # NULL => t \in Chunks
    BY <1>1, <1>3
  <2> QED
    BY <2>1, <2>2, <2>3, StoreGood DEF Linked
<1>6. /\ h' = (IF h = NULL THEN c ELSE h) /\ t' = c /\ size' = size + 1
      /\ peak' = (IF size < peak THEN peak ELSE size + 1)
      /\ UNCHANGED <<pc, l, held, abort>>
  BY DEF Store, NewTail
<1> HIDE DEF U2, n2
<1>7. UsedIs(U2, i, j + 1)'
  <2>1. \A k \in i .. j : k = j \/ k \in i .. j - 1
    OBVIOUS
  <2>2. \A k \in i .. j : U2[k] \in heap'
    BY <1>2, <1>3, <1>4, <2>1 DEF UsedIs
  <2>3. \A k \in i .. j, m \in i .. j : U2[k] = U2[m] => k = m
    BY <1>2, <1>3, <1>4, <2>1 DEF UsedIs
  <2>4. ASSUME NEW k \in i .. j
        PROVE  list'[U2[k]].next = IF k + 1 = j + 1 THEN NULL ELSE U2[k + 1]
    <3>1. CASE k = j
      BY <1>2, <1>5, <3>1
    <3>2. CASE k = j - 1 /\ k # j
      BY <1>1, <1>2, <1>5, <3>2
    <3>3. CASE k \in i .. j - 1 /\ k + 1 < j
      <4>1. U[k] # U[j - 1] /\ U[k] # c /\ U[k] \in Chunks /\ k + 1 \in i .. j - 1
        BY <1>3, <1>4, <3>3 DEF UsedIs
      <4>2. list'[U[k]] = list[U[k]]
        BY <1>1, <1>5, <3>3, <4>1
      <4> QED
        BY <1>2, <1>3, <3>3, <4>1, <4>2 DEF UsedIs
    <3> QED
      BY <2>1, <3>1, <3>2, <3>3
  <2> QED
    BY <1>1, <2>2, <2>3, <2>4 DEF UsedIs
<1>8. SparesAre(F, n2)'
  <2>1. \A k \in 0 .. n2 - 1 : k \in 0 .. n - 1
    BY DEF n2
  <2>2. \A k \in 0 .. n2 - 1 : F[k] \in Chunks /\ F[k] # c /\ F[k] # t
    <3>1. i < j => j - 1 \in i .. j - 1
      OBVIOUS
    <3> QED
      BY <1>1, <1>3, <1>4, <2>1, <3>1, QueueAssumption DEF SparesAre, Apart
  <2>3. \A k \in 0 .. n2 - 1 : list'[F[k]] = list[F[k]]
    BY <1>5, <2>2
  <2> QED
    BY <1>3, <1>4, <2>1, <2>3 DEF SparesAre
<1>9. Apart(U2, i, j + 1, F, n2)'
  <2>1. \A k \in i .. j : k = j \/ k \in i .. j - 1
    OBVIOUS
  <2>2. \A k \in 0 .. n2 - 1 : k \in 0 .. n - 1
    BY DEF n2
  <2>3. \A k \in i .. j, m \in 0 .. n2 - 1 : U2[k] # F[m]
    BY <1>2, <1>3, <1>4, <2>1, <2>2 DEF Apart
  <2>4. ASSUME NEW x \in heap'
        PROVE  (\E k \in i .. j : U2[k] = x) \/ \E k \in 0 .. n2 - 1 : F[k] = x
    <3>1. CASE x = c
      <4>1. j \in i .. j
        BY <1>1
      <4> QED
        BY <1>2, <3>1, <4>1
    <3>2. CASE x # c /\ \E k \in i .. j - 1 : U[k] = x
      <4>1. PICK k \in i .. j - 1 : U[k] = x
        BY <3>2
      <4>2. k \in i .. j /\ U2[k] = x
        BY <1>2, <4>1
      <4> QED
        BY <4>2
    <3>3. CASE x # c /\ \E k \in 0 .. n - 1 : F[k] = x
      <4>1. PICK k \in 0 .. n - 1 : F[k] = x
        BY <3>3
      <4>2. n > 0 => F[n - 1] = c
        BY <1>1 DEF NewList, HasSpare
      <4>3. k \in 0 .. n2 - 1
        BY <3>3, <4>1, <4>2 DEF n2
      <4> QED
        BY <4>1, <4>3
    <3> QED
      BY <1>3, <1>4, <3>1, <3>2, <3>3 DEF Apart
  <2> QED
    BY <1>4, <2>3, <2>4 DEF Apart
<1>10. Windows(U2, i, j + 1)'
  <2>1. ASSUME NEW k \in i .. j
        PROVE  /\ list'[U2[k]].s < list'[U2[k]].e
               /\ k > i => list'[U2[k]].s = 0
               /\ k + 1 < j + 1 => list'[U2[k]].e = CHUNK
    <3>1. CASE k = j
      BY <1>2, <1>5, <3>1
    <3>2. CASE k = j - 1 /\ k # j
      <4>1. k \in i .. j - 1 /\ U2[k] = t /\ U[k] = t /\ t # NULL
        BY <1>1, <1>2, <3>2
      <4> QED
        BY <1>3, <1>5, <4>1 DEF Windows
    <3>3. CASE k \in i .. j - 1 /\ k + 1 < j
      <4>1. U[k] # U[j - 1] /\ U[k] # c /\ U[k] \in Chunks
        BY <1>3, <1>4, <3>3 DEF UsedIs
      <4>2. list'[U[k]] = list[U[k]]
        BY <1>1, <1>5, <3>3, <4>1
      <4> QED
        BY <1>2, <1>3, <3>3, <4>2 DEF Windows
    <3> QED
      BY <3>1, <3>2, <3>3
  <2>2. size' = (j - i) * CHUNK + list'[U2[j]].e - list'[U2[i]].s
    <3>1. CASE i = j
      <4>1. size = 0 /\ U2[i] = c /\ j - i = 0 /\ 0 * CHUNK = 0
        BY <1>2, <1>3, <3>1, QueueAssumption DEF Windows
      <4>2. (j - i) * CHUNK = 0
        BY <4>1
      <4> QED
        BY <1>2, <1>5, <1>6, <4>1, <4>2
    <3>2. CASE i < j
      <4>1. /\ size = (j - 1 - i) * CHUNK + list[t].e - list[U[i]].s /\ list[t].e = CHUNK
            /\ i \in i .. j - 1 /\ U2[i] = U[i] /\ U[i] = h
        <5>1. i \in i .. j - 1 /\ i # j
          BY <3>2
        <5>2. U[j - 1] = t /\ U[i] = h /\ U2[i] = U[i] /\ t # NULL
          BY <1>1, <1>2, <3>2, <5>1
        <5>3. size = (j - 1 - i) * CHUNK + list[U[j - 1]].e - list[U[i]].s
          BY <1>3, <5>1 DEF Windows
        <5>4. list[t].e = CHUNK
          BY <1>5, <5>2
        <5> QED
          BY <5>1, <5>2, <5>3, <5>4
      <4>2. (j - i) * CHUNK = (j - 1 - i) * CHUNK + CHUNK /\ (j - 1 - i) * CHUNK \in Int
        <5>1. j - 1 - i \in Int /\ (j - 1 - i) + 1 = j - i
          OBVIOUS
        <5> QED
          BY <5>1, Times
      <4>3. list'[U2[i]].s = list[U[i]].s /\ list[U[i]].s \in Int
        <5>1. h \in Chunks
          BY <1>1, <1>3, <3>2
        <5>2. list'[h].s = list[h].s
          <6>1. h = t => list'[h].s = list[h].s
            BY <1>1, <1>5, <3>2
          <6>2. h # t => list'[h] = list[h]
            BY <1>5, <5>1
          <6> QED
            BY <6>1, <6>2
        <5>3. list[h].s \in Int
          BY <1>1, <5>1 DEF Lists, Chunk
        <5> QED
          BY <4>1, <5>2, <5>3
      <4>4. size' = (j - 1 - i) * CHUNK + CHUNK - list[U[i]].s + 1
        BY <1>6, <4>1
      <4> QED
        BY <1>2, <1>5, <4>2, <4>3, <4>4, QueueAssumption
    <3> QED
      BY <1>1, <3>1, <3>2
  <2>3. i # j + 1 /\ (j + 1) - 1 = j
    BY <1>1
  <2> QED
    BY <2>1, <2>2, <2>3 DEF Windows
<1>11. h' = FirstUsed(U2, i, j + 1) /\ t' = LastUsed(U2, i, j + 1)
  <2>1. i # j + 1 /\ (j + 1) - 1 = j /\ (i < j => i \in i .. j - 1)
    BY <1>1
  <2> QED
    BY <1>1, <1>2, <1>6, <2>1 DEF FirstUsed, LastUsed
<1>12. Typed'
  BY <1>3, <1>4, <1>5, <1>6 DEF Typed
<1> QED
  BY <1>3, <1>4, <1>5, <1>6, <1>7, <1>8, <1>9, <1>10, <1>11, <1>12 DEF Rows, U2, n2, FirstSpare

\* The system is asked only without spares, when all chunks but the first are full:
\* the queue holds as much as the bound says.
LEMMA GrowKeeps ==
  ASSUME IInv, pc = "open", NEW L \in Lists, NEW c \in Chunks, NEW v \in Val,
         NewList(c), Store(L, c, v), Linked(L, c)
  PROVE  IInv'
<1>1. PICK U \in Row, i \in Nat, j \in Nat, F \in Row, n \in Nat : Rows(U, i, j, F, n)
  BY DEF IInv
<1> DEFINE U2 == [U EXCEPT ![j] = c]
           n2 == IF n = 0 THEN 0 ELSE n - 1
<1>2. Typed /\ HeldGood /\ Cardinality(heap) * CHUNK <= peak + 2 * CHUNK - 2
  BY DEF IInv
<1>3. /\ Rows(U2, i, j + 1, F, n2)' /\ Typed' /\ heap \subseteq heap' /\ c # h /\ c # t
      /\ heap' = heap \/ (n = 0 /\ Cardinality(heap') = Cardinality(heap) + 1)
  BY <1>1, <1>2, GrowRows
<1>4. U2 \in Row /\ j + 1 \in Nat /\ n2 \in Nat /\ U2[j] = c /\ (i # j => U2[i] = U[i])
  BY DEF Row
<1>5. /\ pc' = "open" /\ held' = held /\ (h # NULL => h' = h) /\ peak' \in Nat
      /\ peak \in Nat /\ size \in Nat /\ size <= peak /\ peak <= peak' /\ size' <= peak'
      /\ size' \in Nat
  BY <1>2 DEF Store, Typed
<1>6. HeldGood'
  <2>1. SUFFICES ASSUME held # Nowhere PROVE HeldGood'
    BY <1>5 DEF HeldGood
  <2>2. /\ h \in heap /\ held.chunk = h /\ held.at = list[h].s
        /\ list[h].container[list[h].s] = held.ele
    BY <1>2, <2>1 DEF HeldGood
  <2>3. h \in Chunks /\ h # NULL
    BY <1>2, <2>2, QueueAssumption DEF Typed
  <2>4. L[c].e < CHUNK
    BY QueueAssumption DEF Linked
  <2>5. list'[h] = L[h]
    BY <1>3, <2>3, <2>4, StoreGood
  <2>6. list'[h].s = list[h].s /\ list'[h].container = list[h].container
    <3>1. h = t => L[h].s = list[h].s /\ L[h].container = list[h].container
      BY <2>3 DEF Linked
    <3>2. h # t => L[h] = list[h]
      BY <1>3, <2>3 DEF Linked
    <3> QED
      BY <2>5, <3>1, <3>2
  <2> QED
    BY <1>3, <1>5, <2>2, <2>3, <2>6 DEF HeldGood
<1> HIDE DEF U2, n2
<1>7. Cardinality(heap') * CHUNK <= peak' + 2 * CHUNK - 2
  <2>1. CASE heap' = heap
    <3>1. Cardinality(heap) \in Nat
      BY <1>2, FS_CardinalityType DEF Typed
    <3>2. Cardinality(heap) * CHUNK \in Int
      BY <3>1, QueueAssumption
    <3> QED
      BY <1>2, <1>5, <2>1, <3>2, QueueAssumption
  <2>2. CASE n = 0 /\ Cardinality(heap') = Cardinality(heap) + 1
    <3>1. Cardinality(heap) = j - i /\ i <= j
      BY <1>1, <2>2 DEF Rows, Apart, UsedIs
    <3>2. /\ size' = (j - i) * CHUNK + list'[c].e - list'[U2[i]].s
          /\ list'[U2[i]].s < list'[U2[i]].e /\ list'[c].s < list'[c].e
          /\ U2[i] \in Chunks
      <4>1. /\ pc' = "open" /\ Rows(U2, i, j + 1, F, n2)' /\ i \in i .. (j + 1) - 1
            /\ j \in i .. (j + 1) - 1 /\ (j + 1) - 1 = j /\ i # j + 1
        BY <1>3, <1>5, <3>1
      <4>2. Windows(U2, i, j + 1)' /\ UsedIs(U2, i, j + 1)'
        BY <4>1 DEF Rows
      <4>3. heap' \subseteq Chunks
        BY <1>3 DEF Typed
      <4> QED
        BY <1>4, <4>1, <4>2, <4>3 DEF Windows, UsedIs
    <3>3. list'[U2[i]].s \in 0 .. CHUNK /\ list'[U2[i]].e \in 0 .. CHUNK
          /\ list'[c].e \in 0 .. CHUNK /\ list'[c].s \in 0 .. CHUNK
      BY <1>3, <3>2 DEF Typed, Lists, Chunk
    <3>4. (j - i) * CHUNK \in Int /\ ((j - i) + 1) * CHUNK = (j - i) * CHUNK + CHUNK
      BY <3>1, Times
    <3>5. Cardinality(heap') * CHUNK = (j - i) * CHUNK + CHUNK
      BY <2>2, <3>1, <3>4
    <3>6. size' >= (j - i) * CHUNK + 1 - (CHUNK - 1)
      BY <3>2, <3>3, <3>4, QueueAssumption
    <3> QED
      BY <1>5, <3>4, <3>5, <3>6, QueueAssumption
  <2> QED
    BY <1>3, <2>1, <2>2
<1>8. \E V \in Row, a \in Nat, d \in Nat, G \in Row, m \in Nat : Rows(V, a, d, G, m)'
  BY <1>3, <1>4
<1> QED
  BY <1>3, <1>5, <1>6, <1>7, <1>8 DEF IInv

\* newList: an empty chunk without a link, new or not.
LEMMA RenewGood ==
  ASSUME list \in Lists, NEW c \in Chunks
  PROVE  Renew(c) \in Chunk /\ Renew(c).s = 0 /\ Renew(c).e = 0 /\ Renew(c).next = NULL
<1>1. CASE HasSpare
  <2>1. list[c] \in Chunk /\ 0 \in 0 .. CHUNK
    BY QueueAssumption DEF Lists
  <2>2. Renew(c) = [list[c] EXCEPT !.s = 0, !.e = 0, !.next = NULL]
    BY <1>1 DEF Renew, Reset
  <2> QED
    BY <2>1, <2>2 DEF Chunk
<1>2. CASE ~HasSpare
  <2>1. Renew(c) = [NoList EXCEPT !.next = NULL]
    BY <1>2 DEF Renew
  <2>2. [i \in Place |-> Junk] \in [Place -> Val \cup {Junk}] /\ 0 \in 0 .. CHUNK
    BY QueueAssumption
  <2> QED
    BY <2>1, <2>2 DEF NoList, Chunk
<1> QED
  BY <1>1, <1>2

\* tl_queue_push into an empty queue.
LEMMA PushFirstGrows ==
  ASSUME IInv, NEW v \in Val, NEW c \in Chunks, PushFirst(v, c)
  PROVE  pc = "open" /\ \E L \in Lists : NewList(c) /\ Store(L, c, v) /\ Linked(L, c)
<1> DEFINE L == [list EXCEPT ![c] = Renew(c)]
<1>1. pc = "open" /\ t = NULL /\ NewList(c) /\ Store(L, c, v)
  BY DEF PushFirst
<1>2. list \in Lists
  BY DEF IInv, Typed
<1>3. Renew(c) \in Chunk /\ Renew(c).s = 0 /\ Renew(c).e = 0 /\ Renew(c).next = NULL
  BY <1>2, RenewGood
<1>4. L \in Lists /\ Linked(L, c)
  BY <1>1, <1>2, <1>3 DEF Lists, Linked
<1> QED
  BY <1>1, <1>4

\* tl_queue_push when the tail is full.
LEMMA PushNextGrows ==
  ASSUME IInv, NEW v \in Val, NEW c \in Chunks, PushNext(v, c)
  PROVE  pc = "open" /\ \E L \in Lists : NewList(c) /\ Store(L, c, v) /\ Linked(L, c)
<1> DEFINE L == [list EXCEPT ![c] = Renew(c), ![t].next = c]
<1>1. pc = "open" /\ t # NULL /\ list[t].e = CHUNK /\ NewList(c) /\ Store(L, c, v)
  BY DEF PushNext, Full
<1>2. list \in Lists /\ Typed
  BY DEF IInv, Typed
<1>3. PICK U \in Row, i \in Nat, j \in Nat, F \in Row, n \in Nat : Rows(U, i, j, F, n)
  BY DEF IInv
<1>4. /\ i <= j /\ (t = NULL <=> i = j) /\ (h = NULL <=> i = j) /\ (f = NULL <=> n = 0)
      /\ i < j => t = U[j - 1] /\ t \in heap
      /\ n > 0 => f = F[n - 1] /\ f \in heap
  BY <1>1, <1>2, <1>3, OpenRows
<1>5. t \in Chunks /\ c # t
  <2>1. i < j /\ t = U[j - 1] /\ t \in heap /\ j - 1 \in i .. j - 1
    BY <1>1, <1>4
  <2>2. CASE n > 0
    <3>1. c = F[n - 1] /\ n - 1 \in 0 .. n - 1
      BY <1>1, <1>4, <2>2 DEF NewList, HasSpare
    <3> QED
      BY <1>2, <1>3, <2>1, <3>1 DEF Typed, Rows, Apart
  <2>3. CASE n = 0
    BY <1>1, <1>2, <1>4, <2>1, <2>3 DEF NewList, HasSpare, Typed
  <2> QED
    BY <2>2, <2>3
<1>6. Renew(c) \in Chunk /\ Renew(c).s = 0 /\ Renew(c).e = 0 /\ Renew(c).next = NULL
  BY <1>2, RenewGood
<1> DEFINE r == [list[t] EXCEPT !.next = c]
<1>7. /\ r \in Chunk /\ r.next = c /\ r.s = list[t].s /\ r.e = list[t].e
      /\ r.container = list[t].container
  BY <1>2, <1>5 DEF Lists, Chunk
<1>8. L \in Lists /\ L[c] = Renew(c) /\ L[t] = r /\ \A x \in Chunks : x # c /\ x # t => L[x] = list[x]
  BY <1>2, <1>5, <1>6, <1>7 DEF Lists
<1> HIDE DEF r, L
<1>9. Linked(L, c)
  BY <1>1, <1>6, <1>7, <1>8 DEF Linked
<1> QED
  BY <1>1, <1>8, <1>9 DEF L

\* Either way a chunk is added.
LEMMA GrowStepKeeps ==
  ASSUME IInv, NEW v \in Val, NEW c \in Chunks, PushFirst(v, c) \/ PushNext(v, c)
  PROVE  IInv'
<1>1. pc = "open" /\ \E L \in Lists : NewList(c) /\ Store(L, c, v) /\ Linked(L, c)
  BY PushFirstGrows, PushNextGrows
<1>2. PICK L \in Lists : NewList(c) /\ Store(L, c, v) /\ Linked(L, c)
  BY <1>1
<1> QED
  BY <1>1, <1>2, GrowKeeps

\* The rows stay as long as the links and the chunks do.
LEMMA SameRows ==
  ASSUME NEW U \in Row, NEW i \in Nat, NEW j \in Nat, NEW F \in Row, NEW n \in Nat,
         UsedIs(U, i, j), SparesAre(F, n), Apart(U, i, j, F, n),
         heap \subseteq Chunks, heap' = heap,
         \A x \in Chunks : list'[x].next = list[x].next
  PROVE  UsedIs(U, i, j)' /\ SparesAre(F, n)' /\ Apart(U, i, j, F, n)'
<1>1. /\ \A k \in i .. j - 1 : list'[U[k]].next = list[U[k]].next
      /\ \A k \in 0 .. n - 1 : list'[F[k]].next = list[F[k]].next
  BY DEF UsedIs, SparesAre
<1>2. UsedIs(U, i, j)'
  BY <1>1 DEF UsedIs
<1>3. SparesAre(F, n)'
  BY <1>1 DEF SparesAre
<1>4. Apart(U, i, j, F, n)'
  BY DEF Apart
<1> QED
  BY <1>2, <1>3, <1>4

\* tl_queue_push when the tail has room.
LEMMA PushRoomKeeps ==
  ASSUME IInv, NEW v \in Val, PushRoom(v),
         NEW U \in Row, NEW i \in Nat, NEW j \in Nat, NEW F \in Row, NEW n \in Nat, Rows(U, i, j, F, n)
  PROVE  IInv' /\ Rows(U, i, j, F, n)'
<1>1. pc = "open" /\ t # NULL /\ list[t].e # CHUNK /\ Store(list, t, v) /\ UNCHANGED <<f, heap>>
  BY DEF PushRoom, Full
<1>2. /\ Typed /\ HeldGood /\ Cardinality(heap) * CHUNK <= peak + 2 * CHUNK - 2
      /\ list \in Lists /\ heap \subseteq Chunks /\ size \in Nat /\ peak \in Nat /\ size <= peak
      /\ IsFiniteSet(heap)
  BY <1>1 DEF IInv, Typed
<1>3. Rows(U, i, j, F, n)
  OBVIOUS
<1>4. i < j /\ t = U[j - 1] /\ h = U[i] /\ t \in heap /\ h # NULL /\ f = FirstSpare(F, n)
  BY <1>1, <1>2, <1>3, OpenRows DEF Rows
<1>5. t \in Chunks /\ list[t].e \in 0 .. CHUNK /\ list[t].e < CHUNK /\ list[t].s \in 0 .. CHUNK
  BY <1>1, <1>2, <1>4, QueueAssumption DEF Lists, Chunk
<1>6. /\ list' \in Lists
      /\ list'[t].s = list[t].s /\ list'[t].e = list[t].e + 1 /\ list'[t].next = list[t].next
      /\ \A p \in Place : p # list[t].e => list'[t].container[p] = list[t].container[p]
      /\ \A x \in Chunks \ {t} : list'[x] = list[x]
  BY <1>1, <1>2, <1>5, StoreGood
<1>7. /\ h' = h /\ t' = t /\ size' = size + 1 /\ peak' = (IF size < peak THEN peak ELSE size + 1)
      /\ UNCHANGED <<pc, l, held, abort>>
  BY <1>1, <1>4 DEF Store, NewTail
<1>8. /\ UsedIs(U, i, j) /\ SparesAre(F, n) /\ Apart(U, i, j, F, n) /\ Windows(U, i, j) /\ l = NULL
      /\ \A x \in Chunks : list'[x].next = list[x].next
  BY <1>1, <1>3, <1>6 DEF Rows
<1>9. UsedIs(U, i, j)' /\ SparesAre(F, n)' /\ Apart(U, i, j, F, n)'
  BY <1>1, <1>2, <1>8, SameRows
<1>10. Windows(U, i, j)'
  <2>1. ASSUME NEW k \in i .. j - 1
        PROVE  /\ list'[U[k]].s < list'[U[k]].e
               /\ k > i => list'[U[k]].s = 0
               /\ k + 1 < j => list'[U[k]].e = CHUNK
    <3>1. CASE k + 1 = j
      <4>1. U[k] = t
        BY <1>4, <3>1
      <4> QED
        BY <1>5, <1>6, <1>8, <3>1, <4>1 DEF Windows
    <3>2. CASE k + 1 < j
      <4>1. U[k] # t /\ U[k] \in Chunks
        BY <1>2, <1>4, <1>8, <3>2 DEF UsedIs
      <4>2. list'[U[k]] = list[U[k]]
        BY <1>6, <4>1
      <4> QED
        BY <1>8, <3>2, <4>2 DEF Windows
    <3> QED
      BY <3>1, <3>2
  <2>2. size' = (j - 1 - i) * CHUNK + list'[U[j - 1]].e - list'[U[i]].s
    <3>1. size = (j - 1 - i) * CHUNK + list[U[j - 1]].e - list[U[i]].s /\ i \in i .. j - 1
      BY <1>4, <1>8 DEF Windows
    <3>2. list'[U[i]].s = list[U[i]].s /\ list[U[i]].s \in Int
      <4>1. h \in Chunks
        BY <1>2, <1>4, <1>8, <3>1 DEF UsedIs
      <4>2. h # t => list'[h] = list[h]
        BY <1>6, <4>1
      <4> QED
        BY <1>2, <1>4, <1>6, <4>1, <4>2 DEF Lists, Chunk
    <3>3. (j - 1 - i) * CHUNK \in Int
      BY Times
    <3> QED
      BY <1>4, <1>5, <1>6, <1>7, <3>1, <3>2, <3>3
  <2> QED
    BY <1>4, <2>1, <2>2 DEF Windows
<1>11. Rows(U, i, j, F, n)'
  BY <1>1, <1>3, <1>4, <1>7, <1>8, <1>9, <1>10 DEF Rows, FirstUsed, LastUsed, FirstSpare
<1>12. HeldGood'
  <2>1. SUFFICES ASSUME held # Nowhere PROVE HeldGood'
    BY <1>7 DEF HeldGood
  <2>2. /\ h \in heap /\ held.chunk = h /\ held.at = list[h].s
        /\ list[h].container[list[h].s] = held.ele
    BY <1>2, <2>1 DEF HeldGood
  <2>3. list'[h].s = list[h].s /\ list'[h].container[list[h].s] = list[h].container[list[h].s]
    <3>1. h # t => list'[h] = list[h]
      BY <1>2, <1>6, <2>2
    <3>2. h = t => list[t].s \in Place /\ list[t].s # list[t].e
      <4>1. i \in i .. j - 1 /\ U[i] = h
        BY <1>4
      <4>2. list[h].s < list[h].e
        BY <1>8, <4>1 DEF Windows
      <4> QED
        BY <1>5, <4>2, QueueAssumption DEF Place
    <3> QED
      BY <1>6, <3>1, <3>2
  <2> QED
    BY <1>1, <1>7, <2>2, <2>3 DEF HeldGood
<1>13. Typed' /\ Cardinality(heap') * CHUNK <= peak' + 2 * CHUNK - 2
  <2>1. peak' \in Nat /\ peak <= peak' /\ size' <= peak' /\ size' \in Nat
    BY <1>2, <1>7
  <2>2. Cardinality(heap) * CHUNK \in Int
    BY <1>2, FS_CardinalityType, QueueAssumption
  <2>3. Typed'
    BY <1>1, <1>2, <1>6, <1>7, <2>1 DEF Typed
  <2> QED
    BY <1>1, <1>2, <2>1, <2>2, <2>3, QueueAssumption
<1> QED
  BY <1>1, <1>7, <1>11, <1>12, <1>13 DEF IInv

\* Nothing changes.
LEMMA QuietKeeps ==
  ASSUME IInv, UNCHANGED vars
  PROVE  IInv'
<1>1. PICK U \in Row, i \in Nat, j \in Nat, F \in Row, n \in Nat : Rows(U, i, j, F, n)
  BY DEF IInv
<1>2. UNCHANGED <<h, t, f, size, list, heap, pc, l, held, peak, abort>>
  BY DEF vars
<1>3. Rows(U, i, j, F, n)'
  <2>1. UsedIs(U, i, j)' /\ SparesAre(F, n)' /\ Apart(U, i, j, F, n)'
    BY <1>1, <1>2 DEF Rows, UsedIs, SparesAre, Apart
  <2>2. Windows(U, i, j)' <=> Windows(U, i, j)
    BY <1>2 DEF Windows
  <2> QED
    BY <1>1, <1>2, <2>1, <2>2 DEF Rows, FirstUsed, LastUsed, FirstSpare
<1>4. Typed' /\ HeldGood'
  BY <1>2 DEF IInv, Typed, HeldGood
<1>5. pc' = "open" => Cardinality(heap') * CHUNK <= peak' + 2 * CHUNK - 2
  BY <1>2 DEF IInv
<1>6. pc' = "none" => heap' = {} /\ size' = 0
  BY <1>2 DEF IInv
<1> QED
  BY <1>3, <1>4, <1>5, <1>6 DEF IInv

\* tl_queue_push without memory: the link of the tail is none before and after.
LEMMA PushFailsKeeps ==
  ASSUME IInv, PushFails
  PROVE  IInv'
<1>1. /\ pc = "open" /\ UNCHANGED <<h, t, f, size, heap, pc, l, held, peak, abort>>
      /\ list' = IF t = NULL THEN list ELSE [list EXCEPT ![t].next = NULL]
  BY DEF PushFails
<1>2. Typed /\ list \in Lists /\ heap \subseteq Chunks
  BY DEF IInv, Typed
<1>3. PICK U \in Row, i \in Nat, j \in Nat, F \in Row, n \in Nat : Rows(U, i, j, F, n)
  BY DEF IInv
<1>4. t # NULL => t \in Chunks /\ list[t].next = NULL
  BY <1>1, <1>2, <1>3, OpenRows
<1>5. list' = list
  <2>1. CASE t # NULL
    <3>1. [list[t] EXCEPT !.next = NULL] = list[t]
      BY <1>2, <1>4, <2>1 DEF Lists, Chunk
    <3> QED
      BY <1>1, <1>2, <1>4, <2>1, <3>1 DEF Lists
  <2> QED
    BY <1>1, <2>1
<1> QED
  BY <1>1, <1>5, QuietKeeps DEF vars

-----------------------------------------------------------------------------
(* tl_queue_pop and tl_queue_top. *)

\* Popped: one element less at the front of the head.
LEMMA PoppedGood ==
  ASSUME list \in Lists, h \in Chunks, list[h].s < list[h].e
  PROVE  /\ Popped \in Lists
         /\ Popped[h].s = list[h].s + 1 /\ Popped[h].e = list[h].e
         /\ Popped[h].next = list[h].next
         /\ \A x \in Chunks \ {h} : Popped[x] = list[x]
<1> DEFINE r == [list[h] EXCEPT !.s = list[h].s + 1]
<1>1. list[h] \in Chunk /\ list[h].s + 1 \in 0 .. CHUNK
  BY QueueAssumption DEF Lists, Chunk
<1>2. Popped = [list EXCEPT ![h] = r]
  BY DEF Popped, Lists
<1>3. r \in Chunk /\ r.s = list[h].s + 1 /\ r.e = list[h].e /\ r.next = list[h].next
  BY <1>1 DEF Chunk
<1> HIDE DEF r
<1> QED
  BY <1>2, <1>3 DEF Lists

\* The head of a queue that is not empty.
LEMMA HeadGood ==
  ASSUME Typed, pc = "open", size # 0, NEW U \in Row, NEW i \in Nat, NEW j \in Nat,
         NEW F \in Row, NEW n \in Nat, Rows(U, i, j, F, n)
  PROVE  /\ i < j /\ h = U[i] /\ t = U[j - 1] /\ h \in heap /\ h \in Chunks
         /\ list[h].s < list[h].e /\ (i + 1 < j => list[h].e = CHUNK)
         /\ list[h].next = (IF i + 1 = j THEN NULL ELSE U[i + 1])
         /\ list \in Lists /\ list[h].s \in 0 .. CHUNK /\ list[h].e \in 0 .. CHUNK
         /\ size = (j - 1 - i) * CHUNK + list[t].e - list[h].s
         /\ list[t].e \in 0 .. CHUNK
<1>1. UsedIs(U, i, j) /\ Windows(U, i, j)
  BY DEF Rows
<1>2. i < j
  BY <1>1 DEF UsedIs, Windows
<1>3. h = U[i] /\ t = U[j - 1] /\ i \in i .. j - 1 /\ j - 1 \in i .. j - 1
  BY <1>2 DEF Rows, FirstUsed, LastUsed
<1>4. h \in heap /\ t \in heap /\ h \in Chunks /\ t \in Chunks /\ list \in Lists
  BY <1>1, <1>3 DEF UsedIs, Typed
<1>5. list[h].s \in 0 .. CHUNK /\ list[h].e \in 0 .. CHUNK /\ list[t].e \in 0 .. CHUNK
  BY <1>4 DEF Lists, Chunk
<1>6. list[h].next = (IF i + 1 = j THEN NULL ELSE U[i + 1])
  BY <1>1, <1>3 DEF UsedIs
<1>7. list[h].s < list[h].e /\ (i + 1 < j => list[h].e = CHUNK)
  BY <1>1, <1>3 DEF Windows
<1>8. size = (j - 1 - i) * CHUNK + list[t].e - list[h].s
  BY <1>1, <1>2, <1>3 DEF Windows
<1> QED
  BY <1>2, <1>3, <1>4, <1>5, <1>6, <1>7, <1>8

\* The head keeps elements.
LEMMA PopKeepsKeeps ==
  ASSUME IInv, PopKeeps,
         NEW U \in Row, NEW i \in Nat, NEW j \in Nat, NEW F \in Row, NEW n \in Nat, Rows(U, i, j, F, n)
  PROVE  IInv' /\ Rows(U, i, j, F, n)'
<1>1. /\ pc = "open" /\ size # 0 /\ ~Drained /\ list' = Popped /\ size' = size - 1
      /\ held' = Nowhere /\ UNCHANGED <<h, t, f, heap, pc, l, peak, abort>>
  BY DEF PopKeeps
<1>2. /\ Typed /\ Cardinality(heap) * CHUNK <= peak + 2 * CHUNK - 2 /\ heap \subseteq Chunks
      /\ size \in Nat /\ peak \in Nat /\ size <= peak
  BY <1>1 DEF IInv, Typed
<1>3. Rows(U, i, j, F, n)
  OBVIOUS
<1>4. /\ i < j /\ h = U[i] /\ t = U[j - 1] /\ h \in Chunks /\ list[h].s < list[h].e
      /\ list \in Lists /\ list[h].s \in 0 .. CHUNK /\ list[h].e \in 0 .. CHUNK
      /\ size = (j - 1 - i) * CHUNK + list[t].e - list[h].s /\ list[t].e \in 0 .. CHUNK
  BY <1>1, <1>2, <1>3, HeadGood
<1>5. /\ list' \in Lists /\ list'[h].s = list[h].s + 1 /\ list'[h].e = list[h].e
      /\ list'[h].next = list[h].next /\ \A x \in Chunks \ {h} : list'[x] = list[x]
      /\ list[h].s + 1 < list[h].e
  BY <1>1, <1>4, PoppedGood DEF Drained
<1>6. /\ UsedIs(U, i, j) /\ SparesAre(F, n) /\ Apart(U, i, j, F, n) /\ Windows(U, i, j)
      /\ \A x \in Chunks : list'[x].next = list[x].next
  BY <1>1, <1>3, <1>5 DEF Rows
<1>7. UsedIs(U, i, j)' /\ SparesAre(F, n)' /\ Apart(U, i, j, F, n)'
  BY <1>1, <1>2, <1>6, SameRows
<1>8. Windows(U, i, j)'
  <2>1. ASSUME NEW k \in i .. j - 1
        PROVE  /\ list'[U[k]].s < list'[U[k]].e
               /\ k > i => list'[U[k]].s = 0
               /\ k + 1 < j => list'[U[k]].e = CHUNK
    <3>1. CASE k = i
      BY <1>4, <1>5, <1>6, <3>1 DEF Windows
    <3>2. CASE k > i
      <4>1. U[k] # h /\ U[k] \in Chunks
        BY <1>2, <1>4, <1>6, <3>2 DEF UsedIs
      <4>2. list'[U[k]] = list[U[k]]
        BY <1>5, <4>1
      <4> QED
        BY <1>6, <3>2, <4>2 DEF Windows
    <3> QED
      BY <3>1, <3>2
  <2>2. list'[t].e = list[t].e
    <3>1. t \in Chunks
      BY <1>2, <1>4, <1>6 DEF UsedIs
    <3> QED
      BY <1>5, <3>1
  <2>3. (j - 1 - i) * CHUNK \in Int
    BY Times
  <2>4. size' = (j - 1 - i) * CHUNK + list'[U[j - 1]].e - list'[U[i]].s
    BY <1>1, <1>4, <1>5, <2>2, <2>3
  <2> QED
    BY <1>4, <2>1, <2>4 DEF Windows
<1>9. Rows(U, i, j, F, n)'
  BY <1>1, <1>3, <1>7, <1>8 DEF Rows, FirstUsed, LastUsed, FirstSpare
<1>10. Typed' /\ HeldGood'
  BY <1>1, <1>2, <1>5 DEF Typed, HeldGood, Nowhere
<1> QED
  BY <1>1, <1>2, <1>9, <1>10 DEF IInv

\* The head is drained.  If it is the tail as well, it held the last element.
LEMMA PopRetiresKeeps ==
  ASSUME IInv, PopRetires,
         NEW U \in Row, NEW i \in Nat, NEW j \in Nat, NEW F \in Row, NEW n \in Nat, Rows(U, i, j, F, n)
  PROVE  IInv' /\ \E G \in Row : Rows(U, i + 1, j, G, n + 1)'
<1>1. /\ pc = "open" /\ size # 0 /\ Drained /\ list' = Retire(Popped) /\ size' = size - 1
      /\ h' = list[h].next /\ t' = TailAfterRetire /\ f' = h /\ abort' = (abort \/ ~PopAsserts)
      /\ held' = Nowhere /\ UNCHANGED <<heap, pc, l, peak>>
  BY DEF PopRetires
<1>2. /\ Typed /\ Cardinality(heap) * CHUNK <= peak + 2 * CHUNK - 2 /\ heap \subseteq Chunks
      /\ size \in Nat /\ peak \in Nat /\ size <= peak /\ abort = FALSE
  BY <1>1 DEF IInv, Typed
<1>3. Rows(U, i, j, F, n)
  OBVIOUS
<1>4. /\ i < j /\ h = U[i] /\ t = U[j - 1] /\ h \in heap /\ h \in Chunks /\ list[h].s < list[h].e
      /\ (i + 1 < j => list[h].e = CHUNK) /\ list[h].next = (IF i + 1 = j THEN NULL ELSE U[i + 1])
      /\ list \in Lists /\ list[h].s \in 0 .. CHUNK /\ list[h].e \in 0 .. CHUNK
      /\ size = (j - 1 - i) * CHUNK + list[t].e - list[h].s /\ list[t].e \in 0 .. CHUNK
  BY <1>1, <1>2, <1>3, HeadGood
<1>5. /\ Popped \in Lists /\ Popped[h].s = list[h].s + 1 /\ Popped[h].e = list[h].e
      /\ list[h].s + 1 = list[h].e /\ \A x \in Chunks \ {h} : Popped[x] = list[x]
  BY <1>1, <1>4, PoppedGood DEF Drained
<1>6. /\ UsedIs(U, i, j) /\ SparesAre(F, n) /\ Apart(U, i, j, F, n) /\ Windows(U, i, j)
      /\ f = FirstSpare(F, n) /\ l = NULL
  BY <1>1, <1>3 DEF Rows
<1>7. f \in Chunks \cup {NULL}
  BY <1>1, <1>2, <1>3, <1>6, OpenRows DEF FirstSpare
<1>8. list' \in Lists /\ list'[h].next = f /\ \A x \in Chunks \ {h} : list'[x] = list[x]
  <2>1. [Popped[h] EXCEPT !.next = f] \in Chunk /\ [Popped[h] EXCEPT !.next = f].next = f
    BY <1>4, <1>5, <1>7 DEF Lists, Chunk
  <2>2. list' = [Popped EXCEPT ![h] = [Popped[h] EXCEPT !.next = f]]
    BY <1>1 DEF Retire
  <2> QED
    BY <1>4, <1>5, <2>1, <2>2 DEF Lists
<1>9. PICK F2 \in Row : F2[n] = h /\ \A k \in 0 .. n - 1 : F2[k] = F[k]
  <2> DEFINE G == [F EXCEPT ![n] = h]
  <2>1. G \in Row /\ G[n] = h /\ \A k \in 0 .. n - 1 : G[k] = F[k]
    BY <1>4 DEF Row
  <2> HIDE DEF G
  <2> QED
    BY <2>1
<1>10. \A k \in i + 1 .. j - 1 : k \in i .. j - 1 /\ U[k] # h /\ U[k] \in Chunks /\ list'[U[k]] = list[U[k]]
  <2>1. \A k \in i + 1 .. j - 1 : k \in i .. j - 1 /\ k # i /\ i \in i .. j - 1
    OBVIOUS
  <2>2. \A k \in i + 1 .. j - 1 : U[k] # h /\ U[k] \in Chunks
    BY <1>2, <1>4, <1>6, <2>1 DEF UsedIs
  <2> QED
    BY <1>8, <2>1, <2>2
<1>11. UsedIs(U, i + 1, j)'
  <2>1. \A k \in i + 1 .. j - 1 : U[k] \in heap'
    BY <1>1, <1>6, <1>10 DEF UsedIs
  <2>2. \A k \in i + 1 .. j - 1, m \in i + 1 .. j - 1 : U[k] = U[m] => k = m
    BY <1>6, <1>10 DEF UsedIs
  <2>3. \A k \in i + 1 .. j - 1 : list'[U[k]].next = IF k + 1 = j THEN NULL ELSE U[k + 1]
    BY <1>6, <1>10 DEF UsedIs
  <2> QED
    BY <1>4, <2>1, <2>2, <2>3 DEF UsedIs
<1>12. \A k \in 0 .. n - 1 : F[k] # h /\ F[k] \in heap /\ list'[F[k]] = list[F[k]]
  <2>1. i \in i .. j - 1
    BY <1>4
  <2>2. \A k \in 0 .. n - 1 : F[k] # h /\ F[k] \in heap
    BY <1>4, <1>6, <2>1 DEF SparesAre, Apart
  <2> QED
    BY <1>2, <1>8, <2>2
<1>13. SparesAre(F2, n + 1)'
  <2>1. \A k \in 0 .. n : k = n \/ k \in 0 .. n - 1
    OBVIOUS
  <2>2. \A k \in 0 .. n : F2[k] \in heap'
    BY <1>1, <1>4, <1>9, <1>12, <2>1
  <2>3. \A k \in 0 .. n, m \in 0 .. n : F2[k] = F2[m] => k = m
    BY <1>6, <1>9, <1>12, <2>1 DEF SparesAre
  <2>4. ASSUME NEW k \in 0 .. n
        PROVE  list'[F2[k]].next = IF k = 0 THEN NULL ELSE F2[k - 1]
    <3>1. CASE k = n
      <4>1. n # 0 => n - 1 \in 0 .. n - 1
        OBVIOUS
      <4> QED
        BY <1>6, <1>8, <1>9, <3>1, <4>1 DEF FirstSpare
    <3>2. CASE k \in 0 .. n - 1
      <4>1. k # 0 => k - 1 \in 0 .. n - 1
        BY <3>2
      <4> QED
        BY <1>6, <1>9, <1>12, <3>2, <4>1 DEF SparesAre
    <3> QED
      BY <2>1, <3>1, <3>2
  <2>5. (n + 1) - 1 = n
    OBVIOUS
  <2> QED
    BY <2>2, <2>3, <2>4, <2>5 DEF SparesAre
<1>14. Apart(U, i + 1, j, F2, n + 1)'
  <2>1. \A k \in 0 .. n : k = n \/ k \in 0 .. n - 1
    OBVIOUS
  <2>2. \A k \in i + 1 .. j - 1, m \in 0 .. n : U[k] # F2[m]
    BY <1>6, <1>9, <1>10, <2>1 DEF Apart
  <2>3. ASSUME NEW x \in heap
        PROVE  (\E k \in i + 1 .. j - 1 : U[k] = x) \/ \E k \in 0 .. n : F2[k] = x
    <3>1. CASE \E k \in i .. j - 1 : U[k] = x
      <4>1. PICK k \in i .. j - 1 : U[k] = x
        BY <3>1
      <4>2. n \in 0 .. n /\ (k = i \/ k \in i + 1 .. j - 1)
        OBVIOUS
      <4> QED
        BY <1>4, <1>9, <4>1, <4>2
    <3>2. CASE \E k \in 0 .. n - 1 : F[k] = x
      <4>1. PICK k \in 0 .. n - 1 : F[k] = x
        BY <3>2
      <4>2. k \in 0 .. n /\ F2[k] = x
        BY <1>9, <4>1
      <4> QED
        BY <4>2
    <3> QED
      BY <1>6, <3>1, <3>2 DEF Apart
  <2>4. Cardinality(heap) = (j - (i + 1)) + (n + 1)
    BY <1>6 DEF Apart
  <2>5. (n + 1) - 1 = n
    OBVIOUS
  <2> QED
    BY <1>1, <2>2, <2>3, <2>4, <2>5 DEF Apart
<1>15. Windows(U, i + 1, j)'
  <2>1. ASSUME NEW k \in i + 1 .. j - 1
        PROVE  /\ list'[U[k]].s < list'[U[k]].e /\ list'[U[k]].s = 0
               /\ k + 1 < j => list'[U[k]].e = CHUNK
    BY <1>6, <1>10 DEF Windows
  <2>2. CASE i + 1 = j
    <3>1. size = 0 * CHUNK + list[h].e - list[h].s
      <4>1. j - 1 - i = 0 /\ t = h
        BY <1>4, <2>2
      <4> QED
        BY <1>4, <4>1
    <3>2. size' = 0
      BY <1>1, <1>4, <1>5, <3>1, QueueAssumption
    <3> QED
      BY <2>1, <2>2, <3>2 DEF Windows
  <2>3. CASE i + 1 < j
    <3>1. i + 1 \in i + 1 .. j - 1 /\ j - 1 \in i + 1 .. j - 1
      BY <2>3
    <3>2. list'[U[i + 1]].s = 0 /\ list'[U[j - 1]].e = list[t].e
      BY <1>4, <1>10, <2>1, <3>1
    <3>3. list[h].e = CHUNK /\ list[h].s = CHUNK - 1
      BY <1>4, <1>5, <2>3, QueueAssumption
    <3>4. /\ (j - 1 - (i + 1)) * CHUNK = (j - 1 - i) * CHUNK - CHUNK /\ (j - 1 - i) * CHUNK \in Int
      <4>1. j - 1 - (i + 1) = (j - 1 - i) - 1 /\ j - 1 - i \in Int
        OBVIOUS
      <4> QED
        BY <4>1, Times
    <3>5. size' = (j - 1 - (i + 1)) * CHUNK + list'[U[j - 1]].e - list'[U[i + 1]].s
      BY <1>1, <1>4, <3>2, <3>3, <3>4, QueueAssumption
    <3> QED
      BY <2>1, <2>3, <3>5 DEF Windows
  <2> QED
    BY <1>4, <2>2, <2>3
<1>16. h' = FirstUsed(U, i + 1, j) /\ t' = LastUsed(U, i + 1, j) /\ f' = FirstSpare(F2, n + 1)
  <2>1. i + 1 < j => U[i + 1] \in heap /\ NULL \notin heap
    <3>1. i + 1 < j => i + 1 \in i .. j - 1
      OBVIOUS
    <3> QED
      BY <1>2, <1>6, <3>1, QueueAssumption DEF UsedIs
  <2>2. i + 1 = j \/ i + 1 < j
    BY <1>4
  <2>3. (n + 1) - 1 = n /\ n + 1 # 0
    OBVIOUS
  <2> QED
    BY <1>1, <1>4, <1>9, <2>1, <2>2, <2>3 DEF TailAfterRetire, FirstUsed, LastUsed, FirstSpare
<1>17. PopAsserts
  <2>1. SUFFICES ASSUME list[h].next = NULL PROVE size = 1 /\ t = h
    BY DEF PopAsserts
  <2>2. i + 1 = j
    <3>1. i + 1 < j => i + 1 \in i .. j - 1
      OBVIOUS
    <3> QED
      BY <1>2, <1>4, <1>6, <2>1, <3>1, QueueAssumption DEF UsedIs
  <2>3. j - 1 - i = 0 /\ t = h /\ 0 * CHUNK = 0
    BY <1>4, <2>2, QueueAssumption
  <2> QED
    BY <1>4, <1>5, <2>3
<1>18. Typed' /\ HeldGood'
  <2>1. abort' = FALSE
    BY <1>1, <1>2, <1>17
  <2>2. size' \in Nat /\ size' <= peak'
    BY <1>1, <1>2
  <2> QED
    BY <1>1, <1>2, <1>8, <2>1, <2>2 DEF Typed, HeldGood
<1>19. Rows(U, i + 1, j, F2, n + 1)'
  BY <1>1, <1>6, <1>11, <1>13, <1>14, <1>15, <1>16 DEF Rows
<1>20. i + 1 \in Nat /\ n + 1 \in Nat
  OBVIOUS
<1> QED
  BY <1>1, <1>2, <1>18, <1>19, <1>20 DEF IInv

\* tl_queue_top: the caller gets the place of the first element.
LEMMA TopKeeps ==
  ASSUME IInv, Top
  PROVE  IInv'
<1>1. /\ pc = "open" /\ size # 0 /\ held' = [chunk |-> h, at |-> list[h].s, ele |-> Front]
      /\ UNCHANGED <<h, t, f, size, list, heap, pc, l, peak, abort>>
  BY DEF Top
<1>2. Typed
  BY DEF IInv
<1>3. PICK U \in Row, i \in Nat, j \in Nat, F \in Row, n \in Nat : Rows(U, i, j, F, n)
  BY DEF IInv
<1>4. h \in heap
  BY <1>1, <1>2, <1>3, HeadGood
<1>5. HeldGood'
  BY <1>1, <1>4 DEF HeldGood, Front
<1>6. Rows(U, i, j, F, n)'
  <2>1. UsedIs(U, i, j)' /\ SparesAre(F, n)' /\ Apart(U, i, j, F, n)'
    BY <1>1, <1>3 DEF Rows, UsedIs, SparesAre, Apart
  <2>2. Windows(U, i, j)' <=> Windows(U, i, j)
    BY <1>1 DEF Windows
  <2> QED
    BY <1>1, <1>3, <2>1, <2>2 DEF Rows, FirstUsed, LastUsed, FirstSpare
<1>7. Typed'
  BY <1>1, <1>2 DEF Typed
<1> QED
  BY <1>1, <1>5, <1>6, <1>7 DEF IInv

-----------------------------------------------------------------------------
(* tl_queue_init and tl_queue_destroy. *)
LEMMA QueueInitKeeps ==
  ASSUME IInv, QueueInit
  PROVE  IInv'
<1>1. /\ pc = "none" /\ pc' = "open" /\ heap = {} /\ held = Nowhere
      /\ UNCHANGED <<h, t, f, size, list, heap, l, held, peak, abort>>
  BY DEF QueueInit, IInv, HeldGood
<1>2. PICK U \in Row, i \in Nat, j \in Nat, F \in Row, n \in Nat : Rows(U, i, j, F, n)
  BY DEF IInv
<1>3. Rows(U, i, j, F, n)'
  <2>1. UsedIs(U, i, j)' /\ SparesAre(F, n)' /\ Apart(U, i, j, F, n)'
    BY <1>1, <1>2 DEF Rows, UsedIs, SparesAre, Apart
  <2>2. Windows(U, i, j)' <=> Windows(U, i, j)
    BY <1>1 DEF Windows
  <2> QED
    BY <1>1, <1>2, <2>1, <2>2 DEF Rows, FirstUsed, LastUsed, FirstSpare
<1>4. Typed' /\ HeldGood' /\ peak' \in Nat
  BY <1>1 DEF IInv, Typed, HeldGood
<1>5. Cardinality(heap') * CHUNK <= peak' + 2 * CHUNK - 2
  <2>1. heap' = {} /\ Cardinality({}) = 0 /\ 0 * CHUNK = 0
    BY <1>1, FS_EmptySet, QueueAssumption
  <2>2. Cardinality(heap') * CHUNK = 0
    BY <2>1
  <2> QED
    BY <1>4, <2>2, QueueAssumption
<1> QED
  BY <1>1, <1>3, <1>4, <1>5 DEF IInv

\* The spares are freed first, from the one that would be taken next.
LEMMA DestroyCallKeeps ==
  ASSUME IInv, DestroyCall
  PROVE  IInv'
<1>1. /\ pc = "open" /\ pc' = "free_f" /\ l' = f /\ held' = Nowhere
      /\ UNCHANGED <<h, t, f, size, list, heap, peak, abort>>
  BY DEF DestroyCall
<1>2. PICK U \in Row, i \in Nat, j \in Nat, F \in Row, n \in Nat : Rows(U, i, j, F, n)
  BY DEF IInv
<1>3. Rows(U, i, j, F, n)'
  BY <1>1, <1>2 DEF Rows, UsedIs, SparesAre, Apart, FirstUsed, FirstSpare
<1>4. Typed' /\ HeldGood'
  BY <1>1 DEF IInv, Typed, HeldGood
<1> QED
  BY <1>1, <1>3, <1>4 DEF IInv

\* freeList of the spares has come to the end: the chunks in use are next.
LEMMA FreeChunksNextKeeps ==
  ASSUME IInv, FreeChunksNext
  PROVE  IInv'
<1>1. /\ pc = "free_f" /\ l = NULL /\ pc' = "free_h" /\ l' = h
      /\ UNCHANGED <<h, t, f, size, list, heap, held, peak, abort>>
  BY DEF FreeChunksNext
<1>2. PICK U \in Row, i \in Nat, j \in Nat, F \in Row, n \in Nat : Rows(U, i, j, F, n)
  BY DEF IInv
<1>3. Typed /\ held = Nowhere
  BY <1>1 DEF IInv, HeldGood
<1>4. n = 0
  <2>1. SUFFICES ASSUME n # 0 PROVE FALSE
    OBVIOUS
  <2>2. n - 1 \in 0 .. n - 1 /\ F[n - 1] = NULL
    BY <1>1, <1>2, <2>1 DEF Rows, FirstSpare
  <2> QED
    BY <1>2, <1>3, <2>2, QueueAssumption DEF Rows, SparesAre, Typed
<1>5. Rows(U, i, j, F, n)'
  BY <1>1, <1>2, <1>4 DEF Rows, UsedIs, SparesAre, Apart, FirstUsed
<1>6. Typed' /\ HeldGood'
  BY <1>1, <1>3 DEF Typed, HeldGood
<1> QED
  BY <1>1, <1>5, <1>6 DEF IInv

\* freeList: the chunk l is the first of its row, which begins behind it now.
LEMMA FreeOneKeeps ==
  ASSUME IInv, FreeOne
  PROVE  IInv'
<1>1. /\ pc \in {"free_f", "free_h"} /\ l # NULL /\ list' = [list EXCEPT ![l] = NoList]
      /\ heap' = heap \ {l} /\ l' = list[l].next /\ UNCHANGED <<h, t, f, size, pc, held, peak, abort>>
  BY DEF FreeOne, NextOf
<1>2. PICK U \in Row, i \in Nat, j \in Nat, F \in Row, n \in Nat : Rows(U, i, j, F, n)
  BY DEF IInv
<1>3. /\ Typed /\ held = Nowhere /\ heap \subseteq Chunks /\ IsFiniteSet(heap) /\ list \in Lists
      /\ UsedIs(U, i, j) /\ SparesAre(F, n) /\ Apart(U, i, j, F, n)
  BY <1>1, <1>2 DEF IInv, HeldGood, Typed, Rows
<1>4. (pc = "free_f" => n > 0 /\ l = F[n - 1]) /\ (pc = "free_h" => n = 0 /\ i < j /\ l = U[i])
  BY <1>1, <1>2, <1>3 DEF Rows, FirstUsed, FirstSpare, UsedIs
<1>5. l \in heap /\ l \in Chunks
  <2>1. (n > 0 => n - 1 \in 0 .. n - 1) /\ (i < j => i \in i .. j - 1)
    OBVIOUS
  <2> QED
    BY <1>1, <1>3, <1>4, <2>1 DEF UsedIs, SparesAre
<1>6. /\ IsFiniteSet(heap') /\ Cardinality(heap') = Cardinality(heap) - 1
      /\ list' \in Lists /\ \A x \in Chunks \ {l} : list'[x] = list[x]
  <2>1. NoList \in Chunk
    <3>1. [k \in Place |-> Junk] \in [Place -> Val \cup {Junk}] /\ 0 \in 0 .. CHUNK
      BY QueueAssumption
    <3> QED
      BY <3>1 DEF NoList, Chunk
  <2> QED
    BY <1>1, <1>3, <1>5, <2>1, FS_RemoveElement DEF Lists
<1>7. Typed' /\ HeldGood'
  BY <1>1, <1>3, <1>6 DEF Typed, HeldGood
<1>8. CASE pc = "free_f"
  <2>1. n > 0 /\ l = F[n - 1] /\ n - 1 \in 0 .. n - 1 /\ h = FirstUsed(U, i, j) /\ n - 1 \in Nat
    BY <1>2, <1>4, <1>8 DEF Rows
  <2>2. \A k \in i .. j - 1 : U[k] # l /\ U[k] \in heap' /\ list'[U[k]] = list[U[k]]
    BY <1>1, <1>3, <1>6, <2>1 DEF UsedIs, Apart
  <2>3. \A k \in 0 .. n - 2 : k \in 0 .. n - 1 /\ F[k] # l /\ F[k] \in heap' /\ list'[F[k]] = list[F[k]]
    <3>1. \A k \in 0 .. n - 2 : k \in 0 .. n - 1 /\ k # n - 1
      BY <2>1
    <3>2. \A k \in 0 .. n - 2 : F[k] # l /\ F[k] \in heap
      BY <1>3, <2>1, <3>1 DEF SparesAre
    <3> QED
      BY <1>1, <1>3, <1>6, <3>1, <3>2
  <2>4. UsedIs(U, i, j)'
    BY <1>3, <2>2 DEF UsedIs
  <2>5. SparesAre(F, n - 1)'
    <3>1. (n - 1) - 1 = n - 2
      OBVIOUS
    <3> QED
      BY <1>3, <2>3, <3>1 DEF SparesAre
  <2>6. Apart(U, i, j, F, n - 1)'
    <3>1. (n - 1) - 1 = n - 2
      OBVIOUS
    <3>2. ASSUME NEW x \in heap'
          PROVE  (\E k \in i .. j - 1 : U[k] = x) \/ \E k \in 0 .. n - 2 : F[k] = x
      <4>1. \A k \in 0 .. n - 1 : k \in 0 .. n - 2 \/ k = n - 1
        OBVIOUS
      <4> QED
        BY <1>1, <1>3, <2>1, <4>1 DEF Apart
    <3>3. Cardinality(heap') = (j - i) + (n - 1)
      BY <1>3, <1>6 DEF Apart
    <3> QED
      BY <1>3, <2>3, <3>1, <3>2, <3>3 DEF Apart
  <2>7. l' = FirstSpare(F, n - 1)
    BY <1>1, <1>3, <2>1 DEF SparesAre, FirstSpare
  <2>8. Rows(U, i, j, F, n - 1)'
    BY <1>1, <1>8, <2>1, <2>4, <2>5, <2>6, <2>7 DEF Rows, FirstUsed, FirstSpare
  <2> QED
    BY <1>1, <1>7, <1>8, <2>1, <2>8 DEF IInv
<1>9. CASE pc = "free_h"
  <2>1. n = 0 /\ i < j /\ l = U[i] /\ i \in i .. j - 1 /\ i + 1 \in Nat
    BY <1>4, <1>9
  <2>2. \A k \in i + 1 .. j - 1 : k \in i .. j - 1 /\ U[k] # l /\ U[k] \in heap' /\ list'[U[k]] = list[U[k]]
    <3>1. \A k \in i + 1 .. j - 1 : k \in i .. j - 1 /\ k # i
      OBVIOUS
    <3>2. \A k \in i + 1 .. j - 1 : U[k] # l /\ U[k] \in heap
      BY <1>3, <2>1, <3>1 DEF UsedIs
    <3> QED
      BY <1>1, <1>3, <1>6, <3>1, <3>2
  <2>3. UsedIs(U, i + 1, j)'
    BY <1>3, <2>1, <2>2 DEF UsedIs
  <2>4. SparesAre(F, n)'
    BY <2>1 DEF SparesAre
  <2>5. Apart(U, i + 1, j, F, n)'
    <3>1. ASSUME NEW x \in heap'
          PROVE  \E k \in i + 1 .. j - 1 : U[k] = x
      <4>1. \A k \in i .. j - 1 : k \in i + 1 .. j - 1 \/ k = i
        OBVIOUS
      <4> QED
        BY <1>1, <1>3, <2>1, <4>1 DEF Apart
    <3>2. Cardinality(heap') = (j - (i + 1)) + n
      BY <1>3, <1>6 DEF Apart
    <3> QED
      BY <1>3, <2>1, <2>2, <3>1, <3>2 DEF Apart
  <2>6. l' = FirstUsed(U, i + 1, j)
    BY <1>1, <1>3, <2>1 DEF UsedIs, FirstUsed
  <2>7. Rows(U, i + 1, j, F, n)'
    BY <1>1, <1>9, <2>1, <2>3, <2>4, <2>5, <2>6 DEF Rows, FirstUsed
  <2> QED
    BY <1>1, <1>7, <1>9, <2>1, <2>7 DEF IInv
<1> QED
  BY <1>1, <1>8, <1>9

\* All chunks are freed, and the queue itself.
LEMMA DestroyDoneKeeps ==
  ASSUME IInv, DestroyDone
  PROVE  IInv'
<1>1. /\ pc = "free_h" /\ l = NULL /\ pc' = "none" /\ h' = NULL /\ t' = NULL /\ f' = NULL
      /\ size' = 0 /\ peak' = 0 /\ UNCHANGED <<list, heap, l, held, abort>>
  BY DEF DestroyDone
<1>2. PICK U \in Row, i \in Nat, j \in Nat, F \in Row, n \in Nat : Rows(U, i, j, F, n)
  BY DEF IInv
<1>3. Typed /\ held = Nowhere
  BY <1>1 DEF IInv, HeldGood
<1>4. n = 0 /\ i = j
  <2>1. n = 0 /\ l = FirstUsed(U, i, j) /\ UsedIs(U, i, j)
    BY <1>1, <1>2 DEF Rows
  <2>2. SUFFICES ASSUME i # j PROVE FALSE
    BY <2>1
  <2>3. i \in i .. j - 1 /\ U[i] = NULL
    BY <1>1, <2>1, <2>2 DEF FirstUsed, UsedIs
  <2> QED
    BY <1>3, <2>1, <2>3, QueueAssumption DEF UsedIs, Typed
<1>5. heap = {}
  BY <1>2, <1>4 DEF Rows, Apart
<1>6. Rows(U, i, j, F, n)'
  BY <1>1, <1>2, <1>4, <1>5 DEF Rows, UsedIs, SparesAre, Apart, Windows, FirstUsed, LastUsed, FirstSpare
<1>7. Typed' /\ HeldGood'
  BY <1>1, <1>3 DEF Typed, HeldGood
<1> QED
  BY <1>1, <1>5, <1>6, <1>7 DEF IInv

-----------------------------------------------------------------------------
(* The invariant is inductive: one lemma per action. *)
LEMMA NextIInv == IInv /\ [Next]_vars => IInv'
<1> SUFFICES ASSUME IInv, [Next]_vars PROVE IInv'
  OBVIOUS
<1>0. PICK U \in Row, i \in Nat, j \in Nat, F \in Row, n \in Nat : Rows(U, i, j, F, n)
  BY DEF IInv
<1>1. CASE Push
  BY <1>0, <1>1, PushRoomKeeps, GrowStepKeeps, PushFailsKeeps DEF Push
<1>2. CASE Pop
  BY <1>0, <1>2, PopKeepsKeeps, PopRetiresKeeps DEF Pop
<1>3. CASE Destroying
  BY <1>3, FreeOneKeeps, FreeChunksNextKeeps, DestroyDoneKeeps DEF Destroying
<1>4. CASE QueueInit \/ Top \/ DestroyCall \/ UNCHANGED vars
  BY <1>4, QueueInitKeeps, TopKeeps, DestroyCallKeeps, QuietKeeps
<1> QED
  BY <1>1, <1>2, <1>3, <1>4 DEF Next

\* What all theorems rest on.
LEMMA Invariant == Spec => []IInv
  BY InitIInv, NextIInv, PTL DEF Spec

(* The address that tl_queue_top returned is that of a chunk that is allocated and
   holds the element still, however many pushes follow. *)
THEOREM HeldIsKept == Spec => []HeldStays
<1>1. IInv => HeldStays
  BY DEF IInv, HeldGood, HeldStays
<1> QED
  BY <1>1, Invariant, PTL

(* The memory of a queue is bounded by the most it has held, for any number of
   elements in a chunk. *)
THEOREM MemoryIsBounded == Spec => []MemoryBounded
<1>1. IInv => MemoryBounded
  BY DEF IInv, MemoryBounded
<1> QED
  BY <1>1, Invariant, PTL

-----------------------------------------------------------------------------
(* There is a least one of some natural numbers. *)
LEMMA LeastNat ==
  ASSUME NEW T, T \subseteq Nat, T # {}
  PROVE  \E x \in T : \A y \in T : x <= y
<1> DEFINE R == OpToRel(<, Nat)
<1>1. IsWellFoundedOn(R, Nat)
  BY NatLessThanWellFounded, Zenon
<1>2. \A x, y \in Nat : <<y, x>> \in R <=> y < x
  BY DEF OpToRel
<1> HIDE DEF R
<1>3. PICK x \in T : \A y \in T : ~ (<<y, x>> \in R)
  BY <1>1, WFMin, Zenon
<1>4. \A y \in T : ~(y < x)
  BY <1>2, <1>3, Zenon
<1> HIDE <1>1, <1>2, <1>3
<1> QED
  BY <1>4

-----------------------------------------------------------------------------
(* The list from a chunk on. *)
Follow(x) == IF x \in Chunks THEN list[x].next ELSE x
Ends == Chunks \cup {NULL, Junk}

\* A list can be followed as far as one likes.
LEMMA Followed ==
  ASSUME list \in Lists, NEW c \in Ends, NEW N \in Nat
  PROVE  \E r \in [0 .. N -> Ends] : r[0] = c /\ \A n \in 1 .. N : r[n] = Follow(r[n - 1])
<1> DEFINE Far(m) == \E r \in [0 .. m -> Ends] : r[0] = c /\ \A n \in 1 .. m : r[n] = Follow(r[n - 1])
           T == {m \in Nat : ~Far(m)}
<1>1. Far(0)
  <2> DEFINE s == [n \in 0 .. 0 |-> c]
  <2>1. s \in [0 .. 0 -> Ends] /\ s[0] = c /\ 1 .. 0 = {}
    OBVIOUS
  <2> HIDE DEF s
  <2> QED
    BY <2>1
<1>2. ASSUME NEW m \in Nat, Far(m)
      PROVE  Far(m + 1)
  <2>1. PICK r \in [0 .. m -> Ends] : r[0] = c /\ \A n \in 1 .. m : r[n] = Follow(r[n - 1])
    BY <1>2
  <2> DEFINE s == [n \in 0 .. m + 1 |-> IF n = m + 1 THEN Follow(r[m]) ELSE r[n]]
  <2>2. r[m] \in Ends /\ Follow(r[m]) \in Ends
    BY DEF Follow, Ends, Lists, Chunk
  <2>3. s \in [0 .. m + 1 -> Ends] /\ s[0] = c
    BY <2>1, <2>2
  <2>4. ASSUME NEW n \in 1 .. m + 1 PROVE s[n] = Follow(s[n - 1])
    <3>1. CASE n = m + 1
      <4>1. s[n] = Follow(r[m]) /\ s[n - 1] = r[m]
        BY <3>1
      <4> QED
        BY <4>1
    <3>2. CASE n \in 1 .. m
      <4>1. s[n] = r[n] /\ s[n - 1] = r[n - 1]
        BY <3>2
      <4> QED
        BY <2>1, <3>2, <4>1
    <3> QED
      BY <3>1, <3>2
  <2> HIDE DEF s
  <2> QED
    BY <2>3, <2>4
<1> HIDE DEF Far
<1>3. T = {}
  <2>1. SUFFICES ASSUME T # {} PROVE FALSE
    OBVIOUS
  <2>2. PICK x \in T : \A y \in T : x <= y
    BY <2>1, LeastNat
  <2>3. x # 0 /\ x - 1 \in Nat /\ x - 1 \notin T
    BY <1>1, <2>2
  <2>4. Far(x - 1) /\ (x - 1) + 1 = x
    BY <2>3
  <2>5. Far((x - 1) + 1)
    BY <1>2, <2>3, <2>4
  <2> QED
    BY <2>2, <2>4, <2>5
<1>4. Far(N)
  BY <1>3
<1> QED
  BY <1>4 DEF Far

\* So Along is what its recursive definition says.
LEMMA AlongIs ==
  ASSUME list \in Lists, NEW c \in Ends, Cardinality(Chunks) \in Nat
  PROVE  Along(c)[0] = c /\ \A n \in 1 .. Cardinality(Chunks) : Along(c)[n] = Follow(Along(c)[n - 1])
<1> DEFINE N == Cardinality(Chunks)
<1>1. PICK r \in [0 .. N -> Ends] : r[0] = c /\ \A n \in 1 .. N : r[n] = Follow(r[n - 1])
  BY Followed
<1>2. r = [n \in 0 .. N |-> IF n = 0 THEN c
                           ELSE IF r[n - 1] \in Chunks THEN list[r[n - 1]].next ELSE r[n - 1]]
  BY <1>1 DEF Follow
<1>3. Along(c) = [n \in 0 .. N |-> IF n = 0 THEN c
                                  ELSE IF Along(c)[n - 1] \in Chunks THEN list[Along(c)[n - 1]].next
                                       ELSE Along(c)[n - 1]]
  BY <1>2 DEF Along
<1> QED
  BY <1>3 DEF Follow

\* A row that is linked like W is what the list from its first chunk on is.
LEMMA ChainIs ==
  ASSUME list \in Lists, NEW W \in Row, NEW w \in 0 .. Cardinality(Chunks),
         \A m \in 0 .. w - 1 : W[m] \in Chunks /\ list[W[m]].next = IF m + 1 = w THEN NULL ELSE W[m + 1],
         NEW c, c = IF w = 0 THEN NULL ELSE W[0]
  PROVE  Chain(c) = [n \in 1 .. w |-> W[n - 1]]
<1> DEFINE N == Cardinality(Chunks)
           A(m) == Along(c)[m] = IF m < w THEN W[m] ELSE NULL
           T == {m \in 0 .. N : ~A(m)}
<1>1. N \in Nat /\ w \in Nat /\ w <= N /\ NULL \notin Chunks
  BY FS_CardinalityType, QueueAssumption
<1>2. c \in Ends
  <2>1. w # 0 => 0 \in 0 .. w - 1
    BY <1>1
  <2> QED
    BY <2>1 DEF Ends
<1>3. Along(c)[0] = c /\ \A n \in 1 .. N : Along(c)[n] = Follow(Along(c)[n - 1])
  BY <1>1, <1>2, AlongIs
<1>4. A(0)
  BY <1>1, <1>3
<1>5. ASSUME NEW m \in 0 .. N, m > 0, A(m - 1)
      PROVE  A(m)
  <2>1. Along(c)[m] = Follow(Along(c)[m - 1]) /\ m - 1 \in 0 .. N /\ (m - 1) + 1 = m
    <3>1. m \in 1 .. N /\ m - 1 \in 0 .. N /\ (m - 1) + 1 = m
      BY <1>1, <1>5
    <3> QED
      BY <1>3, <3>1
  <2>2. CASE m < w
    BY <1>1, <1>5, <2>1, <2>2 DEF Follow
  <2>3. CASE m = w
    BY <1>1, <1>5, <2>1, <2>3 DEF Follow
  <2>4. CASE m > w
    BY <1>1, <1>5, <2>1, <2>4 DEF Follow
  <2> QED
    BY <1>1, <2>2, <2>3, <2>4
<1> HIDE DEF A
<1>6. T = {}
  <2>1. SUFFICES ASSUME T # {} PROVE FALSE
    OBVIOUS
  <2>2. PICK x \in T : \A y \in T : x <= y
    <3>1. T \subseteq Nat
      BY <1>1
    <3> HIDE DEF T
    <3> QED
      BY <2>1, <3>1, LeastNat
  <2>3. x > 0 /\ x \in 0 .. N /\ x - 1 \in 0 .. N /\ x - 1 \notin T
    BY <1>1, <1>4, <2>2
  <2> QED
    BY <1>5, <2>2, <2>3
<1>7. \A m \in 0 .. N : Along(c)[m] = IF m < w THEN W[m] ELSE NULL
  BY <1>6 DEF A
<1>8. {m \in 0 .. N : Along(c)[m] # NULL} = 0 .. w - 1
  BY <1>1, <1>7
<1>9. Cardinality(0 .. w - 1) = w
  BY <1>1, FS_Interval
<1>10. \A n \in 1 .. w : Along(c)[n - 1] = W[n - 1]
  BY <1>1, <1>7
<1> QED
  BY <1>8, <1>9, <1>10 DEF Chain

(* Both lists of an open queue, in the order of their links. *)
LEMMA ChainsAre ==
  ASSUME Typed, pc = "open", NEW U \in Row, NEW i \in Nat, NEW j \in Nat, NEW F \in Row,
         NEW n \in Nat, Rows(U, i, j, F, n)
  PROVE  /\ Chain(h) = [k \in 1 .. j - i |-> U[i + k - 1]]
         /\ Chain(f) = [k \in 1 .. n |-> F[n - k]]
         /\ i <= j
<1>1. /\ UsedIs(U, i, j) /\ SparesAre(F, n) /\ Apart(U, i, j, F, n) /\ i <= j
      /\ h = FirstUsed(U, i, j) /\ f = FirstSpare(F, n)
      /\ heap \subseteq Chunks /\ list \in Lists
  BY DEF Rows, UsedIs, Typed
<1>2. j - i \in 0 .. Cardinality(Chunks) /\ n \in 0 .. Cardinality(Chunks)
  <2>1. Cardinality(heap) <= Cardinality(Chunks) /\ Cardinality(Chunks) \in Nat
    BY <1>1, FS_Subset, FS_CardinalityType, QueueAssumption
  <2>2. Cardinality(heap) = (j - i) + n
    BY <1>1 DEF Apart
  <2> QED
    BY <1>1, <2>1, <2>2
<1>3. Chain(h) = [k \in 1 .. j - i |-> U[i + k - 1]]
  <2> DEFINE W == [m \in Nat |-> U[i + m]]
  <2>1. W \in Row /\ \A m \in Nat : W[m] = U[i + m]
    BY DEF Row
  <2>2. ASSUME NEW m \in 0 .. (j - i) - 1
        PROVE  W[m] \in Chunks /\ list[W[m]].next = IF m + 1 = j - i THEN NULL ELSE W[m + 1]
    <3>1. i + m \in i .. j - 1 /\ (i + m) + 1 = i + (m + 1) /\ ((i + m) + 1 = j <=> m + 1 = j - i)
      BY <1>1
    <3>2. W[m] = U[i + m] /\ W[m + 1] = U[(i + m) + 1]
      BY <2>1, <3>1
    <3> QED
      BY <1>1, <3>1, <3>2 DEF UsedIs
  <2>3. h = IF j - i = 0 THEN NULL ELSE W[0]
    <3>1. W[0] = U[i] /\ (j - i = 0 <=> i = j)
      BY <2>1
    <3> QED
      BY <1>1, <3>1 DEF FirstUsed
  <2> HIDE DEF W
  <2>4. Chain(h) = [k \in 1 .. j - i |-> W[k - 1]]
    BY <1>1, <1>2, <2>1, <2>2, <2>3, ChainIs
  <2>5. \A k \in 1 .. j - i : W[k - 1] = U[i + k - 1]
    <3>1. \A k \in 1 .. j - i : k - 1 \in Nat /\ i + (k - 1) = i + k - 1
      OBVIOUS
    <3> QED
      BY <2>1, <3>1
  <2> QED
    BY <2>4, <2>5
<1>4. Chain(f) = [k \in 1 .. n |-> F[n - k]]
  <2> DEFINE W == [m \in Nat |-> IF m < n THEN F[n - 1 - m] ELSE NULL]
  <2>1. W \in Row /\ \A m \in 0 .. n - 1 : W[m] = F[n - 1 - m]
    BY DEF Row
  <2>2. ASSUME NEW m \in 0 .. n - 1
        PROVE  W[m] \in Chunks /\ list[W[m]].next = IF m + 1 = n THEN NULL ELSE W[m + 1]
    <3>1. n - 1 - m \in 0 .. n - 1 /\ (n - 1 - m = 0 <=> m + 1 = n)
          /\ (m + 1 # n => m + 1 \in 0 .. n - 1 /\ n - 1 - (m + 1) = (n - 1 - m) - 1)
      OBVIOUS
    <3>2. W[m] = F[n - 1 - m] /\ (m + 1 # n => W[m + 1] = F[(n - 1 - m) - 1])
      BY <2>1, <3>1
    <3> QED
      BY <1>1, <3>1, <3>2 DEF SparesAre
  <2>3. f = IF n = 0 THEN NULL ELSE W[0]
    <3>1. n # 0 => 0 \in 0 .. n - 1 /\ n - 1 - 0 = n - 1
      OBVIOUS
    <3> QED
      BY <1>1, <2>1, <3>1 DEF FirstSpare
  <2> HIDE DEF W
  <2>4. Chain(f) = [k \in 1 .. n |-> W[k - 1]]
    BY <1>1, <1>2, <2>1, <2>2, <2>3, ChainIs
  <2>5. \A k \in 1 .. n : W[k - 1] = F[n - k]
    <3>1. \A k \in 1 .. n : k - 1 \in 0 .. n - 1 /\ n - 1 - (k - 1) = n - k
      OBVIOUS
    <3> QED
      BY <2>1, <3>1
  <2> QED
    BY <2>4, <2>5
<1> QED
  BY <1>1, <1>3, <1>4

-----------------------------------------------------------------------------
(* h, t and f stand for chunks, even while tl_queue_destroy leaves them behind. *)
Pointers == {h, t, f} \subseteq Chunks \cup {NULL}

\* They are read off the rows,
LEMMA OpenPointers == IInv /\ pc \in {"none", "open"} => Pointers
<1> SUFFICES ASSUME IInv, pc \in {"none", "open"} PROVE Pointers
  OBVIOUS
<1>1. PICK U \in Row, i \in Nat, j \in Nat, F \in Row, n \in Nat : Rows(U, i, j, F, n)
  BY DEF IInv
<1>2. /\ h = FirstUsed(U, i, j) /\ t = LastUsed(U, i, j) /\ f = FirstSpare(F, n)
      /\ UsedIs(U, i, j) /\ SparesAre(F, n) /\ heap \subseteq Chunks
  BY <1>1 DEF Rows, IInv, Typed
<1>3. (i < j => i \in i .. j - 1 /\ j - 1 \in i .. j - 1) /\ (n > 0 => n - 1 \in 0 .. n - 1)
  OBVIOUS
<1>4. h \in Chunks \cup {NULL}
  BY <1>2, <1>3 DEF UsedIs, FirstUsed
<1>5. t \in Chunks \cup {NULL}
  BY <1>2, <1>3 DEF UsedIs, LastUsed
<1>6. f \in Chunks \cup {NULL}
  BY <1>2, <1>3 DEF SparesAre, FirstSpare
<1> QED
  BY <1>4, <1>5, <1>6 DEF Pointers

\* and left alone where the rows do not give them.
LEMMA NextPointers == IInv /\ Pointers /\ [Next]_vars => Pointers'
<1> SUFFICES ASSUME IInv, Pointers, [Next]_vars PROVE Pointers'
  OBVIOUS
<1>1. IInv'
  BY NextIInv
<1>2. IInv' /\ pc' \in {"none", "open"} => Pointers'
  <2> SUFFICES ASSUME IInv', pc' \in {"none", "open"} PROVE Pointers'
    OBVIOUS
  <2>1. (IInv /\ pc \in {"none", "open"} => Pointers)'
    BY OpenPointers, PTL
  <2> QED
    BY <2>1
<1>3. pc' \in {"none", "open"} \/ UNCHANGED <<h, t, f>>
  <2>1. CASE Push
    BY <2>1 DEF Push, PushRoom, PushFirst, PushNext, PushFails, Store
  <2>2. CASE Pop
    BY <2>2 DEF Pop, PopKeeps, PopRetires
  <2>3. CASE Destroying
    BY <2>3 DEF Destroying, FreeOne, FreeChunksNext, DestroyDone
  <2>4. CASE QueueInit \/ Top \/ DestroyCall \/ UNCHANGED vars
    BY <2>4 DEF QueueInit, Top, DestroyCall, vars
  <2> QED
    BY <2>1, <2>2, <2>3, <2>4 DEF Next
<1> QED
  BY <1>1, <1>2, <1>3 DEF Pointers

(* The lists as ChunksPartitioned follows them are the rows of the invariant. *)
LEMMA PartitionedWhenOpen ==
  ASSUME IInv, pc = "open"
  PROVE  /\ ToSet(Chain(h)) \cup ToSet(Chain(f)) = heap
         /\ Len(Chain(h)) + Len(Chain(f)) = Cardinality(heap)
         /\ t = IF Chain(h) = <<>> THEN NULL ELSE Chain(h)[Len(Chain(h))]
         /\ Contiguous
<1>1. PICK U \in Row, i \in Nat, j \in Nat, F \in Row, n \in Nat : Rows(U, i, j, F, n)
  BY DEF IInv
<1>2. /\ Chain(h) = [k \in 1 .. j - i |-> U[i + k - 1]] /\ Chain(f) = [k \in 1 .. n |-> F[n - k]]
      /\ i <= j
  <2>1. Typed
    BY DEF IInv
  <2> QED
    BY <1>1, <2>1, ChainsAre
<1>3. /\ UsedIs(U, i, j) /\ SparesAre(F, n) /\ Apart(U, i, j, F, n) /\ Windows(U, i, j)
      /\ t = LastUsed(U, i, j) /\ h = FirstUsed(U, i, j) /\ size \in Nat
  BY <1>1 DEF Rows, IInv, Typed
<1>4. Len(Chain(h)) = j - i /\ Len(Chain(f)) = n /\ DOMAIN Chain(h) = 1 .. j - i /\ DOMAIN Chain(f) = 1 .. n
  BY <1>2
<1>5. \A k \in 1 .. j - i : Chain(h)[k] = U[i + k - 1] /\ i + k - 1 \in i .. j - 1
  BY <1>2
<1>6. \A k \in 1 .. n : Chain(f)[k] = F[n - k] /\ n - k \in 0 .. n - 1
  BY <1>2
<1>7. ToSet(Chain(h)) \cup ToSet(Chain(f)) = heap
  <2>1. ASSUME NEW x \in ToSet(Chain(h)) PROVE x \in heap
    BY <1>3, <1>4, <1>5 DEF ToSet, UsedIs
  <2>2. ASSUME NEW x \in ToSet(Chain(f)) PROVE x \in heap
    BY <1>3, <1>4, <1>6 DEF ToSet, SparesAre
  <2>3. ASSUME NEW x \in heap PROVE x \in ToSet(Chain(h)) \cup ToSet(Chain(f))
    <3>1. CASE \E k \in i .. j - 1 : U[k] = x
      <4>1. PICK k \in i .. j - 1 : U[k] = x
        BY <3>1
      <4>2. k - i + 1 \in 1 .. j - i /\ i + (k - i + 1) - 1 = k
        BY <4>1
      <4>3. Chain(h)[k - i + 1] = x
        BY <1>5, <4>1, <4>2
      <4> QED
        BY <1>4, <4>2, <4>3 DEF ToSet
    <3>2. CASE \E k \in 0 .. n - 1 : F[k] = x
      <4>1. PICK k \in 0 .. n - 1 : F[k] = x
        BY <3>2
      <4>2. n - k \in 1 .. n /\ n - (n - k) = k
        BY <4>1
      <4>3. Chain(f)[n - k] = x
        BY <1>6, <4>1, <4>2
      <4> QED
        BY <1>4, <4>2, <4>3 DEF ToSet
    <3> QED
      BY <1>3, <3>1, <3>2 DEF Apart
  <2> QED
    BY <2>1, <2>2, <2>3
<1>8. Chain(h) = <<>> <=> i = j
  BY <1>2, <1>4
<1>9. i # j => j - i \in 1 .. j - i /\ i + (j - i) - 1 = j - 1
  BY <1>2
<1>10. t = IF Chain(h) = <<>> THEN NULL ELSE Chain(h)[Len(Chain(h))]
  BY <1>3, <1>4, <1>5, <1>8, <1>9 DEF LastUsed
<1>11. Contiguous
  <2>1. ASSUME NEW k \in 1 .. j - i
        PROVE  /\ list[Chain(h)[k]].s < list[Chain(h)[k]].e
               /\ k > 1 => list[Chain(h)[k]].s = 0
               /\ k < j - i => list[Chain(h)[k]].e = CHUNK
    <3>1. /\ Chain(h)[k] = U[i + k - 1] /\ i + k - 1 \in i .. j - 1
          /\ (k > 1 => i + k - 1 > i) /\ (k < j - i => (i + k - 1) + 1 < j)
      BY <1>5
    <3> QED
      BY <1>3, <3>1 DEF Windows
  <2>2. size = IF i = j THEN 0 ELSE ((j - i) - 1) * CHUNK + list[t].e - list[h].s
    <3>1. (j - i) - 1 = j - 1 - i
      BY <1>2
    <3> QED
      BY <1>3, <3>1 DEF Windows, FirstUsed, LastUsed
  <2> QED
    BY <1>4, <1>8, <2>1, <2>2 DEF Contiguous
<1> QED
  BY <1>3, <1>4, <1>7, <1>10, <1>11 DEF Apart

(* No assertion of tl_queue_pop fails, and every chunk ever allocated is in exactly
   one of the two lists, which end: for any number of chunks, elements in a chunk
   and calls. *)
THEOREM Partitioned == Spec => []ChunksPartitioned
<1>1. IInv /\ Pointers => ChunksPartitioned
  <2> SUFFICES ASSUME IInv, Pointers PROVE ChunksPartitioned
    OBVIOUS
  <2>1. PICK U \in Row, i \in Nat, j \in Nat, F \in Row, n \in Nat : Rows(U, i, j, F, n)
    BY DEF IInv
  <2>2. Typed
    BY DEF IInv
  <2>3. l \in heap \cup {NULL}
    <3>1. (i < j => i \in i .. j - 1) /\ (n > 0 => n - 1 \in 0 .. n - 1)
      OBVIOUS
    <3>2. UsedIs(U, i, j) /\ SparesAre(F, n)
      BY <2>1 DEF Rows
    <3>3. l \in {NULL, FirstUsed(U, i, j), FirstSpare(F, n)}
      BY <2>1, <2>2 DEF Rows, Typed
    <3> QED
      BY <3>1, <3>2, <3>3 DEF UsedIs, SparesAre, FirstUsed, FirstSpare
  <2>4. TypeOK
    BY <2>2, <2>3 DEF Typed, TypeOK, Pointers, Lists, Chunk
  <2>5. ~abort
    BY <2>2 DEF Typed
  <2>6. pc = "none" => heap = {}
    BY DEF IInv
  <2> QED
    BY <2>3, <2>4, <2>5, <2>6, PartitionedWhenOpen DEF ChunksPartitioned
<1>2. Init => Pointers
  BY DEF Init, Pointers
<1> QED
  BY <1>1, <1>2, InitIInv, NextIInv, NextPointers, PTL DEF Spec

-----------------------------------------------------------------------------
(* The elements: the one in place q, counted from the first place of the head, is in
   chunk q \div CHUNK of the row. *)

\* Whole chunks are in order.
LEMMA ChunksOrder ==
  ASSUME NEW a \in Int, NEW d \in Int, a < d
  PROVE  a * CHUNK + CHUNK <= d * CHUNK
<1>1. (d - a - 1) \in Nat
  OBVIOUS
<1>2. \A x \in Nat : x * CHUNK >= 0 /\ x * CHUNK \in Int
  BY QueueAssumption
<1>3. (d - a - 1) * CHUNK >= 0
  BY <1>1, <1>2
<1>4. (d - a - 1) * CHUNK = d * CHUNK - a * CHUNK - CHUNK
  BY QueueAssumption
<1>5. d * CHUNK \in Int /\ a * CHUNK \in Int
  BY Times
<1> QED
  BY <1>3, <1>4, <1>5, QueueAssumption

\* Division by CHUNK, as a product and a rest,
LEMMA Division ==
  ASSUME NEW q \in Nat
  PROVE  /\ q \div CHUNK \in Nat /\ q % CHUNK \in Place
         /\ q = (q \div CHUNK) * CHUNK + (q % CHUNK)
<1>1. /\ q \div CHUNK \in Nat /\ q % CHUNK \in Nat /\ q % CHUNK < CHUNK
      /\ q = (q \div CHUNK) * CHUNK + (q % CHUNK)
  BY QueueAssumption
<1>2. \A m \in Nat : m < CHUNK => m \in Place
  BY QueueAssumption DEF Place
<1> QED
  BY <1>1, <1>2, Zenon

\* which are the only ones.
LEMMA Quotient ==
  ASSUME NEW a \in Nat, NEW r \in Place
  PROVE  /\ a * CHUNK + r \in Nat
         /\ (a * CHUNK + r) \div CHUNK = a /\ (a * CHUNK + r) % CHUNK = r
<1> DEFINE q == a * CHUNK + r
<1>1. a * CHUNK \in Nat /\ q \in Nat /\ r \in 0 .. CHUNK - 1
  BY QueueAssumption DEF Place
<1>2. /\ q \div CHUNK \in Nat /\ q % CHUNK \in 0 .. CHUNK - 1
      /\ q = (q \div CHUNK) * CHUNK + (q % CHUNK)
  BY <1>1, Division DEF Place
<1> DEFINE d == q \div CHUNK
<1>3. ~(d < a)
  <2> SUFFICES ASSUME d < a PROVE FALSE
    OBVIOUS
  <2>1. d * CHUNK + CHUNK <= a * CHUNK
    BY <1>2, ChunksOrder
  <2>2. d * CHUNK \in Int
    BY <1>2, Times
  <2> HIDE DEF d
  <2> QED
    BY <1>1, <1>2, <2>1, <2>2, QueueAssumption DEF d
<1>4. ~(a < d)
  <2> SUFFICES ASSUME a < d PROVE FALSE
    OBVIOUS
  <2>1. a * CHUNK + CHUNK <= d * CHUNK
    BY <1>2, ChunksOrder
  <2>2. d * CHUNK \in Int
    BY <1>2, Times
  <2> QED
    BY <1>1, <1>2, <2>1, <2>2, QueueAssumption
<1>5. d = a
  BY <1>2, <1>3, <1>4
<1>6. q % CHUNK = r
  <2>1. q = a * CHUNK + (q % CHUNK) /\ q = a * CHUNK + r /\ q % CHUNK \in Int
    BY <1>2, <1>5
  <2> HIDE DEF q
  <2> QED
    BY <1>1, <2>1
<1> QED
  BY <1>1, <1>5, <1>6

\* The element in place q of the chunks L.
At(L, U, i, q) == L[U[i + (q \div CHUNK)]].container[q % CHUNK]
Ele == Val \cup {Junk}

\* Where the elements are: in the row, and not behind the last of the tail.
LEMMA PlacesAre ==
  ASSUME Typed, pc = "open", NEW U \in Row, NEW i \in Nat, NEW j \in Nat, NEW F \in Row,
         NEW n \in Nat, Rows(U, i, j, F, n), NEW p \in 1 .. size,
         NEW q, q = list[h].s + p - 1
  PROVE  /\ q \in Nat /\ q % CHUNK \in Place /\ q \div CHUNK \in Nat
         /\ i + (q \div CHUNK) \in i .. j - 1
         /\ i + (q \div CHUNK) = j - 1 => q % CHUNK < list[t].e
         /\ q = (q \div CHUNK) * CHUNK + (q % CHUNK)
<1>1. /\ i < j /\ list[h].s \in 0 .. CHUNK /\ list[t].e \in 0 .. CHUNK /\ size \in Nat
      /\ size = (j - 1 - i) * CHUNK + list[t].e - list[h].s
  <2>1. size # 0
    BY DEF Typed
  <2> QED
    BY <2>1, HeadGood DEF Typed
<1> DEFINE last == j - 1 - i
           d == q \div CHUNK
           r == q % CHUNK
<1>2. last \in Nat /\ last * CHUNK \in Int /\ CHUNK \in Nat /\ CHUNK > 0
  BY <1>1, Times, QueueAssumption
<1>3. q \in Nat /\ q < last * CHUNK + list[t].e
  BY <1>1, <1>2
<1>4. d \in Nat /\ r \in Place /\ q = d * CHUNK + r /\ d * CHUNK \in Int /\ r \in Nat
  BY <1>3, Division, Times DEF Place
<1> HIDE DEF d, r, last
<1>5. d <= last
  <2> SUFFICES ASSUME last < d PROVE FALSE
    BY <1>2, <1>4
  <2>1. last * CHUNK + CHUNK <= d * CHUNK
    BY <1>2, <1>4, ChunksOrder
  <2> QED
    BY <1>1, <1>2, <1>3, <1>4, <2>1
<1>6. d = last => r < list[t].e
  BY <1>1, <1>2, <1>3, <1>4
<1>7. i + d \in i .. j - 1 /\ (i + d = j - 1 <=> d = last)
  BY <1>1, <1>4, <1>5 DEF last
<1> QED
  BY <1>3, <1>4, <1>6, <1>7 DEF d, r

\* The elements, in terms of the row.
ContentsAlongRow ==
  \A U \in Row, i \in Nat, j \in Nat, F \in Row, n \in Nat :
    Typed /\ pc = "open" /\ Rows(U, i, j, F, n) =>
      /\ Contents \in Seq(Ele) /\ Len(Contents) = size
      /\ \A p \in 1 .. size : Contents[p] = At(list, U, i, list[h].s + p - 1)

\* The chunks that Contents finds by the links are those of the row.
LEMMA ContentsAre == ContentsAlongRow
<1> SUFFICES ASSUME NEW U \in Row, NEW i \in Nat, NEW j \in Nat, NEW F \in Row, NEW n \in Nat,
                    Typed, pc = "open", Rows(U, i, j, F, n)
             PROVE  /\ Contents \in Seq(Ele) /\ Len(Contents) = size
                    /\ \A p \in 1 .. size : Contents[p] = At(list, U, i, list[h].s + p - 1)
  BY DEF ContentsAlongRow
<1>1. Chain(h) = [k \in 1 .. j - i |-> U[i + k - 1]] /\ size \in Nat /\ list \in Lists
  BY ChainsAre DEF Typed
<1>2. ASSUME NEW p \in 1 .. size, NEW q, q = list[h].s + p - 1
      PROVE  /\ list[Chain(h)[(q \div CHUNK) + 1]].container[q % CHUNK] = At(list, U, i, q)
             /\ At(list, U, i, q) \in Ele
  <2>1. /\ q % CHUNK \in Place /\ q \div CHUNK \in Nat /\ i + (q \div CHUNK) \in i .. j - 1
    BY <1>2, PlacesAre
  <2> DEFINE d == q \div CHUNK
             r == q % CHUNK
  <2>2. d \in Nat /\ r \in Place /\ i + d \in i .. j - 1
    BY <2>1
  <2> HIDE DEF d, r
  <2>3. d + 1 \in 1 .. j - i /\ i + (d + 1) - 1 = i + d
    BY <2>2
  <2>4. Chain(h)[d + 1] = U[i + d]
    BY <1>1, <2>3
  <2>5. U[i + d] \in Chunks
    BY <2>2 DEF Rows, UsedIs, Typed
  <2>6. list[U[i + d]].container[r] \in Ele
    BY <1>1, <2>2, <2>5 DEF Lists, Chunk, Ele
  <2> QED
    BY <2>4, <2>6 DEF At, d, r
<1>3. Contents = [p \in 1 .. size |-> At(list, U, i, list[h].s + p - 1)]
  BY <1>2 DEF Contents
<1>4. \A p \in 1 .. size : At(list, U, i, list[h].s + p - 1) \in Ele
  BY <1>2
<1>5. Contents \in [1 .. size -> Ele]
  BY <1>3, <1>4
<1>6. Contents \in Seq(Ele) /\ Len(Contents) = size
  BY <1>1, <1>5
<1> QED
  BY <1>3, <1>6

\* The elements after a step, in terms of a row that it leaves.
LEMMA ContentsNext ==
  ASSUME IInv', pc' = "open", NEW U \in Row, NEW i \in Nat, NEW j \in Nat, NEW F \in Row,
         NEW n \in Nat, Rows(U, i, j, F, n)'
  PROVE  /\ Contents' \in Seq(Ele) /\ Len(Contents') = size'
         /\ \A p \in 1 .. size' : Contents'[p] = At(list', U, i, list'[h'].s + p - 1)
<1>1. ContentsAlongRow'
  BY ContentsAre, PTL
<1>2. Typed'
  BY DEF IInv
<1> QED
  BY <1>1, <1>2 DEF ContentsAlongRow, At

\* One element more, behind the others.
LEMMA Appended ==
  ASSUME NEW v \in Ele, NEW a \in Seq(Ele), NEW z \in Seq(Ele), Len(z) = Len(a) + 1,
         \A p \in 1 .. Len(a) : z[p] = a[p], z[Len(a) + 1] = v
  PROVE  z = Append(a, v)
<1>1. /\ Append(a, v) \in Seq(Ele) /\ Len(Append(a, v)) = Len(a) + 1
      /\ \A p \in 1 .. Len(a) : Append(a, v)[p] = a[p]
      /\ Append(a, v)[Len(a) + 1] = v
  BY AppendProperties
<1>2. \A p \in 1 .. Len(z) : p \in 1 .. Len(a) \/ p = Len(a) + 1
  OBVIOUS
<1>3. \A p \in 1 .. Len(z) : z[p] = Append(a, v)[p]
  BY <1>1, <1>2
<1> QED
  BY <1>1, <1>3, SeqEqual

\* tl_queue_push when the tail has room.
LEMMA PushRoomAppends ==
  ASSUME IInv, NEW v \in Val, PushRoom(v)
  PROVE  Contents' = Append(Contents, v)
<1>1. PICK U \in Row, i \in Nat, j \in Nat, F \in Row, n \in Nat : Rows(U, i, j, F, n)
  BY DEF IInv
<1>2. IInv' /\ Rows(U, i, j, F, n)' /\ Typed /\ list \in Lists /\ size \in Nat /\ heap \subseteq Chunks
  BY <1>1, PushRoomKeeps DEF IInv, Typed
<1>3. /\ pc = "open" /\ pc' = "open" /\ t # NULL /\ list[t].e # CHUNK /\ Store(list, t, v)
      /\ size' = size + 1 /\ (h # NULL => h' = h)
  BY DEF PushRoom, Full, Store
<1>4. i < j /\ t = U[j - 1] /\ h = U[i] /\ t \in heap /\ h \in heap /\ h # NULL
  <2>1. Typed /\ pc = "open" /\ t # NULL
    BY <1>2, <1>3
  <2> QED
    BY <1>1, <2>1, OpenRows
<1>5. t \in Chunks /\ h \in Chunks /\ list[t].e \in Place /\ list[t].e < CHUNK
  BY <1>2, <1>3, <1>4, QueueAssumption DEF Lists, Chunk, Place
<1>6. /\ list'[t].s = list[t].s /\ list'[t].container[list[t].e] = v
      /\ \A p \in Place : p # list[t].e => list'[t].container[p] = list[t].container[p]
      /\ \A x \in Chunks \ {t} : list'[x] = list[x]
  BY <1>2, <1>3, <1>5, StoreGood
<1>7. h' = h /\ list'[h].s = list[h].s /\ list[h].s \in Int
  <2>1. h # t => list'[h] = list[h]
    BY <1>5, <1>6
  <2> QED
    BY <1>2, <1>3, <1>4, <1>5, <1>6, <2>1 DEF Lists, Chunk
<1>8. /\ Contents \in Seq(Ele) /\ Len(Contents) = size
      /\ \A p \in 1 .. size : Contents[p] = At(list, U, i, list[h].s + p - 1)
  BY <1>1, <1>2, <1>3, ContentsAre DEF ContentsAlongRow
<1>9. /\ Contents' \in Seq(Ele) /\ Len(Contents') = size'
      /\ \A p \in 1 .. size' : Contents'[p] = At(list', U, i, list'[h'].s + p - 1)
  BY <1>2, <1>3, ContentsNext
<1>10. ASSUME NEW p \in 1 .. size
       PROVE  Contents'[p] = Contents[p]
  <2>1. PICK q \in Int : q = list[h].s + p - 1
    BY <1>7
  <2>2. /\ q % CHUNK \in Place /\ q \div CHUNK \in Nat /\ i + (q \div CHUNK) \in i .. j - 1
        /\ (i + (q \div CHUNK) = j - 1 => q % CHUNK < list[t].e)
    BY <1>1, <1>2, <1>3, <2>1, PlacesAre
  <2> DEFINE d == q \div CHUNK
             r == q % CHUNK
  <2> HIDE DEF d, r
  <2>3. r \in Place /\ i + d \in i .. j - 1 /\ (i + d = j - 1 => r < list[t].e)
    BY <2>2 DEF d, r
  <2>4. U[i + d] \in Chunks /\ (U[i + d] = t => i + d = j - 1)
    <3>1. UsedIs(U, i, j) /\ j - 1 \in i .. j - 1
      BY <1>1, <1>4 DEF Rows
    <3> QED
      BY <1>2, <1>4, <2>3, <3>1 DEF UsedIs
  <2>5. list'[U[i + d]].container[r] = list[U[i + d]].container[r]
    <3>1. U[i + d] = t => r # list[t].e
      BY <1>5, <2>3, <2>4 DEF Place
    <3> QED
      BY <1>6, <2>3, <2>4, <3>1
  <2>6. Contents'[p] = At(list', U, i, q) /\ Contents[p] = At(list, U, i, q)
    <3>1. p \in 1 .. size'
      BY <1>2, <1>3
    <3> QED
      BY <1>7, <1>8, <1>9, <2>1, <3>1
  <2> QED
    BY <2>5, <2>6 DEF At, d, r
<1>11. Contents'[size + 1] = v
  <2>1. size = (j - 1 - i) * CHUNK + list[t].e - list[h].s
    <3>1. Windows(U, i, j)
      BY <1>1, <1>3 DEF Rows
    <3> QED
      BY <1>4, <3>1 DEF Windows
  <2>2. (j - 1 - i) * CHUNK \in Int /\ j - 1 - i \in Nat /\ i + (j - 1 - i) = j - 1
    BY <1>4, Times
  <2>3. list[h].s + (size + 1) - 1 = (j - 1 - i) * CHUNK + list[t].e
    BY <1>5, <1>7, <2>1, <2>2 DEF Place
  <2> DEFINE q == (j - 1 - i) * CHUNK + list[t].e
  <2>4. q \div CHUNK = j - 1 - i /\ q % CHUNK = list[t].e
    BY <1>5, <2>2, Quotient
  <2> HIDE DEF q
  <2>5. Contents'[size + 1] = At(list', U, i, q)
    <3>1. size + 1 \in 1 .. size'
      BY <1>2, <1>3
    <3>2. list[h].s + (size + 1) - 1 = q
      BY <2>3 DEF q
    <3> QED
      BY <1>7, <1>9, <3>1, <3>2
  <2> QED
    BY <1>4, <1>6, <2>2, <2>4, <2>5 DEF At
<1> QED
  BY <1>2, <1>3, <1>8, <1>9, <1>10, <1>11, Appended DEF Ele

\* tl_queue_push with a chunk that newList has found.
LEMMA GrowAppends ==
  ASSUME IInv, pc = "open", NEW L \in Lists, NEW c \in Chunks, NEW v \in Val,
         NewList(c), Store(L, c, v), Linked(L, c)
  PROVE  Contents' = Append(Contents, v)
<1>1. PICK U \in Row, i \in Nat, j \in Nat, F \in Row, n \in Nat : Rows(U, i, j, F, n)
  BY DEF IInv
<1> DEFINE U2 == [U EXCEPT ![j] = c]
           n2 == IF n = 0 THEN 0 ELSE n - 1
<1>2. Typed /\ list \in Lists /\ size \in Nat /\ heap \subseteq Chunks
  BY DEF IInv, Typed
<1>3. Rows(U2, i, j + 1, F, n2)' /\ c # h /\ c # t
  BY <1>1, <1>2, GrowRows
<1>4. IInv'
  BY GrowKeeps
<1>5. /\ U2 \in Row /\ j + 1 \in Nat /\ n2 \in Nat /\ U2[j] = c
      /\ \A k \in i .. j - 1 : U2[k] = U[k]
  BY DEF Row
<1> HIDE DEF U2, n2
<1>6. /\ i <= j /\ (h = NULL <=> i = j) /\ (t = NULL <=> i = j)
      /\ (i < j => t = U[j - 1] /\ h = U[i] /\ t \in heap /\ h \in heap)
      /\ (f = NULL <=> n = 0) /\ (n > 0 => f = F[n - 1])
  BY <1>1, <1>2, OpenRows
<1>7. /\ pc' = "open" /\ size' = size + 1 /\ h' = (IF h = NULL THEN c ELSE h)
  BY DEF Store
<1>8. L[c].s = 0 /\ L[c].e = 0 /\ L[c].e < CHUNK /\ 0 \in Place
  BY QueueAssumption DEF Linked, Place
<1>9. /\ list'[c].s = 0 /\ list'[c].container[0] = v
      /\ \A x \in Chunks \ {c} : list'[x] = L[x]
  BY <1>8, StoreGood
<1>10. \A x \in Chunks \ {c} : list'[x].s = list[x].s /\ list'[x].container = list[x].container
  <2> SUFFICES ASSUME NEW x \in Chunks \ {c}
               PROVE  L[x].s = list[x].s /\ L[x].container = list[x].container
    BY <1>9
  <2>1. CASE x = t
    <3>1. t # NULL
      BY <2>1, QueueAssumption
    <3> QED
      BY <2>1, <3>1 DEF Linked
  <2>2. CASE x # t
    BY <2>2 DEF Linked
  <2> QED
    BY <2>1, <2>2
<1>11. /\ Contents \in Seq(Ele) /\ Len(Contents) = size
       /\ \A p \in 1 .. size : Contents[p] = At(list, U, i, list[h].s + p - 1)
  BY <1>1, <1>2, ContentsAre DEF ContentsAlongRow
<1>12. /\ Contents' \in Seq(Ele) /\ Len(Contents') = size'
       /\ \A p \in 1 .. size' : Contents'[p] = At(list', U2, i, list'[h'].s + p - 1)
  BY <1>3, <1>4, <1>5, <1>7, ContentsNext
<1>13. UsedIs(U, i, j) /\ Apart(U, i, j, F, n) /\ Windows(U, i, j)
  BY <1>1 DEF Rows
<1>14. i < j => /\ h' = h /\ h \in Chunks /\ list'[h].s = list[h].s /\ list[h].s \in Int
  <2> SUFFICES ASSUME i < j
               PROVE  h' = h /\ h \in Chunks /\ list'[h].s = list[h].s /\ list[h].s \in Int
    OBVIOUS
  <2>1. h' = h /\ h \in Chunks /\ h # c
    BY <1>2, <1>3, <1>6, <1>7
  <2>2. list[h].s \in Int
    BY <1>2, <2>1 DEF Lists, Chunk
  <2> QED
    BY <1>10, <2>1, <2>2
<1>15. ASSUME NEW p \in 1 .. size
       PROVE  Contents'[p] = Contents[p]
  <2>1. i < j
    BY <1>2, <1>6, <1>13 DEF Windows
  <2>2. PICK q \in Int : q = list[h].s + p - 1
    BY <1>14, <2>1
  <2>3. q \div CHUNK \in Nat /\ i + (q \div CHUNK) \in i .. j - 1
    BY <1>1, <1>2, <2>2, PlacesAre
  <2> DEFINE d == q \div CHUNK
             r == q % CHUNK
  <2> HIDE DEF d, r
  <2>4. i + d \in i .. j - 1
    BY <2>3 DEF d
  <2>5. U2[i + d] = U[i + d] /\ U[i + d] \in Chunks /\ U[i + d] # c
    <3>1. U[i + d] \in heap
      BY <1>13, <2>4 DEF UsedIs
    <3>2. f # NULL => n > 0 /\ c = F[n - 1]
      BY <1>6 DEF NewList, HasSpare
    <3>3. n > 0 => n - 1 \in 0 .. n - 1
      OBVIOUS
    <3>4. f = NULL => c \notin heap
      BY DEF NewList, HasSpare
    <3> QED
      BY <1>2, <1>5, <1>13, <2>4, <3>1, <3>2, <3>3, <3>4 DEF Apart
  <2>6. list'[U2[i + d]].container[r] = list[U[i + d]].container[r]
    BY <1>10, <2>5
  <2>7. Contents'[p] = At(list', U2, i, q) /\ Contents[p] = At(list, U, i, q)
    <3>1. p \in 1 .. size' /\ list'[h'].s = list[h].s
      BY <1>2, <1>7, <1>14, <2>1
    <3> QED
      BY <1>11, <1>12, <2>2, <3>1
  <2> QED
    BY <2>6, <2>7 DEF At, d, r
<1>16. Contents'[size + 1] = v
  <2> DEFINE q == (j - i) * CHUNK + 0
  <2>1. j - i \in Nat /\ (j - i) * CHUNK \in Int /\ i + (j - i) = j
    BY <1>6, Times
  <2>2. q \div CHUNK = j - i /\ q % CHUNK = 0
    BY <1>8, <2>1, Quotient
  <2>3. list'[h'].s + (size + 1) - 1 = q
    <3>1. CASE i = j
      <4>1. size = 0 /\ list'[h'].s = 0 /\ 0 * CHUNK = 0 /\ j - i = 0
        BY <1>6, <1>7, <1>9, <1>13, <3>1, QueueAssumption DEF Windows
      <4>2. (j - i) * CHUNK = 0
        BY <4>1
      <4> QED
        BY <4>1, <4>2
    <3>2. CASE i < j
      <4>1. size = (j - 1 - i) * CHUNK + list[t].e - list[h].s /\ list[t].e = CHUNK
        <5>1. t # NULL /\ i # j /\ U[j - 1] = t /\ U[i] = h
          BY <1>6, <3>2
        <5> QED
          BY <1>13, <5>1 DEF Windows, Linked
      <4>2. (j - i) * CHUNK = (j - 1 - i) * CHUNK + CHUNK /\ (j - 1 - i) * CHUNK \in Int
        <5>1. j - 1 - i \in Int /\ (j - 1 - i) + 1 = j - i
          OBVIOUS
        <5> QED
          BY <5>1, Times
      <4>3. list'[h'].s = list[h].s /\ list[h].s \in Int
        BY <1>14, <3>2
      <4> QED
        BY <2>1, <4>1, <4>2, <4>3, QueueAssumption
    <3> QED
      BY <1>6, <3>1, <3>2
  <2> HIDE DEF q
  <2>4. Contents'[size + 1] = At(list', U2, i, q)
    <3>1. size + 1 \in 1 .. size'
      BY <1>2, <1>7
    <3> QED
      BY <1>12, <2>3, <3>1
  <2> QED
    BY <1>5, <1>9, <2>1, <2>2, <2>4 DEF At
<1> QED
  BY <1>2, <1>7, <1>11, <1>12, <1>15, <1>16, Appended DEF Ele

\* One element less, at the front.
LEMMA Shortened ==
  ASSUME NEW a \in Seq(Ele), NEW z \in Seq(Ele), Len(a) > 0, Len(z) = Len(a) - 1,
         \A p \in 1 .. Len(z) : z[p] = a[p + 1]
  PROVE  a # <<>> /\ z = Tail(a)
<1>1. a # <<>>
  OBVIOUS
<1>2. /\ Tail(a) \in Seq(Ele) /\ Len(Tail(a)) = Len(a) - 1
      /\ \A p \in 1 .. Len(Tail(a)) : Tail(a)[p] = a[p + 1]
  BY <1>1, HeadTailProperties
<1>3. \A p \in 1 .. Len(z) : z[p] = Tail(a)[p]
  BY <1>2
<1> QED
  BY <1>1, <1>2, <1>3, SeqEqual

\* tl_queue_pop when the head keeps elements.
LEMMA PopKeepsShortens ==
  ASSUME IInv, PopKeeps
  PROVE  Contents # <<>> /\ Contents' = Tail(Contents)
<1>1. PICK U \in Row, i \in Nat, j \in Nat, F \in Row, n \in Nat : Rows(U, i, j, F, n)
  BY DEF IInv
<1>2. IInv' /\ Rows(U, i, j, F, n)'
  BY <1>1, PopKeepsKeeps
<1>3. Typed /\ list \in Lists /\ size \in Nat /\ heap \subseteq Chunks
  BY DEF IInv, Typed
<1>4. /\ pc = "open" /\ pc' = "open" /\ size # 0 /\ list' = Popped /\ size' = size - 1 /\ h' = h
  BY DEF PopKeeps
<1>5. /\ h \in Chunks /\ list[h].s < list[h].e /\ list[h].s \in 0 .. CHUNK
  BY <1>1, <1>3, <1>4, HeadGood
<1>6. /\ list'[h].s = list[h].s + 1 /\ \A x \in Chunks : list'[x].container = list[x].container
  <2>1. Popped = [list EXCEPT ![h] = [list[h] EXCEPT !.s = list[h].s + 1]]
    BY <1>3 DEF Popped, Lists
  <2> QED
    BY <1>3, <1>4, <1>5, <2>1 DEF Lists, Chunk
<1>7. /\ Contents \in Seq(Ele) /\ Len(Contents) = size
      /\ \A p \in 1 .. size : Contents[p] = At(list, U, i, list[h].s + p - 1)
  BY <1>1, <1>3, <1>4, ContentsAre DEF ContentsAlongRow
<1>8. /\ Contents' \in Seq(Ele) /\ Len(Contents') = size'
      /\ \A p \in 1 .. size' : Contents'[p] = At(list', U, i, list'[h'].s + p - 1)
  BY <1>2, <1>4, ContentsNext
<1>9. ASSUME NEW p \in 1 .. size'
      PROVE  Contents'[p] = Contents[p + 1]
  <2>1. /\ p + 1 \in 1 .. size /\ list'[h'].s + p - 1 = list[h].s + (p + 1) - 1
    BY <1>3, <1>4, <1>5, <1>6
  <2>2. PICK q \in Int : q = list[h].s + (p + 1) - 1
    BY <1>5
  <2>3. q \div CHUNK \in Nat /\ i + (q \div CHUNK) \in i .. j - 1
    BY <1>1, <1>3, <1>4, <2>1, <2>2, PlacesAre
  <2>4. U[i + (q \div CHUNK)] \in Chunks
    BY <1>1, <1>3, <2>3 DEF Rows, UsedIs
  <2>5. At(list', U, i, q) = At(list, U, i, q)
    BY <1>6, <2>4 DEF At
  <2> QED
    BY <1>7, <1>8, <2>1, <2>2, <2>5
<1> QED
  BY <1>3, <1>4, <1>7, <1>8, <1>9, Shortened

\* tl_queue_pop when the head is drained: its last element is in its last place if
\* another chunk follows, and that one begins in place 0.
LEMMA PopRetiresShortens ==
  ASSUME IInv, PopRetires
  PROVE  Contents # <<>> /\ Contents' = Tail(Contents)
<1>1. PICK U \in Row, i \in Nat, j \in Nat, F \in Row, n \in Nat : Rows(U, i, j, F, n)
  BY DEF IInv
<1>2. IInv' /\ \E G \in Row : Rows(U, i + 1, j, G, n + 1)'
  BY <1>1, PopRetiresKeeps
<1>3. PICK G \in Row : Rows(U, i + 1, j, G, n + 1)'
  BY <1>2
<1>4. Typed /\ list \in Lists /\ size \in Nat /\ heap \subseteq Chunks
  BY DEF IInv, Typed
<1>5. /\ pc = "open" /\ pc' = "open" /\ size # 0 /\ Drained /\ list' = Retire(Popped)
      /\ size' = size - 1 /\ h' = list[h].next
  BY DEF PopRetires
<1>6. /\ i < j /\ h = U[i] /\ h \in Chunks /\ list[h].s < list[h].e
      /\ (i + 1 < j => list[h].e = CHUNK) /\ list[h].next = (IF i + 1 = j THEN NULL ELSE U[i + 1])
      /\ list[h].s \in 0 .. CHUNK
  BY <1>1, <1>4, <1>5, HeadGood
<1>7. UsedIs(U, i, j) /\ Windows(U, i, j) /\ UsedIs(U, i + 1, j)' /\ Windows(U, i + 1, j)'
  BY <1>1, <1>3, <1>5 DEF Rows
<1>8. /\ list[h].s + 1 = list[h].e
      /\ \A x \in Chunks : list'[x].container = list[x].container
      /\ \A x \in Chunks \ {h} : list'[x] = list[x]
  <2>1. Popped = [list EXCEPT ![h] = [list[h] EXCEPT !.s = list[h].s + 1]]
    BY <1>4 DEF Popped, Lists
  <2>2. Popped[h].container = list[h].container /\ Popped \in Lists /\ Popped[h].s = list[h].s + 1
        /\ Popped[h].e = list[h].e /\ \A x \in Chunks \ {h} : Popped[x] = list[x]
    BY <1>4, <1>6, <2>1, PoppedGood DEF Lists, Chunk
  <2>3. list' = [Popped EXCEPT ![h] = [Popped[h] EXCEPT !.next = f]]
    BY <1>5 DEF Retire
  <2>4. [Popped[h] EXCEPT !.next = f].container = Popped[h].container
    BY <1>6, <2>2 DEF Lists, Chunk
  <2> QED
    BY <1>5, <1>6, <2>2, <2>3, <2>4 DEF Lists, Drained
<1>9. /\ Contents \in Seq(Ele) /\ Len(Contents) = size
      /\ \A p \in 1 .. size : Contents[p] = At(list, U, i, list[h].s + p - 1)
  BY <1>1, <1>4, <1>5, ContentsAre DEF ContentsAlongRow
<1>10. /\ Contents' \in Seq(Ele) /\ Len(Contents') = size'
       /\ \A p \in 1 .. size' : Contents'[p] = At(list', U, i + 1, list'[h'].s + p - 1)
  <2>1. i + 1 \in Nat /\ n + 1 \in Nat
    OBVIOUS
  <2> QED
    BY <1>2, <1>3, <1>5, <2>1, ContentsNext
<1>11. ASSUME NEW p \in 1 .. size'
       PROVE  Contents'[p] = Contents[p + 1]
  <2>1. i + 1 < j
    <3>1. size' # 0
      BY <1>4, <1>5
    <3>2. i + 1 = j => size' = 0
      BY <1>7 DEF Windows
    <3> QED
      BY <1>6, <3>1, <3>2
  <2>2. h' = U[i + 1] /\ list'[h'].s = 0
    <3>1. i + 1 \in i .. j - 1 /\ i \in i .. j - 1 /\ i + 1 > i /\ i + 1 # i
      BY <2>1
    <3>2. U[i + 1] \in Chunks \ {h} /\ list[U[i + 1]].s = 0
      BY <1>4, <1>6, <1>7, <3>1 DEF UsedIs, Windows
    <3> QED
      BY <1>5, <1>6, <1>8, <2>1, <3>2
  <2>3. p - 1 \in Nat /\ p + 1 \in 1 .. size /\ list[h].s = CHUNK - 1
        /\ list[h].s + (p + 1) - 1 = (p - 1) + CHUNK /\ list'[h'].s + p - 1 = p - 1
    BY <1>4, <1>5, <1>6, <1>8, <2>1, <2>2, QueueAssumption
  <2>4. PICK q \in Nat : q = p - 1
    BY <2>3
  <2>5. PICK d \in Nat, r \in Place : d = q \div CHUNK /\ r = q % CHUNK /\ q = d * CHUNK + r
    BY Division
  <2>6. PICK x \in Nat : x = (d + 1) * CHUNK + r /\ x \div CHUNK = d + 1 /\ x % CHUNK = r
    BY Quotient
  <2>7. x = q + CHUNK
    <3>1. (d + 1) * CHUNK = d * CHUNK + CHUNK /\ d * CHUNK \in Int
      BY Times
    <3> QED
      BY <2>5, <2>6, <3>1, QueueAssumption DEF Place
  <2>8. list[h].s + (p + 1) - 1 = x
    BY <2>3, <2>4, <2>7
  <2>9. i + (x \div CHUNK) \in i .. j - 1
    BY <1>1, <1>4, <1>5, <2>3, <2>8, PlacesAre
  <2>10. i + (d + 1) \in i .. j - 1 /\ i + (d + 1) = (i + 1) + d
    BY <2>6, <2>9
  <2>11. U[i + (d + 1)] \in Chunks
    BY <1>4, <1>7, <2>10 DEF UsedIs
  <2>12. Contents'[p] = list'[U[(i + 1) + d]].container[r]
    BY <1>10, <2>3, <2>4, <2>5 DEF At
  <2>13. Contents[p + 1] = list[U[i + (d + 1)]].container[r]
    BY <1>9, <2>3, <2>6, <2>8 DEF At
  <2> QED
    BY <1>8, <2>10, <2>11, <2>12, <2>13
<1> QED
  BY <1>4, <1>5, <1>9, <1>10, <1>11, Shortened

-----------------------------------------------------------------------------
(* The refinement. *)

\* The elements are read from the head, the count and the chunks alone.
LEMMA SameContents ==
  ASSUME UNCHANGED <<h, size, list>>
  PROVE  Contents' = Contents
BY DEF Contents, Chain, Along

\* A new queue has no element.
LEMMA EmptyContents ==
  ASSUME size = 0
  PROVE  Contents = <<>>
<1>1. 1 .. size = {}
  OBVIOUS
<1> QED
  BY <1>1 DEF Contents

\* Any tl_queue_push: the element behind the others, or no memory and nothing done.
LEMMA PushAppends ==
  ASSUME IInv, Push
  PROVE  Contents' = Contents \/ \E v \in Val : Contents' = Append(Contents, v)
<1>1. CASE \E v \in Val : PushRoom(v)
  BY <1>1, PushRoomAppends
<1>2. CASE \E v \in Val, c \in Chunks : PushFirst(v, c) \/ PushNext(v, c)
  <2>1. PICK v \in Val, c \in Chunks : PushFirst(v, c) \/ PushNext(v, c)
    BY <1>2
  <2>2. pc = "open" /\ \E L \in Lists : NewList(c) /\ Store(L, c, v) /\ Linked(L, c)
    BY <2>1, PushFirstGrows, PushNextGrows
  <2>3. PICK L \in Lists : NewList(c) /\ Store(L, c, v) /\ Linked(L, c)
    BY <2>2
  <2> QED
    BY <2>2, <2>3, GrowAppends
<1>3. CASE PushFails
  <2>1. list' = list /\ UNCHANGED <<h, size>>
    <3>1. /\ pc = "open" /\ UNCHANGED <<h, size>>
          /\ list' = IF t = NULL THEN list ELSE [list EXCEPT ![t].next = NULL]
      BY <1>3 DEF PushFails
    <3>2. PICK U \in Row, i \in Nat, j \in Nat, F \in Row, n \in Nat : Rows(U, i, j, F, n)
      BY DEF IInv
    <3>3. Typed /\ list \in Lists /\ heap \subseteq Chunks
      BY DEF IInv, Typed
    <3>4. t # NULL => t \in Chunks /\ list[t].next = NULL
      BY <3>1, <3>2, <3>3, OpenRows
    <3>5. t # NULL => [list[t] EXCEPT !.next = NULL] = list[t]
      BY <3>3, <3>4 DEF Lists, Chunk
    <3> QED
      BY <3>1, <3>3, <3>4, <3>5 DEF Lists
  <2> QED
    BY <2>1, SameContents
<1> QED
  BY <1>1, <1>2, <1>3 DEF Push

\* Any tl_queue_pop takes the first element.
LEMMA PopShortens ==
  ASSUME IInv, Pop
  PROVE  Contents # <<>> /\ Contents' = Tail(Contents)
BY PopKeepsShortens, PopRetiresShortens DEF Pop

\* What the abstract queue sees.
Items == IF pc = "open" THEN Contents ELSE <<>>

\* Every step is one of the abstract queue, or none.
LEMMA StepRefines ==
  ASSUME IInv, [Next]_vars
  PROVE  [Q!Next]_<<pc = "open", Items>>
<1> USE DEF Items
<1>1. CASE Push
  <2>1. pc = "open" /\ pc' = "open"
    BY <1>1 DEF Push, PushRoom, PushFirst, PushNext, PushFails, Store
  <2>2. Contents' = Contents \/ \E v \in Val : Contents' = Append(Contents, v)
    BY <1>1, PushAppends
  <2> QED
    BY <2>1, <2>2 DEF Q!Next, Q!Push
<1>2. CASE Pop
  <2>1. pc = "open" /\ pc' = "open"
    BY <1>2 DEF Pop, PopKeeps, PopRetires
  <2>2. Contents # <<>> /\ Contents' = Tail(Contents)
    BY <1>2, PopShortens
  <2> QED
    BY <2>1, <2>2 DEF Q!Next, Q!Pop
<1>3. CASE Top \/ UNCHANGED vars
  <2>1. UNCHANGED <<h, size, list, pc>>
    BY <1>3 DEF Top, vars
  <2>2. Contents' = Contents
    BY <2>1, SameContents
  <2> QED
    BY <2>1, <2>2
<1>4. CASE QueueInit
  <2>1. pc = "none" /\ pc' = "open" /\ size = 0 /\ UNCHANGED <<h, size, list>>
    BY <1>4 DEF QueueInit, IInv
  <2>2. Contents' = <<>>
    BY <2>1, SameContents, EmptyContents
  <2> QED
    BY <2>1, <2>2 DEF Q!Next, Q!Open
<1>5. CASE DestroyCall
  <2>1. pc = "open" /\ pc' = "free_f"
    BY <1>5 DEF DestroyCall
  <2> QED
    BY <2>1 DEF Q!Next, Q!Close
<1>6. CASE Destroying
  <2>1. pc # "open" /\ pc' # "open"
    BY <1>6 DEF Destroying, FreeOne, FreeChunksNext, DestroyDone
  <2> QED
    BY <2>1
<1> QED
  BY <1>1, <1>2, <1>3, <1>4, <1>5, <1>6 DEF Next

(* tl_queue implements the FIFO: every push puts its element, or nothing, behind the
   elements of the queue and every pop takes the first, whatever chunks they are in. *)
THEOREM Implements == Spec => ImplementsFifo
<1>1. Init => Q!Init
  BY DEF Init, Q!Init
<1>2. IInv /\ [Next]_vars => [Q!Next]_(Q!fifoVars)
  BY StepRefines DEF Q!fifoVars, Items
<1> QED
  BY <1>1, <1>2, Invariant, PTL DEF Spec, ImplementsFifo, Q!Spec
=============================================================================
