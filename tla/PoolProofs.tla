----------------------------- MODULE PoolProofs -----------------------------
(***************************************************************************)
(* The pool is right in every memory: Pool, for any layout of the blocks,  *)
(* any sizes of page and buckets that SizesAssumption allows, any requests. *)
(* The parts: the sizes of the buckets; rings; where tags and blocks lie   *)
(* (Shape); a heap with the tags H in hand (Heaped), and what the          *)
(* functions of tl_pool.c do to one; the heap with the caller's regions    *)
(* and the counters (Good); the merges; the invariant PoolInv, a lemma for *)
(* each action; and what a reader finds who walks the blocks and buckets.  *)
(***************************************************************************)
EXTENDS Pool, FiniteSetTheorems, WellFoundedInduction, NaturalsInduction, TLAPS

\* A set of natural numbers has a least one.
LEMMA LeastNat ==
  ASSUME NEW T, T \subseteq Nat, T # {}
  PROVE  \E x \in T : \A y \in T : x <= y
<1> DEFINE R == OpToRel(<, Nat)
<1>1. IsWellFoundedOn(R, Nat)
  BY NatLessThanWellFounded, Zenon
<1>2. \A x, y \in Nat : <<y, x>> \in R <=> y < x
  BY DEF OpToRel
<1> HIDE DEF R
<1>3. PICK x \in T : \A y \in T : ~ (<<y, x>> \in R)
  BY <1>1, WFMin, Zenon
<1>4. \A y \in T : ~(y < x)
  BY <1>2, <1>3, Zenon
<1> HIDE <1>1, <1>2, <1>3
<1> QED
  BY <1>4

(* A set of natural numbers with none but itself below a bound has a greatest one. *)
LEMMA GreatestNat ==
  ASSUME NEW T, T \subseteq Nat, T # {}, NEW n \in Nat, \A x \in T : x <= n
  PROVE  \E x \in T : \A y \in T : y <= x
<1> DEFINE L == {n - x : x \in T}
<1>1. L \subseteq Nat /\ L # {}
  <2>1. \A x \in T : n - x \in Nat
    OBVIOUS
  <2>2. PICK x \in T : TRUE
    OBVIOUS
  <2> QED
    BY <2>1, <2>2
<1>2. PICK z \in L : \A y \in L : z <= y
  BY <1>1, LeastNat
<1>3. PICK x \in T : z = n - x
  OBVIOUS
<1>4. \A y \in T : n - y \in L
  OBVIOUS
<1> HIDE DEF L
<1> QED
  BY <1>2, <1>3, <1>4

-----------------------------------------------------------------------------
(* The sizes of the buckets. *)

\* f is Pow2 up to n.
IsPow(f, n) == f \in [0 .. n -> Nat] /\ f[0] = 1 /\ \A r \in 1 .. n : f[r] = 2 * f[r - 1]

LEMMA PowOnce ==
  ASSUME NEW n \in Nat, NEW p \in Nat, NEW f, NEW g, IsPow(f, n), IsPow(g, p),
         NEW r \in 0 .. n, r <= p
  PROVE  f[r] = g[r]
<1> DEFINE T == {s \in 0 .. n : s <= p /\ f[s] # g[s]}
<1>1. SUFFICES ASSUME T # {} PROVE FALSE
  OBVIOUS
<1>2. T \subseteq Nat
  OBVIOUS
<1>3. PICK s \in T : \A y \in T : s <= y
  BY <1>1, <1>2, LeastNat
<1>4. s # 0
  BY <1>3 DEF IsPow
<1>5. s - 1 \in 0 .. n /\ s - 1 <= p /\ s \in 1 .. n /\ s \in 1 .. p /\ ~(s <= s - 1)
  BY <1>3, <1>4
<1>6. f[s - 1] = g[s - 1]
  BY <1>3, <1>5
<1> QED
  BY <1>3, <1>5, <1>6 DEF IsPow

LEMMA PowExists ==
  ASSUME NEW n \in Nat
  PROVE  \E f : IsPow(f, n)
<1> DEFINE T == {p \in Nat : ~\E f : IsPow(f, p)}
<1>1. SUFFICES ASSUME T # {} PROVE FALSE
  OBVIOUS
<1>2. T \subseteq Nat
  OBVIOUS
<1>3. PICK p \in T : \A y \in T : p <= y
  BY <1>1, <1>2, LeastNat
<1>4. p # 0
  <2>1. IsPow([r \in 0 .. 0 |-> 1], 0)
    BY DEF IsPow
  <2> QED
    BY <1>3, <2>1
<1>5. p - 1 \in Nat /\ ~(p <= p - 1) /\ p \in Nat
  BY <1>3, <1>4
<1>6. PICK f : IsPow(f, p - 1)
  BY <1>3, <1>5
<1>7. IsPow([r \in 0 .. p |-> IF r = p THEN 2 * f[p - 1] ELSE f[r]], p)
  <2> DEFINE g == [r \in 0 .. p |-> IF r = p THEN 2 * f[p - 1] ELSE f[r]]
  <2>1. f[p - 1] \in Nat
    BY <1>5, <1>6 DEF IsPow
  <2>2. g \in [0 .. p -> Nat]
    BY <1>5, <1>6, <2>1 DEF IsPow
  <2>3. g[0] = 1
    BY <1>4, <1>5, <1>6 DEF IsPow
  <2>4. ASSUME NEW r \in 1 .. p PROVE g[r] = 2 * g[r - 1]
    <3>1. r - 1 \in 0 .. p - 1 /\ r - 1 # p /\ r - 1 \in 0 .. p /\ r \in 0 .. p
      BY <1>5
    <3>2. g[r - 1] = f[r - 1]
      BY <3>1
    <3>3. CASE r = p
      BY <3>1, <3>2, <3>3
    <3>4. CASE r # p
      BY <1>5, <1>6, <3>1, <3>2, <3>4 DEF IsPow
    <3> QED
      BY <3>3, <3>4
  <2> QED
    BY <2>2, <2>3, <2>4 DEF IsPow
<1> QED
  BY <1>3, <1>7

LEMMA Powers ==
  /\ Pow2 \in [Nat -> Nat] /\ Pow2[0] = 1
  /\ \A r \in Nat : Pow2[r + 1] = 2 * Pow2[r]
<1> DEFINE P(n) == CHOOSE f : IsPow(f, n)
           g == [r \in Nat |-> P(r)[r]]
<1>1. \A n \in Nat : IsPow(P(n), n)
  BY PowExists
<1> HIDE DEF P
<1>2. g \in [Nat -> Nat] /\ g[0] = 1
  <2>1. \A r \in Nat : P(r)[r] \in Nat
    BY <1>1 DEF IsPow
  <2> QED
    BY <1>1, <2>1 DEF IsPow
<1>3. ASSUME NEW r \in Nat, r # 0 PROVE g[r] = 2 * g[r - 1]
  <2>1. r - 1 \in Nat /\ r \in 1 .. r /\ r - 1 \in 0 .. r /\ r - 1 <= r - 1
    BY <1>3
  <2>2. P(r)[r] = 2 * P(r)[r - 1]
    BY <1>1, <2>1 DEF IsPow
  <2>3. P(r)[r - 1] = P(r - 1)[r - 1]
    BY <1>1, <2>1, PowOnce
  <2> QED
    BY <2>1, <2>2, <2>3
<1> HIDE DEF g
<1>4. g = [r \in Nat |-> IF r = 0 THEN 1 ELSE 2 * g[r - 1]]
  BY <1>2, <1>3
<1>5. Pow2 = [r \in Nat |-> IF r = 0 THEN 1 ELSE 2 * Pow2[r - 1]]
  BY <1>4 DEF Pow2
<1>6. \A r \in Nat : r # 0 => Pow2[r] = 2 * Pow2[r - 1]
  BY <1>5
<1>7. Pow2[0] = 1
  BY <1>5
<1>8. DOMAIN Pow2 = Nat
  BY <1>5
<1>9. \A n \in Nat : Pow2[n] = g[n]
  <2> DEFINE T == {n \in Nat : Pow2[n] # g[n]}
  <2>1. SUFFICES ASSUME T # {} PROVE FALSE
    OBVIOUS
  <2>2. PICK s \in T : \A y \in T : s <= y
    BY <2>1, LeastNat
  <2>3. s # 0
    BY <1>2, <1>7, <2>2
  <2>4. s - 1 \in Nat /\ ~(s <= s - 1)
    BY <2>2, <2>3
  <2>5. Pow2[s - 1] = g[s - 1]
    BY <2>2, <2>4
  <2> QED
    BY <1>3, <1>6, <2>2, <2>3, <2>5
<1>10. Pow2 \in [Nat -> Nat]
  BY <1>2, <1>5, <1>9
<1>11. ASSUME NEW r \in Nat PROVE Pow2[r + 1] = 2 * Pow2[r]
  <2>1. r + 1 \in Nat /\ r + 1 # 0 /\ (r + 1) - 1 = r
    OBVIOUS
  <2> QED
    BY <1>6, <2>1
<1> QED
  BY <1>7, <1>10, <1>11

LEMMA PowersGrow ==
  ASSUME NEW i \in Nat, NEW j \in Nat, i <= j
  PROVE  Pow2[i] <= Pow2[j] /\ Pow2[j] \in Nat /\ Pow2[i] \in Nat /\ j < Pow2[j]
<1>1. Pow2 \in [Nat -> Nat] /\ Pow2[0] = 1 /\ \A r \in Nat : Pow2[r + 1] = 2 * Pow2[r]
  BY Powers
<1> DEFINE T == {n \in Nat : ~(n < Pow2[n] /\ (i <= n => Pow2[i] <= Pow2[n]))}
<1>2. SUFFICES ASSUME T # {} PROVE FALSE
  BY <1>1
<1>3. PICK s \in T : \A y \in T : s <= y
  BY <1>2, LeastNat
<1>4. s # 0
  BY <1>1, <1>3
<1>5. s - 1 \in Nat /\ ~(s <= s - 1) /\ (s - 1) + 1 = s
  BY <1>3, <1>4
<1>6. s - 1 < Pow2[s - 1] /\ (i <= s - 1 => Pow2[i] <= Pow2[s - 1])
  BY <1>3, <1>5
<1>7. Pow2[s] = 2 * Pow2[s - 1] /\ Pow2[s - 1] \in Nat /\ Pow2[s] \in Nat /\ Pow2[i] \in Nat
  BY <1>1, <1>3, <1>5
<1>8. i = s \/ i <= s - 1 \/ ~(i <= s)
  BY <1>5
<1> HIDE DEF T
<1>9. s < Pow2[s] /\ (i <= s => Pow2[i] <= Pow2[s])
  BY <1>5, <1>6, <1>7, <1>8
<1> QED
  BY <1>3, <1>9 DEF T

\* The highest bit.
LEMMA BsrIs ==
  ASSUME NEW n \in Nat \ {0}
  PROVE  /\ Bsr(n) \in Nat /\ Pow2[Bsr(n)] <= n /\ n < Pow2[Bsr(n) + 1]
<1> DEFINE T == {r \in Nat : n < Pow2[r]}
<1>1. n \in T /\ n \in Nat
  BY PowersGrow
<1>2. PICK s \in T : \A y \in T : s <= y
  BY <1>1, LeastNat
<1>3. s # 0
  BY <1>2, Powers
<1>4. s - 1 \in Nat /\ ~(s <= s - 1) /\ (s - 1) + 1 = s /\ s <= n /\ s - 1 \in 0 .. n
  BY <1>1, <1>2, <1>3
<1>5. Pow2[s - 1] <= n
  <2>1. s - 1 \notin T
    BY <1>2, <1>4
  <2>2. Pow2[s - 1] \in Nat
    BY <1>4, Powers
  <2> QED
    BY <1>4, <2>1, <2>2
<1>6. \E r \in 0 .. n : Pow2[r] <= n /\ n < Pow2[r + 1]
  BY <1>2, <1>4, <1>5
<1> HIDE DEF T
<1>7. Bsr(n) \in 0 .. n /\ Pow2[Bsr(n)] <= n /\ n < Pow2[Bsr(n) + 1]
  BY <1>6 DEF Bsr
<1> QED
  BY <1>7

LEMMA IdxIs ==
  ASSUME NEW n \in Nat \ {0}
  PROVE  /\ Size2Idx(n) \in 0 .. MaxIdx
         /\ Size2Idx(n) < MaxIdx => n <= Pow2[Size2Idx(n)]
         /\ Size2Idx(n) > 0 => Pow2[Size2Idx(n) - 1] < n
<1> DEFINE b == Bsr(n)
           r == IF n > Pow2[b] THEN b + 1 ELSE b
<1>1. b \in Nat /\ Pow2[b] \in Nat /\ Pow2[b] <= n /\ n < Pow2[b + 1] /\ MaxIdx \in Nat \ {0}
  BY BsrIs, Powers, SizesAssumption
<1> HIDE DEF b
<1>2. r \in Nat /\ n <= Pow2[r]
  <2>1. CASE n > Pow2[b]
    <3>1. r = b + 1
      BY <2>1
    <3>2. b + 1 \in Nat /\ n <= Pow2[b + 1]
      <4>1. Pow2[b + 1] \in Nat
        BY <1>1, Powers
      <4> QED
        BY <1>1, <4>1
    <3> HIDE DEF r
    <3> QED
      BY <3>1, <3>2
  <2>2. CASE ~(n > Pow2[b])
    <3>1. r = b /\ n = Pow2[b]
      BY <1>1, <2>2
    <3> HIDE DEF r
    <3> QED
      BY <1>1, <3>1
  <2> QED
    BY <2>1, <2>2
<1>3. r > 0 => Pow2[r - 1] < n
  <2>1. CASE n > Pow2[b]
    BY <1>1, <2>1
  <2>2. CASE ~(n > Pow2[b])
    <3>1. SUFFICES ASSUME b > 0 PROVE Pow2[b - 1] < n
      BY <2>2
    <3>2. b - 1 \in Nat /\ (b - 1) + 1 = b
      BY <1>1, <3>1
    <3>3. Pow2[b] = 2 * Pow2[b - 1] /\ Pow2[b - 1] \in Nat
      BY <3>2, Powers
    <3>4. Pow2[b] = n
      BY <1>1, <2>2
    <3> QED
      BY <3>3, <3>4
  <2> QED
    BY <2>1, <2>2
<1>4. Size2Idx(n) = IF r >= MaxIdx THEN MaxIdx ELSE r
  BY DEF Size2Idx, b
<1> HIDE DEF r
<1>5. CASE r >= MaxIdx
  <2>1. MaxIdx - 1 \in Nat /\ r - 1 \in Nat /\ MaxIdx - 1 <= r - 1 /\ r > 0
    BY <1>1, <1>2, <1>5
  <2>2. Pow2[MaxIdx - 1] <= Pow2[r - 1] /\ Pow2[MaxIdx - 1] \in Nat /\ Pow2[r - 1] \in Nat
    BY <2>1, PowersGrow
  <2>3. Pow2[MaxIdx - 1] < n
    BY <1>3, <2>1, <2>2
  <2> QED
    BY <1>1, <1>4, <1>5, <2>3
<1>6. CASE ~(r >= MaxIdx)
  BY <1>1, <1>2, <1>3, <1>4, <1>6
<1> QED
  BY <1>5, <1>6

\* Up to bucket i are the sizes up to 2^i.
LEMMA IdxBound ==
  ASSUME NEW n \in Nat \ {0}, NEW i \in 0 .. MaxIdx - 1
  PROVE  (Size2Idx(n) <= i <=> n <= Pow2[i]) /\ Pow2[i] \in Nat
<1> DEFINE c == Size2Idx(n)
<1>1. c \in 0 .. MaxIdx /\ (c < MaxIdx => n <= Pow2[c]) /\ (c > 0 => Pow2[c - 1] < n)
  BY IdxIs
<1>2. i \in Nat /\ i < MaxIdx /\ MaxIdx \in Nat /\ Pow2[i] \in Nat
  BY SizesAssumption, Powers
<1> HIDE DEF c
<1>3. CASE c <= i
  <2>1. c \in Nat /\ c < MaxIdx
    BY <1>1, <1>2, <1>3
  <2>2. Pow2[c] <= Pow2[i] /\ Pow2[c] \in Nat
    BY <1>2, <1>3, <2>1, PowersGrow
  <2> QED
    BY <1>1, <1>2, <1>3, <2>1, <2>2 DEF c
<1>4. CASE ~(c <= i)
  <2>1. c - 1 \in Nat /\ i <= c - 1 /\ c > 0
    BY <1>1, <1>2, <1>4
  <2>2. Pow2[i] <= Pow2[c - 1] /\ Pow2[c - 1] \in Nat
    BY <1>2, <2>1, PowersGrow
  <2> QED
    BY <1>1, <1>2, <1>4, <2>1, <2>2 DEF c
<1> QED
  BY <1>3, <1>4

\* A size has a bucket unless it is larger than the last bucket's.
Small(n) == n <= Pow2[MaxIdx - 1]

LEMMA SmallIs ==
  /\ Pow2[MaxIdx - 1] \in Nat /\ MaxIdx \in Nat \ {0}
  /\ \A n \in Nat \ {0} : Size2Idx(n) \in 0 .. MaxIdx /\ (Size2Idx(n) < MaxIdx <=> Small(n))
                          /\ (Size2Idx(n) \in 0 .. MaxIdx - 1 <=> Small(n))
<1>1. MaxIdx \in Nat \ {0} /\ MaxIdx - 1 \in 0 .. MaxIdx - 1 /\ MaxIdx - 1 \in Nat
  BY SizesAssumption
<1>2. Pow2[MaxIdx - 1] \in Nat
  BY <1>1, Powers
<1>3. ASSUME NEW n \in Nat \ {0}
      PROVE  Size2Idx(n) \in 0 .. MaxIdx /\ (Size2Idx(n) < MaxIdx <=> Small(n))
             /\ (Size2Idx(n) \in 0 .. MaxIdx - 1 <=> Small(n))
  <2>1. Size2Idx(n) \in 0 .. MaxIdx
    BY IdxIs
  <2>2. Size2Idx(n) <= MaxIdx - 1 <=> n <= Pow2[MaxIdx - 1]
    BY <1>1, IdxBound
  <2> QED
    BY <1>1, <2>1, <2>2 DEF Small
<1> QED
  BY <1>1, <1>2, <1>3

\* A tag from a later bucket than n's is large enough for n.
LEMMA LaterFits ==
  ASSUME NEW n \in Nat \ {0}, NEW s \in Nat \ {0}, Size2Idx(n) < Size2Idx(s)
  PROVE  n <= s
<1>1. Size2Idx(n) \in 0 .. MaxIdx /\ Size2Idx(s) \in 0 .. MaxIdx /\ MaxIdx \in Nat
  BY IdxIs, SizesAssumption
<1>2. Size2Idx(n) \in 0 .. MaxIdx - 1
  BY <1>1
<1>3. (Size2Idx(n) <= Size2Idx(n) <=> n <= Pow2[Size2Idx(n)])
      /\ (Size2Idx(s) <= Size2Idx(n) <=> s <= Pow2[Size2Idx(n)]) /\ Pow2[Size2Idx(n)] \in Nat
  BY <1>2, IdxBound
<1> QED
  BY <1>1, <1>3

-----------------------------------------------------------------------------
(* What is asked of the system is enough, and has a bucket. *)

LEMMA Aligned ==
  ASSUME NEW n \in Nat
  PROVE  /\ PageAlign(n) \in Nat /\ n <= PageAlign(n)
         /\ \A q \in Nat : n <= q * PageS => PageAlign(n) <= q * PageS
<1>1. PageS \in Nat \ {0}
  BY LayoutAssumption DEF BlkS, ThreshS, HeadS, TailS
<1> DEFINE x == n + PageS - 1
           d == x \div PageS
           r == x % PageS
<1>2. x \in Nat /\ d \in Nat /\ r \in Nat /\ r < PageS /\ x = d * PageS + r
  BY <1>1
<1>3. PageAlign(n) = d * PageS
  BY DEF PageAlign
<1> HIDE DEF d, r
<1>4. d * PageS \in Nat
  BY <1>1, <1>2
<1>5. ASSUME NEW q \in Nat, n <= q * PageS PROVE d * PageS <= q * PageS
  <2>1. q * PageS \in Nat
    BY <1>1
  <2>2. d <= q
    <3>1. SUFFICES ASSUME q + 1 <= d PROVE FALSE
      BY <1>2
    <3>2. (q + 1) * PageS <= d * PageS
      BY <1>1, <1>2, <3>1
    <3>3. (q + 1) * PageS = q * PageS + PageS
      BY <1>1
    <3> QED
      BY <1>1, <1>2, <1>4, <1>5, <2>1, <3>2, <3>3
  <2> QED
    BY <1>1, <1>2, <2>2
<1>6. n <= d * PageS
  BY <1>1, <1>2, <1>4
<1> QED
  BY <1>3, <1>4, <1>5, <1>6

LEMMA Asked ==
  ASSUME NEW n \in Nat \ {0}, Size2Idx(n) < MaxIdx
  PROVE  /\ BlockSize(n) \in Nat /\ BlockSize(n) >= n + BlkS
         /\ RetrySize(n) \in Nat /\ (RetrySize(n) # 0 => RetrySize(n) >= n + BlkS)
         /\ \A w \in {BlockSize(n), RetrySize(n)} : w <= SlotS => Small(w - BlkS)
<1> DEFINE i == BlockIdx(n)
<1>1. /\ BlkS = 3 /\ n + BlkS \in Nat \ {0} /\ PageS \in Nat /\ SlotS \in Nat
      /\ ThreshIdx \in 1 .. MaxIdx /\ MaxIdx \in Nat \ {0}
  BY LayoutAssumption, SizesAssumption DEF BlkS
<1>2. i \in 0 .. MaxIdx /\ (i < MaxIdx => n + BlkS <= Pow2[i])
  BY <1>1, IdxIs DEF BlockIdx
<1>3. Pow2[MaxIdx - 1] \in Nat /\ Small(n)
  BY SmallIs
<1> HIDE DEF i
<1>4. \A j \in 0 .. MaxIdx - 1 : Pow2[j] \in Nat /\ Pow2[j] <= Pow2[MaxIdx - 1]
  BY <1>1, PowersGrow
<1>5. CASE i < ThreshIdx
  <2>1. i \in Nat /\ ThreshIdx - 1 \in Nat /\ i <= ThreshIdx - 1 /\ i \in 0 .. MaxIdx - 1 /\ i < MaxIdx
    BY <1>1, <1>2, <1>5
  <2>2. Pow2[i] <= Pow2[ThreshIdx - 1] /\ Pow2[i] \in Nat /\ Pow2[ThreshIdx - 1] \in Nat
    BY <2>1, PowersGrow
  <2>3. BlockSize(n) = PageS /\ RetrySize(n) = Pow2[i]
    BY <1>5 DEF BlockSize, RetrySize, i
  <2>4. Pow2[i] <= Pow2[MaxIdx - 1]
    BY <1>4, <2>1
  <2> QED
    BY <1>1, <1>2, <1>3, <2>1, <2>2, <2>3, <2>4, SizesAssumption DEF Small
<1>6. CASE ~(i < ThreshIdx) /\ i < MaxIdx
  <2>1. BlockSize(n) = PageAlign(n + BlkS) /\ RetrySize(n) = 0
    BY <1>6 DEF BlockSize, RetrySize, i
  <2>2. PageAlign(n + BlkS) \in Nat /\ n + BlkS <= PageAlign(n + BlkS)
        /\ \A q \in Nat : n + BlkS <= q * PageS => PageAlign(n + BlkS) <= q * PageS
    BY <1>1, Aligned
  <2>3. n + BlkS <= Pow2[MaxIdx - 1]
    <3>1. i \in 0 .. MaxIdx - 1
      BY <1>1, <1>2, <1>6
    <3> QED
      BY <1>1, <1>2, <1>3, <1>4, <1>6, <3>1
  <2>4. PageAlign(n + BlkS) <= SlotS => PageAlign(n + BlkS) <= Pow2[MaxIdx - 1]
    <3>1. CASE SlotS <= Pow2[MaxIdx - 1]
      BY <1>1, <1>3, <2>2, <3>1
    <3>2. CASE Pow2[MaxIdx - 1] % PageS = 0
      <4>1. PageS \in Nat \ {0}
        BY LayoutAssumption DEF BlkS, ThreshS, HeadS, TailS
      <4>2. PICK q \in Nat : Pow2[MaxIdx - 1] = q * PageS
        <5>1. Pow2[MaxIdx - 1] = (Pow2[MaxIdx - 1] \div PageS) * PageS + (Pow2[MaxIdx - 1] % PageS)
              /\ Pow2[MaxIdx - 1] \div PageS \in Nat
          BY <1>3, <4>1
        <5>2. (Pow2[MaxIdx - 1] \div PageS) * PageS \in Nat
          BY <4>1, <5>1
        <5> QED
          BY <3>2, <5>1, <5>2
      <4> QED
        BY <2>2, <2>3, <4>2
    <3> QED
      BY <3>1, <3>2, SizesAssumption
  <2> QED
    BY <1>1, <1>3, <2>1, <2>2, <2>4 DEF Small
<1>7. CASE ~(i < MaxIdx)
  <2>1. BlockSize(n) = n + BlkS /\ RetrySize(n) = 0
    BY <1>1, <1>2, <1>7 DEF BlockSize, RetrySize, i
  <2> QED
    BY <1>1, <1>3, <2>1 DEF Small
<1> QED
  BY <1>5, <1>6, <1>7
-----------------------------------------------------------------------------
(* The circular lists.  The links of x are m[x + p] and m[x + s]; rk gives every
   element a rank, which falls from the first element on, and the next element is
   the highest of those below: so there is one ring. *)

Memory == [Cell -> Int]

Ring(m, F, head, p, s, rk) ==
  /\ F = {} <=> head = NULL
  /\ F # {} => head \in F
  /\ \A x \in F : /\ m[x + s] \in F /\ m[x + p] \in F
                  /\ m[m[x + s] + p] = x /\ m[m[x + p] + s] = x
                  /\ rk[x] \in Nat /\ rk[x] <= rk[head]
                  /\ m[x + s] = head \/ rk[m[x + s]] < rk[x]
                  /\ x = head \/ rk[x] < rk[m[x + p]]
  /\ \A x, y \in F : rk[y] < rk[x] => rk[y] <= rk[m[x + s]] /\ rk[m[x + s]] < rk[x]
  /\ \A x, y \in F : rk[y] = rk[x] => y = x

\* m2 has t as the new first element of a ring F of m.
RingAdded(m, m2, F, head, t, p, s) ==
  /\ t \notin F /\ t # NULL
  /\ F = {} => m2[t + p] = t /\ m2[t + s] = t
  /\ F # {} => /\ m2[t + s] = head /\ m2[t + p] = m[head + p]
               /\ \A x \in F : /\ m2[x + s] = IF x = m[head + p] THEN t ELSE m[x + s]
                               /\ m2[x + p] = IF x = head THEN t ELSE m[x + p]

RankAdded(F, t, rk, rk2) ==
  /\ rk2[t] \in Nat
  /\ \A x \in F : rk2[x] = rk[x] /\ rk[x] < rk2[t]

LEMMA RingAdd ==
  ASSUME NEW m, NEW m2, NEW F, NEW head, NEW t, NEW p, NEW s, NEW rk, NEW rk2,
         Ring(m, F, head, p, s, rk), RingAdded(m, m2, F, head, t, p, s), RankAdded(F, t, rk, rk2)
  PROVE  Ring(m2, F \cup {t}, t, p, s, rk2)
<1>1. CASE F = {}
  BY <1>1 DEF Ring, RingAdded, RankAdded
<1>2. CASE F # {}
  <2> DEFINE last == m[head + p]
             G == F \cup {t}
  <2>1. /\ head \in F /\ last \in F /\ m[last + s] = head /\ t \notin F
        /\ m2[t + s] = head /\ m2[t + p] = last /\ rk2[t] \in Nat
        /\ \A x \in F : /\ m2[x + s] = IF x = last THEN t ELSE m[x + s]
                        /\ m2[x + p] = IF x = head THEN t ELSE m[x + p]
                        /\ rk2[x] = rk[x] /\ rk[x] < rk2[t] /\ rk[x] \in Nat /\ rk[x] <= rk[head]
    BY <1>2 DEF Ring, RingAdded, RankAdded
  <2>2. \A x \in F : /\ m[x + s] \in F /\ m[x + p] \in F
                     /\ m[m[x + s] + p] = x /\ m[m[x + p] + s] = x
                     /\ m[x + s] = head \/ rk[m[x + s]] < rk[x]
                     /\ x = head \/ rk[x] < rk[m[x + p]]
    BY DEF Ring
  <2>3. \A x, y \in F : rk[y] < rk[x] => rk[y] <= rk[m[x + s]] /\ rk[m[x + s]] < rk[x]
    BY DEF Ring
  <2>4. \A x, y \in F : rk[y] = rk[x] => y = x
    BY DEF Ring
  <2> HIDE DEF last
  <2>5. \A x \in F : (m[x + s] = head <=> x = last) /\ (m[x + p] = last <=> x = head)
    BY <2>1, <2>2
  <2>6. ASSUME NEW x \in G
        PROVE  /\ m2[x + s] \in G /\ m2[x + p] \in G
               /\ m2[m2[x + s] + p] = x /\ m2[m2[x + p] + s] = x
    <3>1. CASE x = t
      BY <2>1, <2>5, <3>1
    <3>2. CASE x \in F
      <4>1. m2[x + s] \in G /\ m2[m2[x + s] + p] = x
        BY <2>1, <2>2, <2>5, <3>2
      <4>2. m2[x + p] \in G /\ m2[m2[x + p] + s] = x
        BY <2>1, <2>2, <2>5, <3>2
      <4> QED
        BY <4>1, <4>2
    <3> QED
      BY <3>1, <3>2
  <2>7. ASSUME NEW x \in G
        PROVE  /\ rk2[x] \in Nat /\ rk2[x] <= rk2[t]
               /\ m2[x + s] = t \/ rk2[m2[x + s]] < rk2[x]
               /\ x = t \/ rk2[x] < rk2[m2[x + p]]
    <3>1. CASE x = t
      BY <2>1, <3>1
    <3>2. CASE x \in F
      <4>1. rk2[x] \in Nat /\ rk2[x] <= rk2[t]
        BY <2>1, <3>2
      <4>2. m2[x + s] = t \/ rk2[m2[x + s]] < rk2[x]
        BY <2>1, <2>2, <2>5, <3>2
      <4>3. rk2[x] < rk2[m2[x + p]]
        BY <2>1, <2>2, <2>5, <3>2
      <4> QED
        BY <4>1, <4>2, <4>3
    <3> QED
      BY <3>1, <3>2
  <2>8. ASSUME NEW x \in G, NEW y \in G, rk2[y] < rk2[x]
        PROVE  rk2[y] <= rk2[m2[x + s]] /\ rk2[m2[x + s]] < rk2[x]
    <3>1. y \in F /\ rk2[y] = rk[y] /\ rk[y] \in Nat
      BY <2>1, <2>7, <2>8
    <3>2. CASE x = t
      BY <2>1, <3>1, <3>2
    <3>3. CASE x \in F
      <4>1. rk2[x] = rk[x] /\ rk[x] \in Nat
        BY <2>1, <3>3
      <4>2. rk[y] <= rk[m[x + s]] /\ rk[m[x + s]] < rk[x]
        BY <2>3, <2>8, <3>1, <3>3, <4>1
      <4>3. x # last
        BY <2>1, <4>1, <4>2
      <4>4. m2[x + s] = m[x + s] /\ m[x + s] \in F
        BY <2>1, <2>2, <3>3, <4>3
      <4> QED
        BY <2>1, <3>1, <4>1, <4>2, <4>4
    <3> QED
      BY <3>2, <3>3
  <2>9. ASSUME NEW x \in G, NEW y \in G, rk2[y] = rk2[x]
        PROVE  y = x
    BY <2>1, <2>4, <2>9
  <2> QED
    BY <2>1, <2>6, <2>7, <2>8, <2>9 DEF Ring, RingAdded
<1> QED
  BY <1>1, <1>2

\* m2 has t no longer in the ring F of m.
RingRemoved(m, m2, F, t, p, s) ==
  \A x \in F \ {t} : /\ m2[x + s] = IF x = m[t + p] THEN m[t + s] ELSE m[x + s]
                     /\ m2[x + p] = IF x = m[t + s] THEN m[t + p] ELSE m[x + p]

Follows(m, t, u, s) == m[t + s] = u
Only(F, head, t) == F = {t} /\ head = t

LEMMA RingAlone ==
  ASSUME NEW m, NEW F, NEW head, NEW t \in F, NEW p, NEW s, NEW rk,
         Ring(m, F, head, p, s, rk), Follows(m, t, t, s)
  PROVE  Only(F, head, t)
<1> t = m[t + s]
  BY DEF Follows
<1>1. m[t + p] = t
  BY DEF Ring
<1>2. t = head
  BY <1>1 DEF Ring
<1>3. ASSUME NEW y \in F, y # t PROVE FALSE
  <2>1. rk[y] \in Nat /\ rk[t] \in Nat /\ rk[y] <= rk[t] /\ rk[y] # rk[t]
    BY <1>2, <1>3 DEF Ring
  <2>2. rk[y] < rk[t]
    BY <2>1
  <2>3. rk[m[t + s]] < rk[t]
    BY <2>2 DEF Ring
  <2> QED
    BY <2>1, <2>3
<1> QED
  BY <1>2, <1>3 DEF Only

LEMMA RingRemove ==
  ASSUME NEW m, NEW m2, NEW F, NEW head, NEW t \in F, NEW p, NEW s, NEW rk, NULL \notin F,
         Ring(m, F, head, p, s, rk), RingRemoved(m, m2, F, t, p, s), t # m[t + s],
         NEW first, first = IF t = head THEN m[t + s] ELSE head
  PROVE  Ring(m2, F \ {t}, first, p, s, rk)
<1> DEFINE a == m[t + p]
           c == m[t + s]
           G == F \ {t}
<1>1. /\ head \in F /\ a \in F /\ c \in F /\ m[a + s] = t /\ m[c + p] = t
      /\ \A x \in F : rk[x] \in Nat /\ rk[x] <= rk[head]
      /\ c = head \/ rk[c] < rk[t]
      /\ t = head \/ rk[t] < rk[a]
  BY DEF Ring
<1>2. \A x \in F : /\ m[x + s] \in F /\ m[x + p] \in F
                   /\ m[m[x + s] + p] = x /\ m[m[x + p] + s] = x
                   /\ m[x + s] = head \/ rk[m[x + s]] < rk[x]
                   /\ x = head \/ rk[x] < rk[m[x + p]]
  BY DEF Ring
<1>3. \A x, y \in F : rk[y] < rk[x] => rk[y] <= rk[m[x + s]] /\ rk[m[x + s]] < rk[x]
  BY DEF Ring
<1>4. \A x, y \in F : rk[y] = rk[x] => y = x
  BY DEF Ring
<1>5. \A x \in G : /\ m2[x + s] = IF x = a THEN c ELSE m[x + s]
                   /\ m2[x + p] = IF x = c THEN a ELSE m[x + p]
  BY DEF RingRemoved
<1>6. c # t /\ a # t
  BY <1>2
<1> HIDE DEF a, c
<1>7. \A x \in F : (m[x + s] = t <=> x = a) /\ (m[x + p] = t <=> x = c)
      /\ (m[x + s] = c <=> x = t) /\ (m[x + p] = a <=> x = t)
  BY <1>1, <1>2 DEF a, c
<1>8. first \in G
  BY <1>1, <1>6 DEF c
<1>9. \A x \in G : rk[x] <= rk[first]
  <2>1. CASE t = head
    <3>1. first = c
      BY <2>1 DEF c
    <3>2. ASSUME NEW x \in G PROVE rk[x] <= rk[c]
      <4>1. rk[x] # rk[t] /\ rk[x] \in Nat /\ rk[t] \in Nat /\ rk[x] <= rk[t]
        BY <1>1, <1>4, <2>1
      <4>2. rk[x] < rk[t]
        BY <4>1
      <4> QED
        BY <1>3, <4>2 DEF c
    <3> QED
      BY <3>1, <3>2
  <2>2. CASE t # head
    BY <1>1, <2>2
  <2> QED
    BY <2>1, <2>2
<1>10. ASSUME NEW x \in G
       PROVE  m2[x + s] \in G /\ m2[x + p] \in G /\ m2[m2[x + s] + p] = x /\ m2[m2[x + p] + s] = x
  <2>1. m2[x + s] \in G /\ m2[m2[x + s] + p] = x
    BY <1>1, <1>2, <1>5, <1>6, <1>7
  <2>2. m2[x + p] \in G /\ m2[m2[x + p] + s] = x
    BY <1>1, <1>2, <1>5, <1>6, <1>7
  <2> QED
    BY <2>1, <2>2
<1>11. ASSUME NEW x \in G
       PROVE  m2[x + s] = first \/ rk[m2[x + s]] < rk[x]
  <2>1. CASE x = a
    <3>1. m2[x + s] = c
      BY <1>5, <2>1
    <3>2. CASE t = head
      BY <3>1, <3>2 DEF c
    <3>3. CASE t # head
      <4>1. rk[t] < rk[a] /\ first = head
        BY <1>1, <3>3
      <4>2. c = head \/ rk[c] < rk[t]
        BY <1>1
      <4> QED
        BY <1>1, <2>1, <3>1, <4>1, <4>2
    <3> QED
      BY <3>2, <3>3
  <2>2. CASE x # a
    <3>1. m2[x + s] = m[x + s] /\ m[x + s] # t
      BY <1>5, <1>7, <2>2
    <3>2. m[x + s] = head \/ rk[m[x + s]] < rk[x]
      BY <1>2
    <3> QED
      BY <3>1, <3>2
  <2> QED
    BY <2>1, <2>2
<1>12. ASSUME NEW x \in G
       PROVE  x = first \/ rk[x] < rk[m2[x + p]]
  <2>1. CASE x = c
    <3>1. m2[x + p] = a
      BY <1>5, <2>1
    <3>2. CASE t = head
      BY <2>1, <3>2 DEF c
    <3>3. CASE t # head
      <4>1. rk[t] < rk[a] /\ first = head
        BY <1>1, <3>3
      <4>2. c = head \/ rk[c] < rk[t]
        BY <1>1
      <4> QED
        BY <1>1, <2>1, <3>1, <4>1, <4>2
    <3> QED
      BY <3>2, <3>3
  <2>2. CASE x # c
    <3>1. m2[x + p] = m[x + p] /\ m[x + p] # t
      BY <1>5, <1>7, <2>2
    <3>2. x = head \/ rk[x] < rk[m[x + p]]
      BY <1>2
    <3>3. x = head => x # t
      OBVIOUS
    <3> QED
      BY <3>1, <3>2, <3>3
  <2> QED
    BY <2>1, <2>2
<1>13. ASSUME NEW x \in G, NEW y \in G, rk[y] < rk[x]
       PROVE  rk[y] <= rk[m2[x + s]] /\ rk[m2[x + s]] < rk[x]
  <2>1. rk[y] <= rk[m[x + s]] /\ rk[m[x + s]] < rk[x]
    BY <1>3, <1>13
  <2>2. CASE x # a
    BY <1>5, <2>1, <2>2
  <2>3. CASE x = a
    <3>1. m[x + s] = t /\ m2[x + s] = c
      BY <1>1, <1>5, <2>3
    <3>2. rk[y] # rk[t] /\ rk[y] \in Nat /\ rk[t] \in Nat /\ rk[c] \in Nat /\ rk[x] \in Nat
      BY <1>1, <1>4
    <3>3. rk[y] < rk[t]
      BY <2>1, <3>1, <3>2
    <3>4. rk[y] <= rk[c] /\ rk[c] < rk[t]
      BY <1>3, <3>3 DEF c
    <3> QED
      BY <2>1, <3>1, <3>2, <3>4
  <2> QED
    BY <2>2, <2>3
<1>14. \A x, y \in G : rk[y] = rk[x] => y = x
  BY <1>4
<1>15. NULL \notin G /\ G # {}
  BY <1>8
<1> HIDE DEF G
<1>16. \A x \in G : rk[x] \in Nat
  BY <1>1 DEF G
<1>17. first # NULL
  BY <1>8, <1>15
<1> QED
  BY <1>8, <1>9, <1>10, <1>11, <1>12, <1>13, <1>14, <1>15, <1>16, <1>17 DEF Ring, G

\* A ring of which nothing is written.
LEMMA RingSame ==
  ASSUME NEW m, NEW m2, NEW F, NEW head, NEW p, NEW s, NEW rk, NEW rk2, Ring(m, F, head, p, s, rk),
         \A x \in F : m2[x + p] = m[x + p] /\ m2[x + s] = m[x + s] /\ rk2[x] = rk[x]
  PROVE  Ring(m2, F, head, p, s, rk2)
<1>1. \A x \in F : /\ m2[x + s] \in F /\ m2[x + p] \in F
                   /\ m2[m2[x + s] + p] = x /\ m2[m2[x + p] + s] = x
  BY DEF Ring
<1>2. head \in F \/ F = {}
  BY DEF Ring
<1>3. \A x \in F : /\ rk2[x] \in Nat /\ rk2[x] <= rk2[head]
                   /\ m2[x + s] = head \/ rk2[m2[x + s]] < rk2[x]
                   /\ x = head \/ rk2[x] < rk2[m2[x + p]]
  BY <1>1, <1>2 DEF Ring
<1>4. \A x, y \in F : rk2[y] < rk2[x] => rk2[y] <= rk2[m2[x + s]] /\ rk2[m2[x + s]] < rk2[x]
  BY <1>1 DEF Ring
<1>5. \A x, y \in F : rk2[y] = rk2[x] => y = x
  BY DEF Ring
<1>6. (F = {} <=> head = NULL) /\ (F # {} => head \in F)
  BY DEF Ring
<1> QED
  BY <1>1, <1>3, <1>4, <1>5, <1>6 DEF Ring
-----------------------------------------------------------------------------
(* Where blocks and tags lie. *)

BlockSet == Slots \cup {BaseBlk}
Room(b) == IF b = BaseBlk THEN PageS - PoolHdr + 3 ELSE SlotS

LEMMA Rooms ==
  /\ Cell \subseteq Nat \ {NULL} /\ BaseBlk \notin Slots /\ BaseBlk \in Nat
  /\ \A b \in BlockSet : b \in Nat \ {NULL} /\ Room(b) \in Nat
  /\ \A b \in BlockSet : \A c \in Int : b <= c /\ c < b + Room(b) => c \in Cell
  /\ \A a, b \in BlockSet : a # b => a + Room(a) <= b \/ b + Room(b) <= a
<1>1. /\ Base \in Nat \ {0} /\ PoolHdr \in Nat /\ PageS \in Nat /\ SlotS \in Nat
      /\ PoolHdr >= 3 /\ PageS >= PoolHdr + 6 /\ BaseBlk = Base + PoolHdr - 3 /\ PageS <= SlotS
      /\ Slots \subseteq Nat \ {0, Base}
  BY LayoutAssumption DEF BlkS, ThreshS, HeadS, TailS, BaseBlk
<1>2. \A s \in Slots \cup {Base}, u \in Slots :
         s # u => s + SlotS <= u \/ u + SlotS <= s \/ (s = Base /\ s + PageS <= u)
  BY LayoutAssumption
<1>3. \A b \in Slots \cup {Base} : \A c \in Int :
        b <= c /\ c < b + (IF b = Base THEN PageS ELSE SlotS) => c \in Cell
  BY <1>1 DEF Cell, Cells
<1>4. Cell \subseteq Nat \ {NULL}
  <2>1. SUFFICES ASSUME NEW c \in Cell PROVE c \in Nat \ {NULL}
    OBVIOUS
  <2>2. PICK b \in Slots \cup {Base} : c \in Cells(b)
    BY DEF Cell
  <2> QED
    BY <1>1, <2>2 DEF Cells, NULL
<1>5. BaseBlk \in Nat \ {NULL} /\ BaseBlk \notin Slots
  <2>1. ASSUME BaseBlk \in Slots PROVE FALSE
    BY <1>1, <1>2, <2>1
  <2> QED
    BY <1>1, <2>1 DEF NULL
<1>6. \A b \in BlockSet : b \in Nat \ {NULL} /\ Room(b) \in Nat
  BY <1>1, <1>5 DEF BlockSet, Room, NULL
<1>7. ASSUME NEW b \in BlockSet, NEW c \in Int, b <= c, c < b + Room(b) PROVE c \in Cell
  <2>1. CASE b = BaseBlk
    BY <1>1, <1>3, <1>7, <2>1 DEF Room
  <2>2. CASE b # BaseBlk
    BY <1>1, <1>3, <1>7, <2>2 DEF Room, BlockSet
  <2> QED
    BY <2>1, <2>2
<1>8. ASSUME NEW a \in BlockSet, NEW b \in BlockSet, a # b
      PROVE  a + Room(a) <= b \/ b + Room(b) <= a
  <2>1. CASE a = BaseBlk
    BY <1>1, <1>2, <1>8, <2>1 DEF Room, BlockSet
  <2>2. CASE b = BaseBlk
    BY <1>1, <1>2, <1>8, <2>2 DEF Room, BlockSet
  <2>3. CASE a # BaseBlk /\ b # BaseBlk
    BY <1>1, <1>2, <1>8, <2>3 DEF Room, BlockSet
  <2> QED
    BY <2>1, <2>2, <2>3
<1> QED
  BY <1>4, <1>5, <1>6, <1>7, <1>8

(* The tags T of the memory m tile the blocks B; own[t] is the block of t. *)
Shape(m, B, T, own) ==
  /\ T \subseteq Nat /\ B \subseteq BlockSet /\ own \in [T -> B]
  /\ \A b \in B : /\ m[b + 2] \in Nat /\ m[b + 2] <= Room(b)
                  /\ b + 3 \in T /\ own[b + 3] = b
  /\ \A t \in T : m[t + 2] \in Nat /\ 6 <= m[t + 2]
  /\ \A t \in T : own[t] + 3 <= t /\ t + m[t + 2] <= own[t] + m[own[t] + 2]
  /\ \A t \in T : t + m[t + 2] # own[t] + m[own[t] + 2]
                    => t + m[t + 2] \in T /\ own[t + m[t + 2]] = own[t]
  /\ \A t \in T : t # own[t] + 3 => \E u \in T : own[u] = own[t] /\ u + m[u + 2] = t
  /\ \A t, u \in T : t # u => t + m[t + 2] <= u \/ u + m[u + 2] <= t

SameSizes(m, m2, B, T) ==
  (\A t \in T : m2[t + 2] = m[t + 2]) /\ \A b \in B : m2[b + 2] = m[b + 2]

LEMMA ShapeSame ==
  ASSUME NEW m, NEW m2, NEW B, NEW T, NEW own, Shape(m, B, T, own), SameSizes(m, m2, B, T)
  PROVE  Shape(m2, B, T, own)
<1>1. T \subseteq Nat /\ B \subseteq BlockSet /\ own \in [T -> B]
  BY DEF Shape
<1>2. \A b \in B : m2[b + 2] \in Nat /\ m2[b + 2] <= Room(b) /\ b + 3 \in T /\ own[b + 3] = b
  BY DEF Shape, SameSizes
<1>3. \A t \in T : m2[t + 2] \in Nat /\ 6 <= m2[t + 2]
  BY DEF Shape, SameSizes
<1>4. \A t \in T : own[t] + 3 <= t /\ t + m2[t + 2] <= own[t] + m2[own[t] + 2]
  BY <1>1 DEF Shape, SameSizes
<1>5. \A t \in T : t + m2[t + 2] # own[t] + m2[own[t] + 2]
                    => t + m2[t + 2] \in T /\ own[t + m2[t + 2]] = own[t]
  BY <1>1 DEF Shape, SameSizes
<1>6. \A t \in T : t # own[t] + 3 => \E u \in T : own[u] = own[t] /\ u + m2[u + 2] = t
  BY DEF Shape, SameSizes
<1>7. \A t, u \in T : t # u => t + m2[t + 2] <= u \/ u + m2[u + 2] <= t
  BY DEF Shape, SameSizes
<1> QED
  BY <1>1, <1>2, <1>3, <1>4, <1>5, <1>6, <1>7 DEF Shape

LEMMA Geometry ==
  ASSUME NEW m, NEW B, NEW T, NEW own, Shape(m, B, T, own)
  PROVE  /\ \A t \in T : t \in Nat \ {NULL} /\ m[t + 2] \in Nat /\ 6 <= m[t + 2]
         /\ \A t \in T : \A c \in Int : t <= c /\ c < t + m[t + 2] => c \in Cell
         /\ \A b \in B : b \in Nat \ {NULL} /\ b \in Cell /\ b + 1 \in Cell /\ b + 2 \in Cell
         /\ \A t \in T, b \in B : t + m[t + 2] <= b \/ b + 3 <= t
         /\ \A a, b \in B : a # b => a + 3 <= b \/ b + 3 <= a
         /\ \A t, u \in T : t # u => t + m[t + 2] <= u \/ u + m[u + 2] <= t
<1>1. /\ T \subseteq Nat /\ B \subseteq BlockSet /\ own \in [T -> B]
      /\ \A b \in B : m[b + 2] \in Nat /\ m[b + 2] <= Room(b) /\ b + 3 \in T /\ own[b + 3] = b
      /\ \A t \in T : m[t + 2] \in Nat /\ 6 <= m[t + 2]
      /\ \A t \in T : own[t] + 3 <= t /\ t + m[t + 2] <= own[t] + m[own[t] + 2]
      /\ \A t, u \in T : t # u => t + m[t + 2] <= u \/ u + m[u + 2] <= t
  BY DEF Shape
<1>2. \A b \in B : /\ b \in Nat \ {NULL} /\ Room(b) \in Nat /\ m[b + 2] \in Nat
                   /\ m[b + 2] <= Room(b) /\ 9 <= m[b + 2]
  <2>1. SUFFICES ASSUME NEW b \in B PROVE 9 <= m[b + 2]
    BY <1>1, Rooms
  <2>2. b + 3 \in T /\ own[b + 3] = b /\ b \in Nat /\ m[b + 2] \in Nat
    BY <1>1, Rooms
  <2>3. m[(b + 3) + 2] \in Nat /\ 6 <= m[(b + 3) + 2] /\ (b + 3) + m[(b + 3) + 2] <= b + m[b + 2]
    BY <1>1, <2>2
  <2> QED
    BY <2>2, <2>3
<1>3. \A a, b \in B : a # b => a + Room(a) <= b \/ b + Room(b) <= a
  BY <1>1, Rooms
<1>4. \A t \in T : t \in Nat \ {NULL}
  BY <1>1, <1>2 DEF NULL
<1>5. \A t \in T : \A c \in Int : t <= c /\ c < t + m[t + 2] => c \in Cell
  <2>1. SUFFICES ASSUME NEW t \in T, NEW c \in Int, t <= c, c < t + m[t + 2] PROVE c \in Cell
    OBVIOUS
  <2>2. own[t] \in B /\ own[t] \in BlockSet
    BY <1>1
  <2>3. own[t] <= c /\ c < own[t] + Room(own[t])
    BY <1>1, <1>2, <2>1, <2>2
  <2> QED
    BY <2>2, <2>3, Rooms
<1>6. \A b \in B : b \in Cell /\ b + 1 \in Cell /\ b + 2 \in Cell
  <2>1. SUFFICES ASSUME NEW b \in B PROVE b \in Cell /\ b + 1 \in Cell /\ b + 2 \in Cell
    OBVIOUS
  <2>2. b \in BlockSet /\ \A c \in Int : b <= c /\ c < b + Room(b) => c \in Cell
    BY <1>1, Rooms
  <2>3. b \in Nat /\ 9 <= Room(b) /\ Room(b) \in Nat
    BY <1>2
  <2> QED
    BY <2>2, <2>3
<1>7. ASSUME NEW t \in T, NEW b \in B PROVE t + m[t + 2] <= b \/ b + 3 <= t
  <2>1. own[t] \in B /\ own[t] + 3 <= t /\ t + m[t + 2] <= own[t] + m[own[t] + 2]
        /\ m[t + 2] \in Nat /\ t \in Nat
    BY <1>1
  <2>2. CASE own[t] = b
    BY <2>1, <2>2
  <2>3. CASE own[t] # b
    <3>1. own[t] + Room(own[t]) <= b \/ b + Room(b) <= own[t]
      BY <1>3, <2>1, <2>3
    <3>2. /\ own[t] \in Nat /\ Room(own[t]) \in Nat /\ m[own[t] + 2] \in Nat
          /\ m[own[t] + 2] <= Room(own[t])
      BY <1>2, <2>1
    <3>3. b \in Nat /\ Room(b) \in Nat /\ 9 <= Room(b)
      BY <1>2
    <3> QED
      BY <2>1, <3>1, <3>2, <3>3
  <2> QED
    BY <2>2, <2>3
<1>8. \A a, b \in B : a # b => a + 3 <= b \/ b + 3 <= a
  <2>1. \A b \in B : b \in Nat /\ Room(b) \in Nat /\ 9 <= Room(b)
    BY <1>2
  <2> QED
    BY <1>3, <2>1
<1> QED
  BY <1>1, <1>2, <1>4, <1>5, <1>6, <1>7, <1>8

\* The tag t is cut after n words.
CutAt(m, m2, B, T, t, n) ==
  /\ n \in Nat /\ 6 <= n /\ n + 6 <= m[t + 2]
  /\ m2[t + 2] = n /\ m2[t + n + 2] = m[t + 2] - n
  /\ (\A u \in T \ {t} : m2[u + 2] = m[u + 2]) /\ \A b \in B : m2[b + 2] = m[b + 2]

LEMMA CutShape ==
  ASSUME NEW m, NEW m2, NEW B, NEW T, NEW own, Shape(m, B, T, own), NEW t \in T, NEW n,
         CutAt(m, m2, B, T, t, n),
         NEW own2, own2 = [u \in T \cup {t + n} |-> IF u = t + n THEN own[t] ELSE own[u]]
  PROVE  Shape(m2, B, T \cup {t + n}, own2) /\ t + n \notin T
<1> DEFINE v == t + n
           U == T \cup {v}
<1>1. /\ T \subseteq Nat /\ B \subseteq BlockSet /\ own \in [T -> B]
      /\ \A b \in B : m[b + 2] \in Nat /\ m[b + 2] <= Room(b) /\ b + 3 \in T /\ own[b + 3] = b
      /\ \A u \in T : u \in Nat /\ m[u + 2] \in Nat /\ 6 <= m[u + 2] /\ own[u] \in B
      /\ \A u \in T : own[u] + 3 <= u /\ u + m[u + 2] <= own[u] + m[own[u] + 2]
  BY DEF Shape
<1>2. \A u \in T : u + m[u + 2] # own[u] + m[own[u] + 2]
                     => u + m[u + 2] \in T /\ own[u + m[u + 2]] = own[u]
  BY DEF Shape
<1>3. \A u \in T : u # own[u] + 3 => \E w \in T : own[w] = own[u] /\ w + m[w + 2] = u
  BY DEF Shape
<1>4. \A x, u \in T : x # u => x + m[x + 2] <= u \/ u + m[u + 2] <= x
  BY DEF Shape
<1>5. /\ n \in Nat /\ 6 <= n /\ n + 6 <= m[t + 2] /\ m2[t + 2] = n /\ m2[v + 2] = m[t + 2] - n
      /\ \A u \in T \ {t} : m2[u + 2] = m[u + 2]
      /\ \A b \in B : m2[b + 2] = m[b + 2]
  BY DEF CutAt
<1>6. v \notin T /\ v \in Nat /\ v # t
  <2>1. v \in Nat /\ v # t /\ t < v /\ v < t + m[t + 2]
    BY <1>1, <1>5
  <2>2. ASSUME v \in T PROVE FALSE
    <3>1. t + m[t + 2] <= v \/ v + m[v + 2] <= t
      BY <1>4, <2>1, <2>2
    <3>2. m[v + 2] \in Nat /\ m[t + 2] \in Nat
      BY <1>1, <2>2
    <3> QED
      BY <1>1, <2>1, <3>1, <3>2
  <2> QED
    BY <2>1, <2>2
<1>7. (\A u \in T : own2[u] = own[u]) /\ own2[v] = own[t] /\ own2 \in [U -> B]
  BY <1>1, <1>6
<1> HIDE DEF v
<1>8. \A b \in B : m2[b + 2] \in Nat /\ m2[b + 2] <= Room(b) /\ b + 3 \in U /\ own2[b + 3] = b
  BY <1>1, <1>5, <1>7
<1>9. \A u \in U : m2[u + 2] \in Nat /\ 6 <= m2[u + 2]
  <2>1. ASSUME NEW u \in T, u # t PROVE m2[u + 2] \in Nat /\ 6 <= m2[u + 2]
    BY <1>1, <1>5, <2>1
  <2>2. m[t + 2] \in Nat
    BY <1>1
  <2> QED
    BY <1>5, <2>1, <2>2
<1>10. \A u \in U : own2[u] + 3 <= u /\ u + m2[u + 2] <= own2[u] + m2[own2[u] + 2]
  <2>0. own[t] \in B /\ m2[own[t] + 2] = m[own[t] + 2] /\ m[own[t] + 2] \in Nat /\ own[t] \in Nat
        /\ t \in Nat /\ m[t + 2] \in Nat /\ own[t] + 3 <= t /\ t + m[t + 2] <= own[t] + m[own[t] + 2]
    BY <1>1, <1>5, Rooms
  <2>1. ASSUME NEW u \in T, u # t
        PROVE  own2[u] + 3 <= u /\ u + m2[u + 2] <= own2[u] + m2[own2[u] + 2]
    BY <1>1, <1>5, <1>7, <2>1
  <2>2. own2[t] + 3 <= t /\ t + m2[t + 2] <= own2[t] + m2[own2[t] + 2]
    BY <1>5, <1>7, <2>0
  <2>3. own2[v] + 3 <= v /\ v + m2[v + 2] <= own2[v] + m2[own2[v] + 2]
    BY <1>5, <1>7, <2>0 DEF v
  <2> QED
    BY <2>1, <2>2, <2>3
<1>11. \A u \in U : u + m2[u + 2] # own2[u] + m2[own2[u] + 2]
                      => u + m2[u + 2] \in U /\ own2[u + m2[u + 2]] = own2[u]
  <2>0. \A u \in T : own[u] \in B /\ m2[own[u] + 2] = m[own[u] + 2]
    BY <1>1, <1>5
  <2>1. ASSUME NEW u \in T, u # t, u + m2[u + 2] # own2[u] + m2[own2[u] + 2]
        PROVE  u + m2[u + 2] \in U /\ own2[u + m2[u + 2]] = own2[u]
    BY <1>2, <1>5, <1>7, <2>0, <2>1
  <2>2. t + m2[t + 2] \in U /\ own2[t + m2[t + 2]] = own2[t]
    <3>1. t + m2[t + 2] = v
      BY <1>5 DEF v
    <3> QED
      BY <1>7, <3>1
  <2>3. v + m2[v + 2] = t + m[t + 2]
    BY <1>1, <1>5 DEF v
  <2>4. ASSUME v + m2[v + 2] # own2[v] + m2[own2[v] + 2]
        PROVE  v + m2[v + 2] \in U /\ own2[v + m2[v + 2]] = own2[v]
    <3>1. t + m[t + 2] # own[t] + m[own[t] + 2]
      BY <1>7, <2>0, <2>3, <2>4
    <3>2. t + m[t + 2] \in T /\ own[t + m[t + 2]] = own[t]
      BY <1>2, <3>1
    <3> QED
      BY <1>7, <2>3, <3>2
  <2> QED
    BY <2>1, <2>2, <2>4
<1>12. \A u \in U : u # own2[u] + 3 => \E w \in U : own2[w] = own2[u] /\ w + m2[w + 2] = u
  <2>1. ASSUME NEW u \in T, u # own[u] + 3
        PROVE  \E w \in U : own2[w] = own2[u] /\ w + m2[w + 2] = u
    <3>1. PICK w \in T : own[w] = own[u] /\ w + m[w + 2] = u
      BY <1>3, <2>1
    <3>2. CASE w = t
      <4>1. v + m2[v + 2] = u
        BY <1>1, <1>5, <3>1, <3>2 DEF v
      <4> QED
        BY <1>7, <3>1, <3>2, <4>1
    <3>3. CASE w # t
      BY <1>5, <1>7, <3>1, <3>3
    <3> QED
      BY <3>2, <3>3
  <2>2. own2[t] = own2[v] /\ t + m2[t + 2] = v
    BY <1>5, <1>7 DEF v
  <2> QED
    BY <1>7, <2>1, <2>2
<1>13. \A x, u \in U : x # u => x + m2[x + 2] <= u \/ u + m2[u + 2] <= x
  <2>1. ASSUME NEW x \in T, NEW u \in T, x # u
        PROVE  x + m2[x + 2] <= u \/ u + m2[u + 2] <= x
    <3>1. x + m[x + 2] <= u \/ u + m[u + 2] <= x
      BY <1>4, <2>1
    <3>2. x \in Nat /\ u \in Nat /\ m[x + 2] \in Nat /\ m[u + 2] \in Nat
      BY <1>1
    <3>3. (x = t \/ m2[x + 2] = m[x + 2]) /\ (u = t \/ m2[u + 2] = m[u + 2])
      BY <1>5
    <3> QED
      BY <1>5, <3>1, <3>2, <3>3
  <2>2. ASSUME NEW x \in T
        PROVE  x + m2[x + 2] <= v \/ v + m2[v + 2] <= x
    <3>1. CASE x = t
      BY <1>1, <1>5, <3>1 DEF v
    <3>2. CASE x # t
      <4>1. x + m[x + 2] <= t \/ t + m[t + 2] <= x
        BY <1>4, <3>2
      <4>2. x \in Nat /\ t \in Nat /\ m[x + 2] \in Nat /\ m[t + 2] \in Nat /\ m2[x + 2] = m[x + 2]
        BY <1>1, <1>5, <3>2
      <4> QED
        BY <1>5, <4>1, <4>2 DEF v
    <3> QED
      BY <3>1, <3>2
  <2> QED
    BY <2>1, <2>2
<1>14. U \subseteq Nat
  BY <1>1, <1>6
<1> QED
  BY <1>1, <1>6, <1>7, <1>8, <1>9, <1>10, <1>11, <1>12, <1>13, <1>14 DEF Shape, v
\* The tag u that follows t becomes part of it.
JoinedAt(m, m2, B, T, t, u) ==
  /\ t + m[t + 2] = u /\ m2[t + 2] = m[t + 2] + m[u + 2]
  /\ (\A w \in T \ {t, u} : m2[w + 2] = m[w + 2]) /\ \A b \in B : m2[b + 2] = m[b + 2]

LEMMA JoinShape ==
  ASSUME NEW m, NEW m2, NEW B, NEW T, NEW own, Shape(m, B, T, own), NEW t \in T, NEW u \in T,
         own[t] = own[u], JoinedAt(m, m2, B, T, t, u),
         NEW own2, own2 = [w \in T \ {u} |-> own[w]]
  PROVE  Shape(m2, B, T \ {u}, own2)
<1> DEFINE U == T \ {u}
<1>1. /\ T \subseteq Nat /\ B \subseteq BlockSet /\ own \in [T -> B]
      /\ \A b \in B : m[b + 2] \in Nat /\ m[b + 2] <= Room(b) /\ b + 3 \in T /\ own[b + 3] = b
      /\ \A x \in T : x \in Nat /\ m[x + 2] \in Nat /\ 6 <= m[x + 2] /\ own[x] \in B
      /\ \A x \in T : own[x] + 3 <= x /\ x + m[x + 2] <= own[x] + m[own[x] + 2]
  BY DEF Shape
<1>2. \A x \in T : x + m[x + 2] # own[x] + m[own[x] + 2]
                     => x + m[x + 2] \in T /\ own[x + m[x + 2]] = own[x]
  BY DEF Shape
<1>3. \A x \in T : x # own[x] + 3 => \E w \in T : own[w] = own[x] /\ w + m[w + 2] = x
  BY DEF Shape
<1>4. \A x, w \in T : x # w => x + m[x + 2] <= w \/ w + m[w + 2] <= x
  BY DEF Shape
<1>5. /\ t + m[t + 2] = u /\ m2[t + 2] = m[t + 2] + m[u + 2]
      /\ \A w \in T \ {t, u} : m2[w + 2] = m[w + 2]
      /\ \A b \in B : m2[b + 2] = m[b + 2]
  BY DEF JoinedAt
<1>6. t # u /\ t < u /\ t \in U /\ t + m2[t + 2] = u + m[u + 2] /\ t \in Nat /\ u \in Nat
      /\ m[t + 2] \in Nat /\ m[u + 2] \in Nat /\ m2[t + 2] \in Nat /\ 6 <= m2[t + 2]
  BY <1>1, <1>5
<1>7. (\A x \in U : own2[x] = own[x]) /\ own2 \in [U -> B]
  BY <1>1
<1>8. \A b \in B : m2[b + 2] \in Nat /\ m2[b + 2] <= Room(b) /\ b + 3 \in U /\ own2[b + 3] = b
  <2>1. SUFFICES ASSUME NEW b \in B PROVE b + 3 # u
    BY <1>1, <1>5, <1>7
  <2>2. ASSUME b + 3 = u PROVE FALSE
    <3>1. own[t] = b /\ b + 3 <= t
      BY <1>1, <2>2
    <3> QED
      BY <1>6, <2>2, <3>1
  <2> QED
    BY <2>2
<1>9. \A x \in U : m2[x + 2] \in Nat /\ 6 <= m2[x + 2]
  BY <1>1, <1>5, <1>6
<1>10. \A x \in U : own2[x] + 3 <= x /\ x + m2[x + 2] <= own2[x] + m2[own2[x] + 2]
  <2>0. \A x \in T : own[x] \in B /\ m2[own[x] + 2] = m[own[x] + 2]
    BY <1>1, <1>5
  <2>1. ASSUME NEW x \in U, x # t
        PROVE  own2[x] + 3 <= x /\ x + m2[x + 2] <= own2[x] + m2[own2[x] + 2]
    BY <1>1, <1>5, <1>7, <2>0, <2>1
  <2>2. own2[t] + 3 <= t /\ t + m2[t + 2] <= own2[t] + m2[own2[t] + 2]
    BY <1>1, <1>6, <1>7, <2>0
  <2> QED
    BY <2>1, <2>2
<1>11. \A x \in U : x + m2[x + 2] # own2[x] + m2[own2[x] + 2]
                      => x + m2[x + 2] \in U /\ own2[x + m2[x + 2]] = own2[x]
  <2>0. \A x \in T : own[x] \in B /\ m2[own[x] + 2] = m[own[x] + 2]
    BY <1>1, <1>5
  <2>1. ASSUME NEW x \in U, x # t, x + m2[x + 2] # own2[x] + m2[own2[x] + 2]
        PROVE  x + m2[x + 2] \in U /\ own2[x + m2[x + 2]] = own2[x]
    <3>1. m2[x + 2] = m[x + 2] /\ x + m[x + 2] # own[x] + m[own[x] + 2]
      BY <1>5, <1>7, <2>0, <2>1
    <3>2. x + m[x + 2] \in T /\ own[x + m[x + 2]] = own[x]
      BY <1>2, <3>1
    <3>3. x + m[x + 2] # u
      <4>1. x + m[x + 2] <= t \/ t + m[t + 2] <= x
        BY <1>4, <2>1
      <4>2. x \in Nat /\ m[x + 2] \in Nat /\ 6 <= m[x + 2]
        BY <1>1
      <4> QED
        BY <1>5, <1>6, <4>1, <4>2
    <3> QED
      BY <1>7, <3>1, <3>2, <3>3
  <2>2. ASSUME t + m2[t + 2] # own2[t] + m2[own2[t] + 2]
        PROVE  t + m2[t + 2] \in U /\ own2[t + m2[t + 2]] = own2[t]
    <3>1. u + m[u + 2] # own[u] + m[own[u] + 2]
      BY <1>6, <1>7, <2>0, <2>2
    <3>2. u + m[u + 2] \in T /\ own[u + m[u + 2]] = own[u]
      BY <1>2, <3>1
    <3>3. u + m[u + 2] # u
      BY <1>1, <1>6
    <3> QED
      BY <1>6, <1>7, <3>2, <3>3
  <2> QED
    BY <2>1, <2>2
<1>12. \A x \in U : x # own2[x] + 3 => \E w \in U : own2[w] = own2[x] /\ w + m2[w + 2] = x
  <2>1. SUFFICES ASSUME NEW x \in U, x # own[x] + 3
                 PROVE  \E w \in U : own2[w] = own2[x] /\ w + m2[w + 2] = x
    BY <1>7
  <2>2. PICK w \in T : own[w] = own[x] /\ w + m[w + 2] = x
    BY <1>3, <2>1
  <2>3. CASE w = u
    BY <1>6, <1>7, <2>2, <2>3
  <2>4. CASE w = t
    BY <1>5, <2>1, <2>2, <2>4
  <2>5. CASE w # u /\ w # t
    BY <1>5, <1>7, <2>2, <2>5
  <2> QED
    BY <2>3, <2>4, <2>5
<1>13. \A x, w \in U : x # w => x + m2[x + 2] <= w \/ w + m2[w + 2] <= x
  <2>1. ASSUME NEW x \in U, NEW w \in U, x # w, x # t, w # t
        PROVE  x + m2[x + 2] <= w \/ w + m2[w + 2] <= x
    BY <1>4, <1>5, <2>1
  <2>2. ASSUME NEW x \in U, x # t
        PROVE  x + m2[x + 2] <= t \/ t + m2[t + 2] <= x
    <3>1. x + m[x + 2] <= t \/ t + m[t + 2] <= x
      BY <1>4, <2>2
    <3>2. x + m[x + 2] <= u \/ u + m[u + 2] <= x
      BY <1>4, <2>2
    <3>3. x \in Nat /\ m[x + 2] \in Nat /\ 6 <= m[x + 2] /\ m2[x + 2] = m[x + 2]
      BY <1>1, <1>5, <2>2
    <3> QED
      BY <1>5, <1>6, <3>1, <3>2, <3>3
  <2> QED
    BY <2>1, <2>2
<1>14. U \subseteq Nat
  BY <1>1
<1> QED
  BY <1>1, <1>7, <1>8, <1>9, <1>10, <1>11, <1>12, <1>13, <1>14 DEF Shape

\* A block b of one tag is added.
BlockAt(m2, b) ==
  /\ m2[b + 2] \in Nat /\ m2[b + 2] <= Room(b) /\ 9 <= m2[b + 2] /\ m2[b + 5] = m2[b + 2] - 3

LEMMA AddShape ==
  ASSUME NEW m, NEW m2, NEW B, NEW T, NEW own, Shape(m, B, T, own), SameSizes(m, m2, B, T),
         NEW b \in BlockSet, b \notin B, BlockAt(m2, b),
         NEW own2, own2 = [u \in T \cup {b + 3} |-> IF u = b + 3 THEN b ELSE own[u]]
  PROVE  Shape(m2, B \cup {b}, T \cup {b + 3}, own2) /\ b + 3 \notin T
<1> DEFINE v == b + 3
           U == T \cup {v}
           C == B \cup {b}
<1>0. Shape(m2, B, T, own)
  BY ShapeSame
<1>1. /\ T \subseteq Nat /\ B \subseteq BlockSet /\ own \in [T -> B]
      /\ \A c \in B : m2[c + 2] \in Nat /\ m2[c + 2] <= Room(c) /\ c + 3 \in T /\ own[c + 3] = c
      /\ \A u \in T : u \in Nat /\ m2[u + 2] \in Nat /\ 6 <= m2[u + 2] /\ own[u] \in B
      /\ \A u \in T : own[u] + 3 <= u /\ u + m2[u + 2] <= own[u] + m2[own[u] + 2]
  BY <1>0 DEF Shape
<1>2. \A u \in T : u + m2[u + 2] # own[u] + m2[own[u] + 2]
                     => u + m2[u + 2] \in T /\ own[u + m2[u + 2]] = own[u]
  BY <1>0 DEF Shape
<1>3. \A u \in T : u # own[u] + 3 => \E w \in T : own[w] = own[u] /\ w + m2[w + 2] = u
  BY <1>0 DEF Shape
<1>4. \A x, u \in T : x # u => x + m2[x + 2] <= u \/ u + m2[u + 2] <= x
  BY <1>0 DEF Shape
<1>5. /\ m2[b + 2] \in Nat /\ m2[b + 2] <= Room(b) /\ m2[v + 2] = m2[b + 2] - 3 /\ 9 <= m2[b + 2]
      /\ b \in Nat /\ v \in Nat /\ v = b + 3 /\ Room(b) \in Nat
  <2>1. b \in Nat /\ Room(b) \in Nat
    BY Rooms
  <2>2. (b + 3) + 2 = b + 5
    BY <2>1
  <2> QED
    BY <2>1, <2>2 DEF BlockAt
<1>6. ASSUME NEW u \in T PROVE u + m2[u + 2] <= v \/ v + m2[v + 2] <= u
  <2>1. own[u] \in B /\ own[u] + 3 <= u /\ u + m2[u + 2] <= own[u] + m2[own[u] + 2]
        /\ m2[own[u] + 2] <= Room(own[u]) /\ m2[own[u] + 2] \in Nat
        /\ u \in Nat /\ m2[u + 2] \in Nat
    BY <1>1
  <2>2. own[u] \in BlockSet /\ own[u] # b
    BY <1>1, <2>1
  <2>3. own[u] + Room(own[u]) <= b \/ b + Room(b) <= own[u]
    BY <2>2, Rooms
  <2>4. own[u] \in Nat /\ Room(own[u]) \in Nat
    BY <2>2, Rooms
  <2> QED
    BY <1>5, <2>1, <2>3, <2>4
<1>7. v \notin T
  <2>1. ASSUME v \in T PROVE FALSE
    <3>1. m2[v + 2] \in Nat /\ 6 <= m2[v + 2] /\ (v + m2[v + 2] <= v)
      BY <1>1, <1>6, <2>1
    <3> QED
      BY <1>5, <3>1
  <2> QED
    BY <2>1
<1> HIDE DEF v
<1>8. (\A u \in T : own2[u] = own[u]) /\ own2[v] = b /\ own2 \in [U -> C]
  BY <1>1, <1>7 DEF v
<1>9. \A c \in C : m2[c + 2] \in Nat /\ m2[c + 2] <= Room(c) /\ c + 3 \in U /\ own2[c + 3] = c
  BY <1>1, <1>5, <1>8
<1>10. \A u \in U : m2[u + 2] \in Nat /\ 6 <= m2[u + 2]
  BY <1>1, <1>5
<1>11. \A u \in U : own2[u] + 3 <= u /\ u + m2[u + 2] <= own2[u] + m2[own2[u] + 2]
  BY <1>1, <1>5, <1>8
<1>12. \A u \in U : u + m2[u + 2] # own2[u] + m2[own2[u] + 2]
                      => u + m2[u + 2] \in U /\ own2[u + m2[u + 2]] = own2[u]
  <2>1. v + m2[v + 2] = own2[v] + m2[own2[v] + 2]
    BY <1>5, <1>8
  <2> QED
    BY <1>2, <1>8, <2>1
<1>13. \A u \in U : u # own2[u] + 3 => \E w \in U : own2[w] = own2[u] /\ w + m2[w + 2] = u
  <2>1. ASSUME NEW u \in T, u # own2[u] + 3
        PROVE  \E w \in U : own2[w] = own2[u] /\ w + m2[w + 2] = u
    <3>1. PICK w \in T : own[w] = own[u] /\ w + m2[w + 2] = u
      BY <1>3, <1>8, <2>1
    <3> QED
      BY <1>8, <3>1
  <2> QED
    BY <1>5, <1>8, <2>1
<1>14. \A x, u \in U : x # u => x + m2[x + 2] <= u \/ u + m2[u + 2] <= x
  BY <1>4, <1>6
<1> QED
  BY <1>1, <1>5, <1>7, <1>8, <1>9, <1>10, <1>11, <1>12, <1>13, <1>14 DEF Shape, v

\* A block b of one tag is dropped.
LEMMA DropShape ==
  ASSUME NEW m, NEW m2, NEW B, NEW T, NEW own, Shape(m, B, T, own), NEW b \in B,
         m[b + 5] = m[b + 2] - 3, SameSizes(m, m2, B \ {b}, T \ {b + 3}),
         NEW own2, own2 = [u \in T \ {b + 3} |-> own[u]]
  PROVE  /\ Shape(m2, B \ {b}, T \ {b + 3}, own2)
         /\ b + 3 \in T /\ own[b + 3] = b /\ \A u \in T : own[u] = b => u = b + 3
<1> DEFINE v == b + 3
           U == T \ {v}
           C == B \ {b}
<1>1. /\ T \subseteq Nat /\ B \subseteq BlockSet /\ own \in [T -> B]
      /\ \A c \in B : m[c + 2] \in Nat /\ m[c + 2] <= Room(c) /\ c + 3 \in T /\ own[c + 3] = c
      /\ \A u \in T : u \in Nat /\ m[u + 2] \in Nat /\ 6 <= m[u + 2] /\ own[u] \in B
      /\ \A u \in T : own[u] + 3 <= u /\ u + m[u + 2] <= own[u] + m[own[u] + 2]
  BY DEF Shape
<1>2. \A u \in T : u + m[u + 2] # own[u] + m[own[u] + 2]
                     => u + m[u + 2] \in T /\ own[u + m[u + 2]] = own[u]
  BY DEF Shape
<1>3. \A u \in T : u # own[u] + 3 => \E w \in T : own[w] = own[u] /\ w + m[w + 2] = u
  BY DEF Shape
<1>4. \A x, u \in T : x # u => x + m[x + 2] <= u \/ u + m[u + 2] <= x
  BY DEF Shape
<1>5. b \in Nat /\ v \in T /\ own[v] = b /\ v + m[v + 2] = b + m[b + 2] /\ v = b + 3
      /\ m[v + 2] \in Nat /\ m[b + 2] \in Nat
  <2>1. b \in Nat
    BY <1>1, Rooms
  <2>2. (b + 3) + 2 = b + 5
    BY <2>1
  <2>3. v \in T /\ own[v] = b /\ m[v + 2] \in Nat /\ m[b + 2] \in Nat
    BY <1>1
  <2> QED
    BY <2>1, <2>2, <2>3
<1>6. \A u \in T : own[u] = b => u = v
  <2>1. SUFFICES ASSUME NEW u \in T, own[u] = b, u # v PROVE FALSE
    OBVIOUS
  <2>2. u + m[u + 2] <= v \/ v + m[v + 2] <= u
    BY <1>4, <1>5, <2>1
  <2>3. b + 3 <= u /\ u + m[u + 2] <= b + m[b + 2] /\ u \in Nat /\ m[u + 2] \in Nat /\ 6 <= m[u + 2]
    BY <1>1, <2>1
  <2> QED
    BY <1>5, <2>2, <2>3
<1> HIDE DEF v
<1>7. (\A u \in U : own2[u] = own[u] /\ own[u] # b) /\ own2 \in [U -> C]
  BY <1>1, <1>5, <1>6
<1>8. (\A u \in U : m2[u + 2] = m[u + 2]) /\ \A c \in C : m2[c + 2] = m[c + 2]
  BY DEF SameSizes, v
<1>9. \A c \in C : m2[c + 2] \in Nat /\ m2[c + 2] <= Room(c) /\ c + 3 \in U /\ own2[c + 3] = c
  <2>1. SUFFICES ASSUME NEW c \in C PROVE c + 3 # v
    BY <1>1, <1>7, <1>8
  <2> QED
    BY <1>1, <1>5
<1>10. \A u \in U : m2[u + 2] \in Nat /\ 6 <= m2[u + 2]
  BY <1>1, <1>8
<1>11. \A u \in U : own2[u] + 3 <= u /\ u + m2[u + 2] <= own2[u] + m2[own2[u] + 2]
  <2>1. SUFFICES ASSUME NEW u \in U
                 PROVE  own2[u] + 3 <= u /\ u + m2[u + 2] <= own2[u] + m2[own2[u] + 2]
    OBVIOUS
  <2>2. own2[u] = own[u] /\ own[u] \in C /\ m2[own[u] + 2] = m[own[u] + 2] /\ m2[u + 2] = m[u + 2]
    BY <1>1, <1>7, <1>8
  <2> QED
    BY <1>1, <2>2
<1>12. \A u \in U : u + m2[u + 2] # own2[u] + m2[own2[u] + 2]
                      => u + m2[u + 2] \in U /\ own2[u + m2[u + 2]] = own2[u]
  <2>1. SUFFICES ASSUME NEW u \in U, u + m2[u + 2] # own2[u] + m2[own2[u] + 2]
                 PROVE  u + m2[u + 2] \in U /\ own2[u + m2[u + 2]] = own2[u]
    OBVIOUS
  <2>2. own2[u] = own[u] /\ own[u] \in C /\ m2[own[u] + 2] = m[own[u] + 2] /\ m2[u + 2] = m[u + 2]
    BY <1>1, <1>7, <1>8
  <2>3. u + m[u + 2] \in T /\ own[u + m[u + 2]] = own[u]
    BY <1>2, <2>1, <2>2
  <2>4. u + m[u + 2] # v
    BY <1>5, <2>2, <2>3
  <2> QED
    BY <1>7, <2>2, <2>3, <2>4
<1>13. \A u \in U : u # own2[u] + 3 => \E w \in U : own2[w] = own2[u] /\ w + m2[w + 2] = u
  <2>1. SUFFICES ASSUME NEW u \in U, u # own[u] + 3
                 PROVE  \E w \in U : own2[w] = own2[u] /\ w + m2[w + 2] = u
    BY <1>7
  <2>2. PICK w \in T : own[w] = own[u] /\ w + m[w + 2] = u
    BY <1>3, <2>1
  <2>3. w # v
    BY <1>5, <1>7, <2>2
  <2> QED
    BY <1>7, <1>8, <2>2, <2>3
<1>14. \A x, u \in U : x # u => x + m2[x + 2] <= u \/ u + m2[u + 2] <= x
  BY <1>4, <1>8
<1> QED
  BY <1>1, <1>5, <1>6, <1>7, <1>9, <1>10, <1>11, <1>12, <1>13, <1>14 DEF Shape, v
-----------------------------------------------------------------------------
(* A heap: tags that tile the blocks, marked at either end, of which those that
   are free and not in hand (H) are in the bucket of their size. *)

Marked(m, own, t) ==
  /\ m[t] \in {0, 1} /\ m[t + m[t + 2] - 1] = t
  /\ m[t] = 1 => m[t + 3] = own[t]
  /\ m[t] = 0 => m[t + m[t + 2] - 2] = own[t]

FreeIn(m, T, H) == {t \in T \ H : m[t] = 0}
ClassOf(m, F, i) == {t \in F : Size2Idx(m[t + 2]) = i}

Listed(m, k, F, rk) ==
  /\ k \in [0 .. MaxIdx - 1 -> Cell \cup {NULL}]
  /\ \A i \in 0 .. MaxIdx - 1 : Ring(m, ClassOf(m, F, i), k[i], 1, 3, rk)
  /\ \A t \in F : Size2Idx(m[t + 2]) \in 0 .. MaxIdx - 1

Ranked(rk, lim) == rk \in [Cell -> Nat] /\ lim \in Nat /\ \A x \in Cell : rk[x] < lim

Heaped(m, k, B, T, own, H, rk, lim) ==
  /\ m \in Memory /\ H \subseteq T /\ Shape(m, B, T, own)
  /\ \A t \in T \ H : Marked(m, own, t)
  /\ Listed(m, k, FreeIn(m, T, H), rk)
  /\ BaseBlk \in B /\ Ring(m, B, m[BaseBlk + 1], 0, 1, rk)
  /\ Ranked(rk, lim)

\* Nothing in the tag u is written.
Untouched(m, m2, u) == \A c \in Int : u <= c /\ c < u + m[u + 2] => m2[c] = m[c]

\* Nothing is written in the used ones of the tags R, nor the use and size of any.
Frame(m, m2, R) ==
  \A u \in R : m2[u] = m[u] /\ m2[u + 2] = m[u + 2] /\ (m[u] = 1 => Untouched(m, m2, u))

LEMMA FrameTrans ==
  ASSUME NEW m, NEW m1, NEW m2, NEW R, Frame(m, m1, R), Frame(m1, m2, R)
  PROVE  Frame(m, m2, R)
<1> SUFFICES ASSUME NEW u \in R
             PROVE  m2[u] = m[u] /\ m2[u + 2] = m[u + 2] /\ (m[u] = 1 => Untouched(m, m2, u))
  BY DEF Frame
<1>1. m1[u] = m[u] /\ m1[u + 2] = m[u + 2] /\ (m[u] = 1 => Untouched(m, m1, u))
  BY DEF Frame
<1>2. m2[u] = m1[u] /\ m2[u + 2] = m1[u + 2] /\ (m1[u] = 1 => Untouched(m1, m2, u))
  BY DEF Frame
<1>3. m[u] = 1 => Untouched(m, m2, u)
  BY <1>1, <1>2 DEF Untouched
<1> QED
  BY <1>1, <1>2, <1>3

\* The words of a tag lie in it.
LEMMA UntouchedIs ==
  ASSUME NEW m, NEW m2, NEW B, NEW T, NEW own, Shape(m, B, T, own), NEW u \in T, Untouched(m, m2, u)
  PROVE  /\ m2[u] = m[u] /\ m2[u + 1] = m[u + 1] /\ m2[u + 2] = m[u + 2] /\ m2[u + 3] = m[u + 3]
         /\ m2[u + m[u + 2] - 1] = m[u + m[u + 2] - 1] /\ m2[u + m[u + 2] - 2] = m[u + m[u + 2] - 2]
<1>1. u \in Nat /\ m[u + 2] \in Nat /\ 6 <= m[u + 2]
  BY Geometry
<1> QED
  BY <1>1 DEF Untouched

\* Only links of the tags F are written.
OnlyLinks(m, m2, F) ==
  /\ m2 \in Memory
  /\ \A c \in Cell : (\A u \in F : c # u + 1 /\ c # u + 3) => m2[c] = m[c]

LEMMA LinksFrame ==
  ASSUME NEW m, NEW m2, NEW B, NEW T, NEW own, Shape(m, B, T, own), NEW F, F \subseteq T,
         OnlyLinks(m, m2, F)
  PROVE  /\ \A t \in T : /\ m2[t] = m[t] /\ m2[t + 2] = m[t + 2]
                         /\ m2[t + m[t + 2] - 1] = m[t + m[t + 2] - 1]
                         /\ m2[t + m[t + 2] - 2] = m[t + m[t + 2] - 2]
         /\ \A t \in T \ F : Untouched(m, m2, t)
         /\ \A b \in B : m2[b] = m[b] /\ m2[b + 1] = m[b + 1] /\ m2[b + 2] = m[b + 2]
<1>1. \A t \in T : t \in Nat /\ m[t + 2] \in Nat /\ 6 <= m[t + 2]
  BY Geometry
<1>2. \A t, u \in T : t # u => t + m[t + 2] <= u \/ u + m[u + 2] <= t
  BY Geometry
<1>3. \A t \in T : \A c \in Int : t <= c /\ c < t + m[t + 2] => c \in Cell
  BY Geometry
<1>4. ASSUME NEW t \in T, NEW c \in Int, t <= c, c < t + m[t + 2], t \notin F \/ (c # t + 1 /\ c # t + 3)
      PROVE  m2[c] = m[c]
  <2>1. c \in Cell
    BY <1>3, <1>4
  <2>2. ASSUME NEW u \in F PROVE c # u + 1 /\ c # u + 3
    <3>1. CASE u = t
      BY <1>4, <3>1
    <3>2. CASE u # t
      <4>1. t + m[t + 2] <= u \/ u + m[u + 2] <= t
        BY <1>2, <3>2
      <4>2. u \in Nat /\ t \in Nat /\ m[t + 2] \in Nat /\ m[u + 2] \in Nat /\ 6 <= m[u + 2]
        BY <1>1
      <4> QED
        BY <1>4, <4>1, <4>2
    <3> QED
      BY <3>1, <3>2
  <2> QED
    BY <2>1, <2>2 DEF OnlyLinks
<1>5. ASSUME NEW t \in T
      PROVE  /\ m2[t] = m[t] /\ m2[t + 2] = m[t + 2]
             /\ m2[t + m[t + 2] - 1] = m[t + m[t + 2] - 1]
             /\ m2[t + m[t + 2] - 2] = m[t + m[t + 2] - 2]
  <2>1. t \in Nat /\ m[t + 2] \in Nat /\ 6 <= m[t + 2]
    BY <1>1
  <2>2. m2[t] = m[t] /\ m2[t + 2] = m[t + 2]
    BY <1>4, <2>1
  <2>3. m2[t + m[t + 2] - 1] = m[t + m[t + 2] - 1]
    BY <1>4, <2>1
  <2>4. m2[t + m[t + 2] - 2] = m[t + m[t + 2] - 2]
    BY <1>4, <2>1
  <2> QED
    BY <2>2, <2>3, <2>4
<1>6. \A t \in T \ F : Untouched(m, m2, t)
  BY <1>4 DEF Untouched
<1>7. ASSUME NEW b \in B PROVE m2[b] = m[b] /\ m2[b + 1] = m[b + 1] /\ m2[b + 2] = m[b + 2]
  <2>1. b \in Nat /\ b \in Cell /\ b + 1 \in Cell /\ b + 2 \in Cell
    BY Geometry
  <2>2. ASSUME NEW u \in F, NEW c \in {b, b + 1, b + 2} PROVE c # u + 1 /\ c # u + 3
    <3>1. u + m[u + 2] <= b \/ b + 3 <= u
      BY Geometry
    <3>2. u \in Nat /\ m[u + 2] \in Nat /\ 6 <= m[u + 2]
      BY <1>1
    <3> QED
      BY <2>1, <3>1, <3>2
  <2> QED
    BY <2>1, <2>2 DEF OnlyLinks
<1> QED
  BY <1>5, <1>6, <1>7

\* What does not depend on the links of free tags and of those in hand.
LooseLinks(m, m2, T, own, H, F) ==
  /\ F \subseteq T /\ OnlyLinks(m, m2, F)
  /\ \A t \in F : t \in H \/ m[t] = 0
  /\ \A t \in T \ H : Marked(m, own, t)

LinksKept(m, m2, B, T, own, H, F) ==
  /\ Shape(m2, B, T, own)
  /\ \A t \in T \ H : Marked(m2, own, t)
  /\ FreeIn(m2, T, H) = FreeIn(m, T, H)
  /\ \A G : G \subseteq T => \A i : ClassOf(m2, G, i) = ClassOf(m, G, i)
  /\ Frame(m, m2, T \ H) /\ \A t \in H \ F : t \in T => Untouched(m, m2, t)

LEMMA LinksKeep ==
  ASSUME NEW m, NEW m2, NEW B, NEW T, NEW own, Shape(m, B, T, own), NEW H, NEW F,
         LooseLinks(m, m2, T, own, H, F)
  PROVE  LinksKept(m, m2, B, T, own, H, F)
<1> F \subseteq T /\ OnlyLinks(m, m2, F)
  BY DEF LooseLinks
<1> (\A t \in F : t \in H \/ m[t] = 0) /\ \A t \in T \ H : Marked(m, own, t)
  BY DEF LooseLinks
<1>1. \A t \in T : /\ m2[t] = m[t] /\ m2[t + 2] = m[t + 2]
                   /\ m2[t + m[t + 2] - 1] = m[t + m[t + 2] - 1]
                   /\ m2[t + m[t + 2] - 2] = m[t + m[t + 2] - 2]
  BY LinksFrame
<1>2. \A t \in T \ F : Untouched(m, m2, t)
  BY LinksFrame
<1>3. \A b \in B : m2[b] = m[b] /\ m2[b + 1] = m[b + 1] /\ m2[b + 2] = m[b + 2]
  BY LinksFrame
<1>4. Shape(m2, B, T, own)
  <2>1. SameSizes(m, m2, B, T)
    BY <1>1, <1>3 DEF SameSizes
  <2> QED
    BY <2>1, ShapeSame
<1>5. ASSUME NEW t \in T \ H PROVE Marked(m2, own, t)
  <2>1. Marked(m, own, t)
    OBVIOUS
  <2>2. m[t] = 1 => m2[t + 3] = m[t + 3]
    <3>1. SUFFICES ASSUME m[t] = 1 PROVE m2[t + 3] = m[t + 3]
      OBVIOUS
    <3>2. t \notin F
      BY <3>1
    <3> QED
      BY <1>2, <3>2, UntouchedIs
  <2> QED
    BY <1>1, <2>1, <2>2 DEF Marked
<1>6. FreeIn(m2, T, H) = FreeIn(m, T, H)
  BY <1>1 DEF FreeIn
<1>7. \A G : G \subseteq T => \A i : ClassOf(m2, G, i) = ClassOf(m, G, i)
  BY <1>1 DEF ClassOf
<1>8. Frame(m, m2, T \ H)
  BY <1>1, <1>2 DEF Frame
<1> QED
  BY <1>2, <1>4, <1>5, <1>6, <1>7, <1>8 DEF LinksKept

\* A heap after its links were written, its buckets and perhaps what is in hand changed.
Relinked(m, m2, k2, B, T, own, F, H2, rk, rk2, lim2) ==
  /\ F \subseteq T /\ H2 \subseteq T /\ OnlyLinks(m, m2, F)
  /\ \A t \in F : t \in H2 \/ m[t] = 0
  /\ \A t \in T \ H2 : Marked(m, own, t)
  /\ Listed(m2, k2, FreeIn(m, T, H2), rk2)
  /\ Ranked(rk2, lim2) /\ \A b \in B : rk2[b] = rk[b]

LEMMA LinksHeap ==
  ASSUME NEW m, NEW k, NEW B, NEW T, NEW own, NEW H, NEW rk, NEW lim,
         Heaped(m, k, B, T, own, H, rk, lim),
         NEW m2, NEW k2, NEW F, NEW H2, NEW rk2, NEW lim2,
         Relinked(m, m2, k2, B, T, own, F, H2, rk, rk2, lim2)
  PROVE  /\ Heaped(m2, k2, B, T, own, H2, rk2, lim2)
         /\ Frame(m, m2, T \ H2) /\ \A t \in H2 \ F : Untouched(m, m2, t)
<1>1. /\ F \subseteq T /\ H2 \subseteq T /\ OnlyLinks(m, m2, F)
      /\ \A t \in F : t \in H2 \/ m[t] = 0
      /\ \A t \in T \ H2 : Marked(m, own, t)
  BY DEF Relinked
<1>2. /\ Listed(m2, k2, FreeIn(m, T, H2), rk2)
      /\ Ranked(rk2, lim2) /\ \A b \in B : rk2[b] = rk[b]
  BY DEF Relinked
<1>3. Shape(m, B, T, own) /\ BaseBlk \in B /\ Ring(m, B, m[BaseBlk + 1], 0, 1, rk)
  BY DEF Heaped
<1>4. /\ Shape(m2, B, T, own)
      /\ \A t \in T \ H2 : Marked(m2, own, t)
      /\ FreeIn(m2, T, H2) = FreeIn(m, T, H2)
      /\ Frame(m, m2, T \ H2) /\ \A t \in H2 \ F : t \in T => Untouched(m, m2, t)
  <2>1. LooseLinks(m, m2, T, own, H2, F)
    BY <1>1 DEF LooseLinks
  <2>2. LinksKept(m, m2, B, T, own, H2, F)
    BY <1>3, <2>1, LinksKeep
  <2> QED
    BY <2>2 DEF LinksKept
<1>5. \A b \in B : m2[b] = m[b] /\ m2[b + 1] = m[b + 1] /\ m2[b + 2] = m[b + 2]
  BY <1>1, <1>3, LinksFrame
<1>6. Ring(m2, B, m2[BaseBlk + 1], 0, 1, rk2)
  <2>1. \A b \in B : b \in Nat
    BY <1>3, Geometry
  <2>2. \A b \in B : m2[b + 0] = m[b + 0] /\ m2[b + 1] = m[b + 1] /\ rk2[b] = rk[b]
    BY <1>2, <1>5, <2>1
  <2>3. Ring(m2, B, m[BaseBlk + 1], 0, 1, rk2)
    BY <1>3, <2>2, RingSame
  <2> QED
    BY <1>3, <1>5, <2>3
<1>7. m2 \in Memory
  BY <1>1 DEF OnlyLinks
<1>8. Heaped(m2, k2, B, T, own, H2, rk2, lim2)
  BY <1>1, <1>2, <1>3, <1>4, <1>6, <1>7 DEF Heaped
<1> QED
  BY <1>1, <1>4, <1>8

\* What tl_pool_rm_tag writes.
Unlinked(m, k, t, i, h) ==
  /\ t = m[t + 3] => h.mem = m /\ h.bkt = [k EXCEPT ![i] = NULL]
  /\ t # m[t + 3] => /\ h.mem = [m EXCEPT ![m[t + 1] + 3] = m[t + 3], ![m[t + 3] + 1] = m[t + 1]]
                     /\ h.bkt = [k EXCEPT ![i] = IF t = k[i] THEN m[t + 3] ELSE k[i]]

LEMMA RmTagIs ==
  ASSUME NEW m \in Memory, NEW k, NEW t, NEW h, h = RmTag([mem |-> m, bkt |-> k], t)
  PROVE  Unlinked(m, k, t, Size2Idx(m[t + 2]), h)
BY DEF RmTag, NewHead, size, pre, suc, Unlinked

\* No two tags share a link.
LEMMA LinksApart ==
  ASSUME NEW m, NEW B, NEW T, NEW own, Shape(m, B, T, own), NEW x \in T, NEW y \in T
  PROVE  /\ x + 1 # y + 3 /\ x + 3 # y + 1
         /\ (x + 1 = y + 1 <=> x = y) /\ (x + 3 = y + 3 <=> x = y)
         /\ x + 1 \in Cell /\ x + 3 \in Cell
<1>1. x \in Nat /\ y \in Nat /\ m[x + 2] \in Nat /\ 6 <= m[x + 2] /\ m[y + 2] \in Nat /\ 6 <= m[y + 2]
  BY Geometry
<1>2. x # y => x + m[x + 2] <= y \/ y + m[y + 2] <= x
  BY Geometry
<1>3. x + 1 \in Cell /\ x + 3 \in Cell
  <2>1. \A c \in Int : x <= c /\ c < x + m[x + 2] => c \in Cell
    BY Geometry
  <2> QED
    BY <1>1, <2>1
<1> QED
  BY <1>1, <1>2, <1>3

\* The parts of a heap.
LEMMA HeapedIs ==
  ASSUME NEW m, NEW k, NEW B, NEW T, NEW own, NEW H, NEW rk, NEW lim,
         Heaped(m, k, B, T, own, H, rk, lim)
  PROVE  /\ m \in Memory /\ H \subseteq T /\ Shape(m, B, T, own)
         /\ \A t \in T \ H : Marked(m, own, t)
         /\ k \in [0 .. MaxIdx - 1 -> Cell \cup {NULL}]
         /\ \A t \in FreeIn(m, T, H) : /\ t \in T /\ t \notin H /\ m[t] = 0
                                       /\ Size2Idx(m[t + 2]) \in 0 .. MaxIdx - 1
         /\ \A i \in 0 .. MaxIdx - 1 : Ring(m, ClassOf(m, FreeIn(m, T, H), i), k[i], 1, 3, rk)
BY DEF Heaped, Listed, FreeIn

\* The result of tl_pool_rm_tag: the tag is in hand.
Taken(m, k, B, T, own, H, rk, lim, h, t) ==
  /\ Heaped(h.mem, h.bkt, B, T, own, H \cup {t}, rk, lim)
  /\ Frame(m, h.mem, T) /\ \A u \in H \cup {t} : Untouched(m, h.mem, u)
  /\ OnlyLinks(m, h.mem, FreeIn(m, T, H \cup {t}))

LEMMA RmTagKeeps ==
  ASSUME NEW m, NEW k, NEW B, NEW T, NEW own, NEW H, NEW rk, NEW lim,
         Heaped(m, k, B, T, own, H, rk, lim), NEW t \in FreeIn(m, T, H),
         NEW h, h = RmTag([mem |-> m, bkt |-> k], t)
  PROVE  Taken(m, k, B, T, own, H, rk, lim, h, t)
<1> DEFINE F == FreeIn(m, T, H)
           G == FreeIn(m, T, H \cup {t})
           i == Size2Idx(m[t + 2])
           p == m[t + 1]
           s == m[t + 3]
<1>1. /\ m \in Memory /\ H \subseteq T /\ Shape(m, B, T, own)
      /\ \A x \in T \ H : Marked(m, own, x)
      /\ k \in [0 .. MaxIdx - 1 -> Cell \cup {NULL}]
      /\ t \in T /\ t \notin H /\ m[t] = 0 /\ i \in 0 .. MaxIdx - 1
  BY HeapedIs
<1>2. \A j \in 0 .. MaxIdx - 1 : Ring(m, ClassOf(m, F, j), k[j], 1, 3, rk)
  BY HeapedIs
<1>3. G = F \ {t} /\ G \subseteq T /\ F \subseteq T
  BY DEF FreeIn
<1>4. \A x \in F : Size2Idx(m[x + 2]) \in 0 .. MaxIdx - 1
  BY HeapedIs
<1>5. /\ t = s => h.mem = m /\ h.bkt = [k EXCEPT ![i] = NULL]
      /\ t # s => /\ h.mem = [m EXCEPT ![p + 3] = s, ![s + 1] = p]
                  /\ h.bkt = [k EXCEPT ![i] = IF t = k[i] THEN s ELSE k[i]]
  <2>1. Unlinked(m, k, t, i, h)
    BY <1>1, RmTagIs
  <2> QED
    BY <2>1 DEF Unlinked
<1>6. t \in ClassOf(m, F, i)
  BY DEF ClassOf
<1>7. Ring(m, ClassOf(m, F, i), k[i], 1, 3, rk)
  BY <1>1, <1>2
<1>8. ClassOf(m, G, i) = ClassOf(m, F, i) \ {t} /\ \A j : j # i => ClassOf(m, G, j) = ClassOf(m, F, j)
  BY <1>3 DEF ClassOf
<1>9. /\ p \in ClassOf(m, F, i) /\ s \in ClassOf(m, F, i) /\ m[p + 3] = t /\ m[s + 1] = t
  BY <1>6, <1>7 DEF Ring
<1>10. p \in T /\ s \in T /\ p \in F /\ s \in F
  BY <1>3, <1>9 DEF ClassOf
<1>11. /\ Listed(h.mem, h.bkt, G, rk) /\ OnlyLinks(m, h.mem, G)
  <2> HIDE DEF F, G, i, p, s
  <2>1. CASE t = s
    <3>1. h.mem = m /\ h.bkt = [k EXCEPT ![i] = NULL]
      BY <1>5, <2>1
    <3>2. ClassOf(m, F, i) = {t}
      <4>1. Follows(m, t, t, 3)
        BY <2>1 DEF s, Follows
      <4> DEFINE C == ClassOf(m, F, i)
      <4>2. t \in C /\ Ring(m, C, k[i], 1, 3, rk)
        BY <1>6, <1>7
      <4> HIDE DEF C
      <4>3. Only(C, k[i], t)
        BY <4>1, <4>2, RingAlone
      <4> QED
        BY <4>3 DEF C, Only
    <3>3. ClassOf(m, G, i) = {}
      BY <1>8, <3>2
    <3>4. Ring(m, ClassOf(m, G, i), NULL, 1, 3, rk)
      BY <3>3 DEF Ring
    <3>5. ASSUME NEW j \in 0 .. MaxIdx - 1 PROVE Ring(m, ClassOf(m, G, j), h.bkt[j], 1, 3, rk)
      BY <1>1, <1>2, <1>8, <3>1, <3>4
    <3>6. h.bkt \in [0 .. MaxIdx - 1 -> Cell \cup {NULL}]
      BY <1>1, <3>1
    <3>7. OnlyLinks(m, m, G)
      BY <1>1 DEF OnlyLinks
    <3> QED
      BY <1>3, <1>4, <3>1, <3>5, <3>6, <3>7 DEF Listed
  <2>2. CASE t # s
    <3>1. h.mem = [m EXCEPT ![p + 3] = s, ![s + 1] = p]
      BY <1>5, <2>2
    <3>2. h.bkt = [k EXCEPT ![i] = IF t = k[i] THEN s ELSE k[i]]
      BY <1>5, <2>2
    <3>3. p # t
      BY <1>9, <2>2 DEF s
    <3>4. p \in G /\ s \in G
      BY <1>3, <1>10, <2>2, <3>3
    <3>5. p + 3 \in Cell /\ s + 1 \in Cell /\ p + 3 # s + 1
      BY <1>1, <1>10, LinksApart
    <3>6. \A x \in T : /\ x + 1 # p + 3 /\ x + 3 # s + 1
                       /\ (x + 1 = s + 1 <=> x = s) /\ (x + 3 = p + 3 <=> x = p)
                       /\ x + 1 \in Cell /\ x + 3 \in Cell
      BY <1>1, <1>10, LinksApart
    <3>7. ASSUME NEW x \in T PROVE h.mem[x + 3] = IF x = p THEN s ELSE m[x + 3]
      <4>1. x + 3 \in Cell /\ x + 3 # s + 1 /\ (x + 3 = p + 3 <=> x = p)
        BY <3>6
      <4> QED
        BY <1>1, <3>1, <3>5, <4>1 DEF Memory
    <3>8. ASSUME NEW x \in T PROVE h.mem[x + 1] = IF x = s THEN p ELSE m[x + 1]
      <4>1. x + 1 \in Cell /\ x + 1 # p + 3 /\ (x + 1 = s + 1 <=> x = s)
        BY <3>6
      <4> QED
        BY <1>1, <3>1, <3>5, <4>1 DEF Memory
    <3>9. OnlyLinks(m, h.mem, G)
      <4>1. p \in Int /\ s \in Int
        BY <1>1, <1>10, Geometry
      <4>2. h.mem \in Memory
        BY <1>1, <3>1, <4>1 DEF Memory
      <4>3. \A c \in Cell : c # p + 3 /\ c # s + 1 => h.mem[c] = m[c]
        BY <1>1, <3>1 DEF Memory
      <4> QED
        BY <3>4, <4>2, <4>3 DEF OnlyLinks
    <3>10. LooseLinks(m, h.mem, T, own, H \cup {t}, G)
      <4>1. \A x \in G : x \in H \cup {t} \/ m[x] = 0
        BY DEF G, FreeIn
      <4> QED
        BY <1>1, <1>3, <3>9, <4>1 DEF LooseLinks
    <3>11. LinksKept(m, h.mem, B, T, own, H \cup {t}, G)
      BY <1>1, <3>10, LinksKeep
    <3>12. \A j : ClassOf(h.mem, G, j) = ClassOf(m, G, j)
      BY <1>3, <3>11 DEF LinksKept
    <3>13. ASSUME NEW j \in 0 .. MaxIdx - 1 PROVE Ring(h.mem, ClassOf(m, G, j), h.bkt[j], 1, 3, rk)
      <4>1. CASE j = i
        <5>1. RingRemoved(m, h.mem, ClassOf(m, F, i), t, 1, 3)
          <6>1. \A x \in ClassOf(m, F, i) : x \in T
            BY <1>3 DEF ClassOf
          <6> QED
            BY <3>7, <3>8, <6>1 DEF RingRemoved, p, s
        <5>2. NULL \notin ClassOf(m, F, i)
          <6>1. \A x \in T : x # NULL
            BY <1>1, Geometry
          <6> QED
            BY <1>3, <6>1 DEF ClassOf
        <5> DEFINE first == IF t = k[i] THEN m[t + 3] ELSE k[i]
        <5>3. first = IF t = k[i] THEN m[t + 3] ELSE k[i]
          OBVIOUS
        <5> HIDE DEF first
        <5>4. t # m[t + 3]
          BY <2>2 DEF s
        <5>5. Ring(h.mem, ClassOf(m, F, i) \ {t}, first, 1, 3, rk)
          BY <1>6, <1>7, <5>1, <5>2, <5>3, <5>4, RingRemove
        <5>6. h.bkt[i] = first
          BY <1>1, <3>2, <5>3 DEF s
        <5> QED
          BY <1>8, <4>1, <5>5, <5>6
      <4>2. CASE j # i
        <5>1. h.bkt[j] = k[j]
          BY <1>1, <3>2, <4>2
        <5>2. ClassOf(m, G, j) = ClassOf(m, F, j)
          BY <1>8, <4>2
        <5>3. \A x \in ClassOf(m, F, j) : x # p /\ x # s /\ x \in T
          BY <1>3, <1>9, <4>2 DEF ClassOf
        <5>4. \A x \in ClassOf(m, F, j) : h.mem[x + 1] = m[x + 1] /\ h.mem[x + 3] = m[x + 3] /\ rk[x] = rk[x]
          BY <3>7, <3>8, <5>3
        <5>5. Ring(m, ClassOf(m, F, j), k[j], 1, 3, rk)
          BY <1>2
        <5>6. Ring(h.mem, ClassOf(m, F, j), k[j], 1, 3, rk)
          BY <5>4, <5>5, RingSame
        <5> QED
          BY <5>1, <5>2, <5>6
      <4> QED
        BY <4>1, <4>2
    <3>14. h.bkt \in [0 .. MaxIdx - 1 -> Cell \cup {NULL}]
      <4>1. \A x \in T : x + 0 \in Cell
        <5>1. \A x \in T : x \in Nat /\ m[x + 2] \in Nat /\ 6 <= m[x + 2]
          BY <1>1, Geometry
        <5>2. \A x \in T : \A c \in Int : x <= c /\ c < x + m[x + 2] => c \in Cell
          BY <1>1, Geometry
        <5> QED
          BY <5>1, <5>2
      <4>2. s \in Cell
        <5>1. s \in Nat
          BY <1>1, <1>10, Geometry
        <5> QED
          BY <1>10, <4>1, <5>1
      <4> QED
        BY <1>1, <3>2, <4>2
    <3>15. \A x \in G : h.mem[x + 2] = m[x + 2]
      BY <1>1, <1>3, <3>9, LinksFrame
    <3> QED
      BY <1>3, <1>4, <3>9, <3>12, <3>13, <3>14, <3>15 DEF Listed
  <2> QED
    BY <2>1, <2>2
<1>12. Relinked(m, h.mem, h.bkt, B, T, own, G, H \cup {t}, rk, rk, lim)
  <2>1. \A x \in G : x \in H \cup {t} \/ m[x] = 0
    BY DEF FreeIn
  <2>2. Ranked(rk, lim)
    BY DEF Heaped
  <2> HIDE DEF G
  <2>3. Listed(h.mem, h.bkt, FreeIn(m, T, H \cup {t}), rk)
    BY <1>11 DEF G
  <2> QED
    BY <1>1, <1>3, <1>11, <2>1, <2>2, <2>3 DEF Relinked
<1> HIDE DEF G
<1>13. /\ Heaped(h.mem, h.bkt, B, T, own, H \cup {t}, rk, lim)
       /\ Frame(m, h.mem, T \ (H \cup {t})) /\ \A u \in (H \cup {t}) \ G : Untouched(m, h.mem, u)
  BY <1>12, LinksHeap
<1>14. \A u \in H \cup {t} : Untouched(m, h.mem, u)
  BY <1>13 DEF G, FreeIn
<1>15. Frame(m, h.mem, T)
  <2>1. \A u \in H \cup {t} : h.mem[u] = m[u] /\ h.mem[u + 2] = m[u + 2]
    BY <1>1, <1>14, UntouchedIs
  <2> QED
    BY <1>13, <1>14, <2>1 DEF Frame
<1> QED
  BY <1>11, <1>13, <1>14, <1>15 DEF Taken, G

\* What tl_pool_add_tag writes.
Linked(m, k, t, i, h) ==
  /\ h.bkt = [k EXCEPT ![i] = t]
  /\ k[i] = NULL => h.mem = [m EXCEPT ![t + 1] = t, ![t + 3] = t]
  /\ k[i] # NULL => h.mem = [m EXCEPT ![t + 3] = k[i], ![t + 1] = m[k[i] + 1],
                                      ![m[k[i] + 1] + 3] = t, ![k[i] + 1] = t]

LEMMA AddTagIs ==
  ASSUME NEW m, NEW k, NEW t, NEW i, NEW h, h = AddTag([mem |-> m, bkt |-> k], i, t)
  PROVE  Linked(m, k, t, i, h)
BY DEF AddTag, pre, suc, Linked

\* The tags lie in the memory, apart from the blocks.
LEMMA TagsIn ==
  ASSUME NEW m, NEW B, NEW T, NEW own, Shape(m, B, T, own)
  PROVE  /\ \A x \in T : x \in Cell /\ x \in Nat /\ x # NULL
         /\ \A x \in T, b \in B : x # b
<1>1. \A x \in T : x \in Nat \ {NULL} /\ m[x + 2] \in Nat /\ 6 <= m[x + 2]
  BY Geometry
<1>2. \A x \in T : \A c \in Int : x <= c /\ c < x + m[x + 2] => c \in Cell
  BY Geometry
<1>3. ASSUME NEW x \in T, NEW b \in B PROVE x # b
  <2>1. x + m[x + 2] <= b \/ b + 3 <= x
    BY Geometry
  <2>2. b \in Nat
    BY Geometry
  <2> QED
    BY <1>1, <2>1, <2>2
<1> QED
  BY <1>1, <1>2, <1>3

\* The result of tl_pool_add_tag: the tag is not in hand any more.
RankNew(rk, t, lim) == [rk EXCEPT ![t] = lim]
Entered(m, k, B, T, own, H, rk, lim, h, t) ==
  /\ Heaped(h.mem, h.bkt, B, T, own, H \ {t}, RankNew(rk, t, lim), lim + 1)
  /\ Frame(m, h.mem, T) /\ \A u \in H \ {t} : Untouched(m, h.mem, u)
  /\ OnlyLinks(m, h.mem, FreeIn(m, T, H \ {t}))

LEMMA AddTagKeeps ==
  ASSUME NEW m, NEW k, NEW B, NEW T, NEW own, NEW H, NEW rk, NEW lim,
         Heaped(m, k, B, T, own, H, rk, lim), NEW t \in H, m[t] = 0, Marked(m, own, t),
         NEW i, i = Size2Idx(m[t + 2]), i \in 0 .. MaxIdx - 1,
         NEW h, h = AddTag([mem |-> m, bkt |-> k], i, t)
  PROVE  Entered(m, k, B, T, own, H, rk, lim, h, t)
<1> DEFINE F == FreeIn(m, T, H)
           G == FreeIn(m, T, H \ {t})
           C == ClassOf(m, F, i)
           rk2 == RankNew(rk, t, lim)
<1>1. /\ m \in Memory /\ H \subseteq T /\ Shape(m, B, T, own)
      /\ \A x \in T \ H : Marked(m, own, x)
      /\ k \in [0 .. MaxIdx - 1 -> Cell \cup {NULL}]
  BY HeapedIs
<1>2. \A j \in 0 .. MaxIdx - 1 : Ring(m, ClassOf(m, F, j), k[j], 1, 3, rk)
  BY HeapedIs
<1>3. G = F \cup {t} /\ t \notin F /\ G \subseteq T /\ F \subseteq T /\ t \in T
  BY <1>1 DEF FreeIn
<1>4. \A x \in G : Size2Idx(m[x + 2]) \in 0 .. MaxIdx - 1
  <2>1. \A x \in F : Size2Idx(m[x + 2]) \in 0 .. MaxIdx - 1
    BY HeapedIs
  <2> HIDE DEF F, G
  <2> QED
    BY <1>3, <2>1
<1>5. Linked(m, k, t, i, h)
  BY AddTagIs
<1>6. Ring(m, C, k[i], 1, 3, rk)
  BY <1>2
<1>7. ClassOf(m, G, i) = C \cup {t} /\ \A j : j # i => ClassOf(m, G, j) = ClassOf(m, F, j)
  BY <1>3 DEF ClassOf
<1>8. Ranked(rk, lim)
  BY DEF Heaped
<1>9. t \in Cell /\ t \in Nat /\ t # NULL /\ \A x \in T : x \in Cell /\ x \in Nat /\ x # NULL
  BY <1>1, <1>3, TagsIn
<1>10. /\ Ranked(rk2, lim + 1) /\ rk2[t] = lim /\ lim \in Nat
       /\ \A x \in Cell : x # t => rk2[x] = rk[x]
       /\ \A x \in Cell : rk[x] < lim
  <2>1. rk \in [Cell -> Nat] /\ lim \in Nat /\ \A x \in Cell : rk[x] < lim
    BY <1>8 DEF Ranked
  <2>2. rk2 \in [Cell -> Nat] /\ rk2[t] = lim /\ \A x \in Cell : x # t => rk2[x] = rk[x]
    BY <1>9, <2>1 DEF RankNew
  <2> HIDE DEF rk2
  <2>3. \A x \in Cell : rk2[x] < lim + 1
    <3> SUFFICES ASSUME NEW x \in Cell PROVE rk2[x] < lim + 1
      OBVIOUS
    <3>1. rk[x] \in Nat /\ rk[x] < lim
      BY <2>1
    <3>2. CASE x = t
      BY <2>1, <2>2, <3>2
    <3>3. CASE x # t
      BY <2>1, <2>2, <3>1, <3>3
    <3> QED
      BY <3>2, <3>3
  <2> QED
    BY <2>1, <2>2, <2>3 DEF Ranked
<1>11. C \subseteq F /\ C \subseteq T /\ t \notin C
  BY <1>3 DEF ClassOf
<1>12. C # {} => k[i] \in C /\ m[k[i] + 1] \in C
  BY <1>6 DEF Ring
<1>13. (C = {} <=> k[i] = NULL)
  BY <1>6 DEF Ring
<1> HIDE DEF F, G, C, rk2
<1>14. OnlyLinks(m, h.mem, G) /\ RingAdded(m, h.mem, C, k[i], t, 1, 3)
       /\ \A x \in F : x \notin C => h.mem[x + 1] = m[x + 1] /\ h.mem[x + 3] = m[x + 3]
  <2>1. t + 1 \in Cell /\ t + 3 \in Cell /\ t + 1 # t + 3
    BY <1>1, <1>3, LinksApart
  <2>2. \A x \in F : /\ x + 1 # t + 3 /\ x + 3 # t + 1 /\ x + 1 # t + 1 /\ x + 3 # t + 3
                     /\ x + 1 \in Cell /\ x + 3 \in Cell
    BY <1>1, <1>3, LinksApart
  <2>3. CASE C = {}
    <3>1. h.mem = [m EXCEPT ![t + 1] = t, ![t + 3] = t]
      BY <1>5, <1>13, <2>3 DEF Linked
    <3>2. h.mem \in Memory /\ \A c \in Cell : c # t + 1 /\ c # t + 3 => h.mem[c] = m[c]
      <4>0. t \in Int /\ m \in Memory
        BY <1>1, <1>9
      <4>1. h.mem \in Memory
        BY <3>1, <4>0 DEF Memory
      <4>2. \A c \in Cell : c # t + 1 /\ c # t + 3 => h.mem[c] = m[c]
        BY <1>1, <3>1 DEF Memory
      <4> QED
        BY <4>1, <4>2
    <3>3. OnlyLinks(m, h.mem, G)
      BY <1>3, <3>2 DEF OnlyLinks
    <3>4. h.mem[t + 1] = t /\ h.mem[t + 3] = t
      BY <1>1, <2>1, <3>1 DEF Memory
    <3>5. RingAdded(m, h.mem, C, k[i], t, 1, 3)
      BY <1>9, <2>3, <3>4 DEF RingAdded
    <3> QED
      BY <2>2, <3>2, <3>3, <3>5
  <2>4. CASE C # {}
    <3> DEFINE first == k[i]
               last == m[k[i] + 1]
    <3>1. first \in C /\ last \in C
      BY <1>12, <2>4
    <3>2. h.mem = [m EXCEPT ![t + 3] = first, ![t + 1] = last, ![last + 3] = t, ![first + 1] = t]
      BY <1>5, <1>13, <2>4 DEF Linked
    <3> HIDE DEF first, last
    <3>3. first \in T /\ last \in T /\ first \in F /\ last \in F
      BY <1>11, <3>1
    <3>4. /\ first + 1 \in Cell /\ last + 3 \in Cell /\ first + 1 # last + 3
          /\ t + 1 # first + 1 /\ t + 1 # last + 3 /\ t + 3 # first + 1 /\ t + 3 # last + 3
      <4>1. first + 1 \in Cell /\ last + 3 \in Cell /\ first + 1 # last + 3
        BY <1>1, <3>3, LinksApart
      <4> QED
        BY <2>2, <3>3, <4>1
    <3>5. \A x \in T : /\ x + 1 # last + 3 /\ x + 3 # first + 1
                       /\ (x + 1 = first + 1 <=> x = first) /\ (x + 3 = last + 3 <=> x = last)
      BY <1>1, <3>3, LinksApart
    <3>6. h.mem[t + 1] = last /\ h.mem[t + 3] = first
      BY <1>1, <2>1, <3>2, <3>4 DEF Memory
    <3>7. ASSUME NEW x \in F
          PROVE  /\ h.mem[x + 3] = IF x = last THEN t ELSE m[x + 3]
                 /\ h.mem[x + 1] = IF x = first THEN t ELSE m[x + 1]
      <4>1. /\ x + 1 # last + 3 /\ x + 3 # first + 1
            /\ (x + 1 = first + 1 <=> x = first) /\ (x + 3 = last + 3 <=> x = last)
        BY <1>3, <3>5
      <4>2. /\ x + 1 # t + 3 /\ x + 3 # t + 1 /\ x + 1 # t + 1 /\ x + 3 # t + 3
            /\ x + 1 \in Cell /\ x + 3 \in Cell
        BY <2>2
      <4>3. h.mem[x + 3] = IF x = last THEN t ELSE m[x + 3]
        BY <1>1, <2>1, <3>2, <3>4, <4>1, <4>2 DEF Memory
      <4>4. h.mem[x + 1] = IF x = first THEN t ELSE m[x + 1]
        BY <1>1, <2>1, <3>2, <3>4, <4>1, <4>2 DEF Memory
      <4> QED
        BY <4>3, <4>4
    <3>8. h.mem \in Memory /\ \A c \in Cell : c # t + 1 /\ c # t + 3 /\ c # last + 3 /\ c # first + 1
                                => h.mem[c] = m[c]
      <4>1. first \in Int /\ last \in Int
        BY <1>9, <3>3
      <4>0. t \in Int /\ m \in Memory
        BY <1>1, <1>9
      <4>2. h.mem \in Memory
        BY <3>2, <4>0, <4>1 DEF Memory
      <4>3. \A c \in Cell : c # t + 1 /\ c # t + 3 /\ c # last + 3 /\ c # first + 1 => h.mem[c] = m[c]
        BY <1>1, <3>2 DEF Memory
      <4> QED
        BY <4>2, <4>3
    <3>9. OnlyLinks(m, h.mem, G)
      <4>1. t \in G /\ first \in G /\ last \in G
        BY <1>3, <3>3
      <4> QED
        BY <3>8, <4>1 DEF OnlyLinks
    <3>10. RingAdded(m, h.mem, C, first, t, 1, 3)
      <4>1. \A x \in C : /\ h.mem[x + 3] = IF x = m[first + 1] THEN t ELSE m[x + 3]
                         /\ h.mem[x + 1] = IF x = first THEN t ELSE m[x + 1]
        BY <1>11, <3>7 DEF first, last
      <4>2. h.mem[t + 3] = first /\ h.mem[t + 1] = m[first + 1]
        BY <3>6 DEF first, last
      <4> QED
        BY <1>9, <1>11, <2>4, <4>1, <4>2 DEF RingAdded
    <3> QED
      BY <3>1, <3>7, <3>9, <3>10 DEF first
  <2> QED
    BY <2>3, <2>4
<1>15. \A x \in T : h.mem[x + 2] = m[x + 2]
  BY <1>1, <1>3, <1>14, LinksFrame
<1>16. \A j : ClassOf(h.mem, G, j) = ClassOf(m, G, j)
  BY <1>3, <1>15 DEF ClassOf
<1>17. ASSUME NEW j \in 0 .. MaxIdx - 1 PROVE Ring(h.mem, ClassOf(m, G, j), h.bkt[j], 1, 3, rk2)
  <2>1. h.bkt = [k EXCEPT ![i] = t]
    BY <1>5 DEF Linked
  <2>2. CASE j = i
    <3>1. RankAdded(C, t, rk, rk2)
      <4>1. \A x \in C : rk2[x] = rk[x] /\ rk[x] < rk2[t]
        BY <1>9, <1>10, <1>11
      <4> QED
        BY <1>10, <4>1 DEF RankAdded
    <3>2. Ring(h.mem, C \cup {t}, t, 1, 3, rk2)
      BY <1>6, <1>14, <3>1, RingAdd
    <3>3. h.bkt[j] = t
      BY <1>1, <2>1, <2>2
    <3> QED
      BY <1>7, <2>2, <3>2, <3>3
  <2>3. CASE j # i
    <3>1. \A x \in ClassOf(m, F, j) : x \in F /\ x \notin C /\ x # t /\ x \in Cell
      BY <1>3, <1>9, <2>3 DEF ClassOf, C
    <3>2. \A x \in ClassOf(m, F, j) : /\ h.mem[x + 1] = m[x + 1] /\ h.mem[x + 3] = m[x + 3]
                                      /\ rk2[x] = rk[x]
      BY <1>10, <1>14, <3>1
    <3>3. Ring(m, ClassOf(m, F, j), k[j], 1, 3, rk)
      BY <1>2
    <3>4. Ring(h.mem, ClassOf(m, F, j), k[j], 1, 3, rk2)
      BY <3>2, <3>3, RingSame
    <3>5. h.bkt[j] = k[j]
      BY <1>1, <2>1, <2>3
    <3>6. ClassOf(m, G, j) = ClassOf(m, F, j)
      BY <1>7, <2>3
    <3> QED
      BY <3>4, <3>5, <3>6
  <2> QED
    BY <2>2, <2>3
<1>18. Listed(h.mem, h.bkt, G, rk2)
  <2>1. h.bkt \in [0 .. MaxIdx - 1 -> Cell \cup {NULL}]
    BY <1>1, <1>5, <1>9 DEF Linked
  <2>2. \A x \in G : Size2Idx(h.mem[x + 2]) \in 0 .. MaxIdx - 1
    BY <1>3, <1>4, <1>15
  <2> QED
    BY <1>16, <1>17, <2>1, <2>2 DEF Listed
<1>19. Relinked(m, h.mem, h.bkt, B, T, own, G, H \ {t}, rk, rk2, lim + 1)
  <2>1. \A x \in G : x \in H \ {t} \/ m[x] = 0
    BY DEF FreeIn, G
  <2>2. \A b \in B : rk2[b] = rk[b]
    <3>1. \A b \in B : b # t /\ b \in Cell
      BY <1>1, <1>3, TagsIn, Geometry
    <3> QED
      BY <1>10, <3>1
  <2>3. Listed(h.mem, h.bkt, FreeIn(m, T, H \ {t}), rk2)
    BY <1>18 DEF G
  <2>4. \A x \in T \ (H \ {t}) : Marked(m, own, x)
    BY <1>1
  <2>5. H \ {t} \subseteq T
    BY <1>1
  <2> QED
    BY <1>3, <1>10, <1>14, <2>1, <2>2, <2>3, <2>4, <2>5 DEF Relinked
<1>20. /\ Heaped(h.mem, h.bkt, B, T, own, H \ {t}, rk2, lim + 1)
       /\ Frame(m, h.mem, T \ (H \ {t})) /\ \A u \in (H \ {t}) \ G : Untouched(m, h.mem, u)
  BY <1>19, LinksHeap
<1>21. \A u \in H \ {t} : Untouched(m, h.mem, u)
  BY <1>20 DEF G, FreeIn
<1>22. Frame(m, h.mem, T)
  <2>1. \A u \in H \ {t} : h.mem[u] = m[u] /\ h.mem[u + 2] = m[u + 2]
    BY <1>1, <1>21, UntouchedIs
  <2> QED
    BY <1>20, <1>21, <2>1 DEF Frame
<1> QED
  BY <1>14, <1>20, <1>21, <1>22 DEF Entered, G, rk2

(* Writes in tags in hand, and in blocks. *)

\* A heap after tags not in a bucket and blocks changed: those that are not in
\* hand either are as they were, or newly in use.
Rebuilt(m, m2, T, own, H, B2, T2, own2, H2, rk, rk2, lim2) ==
  /\ m2 \in Memory /\ H2 \subseteq T2 /\ Shape(m2, B2, T2, own2)
  /\ T \ H \subseteq T2 \ H2
  /\ \A u \in T \ H : own2[u] = own[u] /\ Untouched(m, m2, u) /\ rk2[u] = rk[u]
  /\ \A u \in T2 \ H2 : u \notin T \ H => m2[u] = 1 /\ Marked(m2, own2, u)
  /\ BaseBlk \in B2 /\ Ring(m2, B2, m2[BaseBlk + 1], 0, 1, rk2)
  /\ Ranked(rk2, lim2)

LEMMA RebuiltHeap ==
  ASSUME NEW m, NEW k, NEW B, NEW T, NEW own, NEW H, NEW rk, NEW lim,
         Heaped(m, k, B, T, own, H, rk, lim),
         NEW m2, NEW B2, NEW T2, NEW own2, NEW H2, NEW rk2, NEW lim2,
         Rebuilt(m, m2, T, own, H, B2, T2, own2, H2, rk, rk2, lim2)
  PROVE  /\ Heaped(m2, k, B2, T2, own2, H2, rk2, lim2) /\ Frame(m, m2, T \ H)
         /\ FreeIn(m2, T2, H2) = FreeIn(m, T, H)
<1> DEFINE F == FreeIn(m, T, H)
<1>1. /\ m2 \in Memory /\ H2 \subseteq T2 /\ Shape(m2, B2, T2, own2) /\ T \ H \subseteq T2 \ H2
      /\ \A u \in T \ H : own2[u] = own[u] /\ Untouched(m, m2, u) /\ rk2[u] = rk[u]
      /\ \A u \in T2 \ H2 : u \notin T \ H => m2[u] = 1 /\ Marked(m2, own2, u)
  BY DEF Rebuilt
<1>2. /\ BaseBlk \in B2 /\ Ring(m2, B2, m2[BaseBlk + 1], 0, 1, rk2) /\ Ranked(rk2, lim2)
  BY DEF Rebuilt
<1>3. /\ m \in Memory /\ Shape(m, B, T, own) /\ \A t \in T \ H : Marked(m, own, t)
      /\ k \in [0 .. MaxIdx - 1 -> Cell \cup {NULL}]
  BY HeapedIs
<1>4. \A i \in 0 .. MaxIdx - 1 : Ring(m, ClassOf(m, F, i), k[i], 1, 3, rk)
  BY HeapedIs
<1>5. \A t \in F : t \in T \ H /\ Size2Idx(m[t + 2]) \in 0 .. MaxIdx - 1
  BY HeapedIs
<1>6. \A u \in T \ H : /\ m2[u] = m[u] /\ m2[u + 1] = m[u + 1] /\ m2[u + 2] = m[u + 2] /\ m2[u + 3] = m[u + 3]
                       /\ m2[u + m[u + 2] - 1] = m[u + m[u + 2] - 1]
                       /\ m2[u + m[u + 2] - 2] = m[u + m[u + 2] - 2]
  BY <1>1, <1>3, UntouchedIs
<1>7. ASSUME NEW t \in T2 \ H2 PROVE Marked(m2, own2, t)
  <2>1. CASE t \in T \ H
    BY <1>1, <1>3, <1>6, <2>1 DEF Marked
  <2> QED
    BY <1>1, <2>1
<1>8. FreeIn(m2, T2, H2) = F
  BY <1>1, <1>6 DEF FreeIn
<1> HIDE DEF F
<1>9. \A i : ClassOf(m2, F, i) = ClassOf(m, F, i) /\ ClassOf(m, F, i) \subseteq F
  BY <1>5, <1>6 DEF ClassOf
<1>10. ASSUME NEW i \in 0 .. MaxIdx - 1 PROVE Ring(m2, ClassOf(m, F, i), k[i], 1, 3, rk2)
  <2>1. \A x \in ClassOf(m, F, i) : m2[x + 1] = m[x + 1] /\ m2[x + 3] = m[x + 3] /\ rk2[x] = rk[x]
    BY <1>1, <1>5, <1>6, <1>9
  <2>2. Ring(m, ClassOf(m, F, i), k[i], 1, 3, rk)
    BY <1>4
  <2> QED
    BY <2>1, <2>2, RingSame
<1>11. Listed(m2, k, F, rk2)
  BY <1>3, <1>5, <1>6, <1>9, <1>10 DEF Listed
<1>12. Heaped(m2, k, B2, T2, own2, H2, rk2, lim2)
  BY <1>1, <1>2, <1>7, <1>8, <1>11 DEF Heaped
<1>13. Frame(m, m2, T \ H)
  BY <1>1, <1>6 DEF Frame
<1> QED
  BY <1>8, <1>12, <1>13 DEF F

\* Only words of the tag t are written.
Within(m, m2, t) ==
  /\ m2 \in Memory
  /\ \A c \in Cell : c < t \/ t + m[t + 2] <= c => m2[c] = m[c]

LEMMA WithinTag ==
  ASSUME NEW m, NEW m2, NEW B, NEW T, NEW own, Shape(m, B, T, own), NEW t \in T, Within(m, m2, t)
  PROVE  /\ \A u \in T : u # t => Untouched(m, m2, u) /\ m2[u + 2] = m[u + 2]
         /\ \A b \in B : m2[b] = m[b] /\ m2[b + 1] = m[b + 1] /\ m2[b + 2] = m[b + 2]
<1>1. \A u \in T : u \in Nat /\ m[u + 2] \in Nat /\ 6 <= m[u + 2]
  BY Geometry
<1>2. \A u \in T : t # u => t + m[t + 2] <= u \/ u + m[u + 2] <= t
  BY Geometry
<1>3. \A u \in T : \A c \in Int : u <= c /\ c < u + m[u + 2] => c \in Cell
  BY Geometry
<1>4. ASSUME NEW u \in T, u # t PROVE Untouched(m, m2, u)
  <2> SUFFICES ASSUME NEW c \in Int, u <= c, c < u + m[u + 2] PROVE m2[c] = m[c]
    BY DEF Untouched
  <2>1. c \in Cell
    BY <1>3
  <2>2. t + m[t + 2] <= u \/ u + m[u + 2] <= t
    BY <1>2, <1>4
  <2>3. c < t \/ t + m[t + 2] <= c
    BY <1>1, <2>2
  <2> QED
    BY <2>1, <2>3 DEF Within
<1>5. ASSUME NEW b \in B PROVE m2[b] = m[b] /\ m2[b + 1] = m[b + 1] /\ m2[b + 2] = m[b + 2]
  <2>1. b \in Nat /\ b \in Cell /\ b + 1 \in Cell /\ b + 2 \in Cell
    BY Geometry
  <2>2. t + m[t + 2] <= b \/ b + 3 <= t
    BY Geometry
  <2>3. \A c \in {b, b + 1, b + 2} : c < t \/ t + m[t + 2] <= c
    BY <1>1, <2>1, <2>2
  <2> QED
    BY <2>1, <2>3 DEF Within
<1>6. \A u \in T : u # t => m2[u + 2] = m[u + 2]
  BY <1>4, UntouchedIs
<1> QED
  BY <1>4, <1>5, <1>6

\* Words of a tag in hand are written, its size not.
HandStep(m, m2, own, t, H, H2) ==
  /\ Within(m, m2, t) /\ m2[t + 2] = m[t + 2]
  /\ H2 = H \/ (H2 = H \ {t} /\ m2[t] = 1 /\ Marked(m2, own, t))

HeadersSame(m, m2, B) == \A b \in B : m2[b] = m[b] /\ m2[b + 1] = m[b + 1] /\ m2[b + 2] = m[b + 2]

HandWritten(m, m2, B, T, H, t) ==
  /\ Frame(m, m2, T \ H) /\ \A u \in H \ {t} : Untouched(m, m2, u)
  /\ \A u \in T : m2[u + 2] = m[u + 2]
  /\ HeadersSame(m, m2, B)

LEMMA LinksHeaders ==
  ASSUME NEW m, NEW m2, NEW B, NEW T, NEW own, Shape(m, B, T, own), NEW F, F \subseteq T,
         OnlyLinks(m, m2, F)
  PROVE  HeadersSame(m, m2, B)
BY LinksFrame DEF HeadersSame

LEMMA HandWrite ==
  ASSUME NEW m, NEW k, NEW B, NEW T, NEW own, NEW H, NEW rk, NEW lim,
         Heaped(m, k, B, T, own, H, rk, lim), NEW t \in H,
         NEW m2, NEW H2, HandStep(m, m2, own, t, H, H2)
  PROVE  Heaped(m2, k, B, T, own, H2, rk, lim) /\ HandWritten(m, m2, B, T, H, t)
<1> Within(m, m2, t) /\ m2[t + 2] = m[t + 2]
  BY DEF HandStep
<1> H2 = H \/ (H2 = H \ {t} /\ m2[t] = 1 /\ Marked(m2, own, t))
  BY DEF HandStep
<1>1. Shape(m, B, T, own) /\ H \subseteq T /\ t \in T
  BY DEF Heaped
<1>2. BaseBlk \in B /\ Ring(m, B, m[BaseBlk + 1], 0, 1, rk) /\ Ranked(rk, lim)
  BY DEF Heaped
<1>3. \A u \in T : u # t => Untouched(m, m2, u) /\ m2[u + 2] = m[u + 2]
  BY <1>1, WithinTag
<1>4. \A b \in B : m2[b] = m[b] /\ m2[b + 1] = m[b + 1] /\ m2[b + 2] = m[b + 2]
  BY <1>1, WithinTag
<1>5. Shape(m2, B, T, own)
  <2>1. SameSizes(m, m2, B, T)
    BY <1>3, <1>4 DEF SameSizes
  <2> QED
    BY <1>1, <2>1, ShapeSame
<1>6. Ring(m2, B, m2[BaseBlk + 1], 0, 1, rk)
  <2>1. \A b \in B : b \in Nat
    BY <1>1, Geometry
  <2>2. \A b \in B : m2[b + 0] = m[b + 0] /\ m2[b + 1] = m[b + 1] /\ rk[b] = rk[b]
    BY <1>4, <2>1
  <2>3. Ring(m2, B, m[BaseBlk + 1], 0, 1, rk)
    BY <1>2, <2>2, RingSame
  <2> QED
    BY <1>2, <1>4, <2>3
<1>7. Rebuilt(m, m2, T, own, H, B, T, own, H2, rk, rk, lim)
  <2>1. m2 \in Memory
    BY DEF Within
  <2>2. H2 \subseteq T /\ T \ H \subseteq T \ H2
    BY <1>1
  <2>3. \A u \in T \ H : Untouched(m, m2, u)
    BY <1>3
  <2>4. \A u \in T \ H2 : u \notin T \ H => m2[u] = 1 /\ Marked(m2, own, u)
    OBVIOUS
  <2> QED
    BY <1>2, <1>5, <1>6, <2>1, <2>2, <2>3, <2>4 DEF Rebuilt
<1>8. Heaped(m2, k, B, T, own, H2, rk, lim) /\ Frame(m, m2, T \ H)
  BY <1>7, RebuiltHeap
<1>9. HeadersSame(m, m2, B)
  BY <1>4 DEF HeadersSame
<1>10. \A u \in T : m2[u + 2] = m[u + 2]
  BY <1>3
<1>11. \A u \in H \ {t} : Untouched(m, m2, u)
  BY <1>1, <1>3
<1> QED
  BY <1>8, <1>9, <1>10, <1>11 DEF HandWritten

\* What PutFree writes before the tag enters its bucket.
Freed(m, m1, t, b) ==
  m1 = [Fill(m, t + 4, t + m[t + 2] - 3, Junk)
          EXCEPT ![t] = 0, ![t + m[t + 2] - 1] = t, ![t + m[t + 2] - 2] = b]

LEMMA PutFreeIs ==
  ASSUME NEW m, NEW k, NEW t, NEW b, m[t + 2] \in Nat, t \in Nat
  PROVE  \E m1 : /\ Freed(m, m1, t, b)
                 /\ PutFree([mem |-> m, bkt |-> k], t, b)
                      = AddTag([mem |-> m1, bkt |-> k], Size2Idx(m1[t + 2]), t)
<1> DEFINE f == foot(m, t)
           m1 == [Fill(m, t + HeadS, f - 1, Junk) EXCEPT ![use(t)] = 0, ![ref(f)] = t, ![t_blk(f)] = b]
           h == [mem |-> m, bkt |-> k]
<1>1. f = t + m[t + 2] - 2
  BY DEF foot, size, TailS
<1>2. f - 1 = t + m[t + 2] - 3 /\ ref(f) = t + m[t + 2] - 1
  BY <1>1 DEF ref
<1>3. Freed(m, m1, t, b)
  BY <1>1, <1>2 DEF Freed, HeadS, use, t_blk
<1>4. PutFree(h, t, b) = AddTag([h EXCEPT !.mem = m1], Size2Idx(m1[size(t)]), t)
  BY DEF PutFree
<1> HIDE DEF m1
<1>5. [h EXCEPT !.mem = m1] = [mem |-> m1, bkt |-> k]
  OBVIOUS
<1>6. PutFree(h, t, b) = AddTag([mem |-> m1, bkt |-> k], Size2Idx(m1[t + 2]), t)
  BY <1>4, <1>5 DEF size
<1> QED
  BY <1>3, <1>6

LEMMA FreedIs ==
  ASSUME NEW m \in Memory, NEW B, NEW T, NEW own, Shape(m, B, T, own), NEW t \in T, NEW b \in Int,
         NEW m1, Freed(m, m1, t, b)
  PROVE  /\ Within(m, m1, t) /\ m1[t] = 0 /\ m1[t + 2] = m[t + 2]
         /\ m1[t + m[t + 2] - 1] = t /\ m1[t + m[t + 2] - 2] = b
<1> DEFINE n == m[t + 2]
<1>1. t \in Nat /\ n \in Nat /\ 6 <= n
  BY Geometry
<1>2. \A c \in Int : t <= c /\ c < t + n => c \in Cell
  BY Geometry
<1>3. m1 = [Fill(m, t + 4, t + n - 3, Junk) EXCEPT ![t] = 0, ![t + n - 1] = t, ![t + n - 2] = b]
  BY DEF Freed
<1> HIDE DEF n
<1> DEFINE g == Fill(m, t + 4, t + n - 3, Junk)
<1>4. g = [a \in Cell |-> IF a \in t + 4 .. t + n - 3 THEN Junk ELSE m[a]]
  BY DEF Fill
<1>5. Cell \subseteq Nat
  BY Rooms
<1>6. g \in [Cell -> Int]
  <2>1. \A a \in Cell : m[a] \in Int
    BY DEF Memory
  <2> QED
    BY <1>4, <2>1 DEF Junk
<1>7. \A a \in Cell : a < t + 4 \/ t + n - 3 < a => g[a] = m[a]
  BY <1>1, <1>4, <1>5
<1> HIDE DEF g
<1>8. t \in Cell /\ t + n - 1 \in Cell /\ t + n - 2 \in Cell /\ t + 2 \in Cell
  BY <1>1, <1>2
<1>9. m1 = [g EXCEPT ![t] = 0, ![t + n - 1] = t, ![t + n - 2] = b]
  BY <1>3 DEF g
<1>10. m1 \in Memory
  <2>1. t \in Int
    BY <1>1
  <2> DEFINE x == t + n - 1
             y == t + n - 2
  <2>2. m1 = [g EXCEPT ![t] = 0, ![x] = t, ![y] = b]
    BY <1>9
  <2> DEFINE g1 == [g EXCEPT ![t] = 0]
             g2 == [g1 EXCEPT ![x] = t]
  <2> HIDE DEF x, y
  <2>3. m1 = [g2 EXCEPT ![y] = b]
    BY <2>2
  <2>4. g1 \in [Cell -> Int]
    BY <1>6, <1>8
  <2> HIDE DEF g1
  <2>5. g2 \in [Cell -> Int]
    BY <2>1, <2>4
  <2> HIDE DEF g2
  <2> QED
    BY <2>3, <2>5 DEF Memory
<1>11. m1[t] = 0 /\ m1[t + n - 1] = t /\ m1[t + n - 2] = b
  BY <1>1, <1>6, <1>8, <1>9
<1>12. m1[t + 2] = m[t + 2]
  <2>1. t + 2 # t /\ t + 2 # t + n - 1 /\ t + 2 # t + n - 2
    BY <1>1
  <2>2. m1[t + 2] = g[t + 2]
    BY <1>6, <1>8, <1>9, <2>1
  <2> QED
    BY <1>1, <1>7, <1>8, <2>2
<1>13. ASSUME NEW c \in Cell, c < t \/ t + n <= c PROVE m1[c] = m[c]
  <2>1. c \in Nat
    BY <1>5
  <2>2. c # t /\ c # t + n - 1 /\ c # t + n - 2 /\ (c < t + 4 \/ t + n - 3 < c)
    BY <1>1, <1>13, <2>1
  <2>3. m1[c] = g[c]
    BY <1>6, <1>8, <1>9, <2>2
  <2> QED
    BY <1>7, <2>2, <2>3
<1>14. Within(m, m1, t)
  BY <1>10, <1>13 DEF Within, n
<1> QED
  BY <1>11, <1>12, <1>14 DEF n

\* The result of putting a tag back.
GivenBack(m, B, T, own, H, rk, lim, h, t) ==
  /\ Heaped(h.mem, h.bkt, B, T, own, H \ {t}, RankNew(rk, t, lim), lim + 1)
  /\ Frame(m, h.mem, T \ H) /\ \A u \in H \ {t} : Untouched(m, h.mem, u)
  /\ h.mem[t] = 0 /\ (\A u \in T : h.mem[u + 2] = m[u + 2]) /\ HeadersSame(m, h.mem, B)

LEMMA PutFreeKeeps ==
  ASSUME NEW m, NEW k, NEW B, NEW T, NEW own, NEW H, NEW rk, NEW lim,
         Heaped(m, k, B, T, own, H, rk, lim), NEW t \in H,
         Size2Idx(m[t + 2]) \in 0 .. MaxIdx - 1,
         NEW h, h = PutFree([mem |-> m, bkt |-> k], t, own[t])
  PROVE  GivenBack(m, B, T, own, H, rk, lim, h, t)
<1>1. m \in Memory /\ Shape(m, B, T, own) /\ H \subseteq T /\ t \in T
  BY DEF Heaped
<1>2. t \in Nat /\ m[t + 2] \in Nat
  BY <1>1, Geometry
<1>3. PICK m1 : /\ Freed(m, m1, t, own[t])
                /\ h = AddTag([mem |-> m1, bkt |-> k], Size2Idx(m1[t + 2]), t)
  BY <1>2, PutFreeIs
<1>4. own[t] \in Int
  <2>1. own[t] \in B
    BY <1>1 DEF Shape
  <2> QED
    BY <1>1, <2>1, Geometry
<1>5. /\ Within(m, m1, t) /\ m1[t] = 0 /\ m1[t + 2] = m[t + 2]
      /\ m1[t + m[t + 2] - 1] = t /\ m1[t + m[t + 2] - 2] = own[t]
  BY <1>1, <1>3, <1>4, FreedIs
<1>6. /\ Heaped(m1, k, B, T, own, H, rk, lim) /\ Frame(m, m1, T \ H)
      /\ \A u \in H \ {t} : Untouched(m, m1, u)
      /\ \A u \in T : m1[u + 2] = m[u + 2]
      /\ HeadersSame(m, m1, B)
  <2>1. HandStep(m, m1, own, t, H, H)
    BY <1>5 DEF HandStep
  <2>2. Heaped(m1, k, B, T, own, H, rk, lim) /\ HandWritten(m, m1, B, T, H, t)
    BY <2>1, HandWrite
  <2> QED
    BY <2>2 DEF HandWritten
<1>7. Marked(m1, own, t)
  BY <1>5 DEF Marked
<1>8. Entered(m1, k, B, T, own, H, rk, lim, h, t)
  <2>1. Size2Idx(m1[t + 2]) \in 0 .. MaxIdx - 1
    BY <1>5
  <2> QED
    BY <1>3, <1>5, <1>6, <1>7, <2>1, AddTagKeeps
<1>9. /\ Heaped(h.mem, h.bkt, B, T, own, H \ {t}, RankNew(rk, t, lim), lim + 1)
      /\ Frame(m1, h.mem, T) /\ \A u \in H \ {t} : Untouched(m1, h.mem, u)
      /\ OnlyLinks(m1, h.mem, FreeIn(m1, T, H \ {t}))
  BY <1>8 DEF Entered
<1>10. Frame(m, h.mem, T \ H)
  <2>1. Frame(m1, h.mem, T \ H)
    BY <1>9 DEF Frame
  <2> QED
    BY <1>6, <2>1, FrameTrans
<1>11. ASSUME NEW u \in H \ {t} PROVE Untouched(m, h.mem, u)
  <2>1. Untouched(m, m1, u) /\ Untouched(m1, h.mem, u) /\ m1[u + 2] = m[u + 2]
    BY <1>1, <1>6, <1>9
  <2> QED
    BY <2>1 DEF Untouched
<1>12. h.mem[t] = 0 /\ \A u \in T : h.mem[u + 2] = m[u + 2]
  BY <1>1, <1>5, <1>6, <1>9 DEF Frame
<1>13. HeadersSame(m, h.mem, B)
  <2>2. Shape(m1, B, T, own)
    BY <1>6 DEF Heaped
  <2> DEFINE F == FreeIn(m1, T, H \ {t})
  <2>3. F \subseteq T /\ OnlyLinks(m1, h.mem, F)
    BY <1>9 DEF FreeIn
  <2> HIDE DEF F
  <2>4. HeadersSame(m1, h.mem, B)
    BY <2>2, <2>3, LinksHeaders
  <2> QED
    BY <1>6, <2>4 DEF HeadersSame
<1> QED
  BY <1>9, <1>10, <1>11, <1>12, <1>13 DEF GivenBack

\* The first words of the tag t that TagAlloc writes.
TakenMem(m1, ma, t, blk, taken) ==
  ma = [m1 EXCEPT ![t + 2] = taken, ![t] = 1, ![t + 3] = blk, ![t + taken - 1] = t]

LEMMA RmTagHeap ==
  ASSUME NEW m, NEW k, NEW t, NEW h, h = RmTag([mem |-> m, bkt |-> k], t), NEW x
  PROVE  [h EXCEPT !.mem = x] = [mem |-> x, bkt |-> h.bkt]
<1> DEFINE h0 == [mem |-> m, bkt |-> k]
<1>1. CASE t = h0.mem[suc(t)]
  <2>1. PICK i : h = [h0 EXCEPT !.bkt[i] = NULL]
    BY <1>1 DEF RmTag
  <2> QED
    BY <2>1
<1>2. CASE t # h0.mem[suc(t)]
  <2>1. PICK y, z : h = [bkt |-> y, mem |-> z]
    BY <1>2 DEF RmTag
  <2> QED
    BY <2>1
<1> QED
  BY <1>1, <1>2

\* TagAlloc when nothing is left, and when a tag is.
AllocWrites(m, t, n, h1, r) ==
  /\ ~(m[t + 2] - n > 6) =>
       /\ r.taken = m[t + 2] /\ r.heap.bkt = h1.bkt
       /\ TakenMem(h1.mem, r.heap.mem, t, h1.mem[t + m[t + 2] - 2], r.taken)
  /\ m[t + 2] - n > 6 =>
       /\ r.taken = n
       /\ \E ma : /\ TakenMem(h1.mem, ma, t, h1.mem[t + m[t + 2] - 2], n)
                  /\ r.heap = PutFree([mem |-> [ma EXCEPT ![t + n + 2] = m[t + 2] - n], bkt |-> h1.bkt],
                                      t + n, h1.mem[t + m[t + 2] - 2])

LEMMA TagAllocIs ==
  ASSUME NEW m, NEW k, NEW t \in Nat, NEW n \in Nat, m[t + 2] \in Nat,
         NEW h1, h1 = RmTag([mem |-> m, bkt |-> k], t),
         NEW r, r = TagAlloc([mem |-> m, bkt |-> k], t, n)
  PROVE  AllocWrites(m, t, n, h1, r)
<1> DEFINE raw == m[t + 2]
           rest == raw - n
           blk == h1.mem[t + raw - 2]
           h0 == [mem |-> m, bkt |-> k]
           taken == IF rest > 6 THEN n ELSE raw
           ma == [h1.mem EXCEPT ![t + 2] = taken, ![t] = 1, ![t + 3] = blk, ![t + taken - 2 + 1] = t]
           nt == t + n
           mb == [ma EXCEPT ![nt + 2] = rest]
           heap == IF rest > 6 THEN PutFree([h1 EXCEPT !.mem = mb], nt, blk) ELSE [h1 EXCEPT !.mem = ma]
<1>1. r = [heap |-> heap, taken |-> taken]
  BY DEF TagAlloc, foot, size, use, h_blk, t_blk, ref, Splits, TailS, ThreshS, HeadS
<1>2. taken \in Nat /\ t + taken - 2 + 1 = t + taken - 1
  OBVIOUS
<1>3. TakenMem(h1.mem, ma, t, blk, taken)
  BY <1>2 DEF TakenMem
<1>4. [h1 EXCEPT !.mem = mb] = [mem |-> mb, bkt |-> h1.bkt] /\ [h1 EXCEPT !.mem = ma] = [mem |-> ma, bkt |-> h1.bkt]
  BY RmTagHeap
<1>5. CASE ~(rest > 6)
  <2>1. taken = raw
    BY <1>5
  <2>2. heap = [h1 EXCEPT !.mem = ma]
    BY <1>5
  <2> HIDE DEF ma, mb, taken, heap
  <2>3. r.heap.mem = ma /\ r.heap.bkt = h1.bkt /\ r.taken = raw
    <3>1. heap = [mem |-> ma, bkt |-> h1.bkt]
      BY <1>4, <2>2, Zenon
    <3>2. r.heap = heap /\ r.taken = raw
      BY <1>1, <2>1
    <3> QED
      BY <3>1, <3>2
  <2> QED
    BY <1>3, <1>5, <2>1, <2>3 DEF AllocWrites
<1>6. CASE rest > 6
  <2>1. taken = n
    BY <1>6
  <2>2. heap = PutFree([h1 EXCEPT !.mem = mb], nt, blk)
    BY <1>6
  <2>3. mb = [ma EXCEPT ![t + n + 2] = rest]
    OBVIOUS
  <2> HIDE DEF ma, mb, taken, heap
  <2>4. r.heap = heap /\ r.taken = n
    BY <1>1, <2>1
  <2>5. r.heap = PutFree([mem |-> [ma EXCEPT ![t + n + 2] = rest], bkt |-> h1.bkt], t + n, blk)
    BY <1>4, <2>2, <2>3, <2>4
  <2>6. TakenMem(h1.mem, ma, t, blk, n)
    BY <1>3, <2>1
  <2> QED
    BY <1>6, <2>4, <2>5, <2>6 DEF AllocWrites
<1> QED
  BY <1>5, <1>6

LEMMA TakenMemIs ==
  ASSUME NEW m \in Memory, NEW B, NEW T, NEW own, Shape(m, B, T, own), NEW t \in T,
         NEW blk \in Int, NEW n \in Nat, 6 <= n, n <= m[t + 2], NEW ma, TakenMem(m, ma, t, blk, n)
  PROVE  /\ Within(m, ma, t) /\ ma[t] = 1 /\ ma[t + 2] = n /\ ma[t + 3] = blk /\ ma[t + n - 1] = t
<1>1. t \in Nat /\ m[t + 2] \in Nat /\ 6 <= m[t + 2]
  BY Geometry
<1>2. \A c \in Int : t <= c /\ c < t + m[t + 2] => c \in Cell
  BY Geometry
<1>3. t \in Cell /\ t + 2 \in Cell /\ t + 3 \in Cell /\ t + n - 1 \in Cell
  BY <1>1, <1>2
<1>4. Cell \subseteq Nat /\ m \in [Cell -> Int]
  BY Rooms DEF Memory
<1> DEFINE z == t + n - 1
           g1 == [m EXCEPT ![t + 2] = n]
           g2 == [g1 EXCEPT ![t] = 1]
           g3 == [g2 EXCEPT ![t + 3] = blk]
<1>5. z # t /\ z # t + 2 /\ z # t + 3 /\ t + 3 # t /\ t + 3 # t + 2 /\ t # t + 2
  BY <1>1
<1>6. ma = [g3 EXCEPT ![z] = t]
  BY DEF TakenMem
<1>7. g1 \in [Cell -> Int] /\ g1[t + 2] = n /\ \A c \in Cell : c # t + 2 => g1[c] = m[c]
  BY <1>3, <1>4
<1> HIDE DEF g1
<1>8. g2 \in [Cell -> Int] /\ g2[t] = 1 /\ \A c \in Cell : c # t => g2[c] = g1[c]
  BY <1>3, <1>7
<1> HIDE DEF g2
<1>9. g3 \in [Cell -> Int] /\ g3[t + 3] = blk /\ \A c \in Cell : c # t + 3 => g3[c] = g2[c]
  BY <1>3, <1>8
<1> HIDE DEF g3
<1>10. z \in Cell
  BY <1>3
<1> HIDE DEF z
<1>11. ma \in [Cell -> Int] /\ ma[z] = t /\ \A c \in Cell : c # z => ma[c] = g3[c]
  BY <1>1, <1>6, <1>9, <1>10
<1>12. ma[t] = 1 /\ ma[t + 2] = n /\ ma[t + 3] = blk
  BY <1>3, <1>5, <1>7, <1>8, <1>9, <1>11
<1>13. ASSUME NEW c \in Cell, c < t \/ t + m[t + 2] <= c PROVE ma[c] = m[c]
  <2>1. c # t /\ c # t + 2 /\ c # t + 3 /\ c # z
    BY <1>1, <1>4, <1>13 DEF z
  <2> QED
    BY <1>7, <1>8, <1>9, <1>11, <2>1
<1>14. Within(m, ma, t)
  BY <1>11, <1>13 DEF Within, Memory
<1> QED
  BY <1>11, <1>12, <1>14 DEF z

\* A tag t of the heap m has been given to a request of n words and is in hand;
\* what was left of it may be a tag.
GrantedTag(m, mm, own, own2, t, n, taken) ==
  /\ mm[t] = 1 /\ mm[t + 2] = taken /\ mm[t + 3] = own[t] /\ mm[t + taken - 1] = t
  /\ own2[t] = own[t] /\ taken \in Nat /\ n <= taken /\ taken <= m[t + 2]

GrantedRest(m, mm, T, own, t, n, taken, T2, own2) ==
  \/ T2 = T /\ own2 = own /\ taken = m[t + 2]
  \/ /\ taken = n /\ T2 = T \cup {t + n} /\ t + n \notin T
     /\ own2 = [u \in T \cup {t + n} |-> IF u = t + n THEN own[t] ELSE own[u]]
     /\ mm[t + n] = 0 /\ mm[t + n + 2] = m[t + 2] - n

Granted(m, B, T, own, t, n, r, T2, own2, rk2, lim2) ==
  /\ Heaped(r.heap.mem, r.heap.bkt, B, T2, own2, {t}, rk2, lim2)
  /\ Frame(m, r.heap.mem, T \ {t}) /\ HeadersSame(m, r.heap.mem, B)
  /\ GrantedTag(m, r.heap.mem, own, own2, t, n, r.taken)
  /\ GrantedRest(m, r.heap.mem, T, own, t, n, r.taken, T2, own2)

LEMMA TagAllocKeeps ==
  ASSUME NEW m, NEW k, NEW B, NEW T, NEW own, NEW rk, NEW lim,
         Heaped(m, k, B, T, own, {}, rk, lim), NEW t \in FreeIn(m, T, {}),
         NEW n \in Nat, 6 <= n, n <= m[t + 2],
         NEW r, r = TagAlloc([mem |-> m, bkt |-> k], t, n)
  PROVE  \E T2, own2, rk2, lim2 : Granted(m, B, T, own, t, n, r, T2, own2, rk2, lim2)
<1> DEFINE raw == m[t + 2]
           blk == own[t]
           h1 == RmTag([mem |-> m, bkt |-> k], t)
           m1 == h1.mem
           k1 == h1.bkt
<1>1. m \in Memory /\ Shape(m, B, T, own) /\ \A x \in T : Marked(m, own, x)
  BY HeapedIs
<1>2. t \in T /\ m[t] = 0 /\ Size2Idx(raw) \in 0 .. MaxIdx - 1
  BY HeapedIs
<1>3. t \in Nat /\ raw \in Nat /\ 6 <= raw
  BY <1>1, <1>2, Geometry
<1>4. blk \in B /\ blk \in Int
  <2>1. blk \in B
    BY <1>1, <1>2 DEF Shape
  <2> QED
    BY <1>1, <2>1, Geometry
<1>5. Taken(m, k, B, T, own, {}, rk, lim, h1, t)
  BY RmTagKeeps
<1>6. /\ ~(raw - n > 6) =>
              /\ r.taken = raw /\ r.heap.bkt = k1
              /\ TakenMem(m1, r.heap.mem, t, m1[t + raw - 2], r.taken)
      /\ raw - n > 6 =>
              /\ r.taken = n
              /\ \E ma : /\ TakenMem(m1, ma, t, m1[t + raw - 2], n)
                         /\ r.heap = PutFree([mem |-> [ma EXCEPT ![t + n + 2] = raw - n], bkt |-> k1],
                                             t + n, m1[t + raw - 2])
  <2>1. AllocWrites(m, t, n, h1, r)
    BY <1>3, TagAllocIs
  <2> HIDE DEF h1
  <2> QED
    BY <2>1 DEF AllocWrites
<1> HIDE DEF h1
<1>7. /\ Heaped(m1, k1, B, T, own, {t}, rk, lim)
      /\ Frame(m, m1, T) /\ Untouched(m, m1, t)
      /\ OnlyLinks(m, m1, FreeIn(m, T, {t}))
  <2>1. {} \cup {t} = {t}
    OBVIOUS
  <2> QED
    BY <1>5, <2>1 DEF Taken
<1> HIDE DEF m1, k1, blk, raw
<1>8. m1[t + 2] = raw /\ m1[t + raw - 2] = blk /\ \A u \in T : m1[u + 2] = m[u + 2]
  <2>1. m1[t + 2] = m[t + 2] /\ m1[t + m[t + 2] - 2] = m[t + m[t + 2] - 2]
    BY <1>1, <1>2, <1>7, UntouchedIs
  <2>2. m[t + m[t + 2] - 2] = blk
    BY <1>1, <1>2 DEF Marked, blk
  <2> QED
    BY <1>7, <2>1, <2>2 DEF Frame, raw
<1>9. m1 \in Memory /\ Shape(m1, B, T, own)
  BY <1>7 DEF Heaped
<1>10. HeadersSame(m, m1, B)
  <2> DEFINE G == FreeIn(m, T, {t})
  <2>1. G \subseteq T /\ OnlyLinks(m, m1, G)
    BY <1>7 DEF FreeIn
  <2> HIDE DEF G
  <2> QED
    BY <1>1, <2>1, LinksHeaders
<1>11. Frame(m, m1, T \ {t})
  BY <1>7 DEF Frame
<1>12. CASE ~(raw - n > 6)
  <2> DEFINE ma == r.heap.mem
  <2>1. r.taken = raw /\ r.heap.bkt = k1 /\ TakenMem(m1, ma, t, blk, raw)
    BY <1>6, <1>8, <1>12
  <2>2. Within(m1, ma, t) /\ ma[t] = 1 /\ ma[t + 2] = raw /\ ma[t + 3] = blk /\ ma[t + raw - 1] = t
    <3>1. raw <= m1[t + 2]
      BY <1>3, <1>8
    <3> QED
      BY <1>2, <1>3, <1>4, <1>9, <2>1, <3>1, TakenMemIs
  <2> HIDE DEF ma
  <2>3. HandStep(m1, ma, own, t, {t}, {t})
    BY <1>8, <2>2 DEF HandStep
  <2>4. Heaped(ma, k1, B, T, own, {t}, rk, lim) /\ HandWritten(m1, ma, B, T, {t}, t)
    BY <1>7, <2>3, HandWrite
  <2>5. Frame(m1, ma, T \ {t}) /\ HeadersSame(m1, ma, B)
    BY <2>4 DEF HandWritten
  <2>6. Frame(m, ma, T \ {t}) /\ HeadersSame(m, ma, B)
    <3>1. HeadersSame(m, ma, B)
      BY <1>10, <2>5 DEF HeadersSame
    <3> QED
      BY <1>11, <2>5, <3>1, FrameTrans
  <2>7. GrantedTag(m, ma, own, own, t, n, raw)
    BY <1>3, <2>2 DEF GrantedTag, blk, raw
  <2>8. GrantedRest(m, ma, T, own, t, n, raw, T, own)
    BY DEF GrantedRest, raw
  <2>9. Granted(m, B, T, own, t, n, r, T, own, rk, lim)
    BY <2>1, <2>4, <2>6, <2>7, <2>8 DEF Granted, ma
  <2> QED
    BY <2>9
<1>13. CASE raw - n > 6
  <2> DEFINE nt == t + n
             rest == raw - n
             T2 == T \cup {t + n}
             own2 == [u \in T \cup {t + n} |-> IF u = t + n THEN own[t] ELSE own[u]]
             rk2 == RankNew(rk, t + n, lim)
             mm == r.heap.mem
  <2>1. PICK ma : /\ TakenMem(m1, ma, t, blk, n)
                  /\ r.heap = PutFree([mem |-> [ma EXCEPT ![t + n + 2] = raw - n], bkt |-> k1], t + n, blk)
    BY <1>6, <1>8, <1>13
  <2>2. r.taken = n
    BY <1>6, <1>13
  <2>3. Within(m1, ma, t) /\ ma[t] = 1 /\ ma[t + 2] = n /\ ma[t + 3] = blk /\ ma[t + n - 1] = t
    <3>1. n <= m1[t + 2]
      BY <1>3, <1>8, <1>13
    <3> QED
      BY <1>2, <1>4, <1>9, <2>1, <3>1, TakenMemIs
  <2> DEFINE mb == [ma EXCEPT ![nt + 2] = rest]
  <2>4. ma \in Memory /\ nt + 2 \in Cell /\ rest \in Nat /\ 6 <= rest /\ rest < raw /\ nt \in Nat
    <3>1. \A c \in Int : t <= c /\ c < t + m[t + 2] => c \in Cell
      BY <1>1, <1>2, Geometry
    <3> QED
      BY <1>3, <1>13, <2>3, <3>1 DEF Within, raw
  <2>5. r.heap = PutFree([mem |-> mb, bkt |-> k1], nt, blk)
    BY <2>1
  <2>6. mb \in Memory /\ mb[nt + 2] = rest /\ \A c \in Cell : c # nt + 2 => mb[c] = ma[c]
    <3>1. rest \in Int /\ ma \in [Cell -> Int]
      BY <2>4 DEF Memory
    <3> DEFINE z == nt + 2
    <3>2. z \in Cell
      BY <2>4
    <3> HIDE DEF z, rest
    <3>3. [ma EXCEPT ![z] = rest] \in [Cell -> Int] /\ [ma EXCEPT ![z] = rest][z] = rest
          /\ \A c \in Cell : c # z => [ma EXCEPT ![z] = rest][c] = ma[c]
      BY <3>1, <3>2
    <3> QED
      BY <3>3 DEF z, Memory
  <2> HIDE DEF mb
  <2>7. /\ Within(m1, mb, t) /\ mb[t] = 1 /\ mb[t + 2] = n /\ mb[t + 3] = blk /\ mb[t + n - 1] = t
    <3>1. t \in Cell /\ t + 2 \in Cell /\ t + 3 \in Cell /\ t + n - 1 \in Cell
      <4>1. \A c \in Int : t <= c /\ c < t + m[t + 2] => c \in Cell
        BY <1>1, <1>2, Geometry
      <4> QED
        BY <1>3, <4>1 DEF raw
    <3>2. t # nt + 2 /\ t + 2 # nt + 2 /\ t + 3 # nt + 2 /\ t + n - 1 # nt + 2
      BY <1>3
    <3>3. mb[t] = 1 /\ mb[t + 2] = n /\ mb[t + 3] = blk /\ mb[t + n - 1] = t
      BY <2>3, <2>6, <3>1, <3>2
    <3>4. Cell \subseteq Nat
      BY Rooms
    <3>5. ASSUME NEW c \in Cell, c < t \/ t + m1[t + 2] <= c PROVE mb[c] = m1[c]
      <4>1. c # nt + 2
        BY <1>3, <1>8, <1>13, <3>4, <3>5
      <4>2. mb[c] = ma[c]
        BY <2>6, <4>1
      <4> QED
        BY <2>3, <3>5, <4>2 DEF Within
    <3>6. Within(m1, mb, t)
      BY <2>6, <3>5 DEF Within
    <3> QED
      BY <3>3, <3>6
  <2>8. \A u \in T : u # t => Untouched(m1, mb, u) /\ mb[u + 2] = m1[u + 2]
    BY <1>2, <1>9, <2>7, WithinTag
  <2>9. \A b \in B : mb[b] = m1[b] /\ mb[b + 1] = m1[b + 1] /\ mb[b + 2] = m1[b + 2]
    BY <1>2, <1>9, <2>7, WithinTag
  <2>10. CutAt(m1, mb, B, T, t, n)
    <3>1. mb[t + n + 2] = raw - n
      BY <2>6
    <3> QED
      BY <1>3, <1>8, <1>13, <2>7, <2>8, <2>9, <3>1 DEF CutAt
  <2>11. Shape(mb, B, T2, own2) /\ nt \notin T
    BY <1>2, <1>9, <2>10, CutShape
  <2>12. Rebuilt(m1, mb, T, own, {t}, B, T2, own2, {t, nt}, rk, rk, lim)
    <3>1. BaseBlk \in B /\ Ring(m1, B, m1[BaseBlk + 1], 0, 1, rk) /\ Ranked(rk, lim)
      BY <1>7 DEF Heaped
    <3>2. Ring(mb, B, mb[BaseBlk + 1], 0, 1, rk)
      <4>1. \A b \in B : b \in Nat
        BY <1>9, Geometry
      <4>2. \A b \in B : mb[b + 0] = m1[b + 0] /\ mb[b + 1] = m1[b + 1] /\ rk[b] = rk[b]
        BY <2>9, <4>1
      <4>3. Ring(mb, B, m1[BaseBlk + 1], 0, 1, rk)
        BY <3>1, <4>2, RingSame
      <4> QED
        BY <2>9, <3>1, <4>3
    <3>3. \A u \in T \ {t} : own2[u] = own[u]
      BY <2>11
    <3>4. {t, nt} \subseteq T2 /\ T \ {t} \subseteq T2 \ {t, nt} /\ \A u \in T2 \ {t, nt} : u \in T \ {t}
      BY <1>2, <2>11
    <3> HIDE DEF T2, own2, nt
    <3> QED
      BY <2>6, <2>8, <2>11, <3>1, <3>2, <3>3, <3>4 DEF Rebuilt
  <2>13. Heaped(mb, k1, B, T2, own2, {t, nt}, rk, lim) /\ Frame(m1, mb, T \ {t})
    BY <1>7, <2>12, RebuiltHeap
  <2>14. GivenBack(mb, B, T2, own2, {t, nt}, rk, lim, r.heap, nt)
    <3>1. own2[nt] = blk
      BY DEF blk
    <3>2. Size2Idx(mb[nt + 2]) \in 0 .. MaxIdx - 1
      <4>1. Small(raw)
        BY <1>2, <1>3, SmallIs
      <4>2. Small(rest)
        BY <1>3, <2>4, <4>1, SmallIs DEF Small
      <4>3. rest \in Nat \ {0}
        BY <2>4
      <4> QED
        BY <2>6, <4>2, <4>3, SmallIs
    <3>3. r.heap = PutFree([mem |-> mb, bkt |-> k1], nt, own2[nt])
      BY <2>5, <3>1
    <3> HIDE DEF nt, T2, own2
    <3> QED
      BY <2>13, <3>2, <3>3, PutFreeKeeps
  <2>15. /\ Heaped(mm, r.heap.bkt, B, T2, own2, {t, nt} \ {nt}, rk2, lim + 1)
         /\ Frame(mb, mm, T2 \ {t, nt}) /\ \A u \in {t, nt} \ {nt} : Untouched(mb, mm, u)
         /\ mm[nt] = 0 /\ (\A u \in T2 : mm[u + 2] = mb[u + 2]) /\ HeadersSame(mb, mm, B)
    BY <2>14 DEF GivenBack
  <2>16. {t, nt} \ {nt} = {t} /\ t # nt /\ T2 \ {t, nt} = T \ {t} /\ nt \in T2 /\ t \in T2
    BY <1>2, <2>11
  <2>17. Heaped(mm, r.heap.bkt, B, T2, own2, {t}, rk2, lim + 1)
    BY <2>15, <2>16
  <2>18. Untouched(mb, mm, t)
    BY <2>15, <2>16
  <2>19. Frame(m, mm, T \ {t}) /\ HeadersSame(m, mm, B)
    <3>1. Frame(mb, mm, T \ {t})
      BY <2>15, <2>16
    <3>2. HeadersSame(m1, mb, B)
      BY <2>9 DEF HeadersSame
    <3>3. HeadersSame(m, mm, B)
      BY <1>10, <2>15, <3>2 DEF HeadersSame
    <3>4. Frame(m, mb, T \ {t})
      BY <1>11, <2>13, FrameTrans
    <3> HIDE DEF mm
    <3> QED
      BY <3>1, <3>3, <3>4, FrameTrans
  <2>20. GrantedTag(m, mm, own, own2, t, n, n)
    <3>1. /\ mm[t] = mb[t] /\ mm[t + 2] = mb[t + 2] /\ mm[t + 3] = mb[t + 3]
          /\ mm[t + mb[t + 2] - 1] = mb[t + mb[t + 2] - 1]
      BY <2>11, <2>16, <2>18, UntouchedIs
    <3>2. own2[t] = own[t]
      BY <1>2, <2>16
    <3>3. n <= raw
      BY <1>3, <1>13
    <3> HIDE DEF mm, own2
    <3> QED
      BY <2>7, <3>1, <3>2, <3>3 DEF GrantedTag, blk, raw
  <2>21. GrantedRest(m, mm, T, own, t, n, n, T2, own2)
    <3>1. mm[t + n] = 0 /\ mm[t + n + 2] = m[t + 2] - n
      BY <2>6, <2>15, <2>16 DEF raw
    <3> QED
      BY <2>11, <3>1 DEF GrantedRest
  <2> HIDE DEF T2, own2, rk2
  <2>22. Granted(m, B, T, own, t, n, r, T2, own2, rk2, lim + 1)
    BY <2>2, <2>17, <2>19, <2>20, <2>21 DEF Granted
  <2> QED
    BY <2>22
<1> QED
  BY <1>12, <1>13

(* Counting words. *)

LEMMA CellFinite == IsFiniteSet(Cell)
<1> DEFINE S == Slots \cup {Base}
           C == {Cells(b) : b \in S}
           f == [b \in S |-> Cells(b)]
<1>1. IsFiniteSet(S)
  BY LayoutAssumption, FS_AddElement
<1>2. f \in Surjection(S, C)
  <2>1. f \in [S -> C] /\ \A c \in C : \E b \in S : f[b] = c
    OBVIOUS
  <2> QED
    BY <2>1 DEF Surjection
<1>3. IsFiniteSet(C)
  <2> HIDE DEF S, C, f
  <2> QED
    BY <1>1, <1>2, FS_Surjection
<1>4. ASSUME NEW c \in C PROVE IsFiniteSet(c)
  <2>1. PICK b \in S : c = Cells(b)
    OBVIOUS
  <2>2. PICK z \in Int : c = b .. z
    <3>1. b \in Nat /\ PageS \in Nat /\ SlotS \in Nat
      BY LayoutAssumption
    <3> DEFINE z == b + (IF b = Base THEN PageS ELSE SlotS) - 1
    <3>2. c = b .. z
      BY <2>1 DEF Cells
    <3>3. z \in Int
      BY <3>1
    <3> HIDE DEF z
    <3> QED
      BY <3>2, <3>3
  <2>3. b \in Int
    BY LayoutAssumption
  <2> QED
    BY <2>2, <2>3, FS_Interval
<1>5. IsFiniteSet(UNION C)
  <2> HIDE DEF C
  <2> QED
    BY <1>3, <1>4, FS_UNION
<1> QED
  BY <1>5 DEF Cell

LEMMA AddWords ==
  ASSUME NEW X, X \subseteq Cell, NEW a \in Nat, NEW n \in Nat,
         \A c \in Int : a <= c /\ c < a + n => c \in Cell /\ c \notin X
  PROVE  /\ Cardinality(X \cup (a .. a + n - 1)) = Cardinality(X) + n
         /\ Cardinality(X) \in Nat
<1> DEFINE I == a .. a + n - 1
<1>1. IsFiniteSet(X) /\ Cardinality(X) \in Nat
  BY CellFinite, FS_Subset, FS_CardinalityType
<1>2. IsFiniteSet(I) /\ Cardinality(I) = n
  <2>1. a \in Int /\ a + n - 1 \in Int
    OBVIOUS
  <2>2. IsFiniteSet(I) /\ Cardinality(I) = IF a > a + n - 1 THEN 0 ELSE a + n - 1 - a + 1
    BY <2>1, FS_Interval
  <2>3. CASE n = 0
    BY <2>2, <2>3
  <2>4. CASE n # 0
    BY <2>2, <2>4
  <2> QED
    BY <2>3, <2>4
<1>3. X \cap I = {}
  OBVIOUS
<1> HIDE DEF I
<1>4. Cardinality(X \cup I) = Cardinality(X) + Cardinality(I) - Cardinality(X \cap I)
  BY <1>1, <1>2, FS_Union
<1>5. Cardinality(X \cap I) = 0
  BY <1>3, FS_EmptySet
<1> QED
  BY <1>1, <1>2, <1>4, <1>5 DEF I

\* The words of the tags S and of the blocks B.
TagWords(m, S) == UNION {t .. t + m[t + 2] - 1 : t \in S}

LEMMA WordsIn ==
  ASSUME NEW m, NEW S, NEW c
  PROVE  c \in TagWords(m, S) <=> c \in Int /\ \E t \in S : c \in t .. t + m[t + 2] - 1
BY DEF TagWords

LEMMA WordsSame ==
  ASSUME NEW m, NEW m2, NEW S, \A t \in S : m2[t + 2] = m[t + 2]
  PROVE  TagWords(m2, S) = TagWords(m, S)
BY DEF TagWords

\* One tag more.
LEMMA WordsMore ==
  ASSUME NEW m, NEW B, NEW T, NEW own, Shape(m, B, T, own), NEW S, S \subseteq T, NEW t \in T, t \notin S
  PROVE  /\ Cardinality(TagWords(m, S \cup {t})) = Cardinality(TagWords(m, S)) + m[t + 2]
         /\ Cardinality(TagWords(m, S)) \in Nat
<1> DEFINE X == TagWords(m, S)
           n == m[t + 2]
<1>1. \A u \in T : u \in Nat /\ m[u + 2] \in Nat /\ 6 <= m[u + 2]
  BY Geometry
<1>2. \A u \in T : \A c \in Int : u <= c /\ c < u + m[u + 2] => c \in Cell
  BY Geometry
<1>3. \A u \in T : t # u => t + m[t + 2] <= u \/ u + m[u + 2] <= t
  BY Geometry
<1>4. X \subseteq Cell
  <2> SUFFICES ASSUME NEW c \in X PROVE c \in Cell
    OBVIOUS
  <2>1. PICK u \in S : c \in u .. u + m[u + 2] - 1
    BY DEF TagWords
  <2>2. u \in Nat /\ m[u + 2] \in Nat
    BY <1>1
  <2> QED
    BY <1>2, <2>1, <2>2
<1>5. \A c \in Int : t <= c /\ c < t + n => c \in Cell /\ c \notin X
  <2> SUFFICES ASSUME NEW c \in Int, t <= c, c < t + n PROVE c \notin X
    BY <1>2
  <2>1. ASSUME NEW u \in S, c \in u .. u + m[u + 2] - 1 PROVE FALSE
    <3>1. t + m[t + 2] <= u \/ u + m[u + 2] <= t
      BY <1>3
    <3>2. u \in Nat /\ m[u + 2] \in Nat /\ t \in Nat /\ m[t + 2] \in Nat
      BY <1>1
    <3> QED
      BY <2>1, <3>1, <3>2
  <2> QED
    BY <2>1 DEF TagWords
<1>6. TagWords(m, S \cup {t}) = X \cup (t .. t + n - 1)
  BY DEF TagWords
<1>7. t \in Nat /\ n \in Nat
  BY <1>1
<1> HIDE DEF X, n
<1>8. Cardinality(X \cup (t .. t + n - 1)) = Cardinality(X) + n /\ Cardinality(X) \in Nat
  BY <1>4, <1>5, <1>7, AddWords
<1> QED
  BY <1>6, <1>8 DEF X, n

\* One block more.
LEMMA BlocksMore ==
  ASSUME NEW m, NEW B, B \subseteq BlockSet, NEW b \in BlockSet, b \notin B,
         \A x \in B \cup {b} : m[x + 2] \in Nat /\ m[x + 2] <= Room(x)
  PROVE  /\ Cardinality(TagWords(m, B \cup {b})) = Cardinality(TagWords(m, B)) + m[b + 2]
         /\ Cardinality(TagWords(m, B)) \in Nat
<1> DEFINE X == TagWords(m, B)
           n == m[b + 2]
<1>1. \A x \in B \cup {b} : x \in Nat /\ Room(x) \in Nat /\ m[x + 2] \in Nat /\ m[x + 2] <= Room(x)
  BY Rooms
<1>2. \A x \in B \cup {b} : \A c \in Int : x <= c /\ c < x + m[x + 2] => c \in Cell
  <2> SUFFICES ASSUME NEW x \in B \cup {b}, NEW c \in Int, x <= c, c < x + m[x + 2] PROVE c \in Cell
    OBVIOUS
  <2>1. c < x + Room(x)
    BY <1>1
  <2>2. x \in BlockSet
    OBVIOUS
  <2> QED
    BY <2>1, <2>2, Rooms
<1>3. \A x \in B : x + Room(x) <= b \/ b + Room(b) <= x
  BY Rooms
<1>4. X \subseteq Cell
  <2> SUFFICES ASSUME NEW c \in X PROVE c \in Cell
    OBVIOUS
  <2>1. PICK x \in B : c \in x .. x + m[x + 2] - 1
    BY DEF TagWords
  <2> QED
    BY <1>1, <1>2, <2>1
<1>5. \A c \in Int : b <= c /\ c < b + n => c \in Cell /\ c \notin X
  <2> SUFFICES ASSUME NEW c \in Int, b <= c, c < b + n PROVE c \notin X
    BY <1>2
  <2>1. ASSUME NEW x \in B, c \in x .. x + m[x + 2] - 1 PROVE FALSE
    <3>1. x + Room(x) <= b \/ b + Room(b) <= x
      BY <1>3
    <3> QED
      BY <1>1, <2>1, <3>1
  <2> QED
    BY <2>1 DEF TagWords
<1>6. TagWords(m, B \cup {b}) = X \cup (b .. b + n - 1)
  BY DEF TagWords
<1>7. b \in Nat /\ n \in Nat
  BY <1>1
<1> HIDE DEF X, n
<1>8. Cardinality(X \cup (b .. b + n - 1)) = Cardinality(X) + n /\ Cardinality(X) \in Nat
  BY <1>4, <1>5, <1>7, AddWords
<1> QED
  BY <1>6, <1>8 DEF X, n

\* A tag that begins where another ends is in the same block.
LEMMA SameBlock ==
  ASSUME NEW m, NEW B, NEW T, NEW own, Shape(m, B, T, own), NEW t \in T, NEW u \in T, u = t + m[t + 2]
  PROVE  own[u] = own[t] /\ t # own[t] + m[own[t] + 2] - m[t + 2]
<1> DEFINE a == own[t]
           b == own[u]
<1>1. /\ a \in B /\ b \in B /\ t \in Nat /\ m[t + 2] \in Nat /\ 6 <= m[t + 2]
      /\ u \in Nat /\ m[u + 2] \in Nat /\ 6 <= m[u + 2]
      /\ a + 3 <= t /\ t + m[t + 2] <= a + m[a + 2]
      /\ b + 3 <= u /\ u + m[u + 2] <= b + m[b + 2]
  BY DEF Shape
<1>2. /\ a \in Nat /\ b \in Nat /\ Room(a) \in Nat /\ Room(b) \in Nat
      /\ m[a + 2] \in Nat /\ m[b + 2] \in Nat /\ m[a + 2] <= Room(a) /\ m[b + 2] <= Room(b)
  <2>1. B \subseteq BlockSet /\ \A x \in B : m[x + 2] \in Nat /\ m[x + 2] <= Room(x)
    BY DEF Shape
  <2>2. \A x \in BlockSet : x \in Nat /\ Room(x) \in Nat
    BY Rooms
  <2> QED
    BY <1>1, <2>1, <2>2
<1>3. a # b => a + Room(a) <= b \/ b + Room(b) <= a
  <2>1. B \subseteq BlockSet
    BY DEF Shape
  <2> QED
    BY <1>1, <2>1, Rooms
<1> HIDE DEF a, b
<1>4. a = b
  BY <1>1, <1>2, <1>3
<1>5. t # a + m[a + 2] - m[t + 2]
  BY <1>1, <1>2, <1>4
<1> QED
  BY <1>4, <1>5 DEF a, b

-----------------------------------------------------------------------------
(* The pool between the steps of a call: a heap, the caller's regions in the tags
   that are in use, free tags apart from each other, and the counters. *)

UsedIn(m, T, H) == {t \in T \ H : m[t] = 1}

Held(m, lv, U) ==
  /\ DOMAIN lv = {t + 4 : t \in U}
  /\ \A t \in U : /\ lv[t + 4] \in Nat \ {0} /\ lv[t + 4] + 5 <= m[t + 2]
                  /\ \A c \in Int : t + 4 <= c /\ c < t + 4 + lv[t + 4] => m[c] = -1 - (t + 4)

Separate(m, F) == \A t, u \in F : u # t + m[t + 2]

\* A block beyond the buckets is one tag, in use.
BigUsed(m, B) == \A b \in B : ~Small(m[b + 2] - 3) => m[b + 5] = m[b + 2] - 3 /\ m[b + 3] = 1

Fields == {"alloc", "inuse", "blk", "totalA", "l_fail", "s_fail_1", "s_fail_2",
           "l_hit", "s_hit_1", "s_hit_2", "s_hit_3"}

CntTyped(c) ==
  /\ c \in [Fields -> Int]
  /\ \A i \in Fields \ {"alloc", "inuse", "blk"} : c[i] \in 0 .. CntMod - 1

Counted(m, c, B, U) ==
  /\ c.inuse = Cardinality(TagWords(m, U)) /\ c.blk = Cardinality(B)
  /\ c.alloc = PoolHdr - 3 + Cardinality(TagWords(m, B))

Good(m, k, c, lv, B, T, own, H, rk, lim) ==
  /\ Heaped(m, k, B, T, own, H, rk, lim)
  /\ Held(m, lv, UsedIn(m, T, H))
  /\ Separate(m, FreeIn(m, T, H))
  /\ BigUsed(m, B)
  /\ CntTyped(c) /\ Counted(m, c, B, UsedIn(m, T, H))

LEMMA HeldFrame ==
  ASSUME NEW m, NEW m2, NEW lv, NEW U, Held(m, lv, U),
         \A t \in U : t \in Nat /\ m[t + 2] \in Nat,
         \A t \in U : Untouched(m, m2, t) /\ m2[t + 2] = m[t + 2]
  PROVE  Held(m2, lv, U)
<1>1. ASSUME NEW t \in U
      PROVE  /\ lv[t + 4] \in Nat \ {0} /\ lv[t + 4] + 5 <= m2[t + 2]
             /\ \A c \in Int : t + 4 <= c /\ c < t + 4 + lv[t + 4] => m2[c] = -1 - (t + 4)
  <2>1. /\ lv[t + 4] \in Nat \ {0} /\ lv[t + 4] + 5 <= m[t + 2]
        /\ \A c \in Int : t + 4 <= c /\ c < t + 4 + lv[t + 4] => m[c] = -1 - (t + 4)
    BY DEF Held
  <2>2. t \in Nat /\ m[t + 2] \in Nat /\ m2[t + 2] = m[t + 2] /\ Untouched(m, m2, t)
    OBVIOUS
  <2>3. ASSUME NEW c \in Int, t + 4 <= c, c < t + 4 + lv[t + 4] PROVE m2[c] = -1 - (t + 4)
    <3>1. m[c] = -1 - (t + 4)
      BY <2>1, <2>3
    <3>2. t <= c /\ c < t + m[t + 2]
      BY <2>1, <2>2, <2>3
    <3> QED
      BY <2>2, <3>1, <3>2 DEF Untouched
  <2> QED
    BY <2>1, <2>2, <2>3
<1>2. DOMAIN lv = {t + 4 : t \in U}
  BY DEF Held
<1> QED
  BY <1>1, <1>2 DEF Held

\* What Give writes to the tag t of s words, of which acts are the caller's.
GiveMem(mm, t, acts) ==
  Fill(Fill([mm EXCEPT ![t + 1] = Junk], t + 4, t + mm[t + 2] - 2, Junk), t + 4, t + 4 + acts - 1, -1 - (t + 4))

LEMMA GiveMemIs ==
  ASSUME NEW m \in Memory, NEW B, NEW T, NEW own, Shape(m, B, T, own), NEW t \in T,
         NEW acts \in Nat, acts + 5 <= m[t + 2], NEW m2, m2 = GiveMem(m, t, acts)
  PROVE  /\ Within(m, m2, t) /\ m2[t] = m[t] /\ m2[t + 2] = m[t + 2] /\ m2[t + 3] = m[t + 3]
         /\ m2[t + m[t + 2] - 1] = m[t + m[t + 2] - 1]
         /\ \A c \in Int : t + 4 <= c /\ c < t + 4 + acts => m2[c] = -1 - (t + 4)
<1> DEFINE s == m[t + 2]
           g1 == [m EXCEPT ![t + 1] = Junk]
           g2 == Fill(g1, t + 4, t + s - 2, Junk)
<1>1. t \in Nat /\ s \in Nat /\ 6 <= s
  BY Geometry
<1>2. \A c \in Int : t <= c /\ c < t + s => c \in Cell
  BY Geometry
<1>3. m \in [Cell -> Int] /\ Cell \subseteq Nat
  BY Rooms DEF Memory
<1>4. m2 = Fill(g2, t + 4, t + 4 + acts - 1, -1 - (t + 4))
  BY DEF GiveMem
<1>5. t + 1 \in Cell
  BY <1>1, <1>2
<1>6. g1 \in [Cell -> Int] /\ \A c \in Cell : c # t + 1 => g1[c] = m[c]
  BY <1>3, <1>5 DEF Junk
<1> HIDE DEF g1
<1>7. g2 = [c \in Cell |-> IF c \in t + 4 .. t + s - 2 THEN Junk ELSE g1[c]]
  BY DEF Fill
<1>8. g2 \in [Cell -> Int] /\ \A c \in Cell : c < t + 4 \/ t + s - 2 < c => g2[c] = g1[c]
  <2>1. \A c \in Cell : g1[c] \in Int
    BY <1>6
  <2> HIDE DEF g2, s
  <2>2. g2 \in [Cell -> Int]
    BY <1>7, <2>1 DEF Junk
  <2>3. \A c \in Cell : c < t + 4 \/ t + s - 2 < c => g2[c] = g1[c]
    BY <1>1, <1>3, <1>7
  <2> QED
    BY <2>2, <2>3
<1> HIDE DEF g2, s
<1>9. m2 = [c \in Cell |-> IF c \in t + 4 .. t + 4 + acts - 1 THEN -1 - (t + 4) ELSE g2[c]]
  BY <1>4 DEF Fill
<1>10. m2 \in [Cell -> Int]
  <2>1. \A c \in Cell : g2[c] \in Int
    BY <1>8
  <2>2. -1 - (t + 4) \in Int
    BY <1>1
  <2> QED
    BY <1>9, <2>1, <2>2
<1>11. \A c \in Cell : c < t + 4 \/ t + 4 + acts - 1 < c => m2[c] = g2[c]
  BY <1>1, <1>3, <1>9
<1>12. acts + 5 <= s
  BY DEF s
<1>13. \A c \in Cell : c < t + 4 \/ t + s - 2 < c => m2[c] = g1[c]
  <2> SUFFICES ASSUME NEW c \in Cell, c < t + 4 \/ t + s - 2 < c PROVE m2[c] = g1[c]
    OBVIOUS
  <2>1. c < t + 4 \/ t + 4 + acts - 1 < c
    BY <1>1, <1>3, <1>12
  <2> QED
    BY <1>8, <1>11, <2>1
<1>14. t \in Cell /\ t + 2 \in Cell /\ t + 3 \in Cell /\ t + s - 1 \in Cell
  BY <1>1, <1>2
<1>15. m2[t] = m[t] /\ m2[t + 2] = m[t + 2] /\ m2[t + 3] = m[t + 3]
  BY <1>1, <1>6, <1>13, <1>14
<1>16. m2[t + s - 1] = m[t + s - 1]
  <2>1. t + s - 2 < t + s - 1 /\ t + s - 1 # t + 1
    BY <1>1
  <2> QED
    BY <1>6, <1>13, <1>14, <2>1
<1>17. ASSUME NEW c \in Cell, c < t \/ t + s <= c PROVE m2[c] = m[c]
  <2>1. (c < t + 4 \/ t + s - 2 < c) /\ c # t + 1
    BY <1>1, <1>3, <1>17
  <2> QED
    BY <1>6, <1>13, <2>1
<1>18. Within(m, m2, t)
  BY <1>10, <1>17 DEF Within, Memory, s
<1>19. ASSUME NEW c \in Int, t + 4 <= c, c < t + 4 + acts PROVE m2[c] = -1 - (t + 4)
  <2>1. c \in Cell
    BY <1>1, <1>2, <1>12, <1>19
  <2>2. c \in t + 4 .. t + 4 + acts - 1
    BY <1>1, <1>19
  <2> QED
    BY <1>9, <2>1, <2>2
<1> QED
  BY <1>15, <1>16, <1>18, <1>19 DEF s

\* What does not change when the use and the sizes of tags and blocks do not.
Stable(m, m2, B, T) ==
  (\A u \in T : m2[u] = m[u] /\ m2[u + 2] = m[u + 2]) /\ HeadersSame(m, m2, B)

LEMMA StableBig ==
  ASSUME NEW m, NEW m2, NEW B, NEW T, NEW own, Shape(m, B, T, own), Stable(m, m2, B, T), BigUsed(m, B)
  PROVE  BigUsed(m2, B)
<1> SUFFICES ASSUME NEW b \in B, ~Small(m2[b + 2] - 3)
             PROVE  m2[b + 5] = m2[b + 2] - 3 /\ m2[b + 3] = 1
  BY DEF BigUsed
<1>1. b + 3 \in T /\ b \in Nat
  <2>1. b \in Nat
    BY Geometry
  <2> QED
    BY <2>1 DEF Shape
<1>2. m2[b + 2] = m[b + 2]
  BY DEF Stable, HeadersSame
<1>3. m2[b + 3] = m[b + 3] /\ m2[b + 3 + 2] = m[b + 3 + 2]
  BY <1>1 DEF Stable
<1>4. b + 3 + 2 = b + 5
  BY <1>1
<1> QED
  BY <1>2, <1>3, <1>4 DEF BigUsed

GiveReady(mm, own, t, acts) ==
  /\ mm[t] = 1 /\ mm[t + 3] = own[t] /\ mm[t + mm[t + 2] - 1] = t
  /\ acts \in Nat \ {0} /\ acts + 5 <= mm[t + 2]

WithRegion(lv, a, acts) == [x \in DOMAIN lv \cup {a} |-> IF x = a THEN acts ELSE lv[x]]

InuseMore(c, c2, words) ==
  CntTyped(c2) /\ c2.inuse = c.inuse + words /\ c2.blk = c.blk /\ c2.alloc = c.alloc

LEMMA GiveKeeps ==
  ASSUME NEW m, NEW k, NEW c, NEW lv, NEW B, NEW T, NEW own, NEW t, NEW rk, NEW lim,
         Good(m, k, c, lv, B, T, own, {t}, rk, lim), NEW acts, GiveReady(m, own, t, acts),
         NEW m2, m2 = GiveMem(m, t, acts), NEW c2, InuseMore(c, c2, m[t + 2])
  PROVE  Good(m2, k, c2, WithRegion(lv, t + 4, acts), B, T, own, {}, rk, lim) /\ Stable(m, m2, B, T)
<1> DEFINE U == UsedIn(m, T, {t})
           lv2 == WithRegion(lv, t + 4, acts)
<1>1. /\ Heaped(m, k, B, T, own, {t}, rk, lim) /\ Held(m, lv, U) /\ Separate(m, FreeIn(m, T, {t}))
      /\ BigUsed(m, B) /\ Counted(m, c, B, U)
  BY DEF Good
<1>2. m \in Memory /\ Shape(m, B, T, own) /\ t \in T
  BY <1>1 DEF Heaped
<1>3. /\ m[t] = 1 /\ m[t + 3] = own[t] /\ m[t + m[t + 2] - 1] = t
      /\ acts \in Nat \ {0} /\ acts + 5 <= m[t + 2]
  BY DEF GiveReady
<1>4. /\ Within(m, m2, t) /\ m2[t] = m[t] /\ m2[t + 2] = m[t + 2] /\ m2[t + 3] = m[t + 3]
      /\ m2[t + m[t + 2] - 1] = m[t + m[t + 2] - 1]
      /\ \A x \in Int : t + 4 <= x /\ x < t + 4 + acts => m2[x] = -1 - (t + 4)
  <2>1. acts \in Nat
    BY <1>3
  <2> QED
    BY <1>2, <1>3, <2>1, GiveMemIs
<1>5. Marked(m2, own, t)
  BY <1>3, <1>4 DEF Marked
<1>6. HandStep(m, m2, own, t, {t}, {})
  BY <1>3, <1>4, <1>5 DEF HandStep
<1>7. Heaped(m2, k, B, T, own, {}, rk, lim) /\ HandWritten(m, m2, B, T, {t}, t)
  BY <1>1, <1>6, HandWrite
<1>8. HeadersSame(m, m2, B) /\ \A u \in T : m2[u + 2] = m[u + 2]
  BY <1>7 DEF HandWritten
<1>9. \A u \in T : u # t => Untouched(m, m2, u)
  BY <1>2, <1>4, WithinTag
<1>10. \A u \in T : m2[u] = m[u]
  <2>1. \A u \in T : u # t => m2[u] = m[u]
    BY <1>2, <1>9, UntouchedIs
  <2> QED
    BY <1>4, <2>1
<1>11. Stable(m, m2, B, T)
  BY <1>8, <1>10 DEF Stable
<1>12. UsedIn(m2, T, {}) = U \cup {t} /\ t \notin U /\ U \subseteq T
  BY <1>2, <1>3, <1>10 DEF UsedIn
<1>13. \A u \in T : u \in Nat /\ m[u + 2] \in Nat
  BY <1>2, Geometry
<1>14. Held(m2, lv2, U \cup {t})
  <2>1. Held(m2, lv, U)
    <3>1. \A u \in U : u \in Nat /\ m[u + 2] \in Nat
      BY <1>12, <1>13
    <3>2. \A u \in U : Untouched(m, m2, u) /\ m2[u + 2] = m[u + 2]
      BY <1>8, <1>9, <1>12
    <3> HIDE DEF U
    <3> QED
      BY <1>1, <3>1, <3>2, HeldFrame
  <2>2. DOMAIN lv = {u + 4 : u \in U}
    BY <2>1 DEF Held
  <2>3. DOMAIN lv2 = {u + 4 : u \in U \cup {t}}
    BY <2>2 DEF WithRegion
  <2>4. lv2[t + 4] = acts
    BY DEF WithRegion
  <2>5. ASSUME NEW u \in U PROVE lv2[u + 4] = lv[u + 4]
    <3> HIDE DEF U
    <3>0. u \in Nat /\ t \in Nat /\ u # t
      BY <1>2, <1>12, <1>13
    <3>1. u + 4 \in DOMAIN lv /\ u + 4 # t + 4
      BY <2>2, <3>0
    <3> QED
      BY <3>1 DEF WithRegion
  <2> HIDE DEF lv2, U
  <2>6. ASSUME NEW u \in U \cup {t}
        PROVE  /\ lv2[u + 4] \in Nat \ {0} /\ lv2[u + 4] + 5 <= m2[u + 2]
               /\ \A x \in Int : u + 4 <= x /\ x < u + 4 + lv2[u + 4] => m2[x] = -1 - (u + 4)
    <3>1. CASE u = t
      BY <1>3, <1>4, <2>4, <3>1
    <3>2. CASE u \in U
      BY <2>1, <2>5, <3>2 DEF Held
    <3> QED
      BY <3>1, <3>2
  <2> QED
    BY <2>3, <2>6 DEF Held
<1>15. Separate(m2, FreeIn(m2, T, {}))
  <2>1. FreeIn(m2, T, {}) = FreeIn(m, T, {t}) /\ FreeIn(m2, T, {}) \subseteq T
    BY <1>3, <1>10 DEF FreeIn
  <2> QED
    BY <1>1, <1>8, <2>1 DEF Separate
<1>16. BigUsed(m2, B)
  BY <1>1, <1>2, <1>11, StableBig
<1>17. Counted(m2, c2, B, U \cup {t})
  <2> HIDE DEF U
  <2>1. TagWords(m2, U \cup {t}) = TagWords(m, U \cup {t})
    <3>1. \A u \in U \cup {t} : m2[u + 2] = m[u + 2]
      BY <1>2, <1>8, <1>12
    <3> DEFINE V == U \cup {t}
    <3> HIDE DEF V
    <3>2. TagWords(m2, V) = TagWords(m, V)
      BY <3>1, WordsSame DEF V
    <3> QED
      BY <3>2 DEF V
  <2>2. TagWords(m2, B) = TagWords(m, B)
    BY <1>8, WordsSame DEF HeadersSame
  <2>3. Cardinality(TagWords(m, U \cup {t})) = Cardinality(TagWords(m, U)) + m[t + 2]
    BY <1>2, <1>12, WordsMore
  <2> QED
    BY <1>1, <2>1, <2>2, <2>3 DEF Counted, InuseMore
<1>18. CntTyped(c2)
  BY DEF InuseMore
<1> HIDE DEF lv2
<1>19. Good(m2, k, c2, lv2, B, T, own, {}, rk, lim)
  BY <1>7, <1>12, <1>14, <1>15, <1>16, <1>17, <1>18 DEF Good
<1> QED
  BY <1>11, <1>19 DEF lv2

\* The counters of tags and blocks that keep their sizes.
LEMMA CountedSame ==
  ASSUME NEW m, NEW m2, NEW c, NEW B, NEW U, Counted(m, c, B, U),
         \A u \in U : m2[u + 2] = m[u + 2], HeadersSame(m, m2, B)
  PROVE  Counted(m2, c, B, U)
<1>1. TagWords(m2, U) = TagWords(m, U)
  BY WordsSame
<1>2. TagWords(m2, B) = TagWords(m, B)
  BY WordsSame DEF HeadersSame
<1> QED
  BY <1>1, <1>2 DEF Counted

LEMMA GrantKeeps ==
  ASSUME NEW m, NEW k, NEW c, NEW lv, NEW B, NEW T, NEW own, NEW rk, NEW lim,
         Good(m, k, c, lv, B, T, own, {}, rk, lim), NEW t \in FreeIn(m, T, {}), NEW n \in Nat, 6 <= n,
         NEW r, NEW T2, NEW own2, NEW rk2, NEW lim2,
         Granted(m, B, T, own, t, n, r, T2, own2, rk2, lim2)
  PROVE  Good(r.heap.mem, r.heap.bkt, c, lv, B, T2, own2, {t}, rk2, lim2)
<1> DEFINE mm == r.heap.mem
           U == UsedIn(m, T, {})
           F == FreeIn(m, T, {})
<1>1. /\ Heaped(m, k, B, T, own, {}, rk, lim) /\ Held(m, lv, U) /\ Separate(m, F)
      /\ BigUsed(m, B) /\ CntTyped(c) /\ Counted(m, c, B, U)
  BY DEF Good
<1>2. /\ Heaped(mm, r.heap.bkt, B, T2, own2, {t}, rk2, lim2)
      /\ Frame(m, mm, T \ {t}) /\ HeadersSame(m, mm, B)
      /\ GrantedTag(m, mm, own, own2, t, n, r.taken)
      /\ GrantedRest(m, mm, T, own, t, n, r.taken, T2, own2)
  BY DEF Granted
<1>3. Shape(m, B, T, own) /\ Shape(mm, B, T2, own2)
  BY <1>1, <1>2 DEF Heaped
<1>4. t \in T /\ m[t] = 0
  BY DEF FreeIn
<1>5. \A u \in T : u \in Nat /\ m[u + 2] \in Nat /\ 6 <= m[u + 2]
  BY <1>3, Geometry
<1>6. \A u \in T2 : u \in Nat /\ mm[u + 2] \in Nat /\ 6 <= mm[u + 2]
  BY <1>3, Geometry
<1>7. /\ n <= m[t + 2]
      /\ T2 = T \/ (T2 = T \cup {t + n} /\ mm[t + n] = 0 /\ mm[t + n + 2] = m[t + 2] - n)
  <2>1. r.taken \in Nat /\ n <= r.taken /\ r.taken <= m[t + 2]
    BY <1>2 DEF GrantedTag
  <2>2. T2 = T \/ (T2 = T \cup {t + n} /\ mm[t + n] = 0 /\ mm[t + n + 2] = m[t + 2] - n)
    BY <1>2 DEF GrantedRest
  <2>3. n <= m[t + 2]
    BY <1>4, <1>5, <2>1
  <2> QED
    BY <2>2, <2>3
<1> HIDE DEF mm
<1>8. \A u \in T \ {t} : mm[u] = m[u] /\ mm[u + 2] = m[u + 2] /\ (m[u] = 1 => Untouched(m, mm, u))
  BY <1>2 DEF Frame
<1>9. UsedIn(mm, T2, {t}) = U
  BY <1>4, <1>7, <1>8 DEF UsedIn
<1>10. U \subseteq T \ {t} /\ \A u \in U : m[u] = 1
  BY <1>4 DEF UsedIn
<1> HIDE DEF U
<1>11. Held(mm, lv, U)
  <2>1. \A u \in U : u \in Nat /\ m[u + 2] \in Nat
    BY <1>5, <1>10
  <2>2. \A u \in U : Untouched(m, mm, u) /\ mm[u + 2] = m[u + 2]
    BY <1>8, <1>10
  <2> QED
    BY <1>1, <2>1, <2>2, HeldFrame
<1>12. Separate(mm, FreeIn(mm, T2, {t}))
  <2> SUFFICES ASSUME NEW u \in FreeIn(mm, T2, {t}), NEW v \in FreeIn(mm, T2, {t}), v = u + mm[u + 2]
               PROVE  FALSE
    BY DEF Separate
  <2>1. u \in T2 /\ u # t /\ mm[u] = 0 /\ v \in T2 /\ v # t /\ mm[v] = 0
    BY DEF FreeIn
  <2>2. \A x \in T \ {t} : mm[x] = 0 => x \in F
    BY <1>8 DEF FreeIn
  <2>3. t \in F
    OBVIOUS
  <2> HIDE DEF F
  <2>4. CASE u \in T /\ v \in T
    <3>1. u \in F /\ v \in F /\ mm[u + 2] = m[u + 2]
      BY <1>8, <2>1, <2>2, <2>4
    <3> QED
      BY <1>1, <3>1 DEF Separate
  <2>5. CASE u \notin T
    <3>1. u = t + n /\ mm[u + 2] = m[t + 2] - n /\ T2 = T \cup {t + n}
      BY <1>7, <2>1, <2>5
    <3>2. v = t + m[t + 2]
      BY <1>4, <1>5, <3>1
    <3>3. v # u
      BY <1>6, <2>1
    <3>4. v \in T
      BY <2>1, <3>1, <3>3
    <3>5. v \in F
      BY <2>1, <2>2, <3>4
    <3> QED
      BY <1>1, <2>3, <3>2, <3>5 DEF Separate
  <2>6. CASE u \in T /\ v \notin T
    <3>1. v = t + n
      BY <1>7, <2>1, <2>6
    <3>2. mm[u + 2] = m[u + 2]
      BY <1>8, <2>1, <2>6
    <3>3. t + m[t + 2] <= u \/ u + m[u + 2] <= t
      BY <1>3, <1>4, <2>1, <2>6, Geometry
    <3>4. u \in Nat /\ m[u + 2] \in Nat /\ 6 <= m[u + 2] /\ t \in Nat /\ m[t + 2] \in Nat
      BY <1>4, <1>5, <2>6
    <3> QED
      BY <1>7, <3>1, <3>2, <3>3, <3>4
  <2> QED
    BY <2>4, <2>5, <2>6
<1>13. BigUsed(mm, B)
  <2> SUFFICES ASSUME NEW b \in B, ~Small(mm[b + 2] - 3)
               PROVE  mm[b + 5] = mm[b + 2] - 3 /\ mm[b + 3] = 1
    BY DEF BigUsed
  <2>1. mm[b + 2] = m[b + 2]
    BY <1>2 DEF HeadersSame
  <2>2. m[b + 5] = m[b + 2] - 3 /\ m[b + 3] = 1
    BY <1>1, <2>1 DEF BigUsed
  <2>3. b \in Nat
    BY <1>3, Geometry
  <2>4. b + 3 \in T /\ b + 3 # t
    BY <1>3, <1>4, <2>2 DEF Shape
  <2>5. mm[b + 3] = m[b + 3] /\ mm[b + 3 + 2] = m[b + 3 + 2]
    BY <1>8, <2>4
  <2>6. b + 3 + 2 = b + 5
    BY <2>3
  <2> QED
    BY <2>1, <2>2, <2>5, <2>6
<1>14. Counted(mm, c, B, U)
  <2>1. \A u \in U : mm[u + 2] = m[u + 2]
    BY <1>8, <1>10
  <2> QED
    BY <1>1, <1>2, <2>1, CountedSame
<1>15. Good(mm, r.heap.bkt, c, lv, B, T2, own2, {t}, rk2, lim2)
  <2>1. Heaped(mm, r.heap.bkt, B, T2, own2, {t}, rk2, lim2)
    BY <1>2
  <2>2. CntTyped(c)
    BY <1>1
  <2> QED
    BY <1>9, <1>11, <1>12, <1>13, <1>14, <2>1, <2>2 DEF Good
<1> QED
  BY <1>15 DEF mm

\* Every block but the pool's own and x has a tag in use.
KeptBut(m, B, T, own, H, x) ==
  \A b \in B \ {BaseBlk, x} : \E t \in T \ H : own[t] = b /\ m[t] = 1

LEMMA TagSizeIs ==
  ASSUME NEW acts \in Nat \ {0}
  PROVE  TagSize(acts) = acts + 5 /\ TagSize(acts) \in Nat /\ 6 <= TagSize(acts)
BY DEF TagSize, UnuseS, ThreshS, HeadS, TailS

\* An allocation from a free tag.
Settled(m2, k2, c2, lv2, B) ==
  \E T2, own2, rk2, lim2 : /\ Good(m2, k2, c2, lv2, B, T2, own2, {}, rk2, lim2)
                           /\ KeptBut(m2, B, T2, own2, {}, BaseBlk)

LEMMA AllocKeeps ==
  ASSUME NEW m, NEW k, NEW c, NEW lv, NEW B, NEW T, NEW own, NEW rk, NEW lim,
         Good(m, k, c, lv, B, T, own, {}, rk, lim), NEW t \in FreeIn(m, T, {}),
         KeptBut(m, B, T, own, {}, own[t]),
         NEW acts \in Nat \ {0}, TagSize(acts) <= m[t + 2],
         NEW r, r = TagAlloc([mem |-> m, bkt |-> k], t, TagSize(acts)),
         NEW c2, InuseMore(c, c2, r.taken)
  PROVE  Settled(GiveMem(r.heap.mem, t, acts), r.heap.bkt, c2, WithRegion(lv, t + 4, acts), B)
<1> DEFINE n == TagSize(acts)
           mm == r.heap.mem
           m2 == GiveMem(r.heap.mem, t, acts)
           lv2 == WithRegion(lv, t + 4, acts)
<1>1. n = acts + 5 /\ n \in Nat /\ 6 <= n
  BY TagSizeIs
<1>2. Heaped(m, k, B, T, own, {}, rk, lim)
  BY DEF Good
<1>3. PICK T2, own2, rk2, lim2 : Granted(m, B, T, own, t, n, r, T2, own2, rk2, lim2)
  <2>1. n <= m[t + 2]
    OBVIOUS
  <2> HIDE DEF n
  <2> QED
    BY <1>1, <1>2, <2>1, TagAllocKeeps DEF n
<1> HIDE DEF n
<1>4. Good(mm, r.heap.bkt, c, lv, B, T2, own2, {t}, rk2, lim2)
  BY <1>1, <1>3, GrantKeeps
<1>5. /\ mm[t] = 1 /\ mm[t + 2] = r.taken /\ mm[t + 3] = own[t] /\ mm[t + r.taken - 1] = t
      /\ own2[t] = own[t] /\ r.taken \in Nat /\ n <= r.taken
  BY <1>3 DEF Granted, GrantedTag
<1>6. GiveReady(mm, own2, t, acts)
  <2>1. acts + 5 <= mm[t + 2]
    BY <1>1, <1>5
  <2> QED
    BY <1>5, <2>1 DEF GiveReady
<1>7. InuseMore(c, c2, mm[t + 2])
  BY <1>5
<1>8. Good(m2, r.heap.bkt, c2, lv2, B, T2, own2, {}, rk2, lim2) /\ Stable(mm, m2, B, T2)
  <2> HIDE DEF mm, m2, lv2
  <2>1. m2 = GiveMem(mm, t, acts)
    BY DEF mm, m2
  <2>2. Good(m2, r.heap.bkt, c2, WithRegion(lv, t + 4, acts), B, T2, own2, {}, rk2, lim2) /\ Stable(mm, m2, B, T2)
    BY <1>4, <1>6, <1>7, <2>1, GiveKeeps
  <2> QED
    BY <2>2 DEF lv2
<1>9. KeptBut(m2, B, T2, own2, {}, BaseBlk)
  <2>1. t \in T /\ m[t] = 0
    BY DEF FreeIn
  <2>2. T \subseteq T2 /\ \A u \in T : own2[u] = own[u]
    <3>1. GrantedRest(m, mm, T, own, t, n, r.taken, T2, own2)
      BY <1>3 DEF Granted
    <3> QED
      BY <3>1 DEF GrantedRest
  <2>3. \A u \in T \ {t} : mm[u] = m[u]
    BY <1>3 DEF Granted, Frame
  <2>4. \A u \in T2 : m2[u] = mm[u]
    BY <1>8 DEF Stable
  <2> SUFFICES ASSUME NEW b \in B \ {BaseBlk} PROVE \E u \in T2 : own2[u] = b /\ m2[u] = 1
    BY DEF KeptBut
  <2>5. CASE b = own[t]
    BY <1>5, <2>1, <2>2, <2>4, <2>5
  <2>6. CASE b # own[t]
    <3>1. PICK u \in T : own[u] = b /\ m[u] = 1
      BY <2>6 DEF KeptBut
    <3> QED
      BY <2>1, <2>2, <2>3, <2>4, <3>1
  <2> QED
    BY <2>5, <2>6
<1> QED
  BY <1>8, <1>9 DEF Settled

\* A heap as a record of a memory and its buckets.
HeapLike(h) == \A x : [h EXCEPT !.mem = x].mem = x /\ [h EXCEPT !.mem = x].bkt = h.bkt

LEMMA PlainHeapLike ==
  ASSUME NEW m, NEW k
  PROVE  HeapLike([mem |-> m, bkt |-> k])
BY DEF HeapLike

LEMMA AddTagHeapLike ==
  ASSUME NEW h0, NEW i, NEW t
  PROVE  HeapLike(AddTag(h0, i, t))
<1>1. PICK y, z : AddTag(h0, i, t) = [bkt |-> y, mem |-> z]
  BY DEF AddTag
<1> QED
  BY <1>1 DEF HeapLike

LEMMA TagAllocHeapLike ==
  ASSUME NEW m, NEW k, NEW t, NEW n
  PROVE  HeapLike(TagAlloc([mem |-> m, bkt |-> k], t, n).heap)
<1> DEFINE h0 == [mem |-> m, bkt |-> k]
           h1 == RmTag(h0, t)
           res == TagAlloc(h0, t, n).heap
<1>1. \/ \E x : res = [h1 EXCEPT !.mem = x]
      \/ \E x, nt, blk : res = PutFree([h1 EXCEPT !.mem = x], nt, blk)
  BY DEF TagAlloc
<1>2. \A x, nt, blk : \E h, i : PutFree([h1 EXCEPT !.mem = x], nt, blk) = AddTag(h, i, nt)
  BY DEF PutFree
<1>3. \A x : [h1 EXCEPT !.mem = x] = [mem |-> x, bkt |-> h1.bkt]
  BY RmTagHeap
<1> HIDE DEF res, h1, h0
<1>4. CASE \E x : res = [h1 EXCEPT !.mem = x]
  <2>1. PICK x : res = [mem |-> x, bkt |-> h1.bkt]
    BY <1>3, <1>4, Zenon
  <2>2. HeapLike([mem |-> x, bkt |-> h1.bkt])
    BY PlainHeapLike
  <2>3. HeapLike(res)
    BY <2>1, <2>2, Zenon
  <2> QED
    BY <2>3 DEF res, h0
<1>5. CASE \E x, nt, blk : res = PutFree([h1 EXCEPT !.mem = x], nt, blk)
  <2>0. PICK x, nt, blk : res = PutFree([h1 EXCEPT !.mem = x], nt, blk)
    BY <1>5
  <2>1. PICK h, i : res = AddTag(h, i, nt)
    <3>1. \E h, i : PutFree([h1 EXCEPT !.mem = x], nt, blk) = AddTag(h, i, nt)
      BY <1>2
    <3> DEFINE pf == PutFree([h1 EXCEPT !.mem = x], nt, blk)
    <3>2. res = pf /\ \E h, i : pf = AddTag(h, i, nt)
      BY <2>0, <3>1
    <3> HIDE DEF pf
    <3> QED
      BY <3>2
  <2>2. HeapLike(AddTag(h, i, nt))
    BY AddTagHeapLike
  <2>3. HeapLike(res)
    BY <2>1, <2>2, Zenon
  <2> QED
    BY <2>3 DEF res, h0
<1> QED
  BY <1>1, <1>4, <1>5

LEMMA GiveIs ==
  ASSUME NEW h, HeapLike(h), NEW t \in Nat, NEW acts, h.mem[t + 2] \in Int, Give(h, t, acts)
  PROVE  /\ mem' = GiveMem(h.mem, t, acts) /\ bkt' = h.bkt
         /\ live' = WithRegion(live, t + 4, acts) /\ pc' = "idle" /\ loc' = NoLoc
<1>1. t_blk(foot(h.mem, t)) = t + h.mem[t + 2] - 2
  BY DEF t_blk, foot, size, TailS
<1>2. mem' = GiveMem(h.mem, t, acts) /\ bkt' = h.bkt
  <2>1. SetHeap([h EXCEPT !.mem = GiveMem(h.mem, t, acts)])
    BY <1>1 DEF Give, GiveMem, HeadS, pre, Written
  <2> QED
    BY <2>1 DEF SetHeap, HeapLike
<1>3. live' = WithRegion(live, t + 4, acts)
  BY DEF Give, WithRegion, HeadS
<1> QED
  BY <1>2, <1>3 DEF Give

(* Blocks enter and leave the list of blocks. *)

\* The words of tags and of headers of the blocks B are outside the room of another.
Outside(b, c) == c < b \/ b + Room(b) <= c

LEMMA OutsideRoom ==
  ASSUME NEW m, NEW B, NEW T, NEW own, Shape(m, B, T, own), NEW b \in BlockSet
  PROVE  /\ \A u \in T : own[u] # b => \A c \in Int : u <= c /\ c < u + m[u + 2] => Outside(b, c)
         /\ \A x \in B : x # b => \A c \in Int : x <= c /\ c <= x + 2 => Outside(b, c)
         /\ \A x \in B : 9 <= Room(x) /\ Room(x) \in Nat
<1>1. /\ B \subseteq BlockSet /\ \A x \in B : m[x + 2] \in Nat /\ m[x + 2] <= Room(x)
                                              /\ x + 3 \in T /\ own[x + 3] = x
      /\ \A t \in T : own[t] \in B /\ m[t + 2] \in Nat /\ 6 <= m[t + 2]
                      /\ own[t] + 3 <= t /\ t + m[t + 2] <= own[t] + m[own[t] + 2]
  BY DEF Shape
<1>2. \A x \in BlockSet : x \in Nat /\ Room(x) \in Nat
  BY Rooms
<1>3. \A x \in B : x # b => x + Room(x) <= b \/ b + Room(b) <= x
  BY <1>1, Rooms
<1>4. ASSUME NEW x \in B PROVE 9 <= Room(x) /\ Room(x) \in Nat
  <2>1. x + 3 \in T /\ own[x + 3] = x /\ x \in Nat /\ Room(x) \in Nat /\ m[x + 2] \in Nat /\ m[x + 2] <= Room(x)
    BY <1>1, <1>2
  <2>2. m[x + 3 + 2] \in Nat /\ 6 <= m[x + 3 + 2] /\ x + 3 + m[x + 3 + 2] <= x + m[x + 2]
    BY <1>1, <2>1
  <2> QED
    BY <2>1, <2>2
<1>5. ASSUME NEW x \in B, x # b, NEW c \in Int, x <= c, c <= x + 2 PROVE Outside(b, c)
  <2>1. x + Room(x) <= b \/ b + Room(b) <= x
    BY <1>3, <1>5
  <2>2. x \in Nat /\ b \in Nat /\ Room(b) \in Nat /\ Room(x) \in Nat /\ 9 <= Room(x)
    BY <1>1, <1>2, <1>4
  <2> QED
    BY <1>5, <2>1, <2>2 DEF Outside
<1>6. ASSUME NEW u \in T, own[u] # b, NEW c \in Int, u <= c, c < u + m[u + 2] PROVE Outside(b, c)
  <2> DEFINE x == own[u]
  <2>1. x \in B /\ m[u + 2] \in Nat /\ x + 3 <= u /\ u + m[u + 2] <= x + m[x + 2] /\ m[x + 2] \in Nat /\ m[x + 2] <= Room(x)
    BY <1>1
  <2>2. x + Room(x) <= b \/ b + Room(b) <= x
    BY <1>3, <1>6, <2>1
  <2>3. x \in Nat /\ b \in Nat /\ Room(b) \in Nat /\ Room(x) \in Nat /\ u \in Nat
    <3>1. T \subseteq Nat
      BY DEF Shape
    <3> QED
      BY <1>1, <1>2, <2>1, <3>1
  <2> HIDE DEF x
  <2> QED
    BY <1>6, <2>1, <2>2, <2>3 DEF Outside
<1> QED
  BY <1>4, <1>5, <1>6

\* tl_pool_add_blk, and writes in the block itself.
BlkAdded(m, m2, b) ==
  /\ m2 \in Memory
  /\ m2[b + 1] = m[BaseBlk + 1] /\ m2[b] = BaseBlk
  /\ m2[m[BaseBlk + 1]] = b /\ m2[BaseBlk + 1] = b
  /\ \A c \in Cell : Outside(b, c) /\ c # m[BaseBlk + 1] /\ c # BaseBlk + 1 => m2[c] = m[c]

LEMMA AddedRing ==
  ASSUME NEW m, NEW B, NEW T, NEW own, NEW rk, Shape(m, B, T, own), BaseBlk \in B,
         Ring(m, B, m[BaseBlk + 1], 0, 1, rk), NEW b \in BlockSet, b \notin B,
         NEW m2, BlkAdded(m, m2, b), NEW rk2, RankAdded(B, b, rk, rk2)
  PROVE  Ring(m2, B \cup {b}, m2[BaseBlk + 1], 0, 1, rk2)
<1> DEFINE head == m[BaseBlk + 1]
<1>1. head \in B /\ m[head + 0] = BaseBlk /\ \A x \in B : m[x + 1] \in B
  BY DEF Ring
<1>2. \A x \in B : x \in Nat /\ x # NULL /\ x \in Cell /\ x + 1 \in Cell
  BY Geometry
<1>3. \A x \in B : x # b => \A c \in Int : x <= c /\ c <= x + 2 => Outside(b, c)
  BY OutsideRoom
<1>4. \A x, y \in B : x # y => x + 3 <= y \/ y + 3 <= x
  BY Geometry
<1>5. b \in Nat /\ b # NULL
  BY Rooms
<1>6. /\ m2[b + 1] = head /\ m2[b] = BaseBlk /\ m2[head] = b /\ m2[BaseBlk + 1] = b
      /\ \A c \in Cell : Outside(b, c) /\ c # head /\ c # BaseBlk + 1 => m2[c] = m[c]
  BY DEF BlkAdded
<1> HIDE DEF head
<1>7. ASSUME NEW x \in B
      PROVE  /\ m2[x + 1] = IF x = m[head + 0] THEN b ELSE m[x + 1]
             /\ m2[x + 0] = IF x = head THEN b ELSE m[x + 0]
  <2>1. Outside(b, x) /\ Outside(b, x + 1)
    BY <1>2, <1>3
  <2>2. x + 1 # head /\ (x + 1 = BaseBlk + 1 <=> x = BaseBlk) /\ x # BaseBlk + 1
    <3>1. x \in Nat /\ head \in Nat /\ BaseBlk \in Nat
      BY <1>1, <1>2
    <3>2. x # head => x + 3 <= head \/ head + 3 <= x
      BY <1>1, <1>4
    <3>3. x # BaseBlk => x + 3 <= BaseBlk \/ BaseBlk + 3 <= x
      BY <1>4
    <3> QED
      BY <3>1, <3>2, <3>3
  <2>3. m2[x + 1] = IF x = m[head + 0] THEN b ELSE m[x + 1]
    <3>1. CASE x = BaseBlk
      BY <1>1, <1>6, <3>1
    <3>2. CASE x # BaseBlk
      BY <1>1, <1>2, <1>6, <2>1, <2>2, <3>2
    <3> QED
      BY <3>1, <3>2
  <2>4. x + 0 = x
    BY <1>2
  <2>5. m2[x] = IF x = head THEN b ELSE m[x]
    <3>1. CASE x = head
      BY <1>6, <3>1
    <3>2. CASE x # head
      BY <1>2, <1>6, <2>1, <2>2, <3>2
    <3> QED
      BY <3>1, <3>2
  <2> QED
    BY <2>3, <2>4, <2>5
<1>8. m2[b + 0] = m[head + 0]
  BY <1>1, <1>5, <1>6
<1>9. RingAdded(m, m2, B, head, b, 0, 1)
  BY <1>5, <1>6, <1>7, <1>8 DEF RingAdded
<1>10. Ring(m2, B \cup {b}, b, 0, 1, rk2)
  <2>1. Ring(m, B, head, 0, 1, rk)
    BY DEF head
  <2> QED
    BY <1>9, <2>1, RingAdd
<1> QED
  BY <1>6, <1>10

\* A block of one tag is added, which is in hand.
WithBlock(m2, k, B, T, own, H2, rk, lim, b) ==
  Heaped(m2, k, B \cup {b}, T \cup {b + 3}, [u \in T \cup {b + 3} |-> IF u = b + 3 THEN b ELSE own[u]],
         H2, RankNew(rk, b, lim), lim + 1)

SizesKept(m, m2, B) == \A x \in B : m2[x + 2] = m[x + 2]

LEMMA AddedHeap ==
  ASSUME NEW m, NEW k, NEW B, NEW T, NEW own, NEW rk, NEW lim,
         Heaped(m, k, B, T, own, {}, rk, lim), NEW b \in BlockSet, b \notin B,
         NEW m2, BlkAdded(m, m2, b), BlockAt(m2, b)
  PROVE  /\ WithBlock(m2, k, B, T, own, {b + 3}, rk, lim, b) /\ b + 3 \notin T
         /\ \A u \in T : Untouched(m, m2, u)
         /\ SizesKept(m, m2, B)
<1> DEFINE own2 == [u \in T \cup {b + 3} |-> IF u = b + 3 THEN b ELSE own[u]]
           rk2 == RankNew(rk, b, lim)
           T2 == T \cup {b + 3}
<1>1. /\ m \in Memory /\ Shape(m, B, T, own) /\ BaseBlk \in B
      /\ Ring(m, B, m[BaseBlk + 1], 0, 1, rk) /\ Ranked(rk, lim)
  BY DEF Heaped
<1>2. m[BaseBlk + 1] \in B
  BY <1>1 DEF Ring
<1>3. \A u \in T : u \in Nat /\ m[u + 2] \in Nat /\ 6 <= m[u + 2]
  BY <1>1, Geometry
<1>4. \A u \in T : \A c \in Int : u <= c /\ c < u + m[u + 2] => c \in Cell
  BY <1>1, Geometry
<1>5. \A u \in T, x \in B : u + m[u + 2] <= x \/ x + 3 <= u
  BY <1>1, Geometry
<1>6. \A x \in B : x \in Nat /\ x \in Cell /\ x + 2 \in Cell
  BY <1>1, Geometry
<1>7. \A u \in T : own[u] # b
  BY <1>1 DEF Shape
<1>8. \A u \in T : \A c \in Int : u <= c /\ c < u + m[u + 2] => Outside(b, c)
  BY <1>1, <1>7, OutsideRoom
<1>9. \A x \in B : \A c \in Int : x <= c /\ c <= x + 2 => Outside(b, c)
  BY <1>1, OutsideRoom
<1>10. \A c \in Cell : Outside(b, c) /\ c # m[BaseBlk + 1] /\ c # BaseBlk + 1 => m2[c] = m[c]
  BY DEF BlkAdded
<1>11. ASSUME NEW u \in T PROVE Untouched(m, m2, u)
  <2> SUFFICES ASSUME NEW c \in Int, u <= c, c < u + m[u + 2] PROVE m2[c] = m[c]
    BY DEF Untouched
  <2>1. c \in Cell /\ Outside(b, c)
    BY <1>4, <1>8
  <2>2. \A x \in B : c # x /\ c # x + 1
    <3> SUFFICES ASSUME NEW x \in B PROVE c # x /\ c # x + 1
      OBVIOUS
    <3>1. u + m[u + 2] <= x \/ x + 3 <= u
      BY <1>5
    <3>2. u \in Nat /\ m[u + 2] \in Nat /\ x \in Nat
      BY <1>3, <1>6
    <3> QED
      BY <3>1, <3>2
  <2> QED
    BY <1>1, <1>2, <1>10, <2>1, <2>2
<1>12. ASSUME NEW x \in B PROVE m2[x + 2] = m[x + 2]
  <2>1. Outside(b, x + 2) /\ x + 2 \in Cell /\ x \in Nat
    BY <1>6, <1>9
  <2>2. \A y \in B : x + 2 # y /\ x + 2 # y + 1
    <3> SUFFICES ASSUME NEW y \in B PROVE x + 2 # y /\ x + 2 # y + 1
      OBVIOUS
    <3>1. x # y => x + 3 <= y \/ y + 3 <= x
      BY <1>1, Geometry
    <3>2. x \in Nat /\ y \in Nat
      BY <1>6
    <3> QED
      BY <3>1, <3>2
  <2> QED
    BY <1>1, <1>2, <1>10, <2>1, <2>2
<1>13. Shape(m2, B \cup {b}, T2, own2) /\ b + 3 \notin T
  <2>1. SameSizes(m, m2, B, T)
    <3>1. \A u \in T : m2[u + 2] = m[u + 2]
      BY <1>1, <1>11, UntouchedIs
    <3> QED
      BY <1>12, <3>1 DEF SameSizes
  <2> QED
    BY <1>1, <2>1, AddShape
<1>14. b \in Cell /\ b \notin T
  <2>1. Shape(m2, B \cup {b}, T2, own2)
    BY <1>13
  <2>2. b \in Cell
    <3> HIDE DEF T2, own2
    <3> QED
      BY <2>1, Geometry
  <2>3. \A u \in T2 : u # b
    <3> HIDE DEF T2, own2
    <3> QED
      BY <2>1, TagsIn
  <2> QED
    BY <2>2, <2>3
<1>15. Ranked(rk2, lim + 1) /\ rk2[b] = lim /\ \A x \in Cell : x # b => rk2[x] = rk[x]
  <2>1. rk \in [Cell -> Nat] /\ lim \in Nat /\ \A x \in Cell : rk[x] < lim
    BY <1>1 DEF Ranked
  <2>2. rk2 \in [Cell -> Nat] /\ rk2[b] = lim /\ \A x \in Cell : x # b => rk2[x] = rk[x]
    BY <1>14, <2>1 DEF RankNew
  <2> HIDE DEF rk2
  <2>3. \A x \in Cell : rk2[x] < lim + 1
    <3> SUFFICES ASSUME NEW x \in Cell PROVE rk2[x] < lim + 1
      OBVIOUS
    <3>1. rk[x] \in Nat /\ rk[x] < lim
      BY <2>1
    <3>2. CASE x = b
      BY <2>1, <2>2, <3>2
    <3>3. CASE x # b
      BY <2>1, <2>2, <3>1, <3>3
    <3> QED
      BY <3>2, <3>3
  <2> QED
    BY <2>1, <2>2, <2>3 DEF Ranked
<1>16. \A x \in T : x \in Cell
  BY <1>1, TagsIn
<1> HIDE DEF rk2
<1>17. Ring(m2, B \cup {b}, m2[BaseBlk + 1], 0, 1, rk2)
  <2>1. RankAdded(B, b, rk, rk2)
    <3>1. lim \in Nat /\ \A x \in Cell : rk[x] < lim
      BY <1>1 DEF Ranked
    <3>2. \A x \in B : x \in Cell /\ x # b
      BY <1>6
    <3> QED
      BY <1>15, <3>1, <3>2 DEF RankAdded
  <2> QED
    BY <1>1, <2>1, AddedRing
<1>18. Rebuilt(m, m2, T, own, {}, B \cup {b}, T2, own2, {b + 3}, rk, rk2, lim + 1)
  <2>1. m2 \in Memory
    BY DEF BlkAdded
  <2>2. {b + 3} \subseteq T2 /\ T \ {} \subseteq T2 \ {b + 3} /\ \A u \in T2 \ {b + 3} : u \in T \ {}
    BY <1>13
  <2>3. \A u \in T \ {} : own2[u] = own[u] /\ Untouched(m, m2, u) /\ rk2[u] = rk[u]
    BY <1>11, <1>13, <1>14, <1>15, <1>16
  <2> HIDE DEF T2, own2
  <2> QED
    BY <1>1, <1>13, <1>15, <1>17, <2>1, <2>2, <2>3 DEF Rebuilt
<1>19. Heaped(m2, k, B \cup {b}, T2, own2, {b + 3}, rk2, lim + 1)
  <2> DEFINE B2 == B \cup {b}
             H2 == {b + 3}
             lim2 == lim + 1
             H == {}
  <2> HIDE DEF T2, own2
  <2>1. Rebuilt(m, m2, T, own, H, B2, T2, own2, H2, rk, rk2, lim2) /\ Heaped(m, k, B, T, own, H, rk, lim)
    BY <1>18
  <2> HIDE DEF B2, H2, lim2, H
  <2>2. Heaped(m2, k, B2, T2, own2, H2, rk2, lim2)
    BY <2>1, RebuiltHeap
  <2> QED
    BY <2>2 DEF B2, H2, lim2
<1> QED
  BY <1>11, <1>12, <1>13, <1>19 DEF WithBlock, rk2, SizesKept

\* The counters after a block of the given words.
BlkMore(c, c2, words) ==
  CntTyped(c2) /\ c2.inuse = c.inuse /\ c2.blk = c.blk + 1 /\ c2.alloc = c.alloc + words

LEMMA BlocksFinite ==
  ASSUME NEW B, B \subseteq BlockSet
  PROVE  IsFiniteSet(B) /\ Cardinality(B) \in Nat
<1>1. IsFiniteSet(BlockSet)
  BY LayoutAssumption, FS_AddElement DEF BlockSet
<1> QED
  BY <1>1, FS_Subset, FS_CardinalityType

AddedTag(m, m2, k, c2, lv, B, T, own, b) ==
  \E T2, own2, rk2, lim2 :
    /\ Good(m2, k, c2, lv, B \cup {b}, T2, own2, {b + 3}, rk2, lim2)
    /\ T2 = T \cup {b + 3} /\ b + 3 \notin T /\ own2[b + 3] = b
    /\ \A u \in T : own2[u] = own[u] /\ m2[u] = m[u]

LEMMA AddedGood ==
  ASSUME NEW m, NEW k, NEW c, NEW lv, NEW B, NEW T, NEW own, NEW rk, NEW lim,
         Good(m, k, c, lv, B, T, own, {}, rk, lim), NEW b \in BlockSet, b \notin B,
         NEW m2, BlkAdded(m, m2, b), BlockAt(m2, b), Small(m2[b + 2] - 3) \/ m2[b + 3] = 1,
         NEW c2, BlkMore(c, c2, m2[b + 2])
  PROVE  AddedTag(m, m2, k, c2, lv, B, T, own, b)
<1> DEFINE T2 == T \cup {b + 3}
           own2 == [u \in T \cup {b + 3} |-> IF u = b + 3 THEN b ELSE own[u]]
           rk2 == RankNew(rk, b, lim)
           lim2 == lim + 1
           B2 == B \cup {b}
           U == UsedIn(m, T, {})
           F == FreeIn(m, T, {})
<1>1. /\ Heaped(m, k, B, T, own, {}, rk, lim) /\ Held(m, lv, U) /\ Separate(m, F)
      /\ BigUsed(m, B) /\ Counted(m, c, B, U)
  BY DEF Good
<1>2. Shape(m, B, T, own)
  BY <1>1 DEF Heaped
<1>3. /\ Heaped(m2, k, B2, T2, own2, {b + 3}, rk2, lim2) /\ b + 3 \notin T
      /\ (\A u \in T : Untouched(m, m2, u)) /\ \A x \in B : m2[x + 2] = m[x + 2]
  <2>1. WithBlock(m2, k, B, T, own, {b + 3}, rk, lim, b) /\ b + 3 \notin T
    BY <1>1, AddedHeap, Zenon
  <2>2. \A u \in T : Untouched(m, m2, u)
    BY <1>1, AddedHeap, Zenon
  <2>3. SizesKept(m, m2, B)
    BY <1>1, AddedHeap, Zenon
  <2>4. Heaped(m2, k, B2, T2, own2, {b + 3}, rk2, lim2)
    BY <2>1, Zenon DEF WithBlock
  <2> QED
    BY <2>1, <2>2, <2>3, <2>4 DEF SizesKept
<1>4. \A u \in T : m2[u] = m[u] /\ m2[u + 2] = m[u + 2]
  BY <1>2, <1>3, UntouchedIs
<1>5. UsedIn(m2, T2, {b + 3}) = U /\ U \subseteq T
  BY <1>3, <1>4 DEF UsedIn
<1>6. FreeIn(m2, T2, {b + 3}) = F /\ F \subseteq T
  BY <1>3, <1>4 DEF FreeIn
<1>7. own2[b + 3] = b /\ \A u \in T : own2[u] = own[u]
  BY <1>3
<1> HIDE DEF T2, own2, rk2, lim2, U, F, B2
<1>8. Held(m2, lv, U)
  <2>1. \A u \in U : u \in Nat /\ m[u + 2] \in Nat
    BY <1>2, <1>5, Geometry
  <2>2. \A u \in U : Untouched(m, m2, u) /\ m2[u + 2] = m[u + 2]
    BY <1>3, <1>4, <1>5
  <2> QED
    BY <1>1, <2>1, <2>2, HeldFrame
<1>9. Separate(m2, F)
  BY <1>1, <1>4, <1>6 DEF Separate
<1>10. BigUsed(m2, B2)
  <2> SUFFICES ASSUME NEW x \in B2, ~Small(m2[x + 2] - 3)
               PROVE  m2[x + 5] = m2[x + 2] - 3 /\ m2[x + 3] = 1
    BY DEF BigUsed
  <2>1. CASE x = b
    BY <2>1 DEF BlockAt
  <2>2. CASE x # b
    <3>1. x \in B
      BY <2>2 DEF B2
    <3>2. m2[x + 2] = m[x + 2] /\ x \in Nat
      BY <1>2, <1>3, <3>1, Geometry
    <3>3. m[x + 5] = m[x + 2] - 3 /\ m[x + 3] = 1
      BY <1>1, <3>1, <3>2 DEF BigUsed
    <3>4. x + 3 \in T /\ x + 3 + 2 = x + 5
      BY <1>2, <3>1, <3>2 DEF Shape
    <3>5. m2[x + 3] = m[x + 3] /\ m2[x + 3 + 2] = m[x + 3 + 2]
      BY <1>4, <3>4
    <3> QED
      BY <3>2, <3>3, <3>4, <3>5
  <2> QED
    BY <2>1, <2>2
<1>11. Counted(m2, c2, B2, U)
  <2>1. TagWords(m2, U) = TagWords(m, U)
    <3>1. \A u \in U : m2[u + 2] = m[u + 2]
      BY <1>4, <1>5
    <3> QED
      BY <3>1, WordsSame
  <2>2. TagWords(m2, B) = TagWords(m, B)
    BY <1>3, WordsSame
  <2>3. Cardinality(TagWords(m2, B2)) = Cardinality(TagWords(m2, B)) + m2[b + 2]
    <3>1. B \subseteq BlockSet /\ \A x \in B : m[x + 2] \in Nat /\ m[x + 2] <= Room(x)
      BY <1>2 DEF Shape
    <3>2. \A x \in B \cup {b} : m2[x + 2] \in Nat /\ m2[x + 2] <= Room(x)
      BY <1>3, <3>1 DEF BlockAt
    <3> QED
      BY <3>1, <3>2, BlocksMore DEF B2
  <2>4. Cardinality(B2) = Cardinality(B) + 1
    <3>1. B \subseteq BlockSet
      BY <1>2 DEF Shape
    <3>2. IsFiniteSet(B)
      BY <3>1, BlocksFinite
    <3> QED
      BY <3>2, FS_AddElement DEF B2
  <2>5. c.inuse = Cardinality(TagWords(m, U)) /\ c.blk = Cardinality(B)
        /\ c.alloc = PoolHdr - 3 + Cardinality(TagWords(m, B))
    BY <1>1 DEF Counted
  <2>6. c2.inuse = c.inuse /\ c2.blk = c.blk + 1 /\ c2.alloc = c.alloc + m2[b + 2]
    BY DEF BlkMore
  <2>7. Cardinality(TagWords(m, B)) \in Nat /\ m2[b + 2] \in Nat /\ PoolHdr \in Nat
    <3>1. B \subseteq BlockSet /\ \A x \in B : m[x + 2] \in Nat /\ m[x + 2] <= Room(x)
      BY <1>2 DEF Shape
    <3>2. \A x \in B \cup {b} : m2[x + 2] \in Nat /\ m2[x + 2] <= Room(x)
      BY <1>3, <3>1 DEF BlockAt
    <3>3. Cardinality(TagWords(m2, B)) \in Nat
      BY <3>1, <3>2, BlocksMore
    <3> QED
      BY <2>2, <3>2, <3>3, LayoutAssumption
  <2>8. c2.inuse = Cardinality(TagWords(m2, U)) /\ c2.blk = Cardinality(B2)
    BY <2>1, <2>4, <2>5, <2>6
  <2>9. c2.alloc = PoolHdr - 3 + Cardinality(TagWords(m2, B2))
    BY <2>2, <2>3, <2>5, <2>6, <2>7
  <2> QED
    BY <2>8, <2>9 DEF Counted
<1>12. Good(m2, k, c2, lv, B2, T2, own2, {b + 3}, rk2, lim2)
  <2>1. CntTyped(c2)
    BY DEF BlkMore
  <2> DEFINE H2 == {b + 3}
  <2>2. Heaped(m2, k, B2, T2, own2, H2, rk2, lim2) /\ UsedIn(m2, T2, H2) = U /\ FreeIn(m2, T2, H2) = F
    BY <1>3, <1>5, <1>6
  <2> HIDE DEF H2
  <2>3. Good(m2, k, c2, lv, B2, T2, own2, H2, rk2, lim2)
    BY <1>8, <1>9, <1>10, <1>11, <2>1, <2>2 DEF Good
  <2> QED
    BY <2>3 DEF H2
<1>13. T2 = T \cup {b + 3} /\ B2 = B \cup {b}
  BY DEF T2, B2
<1>14. Good(m2, k, c2, lv, B \cup {b}, T2, own2, {b + 3}, rk2, lim2)
  BY <1>12, <1>13
<1>15. \A u \in T : own2[u] = own[u] /\ m2[u] = m[u]
  BY <1>4, <1>7
<1> QED
  BY <1>3, <1>7, <1>13, <1>14, <1>15 DEF AddedTag

\* A tag in hand goes into its bucket when no tag beside it is free.
Lonely(m, F, t) == \A u \in F : u # t + m[t + 2] /\ t # u + m[u + 2]

LEMMA PutFreeGood ==
  ASSUME NEW m, NEW k, NEW c, NEW lv, NEW B, NEW T, NEW own, NEW t, NEW rk, NEW lim,
         Good(m, k, c, lv, B, T, own, {t}, rk, lim), Lonely(m, FreeIn(m, T, {t}), t),
         Small(m[own[t] + 2] - 3), Small(m[t + 2]),
         NEW h, h = PutFree([mem |-> m, bkt |-> k], t, own[t])
  PROVE  /\ \E rk2, lim2 : Good(h.mem, h.bkt, c, lv, B, T, own, {}, rk2, lim2)
         /\ h.mem[t] = 0 /\ h.mem[t + 2] = m[t + 2] /\ \A u \in T \ {t} : h.mem[u] = m[u]
<1> DEFINE mm == h.mem
           U == UsedIn(m, T, {t})
           F == FreeIn(m, T, {t})
           rk2 == RankNew(rk, t, lim)
           lim2 == lim + 1
<1>1. /\ Heaped(m, k, B, T, own, {t}, rk, lim) /\ Held(m, lv, U) /\ Separate(m, F)
      /\ BigUsed(m, B) /\ CntTyped(c) /\ Counted(m, c, B, U)
  BY DEF Good
<1>2. Shape(m, B, T, own) /\ t \in T
  BY <1>1 DEF Heaped
<1>3. \A u \in T : u \in Nat /\ m[u + 2] \in Nat /\ 6 <= m[u + 2]
  BY <1>2, Geometry
<1>4. GivenBack(m, B, T, own, {t}, rk, lim, h, t)
  <2>1. Size2Idx(m[t + 2]) \in 0 .. MaxIdx - 1
    BY <1>2, <1>3, SmallIs
  <2>2. t \in {t}
    OBVIOUS
  <2> QED
    BY <1>1, <2>1, <2>2, PutFreeKeeps
<1>5. /\ Heaped(mm, h.bkt, B, T, own, {}, rk2, lim2)
      /\ Frame(m, mm, T \ {t}) /\ mm[t] = 0
      /\ (\A u \in T : mm[u + 2] = m[u + 2]) /\ HeadersSame(m, mm, B)
  <2>1. {t} \ {t} = {}
    OBVIOUS
  <2> QED
    BY <1>4, <2>1 DEF GivenBack
<1> HIDE DEF mm, rk2, lim2
<1>6. \A u \in T \ {t} : mm[u] = m[u] /\ (m[u] = 1 => Untouched(m, mm, u))
  BY <1>5 DEF Frame
<1>7. UsedIn(mm, T, {}) = U /\ U \subseteq T \ {t} /\ \A u \in U : m[u] = 1
  BY <1>2, <1>5, <1>6 DEF UsedIn
<1>8. FreeIn(mm, T, {}) = F \cup {t} /\ F \subseteq T
  BY <1>2, <1>5, <1>6 DEF FreeIn
<1>9. Lonely(m, F, t)
  OBVIOUS
<1> HIDE DEF U, F
<1>10. Held(mm, lv, U)
  <2>1. \A u \in U : u \in Nat /\ m[u + 2] \in Nat
    BY <1>3, <1>7
  <2>2. \A u \in U : Untouched(m, mm, u) /\ mm[u + 2] = m[u + 2]
    BY <1>5, <1>6, <1>7
  <2> QED
    BY <1>1, <2>1, <2>2, HeldFrame
<1>11. Separate(mm, FreeIn(mm, T, {}))
  <2> SUFFICES ASSUME NEW u \in F \cup {t}, NEW v \in F \cup {t}, v = u + m[u + 2] PROVE FALSE
    BY <1>2, <1>5, <1>8 DEF Separate
  <2>1. t # t + m[t + 2]
    BY <1>2, <1>3
  <2> QED
    BY <1>1, <1>9, <2>1 DEF Separate, Lonely
<1>12. BigUsed(mm, B)
  <2> SUFFICES ASSUME NEW b \in B, ~Small(mm[b + 2] - 3)
               PROVE  mm[b + 5] = mm[b + 2] - 3 /\ mm[b + 3] = 1
    BY DEF BigUsed
  <2>1. mm[b + 2] = m[b + 2] /\ b \in Nat
    BY <1>2, <1>5, Geometry DEF HeadersSame
  <2>2. m[b + 5] = m[b + 2] - 3 /\ m[b + 3] = 1
    BY <1>1, <2>1 DEF BigUsed
  <2>3. b + 3 \in T /\ own[b + 3] = b /\ b + 3 + 2 = b + 5
    BY <1>2, <2>1 DEF Shape
  <2>4. b + 3 # t
    BY <2>1, <2>3
  <2>5. mm[b + 3] = m[b + 3] /\ mm[b + 3 + 2] = m[b + 3 + 2]
    BY <1>5, <1>6, <2>3, <2>4
  <2> QED
    BY <2>1, <2>2, <2>3, <2>5
<1>13. Counted(mm, c, B, U)
  <2>1. \A u \in U : mm[u + 2] = m[u + 2]
    BY <1>5, <1>7
  <2> QED
    BY <1>1, <1>5, <2>1, CountedSame
<1>14. Good(mm, h.bkt, c, lv, B, T, own, {}, rk2, lim2)
  BY <1>1, <1>5, <1>7, <1>10, <1>11, <1>12, <1>13 DEF Good
<1> QED
  BY <1>2, <1>5, <1>6, <1>14 DEF mm

\* The memory without the block b: its neighbours on the list are linked, and
\* nothing else outside it changes.
BlkDropped(m, m2, b) ==
  /\ m2 \in Memory
  /\ m2[m[b] + 1] = m[b + 1] /\ m2[m[b + 1]] = m[b]
  /\ \A c \in Cell : Outside(b, c) /\ c # m[b] + 1 /\ c # m[b + 1] => m2[c] = m[c]

LEMMA DroppedIs ==
  ASSUME NEW m \in Memory, NEW B, NEW T, NEW own, Shape(m, B, T, own), BaseBlk \in B, NEW b \in B, b # BaseBlk,
         m[b] \in B \ {b}, m[b + 1] \in B \ {b}, NEW m2, m2 = Wipe(RmBlk(m, b), b)
  PROVE  BlkDropped(m, m2, b)
<1> DEFINE p == m[b]
           s == m[b + 1]
           m1 == [[m EXCEPT ![p + 1] = s] EXCEPT ![s] = p]
<1>1. p \in Nat /\ p \in Cell /\ p + 1 \in Cell /\ s \in Nat /\ s \in Cell /\ s + 1 \in Cell
  BY Geometry
<1>2. p + 1 # s
  <2>1. p # s => p + 3 <= s \/ s + 3 <= p
    BY Geometry
  <2> QED
    BY <1>1, <2>1
<1>3. b \in BlockSet /\ b # Base /\ b \in Slots
  <2>1. b \in BlockSet
    BY DEF Shape
  <2>2. b \in Slots
    BY <2>1 DEF BlockSet
  <2> QED
    BY <2>1, <2>2, LayoutAssumption
<1>4. b \in Nat /\ SlotS \in Nat /\ Room(b) = SlotS
  BY <1>3, Geometry, LayoutAssumption DEF Room
<1>5. \A c \in Cell : c \in Int /\ (c \in Cells(b) <=> ~Outside(b, c))
  <2> SUFFICES ASSUME NEW c \in Cell PROVE c \in Int /\ (c \in Cells(b) <=> ~Outside(b, c))
    OBVIOUS
  <2>1. c \in Int
    BY Rooms
  <2> QED
    BY <1>3, <1>4, <2>1 DEF Cells, Outside
<1>6. Outside(b, p + 1) /\ Outside(b, s)
  <2>1. Outside(b, p + 1)
    BY <1>1, <1>3, OutsideRoom
  <2>2. Outside(b, s)
    BY <1>1, <1>3, OutsideRoom
  <2> QED
    BY <2>1, <2>2
<1>7. m2 = [c \in Cell |-> IF c \in Cells(b) THEN Junk ELSE m1[c]]
  BY DEF Wipe, RmBlk, bnxt, bpre
<1> HIDE DEF p, s
<1>8. m1 \in [Cell -> Int]
  <2>1. [m EXCEPT ![p + 1] = s] \in [Cell -> Int]
    BY <1>1 DEF Memory
  <2> QED
    BY <1>1, <2>1
<1>9. m1[p + 1] = s /\ m1[s] = p /\ \A c \in Cell : c # p + 1 /\ c # s => m1[c] = m[c]
  BY <1>1, <1>2 DEF Memory
<1> HIDE DEF m1
<1>10. m2 \in Memory
  BY <1>7, <1>8 DEF Memory, Junk
<1>11. m2[p + 1] = s /\ m2[s] = p
  BY <1>1, <1>5, <1>6, <1>7, <1>9
<1>12. \A c \in Cell : Outside(b, c) /\ c # p + 1 /\ c # s => m2[c] = m[c]
  BY <1>5, <1>7, <1>9
<1> QED
  BY <1>10, <1>11, <1>12 DEF BlkDropped, p, s

LEMMA DroppedRing ==
  ASSUME NEW m, NEW B, NEW T, NEW own, NEW rk, Shape(m, B, T, own), BaseBlk \in B,
         Ring(m, B, m[BaseBlk + 1], 0, 1, rk), NEW b \in B, b # BaseBlk,
         NEW m2, BlkDropped(m, m2, b)
  PROVE  /\ Ring(m2, B \ {b}, m2[BaseBlk + 1], 0, 1, rk)
         /\ m[b] \in B \ {b} /\ m[b + 1] \in B \ {b}
<1> DEFINE head == m[BaseBlk + 1]
           p == m[b]
           s == m[b + 1]
<1>1. \A x \in B : x \in Nat /\ x \in Cell /\ x + 1 \in Cell /\ x # NULL
  BY Geometry
<1>2. \A x, y \in B : x # y => x + 3 <= y \/ y + 3 <= x
  BY Geometry
<1>3. head \in B /\ \A x \in B : m[x + 1] \in B /\ m[x + 0] \in B /\ m[m[x + 1] + 0] = x /\ m[m[x + 0] + 1] = x
  BY DEF Ring
<1>4. \A x \in B : x + 0 = x
  BY <1>1
<1>5. p \in B /\ s \in B /\ m[s] = b /\ m[p + 1] = b
  BY <1>3, <1>4
<1>6. b # s
  <2>1. SUFFICES ASSUME b = s PROVE FALSE
    OBVIOUS
  <2>2. Follows(m, b, b, 1)
    BY <2>1 DEF Follows
  <2> HIDE DEF head
  <2>3. Ring(m, B, head, 0, 1, rk)
    BY DEF head
  <2>4. Only(B, head, b)
    BY <2>2, <2>3, RingAlone
  <2> QED
    BY <2>4 DEF Only
<1>7. b # p
  BY <1>5, <1>6
<1>8. p + 1 # s
  BY <1>1, <1>2, <1>5
<1>9. \A c \in Cell : Outside(b, c) /\ c # p + 1 /\ c # s => m2[c] = m[c]
  BY DEF BlkDropped
<1>10. m2[p + 1] = s /\ m2[s] = p
  BY DEF BlkDropped
<1>11. b \in BlockSet
  BY DEF Shape
<1>12. \A x \in B : x # b => Outside(b, x) /\ Outside(b, x + 1)
  <2> SUFFICES ASSUME NEW x \in B, x # b PROVE Outside(b, x) /\ Outside(b, x + 1)
    OBVIOUS
  <2>1. x \in Nat
    BY <1>1
  <2>2. \A c \in Int : x <= c /\ c <= x + 2 => Outside(b, c)
    BY <1>11, OutsideRoom
  <2> QED
    BY <2>1, <2>2
<1> HIDE DEF p, s
<1>13. ASSUME NEW x \in B, x # b
       PROVE  /\ m2[x + 1] = IF x = p THEN s ELSE m[x + 1]
              /\ m2[x] = IF x = s THEN p ELSE m[x]
  <2>1. x \in Nat /\ p \in Nat /\ s \in Nat /\ x \in Cell /\ x + 1 \in Cell
    BY <1>1, <1>5, <1>13
  <2>2. (x + 1 = p + 1 <=> x = p) /\ x + 1 # s /\ x # p + 1
    BY <1>2, <1>5, <2>1
  <2>3. m2[x + 1] = IF x = p THEN s ELSE m[x + 1]
    <3>1. CASE x = p
      BY <1>10, <3>1
    <3>2. CASE x # p
      BY <1>9, <1>12, <1>13, <2>1, <2>2, <3>2
    <3> QED
      BY <3>1, <3>2
  <2>4. m2[x] = IF x = s THEN p ELSE m[x]
    <3>1. CASE x = s
      BY <1>10, <3>1
    <3>2. CASE x # s
      BY <1>9, <1>12, <1>13, <2>1, <2>2, <3>2
    <3> QED
      BY <3>1, <3>2
  <2> QED
    BY <2>3, <2>4
<1>14. RingRemoved(m, m2, B, b, 0, 1)
  <2>1. b + 0 = b
    BY <1>4
  <2> QED
    BY <1>4, <1>13, <2>1 DEF RingRemoved, p, s
<1>15. m2[BaseBlk + 1] = IF b = head THEN m[b + 1] ELSE head
  <2>1. m2[BaseBlk + 1] = IF BaseBlk = p THEN s ELSE m[BaseBlk + 1]
    BY <1>13
  <2>2. BaseBlk = p <=> b = head
    <3>1. BaseBlk = p => b = head
      BY <1>5
    <3>2. m[head] = BaseBlk
      BY <1>3, <1>4
    <3>3. b = head => BaseBlk = p
      BY <3>2 DEF p
    <3> QED
      BY <3>1, <3>3
  <2> QED
    BY <2>1, <2>2 DEF s
<1>16. Ring(m2, B \ {b}, m2[BaseBlk + 1], 0, 1, rk)
  <2> DEFINE first == m2[BaseBlk + 1]
  <2>1. Ring(m, B, head, 0, 1, rk) /\ NULL \notin B /\ b # m[b + 1] /\ b \in B
    BY <1>1, <1>6 DEF s
  <2>2. first = IF b = head THEN m[b + 1] ELSE head
    BY <1>15
  <2> HIDE DEF first, head
  <2>3. Ring(m2, B \ {b}, first, 0, 1, rk)
    BY <1>14, <2>1, <2>2, RingRemove
  <2> QED
    BY <2>3 DEF first
<1> QED
  BY <1>5, <1>6, <1>7, <1>16 DEF p, s

\* A block of one tag, which is in hand, leaves.
WithoutBlock(m2, k, B, T, own, rk, lim, b) ==
  Heaped(m2, k, B \ {b}, T \ {b + 3}, [u \in T \ {b + 3} |-> own[u]], {}, rk, lim)

LEMMA DroppedHeap ==
  ASSUME NEW m, NEW k, NEW B, NEW T, NEW own, NEW rk, NEW lim, NEW b \in B, b # BaseBlk,
         Heaped(m, k, B, T, own, {b + 3}, rk, lim), Follows(m, b, m[b + 2] - 3, 5),
         NEW m2, BlkDropped(m, m2, b)
  PROVE  /\ WithoutBlock(m2, k, B, T, own, rk, lim, b)
         /\ \A u \in T : u # b + 3 => Untouched(m, m2, u)
         /\ SizesKept(m, m2, B \ {b})
<1> DEFINE T2 == T \ {b + 3}
           own2 == [u \in T \ {b + 3} |-> own[u]]
           C == B \ {b}
           p == m[b]
           s == m[b + 1]
<1>1. /\ m \in Memory /\ Shape(m, B, T, own) /\ BaseBlk \in B /\ b + 3 \in T
      /\ Ring(m, B, m[BaseBlk + 1], 0, 1, rk) /\ Ranked(rk, lim)
  BY DEF Heaped
<1>2. m[b + 5] = m[b + 2] - 3
  BY DEF Follows
<1>3. own[b + 3] = b /\ \A u \in T : own[u] = b => u = b + 3
  <2>1. SameSizes(m, m, C, T2)
    BY DEF SameSizes
  <2>2. /\ Shape(m, C, T2, own2) /\ b + 3 \in T
        /\ own[b + 3] = b /\ \A u \in T : own[u] = b => u = b + 3
    BY <1>1, <1>2, <2>1, DropShape
  <2> QED
    BY <2>2
<1>4. \A u \in T : u \in Nat /\ m[u + 2] \in Nat /\ 6 <= m[u + 2]
  BY <1>1, Geometry
<1>5. \A u \in T : \A c \in Int : u <= c /\ c < u + m[u + 2] => c \in Cell
  BY <1>1, Geometry
<1>6. \A u \in T, x \in B : u + m[u + 2] <= x \/ x + 3 <= u
  BY <1>1, Geometry
<1>7. \A x \in B : x \in Nat /\ x \in Cell /\ x + 2 \in Cell
  BY <1>1, Geometry
<1>8. \A x, y \in B : x # y => x + 3 <= y \/ y + 3 <= x
  BY <1>1, Geometry
<1>9. b \in BlockSet
  BY <1>1 DEF Shape
<1>10. \A u \in T2 : \A c \in Int : u <= c /\ c < u + m[u + 2] => Outside(b, c)
  BY <1>1, <1>3, <1>9, OutsideRoom
<1>11. \A x \in C : \A c \in Int : x <= c /\ c <= x + 2 => Outside(b, c)
  BY <1>1, <1>9, OutsideRoom
<1>12. p \in C /\ s \in C /\ Ring(m2, C, m2[BaseBlk + 1], 0, 1, rk)
  BY <1>1, DroppedRing
<1>13. \A c \in Cell : Outside(b, c) /\ c # p + 1 /\ c # s => m2[c] = m[c]
  BY DEF BlkDropped
<1> HIDE DEF p, s
<1>14. ASSUME NEW u \in T2 PROVE Untouched(m, m2, u)
  <2> SUFFICES ASSUME NEW c \in Int, u <= c, c < u + m[u + 2] PROVE m2[c] = m[c]
    BY DEF Untouched
  <2>1. c \in Cell /\ Outside(b, c)
    BY <1>5, <1>10
  <2>2. \A x \in B : c # x /\ c # x + 1
    <3> SUFFICES ASSUME NEW x \in B PROVE c # x /\ c # x + 1
      OBVIOUS
    <3>1. u + m[u + 2] <= x \/ x + 3 <= u
      BY <1>6
    <3>2. u \in Nat /\ m[u + 2] \in Nat /\ x \in Nat
      BY <1>4, <1>7
    <3> QED
      BY <3>1, <3>2
  <2> QED
    BY <1>12, <1>13, <2>1, <2>2
<1>15. ASSUME NEW x \in C PROVE m2[x + 2] = m[x + 2]
  <2>1. Outside(b, x + 2) /\ x + 2 \in Cell /\ x \in Nat
    BY <1>7, <1>11
  <2>2. \A y \in B : x + 2 # y /\ x + 2 # y + 1
    <3> SUFFICES ASSUME NEW y \in B PROVE x + 2 # y /\ x + 2 # y + 1
      OBVIOUS
    <3>1. x # y => x + 3 <= y \/ y + 3 <= x
      BY <1>8
    <3>2. x \in Nat /\ y \in Nat
      BY <1>7
    <3> QED
      BY <3>1, <3>2
  <2> QED
    BY <1>12, <1>13, <2>1, <2>2
<1>16. Shape(m2, C, T2, own2)
  <2>1. SameSizes(m, m2, C, T2)
    <3>1. \A u \in T2 : m2[u + 2] = m[u + 2]
      BY <1>1, <1>14, UntouchedIs
    <3> QED
      BY <1>15, <3>1 DEF SameSizes
  <2> QED
    BY <1>1, <1>2, <2>1, DropShape
<1>17. Rebuilt(m, m2, T, own, {b + 3}, C, T2, own2, {}, rk, rk, lim)
  <2>1. m2 \in Memory
    BY DEF BlkDropped
  <2>2. {} \subseteq T2 /\ T \ {b + 3} \subseteq T2 \ {} /\ \A u \in T2 \ {} : u \in T \ {b + 3}
    OBVIOUS
  <2>3. \A u \in T \ {b + 3} : own2[u] = own[u] /\ Untouched(m, m2, u)
    BY <1>14
  <2>4. BaseBlk \in C
    BY <1>1
  <2> HIDE DEF T2, own2, C
  <2> QED
    BY <1>1, <1>12, <1>16, <2>1, <2>2, <2>3, <2>4 DEF Rebuilt
<1>18. Heaped(m2, k, C, T2, own2, {}, rk, lim)
  <2> DEFINE H == {b + 3}
             H2 == {}
  <2> HIDE DEF T2, own2, C
  <2>1. Rebuilt(m, m2, T, own, H, C, T2, own2, H2, rk, rk, lim) /\ Heaped(m, k, B, T, own, H, rk, lim)
    BY <1>17
  <2> HIDE DEF H, H2
  <2>2. Heaped(m2, k, C, T2, own2, H2, rk, lim)
    BY <2>1, RebuiltHeap
  <2> QED
    BY <2>2 DEF H2
<1> QED
  BY <1>14, <1>15, <1>18 DEF WithoutBlock, SizesKept

\* The counters without a block of the given words.
BlkLess(c, c2, words) ==
  CntTyped(c2) /\ c2.inuse = c.inuse /\ c2.blk = c.blk - 1 /\ c2.alloc = c.alloc - words

LEMMA DropGood ==
  ASSUME NEW m, NEW k, NEW c, NEW lv, NEW B, NEW T, NEW own, NEW rk, NEW lim, NEW b \in B, b # BaseBlk,
         Good(m, k, c, lv, B, T, own, {b + 3}, rk, lim), KeptBut(m, B, T, own, {b + 3}, b),
         Follows(m, b, m[b + 2] - 3, 5),
         NEW m2, m2 = Wipe(RmBlk(m, b), b), NEW c2, BlkLess(c, c2, m[b + 2])
  PROVE  Settled(m2, k, c2, lv, B \ {b})
<1> DEFINE T2 == T \ {b + 3}
           own2 == [u \in T \ {b + 3} |-> own[u]]
           C == B \ {b}
           U == UsedIn(m, T, {b + 3})
           F == FreeIn(m, T, {b + 3})
<1>1. /\ Heaped(m, k, B, T, own, {b + 3}, rk, lim) /\ Held(m, lv, U) /\ Separate(m, F)
      /\ BigUsed(m, B) /\ Counted(m, c, B, U)
  BY DEF Good
<1>2. /\ Shape(m, B, T, own) /\ m \in Memory /\ BaseBlk \in B /\ b + 3 \in T
      /\ Ring(m, B, m[BaseBlk + 1], 0, 1, rk)
  BY <1>1 DEF Heaped
<1>3. BlkDropped(m, m2, b)
  <2>1. m[b] \in B \ {b} /\ m[b + 1] \in B \ {b}
    <3> DEFINE p == m[b]
               s == m[b + 1]
    <3>1. \A x \in B : m[x + 1] \in B /\ m[x + 0] \in B /\ m[m[x + 1] + 0] = x /\ m[m[x + 0] + 1] = x
      BY <1>2 DEF Ring
    <3>2. \A x \in B : x + 0 = x
      BY <1>2, Geometry
    <3>3. p \in B /\ s \in B /\ m[s] = b /\ m[p + 1] = b
      BY <3>1, <3>2
    <3>4. b # s
      <4>1. SUFFICES ASSUME b = s PROVE FALSE
        OBVIOUS
      <4>2. Follows(m, b, b, 1)
        BY <4>1 DEF Follows
      <4> DEFINE head == m[BaseBlk + 1]
      <4> HIDE DEF head
      <4>3. Ring(m, B, head, 0, 1, rk)
        BY <1>2 DEF head
      <4>4. Only(B, head, b)
        BY <4>2, <4>3, RingAlone
      <4> QED
        BY <1>2, <4>4 DEF Only
    <3> QED
      BY <3>3, <3>4
  <2> QED
    BY <1>2, <2>1, DroppedIs
<1>4. /\ WithoutBlock(m2, k, B, T, own, rk, lim, b) /\ SizesKept(m, m2, C)
      /\ \A u \in T : u # b + 3 => Untouched(m, m2, u)
  <2>1. WithoutBlock(m2, k, B, T, own, rk, lim, b)
    BY <1>1, <1>3, DroppedHeap, Zenon
  <2>2. SizesKept(m, m2, C)
    BY <1>1, <1>3, DroppedHeap, Zenon
  <2>3. \A u \in T : u # b + 3 => Untouched(m, m2, u)
    BY <1>1, <1>3, DroppedHeap, Zenon
  <2> QED
    BY <2>1, <2>2, <2>3
<1>5. Heaped(m2, k, C, T2, own2, {}, rk, lim)
  BY <1>4, Zenon DEF WithoutBlock
<1>6. \A u \in T2 : m2[u] = m[u] /\ m2[u + 2] = m[u + 2]
  BY <1>2, <1>4, UntouchedIs
<1>7. UsedIn(m2, T2, {}) = U /\ U \subseteq T2
  BY <1>6 DEF UsedIn
<1>8. FreeIn(m2, T2, {}) = F /\ F \subseteq T2
  BY <1>6 DEF FreeIn
<1>9. \A u \in T2 : own2[u] = own[u]
  OBVIOUS
<1> HIDE DEF own2, U, F
<1>10. Held(m2, lv, U)
  <2>1. \A u \in U : u \in Nat /\ m[u + 2] \in Nat
    BY <1>2, <1>7, Geometry
  <2>2. \A u \in U : Untouched(m, m2, u) /\ m2[u + 2] = m[u + 2]
    BY <1>4, <1>6, <1>7
  <2> QED
    BY <1>1, <2>1, <2>2, HeldFrame
<1>11. Separate(m2, F)
  BY <1>1, <1>6, <1>8 DEF Separate
<1>12. \A x \in C : m2[x + 2] = m[x + 2]
  BY <1>4 DEF SizesKept
<1>13. BigUsed(m2, C)
  <2> SUFFICES ASSUME NEW x \in C, ~Small(m2[x + 2] - 3)
               PROVE  m2[x + 5] = m2[x + 2] - 3 /\ m2[x + 3] = 1
    BY DEF BigUsed
  <2>1. m2[x + 2] = m[x + 2] /\ x \in Nat /\ b \in Nat /\ x # b
    BY <1>2, <1>12, Geometry
  <2>2. m[x + 5] = m[x + 2] - 3 /\ m[x + 3] = 1
    BY <1>1, <2>1 DEF BigUsed
  <2>3. x + 3 \in T2 /\ x + 3 + 2 = x + 5
    BY <1>2, <2>1 DEF Shape
  <2>4. m2[x + 3] = m[x + 3] /\ m2[x + 3 + 2] = m[x + 3 + 2]
    BY <1>6, <2>3
  <2> QED
    BY <2>1, <2>2, <2>3, <2>4
<1>14. Counted(m2, c2, C, U)
  <2>1. TagWords(m2, U) = TagWords(m, U)
    <3>1. \A u \in U : m2[u + 2] = m[u + 2]
      BY <1>6, <1>7
    <3> QED
      BY <3>1, WordsSame
  <2>2. TagWords(m2, C) = TagWords(m, C)
    BY <1>12, WordsSame
  <2>3. B \subseteq BlockSet /\ \A x \in B : m[x + 2] \in Nat /\ m[x + 2] <= Room(x)
    BY <1>2 DEF Shape
  <2>4. C \cup {b} = B /\ b \notin C /\ C \subseteq BlockSet /\ b \in BlockSet
    BY <2>3
  <2>5. /\ Cardinality(TagWords(m, C \cup {b})) = Cardinality(TagWords(m, C)) + m[b + 2]
        /\ Cardinality(TagWords(m, C)) \in Nat
    <3> HIDE DEF C
    <3> QED
      BY <2>3, <2>4, BlocksMore
  <2>6. Cardinality(B) = Cardinality(C) + 1 /\ Cardinality(C) \in Nat
    <3>1. IsFiniteSet(C) /\ Cardinality(C) \in Nat
      BY <2>4, BlocksFinite
    <3>2. Cardinality(C \cup {b}) = Cardinality(C) + 1
      BY <2>4, <3>1, FS_AddElement
    <3> QED
      BY <2>4, <3>1, <3>2
  <2>7. c.inuse = Cardinality(TagWords(m, U)) /\ c.blk = Cardinality(B)
        /\ c.alloc = PoolHdr - 3 + Cardinality(TagWords(m, B))
    BY <1>1 DEF Counted
  <2>8. c2.inuse = c.inuse /\ c2.blk = c.blk - 1 /\ c2.alloc = c.alloc - m[b + 2]
    BY DEF BlkLess
  <2>9. m[b + 2] \in Nat /\ PoolHdr \in Nat
    BY <2>3, LayoutAssumption
  <2>10. c2.inuse = Cardinality(TagWords(m2, U)) /\ c2.blk = Cardinality(C)
    BY <2>1, <2>6, <2>7, <2>8
  <2>11. c2.alloc = PoolHdr - 3 + Cardinality(TagWords(m2, C))
    <3>1. Cardinality(TagWords(m, B)) = Cardinality(TagWords(m, C)) + m[b + 2]
      BY <2>4, <2>5
    <3> QED
      BY <2>2, <2>5, <2>7, <2>8, <2>9, <3>1
  <2> QED
    BY <2>10, <2>11 DEF Counted
<1>15. Good(m2, k, c2, lv, C, T2, own2, {}, rk, lim)
  <2>1. CntTyped(c2)
    BY DEF BlkLess
  <2> HIDE DEF T2, C
  <2> QED
    BY <1>5, <1>7, <1>8, <1>10, <1>11, <1>13, <1>14, <2>1 DEF Good
<1>16. KeptBut(m2, C, T2, own2, {}, BaseBlk)
  <2> SUFFICES ASSUME NEW x \in C \ {BaseBlk}
               PROVE  \E u \in T2 \ {} : own2[u] = x /\ m2[u] = 1
    BY DEF KeptBut
  <2>1. PICK u \in T \ {b + 3} : own[u] = x /\ m[u] = 1
    BY DEF KeptBut
  <2> QED
    BY <1>6, <1>9, <2>1
<1> QED
  BY <1>15, <1>16 DEF Settled


\* Two tags in hand, one after the other, become one: only their words change.
JoinedMem(m, m2, x, y) ==
  /\ m2 \in Memory /\ m2[x + 2] = m[x + 2] + m[y + 2]
  /\ \A c \in Cell : c < x \/ y + m[y + 2] <= c => m2[c] = m[c]

\* The tags S stay in their blocks.
OwnIn(own2, own, S) == own2 = [w \in S |-> own[w]]

Joined(m, m2, B, T, H) ==
  (\A w \in T \ H : Untouched(m, m2, w)) /\ HeadersSame(m, m2, B)

LEMMA JoinHeap ==
  ASSUME NEW m, NEW k, NEW B, NEW T, NEW own, NEW H, NEW rk, NEW lim,
         Heaped(m, k, B, T, own, H, rk, lim), NEW x \in H, NEW y \in H, Follows(m, x, y - x, 2),
         NEW m2, JoinedMem(m, m2, x, y), NEW own2, OwnIn(own2, own, T \ {y})
  PROVE  /\ Heaped(m2, k, B, T \ {y}, own2, H \ {y}, rk, lim)
         /\ Joined(m, m2, B, T, {x, y})
<1> DEFINE T2 == T \ {y}
           H2 == H \ {y}
<1>1. /\ m \in Memory /\ H \subseteq T /\ Shape(m, B, T, own) /\ BaseBlk \in B
      /\ Ring(m, B, m[BaseBlk + 1], 0, 1, rk) /\ Ranked(rk, lim)
  BY DEF Heaped
<1>2. \A u \in T : u \in Nat /\ m[u + 2] \in Nat /\ 6 <= m[u + 2]
  BY <1>1, Geometry
<1>3. x \in T /\ y \in T /\ m[x + 2] = y - x /\ y = x + m[x + 2] /\ x # y
  <2>1. x \in T /\ y \in T /\ m[x + 2] = y - x
    BY <1>1 DEF Follows
  <2>2. x \in Nat /\ y \in Nat /\ m[x + 2] \in Nat /\ 6 <= m[x + 2]
    BY <1>2, <2>1
  <2> QED
    BY <2>1, <2>2
<1>4. own[x] = own[y]
  BY <1>1, <1>3, SameBlock
<1>5. \A u \in T : \A c \in Int : u <= c /\ c < u + m[u + 2] => c \in Cell
  BY <1>1, Geometry
<1>6. \A u, v \in T : u # v => u + m[u + 2] <= v \/ v + m[v + 2] <= u
  BY <1>1, Geometry
<1>7. \A u \in T, b \in B : u + m[u + 2] <= b \/ b + 3 <= u
  BY <1>1, Geometry
<1>8. \A b \in B : b \in Nat /\ b \in Cell /\ b + 1 \in Cell /\ b + 2 \in Cell
  BY <1>1, Geometry
<1>9. m2[x + 2] = m[x + 2] + m[y + 2] /\ \A c \in Cell : c < x \/ y + m[y + 2] <= c => m2[c] = m[c]
  BY DEF JoinedMem
<1>10. ASSUME NEW w \in T, w # x, w # y PROVE Untouched(m, m2, w)
  <2> SUFFICES ASSUME NEW c \in Int, w <= c, c < w + m[w + 2] PROVE m2[c] = m[c]
    BY DEF Untouched
  <2>1. c \in Cell
    BY <1>5
  <2>2. w + m[w + 2] <= x \/ y <= w
    BY <1>3, <1>6, <1>10
  <2>3. w + m[w + 2] <= y \/ y + m[y + 2] <= w
    BY <1>3, <1>6, <1>10
  <2>4. w \in Nat /\ m[w + 2] \in Nat /\ 6 <= m[w + 2] /\ x \in Nat /\ y \in Nat /\ m[y + 2] \in Nat
    BY <1>2, <1>3
  <2>5. c < x \/ y + m[y + 2] <= c
    BY <2>2, <2>3, <2>4
  <2> QED
    BY <1>9, <2>1, <2>5
<1>11. HeadersSame(m, m2, B)
  <2> SUFFICES ASSUME NEW b \in B
               PROVE  m2[b] = m[b] /\ m2[b + 1] = m[b + 1] /\ m2[b + 2] = m[b + 2]
    BY DEF HeadersSame
  <2>1. y <= b \/ b + 3 <= x
    BY <1>3, <1>7
  <2>2. y + m[y + 2] <= b \/ b + 3 <= y
    BY <1>3, <1>7
  <2>3. b \in Nat /\ x \in Nat /\ y \in Nat /\ m[y + 2] \in Nat
    BY <1>2, <1>3, <1>8
  <2>4. b + 3 <= x \/ y + m[y + 2] <= b
    BY <2>1, <2>2, <2>3
  <2>5. \A i \in {0, 1, 2} : b + i < x \/ y + m[y + 2] <= b + i
    BY <2>3, <2>4
  <2>6. (b < x \/ y + m[y + 2] <= b) /\ (b + 1 < x \/ y + m[y + 2] <= b + 1)
        /\ (b + 2 < x \/ y + m[y + 2] <= b + 2)
    BY <2>3, <2>4
  <2> QED
    BY <1>8, <1>9, <2>6
<1>12. Joined(m, m2, B, T, {x, y})
  BY <1>10, <1>11 DEF Joined
<1>13. Shape(m2, B, T2, own2)
  <2>1. \A w \in T \ {x, y} : m2[w + 2] = m[w + 2]
    BY <1>1, <1>10, UntouchedIs
  <2>2. JoinedAt(m, m2, B, T, x, y)
    BY <1>3, <1>9, <1>11, <2>1 DEF JoinedAt, HeadersSame
  <2> QED
    BY <1>1, <1>3, <1>4, <2>2, JoinShape DEF OwnIn
<1>14. Ring(m2, B, m2[BaseBlk + 1], 0, 1, rk)
  <2>1. m2[BaseBlk + 1] = m[BaseBlk + 1]
    BY <1>1, <1>11 DEF HeadersSame
  <2>2. \A b \in B : m2[b + 0] = m[b + 0] /\ m2[b + 1] = m[b + 1]
    BY <1>8, <1>11 DEF HeadersSame
  <2> DEFINE head == m[BaseBlk + 1]
  <2>3. Ring(m, B, head, 0, 1, rk)
    BY <1>1
  <2> HIDE DEF head
  <2>4. Ring(m2, B, head, 0, 1, rk)
    BY <2>2, <2>3, RingSame
  <2> QED
    BY <2>1, <2>4 DEF head
<1>15. Rebuilt(m, m2, T, own, H, B, T2, own2, H2, rk, rk, lim)
  <2>1. m2 \in Memory
    BY DEF JoinedMem
  <2>2. H2 \subseteq T2 /\ T \ H \subseteq T2 \ H2 /\ \A u \in T2 \ H2 : u \in T \ H
    BY <1>1
  <2>3. \A u \in T \ H : own2[u] = own[u] /\ Untouched(m, m2, u)
    BY <1>10 DEF OwnIn
  <2> HIDE DEF T2, H2
  <2> QED
    BY <1>1, <1>13, <1>14, <2>1, <2>2, <2>3 DEF Rebuilt
<1>16. Heaped(m2, k, B, T2, own2, H2, rk, lim)
  <2>1. Heaped(m, k, B, T, own, H, rk, lim) /\ Rebuilt(m, m2, T, own, H, B, T2, own2, H2, rk, rk, lim)
    BY <1>15
  <2> HIDE DEF T2, H2
  <2> QED
    BY <2>1, RebuiltHeap
<1> QED
  BY <1>12, <1>16

JoinedGood(m, m2, k, c, lv, B, T, own, own2, H, rk, lim, x, y) ==
  /\ Good(m2, k, c, lv, B, T \ {y}, own2, H \ {y}, rk, lim)
  /\ Joined(m, m2, B, T, {x, y})
  /\ FreeIn(m2, T \ {y}, H \ {y}) = FreeIn(m, T, H)
  /\ UsedIn(m2, T \ {y}, H \ {y}) = UsedIn(m, T, H)

LEMMA JoinGood ==
  ASSUME NEW m, NEW k, NEW c, NEW lv, NEW B, NEW T, NEW own, NEW H, NEW rk, NEW lim,
         Good(m, k, c, lv, B, T, own, H, rk, lim), NEW x \in H, NEW y \in H, Follows(m, x, y - x, 2),
         Small(m[own[x] + 2] - 3),
         NEW m2, JoinedMem(m, m2, x, y), NEW own2, OwnIn(own2, own, T \ {y})
  PROVE  JoinedGood(m, m2, k, c, lv, B, T, own, own2, H, rk, lim, x, y)
<1> DEFINE T2 == T \ {y}
           H2 == H \ {y}
           U == UsedIn(m, T, H)
           F == FreeIn(m, T, H)
<1>1. /\ Heaped(m, k, B, T, own, H, rk, lim) /\ Held(m, lv, U) /\ Separate(m, F)
      /\ BigUsed(m, B) /\ CntTyped(c) /\ Counted(m, c, B, U)
  BY DEF Good
<1>2. Heaped(m2, k, B, T2, own2, H2, rk, lim) /\ Joined(m, m2, B, T, {x, y})
  BY <1>1, JoinHeap
<1>3. H \subseteq T /\ Shape(m, B, T, own)
  BY <1>1 DEF Heaped
<1>4. \A w \in T \ {x, y} : Untouched(m, m2, w) /\ m2[w] = m[w] /\ m2[w + 2] = m[w + 2]
  BY <1>2, <1>3, UntouchedIs DEF Joined
<1>5. HeadersSame(m, m2, B)
  BY <1>2 DEF Joined
<1>6. UsedIn(m2, T2, H2) = U /\ U \subseteq T \ {x, y}
  BY <1>4 DEF UsedIn
<1>7. FreeIn(m2, T2, H2) = F /\ F \subseteq T \ {x, y}
  BY <1>4 DEF FreeIn
<1> HIDE DEF T2, H2, U, F
<1>8. Held(m2, lv, U)
  <2>1. \A u \in U : u \in Nat /\ m[u + 2] \in Nat
    BY <1>3, <1>6, Geometry
  <2>2. \A u \in U : Untouched(m, m2, u) /\ m2[u + 2] = m[u + 2]
    BY <1>4, <1>6
  <2> QED
    BY <1>1, <2>1, <2>2, HeldFrame
<1>9. Separate(m2, F)
  BY <1>1, <1>4, <1>7 DEF Separate
<1>10. BigUsed(m2, B)
  <2> SUFFICES ASSUME NEW b \in B, ~Small(m2[b + 2] - 3)
               PROVE  m2[b + 5] = m2[b + 2] - 3 /\ m2[b + 3] = 1
    BY DEF BigUsed
  <2>1. m2[b + 2] = m[b + 2] /\ b \in Nat
    BY <1>3, <1>5, Geometry DEF HeadersSame
  <2>2. m[b + 5] = m[b + 2] - 3 /\ m[b + 3] = 1
    BY <1>1, <2>1 DEF BigUsed
  <2>3. b + 3 \in T /\ own[b + 3] = b /\ b + 3 + 2 = b + 5
    BY <1>3, <2>1 DEF Shape
  <2>4. own[x] = own[y]
    <3>1. x \in T /\ y \in T /\ m[x + 2] = y - x
      BY <1>3 DEF Follows
    <3>2. x \in Nat /\ y \in Nat
      BY <1>3, <3>1, Geometry
    <3>3. y = x + m[x + 2]
      BY <3>1, <3>2
    <3> QED
      BY <1>3, <3>1, <3>3, SameBlock
  <2>5. b + 3 # x /\ b + 3 # y
    BY <2>1, <2>3, <2>4
  <2>6. m2[b + 3] = m[b + 3] /\ m2[b + 3 + 2] = m[b + 3 + 2]
    BY <1>4, <2>3, <2>5
  <2> QED
    BY <2>1, <2>2, <2>3, <2>6
<1>11. Counted(m2, c, B, U)
  <2>1. \A u \in U : m2[u + 2] = m[u + 2]
    BY <1>4, <1>6
  <2> QED
    BY <1>1, <1>5, <2>1, CountedSame
<1>12. Good(m2, k, c, lv, B, T2, own2, H2, rk, lim)
  BY <1>1, <1>2, <1>6, <1>7, <1>8, <1>9, <1>10, <1>11 DEF Good
<1> QED
  BY <1>2, <1>6, <1>7, <1>12 DEF JoinedGood, T2, H2, U, F

\* A free tag comes to hand.
Picked(m, mm, B, T, H, t) ==
  /\ Frame(m, mm, T) /\ HeadersSame(m, mm, B) /\ \A w \in H \cup {t} : Untouched(m, mm, w)
  /\ FreeIn(mm, T, H \cup {t}) = FreeIn(m, T, H) \ {t}
  /\ UsedIn(mm, T, H \cup {t}) = UsedIn(m, T, H)

LEMMA RmTagGood ==
  ASSUME NEW m, NEW k, NEW c, NEW lv, NEW B, NEW T, NEW own, NEW H, NEW rk, NEW lim,
         Good(m, k, c, lv, B, T, own, H, rk, lim), NEW t \in FreeIn(m, T, H),
         NEW h, h = RmTag([mem |-> m, bkt |-> k], t)
  PROVE  /\ Good(h.mem, h.bkt, c, lv, B, T, own, H \cup {t}, rk, lim)
         /\ Picked(m, h.mem, B, T, H, t)
<1> DEFINE mm == h.mem
           H2 == H \cup {t}
           U == UsedIn(m, T, H)
           F == FreeIn(m, T, H)
<1>1. /\ Heaped(m, k, B, T, own, H, rk, lim) /\ Held(m, lv, U) /\ Separate(m, F)
      /\ BigUsed(m, B) /\ CntTyped(c) /\ Counted(m, c, B, U)
  BY DEF Good
<1>2. Shape(m, B, T, own)
  BY <1>1 DEF Heaped
<1>3. t \in T /\ t \notin H /\ m[t] = 0
  BY DEF FreeIn
<1>4. Taken(m, k, B, T, own, H, rk, lim, h, t)
  BY <1>1, RmTagKeeps
<1>5. /\ Heaped(mm, h.bkt, B, T, own, H2, rk, lim)
      /\ Frame(m, mm, T) /\ (\A u \in H2 : Untouched(m, mm, u))
      /\ OnlyLinks(m, mm, FreeIn(m, T, H2))
  BY <1>4 DEF Taken
<1> HIDE DEF mm
<1>6. HeadersSame(m, mm, B)
  <2>1. FreeIn(m, T, H2) \subseteq T
    BY DEF FreeIn
  <2> QED
    BY <1>2, <1>5, <2>1, LinksHeaders
<1>7. \A u \in T : mm[u] = m[u] /\ mm[u + 2] = m[u + 2] /\ (m[u] = 1 => Untouched(m, mm, u))
  BY <1>5 DEF Frame
<1>8. UsedIn(mm, T, H2) = U /\ U \subseteq T /\ \A u \in U : m[u] = 1
  BY <1>3, <1>7 DEF UsedIn
<1>9. FreeIn(mm, T, H2) = F \ {t} /\ F \subseteq T
  BY <1>3, <1>7 DEF FreeIn
<1> HIDE DEF U, F
<1>10. Held(mm, lv, U)
  <2>1. \A u \in U : u \in Nat /\ m[u + 2] \in Nat
    BY <1>2, <1>8, Geometry
  <2>2. \A u \in U : Untouched(m, mm, u) /\ mm[u + 2] = m[u + 2]
    BY <1>7, <1>8
  <2> QED
    BY <1>1, <2>1, <2>2, HeldFrame
<1>11. Separate(mm, F \ {t})
  BY <1>1, <1>7, <1>9 DEF Separate
<1>12. BigUsed(mm, B)
  <2>1. Stable(m, mm, B, T)
    BY <1>6, <1>7 DEF Stable
  <2> QED
    BY <1>1, <1>2, <2>1, StableBig
<1>13. Counted(mm, c, B, U)
  <2>1. \A u \in U : mm[u + 2] = m[u + 2]
    BY <1>7, <1>8
  <2> QED
    BY <1>1, <1>6, <2>1, CountedSame
<1>14. Good(mm, h.bkt, c, lv, B, T, own, H2, rk, lim)
  <2> HIDE DEF H2
  <2> QED
    BY <1>1, <1>5, <1>8, <1>9, <1>10, <1>11, <1>12, <1>13 DEF Good
<1> QED
  BY <1>5, <1>6, <1>8, <1>9, <1>14 DEF Picked, U, F, mm

\* A region comes back: its tag is in hand, and the caller no longer holds it.
Without(lv, a) == [x \in DOMAIN lv \ {a} |-> lv[x]]

InuseLess(c, c2, words) ==
  CntTyped(c2) /\ c2.inuse = c.inuse - words /\ c2.blk = c.blk /\ c2.alloc = c.alloc

Returned(m, T, own, t) ==
  t \in T /\ m[t] = 1 /\ m[t + 3] = own[t] /\ m[t + m[t + 2] - 1] = t

LEMMA TakeGood ==
  ASSUME NEW m, NEW k, NEW c, NEW lv, NEW B, NEW T, NEW own, NEW rk, NEW lim,
         Good(m, k, c, lv, B, T, own, {}, rk, lim), NEW t, t + 4 \in DOMAIN lv, t \in Int,
         NEW c2, InuseLess(c, c2, m[t + 2])
  PROVE  /\ Good(m, k, c2, Without(lv, t + 4), B, T, own, {t}, rk, lim)
         /\ Returned(m, T, own, t)
         /\ FreeIn(m, T, {t}) = FreeIn(m, T, {})
<1> DEFINE U == UsedIn(m, T, {})
           F == FreeIn(m, T, {})
           lv2 == Without(lv, t + 4)
<1>1. /\ Heaped(m, k, B, T, own, {}, rk, lim) /\ Held(m, lv, U) /\ Separate(m, F)
      /\ BigUsed(m, B) /\ CntTyped(c) /\ Counted(m, c, B, U)
  BY DEF Good
<1>2. /\ m \in Memory /\ Shape(m, B, T, own) /\ BaseBlk \in B
      /\ Ring(m, B, m[BaseBlk + 1], 0, 1, rk) /\ Ranked(rk, lim)
      /\ \A u \in T : Marked(m, own, u)
  BY <1>1 DEF Heaped
<1>3. U \subseteq T /\ \A u \in T : u \in Nat /\ m[u + 2] \in Nat
  BY <1>2, Geometry DEF UsedIn
<1>4. t \in U
  <2>1. DOMAIN lv = {u + 4 : u \in U}
    BY <1>1 DEF Held
  <2>2. PICK u \in U : t + 4 = u + 4
    BY <2>1
  <2>3. u \in Nat
    BY <1>3
  <2> QED
    BY <2>2, <2>3
<1>5. t \in T /\ m[t] = 1 /\ Marked(m, own, t)
  BY <1>2, <1>4 DEF UsedIn
<1>6. Returned(m, T, own, t)
  BY <1>5 DEF Returned, Marked
<1>7. FreeIn(m, T, {t}) = F
  BY <1>5 DEF FreeIn
<1>8. UsedIn(m, T, {t}) = U \ {t}
  BY DEF UsedIn
<1>9. Heaped(m, k, B, T, own, {t}, rk, lim)
  <2>1. Listed(m, k, F, rk)
    BY <1>1 DEF Heaped
  <2> QED
    BY <1>2, <1>5, <1>7, <2>1 DEF Heaped
<1>10. Held(m, lv2, U \ {t})
  <2>1. DOMAIN lv = {u + 4 : u \in U}
    BY <1>1 DEF Held
  <2>2. DOMAIN lv2 = {u + 4 : u \in U \ {t}}
    <3> SUFFICES ASSUME NEW a PROVE a \in DOMAIN lv \ {t + 4} <=> a \in {u + 4 : u \in U \ {t}}
      BY DEF Without
    <3>1. \A u \in U : u + 4 = t + 4 => u = t
      BY <1>3
    <3> QED
      BY <2>1, <3>1
  <2>3. \A u \in U \ {t} : lv2[u + 4] = lv[u + 4]
    <3>1. \A u \in U : u + 4 = t + 4 => u = t
      BY <1>3
    <3> QED
      BY <2>1, <3>1 DEF Without
  <2>4. \A u \in U : /\ lv[u + 4] \in Nat \ {0} /\ lv[u + 4] + 5 <= m[u + 2]
                     /\ \A a \in Int : u + 4 <= a /\ a < u + 4 + lv[u + 4] => m[a] = -1 - (u + 4)
    BY <1>1 DEF Held
  <2> HIDE DEF lv2, U
  <2> QED
    BY <2>2, <2>3, <2>4 DEF Held
<1>11. Counted(m, c2, B, U \ {t})
  <2>1. /\ Cardinality(TagWords(m, (U \ {t}) \cup {t})) = Cardinality(TagWords(m, U \ {t})) + m[t + 2]
        /\ Cardinality(TagWords(m, U \ {t})) \in Nat
    <3> DEFINE S == U \ {t}
    <3>1. S \subseteq T /\ t \notin S
      BY <1>3
    <3> HIDE DEF S
    <3>2. /\ Cardinality(TagWords(m, S \cup {t})) = Cardinality(TagWords(m, S)) + m[t + 2]
          /\ Cardinality(TagWords(m, S)) \in Nat
      BY <1>2, <1>5, <3>1, WordsMore
    <3> QED
      BY <3>2 DEF S
  <2>2. (U \ {t}) \cup {t} = U
    BY <1>4
  <2>3. c.inuse = Cardinality(TagWords(m, U)) /\ c.blk = Cardinality(B)
        /\ c.alloc = PoolHdr - 3 + Cardinality(TagWords(m, B))
    BY <1>1 DEF Counted
  <2>4. c2.inuse = c.inuse - m[t + 2] /\ c2.blk = c.blk /\ c2.alloc = c.alloc
    BY DEF InuseLess
  <2> HIDE DEF U
  <2>5. Cardinality(TagWords(m, U)) = Cardinality(TagWords(m, U \ {t})) + m[t + 2]
    BY <2>1, <2>2
  <2>6. m[t + 2] \in Nat
    BY <1>3, <1>5
  <2>7. c2.inuse = Cardinality(TagWords(m, U \ {t}))
    BY <2>1, <2>3, <2>4, <2>5, <2>6
  <2> QED
    BY <2>3, <2>4, <2>7 DEF Counted
<1> HIDE DEF U, F, lv2
<1>12. Good(m, k, c2, lv2, B, T, own, {t}, rk, lim)
  <2>1. CntTyped(c2)
    BY DEF InuseLess
  <2> DEFINE H2 == {t}
  <2>2. Heaped(m, k, B, T, own, H2, rk, lim) /\ UsedIn(m, T, H2) = U \ {t} /\ FreeIn(m, T, H2) = F
    BY <1>7, <1>8, <1>9
  <2> HIDE DEF H2
  <2>3. Good(m, k, c2, lv2, B, T, own, H2, rk, lim)
    BY <1>1, <1>10, <1>11, <2>1, <2>2 DEF Good
  <2> QED
    BY <2>3 DEF H2
<1> QED
  BY <1>6, <1>7, <1>12 DEF F, lv2

\* What a merge writes: a header at x and a footer before y.
MergedMem(m, m2, x, y, b) ==
  m2 = [m EXCEPT ![x + 2] = y - x, ![x] = 0, ![x + 3] = b, ![y - 1] = x]

MergedTag(m2, x, y, b) ==
  m2[x] = 0 /\ m2[x + 2] = y - x /\ m2[x + 3] = b /\ m2[y - 1] = x

Beyond(m, m2, x, y) == \A c \in Cell : c < x \/ y <= c => m2[c] = m[c]

LEMMA MergedIs ==
  ASSUME NEW m \in Memory, NEW x \in Nat, NEW y \in Nat, x + 6 <= y, NEW b \in Int,
         \A c \in Int : x <= c /\ c < y => c \in Cell, NEW m2, MergedMem(m, m2, x, y, b)
  PROVE  m2 \in Memory /\ MergedTag(m2, x, y, b) /\ Beyond(m, m2, x, y)
<1> DEFINE z == y - 1
           n == y - x
           g1 == [m EXCEPT ![x + 2] = n]
           g2 == [g1 EXCEPT ![x] = 0]
           g3 == [g2 EXCEPT ![x + 3] = b]
<1>1. x \in Cell /\ x + 2 \in Cell /\ x + 3 \in Cell /\ z \in Cell /\ n \in Int
  OBVIOUS
<1>2. Cell \subseteq Nat /\ m \in [Cell -> Int]
  BY Rooms DEF Memory
<1>3. /\ z # x /\ z # x + 2 /\ z # x + 3 /\ x + 3 # x /\ x + 3 # x + 2 /\ x # x + 2
      /\ x <= z /\ z < y /\ x + 3 < y /\ x + 2 < y
  OBVIOUS
<1>4. m2 = [g3 EXCEPT ![z] = x]
  BY DEF MergedMem
<1> HIDE DEF n
<1>5. g1 \in [Cell -> Int] /\ g1[x + 2] = n /\ \A c \in Cell : c # x + 2 => g1[c] = m[c]
  BY <1>1, <1>2
<1> HIDE DEF g1
<1>6. g2 \in [Cell -> Int] /\ g2[x] = 0 /\ \A c \in Cell : c # x => g2[c] = g1[c]
  BY <1>1, <1>5
<1> HIDE DEF g2
<1>7. g3 \in [Cell -> Int] /\ g3[x + 3] = b /\ \A c \in Cell : c # x + 3 => g3[c] = g2[c]
  BY <1>1, <1>6
<1> HIDE DEF g3, z
<1>8. m2 \in [Cell -> Int] /\ m2[z] = x /\ \A c \in Cell : c # z => m2[c] = g3[c]
  BY <1>1, <1>4, <1>7
<1>9. m2[x] = 0 /\ m2[x + 2] = n /\ m2[x + 3] = b
  BY <1>1, <1>3, <1>5, <1>6, <1>7, <1>8
<1>10. ASSUME NEW c \in Cell, c < x \/ y <= c PROVE m2[c] = m[c]
  <2>1. c # x /\ c # x + 2 /\ c # x + 3 /\ c # z
    <3>1. c \in Nat /\ z \in Nat
      BY <1>1, <1>2
    <3> QED
      BY <1>3, <1>10, <3>1
  <2> QED
    BY <1>5, <1>6, <1>7, <1>8, <2>1
<1> QED
  BY <1>8, <1>9, <1>10 DEF Memory, MergedTag, Beyond, z, n

LEMMA RmTagRecord ==
  ASSUME NEW m, NEW k, NEW t, NEW h, h = RmTag([mem |-> m, bkt |-> k], t)
  PROVE  h = [mem |-> h.mem, bkt |-> h.bkt]
<1> DEFINE h0 == [mem |-> m, bkt |-> k]
<1>1. CASE t = h0.mem[suc(t)]
  <2>1. PICK i : h = [h0 EXCEPT !.bkt[i] = NULL]
    BY <1>1 DEF RmTag
  <2> QED
    BY <2>1
<1>2. CASE t # h0.mem[suc(t)]
  <2>1. PICK y, z : h = [bkt |-> y, mem |-> z]
    BY <1>2 DEF RmTag
  <2> QED
    BY <2>1
<1> QED
  BY <1>1, <1>2

\* What stays the same while tags are picked up and joined: the used tags, and
\* everything of the tags not in hand.
Carried(m, mm, B, T, T2, own, own2, H, H2) ==
  /\ UsedIn(mm, T2, H2) = UsedIn(m, T, H) /\ FreeIn(mm, T2, H2) \subseteq FreeIn(m, T, H)
  /\ \A w \in T2 \ H2 : w \in T \ H /\ own2[w] = own[w] /\ mm[w] = m[w] /\ mm[w + 2] = m[w + 2]
  /\ HeadersSame(m, mm, B)

LEMMA PickedCarried ==
  ASSUME NEW m, NEW mm, NEW B, NEW T, NEW own, NEW H, NEW t, Picked(m, mm, B, T, H, t)
  PROVE  Carried(m, mm, B, T, T, own, own, H, H \cup {t})
<1>1. \A w \in T : mm[w] = m[w] /\ mm[w + 2] = m[w + 2]
  BY DEF Picked, Frame
<1> QED
  BY <1>1 DEF Picked, Carried

LEMMA JoinedCarried ==
  ASSUME NEW m, NEW m2, NEW B, NEW T, NEW own, Shape(m, B, T, own), NEW H, NEW x \in H, NEW y \in H,
         NEW own2, OwnIn(own2, own, T \ {y}), Joined(m, m2, B, T, {x, y}),
         FreeIn(m2, T \ {y}, H \ {y}) = FreeIn(m, T, H),
         UsedIn(m2, T \ {y}, H \ {y}) = UsedIn(m, T, H)
  PROVE  Carried(m, m2, B, T, T \ {y}, own, own2, H, H \ {y})
<1>1. \A w \in T \ {x, y} : m2[w] = m[w] /\ m2[w + 2] = m[w + 2]
  BY UntouchedIs DEF Joined
<1>2. \A w \in T \ {y} : own2[w] = own[w]
  BY DEF OwnIn
<1> QED
  BY <1>1, <1>2 DEF Joined, Carried

LEMMA CarriedTrans ==
  ASSUME NEW m, NEW m1, NEW m2, NEW B, NEW T, NEW T1, NEW T2, NEW own, NEW own1, NEW own2,
         NEW H, NEW H1, NEW H2,
         Carried(m, m1, B, T, T1, own, own1, H, H1), Carried(m1, m2, B, T1, T2, own1, own2, H1, H2)
  PROVE  Carried(m, m2, B, T, T2, own, own2, H, H2)
BY DEF Carried, HeadersSame

\* The tag t in hand has become the tag x, which is in hand.
Merged(m, m2, k2, c, lv, B, T, own, rk, lim, t, x) ==
  \E T2, own2 : /\ Good(m2, k2, c, lv, B, T2, own2, {x}, rk, lim)
                /\ Carried(m, m2, B, T, T2, own, own2, {t}, {x})
                /\ x \in T2 /\ own2[x] = own[t]

\* u lies below t, and v above.
Beneath(m, u, t) == Follows(m, u, t - u, 2)

LEMMA BeneathIs ==
  ASSUME NEW m, NEW B, NEW T, NEW own, Shape(m, B, T, own), NEW t \in T, NEW u \in T, Beneath(m, u, t)
  PROVE  /\ own[u] = own[t] /\ t = u + m[u + 2] /\ m[u + 2] = t - u /\ u < t /\ u \in Nat /\ t \in Nat
         /\ m[t + 2] \in Nat /\ 6 <= m[t + 2] /\ u + 6 <= t + m[t + 2] /\ t + m[t + 2] \in Nat
         /\ \A c \in Int : u <= c /\ c < t + m[t + 2] => c \in Cell
<1>1. m[u + 2] = t - u
  BY DEF Beneath, Follows
<1>2. /\ u \in Nat /\ m[u + 2] \in Nat /\ 6 <= m[u + 2]
      /\ t \in Nat /\ m[t + 2] \in Nat /\ 6 <= m[t + 2]
  BY Geometry
<1>3. t = u + m[u + 2] /\ u < t /\ u + 6 <= t + m[t + 2] /\ t + m[t + 2] \in Nat
  BY <1>1, <1>2
<1>4. \A c \in Int : u <= c /\ c < u + m[u + 2] => c \in Cell
  BY Geometry
<1>5. \A c \in Int : t <= c /\ c < t + m[t + 2] => c \in Cell
  BY Geometry
<1>6. ASSUME NEW c \in Int, u <= c, c < t + m[t + 2] PROVE c \in Cell
  BY <1>2, <1>3, <1>4, <1>5, <1>6
<1>7. own[t] = own[u]
  BY <1>3, SameBlock
<1> QED
  BY <1>1, <1>2, <1>3, <1>6, <1>7

LEMMA MergeBelow ==
  ASSUME NEW m, NEW k, NEW c, NEW lv, NEW B, NEW T, NEW own, NEW t, NEW rk, NEW lim,
         Good(m, k, c, lv, B, T, own, {t}, rk, lim), Small(m[own[t] + 2] - 3),
         NEW u \in FreeIn(m, T, {t}), Beneath(m, u, t),
         NEW h, h = RmTag([mem |-> m, bkt |-> k], u),
         NEW m2, MergedMem(h.mem, m2, u, t + m[t + 2], own[t])
  PROVE  /\ Merged(m, m2, h.bkt, c, lv, B, T, own, rk, lim, t, u)
         /\ MergedTag(m2, u, t + m[t + 2], own[t])
<1> DEFINE H == {t}
           H1 == H \cup {u}
           T2 == T \ {t}
           own2 == [w \in T \ {t} |-> own[w]]
           mm == h.mem
           y == t + m[t + 2]
<1>1. Shape(m, B, T, own) /\ t \in T
  BY DEF Good, Heaped
<1>2. u \in T /\ u # t
  BY DEF FreeIn
<1>3. /\ own[u] = own[t] /\ m[u + 2] = t - u /\ u \in Nat /\ t \in Nat
      /\ m[t + 2] \in Nat /\ u + 6 <= y /\ y \in Nat
      /\ \A a \in Int : u <= a /\ a < y => a \in Cell
  BY <1>1, <1>2, BeneathIs
<1>4. Good(mm, h.bkt, c, lv, B, T, own, H1, rk, lim) /\ Picked(m, mm, B, T, H, u)
  <2>1. Good(m, k, c, lv, B, T, own, H, rk, lim) /\ u \in FreeIn(m, T, H)
    OBVIOUS
  <2> HIDE DEF H
  <2> QED
    BY <2>1, RmTagGood
<1> HIDE DEF mm
<1>5. mm[t + 2] = m[t + 2] /\ mm[u + 2] = m[u + 2] /\ HeadersSame(m, mm, B)
  BY <1>1, <1>2, <1>4 DEF Picked, Frame
<1>6. Shape(mm, B, T, own) /\ mm \in Memory
  BY <1>4 DEF Good, Heaped
<1>7. own[t] \in B /\ own[t] \in Nat /\ mm[own[t] + 2] = m[own[t] + 2]
  <2>1. own[t] \in B
    BY <1>1 DEF Shape
  <2> QED
    BY <1>1, <1>5, <2>1, Geometry DEF HeadersSame
<1> HIDE DEF y
<1>8. m2 \in Memory /\ MergedTag(m2, u, y, own[t]) /\ Beyond(mm, m2, u, y)
  <2>1. MergedMem(mm, m2, u, y, own[t])
    BY DEF mm, y
  <2> QED
    BY <1>3, <1>6, <1>7, <2>1, MergedIs
<1>9. JoinedMem(mm, m2, u, t)
  <2>1. m2[u + 2] = mm[u + 2] + mm[t + 2]
    BY <1>3, <1>5, <1>8 DEF MergedTag, y
  <2>2. t + mm[t + 2] = y
    BY <1>5 DEF y
  <2> QED
    BY <1>8, <2>1, <2>2 DEF JoinedMem, Beyond
<1>10. OwnIn(own2, own, T \ {t})
  BY DEF OwnIn
<1>11. own2[u] = own[t] /\ u \in T2
  BY <1>2, <1>3
<1>12. H1 \ {t} = {u} /\ u \in H1 /\ t \in H1
  BY <1>2
<1> HIDE DEF own2, H1, H
<1>13. Follows(mm, u, t - u, 2)
  BY <1>3, <1>5 DEF Follows
<1>14. /\ Good(m2, h.bkt, c, lv, B, T \ {t}, own2, H1 \ {t}, rk, lim)
       /\ Joined(mm, m2, B, T, {u, t})
       /\ FreeIn(m2, T \ {t}, H1 \ {t}) = FreeIn(mm, T, H1)
       /\ UsedIn(m2, T \ {t}, H1 \ {t}) = UsedIn(mm, T, H1)
  <2>1. Small(mm[own[u] + 2] - 3)
    BY <1>3, <1>7
  <2> QED
    BY <1>4, <1>9, <1>10, <1>12, <1>13, <2>1, JoinGood DEF JoinedGood
<1>15. Carried(mm, m2, B, T, T \ {t}, own, own2, H1, H1 \ {t})
  BY <1>6, <1>10, <1>12, <1>14, JoinedCarried
<1>16. Carried(m, mm, B, T, T, own, own, H, H1)
  BY <1>4, PickedCarried DEF H1
<1>17. Carried(m, m2, B, T, T \ {t}, own, own2, H, H1 \ {t})
  BY <1>15, <1>16, CarriedTrans
<1>18. Merged(m, m2, h.bkt, c, lv, B, T, own, rk, lim, t, u)
  BY <1>11, <1>12, <1>14, <1>17 DEF Merged, T2, H
<1> QED
  BY <1>8, <1>18 DEF y

LEMMA MergeAbove ==
  ASSUME NEW m, NEW k, NEW c, NEW lv, NEW B, NEW T, NEW own, NEW t, NEW rk, NEW lim,
         Good(m, k, c, lv, B, T, own, {t}, rk, lim), Small(m[own[t] + 2] - 3),
         NEW v \in FreeIn(m, T, {t}), Beneath(m, t, v),
         NEW h, h = RmTag([mem |-> m, bkt |-> k], v),
         NEW m2, MergedMem(h.mem, m2, t, v + m[v + 2], own[t])
  PROVE  /\ Merged(m, m2, h.bkt, c, lv, B, T, own, rk, lim, t, t)
         /\ MergedTag(m2, t, v + m[v + 2], own[t])
<1> DEFINE H == {t}
           H1 == H \cup {v}
           T2 == T \ {v}
           own2 == [w \in T \ {v} |-> own[w]]
           mm == h.mem
           y == v + m[v + 2]
<1>1. Shape(m, B, T, own) /\ t \in T
  BY DEF Good, Heaped
<1>2. v \in T /\ v # t
  BY DEF FreeIn
<1>3. /\ own[v] = own[t] /\ m[t + 2] = v - t /\ v \in Nat /\ t \in Nat
      /\ m[v + 2] \in Nat /\ t + 6 <= y /\ y \in Nat
      /\ \A a \in Int : t <= a /\ a < y => a \in Cell
  BY <1>1, <1>2, BeneathIs
<1>4. Good(mm, h.bkt, c, lv, B, T, own, H1, rk, lim) /\ Picked(m, mm, B, T, H, v)
  <2>1. Good(m, k, c, lv, B, T, own, H, rk, lim) /\ v \in FreeIn(m, T, H)
    OBVIOUS
  <2> HIDE DEF H
  <2> QED
    BY <2>1, RmTagGood
<1> HIDE DEF mm
<1>5. mm[t + 2] = m[t + 2] /\ mm[v + 2] = m[v + 2] /\ HeadersSame(m, mm, B)
  BY <1>1, <1>2, <1>4 DEF Picked, Frame
<1>6. Shape(mm, B, T, own) /\ mm \in Memory
  BY <1>4 DEF Good, Heaped
<1>7. own[t] \in B /\ own[t] \in Nat /\ mm[own[t] + 2] = m[own[t] + 2]
  <2>1. own[t] \in B
    BY <1>1 DEF Shape
  <2> QED
    BY <1>1, <1>5, <2>1, Geometry DEF HeadersSame
<1> HIDE DEF y
<1>8. m2 \in Memory /\ MergedTag(m2, t, y, own[t]) /\ Beyond(mm, m2, t, y)
  <2>1. MergedMem(mm, m2, t, y, own[t])
    BY DEF mm, y
  <2> QED
    BY <1>3, <1>6, <1>7, <2>1, MergedIs
<1>9. JoinedMem(mm, m2, t, v)
  <2>1. m2[t + 2] = mm[t + 2] + mm[v + 2]
    BY <1>3, <1>5, <1>8 DEF MergedTag, y
  <2>2. v + mm[v + 2] = y
    BY <1>5 DEF y
  <2> QED
    BY <1>8, <2>1, <2>2 DEF JoinedMem, Beyond
<1>10. OwnIn(own2, own, T \ {v})
  BY DEF OwnIn
<1>11. own2[t] = own[t] /\ t \in T2
  BY <1>1, <1>2
<1>12. H1 \ {v} = {t} /\ t \in H1 /\ v \in H1
  BY <1>2
<1> HIDE DEF own2, H1, H
<1>13. Follows(mm, t, v - t, 2)
  BY <1>3, <1>5 DEF Follows
<1>14. /\ Good(m2, h.bkt, c, lv, B, T \ {v}, own2, H1 \ {v}, rk, lim)
       /\ Joined(mm, m2, B, T, {t, v})
       /\ FreeIn(m2, T \ {v}, H1 \ {v}) = FreeIn(mm, T, H1)
       /\ UsedIn(m2, T \ {v}, H1 \ {v}) = UsedIn(mm, T, H1)
  <2>1. Small(mm[own[t] + 2] - 3)
    BY <1>7
  <2> QED
    BY <1>4, <1>9, <1>10, <1>12, <1>13, <2>1, JoinGood DEF JoinedGood
<1>15. Carried(mm, m2, B, T, T \ {v}, own, own2, H1, H1 \ {v})
  BY <1>6, <1>10, <1>12, <1>14, JoinedCarried
<1>16. Carried(m, mm, B, T, T, own, own, H, H1)
  BY <1>4, PickedCarried DEF H1
<1>17. Carried(m, m2, B, T, T \ {v}, own, own2, H, H1 \ {v})
  BY <1>15, <1>16, CarriedTrans
<1>18. Merged(m, m2, h.bkt, c, lv, B, T, own, rk, lim, t, t)
  BY <1>11, <1>12, <1>14, <1>17 DEF Merged, T2, H
<1> QED
  BY <1>8, <1>18 DEF y

LEMMA MergeBoth ==
  ASSUME NEW m, NEW k, NEW c, NEW lv, NEW B, NEW T, NEW own, NEW t, NEW rk, NEW lim,
         Good(m, k, c, lv, B, T, own, {t}, rk, lim), Small(m[own[t] + 2] - 3),
         NEW u \in FreeIn(m, T, {t}), Beneath(m, u, t),
         NEW v \in FreeIn(m, T, {t}), Beneath(m, t, v),
         NEW h1, h1 = RmTag([mem |-> m, bkt |-> k], u), NEW h2, h2 = RmTag(h1, v),
         NEW m2, MergedMem(h2.mem, m2, u, v + m[v + 2], own[t])
  PROVE  /\ Merged(m, m2, h2.bkt, c, lv, B, T, own, rk, lim, t, u)
         /\ MergedTag(m2, u, v + m[v + 2], own[t])
<1> DEFINE H == {t}
           H1 == H \cup {u}
           H2 == H1 \cup {v}
           T1 == T \ {v}
           T2 == T1 \ {t}
           own1 == [w \in T \ {v} |-> own[w]]
           own2 == [w \in T1 \ {t} |-> own1[w]]
           m1 == h1.mem
           mm == h2.mem
           y == v + m[v + 2]
           g == [mm EXCEPT ![t + 2] = m[t + 2] + m[v + 2]]
<1>1. Shape(m, B, T, own) /\ t \in T
  BY DEF Good, Heaped
<1>2. u \in T /\ u # t /\ v \in T /\ v # t
  BY DEF FreeIn
<1>3. /\ own[u] = own[t] /\ m[u + 2] = t - u /\ u \in Nat /\ t \in Nat /\ u < t
      /\ m[t + 2] \in Nat /\ 6 <= m[t + 2]
      /\ \A a \in Int : u <= a /\ a < t + m[t + 2] => a \in Cell
  BY <1>1, <1>2, BeneathIs
<1>4. /\ own[v] = own[t] /\ m[t + 2] = v - t /\ v \in Nat /\ t < v
      /\ m[v + 2] \in Nat /\ 6 <= m[v + 2] /\ t + 6 <= y /\ y \in Nat
      /\ \A a \in Int : t <= a /\ a < y => a \in Cell
  BY <1>1, <1>2, BeneathIs
<1>5. u # v /\ u + 6 <= y /\ t + 2 # u /\ t + 2 # u + 2
      /\ \A a \in Int : u <= a /\ a < y => a \in Cell
  BY <1>3, <1>4
<1>6. Good(m1, h1.bkt, c, lv, B, T, own, H1, rk, lim) /\ Picked(m, m1, B, T, H, u)
  <2>1. Good(m, k, c, lv, B, T, own, H, rk, lim) /\ u \in FreeIn(m, T, H)
    OBVIOUS
  <2> HIDE DEF H
  <2> QED
    BY <2>1, RmTagGood
<1>7. h2 = RmTag([mem |-> m1, bkt |-> h1.bkt], v)
  BY RmTagRecord
<1>8. v \in FreeIn(m1, T, H1)
  <2>1. FreeIn(m1, T, H1) = FreeIn(m, T, H) \ {u}
    BY <1>6 DEF Picked
  <2> QED
    BY <1>5, <2>1
<1> HIDE DEF m1
<1>9. Good(mm, h2.bkt, c, lv, B, T, own, H2, rk, lim) /\ Picked(m1, mm, B, T, H1, v)
  <2> HIDE DEF H1
  <2> QED
    BY <1>6, <1>7, <1>8, RmTagGood
<1> HIDE DEF mm
<1>10. /\ mm[t + 2] = m[t + 2] /\ mm[u + 2] = m[u + 2] /\ mm[v + 2] = m[v + 2]
       /\ HeadersSame(m, m1, B) /\ HeadersSame(m1, mm, B)
  BY <1>1, <1>2, <1>6, <1>9 DEF Picked, Frame
<1>11. Shape(mm, B, T, own) /\ mm \in Memory
  BY <1>9 DEF Good, Heaped
<1>12. own[t] \in B /\ own[t] \in Nat /\ mm[own[t] + 2] = m[own[t] + 2]
  <2>1. own[t] \in B
    BY <1>1 DEF Shape
  <2> QED
    BY <1>1, <1>10, <2>1, Geometry DEF HeadersSame
<1> HIDE DEF y
<1>13. m2 \in Memory /\ MergedTag(m2, u, y, own[t]) /\ Beyond(mm, m2, u, y)
  <2>1. MergedMem(mm, m2, u, y, own[t])
    BY DEF mm, y
  <2> QED
    BY <1>3, <1>4, <1>5, <1>11, <1>12, <2>1, MergedIs
<1>14. t + 2 \in Cell /\ t + 2 < y
  <2>1. t + 2 \in Int /\ t <= t + 2 /\ t + 2 < y
    BY <1>3, <1>4
  <2> QED
    BY <1>4, <2>1
<1>15. g \in Memory /\ g[t + 2] = m[t + 2] + m[v + 2] /\ \A a \in Cell : a # t + 2 => g[a] = mm[a]
  <2>1. m[t + 2] + m[v + 2] \in Int
    BY <1>3, <1>4
  <2> QED
    BY <1>11, <1>14, <2>1 DEF Memory
<1> HIDE DEF g
<1>16. JoinedMem(mm, g, t, v)
  <2>1. \A a \in Cell : a < t \/ y <= a => a # t + 2
    BY <1>3, <1>4, <1>14
  <2> QED
    BY <1>10, <1>15, <2>1 DEF JoinedMem, y
<1>17. OwnIn(own1, own, T \ {v}) /\ OwnIn(own2, own1, T1 \ {t})
  BY DEF OwnIn
<1>18. own1[t] = own[t] /\ own1[u] = own[t] /\ own2[u] = own[t] /\ u \in T2
  BY <1>1, <1>2, <1>3, <1>5
<1>19. H2 \ {v} = H1 /\ H1 \ {t} = {u} /\ t \in H1 /\ u \in H1 /\ t \in H2 /\ v \in H2
  BY <1>2, <1>5
<1> HIDE DEF own1, own2, H2, H1, H
<1>20. /\ Good(g, h2.bkt, c, lv, B, T \ {v}, own1, H2 \ {v}, rk, lim)
       /\ Joined(mm, g, B, T, {t, v})
       /\ FreeIn(g, T \ {v}, H2 \ {v}) = FreeIn(mm, T, H2)
       /\ UsedIn(g, T \ {v}, H2 \ {v}) = UsedIn(mm, T, H2)
  <2>1. Small(mm[own[t] + 2] - 3)
    BY <1>12
  <2>2. Follows(mm, t, v - t, 2)
    BY <1>4, <1>10 DEF Follows
  <2> QED
    <3>1. Good(mm, h2.bkt, c, lv, B, T, own, H2, rk, lim)
      BY <1>9
    <3>2. t \in H2 /\ v \in H2
      BY <1>19
    <3>3. OwnIn(own1, own, T \ {v})
      BY <1>17
    <3>4. JoinedGood(mm, g, h2.bkt, c, lv, B, T, own, own1, H2, rk, lim, t, v)
      BY <1>16, <2>1, <2>2, <3>1, <3>2, <3>3, JoinGood, Zenon
    <3> QED
      BY <3>4 DEF JoinedGood
<1>21. Carried(mm, g, B, T, T \ {v}, own, own1, H2, H2 \ {v})
  BY <1>11, <1>17, <1>19, <1>20, JoinedCarried
<1>22. Good(g, h2.bkt, c, lv, B, T1, own1, H1, rk, lim) /\ Shape(g, B, T1, own1)
  <2>1. Good(g, h2.bkt, c, lv, B, T1, own1, H1, rk, lim)
    BY <1>19, <1>20
  <2> QED
    BY <2>1 DEF Good, Heaped
<1>23. JoinedMem(g, m2, u, t)
  <2>1. m2[u + 2] = g[u + 2] + g[t + 2]
    <3>1. u + 2 \in Cell
      BY <1>3, <1>4, <1>5
    <3>2. g[u + 2] = t - u
      BY <1>3, <1>5, <1>10, <1>15, <3>1
    <3> QED
      BY <1>3, <1>4, <1>13, <1>15, <3>2 DEF MergedTag, y
  <2>2. t + g[t + 2] = y
    BY <1>3, <1>4, <1>15 DEF y
  <2>3. \A a \in Cell : a < u \/ y <= a => m2[a] = g[a]
    <3> SUFFICES ASSUME NEW a \in Cell, a < u \/ y <= a PROVE m2[a] = g[a]
      OBVIOUS
    <3>1. a # t + 2
      BY <1>3, <1>4, <1>14
    <3> QED
      BY <1>13, <1>15, <3>1 DEF Beyond
  <2> QED
    BY <1>13, <2>1, <2>2, <2>3 DEF JoinedMem
<1>24. /\ Good(m2, h2.bkt, c, lv, B, T1 \ {t}, own2, H1 \ {t}, rk, lim)
       /\ Joined(g, m2, B, T1, {u, t})
       /\ FreeIn(m2, T1 \ {t}, H1 \ {t}) = FreeIn(g, T1, H1)
       /\ UsedIn(m2, T1 \ {t}, H1 \ {t}) = UsedIn(g, T1, H1)
  <2>1. Small(g[own1[u] + 2] - 3)
    <3>1. g[own[t] + 2] = mm[own[t] + 2]
      BY <1>12, <1>20 DEF Joined, HeadersSame
    <3> QED
      BY <1>12, <1>18, <3>1
  <2>2. Follows(g, u, t - u, 2)
    <3>1. u + 2 \in Cell
      BY <1>3, <1>4, <1>5
    <3> QED
      BY <1>3, <1>5, <1>10, <1>15, <3>1 DEF Follows
  <2> HIDE DEF T1
  <2> QED
    <3>1. t \in H1 /\ u \in H1
      BY <1>19
    <3>2. OwnIn(own2, own1, T1 \ {t})
      BY <1>17
    <3>3. Good(g, h2.bkt, c, lv, B, T1, own1, H1, rk, lim)
      BY <1>22
    <3>4. JoinedGood(g, m2, h2.bkt, c, lv, B, T1, own1, own2, H1, rk, lim, u, t)
      BY <1>23, <2>1, <2>2, <3>1, <3>2, <3>3, JoinGood, Zenon
    <3> QED
      BY <3>4 DEF JoinedGood
<1>25. Carried(g, m2, B, T1, T1 \ {t}, own1, own2, H1, H1 \ {t})
  <2> HIDE DEF T1
  <2> QED
    BY <1>17, <1>19, <1>22, <1>24, JoinedCarried
<1>26. Carried(m, m1, B, T, T, own, own, H, H1)
  BY <1>6, PickedCarried DEF H1
<1>27. Carried(m1, mm, B, T, T, own, own, H1, H2)
  BY <1>9, PickedCarried DEF H2
<1>28. Carried(m, mm, B, T, T, own, own, H, H2)
  BY <1>26, <1>27, CarriedTrans
<1>29. Carried(m, g, B, T, T1, own, own1, H, H1)
  <2>1. Carried(mm, g, B, T, T1, own, own1, H2, H1)
    BY <1>19, <1>21
  <2> QED
    BY <1>28, <2>1, CarriedTrans
<1>30. Carried(m, m2, B, T, T2, own, own2, H, {u})
  <2>1. Carried(g, m2, B, T1, T2, own1, own2, H1, {u})
    BY <1>19, <1>25
  <2> HIDE DEF T1, T2
  <2>2. ASSUME NEW S, S = {u} PROVE Carried(m, m2, B, T, T2, own, own2, H, S)
    <3>1. Carried(g, m2, B, T1, T2, own1, own2, H1, S)
      BY <2>1, <2>2
    <3> QED
      BY <1>29, <3>1, CarriedTrans
  <2> QED
    BY <2>2
<1>31. Merged(m, m2, h2.bkt, c, lv, B, T, own, rk, lim, t, u)
  <2>1. Good(m2, h2.bkt, c, lv, B, T2, own2, {u}, rk, lim)
    BY <1>19, <1>24
  <2> HIDE DEF T2
  <2> QED
    BY <1>18, <1>30, <2>1 DEF Merged, H
<1> QED
  BY <1>13, <1>31 DEF y

\* The neighbours that the code finds beside the tag t in hand are the free tags
\* there are beside it.
Beside(T, own, t) ==
  /\ Begins(t) <=> t = own[t] + 3
  /\ Ends(t) <=> t + mem[t + 2] = own[t] + mem[own[t] + 2]
  /\ Inside(t)
  /\ FreeBelow(t) => Below(t) \in FreeIn(mem, T, {t}) /\ Beneath(mem, Below(t), t)
  /\ ~FreeBelow(t) => \A w \in FreeIn(mem, T, {t}) : t # w + mem[w + 2]
  /\ FreeAbove(t) => Above(t) \in FreeIn(mem, T, {t}) /\ Beneath(mem, t, Above(t))
  /\ ~FreeAbove(t) => \A w \in FreeIn(mem, T, {t}) : w # t + mem[t + 2]

LEMMA BesideIs ==
  ASSUME NEW B, NEW T, NEW own, NEW t, NEW rk, NEW lim,
         Heaped(mem, bkt, B, T, own, {t}, rk, lim), Follows(mem, t, own[t], 3)
  PROVE  Beside(T, own, t)
<1> DEFINE b == own[t]
           n == mem[t + 2]
           F == FreeIn(mem, T, {t})
<1>1. Shape(mem, B, T, own) /\ t \in T /\ \A w \in T \ {t} : Marked(mem, own, w)
  BY DEF Heaped
<1>2. \A w \in T : w \in Nat /\ mem[w + 2] \in Nat /\ 6 <= mem[w + 2]
  BY <1>1, Geometry
<1>3. /\ b \in B /\ b + 3 <= t /\ t + n <= b + mem[b + 2]
      /\ t + n # b + mem[b + 2] => t + n \in T /\ own[t + n] = b
      /\ t # b + 3 => \E w \in T : own[w] = b /\ w + mem[w + 2] = t
  BY <1>1 DEF Shape
<1>4. b \in Nat /\ t \in Nat /\ n \in Nat /\ mem[b + 2] \in Nat /\ 6 <= n
  <2>1. b \in Nat
    BY <1>1, <1>3, Geometry
  <2>2. mem[b + 2] \in Nat
    BY <1>1, <1>3 DEF Shape
  <2> QED
    BY <1>1, <1>2, <2>1, <2>2
<1>5. mem[t + 3] = b
  BY DEF Follows
<1>6. (Begins(t) <=> t = b + 3) /\ (Ends(t) <=> t + n = b + mem[b + 2]) /\ Inside(t)
  BY <1>3, <1>4, <1>5 DEF Begins, Ends, Inside, h_blk, size, bsize, BlkS
<1>7. \A w \in T : w + mem[w + 2] = t => Below(t) = w /\ ~Begins(t) /\ w # t
  <2> SUFFICES ASSUME NEW w \in T, w + mem[w + 2] = t PROVE Below(t) = w /\ ~Begins(t) /\ w # t
    OBVIOUS
  <2>1. w \in Nat /\ mem[w + 2] \in Nat /\ 6 <= mem[w + 2] /\ w # t
    BY <1>2, <1>4
  <2>2. own[t] = own[w]
    BY <1>1, SameBlock
  <2>3. b + 3 <= w
    BY <1>1, <2>2 DEF Shape
  <2>4. t # b + 3
    BY <1>4, <2>1, <2>3
  <2>5. mem[w + mem[w + 2] - 1] = w
    BY <1>1, <2>1 DEF Marked
  <2>6. Below(t) = mem[t - 1]
    <3>1. (t - 2) + 1 = t - 1
      BY <1>4
    <3> QED
      BY <3>1 DEF Below, ref, TailS
  <2> QED
    BY <1>6, <2>1, <2>4, <2>5, <2>6
<1>8. \A w \in F : w \in T /\ w # t /\ mem[w] = 0
  BY DEF FreeIn
<1>9. \A w \in T : w # t /\ mem[w] = 0 => w \in F
  BY DEF FreeIn
<1>10. Above(t) = t + n
  BY DEF Above, size
<1> HIDE DEF F
<1>11. FreeBelow(t) => Below(t) \in F /\ Beneath(mem, Below(t), t)
  <2> SUFFICES ASSUME FreeBelow(t) PROVE Below(t) \in F /\ Beneath(mem, Below(t), t)
    OBVIOUS
  <2>1. ~Begins(t) /\ mem[Below(t)] = 0
    BY DEF FreeBelow, use
  <2>2. PICK w \in T : own[w] = b /\ w + mem[w + 2] = t
    BY <1>3, <1>6, <2>1
  <2>3. w = Below(t) /\ w # t
    BY <1>7, <2>2
  <2>4. mem[w + 2] = t - w
    BY <1>2, <2>2
  <2> QED
    BY <1>9, <2>1, <2>3, <2>4 DEF Beneath, Follows
<1>12. ~FreeBelow(t) => \A w \in F : t # w + mem[w + 2]
  <2> SUFFICES ASSUME NEW w \in F, t = w + mem[w + 2] PROVE FreeBelow(t)
    OBVIOUS
  <2> QED
    BY <1>7, <1>8 DEF FreeBelow, use
<1>13. FreeAbove(t) => Above(t) \in F /\ Beneath(mem, t, Above(t))
  <2> SUFFICES ASSUME FreeAbove(t) PROVE Above(t) \in F /\ Beneath(mem, t, Above(t))
    OBVIOUS
  <2>1. ~Ends(t) /\ mem[t + n] = 0
    BY <1>10 DEF FreeAbove, use
  <2>2. t + n \in T /\ t + n # t
    BY <1>3, <1>4, <1>6, <2>1
  <2>3. (t + n) - t = n
    BY <1>4
  <2> QED
    BY <1>9, <1>10, <2>1, <2>2, <2>3 DEF Beneath, Follows
<1>14. ~FreeAbove(t) => \A w \in F : w # t + n
  <2> SUFFICES ASSUME NEW w \in F, w = t + n PROVE FreeAbove(t)
    OBVIOUS
  <2>1. own[w] = b
    BY <1>1, <1>8, SameBlock
  <2>2. w + mem[w + 2] <= b + mem[b + 2] /\ mem[w + 2] \in Nat /\ 6 <= mem[w + 2] /\ w \in Nat
    BY <1>1, <1>2, <1>8, <2>1 DEF Shape
  <2>3. ~Ends(t)
    BY <1>4, <1>6, <2>2
  <2> QED
    BY <1>8, <1>10, <2>3 DEF FreeAbove, use
<1> QED
  BY <1>6, <1>11, <1>12, <1>13, <1>14 DEF Beside, F

\* Inside tl_pool_tag_free: the tag t of block b is in hand.
Hand(m, k, c, lv, B, T, own, rk, lim, t, b) ==
  /\ Good(m, k, c, lv, B, T, own, {t}, rk, lim) /\ KeptBut(m, B, T, own, {t}, b)
  /\ own[t] = b /\ m[t + 3] = b /\ m[t + m[t + 2] - 1] = t /\ Small(m[b + 2] - 3)

HandLonely(m, k, c, lv, B, rk, lim, t, b) ==
  \E T, own : Hand(m, k, c, lv, B, T, own, rk, lim, t, b) /\ Lonely(m, FreeIn(m, T, {t}), t)

Apart(m, F, x, y) == \A w \in F : w # y /\ x # w + m[w + 2]

LEMMA MergedHand ==
  ASSUME NEW m, NEW k, NEW c, NEW lv, NEW B, NEW T, NEW own, NEW t, NEW b, NEW rk, NEW lim,
         Hand(m, k, c, lv, B, T, own, rk, lim, t, b),
         NEW m2, NEW k2, NEW x \in Nat, NEW y \in Nat,
         Merged(m, m2, k2, c, lv, B, T, own, rk, lim, t, x), MergedTag(m2, x, y, b),
         Apart(m, FreeIn(m, T, {t}), x, y)
  PROVE  HandLonely(m2, k2, c, lv, B, rk, lim, x, b)
<1> DEFINE F == FreeIn(m, T, {t})
<1>1. PICK T2, own2 : /\ Good(m2, k2, c, lv, B, T2, own2, {x}, rk, lim)
                      /\ Carried(m, m2, B, T, T2, own, own2, {t}, {x})
                      /\ x \in T2 /\ own2[x] = own[t]
  BY DEF Merged
<1> DEFINE F2 == FreeIn(m2, T2, {x})
<1>2. own[t] = b /\ Small(m[b + 2] - 3) /\ KeptBut(m, B, T, own, {t}, b) /\ Shape(m, B, T, own) /\ t \in T
  BY DEF Hand, Good, Heaped
<1>3. own2[x] = b /\ b \in B
  <2>1. own[t] \in B
    BY <1>2 DEF Shape
  <2> QED
    BY <1>1, <1>2, <2>1
<1>4. m2[b + 2] = m[b + 2]
  BY <1>1, <1>3 DEF Carried, HeadersSame
<1>5. m2[x + 2] = y - x /\ m2[x + 3] = b /\ m2[y - 1] = x
  BY DEF MergedTag
<1>6. x + m2[x + 2] = y /\ x + m2[x + 2] - 1 = y - 1
  BY <1>5
<1>7. F2 \subseteq F /\ \A w \in F2 : m2[w + 2] = m[w + 2]
  <2>1. F2 \subseteq T2 \ {x}
    BY DEF FreeIn
  <2> QED
    BY <1>1, <2>1 DEF Carried
<1>8. Lonely(m2, F2, x)
  <2> HIDE DEF F, F2
  <2>1. Apart(m, F, x, y)
    BY DEF F
  <2> QED
    BY <1>6, <1>7, <2>1 DEF Lonely, Apart
<1>9. KeptBut(m2, B, T2, own2, {x}, b)
  <2> SUFFICES ASSUME NEW z \in B \ {BaseBlk, b} PROVE \E w \in T2 \ {x} : own2[w] = z /\ m2[w] = 1
    BY DEF KeptBut
  <2>1. PICK w \in T \ {t} : own[w] = z /\ m[w] = 1
    BY <1>2 DEF KeptBut
  <2>2. w \in UsedIn(m, T, {t})
    BY <2>1 DEF UsedIn
  <2>3. w \in UsedIn(m2, T2, {x})
    BY <1>1, <2>2 DEF Carried
  <2>4. w \in T2 \ {x} /\ m2[w] = 1
    BY <2>3 DEF UsedIn
  <2> QED
    BY <1>1, <2>1, <2>4 DEF Carried
<1>10. Hand(m2, k2, c, lv, B, T2, own2, rk, lim, x, b)
  BY <1>1, <1>2, <1>3, <1>4, <1>5, <1>6, <1>9 DEF Hand
<1> QED
  BY <1>8, <1>10 DEF HandLonely

\* The tag in hand and its free neighbours have become one tag.
LEMMA MergeIs ==
  ASSUME NEW c, NEW lv, NEW B, NEW T, NEW own, NEW t, NEW b, NEW rk, NEW lim,
         Hand(mem, bkt, c, lv, B, T, own, rk, lim, t, b), FreeBelow(t) \/ FreeAbove(t),
         NEW h1, h1 = IF FreeBelow(t) THEN RmTag(Heap, Below(t)) ELSE Heap,
         NEW h2, h2 = IF FreeAbove(t) THEN RmTag(h1, Above(t)) ELSE h1,
         NEW x, x = IF FreeBelow(t) THEN Below(t) ELSE t,
         NEW y, y = IF FreeAbove(t) THEN Above(t) + mem[size(Above(t))] ELSE Above(t),
         NEW m2, MergedMem(h2.mem, m2, x, y, b)
  PROVE  /\ x \in Nat /\ y \in Nat /\ Apart(mem, FreeIn(mem, T, {t}), x, y)
         /\ Merged(mem, m2, h2.bkt, c, lv, B, T, own, rk, lim, t, x) /\ MergedTag(m2, x, y, b)
<1> DEFINE F == FreeIn(mem, T, {t})
           u == Below(t)
           v == Above(t)
<1>1. /\ Good(mem, bkt, c, lv, B, T, own, {t}, rk, lim) /\ own[t] = b /\ mem[t + 3] = b
      /\ Small(mem[own[t] + 2] - 3)
  BY DEF Hand
<1>2. Heaped(mem, bkt, B, T, own, {t}, rk, lim) /\ Separate(mem, F)
  BY <1>1 DEF Good
<1>3. Shape(mem, B, T, own) /\ t \in T
  BY <1>2 DEF Heaped
<1>4. Beside(T, own, t)
  <2>1. Follows(mem, t, own[t], 3)
    BY <1>1 DEF Follows
  <2> QED
    BY <1>2, <2>1, BesideIs
<1>5. FreeBelow(t) => u \in F /\ Beneath(mem, u, t)
  BY <1>4 DEF Beside
<1>6. ~FreeBelow(t) => \A w \in F : t # w + mem[w + 2]
  BY <1>4 DEF Beside
<1>7. FreeAbove(t) => v \in F /\ Beneath(mem, t, v)
  BY <1>4 DEF Beside
<1>8. ~FreeAbove(t) => \A w \in F : w # t + mem[t + 2]
  BY <1>4 DEF Beside
<1>9. v = t + mem[t + 2] /\ t \in Nat /\ mem[t + 2] \in Nat /\ v \in Nat
  BY <1>3, Geometry DEF Above, size
<1>10. \A w \in F : w \in T /\ w \in Nat /\ mem[w + 2] \in Nat
  BY <1>3, Geometry DEF FreeIn
<1>11. Separate(mem, F)
  BY <1>2
<1>12. y = IF FreeAbove(t) THEN v + mem[v + 2] ELSE v
  BY DEF size
<1> HIDE DEF F, u, v
<1>13. x \in Nat /\ y \in Nat
  BY <1>5, <1>7, <1>9, <1>10, <1>12 DEF u
<1>14. Apart(mem, F, x, y)
  <2> SUFFICES ASSUME NEW w \in F PROVE w # y /\ x # w + mem[w + 2]
    BY DEF Apart
  <2>1. w # y
    BY <1>7, <1>8, <1>9, <1>11, <1>12 DEF Separate
  <2>2. x # w + mem[w + 2]
    BY <1>5, <1>6, <1>11 DEF Separate, u
  <2> QED
    BY <2>1, <2>2
<1>15. Heap = [mem |-> mem, bkt |-> bkt] /\ Heap.bkt = bkt /\ Heap.mem = mem
  BY DEF Heap
<1>16. Merged(mem, m2, h2.bkt, c, lv, B, T, own, rk, lim, t, x) /\ MergedTag(m2, x, y, b)
  <2>1. CASE FreeBelow(t) /\ ~FreeAbove(t)
    <3>1. x = u /\ y = t + mem[t + 2] /\ h2 = h1 /\ h1 = RmTag([mem |-> mem, bkt |-> bkt], u)
      BY <1>9, <1>12, <1>15, <2>1 DEF u
    <3>2. MergedMem(h1.mem, m2, u, t + mem[t + 2], own[t])
      BY <1>1, <3>1
    <3>3. u \in FreeIn(mem, T, {t}) /\ Beneath(mem, u, t)
      BY <1>5, <2>1 DEF F
    <3>4. /\ Merged(mem, m2, h1.bkt, c, lv, B, T, own, rk, lim, t, u)
          /\ MergedTag(m2, u, t + mem[t + 2], own[t])
      BY <1>1, <3>1, <3>2, <3>3, MergeBelow
    <3> QED
      BY <1>1, <3>1, <3>4
  <2>2. CASE ~FreeBelow(t) /\ FreeAbove(t)
    <3>1. x = t /\ y = v + mem[v + 2] /\ h2 = RmTag([mem |-> mem, bkt |-> bkt], v)
      BY <1>12, <1>15, <2>2 DEF v
    <3>2. MergedMem(h2.mem, m2, t, v + mem[v + 2], own[t])
      BY <1>1, <3>1
    <3>3. v \in FreeIn(mem, T, {t}) /\ Beneath(mem, t, v)
      BY <1>7, <2>2 DEF F
    <3>4. /\ Merged(mem, m2, h2.bkt, c, lv, B, T, own, rk, lim, t, t)
          /\ MergedTag(m2, t, v + mem[v + 2], own[t])
      BY <1>1, <3>1, <3>2, <3>3, MergeAbove
    <3> QED
      BY <1>1, <3>1, <3>4
  <2>3. CASE FreeBelow(t) /\ FreeAbove(t)
    <3>1. /\ x = u /\ y = v + mem[v + 2]
          /\ h1 = RmTag([mem |-> mem, bkt |-> bkt], u) /\ h2 = RmTag(h1, v)
      BY <1>12, <1>15, <2>3 DEF u, v
    <3>2. MergedMem(h2.mem, m2, u, v + mem[v + 2], own[t])
      BY <1>1, <3>1
    <3>3. /\ u \in FreeIn(mem, T, {t}) /\ Beneath(mem, u, t)
          /\ v \in FreeIn(mem, T, {t}) /\ Beneath(mem, t, v)
      BY <1>5, <1>7, <2>3 DEF F
    <3>4. /\ Merged(mem, m2, h2.bkt, c, lv, B, T, own, rk, lim, t, u)
          /\ MergedTag(m2, u, v + mem[v + 2], own[t])
      BY <1>1, <3>1, <3>2, <3>3, MergeBoth
    <3> QED
      BY <1>1, <3>1, <3>4
  <2> QED
    BY <2>1, <2>2, <2>3
<1> QED
  BY <1>13, <1>14, <1>16 DEF F

\* A block put on the list, whatever else is written into it.
OutsideSame(m, m1, b) == m1 \in Memory /\ \A c \in Cell : Outside(b, c) => m1[c] = m[c]

InsideSame(m1, m2, b) == \A c \in Cell : c # b /\ c # b + 1 /\ ~Outside(b, c) => m2[c] = m1[c]

LEMMA AddBlkIs ==
  ASSUME NEW m \in Memory, NEW B, NEW T, NEW own, Shape(m, B, T, own), BaseBlk \in B, m[BaseBlk + 1] \in B,
         NEW b \in Slots, b \notin B, NEW m1, OutsideSame(m, m1, b), NEW m2, m2 = AddBlk(m1, b)
  PROVE  BlkAdded(m, m2, b) /\ InsideSame(m1, m2, b)
<1> DEFINE a == m[BaseBlk + 1]
           d == BaseBlk + 1
           g1 == [m1 EXCEPT ![b + 1] = a]
           g2 == [g1 EXCEPT ![a] = b]
           g3 == [g2 EXCEPT ![b] = BaseBlk]
<1>1. b \in BlockSet /\ BaseBlk \in BlockSet /\ b # BaseBlk
  BY Rooms DEF BlockSet
<1>2. \A x \in B : x \in Nat /\ x \in Cell /\ x + 1 \in Cell /\ x + 2 \in Cell
  BY Geometry
<1>3. \A x \in B : \A c \in Int : x <= c /\ c <= x + 2 => Outside(b, c)
  BY <1>1, OutsideRoom
<1>4. b \in Nat /\ Room(b) \in Nat /\ 9 <= Room(b)
  <2>1. b \in Nat
    BY <1>1, Rooms
  <2>2. Room(b) = SlotS
    BY <1>1 DEF Room
  <2>3. SlotS \in Nat /\ 9 <= SlotS
    BY LayoutAssumption DEF BlkS, ThreshS, HeadS, TailS
  <2> QED
    BY <2>1, <2>2, <2>3
<1>5. b \in Cell /\ b + 1 \in Cell /\ ~Outside(b, b) /\ ~Outside(b, b + 1)
  <2>1. \A c \in Int : b <= c /\ c < b + Room(b) => c \in Cell
    BY <1>1, Rooms
  <2> QED
    BY <1>4, <2>1 DEF Outside
<1>6. a \in Cell /\ a \in Nat /\ d \in Cell /\ d \in Nat /\ Outside(b, a) /\ Outside(b, d) /\ BaseBlk \in Int
  <2>1. BaseBlk \in Nat /\ a \in Nat
    BY <1>2
  <2> QED
    BY <1>2, <1>3, <2>1
<1>7. a # d
  <2>1. a # BaseBlk => a + 3 <= BaseBlk \/ BaseBlk + 3 <= a
    BY Geometry
  <2>2. a \in Nat /\ BaseBlk \in Nat
    BY <1>2
  <2> QED
    BY <2>1, <2>2
<1>8. b # a /\ b + 1 # a /\ b # d /\ b + 1 # d /\ b # b + 1
  BY <1>4, <1>5, <1>6
<1>9. m1 \in [Cell -> Int] /\ (\A c \in Cell : Outside(b, c) => m1[c] = m[c])
  BY DEF OutsideSame, Memory
<1>10. m1[d] = a
  BY <1>6, <1>9
<1>11. m2 = [g3 EXCEPT ![d] = b]
  BY <1>10 DEF AddBlk, bnxt, bpre
<1> HIDE DEF a
<1>12. g1 \in [Cell -> Int] /\ g1[b + 1] = a /\ \A c \in Cell : c # b + 1 => g1[c] = m1[c]
  BY <1>5, <1>6, <1>9
<1> HIDE DEF g1
<1>13. g2 \in [Cell -> Int] /\ g2[a] = b /\ \A c \in Cell : c # a => g2[c] = g1[c]
  BY <1>4, <1>6, <1>12
<1> HIDE DEF g2
<1>14. g3 \in [Cell -> Int] /\ g3[b] = BaseBlk /\ \A c \in Cell : c # b => g3[c] = g2[c]
  BY <1>5, <1>6, <1>13
<1> HIDE DEF g3, d
<1>15. m2 \in [Cell -> Int] /\ m2[d] = b /\ \A c \in Cell : c # d => m2[c] = g3[c]
  BY <1>4, <1>6, <1>11, <1>14
<1>16. m2[b + 1] = a /\ m2[b] = BaseBlk /\ m2[a] = b /\ m2[d] = b
  BY <1>5, <1>6, <1>7, <1>8, <1>12, <1>13, <1>14, <1>15
<1>17. \A c \in Cell : c # b /\ c # b + 1 /\ c # a /\ c # d => m2[c] = m1[c]
  BY <1>12, <1>13, <1>14, <1>15
<1>18. \A c \in Cell : Outside(b, c) /\ c # a /\ c # d => m2[c] = m[c]
  BY <1>5, <1>9, <1>17
<1>19. InsideSame(m1, m2, b)
  BY <1>6, <1>17 DEF InsideSame
<1> QED
  BY <1>15, <1>16, <1>18, <1>19 DEF BlkAdded, Memory, a, d

\* Words written into the new block leave it on the list.
LEMMA AddedInside ==
  ASSUME NEW m, NEW m1, NEW m2, NEW B, NEW T, NEW own, Shape(m, B, T, own), BaseBlk \in B, m[BaseBlk + 1] \in B,
         NEW b \in BlockSet, b \notin B, b + 1 \in Cell, BlkAdded(m, m1, b), m2 \in Memory,
         \A c \in Cell : c = b \/ c = b + 1 \/ Outside(b, c) => m2[c] = m1[c]
  PROVE  BlkAdded(m, m2, b)
<1>1. \A x \in B : x \in Nat /\ x \in Cell /\ x + 1 \in Cell
  BY Geometry
<1>2. \A x \in B : \A c \in Int : x <= c /\ c <= x + 2 => Outside(b, c)
  BY OutsideRoom
<1>3. b \in Cell
  <2>1. b \in Nat /\ Room(b) \in Nat /\ (0 < Room(b) => b \in Cell)
    <3>1. b \in Nat /\ Room(b) \in Nat /\ \A c \in Int : b <= c /\ c < b + Room(b) => c \in Cell
      BY Rooms
    <3> QED
      BY <3>1
  <2>2. 0 < Room(b)
    BY LayoutAssumption DEF Room, BlkS, ThreshS, HeadS, TailS
  <2> QED
    BY <2>1, <2>2
<1>4. /\ BaseBlk + 1 \in Cell /\ m[BaseBlk + 1] \in Cell
      /\ Outside(b, BaseBlk + 1) /\ Outside(b, m[BaseBlk + 1])
  <2>1. BaseBlk \in Nat /\ m[BaseBlk + 1] \in Nat
    BY <1>1
  <2> QED
    BY <1>1, <1>2, <2>1
<1> QED
  BY <1>3, <1>4 DEF BlkAdded

LEMMA GrantIs ==
  ASSUME NEW m, NEW k, NEW c, NEW lv, NEW B, NEW T, NEW own, NEW rk, NEW lim,
         Good(m, k, c, lv, B, T, own, {}, rk, lim), NEW t \in FreeIn(m, T, {}),
         NEW n \in Nat, 6 <= n, n <= m[t + 2],
         NEW r, r = TagAlloc([mem |-> m, bkt |-> k], t, n)
  PROVE  /\ t \in Nat /\ r.heap.mem[t + 2] \in Int /\ r.taken \in Nat
         /\ HeapLike(r.heap) /\ FootOK(m, t)
<1>1. Heaped(m, k, B, T, own, {}, rk, lim)
  BY DEF Good
<1>2. t \in T /\ m[t] = 0 /\ Shape(m, B, T, own) /\ Marked(m, own, t)
  BY <1>1 DEF Heaped, FreeIn
<1>3. t \in Nat /\ m[t + 2] \in Nat /\ 6 <= m[t + 2]
  BY <1>2, Geometry
<1>4. t + 2 \in Cell
  <2>1. \A c2 \in Int : t <= c2 /\ c2 < t + m[t + 2] => c2 \in Cell
    BY <1>2, Geometry
  <2> QED
    BY <1>3, <2>1
<1>5. \E T2, own2, rk2, lim2 : Granted(m, B, T, own, t, n, r, T2, own2, rk2, lim2)
  BY <1>1, TagAllocKeeps
<1>6. r.heap.mem \in Memory /\ r.taken \in Nat
  BY <1>5 DEF Granted, Heaped, GrantedTag
<1>7. FootOK(m, t)
  <2>1. m[t + m[t + 2] - 1] = t
    BY <1>2 DEF Marked
  <2>2. (t + m[t + 2] - 2) + 1 = t + m[t + 2] - 1
    BY <1>3
  <2> QED
    BY <2>1, <2>2 DEF FootOK, ref, foot, size, TailS
<1> QED
  BY <1>3, <1>4, <1>6, <1>7, TagAllocHeapLike DEF Memory

\* A new block of the given words, which are more than the request.
GrownMem(m, m2, b, words) == m2 = [AddBlk(m, b) EXCEPT ![b + 2] = words, ![b + 5] = words - 3]

LEMMA GrownIs ==
  ASSUME NEW m \in Memory, NEW B, NEW T, NEW own, Shape(m, B, T, own), BaseBlk \in B, m[BaseBlk + 1] \in B,
         NEW b \in Slots, b \notin B, NEW words \in Nat, words <= SlotS, 9 <= words,
         NEW m2, GrownMem(m, m2, b, words)
  PROVE  BlkAdded(m, m2, b) /\ BlockAt(m2, b) /\ m2[b + 2] = words /\ m2[b + 5] = words - 3
<1> DEFINE g == AddBlk(m, b)
           g1 == [g EXCEPT ![b + 2] = words]
<1>1. BlkAdded(m, g, b)
  <2>1. OutsideSame(m, m, b)
    BY DEF OutsideSame
  <2> QED
    BY <2>1, AddBlkIs
<1>2. b \in BlockSet /\ b # BaseBlk /\ Room(b) = SlotS /\ b \in Nat /\ SlotS \in Nat
  BY Rooms, LayoutAssumption DEF BlockSet, Room
<1>3. \A c \in Int : b <= c /\ c < b + SlotS => c \in Cell
  BY <1>2, Rooms
<1>4. b + 1 \in Cell /\ b + 2 \in Cell /\ b + 5 \in Cell /\ 9 <= SlotS
  BY <1>2, <1>3
<1>5. g \in [Cell -> Int]
  BY <1>1 DEF BlkAdded, Memory
<1>6. m2 = [g1 EXCEPT ![b + 5] = words - 3]
  BY DEF GrownMem
<1> HIDE DEF g
<1>7. g1 \in [Cell -> Int] /\ g1[b + 2] = words /\ \A c \in Cell : c # b + 2 => g1[c] = g[c]
  BY <1>4, <1>5
<1> HIDE DEF g1
<1>8. m2 \in [Cell -> Int] /\ m2[b + 5] = words - 3 /\ \A c \in Cell : c # b + 5 => m2[c] = g1[c]
  BY <1>4, <1>6, <1>7
<1>9. b + 2 # b + 5
  BY <1>2
<1>10. m2[b + 2] = words
  BY <1>4, <1>7, <1>8, <1>9
<1>11. \A c \in Cell : c = b \/ c = b + 1 \/ Outside(b, c) => m2[c] = g[c]
  <2> SUFFICES ASSUME NEW c \in Cell, c = b \/ c = b + 1 \/ Outside(b, c) PROVE m2[c] = g[c]
    OBVIOUS
  <2>1. c # b + 2 /\ c # b + 5
    BY <1>2, <1>4 DEF Outside
  <2> QED
    BY <1>7, <1>8, <2>1
<1>12. BlkAdded(m, m2, b)
  BY <1>1, <1>2, <1>4, <1>8, <1>11, AddedInside DEF g, Memory
<1>13. BlockAt(m2, b)
  BY <1>2, <1>8, <1>10 DEF BlockAt
<1> QED
  BY <1>8, <1>10, <1>12, <1>13

LEMMA PutFreeRecord ==
  ASSUME NEW m, NEW k, NEW t, NEW b, NEW h, h = PutFree([mem |-> m, bkt |-> k], t, b)
  PROVE  h = [mem |-> h.mem, bkt |-> h.bkt]
<1>1. \E h0, i : h = AddTag(h0, i, t)
  BY DEF PutFree
<1> QED
  BY <1>1 DEF AddTag

\* The tags of a heap to which the tag t of the block b was added, when b is not
\* a block of the others: none of them borders on t.
LEMMA AloneInBlock ==
  ASSUME NEW m, NEW B, NEW T, NEW own, NEW rk, NEW lim, NEW k, NEW t, Heaped(m, k, B, T, own, {t}, rk, lim),
         \A u \in T : u # t => own[u] # own[t]
  PROVE  Lonely(m, FreeIn(m, T, {t}), t)
<1>1. Shape(m, B, T, own) /\ t \in T
  BY DEF Heaped
<1> SUFFICES ASSUME NEW u \in FreeIn(m, T, {t}) PROVE u # t + m[t + 2] /\ t # u + m[u + 2]
  BY DEF Lonely
<1>2. u \in T /\ u # t /\ own[u] # own[t]
  BY DEF FreeIn
<1> QED
  BY <1>1, <1>2, SameBlock

LEMMA GrowStep ==
  ASSUME NEW m, NEW k, NEW c, NEW lv, NEW B, Settled(m, k, c, lv, B),
         NEW b \in Slots, b \notin B, NEW acts \in Nat \ {0}, NEW words \in Nat, words <= SlotS,
         TagSize(acts) + 3 <= words, Small(words - 3),
         NEW m2, GrownMem(m, m2, b, words),
         NEW h, h = PutFree([mem |-> m2, bkt |-> k], b + 3, b),
         NEW r, r = TagAlloc(h, b + 3, TagSize(acts)),
         NEW c1, BlkMore(c, c1, words), NEW c2
  PROVE  /\ InuseMore(c1, c2, r.taken)
              => Settled(GiveMem(r.heap.mem, b + 3, acts), r.heap.bkt, c2, WithRegion(lv, b + 3 + 4, acts),
                         B \cup {b})
         /\ r.heap.mem[b + 3 + 2] \in Int /\ HeapLike(r.heap) /\ Fits(h.mem, b + 3, TagSize(acts))
         /\ r.taken \in Nat
<1> DEFINE t == b + 3
           n == TagSize(acts)
           B2 == B \cup {b}
<1>1. PICK T, own, rk, lim : Good(m, k, c, lv, B, T, own, {}, rk, lim) /\ KeptBut(m, B, T, own, {}, BaseBlk)
  BY DEF Settled
<1>2. Heaped(m, k, B, T, own, {}, rk, lim)
  BY <1>1 DEF Good
<1>3. m \in Memory /\ Shape(m, B, T, own) /\ BaseBlk \in B /\ m[BaseBlk + 1] \in B
  BY <1>2 DEF Heaped, Ring
<1>4. n = acts + 5 /\ n \in Nat /\ 6 <= n
  BY TagSizeIs
<1>5. b \in BlockSet /\ b \in Nat
  BY Rooms DEF BlockSet
<1>6. BlkAdded(m, m2, b) /\ BlockAt(m2, b) /\ m2[b + 2] = words /\ m2[b + 5] = words - 3
  BY <1>3, <1>4, GrownIs
<1>7. PICK T2, own2, rk2, lim2 :
           /\ Good(m2, k, c1, lv, B2, T2, own2, {t}, rk2, lim2)
           /\ T2 = T \cup {t} /\ t \notin T /\ own2[t] = b
           /\ \A u \in T : own2[u] = own[u] /\ m2[u] = m[u]
  <2>1. Small(m2[b + 2] - 3) \/ m2[b + 3] = 1
    BY <1>6
  <2>2. BlkMore(c, c1, m2[b + 2])
    BY <1>6
  <2>3. AddedTag(m, m2, k, c1, lv, B, T, own, b)
    BY <1>1, <1>5, <1>6, <2>1, <2>2, AddedGood
  <2> QED
    BY <2>3 DEF AddedTag
<1>8. \A u \in T : own[u] \in B
  BY <1>3 DEF Shape
<1>9. \A u \in T2 : u # t => own2[u] # own2[t]
  BY <1>7, <1>8
<1>10. Lonely(m2, FreeIn(m2, T2, {t}), t)
  <2>1. Heaped(m2, k, B2, T2, own2, {t}, rk2, lim2)
    BY <1>7 DEF Good
  <2> HIDE DEF t, B2
  <2> QED
    BY <1>9, <2>1, AloneInBlock
<1>11. m2[t + 2] = words - 3 /\ t \in Nat
  <2>1. t + 2 = b + 5
    BY <1>5
  <2> QED
    BY <1>5, <1>6, <2>1
<1>12. h = PutFree([mem |-> m2, bkt |-> k], t, own2[t])
  BY <1>7
<1>13. Small(m2[own2[t] + 2] - 3) /\ Small(m2[t + 2])
  BY <1>6, <1>7, <1>11
<1> HIDE DEF t, B2
<1>14. /\ \E rk3, lim3 : Good(h.mem, h.bkt, c1, lv, B2, T2, own2, {}, rk3, lim3)
       /\ h.mem[t] = 0 /\ h.mem[t + 2] = m2[t + 2] /\ \A u \in T2 \ {t} : h.mem[u] = m2[u]
  BY <1>7, <1>10, <1>12, <1>13, PutFreeGood
<1>15. PICK rk3, lim3 : Good(h.mem, h.bkt, c1, lv, B2, T2, own2, {}, rk3, lim3)
  BY <1>14
<1>16. t \in FreeIn(h.mem, T2, {})
  BY <1>7, <1>14 DEF FreeIn
<1>17. KeptBut(h.mem, B2, T2, own2, {}, own2[t])
  <2> SUFFICES ASSUME NEW z \in B2 \ {BaseBlk, b} PROVE \E w \in T2 \ {} : own2[w] = z /\ h.mem[w] = 1
    BY <1>7 DEF KeptBut
  <2>1. PICK w \in T : own[w] = z /\ m[w] = 1
    BY <1>1 DEF KeptBut, B2
  <2>2. w \in T2 \ {t} /\ own2[w] = z /\ h.mem[w] = 1
    BY <1>7, <1>14, <2>1
  <2> QED
    BY <2>2
<1>18. h.mem[t + 2] = words - 3 /\ n <= h.mem[t + 2]
  BY <1>4, <1>11, <1>14
<1>19. h = [mem |-> h.mem, bkt |-> h.bkt]
  BY PutFreeRecord
<1>20. r = TagAlloc([mem |-> h.mem, bkt |-> h.bkt], t, n)
  BY <1>19 DEF t
<1> HIDE DEF n
<1>21. ASSUME InuseMore(c1, c2, r.taken)
       PROVE  Settled(GiveMem(r.heap.mem, t, acts), r.heap.bkt, c2, WithRegion(lv, t + 4, acts), B2)
  <2>1. r = TagAlloc([mem |-> h.mem, bkt |-> h.bkt], t, TagSize(acts)) /\ TagSize(acts) <= h.mem[t + 2]
    BY <1>18, <1>20 DEF n
  <2> QED
    BY <1>15, <1>16, <1>17, <1>21, <2>1, AllocKeeps
<1>22. r.heap.mem[t + 2] \in Int /\ HeapLike(r.heap) /\ r.taken \in Nat
  BY <1>4, <1>15, <1>16, <1>18, <1>20, GrantIs
<1>23. Fits(h.mem, t, n)
  BY <1>18 DEF Fits, size
<1> QED
  BY <1>21, <1>22, <1>23 DEF t, n, B2

\* A block of its own for a region: its only tag t is used.
LargeMem(m, m1, m2, b, t, n) ==
  /\ m1 = [m EXCEPT ![b + 2] = n + 3, ![t] = 1, ![t + 2] = n, ![t + 1] = t, ![t + 3] = b]
  /\ m2 = [m1 EXCEPT ![t + m1[t + 2] - 2 + 1] = t]

LargeTag(m2, b, t, n) ==
  m2[b + 2] = n + 3 /\ m2[t] = 1 /\ m2[t + 2] = n /\ m2[t + 3] = b /\ m2[t + n - 1] = t

LEMMA LargeIs ==
  ASSUME NEW m \in Memory, NEW b \in Slots, NEW t, t = b + 3, NEW n \in Nat, 6 <= n, n + 3 <= SlotS,
         NEW m1, NEW m2, LargeMem(m, m1, m2, b, t, n)
  PROVE  OutsideSame(m, m2, b) /\ LargeTag(m2, b, t, n)
<1> DEFINE g1 == [m EXCEPT ![b + 2] = n + 3]
           g2 == [g1 EXCEPT ![t] = 1]
           g3 == [g2 EXCEPT ![t + 2] = n]
           g4 == [g3 EXCEPT ![t + 1] = t]
           z == t + n - 1
<1>1. b \in BlockSet /\ Room(b) = SlotS /\ b \in Nat /\ SlotS \in Nat /\ t \in Nat
  BY Rooms, LayoutAssumption DEF BlockSet, Room
<1>2. \A c \in Int : b <= c /\ c < b + SlotS => c \in Cell
  BY <1>1, Rooms
<1>3. b + 2 \in Cell /\ t \in Cell /\ t + 1 \in Cell /\ t + 2 \in Cell /\ t + 3 \in Cell /\ z \in Cell
  BY <1>1, <1>2
<1>4. \A c \in {b + 2, t, t + 1, t + 2, t + 3, z} : ~Outside(b, c)
  BY <1>1 DEF Outside
<1>5. /\ z # t /\ z # t + 1 /\ z # t + 2 /\ z # t + 3 /\ z # b + 2
      /\ b + 2 # t /\ b + 2 # t + 1 /\ b + 2 # t + 2 /\ b + 2 # t + 3
      /\ t # t + 1 /\ t # t + 2 /\ t # t + 3 /\ t + 2 # t + 1 /\ t + 2 # t + 3 /\ t + 1 # t + 3
  BY <1>1
<1>6. m \in [Cell -> Int] /\ n + 3 \in Int /\ b \in Int /\ t \in Int /\ n \in Int
  BY <1>1 DEF Memory
<1>7. m1 = [g4 EXCEPT ![t + 3] = b]
  BY DEF LargeMem
<1>8. g1 \in [Cell -> Int] /\ g1[b + 2] = n + 3 /\ \A c \in Cell : c # b + 2 => g1[c] = m[c]
  BY <1>3, <1>6
<1> HIDE DEF g1
<1>9. g2 \in [Cell -> Int] /\ g2[t] = 1 /\ \A c \in Cell : c # t => g2[c] = g1[c]
  BY <1>3, <1>8
<1> HIDE DEF g2
<1>10. g3 \in [Cell -> Int] /\ g3[t + 2] = n /\ \A c \in Cell : c # t + 2 => g3[c] = g2[c]
  BY <1>3, <1>6, <1>9
<1> HIDE DEF g3
<1>11. g4 \in [Cell -> Int] /\ \A c \in Cell : c # t + 1 => g4[c] = g3[c]
  BY <1>3, <1>6, <1>10
<1> HIDE DEF g4
<1>12. m1 \in [Cell -> Int] /\ m1[t + 3] = b /\ \A c \in Cell : c # t + 3 => m1[c] = g4[c]
  BY <1>3, <1>6, <1>7, <1>11
<1>13. m1[b + 2] = n + 3 /\ m1[t] = 1 /\ m1[t + 2] = n /\ m1[t + 3] = b
  BY <1>3, <1>5, <1>8, <1>9, <1>10, <1>11, <1>12
<1>14. t + m1[t + 2] - 2 + 1 = z
  BY <1>1, <1>13
<1>15. m2 = [m1 EXCEPT ![z] = t]
  BY <1>14 DEF LargeMem
<1> HIDE DEF z
<1>16. m2 \in [Cell -> Int] /\ m2[z] = t /\ \A c \in Cell : c # z => m2[c] = m1[c]
  BY <1>3, <1>6, <1>12, <1>15
<1>17. m2[b + 2] = n + 3 /\ m2[t] = 1 /\ m2[t + 2] = n /\ m2[t + 3] = b
  BY <1>3, <1>5, <1>13, <1>16
<1>18. \A c \in Cell : c \notin {b + 2, t, t + 1, t + 2, t + 3, z} => m2[c] = m[c]
  BY <1>8, <1>9, <1>10, <1>11, <1>12, <1>16
<1>19. OutsideSame(m, m2, b)
  BY <1>4, <1>16, <1>18 DEF OutsideSame, Memory
<1> QED
  BY <1>16, <1>17, <1>19 DEF LargeTag, z

LEMMA LargeStep ==
  ASSUME NEW m, NEW k, NEW c, NEW lv, NEW B, Settled(m, k, c, lv, B),
         NEW b \in Slots, b \notin B, NEW acts \in Nat \ {0}, NEW n, n = TagSize(acts), n + 3 <= SlotS,
         NEW t, t = b + 3, NEW m1, NEW m2, LargeMem(m, m1, m2, b, t, n),
         NEW m3, m3 = AddBlk(m2, b),
         NEW c1, BlkMore(c, c1, n + 3), NEW c2, InuseMore(c1, c2, n)
  PROVE  /\ Settled(GiveMem(m3, t, acts), k, c2, WithRegion(lv, t + 4, acts), B \cup {b})
         /\ m3[t + 2] \in Int
<1> DEFINE B2 == B \cup {b}
<1>1. PICK T, own, rk, lim : Good(m, k, c, lv, B, T, own, {}, rk, lim) /\ KeptBut(m, B, T, own, {}, BaseBlk)
  BY DEF Settled
<1>2. Heaped(m, k, B, T, own, {}, rk, lim)
  BY <1>1 DEF Good
<1>3. m \in Memory /\ Shape(m, B, T, own) /\ BaseBlk \in B /\ m[BaseBlk + 1] \in B
  BY <1>2 DEF Heaped, Ring
<1>4. n = acts + 5 /\ n \in Nat /\ 6 <= n
  BY TagSizeIs
<1>5. b \in BlockSet /\ b \in Nat /\ Room(b) = SlotS /\ SlotS \in Nat
  BY Rooms, LayoutAssumption DEF BlockSet, Room
<1>6. OutsideSame(m, m2, b) /\ LargeTag(m2, b, t, n)
  BY <1>3, <1>4, LargeIs
<1>7. BlkAdded(m, m3, b) /\ InsideSame(m2, m3, b)
  BY <1>3, <1>6, AddBlkIs
<1>8. LargeTag(m3, b, t, n)
  <2>1. \A a \in Int : b <= a /\ a < b + SlotS => a \in Cell
    BY <1>5, Rooms
  <2>2. \A a \in Int : b + 2 <= a /\ a < b + SlotS => m3[a] = m2[a]
    <3> SUFFICES ASSUME NEW a \in Int, b + 2 <= a, a < b + SlotS PROVE m3[a] = m2[a]
      OBVIOUS
    <3>1. a \in Cell /\ a # b /\ a # b + 1 /\ ~Outside(b, a)
      BY <1>5, <2>1 DEF Outside
    <3> QED
      BY <1>7, <3>1 DEF InsideSame
  <2>3. m3[b + 2] = m2[b + 2]
    BY <1>4, <1>5, <2>2
  <2>4. m3[t] = m2[t] /\ m3[t + 2] = m2[t + 2] /\ m3[t + 3] = m2[t + 3] /\ m3[t + n - 1] = m2[t + n - 1]
    <3>1. /\ b + 2 <= t /\ t < b + SlotS /\ b + 2 <= t + 2 /\ t + 2 < b + SlotS
          /\ b + 2 <= t + 3 /\ t + 3 < b + SlotS /\ b + 2 <= t + n - 1 /\ t + n - 1 < b + SlotS
          /\ t \in Int /\ t + 2 \in Int /\ t + 3 \in Int /\ t + n - 1 \in Int
      BY <1>4, <1>5
    <3> QED
      BY <2>2, <3>1
  <2> QED
    BY <1>6, <2>3, <2>4 DEF LargeTag
<1>9. /\ m3[b + 2] = n + 3 /\ m3[t] = 1 /\ m3[t + 2] = n /\ m3[t + 3] = b /\ m3[t + n - 1] = t
      /\ m3[b + 5] = n /\ t \in Nat
  <2>1. t + 2 = b + 5
    BY <1>5
  <2> QED
    BY <1>5, <1>8, <2>1 DEF LargeTag
<1>10. BlockAt(m3, b)
  BY <1>4, <1>5, <1>9 DEF BlockAt
<1>11. AddedTag(m, m3, k, c1, lv, B, T, own, b)
  <2>1. Small(m3[b + 2] - 3) \/ m3[b + 3] = 1
    BY <1>9
  <2>2. BlkMore(c, c1, m3[b + 2])
    BY <1>9
  <2> QED
    BY <1>1, <1>5, <1>7, <1>10, <2>1, <2>2, AddedGood
<1>12. PICK T2, own2, rk2, lim2 :
            /\ Good(m3, k, c1, lv, B2, T2, own2, {t}, rk2, lim2)
            /\ T2 = T \cup {t} /\ t \notin T /\ own2[t] = b
            /\ \A u \in T : own2[u] = own[u] /\ m3[u] = m[u]
  BY <1>11 DEF AddedTag
<1>13. GiveReady(m3, own2, t, acts)
  BY <1>4, <1>9, <1>12 DEF GiveReady
<1>14. InuseMore(c1, c2, m3[t + 2])
  BY <1>9
<1> DEFINE mm == GiveMem(m3, t, acts)
<1> HIDE DEF B2, mm
<1>15. /\ Good(mm, k, c2, WithRegion(lv, t + 4, acts), B2, T2, own2, {}, rk2, lim2)
       /\ Stable(m3, mm, B2, T2)
  <2>1. mm = GiveMem(m3, t, acts)
    BY DEF mm
  <2> QED
    BY <1>12, <1>13, <1>14, <2>1, GiveKeeps
<1>16. KeptBut(mm, B2, T2, own2, {}, BaseBlk)
  <2> SUFFICES ASSUME NEW z \in B2 \ {BaseBlk} PROVE \E w \in T2 \ {} : own2[w] = z /\ mm[w] = 1
    BY DEF KeptBut
  <2>1. \A w \in T2 : mm[w] = m3[w]
    BY <1>15 DEF Stable
  <2>2. CASE z = b
    BY <1>9, <1>12, <2>1, <2>2
  <2>3. CASE z # b
    <3>1. PICK w \in T : own[w] = z /\ m[w] = 1
      BY <1>1, <2>3 DEF KeptBut, B2
    <3> QED
      BY <1>12, <2>1, <3>1
  <2> QED
    BY <2>2, <2>3
<1>17. m3[t + 2] \in Int
  BY <1>4, <1>9
<1> QED
  BY <1>15, <1>16, <1>17 DEF Settled, mm, B2

\* The pool's own page, before its first tag enters a bucket.
FirstMem(m, m2) ==
  m2 = [m EXCEPT ![BaseTag + 2] = PageS - PoolHdr, ![BaseBlk + 1] = BaseBlk, ![BaseBlk] = BaseBlk,
                 ![BaseBlk + 2] = PageS - PoolHdr + 3]

FirstCounts(c) == CntTyped(c) /\ c.inuse = 0 /\ c.blk = 1 /\ c.alloc = PageS

LEMMA FirstIs ==
  ASSUME NEW m \in Memory, NEW m2, FirstMem(m, m2)
  PROVE  /\ m2 \in Memory /\ BaseTag = BaseBlk + 3 /\ BaseTag \in Nat /\ PageS - PoolHdr \in Nat
         /\ 6 <= PageS - PoolHdr
         /\ m2[BaseTag + 2] = PageS - PoolHdr /\ m2[BaseBlk + 1] = BaseBlk /\ m2[BaseBlk] = BaseBlk
         /\ m2[BaseBlk + 2] = PageS - PoolHdr + 3
<1> DEFINE b == BaseBlk
           t == BaseTag
           n == PageS - PoolHdr
           g1 == [m EXCEPT ![t + 2] = n]
           g2 == [g1 EXCEPT ![b + 1] = b]
           g3 == [g2 EXCEPT ![b] = b]
<1>1. b \in Nat /\ t = b + 3 /\ t \in Nat /\ n \in Nat /\ 6 <= n
  BY Rooms, LayoutAssumption DEF BaseBlk, BaseTag, BlkS, ThreshS, HeadS, TailS
<1>2. b \in BlockSet /\ Room(b) = n + 3
  BY DEF BlockSet, Room
<1>3. \A c \in Int : b <= c /\ c < b + n + 3 => c \in Cell
  BY <1>1, <1>2, Rooms
<1>4. b \in Cell /\ b + 1 \in Cell /\ b + 2 \in Cell /\ t + 2 \in Cell
  BY <1>1, <1>3
<1>5. t + 2 # b /\ t + 2 # b + 1 /\ t + 2 # b + 2 /\ b # b + 1 /\ b # b + 2 /\ b + 1 # b + 2
  BY <1>1
<1>6. m2 = [g3 EXCEPT ![b + 2] = n + 3] /\ m \in [Cell -> Int]
  BY DEF FirstMem, Memory
<1>7. n + 3 \in Int /\ n \in Int /\ b \in Int
  BY <1>1
<1> HIDE DEF b, t, n
<1>8. g1 \in [Cell -> Int] /\ g1[t + 2] = n /\ \A c \in Cell : c # t + 2 => g1[c] = m[c]
  BY <1>4, <1>6, <1>7
<1> HIDE DEF g1
<1>9. g2 \in [Cell -> Int] /\ g2[b + 1] = b /\ \A c \in Cell : c # b + 1 => g2[c] = g1[c]
  BY <1>4, <1>7, <1>8
<1> HIDE DEF g2
<1>10. g3 \in [Cell -> Int] /\ g3[b] = b /\ \A c \in Cell : c # b => g3[c] = g2[c]
  BY <1>4, <1>7, <1>9
<1> HIDE DEF g3
<1>11. m2 \in [Cell -> Int] /\ m2[b + 2] = n + 3 /\ \A c \in Cell : c # b + 2 => m2[c] = g3[c]
  BY <1>4, <1>6, <1>7, <1>10
<1>12. m2[t + 2] = n /\ m2[b + 1] = b /\ m2[b] = b
  BY <1>4, <1>5, <1>8, <1>9, <1>10, <1>11
<1> QED
  BY <1>1, <1>11, <1>12 DEF Memory, b, t, n

LEMMA FirstGood ==
  ASSUME NEW m \in Memory, NEW m2, FirstMem(m, m2), NEW c, FirstCounts(c), NEW lv, DOMAIN lv = {}
  PROVE  \E own, rk, lim : /\ Good(m2, EmptyBuckets, c, lv, {BaseBlk}, {BaseTag}, own, {BaseTag}, rk, lim)
                           /\ own[BaseTag] = BaseBlk
                           /\ Small(m2[BaseBlk + 2] - 3) /\ Small(m2[BaseTag + 2])
<1> DEFINE b == BaseBlk
           t == BaseTag
           n == PageS - PoolHdr
           B == {BaseBlk}
           T == {BaseTag}
           own == [u \in {BaseTag} |-> BaseBlk]
           rk == [a \in Cell |-> 0]
<1>1. /\ m2 \in Memory /\ t = b + 3 /\ t \in Nat /\ n \in Nat /\ 6 <= n
      /\ m2[t + 2] = n /\ m2[b + 1] = b /\ m2[b] = b /\ m2[b + 2] = n + 3
  BY FirstIs
<1>2. b \in Nat /\ b # NULL /\ b \in BlockSet /\ Room(b) = n + 3 /\ b \in Cell
  <2>1. b \in BlockSet /\ Room(b) = n + 3
    BY DEF BlockSet, Room
  <2>2. b \in Nat /\ b # NULL /\ \A a \in Int : b <= a /\ a < b + n + 3 => a \in Cell
    BY <1>1, <2>1, Rooms
  <2> QED
    BY <1>1, <2>1, <2>2
<1>3. Small(n) /\ n + 3 - 3 = n
  <2>1. PageS <= Pow2[MaxIdx - 1] /\ PageS \in Nat /\ PoolHdr \in Nat
    BY SizesAssumption, LayoutAssumption
  <2>2. Pow2[MaxIdx - 1] \in Nat
    BY SmallIs
  <2> QED
    BY <1>1, <2>1, <2>2 DEF Small
<1>4. own[t] = b /\ own \in [T -> B] /\ \A u \in T : u = t /\ own[u] = b
  OBVIOUS
<1>5. \A x \in B : x = b
  OBVIOUS
<1>6. rk \in [Cell -> Nat] /\ \A x \in Cell : rk[x] = 0
  OBVIOUS
<1> HIDE DEF n
<1>7. Shape(m2, B, T, own)
  <2>1. T \subseteq Nat /\ B \subseteq BlockSet /\ t \in T /\ b \in B
    BY <1>1, <1>2
  <2>2. \A u \in T : u = t /\ own[u] = b /\ u = own[u] + 3 /\ m2[u + 2] = n /\ u + m2[u + 2] = b + m2[b + 2]
    BY <1>1, <1>2, <1>4
  <2>3. \A x \in B : x = b /\ m2[x + 2] = n + 3 /\ Room(x) = n + 3 /\ x + 3 = t
    BY <1>1, <1>2, <1>5
  <2> HIDE DEF t, b, own, T, B
  <2>4. \A x \in B : m2[x + 2] \in Nat /\ m2[x + 2] <= Room(x) /\ x + 3 \in T /\ own[x + 3] = x
    BY <1>1, <1>4, <2>1, <2>3
  <2>5. \A u \in T : m2[u + 2] \in Nat /\ 6 <= m2[u + 2]
    BY <1>1, <2>2
  <2>6. \A u \in T : own[u] + 3 <= u /\ u + m2[u + 2] <= own[u] + m2[own[u] + 2]
    BY <1>1, <1>2, <2>2
  <2>7. \A u \in T : u + m2[u + 2] = own[u] + m2[own[u] + 2] /\ u = own[u] + 3
    BY <2>2
  <2>8. \A u, w \in T : u = w
    BY <2>2
  <2> QED
    BY <1>4, <2>1, <2>4, <2>5, <2>6, <2>7, <2>8 DEF Shape
<1>8. FreeIn(m2, T, T) = {} /\ UsedIn(m2, T, T) = {}
  BY DEF FreeIn, UsedIn
<1>9. Ring(m2, B, m2[b + 1], 0, 1, rk)
  <2>1. b + 0 = b /\ rk[b] = 0 /\ b \in B /\ B # {}
    BY <1>2, <1>6
  <2> HIDE DEF b, B, rk
  <2> QED
    BY <1>1, <1>2, <1>5, <2>1 DEF Ring
<1>10. Listed(m2, EmptyBuckets, {}, rk)
  <2>1. EmptyBuckets \in [0 .. MaxIdx - 1 -> Cell \cup {NULL}] /\ \A i \in 0 .. MaxIdx - 1 : EmptyBuckets[i] = NULL
    BY DEF EmptyBuckets
  <2>2. \A i : ClassOf(m2, {}, i) = {}
    BY DEF ClassOf
  <2> HIDE DEF rk
  <2>3. Ring(m2, {}, NULL, 1, 3, rk)
    BY DEF Ring
  <2> QED
    BY <2>1, <2>2, <2>3 DEF Listed
<1>11. Ranked(rk, 1)
  BY <1>6 DEF Ranked
<1>12. Heaped(m2, EmptyBuckets, B, T, own, T, rk, 1)
  <2>1. BaseBlk \in B /\ \A u \in T \ T : Marked(m2, own, u)
    OBVIOUS
  <2> HIDE DEF B, T, own, rk
  <2> QED
    BY <1>1, <1>7, <1>8, <1>9, <1>10, <1>11, <2>1 DEF Heaped
<1>13. Held(m2, lv, {}) /\ Separate(m2, {})
  BY DEF Held, Separate
<1>14. BigUsed(m2, B)
  BY <1>1, <1>3, <1>5 DEF BigUsed
<1>15. Counted(m2, c, B, {})
  <2>1. TagWords(m2, {}) = {}
    BY DEF TagWords
  <2>2. TagWords(m2, {} \cup {b}) = b .. b + (n + 3) - 1 /\ {} \cup {b} = B
    BY <1>1 DEF TagWords
  <2>3. /\ Cardinality(TagWords(m2, {} \cup {b})) = Cardinality(TagWords(m2, {})) + m2[b + 2]
    <3> DEFINE S == {}
    <3>1. S \subseteq BlockSet /\ b \notin S /\ \A x \in S \cup {b} : m2[x + 2] \in Nat /\ m2[x + 2] <= Room(x)
      BY <1>1, <1>2
    <3> HIDE DEF S, b
    <3>2. Cardinality(TagWords(m2, S \cup {b})) = Cardinality(TagWords(m2, S)) + m2[b + 2]
      BY <1>2, <3>1, BlocksMore
    <3> QED
      BY <3>2 DEF S
  <2>4. Cardinality({}) = 0 /\ Cardinality(B) = 1
    BY FS_EmptySet, FS_Singleton
  <2>5. Cardinality(TagWords(m2, B)) = n + 3
    <3>1. Cardinality(TagWords(m2, B)) = Cardinality(TagWords(m2, {})) + m2[b + 2]
      BY <2>2, <2>3
    <3>2. Cardinality(TagWords(m2, {})) = 0
      BY <2>1, <2>4
    <3> HIDE DEF B, b
    <3> QED
      BY <1>1, <3>1, <3>2
  <2>6. PageS = PoolHdr - 3 + (n + 3)
    BY LayoutAssumption DEF n
  <2> QED
    BY <2>1, <2>4, <2>5, <2>6 DEF Counted, FirstCounts
<1>16. Good(m2, EmptyBuckets, c, lv, B, T, own, T, rk, 1)
  <2>1. CntTyped(c)
    BY DEF FirstCounts
  <2> HIDE DEF B, T, own, rk
  <2> QED
    BY <1>8, <1>12, <1>13, <1>14, <1>15, <2>1 DEF Good
<1> HIDE DEF own, rk
<1> QED
  BY <1>1, <1>3, <1>4, <1>16

\* The tag in hand goes into its bucket, and the call is over.
LEMMA FreeStep ==
  ASSUME NEW m, NEW k, NEW c, NEW lv, NEW B, NEW T, NEW own, NEW rk, NEW lim, NEW t, NEW b,
         Hand(m, k, c, lv, B, T, own, rk, lim, t, b), Lonely(m, FreeIn(m, T, {t}), t),
         KeptBut(m, B, T, own, {t}, BaseBlk),
         NEW h, h = PutFree([mem |-> m, bkt |-> k], t, b)
  PROVE  Settled(h.mem, h.bkt, c, lv, B)
<1>1. Good(m, k, c, lv, B, T, own, {t}, rk, lim) /\ own[t] = b /\ Small(m[own[t] + 2] - 3)
  BY DEF Hand
<1>2. Shape(m, B, T, own) /\ t \in T
  BY <1>1 DEF Good, Heaped
<1>3. Small(m[t + 2])
  <2>1. t \in Nat /\ m[t + 2] \in Nat
    BY <1>2, Geometry
  <2>2. b \in Nat /\ m[b + 2] \in Nat /\ b + 3 <= t /\ t + m[t + 2] <= b + m[b + 2]
    <3>1. b \in B /\ m[b + 2] \in Nat /\ b + 3 <= t /\ t + m[t + 2] <= b + m[b + 2]
      BY <1>1, <1>2 DEF Shape
    <3> QED
      BY <1>2, <3>1, Geometry
  <2>3. m[b + 2] - 3 <= Pow2[MaxIdx - 1] /\ Pow2[MaxIdx - 1] \in Nat
    BY <1>1, SmallIs DEF Small
  <2>4. m[t + 2] <= m[b + 2] - 3
    BY <2>1, <2>2
  <2> QED
    BY <2>1, <2>2, <2>3, <2>4 DEF Small
<1>4. h = PutFree([mem |-> m, bkt |-> k], t, own[t])
  BY <1>1
<1>5. /\ \E rk2, lim2 : Good(h.mem, h.bkt, c, lv, B, T, own, {}, rk2, lim2)
      /\ h.mem[t] = 0 /\ h.mem[t + 2] = m[t + 2] /\ \A u \in T \ {t} : h.mem[u] = m[u]
  BY <1>1, <1>3, <1>4, PutFreeGood
<1>6. KeptBut(h.mem, B, T, own, {}, BaseBlk)
  <2> SUFFICES ASSUME NEW z \in B \ {BaseBlk} PROVE \E w \in T \ {} : own[w] = z /\ h.mem[w] = 1
    BY DEF KeptBut
  <2>1. PICK w \in T \ {t} : own[w] = z /\ m[w] = 1
    BY DEF KeptBut
  <2> QED
    BY <1>5, <2>1
<1> QED
  BY <1>5, <1>6 DEF Settled

\* A tag between used ones, and a tag that is a whole block.
LEMMA BetweenUsed ==
  ASSUME NEW c, NEW lv, NEW B, NEW T, NEW own, NEW rk, NEW lim, NEW t, NEW b,
         Hand(mem, bkt, c, lv, B, T, own, rk, lim, t, b),
         ~WholeBlock(t), ~FreeBelow(t), ~FreeAbove(t)
  PROVE  Lonely(mem, FreeIn(mem, T, {t}), t) /\ KeptBut(mem, B, T, own, {t}, BaseBlk)
<1>1. /\ Heaped(mem, bkt, B, T, own, {t}, rk, lim) /\ own[t] = b /\ mem[t + 3] = b
      /\ KeptBut(mem, B, T, own, {t}, b)
  BY DEF Hand, Good
<1>2. Shape(mem, B, T, own) /\ t \in T /\ \A w \in T \ {t} : Marked(mem, own, w)
  BY <1>1 DEF Heaped
<1>3. Beside(T, own, t)
  <2>1. Follows(mem, t, own[t], 3)
    BY <1>1 DEF Follows
  <2> QED
    BY <1>1, <2>1, BesideIs
<1>4. Lonely(mem, FreeIn(mem, T, {t}), t)
  BY <1>3 DEF Beside, Lonely
<1>5. \E w \in T \ {t} : own[w] = b /\ mem[w] = 1
  <2>1. t \in Nat /\ mem[t + 2] \in Nat /\ 6 <= mem[t + 2]
    BY <1>2, Geometry
  <2>2. \A w \in T \ {t} : mem[w] \in {0, 1}
    BY <1>2 DEF Marked
  <2>3. CASE t # b + 3
    <3>1. PICK w \in T : own[w] = b /\ w + mem[w + 2] = t
      BY <1>1, <1>2, <2>3 DEF Shape
    <3>2. w # t
      BY <2>1, <3>1
    <3>3. w \notin FreeIn(mem, T, {t})
      BY <1>3, <3>1 DEF Beside
    <3> QED
      BY <2>2, <3>1, <3>2, <3>3 DEF FreeIn
  <2>4. CASE t = b + 3
    <3>1. t + mem[t + 2] # b + mem[b + 2]
      BY <1>1, <1>3, <2>4 DEF Beside, WholeBlock
    <3> DEFINE w == t + mem[t + 2]
    <3>2. w \in T /\ own[w] = b /\ w # t
      BY <1>1, <1>2, <2>1, <3>1 DEF Shape
    <3>3. w \notin FreeIn(mem, T, {t})
      BY <1>3 DEF Beside
    <3> HIDE DEF w
    <3> QED
      BY <2>2, <3>2, <3>3 DEF FreeIn
  <2> QED
    BY <2>3, <2>4
<1>6. KeptBut(mem, B, T, own, {t}, BaseBlk)
  <2> SUFFICES ASSUME NEW z \in B \ {BaseBlk} PROVE \E w \in T \ {t} : own[w] = z /\ mem[w] = 1
    BY DEF KeptBut
  <2> QED
    BY <1>1, <1>5 DEF KeptBut
<1> QED
  BY <1>4, <1>6

LEMMA AllOfBlock ==
  ASSUME NEW c, NEW lv, NEW B, NEW T, NEW own, NEW rk, NEW lim, NEW t, NEW b,
         Hand(mem, bkt, c, lv, B, T, own, rk, lim, t, b), WholeBlock(t)
  PROVE  /\ b \in B /\ t = b + 3 /\ Follows(mem, b, mem[b + 2] - 3, 5)
         /\ Lonely(mem, FreeIn(mem, T, {t}), t)
<1>1. Heaped(mem, bkt, B, T, own, {t}, rk, lim) /\ own[t] = b /\ mem[t + 3] = b
  BY DEF Hand, Good
<1>2. Shape(mem, B, T, own) /\ t \in T
  BY <1>1 DEF Heaped
<1>3. Beside(T, own, t)
  <2>1. Follows(mem, t, own[t], 3)
    BY <1>1 DEF Follows
  <2> QED
    BY <1>1, <2>1, BesideIs
<1>4. t = b + 3 /\ t + mem[t + 2] = b + mem[b + 2]
  BY <1>1, <1>3 DEF Beside, WholeBlock
<1>5. b \in B /\ b \in Nat /\ mem[b + 2] \in Nat /\ mem[t + 2] \in Nat
  <2>1. b \in B /\ mem[b + 2] \in Nat
    BY <1>1, <1>2 DEF Shape
  <2> QED
    BY <1>2, <2>1, Geometry
<1>6. mem[b + 5] = mem[b + 2] - 3
  <2>1. b + 5 = t + 2
    BY <1>4, <1>5
  <2> QED
    BY <1>4, <1>5, <2>1
<1>7. \A u \in T : own[u] = b => u = b + 3
  <2> SUFFICES ASSUME NEW u \in T, own[u] = b, u # t PROVE FALSE
    BY <1>4
  <2>1. u + mem[u + 2] <= t \/ t + mem[t + 2] <= u
    BY <1>2 DEF Shape
  <2>2. b + 3 <= u /\ u + mem[u + 2] <= b + mem[b + 2]
    BY <1>2 DEF Shape
  <2>3. u \in Nat /\ mem[u + 2] \in Nat /\ 6 <= mem[u + 2]
    BY <1>2, Geometry
  <2> QED
    BY <1>4, <1>5, <2>1, <2>2, <2>3
<1>8. \A u \in T : u # t => own[u] # own[t]
  BY <1>1, <1>4, <1>7
<1>9. Lonely(mem, FreeIn(mem, T, {t}), t)
  BY <1>1, <1>8, AloneInBlock
<1> QED
  BY <1>4, <1>5, <1>6, <1>9 DEF Follows

(* The counters. *)
Calls == Fields \ {"alloc", "inuse", "blk"}

SameAmounts(c, c2) == c2.alloc = c.alloc /\ c2.inuse = c.inuse /\ c2.blk = c.blk

LEMMA BumpIs ==
  ASSUME NEW c, CntTyped(c), NEW f \in Calls
  PROVE  CntTyped(Bump(c, f)) /\ SameAmounts(c, Bump(c, f))
<1> DEFINE d == Bump(c, f)
<1>1. c \in [Fields -> Int] /\ \A i \in Calls : c[i] \in 0 .. CntMod - 1
  BY DEF CntTyped, Calls
<1>2. CntMod \in Nat \ {0}
  BY SizesAssumption
<1>3. f \in Fields /\ f # "alloc" /\ f # "inuse" /\ f # "blk"
  BY DEF Calls
<1>4. (c[f] + 1) % CntMod \in 0 .. CntMod - 1
  BY <1>1, <1>2
<1>5. d = [c EXCEPT ![f] = (c[f] + 1) % CntMod]
  BY DEF Bump
<1> DEFINE v == (c[f] + 1) % CntMod
<1> HIDE DEF v, d
<1>6. d = [c EXCEPT ![f] = v] /\ v \in 0 .. CntMod - 1
  BY <1>4, <1>5 DEF v
<1>7. d \in [Fields -> Int] /\ d[f] = v /\ \A i \in Fields : i # f => d[i] = c[i]
  BY <1>1, <1>3, <1>6
<1>8. \A i \in Calls : d[i] \in 0 .. CntMod - 1
  BY <1>1, <1>6, <1>7 DEF Calls
<1>9. "alloc" \in Fields /\ "inuse" \in Fields /\ "blk" \in Fields
  BY DEF Fields
<1>10. SameAmounts(c, d)
  BY <1>3, <1>7, <1>9 DEF SameAmounts
<1> QED
  BY <1>7, <1>8, <1>10 DEF CntTyped, Calls, d

\* The three counters that are not of calls.
LEMMA AmountsIs ==
  ASSUME NEW c, CntTyped(c), NEW x \in Int, NEW y \in Int, NEW z \in Int,
         NEW d, d = [c EXCEPT !.inuse = x, !.blk = y, !.alloc = z]
  PROVE  CntTyped(d) /\ d.inuse = x /\ d.blk = y /\ d.alloc = z
<1>1. c \in [Fields -> Int] /\ \A i \in Calls : c[i] \in 0 .. CntMod - 1
  BY DEF CntTyped, Calls
<1>2. "alloc" \in Fields /\ "inuse" \in Fields /\ "blk" \in Fields
  BY DEF Fields
<1>3. /\ d \in [Fields -> Int] /\ d.inuse = x /\ d.blk = y /\ d.alloc = z
      /\ \A i \in Calls : d[i] = c[i]
  BY <1>1, <1>2 DEF Calls
<1> QED
  BY <1>1, <1>3 DEF CntTyped, Calls

LEMMA InuseIs ==
  ASSUME NEW c, CntTyped(c), NEW x \in Int, NEW d, d = [c EXCEPT !.inuse = x]
  PROVE  CntTyped(d) /\ d.inuse = x /\ d.blk = c.blk /\ d.alloc = c.alloc
<1>1. c \in [Fields -> Int] /\ \A i \in Calls : c[i] \in 0 .. CntMod - 1
  BY DEF CntTyped, Calls
<1>2. "alloc" \in Fields /\ "inuse" \in Fields /\ "blk" \in Fields
  BY DEF Fields
<1>3. /\ d \in [Fields -> Int] /\ d.inuse = x /\ d.blk = c.blk /\ d.alloc = c.alloc
      /\ \A i \in Calls : d[i] = c[i]
  BY <1>1, <1>2 DEF Calls
<1> QED
  BY <1>1, <1>3 DEF CntTyped, Calls

LEMMA BlkCountIs ==
  ASSUME NEW c, CntTyped(c), NEW words \in Int
  PROVE  BlkMore(c, CountBlk(c, words), words) /\ BlkLess(c, UncountBlk(c, words), words)
<1>1. c \in [Fields -> Int] /\ \A i \in Calls : c[i] \in 0 .. CntMod - 1
  BY DEF CntTyped, Calls
<1>2. "alloc" \in Fields /\ "inuse" \in Fields /\ "blk" \in Fields
  BY DEF Fields
<1>3. c.blk \in Int /\ c.alloc \in Int
  BY <1>1, <1>2
<1>4. BlkMore(c, CountBlk(c, words), words)
  <2> DEFINE g == [c EXCEPT !.blk = c.blk + 1]
             d == CountBlk(c, words)
  <2>2. d = [g EXCEPT !.alloc = c.alloc + words]
    BY <1>1, <1>2 DEF CountBlk
  <2>3. /\ g \in [Fields -> Int] /\ g.inuse = c.inuse /\ g.blk = c.blk + 1
        /\ \A i \in Calls : g[i] = c[i]
    BY <1>1, <1>2, <1>3 DEF Calls
  <2> HIDE DEF g, d
  <2>1. /\ d \in [Fields -> Int] /\ d.inuse = c.inuse /\ d.blk = c.blk + 1 /\ d.alloc = c.alloc + words
        /\ \A i \in Calls : d[i] = c[i]
    BY <1>2, <1>3, <2>2, <2>3 DEF Calls
  <2> HIDE DEF d
  <2> QED
    BY <1>1, <2>1 DEF CntTyped, Calls, BlkMore, d
<1>5. BlkLess(c, UncountBlk(c, words), words)
  <2> DEFINE g == [c EXCEPT !.blk = c.blk - 1]
             d == UncountBlk(c, words)
  <2>2. d = [g EXCEPT !.alloc = c.alloc - words]
    BY <1>1, <1>2 DEF UncountBlk
  <2>3. /\ g \in [Fields -> Int] /\ g.inuse = c.inuse /\ g.blk = c.blk - 1
        /\ \A i \in Calls : g[i] = c[i]
    BY <1>1, <1>2, <1>3 DEF Calls
  <2> HIDE DEF g, d
  <2>1. /\ d \in [Fields -> Int] /\ d.inuse = c.inuse /\ d.blk = c.blk - 1 /\ d.alloc = c.alloc - words
        /\ \A i \in Calls : d[i] = c[i]
    BY <1>2, <1>3, <2>2, <2>3 DEF Calls
  <2> HIDE DEF d
  <2> QED
    BY <1>1, <2>1 DEF CntTyped, Calls, BlkLess, d
<1> QED
  BY <1>4, <1>5

LEMMA NoCountsTyped ==
  /\ CntTyped(NoCounts) /\ NoCounts.alloc = 0 /\ NoCounts.inuse = 0 /\ NoCounts.blk = 0
  /\ FirstCounts([NoCounts EXCEPT !.blk = 1, !.alloc = PageS])
<1> DEFINE d == [NoCounts EXCEPT !.blk = 1, !.alloc = PageS]
<1>1. CntMod \in Nat \ {0} /\ PageS \in Nat
  BY SizesAssumption, LayoutAssumption
<1>2. NoCounts \in [Fields -> Int] /\ \A i \in Fields : NoCounts[i] = 0
  BY DEF NoCounts, Fields
<1>3. "alloc" \in Fields /\ "inuse" \in Fields /\ "blk" \in Fields
  BY DEF Fields
<1>4. CntTyped(NoCounts) /\ NoCounts.alloc = 0 /\ NoCounts.inuse = 0 /\ NoCounts.blk = 0
  BY <1>1, <1>2, <1>3 DEF CntTyped
<1>5. /\ d \in [Fields -> Int] /\ d.blk = 1 /\ d.alloc = PageS /\ d.inuse = 0
      /\ \A i \in Calls : d[i] = 0
  <2> DEFINE n == NoCounts
             g == [n EXCEPT !.blk = 1]
  <2>1. d = [g EXCEPT !.alloc = PageS]
    BY <1>2, <1>3
  <2>2. n \in [Fields -> Int] /\ \A i \in Fields : n[i] = 0
    BY <1>2
  <2> HIDE DEF n, d
  <2>3. /\ g \in [Fields -> Int] /\ g.blk = 1 /\ g.inuse = 0
        /\ \A i \in Calls : g[i] = 0
    BY <2>2, <1>3 DEF Calls
  <2> HIDE DEF g
  <2> QED
    BY <1>1, <1>3, <2>1, <2>3 DEF Calls
<1>6. FirstCounts(d)
  BY <1>1, <1>5 DEF FirstCounts, CntTyped, Calls
<1> QED
  BY <1>4, <1>6

\* The counters of calls are nobody's concern.
LEMMA GoodCount ==
  ASSUME NEW m, NEW k, NEW c, NEW lv, NEW B, NEW T, NEW own, NEW H, NEW rk, NEW lim,
         Good(m, k, c, lv, B, T, own, H, rk, lim), NEW c2, CntTyped(c2), SameAmounts(c, c2)
  PROVE  Good(m, k, c2, lv, B, T, own, H, rk, lim)
BY DEF Good, Counted, SameAmounts

LEMMA SettledCount ==
  ASSUME NEW m, NEW k, NEW c, NEW lv, NEW B, Settled(m, k, c, lv, B), NEW c2, CntTyped(c2), SameAmounts(c, c2)
  PROVE  Settled(m, k, c2, lv, B)
<1>1. PICK T, own, rk, lim : Good(m, k, c, lv, B, T, own, {}, rk, lim) /\ KeptBut(m, B, T, own, {}, BaseBlk)
  BY DEF Settled
<1>2. Good(m, k, c2, lv, B, T, own, {}, rk, lim)
  BY <1>1, GoodCount
<1> QED
  BY <1>1, <1>2 DEF Settled

\* What a heap says of the types of the variables.
Typed(m, k, c) ==
  /\ m \in Memory /\ k \in [0 .. MaxIdx - 1 -> Cell \cup {NULL}]
  /\ CntTyped(c) /\ c.alloc \in Nat /\ c.inuse \in Nat /\ c.blk \in Nat

LEMMA GoodTyped ==
  ASSUME NEW m, NEW k, NEW c, NEW lv, NEW B, NEW T, NEW own, NEW H, NEW rk, NEW lim,
         Good(m, k, c, lv, B, T, own, H, rk, lim)
  PROVE  Typed(m, k, c)
<1> DEFINE U == UsedIn(m, T, H)
<1>1. m \in Memory /\ k \in [0 .. MaxIdx - 1 -> Cell \cup {NULL}] /\ Shape(m, B, T, own)
  BY DEF Good, Heaped, Listed
<1>2. U \subseteq T
  BY DEF UsedIn
<1>3. Counted(m, c, B, U) /\ CntTyped(c)
  BY DEF Good
<1>4. \A S : S \subseteq Cell => Cardinality(S) \in Nat
  <2> SUFFICES ASSUME NEW S, S \subseteq Cell PROVE Cardinality(S) \in Nat
    OBVIOUS
  <2>1. IsFiniteSet(S)
    BY CellFinite, FS_Subset
  <2> QED
    BY <2>1, FS_CardinalityType
<1>5. TagWords(m, U) \subseteq Cell
  <2> SUFFICES ASSUME NEW a \in TagWords(m, U) PROVE a \in Cell
    OBVIOUS
  <2>1. a \in Int /\ \E t \in U : a \in t .. t + m[t + 2] - 1
    BY WordsIn
  <2>2. PICK t \in U : a \in t .. t + m[t + 2] - 1
    BY <2>1
  <2>3. t \in Nat /\ m[t + 2] \in Nat /\ \A d \in Int : t <= d /\ d < t + m[t + 2] => d \in Cell
    BY <1>1, <1>2, Geometry
  <2> QED
    BY <2>1, <2>2, <2>3
<1>6. TagWords(m, B) \subseteq Cell
  <2> SUFFICES ASSUME NEW a \in TagWords(m, B) PROVE a \in Cell
    OBVIOUS
  <2>1. a \in Int /\ \E b \in B : a \in b .. b + m[b + 2] - 1
    BY WordsIn
  <2>2. PICK b \in B : a \in b .. b + m[b + 2] - 1
    BY <2>1
  <2>3. b \in BlockSet /\ m[b + 2] \in Nat /\ m[b + 2] <= Room(b)
    BY <1>1 DEF Shape
  <2>4. b \in Nat /\ Room(b) \in Nat /\ \A d \in Int : b <= d /\ d < b + Room(b) => d \in Cell
    BY <2>3, Rooms
  <2> QED
    BY <2>1, <2>2, <2>3, <2>4
<1>7. Cardinality(B) \in Nat
  <2>1. B \subseteq BlockSet
    BY <1>1 DEF Shape
  <2> QED
    BY <2>1, BlocksFinite
<1>8. PoolHdr - 3 \in Nat
  BY LayoutAssumption DEF BlkS
<1> HIDE DEF U
<1>9. Cardinality(TagWords(m, U)) \in Nat /\ Cardinality(TagWords(m, B)) \in Nat
  BY <1>4, <1>5, <1>6
<1>10. c.alloc \in Nat /\ c.inuse \in Nat /\ c.blk \in Nat
  <2>1. c.inuse = Cardinality(TagWords(m, U)) /\ c.blk = Cardinality(B)
        /\ c.alloc = PoolHdr - 3 + Cardinality(TagWords(m, B))
    BY <1>3 DEF Counted
  <2> QED
    BY <1>7, <1>8, <1>9, <2>1
<1> QED
  BY <1>1, <1>3, <1>10 DEF Typed

-----------------------------------------------------------------------------
(* The invariant: what holds inside each loop of a call. *)

LocType == [acts : Int, n : Int, idx : Int, tag : Int, blk : Int, steps : Int]

BlksOf(S) == {BaseBlk} \cup (S \ {Base})

\* A request is under way.
Ask(l) == l.acts \in Nat \ {0} /\ l.n = TagSize(l.acts)

\* The blocks R are in a line from first on, as the list that began with the
\* pool's own block leads through them.
Line(m, R, first, rk) ==
  /\ R \subseteq Slots
  /\ first = BaseBlk <=> R = {}
  /\ R # {} => first \in R
  /\ \A x \in R : /\ rk[x] \in Nat /\ rk[x] <= rk[first]
                  /\ m[x + 1] = BaseBlk \/ (m[x + 1] \in R /\ rk[m[x + 1]] < rk[x])
  /\ \A x, y \in R : rk[y] < rk[x] => m[x + 1] \in R /\ rk[y] <= rk[m[x + 1]]
  /\ \A x, y \in R : rk[y] = rk[x] => y = x

\* The tags of the last bucket that the search has yet to come to.
After(C, t, rk) == {x \in C : rk[t] < rk[x]}
LastIn(C, head, l, rk) ==
  /\ l.idx = MaxIdx - 1 /\ l.tag \in C /\ head \in C /\ l.steps \in Nat
  /\ l.tag # head => l.steps + 1 <= Cardinality(After(C, l.tag, rk))
  /\ l.steps + 1 <= Cardinality(C)

NoPool == pc = "none" /\ sys = {} /\ live = <<>>

Destroying ==
  /\ pc = "destroy" /\ live = <<>> /\ loc.tag \in sys
  /\ \E rk : Line(mem, sys \ {loc.tag}, loc.blk, rk)
  /\ loc.steps \in Nat /\ loc.steps + Cardinality(sys) <= Cardinality(Slots) + 1

Between ==
  /\ pc \in {"idle", "search", "system", "large"} /\ Base \in sys
  /\ Settled(mem, bkt, cnt, live, BlksOf(sys))
  /\ pc # "idle" => Ask(loc)
  /\ pc = "search" => Size2Idx(loc.n) < MaxIdx /\ loc.idx = FirstIdx(Size2Idx(loc.n)) /\ loc.steps = 0
  /\ pc = "system" => Size2Idx(loc.n) < MaxIdx

Searching(m, k, c, lv, B, l) ==
  \E T, own, rk, lim : /\ Good(m, k, c, lv, B, T, own, {}, rk, lim)
                       /\ KeptBut(m, B, T, own, {}, BaseBlk)
                       /\ LastIn(ClassOf(m, FreeIn(m, T, {}), MaxIdx - 1), k[MaxIdx - 1], l, rk)

InLast ==
  /\ pc = "last" /\ Base \in sys /\ Ask(loc) /\ Size2Idx(loc.n) < MaxIdx
  /\ Searching(mem, bkt, cnt, live, BlksOf(sys), loc)

Freeing(m, k, c, lv, B, l) ==
  \E rk, lim : \/ l.steps = 0 /\ \E T, own : Hand(m, k, c, lv, B, T, own, rk, lim, l.tag, l.blk)
               \/ l.steps = 1 /\ HandLonely(m, k, c, lv, B, rk, lim, l.tag, l.blk)

InFree == pc = "coalesce" /\ Base \in sys /\ Freeing(mem, bkt, cnt, live, BlksOf(sys), loc)

CallInv == NoPool \/ Destroying \/ Between \/ InLast \/ InFree

PoolInv ==
  /\ Typed(mem, bkt, cnt) /\ sys \subseteq Slots \cup {Base} /\ abort = FALSE /\ loc \in LocType
  /\ CallInv

LEMMA BlksOfIs ==
  ASSUME NEW S, S \subseteq Slots \cup {Base}, Base \in S, NEW b
  PROVE  /\ b \in Slots \ S => /\ b \notin BlksOf(S) /\ BlksOf(S \cup {b}) = BlksOf(S) \cup {b}
                               /\ S \cup {b} \subseteq Slots \cup {Base}
         /\ b \in BlksOf(S) /\ b # BaseBlk => /\ b \in Slots /\ BlksOf(S \ {b}) = BlksOf(S) \ {b}
                                              /\ Base \in S \ {b}
         /\ BaseBlk \in BlksOf(S) /\ BlksOf(S) \subseteq BlockSet
<1>1. BaseBlk \notin Slots
  BY Rooms
<1>2. Base \notin Slots
  BY LayoutAssumption
<1> HIDE DEF BaseBlk
<1> QED
  BY <1>1, <1>2 DEF BlksOf, BlockSet

LEMMA SettledTyped ==
  ASSUME NEW m, NEW k, NEW c, NEW lv, NEW B, Settled(m, k, c, lv, B)
  PROVE  Typed(m, k, c)
<1>1. PICK T, own, rk, lim : Good(m, k, c, lv, B, T, own, {}, rk, lim)
  BY DEF Settled
<1> DEFINE H == {}
<1>2. Good(m, k, c, lv, B, T, own, H, rk, lim)
  BY <1>1
<1> HIDE DEF H
<1> QED
  BY <1>2, GoodTyped

LEMMA NoLocIs ==
  NoLoc \in LocType /\ NoLoc.steps = 0
BY DEF NoLoc, LocType, NULL

\* A call that has returned leaves the invariant.
LEMMA IdleInv ==
  ASSUME Settled(mem', bkt', cnt', live', BlksOf(sys')), Base \in sys', sys' \subseteq Slots \cup {Base},
         abort' = FALSE, loc' = NoLoc \/ loc' \in LocType, pc' = "idle"
  PROVE  PoolInv'
<1>1. Typed(mem', bkt', cnt')
  BY SettledTyped
<1>2. loc' \in LocType
  BY NoLocIs
<1>3. Between'
  BY DEF Between
<1> QED
  BY <1>1, <1>2, <1>3 DEF PoolInv, CallInv

-----------------------------------------------------------------------------
(* Each step keeps the invariant. *)

LEMMA InitInv == Init => PoolInv
<1> SUFFICES ASSUME Init PROVE PoolInv
  OBVIOUS
<1>1. mem = Nowhere /\ bkt = EmptyBuckets /\ cnt = NoCounts /\ sys = {} /\ live = <<>>
      /\ pc = "none" /\ loc = NoLoc /\ abort = FALSE
  BY DEF Init
<1>2. Typed(mem, bkt, cnt)
  <2>1. mem \in Memory
    BY <1>1 DEF Nowhere, Junk, Memory
  <2>2. bkt \in [0 .. MaxIdx - 1 -> Cell \cup {NULL}]
    BY <1>1 DEF EmptyBuckets
  <2> QED
    BY <1>1, <2>1, <2>2, NoCountsTyped DEF Typed
<1>3. NoPool
  BY <1>1 DEF NoPool
<1> QED
  BY <1>1, <1>2, <1>3, NoLocIs DEF PoolInv, CallInv

LEMMA PoolInitInv == ASSUME PoolInv, PoolInit PROVE PoolInv'
<1>1. pc = "none" /\ sys = {} /\ live = <<>> /\ mem \in Memory /\ abort = FALSE /\ loc \in LocType
  BY DEF PoolInit, PoolInv, CallInv, NoPool, Destroying, Between, InLast, InFree, Typed
<1> DEFINE n == PageS - PoolHdr
           m == [mem EXCEPT ![size(BaseTag)] = n,
                            ![bnxt(BaseBlk)] = BaseBlk, ![bpre(BaseBlk)] = BaseBlk,
                            ![bsize(BaseBlk)] = n + BlkS]
           h == PutFree([mem |-> m, bkt |-> EmptyBuckets], BaseTag, BaseBlk)
           c == [NoCounts EXCEPT !.blk = 1, !.alloc = PageS]
           B == {BaseBlk}
           T == {BaseTag}
<1>2. /\ Assert2(Size2Idx(n) # MaxIdx) /\ SetHeap(h) /\ cnt' = c /\ sys' = {Base} /\ pc' = "idle"
      /\ live' = live /\ loc' = loc
  BY DEF PoolInit
<1>3. FirstMem(mem, m)
  BY DEF FirstMem, size, bnxt, bpre, bsize, BlkS
<1>4. FirstCounts(c)
  BY NoCountsTyped
<1>5. DOMAIN live = {}
  BY <1>1
<1> HIDE DEF m, n, c
<1>6. /\ m \in Memory /\ BaseTag = BaseBlk + 3 /\ BaseTag \in Nat /\ m[BaseTag + 2] = PageS - PoolHdr
      /\ 6 <= PageS - PoolHdr /\ PageS - PoolHdr \in Nat
  BY <1>1, <1>3, FirstIs
<1>7. PICK own, rk, lim : /\ Good(m, EmptyBuckets, c, live, {BaseBlk}, {BaseTag}, own, {BaseTag}, rk, lim)
                          /\ own[BaseTag] = BaseBlk
                          /\ Small(m[BaseBlk + 2] - 3) /\ Small(m[BaseTag + 2])
  BY <1>1, <1>3, <1>4, <1>5, FirstGood
<1>8. Good(m, EmptyBuckets, c, live, B, T, own, T, rk, lim)
  BY <1>7
<1>9. FreeIn(m, T, T) = {}
  BY DEF FreeIn
<1>10. Lonely(m, FreeIn(m, T, T), BaseTag)
  BY <1>9 DEF Lonely
<1>11. Small(m[own[BaseTag] + 2] - 3) /\ h = PutFree([mem |-> m, bkt |-> EmptyBuckets], BaseTag, own[BaseTag])
  BY <1>7
<1>12. T = {BaseTag}
  OBVIOUS
<1> HIDE DEF h, B, T
<1>13. \E rk2, lim2 : Good(h.mem, h.bkt, c, live, B, T, own, {}, rk2, lim2)
  <2>1. Good(m, EmptyBuckets, c, live, B, T, own, {BaseTag}, rk, lim)
    BY <1>8, <1>12
  <2>2. Lonely(m, FreeIn(m, T, {BaseTag}), BaseTag)
    BY <1>10, <1>12
  <2> QED
    BY <1>7, <1>11, <2>1, <2>2, PutFreeGood
<1>14. B = BlksOf({Base})
  BY DEF B, BlksOf
<1>15. KeptBut(h.mem, B, T, own, {}, BaseBlk)
  BY DEF KeptBut, B
<1>16. Settled(h.mem, h.bkt, c, live, B)
  BY <1>13, <1>15 DEF Settled
<1>17. Size2Idx(n) # MaxIdx
  <2>1. n \in Nat \ {0} /\ Small(n)
    BY <1>6, <1>7 DEF n
  <2>2. Size2Idx(n) \in 0 .. MaxIdx /\ (Size2Idx(n) < MaxIdx <=> Small(n)) /\ MaxIdx \in Nat
    BY <2>1, SmallIs
  <2> QED
    BY <2>1, <2>2
<1>18. abort' = FALSE
  BY <1>1, <1>2, <1>17 DEF Assert2
<1>19. Settled(mem', bkt', cnt', live', BlksOf(sys'))
  BY <1>2, <1>14, <1>16 DEF SetHeap
<1>20. Base \in sys' /\ sys' \subseteq Slots \cup {Base}
  BY <1>2
<1>21. Between'
  BY <1>2, <1>19, <1>20 DEF Between
<1>22. Typed(mem', bkt', cnt')
  BY <1>19, SettledTyped
<1> QED
  BY <1>1, <1>2, <1>18, <1>20, <1>21, <1>22 DEF PoolInv, CallInv

LEMMA AskIs ==
  ASSUME NEW l, Ask(l)
  PROVE  /\ l.acts \in Nat \ {0} /\ l.n \in Nat \ {0} /\ 6 <= l.n /\ l.n = TagSize(l.acts) /\ l.n = l.acts + 5
         /\ Size2Idx(l.n) \in 0 .. MaxIdx /\ MaxIdx \in Nat \ {0}
<1>1. l.acts \in Nat \ {0} /\ l.n = TagSize(l.acts)
  BY DEF Ask
<1>2. TagSize(l.acts) = l.acts + 5 /\ TagSize(l.acts) \in Nat /\ 6 <= TagSize(l.acts)
  BY <1>1, TagSizeIs
<1>3. l.n \in Nat \ {0}
  BY <1>1, <1>2
<1> QED
  BY <1>1, <1>2, <1>3, SmallIs

LEMMA AllocCallInv ==
  ASSUME PoolInv, NEW bytes \in Requests, AllocCall(bytes)
  PROVE  PoolInv'
<1>1. pc = "idle" /\ Between /\ abort = FALSE /\ sys \subseteq Slots \cup {Base}
  BY DEF AllocCall, PoolInv, CallInv, NoPool, Destroying, InLast, InFree
<1> DEFINE acts == Words(bytes)
           n    == TagSize(acts)
           i    == Size2Idx(n)
<1>2. /\ acts # 0 /\ pc' = IF i = MaxIdx THEN "large" ELSE "search"
      /\ loc' = [NoLoc EXCEPT !.acts = acts, !.n = n, !.idx = IF i = MaxIdx THEN 0 ELSE FirstIdx(i)]
      /\ cnt' = Bump(cnt, "totalA")
      /\ mem' = mem /\ bkt' = bkt /\ sys' = sys /\ live' = live /\ abort' = abort
  BY DEF AllocCall
<1>3. acts \in Nat
  BY SizesAssumption DEF Words, WordB
<1> HIDE DEF acts
<1>4. acts \in Nat \ {0}
  BY <1>2, <1>3
<1>5. n \in Nat \ {0}
  BY <1>4, TagSizeIs
<1> HIDE DEF n
<1>6. i \in 0 .. MaxIdx /\ MaxIdx \in Nat \ {0}
  BY <1>5, SmallIs
<1> HIDE DEF i
<1> DEFINE j == IF i = MaxIdx THEN 0 ELSE FirstIdx(i)
<1>7. j \in Int
  BY <1>6 DEF FirstIdx
<1>8. loc' = [NoLoc EXCEPT !.acts = acts, !.n = n, !.idx = j]
  BY <1>2
<1> HIDE DEF j
<1>9. loc' \in LocType /\ loc'.acts = acts /\ loc'.n = n /\ loc'.idx = j /\ loc'.steps = 0
  <2> DEFINE l0 == NoLoc
             l1 == [l0 EXCEPT !.acts = acts]
             l2 == [l1 EXCEPT !.n = n]
  <2>1. loc' = [l2 EXCEPT !.idx = j]
    BY <1>8
  <2>2. l0 \in LocType /\ l0.steps = 0
    BY NoLocIs
  <2> HIDE DEF l0
  <2>3. l1 \in LocType /\ l1.acts = acts /\ l1.steps = 0
    BY <1>4, <2>2 DEF LocType
  <2> HIDE DEF l1
  <2>4. l2 \in LocType /\ l2.acts = acts /\ l2.n = n /\ l2.steps = 0
    BY <1>5, <2>3 DEF LocType
  <2> HIDE DEF l2
  <2> QED
    BY <1>7, <2>1, <2>4 DEF LocType
<1>10. Ask(loc')
  BY <1>4, <1>9 DEF Ask, n
<1>11. Settled(mem, bkt, cnt, live, BlksOf(sys)) /\ Base \in sys
  BY <1>1 DEF Between
<1>12. CntTyped(cnt)
  BY DEF PoolInv, Typed
<1>13. CntTyped(cnt') /\ SameAmounts(cnt, cnt')
  <2>1. "totalA" \in Calls
    BY DEF Calls, Fields
  <2> QED
    BY <1>2, <1>12, <2>1, BumpIs
<1>14. Settled(mem', bkt', cnt', live', BlksOf(sys'))
  <2> DEFINE B == BlksOf(sys)
  <2>1. Settled(mem, bkt, cnt, live, B)
    BY <1>11
  <2> HIDE DEF B
  <2>2. Settled(mem, bkt, cnt', live, B)
    BY <1>13, <2>1, SettledCount
  <2> QED
    BY <1>2, <2>2 DEF B
<1>15. pc' = "search" => Size2Idx(loc'.n) < MaxIdx /\ loc'.idx = FirstIdx(Size2Idx(loc'.n))
  BY <1>2, <1>6, <1>9 DEF i, j
<1>16. Between'
  BY <1>2, <1>9, <1>10, <1>11, <1>14, <1>15 DEF Between
<1>17. Typed(mem', bkt', cnt')
  BY <1>14, SettledTyped
<1> QED
  BY <1>1, <1>2, <1>9, <1>16, <1>17 DEF PoolInv, CallInv

LEMMA SearchNoneInv == ASSUME PoolInv, SearchNone PROVE PoolInv'
<1>1. pc = "search" /\ Between
  BY DEF SearchNone, PoolInv, CallInv, NoPool, Destroying, InLast, InFree
<1>2. /\ pc' = "system" /\ mem' = mem /\ bkt' = bkt /\ cnt' = cnt /\ sys' = sys /\ live' = live
      /\ loc' = loc /\ abort' = abort
  BY DEF SearchNone
<1>3. Between'
  BY <1>1, <1>2 DEF Between
<1> QED
  BY <1>2, <1>3 DEF PoolInv, CallInv

\* A request the system refuses.
LEMMA RefusedInv ==
  ASSUME PoolInv, pc \in {"system", "large"}, NEW f \in Calls, cnt' = Bump(cnt, f),
         GiveNothing, abort' = FALSE
  PROVE  PoolInv'
<1>1. Between /\ sys \subseteq Slots \cup {Base} /\ CntTyped(cnt)
  BY DEF PoolInv, CallInv, NoPool, Destroying, InLast, InFree, Typed
<1>2. pc' = "idle" /\ loc' = NoLoc /\ mem' = mem /\ bkt' = bkt /\ sys' = sys /\ live' = live
  BY DEF GiveNothing
<1> DEFINE B == BlksOf(sys)
<1>3. Settled(mem, bkt, cnt, live, B) /\ Base \in sys
  BY <1>1 DEF Between
<1>4. CntTyped(cnt') /\ SameAmounts(cnt, cnt')
  BY <1>1, BumpIs
<1> HIDE DEF B
<1>5. Settled(mem, bkt, cnt', live, B)
  BY <1>3, <1>4, SettledCount
<1>6. Settled(mem', bkt', cnt', live', BlksOf(sys')) /\ Base \in sys' /\ sys' \subseteq Slots \cup {Base}
  BY <1>1, <1>2, <1>3, <1>5 DEF B
<1> QED
  BY <1>2, <1>6, IdleInv

LEMMA SystemFailInv == ASSUME PoolInv, SystemFail PROVE PoolInv'
<1>1. pc = "system" /\ Between /\ abort = FALSE
  BY DEF SystemFail, PoolInv, CallInv, NoPool, Destroying, InLast, InFree
<1>2. Ask(loc) /\ Size2Idx(loc.n) < MaxIdx
  BY <1>1 DEF Between
<1>3. BlockSize(loc.n) >= loc.n + BlkS
  BY <1>2, AskIs, Asked
<1>4. abort' = FALSE
  BY <1>1, <1>3 DEF SystemFail, Assert2
<1> DEFINE f == IF BlockIdx(loc.n) < ThreshIdx THEN "s_fail_2" ELSE "s_fail_1"
<1>5. f \in Calls
  BY DEF Calls, Fields
<1>6. cnt' = Bump(cnt, f) /\ GiveNothing
  BY DEF SystemFail
<1> HIDE DEF f
<1> QED
  BY <1>1, <1>4, <1>5, <1>6, RefusedInv

LEMMA LargeFailInv == ASSUME PoolInv, LargeFail PROVE PoolInv'
<1>1. pc = "large" /\ abort' = FALSE /\ cnt' = Bump(cnt, "l_fail") /\ GiveNothing
  BY DEF LargeFail, PoolInv
<1>2. "l_fail" \in Calls
  BY DEF Calls, Fields
<1> QED
  BY <1>1, <1>2, RefusedInv

LEMMA LastEndInv == ASSUME PoolInv, LastEnd PROVE PoolInv'
<1>1. pc = "last" /\ InLast
  BY DEF LastEnd, PoolInv, CallInv, NoPool, Destroying, Between, InFree
<1>2. /\ pc' = "system" /\ mem' = mem /\ bkt' = bkt /\ cnt' = cnt /\ sys' = sys /\ live' = live
      /\ loc' = loc /\ abort' = abort
  BY DEF LastEnd
<1>3. Settled(mem, bkt, cnt, live, BlksOf(sys))
  BY <1>1 DEF InLast, Searching, Settled
<1>4. Between'
  BY <1>1, <1>2, <1>3 DEF Between, InLast
<1> QED
  BY <1>2, <1>4 DEF PoolInv, CallInv

-----------------------------------------------------------------------------
(* The search of the buckets. *)

LEMMA FoundIs ==
  ASSUME loc.idx \in 0 .. MaxIdx - 1, MaxIdx \in Nat \ {0}, Found # {}
  PROVE  FoundIdx \in loc.idx .. MaxIdx - 1 /\ FoundIdx \in 0 .. MaxIdx - 1 /\ bkt[FoundIdx] # NULL
<1>1. Found \subseteq Nat /\ \A i \in Found : i \in loc.idx .. MaxIdx - 1 /\ bkt[i] # NULL
  BY DEF Found
<1>2. \E i \in Found : \A j \in Found : i <= j
  BY <1>1, LeastNat
<1>3. FoundIdx \in Found
  BY <1>2 DEF FoundIdx
<1> QED
  BY <1>1, <1>3

LEMMA FirstIdxIs ==
  ASSUME NEW l, Ask(l), Size2Idx(l.n) < MaxIdx, l.idx = FirstIdx(Size2Idx(l.n))
  PROVE  l.idx \in 0 .. MaxIdx - 1 /\ (Size2Idx(l.n) < l.idx \/ (Size2Idx(l.n) = MaxIdx - 1 /\ l.idx = MaxIdx - 1))
<1>1. Size2Idx(l.n) \in 0 .. MaxIdx /\ MaxIdx \in Nat \ {0}
  BY AskIs
<1> QED
  BY <1>1 DEF FirstIdx

\* The head of a bucket, and who follows a tag in it.
LEMMA ClassIs ==
  ASSUME NEW m, NEW k, NEW c, NEW lv, NEW B, NEW T, NEW own, NEW rk, NEW lim,
         Good(m, k, c, lv, B, T, own, {}, rk, lim), NEW i \in 0 .. MaxIdx - 1,
         NEW C, C = ClassOf(m, FreeIn(m, T, {}), i)
  PROVE  /\ Ring(m, C, k[i], 1, 3, rk) /\ (k[i] # NULL => k[i] \in C)
         /\ IsFiniteSet(C) /\ C \subseteq Nat
         /\ \A t \in C : t \in FreeIn(m, T, {}) /\ Size2Idx(m[t + 2]) = i /\ m[t + 2] \in Nat \ {0}
<1>1. Heaped(m, k, B, T, own, {}, rk, lim)
  BY DEF Good
<1>2. Shape(m, B, T, own) /\ Listed(m, k, FreeIn(m, T, {}), rk)
  BY <1>1 DEF Heaped
<1>3. Ring(m, C, k[i], 1, 3, rk)
  BY <1>2 DEF Listed
<1>4. k[i] # NULL => k[i] \in C
  BY <1>3 DEF Ring
<1>5. \A t \in C : t \in FreeIn(m, T, {}) /\ Size2Idx(m[t + 2]) = i
  BY DEF ClassOf
<1>6. C \subseteq T
  BY <1>5 DEF FreeIn
<1>7. \A t \in T : t \in Nat /\ t \in Cell
  BY <1>2, TagsIn
<1>8. \A t \in T : m[t + 2] \in Nat \ {0}
  <2>1. \A t \in T : m[t + 2] \in Nat /\ 6 <= m[t + 2]
    BY <1>2, Geometry
  <2> QED
    BY <2>1
<1>9. IsFiniteSet(C)
  <2>1. C \subseteq Cell
    BY <1>6, <1>7
  <2> QED
    BY <2>1, CellFinite, FS_Subset
<1> QED
  BY <1>3, <1>4, <1>5, <1>6, <1>7, <1>8, <1>9

LEMMA FoundFree ==
  ASSUME PoolInv, pc = "search", Found # {}, NEW T, NEW own, NEW rk, NEW lim,
         Good(mem, bkt, cnt, live, BlksOf(sys), T, own, {}, rk, lim), NEW t, t = bkt[FoundIdx]
  PROVE  /\ t \in FreeIn(mem, T, {}) /\ t \in ClassOf(mem, FreeIn(mem, T, {}), FoundIdx)
         /\ FoundIdx \in 0 .. MaxIdx - 1 /\ FoundIdx \in loc.idx .. MaxIdx - 1
         /\ Size2Idx(mem[t + 2]) = FoundIdx /\ mem[t + 2] \in Nat \ {0}
<1>1. Between
  BY DEF PoolInv, CallInv, NoPool, Destroying, InLast, InFree
<1>2. Ask(loc) /\ Size2Idx(loc.n) < MaxIdx /\ loc.idx = FirstIdx(Size2Idx(loc.n))
  BY <1>1 DEF Between
<1>3. loc.idx \in 0 .. MaxIdx - 1 /\ MaxIdx \in Nat \ {0}
  BY <1>2, FirstIdxIs, AskIs
<1>4. FoundIdx \in loc.idx .. MaxIdx - 1 /\ FoundIdx \in 0 .. MaxIdx - 1 /\ bkt[FoundIdx] # NULL
  BY <1>3, FoundIs
<1> DEFINE C == ClassOf(mem, FreeIn(mem, T, {}), FoundIdx)
           B == BlksOf(sys)
           i == FoundIdx
<1>5. Good(mem, bkt, cnt, live, B, T, own, {}, rk, lim) /\ i \in 0 .. MaxIdx - 1
      /\ C = ClassOf(mem, FreeIn(mem, T, {}), i)
  BY <1>4
<1>6. i = FoundIdx /\ t = bkt[i]
  OBVIOUS
<1> HIDE DEF C, B, i
<1>7. /\ bkt[i] # NULL => bkt[i] \in C
      /\ \A x \in C : x \in FreeIn(mem, T, {}) /\ Size2Idx(mem[x + 2]) = i /\ mem[x + 2] \in Nat \ {0}
  BY <1>5, ClassIs
<1>8. t \in C
  BY <1>4, <1>6, <1>7
<1> QED
  BY <1>4, <1>6, <1>7, <1>8 DEF C

\* The tag t of the memory gives the region asked for.
LEMMA GrantStep ==
  ASSUME Base \in sys, sys \subseteq Slots \cup {Base}, abort = FALSE, Ask(loc),
         NEW T, NEW own, NEW rk, NEW lim, Good(mem, bkt, cnt, live, BlksOf(sys), T, own, {}, rk, lim),
         KeptBut(mem, BlksOf(sys), T, own, {}, BaseBlk),
         NEW t \in FreeIn(mem, T, {}), Fits(mem, t, loc.n),
         NEW r, r = TagAlloc(Heap, t, loc.n), Give(r.heap, t, loc.acts),
         NEW f \in Calls, cnt' = Bump([cnt EXCEPT !.inuse = @ + r.taken], f),
         Assert2(FootOK(mem, t)), sys' = sys
  PROVE  PoolInv'
<1> DEFINE B == BlksOf(sys)
           n == loc.n
           acts == loc.acts
<1>1. acts \in Nat \ {0} /\ n \in Nat /\ 6 <= n /\ n = TagSize(acts)
  BY AskIs
<1>2. n <= mem[t + 2]
  BY DEF Fits, size
<1>3. r = TagAlloc([mem |-> mem, bkt |-> bkt], t, n)
  BY DEF Heap
<1>4. Good(mem, bkt, cnt, live, B, T, own, {}, rk, lim) /\ KeptBut(mem, B, T, own, {}, BaseBlk)
  OBVIOUS
<1>5. Give(r.heap, t, acts)
  OBVIOUS
<1> HIDE DEF B, n, acts
<1>6. t \in Nat /\ r.heap.mem[t + 2] \in Int /\ r.taken \in Nat /\ HeapLike(r.heap) /\ FootOK(mem, t)
  BY <1>1, <1>2, <1>3, <1>4, GrantIs
<1>7. /\ mem' = GiveMem(r.heap.mem, t, acts) /\ bkt' = r.heap.bkt
      /\ live' = WithRegion(live, t + 4, acts) /\ pc' = "idle" /\ loc' = NoLoc
  <2> DEFINE h == r.heap
  <2>1. Give(h, t, acts) /\ HeapLike(h) /\ h.mem[t + 2] \in Int
    BY <1>5, <1>6
  <2> HIDE DEF h
  <2>2. /\ mem' = GiveMem(h.mem, t, acts) /\ bkt' = h.bkt
        /\ live' = WithRegion(live, t + 4, acts) /\ pc' = "idle" /\ loc' = NoLoc
    BY <1>6, <2>1, GiveIs
  <2> QED
    BY <2>2 DEF h
<1>8. InuseMore(cnt, cnt', r.taken)
  <2> DEFINE d == [cnt EXCEPT !.inuse = @ + r.taken]
  <2>1. CntTyped(cnt)
    BY <1>4 DEF Good
  <2>2. cnt.inuse + r.taken \in Int
    <3>1. cnt \in [Fields -> Int]
      BY <2>1 DEF CntTyped
    <3> QED
      BY <1>6, <3>1 DEF Fields
  <2>3. d = [cnt EXCEPT !.inuse = cnt.inuse + r.taken]
    OBVIOUS
  <2>4. cnt' = Bump(d, f)
    OBVIOUS
  <2> HIDE DEF d
  <2>5. CntTyped(d) /\ d.inuse = cnt.inuse + r.taken /\ d.blk = cnt.blk /\ d.alloc = cnt.alloc
    BY <2>1, <2>2, <2>3, InuseIs
  <2>6. CntTyped(cnt') /\ SameAmounts(d, cnt')
    BY <2>4, <2>5, BumpIs
  <2> QED
    BY <2>5, <2>6 DEF SameAmounts, InuseMore
<1>9. KeptBut(mem, B, T, own, {}, own[t])
  <2> SUFFICES ASSUME NEW b \in B \ {BaseBlk, own[t]}
               PROVE  \E u \in T \ {} : own[u] = b /\ mem[u] = 1
    BY DEF KeptBut
  <2> QED
    BY <1>4 DEF KeptBut
<1>10. Settled(GiveMem(r.heap.mem, t, acts), r.heap.bkt, cnt', WithRegion(live, t + 4, acts), B)
  BY <1>1, <1>2, <1>3, <1>4, <1>8, <1>9, AllocKeeps
<1>11. abort' = FALSE
  BY <1>6 DEF Assert2
<1>12. Settled(mem', bkt', cnt', live', BlksOf(sys'))
  BY <1>7, <1>10 DEF B
<1> QED
  BY <1>7, <1>11, <1>12, IdleInv

LEMMA SearchHitInv == ASSUME PoolInv, SearchHit PROVE PoolInv'
<1>1. pc = "search" /\ Found # {} /\ Between /\ abort = FALSE /\ sys \subseteq Slots \cup {Base}
  BY DEF SearchHit, PoolInv, CallInv, NoPool, Destroying, InLast, InFree
<1>2. Base \in sys /\ Ask(loc) /\ Settled(mem, bkt, cnt, live, BlksOf(sys))
  BY <1>1 DEF Between
<1> DEFINE t == bkt[FoundIdx]
           r == TagAlloc(Heap, t, loc.n)
<1>3. /\ Fits(mem, t, loc.n) /\ Give(r.heap, t, loc.acts) /\ sys' = sys
      /\ cnt' = Bump([cnt EXCEPT !.inuse = @ + r.taken], "s_hit_1") /\ Assert2(FootOK(mem, t))
  BY DEF SearchHit
<1>4. PICK T, own, rk, lim : /\ Good(mem, bkt, cnt, live, BlksOf(sys), T, own, {}, rk, lim)
                             /\ KeptBut(mem, BlksOf(sys), T, own, {}, BaseBlk)
  BY <1>2 DEF Settled
<1>5. t = bkt[FoundIdx] /\ r = TagAlloc(Heap, t, loc.n)
  OBVIOUS
<1> HIDE DEF t, r
<1>6. t \in FreeIn(mem, T, {})
  BY <1>1, <1>4, <1>5, FoundFree
<1>7. "s_hit_1" \in Calls
  BY DEF Calls, Fields
<1> QED
  BY <1>1, <1>2, <1>3, <1>4, <1>5, <1>6, <1>7, GrantStep

LEMMA LastHitInv == ASSUME PoolInv, LastHit PROVE PoolInv'
<1>1. pc = "last" /\ InLast /\ abort = FALSE /\ sys \subseteq Slots \cup {Base}
  BY DEF LastHit, PoolInv, CallInv, NoPool, Destroying, Between, InFree
<1>2. Base \in sys /\ Ask(loc) /\ Searching(mem, bkt, cnt, live, BlksOf(sys), loc)
  BY <1>1 DEF InLast
<1> DEFINE t == loc.tag
           r == TagAlloc(Heap, t, loc.n)
<1>3. /\ Fits(mem, t, loc.n) /\ Give(r.heap, t, loc.acts) /\ sys' = sys
      /\ cnt' = Bump([cnt EXCEPT !.inuse = @ + r.taken], "s_hit_2") /\ Assert2(FootOK(mem, t))
  BY DEF LastHit
<1>4. PICK T, own, rk, lim : /\ Good(mem, bkt, cnt, live, BlksOf(sys), T, own, {}, rk, lim)
                             /\ KeptBut(mem, BlksOf(sys), T, own, {}, BaseBlk)
                             /\ LastIn(ClassOf(mem, FreeIn(mem, T, {}), MaxIdx - 1), bkt[MaxIdx - 1], loc, rk)
  BY <1>2 DEF Searching
<1>5. r = TagAlloc(Heap, t, loc.n)
  OBVIOUS
<1>6. t \in FreeIn(mem, T, {})
  BY <1>4 DEF LastIn, ClassOf
<1> HIDE DEF t, r
<1>7. "s_hit_2" \in Calls
  BY DEF Calls, Fields
<1> QED
  BY <1>1, <1>2, <1>3, <1>4, <1>5, <1>6, <1>7, GrantStep

\* The tag after t in the bucket.
LEMMA NextIs ==
  ASSUME NEW m, NEW C, NEW head, NEW rk, Ring(m, C, head, 1, 3, rk), IsFiniteSet(C), NEW t \in C,
         NEW n, Follows(m, t, n, 3)
  PROVE  /\ n \in C /\ head \in C
         /\ n # head => /\ IsFiniteSet(After(C, n, rk)) /\ t \in After(C, n, rk)
                        /\ After(C, t, rk) \subseteq After(C, n, rk) \ {t}
         /\ IsFiniteSet(After(C, t, rk)) /\ After(C, t, rk) \subseteq C \ {t}
         /\ t # head => head \in After(C, t, rk)
<1>1. n \in C /\ head \in C /\ rk[t] \in Nat /\ rk[n] \in Nat
      /\ \A x \in C : rk[x] \in Nat /\ rk[x] <= rk[head] /\ \A y \in C : rk[y] = rk[x] => y = x
  BY DEF Ring, Follows
<1>2. n = head \/ rk[n] < rk[t]
  BY DEF Ring, Follows
<1>3. After(C, t, rk) \subseteq C \ {t} /\ After(C, n, rk) \subseteq C
  BY <1>1 DEF After
<1>4. IsFiniteSet(After(C, t, rk)) /\ IsFiniteSet(After(C, n, rk))
  <2>1. After(C, t, rk) \subseteq C
    BY <1>3
  <2> QED
    BY <1>3, <2>1, FS_Subset
<1>5. n # head => t \in After(C, n, rk) /\ After(C, t, rk) \subseteq After(C, n, rk) \ {t}
  BY <1>1, <1>2 DEF After
<1>6. t # head => head \in After(C, t, rk)
  BY <1>1 DEF After
<1> QED
  BY <1>1, <1>3, <1>4, <1>5, <1>6

\* One more, for a set that has another element as well.
LEMMA OneMore ==
  ASSUME NEW S, NEW R, NEW x \in R, IsFiniteSet(R), S \subseteq R \ {x}
  PROVE  Cardinality(S) \in Nat /\ Cardinality(R) \in Nat /\ Cardinality(S) + 1 <= Cardinality(R)
<1> DEFINE Q == R \ {x}
<1>1. IsFiniteSet(Q) /\ Cardinality(Q) = Cardinality(R) - 1 /\ Cardinality(R) \in Nat
  BY FS_RemoveElement, FS_CardinalityType
<1>2. S \subseteq Q
  OBVIOUS
<1> HIDE DEF Q
<1>3. Cardinality(S) <= Cardinality(Q) /\ IsFiniteSet(S)
  BY <1>1, <1>2, FS_Subset
<1>4. Cardinality(S) \in Nat /\ Cardinality(Q) \in Nat
  BY <1>1, <1>3, FS_CardinalityType
<1> QED
  BY <1>1, <1>3, <1>4

LEMMA LastStarts ==
  ASSUME NEW m, NEW C, NEW head, NEW rk, Ring(m, C, head, 1, 3, rk), IsFiniteSet(C), head \in C,
         NEW n, Follows(m, head, n, 3), NEW l, l.idx = MaxIdx - 1, l.tag = n, l.steps = 0
  PROVE  LastIn(C, head, l, rk)
<1>1. n \in C
  BY NextIs
<1>2. PICK s : s = m[n + 3]
  OBVIOUS
<1>3. Follows(m, n, s, 3)
  BY <1>2 DEF Follows
<1>4. n # head => IsFiniteSet(After(C, n, rk)) /\ head \in After(C, n, rk)
  BY <1>1, <1>3, NextIs
<1>5. n # head => 1 <= Cardinality(After(C, n, rk))
  <2> SUFFICES ASSUME n # head PROVE 1 <= Cardinality(After(C, n, rk))
    OBVIOUS
  <2> DEFINE R == After(C, n, rk)
             E == {}
  <2>1. head \in R /\ IsFiniteSet(R) /\ E \subseteq R \ {head} /\ Cardinality(E) = 0
    BY <1>4, FS_EmptySet
  <2> HIDE DEF R, E
  <2>2. Cardinality(E) + 1 <= Cardinality(R) /\ Cardinality(R) \in Nat
    BY <2>1, OneMore
  <2> QED
    BY <2>1, <2>2 DEF R
<1>6. 1 <= Cardinality(C)
  <2> DEFINE E == {}
  <2>1. E \subseteq C \ {head} /\ Cardinality(E) = 0
    BY FS_EmptySet
  <2> HIDE DEF E
  <2>2. Cardinality(E) + 1 <= Cardinality(C) /\ Cardinality(C) \in Nat
    BY <2>1, OneMore
  <2> QED
    BY <2>1, <2>2
<1> QED
  BY <1>1, <1>5, <1>6 DEF LastIn

LEMMA LastMoves ==
  ASSUME NEW m, NEW C, NEW head, NEW rk, Ring(m, C, head, 1, 3, rk), IsFiniteSet(C),
         NEW l, LastIn(C, head, l, rk), l.tag # head,
         NEW n, Follows(m, l.tag, n, 3), NEW l2, l2.idx = l.idx, l2.tag = n, l2.steps = l.steps + 1
  PROVE  LastIn(C, head, l2, rk)
<1> DEFINE t == l.tag
           R == After(C, t, rk)
           Q == After(C, n, rk)
<1>1. t \in C /\ l.steps \in Nat /\ l.steps + 1 <= Cardinality(R)
  BY DEF LastIn
<1>2. Follows(m, t, n, 3)
  OBVIOUS
<1> HIDE DEF t
<1>3. /\ n \in C /\ head \in C
      /\ n # head => IsFiniteSet(Q) /\ t \in Q /\ R \subseteq Q \ {t}
      /\ R \subseteq C \ {t}
  BY <1>1, <1>2, NextIs
<1> HIDE DEF R, Q
<1>4. n # head => Cardinality(R) + 1 <= Cardinality(Q) /\ Cardinality(R) \in Nat /\ Cardinality(Q) \in Nat
  BY <1>3, OneMore
<1>5. Cardinality(R) + 1 <= Cardinality(C) /\ Cardinality(R) \in Nat /\ Cardinality(C) \in Nat
  BY <1>1, <1>3, OneMore
<1>6. l2.idx = MaxIdx - 1
  BY DEF LastIn
<1> QED
  BY <1>1, <1>3, <1>4, <1>5, <1>6 DEF LastIn, Q

LEMMA SearchMissInv == ASSUME PoolInv, SearchMiss PROVE PoolInv'
<1>1. pc = "search" /\ Found # {} /\ Between /\ abort = FALSE /\ sys \subseteq Slots \cup {Base} /\ loc \in LocType
      /\ Typed(mem, bkt, cnt)
  BY DEF SearchMiss, PoolInv, CallInv, NoPool, Destroying, InLast, InFree
<1>2. Base \in sys /\ Ask(loc) /\ Settled(mem, bkt, cnt, live, BlksOf(sys)) /\ loc.steps = 0
      /\ Size2Idx(loc.n) < MaxIdx /\ loc.idx = FirstIdx(Size2Idx(loc.n))
  BY <1>1 DEF Between
<1> DEFINE t == bkt[FoundIdx]
           s == mem[suc(t)]
<1>3. /\ ~Fits(mem, t, loc.n) /\ loc' = [loc EXCEPT !.tag = s, !.idx = LoopIdx] /\ pc' = "last"
      /\ mem' = mem /\ bkt' = bkt /\ cnt' = cnt /\ sys' = sys /\ live' = live
      /\ Assert2(LoopIdx = MaxIdx - 1)
  BY DEF SearchMiss
<1>4. PICK T, own, rk, lim : /\ Good(mem, bkt, cnt, live, BlksOf(sys), T, own, {}, rk, lim)
                             /\ KeptBut(mem, BlksOf(sys), T, own, {}, BaseBlk)
  BY <1>2 DEF Settled
<1>5. t = bkt[FoundIdx] /\ s = mem[t + 3]
  BY DEF suc
<1> HIDE DEF t, s
<1>6. /\ t \in ClassOf(mem, FreeIn(mem, T, {}), FoundIdx)
      /\ FoundIdx \in 0 .. MaxIdx - 1 /\ FoundIdx \in loc.idx .. MaxIdx - 1
      /\ Size2Idx(mem[t + 2]) = FoundIdx /\ mem[t + 2] \in Nat \ {0}
  BY <1>1, <1>4, <1>5, FoundFree
<1>7. FoundIdx = MaxIdx - 1 /\ LoopIdx = MaxIdx - 1
  <2>1. loc.n \in Nat \ {0} /\ Size2Idx(loc.n) \in 0 .. MaxIdx /\ MaxIdx \in Nat \ {0}
    BY <1>2, AskIs
  <2>2. loc.idx \in 0 .. MaxIdx - 1
        /\ (Size2Idx(loc.n) < loc.idx \/ (Size2Idx(loc.n) = MaxIdx - 1 /\ loc.idx = MaxIdx - 1))
    BY <1>2, FirstIdxIs
  <2>3. ~(Size2Idx(loc.n) < FoundIdx)
    <3>1. ~(loc.n <= mem[t + 2])
      BY <1>3 DEF Fits, size
    <3> QED
      BY <1>6, <2>1, <3>1, LaterFits
  <2>4. FoundIdx = MaxIdx - 1 /\ loc.idx = MaxIdx - 1
    BY <1>6, <2>1, <2>2, <2>3
  <2> QED
    BY <2>4 DEF LoopIdx
<1> DEFINE C == ClassOf(mem, FreeIn(mem, T, {}), MaxIdx - 1)
           B == BlksOf(sys)
           i == MaxIdx - 1
<1>8. Good(mem, bkt, cnt, live, B, T, own, {}, rk, lim) /\ i \in 0 .. MaxIdx - 1
      /\ C = ClassOf(mem, FreeIn(mem, T, {}), i)
  BY <1>4, <1>6, <1>7
<1>9. i = MaxIdx - 1 /\ t = bkt[i] /\ t \in C
  BY <1>5, <1>6, <1>7
<1> HIDE DEF C, B, i
<1>10. Ring(mem, C, bkt[i], 1, 3, rk) /\ IsFiniteSet(C) /\ C \subseteq Nat
  BY <1>8, ClassIs
<1>11. Follows(mem, t, s, 3)
  BY <1>5 DEF Follows
<1>12. Ring(mem, C, t, 1, 3, rk)
  BY <1>9, <1>10
<1>13. s \in C /\ s \in Int
  <2>1. IsFiniteSet(C) /\ t \in C
    BY <1>9, <1>10
  <2>2. s \in C
    BY <2>1, <1>11, <1>12, NextIs, Zenon
  <2> QED
    BY <2>2, <1>10
<1>14. /\ loc' \in LocType /\ loc'.tag = s /\ loc'.idx = MaxIdx - 1 /\ loc'.steps = 0
       /\ loc'.acts = loc.acts /\ loc'.n = loc.n
  <2>1. LoopIdx \in Int
    BY <1>8, <1>7 DEF i
  <2> DEFINE l1 == [loc EXCEPT !.tag = s]
  <2>2. l1 \in LocType /\ l1.tag = s /\ l1.steps = 0 /\ l1.acts = loc.acts /\ l1.n = loc.n
    BY <1>1, <1>2, <1>13 DEF LocType
  <2>3. loc' = [l1 EXCEPT !.idx = LoopIdx]
    BY <1>3
  <2> HIDE DEF l1
  <2> QED
    BY <2>1, <2>2, <2>3, <1>7 DEF LocType
<1>15. LastIn(C, t, loc', rk)
  BY <1>9, <1>10, <1>11, <1>12, <1>14, LastStarts
<1>16. abort' = FALSE
  BY <1>1, <1>3, <1>7 DEF Assert2
<1>17. Searching(mem', bkt', cnt', live', BlksOf(sys'), loc')
  <2>1. LastIn(ClassOf(mem, FreeIn(mem, T, {}), MaxIdx - 1), bkt[MaxIdx - 1], loc', rk)
    BY <1>9, <1>15 DEF C, i
  <2>2. Searching(mem, bkt, cnt, live, BlksOf(sys), loc')
    BY <1>4, <2>1 DEF Searching
  <2> QED
    BY <1>3, <2>2
<1>18. InLast'
  BY <1>2, <1>3, <1>14, <1>17 DEF InLast, Ask
<1> QED
  BY <1>1, <1>3, <1>14, <1>16, <1>18 DEF PoolInv, CallInv

LEMMA LastNextInv == ASSUME PoolInv, LastNext PROVE PoolInv'
<1>1. pc = "last" /\ InLast /\ abort = FALSE /\ sys \subseteq Slots \cup {Base} /\ loc \in LocType
      /\ Typed(mem, bkt, cnt)
  BY DEF LastNext, PoolInv, CallInv, NoPool, Destroying, Between, InFree
<1>2. Base \in sys /\ Ask(loc) /\ Size2Idx(loc.n) < MaxIdx /\ Searching(mem, bkt, cnt, live, BlksOf(sys), loc)
  BY <1>1 DEF InLast
<1> DEFINE t == loc.tag
           s == mem[t + 3]
<1>3. /\ loc' = [loc EXCEPT !.tag = s, !.steps = loc.steps + 1] /\ pc' = pc /\ t # bkt[loc.idx]
      /\ mem' = mem /\ bkt' = bkt /\ cnt' = cnt /\ sys' = sys /\ live' = live /\ abort' = abort
  BY DEF LastNext, NextInBucket, suc
<1>4. PICK T, own, rk, lim : /\ Good(mem, bkt, cnt, live, BlksOf(sys), T, own, {}, rk, lim)
                             /\ KeptBut(mem, BlksOf(sys), T, own, {}, BaseBlk)
                             /\ LastIn(ClassOf(mem, FreeIn(mem, T, {}), MaxIdx - 1), bkt[MaxIdx - 1], loc, rk)
  BY <1>2 DEF Searching
<1> DEFINE C == ClassOf(mem, FreeIn(mem, T, {}), MaxIdx - 1)
           B == BlksOf(sys)
           i == MaxIdx - 1
           head == bkt[i]
<1>5. Follows(mem, t, s, 3) /\ t = loc.tag
  BY DEF Follows
<1>6. i \in 0 .. MaxIdx - 1
  BY <1>2, AskIs
<1>7. Good(mem, bkt, cnt, live, B, T, own, {}, rk, lim) /\ C = ClassOf(mem, FreeIn(mem, T, {}), i)
      /\ LastIn(C, head, loc, rk)
  BY <1>4
<1> HIDE DEF C, B, i, t, s
<1>8. Ring(mem, C, bkt[i], 1, 3, rk) /\ IsFiniteSet(C) /\ C \subseteq Nat
  BY <1>6, <1>7, ClassIs
<1> HIDE DEF head
<1>9. Ring(mem, C, head, 1, 3, rk) /\ t # head /\ t \in C /\ loc.steps \in Nat /\ loc.idx = i
  BY <1>3, <1>7, <1>8, <1>5 DEF LastIn, head, i
<1>10. s \in C /\ s \in Int
  <2>1. IsFiniteSet(C) /\ t \in C /\ Ring(mem, C, head, 1, 3, rk)
    BY <1>8, <1>9
  <2>2. Follows(mem, t, s, 3)
    BY <1>5
  <2>3. s \in C
    BY <2>1, <2>2, NextIs, Zenon
  <2> QED
    BY <2>3, <1>8
<1>11. /\ loc' \in LocType /\ loc'.tag = s /\ loc'.steps = loc.steps + 1 /\ loc'.idx = loc.idx
       /\ loc'.acts = loc.acts /\ loc'.n = loc.n
  <2> DEFINE l1 == [loc EXCEPT !.tag = s]
  <2>2. l1 \in LocType /\ l1.tag = s /\ l1.idx = loc.idx /\ l1.acts = loc.acts /\ l1.n = loc.n
    BY <1>1, <1>10 DEF LocType
  <2>3. loc' = [l1 EXCEPT !.steps = loc.steps + 1]
    BY <1>3
  <2> HIDE DEF l1
  <2> QED
    BY <1>9, <2>2, <2>3 DEF LocType
<1>12. LastIn(C, head, loc', rk)
  <2>1. loc.tag # head /\ Follows(mem, loc.tag, s, 3)
    BY <1>5, <1>9
  <2> QED
    BY <1>7, <1>8, <1>9, <1>11, <2>1, LastMoves
<1>13. Searching(mem', bkt', cnt', live', BlksOf(sys'), loc')
  <2>1. LastIn(ClassOf(mem, FreeIn(mem, T, {}), MaxIdx - 1), bkt[MaxIdx - 1], loc', rk)
    BY <1>12 DEF C, i, head
  <2>2. Searching(mem, bkt, cnt, live, BlksOf(sys), loc')
    BY <1>4, <2>1 DEF Searching
  <2> QED
    BY <1>3, <2>2
<1>14. InLast'
  BY <1>1, <1>2, <1>3, <1>11, <1>13 DEF InLast, Ask
<1> QED
  BY <1>1, <1>3, <1>11, <1>14 DEF PoolInv, CallInv

-----------------------------------------------------------------------------
(* Blocks from the system. *)

\* The counters after a region in a new block.
LEMMA GrownCount ==
  ASSUME NEW c, CntTyped(c), NEW words \in Nat, NEW taken \in Nat, NEW f \in Calls,
         NEW c2, c2 = Bump(CountBlk([c EXCEPT !.inuse = @ + taken], words), f)
  PROVE  BlkMore(c, CountBlk(c, words), words) /\ InuseMore(CountBlk(c, words), c2, taken)
<1> DEFINE d  == [c EXCEPT !.inuse = @ + taken]
           e  == CountBlk(d, words)
           c1 == CountBlk(c, words)
<1>1. c.inuse \in Int /\ c.blk \in Int /\ c.alloc \in Int
  BY DEF CntTyped, Fields
<1>2. d = [c EXCEPT !.inuse = c.inuse + taken] /\ c2 = Bump(e, f)
  OBVIOUS
<1> HIDE DEF d
<1>3. c.inuse + taken \in Int
  BY <1>1
<1>4. CntTyped(d) /\ d.inuse = c.inuse + taken /\ d.blk = c.blk /\ d.alloc = c.alloc
  BY <1>2, <1>3, InuseIs
<1>5. BlkMore(d, e, words) /\ BlkMore(c, c1, words)
  BY <1>4, BlkCountIs
<1> HIDE DEF e, c1
<1>6. CntTyped(c2) /\ SameAmounts(e, c2)
  BY <1>2, <1>5, BumpIs DEF BlkMore
<1>7. InuseMore(c1, c2, taken)
  BY <1>4, <1>5, <1>6 DEF BlkMore, SameAmounts, InuseMore
<1> QED
  BY <1>5, <1>7 DEF c1

LEMMA SystemGrowInv == ASSUME PoolInv, SystemGrow PROVE PoolInv'
<1>1. pc = "system" /\ Between /\ abort = FALSE /\ sys \subseteq Slots \cup {Base}
      /\ CntTyped(cnt)
  BY DEF SystemGrow, PoolInv, CallInv, NoPool, Destroying, InLast, InFree, Typed
<1>2. Base \in sys /\ Ask(loc) /\ Settled(mem, bkt, cnt, live, BlksOf(sys)) /\ Size2Idx(loc.n) < MaxIdx
  BY <1>1 DEF Between
<1>3. PICK b \in Slots : \E words \in {BlockSize(loc.n), RetrySize(loc.n)} :
       /\ Memalign(b, words)
       /\ LET t  == b + BlkS
              m  == [AddBlk(mem, b) EXCEPT ![bsize(b)] = words, ![size(t)] = words - BlkS]
              h  == PutFree([mem |-> m, bkt |-> bkt], t, b)
              r  == TagAlloc(h, t, loc.n)
          IN  /\ Give(r.heap, t, loc.acts)
              /\ cnt' = Bump(CountBlk([cnt EXCEPT !.inuse = @ + r.taken], words), "s_hit_3")
              /\ Assert2(BlockSize(loc.n) >= loc.n + BlkS /\ Fits(h.mem, t, loc.n))
       /\ sys' = sys \cup {b}
  BY DEF SystemGrow
<1>4. PICK words \in {BlockSize(loc.n), RetrySize(loc.n)} :
       /\ Memalign(b, words)
       /\ LET t  == b + BlkS
              m  == [AddBlk(mem, b) EXCEPT ![bsize(b)] = words, ![size(t)] = words - BlkS]
              h  == PutFree([mem |-> m, bkt |-> bkt], t, b)
              r  == TagAlloc(h, t, loc.n)
          IN  /\ Give(r.heap, t, loc.acts)
              /\ cnt' = Bump(CountBlk([cnt EXCEPT !.inuse = @ + r.taken], words), "s_hit_3")
              /\ Assert2(BlockSize(loc.n) >= loc.n + BlkS /\ Fits(h.mem, t, loc.n))
       /\ sys' = sys \cup {b}
  BY <1>3
<1> DEFINE n == loc.n
           acts == loc.acts
           t  == b + 3
           z  == t + 2
           m2 == [AddBlk(mem, b) EXCEPT ![b + 2] = words, ![z] = words - 3]
           h  == PutFree([mem |-> m2, bkt |-> bkt], t, b)
           r  == TagAlloc(h, t, n)
           B  == BlksOf(sys)
           c1 == CountBlk(cnt, words)
<1>5. /\ Memalign(b, words) /\ Give(r.heap, t, acts) /\ sys' = sys \cup {b}
      /\ cnt' = Bump(CountBlk([cnt EXCEPT !.inuse = @ + r.taken], words), "s_hit_3")
      /\ Assert2(BlockSize(n) >= n + BlkS /\ Fits(h.mem, t, n))
  BY <1>4 DEF BlkS, bsize, size
<1>6. acts \in Nat \ {0} /\ n \in Nat \ {0} /\ 6 <= n /\ n = TagSize(acts)
  BY <1>2, AskIs
<1>7. h = PutFree([mem |-> m2, bkt |-> bkt], b + 3, b)
  OBVIOUS
<1>8. m2 = [AddBlk(mem, b) EXCEPT ![b + 2] = words, ![z] = words - 3]
  OBVIOUS
<1>9. r = TagAlloc(h, t, n)
  OBVIOUS
<1>10. Settled(mem, bkt, cnt, live, B)
  BY <1>2
<1> HIDE DEF n, acts, m2, h, r, B
<1>11. b \notin B /\ BlksOf(sys') = B \cup {b} /\ sys' \subseteq Slots \cup {Base} /\ Base \in sys'
  <2>1. b \in Slots \ sys
    BY <1>5 DEF Memalign
  <2> QED
    BY <1>1, <1>2, <1>5, <2>1, BlksOfIs DEF B
<1>12. b \in Nat
  BY LayoutAssumption
<1>13. BlockSize(n) >= n + BlkS /\ words \in Nat /\ words <= SlotS /\ n + 3 <= words /\ Small(words - 3)
  <2>1. words \in 1 .. SlotS /\ SlotS \in Nat
    BY <1>5, LayoutAssumption DEF Memalign
  <2>2. n \in Nat \ {0} /\ Size2Idx(n) < MaxIdx /\ words \in {BlockSize(n), RetrySize(n)}
    BY <1>2, <1>4, <1>6 DEF n
  <2>3. /\ BlockSize(n) \in Nat /\ BlockSize(n) >= n + BlkS
        /\ RetrySize(n) \in Nat /\ (RetrySize(n) # 0 => RetrySize(n) >= n + BlkS)
        /\ \A w \in {BlockSize(n), RetrySize(n)} : w <= SlotS => Small(w - BlkS)
    BY <2>2, Asked
  <2> QED
    BY <2>1, <2>2, <2>3 DEF BlkS
<1>14. z = b + 5
  BY <1>12
<1>15. GrownMem(mem, m2, b, words)
  <2> HIDE DEF z
  <2> QED
    BY <1>8, <1>14 DEF GrownMem
<1>16. BlkMore(cnt, c1, words)
  BY <1>1, <1>13, BlkCountIs
<1>17. TagSize(acts) + 3 <= words
  BY <1>6, <1>13
<1>18. r = TagAlloc(h, b + 3, TagSize(acts))
  BY <1>6, <1>9
<1> HIDE DEF c1
<1>19. /\ InuseMore(c1, cnt', r.taken)
            => Settled(GiveMem(r.heap.mem, b + 3, acts), r.heap.bkt, cnt', WithRegion(live, b + 3 + 4, acts),
                       B \cup {b})
       /\ r.heap.mem[b + 3 + 2] \in Int /\ HeapLike(r.heap) /\ Fits(h.mem, b + 3, TagSize(acts))
       /\ r.taken \in Nat
  BY <1>6, <1>7, <1>10, <1>11, <1>13, <1>15, <1>16, <1>17, <1>18, GrowStep
<1>20. InuseMore(c1, cnt', r.taken)
  <2>1. "s_hit_3" \in Calls
    BY DEF Calls, Fields
  <2> QED
    BY <1>1, <1>5, <1>13, <1>19, <2>1, GrownCount DEF c1
<1>21. Settled(GiveMem(r.heap.mem, t, acts), r.heap.bkt, cnt', WithRegion(live, t + 4, acts), BlksOf(sys'))
  BY <1>11, <1>19, <1>20
<1>22. /\ mem' = GiveMem(r.heap.mem, t, acts) /\ bkt' = r.heap.bkt
       /\ live' = WithRegion(live, t + 4, acts) /\ pc' = "idle" /\ loc' = NoLoc
  <2> DEFINE hh == r.heap
  <2>1. Give(hh, t, acts) /\ HeapLike(hh) /\ hh.mem[t + 2] \in Int /\ t \in Nat
    BY <1>5, <1>12, <1>19
  <2> HIDE DEF hh, t
  <2>2. /\ mem' = GiveMem(hh.mem, t, acts) /\ bkt' = hh.bkt
        /\ live' = WithRegion(live, t + 4, acts) /\ pc' = "idle" /\ loc' = NoLoc
    BY <2>1, GiveIs
  <2> QED
    BY <2>2 DEF hh
<1>23. abort' = FALSE
  <2>1. Fits(h.mem, t, n)
    BY <1>6, <1>19
  <2> QED
    BY <1>1, <1>5, <1>13, <2>1 DEF Assert2
<1>24. Settled(mem', bkt', cnt', live', BlksOf(sys'))
  BY <1>21, <1>22
<1> QED
  BY <1>11, <1>22, <1>23, <1>24, IdleInv

LEMMA LargeInv == ASSUME PoolInv, Large PROVE PoolInv'
<1>1. pc = "large" /\ Between /\ abort = FALSE /\ abort' = abort /\ sys \subseteq Slots \cup {Base}
      /\ CntTyped(cnt)
  BY DEF Large, PoolInv, CallInv, NoPool, Destroying, InLast, InFree, Typed
<1>2. Base \in sys /\ Ask(loc) /\ Settled(mem, bkt, cnt, live, BlksOf(sys))
  BY <1>1 DEF Between
<1>3. PICK b \in Slots :
       LET words == loc.n + BlkS
           t     == b + BlkS
           m1    == [mem EXCEPT ![bsize(b)] = words, ![use(t)] = 1, ![size(t)] = loc.n,
                                ![pre(t)] = t, ![h_blk(t)] = b]
           m2    == [m1 EXCEPT ![ref(foot(m1, t))] = t]
       IN  /\ Memalign(b, words)
           /\ Give([mem |-> AddBlk(m2, b), bkt |-> bkt], t, loc.acts)
           /\ cnt' = Bump(CountBlk([cnt EXCEPT !.inuse = @ + loc.n], words), "l_hit")
           /\ sys' = sys \cup {b}
  BY DEF Large
<1> DEFINE n == loc.n
           acts == loc.acts
           t  == b + 3
           m1 == [mem EXCEPT ![b + 2] = n + 3, ![t] = 1, ![t + 2] = n, ![t + 1] = t, ![t + 3] = b]
           m2 == [m1 EXCEPT ![t + m1[t + 2] - 2 + 1] = t]
           m3 == AddBlk(m2, b)
           B  == BlksOf(sys)
           words == n + 3
           c1 == CountBlk(cnt, words)
<1>4. /\ Memalign(b, words) /\ Give([mem |-> m3, bkt |-> bkt], t, acts) /\ sys' = sys \cup {b}
      /\ cnt' = Bump(CountBlk([cnt EXCEPT !.inuse = @ + n], words), "l_hit")
  BY <1>3 DEF BlkS, bsize, use, size, pre, h_blk, ref, foot, TailS
<1>5. acts \in Nat \ {0} /\ n \in Nat \ {0} /\ 6 <= n /\ n = TagSize(acts)
  BY <1>2, AskIs
<1>6. LargeMem(mem, m1, m2, b, t, n)
  BY DEF LargeMem
<1>7. m3 = AddBlk(m2, b) /\ Settled(mem, bkt, cnt, live, B)
  BY <1>2
<1>8. words = n + 3 /\ t = b + 3
  OBVIOUS
<1> HIDE DEF n, acts, t, m1, m2, m3, B, words
<1>9. b \notin B /\ BlksOf(sys') = B \cup {b} /\ sys' \subseteq Slots \cup {Base} /\ Base \in sys'
  <2>1. b \in Slots \ sys
    BY <1>4 DEF Memalign
  <2> QED
    BY <1>1, <1>2, <1>4, <2>1, BlksOfIs DEF B
<1>10. b \in Nat /\ n + 3 <= SlotS /\ words \in Nat
  <2>1. words \in 1 .. SlotS /\ SlotS \in Nat
    BY <1>4, LayoutAssumption DEF Memalign
  <2> QED
    BY <1>5, <1>8, <2>1, LayoutAssumption
<1>11. BlkMore(cnt, c1, n + 3) /\ InuseMore(c1, cnt', n)
  <2>1. "l_hit" \in Calls
    BY DEF Calls, Fields
  <2>2. BlkMore(cnt, CountBlk(cnt, words), words) /\ InuseMore(CountBlk(cnt, words), cnt', n)
    BY <1>1, <1>4, <1>5, <1>10, <2>1, GrownCount
  <2> QED
    BY <1>8, <2>2
<1> HIDE DEF c1
<1>12. /\ Settled(GiveMem(m3, t, acts), bkt, cnt', WithRegion(live, t + 4, acts), B \cup {b})
       /\ m3[t + 2] \in Int
  BY <1>5, <1>6, <1>7, <1>8, <1>9, <1>10, <1>11, LargeStep
<1>13. /\ mem' = GiveMem(m3, t, acts) /\ bkt' = bkt
       /\ live' = WithRegion(live, t + 4, acts) /\ pc' = "idle" /\ loc' = NoLoc
  <2> DEFINE hh == [mem |-> m3, bkt |-> bkt]
  <2>1. Give(hh, t, acts) /\ HeapLike(hh) /\ hh.mem = m3 /\ hh.bkt = bkt /\ hh.mem[t + 2] \in Int /\ t \in Nat
    BY <1>4, <1>8, <1>10, <1>12, PlainHeapLike
  <2> HIDE DEF hh
  <2>2. /\ mem' = GiveMem(hh.mem, t, acts) /\ bkt' = hh.bkt
        /\ live' = WithRegion(live, t + 4, acts) /\ pc' = "idle" /\ loc' = NoLoc
    BY <2>1, GiveIs
  <2> QED
    BY <2>1, <2>2
<1>14. Settled(mem', bkt', cnt', live', BlksOf(sys'))
  BY <1>9, <1>12, <1>13
<1> QED
  BY <1>1, <1>9, <1>13, <1>14, IdleInv

-----------------------------------------------------------------------------
(* What is freed. *)

\* A tag beyond the buckets is the whole of its block.
LEMMA LargeIsBlock ==
  ASSUME NEW m, NEW k, NEW c, NEW lv, NEW B, NEW T, NEW own, NEW H, NEW rk, NEW lim,
         Good(m, k, c, lv, B, T, own, H, rk, lim), NEW t \in T, ~Small(m[t + 2])
  PROVE  own[t] \in B /\ t = own[t] + 3 /\ own[t] # BaseBlk /\ m[own[t] + 5] = m[own[t] + 2] - 3
<1> DEFINE b == own[t]
<1>1. Heaped(m, k, B, T, own, H, rk, lim) /\ BigUsed(m, B)
  BY DEF Good
<1>2. Shape(m, B, T, own)
  BY <1>1 DEF Heaped
<1>3. /\ b \in B /\ b + 3 \in T /\ own[b + 3] = b /\ m[b + 2] \in Nat /\ m[b + 2] <= Room(b)
      /\ b + 3 <= t /\ t + m[t + 2] <= b + m[b + 2] /\ m[t + 2] \in Nat /\ t \in Nat
      /\ (t # b + 3 => t + m[t + 2] <= b + 3 \/ b + 3 + m[b + 3 + 2] <= t)
  BY <1>2 DEF Shape
<1>4. b \in Nat /\ 6 <= m[t + 2]
  BY <1>2, <1>3, Geometry
<1>5. Pow2[MaxIdx - 1] \in Nat
  BY SmallIs
<1> HIDE DEF b
<1>6. ~Small(m[b + 2] - 3)
  BY <1>3, <1>4, <1>5 DEF Small
<1>7. m[b + 5] = m[b + 2] - 3
  BY <1>1, <1>3, <1>6 DEF BigUsed
<1>8. b + 3 + 2 = b + 5
  BY <1>4
<1>9. t = b + 3
  BY <1>3, <1>4, <1>7, <1>8
<1>10. b # BaseBlk
  <2> SUFFICES ASSUME b = BaseBlk PROVE FALSE
    OBVIOUS
  <2>1. Room(b) = PageS - PoolHdr + 3
    BY DEF Room
  <2>2. PageS - PoolHdr <= PageS /\ PageS \in Nat /\ PoolHdr \in Nat
    BY LayoutAssumption
  <2>3. PageS <= Pow2[MaxIdx - 1]
    BY SizesAssumption
  <2> QED
    BY <1>3, <1>4, <1>5, <1>6, <2>1, <2>2, <2>3 DEF Small
<1> QED
  BY <1>3, <1>7, <1>9, <1>10 DEF b

LEMMA SmallBlock ==
  ASSUME NEW m, NEW k, NEW c, NEW lv, NEW B, NEW T, NEW own, NEW H, NEW rk, NEW lim,
         Good(m, k, c, lv, B, T, own, H, rk, lim), NEW t \in T, Small(m[t + 2])
  PROVE  Small(m[own[t] + 2] - 3)
<1> DEFINE b == own[t]
<1>1. Heaped(m, k, B, T, own, H, rk, lim) /\ BigUsed(m, B)
  BY DEF Good
<1>2. Shape(m, B, T, own)
  BY <1>1 DEF Heaped
<1>3. /\ b \in B /\ b + 3 \in T /\ own[b + 3] = b /\ m[b + 2] \in Nat
      /\ b + 3 <= t /\ t + m[t + 2] <= b + m[b + 2] /\ m[t + 2] \in Nat /\ t \in Nat
      /\ (t # b + 3 => t + m[t + 2] <= b + 3 \/ b + 3 + m[b + 3 + 2] <= t)
  BY <1>2 DEF Shape
<1>4. b \in Nat /\ 6 <= m[t + 2]
  BY <1>2, <1>3, Geometry
<1> HIDE DEF b
<1> SUFFICES ASSUME ~Small(m[b + 2] - 3) PROVE FALSE
  BY DEF b
<1>5. m[b + 5] = m[b + 2] - 3
  BY <1>1, <1>3 DEF BigUsed
<1>6. b + 3 + 2 = b + 5
  BY <1>4
<1>7. t = b + 3
  BY <1>3, <1>4, <1>5, <1>6
<1>8. m[t + 2] = m[b + 2] - 3
  BY <1>5, <1>6, <1>7
<1> QED
  BY <1>8

LEMMA FreeCallInv ==
  ASSUME PoolInv, NEW a \in DOMAIN live, FreeCall(a)
  PROVE  PoolInv'
<1>1. pc = "idle" /\ Between /\ abort = FALSE /\ sys \subseteq Slots \cup {Base}
      /\ CntTyped(cnt) /\ mem \in Memory /\ loc \in LocType
  BY DEF FreeCall, PoolInv, CallInv, NoPool, Destroying, InLast, InFree, Typed
<1>2. Base \in sys /\ Settled(mem, bkt, cnt, live, BlksOf(sys))
  BY <1>1 DEF Between
<1> DEFINE t == a - HeadS
           B == BlksOf(sys)
           d == [cnt EXCEPT !.inuse = @ - mem[size(t)]]
<1>3. /\ Assert2(mem[use(t)] = 1 /\ FootOK(mem, t))
      /\ IF Size2Idx(mem[size(t)]) = MaxIdx
         THEN /\ mem' = Wipe(RmBlk(mem, t - BlkS), t - BlkS) /\ sys' = sys \ {t - BlkS}
              /\ cnt' = UncountBlk(d, mem[bsize(t - BlkS)]) /\ pc' = pc /\ loc' = loc
         ELSE /\ mem' = [mem EXCEPT ![ref(foot(mem, t))] = t] /\ cnt' = d /\ pc' = "coalesce"
              /\ loc' = [NoLoc EXCEPT !.tag = t, !.blk = mem[h_blk(t)]] /\ sys' = sys
      /\ live' = [x \in DOMAIN live \ {a} |-> live[x]] /\ bkt' = bkt
  BY DEF FreeCall
<1>4. PICK T, own, rk, lim : Good(mem, bkt, cnt, live, B, T, own, {}, rk, lim)
                             /\ KeptBut(mem, B, T, own, {}, BaseBlk)
  BY <1>2 DEF Settled
<1>5. t \in Nat /\ t + 4 = a /\ t + 4 \in DOMAIN live /\ mem[t + 2] \in Nat \ {0}
  <2>1. Held(mem, live, UsedIn(mem, T, {})) /\ Heaped(mem, bkt, B, T, own, {}, rk, lim)
    BY <1>4 DEF Good
  <2>2. PICK u \in UsedIn(mem, T, {}) : a = u + 4
    BY <2>1 DEF Held
  <2>3. u \in T /\ Shape(mem, B, T, own)
    BY <2>1, <2>2 DEF UsedIn, Heaped
  <2>4. u \in Nat /\ mem[u + 2] \in Nat /\ 6 <= mem[u + 2]
    BY <2>3, Geometry
  <2>5. t = u
    BY <2>2, <2>4 DEF HeadS
  <2> QED
    BY <2>2, <2>4, <2>5
<1> HIDE DEF t, B
<1>6. InuseLess(cnt, d, mem[t + 2])
  <2>1. cnt \in [Fields -> Int]
    BY <1>1 DEF CntTyped
  <2>2. cnt.inuse - mem[t + 2] \in Int
    BY <1>5, <2>1 DEF Fields
  <2>3. d = [cnt EXCEPT !.inuse = cnt.inuse - mem[t + 2]]
    BY DEF size
  <2> HIDE DEF d
  <2> QED
    BY <1>1, <2>2, <2>3, InuseIs DEF InuseLess
<1> HIDE DEF d
<1>7. /\ Good(mem, bkt, d, Without(live, t + 4), B, T, own, {t}, rk, lim)
      /\ Returned(mem, T, own, t)
  <2>1. t \in Int /\ t + 4 \in DOMAIN live
    BY <1>5
  <2>2. Good(mem, bkt, cnt, live, B, T, own, {}, rk, lim)
    BY <1>4
  <2> QED
    BY <2>1, <2>2, <1>6, TakeGood, Zenon
<1>8. t \in T /\ mem[t] = 1 /\ mem[t + 3] = own[t] /\ mem[t + mem[t + 2] - 1] = t
  BY <1>7 DEF Returned
<1>9. KeptBut(mem, B, T, own, {t}, own[t])
  BY <1>4 DEF KeptBut
<1>10. live' = Without(live, t + 4)
  BY <1>3, <1>5 DEF Without
<1>11. t + mem[t + 2] - 2 + 1 = t + mem[t + 2] - 1
  BY <1>5
<1>12. abort' = FALSE
  BY <1>1, <1>3, <1>8, <1>11 DEF Assert2, use, FootOK, ref, foot, size, TailS
<1>13. Size2Idx(mem[t + 2]) \in 0 .. MaxIdx /\ (Size2Idx(mem[t + 2]) < MaxIdx <=> Small(mem[t + 2]))
       /\ MaxIdx \in Nat \ {0}
  BY <1>5, SmallIs
<1> DEFINE lv == Without(live, t + 4)
<1>14. CASE Size2Idx(mem[t + 2]) = MaxIdx
  <2>1. ~Small(mem[t + 2])
    BY <1>13, <1>14
  <2> DEFINE b == own[t]
  <2>2. Good(mem, bkt, d, lv, B, T, own, {t}, rk, lim)
    BY <1>7
  <2> HIDE DEF lv
  <2>3. b \in B /\ t = b + 3 /\ b # BaseBlk /\ mem[b + 5] = mem[b + 2] - 3
    BY <1>8, <2>1, <2>2, LargeIsBlock
  <2>4. KeptBut(mem, B, T, own, {t}, b) /\ Follows(mem, b, mem[b + 2] - 3, 5)
    BY <1>9, <2>3 DEF Follows
  <2> HIDE DEF b
  <2>5. b \in Slots /\ BlksOf(sys \ {b}) = B \ {b} /\ Base \in sys \ {b}
    BY <1>1, <1>2, <2>3, BlksOfIs DEF B
  <2>6. b \in Nat /\ t - BlkS = b
    BY <1>5, <2>3, <2>5, LayoutAssumption DEF BlkS
  <2>7. /\ mem' = Wipe(RmBlk(mem, b), b) /\ sys' = sys \ {b} /\ cnt' = UncountBlk(d, mem[b + 2])
        /\ pc' = pc /\ loc' = loc
    BY <1>3, <1>14, <2>6 DEF size, bsize
  <2>8. mem[b + 2] \in Int
    <3>1. Shape(mem, B, T, own)
      BY <1>7 DEF Good, Heaped
    <3> QED
      BY <2>3, <3>1 DEF Shape
  <2>9. BlkLess(d, cnt', mem[b + 2])
    BY <1>6, <2>7, <2>8, BlkCountIs DEF InuseLess
  <2>10. Settled(mem', bkt, cnt', lv, B \ {b})
    <3>1. Good(mem, bkt, d, lv, B, T, own, {b + 3}, rk, lim) /\ KeptBut(mem, B, T, own, {b + 3}, b)
      BY <2>2, <2>3, <2>4
    <3> QED
      BY <2>3, <2>4, <2>7, <2>9, <3>1, DropGood
  <2>11. Settled(mem', bkt', cnt', live', BlksOf(sys')) /\ sys' \subseteq Slots \cup {Base} /\ Base \in sys'
    BY <1>1, <1>3, <1>10, <2>5, <2>7, <2>10 DEF lv
  <2> QED
    BY <1>1, <1>12, <2>7, <2>11, IdleInv
<1>15. CASE Size2Idx(mem[t + 2]) # MaxIdx
  <2>1. /\ mem' = [mem EXCEPT ![t + mem[t + 2] - 1] = t] /\ cnt' = d /\ pc' = "coalesce"
        /\ loc' = [NoLoc EXCEPT !.tag = t, !.blk = mem[t + 3]] /\ sys' = sys
    BY <1>3, <1>11, <1>15 DEF size, ref, foot, TailS, h_blk
  <2>2. mem' = mem
    BY <1>1, <1>8, <2>1 DEF Memory
  <2>3. Small(mem[t + 2])
    BY <1>13, <1>15
  <2> DEFINE b == own[t]
             H == {t}
  <2>4. Good(mem, bkt, d, lv, B, T, own, H, rk, lim)
    BY <1>7
  <2> HIDE DEF lv, H
  <2>5. Small(mem[b + 2] - 3)
    BY <1>8, <2>3, <2>4, SmallBlock
  <2>6. Hand(mem, bkt, d, lv, B, T, own, rk, lim, t, b)
    BY <1>8, <1>9, <2>4, <2>5 DEF Hand, H
  <2>7. loc' \in LocType /\ loc'.tag = t /\ loc'.blk = b /\ loc'.steps = 0
    <3>1. mem[t + 3] = b /\ b \in Int
      <4>1. Shape(mem, B, T, own)
        BY <1>7 DEF Good, Heaped
      <4>2. b \in B
        BY <1>8, <4>1 DEF Shape
      <4> QED
        BY <1>8, <4>1, <4>2, Geometry
    <3> DEFINE l0 == NoLoc
               l1 == [l0 EXCEPT !.tag = t]
    <3>2. loc' = [l1 EXCEPT !.blk = b]
      BY <2>1, <3>1
    <3>3. l0 \in LocType /\ l0.steps = 0
      BY NoLocIs
    <3> HIDE DEF l0, b
    <3>4. l1 \in LocType /\ l1.tag = t /\ l1.steps = 0
      BY <1>5, <3>3 DEF LocType
    <3> HIDE DEF l1
    <3> QED
      BY <3>1, <3>2, <3>4 DEF LocType
  <2> HIDE DEF b
  <2>8. Hand(mem, bkt, d, lv, B, T, own, rk, lim, loc'.tag, loc'.blk)
    BY <2>6, <2>7
  <2>9. Freeing(mem, bkt, d, lv, B, loc')
    BY <2>7, <2>8 DEF Freeing
  <2>10. InFree'
    BY <1>2, <1>3, <1>10, <2>1, <2>2, <2>9 DEF InFree, B, lv
  <2>11. Typed(mem', bkt', cnt')
    <3>1. Typed(mem, bkt, d)
      BY <2>4, GoodTyped
    <3> QED
      BY <1>3, <2>1, <2>2, <3>1
  <2> QED
    BY <1>1, <1>12, <2>1, <2>7, <2>10, <2>11 DEF PoolInv, CallInv
<1> QED
  BY <1>14, <1>15

-----------------------------------------------------------------------------
(* The loop of tl_pool_tag_free. *)

LEMMA HandIs ==
  ASSUME NEW c, NEW lv, NEW B, NEW T, NEW own, NEW rk, NEW lim, NEW t, NEW b,
         Hand(mem, bkt, c, lv, B, T, own, rk, lim, t, b)
  PROVE  /\ Beside(T, own, t) /\ CoalesceAsserts(t)
         /\ t \in T /\ t \in Nat /\ mem[t + 2] \in Nat /\ Shape(mem, B, T, own)
<1>1. Heaped(mem, bkt, B, T, own, {t}, rk, lim) /\ own[t] = b /\ mem[t + 3] = b /\ mem[t + mem[t + 2] - 1] = t
  BY DEF Hand, Good
<1>2. Shape(mem, B, T, own) /\ t \in T
  BY <1>1 DEF Heaped
<1>3. t \in Nat /\ mem[t + 2] \in Nat
  BY <1>2, Geometry
<1>4. Beside(T, own, t)
  <2>1. Follows(mem, t, own[t], 3)
    BY <1>1 DEF Follows
  <2> QED
    BY <1>1, <2>1, BesideIs
<1>5. t + mem[t + 2] - 2 + 1 = t + mem[t + 2] - 1
  BY <1>3
<1>6. CoalesceAsserts(t)
  BY <1>1, <1>4, <1>5 DEF CoalesceAsserts, Beside, FootOK, ref, foot, size, TailS
<1> QED
  BY <1>2, <1>3, <1>4, <1>6

LEMMA FreeingIs ==
  ASSUME PoolInv, pc = "coalesce"
  PROVE  /\ \E T, own, rk, lim : Hand(mem, bkt, cnt, live, BlksOf(sys), T, own, rk, lim, loc.tag, loc.blk)
         /\ CoalesceAsserts(loc.tag)
         /\ Base \in sys /\ abort = FALSE /\ sys \subseteq Slots \cup {Base} /\ loc \in LocType /\ CntTyped(cnt)
         /\ Freeing(mem, bkt, cnt, live, BlksOf(sys), loc)
<1>1. InFree /\ abort = FALSE /\ sys \subseteq Slots \cup {Base} /\ loc \in LocType /\ CntTyped(cnt)
  BY DEF PoolInv, CallInv, NoPool, Destroying, Between, InLast, Typed
<1>2. Base \in sys /\ Freeing(mem, bkt, cnt, live, BlksOf(sys), loc)
  BY <1>1 DEF InFree
<1>3. PICK T, own, rk, lim : Hand(mem, bkt, cnt, live, BlksOf(sys), T, own, rk, lim, loc.tag, loc.blk)
  BY <1>2 DEF Freeing, HandLonely
<1> DEFINE B == BlksOf(sys)
           t == loc.tag
           b == loc.blk
<1>4. Hand(mem, bkt, cnt, live, B, T, own, rk, lim, t, b)
  BY <1>3
<1> HIDE DEF B, t, b
<1>5. CoalesceAsserts(t)
  BY <1>4, HandIs
<1> QED
  BY <1>1, <1>2, <1>3, <1>5 DEF t

LEMMA CoalesceWholeInv == ASSUME PoolInv, CoalesceWhole PROVE PoolInv'
<1> DEFINE t == loc.tag
           b == loc.blk
           B == BlksOf(sys)
<1>1. /\ pc = "coalesce" /\ WholeBlock(t) /\ pc' = "idle" /\ loc' = NoLoc
      /\ Assert2(CoalesceAsserts(t)) /\ live' = live
  BY DEF CoalesceWhole
<1>2. b # BaseBlk => /\ mem' = Wipe(RmBlk(mem, b), b) /\ sys' = sys \ {b}
                     /\ cnt' = UncountBlk(cnt, mem[b + 2]) /\ bkt' = bkt
  BY DEF CoalesceWhole, bsize
<1>3. b = BaseBlk => SetHeap(PutFree(Heap, t, b)) /\ sys' = sys /\ cnt' = cnt
  BY DEF CoalesceWhole
<1>4. /\ \E T, own, rk, lim : Hand(mem, bkt, cnt, live, B, T, own, rk, lim, t, b)
      /\ CoalesceAsserts(t)
      /\ Base \in sys /\ abort = FALSE /\ sys \subseteq Slots \cup {Base} /\ CntTyped(cnt)
  BY <1>1, FreeingIs
<1>5. PICK T, own, rk, lim : Hand(mem, bkt, cnt, live, B, T, own, rk, lim, t, b)
  BY <1>4
<1>6. abort' = FALSE
  BY <1>1, <1>4 DEF Assert2
<1> HIDE DEF t, b, B
<1>7. /\ b \in B /\ t = b + 3 /\ Follows(mem, b, mem[b + 2] - 3, 5)
      /\ Lonely(mem, FreeIn(mem, T, {t}), t)
  BY <1>1, <1>5, AllOfBlock
<1>8. /\ Good(mem, bkt, cnt, live, B, T, own, {t}, rk, lim) /\ KeptBut(mem, B, T, own, {t}, b)
  BY <1>5 DEF Hand
<1>9. CASE b # BaseBlk
  <2>1. b \in Slots /\ BlksOf(sys \ {b}) = B \ {b} /\ Base \in sys \ {b}
    BY <1>4, <1>7, <1>9, BlksOfIs DEF B
  <2>2. Good(mem, bkt, cnt, live, B, T, own, {b + 3}, rk, lim) /\ KeptBut(mem, B, T, own, {b + 3}, b)
    BY <1>7, <1>8
  <2>3. mem[b + 2] \in Int
    <3>1. Shape(mem, B, T, own)
      BY <1>8 DEF Good, Heaped
    <3> QED
      BY <1>7, <3>1 DEF Shape
  <2>4. BlkLess(cnt, cnt', mem[b + 2]) /\ mem' = Wipe(RmBlk(mem, b), b)
    BY <1>2, <1>4, <1>9, <2>3, BlkCountIs
  <2>5. Settled(mem', bkt, cnt', live, B \ {b})
    BY <1>7, <1>9, <2>2, <2>4, DropGood
  <2>6. Settled(mem', bkt', cnt', live', BlksOf(sys')) /\ Base \in sys' /\ sys' \subseteq Slots \cup {Base}
    BY <1>1, <1>2, <1>4, <1>9, <2>1, <2>5
  <2> QED
    BY <1>1, <1>6, <2>6, IdleInv
<1>10. CASE b = BaseBlk
  <2> DEFINE h == PutFree([mem |-> mem, bkt |-> bkt], t, b)
  <2>1. SetHeap(h) /\ sys' = sys /\ cnt' = cnt
    BY <1>3, <1>10 DEF Heap
  <2>2. h = PutFree([mem |-> mem, bkt |-> bkt], t, b)
    OBVIOUS
  <2> HIDE DEF h
  <2>3. KeptBut(mem, B, T, own, {t}, BaseBlk)
    BY <1>8, <1>10
  <2>4. Settled(h.mem, h.bkt, cnt, live, B)
    BY <1>5, <1>7, <2>2, <2>3, FreeStep
  <2>5. Settled(mem', bkt', cnt', live', BlksOf(sys')) /\ Base \in sys' /\ sys' \subseteq Slots \cup {Base}
    BY <1>1, <1>4, <2>1, <2>4 DEF SetHeap, B
  <2> QED
    BY <1>1, <1>6, <2>5, IdleInv
<1> QED
  BY <1>9, <1>10

LEMMA CoalesceDoneInv == ASSUME PoolInv, CoalesceDone PROVE PoolInv'
<1> DEFINE t == loc.tag
           b == loc.blk
           B == BlksOf(sys)
           h == PutFree([mem |-> mem, bkt |-> bkt], t, b)
<1>1. /\ pc = "coalesce" /\ ~WholeBlock(t) /\ ~FreeBelow(t) /\ ~FreeAbove(t) /\ pc' = "idle" /\ loc' = NoLoc
      /\ Assert2(CoalesceAsserts(t)) /\ live' = live /\ cnt' = cnt /\ sys' = sys /\ SetHeap(h)
  BY DEF CoalesceDone, Heap
<1>2. /\ \E T, own, rk, lim : Hand(mem, bkt, cnt, live, B, T, own, rk, lim, t, b)
      /\ CoalesceAsserts(t)
      /\ Base \in sys /\ abort = FALSE /\ sys \subseteq Slots \cup {Base}
  BY <1>1, FreeingIs
<1>3. PICK T, own, rk, lim : Hand(mem, bkt, cnt, live, B, T, own, rk, lim, t, b)
  BY <1>2
<1>4. abort' = FALSE
  BY <1>1, <1>2 DEF Assert2
<1>5. h = PutFree([mem |-> mem, bkt |-> bkt], t, b)
  OBVIOUS
<1> HIDE DEF t, b, B, h
<1>6. Lonely(mem, FreeIn(mem, T, {t}), t) /\ KeptBut(mem, B, T, own, {t}, BaseBlk)
  BY <1>1, <1>3, BetweenUsed
<1>7. Settled(h.mem, h.bkt, cnt, live, B)
  BY <1>3, <1>5, <1>6, FreeStep
<1>8. Settled(mem', bkt', cnt', live', BlksOf(sys')) /\ Base \in sys' /\ sys' \subseteq Slots \cup {Base}
  BY <1>1, <1>2, <1>7 DEF SetHeap, B
<1> QED
  BY <1>1, <1>4, <1>8, IdleInv

\* No tag is merged twice: a free neighbour of a tag merged already would have
\* bordered on a free tag before.
LEMMA LonelyStays ==
  ASSUME NEW c, NEW lv, NEW B, NEW T, NEW own, NEW rk, NEW lim, NEW t, NEW b,
         Hand(mem, bkt, c, lv, B, T, own, rk, lim, t, b), Lonely(mem, FreeIn(mem, T, {t}), t)
  PROVE  ~FreeBelow(t) /\ ~FreeAbove(t)
<1>1. Beside(T, own, t) /\ t \in Nat /\ mem[t + 2] \in Nat /\ Shape(mem, B, T, own)
  BY HandIs
<1> DEFINE F == FreeIn(mem, T, {t})
           u == Below(t)
           v == Above(t)
<1>2. /\ FreeBelow(t) => u \in F /\ mem[u + 2] = t - u
      /\ FreeAbove(t) => v \in F /\ mem[t + 2] = v - t
  BY <1>1 DEF Beside, Beneath, Follows
<1>3. \A x \in F : x \in Nat /\ x # t + mem[t + 2] /\ t # x + mem[x + 2]
  <2>1. \A x \in F : x \in T
    BY DEF FreeIn
  <2>2. \A x \in T : x \in Nat
    BY <1>1 DEF Shape
  <2> QED
    BY <2>1, <2>2 DEF Lonely
<1> HIDE DEF F, u, v
<1> QED
  BY <1>1, <1>2, <1>3

LEMMA MergedHeapLike ==
  ASSUME NEW t, NEW u, NEW v,
         NEW h1, h1 = IF FreeBelow(t) THEN RmTag(Heap, u) ELSE Heap,
         NEW h2, h2 = IF FreeAbove(t) THEN RmTag(h1, v) ELSE h1
  PROVE  HeapLike(h2)
<1>1. Heap = [mem |-> mem, bkt |-> bkt]
  BY DEF Heap
<1>2. h1 = [mem |-> h1.mem, bkt |-> h1.bkt]
  <2>1. CASE FreeBelow(t)
    <3>1. h1 = RmTag([mem |-> mem, bkt |-> bkt], u)
      BY <1>1, <2>1
    <3> QED
      BY <3>1, RmTagRecord
  <2>2. CASE ~FreeBelow(t)
    BY <1>1, <2>2
  <2> QED
    BY <2>1, <2>2
<1>3. h2 = [mem |-> h2.mem, bkt |-> h2.bkt]
  <2>1. CASE FreeAbove(t)
    <3> DEFINE m1 == h1.mem
               k1 == h1.bkt
    <3>1. h2 = RmTag([mem |-> m1, bkt |-> k1], v)
      BY <1>2, <2>1
    <3> HIDE DEF m1, k1
    <3> QED
      BY <3>1, RmTagRecord
  <2>2. CASE ~FreeAbove(t)
    BY <1>2, <2>2
  <2> QED
    BY <2>1, <2>2
<1> DEFINE m2 == h2.mem
           k2 == h2.bkt
<1>4. h2 = [mem |-> m2, bkt |-> k2]
  BY <1>3
<1> HIDE DEF m2, k2
<1>5. HeapLike([mem |-> m2, bkt |-> k2])
  BY PlainHeapLike
<1> QED
  BY <1>4, <1>5

\* T becomes the tags of mem', x being what the tag in hand becomes and y its end.
Joins(T, own, rk, lim, t, b, x, y) ==
  /\ loc.steps = 0 /\ Hand(mem, bkt, cnt, live, BlksOf(sys), T, own, rk, lim, t, b)
  /\ x = IF FreeBelow(t) THEN Below(t) ELSE t
  /\ y = IF FreeAbove(t) THEN Above(t) + mem[size(Above(t))] ELSE Above(t)
  /\ Merged(mem, mem', bkt', cnt, live, BlksOf(sys), T, own, rk, lim, t, x) /\ MergedTag(mem', x, y, b)
  /\ HandLonely(mem', bkt', cnt, live, BlksOf(sys), rk, lim, x, b)
  /\ loc' = [loc EXCEPT !.tag = x, !.steps = loc.steps + 1]

LEMMA CoalesceMergeIs ==
  ASSUME PoolInv, CoalesceMerge
  PROVE  \E T, own, rk, lim, x, y : Joins(T, own, rk, lim, loc.tag, loc.blk, x, y)
<1> DEFINE t  == loc.tag
           b  == loc.blk
           B  == BlksOf(sys)
           h1 == IF FreeBelow(t) THEN RmTag(Heap, Below(t)) ELSE Heap
           h2 == IF FreeAbove(t) THEN RmTag(h1, Above(t)) ELSE h1
           x  == IF FreeBelow(t) THEN Below(t) ELSE t
           y  == IF FreeAbove(t) THEN Above(t) + mem[size(Above(t))] ELSE Above(t)
           m2 == [h2.mem EXCEPT ![x + 2] = y - x, ![x] = 0, ![x + 3] = b, ![y - 2 + 1] = x]
<1>1. /\ pc = "coalesce" /\ (FreeBelow(t) \/ FreeAbove(t))
      /\ SetHeap([h2 EXCEPT !.mem = m2]) /\ loc' = [loc EXCEPT !.tag = x, !.steps = loc.steps + 1]
  BY DEF CoalesceMerge, size, use, h_blk, ref, TailS
<1>2. Freeing(mem, bkt, cnt, live, B, loc)
  BY <1>1, FreeingIs
<1>4. FreeBelow(t) \/ FreeAbove(t)
  BY <1>1
<1>5. h1 = IF FreeBelow(t) THEN RmTag(Heap, Below(t)) ELSE Heap
  OBVIOUS
<1>6. h2 = IF FreeAbove(t) THEN RmTag(h1, Above(t)) ELSE h1
  OBVIOUS
<1>7. x = IF FreeBelow(t) THEN Below(t) ELSE t
  OBVIOUS
<1>8. y = IF FreeAbove(t) THEN Above(t) + mem[size(Above(t))] ELSE Above(t)
  OBVIOUS
<1>9. m2 = [h2.mem EXCEPT ![x + 2] = y - x, ![x] = 0, ![x + 3] = b, ![y - 2 + 1] = x]
  OBVIOUS
<1>10. t = loc.tag /\ b = loc.blk
  OBVIOUS
<1> HIDE DEF t, b, B, h1, h2, x, y, m2
<1>11. loc.steps = 0 /\ \E T, own, rk, lim : Hand(mem, bkt, cnt, live, B, T, own, rk, lim, t, b)
  <2>1. PICK rk, lim : \/ loc.steps = 0 /\ \E T, own : Hand(mem, bkt, cnt, live, B, T, own, rk, lim, t, b)
                       \/ loc.steps = 1 /\ HandLonely(mem, bkt, cnt, live, B, rk, lim, t, b)
    BY <1>2, <1>10 DEF Freeing
  <2>2. ~HandLonely(mem, bkt, cnt, live, B, rk, lim, t, b)
    <3> SUFFICES ASSUME HandLonely(mem, bkt, cnt, live, B, rk, lim, t, b) PROVE FALSE
      OBVIOUS
    <3>1. PICK T, own : Hand(mem, bkt, cnt, live, B, T, own, rk, lim, t, b) /\ Lonely(mem, FreeIn(mem, T, {t}), t)
      BY DEF HandLonely
    <3>2. ~FreeBelow(t) /\ ~FreeAbove(t)
      BY <3>1, LonelyStays
    <3> QED
      BY <1>4, <3>2
  <2> QED
    BY <2>1, <2>2
<1>12. PICK T, own, rk, lim : Hand(mem, bkt, cnt, live, B, T, own, rk, lim, t, b)
  BY <1>11
<1>13. y \in Int
  <2>1. Beside(T, own, t) /\ t \in Nat /\ mem[t + 2] \in Nat /\ Shape(mem, B, T, own)
    BY <1>12, HandIs
  <2>2. Above(t) \in Nat
    BY <2>1 DEF Above, size
  <2>3. FreeAbove(t) => mem[Above(t) + 2] \in Nat
    <3>1. FreeAbove(t) => Above(t) \in T
      BY <2>1 DEF Beside, FreeIn
    <3> QED
      BY <2>1, <3>1, Geometry
  <2> QED
    BY <1>8, <2>2, <2>3 DEF size
<1>14. MergedMem(h2.mem, m2, x, y, b)
  <2> DEFINE z == y - 2 + 1
  <2>1. z = y - 1
    BY <1>13
  <2>2. m2 = [h2.mem EXCEPT ![x + 2] = y - x, ![x] = 0, ![x + 3] = b, ![z] = x]
    BY <1>9
  <2> HIDE DEF z
  <2> QED
    BY <2>1, <2>2 DEF MergedMem
<1>15. /\ Merged(mem, m2, h2.bkt, cnt, live, B, T, own, rk, lim, t, x) /\ MergedTag(m2, x, y, b)
       /\ HandLonely(m2, h2.bkt, cnt, live, B, rk, lim, x, b)
  <2>1. /\ x \in Nat /\ y \in Nat /\ Apart(mem, FreeIn(mem, T, {t}), x, y)
        /\ Merged(mem, m2, h2.bkt, cnt, live, B, T, own, rk, lim, t, x) /\ MergedTag(m2, x, y, b)
    BY <1>4, <1>5, <1>6, <1>7, <1>8, <1>12, <1>14, MergeIs
  <2> QED
    BY <1>12, <2>1, MergedHand
<1>16. mem' = m2 /\ bkt' = h2.bkt
  <2> DEFINE u == Below(t)
             v == Above(t)
  <2>1. h1 = IF FreeBelow(t) THEN RmTag(Heap, u) ELSE Heap
    BY <1>5
  <2>2. h2 = IF FreeAbove(t) THEN RmTag(h1, v) ELSE h1
    BY <1>6
  <2> HIDE DEF u, v
  <2>3. HeapLike(h2)
    BY <2>1, <2>2, MergedHeapLike
  <2> QED
    BY <1>1, <2>3 DEF SetHeap, HeapLike
<1>17. Joins(T, own, rk, lim, t, b, x, y)
  BY <1>1, <1>7, <1>8, <1>11, <1>12, <1>15, <1>16 DEF Joins, B
<1> QED
  BY <1>10, <1>17

LEMMA CoalesceMergeInv == ASSUME PoolInv, CoalesceMerge PROVE PoolInv'
<1>1. /\ pc = "coalesce" /\ Assert2(CoalesceAsserts(loc.tag))
      /\ cnt' = cnt /\ sys' = sys /\ live' = live /\ pc' = pc
  BY DEF CoalesceMerge
<1>2. /\ CoalesceAsserts(loc.tag) /\ loc \in LocType
      /\ Base \in sys /\ abort = FALSE /\ sys \subseteq Slots \cup {Base}
  BY <1>1, FreeingIs
<1>3. abort' = FALSE
  BY <1>1, <1>2 DEF Assert2
<1> DEFINE t == loc.tag
           b == loc.blk
           B == BlksOf(sys)
<1>4. PICK T, own, rk, lim, x, y : Joins(T, own, rk, lim, t, b, x, y)
  BY CoalesceMergeIs
<1>5. b = loc.blk
  OBVIOUS
<1> HIDE DEF t, b, B
<1>6. /\ HandLonely(mem', bkt', cnt, live, B, rk, lim, x, b) /\ loc.steps = 0
      /\ loc' = [loc EXCEPT !.tag = x, !.steps = loc.steps + 1]
  BY <1>4 DEF Joins, B
<1>7. PICK T2, own2 : Hand(mem', bkt', cnt, live, B, T2, own2, rk, lim, x, b)
  BY <1>6 DEF HandLonely
<1>8. Good(mem', bkt', cnt, live, B, T2, own2, {x}, rk, lim)
  BY <1>7 DEF Hand
<1>9. Typed(mem', bkt', cnt')
  <2> DEFINE H == {x}
             m2 == mem'
             k2 == bkt'
  <2>1. Good(m2, k2, cnt, live, B, T2, own2, H, rk, lim)
    BY <1>8
  <2> HIDE DEF H, m2, k2
  <2>2. Typed(m2, k2, cnt)
    BY <2>1, GoodTyped
  <2> QED
    BY <1>1, <2>2 DEF m2, k2
<1>10. x \in Int
  <2>1. Shape(mem', B, T2, own2) /\ {x} \subseteq T2
    BY <1>8 DEF Good, Heaped
  <2>2. T2 \subseteq Nat
    BY <2>1 DEF Shape
  <2>3. x \in T2
    BY <2>1
  <2> QED
    BY <2>2, <2>3
<1>11. loc' \in LocType /\ loc'.tag = x /\ loc'.blk = b /\ loc'.steps = 1
  <2> DEFINE l1 == [loc EXCEPT !.tag = x]
  <2>1. l1 \in LocType /\ l1.tag = x /\ l1.blk = loc.blk
    BY <1>2, <1>10 DEF LocType
  <2>2. loc' = [l1 EXCEPT !.steps = 1]
    BY <1>6
  <2> HIDE DEF l1
  <2> QED
    BY <1>5, <2>1, <2>2 DEF LocType
<1>12. Freeing(mem', bkt', cnt, live, B, loc')
  <2>1. HandLonely(mem', bkt', cnt, live, B, rk, lim, loc'.tag, loc'.blk)
    BY <1>6, <1>11
  <2> QED
    BY <1>11, <2>1 DEF Freeing
<1>13. InFree'
  <2>1. Freeing(mem', bkt', cnt', live', BlksOf(sys'), loc')
    BY <1>1, <1>12 DEF B
  <2> QED
    BY <1>1, <1>2, <2>1 DEF InFree
<1> QED
  BY <1>1, <1>2, <1>3, <1>9, <1>11, <1>13 DEF PoolInv, CallInv

-----------------------------------------------------------------------------
(* tl_pool_destroy. *)

\* Without the block that held its ends, the ring of blocks is a line.
LEMMA LineStarts ==
  ASSUME NEW m, NEW B, NEW rk, Ring(m, B, m[BaseBlk + 1], 0, 1, rk), BaseBlk \in B,
         NEW R, R = B \ {BaseBlk}, R \subseteq Slots
  PROVE  Line(m, R, m[BaseBlk + 1], rk)
<1> DEFINE h == m[BaseBlk + 1]
<1>1. /\ h \in B
      /\ \A x \in B : /\ m[x + 1] \in B
                      /\ rk[x] \in Nat /\ rk[x] <= rk[h]
                      /\ m[x + 1] = h \/ rk[m[x + 1]] < rk[x]
      /\ \A x, y \in B : rk[y] < rk[x] => rk[y] <= rk[m[x + 1]] /\ rk[m[x + 1]] < rk[x]
      /\ \A x, y \in B : rk[y] = rk[x] => y = x
  BY DEF Ring
<1>2. \A x \in B : m[x + 1] = h => x = BaseBlk
  <2> SUFFICES ASSUME NEW x \in B, m[x + 1] = h PROVE x = BaseBlk
    OBVIOUS
  <2>1. m[m[x + 1] + 0] = x /\ m[m[BaseBlk + 1] + 0] = BaseBlk
    BY DEF Ring
  <2> QED
    BY <2>1
<1> DEFINE q == BaseBlk
<1>3. h = BaseBlk <=> R = {}
  <2>1. ASSUME h = BaseBlk PROVE R = {}
    <3>1. Follows(m, BaseBlk, BaseBlk, 1) /\ Ring(m, B, h, 0, 1, rk)
      BY <2>1 DEF Follows
    <3> HIDE DEF BaseBlk, h
    <3>2. Only(B, h, BaseBlk)
      BY <3>1, RingAlone
    <3> QED
      BY <3>2 DEF Only
  <2>2. R = {} => h = BaseBlk
    BY <1>1
  <2> QED
    BY <2>1, <2>2
<1>4. m[q + 1] = h /\ q \in B /\ R = B \ {q}
  OBVIOUS
<1>5. h = q <=> R = {}
  BY <1>3
<1>6. \A x \in B : m[x + 1] = h => x = q
  BY <1>2
<1> HIDE DEF q, h
<1>7. \A y \in B : ~(rk[y] < rk[q])
  <2> SUFFICES ASSUME NEW y \in B, rk[y] < rk[q] PROVE FALSE
    OBVIOUS
  <2>1. rk[h] < rk[q]
    BY <1>1, <1>4
  <2>2. rk[q] <= rk[h] /\ rk[q] \in Nat /\ rk[h] \in Nat
    BY <1>1, <1>4
  <2> QED
    BY <2>1, <2>2
<1>8. \A x \in R : /\ rk[x] \in Nat /\ rk[x] <= rk[h]
                   /\ m[x + 1] = q \/ (m[x + 1] \in R /\ rk[m[x + 1]] < rk[x])
  BY <1>1, <1>4, <1>6
<1>9. \A x, y \in R : rk[y] < rk[x] => m[x + 1] \in R /\ rk[y] <= rk[m[x + 1]]
  <2> SUFFICES ASSUME NEW x \in R, NEW y \in R, rk[y] < rk[x] PROVE m[x + 1] \in R /\ rk[y] <= rk[m[x + 1]]
    OBVIOUS
  <2>1. rk[y] <= rk[m[x + 1]] /\ m[x + 1] \in B /\ x \in B /\ y \in B /\ y # q
    BY <1>1, <1>4
  <2>2. rk[y] \in Nat /\ rk[q] \in Nat /\ ~(rk[y] < rk[q]) /\ rk[y] # rk[q]
    BY <1>1, <1>4, <1>7, <2>1
  <2>3. m[x + 1] # q
    BY <2>1, <2>2
  <2> QED
    BY <1>4, <2>1, <2>3
<1>10. \A x, y \in R : rk[y] = rk[x] => y = x
  BY <1>1, <1>4
<1>11. R # {} => h \in R
  BY <1>1, <1>4, <1>5
<1> QED
  BY <1>5, <1>8, <1>9, <1>10, <1>11 DEF Line, q, h

LEMMA LineMoves ==
  ASSUME NEW m, NEW m2, NEW R, NEW b, NEW rk, Line(m, R, b, rk), b # BaseBlk,
         \A x \in R : m2[x + 1] = m[x + 1]
  PROVE  b \in R /\ Line(m2, R \ {b}, m2[b + 1], rk)
<1> DEFINE Q == R \ {b}
           n == m2[b + 1]
<1>1. /\ R \subseteq Slots /\ b \in R
      /\ \A x \in R : /\ rk[x] \in Nat /\ rk[x] <= rk[b]
                      /\ m2[x + 1] = BaseBlk \/ (m2[x + 1] \in R /\ rk[m2[x + 1]] < rk[x])
      /\ \A x, y \in R : rk[y] < rk[x] => m2[x + 1] \in R /\ rk[y] <= rk[m2[x + 1]]
      /\ \A x, y \in R : rk[y] = rk[x] => y = x
  BY DEF Line
<1>2. BaseBlk \notin Slots
  BY Rooms
<1> HIDE DEF BaseBlk
<1>3. \A y \in Q : rk[y] < rk[b] /\ y \in R
  BY <1>1
<1>4. n = BaseBlk <=> Q = {}
  <2>1. ASSUME n = BaseBlk PROVE Q = {}
    <3> SUFFICES ASSUME NEW y \in Q PROVE FALSE
      OBVIOUS
    <3>1. n \in R
      BY <1>1, <1>3
    <3> QED
      BY <1>1, <1>2, <2>1, <3>1
  <2>2. ASSUME n # BaseBlk PROVE n \in Q
    BY <1>1, <2>2
  <2> QED
    BY <2>1, <2>2
<1>5. Q # {} => n \in Q
  <2>1. n # BaseBlk => n \in Q
    BY <1>1
  <2> QED
    BY <1>4, <2>1
<1>6. \A x \in Q : /\ rk[x] \in Nat /\ rk[x] <= rk[n]
                   /\ m2[x + 1] = BaseBlk \/ (m2[x + 1] \in Q /\ rk[m2[x + 1]] < rk[x])
  <2> SUFFICES ASSUME NEW x \in Q
               PROVE  /\ rk[x] \in Nat /\ rk[x] <= rk[n]
                      /\ m2[x + 1] = BaseBlk \/ (m2[x + 1] \in Q /\ rk[m2[x + 1]] < rk[x])
    OBVIOUS
  <2>1. x \in R /\ rk[x] < rk[b] /\ rk[x] \in Nat /\ rk[b] \in Nat
    BY <1>1, <1>3
  <2>2. rk[x] <= rk[n]
    BY <1>1, <2>1
  <2>3. m2[x + 1] \in R /\ rk[m2[x + 1]] < rk[x] => m2[x + 1] # b
    BY <2>1
  <2> QED
    BY <1>1, <2>1, <2>2, <2>3
<1>7. \A x, y \in Q : rk[y] < rk[x] => m2[x + 1] \in Q /\ rk[y] <= rk[m2[x + 1]]
  <2> SUFFICES ASSUME NEW x \in Q, NEW y \in Q, rk[y] < rk[x] PROVE m2[x + 1] \in Q /\ rk[y] <= rk[m2[x + 1]]
    OBVIOUS
  <2>1. m2[x + 1] \in R /\ rk[y] <= rk[m2[x + 1]] /\ x \in R
    BY <1>1, <1>3
  <2>2. m2[x + 1] \in Q
    BY <1>1, <1>2, <1>6, <2>1
  <2> QED
    BY <2>1, <2>2
<1>8. \A x, y \in Q : rk[y] = rk[x] => y = x
  BY <1>1
<1>9. Q \subseteq Slots
  BY <1>1
<1> HIDE DEF Q, n
<1>10. Line(m2, Q, n, rk)
  BY <1>4, <1>5, <1>6, <1>7, <1>8, <1>9 DEF Line
<1> QED
  BY <1>1, <1>10 DEF Q, n

LEMMA DestroyCallInv == ASSUME PoolInv, DestroyCall PROVE PoolInv'
<1> DEFINE B == BlksOf(sys)
           n == mem[BaseBlk + 1]
<1>1. pc = "idle" /\ Between /\ abort = FALSE /\ sys \subseteq Slots \cup {Base} /\ Typed(mem, bkt, cnt)
  BY DEF DestroyCall, PoolInv, CallInv, NoPool, Destroying, InLast, InFree
<1>2. Base \in sys /\ Settled(mem, bkt, cnt, live, B)
  BY <1>1 DEF Between
<1>3. /\ pc' = "destroy" /\ loc' = [NoLoc EXCEPT !.tag = Base, !.blk = n] /\ live' = <<>>
      /\ mem' = mem /\ bkt' = bkt /\ cnt' = cnt /\ sys' = sys /\ abort' = abort
  BY DEF DestroyCall, bnxt
<1>4. PICK T, own, rk, lim : Good(mem, bkt, cnt, live, B, T, own, {}, rk, lim)
  BY <1>2 DEF Settled
<1>5. Shape(mem, B, T, own) /\ BaseBlk \in B /\ Ring(mem, B, mem[BaseBlk + 1], 0, 1, rk)
  BY <1>4 DEF Good, Heaped
<1> DEFINE R == sys \ {Base}
<1>6. R = B \ {BaseBlk} /\ R \subseteq Slots
  <2>1. BaseBlk \notin Slots
    BY Rooms
  <2> HIDE DEF BaseBlk
  <2> QED
    BY <1>1, <2>1 DEF BlksOf
<1> HIDE DEF B, R
<1>7. Line(mem, R, mem[BaseBlk + 1], rk)
  BY <1>5, <1>6, LineStarts
<1>8. n \in Int
  <2>1. n \in B
    BY <1>5 DEF Ring
  <2> QED
    BY <1>5, <2>1, Geometry
<1> HIDE DEF n
<1>9. loc' \in LocType /\ loc'.tag = Base /\ loc'.blk = n /\ loc'.steps = 0
  <2> DEFINE l0 == NoLoc
             l1 == [l0 EXCEPT !.tag = Base]
  <2>1. loc' = [l1 EXCEPT !.blk = n]
    BY <1>3
  <2>2. l0 \in LocType /\ l0.steps = 0 /\ Base \in Int
    BY NoLocIs, LayoutAssumption
  <2> HIDE DEF l0
  <2>3. l1 \in LocType /\ l1.tag = Base /\ l1.steps = 0
    BY <2>2 DEF LocType
  <2> HIDE DEF l1
  <2> QED
    BY <1>8, <2>1, <2>3 DEF LocType
<1>10. Cardinality(sys) \in Nat /\ Cardinality(sys) <= Cardinality(Slots) + 1 /\ Cardinality(Slots) \in Nat
  <2> DEFINE S == Slots \cup {Base}
  <2>1. IsFiniteSet(Slots) /\ Base \notin Slots
    BY LayoutAssumption
  <2>2. IsFiniteSet(S) /\ Cardinality(S) = Cardinality(Slots) + 1 /\ Cardinality(Slots) \in Nat
    BY <2>1, FS_AddElement, FS_CardinalityType
  <2>3. sys \subseteq S
    BY <1>1
  <2> HIDE DEF S
  <2>4. IsFiniteSet(sys) /\ Cardinality(sys) <= Cardinality(S)
    BY <2>2, <2>3, FS_Subset
  <2> QED
    BY <2>2, <2>4, FS_CardinalityType
<1>11. Destroying'
  <2>1. Line(mem', sys' \ {loc'.tag}, loc'.blk, rk)
    BY <1>3, <1>7, <1>9 DEF R, n
  <2>2. \E q : Line(mem', sys' \ {loc'.tag}, loc'.blk, q)
    BY <2>1
  <2>3. loc'.steps \in Nat /\ loc'.steps + Cardinality(sys') <= Cardinality(Slots) + 1
    BY <1>3, <1>9, <1>10
  <2> QED
    BY <1>2, <1>3, <1>9, <2>2, <2>3 DEF Destroying
<1> QED
  BY <1>1, <1>3, <1>9, <1>11 DEF PoolInv, CallInv

LEMMA WipeOther ==
  ASSUME NEW m \in Memory, NEW s \in Slots \cup {Base}, NEW x \in Slots, x # s
  PROVE  Wipe(m, s) \in Memory /\ Wipe(m, s)[x + 1] = m[x + 1] /\ x + 1 \in Cell
<1>1. Wipe(m, s) \in Memory
  BY DEF Wipe, Memory, Junk
<1>2. /\ x \in Nat /\ s \in Nat /\ PageS \in Nat /\ SlotS \in Nat /\ 9 <= PageS /\ PageS <= SlotS
      /\ (s + SlotS <= x \/ x + SlotS <= s \/ (s = Base /\ s + PageS <= x))
      /\ Base \notin Slots
  BY LayoutAssumption DEF BlkS, ThreshS, HeadS, TailS
<1>3. x + 1 \notin Cells(s)
  BY <1>2 DEF Cells
<1>4. x + 1 \in Cell
  <2>1. x + 1 \in Cells(x)
    BY <1>2 DEF Cells
  <2> QED
    BY <2>1 DEF Cell
<1> QED
  BY <1>1, <1>3, <1>4 DEF Wipe

LEMMA DestroyStepInv == ASSUME PoolInv, DestroyStep PROVE PoolInv'
<1> DEFINE t == loc.tag
           b == loc.blk
           R == sys \ {t}
           n == mem'[b + 1]
<1>1. pc = "destroy" /\ Destroying /\ abort = FALSE /\ sys \subseteq Slots \cup {Base} /\ Typed(mem, bkt, cnt)
      /\ loc \in LocType
  BY DEF DestroyStep, PoolInv, CallInv, NoPool, Between, InLast, InFree
<1>2. /\ live = <<>> /\ t \in sys /\ \E rk : Line(mem, R, b, rk)
      /\ loc.steps \in Nat /\ loc.steps + Cardinality(sys) <= Cardinality(Slots) + 1
  BY <1>1 DEF Destroying
<1>3. /\ mem' = Wipe(mem, t) /\ sys' = R /\ live' = live /\ abort' = abort
      /\ b = BaseBlk => pc' = "none" /\ loc' = NoLoc /\ bkt' = EmptyBuckets /\ cnt' = NoCounts
      /\ b # BaseBlk => /\ loc' = [loc EXCEPT !.tag = b, !.blk = n, !.steps = loc.steps + 1]
                        /\ pc' = pc /\ bkt' = bkt /\ cnt' = cnt
  BY DEF DestroyStep, NextBlk, bnxt
<1>4. PICK rk : Line(mem, R, b, rk)
  BY <1>2
<1>5. mem \in Memory /\ R \subseteq Slots /\ t \in Slots \cup {Base} /\ t \notin R
  BY <1>1, <1>2, <1>4 DEF Typed, Line
<1>6. mem' \in Memory
  BY <1>3, <1>5 DEF Wipe, Memory, Junk
<1>7. CASE b = BaseBlk
  <2>1. R = {}
    BY <1>4, <1>7 DEF Line
  <2>2. bkt' \in [0 .. MaxIdx - 1 -> Cell \cup {NULL}]
    BY <1>3, <1>7 DEF EmptyBuckets
  <2>3. Typed(mem', bkt', cnt')
    BY <1>3, <1>6, <1>7, <2>2, NoCountsTyped DEF Typed
  <2>4. NoPool'
    BY <1>2, <1>3, <1>7, <2>1 DEF NoPool
  <2>5. sys' \subseteq Slots \cup {Base} /\ abort' = FALSE /\ loc' \in LocType
    BY <1>1, <1>3, <1>7, <2>1, NoLocIs
  <2> QED
    BY <2>3, <2>4, <2>5 DEF PoolInv, CallInv
<1>8. CASE b # BaseBlk
  <2>1. \A x \in R : mem'[x + 1] = mem[x + 1]
    BY <1>3, <1>5, WipeOther
  <2> DEFINE m2 == mem'
  <2>2. \A x \in R : m2[x + 1] = mem[x + 1]
    BY <2>1
  <2> HIDE DEF m2, R
  <2>3. b \in R /\ Line(m2, R \ {b}, m2[b + 1], rk)
    BY <1>4, <1>8, <2>2, LineMoves
  <2>4. b \in Slots /\ b # t
    BY <1>5, <2>3
  <2>5. n \in Int
    <3>1. b + 1 \in Cell
      BY <1>5, <2>4, WipeOther
    <3> QED
      BY <1>6, <3>1 DEF Memory
  <2>6. loc' \in LocType /\ loc'.tag = b /\ loc'.blk = n /\ loc'.steps = loc.steps + 1
    <3> DEFINE v == n
               s == loc.steps + 1
               w == b
               l1 == [loc EXCEPT !.tag = w]
               l2 == [l1 EXCEPT !.blk = v]
    <3>1. loc' = [l2 EXCEPT !.steps = s]
      BY <1>3, <1>8
    <3>2. v \in Int /\ w \in Int /\ s \in Int
      <4>1. \A x \in Slots : x \in Int
        <5>1. Slots \subseteq Nat
          BY LayoutAssumption
        <5> QED
          BY <5>1
      <4>2. b \in Int
        BY <2>4, <4>1
      <4>3. loc.steps + 1 \in Int
        BY <1>2
      <4> QED
        BY <2>5, <4>2, <4>3
    <3> HIDE DEF v, s, w
    <3>3. l1 \in LocType /\ l1.tag = w
      BY <1>1, <3>2 DEF LocType
    <3> HIDE DEF l1
    <3>4. l2 \in LocType /\ l2.tag = w /\ l2.blk = v
      BY <3>2, <3>3 DEF LocType
    <3> HIDE DEF l2
    <3>5. loc' \in LocType /\ loc'.tag = w /\ loc'.blk = v /\ loc'.steps = s
      BY <3>1, <3>2, <3>4 DEF LocType
    <3> QED
      BY <3>5 DEF v, s, w
  <2>7. Cardinality(R) = Cardinality(sys) - 1 /\ Cardinality(sys) \in Nat
    <3>1. IsFiniteSet(Slots \cup {Base})
      BY LayoutAssumption, FS_AddElement
    <3>2. IsFiniteSet(sys)
      BY <1>1, <3>1, FS_Subset
    <3> QED
      BY <1>2, <3>2, FS_RemoveElement, FS_CardinalityType DEF R
  <2>8. \E q : Line(mem', sys' \ {loc'.tag}, loc'.blk, q)
    BY <1>3, <2>3, <2>6 DEF m2
  <2>9. loc'.steps \in Nat /\ loc'.steps + Cardinality(sys') <= Cardinality(Slots) + 1
    <3>1. Cardinality(Slots) \in Nat
      BY LayoutAssumption, FS_CardinalityType
    <3> QED
      BY <1>2, <1>3, <2>6, <2>7, <3>1
  <2>10. Destroying'
    BY <1>1, <1>2, <1>3, <1>8, <2>3, <2>6, <2>8, <2>9 DEF Destroying
  <2>11. Typed(mem', bkt', cnt')
    BY <1>1, <1>3, <1>6, <1>8 DEF Typed
  <2>12. sys' \subseteq Slots \cup {Base} /\ abort' = FALSE
    BY <1>1, <1>3, <1>5
  <2> QED
    BY <2>6, <2>10, <2>11, <2>12 DEF PoolInv, CallInv
<1> QED
  BY <1>7, <1>8

-----------------------------------------------------------------------------
(* The theorems. *)

LEMMA NextInv == ASSUME PoolInv, [Next]_vars PROVE PoolInv'
<1>1. ASSUME NEW bytes \in Requests, AllocCall(bytes) PROVE PoolInv'
  BY <1>1, AllocCallInv
<1>2. ASSUME NEW a \in DOMAIN live, FreeCall(a) PROVE PoolInv'
  BY <1>2, FreeCallInv
<1>3. CASE UNCHANGED vars
  <2>1. /\ mem' = mem /\ bkt' = bkt /\ cnt' = cnt /\ sys' = sys /\ live' = live /\ pc' = pc
        /\ loc' = loc /\ abort' = abort
    BY <1>3 DEF vars
  <2>2. Typed(mem', bkt', cnt') /\ sys' \subseteq Slots \cup {Base} /\ abort' = FALSE /\ loc' \in LocType
    BY <2>1 DEF PoolInv
  <2>3. CallInv'
    BY <2>1 DEF PoolInv, CallInv, NoPool, Destroying, Between, InLast, InFree
  <2> QED
    BY <2>2, <2>3 DEF PoolInv
<1>4. CASE Running
  <2>1. \/ SearchHit \/ SearchMiss \/ SearchNone \/ LastHit \/ LastNext \/ LastEnd
        \/ SystemGrow \/ SystemFail \/ Large \/ LargeFail
        \/ CoalesceWhole \/ CoalesceDone \/ CoalesceMerge \/ DestroyStep
    BY <1>4 DEF Running
  <2> QED
    BY <2>1, SearchHitInv, SearchMissInv, SearchNoneInv, LastHitInv, LastNextInv, LastEndInv,
       SystemGrowInv, SystemFailInv, LargeInv, LargeFailInv, CoalesceWholeInv, CoalesceDoneInv,
       CoalesceMergeInv, DestroyStepInv
<1> QED
  BY <1>1, <1>2, <1>3, <1>4, PoolInitInv, DestroyCallInv DEF Next

\* In every reachable state the memory has the shape its loops rely on.
THEOREM PoolInvariant == Spec => []PoolInv
<1>1. Init => PoolInv
  BY InitInv
<1>2. PoolInv /\ [Next]_vars => PoolInv'
  BY NextInv
<1> QED
  BY <1>1, <1>2, PTL DEF Spec

LEMMA InvTyped == PoolInv => TypeOK
<1> SUFFICES ASSUME PoolInv PROVE TypeOK
  OBVIOUS
<1>1. Typed(mem, bkt, cnt) /\ sys \subseteq Slots \cup {Base} /\ abort = FALSE
  BY DEF PoolInv
<1>2. pc \in {"none", "idle", "search", "last", "system", "large", "coalesce", "destroy"}
  BY DEF PoolInv, CallInv, NoPool, Destroying, Between, InLast, InFree
<1>3. \A i \in DOMAIN cnt \ {"alloc", "inuse", "blk"} : cnt[i] \in 0 .. CntMod - 1
  BY <1>1 DEF Typed, CntTyped
<1>4. mem \in [Cell -> Int] /\ bkt \in [0 .. MaxIdx - 1 -> Cell \cup {NULL}]
      /\ cnt.alloc \in Nat /\ cnt.inuse \in Nat /\ cnt.blk \in Nat
  BY <1>1 DEF Typed, Memory
<1> QED
  BY <1>1, <1>2, <1>3, <1>4 DEF TypeOK

\* What a call in progress knows of the memory: all of it, but for the tag that
\* tl_pool_free has in hand.
LEMMA InvGood ==
  ASSUME PoolInv
  PROVE  \/ live = <<>> /\ pc \in {"none", "destroy"}
         \/ \E T, own, H, rk, lim : Good(mem, bkt, cnt, live, BlksOf(sys), T, own, H, rk, lim)
<1>1. CallInv
  BY DEF PoolInv
<1> DEFINE B == BlksOf(sys)
<1>2. NoPool \/ Destroying => live = <<>> /\ pc \in {"none", "destroy"}
  BY DEF NoPool, Destroying
<1>3. Between => Settled(mem, bkt, cnt, live, B)
  BY DEF Between
<1>4. InLast => \E T, own, rk, lim : Good(mem, bkt, cnt, live, B, T, own, {}, rk, lim)
  BY DEF InLast, Searching
<1>5. InFree => \E T, own, rk, lim : Good(mem, bkt, cnt, live, B, T, own, {loc.tag}, rk, lim)
  <2> SUFFICES ASSUME InFree PROVE \E T, own, rk, lim : Good(mem, bkt, cnt, live, B, T, own, {loc.tag}, rk, lim)
    OBVIOUS
  <2>1. PICK T, own, rk, lim : Hand(mem, bkt, cnt, live, B, T, own, rk, lim, loc.tag, loc.blk)
    BY DEF InFree, Freeing, HandLonely
  <2> QED
    BY <2>1 DEF Hand
<1> HIDE DEF B
<1>6. Settled(mem, bkt, cnt, live, B) => \E T, own, rk, lim : Good(mem, bkt, cnt, live, B, T, own, {}, rk, lim)
  BY DEF Settled
<1>7. \/ live = <<>> /\ pc \in {"none", "destroy"}
      \/ \E T, own, H, rk, lim : Good(mem, bkt, cnt, live, B, T, own, H, rk, lim)
  BY <1>1, <1>2, <1>3, <1>4, <1>5, <1>6 DEF CallInv
<1> QED
  BY <1>7 DEF B

LEMMA InvRegions == PoolInv => RegionsIntact
<1> SUFFICES ASSUME PoolInv PROVE RegionsIntact
  OBVIOUS
<1>1. CASE live = <<>>
  BY <1>1 DEF RegionsIntact
<1>2. CASE live # <<>>
  <2>1. PICK T, own, H, rk, lim : Good(mem, bkt, cnt, live, BlksOf(sys), T, own, H, rk, lim)
    BY <1>2, InvGood
  <2> DEFINE U == UsedIn(mem, T, H)
  <2>2. Held(mem, live, U)
    BY <2>1 DEF Good
  <2>3. U \subseteq Nat
    <3>1. T \subseteq Nat
      BY <2>1 DEF Good, Heaped, Shape
    <3> QED
      BY <3>1 DEF UsedIn
  <2> HIDE DEF U
  <2> SUFFICES ASSUME NEW a \in DOMAIN live, NEW x \in a .. a + live[a] - 1 PROVE mem[x] = Written(a)
    BY DEF RegionsIntact
  <2>4. PICK t \in U : a = t + 4
    BY <2>2 DEF Held
  <2>5. live[t + 4] \in Nat /\ \A z \in Int : t + 4 <= z /\ z < t + 4 + live[t + 4] => mem[z] = -1 - (t + 4)
    BY <2>2 DEF Held
  <2>6. x \in Int /\ t + 4 <= x /\ x < t + 4 + live[t + 4]
    BY <2>3, <2>4, <2>5
  <2> QED
    BY <2>4, <2>5, <2>6 DEF Written
<1> QED
  BY <1>1, <1>2

LEMMA InvDestroy == PoolInv => DestroyExact
<1> SUFFICES ASSUME PoolInv PROVE DestroyExact
  OBVIOUS
<1>1. ASSUME pc = "destroy" PROVE loc.tag \in sys /\ (loc.blk # BaseBlk => loc.blk \in sys \ {loc.tag})
  <2>1. Destroying
    BY <1>1 DEF PoolInv, CallInv, NoPool, Between, InLast, InFree
  <2>2. PICK rk : Line(mem, sys \ {loc.tag}, loc.blk, rk)
    BY <2>1 DEF Destroying
  <2>3. loc.blk # BaseBlk => loc.blk \in sys \ {loc.tag}
    BY <2>2 DEF Line
  <2> QED
    BY <2>1, <2>3 DEF Destroying
<1>2. ASSUME pc = "none" PROVE sys = {}
  BY <1>2 DEF PoolInv, CallInv, NoPool, Destroying, Between, InLast, InFree
<1> QED
  BY <1>1, <1>2 DEF DestroyExact

\* The words, the buckets and the counters keep their types, whatever is asked
\* for and freed in whatever order.
THEOREM PoolTypeOK == Spec => []TypeOK
BY PoolInvariant, InvTyped, PTL

\* No tl_assert fails.
THEOREM PoolNoAbort == Spec => []NoAbort
<1>1. PoolInv => NoAbort
  BY DEF PoolInv, NoAbort
<1> QED
  BY <1>1, PoolInvariant, PTL

\* No tag, footer or header is written over a region in use.
THEOREM PoolRegionsIntact == Spec => []RegionsIntact
BY PoolInvariant, InvRegions, PTL

\* tl_pool_destroy frees each region of the system once and reads none after.
THEOREM PoolDestroyExact == Spec => []DestroyExact
BY PoolInvariant, InvDestroy, PTL

-----------------------------------------------------------------------------
(* What is found by walking a block, a tag at the end of the one before. *)

WalkStep(m, e, f, a) ==
  IF a = e THEN {}
  ELSE IF a + 6 <= e /\ m[a + 2] >= 6 /\ a + m[a + 2] <= e THEN {a} \cup f[a + m[a + 2]] ELSE {-1}

WalkEq(m, s, e, f) ==
  f = [a \in s .. e |-> IF a = e THEN {}
                        ELSE IF a + 6 <= e /\ m[a + 2] >= 6 /\ a + m[a + 2] <= e
                             THEN {a} \cup f[a + m[a + 2]] ELSE {-1}]
Walk(m, s, e) == CHOOSE f : WalkEq(m, s, e, f)

\* f is the walk of the words from n on.
IsWalk(m, e, n, f) == \A a \in n .. e : f[a] = WalkStep(m, e, f, a)

Readable(m, s, e) == \A a \in Int : s <= a /\ a + 6 <= e => m[a + 2] \in Int

LEMMA WalkMore ==
  ASSUME NEW m, NEW e \in Int, NEW n \in Int, n < e, Readable(m, n, e), NEW g, IsWalk(m, e, n + 1, g)
  PROVE  \E f : IsWalk(m, e, n, f)
<1> DEFINE f == [a \in n .. e |-> IF a = n THEN WalkStep(m, e, g, a) ELSE g[a]]
<1>1. \A a \in n + 1 .. e : f[a] = g[a] /\ a \in n .. e
  OBVIOUS
<1>2. f[n] = WalkStep(m, e, g, n)
  OBVIOUS
<1> HIDE DEF f
<1>3. ASSUME NEW a \in n .. e PROVE WalkStep(m, e, f, a) = WalkStep(m, e, g, a)
  <2>1. CASE a = e
    BY <2>1 DEF WalkStep
  <2>2. CASE a # e /\ ~(a + 6 <= e /\ m[a + 2] >= 6 /\ a + m[a + 2] <= e)
    BY <2>2 DEF WalkStep
  <2>3. CASE a # e /\ a + 6 <= e /\ m[a + 2] >= 6 /\ a + m[a + 2] <= e
    <3> DEFINE y == a + m[a + 2]
    <3>1. m[a + 2] \in Int
      BY <2>3 DEF Readable
    <3>2. y \in n + 1 .. e
      BY <2>3, <3>1
    <3> HIDE DEF y
    <3>3. f[y] = g[y]
      BY <1>1, <3>2
    <3> QED
      BY <2>3, <3>3 DEF WalkStep, y
  <2> QED
    BY <2>1, <2>2, <2>3
<1>4. IsWalk(m, e, n, f)
  <2> SUFFICES ASSUME NEW a \in n .. e PROVE f[a] = WalkStep(m, e, f, a)
    BY DEF IsWalk
  <2>1. CASE a = n
    BY <1>2, <1>3, <2>1
  <2>2. CASE a # n
    <3>1. a \in n + 1 .. e
      BY <2>2
    <3>2. g[a] = WalkStep(m, e, g, a)
      BY <3>1 DEF IsWalk
    <3> QED
      BY <1>1, <1>3, <3>1, <3>2
  <2> QED
    BY <2>1, <2>2
<1> QED
  BY <1>4

LEMMA WalkExists ==
  ASSUME NEW m, NEW s \in Int, NEW e \in Int, s <= e, Readable(m, s, e)
  PROVE  WalkEq(m, s, e, Walk(m, s, e))
<1> DEFINE D == {k \in 0 .. e - s : \A f : ~IsWalk(m, e, e - k, f)}
<1>1. D = {}
  <2> SUFFICES ASSUME D # {} PROVE FALSE
    OBVIOUS
  <2>1. D \subseteq Nat
    OBVIOUS
  <2>2. PICK k \in D : \A j \in D : k <= j
    <3> HIDE DEF D
    <3> QED
      BY <2>1, LeastNat
  <2>3. k \in 0 .. e - s /\ \A f : ~IsWalk(m, e, e - k, f)
    OBVIOUS
  <2>4. CASE k = 0
    <3> DEFINE f == [a \in e .. e |-> {}]
    <3>1. \A a \in e .. e : a = e /\ f[a] = {}
      OBVIOUS
    <3>2. IsWalk(m, e, e, f)
      BY <3>1 DEF IsWalk, WalkStep
    <3> HIDE DEF f
    <3>3. e - k = e
      BY <2>4
    <3> QED
      BY <2>3, <3>2, <3>3
  <2>5. CASE k # 0
    <3>1. k - 1 \in 0 .. e - s /\ k - 1 \notin D
      BY <2>2, <2>3, <2>5
    <3>2. PICK g : IsWalk(m, e, e - (k - 1), g)
      BY <3>1
    <3> DEFINE n == e - k
    <3>3. n \in Int /\ n < e /\ e - (k - 1) = n + 1 /\ s <= n
      BY <2>3, <2>5
    <3> HIDE DEF n
    <3>4. Readable(m, n, e)
      BY <3>3 DEF Readable
    <3>5. IsWalk(m, e, n + 1, g)
      BY <3>2, <3>3
    <3>6. \E f : IsWalk(m, e, n, f)
      BY <3>3, <3>4, <3>5, WalkMore
    <3> QED
      BY <2>3, <3>6 DEF n
  <2> QED
    BY <2>4, <2>5
<1>2. PICK g : IsWalk(m, e, s, g)
  <2>1. e - s \in 0 .. e - s /\ e - s \notin D
    BY <1>1
  <2>2. e - (e - s) = s
    OBVIOUS
  <2>3. \E f : IsWalk(m, e, e - (e - s), f)
    BY <2>1
  <2> QED
    BY <2>2, <2>3
<1> DEFINE f == [a \in s .. e |-> g[a]]
<1>3. \A a \in s .. e : f[a] = g[a]
  OBVIOUS
<1> HIDE DEF f
<1>4. ASSUME NEW a \in s .. e PROVE WalkStep(m, e, g, a) = WalkStep(m, e, f, a)
  <2>1. CASE a = e
    BY <2>1 DEF WalkStep
  <2>2. CASE a # e /\ ~(a + 6 <= e /\ m[a + 2] >= 6 /\ a + m[a + 2] <= e)
    BY <2>2 DEF WalkStep
  <2>3. CASE a # e /\ a + 6 <= e /\ m[a + 2] >= 6 /\ a + m[a + 2] <= e
    <3> DEFINE y == a + m[a + 2]
    <3>1. m[a + 2] \in Int
      BY <2>3 DEF Readable
    <3>2. y \in s .. e
      BY <2>3, <3>1
    <3> HIDE DEF y
    <3>3. f[y] = g[y]
      BY <1>3, <3>2
    <3> QED
      BY <2>3, <3>3 DEF WalkStep, y
  <2> QED
    BY <2>1, <2>2, <2>3
<1>5. \A a \in s .. e : g[a] = WalkStep(m, e, f, a)
  BY <1>2, <1>4 DEF IsWalk
<1>6. f = [a \in s .. e |-> WalkStep(m, e, f, a)]
  <2>1. f = [a \in s .. e |-> g[a]]
    BY DEF f
  <2> QED
    BY <1>5, <2>1
<1>7. WalkEq(m, s, e, f)
  BY <1>6 DEF WalkEq, WalkStep
<1>8. \E h : WalkEq(m, s, e, h)
  BY <1>7
<1> QED
  BY <1>8 DEF Walk

\* The tags of the block b.
InBlock(T, own, b) == {t \in T : own[t] = b}

LEMMA WalkTiles ==
  ASSUME NEW m \in Memory, NEW B, NEW T, NEW own, Shape(m, B, T, own), NEW b \in B
  PROVE  Walk(m, b + 3, b + m[b + 2])[b + 3] = InBlock(T, own, b)
<1> DEFINE s == b + 3
           e == b + m[b + 2]
           W == Walk(m, s, e)
           S == InBlock(T, own, b)
           From(a) == {t \in S : a <= t}
<1>1. /\ T \subseteq Nat /\ B \subseteq BlockSet /\ own \in [T -> B]
      /\ m[b + 2] \in Nat /\ m[b + 2] <= Room(b) /\ b + 3 \in T /\ own[b + 3] = b
      /\ \A t \in T : m[t + 2] \in Nat /\ 6 <= m[t + 2]
      /\ \A t \in T : own[t] + 3 <= t /\ t + m[t + 2] <= own[t] + m[own[t] + 2]
      /\ \A t \in T : t + m[t + 2] # own[t] + m[own[t] + 2]
                        => t + m[t + 2] \in T /\ own[t + m[t + 2]] = own[t]
      /\ \A t, u \in T : t # u => t + m[t + 2] <= u \/ u + m[u + 2] <= t
  BY DEF Shape
<1>2. b \in Nat /\ Room(b) \in Nat /\ \A c \in Int : b <= c /\ c < b + Room(b) => c \in Cell
  BY <1>1, Rooms
<1>3. s \in Nat /\ e \in Nat /\ s <= e
  <2>1. 6 <= m[s + 2] /\ s + m[s + 2] <= e /\ m[s + 2] \in Nat
    BY <1>1
  <2> QED
    BY <1>1, <1>2, <2>1
<1>4. Readable(m, s, e)
  <2> SUFFICES ASSUME NEW a \in Int, s <= a, a + 6 <= e PROVE m[a + 2] \in Int
    BY DEF Readable
  <2>1. a + 2 \in Int /\ b <= a + 2 /\ a + 2 < b + Room(b)
    BY <1>1, <1>2
  <2> QED
    BY <1>2, <2>1 DEF Memory
<1>5. \A t \in S : /\ t \in T /\ t \in Nat /\ m[t + 2] \in Nat /\ 6 <= m[t + 2] /\ s <= t /\ t + m[t + 2] <= e
                   /\ t + m[t + 2] = e \/ t + m[t + 2] \in S
                   /\ \A u \in S : t # u => t + m[t + 2] <= u \/ u + m[u + 2] <= t
  BY <1>1 DEF InBlock
<1>6. s \in S
  BY <1>1 DEF InBlock
<1> HIDE DEF s, e, S, W
<1>7. WalkEq(m, s, e, W)
  <2>1. s \in Int /\ e \in Int
    BY <1>3
  <2> QED
    BY <1>3, <1>4, <2>1, WalkExists DEF W
<1>8. \A a \in s .. e : W[a] = IF a = e THEN {}
                               ELSE IF a + 6 <= e /\ m[a + 2] >= 6 /\ a + m[a + 2] <= e
                                    THEN {a} \cup W[a + m[a + 2]] ELSE {-1}
  BY <1>7 DEF WalkEq
<1> DEFINE D == {d \in Nat : \E a \in s .. e : e - a = d /\ (a = e \/ a \in S) /\ W[a] # From(a)}
<1>9. D = {}
  <2> SUFFICES ASSUME D # {} PROVE FALSE
    OBVIOUS
  <2>1. D \subseteq Nat
    OBVIOUS
  <2>2. PICK d \in D : \A j \in D : d <= j
    <3> HIDE DEF D
    <3> QED
      BY <2>1, LeastNat
  <2>3. PICK a \in s .. e : e - a = d /\ (a = e \/ a \in S) /\ W[a] # From(a)
    OBVIOUS
  <2>4. CASE a = e
    <3>1. W[a] = {}
      BY <1>8, <2>4
    <3>2. From(a) = {}
      BY <1>3, <1>5, <2>4
    <3> QED
      BY <2>3, <3>1, <3>2
  <2>5. CASE a \in S /\ a # e
    <3> DEFINE y == a + m[a + 2]
    <3>1. y \in s .. e /\ a < y /\ (y = e \/ y \in S) /\ a \in Nat /\ y <= e /\ a + 6 <= e /\ m[a + 2] >= 6
      BY <1>3, <1>5, <2>5
    <3>2. W[a] = {a} \cup W[y]
      BY <1>8, <2>5, <3>1
    <3>3. From(a) = {a} \cup From(y)
      <4>1. \A t \in S : t # a => (a <= t <=> y <= t)
        <5> SUFFICES ASSUME NEW t \in S, t # a PROVE a <= t <=> y <= t
          OBVIOUS
        <5>1. t \in Nat /\ m[t + 2] \in Nat /\ 6 <= m[t + 2] /\ (y <= t \/ t + m[t + 2] <= a)
          BY <1>5, <2>5
        <5> HIDE DEF y
        <5> QED
          BY <3>1, <5>1
      <4>2. ~(y <= a) /\ a <= a
        BY <3>1
      <4> HIDE DEF y
      <4> QED
        BY <2>5, <4>1, <4>2
    <3>4. e - y \in Nat /\ ~(d <= e - y)
      <4> HIDE DEF y
      <4> QED
        BY <1>3, <2>3, <3>1
    <3>5. W[y] = From(y)
      <4>1. e - y \notin D
        BY <2>2, <3>4
      <4> HIDE DEF y
      <4> QED
        BY <3>1, <3>4, <4>1
    <3> QED
      BY <2>3, <3>2, <3>3, <3>5
  <2> QED
    BY <2>3, <2>4, <2>5
<1>10. W[s] = From(s)
  <2>1. s \in s .. e /\ e - s \in Nat
    BY <1>3
  <2> QED
    BY <1>6, <1>9, <2>1
<1>11. From(s) = S
  BY <1>5
<1> QED
  BY <1>10, <1>11 DEF W, s, e, S

LEMMA TagsOfIs ==
  ASSUME NEW B, NEW T, NEW own, mem \in Memory, Shape(mem, B, T, own), NEW b \in B
  PROVE  TagsOf(b) = InBlock(T, own, b)
<1>1. TagsOf(b) = Walk(mem, b + 3, b + mem[b + 2])[b + 3]
  BY DEF TagsOf, Walk, WalkEq, BlockEnd, TagEnd, BlkS, bsize, size, ThreshS, HeadS, TailS, Junk
<1> DEFINE m == mem
<1>2. m \in Memory /\ Shape(m, B, T, own)
  OBVIOUS
<1> HIDE DEF m
<1>3. Walk(m, b + 3, b + m[b + 2])[b + 3] = InBlock(T, own, b)
  BY <1>2, WalkTiles
<1> QED
  BY <1>1, <1>3 DEF m

\* Between calls the tags that are found by walking the blocks are the tags.
LEMMA TagsAre ==
  ASSUME NEW T, NEW own, NEW rk, NEW lim,
         Good(mem, bkt, cnt, live, BlksOf(sys), T, own, {}, rk, lim)
  PROVE  /\ Blocks = BlksOf(sys) /\ mem \in Memory /\ Shape(mem, Blocks, T, own)
         /\ \A b \in Blocks : TagsOf(b) = InBlock(T, own, b)
         /\ Tags = T /\ UsedTags = UsedIn(mem, T, {}) /\ FreeTags = FreeIn(mem, T, {})
         /\ \A t \in T : Marked(mem, own, t)
<1>1. Blocks = BlksOf(sys)
  BY DEF Blocks, BlksOf
<1>2. Heaped(mem, bkt, BlksOf(sys), T, own, {}, rk, lim)
  BY DEF Good
<1>3. mem \in Memory /\ Shape(mem, Blocks, T, own) /\ \A t \in T : Marked(mem, own, t)
  BY <1>1, <1>2 DEF Heaped
<1>4. \A b \in Blocks : TagsOf(b) = InBlock(T, own, b)
  BY <1>3, TagsOfIs
<1>5. Tags = T
  <2>1. \A t \in T : own[t] \in Blocks
    BY <1>3 DEF Shape
  <2> HIDE DEF Blocks
  <2>2. \A t : t \in Tags <=> \E b \in Blocks : t \in TagsOf(b)
    BY DEF Tags
  <2>3. \A t : t \in T <=> \E b \in Blocks : t \in InBlock(T, own, b)
    BY <2>1 DEF InBlock
  <2> QED
    BY <1>4, <2>2, <2>3
<1>6. \A t \in T : mem[t] \in {0, 1}
  BY <1>3 DEF Marked
<1>7. UsedTags = UsedIn(mem, T, {})
  BY <1>5 DEF UsedTags, Used, use, UsedIn
<1>8. FreeTags = FreeIn(mem, T, {})
  <2>1. \A t \in T : mem[t] # 1 <=> mem[t] = 0
    BY <1>6
  <2> QED
    BY <1>5, <2>1 DEF FreeTags, Used, use, FreeIn
<1> QED
  BY <1>1, <1>3, <1>4, <1>5, <1>7, <1>8

LEMMA IdleGood ==
  ASSUME PoolInv, pc = "idle"
  PROVE  \E T, own, rk, lim : /\ Good(mem, bkt, cnt, live, BlksOf(sys), T, own, {}, rk, lim)
                              /\ KeptBut(mem, BlksOf(sys), T, own, {}, BaseBlk)
<1>1. Between
  BY DEF PoolInv, CallInv, NoPool, Destroying, InLast, InFree
<1> QED
  BY <1>1 DEF Between, Settled

LEMMA InvBlocks == PoolInv => BlocksWellFormed
<1> SUFFICES ASSUME PoolInv PROVE BlocksWellFormed
  OBVIOUS
<1>1. TypeOK /\ NoAbort
  BY InvTyped DEF PoolInv, NoAbort
<1>2. CASE ~Idle
  BY <1>1, <1>2 DEF BlocksWellFormed
<1>3. CASE Idle
  <2>1. PICK T, own, rk, lim : Good(mem, bkt, cnt, live, BlksOf(sys), T, own, {}, rk, lim)
    BY <1>3, IdleGood DEF Idle
  <2>2. /\ mem \in Memory /\ Shape(mem, Blocks, T, own)
        /\ \A b \in Blocks : TagsOf(b) = InBlock(T, own, b)
        /\ Tags = T /\ FreeTags = FreeIn(mem, T, {})
        /\ \A t \in T : Marked(mem, own, t)
    BY <2>1, TagsAre
  <2>3. T \subseteq Nat /\ \A t \in T : mem[t + 2] \in Nat
    BY <2>2 DEF Shape
  <2>4. DOMAIN live = {t + 4 : t \in UsedIn(mem, T, {})} /\ Separate(mem, FreeIn(mem, T, {}))
    BY <2>1 DEF Good, Held
  <2>5. ASSUME NEW b \in Blocks, NEW t \in TagsOf(b)
        PROVE  /\ FootOK(mem, t)
               /\ IF Used(t) THEN mem[h_blk(t)] = b /\ t + HeadS \in DOMAIN live
                  ELSE mem[use(t)] = 0 /\ mem[t_blk(foot(mem, t))] = b
    <3>1. t \in T /\ own[t] = b /\ t \in Nat /\ mem[t + 2] \in Nat
      BY <2>2, <2>3, <2>5 DEF InBlock
    <3>2. /\ mem[t] \in {0, 1} /\ mem[t + mem[t + 2] - 1] = t
          /\ mem[t] = 1 => mem[t + 3] = b
          /\ mem[t] = 0 => mem[t + mem[t + 2] - 2] = b
      BY <2>2, <3>1 DEF Marked
    <3>3. mem[t] = 1 => t + 4 \in DOMAIN live
      BY <2>4, <3>1 DEF UsedIn
    <3>4. t + mem[t + 2] - 2 + 1 = t + mem[t + 2] - 1
      BY <3>1
    <3>5. FootOK(mem, t)
      BY <3>2, <3>4 DEF FootOK, foot, ref, size, TailS
    <3>6. Used(t) => mem[h_blk(t)] = b /\ t + HeadS \in DOMAIN live
      BY <3>2, <3>3 DEF Used, use, h_blk, HeadS
    <3>7. ~Used(t) => mem[use(t)] = 0 /\ mem[t_blk(foot(mem, t))] = b
      BY <3>2 DEF Used, use, t_blk, foot, size, TailS
    <3> QED
      BY <3>5, <3>6, <3>7
  <2>6. ASSUME NEW b \in Blocks PROVE Junk \notin TagsOf(b)
    BY <2>2, <2>3 DEF InBlock, Junk
  <2>7. ASSUME NEW a \in DOMAIN live PROVE a - HeadS \in Tags
    <3>1. PICK t \in T : a = t + 4
      BY <2>4 DEF UsedIn
    <3>2. a - 4 = t
      BY <2>3, <3>1
    <3> QED
      BY <2>2, <3>1, <3>2 DEF HeadS
  <2>8. \A t \in FreeTags : TagEnd(t) \notin FreeTags
    BY <2>2, <2>4 DEF Separate, TagEnd, size
  <2> QED
    BY <1>1, <2>5, <2>6, <2>7, <2>8 DEF BlocksWellFormed
<1> QED
  BY <1>2, <1>3

(* Between calls the tags tile the blocks, headers and footers name them and their
   block, the used ones are the caller's regions and no two free ones touch. *)
THEOREM PoolBlocksWellFormed == Spec => []BlocksWellFormed
BY PoolInvariant, InvBlocks, PTL

-----------------------------------------------------------------------------
(* The tags of a bucket as Bucket finds them: m[t + 3] is the next. *)

ChainRow(m, head, n, g) ==
  [t \in Cell |-> IF n = 0 THEN {-1} ELSE IF m[t + 3] = head THEN {t} ELSE {t} \cup g[m[t + 3]]]

ChainEq(m, head, K, f) ==
  f = [n \in 0 .. K |-> [t \in Cell |-> IF n = 0 THEN {-1}
                                        ELSE IF m[t + 3] = head THEN {t} ELSE {t} \cup f[n - 1][m[t + 3]]]]
Chain(m, head, K) == CHOOSE f : ChainEq(m, head, K, f)

IsChain(m, head, n, f) == \A j \in 0 .. n : f[j] = ChainRow(m, head, j, f[j - 1])

LEMMA ChainMore ==
  ASSUME NEW m, NEW head, NEW n \in Nat \ {0}, NEW g, IsChain(m, head, n - 1, g)
  PROVE  \E f : IsChain(m, head, n, f)
<1> DEFINE f == [j \in 0 .. n |-> IF j = n THEN ChainRow(m, head, n, g[n - 1]) ELSE g[j]]
<1>1. \A j \in 0 .. n - 1 : f[j] = g[j]
  OBVIOUS
<1>2. f[n] = ChainRow(m, head, n, g[n - 1])
  OBVIOUS
<1> HIDE DEF f
<1>3. ASSUME NEW j \in 0 .. n PROVE f[j] = ChainRow(m, head, j, f[j - 1])
  <2>1. CASE j = n
    <3>1. f[n - 1] = g[n - 1]
      BY <1>1
    <3> QED
      BY <1>2, <2>1, <3>1
  <2>2. CASE j # n
    <3>1. j \in 0 .. n - 1
      BY <2>2
    <3>2. f[j] = ChainRow(m, head, j, g[j - 1])
      BY <1>1, <3>1 DEF IsChain
    <3>3. CASE j = 0
      BY <3>2, <3>3 DEF ChainRow
    <3>4. CASE j # 0
      <4>1. j - 1 \in 0 .. n - 1
        BY <3>1, <3>4
      <4>2. f[j - 1] = g[j - 1]
        BY <1>1, <4>1
      <4> QED
        BY <3>2, <4>2
    <3> QED
      BY <3>3, <3>4
  <2> QED
    BY <2>1, <2>2
<1> QED
  BY <1>3 DEF IsChain

LEMMA ChainExists ==
  ASSUME NEW m, NEW head, NEW K \in Nat
  PROVE  ChainEq(m, head, K, Chain(m, head, K))
<1> DEFINE D == {n \in Nat : \A f : ~IsChain(m, head, n, f)}
<1>1. D = {}
  <2> SUFFICES ASSUME D # {} PROVE FALSE
    OBVIOUS
  <2>1. D \subseteq Nat
    OBVIOUS
  <2>2. PICK n \in D : \A j \in D : n <= j
    <3> HIDE DEF D
    <3> QED
      BY <2>1, LeastNat
  <2>3. n \in Nat /\ \A f : ~IsChain(m, head, n, f)
    OBVIOUS
  <2>4. CASE n = 0
    <3> DEFINE f == [j \in 0 .. 0 |-> ChainRow(m, head, 0, {})]
    <3>1. f[0] = ChainRow(m, head, 0, {})
      OBVIOUS
    <3> HIDE DEF f
    <3>2. f[0] = ChainRow(m, head, 0, f[0 - 1])
      BY <3>1 DEF ChainRow
    <3>3. \A j \in 0 .. 0 : j = 0
      OBVIOUS
    <3>4. IsChain(m, head, 0, f)
      BY <3>2, <3>3 DEF IsChain
    <3> QED
      BY <2>3, <2>4, <3>4
  <2>5. CASE n # 0
    <3>1. n - 1 \in Nat /\ ~(n <= n - 1) /\ n \in Nat \ {0}
      BY <2>3, <2>5
    <3>2. n - 1 \notin D
      BY <2>2, <3>1
    <3>3. PICK g : IsChain(m, head, n - 1, g)
      BY <3>1, <3>2
    <3>4. \E f : IsChain(m, head, n, f)
      BY <3>1, <3>3, ChainMore
    <3> QED
      BY <2>3, <3>4
  <2> QED
    BY <2>4, <2>5
<1>2. PICK g : IsChain(m, head, K, g)
  BY <1>1
<1> DEFINE f == [n \in 0 .. K |-> g[n]]
<1>3. \A n \in 0 .. K : f[n] = g[n]
  OBVIOUS
<1>4. f = [n \in 0 .. K |-> f[n]]
  OBVIOUS
<1> HIDE DEF f
<1>5. ASSUME NEW n \in 0 .. K PROVE f[n] = ChainRow(m, head, n, f[n - 1])
  <2>1. f[n] = ChainRow(m, head, n, g[n - 1])
    BY <1>2, <1>3 DEF IsChain
  <2>2. CASE n = 0
    BY <2>1, <2>2 DEF ChainRow
  <2>3. CASE n # 0
    <3>1. n - 1 \in 0 .. K
      BY <2>3
    <3>2. f[n - 1] = g[n - 1]
      BY <1>3, <3>1
    <3> QED
      BY <2>1, <3>2
  <2> QED
    BY <2>2, <2>3
<1>6. f = [n \in 0 .. K |-> ChainRow(m, head, n, f[n - 1])]
  BY <1>4, <1>5
<1>7. ChainEq(m, head, K, f)
  BY <1>6 DEF ChainEq, ChainRow
<1>8. \E h : ChainEq(m, head, K, h)
  BY <1>7
<1> QED
  BY <1>8 DEF Chain

\* Those of the ring from t on are found in as many steps.
UpTo(F, rk, t)  == {x \in F : rk[x] <= rk[t]}
Later(F, rk, t) == {x \in F : rk[x] < rk[t]}

LEMMA ChainTo ==
  ASSUME NEW m, NEW F, F \subseteq Cell, NEW head \in Cell, NEW rk, Ring(m, F, head, 1, 3, rk), NEW K \in Nat
  PROVE  \A n \in 0 .. K : \A t \in F :
           Cardinality(Later(F, rk, t)) < n => Chain(m, head, K)[n][t] = UpTo(F, rk, t)
<1> DEFINE f == Chain(m, head, K)
           L(t) == Cardinality(Later(F, rk, t))
<1>1. ChainEq(m, head, K, f)
  BY ChainExists
<1>2. \A x \in F : /\ m[x + 3] \in F /\ rk[x] \in Nat /\ rk[x] <= rk[head]
                   /\ m[x + 3] = head \/ rk[m[x + 3]] < rk[x]
  BY DEF Ring
<1>3. /\ \A x, y \in F : rk[y] < rk[x] => rk[y] <= rk[m[x + 3]] /\ rk[m[x + 3]] < rk[x]
      /\ \A x, y \in F : rk[y] = rk[x] => y = x
  BY DEF Ring
<1>4. \A t \in F : IsFiniteSet(Later(F, rk, t)) /\ L(t) \in Nat
  <2> SUFFICES ASSUME NEW t \in F PROVE IsFiniteSet(Later(F, rk, t)) /\ L(t) \in Nat
    OBVIOUS
  <2>1. Later(F, rk, t) \subseteq Cell
    BY DEF Later
  <2>2. IsFiniteSet(Later(F, rk, t))
    BY <2>1, CellFinite, FS_Subset
  <2> QED
    BY <2>2, FS_CardinalityType
<1> HIDE DEF f
<1>5. \A n \in 0 .. K : n # 0 => \A t \in Cell : f[n][t] = IF m[t + 3] = head THEN {t} ELSE {t} \cup f[n - 1][m[t + 3]]
  <2> SUFFICES ASSUME NEW n \in 0 .. K, n # 0, NEW t \in Cell
               PROVE  f[n][t] = IF m[t + 3] = head THEN {t} ELSE {t} \cup f[n - 1][m[t + 3]]
    OBVIOUS
  <2>1. f[n] = [x \in Cell |-> IF n = 0 THEN {-1}
                               ELSE IF m[x + 3] = head THEN {x} ELSE {x} \cup f[n - 1][m[x + 3]]]
    BY <1>1, Zenon DEF ChainEq
  <2> QED
    BY <2>1
<1> DEFINE D == {n \in 0 .. K : \E t \in F : L(t) < n /\ f[n][t] # UpTo(F, rk, t)}
<1>6. D = {}
  <2> SUFFICES ASSUME D # {} PROVE FALSE
    OBVIOUS
  <2>1. D \subseteq Nat
    OBVIOUS
  <2>2. PICK n \in D : \A j \in D : n <= j
    <3> HIDE DEF D
    <3> QED
      BY <2>1, LeastNat
  <2>3. PICK t \in F : L(t) < n /\ f[n][t] # UpTo(F, rk, t)
    OBVIOUS
  <2>4. n \in 0 .. K /\ n # 0 /\ n - 1 \in 0 .. K /\ ~(n <= n - 1) /\ n - 1 \notin D
    <3>1. n \in 0 .. K /\ n # 0
      <4>1. L(t) \in Nat /\ L(t) < n /\ n \in 0 .. K
        BY <1>4, <2>3
      <4> HIDE DEF L
      <4> QED
        BY <4>1
    <3>2. n - 1 \in 0 .. K /\ ~(n <= n - 1)
      BY <3>1
    <3> QED
      BY <2>2, <3>1, <3>2
  <2> DEFINE u == m[t + 3]
  <2>5. f[n][t] = IF u = head THEN {t} ELSE {t} \cup f[n - 1][u]
    <3>1. t \in Cell
      OBVIOUS
    <3> QED
      BY <1>5, <2>4, <3>1
  <2>6. /\ u \in F /\ rk[t] \in Nat /\ rk[u] \in Nat /\ rk[t] <= rk[head] /\ rk[head] \in Nat
        /\ u = head \/ rk[u] < rk[t]
        /\ \A y \in F : rk[y] \in Nat /\ (rk[y] < rk[t] => rk[y] <= rk[u] /\ rk[u] < rk[t])
        /\ \A y \in F : rk[y] = rk[t] => y = t
    <3>1. head \in F
      BY DEF Ring
    <3> QED
      BY <1>2, <1>3, <3>1
  <2> HIDE DEF u, D, L
  <2>7. CASE u = head
    <3>1. \A y \in F : rk[y] <= rk[t] <=> y = t
      BY <2>6, <2>7
    <3>2. UpTo(F, rk, t) = {t}
      BY <3>1 DEF UpTo
    <3> QED
      BY <2>3, <2>5, <2>7, <3>2
  <2>8. CASE u # head
    <3>1. \A y \in F : rk[y] <= rk[t] <=> (y = t \/ rk[y] <= rk[u])
      BY <2>6, <2>8
    <3>2. UpTo(F, rk, t) = {t} \cup UpTo(F, rk, u)
      BY <3>1 DEF UpTo
    <3>3. L(u) + 1 <= L(t)
      <4>1. u \in Later(F, rk, t)
        BY <2>6, <2>8 DEF Later
      <4>2. Later(F, rk, u) \subseteq Later(F, rk, t) \ {u}
        BY <2>6, <2>8 DEF Later
      <4>3. IsFiniteSet(Later(F, rk, t))
        BY <1>4
      <4> DEFINE R == Later(F, rk, t)
                 S == Later(F, rk, u)
      <4>4. IsFiniteSet(R) /\ u \in R /\ S \subseteq R \ {u}
        BY <4>1, <4>2, <4>3
      <4> HIDE DEF R, S
      <4>5. Cardinality(S) + 1 <= Cardinality(R)
        BY <4>4, OneMore
      <4> QED
        BY <4>5 DEF R, S, L
    <3>4. L(u) < n - 1
      <4>1. L(u) \in Nat /\ L(t) \in Nat /\ L(t) < n
        BY <1>4, <2>3, <2>6 DEF L
      <4> QED
        BY <2>4, <3>3, <4>1
    <3>5. f[n - 1][u] = UpTo(F, rk, u)
      BY <2>4, <2>6, <3>4 DEF D
    <3> QED
      BY <2>3, <2>5, <2>8, <3>2, <3>5
  <2> QED
    BY <2>7, <2>8
<1> QED
  BY <1>6 DEF f

\* The whole ring is found.
LEMMA ChainIs ==
  ASSUME NEW m, NEW F, F \subseteq Cell, NEW head \in Cell, NEW rk, Ring(m, F, head, 1, 3, rk)
  PROVE  Chain(m, head, Cardinality(Cell))[Cardinality(Cell)][head] = F
<1> DEFINE K == Cardinality(Cell)
<1>1. K \in Nat
  BY CellFinite, FS_CardinalityType
<1>2. head \in F /\ \A x \in F : rk[x] \in Nat /\ rk[x] <= rk[head]
  <2>1. NULL \notin Cell
    BY Rooms
  <2> QED
    BY <2>1 DEF Ring
<1>3. Later(F, rk, head) \subseteq Cell \ {head}
  BY <1>2 DEF Later
<1>4. Cardinality(Later(F, rk, head)) < K
  <2> DEFINE S == Later(F, rk, head)
             R == Cell
  <2>1. IsFiniteSet(R) /\ head \in R /\ S \subseteq R \ {head}
    BY <1>3, CellFinite
  <2> HIDE DEF S, R
  <2>2. Cardinality(S) \in Nat /\ Cardinality(R) \in Nat /\ Cardinality(S) + 1 <= Cardinality(R)
    BY <2>1, OneMore
  <2>3. Cardinality(S) < Cardinality(R)
    BY <2>2
  <2> QED
    BY <2>3 DEF S, R
<1> HIDE DEF K
<1>5. K \in 0 .. K
  BY <1>1
<1>6. Chain(m, head, K)[K][head] = UpTo(F, rk, head)
  <2>1. \A n \in 0 .. K : \A t \in F :
          Cardinality(Later(F, rk, t)) < n => Chain(m, head, K)[n][t] = UpTo(F, rk, t)
    BY <1>1, ChainTo
  <2> QED
    BY <1>2, <1>4, <1>5, <2>1, Zenon
<1>7. UpTo(F, rk, head) = F
  BY <1>2 DEF UpTo
<1> QED
  BY <1>6, <1>7 DEF K

LEMMA BucketIs ==
  ASSUME NEW T, NEW own, NEW rk, NEW lim, NEW B,
         Good(mem, bkt, cnt, live, B, T, own, {}, rk, lim), NEW i \in 0 .. MaxIdx - 1
  PROVE  Bucket(i) = ClassOf(mem, FreeIn(mem, T, {}), i)
<1> DEFINE m == mem
           k == bkt
           C == ClassOf(m, FreeIn(m, T, {}), i)
<1>1. Bucket(i) = IF k[i] = NULL THEN {} ELSE Chain(m, k[i], Cardinality(Cell))[Cardinality(Cell)][k[i]]
  BY Zenon DEF Bucket, Chain, ChainEq, suc, Junk
<1>2. Good(m, k, cnt, live, B, T, own, {}, rk, lim) /\ C = ClassOf(m, FreeIn(m, T, {}), i)
  OBVIOUS
<1> HIDE DEF m, k, C
<1>3. Ring(m, C, k[i], 1, 3, rk) /\ \A t \in C : t \in FreeIn(m, T, {})
  BY <1>2, ClassIs
<1>4. Shape(m, B, T, own)
  BY <1>2 DEF Good, Heaped
<1>5. C \subseteq Cell
  <2>1. \A t \in T : t \in Cell
    BY <1>4, TagsIn
  <2> QED
    BY <1>3, <2>1 DEF FreeIn
<1>6. CASE k[i] = NULL
  <2>1. C = {}
    BY <1>3, <1>6 DEF Ring
  <2> QED
    BY <1>1, <1>6, <2>1 DEF C, m
<1>7. CASE k[i] # NULL
  <2>1. k[i] \in C
    BY <1>3, <1>7 DEF Ring
  <2> DEFINE h == k[i]
  <2>2. h \in Cell /\ Ring(m, C, h, 1, 3, rk)
    BY <1>3, <1>5, <2>1
  <2> HIDE DEF h
  <2>3. Chain(m, h, Cardinality(Cell))[Cardinality(Cell)][h] = C
    BY <1>5, <2>2, ChainIs
  <2>4. Bucket(i) = C
    BY <1>1, <1>7, <2>3 DEF h
  <2> QED
    BY <2>4 DEF C, m
<1> QED
  BY <1>6, <1>7

LEMMA InvBuckets == PoolInv => BucketsExact
<1> SUFFICES ASSUME PoolInv, pc = "idle" PROVE BucketsExact
  BY DEF BucketsExact, Idle
<1>1. PICK T, own, rk, lim : Good(mem, bkt, cnt, live, BlksOf(sys), T, own, {}, rk, lim)
  BY IdleGood
<1> DEFINE F == FreeIn(mem, T, {})
<1>2. Tags = T /\ FreeTags = F
  BY <1>1, TagsAre
<1>3. Listed(mem, bkt, F, rk)
  BY <1>1 DEF Good, Heaped
<1>4. DOMAIN bkt = 0 .. MaxIdx - 1
  BY <1>3 DEF Listed
<1>5. \A i \in 0 .. MaxIdx - 1 : Bucket(i) = ClassOf(mem, F, i)
  BY <1>1, BucketIs
<1>6. \A i \in 0 .. MaxIdx - 1 : Ring(mem, ClassOf(mem, F, i), bkt[i], 1, 3, rk)
  BY <1>3 DEF Listed
<1>7. \A t \in F : Size2Idx(mem[t + 2]) \in 0 .. MaxIdx - 1
  BY <1>3 DEF Listed
<1> HIDE DEF F
<1>8. ASSUME NEW i \in 0 .. MaxIdx - 1
      PROVE  /\ Bucket(i) = {t \in FreeTags : Size2Idx(mem[size(t)]) = i}
             /\ \A t \in Bucket(i) : mem[suc(mem[pre(t)])] = t /\ mem[pre(mem[suc(t)])] = t
  <2> DEFINE C == ClassOf(mem, F, i)
  <2>1. Bucket(i) = C /\ Ring(mem, C, bkt[i], 1, 3, rk)
    BY <1>5, <1>6
  <2>2. C = {t \in FreeTags : Size2Idx(mem[size(t)]) = i}
    BY <1>2 DEF ClassOf, size
  <2> HIDE DEF C
  <2>3. \A x \in C : mem[mem[x + 3] + 1] = x /\ mem[mem[x + 1] + 3] = x
    BY <2>1 DEF Ring
  <2> QED
    BY <2>1, <2>2, <2>3 DEF suc, pre
<1>9. \A t \in FreeTags : Size2Idx(mem[size(t)]) < MaxIdx
  <2>1. MaxIdx \in Nat
    BY SizesAssumption
  <2> QED
    BY <1>2, <1>7, <2>1 DEF size
<1> QED
  BY <1>4, <1>8, <1>9 DEF BucketsExact

(* Between calls every bucket is a ring of the free tags of its size: none is
   lost, none is listed twice or in another bucket. *)
THEOREM PoolBucketsExact == Spec => []BucketsExact
BY PoolInvariant, InvBuckets, PTL

LEMMA InvLoops == PoolInv => LoopsBounded
<1> SUFFICES ASSUME PoolInv PROVE LoopsBounded
  OBVIOUS
<1>1. ASSUME pc = "coalesce" PROVE loc.steps <= 1
  <2>1. InFree
    BY <1>1 DEF PoolInv, CallInv, NoPool, Destroying, Between, InLast
  <2>2. loc.steps = 0 \/ loc.steps = 1
    BY <2>1 DEF InFree, Freeing
  <2> QED
    BY <2>2
<1>2. ASSUME pc = "last" PROVE loc.steps < Cardinality(Bucket(MaxIdx - 1))
  <2>1. InLast
    BY <1>2 DEF PoolInv, CallInv, NoPool, Destroying, Between, InFree
  <2>2. PICK T, own, rk, lim :
          /\ Good(mem, bkt, cnt, live, BlksOf(sys), T, own, {}, rk, lim)
          /\ LastIn(ClassOf(mem, FreeIn(mem, T, {}), MaxIdx - 1), bkt[MaxIdx - 1], loc, rk)
    BY <2>1 DEF InLast, Searching
  <2>3. MaxIdx - 1 \in 0 .. MaxIdx - 1
    BY SizesAssumption
  <2> DEFINE C == ClassOf(mem, FreeIn(mem, T, {}), MaxIdx - 1)
  <2>4. Bucket(MaxIdx - 1) = C
    BY <2>2, <2>3, BucketIs
  <2>5. IsFiniteSet(C)
    BY <2>2, <2>3, ClassIs
  <2>6. LastIn(C, bkt[MaxIdx - 1], loc, rk)
    BY <2>2
  <2> HIDE DEF C
  <2>7. Cardinality(C) \in Nat /\ loc.steps \in Nat /\ loc.steps + 1 <= Cardinality(C)
    BY <2>5, <2>6, FS_CardinalityType DEF LastIn
  <2>8. loc.steps < Cardinality(C)
    BY <2>7
  <2> QED
    BY <2>4, <2>8
<1>3. ASSUME pc = "destroy" PROVE loc.steps <= Cardinality(Slots)
  <2>1. Destroying /\ sys \subseteq Slots \cup {Base}
    BY <1>3 DEF PoolInv, CallInv, NoPool, Between, InLast, InFree
  <2>2. /\ loc.tag \in sys /\ loc.steps \in Nat
        /\ loc.steps + Cardinality(sys) <= Cardinality(Slots) + 1
    BY <2>1 DEF Destroying
  <2>3. IsFiniteSet(Slots) /\ IsFiniteSet(sys)
    <3>1. IsFiniteSet(Slots)
      BY LayoutAssumption
    <3>2. IsFiniteSet(Slots \cup {Base})
      BY <3>1, FS_AddElement
    <3> QED
      BY <2>1, <3>1, <3>2, FS_Subset
  <2>4. Cardinality(sys) \in Nat /\ Cardinality(sys) # 0 /\ Cardinality(Slots) \in Nat
    <3>1. sys # {}
      BY <2>2
    <3> QED
      BY <2>3, <3>1, FS_CardinalityType, FS_EmptySet
  <2> QED
    BY <2>2, <2>4
<1> QED
  BY <1>1, <1>2, <1>3 DEF LoopsBounded

(* No loop of a call goes on for ever: one merge, one look at each tag of the last
   bucket, one step for each block that is freed. *)
THEOREM PoolLoopsBounded == Spec => []LoopsBounded
BY PoolInvariant, InvLoops, PTL

-----------------------------------------------------------------------------
(* A block is its header and its tags. *)

Threes == [c \in Nat |-> 3]

LEMMA HeaderWords ==
  ASSUME NEW B, B \subseteq BlockSet, \A b \in B : 3 <= Room(b)
  PROVE  Cardinality(TagWords(Threes, B)) = 3 * Cardinality(B)
<1> DEFINE D == {n \in Nat : \E S \in SUBSET B : Cardinality(S) = n /\ Cardinality(TagWords(Threes, S)) # 3 * n}
<1>1. D = {}
  <2> SUFFICES ASSUME D # {} PROVE FALSE
    OBVIOUS
  <2>1. D \subseteq Nat
    OBVIOUS
  <2>2. PICK n \in D : \A j \in D : n <= j
    <3> HIDE DEF D
    <3> QED
      BY <2>1, LeastNat
  <2>3. PICK S \in SUBSET B : Cardinality(S) = n /\ Cardinality(TagWords(Threes, S)) # 3 * n
    OBVIOUS
  <2>4. IsFiniteSet(S) /\ n \in Nat
    <3>1. S \subseteq BlockSet
      OBVIOUS
    <3> QED
      BY <2>3, <3>1, BlocksFinite
  <2>5. CASE S = {}
    <3>1. TagWords(Threes, S) = {} /\ n = 0
      BY <2>3, <2>5, FS_EmptySet DEF TagWords
    <3>2. Cardinality(TagWords(Threes, S)) = 0
      BY <3>1, FS_EmptySet
    <3> QED
      BY <2>3, <3>1, <3>2
  <2>6. CASE S # {}
    <3>1. PICK b \in S : TRUE
      BY <2>6
    <3> DEFINE R == S \ {b}
    <3>2. R \subseteq BlockSet /\ b \in BlockSet /\ b \notin R /\ R \cup {b} = S /\ R \in SUBSET B
      BY <3>1
    <3>3. Cardinality(R) = n - 1 /\ Cardinality(R) \in Nat
      BY <2>3, <2>4, <3>1, FS_RemoveElement, FS_CardinalityType
    <3> HIDE DEF R
    <3>4. \A x \in R \cup {b} : Threes[x + 2] = 3 /\ 3 <= Room(x)
      <4>1. \A x \in R \cup {b} : x \in BlockSet /\ x \in B
        BY <3>2
      <4>2. \A x \in R \cup {b} : x \in Nat
        BY <4>1, Rooms
      <4> QED
        BY <4>1, <4>2 DEF Threes
    <3>5. \A x \in R \cup {b} : Threes[x + 2] \in Nat /\ Threes[x + 2] <= Room(x)
      BY <3>4
    <3>6. /\ Cardinality(TagWords(Threes, R \cup {b})) = Cardinality(TagWords(Threes, R)) + Threes[b + 2]
          /\ Cardinality(TagWords(Threes, R)) \in Nat
      BY <3>2, <3>5, BlocksMore
    <3>7. Cardinality(TagWords(Threes, R)) = 3 * (n - 1)
      <4>1. n - 1 \notin D
        BY <2>2, <2>4
      <4> QED
        BY <3>2, <3>3, <4>1
    <3>8. Cardinality(TagWords(Threes, S)) = 3 * (n - 1) + 3
      BY <3>2, <3>4, <3>6, <3>7
    <3> QED
      BY <2>3, <2>4, <3>8
  <2> QED
    BY <2>5, <2>6
<1>2. Cardinality(B) \in Nat
  BY BlocksFinite
<1> QED
  BY <1>1, <1>2

\* Every word of a block behind its header is in a tag.
LEMMA BlockWordIn ==
  ASSUME NEW m, NEW B, NEW T, NEW own, Shape(m, B, T, own), NEW b \in B, NEW c \in Int,
         b + 3 <= c, c < b + m[b + 2]
  PROVE  \E t \in T : t <= c /\ c < t + m[t + 2]
<1> DEFINE S == {t \in InBlock(T, own, b) : t <= c}
<1>1. /\ T \subseteq Nat /\ B \subseteq BlockSet /\ b + 3 \in T /\ own[b + 3] = b
      /\ \A t \in T : m[t + 2] \in Nat /\ 6 <= m[t + 2]
      /\ \A t \in T : t + m[t + 2] # own[t] + m[own[t] + 2]
                        => t + m[t + 2] \in T /\ own[t + m[t + 2]] = own[t]
  BY DEF Shape
<1>2. c \in Nat
  BY <1>1, Rooms
<1>3. S \subseteq Nat /\ b + 3 \in S /\ \A x \in S : x <= c
  BY <1>1 DEF InBlock
<1>4. PICK t \in S : \A y \in S : y <= t
  <2> HIDE DEF S
  <2> QED
    BY <1>2, <1>3, GreatestNat
<1>5. t \in T /\ own[t] = b /\ t <= c /\ m[t + 2] \in Nat /\ 6 <= m[t + 2] /\ t \in Nat
  BY <1>1 DEF InBlock
<1>6. ASSUME t + m[t + 2] <= c PROVE FALSE
  <2>1. t + m[t + 2] # b + m[b + 2]
    <3>1. m[b + 2] \in Nat
      BY DEF Shape
    <3> QED
      BY <1>2, <1>5, <1>6, <3>1
  <2>2. t + m[t + 2] \in S
    BY <1>1, <1>5, <1>6, <2>1 DEF InBlock
  <2>3. ~(t + m[t + 2] <= t)
    BY <1>5
  <2> QED
    BY <1>4, <2>2, <2>3
<1>7. c < t + m[t + 2]
  BY <1>2, <1>5, <1>6
<1> QED
  BY <1>5, <1>7

LEMMA WordsOfBlocks ==
  ASSUME NEW m, NEW B, NEW T, NEW own, Shape(m, B, T, own)
  PROVE  Cardinality(TagWords(m, B)) = Cardinality(TagWords(m, T)) + 3 * Cardinality(B)
<1> DEFINE X == TagWords(m, T)
           Y == TagWords(Threes, B)
           Z == TagWords(m, B)
<1>1. /\ T \subseteq Nat /\ B \subseteq BlockSet /\ own \in [T -> B]
      /\ \A b \in B : m[b + 2] \in Nat /\ m[b + 2] <= Room(b) /\ b + 3 \in T /\ own[b + 3] = b
      /\ \A t \in T : m[t + 2] \in Nat /\ 6 <= m[t + 2]
      /\ \A t \in T : own[t] + 3 <= t /\ t + m[t + 2] <= own[t] + m[own[t] + 2]
  BY DEF Shape
<1>2. \A b \in B : b \in Nat /\ m[b + 2] \in Nat /\ 9 <= m[b + 2] /\ 3 <= Room(b)
  <2> SUFFICES ASSUME NEW b \in B PROVE b \in Nat /\ m[b + 2] \in Nat /\ 9 <= m[b + 2] /\ 3 <= Room(b)
    OBVIOUS
  <2>1. b \in Nat /\ Room(b) \in Nat
    BY <1>1, Rooms
  <2>2. 6 <= m[(b + 3) + 2] /\ m[(b + 3) + 2] \in Nat /\ (b + 3) + m[(b + 3) + 2] <= b + m[b + 2]
    BY <1>1
  <2> QED
    BY <1>1, <2>1, <2>2
<1>3. \A c : c \in X <=> c \in Int /\ \E t \in T : t <= c /\ c < t + m[t + 2]
  <2> SUFFICES ASSUME NEW c PROVE c \in X <=> c \in Int /\ \E t \in T : t <= c /\ c < t + m[t + 2]
    OBVIOUS
  <2>1. c \in X <=> c \in Int /\ \E t \in T : c \in t .. t + m[t + 2] - 1
    BY WordsIn
  <2> HIDE DEF X
  <2>2. \A t \in T : t \in Int /\ m[t + 2] \in Int
    BY <1>1
  <2> QED
    BY <2>1, <2>2
<1>4. \A c : c \in Z <=> c \in Int /\ \E b \in B : b <= c /\ c < b + m[b + 2]
  <2> SUFFICES ASSUME NEW c PROVE c \in Z <=> c \in Int /\ \E b \in B : b <= c /\ c < b + m[b + 2]
    OBVIOUS
  <2>1. c \in Z <=> c \in Int /\ \E b \in B : c \in b .. b + m[b + 2] - 1
    BY WordsIn
  <2> HIDE DEF Z
  <2>2. \A b \in B : b \in Int /\ m[b + 2] \in Int
    BY <1>2
  <2> QED
    BY <2>1, <2>2
<1>5. \A c : c \in Y <=> c \in Int /\ \E b \in B : b <= c /\ c < b + 3
  <2> SUFFICES ASSUME NEW c PROVE c \in Y <=> c \in Int /\ \E b \in B : b <= c /\ c < b + 3
    OBVIOUS
  <2>1. c \in Y <=> c \in Int /\ \E b \in B : c \in b .. b + Threes[b + 2] - 1
    BY WordsIn
  <2> HIDE DEF Y
  <2>2. \A b \in B : b \in Int /\ Threes[b + 2] = 3
    BY <1>2 DEF Threes
  <2> QED
    BY <2>1, <2>2
<1> HIDE DEF X, Y, Z
<1>6. \A c \in X \cup Y : c \in Z
  <2>1. ASSUME NEW c \in X PROVE c \in Z
    <3>1. PICK t \in T : t <= c /\ c < t + m[t + 2]
      BY <1>3
    <3>2. own[t] \in B /\ own[t] + 3 <= t /\ t + m[t + 2] <= own[t] + m[own[t] + 2] /\ t \in Nat /\ m[t + 2] \in Nat
      BY <1>1
    <3>3. own[t] \in Nat /\ m[own[t] + 2] \in Nat /\ c \in Int
      BY <1>2, <1>3, <3>2
    <3>4. own[t] <= c /\ c < own[t] + m[own[t] + 2]
      BY <3>1, <3>2, <3>3
    <3> QED
      BY <1>4, <3>2, <3>3, <3>4
  <2>2. ASSUME NEW c \in Y PROVE c \in Z
    <3>1. PICK b \in B : b <= c /\ c < b + 3
      BY <1>5
    <3>2. c \in Int /\ b <= c /\ c < b + m[b + 2]
      BY <1>2, <1>5, <3>1
    <3> QED
      BY <1>4, <3>2
  <2> QED
    BY <2>1, <2>2
<1>7. \A c \in Z : c \in X \/ c \in Y
  <2> SUFFICES ASSUME NEW c \in Z, c \notin Y PROVE c \in X
    OBVIOUS
  <2>1. PICK b \in B : b <= c /\ c < b + m[b + 2]
    BY <1>4
  <2>2. c \in Int
    BY <1>4
  <2>3. b + 3 <= c
    BY <1>2, <1>5, <2>1, <2>2
  <2>4. \E t \in T : t <= c /\ c < t + m[t + 2]
    BY <2>1, <2>2, <2>3, BlockWordIn
  <2> QED
    BY <1>3, <2>2, <2>4
<1>8. \A c \in X : c \notin Y
  <2> SUFFICES ASSUME NEW c \in X, c \in Y PROVE FALSE
    OBVIOUS
  <2>1. PICK t \in T : t <= c /\ c < t + m[t + 2]
    BY <1>3
  <2>2. PICK b \in B : b <= c /\ c < b + 3
    BY <1>5
  <2>3. t + m[t + 2] <= b \/ b + 3 <= t
    BY Geometry
  <2>4. t \in Nat /\ m[t + 2] \in Nat /\ b \in Nat /\ c \in Int
    BY <1>1, <1>2, <1>3
  <2> QED
    BY <2>1, <2>2, <2>3, <2>4
<1>9. X \cup Y = Z /\ X \cap Y = {}
  BY <1>6, <1>7, <1>8
<1>10. Z \subseteq Cell
  <2> SUFFICES ASSUME NEW c \in Z PROVE c \in Cell
    OBVIOUS
  <2>1. PICK b \in B : b <= c /\ c < b + m[b + 2]
    BY <1>4
  <2>2. b \in BlockSet /\ m[b + 2] <= Room(b) /\ c \in Int /\ m[b + 2] \in Nat /\ b \in Nat
    BY <1>1, <1>2, <1>4
  <2>3. Room(b) \in Nat
    BY <2>2, Rooms
  <2>4. c < b + Room(b)
    BY <2>1, <2>2, <2>3
  <2> QED
    BY <2>1, <2>2, <2>4, Rooms
<1>11. IsFiniteSet(X) /\ IsFiniteSet(Y)
  <2>1. X \subseteq Cell /\ Y \subseteq Cell
    BY <1>9, <1>10
  <2> QED
    BY <2>1, CellFinite, FS_Subset
<1>12. Cardinality(Z) = Cardinality(X) + Cardinality(Y) - Cardinality(X \cap Y)
  <2>1. Cardinality(X \cup Y) = Cardinality(X) + Cardinality(Y) - Cardinality(X \cap Y)
    BY <1>11, FS_Union
  <2> QED
    BY <1>9, <2>1
<1>13. Cardinality(X \cap Y) = 0 /\ Cardinality(X) \in Nat /\ Cardinality(Y) \in Nat
  BY <1>9, <1>11, FS_EmptySet, FS_CardinalityType
<1>14. Cardinality(Y) = 3 * Cardinality(B)
  BY <1>1, <1>2, HeaderWords DEF Y
<1> QED
  BY <1>12, <1>13, <1>14 DEF X, Z

LEMMA InvCounters == PoolInv => CountersExact
<1> SUFFICES ASSUME PoolInv, pc = "idle" PROVE CountersExact
  BY DEF CountersExact, Idle
<1>1. PICK T, own, rk, lim : /\ Good(mem, bkt, cnt, live, BlksOf(sys), T, own, {}, rk, lim)
                             /\ KeptBut(mem, BlksOf(sys), T, own, {}, BaseBlk)
  BY IdleGood
<1>2. /\ Blocks = BlksOf(sys) /\ Shape(mem, Blocks, T, own)
      /\ \A b \in Blocks : TagsOf(b) = InBlock(T, own, b)
      /\ Tags = T /\ UsedTags = UsedIn(mem, T, {})
  BY <1>1, TagsAre
<1>3. Counted(mem, cnt, Blocks, UsedTags) /\ KeptBut(mem, Blocks, T, own, {}, BaseBlk)
  BY <1>1, <1>2 DEF Good
<1>4. \A S \in SUBSET T : MapSize(S) = Cardinality(TagWords(mem, S))
  <2> SUFFICES ASSUME NEW S \in SUBSET T PROVE MapSize(S) = Cardinality(TagWords(mem, S))
    OBVIOUS
  <2>1. UNION {t .. TagEnd(t) - 1 : t \in S} = TagWords(mem, S)
    <3>1. \A t \in S : t .. TagEnd(t) - 1 = t .. t + mem[t + 2] - 1
      <4>1. \A t \in S : t \in Nat /\ mem[t + 2] \in Nat
        BY <1>2 DEF Shape
      <4>2. \A t \in S : TagEnd(t) - 1 = t + mem[t + 2] - 1
        BY <4>1 DEF TagEnd, size
      <4> QED
        BY <4>2, Zenon
    <3>2. {t .. TagEnd(t) - 1 : t \in S} = {t .. t + mem[t + 2] - 1 : t \in S}
      BY <3>1, Zenon
    <3> QED
      BY <3>2, Zenon DEF TagWords
  <2> QED
    BY <2>1 DEF MapSize
<1>5. Cardinality(TagWords(mem, Blocks)) = Cardinality(TagWords(mem, T)) + 3 * Cardinality(Blocks)
  BY <1>2, WordsOfBlocks
<1> HIDE DEF Blocks
<1>6. cnt.inuse = MapSize(UsedTags) /\ cnt.blk = Cardinality(Blocks)
      /\ cnt.alloc = PoolHdr - 3 + Cardinality(TagWords(mem, Blocks))
  <2>1. UsedTags \in SUBSET T
    BY <1>2 DEF UsedIn
  <2> QED
    BY <1>3, <1>4, <2>1 DEF Counted
<1>7. cnt.alloc = PoolHdr - BlkS + MapSize(Tags) + BlkS * Cardinality(Blocks)
  <2>1. Cardinality(TagWords(mem, T)) \in Nat
    <3>1. TagWords(mem, T) \subseteq Cell
      <4> SUFFICES ASSUME NEW c \in TagWords(mem, T) PROVE c \in Cell
        OBVIOUS
      <4>1. c \in Int /\ \E t \in T : c \in t .. t + mem[t + 2] - 1
        BY WordsIn
      <4>2. PICK t \in T : c \in t .. t + mem[t + 2] - 1
        BY <4>1
      <4>3. t \in Nat /\ mem[t + 2] \in Nat /\ \A d \in Int : t <= d /\ d < t + mem[t + 2] => d \in Cell
        BY <1>2, Geometry
      <4> QED
        BY <4>1, <4>2, <4>3
    <3> QED
      BY <3>1, CellFinite, FS_Subset, FS_CardinalityType
  <2>2. Cardinality(Blocks) \in Nat
    BY <1>2, BlocksFinite DEF Shape
  <2>3. PoolHdr \in Nat
    BY LayoutAssumption
  <2>4. MapSize(Tags) = Cardinality(TagWords(mem, T)) /\ BlkS = 3
    BY <1>2, <1>4 DEF BlkS
  <2> QED
    BY <1>5, <1>6, <2>1, <2>2, <2>3, <2>4
<1>8. \A b \in Blocks \ {BaseBlk} : \E t \in TagsOf(b) : Used(t)
  <2> SUFFICES ASSUME NEW b \in Blocks \ {BaseBlk} PROVE \E t \in TagsOf(b) : Used(t)
    OBVIOUS
  <2>1. PICK t \in T : own[t] = b /\ mem[t] = 1
    BY <1>3 DEF KeptBut
  <2> QED
    BY <1>2, <2>1 DEF InBlock, Used, use
<1> QED
  BY <1>6, <1>7, <1>8 DEF CountersExact

(* Between calls the counters are what the memory says, and every block but the
   pool's own holds a region in use. *)
THEOREM PoolCountersExact == Spec => []CountersExact
BY PoolInvariant, InvCounters, PTL
=============================================================================
