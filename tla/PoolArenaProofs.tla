--------------------------- MODULE PoolArenaProofs ---------------------------
(***************************************************************************)
(* The word-level pool implements Arena.  TagMap and BlkMap are what Arena *)
(* sees of a memory whose tags are T; a lemma for each action says which   *)
(* step of Arena it is.                                                    *)
(***************************************************************************)
EXTENDS PoolProofs

TagMap(m, T, own) == [t \in T |-> [size |-> m[t + 2], used |-> m[t] = 1, blk |-> own[t] + 3]]
BlkMap(m, B) == [f \in {b + 3 : b \in B} |-> (f - 3) + m[(f - 3) + 2]]

Seen(T, own) == ArenaTags = TagMap(mem, T, own) /\ ArenaBlks = BlkMap(mem, BlksOf(sys))
ShapeSeen == \A T, own : mem \in Memory /\ Shape(mem, BlksOf(sys), T, own) /\ Alive => Seen(T, own)

LEMMA Sees == ShapeSeen
<1> SUFFICES ASSUME NEW T, NEW own, mem \in Memory, Shape(mem, BlksOf(sys), T, own), Alive
             PROVE  Seen(T, own)
  BY DEF ShapeSeen
<1>1. Blocks = BlksOf(sys)
  BY DEF Blocks, BlksOf
<1>2. Shape(mem, Blocks, T, own)
  BY <1>1
<1>3. \A b \in Blocks : TagsOf(b) = InBlock(T, own, b)
  BY <1>2, TagsOfIs
<1> HIDE DEF Blocks
<1>4. \A t \in T : own[t] \in Blocks
  BY <1>2 DEF Shape
<1>5. Tags = T
  <2>1. \A t : t \in Tags <=> \E b \in Blocks : t \in TagsOf(b)
    BY DEF Tags
  <2>2. \A t : t \in T <=> \E b \in Blocks : t \in InBlock(T, own, b)
    BY <1>4 DEF InBlock
  <2> QED
    BY <1>3, <2>1, <2>2
<1>6. \A t \in T : (CHOOSE b \in Blocks : t \in TagsOf(b)) = own[t]
  <2> SUFFICES ASSUME NEW t \in T PROVE (CHOOSE b \in Blocks : t \in TagsOf(b)) = own[t]
    OBVIOUS
  <2>1. \A b \in Blocks : t \in TagsOf(b) <=> b = own[t]
    BY <1>3 DEF InBlock
  <2> QED
    BY <1>4, <2>1
<1>7. ArenaTags = TagMap(mem, T, own)
  <2>1. ArenaTags = [t \in T |-> [size |-> mem[t + 2], used |-> mem[t] = 1,
                                  blk |-> (CHOOSE b \in Blocks : t \in TagsOf(b)) + 3]]
    BY <1>5, Zenon DEF ArenaTags, Used, use, size, BlkS
  <2> QED
    BY <1>6, <2>1, Zenon DEF TagMap
<1>8. ArenaBlks = BlkMap(mem, BlksOf(sys))
  BY <1>1, Zenon DEF ArenaBlks, BlkMap, BlockEnd, bsize, BlkS
<1> QED
  BY <1>7, <1>8 DEF Seen

\* Of the pool that is gone, or being destroyed, Arena sees nothing.
NothingSeen == ~Alive => ArenaTags = A!Empty /\ ArenaBlks = A!Empty

LEMMA SeesNothing == NothingSeen
<1>1. <<>> = [a \in {} |-> a]
  OBVIOUS
<1> QED
  BY <1>1 DEF NothingSeen, ArenaTags, ArenaBlks, A!Empty

LEMMA SeesThen == ShapeSeen' /\ NothingSeen'
BY Sees, SeesNothing, PTL

\* The memory of a pool that is alive has a shape.
LEMMA AliveShape ==
  ASSUME PoolInv, Alive
  PROVE  /\ mem \in Memory
         /\ \E T, own, H, rk, lim : Good(mem, bkt, cnt, live, BlksOf(sys), T, own, H, rk, lim)
<1>1. mem \in Memory
  BY DEF PoolInv, Typed
<1> QED
  BY <1>1, InvGood DEF Alive

LEMMA NothingMoves ==
  ASSUME PoolInv, UNCHANGED <<mem, sys>>, Alive' = Alive
  PROVE  UNCHANGED <<ArenaTags, ArenaBlks>>
<1>1. CASE ~Alive
  <2>1. ArenaTags = A!Empty /\ ArenaBlks = A!Empty
    BY <1>1, SeesNothing DEF NothingSeen
  <2>2. (ArenaTags = A!Empty)' /\ (ArenaBlks = A!Empty)'
    BY <1>1, SeesThen DEF NothingSeen
  <2> QED
    BY <2>1, <2>2 DEF A!Empty
<1>2. CASE Alive
  <2>1. PICK T, own : mem \in Memory /\ Shape(mem, BlksOf(sys), T, own)
    BY <1>2, AliveShape DEF Good, Heaped
  <2>2. Seen(T, own)
    BY <1>2, <2>1, Sees DEF ShapeSeen
  <2>3. mem' = mem /\ BlksOf(sys') = BlksOf(sys) /\ Alive'
    BY <1>2
  <2>4. mem' \in Memory /\ Shape(mem', BlksOf(sys'), T, own)
    BY <2>1, <2>3
  <2>5. ArenaTags' = TagMap(mem', T, own) /\ ArenaBlks' = BlkMap(mem', BlksOf(sys'))
    BY <2>3, <2>4, SeesThen DEF ShapeSeen, Seen
  <2> QED
    BY <2>2, <2>3, <2>5 DEF Seen
<1> QED
  BY <1>1, <1>2

-----------------------------------------------------------------------------
(* A step of Arena by what it does to the use and the sizes of the tags. *)

LEMMA TagIs ==
  ASSUME NEW m, NEW T, NEW own, NEW t \in T
  PROVE  /\ DOMAIN TagMap(m, T, own) = T
         /\ TagMap(m, T, own)[t] = [size |-> m[t + 2], used |-> m[t] = 1, blk |-> own[t] + 3]
         /\ TagMap(m, T, own)[t].size = m[t + 2]
         /\ TagMap(m, T, own)[t].used = (m[t] = 1)
         /\ TagMap(m, T, own)[t].blk = own[t] + 3
BY DEF TagMap

\* m2 is m after n words have been taken of the free tag t.
Carved(m, m2, T, own, t, n, T2, own2) ==
  /\ \A u \in T \ {t} : m2[u] = m[u] /\ m2[u + 2] = m[u + 2] /\ own2[u] = own[u]
  /\ m2[t] = 1 /\ own2[t] = own[t]
  /\ \/ /\ m[t + 2] - n > 6 /\ T2 = T \cup {t + n} /\ t + n \notin T /\ m2[t + 2] = n
        /\ m2[t + n] = 0 /\ m2[t + n + 2] = m[t + 2] - n /\ own2[t + n] = own[t]
     \/ ~(m[t + 2] - n > 6) /\ T2 = T /\ m2[t + 2] = m[t + 2]

\* Records with some fields replaced.
Resized(x, n, v) == [x EXCEPT !.size = n, !.used = v]
Reused(x, v) == [x EXCEPT !.used = v]

LEMMA WithSize ==
  ASSUME NEW x, NEW s, NEW w, NEW b, x = [size |-> s, used |-> w, blk |-> b], NEW n, NEW v
  PROVE  /\ Resized(x, n, v) = [size |-> n, used |-> v, blk |-> b]
         /\ Reused(x, v) = [size |-> s, used |-> v, blk |-> b]
<1> DEFINE y == [x EXCEPT !.size = n]
           z == [y EXCEPT !.used = v]
<1>1. [x EXCEPT !.used = v] = [size |-> s, used |-> v, blk |-> b]
  OBVIOUS
<1>2. y = [size |-> n, used |-> w, blk |-> b]
  OBVIOUS
<1>3. [x EXCEPT !.size = n, !.used = v] = z
  BY Zenon
<1> HIDE DEF y
<1>4. z = [size |-> n, used |-> v, blk |-> b]
  BY <1>2
<1> QED
  BY <1>1, <1>3, <1>4 DEF Resized, Reused

LEMMA CarveIs ==
  ASSUME NEW m, NEW m2, NEW T, NEW own, NEW T2, NEW own2, NEW t \in T, NEW n,
         Carved(m, m2, T, own, t, n, T2, own2), NEW TT, TT = TagMap(m, T, own)
  PROVE  TagMap(m2, T2, own2) = A!Carve(TT, t, n)
<1> DEFINE S == TagMap(m2, T2, own2)
           rest == m[t + 2] - n
<1>0. \A u \in T : TT[u] = [size |-> m[u + 2], used |-> m[u] = 1, blk |-> own[u] + 3]
  BY Zenon DEF TagMap
<1>1. DOMAIN TT = T /\ TT[t].size = m[t + 2]
  <2>1. DOMAIN TT = T
    BY Zenon DEF TagMap
  <2>2. TT[t] = [size |-> m[t + 2], used |-> m[t] = 1, blk |-> own[t] + 3]
    BY <1>0
  <2>3. TT[t].size = m[t + 2]
    BY <2>2
  <2> QED
    BY <2>1, <2>3
<1>7. \A n1, v : /\ [TT[t] EXCEPT !.size = n1, !.used = v] = [size |-> n1, used |-> v, blk |-> own[t] + 3]
                 /\ [TT[t] EXCEPT !.used = v] = [size |-> m[t + 2], used |-> v, blk |-> own[t] + 3]
  <2> DEFINE x == TT[t]
             w == m[t] = 1
             b == own[t] + 3
             s == m[t + 2]
  <2>1. x = [size |-> s, used |-> w, blk |-> b]
    BY <1>0
  <2> HIDE DEF x, w, b, s
  <2>2. \A n1, v : /\ [x EXCEPT !.size = n1, !.used = v] = [size |-> n1, used |-> v, blk |-> b]
                   /\ [x EXCEPT !.used = v] = [size |-> s, used |-> v, blk |-> b]
    <3> SUFFICES ASSUME NEW n1, NEW v
                 PROVE  /\ [x EXCEPT !.size = n1, !.used = v] = [size |-> n1, used |-> v, blk |-> b]
                        /\ [x EXCEPT !.used = v] = [size |-> s, used |-> v, blk |-> b]
      OBVIOUS
    <3>1. /\ Resized(x, n1, v) = [size |-> n1, used |-> v, blk |-> b]
          /\ Reused(x, v) = [size |-> s, used |-> v, blk |-> b]
      BY <2>1, WithSize
    <3> QED
      BY <3>1, Zenon DEF Resized, Reused
  <2> QED
    BY <2>2 DEF x, b, s
<1>2. A!Carve(TT, t, n) =
        IF rest > 6
        THEN [u \in T \cup {t + n} |->
                IF u = t THEN [TT[t] EXCEPT !.size = n, !.used = TRUE]
                ELSE IF u = t + n THEN [TT[t] EXCEPT !.size = rest, !.used = FALSE]
                ELSE TT[u]]
        ELSE [TT EXCEPT ![t].used = TRUE]
  BY <1>1 DEF A!Carve, ThreshS, HeadS, TailS
<1>3. S = [u \in T2 |-> [size |-> m2[u + 2], used |-> m2[u] = 1, blk |-> own2[u] + 3]]
  BY DEF TagMap
<1>4. \A u \in T \ {t} : [size |-> m2[u + 2], used |-> m2[u] = 1, blk |-> own2[u] + 3] = TT[u]
  BY <1>0 DEF Carved
<1>5. CASE rest > 6
  <2>1. T2 = T \cup {t + n} /\ t + n \notin T /\ m2[t + 2] = n /\ m2[t] = 1 /\ own2[t] = own[t]
        /\ m2[t + n] = 0 /\ m2[t + n + 2] = rest /\ own2[t + n] = own[t]
    BY <1>5 DEF Carved
  <2>2. [size |-> m2[t + 2], used |-> m2[t] = 1, blk |-> own2[t] + 3] = [TT[t] EXCEPT !.size = n, !.used = TRUE]
    <3>1. [TT[t] EXCEPT !.size = n, !.used = TRUE] = [size |-> n, used |-> TRUE, blk |-> own[t] + 3]
      BY <1>7, Zenon
    <3>2. (m2[t] = 1) = TRUE
      BY <2>1
    <3> QED
      BY <2>1, <3>1, <3>2, Zenon
  <2>3. [size |-> m2[t + n + 2], used |-> m2[t + n] = 1, blk |-> own2[t + n] + 3]
          = [TT[t] EXCEPT !.size = rest, !.used = FALSE]
    <3>1. [TT[t] EXCEPT !.size = rest, !.used = FALSE] = [size |-> rest, used |-> FALSE, blk |-> own[t] + 3]
      BY <1>7, Zenon
    <3>2. (m2[t + n] = 1) = FALSE
      BY <2>1
    <3> QED
      BY <2>1, <3>1, <3>2, Zenon
  <2> HIDE DEF rest
  <2>4. \A u \in T2 : [size |-> m2[u + 2], used |-> m2[u] = 1, blk |-> own2[u] + 3]
                        = IF u = t THEN [TT[t] EXCEPT !.size = n, !.used = TRUE]
                          ELSE IF u = t + n THEN [TT[t] EXCEPT !.size = rest, !.used = FALSE]
                          ELSE TT[u]
    BY <1>4, <2>1, <2>2, <2>3
  <2>5. A!Carve(TT, t, n) = [u \in T2 |->
                IF u = t THEN [TT[t] EXCEPT !.size = n, !.used = TRUE]
                ELSE IF u = t + n THEN [TT[t] EXCEPT !.size = rest, !.used = FALSE]
                ELSE TT[u]]
    BY <1>2, <1>5, <2>1
  <2> QED
    BY <1>3, <2>4, <2>5
<1>6. CASE ~(rest > 6)
  <2>1. T2 = T /\ m2[t + 2] = m[t + 2] /\ m2[t] = 1 /\ own2[t] = own[t]
    BY <1>6 DEF Carved
  <2>2. [size |-> m2[t + 2], used |-> m2[t] = 1, blk |-> own2[t] + 3] = [TT[t] EXCEPT !.used = TRUE]
    <3>1. [TT[t] EXCEPT !.used = TRUE] = [size |-> m[t + 2], used |-> TRUE, blk |-> own[t] + 3]
      BY <1>7, Zenon
    <3>2. (m2[t] = 1) = TRUE
      BY <2>1
    <3> QED
      BY <2>1, <3>1, <3>2, Zenon
  <2>3. TT = [u \in T |-> TT[u]]
    BY DEF TagMap
  <2>4. [TT EXCEPT ![t].used = TRUE] = [u \in T |-> IF u = t THEN [TT[t] EXCEPT !.used = TRUE] ELSE TT[u]]
    BY <1>1, <2>3
  <2>5. \A u \in T2 : [size |-> m2[u + 2], used |-> m2[u] = 1, blk |-> own2[u] + 3]
                        = IF u = t THEN [TT[t] EXCEPT !.used = TRUE] ELSE TT[u]
    BY <1>4, <2>1, <2>2
  <2> QED
    BY <1>2, <1>3, <1>6, <2>1, <2>4, <2>5
<1> QED
  BY <1>5, <1>6

LEMMA TakenAmount ==
  ASSUME NEW m, NEW k, NEW t, NEW n, NEW r, r = TagAlloc([mem |-> m, bkt |-> k], t, n)
  PROVE  r.taken = IF m[t + 2] - n > 6 THEN n ELSE m[t + 2]
BY DEF TagAlloc, Splits, ThreshS, HeadS, TailS, size

\* An allocation from the free tag t.
LEMMA AllocCarves ==
  ASSUME NEW m, NEW k, NEW B, NEW T, NEW own, NEW rk, NEW lim,
         Heaped(m, k, B, T, own, {}, rk, lim), NEW t \in FreeIn(m, T, {}),
         NEW acts \in Nat \ {0}, NEW n, n = TagSize(acts), n <= m[t + 2],
         NEW r, r = TagAlloc([mem |-> m, bkt |-> k], t, n),
         NEW m2, m2 = GiveMem(r.heap.mem, t, acts)
  PROVE  /\ \E T2, own2 : Carved(m, m2, T, own, t, n, T2, own2) /\ Shape(m2, B, T2, own2)
         /\ m2 \in Memory /\ SizesKept(m, m2, B)
<1> DEFINE mm == r.heap.mem
<1>1. n = acts + 5 /\ n \in Nat /\ 6 <= n
  BY TagSizeIs
<1>2. Heaped(m, k, B, T, own, {}, rk, lim)
  OBVIOUS
<1>3. PICK T2, own2, rk2, lim2 : Granted(m, B, T, own, t, n, r, T2, own2, rk2, lim2)
  BY <1>1, <1>2, TagAllocKeeps
<1> HIDE DEF mm
<1>4. /\ mm[t] = 1 /\ mm[t + 2] = r.taken /\ own2[t] = own[t] /\ r.taken \in Nat /\ n <= r.taken
      /\ r.taken <= m[t + 2]
  BY <1>3 DEF Granted, GrantedTag, mm
<1>5. GrantedRest(m, mm, T, own, t, n, r.taken, T2, own2)
  BY <1>3 DEF Granted, mm
<1>6. mm \in Memory /\ Shape(mm, B, T2, own2) /\ t \in T2
  BY <1>3 DEF Granted, Heaped, mm
<1>7. m2 = GiveMem(mm, t, acts) /\ acts + 5 <= mm[t + 2]
  BY <1>1, <1>4 DEF mm
<1>8. Within(mm, m2, t) /\ m2[t] = mm[t] /\ m2[t + 2] = mm[t + 2]
  BY <1>6, <1>7, GiveMemIs
<1>9. /\ \A u \in T2 : u # t => Untouched(mm, m2, u) /\ m2[u + 2] = mm[u + 2]
      /\ \A b \in B : m2[b] = mm[b] /\ m2[b + 1] = mm[b + 1] /\ m2[b + 2] = mm[b + 2]
  BY <1>6, <1>8, WithinTag
<1>10. \A u \in T2 : m2[u] = mm[u] /\ m2[u + 2] = mm[u + 2]
  BY <1>6, <1>8, <1>9, UntouchedIs
<1>11. Shape(m2, B, T2, own2)
  <2>1. SameSizes(mm, m2, B, T2)
    BY <1>9, <1>10 DEF SameSizes
  <2> QED
    BY <1>6, <2>1, ShapeSame
<1>12. m2 \in Memory /\ SizesKept(m, m2, B)
  <2>1. HeadersSame(m, mm, B)
    BY <1>3 DEF Granted, mm
  <2> QED
    BY <1>8, <1>9, <2>1 DEF Within, SizesKept, HeadersSame
<1>13. t \in T /\ \A u \in T \ {t} : mm[u] = m[u] /\ mm[u + 2] = m[u + 2]
  <2>1. t \in T
    BY DEF FreeIn
  <2> QED
    BY <1>3, <2>1 DEF Granted, Frame, mm
<1>14. r.taken = IF m[t + 2] - n > 6 THEN n ELSE m[t + 2]
  BY TakenAmount
<1>15. t \in Nat /\ m[t + 2] \in Nat
  <2>1. Shape(m, B, T, own)
    BY <1>2 DEF Heaped
  <2> QED
    BY <1>13, <2>1, Geometry
<1>16. Carved(m, m2, T, own, t, n, T2, own2)
  <2>1. T \subseteq T2 /\ \A u \in T : own2[u] = own[u]
    BY <1>5 DEF GrantedRest
  <2>2. \A u \in T \ {t} : m2[u] = m[u] /\ m2[u + 2] = m[u + 2] /\ own2[u] = own[u]
    BY <1>10, <1>13, <2>1
  <2>3. m2[t] = 1 /\ own2[t] = own[t] /\ m2[t + 2] = r.taken
    BY <1>4, <1>8
  <2>4. CASE T2 = T /\ own2 = own /\ r.taken = m[t + 2]
    <3>1. ~(m[t + 2] - n > 6)
      BY <1>1, <1>14, <1>15, <2>4
    <3> QED
      BY <2>2, <2>3, <2>4, <3>1 DEF Carved
  <2>5. CASE /\ r.taken = n /\ T2 = T \cup {t + n} /\ t + n \notin T
             /\ own2 = [u \in T \cup {t + n} |-> IF u = t + n THEN own[t] ELSE own[u]]
             /\ mm[t + n] = 0 /\ mm[t + n + 2] = m[t + 2] - n
    <3>1. t + n \in T2 /\ own2[t + n] = own[t]
      BY <2>5
    <3>2. m2[t + n] = 0 /\ m2[t + n + 2] = m[t + 2] - n
      BY <1>10, <2>5, <3>1
    <3>3. 6 <= m2[t + n + 2]
      BY <1>11, <3>1, Geometry
    <3>4. m[t + 2] - n > 6
      BY <1>1, <1>14, <1>15, <2>5, <3>2, <3>3
    <3> QED
      BY <2>2, <2>3, <2>5, <3>1, <3>2, <3>4 DEF Carved
  <2> QED
    BY <1>5, <2>4, <2>5 DEF GrantedRest
<1> QED
  BY <1>11, <1>12, <1>16
-----------------------------------------------------------------------------
(* What a step of the pool is to Arena. *)

LEMMA BlkMapSame ==
  ASSUME NEW m, NEW m2, NEW B, B \subseteq Nat, SizesKept(m, m2, B)
  PROVE  BlkMap(m2, B) = BlkMap(m, B)
<1>1. \A f \in {b + 3 : b \in B} : (f - 3) + m2[(f - 3) + 2] = (f - 3) + m[(f - 3) + 2]
  <2> SUFFICES ASSUME NEW b \in B PROVE m2[((b + 3) - 3) + 2] = m[((b + 3) - 3) + 2]
    OBVIOUS
  <2>1. (b + 3) - 3 = b
    OBVIOUS
  <2> QED
    BY <2>1 DEF SizesKept
<1> QED
  BY <1>1, Zenon DEF BlkMap

\* ArenaTags, and what is free in it.
LEMMA FreeSeen ==
  ASSUME NEW m, NEW T, NEW own, NEW H, NEW t \in FreeIn(m, T, H), ArenaTags = TagMap(m, T, own)
  PROVE  A!IsFree(t) /\ ArenaTags[t].size = m[t + 2] /\ t \in DOMAIN ArenaTags
<1>1. t \in T /\ m[t] = 0
  BY DEF FreeIn
<1>2. DOMAIN ArenaTags = T
  BY Zenon DEF TagMap
<1>3. ArenaTags[t] = [size |-> m[t + 2], used |-> m[t] = 1, blk |-> own[t] + 3]
  BY <1>1, Zenon DEF TagMap
<1>4. ArenaTags[t].size = m[t + 2] /\ ArenaTags[t].used = (m[t] = 1)
  BY <1>3
<1> QED
  <2>1. (m[t] = 1) = FALSE
    BY <1>1
  <2>2. ~ArenaTags[t].used
    BY <1>4, <2>1
  <2> QED
    BY <1>1, <1>2, <1>4, <2>2 DEF A!IsFree, A!Tag

LEMMA TakeSeen ==
  ASSUME Base \in sys, sys \subseteq Slots \cup {Base}, Alive, Alive', sys' = sys, Ask(loc),
         NEW T, NEW own, NEW rk, NEW lim, Good(mem, bkt, cnt, live, BlksOf(sys), T, own, {}, rk, lim),
         NEW t \in FreeIn(mem, T, {}), Fits(mem, t, loc.n),
         NEW r, r = TagAlloc(Heap, t, loc.n), Give(r.heap, t, loc.acts)
  PROVE  A!Next
<1> DEFINE B == BlksOf(sys)
           n == loc.n
           acts == loc.acts
<1>1. acts \in Nat \ {0} /\ n \in Nat /\ 6 <= n /\ n = TagSize(acts)
  BY AskIs
<1>2. n <= mem[t + 2]
  BY DEF Fits, size
<1>3. r = TagAlloc([mem |-> mem, bkt |-> bkt], t, n)
  BY DEF Heap
<1>4. Good(mem, bkt, cnt, live, B, T, own, {}, rk, lim)
  OBVIOUS
<1>5. Give(r.heap, t, acts)
  OBVIOUS
<1> HIDE DEF B, n, acts
<1>6. t \in Nat /\ r.heap.mem[t + 2] \in Int /\ HeapLike(r.heap)
  BY <1>1, <1>2, <1>3, <1>4, GrantIs
<1>7. mem' = GiveMem(r.heap.mem, t, acts)
  <2> DEFINE h == r.heap
  <2>1. Give(h, t, acts) /\ HeapLike(h) /\ h.mem[t + 2] \in Int
    BY <1>5, <1>6
  <2> HIDE DEF h
  <2>2. mem' = GiveMem(h.mem, t, acts)
    BY <1>6, <2>1, GiveIs
  <2> QED
    BY <2>2 DEF h
<1>8. /\ \E T2, own2 : Carved(mem, mem', T, own, t, n, T2, own2) /\ Shape(mem', B, T2, own2)
      /\ mem' \in Memory /\ SizesKept(mem, mem', B)
  <2>1. Heaped(mem, bkt, B, T, own, {}, rk, lim)
    BY <1>4 DEF Good
  <2> QED
    BY <1>1, <1>2, <1>3, <1>7, <2>1, AllocCarves
<1>9. PICK T2, own2 : Carved(mem, mem', T, own, t, n, T2, own2) /\ Shape(mem', B, T2, own2)
  BY <1>8
<1>10. mem \in Memory /\ Shape(mem, B, T, own)
  BY <1>4 DEF Good, Heaped
<1>11. ArenaTags = TagMap(mem, T, own) /\ ArenaBlks = BlkMap(mem, B)
  BY <1>10, Sees DEF ShapeSeen, Seen, B
<1>12. ArenaTags' = TagMap(mem', T2, own2) /\ ArenaBlks' = BlkMap(mem', B)
  BY <1>8, <1>9, SeesThen DEF ShapeSeen, Seen, B
<1>13. ArenaBlks' = ArenaBlks
  <2>1. B \subseteq Nat
    BY <1>10, Geometry
  <2> QED
    BY <1>8, <1>11, <1>12, <2>1, BlkMapSame
<1>14. t \in T
  BY DEF FreeIn
<1>15. ArenaTags' = A!Carve(ArenaTags, t, n)
  BY <1>9, <1>11, <1>12, <1>14, CarveIs
<1>16. A!IsFree(t) /\ ArenaTags[t].size = mem[t + 2] /\ t \in DOMAIN ArenaTags
  BY <1>11, FreeSeen
<1>17. n \in 1 .. ArenaTags[t].size
  <2>1. mem[t + 2] \in Nat
    BY <1>10, <1>14, Geometry
  <2> QED
    BY <1>1, <1>2, <1>16, <2>1
<1>18. A!Take(t, n)
  BY <1>13, <1>15, <1>16, <1>17 DEF A!Take
<1> QED
  BY <1>16, <1>17, <1>18 DEF A!Next, A!Tag

LEMMA SearchHitSeen == ASSUME PoolInv, SearchHit PROVE A!Next
<1>1. pc = "search" /\ Found # {} /\ Between /\ sys \subseteq Slots \cup {Base}
  BY DEF SearchHit, PoolInv, CallInv, NoPool, Destroying, InLast, InFree
<1>2. Base \in sys /\ Ask(loc) /\ Settled(mem, bkt, cnt, live, BlksOf(sys))
  BY <1>1 DEF Between
<1> DEFINE t == bkt[FoundIdx]
           r == TagAlloc(Heap, t, loc.n)
<1>3. Fits(mem, t, loc.n) /\ Give(r.heap, t, loc.acts) /\ sys' = sys
  BY DEF SearchHit
<1>4. PICK T, own, rk, lim : Good(mem, bkt, cnt, live, BlksOf(sys), T, own, {}, rk, lim)
  BY <1>2 DEF Settled
<1>5. t = bkt[FoundIdx] /\ r = TagAlloc(Heap, t, loc.n)
  OBVIOUS
<1> HIDE DEF t, r
<1>6. t \in FreeIn(mem, T, {})
  BY <1>1, <1>4, <1>5, FoundFree
<1>7. Alive /\ Alive'
  BY <1>1, <1>3 DEF Alive, Give
<1> QED
  BY <1>1, <1>2, <1>3, <1>4, <1>5, <1>6, <1>7, TakeSeen

LEMMA LastHitSeen == ASSUME PoolInv, LastHit PROVE A!Next
<1>1. pc = "last" /\ InLast /\ sys \subseteq Slots \cup {Base}
  BY DEF LastHit, PoolInv, CallInv, NoPool, Destroying, Between, InFree
<1>2. Base \in sys /\ Ask(loc) /\ Searching(mem, bkt, cnt, live, BlksOf(sys), loc)
  BY <1>1 DEF InLast
<1> DEFINE t == loc.tag
           r == TagAlloc(Heap, t, loc.n)
<1>3. Fits(mem, t, loc.n) /\ Give(r.heap, t, loc.acts) /\ sys' = sys
  BY DEF LastHit
<1>4. PICK T, own, rk, lim : /\ Good(mem, bkt, cnt, live, BlksOf(sys), T, own, {}, rk, lim)
                             /\ LastIn(ClassOf(mem, FreeIn(mem, T, {}), MaxIdx - 1), bkt[MaxIdx - 1], loc, rk)
  BY <1>2 DEF Searching
<1>5. r = TagAlloc(Heap, t, loc.n)
  OBVIOUS
<1>6. t \in FreeIn(mem, T, {})
  BY <1>4 DEF LastIn, ClassOf
<1> HIDE DEF t, r
<1>7. Alive /\ Alive'
  BY <1>1, <1>3 DEF Alive, Give
<1> QED
  BY <1>1, <1>2, <1>3, <1>4, <1>5, <1>6, <1>7, TakeSeen

\* h is m with the tag t free and in its bucket.
PutBack(m, h, B, T, own, t) ==
  /\ \E rk2, lim2 : Heaped(h.mem, h.bkt, B, T, own, {}, rk2, lim2)
  /\ t \in T /\ h.mem[t] = 0 /\ \A u \in T \ {t} : h.mem[u] = m[u]
  /\ \A u \in T : h.mem[u + 2] = m[u + 2]
  /\ SizesKept(m, h.mem, B) /\ h.mem \in Memory /\ Shape(h.mem, B, T, own)

\* A tag in hand goes into its bucket.
LEMMA PutSeen ==
  ASSUME NEW m, NEW k, NEW B, NEW T, NEW own, NEW t, NEW rk, NEW lim,
         Heaped(m, k, B, T, own, {t}, rk, lim), Small(m[t + 2]),
         NEW h, h = PutFree([mem |-> m, bkt |-> k], t, own[t])
  PROVE  PutBack(m, h, B, T, own, t)
<1> DEFINE H == {t}
           H2 == H \ {t}
           mm == h.mem
           kk == h.bkt
<1>1. Heaped(m, k, B, T, own, H, rk, lim) /\ t \in H
  OBVIOUS
<1>2. Shape(m, B, T, own) /\ t \in T
  BY DEF Heaped
<1>3. t \in Nat /\ m[t + 2] \in Nat /\ 6 <= m[t + 2]
  BY <1>2, Geometry
<1>4. Size2Idx(m[t + 2]) \in 0 .. MaxIdx - 1
  BY <1>3, SmallIs
<1>5. H2 = {} /\ T \ H = T \ {t}
  OBVIOUS
<1> HIDE DEF H
<1>6. GivenBack(m, B, T, own, H, rk, lim, h, t)
  BY <1>1, <1>4, PutFreeKeeps
<1> HIDE DEF H2, mm, kk
<1>7. /\ Heaped(mm, kk, B, T, own, H2, RankNew(rk, t, lim), lim + 1)
      /\ Frame(m, mm, T \ {t})
      /\ mm[t] = 0 /\ (\A u \in T : mm[u + 2] = m[u + 2]) /\ HeadersSame(m, mm, B)
  BY <1>5, <1>6 DEF GivenBack, H2, mm, kk
<1>8. Heaped(mm, kk, B, T, own, {}, RankNew(rk, t, lim), lim + 1)
  BY <1>5, <1>7
<1>9. mm \in Memory /\ Shape(mm, B, T, own)
  BY <1>8 DEF Heaped
<1>10. \A u \in T \ {t} : mm[u] = m[u]
  BY <1>7 DEF Frame
<1>11. SizesKept(m, mm, B)
  BY <1>7 DEF SizesKept, HeadersSame
<1> QED
  BY <1>2, <1>7, <1>8, <1>9, <1>10, <1>11 DEF mm, kk, PutBack

-----------------------------------------------------------------------------
(* A block more. *)

\* m2 is m with the block b, of the given words, that is one tag.
Begun(m, m2, T, own, b, words, T2, own2) ==
  /\ T2 = T \cup {b + 3} /\ b + 3 \notin T /\ own2[b + 3] = b /\ m2[b + 3 + 2] = words - 3
  /\ \A u \in T : own2[u] = own[u] /\ m2[u] = m[u] /\ m2[u + 2] = m[u + 2]

LEMMA BegunIs ==
  ASSUME NEW m, NEW m2, NEW T, NEW own, NEW b \in Nat, NEW words \in Nat, NEW T2, NEW own2,
         Begun(m, m2, T, own, b, words, T2, own2), m2[b + 3] = 0, NEW TT, TT = TagMap(m, T, own)
  PROVE  TagMap(m2, T2, own2) = A!WithTag(TT, b + 3, b + words)
<1> DEFINE t == b + 3
<1>1. DOMAIN TT = T
  BY Zenon DEF TagMap
<1>2. \A u \in T : TT[u] = [size |-> m[u + 2], used |-> m[u] = 1, blk |-> own[u] + 3]
  BY Zenon DEF TagMap
<1>3. (b + words) - t = words - 3
  OBVIOUS
<1> HIDE DEF t
<1>4. T2 = T \cup {t} /\ t \notin T /\ own2[t] + 3 = t /\ m2[t + 2] = words - 3
      /\ \A u \in T : own2[u] = own[u] /\ m2[u] = m[u] /\ m2[u + 2] = m[u + 2]
  BY DEF Begun, t
<1>5. (m2[t] = 1) = FALSE
  BY DEF t
<1>6. \A u \in T2 : [size |-> m2[u + 2], used |-> m2[u] = 1, blk |-> own2[u] + 3]
                      = IF u = t THEN [size |-> (b + words) - t, used |-> FALSE, blk |-> t] ELSE TT[u]
  <2> SUFFICES ASSUME NEW u \in T2
               PROVE  [size |-> m2[u + 2], used |-> m2[u] = 1, blk |-> own2[u] + 3]
                      = IF u = t THEN [size |-> (b + words) - t, used |-> FALSE, blk |-> t] ELSE TT[u]
    OBVIOUS
  <2>1. CASE u = t
    BY <1>3, <1>4, <1>5, <2>1, Zenon
  <2>2. CASE u # t
    BY <1>2, <1>4, <2>2
  <2> QED
    BY <2>1, <2>2
<1>7. A!WithTag(TT, t, b + words)
        = [u \in T2 |-> IF u = t THEN [size |-> (b + words) - t, used |-> FALSE, blk |-> t] ELSE TT[u]]
  BY <1>1, <1>4, Zenon DEF A!WithTag
<1>8. TagMap(m2, T2, own2) = [u \in T2 |-> [size |-> m2[u + 2], used |-> m2[u] = 1, blk |-> own2[u] + 3]]
  BY Zenon DEF TagMap
<1> QED
  BY <1>6, <1>7, <1>8 DEF t

\* The blocks E and one more.
PlusBlk(E, f, end) == [c \in DOMAIN E \cup {f} |-> IF c = f THEN end ELSE E[c]]

MapMore(m2, B2, E, b, words) == BlkMap(m2, B2) = PlusBlk(E, b + 3, b + words)

LEMMA BlkMapMore ==
  ASSUME NEW m, NEW m2, NEW B, B \subseteq Nat, SizesKept(m, m2, B), NEW b \in Nat, b \notin B,
         NEW words \in Nat, m2[b + 2] = words, NEW E, E = BlkMap(m, B), NEW B2, B2 = B \cup {b}
  PROVE  MapMore(m2, B2, E, b, words)
<1> DEFINE F == {x + 3 : x \in B}
           F2 == {x + 3 : x \in B \cup {b}}
<1>1. F2 = F \cup {b + 3}
  OBVIOUS
<1>2. DOMAIN E = F
  BY Zenon DEF BlkMap
<1>3. \A f \in F : E[f] = (f - 3) + m[(f - 3) + 2]
  BY Zenon DEF BlkMap
<1>4. \A f \in F : (f - 3) + m2[(f - 3) + 2] = E[f] /\ f # b + 3
  <2> SUFFICES ASSUME NEW x \in B
               PROVE  ((x + 3) - 3) + m2[((x + 3) - 3) + 2] = E[x + 3] /\ x + 3 # b + 3
    OBVIOUS
  <2>1. (x + 3) - 3 = x /\ x # b /\ x \in Nat
    OBVIOUS
  <2>2. m2[((x + 3) - 3) + 2] = m[((x + 3) - 3) + 2]
    BY <2>1 DEF SizesKept
  <2>3. E[x + 3] = ((x + 3) - 3) + m[((x + 3) - 3) + 2]
    BY <1>3
  <2> QED
    BY <2>1, <2>2, <2>3
<1>5. ((b + 3) - 3) + m2[((b + 3) - 3) + 2] = b + words
  <2>1. (b + 3) - 3 = b
    OBVIOUS
  <2> QED
    BY <2>1
<1>6. BlkMap(m2, B2) = [f \in F2 |-> (f - 3) + m2[(f - 3) + 2]]
  BY Zenon DEF BlkMap
<1> HIDE DEF F, F2
<1>7. PlusBlk(E, b + 3, b + words) = [f \in F2 |-> IF f = b + 3 THEN b + words ELSE E[f]]
  BY <1>1, <1>2, Zenon DEF PlusBlk
<1>8. \A f \in F2 : (f - 3) + m2[(f - 3) + 2] = IF f = b + 3 THEN b + words ELSE E[f]
  BY <1>1, <1>4, <1>5
<1> QED
  BY <1>6, <1>7, <1>8, Zenon DEF MapMore

-----------------------------------------------------------------------------
LEMMA ClearSeen ==
  ASSUME NEW m, NEW B, NEW T, NEW own, Shape(m, B, T, own), ArenaBlks = BlkMap(m, B),
         NEW b \in Slots, b \notin B, NEW words \in Nat, words <= SlotS
  PROVE  A!Clear(b + 3, b + words)
<1>1. B \subseteq BlockSet /\ b \in BlockSet /\ b \in Nat /\ Room(b) = SlotS /\ SlotS \in Nat
  BY Rooms, LayoutAssumption DEF BlockSet, Room, Shape
<1>2. \A x \in B : x \in Nat /\ m[x + 2] \in Nat /\ m[x + 2] <= Room(x) /\ Room(x) \in Nat
  BY <1>1, Rooms DEF Shape
<1>3. \A x \in B : x + Room(x) <= b \/ b + SlotS <= x
  BY <1>1, Rooms
<1>4. DOMAIN ArenaBlks = {x + 3 : x \in B}
  BY Zenon DEF BlkMap
<1>5. \A f \in {x + 3 : x \in B} : ArenaBlks[f] = (f - 3) + m[(f - 3) + 2]
  BY Zenon DEF BlkMap
<1>6. \A x \in B : b + words + 3 <= x + 3 \/ ArenaBlks[x + 3] + 3 <= b + 3
  <2> SUFFICES ASSUME NEW x \in B PROVE b + words + 3 <= x + 3 \/ ArenaBlks[x + 3] + 3 <= b + 3
    OBVIOUS
  <2>1. x \in Nat /\ m[x + 2] \in Nat /\ m[x + 2] <= Room(x) /\ Room(x) \in Nat
        /\ (x + Room(x) <= b \/ b + SlotS <= x)
    BY <1>2, <1>3
  <2>2. (x + 3) - 3 = x
    BY <2>1
  <2>3. ArenaBlks[x + 3] = ((x + 3) - 3) + m[((x + 3) - 3) + 2]
    BY <1>5
  <2>4. ArenaBlks[x + 3] = x + m[x + 2]
    BY <2>2, <2>3
  <2> QED
    BY <1>1, <2>1, <2>4
<1>7. \A f \in {x + 3 : x \in B} : b + words + 3 <= f \/ ArenaBlks[f] + 3 <= b + 3
  BY <1>6
<1> QED
  BY <1>4, <1>7 DEF A!Clear, A!Blk, BlkS

\* Of what is asked of the system, and of the pool.
Sought == pc \in {"search", "last", "system", "large"} => \E x \in Requests : loc.n = TagSize(Words(x))

LEMMA BoundsIn ==
  ASSUME Sought, pc \in {"system", "large"}, NEW b \in Slots,
         NEW words \in {BlockSize(loc.n), RetrySize(loc.n), loc.n + BlkS}
  PROVE  b + 3 \in BlockBounds /\ b + words \in BlockBounds
<1>1. PICK x \in Requests : loc.n = TagSize(Words(x))
  BY DEF Sought
<1>2. words \in BlockWords
  BY <1>1 DEF BlockWords
<1> QED
  BY <1>2 DEF BlockBounds, BlkS

LEMMA GrowSeen ==
  ASSUME Base \in sys, sys \subseteq Slots \cup {Base}, Alive, Alive',
         NEW b \in Slots \ sys, sys' = sys \cup {b},
         NEW words \in Nat, words <= SlotS, b + 3 \in BlockBounds, b + words \in BlockBounds,
         NEW T, NEW own, mem \in Memory, Shape(mem, BlksOf(sys), T, own),
         NEW mv, NEW T2, NEW own2, Begun(mem, mv, T, own, b, words, T2, own2), mv[b + 3] = 0,
         NEW n \in Nat \ {0}, n + 3 <= words, NEW T3, NEW own3,
         Carved(mv, mem', T2, own2, b + 3, n, T3, own3),
         mem' \in Memory, Shape(mem', BlksOf(sys) \cup {b}, T3, own3),
         SizesKept(mem, mem', BlksOf(sys)), mem'[b + 2] = words
  PROVE  A!Next
<1> DEFINE B == BlksOf(sys)
           t == b + 3
           end == b + words
<1>1. b \notin B /\ BlksOf(sys') = B \cup {b} /\ BaseBlk \in B /\ b \in Slots
  BY BlksOfIs
<1>2. b \in Nat /\ B \subseteq Nat
  <2>1. Shape(mem, B, T, own)
    OBVIOUS
  <2> HIDE DEF B
  <2> QED
    BY <2>1, Geometry, LayoutAssumption
<1>3. ArenaTags = TagMap(mem, T, own) /\ ArenaBlks = BlkMap(mem, B)
  BY Sees DEF ShapeSeen, Seen
<1>4. Shape(mem', BlksOf(sys'), T3, own3)
  BY <1>1
<1>5. ArenaTags' = TagMap(mem', T3, own3) /\ ArenaBlks' = BlkMap(mem', BlksOf(sys'))
  BY <1>4, SeesThen DEF ShapeSeen, Seen
<1>6. Shape(mem, B, T, own) /\ SizesKept(mem, mem', B)
  OBVIOUS
<1> HIDE DEF B
<1>7. A!Clear(t, end)
  BY <1>1, <1>3, <1>6, ClearSeen
<1>8. ArenaBlks' = A!WithBlk(t, end)
  <2> DEFINE m2 == mem'
             B2 == B \cup {b}
             E == ArenaBlks
  <2>1. SizesKept(mem, m2, B) /\ m2[b + 2] = words
    BY <1>6
  <2>2. B2 = B \cup {b} /\ E = BlkMap(mem, B)
    BY <1>3
  <2> HIDE DEF m2, B2, E
  <2>3. MapMore(m2, B2, E, b, words)
    BY <1>1, <1>2, <2>1, <2>2, BlkMapMore
  <2>4. ArenaBlks' = PlusBlk(ArenaBlks, t, end)
    BY <1>1, <1>5, <2>3 DEF m2, B2, E, MapMore
  <2> QED
    BY <2>4 DEF PlusBlk, A!WithBlk, A!Blk
<1>9. TagMap(mv, T2, own2) = A!WithTag(ArenaTags, t, end)
  BY <1>2, <1>3, BegunIs
<1>10. t \in T2
  BY DEF Begun
<1>11. ArenaTags' = A!Carve(A!WithTag(ArenaTags, t, end), t, n)
  <2> DEFINE TT == A!WithTag(ArenaTags, t, end)
  <2>1. TT = TagMap(mv, T2, own2)
    BY <1>9
  <2> HIDE DEF TT, t
  <2>2. Carved(mv, mem', T2, own2, t, n, T3, own3)
    BY DEF t
  <2>3. TagMap(mem', T3, own3) = A!Carve(TT, t, n)
    BY <1>10, <2>1, <2>2, CarveIs
  <2> QED
    BY <1>5, <2>3 DEF TT
<1>12. A!Blk # {}
  <2>1. DOMAIN ArenaBlks = {x + 3 : x \in B}
    BY <1>3, Zenon DEF BlkMap
  <2> QED
    BY <1>1, <2>1 DEF A!Blk
<1>13. n \in 1 .. end - t
  BY <1>2
<1>14. A!Grow(t, end)
  BY <1>7, <1>8, <1>11, <1>12, <1>13, Zenon DEF A!Grow
<1> QED
  BY <1>14, Zenon DEF A!Next
\* m3 is m with the block b, of which n words have been taken.
Grows(m, m3, B, T, own, b, words, n) ==
  \E mv, T2, own2, T3, own3 :
    /\ Begun(m, mv, T, own, b, words, T2, own2) /\ mv[b + 3] = 0
    /\ Carved(mv, m3, T2, own2, b + 3, n, T3, own3)
    /\ m3 \in Memory /\ Shape(m3, B \cup {b}, T3, own3)
    /\ SizesKept(m, m3, B) /\ m3[b + 2] = words

\* A block before its tag is in a bucket.
LEMMA AddedBegun ==
  ASSUME NEW m, NEW k, NEW B, NEW T, NEW own, NEW rk, NEW lim,
         Heaped(m, k, B, T, own, {}, rk, lim), NEW b \in BlockSet, b \notin B,
         NEW m2, BlkAdded(m, m2, b), BlockAt(m2, b), NEW words, m2[b + 2] = words
  PROVE  \E T2, own2, rk2, lim2 : /\ Heaped(m2, k, B \cup {b}, T2, own2, {b + 3}, rk2, lim2)
                                  /\ Begun(m, m2, T, own, b, words, T2, own2)
                                  /\ SizesKept(m, m2, B)
<1> DEFINE T2 == T \cup {b + 3}
           own2 == [u \in T2 |-> IF u = b + 3 THEN b ELSE own[u]]
<1>1. /\ WithBlock(m2, k, B, T, own, {b + 3}, rk, lim, b) /\ b + 3 \notin T
      /\ \A u \in T : Untouched(m, m2, u)
      /\ SizesKept(m, m2, B)
  BY AddedHeap
<1>2. Heaped(m2, k, B \cup {b}, T2, own2, {b + 3}, RankNew(rk, b, lim), lim + 1)
  BY <1>1, Zenon DEF WithBlock
<1>3. Shape(m, B, T, own)
  BY DEF Heaped
<1>4. \A u \in T : m2[u] = m[u] /\ m2[u + 2] = m[u + 2]
  BY <1>1, <1>3, UntouchedIs
<1>5. m2[b + 3 + 2] = words - 3
  <2>1. b \in Nat
    BY Rooms
  <2>2. b + 3 + 2 = b + 5
    BY <2>1
  <2> QED
    BY <2>2 DEF BlockAt
<1>6. own2[b + 3] = b /\ \A u \in T : own2[u] = own[u]
  BY <1>1
<1> HIDE DEF own2
<1>7. Begun(m, m2, T, own, b, words, T2, own2)
  BY <1>1, <1>4, <1>5, <1>6 DEF Begun
<1> QED
  BY <1>1, <1>2, <1>7

LEMMA GrowCarves ==
  ASSUME NEW m, NEW k, NEW B, NEW T, NEW own, NEW rk, NEW lim, Heaped(m, k, B, T, own, {}, rk, lim),
         NEW b \in Slots, b \notin B, NEW acts \in Nat \ {0}, NEW n, n = TagSize(acts),
         NEW words \in Nat, words <= SlotS, n + 3 <= words, Small(words - 3),
         NEW m2, GrownMem(m, m2, b, words),
         NEW h, h = PutFree([mem |-> m2, bkt |-> k], b + 3, b),
         NEW r, r = TagAlloc(h, b + 3, n), NEW m3, m3 = GiveMem(r.heap.mem, b + 3, acts)
  PROVE  Grows(m, m3, B, T, own, b, words, n)
<1> DEFINE t == b + 3
           B2 == B \cup {b}
<1>1. m \in Memory /\ Shape(m, B, T, own) /\ BaseBlk \in B /\ m[BaseBlk + 1] \in B
  BY DEF Heaped, Ring
<1>2. n = acts + 5 /\ n \in Nat /\ 6 <= n
  BY TagSizeIs
<1>3. b \in BlockSet /\ b \in Nat
  BY Rooms DEF BlockSet
<1>4. BlkAdded(m, m2, b) /\ BlockAt(m2, b) /\ m2[b + 2] = words /\ m2[b + 5] = words - 3
  <2>1. 9 <= words
    BY <1>2
  <2> QED
    BY <1>1, <2>1, GrownIs
<1>5. \E T2, own2, rk2, lim2 : /\ Heaped(m2, k, B2, T2, own2, {t}, rk2, lim2)
                               /\ Begun(m, m2, T, own, b, words, T2, own2)
                               /\ SizesKept(m, m2, B)
  BY <1>3, <1>4, AddedBegun
<1>6. PICK T2, own2, rk2, lim2 : /\ Heaped(m2, k, B2, T2, own2, {t}, rk2, lim2)
                                 /\ Begun(m, m2, T, own, b, words, T2, own2)
                                 /\ SizesKept(m, m2, B)
  BY <1>5
<1>7. own2[t] = b /\ m2[t + 2] = words - 3 /\ T2 = T \cup {t} /\ t \notin T
      /\ \A u \in T : own2[u] = own[u] /\ m2[u] = m[u] /\ m2[u + 2] = m[u + 2]
  BY <1>6 DEF Begun
<1> HIDE DEF B2
<1>8. /\ \E rk3, lim3 : Heaped(h.mem, h.bkt, B2, T2, own2, {}, rk3, lim3)
      /\ h.mem[t] = 0 /\ (\A u \in T2 \ {t} : h.mem[u] = m2[u])
      /\ (\A u \in T2 : h.mem[u + 2] = m2[u + 2])
      /\ SizesKept(m2, h.mem, B2)
  <2>1. h = PutFree([mem |-> m2, bkt |-> k], t, own2[t]) /\ Small(m2[t + 2])
    BY <1>7
  <2> HIDE DEF t
  <2>2. PutBack(m2, h, B2, T2, own2, t)
    BY <1>6, <2>1, PutSeen, Zenon
  <2> QED
    BY <2>2 DEF PutBack
<1>9. PICK rk3, lim3 : Heaped(h.mem, h.bkt, B2, T2, own2, {}, rk3, lim3)
  BY <1>8
<1> DEFINE mv == h.mem
           kv == h.bkt
<1>10. r = TagAlloc([mem |-> mv, bkt |-> kv], t, n)
  BY PutFreeRecord
<1> HIDE DEF mv, kv
<1>11. Begun(m, mv, T, own, b, words, T2, own2) /\ mv[t] = 0
  BY <1>7, <1>8 DEF Begun, mv
<1>12. t \in FreeIn(mv, T2, {}) /\ n <= mv[t + 2]
  BY <1>2, <1>7, <1>8 DEF FreeIn, mv
<1>13. Heaped(mv, kv, B2, T2, own2, {}, rk3, lim3) /\ m3 = GiveMem(r.heap.mem, t, acts)
  BY <1>9 DEF mv, kv
<1> HIDE DEF t
<1>14. /\ \E T3, own3 : Carved(mv, m3, T2, own2, t, n, T3, own3) /\ Shape(m3, B2, T3, own3)
       /\ m3 \in Memory /\ SizesKept(mv, m3, B2)
  BY <1>10, <1>12, <1>13, AllocCarves
<1>15. SizesKept(m, m3, B) /\ m3[b + 2] = words
  BY <1>4, <1>6, <1>8, <1>14 DEF SizesKept, B2, mv
<1> QED
  BY <1>11, <1>14, <1>15 DEF Grows, t, B2

LEMMA LargeCarves ==
  ASSUME NEW m, NEW k, NEW B, NEW T, NEW own, NEW rk, NEW lim, Heaped(m, k, B, T, own, {}, rk, lim),
         NEW b \in Slots, b \notin B, NEW acts \in Nat \ {0}, NEW n, n = TagSize(acts), n + 3 <= SlotS,
         NEW t, t = b + 3, NEW m1, NEW m2, LargeMem(m, m1, m2, b, t, n), NEW m3, m3 = AddBlk(m2, b),
         NEW m4, m4 = GiveMem(m3, t, acts)
  PROVE  Grows(m, m4, B, T, own, b, n + 3, n) /\ m3[t + 2] \in Int
<1> DEFINE B2 == B \cup {b}
           words == n + 3
<1>1. m \in Memory /\ Shape(m, B, T, own) /\ BaseBlk \in B /\ m[BaseBlk + 1] \in B
  BY DEF Heaped, Ring
<1>2. n = acts + 5 /\ n \in Nat /\ 6 <= n
  BY TagSizeIs
<1>3. b \in BlockSet /\ b \in Nat /\ Room(b) = SlotS /\ SlotS \in Nat
  BY Rooms, LayoutAssumption DEF BlockSet, Room
<1>4. OutsideSame(m, m2, b) /\ LargeTag(m2, b, t, n)
  BY <1>1, <1>2, LargeIs
<1>5. BlkAdded(m, m3, b) /\ InsideSame(m2, m3, b)
  BY <1>1, <1>4, AddBlkIs
<1>6. m3[b + 2] = words /\ m3[t] = 1 /\ m3[t + 2] = n
  <2>1. \A a \in Int : b <= a /\ a < b + SlotS => a \in Cell
    BY <1>3, Rooms
  <2>2. \A a \in Int : b + 2 <= a /\ a < b + SlotS => m3[a] = m2[a]
    <3> SUFFICES ASSUME NEW a \in Int, b + 2 <= a, a < b + SlotS PROVE m3[a] = m2[a]
      OBVIOUS
    <3>1. a \in Cell /\ a # b /\ a # b + 1 /\ ~Outside(b, a)
      BY <1>3, <2>1 DEF Outside
    <3> QED
      BY <1>5, <3>1 DEF InsideSame
  <2>3. m3[b + 2] = m2[b + 2] /\ m3[t] = m2[t] /\ m3[t + 2] = m2[t + 2]
    <3>1. /\ b + 2 <= t /\ t < b + SlotS /\ b + 2 <= t + 2 /\ t + 2 < b + SlotS
          /\ b + 2 < b + SlotS /\ t \in Int /\ t + 2 \in Int /\ b + 2 \in Int
      BY <1>2, <1>3
    <3> QED
      BY <2>2, <3>1
  <2> QED
    BY <1>4, <2>3 DEF LargeTag
<1>7. t + 2 = b + 5 /\ t \in Nat
  BY <1>3
<1>8. BlockAt(m3, b)
  BY <1>2, <1>3, <1>6, <1>7 DEF BlockAt
<1> HIDE DEF B2, words
<1>9. \E T2, own2, rk2, lim2 : /\ Heaped(m3, k, B \cup {b}, T2, own2, {b + 3}, rk2, lim2)
                               /\ Begun(m, m3, T, own, b, words, T2, own2)
                               /\ SizesKept(m, m3, B)
  BY <1>3, <1>5, <1>6, <1>8, AddedBegun
<1>10. PICK T2, own2, rk2, lim2 : /\ Heaped(m3, k, B2, T2, own2, {t}, rk2, lim2)
                                  /\ Begun(m, m3, T, own, b, words, T2, own2)
                                  /\ SizesKept(m, m3, B)
  BY <1>9 DEF B2
<1>11. t \in T2 /\ T2 = T \cup {t} /\ t \notin T /\ \A u \in T : own2[u] = own[u] /\ m3[u] = m[u] /\ m3[u + 2] = m[u + 2]
  BY <1>10 DEF Begun
<1>12. m3 \in Memory /\ Shape(m3, B2, T2, own2)
  BY <1>10 DEF Heaped
<1>13. Within(m3, m4, t) /\ m4[t] = m3[t] /\ m4[t + 2] = m3[t + 2]
  <2>1. acts \in Nat /\ acts + 5 <= m3[t + 2]
    BY <1>2, <1>6
  <2> QED
    BY <1>11, <1>12, <2>1, GiveMemIs
<1>14. /\ \A u \in T2 : u # t => Untouched(m3, m4, u) /\ m4[u + 2] = m3[u + 2]
       /\ \A x \in B2 : m4[x] = m3[x] /\ m4[x + 1] = m3[x + 1] /\ m4[x + 2] = m3[x + 2]
  BY <1>11, <1>12, <1>13, WithinTag
<1>15. \A u \in T2 : m4[u] = m3[u] /\ m4[u + 2] = m3[u + 2]
  BY <1>12, <1>13, <1>14, UntouchedIs
<1>16. m4 \in Memory /\ Shape(m4, B2, T2, own2)
  <2>1. SameSizes(m3, m4, B2, T2)
    BY <1>14, <1>15 DEF SameSizes
  <2> QED
    BY <1>12, <1>13, <2>1, ShapeSame DEF Within
<1>17. SizesKept(m, m4, B) /\ m4[b + 2] = words
  BY <1>6, <1>10, <1>14 DEF SizesKept, B2
\* As if the tag had been free before it was taken.
<1> DEFINE mv == [m3 EXCEPT ![t] = 0]
<1>18. mv[t] = 0 /\ (\A u \in T : mv[u] = m3[u] /\ mv[u + 2] = m3[u + 2]) /\ mv[t + 2] = m3[t + 2]
  <2>1. \A u \in T2 : u \in Cell /\ u + 2 \in Cell /\ u + 2 # t
    <3> SUFFICES ASSUME NEW u \in T2 PROVE u \in Cell /\ u + 2 \in Cell /\ u + 2 # t
      OBVIOUS
    <3>1. /\ u \in Nat /\ m3[u + 2] \in Nat /\ 6 <= m3[u + 2]
          /\ \A c \in Int : u <= c /\ c < u + m3[u + 2] => c \in Cell
      BY <1>12, Geometry
    <3>2. u = t \/ u + m3[u + 2] <= t \/ t + m3[t + 2] <= u
      BY <1>11, <1>12, Geometry
    <3> QED
      BY <1>2, <1>6, <1>7, <3>1, <3>2
  <2>2. t \in Cell /\ \A u \in T : u # t
    BY <1>11, <2>1
  <2>3. m3 \in [Cell -> Int]
    BY <1>12 DEF Memory
  <2>4. mv[t] = 0 /\ \A c \in Cell : c # t => mv[c] = m3[c]
    BY <2>2, <2>3
  <2> HIDE DEF mv
  <2>5. \A u \in T : u \in T2
    BY <1>11
  <2> QED
    BY <1>11, <2>1, <2>2, <2>4, <2>5
<1> HIDE DEF mv
<1>19. Begun(m, mv, T, own, b, words, T2, own2)
  BY <1>10, <1>18 DEF Begun
<1>20. Carved(mv, m4, T2, own2, t, n, T2, own2)
  <2>1. \A u \in T2 \ {t} : m4[u] = mv[u] /\ m4[u + 2] = mv[u + 2]
    BY <1>11, <1>15, <1>18
  <2>2. m4[t] = 1 /\ m4[t + 2] = mv[t + 2] /\ ~(mv[t + 2] - n > 6)
    BY <1>2, <1>6, <1>13, <1>18
  <2> QED
    BY <2>1, <2>2 DEF Carved
<1>21. Grows(m, m4, B, T, own, b, words, n)
  BY <1>16, <1>17, <1>18, <1>19, <1>20 DEF Grows, B2
<1> QED
  BY <1>2, <1>6, <1>21 DEF words

LEMMA GrowsSeen ==
  ASSUME Base \in sys, sys \subseteq Slots \cup {Base}, Alive, Alive',
         NEW b \in Slots \ sys, sys' = sys \cup {b},
         NEW words \in Nat, words <= SlotS, b + 3 \in BlockBounds, b + words \in BlockBounds,
         NEW n \in Nat \ {0}, n + 3 <= words,
         NEW T, NEW own, mem \in Memory, Shape(mem, BlksOf(sys), T, own),
         Grows(mem, mem', BlksOf(sys), T, own, b, words, n)
  PROVE  A!Next
<1>1. PICK mv, T2, own2, T3, own3 :
        /\ Begun(mem, mv, T, own, b, words, T2, own2) /\ mv[b + 3] = 0
        /\ Carved(mv, mem', T2, own2, b + 3, n, T3, own3)
        /\ mem' \in Memory /\ Shape(mem', BlksOf(sys) \cup {b}, T3, own3)
        /\ SizesKept(mem, mem', BlksOf(sys)) /\ mem'[b + 2] = words
  BY Zenon DEF Grows
<1> QED
  BY <1>1, GrowSeen, Zenon

\* The pool takes a block and allocates from it.
LEMMA SystemGrowSeen == ASSUME PoolInv, Sought, SystemGrow PROVE A!Next
<1>1. pc = "system" /\ Between /\ sys \subseteq Slots \cup {Base} /\ CntTyped(cnt)
  BY DEF SystemGrow, PoolInv, CallInv, NoPool, Destroying, InLast, InFree, Typed
<1>2. Base \in sys /\ Ask(loc) /\ Settled(mem, bkt, cnt, live, BlksOf(sys)) /\ Size2Idx(loc.n) < MaxIdx
  BY <1>1 DEF Between
<1>3. PICK b \in Slots : \E words \in {BlockSize(loc.n), RetrySize(loc.n)} :
       /\ Memalign(b, words)
       /\ LET t  == b + BlkS
              m  == [AddBlk(mem, b) EXCEPT ![bsize(b)] = words, ![size(t)] = words - BlkS]
              h  == PutFree([mem |-> m, bkt |-> bkt], t, b)
              r  == TagAlloc(h, t, loc.n)
          IN  Give(r.heap, t, loc.acts)
       /\ sys' = sys \cup {b}
  BY DEF SystemGrow
<1>4. PICK words \in {BlockSize(loc.n), RetrySize(loc.n)} :
       /\ Memalign(b, words)
       /\ LET t  == b + BlkS
              m  == [AddBlk(mem, b) EXCEPT ![bsize(b)] = words, ![size(t)] = words - BlkS]
              h  == PutFree([mem |-> m, bkt |-> bkt], t, b)
              r  == TagAlloc(h, t, loc.n)
          IN  Give(r.heap, t, loc.acts)
       /\ sys' = sys \cup {b}
  BY <1>3
<1> DEFINE n == loc.n
           acts == loc.acts
           t  == b + 3
           z  == t + 2
           m2 == [AddBlk(mem, b) EXCEPT ![b + 2] = words, ![z] = words - 3]
           h  == PutFree([mem |-> m2, bkt |-> bkt], t, b)
           r  == TagAlloc(h, t, n)
           B  == BlksOf(sys)
           c1 == CountBlk(cnt, words)
<1>5. Memalign(b, words) /\ Give(r.heap, t, acts) /\ sys' = sys \cup {b}
  BY <1>4 DEF BlkS, bsize, size
<1>6. acts \in Nat \ {0} /\ n \in Nat \ {0} /\ 6 <= n /\ n = TagSize(acts)
  BY <1>2, AskIs
<1>7. h = PutFree([mem |-> m2, bkt |-> bkt], b + 3, b)
  OBVIOUS
<1>8. m2 = [AddBlk(mem, b) EXCEPT ![b + 2] = words, ![z] = words - 3]
  OBVIOUS
<1>9. r = TagAlloc(h, t, n)
  OBVIOUS
<1>10. Settled(mem, bkt, cnt, live, B)
  BY <1>2
<1>11. words \in {BlockSize(n), RetrySize(n), n + BlkS}
  BY <1>4
<1> HIDE DEF n, acts, m2, h, r, B
<1>12. b \in Slots \ sys /\ b \notin B
  <2>1. b \in Slots \ sys
    BY <1>5 DEF Memalign
  <2> QED
    BY <1>1, <1>2, <2>1, BlksOfIs DEF B
<1>13. b \in Nat /\ z = b + 5
  BY LayoutAssumption
<1>14. words \in Nat /\ words <= SlotS /\ n + 3 <= words /\ Small(words - 3)
  <2>1. words \in 1 .. SlotS /\ SlotS \in Nat
    BY <1>5, LayoutAssumption DEF Memalign
  <2>2. n \in Nat \ {0} /\ Size2Idx(n) < MaxIdx /\ words \in {BlockSize(n), RetrySize(n)}
    BY <1>2, <1>4, <1>6 DEF n
  <2>3. /\ BlockSize(n) \in Nat /\ BlockSize(n) >= n + BlkS
        /\ RetrySize(n) \in Nat /\ (RetrySize(n) # 0 => RetrySize(n) >= n + BlkS)
        /\ \A w \in {BlockSize(n), RetrySize(n)} : w <= SlotS => Small(w - BlkS)
    BY <2>2, Asked
  <2> QED
    BY <2>1, <2>2, <2>3 DEF BlkS
<1>15. GrownMem(mem, m2, b, words)
  <2> HIDE DEF z
  <2> QED
    BY <1>8, <1>13 DEF GrownMem
<1>16. BlkMore(cnt, c1, words)
  BY <1>1, <1>14, BlkCountIs
<1>17. TagSize(acts) + 3 <= words
  BY <1>6, <1>14
<1>18. r = TagAlloc(h, b + 3, TagSize(acts))
  BY <1>6, <1>9
<1> HIDE DEF c1
<1>19. r.heap.mem[b + 3 + 2] \in Int /\ HeapLike(r.heap)
  BY <1>6, <1>7, <1>10, <1>12, <1>14, <1>15, <1>16, <1>17, <1>18, GrowStep
<1>20. mem' = GiveMem(r.heap.mem, t, acts) /\ pc' = "idle"
  <2> DEFINE hh == r.heap
  <2>1. Give(hh, t, acts) /\ HeapLike(hh) /\ hh.mem[t + 2] \in Int /\ t \in Nat
    BY <1>5, <1>13, <1>19
  <2> HIDE DEF hh, t
  <2>2. mem' = GiveMem(hh.mem, t, acts) /\ pc' = "idle"
    BY <2>1, GiveIs
  <2> QED
    BY <2>2 DEF hh
<1>21. PICK T, own, rk, lim : Good(mem, bkt, cnt, live, B, T, own, {}, rk, lim)
  BY <1>10 DEF Settled
<1>22. Heaped(mem, bkt, B, T, own, {}, rk, lim)
  BY <1>21 DEF Good
<1>23. Grows(mem, mem', B, T, own, b, words, n)
  <2> DEFINE k == bkt
             m3 == mem'
  <2>1. m3 = GiveMem(r.heap.mem, b + 3, acts) /\ h = PutFree([mem |-> m2, bkt |-> k], b + 3, b)
        /\ r = TagAlloc(h, b + 3, n) /\ Heaped(mem, k, B, T, own, {}, rk, lim)
    BY <1>7, <1>9, <1>20, <1>22
  <2> HIDE DEF k, m3, t
  <2>2. Grows(mem, m3, B, T, own, b, words, n)
    BY <1>6, <1>12, <1>14, <1>15, <2>1, GrowCarves
  <2> QED
    BY <2>2 DEF m3
<1>24. mem \in Memory /\ Shape(mem, B, T, own)
  BY <1>22 DEF Heaped
<1>25. b + 3 \in BlockBounds /\ b + words \in BlockBounds
  BY <1>1, <1>11, BoundsIn DEF n
<1>26. Alive /\ Alive'
  BY <1>1, <1>20 DEF Alive
<1> HIDE DEF t
<1> QED
  BY <1>1, <1>2, <1>5, <1>6, <1>12, <1>14, <1>23, <1>24, <1>25, <1>26, GrowsSeen DEF B

\* A block of its own for a large region.
LEMMA LargeSeen == ASSUME PoolInv, Sought, Large PROVE A!Next
<1>1. pc = "large" /\ Between /\ sys \subseteq Slots \cup {Base} /\ CntTyped(cnt)
  BY DEF Large, PoolInv, CallInv, NoPool, Destroying, InLast, InFree, Typed
<1>2. Base \in sys /\ Ask(loc) /\ Settled(mem, bkt, cnt, live, BlksOf(sys))
  BY <1>1 DEF Between
<1>3. PICK b \in Slots :
       LET words == loc.n + BlkS
           t     == b + BlkS
           m1    == [mem EXCEPT ![bsize(b)] = words, ![use(t)] = 1, ![size(t)] = loc.n,
                                ![pre(t)] = t, ![h_blk(t)] = b]
           m2    == [m1 EXCEPT ![ref(foot(m1, t))] = t]
       IN  /\ Memalign(b, words)
           /\ Give([mem |-> AddBlk(m2, b), bkt |-> bkt], t, loc.acts)
           /\ sys' = sys \cup {b}
  BY DEF Large
<1> DEFINE n == loc.n
           acts == loc.acts
           t  == b + 3
           m1 == [mem EXCEPT ![b + 2] = n + 3, ![t] = 1, ![t + 2] = n, ![t + 1] = t, ![t + 3] = b]
           m2 == [m1 EXCEPT ![t + m1[t + 2] - 2 + 1] = t]
           m3 == AddBlk(m2, b)
           B  == BlksOf(sys)
<1>4. Memalign(b, n + 3) /\ Give([mem |-> m3, bkt |-> bkt], t, acts) /\ sys' = sys \cup {b}
  BY <1>3 DEF BlkS, bsize, use, size, pre, h_blk, ref, foot, TailS
<1>5. acts \in Nat \ {0} /\ n \in Nat \ {0} /\ 6 <= n /\ n = TagSize(acts)
  BY <1>2, AskIs
<1>6. LargeMem(mem, m1, m2, b, t, n)
  BY DEF LargeMem
<1>7. m3 = AddBlk(m2, b) /\ Settled(mem, bkt, cnt, live, B) /\ t = b + 3
  BY <1>2
<1> HIDE DEF n, acts, t, m1, m2, m3, B
<1>8. b \in Slots \ sys /\ b \notin B
  <2>1. b \in Slots \ sys
    BY <1>4 DEF Memalign
  <2> QED
    BY <1>1, <1>2, <2>1, BlksOfIs DEF B
<1>9. b \in Nat /\ n + 3 <= SlotS /\ n + 3 \in Nat
  <2>1. n + 3 \in 1 .. SlotS /\ SlotS \in Nat
    BY <1>4, LayoutAssumption DEF Memalign
  <2> QED
    BY <1>5, <2>1, LayoutAssumption
<1>10. PICK T, own, rk, lim : Good(mem, bkt, cnt, live, B, T, own, {}, rk, lim)
  BY <1>7 DEF Settled
<1>11. Heaped(mem, bkt, B, T, own, {}, rk, lim)
  BY <1>10 DEF Good
<1> DEFINE m4 == GiveMem(m3, t, acts)
<1>12. Grows(mem, m4, B, T, own, b, n + 3, n) /\ m3[t + 2] \in Int
  <2> DEFINE k == bkt
  <2>1. m4 = GiveMem(m3, t, acts) /\ Heaped(mem, k, B, T, own, {}, rk, lim)
    BY <1>11
  <2> HIDE DEF k, m4
  <2> QED
    BY <1>5, <1>6, <1>7, <1>8, <1>9, <2>1, LargeCarves
<1> HIDE DEF m4
<1>13. mem' = m4 /\ pc' = "idle"
  <2> DEFINE hh == [mem |-> m3, bkt |-> bkt]
  <2>1. Give(hh, t, acts) /\ HeapLike(hh) /\ hh.mem = m3 /\ hh.mem[t + 2] \in Int /\ t \in Nat
    BY <1>4, <1>7, <1>9, <1>12, PlainHeapLike
  <2> HIDE DEF hh
  <2>2. mem' = GiveMem(hh.mem, t, acts) /\ pc' = "idle"
    BY <2>1, GiveIs
  <2> QED
    BY <2>1, <2>2 DEF m4
<1>14. mem \in Memory /\ Shape(mem, B, T, own)
  BY <1>11 DEF Heaped
<1> DEFINE words == n + 3
<1>15. words \in {BlockSize(loc.n), RetrySize(loc.n), loc.n + BlkS}
  BY DEF n, BlkS
<1>16. words \in Nat /\ words <= SlotS /\ n + 3 <= words
  BY <1>9
<1>17. Grows(mem, mem', B, T, own, b, words, n)
  BY <1>12, <1>13
<1> HIDE DEF words
<1>18. b + 3 \in BlockBounds /\ b + words \in BlockBounds
  BY <1>1, <1>15, BoundsIn
<1>19. Alive /\ Alive'
  BY <1>1, <1>13 DEF Alive
<1> QED
  BY <1>1, <1>2, <1>4, <1>5, <1>8, <1>14, <1>16, <1>17, <1>18, <1>19, GrowsSeen DEF B

-----------------------------------------------------------------------------
(* The steps of which Arena sees nothing, and what begins and ends a pool. *)

\* A step that changes no word of the memory.
LEMMA StillSeen ==
  ASSUME PoolInv,
         \/ \E bytes \in Requests : AllocCall(bytes)
         \/ SearchMiss \/ SearchNone \/ LastNext \/ LastEnd \/ SystemFail \/ LargeFail
  PROVE  UNCHANGED <<ArenaTags, ArenaBlks>>
<1>1. mem' = mem /\ sys' = sys /\ Alive /\ Alive'
  <2>1. CASE \E bytes \in Requests : AllocCall(bytes)
    BY <2>1 DEF AllocCall, Alive
  <2>2. CASE SearchMiss
    BY <2>2 DEF SearchMiss, Alive
  <2>3. CASE SearchNone
    BY <2>3 DEF SearchNone, Alive
  <2>4. CASE LastNext
    BY <2>4 DEF LastNext, Alive
  <2>5. CASE LastEnd
    BY <2>5 DEF LastEnd, Alive
  <2>6. CASE SystemFail
    BY <2>6 DEF SystemFail, GiveNothing, Alive
  <2>7. CASE LargeFail
    BY <2>7 DEF LargeFail, GiveNothing, Alive
  <2> QED
    BY <2>1, <2>2, <2>3, <2>4, <2>5, <2>6, <2>7
<1>2. UNCHANGED <<mem, sys>>
  BY <1>1
<1>3. Alive' = Alive
  BY <1>1
<1> QED
  BY <1>2, <1>3, NothingMoves

LEMMA DestroyStepSeen == ASSUME DestroyStep PROVE UNCHANGED <<ArenaTags, ArenaBlks>>
<1>1. ~Alive /\ ~Alive'
  BY DEF DestroyStep, Alive
<1>2. ArenaTags = A!Empty /\ ArenaBlks = A!Empty
  BY <1>1, SeesNothing DEF NothingSeen
<1>3. (ArenaTags = A!Empty)' /\ (ArenaBlks = A!Empty)'
  BY <1>1, SeesThen DEF NothingSeen
<1> QED
  BY <1>2, <1>3 DEF A!Empty

LEMMA SomeBlock ==
  ASSUME PoolInv, Alive
  PROVE  A!Blk # {}
<1>1. PICK T, own, H, rk, lim : mem \in Memory /\ Good(mem, bkt, cnt, live, BlksOf(sys), T, own, H, rk, lim)
  BY AliveShape
<1>2. mem \in Memory /\ Shape(mem, BlksOf(sys), T, own) /\ BaseBlk \in BlksOf(sys)
  BY <1>1 DEF Good, Heaped
<1>3. ArenaBlks = BlkMap(mem, BlksOf(sys))
  BY <1>2, Sees DEF ShapeSeen, Seen
<1>4. DOMAIN ArenaBlks = {b + 3 : b \in BlksOf(sys)}
  BY <1>3, Zenon DEF BlkMap
<1> QED
  BY <1>2, <1>4 DEF A!Blk

LEMMA DestroyCallSeen == ASSUME PoolInv, DestroyCall PROVE A!Next
<1>1. Alive /\ ~Alive'
  BY DEF DestroyCall, Alive
<1>2. A!Blk # {}
  BY <1>1, SomeBlock
<1>3. ArenaTags' = A!Empty /\ ArenaBlks' = A!Empty
  <2>1. (ArenaTags = A!Empty)' /\ (ArenaBlks = A!Empty)'
    BY <1>1, SeesThen DEF NothingSeen
  <2> QED
    BY <2>1 DEF A!Empty
<1> QED
  BY <1>2, <1>3 DEF A!Next, A!Destroy

\* The first block.
LEMMA PoolInitSeen == ASSUME PoolInv, PoolInit PROVE A!Next
<1>1. pc = "none" /\ sys = {} /\ live = <<>> /\ mem \in Memory
  BY DEF PoolInit, PoolInv, CallInv, NoPool, Destroying, Between, InLast, InFree, Typed
<1> DEFINE n == PageS - PoolHdr
           m == [mem EXCEPT ![size(BaseTag)] = n,
                            ![bnxt(BaseBlk)] = BaseBlk, ![bpre(BaseBlk)] = BaseBlk,
                            ![bsize(BaseBlk)] = n + BlkS]
           h == PutFree([mem |-> m, bkt |-> EmptyBuckets], BaseTag, BaseBlk)
           c == [NoCounts EXCEPT !.blk = 1, !.alloc = PageS]
           B == {BaseBlk}
           T == {BaseTag}
<1>2. SetHeap(h) /\ sys' = {Base} /\ pc' = "idle"
  BY DEF PoolInit
<1>3. FirstMem(mem, m)
  BY DEF FirstMem, size, bnxt, bpre, bsize, BlkS
<1>4. FirstCounts(c)
  BY NoCountsTyped
<1>5. DOMAIN live = {}
  BY <1>1
<1> HIDE DEF m, n, c
<1>6. /\ m \in Memory /\ BaseTag = BaseBlk + 3 /\ BaseTag \in Nat /\ m[BaseTag + 2] = PageS - PoolHdr
      /\ 6 <= PageS - PoolHdr /\ PageS - PoolHdr \in Nat /\ m[BaseBlk + 2] = PageS - PoolHdr + 3
  BY <1>1, <1>3, FirstIs
<1>7. PICK own, rk, lim : /\ Good(m, EmptyBuckets, c, live, {BaseBlk}, {BaseTag}, own, {BaseTag}, rk, lim)
                          /\ own[BaseTag] = BaseBlk
                          /\ Small(m[BaseBlk + 2] - 3) /\ Small(m[BaseTag + 2])
  BY <1>1, <1>3, <1>4, <1>5, FirstGood
<1>8. PutBack(m, h, B, T, own, BaseTag)
  <2> DEFINE k == EmptyBuckets
             t == BaseTag
  <2>1. Heaped(m, k, B, T, own, {t}, rk, lim) /\ h = PutFree([mem |-> m, bkt |-> k], t, own[t])
        /\ Small(m[t + 2])
    BY <1>7 DEF Good
  <2> HIDE DEF k, t, B, T, h
  <2>2. PutBack(m, h, B, T, own, t)
    BY <2>1, PutSeen, Zenon
  <2> QED
    BY <2>2 DEF t
<1> HIDE DEF h
<1>9. mem' = h.mem
  BY <1>2 DEF SetHeap
<1>10. /\ mem'[BaseTag] = 0 /\ mem'[BaseTag + 2] = m[BaseTag + 2] /\ mem' \in Memory
       /\ Shape(mem', B, T, own) /\ mem'[BaseBlk + 2] = m[BaseBlk + 2]
  BY <1>8, <1>9 DEF PutBack, SizesKept
<1>11. B = BlksOf(sys')
  BY <1>2 DEF BlksOf
<1>12. Alive' /\ ~Alive
  BY <1>1, <1>2 DEF Alive
<1>13. ArenaTags' = TagMap(mem', T, own) /\ ArenaBlks' = BlkMap(mem', B)
  <2>1. Shape(mem', BlksOf(sys'), T, own)
    BY <1>10, <1>11
  <2> QED
    BY <1>10, <1>11, <1>12, <2>1, SeesThen DEF ShapeSeen, Seen
<1>14. ArenaTags = A!Empty /\ ArenaBlks = A!Empty
  BY <1>12, SeesNothing DEF NothingSeen
<1> DEFINE end == Base + PageS
<1>15. end - BaseTag = PageS - PoolHdr /\ BaseBlk \in Nat /\ BaseTag - 3 = BaseBlk
       /\ BaseBlk + (PageS - PoolHdr + 3) = end /\ end > BaseTag
  <2>1. Base \in Nat /\ PageS \in Nat /\ PoolHdr \in Nat /\ BaseTag = Base + PoolHdr
    BY LayoutAssumption DEF BaseTag
  <2>2. BaseBlk \in Nat
    BY Rooms, LayoutAssumption DEF BaseBlk, BlkS, BlockSet
  <2> QED
    BY <1>6, <2>1, <2>2
<1>16. DOMAIN A!Empty = {}
  BY DEF A!Empty
<1>17. ArenaTags' = A!WithTag(ArenaTags, BaseTag, end)
  <2>1. \A u \in T : [size |-> mem'[u + 2], used |-> mem'[u] = 1, blk |-> own[u] + 3]
                      = [size |-> end - BaseTag, used |-> FALSE, blk |-> BaseTag]
    <3>1. (mem'[BaseTag] = 1) = FALSE
      BY <1>10
    <3>2. mem'[BaseTag + 2] = end - BaseTag /\ own[BaseTag] + 3 = BaseTag
      BY <1>6, <1>7, <1>10, <1>15
    <3> QED
      BY <3>1, <3>2
  <2>2. T = DOMAIN ArenaTags \cup {BaseTag}
    BY <1>14, <1>16
  <2>3. A!WithTag(ArenaTags, BaseTag, end) = [u \in T |-> [size |-> end - BaseTag, used |-> FALSE, blk |-> BaseTag]]
    BY <2>2 DEF A!WithTag
  <2>4. TagMap(mem', T, own) = [u \in T |-> [size |-> mem'[u + 2], used |-> mem'[u] = 1, blk |-> own[u] + 3]]
    BY Zenon DEF TagMap
  <2> HIDE DEF T, end
  <2> QED
    BY <1>13, <2>1, <2>3, <2>4
<1>18. ArenaBlks' = A!WithBlk(BaseTag, end)
  <2>1. A!Blk \cup {BaseTag} = {BaseTag} /\ {b + 3 : b \in B} = {BaseTag}
    BY <1>6, <1>14, <1>16 DEF A!Blk
  <2>2. BlkMap(mem', B) = [f \in {BaseTag} |-> (f - 3) + mem'[(f - 3) + 2]]
    BY <2>1, Zenon DEF BlkMap
  <2>3. (BaseTag - 3) + mem'[(BaseTag - 3) + 2] = end
    BY <1>6, <1>10, <1>15
  <2>4. A!WithBlk(BaseTag, end) = [f \in {BaseTag} |-> end]
    BY <2>1 DEF A!WithBlk
  <2> HIDE DEF end
  <2> QED
    BY <1>13, <2>2, <2>3, <2>4
<1>19. A!Create(end) /\ end \in BlockBounds
  BY <1>14, <1>15, <1>16, <1>17, <1>18 DEF A!Create, A!Blk, BlockBounds
<1> QED
  BY <1>19 DEF A!Next

-----------------------------------------------------------------------------
(* A block goes back to the system. *)

\* The block b is one tag, which is in hand.
OneTag(m, k, B, T, own, rk, lim, b) ==
  Heaped(m, k, B, T, own, {b + 3}, rk, lim) /\ Follows(m, b, m[b + 2] - 3, 5)

\* Of m it has been dropped.
Gone(m, m2, k, B, T, own, rk, lim, b) ==
  /\ WithoutBlock(m2, k, B, T, own, rk, lim, b) /\ SizesKept(m, m2, B \ {b})
  /\ \A u \in T : u # b + 3 => Untouched(m, m2, u)

LEMMA DropKeeps ==
  ASSUME NEW m, NEW k, NEW B, NEW T, NEW own, NEW rk, NEW lim, NEW b \in B, b # BaseBlk,
         OneTag(m, k, B, T, own, rk, lim, b), NEW m2, m2 = Wipe(RmBlk(m, b), b)
  PROVE  Gone(m, m2, k, B, T, own, rk, lim, b)
<1>1. Heaped(m, k, B, T, own, {b + 3}, rk, lim) /\ Follows(m, b, m[b + 2] - 3, 5)
  BY DEF OneTag
<1>2. /\ Shape(m, B, T, own) /\ m \in Memory /\ BaseBlk \in B
      /\ Ring(m, B, m[BaseBlk + 1], 0, 1, rk)
  BY <1>1 DEF Heaped
<1>3. m[b] \in B \ {b} /\ m[b + 1] \in B \ {b}
  <2> DEFINE p == m[b]
             s == m[b + 1]
  <2>1. \A x \in B : m[x + 1] \in B /\ m[x + 0] \in B /\ m[m[x + 1] + 0] = x /\ m[m[x + 0] + 1] = x
    BY <1>2 DEF Ring
  <2>2. \A x \in B : x + 0 = x
    BY <1>2, Geometry
  <2>3. p \in B /\ s \in B /\ m[s] = b /\ m[p + 1] = b
    BY <2>1, <2>2
  <2>4. b # s
    <3>1. SUFFICES ASSUME b = s PROVE FALSE
      OBVIOUS
    <3>2. Follows(m, b, b, 1)
      BY <3>1 DEF Follows
    <3> DEFINE head == m[BaseBlk + 1]
    <3> HIDE DEF head
    <3>3. Ring(m, B, head, 0, 1, rk)
      BY <1>2 DEF head
    <3>4. Only(B, head, b)
      BY <3>2, <3>3, RingAlone
    <3> QED
      BY <1>2, <3>4 DEF Only
  <2> QED
    BY <2>3, <2>4
<1>4. BlkDropped(m, m2, b)
  BY <1>2, <1>3, DroppedIs
<1>5. /\ WithoutBlock(m2, k, B, T, own, rk, lim, b)
      /\ \A u \in T : u # b + 3 => Untouched(m, m2, u)
      /\ SizesKept(m, m2, B \ {b})
  BY <1>1, <1>4, DroppedHeap
<1> QED
  BY <1>5, Zenon DEF Gone

LEMMA DropSeen ==
  ASSUME Base \in sys, sys \subseteq Slots \cup {Base}, Alive, Alive',
         NEW b \in BlksOf(sys), b # BaseBlk, sys' = sys \ {b},
         NEW T, NEW own, NEW rk, NEW lim, OneTag(mem, bkt, BlksOf(sys), T, own, rk, lim, b),
         mem' = Wipe(RmBlk(mem, b), b)
  PROVE  A!Next
<1> DEFINE B == BlksOf(sys)
           C == B \ {b}
           t == b + 3
           T2 == T \ {t}
           own2 == [u \in T2 |-> own[u]]
<1>1. BlksOf(sys') = C /\ BaseBlk \in B /\ b \in B
  BY BlksOfIs
<1>2. /\ WithoutBlock(mem', bkt, B, T, own, rk, lim, b) /\ SizesKept(mem, mem', C)
      /\ \A u \in T : u # t => Untouched(mem, mem', u)
  <2> DEFINE m2 == mem'
             k == bkt
  <2>1. OneTag(mem, k, B, T, own, rk, lim, b) /\ m2 = Wipe(RmBlk(mem, b), b)
    OBVIOUS
  <2> HIDE DEF m2, k, B
  <2>2. Gone(mem, m2, k, B, T, own, rk, lim, b)
    BY <1>1, <2>1, DropKeeps
  <2> QED
    BY <2>2 DEF m2, k, Gone
<1>3. mem \in Memory /\ Shape(mem, B, T, own) /\ Follows(mem, b, mem[b + 2] - 3, 5)
  BY DEF OneTag, Heaped
<1>4. mem' \in Memory /\ Shape(mem', C, T2, own2)
  BY <1>2 DEF WithoutBlock, Heaped
<1> HIDE DEF B
<1>5. b \in Nat /\ B \subseteq Nat /\ t \in T /\ mem[t + 2] = mem[b + 2] - 3 /\ mem[b + 2] \in Nat
      /\ BaseTag = BaseBlk + 3 /\ BaseBlk \in Nat
  <2>0. Shape(mem, B, T, own)
    BY <1>3
  <2>1. b + 3 \in T /\ mem[b + 2] \in Nat /\ b \in Nat /\ B \subseteq Nat /\ BaseBlk \in Nat
    <3>1. b + 3 \in T /\ mem[b + 2] \in Nat
      BY <1>1, <2>0 DEF Shape
    <3>2. B \subseteq Nat
      BY <2>0, Geometry
    <3> QED
      BY <1>1, <3>1, <3>2
  <2>2. b + 3 + 2 = b + 5
    BY <2>1
  <2>3. BaseTag = BaseBlk + 3
    BY LayoutAssumption DEF BaseTag, BaseBlk, BlkS
  <2> QED
    BY <1>3, <2>1, <2>2, <2>3 DEF Follows
<1>6. ArenaTags = TagMap(mem, T, own) /\ ArenaBlks = BlkMap(mem, B)
  BY <1>3, Sees DEF ShapeSeen, Seen, B
<1>7. ArenaTags' = TagMap(mem', T2, own2) /\ ArenaBlks' = BlkMap(mem', C)
  <2>1. Shape(mem', BlksOf(sys'), T2, own2)
    BY <1>1, <1>4
  <2> QED
    BY <1>1, <1>4, <2>1, SeesThen DEF ShapeSeen, Seen
<1>8. ArenaTags' = [u \in DOMAIN ArenaTags \ {t} |-> ArenaTags[u]]
  <2>1. \A u \in T2 : mem'[u] = mem[u] /\ mem'[u + 2] = mem[u + 2] /\ own2[u] = own[u]
    BY <1>2, <1>3, UntouchedIs
  <2>2. DOMAIN ArenaTags = T
    BY <1>6, Zenon DEF TagMap
  <2>3. \A u \in T : ArenaTags[u] = [size |-> mem[u + 2], used |-> mem[u] = 1, blk |-> own[u] + 3]
    BY <1>6, Zenon DEF TagMap
  <2>4. \A u \in T2 : [size |-> mem'[u + 2], used |-> mem'[u] = 1, blk |-> own2[u] + 3] = ArenaTags[u]
    BY <2>1, <2>3
  <2>5. ArenaTags' = [u \in T2 |-> [size |-> mem'[u + 2], used |-> mem'[u] = 1, blk |-> own2[u] + 3]]
    BY <1>7, Zenon DEF TagMap
  <2>6. DOMAIN ArenaTags \ {t} = T2
    BY <2>2
  <2> HIDE DEF T2, own2
  <2> QED
    BY <2>4, <2>5, <2>6
<1>9. ArenaBlks' = [f \in DOMAIN ArenaBlks \ {t} |-> ArenaBlks[f]]
  <2> DEFINE F == {x + 3 : x \in B}
             F2 == {x + 3 : x \in C}
  <2>1. F2 = F \ {t}
    BY <1>5
  <2>2. DOMAIN ArenaBlks = F
    BY <1>6, Zenon DEF BlkMap
  <2>3. \A f \in F : ArenaBlks[f] = (f - 3) + mem[(f - 3) + 2]
    BY <1>6, Zenon DEF BlkMap
  <2>4. ArenaBlks' = [f \in F2 |-> (f - 3) + mem'[(f - 3) + 2]]
    BY <1>7, Zenon DEF BlkMap
  <2>5. \A f \in F2 : (f - 3) + mem'[(f - 3) + 2] = ArenaBlks[f]
    <3> SUFFICES ASSUME NEW x \in C
                 PROVE  ((x + 3) - 3) + mem'[((x + 3) - 3) + 2] = ArenaBlks[x + 3]
      OBVIOUS
    <3>1. (x + 3) - 3 = x /\ x \in B
      BY <1>5
    <3>2. mem'[((x + 3) - 3) + 2] = mem[((x + 3) - 3) + 2]
      BY <1>2, <3>1 DEF SizesKept
    <3>3. ArenaBlks[x + 3] = ((x + 3) - 3) + mem[((x + 3) - 3) + 2]
      BY <2>3, <3>1
    <3> QED
      BY <3>2, <3>3
  <2> HIDE DEF F, F2
  <2> QED
    BY <2>1, <2>2, <2>4, <2>5
<1>10. t \in A!Blk \ {BaseTag} /\ t \in A!Tag
  <2>1. DOMAIN ArenaBlks = {x + 3 : x \in B} /\ DOMAIN ArenaTags = T
    BY <1>6, Zenon DEF BlkMap, TagMap
  <2>2. t \in DOMAIN ArenaBlks
    BY <1>1, <2>1
  <2>3. t # BaseTag
    BY <1>5
  <2> QED
    BY <1>5, <2>1, <2>2, <2>3 DEF A!Blk, A!Tag
<1>11. A!EndOf(t) = ArenaBlks[t]
  <2>1. \A f \in {x + 3 : x \in B} : ArenaBlks[f] = (f - 3) + mem[(f - 3) + 2]
    BY <1>6, Zenon DEF BlkMap
  <2>2. ArenaBlks[t] = (t - 3) + mem[(t - 3) + 2]
    BY <1>1, <2>1
  <2>3. ArenaTags[t].size = mem[t + 2]
    <3>1. t \in T
      BY <1>5
    <3> HIDE DEF t
    <3>2. ArenaTags[t] = [size |-> mem[t + 2], used |-> mem[t] = 1, blk |-> own[t] + 3]
      BY <1>6, <3>1, Zenon DEF TagMap
    <3> QED
      BY <3>2
  <2>4. t - 3 = b
    BY <1>5
  <2> QED
    BY <1>5, <2>2, <2>3, <2>4 DEF A!EndOf
<1> HIDE DEF t
<1>12. A!Drop(t)
  BY <1>8, <1>9, <1>10, <1>11 DEF A!Drop, A!Blk, A!Tag
<1> QED
  BY <1>10, <1>12 DEF A!Next

\* Where the tag in hand stands: it is used until it is merged.
InHand == pc = "coalesce" => mem[loc.tag] = IF loc.steps = 0 THEN 1 ELSE 0

\* A region is given back: its block goes, or nothing is seen of it yet.
LEMMA FreeCallSeen ==
  ASSUME PoolInv, NEW a \in DOMAIN live, FreeCall(a)
  PROVE  (A!Next \/ UNCHANGED <<ArenaTags, ArenaBlks>>) /\ InHand'
<1>1. pc = "idle" /\ Between /\ sys \subseteq Slots \cup {Base}
      /\ CntTyped(cnt) /\ mem \in Memory /\ loc \in LocType
  BY DEF FreeCall, PoolInv, CallInv, NoPool, Destroying, InLast, InFree, Typed
<1>2. Base \in sys /\ Settled(mem, bkt, cnt, live, BlksOf(sys))
  BY <1>1 DEF Between
<1> DEFINE t == a - HeadS
           B == BlksOf(sys)
           d == [cnt EXCEPT !.inuse = @ - mem[size(t)]]
<1>3. IF Size2Idx(mem[size(t)]) = MaxIdx
      THEN /\ mem' = Wipe(RmBlk(mem, t - BlkS), t - BlkS) /\ sys' = sys \ {t - BlkS}
           /\ pc' = pc /\ loc' = loc
      ELSE /\ mem' = [mem EXCEPT ![ref(foot(mem, t))] = t] /\ pc' = "coalesce"
           /\ loc' = [NoLoc EXCEPT !.tag = t, !.blk = mem[h_blk(t)]] /\ sys' = sys
  BY DEF FreeCall
<1>4. PICK T, own, rk, lim : Good(mem, bkt, cnt, live, B, T, own, {}, rk, lim)
  BY <1>2 DEF Settled
<1>5. t \in Nat /\ t + 4 = a /\ t + 4 \in DOMAIN live /\ mem[t + 2] \in Nat \ {0}
  <2>1. Held(mem, live, UsedIn(mem, T, {})) /\ Heaped(mem, bkt, B, T, own, {}, rk, lim)
    BY <1>4 DEF Good
  <2>2. PICK u \in UsedIn(mem, T, {}) : a = u + 4
    BY <2>1 DEF Held
  <2>3. u \in T /\ Shape(mem, B, T, own)
    BY <2>1, <2>2 DEF UsedIn, Heaped
  <2>4. u \in Nat /\ mem[u + 2] \in Nat /\ 6 <= mem[u + 2]
    BY <2>3, Geometry
  <2>5. t = u
    BY <2>2, <2>4 DEF HeadS
  <2> QED
    BY <2>2, <2>4, <2>5
<1> HIDE DEF t, B
<1>6. InuseLess(cnt, d, mem[t + 2])
  <2>1. cnt \in [Fields -> Int]
    BY <1>1 DEF CntTyped
  <2>2. cnt.inuse - mem[t + 2] \in Int
    BY <1>5, <2>1 DEF Fields
  <2>3. d = [cnt EXCEPT !.inuse = cnt.inuse - mem[t + 2]]
    BY DEF size
  <2> HIDE DEF d
  <2> QED
    BY <1>1, <2>2, <2>3, InuseIs DEF InuseLess
<1> HIDE DEF d
<1>7. /\ Good(mem, bkt, d, Without(live, t + 4), B, T, own, {t}, rk, lim)
      /\ Returned(mem, T, own, t)
  <2>1. t \in Int /\ t + 4 \in DOMAIN live
    BY <1>5
  <2>2. Good(mem, bkt, cnt, live, B, T, own, {}, rk, lim)
    BY <1>4
  <2> QED
    BY <2>1, <2>2, <1>6, TakeGood, Zenon
<1>8. t \in T /\ mem[t] = 1 /\ mem[t + 3] = own[t] /\ mem[t + mem[t + 2] - 1] = t
  BY <1>7 DEF Returned
<1>9. t + mem[t + 2] - 2 + 1 = t + mem[t + 2] - 1
  BY <1>5
<1>10. Size2Idx(mem[t + 2]) \in 0 .. MaxIdx /\ (Size2Idx(mem[t + 2]) < MaxIdx <=> Small(mem[t + 2]))
       /\ MaxIdx \in Nat \ {0}
  BY <1>5, SmallIs
<1> DEFINE lv == Without(live, t + 4)
<1>11. CASE Size2Idx(mem[t + 2]) = MaxIdx
  <2>1. ~Small(mem[t + 2])
    BY <1>10, <1>11
  <2> DEFINE b == own[t]
  <2>2. Good(mem, bkt, d, lv, B, T, own, {t}, rk, lim)
    BY <1>7
  <2> HIDE DEF lv
  <2>3. b \in B /\ t = b + 3 /\ b # BaseBlk /\ mem[b + 5] = mem[b + 2] - 3
    BY <1>8, <2>1, <2>2, LargeIsBlock
  <2>4. OneTag(mem, bkt, B, T, own, rk, lim, b)
    <3>1. Heaped(mem, bkt, B, T, own, {b + 3}, rk, lim)
      BY <2>2, <2>3 DEF Good
    <3>2. Follows(mem, b, mem[b + 2] - 3, 5)
      BY <2>3 DEF Follows
    <3> QED
      BY <3>1, <3>2 DEF OneTag
  <2> HIDE DEF b
  <2>5. b \in Slots
    BY <1>1, <1>2, <2>3, BlksOfIs DEF B
  <2>6. b \in Nat /\ t - BlkS = b
    BY <1>5, <2>3, <2>5, LayoutAssumption DEF BlkS
  <2>7. mem' = Wipe(RmBlk(mem, b), b) /\ sys' = sys \ {b} /\ pc' = "idle"
    BY <1>1, <1>3, <1>11, <2>6 DEF size
  <2>8. Alive /\ Alive' /\ InHand'
    BY <1>1, <2>7 DEF Alive, InHand
  <2>9. A!Next
    BY <1>1, <1>2, <2>3, <2>4, <2>7, <2>8, DropSeen DEF B
  <2> QED
    BY <2>8, <2>9
<1>12. CASE Size2Idx(mem[t + 2]) # MaxIdx
  <2>1. /\ mem' = [mem EXCEPT ![t + mem[t + 2] - 1] = t] /\ pc' = "coalesce"
        /\ loc' = [NoLoc EXCEPT !.tag = t, !.blk = mem[t + 3]] /\ sys' = sys
    BY <1>3, <1>9, <1>12 DEF size, ref, foot, TailS, h_blk
  <2>2. mem' = mem
    BY <1>1, <1>8, <2>1 DEF Memory
  <2>3. loc'.tag = t /\ loc'.steps = 0
    <3> DEFINE l0 == NoLoc
               l1 == [l0 EXCEPT !.tag = t]
    <3>1. loc' = [l1 EXCEPT !.blk = mem[t + 3]]
      BY <2>1
    <3>2. l0 \in LocType /\ l0.steps = 0
      BY NoLocIs
    <3> HIDE DEF l0
    <3>3. l1 \in LocType /\ l1.tag = t /\ l1.steps = 0
      BY <1>5, <3>2 DEF LocType
    <3> HIDE DEF l1
    <3> QED
      BY <3>1, <3>3 DEF LocType
  <2>4. InHand'
    BY <1>8, <2>2, <2>3 DEF InHand
  <2>5. UNCHANGED <<mem, sys>> /\ Alive' = Alive
    BY <1>1, <2>1, <2>2 DEF Alive
  <2>6. UNCHANGED <<ArenaTags, ArenaBlks>>
    BY <2>5, NothingMoves
  <2> QED
    BY <2>4, <2>6
<1> QED
  BY <1>11, <1>12

-----------------------------------------------------------------------------
(* A region is given back. *)

\* The tags P have become one, from s to e.
MergedAs(m, m2, T, own, t, s, e, P, T2, own2) ==
  /\ T2 = (T \ P) \cup {s} /\ m2[s] = 0 /\ m2[s + 2] = e - s /\ own2[s] = own[t]
  /\ \A u \in T2 \ {s} : m2[u] = m[u] /\ m2[u + 2] = m[u + 2] /\ own2[u] = own[u]

LEMMA MergeSeen ==
  ASSUME NEW m, NEW m2, NEW T, NEW own, NEW t \in T, NEW s, NEW e, NEW P, NEW T2, NEW own2,
         MergedAs(m, m2, T, own, t, s, e, P, T2, own2), P = A!Lower(t) \cup A!Upper(t) \cup {t},
         ArenaTags = TagMap(m, T, own), ArenaTags' = TagMap(m2, T2, own2)
  PROVE  A!Merge(t, s, e)
<1>1. DOMAIN ArenaTags = T
  BY Zenon DEF TagMap
<1>2. \A u \in T : ArenaTags[u] = [size |-> m[u + 2], used |-> m[u] = 1, blk |-> own[u] + 3]
  BY Zenon DEF TagMap
<1>3. ArenaTags[t].blk = own[t] + 3
  <2>1. ArenaTags[t] = [size |-> m[t + 2], used |-> m[t] = 1, blk |-> own[t] + 3]
    BY <1>2
  <2> QED
    BY <2>1
<1>4. ArenaTags' = [u \in T2 |-> [size |-> m2[u + 2], used |-> m2[u] = 1, blk |-> own2[u] + 3]]
  BY Zenon DEF TagMap
<1>5. /\ T2 = (T \ P) \cup {s} /\ m2[s + 2] = e - s /\ own2[s] = own[t] /\ m2[s] = 0
      /\ \A u \in T2 \ {s} : m2[u] = m[u] /\ m2[u + 2] = m[u + 2] /\ own2[u] = own[u]
  BY DEF MergedAs
<1>6. (m2[s] = 1) = FALSE
  BY <1>5
<1>7. \A u \in T2 : [size |-> m2[u + 2], used |-> m2[u] = 1, blk |-> own2[u] + 3]
                     = IF u = s THEN [size |-> e - s, used |-> FALSE, blk |-> ArenaTags[t].blk] ELSE ArenaTags[u]
  <2> SUFFICES ASSUME NEW u \in T2
               PROVE  [size |-> m2[u + 2], used |-> m2[u] = 1, blk |-> own2[u] + 3]
                      = IF u = s THEN [size |-> e - s, used |-> FALSE, blk |-> ArenaTags[t].blk] ELSE ArenaTags[u]
    OBVIOUS
  <2>1. CASE u = s
    BY <1>3, <1>5, <1>6, <2>1, Zenon
  <2>2. CASE u # s
    <3>1. u \in T /\ m2[u] = m[u] /\ m2[u + 2] = m[u + 2] /\ own2[u] = own[u]
      BY <1>5, <2>2
    <3> QED
      BY <1>2, <2>2, <3>1
  <2> QED
    BY <2>1, <2>2
<1>8. (A!Tag \ (A!Lower(t) \cup A!Upper(t) \cup {t})) \cup {s} = T2
  BY <1>1, <1>5, Zenon DEF A!Tag
<1>9. ArenaTags' = [u \in (A!Tag \ (A!Lower(t) \cup A!Upper(t) \cup {t})) \cup {s} |->
                      IF u = s THEN [size |-> e - s, used |-> FALSE, blk |-> ArenaTags[t].blk] ELSE ArenaTags[u]]
  BY <1>4, <1>7, <1>8, Zenon
<1> QED
  BY <1>9, Zenon DEF A!Merge

\* The free tags that the tag in hand borders on.
LowerIn(m, F, t) == {u \in F : u + m[u + 2] = t}
UpperIn(m, F, t) == {u \in F : u = t + m[t + 2]}

Borders(T, t) ==
  /\ A!Lower(t) = LowerIn(mem, FreeIn(mem, T, {t}), t)
  /\ A!Upper(t) = UpperIn(mem, FreeIn(mem, T, {t}), t)
  /\ t \in A!Tag /\ ArenaTags[t].used
  /\ \A u \in T : A!EndOf(u) = u + mem[u + 2]

LEMMA Neighbours ==
  ASSUME NEW k, NEW B, NEW T, NEW own, NEW rk, NEW lim, NEW t,
         Heaped(mem, k, B, T, own, {t}, rk, lim), mem[t] = 1, ArenaTags = TagMap(mem, T, own)
  PROVE  Borders(T, t)
<1> DEFINE F == FreeIn(mem, T, {t})
<1>1. t \in T /\ \A u \in T \ {t} : mem[u] \in {0, 1}
  BY DEF Heaped, Marked
<1>2. DOMAIN ArenaTags = T
  BY Zenon DEF TagMap
<1>3. \A u \in T : ArenaTags[u] = [size |-> mem[u + 2], used |-> mem[u] = 1, blk |-> own[u] + 3]
  BY Zenon DEF TagMap
<1>4. \A u \in T : ArenaTags[u].size = mem[u + 2] /\ ArenaTags[u].used = (mem[u] = 1)
  <2> SUFFICES ASSUME NEW u \in T PROVE ArenaTags[u].size = mem[u + 2] /\ ArenaTags[u].used = (mem[u] = 1)
    OBVIOUS
  <2>1. ArenaTags[u] = [size |-> mem[u + 2], used |-> mem[u] = 1, blk |-> own[u] + 3]
    BY <1>3
  <2> QED
    BY <2>1
<1>5. \A u \in T : A!EndOf(u) = u + mem[u + 2]
  BY <1>4 DEF A!EndOf
<1>6. \A u : A!IsFree(u) <=> u \in F
  <2> SUFFICES ASSUME NEW u PROVE A!IsFree(u) <=> u \in F
    OBVIOUS
  <2>1. CASE u \notin T
    BY <1>2, <2>1 DEF A!IsFree, A!Tag, FreeIn
  <2>2. CASE u \in T
    <3>1. A!IsFree(u) <=> ~ArenaTags[u].used
      BY <1>2, <2>2, Zenon DEF A!IsFree, A!Tag
    <3>2. ArenaTags[u].used = (mem[u] = 1)
      BY <1>4, <2>2
    <3>3. ~(mem[u] = 1) <=> u \in F
      BY <1>1, <2>2 DEF FreeIn
    <3> QED
      BY <3>1, <3>2, <3>3, Zenon
  <2> QED
    BY <2>1, <2>2
<1>7. ArenaTags[t].used
  <2>1. ArenaTags[t].used = (mem[t] = 1)
    BY <1>1, <1>4
  <2> QED
    BY <2>1
<1>8. \A u \in F : u \in T
  BY DEF FreeIn
<1>9. t \in A!Tag /\ A!Tag = T
  BY <1>1, <1>2 DEF A!Tag
<1> HIDE DEF F
<1>10. A!Lower(t) = {u \in F : u + mem[u + 2] = t}
  BY <1>5, <1>6, <1>8, <1>9, Zenon DEF A!Lower
<1>11. A!Upper(t) = {u \in F : u = t + mem[t + 2]}
  <2>1. A!EndOf(t) = t + mem[t + 2]
    BY <1>1, <1>5
  <2> QED
    BY <1>6, <1>8, <1>9, <2>1, Zenon DEF A!Upper
<1> QED
  BY <1>5, <1>7, <1>9, <1>10, <1>11 DEF F, LowerIn, UpperIn, Borders

\* The tag in hand goes into its bucket, and borders on no free tag.
LEMMA PutInSeen ==
  ASSUME Alive, Alive', sys' = sys,
         NEW T, NEW own, NEW rk, NEW lim, NEW t, NEW b,
         Hand(mem, bkt, cnt, live, BlksOf(sys), T, own, rk, lim, t, b), Lonely(mem, FreeIn(mem, T, {t}), t),
         mem[t] \in {0, 1}, NEW h, h = PutFree([mem |-> mem, bkt |-> bkt], t, b), mem' = h.mem
  PROVE  A!Next \/ UNCHANGED <<ArenaTags, ArenaBlks>>
<1> DEFINE B == BlksOf(sys)
           F == FreeIn(mem, T, {t})
<1>1. Heaped(mem, bkt, B, T, own, {t}, rk, lim) /\ own[t] = b /\ Small(mem[b + 2] - 3)
  BY DEF Hand, Good
<1>2. Shape(mem, B, T, own) /\ t \in T /\ mem \in Memory
  BY <1>1 DEF Heaped
<1> HIDE DEF B
<1>3. Small(mem[t + 2]) /\ t \in Nat /\ mem[t + 2] \in Nat
  <2>1. t \in Nat /\ mem[t + 2] \in Nat /\ own[t] \in B
    BY <1>2 DEF Shape
  <2>2. own[t] + 3 <= t /\ t + mem[t + 2] <= own[t] + mem[own[t] + 2] /\ mem[own[t] + 2] \in Nat
    BY <1>2, <2>1 DEF Shape
  <2>3. own[t] \in Nat
    BY <1>2, <2>1, Geometry
  <2> QED
    BY <1>1, <2>1, <2>2, <2>3, SmallIs DEF Small
<1>4. PutBack(mem, h, B, T, own, t)
  <2> DEFINE k == bkt
  <2>1. /\ Heaped(mem, k, B, T, own, {t}, rk, lim) /\ Small(mem[t + 2])
        /\ h = PutFree([mem |-> mem, bkt |-> k], t, own[t])
    BY <1>1, <1>3
  <2> HIDE DEF k
  <2> QED
    BY <2>1, PutSeen, Zenon
<1>5. /\ mem'[t] = 0 /\ (\A u \in T \ {t} : mem'[u] = mem[u]) /\ (\A u \in T : mem'[u + 2] = mem[u + 2])
      /\ SizesKept(mem, mem', B) /\ mem' \in Memory /\ Shape(mem', B, T, own)
  BY <1>4 DEF PutBack
<1>6. ArenaTags = TagMap(mem, T, own) /\ ArenaBlks = BlkMap(mem, B)
  BY <1>2, Sees DEF ShapeSeen, Seen, B
<1>7. ArenaTags' = TagMap(mem', T, own) /\ ArenaBlks' = BlkMap(mem', B)
  <2>1. Shape(mem', BlksOf(sys'), T, own) /\ BlksOf(sys') = B
    BY <1>5 DEF B
  <2> QED
    BY <1>5, <2>1, SeesThen DEF ShapeSeen, Seen
<1>8. ArenaBlks' = ArenaBlks
  <2>1. B \subseteq Nat
    BY <1>2, Geometry
  <2> DEFINE m2 == mem'
  <2>2. SizesKept(mem, m2, B)
    BY <1>5
  <2> HIDE DEF m2
  <2>3. BlkMap(m2, B) = BlkMap(mem, B)
    BY <2>1, <2>2, BlkMapSame
  <2> QED
    BY <1>6, <1>7, <2>3 DEF m2
<1>9. CASE mem[t] = 0
  <2>1. \A u \in T : mem'[u] = mem[u] /\ mem'[u + 2] = mem[u + 2]
    BY <1>5, <1>9
  <2>2. TagMap(mem', T, own) = TagMap(mem, T, own)
    BY <2>1, Zenon DEF TagMap
  <2> QED
    BY <1>6, <1>7, <1>8, <2>2
<1>10. CASE mem[t] = 1
  <2>1. /\ A!Lower(t) = LowerIn(mem, F, t) /\ A!Upper(t) = UpperIn(mem, F, t)
        /\ t \in A!Tag /\ ArenaTags[t].used /\ \A u \in T : A!EndOf(u) = u + mem[u + 2]
    <3> DEFINE k == bkt
    <3>1. Heaped(mem, k, B, T, own, {t}, rk, lim)
      BY <1>1
    <3> HIDE DEF k
    <3>2. Borders(T, t)
      BY <3>1, <1>6, <1>10, Neighbours, Zenon
    <3> QED
      BY <3>2 DEF Borders
  <2>2. A!Lower(t) = {} /\ A!Upper(t) = {}
    <3>1. \A u \in F : u # t + mem[t + 2] /\ t # u + mem[u + 2]
      BY DEF Lonely
    <3> QED
      BY <2>1, <3>1 DEF LowerIn, UpperIn
  <2> DEFINE P == {t}
             e == t + mem[t + 2]
  <2>3. A!EndOf(t) = e
    BY <1>2, <2>1
  <2>4. MergedAs(mem, mem', T, own, t, t, e, P, T, own)
    <3>1. mem'[t + 2] = e - t
      BY <1>2, <1>3, <1>5
    <3>2. T = (T \ P) \cup {t}
      BY <1>2
    <3> QED
      BY <1>5, <3>1, <3>2 DEF MergedAs
  <2>5. P = A!Lower(t) \cup A!Upper(t) \cup {t}
    BY <2>2
  <2>6. A!Merge(t, t, e)
    <3> DEFINE m2 == mem'
    <3>1. MergedAs(mem, m2, T, own, t, t, e, P, T, own) /\ ArenaTags' = TagMap(m2, T, own)
      BY <1>7, <2>4
    <3> HIDE DEF m2, e, P
    <3> QED
      BY <1>2, <1>6, <2>5, <3>1, MergeSeen
  <2>7. A!GiveBack(t)
    BY <1>8, <2>1, <2>2, <2>3, <2>6 DEF A!GiveBack
  <2> QED
    BY <2>1, <2>7 DEF A!Next
<1> QED
  BY <1>9, <1>10

LEMMA CoalesceDoneSeen ==
  ASSUME PoolInv, InHand, CoalesceDone
  PROVE  A!Next \/ UNCHANGED <<ArenaTags, ArenaBlks>>
<1> DEFINE t == loc.tag
           b == loc.blk
           h == PutFree([mem |-> mem, bkt |-> bkt], t, b)
<1>1. /\ pc = "coalesce" /\ ~WholeBlock(t) /\ ~FreeBelow(t) /\ ~FreeAbove(t) /\ pc' = "idle"
      /\ sys' = sys /\ SetHeap(h)
  BY DEF CoalesceDone, Heap
<1>2. PICK T, own, rk, lim : Hand(mem, bkt, cnt, live, BlksOf(sys), T, own, rk, lim, t, b)
  BY <1>1, FreeingIs
<1>3. mem[t] \in {0, 1}
  BY <1>1 DEF InHand
<1>4. h = PutFree([mem |-> mem, bkt |-> bkt], t, b)
  OBVIOUS
<1>5. Alive /\ Alive'
  BY <1>1 DEF Alive
<1> HIDE DEF t, b, h
<1>6. Lonely(mem, FreeIn(mem, T, {t}), t)
  BY <1>1, <1>2, BetweenUsed
<1>7. mem' = h.mem
  BY <1>1 DEF SetHeap
<1> QED
  BY <1>1, <1>2, <1>3, <1>4, <1>5, <1>6, <1>7, PutInSeen

LEMMA CoalesceWholeSeen ==
  ASSUME PoolInv, InHand, CoalesceWhole
  PROVE  A!Next \/ UNCHANGED <<ArenaTags, ArenaBlks>>
<1> DEFINE t == loc.tag
           b == loc.blk
           h == PutFree([mem |-> mem, bkt |-> bkt], t, b)
           B == BlksOf(sys)
<1>1. pc = "coalesce" /\ WholeBlock(t) /\ pc' = "idle"
  BY DEF CoalesceWhole
<1>2. b # BaseBlk => mem' = Wipe(RmBlk(mem, b), b) /\ sys' = sys \ {b}
  BY DEF CoalesceWhole
<1>3. b = BaseBlk => SetHeap(h) /\ sys' = sys
  BY DEF CoalesceWhole, Heap
<1>4. /\ \E T, own, rk, lim : Hand(mem, bkt, cnt, live, B, T, own, rk, lim, t, b)
      /\ Base \in sys /\ sys \subseteq Slots \cup {Base}
  BY <1>1, FreeingIs
<1>5. PICK T, own, rk, lim : Hand(mem, bkt, cnt, live, B, T, own, rk, lim, t, b)
  BY <1>4
<1>6. mem[t] \in {0, 1}
  BY <1>1 DEF InHand
<1>7. h = PutFree([mem |-> mem, bkt |-> bkt], t, b)
  OBVIOUS
<1>8. Alive /\ Alive'
  BY <1>1 DEF Alive
<1> HIDE DEF t, b, h, B
<1>9. /\ b \in B /\ t = b + 3 /\ Follows(mem, b, mem[b + 2] - 3, 5)
      /\ Lonely(mem, FreeIn(mem, T, {t}), t)
  BY <1>1, <1>5, AllOfBlock
<1>10. CASE b # BaseBlk
  <2>1. OneTag(mem, bkt, B, T, own, rk, lim, b)
    <3>1. Heaped(mem, bkt, B, T, own, {b + 3}, rk, lim)
      BY <1>5, <1>9 DEF Hand, Good
    <3> QED
      BY <1>9, <3>1 DEF OneTag
  <2>2. A!Next
    BY <1>2, <1>4, <1>8, <1>9, <1>10, <2>1, DropSeen DEF B
  <2> QED
    BY <2>2
<1>11. CASE b = BaseBlk
  <2>1. mem' = h.mem /\ sys' = sys
    BY <1>3, <1>11 DEF SetHeap
  <2>2. Hand(mem, bkt, cnt, live, BlksOf(sys), T, own, rk, lim, t, b) /\ Lonely(mem, FreeIn(mem, T, {t}), t)
    BY <1>5, <1>9 DEF B
  <2> QED
    BY <1>6, <1>7, <1>8, <2>1, <2>2, PutInSeen
<1> QED
  BY <1>10, <1>11

\* The tags P lie end to end from x to y.
Spans(m, P, x, y) ==
  /\ x \in P /\ \A p \in P : x <= p /\ p < y
  /\ \A c \in Int : x <= c /\ c < y => \E p \in P : p <= c /\ c < p + m[p + 2]

LEMMA JoinTags ==
  ASSUME NEW m, NEW m2, NEW B, NEW T, NEW own, NEW T2, NEW own2, Shape(m, B, T, own), Shape(m2, B, T2, own2),
         NEW t, NEW x \in T2, own2[x] = own[t], NEW y \in Nat, MergedTag(m2, x, y, own[t]),
         Carried(m, m2, B, T, T2, own, own2, {t}, {x}), NEW P, P \subseteq T, Spans(m, P, x, y)
  PROVE  MergedAs(m, m2, T, own, t, x, y, P, T2, own2)
<1>1. /\ \A w \in T2 \ {x} : w \in T /\ own2[w] = own[w] /\ m2[w] = m[w] /\ m2[w + 2] = m[w + 2]
      /\ \A b \in B : m2[b + 2] = m[b + 2]
  BY DEF Carried, HeadersSame
<1>2. m2[x] = 0 /\ m2[x + 2] = y - x
  BY DEF MergedTag
<1>3. x \in P /\ (\A p \in P : x <= p /\ p < y)
      /\ \A c \in Int : x <= c /\ c < y => \E p \in P : p <= c /\ c < p + m[p + 2]
  BY DEF Spans
<1>4. /\ \A w \in T : w \in Nat /\ m[w + 2] \in Nat /\ 6 <= m[w + 2]
      /\ \A w, z \in T : w # z => w + m[w + 2] <= z \/ z + m[z + 2] <= w
  BY Geometry
<1>5. /\ \A w \in T2 : w \in Nat /\ m2[w + 2] \in Nat /\ 6 <= m2[w + 2]
      /\ \A w, z \in T2 : w # z => w + m2[w + 2] <= z \/ z + m2[z + 2] <= w
  BY Geometry
<1>6. \A w \in T2 \ {x} : w \notin P
  <2> SUFFICES ASSUME NEW w \in T2, w # x, w \in P PROVE FALSE
    OBVIOUS
  <2>1. x <= w /\ w < y
    BY <1>3
  <2>2. w + m2[w + 2] <= x \/ x + m2[x + 2] <= w
    BY <1>5
  <2>3. w \in Nat /\ m2[w + 2] \in Nat /\ 6 <= m2[w + 2] /\ x \in Nat
    BY <1>5
  <2> QED
    BY <1>2, <2>1, <2>2, <2>3
<1>7. \A w \in T \ P : w \in T2
  <2> SUFFICES ASSUME NEW w \in T, w \notin P PROVE w \in T2
    OBVIOUS
  <2> DEFINE b == own[w]
  <2>1. b \in B /\ b + 3 <= w /\ w + m[w + 2] <= b + m[b + 2]
    BY DEF Shape
  <2>2. w \in Nat /\ m[w + 2] \in Nat /\ 6 <= m[w + 2] /\ b \in Nat /\ m[b + 2] \in Nat
    <3>1. m[b + 2] \in Nat
      BY <2>1 DEF Shape
    <3>2. b \in Nat
      BY <2>1, Geometry
    <3> QED
      BY <1>4, <3>1, <3>2
  <2>3. b + 3 <= w /\ w < b + m2[b + 2] /\ w \in Int
    BY <1>1, <2>1, <2>2
  <2> HIDE DEF b
  <2>4. PICK z \in T2 : z <= w /\ w < z + m2[z + 2]
    BY <2>1, <2>3, BlockWordIn
  <2>5. CASE z = x
    <3>1. x <= w /\ w < y
      BY <1>2, <1>5, <2>2, <2>4, <2>5
    <3>2. PICK p \in P : p <= w /\ w < p + m[p + 2]
      BY <1>3, <2>2, <3>1
    <3>3. p \in T /\ p # w
      OBVIOUS
    <3>4. w + m[w + 2] <= p \/ p + m[p + 2] <= w
      BY <1>4, <3>3
    <3> QED
      BY <1>4, <2>2, <3>2, <3>3, <3>4
  <2>6. CASE z # x
    <3>1. z \in T /\ m2[z + 2] = m[z + 2]
      BY <1>1, <2>6
    <3>2. z = w
      <4> SUFFICES ASSUME z # w PROVE FALSE
        OBVIOUS
      <4>1. w + m[w + 2] <= z \/ z + m[z + 2] <= w
        BY <1>4, <3>1
      <4> QED
        BY <1>4, <2>2, <2>4, <3>1, <4>1
    <3> QED
      BY <3>2
  <2> QED
    BY <2>5, <2>6
<1>8. T2 = (T \ P) \cup {x}
  BY <1>1, <1>6, <1>7
<1> QED
  BY <1>1, <1>2, <1>8 DEF MergedAs

\* P is t and what is merged with it, from x to y.
Neighbourhood(T, F, t, P, x, y) ==
  /\ Spans(mem, P, x, y) /\ P \subseteq T /\ y \in Nat
  /\ LowerIn(mem, F, t) = (IF FreeBelow(t) THEN {x} ELSE {})
  /\ UpperIn(mem, F, t) = (IF FreeAbove(t) THEN {Above(t)} ELSE {})
  /\ Above(t) = t + mem[t + 2]

\* The neighbours that are found from t are all that it borders on.
LEMMA HandSpans ==
  ASSUME NEW c, NEW lv, NEW B, NEW T, NEW own, NEW rk, NEW lim, NEW t, NEW b,
         Hand(mem, bkt, c, lv, B, T, own, rk, lim, t, b),
         NEW x, x = IF FreeBelow(t) THEN Below(t) ELSE t,
         NEW y, y = IF FreeAbove(t) THEN Above(t) + mem[size(Above(t))] ELSE Above(t),
         NEW F, F = FreeIn(mem, T, {t}),
         NEW P, P = LowerIn(mem, F, t) \cup UpperIn(mem, F, t) \cup {t}
  PROVE  Neighbourhood(T, F, t, P, x, y)
<1> DEFINE u == Below(t)
           v == Above(t)
<1>1. Beside(T, own, t) /\ t \in T /\ t \in Nat /\ mem[t + 2] \in Nat /\ Shape(mem, B, T, own)
  BY HandIs
<1>2. /\ FreeBelow(t) => u \in F /\ Beneath(mem, u, t)
      /\ ~FreeBelow(t) => \A w \in F : t # w + mem[w + 2]
      /\ FreeAbove(t) => v \in F /\ Beneath(mem, t, v)
      /\ ~FreeAbove(t) => \A w \in F : w # t + mem[t + 2]
  BY <1>1 DEF Beside
<1>3. /\ \A w \in T : w \in Nat /\ mem[w + 2] \in Nat /\ 6 <= mem[w + 2]
      /\ \A w, z \in T : w # z => w + mem[w + 2] <= z \/ z + mem[z + 2] <= w
  BY <1>1, Geometry
<1>4. v = t + mem[t + 2]
  BY DEF Above, size
<1>5. y = (IF FreeAbove(t) THEN v + mem[v + 2] ELSE v) /\ x = (IF FreeBelow(t) THEN u ELSE t)
  BY DEF size
<1>6. F \subseteq T
  BY DEF FreeIn
<1> HIDE DEF u, v
<1>7. FreeBelow(t) => u \in T /\ u + mem[u + 2] = t
  <2> SUFFICES ASSUME FreeBelow(t) PROVE u \in T /\ u + mem[u + 2] = t
    OBVIOUS
  <2>1. u \in T /\ mem[u + 2] = t - u
    BY <1>2, <1>6 DEF Beneath, Follows
  <2> QED
    BY <1>1, <1>3, <2>1
<1>8. LowerIn(mem, F, t) = IF FreeBelow(t) THEN {x} ELSE {}
  <2>1. CASE FreeBelow(t)
    <3>1. \A w \in F : w + mem[w + 2] = t => w = u
      <4> SUFFICES ASSUME NEW w \in F, w + mem[w + 2] = t, w # u PROVE FALSE
        OBVIOUS
      <4>1. w \in T /\ u \in T /\ u + mem[u + 2] = t
        BY <1>6, <1>7, <2>1
      <4>2. w + mem[w + 2] <= u \/ u + mem[u + 2] <= w
        BY <1>3, <4>1
      <4>3. w \in Nat /\ u \in Nat /\ 6 <= mem[w + 2] /\ 6 <= mem[u + 2] /\ mem[w + 2] \in Nat /\ mem[u + 2] \in Nat
        BY <1>3, <4>1
      <4> QED
        BY <4>1, <4>2, <4>3
    <3> QED
      BY <1>2, <1>5, <1>7, <2>1, <3>1 DEF LowerIn
  <2>2. CASE ~FreeBelow(t)
    BY <1>2, <2>2 DEF LowerIn
  <2> QED
    BY <2>1, <2>2
<1>9. UpperIn(mem, F, t) = IF FreeAbove(t) THEN {v} ELSE {}
  BY <1>2, <1>4 DEF UpperIn
<1> DEFINE L == LowerIn(mem, F, t)
           U == UpperIn(mem, F, t)
<1>10. P = L \cup U \cup {t} /\ L = (IF FreeBelow(t) THEN {x} ELSE {}) /\ U = IF FreeAbove(t) THEN {v} ELSE {}
  BY <1>8, <1>9
<1> HIDE DEF L, U
<1>11. FreeAbove(t) => v \in T
  BY <1>2, <1>6
<1>12. P \subseteq T /\ y \in Nat
  <2>1. x \in T
    BY <1>1, <1>5, <1>7
  <2>2. y \in Nat
    BY <1>1, <1>3, <1>4, <1>5, <1>11
  <2> QED
    BY <1>1, <1>10, <1>11, <2>1, <2>2
<1>13. x \in P
  BY <1>5, <1>10
<1>14. x \in Nat /\ x <= t /\ (FreeBelow(t) => x + mem[x + 2] = t /\ x < t) /\ (~FreeBelow(t) => x = t)
  <2>1. CASE FreeBelow(t)
    <3>1. x \in T /\ x + mem[x + 2] = t
      BY <1>5, <1>7, <2>1
    <3>2. x \in Nat /\ mem[x + 2] \in Nat /\ 6 <= mem[x + 2]
      BY <1>3, <3>1
    <3> QED
      BY <1>1, <2>1, <3>1, <3>2
  <2>2. CASE ~FreeBelow(t)
    BY <1>1, <1>5, <2>2
  <2> QED
    BY <2>1, <2>2
<1>15. v \in Nat /\ t < v /\ v <= y /\ (FreeAbove(t) => y = v + mem[v + 2] /\ v < y) /\ (~FreeAbove(t) => y = v)
  <2>1. v \in Nat /\ t < v
    BY <1>1, <1>3, <1>4
  <2>2. FreeAbove(t) => mem[v + 2] \in Nat /\ 6 <= mem[v + 2]
    BY <1>3, <1>11
  <2> QED
    BY <1>5, <2>1, <2>2
<1>16. \A p \in P : x <= p /\ p < y
  <2> SUFFICES ASSUME NEW p \in P PROVE x <= p /\ p < y
    OBVIOUS
  <2>1. p = t \/ (FreeBelow(t) /\ p = x) \/ (FreeAbove(t) /\ p = v)
    BY <1>10
  <2> QED
    BY <1>1, <1>12, <1>14, <1>15, <2>1
<1>17. \A d \in Int : x <= d /\ d < y => \E p \in P : p <= d /\ d < p + mem[p + 2]
  <2> SUFFICES ASSUME NEW d \in Int, x <= d, d < y PROVE \E p \in P : p <= d /\ d < p + mem[p + 2]
    OBVIOUS
  <2>1. CASE d < t
    <3>1. FreeBelow(t) /\ x \in P /\ d < x + mem[x + 2]
      BY <1>1, <1>13, <1>14, <2>1
    <3> QED
      BY <3>1
  <2>2. CASE t <= d /\ d < v
    <3>1. t \in P /\ d < t + mem[t + 2]
      BY <1>4, <1>10, <2>2
    <3> QED
      BY <2>2, <3>1
  <2>3. CASE v <= d
    <3>1. FreeAbove(t)
      BY <1>12, <1>15, <2>3
    <3>2. v \in P /\ d < v + mem[v + 2]
      BY <1>10, <1>15, <3>1
    <3> QED
      BY <2>3, <3>2
  <2> QED
    BY <1>1, <1>15, <2>1, <2>2, <2>3
<1>18. Spans(mem, P, x, y)
  BY <1>13, <1>16, <1>17 DEF Spans
<1> QED
  BY <1>4, <1>8, <1>9, <1>12, <1>18 DEF v, Neighbourhood

\* t and the free tags it borders on become one.
LEMMA CoalesceMergeSeen ==
  ASSUME PoolInv, InHand, CoalesceMerge
  PROVE  A!Next /\ InHand'
<1> DEFINE t == loc.tag
           b == loc.blk
           B == BlksOf(sys)
<1>1. pc = "coalesce" /\ sys' = sys /\ pc' = pc /\ loc \in LocType
  BY DEF CoalesceMerge, PoolInv
<1>2. PICK T, own, rk, lim, x, y : Joins(T, own, rk, lim, t, b, x, y)
  BY CoalesceMergeIs
<1>3. mem[t] = 1
  BY <1>1, <1>2 DEF InHand, Joins
<1>4. /\ Hand(mem, bkt, cnt, live, B, T, own, rk, lim, t, b)
      /\ x = IF FreeBelow(t) THEN Below(t) ELSE t
      /\ y = IF FreeAbove(t) THEN Above(t) + mem[size(Above(t))] ELSE Above(t)
      /\ Merged(mem, mem', bkt', cnt, live, B, T, own, rk, lim, t, x) /\ MergedTag(mem', x, y, b)
      /\ loc.steps = 0 /\ loc' = [loc EXCEPT !.tag = x, !.steps = loc.steps + 1]
  BY <1>2 DEF Joins
<1>5. t = loc.tag
  OBVIOUS
<1> HIDE DEF t, b, B
<1>6. Heaped(mem, bkt, B, T, own, {t}, rk, lim) /\ own[t] = b
  BY <1>4 DEF Hand, Good
<1>7. Shape(mem, B, T, own) /\ t \in T /\ mem \in Memory
  BY <1>6 DEF Heaped
<1>8. PICK T2, own2 : /\ Good(mem', bkt', cnt, live, B, T2, own2, {x}, rk, lim)
                      /\ Carried(mem, mem', B, T, T2, own, own2, {t}, {x})
                      /\ x \in T2 /\ own2[x] = own[t]
  BY <1>4 DEF Merged
<1>9. mem' \in Memory /\ Shape(mem', B, T2, own2) /\ x \in Nat
  <2>1. Heaped(mem', bkt', B, T2, own2, {x}, rk, lim)
    BY <1>8 DEF Good
  <2>2. mem' \in Memory /\ Shape(mem', B, T2, own2)
    BY <2>1 DEF Heaped
  <2> QED
    BY <1>8, <2>2 DEF Shape
<1>10. ArenaTags = TagMap(mem, T, own) /\ ArenaBlks = BlkMap(mem, B)
  <2>1. Alive
    BY <1>1 DEF Alive
  <2> QED
    BY <1>7, <2>1, Sees DEF ShapeSeen, Seen, B
<1>11. ArenaTags' = TagMap(mem', T2, own2) /\ ArenaBlks' = BlkMap(mem', B)
  <2>1. Shape(mem', BlksOf(sys'), T2, own2) /\ BlksOf(sys') = B /\ Alive'
    BY <1>1, <1>9 DEF B, Alive
  <2> QED
    BY <1>9, <2>1, SeesThen DEF ShapeSeen, Seen
<1>12. ArenaBlks' = ArenaBlks
  <2> DEFINE m2 == mem'
  <2>1. B \subseteq Nat
    BY <1>7, Geometry
  <2>2. SizesKept(mem, m2, B)
    BY <1>8 DEF Carried, HeadersSame, SizesKept
  <2> HIDE DEF m2
  <2>3. BlkMap(m2, B) = BlkMap(mem, B)
    BY <2>1, <2>2, BlkMapSame
  <2> QED
    BY <1>10, <1>11, <2>3 DEF m2
<1> DEFINE F == FreeIn(mem, T, {t})
           L == LowerIn(mem, F, t)
           U == UpperIn(mem, F, t)
           P == L \cup U \cup {t}
<1>13. /\ Spans(mem, P, x, y) /\ P \subseteq T /\ y \in Nat
       /\ L = (IF FreeBelow(t) THEN {x} ELSE {})
       /\ U = (IF FreeAbove(t) THEN {Above(t)} ELSE {})
       /\ Above(t) = t + mem[t + 2]
  <2>1. F = FreeIn(mem, T, {t}) /\ P = LowerIn(mem, F, t) \cup UpperIn(mem, F, t) \cup {t}
    OBVIOUS
  <2>2. Neighbourhood(T, F, t, P, x, y)
    <3> HIDE DEF F, P
    <3> QED
      BY <1>4, <2>1, HandSpans, Zenon
  <2> QED
    BY <2>2 DEF Neighbourhood
<1>14. Borders(T, t)
  BY <1>3, <1>6, <1>10, Neighbours, Zenon
<1>15. A!Lower(t) = L /\ A!Upper(t) = U /\ t \in A!Tag /\ ArenaTags[t].used
       /\ \A u \in T : A!EndOf(u) = u + mem[u + 2]
  BY <1>14 DEF Borders
<1> HIDE DEF F, L, U
<1>16. MergedAs(mem, mem', T, own, t, x, y, P, T2, own2)
  <2> DEFINE m2 == mem'
  <2>1. /\ MergedTag(m2, x, y, own[t]) /\ Shape(m2, B, T2, own2)
        /\ Carried(mem, m2, B, T, T2, own, own2, {t}, {x})
    BY <1>4, <1>6, <1>8, <1>9
  <2> HIDE DEF m2, P
  <2>2. MergedAs(mem, m2, T, own, t, x, y, P, T2, own2)
    BY <1>7, <1>8, <1>13, <2>1, JoinTags, Zenon
  <2> QED
    BY <2>2 DEF m2
<1>17. A!Merge(t, x, y)
  <2> DEFINE m2 == mem'
  <2>1. MergedAs(mem, m2, T, own, t, x, y, P, T2, own2) /\ ArenaTags' = TagMap(m2, T2, own2)
    BY <1>11, <1>16
  <2>2. P = A!Lower(t) \cup A!Upper(t) \cup {t}
    BY <1>15
  <2> HIDE DEF m2, P
  <2> QED
    BY <1>7, <1>10, <2>1, <2>2, MergeSeen
<1>18. x \in IF L = {} THEN {t} ELSE L
  BY <1>4, <1>13
<1> DEFINE u == IF FreeAbove(t) THEN Above(t) ELSE t
<1>19. u \in (IF U = {} THEN {t} ELSE U) /\ A!EndOf(u) = y
  <2>1. CASE FreeAbove(t)
    <3>1. U = {Above(t)} /\ Above(t) \in T
      BY <1>13, <2>1
    <3>2. A!EndOf(Above(t)) = Above(t) + mem[Above(t) + 2]
      BY <1>15, <3>1
    <3> QED
      BY <1>4, <2>1, <3>1, <3>2 DEF size
  <2>2. CASE ~FreeAbove(t)
    <3>1. A!EndOf(t) = t + mem[t + 2]
      BY <1>7, <1>15
    <3> QED
      BY <1>4, <1>13, <2>2, <3>1
  <2> QED
    BY <2>1, <2>2
<1> HIDE DEF u
<1>20. A!GiveBack(t)
  <2>1. A!Merge(t, x, A!EndOf(u))
    BY <1>17, <1>19
  <2> QED
    BY <1>12, <1>15, <1>18, <1>19, <2>1 DEF A!GiveBack
<1>21. A!Next
  BY <1>15, <1>20 DEF A!Next
<1>22. InHand'
  <2>1. loc'.tag = x /\ loc'.steps = 1
    <3> DEFINE l1 == [loc EXCEPT !.tag = x]
    <3>1. l1 \in LocType /\ l1.tag = x
      BY <1>1, <1>9 DEF LocType
    <3>2. loc' = [l1 EXCEPT !.steps = 1]
      BY <1>4
    <3> HIDE DEF l1
    <3> QED
      BY <3>1, <3>2 DEF LocType
  <2>2. mem'[x] = 0
    BY <1>4 DEF MergedTag
  <2> QED
    BY <2>1, <2>2 DEF InHand
<1> QED
  BY <1>21, <1>22

-----------------------------------------------------------------------------
(* Sought and InHand, which say what a call under way looks for and what the
   tag it gives back says, are kept by every step, and the steps are Arena's. *)

LEMMA SoughtKept == ASSUME PoolInv, Sought, [Next]_vars PROVE Sought'
<1>1. loc \in LocType
  BY DEF PoolInv
<1>2. ASSUME NEW bytes \in Requests, AllocCall(bytes) PROVE Sought'
  <2> DEFINE acts == Words(bytes)
             i == Size2Idx(TagSize(acts))
             idx == IF i = MaxIdx THEN 0 ELSE FirstIdx(i)
  <2>1. loc' = [NoLoc EXCEPT !.acts = acts, !.n = TagSize(acts), !.idx = idx]
    BY <1>2, Zenon DEF AllocCall
  <2> HIDE DEF acts, i, idx
  <2>2. loc'.n = TagSize(acts)
    BY <2>1 DEF NoLoc
  <2> QED
    BY <2>2 DEF Sought, acts
<1>3. CASE SearchMiss
  <2>1. pc = "search" /\ loc'.n = loc.n
    BY <1>1, <1>3 DEF SearchMiss, LocType
  <2> QED
    BY <2>1 DEF Sought
<1>4. CASE LastNext
  <2>1. pc = "last" /\ loc'.n = loc.n
    BY <1>1, <1>4 DEF LastNext, LocType
  <2> QED
    BY <2>1 DEF Sought
<1>5. CASE SearchNone \/ LastEnd
  <2>1. pc \in {"search", "last"} /\ loc' = loc
    BY <1>5 DEF SearchNone, LastEnd
  <2> QED
    BY <2>1 DEF Sought
<1>6. CASE SearchHit \/ LastHit \/ SystemGrow \/ SystemFail \/ Large \/ LargeFail
  <2>1. pc' = "idle"
    BY <1>6 DEF SearchHit, LastHit, SystemGrow, SystemFail, Large, LargeFail, Give, GiveNothing
  <2> QED
    BY <2>1 DEF Sought
<1>7. CASE PoolInit \/ DestroyCall \/ CoalesceWhole \/ CoalesceDone
  <2>1. pc' \in {"idle", "destroy"}
    BY <1>7 DEF PoolInit, DestroyCall, CoalesceWhole, CoalesceDone
  <2> QED
    BY <2>1 DEF Sought
<1>8. CASE CoalesceMerge \/ DestroyStep
  <2>1. pc' \in {"coalesce", "destroy", "none"}
    BY <1>8 DEF CoalesceMerge, DestroyStep
  <2> QED
    BY <2>1 DEF Sought
<1>9. ASSUME NEW a \in DOMAIN live, FreeCall(a) PROVE Sought'
  <2>1. pc' \in {"idle", "coalesce"}
    BY <1>9 DEF FreeCall
  <2> QED
    BY <2>1 DEF Sought
<1>10. CASE UNCHANGED vars
  BY <1>10 DEF vars, Sought
<1> QED
  BY <1>2, <1>3, <1>4, <1>5, <1>6, <1>7, <1>8, <1>9, <1>10 DEF Next, Running

LEMMA InHandKept == ASSUME PoolInv, InHand, [Next]_vars PROVE InHand'
<1>1. ASSUME NEW a \in DOMAIN live, FreeCall(a) PROVE InHand'
  BY <1>1, FreeCallSeen
<1>2. CASE CoalesceMerge
  BY <1>2, CoalesceMergeSeen
<1>3. ASSUME NEW bytes \in Requests, AllocCall(bytes) PROVE InHand'
  <2>1. pc' \in {"large", "search"}
    BY <1>3 DEF AllocCall
  <2> QED
    BY <2>1 DEF InHand
<1>4. CASE SearchMiss \/ SearchNone \/ LastNext \/ LastEnd
  <2>1. pc' \in {"last", "system"}
    BY <1>4 DEF SearchMiss, SearchNone, LastNext, LastEnd
  <2> QED
    BY <2>1 DEF InHand
<1>5. CASE SearchHit \/ LastHit \/ SystemGrow \/ SystemFail \/ Large \/ LargeFail
  <2>1. pc' = "idle"
    BY <1>5 DEF SearchHit, LastHit, SystemGrow, SystemFail, Large, LargeFail, Give, GiveNothing
  <2> QED
    BY <2>1 DEF InHand
<1>6. CASE PoolInit \/ DestroyCall \/ CoalesceWhole \/ CoalesceDone \/ DestroyStep
  <2>1. pc' \in {"idle", "destroy", "none"}
    BY <1>6 DEF PoolInit, DestroyCall, CoalesceWhole, CoalesceDone, DestroyStep
  <2> QED
    BY <2>1 DEF InHand
<1>7. CASE UNCHANGED vars
  BY <1>7 DEF vars, InHand
<1> QED
  BY <1>1, <1>2, <1>3, <1>4, <1>5, <1>6, <1>7 DEF Next, Running

LEMMA NextSeen ==
  ASSUME PoolInv, Sought, InHand, [Next]_vars
  PROVE  A!Next \/ UNCHANGED <<ArenaTags, ArenaBlks>>
<1> DEFINE Goal == A!Next \/ UNCHANGED <<ArenaTags, ArenaBlks>>
<1>1. ASSUME NEW bytes \in Requests, AllocCall(bytes) PROVE Goal
  BY <1>1, StillSeen
<1>2. ASSUME NEW a \in DOMAIN live, FreeCall(a) PROVE Goal
  BY <1>2, FreeCallSeen
<1>3. ASSUME UNCHANGED vars PROVE Goal
  <2>1. UNCHANGED <<mem, sys>> /\ Alive' = Alive
    BY <1>3 DEF vars, Alive
  <2> QED
    BY <2>1, NothingMoves
<1>4. ASSUME SearchMiss \/ SearchNone \/ LastNext \/ LastEnd \/ SystemFail \/ LargeFail PROVE Goal
  BY <1>4, StillSeen
<1>5. ASSUME SearchHit \/ LastHit \/ SystemGrow \/ Large PROVE Goal
  BY <1>5, SearchHitSeen, LastHitSeen, SystemGrowSeen, LargeSeen
<1>6. ASSUME CoalesceWhole \/ CoalesceDone \/ CoalesceMerge PROVE Goal
  BY <1>6, CoalesceWholeSeen, CoalesceDoneSeen, CoalesceMergeSeen
<1>7. ASSUME PoolInit \/ DestroyCall \/ DestroyStep PROVE Goal
  BY <1>7, PoolInitSeen, DestroyCallSeen, DestroyStepSeen
<1> HIDE DEF Goal
<1>8. Goal
  BY <1>1, <1>2, <1>3, <1>4, <1>5, <1>6, <1>7 DEF Next, Running
<1> QED
  BY <1>8 DEF Goal

LEMMA InitSeen == ASSUME Init PROVE A!Init /\ Sought /\ InHand
<1>1. pc = "none"
  BY DEF Init
<1>2. ArenaTags = A!Empty /\ ArenaBlks = A!Empty
  BY <1>1, SeesNothing DEF NothingSeen, Alive
<1>3. A!Init
  BY <1>2 DEF A!Init
<1> QED
  BY <1>1, <1>3 DEF Sought, InHand

(* The word-level pool implements Arena: the tags its memory holds, seen without
   buckets, footers and links, are taken, split, merged and dropped as Arena's
   are, and a free tag is never left beside another. *)
THEOREM PoolImplements == Spec => ImplementsArena
<1>1. Init => A!Init /\ Sought /\ InHand
  BY InitSeen
<1>2. PoolInv /\ Sought /\ InHand /\ [Next]_vars => Sought' /\ InHand'
  BY SoughtKept, InHandKept
<1>3. PoolInv /\ Sought /\ InHand /\ [Next]_vars => [A!Next]_<<ArenaTags, ArenaBlks>>
  BY NextSeen
<1> QED
  BY <1>1, <1>2, <1>3, PoolInvariant, PTL DEF Spec, ImplementsArena, A!Spec, A!arenaVars
=============================================================================
