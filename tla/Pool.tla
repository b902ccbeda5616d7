-------------------------------- MODULE Pool --------------------------------
(***************************************************************************)
(* tl_pool.c: a boundary-tag allocator over blocks taken from the system.  *)
(* The memory is modelled word by word, because the code overlays its      *)
(* fields on each other and on the caller's bytes: the first word of a tag *)
(* is "use", the same word of a footer is "t_blk" and belongs to the       *)
(* caller while the tag is in use; "suc" of a free tag is "h_blk" of a     *)
(* used one.  Sizes are counted in words of WordB bytes, so a bucket index *)
(* here is the code's less 3.                                              *)
(*                                                                         *)
(* The library calls are sequential (TL_SUPPORT_MULTI is 0, the lock       *)
(* macros are empty); a loop of the code is a step per iteration.          *)
(***************************************************************************)
EXTENDS Integers, FiniteSets

CONSTANTS
  Base,       \* where memalign puts the pool's own page
  PageS,      \* tl_pagesize, in words
  PoolHdr,    \* sizeof(tl_pool_t), in words
  Slots,      \* where memalign may put the blocks the pool asks for
  SlotS,      \* the largest block memalign can satisfy, in words
  MaxIdx,     \* TL_POOL_MAX_INDEX
  ThreshIdx,  \* TL_POOL_THRESH_INDEX
  Requests,   \* the sizes the caller asks for, in bytes
  CntMod      \* the counters of calls are modulo this (2^64 in the code)

WordB   == 8                    \* TL_ALIGNMENT
HeadS   == 4                    \* tl_pool_tag_headS
TailS   == 2                    \* tl_pool_tag_tailS
UnuseS  == HeadS + TailS - 1    \* tl_pool_tag_unuseS
ThreshS == HeadS + TailS        \* tl_pool_tag_thresh
BlkS    == 3                    \* sizeof(tl_pool_blk_t)

NULL == 0
Junk == -1                      \* a word of memory nobody has written

\* The address of each field: of a tag t, of a footer f, of a block header b.
use(t)   == t
pre(t)   == t + 1
size(t)  == t + 2
suc(t)   == t + 3
h_blk(t) == t + 3
t_blk(f) == f
ref(f)   == f + 1
bpre(b)  == b
bnxt(b)  == b + 1
bsize(b) == b + 2

BaseBlk == Base + PoolHdr - BlkS        \* &tp->blk, the last field of *tp
BaseTag == Base + PoolHdr

ASSUME LayoutAssumption ==
  /\ Base \in Nat \ {0} /\ Slots \subseteq Nat \ {0, Base} /\ IsFiniteSet(Slots)
  /\ PoolHdr \in Nat /\ PageS \in Nat /\ SlotS \in Nat
  /\ PoolHdr >= BlkS /\ PageS >= PoolHdr + ThreshS
  /\ \A s \in Slots \cup {Base}, u \in Slots :
       s # u => s + SlotS <= u \/ u + SlotS <= s \/ (s = Base /\ s + PageS <= u)
  /\ PageS <= SlotS

Cells(b) == b .. b + (IF b = Base THEN PageS ELSE SlotS) - 1
Cell == UNION {Cells(b) : b \in Slots \cup {Base}}

\* 1 << r.
Pow2[r \in Nat] == IF r = 0 THEN 1 ELSE 2 * Pow2[r - 1]

\* A page is enough below the threshold, and has a bucket itself; so has what a
\* larger request is rounded up to, as a page divides the size of the last bucket
\* (or such blocks are beyond the system).
ASSUME SizesAssumption ==
  /\ MaxIdx \in Nat \ {0} /\ ThreshIdx \in 1 .. MaxIdx
  /\ Requests \subseteq Nat /\ CntMod \in Nat \ {0}
  /\ Pow2[ThreshIdx - 1] <= PageS /\ PageS <= Pow2[MaxIdx - 1]
  /\ Pow2[MaxIdx - 1] % PageS = 0 \/ SlotS <= Pow2[MaxIdx - 1]

VARIABLES
  mem,    \* the words of the pool's page and of every slot
  bkt,    \* tp->bkt: the first free tag of each size class, or NULL
  cnt,    \* tp->cnt
  sys,    \* external: the regions the system has given out
  live,   \* the caller: the regions it holds, address -> words asked for
  pc,     \* which loop of which call the thread is in
  loc,    \* that call's locals
  abort   \* a tl_assert has failed

vars == <<mem, bkt, cnt, sys, live, pc, loc, abort>>

-----------------------------------------------------------------------------
(* Sizes and addresses. *)

\* tl_align(TL_ALIGNMENT, n), in words.
Words(n) == (n + WordB - 1) \div WordB

\* tl_align(tl_pagesize, n).
PageAlign(n) == ((n + PageS - 1) \div PageS) * PageS

\* tl_pool_size2idx: the least r with n <= 2^r, MaxIdx when it is not below it.
Bsr(n) == CHOOSE r \in 0..n : Pow2[r] <= n /\ n < Pow2[r + 1]
Size2Idx(n) == LET r == IF n > Pow2[Bsr(n)] THEN Bsr(n) + 1 ELSE Bsr(n)
               IN  IF r >= MaxIdx THEN MaxIdx ELSE r

\* The whole tag that a request of a words needs.
TagSize(a) == IF a + UnuseS > ThreshS THEN a + UnuseS ELSE ThreshS

foot(m, t) == t + m[size(t)] - TailS

-----------------------------------------------------------------------------
(* The two kinds of circular list.  A heap is a memory with its buckets. *)

Heap == [mem |-> mem, bkt |-> bkt]

\* tl_pool_add_tag: t becomes the head of bucket i.
AddTag(h, i, t) ==
  LET first == h.bkt[i]
      last  == h.mem[pre(first)]
  IN  [bkt |-> [h.bkt EXCEPT ![i] = t],
       mem |-> IF first = NULL
               THEN [h.mem EXCEPT ![pre(t)] = t, ![suc(t)] = t]
               ELSE [h.mem EXCEPT ![suc(t)] = first, ![pre(t)] = last,
                                  ![suc(last)] = t, ![pre(first)] = t]]

\* tl_pool_rm_tag: t leaves the bucket of its size.
NewHeadStale(first, t, s) == first            \* mutant: the head is never moved on
NewHead(first, t, s) == IF t = first THEN s ELSE first

RmTag(h, t) ==
  LET i == Size2Idx(h.mem[size(t)])
      p == h.mem[pre(t)]
      s == h.mem[suc(t)]
  IN  IF t = s
      THEN [h EXCEPT !.bkt[i] = NULL]
      ELSE [bkt |-> [h.bkt EXCEPT ![i] = NewHead(@, t, s)],
            mem |-> [h.mem EXCEPT ![suc(p)] = s, ![pre(s)] = p]]

\* tl_pool_add_blk: b becomes the first block after the pool's own.
AddBlk(m, b) ==
  LET c == m[bnxt(BaseBlk)]
  IN  [m EXCEPT ![bnxt(b)] = c, ![bpre(c)] = b,
                ![bpre(b)] = BaseBlk, ![bnxt(BaseBlk)] = b]

\* tl_pool_rm_blk.
RmBlk(m, b) == [m EXCEPT ![bnxt(m[bpre(b)])] = m[bnxt(b)],
                         ![bpre(m[bnxt(b)])] = m[bpre(b)]]

\* The words from first to last become w.
Fill(m, first, last, w) == [a \in Cell |-> IF a \in first .. last THEN w ELSE m[a]]

\* free(b): what was there means nothing any more.
Wipe(m, b) == [a \in Cell |-> IF a \in Cells(b) THEN Junk ELSE m[a]]

\* What tl_pool_add_blk and tl_pool_rm_blk count.
CountBlk(c, words)   == [c EXCEPT !.blk = @ + 1, !.alloc = @ + words]
UncountBlkOnly(c, words) == [c EXCEPT !.blk = @ - 1]    \* mutant: cnt_alloc is left
UncountBlk(c, words) == [c EXCEPT !.blk = @ - 1, !.alloc = @ - words]

\* A tag that is in no bucket becomes a free tag of block b and enters its
\* bucket.  Between header and footer is Junk: stale bytes of callers and of
\* tags merged away, on which nothing may rely.
PutFree(h, t, b) ==
  LET f == foot(h.mem, t)
      m == [Fill(h.mem, t + HeadS, f - 1, Junk)
              EXCEPT ![use(t)] = 0, ![ref(f)] = t, ![t_blk(f)] = b]
  IN  AddTag([h EXCEPT !.mem = m], Size2Idx(m[size(t)]), t)

-----------------------------------------------------------------------------
(* tl_pool_tag_alloc: the free tag t gives n words, and what is left of it, if
   it is worth a tag, goes back as a free tag of its own. *)

Fits(m, t, n) == n <= m[size(t)]

SplitsAtThresh(rest) == rest >= ThreshS         \* mutant: off by one
Splits(rest) == rest > ThreshS

TagAlloc(h, t, n) ==
  LET raw   == h.mem[size(t)]
      f     == foot(h.mem, t)
      h1    == RmTag(h, t)
      blk   == h1.mem[t_blk(f)]
      rest  == raw - n
      taken == IF Splits(rest) THEN n ELSE raw
      m     == [h1.mem EXCEPT ![size(t)] = taken, ![use(t)] = 1, ![h_blk(t)] = blk,
                              ![ref(t + taken - TailS)] = t]
      nt    == t + n
      heap  == IF Splits(rest)
               THEN PutFree([h1 EXCEPT !.mem = [m EXCEPT ![size(nt)] = rest]], nt, blk)
               ELSE [h1 EXCEPT !.mem = m]
  IN  [heap |-> heap, taken |-> taken]

\* The assertion of tl_pool_tag_alloc, on a footer the caller may have written.
FootOK(m, t) == m[ref(foot(m, t))] = t

-----------------------------------------------------------------------------
(* Steps have these parts in common. *)

NoLoc == [acts |-> 0, n |-> 0, idx |-> 0, tag |-> NULL, blk |-> NULL, steps |-> 0]

Bump(c, field) == [c EXCEPT ![field] = (@ + 1) % CntMod]
Assert2(cond) == abort' = (abort \/ ~cond)

SetHeap(h) == mem' = h.mem /\ bkt' = h.bkt

\* What a caller may do to the words it was given: write them all.
Written(a) == -1 - a

\* The call returns the acts words after the header of t to the caller.  The
\* words of a used tag that belong to nobody (pre, and what is left before the
\* footer's ref) are Junk.
Give(h, t, acts) ==
  LET a  == t + HeadS
      m1 == Fill([h.mem EXCEPT ![pre(t)] = Junk], a, t_blk(foot(h.mem, t)), Junk)
  IN  /\ SetHeap([h EXCEPT !.mem = Fill(m1, a, a + acts - 1, Written(a))])
      /\ live' = [x \in DOMAIN live \cup {a} |-> IF x = a THEN acts ELSE live[x]]
      /\ pc' = "idle" /\ loc' = NoLoc

\* The call returns without a region.
GiveNothing == /\ pc' = "idle" /\ loc' = NoLoc
               /\ UNCHANGED <<mem, bkt, sys, live>>

-----------------------------------------------------------------------------
(* tl_pool_init.  When memalign fails there is no pool and nothing changed. *)

NoCounts == [alloc |-> 0, inuse |-> 0, blk |-> 0, totalA |-> 0,
             l_fail |-> 0, s_fail_1 |-> 0, s_fail_2 |-> 0,
             l_hit |-> 0, s_hit_1 |-> 0, s_hit_2 |-> 0, s_hit_3 |-> 0]

EmptyBuckets == [i \in 0 .. MaxIdx - 1 |-> NULL]

Nowhere == [a \in Cell |-> Junk]

Init ==
  /\ mem = Nowhere
  /\ bkt = EmptyBuckets
  /\ cnt = NoCounts
  /\ sys = {}
  /\ live = <<>>
  /\ pc = "none"
  /\ loc = NoLoc
  /\ abort = FALSE

PoolInit ==
  /\ pc = "none"
  /\ LET n == PageS - PoolHdr
         m == [mem EXCEPT ![size(BaseTag)] = n,
                          ![bnxt(BaseBlk)] = BaseBlk, ![bpre(BaseBlk)] = BaseBlk,
                          ![bsize(BaseBlk)] = n + BlkS]
     IN  /\ Assert2(Size2Idx(n) # MaxIdx)
         /\ SetHeap(PutFree([mem |-> m, bkt |-> EmptyBuckets], BaseTag, BaseBlk))
  /\ cnt' = [NoCounts EXCEPT !.blk = 1, !.alloc = PageS]
  /\ sys' = {Base}
  /\ pc' = "idle"
  /\ UNCHANGED <<live, loc>>

-----------------------------------------------------------------------------
(* tl_pool_alloc, and tl_pool_calloc and tl_pool_realloc, whose effect on the
   pool is that of the tl_pool_alloc they call: a successful realloc leaves the
   region it was given in use.  A request of 0 bytes returns at once. *)

FirstIdx(i) == IF i < MaxIdx - 1 THEN i + 1 ELSE i

AllocCall(bytes) ==
  /\ pc = "idle"
  /\ LET acts == Words(bytes)
         n    == TagSize(acts)
         i    == Size2Idx(n)
     IN  /\ acts # 0
         /\ pc' = IF i = MaxIdx THEN "large" ELSE "search"
         /\ loc' = [NoLoc EXCEPT !.acts = acts, !.n = n,
                                 !.idx = IF i = MaxIdx THEN 0 ELSE FirstIdx(i)]
  /\ cnt' = Bump(cnt, "totalA")
  /\ UNCHANGED <<mem, bkt, sys, live, abort>>

\* The first nonempty bucket from idx on.  The loop of the code moves idx once
\* more after the bucket it stops at, unless that is the one it began with.
Found == {i \in loc.idx .. MaxIdx - 1 : bkt[i] # NULL}
FoundIdx == CHOOSE i \in Found : \A j \in Found : i <= j
LoopIdx == IF FoundIdx = loc.idx THEN loc.idx ELSE FoundIdx + 1

SearchHit ==
  /\ pc = "search" /\ Found # {}
  /\ LET t == bkt[FoundIdx]
     IN  /\ Fits(mem, t, loc.n)
         /\ LET r == TagAlloc(Heap, t, loc.n)
            IN  /\ Give(r.heap, t, loc.acts)
                /\ cnt' = Bump([cnt EXCEPT !.inuse = @ + r.taken], "s_hit_1")
         /\ Assert2(FootOK(mem, t))
  /\ UNCHANGED sys

\* The first tag is too small, which the code asserts of the last bucket only:
\* the tags after it are tried.
SearchMiss ==
  /\ pc = "search" /\ Found # {}
  /\ LET t == bkt[FoundIdx]
     IN  /\ ~Fits(mem, t, loc.n)
         /\ loc' = [loc EXCEPT !.tag = mem[suc(t)], !.idx = LoopIdx]
  /\ Assert2(LoopIdx = MaxIdx - 1)
  /\ pc' = "last"
  /\ UNCHANGED <<mem, bkt, cnt, sys, live>>

SearchNone ==
  /\ pc = "search" /\ Found = {}
  /\ pc' = "system"
  /\ UNCHANGED <<mem, bkt, cnt, sys, live, loc, abort>>

NextInBucketSame(t) == t                \* mutant: the loop does not move on
NextInBucket(t) == mem[suc(t)]

LastHit ==
  /\ pc = "last" /\ loc.tag # bkt[loc.idx]
  /\ Fits(mem, loc.tag, loc.n)
  /\ LET r == TagAlloc(Heap, loc.tag, loc.n)
     IN  /\ Give(r.heap, loc.tag, loc.acts)
         /\ cnt' = Bump([cnt EXCEPT !.inuse = @ + r.taken], "s_hit_2")
  /\ Assert2(FootOK(mem, loc.tag))
  /\ UNCHANGED sys

LastNext ==
  /\ pc = "last" /\ loc.tag # bkt[loc.idx]
  /\ ~Fits(mem, loc.tag, loc.n)
  /\ loc' = [loc EXCEPT !.tag = NextInBucket(@), !.steps = @ + 1]
  /\ UNCHANGED <<mem, bkt, cnt, sys, live, pc, abort>>

\* Round the bucket: idx becomes MaxIdx, at which the search finds nothing.
LastEnd ==
  /\ pc = "last" /\ loc.tag = bkt[loc.idx]
  /\ pc' = "system"
  /\ UNCHANGED <<mem, bkt, cnt, sys, live, loc, abort>>

\* What is asked of the system for a tag of n words, and what is asked when
\* that fails: the next power of two for a small block, nothing for another.
BlockIdx(n) == Size2Idx(n + BlkS)
BlockSize(n) == IF BlockIdx(n) < ThreshIdx THEN PageS
                ELSE IF BlockIdx(n) < MaxIdx THEN PageAlign(n + BlkS)
                ELSE n + BlkS
RetrySize(n) == IF BlockIdx(n) < ThreshIdx THEN Pow2[BlockIdx(n)] ELSE 0

Memalign(b, words) == b \in Slots \ sys /\ words \in 1..SlotS

\* The pool takes the block b of the given size and allocates from it.
SystemGrow ==
  /\ pc = "system"
  /\ \E b \in Slots : \E words \in {BlockSize(loc.n), RetrySize(loc.n)} :
       /\ Memalign(b, words)
       /\ LET t  == b + BlkS
              m  == [AddBlk(mem, b) EXCEPT ![bsize(b)] = words, ![size(t)] = words - BlkS]
              h  == PutFree([mem |-> m, bkt |-> bkt], t, b)
              r  == TagAlloc(h, t, loc.n)
          IN  /\ Give(r.heap, t, loc.acts)
              /\ cnt' = Bump(CountBlk([cnt EXCEPT !.inuse = @ + r.taken], words), "s_hit_3")
              /\ Assert2(BlockSize(loc.n) >= loc.n + BlkS /\ Fits(h.mem, t, loc.n))
       /\ sys' = sys \cup {b}

SystemFail ==
  /\ pc = "system"
  /\ cnt' = Bump(cnt, IF BlockIdx(loc.n) < ThreshIdx THEN "s_fail_2" ELSE "s_fail_1")
  /\ Assert2(BlockSize(loc.n) >= loc.n + BlkS)
  /\ GiveNothing

\* tl_pool_alloc_large: a block of its own for the region.
Large ==
  /\ pc = "large"
  /\ \E b \in Slots :
       LET words == loc.n + BlkS
           t     == b + BlkS
           m1    == [mem EXCEPT ![bsize(b)] = words, ![use(t)] = 1, ![size(t)] = loc.n,
                                ![pre(t)] = t, ![h_blk(t)] = b]
           m2    == [m1 EXCEPT ![ref(foot(m1, t))] = t]
       IN  /\ Memalign(b, words)
           /\ Give([mem |-> AddBlk(m2, b), bkt |-> bkt], t, loc.acts)
           /\ cnt' = Bump(CountBlk([cnt EXCEPT !.inuse = @ + loc.n], words), "l_hit")
           /\ sys' = sys \cup {b}
  /\ UNCHANGED abort

LargeFail ==
  /\ pc = "large"
  /\ cnt' = Bump(cnt, "l_fail")
  /\ GiveNothing
  /\ UNCHANGED abort

-----------------------------------------------------------------------------
(* tl_pool_free. *)

\* A tag too large for the buckets has a block of its own, which goes back to
\* the system.  Another tag starts the loop of tl_pool_tag_free.
FreeCall(a) ==
  /\ pc = "idle" /\ a \in DOMAIN live
  /\ LET t == a - HeadS
         b == t - BlkS
     IN  /\ Assert2(mem[use(t)] = 1 /\ FootOK(mem, t))
         /\ IF Size2Idx(mem[size(t)]) = MaxIdx
            THEN /\ mem' = Wipe(RmBlk(mem, b), b)
                 /\ sys' = sys \ {b}
                 /\ cnt' = UncountBlk([cnt EXCEPT !.inuse = @ - mem[size(t)]], mem[bsize(b)])
                 /\ UNCHANGED <<pc, loc>>
            ELSE /\ mem' = [mem EXCEPT ![ref(foot(mem, t))] = t]
                 /\ cnt' = [cnt EXCEPT !.inuse = @ - mem[size(t)]]
                 /\ pc' = "coalesce"
                 /\ loc' = [NoLoc EXCEPT !.tag = t, !.blk = mem[h_blk(t)]]
                 /\ UNCHANGED sys
  /\ live' = [x \in DOMAIN live \ {a} |-> live[x]]
  /\ UNCHANGED bkt

\* tl_pool_tag_edge: whether t begins and whether it ends its block, and the
\* assertion that it lies inside.
Begins(t) == t - BlkS = mem[h_blk(t)]
Ends(t)   == t + mem[size(t)] = mem[h_blk(t)] + mem[bsize(mem[h_blk(t)])]
Inside(t) == /\ t - BlkS >= mem[h_blk(t)]
             /\ t + mem[size(t)] <= mem[h_blk(t)] + mem[bsize(mem[h_blk(t)])]
CoalesceAsserts(t) == Inside(t) /\ FootOK(mem, t)

\* The neighbours of t in its block, found through the footer below it and at
\* the address above it.
Below(t) == mem[ref(t - TailS)]
Above(t) == t + mem[size(t)]
FreeBelow(t) == ~Begins(t) /\ mem[use(Below(t))] = 0
AboveFreeIgnored(t) == FALSE                  \* mutant: only the tag below is merged
AboveAnyway(t) == ~Ends(t)                    \* mutant: "use" is not looked at
FreeAbove(t) == ~Ends(t) /\ mem[use(Above(t))] = 0

\* The tag is the whole block: the block goes back to the system, except the
\* pool's own.
WholeBlock(t) == Begins(t) /\ Ends(t)

CoalesceWhole ==
  /\ pc = "coalesce" /\ WholeBlock(loc.tag)
  /\ IF loc.blk # BaseBlk
     THEN /\ mem' = Wipe(RmBlk(mem, loc.blk), loc.blk)
          /\ sys' = sys \ {loc.blk}
          /\ cnt' = UncountBlk(cnt, mem[bsize(loc.blk)])
          /\ UNCHANGED bkt
     ELSE /\ SetHeap(PutFree(Heap, loc.tag, loc.blk))
          /\ UNCHANGED <<sys, cnt>>
  /\ pc' = "idle" /\ loc' = NoLoc
  /\ Assert2(CoalesceAsserts(loc.tag))
  /\ UNCHANGED live

CoalesceDone ==
  /\ pc = "coalesce" /\ ~WholeBlock(loc.tag)
  /\ ~FreeBelow(loc.tag) /\ ~FreeAbove(loc.tag)
  /\ SetHeap(PutFree(Heap, loc.tag, loc.blk))
  /\ pc' = "idle" /\ loc' = NoLoc
  /\ Assert2(CoalesceAsserts(loc.tag))
  /\ UNCHANGED <<cnt, sys, live>>

\* The free neighbours leave their buckets and become one tag with t, which the
\* next iteration looks at again.
CoalesceMerge ==
  /\ pc = "coalesce" /\ ~WholeBlock(loc.tag)
  /\ FreeBelow(loc.tag) \/ FreeAbove(loc.tag)
  /\ LET t  == loc.tag
         h1 == IF FreeBelow(t) THEN RmTag(Heap, Below(t)) ELSE Heap
         h2 == IF FreeAbove(t) THEN RmTag(h1, Above(t)) ELSE h1
         start == IF FreeBelow(t) THEN Below(t) ELSE t
         end   == IF FreeAbove(t) THEN Above(t) + mem[size(Above(t))] ELSE Above(t)
         m  == [h2.mem EXCEPT ![size(start)] = end - start, ![use(start)] = 0,
                              ![h_blk(start)] = loc.blk, ![ref(end - TailS)] = start]
     IN  /\ SetHeap([h2 EXCEPT !.mem = m])
         /\ loc' = [loc EXCEPT !.tag = start, !.steps = @ + 1]
  /\ Assert2(CoalesceAsserts(loc.tag))
  /\ UNCHANGED <<cnt, sys, live, pc>>

-----------------------------------------------------------------------------
(* tl_pool_destroy: the pool's page goes first, and then the blocks of the list
   whose head was in it.  loc.tag is p, the region freed next. *)

DestroyCall ==
  /\ pc = "idle"
  /\ pc' = "destroy"
  /\ loc' = [NoLoc EXCEPT !.tag = Base, !.blk = mem[bnxt(BaseBlk)]]
  /\ live' = <<>>
  /\ UNCHANGED <<mem, bkt, cnt, sys, abort>>

NextBlkOfFreed(b) == mem'[bnxt(loc.tag)]      \* mutant: the link of the block just freed
NextBlk(b) == mem'[bnxt(b)]

DestroyStep ==
  /\ pc = "destroy"
  /\ mem' = Wipe(mem, loc.tag)
  /\ sys' = sys \ {loc.tag}
  /\ IF loc.blk = BaseBlk
     THEN /\ pc' = "none" /\ loc' = NoLoc
          /\ bkt' = EmptyBuckets /\ cnt' = NoCounts
     ELSE /\ loc' = [loc EXCEPT !.tag = loc.blk, !.blk = NextBlk(@), !.steps = @ + 1]
          /\ UNCHANGED <<pc, bkt, cnt>>
  /\ UNCHANGED <<live, abort>>

-----------------------------------------------------------------------------
(* A step inside a call.  Everything else is the caller's decision. *)
Running == \/ SearchHit \/ SearchMiss \/ SearchNone
           \/ LastHit \/ LastNext \/ LastEnd
           \/ SystemGrow \/ SystemFail \/ Large \/ LargeFail
           \/ CoalesceWhole \/ CoalesceDone \/ CoalesceMerge
           \/ DestroyStep

Next == \/ PoolInit
        \/ \E bytes \in Requests : AllocCall(bytes)
        \/ \E a \in DOMAIN live : FreeCall(a)
        \/ DestroyCall
        \/ Running

Spec == Init /\ [][Next]_vars

-----------------------------------------------------------------------------
(* The memory as the pool means it. *)

Alive == pc \notin {"none", "destroy"}      \* the pool exists and is not being destroyed
Idle  == pc = "idle"

\* The blocks of the list, and the end of a block.
Blocks == {BaseBlk} \cup (sys \ {Base})
BlockEnd(b) == b + mem[bsize(b)]
TagEnd(t) == t + mem[size(t)]

\* The tags of a block, each found at the end of the one before, as
\* tl_pool_traverse does; Junk when the walk leaves the block.
TagsOf(b) ==
  LET walk[a \in b + BlkS .. BlockEnd(b)] ==
        IF a = BlockEnd(b) THEN {}
        ELSE IF a + ThreshS <= BlockEnd(b) /\ mem[size(a)] >= ThreshS /\ TagEnd(a) <= BlockEnd(b)
             THEN {a} \cup walk[TagEnd(a)]
             ELSE {Junk}
  IN  walk[b + BlkS]

Tags == UNION {TagsOf(b) : b \in Blocks}
Used(t) == mem[use(t)] = 1
UsedTags == {t \in Tags : Used(t)}
FreeTags == {t \in Tags : ~Used(t)}

\* The tags of bucket i, from the first along suc.
Bucket(i) ==
  LET chain[n \in 0 .. Cardinality(Cell)] ==
        [t \in Cell |-> IF n = 0 THEN {Junk}
                        ELSE IF mem[suc(t)] = bkt[i] THEN {t}
                        ELSE {t} \cup chain[n - 1][mem[suc(t)]]]
  IN  IF bkt[i] = NULL THEN {} ELSE chain[Cardinality(Cell)][bkt[i]]

\* The words of the tags S.
MapSize(S) == Cardinality(UNION {t .. TagEnd(t) - 1 : t \in S})

-----------------------------------------------------------------------------
TypeOK ==
  /\ mem \in [Cell -> Int]
  /\ bkt \in [0 .. MaxIdx - 1 -> Cell \cup {NULL}]
  /\ sys \subseteq Slots \cup {Base}
  /\ pc \in {"none", "idle", "search", "last", "system", "large", "coalesce", "destroy"}
  /\ abort \in BOOLEAN
  /\ cnt.alloc \in Nat /\ cnt.inuse \in Nat /\ cnt.blk \in Nat
  /\ \A i \in DOMAIN cnt \ {"alloc", "inuse", "blk"} : cnt[i] \in 0 .. CntMod - 1

(* No tl_assert fails: the footer found from a tag points back at it, a tag
   lies in its block, a first tag that is too small comes from the last bucket,
   and a block just taken from the system holds the region it was taken for. *)
NoAbort == ~abort

(* The caller's bytes stay the caller's: no tag, footer or block header the
   pool writes, and no other region it gives, overlaps a region in use. *)
RegionsIntact ==
  \A a \in DOMAIN live : \A c \in a .. a + live[a] - 1 : mem[c] = Written(a)

(* No assertion fails, and the check of tl_pool_check holds between calls: the tags
   tile every block, a used one names the block in its header, a free one in its footer, and every
   footer names its tag; the used tags are the caller's regions; and in whatever
   order regions were freed, a free tag never borders on another. *)
BlocksWellFormed ==
  /\ TypeOK /\ NoAbort
  /\ Idle => \A b \in Blocks :
               /\ Junk \notin TagsOf(b)
               /\ \A t \in TagsOf(b) :
                    /\ FootOK(mem, t)
                    /\ IF Used(t) THEN mem[h_blk(t)] = b /\ t + HeadS \in DOMAIN live
                       ELSE mem[use(t)] = 0 /\ mem[t_blk(foot(mem, t))] = b
               /\ \A a \in DOMAIN live : a - HeadS \in Tags
               /\ \A t \in FreeTags : TagEnd(t) \notin FreeTags

(* Every free tag is in the bucket of its size and nothing else is in a
   bucket, and pre and suc run round each bucket in opposite directions. *)
BucketsExact ==
  Idle => /\ \A i \in DOMAIN bkt :
               /\ Bucket(i) = {t \in FreeTags : Size2Idx(mem[size(t)]) = i}
               /\ \A t \in Bucket(i) : mem[suc(mem[pre(t)])] = t /\ mem[pre(mem[suc(t)])] = t
          /\ \A t \in FreeTags : Size2Idx(mem[size(t)]) < MaxIdx

(* The counters of the pool are what the memory says, and a block other than
   the pool's own is kept only while some region in it is in use: so, as memTest
   has it (cpp-c-test.cpp:587), the pool is back to its own page once every
   region is freed. *)
CountersExact ==
  Idle => /\ cnt.inuse = MapSize(UsedTags)
          /\ cnt.blk = Cardinality(Blocks)
          /\ cnt.alloc = PoolHdr - BlkS
                         + MapSize(Tags) + BlkS * Cardinality(Blocks)
          /\ \A b \in Blocks \ {BaseBlk} : \E t \in TagsOf(b) : Used(t)

(* tl_pool_destroy frees every region of the system once and reads no block
   after it freed it: the region it frees next is still the system's, and so
   is the block whose link it reads next; and nothing is left when it returns. *)
DestroyExact ==
  /\ pc = "destroy" => /\ loc.tag \in sys
                       /\ loc.blk # BaseBlk => loc.blk \in sys \ {loc.tag}
  /\ pc = "none" => sys = {}

(* No loop goes on for ever: tl_pool_tag_free merges once at most, because no
   free tag bordered on another before; the search of the last bucket looks at
   each of its tags once; destroy takes a step for each block.  As no state
   inside a call is a deadlock, every call returns. *)
LoopsBounded ==
  /\ pc = "coalesce" => loc.steps <= 1
  /\ pc = "last" => loc.steps < Cardinality(Bucket(MaxIdx - 1))
  /\ pc = "destroy" => loc.steps <= Cardinality(Slots)

-----------------------------------------------------------------------------
(* The pool implements Arena: a tag of the arena is a tag of the memory, whose
   block is known by its first tag. *)
ArenaTags ==
  IF ~Alive THEN <<>>
  ELSE [t \in Tags |->
          [size |-> mem[size(t)], used |-> Used(t),
           blk |-> (CHOOSE b \in Blocks : t \in TagsOf(b)) + BlkS]]

ArenaBlks ==
  IF ~Alive THEN <<>>
  ELSE [f \in {b + BlkS : b \in Blocks} |-> BlockEnd(f - BlkS)]

\* Where a block may begin (its first tag) and end.
BlockWords == UNION {{BlockSize(n), RetrySize(n), n + BlkS} :
                       n \in {TagSize(Words(r)) : r \in Requests}}
BlockBounds == {BaseTag, Base + PageS}
               \cup {b + BlkS : b \in Slots}
               \cup {b + w : b \in Slots, w \in BlockWords}

A == INSTANCE Arena WITH
       Addr   <- BlockBounds,
       Base   <- BaseTag,
       Thresh <- ThreshS,
       Gap    <- BlkS,
       tags   <- ArenaTags,
       blks   <- ArenaBlks

ImplementsArena == A!Spec
=============================================================================
