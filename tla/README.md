# Verification of CommonTool

CommonTool (`src/trunk`) is a C library of basic building blocks: a spin lock, a
memory pool, a chunked queue, a red-black tree, a heap, B-trees, a multi-word
counter, a profiler, sorting. This directory holds TLA+ models of its parts,
written from the C source function by function, the TLC runs that check them,
and proofs for TLAPS. File names without a directory are in `src/trunk/src`.

    tlc -workers 2 -config <cfg> <module>       every run is listed below
    tlapm <module>Proofs.tla                    every proof

## 1. Inventory

| Component | State | Operations | Who calls it |
|---|---|---|---|
| lock (`tl_lock.c`) | one 32-bit word: held bit and a 31-bit version | `tl_lock_init`, `_on`, `_tryon`, `_off` | `tl_count`; any threads |
| pool (`tl_pool.c`) | blocks of memory cut into tags with footers, `bkt[]` of free tags, counters | `init`, `alloc`, `calloc`, `realloc`, `free`, `destroy`, statistics, debug traversals | the application; `init` also by the three trees' `init`, see below |
| queue (`tl_queue.c`) | list of chunks in use (`h`..`t`), list of spares (`f`), `size` | `init`, `push`, `pop`, `top`, `destroy` | the application |
| rbtree (`tl_rbtree.c`) | nodes with father links, one static `forgeNode` for all trees, `cnt_key` | `init`, `insert`, `query`, `erase`, `destroy`, `check`; entries: `first`, `last`, `next`, `prev`, `extract`, `set` | `tl_profile`; the application |
| heap (`tl_heap.c`) | an array that grows, `hp_used`, `hp_cnt` | `init`, `add`, `add_and_replace`, `top`, `pop`, `destroy`; `size`; on a bare array `adjust`, `down`, `up` | the application |
| count (`tl_count.c`) | a number of several words under a spin lock | `inc`, `dec`, `add`, `sub`, `set`, `cmp`, conversions | the application, threads |
| profile (`tl_profile.c`) | an rbtree of totals by name, a list of measurements under way and one of those that have ended, a depth | `init`, `start`, `end`, `destroy`, getters | the application |
| B-tree (`tl_btree2.c`) | nodes of `m_fork` keys and their children, with parents; `first`, `cnt_key` | `init`, `insert`, `query`, `erase`, `check`, `destroy`; entries: `first`, `last`, `next`, `prev`, `extract`, `set` | the application; it calls `tl_bsearch` and, in destroy, the queue |
| B+ tree (`tl_btree.c`) | an index of greatest keys over leaves with the values, a chain of the leaves, lists of spare nodes and leaves | `init`, `insert`, `query`, `get`, `erase`, `destroy` | the application |
| sort, search (`tl_sort.c`, `tl_alg.h`) | none | pure algorithms | the application |
| common, trace, assert, config | none | macros, page size | all |
| tests, build | none | `test/`, `SConstruct` | developers |

How they meet. There are no messages and no callbacks but comparison functions
and `getidx` of the heap. `tl_count` uses the lock; `tl_profile` uses the
red-black tree; the B-tree searches its nodes with `tl_bsearch` and empties
itself through a queue;
the trees take their memory from a pool only in a build with `TL_USE_POOL`,
which nothing defines, and from `malloc` in the default one, which is modelled.
But `tl_btree_init` and `tl_bplustree_init` call `tl_pool_init` in every build
(`tl_btree2.c:497`, `tl_btree.c:787`), return NULL if it fails, and never use or
give back the pool in the default one; `tl_rbtree_init` calls it only with
`TL_USE_POOL`. Threads share only the
lock word and what it guards: `TL_SUPPORT_MULTI`, which would lock the pool, is
0, and with 1 the library does not compile, so the calls of the pool and of the
containers are sequential. Nothing is persisted.

What is hard, and what makes each part correct:

- **lock**. The word is read in one step and compared and swapped in another. At
  most one holder; no release lost; a stale copy must not pass; an uncontended
  `tryon` succeeds; somebody always gets through.
- **pool**. Every field overlays another or the caller's bytes; regions come
  back in any order; the system may refuse a block, or a page but not less. No
  two regions overlap; no memory is lost between tags; free neighbours are
  merged; every free tag is in the bucket of its size; counters agree with the
  memory; empty blocks go back; destroy frees each block once.
- **queue**. Chunks are recycled with their old links and windows; a push may
  fail half way. First in, first out; chunks used or spare, never both; an
  address handed out by `top` stays good until the next pop; memory is bounded.
- **rbtree**. All cases of `d_adjust`, on both sides and at every height; an
  erase moves the successor's contents into another node while callers hold
  entries; rotations write the shared `forgeNode`. A search tree with equal
  black heights at every iteration but for the node in hand; the map it
  promises; no leak.
- **heap**. One child, two children, ties; the array grows and `realloc` fails
  after the count was raised; owners learn their elements' places from `getidx`
  alone. The element on top beats all others; none is lost; places are exact.
- **count**. Carries and borrows across words, under the lock.
- **profile**. Measurements that do not nest; starts that go unnoticed because
  they are too deep or have no memory, whose ends the profile takes for others';
  one field links both lists. Totals exact through every borrow and carry; the
  lists share nothing; what is lost is what had to be.
- **B-tree**. Splits up to a new first node, merges and borrowing from either
  brother, children left behind in arrays, an entry that walks off the end and
  back; `calloc` fails half way. Balanced, ordered, every parent right, every node
  given back but those known to be lost (the pool that `init` takes is not:
  section 6); the map with a cursor.
- **B+ tree**. The greatest key of a node is kept again above it, and further up
  when it is the last; merges free nodes into lists while the chain of leaves
  must stay whole; a leaf is told from a node by the sign of a word whose width
  is the build's. The index names the greatest keys, the chain is the leaves in
  order, ranks are right, every node is given back.

`PROJECT.json` lists each hazard at its line with the properties that cover it.

## 2. What is modelled, and how it corresponds to the code

Three conventions hold throughout. A library call is one action, or, where what
holds inside it is of interest, one action per iteration of its loops; where a
call can fail or return early, each outcome is an action of its own. Local
variables that outlive an iteration are variables of the module (`loc`, `tmp`,
`idx`, `ele`, `l`). The conditions of `tl_assert` are collected in the variable
`abort`; a property says it stays FALSE. `map` in `PROJECT.json` names the lines
behind each definition. A definition whose comment begins with `mutant:` is a
plausible slip of the code, used to see that a property can fail; no
specification uses it.

**SpinLock** (lock). `l` is the word, a record of the held bit and the version;
`o[t]` the local `o` of thread `t`; `pc[t]` its place. `OnGet`, `OnCasDone`,
`OnCasFailed` are the loop of `tl_lock_on` with its read and its
compare-and-swap apart; `TryGet`, `TryCas` and `OffGet`, `OffCas` likewise.
Memory is sequentially consistent: the swap is `__sync_bool_compare_and_swap`
(`tl_atomic.h`), a full barrier, and the read is of a volatile word. `contended`
and `gap` are history. `MaxVer` is 2^31-1 in the code.

**Pool** (pool). The memory is an array of words, `mem`, because the code
overlays fields: the first word of a footer belongs to the caller while the tag
is in use, `suc` of a free tag is `h_blk` of a used one, and the block header of
the arena's own page lies inside `tl_pool_t`. `bkt` and `cnt` are the fields of
`tl_pool_t`; `sys` is what `memalign` has given out; `live` the caller's
regions, filled with a pattern the pool does not know. A call of alloc goes
through `search` (the buckets from the first that surely fits), `last` (the loop
over the last bucket), `system` or `large` (`memalign`, which may fail, and its
retry with less); free through `coalesce`, a step per merge; destroy frees a
block per step. `calloc` and `realloc` do to the pool what alloc does.
`Written(a)` marks the caller's words, so that a stray write shows. `Pow2` is
`1 << r`, the size of bucket `r`, as a recursive function; `TagsOf` and `Bucket`
walk the memory as a debugger would, by sizes and by links. **Arena** is
the promise: blocks cut into tags end to end, without buckets, footers or links.
`Pool` maps its memory to it by walking the tags.

**Queue** (queue). Chunks are addresses with records `[s, e, next, container]`;
`heap` is what `calloc` gave out. `NewList` takes the first spare, or asks.
`PopRetires` moves a drained chunk to the spares. `DestroyCall`, `FreeOne`,
`FreeChunksNext`, `DestroyDone` are `tl_queue_destroy` with `freeList` a chunk
at a time. `held` is the caller's copy of what `top` returned. `Chain` follows
the links; `Contents` is what a reader who knows the head's window, the size of a
chunk and the count would find. **Fifo** is the promise.

**RBTree** (rbtree). `node` maps addresses, `Forge` among them, to records of
the fields; the operators `Rotate`, `Replace`, `Paint` work on a tree as a value
and collect assertions. `IAdjust*` and `DAdjust*` take a step per iteration of
the two loops, with `pcur`, the father and the node to be freed in `loc`.
`entry` is an entry that the caller keeps across calls. Keys are integers in
their order, as `keycmp`. **OrderedMap** is the promise, erase of an entry's
node included: an entry at an erased key, or at the successor whose contents
moved, is gone.

**Sift, Heap, HeapArray** (heap). `Sift` holds `hp_down` and `hp_up`, an
iteration per step: `tmp` is the hole, `ele` the element that was lifted out,
`idx` where it came from. `Heap` is `tl_heap_t` on top of it: growth by `hp_inc`
up to `hp_ele_cnt`, and the failing `realloc`, which loses the array and leaves
`hp_cnt` raised so that later calls go through NULL (`Crash`). `HeapArray` is
the other interface: the caller's array, made a heap by `tl_heap_adjust` from
its element `b` on, and kept one with `tl_heap_up` and `tl_heap_down` after it
changes a key, appends or takes the top; `told` is what `getidx` has told it.
**PriorityQueue** is the promise of `tl_heap_t`, with the broken state after a
failed `realloc`.

**BTree** (btree). `node` maps addresses to records of the fields, arrays with
their stale ends included, because the shifts leave them there. The functions of
the code that shift and copy are operators on a tree as a value. `InsertNew`,
`Split`, `InsertHere`, `NewFirst` are a call of `tl_btree_insert` with the loop
of `insert_1` a level per step; `Erase`, `Borrow`, `Merge` the same for
`erase_2`, with the locals in `loc`. `NewFirstFails` stores NULL as the first
node, as the code does, and `lost` remembers; `Destroy` may leave what the queue
had no memory for (`lost` too), and `DestroyFails` is the assertion that there is
memory for the queue itself. `TreeInit` takes a pool, `TreeInitFails` may (no
memory for the pool, or for the root after it): `heap` holds the nodes and
`Pool`, which stands for all pools taken. `entry` is one entry of the caller, who
may give it up (`GiveUp`, external) and does before the tree changes its nodes.
`bt_fork`, the caller's `m_fork`, is chosen at the start. The nodes are searched by **Search**, `tl_bsearch`
as a recursive function. **CursorMap** is the promise: a map and a cursor that
may stand before or behind all keys.

**BPlusTree** (bplustree). `tree` is the whole of `tl_bplustree_root_t` with its
nodes, so that the functions of the code are operators that return another tree
and collect `ok`. `config` is the build (ILP32 or LP64) and the fork; in LP64
`leaf()` is what the code computes, so that the assertion in `Erase` fails and
the process stops. `TreeInit` takes the pool that goes to `root->tp`;
`TreeInitFails` is each of the early returns, of which those for a bad config
leave the pool, and the failing `calloc` destroys it. An insert splits a level
per step, an erase merges a level per step; a split may find no memory. What a
failed split leaves behind is not looked into (`pc` is "broken"). `DestroyCall`
and `DestroyEnd` enclose the erases that destroy makes, until one reads a first
key of 0. **IndexedMap** is the promise: a map that is also read by rank, of
which every erase of a key succeeds.

**Profile** (profile). `root` maps names to items, for which the code has an
rbtree; `entry` maps addresses to entries, `first`, `lastI`, `lastE` are the
fields of `tl_profile_t`, and the clock is `now`, which `Tick` (external) moves.
A start may be ignored (too deep, or no memory for the entry) or crash (no memory
for the item: the result is used unchecked). An end closes the innermost entry
noticed, frees one that is deeper than the calls say (`EndLoses`) or does
nothing. `spent` and `lost` are history. **Tracer** is the promise: measurements
that end in the opposite order of their starts, of which those around an
unnoticed start are lost.

## 3. Runs

| Run | Question | Bounds | Result |
|---|---|---|---|
| `lock` | exclusion, the word right, release at once, stale copies, honest tryon; lock freedom | 3 threads, 3 versions | holds |
| `pool` | the memory, the buckets, the counters, the caller's bytes; loops end; destroy over a list of blocks; implements Arena | 1 page of 32 words, 2 more blocks of up to 36 | holds |
| `arena` | tags disjoint, tiling, merged | 12 words, up to 3 blocks | holds |
| `queue` | chunk lists, windows, held address, memory bound; implements Fifo | 3 chunks of 3 elements | holds |
| `rb` | search tree, colours, count, short loops; implements OrderedMap | 8 keys, 2 values at one | holds |
| `heap` | order; implements PriorityQueue | 7 places in steps of 4, 8 elements, 3 keys | holds |
| `heap_array` | order under adjust, re-keying, append, take; places told | 7 places, 3 keys, `b` in {0, 1} | holds |
| `heap_adjust` | what `tl_heap.c:236` says of `tl_heap_adjust` | 5 places, `b` in {0, 1} | **fails**, see section 6 |
| `btree` | search tree, balance, links and memory; implements CursorMap | 9 keys with fork 2, 6 with forks 3 and 4 and 2 values at one of them; walks in trees of up to 7 keys | holds |
| `bplus` | index, chain and memory; implements IndexedMap | ILP32; 10 keys with fork 3, 7 with fork 4, 0 among them | holds |
| `bplus_64` | the assertions of the code, `tl_btree.c:467` among them | LP64; the same | **fails**, see section 6 |
| `profile` | totals, lists; implements Tracer | 2 names, 4 entries, depth unlimited, 1 or 2, times to 4, 2 microseconds to a second | holds |

Why the bounds are enough to be interesting:

- *lock*: with three versions a copy can be one or two releases stale and the
  version can wrap while a copy is held; with three threads one can hold, one
  wait, one try.
- *pool*: a page holds up to three tags, so that a tag can be freed between two
  neighbours, and three blocks make destroy follow a list. Of the three requests
  one is small, one needs the loop over the last bucket, whose first tag may be
  too small, and leaves exactly the threshold of a whole page, and one is too
  large for the buckets. The code has 24 bucket sizes, 2^0 to 2^23 bytes;
  counting words the model needs three fewer, and the run takes 6, so that the
  last bucket is reached within a page. Nothing else bounds the run: allocation
  stops where the memory is used up.
- *queue*: three chunks give a head, a full middle and a tail, and spares behind
  spares; chunks of three elements have a window that is neither full nor
  drained.
- *rbtree*: eight keys reach every case of `i_adjust` and `d_adjust`, on both
  sides, at the root and above the lowest level.
- *heap*: seven places are three full levels, with a last parent of one child
  and of two; three keys give ties; steps of four and a limit of seven give a
  shortened last step.

- *btree, bplus*: with the least fork of each, 2 and 3, three levels, so that
  splits and merges pass through a level that is neither the first nor the last.
  Nine keys with fork 2 are the fewest with which an inner node of the B-tree
  borrows a key and its child from a brother, and ten with fork 3 let an inner
  node of the B+ tree do so; both happen from the left and from the right. The
  greater forks, with two levels, are the other parity of `idx_split`,
  `bt_split` and the least count of keys. The largest trees have one value for
  each key; with the other forks one key has two, which shows whether it keeps
  its own. `MaxWalk` bounds the trees in which the caller has an entry to seven
  keys, which are three levels: a walk over more adds only length. The B+ tree's
  erases by `destroy` stop at key 0.
- *profile*: four entries under way or ended, so that an ended list can grow
  while two measurements are open; a limit of 1 and of 2 is passed by three
  depths; with two microseconds to a second there are ends that borrow, that
  carry, that do both and that do neither.

Symmetry: chunks and values in `queue` are interchangeable (no action or
property tells one from another, the steps of Fifo included, and the run has no
liveness property). No other run uses it. VIEW: `MCRBTree`, `MCBTree`,
`MCBPlusTree` and `MCProfile` write the tree or the lists down from their first
node instead of naming addresses, on which nothing in the code depends, and leave
out what is never read (array elements beyond `cnt_used`, what an ended entry
holds but its name, all of a B-tree's process that has stopped, but whether an
assertion did it); `MCHeap` and `MCHeapArray` know elements by their keys and
leave out the hole, the array beyond `hp_used` and locals between calls. Each
view is a function of all that guards, properties and the refinement depend on,
up to a renaming of nodes or elements with equal keys. `ret`, which is only
written, is left out: it is a function of the step that the refinement checks.

`CHECK_DEADLOCK FALSE` is where the process may stop: after going through NULL
(`heap`, `profile`, `bplus`), after leaving the array (`heap_array`,
`heap_adjust`), at an assertion or after losing its keys (`btree`, `bplus`,
`bplus_64`: the model follows neither a tree that has lost keys nor memory that was leaked). All
other runs check that no reachable state is stuck.

Fairness is assumed in `lock` only: weak fairness for each thread's steps
inside a call, and for the holder to come to `tl_lock_off`. That is a scheduler
that lets every runnable thread run. Strong fairness is not justified, since the
word keeps no queue of waiters: one thread may lose every race, so that
`SomeoneGetsIt` is the property and freedom from starvation is not. In the
sequential modules the loops are shown to end by bounds on their iterations
(`LoopsBounded`, `AdjustIsShort`) with the absence of deadlock.

## 4. Proofs

All are checked by tlapm, for every value of the constants that the modules'
assumptions allow.

**SpinLockProofs**: `TypeCorrect`, `Exclusion`, `HeldBitIsRight`,
`ReleaseAtOnce`, `StaleCopies` and `TryonHonest`, for any set of threads and any
number of versions. Exclusion is not inductive: a waiter's swap can succeed with
an old copy if the version has come round. `IInv` adds that the word says held
exactly while somebody holds (`WordAgrees`), that waiters swap from free words
only (`SwapsFromFree`), that the holder's copy is the word, and the two facts
about history: `GapAgrees` ties the versions of copy and word to the releases in
between, and `ContentionSeen` says why a `tryon` that will fail has met a holder.
A swap that succeeds then starts from a free word that is the current word, so
that nobody holds.

**ArenaProofs**: `TypeCorrect`, `Disjointness`, `Tiling`, `Merging`, for any
addresses, threshold and gap. The invariant `Good` adds to the properties that
each block begins with a tag of its own (`Headed`) and that blocks keep a
distance (`Apart`): without the first a block could be dropped with a tag in it,
without the second two blocks' tags could merge. The lemmas `CarveGood`,
`AddGood`, `DropGood`, `GiveBackGood` are one per operation.

**HeapProofs**, of both users of `Sift`. First what an iteration of `hp_down` and
of `hp_up` does: `OrderedFrom` is itself the invariant of the hole, all is in
order but `ele` with its neighbours, and what is below the hole is in order with
what is above it. `DownKeeps`, `UpKeeps`, `EndKeeps` keep it, for any set of
elements, any keys and either direction, and show that a step exchanges two
elements. `TopBest`: in an array where each element is in order with its parent,
none beats the first; as the prover has no induction, the argument takes the
least index of a counterexample (`LeastNat`, from well-foundedness).

`HeapOrdered`: the array of `tl_heap_t` is a heap; `HeapImplements`: the heap is
the priority queue, for any limit, increment and elements. `IInv` adds what
growth and failure leave: without an array, `hp_cnt` is above `hp_used` unless
nothing was ever in it, so that no later add grows an array of lost elements.
`LInv` adds that elements are all different (`Distinct`), so that they are as
many as `hp_used` and the one popped is gone.

`ArraysOrdered` and `PlacesTold`: the same steps on the caller's array, with
`ArrayInv`. What `tl_heap_adjust` has come to is `lo`: `OrderedFrom(lo)` is the
invariant of its loop if it begins at 0 (`b = 0`); for other `b` the order fails
(section 6), but the places that `getidx` tells are right (`ToldGood`) however
the array is ordered. `Sane` separates the states in which the loop is still
inside the array.

**PoolProofs**: the pool on its words, with all its safety invariants
(`PoolRegionsIntact`, `PoolBlocksWellFormed`, `PoolBucketsExact`,
`PoolCountersExact`, `PoolLoopsBounded`, `PoolDestroyExact`, and `PoolNoAbort`
and `PoolTypeOK` in `PoolInvariant`), for any number of buckets, any requests,
layout of the blocks. The code finds everything by walking, by sizes
within a block and by links in a bucket, and the prover has no induction to
follow a walk; so `PoolInv` names what the walks would find, and says what each
word of it holds.

- `Shape`: the set `T` of the tags and the block `own[t]` of each; a block begins
  with a tag, a tag ends at the end of its block or where another tag of it
  begins, and no two overlap.
- `Ring`: the blocks, and the free tags of each bucket, are a circle of links that
  undo each other, with ranks that fall from the first on, so that there is one
  circle and it is as long as the set.
- `Heaped`: both, where every tag is marked at either end and the free ones are in
  the bucket of their size (`Pow2` grows, so there is one), but for a set `H` of
  tags in hand, which are out of the buckets while free merges them. `Good` adds
  the caller's regions (`Held`: each inside a used tag, with the pattern), that
  two free tags never meet, and the counters.
- For each loop of the code, what its locals mean: in `last` how many tags of the
  last bucket are still to come (`After`); in `coalesce` that only the tag in hand
  may meet a free one, and after a merge not even that (`HandLonely`); in
  `destroy` that the blocks not freed yet are the rest of the list (`Line`).

An operation is one lemma, built from what a write to the words leaves of the
ring it touches (a tag taken out, put in front), of the tags (one cut in two, two
merged) and of the blocks (one added, one dropped). The properties follow by
showing that the walks find the named tags (`WalkExists`, by the least address at
which one would not, `TagsOfIs`, `ChainTo`): what is not in the sets of `PoolInv`
a reader of the memory does not see either, and the reverse.

**PoolArenaProofs**: `PoolImplements`, the pool on its words implements Arena,
for the same constants. `Sees` shows that what Arena is given, the tags and
blocks found by walking, is `TagMap` and `BlkMap` of the named tags and blocks of
`PoolInv`; from there on a lemma for each action says which step of Arena it is:

- a hit of the search is `Take`; a new page, and the block a large region has for
  itself, are `Grow`; `PoolInit` is `Create`, and `DestroyCall` is `Destroy`, as
  what is left during the destroy is no pool;
- free is `GiveBack` where Arena sees the region free: at the first merge, which
  has to be with all the free neighbours that Arena would merge with
  (`Neighbours`, `HandSpans`: what is found through the footer below and the
  address above is all there is), or when the tag goes to its bucket alone. A block
  that is one tag, in use or merged, is `Drop`;
- the rest is not seen: misses, failures, the second look at a merged tag.

The mapping needs two facts that `PoolInv` leaves out, and both are shown to be
kept: the words looked for are those of some request (`Sought`), so that a new
block ends where Arena has an address; and the tag in hand is in use until the
first merge and free after it (`InHand`), so that it is given back exactly once.
So what ArenaProofs shows of every arena holds of the tags in the pool's memory,
inside its calls too, once the addresses of Arena are those of the pool.

**QueueProofs**: `HeldIsKept` and `MemoryIsBounded`, for any number of chunks and
any `CHUNK`. The prover cannot follow links by induction, so the invariant names
the chunks in their order: those in use are `U[i] .. U[j-1]`, the spares `F[n-1]
.. F[0]`, and a call moves one of `i`, `j`, `n` (`Rows`). The parts need each
other: that an address stays good needs to know that a push never takes the head,
which is that the rows are apart (`Apart`); that the pop of the last element
meets the tail (the assertion in `tl_queue_pop`) needs the count, which needs
that the chunks in the middle are full (`Windows`); and the memory bound needs
both: a push asks the system only when there is no spare, and then all chunks but
the first and the new one are full.

`Partitioned` and `Implements` build on it. `AlongIs` shows that the recursive
function that follows the links has a value, by the least index at which it would
not; `ChainsAre` that it finds the rows; `ContentsAre` that the element in place
`q` is in chunk `q \div CHUNK` of the row, at `q % CHUNK` (`Division`,
`Quotient`). Then a push, with room or with a chunk new or recycled, appends one
element (`PushRoomAppends`, `GrowAppends`), a pop takes the first
(`PopKeepsShortens`, `PopRetiresShortens`: all places move by `CHUNK`), and all
else changes none.

**ProfileProofs**: `TypeCorrect` and `Totals`. An end adds the time since the
start that it reads in the entry of `lastI`, so the totals are exact only if that
entry is allocated, is not in the list of the ended, and has not been written
since. The invariant says that there is a set of entries (`Open`) with these
properties, closed under `next`, whose levels fall, which is why following `next`
never comes back; `ElapsedExact` and `TotalExact` are the borrow and the carry.

`ListsInvariant`, `ListsCorrect` and `TracerImplemented` are about the order of
the entries. `LInv` writes the two lists down as sequences, `u` of the entries
under way, innermost first, and `d` of those that have ended, and says what links
them: the last of `u` has no next, the last of `d` is `lastE`, and `first` is the
head of `d`, or of what was under way, or a freed entry of which nothing but the
pointer is left, and then something has been lost. A start puts its entry before
`u`, an end moves the first of `u` behind `d`, and an end that loses drops the
first of `u`. The tracer's stack and log are these sequences.

**RBTreeProofs**: the red-black tree, for any keys, values and nodes. Subtrees
are recursive functions over memory, on which there is no induction; so `IsTree`
instead names the set `D[x]` of the nodes below `x` for every `x` at once, with
the equation that ties it to the children's sets, and an operation is shown to
have a new `D` of its own. The operators come first: what a painting, a rotation
(`Rotate`, with every link of the three nodes, of the father above and of the
shared `Forge`), an iteration of `i_adjust` and one of `d_adjust` do to
`IsTree`, to the black heights `B` and to the set of red nodes below red ones.
`Good` is a tree whose heights agree but for one link, `(f, s)`, which may be
short of a black node, and whose red nodes may be below red only in the set `E`.
The cases of `d_adjust` are one lemma each.

Then come the calls. `TreeInvariant` is `IInv`: `Shape` says for each phase
what the locals are, in `i_adjust` that `E` is the node in hand, in `d_adjust`
that `(f, s)` is the link from its father to it and that the node to be freed is
out of the tree. Erasing a node with two children is shown to be the erasure of
its successor after an exchange of keys (`Succeed` is proved to end, by the least
counterexample, at the least key of the right subtree). `SearchTreeCorrect`,
`CountExactCorrect` and `RedBlackCorrect` follow by showing that the recursive
`Below` and `BlackHeight` of the properties have `D` and `B` for their values.
`MapImplemented` adds `map`, the pairs of keys and values in the tree: each call
does to it what the call of OrderedMap does, and `next` and `prev` go to the
neighbour in the order, whether it is below or above.

Assumptions: `MaxVerAssumption` (versions are natural numbers),
`ArenaAssumption` (addresses are, and a block has words before its first tag),
`QueueAssumption` (a chunk has a place; there are finitely many addresses; NULL
is none of them), `SiftAssumption` (there
is a place; `Junk` is no element; keys compare as integers), `HeapAssumption`
(`hp_inc` is positive), `HeapArrayAssumption` (elements are numbered, `b` is
natural), `ProfileAssumption` (a second has microseconds, levels and times are
natural numbers, there are finitely many addresses and at least one name),
`LayoutAssumption` and `SizesAssumption` (blocks are apart, a page has
room for the pool and a tag, a page has a bucket, and what a request rounds up to
has one too),
`RBAssumption` (keys compare as integers; there are finitely many addresses;
`Forge` and NULL are none of them). Each is evaluated by the runs.

## 5. What is only model-checked, and what is not modelled

Only model-checked:

- Liveness of the lock (`SomeoneGetsIt`): outside what the prover does.
- `AdjustIsShort`, the bound on the iterations of the red-black tree's loops. It
  compares a count with a logarithm, written with `2^`, which the prover's
  backends do not know, and the size of a subtree would need induction over it.
- The B-tree and the B+ tree, whose nodes hold arrays that shift.

Not modelled, and why:

- `tl_count`: `tl_count_set`, `_serialize` and `_deserialize` are stubs that
  write nothing, so every operand is uninitialised, and `tl_count_cmp` always
  says no. There is no behaviour to hold against a promise. What is there shows
  a borrow whose comparison looks inverted (`tl_count.c:106`).
- The sorts: sequential, without state, and left to tests. On 64-bit builds the
  swap moves an `int` and counts an `intptr_t` (`tl_sort.c:33`), so that elements
  of eight bytes are exchanged in part.
- The pool with `TL_SUPPORT_MULTI`: it does not compile.
- `tl_pool_realloc`'s promise: it keeps the old region and never frees it, and
  returns it when no memory is left (`tl_pool.c:945`). The effect on the pool is
  alloc's, which is modelled.
- Requests near `SIZE_MAX`, where `tl_align` and `size * n` wrap
  (`tl_pool.c:733`): sizes are small in the model.
- Threads that work on different red-black trees: all rotations write
  `forgeNode.father` (`tl_rbtree.c:135`), which the library never reads. The
  library is sequential but for the lock.
- `tl_heap_init` with a pool: it reads through the null pointer `hp`
  (`tl_heap.c:137`).
- The B+ tree's cursor functions, which `tl_btree.h` declares and nothing
  defines; what a B+ tree is after a failed split.
- CPU times of the profile; its getters, the debug traversals, statistics,
  `tl_rbtree_check` and `tl_btree_check`: they change nothing. (`tl_rbtree_check`
  drops the result of `check()`, `tl_rbtree.c:572`.)
- Logging, page size lookup, build files, test drivers: no state of their own.

## 6. Findings

`tl_heap_adjust(.., b, e, ..)` is documented as "adjust b ~ (e - 1)"
(`tl_heap.c:236`). The run `heap_adjust` shows an array that is no heap from `b`
on when it returns, for `b = 1`: the loop counts `c` from the parent of `e - 1`
down to `b`, as indices of the whole array, but `hp_down` takes `c` relative to
`array + b`. With `e = 4` and keys 2, 1, 1 behind `b`, nothing moves. If the
parent of `e - 1` is below `b`, the unsigned index passes 0 and the loop leaves
the array. With `b = 0`, the only use in the repository's tests, `heap_array`
shows the function right.

`tl_bplustree_erase` cannot erase a key in a 64-bit build. The run `bplus_64`
ends, after an init, an insert and the erase, at `tl_assert(leaf(pcur))`
(`tl_btree.c:467`), though `pcur` is the leaf with the key: a leaf is marked by
`0x80000000` in `cnt_used`, an `intptr_t`, and `leaf()` (`:22`) asks whether
`cnt_used` is negative; in 64 bits the mark is not the sign. `test/test.c:399` asserts that the erase of a key that
is there returns 0; that holds in a 32-bit build (`bplus`).

Other things the models had to follow, which no document denies and which the
abstract specifications therefore state as they are:

- `tl_bplustree_destroy` takes a first key of 0 for the end (`tl_btree.c:829`)
  and leaves the rest of the tree allocated.
- Each `tl_btree_init` costs a pool, which is in no field of the tree
  (`tl_btree2.c:497`; lost as well if there is no memory for the root, `:502`).
  `tl_bplustree_init` keeps its pool in `root->tp` (`tl_btree.c:787`, `:806`), but
  the default `tl_bplustree_destroy` (`:824-854`) does not destroy it, and the
  early returns for a bad config (`:790-791`) leave it too. `LinksExact` and
  `ChainExact` therefore say that a destroy gives back the nodes, and that what
  stays allocated is the pool.
- When the first node of a B-tree has been split and there is no memory for the
  node above, `root->first` becomes NULL and all keys are lost
  (`tl_btree2.c:286`): `InsertLoses`. Its destroy frees only what its queue had
  memory for (`tl_btree2.c:540`).
- After a start that the profile did not notice, the ends of measurements that
  nest properly are answered with "forget to call <profile exit>" and drop the
  measurements around; the one dropped last may be `first`, which `getEntry` and
  destroy still read (`tl_profile.c:157`): `Lose` and `Break` of Tracer.
- A failed `realloc` costs a heap its elements (`tl_heap.c:178`): `Break` and
  `Crash` of PriorityQueue.

## 7. The plan, and what is left of it

Done: SpinLock; Pool and Arena; Queue and Fifo; RBTree and OrderedMap;
Sift, Heap, HeapArray and PriorityQueue; BTree with Search and CursorMap;
BPlusTree and IndexedMap; Profile and Tracer; their runs; the proofs of section 4.

Left: the sorts as pure functions; `tl_count` when it is finished; proofs about
the B-trees (that `Merge` and `Borrow` keep the order in two nodes and their
parent); the B+ tree after a failed split.
