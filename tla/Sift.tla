-------------------------------- MODULE Sift --------------------------------
(***************************************************************************)
(* hp_down and hp_up of tl_heap.c.  The element at idx is copied to the    *)
(* local ele; from then on its place is a hole, at tmp, that moves down or *)
(* up by one element per iteration until ele fits in it.                   *)
(***************************************************************************)
EXTENDS Integers

CONSTANTS
  Item,     \* the elements
  Key,      \* integers
  Size,     \* the places of the array
  Junk      \* what a place holds that nobody has written

ASSUME SiftAssumption == Size \in Nat \ {0} /\ Junk \notin Item /\ Key \subseteq Int

VARIABLES
  raft,     \* hp_raft: whether the largest element is on top, or the smallest
  key,      \* the caller: what kc compares of an element
  array,    \* hp_cont
  used,     \* hp_used
  pc,       \* "down", "up", or a place of the module that extends this one
  idx, tmp, ele,    \* the locals
  lo,       \* the elements from here on are a heap: c of tl_heap_adjust, or 0
  told      \* the caller: the place of each element that getidx reported last

siftVars == <<raft, key, array, used, pc, idx, tmp, ele, lo, told>>

Place == 0 .. Size - 1
lchild(i) == 2 * i + 1
parent(i) == (i - 1) \div 2

Sifting == pc \in {"down", "up"}

\* kc(x, y) says that x belongs strictly above y.
Beats(x, y) == IF raft THEN key[x] > key[y] ELSE key[x] < key[y]

\* The child that moves up if one does: the left one unless the right one beats
\* it.
LeftChild(i) == lchild(i)               \* mutant: the right one is never looked at
BestChild(i) == LET c == lchild(i)
                IN  IF c < used - 1 /\ Beats(array[c + 1], array[c]) THEN c + 1 ELSE c

\* x moves to place i, and getidx says so if there is one (gets).
MoveTo(x, i, gets) ==
  /\ array' = [array EXCEPT ![i] = x]
  /\ told' = IF gets THEN [told EXCEPT ![x] = i] ELSE told

\* The call begins on the array a of n elements.
StartAt(where, a, n, i) ==
  /\ array' = a /\ used' = n
  /\ pc' = where /\ idx' = i /\ tmp' = i /\ ele' = a[i]

\* mutant: the last parent is left out if it has one child.
DownStopsEarly == lchild(tmp) < used - 1 => Beats(ele, array[BestChild(tmp)])
DownStops == lchild(tmp) < used => Beats(ele, array[BestChild(tmp)])

DownMoves(gets) ==
  /\ pc = "down" /\ ~DownStops
  /\ MoveTo(array[BestChild(tmp)], tmp, gets)
  /\ tmp' = BestChild(tmp)
  /\ UNCHANGED <<raft, key, used, pc, idx, ele, lo>>

UpStops == tmp # 0 => Beats(array[parent(tmp)], ele)

UpMoves(gets) ==
  /\ pc = "up" /\ ~UpStops
  /\ MoveTo(array[parent(tmp)], tmp, gets)
  /\ tmp' = parent(tmp)
  /\ UNCHANGED <<raft, key, used, pc, idx, ele, lo>>

\* ele is put in the hole, unless that is where it came from.
PutBackQuiet(gets) ==                   \* mutant: getidx is not called for ele
  IF idx = tmp THEN UNCHANGED <<array, told>> ELSE MoveTo(ele, tmp, FALSE)
PutBackNot(gets) == UNCHANGED <<array, told>>       \* mutant: ele is dropped
PutBack(gets) ==
  IF idx = tmp THEN UNCHANGED <<array, told>> ELSE MoveTo(ele, tmp, gets)

\* The loop ends and the function returns.
Stops == Sifting /\ (pc = "down" => DownStops) /\ (pc = "up" => UpStops)
SiftEnds(gets) ==
  /\ Stops
  /\ PutBack(gets)
  /\ UNCHANGED <<raft, key, used>>

-----------------------------------------------------------------------------
\* The array with ele in the hole, and the elements that are in it.
Filled == IF Sifting THEN [array EXCEPT ![tmp] = ele] ELSE array
Contents == {Filled[i] : i \in 0 .. used - 1}

\* Element i is not above the one it belongs below.
Settled(i) == ~Beats(Filled[i], Filled[parent(i)])

(* From lo on every element is in order with the one above it; while the hole
   moves, only ele may be out of order, with those below it on the way down and
   with the one above it on the way up, and what is below the hole is in order
   with what is above it. *)
OrderedFrom(n) ==
  \A i \in 1 .. used - 1 :
    /\ parent(i) >= n /\ ~(pc = "down" /\ parent(i) = tmp) /\ ~(pc = "up" /\ i = tmp)
         => Settled(i)
    /\ Sifting /\ parent(i) = tmp /\ tmp # 0 /\ parent(tmp) >= n
         => ~Beats(Filled[i], Filled[parent(tmp)])
=============================================================================
