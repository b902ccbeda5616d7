----------------------------- MODULE HeapArray -----------------------------
(***************************************************************************)
(* tl_heap_adjust, tl_heap_down and tl_heap_up of tl_heap.c, on an array   *)
(* that the caller keeps.  The caller makes a heap of it with              *)
(* tl_heap_adjust; then it changes the key of an element, appends one or   *)
(* takes the one on top as tl_heap_add and tl_heap_pop do, and calls       *)
(* tl_heap_up or tl_heap_down for the place it touched.  getidx tells it   *)
(* where elements go, so that it can find them again.                      *)
(***************************************************************************)
EXTENDS Sift

CONSTANT
  AdjustFrom    \* the b that tl_heap_adjust is called with

ASSUME HeapArrayAssumption == Item = 1 .. Size /\ AdjustFrom \subseteq Nat

VARIABLES
  b,            \* where the last tl_heap_adjust began
  adjusting     \* it has not returned

arrayVars == <<raft, key, array, used, pc, idx, tmp, ele, lo, told, b, adjusting>>

ArrayInit ==
  /\ raft \in BOOLEAN /\ key \in [Item -> Key]
  /\ array = [i \in Place |-> i + 1] /\ used = 0
  /\ pc = "raw" /\ idx = 0 /\ tmp = 0 /\ ele = Junk /\ lo = 0
  /\ b = 0 /\ adjusting = FALSE
  /\ told = [x \in Item |-> 0]

-----------------------------------------------------------------------------
(* tl_heap_adjust. *)

\* array + b, as far as the caller's array goes.
From(first) == [i \in Place |-> IF first + i < Size THEN array[first + i] ELSE Junk]

AdjustTooShort(first, e) ==
  /\ pc = "raw" /\ e - first <= 1
  /\ pc' = "adjusted"
  /\ array' = From(first) /\ used' = IF e > first THEN e - first ELSE 0
  /\ b' = first
  /\ UNCHANGED <<raft, key, idx, tmp, ele, lo, told, adjusting>>

FirstC(e) == parent(e - 1)

Adjust(first, e) ==
  /\ pc = "raw" /\ e - first > 1
  /\ StartAt("down", From(first), e - first, FirstC(e))
  /\ b' = first /\ adjusting' = TRUE /\ lo' = FirstC(e)
  /\ UNCHANGED <<raft, key, told>>

AdjustNext ==
  /\ adjusting /\ lo # b /\ lo > 0
  /\ SiftEnds(FALSE)
  /\ lo' = lo - 1 /\ idx' = lo - 1 /\ tmp' = lo - 1 /\ ele' = array[lo - 1]
  /\ UNCHANGED <<pc, b, adjusting>>

AdjustEnds ==
  /\ adjusting /\ lo = b
  /\ SiftEnds(FALSE)
  /\ pc' = "adjusted" /\ lo' = 0 /\ adjusting' = FALSE
  /\ UNCHANGED <<idx, tmp, ele, b>>

\* c goes below 0 without having been b: elements far outside are read.
AdjustWraps ==
  /\ adjusting /\ lo # b /\ lo = 0
  /\ SiftEnds(FALSE)
  /\ pc' = "lost"
  /\ UNCHANGED <<idx, tmp, ele, lo, b, adjusting>>

-----------------------------------------------------------------------------
(* The caller.  tl_heap_adjust has no getidx: the caller sees for itself where
   the elements are. *)
Look ==
  /\ pc = "adjusted" /\ pc' = "idle"
  /\ told' = [x \in Item |-> IF \E i \in 0 .. used - 1 : array[i] = x
                             THEN CHOOSE i \in 0 .. used - 1 : array[i] = x ELSE told[x]]
  /\ UNCHANGED <<raft, key, array, used, idx, tmp, ele, lo, b, adjusting>>

Rekey(x, k) ==
  /\ pc = "idle" /\ x \in Contents /\ k # key[x]
  /\ key' = [key EXCEPT ![x] = k]
  /\ StartAt(IF raft = (k > key[x]) THEN "up" ELSE "down", array, used, told[x])
  /\ UNCHANGED <<raft, told, lo, b, adjusting>>

AppendLast(x) ==
  /\ pc = "idle" /\ used < Size /\ x \notin Contents
  /\ StartAt("up", [array EXCEPT ![used] = x], used + 1, used)
  /\ told' = [told EXCEPT ![x] = used]
  /\ UNCHANGED <<raft, key, lo, b, adjusting>>

TakeTop ==
  /\ pc = "idle" /\ used > 0
  /\ LET x == array[used - 1]
     IN  /\ StartAt("down", [array EXCEPT ![0] = x], used - 1, 0)
         /\ told' = [told EXCEPT ![x] = 0]
  /\ UNCHANGED <<raft, key, lo, b, adjusting>>

-----------------------------------------------------------------------------
ArrayStep ==
  \/ (DownMoves(~adjusting) \/ UpMoves(TRUE)) /\ UNCHANGED <<b, adjusting>>
  \/ /\ ~adjusting /\ SiftEnds(TRUE)
     /\ pc' = "idle" /\ UNCHANGED <<idx, tmp, ele, lo, b, adjusting>>
  \/ AdjustNext \/ AdjustEnds \/ AdjustWraps

ArrayNext ==
  \/ \E first \in AdjustFrom, e \in 0 .. Size : AdjustTooShort(first, e) \/ Adjust(first, e)
  \/ Look \/ TakeTop \/ ArrayStep
  \/ \E x \in Item : AppendLast(x) \/ \E k \in Key : Rekey(x, k)

ArraySpec == ArrayInit /\ [][ArrayNext]_arrayVars

-----------------------------------------------------------------------------
(* If tl_heap_adjust begins at the first element, then the array is a heap from
   the place that it has come to, and from the top afterwards, but for the
   element on its way. *)
ArrayOrdered == b = 0 /\ pc # "raw" => OrderedFrom(lo)

(* An element is where getidx said last, and the elements beside the hole are
   even while it moves: the caller that looks an element up never finds
   another. *)
ToldExact ==
  pc \notin {"raw", "lost", "adjusted"} /\ ~adjusting =>
    \A i \in 0 .. used - 1 : (Sifting /\ i = tmp) \/ told[array[i]] = i

(* "adjust b ~ (e - 1)" (tl_heap.c:236): when tl_heap_adjust returns the
   elements from b to e - 1 are a heap, and it has not left the array. *)
AdjustMakesHeap == pc # "lost" /\ (pc = "adjusted" => OrderedFrom(0))
=============================================================================
