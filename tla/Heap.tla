-------------------------------- MODULE Heap --------------------------------
(***************************************************************************)
(* tl_heap_t of tl_heap.c: a binary heap in an array that grows by Inc     *)
(* elements up to Size.  It is not given a pool: with one, tl_heap_init    *)
(* reads through a null pointer (tl_heap.c:137).                           *)
(***************************************************************************)
EXTENDS Sift, FiniteSets

CONSTANT
  Inc       \* hp_inc, 128 in the code; Size is hp_ele_cnt

VARIABLES
  cnt,      \* hp_cnt
  cont,     \* whether hp_cont is not NULL
  ret       \* what the last call returned: its code, and the element it gave

vars == <<raft, key, array, used, pc, idx, tmp, ele, lo, told, cnt, cont, ret>>

ASSUME HeapAssumption == Inc \in Nat \ {0}

Unwritten == [i \in Place |-> Junk]
Returns(c, x) == ret' = [code |-> c, ele |-> x]

Init ==
  /\ raft \in BOOLEAN /\ key \in [Item -> Key]
  /\ array = Unwritten /\ used = 0 /\ cnt = 0 /\ cont = FALSE
  /\ pc = "none" /\ idx = 0 /\ tmp = 0 /\ ele = Junk /\ lo = 0
  /\ told = [x \in Item |-> 0]
  /\ ret = [code |-> 0, ele |-> Junk]

\* What no call of a tl_heap_t changes.
Fixed == UNCHANGED <<raft, key, lo, told>>
Quiet == UNCHANGED <<array, used, idx, tmp, ele, cnt, cont>>

HeapInit ==
  /\ pc = "none" /\ pc' = "idle"
  /\ Fixed /\ Quiet /\ UNCHANGED ret

\* A null hp_cont is read or written.
Crash == pc' = "crashed" /\ Quiet /\ UNCHANGED ret

-----------------------------------------------------------------------------
(* tl_heap_add. *)

Grown == IF cnt + Inc < Size THEN cnt + Inc ELSE Size

Append(x) == StartAt("up", [array EXCEPT ![used] = x], used + 1, used)

AddRoom(x) ==
  /\ pc = "idle" /\ used # cnt /\ x \notin Contents
  /\ IF cont THEN Append(x) /\ Returns(0, Junk) /\ UNCHANGED <<cnt, cont>> ELSE Crash
  /\ Fixed

AddGrows(x) ==
  /\ pc = "idle" /\ used = cnt /\ cnt < Size /\ x \notin Contents
  /\ cnt' = Grown /\ cont' = TRUE
  /\ Append(x) /\ Returns(0, Junk)
  /\ Fixed

\* realloc fails: its result takes the place of the array even so, and hp_cnt
\* stays raised.
AddFails ==
  /\ pc = "idle" /\ used = cnt /\ cnt < Size
  /\ cnt' = Grown /\ cont' = FALSE
  /\ array' = Unwritten
  /\ Returns(-1, Junk)
  /\ Fixed /\ UNCHANGED <<used, pc, idx, tmp, ele>>

AddFull ==
  /\ pc = "idle" /\ used = cnt /\ cnt >= Size
  /\ Returns(-1, Junk)
  /\ Fixed /\ Quiet /\ UNCHANGED pc

-----------------------------------------------------------------------------
(* tl_heap_add_and_replace, tl_heap_top, tl_heap_pop. *)

Replace(x) ==
  /\ pc = "idle" /\ used > 0 /\ x \notin Contents
  /\ IF cont THEN StartAt("down", [array EXCEPT ![0] = x], used, 0) /\ UNCHANGED <<cnt, cont, ret>>
             ELSE Crash
  /\ Fixed

Top ==
  /\ pc = "idle"
  /\ Returns(0, IF used > 0 /\ cont THEN array[0] ELSE Junk)
  /\ Fixed /\ Quiet /\ UNCHANGED pc

Last == used - 1
Pop ==
  /\ pc = "idle" /\ used > 0
  /\ IF cont THEN /\ StartAt("down", [array EXCEPT ![0] = array[Last]], used - 1, 0)
                  /\ Returns(0, array[0])
                  /\ UNCHANGED <<cnt, cont>>
             ELSE Crash
  /\ Fixed

PopEmpty ==
  /\ pc = "idle" /\ used = 0
  /\ Returns(-1, Junk)
  /\ Fixed /\ Quiet /\ UNCHANGED pc

Destroy ==
  /\ pc = "idle" /\ pc' = "none"
  /\ array' = Unwritten /\ used' = 0 /\ cnt' = 0 /\ cont' = FALSE
  /\ idx' = 0 /\ tmp' = 0 /\ ele' = Junk
  /\ Fixed /\ UNCHANGED ret

-----------------------------------------------------------------------------
\* getidx of a tl_heap_t is always NULL.
SiftStep == \/ (DownMoves(FALSE) \/ UpMoves(FALSE)) /\ UNCHANGED <<cnt, cont, ret>>
            \/ SiftEnds(FALSE) /\ pc' = "idle" /\ UNCHANGED <<idx, tmp, ele, lo, cnt, cont, ret>>

Call == \/ HeapInit \/ AddFails \/ AddFull \/ Top \/ Pop \/ PopEmpty \/ Destroy
        \/ \E x \in Item : AddRoom(x) \/ AddGrows(x) \/ Replace(x)

Next == Call \/ SiftStep
Spec == Init /\ [][Next]_vars

-----------------------------------------------------------------------------
(* Between and within calls the array is a heap but for the element on its way:
   so the element on top is one that beats all others, whatever was added,
   popped and replaced before. *)
Ordered == cont => OrderedFrom(0)

(* The heap implements the priority queue: an element is taken only when no
   other beats it, none is lost or doubled on its way, and the heap refuses one
   only when hp_ele_cnt are in it. *)
State == IF pc \in {"none", "crashed"} THEN pc
         ELSE IF cnt # 0 /\ ~cont THEN "broken" ELSE "open"
Items == IF cont THEN Contents ELSE {}

Q == INSTANCE PriorityQueue WITH
       Cap <- Size, Nothing <- Junk, state <- State, items <- Items

ImplementsQueue == Q!Spec
=============================================================================
