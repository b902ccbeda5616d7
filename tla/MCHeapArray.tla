---------------------------- MODULE MCHeapArray ----------------------------
(***************************************************************************)
(* HeapArray with a few elements.  In Shape elements are known by their    *)
(* keys and by whether the caller knows their places; what lies beyond the *)
(* heap, in the hole, and in the locals between calls is never read.       *)
(***************************************************************************)
EXTENDS HeapArray, FiniteSets

Known(i) == told[Filled[i]] = i
Shape ==
  <<raft, pc, used, lo, b, adjusting,
    IF pc = "raw" THEN key
    ELSE <<[k \in Key |-> Cardinality({x \in Item : key[x] = k})],
           [i \in 0 .. used - 1 |-> <<key[Filled[i]], Known(i)>>]>>,
    IF Sifting THEN <<idx, tmp, Junk = ele>> ELSE <<>>>>
=============================================================================
