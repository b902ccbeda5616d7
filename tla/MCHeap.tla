------------------------------- MODULE MCHeap -------------------------------
(***************************************************************************)
(* Heap with a few elements.  Shape is what tells states apart: the keys   *)
(* of the elements, in their places, and of those the caller has left.     *)
(* Elements of one key are interchangeable; what lies beyond hp_used, what *)
(* lies in the hole and the locals between calls are never read, and ret   *)
(* is only written.                                                        *)
(***************************************************************************)
EXTENDS Heap

Shape == <<raft, [k \in Key |-> Cardinality({x \in Item : key[x] = k})],
           IF cont THEN [i \in 0 .. used - 1 |-> key[Filled[i]]] ELSE <<>>,
           used, cnt, cont, pc, Sifting, IF Sifting THEN <<idx, tmp, key[ele]>> ELSE <<>>>>
=============================================================================
