------------------------------ MODULE MCQueue ------------------------------
(* Queue with a few chunks.  Chunks are interchangeable, and so are values. *)
EXTENDS Queue, TLC

Symmetry == Permutations(Chunks) \cup Permutations(Val)
=============================================================================
