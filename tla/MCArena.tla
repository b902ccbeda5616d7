------------------------------ MODULE MCArena ------------------------------
(* Arena in a memory of a dozen words. *)
EXTENDS Arena
=============================================================================
