------------------------------- MODULE MCPool -------------------------------
(* Pool in a memory of a few dozen words. *)
EXTENDS Pool
=============================================================================
