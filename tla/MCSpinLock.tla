----------------------------- MODULE MCSpinLock -----------------------------
(* SpinLock on a few threads and a version of a few values. *)
EXTENDS SpinLock
=============================================================================
