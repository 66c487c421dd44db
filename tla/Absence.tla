------------------------------- MODULE Absence -------------------------------
(* What is nowhere: the null of the modules that share a run. *)
CONSTANT None
=============================================================================
