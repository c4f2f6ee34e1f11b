------------------------------- MODULE MCWatch -------------------------------
(* Model-checking instance of Watch. *)
EXTENDS Watch
=============================================================================
