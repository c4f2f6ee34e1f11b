------------------------- MODULE MCIdempotencyStore --------------------------
(* Model-checking instance of IdempotencyStore. *)
EXTENDS IdempotencyStore
=============================================================================
