------------------------ MODULE MCDelegatedPurchase -------------------------
(* Model-checking instance of DelegatedPurchase. *)
EXTENDS DelegatedPurchase, TLC

\* Copies of a request are interchangeable.
SlotSymmetry == Permutations(Slots)
=============================================================================
