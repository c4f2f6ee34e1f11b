------------------------------ MODULE Refusals ------------------------------
(***************************************************************************)
(* How a chain of checks refuses: a refusal is the name of an error, ""    *)
(* is none, and the first refusal of a chain is the chain's.  As in the    *)
(* code, a later check is asked only of what passed the earlier ones.      *)
(***************************************************************************)
EXTENDS Sequences, SequencesExt

Refuse(when, error) == IF when THEN error ELSE ""

\* The first refusal of checks that can all be asked.
FirstOf(errs) ==
    LET bad == {i \in DOMAIN errs : errs[i] # ""} IN IF bad = {} THEN "" ELSE errs[Min(bad)]

\* One check and, when it passes, the rest: if err != nil { return err }.
err ?? rest == IF err # "" THEN err ELSE rest
=============================================================================
