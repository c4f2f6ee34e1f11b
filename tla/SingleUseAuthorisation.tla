----------------------- MODULE SingleUseAuthorisation ------------------------
(***************************************************************************)
(* What one delegated authorisation promises, with no agent, no network    *)
(* and no verifier in it: attempts are made one at a time, at most one     *)
(* purchase is ever paid, it is paid while its attempt is unanswered, and  *)
(* once it is paid no further attempt is made.  The answer that follows a  *)
(* payment is an acceptance, unless the authorisation ran out in between.  *)
(*                                                                         *)
(* All of this is promised of purchases that keep satisfying the user's    *)
(* limits, or keep breaking them.  Of one that time overtakes, because a   *)
(* limit names a time that comes while it is under way, the authorisation  *)
(* promises no more than that it is paid once and before it has run out.   *)
(***************************************************************************)
CONSTANT Purchases

VARIABLES
  mandate,    \* Ready, AwaitingReceipt or Spent
  paid,       \* the purchases that were paid
  over,       \* the authorisation has run out
  overtaken   \* the purchases whose standing with the limits has changed

authVars == <<mandate, paid, over, overtaken>>

Init ==
  /\ mandate = "Ready"
  /\ paid = {}
  /\ over = FALSE
  /\ overtaken = {}

Present ==
  /\ mandate = "Ready" /\ paid \subseteq overtaken
  /\ mandate' = "AwaitingReceipt"
  /\ UNCHANGED <<paid, over, overtaken>>

Pay ==
  /\ ~over
  /\ \E p \in Purchases \ paid :
       /\ overtaken' \in {overtaken, overtaken \union {p}}
       /\ p \notin overtaken' => mandate = "AwaitingReceipt" /\ paid \subseteq overtaken
       /\ paid' = paid \union {p}
  /\ UNCHANGED <<mandate, over>>

Reject ==
  /\ mandate = "AwaitingReceipt"
  /\ paid \subseteq overtaken \/ over
  /\ mandate' = "Ready"
  /\ UNCHANGED <<paid, over, overtaken>>

Accept ==
  /\ mandate = "AwaitingReceipt" /\ paid # {}
  /\ mandate' = "Spent"
  /\ UNCHANGED <<paid, over, overtaken>>

RunOut ==
  /\ over' = TRUE
  /\ UNCHANGED <<mandate, paid, overtaken>>

Overtake ==
  /\ \E p \in Purchases : overtaken' = overtaken \union {p}
  /\ UNCHANGED <<mandate, paid, over>>

Next == Present \/ Pay \/ Reject \/ Accept \/ RunOut \/ Overtake

Spec == Init /\ [][Next]_authVars
=============================================================================
