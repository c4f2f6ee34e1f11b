-------------------------- MODULE MandateLifecycle --------------------------
(***************************************************************************)
(* The state machine of one open mandate (core/authz/lifecycle.go).  It is *)
(* a pure table: the caller keeps the state and is told, for an event,     *)
(* which state comes next or which rule refuses the event.  A refused      *)
(* event hands back the state it was given.                                *)
(***************************************************************************)

MandateState == {"Ready", "AwaitingReceipt", "Spent"}
MandateEvent == {"Attempted", "Rejected", "Accepted"}

\* The three cells that move the mandate; the other six are refusals.
permitted ==
  { <<"Ready",           "Attempted", "AwaitingReceipt">>,
    <<"AwaitingReceipt", "Rejected",  "Ready">>,
    <<"AwaitingReceipt", "Accepted",  "Spent">> }

Permits(s, e) == \E n \in MandateState : <<s, e, n>> \in permitted

\* The sentinel a refused event is answered with.
refusal(s, e) ==
  IF e # "Attempted" THEN "ErrNoPresentationOutstanding"
  ELSE IF s = "Spent" THEN "ErrMandateSpent" ELSE "ErrOpenMandateOutstanding"

NextState(s, e) ==
  IF Permits(s, e)
  THEN CHOOSE n \in MandateState : <<s, e, n>> \in permitted
  ELSE s
=============================================================================
