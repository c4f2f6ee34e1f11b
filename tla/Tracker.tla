------------------------------ MODULE Tracker -------------------------------
(***************************************************************************)
(* agent.Tracker: the rejection-receipt rule as one agent keeps it, one    *)
(* mandate state per open mandate, stepped together.  Tracker.Attempt is   *)
(* two steps here, because the callback it runs in between performs the    *)
(* whole delivery: BeginAttempt is everything before run(), FinishAttempt  *)
(* everything after it.  A module that extends this one conjoins these     *)
(* steps with those of the caller.                                         *)
(***************************************************************************)
EXTENDS MandateLifecycle, Naturals

VARIABLES
  checkout,     \* state of the open Checkout Mandate
  payment,      \* state of the open Payment Mandate
  outstanding,  \* the attempt awaiting a receipt, NoAttempt when none is
  running       \* the attempt whose run() has not returned, NoAttempt when none

trackerVars == <<checkout, payment, outstanding, running>>

\* Attempts are numbered from 1 in the order they are minted: the code's
\* identifier is a fingerprint of documents no two attempts share.
NoAttempt == 0

Verdict == {"Accepted", "Rejected", "Unanswered"}

TrackerTypeOK ==
  /\ checkout \in MandateState
  /\ payment \in MandateState
  /\ outstanding \in Nat
  /\ running \in Nat

TrackerInit ==
  /\ checkout = "Ready"
  /\ payment = "Ready"
  /\ outstanding = NoAttempt
  /\ running = NoAttempt

\* The outstanding attempt is being presented again: the machine is not stepped.
IsRedelivery(id) == outstanding = id

\* Neither move is made unless both mandates permit it.
LicensesAttempt(id) ==
  IsRedelivery(id) \/ (Permits(checkout, "Attempted") /\ Permits(payment, "Attempted"))

\* Slip: the attempt is recorded against the open Payment Mandate alone.
BeginAttemptHalf(id) ==
  /\ running = NoAttempt
  /\ LicensesAttempt(id)
  /\ running' = id
  /\ payment' = NextState(payment, "Attempted")
  /\ outstanding' = id
  /\ UNCHANGED checkout

BeginAttempt(id) ==
  /\ running = NoAttempt
  /\ LicensesAttempt(id)
  /\ running' = id
  /\ IF IsRedelivery(id)
     THEN UNCHANGED <<checkout, payment, outstanding>>
     ELSE /\ checkout' = NextState(checkout, "Attempted")
          /\ payment' = NextState(payment, "Attempted")
          /\ outstanding' = id

FinishAttempt(verdict) ==
  /\ running # NoAttempt
  /\ running' = NoAttempt
  /\ IF verdict = "Unanswered"
     THEN UNCHANGED <<checkout, payment, outstanding>>
     ELSE /\ Permits(checkout, verdict) /\ Permits(payment, verdict)
          /\ checkout' = NextState(checkout, verdict)
          /\ payment' = NextState(payment, verdict)
          /\ outstanding' = NoAttempt
=============================================================================
