-------------------------------- MODULE Watch --------------------------------
(***************************************************************************)
(* agent.Watch.Run: the loop that carries a delegated purchase.  It takes  *)
(* a baseline quote, re-quotes on every tick, mints a delegation when the  *)
(* price step moved, presents it as one attempt of the Tracker, and        *)
(* re-delivers the same documents for as long as nobody answers.           *)
(*                                                                         *)
(* What the loop does not control is nondeterministic here: how far the    *)
(* price moved between two ticks, which calls fail, and the verdict a      *)
(* delivery comes back with.  DelegatedPurchase replaces that last choice  *)
(* by the counterparties.                                                  *)
(***************************************************************************)
EXTENDS Tracker, Sequences

CONSTANT
  NumSteps      \* prices on the merchant's schedule

ASSUME NumStepsAssumption == NumSteps \in Nat \ {0}

VARIABLES
  cyclic,       \* the merchant's schedule wraps round to its first price
  step,         \* the schedule's step in force at the merchant
  expired,      \* the user's authorisation has run out
  pc,           \* where Run is
  instruction,  \* the sentence named no condition to wait for
  opening,      \* an instruction's first pass has not been taken yet
  last,         \* step of the newest quote acted on
  quoted,       \* step of the quote being minted against
  pending,      \* the unanswered attempt that will be re-delivered
  attempts,     \* step each attempt was made at (Watched.Attempts)
  refused,      \* steps attempted and refused
  ending        \* what Run returned with

loopVars == <<pc, instruction, opening, last, quoted, pending, attempts, refused, ending>>
marketVars == <<cyclic, step, expired>>
watchVars == <<trackerVars, loopVars, marketVars>>

Steps == 0 .. NumSteps - 1

Ending == {"running", "unquoted", "cancelled", "bought", "authorisation_expired",
           "limit_out_of_reach", "purchase_refused", "schedule_exhausted"}

\* Quote.Final: the step holds for ever.  A single price is held still, wrap or not.
Final(s) == s = NumSteps - 1 /\ (~cyclic \/ NumSteps = 1)

LastAttempt == Len(attempts)

AttemptedSteps == {attempts[i] : i \in 1 .. Len(attempts)}

WatchTypeOK ==
  /\ TrackerTypeOK
  /\ step \in Steps /\ last \in Steps /\ quoted \in Steps
  /\ cyclic \in BOOLEAN /\ expired \in BOOLEAN /\ instruction \in BOOLEAN /\ opening \in BOOLEAN
  /\ pc \in {"starting", "looping", "minting", "delivering", "ended"}
  /\ pending \in Nat
  /\ attempts \in Seq(Steps)
  /\ refused \in SUBSET Steps
  /\ ending \in Ending

WatchInit ==
  /\ TrackerInit
  /\ step = 0 /\ last = 0 /\ quoted = 0
  /\ cyclic \in BOOLEAN
  /\ expired = FALSE
  /\ instruction \in BOOLEAN
  /\ opening = FALSE
  /\ pc = "starting"
  /\ pending = NoAttempt
  /\ attempts = << >>
  /\ refused = {}
  /\ ending = "running"

-----------------------------------------------------------------------------
(* The market: what moves while the loop is looking elsewhere. *)

\* Slip: a schedule that wraps is advanced without being wrapped.
PriceMovesOn ==
  /\ ~Final(step)
  /\ step' = step + 1
  /\ UNCHANGED <<cyclic, expired, trackerVars, loopVars>>

PriceMoves ==
  /\ ~Final(step)
  /\ step' = (step + 1) % NumSteps
  /\ UNCHANGED <<cyclic, expired, trackerVars, loopVars>>

AuthorisationRunsOut ==
  /\ ~expired
  /\ expired' = TRUE
  /\ UNCHANGED <<cyclic, step, trackerVars, loopVars>>

-----------------------------------------------------------------------------
(* The loop. *)

Return(how) ==
  /\ pc' = "ended"
  /\ ending' = how

\* The baseline quote.  A merchant that does not answer it ends the run.
TakeBaseline ==
  /\ pc = "starting"
  /\ pc' = "looping"
  /\ last' = step
  /\ opening' = instruction
  /\ UNCHANGED <<instruction, quoted, pending, attempts, refused, ending,
                 marketVars, trackerVars>>

BaselineFails ==
  /\ pc = "starting"
  /\ Return("unquoted")
  /\ UNCHANGED <<instruction, opening, last, quoted, pending, attempts, refused,
                 marketVars, trackerVars>>

\* ctx.Done wins the select; an instruction's opening pass never reaches it.
Cancel ==
  /\ pc = "looping" /\ ~opening
  /\ Return("cancelled")
  /\ UNCHANGED <<instruction, opening, last, quoted, pending, attempts, refused,
                 marketVars, trackerVars>>

\* A tick finds an unanswered attempt: its own documents go out again, at its
\* own quote, and neither the clock nor the price is consulted.
Redeliver ==
  /\ pc = "looping" /\ pending # NoAttempt
  /\ BeginAttempt(pending)
  /\ pc' = "delivering"
  /\ UNCHANGED <<instruction, opening, last, quoted, pending, attempts, refused, ending,
                 marketVars>>

\* Slip: the expiry is looked at before the unanswered attempt is.
StopExpiredFirst ==
  /\ pc = "looping"
  /\ expired
  /\ Return("authorisation_expired")
  /\ UNCHANGED <<instruction, opening, last, quoted, pending, attempts, refused,
                 marketVars, trackerVars>>

\* Slip: the expiry is only looked at once the price has moved.
StopExpiredOnChange ==
  /\ pc = "looping" /\ pending = NoAttempt
  /\ expired /\ step # last
  /\ Return("authorisation_expired")
  /\ UNCHANGED <<instruction, opening, last, quoted, pending, attempts, refused,
                 marketVars, trackerVars>>

StopExpired ==
  /\ pc = "looping" /\ pending = NoAttempt
  /\ expired
  /\ Return("authorisation_expired")
  /\ UNCHANGED <<instruction, opening, last, quoted, pending, attempts, refused,
                 marketVars, trackerVars>>

\* The opening pass of an instruction mints against the baseline it holds.
QuoteBaseline ==
  /\ pc = "looping" /\ pending = NoAttempt /\ ~expired
  /\ opening
  /\ opening' = FALSE
  /\ quoted' = last
  /\ pc' = "minting"
  /\ UNCHANGED <<instruction, last, pending, attempts, refused, ending,
                 marketVars, trackerVars>>

\* Any other pass asks the merchant.  An unchanged step is only worth acting on
\* for an instruction; a poll that fails and an unchanged one leave no trace.
ActsOnQuote == instruction \/ step # last

\* Slip: the merchant is polled while an attempt is unanswered.
QuoteWhilePending ==
  /\ pc = "looping" /\ ~expired
  /\ ~opening
  /\ ActsOnQuote
  /\ step \notin refused
  /\ quoted' = step
  /\ pc' = "minting"
  /\ UNCHANGED <<instruction, opening, last, pending, attempts, refused, ending,
                 marketVars, trackerVars>>

QuoteAgain ==
  /\ pc = "looping" /\ pending = NoAttempt /\ ~expired
  /\ ~opening
  /\ ActsOnQuote
  /\ step \notin refused
  /\ quoted' = step
  /\ pc' = "minting"
  /\ UNCHANGED <<instruction, opening, last, pending, attempts, refused, ending,
                 marketVars, trackerVars>>

StopOutOfReach ==
  /\ pc = "looping" /\ pending = NoAttempt /\ ~expired
  /\ ~opening
  /\ ActsOnQuote
  /\ step \in refused
  /\ Return("limit_out_of_reach")
  /\ UNCHANGED <<instruction, opening, last, quoted, pending, attempts, refused,
                 marketVars, trackerVars>>

\* Delegate succeeded: the step change is consumed and the attempt begins.
Mint ==
  /\ pc = "minting"
  /\ last' = quoted
  /\ attempts' = Append(attempts, quoted)
  /\ BeginAttempt(Len(attempts) + 1)
  /\ pc' = "delivering"
  /\ UNCHANGED <<instruction, opening, quoted, pending, refused, ending, marketVars>>

\* Delegate failed: last stays, so the next tick finds the same change again.
MintFails ==
  /\ pc = "minting"
  /\ pc' = "looping"
  /\ UNCHANGED <<instruction, opening, last, quoted, pending, attempts, refused, ending,
                 marketVars, trackerVars>>

\* Deliver returned and verdictOf read its outcome.
Bought ==
  /\ pc = "delivering"
  /\ FinishAttempt("Accepted")
  /\ Return("bought")
  /\ UNCHANGED <<instruction, opening, last, quoted, pending, attempts, refused,
                 marketVars>>

\* Slip: the documents of an unanswered attempt are not kept.
UnansweredForgotten ==
  /\ pc = "delivering"
  /\ FinishAttempt("Unanswered")
  /\ pending' = NoAttempt
  /\ pc' = "looping"
  /\ UNCHANGED <<instruction, opening, last, quoted, attempts, refused, ending,
                 marketVars>>

Unanswered ==
  /\ pc = "delivering"
  /\ FinishAttempt("Unanswered")
  /\ pending' = running
  /\ pc' = "looping"
  /\ UNCHANGED <<instruction, opening, last, quoted, attempts, refused, ending,
                 marketVars>>

\* Slip: the refused step is not remembered.
RefusedForgotten ==
  /\ pc = "delivering"
  /\ FinishAttempt("Rejected")
  /\ pending' = NoAttempt
  /\ \/ /\ instruction
        /\ Return("purchase_refused")
     \/ /\ ~instruction /\ Final(attempts[running])
        /\ Return("schedule_exhausted")
     \/ /\ ~instruction /\ ~Final(attempts[running])
        /\ pc' = "looping"
        /\ UNCHANGED ending
  /\ UNCHANGED <<instruction, opening, last, quoted, attempts, refused, marketVars>>

Refused ==
  /\ pc = "delivering"
  /\ FinishAttempt("Rejected")
  /\ pending' = NoAttempt
  /\ refused' = IF instruction THEN refused ELSE refused \union {attempts[running]}
  /\ \/ /\ instruction
        /\ Return("purchase_refused")
     \/ /\ ~instruction /\ Final(attempts[running])
        /\ Return("schedule_exhausted")
     \/ /\ ~instruction /\ ~Final(attempts[running])
        /\ pc' = "looping"
        /\ UNCHANGED ending
  /\ UNCHANGED <<instruction, opening, last, quoted, attempts, marketVars>>

Delivered(verdict) ==
  CASE verdict = "Accepted"   -> Bought
    [] verdict = "Rejected"   -> Refused
    [] verdict = "Unanswered" -> Unanswered

\* Run has returned; nothing of the loop is left to take a step.
Ended == pc = "ended" /\ UNCHANGED watchVars

Market == PriceMoves \/ AuthorisationRunsOut

\* Every step of the loop that neither mints nor ends a delivery.
Loop ==
  \/ TakeBaseline \/ BaselineFails \/ Cancel
  \/ Redeliver \/ StopExpired
  \/ QuoteBaseline \/ QuoteAgain \/ StopOutOfReach
  \/ MintFails

WatchNext ==
  \/ Market
  \/ Loop
  \/ Mint
  \/ Bought \/ Unanswered \/ Refused
  \/ Ended

WatchSpec == WatchInit /\ [][WatchNext]_watchVars

-----------------------------------------------------------------------------
(* Fairness: the ticker keeps firing, so the loop keeps taking passes; the *)
(* clock reaches the authorisation's expiry; and a delivery repeated for   *)
(* ever is answered in the end.                                            *)

LoopFairness ==
  /\ WF_watchVars(TakeBaseline \/ BaselineFails)
  /\ WF_watchVars(Redeliver)
  /\ WF_watchVars(StopExpired)
  /\ WF_watchVars(QuoteBaseline)
  /\ WF_watchVars(Mint \/ MintFails)

WatchFairness ==
  /\ LoopFairness
  /\ WF_watchVars(AuthorisationRunsOut)
  /\ WF_watchVars(Bought \/ Unanswered \/ Refused)
  /\ SF_watchVars(Bought \/ Refused)

FairWatchSpec == WatchSpec /\ WatchFairness

-----------------------------------------------------------------------------
(* Properties. *)

\* The two open mandates never diverge, and an attempt is outstanding exactly
\* while both await a receipt (agent/tracker.go, "Two states, not one").
PairInStep ==
  /\ checkout = payment
  /\ (outstanding # NoAttempt) <=> (checkout = "AwaitingReceipt")

\* The loop holds on to exactly the attempt the rule says is unanswered: between
\* two deliveries the documents it will present again are the outstanding ones.
HoldsWhatIsOutstanding ==
  pc \in {"looping", "minting"} => pending = outstanding

\* Whenever the loop reaches Tracker.Attempt the rule permits what it asks, so
\* neither sentinel of the lifecycle machine is ever met by Run.
NeverRefusedByTheRule ==
  /\ pc = "minting" => LicensesAttempt(Len(attempts) + 1)
  /\ (pc = "looping" /\ pending # NoAttempt) => LicensesAttempt(pending)

\* No price step is presented as two attempts, through failed mints, lost
\* answers and laps of a cyclic schedule: one row per step.
EachStepAttemptedOnce ==
  \A i, j \in 1 .. Len(attempts) : i # j => attempts[i] # attempts[j]

\* What Run reports is what its attempts add up to: a purchase spends the pair,
\* an instruction is refused after exactly one attempt, and the schedule is
\* exhausted only once the price that holds for ever was refused.
EndingIsHonest ==
  /\ (ending = "bought") <=> (checkout = "Spent")
  /\ ending = "purchase_refused" => instruction /\ Len(attempts) = 1
  /\ ending = "schedule_exhausted" =>
       Final(attempts[LastAttempt]) /\ refused = AttemptedSteps
  /\ ending \in {"purchase_refused", "schedule_exhausted", "limit_out_of_reach",
                 "authorisation_expired"} => outstanding = NoAttempt

\* ErrLimitOutOfReach's own words: every price this offer moves through was
\* attempted, and every attempt was refused.
OutOfReachMeansEveryPriceTried ==
  ending = "limit_out_of_reach" => refused = Steps

\* A watch does not run for ever: it buys, is refused, or its authorisation
\* runs out.
WatchEnds == <>(pc = "ended")
=============================================================================
