----------------------- MODULE DelegatedPurchase_proofs ------------------------
(***************************************************************************)
(* Theorems about a whole delegated purchase, for a schedule of any length, *)
(* any number of copies of a request and any set of faults.                *)
(*                                                                         *)
(* The watch loop comes first, of WatchSpec by itself.  None of its        *)
(* invariants is inductive; WatchInv strengthens them with what the loop's *)
(* local variables say about the tracker at each place it can be in.       *)
(*                                                                         *)
(* Every step of the purchase is a step of the watch loop or leaves it     *)
(* alone, so what is shown of the loop holds here too.  That one           *)
(* attempt is charged once rests on three facts about the processor: its   *)
(* key is claimed exactly while a handler runs, a charge it would still    *)
(* honour the nonce of is on record, and only a minted attempt has a nonce.*)
(***************************************************************************)
EXTENDS DelegatedPurchase, FiniteSetTheorems, TLAPS

-----------------------------------------------------------------------------
(* The lifecycle table, cell by cell. *)

LEMMA PermittedCells ==
  ASSUME NEW s \in MandateState, NEW e \in MandateEvent
  PROVE  Permits(s, e) <=>
           \/ s = "Ready" /\ e = "Attempted"
           \/ s = "AwaitingReceipt" /\ e \in {"Rejected", "Accepted"}
BY DEF Permits, permitted, MandateState, MandateEvent

LEMMA NextStates ==
  /\ NextState("Ready", "Attempted") = "AwaitingReceipt"
  /\ NextState("AwaitingReceipt", "Rejected") = "Ready"
  /\ NextState("AwaitingReceipt", "Accepted") = "Spent"
BY DEF NextState, Permits, permitted, MandateState

-----------------------------------------------------------------------------
(* The inductive invariant. *)

\* An attempt is in delivery exactly when the loop says so, and it is the newest.
DeliveryInv ==
  /\ (pc = "delivering") <=> (running # NoAttempt)
  /\ running # NoAttempt => running = outstanding
  /\ outstanding # NoAttempt => outstanding = Len(attempts)
  /\ pc = "minting" => pending = NoAttempt
  /\ (checkout = "Spent") <=> (ending = "bought")
  /\ (pc = "ended") <=> (ending # "running")

\* The attempts so far are the refused ones and the outstanding one.
HistoryInv ==
  /\ pc = "starting" =>
       attempts = << >> /\ refused = {} /\ pending = NoAttempt /\ outstanding = NoAttempt
  /\ opening => instruction
  /\ instruction => Len(attempts) <= 1
  /\ instruction /\ pc # "ended" /\ outstanding = NoAttempt => attempts = << >>
  /\ ~instruction /\ pc # "ended" =>
       AttemptedSteps =
         refused \union (IF outstanding = NoAttempt THEN {} ELSE {attempts[Len(attempts)]})
  /\ pc = "minting" => quoted \notin AttemptedSteps

WatchInv ==
  /\ WatchTypeOK
  /\ PairInStep
  /\ HoldsWhatIsOutstanding
  /\ DeliveryInv
  /\ HistoryInv
  /\ EachStepAttemptedOnce
  /\ EndingIsHonest

-----------------------------------------------------------------------------
(* It holds initially. *)

LEMMA InitEstablishesWatchInv == WatchInit => WatchInv
<1> SUFFICES ASSUME WatchInit PROVE WatchInv
  OBVIOUS
<1>1. 0 \in Steps
  BY NumStepsAssumption DEF Steps
<1>2. attempts \in Seq(Steps) /\ Len(attempts) = 0
  BY DEF WatchInit
<1>3. WatchTypeOK
  BY <1>1, <1>2 DEF WatchInit, WatchTypeOK, TrackerInit, TrackerTypeOK, NoAttempt,
     MandateState, Ending
<1>4. PairInStep /\ HoldsWhatIsOutstanding /\ DeliveryInv
  BY DEF WatchInit, TrackerInit, PairInStep, HoldsWhatIsOutstanding, DeliveryInv
<1>5. HistoryInv /\ EachStepAttemptedOnce
  BY <1>2 DEF WatchInit, TrackerInit, HistoryInv, EachStepAttemptedOnce, AttemptedSteps
<1>6. EndingIsHonest
  BY DEF WatchInit, TrackerInit, EndingIsHonest
<1> QED
  BY <1>3, <1>4, <1>5, <1>6 DEF WatchInv

-----------------------------------------------------------------------------
(* The market's moves do not touch what the loop knows. *)

LEMMA MarketKeepsWatchInv ==
  ASSUME WatchInv, Market
  PROVE  WatchInv'
<1>1. step' \in Steps /\ expired' \in BOOLEAN
  <2>1. CASE PriceMoves
    <3>1. step \in Nat
      BY NumStepsAssumption DEF WatchInv, WatchTypeOK, Steps
    <3> QED
      BY <2>1, <3>1, NumStepsAssumption DEF PriceMoves, Steps, WatchInv, WatchTypeOK
  <2>2. CASE AuthorisationRunsOut
    BY <2>2 DEF AuthorisationRunsOut, WatchInv, WatchTypeOK
  <2> QED
    BY <2>1, <2>2 DEF Market
<1>2. UNCHANGED <<cyclic, trackerVars, loopVars>>
  BY DEF Market, PriceMoves, AuthorisationRunsOut
<1> QED
  BY <1>1, <1>2 DEF WatchInv, WatchTypeOK, TrackerTypeOK, PairInStep, HoldsWhatIsOutstanding,
     DeliveryInv, HistoryInv, EachStepAttemptedOnce, EndingIsHonest, AttemptedSteps, Final,
     LastAttempt, trackerVars, loopVars

-----------------------------------------------------------------------------
(* The loop's own steps.  Those that return, or only turn to another place,  *)
(* leave the history of the attempts as it was.                              *)

LEMMA HistoryUnchanged ==
  ASSUME EachStepAttemptedOnce, UNCHANGED attempts
  PROVE  EachStepAttemptedOnce' /\ AttemptedSteps' = AttemptedSteps
BY DEF EachStepAttemptedOnce, AttemptedSteps

LEMMA ReturningKeepsWatchInv ==
  ASSUME WatchInv,
         BaselineFails \/ Cancel \/ StopExpired \/ StopOutOfReach
  PROVE  WatchInv'
<1>1. /\ pc # "delivering" /\ pc # "ended" /\ pc' = "ended"
      /\ ending' \in {"unquoted", "cancelled", "authorisation_expired", "limit_out_of_reach"}
      /\ ending' \in {"authorisation_expired", "limit_out_of_reach"} =>
           pc = "looping" /\ pending = NoAttempt
      /\ UNCHANGED <<instruction, opening, last, quoted, pending, attempts, refused,
                     marketVars, trackerVars>>
  BY DEF BaselineFails, Cancel, StopExpired, StopOutOfReach, Return
<1>2. WatchTypeOK'
  BY <1>1 DEF WatchInv, WatchTypeOK, TrackerTypeOK, Ending, marketVars, trackerVars
<1>3. PairInStep' /\ HoldsWhatIsOutstanding' /\ DeliveryInv'
  BY <1>1 DEF WatchInv, PairInStep, HoldsWhatIsOutstanding, DeliveryInv, trackerVars
<1>4. HistoryInv' /\ EachStepAttemptedOnce'
  BY <1>1, HistoryUnchanged DEF WatchInv, HistoryInv, trackerVars
<1>5. EndingIsHonest'
  BY <1>1 DEF WatchInv, EndingIsHonest, HoldsWhatIsOutstanding, DeliveryInv, trackerVars
<1> QED
  BY <1>2, <1>3, <1>4, <1>5 DEF WatchInv

LEMMA TurningKeepsWatchInv ==
  ASSUME WatchInv,
         TakeBaseline \/ QuoteBaseline \/ QuoteAgain \/ MintFails
  PROVE  WatchInv'
<1>1. /\ pc \in {"starting", "looping", "minting"} /\ pc' \in {"looping", "minting"}
      /\ UNCHANGED <<instruction, pending, attempts, refused, ending, trackerVars, marketVars>>
  BY DEF TakeBaseline, QuoteBaseline, QuoteAgain, MintFails
<1>2. last' \in {last, step} /\ quoted' \in {quoted, last, step}
  BY DEF TakeBaseline, QuoteBaseline, QuoteAgain, MintFails
<1>3. opening' \in {opening, instruction, FALSE}
  BY DEF TakeBaseline, QuoteBaseline, QuoteAgain, MintFails
<1>4. pc' = "minting" =>
        /\ pc = "looping" /\ pending = NoAttempt
        /\ opening \/ quoted' \notin refused
  BY DEF TakeBaseline, QuoteBaseline, QuoteAgain, MintFails
<1>5. WatchTypeOK'
  BY <1>1, <1>2, <1>3 DEF WatchInv, WatchTypeOK, TrackerTypeOK, trackerVars, marketVars
<1>6. PairInStep' /\ HoldsWhatIsOutstanding' /\ DeliveryInv'
  BY <1>1, <1>4 DEF WatchInv, PairInStep, HoldsWhatIsOutstanding, DeliveryInv, HistoryInv,
     trackerVars
<1>7. AttemptedSteps' = AttemptedSteps /\ EachStepAttemptedOnce'
  BY <1>1, HistoryUnchanged DEF WatchInv
<1>8. pc' = "minting" => quoted' \notin AttemptedSteps
  <2> SUFFICES ASSUME pc' = "minting" PROVE quoted' \notin AttemptedSteps
    OBVIOUS
  <2>1. pc = "looping" /\ outstanding = NoAttempt
    BY <1>4 DEF WatchInv, HoldsWhatIsOutstanding
  <2>2. CASE instruction
    <3>1. attempts = << >>
      BY <2>1, <2>2 DEF WatchInv, HistoryInv
    <3> QED
      BY <3>1 DEF AttemptedSteps
  <2>3. CASE ~instruction
    <3>1. AttemptedSteps = refused
      BY <2>1, <2>3 DEF WatchInv, HistoryInv
    <3> QED
      BY <3>1, <1>4, <2>3 DEF WatchInv, HistoryInv
  <2> QED
    BY <2>2, <2>3
<1>9. HistoryInv'
  <2>1. opening' => instruction'
    BY <1>1, <1>3 DEF WatchInv, HistoryInv, WatchTypeOK
  <2> QED
    BY <1>1, <1>7, <1>8, <2>1 DEF WatchInv, HistoryInv, trackerVars
<1>10. EndingIsHonest'
  BY <1>1, <1>7 DEF WatchInv, EndingIsHonest, Final, LastAttempt, trackerVars, marketVars
<1> QED
  BY <1>5, <1>6, <1>7, <1>9, <1>10 DEF WatchInv

LEMMA RedeliverKeepsWatchInv ==
  ASSUME WatchInv, Redeliver
  PROVE  WatchInv'
<1>1. pending = outstanding /\ pc = "looping" /\ pending # NoAttempt
  BY DEF Redeliver, WatchInv, HoldsWhatIsOutstanding
<1>2. /\ running' = pending /\ pc' = "delivering"
      /\ UNCHANGED <<checkout, payment, outstanding, instruction, opening, last, quoted,
                     pending, attempts, refused, ending, marketVars>>
  BY <1>1 DEF Redeliver, BeginAttempt, IsRedelivery
<1>3. WatchTypeOK'
  BY <1>2 DEF WatchInv, WatchTypeOK, TrackerTypeOK, marketVars
<1>4. PairInStep' /\ HoldsWhatIsOutstanding' /\ DeliveryInv'
  BY <1>1, <1>2 DEF WatchInv, PairInStep, HoldsWhatIsOutstanding, DeliveryInv
<1>5. HistoryInv' /\ EachStepAttemptedOnce'
  BY <1>1, <1>2, HistoryUnchanged DEF WatchInv, HistoryInv
<1>6. EndingIsHonest'
  BY <1>2, HistoryUnchanged DEF WatchInv, EndingIsHonest, Final, LastAttempt, marketVars
<1> QED
  BY <1>3, <1>4, <1>5, <1>6 DEF WatchInv

-----------------------------------------------------------------------------
(* Beginning and ending an attempt. *)

LEMMA MintKeepsWatchInv ==
  ASSUME WatchInv, Mint
  PROVE  WatchInv'
<1> DEFINE new == Len(attempts) + 1
<1>1. /\ pc = "minting" /\ pending = NoAttempt /\ outstanding = NoAttempt
      /\ quoted \notin AttemptedSteps
      /\ attempts \in Seq(Steps) /\ quoted \in Steps
      /\ ending = "running" /\ checkout # "Spent"
  BY DEF Mint, WatchInv, WatchTypeOK, HoldsWhatIsOutstanding, DeliveryInv, HistoryInv
<1>2. checkout = "Ready" /\ payment = "Ready"
  BY <1>1 DEF WatchInv, WatchTypeOK, TrackerTypeOK, MandateState, PairInStep
<1>3. new \in Nat /\ new # NoAttempt /\ ~IsRedelivery(new)
  BY <1>1 DEF NoAttempt, IsRedelivery
<1>4. /\ running' = new /\ outstanding' = new
      /\ checkout' = "AwaitingReceipt" /\ payment' = "AwaitingReceipt"
  BY <1>2, <1>3, NextStates DEF Mint, BeginAttempt
<1>5. /\ pc' = "delivering" /\ last' = quoted
      /\ UNCHANGED <<instruction, opening, quoted, pending, refused, ending, marketVars>>
  BY DEF Mint
<1>6. /\ attempts' \in Seq(Steps) /\ Len(attempts') = new
      /\ \A k \in 1 .. Len(attempts) : attempts'[k] = attempts[k]
      /\ attempts'[new] = quoted
  BY <1>1 DEF Mint
<1>7. WatchTypeOK'
  BY <1>3, <1>4, <1>5, <1>6, <1>1 DEF WatchInv, WatchTypeOK, TrackerTypeOK, MandateState,
     marketVars
<1>8. PairInStep' /\ HoldsWhatIsOutstanding' /\ DeliveryInv'
  BY <1>1, <1>3, <1>4, <1>5, <1>6 DEF WatchInv, PairInStep, HoldsWhatIsOutstanding,
     DeliveryInv
<1>9. AttemptedSteps' = AttemptedSteps \union {quoted}
  <2>1. \A k \in 1 .. Len(attempts') : k \in 1 .. Len(attempts) \/ k = new
    BY <1>6, <1>1
  <2>2. 1 .. Len(attempts) \subseteq 1 .. Len(attempts') /\ new \in 1 .. Len(attempts')
    BY <1>6, <1>1
  <2> QED
    BY <2>1, <2>2, <1>6 DEF AttemptedSteps
<1>10. EachStepAttemptedOnce'
  <2> SUFFICES ASSUME NEW k \in 1 .. Len(attempts'), NEW m \in 1 .. Len(attempts'),
                      k # m, attempts'[k] = attempts'[m]
               PROVE  FALSE
    BY DEF EachStepAttemptedOnce
  <2>1. \A n \in 1 .. Len(attempts) : attempts[n] # quoted
    BY <1>1 DEF AttemptedSteps
  <2>2. k \in 1 .. Len(attempts) \/ k = new
    BY <1>6, <1>1
  <2>3. m \in 1 .. Len(attempts) \/ m = new
    BY <1>6, <1>1
  <2> QED
    BY <2>1, <2>2, <2>3, <1>6 DEF WatchInv, EachStepAttemptedOnce
<1>11. instruction => attempts = << >>
  BY <1>1 DEF WatchInv, HistoryInv
<1>12. ~instruction => AttemptedSteps = refused
  BY <1>1 DEF WatchInv, HistoryInv
<1>13. HistoryInv'
  <2>1. instruction' => Len(attempts') <= 1
    BY <1>5, <1>6, <1>11
  <2>2. ~instruction' => AttemptedSteps' = refused' \union {attempts'[Len(attempts')]}
    BY <1>5, <1>6, <1>9, <1>12
  <2> QED
    BY <2>1, <2>2, <1>3, <1>4, <1>5 DEF WatchInv, HistoryInv
<1>14. EndingIsHonest'
  BY <1>1, <1>4, <1>5 DEF EndingIsHonest
<1> QED
  BY <1>7, <1>8, <1>10, <1>13, <1>14 DEF WatchInv

\* What a verdict does to the tracker while an attempt is in delivery.
LEMMA InDelivery ==
  ASSUME WatchInv, pc = "delivering"
  PROVE  /\ running = outstanding /\ outstanding = Len(attempts) /\ outstanding # NoAttempt
         /\ checkout = "AwaitingReceipt" /\ payment = "AwaitingReceipt"
         /\ ending = "running" /\ running \in 1 .. Len(attempts)
<1>1. running # NoAttempt /\ running = outstanding /\ outstanding = Len(attempts)
  BY DEF WatchInv, DeliveryInv
<1>2. checkout = "AwaitingReceipt" /\ payment = "AwaitingReceipt"
  BY <1>1 DEF WatchInv, PairInStep
<1>3. ending = "running"
  BY DEF WatchInv, DeliveryInv
<1>4. Len(attempts) \in Nat
  BY DEF WatchInv, WatchTypeOK
<1> QED
  BY <1>1, <1>2, <1>3, <1>4 DEF NoAttempt

LEMMA UnansweredKeepsWatchInv ==
  ASSUME WatchInv, Unanswered
  PROVE  WatchInv'
<1>1. /\ pc = "delivering" /\ pc' = "looping" /\ running' = NoAttempt /\ pending' = running
      /\ UNCHANGED <<checkout, payment, outstanding, instruction, opening, last, quoted,
                     attempts, refused, ending, marketVars>>
  BY DEF Unanswered, FinishAttempt
<1>2. running = outstanding /\ outstanding # NoAttempt /\ running \in Nat
  BY <1>1, InDelivery DEF WatchInv, WatchTypeOK, TrackerTypeOK
<1>3. WatchTypeOK'
  BY <1>1, <1>2 DEF WatchInv, WatchTypeOK, TrackerTypeOK, NoAttempt, marketVars
<1>4. PairInStep' /\ HoldsWhatIsOutstanding' /\ DeliveryInv'
  BY <1>1, <1>2 DEF WatchInv, PairInStep, HoldsWhatIsOutstanding, DeliveryInv
<1>5. HistoryInv' /\ EachStepAttemptedOnce'
  BY <1>1, HistoryUnchanged DEF WatchInv, HistoryInv
<1>6. EndingIsHonest'
  BY <1>1, HistoryUnchanged DEF WatchInv, EndingIsHonest, Final, LastAttempt, marketVars
<1> QED
  BY <1>3, <1>4, <1>5, <1>6 DEF WatchInv

LEMMA BoughtKeepsWatchInv ==
  ASSUME WatchInv, Bought
  PROVE  WatchInv'
<1>1. /\ pc = "delivering" /\ pc' = "ended" /\ ending' = "bought" /\ running' = NoAttempt
      /\ UNCHANGED <<instruction, opening, last, quoted, pending, attempts, refused,
                     marketVars>>
  BY DEF Bought, Return, FinishAttempt
<1>2. checkout' = "Spent" /\ payment' = "Spent" /\ outstanding' = NoAttempt
  BY <1>1, InDelivery, NextStates DEF Bought, FinishAttempt
<1>3. WatchTypeOK'
  BY <1>1, <1>2 DEF WatchInv, WatchTypeOK, TrackerTypeOK, NoAttempt, MandateState, Ending,
     marketVars
<1>4. PairInStep' /\ HoldsWhatIsOutstanding' /\ DeliveryInv'
  BY <1>1, <1>2 DEF PairInStep, HoldsWhatIsOutstanding, DeliveryInv
<1>5. HistoryInv' /\ EachStepAttemptedOnce'
  BY <1>1, HistoryUnchanged DEF WatchInv, HistoryInv
<1>6. EndingIsHonest'
  BY <1>1, <1>2 DEF EndingIsHonest
<1> QED
  BY <1>3, <1>4, <1>5, <1>6 DEF WatchInv

LEMMA RefusedKeepsWatchInv ==
  ASSUME WatchInv, Refused
  PROVE  WatchInv'
<1>1. /\ pc = "delivering" /\ running' = NoAttempt /\ pending' = NoAttempt
      /\ UNCHANGED <<instruction, opening, last, quoted, attempts, marketVars>>
  BY DEF Refused, FinishAttempt
<1>2. checkout' = "Ready" /\ payment' = "Ready" /\ outstanding' = NoAttempt
  BY <1>1, InDelivery, NextStates DEF Refused, FinishAttempt
<1>3. /\ running = Len(attempts) /\ outstanding # NoAttempt /\ ending = "running"
      /\ running \in 1 .. Len(attempts) /\ attempts \in Seq(Steps)
  BY <1>1, InDelivery DEF WatchInv, WatchTypeOK
<1>4. attempts[running] \in Steps
  BY <1>3
<1>5. refused' = IF instruction THEN refused ELSE refused \union {attempts[running]}
  BY DEF Refused
<1>6. \/ instruction /\ pc' = "ended" /\ ending' = "purchase_refused"
      \/ /\ ~instruction /\ Final(attempts[running])
         /\ pc' = "ended" /\ ending' = "schedule_exhausted"
      \/ ~instruction /\ pc' = "looping" /\ ending' = "running"
  BY <1>3 DEF Refused, Return
<1>7. WatchTypeOK'
  BY <1>1, <1>2, <1>4, <1>5, <1>6 DEF WatchInv, WatchTypeOK, TrackerTypeOK, NoAttempt,
     MandateState, Ending, marketVars
<1>8. PairInStep' /\ HoldsWhatIsOutstanding' /\ DeliveryInv'
  BY <1>1, <1>2, <1>6 DEF PairInStep, HoldsWhatIsOutstanding, DeliveryInv
<1>9. AttemptedSteps' = AttemptedSteps /\ EachStepAttemptedOnce'
  BY <1>1, HistoryUnchanged DEF WatchInv
<1>10. ~instruction => AttemptedSteps = refused'
  BY <1>1, <1>3, <1>5 DEF WatchInv, HistoryInv
<1>11. HistoryInv'
  <2>1. opening' => instruction'
    BY <1>1 DEF WatchInv, HistoryInv
  <2>2. instruction' => Len(attempts') <= 1 /\ pc' = "ended"
    BY <1>1, <1>6 DEF WatchInv, HistoryInv
  <2>3. pc' \in {"looping", "ended"}
    BY <1>6
  <2> QED
    BY <1>1, <1>2, <1>9, <1>10, <2>1, <2>2, <2>3 DEF HistoryInv
<1>12. EndingIsHonest'
  <2>1. ending' # "bought" /\ checkout' # "Spent"
    BY <1>2, <1>6
  <2>2. ending' = "purchase_refused" => instruction' /\ Len(attempts') = 1
    BY <1>1, <1>3, <1>6 DEF WatchInv, HistoryInv
  <2>3. ending' = "schedule_exhausted" =>
          Final(attempts[Len(attempts)])' /\ refused' = AttemptedSteps'
    BY <1>1, <1>3, <1>6, <1>9, <1>10 DEF Final, marketVars
  <2> QED
    BY <1>2, <2>1, <2>2, <2>3 DEF EndingIsHonest, Final, LastAttempt
<1> QED
  BY <1>7, <1>8, <1>9, <1>11, <1>12 DEF WatchInv

-----------------------------------------------------------------------------
(* The theorems. *)

LEMMA StutterKeepsWatchInv ==
  ASSUME WatchInv, UNCHANGED watchVars
  PROVE  WatchInv'
BY DEF WatchInv, WatchTypeOK, TrackerTypeOK, PairInStep, HoldsWhatIsOutstanding,
   DeliveryInv, HistoryInv, EachStepAttemptedOnce, EndingIsHonest, AttemptedSteps, Final,
   LastAttempt, watchVars, trackerVars, loopVars, marketVars

\* One step of the loop or of the market, also as a step of a larger system.
LEMMA StepKeepsWatchInv ==
  ASSUME WatchInv, [WatchNext]_watchVars
  PROVE  WatchInv'
<1>1. CASE Market
  BY <1>1, MarketKeepsWatchInv
<1>2. CASE Loop
  BY <1>2, ReturningKeepsWatchInv, TurningKeepsWatchInv, RedeliverKeepsWatchInv DEF Loop
<1>3. CASE Mint
  BY <1>3, MintKeepsWatchInv
<1>4. CASE Bought \/ Unanswered \/ Refused
  BY <1>4, BoughtKeepsWatchInv, UnansweredKeepsWatchInv, RefusedKeepsWatchInv
<1>5. CASE Ended \/ UNCHANGED watchVars
  BY <1>5, StutterKeepsWatchInv DEF Ended
<1> QED
  BY <1>1, <1>2, <1>3, <1>4, <1>5 DEF WatchNext

\* The strengthened invariant holds of Watch.Run whatever the merchant's prices,
\* the counterparties' answers and the lost calls are (agent/watch.go, Run).
THEOREM WatchInvariant == WatchSpec => []WatchInv
BY InitEstablishesWatchInv, StepKeepsWatchInv, PTL DEF WatchSpec

\* The loop's variables keep their types: in particular no attempt is made at a
\* step the merchant does not have.
THEOREM WatchTypeCorrect == WatchSpec => []WatchTypeOK
BY WatchInvariant, PTL DEF WatchInv

\* The open Checkout Mandate and the open Payment Mandate never diverge
\* (agent/tracker.go, Attempt).
THEOREM MandatesStayInStep == WatchSpec => []PairInStep
BY WatchInvariant, PTL DEF WatchInv

\* What the loop would re-deliver is what awaits a receipt (agent/watch.go, pending).
THEOREM LoopHoldsTheOutstandingAttempt == WatchSpec => []HoldsWhatIsOutstanding
BY WatchInvariant, PTL DEF WatchInv

\* No price is presented as two attempts, on a schedule of any length that wraps
\* or does not (agent/watch.go, last and refused).
THEOREM NoStepAttemptedTwice == WatchSpec => []EachStepAttemptedOnce
BY WatchInvariant, PTL DEF WatchInv

\* The sentinel Run returns is the truth about its attempts (agent/watch.go,
\* ErrScheduleExhausted, ErrPurchaseRefused, ErrLimitOutOfReach).
THEOREM EndingsAreHonest == WatchSpec => []EndingIsHonest
BY WatchInvariant, PTL DEF WatchInv

\* The lifecycle machine licenses everything the loop asks of it: neither of its
\* sentinels ends a watch (core/authz/lifecycle.go, Next).
THEOREM TheRuleNeverRefusesTheLoop == WatchSpec => []NeverRefusedByTheRule
<1>1. WatchInv => NeverRefusedByTheRule
  <2> SUFFICES ASSUME WatchInv PROVE NeverRefusedByTheRule
    OBVIOUS
  <2>1. ASSUME pc = "minting" PROVE LicensesAttempt(Len(attempts) + 1)
    <3>1. outstanding = NoAttempt /\ checkout # "Spent"
      BY <2>1 DEF WatchInv, HoldsWhatIsOutstanding, DeliveryInv
    <3>2. checkout = "Ready" /\ payment = "Ready"
      BY <3>1 DEF WatchInv, WatchTypeOK, TrackerTypeOK, PairInStep, MandateState
    <3> QED
      BY <3>2, PermittedCells DEF LicensesAttempt, MandateState, MandateEvent
  <2>2. ASSUME pc = "looping" PROVE LicensesAttempt(pending)
    BY <2>2 DEF WatchInv, HoldsWhatIsOutstanding, LicensesAttempt, IsRedelivery
  <2> QED
    BY <2>1, <2>2 DEF NeverRefusedByTheRule
<1> QED
  BY <1>1, WatchInvariant, PTL

-----------------------------------------------------------------------------
(* The loop in the composition. *)

LEMMA DeliveredSteps ==
  ASSUME NEW verdict \in Verdict, Delivered(verdict)
  PROVE  Bought \/ Unanswered \/ Refused
BY DEF Delivered, Verdict

LEMMA VerdictOfType == \A answer : verdictOf(answer) \in Verdict
BY DEF verdictOf, Verdict

LEMMA StepIsWatchStep ==
  ASSUME [Next]_vars
  PROVE  [WatchNext]_watchVars
<1>1. CASE (Market /\ Others) \/ (Loop /\ Others) \/ MintAttempt \/ (Ended /\ Others)
  BY <1>1 DEF MintAttempt, WatchNext
<1>2. CASE AgentNext
  <2>1. CASE Fund \/ Settle \/ HearCredential
    BY <2>1 DEF Fund, Settle, HearCredential
  <2>2. CASE HearVerdict
    <3>1. PICK answer : Delivered(verdictOf(answer))
      BY <2>2 DEF HearVerdict
    <3> QED
      BY <3>1, DeliveredSteps, VerdictOfType DEF WatchNext
  <2>3. CASE GiveUp
    BY <2>3, DeliveredSteps DEF GiveUp, WatchNext, Verdict
  <2> QED
    BY <1>2, <2>1, <2>2, <2>3 DEF AgentNext
<1>3. CASE \E s \in Servers, a \in Attempts, n \in Slots : ServerStep(s, a, n)
  BY <1>3 DEF ServerStep, Arrive, RejectNonce, Refuse, CannotAnswer
<1>4. CASE \E a \in Attempts, n \in Slots : HandlerStep(a, n)
  BY <1>4 DEF HandlerStep, IssueCredential, InitiatePayment, HearProcessor,
     ProcessorCallFails, SettlePayment, MerchantAnswers
<1>5. CASE \E s \in Servers, a \in Attempts, n \in Slots : Lose(s, a, n)
  BY <1>5 DEF Lose
<1>6. CASE \E s \in Servers, a \in Attempts : NonceLapses(s, a) \/ RecordLapses(s, a)
  BY <1>6 DEF NonceLapses, RecordLapses
<1>7. CASE \E s \in Servers : Restart(s)
  BY <1>7 DEF Restart
<1>8. CASE UNCHANGED vars
  BY <1>8 DEF vars
<1> QED
  BY <1>1, <1>2, <1>3, <1>4, <1>5, <1>6, <1>7, <1>8 DEF Next

\* What holds of the watch loop alone holds of it here: a purchase's behaviour is
\* a behaviour of module Watch (agent/watch.go, Run).
THEOREM PurchaseIsAWatch == Spec => WatchSpec
<1>1. Init => WatchInit
  BY DEF Init
<1> QED
  BY <1>1, StepIsWatchStep, PTL DEF Spec, WatchSpec

-----------------------------------------------------------------------------
(* Types. *)

Copies == [Servers -> [Attempts -> [Slots -> Progress]]]

LEMMA CopyUpdated ==
  ASSUME NEW r \in Copies, NEW s, NEW a, NEW n, NEW p \in Progress
  PROVE  [r EXCEPT ![s][a][n] = p] \in Copies
BY DEF Copies

LEMMA AnswersAreProgress ==
  /\ Answers \subseteq Progress
  /\ {"free", "sent", "running", "calling"} \subseteq Progress
  /\ Remembered \subseteq Answers
  /\ "malformed" \in Answers /\ "refused" \in Answers /\ "unavailable" \in Answers /\ "ok" \in Answers
BY DEF Progress, Answers, Remembered

LEMMA ReplyType ==
  ASSUME TypeOK, NEW s \in Servers, NEW a \in Attempts, NEW n \in Slots,
         NEW answer \in Answers, Reply(s, a, n, answer)
  PROVE  req' \in Copies
<1>1. (IF Awaited(s, a, n) THEN answer ELSE "free") \in Progress
  BY AnswersAreProgress
<1> QED
  BY <1>1, CopyUpdated DEF Reply, TypeOK, Copies

Records == [Servers -> [Attempts -> {"free", "claimed"} \union Remembered]]

LEMMA FinishType ==
  ASSUME TypeOK, NEW s \in Servers, NEW a \in Attempts, NEW n \in Slots,
         NEW answer \in Answers, Finish(s, a, n, answer)
  PROVE  req' \in Copies /\ record' \in Records
BY ReplyType DEF Finish, TypeOK, Records

LEMMA MerchantAnswersType ==
  ASSUME TypeOK, NEW a \in Attempts, NEW n \in Slots, NEW answer \in Answers, NEW m,
         NEW p \in Progress, MerchantAnswers(a, n, answer, m, p)
  PROVE  req' \in Copies /\ record' \in Records /\ downstream' \in [Attempts -> Slots \union {NoSlot}]
<1>1. (IF Awaited("merchant", a, n) THEN answer ELSE "free") \in Progress
  BY AnswersAreProgress
<1>2. req' \in Copies
  BY <1>1, CopyUpdated DEF MerchantAnswers, TypeOK, Copies
<1> QED
  BY <1>2 DEF MerchantAnswers, TypeOK, Records

LEMMA WeighsType ==
  ASSUME TypeOK, NEW s \in Servers, NEW a \in Attempts,
         NEW verdict \in {"agrees", "refuses"}, Weighs(s, a, verdict)
  PROVE  /\ weighed' \in [Servers -> [Attempts -> {"not_yet", "agrees", "refuses"}]]
         /\ outrun' \in SUBSET Attempts
<1>1. outrun' \in SUBSET Attempts
  BY DEF Weighs, TypeOK
<1> DEFINE v == IF weighed[s][a] = "not_yet" THEN verdict ELSE weighed[s][a]
<1>2. v \in {"not_yet", "agrees", "refuses"} /\ weighed' = [weighed EXCEPT ![s][a] = v]
  BY DEF Weighs, TypeOK
<1> HIDE DEF v
<1>3. [weighed[s] EXCEPT ![a] = v] \in [Attempts -> {"not_yet", "agrees", "refuses"}]
  BY <1>2 DEF TypeOK
<1> QED
  BY <1>1, <1>2, <1>3 DEF TypeOK

LEMMA DeclinesType ==
  ASSUME TypeOK, NEW s \in Servers, NEW a \in Attempts, Declines(s, a)
  PROVE  /\ weighed' \in [Servers -> [Attempts -> {"not_yet", "agrees", "refuses"}]]
         /\ outrun' \in SUBSET Attempts
<1>1. CASE Weighs(s, a, "refuses")
  BY <1>1, WeighsType
<1>2. CASE UNCHANGED verdictVars
  BY <1>2 DEF verdictVars, TypeOK
<1> QED
  BY <1>1, <1>2 DEF Declines

LEMMA NetTypeStep ==
  ASSUME TypeOK, WatchTypeOK', [Next]_vars
  PROVE  TypeOK'
<1>0. req \in Copies /\ record \in Records
  BY DEF TypeOK, Copies, Records
<1>1. CASE (Market /\ Others) \/ (Loop /\ Others) \/ (Ended /\ Others) \/ UNCHANGED vars
  BY <1>1 DEF Others, vars, netVars, serverVars, verdictVars, deliveryVars, TypeOK
<1>2. CASE MintAttempt
  <2>1. honoured' \in [Servers -> [Attempts -> BOOLEAN]]
    BY <1>2 DEF MintAttempt, TypeOK
  <2> QED
    BY <1>2, <2>1 DEF MintAttempt, netVars, verdictVars, deliveryVars, TypeOK
<1>3. CASE AgentNext
  <2>1. CASE Fund \/ Settle
    <3>1. PICK s \in {"cp", "merchant"} : Send(s, running)
      BY <2>1 DEF Fund, Settle
    <3>2. PICK n \in Slots : /\ req' = [req EXCEPT ![s][running][n] = "sent"]
                             /\ waiting' = [server |-> s, slot |-> n]
      BY <3>1 DEF Send
    <3>3. req' \in Copies
      BY <1>0, <3>2, CopyUpdated, AnswersAreProgress
    <3>4. waiting' \in Call
      BY <3>2 DEF Call, Servers
    <3> QED
      BY <2>1, <3>3, <3>4 DEF Fund, Settle, serverVars, verdictVars, deliveryVars, TypeOK, Copies
  <2>2. CASE HearCredential \/ HearVerdict \/ GiveUp
    <3>1. req' \in Copies
      <4>1. (\E s, n : req' = [req EXCEPT ![s][running][n] = "free"]) \/ req' = req
        BY <2>2 DEF HearCredential, HearVerdict, GiveUp, Freed
      <4>2. CASE \E s, n : req' = [req EXCEPT ![s][running][n] = "free"]
        <5>1. PICK s, n : req' = [req EXCEPT ![s][running][n] = "free"]
          BY <4>2
        <5> QED
          BY <1>0, <5>1, CopyUpdated, AnswersAreProgress
      <4> QED
        BY <1>0, <4>1, <4>2
    <3>2. waiting' \in Call
      BY <2>2 DEF HearCredential, HearVerdict, GiveUp, Call
    <3>3. credential' \in [Attempts -> BOOLEAN]
      BY <2>2 DEF HearCredential, HearVerdict, GiveUp, deliveryVars, TypeOK
    <3>4. rejections' \in [Attempts -> SUBSET Servers]
      <4>1. CASE HearVerdict
        <5>1. waiting.server \in Servers
          BY <4>1 DEF HearVerdict, TypeOK, Call
        <5>2. \A answer : rejectionsIn(waiting.server, answer) \subseteq Servers
          BY <5>1 DEF rejectionsIn, Servers
        <5>3. PICK answer : rejections' = [rejections EXCEPT ![running] =
                                @ \union rejectionsIn(waiting.server, answer)]
          BY <4>1 DEF HearVerdict
        <5> QED
          BY <5>2, <5>3 DEF TypeOK
      <4> QED
        BY <2>2, <4>1 DEF HearCredential, GiveUp, deliveryVars, TypeOK
    <3> QED
      BY <2>2, <3>1, <3>2, <3>3, <3>4 DEF HearCredential, HearVerdict, GiveUp, serverVars, verdictVars, TypeOK, Copies, Records
  <2> QED
    BY <1>3, <2>1, <2>2 DEF AgentNext
<1>4. ASSUME NEW s \in Servers, NEW a \in Attempts, NEW n \in Slots, ServerStep(s, a, n)
      PROVE  TypeOK'
  <2>1. req' \in Copies /\ record' \in Records
    <3>1. CASE Arrive(s, a, n)
      <4>1. CASE record[s][a] = "free"
        <5>1. /\ req' = [req EXCEPT ![s][a][n] = "running"]
              /\ record' = [record EXCEPT ![s][a] = "claimed"]
          BY <3>1, <4>1 DEF Arrive
        <5>2. req' \in Copies
          BY <1>0, <5>1, CopyUpdated, AnswersAreProgress
        <5>3. record' \in Records
          BY <5>1 DEF TypeOK, Records
        <5> QED
          BY <5>2, <5>3
      <4>2. CASE record[s][a] = "claimed"
        <5>1. Reply(s, a, n, "in_flight") /\ UNCHANGED record
          BY <3>1, <4>2 DEF Arrive
        <5> QED
          BY <1>0, <5>1, ReplyType DEF Answers
      <4>3. CASE record[s][a] \notin {"free", "claimed"}
        <5>1. Reply(s, a, n, record[s][a]) /\ UNCHANGED record
          BY <3>1, <4>3 DEF Arrive
        <5>2. record[s][a] \in Answers
          BY <4>3, AnswersAreProgress DEF TypeOK
        <5> QED
          BY <1>0, <5>1, <5>2, ReplyType
      <4> QED
        BY <4>1, <4>2, <4>3
    <3>2. CASE RejectNonce(s, a, n) \/ Refuse(s, a, n) \/ CannotAnswer(s, a, n)
      BY <3>2, FinishType, AnswersAreProgress DEF RejectNonce, Refuse, CannotAnswer
    <3> QED
      BY <1>4, <3>1, <3>2 DEF ServerStep
  <2>2. /\ weighed' \in [Servers -> [Attempts -> {"not_yet", "agrees", "refuses"}]]
        /\ outrun' \in SUBSET Attempts
    <3>1. CASE Refuse(s, a, n)
      BY <3>1, DeclinesType DEF Refuse
    <3>2. CASE Arrive(s, a, n) \/ RejectNonce(s, a, n) \/ CannotAnswer(s, a, n)
      BY <3>2 DEF Arrive, RejectNonce, CannotAnswer, verdictVars, TypeOK
    <3> QED
      BY <1>4, <3>1, <3>2 DEF ServerStep
  <2> QED
    BY <1>4, <2>1, <2>2 DEF ServerStep, Arrive, RejectNonce, Refuse, CannotAnswer, deliveryVars,
       TypeOK, Copies, Records
<1>5. ASSUME NEW a \in Attempts, NEW n \in Slots, HandlerStep(a, n)
      PROVE  TypeOK'
  <2>1. CASE IssueCredential(a, n)
    <3>1. req' \in Copies /\ record' \in Records
      BY <2>1, FinishType, AnswersAreProgress DEF IssueCredential, Servers
    <3>2. /\ weighed' \in [Servers -> [Attempts -> {"not_yet", "agrees", "refuses"}]]
          /\ outrun' \in SUBSET Attempts
      BY <2>1, WeighsType DEF IssueCredential, Authorises, Servers
    <3> QED
      BY <2>1, <3>1, <3>2 DEF IssueCredential, deliveryVars, TypeOK, Copies, Records
  <2>2. CASE InitiatePayment(a, n)
    <3>1. PICK m \in Slots :
            /\ req' = [req EXCEPT !["merchant"][a][n] = "calling", !["mpp"][a][m] = "sent"]
            /\ downstream' = [downstream EXCEPT ![a] = m]
      BY <2>2 DEF InitiatePayment
    <3>2. req' \in Copies
      BY <1>0, <3>1, CopyUpdated, AnswersAreProgress
    <3>3. /\ weighed' \in [Servers -> [Attempts -> {"not_yet", "agrees", "refuses"}]]
          /\ outrun' \in SUBSET Attempts
      BY <2>2, WeighsType DEF InitiatePayment, Authorises, Servers
    <3> QED
      BY <2>2, <3>1, <3>2, <3>3 DEF InitiatePayment, deliveryVars, TypeOK, Copies, Records
  <2>3. CASE HearProcessor(a, n) \/ ProcessorCallFails(a, n)
    <3>1. \A answer : settledAs(answer) \in Answers
      BY DEF settledAs, Answers
    <3>2. CASE HearProcessor(a, n)
      <4>1. PICK answer, m : answer \in Answers /\ MerchantAnswers(a, n, answer, m, "free")
        BY <3>1, <3>2 DEF HearProcessor
      <4> QED
        BY <4>1, MerchantAnswersType, AnswersAreProgress DEF MerchantAnswers, verdictVars, deliveryVars, TypeOK, Copies, Records
    <3>3. CASE ProcessorCallFails(a, n)
      <4> DEFINE m == downstream[a]
      <4>1. MerchantAnswers(a, n, "unavailable", m, req["mpp"][a][m])
        BY <3>3 DEF ProcessorCallFails
      <4>2. [req EXCEPT !["mpp"][a][m] = req["mpp"][a][m]] = req
        BY DEF TypeOK, Servers
      <4>3. req' = [req EXCEPT !["merchant"][a][n] =
                      IF Awaited("merchant", a, n) THEN "unavailable" ELSE "free"]
        BY <4>1, <4>2 DEF MerchantAnswers
      <4>4. req' \in Copies
        BY <1>0, <4>3, CopyUpdated, AnswersAreProgress
      <4> QED
        BY <4>1, <4>4 DEF MerchantAnswers, verdictVars, deliveryVars, TypeOK, Copies, Records
    <3> QED
      BY <2>3, <3>2, <3>3
  <2>4. CASE SettlePayment(a, n)
    <3>1. req' \in Copies /\ record' \in Records
      BY <2>4, FinishType, AnswersAreProgress DEF SettlePayment, Servers
    <3>2. charges' \in [Attempts -> Nat]
      BY <2>4 DEF SettlePayment, TypeOK
    <3>3. /\ weighed' \in [Servers -> [Attempts -> {"not_yet", "agrees", "refuses"}]]
          /\ outrun' \in SUBSET Attempts
      BY <2>4, WeighsType DEF SettlePayment, Authorises, Servers
    <3> QED
      BY <2>4, <3>1, <3>2, <3>3 DEF SettlePayment, deliveryVars, TypeOK, Copies, Records
  <2> QED
    BY <1>5, <2>1, <2>2, <2>3, <2>4 DEF HandlerStep
<1>6. ASSUME NEW s \in Servers, NEW a \in Attempts, NEW n \in Slots, Lose(s, a, n)
      PROVE  TypeOK'
  <2>1. req' \in Copies
    BY <1>0, <1>6, CopyUpdated, AnswersAreProgress DEF Lose, Freed
  <2> QED
    BY <1>6, <2>1 DEF Lose, serverVars, verdictVars, deliveryVars, TypeOK, Copies, Records
<1>7. ASSUME NEW s \in Servers, NEW a \in Attempts, NonceLapses(s, a) \/ RecordLapses(s, a)
      PROVE  TypeOK'
  <2>1. honoured' \in [Servers -> [Attempts -> BOOLEAN]] /\ record' \in Records
    <3>1. CASE NonceLapses(s, a)
      BY <3>1 DEF NonceLapses, TypeOK, Records
    <3>2. CASE RecordLapses(s, a)
      BY <3>2 DEF RecordLapses, TypeOK, Records
    <3> QED
      BY <1>7, <3>1, <3>2
  <2> QED
    BY <1>7, <2>1 DEF NonceLapses, RecordLapses, netVars, verdictVars, deliveryVars, TypeOK, Records
<1>8. ASSUME NEW s \in Servers, Restart(s)
      PROVE  TypeOK'
  BY <1>8, AnswersAreProgress DEF Restart, verdictVars, deliveryVars, TypeOK
<1> QED
  BY <1>1, <1>2, <1>3, <1>4, <1>5, <1>6, <1>7, <1>8 DEF Next

LEMMA InitialTypes == Init => TypeOK
BY InitEstablishesWatchInv, AnswersAreProgress
   DEF Init, WatchInv, TypeOK, Call

PurchaseInv == WatchInv /\ TypeOK

LEMMA PurchaseStep ==
  ASSUME PurchaseInv, [Next]_vars
  PROVE  PurchaseInv'
<1>1. WatchInv'
  BY StepIsWatchStep, StepKeepsWatchInv DEF PurchaseInv
<1> QED
  BY <1>1, NetTypeStep DEF PurchaseInv, WatchInv

\* The whole purchase keeps its types (agent, merchant, provider, processor).
THEOREM PurchaseTypeCorrect == Spec => []TypeOK
<1>1. Init => PurchaseInv
  BY InitialTypes, InitEstablishesWatchInv DEF Init, PurchaseInv
<1> QED
  BY <1>1, PurchaseStep, PTL DEF Spec, PurchaseInv

-----------------------------------------------------------------------------
(* Keys. *)

\* A copy is in a handler: it runs there, or waits there for the processor.
Handled == {"running", "calling"}

\* Changing a copy that is in no handler, to something that is in none either,
\* moves no copy into or out of one.
LEMMA HandlersUntouched ==
  ASSUME req \in Copies, NEW s, NEW a, NEW n, NEW p, p \notin Handled,
         req[s][a][n] \notin Handled,
         req' = [req EXCEPT ![s][a][n] = p]
  PROVE  \A t \in Servers, b \in Attempts : InHandler(t, b)' = InHandler(t, b)
BY DEF InHandler, Handled, Copies

\* A copy leaving its handler leaves it empty, when it was the only one there.
LEMMA HandlerLeft ==
  ASSUME req \in Copies, HandlerHoldsTheKey,
         NEW s \in Servers, NEW a \in Attempts, NEW n \in Slots, NEW p,
         p \notin Handled, req[s][a][n] \in Handled,
         req' = [req EXCEPT ![s][a][n] = p]
  PROVE  /\ InHandler(s, a)' = {}
         /\ \A t \in Servers, b \in Attempts :
              t # s \/ b # a => InHandler(t, b)' = InHandler(t, b)
<1>1. n \in InHandler(s, a)
  BY DEF InHandler, Handled
<1>2. \A m \in InHandler(s, a) : m = n
  BY <1>1 DEF HandlerHoldsTheKey
<1>3. InHandler(s, a)' = {}
  <2>1. \A m \in Slots : m # n => req[s][a][m] \notin Handled
    BY <1>2 DEF InHandler, Handled
  <2> QED
    BY <2>1 DEF InHandler, Handled, Copies
<1>4. \A t \in Servers, b \in Attempts :
        t # s \/ b # a => InHandler(t, b)' = InHandler(t, b)
  BY DEF InHandler, Handled, Copies
<1> QED
  BY <1>3, <1>4

\* A handler that returns hands its key back, or leaves its answer under it.
LEMMA FinishReleases ==
  ASSUME TypeOK, HandlerHoldsTheKey,
         NEW s \in Servers, NEW a \in Attempts, NEW n \in Slots, NEW answer \in Answers,
         req[s][a][n] = "running", Finish(s, a, n, answer)
  PROVE  HandlerHoldsTheKey'
<1> DEFINE p == IF Awaited(s, a, n) THEN answer ELSE "free"
<1>1. p \notin Handled
  BY DEF Answers, Handled
<1>2. req \in Copies /\ record \in Records /\ record' \in Records
  BY FinishType DEF TypeOK, Copies, Records
<1>3. /\ InHandler(s, a)' = {}
      /\ \A t \in Servers, b \in Attempts :
           t # s \/ b # a => InHandler(t, b)' = InHandler(t, b)
  <2>1. req' = [req EXCEPT ![s][a][n] = p] /\ req[s][a][n] \in Handled
    BY DEF Finish, Reply, Handled
  <2> HIDE DEF p
  <2> QED
    BY <1>1, <1>2, <2>1, HandlerLeft
<1>4. /\ record'[s][a] # "claimed"
      /\ \A t \in Servers, b \in Attempts : t # s \/ b # a => record'[t][b] = record[t][b]
  BY <1>2 DEF Finish, Remembered, Records
<1> QED
  BY <1>3, <1>4 DEF HandlerHoldsTheKey

\* A step that moves no copy into or out of a handler, and no claim, keeps it.
LEMMA KeysUntouched ==
  ASSUME HandlerHoldsTheKey,
         \A t \in Servers, b \in Attempts : InHandler(t, b)' = InHandler(t, b),
         \A t \in Servers, b \in Attempts :
           (record'[t][b] = "claimed") <=> (record[t][b] = "claimed")
  PROVE  HandlerHoldsTheKey'
BY DEF HandlerHoldsTheKey

LEMMA AgentKeepsKeys ==
  ASSUME TypeOK, HandlerHoldsTheKey, AgentNext
  PROVE  HandlerHoldsTheKey'
<1>0. req \in Copies
  BY DEF TypeOK, Copies
<1>1. UNCHANGED record
  BY DEF AgentNext, Fund, Settle, HearCredential, HearVerdict, GiveUp, serverVars
<1>2. CASE req' = req
  BY <1>1, <1>2 DEF HandlerHoldsTheKey, InHandler
<1>3. ASSUME NEW s, NEW n, NEW p \in {"free", "sent"},
             req[s][running][n] \notin Handled,
             req' = [req EXCEPT ![s][running][n] = p]
      PROVE  HandlerHoldsTheKey'
  <2>1. p \notin Handled
    BY DEF Handled
  <2> QED
    BY <1>0, <1>1, <1>3, <2>1, HandlersUntouched, KeysUntouched
<1>4. CASE Fund \/ Settle
  <2>1. PICK s \in {"cp", "merchant"} : Send(s, running)
    BY <1>4 DEF Fund, Settle
  <2>2. PICK n \in Slots :
          req[s][running][n] = "free" /\ req' = [req EXCEPT ![s][running][n] = "sent"]
    BY <2>1 DEF Send
  <2> QED
    BY <1>3, <2>2 DEF Handled
<1>5. CASE HearCredential
  BY <1>3, <1>5 DEF HearCredential, Freed, Handled
<1>6. CASE HearVerdict
  BY <1>3, <1>6 DEF HearVerdict, Freed, Handled, Answers
<1>7. CASE GiveUp
  BY <1>2, <1>7 DEF GiveUp
<1> QED
  BY <1>4, <1>5, <1>6, <1>7 DEF AgentNext

LEMMA ServerKeepsKeys ==
  ASSUME TypeOK, HandlerHoldsTheKey,
         NEW s \in Servers, NEW a \in Attempts, NEW n \in Slots, ServerStep(s, a, n)
  PROVE  HandlerHoldsTheKey'
<1>0. req \in Copies /\ record \in Records
  BY DEF TypeOK, Copies, Records
<1>1. CASE Arrive(s, a, n) /\ record[s][a] = "free"
  <2>1. /\ req' = [req EXCEPT ![s][a][n] = "running"]
        /\ record' = [record EXCEPT ![s][a] = "claimed"]
    BY <1>1 DEF Arrive
  <2>2. InHandler(s, a) = {}
    BY <1>1 DEF HandlerHoldsTheKey
  <2>3. InHandler(s, a)' = {n}
    BY <1>0, <2>1, <2>2 DEF InHandler, Copies
  <2>4. \A t \in Servers, b \in Attempts :
          t # s \/ b # a => InHandler(t, b)' = InHandler(t, b) /\ record'[t][b] = record[t][b]
    BY <1>0, <2>1 DEF InHandler, Copies, Records
  <2>5. record'[s][a] = "claimed"
    BY <1>0, <2>1 DEF Records
  <2> QED
    BY <2>3, <2>4, <2>5 DEF HandlerHoldsTheKey
<1>2. CASE Arrive(s, a, n) /\ record[s][a] # "free"
  <2>1. PICK answer \in Answers : Reply(s, a, n, answer) /\ UNCHANGED record
    BY <1>0, <1>2 DEF Arrive, Records, Remembered, Answers
  <2> DEFINE p == IF Awaited(s, a, n) THEN answer ELSE "free"
  <2>2. p \notin Handled /\ req[s][a][n] \notin Handled
    BY <1>2 DEF Arrive, Answers, Handled
  <2>3. req' = [req EXCEPT ![s][a][n] = p]
    BY <2>1 DEF Reply
  <2> HIDE DEF p
  <2> QED
    BY <1>0, <2>1, <2>2, <2>3, HandlersUntouched, KeysUntouched
<1>3. CASE RejectNonce(s, a, n) \/ Refuse(s, a, n) \/ CannotAnswer(s, a, n)
  BY <1>3, FinishReleases, AnswersAreProgress DEF RejectNonce, Refuse, CannotAnswer
<1> QED
  BY <1>1, <1>2, <1>3 DEF ServerStep

LEMMA HandlerKeepsKeys ==
  ASSUME TypeOK, HandlerHoldsTheKey,
         NEW a \in Attempts, NEW n \in Slots, HandlerStep(a, n)
  PROVE  HandlerHoldsTheKey'
<1>0. req \in Copies /\ record \in Records
  BY DEF TypeOK, Copies, Records
<1>1. CASE IssueCredential(a, n) \/ SettlePayment(a, n)
  BY <1>1, FinishReleases, AnswersAreProgress DEF IssueCredential, SettlePayment, Servers
<1>2. CASE InitiatePayment(a, n)
  <2>1. PICK m \in Slots :
          /\ req["mpp"][a][m] = "free"
          /\ req' = [req EXCEPT !["merchant"][a][n] = "calling", !["mpp"][a][m] = "sent"]
    BY <1>2 DEF InitiatePayment
  <2>2. req["merchant"][a][n] = "running" /\ UNCHANGED record
    BY <1>2 DEF InitiatePayment, serverVars
  <2>3. \A t \in Servers, b \in Attempts : InHandler(t, b)' = InHandler(t, b)
    <3>1. \A t \in Servers, b \in Attempts, k \in Slots :
            req'[t][b][k] \in Handled <=> req[t][b][k] \in Handled
      BY <1>0, <2>1, <2>2 DEF Copies, Handled, Servers
    <3> QED
      BY <3>1 DEF InHandler, Handled
  <2> QED
    BY <2>2, <2>3, KeysUntouched
<1>3. ASSUME NEW answer \in Answers, NEW m, NEW p, p \notin Handled \/ p = req["mpp"][a][m],
             req["mpp"][a][m] \notin Handled \/ p = req["mpp"][a][m],
             req["merchant"][a][n] = "calling",
             MerchantAnswers(a, n, answer, m, p)
      PROVE  HandlerHoldsTheKey'
  <2> DEFINE q == IF Awaited("merchant", a, n) THEN answer ELSE "free"
  <2>1. q \notin Handled
    BY DEF Answers, Handled
  <2>2. req' = [req EXCEPT !["mpp"][a][m] = p, !["merchant"][a][n] = q]
    BY <1>3 DEF MerchantAnswers
  <2>3. /\ record'["merchant"][a] # "claimed"
        /\ \A t \in Servers, b \in Attempts :
             t # "merchant" \/ b # a => record'[t][b] = record[t][b]
    BY <1>0, <1>3 DEF MerchantAnswers, Remembered, Records, Servers
  <2> HIDE DEF q
  <2>4. \A m2 \in InHandler("merchant", a) : m2 = n
    BY <1>3 DEF HandlerHoldsTheKey, InHandler, Servers
  <2>5. InHandler("merchant", a)' = {}
    BY <1>0, <2>1, <2>2, <2>4 DEF InHandler, Handled, Copies, Servers
  <2>6. \A t \in Servers, b \in Attempts :
          t # "merchant" \/ b # a => InHandler(t, b)' = InHandler(t, b)
    BY <1>0, <1>3, <2>2 DEF InHandler, Handled, Copies, Servers
  <2> QED
    BY <2>3, <2>5, <2>6 DEF HandlerHoldsTheKey
<1>4. CASE HearProcessor(a, n)
  <2> DEFINE m == downstream[a]
             answer == settledAs(req["mpp"][a][m])
  <2>1. /\ MerchantAnswers(a, n, answer, m, "free")
        /\ req["merchant"][a][n] = "calling" /\ req["mpp"][a][m] \in Answers
    BY <1>4 DEF HearProcessor
  <2>2. answer \in Answers
    BY DEF settledAs, Answers
  <2>3. "free" \notin Handled /\ req["mpp"][a][m] \notin Handled
    BY <2>1 DEF Answers, Handled
  <2> HIDE DEF m, answer
  <2> QED
    BY <1>3, <2>1, <2>2, <2>3
<1>5. CASE ProcessorCallFails(a, n)
  BY <1>3, <1>5, AnswersAreProgress DEF ProcessorCallFails
<1> QED
  BY <1>1, <1>2, <1>4, <1>5 DEF HandlerStep

LEMMA RestartKeepsKeys ==
  ASSUME TypeOK, HandlerHoldsTheKey, NEW s \in Servers, Restart(s)
  PROVE  HandlerHoldsTheKey'
<1>1. \A a \in Attempts : InHandler(s, a)' = {} /\ record'[s][a] = "free"
  BY DEF Restart, InHandler, TypeOK
<1>2. \A t \in Servers, a \in Attempts : t # s =>
        InHandler(t, a)' = InHandler(t, a) /\ record'[t][a] = record[t][a]
  BY DEF Restart, InHandler, TypeOK, Answers
<1> QED
  BY <1>1, <1>2 DEF HandlerHoldsTheKey

LEMMA KeyStep ==
  ASSUME TypeOK, HandlerHoldsTheKey, [Next]_vars
  PROVE  HandlerHoldsTheKey'
<1>0. req \in Copies /\ record \in Records
  BY DEF TypeOK, Copies, Records
<1>1. CASE UNCHANGED <<req, record>>
  BY <1>1 DEF HandlerHoldsTheKey, InHandler
<1>2. CASE (Market /\ Others) \/ (Loop /\ Others) \/ MintAttempt \/ (Ended /\ Others) \/ UNCHANGED vars
  BY <1>1, <1>2 DEF Others, MintAttempt, vars, netVars, serverVars
<1>3. ASSUME NEW s \in Servers, NEW a \in Attempts, NEW n \in Slots, Lose(s, a, n)
      PROVE  HandlerHoldsTheKey'
  <2>1. /\ req[s][a][n] \notin Handled /\ "free" \notin Handled
        /\ req' = [req EXCEPT ![s][a][n] = "free"] /\ UNCHANGED record
    BY <1>3 DEF Lose, Freed, Answers, Handled, serverVars
  <2> QED
    BY <1>0, <2>1, HandlersUntouched, KeysUntouched
<1>4. ASSUME NEW s \in Servers, NEW a \in Attempts, NonceLapses(s, a) \/ RecordLapses(s, a)
      PROVE  HandlerHoldsTheKey'
  <2>1. CASE NonceLapses(s, a)
    BY <1>1, <2>1 DEF NonceLapses, netVars
  <2>2. CASE RecordLapses(s, a)
    <3>1. \A t \in Servers, b \in Attempts :
            (record'[t][b] = "claimed") <=> (record[t][b] = "claimed")
      BY <1>0, <2>2 DEF RecordLapses, Remembered, Records
    <3>2. \A t \in Servers, b \in Attempts : InHandler(t, b)' = InHandler(t, b)
      BY <2>2 DEF RecordLapses, netVars, InHandler
    <3> QED
      BY <3>1, <3>2, KeysUntouched
  <2> QED
    BY <1>4, <2>1, <2>2
<1> QED
  BY <1>2, <1>3, <1>4, AgentKeepsKeys, ServerKeepsKeys, HandlerKeepsKeys, RestartKeepsKeys DEF Next

-----------------------------------------------------------------------------
(* Charges. *)

\* Only an attempt that was minted has nonces, and only such an attempt is charged.
OnlyMinted ==
  \A a \in Attempts : a > Len(attempts) =>
    charges[a] = 0 /\ \A s \in Servers : ~honoured[s][a]

ChargeInv ==
  /\ PurchaseInv
  /\ HandlerHoldsTheKey
  /\ OnlyMinted
  /\ ChargeIsRemembered
  /\ AttemptChargedOnce

\* What keeps ChargeIsRemembered and AttemptChargedOnce: a step that charges
\* nothing, has no nonce honoured anew of a charged attempt, and leaves the
\* processor's answers to charged attempts it would still run alone.
LEMMA ChargesUntouched ==
  ASSUME ChargeInv, UNCHANGED charges,
         \A a \in Attempts : charges[a] > 0 /\ honoured'["mpp"][a] =>
           /\ honoured["mpp"][a]
           /\ record["mpp"][a] = "ok" => record'["mpp"][a] = "ok"
  PROVE  ChargeIsRemembered' /\ AttemptChargedOnce'
BY DEF ChargeInv, ChargeIsRemembered, AttemptChargedOnce

LEMMA AttemptsOnlyGrow ==
  ASSUME WatchInv, [WatchNext]_watchVars
  PROVE  Len(attempts') \in Nat /\ Len(attempts) <= Len(attempts')
<1>1. attempts \in Seq(Steps) /\ quoted \in Steps
  BY DEF WatchInv, WatchTypeOK
<1>2. CASE UNCHANGED attempts
  BY <1>1, <1>2
<1>3. CASE Mint
  BY <1>1, <1>3 DEF Mint
<1>4. CASE ~Mint
  BY <1>2, <1>4 DEF WatchNext, watchVars, Market, PriceMoves, AuthorisationRunsOut, Loop,
     TakeBaseline, BaselineFails, Cancel, Redeliver, StopExpired, QuoteBaseline, QuoteAgain,
     StopOutOfReach, MintFails, Bought, Unanswered, Refused, Ended, loopVars
<1> QED
  BY <1>3, <1>4

\* Nothing is charged or honoured anew: true of every step but two.
LEMMA OnlyMintedKept ==
  ASSUME ChargeInv, [Next]_vars, UNCHANGED charges,
         \A s \in Servers, a \in Attempts : honoured'[s][a] => honoured[s][a]
  PROVE  OnlyMinted'
<1>1. Len(attempts') \in Nat /\ Len(attempts) <= Len(attempts') /\ Len(attempts) \in Nat
  BY AttemptsOnlyGrow, StepIsWatchStep DEF ChargeInv, PurchaseInv, WatchInv, WatchTypeOK
<1>2. \A a \in Attempts : a \in Nat
  BY NumStepsAssumption DEF Attempts
<1> QED
  BY <1>1, <1>2 DEF ChargeInv, OnlyMinted

LEMMA ChargeStep ==
  ASSUME ChargeInv, [Next]_vars
  PROVE  ChargeInv'
<1>0. /\ PurchaseInv' /\ HandlerHoldsTheKey'
      /\ record \in Records /\ honoured \in [Servers -> [Attempts -> BOOLEAN]]
      /\ charges \in [Attempts -> Nat]
  BY PurchaseStep, KeyStep DEF ChargeInv, PurchaseInv, TypeOK, Records
<1>1. CASE /\ UNCHANGED charges
           /\ \A s \in Servers, a \in Attempts : honoured'[s][a] => honoured[s][a]
           /\ \A a \in Attempts : charges[a] > 0 /\ honoured'["mpp"][a] /\ record["mpp"][a] = "ok" =>
                record'["mpp"][a] = "ok"
  <2>1. ChargeIsRemembered' /\ AttemptChargedOnce'
    BY <1>1, ChargesUntouched DEF Servers
  <2> QED
    BY <1>0, <1>1, <2>1, OnlyMintedKept DEF ChargeInv
<1>2. CASE UNCHANGED <<record, honoured, charges>>
  BY <1>1, <1>2
<1>3. CASE (Market /\ Others) \/ (Loop /\ Others) \/ (Ended /\ Others) \/ UNCHANGED vars
  BY <1>2, <1>3 DEF Others, vars, serverVars
<1>4. CASE MintAttempt
  <2>1. attempts \in Seq(Steps) /\ attempts' = Append(attempts, quoted) /\ quoted \in Steps
    BY <1>4 DEF MintAttempt, Mint, ChargeInv, PurchaseInv, WatchInv, WatchTypeOK
  <2>2. Len(attempts') = Len(attempts) + 1 /\ Len(attempts) \in Nat
    BY <2>1
  <2>3. UNCHANGED <<record, charges>>
    BY <1>4 DEF MintAttempt
  <2>4. \A s \in Servers, a \in Attempts :
          a # Len(attempts) + 1 => honoured'[s][a] = honoured[s][a]
    BY <1>0, <1>4 DEF MintAttempt
  <2>5. \A a \in Attempts : a \in Nat
    BY NumStepsAssumption DEF Attempts
  <2>6. OnlyMinted'
    BY <2>2, <2>3, <2>4, <2>5 DEF OnlyMinted, ChargeInv
  <2>7. Len(attempts) + 1 \in Attempts => charges[Len(attempts) + 1] = 0
    BY <2>2 DEF OnlyMinted, ChargeInv
  <2>8. ChargeIsRemembered' /\ AttemptChargedOnce'
    BY <2>3, <2>4, <2>7, ChargesUntouched DEF Servers
  <2> QED
    BY <1>0, <2>6, <2>8 DEF ChargeInv
<1>5. CASE AgentNext
  BY <1>2, <1>5 DEF AgentNext, Fund, Settle, HearCredential, HearVerdict, GiveUp, serverVars
<1>6. ASSUME NEW s \in Servers, NEW a \in Attempts, NEW n \in Slots, ServerStep(s, a, n)
      PROVE  ChargeInv'
  <2>1. UNCHANGED <<honoured, charges>>
    BY <1>6 DEF ServerStep, Arrive, RejectNonce, Refuse, CannotAnswer
  <2>2. CASE Arrive(s, a, n)
    <3>1. record["mpp"][a] = "ok" => record'["mpp"] = record["mpp"]
      BY <1>0, <2>2 DEF Arrive, Servers, Records
    <3>2. \A b \in Attempts : b # a => record'["mpp"][b] = record["mpp"][b]
      BY <1>0, <2>2 DEF Arrive, Servers, Records
    <3> QED
      BY <1>1, <2>1, <3>1, <3>2
  <2>3. CASE RejectNonce(s, a, n) \/ Refuse(s, a, n) \/ CannotAnswer(s, a, n)
    <3>1. \A t \in Servers, b \in Attempts : t # s \/ b # a => record'[t][b] = record[t][b]
      BY <1>0, <2>3 DEF RejectNonce, Refuse, CannotAnswer, Finish, Records
    <3>2. record[s][a] = "claimed"
      BY <2>3 DEF RejectNonce, Refuse, CannotAnswer, HandlerHoldsTheKey, InHandler, ChargeInv
    <3> QED
      BY <1>1, <2>1, <3>1, <3>2 DEF Servers
  <2> QED
    BY <1>6, <2>2, <2>3 DEF ServerStep
<1>7. ASSUME NEW a \in Attempts, NEW n \in Slots, HandlerStep(a, n)
      PROVE  ChargeInv'
  <2>1. CASE IssueCredential(a, n) \/ InitiatePayment(a, n) \/ HearProcessor(a, n)
             \/ ProcessorCallFails(a, n)
    <3>1. UNCHANGED <<honoured, charges>> /\ record'["mpp"] = record["mpp"]
      BY <1>0, <2>1 DEF IssueCredential, InitiatePayment, HearProcessor, ProcessorCallFails,
         MerchantAnswers, Finish, serverVars, Records, Servers
    <3> QED
      BY <1>1, <3>1
  <2>2. CASE SettlePayment(a, n)
    <3>1. /\ req["mpp"][a][n] = "running" /\ honoured["mpp"][a]
          /\ charges' = [charges EXCEPT ![a] = @ + 1]
          /\ Finish("mpp", a, n, "ok")
          /\ UNCHANGED <<honoured, attempts>>
      BY <2>2 DEF SettlePayment, watchVars, loopVars
    <3>2. record["mpp"][a] = "claimed"
      BY <3>1 DEF HandlerHoldsTheKey, InHandler, ChargeInv, Servers
    <3>3. charges[a] = 0
      BY <1>0, <3>1, <3>2 DEF ChargeIsRemembered, ChargeInv
    <3>4. /\ record'["mpp"][a] = "ok"
          /\ \A b \in Attempts : b # a => record'["mpp"][b] = record["mpp"][b]
      BY <1>0, <3>1 DEF Finish, Remembered, Records, Servers
    <3>5. charges'[a] = 1 /\ \A b \in Attempts : b # a => charges'[b] = charges[b]
      BY <1>0, <3>1, <3>3
    <3>6. ChargeIsRemembered' /\ AttemptChargedOnce'
      BY <3>1, <3>4, <3>5 DEF ChargeInv, ChargeIsRemembered, AttemptChargedOnce
    <3>7. ~(a > Len(attempts))
      BY <3>1 DEF ChargeInv, OnlyMinted, Servers
    <3>8. OnlyMinted'
      BY <3>1, <3>5, <3>7 DEF ChargeInv, OnlyMinted
    <3> QED
      BY <1>0, <3>6, <3>8 DEF ChargeInv
  <2> QED
    BY <1>7, <2>1, <2>2 DEF HandlerStep
<1>8. ASSUME NEW s \in Servers, NEW a \in Attempts, NEW n \in Slots, Lose(s, a, n)
      PROVE  ChargeInv'
  BY <1>2, <1>8 DEF Lose, serverVars
<1>9. ASSUME NEW s \in Servers, NEW a \in Attempts, NonceLapses(s, a) \/ RecordLapses(s, a)
      PROVE  ChargeInv'
  <2>1. CASE NonceLapses(s, a)
    <3>1. UNCHANGED <<record, charges>> /\
          \A t \in Servers, b \in Attempts : honoured'[t][b] => honoured[t][b]
      BY <1>0, <2>1 DEF NonceLapses
    <3> QED
      BY <1>1, <3>1
  <2>2. CASE RecordLapses(s, a)
    <3>1. /\ UNCHANGED <<honoured, charges>> /\ ~honoured[s][a]
          /\ \A t \in Servers, b \in Attempts : t # s \/ b # a => record'[t][b] = record[t][b]
      BY <1>0, <2>2 DEF RecordLapses, Records
    <3> QED
      BY <1>1, <3>1 DEF Servers
  <2> QED
    BY <1>9, <2>1, <2>2
<1>10. ASSUME NEW s \in Servers, Restart(s)
       PROVE  ChargeInv'
  <2>1. UNCHANGED charges
    BY <1>10 DEF Restart
  <2>2. \A t \in Servers, b \in Attempts :
          IF t = s THEN ~honoured'[t][b]
          ELSE honoured'[t][b] = honoured[t][b] /\ record'[t][b] = record[t][b]
    BY <1>0, <1>10 DEF Restart, Records
  <2> QED
    BY <1>1, <2>1, <2>2 DEF Servers
<1> QED
  BY <1>3, <1>4, <1>5, <1>6, <1>7, <1>8, <1>9, <1>10 DEF Next

LEMMA InitiallyUncharged == Init => ChargeInv
<1> SUFFICES ASSUME Init PROVE ChargeInv
  OBVIOUS
<1>1. PurchaseInv
  BY InitialTypes, InitEstablishesWatchInv DEF Init, PurchaseInv
<1>2. HandlerHoldsTheKey
  BY DEF Init, HandlerHoldsTheKey, InHandler
<1> QED
  BY <1>1, <1>2 DEF Init, ChargeInv, OnlyMinted, ChargeIsRemembered, AttemptChargedOnce

LEMMA ChargeInvariant == Spec => []ChargeInv
BY InitiallyUncharged, ChargeStep, PTL DEF Spec

\* A copy of a request is in the handler exactly while the key is claimed, and it
\* is the only one, whatever is lost, given up on, repeated or restarted
\* (platform/transport/idempotent.go, Wrap).
THEOREM HandlersHoldTheirKeys == Spec => []HandlerHoldsTheKey
BY ChargeInvariant, PTL DEF ChargeInv

\* A processor that would settle an attempt again, because it still honours its
\* nonce, answers from its record instead.
THEOREM ChargesAreRemembered == Spec => []ChargeIsRemembered
BY ChargeInvariant, PTL DEF ChargeInv

\* No attempt is settled twice, for any number of attempts and copies and under
\* any faults of the model: whatever is lost, late, repeated or restarted.
THEOREM NoAttemptChargedTwice == Spec => []AttemptChargedOnce
BY ChargeInvariant, PTL DEF ChargeInv

-----------------------------------------------------------------------------
(* Purchases that were charged. *)

\* No step is attempted twice, so there are no more attempts than prices.
LEMMA AttemptsAreBounded ==
  ASSUME WatchInv
  PROVE  1 .. Len(attempts) \subseteq Attempts
<1>1. attempts \in Seq(Steps) /\ Len(attempts) \in Nat /\ NumSteps \in Nat
  BY NumStepsAssumption DEF WatchInv, WatchTypeOK
<1>2. IsFiniteSet(Steps) /\ Cardinality(Steps) = NumSteps
  BY <1>1, NumStepsAssumption, FS_Interval DEF Steps
<1>3. attempts \in Injection(1 .. Len(attempts), Steps)
  BY <1>1 DEF WatchInv, EachStepAttemptedOnce, Injection, IsInjective
<1>4. Cardinality(1 .. Len(attempts)) <= NumSteps
  BY <1>2, <1>3, FS_Injection
<1>5. Cardinality(1 .. Len(attempts)) = Len(attempts)
  <2>1. Cardinality(1 .. Len(attempts)) =
          IF 1 > Len(attempts) THEN 0 ELSE Len(attempts) - 1 + 1
    BY <1>1, FS_Interval
  <2> QED
    BY <1>1, <2>1
<1> QED
  BY <1>1, <1>4, <1>5 DEF Attempts

\* The merchant's handler that waits for the processor knows which copy it waits for.
CallsSomeone ==
  \A a \in Attempts, n \in Slots : req["merchant"][a][n] = "calling" => downstream[a] \in Slots

\* A settlement, under way back to its caller or on record, was made.
OkMeansCharged ==
  \A s \in {"merchant", "mpp"}, a \in Attempts :
    record[s][a] = "ok" \/ (\E n \in Slots : req[s][a][n] = "ok") => charges[a] > 0

BoughtInv ==
  /\ ChargeInv
  /\ CallsSomeone
  /\ OkMeansCharged
  /\ checkout = "Spent" => LastAttempt \in Attempts
  /\ BoughtMeansCharged

LEMMA CallsSomeoneStep ==
  ASSUME ChargeInv, CallsSomeone, [Next]_vars
  PROVE  CallsSomeone'
<1> SUFFICES ASSUME NEW b \in Attempts, NEW k \in Slots, req'["merchant"][b][k] = "calling"
             PROVE  downstream'[b] \in Slots
  BY DEF CallsSomeone
<1>0. req \in Copies /\ downstream \in [Attempts -> Slots \union {NoSlot}]
  BY DEF ChargeInv, PurchaseInv, TypeOK, Copies
<1>1. CASE req["merchant"][b][k] = "calling" /\ downstream'[b] = downstream[b]
  BY <1>1 DEF CallsSomeone
<1>2. CASE (Market /\ Others) \/ (Loop /\ Others) \/ MintAttempt \/ (Ended /\ Others) \/ UNCHANGED vars
  BY <1>1, <1>2 DEF Others, MintAttempt, vars, netVars
<1>3. ASSUME NEW s, NEW a, NEW n, NEW p, p # "calling",
             req' = [req EXCEPT ![s][a][n] = p], UNCHANGED downstream
      PROVE  downstream'[b] \in Slots
  BY <1>0, <1>1, <1>3 DEF Copies, Servers
<1>4. CASE AgentNext
  <2>1. CASE Fund \/ Settle
    <3>1. PICK s \in {"cp", "merchant"} : Send(s, running)
      BY <2>1 DEF Fund, Settle
    <3>2. PICK n \in Slots : req' = [req EXCEPT ![s][running][n] = "sent"]
      BY <3>1 DEF Send
    <3>3. UNCHANGED downstream
      BY <2>1 DEF Fund, Settle
    <3> QED
      BY <1>3, <3>2, <3>3
  <2>2. CASE HearCredential \/ HearVerdict
    <3>1. PICK s, n : req' = [req EXCEPT ![s][running][n] = "free"]
      BY <2>2 DEF HearCredential, HearVerdict, Freed
    <3>2. UNCHANGED downstream
      BY <2>2 DEF HearCredential, HearVerdict
    <3> QED
      BY <1>3, <3>1, <3>2
  <2>3. CASE GiveUp
    BY <1>1, <2>3 DEF GiveUp
  <2> QED
    BY <1>4, <2>1, <2>2, <2>3 DEF AgentNext
<1>5. ASSUME NEW s \in Servers, NEW a \in Attempts, NEW n \in Slots, NEW answer \in Answers,
             Reply(s, a, n, answer), UNCHANGED downstream
      PROVE  downstream'[b] \in Slots
  <2> DEFINE p == IF Awaited(s, a, n) THEN answer ELSE "free"
  <2>1. p # "calling" /\ req' = [req EXCEPT ![s][a][n] = p]
    BY <1>5 DEF Reply, Answers
  <2> HIDE DEF p
  <2> QED
    BY <1>3, <1>5, <2>1
<1>6. ASSUME NEW s \in Servers, NEW a \in Attempts, NEW n \in Slots, ServerStep(s, a, n)
      PROVE  downstream'[b] \in Slots
  <2>1. CASE Arrive(s, a, n) /\ record[s][a] = "free"
    <3>1. req' = [req EXCEPT ![s][a][n] = "running"] /\ UNCHANGED downstream
      BY <2>1 DEF Arrive
    <3> QED
      BY <1>3, <3>1
  <2>2. CASE Arrive(s, a, n) /\ record[s][a] # "free"
    <3>1. record[s][a] \in {"free", "claimed"} \union Remembered
      BY DEF ChargeInv, PurchaseInv, TypeOK
    <3>2. PICK answer \in Answers : Reply(s, a, n, answer)
      BY <2>2, <3>1 DEF Arrive, Remembered, Answers
    <3> QED
      BY <1>5, <2>2, <3>2 DEF Arrive
  <2>3. CASE RejectNonce(s, a, n) \/ Refuse(s, a, n) \/ CannotAnswer(s, a, n)
    BY <1>5, <2>3, AnswersAreProgress DEF RejectNonce, Refuse, CannotAnswer, Finish
  <2> QED
    BY <1>6, <2>1, <2>2, <2>3 DEF ServerStep
<1>7. ASSUME NEW a \in Attempts, NEW n \in Slots, HandlerStep(a, n)
      PROVE  downstream'[b] \in Slots
  <2>1. CASE IssueCredential(a, n) \/ SettlePayment(a, n)
    BY <1>5, <2>1, AnswersAreProgress DEF IssueCredential, SettlePayment, Finish, Servers
  <2>2. CASE InitiatePayment(a, n)
    <3>1. PICK m \in Slots :
            /\ req' = [req EXCEPT !["merchant"][a][n] = "calling", !["mpp"][a][m] = "sent"]
            /\ downstream' = [downstream EXCEPT ![a] = m]
      BY <2>2 DEF InitiatePayment
    <3>2. CASE b = a
      BY <1>0, <3>1, <3>2
    <3>3. CASE b # a
      BY <1>0, <1>1, <3>1, <3>3 DEF Copies, Servers
    <3> QED
      BY <3>2, <3>3
  <2>3. CASE HearProcessor(a, n) \/ ProcessorCallFails(a, n)
    <3>0. \A answer : settledAs(answer) \in Answers
      BY DEF settledAs, Answers
    <3>1. PICK answer, m, p : answer \in Answers /\ MerchantAnswers(a, n, answer, m, p)
      <4>1. CASE HearProcessor(a, n)
        BY <3>0, <4>1 DEF HearProcessor
      <4>2. CASE ProcessorCallFails(a, n)
        BY <4>2, AnswersAreProgress DEF ProcessorCallFails
      <4> QED
        BY <2>3, <4>1, <4>2
    <3>2. HandlerHoldsTheKey' /\ record'["merchant"][a] # "claimed"
      BY <3>1, KeyStep DEF MerchantAnswers, Remembered, ChargeInv, PurchaseInv, TypeOK, Servers
    <3>3. b # a
      BY <3>2 DEF HandlerHoldsTheKey, InHandler, Servers
    <3>4. req'["merchant"][b] = req["merchant"][b] /\ downstream'[b] = downstream[b]
      BY <1>0, <3>1, <3>3 DEF MerchantAnswers, Copies, Servers
    <3> QED
      BY <1>1, <3>4
  <2> QED
    BY <1>7, <2>1, <2>2, <2>3 DEF HandlerStep
<1>8. ASSUME NEW s \in Servers, NEW a \in Attempts, NEW n \in Slots, Lose(s, a, n)
      PROVE  downstream'[b] \in Slots
  BY <1>3, <1>8 DEF Lose, Freed
<1>9. ASSUME NEW s \in Servers, NEW a \in Attempts, NonceLapses(s, a) \/ RecordLapses(s, a)
      PROVE  downstream'[b] \in Slots
  BY <1>1, <1>9 DEF NonceLapses, RecordLapses, netVars
<1>10. ASSUME NEW s \in Servers, Restart(s)
       PROVE  downstream'[b] \in Slots
  <2>1. s # "merchant" /\ req'["merchant"][b][k] = req["merchant"][b][k]
    BY <1>10 DEF Restart, Servers
  <2> QED
    BY <1>1, <1>10, <2>1 DEF Restart
<1> QED
  BY <1>2, <1>4, <1>6, <1>7, <1>8, <1>9, <1>10 DEF Next

\* A charge is never undone.
LEMMA ChargesOnlyGrow ==
  ASSUME TypeOK, [Next]_vars, NEW b \in Attempts
  PROVE  charges[b] > 0 => charges'[b] > 0
<1>1. ASSUME NEW a \in Attempts, NEW n \in Slots, SettlePayment(a, n)
      PROVE  charges[b] > 0 => charges'[b] > 0
  <2>1. charges' = [charges EXCEPT ![a] = @ + 1] /\ charges \in [Attempts -> Nat]
    BY <1>1 DEF SettlePayment, TypeOK
  <2> QED
    BY <2>1
<1>2. CASE ~(\E a \in Attempts, n \in Slots : SettlePayment(a, n))
  <2>1. UNCHANGED charges
    <3>1. CASE (Market /\ Others) \/ (Loop /\ Others) \/ MintAttempt \/ (Ended /\ Others) \/ UNCHANGED vars
      BY <3>1 DEF Others, MintAttempt, vars, serverVars
    <3>2. CASE AgentNext
      BY <3>2 DEF AgentNext, Fund, Settle, HearCredential, HearVerdict, GiveUp, serverVars
    <3>3. ASSUME NEW s \in Servers, NEW a \in Attempts, NEW n \in Slots,
                 ServerStep(s, a, n) \/ Lose(s, a, n)
          PROVE  UNCHANGED charges
      BY <3>3 DEF ServerStep, Arrive, RejectNonce, Refuse, CannotAnswer, Lose, serverVars
    <3>4. ASSUME NEW a \in Attempts, NEW n \in Slots, HandlerStep(a, n)
          PROVE  UNCHANGED charges
      BY <1>2, <3>4 DEF HandlerStep, IssueCredential, InitiatePayment, HearProcessor,
         ProcessorCallFails, MerchantAnswers, serverVars
    <3>5. ASSUME NEW s \in Servers, NEW a \in Attempts,
                 NonceLapses(s, a) \/ RecordLapses(s, a)
          PROVE  UNCHANGED charges
      BY <3>5 DEF NonceLapses, RecordLapses
    <3>6. ASSUME NEW s \in Servers, Restart(s)
          PROVE  UNCHANGED charges
      BY <3>6 DEF Restart
    <3> QED
      BY <3>1, <3>2, <3>3, <3>4, <3>5, <3>6 DEF Next
  <2> QED
    BY <2>1
<1> QED
  BY <1>1, <1>2

LEMMA OkStep ==
  ASSUME ChargeInv, CallsSomeone, OkMeansCharged, [Next]_vars
  PROVE  OkMeansCharged'
<1> SUFFICES ASSUME NEW t \in {"merchant", "mpp"}, NEW b \in Attempts,
                    record'[t][b] = "ok" \/ (\E k \in Slots : req'[t][b][k] = "ok")
             PROVE  charges'[b] > 0
  BY DEF OkMeansCharged
<1>0. /\ req \in Copies /\ record \in Records /\ charges \in [Attempts -> Nat]
      /\ t \in Servers
  BY DEF ChargeInv, PurchaseInv, TypeOK, Copies, Records, Servers
<1>1. CASE record[t][b] = "ok" \/ (\E k \in Slots : req[t][b][k] = "ok")
  BY <1>1, ChargesOnlyGrow DEF OkMeansCharged, ChargeInv, PurchaseInv
<1>2. CASE (Market /\ Others) \/ (Loop /\ Others) \/ MintAttempt \/ (Ended /\ Others) \/ UNCHANGED vars
  BY <1>1, <1>2 DEF Others, MintAttempt, vars, netVars, serverVars
<1>3. ASSUME NEW s, NEW a, NEW n, NEW p, req' = [req EXCEPT ![s][a][n] = p],
             p # "ok", record'[t][b] = "ok" => record[t][b] = "ok"
      PROVE  charges'[b] > 0
  BY <1>0, <1>1, <1>3 DEF Copies
<1>4. CASE AgentNext
  <2>1. UNCHANGED record
    BY <1>4 DEF AgentNext, Fund, Settle, HearCredential, HearVerdict, GiveUp, serverVars
  <2>2. CASE Fund \/ Settle
    <3>1. PICK s \in {"cp", "merchant"} : Send(s, running)
      BY <2>2 DEF Fund, Settle
    <3>2. PICK n \in Slots : req' = [req EXCEPT ![s][running][n] = "sent"]
      BY <3>1 DEF Send
    <3> QED
      BY <1>3, <2>1, <3>2
  <2>3. CASE HearCredential \/ HearVerdict
    <3>1. PICK s, n : req' = [req EXCEPT ![s][running][n] = "free"]
      BY <2>3 DEF HearCredential, HearVerdict, Freed
    <3> QED
      BY <1>3, <2>1, <3>1
  <2>4. CASE GiveUp
    BY <1>1, <2>1, <2>4 DEF GiveUp
  <2> QED
    BY <1>4, <2>2, <2>3, <2>4 DEF AgentNext
<1>5. ASSUME NEW s \in Servers, NEW a \in Attempts, NEW n \in Slots, NEW answer,
             Reply(s, a, n, answer),
             record'[t][b] = "ok" => record[t][b] = "ok" \/ (s = t /\ a = b /\ answer = "ok"),
             answer = "ok" => s = "cp" \/ charges'[a] > 0
      PROVE  charges'[b] > 0
  <2> DEFINE p == IF Awaited(s, a, n) THEN answer ELSE "free"
  <2>1. req' = [req EXCEPT ![s][a][n] = p]
    BY <1>5 DEF Reply
  <2>2. CASE answer = "ok" /\ s = t /\ a = b
    BY <1>5, <2>2
  <2>3. CASE answer = "ok" /\ ~(s = t /\ a = b)
    BY <1>0, <1>1, <1>5, <2>1, <2>3 DEF Copies
  <2>4. CASE answer # "ok"
    <3>1. p # "ok" /\ (record'[t][b] = "ok" => record[t][b] = "ok")
      BY <1>5, <2>4
    <3> HIDE DEF p
    <3> QED
      BY <1>3, <2>1, <3>1
  <2> QED
    BY <2>2, <2>3, <2>4
<1>6. ASSUME NEW s \in Servers, NEW a \in Attempts, NEW n \in Slots, NEW answer,
             Finish(s, a, n, answer),
             answer = "ok" => s = "cp" \/ charges'[a] > 0
      PROVE  charges'[b] > 0
  <2>1. record'[t][b] = "ok" => record[t][b] = "ok" \/ (s = t /\ a = b /\ answer = "ok")
    BY <1>0, <1>6 DEF Finish, Records
  <2>2. Reply(s, a, n, answer)
    BY <1>6 DEF Finish
  <2> QED
    BY <1>5, <1>6, <2>1, <2>2
<1>7. ASSUME NEW s \in Servers, NEW a \in Attempts, NEW n \in Slots, ServerStep(s, a, n)
      PROVE  charges'[b] > 0
  <2>1. UNCHANGED charges
    BY <1>7 DEF ServerStep, Arrive, RejectNonce, Refuse, CannotAnswer
  <2>2. CASE Arrive(s, a, n) /\ record[s][a] = "free"
    <3>1. /\ req' = [req EXCEPT ![s][a][n] = "running"]
          /\ record' = [record EXCEPT ![s][a] = "claimed"]
      BY <2>2 DEF Arrive
    <3>2. record'[t][b] = "ok" => record[t][b] = "ok"
      BY <1>0, <3>1 DEF Records
    <3> QED
      BY <1>3, <3>1, <3>2
  <2>3. CASE Arrive(s, a, n) /\ record[s][a] = "claimed"
    <3>1. Reply(s, a, n, "in_flight") /\ UNCHANGED record
      BY <2>3 DEF Arrive
    <3> QED
      BY <1>5, <3>1
  <2>4. CASE Arrive(s, a, n) /\ record[s][a] \notin {"free", "claimed"}
    <3>1. Reply(s, a, n, record[s][a]) /\ UNCHANGED record
      BY <2>4 DEF Arrive
    <3>2. record[s][a] = "ok" => s = "cp" \/ charges'[a] > 0
      BY <2>1 DEF OkMeansCharged, Servers
    <3> QED
      BY <1>5, <3>1, <3>2
  <2>5. CASE RejectNonce(s, a, n)
    BY <1>6, <2>5 DEF RejectNonce
  <2>6. CASE Refuse(s, a, n)
    BY <1>6, <2>6 DEF Refuse
  <2>7. CASE CannotAnswer(s, a, n)
    BY <1>6, <2>7 DEF CannotAnswer
  <2> QED
    BY <1>7, <2>2, <2>3, <2>4, <2>5, <2>6, <2>7 DEF ServerStep
<1>8. ASSUME NEW a \in Attempts, NEW n \in Slots, HandlerStep(a, n)
      PROVE  charges'[b] > 0
  <2>1. CASE IssueCredential(a, n)
    BY <1>6, <2>1 DEF IssueCredential, Servers
  <2>2. CASE InitiatePayment(a, n)
    <3>1. UNCHANGED record
      BY <2>2 DEF InitiatePayment, serverVars
    <3>2. PICK m \in Slots :
            req' = [req EXCEPT !["merchant"][a][n] = "calling", !["mpp"][a][m] = "sent"]
      BY <2>2 DEF InitiatePayment
    <3> QED
      BY <1>0, <1>1, <3>1, <3>2 DEF Copies, Servers
  <2>3. ASSUME NEW answer, NEW m, NEW p, MerchantAnswers(a, n, answer, m, p),
               p = "ok" => req["mpp"][a][m] = "ok",
               answer = "ok" => charges[a] > 0
        PROVE  charges'[b] > 0
    <3> DEFINE q == IF Awaited("merchant", a, n) THEN answer ELSE "free"
    <3>1. req' = [req EXCEPT !["mpp"][a][m] = p, !["merchant"][a][n] = q] /\ UNCHANGED charges
      BY <2>3 DEF MerchantAnswers
    <3>2. record'[t][b] = "ok" =>
            record[t][b] = "ok" \/ (t = "merchant" /\ a = b /\ answer = "ok")
      BY <1>0, <2>3 DEF MerchantAnswers, Records, Servers
    <3>3. CASE t = "merchant" /\ b = a /\ answer = "ok"
      BY <2>3, <3>1, <3>3
    <3>4. CASE ~(t = "merchant" /\ b = a /\ answer = "ok")
      <4>1. q = "ok" => answer = "ok"
        OBVIOUS
      <4> HIDE DEF q
      <4>2. ASSUME NEW k \in Slots, req'[t][b][k] = "ok"
            PROVE  req[t][b][k] = "ok"
        BY <1>0, <2>3, <3>1, <3>4, <4>1, <4>2 DEF Copies, Servers
      <4> QED
        BY <1>1, <3>2, <3>4, <4>2
    <3> QED
      BY <3>3, <3>4
  <2>4. CASE HearProcessor(a, n)
    <3> DEFINE m == downstream[a]
    <3>1. MerchantAnswers(a, n, settledAs(req["mpp"][a][m]), m, "free")
      BY <2>4 DEF HearProcessor
    <3>2. m \in Slots
      BY <2>4 DEF HearProcessor, CallsSomeone
    <3>3. settledAs(req["mpp"][a][m]) = "ok" => charges[a] > 0
      BY <3>2 DEF settledAs, OkMeansCharged
    <3> HIDE DEF m
    <3> QED
      BY <2>3, <3>1, <3>3
  <2>5. CASE ProcessorCallFails(a, n)
    BY <2>3, <2>5 DEF ProcessorCallFails
  <2>6. CASE SettlePayment(a, n)
    <3>1. Finish("mpp", a, n, "ok") /\ charges' = [charges EXCEPT ![a] = @ + 1]
      BY <2>6 DEF SettlePayment
    <3>2. charges'[a] > 0
      BY <1>0, <3>1
    <3> QED
      BY <1>6, <3>1, <3>2 DEF Servers
  <2> QED
    BY <1>8, <2>1, <2>2, <2>4, <2>5, <2>6 DEF HandlerStep
<1>9. ASSUME NEW s \in Servers, NEW a \in Attempts, NEW n \in Slots, Lose(s, a, n)
      PROVE  charges'[b] > 0
  BY <1>3, <1>9 DEF Lose, Freed, serverVars
<1>10. ASSUME NEW s \in Servers, NEW a \in Attempts, NonceLapses(s, a) \/ RecordLapses(s, a)
       PROVE  charges'[b] > 0
  <2>1. UNCHANGED req
    BY <1>10 DEF NonceLapses, RecordLapses, netVars
  <2>2. record'[t][b] = "ok" => record[t][b] = "ok"
    BY <1>0, <1>10 DEF NonceLapses, RecordLapses, Records
  <2> QED
    BY <1>1, <2>1, <2>2
<1>11. ASSUME NEW s \in Servers, Restart(s)
       PROVE  charges'[b] > 0
  <2>1. record'[t][b] = "ok" => record[t][b] = "ok"
    BY <1>0, <1>11 DEF Restart, Records
  <2>2. \A k \in Slots : req'[t][b][k] \in {"free", req[t][b][k]}
    BY <1>0, <1>11 DEF Restart, Servers
  <2> QED
    BY <1>1, <2>1, <2>2
<1> QED
  BY <1>2, <1>4, <1>7, <1>8, <1>9, <1>10, <1>11 DEF Next

\* The mandates are spent at the moment the loop is told of a purchase, and stay so.
LEMMA SpentByBuying ==
  ASSUME WatchInv, [WatchNext]_watchVars, ~Bought, checkout' = "Spent"
  PROVE  checkout = "Spent" /\ UNCHANGED attempts
<1>1. WatchInv'
  BY StepKeepsWatchInv
<1>2. ending' = "bought"
  BY <1>1 DEF WatchInv, DeliveryInv
<1>3. ending = "bought"
  BY <1>2 DEF WatchNext, watchVars, Market, PriceMoves, AuthorisationRunsOut, Loop, Return,
     TakeBaseline, BaselineFails, Cancel, Redeliver, StopExpired, QuoteBaseline, QuoteAgain,
     StopOutOfReach, MintFails, Mint, Unanswered, Refused, Ended, loopVars
<1>4. checkout = "Spent" /\ pc = "ended"
  BY <1>3 DEF WatchInv, DeliveryInv
<1>5. UNCHANGED attempts
  BY <1>4 DEF WatchNext, watchVars, Market, PriceMoves, AuthorisationRunsOut, Loop,
     TakeBaseline, BaselineFails, Cancel, Redeliver, StopExpired, QuoteBaseline, QuoteAgain,
     StopOutOfReach, MintFails, Mint, Unanswered, Refused, Ended, loopVars
<1> QED
  BY <1>4, <1>5

\* When the loop takes a step of its own that is not Mint, and is in none of the
\* steps that touch no counterparty, the agent's client came back to it.
LEMMA VerdictsComeFromTheClient ==
  ASSUME [Next]_vars, ~(UNCHANGED watchVars), ~Market, ~Loop, ~Mint, ~Ended
  PROVE  HearVerdict \/ GiveUp
<1>1. ~(UNCHANGED vars) /\ ~MintAttempt
  BY DEF vars, MintAttempt
<1>2. ~(Fund \/ Settle \/ HearCredential)
  BY DEF Fund, Settle, HearCredential
<1>3. ~(\E s \in Servers, a \in Attempts, n \in Slots : ServerStep(s, a, n))
  BY DEF ServerStep, Arrive, RejectNonce, Refuse, CannotAnswer
<1>4. ~(\E a \in Attempts, n \in Slots : HandlerStep(a, n))
  BY DEF HandlerStep, IssueCredential, InitiatePayment, HearProcessor, ProcessorCallFails,
     MerchantAnswers, SettlePayment
<1>5. ~(\E s \in Servers, a \in Attempts, n \in Slots : Lose(s, a, n))
  BY DEF Lose
<1>6. ~(\E s \in Servers, a \in Attempts : NonceLapses(s, a) \/ RecordLapses(s, a))
  BY DEF NonceLapses, RecordLapses
<1>7. ~(\E s \in Servers : Restart(s))
  BY DEF Restart
<1> QED
  BY <1>1, <1>2, <1>3, <1>4, <1>5, <1>6, <1>7 DEF Next, AgentNext

\* The loop is told of a purchase by a server that answered with a settlement.
LEMMA BoughtIsHeard ==
  ASSUME TypeOK, [Next]_vars, Bought
  PROVE  /\ waiting.server \in {"merchant", "mpp"} /\ waiting.slot \in Slots
         /\ req[waiting.server][running][waiting.slot] = "ok"
         /\ UNCHANGED charges
<1>1. pc = "delivering" /\ pc' = "ended" /\ ending' = "bought"
  BY DEF Bought, Return
<1>2. HearVerdict
  <2>1. ~(UNCHANGED watchVars)
    BY <1>1 DEF watchVars, loopVars
  <2>2. ~Market /\ ~Loop /\ ~Mint /\ ~Ended
    BY <1>1 DEF Market, PriceMoves, AuthorisationRunsOut, Loop, TakeBaseline, BaselineFails,
       Cancel, Redeliver, StopExpired, QuoteBaseline, QuoteAgain, StopOutOfReach, MintFails,
       Mint, Ended, loopVars, watchVars
  <2>3. ~GiveUp
    BY <1>1 DEF GiveUp, Delivered, Unanswered
  <2> QED
    BY <2>1, <2>2, <2>3, VerdictsComeFromTheClient
<1>3. waiting # NoCall /\ UNCHANGED charges
  BY <1>2 DEF HearVerdict, serverVars
<1>4. waiting.server \in Servers /\ waiting.slot \in Slots
  BY <1>3 DEF TypeOK, Call
<1> DEFINE answer == req[waiting.server][running][waiting.slot]
<1>5. Delivered(verdictOf(answer)) /\ ~(waiting.server = "cp" /\ answer = "ok")
  BY <1>2 DEF HearVerdict
<1>6. answer = "ok"
  <2> HIDE DEF answer
  <2>1. ~Unanswered
    BY <1>1 DEF Unanswered
  <2>2. ~Refused
    BY <1>1 DEF Refused, Return, Bought, FinishAttempt, Permits
  <2>3. verdictOf(answer) = "Accepted"
    BY <1>5, <2>1, <2>2, VerdictOfType DEF Delivered, Verdict
  <2> QED
    BY <2>3 DEF verdictOf
<1> QED
  BY <1>3, <1>4, <1>5, <1>6 DEF Servers

LEMMA BoughtStep ==
  ASSUME BoughtInv, [Next]_vars
  PROVE  BoughtInv'
<1>0. WatchInv /\ TypeOK /\ charges \in [Attempts -> Nat]
  BY DEF BoughtInv, ChargeInv, PurchaseInv, TypeOK
<1>1. ChargeInv' /\ CallsSomeone' /\ OkMeansCharged'
  BY ChargeStep, CallsSomeoneStep, OkStep DEF BoughtInv
<1>2. checkout' = "Spent" => LastAttempt' \in Attempts /\ charges'[LastAttempt'] > 0
  <2> SUFFICES ASSUME checkout' = "Spent"
               PROVE  Len(attempts') \in Attempts /\ charges'[Len(attempts')] > 0
    BY DEF LastAttempt
  <2>1. CASE Bought
    <3>1. /\ running = Len(attempts) /\ running # NoAttempt /\ UNCHANGED attempts
      BY <1>0, <2>1 DEF Bought, WatchInv, DeliveryInv
    <3>2. running \in Attempts
      BY <1>0, <3>1, AttemptsAreBounded DEF WatchInv, WatchTypeOK, TrackerTypeOK, NoAttempt
    <3>3. charges[running] > 0 /\ UNCHANGED charges
      BY <1>0, <2>1, <3>2, BoughtIsHeard DEF BoughtInv, OkMeansCharged
    <3> QED
      BY <3>1, <3>2, <3>3
  <2>2. CASE ~Bought
    <3>1. checkout = "Spent" /\ UNCHANGED attempts
      BY <1>0, <2>2, StepIsWatchStep, SpentByBuying
    <3>2. Len(attempts) \in Attempts /\ charges[Len(attempts)] > 0
      BY <3>1 DEF BoughtInv, BoughtMeansCharged, LastAttempt
    <3> QED
      BY <1>0, <3>1, <3>2, ChargesOnlyGrow
  <2> QED
    BY <2>1, <2>2
<1> QED
  BY <1>1, <1>2 DEF BoughtInv, BoughtMeansCharged

LEMMA InitiallyBought == Init => BoughtInv
<1> SUFFICES ASSUME Init PROVE BoughtInv
  OBVIOUS
<1>1. ChargeInv
  BY InitiallyUncharged
<1>2. CallsSomeone /\ OkMeansCharged
  BY DEF Init, CallsSomeone, OkMeansCharged, Servers
<1>3. checkout # "Spent"
  BY DEF Init, WatchInit, TrackerInit
<1> QED
  BY <1>1, <1>2, <1>3 DEF BoughtInv, BoughtMeansCharged

\* The mandates are spent only on a settlement the processor made: an acceptance
\* is passed on, recorded and replayed, but never invented (roles/merchant/service.go,
\* settle; agent/chain.go, Deliver).
THEOREM AcceptancesAreSettlements == Spec => []BoughtMeansCharged
BY InitiallyBought, BoughtStep, PTL DEF Spec, BoughtInv
=============================================================================
