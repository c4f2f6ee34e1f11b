--------------------------- MODULE SingleUse_proofs ---------------------------
(***************************************************************************)
(* That a delegated purchase implements a single-use authorisation, for a  *)
(* schedule of any length and any number of copies of a request, as long   *)
(* as nothing worse happens than lost calls, restarts of the processor and *)
(* the passing of the times a user's limits name.                          *)
(*                                                                         *)
(* The argument is about refusals.  A refusal that reaches the agent comes *)
(* from a verifier that will never settle the attempt: it disapproved of   *)
(* the documents, or the authorisation has run out (Doomed), unless it     *)
(* comes to two verdicts on the same documents.  So when a new attempt can *)
(* be settled, every earlier one is past being settled, or was outrun.     *)
(***************************************************************************)
EXTENDS DelegatedPurchase_proofs

\* What may go wrong: calls are lost, the processor restarts, and the times that the
\* user's limits name pass.  Without this the theorems below fail: let the merchant
\* restart, and an attempt that was settled is over without a receipt; in the run
\* unreceipted_rejection the agent's client gives up on a request that is still being
\* handled.
Prompt == Faults \subseteq {"loss", "hours", "mpp"}

-----------------------------------------------------------------------------
(* The inductive invariant. *)

\* The server agreed to the attempt, or one of them has come to two verdicts on it.
Agreed(s, a) == a \in outrun \/ weighed[s][a] = "agrees"

Approved(a) == \A s \in Servers : Agreed(s, a)

Disapproved(a) == a \in outrun \/ \E s \in Servers : weighed[s][a] = "refuses"

\* The attempt will not be settled any more, or has been outrun.
Doomed(a) == expired \/ Disapproved(a)

Minted == 1 .. Len(attempts)

\* The agent was refused the attempt for good.
Over(a) == a \in Minted /\ a # outstanding /\ ~(ending = "bought" /\ a = LastAttempt)

\* What a copy of a request, or the record of its key, may be.  A receiver is
\* asked only once the receivers before it have approved, agrees only if it
\* approves, and refuses only what is doomed; and it is the processor alone that
\* finds a nonce it does not honour, or its key held.
Reached(s, a) ==
  /\ a \in Minted
  /\ s # "cp" => Agreed("cp", a)
  /\ s = "mpp" => Agreed("merchant", a)

MayBe(s, a) ==
  {"free"} \union
  IF ~Reached(s, a) THEN {}
  ELSE {"sent", "running", "calling", "claimed", "unavailable"}
       \union (IF Agreed(s, a) THEN {"ok"} ELSE {})
       \union (IF Doomed(a) THEN {"refused", "declined"} ELSE {})
       \union (IF s = "mpp" THEN {"malformed", "in_flight"} ELSE {})

SoundNet ==
  \A s \in Servers, a \in Attempts :
    /\ record[s][a] \in MayBe(s, a)
    /\ \A n \in Slots : req[s][a][n] \in MayBe(s, a)

\* The agent's calls come one at a time, and none outlives its being waited for.
OneCall ==
  /\ waiting # NoCall => pc = "delivering" /\ waiting.server # "mpp"
  /\ \A s \in {"cp", "merchant"}, a \in Attempts, n \in Slots :
       req[s][a][n] # "free" => running = a /\ waiting = [server |-> s, slot |-> n]

Honoured == \A s \in {"cp", "merchant"}, a \in Minted : honoured[s][a]

CredentialIsApproval == \A a \in Attempts : credential[a] => a \in Minted /\ Agreed("cp", a)

ChargedIsApproved == \A a \in Attempts : charges[a] > 0 => a \in Minted /\ Approved(a)

\* What is over is doomed, and left its receipt; and what came before an attempt
\* that is being minted was disapproved of, whatever the clock says now.
OverIsDoomed ==
  /\ \A a \in Minted : Over(a) => Doomed(a) /\ rejections[a] # {}
  /\ pc = "minting" => \A a \in Minted : Disapproved(a)

PromptInv ==
  /\ BoughtInv
  /\ SoundNet
  /\ OneCall
  /\ Honoured
  /\ CredentialIsApproval
  /\ ChargedIsApproved
  /\ OverIsDoomed
  /\ ChargedOnceUnlessOutrun

-----------------------------------------------------------------------------
(* What moves, and what is settled once for all. *)

\* Who changes what: only a new delegation adds an attempt, only the provider's
\* answer brings a credential, only another answer a receipt, and only a settlement
\* moves money.
LEMMA Frame ==
  ASSUME [Next]_vars
  PROVE  /\ MintAttempt \/ UNCHANGED attempts
         /\ HearCredential \/ UNCHANGED credential
         /\ HearVerdict \/ UNCHANGED rejections
         /\ (\E a \in Attempts, n \in Slots : SettlePayment(a, n)) \/ UNCHANGED charges
<1>1. CASE (Market /\ Others) \/ (Loop /\ Others) \/ (Ended /\ Others) \/ UNCHANGED vars
  BY <1>1 DEF Others, vars, serverVars, deliveryVars, Market, PriceMoves, AuthorisationRunsOut,
     Loop, TakeBaseline, BaselineFails, Cancel, Redeliver, StopExpired, QuoteBaseline, QuoteAgain,
     StopOutOfReach, MintFails, Ended, watchVars, loopVars
<1>2. CASE MintAttempt
  BY <1>2 DEF MintAttempt, deliveryVars
<1>3. CASE AgentNext
  <2>1. CASE Fund \/ Settle \/ HearCredential
    BY <2>1 DEF Fund, Settle, HearCredential, serverVars, deliveryVars, watchVars, loopVars
  <2>2. CASE HearVerdict \/ GiveUp
    <3>1. UNCHANGED <<serverVars, credential>> /\ (GiveUp => UNCHANGED deliveryVars)
      BY <2>2 DEF HearVerdict, GiveUp, deliveryVars
    <3>2. \E verdict \in Verdict : Delivered(verdict)
      BY <2>2, VerdictOfType DEF HearVerdict, GiveUp, Verdict
    <3>3. UNCHANGED attempts
      BY <3>2, DeliveredSteps DEF Bought, Unanswered, Refused
    <3> QED
      BY <2>2, <3>1, <3>3 DEF serverVars, deliveryVars
  <2> QED
    BY <1>3, <2>1, <2>2 DEF AgentNext
<1>4. ASSUME NEW t \in Servers, NEW b \in Attempts, NEW n \in Slots,
             ServerStep(t, b, n) \/ Lose(t, b, n)
      PROVE  UNCHANGED <<attempts, credential, rejections, charges>>
  BY <1>4 DEF ServerStep, Arrive, RejectNonce, Refuse, CannotAnswer, Lose, serverVars,
     deliveryVars, watchVars, loopVars
<1>5. ASSUME NEW b \in Attempts, NEW n \in Slots, HandlerStep(b, n)
      PROVE  /\ UNCHANGED <<attempts, credential, rejections>>
             /\ SettlePayment(b, n) \/ UNCHANGED charges
  BY <1>5 DEF HandlerStep, IssueCredential, InitiatePayment, HearProcessor, ProcessorCallFails,
     MerchantAnswers, SettlePayment, serverVars, deliveryVars, watchVars, loopVars
<1>6. ASSUME NEW t \in Servers, NEW b \in Attempts, NonceLapses(t, b) \/ RecordLapses(t, b)
      PROVE  UNCHANGED <<attempts, credential, rejections, charges>>
  BY <1>6 DEF NonceLapses, RecordLapses, deliveryVars, watchVars, loopVars
<1>7. ASSUME NEW t \in Servers, Restart(t)
      PROVE  UNCHANGED <<attempts, credential, rejections, charges>>
  BY <1>7 DEF Restart, deliveryVars, watchVars, loopVars
<1> QED
  BY <1>1, <1>2, <1>3, <1>4, <1>5, <1>6, <1>7 DEF Next

\* A verdict is come to once: a run of a handler that comes to another one outruns the
\* attempt.
LEMMA WeighingTells ==
  ASSUME TypeOK, NEW s \in Servers, NEW a \in Attempts,
         NEW verdict \in {"agrees", "refuses"}, Weighs(s, a, verdict)
  PROVE  /\ weighed'[s][a] = verdict \/ a \in outrun'
         /\ outrun' \in {outrun, outrun \union {a}}
         /\ \A t \in Servers, b \in Attempts :
              weighed[t][b] # "not_yet" => weighed'[t][b] = weighed[t][b]
<1>1. outrun' \in {outrun, outrun \union {a}}
  BY DEF Weighs
<1> DEFINE v == IF weighed[s][a] = "not_yet" THEN verdict ELSE weighed[s][a]
<1>2. weighed' = [weighed EXCEPT ![s][a] = v] /\ (weighed[s][a] # "not_yet" => v = weighed[s][a])
  BY DEF Weighs
<1>3. v = verdict \/ a \in outrun'
  BY DEF Weighs
<1> HIDE DEF v
<1>4. \A t \in Servers, b \in Attempts :
        weighed'[t][b] = IF t = s /\ b = a THEN v ELSE weighed[t][b]
  BY <1>2 DEF TypeOK
<1> QED
  BY <1>1, <1>2, <1>3, <1>4

LEMMA WhoWeighs ==
  ASSUME [Next]_vars
  PROVE  \/ UNCHANGED verdictVars
         \/ /\ UNCHANGED watchVars
            /\ \E s \in Servers, a \in Attempts, verdict \in {"agrees", "refuses"} :
                 Weighs(s, a, verdict)
<1>1. CASE (Market /\ Others) \/ (Loop /\ Others) \/ (Ended /\ Others) \/ UNCHANGED vars
  BY <1>1 DEF Others, vars, serverVars
<1>2. CASE MintAttempt \/ AgentNext
  BY <1>2 DEF MintAttempt, AgentNext, Fund, Settle, HearCredential, HearVerdict, GiveUp, serverVars
<1>3. ASSUME NEW t \in Servers, NEW b \in Attempts, NEW n \in Slots,
             Arrive(t, b, n) \/ RejectNonce(t, b, n) \/ CannotAnswer(t, b, n) \/ Lose(t, b, n)
      PROVE  UNCHANGED verdictVars
  BY <1>3 DEF Arrive, RejectNonce, CannotAnswer, Lose, serverVars
<1>4. ASSUME NEW t \in Servers, NEW b \in Attempts, NEW n \in Slots, Refuse(t, b, n)
      PROVE  \/ UNCHANGED verdictVars
             \/ UNCHANGED watchVars /\ Weighs(t, b, "refuses")
  BY <1>4 DEF Refuse, Declines
<1>5. ASSUME NEW b \in Attempts, NEW n \in Slots,
             IssueCredential(b, n) \/ InitiatePayment(b, n) \/ SettlePayment(b, n)
      PROVE  UNCHANGED watchVars /\ \E t \in Servers : Weighs(t, b, "agrees")
  BY <1>5 DEF IssueCredential, InitiatePayment, SettlePayment, Authorises, Servers
<1>6. ASSUME NEW b \in Attempts, NEW n \in Slots, HearProcessor(b, n) \/ ProcessorCallFails(b, n)
      PROVE  UNCHANGED verdictVars
  BY <1>6 DEF HearProcessor, ProcessorCallFails, MerchantAnswers
<1>7. ASSUME NEW t \in Servers, NEW b \in Attempts, NonceLapses(t, b) \/ RecordLapses(t, b)
      PROVE  UNCHANGED verdictVars
  BY <1>7 DEF NonceLapses, RecordLapses
<1>8. ASSUME NEW t \in Servers, Restart(t)
      PROVE  UNCHANGED verdictVars
  BY <1>8 DEF Restart
<1> QED
  BY <1>1, <1>2, <1>3, <1>4, <1>5, <1>6, <1>7, <1>8 DEF Next, ServerStep, HandlerStep

LEMMA Monotone ==
  ASSUME WatchInv, TypeOK, [Next]_vars
  PROVE  /\ Minted \subseteq Minted' /\ Minted \subseteq Attempts
         /\ expired => expired'
         /\ outrun \subseteq outrun'
         /\ \A a \in Attempts, s \in Servers :
              weighed[s][a] # "not_yet" => weighed'[s][a] = weighed[s][a]
<1>1. Len(attempts) \in Nat /\ Len(attempts') \in Nat /\ Len(attempts) <= Len(attempts')
  BY AttemptsOnlyGrow, StepIsWatchStep DEF WatchInv, WatchTypeOK
<1>2. expired => expired'
  BY StepIsWatchStep DEF WatchNext, watchVars, Market, PriceMoves, AuthorisationRunsOut, Loop,
     TakeBaseline, BaselineFails, Cancel, Redeliver, StopExpired, QuoteBaseline, QuoteAgain,
     StopOutOfReach, MintFails, Mint, Bought, Unanswered, Refused, Ended, marketVars
<1>3. /\ outrun \subseteq outrun'
      /\ \A a \in Attempts, s \in Servers :
           weighed[s][a] # "not_yet" => weighed'[s][a] = weighed[s][a]
  <2>1. CASE UNCHANGED verdictVars
    BY <2>1 DEF verdictVars
  <2>2. CASE ~(UNCHANGED verdictVars)
    <3>1. PICK s \in Servers, a \in Attempts, verdict \in {"agrees", "refuses"} :
            Weighs(s, a, verdict)
      BY <2>2, WhoWeighs
    <3> QED
      BY <3>1, WeighingTells
  <2> QED
    BY <2>1, <2>2
<1>4. Minted \subseteq Attempts
  BY AttemptsAreBounded DEF Minted
<1> QED
  BY <1>1, <1>2, <1>3, <1>4 DEF Minted

LEMMA AgreedForEver ==
  ASSUME WatchInv, TypeOK, [Next]_vars, NEW s \in Servers, NEW a \in Minted, Agreed(s, a)
  PROVE  Agreed(s, a)'
BY Monotone DEF Agreed

LEMMA DoomIsForEver ==
  ASSUME WatchInv, TypeOK, [Next]_vars, NEW a \in Minted
  PROVE  /\ a \in Minted'
         /\ Approved(a) => Approved(a)'
         /\ Disapproved(a) => Disapproved(a)'
         /\ Doomed(a) => Doomed(a)'
<1>1. Approved(a) => Approved(a)'
  BY AgreedForEver DEF Approved
<1>2. Disapproved(a) => Disapproved(a)'
  BY Monotone DEF Disapproved
<1> QED
  BY <1>1, <1>2, Monotone DEF Doomed

LEMMA ReachedForEver ==
  ASSUME WatchInv, TypeOK, [Next]_vars, NEW s \in Servers, NEW a, Reached(s, a)
  PROVE  Reached(s, a)'
<1>1. a \in Minted
  BY DEF Reached
<1>2. a \in Minted' /\ \A r \in Servers : Agreed(r, a) => Agreed(r, a)'
  BY <1>1, AgreedForEver, Monotone
<1> QED
  BY <1>2 DEF Reached, Servers

LEMMA MayBeGrows ==
  ASSUME WatchInv, TypeOK, [Next]_vars, NEW s \in Servers, NEW a
  PROVE  MayBe(s, a) \subseteq MayBe(s, a)'
<1>1. CASE Reached(s, a)
  <2>1. a \in Minted
    BY <1>1 DEF Reached
  <2>2. \A r \in Servers : Agreed(r, a) => Agreed(r, a)'
    BY <2>1, AgreedForEver
  <2>3. Reached(s, a)' /\ (Doomed(a) => Doomed(a)')
    BY <1>1, <2>1, DoomIsForEver, ReachedForEver
  <2> QED
    BY <1>1, <2>2, <2>3 DEF MayBe
<1>2. CASE ~Reached(s, a)
  BY <1>2 DEF MayBe
<1> QED
  BY <1>1, <1>2

-----------------------------------------------------------------------------
(* The copies and the records. *)

\* What MayBe says of a value found on the wire or on record.
LEMMA WhatIsSound ==
  ASSUME NEW s \in Servers, NEW a \in Attempts, NEW v \in MayBe(s, a), v # "free"
  PROVE  /\ Reached(s, a) /\ a \in Minted
         /\ v = "ok" => Agreed(s, a)
         /\ v \in {"refused", "declined"} => Doomed(a)
         /\ v \in {"malformed", "in_flight"} => s = "mpp"
BY DEF MayBe, Reached

\* What a step may put there: it can have weighed the attempt itself.
MayBecome(s, a) == MayBe(s, a) \union MayBe(s, a)'

\* What a step has to show: it puts nothing anywhere that might not be there.
LEMMA SoundStays ==
  ASSUME WatchInv, TypeOK, [Next]_vars,
         \A s \in Servers, a \in Attempts :
           /\ record'[s][a] \in MayBecome(s, a)
           /\ \A n \in Slots : req'[s][a][n] \in MayBecome(s, a)
  PROVE  SoundNet'
<1>1. \A s \in Servers, a \in Attempts : MayBe(s, a) \subseteq MayBe(s, a)'
  BY MayBeGrows
<1> QED
  BY <1>1 DEF SoundNet, MayBecome

LEMMA CopyPatched ==
  ASSUME WatchInv, TypeOK, [Next]_vars, SoundNet,
         NEW s \in Servers, NEW a \in Attempts, NEW n, NEW p \in MayBecome(s, a),
         req' = [req EXCEPT ![s][a][n] = p], UNCHANGED record
  PROVE  SoundNet'
<1>1. req \in Copies
  BY DEF TypeOK, Copies
<1>2. \A t \in Servers, b \in Attempts, k \in Slots :
        req'[t][b][k] = IF t = s /\ b = a /\ k = n THEN p ELSE req[t][b][k]
  BY <1>1 DEF Copies
<1> QED
  BY <1>2, SoundStays DEF SoundNet, MayBecome

LEMMA CopyAndRecordPatched ==
  ASSUME WatchInv, TypeOK, [Next]_vars, SoundNet,
         NEW s \in Servers, NEW a \in Attempts, NEW n,
         NEW p \in MayBecome(s, a), NEW q \in MayBecome(s, a),
         req' = [req EXCEPT ![s][a][n] = p],
         record' = [record EXCEPT ![s][a] = q]
  PROVE  SoundNet'
<1>1. req \in Copies /\ record \in Records
  BY DEF TypeOK, Copies, Records
<1>2. \A t \in Servers, b \in Attempts, k \in Slots :
        req'[t][b][k] = IF t = s /\ b = a /\ k = n THEN p ELSE req[t][b][k]
  BY <1>1 DEF Copies
<1>3. \A t \in Servers, b \in Attempts :
        record'[t][b] = IF t = s /\ b = a THEN q ELSE record[t][b]
  BY <1>1 DEF Records
<1> QED
  BY <1>2, <1>3, SoundStays DEF SoundNet, MayBecome

LEMMA FreeIsSound == \A s, a : "free" \in MayBe(s, a)
BY DEF MayBe

LEMMA ReplyIsSound ==
  ASSUME WatchInv, TypeOK, [Next]_vars, SoundNet,
         NEW s \in Servers, NEW a \in Attempts, NEW n, NEW answer \in MayBecome(s, a),
         Reply(s, a, n, answer), UNCHANGED record
  PROVE  SoundNet'
<1> DEFINE p == IF Awaited(s, a, n) THEN answer ELSE "free"
<1>1. req' = [req EXCEPT ![s][a][n] = p] /\ p \in MayBecome(s, a)
  BY FreeIsSound DEF Reply, MayBecome
<1> HIDE DEF p
<1> QED
  BY <1>1, CopyPatched

LEMMA FinishIsSound ==
  ASSUME WatchInv, TypeOK, [Next]_vars, SoundNet,
         NEW s \in Servers, NEW a \in Attempts, NEW n, NEW answer \in MayBecome(s, a),
         Finish(s, a, n, answer)
  PROVE  SoundNet'
<1> DEFINE p == IF Awaited(s, a, n) THEN answer ELSE "free"
           q == IF answer \in Remembered THEN answer ELSE "free"
<1>1. /\ req' = [req EXCEPT ![s][a][n] = p]
      /\ record' = [record EXCEPT ![s][a] = q]
  BY DEF Finish, Reply
<1>2. p \in MayBecome(s, a) /\ q \in MayBecome(s, a)
  BY FreeIsSound DEF MayBecome
<1> HIDE DEF p, q
<1> QED
  BY <1>1, <1>2, CopyAndRecordPatched

\* Only the processor's key is ever found held: the agent does not give a call up
\* before the copy it waits for is gone.
LEMMA NobodyInTheWay ==
  ASSUME TypeOK, HandlerHoldsTheKey, OneCall,
         NEW s \in {"cp", "merchant"}, NEW a \in Attempts, NEW n \in Slots,
         req[s][a][n] = "sent"
  PROVE  record[s][a] # "claimed"
<1> SUFFICES ASSUME record[s][a] = "claimed" PROVE FALSE
  OBVIOUS
<1>1. PICK m \in Slots : req[s][a][m] \in {"running", "calling"}
  BY DEF HandlerHoldsTheKey, InHandler, Servers
<1>2. waiting = [server |-> s, slot |-> n] /\ waiting = [server |-> s, slot |-> m]
  BY <1>1 DEF OneCall
<1>3. n = m
  BY <1>2
<1> QED
  BY <1>1, <1>3

SingleUseFacts ==
  /\ Prompt
  /\ WatchInv /\ TypeOK /\ HandlerHoldsTheKey /\ CallsSomeone
  /\ SoundNet /\ OneCall /\ Honoured /\ CredentialIsApproval

LEMMA AgentIsSound ==
  ASSUME SingleUseFacts, [Next]_vars, AgentNext
  PROVE  SoundNet'
<1> USE DEF SingleUseFacts
<1>1. pc = "delivering" /\ UNCHANGED record
  BY DEF AgentNext, Fund, Settle, HearCredential, HearVerdict, GiveUp, serverVars, OneCall,
     NoCall, TypeOK
<1>2. running \in Minted /\ running \in Attempts
  BY <1>1, InDelivery, AttemptsAreBounded DEF Minted
<1>3. CASE Fund
  <2>1. PICK n \in Slots : req' = [req EXCEPT !["cp"][running][n] = "sent"]
    BY <1>3 DEF Fund, Send
  <2>2. "sent" \in MayBe("cp", running)
    BY <1>2 DEF MayBe, Reached
  <2> QED
    BY <1>1, <1>2, <2>1, <2>2, CopyPatched DEF Servers, MayBecome
<1>4. CASE Settle
  <2>1. PICK n \in Slots : req' = [req EXCEPT !["merchant"][running][n] = "sent"]
    BY <1>4 DEF Settle, Send
  <2>2. "sent" \in MayBe("merchant", running)
    BY <1>2, <1>4 DEF Settle, MayBe, Reached, CredentialIsApproval
  <2> QED
    BY <1>1, <1>2, <2>1, <2>2, CopyPatched DEF Servers, MayBecome
<1>5. CASE HearCredential \/ HearVerdict
  <2>1. PICK s \in Servers : \E n : req' = [req EXCEPT ![s][running][n] = "free"]
    BY <1>5 DEF HearCredential, HearVerdict, Freed, TypeOK, Call, Servers
  <2> QED
    BY <1>1, <1>2, <2>1, FreeIsSound, CopyPatched DEF MayBecome
<1>6. CASE GiveUp
  BY <1>1, <1>6, SoundStays DEF GiveUp, SoundNet, MayBecome
<1> QED
  BY <1>3, <1>4, <1>5, <1>6 DEF AgentNext

LEMMA ServerIsSound ==
  ASSUME SingleUseFacts, [Next]_vars,
         NEW s \in Servers, NEW a \in Attempts, NEW n \in Slots, ServerStep(s, a, n)
  PROVE  SoundNet'
<1> USE DEF SingleUseFacts
<1>1. /\ req[s][a][n] \in MayBe(s, a) /\ req[s][a][n] # "free"
      /\ record[s][a] \in MayBe(s, a)
  BY DEF ServerStep, Arrive, RejectNonce, Refuse, CannotAnswer, SoundNet
<1>2. Reached(s, a) /\ a \in Minted
  BY <1>1, WhatIsSound
<1>3. CASE Arrive(s, a, n) /\ record[s][a] = "free"
  <2>1. /\ req' = [req EXCEPT ![s][a][n] = "running"]
        /\ record' = [record EXCEPT ![s][a] = "claimed"]
    BY <1>3 DEF Arrive
  <2>2. "running" \in MayBe(s, a) /\ "claimed" \in MayBe(s, a)
    BY <1>2 DEF MayBe
  <2> QED
    BY <2>1, <2>2, CopyAndRecordPatched DEF MayBecome
<1>4. CASE Arrive(s, a, n) /\ record[s][a] = "claimed"
  <2>1. Reply(s, a, n, "in_flight") /\ UNCHANGED record /\ req[s][a][n] = "sent"
    BY <1>4 DEF Arrive
  <2>2. s = "mpp"
    BY <1>4, <2>1, NobodyInTheWay DEF Servers
  <2>3. "in_flight" \in MayBe(s, a)
    BY <1>2, <2>2 DEF MayBe
  <2> QED
    BY <2>1, <2>3, ReplyIsSound DEF MayBecome
<1>5. CASE Arrive(s, a, n) /\ record[s][a] \notin {"free", "claimed"}
  <2>1. Reply(s, a, n, record[s][a]) /\ UNCHANGED record
    BY <1>5 DEF Arrive
  <2> QED
    BY <1>1, <2>1, ReplyIsSound DEF MayBecome
<1>6. CASE RejectNonce(s, a, n)
  <2>1. s = "mpp"
    BY <1>2, <1>6 DEF RejectNonce, Honoured, Servers
  <2>2. "malformed" \in MayBe(s, a)
    BY <1>2, <2>1 DEF MayBe
  <2> QED
    BY <1>6, <2>2, FinishIsSound DEF MayBecome, RejectNonce
<1>7. CASE Refuse(s, a, n)
  <2>1. Doomed(a)'
    <3>1. CASE expired
      BY <3>1, Monotone DEF Doomed
    <3>2. CASE Weighs(s, a, "refuses")
      BY <3>2, WeighingTells DEF Doomed, Disapproved
    <3> QED
      BY <1>7, <3>1, <3>2 DEF Refuse, Declines
  <2>2. "refused" \in MayBe(s, a)'
    BY <1>2, <2>1, ReachedForEver DEF MayBe
  <2> QED
    BY <1>7, <2>2, FinishIsSound DEF MayBecome, Refuse
<1>8. CASE CannotAnswer(s, a, n)
  <2>1. "unavailable" \in MayBe(s, a)
    BY <1>2 DEF MayBe
  <2> QED
    BY <1>8, <2>1, FinishIsSound DEF MayBecome, CannotAnswer
<1> QED
  BY <1>3, <1>4, <1>5, <1>6, <1>7, <1>8 DEF ServerStep

\* The merchant's answer is sound, and the processor's copy was or is gone.
LEMMA MerchantIsSound ==
  ASSUME WatchInv, TypeOK, [Next]_vars, SoundNet,
         NEW a \in Attempts, NEW n \in Slots, NEW answer \in MayBecome("merchant", a),
         NEW m \in Slots, NEW p \in {"free", req["mpp"][a][m]},
         MerchantAnswers(a, n, answer, m, p)
  PROVE  SoundNet'
<1> DEFINE q == IF Awaited("merchant", a, n) THEN answer ELSE "free"
           v == IF answer \in Remembered THEN answer ELSE "free"
<1>1. req \in Copies /\ record \in Records
  BY DEF TypeOK, Copies, Records
<1>2. /\ q \in MayBecome("merchant", a) /\ v \in MayBecome("merchant", a)
      /\ p \in MayBecome("mpp", a)
  BY FreeIsSound DEF SoundNet, Servers, MayBecome
<1>3. /\ req' = [req EXCEPT !["mpp"][a][m] = p, !["merchant"][a][n] = q]
      /\ record' = [record EXCEPT !["merchant"][a] = v]
  BY DEF MerchantAnswers
<1> HIDE DEF q, v
<1>4. \A t \in Servers, b \in Attempts, k \in Slots :
        req'[t][b][k] = IF t = "merchant" /\ b = a /\ k = n THEN q
                        ELSE IF t = "mpp" /\ b = a /\ k = m THEN p
                        ELSE req[t][b][k]
  BY <1>1, <1>3 DEF Copies, Servers
<1>5. \A t \in Servers, b \in Attempts :
        record'[t][b] = IF t = "merchant" /\ b = a THEN v ELSE record[t][b]
  BY <1>1, <1>3 DEF Records, Servers
<1> QED
  BY <1>2, <1>4, <1>5, SoundStays DEF SoundNet, MayBecome

LEMMA HandlerIsSound ==
  ASSUME SingleUseFacts, [Next]_vars,
         NEW a \in Attempts, NEW n \in Slots, HandlerStep(a, n)
  PROVE  SoundNet'
<1> USE DEF SingleUseFacts
<1>1. CASE IssueCredential(a, n)
  <2>1. Reached("cp", a)
    BY <1>1, WhatIsSound DEF IssueCredential, SoundNet, Servers
  <2>2. Agreed("cp", a)'
    BY <1>1, WeighingTells DEF IssueCredential, Authorises, Agreed, Servers
  <2>3. "ok" \in MayBe("cp", a)'
    BY <2>1, <2>2, ReachedForEver DEF MayBe, Servers
  <2> QED
    BY <1>1, <2>3, FinishIsSound DEF MayBecome, IssueCredential, Servers
<1>2. CASE InitiatePayment(a, n)
  <2>1. PICK m \in Slots :
          req' = [req EXCEPT !["merchant"][a][n] = "calling", !["mpp"][a][m] = "sent"]
    BY <1>2 DEF InitiatePayment
  <2>2. UNCHANGED record /\ req \in Copies
    BY <1>2 DEF InitiatePayment, TypeOK, Copies
  <2>3. Reached("merchant", a)
    BY <1>2, WhatIsSound DEF InitiatePayment, SoundNet, Servers
  <2>4. "calling" \in MayBe("merchant", a) /\ "sent" \in MayBe("mpp", a)'
    <3>1. Agreed("merchant", a)'
      BY <1>2, WeighingTells DEF InitiatePayment, Authorises, Agreed, Servers
    <3>2. Reached("merchant", a)'
      BY <2>3, ReachedForEver DEF Servers
    <3>3. Reached("mpp", a)'
      BY <3>1, <3>2 DEF Reached
    <3> QED
      BY <2>3, <3>3 DEF MayBe
  <2>5. \A t \in Servers, b \in Attempts, k \in Slots :
          req'[t][b][k] = IF t = "merchant" /\ b = a /\ k = n THEN "calling"
                          ELSE IF t = "mpp" /\ b = a /\ k = m THEN "sent"
                          ELSE req[t][b][k]
    BY <2>1, <2>2 DEF Copies, Servers
  <2> QED
    BY <2>2, <2>4, <2>5, SoundStays DEF SoundNet, MayBecome
<1>3. CASE HearProcessor(a, n) \/ ProcessorCallFails(a, n)
  <2> DEFINE m == downstream[a]
  <2>1. /\ m \in Slots /\ req["merchant"][a][n] = "calling"
        /\ Reached("merchant", a)
    BY <1>3, WhatIsSound DEF HearProcessor, ProcessorCallFails, CallsSomeone, SoundNet, Servers
  <2>2. "unavailable" \in MayBe("merchant", a)
    BY <2>1 DEF MayBe
  <2>3. CASE ProcessorCallFails(a, n)
    BY <2>1, <2>2, <2>3, MerchantIsSound DEF MayBecome, ProcessorCallFails
  <2>4. CASE HearProcessor(a, n)
    <3> DEFINE v == req["mpp"][a][m]
    <3>1. v \in MayBe("mpp", a) /\ v \in Answers
      BY <2>1, <2>4 DEF HearProcessor, SoundNet, Servers
    <3>2. /\ Reached("mpp", a)
          /\ v = "ok" => Agreed("mpp", a)
          /\ v = "refused" => Doomed(a)
      BY <3>1, WhatIsSound DEF Answers, Servers
    <3>3. settledAs(v) \in MayBe("merchant", a)
      BY <2>1, <2>2, <3>2 DEF settledAs, MayBe, Reached
    <3>4. MerchantAnswers(a, n, settledAs(v), m, "free")
      BY <2>4 DEF HearProcessor
    <3> QED
      BY <2>1, <3>3, <3>4, MerchantIsSound DEF MayBecome
  <2> QED
    BY <1>3, <2>3, <2>4
<1>4. CASE SettlePayment(a, n)
  <2>1. Reached("mpp", a)
    BY <1>4, WhatIsSound DEF SettlePayment, SoundNet, Servers
  <2>2. Agreed("mpp", a)'
    BY <1>4, WeighingTells DEF SettlePayment, Authorises, Agreed, Servers
  <2>3. "ok" \in MayBe("mpp", a)'
    BY <2>1, <2>2, ReachedForEver DEF MayBe, Servers
  <2> QED
    BY <1>4, <2>3, FinishIsSound DEF MayBecome, SettlePayment, Servers
<1> QED
  BY <1>1, <1>2, <1>3, <1>4 DEF HandlerStep

LEMMA SoundStep ==
  ASSUME SingleUseFacts, [Next]_vars
  PROVE  SoundNet'
<1> USE DEF SingleUseFacts
<1>1. CASE UNCHANGED <<req, record>>
  BY <1>1, SoundStays DEF SoundNet, MayBecome
<1>2. CASE (Market /\ Others) \/ (Loop /\ Others) \/ MintAttempt \/ (Ended /\ Others) \/ UNCHANGED vars
  BY <1>1, <1>2 DEF Others, MintAttempt, vars, netVars, serverVars
<1>3. ASSUME NEW s \in Servers, NEW a \in Attempts, NEW n \in Slots, Lose(s, a, n)
      PROVE  SoundNet'
  BY <1>3, FreeIsSound, CopyPatched DEF Lose, Freed, serverVars, MayBecome
<1>4. ASSUME NEW s \in Servers, NEW a \in Attempts, NonceLapses(s, a) \/ RecordLapses(s, a)
      PROVE  SoundNet'
  <2>1. /\ UNCHANGED req
        /\ \A t \in Servers, b \in Attempts : record'[t][b] \in {record[t][b], "free"}
    <3>1. CASE NonceLapses(s, a)
      BY <3>1 DEF NonceLapses, netVars
    <3>2. CASE RecordLapses(s, a)
      BY <3>2 DEF RecordLapses, netVars, TypeOK
    <3> QED
      BY <1>4, <3>1, <3>2
  <2> QED
    BY <2>1, FreeIsSound, SoundStays DEF SoundNet, MayBecome
<1>5. ASSUME NEW s \in Servers, Restart(s)
      PROVE  SoundNet'
  <2>1. /\ \A t \in Servers, b \in Attempts : record'[t][b] \in {record[t][b], "free"}
        /\ \A t \in Servers, b \in Attempts, k \in Slots : req'[t][b][k] \in {req[t][b][k], "free"}
    BY <1>5 DEF Restart, TypeOK
  <2> QED
    BY <2>1, FreeIsSound, SoundStays DEF SoundNet, MayBecome
<1> QED
  BY <1>2, <1>3, <1>4, <1>5, AgentIsSound, ServerIsSound, HandlerIsSound DEF Next

-----------------------------------------------------------------------------
(* One call at a time. *)

\* With no call under way, nothing of the agent's is on the wire or in a handler.
LEMMA NothingOnTheWire ==
  ASSUME OneCall, waiting = NoCall
  PROVE  \A s \in {"cp", "merchant"}, a \in Attempts, n \in Slots : req[s][a][n] = "free"
<1>1. \A s \in {"cp", "merchant"} : \A n : [server |-> s, slot |-> n] # NoCall
  BY DEF NoCall
<1> QED
  BY <1>1 DEF OneCall

\* A step that neither the agent nor its loop takes moves no copy onto the wire.
LEMMA OthersSendNothing ==
  ASSUME OneCall, UNCHANGED <<waiting, pc, running>>,
         \A s \in {"cp", "merchant"}, a \in Attempts, n \in Slots :
           req'[s][a][n] # "free" => req[s][a][n] # "free"
  PROVE  OneCall'
BY DEF OneCall, NoCall

LEMMA CopyWasThere ==
  ASSUME TypeOK, OneCall, UNCHANGED <<waiting, pc, running>>,
         NEW s, NEW a, NEW n, NEW p,
         req[s][a][n] # "free", req' = [req EXCEPT ![s][a][n] = p]
  PROVE  OneCall'
<1>1. req \in Copies
  BY DEF TypeOK, Copies
<1>2. \A t \in Servers, b \in Attempts, k \in Slots :
        req'[t][b][k] # "free" => req[t][b][k] # "free"
  BY <1>1 DEF Copies
<1> QED
  BY <1>2, OthersSendNothing DEF Servers

LEMMA AgentCallsOnce ==
  ASSUME Prompt, TypeOK, WatchInv, OneCall, AgentNext
  PROVE  OneCall'
<1>1. pc = "delivering" /\ req \in Copies /\ "slow" \notin Faults
  BY DEF AgentNext, Fund, Settle, HearCredential, HearVerdict, GiveUp, OneCall,
     NoCall, TypeOK, Copies, Prompt
<1>2. ASSUME NEW s \in {"cp", "merchant"}, waiting = NoCall, Send(s, running),
             UNCHANGED <<pc, running>>
      PROVE  OneCall'
  <2>1. PICK n \in Slots : /\ req' = [req EXCEPT ![s][running][n] = "sent"]
                           /\ waiting' = [server |-> s, slot |-> n]
    BY <1>2 DEF Send
  <2>2. \A t \in {"cp", "merchant"}, b \in Attempts, k \in Slots :
          req'[t][b][k] # "free" => t = s /\ b = running /\ k = n
    BY <1>1, <1>2, <2>1, NothingOnTheWire DEF Copies, Servers
  <2>3. waiting'.server # "mpp"
    BY <2>1
  <2> QED
    BY <1>1, <1>2, <2>1, <2>2, <2>3 DEF OneCall
<1>3. CASE Fund \/ Settle
  BY <1>2, <1>3 DEF Fund, Settle, watchVars, trackerVars, loopVars
<1>4. CASE HearCredential \/ HearVerdict \/ GiveUp
  <2> DEFINE s == waiting.server
             n == waiting.slot
  <2>1. /\ waiting' = NoCall
        /\ \/ req' = [req EXCEPT ![s][running][n] = "free"]
           \/ req' = req /\ req[s][running][n] = "free"
    <3>1. CASE HearCredential \/ HearVerdict
      BY <3>1 DEF HearCredential, HearVerdict, Freed
    <3>2. CASE GiveUp
      BY <1>1, <3>2 DEF GiveUp
    <3> QED
      BY <1>4, <3>1, <3>2
  <2>2. \A t \in {"cp", "merchant"}, b \in Attempts, k \in Slots :
          req[t][b][k] # "free" => t = s /\ b = running /\ k = n
    BY DEF OneCall
  <2> HIDE DEF s, n
  <2>3. \A t \in {"cp", "merchant"}, b \in Attempts, k \in Slots : req'[t][b][k] = "free"
    BY <1>1, <2>1, <2>2 DEF Copies, Servers
  <2> QED
    BY <2>1, <2>3 DEF OneCall
<1> QED
  BY <1>3, <1>4 DEF AgentNext

LEMMA OneCallStep ==
  ASSUME SingleUseFacts, [Next]_vars
  PROVE  OneCall'
<1> USE DEF SingleUseFacts
<1>0. req \in Copies
  BY DEF TypeOK, Copies
<1>1. CASE (Market /\ Others) \/ (Ended /\ Others) \/ UNCHANGED vars
  <2>1. UNCHANGED <<waiting, pc, running, req>>
    BY <1>1 DEF Market, PriceMoves, AuthorisationRunsOut, Others, Ended, netVars, vars, watchVars,
       trackerVars, loopVars
  <2> QED
    BY <2>1, OthersSendNothing
<1>2. CASE (Loop /\ Others) \/ MintAttempt
  <2>1. pc # "delivering"
    BY <1>2 DEF MintAttempt, Mint, Loop, TakeBaseline, BaselineFails, Cancel, Redeliver,
       StopExpired, QuoteBaseline, QuoteAgain, StopOutOfReach, MintFails
  <2>2. waiting = NoCall /\ UNCHANGED <<waiting, req>>
    BY <1>2, <2>1 DEF OneCall, MintAttempt, Others, netVars
  <2> QED
    BY <2>2, NothingOnTheWire DEF OneCall
<1>3. CASE AgentNext
  BY <1>3, AgentCallsOnce
<1>4. ASSUME NEW s \in Servers, NEW a \in Attempts, NEW n \in Slots,
             ServerStep(s, a, n) \/ Lose(s, a, n)
      PROVE  OneCall'
  <2>1. UNCHANGED <<waiting, pc, running>> /\ req[s][a][n] # "free"
    BY <1>4 DEF ServerStep, Arrive, RejectNonce, Refuse, CannotAnswer, Lose, Answers, watchVars,
       trackerVars, loopVars
  <2>2. PICK p : req' = [req EXCEPT ![s][a][n] = p]
    BY <1>4 DEF ServerStep, Arrive, RejectNonce, Refuse, CannotAnswer, Lose, Freed, Finish, Reply
  <2> QED
    BY <2>1, <2>2, CopyWasThere
<1>5. ASSUME NEW a \in Attempts, NEW n \in Slots, HandlerStep(a, n)
      PROVE  OneCall'
  <2>1. UNCHANGED <<waiting, pc, running>>
    BY <1>5 DEF HandlerStep, IssueCredential, InitiatePayment, HearProcessor, ProcessorCallFails,
       MerchantAnswers, SettlePayment, watchVars, trackerVars, loopVars
  <2>2. CASE IssueCredential(a, n) \/ SettlePayment(a, n)
    <3>1. PICK s \in {"cp", "mpp"} :
            req[s][a][n] = "running" /\ \E p : req' = [req EXCEPT ![s][a][n] = p]
      BY <2>2 DEF IssueCredential, SettlePayment, Finish, Reply
    <3>2. PICK p : req' = [req EXCEPT ![s][a][n] = p]
      BY <3>1
    <3>3. req[s][a][n] # "free"
      BY <3>1
    <3> QED
      BY <2>1, <3>2, <3>3, CopyWasThere
  <2>3. CASE InitiatePayment(a, n) \/ HearProcessor(a, n) \/ ProcessorCallFails(a, n)
    <3>1. req["merchant"][a][n] # "free"
      BY <2>3 DEF InitiatePayment, HearProcessor, ProcessorCallFails
    <3>2. \E m, p, q : req' = [req EXCEPT !["mpp"][a][m] = p, !["merchant"][a][n] = q]
      <4>1. CASE InitiatePayment(a, n)
        <5>1. PICK m \in Slots :
                req' = [req EXCEPT !["merchant"][a][n] = "calling", !["mpp"][a][m] = "sent"]
          BY <4>1 DEF InitiatePayment
        <5>2. req' = [req EXCEPT !["mpp"][a][m] = "sent", !["merchant"][a][n] = "calling"]
          BY <1>0, <5>1 DEF Copies, Servers
        <5> QED
          BY <5>2
      <4>2. CASE HearProcessor(a, n)
        <5>1. PICK m, answer : MerchantAnswers(a, n, answer, m, "free")
          BY <4>2 DEF HearProcessor
        <5> QED
          BY <5>1 DEF MerchantAnswers
      <4>3. CASE ProcessorCallFails(a, n)
        <5>1. PICK m, p : MerchantAnswers(a, n, "unavailable", m, p)
          BY <4>3 DEF ProcessorCallFails
        <5> QED
          BY <5>1 DEF MerchantAnswers
      <4> QED
        BY <2>3, <4>1, <4>2, <4>3
    <3>3. \A t \in {"cp", "merchant"}, b \in Attempts, k \in Slots :
            req'[t][b][k] # "free" => req[t][b][k] # "free"
      BY <1>0, <3>1, <3>2 DEF Copies, Servers
    <3> QED
      BY <2>1, <3>3, OthersSendNothing
  <2> QED
    BY <1>5, <2>2, <2>3 DEF HandlerStep
<1>6. ASSUME NEW s \in Servers, NEW a \in Attempts, NonceLapses(s, a) \/ RecordLapses(s, a)
      PROVE  OneCall'
  <2>1. UNCHANGED <<waiting, pc, running, req>>
    BY <1>6 DEF NonceLapses, RecordLapses, netVars, watchVars, trackerVars, loopVars
  <2> QED
    BY <2>1, OthersSendNothing
<1>7. ASSUME NEW s \in Servers, Restart(s)
      PROVE  OneCall'
  <2>1. UNCHANGED <<waiting, pc, running>>
    BY <1>7 DEF Restart, watchVars, trackerVars, loopVars
  <2>2. \A t \in Servers, b \in Attempts, k \in Slots : req'[t][b][k] \in {req[t][b][k], "free"}
    BY <1>7 DEF Restart, TypeOK
  <2> QED
    BY <2>1, <2>2, OthersSendNothing DEF Servers
<1> QED
  BY <1>1, <1>2, <1>3, <1>4, <1>5, <1>6, <1>7 DEF Next
-----------------------------------------------------------------------------
(* Nonces, credentials and charges. *)

LEMMA Minting ==
  ASSUME WatchInv, MintAttempt
  PROVE  /\ pc = "minting" /\ outstanding = NoAttempt /\ ending = "running" /\ checkout = "Ready"
         /\ outstanding' = Len(attempts) + 1 /\ checkout' = "AwaitingReceipt"
         /\ pc' = "delivering" /\ UNCHANGED <<ending, expired>>
         /\ Minted' = Minted \union {Len(attempts) + 1}
         /\ NoAttempt \notin Minted
<1>1. /\ pc = "minting" /\ outstanding = NoAttempt /\ ending = "running" /\ checkout # "Spent"
      /\ attempts \in Seq(Steps) /\ Mint
  BY DEF MintAttempt, Mint, WatchInv, WatchTypeOK, HoldsWhatIsOutstanding, DeliveryInv
<1>2. checkout = "Ready"
  BY <1>1 DEF WatchInv, WatchTypeOK, TrackerTypeOK, MandateState, PairInStep
<1>3. Len(attempts') = Len(attempts) + 1 /\ Len(attempts) \in Nat
  BY <1>1 DEF Mint, WatchInv, WatchTypeOK
<1>4. outstanding' = Len(attempts) + 1 /\ checkout' = "AwaitingReceipt"
  BY <1>1, <1>2, <1>3, NextStates DEF Mint, BeginAttempt, IsRedelivery, NoAttempt
<1>5. Minted' = Minted \union {Len(attempts) + 1} /\ NoAttempt \notin Minted
  BY <1>3 DEF Minted, NoAttempt
<1> QED
  BY <1>1, <1>2, <1>4, <1>5 DEF Mint, marketVars

LEMMA MintedAreAttempts == WatchInv => Minted \subseteq Attempts
BY AttemptsAreBounded DEF Minted

LEMMA AttemptsStayBounded == (WatchInv)' => (Minted \subseteq Attempts)'
BY MintedAreAttempts, PTL

LEMMA HonouredStep ==
  ASSUME SingleUseFacts, [Next]_vars
  PROVE  Honoured'
<1> USE DEF SingleUseFacts
<1>0. honoured \in [Servers -> [Attempts -> BOOLEAN]] /\ Minted' \subseteq Attempts
  BY StepIsWatchStep, StepKeepsWatchInv, AttemptsStayBounded DEF TypeOK, Attempts
<1>1. CASE MintAttempt
  <2>1. honoured' = [s \in Servers |-> [honoured[s] EXCEPT ![Len(attempts) + 1] = TRUE]]
    BY <1>1 DEF MintAttempt
  <2>2. Minted' = Minted \union {Len(attempts) + 1}
    BY <1>1, Minting
  <2> QED
    BY <1>0, <2>1, <2>2 DEF Honoured, Servers
<1>2. CASE ~MintAttempt
  <2>1. \A s \in {"cp", "merchant"} : honoured'[s] = honoured[s]
    <3>1. CASE (Market /\ Others) \/ (Loop /\ Others) \/ (Ended /\ Others) \/ UNCHANGED vars
      BY <3>1 DEF Others, vars, serverVars
    <3>2. CASE AgentNext
      BY <3>2 DEF AgentNext, Fund, Settle, HearCredential, HearVerdict, GiveUp, serverVars
    <3>3. ASSUME NEW t \in Servers, NEW b \in Attempts, NEW n \in Slots,
                 ServerStep(t, b, n) \/ Lose(t, b, n)
          PROVE  UNCHANGED honoured
      BY <3>3 DEF ServerStep, Arrive, RejectNonce, Refuse, CannotAnswer, Lose, serverVars
    <3>4. ASSUME NEW b \in Attempts, NEW n \in Slots, HandlerStep(b, n)
          PROVE  UNCHANGED honoured
      BY <3>4 DEF HandlerStep, IssueCredential, InitiatePayment, HearProcessor,
         ProcessorCallFails, MerchantAnswers, SettlePayment, serverVars
    <3>5. ASSUME NEW t \in Servers, NEW b \in Attempts,
                 NonceLapses(t, b) \/ RecordLapses(t, b)
          PROVE  UNCHANGED honoured
      BY <3>5 DEF NonceLapses, RecordLapses, Prompt
    <3>6. ASSUME NEW t \in Servers, Restart(t)
          PROVE  \A s \in {"cp", "merchant"} : honoured'[s] = honoured[s]
      <4>1. t = "mpp"
        BY <3>6 DEF Restart, Prompt, Servers
      <4> QED
        BY <1>0, <3>6, <4>1 DEF Restart
    <3> QED
      BY <1>2, <3>1, <3>2, <3>3, <3>4, <3>5, <3>6 DEF Next
  <2> QED
    BY <1>2, <2>1, Frame DEF Honoured, Minted
<1> QED
  BY <1>1, <1>2

\* The provider issues a credential only for an attempt it agreed to.
LEMMA CredentialStep ==
  ASSUME SingleUseFacts, [Next]_vars
  PROVE  CredentialIsApproval'
<1> USE DEF SingleUseFacts
<1>1. ASSUME NEW a \in Attempts, credential'[a], a \in Minted, Agreed("cp", a)
      PROVE  a \in Minted' /\ Agreed("cp", a)'
  BY <1>1, Monotone, AgreedForEver DEF Servers
<1>2. CASE HearCredential
  <2>1. running \in Attempts /\ waiting.slot \in Slots /\ req["cp"][running][waiting.slot] = "ok"
    <3>1. waiting # NoCall /\ waiting \in Call
      BY <1>2 DEF HearCredential, NoCall, TypeOK
    <3>2. pc = "delivering" /\ waiting.slot \in Slots
      BY <3>1 DEF OneCall, Call
    <3> QED
      BY <1>2, <3>2, InDelivery, AttemptsAreBounded DEF HearCredential
  <2>2. running \in Minted /\ Agreed("cp", running)
    BY <2>1, WhatIsSound DEF SoundNet, Servers
  <2>3. \A a \in Attempts : credential'[a] => credential[a] \/ a = running
    BY <1>2 DEF HearCredential, TypeOK
  <2> QED
    BY <1>1, <2>2, <2>3 DEF CredentialIsApproval
<1>3. CASE ~HearCredential
  BY <1>1, <1>3, Frame DEF CredentialIsApproval
<1> QED
  BY <1>2, <1>3

\* A payment is settled when every verifier has agreed to the attempt, and before the
\* authorisation runs out; what one of them refused it must have weighed twice.
LEMMA SettlesWhatIsApproved ==
  ASSUME WatchInv, TypeOK, SoundNet, [Next]_vars,
         NEW a \in Attempts, NEW n \in Slots, SettlePayment(a, n)
  PROVE  /\ a \in Minted /\ Approved(a)' /\ ~expired
         /\ outrun' \in {outrun, outrun \union {a}}
         /\ \A b \in Attempts : charges'[b] > 0 => charges[b] > 0 \/ b = a
<1>1. Reached("mpp", a) /\ ~expired /\ Weighs("mpp", a, "agrees")
  BY WhatIsSound DEF SettlePayment, Authorises, SoundNet, Servers
<1>2. Agreed("mpp", a)' /\ outrun' \in {outrun, outrun \union {a}}
  BY <1>1, WeighingTells DEF Agreed, Servers
<1>3. Reached("mpp", a)'
  BY <1>1, ReachedForEver DEF Servers
<1>4. \A b \in Attempts : charges'[b] > 0 => charges[b] > 0 \/ b = a
  BY DEF SettlePayment, TypeOK
<1> QED
  BY <1>1, <1>2, <1>3, <1>4 DEF Reached, Approved, Servers

LEMMA ChargedStep ==
  ASSUME SingleUseFacts, ChargedIsApproved, [Next]_vars
  PROVE  ChargedIsApproved'
<1> USE DEF SingleUseFacts
<1>1. ASSUME NEW a \in Attempts, charges[a] > 0
      PROVE  a \in Minted' /\ Approved(a)'
  BY <1>1, DoomIsForEver DEF ChargedIsApproved
<1>2. ASSUME NEW c \in Attempts, NEW n \in Slots, SettlePayment(c, n),
             NEW a \in Attempts, charges'[a] > 0
      PROVE  a \in Minted' /\ Approved(a)'
  BY <1>1, <1>2, SettlesWhatIsApproved, Monotone
<1>3. ASSUME NEW a \in Attempts, charges'[a] > 0
      PROVE  a \in Minted' /\ Approved(a)'
  <2>1. CASE \E c \in Attempts, n \in Slots : SettlePayment(c, n)
    BY <1>2, <1>3, <2>1
  <2>2. CASE ~(\E c \in Attempts, n \in Slots : SettlePayment(c, n))
    BY <1>1, <1>3, <2>2, Frame
  <2> QED
    BY <2>1, <2>2
<1> QED
  BY <1>3 DEF ChargedIsApproved, Attempts

\* Nothing that every verifier agreed to was refused by one, unless it was outrun.
LEMMA ApprovedOrOutrun ==
  ASSUME WatchInv, TypeOK, [Next]_vars, NEW a \in Minted, Approved(a)', a \notin outrun'
  PROVE  ~Disapproved(a)
<1>1. \A s \in Servers : weighed'[s][a] = "agrees"
  BY DEF Approved, Agreed
<1> QED
  BY <1>1, Monotone DEF Disapproved

-----------------------------------------------------------------------------
(* What is over. *)

\* An attempt is over from the moment the loop is told it was refused.
LEMMA OverByRefusal ==
  ASSUME WatchInv, [WatchNext]_watchVars, UNCHANGED attempts,
         NEW a \in Minted, Over(a)', ~Over(a)
  PROVE  Refused /\ a = running
<1>1. LastAttempt' = LastAttempt /\ a # outstanding'
  BY DEF Over, LastAttempt
<1>2. CASE ending = "bought"
  <2>1. pc = "ended" /\ outstanding # a
    BY <1>2 DEF WatchInv, DeliveryInv, PairInStep, EndingIsHonest, Minted, NoAttempt
  <2>2. UNCHANGED ending
    BY <1>2, <2>1 DEF WatchNext, watchVars, Market, PriceMoves, AuthorisationRunsOut, Loop,
       TakeBaseline, BaselineFails, Cancel, Redeliver, StopExpired, QuoteBaseline, QuoteAgain,
       StopOutOfReach, MintFails, Mint, Bought, Unanswered, Refused, Ended, loopVars
  <2>3. a = LastAttempt
    BY <1>2, <2>1 DEF Over
  <2> QED
    BY <1>1, <1>2, <2>2, <2>3 DEF Over
<1>3. CASE ending # "bought"
  <2>1. a = outstanding
    BY <1>3 DEF Over
  <2>2. a # NoAttempt /\ a = Len(attempts)
    BY <2>1 DEF WatchInv, DeliveryInv, Minted, NoAttempt
  <2>3. ~(UNCHANGED outstanding)
    BY <1>1, <2>1
  <2>4. Bought \/ Refused
    BY <2>2, <2>3 DEF WatchNext, watchVars, Market, PriceMoves, AuthorisationRunsOut, Loop,
       TakeBaseline, BaselineFails, Cancel, Redeliver, StopExpired, QuoteBaseline, QuoteAgain,
       StopOutOfReach, MintFails, Mint, Unanswered, Ended, loopVars, trackerVars, BeginAttempt,
       FinishAttempt, IsRedelivery, WatchInv, HoldsWhatIsOutstanding
  <2>5. ~Bought
    BY <1>1, <2>2 DEF Over, Bought, Return, LastAttempt
  <2> QED
    BY <2>1, <2>4, <2>5, InDelivery DEF Refused
<1> QED
  BY <1>2, <1>3
\* The loop is told of a refusal by a verifier that will not settle the attempt,
\* with a receipt that says so.
LEMMA RefusalIsHeard ==
  ASSUME SingleUseFacts, [Next]_vars, Refused
  PROVE  /\ pc = "delivering" /\ running \in Minted /\ Doomed(running)
         /\ \E s \in Servers : rejections' = [rejections EXCEPT ![running] = @ \union {s}]
<1> USE DEF SingleUseFacts
<1>1. /\ pc = "delivering" /\ outstanding = running /\ running # NoAttempt
      /\ running \in Minted /\ running \in Attempts
      /\ outstanding' = NoAttempt
  <2>1. pc = "delivering" /\ outstanding' = NoAttempt
    BY DEF Refused, FinishAttempt
  <2> QED
    BY <2>1, InDelivery, AttemptsAreBounded DEF Minted
<1>2. HearVerdict
  <2>1. ~(UNCHANGED watchVars)
    BY <1>1 DEF watchVars, trackerVars
  <2>2. ~Market /\ ~Loop /\ ~Mint /\ ~Ended
    BY <1>1 DEF Market, PriceMoves, AuthorisationRunsOut, Loop, TakeBaseline, BaselineFails,
       Cancel, Redeliver, StopExpired, QuoteBaseline, QuoteAgain, StopOutOfReach, MintFails,
       Mint, Ended, trackerVars, watchVars
  <2>3. ~GiveUp
    BY <1>1 DEF GiveUp, Delivered, Unanswered, FinishAttempt
  <2> QED
    BY <2>1, <2>2, <2>3, VerdictsComeFromTheClient
<1> DEFINE s == waiting.server
           answer == req[s][running][waiting.slot]
<1>3. s \in {"cp", "merchant"} /\ waiting.slot \in Slots
  BY <1>2 DEF HearVerdict, OneCall, TypeOK, Call, Servers
<1>4. /\ answer \in Answers /\ ~(s = "cp" /\ answer = "ok")
      /\ rejections' = [rejections EXCEPT ![running] = @ \union rejectionsIn(s, answer)]
      /\ Delivered(verdictOf(answer))
  BY <1>2 DEF HearVerdict
<1>5. answer \in MayBe(s, running)
  BY <1>1, <1>3 DEF SoundNet, Servers
<1> HIDE DEF s, answer
<1>6. verdictOf(answer) = "Rejected"
  <2>1. ~Unanswered /\ ~Bought
    BY <1>1 DEF Unanswered, Bought, FinishAttempt, Refused, Return
  <2> QED
    BY <1>4, <2>1, VerdictOfType DEF Delivered, Verdict
<1>7. answer \in {"refused", "declined"} /\ Doomed(running)
  <2>1. answer \notin {"malformed", "in_flight"} /\ answer # "free"
    BY <1>1, <1>3, <1>4, <1>5, WhatIsSound DEF Servers, Answers
  <2>2. answer \in {"refused", "declined"}
    BY <1>4, <1>6, <2>1 DEF verdictOf, Answers
  <2> QED
    BY <1>1, <1>3, <1>5, <2>1, <2>2, WhatIsSound DEF Servers
<1>8. \E t \in Servers : rejectionsIn(s, answer) = {t}
  BY <1>3, <1>7 DEF rejectionsIn, Servers
<1> QED
  BY <1>1, <1>4, <1>7, <1>8

LEMMA ReceiptsOnlyGrow ==
  ASSUME TypeOK, [Next]_vars, NEW a \in Attempts, rejections[a] # {}
  PROVE  rejections'[a] # {}
<1>1. CASE HearVerdict
  <2>1. PICK r : rejections' = [rejections EXCEPT ![running] = @ \union r]
    BY <1>1 DEF HearVerdict
  <2> QED
    BY <2>1 DEF TypeOK
<1> QED
  BY <1>1, Frame

LEMMA OverStep ==
  ASSUME SingleUseFacts, OverIsDoomed, [Next]_vars
  PROVE  OverIsDoomed'
<1> USE DEF SingleUseFacts
<1>0. [WatchNext]_watchVars /\ Minted \subseteq Attempts
  BY StepIsWatchStep, MintedAreAttempts
<1>1. ASSUME NEW a \in Minted, Over(a)
      PROVE  Doomed(a)' /\ rejections'[a] # {}
  BY <1>0, <1>1, DoomIsForEver, ReceiptsOnlyGrow DEF OverIsDoomed
<1>2. CASE MintAttempt
  <2>1. \A a \in Minted : Over(a)
    BY <1>2, Minting DEF Over
  <2>2. \A a \in Minted' : Over(a)' => a \in Minted
    BY <1>2, Minting DEF Over
  <2>3. pc' # "minting"
    BY <1>2, Minting
  <2> QED
    BY <1>1, <2>1, <2>2, <2>3 DEF OverIsDoomed
<1>3. CASE ~MintAttempt
  <2>0. UNCHANGED attempts /\ Minted' = Minted
    BY <1>3, Frame DEF Minted
  <2>1. ASSUME NEW a \in Minted, Over(a)'
        PROVE  Doomed(a)' /\ rejections'[a] # {}
    <3>1. CASE ~Over(a)
      <4>1. Refused /\ a = running
        BY <1>0, <2>0, <2>1, <3>1, OverByRefusal
      <4>2. Doomed(a) /\ rejections'[a] # {}
        BY <1>0, <4>1, RefusalIsHeard DEF TypeOK
      <4> QED
        BY <4>2, DoomIsForEver
    <3> QED
      BY <1>1, <3>1
  <2>2. ASSUME pc' = "minting", NEW a \in Minted
        PROVE  Disapproved(a)'
    <3>1. \/ pc = "minting"
          \/ pc = "looping" /\ pending = NoAttempt /\ ~expired
      BY <1>0, <2>2 DEF WatchNext, watchVars, loopVars, Market, PriceMoves, AuthorisationRunsOut,
         Loop, Return, TakeBaseline, BaselineFails, Cancel, Redeliver, StopExpired, QuoteBaseline,
         QuoteAgain, StopOutOfReach, MintFails, Mint, Bought, Unanswered, Refused, Ended
    <3>2. CASE pc = "minting"
      BY <3>2, DoomIsForEver DEF OverIsDoomed
    <3>3. CASE pc = "looping" /\ pending = NoAttempt /\ ~expired
      <4>1. outstanding = NoAttempt /\ ending # "bought"
        BY <3>3 DEF WatchInv, HoldsWhatIsOutstanding, DeliveryInv
      <4>2. Over(a)
        BY <4>1 DEF Over, Minted, NoAttempt
      <4>3. Disapproved(a)
        BY <3>3, <4>2 DEF OverIsDoomed, Doomed
      <4> QED
        BY <4>3, DoomIsForEver
    <3> QED
      BY <3>1, <3>2, <3>3
  <2> QED
    BY <2>0, <2>1, <2>2 DEF OverIsDoomed
<1> QED
  BY <1>2, <1>3

-----------------------------------------------------------------------------
(* One settlement under one authorisation. *)

\* Only the newest attempt can still be settled.
LEMMA TheNewestAtMost ==
  ASSUME WatchInv, OverIsDoomed, NEW a \in Minted, ~Doomed(a)
  PROVE  a = Len(attempts) /\ (a = outstanding \/ ending = "bought")
<1>1. ~Over(a)
  BY DEF OverIsDoomed
<1> QED
  BY <1>1 DEF Over, WatchInv, DeliveryInv, LastAttempt, Minted, NoAttempt

LEMMA OnceStep ==
  ASSUME SingleUseFacts, ChargedIsApproved, OverIsDoomed, ChargedOnceUnlessOutrun, [Next]_vars
  PROVE  ChargedOnceUnlessOutrun'
<1> USE DEF SingleUseFacts
<1>1. ASSUME NEW c \in Attempts, NEW n \in Slots, SettlePayment(c, n),
             NEW a \in Attempts, charges'[a] > 0, a \notin outrun'
      PROVE  a = Len(attempts)
  <2>1. a \in Minted /\ Approved(a)' /\ ~expired
    BY <1>1, SettlesWhatIsApproved, DoomIsForEver DEF ChargedIsApproved
  <2>2. ~Doomed(a)
    BY <1>1, <2>1, ApprovedOrOutrun DEF Doomed
  <2> QED
    BY <2>1, <2>2, TheNewestAtMost
<1>2. ASSUME NEW c \in Attempts, NEW n \in Slots, SettlePayment(c, n),
             NEW b \in Attempts, charges'[b] > 0
      PROVE  b <= Len(attempts)
  <2>1. b \in Minted
    BY <1>2, SettlesWhatIsApproved DEF ChargedIsApproved
  <2> QED
    BY <2>1 DEF Minted
<1>3. CASE \E c \in Attempts, n \in Slots : SettlePayment(c, n)
  <2> SUFFICES ASSUME NEW a \in Attempts, NEW b \in Attempts,
                      charges'[a] > 0, charges'[b] > 0, a < b, a \notin outrun'
               PROVE  FALSE
    BY DEF ChargedOnceUnlessOutrun, Attempts
  <2>1. a = Len(attempts) /\ b <= Len(attempts)
    BY <1>1, <1>2, <1>3
  <2>2. a \in Nat /\ b \in Nat
    BY DEF Attempts
  <2> QED
    BY <2>1, <2>2
<1>4. CASE ~(\E c \in Attempts, n \in Slots : SettlePayment(c, n))
  BY <1>4, Frame, Monotone DEF ChargedOnceUnlessOutrun, Attempts
<1> QED
  BY <1>3, <1>4

LEMMA PromptStep ==
  ASSUME Prompt, PromptInv, [Next]_vars
  PROVE  PromptInv'
<1>1. SingleUseFacts
  BY DEF PromptInv, SingleUseFacts, BoughtInv, ChargeInv, PurchaseInv
<1>2. BoughtInv'
  BY BoughtStep DEF PromptInv
<1> QED
  BY <1>1, <1>2, SoundStep, OneCallStep, HonouredStep, CredentialStep, ChargedStep, OverStep,
     OnceStep DEF PromptInv

LEMMA InitiallyPrompt ==
  ASSUME Init
  PROVE  PromptInv
<1>1. BoughtInv
  BY InitiallyBought
<1>2. Len(attempts) = 0 /\ Minted = {} /\ pc = "starting"
  BY DEF Init, WatchInit, Minted
<1>3. SoundNet
  BY FreeIsSound DEF Init, SoundNet
<1>4. OneCall
  BY DEF Init, OneCall, Servers
<1> QED
  BY <1>1, <1>2, <1>3, <1>4 DEF Init, PromptInv, Honoured, CredentialIsApproval,
     ChargedIsApproved, OverIsDoomed, ChargedOnceUnlessOutrun

LEMMA PromptAlways ==
  ASSUME Prompt
  PROVE  Spec => []PromptInv
BY InitiallyPrompt, PromptStep, PTL DEF Spec

\* One authorisation is not spent against two checkouts, whatever calls are lost and
\* however often the processor restarts and its documents are presented again: of two
\* attempts that are settled, some verifier came to two verdicts on the earlier one
\* (core/authz/lifecycle.go, Next; agent/watch.go; roles/merchant/service.go, examineChain).
THEOREM OneSettlementPerAuthorisation ==
  ASSUME Prompt
  PROVE  Spec => []ChargedOnceUnlessOutrun
<1>1. PromptInv => ChargedOnceUnlessOutrun
  BY DEF PromptInv
<1> QED
  BY <1>1, PromptAlways, PTL

\* Where the user's limits name no time, nothing is outrun, and no two attempts under
\* one authorisation are settled (core/authz/lifecycle.go, "What that buys is one bug").
THEOREM OneSettlementWithoutHours ==
  ASSUME Prompt, "hours" \notin Faults
  PROVE  Spec => []AuthorisationChargedOnce
<1>1. Init => outrun = {}
  BY DEF Init
<1>2. outrun = {} /\ [Next]_vars => (outrun = {})'
  BY WhoWeighs DEF verdictVars, Weighs
<1>3. ChargedOnceUnlessOutrun /\ outrun = {} => AuthorisationChargedOnce
  BY DEF ChargedOnceUnlessOutrun, AuthorisationChargedOnce, Attempts
<1> QED
  BY <1>1, <1>2, <1>3, OneSettlementPerAuthorisation, PTL DEF Spec

\* An attempt is over only on a verifier's signed word: each one that did not buy
\* left its rejection receipt with the agent (agent/chain.go, verdictOf and keep).
THEOREM RejectionsAreReceipted ==
  ASSUME Prompt
  PROVE  Spec => []RejectionIsReceipted
<1>1. PromptInv => RejectionIsReceipted
  BY DEF PromptInv, OverIsDoomed, RejectionIsReceipted, Over, Minted
<1> QED
  BY <1>1, PromptAlways, PTL
-----------------------------------------------------------------------------
(* The refinement. *)

paidFor == {a \in Attempts : charges[a] > 0}

\* As long as the authorisation stands, the newest attempt is all that can have been
\* paid, but for what was outrun.
LEMMA OnlyTheNewestIsPaid ==
  ASSUME PromptInv, ~expired, NEW a \in Attempts, charges[a] > 0, a \notin outrun
  PROVE  a \in Minted /\ ~Disapproved(a) /\ a = Len(attempts)
<1>1. a \in Minted /\ Approved(a)
  BY DEF PromptInv, ChargedIsApproved
<1>2. ~Disapproved(a)
  BY <1>1 DEF Approved, Agreed, Disapproved
<1> QED
  BY <1>1, <1>2, TheNewestAtMost DEF PromptInv, Doomed, BoughtInv, ChargeInv, PurchaseInv

LEMMA SettlingIsPaying ==
  ASSUME Prompt, PromptInv, [Next]_vars, NEW a \in Attempts, NEW n \in Slots, SettlePayment(a, n)
  PROVE  \/ Authorisation!Pay \/ Authorisation!Overtake
         \/ UNCHANGED <<checkout, paidFor, expired, outrun>>
<1>0. SingleUseFacts
  BY DEF PromptInv, SingleUseFacts, BoughtInv, ChargeInv, PurchaseInv
<1>1. /\ UNCHANGED <<checkout, expired>> /\ ~expired
      /\ charges \in [Attempts -> Nat] /\ charges' = [charges EXCEPT ![a] = @ + 1]
  BY <1>0 DEF SettlePayment, Authorises, watchVars, trackerVars, marketVars, SingleUseFacts, TypeOK
<1>2. a \in Minted /\ Approved(a)' /\ outrun' \in {outrun, outrun \union {a}}
  BY <1>0, SettlesWhatIsApproved DEF SingleUseFacts
<1>3. CASE charges[a] > 0
  <2>1. UNCHANGED paidFor
    BY <1>1, <1>3 DEF paidFor
  <2> QED
    BY <1>1, <1>2, <2>1 DEF Authorisation!Overtake, paidFor
<1>4. CASE ~(charges[a] > 0)
  <2>1. paidFor' = paidFor \union {a} /\ a \in Attempts \ paidFor
    BY <1>1, <1>4 DEF paidFor
  <2>2. a \notin outrun' => checkout = "AwaitingReceipt" /\ paidFor \subseteq outrun
    <3> SUFFICES ASSUME a \notin outrun'
                 PROVE  checkout = "AwaitingReceipt" /\ paidFor \subseteq outrun
      OBVIOUS
    <3>1. ~Doomed(a)
      BY <1>0, <1>1, <1>2, ApprovedOrOutrun DEF Doomed, SingleUseFacts
    <3>2. a = Len(attempts) /\ (a = outstanding \/ ending = "bought")
      BY <1>0, <1>2, <3>1, TheNewestAtMost DEF PromptInv, SingleUseFacts
    <3>3. a = outstanding /\ checkout = "AwaitingReceipt"
      BY <1>2, <3>2, <1>4 DEF PromptInv, BoughtInv, BoughtMeansCharged, LastAttempt, ChargeInv,
         PurchaseInv, WatchInv, PairInStep, DeliveryInv, Minted, NoAttempt
    <3>4. ASSUME NEW b \in paidFor, b \notin outrun
          PROVE  FALSE
      BY <1>1, <1>4, <3>2, <3>4, OnlyTheNewestIsPaid DEF paidFor
    <3> QED
      BY <3>3, <3>4
  <2> QED
    BY <1>1, <1>2, <2>1, <2>2 DEF Authorisation!Pay, paidFor
<1> QED
  BY <1>3, <1>4

LEMMA HearingAVerdict ==
  ASSUME Prompt, PromptInv, [Next]_vars, UNCHANGED <<charges, outrun>>,
         Bought \/ Refused
  PROVE  Authorisation!Accept \/ Authorisation!Reject
<1>0. SingleUseFacts /\ WatchInv /\ TypeOK
  BY DEF PromptInv, SingleUseFacts, BoughtInv, ChargeInv, PurchaseInv
<1>1. /\ pc = "delivering" /\ checkout = "AwaitingReceipt" /\ running = Len(attempts)
      /\ running \in Attempts
  BY <1>0, InDelivery, AttemptsAreBounded DEF Bought, Refused
<1>2. UNCHANGED <<paidFor, expired>>
  BY DEF paidFor, Bought, Refused, marketVars
<1>3. CASE Bought
  <2>1. charges[running] > 0
    BY <1>0, <1>1, <1>3, BoughtIsHeard DEF PromptInv, BoughtInv, OkMeansCharged
  <2>2. checkout' = "Spent"
    BY <1>1, <1>3, NextStates DEF Bought, FinishAttempt
  <2> QED
    BY <1>1, <1>2, <2>1, <2>2 DEF Authorisation!Accept, paidFor
<1>4. CASE Refused
  <2>1. Doomed(running)
    BY <1>0, <1>4, RefusalIsHeard
  <2>2. paidFor \subseteq outrun \/ expired
    BY <1>1, <2>1, OnlyTheNewestIsPaid DEF Doomed, paidFor
  <2>3. checkout' = "Ready"
    BY <1>1, <1>4, NextStates DEF Refused, FinishAttempt
  <2> QED
    BY <1>1, <1>2, <2>2, <2>3 DEF Authorisation!Reject, paidFor
<1> QED
  BY <1>3, <1>4

LEMMA StepIsAuthorised ==
  ASSUME Prompt, PromptInv, [Next]_vars
  PROVE  Authorisation!Next \/ UNCHANGED <<checkout, paidFor, expired, outrun>>
<1>0. WatchInv /\ TypeOK /\ [WatchNext]_watchVars
  BY StepIsWatchStep DEF PromptInv, BoughtInv, ChargeInv, PurchaseInv
<1>1. CASE \E a \in Attempts, n \in Slots : SettlePayment(a, n)
  BY <1>1, SettlingIsPaying DEF Authorisation!Next
<1>2. CASE UNCHANGED charges /\ ~(UNCHANGED verdictVars)
  <2>1. UNCHANGED <<checkout, paidFor, expired>>
    BY <1>2, WhoWeighs DEF paidFor, watchVars, trackerVars, marketVars
  <2>2. PICK a \in Attempts : outrun' \in {outrun, outrun \union {a}}
    BY <1>0, <1>2, WhoWeighs, WeighingTells
  <2> QED
    BY <2>1, <2>2 DEF Authorisation!Next, Authorisation!Overtake, paidFor
<1>3. CASE UNCHANGED charges /\ UNCHANGED verdictVars
  <2>1. UNCHANGED <<paidFor, outrun>>
    BY <1>3 DEF paidFor, verdictVars
  <2>2. CASE MintAttempt
    <3>1. paidFor \subseteq outrun
      BY <1>0, <2>2, Minting DEF PromptInv, OverIsDoomed, ChargedIsApproved, paidFor, Approved,
         Agreed, Disapproved
    <3> QED
      BY <1>0, <2>1, <2>2, <3>1, Minting DEF Authorisation!Next, Authorisation!Present, paidFor
  <2>3. CASE Bought \/ Refused
    BY <1>3, <2>1, <2>3, HearingAVerdict DEF Authorisation!Next
  <2>4. CASE AuthorisationRunsOut
    BY <2>1, <2>4 DEF AuthorisationRunsOut, trackerVars, Authorisation!Next, Authorisation!RunOut,
       paidFor
  <2>5. CASE ~MintAttempt /\ ~Bought /\ ~Refused /\ ~AuthorisationRunsOut
    <3>1. ~Mint
      BY <1>0, <2>5, Frame DEF Mint, WatchInv, WatchTypeOK
    <3>2. UNCHANGED <<checkout, expired>>
      BY <1>0, <2>5, <3>1 DEF WatchNext, watchVars, trackerVars, loopVars, marketVars, Market,
         PriceMoves, Loop, TakeBaseline, BaselineFails, Cancel, Redeliver, StopExpired,
         QuoteBaseline, QuoteAgain, StopOutOfReach, MintFails, Unanswered, Ended, BeginAttempt,
         FinishAttempt, IsRedelivery, WatchInv, HoldsWhatIsOutstanding
    <3> QED
      BY <2>1, <3>2
  <2> QED
    BY <2>2, <2>3, <2>4, <2>5
<1> QED
  BY <1>1, <1>2, <1>3, Frame

\* A delegated purchase, seen from outside, is one authorisation used once: paid at
\* most once, while its attempt is unanswered and before it runs out, and never
\* presented anew after that (docs of core/authz/lifecycle.go; agent/watch.go, Run).
THEOREM PurchaseImplementsSingleUse ==
  ASSUME Prompt
  PROVE  Spec => ImplementsSingleUse
<1>1. Init => Authorisation!Init
  BY DEF Init, WatchInit, TrackerInit, Authorisation!Init
<1>2. PromptInv /\ [Next]_vars => [Authorisation!Next]_(Authorisation!authVars)
  BY StepIsAuthorised DEF Authorisation!authVars, paidFor
<1> QED
  BY <1>1, <1>2, PromptAlways, PTL DEF Spec, ImplementsSingleUse, Authorisation!Spec
=============================================================================
