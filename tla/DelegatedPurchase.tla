-------------------------- MODULE DelegatedPurchase --------------------------
(***************************************************************************)
(* One delegated (Human Not Present) purchase from end to end: the watch   *)
(* of module Watch, the Credential Provider, the merchant and the Merchant *)
(* Payment Processor, and the HTTP calls between them.                     *)
(*                                                                         *)
(* The agent funds an attempt at the provider, then presents it to the     *)
(* merchant, which presents the payment to the processor inside the same   *)
(* request.  Every POST passes the receiver's idempotency middleware.      *)
(* Every receiver checks the nonce of the delegation against its own       *)
(* challenger before anything that could end in a receipt.                 *)
(*                                                                         *)
(* All requests of an attempt to one server carry the same body, hence the *)
(* same idempotency key, so a key is a pair <<server, attempt>>.  Slots    *)
(* are the copies of such a request that exist at once: the one its caller *)
(* waits for, and older ones the caller gave up on.                        *)
(***************************************************************************)
EXTENDS Watch, FiniteSets

CONSTANTS
  Slots,        \* copies of one request that may exist at once
  NoSlot,       \* none of them
  Faults        \* what may go wrong: see FaultKinds

Servers == {"cp", "merchant", "mpp"}

\* "loss"  a request or an answer is lost
\* "slow"  the agent's client times out while its request is still being handled
\* "lapse" the challenge window closes on an attempt still outstanding
\* "hours" the user's limits name a time, which passes between two looks at them
\* a server's name: that server may restart, losing records and challenge key
FaultKinds == {"loss", "slow", "lapse", "hours"} \union Servers

ASSUME SlotsAssumption == IsFiniteSet(Slots) /\ Slots # {} /\ NoSlot \notin Slots
ASSUME FaultsAssumption == Faults \subseteq FaultKinds

VARIABLES
  req,          \* where each copy of each request is
  waiting,      \* the copy the agent's client is waiting on
  downstream,   \* per attempt, the copy the merchant's handler is waiting on
  record,       \* the idempotency record of each key
  honoured,     \* the server's challenger still honours the attempt's nonce
  weighed,      \* what the server's handler first made of the attempt's documents
  outrun,       \* history: attempts on which a later run came to another verdict
  credential,   \* the attempt holds its payment credential
  rejections,   \* servers whose rejection receipt the attempt holds
  charges       \* settlements the processor made for the attempt

netVars == <<req, waiting, downstream>>
verdictVars == <<weighed, outrun>>
serverVars == <<record, honoured, verdictVars, charges>>
deliveryVars == <<credential, rejections>>
vars == <<watchVars, netVars, serverVars, deliveryVars>>

\* A step is attempted at most once (EachStepAttemptedOnce), so NumSteps bounds
\* the attempts without cutting anything off.
Attempts == 1 .. NumSteps

NoCall == [server |-> "none", slot |-> NoSlot]
Call == [server : Servers, slot : Slots] \union {NoCall}

\* Answers a receiver gives.  The first three come with signed receipts.
\*   ok           2xx: a credential, or a settled purchase
\*   refused      422 with the receiver's own rejection receipt
\*   declined     422 from the merchant, with the processor's rejection receipt
\*   malformed    400 problem document: the nonce is not one it still honours
\*   in_flight    409 problem document: the key is held by a running attempt
\*   unavailable  5xx problem document
Answers == {"ok", "refused", "declined", "malformed", "in_flight", "unavailable"}

\* What the middleware remembers: everything below 500 the handler wrote.
Remembered == {"ok", "refused", "declined", "malformed"}

\* free: no such copy.  sent: on the wire.  running: in the handler.
\* calling: in the merchant's handler, waiting for the processor.
\* An answer: on its way back to a caller that still waits for it.
Progress == {"free", "sent", "running", "calling"} \union Answers

TypeOK ==
  /\ WatchTypeOK
  /\ req \in [Servers -> [Attempts -> [Slots -> Progress]]]
  /\ waiting \in Call
  /\ downstream \in [Attempts -> Slots \union {NoSlot}]
  /\ record \in [Servers -> [Attempts -> {"free", "claimed"} \union Remembered]]
  /\ honoured \in [Servers -> [Attempts -> BOOLEAN]]
  /\ weighed \in [Servers -> [Attempts -> {"not_yet", "agrees", "refuses"}]]
  /\ outrun \in SUBSET Attempts
  /\ credential \in [Attempts -> BOOLEAN]
  /\ rejections \in [Attempts -> SUBSET Servers]
  /\ charges \in [Attempts -> Nat]

Init ==
  /\ WatchInit
  /\ req = [s \in Servers |-> [a \in Attempts |-> [n \in Slots |-> "free"]]]
  /\ waiting = NoCall
  /\ downstream = [a \in Attempts |-> NoSlot]
  /\ record = [s \in Servers |-> [a \in Attempts |-> "free"]]
  /\ honoured = [s \in Servers |-> [a \in Attempts |-> FALSE]]
  /\ weighed = [s \in Servers |-> [a \in Attempts |-> "not_yet"]]
  /\ outrun = {}
  /\ credential = [a \in Attempts |-> FALSE]
  /\ rejections = [a \in Attempts |-> {}]
  /\ charges = [a \in Attempts |-> 0]

-----------------------------------------------------------------------------
(* The agent. *)

\* Delegate: three challenges are fetched and four chains signed over them.
MintAttempt ==
  LET a == Len(attempts) + 1 IN
  /\ Mint
  /\ honoured' = [s \in Servers |-> [honoured[s] EXCEPT ![a] = TRUE]]
  /\ UNCHANGED <<netVars, record, verdictVars, charges, deliveryVars>>

Send(s, a) ==
  \E n \in Slots :
    /\ req[s][a][n] = "free"
    /\ req' = [req EXCEPT ![s][a][n] = "sent"]
    /\ waiting' = [server |-> s, slot |-> n]

\* Deliver: fund unless a credential is held already, then settle.
Fund ==
  /\ pc = "delivering" /\ waiting = NoCall
  /\ ~credential[running]
  /\ Send("cp", running)
  /\ UNCHANGED <<watchVars, downstream, serverVars, deliveryVars>>

Settle ==
  /\ pc = "delivering" /\ waiting = NoCall
  /\ credential[running]
  /\ Send("merchant", running)
  /\ UNCHANGED <<watchVars, downstream, serverVars, deliveryVars>>

\* Slip: whatever is not a success is a refusal.
verdictOfStatus(answer) == IF answer = "ok" THEN "Accepted" ELSE "Rejected"

\* Slip: a problem document is nobody's answer, whatever its status.
verdictOfReceipt(answer) ==
  CASE answer = "ok"                        -> "Accepted"
    [] answer \in {"refused", "declined"}   -> "Rejected"
    [] OTHER                                -> "Unanswered"

\* Client.call turns every 4xx into ErrRefused and every 5xx into an error that
\* is not a refusal; verdictOf reads the first as a rejection, the second as
\* nobody having answered.  No receiver answers 2xx to what it did not settle,
\* which verdictOf would read as a rejection too.
verdictOf(answer) ==
  CASE answer = "ok"          -> "Accepted"
    [] answer = "unavailable" -> "Unanswered"
    [] OTHER                  -> "Rejected"

\* Slip: only the answering server's own receipt is kept.
rejectionsOf(server, answer) == IF answer = "refused" THEN {server} ELSE {}

\* Delegated.keep: the rejection receipts an answer carries.
rejectionsIn(server, answer) ==
  CASE answer = "refused"  -> {server}
    [] answer = "declined" -> {"mpp"}
    [] OTHER               -> {}

Freed(s, a, n) == [req EXCEPT ![s][a][n] = "free"]

\* The Credential Provider's 200 does not end the delivery.
HearCredential ==
  LET n == waiting.slot IN
  /\ waiting.server = "cp" /\ req["cp"][running][n] = "ok"
  /\ credential' = [credential EXCEPT ![running] = TRUE]
  /\ waiting' = NoCall
  /\ req' = Freed("cp", running, n)
  /\ UNCHANGED <<watchVars, downstream, serverVars, rejections>>

\* Any other answer does, and its receipts are collected before it is acted on.
HearVerdict ==
  LET s == waiting.server
      n == waiting.slot IN
  /\ waiting # NoCall
  /\ LET answer == req[s][running][n] IN
     /\ answer \in Answers
     /\ ~(s = "cp" /\ answer = "ok")
     /\ rejections' = [rejections EXCEPT ![running] = @ \union rejectionsIn(s, answer)]
     /\ Delivered(verdictOf(answer))
  /\ waiting' = NoCall
  /\ req' = Freed(s, running, n)
  /\ UNCHANGED <<downstream, serverVars, credential>>

\* The connection failed, or the client's own timeout ran out.  The copy itself
\* may still be on the wire or in the receiver's handler.
GiveUp ==
  LET s == waiting.server
      n == waiting.slot IN
  /\ waiting # NoCall
  /\ \/ req[s][running][n] = "free"
     \/ "slow" \in Faults /\ req[s][running][n] \notin Answers
  /\ Delivered("Unanswered")
  /\ waiting' = NoCall
  /\ UNCHANGED <<req, downstream, serverVars, deliveryVars>>

-----------------------------------------------------------------------------
(* The network. *)

Lose(s, a, n) ==
  /\ "loss" \in Faults
  /\ req[s][a][n] \in {"sent"} \union Answers
  /\ req' = Freed(s, a, n)
  /\ UNCHANGED <<watchVars, waiting, downstream, serverVars, deliveryVars>>

-----------------------------------------------------------------------------
(* The receivers. *)

\* Does a caller still wait for this copy?
Awaited(s, a, n) ==
  IF s = "mpp" THEN downstream[a] = n
  ELSE running = a /\ waiting = [server |-> s, slot |-> n]

\* An answer nobody waits for reaches nobody.
Reply(s, a, n, answer) ==
  req' = [req EXCEPT ![s][a][n] = IF Awaited(s, a, n) THEN answer ELSE "free"]

\* Slip: the middleware remembers an outage as if it were a verdict.
FinishRemembering(s, a, n, answer) ==
  /\ Reply(s, a, n, answer)
  /\ record' = [record EXCEPT ![s][a] = answer]

\* The handler returned: the middleware remembers the answer, or hands the key
\* back for the next attempt to run the handler from the top.
Finish(s, a, n, answer) ==
  /\ Reply(s, a, n, answer)
  /\ record' = [record EXCEPT ![s][a] = IF answer \in Remembered THEN answer ELSE "free"]

\* Slip: only a recorded answer stops a repeat; one in flight does not.
ArriveTwice(s, a, n) ==
  /\ req[s][a][n] = "sent"
  /\ CASE record[s][a] \in {"free", "claimed"} ->
            /\ req' = [req EXCEPT ![s][a][n] = "running"]
            /\ record' = [record EXCEPT ![s][a] = "claimed"]
       [] OTHER ->
            /\ Reply(s, a, n, record[s][a])
            /\ UNCHANGED record
  /\ UNCHANGED <<watchVars, waiting, downstream, honoured, verdictVars, charges, deliveryVars>>

\* The middleware takes the key, or answers on its own.
Arrive(s, a, n) ==
  /\ req[s][a][n] = "sent"
  /\ CASE record[s][a] = "free" ->
            /\ req' = [req EXCEPT ![s][a][n] = "running"]
            /\ record' = [record EXCEPT ![s][a] = "claimed"]
       [] record[s][a] = "claimed" ->
            /\ Reply(s, a, n, "in_flight")
            /\ UNCHANGED record
       [] OTHER ->
            /\ Reply(s, a, n, record[s][a])
            /\ UNCHANGED record
  /\ UNCHANGED <<watchVars, waiting, downstream, honoured, verdictVars, charges, deliveryVars>>

\* Challenge.Check comes before every verdict, and its refusal carries no receipt.
RejectNonce(s, a, n) ==
  /\ req[s][a][n] = "running"
  /\ ~honoured[s][a]
  /\ Finish(s, a, n, "malformed")
  /\ UNCHANGED <<watchVars, waiting, downstream, honoured, verdictVars, charges, deliveryVars>>

\* Every run of a handler weighs the user's limits afresh, as of its own clock.  Whether
\* the documents satisfy them is up to what was signed and to the verifier's
\* configuration, and the same on every run unless a limit names a time.
Weighs(s, a, verdict) ==
  /\ weighed[s][a] \in {"not_yet", verdict} \/ "hours" \in Faults
  /\ weighed' = [weighed EXCEPT ![s][a] = IF @ = "not_yet" THEN verdict ELSE @]
  /\ outrun' = IF weighed[s][a] \in {"not_yet", verdict} THEN outrun ELSE outrun \union {a}

Authorises(s, a) == ~expired /\ Weighs(s, a, "agrees")

\* Past the user's expiry every verifier refuses, whatever the limits say.
Declines(s, a) ==
  \/ expired /\ UNCHANGED verdictVars
  \/ ~expired /\ Weighs(s, a, "refuses")

Refuse(s, a, n) ==
  /\ req[s][a][n] = "running" /\ honoured[s][a]
  /\ Declines(s, a)
  /\ Finish(s, a, n, "refused")
  /\ UNCHANGED <<watchVars, waiting, downstream, honoured, charges, deliveryVars>>

\* Signing the receipt, or minting the credential, failed: a 503, and no effect.
CannotAnswer(s, a, n) ==
  /\ req[s][a][n] = "running" /\ honoured[s][a]
  /\ Finish(s, a, n, "unavailable")
  /\ UNCHANGED <<watchVars, waiting, downstream, honoured, verdictVars, charges, deliveryVars>>

IssueCredential(a, n) ==
  /\ req["cp"][a][n] = "running" /\ honoured["cp"][a]
  /\ Authorises("cp", a)
  /\ Finish("cp", a, n, "ok")
  /\ UNCHANGED <<watchVars, waiting, downstream, honoured, charges, deliveryVars>>

\* The merchant agrees and initiates payment inside the request it is serving.
InitiatePayment(a, n) ==
  /\ req["merchant"][a][n] = "running" /\ honoured["merchant"][a]
  /\ Authorises("merchant", a)
  /\ \E m \in Slots :
       /\ req["mpp"][a][m] = "free"
       /\ req' = [req EXCEPT !["merchant"][a][n] = "calling", !["mpp"][a][m] = "sent"]
       /\ downstream' = [downstream EXCEPT ![a] = m]
  /\ UNCHANGED <<watchVars, waiting, record, honoured, charges, deliveryVars>>

\* The processor settles: this is where the money moves.
SettlePayment(a, n) ==
  /\ req["mpp"][a][n] = "running" /\ honoured["mpp"][a]
  /\ Authorises("mpp", a)
  /\ charges' = [charges EXCEPT ![a] = @ + 1]
  /\ Finish("mpp", a, n, "ok")
  /\ UNCHANGED <<watchVars, waiting, downstream, honoured, deliveryVars>>

\* Slip: every answer that is not a settlement is the processor's decline.
settledAsDecline(answer) == IF answer = "ok" THEN "ok" ELSE "declined"

\* Slip: an answer that carries a receipt is taken for a settlement.
settledAsReceipt(answer) == IF answer \in {"ok", "refused"} THEN "ok" ELSE "unavailable"

\* HTTPProcessor.present: a settlement and a receipt are the processor's verdict;
\* a problem document of any status is not one, and the merchant answers 503.
settledAs(answer) ==
  CASE answer = "ok"      -> "ok"
    [] answer = "refused" -> "declined"
    [] OTHER              -> "unavailable"

\* The merchant's handler ends with this answer; the processor's copy m becomes p.
MerchantAnswers(a, n, answer, m, p) ==
  /\ req' = [req EXCEPT !["mpp"][a][m] = p,
                        !["merchant"][a][n] =
                           IF Awaited("merchant", a, n) THEN answer ELSE "free"]
  /\ record' = [record EXCEPT !["merchant"][a] =
                  IF answer \in Remembered THEN answer ELSE "free"]
  /\ downstream' = [downstream EXCEPT ![a] = NoSlot]
  /\ UNCHANGED <<watchVars, waiting, honoured, verdictVars, charges, deliveryVars>>

HearProcessor(a, n) ==
  LET m == downstream[a] IN
  /\ req["merchant"][a][n] = "calling"
  /\ req["mpp"][a][m] \in Answers
  /\ MerchantAnswers(a, n, settledAs(req["mpp"][a][m]), m, "free")

\* The call failed, or the agent hung up and the request's context with it.
ProcessorCallFails(a, n) ==
  LET m == downstream[a] IN
  /\ req["merchant"][a][n] = "calling"
  /\ req["mpp"][a][m] \notin Answers
  /\ MerchantAnswers(a, n, "unavailable", m, req["mpp"][a][m])

-----------------------------------------------------------------------------
(* Time and crashes. *)

\* The challenge window (2 minutes) closes on a delegation.
NonceLapses(s, a) ==
  /\ "lapse" \in Faults
  /\ honoured[s][a]
  /\ honoured' = [honoured EXCEPT ![s][a] = FALSE]
  /\ UNCHANGED <<watchVars, netVars, record, verdictVars, charges, deliveryVars>>

\* Slip: an answer is retained for less time than its nonce is honoured.
RecordLapsesEarly(s, a) ==
  /\ record[s][a] \in Remembered
  /\ record' = [record EXCEPT ![s][a] = "free"]
  /\ UNCHANGED <<watchVars, netVars, honoured, verdictVars, charges, deliveryVars>>

\* The retention window (24 hours) closes on an answer: it opened when the key
\* was claimed, after the nonce was issued, and outlasts the nonce.
RecordLapses(s, a) ==
  /\ record[s][a] \in Remembered
  /\ ~honoured[s][a]
  /\ record' = [record EXCEPT ![s][a] = "free"]
  /\ UNCHANGED <<watchVars, netVars, honoured, verdictVars, charges, deliveryVars>>

\* Slip: the challenge key outlives the process, the records do not.
RestartKeepingKey(s) ==
  /\ s \in Faults
  /\ req' = [r \in Servers |-> [a \in Attempts |-> [n \in Slots |->
              CASE r = s -> "free"
                [] s = "merchant" /\ r = "mpp" /\ req[r][a][n] \in Answers -> "free"
                [] OTHER -> req[r][a][n]]]]
  /\ record' = [record EXCEPT ![s] = [a \in Attempts |-> "free"]]
  /\ downstream' = IF s = "merchant" THEN [a \in Attempts |-> NoSlot] ELSE downstream
  /\ UNCHANGED <<watchVars, waiting, honoured, verdictVars, charges, deliveryVars>>

\* A server restarts.  Its connections are reset, its handlers are gone, and it
\* comes back with an empty idempotency store and a challenge key of its own.
Restart(s) ==
  /\ s \in Faults
  /\ req' = [r \in Servers |-> [a \in Attempts |-> [n \in Slots |->
              CASE r = s -> "free"
                [] s = "merchant" /\ r = "mpp" /\ req[r][a][n] \in Answers -> "free"
                [] OTHER -> req[r][a][n]]]]
  /\ record' = [record EXCEPT ![s] = [a \in Attempts |-> "free"]]
  /\ honoured' = [honoured EXCEPT ![s] = [a \in Attempts |-> FALSE]]
  /\ downstream' = IF s = "merchant" THEN [a \in Attempts |-> NoSlot] ELSE downstream
  /\ UNCHANGED <<watchVars, waiting, verdictVars, charges, deliveryVars>>

-----------------------------------------------------------------------------

\* The loop's own steps, which touch no counterparty this module follows.
Others == UNCHANGED <<netVars, serverVars, deliveryVars>>

AgentNext == Fund \/ Settle \/ HearCredential \/ HearVerdict \/ GiveUp

ServerStep(s, a, n) ==
  \/ Arrive(s, a, n)
  \/ RejectNonce(s, a, n) \/ Refuse(s, a, n) \/ CannotAnswer(s, a, n)

HandlerStep(a, n) ==
  \/ IssueCredential(a, n)
  \/ InitiatePayment(a, n) \/ HearProcessor(a, n) \/ ProcessorCallFails(a, n)
  \/ SettlePayment(a, n)

Next ==
  \/ Market /\ Others
  \/ Loop /\ Others
  \/ MintAttempt
  \/ AgentNext
  \/ \E s \in Servers, a \in Attempts, n \in Slots : ServerStep(s, a, n)
  \/ \E a \in Attempts, n \in Slots : HandlerStep(a, n)
  \/ \E s \in Servers, a \in Attempts, n \in Slots : Lose(s, a, n)
  \/ \E s \in Servers, a \in Attempts : NonceLapses(s, a) \/ RecordLapses(s, a)
  \/ \E s \in Servers : Restart(s)
  \/ Ended /\ Others

Spec == Init /\ [][Next]_vars

-----------------------------------------------------------------------------
(* Fairness: the loop, the client and the handlers keep running; a request  *)
(* repeated for ever is not lost or given up on every time, nor does every  *)
(* handling of it end in a crash, nor is every answer lost; and a nonce     *)
(* does not outlive its window.                                             *)

Working ==
  \/ Loop /\ Others
  \/ MintAttempt
  \/ AgentNext
  \/ \E s \in Servers, a \in Attempts, n \in Slots : ServerStep(s, a, n)
  \/ \E a \in Attempts, n \in Slots : HandlerStep(a, n)

Fairness ==
  /\ WF_vars(Working)
  /\ SF_vars(HearCredential \/ HearVerdict)
  /\ \A s \in {"cp", "merchant"} :
       /\ WF_vars(\E a \in Attempts : NonceLapses(s, a))
       /\ SF_vars(\E a \in Attempts, n \in Slots : Awaited(s, a, n) /\ Arrive(s, a, n))
       /\ SF_vars(\E a \in Attempts, n \in Slots : Awaited(s, a, n) /\ RejectNonce(s, a, n))

FairSpec == Spec /\ Fairness

-----------------------------------------------------------------------------
(* Properties. *)

\* One attempt is settled at most once at the processor, however often it is
\* re-delivered, whatever is lost, and whichever server restarts when: while the
\* nonce is honoured the record answers the repeat, and a processor that lost its
\* records no longer honours the nonce (agent/watch.go, "What happens when a
\* delivery does not answer").
AttemptChargedOnce == \A a \in Attempts : charges[a] <= 1

\* One authorisation is not spent against two checkouts: no two attempts under
\* it are both settled (core/authz/lifecycle.go, "What that buys is one bug").
AuthorisationChargedOnce ==
  \A a, b \in Attempts : charges[a] > 0 /\ charges[b] > 0 => a = b

\* And where they are, some verifier that ran its handler twice on the earlier one came
\* to two verdicts on it: as long as no limit's own time passes between two runs,
\* neither lost answers nor the processor's restarts get a second attempt settled
\* (roles/merchant/service.go, settle; agent/watch.go, "What happens when a delivery
\* does not answer").
ChargedOnceUnlessOutrun ==
  \A a, b \in Attempts : charges[a] > 0 /\ charges[b] > 0 /\ a < b => a \in outrun

\* A mandate leaves AwaitingReceipt for Ready only on a rejection receipt: every
\* attempt that is over and did not buy left its receipt with the agent
\* (agent/chain.go on verdictOf, "every 4xx on this path carries a signed receipt").
RejectionIsReceipted ==
  \A a \in 1 .. Len(attempts) :
    a # outstanding /\ ~(ending = "bought" /\ a = LastAttempt) => rejections[a] # {}

\* The mandates are spent only on a settlement that happened.
BoughtMeansCharged == checkout = "Spent" => charges[LastAttempt] > 0

\* A key is held by exactly one handler: a copy of a request is in the handler
\* precisely while the middleware's record says so, whatever restarts, timeouts
\* and re-deliveries came in between (platform/transport/idempotent.go, Wrap).
InHandler(s, a) == {n \in Slots : req[s][a][n] \in {"running", "calling"}}

HandlerHoldsTheKey ==
  \A s \in Servers, a \in Attempts :
    /\ \A m, n \in InHandler(s, a) : m = n
    /\ (InHandler(s, a) # {}) <=> (record[s][a] = "claimed")

\* As long as the processor would run its handler for an attempt it has already
\* settled, because it still honours the nonce, its record answers instead.
ChargeIsRemembered ==
  \A a \in Attempts : charges[a] > 0 /\ honoured["mpp"][a] => record["mpp"][a] = "ok"

\* The whole purchase implements a single-use authorisation.
Authorisation == INSTANCE SingleUseAuthorisation WITH
  mandate <- checkout,
  paid <- {a \in Attempts : charges[a] > 0},
  over <- expired,
  overtaken <- outrun,
  Purchases <- Attempts

ImplementsSingleUse == Authorisation!Spec

\* No attempt stays unanswered for ever: even when its answers are lost, its
\* nonces lapse and the verifiers then refuse the re-delivery.
AttemptResolves ==
  (outstanding # NoAttempt) ~> (outstanding = NoAttempt \/ ending = "cancelled")
=============================================================================
