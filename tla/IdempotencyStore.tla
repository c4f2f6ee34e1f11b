-------------------------- MODULE IdempotencyStore ---------------------------
(***************************************************************************)
(* platform/store.Idempotency under platform/transport.Idempotency.Wrap:   *)
(* requests carrying an idempotency key claim it before their handler      *)
(* runs, record the handler's answer, and release the key on the way out.  *)
(* Each of Claim, Complete, Release and Len holds the store's mutex, so    *)
(* each is one step, and any steps of other requests may come in between.  *)
(*                                                                         *)
(* Time is relative: a record carries what is left of its window, and a    *)
(* running request how long it has been running.  Absolute instants are    *)
(* not observable through the store's interface.                           *)
(***************************************************************************)
EXTENDS Naturals, FiniteSets

CONSTANTS
  Keys,          \* idempotency keys
  Fingerprints,  \* what a request asks for
  Requests,      \* request goroutines of one server
  Nobody,        \* no request
  Window,        \* ticks a record is kept from its claim
  Limit,         \* records the store may hold
  MaxRun         \* ticks a request may take from claim to release

ASSUME WindowAssumption == Window \in Nat \ {0}
ASSUME LimitAssumption == Limit \in Nat \ {0}
ASSUME MaxRunAssumption == MaxRun \in Nat
ASSUME RequestsAssumption == Nobody \notin Requests
ASSUME KeysAssumption == IsFiniteSet(Keys)
ASSUME FingerprintsAssumption == Fingerprints # {}

VARIABLES
  records,  \* the store: one record per key
  phase,    \* where each request is
  key,      \* the key each request carries
  asked,    \* the fingerprint each request carries
  ran,      \* ticks since the request claimed its key
  answer    \* what the middleware answered the request with

vars == <<records, phase, key, asked, ran, answer>>

\* A record: absent, claimed (in flight) or done.  claimant is the request that
\* took the key and is the model's only: the store does not know it.  result
\* stands for the recorded answer: who produced it, and to which question.
NoResult == [by |-> Nobody, fingerprint |-> CHOOSE f \in Fingerprints : TRUE]
Result == [by : Requests \union {Nobody}, fingerprint : Fingerprints]
Record == [state : {"absent", "claimed", "done"}, fingerprint : Fingerprints,
           claimant : Requests \union {Nobody}, result : Result, left : 0 .. Window]
Absent == [state |-> "absent", fingerprint |-> NoResult.fingerprint,
           claimant |-> Nobody, result |-> NoResult, left |-> 0]

\* What a request was answered with: by its own handler, by the record of an
\* earlier one, or by the middleware's refusal.
Answer == {"none", "conflict", "in_flight", "at_capacity", "handled", "replayed"}

Phases == {"idle", "running", "releasing"}

TypeOK ==
  /\ records \in [Keys -> Record]
  /\ phase \in [Requests -> Phases]
  /\ key \in [Requests -> Keys]
  /\ asked \in [Requests -> Fingerprints]
  /\ ran \in [Requests -> 0 .. MaxRun]
  /\ answer \in [Requests -> [kind : Answer, result : Result]]

NoAnswer == [kind |-> "none", result |-> NoResult]

Init ==
  /\ records = [k \in Keys |-> Absent]
  /\ phase = [r \in Requests |-> "idle"]
  /\ key \in [Requests -> Keys]
  /\ asked \in [Requests -> Fingerprints]
  /\ ran = [r \in Requests |-> 0]
  /\ answer = [r \in Requests |-> NoAnswer]

-----------------------------------------------------------------------------
(* The store. *)

Held(recs) == {k \in Keys : recs[k].state # "absent"}
\* Slip: the record's last instant is already past.
liveUntil(rec) == rec.state # "absent" /\ rec.left > 1

live(rec) == rec.state # "absent" /\ rec.left > 0

\* Slip: the sweep spares only what has an answer to replay.
evictUnanswered(recs) ==
  [k \in Keys |-> IF live(recs[k]) /\ recs[k].state = "done" THEN recs[k] ELSE Absent]

evict(recs) == [k \in Keys |-> IF live(recs[k]) THEN recs[k] ELSE Absent]

\* The store as a new claim finds it: swept, but only when it is full.
MadeRoom == IF Cardinality(Held(records)) >= Limit THEN evict(records) ELSE records

\* Slip: a store at its limit has room for one more.
HasRoomForOneMore == Cardinality(Held(MadeRoom)) <= Limit

HasRoom == Cardinality(Held(MadeRoom)) < Limit

Claimed(r, k, f) ==
  [state |-> "claimed", fingerprint |-> f, claimant |-> r, result |-> NoResult,
   left |-> Window]

-----------------------------------------------------------------------------
(* A request.  Arriving and claiming are one step: what precedes Claim in    *)
(* the middleware touches nothing shared.                                    *)

Arrives(r, k, f, a) ==
  /\ phase[r] = "idle"
  /\ key' = [key EXCEPT ![r] = k]
  /\ asked' = [asked EXCEPT ![r] = f]
  /\ answer' = [answer EXCEPT ![r] = a]
  /\ ran' = [ran EXCEPT ![r] = 0]

\* Slip: the fingerprint is not compared.
ClaimHeldUnmatched(r, k, f) ==
  LET rec == records[k] IN
  /\ live(rec)
  /\ Arrives(r, k, f,
       CASE rec.state = "claimed" -> [NoAnswer EXCEPT !.kind = "in_flight"]
         [] OTHER                 -> [kind |-> "replayed", result |-> rec.result])
  /\ UNCHANGED <<records, phase>>

\* The key is held by a live record: the request is answered without running.
ClaimHeld(r, k, f) ==
  LET rec == records[k] IN
  /\ live(rec)
  /\ Arrives(r, k, f,
       CASE rec.fingerprint # f     -> [NoAnswer EXCEPT !.kind = "conflict"]
         [] rec.fingerprint = f /\ rec.state = "claimed"
                                    -> [NoAnswer EXCEPT !.kind = "in_flight"]
         [] OTHER                   -> [kind |-> "replayed", result |-> rec.result])
  /\ UNCHANGED <<records, phase>>

ClaimRefused(r, k, f) ==
  /\ ~live(records[k])
  /\ ~HasRoom
  /\ Arrives(r, k, f, [NoAnswer EXCEPT !.kind = "at_capacity"])
  /\ records' = MadeRoom
  /\ UNCHANGED phase

ClaimTaken(r, k, f) ==
  /\ ~live(records[k])
  /\ HasRoom
  /\ Arrives(r, k, f, NoAnswer)
  /\ records' = [MadeRoom EXCEPT ![k] = Claimed(r, k, f)]
  /\ phase' = [phase EXCEPT ![r] = "running"]

\* The handler answered below 500: Complete, which records nothing for a key
\* that is absent, lapsed or already complete.
Complete(r) ==
  LET k == key[r]
      result == [by |-> r, fingerprint |-> asked[r]] IN
  /\ phase[r] = "running"
  /\ phase' = [phase EXCEPT ![r] = "releasing"]
  /\ answer' = [answer EXCEPT ![r] = [kind |-> "handled", result |-> result]]
  /\ records' = IF live(records[k]) /\ records[k].state = "claimed"
                THEN [records EXCEPT ![k].state = "done", ![k].result = result]
                ELSE records
  /\ UNCHANGED <<key, asked, ran>>

\* The handler answered 5xx, wrote more than is remembered, hijacked the
\* connection or panicked: nothing is recorded.
Forgo(r) ==
  /\ phase[r] = "running"
  /\ phase' = [phase EXCEPT ![r] = "releasing"]
  /\ answer' = [answer EXCEPT ![r] =
       [kind |-> "handled", result |-> [by |-> r, fingerprint |-> asked[r]]]]
  /\ UNCHANGED <<records, key, asked, ran>>

\* Slip: the answer is dropped along with the claim.
ReleaseAnswered(r) ==
  /\ phase[r] = "releasing"
  /\ phase' = [phase EXCEPT ![r] = "idle"]
  /\ records' = [records EXCEPT ![key[r]] = Absent]
  /\ ran' = [ran EXCEPT ![r] = 0]
  /\ UNCHANGED <<key, asked, answer>>

\* Slip: the middleware returns without releasing.
ReleaseNothing(r) ==
  /\ phase[r] = "releasing"
  /\ phase' = [phase EXCEPT ![r] = "idle"]
  /\ ran' = [ran EXCEPT ![r] = 0]
  /\ UNCHANGED <<records, key, asked, answer>>

\* The deferred Release: whatever is in flight under the key is dropped.
Release(r) ==
  LET k == key[r] IN
  /\ phase[r] = "releasing"
  /\ phase' = [phase EXCEPT ![r] = "idle"]
  /\ records' = IF records[k].state = "claimed"
                THEN [records EXCEPT ![k] = Absent] ELSE records
  /\ ran' = [ran EXCEPT ![r] = 0]
  /\ UNCHANGED <<key, asked, answer>>

\* Len sweeps the lapsed records before it counts.
Len ==
  /\ records' = evict(records)
  /\ UNCHANGED <<phase, key, asked, ran, answer>>

-----------------------------------------------------------------------------

\* Slip: a record is counted down past its end.
TickPast ==
  /\ \A r \in Requests : phase[r] # "idle" => ran[r] < MaxRun
  /\ records' = [k \in Keys |-> [records[k] EXCEPT !.left = @ - 1]]
  /\ ran' = [r \in Requests |-> IF phase[r] # "idle" THEN ran[r] + 1 ELSE 0]
  /\ UNCHANGED <<phase, key, asked, answer>>

\* One tick of the clock, and no request runs longer than MaxRun.
Tick ==
  /\ \A r \in Requests : phase[r] # "idle" => ran[r] < MaxRun
  /\ records' = [k \in Keys |->
       [records[k] EXCEPT !.left = IF @ > 0 THEN @ - 1 ELSE 0]]
  /\ ran' = [r \in Requests |-> IF phase[r] # "idle" THEN ran[r] + 1 ELSE 0]
  /\ UNCHANGED <<phase, key, asked, answer>>

\* The process restarts: the store was memory, and so were the requests.
Restart ==
  /\ records' = [k \in Keys |-> Absent]
  /\ phase' = [r \in Requests |-> "idle"]
  /\ ran' = [r \in Requests |-> 0]
  /\ answer' = [r \in Requests |-> NoAnswer]
  /\ UNCHANGED <<key, asked>>

Claim(r) ==
  \E k \in Keys, f \in Fingerprints :
    ClaimHeld(r, k, f) \/ ClaimRefused(r, k, f) \/ ClaimTaken(r, k, f)

Next ==
  \/ \E r \in Requests : Claim(r) \/ Complete(r) \/ Forgo(r) \/ Release(r)
  \/ Len
  \/ Tick
  \/ Restart

Spec == Init /\ [][Next]_vars

\* A handler returns, and its deferred Release runs.
Fairness ==
  \A r \in Requests : WF_vars(Complete(r) \/ Forgo(r)) /\ WF_vars(Release(r))

FairSpec == Spec /\ Fairness

-----------------------------------------------------------------------------
(* Properties. *)

Executing(r) == phase[r] # "idle"

\* An operation is never run twice at once under one key: while a handler runs,
\* no retry of its request gets past the middleware (platform/store/idempotency.go,
\* "A key is claimed before the operation runs").  Requires MaxRun < Window.
ExclusiveExecution ==
  \A r, q \in Requests :
    phase[r] = "running" /\ phase[q] = "running" /\ key[r] = key[q] => r = q

\* A running request's record is in the store, in flight and its own.
OwnClaimIsHeld ==
  \A r \in Requests : phase[r] = "running" =>
    /\ records[key[r]].state = "claimed"
    /\ records[key[r]].claimant = r
    /\ records[key[r]].fingerprint = asked[r]
    /\ live(records[key[r]])

\* A replayed answer was produced for the same key by a request that asked the
\* same thing: a key reused for something else never sees it.
ReplayAnswersTheQuestion ==
  \A r \in Requests : answer[r].kind = "replayed" =>
    answer[r].result.by \in Requests /\ answer[r].result.fingerprint = asked[r]

\* What a record holds was recorded by the request that claimed it: Complete
\* records nothing once "the claim lapsed while the operation ran".
RecordedByItsClaimant ==
  \A k \in Keys : records[k].state = "done" => records[k].result.by = records[k].claimant

\* The store never holds more records than it is allowed to.
WithinLimit == Cardinality(Held(records)) <= Limit

\* A recorded answer is neither dropped nor replaced before its window is over,
\* whatever other requests, sweeps and late releases do; only a restart loses it.
AnswerIsKept ==
  [][\A k \in Keys :
       records[k].state = "done" /\ live(records[k]) =>
         \/ records'[k].state = "done" /\ records'[k].result = records[k].result
         \/ Restart]_vars

\* A key does not stay in flight: it ends complete, handed back, or lapsed.
KeyIsHandedBack ==
  \A k \in Keys : (records[k].state = "claimed") ~> (records[k].state # "claimed")
=============================================================================
