----------------------- MODULE IdempotencyStore_proofs -----------------------
(***************************************************************************)
(* Theorems about the idempotency store, for any keys, requests and limit. *)
(*                                                                         *)
(* Those that need a handler to finish within the window assume it: they   *)
(* rest on the claim of a request outliving the request, which is OwnInv.  *)
(***************************************************************************)
EXTENDS IdempotencyStore, FiniteSetTheorems, TLAPS

-----------------------------------------------------------------------------
(* Types. *)

LEMMA NoResultType == NoResult \in Result /\ NoAnswer \in [kind : Answer, result : Result]
BY FingerprintsAssumption DEF NoResult, Result, NoAnswer, Answer

LEMMA AbsentType == Absent \in Record
BY NoResultType, WindowAssumption DEF Absent, Record, Result, NoResult

LEMMA SweptType ==
  ASSUME NEW recs \in [Keys -> Record]
  PROVE  evict(recs) \in [Keys -> Record]
BY AbsentType DEF evict

LEMMA MadeRoomType ==
  ASSUME records \in [Keys -> Record]
  PROVE  MadeRoom \in [Keys -> Record]
BY SweptType DEF MadeRoom

LEMMA ArrivesType ==
  ASSUME TypeOK, NEW r \in Requests, NEW k \in Keys, NEW f \in Fingerprints,
         NEW a \in [kind : Answer, result : Result], Arrives(r, k, f, a)
  PROVE  /\ key' \in [Requests -> Keys]
         /\ asked' \in [Requests -> Fingerprints]
         /\ ran' \in [Requests -> 0 .. MaxRun]
         /\ answer' \in [Requests -> [kind : Answer, result : Result]]
BY MaxRunAssumption DEF TypeOK, Arrives

LEMMA TypeStep ==
  ASSUME TypeOK, [Next]_vars
  PROVE  TypeOK'
<1>1. ASSUME NEW r \in Requests, NEW k \in Keys, NEW f \in Fingerprints, ClaimHeld(r, k, f)
      PROVE  TypeOK'
  <2> DEFINE rec == records[k]
             conflict == [NoAnswer EXCEPT !.kind = "conflict"]
             in_flight == [NoAnswer EXCEPT !.kind = "in_flight"]
             replayed == [kind |-> "replayed", result |-> rec.result]
             a == CASE rec.fingerprint # f -> conflict
                    [] rec.fingerprint = f /\ rec.state = "claimed" -> in_flight
                    [] OTHER -> replayed
  <2>1. rec.result \in Result
    BY DEF TypeOK, Record
  <2>2. conflict \in [kind : Answer, result : Result] /\ in_flight \in [kind : Answer, result : Result]
    BY NoResultType DEF Answer, NoAnswer
  <2>3. replayed \in [kind : Answer, result : Result]
    BY <2>1 DEF Answer
  <2>4. a \in [kind : Answer, result : Result]
    <3> HIDE DEF conflict, in_flight, replayed
    <3> QED BY <2>2, <2>3
  <2>5. Arrives(r, k, f, a) /\ UNCHANGED <<records, phase>>
    BY <1>1 DEF ClaimHeld
  <2> HIDE DEF a
  <2> QED
    BY <2>4, <2>5, ArrivesType DEF TypeOK
<1>2. ASSUME NEW r \in Requests, NEW k \in Keys, NEW f \in Fingerprints, ClaimRefused(r, k, f)
      PROVE  TypeOK'
  <2> DEFINE a == [NoAnswer EXCEPT !.kind = "at_capacity"]
  <2>1. a \in [kind : Answer, result : Result]
    BY NoResultType DEF Answer, NoAnswer
  <2>2. Arrives(r, k, f, a) /\ records' = MadeRoom /\ UNCHANGED phase
    BY <1>2 DEF ClaimRefused
  <2> HIDE DEF a
  <2> QED
    BY <2>1, <2>2, ArrivesType, MadeRoomType DEF TypeOK
<1>3. ASSUME NEW r \in Requests, NEW k \in Keys, NEW f \in Fingerprints, ClaimTaken(r, k, f)
      PROVE  TypeOK'
  <2>1. Claimed(r, k, f) \in Record
    BY NoResultType, WindowAssumption DEF Claimed, Record
  <2>2. records' \in [Keys -> Record]
    BY <1>3, <2>1, MadeRoomType DEF ClaimTaken, TypeOK
  <2>3. Arrives(r, k, f, NoAnswer) /\ phase' \in [Requests -> Phases]
    BY <1>3 DEF ClaimTaken, TypeOK, Phases
  <2> QED
    BY <2>2, <2>3, NoResultType, ArrivesType DEF TypeOK
<1>4. ASSUME NEW r \in Requests, Complete(r) PROVE TypeOK'
  <2> DEFINE result == [by |-> r, fingerprint |-> asked[r]]
  <2>1. result \in Result /\ [kind |-> "handled", result |-> result] \in [kind : Answer, result : Result]
    BY DEF TypeOK, Result, Answer
  <2>2. key[r] \in Keys /\ records[key[r]] \in Record
    BY DEF TypeOK
  <2>3. [records[key[r]] EXCEPT !.state = "done", !.result = result] \in Record
    BY <2>1, <2>2 DEF Record
  <2>4. records' \in [Keys -> Record]
    BY <1>4, <2>2, <2>3 DEF Complete, TypeOK
  <2> QED
    BY <1>4, <2>1, <2>4 DEF Complete, TypeOK, Phases
<1>5. ASSUME NEW r \in Requests, Forgo(r) PROVE TypeOK'
  <2>1. [kind |-> "handled", result |-> [by |-> r, fingerprint |-> asked[r]]] \in [kind : Answer, result : Result]
    BY DEF TypeOK, Result, Answer
  <2> QED
    BY <1>5, <2>1 DEF Forgo, TypeOK, Phases
<1>6. ASSUME NEW r \in Requests, Release(r) PROVE TypeOK'
  BY <1>6, AbsentType, MaxRunAssumption DEF Release, TypeOK, Phases
<1>7. CASE Len
  BY <1>7, SweptType DEF Len, TypeOK
<1>8. CASE Tick
  <2>1. ASSUME NEW k \in Keys
        PROVE  [records[k] EXCEPT !.left = IF @ > 0 THEN @ - 1 ELSE 0] \in Record
    <3>1. records[k] \in Record /\ records[k].left \in 0 .. Window
      BY DEF TypeOK, Record
    <3>2. (IF records[k].left > 0 THEN records[k].left - 1 ELSE 0) \in 0 .. Window
      BY <3>1, WindowAssumption
    <3> QED
      BY <3>1, <3>2 DEF Record
  <2>2. \A r \in Requests : (IF phase[r] # "idle" THEN ran[r] + 1 ELSE 0) \in 0 .. MaxRun
    BY <1>8, MaxRunAssumption DEF Tick, TypeOK
  <2> QED
    BY <1>8, <2>1, <2>2 DEF Tick, TypeOK
<1>9. CASE Restart
  BY <1>9, AbsentType, NoResultType, MaxRunAssumption DEF Restart, TypeOK, Phases
<1>10. CASE UNCHANGED vars
  BY <1>10 DEF vars, TypeOK
<1> QED
  BY <1>1, <1>2, <1>3, <1>4, <1>5, <1>6, <1>7, <1>8, <1>9, <1>10 DEF Next, Claim

\* Every record and every answer is well formed (platform/store/idempotency.go).
THEOREM TypeCorrect == Spec => []TypeOK
<1>1. Init => TypeOK
  BY AbsentType, NoResultType, MaxRunAssumption DEF Init, TypeOK, Phases
<1> QED
  BY <1>1, TypeStep, PTL DEF Spec

-----------------------------------------------------------------------------
(* The limit. *)

LEMMA HeldIsFinite ==
  ASSUME NEW recs
  PROVE  IsFiniteSet(Held(recs)) /\ Cardinality(Held(recs)) \in Nat
BY KeysAssumption, FS_Subset, FS_CardinalityType DEF Held

\* A step that takes no key into the store leaves it within its limit.
LEMMA LimitKept ==
  ASSUME WithinLimit, Held(records') \subseteq Held(records)
  PROVE  WithinLimit'
<1>1. Cardinality(Held(records')) <= Cardinality(Held(records))
  BY HeldIsFinite, FS_Subset
<1>2. /\ Cardinality(Held(records')) \in Nat
      /\ Cardinality(Held(records)) \in Nat
  BY HeldIsFinite
<1> QED
  BY <1>1, <1>2, LimitAssumption DEF WithinLimit

LEMMA MadeRoomHolds == Held(MadeRoom) \subseteq Held(records)
BY DEF MadeRoom, evict, Held, live, Absent

LEMMA WithinLimitStep ==
  ASSUME TypeOK, WithinLimit, [Next]_vars
  PROVE  WithinLimit'
<1>1. ASSUME NEW r \in Requests, NEW k \in Keys, NEW f \in Fingerprints, ClaimTaken(r, k, f)
      PROVE  WithinLimit'
  <2>1. Held(records') \subseteq Held(MadeRoom) \union {k}
    BY <1>1, MadeRoomType DEF ClaimTaken, Held, TypeOK
  <2>2. /\ IsFiniteSet(Held(MadeRoom) \union {k})
        /\ Cardinality(Held(MadeRoom) \union {k}) <= Cardinality(Held(MadeRoom)) + 1
    BY HeldIsFinite, FS_AddElement
  <2>3. Cardinality(Held(records')) <= Cardinality(Held(MadeRoom) \union {k})
    BY <2>1, <2>2, FS_Subset
  <2>4. Cardinality(Held(MadeRoom)) < Limit
    BY <1>1 DEF ClaimTaken, HasRoom
  <2>5. /\ Cardinality(Held(records')) \in Nat
        /\ Cardinality(Held(MadeRoom)) \in Nat
        /\ Cardinality(Held(MadeRoom) \union {k}) \in Nat
    BY <2>2, HeldIsFinite, FS_CardinalityType
  <2> QED
    BY <2>2, <2>3, <2>4, <2>5, LimitAssumption DEF WithinLimit
<1>2. ASSUME NEW r \in Requests, NEW k \in Keys, NEW f \in Fingerprints,
             ClaimHeld(r, k, f) \/ ClaimRefused(r, k, f)
      PROVE  WithinLimit'
  <2>1. Held(records') \subseteq Held(records)
    BY <1>2, MadeRoomHolds DEF ClaimHeld, ClaimRefused
  <2> QED
    BY <2>1, LimitKept
<1>3. ASSUME NEW r \in Requests, Complete(r) \/ Forgo(r) \/ Release(r)
      PROVE  WithinLimit'
  <2>1. Held(records') \subseteq Held(records)
    BY <1>3 DEF Complete, Forgo, Release, Held, Absent, TypeOK, live
  <2> QED
    BY <2>1, LimitKept
<1>4. CASE Len \/ Tick \/ Restart \/ UNCHANGED vars
  <2>1. Held(records') \subseteq Held(records)
    BY <1>4 DEF Len, Tick, Restart, vars, evict, Held, Absent, TypeOK, Record, live
  <2> QED
    BY <2>1, LimitKept
<1> QED
  BY <1>1, <1>2, <1>3, <1>4 DEF Next, Claim

\* However requests arrive and records lapse, the store never outgrows its limit
\* (platform/store/idempotency.go, Claim).
THEOREM NeverOutgrown == Spec => []WithinLimit
<1>1. Init => WithinLimit
  <2> SUFFICES ASSUME Init PROVE WithinLimit
    OBVIOUS
  <2>1. Held(records) = {}
    BY DEF Init, Held, Absent
  <2> QED
    BY <2>1, FS_EmptySet, LimitAssumption DEF WithinLimit
<1> QED
  BY <1>1, TypeCorrect, WithinLimitStep, PTL DEF Spec

-----------------------------------------------------------------------------
(* The inductive invariant. *)

\* A request, while it runs and until it has released, is the one its record was
\* claimed by, and the record has not been counted down by more than it has run.
HoldsItsRecord(r) ==
  LET rec == records[key[r]] IN
  /\ rec.state # "absent"
  /\ phase[r] = "running" => rec.state = "claimed"
  /\ rec.claimant = r
  /\ rec.fingerprint = asked[r]
  /\ rec.left + ran[r] >= Window

OwnInv == \A r \in Requests : Executing(r) => HoldsItsRecord(r)

\* A recorded answer is its claimant's, and answers what the claimant asked.
HonestRecord(rec) ==
  rec.state = "done" =>
    /\ rec.result.by \in Requests
    /\ rec.result.by = rec.claimant
    /\ rec.result.fingerprint = rec.fingerprint

ResultInv == \A k \in Keys : HonestRecord(records[k])

StoreInv == TypeOK /\ OwnInv /\ ResultInv /\ ReplayAnswersTheQuestion

\* With handlers that end within the window, a running request's record is live.
LEMMA RunningRecordIsLive ==
  ASSUME MaxRun < Window, TypeOK, NEW r \in Requests, HoldsItsRecord(r)
  PROVE  live(records[key[r]])
<1>1. /\ records[key[r]].left \in 0 .. Window
      /\ ran[r] \in 0 .. MaxRun
  BY DEF TypeOK, Record
<1> QED
  BY <1>1, WindowAssumption, MaxRunAssumption DEF HoldsItsRecord, live

\* What a claim finds, if it had to make room, is every live record untouched.
LEMMA MadeRoomKeepsTheLive ==
  ASSUME TypeOK, NEW k \in Keys, live(records[k])
  PROVE  MadeRoom[k] = records[k]
BY DEF MadeRoom, evict, TypeOK

LEMMA MadeRoomIsRecordOrAbsent ==
  ASSUME TypeOK, NEW k \in Keys
  PROVE  MadeRoom[k] = records[k] \/ MadeRoom[k] = Absent
BY DEF MadeRoom, evict, TypeOK

\* A request arriving touches nothing of the others.
LEMMA OthersUntouched ==
  ASSUME TypeOK, NEW r \in Requests, NEW k \in Keys, NEW f \in Fingerprints, NEW a,
         Arrives(r, k, f, a), NEW q \in Requests, q # r
  PROVE  key'[q] = key[q] /\ asked'[q] = asked[q] /\ ran'[q] = ran[q] /\ answer'[q] = answer[q]
BY DEF TypeOK, Arrives

LEMMA OwnStep ==
  ASSUME MaxRun < Window, TypeOK, OwnInv, [Next]_vars
  PROVE  OwnInv'
<1> SUFFICES ASSUME NEW q \in Requests, Executing(q)'
             PROVE  HoldsItsRecord(q)'
  BY DEF OwnInv
<1>0. /\ key[q] \in Keys
      /\ Executing(q) => HoldsItsRecord(q) /\ live(records[key[q]])
  BY RunningRecordIsLive DEF OwnInv, TypeOK
<1>1. ASSUME NEW r \in Requests, NEW k \in Keys, NEW f \in Fingerprints,
             ClaimHeld(r, k, f) \/ ClaimRefused(r, k, f)
      PROVE  HoldsItsRecord(q)'
  <2>1. q # r /\ Executing(q)
    BY <1>1 DEF ClaimHeld, ClaimRefused, Arrives, Executing
  <2>2. key'[q] = key[q] /\ asked'[q] = asked[q] /\ ran'[q] = ran[q] /\ phase'[q] = phase[q]
    BY <1>1, <2>1, OthersUntouched DEF ClaimHeld, ClaimRefused
  <2>3. records'[key[q]] = records[key[q]]
    BY <1>0, <1>1, <2>1, MadeRoomKeepsTheLive DEF ClaimHeld, ClaimRefused
  <2> QED
    BY <1>0, <2>1, <2>2, <2>3 DEF HoldsItsRecord
<1>2. ASSUME NEW r \in Requests, NEW k \in Keys, NEW f \in Fingerprints, ClaimTaken(r, k, f)
      PROVE  HoldsItsRecord(q)'
  <2>1. CASE q = r
    <3>1. key'[r] = k /\ asked'[r] = f /\ ran'[r] = 0
      BY <1>2 DEF ClaimTaken, Arrives, TypeOK
    <3>2. records'[k] = Claimed(r, k, f)
      BY <1>2, MadeRoomType DEF ClaimTaken, TypeOK
    <3> QED
      BY <2>1, <3>1, <3>2, WindowAssumption DEF HoldsItsRecord, Claimed
  <2>2. CASE q # r
    <3>1. Executing(q) /\ phase'[q] = phase[q]
      BY <1>2, <2>2 DEF ClaimTaken, Executing, TypeOK
    <3>2. key'[q] = key[q] /\ asked'[q] = asked[q] /\ ran'[q] = ran[q]
      BY <1>2, <2>2, OthersUntouched DEF ClaimTaken
    <3>3. key[q] # k
      BY <1>0, <1>2, <3>1 DEF ClaimTaken
    <3>4. records'[key[q]] = records[key[q]]
      BY <1>0, <1>2, <3>1, <3>3, MadeRoomKeepsTheLive, MadeRoomType DEF ClaimTaken, TypeOK
    <3> QED
      BY <1>0, <3>1, <3>2, <3>4 DEF HoldsItsRecord
  <2> QED
    BY <2>1, <2>2
<1>3. ASSUME NEW r \in Requests, Complete(r) \/ Forgo(r) \/ Release(r)
      PROVE  HoldsItsRecord(q)'
  <2>1. Executing(q) /\ key'[q] = key[q] /\ asked'[q] = asked[q]
    BY <1>3 DEF Complete, Forgo, Release, Executing, TypeOK
  <2>2. HoldsItsRecord(q)
    BY <1>0, <2>1
  <2>3. CASE q = r
    <3>1. ~Release(r)
      BY <2>3 DEF Release, Executing, TypeOK
    <3>2. phase'[q] # "running" /\ ran'[q] = ran[q]
      BY <1>3, <2>3, <3>1 DEF Complete, Forgo, TypeOK
    <3>3. /\ records'[key[q]].state # "absent"
          /\ records'[key[q]].claimant = records[key[q]].claimant
          /\ records'[key[q]].fingerprint = records[key[q]].fingerprint
          /\ records'[key[q]].left = records[key[q]].left
      <4>1. CASE Forgo(r)
        BY <2>2, <4>1 DEF Forgo, HoldsItsRecord
      <4>2. CASE Complete(r)
        BY <1>0, <2>2, <2>3, <4>2 DEF Complete, HoldsItsRecord, TypeOK, Record
      <4> QED
        BY <1>3, <3>1, <4>1, <4>2
    <3> QED
      BY <2>1, <2>2, <3>2, <3>3 DEF HoldsItsRecord
  <2>4. CASE q # r
    <3>1. phase'[q] = phase[q] /\ ran'[q] = ran[q]
      BY <1>3, <2>4 DEF Complete, Forgo, Release, TypeOK
    <3>2. key[q] # key[r]
      <4>1. Executing(r)
        BY <1>3 DEF Complete, Forgo, Release, Executing
      <4> QED
        BY <2>2, <2>4, <4>1 DEF OwnInv, HoldsItsRecord
    <3>3. records'[key[q]] = records[key[q]]
      BY <1>0, <1>3, <3>2 DEF Complete, Forgo, Release, TypeOK
    <3> QED
      BY <2>1, <2>2, <3>1, <3>3 DEF HoldsItsRecord
  <2> QED
    BY <2>3, <2>4
<1>4. CASE Len
  <2>1. Executing(q) /\ UNCHANGED <<phase, key, asked, ran>>
    BY <1>4 DEF Len, Executing
  <2>2. records'[key[q]] = records[key[q]]
    BY <1>0, <1>4, <2>1 DEF Len, evict
  <2> QED
    BY <1>0, <2>1, <2>2 DEF HoldsItsRecord
<1>5. CASE Tick
  <2>1. Executing(q) /\ UNCHANGED <<phase, key, asked>>
    BY <1>5 DEF Tick, Executing
  <2>2. ran'[q] = ran[q] + 1
    BY <1>5, <2>1 DEF Tick, Executing
  <2>3. records[key[q]].left \in 0 .. Window /\ ran[q] \in 0 .. MaxRun
    BY DEF TypeOK, Record
  <2>4. /\ records'[key[q]].left + 1 >= records[key[q]].left
        /\ records'[key[q]].left \in Nat
        /\ records'[key[q]].state = records[key[q]].state
        /\ records'[key[q]].claimant = records[key[q]].claimant
        /\ records'[key[q]].fingerprint = records[key[q]].fingerprint
    <3>1. records'[key[q]] =
            [records[key[q]] EXCEPT !.left = IF @ > 0 THEN @ - 1 ELSE 0]
      BY <1>0, <1>5 DEF Tick
    <3>2. records[key[q]] \in Record
      BY DEF TypeOK
    <3> QED
      BY <2>3, <3>1, <3>2, WindowAssumption DEF Record
  <2>5. records'[key[q]].left + ran'[q] >= Window
    BY <1>0, <2>1, <2>2, <2>3, <2>4, WindowAssumption, MaxRunAssumption DEF HoldsItsRecord
  <2> QED
    BY <1>0, <2>1, <2>4, <2>5 DEF HoldsItsRecord
<1>6. CASE Restart
  BY <1>6 DEF Restart, Executing
<1>7. CASE UNCHANGED vars
  BY <1>0, <1>7 DEF vars, Executing, HoldsItsRecord
<1> QED
  BY <1>1, <1>2, <1>3, <1>4, <1>5, <1>6, <1>7 DEF Next, Claim

LEMMA ResultStep ==
  ASSUME MaxRun < Window, TypeOK, OwnInv, ResultInv, [Next]_vars
  PROVE  ResultInv'
<1> SUFFICES ASSUME NEW j \in Keys
             PROVE  HonestRecord(records'[j])
  BY DEF ResultInv, HonestRecord
<1>0. HonestRecord(records[j]) /\ HonestRecord(Absent)
  BY DEF ResultInv, HonestRecord, Absent
<1>1. ASSUME NEW r \in Requests, NEW k \in Keys, NEW f \in Fingerprints,
             ClaimHeld(r, k, f) \/ ClaimRefused(r, k, f)
      PROVE  HonestRecord(records'[j])
  BY <1>0, <1>1, MadeRoomIsRecordOrAbsent DEF ClaimHeld, ClaimRefused
<1>2. ASSUME NEW r \in Requests, NEW k \in Keys, NEW f \in Fingerprints, ClaimTaken(r, k, f)
      PROVE  HonestRecord(records'[j])
  <2>1. records'[j] = Claimed(r, k, f) \/ records'[j] = MadeRoom[j]
    BY <1>2, MadeRoomType DEF ClaimTaken, TypeOK
  <2>2. HonestRecord(Claimed(r, k, f)) /\ HonestRecord(MadeRoom[j])
    BY <1>0, MadeRoomIsRecordOrAbsent DEF HonestRecord, Claimed
  <2> QED
    BY <2>1, <2>2
<1>3. ASSUME NEW r \in Requests, Complete(r)
      PROVE  HonestRecord(records'[j])
  <2>1. HoldsItsRecord(r)
    BY <1>3 DEF Complete, Executing, OwnInv
  <2>2. CASE records'[j] = records[j]
    BY <1>0, <2>2
  <2>3. CASE records'[j] # records[j]
    <3>1. j = key[r] /\ records[j] \in Record
      BY <1>3, <2>3 DEF Complete, TypeOK
    <3>2. records'[j] = [records[j] EXCEPT !.state = "done",
                           !.result = [by |-> r, fingerprint |-> asked[r]]]
      BY <1>3, <2>3, <3>1 DEF Complete, TypeOK
    <3> QED
      BY <2>1, <3>1, <3>2 DEF HonestRecord, HoldsItsRecord, Record
  <2> QED
    BY <2>2, <2>3
<1>4. ASSUME NEW r \in Requests, Forgo(r) \/ Release(r)
      PROVE  HonestRecord(records'[j])
  BY <1>0, <1>4 DEF Forgo, Release, TypeOK
<1>5. CASE Len \/ Restart \/ UNCHANGED vars
  BY <1>0, <1>5 DEF Len, evict, Restart, vars
<1>6. CASE Tick
  <2>1. records'[j] = [records[j] EXCEPT !.left = IF @ > 0 THEN @ - 1 ELSE 0]
    BY <1>6 DEF Tick
  <2>2. records[j] \in Record
    BY DEF TypeOK
  <2> QED
    BY <1>0, <2>1, <2>2 DEF HonestRecord, Record
<1> QED
  BY <1>1, <1>2, <1>3, <1>4, <1>5, <1>6 DEF Next, Claim

\* What an arriving request is answered with, if replayed, is the record it found.
LEMMA ReplayStep ==
  ASSUME TypeOK, ResultInv, ReplayAnswersTheQuestion, [Next]_vars
  PROVE  ReplayAnswersTheQuestion'
<1> SUFFICES ASSUME NEW q \in Requests, answer'[q].kind = "replayed"
             PROVE  answer'[q].result.by \in Requests /\ answer'[q].result.fingerprint = asked'[q]
  BY DEF ReplayAnswersTheQuestion
<1>1. CASE answer'[q] = answer[q] /\ asked'[q] = asked[q]
  BY <1>1 DEF ReplayAnswersTheQuestion
<1>2. ASSUME NEW r \in Requests, NEW k \in Keys, NEW f \in Fingerprints, ClaimHeld(r, k, f)
      PROVE  answer'[q].result.by \in Requests /\ answer'[q].result.fingerprint = asked'[q]
  <2>1. CASE q # r
    BY <1>1, <1>2, <2>1 DEF ClaimHeld, Arrives, TypeOK
  <2>2. CASE q = r
    <3>1. asked'[q] = f
      BY <1>2, <2>2 DEF ClaimHeld, Arrives, TypeOK
    <3>2. records[k].state \in {"absent", "claimed", "done"}
      BY DEF TypeOK, Record
    <3>3. /\ records[k].state = "done"
          /\ records[k].fingerprint = f
          /\ answer'[q].result = records[k].result
      <4>1. CASE records[k].fingerprint # f
        <5>1. answer'[q] = [NoAnswer EXCEPT !.kind = "conflict"]
          BY <1>2, <2>2, <4>1 DEF ClaimHeld, Arrives, TypeOK
        <5> QED
          BY <5>1 DEF NoAnswer
      <4>2. CASE records[k].fingerprint = f /\ records[k].state = "claimed"
        <5>1. answer'[q] = [NoAnswer EXCEPT !.kind = "in_flight"]
          BY <1>2, <2>2, <4>2 DEF ClaimHeld, Arrives, TypeOK
        <5> QED
          BY <5>1 DEF NoAnswer
      <4>3. CASE records[k].fingerprint = f /\ records[k].state # "claimed"
        BY <1>2, <2>2, <3>2, <4>3 DEF ClaimHeld, Arrives, TypeOK, live
      <4> QED
        BY <4>1, <4>2, <4>3
    <3> QED
      BY <3>1, <3>3 DEF ResultInv, HonestRecord
  <2> QED
    BY <2>1, <2>2
<1>3. ASSUME NEW r \in Requests, NEW k \in Keys, NEW f \in Fingerprints,
             ClaimRefused(r, k, f) \/ ClaimTaken(r, k, f)
      PROVE  answer'[q] = answer[q] /\ asked'[q] = asked[q]
  <2>1. q # r
    BY <1>3 DEF ClaimRefused, ClaimTaken, Arrives, TypeOK, NoAnswer
  <2> QED
    BY <1>3, <2>1, OthersUntouched DEF ClaimRefused, ClaimTaken
<1>4. ASSUME NEW r \in Requests, Complete(r) \/ Forgo(r) \/ Release(r)
      PROVE  answer'[q] = answer[q] /\ asked'[q] = asked[q]
  BY <1>4 DEF Complete, Forgo, Release, TypeOK
<1>5. CASE Len \/ Tick \/ UNCHANGED vars
  BY <1>1, <1>5 DEF Len, Tick, vars
<1>6. CASE Restart
  BY <1>6 DEF Restart, NoAnswer
<1> QED
  BY <1>1, <1>2, <1>3, <1>4, <1>5, <1>6 DEF Next, Claim

LEMMA StoreInvariant == ASSUME MaxRun < Window PROVE Spec => []StoreInv
<1>1. Init => StoreInv
  <2> SUFFICES ASSUME Init PROVE StoreInv
    OBVIOUS
  <2>1. TypeOK
    BY AbsentType, NoResultType, MaxRunAssumption DEF Init, TypeOK, Phases
  <2> QED
    BY <2>1 DEF Init, StoreInv, OwnInv, Executing, ResultInv, HonestRecord, Absent,
       ReplayAnswersTheQuestion, NoAnswer
<1>2. StoreInv /\ [Next]_vars => StoreInv'
  BY TypeStep, OwnStep, ResultStep, ReplayStep DEF StoreInv
<1> QED
  BY <1>1, <1>2, PTL DEF Spec

-----------------------------------------------------------------------------
(* What follows from it. *)

\* Whatever races it, a running request's record is in flight, live and its own.
THEOREM RunnersHoldTheirKeys == ASSUME MaxRun < Window PROVE Spec => []OwnClaimIsHeld
<1>1. StoreInv => OwnClaimIsHeld
  BY RunningRecordIsLive DEF StoreInv, OwnInv, OwnClaimIsHeld, Executing, HoldsItsRecord
<1> QED
  BY <1>1, StoreInvariant, PTL

\* Two requests never run under one key (platform/store/idempotency.go, Claim).
THEOREM NeverTwiceAtOnce == ASSUME MaxRun < Window PROVE Spec => []ExclusiveExecution
<1>1. StoreInv => ExclusiveExecution
  BY DEF StoreInv, OwnInv, ExclusiveExecution, Executing, HoldsItsRecord
<1> QED
  BY <1>1, StoreInvariant, PTL

\* A replay was recorded by an earlier request that asked the same thing.
THEOREM ReplaysAreToTheSameQuestion ==
  ASSUME MaxRun < Window PROVE Spec => []ReplayAnswersTheQuestion
<1>1. StoreInv => ReplayAnswersTheQuestion
  BY DEF StoreInv
<1> QED
  BY <1>1, StoreInvariant, PTL

\* Nobody completes a claim that is another's: false without the assumption,
\* which is what the overrunning handlers of the code can break.
THEOREM ClaimantsRecord == ASSUME MaxRun < Window PROVE Spec => []RecordedByItsClaimant
<1>1. StoreInv => RecordedByItsClaimant
  BY DEF StoreInv, ResultInv, HonestRecord, RecordedByItsClaimant
<1> QED
  BY <1>1, StoreInvariant, PTL

\* A recorded answer outlives everything but its window and a restart: no claim,
\* sweep, late Complete or late Release touches it.
THEOREM AnswersLast == Spec => AnswerIsKept
<1>1. ASSUME TypeOK, [Next]_vars, NEW k \in Keys,
             records[k].state = "done", live(records[k])
      PROVE  (records'[k].state = "done" /\ records'[k].result = records[k].result) \/ Restart
  <2>1. ASSUME NEW r \in Requests, NEW j \in Keys, NEW f \in Fingerprints,
               ClaimHeld(r, j, f) \/ ClaimRefused(r, j, f) \/ ClaimTaken(r, j, f)
        PROVE  records'[k] = records[k]
    <3>1. MadeRoom[k] = records[k]
      BY <1>1, MadeRoomKeepsTheLive
    <3> QED
      BY <1>1, <2>1, <3>1, MadeRoomType DEF ClaimHeld, ClaimRefused, ClaimTaken, TypeOK
  <2>2. ASSUME NEW r \in Requests, Complete(r) \/ Forgo(r) \/ Release(r)
        PROVE  records'[k] = records[k]
    BY <1>1, <2>2 DEF Complete, Forgo, Release, TypeOK
  <2>3. CASE Len \/ UNCHANGED vars
    BY <1>1, <2>3 DEF Len, evict, vars
  <2>4. CASE Tick
    <3>1. records'[k] = [records[k] EXCEPT !.left = IF @ > 0 THEN @ - 1 ELSE 0]
      BY <2>4 DEF Tick
    <3>2. records[k] \in Record
      BY <1>1 DEF TypeOK
    <3> QED
      BY <1>1, <3>1, <3>2 DEF Record
  <2> QED
    BY <1>1, <2>1, <2>2, <2>3, <2>4 DEF Next, Claim
<1>2. TypeOK /\ [Next]_vars =>
        [\A k \in Keys :
           records[k].state = "done" /\ live(records[k]) =>
             \/ records'[k].state = "done" /\ records'[k].result = records[k].result
             \/ Restart]_vars
  BY <1>1
<1> QED
  BY <1>2, TypeCorrect, PTL DEF Spec, AnswerIsKept
=============================================================================
