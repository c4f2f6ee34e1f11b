-------------------------- MODULE EventFeed_proofs --------------------------
(***************************************************************************)
(* That the emitters of the event log lose nothing they do not count,      *)
(* sleep through nothing and leave nothing behind, for any number of       *)
(* processes, any sizes of ring and batch, and whatever the collector and  *)
(* the network do; and that the pages see one ordered feed, for any pages  *)
(* and any sizes of history and queue: what is pending for a page follows  *)
(* on from what it was shown, gaps are reported, and no event is published *)
(* twice.                                                                  *)
(***************************************************************************)
EXTENDS EventFeed, SequenceTheorems, WellFoundedInduction, TLAPS

\* A batch is held only while the sink works on it.
BatchInv(r) == sender[r] \in {"sending", "awaiting"} \/ batch[r] = <<>>

\* The drain that Close asked for is the last, and after it nothing is added.
LastInv(r) ==
    /\ last[r] => closed[r]
    /\ sender[r] = "stopped" => last[r]
    /\ last[r] /\ sender[r] \in {"drained", "stopped"} => ring[r] = <<>>
    /\ closing[r] = "flushed" => sender[r] = "stopped"

Accounted(r) ==
    stats[r].emitted + late[r] =
        stats[r].dropped + stats[r].failed + stats[r].delivered
        + Len(ring[r]) + Len(batch[r])

WakesUp(r) ==
    ring[r] # <<>> =>
        \/ sender[r] \in {"drain", "sending", "awaiting"}
        \/ doorbell[r]
        \/ ringing[r] > 0
        \/ closed[r] /\ sender[r] # "stopped" /\ ~last[r]

RoleInv(r) == BatchInv(r) /\ LastInv(r) /\ Accounted(r) /\ WakesUp(r)

EmitterInv == EmitterTypeOK /\ \A r \in Roles : RoleInv(r)
-----------------------------------------------------------------------------
\* The collector takes the batch, for all the emitter can tell.
HandedOver(r) ==
    /\ sender[r] = "sending"
    /\ sender' = [sender EXCEPT ![r] = "awaiting"]
    /\ UNCHANGED <<ring, closed, stats, late, ringing, doorbell, last, batch, closing, emits>>

\* A step of the event log is a step of one emitter or leaves them all alone.
LEMMA StepOfOneEmitter ==
    ASSUME [Next]_vars
    PROVE  \/ \E r \in Roles : Caller(r) \/ RingDoorbell(r) \/ Sender(r) \/ CloseReturns(r)
           \/ \E r \in Roles : HandedOver(r) \/ \E ok \in BOOLEAN : Sent(r, ok)
           \/ UNCHANGED emitterVars
<1>1. ASSUME NEW r \in Roles, EmitterStep(r) \/ PostArrives(r) \/ PostFails(r)
      PROVE  \/ Caller(r) \/ RingDoorbell(r) \/ Sender(r) \/ CloseReturns(r)
             \/ HandedOver(r) \/ \E ok \in BOOLEAN : Sent(r, ok)
  BY <1>1 DEF EmitterStep, PostArrives, PostFails, HandedOver
<1>2. ASSUME NEW h \in handlers, IngestOne(h) PROVE UNCHANGED emitterVars
  BY <1>2 DEF IngestOne
<1>3. ASSUME NEW h \in handlers, IngestAnswers(h)
      PROVE  UNCHANGED emitterVars \/ \E r \in Roles : \E ok \in BOOLEAN : Sent(r, ok)
  <2>1. AwaitedBy(h) \subseteq Roles
    BY DEF AwaitedBy
  <2>2. (h.todo = <<>>) \in BOOLEAN
    OBVIOUS
  <2> QED BY <1>3, <2>1, <2>2 DEF IngestAnswers
<1>4. ASSUME NEW p \in Pages, PageStep(p) PROVE UNCHANGED emitterVars
  BY <1>4 DEF PageStep, Connect, WriteReplay, WriteLive, StreamEnds, StreamBreaks, Reconnect,
              ClosePage
<1>5. CollectorStops \/ CollectorRestarts => UNCHANGED emitterVars
  BY DEF CollectorStops, CollectorRestarts
<1>6. UNCHANGED vars => UNCHANGED emitterVars
  BY DEF vars
<1> QED BY <1>1, <1>2, <1>3, <1>4, <1>5, <1>6 DEF Next
-----------------------------------------------------------------------------
(* Types, and the lengths they give. *)

LEMMA EventType ==
    ASSUME EmitterTypeOK, NEW r \in Roles, NEW d \in Drafts, ValidEvent(d), emits[r] < MaxEmits
    PROVE  [role |-> r, at |-> emits[r] + 1, draft |-> d] \in Event
<1>1. emits[r] \in 0..MaxEmits
  BY DEF EmitterTypeOK
<1>2. emits[r] + 1 \in 1..MaxEmits
  BY <1>1, EmitterAssumption
<1>3. d \in {x \in Drafts : ValidEvent(x)}
  OBVIOUS
<1> QED BY <1>2, <1>3 DEF Event

\* The ring after one more event: the oldest made room if there was none.
LEMMA RingAfter ==
    ASSUME NEW s \in Seq(Event), NEW e \in Event, Len(s) <= Buffer
    PROVE  LET kept == IF Len(s) = Buffer THEN Tail(s) ELSE s
           IN  /\ Append(kept, e) \in Seq(Event)
               /\ Append(kept, e) # <<>>
               /\ Len(Append(kept, e)) = IF Len(s) = Buffer THEN Len(s) ELSE Len(s) + 1
<1> DEFINE kept == IF Len(s) = Buffer THEN Tail(s) ELSE s
<1>1. CASE Len(s) = Buffer
  <2>1. s # <<>>
    BY <1>1, EmitterAssumption, EmptySeq
  <2>2. Tail(s) \in Seq(Event) /\ Len(Tail(s)) = Len(s) - 1
    BY <2>1, HeadTailProperties
  <2>3. /\ Append(Tail(s), e) \in Seq(Event) /\ Append(Tail(s), e) # <<>>
        /\ Len(Append(Tail(s), e)) = Len(Tail(s)) + 1
    BY <2>2, AppendProperties
  <2> QED BY <1>1, <2>2, <2>3, LenProperties
<1>2. CASE Len(s) # Buffer
  BY <1>2, AppendProperties
<1> QED BY <1>1, <1>2

\* A batch and what it leaves make up the ring.
LEMMA TakenAndLeft ==
    ASSUME NEW s \in Seq(Event), s # <<>>
    PROVE  LET n == IF Len(s) < MaxBatch THEN Len(s) ELSE MaxBatch
           IN  /\ SubSeq(s, 1, n) \in Seq(Event)
               /\ SubSeq(s, n + 1, Len(s)) \in Seq(Event)
               /\ Len(SubSeq(s, 1, n)) \in Nat
               /\ Len(SubSeq(s, n + 1, Len(s))) \in Nat
               /\ Len(SubSeq(s, 1, n)) + Len(SubSeq(s, n + 1, Len(s))) = Len(s)
<1> DEFINE n == IF Len(s) < MaxBatch THEN Len(s) ELSE MaxBatch
<1>1. Len(s) \in Nat /\ n \in Nat /\ n <= Len(s)
  BY EmitterAssumption, LenProperties
<1>2. /\ SubSeq(s, 1, n) \in Seq(Event)
      /\ Len(SubSeq(s, 1, n)) = n
  BY <1>1, SubSeqProperties
<1>3. /\ SubSeq(s, n + 1, Len(s)) \in Seq(Event)
      /\ Len(SubSeq(s, n + 1, Len(s))) = Len(s) - n
  BY <1>1, SubSeqProperties
<1> HIDE DEF n
<1> DEFINE taken == Len(SubSeq(s, 1, n))
           left == Len(SubSeq(s, n + 1, Len(s)))
           whole == Len(s)
<1>4. whole \in Nat /\ n \in Nat /\ n <= whole /\ taken = n /\ left = whole - n
  BY <1>1, <1>2, <1>3
<1> HIDE DEF taken, left, whole
<1>5. taken + left = whole /\ taken \in Nat /\ left \in Nat
  BY <1>4
<1>6. Len(SubSeq(s, 1, n)) + Len(SubSeq(s, n + 1, Len(s))) = Len(s)
  BY <1>5 DEF taken, left, whole
<1>7. Len(SubSeq(s, 1, n)) \in Nat /\ Len(SubSeq(s, n + 1, Len(s))) \in Nat
  BY <1>5 DEF taken, left
<1> QED BY <1>2, <1>3, <1>6, <1>7 DEF n
-----------------------------------------------------------------------------
(* What the counters come to. *)

LEMMA OneDropped ==
    ASSUME NEW c \in Stats
    PROVE  LET new == [c EXCEPT !.dropped = @ + 1]
           IN  /\ new \in Stats
               /\ new.emitted = c.emitted /\ new.dropped = c.dropped + 1
               /\ new.failed = c.failed /\ new.delivered = c.delivered
BY DEF Stats

LEMMA OneRejected ==
    ASSUME NEW c \in Stats
    PROVE  LET new == [c EXCEPT !.rejected = @ + 1]
           IN  /\ new \in Stats
               /\ new.emitted = c.emitted /\ new.dropped = c.dropped
               /\ new.failed = c.failed /\ new.delivered = c.delivered
BY DEF Stats

LEMMA OneAccepted ==
    ASSUME NEW c \in Stats, NEW n \in Nat
    PROVE  LET new == Accepting(c, n)
           IN  /\ new \in Stats
               /\ new.emitted = c.emitted + 1 /\ new.dropped = c.dropped + n
               /\ new.failed = c.failed /\ new.delivered = c.delivered
<1>1. c.emitted + 1 \in Nat /\ c.dropped + n \in Nat
  BY DEF Stats
<1> DEFINE e == c.emitted + 1
           d == c.dropped + n
<1>2. Accepting(c, n) = [c EXCEPT !.emitted = e, !.dropped = d]
  BY DEF Accepting
<1> HIDE DEF e, d
<1>3. e \in Nat /\ d \in Nat
  BY <1>1 DEF e, d
<1>4. LET new == [c EXCEPT !.emitted = e, !.dropped = d]
      IN  /\ new \in Stats /\ new.emitted = e /\ new.dropped = d
          /\ new.failed = c.failed /\ new.delivered = c.delivered
  BY <1>3 DEF Stats
<1> QED BY <1>2, <1>4 DEF e, d

LEMMA BatchDelivered ==
    ASSUME NEW c \in Stats, NEW n \in Nat
    PROVE  LET new == [c EXCEPT !.delivered = @ + n]
           IN  /\ new \in Stats
               /\ new.emitted = c.emitted /\ new.dropped = c.dropped
               /\ new.failed = c.failed /\ new.delivered = c.delivered + n
BY DEF Stats

LEMMA BatchFailed ==
    ASSUME NEW c \in Stats, NEW n \in Nat
    PROVE  LET new == [c EXCEPT !.failed = @ + n]
           IN  /\ new \in Stats
               /\ new.emitted = c.emitted /\ new.dropped = c.dropped
               /\ new.failed = c.failed + n /\ new.delivered = c.delivered
BY DEF Stats

LEMMA NoStatsType ==
    /\ NoStats \in Stats
    /\ NoStats.emitted = 0 /\ NoStats.dropped = 0 /\ NoStats.failed = 0 /\ NoStats.delivered = 0
BY DEF NoStats, Stats

\* One role's counters change.
LEMMA OneCounts ==
    ASSUME stats \in [Roles -> Stats], NEW r \in Roles, NEW c \in Stats,
           stats' = [stats EXCEPT ![r] = c]
    PROVE  /\ stats' \in [Roles -> Stats]
           /\ stats'[r] = c
           /\ \A s \in Roles \ {r} : stats'[s] = stats[s]
OBVIOUS
-----------------------------------------------------------------------------
(* Each step of an emitter keeps the types. *)

LEMMA Numbers ==
    ASSUME EmitterTypeOK
    PROVE  /\ late \in [Roles -> Nat]
           /\ ringing \in [Roles -> Nat]
           /\ emits \in [Roles -> 0..MaxEmits]
BY DEF EmitterTypeOK

LEMMA OneMoreCall ==
    ASSUME EmitterTypeOK, NEW r \in Roles, Calling(r)
    PROVE  emits' \in [Roles -> 0..MaxEmits]
BY Numbers, EmitterAssumption DEF Calling

LEMMA OneMore ==
    ASSUME NEW f \in [Roles -> Nat], NEW r \in Roles
    PROVE  [f EXCEPT ![r] = @ + 1] \in [Roles -> Nat]
OBVIOUS

LEMMA CallerTypes ==
    ASSUME EmitterTypeOK, NEW r \in Roles, Caller(r)
    PROVE  EmitterTypeOK'
<1> USE EmitterAssumption
<1>1. CASE EmitClosed(r)
  <2> DEFINE c == [stats[r] EXCEPT !.dropped = @ + 1]
  <2>1. c \in Stats
    BY OneDropped DEF EmitterTypeOK
  <2>2. stats' = [stats EXCEPT ![r] = c]
    BY <1>1 DEF EmitClosed
  <2> HIDE DEF c
  <2>3. stats' \in [Roles -> Stats]
    BY <2>1, <2>2 DEF EmitterTypeOK
  <2>4. emits' \in [Roles -> 0..MaxEmits]
    BY <1>1, OneMoreCall DEF EmitClosed
  <2>5. late' \in [Roles -> Nat]
    BY <1>1, Numbers, OneMore DEF EmitClosed
  <2> QED BY <1>1, <2>3, <2>4, <2>5 DEF EmitClosed, EmitterTypeOK
<1>2. ASSUME NEW d \in Drafts, EmitInvalid(r, d) PROVE EmitterTypeOK'
  <2> DEFINE c == [stats[r] EXCEPT !.rejected = @ + 1]
  <2>1. c \in Stats
    BY OneRejected DEF EmitterTypeOK
  <2>2. stats' = [stats EXCEPT ![r] = c]
    BY <1>2 DEF EmitInvalid
  <2> HIDE DEF c
  <2>3. stats' \in [Roles -> Stats]
    BY <2>1, <2>2 DEF EmitterTypeOK
  <2>4. emits' \in [Roles -> 0..MaxEmits]
    BY <1>2, OneMoreCall DEF EmitInvalid
  <2> QED BY <1>2, <2>3, <2>4 DEF EmitInvalid, EmitterTypeOK
<1>3. ASSUME NEW d \in Drafts, EmitEvent(r, d) PROVE EmitterTypeOK'
  <2> DEFINE e == [role |-> r, at |-> emits[r] + 1, draft |-> d]
             kept == IF Len(ring[r]) = Buffer THEN Tail(ring[r]) ELSE ring[r]
             longer == Append(kept, e)
  <2>1. e \in Event
    BY <1>3, EventType DEF EmitEvent, Calling
  <2>2. ring[r] \in Seq(Event) /\ Len(ring[r]) <= Buffer
    BY DEF EmitterTypeOK
  <2>3. longer \in Seq(Event) /\ Len(longer) <= Buffer
    BY <2>1, <2>2, RingAfter, LenProperties
  <2>4. ring' = [ring EXCEPT ![r] = longer]
    BY <1>3 DEF EmitEvent
  <2> HIDE DEF longer
  <2>5. ring' \in [Roles -> Seq(Event)] /\ \A s \in Roles : Len(ring'[s]) <= Buffer
    BY <2>3, <2>4 DEF EmitterTypeOK
  <2>6. stats' \in [Roles -> Stats]
    <3> DEFINE evicted == IF Len(ring[r]) = Buffer THEN 1 ELSE 0
               c == Accepting(stats[r], evicted)
    <3>1. c \in Stats
      BY OneAccepted DEF EmitterTypeOK
    <3>2. stats' = [stats EXCEPT ![r] = c]
      BY <1>3 DEF EmitEvent
    <3> HIDE DEF c
    <3> QED BY <3>1, <3>2 DEF EmitterTypeOK
  <2>7. emits' \in [Roles -> 0..MaxEmits]
    BY <1>3, OneMoreCall DEF EmitEvent
  <2>8. ringing' \in [Roles -> Nat]
    BY <1>3, Numbers, OneMore DEF EmitEvent
  <2> QED BY <1>3, <2>5, <2>6, <2>7, <2>8 DEF EmitEvent, EmitterTypeOK
<1>4. CASE CloseEmitter(r)
  BY <1>4 DEF CloseEmitter, EmitterTypeOK
<1>5. CASE CloseGivesUp(r)
  <2>1. stats' \in [Roles -> Stats]
    BY <1>5, NoStatsType DEF CloseGivesUp, EmitterTypeOK
  <2>2. ring' \in [Roles -> Seq(Event)] /\ batch' \in [Roles -> Seq(Event)]
    BY <1>5, EmptySeq DEF CloseGivesUp, EmitterTypeOK
  <2>3. \A s \in Roles : Len(ring'[s]) <= Buffer
    <3>1. \A s \in Roles : ring'[s] = <<>> \/ ring'[s] = ring[s]
      BY <1>5 DEF CloseGivesUp, EmitterTypeOK
    <3>2. Len(<<>>) <= Buffer
      BY EmptySeq
    <3> QED BY <3>1, <3>2 DEF EmitterTypeOK
  <2> QED BY <1>5, <2>1, <2>2, <2>3 DEF CloseGivesUp, EmitterTypeOK
<1> QED BY <1>1, <1>2, <1>3, <1>4, <1>5 DEF Caller

LEMMA SenderTypes ==
    ASSUME EmitterTypeOK, NEW r \in Roles,
           RingDoorbell(r) \/ Sender(r) \/ CloseReturns(r) \/ HandedOver(r)
    PROVE  EmitterTypeOK'
<1> USE EmitterAssumption
<1>1. CASE RingDoorbell(r)
  <2>1. ringing[r] - 1 \in Nat
    BY <1>1, Numbers DEF RingDoorbell
  <2>2. ringing' \in [Roles -> Nat]
    BY <1>1, <2>1, Numbers DEF RingDoorbell
  <2> QED BY <1>1, <2>2 DEF RingDoorbell, EmitterTypeOK
<1>2. CASE HearDoorbell(r)
  BY <1>2 DEF HearDoorbell, EmitterTypeOK
<1>3. CASE HearDone(r)
  BY <1>3 DEF HearDone, EmitterTypeOK
<1>4. CASE TakeNothing(r)
  BY <1>4 DEF TakeNothing, EmitterTypeOK
<1>5. CASE LeaveDrain(r)
  BY <1>5 DEF LeaveDrain, EmitterTypeOK
<1>6. CASE Take(r)
  <2> DEFINE n == IF Len(ring[r]) < MaxBatch THEN Len(ring[r]) ELSE MaxBatch
             taken == SubSeq(ring[r], 1, n)
             left == SubSeq(ring[r], n + 1, Len(ring[r]))
  <2>1. ring[r] \in Seq(Event) /\ ring[r] # <<>> /\ Len(ring[r]) <= Buffer
    BY <1>6 DEF Take, EmitterTypeOK
  <2> DEFINE held == Len(ring[r])
             rest == Len(left)
  <2>2. /\ taken \in Seq(Event) /\ left \in Seq(Event)
        /\ Len(taken) \in Nat /\ rest \in Nat /\ Len(taken) + rest = held
    BY <2>1, TakenAndLeft
  <2>3. rest <= Buffer
    <3> DEFINE m == Len(taken)
    <3>1. m \in Nat /\ rest \in Nat /\ m + rest = held /\ held <= Buffer /\ Buffer \in Nat
      BY <2>1, <2>2, EmitterAssumption
    <3> HIDE DEF m, rest, held
    <3> QED BY <3>1
  <2>4. taken \in Seq(Event) /\ left \in Seq(Event) /\ Len(left) <= Buffer
    BY <2>2, <2>3
  <2>5. batch' = [batch EXCEPT ![r] = taken] /\ ring' = [ring EXCEPT ![r] = left]
    BY <1>6 DEF Take
  <2> HIDE DEF taken, left
  <2>6. batch' \in [Roles -> Seq(Event)] /\ ring' \in [Roles -> Seq(Event)]
    BY <2>4, <2>5 DEF EmitterTypeOK
  <2>7. \A s \in Roles : Len(ring'[s]) <= Buffer
    BY <2>4, <2>5 DEF EmitterTypeOK
  <2> QED BY <1>6, <2>6, <2>7 DEF Take, EmitterTypeOK
<1>7. CASE CloseReturns(r)
  BY <1>7 DEF CloseReturns, EmitterTypeOK
<1>8. CASE HandedOver(r)
  BY <1>8 DEF HandedOver, EmitterTypeOK
<1> QED BY <1>1, <1>2, <1>3, <1>4, <1>5, <1>6, <1>7, <1>8 DEF Sender

LEMMA SentTypes ==
    ASSUME EmitterTypeOK, NEW r \in Roles, NEW ok \in BOOLEAN, Sent(r, ok)
    PROVE  EmitterTypeOK'
<1>1. Len(batch[r]) \in Nat
  BY LenProperties DEF EmitterTypeOK
<1>2. stats' \in [Roles -> Stats]
  <2>1. stats[r] \in Stats
    BY DEF EmitterTypeOK
  <2> DEFINE good == [stats[r] EXCEPT !.delivered = @ + Len(batch[r])]
             bad == [stats[r] EXCEPT !.failed = @ + Len(batch[r])]
  <2>2. good \in Stats /\ bad \in Stats
    BY <1>1, <2>1, BatchDelivered, BatchFailed
  <2>3. stats' = [stats EXCEPT ![r] = good] \/ stats' = [stats EXCEPT ![r] = bad]
    BY DEF Sent
  <2> HIDE DEF good, bad
  <2> QED BY <2>2, <2>3 DEF EmitterTypeOK
<1> QED BY <1>2, EmptySeq DEF Sent, EmitterTypeOK
-----------------------------------------------------------------------------
(* Each step of an emitter keeps what is said of it, and leaves the others   *)
(* alone.                                                                    *)

Alone(s) ==
    /\ ring'[s] = ring[s] /\ closed'[s] = closed[s] /\ stats'[s] = stats[s]
    /\ late'[s] = late[s] /\ ringing'[s] = ringing[s] /\ doorbell'[s] = doorbell[s]
    /\ sender'[s] = sender[s] /\ last'[s] = last[s] /\ batch'[s] = batch[s]
    /\ closing'[s] = closing[s]

LEMMA Undisturbed ==
    ASSUME NEW s \in Roles, RoleInv(s), Alone(s)
    PROVE  RoleInv(s)'
BY DEF RoleInv, BatchInv, LastInv, Accounted, WakesUp, Alone

\* What the counters and the queues of a role are.
LEMMA RoleTypes ==
    ASSUME EmitterTypeOK, NEW r \in Roles
    PROVE  /\ stats[r] \in Stats /\ late[r] \in Nat /\ ringing[r] \in Nat
           /\ ring[r] \in Seq(Event) /\ batch[r] \in Seq(Event)
           /\ Len(ring[r]) \in Nat /\ Len(batch[r]) \in Nat /\ Len(ring[r]) <= Buffer
           /\ stats[r].emitted \in Nat /\ stats[r].dropped \in Nat
           /\ stats[r].failed \in Nat /\ stats[r].delivered \in Nat
<1>1. /\ stats[r] \in Stats /\ late[r] \in Nat /\ ringing[r] \in Nat
      /\ ring[r] \in Seq(Event) /\ batch[r] \in Seq(Event) /\ Len(ring[r]) <= Buffer
  BY DEF EmitterTypeOK
<1>2. /\ stats[r].emitted \in Nat /\ stats[r].dropped \in Nat
      /\ stats[r].failed \in Nat /\ stats[r].delivered \in Nat
  BY <1>1 DEF Stats
<1> QED BY <1>1, <1>2, LenProperties

\* The functions of the state, over which a step changes one role.
LEMMA Domains ==
    ASSUME EmitterTypeOK
    PROVE  /\ DOMAIN ring = Roles /\ DOMAIN closed = Roles /\ DOMAIN stats = Roles
           /\ DOMAIN late = Roles /\ DOMAIN ringing = Roles /\ DOMAIN doorbell = Roles
           /\ DOMAIN sender = Roles /\ DOMAIN last = Roles /\ DOMAIN batch = Roles
           /\ DOMAIN closing = Roles
BY DEF EmitterTypeOK

LEMMA Sums ==
    ASSUME NEW emitted \in Nat, NEW l \in Nat, NEW dropped \in Nat, NEW failed \in Nat,
           NEW delivered \in Nat, NEW n \in Nat, NEW b \in Nat,
           emitted + l = dropped + failed + delivered + n + b
    PROVE  /\ emitted + (l + 1) = (dropped + 1) + failed + delivered + n + b
           /\ \A k \in Nat : (emitted + 1) + l = (dropped + k) + failed + delivered + (n + 1 - k) + b
           /\ emitted + l = dropped + (failed + b) + delivered + n + 0
           /\ emitted + l = dropped + failed + (delivered + b) + n + 0
OBVIOUS

LEMMA Balance ==
    ASSUME EmitterTypeOK, NEW r \in Roles, Accounted(r)
    PROVE  LET c == stats[r]
               n == Len(ring[r])
               b == Len(batch[r])
           IN  /\ c.emitted + (late[r] + 1) = (c.dropped + 1) + c.failed + c.delivered + n + b
               /\ \A k \in Nat : (c.emitted + 1) + late[r] =
                                  (c.dropped + k) + c.failed + c.delivered + (n + 1 - k) + b
               /\ c.emitted + late[r] = c.dropped + (c.failed + b) + c.delivered + n + 0
               /\ c.emitted + late[r] = c.dropped + c.failed + (c.delivered + b) + n + 0
<1> DEFINE emitted == stats[r].emitted
           l == late[r]
           dropped == stats[r].dropped
           failed == stats[r].failed
           delivered == stats[r].delivered
           n == Len(ring[r])
           b == Len(batch[r])
<1>1. /\ emitted \in Nat /\ l \in Nat /\ dropped \in Nat /\ failed \in Nat
      /\ delivered \in Nat /\ n \in Nat /\ b \in Nat
  BY RoleTypes
<1>2. emitted + l = dropped + failed + delivered + n + b
  BY DEF Accounted
<1> HIDE DEF emitted, l, dropped, failed, delivered, n, b
<1>3. /\ emitted + (l + 1) = (dropped + 1) + failed + delivered + n + b
      /\ \A k \in Nat : (emitted + 1) + l = (dropped + k) + failed + delivered + (n + 1 - k) + b
      /\ emitted + l = dropped + (failed + b) + delivered + n + 0
      /\ emitted + l = dropped + failed + (delivered + b) + n + 0
  BY <1>1, <1>2, Sums
<1> QED BY <1>3 DEF emitted, l, dropped, failed, delivered, n, b

LEMMA CallerKeeps ==
    ASSUME EmitterTypeOK, NEW r \in Roles, RoleInv(r), Caller(r)
    PROVE  RoleInv(r)' /\ \A s \in Roles \ {r} : Alone(s)
<1>1. CASE EmitClosed(r)
  <2> DEFINE c == [stats[r] EXCEPT !.dropped = @ + 1]
  <2>1. /\ c.emitted = stats[r].emitted /\ c.dropped = stats[r].dropped + 1
        /\ c.failed = stats[r].failed /\ c.delivered = stats[r].delivered
    BY OneDropped, RoleTypes
  <2>2. stats' = [stats EXCEPT ![r] = c]
    BY <1>1 DEF EmitClosed
  <2> HIDE DEF c
  <2>3. stats'[r] = c /\ late'[r] = late[r] + 1
    BY <1>1, <2>2, Domains, Numbers DEF EmitClosed
  <2>4. Accounted(r)'
    <3>1. /\ stats[r].emitted + (late[r] + 1) =
                (stats[r].dropped + 1) + stats[r].failed + stats[r].delivered
                + Len(ring[r]) + Len(batch[r])
      BY Balance DEF RoleInv
    <3>2. ring' = ring /\ batch' = batch
      BY <1>1 DEF EmitClosed
    <3> QED BY <3>1, <3>2, <2>1, <2>3 DEF Accounted
  <2>5. BatchInv(r)' /\ LastInv(r)' /\ WakesUp(r)'
    BY <1>1 DEF EmitClosed, RoleInv, BatchInv, LastInv, WakesUp
  <2>6. \A s \in Roles \ {r} : Alone(s)
    BY <1>1, <2>2, Domains DEF EmitClosed, Alone
  <2> QED BY <2>4, <2>5, <2>6 DEF RoleInv
<1>2. ASSUME NEW d \in Drafts, EmitInvalid(r, d)
      PROVE  RoleInv(r)' /\ \A s \in Roles \ {r} : Alone(s)
  <2> DEFINE c == [stats[r] EXCEPT !.rejected = @ + 1]
  <2>1. /\ c.emitted = stats[r].emitted /\ c.dropped = stats[r].dropped
        /\ c.failed = stats[r].failed /\ c.delivered = stats[r].delivered
    BY OneRejected, RoleTypes
  <2>2. stats' = [stats EXCEPT ![r] = c]
    BY <1>2 DEF EmitInvalid
  <2> HIDE DEF c
  <2>3. stats'[r] = c
    BY <2>2, Domains
  <2>4. Accounted(r)'
    BY <1>2, <2>1, <2>3, RoleTypes DEF EmitInvalid, Accounted, RoleInv
  <2>5. BatchInv(r)' /\ LastInv(r)' /\ WakesUp(r)'
    BY <1>2 DEF EmitInvalid, RoleInv, BatchInv, LastInv, WakesUp
  <2>6. \A s \in Roles \ {r} : Alone(s)
    BY <1>2, <2>2, Domains DEF EmitInvalid, Alone
  <2> QED BY <2>4, <2>5, <2>6 DEF RoleInv
<1>3. ASSUME NEW d \in Drafts, EmitEvent(r, d)
      PROVE  RoleInv(r)' /\ \A s \in Roles \ {r} : Alone(s)
  <2> DEFINE e == [role |-> r, at |-> emits[r] + 1, draft |-> d]
             kept == IF Len(ring[r]) = Buffer THEN Tail(ring[r]) ELSE ring[r]
             longer == Append(kept, e)
             evicted == IF Len(ring[r]) = Buffer THEN 1 ELSE 0
             c == Accepting(stats[r], evicted)
  <2>1. e \in Event
    BY <1>3, EventType DEF EmitEvent, Calling
  <2>2. /\ longer # <<>>
        /\ Len(longer) = IF Len(ring[r]) = Buffer THEN Len(ring[r]) ELSE Len(ring[r]) + 1
    BY <2>1, RoleTypes, RingAfter
  <2>3. evicted \in Nat /\ Len(longer) = Len(ring[r]) + 1 - evicted
    BY <2>2, RoleTypes
  <2>4. /\ c.emitted = stats[r].emitted + 1 /\ c.dropped = stats[r].dropped + evicted
        /\ c.failed = stats[r].failed /\ c.delivered = stats[r].delivered
    BY <2>3, OneAccepted, RoleTypes
  <2>5. /\ stats' = [stats EXCEPT ![r] = c] /\ ring' = [ring EXCEPT ![r] = longer]
        /\ ringing' = [ringing EXCEPT ![r] = @ + 1] /\ ~closed[r]
        /\ UNCHANGED <<closed, late, doorbell, sender, last, batch, closing>>
    BY <1>3 DEF EmitEvent
  <2> HIDE DEF c, longer, evicted
  <2>6. stats'[r] = c /\ ring'[r] = longer /\ ringing'[r] = ringing[r] + 1
    BY <2>5, Domains
  <2>7. Accounted(r)'
    <3>1. (stats[r].emitted + 1) + late[r] =
              (stats[r].dropped + evicted) + stats[r].failed + stats[r].delivered
              + (Len(ring[r]) + 1 - evicted) + Len(batch[r])
      BY <2>3, Balance DEF RoleInv
    <3> QED BY <3>1, <2>3, <2>4, <2>5, <2>6 DEF Accounted
  <2>8. WakesUp(r)'
    <3>1. ringing'[r] > 0
      BY <2>6, RoleTypes
    <3> QED BY <3>1 DEF WakesUp
  <2>9. BatchInv(r)' /\ LastInv(r)'
    BY <2>5 DEF RoleInv, BatchInv, LastInv
  <2>10. \A s \in Roles \ {r} : Alone(s)
    BY <2>5, Domains DEF Alone
  <2> QED BY <2>7, <2>8, <2>9, <2>10 DEF RoleInv
<1>4. CASE CloseEmitter(r)
  <2>1. closed'[r] /\ closing'[r] = "waiting"
    BY <1>4, Domains DEF CloseEmitter
  <2>2. Accounted(r)'
    BY <1>4 DEF CloseEmitter, RoleInv, Accounted
  <2>3. BatchInv(r)' /\ LastInv(r)' /\ WakesUp(r)'
    BY <1>4, <2>1 DEF CloseEmitter, RoleInv, BatchInv, LastInv, WakesUp
  <2>4. \A s \in Roles \ {r} : Alone(s)
    BY <1>4, Domains DEF CloseEmitter, Alone
  <2> QED BY <2>2, <2>3, <2>4 DEF RoleInv
<1>5. CASE CloseGivesUp(r)
  <2>1. /\ ring'[r] = <<>> /\ batch'[r] = <<>> /\ stats'[r] = NoStats /\ late'[r] = 0
        /\ sender'[r] = "gone" /\ closing'[r] = "gave up" /\ closed' = closed /\ last' = last
    BY <1>5, Domains DEF CloseGivesUp
  <2>2. Len(<<>>) = 0
    BY EmptySeq
  <2>3. Accounted(r)'
    <3>1. 0 + 0 = 0 + 0 + 0 + 0 + 0
      OBVIOUS
    <3> QED BY <3>1, <2>1, <2>2, NoStatsType DEF Accounted
  <2>4. BatchInv(r)' /\ LastInv(r)' /\ WakesUp(r)'
    BY <2>1 DEF RoleInv, BatchInv, LastInv, WakesUp
  <2>5. \A s \in Roles \ {r} : Alone(s)
    BY <1>5, Domains DEF CloseGivesUp, Alone
  <2> QED BY <2>3, <2>4, <2>5 DEF RoleInv
<1> QED BY <1>1, <1>2, <1>3, <1>4, <1>5 DEF Caller

LEMMA SenderKeeps ==
    ASSUME EmitterTypeOK, NEW r \in Roles, RoleInv(r),
           RingDoorbell(r) \/ Sender(r) \/ CloseReturns(r) \/ HandedOver(r)
    PROVE  RoleInv(r)' /\ \A s \in Roles \ {r} : Alone(s)
<1>1. CASE RingDoorbell(r)
  <2>1. doorbell'[r] = TRUE
    BY <1>1, Domains DEF RingDoorbell
  <2>2. Accounted(r)' /\ BatchInv(r)' /\ LastInv(r)' /\ WakesUp(r)'
    BY <1>1, <2>1 DEF RingDoorbell, RoleInv, Accounted, BatchInv, LastInv, WakesUp
  <2>3. \A s \in Roles \ {r} : Alone(s)
    BY <1>1, Domains DEF RingDoorbell, Alone
  <2> QED BY <2>2, <2>3 DEF RoleInv
<1>2. CASE HearDoorbell(r)
  <2>1. sender[r] = "select" /\ sender'[r] = "drain"
    BY <1>2, Domains DEF HearDoorbell
  <2>2. Accounted(r)' /\ BatchInv(r)' /\ LastInv(r)' /\ WakesUp(r)'
    BY <1>2, <2>1 DEF HearDoorbell, RoleInv, Accounted, BatchInv, LastInv, WakesUp
  <2>3. \A s \in Roles \ {r} : Alone(s)
    BY <1>2, Domains DEF HearDoorbell, Alone
  <2> QED BY <2>2, <2>3 DEF RoleInv
<1>3. CASE HearDone(r)
  <2>1. sender[r] = "select" /\ sender'[r] = "drain" /\ last'[r] /\ closed[r]
    BY <1>3, Domains DEF HearDone
  <2>2. Accounted(r)' /\ BatchInv(r)' /\ LastInv(r)' /\ WakesUp(r)'
    BY <1>3, <2>1 DEF HearDone, RoleInv, Accounted, BatchInv, LastInv, WakesUp
  <2>3. \A s \in Roles \ {r} : Alone(s)
    BY <1>3, Domains DEF HearDone, Alone
  <2> QED BY <2>2, <2>3 DEF RoleInv
<1>4. CASE TakeNothing(r)
  <2>1. sender[r] = "drain" /\ sender'[r] = "drained" /\ ring[r] = <<>>
    BY <1>4, Domains DEF TakeNothing
  <2>2. Accounted(r)' /\ BatchInv(r)' /\ LastInv(r)' /\ WakesUp(r)'
    BY <1>4, <2>1 DEF TakeNothing, RoleInv, Accounted, BatchInv, LastInv, WakesUp
  <2>3. \A s \in Roles \ {r} : Alone(s)
    BY <1>4, Domains DEF TakeNothing, Alone
  <2> QED BY <2>2, <2>3 DEF RoleInv
<1>5. CASE LeaveDrain(r)
  <2>1. sender[r] = "drained" /\ sender'[r] = IF last[r] THEN "stopped" ELSE "select"
    BY <1>5, Domains DEF LeaveDrain
  <2>2. Accounted(r)' /\ BatchInv(r)' /\ LastInv(r)' /\ WakesUp(r)'
    BY <1>5, <2>1 DEF LeaveDrain, RoleInv, Accounted, BatchInv, LastInv, WakesUp
  <2>3. \A s \in Roles \ {r} : Alone(s)
    BY <1>5, Domains DEF LeaveDrain, Alone
  <2> QED BY <2>2, <2>3 DEF RoleInv
<1>6. CASE Take(r)
  <2> DEFINE n == IF Len(ring[r]) < MaxBatch THEN Len(ring[r]) ELSE MaxBatch
             taken == SubSeq(ring[r], 1, n)
             left == SubSeq(ring[r], n + 1, Len(ring[r]))
  <2>1. sender[r] = "drain" /\ ring[r] # <<>> /\ batch[r] = <<>>
    BY <1>6 DEF Take, RoleInv, BatchInv
  <2>2. Len(taken) \in Nat /\ Len(left) \in Nat /\ Len(taken) + Len(left) = Len(ring[r])
    BY <2>1, RoleTypes, TakenAndLeft
  <2>3. batch' = [batch EXCEPT ![r] = taken] /\ ring' = [ring EXCEPT ![r] = left]
    BY <1>6 DEF Take
  <2> HIDE DEF taken, left
  <2>4. batch'[r] = taken /\ ring'[r] = left /\ sender'[r] = "sending"
    BY <1>6, <2>3, Domains DEF Take
  <2>5. /\ stats[r].emitted + late[r] =
              stats[r].dropped + stats[r].failed + stats[r].delivered + Len(left) + Len(taken)
    <3> DEFINE counted == stats[r].dropped + stats[r].failed + stats[r].delivered
               whole == Len(ring[r])
    <3>1. stats[r].emitted + late[r] = counted + whole + 0
      BY <2>1, EmptySeq DEF RoleInv, Accounted
    <3>2. counted \in Nat /\ whole \in Nat
      BY RoleTypes
    <3> HIDE DEF counted
    <3>3. counted + whole + 0 = counted + Len(left) + Len(taken)
      BY <2>2, <3>2
    <3> QED BY <3>1, <3>3 DEF counted
  <2>6. stats' = stats /\ late' = late
    BY <1>6 DEF Take
  <2>7. Accounted(r)'
    BY <2>4, <2>5, <2>6 DEF Accounted
  <2>8. BatchInv(r)' /\ LastInv(r)' /\ WakesUp(r)'
    BY <1>6, <2>1, <2>4 DEF Take, RoleInv, BatchInv, LastInv, WakesUp
  <2>9. \A s \in Roles \ {r} : Alone(s)
    BY <1>6, <2>3, Domains DEF Take, Alone
  <2> QED BY <2>7, <2>8, <2>9 DEF RoleInv
<1>7. CASE CloseReturns(r)
  <2>1. sender[r] = "stopped" /\ sender' = sender
    BY <1>7 DEF CloseReturns
  <2>2. Accounted(r)' /\ BatchInv(r)' /\ LastInv(r)' /\ WakesUp(r)'
    BY <1>7, <2>1 DEF CloseReturns, RoleInv, Accounted, BatchInv, LastInv, WakesUp
  <2>3. \A s \in Roles \ {r} : Alone(s)
    BY <1>7, Domains DEF CloseReturns, Alone
  <2> QED BY <2>2, <2>3 DEF RoleInv
<1>8. CASE HandedOver(r)
  <2>1. sender[r] = "sending" /\ sender'[r] = "awaiting"
    BY <1>8, Domains DEF HandedOver
  <2>2. Accounted(r)' /\ BatchInv(r)' /\ LastInv(r)' /\ WakesUp(r)'
    BY <1>8, <2>1 DEF HandedOver, RoleInv, Accounted, BatchInv, LastInv, WakesUp
  <2>3. \A s \in Roles \ {r} : Alone(s)
    BY <1>8, Domains DEF HandedOver, Alone
  <2> QED BY <2>2, <2>3 DEF RoleInv
<1> QED BY <1>1, <1>2, <1>3, <1>4, <1>5, <1>6, <1>7, <1>8 DEF Sender

LEMMA SentKeeps ==
    ASSUME EmitterTypeOK, NEW r \in Roles, RoleInv(r), NEW ok \in BOOLEAN, Sent(r, ok)
    PROVE  RoleInv(r)' /\ \A s \in Roles \ {r} : Alone(s)
<1> DEFINE good == [stats[r] EXCEPT !.delivered = @ + Len(batch[r])]
           bad == [stats[r] EXCEPT !.failed = @ + Len(batch[r])]
<1>1. /\ good.emitted = stats[r].emitted /\ good.dropped = stats[r].dropped
      /\ good.failed = stats[r].failed
      /\ good.delivered = stats[r].delivered + Len(batch[r])
  BY RoleTypes, BatchDelivered
<1>2. /\ bad.emitted = stats[r].emitted /\ bad.dropped = stats[r].dropped
      /\ bad.failed = stats[r].failed + Len(batch[r])
      /\ bad.delivered = stats[r].delivered
  BY RoleTypes, BatchFailed
<1>3. stats' = [stats EXCEPT ![r] = good] \/ stats' = [stats EXCEPT ![r] = bad]
  BY DEF Sent
<1> HIDE DEF good, bad
<1>4. /\ stats'[r] = good \/ stats'[r] = bad
      /\ \A s \in Roles \ {r} : stats'[s] = stats[s]
  BY <1>3, Domains
<1>5. sender[r] \in {"sending", "awaiting"} /\ sender'[r] = "drain" /\ batch'[r] = <<>>
  BY Domains DEF Sent
<1>6. ring' = ring /\ late' = late /\ Len(<<>>) = 0
  BY EmptySeq DEF Sent
<1>7. Accounted(r)'
  <2>1. /\ good.emitted + late[r] =
              good.dropped + good.failed + good.delivered + Len(ring[r]) + 0
        /\ bad.emitted + late[r] =
              bad.dropped + bad.failed + bad.delivered + Len(ring[r]) + 0
    BY <1>1, <1>2, Balance DEF RoleInv
  <2> QED BY <1>4, <1>5, <1>6, <2>1 DEF Accounted
<1>8. BatchInv(r)' /\ LastInv(r)' /\ WakesUp(r)'
  BY <1>5, <1>6 DEF Sent, RoleInv, BatchInv, LastInv, WakesUp
<1>9. \A s \in Roles \ {r} : Alone(s)
  BY <1>4, Domains DEF Sent, Alone
<1> QED BY <1>7, <1>8, <1>9 DEF RoleInv
-----------------------------------------------------------------------------
LEMMA EmitterInvInit == Init => EmitterInv
<1> SUFFICES ASSUME Init PROVE EmitterInv
  OBVIOUS
<1>1. EmitterInit
  BY DEF Init
<1>2. Len(<<>>) = 0 /\ \A S : <<>> \in Seq(S)
  BY EmptySeq
<1>3. EmitterTypeOK
  <2>1. stats \in [Roles -> Stats]
    BY <1>1, NoStatsType DEF EmitterInit
  <2>2. ring \in [Roles -> Seq(Event)] /\ batch \in [Roles -> Seq(Event)]
    BY <1>1, <1>2 DEF EmitterInit
  <2>3. \A r \in Roles : Len(ring[r]) <= Buffer
    BY <1>1, <1>2, EmitterAssumption DEF EmitterInit
  <2> QED BY <1>1, <2>1, <2>2, <2>3, EmitterAssumption DEF EmitterInit, EmitterTypeOK
<1>4. ASSUME NEW r \in Roles PROVE RoleInv(r)
  <2>1. /\ ring[r] = <<>> /\ batch[r] = <<>> /\ stats[r] = NoStats /\ late[r] = 0
        /\ sender[r] = "select" /\ last[r] = FALSE /\ closing[r] = "no"
    BY <1>1 DEF EmitterInit
  <2>2. 0 + 0 = 0 + 0 + 0 + 0 + 0
    OBVIOUS
  <2>3. Accounted(r)
    BY <1>2, <2>1, <2>2, NoStatsType DEF Accounted
  <2> QED BY <2>1, <2>3 DEF RoleInv, BatchInv, LastInv, WakesUp
<1> QED BY <1>3, <1>4 DEF EmitterInv

LEMMA EmitterInvNext == EmitterInv /\ [Next]_vars => EmitterInv'
<1> SUFFICES ASSUME EmitterInv, [Next]_vars PROVE EmitterInv'
  OBVIOUS
<1>1. EmitterTypeOK /\ \A r \in Roles : RoleInv(r)
  BY DEF EmitterInv
<1>2. ASSUME NEW r \in Roles,
             EmitterTypeOK', RoleInv(r)', \A s \in Roles \ {r} : Alone(s)
      PROVE  EmitterInv'
  BY <1>1, <1>2, Undisturbed DEF EmitterInv
<1>3. CASE \E r \in Roles : Caller(r) \/ RingDoorbell(r) \/ Sender(r) \/ CloseReturns(r)
  <2>1. PICK r \in Roles : Caller(r) \/ RingDoorbell(r) \/ Sender(r) \/ CloseReturns(r)
    BY <1>3
  <2>2. CASE Caller(r)
    BY <1>1, <1>2, <2>2, CallerTypes, CallerKeeps
  <2>3. CASE RingDoorbell(r) \/ Sender(r) \/ CloseReturns(r)
    BY <1>1, <1>2, <2>3, SenderTypes, SenderKeeps
  <2> QED BY <2>1, <2>2, <2>3
<1>4. CASE \E r \in Roles : HandedOver(r) \/ \E ok \in BOOLEAN : Sent(r, ok)
  <2>1. PICK r \in Roles : HandedOver(r) \/ \E ok \in BOOLEAN : Sent(r, ok)
    BY <1>4
  <2>2. CASE HandedOver(r)
    BY <1>1, <1>2, <2>2, SenderTypes, SenderKeeps
  <2>3. ASSUME NEW ok \in BOOLEAN, Sent(r, ok) PROVE EmitterInv'
    BY <1>1, <1>2, <2>3, SentTypes, SentKeeps
  <2> QED BY <2>1, <2>2, <2>3
<1>5. CASE UNCHANGED emitterVars
  BY <1>1, <1>5 DEF emitterVars, EmitterInv, EmitterTypeOK, RoleInv, Accounted, BatchInv, LastInv,
                    WakesUp
<1> QED BY <1>3, <1>4, <1>5, StepOfOneEmitter

LEMMA EmitterInvariant == Spec => []EmitterInv
BY EmitterInvInit, EmitterInvNext, PTL DEF Spec

\* Type correctness of the emitters, among them that no ring outgrows its buffer.
THEOREM EmittersTypeCorrect == Spec => []EmitterTypeOK
<1>1. EmitterInv => EmitterTypeOK
  BY DEF EmitterInv
<1> QED BY <1>1, EmitterInvariant, PTL

\* Every event a process accepted is in its ring, with its sink, or counted as
\* evicted, failed or delivered, for any sizes and any interleaving.
THEOREM NothingUncounted == Spec => []EventsAccounted
<1>1. EmitterInv => EventsAccounted
  BY DEF EmitterInv, RoleInv, Accounted, EventsAccounted
<1> QED BY <1>1, EmitterInvariant, PTL

\* A Close that reports success left no event behind.
THEOREM NothingLeftBehind == Spec => []CloseFlushes
<1>1. EmitterInv => CloseFlushes
  BY DEF EmitterInv, RoleInv, LastInv, BatchInv, CloseFlushes
<1> QED BY <1>1, EmitterInvariant, PTL

\* No event waits in a ring that nothing will make the sender look into.
THEOREM NothingSleptThrough == Spec => []NoWakeUpLost
<1>1. EmitterInv => NoWakeUpLost
  BY DEF EmitterInv, RoleInv, WakesUp, NoWakeUpLost
<1> QED BY <1>1, EmitterInvariant, PTL
-----------------------------------------------------------------------------
(* Induction: a non-empty set of naturals has a least element. *)

LessThan == {pair \in Nat \X Nat : pair[1] < pair[2]}

LEMMA LeastNatural ==
    ASSUME NEW T \in SUBSET Nat, T # {}
    PROVE  \E x \in T : \A y \in T : x <= y
<1>1. IsWellFoundedOn(LessThan, Nat)
  BY NatLessThanWellFounded DEF OpToRel, LessThan
<1>2. PICK x \in T : \A y \in T : <<y, x>> \notin LessThan
  BY <1>1, WFMin
<1>3. ASSUME NEW y \in T PROVE x <= y
  <2>1. x \in Nat /\ y \in Nat
    OBVIOUS
  <2>2. ~(y < x)
    BY <1>2, <2>1 DEF LessThan
  <2> QED BY <2>1, <2>2
<1> QED BY <1>3

-----------------------------------------------------------------------------
(* Records that follow each other. *)

Record == [seq : Nat, event : Event]

\* s is the records of log that follow each other up to number n.
Follows(s, n, log) ==
    /\ Len(s) <= n
    /\ \A i \in 1..Len(s) : s[i].seq = n - Len(s) + i /\ s[i].event = log[n - Len(s) + i]

LEMMA NothingFollows ==
    ASSUME NEW n \in Nat, NEW log
    PROVE  <<>> \in Seq(Record) /\ Follows(<<>>, n, log)
BY EmptySeq DEF Follows

\* One more event in the log leaves what was there alone.
LEMMA LongerLog ==
    ASSUME NEW s \in Seq(Record), NEW n \in Nat, NEW log \in Seq(Event), NEW e \in Event,
           n <= Len(log), Follows(s, n, log)
    PROVE  Follows(s, n, Append(log, e))
<1>1. Len(s) \in Nat /\ Len(log) \in Nat
  BY LenProperties
<1>2. \A i \in 1..Len(s) : n - Len(s) + i \in 1..Len(log)
  BY <1>1 DEF Follows
<1>3. \A i \in 1..Len(log) : Append(log, e)[i] = log[i]
  BY AppendProperties
<1> QED BY <1>2, <1>3 DEF Follows

\* The record of the new event follows those of the log so far.
LEMMA OneMoreFollows ==
    ASSUME NEW s \in Seq(Record), NEW log \in Seq(Event), NEW e \in Event,
           Follows(s, Len(log), log)
    PROVE  LET rec == [seq |-> Len(log) + 1, event |-> e]
           IN  /\ rec \in Record
               /\ Append(s, rec) \in Seq(Record)
               /\ Follows(Append(s, rec), Len(log) + 1, Append(log, e))
<1> DEFINE rec == [seq |-> Len(log) + 1, event |-> e]
           t == Append(s, rec)
           m == Append(log, e)
<1>1. Len(s) \in Nat /\ Len(log) \in Nat
  BY LenProperties
<1>2. rec \in Record
  BY <1>1 DEF Record
<1>3. /\ t \in Seq(Record) /\ Len(t) = Len(s) + 1 /\ t[Len(s) + 1] = rec
      /\ \A i \in 1..Len(s) : t[i] = s[i]
  BY <1>2, AppendProperties
<1>4. m[Len(log) + 1] = e /\ \A i \in 1..Len(log) : m[i] = log[i]
  BY AppendProperties
<1>5. rec.seq = Len(log) + 1 /\ rec.event = e
  OBVIOUS
<1> HIDE DEF t, m, rec
<1>6. ASSUME NEW i \in 1..(Len(s) + 1)
      PROVE  t[i].seq = Len(log) - Len(s) + i /\ t[i].event = m[Len(log) - Len(s) + i]
  <2>1. CASE i = Len(s) + 1
    <3>1. Len(log) - Len(s) + i = Len(log) + 1
      BY <1>1, <2>1
    <3> QED BY <1>3, <1>4, <1>5, <2>1, <3>1
  <2>2. CASE i \in 1..Len(s)
    <3>1. Len(log) - Len(s) + i \in 1..Len(log)
      BY <1>1, <2>2 DEF Follows
    <3> QED BY <1>3, <1>4, <2>2, <3>1 DEF Follows
  <2> QED BY <1>1, <2>1, <2>2
<1>7. Len(s) + 1 <= Len(log) + 1 /\ (Len(log) + 1) - (Len(s) + 1) = Len(log) - Len(s)
  BY <1>1 DEF Follows
<1>8. Follows(t, Len(log) + 1, m)
  BY <1>3, <1>6, <1>7 DEF Follows
<1> QED BY <1>2, <1>3, <1>8 DEF t, m, rec

\* What is left of a run of records without its first k.
LEMMA SuffixFollows ==
    ASSUME NEW s \in Seq(Record), NEW n \in Nat, NEW log, Follows(s, n, log),
           NEW k \in 0..Len(s)
    PROVE  /\ SubSeq(s, k + 1, Len(s)) \in Seq(Record)
           /\ Len(SubSeq(s, k + 1, Len(s))) = Len(s) - k
           /\ Follows(SubSeq(s, k + 1, Len(s)), n, log)
<1> DEFINE t == SubSeq(s, k + 1, Len(s))
<1>1. Len(s) \in Nat /\ k \in Nat
  BY LenProperties
<1>2. k + 1 \in Int /\ Len(s) \in Int /\ \A i \in (k + 1)..Len(s) : s[i] \in Record
  <2>1. \A i \in (k + 1)..Len(s) : i \in 1..Len(s)
    BY <1>1
  <2> QED BY <1>1, <2>1, ElementOfSeq
<1>3. /\ t \in Seq(Record)
      /\ Len(t) = IF k + 1 <= Len(s) THEN Len(s) - (k + 1) + 1 ELSE 0
      /\ \A i \in 1..(Len(s) - (k + 1) + 1) : t[i] = s[(k + 1) + i - 1]
  BY <1>2, SubSeqProperties
<1> HIDE DEF t
<1>4. Len(t) = Len(s) - k
  BY <1>1, <1>3
<1>5. ASSUME NEW i \in 1..Len(t)
      PROVE  t[i].seq = n - Len(t) + i /\ t[i].event = log[n - Len(t) + i]
  <2>1. (k + 1) + i - 1 = k + i /\ k + i \in 1..Len(s) /\ i \in 1..(Len(s) - (k + 1) + 1)
    BY <1>1, <1>4
  <2>2. t[i] = s[k + i]
    BY <1>3, <2>1
  <2>3. n - Len(s) + (k + i) = n - Len(t) + i
    BY <1>1, <1>4
  <2> QED BY <2>1, <2>2, <2>3 DEF Follows
<1>6. Len(t) <= n
  BY <1>1, <1>4 DEF Follows
<1>7. Follows(t, n, log)
  BY <1>5, <1>6 DEF Follows
<1> QED BY <1>3, <1>4, <1>7 DEF t

LEMMA TailFollows ==
    ASSUME NEW s \in Seq(Record), s # <<>>, NEW n \in Nat, NEW log, Follows(s, n, log)
    PROVE  /\ Tail(s) \in Seq(Record) /\ Len(Tail(s)) = Len(s) - 1
           /\ Follows(Tail(s), n, log)
           /\ Head(s) \in Record
           /\ Head(s).seq = n - Len(Tail(s))
           /\ Head(s).event = log[n - Len(Tail(s))]
           /\ Head(s).seq \in 1..n
<1>1. Len(s) \in Nat \ {0}
  BY EmptySeq
<1>2. Tail(s) = SubSeq(s, 2, Len(s))
  BY TailIsSubSeq
<1>3. /\ Tail(s) \in Seq(Record) /\ Len(Tail(s)) = Len(s) - 1 /\ Head(s) \in Record
  BY HeadTailProperties
<1>4. Follows(Tail(s), n, log)
  <2>1. 1 \in 0..Len(s) /\ 1 + 1 = 2
    BY <1>1
  <2>2. Follows(SubSeq(s, 1 + 1, Len(s)), n, log)
    BY <2>1, SuffixFollows
  <2> QED BY <1>2, <2>1, <2>2
<1>5. Head(s) = s[1] /\ 1 \in 1..Len(s)
  BY <1>1
<1>6. n - Len(s) + 1 = n - Len(Tail(s)) /\ n - Len(s) + 1 \in 1..n
  BY <1>1, <1>3 DEF Follows
<1> QED BY <1>3, <1>4, <1>5, <1>6 DEF Follows

\* What Hub.Subscribe's loop has kept after i records of a history of which the
\* first k are too old.
LEMMA KeptSoFar ==
    ASSUME NEW s \in Seq(Record), NEW k \in 0..Len(s), NEW after,
           \A i \in 1..Len(s) : s[i].seq > after <=> i > k,
           NEW f,
           f = [i \in 0..Len(s) |->
                  IF i = 0 THEN <<>>
                  ELSE IF s[i].seq > after THEN Append(f[i - 1], s[i]) ELSE f[i - 1]]
    PROVE  f[Len(s)] = SubSeq(s, k + 1, Len(s))
<1>0. Len(s) \in Nat /\ k \in Nat
  BY LenProperties
<1>1. ASSUME NEW i \in 1..Len(s)
      PROVE  f[i] = IF i > k THEN Append(f[i - 1], s[i]) ELSE f[i - 1]
  <2>1. i \in 0..Len(s) /\ i # 0 /\ (s[i].seq > after <=> i > k)
    BY <1>0
  <2>2. f[i] = IF s[i].seq > after THEN Append(f[i - 1], s[i]) ELSE f[i - 1]
    BY <2>1
  <2> QED BY <2>1, <2>2
<1>2. f[0] = <<>>
  <2>1. 0 \in 0..Len(s)
    BY <1>0
  <2> QED BY <2>1
<1>3. ASSUME NEW i \in 1..Len(s), f[i - 1] = SubSeq(s, k + 1, i - 1)
      PROVE  f[i] = SubSeq(s, k + 1, i)
  <2>1. CASE i > k
    <3>1. f[i] = Append(SubSeq(s, k + 1, i - 1), s[i])
      BY <1>1, <1>3, <2>1
    <3>2. s[i] \in Record /\ \A j \in (k + 1)..(i - 1) : s[j] \in Record
      <4>1. \A j \in (k + 1)..(i - 1) : j \in 1..Len(s)
        BY <1>0
      <4> QED BY <4>1, ElementOfSeq
    <3>3. k + 1 \in Int /\ i - 1 \in Int
      BY <1>0
    <3>4. SubSeq(s, k + 1, i - 1) \in Seq(Record)
      BY <3>2, <3>3, SubSeqProperties
    <3>5. k + 1 \in 1..Len(s) /\ i \in (k + 1)..Len(s)
      BY <1>0, <2>1
    <3>6. SubSeq(s, k + 1, i) = SubSeq(s, k + 1, i - 1) \o <<s[i]>>
      BY <3>5, SubSeqRecursiveSecond
    <3>7. Append(SubSeq(s, k + 1, i - 1), s[i]) = SubSeq(s, k + 1, i - 1) \o <<s[i]>>
      BY <3>2, <3>4, AppendIsConcat
    <3> QED BY <3>1, <3>6, <3>7
  <2>2. CASE ~(i > k)
    <3>1. k + 1 \in Int /\ i \in Int /\ i - 1 \in Int /\ i < k + 1 /\ i - 1 < k + 1
      BY <1>0, <2>2
    <3>2. SubSeq(s, k + 1, i) = <<>> /\ SubSeq(s, k + 1, i - 1) = <<>>
      BY <3>1, SubSeqEmpty
    <3> QED BY <1>1, <1>3, <2>2, <3>2
  <2> QED BY <2>1, <2>2
<1>4. f[0] = SubSeq(s, k + 1, 0)
  <2>1. k + 1 \in Int /\ 0 < k + 1
    BY <1>0
  <2> QED BY <1>2, <2>1, SubSeqEmpty
<1> DEFINE Wrong == {i \in 0..Len(s) : f[i] # SubSeq(s, k + 1, i)}
<1>5. Wrong = {}
  <2>1. SUFFICES ASSUME Wrong # {} PROVE FALSE
    OBVIOUS
  <2>2. Wrong \in SUBSET Nat
    BY <1>0
  <2> HIDE DEF Wrong
  <2>3. PICK i \in Wrong : \A j \in Wrong : i <= j
    BY <2>1, <2>2, LeastNatural
  <2>4. i \in 0..Len(s) /\ f[i] # SubSeq(s, k + 1, i)
    BY <2>3 DEF Wrong
  <2>5. i # 0
    BY <1>4, <2>4
  <2>6. i \in 1..Len(s) /\ i - 1 \in 0..Len(s) /\ ~(i <= i - 1)
    BY <1>0, <2>4, <2>5
  <2>7. i - 1 \notin Wrong
    BY <2>3, <2>6
  <2>8. f[i - 1] = SubSeq(s, k + 1, i - 1)
    BY <2>6, <2>7 DEF Wrong
  <2> QED BY <1>3, <2>4, <2>6, <2>8
<1>6. Len(s) \in 0..Len(s)
  BY <1>0
<1> QED BY <1>5, <1>6

\* The loop keeps the end of the history from the first record it keeps.
LEMMA ReplayIsASuffix ==
    ASSUME history \in Seq(Record), NEW k \in 0..Len(history), NEW after,
           \A i \in 1..Len(history) : history[i].seq > after <=> i > k
    PROVE  Replay(after) = SubSeq(history, k + 1, Len(history))
<1> DEFINE g == [i \in 0..Len(history) |-> SubSeq(history, k + 1, i)]
           f == CHOOSE h : h = [i \in 0..Len(history) |->
                  IF i = 0 THEN <<>>
                  ELSE IF history[i].seq > after THEN Append(h[i - 1], history[i])
                  ELSE h[i - 1]]
<1>0. Len(history) \in Nat /\ k \in Nat
  BY LenProperties
<1>1. g = [i \in 0..Len(history) |->
                  IF i = 0 THEN <<>>
                  ELSE IF history[i].seq > after THEN Append(g[i - 1], history[i])
                  ELSE g[i - 1]]
  <2>1. ASSUME NEW i \in 0..Len(history)
        PROVE  SubSeq(history, k + 1, i) =
                  IF i = 0 THEN <<>>
                  ELSE IF history[i].seq > after
                       THEN Append(SubSeq(history, k + 1, i - 1), history[i])
                       ELSE SubSeq(history, k + 1, i - 1)
    <3>1. CASE i = 0
      BY <1>0, <3>1, SubSeqEmpty
    <3>2. CASE i # 0 /\ ~(i > k)
      <4>1. ~(history[i].seq > after)
        BY <1>0, <3>2
      <4>2. SubSeq(history, k + 1, i) = <<>> /\ SubSeq(history, k + 1, i - 1) = <<>>
        BY <1>0, <3>2, SubSeqEmpty
      <4> QED BY <3>2, <4>1, <4>2
    <3>3. CASE i > k
      <4>1. history[i].seq > after /\ i \in 1..Len(history) /\ history[i] \in Record
        BY <1>0, <3>3, ElementOfSeq
      <4>2. SubSeq(history, k + 1, i - 1) \in Seq(Record)
        <5>1. \A j \in (k + 1)..(i - 1) : history[j] \in Record
          BY <1>0, ElementOfSeq
        <5> QED BY <1>0, <5>1, SubSeqProperties
      <4>a. k + 1 \in 1..Len(history) /\ i \in (k + 1)..Len(history)
        BY <1>0, <3>3
      <4>3. SubSeq(history, k + 1, i) = SubSeq(history, k + 1, i - 1) \o <<history[i]>>
        BY <4>a, SubSeqRecursiveSecond
      <4>4. Append(SubSeq(history, k + 1, i - 1), history[i])
              = SubSeq(history, k + 1, i - 1) \o <<history[i]>>
        BY <4>1, <4>2, AppendIsConcat
      <4> QED BY <1>0, <3>3, <4>1, <4>3, <4>4
    <3> QED BY <1>0, <3>1, <3>2, <3>3
  <2>2. \A i \in 0..Len(history) : i # 0 => i - 1 \in 0..Len(history)
    BY <1>0
  <2> QED BY <2>1, <2>2
<1> HIDE DEF g
<1>2. f = [i \in 0..Len(history) |->
                  IF i = 0 THEN <<>>
                  ELSE IF history[i].seq > after THEN Append(f[i - 1], history[i])
                  ELSE f[i - 1]]
  BY <1>1
<1>3. Replay(after) = f[Len(history)]
  BY DEF Replay
<1> HIDE DEF f
<1> QED BY <1>2, <1>3, KeptSoFar

\* Adding to the end of the second of two runs, and taking from the front.
LEMMA AppendToJoined ==
    ASSUME NEW s \in Seq(Record), NEW t \in Seq(Record), NEW rec \in Record
    PROVE  s \o Append(t, rec) = Append(s \o t, rec)
<1> DEFINE one == <<rec>>
<1>1. one \in Seq(Record)
  OBVIOUS
<1>2. Append(t, rec) = t \o one
  BY AppendIsConcat
<1>3. s \o t \in Seq(Record)
  BY ConcatProperties
<1>4. Append(s \o t, rec) = (s \o t) \o one
  BY <1>3, AppendIsConcat
<1> HIDE DEF one
<1> QED BY <1>1, <1>2, <1>4, ConcatAssociative

LEMMA TailOfJoined ==
    ASSUME NEW s \in Seq(Record), NEW t \in Seq(Record), s # <<>>
    PROVE  /\ s \o t # <<>>
           /\ Head(s \o t) = Head(s)
           /\ Tail(s \o t) = Tail(s) \o t
<1>1. Len(s) \in Nat \ {0} /\ Len(t) \in Nat
  BY EmptySeq, LenProperties
<1>2. /\ s \o t \in Seq(Record) /\ Len(s \o t) = Len(s) + Len(t)
      /\ \A i \in 1..Len(s) + Len(t) :
            (s \o t)[i] = IF i <= Len(s) THEN s[i] ELSE t[i - Len(s)]
  BY ConcatProperties
<1>3. s \o t # <<>>
  BY <1>1, <1>2, EmptySeq
<1>4. /\ Tail(s) \in Seq(Record) /\ Len(Tail(s)) = Len(s) - 1
      /\ \A i \in 1..Len(Tail(s)) : Tail(s)[i] = s[i + 1]
  BY HeadTailProperties
<1>5. /\ Tail(s \o t) \in Seq(Record) /\ Len(Tail(s \o t)) = Len(s) + Len(t) - 1
      /\ \A i \in 1..Len(Tail(s \o t)) : Tail(s \o t)[i] = (s \o t)[i + 1]
  BY <1>2, <1>3, HeadTailProperties
<1>6. /\ Tail(s) \o t \in Seq(Record) /\ Len(Tail(s) \o t) = (Len(s) - 1) + Len(t)
      /\ \A i \in 1..(Len(s) - 1) + Len(t) :
            (Tail(s) \o t)[i] = IF i <= Len(s) - 1 THEN Tail(s)[i] ELSE t[i - (Len(s) - 1)]
  BY <1>4, ConcatProperties
<1> DEFINE u == Tail(s \o t)
           v == Tail(s) \o t
           w == s \o t
<1> HIDE DEF u, v, w
<1>7. \A i \in 1..Len(u) : u[i] = v[i]
  <2>1. ASSUME NEW i \in 1..Len(u) PROVE u[i] = v[i]
    <3>1. i \in 1..(Len(s) + Len(t) - 1) /\ i + 1 \in 1..Len(s) + Len(t)
      BY <1>1, <1>5 DEF u
    <3>2. u[i] = w[i + 1]
      BY <1>5 DEF u, w
    <3>3. w[i + 1] = IF i + 1 <= Len(s) THEN s[i + 1] ELSE t[(i + 1) - Len(s)]
      BY <1>2, <3>1 DEF w
    <3>4. v[i] = IF i <= Len(s) - 1 THEN Tail(s)[i] ELSE t[i - (Len(s) - 1)]
      BY <1>1, <1>6, <3>1 DEF v
    <3>5. i - (Len(s) - 1) = (i + 1) - Len(s) /\ (i + 1 <= Len(s) <=> i <= Len(s) - 1)
      BY <1>1, <3>1
    <3>6. i <= Len(s) - 1 => Tail(s)[i] = s[i + 1]
      BY <1>1, <1>4, <3>1
    <3> QED BY <3>2, <3>3, <3>4, <3>5, <3>6
  <2> QED BY <2>1
<1>8. u \in Seq(Record) /\ v \in Seq(Record) /\ Len(u) = Len(v)
  BY <1>1, <1>5, <1>6 DEF u, v
<1>9. u = v
  BY <1>7, <1>8, SeqEqual
<1>10. Head(s \o t) = Head(s)
  BY <1>1, <1>2
<1> QED BY <1>3, <1>9, <1>10 DEF u, v

\* The history is cut from the front.
LEMMA LastOfFollows ==
    ASSUME NEW s \in Seq(Record), NEW n \in Nat, NEW log, Follows(s, n, log),
           NEW most \in Nat
    PROVE  LastOf(s, most) \in Seq(Record) /\ Follows(LastOf(s, most), n, log)
<1>1. Len(s) \in Nat
  BY LenProperties
<1>2. CASE Len(s) <= most
  BY <1>2 DEF LastOf
<1>3. CASE ~(Len(s) <= most)
  <2>1. Len(s) - most \in 0..Len(s)
    BY <1>1, <1>3
  <2>2. LastOf(s, most) = SubSeq(s, Len(s) - most + 1, Len(s))
    BY <1>3 DEF LastOf
  <2> QED BY <2>1, <2>2, SuffixFollows
<1> QED BY <1>2, <1>3

\* What a stream that resumes after a number is replayed: the end of the
\* history, and nothing up to that number.
LEMMA ReplayFollows ==
    ASSUME history \in Seq(Record), nextSeq \in Nat, Follows(history, nextSeq, published),
           NEW after \in Nat
    PROVE  /\ Replay(after) \in Seq(Record)
           /\ Follows(Replay(after), nextSeq, published)
           /\ after <= nextSeq => after <= nextSeq - Len(Replay(after))
<1> DEFINE old == nextSeq - Len(history)
           k == IF after <= old THEN 0
                ELSE IF after >= nextSeq THEN Len(history) ELSE after - old
<1>1. Len(history) \in Nat /\ old \in Nat
  BY LenProperties DEF Follows
<1>2. k \in 0..Len(history)
  BY <1>1
<1>3. \A i \in 1..Len(history) : history[i].seq = old + i
  BY DEF Follows
<1>4. \A i \in 1..Len(history) : old + i > after <=> i > k
  BY <1>1
<1>5. after <= nextSeq => after <= nextSeq - (Len(history) - k)
  BY <1>1
<1> HIDE DEF k, old
<1>6. \A i \in 1..Len(history) : history[i].seq > after <=> i > k
  BY <1>3, <1>4
<1>7. Replay(after) = SubSeq(history, k + 1, Len(history))
  BY <1>2, <1>6, ReplayIsASuffix
<1>8. /\ SubSeq(history, k + 1, Len(history)) \in Seq(Record)
      /\ Len(SubSeq(history, k + 1, Len(history))) = Len(history) - k
      /\ Follows(SubSeq(history, k + 1, Len(history)), nextSeq, published)
  BY <1>2, SuffixFollows
<1> QED BY <1>5, <1>7, <1>8
-----------------------------------------------------------------------------
(* The hub and the pages. *)

Pending(p) == stream[p].replay \o channel[p]

FeedTypeOK ==
    /\ published \in Seq(Event)
    /\ history \in Seq(Record)
    /\ subscribers \subseteq Pages
    /\ channel \in [Pages -> Seq(Record)]
    /\ handlers \subseteq [batch : Seq(Event), todo : Seq(Event)]
    /\ stream \in [Pages -> [open : BOOLEAN, replay : Seq(Record)]]
    /\ page \in [Pages -> [state : {"connecting", "open", "failed", "closed"},
                           lastSeq : Nat, baseline : BOOLEAN]]
    /\ shown \in [Pages -> Seq(Nat)]
    /\ reported \in [Pages -> SUBSET Nat]

HubInv ==
    /\ nextSeq = Len(published)
    /\ Follows(history, nextSeq, published)

\* What is pending for a page ends at the record published last while the hub
\* serves it, and at an earlier one after that; none of it has been shown.
PageInv(p) ==
    \E n \in 0..nextSeq :
        /\ p \in subscribers => n = nextSeq
        /\ Follows(Pending(p), n, published)
        /\ shown[p] # <<>> => page[p].lastSeq <= n - Len(Pending(p))

Seen(p) == {shown[p][i] : i \in 1..Len(shown[p])}

\* The client's last number is the last it showed, and it has told of the rest.
ShownInv(p) ==
    /\ shown[p] # <<>> =>
        /\ page[p].baseline
        /\ shown[p][Len(shown[p])] = page[p].lastSeq
        /\ Seen(p) \subseteq 1..page[p].lastSeq
    /\ \A m \in Seen(p), n \in Seen(p) : m..n \subseteq Seen(p) \cup reported[p]

FeedInv == FeedTypeOK /\ HubInv /\ \A p \in Pages : PageInv(p) /\ ShownInv(p)

LEMMA FeedInvInit == Init => FeedInv
<1> SUFFICES ASSUME Init PROVE FeedInv
  OBVIOUS
<1> USE DEF Init, HubInit, NoStream, NewPage
<1>1. Len(<<>>) = 0 /\ (\A S : <<>> \in Seq(S)) /\ Follows(<<>>, 0, <<>>)
  BY EmptySeq, NothingFollows
<1>2. FeedTypeOK
  BY <1>1 DEF FeedTypeOK
<1>3. HubInv
  BY <1>1 DEF HubInv
<1>4. ASSUME NEW p \in Pages PROVE PageInv(p) /\ ShownInv(p)
  <2>1. stream[p].replay = <<>> /\ channel[p] = <<>> /\ shown[p] = <<>>
    OBVIOUS
  <2>2. <<>> \o <<>> = <<>>
    BY <1>1, ConcatEmptySeq
  <2>3. Follows(Pending(p), 0, published)
    BY <1>1, <2>1, <2>2 DEF Pending
  <2>4. Seen(p) = {}
    BY <1>1, <2>1 DEF Seen
  <2> QED BY <2>1, <2>3, <2>4 DEF PageInv, ShownInv
<1> QED BY <1>2, <1>3, <1>4 DEF FeedInv
-----------------------------------------------------------------------------
(* Each step keeps the types. *)

LEMMA DeliverTypes ==
    ASSUME FeedTypeOK, NEW p \in Pages, NEW rec \in Record, Deliver(p, rec)
    PROVE  /\ page' \in [Pages -> [state : {"connecting", "open", "failed", "closed"},
                                   lastSeq : Nat, baseline : BOOLEAN]]
           /\ shown' \in [Pages -> Seq(Nat)]
           /\ reported' \in [Pages -> SUBSET Nat]
           /\ page'[p].lastSeq = rec.seq /\ page'[p].baseline
           /\ shown'[p] = Append(shown[p], rec.seq)
           /\ reported'[p] = reported[p] \cup Missing(p, rec.seq)
           /\ \A q \in Pages \ {p} : /\ page'[q] = page[q] /\ shown'[q] = shown[q]
                                     /\ reported'[q] = reported[q]
<1>1. rec.seq \in Nat
  BY DEF Record
<1>2. page[p] \in [state : {"connecting", "open", "failed", "closed"},
                   lastSeq : Nat, baseline : BOOLEAN]
  BY DEF FeedTypeOK
<1>3. Append(shown[p], rec.seq) \in Seq(Nat)
  BY <1>1, AppendProperties DEF FeedTypeOK
<1>4. reported[p] \in SUBSET Nat /\ page[p].lastSeq \in Nat
  BY <1>2 DEF FeedTypeOK
<1>5. Missing(p, rec.seq) \in SUBSET Nat
  BY <1>1, <1>4 DEF Missing
<1>6. shown' = [shown EXCEPT ![p] = Append(shown[p], rec.seq)]
  BY DEF Deliver
<1>7. reported' = [reported EXCEPT ![p] = reported[p] \cup Missing(p, rec.seq)]
  BY DEF Deliver
<1>8. page' = [page EXCEPT ![p] = [page[p] EXCEPT !.lastSeq = rec.seq, !.baseline = TRUE]]
  BY <1>2 DEF Deliver, FeedTypeOK
<1>9. [page[p] EXCEPT !.lastSeq = rec.seq, !.baseline = TRUE]
        \in [state : {"connecting", "open", "failed", "closed"},
             lastSeq : Nat, baseline : BOOLEAN]
  BY <1>1, <1>2
<1>10. /\ [page[p] EXCEPT !.lastSeq = rec.seq, !.baseline = TRUE].lastSeq = rec.seq
       /\ [page[p] EXCEPT !.lastSeq = rec.seq, !.baseline = TRUE].baseline
  BY <1>2
<1>11. /\ page' \in [Pages -> [state : {"connecting", "open", "failed", "closed"},
                              lastSeq : Nat, baseline : BOOLEAN]]
       /\ page'[p] = [page[p] EXCEPT !.lastSeq = rec.seq, !.baseline = TRUE]
       /\ \A q \in Pages \ {p} : page'[q] = page[q]
  BY <1>8, <1>9 DEF FeedTypeOK
<1>12. /\ shown' \in [Pages -> Seq(Nat)] /\ shown'[p] = Append(shown[p], rec.seq)
       /\ \A q \in Pages \ {p} : shown'[q] = shown[q]
  BY <1>3, <1>6 DEF FeedTypeOK
<1>13. /\ reported' \in [Pages -> SUBSET Nat]
       /\ reported'[p] = reported[p] \cup Missing(p, rec.seq)
       /\ \A q \in Pages \ {p} : reported'[q] = reported[q]
  BY <1>4, <1>5, <1>7 DEF FeedTypeOK
<1> QED BY <1>10, <1>11, <1>12, <1>13

\* A page whose stream is gone has nothing pending.
Left(p) ==
    /\ channel' = [channel EXCEPT ![p] = <<>>]
    /\ stream' = [stream EXCEPT ![p] = NoStream]
    /\ subscribers' = subscribers \ {p}
    /\ \E s \in {"connecting", "failed", "closed"} : page' = [page EXCEPT ![p].state = s]
    /\ UNCHANGED <<published, history, nextSeq, handlers, shown, reported>>

LEMMA PageStates ==
    ASSUME FeedTypeOK, NEW p \in Pages,
           NEW s \in {"connecting", "open", "failed", "closed"},
           page' = [page EXCEPT ![p].state = s]
    PROVE  /\ page' \in [Pages -> [state : {"connecting", "open", "failed", "closed"},
                                   lastSeq : Nat, baseline : BOOLEAN]]
           /\ \A q \in Pages : /\ page'[q].lastSeq = page[q].lastSeq
                               /\ page'[q].baseline = page[q].baseline
BY DEF FeedTypeOK

LEMMA LeftTypes ==
    ASSUME FeedTypeOK, NEW p \in Pages, Left(p)
    PROVE  /\ FeedTypeOK'
           /\ channel'[p] = <<>> /\ stream'[p].replay = <<>> /\ p \notin subscribers'
           /\ \A q \in Pages \ {p} : channel'[q] = channel[q] /\ stream'[q] = stream[q]
           /\ \A q \in Pages : /\ page'[q].lastSeq = page[q].lastSeq
                               /\ page'[q].baseline = page[q].baseline
<1>1. <<>> \in Seq(Record)
  BY EmptySeq
<1>2. /\ channel' \in [Pages -> Seq(Record)] /\ channel'[p] = <<>>
      /\ \A q \in Pages \ {p} : channel'[q] = channel[q]
  BY <1>1 DEF Left, FeedTypeOK
<1>3. NoStream \in [open : BOOLEAN, replay : Seq(Record)] /\ NoStream.replay = <<>>
  BY <1>1 DEF NoStream
<1>4. /\ stream' \in [Pages -> [open : BOOLEAN, replay : Seq(Record)]]
      /\ stream'[p] = NoStream
      /\ \A q \in Pages \ {p} : stream'[q] = stream[q]
  BY <1>3 DEF Left, FeedTypeOK
<1>5. /\ page' \in [Pages -> [state : {"connecting", "open", "failed", "closed"},
                              lastSeq : Nat, baseline : BOOLEAN]]
      /\ \A q \in Pages : /\ page'[q].lastSeq = page[q].lastSeq
                          /\ page'[q].baseline = page[q].baseline
  BY PageStates DEF Left
<1> QED BY <1>2, <1>3, <1>4, <1>5 DEF Left, FeedTypeOK

LEMMA LeavingLeaves ==
    ASSUME NEW p \in Pages, StreamEnds(p) \/ StreamBreaks(p) \/ ClosePage(p)
    PROVE  Left(p)
BY DEF StreamEnds, StreamBreaks, ClosePage, Unsubscribe, Left
-----------------------------------------------------------------------------
(* The pages a step leaves alone. *)

Alike(p) ==
    /\ channel'[p] = channel[p] /\ stream'[p].replay = stream[p].replay
    /\ page'[p].lastSeq = page[p].lastSeq /\ page'[p].baseline = page[p].baseline
    /\ shown'[p] = shown[p] /\ reported'[p] = reported[p]
    /\ p \in subscribers' => p \in subscribers

LEMMA AlikeKeeps ==
    ASSUME NEW p \in Pages, PageInv(p), ShownInv(p), Alike(p), UNCHANGED <<published, nextSeq>>
    PROVE  PageInv(p)' /\ ShownInv(p)'
<1>1. Pending(p)' = Pending(p) /\ Seen(p)' = Seen(p)
  BY DEF Alike, Pending, Seen
<1> QED BY <1>1 DEF Alike, PageInv, ShownInv, Follows

LEMMA PublishKeeps ==
    ASSUME FeedInv, NEW e \in Event, Publish(e), UNCHANGED <<stream, page, shown, reported>>
    PROVE  /\ published' \in Seq(Event) /\ history' \in Seq(Record)
           /\ subscribers' \subseteq Pages /\ channel' \in [Pages -> Seq(Record)]
           /\ HubInv' /\ \A p \in Pages : PageInv(p)' /\ ShownInv(p)'
<1> DEFINE rec == [seq |-> nextSeq + 1, event |-> e]
           full == {p \in subscribers : Len(channel[p]) = SubCap}
<1>1. /\ FeedTypeOK /\ nextSeq = Len(published) /\ nextSeq \in Nat
      /\ Follows(history, nextSeq, published)
  BY LenProperties DEF FeedInv, FeedTypeOK, HubInv
<1>2. rec \in Record
  BY <1>1 DEF Record
<1>3. /\ nextSeq' = nextSeq + 1 /\ published' = Append(published, e)
      /\ history' = LastOf(Append(history, rec), HistoryCap)
      /\ channel' = [p \in Pages |-> IF p \in subscribers \ full
                                     THEN Append(channel[p], rec) ELSE channel[p]]
      /\ subscribers' = subscribers \ full
  BY DEF Publish
<1>4. /\ published \in Seq(Event) /\ history \in Seq(Record) /\ subscribers \subseteq Pages
      /\ channel \in [Pages -> Seq(Record)]
      /\ \A p \in Pages : stream[p].replay \in Seq(Record)
  BY <1>1 DEF FeedTypeOK
<1>5. published' \in Seq(Event) /\ Len(published') = nextSeq + 1
  BY <1>1, <1>3, <1>4, AppendProperties
<1>6. /\ Append(history, rec) \in Seq(Record)
      /\ Follows(Append(history, rec), nextSeq + 1, published')
  BY <1>1, <1>3, <1>4, OneMoreFollows
<1> HIDE DEF rec, full
<1>7. history' \in Seq(Record) /\ HubInv'
  <2>1. nextSeq + 1 \in Nat /\ HistoryCap \in Nat
    BY <1>1, HubAssumption
  <2>2. history' \in Seq(Record) /\ Follows(history', nextSeq + 1, published')
    BY <1>3, <1>6, <2>1, LastOfFollows
  <2> QED BY <1>3, <1>5, <2>2 DEF HubInv
<1>8. channel' \in [Pages -> Seq(Record)]
  <2>1. \A p \in Pages : Append(channel[p], rec) \in Seq(Record)
    BY <1>2, <1>4, AppendProperties
  <2> QED BY <1>3, <1>4, <2>1
<1>9. ASSUME NEW p \in Pages PROVE PageInv(p)'
  <2>1. channel[p] \in Seq(Record) /\ stream[p].replay \in Seq(Record)
    BY <1>4
  <2>2. Pending(p) \in Seq(Record) /\ Len(Pending(p)) \in Nat
    BY <2>1, ConcatProperties, LenProperties DEF Pending
  <2>3. PICK n \in 0..nextSeq : /\ p \in subscribers => n = nextSeq
                                /\ Follows(Pending(p), n, published)
                                /\ shown[p] # <<>> => page[p].lastSeq <= n - Len(Pending(p))
    BY DEF FeedInv, PageInv
  <2>4. page' = page /\ shown' = shown /\ stream' = stream
    OBVIOUS
  <2>5. CASE p \in subscribers \ full
    <3>1. channel'[p] = Append(channel[p], rec)
      BY <1>3, <2>5
    <3>2. Pending(p)' = Append(Pending(p), rec)
      <4>1. stream[p].replay \o Append(channel[p], rec) = Append(Pending(p), rec)
        BY <1>2, <2>1, AppendToJoined DEF Pending
      <4> QED BY <2>4, <3>1, <4>1 DEF Pending
    <3>3. n = nextSeq
      BY <2>3, <2>5
    <3>4. Follows(Pending(p)', nextSeq + 1, published')
      BY <1>1, <1>3, <1>4, <2>2, <2>3, <3>2, <3>3, OneMoreFollows DEF rec
    <3>5. Len(Pending(p)') = Len(Pending(p)) + 1
      BY <1>2, <2>2, <3>2, AppendProperties
    <3>6. (nextSeq + 1) - (Len(Pending(p)) + 1) = nextSeq - Len(Pending(p))
      BY <1>1, <2>2
    <3>7. nextSeq + 1 \in 0..(nextSeq + 1)
      BY <1>1
    <3> QED BY <1>3, <2>3, <2>4, <3>3, <3>4, <3>5, <3>6, <3>7 DEF PageInv
  <2>6. CASE p \notin subscribers \ full
    <3>1. channel'[p] = channel[p]
      BY <1>3, <2>6
    <3>2. Pending(p)' = Pending(p)
      BY <2>4, <3>1 DEF Pending
    <3>3. Follows(Pending(p)', n, published')
      BY <1>1, <1>3, <1>4, <2>2, <2>3, <3>2, LongerLog
    <3>4. n \in 0..(nextSeq + 1) /\ p \notin subscribers'
      BY <1>1, <1>3, <2>6
    <3> QED BY <1>3, <2>3, <2>4, <3>2, <3>3, <3>4 DEF PageInv
  <2> QED BY <2>5, <2>6
<1>10. ASSUME NEW p \in Pages PROVE ShownInv(p)'
  BY DEF FeedInv, ShownInv, Seen
<1>11. subscribers' \subseteq Pages
  BY <1>3, <1>4
<1> QED BY <1>5, <1>7, <1>8, <1>9, <1>10, <1>11

\* A page is shown the first record pending for it.
Shows(p) ==
    /\ Pending(p) # <<>>
    /\ Deliver(p, Head(Pending(p)))
    /\ Pending(p)' = Tail(Pending(p))
    /\ \A q \in Pages \ {p} : channel'[q] = channel[q] /\ stream'[q] = stream[q]
    /\ UNCHANGED <<published, nextSeq, subscribers, handlers, history>>

LEMMA WritingShows ==
    ASSUME FeedInv, NEW p \in Pages, WriteReplay(p) \/ WriteLive(p)
    PROVE  Shows(p) /\ channel' \in [Pages -> Seq(Record)]
           /\ stream' \in [Pages -> [open : BOOLEAN, replay : Seq(Record)]]
<1>1. /\ channel \in [Pages -> Seq(Record)] /\ channel[p] \in Seq(Record)
      /\ stream \in [Pages -> [open : BOOLEAN, replay : Seq(Record)]]
      /\ stream[p].replay \in Seq(Record)
  BY DEF FeedInv, FeedTypeOK
<1>2. CASE WriteReplay(p)
  <2>1. stream[p].replay # <<>> /\ Deliver(p, Head(stream[p].replay))
    BY <1>2 DEF WriteReplay
  <2>2. Tail(stream[p].replay) \in Seq(Record)
    BY <1>1, <2>1, HeadTailProperties
  <2>3. stream' = [stream EXCEPT ![p] = [stream[p] EXCEPT !.replay = Tail(stream[p].replay)]]
    BY <1>1, <1>2 DEF WriteReplay
  <2>4. /\ [stream[p] EXCEPT !.replay = Tail(stream[p].replay)]
              \in [open : BOOLEAN, replay : Seq(Record)]
        /\ [stream[p] EXCEPT !.replay = Tail(stream[p].replay)].replay = Tail(stream[p].replay)
    BY <1>1, <2>2
  <2>5. /\ stream' \in [Pages -> [open : BOOLEAN, replay : Seq(Record)]]
        /\ stream'[p].replay = Tail(stream[p].replay)
        /\ \A q \in Pages \ {p} : stream'[q] = stream[q]
    BY <1>1, <2>3, <2>4
  <2>6. UNCHANGED <<hubVars, handlers>>
    BY <1>2 DEF WriteReplay
  <2>7. /\ Pending(p) # <<>> /\ Head(Pending(p)) = Head(stream[p].replay)
        /\ Tail(Pending(p)) = Tail(stream[p].replay) \o channel[p]
    BY <1>1, <2>1, TailOfJoined DEF Pending
  <2>8. UNCHANGED <<channel, published, nextSeq, subscribers, history, handlers>>
    BY <2>6 DEF hubVars
  <2>9. Pending(p)' = Tail(Pending(p))
    BY <2>5, <2>7, <2>8 DEF Pending
  <2>10. Shows(p)
    BY <2>1, <2>5, <2>7, <2>8, <2>9 DEF Shows
  <2> QED BY <1>1, <2>5, <2>8, <2>10
<1>3. CASE WriteLive(p)
  <2>1. stream[p].replay = <<>> /\ channel[p] # <<>> /\ Deliver(p, Head(channel[p]))
    BY <1>3 DEF WriteLive, Receive
  <2>2. Tail(channel[p]) \in Seq(Record)
    BY <1>1, <2>1, HeadTailProperties
  <2>3. channel' = [channel EXCEPT ![p] = Tail(channel[p])]
    BY <1>3 DEF WriteLive, Receive
  <2>4. /\ channel' \in [Pages -> Seq(Record)] /\ channel'[p] = Tail(channel[p])
        /\ \A q \in Pages \ {p} : channel'[q] = channel[q]
    BY <1>1, <2>2, <2>3
  <2>5. UNCHANGED <<stream, history, nextSeq, subscribers, published, handlers>>
    BY <1>3 DEF WriteLive, Receive
  <2>6. Pending(p) = channel[p]
    BY <1>1, <2>1, ConcatEmptySeq DEF Pending
  <2>7. Pending(p)' = Tail(channel[p])
    BY <2>1, <2>2, <2>4, <2>5, ConcatEmptySeq DEF Pending
  <2> QED BY <1>1, <2>1, <2>4, <2>5, <2>6, <2>7 DEF Shows
<1> QED BY <1>2, <1>3

LEMMA ShowsKeeps ==
    ASSUME FeedInv, NEW p \in Pages, Shows(p)
    PROVE  /\ Head(Pending(p)) \in Record
           /\ \A q \in Pages : PageInv(q)' /\ ShownInv(q)'
           /\ shown[p] # <<>> => shown[p][Len(shown[p])] < Head(Pending(p)).seq
           /\ Head(Pending(p)).seq \in 1..Len(published)
           /\ Head(Pending(p)).event = published[Head(Pending(p)).seq]
<1> DEFINE rec == Head(Pending(p))
<1>1. FeedTypeOK /\ nextSeq = Len(published) /\ nextSeq \in Nat
  BY LenProperties DEF FeedInv, FeedTypeOK, HubInv
<1>2. Pending(p) \in Seq(Record)
  <2>1. channel[p] \in Seq(Record) /\ stream[p].replay \in Seq(Record)
    BY <1>1 DEF FeedTypeOK
  <2> QED BY <2>1, ConcatProperties DEF Pending
<1>3. PICK n \in 0..nextSeq : /\ p \in subscribers => n = nextSeq
                              /\ Follows(Pending(p), n, published)
                              /\ shown[p] # <<>> => page[p].lastSeq <= n - Len(Pending(p))
  BY DEF FeedInv, PageInv
<1>4. n \in Nat /\ Pending(p) # <<>>
  BY <1>1 DEF Shows
<1>5. /\ Tail(Pending(p)) \in Seq(Record) /\ Len(Tail(Pending(p))) = Len(Pending(p)) - 1
      /\ Follows(Tail(Pending(p)), n, published)
      /\ rec \in Record /\ rec.seq = n - Len(Tail(Pending(p)))
      /\ rec.event = published[n - Len(Tail(Pending(p)))]
      /\ rec.seq \in 1..n
  BY <1>2, <1>3, <1>4, TailFollows
<1>6. Pending(p)' = Tail(Pending(p)) /\ Deliver(p, rec)
  BY DEF Shows
<1> HIDE DEF rec
<1>7. /\ page'[p].lastSeq = rec.seq /\ page'[p].baseline
      /\ shown'[p] = Append(shown[p], rec.seq)
      /\ reported'[p] = reported[p] \cup Missing(p, rec.seq)
      /\ \A q \in Pages \ {p} : /\ page'[q] = page[q] /\ shown'[q] = shown[q]
                                /\ reported'[q] = reported[q]
  BY <1>1, <1>5, <1>6, DeliverTypes
<1>8. PageInv(p)'
  BY <1>3, <1>5, <1>6, <1>7 DEF Shows, PageInv
<1>9. shown[p] # <<>> => page[p].lastSeq < rec.seq
  <2>1. n - Len(Pending(p)) < rec.seq
    BY <1>2, <1>4, <1>5, LenProperties
  <2>2. page[p].lastSeq \in Nat
    BY <1>1 DEF FeedTypeOK
  <2> QED BY <1>2, <1>3, <1>4, <1>5, <2>1, <2>2, LenProperties
<1>10. /\ shown[p] \in Seq(Nat) /\ rec.seq \in Nat /\ page[p].lastSeq \in Nat
       /\ reported[p] \in SUBSET Nat
  BY <1>1, <1>5 DEF FeedTypeOK, Record
<1>11. Seen(p)' = Seen(p) \cup {rec.seq}
  <2>1. /\ Len(Append(shown[p], rec.seq)) = Len(shown[p]) + 1
        /\ Append(shown[p], rec.seq)[Len(shown[p]) + 1] = rec.seq
        /\ \A i \in 1..Len(shown[p]) : Append(shown[p], rec.seq)[i] = shown[p][i]
        /\ Len(shown[p]) \in Nat
    BY <1>10, AppendProperties, LenProperties
  <2>2. 1..(Len(shown[p]) + 1) = 1..Len(shown[p]) \cup {Len(shown[p]) + 1}
    BY <2>1
  <2> QED BY <1>7, <2>1, <2>2 DEF Seen
<1>12. shown[p] = <<>> => Seen(p) = {}
  BY DEF Seen
<1>13. ShownInv(p) 
  BY DEF FeedInv
<1>14. ShownInv(p)'
  <2>1. /\ Append(shown[p], rec.seq) # <<>>
        /\ shown'[p][Len(shown'[p])] = rec.seq
    BY <1>7, <1>10, AppendProperties
  <2>2. Seen(p)' \subseteq 1..rec.seq
    BY <1>5, <1>9, <1>10, <1>11, <1>12, <1>13 DEF ShownInv
  <2>3. ASSUME NEW m \in Seen(p)', NEW k \in Seen(p)'
        PROVE  m..k \subseteq Seen(p)' \cup reported'[p]
    <3>1. CASE k \in Seen(p) /\ m \in Seen(p)
      BY <1>7, <1>11, <1>13, <3>1 DEF ShownInv
    <3>2. CASE m = rec.seq
      <4>1. k \in 1..rec.seq
        BY <2>2
      <4>2. m..k \subseteq {rec.seq}
        BY <1>10, <3>2, <4>1
      <4> QED BY <1>11, <4>2
    <3>3. CASE k = rec.seq /\ m \in Seen(p)
      <4>1. shown[p] # <<>> /\ m \in 1..page[p].lastSeq /\ page[p].baseline
        BY <1>12, <1>13, <3>3 DEF ShownInv
      <4>2. page[p].lastSeq \in Seen(p)
        <5>1. Len(shown[p]) \in Nat \ {0}
          BY <1>10, <4>1, EmptySeq
        <5> QED BY <1>13, <4>1, <5>1 DEF ShownInv, Seen
      <4>3. m..page[p].lastSeq \subseteq Seen(p) \cup reported[p]
        BY <1>13, <3>3, <4>2 DEF ShownInv
      <4>4. Missing(p, rec.seq) = (page[p].lastSeq + 1)..(rec.seq - 1)
        BY <4>1 DEF Missing
      <4>5. m..k \subseteq m..page[p].lastSeq \cup (page[p].lastSeq + 1)..(rec.seq - 1)
                             \cup {rec.seq}
        BY <1>10, <3>3, <4>1
      <4> QED BY <1>7, <1>11, <4>3, <4>4, <4>5
    <3> QED BY <1>11, <3>1, <3>2, <3>3
  <2> QED BY <1>7, <2>1, <2>2, <2>3 DEF ShownInv
<1>15. ASSUME NEW q \in Pages \ {p} PROVE PageInv(q)' /\ ShownInv(q)'
  <2>1. Alike(q)
    BY <1>7 DEF Alike, Shows
  <2> QED BY <2>1, AlikeKeeps DEF FeedInv, Shows
<1>16. shown[p] # <<>> => shown[p][Len(shown[p])] < rec.seq
  BY <1>9, <1>13 DEF ShownInv
<1>17. rec.seq \in 1..Len(published) /\ rec.event = published[rec.seq]
  BY <1>1, <1>5
<1> QED BY <1>5, <1>8, <1>14, <1>15, <1>16, <1>17 DEF rec

LEMMA ConnectKeeps ==
    ASSUME FeedInv, NEW p \in Pages, Connect(p)
    PROVE  FeedInv'
<1> DEFINE resumed == Replay(page[p].lastSeq)
<1>1. FeedTypeOK /\ nextSeq = Len(published) /\ nextSeq \in Nat
      /\ Follows(history, nextSeq, published) /\ HubInv
  BY LenProperties DEF FeedInv, FeedTypeOK, HubInv
<1>2. page[p].lastSeq \in Nat /\ history \in Seq(Record)
  BY <1>1 DEF FeedTypeOK
<1>3. /\ resumed \in Seq(Record) /\ Follows(resumed, nextSeq, published)
      /\ page[p].lastSeq <= nextSeq => page[p].lastSeq <= nextSeq - Len(resumed)
  BY <1>1, <1>2, ReplayFollows
<1>4. /\ page' = [page EXCEPT ![p].state = "open"]
      /\ stream' = [stream EXCEPT ![p] = [open |-> TRUE, replay |-> resumed]]
      /\ channel' = [channel EXCEPT ![p] = <<>>]
      /\ subscribers' = subscribers \/ subscribers' = subscribers \cup {p}
      /\ UNCHANGED <<published, history, nextSeq, handlers, shown, reported>>
  BY DEF Connect, Subscribe
<1> HIDE DEF resumed
<1>5. <<>> \in Seq(Record)
  BY EmptySeq
<1>6. /\ channel' \in [Pages -> Seq(Record)] /\ channel'[p] = <<>>
      /\ \A q \in Pages \ {p} : channel'[q] = channel[q]
  BY <1>1, <1>4, <1>5 DEF FeedTypeOK
<1>7. [open |-> TRUE, replay |-> resumed] \in [open : BOOLEAN, replay : Seq(Record)]
  BY <1>3
<1>8. /\ stream' \in [Pages -> [open : BOOLEAN, replay : Seq(Record)]]
      /\ stream'[p].replay = resumed
      /\ \A q \in Pages \ {p} : stream'[q] = stream[q]
  BY <1>1, <1>4, <1>7 DEF FeedTypeOK
<1>9. /\ page' \in [Pages -> [state : {"connecting", "open", "failed", "closed"},
                              lastSeq : Nat, baseline : BOOLEAN]]
      /\ \A q \in Pages : /\ page'[q].lastSeq = page[q].lastSeq
                          /\ page'[q].baseline = page[q].baseline
  BY <1>1, <1>4, PageStates
<1>10. FeedTypeOK'
  BY <1>1, <1>4, <1>6, <1>8, <1>9 DEF FeedTypeOK
<1>11. HubInv'
  BY <1>1, <1>4 DEF HubInv
<1>12. ASSUME NEW q \in Pages \ {p} PROVE PageInv(q)' /\ ShownInv(q)'
  <2>1. Alike(q)
    BY <1>4, <1>6, <1>8, <1>9 DEF Alike
  <2> QED BY <1>4, <2>1, AlikeKeeps DEF FeedInv
<1>13. ShownInv(p)'
  BY <1>4, <1>9 DEF FeedInv, ShownInv, Seen
<1>14. PageInv(p)'
  <2>1. shown[p] # <<>> => page[p].lastSeq <= nextSeq
    <3>1. PICK n \in 0..nextSeq : /\ Follows(Pending(p), n, published)
                                  /\ shown[p] # <<>> => page[p].lastSeq <= n - Len(Pending(p))
      BY DEF FeedInv, PageInv
    <3>2. Len(Pending(p)) \in Nat
      BY <1>1, ConcatProperties, LenProperties DEF FeedTypeOK, Pending
    <3> QED BY <1>1, <1>2, <3>1, <3>2
  <2>2. Pending(p)' = resumed
    BY <1>3, <1>6, <1>8, ConcatEmptySeq DEF Pending
  <2>3. nextSeq \in 0..nextSeq
    BY <1>1
  <2> QED BY <1>3, <1>4, <1>9, <2>1, <2>2, <2>3 DEF PageInv
<1> QED BY <1>10, <1>11, <1>12, <1>13, <1>14 DEF FeedInv

LEMMA LeftKeeps ==
    ASSUME FeedInv, NEW p \in Pages, Left(p)
    PROVE  FeedInv'
<1>1. FeedTypeOK /\ HubInv /\ nextSeq \in Nat
  BY LenProperties DEF FeedInv, FeedTypeOK, HubInv
<1>2. /\ FeedTypeOK'
      /\ channel'[p] = <<>> /\ stream'[p].replay = <<>> /\ p \notin subscribers'
      /\ \A q \in Pages \ {p} : channel'[q] = channel[q] /\ stream'[q] = stream[q]
      /\ \A q \in Pages : /\ page'[q].lastSeq = page[q].lastSeq
                          /\ page'[q].baseline = page[q].baseline
  BY <1>1, LeftTypes
<1>3. UNCHANGED <<published, history, nextSeq, shown, reported>> /\ subscribers' \subseteq subscribers
  BY DEF Left
<1>4. HubInv'
  BY <1>1, <1>3 DEF HubInv
<1>5. ASSUME NEW q \in Pages \ {p} PROVE PageInv(q)' /\ ShownInv(q)'
  <2>1. Alike(q)
    BY <1>2, <1>3 DEF Alike
  <2> QED BY <1>3, <2>1, AlikeKeeps DEF FeedInv
<1>6. ShownInv(p)'
  BY <1>2, <1>3 DEF FeedInv, ShownInv, Seen
<1>7. PageInv(p)'
  <2>1. PICK n \in 0..nextSeq : /\ Follows(Pending(p), n, published)
                                /\ shown[p] # <<>> => page[p].lastSeq <= n - Len(Pending(p))
    BY DEF FeedInv, PageInv
  <2>2. Len(Pending(p)) \in Nat /\ page[p].lastSeq \in Nat
    BY <1>1, ConcatProperties, LenProperties DEF FeedTypeOK, Pending
  <2>3. Pending(p)' = <<>>
    BY <1>2, EmptySeq, ConcatEmptySeq DEF Pending
  <2>4. Follows(<<>>, n, published) /\ Len(<<>>) = 0
    BY <1>1, NothingFollows, EmptySeq
  <2>5. shown[p] # <<>> => page[p].lastSeq <= n - 0
    BY <1>1, <2>1, <2>2
  <2> QED BY <1>2, <1>3, <2>3, <2>4, <2>5 DEF PageInv
<1> QED BY <1>2, <1>4, <1>5, <1>6, <1>7 DEF FeedInv

LEMMA RestartKeeps ==
    ASSUME FeedInv, CollectorRestarts
    PROVE  FeedInv'
<1>1. FeedTypeOK
  BY DEF FeedInv
<1>2. /\ history' = <<>> /\ nextSeq' = 0 /\ subscribers' = {} /\ published' = <<>>
      /\ channel' = [p \in Pages |-> <<>>] /\ stream' = [p \in Pages |-> NoStream]
      /\ handlers' = {} /\ shown' = [p \in Pages |-> <<>>] /\ reported' = [p \in Pages |-> {}]
  BY DEF CollectorRestarts, NewHub
<1>3. page' = [p \in Pages |-> IF stream[p].open
                               THEN [page[p] EXCEPT !.state = "connecting"] ELSE page[p]]
  BY DEF CollectorRestarts
<1>4. Len(<<>>) = 0 /\ (\A S : <<>> \in Seq(S)) /\ Follows(<<>>, 0, <<>>)
  BY EmptySeq, NothingFollows
<1>5. page' \in [Pages -> [state : {"connecting", "open", "failed", "closed"},
                           lastSeq : Nat, baseline : BOOLEAN]]
  BY <1>1, <1>3 DEF FeedTypeOK
<1>6. FeedTypeOK'
  BY <1>2, <1>4, <1>5 DEF FeedTypeOK, NoStream
<1>7. HubInv'
  BY <1>2, <1>4 DEF HubInv
<1>8. ASSUME NEW p \in Pages PROVE PageInv(p)' /\ ShownInv(p)'
  <2>1. stream'[p].replay = <<>> /\ channel'[p] = <<>> /\ shown'[p] = <<>>
    BY <1>2 DEF NoStream
  <2>2. Pending(p)' = <<>>
    BY <1>4, <2>1, ConcatEmptySeq DEF Pending
  <2>3. Seen(p)' = {}
    BY <1>4, <2>1 DEF Seen
  <2> QED BY <1>2, <1>4, <2>1, <2>2, <2>3 DEF PageInv, ShownInv
<1> QED BY <1>6, <1>7, <1>8 DEF FeedInv

\* Nothing of the hub or of a page changes.
LEMMA QuietKeeps ==
    ASSUME FeedInv, UNCHANGED <<hubVars, stream, page, shown, reported>>,
           handlers' \subseteq [batch : Seq(Event), todo : Seq(Event)]
    PROVE  FeedInv'
<1>1. UNCHANGED <<published, history, nextSeq, subscribers, channel>>
  BY DEF hubVars
<1>2. FeedTypeOK' /\ HubInv'
  BY <1>1 DEF FeedInv, FeedTypeOK, HubInv
<1>3. ASSUME NEW p \in Pages PROVE PageInv(p)' /\ ShownInv(p)'
  BY <1>1, AlikeKeeps DEF FeedInv, Alike
<1> QED BY <1>2, <1>3 DEF FeedInv

LEMMA IngestKeeps ==
    ASSUME FeedInv, NEW h \in handlers, IngestOne(h)
    PROVE  FeedInv' /\ Head(h.todo) \in Event
<1>1. FeedTypeOK /\ h \in [batch : Seq(Event), todo : Seq(Event)] /\ h.todo # <<>>
  BY DEF FeedInv, FeedTypeOK, IngestOne
<1>2. Head(h.todo) \in Event /\ Tail(h.todo) \in Seq(Event)
  BY <1>1, HeadTailProperties
<1>3. Publish(Head(h.todo)) /\ UNCHANGED <<stream, page, shown, reported>>
  BY DEF IngestOne
<1>4. handlers' = (handlers \ {h}) \cup {[h EXCEPT !.todo = Tail(h.todo)]}
  BY <1>1 DEF IngestOne
<1>5. [h EXCEPT !.todo = Tail(h.todo)] \in [batch : Seq(Event), todo : Seq(Event)]
  BY <1>1, <1>2
<1>6. /\ published' \in Seq(Event) /\ history' \in Seq(Record)
      /\ subscribers' \subseteq Pages /\ channel' \in [Pages -> Seq(Record)]
      /\ HubInv' /\ \A p \in Pages : PageInv(p)' /\ ShownInv(p)'
  BY <1>2, <1>3, PublishKeeps
<1>7. FeedTypeOK'
  BY <1>1, <1>3, <1>4, <1>5, <1>6 DEF FeedTypeOK
<1> QED BY <1>2, <1>6, <1>7 DEF FeedInv

LEMMA FeedInvNext == EmitterInv /\ FeedInv /\ [Next]_vars => FeedInv'
<1> SUFFICES ASSUME EmitterInv, FeedInv, [Next]_vars PROVE FeedInv'
  OBVIOUS
<1>1. FeedTypeOK /\ batch \in [Roles -> Seq(Event)]
  BY DEF FeedInv, EmitterInv, EmitterTypeOK
<1>2. ASSUME NEW r \in Roles, EmitterStep(r) \/ PostFails(r) PROVE FeedInv'
  BY <1>1, <1>2, QuietKeeps DEF EmitterStep, PostFails, feedVars, FeedTypeOK
<1>3. ASSUME NEW r \in Roles, PostArrives(r) PROVE FeedInv'
  <2>1. [batch |-> batch[r], todo |-> batch[r]] \in [batch : Seq(Event), todo : Seq(Event)]
    BY <1>1
  <2>2. /\ handlers' = handlers \cup {[batch |-> batch[r], todo |-> batch[r]]}
        /\ UNCHANGED <<hubVars, stream, page, shown, reported>>
    BY <1>3 DEF PostArrives
  <2> QED BY <1>1, <2>1, <2>2, QuietKeeps DEF FeedTypeOK
<1>4. ASSUME NEW h \in handlers, IngestAnswers(h) PROVE FeedInv'
  <2>1. handlers' \subseteq handlers /\ UNCHANGED <<hubVars, stream, page, shown, reported>>
    BY <1>4 DEF IngestAnswers
  <2> QED BY <1>1, <2>1, QuietKeeps DEF FeedTypeOK
<1>5. ASSUME NEW p \in Pages, WriteReplay(p) \/ WriteLive(p) PROVE FeedInv'
  <2>1. Shows(p) /\ channel' \in [Pages -> Seq(Record)]
        /\ stream' \in [Pages -> [open : BOOLEAN, replay : Seq(Record)]]
    BY <1>5, WritingShows
  <2>2. Head(Pending(p)) \in Record /\ \A q \in Pages : PageInv(q)' /\ ShownInv(q)'
    BY <2>1, ShowsKeeps
  <2>3. /\ page' \in [Pages -> [state : {"connecting", "open", "failed", "closed"},
                                lastSeq : Nat, baseline : BOOLEAN]]
        /\ shown' \in [Pages -> Seq(Nat)] /\ reported' \in [Pages -> SUBSET Nat]
    BY <1>1, <2>1, <2>2, DeliverTypes DEF Shows
  <2>4. UNCHANGED <<published, nextSeq, subscribers, handlers, history>>
    BY <2>1 DEF Shows
  <2>5. FeedTypeOK' /\ HubInv'
    BY <1>1, <2>1, <2>3, <2>4 DEF FeedTypeOK, FeedInv, HubInv
  <2> QED BY <2>2, <2>5 DEF FeedInv
<1>6. ASSUME NEW p \in Pages, StreamEnds(p) \/ StreamBreaks(p) \/ ClosePage(p) PROVE FeedInv'
  BY <1>6, LeavingLeaves, LeftKeeps
<1>7. ASSUME NEW p \in Pages, Reconnect(p) PROVE FeedInv'
  <2>1. /\ page' = [page EXCEPT ![p].state = "connecting"]
        /\ UNCHANGED <<hubVars, handlers, stream, shown, reported>>
    BY <1>7 DEF Reconnect
  <2>2. UNCHANGED <<published, history, nextSeq, subscribers, channel>>
    BY <2>1 DEF hubVars
  <2>3. /\ page' \in [Pages -> [state : {"connecting", "open", "failed", "closed"},
                                lastSeq : Nat, baseline : BOOLEAN]]
        /\ \A q \in Pages : /\ page'[q].lastSeq = page[q].lastSeq
                            /\ page'[q].baseline = page[q].baseline
    BY <1>1, <2>1, PageStates
  <2>4. FeedTypeOK' /\ HubInv'
    BY <1>1, <2>1, <2>2, <2>3 DEF FeedTypeOK, FeedInv, HubInv
  <2>5. ASSUME NEW q \in Pages PROVE PageInv(q)' /\ ShownInv(q)'
    BY <2>1, <2>2, <2>3, AlikeKeeps DEF FeedInv, Alike
  <2> QED BY <2>4, <2>5 DEF FeedInv
<1>8. CASE CollectorStops
  <2>1. /\ subscribers' = {}
        /\ UNCHANGED <<history, nextSeq, channel, published, handlers, stream, page, shown,
                       reported>>
    BY <1>8 DEF CollectorStops, CloseHub
  <2>2. FeedTypeOK' /\ HubInv'
    BY <1>1, <2>1 DEF FeedTypeOK, FeedInv, HubInv
  <2>3. ASSUME NEW p \in Pages PROVE PageInv(p)' /\ ShownInv(p)'
    BY <2>1, AlikeKeeps DEF FeedInv, Alike
  <2> QED BY <2>2, <2>3 DEF FeedInv
<1>9. CASE UNCHANGED vars
  BY <1>1, <1>9, QuietKeeps DEF vars, feedVars, FeedTypeOK
<1> QED BY <1>2, <1>3, <1>4, <1>5, <1>6, <1>7, <1>8, <1>9, ConnectKeeps, IngestKeeps, RestartKeeps
        DEF Next, PageStep

-----------------------------------------------------------------------------
(* No event is published twice: the emitter numbers its events, and an event *)
(* is in its ring, with its sink, with one handler, or published.            *)

Rising(s) == \A i, j \in 1..Len(s) : i < j => s[i].at < s[j].at

Before(S, T) == \A e \in S, f \in T : e.at < f.at

LEMMA EventNumbers == \A e \in Event : e.at \in Nat
BY EmitterAssumption DEF Event

LEMMA NothingRises == Rising(<<>>) /\ Range(<<>>) = {} /\ <<>> \in Seq(Event)
<1>1. Len(<<>>) = 0 /\ <<>> \in Seq(Event)
  BY EmptySeq
<1>2. Range(<<>>) = {<<>>[i] : i \in 1..Len(<<>>)}
  BY <1>1, RangeEquality
<1> QED BY <1>1, <1>2 DEF Rising

LEMMA RangeOfEvents ==
    ASSUME NEW s \in Seq(Event)
    PROVE  /\ Len(s) \in Nat
           /\ Range(s) \subseteq Event
           /\ Range(s) = {s[i] : i \in 1..Len(s)}
BY LenProperties, RangeOfSeq, RangeEquality

LEMMA RisingAppend ==
    ASSUME NEW s \in Seq(Event), NEW e \in Event, Rising(s), Before(Range(s), {e})
    PROVE  /\ Append(s, e) \in Seq(Event) /\ Range(Append(s, e)) = Range(s) \cup {e}
           /\ Rising(Append(s, e))
<1> DEFINE t == Append(s, e)
<1>1. /\ t \in Seq(Event) /\ Len(t) = Len(s) + 1 /\ t[Len(s) + 1] = e
      /\ \A i \in 1..Len(s) : t[i] = s[i]
  BY AppendProperties
<1>2. Len(s) \in Nat /\ Range(s) = {s[i] : i \in 1..Len(s)}
  BY RangeOfEvents
<1> HIDE DEF t
<1>3. Range(t) = {t[i] : i \in 1..Len(t)}
  BY <1>1, RangeOfEvents
<1>4. 1..Len(t) = 1..Len(s) \cup {Len(s) + 1}
  BY <1>1, <1>2
<1>5. Range(t) = Range(s) \cup {e}
  BY <1>1, <1>2, <1>3, <1>4
<1>6. ASSUME NEW i \in 1..Len(t), NEW j \in 1..Len(t), i < j
      PROVE  t[i].at < t[j].at
  <2>1. i \in 1..Len(s)
    BY <1>1, <1>2, <1>6
  <2>2. CASE j \in 1..Len(s)
    BY <1>1, <1>6, <2>1, <2>2 DEF Rising
  <2>3. CASE j = Len(s) + 1
    BY <1>1, <1>2, <2>1, <2>3 DEF Before
  <2> QED BY <1>4, <2>2, <2>3
<1> QED BY <1>1, <1>5, <1>6 DEF t, Rising

\* Cut anywhere, the two parts of a rising sequence rise, one before the other.
LEMMA RisingParts ==
    ASSUME NEW s \in Seq(Event), Rising(s), NEW n \in 0..Len(s)
    PROVE  LET t == SubSeq(s, 1, n)
               u == SubSeq(s, n + 1, Len(s))
           IN  /\ t \in Seq(Event) /\ u \in Seq(Event)
               /\ Rising(t) /\ Rising(u) /\ Before(Range(t), Range(u))
               /\ Range(t) \subseteq Range(s) /\ Range(u) \subseteq Range(s)
               /\ Range(s) = Range(t) \cup Range(u)
<1> DEFINE t == SubSeq(s, 1, n)
           u == SubSeq(s, n + 1, Len(s))
<1>1. Len(s) \in Nat /\ n \in Nat /\ n <= Len(s) /\ Range(s) = {s[i] : i \in 1..Len(s)}
  BY RangeOfEvents
<1>2. /\ t \in Seq(Event) /\ Len(t) = n /\ \A i \in 1..n : t[i] = s[i]
  <2>1. \A i \in 1..n : s[i] \in Event
    BY <1>1, ElementOfSeq
  <2>2. n - 1 + 1 = n /\ \A i \in 1..n : 1 + i - 1 = i
    BY <1>1
  <2>3. /\ t \in Seq(Event) /\ Len(t) = IF 1 <= n THEN n - 1 + 1 ELSE 0
        /\ \A i \in 1..(n - 1 + 1) : t[i] = s[1 + i - 1]
    BY <1>1, <2>1, SubSeqProperties
  <2> HIDE DEF t
  <2>4. Len(t) = n
    BY <1>1, <2>3
  <2> QED BY <2>2, <2>3, <2>4
<1>3. /\ u \in Seq(Event) /\ Len(u) = Len(s) - n /\ \A i \in 1..(Len(s) - n) : u[i] = s[n + i]
  <2>1. \A i \in (n + 1)..Len(s) : s[i] \in Event
    <3>1. \A i \in (n + 1)..Len(s) : i \in 1..Len(s)
      BY <1>1
    <3> QED BY <3>1, ElementOfSeq
  <2>2. /\ n + 1 \in Int /\ Len(s) \in Int /\ Len(s) - (n + 1) + 1 = Len(s) - n
        /\ \A i \in 1..(Len(s) - n) : (n + 1) + i - 1 = n + i
    BY <1>1
  <2>3. /\ u \in Seq(Event) /\ Len(u) = IF n + 1 <= Len(s) THEN Len(s) - (n + 1) + 1 ELSE 0
        /\ \A i \in 1..(Len(s) - (n + 1) + 1) : u[i] = s[(n + 1) + i - 1]
    BY <2>1, <2>2, SubSeqProperties
  <2> HIDE DEF u
  <2>4. Len(u) = Len(s) - n
    BY <1>1, <2>3
  <2> QED BY <2>2, <2>3, <2>4
<1> HIDE DEF t, u
<1>4. /\ Range(t) = {t[i] : i \in 1..n}
      /\ Range(u) = {u[i] : i \in 1..(Len(s) - n)}
  BY <1>2, <1>3, RangeOfEvents
<1>5. /\ Range(t) = {s[i] : i \in 1..n}
      /\ Range(u) = {s[n + i] : i \in 1..(Len(s) - n)}
  <2>1. {t[i] : i \in 1..n} = {s[i] : i \in 1..n}
    BY <1>2
  <2>2. {u[i] : i \in 1..(Len(s) - n)} = {s[n + i] : i \in 1..(Len(s) - n)}
    BY <1>3, Zenon
  <2> QED BY <1>4, <2>1, <2>2
<1>6. (\A i \in 1..n : i \in 1..Len(s)) /\ (\A i \in 1..(Len(s) - n) : n + i \in 1..Len(s))
  BY <1>1
<1>7. Range(t) \subseteq Range(s) /\ Range(u) \subseteq Range(s)
  BY <1>1, <1>5, <1>6
<1>8. Rising(t)
  BY <1>2, <1>6 DEF Rising
<1>9. Rising(u)
  <2>1. ASSUME NEW i \in 1..Len(u), NEW j \in 1..Len(u), i < j PROVE u[i].at < u[j].at
    <3>1. /\ u[i] = s[n + i] /\ u[j] = s[n + j] /\ n + i \in 1..Len(s) /\ n + j \in 1..Len(s)
      BY <1>3, <1>6
    <3>2. n + i < n + j
      BY <1>1, <1>3, <2>1
    <3> QED BY <3>1, <3>2 DEF Rising
  <2> QED BY <2>1 DEF Rising
<1>10. Before(Range(t), Range(u))
  <2>1. ASSUME NEW i \in 1..n, NEW j \in 1..(Len(s) - n) PROVE s[i].at < s[n + j].at
    <3>1. i < n + j
      BY <1>1
    <3> QED BY <1>6, <3>1 DEF Rising
  <2> QED BY <1>5, <2>1 DEF Before
<1>11. Range(s) \subseteq Range(t) \cup Range(u)
  <2>1. ASSUME NEW i \in 1..Len(s) PROVE s[i] \in Range(t) \cup Range(u)
    <3>1. CASE i <= n
      <4>1. i \in 1..n
        BY <1>1, <3>1
      <4> QED BY <1>5, <4>1
    <3>2. CASE ~(i <= n)
      <4>1. i - n \in 1..(Len(s) - n) /\ n + (i - n) = i
        BY <1>1, <3>2
      <4> QED BY <1>5, <4>1
    <3> QED BY <3>1, <3>2
  <2> QED BY <1>1, <2>1
<1> QED BY <1>2, <1>3, <1>7, <1>8, <1>9, <1>10, <1>11 DEF t, u

LEMMA RisingTail ==
    ASSUME NEW s \in Seq(Event), s # <<>>, Rising(s)
    PROVE  /\ Head(s) \in Event /\ Head(s) \in Range(s)
           /\ Tail(s) \in Seq(Event) /\ Rising(Tail(s)) /\ Range(Tail(s)) \subseteq Range(s)
           /\ Before({Head(s)}, Range(Tail(s)))
           /\ Head(s) \notin Range(Tail(s))
<1>1. Len(s) \in Nat \ {0} /\ Range(s) = {s[i] : i \in 1..Len(s)}
  BY EmptySeq, RangeOfEvents
<1>2. Tail(s) = SubSeq(s, 2, Len(s)) /\ Head(s) \in Event /\ Tail(s) \in Seq(Event)
  BY TailIsSubSeq, HeadTailProperties
<1>3. 1 \in 0..Len(s) /\ 1 + 1 = 2 /\ 1 \in 1..Len(s)
  BY <1>1
<1>4. /\ Rising(Tail(s)) /\ Range(Tail(s)) \subseteq Range(s)
      /\ Before(Range(SubSeq(s, 1, 1)), Range(Tail(s)))
  <2>1. /\ Rising(SubSeq(s, 1 + 1, Len(s))) /\ Range(SubSeq(s, 1 + 1, Len(s))) \subseteq Range(s)
        /\ Before(Range(SubSeq(s, 1, 1)), Range(SubSeq(s, 1 + 1, Len(s))))
    BY <1>3, RisingParts
  <2>2. SubSeq(s, 1 + 1, Len(s)) = Tail(s)
    BY <1>2, <1>3
  <2> QED BY <2>1, <2>2
<1>5. Head(s) = s[1] /\ Head(s) \in Range(s)
  BY <1>1, <1>3
<1>6. Head(s) \in Range(SubSeq(s, 1, 1))
  <2>1. \A i \in 1..1 : s[i] \in Event
    BY <1>2, <1>5
  <2>2. SubSeq(s, 1, 1) \in Seq(Event) /\ Len(SubSeq(s, 1, 1)) = 1 /\ SubSeq(s, 1, 1)[1] = s[1]
    <3>1. /\ SubSeq(s, 1, 1) \in Seq(Event)
          /\ Len(SubSeq(s, 1, 1)) = IF 1 <= 1 THEN 1 - 1 + 1 ELSE 0
          /\ \A i \in 1..(1 - 1 + 1) : SubSeq(s, 1, 1)[i] = s[1 + i - 1]
      BY <2>1, SubSeqProperties
    <3>2. 1 \in 1..(1 - 1 + 1) /\ 1 + 1 - 1 = 1 /\ (IF 1 <= 1 THEN 1 - 1 + 1 ELSE 0) = 1
      OBVIOUS
    <3> QED BY <3>1, <3>2
  <2> DEFINE first == SubSeq(s, 1, 1)
  <2> HIDE DEF first
  <2>3. first \in Seq(Event) /\ Len(first) = 1 /\ first[1] = Head(s) /\ 1 \in 1..1
    BY <1>5, <2>2 DEF first
  <2>4. Range(first) = {first[i] : i \in 1..1}
    BY <2>3, RangeOfEvents
  <2> QED BY <2>3, <2>4 DEF first
<1>7. Before({Head(s)}, Range(Tail(s)))
  BY <1>4, <1>6 DEF Before
<1>8. Head(s) \notin Range(Tail(s))
  BY <1>2, <1>7, EventNumbers DEF Before
<1> QED BY <1>2, <1>4, <1>5, <1>7, <1>8
-----------------------------------------------------------------------------
\* The events an emitter still has are its own, numbered in order.
QueueInv(r) ==
    /\ \A e \in Range(ring[r]) \cup Range(batch[r]) : e.role = r /\ e.at <= emits[r]
    /\ Rising(ring[r]) /\ Rising(batch[r])
    /\ Before(Range(batch[r]), Range(ring[r]))

\* What reached the collector, and what came from one emitter.
Posted == Range(published) \cup UNION {Range(h.todo) : h \in handlers}
From(r) == {e \in Posted : e.role = r}

\* The collector has nothing from an emitter that it did not send yet.
PostedInv(r) ==
    /\ \A e \in From(r) : e.at <= emits[r]
    /\ Before(From(r), Range(ring[r]))
    /\ sender[r] = "sending" => Before(From(r), Range(batch[r]))

\* No two handlers have the same event left, and none has a published one.
HandlersInv ==
    \A h \in handlers :
        /\ Rising(h.todo)
        /\ Range(h.todo) \cap Range(published) = {}
        /\ \A g \in handlers : g # h => Range(h.todo) \cap Range(g.todo) = {}

Distinct == \A i, j \in 1..Len(published) : i # j => published[i] # published[j]

OnceInv ==
    /\ \A r \in Roles : QueueInv(r) /\ PostedInv(r)
    /\ HandlersInv
    /\ Distinct

LEMMA OnceInvInit == Init => OnceInv
<1> SUFFICES ASSUME Init PROVE OnceInv
  OBVIOUS
<1>1. /\ ring = [r \in Roles |-> <<>>] /\ batch = [r \in Roles |-> <<>>]
      /\ published = <<>> /\ handlers = {}
  BY DEF Init, EmitterInit, HubInit
<1>2. Posted = {}
  BY <1>1, NothingRises DEF Posted
<1>3. ASSUME NEW r \in Roles PROVE QueueInv(r) /\ PostedInv(r)
  <2>1. ring[r] = <<>> /\ batch[r] = <<>> /\ From(r) = {}
    BY <1>1, <1>2 DEF From
  <2> QED BY <2>1, NothingRises DEF QueueInv, PostedInv, Before
<1>4. HandlersInv /\ Distinct
  BY <1>1, EmptySeq DEF HandlersInv, Distinct
<1> QED BY <1>3, <1>4 DEF OnceInv

\* An emitter that does not take in, take out or hand over an event.
Calm(r) ==
    /\ ring'[r] \in {ring[r], <<>>} /\ batch'[r] \in {batch[r], <<>>}
    /\ emits[r] <= emits'[r]
    /\ sender'[r] = "sending" => sender[r] = "sending"

LEMMA EmitterNumbers ==
    ASSUME EmitterTypeOK, FeedTypeOK, NEW r \in Roles
    PROVE  /\ ring[r] \in Seq(Event) /\ batch[r] \in Seq(Event) /\ emits[r] \in Nat
           /\ Range(ring[r]) \subseteq Event /\ Range(batch[r]) \subseteq Event
           /\ Range(published) \subseteq Event
           /\ \A h \in handlers : Range(h.todo) \subseteq Event
           /\ Posted \subseteq Event /\ From(r) \subseteq Event
<1>1. ring[r] \in Seq(Event) /\ batch[r] \in Seq(Event) /\ emits[r] \in Nat
  BY RoleTypes, Numbers, EmitterAssumption
<1>2. published \in Seq(Event) /\ \A h \in handlers : h.todo \in Seq(Event)
  BY DEF FeedTypeOK
<1>3. Range(published) \subseteq Event /\ \A h \in handlers : Range(h.todo) \subseteq Event
  BY <1>2, RangeOfEvents
<1>4. Posted \subseteq Event
  BY <1>3 DEF Posted
<1> QED BY <1>1, <1>3, <1>4, RangeOfEvents DEF From

LEMMA CalmKeeps ==
    ASSUME EmitterTypeOK, FeedTypeOK, NEW r \in Roles, QueueInv(r), PostedInv(r), Calm(r),
           emits'[r] \in Nat, From(r)' \subseteq From(r)
    PROVE  QueueInv(r)' /\ PostedInv(r)'
<1>1. Range(ring'[r]) \subseteq Range(ring[r]) /\ Range(batch'[r]) \subseteq Range(batch[r])
  BY NothingRises DEF Calm
<1>2. Rising(ring'[r]) /\ Rising(batch'[r])
  BY NothingRises DEF Calm, QueueInv
<1>3. \A e \in Event : e.at <= emits[r] => e.at <= emits'[r]
  BY EmitterNumbers, EventNumbers DEF Calm
<1>4. QueueInv(r)'
  BY <1>1, <1>2, <1>3, EmitterNumbers DEF QueueInv, Before
<1>5. PostedInv(r)'
  BY <1>1, <1>3, EmitterNumbers DEF PostedInv, Before, Calm
<1> QED BY <1>4, <1>5

LEMMA EmitKeeps ==
    ASSUME EmitterTypeOK, FeedTypeOK, NEW r \in Roles, QueueInv(r), PostedInv(r),
           NEW d \in Drafts, EmitEvent(r, d), From(r)' \subseteq From(r)
    PROVE  QueueInv(r)' /\ PostedInv(r)'
<1> DEFINE e == [role |-> r, at |-> emits[r] + 1, draft |-> d]
           kept == IF Len(ring[r]) = Buffer THEN Tail(ring[r]) ELSE ring[r]
<1>1. /\ ring[r] \in Seq(Event) /\ batch[r] \in Seq(Event) /\ emits[r] \in Nat
      /\ Range(ring[r]) \subseteq Event /\ Range(batch[r]) \subseteq Event
      /\ From(r) \subseteq Event
  BY EmitterNumbers
<1>2. e \in Event /\ e.at = emits[r] + 1 /\ e.role = r
  BY EventType DEF EmitEvent, Calling
<1>3. /\ ring' = [ring EXCEPT ![r] = Append(kept, e)] /\ batch' = batch /\ sender' = sender
      /\ emits' = [emits EXCEPT ![r] = @ + 1]
  BY DEF EmitEvent, Calling
<1>4. kept \in Seq(Event) /\ Rising(kept) /\ Range(kept) \subseteq Range(ring[r])
  <2>1. CASE Len(ring[r]) = Buffer
    <3>1. ring[r] # <<>>
      BY <2>1, EmitterAssumption, EmptySeq
    <3> QED BY <1>1, <2>1, <3>1, RisingTail DEF QueueInv
  <2>2. CASE Len(ring[r]) # Buffer
    BY <1>1, <2>2 DEF QueueInv
  <2> QED BY <2>1, <2>2
<1>5. ring'[r] = Append(kept, e) /\ emits'[r] = emits[r] + 1
  BY <1>3 DEF EmitterTypeOK
<1> HIDE DEF e, kept
<1>6. \A f \in Event : f.at <= emits[r] => f.at < e.at /\ f.at <= emits[r] + 1
  BY <1>1, <1>2, EventNumbers
<1>7. Before(Range(kept), {e})
  BY <1>1, <1>4, <1>6 DEF Before, QueueInv
<1>8. Range(ring'[r]) = Range(kept) \cup {e} /\ Rising(ring'[r])
  BY <1>2, <1>4, <1>5, <1>7, RisingAppend
<1>9. emits[r] + 1 <= emits[r] + 1
  BY <1>1
<1>10. QueueInv(r)'
  BY <1>1, <1>2, <1>3, <1>4, <1>5, <1>6, <1>8, <1>9 DEF QueueInv, Before
<1>11. PostedInv(r)'
  BY <1>1, <1>3, <1>4, <1>5, <1>6, <1>8 DEF PostedInv, Before
<1> QED BY <1>10, <1>11

LEMMA TakeKeeps ==
    ASSUME EmitterTypeOK, FeedTypeOK, NEW r \in Roles, QueueInv(r), PostedInv(r),
           Take(r), From(r)' \subseteq From(r)
    PROVE  QueueInv(r)' /\ PostedInv(r)'
<1> DEFINE n == IF Len(ring[r]) < MaxBatch THEN Len(ring[r]) ELSE MaxBatch
           taken == SubSeq(ring[r], 1, n)
           left == SubSeq(ring[r], n + 1, Len(ring[r]))
<1>1. /\ batch' = [batch EXCEPT ![r] = taken] /\ ring' = [ring EXCEPT ![r] = left]
      /\ emits' = emits
  BY DEF Take
<1>2. batch'[r] = taken /\ ring'[r] = left
  BY <1>1, Domains
<1>3. n \in 0..Len(ring[r]) /\ ring[r] \in Seq(Event)
  BY RoleTypes, EmitterAssumption
<1>4. /\ Rising(taken) /\ Rising(left) /\ Before(Range(taken), Range(left))
      /\ Range(taken) \subseteq Range(ring[r]) /\ Range(left) \subseteq Range(ring[r])
  BY <1>3, RisingParts DEF QueueInv
<1> HIDE DEF taken, left
<1>5. QueueInv(r)'
  BY <1>1, <1>2, <1>4 DEF QueueInv
<1>6. PostedInv(r)'
  BY <1>1, <1>2, <1>4 DEF PostedInv, Before
<1> QED BY <1>5, <1>6

\* A step of one emitter: the others, and it too unless it takes an event in
\* or out of its ring, are calm.
LEMMA CallerCalm ==
    ASSUME EmitterTypeOK, NEW r \in Roles, Caller(r)
    PROVE  /\ \A s \in Roles \ {r} : Calm(s)
           /\ Calm(r) \/ \E d \in Drafts : EmitEvent(r, d)
           /\ emits' \in [Roles -> Nat]
<1>1. /\ emits \in [Roles -> Nat] /\ \A s \in Roles : emits[s] <= emits[s]
      /\ \A s \in Roles : emits[s] <= emits[s] + 1
  BY Numbers, EmitterAssumption
<1>2. emits' = emits \/ emits' = [emits EXCEPT ![r] = @ + 1]
  BY DEF Caller, EmitClosed, EmitInvalid, EmitEvent, CloseEmitter, CloseGivesUp, Calling
<1>3. emits' \in [Roles -> Nat] /\ \A s \in Roles : emits[s] <= emits'[s]
  BY <1>1, <1>2
<1>4. ASSUME NEW d \in Drafts, EmitEvent(r, d) PROVE \A s \in Roles \ {r} : Calm(s)
  BY <1>3, <1>4, Domains DEF EmitEvent, Calm
<1>5. ASSUME EmitClosed(r) \/ (\E d \in Drafts : EmitInvalid(r, d)) \/ CloseEmitter(r)
      PROVE  \A s \in Roles : Calm(s)
  BY <1>3, <1>5 DEF EmitClosed, EmitInvalid, CloseEmitter, Calm
<1>6. ASSUME CloseGivesUp(r) PROVE \A s \in Roles : Calm(s)
  <2>1. /\ ring' = [ring EXCEPT ![r] = <<>>] /\ batch' = [batch EXCEPT ![r] = <<>>]
        /\ sender' = [sender EXCEPT ![r] = "gone"]
    BY <1>6 DEF CloseGivesUp
  <2> QED BY <1>3, <2>1, Domains DEF Calm
<1> QED BY <1>3, <1>4, <1>5, <1>6 DEF Caller

LEMMA SenderCalm ==
    ASSUME EmitterTypeOK, NEW r \in Roles,
           \/ RingDoorbell(r) \/ Sender(r) \/ CloseReturns(r) \/ HandedOver(r)
           \/ \E ok \in BOOLEAN : Sent(r, ok)
    PROVE  /\ \A s \in Roles \ {r} : Calm(s)
           /\ Calm(r) \/ Take(r)
           /\ emits' = emits
<1>1. emits \in [Roles -> Nat] /\ \A s \in Roles : emits[s] <= emits[s]
  BY Numbers, EmitterAssumption
<1>2. emits' = emits
  BY DEF RingDoorbell, Sender, HearDoorbell, HearDone, TakeNothing, LeaveDrain, Take,
         CloseReturns, HandedOver, Sent
<1>3. ASSUME RingDoorbell(r) \/ CloseReturns(r) PROVE \A s \in Roles : Calm(s)
  BY <1>1, <1>2, <1>3 DEF RingDoorbell, CloseReturns, Calm
<1>4. ASSUME HearDoorbell(r) \/ HearDone(r) \/ TakeNothing(r) \/ LeaveDrain(r) \/ HandedOver(r)
      PROVE  \A s \in Roles : Calm(s)
  <2>1. /\ ring' = ring /\ batch' = batch
        /\ \E x \in {"select", "drain", "drained", "stopped", "awaiting"} :
              sender' = [sender EXCEPT ![r] = x]
    BY <1>4 DEF HearDoorbell, HearDone, TakeNothing, LeaveDrain, HandedOver
  <2> QED BY <1>1, <1>2, <2>1, Domains DEF Calm
<1>5. ASSUME NEW ok \in BOOLEAN, Sent(r, ok) PROVE \A s \in Roles : Calm(s)
  <2>1. /\ ring' = ring /\ batch' = [batch EXCEPT ![r] = <<>>]
        /\ sender' = [sender EXCEPT ![r] = "drain"]
    BY <1>5 DEF Sent
  <2> QED BY <1>1, <1>2, <2>1, Domains DEF Calm
<1>6. ASSUME Take(r) PROVE \A s \in Roles \ {r} : Calm(s)
  BY <1>1, <1>2, <1>6, Domains DEF Take, Calm
<1> QED BY <1>2, <1>3, <1>4, <1>5, <1>6 DEF Sender

LEMMA QueuesKeep ==
    ASSUME EmitterTypeOK, FeedTypeOK, NEW r \in Roles,
           \A s \in Roles : QueueInv(s) /\ PostedInv(s) /\ From(s)' \subseteq From(s),
           \/ Caller(r) \/ RingDoorbell(r) \/ Sender(r) \/ CloseReturns(r)
           \/ \E ok \in BOOLEAN : Sent(r, ok)
    PROVE  \A s \in Roles : QueueInv(s)' /\ PostedInv(s)'
<1>1. /\ \A s \in Roles \ {r} : Calm(s)
      /\ Calm(r) \/ Take(r) \/ \E d \in Drafts : EmitEvent(r, d)
      /\ \A s \in Roles : emits'[s] \in Nat
  BY CallerCalm, SenderCalm, Numbers, EmitterAssumption
<1>2. ASSUME NEW s \in Roles, Calm(s) PROVE QueueInv(s)' /\ PostedInv(s)'
  BY <1>1, <1>2, CalmKeeps
<1>3. QueueInv(r)' /\ PostedInv(r)'
  BY <1>1, <1>2, TakeKeeps, EmitKeeps
<1> QED BY <1>1, <1>2, <1>3

LEMMA SilentKeeps ==
    ASSUME EmitterTypeOK, FeedTypeOK, UNCHANGED emitterVars,
           \A s \in Roles : QueueInv(s) /\ PostedInv(s) /\ From(s)' \subseteq From(s)
    PROVE  \A s \in Roles : QueueInv(s)' /\ PostedInv(s)'
<1>1. \A s \in Roles : emits[s] \in Nat /\ emits[s] <= emits[s]
  BY Numbers, EmitterAssumption
<1>2. \A s \in Roles : Calm(s)
  BY <1>1 DEF emitterVars, Calm
<1> QED BY <1>1, <1>2, CalmKeeps DEF emitterVars

\* The hub publishes nothing and the handlers are some of those there were.
LEMMA FewerHandlers ==
    ASSUME HandlersInv, Distinct, handlers' \subseteq handlers,
           published' = published \/ (published' = <<>> /\ handlers' = {})
    PROVE  HandlersInv' /\ Distinct' /\ \A r \in Roles : From(r)' \subseteq From(r)
<1>1. CASE published' = published
  BY <1>1 DEF HandlersInv, Distinct, From, Posted
<1>2. CASE published' = <<>> /\ handlers' = {}
  <2>1. Posted' = {}
    BY <1>2, NothingRises DEF Posted
  <2>2. HandlersInv' /\ Distinct'
    BY <1>2, EmptySeq DEF HandlersInv, Distinct
  <2> QED BY <2>1, <2>2 DEF From
<1> QED BY <1>1, <1>2

LEMMA ArrivalKeeps ==
    ASSUME EmitterTypeOK, FeedTypeOK, OnceInv, NEW r \in Roles, PostArrives(r)
    PROVE  OnceInv'
<1> DEFINE h == [batch |-> batch[r], todo |-> batch[r]]
<1>1. /\ sender[r] = "sending" /\ sender' = [sender EXCEPT ![r] = "awaiting"]
      /\ handlers' = handlers \cup {h}
      /\ ring' = ring /\ batch' = batch /\ emits' = emits /\ published' = published
  BY DEF PostArrives, hubVars
<1>2. /\ QueueInv(r) /\ PostedInv(r) /\ batch[r] \in Seq(Event)
      /\ Range(batch[r]) \subseteq Event /\ From(r) \subseteq Event /\ Posted \subseteq Event
  BY EmitterNumbers DEF OnceInv
<1>3. h.todo = batch[r] /\ Rising(batch[r])
  BY <1>2 DEF QueueInv
<1> HIDE DEF h
<1>4. Before(From(r), Range(batch[r])) /\ \A e \in Range(batch[r]) : e.role = r
  BY <1>1, <1>2 DEF PostedInv, QueueInv
<1>5. Range(batch[r]) \cap Posted = {}
  <2>1. ASSUME NEW e \in Range(batch[r]), e \in Posted PROVE FALSE
    <3>1. e \in From(r) /\ e \in Event
      BY <1>2, <1>4, <2>1 DEF From
    <3>2. e.at < e.at
      BY <1>4, <3>1 DEF Before
    <3> QED BY <3>1, <3>2, EventNumbers
  <2> QED BY <2>1
<1>6. HandlersInv'
  <2>1. /\ Range(batch[r]) \cap Range(published) = {}
        /\ \A g \in handlers : Range(batch[r]) \cap Range(g.todo) = {}
    BY <1>5 DEF Posted
  <2> QED BY <1>1, <1>3, <2>1 DEF OnceInv, HandlersInv
<1>7. Distinct'
  BY <1>1 DEF OnceInv, Distinct
<1>8. Posted' = Posted \cup Range(batch[r])
  BY <1>1, <1>3 DEF Posted
<1>9. ASSUME NEW s \in Roles PROVE QueueInv(s)' /\ PostedInv(s)'
  <2>1. QueueInv(s)' /\ QueueInv(s) /\ PostedInv(s)
    BY <1>1 DEF OnceInv, QueueInv
  <2>2. CASE s = r
    <3>1. From(r)' = From(r) \cup Range(batch[r]) /\ sender'[r] # "sending"
      BY <1>1, <1>4, <1>8, Domains DEF From
    <3> QED BY <1>1, <2>1, <2>2, <3>1 DEF PostedInv, QueueInv, Before
  <2>3. CASE s # r
    <3>1. From(s)' = From(s) /\ sender'[s] = sender[s]
      BY <1>1, <1>4, <1>8, <2>3, Domains DEF From
    <3> QED BY <1>1, <2>1, <3>1 DEF PostedInv, Before
  <2> QED BY <2>1, <2>2, <2>3
<1> QED BY <1>6, <1>7, <1>9 DEF OnceInv

LEMMA IngestOnce ==
    ASSUME EmitterTypeOK, FeedTypeOK, OnceInv, NEW h \in handlers, IngestOne(h)
    PROVE  /\ \A i \in 1..Len(published) : published[i] # Head(h.todo)
           /\ OnceInv'
<1> DEFINE e == Head(h.todo)
           k == [h EXCEPT !.todo = Tail(h.todo)]
<1>1. /\ h \in [batch : Seq(Event), todo : Seq(Event)] /\ h.todo # <<>>
      /\ published \in Seq(Event)
  BY DEF FeedTypeOK, IngestOne
<1>2. /\ handlers' = (handlers \ {h}) \cup {k} /\ published' = Append(published, e)
      /\ UNCHANGED emitterVars
  BY <1>1 DEF IngestOne, Publish
<1>3. k.todo = Tail(h.todo)
  BY <1>1
<1>4. /\ e \in Event /\ e \in Range(h.todo)
      /\ Tail(h.todo) \in Seq(Event) /\ Rising(Tail(h.todo))
      /\ Range(Tail(h.todo)) \subseteq Range(h.todo) /\ e \notin Range(Tail(h.todo))
  BY <1>1, RisingTail DEF OnceInv, HandlersInv
<1> HIDE DEF e, k
<1>5. e \notin Range(published) /\ \A g \in handlers \ {h} : e \notin Range(g.todo)
  BY <1>4 DEF OnceInv, HandlersInv
<1>6. /\ Range(published) = {published[i] : i \in 1..Len(published)}
      /\ Len(published) \in Nat
  BY <1>1, RangeOfEvents
<1>7. /\ published' \in Seq(Event) /\ Len(published') = Len(published) + 1
      /\ published'[Len(published) + 1] = e
      /\ \A i \in 1..Len(published) : published'[i] = published[i]
  BY <1>1, <1>2, <1>4, AppendProperties
<1>8. 1..Len(published') = 1..Len(published) \cup {Len(published) + 1}
  BY <1>6, <1>7
<1>9. Range(published') = Range(published) \cup {e}
  <2>1. Range(published') = {published'[i] : i \in 1..Len(published')}
    BY <1>7, RangeOfEvents
  <2> QED BY <1>6, <1>7, <1>8, <2>1
<1>10. \A i \in 1..Len(published) : published[i] # e
  BY <1>5, <1>6
<1>11. Distinct'
  BY <1>7, <1>8, <1>10 DEF OnceInv, Distinct
<1>12. HandlersInv'
  <2>1. ASSUME NEW g \in handlers \ {h}
        PROVE  /\ Rising(g.todo) /\ Range(g.todo) \cap Range(published') = {}
               /\ Range(g.todo) \cap Range(k.todo) = {}
               /\ \A f \in handlers \ {h} : f # g => Range(g.todo) \cap Range(f.todo) = {}
    BY <1>3, <1>4, <1>5, <1>9 DEF OnceInv, HandlersInv
  <2>2. Rising(k.todo) /\ Range(k.todo) \cap Range(published') = {}
    BY <1>3, <1>4, <1>9 DEF OnceInv, HandlersInv
  <2> QED BY <1>2, <2>1, <2>2 DEF HandlersInv
<1>13. \A r \in Roles : From(r)' \subseteq From(r)
  <2>1. Posted' \subseteq Posted
    <3>1. \A g \in handlers' : Range(g.todo) \subseteq Posted
      BY <1>2, <1>3, <1>4 DEF Posted
    <3>2. Range(published') \subseteq Posted
      BY <1>4, <1>9 DEF Posted
    <3> QED BY <3>1, <3>2 DEF Posted
  <2> QED BY <2>1 DEF From
<1>14. \A r \in Roles : QueueInv(r)' /\ PostedInv(r)'
  BY <1>2, <1>13, SilentKeeps DEF OnceInv
<1> QED BY <1>10, <1>11, <1>12, <1>14 DEF OnceInv, e

LEMMA OnceInvNext == EmitterInv /\ FeedInv /\ OnceInv /\ [Next]_vars => OnceInv'
<1> SUFFICES ASSUME EmitterInv, FeedInv, OnceInv, [Next]_vars PROVE OnceInv'
  OBVIOUS
<1>1. /\ EmitterTypeOK /\ FeedTypeOK /\ HandlersInv /\ Distinct
      /\ \A r \in Roles : QueueInv(r) /\ PostedInv(r)
  BY DEF EmitterInv, FeedInv, OnceInv
<1>2. ASSUME handlers' \subseteq handlers,
             published' = published \/ (published' = <<>> /\ handlers' = {}),
             \/ UNCHANGED emitterVars
             \/ \E r \in Roles : \/ Caller(r) \/ RingDoorbell(r) \/ Sender(r) \/ CloseReturns(r)
                                 \/ \E ok \in BOOLEAN : Sent(r, ok)
      PROVE  OnceInv'
  <2>1. HandlersInv' /\ Distinct' /\ \A r \in Roles : From(r)' \subseteq From(r)
    BY <1>1, <1>2, FewerHandlers
  <2>2. \A s \in Roles : QueueInv(s)' /\ PostedInv(s)'
    BY <1>1, <1>2, <2>1, QueuesKeep, SilentKeeps
  <2> QED BY <2>1, <2>2 DEF OnceInv
<1>3. ASSUME NEW r \in Roles, EmitterStep(r) PROVE OnceInv'
  BY <1>2, <1>3 DEF EmitterStep, hubVars, feedVars
<1>4. ASSUME NEW r \in Roles, PostFails(r) PROVE OnceInv'
  <2>1. Sent(r, FALSE) /\ handlers' = handlers /\ published' = published
    BY <1>4 DEF PostFails, hubVars, feedVars
  <2>2. FALSE \in BOOLEAN
    OBVIOUS
  <2> QED BY <1>2, <2>1, <2>2
<1>5. ASSUME NEW r \in Roles, PostArrives(r) PROVE OnceInv'
  BY <1>1, <1>5, ArrivalKeeps
<1>6. ASSUME NEW h \in handlers, IngestOne(h) PROVE OnceInv'
  BY <1>1, <1>6, IngestOnce
<1>7. ASSUME NEW h \in handlers, IngestAnswers(h) PROVE OnceInv'
  <2>1. handlers' \subseteq handlers /\ published' = published
    BY <1>7 DEF IngestAnswers, hubVars
  <2>2. (h.todo = <<>>) \in BOOLEAN /\ AwaitedBy(h) \subseteq Roles
    BY DEF AwaitedBy
  <2>3. UNCHANGED emitterVars \/ \E r \in Roles : \E ok \in BOOLEAN : Sent(r, ok)
    BY <1>7, <2>2 DEF IngestAnswers
  <2> QED BY <1>2, <2>1, <2>3
<1>8. ASSUME NEW p \in Pages, PageStep(p) PROVE OnceInv'
  <2>1. UNCHANGED emitterVars /\ handlers' = handlers /\ published' = published
    BY <1>8 DEF PageStep, Connect, Subscribe, WriteReplay, WriteLive, Receive, StreamEnds,
                StreamBreaks, Reconnect, ClosePage, Unsubscribe, hubVars
  <2> QED BY <1>2, <2>1
<1>9. CASE CollectorStops
  <2>1. UNCHANGED emitterVars /\ handlers' = handlers /\ published' = published
    BY <1>9 DEF CollectorStops, CloseHub
  <2> QED BY <1>2, <2>1
<1>10. CASE CollectorRestarts
  <2>1. UNCHANGED emitterVars /\ handlers' = {} /\ published' = <<>>
    BY <1>10 DEF CollectorRestarts, NewHub
  <2> QED BY <1>2, <2>1
<1>11. CASE UNCHANGED vars
  BY <1>2, <1>11 DEF vars, hubVars, feedVars
<1> QED BY <1>3, <1>4, <1>5, <1>6, <1>7, <1>8, <1>9, <1>10, <1>11 DEF Next
-----------------------------------------------------------------------------
LEMMA FeedInvariant == Spec => []FeedInv
BY FeedInvInit, FeedInvNext, EmitterInvariant, PTL DEF Spec

\* What is pending for a page the hub serves follows on, record by record, up
\* to the one published last, for any history, queues and pages
\* (collector/hub.go: Publish and Subscribe join them under one mutex).
THEOREM StreamsAreContiguous == Spec => []StreamIsContiguous
<1>1. FeedInv => StreamIsContiguous
  <2> SUFFICES ASSUME FeedInv, NEW p \in Pages, p \in subscribers,
                      NEW i \in 1..Len(Pending(p))
               PROVE  /\ Pending(p)[i].seq = nextSeq - Len(Pending(p)) + i
                      /\ Pending(p)[i].event = published[Pending(p)[i].seq]
    BY DEF StreamIsContiguous, Pending
  <2> QED BY DEF FeedInv, PageInv, Follows
<1> QED BY <1>1, FeedInvariant, PTL

\* Whatever a page was shown, every number in between was shown or reported
\* missing, whichever streams broke or were cut off, and however often
\* (frontend/src/sse/stream.ts: what it makes of an identifier out of turn).
THEOREM NoSilentHoles == Spec => []HolesAreReported
<1>1. FeedInv => HolesAreReported
  BY DEF FeedInv, ShownInv, Seen, HolesAreReported
<1> QED BY <1>1, FeedInvariant, PTL
-----------------------------------------------------------------------------
(* The pages' feed is the ordered feed. *)

\* How far into the log each page has got.
Mark == [p \in Pages |-> IF shown[p] = <<>> THEN 0 ELSE shown[p][Len(shown[p])]]

LEMMA OnceInvariant == Spec => []OnceInv
BY OnceInvInit, OnceInvNext, EmitterInvariant, FeedInvariant, PTL DEF Spec

LEMMA FeedStarts == Init => Feed!Init
<1> SUFFICES ASSUME Init PROVE Feed!Init
  OBVIOUS
<1>1. /\ published = <<>> /\ shown = [p \in Pages |-> <<>>] /\ view = [p \in Pages |-> <<>>]
  BY DEF Init, HubInit
<1> QED BY <1>1 DEF Feed!Init

LEMMA ShowingShows ==
    ASSUME FeedInv, NEW p \in Pages, Shows(p)
    PROVE  Feed!Show(p)
<1> DEFINE rec == Head(Pending(p))
<1>1. /\ rec \in Record /\ rec.seq \in 1..Len(published) /\ rec.event = published[rec.seq]
      /\ shown[p] # <<>> => shown[p][Len(shown[p])] < rec.seq
  BY ShowsKeeps
<1>2. Deliver(p, rec) /\ published' = published /\ FeedTypeOK
  BY DEF Shows, FeedInv
<1> HIDE DEF rec
<1>3. /\ shown[p] \in Seq(Nat) /\ rec.seq \in Nat
      /\ shown'[p] = Append(shown[p], rec.seq)
      /\ \A q \in Pages \ {p} : shown'[q] = shown[q]
  BY <1>1, <1>2, DeliverTypes DEF FeedTypeOK, Record
<1>4. /\ Append(shown[p], rec.seq) # <<>>
      /\ Append(shown[p], rec.seq)[Len(Append(shown[p], rec.seq))] = rec.seq
  <2> DEFINE so_far == shown[p]
             i == rec.seq
  <2>0. so_far \in Seq(Nat) /\ i \in Nat
    BY <1>3
  <2> HIDE DEF so_far, i
  <2>1. /\ Append(so_far, i) # <<>>
        /\ Len(Append(so_far, i)) = Len(so_far) + 1
        /\ Append(so_far, i)[Len(so_far) + 1] = i
    BY <2>0, AppendProperties
  <2> USE DEF so_far, i
  <2> QED BY <2>1
<1>5. Mark' = [Mark EXCEPT ![p] = rec.seq]
  <2>1. /\ DOMAIN Mark = Pages /\ Mark'[p] = rec.seq
        /\ \A q \in Pages \ {p} : Mark'[q] = Mark[q]
    BY <1>3, <1>4 DEF Mark
  <2> QED BY <2>1 DEF Mark
<1>6. rec.seq \in (Mark[p] + 1)..Len(published)
  <2>1. shown[p] # <<>> => shown[p][Len(shown[p])] \in Nat
    <3>1. ASSUME shown[p] # <<>> PROVE shown[p][Len(shown[p])] \in Nat
      <4>1. Len(shown[p]) \in Nat \ {0}
        BY <1>3, <3>1, EmptySeq
      <4>2. Len(shown[p]) \in 1..Len(shown[p])
        BY <4>1
      <4> QED BY <1>3, <4>2, ElementOfSeq
    <3> QED BY <3>1
  <2>2. Len(published) \in Nat
    BY <1>2, LenProperties DEF FeedTypeOK
  <2>3. /\ shown[p] = <<>> => Mark[p] = 0
        /\ shown[p] # <<>> => Mark[p] = shown[p][Len(shown[p])]
    BY DEF Mark
  <2>4. Mark[p] \in Nat /\ Mark[p] < rec.seq
    BY <1>1, <2>1, <2>3
  <2> QED BY <1>1, <2>2, <2>4
<1>7. view' = [view EXCEPT ![p] = Append(@, published[rec.seq])]
  BY <1>1, <1>2 DEF Deliver
<1> QED BY <1>2, <1>5, <1>6, <1>7 DEF Feed!Show, Mark

LEMMA FeedSteps ==
    ASSUME EmitterInv, FeedInv, OnceInv, [Next]_vars
    PROVE  [Feed!Next]_Feed!vars
<1>1. ASSUME UNCHANGED <<published, shown, view>> PROVE [Feed!Next]_Feed!vars
  BY <1>1 DEF Feed!vars
<1>2. ASSUME NEW r \in Roles, EmitterStep(r) \/ PostArrives(r) \/ PostFails(r)
      PROVE  [Feed!Next]_Feed!vars
  BY <1>1, <1>2 DEF EmitterStep, PostArrives, PostFails, hubVars, feedVars
<1>3. ASSUME NEW h \in handlers, IngestOne(h) PROVE [Feed!Next]_Feed!vars
  <2>1. /\ Head(h.todo) \in Event
        /\ \A i \in 1..Len(published) : published[i] # Head(h.todo)
    BY <1>3, IngestKeeps, IngestOnce DEF EmitterInv, FeedInv
  <2>2. /\ published' = Append(published, Head(h.todo)) /\ UNCHANGED <<shown, view>>
    BY <1>3 DEF IngestOne, Publish
  <2>3. Feed!Publish(Head(h.todo))
    BY <2>1, <2>2 DEF Feed!Publish
  <2> QED BY <2>1, <2>3 DEF Feed!Next
<1>4. ASSUME NEW h \in handlers, IngestAnswers(h) PROVE [Feed!Next]_Feed!vars
  BY <1>1, <1>4 DEF IngestAnswers, hubVars
<1>5. ASSUME NEW p \in Pages, WriteReplay(p) \/ WriteLive(p) PROVE [Feed!Next]_Feed!vars
  <2>1. Feed!Show(p)
    BY <1>5, WritingShows, ShowingShows
  <2> QED BY <2>1 DEF Feed!Next
<1>6. ASSUME NEW p \in Pages,
             \/ Connect(p) \/ StreamEnds(p) \/ StreamBreaks(p) \/ Reconnect(p) \/ ClosePage(p)
      PROVE  [Feed!Next]_Feed!vars
  BY <1>1, <1>6 DEF Connect, Subscribe, StreamEnds, StreamBreaks, Reconnect, ClosePage,
                    Unsubscribe, hubVars
<1>7. CASE CollectorStops
  BY <1>1, <1>7 DEF CollectorStops, CloseHub
<1>8. CASE CollectorRestarts
  <2>1. /\ published' = <<>> /\ shown' = [p \in Pages |-> <<>>]
        /\ view' = [p \in Pages |-> <<>>]
    BY <1>8 DEF CollectorRestarts, NewHub
  <2>2. Feed!StartOver
    BY <2>1 DEF Feed!StartOver
  <2> QED BY <2>2 DEF Feed!Next
<1>9. CASE UNCHANGED vars
  BY <1>1, <1>9 DEF vars, hubVars, feedVars
<1> QED BY <1>2, <1>3, <1>4, <1>5, <1>6, <1>7, <1>8, <1>9 DEF Next, PageStep

\* The feed the pages see is OrderedFeed's: in order, without a repeat, and
\* with no event published twice, whatever is lost, late or restarted
\* (collector/ingest.go and hub.go; platform/obs/emitter.go sends a batch once).
THEOREM PagesFollowOneFeed == Spec => ImplementsFeed
BY FeedStarts, FeedSteps, EmitterInvariant, FeedInvariant, OnceInvariant, PTL
   DEF Spec, ImplementsFeed, Feed!Spec
=============================================================================
