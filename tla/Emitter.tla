------------------------------- MODULE Emitter -------------------------------
(***************************************************************************)
(* The event emitter every role process owns (platform/obs/emitter.go): a  *)
(* bounded ring filled by the callers of Emit, a doorbell of capacity one, *)
(* and one sender goroutine that drains the ring in batches.  The sender's *)
(* call to the sink is split in two here, Take and Sent, because the ring  *)
(* is unlocked while the sink is working.                                  *)
(***************************************************************************)
EXTENDS Integers, Sequences, FiniteSets

CONSTANTS
    Roles,      \* the processes that emit
    Drafts,     \* what the callers hand to Emit
    Buffer,     \* capacity of the ring (defaultBuffer, 256)
    MaxBatch,   \* most events in one call of the sink (maxBatch, 64)
    MaxEmits    \* bound: calls of Emit per process

ASSUME EmitterAssumption ==
    /\ Buffer \in Nat \ {0}
    /\ MaxBatch \in Nat \ {0}
    /\ MaxEmits \in Nat

VARIABLES
    ring,       \* events accepted and not yet taken
    closed,     \* set by Close
    stats,      \* the counters of Stats
    late,       \* history: how many of stats.dropped came after Close
    ringing,    \* callers that left the mutex and have not rung yet
    doorbell,   \* a token waits in the doorbell channel
    sender,     \* where the sender goroutine is
    last,       \* the drain under way is the one Close asked for
    batch,      \* the batch the sink is working on
    closing,    \* what the caller of Close knows
    emits       \* calls of Emit so far

emitterVars == <<ring, closed, stats, late, ringing, doorbell, sender, last,
                 batch, closing, emits>>
-----------------------------------------------------------------------------
Kinds == {"constructed", "presented", "verified", "rejected", "receipt",
          "refused"}

\* The kinds that are about one mandate, and those a step under an open
\* mandate is taken in.
MandateKinds == {"constructed", "presented", "verified", "rejected"}
AuthorisationKinds == {"constructed", "presented"}

\* A draft's optional fields are "absent", "good" or "bad" (a value of the
\* wrong shape); mandate is "absent", "bad", "open" or "closed".
Draft == [kind : Kinds \cup {"unknown"},
          code : {"absent", "good"},
          correlation : {"absent", "good", "bad"},
          amount : {"absent", "good", "bad"},
          mandate : {"absent", "bad", "open", "closed"},
          authorisation : {"absent", "good", "bad"}]

ValidEvent(d) ==
    /\ d.kind \in Kinds
    /\ d.correlation # "bad"
    /\ d.code # "absent" => d.kind = "rejected"
    /\ d.amount # "absent" => d.kind \in MandateKinds /\ d.amount = "good"
    /\ d.mandate # "absent" => d.kind \in MandateKinds /\ d.mandate # "bad"
    /\ d.authorisation # "absent" =>
        /\ d.kind \in AuthorisationKinds
        /\ d.mandate = "closed"
        /\ d.authorisation = "good"

Event == [role : Roles, at : 1..MaxEmits, draft : {d \in Drafts : ValidEvent(d)}]
-----------------------------------------------------------------------------
Stats == [emitted : Nat, dropped : Nat, rejected : Nat, failed : Nat, delivered : Nat]

NoStats == [emitted |-> 0, dropped |-> 0, rejected |-> 0, failed |-> 0,
            delivered |-> 0]

EmitterInit ==
    /\ ring = [r \in Roles |-> <<>>]
    /\ closed = [r \in Roles |-> FALSE]
    /\ stats = [r \in Roles |-> NoStats]
    /\ late = [r \in Roles |-> 0]
    /\ ringing = [r \in Roles |-> 0]
    /\ doorbell = [r \in Roles |-> FALSE]
    /\ sender = [r \in Roles |-> "select"]
    /\ last = [r \in Roles |-> FALSE]
    /\ batch = [r \in Roles |-> <<>>]
    /\ closing = [r \in Roles |-> "no"]
    /\ emits = [r \in Roles |-> 0]

Alive(r) == sender[r] # "gone"

\* Counting one more call of Emit, which is the bound.
Calling(r) ==
    /\ Alive(r)
    /\ emits[r] < MaxEmits
    /\ emits' = [emits EXCEPT ![r] = @ + 1]

EmitClosed(r) ==
    /\ Calling(r)
    /\ closed[r]
    /\ stats' = [stats EXCEPT ![r].dropped = @ + 1]
    /\ late' = [late EXCEPT ![r] = @ + 1]
    /\ UNCHANGED <<ring, closed, ringing, doorbell, sender, last, batch, closing>>

EmitInvalid(r, d) ==
    /\ Calling(r)
    /\ ~closed[r]
    /\ ~ValidEvent(d)
    /\ stats' = [stats EXCEPT ![r].rejected = @ + 1]
    /\ UNCHANGED <<ring, closed, late, ringing, doorbell, sender, last, batch,
                   closing>>

\* Slip: the evicted event is not counted as a drop.
EmitEventUncounted(r, d) ==
    /\ Calling(r)
    /\ ~closed[r]
    /\ ValidEvent(d)
    /\ LET kept == IF Len(ring[r]) = Buffer THEN Tail(ring[r]) ELSE ring[r]
       IN  ring' = [ring EXCEPT ![r] =
                      Append(kept, [role |-> r, at |-> emits[r] + 1, draft |-> d])]
    /\ stats' = [stats EXCEPT ![r].emitted = @ + 1]
    /\ ringing' = [ringing EXCEPT ![r] = @ + 1]
    /\ UNCHANGED <<closed, late, doorbell, sender, last, batch, closing>>

Accepting(counts, evicted) ==
    [counts EXCEPT !.emitted = counts.emitted + 1, !.dropped = counts.dropped + evicted]

\* The section under the mutex: evict the oldest if the ring is full, append.
EmitEvent(r, d) ==
    /\ Calling(r)
    /\ ~closed[r]
    /\ ValidEvent(d)
    /\ LET full == Len(ring[r]) = Buffer
           kept == IF full THEN Tail(ring[r]) ELSE ring[r]
       IN  /\ ring' = [ring EXCEPT ![r] =
                         Append(kept, [role |-> r, at |-> emits[r] + 1, draft |-> d])]
           /\ stats' = [stats EXCEPT ![r] = Accepting(@, IF full THEN 1 ELSE 0)]
    /\ ringing' = [ringing EXCEPT ![r] = @ + 1]
    /\ UNCHANGED <<closed, late, doorbell, sender, last, batch, closing>>

\* Slip: a doorbell without capacity, which only a waiting sender hears.
RingDoorbellIfWaiting(r) ==
    /\ Alive(r)
    /\ ringing[r] > 0
    /\ ringing' = [ringing EXCEPT ![r] = @ - 1]
    /\ doorbell' = [doorbell EXCEPT ![r] = @ \/ sender[r] = "select"]
    /\ UNCHANGED <<ring, closed, stats, late, sender, last, batch, closing, emits>>
-----------------------------------------------------------------------------
\* The select of the sender: with a token and done both ready, either branch.
HearDoorbell(r) ==
    /\ sender[r] = "select"
    /\ doorbell[r]
    /\ doorbell' = [doorbell EXCEPT ![r] = FALSE]
    /\ sender' = [sender EXCEPT ![r] = "drain"]
    /\ UNCHANGED <<ring, closed, stats, late, ringing, last, batch, closing, emits>>

\* Outside the mutex: ring, unless a token is already there.
RingDoorbell(r) ==
    /\ Alive(r)
    /\ ringing[r] > 0
    /\ ringing' = [ringing EXCEPT ![r] = @ - 1]
    /\ doorbell' = [doorbell EXCEPT ![r] = TRUE]
    /\ UNCHANGED <<ring, closed, stats, late, sender, last, batch, closing, emits>>

\* Slip: the sender returns on done without a last drain.
HearDoneAndReturn(r) ==
    /\ sender[r] = "select"
    /\ closed[r]
    /\ last' = [last EXCEPT ![r] = TRUE]
    /\ sender' = [sender EXCEPT ![r] = "stopped"]
    /\ UNCHANGED <<ring, closed, stats, late, ringing, doorbell, batch, closing, emits>>

HearDone(r) ==
    /\ sender[r] = "select"
    /\ closed[r]
    /\ last' = [last EXCEPT ![r] = TRUE]
    /\ sender' = [sender EXCEPT ![r] = "drain"]
    /\ UNCHANGED <<ring, closed, stats, late, ringing, doorbell, batch, closing, emits>>

TakeNothing(r) ==
    /\ sender[r] = "drain"
    /\ ring[r] = <<>>
    /\ sender' = [sender EXCEPT ![r] = "drained"]
    /\ UNCHANGED <<ring, closed, stats, late, ringing, doorbell, last, batch,
                   closing, emits>>

\* drain returned: back to the select, or out of run for good.
LeaveDrain(r) ==
    /\ sender[r] = "drained"
    /\ sender' = [sender EXCEPT ![r] = IF last[r] THEN "stopped" ELSE "select"]
    /\ UNCHANGED <<ring, closed, stats, late, ringing, doorbell, last, batch,
                   closing, emits>>

Take(r) ==
    /\ sender[r] = "drain"
    /\ ring[r] # <<>>
    /\ LET n == IF Len(ring[r]) < MaxBatch THEN Len(ring[r]) ELSE MaxBatch
       IN  /\ batch' = [batch EXCEPT ![r] = SubSeq(ring[r], 1, n)]
           /\ ring' = [ring EXCEPT ![r] = SubSeq(ring[r], n + 1, Len(ring[r]))]
    /\ sender' = [sender EXCEPT ![r] = "sending"]
    /\ UNCHANGED <<closed, stats, late, ringing, doorbell, last, closing, emits>>

\* The sink returned: with an error or without.
Sent(r, ok) ==
    /\ sender[r] \in {"sending", "awaiting"}
    /\ stats' = IF ok
                THEN [stats EXCEPT ![r].delivered = @ + Len(batch[r])]
                ELSE [stats EXCEPT ![r].failed = @ + Len(batch[r])]
    /\ batch' = [batch EXCEPT ![r] = <<>>]
    /\ sender' = [sender EXCEPT ![r] = "drain"]
    /\ UNCHANGED <<ring, closed, late, ringing, doorbell, last, closing, emits>>
-----------------------------------------------------------------------------
CloseEmitter(r) ==
    /\ Alive(r)
    /\ closing[r] = "no"
    /\ closed' = [closed EXCEPT ![r] = TRUE]
    /\ closing' = [closing EXCEPT ![r] = "waiting"]
    /\ UNCHANGED <<ring, stats, late, ringing, doorbell, sender, last, batch, emits>>

CloseReturns(r) ==
    /\ closing[r] = "waiting"
    /\ sender[r] = "stopped"
    /\ closing' = [closing EXCEPT ![r] = "flushed"]
    /\ UNCHANGED <<ring, closed, stats, late, ringing, doorbell, sender, last,
                   batch, emits>>

\* The grace ran out (FlushGrace): Close reports it and the process exits,
\* and with it goes everything it had in memory.
CloseGivesUp(r) ==
    /\ closing[r] = "waiting"
    /\ closing' = [closing EXCEPT ![r] = "gave up"]
    /\ sender' = [sender EXCEPT ![r] = "gone"]
    /\ ring' = [ring EXCEPT ![r] = <<>>]
    /\ batch' = [batch EXCEPT ![r] = <<>>]
    /\ stats' = [stats EXCEPT ![r] = NoStats]
    /\ late' = [late EXCEPT ![r] = 0]
    /\ ringing' = [ringing EXCEPT ![r] = 0]
    /\ doorbell' = [doorbell EXCEPT ![r] = FALSE]
    /\ UNCHANGED <<closed, last, emits>>
-----------------------------------------------------------------------------
EmitterTypeOK ==
    /\ ring \in [Roles -> Seq(Event)]
    /\ \A r \in Roles : Len(ring[r]) <= Buffer
    /\ closed \in [Roles -> BOOLEAN]
    /\ stats \in [Roles -> Stats]
    /\ late \in [Roles -> Nat]
    /\ ringing \in [Roles -> Nat]
    /\ doorbell \in [Roles -> BOOLEAN]
    /\ sender \in [Roles -> {"select", "drain", "drained", "sending", "awaiting",
                             "stopped", "gone"}]
    /\ last \in [Roles -> BOOLEAN]
    /\ batch \in [Roles -> Seq(Event)]
    /\ closing \in [Roles -> {"no", "waiting", "flushed", "gave up"}]
    /\ emits \in [Roles -> 0..MaxEmits]

\* Every event that was accepted is in the ring, with the sink, or counted as
\* evicted, failed or delivered, whatever callers, sender and Close interleave
\* (EmitEvent, drain and take each hold the mutex for one part only).
EventsAccounted ==
    \A r \in Roles :
        stats[r].emitted + late[r] =
            stats[r].dropped + stats[r].failed + stats[r].delivered
            + Len(ring[r]) + Len(batch[r])

\* When Close returns without an error nothing that was accepted is left
\* behind: no event in the ring and no batch with the sink.
CloseFlushes ==
    \A r \in Roles :
        closing[r] = "flushed" => ring[r] = <<>> /\ batch[r] = <<>>

\* No wake-up is lost: while an event is in the ring, the sender is draining,
\* or a token waits for it, or a caller is about to leave one, or Close has
\* made the sender's other branch ready.
NoWakeUpLost ==
    \A r \in Roles :
        ring[r] # <<>> =>
            \/ sender[r] \in {"drain", "sending", "awaiting"}
            \/ doorbell[r]
            \/ ringing[r] > 0
            \/ closed[r] /\ sender[r] # "stopped" /\ ~last[r]
=============================================================================
