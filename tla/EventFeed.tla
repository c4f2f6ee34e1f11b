------------------------------ MODULE EventFeed ------------------------------
(***************************************************************************)
(* The event log end to end: the emitters of the role processes, the HTTP  *)
(* sink that carries their batches (platform/obs/sink.go), the collector's *)
(* ingest handlers and hub (collector/ingest.go, hub.go), its streams      *)
(* (collector/sse.go) and the pages at their far end                       *)
(* (frontend/src/sse/stream.ts).  Requests are lost, answers come after    *)
(* the sink stopped waiting, streams break, and the collector restarts.    *)
(***************************************************************************)
EXTENDS Emitter, Hub

CONSTANTS
    MaxFaults       \* bound: streams that break, collectors that stop or crash

VARIABLES
    handlers,   \* ingest handlers at work: the sender's batch, and what is left
    stream,     \* each page's connection, and the replay left to write to it
    page,       \* each page's client: state, last number, baseline
    shown,      \* history: numbers this collector's records were shown under
    view,       \* history: the events of those records
    reported,   \* numbers of this collector the page reported as missing
    faults      \* streams broken and collectors ended so far

feedVars == <<handlers, stream, page, shown, view, reported, faults>>
vars == <<emitterVars, hubVars, feedVars>>
-----------------------------------------------------------------------------
NoStream == [open |-> FALSE, replay |-> <<>>]
NewPage == [state |-> "connecting", lastSeq |-> 0, baseline |-> FALSE]

Init ==
    /\ EmitterInit
    /\ HubInit
    /\ handlers = {}
    /\ stream = [p \in Pages |-> NoStream]
    /\ page = [p \in Pages |-> NewPage]
    /\ shown = [p \in Pages |-> <<>>]
    /\ view = [p \in Pages |-> <<>>]
    /\ reported = [p \in Pages |-> {}]
    /\ faults = 0
-----------------------------------------------------------------------------
\* The sink's POST reaches the collector, which has read and validated the
\* batch with the check the emitter had passed it with.
PostArrives(r) ==
    /\ sender[r] = "sending"
    /\ sender' = [sender EXCEPT ![r] = "awaiting"]
    /\ handlers' = handlers \cup {[batch |-> batch[r], todo |-> batch[r]]}
    /\ UNCHANGED <<ring, closed, stats, late, ringing, doorbell, last, batch,
                   closing, emits, hubVars, stream, page, shown, view, reported,
                   faults>>

\* No answer within httpTimeout, or no connection: the sink gives the batch
\* up.  A handler that has it goes on with it.
PostFails(r) ==
    /\ Sent(r, FALSE)
    /\ UNCHANGED <<hubVars, feedVars>>

\* One event of a batch under the hub's mutex; other batches may come between.
IngestOne(h) ==
    /\ h.todo # <<>>
    /\ Publish(Head(h.todo))
    /\ handlers' = (handlers \ {h}) \cup {[h EXCEPT !.todo = Tail(@)]}
    /\ UNCHANGED <<emitterVars, stream, page, shown, view, reported, faults>>

\* The sender whose batch the handler h has, while it waits for the answer.
AwaitedBy(h) == {r \in Roles : sender[r] = "awaiting" /\ batch[r] = h.batch}

\* The handler answers: 202 after the whole batch, 503 from a closed hub.
IngestAnswers(h) ==
    /\ h.todo = <<>> \/ hubClosed
    /\ handlers' = handlers \ {h}
    /\ IF AwaitedBy(h) = {}
       THEN UNCHANGED emitterVars
       ELSE \E r \in AwaitedBy(h) : Sent(r, h.todo = <<>>)
    /\ UNCHANGED <<hubVars, stream, page, shown, view, reported, faults>>
-----------------------------------------------------------------------------
\* EventSource connects, or reconnects by itself, naming the last id it saw.
Connect(p) ==
    /\ page[p].state = "connecting"
    /\ page' = [page EXCEPT ![p].state = "open"]
    /\ stream' = [stream EXCEPT ![p] = [open |-> TRUE,
                                        replay |-> Replay(page[p].lastSeq)]]
    /\ Subscribe(p)
    /\ UNCHANGED <<emitterVars, handlers, shown, view, reported, faults>>

\* Slip: the comparison is off by one, and a single missing record passes.
MissingTwo(p, seq) ==
    IF page[p].baseline /\ seq > page[p].lastSeq + 2
    THEN (page[p].lastSeq + 1)..(seq - 1) ELSE {}

\* What receive makes of a record whose number does not follow the last one.
Missing(p, seq) ==
    IF page[p].baseline THEN (page[p].lastSeq + 1)..(seq - 1) ELSE {}

Deliver(p, rec) ==
    /\ reported' = [reported EXCEPT ![p] = @ \cup Missing(p, rec.seq)]
    /\ page' = [page EXCEPT ![p].lastSeq = rec.seq, ![p].baseline = TRUE]
    /\ shown' = [shown EXCEPT ![p] = Append(@, rec.seq)]
    /\ view' = [view EXCEPT ![p] = Append(@, rec.event)]

\* The stream handler writes the replayed history first, then what is queued.
WriteReplay(p) ==
    /\ stream[p].open
    /\ stream[p].replay # <<>>
    /\ Deliver(p, Head(stream[p].replay))
    /\ stream' = [stream EXCEPT ![p].replay = Tail(@)]
    /\ UNCHANGED <<emitterVars, hubVars, handlers, faults>>

WriteLive(p) ==
    /\ stream[p].open
    /\ stream[p].replay = <<>>
    /\ Receive(p)
    /\ Deliver(p, Head(channel[p]))
    /\ UNCHANGED <<emitterVars, handlers, stream, faults>>

\* The handler finds its channel closed and returns; the page reconnects.
StreamEnds(p) ==
    /\ stream[p].open
    /\ stream[p].replay = <<>>
    /\ ChannelClosed(p)
    /\ stream' = [stream EXCEPT ![p] = NoStream]
    /\ page' = [page EXCEPT ![p].state = "connecting"]
    /\ Unsubscribe(p)
    /\ UNCHANGED <<emitterVars, handlers, shown, view, reported, faults>>

\* The connection breaks: the handler's context ends or its write fails, and
\* the deferred Unsubscribe runs.  The browser retries or gives up.
StreamBreaks(p) ==
    /\ stream[p].open
    /\ faults < MaxFaults
    /\ faults' = faults + 1
    /\ stream' = [stream EXCEPT ![p] = NoStream]
    /\ \E s \in {"connecting", "failed"} : page' = [page EXCEPT ![p].state = s]
    /\ Unsubscribe(p)
    /\ UNCHANGED <<emitterVars, handlers, shown, view, reported>>

\* The viewer asks again: a new EventSource, resuming from lastSeq.
Reconnect(p) ==
    /\ page[p].state = "failed"
    /\ page' = [page EXCEPT ![p].state = "connecting"]
    /\ UNCHANGED <<emitterVars, hubVars, handlers, stream, shown, view, reported,
                   faults>>

ClosePage(p) ==
    /\ page[p].state # "closed"
    /\ page' = [page EXCEPT ![p].state = "closed"]
    /\ stream' = [stream EXCEPT ![p] = NoStream]
    /\ Unsubscribe(p)
    /\ UNCHANGED <<emitterVars, handlers, shown, view, reported, faults>>
-----------------------------------------------------------------------------
\* The collector is told to stop: the hub closes first, so that streams end.
CollectorStops ==
    /\ faults < MaxFaults
    /\ faults' = faults + 1
    /\ CloseHub
    /\ UNCHANGED <<emitterVars, handlers, stream, page, shown, view, reported>>

\* A new process after a stop or a crash; every connection to the old is gone.
CollectorRestarts ==
    /\ hubClosed \/ faults < MaxFaults
    /\ faults' = IF hubClosed THEN faults ELSE faults + 1
    /\ NewHub
    /\ handlers' = {}
    /\ stream' = [p \in Pages |-> NoStream]
    /\ page' = [p \in Pages |-> IF stream[p].open
                                THEN [page[p] EXCEPT !.state = "connecting"]
                                ELSE page[p]]
    /\ shown' = [p \in Pages |-> <<>>]
    /\ view' = [p \in Pages |-> <<>>]
    /\ reported' = [p \in Pages |-> {}]
    /\ UNCHANGED emitterVars
-----------------------------------------------------------------------------
Caller(r) ==
    \/ EmitClosed(r)
    \/ \E d \in Drafts : EmitInvalid(r, d) \/ EmitEvent(r, d)
    \/ CloseEmitter(r)
    \/ CloseGivesUp(r)

Sender(r) ==
    \/ HearDoorbell(r)
    \/ HearDone(r)
    \/ TakeNothing(r)
    \/ LeaveDrain(r)
    \/ Take(r)

EmitterStep(r) ==
    /\ Caller(r) \/ RingDoorbell(r) \/ Sender(r) \/ CloseReturns(r)
    /\ UNCHANGED <<hubVars, feedVars>>

PageStep(p) ==
    \/ Connect(p)
    \/ WriteReplay(p)
    \/ WriteLive(p)
    \/ StreamEnds(p)
    \/ StreamBreaks(p)
    \/ Reconnect(p)
    \/ ClosePage(p)

Next ==
    \/ \E r \in Roles : EmitterStep(r) \/ PostArrives(r) \/ PostFails(r)
    \/ \E h \in handlers : IngestOne(h) \/ IngestAnswers(h)
    \/ \E p \in Pages : PageStep(p)
    \/ CollectorStops
    \/ CollectorRestarts

Spec == Init /\ [][Next]_vars
-----------------------------------------------------------------------------
\* A page's pending records - what is left of its replay and what is queued -
\* are the records that follow each other up to the last one published, for
\* as long as the hub serves it: history and live stream join with no gap and
\* no repeat (Hub.Subscribe's promise), and a page that lags is cut off, never
\* left with a hole (Hub.Publish).
StreamIsContiguous ==
    \A p \in Pages :
        p \in subscribers =>
            LET pending == stream[p].replay \o channel[p]
            IN  \A i \in 1..Len(pending) :
                    /\ pending[i].seq = nextSeq - Len(pending) + i
                    /\ pending[i].event = published[pending[i].seq]

\* A page never shows a record of this collector with an earlier one silently
\* left out: every number between the first it showed and the last was shown
\* or reported as missing (receive in stream.ts).
HolesAreReported ==
    \A p \in Pages :
        LET seen == {shown[p][i] : i \in 1..Len(shown[p])}
        IN  \A m \in seen, n \in seen : m..n \subseteq seen \cup reported[p]

\* The feed the pages see is the one OrderedFeed describes.
Feed == INSTANCE OrderedFeed WITH
            Events <- Event,
            log <- published,
            mark <- [p \in Pages |-> IF shown[p] = <<>> THEN 0
                                     ELSE shown[p][Len(shown[p])]],
            view <- view
ImplementsFeed == Feed!Spec
=============================================================================
