--------------------------------- MODULE Hub ---------------------------------
(***************************************************************************)
(* The collector's hub (collector/hub.go): it numbers what it is given,    *)
(* keeps the last few records, and fans new ones out to subscribers.  Each *)
(* operation is one action, because each holds the hub's mutex throughout. *)
(* A subscriber is known here by the page whose stream owns it.            *)
(***************************************************************************)
EXTENDS Integers, Sequences, FiniteSets

CONSTANTS
    Pages,      \* the browser pages that follow the event log
    HistoryCap, \* records a new stream is replayed (defaultHistory, 512)
    SubCap      \* records that may queue for one subscriber (64)

ASSUME HubAssumption ==
    /\ HistoryCap \in Nat
    /\ SubCap \in Nat \ {0}

VARIABLES
    history,        \* the last HistoryCap records
    nextSeq,        \* number of the record published last
    hubClosed,      \* set by Close
    subscribers,    \* pages whose subscription the hub still serves
    channel,        \* records queued for each page's stream
    published       \* history: every event this hub was given, in order

hubVars == <<history, nextSeq, hubClosed, subscribers, channel, published>>
-----------------------------------------------------------------------------
HubInit ==
    /\ history = <<>>
    /\ nextSeq = 0
    /\ hubClosed = FALSE
    /\ subscribers = {}
    /\ channel = [p \in Pages |-> <<>>]
    /\ published = <<>>

\* What is kept of s when only its last n elements may be.
LastOf(s, n) == IF Len(s) <= n THEN s ELSE SubSeq(s, Len(s) - n + 1, Len(s))

\* Slip: a full subscriber misses the record and keeps its subscription.
PublishSkipping(e) ==
    /\ ~hubClosed
    /\ nextSeq' = nextSeq + 1
    /\ LET rec == [seq |-> nextSeq + 1, event |-> e]
       IN  /\ history' = LastOf(Append(history, rec), HistoryCap)
           /\ channel' = [p \in Pages |->
                            IF p \in subscribers /\ Len(channel[p]) < SubCap
                            THEN Append(channel[p], rec)
                            ELSE channel[p]]
    /\ published' = Append(published, e)
    /\ UNCHANGED <<hubClosed, subscribers>>

\* A subscriber with room is sent the record; one without is removed and its
\* channel closed, with what is queued in it still to be read.
Publish(e) ==
    /\ ~hubClosed
    /\ nextSeq' = nextSeq + 1
    /\ LET rec == [seq |-> nextSeq + 1, event |-> e]
           full == {p \in subscribers : Len(channel[p]) = SubCap}
       IN  /\ history' = LastOf(Append(history, rec), HistoryCap)
           /\ channel' = [p \in Pages |-> IF p \in subscribers \ full
                                          THEN Append(channel[p], rec)
                                          ELSE channel[p]]
           /\ subscribers' = subscribers \ full
    /\ published' = Append(published, e)
    /\ UNCHANGED hubClosed

\* Slip: the number the caller gave is itself replayed.
ReplayFrom(after) == SelectSeq(history, LAMBDA rec : rec.seq >= after)

\* What a new stream replays before it goes live.
Replay(after) ==
    LET kept[i \in 0..Len(history)] ==
            IF i = 0 THEN <<>>
            ELSE IF history[i].seq > after THEN Append(kept[i - 1], history[i])
            ELSE kept[i - 1]
    IN  kept[Len(history)]

\* Registering is what Subscribe does besides: with the hub closed the stream
\* gets a channel that is closed already.
Subscribe(p) ==
    /\ subscribers' = IF hubClosed THEN subscribers ELSE subscribers \cup {p}
    /\ channel' = [channel EXCEPT ![p] = <<>>]
    /\ UNCHANGED <<history, nextSeq, hubClosed, published>>

Unsubscribe(p) ==
    /\ subscribers' = subscribers \ {p}
    /\ channel' = [channel EXCEPT ![p] = <<>>]
    /\ UNCHANGED <<history, nextSeq, hubClosed, published>>

\* The stream's receive on the channel.
Receive(p) ==
    /\ channel[p] # <<>>
    /\ channel' = [channel EXCEPT ![p] = Tail(@)]
    /\ UNCHANGED <<history, nextSeq, hubClosed, subscribers, published>>

\* A receive that finds the channel closed and nothing left in it.
ChannelClosed(p) == channel[p] = <<>> /\ p \notin subscribers

CloseHub ==
    /\ ~hubClosed
    /\ hubClosed' = TRUE
    /\ subscribers' = {}
    /\ UNCHANGED <<history, nextSeq, channel, published>>

\* A new collector process: an empty hub that numbers from 1 again.
NewHub ==
    /\ history' = <<>>
    /\ nextSeq' = 0
    /\ hubClosed' = FALSE
    /\ subscribers' = {}
    /\ channel' = [p \in Pages |-> <<>>]
    /\ published' = <<>>
=============================================================================
