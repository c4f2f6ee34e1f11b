----------------------------- MODULE OrderedFeed -----------------------------
(***************************************************************************)
(* What the event log promises the pages that follow it, whatever happens  *)
(* on the way: a page is shown an ordered, repeat-free part of what the    *)
(* collector's present process published, and no event is published twice. *)
(* It says nothing of completeness: the log may lose events, and the feed  *)
(* starts over with every collector process.                               *)
(***************************************************************************)
EXTENDS Integers, Sequences

CONSTANTS
    Pages,      \* who follows the log
    Events      \* what can be published

VARIABLES
    log,    \* the events this collector process published
    mark,   \* how far into log each page has got
    view    \* the events of log each page was shown

vars == <<log, mark, view>>

Init ==
    /\ log = <<>>
    /\ mark = [p \in Pages |-> 0]
    /\ view = [p \in Pages |-> <<>>]

Publish(e) ==
    /\ \A i \in 1..Len(log) : log[i] # e
    /\ log' = Append(log, e)
    /\ UNCHANGED <<mark, view>>

Show(p) ==
    \E i \in (mark[p] + 1)..Len(log) :
        /\ mark' = [mark EXCEPT ![p] = i]
        /\ view' = [view EXCEPT ![p] = Append(@, log[i])]
        /\ UNCHANGED log

StartOver ==
    /\ log' = <<>>
    /\ mark' = [p \in Pages |-> 0]
    /\ view' = [p \in Pages |-> <<>>]

Next ==
    \/ \E e \in Events : Publish(e)
    \/ \E p \in Pages : Show(p)
    \/ StartOver

Spec == Init /\ [][Next]_vars
=============================================================================
