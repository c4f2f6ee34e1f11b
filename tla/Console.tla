------------------------------ MODULE Console ------------------------------
(***************************************************************************)
(* The agent's console (agent/console): the one service of the agent that  *)
(* a page talks to.  It has a sentence read and keeps the reading, makes   *)
(* proposals from readings it still holds, and starts watches, of which it *)
(* holds a fixed number and never lets one go.                             *)
(*                                                                         *)
(* Requests are handled concurrently; a slot is one of them under way, and *)
(* a step of it is what happens between two locks or two round trips.      *)
(* Requests that are refused before they change anything are not steps.    *)
(* What a watch does once started is module Watch, and its surface module  *)
(* Surface; here a call to either comes back or fails.  What the agent     *)
(* proposes is a parameter, which AgentConsole takes from Proposals.       *)
(***************************************************************************)
EXTENDS Integers, Sequences, FiniteSets, FiniteSetsExt, Functions

CONSTANTS
    AgentProposes(_, _, _),             \* from a reading and a pick, at an instant
    AgentProposesStated(_, _, _, _),    \* from an item, a limit and a quantity
    Slots,          \* requests that may be under way at once
    Limit,          \* watches the console will hold
    maxReadings,    \* readings it will hold
    readingLifetime,
    Sentences,      \* what the sentences typed are read as, in turn (a bound)
    Picks,          \* items a user may pick from what a proposal lists
    Baskets,        \* baskets with a limit on each: [item, limit, quantity]
    MaxTime         \* bound: the last instant

ASSUME ConsoleAssumption ==
    /\ {Limit, maxReadings, readingLifetime} \subseteq Nat \ {0}
    /\ MaxTime \in Nat
    /\ IsFiniteSet(Slots)

VARIABLES
    now,            \* the clock
    call,           \* each slot's request, as far as it has come
    pending,        \* places reserved
    runs,           \* watches registered (len(order), and byID)
    readings,       \* the map
    readingOrder,   \* and the order its entries were made in
    remembered      \* history: when every reading ever kept was made

placeVars == <<pending, runs>>
readingVars == <<readings, readingOrder, remembered>>
vars == <<now, call, placeVars, readingVars>>

Idle == [stage |-> "idle"]

Goes(c, to) == call' = [call EXCEPT ![c] = to]

Init ==
    /\ now = 0
    /\ call = [c \in Slots |-> Idle]
    /\ pending = 0
    /\ runs = 0
    /\ readings = <<>>
    /\ readingOrder = <<>>
    /\ remembered = <<>>

Tick ==
    /\ now < MaxTime
    /\ now' = now + 1
    /\ UNCHANGED <<call, placeVars, readingVars>>
-----------------------------------------------------------------------------
(* Starting a watch. *)

reserve == runs + pending < Limit /\ pending' = pending + 1

release == pending' = pending - 1

free == Max({0, Limit - runs - pending})

\* Start: the place is taken before the round trips.  A request may bring the
\* authorisation with it; if not the agent asks the surface for one.
Start(c) ==
    /\ call[c] = Idle
    /\ reserve
    /\ \E signed \in BOOLEAN : Goes(c, [stage |-> IF signed THEN "naming" ELSE "authorising"])
    /\ UNCHANGED <<now, runs, readingVars>>

Authorise(c) ==
    /\ call[c].stage = "authorising"
    /\ \/ Goes(c, [stage |-> "naming"]) /\ UNCHANGED pending
       \/ Goes(c, Idle) /\ release
    /\ UNCHANGED <<now, runs, readingVars>>

\* Slip: the watch that could not be named keeps its place.
newIDKeeping(c) ==
    /\ call[c].stage = "naming"
    /\ \/ Goes(c, [stage |-> "describing"])
       \/ Goes(c, Idle)
    /\ UNCHANGED <<now, pending, runs, readingVars>>

\* newID has a random source that may fail.
newID(c) ==
    /\ call[c].stage = "naming"
    /\ \/ Goes(c, [stage |-> "describing"]) /\ UNCHANGED pending
       \/ Goes(c, Idle) /\ release
    /\ UNCHANGED <<now, runs, readingVars>>

\* The merchant described the item, or did not: a watch is started all the same.
register(c) ==
    /\ call[c].stage = "describing"
    /\ pending' = pending - 1
    /\ runs' = runs + 1
    /\ Goes(c, Idle)
    /\ UNCHANGED <<now, readingVars>>
-----------------------------------------------------------------------------
(* Readings. *)

Old(id, t) == t - readings[id].made >= readingLifetime

\* Slip: the order is taken for the order of age.
forgetExpiredHead(t) ==
    LET young == {i \in DOMAIN readingOrder : ~Old(readingOrder[i], t)}
        first == IF young = {} THEN Len(readingOrder) + 1 ELSE Min(young)
        kept == SubSeq(readingOrder, first, Len(readingOrder))
    IN  [order |-> kept, readings |-> [id \in Range(kept) |-> readings[id]]]

\* What is held at an instant, as a request read it before it took the lock.
forgetExpired(t) ==
    LET young == {id \in DOMAIN readings : ~Old(id, t)}
        kept[i \in 0..Len(readingOrder)] ==
            IF i = 0 THEN <<>>
            ELSE IF readingOrder[i] \in young THEN Append(kept[i - 1], readingOrder[i])
            ELSE kept[i - 1]
    IN  [order |-> kept[Len(readingOrder)],
         readings |-> [id \in young \cup (DOMAIN readings \ Range(readingOrder)) |-> readings[id]]]

\* The oldest make room for one more.
evict(held) ==
    LET excess == Max({0, Cardinality(DOMAIN held.readings) - maxReadings + 1})
        gone == SubSeq(held.order, 1, excess)
    IN  [order |-> SubSeq(held.order, excess + 1, Len(held.order)),
         readings |-> [id \in DOMAIN held.readings \ Range(gone) |-> held.readings[id]]]

\* interpret: the sentence was read, and remember reads the clock.  What it was
\* read as is not looked at before a proposal is made of it.
interpret(c) ==
    /\ call[c] = Idle
    /\ Len(remembered) < Len(Sentences)
    /\ Goes(c, [stage |-> "remembering", at |-> now])
    /\ UNCHANGED <<now, placeVars, readingVars>>

\* And then it takes the lock.
remember(c) ==
    /\ call[c].stage = "remembering"
    /\ Len(remembered) < Len(Sentences)
    /\ LET held == evict(forgetExpired(call[c].at))
           id == Len(remembered) + 1
           made == call[c].at
       IN  /\ readings' = [i \in {id} \cup DOMAIN held.readings |->
                              IF i = id THEN [made |-> made, what |-> Sentences[id]]
                              ELSE held.readings[i]]
           /\ readingOrder' = Append(held.order, id)
           /\ remembered' = Append(remembered, made)
    /\ Goes(c, Idle)
    /\ UNCHANGED <<now, placeVars>>

\* candidates: of a reading, and of an item the user picked or of none.
\* recall reads the clock.
candidatesOf(c) ==
    /\ call[c] = Idle
    /\ \E id \in DOMAIN remembered, item \in {<<>>} \cup {<<i>> : i \in Picks} :
          Goes(c, [stage |-> "recalling", id |-> id, chosen |-> item, at |-> now])
    /\ UNCHANGED <<now, placeVars, readingVars>>

\* And then takes the lock: a reading that is not held is gone (410).
recall(c) ==
    /\ call[c].stage = "recalling"
    /\ LET held == forgetExpired(call[c].at)
           id == call[c].id
       IN  /\ readings' = held.readings
           /\ readingOrder' = held.order
           /\ IF id \in DOMAIN held.readings
                THEN Goes(c, [stage |-> "proposing", reading |-> held.readings[id],
                              chosen |-> call[c].chosen, asked |-> call[c].at])
              ELSE Goes(c, Idle)
    /\ UNCHANGED <<now, placeVars, remembered>>

resolved(quantity) == IF quantity < 1 THEN 1 ELSE quantity

\* A basket of none, or of a number nobody gave, is of one.
proposalOf(p) == IF p.error # "" THEN p ELSE [p EXCEPT !.quantity = resolved(@)]

\* The merchant is asked, whenever it answers, and the proposal is the reply.
propose(c) ==
    /\ call[c].stage = "proposing"
    /\ LET reading == call[c].reading
           proposal == proposalOf(AgentProposes(reading.what, call[c].chosen, now))
       IN  Goes(c, [stage |-> "proposed", reading |-> <<reading.what>>, chosen |-> call[c].chosen,
                    at |-> now, proposal |-> proposal])
    /\ UNCHANGED <<now, placeVars, readingVars>>

\* A proposal from a limit the user set holds no reading.
proposeStated(c) ==
    /\ call[c] = Idle
    /\ \E basket \in Baskets :
          Goes(c, [stage |-> "proposed", reading |-> <<>>, chosen |-> basket.item, at |-> now,
                   proposal |-> proposalOf(AgentProposesStated(basket.item, basket.limit,
                                                               resolved(basket.quantity), now))])
    /\ UNCHANGED <<now, placeVars, readingVars>>

Reply(c) ==
    /\ call[c].stage = "proposed"
    /\ Goes(c, Idle)
    /\ UNCHANGED <<now, placeVars, readingVars>>

Next ==
    \/ Tick
    \/ \E c \in Slots :
          \/ Start(c)
          \/ Authorise(c)
          \/ newID(c)
          \/ register(c)
          \/ interpret(c)
          \/ remember(c)
          \/ candidatesOf(c)
          \/ recall(c)
          \/ propose(c)
          \/ proposeStated(c)
          \/ Reply(c)

Spec == Init /\ [][Next]_vars
-----------------------------------------------------------------------------
\* No place is lost and none is given twice: the places reserved are those of
\* the starts under way, whichever of their steps fail and in whatever order,
\* and what a page is told is free is what the runs and they leave.
\* (console.go: Start, reserve, release, register, free)
PlacesAccounted ==
    LET starting == {c \in Slots : call[c].stage \in {"authorising", "naming", "describing"}}
    IN  /\ pending = Cardinality(starting)
        /\ free = Limit - runs - Cardinality(starting)

\* The map and the order hold the same readings, no more than there is room
\* for; none is used that was past its lifetime when it was asked for, though
\* requests may take the lock out of the order they read the clock in; and none
\* goes before its time but to make room for as many later ones.
\* (readings.go: remember, recall, forgetExpired)
ReadingsAgree ==
    /\ DOMAIN readings = Range(readingOrder)
    /\ Cardinality(DOMAIN readings) = Len(readingOrder)
    /\ Len(readingOrder) <= maxReadings
    /\ \A c \in Slots : call[c].stage = "proposing" =>
          call[c].asked - call[c].reading.made < readingLifetime
    /\ \A id \in DOMAIN remembered \ DOMAIN readings :
          \/ now - remembered[id] >= readingLifetime
          \/ Len(remembered) - id >= maxReadings
=============================================================================
