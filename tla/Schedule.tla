------------------------------ MODULE Schedule ------------------------------
(***************************************************************************)
(* The price of an offer over time (roles/merchant/inventory.go): prices,  *)
(* and boundaries at which one gives way to the next, drawn when the       *)
(* merchant starts.  A cyclic schedule holds its last price too and then   *)
(* goes back to the first; what it keeps is one lap.                       *)
(*                                                                         *)
(* A schedule is [start, widths, prices, cyclic].  Widths are what the     *)
(* constructor drew, each from its range.                                  *)
(***************************************************************************)
EXTENDS Integers, Sequences, FiniteSets, FiniteSetsExt, Functions

CONSTANT
    Offers      \* what a merchant sells, in the order it lists it

numTransitions(n) == IF n <= 1 THEN 0 ELSE n - 1

\* Slip: the last price of a lap gets no hold of its own.
cyclicTransitionsOneShort(n) == numTransitions(n)

cyclicTransitions(n) == IF n <= 1 THEN 0 ELSE n

\* What buildSchedule refuses to serve.
Sound(prices) == prices # <<>> /\ \A i \in DOMAIN prices : prices[i].n >= 0 /\ prices[i].unit # "none"

\* NewJitteredSchedule and NewCyclingJitteredSchedule, width[i] being the i-th
\* draw; NewSchedule is the first of them with every draw the same.
Jittered(start, width, prices) ==
    [start |-> start, prices |-> prices, cyclic |-> FALSE,
     widths |-> [i \in 1..numTransitions(Len(prices)) |-> width[i]]]

Cycling(start, width, prices) ==
    LET widths == [i \in 1..cyclicTransitions(Len(prices)) |-> width[i]]
    IN  [start |-> start, prices |-> prices, cyclic |-> widths # <<>>, widths |-> widths]

\* What buildSchedule serves: a hold for every price, but for the last of a
\* schedule that does not go round.
Scheduled(s) ==
    /\ s.start \in Int
    /\ s.cyclic \in BOOLEAN
    /\ s.prices \in Seq([kind : {"money"}, n : Nat, unit : STRING]) /\ Sound(s.prices)
    /\ s.widths \in Seq(Nat \ {0})
    /\ s.cyclic => s.widths # <<>>
    /\ Len(s.widths) = IF s.cyclic THEN cyclicTransitions(Len(s.prices))
                       ELSE numTransitions(Len(s.prices))

Boundaries(s) ==
    LET after[i \in 0..Len(s.widths)] ==
            IF i = 0 THEN s.start ELSE after[i - 1] + s.widths[i]
    IN  after

Lap(s) == Boundaries(s)[Len(s.widths)] - s.start

\* The step is the number of boundaries at or before the instant, of its place
\* in the lap if there are laps; before the start the first price applies.
at(s, t) ==
    LET after == Boundaries(s)
        within == IF s.cyclic THEN s.start + (Max({t - s.start, 0}) % Lap(s)) ELSE t
        step == Cardinality({i \in 1..Len(s.widths) : after[i] <= within})
    IN  [price |-> s.prices[step + 1], step |-> step,
         final |-> step = Len(s.prices) - 1 /\ ~s.cyclic]

\* The lowest price the schedule ever quotes, the first of equals.
Floor(s) ==
    LET lowest == CHOOSE i \in DOMAIN s.prices :
            /\ \A j \in DOMAIN s.prices : s.prices[i].n <= s.prices[j].n
            /\ \A j \in 1..(i - 1) : s.prices[j].n > s.prices[i].n
    IN  s.prices[lowest]

\* No price of the schedule held for less than this.
ShortestHold(s) == Min(Range(s.widths))

ASSUME OffersAssumption == \A i \in DOMAIN Offers : Scheduled(Offers[i].schedule)
=============================================================================
