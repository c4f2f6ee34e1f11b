--------------------------- MODULE PricedConsole ---------------------------
(***************************************************************************)
(* The prices of what a merchant sells, by the clock of the console: what  *)
(* a watch that the console starts may count on when it asks for them.     *)
(***************************************************************************)
EXTENDS Console, Schedule

\* How far ahead prices are looked at.
Horizon == MaxTime + readingLifetime

\* A watch that asks no further apart than the shortest hold sees every price:
\* from one poll to the next an offer is at the same step or at the one after,
\* the first after the last if it goes round, also before it starts and across
\* the end of a lap; a step said to be final is never left; no price is under
\* the floor, and one that goes round comes to it in every lap from its start.
\* (inventory.go: at, cyclicTransitions, Floor)
NoPriceSkipped ==
    \A i \in DOMAIN Offers, t \in now..Horizon :
        LET s == Offers[i].schedule
            here == at(s, t)
        IN  s.widths # <<>> =>
            /\ \A d \in 0..ShortestHold(s) :
                  LET there == at(s, t + d)
                  IN  \/ there.step \in {here.step, here.step + 1}
                      \/ s.cyclic /\ here.step = Len(s.prices) - 1 /\ there.step = 0
            /\ here.final => \A later \in t..Horizon : at(s, later).step = here.step
            /\ here.price.n >= Floor(s).n
            /\ s.cyclic /\ t >= s.start =>
                  \E d \in 0..(Lap(s) - 1) : at(s, t + d).price = Floor(s)
=============================================================================
