----------------------------- MODULE Proposals -----------------------------
(***************************************************************************)
(* What the agent puts to its user (agent/authorise.go, agent/rank.go):    *)
(* from a sentence that was read as limits, or from a limit the user set   *)
(* on an item, it asks the merchant what it sells, settles on an offer,    *)
(* and proposes the constraints the surface will be asked to sign.         *)
(*                                                                         *)
(* A reading of a sentence is [constraints, rank, quantity, trigger]; what *)
(* Validate refuses is not one.  chosen is the item the user picked, a     *)
(* sequence of at most one.                                                *)
(***************************************************************************)
EXTENDS Catalogue

Unranked == [by |-> "", direction |-> ""]

Validate(reading) ==
    /\ reading.constraints # <<>>
    /\ \A i \in DOMAIN reading.constraints : Parses(reading.constraints[i])
    /\ reading.trigger \in {"immediate", "conditional"}
    /\ reading.rank = Unranked \/ reading.rank \in [by : {"price"}, direction : {"asc", "desc"}]

leafOf(op, field, value) ==
    [op |-> op, field |-> field, shape |-> "one", values |-> <<value>>, of |-> <<>>]

\* The limits as far as they say which item to look for.
identifying(constraints) ==
    FlattenSeq([i \in DOMAIN constraints |-> Narrowing(constraints[i])])

query(constraints, chosen) ==
    IF chosen # <<>> THEN <<leafOf("eq", "item.id", chosen[1])>> ELSE identifying(constraints)

candidatesError(constraints, chosen) ==
    Refuse(query(constraints, chosen) = <<>>, "names nothing to look for")
    ?? Refuse(SearchError(query(constraints, chosen)) # "", "search failed")

candidates(constraints, chosen, t) == Search(query(constraints, chosen), t)

\* A preference is of the offers that the user did not choose among.
applies(rank, chosen) == IF chosen # <<>> THEN Unranked ELSE rank

\* onePriceCurrency: there is no rate between two of them.
rankError(found, rank) ==
    Refuse(/\ rank # Unranked
           /\ \/ \E i \in DOMAIN found : found[i].price.unit = "none"
              \/ \E i, j \in DOMAIN found : found[i].price.unit # found[j].price.unit,
           "cannot rank")

\* A stable sort: equal prices keep the merchant's order.
ranked(found, rank) ==
    LET direction == IF rank.direction = "asc" THEN 1 ELSE -1
        before == {p \in (DOMAIN found) \X (DOMAIN found) :
                      \/ direction * found[p[1]].price.n < direction * found[p[2]].price.n
                      \/ found[p[1]].price.n = found[p[2]].price.n /\ p[1] < p[2]}
        order == Arranged(DOMAIN found, before)
    IN  IF rank = Unranked THEN found ELSE [k \in DOMAIN order |-> found[order[k]]]

\* settle: the offers, in order, and the first of them.
settleError(constraints, chosen, rank, t) ==
    LET found == candidates(constraints, chosen, t)
        offers == ranked(found, applies(rank, chosen))
    IN  candidatesError(constraints, chosen)
        ?? Refuse(found = <<>>, "no offer matched")
        ?? rankError(found, applies(rank, chosen))
        ?? Refuse(chosen # <<>> /\ offers[1].offer.id # chosen[1], "answered differently")

settle(constraints, chosen, rank, t) ==
    ranked(candidates(constraints, chosen, t), applies(rank, chosen))

\* narrow: whatever the limits were, what is signed is for one item.
narrow(constraints, item) == Append(constraints, leafOf("eq", "item.id", item))

Refused(error) == [error |-> error, offers |-> <<>>]

ProposeFrom(reading, chosen, t) ==
    LET error == settleError(reading.constraints, chosen, reading.rank, t)
        offers == settle(reading.constraints, chosen, reading.rank, t)
    IN  IF error # "" THEN Refused(error)
        ELSE [error |-> "", offers |-> offers, item |-> offers[1].offer.id,
              constraints |-> narrow(reading.constraints, offers[1].offer.id),
              quantity |-> reading.quantity, trigger |-> reading.trigger]

\* Of a limit and the price of the basket.
triggerFor(limit, line) == IF limit.n >= line.n THEN "immediate" ELSE "conditional"

\* ProposeStated: a limit on the whole basket, of an item the user picked.
ProposeStatedError(item, limit, quantity, t) ==
    Refuse(item = <<>>, "names nothing to look for")
    ?? Refuse(limit.n <= 0 \/ limit.unit = "none" \/ quantity < 1, "limit unusable")
    ?? settleError(<<>>, item, Unranked, t)
    ?? Refuse(settle(<<>>, item, Unranked, t)[1].price.unit # limit.unit, "limit unusable")

ProposeStated(item, limit, quantity, t) ==
    LET error == ProposeStatedError(item, limit, quantity, t)
        offers == settle(<<>>, item, Unranked, t)
        price == offers[1].price
        stated == <<leafOf("lte", "amount", limit),
                    leafOf("lte", "quantity", [kind |-> "number", n |-> quantity, unit |-> "none"])>>
    IN  IF error # "" THEN Refused(error)
        ELSE [error |-> "", offers |-> offers, item |-> offers[1].offer.id,
              constraints |-> narrow(stated, offers[1].offer.id), quantity |-> quantity,
              trigger |-> triggerFor(limit, [price EXCEPT !.n = @ * quantity])]
=============================================================================
