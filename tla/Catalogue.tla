----------------------------- MODULE Catalogue -----------------------------
(***************************************************************************)
(* What a merchant sells (roles/merchant/catalogue.go, search.go): offers  *)
(* priced by their schedules, and the search that answers which of them    *)
(* satisfy a set of constraints as they stand.                             *)
(*                                                                         *)
(* An offer is [id, category, attributes, schedule]; id and category are   *)
(* words of module Constraint, attributes a function from field names to   *)
(* words.                                                                  *)
(***************************************************************************)
EXTENDS Schedule, Constraint

CONSTANT
    Seller      \* the merchant's identifier

valid(o) == o.id.n # 0 /\ o.category.n # 0 /\ Sound(o.schedule.prices)

\* What a merchant refuses to start with.
NewCatalogue(offers) ==
    /\ offers # <<>>
    /\ Seller.n # 0
    /\ \A i \in DOMAIN offers : valid(offers[i])
    /\ \A i, j \in DOMAIN offers : offers[i].id = offers[j].id => i = j

Word == [kind : {"text"}, n : Nat, unit : STRING]

ASSUME CatalogueAssumption ==
    /\ Len(Offers) \in Nat /\ DOMAIN Offers = 1..Len(Offers)
    /\ \A i \in DOMAIN Offers :
          {Offers[i].id, Offers[i].category} \cup Range(Offers[i].attributes) \subseteq Word
    /\ NewCatalogue(Offers)

priced(o, t) ==
    LET quote == at(o.schedule, t)
    IN  [offer |-> o, price |-> quote.price, step |-> quote.step, final |-> quote.final,
         floor |-> Floor(o.schedule)]

\* The price of a basket is its line, each item at the price of the moment.
Quote(o, quantity, t) ==
    LET p == priced(o, t)
    IN  [p EXCEPT !.price.n = @ * quantity]

\* What the merchant knows of a purchase.
Subject(o, price, quantity, t) ==
    [f \in {"amount", "at", "quantity", "item.id", "item.category", "merchant.id"}
           \cup DOMAIN o.attributes |->
        CASE f = "amount" -> price
          [] f = "at" -> [kind |-> "time", n |-> t, unit |-> "none"]
          [] f = "quantity" -> [kind |-> "number", n |-> quantity, unit |-> "none"]
          [] f = "item.id" -> o.id
          [] f = "item.category" -> o.category
          [] f = "merchant.id" -> Seller
          [] OTHER -> o.attributes[f]]

SearchError(query) ==
    Refuse(query = <<>>, "no constraints")
    ?? FirstOf([i \in DOMAIN query |-> ParseError(query[i])])

satisfies(query, p, t) ==
    \A i \in DOMAIN query : Satisfied(query[i], Subject(p.offer, p.price, 1, t))

\* The elements of a finite set in the order of the pairs in R.
Arranged(S, R) ==
    [k \in 1..Cardinality(S) |-> CHOOSE i \in S : Cardinality({j \in S : <<j, i>> \in R}) = k - 1]

\* Search: the offers that one of, at the price of the moment, the query allows.
Search(query, t) ==
    LET found == {i \in DOMAIN Offers : satisfies(query, priced(Offers[i], t), t)}
        order == Arranged(found, {p \in found \X found : p[1] < p[2]})
    IN  [k \in DOMAIN order |-> priced(Offers[order[k]], t)]
=============================================================================
