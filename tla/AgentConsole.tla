---------------------------- MODULE AgentConsole ----------------------------
(***************************************************************************)
(* The console with the agent behind it: AgentProposes is ProposeFrom, and *)
(* AgentProposesStated is ProposeStated.  What they are is fixed where a   *)
(* constant is given its value; what they promise the user is here.        *)
(***************************************************************************)
EXTENDS PricedConsole, Proposals

\* What Validate refuses is never remembered.
ASSUME SentencesAssumption ==
    /\ Len(Sentences) \in Nat /\ DOMAIN Sentences = 1..Len(Sentences)
    /\ \A k \in DOMAIN Sentences :
          /\ Sentences[k].constraints \in Seq(Expression)
          /\ Sentences[k].quantity \in Int
          /\ Validate(Sentences[k])

ASSUME BasketsAssumption ==
    /\ Picks \subseteq Word
    /\ \A basket \in Baskets :
          /\ basket.item \in Seq(Word) /\ Len(basket.item) <= 1
          /\ basket.limit \in [kind : {"money"}, n : Int, unit : STRING]
          /\ basket.quantity \in Int

\* Every limit allows a basket of the offer, at its price at an instant.
Allowed(limits, o, quantity, t) ==
    \A i \in DOMAIN limits :
        Satisfied(limits[i], Subject(o, Quote(o, quantity, t).price, quantity, t))

\* A proposal is made in the user's interest.  One from a sentence hides
\* nothing: unless the user picked an item, an offer that the limits allow, now
\* or at any price it will come to, is among the ones listed, also when the
\* answer is that there are none; and what is to be signed allows nothing that
\* the limits do not, and one item only.  One from a limit buys at once exactly
\* when what is to be signed allows the purchase at the price shown.
\* (authorise.go: identifying, settle, narrow, triggerFor; narrowing.go)
ProposalIsHonest ==
    \A c \in {d \in Slots : call[d].stage = "proposed"} :
        LET p == call[c].proposal
            allows(i, t) == Allowed(p.constraints, Offers[i], p.quantity, t)
            limits == call[c].reading[1].constraints
            listed == {p.offers[k].offer.id : k \in DOMAIN p.offers}
            later == call[c].at..Horizon
        IN  /\ p.error \in {"", "no offer matched"} /\ call[c].reading # <<>> =>
                  \A i \in DOMAIN Offers, t \in later :
                      LET quantity == resolved(call[c].reading[1].quantity)
                      IN  /\ /\ call[c].chosen = <<>>
                             /\ Allowed(limits, Offers[i], quantity, t)
                             => Offers[i].id \in listed
                          /\ p.error = "" /\ allows(i, t) =>
                                /\ Allowed(limits, Offers[i], quantity, t)
                                /\ Offers[i].id = p.item
            /\ p.error = "" /\ call[c].reading = <<>> =>
                  \A i \in DOMAIN Offers : Offers[i].id = p.item =>
                      (p.trigger = "immediate" <=> allows(i, call[c].at))
=============================================================================
