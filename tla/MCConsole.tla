----------------------------- MODULE MCConsole -----------------------------
(* A small instance of Console. *)
EXTENDS AgentConsole

Text(n) == [kind |-> "text", n |-> n, unit |-> "plain"]
Money(n) == [kind |-> "money", n |-> n, unit |-> "EUR"]
Number(n) == [kind |-> "number", n |-> n, unit |-> "none"]
Time(n) == [kind |-> "time", n |-> n, unit |-> "none"]

Shoes == Text(1)
Boots == Text(2)
Red == Text(3)

\* Prices that fall once and for all, that go round from before the start, and
\* that never move; the last offer says nothing of its colour.
MCOffers == <<
    [id |-> Text(11), category |-> Shoes, attributes |-> "item.attr.colour" :> Red,
     schedule |-> Jittered(1, <<1, 2>>, <<Money(3), Money(2), Money(1)>>)],
    [id |-> Text(12), category |-> Boots, attributes |-> "item.attr.colour" :> Red,
     schedule |-> Cycling(1, <<1, 2, 1>>, <<Money(2), Money(1), Money(3)>>)],
    [id |-> Text(13), category |-> Boots, attributes |-> <<>>,
     schedule |-> Cycling(0, <<>>, <<Money(2)>>)]
>>

MCSeller == Text(7)

Leaf(field, op, values) ==
    [op |-> op, field |-> field, shape |-> operators[op].shape, values |-> values, of |-> <<>>]
Group(op, of) == [op |-> op, field |-> "", shape |-> "none", values |-> <<>>, of |-> of]

UpTo(n) == Leaf("amount", "lte", <<Money(n)>>)
Before(t) == Leaf("at", "before", <<Time(t)>>)
Is(category) == Leaf("item.category", "eq", <<category>>)

Reading(constraints, rank, quantity) ==
    [constraints |-> constraints, rank |-> rank, quantity |-> quantity, trigger |-> "conditional"]

\* Boots under a price, cheapest first; boots, or anything cheap and early;
\* shoes or boots under two limits, of each its own, and nothing both red and
\* cheap.  The second names nothing to look for: one branch is of any item.
MCSentences == <<
    Reading(<<Is(Boots), UpTo(2)>>, [by |-> "price", direction |-> "asc"], 0),
    Reading(<<Group("any", <<Is(Boots), Group("all", <<UpTo(2), Before(3)>>)>>)>>, Unranked, 1),
    Reading(<<Group("any", <<Group("all", <<Is(Shoes), UpTo(4)>>),
                             Group("all", <<Is(Boots), Before(3)>>)>>),
              Group("not", <<Group("all", <<Leaf("item.attr.colour", "in", <<Red>>), UpTo(1)>>)>>)>>,
            [by |-> "price", direction |-> "desc"], 2)
>>

MCPicks == {Text(12)}

MCBaskets == {
    [item |-> <<Text(11)>>, limit |-> Money(4), quantity |-> 2],
    [item |-> <<Text(12)>>, limit |-> Money(2), quantity |-> 0],
    [item |-> <<Text(14)>>, limit |-> Money(2), quantity |-> 1],
    [item |-> <<>>, limit |-> Money(2), quantity |-> 1]
}

SlotsMayBeSwapped == Permutations(Slots)
=============================================================================
