----------------------------- MODULE MCAuthority -----------------------------
(* A small instance of Authority. *)
EXTENDS Authority, TLC

Text(n) == [kind |-> "text", n |-> n, unit |-> "plain"]
Shoes == Text(1)
Boots == Text(2)
Red == Text(3)

Leaf(field, op, values) ==
    [op |-> op, field |-> field, shape |-> operators[op].shape, values |-> values, of |-> <<>>]
Group(op, of) == [op |-> op, field |-> "", shape |-> "none", values |-> <<>>, of |-> of]

UpTo(n) == Leaf("amount", "lte", <<Money(n)>>)
Before(t) == Leaf("at", "before", <<Time(t)>>)
Is(category) == Leaf("item.category", "eq", <<category>>)

\* A price for anything red that is not boots; boots at any time or anything
\* early; and a price of shoes alone, which only the merchant can weigh.
\* The last limit is on something the language has no field for.
MCInstructions == {
    <<UpTo(2), Group("not", <<Is(Boots)>>), Leaf("item.attr.colour", "in", <<Red>>)>>,
    <<UpTo(3), Group("any", <<Is(Boots), Before(1)>>)>>,
    <<Group("all", <<UpTo(2), Is(Shoes)>>), Before(2)>>,
    <<Leaf("item.weight", "lte", <<Number(1)>>)>>
}

Item(id, category) ==
    "item.id" :> Text(id) @@ "item.category" :> category @@ "item.attr.colour" :> Red

Choice(item, price, mode) == [item |-> item, price |-> price, mode |-> mode]

MCMenu == <<
    {Choice(Item(11, Shoes), 2, "chain"), Choice(Item(12, Boots), 2, "chain"),
     Choice(Item(11, Shoes), 1, "direct")},
    {Choice(Item(11, Shoes), 2, "chain"), Choice(Item(11, Shoes), 2, "direct")}
>>

MCAgents == {AgentKey, [id |-> 0, alg |-> ""]}
=============================================================================
