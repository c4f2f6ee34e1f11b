----------------------------- MODULE Constraint -----------------------------
(***************************************************************************)
(* The language a user's limits are written in (core/authz/constraint): a  *)
(* tree of groups and comparisons, how it is parsed, how a purchase is     *)
(* weighed against it, and what a merchant's catalogue may be asked of it  *)
(* (Narrowing).                                                            *)
(*                                                                         *)
(* A node is [op, field, shape, values, of]: field is "" and shape "none"  *)
(* where the wire has none, of is the sequence of children, and shape is   *)
(* the JSON form of the operand ("one", "list" or "range").  A value is    *)
(* [kind, n, unit]: an amount and its currency, an instant, a number, or a *)
(* word and its spelling; n = 0 of kind "text" is a blank.                 *)
(***************************************************************************)
EXTENDS Integers, FiniteSets, Refusals, TLC

CONSTANT
    Attributes  \* names after item.attr. that an offer may state

MaxDepth == 8

Literal == [kind : STRING, n : Int, unit : STRING]

\* Trees of so many levels at most.
Trees[n \in 0..(MaxDepth + 2)] ==
    IF n = 0 THEN {}
    ELSE [op : STRING, field : STRING, shape : STRING, values : Seq(Literal), of : Seq(Trees[n - 1])]

\* What may be on the wire; nothing is read below the first level that is too deep.
Expression == Trees[MaxDepth + 2]

\* The strings that are spelled out here are strings, which a prover is not told.
ASSUME SpellingAssumption ==
    {"", "all", "eq", "lte", "one", "none", "text", "money", "number",
     "amount", "quantity", "item.id"} \subseteq STRING

Field(kind, exact, selective) ==
    [kind |-> kind, exact |-> exact, selective |-> selective]

\* The seven fields with an entry of their own.
fields ==
    [f \in {"amount", "at", "quantity", "item.id", "item.category", "merchant.id",
            "merchant.category"} |->
        CASE f = "amount" -> Field("money", FALSE, FALSE)
          [] f = "at" -> Field("time", FALSE, FALSE)
          [] f = "quantity" -> Field("number", FALSE, FALSE)
          [] f \in {"item.id", "merchant.id"} -> Field("text", TRUE, TRUE)
          [] OTHER -> Field("text", FALSE, TRUE)]

\* Any attribute of the item is a selective field of folded text.
lookupField == [f \in DOMAIN fields \cup Attributes |->
                  IF f \in DOMAIN fields THEN fields[f] ELSE Field("text", FALSE, TRUE)]

KnownField(f) == f \in DOMAIN lookupField

Selective(f) == KnownField(f) /\ lookupField[f].selective

Groups == {"all", "any", "not"}

comparable == {"money", "time", "number"}

Operator(kinds, shape) == [kinds |-> kinds, shape |-> shape]

operators ==
    LET anyKind == comparable \cup {"text"}
    IN  [op \in {"eq", "neq"} |-> Operator(anyKind, "one")]
        @@ [op \in {"lt", "lte", "gt", "gte"} |-> Operator(comparable, "one")]
        @@ [op \in {"in", "nin"} |-> Operator(anyKind, "list")]
        @@ "between" :> Operator(comparable, "range")
        @@ "within" :> Operator({"time"}, "range")
        @@ [op \in {"before", "after"} |-> Operator({"time"}, "one")]
-----------------------------------------------------------------------------
cmpInt(a, b) == IF a < b THEN -1 ELSE IF a > b THEN 1 ELSE 0

\* Two kinds, or two currencies, do not compare.
Comparable(a, b) == a.kind = b.kind /\ (a.kind = "money" => a.unit = b.unit)

Compare(a, b) ==
    IF a.kind = "text" /\ a.n = b.n /\ a.unit # b.unit THEN 1 ELSE cmpInt(a.n, b.n)

\* Text is folded to one spelling, except where the field is exact.
Normalised(f, v) ==
    IF v.kind = "text" /\ ~lookupField[f].exact THEN [v EXCEPT !.unit = "folded"] ELSE v

\* A value the wire can carry for the field: of its kind, not blank, and no
\* negative amount.
ParsesAs(f, v) ==
    /\ v.kind = lookupField[f].kind
    /\ v.kind = "text" => v.n # 0
    /\ v.kind = "money" => v.n >= 0

OperandError(c) ==
    LET shape == operators[c.op].shape
        v == c.values
    IN  Refuse(c.shape # shape, "type mismatch")
        ?? Refuse(shape = "list" /\ v = <<>>, "malformed")
        ?? Refuse(\E i \in 1..Len(v) : ~ParsesAs(c.field, v[i]), "type mismatch")
        ?? Refuse(shape = "range" /\ Comparable(v[1], v[2]) /\ Compare(v[1], v[2]) > 0,
                  "malformed")

LeafError(c) ==
    Refuse(c.field = "" \/ c.of # <<>>, "malformed")
    ?? Refuse(~KnownField(c.field), "unknown field")
    ?? Refuse(c.op \notin DOMAIN operators, "unknown operator")
    ?? Refuse(lookupField[c.field].kind \notin operators[c.op].kinds, "type mismatch")
    ?? OperandError(c)

GroupError(c) ==
    Refuse(\/ c.field # ""
           \/ c.shape # "none"
           \/ c.of = <<>>
           \/ c.op = "not" /\ Len(c.of) # 1, "malformed")

ParseError(c) ==
    LET error[x \in Expression, depth \in Nat] ==
            IF depth > MaxDepth THEN "too deep"
            ELSE IF x.op \notin Groups THEN LeafError(x)
            ELSE GroupError(x) ?? FirstOf([i \in 1..Len(x.of) |-> error[x.of[i], depth + 1]])
    IN  error[c, 0]

Parses(c) == ParseError(c) = ""
-----------------------------------------------------------------------------
\* What the purchase says of a field.  A subject is a function over the fields
\* it states; a blank, an amount of no currency and a quantity of none are not
\* statements.
Stated(s, f) ==
    /\ f \in DOMAIN s
    /\ s[f].kind = "text" => s[f].n # 0
    /\ s[f].kind = "money" => s[f].unit # "none"
    /\ s[f].kind = "number" => s[f].n > 0

\* evaluateLeaf and apply: what is not stated, or cannot be compared, is not
\* shown to satisfy anything; but a list is scanned to its end first, and a
\* match decides it.
LeafHolds(c, s) ==
    /\ Stated(s, c.field)
    /\ LET got == Normalised(c.field, s[c.field])
           want == [i \in 1..Len(c.values) |-> Normalised(c.field, c.values[i])]
           sees(i) == Comparable(got, want[i])
           is(i) == Compare(got, want[i])
           matched == \E i \in 1..Len(want) : sees(i) /\ is(i) = 0
           allSeen == \A i \in 1..Len(want) : sees(i)
       IN  CASE c.op = "in" -> matched
             [] c.op = "nin" -> ~matched /\ allSeen
             [] c.op = "eq" -> allSeen /\ is(1) = 0
             [] c.op = "neq" -> allSeen /\ is(1) # 0
             [] c.op \in {"lt", "before"} -> allSeen /\ is(1) < 0
             [] c.op = "lte" -> allSeen /\ is(1) <= 0
             [] c.op \in {"gt", "after"} -> allSeen /\ is(1) > 0
             [] c.op = "gte" -> allSeen /\ is(1) >= 0
             [] c.op \in {"between", "within"} -> allSeen /\ is(1) >= 0 /\ is(2) <= 0

\* A negation has the one child that parsing has seen to.
Satisfied(c, s) ==
    LET holds[x \in Expression] ==
            CASE x.op = "all" -> \A i \in 1..Len(x.of) : holds[x.of[i]]
              [] x.op = "any" -> \E i \in 1..Len(x.of) : holds[x.of[i]]
              [] x.op = "not" -> \A i \in 1..Len(x.of) : ~holds[x.of[i]]
              [] OTHER -> LeafHolds(x, s)
    IN  holds[c]

\* Evaluate: every constraint is parsed before the first is weighed.  The
\* answer is "" when the purchase satisfies them all.
Evaluate(constraints, s) ==
    FirstOf([i \in 1..Len(constraints) |-> ParseError(constraints[i])])
    ?? Refuse(\E i \in 1..Len(constraints) : ~Satisfied(constraints[i], s), "violated")

Fields(c) ==
    LET names[x \in Expression] ==
            IF x.op \in Groups THEN UNION {names[x.of[i]] : i \in 1..Len(x.of)} ELSE {x.field}
    IN  names[c]
-----------------------------------------------------------------------------
whollySelective(c) == \A f \in Fields(c) : Selective(f)

conjunction(parts) ==
    IF Len(parts) = 1 THEN parts[1]
    ELSE [op |-> "all", field |-> "", shape |-> "none", values |-> <<>>, of |-> parts]

\* Slip: a branch that selects nothing is left out of the alternatives.
narrowingOfSome(c) ==
    LET says[x \in Expression] ==
            LET parts == [i \in 1..Len(x.of) |-> says[x.of[i]]]
                saying == SelectSeq(parts, LAMBDA p : p # <<>>)
            IN  CASE x.op = "all" -> FlattenSeq(parts)
                  [] x.op = "any" ->
                        IF saying = <<>> THEN <<>>
                        ELSE <<[x EXCEPT !.of = [i \in 1..Len(saying) |-> conjunction(saying[i])]]>>
                  [] x.op = "not" -> IF whollySelective(x) THEN <<x>> ELSE <<>>
                  [] OTHER -> IF Selective(x.field) THEN <<x>> ELSE <<>>
    IN  says[c]

\* What c implies about the item and its seller alone.  A group of
\* alternatives says nothing unless every branch does, and what is excluded is
\* excluded whole or not at all.
narrowing(c) ==
    LET says[x \in Expression] ==
            LET parts == [i \in 1..Len(x.of) |-> says[x.of[i]]]
            IN  CASE x.op = "all" -> FlattenSeq(parts)
                  [] x.op = "any" ->
                        IF \E i \in 1..Len(parts) : parts[i] = <<>> THEN <<>>
                        ELSE <<[x EXCEPT !.of = [i \in 1..Len(parts) |-> conjunction(parts[i])]]>>
                  [] x.op = "not" -> IF whollySelective(x) THEN <<x>> ELSE <<>>
                  [] OTHER -> IF Selective(x.field) THEN <<x>> ELSE <<>>
    IN  says[c]

Narrowing(c) == IF Parses(c) THEN narrowing(c) ELSE <<>>
=============================================================================
