------------------------ MODULE AgentConsole_proofs ------------------------
(***************************************************************************)
(* That a proposal is made in the user's interest, for any offers, any     *)
(* prices, any sentences and any baskets.                                  *)
(***************************************************************************)
EXTENDS AgentConsole, Console_proofs, Constraint_proofs
-----------------------------------------------------------------------------
(* What is arranged in an order is all there. *)

Orders(R, S) ==
    /\ \A i \in S : <<i, i>> \notin R
    /\ \A i, j \in S : i # j => <<i, j>> \in R \/ <<j, i>> \in R
    /\ \A i, j, k \in S : <<i, j>> \in R /\ <<j, k>> \in R => <<i, k>> \in R

LEMMA ArrangedHasAll ==
    ASSUME NEW S, IsFiniteSet(S), NEW R, Orders(R, S)
    PROVE  /\ Cardinality(S) \in Nat
           /\ DOMAIN Arranged(S, R) = 1..Cardinality(S)
           /\ \A k \in 1..Cardinality(S) : Arranged(S, R)[k] \in S
           /\ \A i \in S : \E k \in 1..Cardinality(S) : Arranged(S, R)[k] = i
<1> DEFINE Before(i) == {j \in S : <<j, i>> \in R}
           n == Cardinality(S)
           T == 0..(n - 1)
           rank == [i \in S |-> Cardinality(Before(i))]
<1>1. n \in Nat
  BY FS_CardinalityType
<1>2. ASSUME NEW i \in S PROVE IsFiniteSet(Before(i)) /\ Cardinality(Before(i)) \in T
  <2>1. Before(i) \in SUBSET S /\ i \notin Before(i)
    BY DEF Orders
  <2> HIDE DEF Before
  <2>2. IsFiniteSet(Before(i)) /\ Cardinality(Before(i)) <= n /\ Cardinality(Before(i)) # n
    BY <2>1, FS_Subset
  <2>3. Cardinality(Before(i)) \in Nat
    BY <2>2, FS_CardinalityType
  <2> QED BY <1>1, <2>2, <2>3
<1>3. ASSUME NEW i \in S, NEW j \in S, <<i, j>> \in R
      PROVE  Cardinality(Before(i)) # Cardinality(Before(j))
  <2>1. Before(i) \in SUBSET Before(j) /\ Before(i) # Before(j)
    BY <1>3 DEF Orders
  <2>2. IsFiniteSet(Before(j))
    BY <1>2
  <2> HIDE DEF Before
  <2> QED BY <2>1, <2>2, FS_Subset
<1>4. \A i, j \in S : rank[i] = rank[j] => i = j
  <2>1. \A i, j \in S : i # j => Cardinality(Before(i)) # Cardinality(Before(j))
    <3> HIDE DEF Before
    <3> QED BY <1>3 DEF Orders
  <2> HIDE DEF Before
  <2> QED BY <2>1
<1>5. rank \in Injection(S, T)
  <2> HIDE DEF Before
  <2>1. rank \in [S -> T]
    BY <1>2
  <2> HIDE DEF rank
  <2> QED BY <1>4, <2>1 DEF Injection, IsInjective
<1>6. rank \in Surjection(S, T)
  <2>1. IsFiniteSet(T) /\ Cardinality(T) = n
    BY <1>1, FS_Interval
  <2> HIDE DEF rank
  <2> QED BY <1>5, <2>1, FS_Injection
<1>7. \A m \in T : \E i \in S : rank[i] = m
  <2> HIDE DEF rank
  <2> QED BY <1>6 DEF Surjection
<1> DEFINE At(m) == CHOOSE i \in S : rank[i] = m
<1>8. Arranged(S, R) = [k \in 1..n |-> At(k - 1)]
  <2>1. \A m : At(m) = CHOOSE i \in S : Cardinality(Before(i)) = m
    <3> SUFFICES ASSUME NEW m PROVE At(m) = CHOOSE i \in S : Cardinality(Before(i)) = m
      OBVIOUS
    <3>1. \A i \in S : (rank[i] = m) <=> (Cardinality(Before(i)) = m)
      OBVIOUS
    <3> HIDE DEF rank, Before
    <3> QED BY <3>1
  <2>2. Arranged(S, R) = [k \in 1..n |-> CHOOSE i \in S : Cardinality(Before(i)) = k - 1]
    BY DEF Arranged
  <2> HIDE DEF rank, Before, n, At
  <2> QED BY <2>1, <2>2
<1> HIDE DEF rank, Before
<1>9. \A m \in T : At(m) \in S /\ rank[At(m)] = m
  BY <1>7
<1> HIDE DEF At
<1>10. \A k \in 1..n : k - 1 \in T /\ Arranged(S, R)[k] = At(k - 1)
  BY <1>1, <1>8
<1>11. ASSUME NEW i \in S PROVE \E k \in 1..n : Arranged(S, R)[k] = i
  <2>1. rank[i] \in T
    BY <1>2 DEF rank
  <2>2. At(rank[i]) = i
    BY <1>4, <1>9, <2>1
  <2>3. rank[i] + 1 \in 1..n /\ (rank[i] + 1) - 1 = rank[i]
    BY <1>1, <2>1
  <2> QED BY <1>10, <2>2, <2>3
<1> QED BY <1>1, <1>8, <1>9, <1>10, <1>11
-----------------------------------------------------------------------------
(* What a merchant answers. *)

LEMMA OffersAre ==
    /\ Len(Offers) \in Nat /\ DOMAIN Offers = 1..Len(Offers) /\ IsFiniteSet(DOMAIN Offers)
    /\ \A i \in DOMAIN Offers : Scheduled(Offers[i].schedule) /\ Offers[i].id \in Word
          /\ Offers[i].id.n # 0
    /\ \A i, j \in DOMAIN Offers : Offers[i].id = Offers[j].id => i = j
<1>1. Len(Offers) \in Nat /\ DOMAIN Offers = 1..Len(Offers)
  BY CatalogueAssumption
<1>2. IsFiniteSet(DOMAIN Offers)
  BY <1>1, FS_Interval
<1> QED BY <1>1, <1>2, CatalogueAssumption, OffersAssumption DEF NewCatalogue, valid

\* The search answers with every offer that satisfies the query and no other.
LEMMA SearchAnswers ==
    ASSUME NEW asked, NEW t
    PROVE  LET found == Search(asked, t)
           IN  /\ \E n \in Nat : DOMAIN found = 1..n
               /\ found # <<>> => DOMAIN found # {}
               /\ \A k \in DOMAIN found : \E i \in DOMAIN Offers : found[k] = priced(Offers[i], t)
               /\ \A i \in DOMAIN Offers : satisfies(asked, priced(Offers[i], t), t) =>
                     \E k \in DOMAIN found : found[k] = priced(Offers[i], t)
<1> DEFINE S == {i \in DOMAIN Offers : satisfies(asked, priced(Offers[i], t), t)}
           R == {p \in S \X S : p[1] < p[2]}
           order == Arranged(S, R)
<1>1. S \in SUBSET DOMAIN Offers /\ S \subseteq Int
  BY OffersAre
<1>2. \A i \in DOMAIN Offers : satisfies(asked, priced(Offers[i], t), t) => i \in S
  OBVIOUS
<1>3. Search(asked, t) = [k \in DOMAIN order |-> priced(Offers[order[k]], t)]
  BY DEF Search
<1> HIDE DEF S
<1>4. IsFiniteSet(S)
  BY <1>1, OffersAre, FS_Subset
<1>5. \A i, j \in S : <<i, j>> \in R <=> i < j
  OBVIOUS
<1> HIDE DEF R
<1>6. Orders(R, S)
  BY <1>1, <1>5 DEF Orders
<1>7. /\ Cardinality(S) \in Nat
      /\ DOMAIN order = 1..Cardinality(S)
      /\ \A k \in 1..Cardinality(S) : order[k] \in S
      /\ \A i \in S : \E k \in 1..Cardinality(S) : order[k] = i
  BY <1>4, <1>6, ArrangedHasAll
<1> HIDE DEF order
<1>8. Search(asked, t) # <<>> => DOMAIN Search(asked, t) # {}
  <2> DEFINE P(k) == priced(Offers[order[k]], t)
  <2>1. Search(asked, t) = [k \in DOMAIN order |-> P(k)]
    BY <1>3
  <2> HIDE DEF P
  <2>2. [k \in {} |-> P(k)] = <<>>
    OBVIOUS
  <2> QED BY <2>1, <2>2
<1> QED BY <1>1, <1>2, <1>3, <1>7, <1>8

Priced(list, n) == DOMAIN list = 1..n /\ \A k \in 1..n : list[k].price.n \in Int

\* Two lists of the same, in some order each.
SameIn(list, other, n) ==
    /\ DOMAIN other = 1..n
    /\ \A k \in 1..n : \E j \in 1..n : other[k] = list[j]
    /\ \A j \in 1..n : \E k \in 1..n : other[k] = list[j]

\* Putting offers in an order of price loses none.
LEMMA RankedHasAll ==
    ASSUME NEW n \in Nat, NEW list, Priced(list, n), NEW rank
    PROVE  SameIn(list, ranked(list, rank), n)
<1> USE DEF Priced, SameIn
<1>1. CASE rank = Unranked
  <2>1. ranked(list, rank) = list
    BY <1>1 DEF ranked
  <2> QED BY <2>1
<1>2. CASE rank # Unranked
  <2> DEFINE S == DOMAIN list
             direction == IF rank.direction = "asc" THEN 1 ELSE -1
             R == {p \in S \X S :
                      \/ direction * list[p[1]].price.n < direction * list[p[2]].price.n
                      \/ list[p[1]].price.n = list[p[2]].price.n /\ p[1] < p[2]}
             order == Arranged(S, R)
             worth(k) == direction * list[k].price.n
  <2>1. ranked(list, rank) = [k \in DOMAIN order |-> list[order[k]]]
    BY <1>2 DEF ranked
  <2>2. S \subseteq Int /\ S = 1..n
    OBVIOUS
  <2>3. \A k \in S : worth(k) \in Int /\ list[k].price.n \in Int
    OBVIOUS
  <2>4. \A i, j \in S : list[i].price.n = list[j].price.n <=> worth(i) = worth(j)
    <3>1. CASE rank.direction = "asc"
      BY <3>1
    <3>2. CASE rank.direction # "asc"
      BY <3>2
    <3> QED BY <3>1, <3>2
  <2>5. \A i, j \in S : <<i, j>> \in R <=>
            worth(i) < worth(j) \/ (worth(i) = worth(j) /\ i < j)
    <3>1. \A i, j \in S : <<i, j>> \in R <=>
              worth(i) < worth(j) \/ (list[i].price.n = list[j].price.n /\ i < j)
      OBVIOUS
    <3> HIDE DEF R, worth
    <3> QED BY <2>4, <3>1
  <2> HIDE DEF R, worth
  <2>6. Orders(R, S)
    BY <2>2, <2>3, <2>5 DEF Orders
  <2>7. IsFiniteSet(S) /\ Cardinality(S) = n
    BY <2>2, FS_Interval
  <2> HIDE DEF S
  <2>8. /\ DOMAIN order = 1..n
        /\ \A k \in 1..n : order[k] \in S
        /\ \A i \in S : \E k \in 1..n : order[k] = i
    BY <2>6, <2>7, ArrangedHasAll
  <2> DEFINE r == ranked(list, rank)
  <2> HIDE DEF order
  <2>9. DOMAIN r = 1..n /\ \A k \in 1..n : r[k] = list[order[k]]
    BY <2>1, <2>8
  <2>10. \A k \in 1..n : order[k] \in 1..n
    BY <2>2, <2>8
  <2>11. \A j \in 1..n : \E k \in 1..n : order[k] = j
    BY <2>2, <2>8
  <2> HIDE DEF r
  <2>12. \A k \in 1..n : \E j \in 1..n : r[k] = list[j]
    BY <2>9, <2>10
  <2>13. \A j \in 1..n : \E k \in 1..n : r[k] = list[j]
    <3> TAKE j \in 1..n
    <3>1. PICK k \in 1..n : order[k] = j
      BY <2>11
    <3>2. r[k] = list[j]
      BY <2>9, <3>1
    <3> QED BY <3>2
  <2> QED BY <2>9, <2>12, <2>13 DEF r
<1> QED BY <1>1, <1>2

\* Offers are priced in whole units.
LEMMA PriceIs ==
    ASSUME NEW i \in DOMAIN Offers, NEW t \in Int
    PROVE  LET p == priced(Offers[i], t)
           IN  /\ p.offer = Offers[i]
               /\ p.price \in [kind : {"money"}, n : Nat, unit : STRING]
               /\ p.price.unit # "none"
               /\ p.price = at(Offers[i].schedule, t).price
<1> DEFINE s == Offers[i].schedule
           p == priced(Offers[i], t)
<1>1. Scheduled(s)
  BY OffersAssumption
<1>2. p.offer = Offers[i] /\ p.price = at(s, t).price
  BY DEF priced
<1>3. at(s, t).price = s.prices[at(s, t).step + 1] /\ at(s, t).step + 1 \in 1..Len(s.prices)
  BY <1>1, WhatAtSays
<1>4. s.prices \in Seq([kind : {"money"}, n : Nat, unit : STRING]) /\ Sound(s.prices)
  BY <1>1 DEF Scheduled
<1> HIDE DEF s
<1>5. DOMAIN s.prices = 1..Len(s.prices)
  BY <1>4, LenProperties
<1> DEFINE j == at(s, t).step + 1
<1>6. /\ s.prices[j] \in [kind : {"money"}, n : Nat, unit : STRING]
      /\ s.prices[j].unit # "none"
  <2>1. j \in 1..Len(s.prices)
    BY <1>3
  <2> HIDE DEF j
  <2>2. s.prices[j].unit # "none"
    BY <1>4, <1>5, <2>1 DEF Sound
  <2> DEFINE M == [kind : {"money"}, n : Nat, unit : STRING]
  <2>3. s.prices \in Seq(M)
    BY <1>4
  <2> HIDE DEF M
  <2>4. s.prices[j] \in M
    BY <2>1, <2>3, ElementOfSeq
  <2> QED BY <2>2, <2>4 DEF M
<1> QED BY <1>2, <1>3, <1>6 DEF s

\* Whether an offer was settled on, and whether there was none to settle on.
Settles(constraints, chosen, rank, t) == settleError(constraints, chosen, rank, t) = ""

NoneMatches(constraints, chosen, rank, t) ==
    settleError(constraints, chosen, rank, t) = "no offer matched"

\* What is settled on: offers as they are priced, and every one asked for.
LEMMA SettledOn ==
    ASSUME NEW constraints, NEW chosen, NEW rank, NEW t \in Int
    PROVE  LET offers == settle(constraints, chosen, rank, t)
           IN  /\ \E n \in Nat : DOMAIN offers = 1..n
               /\ \A k \in DOMAIN offers : \E i \in DOMAIN Offers : offers[k] = priced(Offers[i], t)
               /\ \A i \in DOMAIN Offers :
                     satisfies(query(constraints, chosen), priced(Offers[i], t), t) =>
                        \E k \in DOMAIN offers : offers[k] = priced(Offers[i], t)
               /\ Settles(constraints, chosen, rank, t) => 1 \in DOMAIN offers
               /\ NoneMatches(constraints, chosen, rank, t) => DOMAIN offers = {}
<1> DEFINE found == candidates(constraints, chosen, t)
           offers == settle(constraints, chosen, rank, t)
           one == Settles(constraints, chosen, rank, t)
           none == NoneMatches(constraints, chosen, rank, t)
<1>1. /\ \E n \in Nat : DOMAIN found = 1..n
      /\ found # <<>> => DOMAIN found # {}
      /\ \A k \in DOMAIN found : \E i \in DOMAIN Offers : found[k] = priced(Offers[i], t)
      /\ \A i \in DOMAIN Offers :
            satisfies(query(constraints, chosen), priced(Offers[i], t), t) =>
               \E k \in DOMAIN found : found[k] = priced(Offers[i], t)
  BY SearchAnswers DEF candidates
<1>2. offers = ranked(found, applies(rank, chosen))
  BY DEF settle
<1>3. (one => found # <<>>) /\ (none => found = <<>>)
  BY DEF Settles, NoneMatches, settleError, candidatesError, rankError, Refuse, ??
<1> HIDE DEF found, offers, one, none
<1>4. PICK n \in Nat : DOMAIN found = 1..n
  BY <1>1
<1>5. \A k \in 1..n : found[k].price.n \in Int
  BY <1>1, <1>4, PriceIs
<1>6. /\ DOMAIN offers = 1..n
      /\ \A k \in 1..n : \E j \in 1..n : offers[k] = found[j]
      /\ \A j \in 1..n : \E k \in 1..n : offers[k] = found[j]
  <2> DEFINE a == applies(rank, chosen)
  <2> HIDE DEF a
  <2>1. Priced(found, n)
    BY <1>4, <1>5 DEF Priced
  <2>2. SameIn(found, ranked(found, a), n)
    BY <2>1, RankedHasAll
  <2>3. offers = ranked(found, a)
    BY <1>2 DEF a
  <2>4. SameIn(found, offers, n)
    BY <2>2, <2>3
  <2> QED BY <2>4 DEF SameIn
<1>7. one => 1 \in DOMAIN offers
  <2> SUFFICES ASSUME one PROVE 1 \in DOMAIN offers
    OBVIOUS
  <2>1. PICK k \in 1..n : TRUE
    BY <1>1, <1>3, <1>4
  <2>2. 1 \in 1..n
    BY <2>1
  <2> QED BY <1>6, <2>2
<1>8. none => DOMAIN offers = {}
  <2> SUFFICES ASSUME none PROVE DOMAIN offers = {}
    OBVIOUS
  <2>1. DOMAIN <<>> = {}
    OBVIOUS
  <2>2. DOMAIN found = {}
    BY <1>3, <2>1
  <2> QED BY <1>4, <1>6, <2>2
<1>9. /\ \A k \in DOMAIN offers : \E i \in DOMAIN Offers : offers[k] = priced(Offers[i], t)
      /\ \A i \in DOMAIN Offers :
            satisfies(query(constraints, chosen), priced(Offers[i], t), t) =>
               \E k \in DOMAIN offers : offers[k] = priced(Offers[i], t)
  <2>1. ASSUME NEW k \in DOMAIN offers
        PROVE  \E i \in DOMAIN Offers : offers[k] = priced(Offers[i], t)
    <3>1. PICK j \in 1..n : offers[k] = found[j]
      BY <1>6
    <3> QED BY <1>1, <1>4, <3>1
  <2>2. ASSUME NEW i \in DOMAIN Offers,
               satisfies(query(constraints, chosen), priced(Offers[i], t), t)
        PROVE  \E k \in DOMAIN offers : offers[k] = priced(Offers[i], t)
    <3>1. PICK j \in 1..n : found[j] = priced(Offers[i], t)
      BY <1>1, <1>4, <2>2
    <3>2. PICK k \in 1..n : offers[k] = found[j]
      BY <1>6
    <3> QED BY <1>6, <3>1, <3>2
  <2> QED BY <2>1, <2>2
<1> QED BY <1>6, <1>7, <1>8, <1>9 DEF offers, one, none
-----------------------------------------------------------------------------
(* What a merchant knows of a purchase, and the limits the agent writes. *)

LEMMA SubjectIs ==
    ASSUME NEW o, NEW price, NEW quantity, NEW t
    PROVE  LET s == Subject(o, price, quantity, t)
           IN  /\ "amount" \in DOMAIN s /\ "quantity" \in DOMAIN s /\ "item.id" \in DOMAIN s
               /\ s["amount"] = price
               /\ s["quantity"] = [kind |-> "number", n |-> quantity, unit |-> "none"]
               /\ s["item.id"] = o.id
BY DEF Subject

\* Of the item and its seller it knows the same at any price.
LEMMA SameItem ==
    ASSUME NEW o, NEW price, NEW quantity, NEW t, NEW price2, NEW quantity2, NEW t2,
           NEW names, \A f \in names : Selective(f)
    PROVE  SaysSame(Subject(o, price, quantity, t), Subject(o, price2, quantity2, t2), names)
<1> DEFINE s == Subject(o, price, quantity, t)
           r == Subject(o, price2, quantity2, t2)
<1>1. ASSUME NEW f \in names PROVE f \notin {"amount", "at", "quantity"}
  BY DEF Selective, lookupField, fields, Field
<1>2. DOMAIN s = DOMAIN r
  BY DEF Subject
<1>3. ASSUME NEW f \in DOMAIN s, f \notin {"amount", "at", "quantity"}
      PROVE  s[f] = r[f]
  BY <1>3 DEF Subject
<1> HIDE DEF s, r
<1>4. SaysSame(s, r, names)
  BY <1>1, <1>2, <1>3 DEF SaysSame
<1> QED BY <1>4 DEF s, r

LEMMA Spelled ==
    {"eq", "lte", "one", "none", "text", "money", "number", "amount", "quantity", "item.id"}
        \subseteq STRING
BY SpellingAssumption

LEMMA LeafIs ==
    ASSUME NEW op \in {"eq", "lte"}, NEW field \in {"amount", "quantity", "item.id"},
           NEW value \in Literal, NEW s
    PROVE  LET leaf == leafOf(op, field, value)
           IN  /\ leaf \in Expression
               /\ leaf.op = op /\ leaf.field = field /\ leaf.values = <<value>>
               /\ Satisfied(leaf, s) <=> LeafHolds(leaf, s)
<1> DEFINE leaf == leafOf(op, field, value)
<1>1. leaf.op = op /\ leaf.field = field /\ leaf.values = <<value>>
  BY DEF leafOf
<1>2. leaf \in Level({})
  <2>1. op \in STRING /\ field \in STRING /\ "one" \in STRING
    BY Spelled
  <2>2. <<value>> \in Seq(Literal) /\ <<>> \in Seq({})
    OBVIOUS
  <2> QED BY <2>1, <2>2 DEF leafOf, Level
<1>3. leaf \in Expression
  <2>1. 1 \in 1..Height /\ 1 \in 0..Height /\ 1 - 1 = 0
    BY HeightIsNat
  <2>2. Trees[1] = Level({})
    BY <2>1, TreesAre
  <2> QED BY <1>2, <2>1, <2>2, TreesReach
<1>4. leaf.op \notin Groups
  BY <1>1 DEF Groups
<1> HIDE DEF leaf
<1>5. Satisfied(leaf, s) <=> LeafHolds(leaf, s)
  BY <1>3, <1>4, SatisfiedBy
<1> QED BY <1>1, <1>3, <1>5 DEF leaf

\* A leaf of one value.
LEMMA SingleLeaf ==
    ASSUME NEW leaf, NEW value, leaf.values = <<value>>, NEW s, Stated(s, leaf.field),
           NEW got, got = Normalised(leaf.field, s[leaf.field]),
           NEW want, want = Normalised(leaf.field, value)
    PROVE  /\ leaf.op = "eq" => (LeafHolds(leaf, s) <=> Comparable(got, want) /\ Compare(got, want) = 0)
           /\ leaf.op = "lte" => (LeafHolds(leaf, s) <=> Comparable(got, want) /\ Compare(got, want) <= 0)
<1> DEFINE w == [i \in 1..Len(leaf.values) |-> Normalised(leaf.field, leaf.values[i])]
           g == Normalised(leaf.field, s[leaf.field])
           allSeen == \A i \in 1..Len(w) : Comparable(g, w[i])
<1>1. leaf.op = "eq" => (LeafHolds(leaf, s) <=> allSeen /\ Compare(g, w[1]) = 0)
  BY Zenon DEF LeafHolds
<1>2. leaf.op = "lte" => (LeafHolds(leaf, s) <=> allSeen /\ Compare(g, w[1]) <= 0)
  BY Zenon DEF LeafHolds
<1>3. Len(leaf.values) = 1 /\ leaf.values[1] = value
  OBVIOUS
<1>4. Len(w) = 1 /\ w[1] = want /\ g = got
  BY <1>3
<1> HIDE DEF w, g
<1>5. allSeen <=> Comparable(got, want)
  BY <1>4
<1> QED BY <1>1, <1>2, <1>4, <1>5

\* What is for one item.
LEMMA ItemLeaf ==
    ASSUME NEW id \in Word, NEW s, "item.id" \in DOMAIN s, s["item.id"] \in Word, s["item.id"].n # 0
    PROVE  Satisfied(leafOf("eq", "item.id", id), s) <=> s["item.id"] = id
<1> DEFINE leaf == leafOf("eq", "item.id", id)
<1>1. id \in Literal
  BY Spelled DEF Word, Literal
<1>2. /\ leaf.op = "eq" /\ leaf.field = "item.id" /\ leaf.values = <<id>>
      /\ Satisfied(leaf, s) <=> LeafHolds(leaf, s)
  BY <1>1, LeafIs
<1> HIDE DEF leaf
<1>3. Stated(s, "item.id")
  BY DEF Stated, Word
<1>4. lookupField["item.id"].exact = TRUE
  BY DEF lookupField, fields, Field
<1>5. Normalised("item.id", s["item.id"]) = s["item.id"] /\ Normalised("item.id", id) = id
  BY <1>4 DEF Normalised
<1>6. LeafHolds(leaf, s) <=> Comparable(s["item.id"], id) /\ Compare(s["item.id"], id) = 0
  BY <1>2, <1>3, <1>5, SingleLeaf
<1>7. Comparable(s["item.id"], id) /\ Compare(s["item.id"], id) = 0 <=> s["item.id"] = id
  BY DEF Comparable, Compare, cmpInt, Word
<1> QED BY <1>2, <1>6, <1>7 DEF leaf

Amounts == [kind : {"money"}, n : Int, unit : STRING]

LEMMA AmountLeaf ==
    ASSUME NEW limit \in Amounts, NEW s, "amount" \in DOMAIN s, s["amount"] \in Amounts,
           s["amount"].unit # "none"
    PROVE  Satisfied(leafOf("lte", "amount", limit), s) <=>
              s["amount"].unit = limit.unit /\ s["amount"].n <= limit.n
<1> DEFINE leaf == leafOf("lte", "amount", limit)
<1>1. limit \in Literal
  BY Spelled DEF Amounts, Literal
<1>2. /\ leaf.op = "lte" /\ leaf.field = "amount" /\ leaf.values = <<limit>>
      /\ Satisfied(leaf, s) <=> LeafHolds(leaf, s)
  BY <1>1, LeafIs
<1> HIDE DEF leaf
<1>3. Stated(s, "amount")
  BY DEF Stated, Amounts
<1>4. Normalised("amount", s["amount"]) = s["amount"] /\ Normalised("amount", limit) = limit
  BY DEF Normalised, Amounts
<1>5. LeafHolds(leaf, s) <=> Comparable(s["amount"], limit) /\ Compare(s["amount"], limit) <= 0
  BY <1>2, <1>3, <1>4, SingleLeaf
<1>6. Comparable(s["amount"], limit) /\ Compare(s["amount"], limit) <= 0 <=>
        s["amount"].unit = limit.unit /\ s["amount"].n <= limit.n
  BY DEF Comparable, Compare, cmpInt, Amounts
<1> QED BY <1>2, <1>5, <1>6 DEF leaf

\* So many are as many as may be.
LEMMA QuantityLeaf ==
    ASSUME NEW quantity \in Nat \ {0}, NEW s, "quantity" \in DOMAIN s,
           NEW many, many = [kind |-> "number", n |-> quantity, unit |-> "none"],
           s["quantity"] = many
    PROVE  Satisfied(leafOf("lte", "quantity", many), s)
<1> DEFINE leaf == leafOf("lte", "quantity", many)
<1>1. many \in Literal
  BY Spelled DEF Literal
<1>2. /\ leaf.op = "lte" /\ leaf.field = "quantity" /\ leaf.values = <<many>>
      /\ Satisfied(leaf, s) <=> LeafHolds(leaf, s)
  BY <1>1, LeafIs
<1> HIDE DEF leaf
<1>3. Stated(s, "quantity")
  BY DEF Stated
<1>4. Normalised("quantity", many) = many
  BY DEF Normalised
<1>5. LeafHolds(leaf, s) <=> Comparable(many, many) /\ Compare(many, many) <= 0
  BY <1>2, <1>3, <1>4, SingleLeaf
<1>6. Comparable(many, many) /\ Compare(many, many) <= 0
  BY DEF Comparable, Compare, cmpInt
<1> QED BY <1>2, <1>5, <1>6 DEF leaf
-----------------------------------------------------------------------------
(* What is proposed. *)

Made(p) == p.error = ""

NothingToMake(p) == p.error = "no offer matched"

LEMMA MadeIs ==
    ASSUME NEW p
    PROVE  /\ Made(p) => proposalOf(p) = [p EXCEPT !.quantity = resolved(@)]
           /\ ~Made(p) => proposalOf(p) = p
BY DEF proposalOf, Made

LEMMA ProposedFromIs ==
    ASSUME NEW reading, NEW chosen, NEW t
    PROVE  LET offers == settle(reading.constraints, chosen, reading.rank, t)
               settles == Settles(reading.constraints, chosen, reading.rank, t)
               p == ProposeFrom(reading, chosen, t)
           IN  /\ Made(p) <=> settles
               /\ NothingToMake(p) <=> NoneMatches(reading.constraints, chosen, reading.rank, t)
               /\ settles => p = [error |-> "", offers |-> offers, item |-> offers[1].offer.id,
                                  constraints |-> narrow(reading.constraints, offers[1].offer.id),
                                  quantity |-> reading.quantity, trigger |-> reading.trigger]
BY DEF ProposeFrom, Refused, Settles, NoneMatches, Made, NothingToMake

StatedProposal(item, limit, quantity, t) ==
    LET offers == settle(<<>>, item, Unranked, t)
        price == offers[1].price
        stated == <<leafOf("lte", "amount", limit),
                    leafOf("lte", "quantity", [kind |-> "number", n |-> quantity, unit |-> "none"])>>
    IN  [error |-> "", offers |-> offers, item |-> offers[1].offer.id,
         constraints |-> narrow(stated, offers[1].offer.id), quantity |-> quantity,
         trigger |-> triggerFor(limit, [price EXCEPT !.n = @ * quantity])]

LEMMA ProposedStatedIs ==
    ASSUME NEW item, NEW limit, NEW quantity, NEW t, Made(ProposeStated(item, limit, quantity, t))
    PROVE  /\ Settles(<<>>, item, Unranked, t)
           /\ settle(<<>>, item, Unranked, t)[1].price.unit = limit.unit
           /\ ProposeStated(item, limit, quantity, t) = StatedProposal(item, limit, quantity, t)
<1>1. ProposeStatedError(item, limit, quantity, t) = ""
  BY DEF ProposeStated, Refused, Made
<1>2. /\ settleError(<<>>, item, Unranked, t) = ""
      /\ settle(<<>>, item, Unranked, t)[1].price.unit = limit.unit
  BY <1>1 DEF ProposeStatedError, Refuse, ??
<1> QED BY <1>1, <1>2 DEF ProposeStated, StatedProposal, Settles

LEMMA WhenResolved ==
    ASSUME NEW error, NEW offers, NEW item, NEW constraints, NEW quantity, NEW trigger
    PROVE  LET p == [[error |-> error, offers |-> offers, item |-> item, constraints |-> constraints,
                      quantity |-> quantity, trigger |-> trigger] EXCEPT !.quantity = resolved(@)]
           IN  /\ p.error = error /\ p.offers = offers /\ p.item = item
               /\ p.constraints = constraints /\ p.quantity = resolved(quantity)
               /\ p.trigger = trigger
OBVIOUS

\* An offer that limits allow at some price of it, the query made of them finds.
LEMMA QueryFinds ==
    ASSUME NEW constraints \in Seq(Expression), NEW i \in DOMAIN Offers, NEW quantity, NEW later, NEW t,
           Allowed(constraints, Offers[i], quantity, later)
    PROVE  satisfies(query(constraints, <<>>), priced(Offers[i], t), t)
<1> DEFINE s == Subject(Offers[i], Quote(Offers[i], quantity, later).price, quantity, later)
           r == Subject(Offers[i], priced(Offers[i], t).price, 1, t)
           S == {p \in Expression : whollySelective(p) /\ Satisfied(p, s)}
           N(k) == Narrowing(constraints[k])
           parts == [k \in DOMAIN constraints |-> N(k)]
<1>1. DOMAIN constraints = 1..Len(constraints) /\ Len(constraints) \in Nat
  BY LenProperties
<1>2. ASSUME NEW k \in DOMAIN constraints PROVE N(k) \in Seq(S)
  <2>1. constraints[k] \in Expression /\ Satisfied(constraints[k], s)
    BY <1>1 DEF Allowed
  <2> HIDE DEF s
  <2>2. SaysAtMost(Height, constraints[k], s)
    BY <2>1, NarrowingSays, ExpressionIs, HeightIsNat
  <2>3. narrowing(constraints[k]) \in Seq(ImpliedTrees(Height, constraints[k], s))
    BY <2>2 DEF SaysAtMost
  <2>4. ImpliedTrees(Height, constraints[k], s) \subseteq S
    BY <2>1, ExpressionIs DEF ImpliedTrees, Implied
  <2> HIDE DEF S
  <2>5. narrowing(constraints[k]) \in Seq(S)
    BY <2>3, <2>4, BiggerSeq
  <2>6. N(k) = narrowing(constraints[k]) \/ N(k) = <<>>
    BY DEF Narrowing
  <2>7. <<>> \in Seq(S)
    OBVIOUS
  <2> HIDE DEF N
  <2> QED BY <2>5, <2>6, <2>7
<1> HIDE DEF s, S, N
<1>3. parts \in Seq(Seq(S))
  BY <1>1, <1>2
<1>4. query(constraints, <<>>) = FlattenSeq(parts)
  BY DEF query, identifying, N
<1> HIDE DEF parts
<1>5. query(constraints, <<>>) \in Seq(S)
  BY <1>3, <1>4, FlattenedIs
<1> DEFINE q == query(constraints, <<>>)
<1>6. ASSUME NEW k \in DOMAIN q PROVE Satisfied(q[k], r)
  <2>1. q[k] \in S
    BY <1>5, LenProperties
  <2>2. q[k] \in Expression /\ (\A f \in Fields(q[k]) : Selective(f)) /\ Satisfied(q[k], s)
    BY <2>1 DEF S, whollySelective
  <2> HIDE DEF r, q
  <2>3. SaysSame(s, r, Fields(q[k]))
    BY <2>2, SameItem DEF s, r
  <2> QED BY <2>2, <2>3, WeighedByItsFields
<1>7. priced(Offers[i], t).offer = Offers[i]
  BY DEF priced
<1> HIDE DEF q
<1> QED BY <1>6, <1>7 DEF satisfies, r, q

\* What is signed allows what the limits do, of one item.
LEMMA NarrowedTo ==
    ASSUME NEW constraints \in Seq(Expression), NEW id \in Word,
           NEW i \in DOMAIN Offers, NEW quantity, NEW t
    PROVE  Allowed(narrow(constraints, id), Offers[i], quantity, t) <=>
              Allowed(constraints, Offers[i], quantity, t) /\ Offers[i].id = id
<1> DEFINE s == Subject(Offers[i], Quote(Offers[i], quantity, t).price, quantity, t)
           leaf == leafOf("eq", "item.id", id)
           a == Append(constraints, leaf)
<1>1. narrow(constraints, id) = a
  BY DEF narrow
<1>2. /\ Len(constraints) \in Nat /\ DOMAIN constraints = 1..Len(constraints)
      /\ DOMAIN a = 1..(Len(constraints) + 1)
      /\ \A k \in 1..Len(constraints) : a[k] = constraints[k]
      /\ a[Len(constraints) + 1] = leaf
  BY LenProperties
<1>3. "item.id" \in DOMAIN s /\ s["item.id"] = Offers[i].id
  <2> DEFINE price == Quote(Offers[i], quantity, t).price
             o == Offers[i]
  <2> HIDE DEF price, o
  <2>1. "item.id" \in DOMAIN Subject(o, price, quantity, t)
        /\ Subject(o, price, quantity, t)["item.id"] = o.id
    BY DEF Subject
  <2> QED BY <2>1 DEF price, o
<1> HIDE DEF s, a
<1>4. Satisfied(leaf, s) <=> Offers[i].id = id
  <2>1. Offers[i].id \in Word /\ Offers[i].id.n # 0
    BY OffersAre
  <2> QED BY <1>3, <2>1, ItemLeaf
<1> HIDE DEF leaf
<1>5. (\A k \in DOMAIN a : Satisfied(a[k], s)) <=>
        (\A k \in DOMAIN constraints : Satisfied(constraints[k], s)) /\ Satisfied(leaf, s)
  <2>1. 1..(Len(constraints) + 1) = (1..Len(constraints)) \cup {Len(constraints) + 1}
    BY <1>2
  <2> QED BY <1>2, <2>1
<1> QED BY <1>1, <1>4, <1>5 DEF Allowed, s

\* The part of ProposalIsHonest that is about a proposal from a sentence.
HidesNothing(p, limits, chosen, quantity) ==
    Made(p) \/ NothingToMake(p) =>
        \A i \in DOMAIN Offers, t \in Int :
            /\ /\ chosen = <<>>
               /\ Allowed(limits, Offers[i], quantity, t)
               => \E k \in DOMAIN p.offers : p.offers[k].offer.id = Offers[i].id
            /\ Made(p) /\ Allowed(p.constraints, Offers[i], p.quantity, t) =>
                  /\ Allowed(limits, Offers[i], quantity, t)
                  /\ Offers[i].id = p.item

LEMMA FromSentence ==
    ASSUME NEW reading, reading.constraints \in Seq(Expression), NEW chosen, NEW t \in Int
    PROVE  HidesNothing(proposalOf(ProposeFrom(reading, chosen, t)), reading.constraints, chosen,
                        resolved(reading.quantity))
<1> DEFINE limits == reading.constraints
           offers == settle(limits, chosen, reading.rank, t)
           settles == Settles(limits, chosen, reading.rank, t)
           first == ProposeFrom(reading, chosen, t)
           p == proposalOf(first)
           quantity == resolved(reading.quantity)
<1>1. /\ \A k \in DOMAIN offers : \E i \in DOMAIN Offers : offers[k] = priced(Offers[i], t)
      /\ \A i \in DOMAIN Offers :
            satisfies(query(limits, chosen), priced(Offers[i], t), t) =>
               \E k \in DOMAIN offers : offers[k] = priced(Offers[i], t)
      /\ settles => 1 \in DOMAIN offers
      /\ NoneMatches(limits, chosen, reading.rank, t) => DOMAIN offers = {}
  BY SettledOn
<1>2. Made(first) <=> settles
  BY ProposedFromIs
<1>3. NothingToMake(first) <=> NoneMatches(limits, chosen, reading.rank, t)
  BY ProposedFromIs
<1>4. settles => /\ Made(p) /\ p.offers = offers /\ p.item = offers[1].offer.id
                 /\ p.constraints = narrow(limits, offers[1].offer.id) /\ p.quantity = quantity
  <2> SUFFICES ASSUME settles
               PROVE  /\ Made(p) /\ p.offers = offers /\ p.item = offers[1].offer.id
                      /\ p.constraints = narrow(limits, offers[1].offer.id) /\ p.quantity = quantity
    OBVIOUS
  <2> DEFINE e == ""
             item == offers[1].offer.id
             r == [error |-> e, offers |-> offers, item |-> item, constraints |-> narrow(limits, item),
                   quantity |-> reading.quantity, trigger |-> reading.trigger]
  <2>1. first = r /\ Made(first)
    BY <1>2, ProposedFromIs
  <2>2. p = [first EXCEPT !.quantity = resolved(@)]
    BY <2>1, MadeIs
  <2>3. \A x : Made(x) <=> x.error = e
    BY DEF Made
  <2> HIDE DEF e, offers, limits, p, first
  <2>4. p = [r EXCEPT !.quantity = resolved(@)]
    BY <2>1, <2>2
  <2>5. /\ p.error = e /\ p.offers = offers /\ p.item = item
        /\ p.constraints = narrow(limits, item) /\ p.quantity = quantity
    BY <2>4, WhenResolved
  <2> QED BY <2>3, <2>5
<1>5. ~settles => p = first /\ ~Made(p)
  BY <1>2, MadeIs
<1> HIDE DEF p, first, offers, settles, limits, quantity
<1>6. ASSUME NEW i \in DOMAIN Offers, NEW later \in Int, chosen = <<>>,
             Allowed(limits, Offers[i], quantity, later), Made(p) \/ NothingToMake(p)
      PROVE  \E k \in DOMAIN p.offers : p.offers[k].offer.id = Offers[i].id
  <2>1. satisfies(query(limits, chosen), priced(Offers[i], t), t)
    BY <1>6, QueryFinds DEF limits
  <2>2. PICK k \in DOMAIN offers : offers[k] = priced(Offers[i], t)
    BY <1>1, <2>1
  <2>3. settles
    <3>1. ~NoneMatches(limits, chosen, reading.rank, t)
      BY <1>1, <2>2
    <3> QED BY <1>3, <1>5, <1>6, <3>1
  <2>4. offers[k].offer.id = Offers[i].id
    BY <2>2 DEF priced
  <2> QED BY <1>4, <2>2, <2>3, <2>4
<1>7. ASSUME NEW i \in DOMAIN Offers, NEW later \in Int,
             Made(p), Allowed(p.constraints, Offers[i], p.quantity, later)
      PROVE  Allowed(limits, Offers[i], quantity, later) /\ Offers[i].id = p.item
  <2>1. settles
    BY <1>5, <1>7
  <2>2. PICK j \in DOMAIN Offers : offers[1] = priced(Offers[j], t)
    BY <1>1, <2>1
  <2>3. offers[1].offer.id \in Word
    BY <2>2, OffersAre DEF priced
  <2>4. p.item = offers[1].offer.id /\ p.constraints = narrow(limits, p.item) /\ p.quantity = quantity
    BY <1>4, <2>1
  <2>5. limits \in Seq(Expression)
    BY DEF limits
  <2> QED BY <1>7, <2>3, <2>4, <2>5, NarrowedTo
<1> QED BY <1>6, <1>7 DEF HidesNothing, p, first, limits, quantity

\* The part that is about a proposal from a limit.
BuysWhenAllowed(p, t) ==
    Made(p) =>
        \A i \in DOMAIN Offers : Offers[i].id = p.item =>
            (p.trigger = "immediate" <=> Allowed(p.constraints, Offers[i], p.quantity, t))

\* A limit on the basket allows it if its line is within the limit.
LEMMA StatedAllows ==
    ASSUME NEW limit \in Amounts, NEW quantity \in Nat \ {0}, NEW i \in DOMAIN Offers, NEW t \in Int,
           NEW many, many = [kind |-> "number", n |-> quantity, unit |-> "none"],
           NEW stated, stated = <<leafOf("lte", "amount", limit), leafOf("lte", "quantity", many)>>,
           priced(Offers[i], t).price.unit = limit.unit
    PROVE  /\ stated \in Seq(Expression)
           /\ Allowed(stated, Offers[i], quantity, t) <=>
                 priced(Offers[i], t).price.n * quantity <= limit.n
<1> DEFINE price == priced(Offers[i], t).price
           line == Quote(Offers[i], quantity, t).price
           s == Subject(Offers[i], line, quantity, t)
           one == leafOf("lte", "amount", limit)
           other == leafOf("lte", "quantity", many)
<1>1. price \in [kind : {"money"}, n : Nat, unit : STRING] /\ price.unit # "none"
  BY PriceIs
<1>2. line = [price EXCEPT !.n = @ * quantity]
  BY DEF Quote, priced
<1>3. line \in Amounts /\ line.unit = price.unit /\ line.n = price.n * quantity
  <2> HIDE DEF price, line
  <2>1. price.n \in Int /\ price.n * quantity \in Int
    BY <1>1
  <2> QED BY <1>1, <1>2, <2>1 DEF Amounts
<1>4. /\ "amount" \in DOMAIN s /\ "quantity" \in DOMAIN s
      /\ s["amount"] = line /\ s["quantity"] = many
  <2> HIDE DEF line
  <2> QED BY DEF Subject
<1> HIDE DEF price, line, s
<1>5. Satisfied(one, s) <=> line.n <= limit.n
  <2>1. line.unit # "none" /\ line.unit = limit.unit
    BY <1>1, <1>3 DEF price
  <2> QED BY <1>3, <1>4, <2>1, AmountLeaf
<1>6. Satisfied(other, s)
  BY <1>4, QuantityLeaf
<1>7. one \in Expression /\ other \in Expression
  <2>1. limit \in Literal /\ many \in Literal
    BY Spelled DEF Amounts, Literal
  <2> QED BY <2>1, LeafIs
<1> HIDE DEF one, other
<1>8. /\ stated = <<one, other>>
      /\ stated \in Seq(Expression) /\ DOMAIN stated = 1..2 /\ stated[1] = one /\ stated[2] = other
  BY <1>7 DEF one, other
<1>9. (\A k \in DOMAIN stated : Satisfied(stated[k], s)) <=> Satisfied(one, s) /\ Satisfied(other, s)
  <2>1. \A k : k \in 1..2 <=> k = 1 \/ k = 2
    OBVIOUS
  <2> QED BY <1>8, <2>1
<1>10. Allowed(stated, Offers[i], quantity, t) <=> \A k \in DOMAIN stated : Satisfied(stated[k], s)
  BY DEF Allowed, s, line
<1> QED BY <1>3, <1>5, <1>6, <1>8, <1>9, <1>10 DEF price

LEMMA FromLimit ==
    ASSUME NEW item, NEW limit \in Amounts, NEW quantity \in Nat \ {0}, NEW t \in Int
    PROVE  BuysWhenAllowed(proposalOf(ProposeStated(item, limit, quantity, t)), t)
<1> DEFINE first == ProposeStated(item, limit, quantity, t)
           p == proposalOf(first)
           offers == settle(<<>>, item, Unranked, t)
           price == offers[1].price
           many == [kind |-> "number", n |-> quantity, unit |-> "none"]
           stated == <<leafOf("lte", "amount", limit), leafOf("lte", "quantity", many)>>
           id == offers[1].offer.id
           trigger == triggerFor(limit, [price EXCEPT !.n = @ * quantity])
<1>1. SUFFICES ASSUME Made(p), NEW i \in DOMAIN Offers, Offers[i].id = p.item
               PROVE  p.trigger = "immediate" <=> Allowed(p.constraints, Offers[i], p.quantity, t)
  BY DEF BuysWhenAllowed
<1>2. Made(first)
  BY <1>1, MadeIs
<1>3. /\ Settles(<<>>, item, Unranked, t)
      /\ price.unit = limit.unit
      /\ first = [error |-> "", offers |-> offers, item |-> id, constraints |-> narrow(stated, id),
                  quantity |-> quantity, trigger |-> trigger]
  <2>1. Settles(<<>>, item, Unranked, t) /\ price.unit = limit.unit
    BY <1>2, ProposedStatedIs
  <2>2. first = StatedProposal(item, limit, quantity, t)
    BY <1>2, ProposedStatedIs
  <2> QED BY <2>1, <2>2 DEF StatedProposal
<1>4. p.item = id /\ p.constraints = narrow(stated, id) /\ p.quantity = quantity /\ p.trigger = trigger
  <2> DEFINE e == ""
             r == [error |-> e, offers |-> offers, item |-> id, constraints |-> narrow(stated, id),
                   quantity |-> quantity, trigger |-> trigger]
  <2>1. p = [r EXCEPT !.quantity = resolved(@)]
    BY <1>2, <1>3, MadeIs
  <2> HIDE DEF e, offers, p, first, stated, trigger, id
  <2>2. /\ p.item = id /\ p.constraints = narrow(stated, id) /\ p.quantity = resolved(quantity)
        /\ p.trigger = trigger
    BY <2>1, WhenResolved
  <2>3. resolved(quantity) = quantity
    BY DEF resolved
  <2> QED BY <2>2, <2>3
<1>5. /\ 1 \in DOMAIN offers
      /\ \A k \in DOMAIN offers : \E j \in DOMAIN Offers : offers[k] = priced(Offers[j], t)
  BY <1>3, SettledOn
<1> HIDE DEF p, first, offers, many, stated
<1>6. PICK j \in DOMAIN Offers : offers[1] = priced(Offers[j], t)
  BY <1>5
<1>7. i = j
  <2>1. id = Offers[j].id
    BY <1>6 DEF priced
  <2> QED BY <1>1, <1>4, <2>1, OffersAre
<1>8. price = priced(Offers[i], t).price
  BY <1>6, <1>7
<1>9. id \in Word /\ Offers[i].id = id
  BY <1>1, <1>4, OffersAre
<1> HIDE DEF price, id
<1>10. /\ stated \in Seq(Expression)
       /\ Allowed(stated, Offers[i], quantity, t) <=> price.n * quantity <= limit.n
  BY <1>3, <1>8, StatedAllows DEF stated, many
<1>11. Allowed(p.constraints, Offers[i], p.quantity, t) <=> price.n * quantity <= limit.n
  BY <1>4, <1>9, <1>10, NarrowedTo
<1>12. trigger = "immediate" <=> limit.n >= price.n * quantity
  <2>1. price \in [kind : {"money"}, n : Nat, unit : STRING]
    BY <1>8, PriceIs
  <2>2. [price EXCEPT !.n = @ * quantity].n = price.n * quantity
    BY <2>1
  <2> QED BY <2>2 DEF triggerFor
<1>13. limit.n \in Int /\ price.n * quantity \in Int
  <2>1. price.n \in Int
    BY <1>8, PriceIs
  <2> QED BY <2>1 DEF Amounts
<1> QED BY <1>4, <1>11, <1>12, <1>13
-----------------------------------------------------------------------------
(* The console keeps readings of sentences, and what it proposes of one is  *)
(* what the agent does.                                                     *)

IsReading(what) == \E k \in DOMAIN Sentences : what = Sentences[k]

\* What a request under way has come to is in the user's interest.
InInterest(request) ==
    /\ request.stage = "proposing" => IsReading(request.reading.what)
    /\ request.stage = "proposed" =>
          /\ request.at \in Int
          /\ request.reading # <<>> =>
                HidesNothing(request.proposal, request.reading[1].constraints, request.chosen,
                             resolved(request.reading[1].quantity))
          /\ request.reading = <<>> => BuysWhenAllowed(request.proposal, request.at)

HonestInv ==
    /\ \A id \in DOMAIN readings : IsReading(readings[id].what)
    /\ \A c \in Slots : InInterest(call[c])

AgentIsBehind ==
    /\ \A reading, chosen, t : AgentProposes(reading, chosen, t) = ProposeFrom(reading, chosen, t)
    /\ \A item, limit, quantity, t :
          AgentProposesStated(item, limit, quantity, t) = ProposeStated(item, limit, quantity, t)

LEMMA HonestGoesOn ==
    ASSUME HonestInv, DOMAIN call = Slots, NEW c \in Slots, NEW to, Goes(c, to), InInterest(to)
    PROVE  \A d \in Slots : InInterest(call'[d])
<1>1. call'[c] = to /\ \A d \in Slots \ {c} : call'[d] = call[d]
  BY DEF Goes
<1>2. \A d \in Slots : InInterest(call[d])
  BY DEF HonestInv
<1> QED BY <1>1, <1>2

LEMMA HeldAreReadings ==
    ASSUME HonestInv, NEW t
    PROVE  LET held == forgetExpired(t)
               kept == evict(held)
           IN  /\ \A id \in DOMAIN held.readings : IsReading(held.readings[id].what)
               /\ \A id \in DOMAIN kept.readings : IsReading(kept.readings[id].what)
<1> DEFINE held == forgetExpired(t)
           kept == evict(held)
           D == {id \in DOMAIN readings : ~Old(id, t)} \cup (DOMAIN readings \ Range(readingOrder))
<1>1. held.readings = [id \in D |-> readings[id]]
  BY DEF forgetExpired
<1>2. D \subseteq DOMAIN readings
  OBVIOUS
<1> HIDE DEF D
<1>3. \A id \in DOMAIN held.readings : IsReading(held.readings[id].what)
  <2> HIDE DEF held
  <2> QED BY <1>1, <1>2 DEF HonestInv
<1> HIDE DEF held
<1> DEFINE gone == Range(SubSeq(held.order, 1, Max({0, Cardinality(DOMAIN held.readings) - maxReadings + 1})))
<1>4. kept.readings = [id \in DOMAIN held.readings \ gone |-> held.readings[id]]
  BY DEF evict
<1> HIDE DEF kept, gone
<1>5. \A id \in DOMAIN kept.readings : IsReading(kept.readings[id].what)
  BY <1>3, <1>4
<1> QED BY <1>3, <1>5 DEF held, kept

LEMMA HonestInvInit == Init => HonestInv
BY DEF Init, HonestInv, InInterest, Idle

LEMMA HonestInvNext ==
    ASSUME AgentIsBehind, ReadingsInv, HonestInv, [Next]_vars
    PROVE  HonestInv'
<1> USE DEF HonestInv
<1>0. /\ DOMAIN call = Slots /\ now \in Int
      /\ Len(remembered) \in Nat /\ DOMAIN Sentences = 1..Len(Sentences)
  BY SentencesAssumption DEF ReadingsInv
<1>1. CASE UNCHANGED <<call, readings>>
  BY <1>1 DEF HonestInv
<1>2. ASSUME NEW c \in Slots, NEW to, Goes(c, to), InInterest(to), UNCHANGED readings
      PROVE  HonestInv'
  BY <1>0, <1>2, HonestGoesOn
<1>3. ASSUME NEW c \in Slots, Start(c) \/ Authorise(c) \/ newID(c) \/ register(c)
                              \/ interpret(c) \/ candidatesOf(c) \/ Reply(c)
      PROVE  HonestInv'
  <2>1. UNCHANGED readings
    BY <1>3 DEF Start, Authorise, newID, register, interpret, candidatesOf, Reply, readingVars
  <2>2. PICK to : Goes(c, to) /\ to.stage \notin {"proposing", "proposed"}
    <3>1. CASE Start(c)
      BY <3>1 DEF Start
    <3>2. CASE Authorise(c)
      BY <3>2 DEF Authorise, Idle
    <3>3. CASE newID(c)
      BY <3>3 DEF newID, Idle
    <3>4. CASE register(c)
      BY <3>4 DEF register, Idle
    <3>5. CASE interpret(c)
      BY <3>5 DEF interpret
    <3>6. CASE candidatesOf(c)
      BY <3>6 DEF candidatesOf
    <3>7. CASE Reply(c)
      BY <3>7 DEF Reply, Idle
    <3> QED BY <1>3, <3>1, <3>2, <3>3, <3>4, <3>5, <3>6, <3>7
  <2>3. InInterest(to)
    BY <2>2 DEF InInterest
  <2> QED BY <1>2, <2>1, <2>2, <2>3
<1>4. ASSUME NEW c \in Slots, remember(c) PROVE HonestInv'
  <2> DEFINE kept == evict(forgetExpired(call[c].at))
             id == Len(remembered) + 1
  <2>1. /\ Goes(c, Idle)
        /\ id <= Len(Sentences)
        /\ readings' = [i \in {id} \cup DOMAIN kept.readings |->
                          IF i = id THEN [made |-> call[c].at, what |-> Sentences[id]]
                          ELSE kept.readings[i]]
    BY <1>0, <1>4, SentencesAssumption DEF remember
  <2>2. \A i \in DOMAIN kept.readings : IsReading(kept.readings[i].what)
    BY HeldAreReadings
  <2>3. IsReading(Sentences[id])
    BY <1>0, <2>1, SentencesAssumption DEF IsReading
  <2> HIDE DEF kept, id
  <2>4. \A i \in DOMAIN readings' : IsReading(readings'[i].what)
    BY <2>1, <2>2, <2>3
  <2>5. InInterest(Idle)
    BY DEF InInterest, Idle
  <2> QED BY <1>0, <2>1, <2>4, <2>5, HonestGoesOn
<1>5. ASSUME NEW c \in Slots, recall(c) PROVE HonestInv'
  <2> DEFINE held == forgetExpired(call[c].at)
  <2>1. /\ readings' = held.readings
        /\ \/ /\ call[c].id \in DOMAIN held.readings
              /\ Goes(c, [stage |-> "proposing", reading |-> held.readings[call[c].id],
                          chosen |-> call[c].chosen, asked |-> call[c].at])
           \/ Goes(c, Idle)
    BY <1>5 DEF recall
  <2>2. \A i \in DOMAIN held.readings : IsReading(held.readings[i].what)
    BY HeldAreReadings
  <2> HIDE DEF held
  <2>3. PICK to : Goes(c, to) /\ InInterest(to)
    BY <2>1, <2>2 DEF InInterest, Idle
  <2> QED BY <1>0, <2>1, <2>2, <2>3, HonestGoesOn
<1>6. ASSUME NEW c \in Slots, propose(c) PROVE HonestInv'
  <2> DEFINE what == call[c].reading.what
             p == proposalOf(ProposeFrom(what, call[c].chosen, now))
             to == [stage |-> "proposed", reading |-> <<what>>, chosen |-> call[c].chosen,
                    at |-> now, proposal |-> p]
  <2>1. UNCHANGED readings /\ call[c].stage = "proposing"
    BY <1>6 DEF propose, readingVars
  <2>2. Goes(c, to)
    BY <1>6 DEF propose, AgentIsBehind
  <2>3. PICK k \in DOMAIN Sentences : what = Sentences[k]
    BY <2>1 DEF InInterest, IsReading
  <2>4. what.constraints \in Seq(Expression)
    BY <2>3, SentencesAssumption
  <2>5. HidesNothing(p, what.constraints, call[c].chosen, resolved(what.quantity))
    BY <1>0, <2>4, FromSentence
  <2> HIDE DEF p, what
  <2>6. InInterest(to)
    BY <1>0, <2>5 DEF InInterest
  <2> QED BY <1>2, <2>1, <2>2, <2>6
<1>7. ASSUME NEW c \in Slots, proposeStated(c) PROVE HonestInv'
  <2>1. UNCHANGED readings
    BY <1>7 DEF proposeStated, readingVars
  <2>2. PICK basket \in Baskets :
            Goes(c, [stage |-> "proposed", reading |-> <<>>, chosen |-> basket.item, at |-> now,
                     proposal |-> proposalOf(ProposeStated(basket.item, basket.limit,
                                                           resolved(basket.quantity), now))])
    BY <1>7 DEF proposeStated, AgentIsBehind
  <2> DEFINE p == proposalOf(ProposeStated(basket.item, basket.limit, resolved(basket.quantity), now))
             to == [stage |-> "proposed", reading |-> <<>>, chosen |-> basket.item, at |-> now,
                    proposal |-> p]
  <2>3. basket.limit \in Amounts /\ resolved(basket.quantity) \in Nat \ {0}
    BY BasketsAssumption DEF Amounts, resolved
  <2>4. BuysWhenAllowed(p, now)
    BY <1>0, <2>3, FromLimit
  <2> HIDE DEF p
  <2>5. InInterest(to)
    BY <1>0, <2>4 DEF InInterest
  <2>6. Goes(c, to)
    BY <2>2 DEF p
  <2> QED BY <1>2, <2>1, <2>5, <2>6
<1> QED
  <2>1. CASE Tick
    BY <1>1, <2>1 DEF Tick, readingVars
  <2>2. CASE UNCHANGED vars
    BY <1>1, <2>2 DEF vars, readingVars
  <2> QED BY <2>1, <2>2, <1>3, <1>4, <1>5, <1>6, <1>7 DEF Next

\* ProposalIsHonest of one request.
HonestOf(request) ==
    LET p == request.proposal
        allows(i, t) == Allowed(p.constraints, Offers[i], p.quantity, t)
        limits == request.reading[1].constraints
        listed == {p.offers[k].offer.id : k \in DOMAIN p.offers}
    IN  /\ (Made(p) \/ NothingToMake(p)) /\ request.reading # <<>> =>
              \A i \in DOMAIN Offers, t \in request.at..Horizon :
                  LET quantity == resolved(request.reading[1].quantity)
                  IN  /\ /\ request.chosen = <<>>
                         /\ Allowed(limits, Offers[i], quantity, t)
                         => Offers[i].id \in listed
                      /\ Made(p) /\ allows(i, t) =>
                            /\ Allowed(limits, Offers[i], quantity, t)
                            /\ Offers[i].id = p.item
        /\ Made(p) /\ request.reading = <<>> =>
              \A i \in DOMAIN Offers : Offers[i].id = p.item =>
                  (p.trigger = "immediate" <=> allows(i, request.at))

LEMMA InterestIsHonest ==
    ASSUME NEW request, request.stage = "proposed", InInterest(request)
    PROVE  HonestOf(request)
<1> DEFINE p == request.proposal
           reading == request.reading[1]
           quantity == resolved(reading.quantity)
<1>1. Horizon \in Int /\ request.at \in Int
  BY ConsoleAssumption DEF Horizon, InInterest
<1>2. \A t \in request.at..Horizon : t \in Int
  BY <1>1
<1>3. ASSUME request.reading # <<>>, Made(p) \/ NothingToMake(p),
             NEW i \in DOMAIN Offers, NEW t \in request.at..Horizon
      PROVE  /\ /\ request.chosen = <<>>
                /\ Allowed(reading.constraints, Offers[i], quantity, t)
                => Offers[i].id \in {p.offers[k].offer.id : k \in DOMAIN p.offers}
             /\ Made(p) /\ Allowed(p.constraints, Offers[i], p.quantity, t) =>
                   /\ Allowed(reading.constraints, Offers[i], quantity, t)
                   /\ Offers[i].id = p.item
  <2>1. HidesNothing(p, reading.constraints, request.chosen, quantity)
    BY <1>3 DEF InInterest
  <2>2. t \in Int
    BY <1>2
  <2> HIDE DEF p, reading, quantity
  <2> QED BY <1>3, <2>1, <2>2 DEF HidesNothing
<1>4. ASSUME request.reading = <<>>, Made(p), NEW i \in DOMAIN Offers, Offers[i].id = p.item
      PROVE  p.trigger = "immediate" <=> Allowed(p.constraints, Offers[i], p.quantity, request.at)
  BY <1>4 DEF InInterest, BuysWhenAllowed
<1> QED BY <1>3, <1>4 DEF HonestOf

LEMMA HonestFollows == HonestInv => ProposalIsHonest
<1> SUFFICES ASSUME HonestInv PROVE ProposalIsHonest
  OBVIOUS
<1>1. \A c \in {d \in Slots : call[d].stage = "proposed"} : HonestOf(call[c])
  BY InterestIsHonest DEF HonestInv
<1>2. \A p : p.error \in {"", "no offer matched"} <=> Made(p) \/ NothingToMake(p)
  BY DEF Made, NothingToMake
<1> QED BY <1>1, <1>2 DEF ProposalIsHonest, HonestOf, Made

\* Of any offers, prices, sentences and baskets: an agent whose proposals are
\* ProposeFrom and ProposeStated proposes in the user's interest
\* (authorise.go: ProposeFrom, ProposeStated; narrowing.go; console.go).
THEOREM ProposalsAreHonest == AgentIsBehind /\ Spec => []ProposalIsHonest
<1>1. AgentIsBehind /\ ReadingsInv /\ HonestInv /\ [Next]_vars => HonestInv'
  BY HonestInvNext
<1>2. ReadingsInv /\ [Next]_vars => ReadingsInv'
  BY ReadingsInvNext
<1>3. AgentIsBehind => AgentIsBehind'
  BY DEF AgentIsBehind
<1> QED BY HonestInvInit, ReadingsInvInit, <1>1, <1>2, <1>3, HonestFollows, PTL DEF Spec
=============================================================================
