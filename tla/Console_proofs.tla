--------------------------- MODULE Console_proofs ---------------------------
(***************************************************************************)
(* That the console accounts for its places and that its two structures of *)
(* readings agree, for any limits, any number of requests under way and    *)
(* whatever the agent proposes; and that a watch is shown every price, of  *)
(* any schedule a merchant serves.                                         *)
(***************************************************************************)
EXTENDS PricedConsole, FiniteSetTheorems, SequenceTheorems, WellFoundedInduction, TLAPS

Starting == {c \in Slots : call[c].stage \in {"authorising", "naming", "describing"}}

\* A place is reserved for each start under way, and they and the runs fit.
PlacesInv ==
    /\ DOMAIN call = Slots
    /\ pending = Cardinality(Starting)
    /\ runs \in Nat
    /\ runs + pending <= Limit

\* s is a sequence of numbers up to n, each larger than the one before.
Rises(s, n) ==
    /\ s \in Seq(1..n)
    /\ \A i, j \in 1..Len(s) : i < j => s[i] < s[j]

HeldInv ==
    /\ Rises(readingOrder, Len(remembered))
    /\ Len(readingOrder) <= maxReadings
    /\ DOMAIN readings = Range(readingOrder)
    /\ \A id \in DOMAIN readings : readings[id].made = remembered[id]

\* A request has read the clock before it takes the lock.
Asked(request, t) ==
    /\ request.stage \in {"remembering", "recalling"} => request.at \in 0..t
    /\ request.stage = "proposing" => request.asked - request.reading.made < readingLifetime

AskedInv == \A c \in Slots : Asked(call[c], now)

\* Number id went for its age, or because as many came after it.
Spent(id) ==
    \/ now - remembered[id] >= readingLifetime
    \/ Len(remembered) - id >= maxReadings

ReadingsInv ==
    /\ DOMAIN call = Slots
    /\ now \in Nat
    /\ remembered \in Seq(Nat)
    /\ \A id \in 1..Len(remembered) : remembered[id] <= now
    /\ HeldInv
    /\ AskedInv
    /\ \A id \in 1..Len(remembered) : id \notin DOMAIN readings => Spent(id)
-----------------------------------------------------------------------------
(* Places. *)

UnderWay == {"authorising", "naming", "describing"}

\* A request that goes somewhere is the only one that does.
LEMMA StartingAfter ==
    ASSUME DOMAIN call = Slots, NEW c \in Slots, NEW to, Goes(c, to)
    PROVE  /\ DOMAIN call' = Slots
           /\ Starting' = IF to.stage \in UnderWay THEN Starting \cup {c} ELSE Starting \ {c}
           /\ IsFiniteSet(Starting)
           /\ c \in Starting <=> call[c].stage \in UnderWay
<1>1. DOMAIN call' = Slots /\ call'[c] = to /\ \A d \in Slots \ {c} : call'[d] = call[d]
  BY DEF Goes
<1>2. Starting \in SUBSET Slots /\ IsFiniteSet(Slots)
  BY ConsoleAssumption DEF Starting
<1>3. IsFiniteSet(Starting)
  BY <1>2, FS_Subset
<1>4. Starting' = {d \in Slots : call'[d].stage \in UnderWay}
  BY DEF Starting, UnderWay
<1>5. \A d \in Slots : d \in Starting <=> call[d].stage \in UnderWay
  BY DEF Starting, UnderWay
<1>6. CASE to.stage \in UnderWay
  BY <1>1, <1>2, <1>4, <1>5, <1>3, <1>6
<1>7. CASE to.stage \notin UnderWay
  BY <1>1, <1>2, <1>4, <1>5, <1>3, <1>7
<1> QED BY <1>6, <1>7

LEMMA SizeOfStarting ==
    ASSUME NEW S, IsFiniteSet(S), NEW c
    PROVE  /\ Cardinality(S) \in Nat
           /\ Cardinality(S \cup {c}) = IF c \in S THEN Cardinality(S) ELSE Cardinality(S) + 1
           /\ Cardinality(S \ {c}) = IF c \in S THEN Cardinality(S) - 1 ELSE Cardinality(S)
BY FS_CardinalityType, FS_AddElement, FS_RemoveElement

\* A request under way stays so, and the places are as they were.
LEMMA GoesOn ==
    ASSUME PlacesInv, NEW c \in Slots, NEW to, Goes(c, to),
           call[c].stage \in UnderWay <=> to.stage \in UnderWay,
           UNCHANGED placeVars
    PROVE  PlacesInv'
<1>1. DOMAIN call' = Slots /\ Starting' = Starting
  <2>1. DOMAIN call = Slots
    BY DEF PlacesInv
  <2> QED BY <2>1, StartingAfter
<1> QED BY <1>1 DEF PlacesInv, placeVars

\* A place is taken with the start it is for.
LEMMA Taken ==
    ASSUME PlacesInv, NEW c \in Slots, NEW to, Goes(c, to),
           call[c].stage \notin UnderWay, to.stage \in UnderWay,
           reserve, runs' = runs
    PROVE  PlacesInv'
<1>1. DOMAIN call' = Slots /\ Starting' = Starting \cup {c} /\ IsFiniteSet(Starting) /\ c \notin Starting
  <2>1. DOMAIN call = Slots
    BY DEF PlacesInv
  <2> QED BY <2>1, StartingAfter
<1>2. Cardinality(Starting') = Cardinality(Starting) + 1 /\ Cardinality(Starting) \in Nat
  BY <1>1, SizeOfStarting
<1>3. pending' = pending + 1 /\ runs + pending < Limit /\ Limit \in Nat
  BY ConsoleAssumption DEF reserve
<1>4. pending \in Nat /\ runs \in Nat
  BY <1>2 DEF PlacesInv
<1>5. pending' = Cardinality(Starting')
  BY <1>2, <1>3 DEF PlacesInv
<1>6. runs' \in Nat /\ runs' + pending' <= Limit
  BY <1>3, <1>4
<1> QED BY <1>1, <1>5, <1>6 DEF PlacesInv

\* A place is given back, or is a run's, with the end of the start.
LEMMA GivenBack ==
    ASSUME PlacesInv, NEW c \in Slots, NEW to, Goes(c, to),
           call[c].stage \in UnderWay, to.stage \notin UnderWay,
           pending' = pending - 1, runs' \in {runs, runs + 1}
    PROVE  PlacesInv'
<1>1. DOMAIN call' = Slots /\ Starting' = Starting \ {c} /\ IsFiniteSet(Starting) /\ c \in Starting
  <2>1. DOMAIN call = Slots
    BY DEF PlacesInv
  <2> QED BY <2>1, StartingAfter
<1>2. Cardinality(Starting') = Cardinality(Starting) - 1 /\ Cardinality(Starting) \in Nat
  BY <1>1, SizeOfStarting
<1>3. pending \in Nat /\ runs \in Nat /\ runs + pending <= Limit /\ Limit \in Nat
  BY <1>2, ConsoleAssumption DEF PlacesInv
<1>4. pending' = Cardinality(Starting')
  BY <1>2 DEF PlacesInv
<1>5. runs' \in Nat /\ runs' + pending' <= Limit
  BY <1>3
<1> QED BY <1>1, <1>4, <1>5 DEF PlacesInv

LEMMA PlacesInvInit == Init => PlacesInv
<1> SUFFICES ASSUME Init PROVE PlacesInv
  OBVIOUS
<1>1. Starting = {}
  BY DEF Init, Idle, Starting
<1>2. Cardinality(Starting) = 0
  BY <1>1, FS_EmptySet
<1> QED BY <1>2, ConsoleAssumption DEF Init, PlacesInv

LEMMA PlacesInvNext == PlacesInv /\ [Next]_vars => PlacesInv'
<1> SUFFICES ASSUME PlacesInv, [Next]_vars PROVE PlacesInv'
  OBVIOUS
<1>1. CASE Tick
  BY <1>1 DEF Tick, placeVars, PlacesInv, Starting
<1>2. CASE UNCHANGED vars
  BY <1>2 DEF vars, placeVars, PlacesInv, Starting
<1>3. ASSUME NEW c \in Slots, Start(c) PROVE PlacesInv'
  <2>1. PICK signed \in BOOLEAN : Goes(c, [stage |-> IF signed THEN "naming" ELSE "authorising"])
    BY <1>3 DEF Start
  <2>2. call[c].stage \notin UnderWay /\ reserve /\ runs' = runs
    BY <1>3 DEF Start, Idle, UnderWay
  <2>3. [stage |-> IF signed THEN "naming" ELSE "authorising"].stage \in UnderWay
    BY DEF UnderWay
  <2> QED BY <2>1, <2>2, <2>3, Taken
<1>4. ASSUME NEW c \in Slots, Authorise(c) PROVE PlacesInv'
  <2>1. call[c].stage \in UnderWay /\ runs' = runs
    BY <1>4 DEF Authorise, UnderWay
  <2>2. CASE Goes(c, [stage |-> "naming"]) /\ UNCHANGED pending
    BY <2>1, <2>2, GoesOn DEF UnderWay, placeVars
  <2>3. CASE Goes(c, Idle) /\ release
    BY <2>1, <2>3, GivenBack DEF UnderWay, Idle, release
  <2> QED BY <1>4, <2>2, <2>3 DEF Authorise
<1>5. ASSUME NEW c \in Slots, newID(c) PROVE PlacesInv'
  <2>1. call[c].stage \in UnderWay /\ runs' = runs
    BY <1>5 DEF newID, UnderWay
  <2>2. CASE Goes(c, [stage |-> "describing"]) /\ UNCHANGED pending
    BY <2>1, <2>2, GoesOn DEF UnderWay, placeVars
  <2>3. CASE Goes(c, Idle) /\ release
    BY <2>1, <2>3, GivenBack DEF UnderWay, Idle, release
  <2> QED BY <1>5, <2>2, <2>3 DEF newID
<1>6. ASSUME NEW c \in Slots, register(c) PROVE PlacesInv'
  <2>1. /\ call[c].stage \in UnderWay
        /\ Goes(c, Idle)
        /\ pending' = pending - 1
        /\ runs' \in {runs, runs + 1}
    BY <1>6 DEF register, UnderWay
  <2> QED BY <2>1, GivenBack DEF UnderWay, Idle
<1>7. ASSUME NEW c \in Slots, interpret(c) \/ remember(c) \/ candidatesOf(c) \/ recall(c)
                              \/ propose(c) \/ proposeStated(c) \/ Reply(c)
      PROVE  PlacesInv'
  <2>1. call[c].stage \notin UnderWay /\ UNCHANGED placeVars
    BY <1>7 DEF interpret, remember, candidatesOf, recall, propose, proposeStated, Reply, Idle, UnderWay
  <2>2. PICK to : Goes(c, to) /\ to.stage \notin UnderWay
    <3>1. CASE interpret(c)
      BY <3>1 DEF interpret, UnderWay
    <3>2. CASE remember(c)
      BY <3>2 DEF remember, UnderWay, Idle
    <3>3. CASE candidatesOf(c)
      BY <3>3 DEF candidatesOf, UnderWay
    <3>4. CASE recall(c)
      BY <3>4 DEF recall, UnderWay, Idle
    <3>5. CASE propose(c)
      BY <3>5 DEF propose, UnderWay
    <3>6. CASE proposeStated(c)
      BY <3>6 DEF proposeStated, UnderWay
    <3>7. CASE Reply(c)
      BY <3>7 DEF Reply, UnderWay, Idle
    <3> QED BY <1>7, <3>1, <3>2, <3>3, <3>4, <3>5, <3>6, <3>7
  <2> QED BY <2>1, <2>2, GoesOn
<1> QED BY <1>1, <1>2, <1>3, <1>4, <1>5, <1>6, <1>7 DEF Next

LEMMA MaxWithZero ==
    ASSUME NEW n \in Int
    PROVE  Max({0, n}) = IF n <= 0 THEN 0 ELSE n
<1>1. CASE n <= 0
  <2>1. \A x \in {0, n} : (\A y \in {0, n} : x >= y) => x = 0
    BY <1>1
  <2>2. \A y \in {0, n} : 0 >= y
    BY <1>1
  <2> QED BY <1>1, <2>1, <2>2 DEF Max
<1>2. CASE ~(n <= 0)
  <2>1. \A x \in {0, n} : (\A y \in {0, n} : x >= y) => x = n
    BY <1>2
  <2>2. \A y \in {0, n} : n >= y
    BY <1>2
  <2> QED BY <1>2, <2>1, <2>2 DEF Max
<1> QED BY <1>1, <1>2

LEMMA PlacesFollow == PlacesInv => PlacesAccounted
<1> SUFFICES ASSUME PlacesInv PROVE PlacesAccounted
  OBVIOUS
<1>1. Starting \in SUBSET Slots /\ IsFiniteSet(Slots)
  BY ConsoleAssumption DEF Starting
<1>2. pending \in Nat /\ runs \in Nat /\ Limit \in Nat /\ runs + pending <= Limit
  BY <1>1, FS_Subset, FS_CardinalityType, ConsoleAssumption DEF PlacesInv
<1>3. free = Limit - runs - pending
  BY <1>2, MaxWithZero DEF free
<1> QED BY <1>3 DEF PlacesInv, PlacesAccounted, Starting

\* No path of Start loses a place or gives one twice, however many requests are
\* under way and whatever limit the console has (console.go: reserve, release).
THEOREM NoPlaceIsLost == Spec => []PlacesAccounted
<1>1. PlacesInv /\ [Next]_vars => PlacesInv'
  BY PlacesInvNext
<1> QED BY PlacesInvInit, <1>1, PlacesFollow, PTL DEF Spec
-----------------------------------------------------------------------------
(* Induction: a non-empty set of naturals has a least element. *)

LessThan == {pair \in Nat \X Nat : pair[1] < pair[2]}

LEMMA LeastNatural ==
    ASSUME NEW T \in SUBSET Nat, T # {}
    PROVE  \E x \in T : \A y \in T : x <= y
<1>1. IsWellFoundedOn(LessThan, Nat)
  BY NatLessThanWellFounded DEF OpToRel, LessThan
<1>2. PICK x \in T : \A y \in T : <<y, x>> \notin LessThan
  BY <1>1, WFMin
<1>3. ASSUME NEW y \in T PROVE x <= y
  <2>1. x \in Nat /\ y \in Nat
    OBVIOUS
  <2>2. ~(y < x)
    BY <1>2, <2>1 DEF LessThan
  <2> QED BY <2>1, <2>2
<1> QED BY <1>3
-----------------------------------------------------------------------------
(* What is left of a sequence of numbers, of those in a set. *)

\* h is the loop over the first n of s: what it has kept after each of them.
Keeps(h, s, young, n) ==
    h = [i \in 0..n |-> IF i = 0 THEN <<>>
                        ELSE IF s[i] \in young THEN Append(h[i - 1], s[i])
                        ELSE h[i - 1]]

\* The loop can be run for any number of rounds.
LEMMA LoopRuns ==
    ASSUME NEW s, NEW young, NEW n \in Nat
    PROVE  \E h : Keeps(h, s, young, n)
<1> DEFINE Stuck == {m \in Nat : ~(\E h : Keeps(h, s, young, m))}
<1>1. SUFFICES ASSUME Stuck # {} PROVE FALSE
  OBVIOUS
<1>2. PICK m \in Stuck : \A k \in Stuck : m <= k
  BY <1>1, LeastNatural
<1>3. CASE m = 0
  <2> DEFINE h == [i \in 0..0 |-> <<>>]
  <2>1. Keeps(h, s, young, 0)
    BY DEF Keeps
  <2> QED BY <1>3, <2>1
<1>4. CASE m # 0
  <2>1. m \in Nat /\ m - 1 \in Nat /\ ~(m <= m - 1)
    BY <1>4
  <2>2. m - 1 \notin Stuck
    BY <1>2, <2>1
  <2>3. PICK h : Keeps(h, s, young, m - 1)
    BY <2>1, <2>2
  <2> DEFINE Value(i) == IF i <= m - 1 THEN h[i]
                         ELSE IF s[i] \in young THEN Append(h[i - 1], s[i])
                         ELSE h[i - 1]
             g == [i \in 0..m |-> Value(i)]
  <2>4. ASSUME NEW i \in 0..m
        PROVE  Value(i) = IF i = 0 THEN <<>>
                          ELSE IF s[i] \in young THEN Append(g[i - 1], s[i])
                          ELSE g[i - 1]
    <3>1. i # 0 => i - 1 \in 0..m /\ i - 1 <= m - 1
      BY <2>1
    <3>2. i # 0 => g[i - 1] = h[i - 1]
      BY <3>1
    <3>3. CASE i <= m - 1
      <4>1. i \in 0..(m - 1)
        BY <2>1, <3>3
      <4>2. h[i] = IF i = 0 THEN <<>>
                   ELSE IF s[i] \in young THEN Append(h[i - 1], s[i])
                   ELSE h[i - 1]
        BY <2>3, <4>1 DEF Keeps
      <4> QED BY <3>2, <3>3, <4>2
    <3>4. CASE ~(i <= m - 1)
      <4>1. i # 0
        BY <2>1, <3>4
      <4> QED BY <3>2, <3>4, <4>1
    <3> QED BY <3>3, <3>4
  <2>5. Keeps(g, s, young, m)
    <3> HIDE DEF Value
    <3>1. g = [i \in 0..m |-> IF i = 0 THEN <<>>
                              ELSE IF s[i] \in young THEN Append(g[i - 1], s[i])
                              ELSE g[i - 1]]
      BY <2>4
    <3> QED BY <3>1 DEF Keeps
  <2> QED BY <2>5
<1> QED BY <1>3, <1>4

LEMMA RangeOfAppend ==
    ASSUME NEW S, NEW s \in Seq(S), NEW x \in S
    PROVE  Range(Append(s, x)) = Range(s) \cup {x}
<1>1. /\ Len(s) \in Nat /\ DOMAIN s = 1..Len(s)
      /\ DOMAIN Append(s, x) = 1..(Len(s) + 1)
      /\ \A i \in 1..Len(s) : Append(s, x)[i] = s[i]
      /\ Append(s, x)[Len(s) + 1] = x
  OBVIOUS
<1>2. 1..(Len(s) + 1) = (1..Len(s)) \cup {Len(s) + 1}
  BY <1>1
<1> QED BY <1>1, <1>2 DEF Range

\* What is kept of the first i: in the order they had, and just those in young.
KeptOf(k, s, young, i, n) ==
    /\ Rises(k, n)
    /\ Len(k) <= i
    /\ \A x : x \in Range(k) <=> x \in young /\ \E j \in 1..i : s[j] = x

\* One more is kept, or none.
LEMMA KeptOneMore ==
    ASSUME NEW n \in Nat, NEW s, Rises(s, n), NEW young,
           NEW i \in 1..Len(s), NEW k, KeptOf(k, s, young, i - 1, n)
    PROVE  KeptOf(IF s[i] \in young THEN Append(k, s[i]) ELSE k, s, young, i, n)
<1>1. /\ s \in Seq(1..n) /\ Len(s) \in Nat /\ s[i] \in 1..n
      /\ k \in Seq(1..n) /\ Len(k) \in Nat
  BY DEF Rises, KeptOf
<1>2. 1..i = (1..(i - 1)) \cup {i} /\ i \in Nat
  BY <1>1
<1>3. CASE s[i] \notin young
  <2>1. \A x : x \in young => ((\E j \in 1..i : s[j] = x) <=> (\E j \in 1..(i - 1) : s[j] = x))
    BY <1>2, <1>3
  <2>2. Len(k) <= i
    BY <1>1, <1>2 DEF KeptOf
  <2> QED BY <1>3, <2>1, <2>2 DEF KeptOf
<1>4. CASE s[i] \in young
  <2> DEFINE a == Append(k, s[i])
  <2>1. /\ a \in Seq(1..n) /\ Len(a) = Len(k) + 1
        /\ \A m \in 1..Len(k) : a[m] = k[m]
        /\ a[Len(k) + 1] = s[i]
    BY <1>1
  <2>2. Range(a) = Range(k) \cup {s[i]}
    BY <1>1, RangeOfAppend
  <2>3. \A m \in 1..Len(k) : k[m] < s[i]
    <3> TAKE m \in 1..Len(k)
    <3>1. k[m] \in Range(k)
      BY <1>1 DEF Range
    <3>2. PICK j \in 1..(i - 1) : s[j] = k[m]
      BY <3>1 DEF KeptOf
    <3>3. j \in 1..Len(s) /\ j < i
      BY <1>1, <1>2
    <3> QED BY <3>2, <3>3 DEF Rises
  <2> HIDE DEF a
  <2>4. Rises(a, n)
    <3>1. ASSUME NEW p \in 1..Len(a), NEW q \in 1..Len(a), p < q PROVE a[p] < a[q]
      <4>1. p \in 1..Len(k)
        BY <1>1, <2>1, <3>1
      <4>2. CASE q = Len(k) + 1
        BY <2>1, <2>3, <4>1, <4>2
      <4>3. CASE q # Len(k) + 1
        <5>1. q \in 1..Len(k)
          BY <1>1, <2>1, <4>3
        <5> QED BY <2>1, <3>1, <4>1, <5>1 DEF KeptOf, Rises
      <4> QED BY <4>2, <4>3
    <3> QED BY <2>1, <3>1 DEF Rises
  <2>5. Len(a) <= i
    BY <1>1, <1>2, <2>1 DEF KeptOf
  <2>6. \A x : x \in Range(a) <=> x \in young /\ \E j \in 1..i : s[j] = x
    BY <1>2, <1>4, <2>2 DEF KeptOf
  <2>7. KeptOf(a, s, young, i, n)
    BY <2>4, <2>5, <2>6 DEF KeptOf
  <2> QED BY <1>4, <2>7 DEF a
<1> QED BY <1>3, <1>4

LEMMA LoopKeeps ==
    ASSUME NEW n \in Nat, NEW s, Rises(s, n), NEW young, NEW h,
           Keeps(h, s, young, Len(s))
    PROVE  KeptOf(h[Len(s)], s, young, Len(s), n)
<1> DEFINE Wrong == {i \in 0..Len(s) : ~KeptOf(h[i], s, young, i, n)}
<1>0. Len(s) \in Nat
  BY DEF Rises
<1>1. ASSUME Wrong # {} PROVE FALSE
  <2>1. Wrong \in SUBSET Nat
    BY <1>0
  <2>2. PICK i \in Wrong : \A j \in Wrong : i <= j
    BY <1>1, <2>1, LeastNatural
  <2>3. i \in 0..Len(s) /\ ~KeptOf(h[i], s, young, i, n)
    BY <2>2
  <2>4. CASE i = 0
    <3>1. h[i] = <<>>
      BY <2>3, <2>4 DEF Keeps
    <3>2. Rises(<<>>, n) /\ Len(<<>>) = 0 /\ Range(<<>>) = {}
      BY DEF Rises, Range
    <3>3. KeptOf(<<>>, s, young, 0, n)
      BY <3>2 DEF KeptOf
    <3> QED BY <2>3, <2>4, <3>1, <3>3
  <2>5. CASE i # 0
    <3>1. i \in 1..Len(s) /\ i - 1 \in 0..Len(s) /\ ~(i <= i - 1)
      BY <1>0, <2>3, <2>5
    <3>2. KeptOf(h[i - 1], s, young, i - 1, n)
      BY <2>2, <3>1
    <3>3. h[i] = IF s[i] \in young THEN Append(h[i - 1], s[i]) ELSE h[i - 1]
      BY <2>3, <2>5 DEF Keeps
    <3> QED BY <2>3, <3>1, <3>2, <3>3, KeptOneMore
  <2> QED BY <2>4, <2>5
<1>2. Len(s) \in 0..Len(s)
  BY <1>0
<1> QED BY <1>1, <1>2

Young(t) == {id \in DOMAIN readings : ~Old(id, t)}

\* forgetExpired leaves just the young, in the order they had.
LEMMA ForgettingKeepsTheYoung ==
    ASSUME NEW n \in Nat, Rises(readingOrder, n),
           DOMAIN readings = Range(readingOrder), NEW t
    PROVE  /\ Rises(forgetExpired(t).order, n)
           /\ Len(forgetExpired(t).order) <= Len(readingOrder)
           /\ Range(forgetExpired(t).order) = Young(t)
           /\ forgetExpired(t).readings = [id \in Young(t) |-> readings[id]]
<1> DEFINE young == Young(t)
           f == CHOOSE h : h = [i \in 0..Len(readingOrder) |->
                              IF i = 0 THEN <<>>
                              ELSE IF readingOrder[i] \in young THEN Append(h[i - 1], readingOrder[i])
                              ELSE h[i - 1]]
<1>0. readingOrder \in Seq(1..n) /\ Len(readingOrder) \in Nat
  BY DEF Rises
<1>1. \E h : h = [i \in 0..Len(readingOrder) |->
                              IF i = 0 THEN <<>>
                              ELSE IF readingOrder[i] \in young THEN Append(h[i - 1], readingOrder[i])
                              ELSE h[i - 1]]
  <2> HIDE DEF young
  <2>1. \E h : Keeps(h, readingOrder, young, Len(readingOrder))
    BY <1>0, LoopRuns
  <2> QED BY <2>1 DEF Keeps
<1>2. Keeps(f, readingOrder, young, Len(readingOrder))
  BY <1>1 DEF Keeps
<1>3. forgetExpired(t).order = f[Len(readingOrder)]
  BY DEF forgetExpired, Young
<1>4. forgetExpired(t).readings
        = [id \in young \cup (DOMAIN readings \ Range(readingOrder)) |-> readings[id]]
  BY DEF forgetExpired, Young
<1> HIDE DEF f
<1>5. KeptOf(forgetExpired(t).order, readingOrder, young, Len(readingOrder), n)
  BY <1>2, <1>3, LoopKeeps
<1>6. \A x : x \in young => \E j \in 1..Len(readingOrder) : readingOrder[j] = x
  BY <1>0 DEF Young, Range
<1>7. Range(forgetExpired(t).order) = young
  BY <1>5, <1>6 DEF KeptOf
<1>8. young \cup (DOMAIN readings \ Range(readingOrder)) = young
  OBVIOUS
<1> QED BY <1>4, <1>5, <1>7, <1>8 DEF KeptOf
-----------------------------------------------------------------------------
(* Room for one more. *)

\* A rising sequence has as many members as it is long.
LEMMA SizeOfRange ==
    ASSUME NEW n \in Nat, NEW s, Rises(s, n)
    PROVE  Cardinality(Range(s)) = Len(s)
<1>1. Len(s) \in Nat /\ DOMAIN s = 1..Len(s) /\ s \in [1..Len(s) -> 1..n]
  BY LenProperties DEF Rises
<1>2. s \in [1..Len(s) -> Range(s)] /\ \A x \in Range(s) : \E i \in 1..Len(s) : s[i] = x
  BY <1>1 DEF Range
<1>3. \A i, j \in 1..Len(s) : s[i] = s[j] => i = j
  <2> TAKE i, j \in 1..Len(s)
  <2>1. i < j \/ j < i \/ i = j
    BY <1>1
  <2>2. s[i] \in Int /\ s[j] \in Int
    BY <1>1
  <2>3. (i < j => s[i] < s[j]) /\ (j < i => s[j] < s[i])
    BY DEF Rises
  <2> QED BY <2>1, <2>2, <2>3
<1>4. s \in Bijection(1..Len(s), Range(s))
  BY <1>1, <1>2, <1>3 DEF Bijection, Injection, Surjection, IsInjective
<1>5. ExistsBijection(1..Len(s), Range(s))
  BY <1>4 DEF ExistsBijection
<1>6. IsFiniteSet(1..Len(s)) /\ Cardinality(1..Len(s)) = Len(s)
  <2>1. 1 \in Int /\ Len(s) \in Int
    BY <1>1
  <2>2. /\ IsFiniteSet(1..Len(s))
        /\ Cardinality(1..Len(s)) = IF 1 > Len(s) THEN 0 ELSE Len(s) - 1 + 1
    BY <2>1, FS_Interval
  <2> QED BY <1>1, <2>2
<1> QED BY <1>5, <1>6, FS_Bijection

\* And those after the first leave it no more than what is below them.
LEMMA FirstIsLow ==
    ASSUME NEW n \in Nat, NEW s, Rises(s, n), Len(s) >= 1
    PROVE  s[1] \in 1..n /\ n - s[1] >= Len(s) - 1
<1> DEFINE Low == {j \in 1..Len(s) : ~(s[j] >= s[1] + (j - 1))}
<1>1. Len(s) \in Nat /\ \A j \in 1..Len(s) : s[j] \in 1..n
  BY ElementOfSeq, LenProperties DEF Rises
<1>2. ASSUME Low # {} PROVE FALSE
  <2>1. Low \in SUBSET Nat
    BY <1>1
  <2>2. PICK j \in Low : \A k \in Low : j <= k
    BY <1>2, <2>1, LeastNatural
  <2>3. j \in 1..Len(s) /\ ~(s[j] >= s[1] + (j - 1))
    BY <2>2
  <2>4. j # 1
    BY <1>1, <2>3
  <2>5. j - 1 \in 1..Len(s) /\ j - 1 < j /\ ~(j <= j - 1)
    BY <1>1, <2>3, <2>4
  <2>6. s[j - 1] >= s[1] + ((j - 1) - 1)
    BY <2>2, <2>5
  <2>7. s[j - 1] < s[j]
    BY <2>3, <2>5 DEF Rises
  <2>8. s[j - 1] \in Int /\ s[j] \in Int /\ s[1] \in Int /\ j \in Int
    BY <1>1, <2>3, <2>5
  <2> QED BY <2>3, <2>6, <2>7, <2>8
<1>3. Len(s) \in 1..Len(s) /\ 1 \in 1..Len(s)
  BY <1>1
<1>4. s[Len(s)] >= s[1] + (Len(s) - 1)
  BY <1>2, <1>3
<1>5. s[Len(s)] \in 1..n /\ s[1] \in 1..n
  BY <1>1, <1>3
<1> QED BY <1>1, <1>4, <1>5

\* evict takes one at most, and only one that maxReadings will have come after.
LEMMA EvictingMakesRoom ==
    ASSUME NEW n \in Nat, NEW held, Rises(held.order, n), Len(held.order) <= maxReadings,
           DOMAIN held.readings = Range(held.order)
    PROVE  /\ Rises(evict(held).order, n)
           /\ Len(evict(held).order) < maxReadings
           /\ Range(evict(held).order) \subseteq Range(held.order)
           /\ evict(held).readings = [id \in Range(evict(held).order) |-> held.readings[id]]
           /\ \A id \in Range(held.order) \ Range(evict(held).order) :
                 n + 1 - id >= maxReadings
<1> DEFINE o == held.order
           excess == Max({0, Cardinality(DOMAIN held.readings) - maxReadings + 1})
<1>1. o \in Seq(1..n) /\ Len(o) \in Nat /\ maxReadings \in Nat \ {0}
      /\ \A i \in 1..Len(o) : o[i] \in 1..n
  BY ConsoleAssumption, LenProperties, ElementOfSeq DEF Rises
<1>2. Cardinality(DOMAIN held.readings) = Len(o)
  BY SizeOfRange
<1>3. Len(o) - maxReadings + 1 \in Int
  BY <1>1
<1>4. excess = IF Len(o) - maxReadings + 1 <= 0 THEN 0 ELSE Len(o) - maxReadings + 1
  BY <1>2, <1>3, MaxWithZero
<1>5. evict(held).order = SubSeq(o, excess + 1, Len(o))
  BY DEF evict
<1>6. evict(held).readings
        = [id \in DOMAIN held.readings \ Range(SubSeq(o, 1, excess)) |-> held.readings[id]]
  BY DEF evict
<1> HIDE DEF excess
<1>7. CASE Len(o) < maxReadings
  <2>1. excess = 0
    BY <1>1, <1>4, <1>7
  <2>2. evict(held).order = o
    BY <1>1, <1>5, <2>1, SubSeqFull
  <2>3. Range(SubSeq(o, 1, 0)) = {}
    BY SubSeqEmpty DEF Range
  <2>4. evict(held).readings = [id \in Range(o) |-> held.readings[id]]
    BY <1>6, <2>1, <2>3
  <2> QED BY <1>7, <2>2, <2>4
<1>8. CASE ~(Len(o) < maxReadings)
  <2>1. Len(o) = maxReadings /\ excess = 1 /\ Len(o) >= 1
    BY <1>1, <1>4, <1>8
  <2>2. o[1] \in 1..n /\ n - o[1] >= Len(o) - 1
    BY <2>1, FirstIsLow
  <2>3. \A i \in 1..1 : o[i] \in 1..n
    BY <2>2
  <2>4. /\ SubSeq(o, 1, 1) \in Seq(1..n) /\ Len(SubSeq(o, 1, 1)) = 1
        /\ SubSeq(o, 1, 1)[1] = o[1]
    <3>1. /\ SubSeq(o, 1, 1) \in Seq(1..n)
          /\ Len(SubSeq(o, 1, 1)) = IF 1 <= 1 THEN 1 - 1 + 1 ELSE 0
          /\ \A i \in 1..(1 - 1 + 1) : SubSeq(o, 1, 1)[i] = o[1 + i - 1]
      BY <2>3, SubSeqProperties
    <3> QED BY <3>1
  <2>5. Range(SubSeq(o, 1, 1)) = {o[1]}
    BY <2>4 DEF Range
  <2>6. evict(held).readings = [id \in Range(o) \ {o[1]} |-> held.readings[id]]
    BY <1>6, <2>1, <2>5
  <2> DEFINE e == evict(held).order
  <2>7. /\ e \in Seq(1..n) /\ Len(e) = Len(o) - 1
        /\ \A i \in 1..Len(e) : e[i] = o[i + 1]
    <3>1. e = SubSeq(o, 2, Len(o))
      BY <1>5, <2>1
    <3>2. \A i \in 2..Len(o) : o[i] \in 1..n
      BY <1>1
    <3>3. /\ SubSeq(o, 2, Len(o)) \in Seq(1..n)
          /\ Len(SubSeq(o, 2, Len(o))) = IF 2 <= Len(o) THEN Len(o) - 2 + 1 ELSE 0
          /\ \A i \in 1..(Len(o) - 2 + 1) : SubSeq(o, 2, Len(o))[i] = o[2 + i - 1]
      BY <1>1, <3>2, SubSeqProperties
    <3> HIDE DEF e
    <3>4. Len(e) = Len(o) - 1
      BY <1>1, <2>1, <3>1, <3>3
    <3>5. \A i \in 1..Len(e) : i \in 1..(Len(o) - 2 + 1) /\ 2 + i - 1 = i + 1
      BY <1>1, <3>4
    <3> QED BY <3>1, <3>3, <3>4, <3>5
  <2> HIDE DEF e
  <2>len. Len(e) \in Nat /\ Len(e) = Len(o) - 1
    BY <2>7, LenProperties
  <2>8. Rises(e, n)
    <3>1. ASSUME NEW p \in 1..Len(e), NEW q \in 1..Len(e), p < q PROVE e[p] < e[q]
      <4>1. p + 1 \in 1..Len(o) /\ q + 1 \in 1..Len(o) /\ p + 1 < q + 1
        BY <1>1, <2>len, <3>1
      <4>2. o[p + 1] < o[q + 1]
        BY <4>1 DEF Rises
      <4> QED BY <2>7, <4>2
    <3> QED BY <2>7, <3>1 DEF Rises
  <2>9. Range(e) = Range(o) \ {o[1]}
    <3>1. DOMAIN e = 1..Len(e) /\ DOMAIN o = 1..Len(o)
      BY <1>1, <2>7
    <3>2. ASSUME NEW i \in 1..Len(e) PROVE e[i] \in Range(o) \ {o[1]}
      <4>1. i + 1 \in 1..Len(o) /\ 1 \in 1..Len(o) /\ 1 < i + 1
        BY <1>1, <2>len
      <4>2. o[1] < o[i + 1]
        BY <4>1 DEF Rises
      <4>3. o[1] \in Int /\ o[i + 1] \in Int
        BY <1>1, <4>1
      <4>4. o[i + 1] # o[1] /\ o[i + 1] \in Range(o)
        BY <3>1, <4>1, <4>2, <4>3 DEF Range
      <4> QED BY <2>7, <4>4
    <3>3. ASSUME NEW i \in 1..Len(o), o[i] # o[1] PROVE o[i] \in Range(e)
      <4>1. i # 1
        BY <3>3
      <4>2. i - 1 \in 1..Len(e) /\ (i - 1) + 1 = i
        BY <1>1, <2>7, <4>1
      <4>3. e[i - 1] = o[i]
        BY <2>7, <4>2
      <4> QED BY <3>1, <4>2, <4>3 DEF Range
    <3> QED BY <3>1, <3>2, <3>3 DEF Range
  <2>10. \A id \in Range(o) \ Range(e) : n + 1 - id >= maxReadings
    BY <1>1, <2>1, <2>2, <2>9
  <2> QED BY <1>1, <2>1, <2>6, <2>7, <2>8, <2>9, <2>10 DEF e
<1> QED BY <1>7, <1>8
-----------------------------------------------------------------------------
(* Readings. *)

LEMMA ReadingsInvInit == Init => ReadingsInv
<1> SUFFICES ASSUME Init PROVE ReadingsInv
  OBVIOUS
<1>1. DOMAIN call = Slots /\ now = 0 /\ remembered = <<>> /\ Len(remembered) = 0
  BY DEF Init
<1>2. HeldInv
  <2>1. Rises(<<>>, 0) /\ Len(<<>>) = 0 /\ Range(<<>>) = {} /\ DOMAIN <<>> = {}
    BY DEF Rises, Range
  <2> QED BY <1>1, <2>1, ConsoleAssumption DEF HeldInv, Init
<1>3. AskedInv
  BY DEF AskedInv, Asked, Init, Idle
<1> QED BY <1>1, <1>2, <1>3 DEF ReadingsInv

\* A request that goes on alone keeps what the others have asked.
LEMMA AskedGoesOn ==
    ASSUME DOMAIN call = Slots, AskedInv, now' = now,
           NEW c \in Slots, NEW to, Goes(c, to), Asked(to, now)
    PROVE  DOMAIN call' = Slots /\ AskedInv'
<1>1. DOMAIN call' = Slots /\ \A d \in Slots : call'[d] = IF d = c THEN to ELSE call[d]
  BY DEF Goes
<1>2. \A d \in Slots : Asked(call'[d], now)
  BY <1>1 DEF AskedInv
<1> QED BY <1>1, <1>2 DEF AskedInv

LEMMA ReadingsUntouched ==
    ASSUME ReadingsInv, UNCHANGED <<now, readingVars>>,
           NEW c \in Slots, NEW to, Goes(c, to), Asked(to, now)
    PROVE  ReadingsInv'
<1>1. DOMAIN call' = Slots /\ AskedInv'
  <2>1. DOMAIN call = Slots /\ AskedInv /\ now' = now
    BY DEF ReadingsInv
  <2> QED BY <2>1, AskedGoesOn
<1>2. HeldInv'
  BY DEF ReadingsInv, HeldInv, readingVars
<1> QED BY <1>1, <1>2 DEF ReadingsInv, Spent, readingVars

LEMMA TickKeepsReadings == ReadingsInv /\ Tick => ReadingsInv'
<1> SUFFICES ASSUME ReadingsInv, Tick PROVE ReadingsInv'
  OBVIOUS
<1>1. now' = now + 1 /\ UNCHANGED <<call, readings, readingOrder, remembered>>
  BY DEF Tick, readingVars
<1>2. now \in Nat /\ remembered \in Seq(Nat) /\ readingLifetime \in Nat
  BY ConsoleAssumption DEF ReadingsInv
<1>3. \A id \in 1..Len(remembered) : remembered[id] \in Nat
  BY <1>2, ElementOfSeq
<1>4. \A id \in 1..Len(remembered) : remembered'[id] <= now'
  BY <1>1, <1>2, <1>3 DEF ReadingsInv
<1>5. HeldInv'
  BY <1>1 DEF ReadingsInv, HeldInv
<1>6. AskedInv'
  <2>1. \A c \in Slots : Asked(call[c], now)
    BY DEF ReadingsInv, AskedInv
  <2>2. \A x \in 0..now : x \in 0..(now + 1)
    BY <1>2
  <2>3. \A c \in Slots : Asked(call[c], now + 1)
    BY <2>1, <2>2 DEF Asked
  <2> QED BY <1>1, <2>3 DEF AskedInv
<1>7. \A id \in 1..Len(remembered) : Spent(id) => Spent(id)'
  BY <1>1, <1>2, <1>3 DEF Spent
<1> QED BY <1>1, <1>2, <1>4, <1>5, <1>6, <1>7 DEF ReadingsInv

\* Number n + 1 comes after all of them.
LEMMA NextRises ==
    ASSUME NEW n \in Nat, NEW s, Rises(s, n)
    PROVE  /\ Rises(Append(s, n + 1), n + 1)
           /\ Len(Append(s, n + 1)) = Len(s) + 1
           /\ Range(Append(s, n + 1)) = Range(s) \cup {n + 1}
<1> DEFINE a == Append(s, n + 1)
<1>1. s \in Seq(1..n) /\ Len(s) \in Nat /\ DOMAIN s = 1..Len(s)
  BY DEF Rises
<1>2. \A i \in 1..Len(s) : s[i] \in 1..n
  BY <1>1
<1>3. s \in Seq(1..(n + 1)) /\ n + 1 \in 1..(n + 1)
  BY <1>1, <1>2
<1>4. /\ a \in Seq(1..(n + 1)) /\ Len(a) = Len(s) + 1
      /\ \A i \in 1..Len(s) : a[i] = s[i]
      /\ a[Len(s) + 1] = n + 1
  BY <1>3
<1>5. Range(a) = Range(s) \cup {n + 1}
  BY <1>3, RangeOfAppend
<1> HIDE DEF a
<1>6. ASSUME NEW p \in 1..Len(a), NEW q \in 1..Len(a), p < q PROVE a[p] < a[q]
  <2>1. p \in 1..Len(s)
    BY <1>1, <1>4, <1>6
  <2>2. CASE q = Len(s) + 1
    <3>1. s[p] \in 1..n
      BY <1>2, <2>1
    <3>2. s[p] < n + 1
      BY <3>1
    <3> QED BY <1>4, <2>1, <2>2, <3>2
  <2>3. CASE q # Len(s) + 1
    <3>1. q \in 1..Len(s)
      BY <1>1, <1>4, <2>3
    <3>2. s[p] < s[q]
      BY <1>6, <2>1, <3>1 DEF Rises
    <3> QED BY <1>4, <2>1, <3>1, <3>2
  <2> QED BY <2>2, <2>3
<1>7. Rises(a, n + 1)
  BY <1>4, <1>6 DEF Rises
<1> QED BY <1>4, <1>5, <1>7 DEF a

\* What forgetExpired lets go of, as of an instant that has been, is spent.
LEMMA ForgottenIsSpent ==
    ASSUME ReadingsInv, NEW t \in 0..now,
           NEW id \in DOMAIN readings, id \notin Young(t)
    PROVE  id \in 1..Len(remembered) /\ now - remembered[id] >= readingLifetime
<1>1. now \in Nat /\ remembered \in Seq(Nat) /\ readingLifetime \in Nat /\ HeldInv
  BY ConsoleAssumption DEF ReadingsInv
<1>2. id \in 1..Len(remembered)
  <2>1. readingOrder \in Seq(1..Len(remembered)) /\ id \in Range(readingOrder)
    BY <1>1 DEF HeldInv, Rises
  <2> QED BY <2>1 DEF Range
<1>3. remembered[id] \in Nat /\ readings[id].made = remembered[id]
  BY <1>1, <1>2, ElementOfSeq DEF HeldInv
<1>4. t - readings[id].made >= readingLifetime
  BY DEF Young, Old
<1> QED BY <1>1, <1>2, <1>3, <1>4

LEMMA RecallKeepsReadings ==
    ASSUME ReadingsInv, NEW c \in Slots, recall(c) PROVE ReadingsInv'
<1> DEFINE t == call[c].at
           held == forgetExpired(t)
<1>1. /\ now \in Nat /\ remembered \in Seq(Nat) /\ Len(remembered) \in Nat /\ HeldInv /\ AskedInv
      /\ DOMAIN call = Slots
  BY LenProperties DEF ReadingsInv
<1>2. call[c].stage = "recalling" /\ t \in 0..now
  BY <1>1 DEF recall, AskedInv, Asked
<1>3. /\ now' = now /\ remembered' = remembered
      /\ readings' = held.readings /\ readingOrder' = held.order
  BY DEF recall
<1>4. /\ Rises(held.order, Len(remembered))
      /\ Len(held.order) <= Len(readingOrder)
      /\ Range(held.order) = Young(t)
      /\ held.readings = [id \in Young(t) |-> readings[id]]
  <2>1. Rises(readingOrder, Len(remembered)) /\ DOMAIN readings = Range(readingOrder)
    BY <1>1 DEF HeldInv
  <2> QED BY <1>1, <2>1, ForgettingKeepsTheYoung
<1> HIDE DEF held
<1>5. HeldInv'
  <2>1. Len(held.order) <= maxReadings
    <3>1. Len(held.order) \in Nat /\ Len(readingOrder) \in Nat /\ maxReadings \in Nat
      BY <1>1, <1>4, ConsoleAssumption, LenProperties DEF HeldInv, Rises
    <3> QED BY <1>1, <1>4, <3>1 DEF HeldInv
  <2>2. \A id \in Young(t) : held.readings[id].made = remembered[id]
    BY <1>1, <1>4 DEF HeldInv, Young
  <2> QED BY <1>3, <1>4, <2>1, <2>2 DEF HeldInv
<1>6. DOMAIN call' = Slots /\ AskedInv'
  <2>1. CASE call[c].id \in DOMAIN held.readings
    <3> DEFINE to == [stage |-> "proposing", reading |-> held.readings[call[c].id],
                      chosen |-> call[c].chosen, asked |-> t]
    <3>1. Goes(c, to)
      BY <2>1 DEF recall, held
    <3>2. call[c].id \in Young(t) /\ held.readings[call[c].id] = readings[call[c].id]
      BY <1>4, <2>1
    <3>3. readings[call[c].id].made = remembered[call[c].id] /\ call[c].id \in 1..Len(remembered)
      <4>1. call[c].id \in DOMAIN readings
        BY <3>2 DEF Young
      <4>2. readingOrder \in Seq(1..Len(remembered)) /\ call[c].id \in Range(readingOrder)
        BY <1>1, <4>1 DEF HeldInv, Rises
      <4>3. call[c].id \in 1..Len(remembered)
        BY <4>2 DEF Range
      <4> QED BY <1>1, <4>1, <4>3 DEF HeldInv
    <3>4. ~(t - readings[call[c].id].made >= readingLifetime)
      BY <3>2 DEF Young, Old
    <3>5. t \in Int /\ readings[call[c].id].made \in Int /\ readingLifetime \in Int
      BY <1>1, <1>2, <3>3, ElementOfSeq, ConsoleAssumption
    <3>6. t - readings[call[c].id].made < readingLifetime
      BY <3>4, <3>5
    <3>7. Asked(to, now)
      BY <3>2, <3>6 DEF Asked
    <3> HIDE DEF to
    <3> QED BY <1>1, <1>3, <3>1, <3>7, AskedGoesOn
  <2>2. CASE call[c].id \notin DOMAIN held.readings
    <3>1. Goes(c, Idle)
      BY <2>2 DEF recall, held
    <3> QED BY <1>1, <1>3, <3>1, AskedGoesOn DEF Asked, Idle
  <2> QED BY <2>1, <2>2
<1>7. ASSUME NEW id \in 1..Len(remembered), id \notin DOMAIN readings' PROVE Spent(id)
  <2>1. id \notin Young(t)
    BY <1>3, <1>4, <1>7
  <2>2. CASE id \in DOMAIN readings
    BY <1>2, <2>1, <2>2, ForgottenIsSpent DEF Spent
  <2>3. CASE id \notin DOMAIN readings
    BY <2>3 DEF ReadingsInv
  <2> QED BY <2>2, <2>3
<1> QED BY <1>1, <1>3, <1>5, <1>6, <1>7 DEF ReadingsInv, Spent

LEMMA RememberKeepsReadings ==
    ASSUME ReadingsInv, NEW c \in Slots, remember(c) PROVE ReadingsInv'
<1> DEFINE t == call[c].at
           n == Len(remembered)
           id == n + 1
           kept == forgetExpired(t)
           held == evict(kept)
<1>1. /\ now \in Nat /\ remembered \in Seq(Nat) /\ n \in Nat /\ HeldInv /\ AskedInv
      /\ DOMAIN call = Slots /\ maxReadings \in Nat
  BY LenProperties, ConsoleAssumption DEF ReadingsInv
<1>2. call[c].stage = "remembering" /\ t \in 0..now /\ t \in Nat
  BY <1>1 DEF remember, AskedInv, Asked
<1>3. /\ now' = now /\ Goes(c, Idle)
      /\ remembered' = Append(remembered, t)
      /\ readingOrder' = Append(held.order, id)
      /\ readings' = [i \in {id} \cup DOMAIN held.readings |->
                         IF i = id THEN [made |-> t, what |-> Sentences[id]]
                         ELSE held.readings[i]]
  BY DEF remember
<1>4. /\ Rises(kept.order, n)
      /\ Len(kept.order) <= Len(readingOrder)
      /\ Range(kept.order) = Young(t)
      /\ kept.readings = [i \in Young(t) |-> readings[i]]
  <2>1. Rises(readingOrder, n) /\ DOMAIN readings = Range(readingOrder)
    BY <1>1 DEF HeldInv
  <2> QED BY <1>1, <2>1, ForgettingKeepsTheYoung
<1>5. Len(kept.order) <= maxReadings
  <2>1. Len(kept.order) \in Nat /\ Len(readingOrder) \in Nat
    BY <1>1, <1>4, LenProperties DEF HeldInv, Rises
  <2> QED BY <1>1, <1>4, <2>1 DEF HeldInv
<1> HIDE DEF kept
<1>6. /\ Rises(held.order, n)
      /\ Len(held.order) < maxReadings
      /\ Range(held.order) \subseteq Young(t)
      /\ held.readings = [i \in Range(held.order) |-> kept.readings[i]]
      /\ \A i \in Young(t) \ Range(held.order) : n + 1 - i >= maxReadings
  <2>1. DOMAIN kept.readings = Range(kept.order)
    BY <1>4
  <2>2. /\ Rises(held.order, n)
        /\ Len(held.order) < maxReadings
        /\ Range(held.order) \subseteq Range(kept.order)
        /\ held.readings = [i \in Range(held.order) |-> kept.readings[i]]
        /\ \A i \in Range(kept.order) \ Range(held.order) : n + 1 - i >= maxReadings
    BY <1>1, <1>4, <1>5, <2>1, EvictingMakesRoom
  <2> QED BY <1>4, <2>2
<1> HIDE DEF held
<1>7. /\ Rises(readingOrder', id)
      /\ Len(readingOrder') = Len(held.order) + 1
      /\ Range(readingOrder') = Range(held.order) \cup {id}
  BY <1>1, <1>3, <1>6, NextRises
<1>8. /\ remembered' \in Seq(Nat) /\ Len(remembered') = id
      /\ \A i \in 1..n : remembered'[i] = remembered[i]
      /\ remembered'[id] = t
  BY <1>1, <1>2, <1>3
<1>9. DOMAIN readings' = Range(held.order) \cup {id}
  BY <1>3, <1>6
<1>10. \A i \in Range(held.order) : i \in 1..n /\ i \in DOMAIN readings /\ i # id
  <2>1. held.order \in Seq(1..n)
    BY <1>6 DEF Rises
  <2>2. \A i \in Range(held.order) : i \in 1..n
    BY <2>1 DEF Range
  <2> QED BY <1>1, <1>6, <2>2 DEF Young
<1>11. HeldInv'
  <2>1. Len(readingOrder') <= maxReadings
    <3>1. Len(held.order) \in Nat
      BY <1>6, LenProperties DEF Rises
    <3> QED BY <1>1, <1>6, <1>7, <3>1
  <2>2. ASSUME NEW i \in DOMAIN readings' PROVE readings'[i].made = remembered'[i]
    <3>1. CASE i = id
      BY <1>3, <1>8, <3>1
    <3>2. CASE i # id
      <4>1. i \in Range(held.order)
        BY <1>9, <3>2
      <4>2. readings'[i] = held.readings[i] /\ held.readings[i] = kept.readings[i]
        BY <1>3, <1>6, <3>2, <4>1
      <4>3. kept.readings[i] = readings[i]
        BY <1>4, <1>6, <4>1
      <4>4. readings[i].made = remembered[i]
        BY <1>1, <1>10, <4>1 DEF HeldInv
      <4> QED BY <1>8, <1>10, <4>1, <4>2, <4>3, <4>4
    <3> QED BY <3>1, <3>2
  <2> QED BY <1>7, <1>8, <1>9, <2>1, <2>2 DEF HeldInv
<1>12. DOMAIN call' = Slots /\ AskedInv'
  BY <1>1, <1>3, AskedGoesOn DEF Asked, Idle
<1>13. \A i \in 1..Len(remembered') : remembered'[i] <= now'
  <2> TAKE i \in 1..Len(remembered')
  <2>1. CASE i = id
    BY <1>1, <1>2, <1>3, <1>8, <2>1
  <2>2. CASE i # id
    <3>1. i \in 1..n
      BY <1>1, <1>8, <2>2
    <3> QED BY <1>3, <1>8, <3>1 DEF ReadingsInv
  <2> QED BY <2>1, <2>2
<1>14. ASSUME NEW i \in 1..Len(remembered'), i \notin DOMAIN readings' PROVE Spent(i)'
  <2>1. i \in 1..n /\ i \notin Range(held.order) /\ remembered'[i] = remembered[i]
    BY <1>1, <1>8, <1>9, <1>14
  <2>2. remembered[i] \in Nat
    BY <1>1, <2>1, ElementOfSeq
  <2>3. CASE i \in Young(t)
    <3>1. n + 1 - i >= maxReadings
      BY <1>6, <2>1, <2>3
    <3> QED BY <1>8, <3>1 DEF Spent
  <2>4. CASE i \in DOMAIN readings /\ i \notin Young(t)
    BY <1>2, <1>3, <2>1, <2>4, ForgottenIsSpent DEF Spent
  <2>5. CASE i \notin DOMAIN readings
    <3>1. Spent(i)
      BY <2>1, <2>5 DEF ReadingsInv
    <3>2. n - i >= maxReadings => n + 1 - i >= maxReadings
      BY <1>1, <2>1
    <3> QED BY <1>3, <1>8, <2>1, <3>1, <3>2 DEF Spent
  <2>6. Young(t) \subseteq DOMAIN readings
    BY DEF Young
  <2> QED BY <2>3, <2>4, <2>5, <2>6
<1> QED BY <1>1, <1>3, <1>8, <1>11, <1>12, <1>13, <1>14 DEF ReadingsInv

LEMMA ReadingsInvNext == ReadingsInv /\ [Next]_vars => ReadingsInv'
<1> SUFFICES ASSUME ReadingsInv, [Next]_vars PROVE ReadingsInv'
  OBVIOUS
<1>1. CASE Tick
  BY <1>1, TickKeepsReadings
<1>2. CASE UNCHANGED vars
  BY <1>2 DEF vars, readingVars, ReadingsInv, HeldInv, AskedInv, Spent
<1>3. now \in Nat
  BY DEF ReadingsInv
<1>4. ASSUME NEW c \in Slots, Start(c) PROVE ReadingsInv'
  <2>1. PICK signed \in BOOLEAN : Goes(c, [stage |-> IF signed THEN "naming" ELSE "authorising"])
    BY <1>4 DEF Start
  <2>2. Asked([stage |-> IF signed THEN "naming" ELSE "authorising"], now)
    BY DEF Asked
  <2> QED BY <1>4, <2>1, <2>2, ReadingsUntouched DEF Start
<1>5. ASSUME NEW c \in Slots, Authorise(c) \/ newID(c) \/ register(c) \/ Reply(c) PROVE ReadingsInv'
  <2>1. UNCHANGED <<now, readingVars>>
    BY <1>5 DEF Authorise, newID, register, Reply
  <2>2. \/ Goes(c, [stage |-> "naming"])
        \/ Goes(c, [stage |-> "describing"])
        \/ Goes(c, Idle)
    BY <1>5 DEF Authorise, newID, register, Reply
  <2>3. /\ Asked([stage |-> "naming"], now)
        /\ Asked([stage |-> "describing"], now)
        /\ Asked(Idle, now)
    BY DEF Asked, Idle
  <2> QED BY <2>1, <2>2, <2>3, ReadingsUntouched
<1>6. ASSUME NEW c \in Slots, interpret(c) PROVE ReadingsInv'
  <2>1. Asked([stage |-> "remembering", at |-> now], now)
    BY <1>3 DEF Asked
  <2> QED BY <1>6, <2>1, ReadingsUntouched DEF interpret
<1>7. ASSUME NEW c \in Slots, candidatesOf(c) PROVE ReadingsInv'
  <2>1. PICK id, item : Goes(c, [stage |-> "recalling", id |-> id, chosen |-> item, at |-> now])
    BY <1>7 DEF candidatesOf
  <2>2. Asked([stage |-> "recalling", id |-> id, chosen |-> item, at |-> now], now)
    BY <1>3 DEF Asked
  <2> QED BY <1>7, <2>1, <2>2, ReadingsUntouched DEF candidatesOf
<1>8. ASSUME NEW c \in Slots, propose(c) \/ proposeStated(c) PROVE ReadingsInv'
  <2>1. PICK reading, chosen, proposal :
           Goes(c, [stage |-> "proposed", reading |-> reading, chosen |-> chosen, at |-> now,
                    proposal |-> proposal])
    BY <1>8 DEF propose, proposeStated
  <2>2. Asked([stage |-> "proposed", reading |-> reading, chosen |-> chosen, at |-> now,
               proposal |-> proposal], now)
    BY DEF Asked
  <2>3. UNCHANGED <<now, readingVars>>
    BY <1>8 DEF propose, proposeStated
  <2> QED BY <2>1, <2>2, <2>3, ReadingsUntouched
<1>9. ASSUME NEW c \in Slots, remember(c) PROVE ReadingsInv'
  BY <1>9, RememberKeepsReadings
<1>10. ASSUME NEW c \in Slots, recall(c) PROVE ReadingsInv'
  BY <1>10, RecallKeepsReadings
<1> QED BY <1>1, <1>2, <1>4, <1>5, <1>6, <1>7, <1>8, <1>9, <1>10 DEF Next

LEMMA ReadingsFollow == ReadingsInv => ReadingsAgree
<1> SUFFICES ASSUME ReadingsInv PROVE ReadingsAgree
  OBVIOUS
<1>1. remembered \in Seq(Nat) /\ Len(remembered) \in Nat /\ DOMAIN remembered = 1..Len(remembered) /\ HeldInv
  BY LenProperties DEF ReadingsInv
<1>2. Cardinality(DOMAIN readings) = Len(readingOrder)
  BY <1>1, SizeOfRange DEF HeldInv
<1>3. \A c \in Slots : call[c].stage = "proposing" =>
          call[c].asked - call[c].reading.made < readingLifetime
  BY DEF ReadingsInv, AskedInv, Asked
<1>4. \A id \in DOMAIN remembered \ DOMAIN readings : Spent(id)
  BY <1>1 DEF ReadingsInv
<1> QED BY <1>1, <1>2, <1>3, <1>4 DEF ReadingsAgree, HeldInv, Spent

\* The map and the order of readings agree, however many readings are held, for
\* however long, and whatever order requests take the lock in (readings.go).
THEOREM MapAndOrderAgree == Spec => []ReadingsAgree
<1>1. ReadingsInv /\ [Next]_vars => ReadingsInv'
  BY ReadingsInvNext
<1> QED BY ReadingsInvInit, <1>1, ReadingsFollow, PTL DEF Spec
-----------------------------------------------------------------------------
(* The boundaries of a schedule. *)

\* h is the loop over the first n widths, from the start.
Adds(h, start, widths, n) ==
    h = [i \in 0..n |-> IF i = 0 THEN start ELSE h[i - 1] + widths[i]]

LEMMA SumRuns ==
    ASSUME NEW start, NEW widths, NEW n \in Nat
    PROVE  \E h : Adds(h, start, widths, n)
<1> DEFINE Stuck == {m \in Nat : ~(\E h : Adds(h, start, widths, m))}
<1>1. SUFFICES ASSUME Stuck # {} PROVE FALSE
  OBVIOUS
<1>2. PICK m \in Stuck : \A k \in Stuck : m <= k
  BY <1>1, LeastNatural
<1>3. CASE m = 0
  <2> DEFINE h == [i \in 0..0 |-> start]
  <2>1. Adds(h, start, widths, 0)
    BY DEF Adds
  <2> QED BY <1>3, <2>1
<1>4. CASE m # 0
  <2>1. m \in Nat /\ m - 1 \in Nat /\ ~(m <= m - 1)
    BY <1>4
  <2>2. m - 1 \notin Stuck
    BY <1>2, <2>1
  <2>3. PICK h : Adds(h, start, widths, m - 1)
    BY <2>1, <2>2
  <2> DEFINE Value(i) == IF i <= m - 1 THEN h[i] ELSE h[i - 1] + widths[i]
             g == [i \in 0..m |-> Value(i)]
  <2>4. ASSUME NEW i \in 0..m
        PROVE  Value(i) = IF i = 0 THEN start ELSE g[i - 1] + widths[i]
    <3>1. i # 0 => i - 1 \in 0..m /\ i - 1 <= m - 1
      BY <2>1
    <3>2. i # 0 => g[i - 1] = h[i - 1]
      BY <3>1
    <3>3. CASE i <= m - 1
      <4>1. i \in 0..(m - 1)
        BY <2>1, <3>3
      <4>2. h[i] = IF i = 0 THEN start ELSE h[i - 1] + widths[i]
        BY <2>3, <4>1 DEF Adds
      <4> QED BY <3>2, <3>3, <4>2
    <3>4. CASE ~(i <= m - 1)
      <4>1. i # 0
        BY <2>1, <3>4
      <4> QED BY <3>2, <3>4, <4>1
    <3> QED BY <3>3, <3>4
  <2>5. Adds(g, start, widths, m)
    <3> HIDE DEF Value
    <3>1. g = [i \in 0..m |-> IF i = 0 THEN start ELSE g[i - 1] + widths[i]]
      BY <2>4
    <3> QED BY <3>1 DEF Adds
  <2> QED BY <2>5
<1> QED BY <1>3, <1>4

LEMMA WidthsOf ==
    ASSUME NEW s, Scheduled(s)
    PROVE  /\ Len(s.widths) \in Nat
           /\ \A i \in 1..Len(s.widths) : s.widths[i] \in Nat \ {0}
           /\ s.start \in Int
           /\ Len(s.prices) \in Nat \ {0}
           /\ \A i \in 1..Len(s.prices) : s.prices[i].n \in Nat
           /\ s.widths # <<>> <=> Len(s.widths) >= 1
<1>1. s.widths \in Seq(Nat \ {0}) /\ s.prices \in Seq([kind : {"money"}, n : Nat, unit : STRING])
      /\ s.prices # <<>> /\ s.start \in Int
  BY DEF Scheduled, Sound
<1>2. Len(s.widths) \in Nat /\ \A i \in 1..Len(s.widths) : s.widths[i] \in Nat \ {0}
  BY <1>1, LenProperties, ElementOfSeq
<1>3. Len(s.prices) \in Nat \ {0}
  BY <1>1, EmptySeq
<1>4. \A i \in 1..Len(s.prices) : s.prices[i] \in [kind : {"money"}, n : Nat, unit : STRING]
  BY <1>1, ElementOfSeq
<1>5. s.widths # <<>> <=> Len(s.widths) >= 1
  BY <1>1, EmptySeq
<1> QED BY <1>1, <1>2, <1>3, <1>4, <1>5

\* Each boundary is a hold after the one before.
LEMMA BoundariesOf ==
    ASSUME NEW s, Scheduled(s)
    PROVE  /\ Boundaries(s)[0] = s.start
           /\ \A i \in 1..Len(s.widths) : Boundaries(s)[i] = Boundaries(s)[i - 1] + s.widths[i]
           /\ \A i \in 0..Len(s.widths) : Boundaries(s)[i] \in Int
<1> DEFINE n == Len(s.widths)
           b == CHOOSE h : h = [i \in 0..Len(s.widths) |->
                              IF i = 0 THEN s.start ELSE h[i - 1] + s.widths[i]]
<1>0. n \in Nat /\ s.start \in Int /\ \A i \in 1..n : s.widths[i] \in Nat
  BY WidthsOf
<1>1. \E h : h = [i \in 0..Len(s.widths) |->
                              IF i = 0 THEN s.start ELSE h[i - 1] + s.widths[i]]
  <2>1. \E h : Adds(h, s.start, s.widths, n)
    BY <1>0, SumRuns
  <2> QED BY <2>1 DEF Adds
<1>2. b = [i \in 0..n |-> IF i = 0 THEN s.start ELSE b[i - 1] + s.widths[i]]
  BY <1>1
<1>3. Boundaries(s) = b
  BY DEF Boundaries
<1> HIDE DEF b
<1>4. b[0] = s.start /\ \A i \in 1..n : b[i] = b[i - 1] + s.widths[i]
  <2>1. 0 \in 0..n /\ \A i \in 1..n : i \in 0..n /\ i # 0
    BY <1>0
  <2> QED BY <1>2, <2>1
<1> DEFINE Wrong == {i \in 0..n : b[i] \notin Int}
<1>5. ASSUME Wrong # {} PROVE FALSE
  <2>1. Wrong \in SUBSET Nat
    BY <1>0
  <2>2. PICK i \in Wrong : \A j \in Wrong : i <= j
    BY <1>5, <2>1, LeastNatural
  <2>3. i \in 0..n /\ b[i] \notin Int
    BY <2>2
  <2>4. i # 0
    BY <1>0, <1>4, <2>3
  <2>5. i \in 1..n /\ i - 1 \in 0..n /\ ~(i <= i - 1)
    BY <1>0, <2>3, <2>4
  <2>6. b[i - 1] \in Int
    BY <2>2, <2>5
  <2>7. b[i] = b[i - 1] + s.widths[i] /\ s.widths[i] \in Nat
    BY <1>0, <1>4, <2>5
  <2> QED BY <2>3, <2>6, <2>7
<1> QED BY <1>3, <1>4, <1>5

LEMMA BoundariesRise ==
    ASSUME NEW s, Scheduled(s), NEW i \in 0..Len(s.widths), NEW j \in 0..Len(s.widths)
    PROVE  /\ i <= j => Boundaries(s)[i] <= Boundaries(s)[j]
           /\ i < j => Boundaries(s)[i] < Boundaries(s)[j]
<1> DEFINE n == Len(s.widths)
           b == Boundaries(s)
           Wrong == {k \in 0..n : i < k /\ ~(b[i] < b[k])}
<1>0. n \in Nat /\ \A k \in 1..n : s.widths[k] \in Nat \ {0}
  BY WidthsOf
<1>1. (\A k \in 1..n : b[k] = b[k - 1] + s.widths[k]) /\ (\A k \in 0..n : b[k] \in Int)
  BY BoundariesOf
<1> HIDE DEF b
<1>2. ASSUME Wrong # {} PROVE FALSE
  <2>1. Wrong \in SUBSET Nat
    BY <1>0
  <2>2. PICK k \in Wrong : \A l \in Wrong : k <= l
    BY <1>2, <2>1, LeastNatural
  <2>3. k \in 0..n /\ i < k /\ ~(b[i] < b[k])
    BY <2>2
  <2>4. k \in 1..n /\ k - 1 \in 0..n /\ ~(k <= k - 1)
    BY <1>0, <2>3
  <2>5. i < k - 1 => b[i] < b[k - 1]
    BY <2>2, <2>4
  <2>6. i < k - 1 \/ i = k - 1
    BY <1>0, <2>3, <2>4
  <2>7. b[k] = b[k - 1] + s.widths[k] /\ s.widths[k] \in Nat \ {0}
    BY <1>0, <1>1, <2>4
  <2>8. b[k] \in Int /\ b[k - 1] \in Int /\ b[i] \in Int
    BY <1>1, <2>3, <2>4
  <2> QED BY <2>3, <2>5, <2>6, <2>7, <2>8
<1>3. i < j => b[i] < b[j]
  BY <1>2
<1>4. b[i] \in Int /\ b[j] \in Int /\ i \in Int /\ j \in Int
  BY <1>1
<1> QED BY <1>3, <1>4 DEF b
-----------------------------------------------------------------------------
(* The step in force. *)

\* The count at takes, of an instant within the lap.
StepAt(s, w) == Cardinality({i \in 1..Len(s.widths) : Boundaries(s)[i] <= w})

\* Step k is in force from its boundary to the next.
InForce(s, k, w) ==
    /\ k \in 0..Len(s.widths)
    /\ k >= 1 => Boundaries(s)[k] <= w
    /\ k < Len(s.widths) => w < Boundaries(s)[k + 1]

LEMMA TheStepInForce ==
    ASSUME NEW s, Scheduled(s), NEW w \in Int, NEW k, InForce(s, k, w)
    PROVE  StepAt(s, w) = k
<1> DEFINE n == Len(s.widths)
           b == Boundaries(s)
<1>0. n \in Nat /\ k \in 0..n /\ \A i \in 0..n : b[i] \in Int
  BY WidthsOf, BoundariesOf DEF InForce
<1>1. ASSUME NEW i \in 1..n PROVE b[i] <= w <=> i \in 1..k
  <2>1. i \in 0..n /\ i \in Int /\ b[i] \in Int
    BY <1>0
  <2>2. CASE i <= k
    <3>1. b[i] <= b[k] /\ b[k] \in Int /\ k >= 1
      BY <1>0, <2>1, <2>2, BoundariesRise
    <3>2. b[k] <= w
      BY <3>1 DEF InForce
    <3> QED BY <2>1, <2>2, <3>1, <3>2, <1>0
  <2>3. CASE ~(i <= k)
    <3>1. k + 1 \in 0..n /\ k + 1 <= i /\ k < n
      BY <1>0, <2>1, <2>3
    <3>2. b[k + 1] <= b[i] /\ b[k + 1] \in Int
      BY <1>0, <2>1, <3>1, BoundariesRise
    <3>3. w < b[k + 1]
      BY <3>1 DEF InForce
    <3> QED BY <2>1, <2>3, <3>2, <3>3, <1>0
  <2> QED BY <2>2, <2>3
<1>2. {i \in 1..n : b[i] <= w} = 1..k
  BY <1>0, <1>1
<1>3. Cardinality(1..k) = k
  <2>1. Cardinality(1..k) = IF 1 > k THEN 0 ELSE k - 1 + 1
    BY <1>0, FS_Interval
  <2> QED BY <1>0, <2>1
<1> QED BY <1>2, <1>3 DEF StepAt

LEMMA SomeStepIsInForce ==
    ASSUME NEW s, Scheduled(s), NEW w \in Int
    PROVE  InForce(s, StepAt(s, w), w)
<1> DEFINE n == Len(s.widths)
           b == Boundaries(s)
           Later == {i \in 1..n : w < b[i]}
<1>0. n \in Nat /\ \A i \in 0..n : b[i] \in Int
  BY WidthsOf, BoundariesOf
<1>1. \E k : InForce(s, k, w)
  <2>1. CASE Later = {}
    <3>1. n >= 1 => b[n] <= w
      <4>1. n >= 1 => n \in 1..n /\ b[n] \in Int
        BY <1>0
      <4> QED BY <2>1, <4>1
    <3>2. InForce(s, n, w)
      BY <1>0, <3>1 DEF InForce
    <3> QED BY <3>2
  <2>2. CASE Later # {}
    <3>1. Later \in SUBSET Nat
      BY <1>0
    <3>2. PICK i \in Later : \A j \in Later : i <= j
      BY <2>2, <3>1, LeastNatural
    <3>3. i \in 1..n /\ w < b[i] /\ i - 1 \in 0..n /\ i - 1 < n /\ (i - 1) + 1 = i
      BY <1>0, <3>2
    <3>4. i - 1 >= 1 => b[i - 1] <= w
      <4>1. i - 1 >= 1 => i - 1 \in 1..n /\ ~(i <= i - 1) /\ b[i - 1] \in Int
        BY <1>0, <3>3
      <4> QED BY <3>2, <4>1
    <3>5. InForce(s, i - 1, w)
      BY <3>3, <3>4 DEF InForce
    <3> QED BY <3>5
  <2> QED BY <2>1, <2>2
<1>2. PICK k : InForce(s, k, w)
  BY <1>1
<1> QED BY <1>2, TheStepInForce

LEMMA ShortestHoldOf ==
    ASSUME NEW s, Scheduled(s), s.widths # <<>>
    PROVE  /\ ShortestHold(s) \in Nat \ {0}
           /\ \A i \in 1..Len(s.widths) : ShortestHold(s) <= s.widths[i]
<1> DEFINE R == Range(s.widths)
<1>1. /\ Len(s.widths) \in Nat /\ Len(s.widths) >= 1
      /\ \A i \in 1..Len(s.widths) : s.widths[i] \in Nat \ {0}
  BY WidthsOf
<1>2. DOMAIN s.widths = 1..Len(s.widths)
  BY LenProperties DEF Scheduled
<1>3. R \in SUBSET (Nat \ {0}) /\ (\A i \in 1..Len(s.widths) : s.widths[i] \in R) /\ R # {}
  <2>1. R = {s.widths[i] : i \in 1..Len(s.widths)}
    BY <1>2 DEF Range
  <2> HIDE DEF R
  <2>2. R \in SUBSET (Nat \ {0}) /\ \A i \in 1..Len(s.widths) : s.widths[i] \in R
    BY <1>1, <2>1
  <2>3. 1 \in 1..Len(s.widths)
    BY <1>1
  <2> QED BY <2>2, <2>3
<1>4. PICK x \in R : \A y \in R : x <= y
  <2> HIDE DEF R
  <2>1. R \in SUBSET Nat
    BY <1>3
  <2> QED BY <1>3, <2>1, LeastNatural
<1>5. ShortestHold(s) \in R /\ \A y \in R : ShortestHold(s) <= y
  <2>1. ShortestHold(s) = CHOOSE z \in R : \A y \in R : z =< y
    BY DEF ShortestHold, Min
  <2> HIDE DEF R
  <2> QED BY <1>4, <2>1
<1> QED BY <1>3, <1>5

\* No step lies whole within the shortest hold.
LEMMA OneStepAtMost ==
    ASSUME NEW s, Scheduled(s), s.widths # <<>>, NEW w \in Int, NEW d \in 0..ShortestHold(s)
    PROVE  StepAt(s, w + d) \in {StepAt(s, w), StepAt(s, w) + 1}
<1> DEFINE n == Len(s.widths)
           b == Boundaries(s)
           k == StepAt(s, w)
           l == StepAt(s, w + d)
<1>0. /\ n \in Nat /\ (\A i \in 0..n : b[i] \in Int)
      /\ (\A i \in 1..n : b[i] = b[i - 1] + s.widths[i] /\ s.widths[i] \in Nat \ {0})
      /\ ShortestHold(s) \in Nat /\ (\A i \in 1..n : ShortestHold(s) <= s.widths[i])
      /\ d \in Nat /\ d <= ShortestHold(s) /\ w + d \in Int
  BY WidthsOf, BoundariesOf, ShortestHoldOf
<1>1. InForce(s, k, w) /\ InForce(s, l, w + d)
  BY <1>0, SomeStepIsInForce
<1>2. /\ k \in 0..n /\ l \in 0..n
      /\ k >= 1 => b[k] <= w
      /\ k < n => w < b[k + 1]
      /\ l >= 1 => b[l] <= w + d
      /\ l < n => w + d < b[l + 1]
  BY <1>1 DEF InForce
<1> HIDE DEF k, l
<1>3. ~(l < k)
  <2> SUFFICES ASSUME l < k PROVE FALSE
    OBVIOUS
  <2>1. l + 1 \in 0..n /\ l + 1 <= k /\ l < n /\ k >= 1
    BY <1>0, <1>2
  <2>2. b[l + 1] <= b[k]
    BY <1>2, <2>1, BoundariesRise
  <2>3. b[l + 1] \in Int /\ b[k] \in Int
    BY <1>0, <1>2, <2>1
  <2> QED BY <1>0, <1>2, <2>1, <2>2, <2>3
<1>4. ~(l >= k + 2)
  <2> SUFFICES ASSUME l >= k + 2 PROVE FALSE
    OBVIOUS
  <2>1. k + 2 \in 1..n /\ k + 2 \in 0..n /\ k + 1 \in 0..n /\ (k + 2) - 1 = k + 1 /\ k < n /\ l >= 1
    BY <1>0, <1>2
  <2>2. b[k + 2] <= b[l]
    BY <1>2, <2>1, BoundariesRise
  <2>3. b[k + 2] = b[k + 1] + s.widths[k + 2] /\ ShortestHold(s) <= s.widths[k + 2]
        /\ s.widths[k + 2] \in Nat
    BY <1>0, <2>1
  <2> HIDE DEF b
  <2>4. b[k + 2] \in Int /\ b[k + 1] \in Int /\ b[l] \in Int
    BY <1>0, <1>2, <2>1
  <2>5. w < b[k + 1] /\ b[l] <= w + d /\ d \in Nat
    BY <1>0, <1>2, <2>1
  <2>6. d <= s.widths[k + 2]
    BY <1>0, <2>3
  <2>7. w + d < b[k + 2]
    BY <2>3, <2>4, <2>5, <2>6
  <2> QED BY <2>2, <2>4, <2>5, <2>7
<1>5. k \in Int /\ l \in Int
  BY <1>2
<1> QED BY <1>3, <1>4, <1>5 DEF k, l
-----------------------------------------------------------------------------
(* Laps. *)

LEMMA LaterInTheLap ==
    ASSUME NEW a \in Nat, NEW d \in Nat, NEW lap \in Nat \ {0}, d < lap
    PROVE  /\ a % lap \in 0..(lap - 1)
           /\ (a + d) % lap = IF (a % lap) + d < lap THEN (a % lap) + d ELSE (a % lap) + d - lap
<1> DEFINE p == a \div lap
           q == (a + d) \div lap
           x == a % lap
           y == (a + d) % lap
<1>1. a = lap * p + x /\ a + d = lap * q + y
  OBVIOUS
<1>2. y \in 0..(lap - 1) /\ x \in 0..(lap - 1) /\ p \in Nat /\ q \in Nat
  OBVIOUS
<1> HIDE DEF p, q, x, y
<1>3. lap * (q - p) = lap * q - lap * p
  BY <1>2
<1>4. q - p \in {0, 1}
  <2>1. CASE q - p >= 2
    <3>1. lap * (q - p) >= lap * 2
      BY <1>2, <2>1
    <3> QED BY <1>1, <1>2, <1>3, <3>1
  <2>2. CASE q - p <= -1
    <3>1. lap * (q - p) <= -lap
      BY <1>2, <2>2
    <3> QED BY <1>1, <1>2, <1>3, <3>1
  <2> QED BY <1>2, <2>1, <2>2
<1>5. y + lap * (q - p) = x + d
  BY <1>1, <1>2, <1>3
<1>6. y = x + d \/ y = x + d - lap
  BY <1>2, <1>4, <1>5
<1> QED BY <1>2, <1>6 DEF x, y

\* A lap has a hold for every price, and there are two at least.
LEMMA LapOf ==
    ASSUME NEW s, Scheduled(s), s.cyclic
    PROVE  /\ s.widths # <<>>
           /\ Len(s.widths) = Len(s.prices) /\ Len(s.widths) >= 2
           /\ Lap(s) \in Nat \ {0}
           /\ Boundaries(s)[Len(s.widths)] = s.start + Lap(s)
           /\ ShortestHold(s) < Lap(s)
<1> DEFINE n == Len(s.widths)
           b == Boundaries(s)
<1>1. s.widths # <<>> /\ n \in Nat /\ n >= 1 /\ Len(s.prices) \in Nat
  BY WidthsOf DEF Scheduled
<1>2. n = Len(s.prices) /\ n >= 2
  BY <1>1 DEF Scheduled, cyclicTransitions
<1>3. n \in 0..n /\ n \in 1..n /\ 0 \in 0..n /\ n - 1 \in 0..n /\ 0 < n - 1
  BY <1>1, <1>2
<1>4. b[0] = s.start /\ b[n] = b[n - 1] + s.widths[n] /\ s.widths[n] \in Nat \ {0}
      /\ b[n] \in Int /\ b[n - 1] \in Int /\ s.start \in Int
  BY <1>3, BoundariesOf, WidthsOf
<1>5. b[0] < b[n - 1]
  BY <1>3, BoundariesRise
<1>6. ShortestHold(s) <= s.widths[n] /\ ShortestHold(s) \in Nat
  BY <1>1, <1>3, ShortestHoldOf
<1>7. Lap(s) = b[n] - s.start
  BY DEF Lap
<1> HIDE DEF b, n
<1>8. Lap(s) \in Int /\ Lap(s) > s.widths[n] /\ b[n] = s.start + Lap(s)
  BY <1>4, <1>5, <1>7
<1>9. Lap(s) \in Nat \ {0} /\ ShortestHold(s) < Lap(s)
  BY <1>4, <1>6, <1>8
<1> QED BY <1>1, <1>2, <1>8, <1>9 DEF b, n

\* Where in the lap an instant falls.
Place(s, t) ==
    IF s.cyclic THEN s.start + (Max({t - s.start, 0}) % Lap(s)) ELSE t

Elapsed(s, t) == IF t - s.start <= 0 THEN 0 ELSE t - s.start

LEMMA PlaceOf ==
    ASSUME NEW s, Scheduled(s), s.cyclic, NEW t \in Int
    PROVE  /\ Elapsed(s, t) \in Nat
           /\ Place(s, t) = s.start + (Elapsed(s, t) % Lap(s))
           /\ Place(s, t) \in s.start..(s.start + Lap(s) - 1)
<1>1. s.start \in Int /\ Lap(s) \in Nat \ {0}
  BY WidthsOf, LapOf
<1>2. Elapsed(s, t) \in Nat
  BY <1>1 DEF Elapsed
<1>3. Max({t - s.start, 0}) = Elapsed(s, t)
  <2>1. t - s.start \in Int /\ {t - s.start, 0} = {0, t - s.start}
    BY <1>1
  <2> QED BY <2>1, MaxWithZero DEF Elapsed
<1>4. Elapsed(s, t) % Lap(s) \in 0..(Lap(s) - 1)
  BY <1>1, <1>2
<1>5. Place(s, t) = s.start + (Elapsed(s, t) % Lap(s))
  BY <1>3 DEF Place
<1> QED BY <1>1, <1>2, <1>4, <1>5

\* at is the step in force at the instant's place.
LEMMA WhatAtSays ==
    ASSUME NEW s, Scheduled(s), NEW t \in Int
    PROVE  /\ Place(s, t) \in Int
           /\ at(s, t).step = StepAt(s, Place(s, t))
           /\ at(s, t).price = s.prices[at(s, t).step + 1]
           /\ at(s, t).final <=> at(s, t).step = Len(s.prices) - 1 /\ ~s.cyclic
           /\ at(s, t).step + 1 \in 1..Len(s.prices)
<1>1. Place(s, t) \in Int
  <2>1. CASE s.cyclic
    <3>1. s.start \in Int /\ Lap(s) \in Nat
      BY <2>1, WidthsOf, LapOf
    <3> QED BY <2>1, <3>1, PlaceOf
  <2>2. CASE ~s.cyclic
    BY <2>2 DEF Place
  <2> QED BY <2>1, <2>2
<1>2. at(s, t).step = StepAt(s, Place(s, t))
  BY DEF at, StepAt, Place
<1>3. at(s, t).price = s.prices[at(s, t).step + 1]
  BY DEF at
<1>4. at(s, t).final <=> at(s, t).step = Len(s.prices) - 1 /\ ~s.cyclic
  BY DEF at
<1>5. InForce(s, at(s, t).step, Place(s, t))
  BY <1>1, <1>2, SomeStepIsInForce
<1>6. at(s, t).step + 1 \in 1..Len(s.prices)
  <2>1. Len(s.widths) \in Nat /\ Len(s.prices) \in Nat \ {0} /\ at(s, t).step \in 0..Len(s.widths)
    BY <1>5, WidthsOf DEF InForce
  <2>2. CASE s.cyclic
    <3>1. /\ Len(s.widths) = Len(s.prices) /\ Len(s.widths) >= 2
          /\ Boundaries(s)[Len(s.widths)] = s.start + Lap(s)
          /\ Place(s, t) \in s.start..(s.start + Lap(s) - 1)
          /\ s.start \in Int /\ Lap(s) \in Nat
      BY <2>2, LapOf, PlaceOf, WidthsOf
    <3>2. at(s, t).step # Len(s.widths)
      <4> SUFFICES ASSUME at(s, t).step = Len(s.widths) PROVE FALSE
        OBVIOUS
      <4>1. Boundaries(s)[Len(s.widths)] <= Place(s, t)
        BY <1>5, <3>1 DEF InForce
      <4> QED BY <3>1, <4>1
    <3> QED BY <2>1, <3>1, <3>2
  <2>3. CASE ~s.cyclic
    <3>1. Len(s.widths) = numTransitions(Len(s.prices))
      BY <2>3 DEF Scheduled
    <3> QED BY <2>1, <3>1 DEF numTransitions
  <2> QED BY <2>2, <2>3 DEF Scheduled
<1> QED BY <1>1, <1>2, <1>3, <1>4, <1>6

LEMMA AtTheWrap ==
    ASSUME NEW start \in Int, NEW lap \in Int, NEW w \in Int, NEW e \in Int,
           NEW first \in Int, NEW last \in Int, NEW before \in Int,
           w < start + lap, w + e - lap >= start, e <= first, e <= last,
           start + lap = before + last
    PROVE  w + e - lap < start + first /\ before <= w
OBVIOUS

\* The last step of a lap goes over into the first.
LEMMA OverTheWrap ==
    ASSUME NEW s, Scheduled(s), s.cyclic, NEW w \in Int, NEW e \in 0..ShortestHold(s),
           w \in s.start..(s.start + Lap(s) - 1), w + e - Lap(s) >= s.start
    PROVE  StepAt(s, w) = Len(s.prices) - 1 /\ StepAt(s, w + e - Lap(s)) = 0
<1> DEFINE n == Len(s.widths)
           b == Boundaries(s)
           later == w + e - Lap(s)
<1>0. /\ n = Len(s.prices) /\ n \in Nat /\ n >= 2 /\ s.widths # <<>>
      /\ Lap(s) \in Nat \ {0} /\ b[n] = s.start + Lap(s) /\ s.start \in Int
  BY LapOf, WidthsOf
<1>1. 1 \in 1..n /\ n \in 1..n /\ 1 - 1 = 0 /\ n - 1 \in 0..n /\ 0 \in 0..n
  BY <1>0
<1>2. /\ b[0] = s.start /\ b[1] = b[0] + s.widths[1] /\ b[n] = b[n - 1] + s.widths[n]
      /\ s.widths[1] \in Nat /\ s.widths[n] \in Nat /\ b[n - 1] \in Int
  BY <1>1, BoundariesOf, WidthsOf
<1>3. ShortestHold(s) \in Nat /\ ShortestHold(s) <= s.widths[1] /\ ShortestHold(s) <= s.widths[n]
  BY <1>0, <1>1, ShortestHoldOf
<1> HIDE DEF b
<1> HIDE DEF n
<1>4. e \in Nat /\ e <= s.widths[1] /\ e <= s.widths[n] /\ later \in Int
  <2>1. e \in Nat /\ e <= ShortestHold(s)
    BY <1>3
  <2>2. e <= s.widths[1]
    BY <1>2, <1>3, <2>1
  <2>3. e <= s.widths[n]
    BY <1>2, <1>3, <2>1
  <2> QED BY <1>0, <2>1, <2>2, <2>3
<1>below. w < s.start + Lap(s) /\ w - s.start \in Int
  BY <1>0
<1>5. later < s.start + s.widths[1] /\ b[n - 1] <= w
  <2>1. /\ s.start \in Int /\ Lap(s) \in Int /\ e \in Int /\ s.widths[1] \in Int
        /\ s.widths[n] \in Int /\ b[n - 1] \in Int
    BY <1>0, <1>2, <1>4
  <2>2. s.start + Lap(s) = b[n - 1] + s.widths[n]
    BY <1>0, <1>2
  <2> QED BY <1>4, <1>below, <2>1, <2>2, AtTheWrap
<1>6. later < b[1] /\ b[n - 1] <= w /\ w < b[n]
  BY <1>0, <1>2, <1>5, <1>below
<1>7. InForce(s, 0, later)
  BY <1>0, <1>1, <1>6 DEF InForce, b, n
<1>8. InForce(s, n - 1, w)
  <2>1. n - 1 < n /\ (n - 1) + 1 = n
    BY <1>0
  <2> QED BY <1>1, <1>6, <2>1 DEF InForce, b, n
<1> QED BY <1>0, <1>4, <1>7, <1>8, TheStepInForce

LEMMA Associative ==
    ASSUME NEW a \in Int, NEW b \in Int, NEW c \in Int, NEW d \in Int
    PROVE  a + (b + c) = (a + b) + c /\ a + (b + c - d) = (a + b) + c - d
OBVIOUS

\* From one poll to the next.
LEMMA PollSeesTheNextStep ==
    ASSUME NEW s, Scheduled(s), s.widths # <<>>, NEW t \in Int, NEW d \in 0..ShortestHold(s)
    PROVE  \/ at(s, t + d).step \in {at(s, t).step, at(s, t).step + 1}
           \/ s.cyclic /\ at(s, t).step = Len(s.prices) - 1 /\ at(s, t + d).step = 0
<1>1. d \in Nat /\ t + d \in Int
  BY ShortestHoldOf
<1>2. /\ at(s, t).step = StepAt(s, Place(s, t))
      /\ at(s, t + d).step = StepAt(s, Place(s, t + d))
      /\ Place(s, t) \in Int
  BY <1>1, WhatAtSays
<1>3. CASE ~s.cyclic
  <2>1. Place(s, t) = t /\ Place(s, t + d) = t + d
    BY <1>3 DEF Place
  <2> QED BY <1>2, <2>1, OneStepAtMost
<1>4. CASE s.cyclic
  <2> DEFINE a == Elapsed(s, t)
             e == Elapsed(s, t + d) - Elapsed(s, t)
             r == a % Lap(s)
  <2>1. s.start \in Int /\ Lap(s) \in Nat \ {0} /\ ShortestHold(s) \in Nat /\ ShortestHold(s) < Lap(s)
    BY <1>4, LapOf, WidthsOf, ShortestHoldOf
  <2>2. /\ a \in Nat
        /\ Place(s, t) = s.start + r
        /\ Place(s, t) \in s.start..(s.start + Lap(s) - 1)
        /\ Place(s, t + d) = s.start + (Elapsed(s, t + d) % Lap(s))
        /\ Place(s, t + d) \in s.start..(s.start + Lap(s) - 1)
        /\ Elapsed(s, t + d) \in Nat
    BY <1>1, <1>4, PlaceOf
  <2>3. e \in 0..d /\ Elapsed(s, t + d) = a + e
    BY <1>1, <2>1 DEF Elapsed
  <2> HIDE DEF a, e
  <2>4. e \in Nat /\ e < Lap(s) /\ e \in 0..ShortestHold(s)
    BY <1>1, <2>1, <2>3
  <2>5. /\ r \in 0..(Lap(s) - 1)
        /\ (a + e) % Lap(s) = IF r + e < Lap(s) THEN r + e ELSE r + e - Lap(s)
    BY <2>1, <2>2, <2>4, LaterInTheLap
  <2> HIDE DEF r
  <2>6. CASE r + e < Lap(s)
    <3>1. Place(s, t + d) = s.start + (r + e)
      BY <2>2, <2>3, <2>5, <2>6
    <3>2. Place(s, t + d) = Place(s, t) + e
      <4>1. s.start \in Int /\ r \in Int /\ e \in Int
        BY <2>1, <2>4, <2>5
      <4> QED BY <2>2, <3>1, <4>1, Associative
    <3> QED BY <1>2, <2>4, <3>2, OneStepAtMost
  <2>7. CASE ~(r + e < Lap(s))
    <3>3. Place(s, t + d) = s.start + (r + e - Lap(s))
      BY <2>2, <2>3, <2>5, <2>7
    <3>1. Place(s, t + d) = Place(s, t) + e - Lap(s)
      <4>1. s.start \in Int /\ r \in Int /\ e \in Int /\ Lap(s) \in Int
        BY <2>1, <2>4, <2>5
      <4> QED BY <2>2, <3>3, <4>1, Associative
    <3>2. Place(s, t) + e - Lap(s) >= s.start
      BY <2>1, <2>2, <3>1
    <3> QED BY <1>2, <1>4, <2>2, <2>4, <3>1, <3>2, OverTheWrap
  <2> QED BY <2>6, <2>7
<1> QED BY <1>3, <1>4

\* After the last boundary of one that does not go round there is none.
LEMMA FinalIsFinal ==
    ASSUME NEW s, Scheduled(s), NEW t \in Int, at(s, t).final, NEW later \in Int, later >= t
    PROVE  at(s, later).step = at(s, t).step
<1>1. /\ ~s.cyclic /\ at(s, t).step = Len(s.prices) - 1
      /\ at(s, t).step = StepAt(s, Place(s, t)) /\ at(s, later).step = StepAt(s, Place(s, later))
  BY WhatAtSays
<1>2. Place(s, t) = t /\ Place(s, later) = later
  BY <1>1 DEF Place
<1>3. Len(s.prices) \in Nat \ {0} /\ Len(s.widths) = Len(s.prices) - 1
  BY <1>1, WidthsOf DEF Scheduled, numTransitions
<1>4. InForce(s, Len(s.widths), t)
  BY <1>1, <1>2, <1>3, SomeStepIsInForce
<1>5. Boundaries(s)[Len(s.widths)] \in Int
  BY <1>3, BoundariesOf
<1>6. InForce(s, Len(s.widths), later)
  BY <1>3, <1>4, <1>5 DEF InForce
<1> QED BY <1>1, <1>2, <1>3, <1>6, TheStepInForce

LEMMA FloorOf ==
    ASSUME NEW s, Scheduled(s)
    PROVE  \E i \in 1..Len(s.prices) :
              /\ Floor(s) = s.prices[i]
              /\ \A j \in 1..Len(s.prices) : s.prices[i].n <= s.prices[j].n
<1> DEFINE N == 1..Len(s.prices)
           amounts == {s.prices[i].n : i \in N}
<1>1. Len(s.prices) \in Nat \ {0} /\ (\A i \in N : s.prices[i].n \in Nat) /\ DOMAIN s.prices = N
  BY WidthsOf, LenProperties DEF Scheduled
<1>2. amounts \in SUBSET Nat /\ amounts # {}
  <2>1. 1 \in N
    BY <1>1
  <2> QED BY <1>1, <2>1
<1>3. PICK m \in amounts : \A x \in amounts : m <= x
  <2> HIDE DEF amounts
  <2> QED BY <1>2, LeastNatural
<1> DEFINE cheapest == {i \in N : s.prices[i].n = m}
<1>4. cheapest \in SUBSET Nat /\ cheapest # {}
  BY <1>1, <1>3
<1>5. PICK i \in cheapest : \A j \in cheapest : i <= j
  <2> HIDE DEF cheapest
  <2> QED BY <1>4, LeastNatural
<1>6. i \in N /\ \A j \in N : s.prices[i].n <= s.prices[j].n
  BY <1>3, <1>5
<1>7. \A j \in 1..(i - 1) : s.prices[j].n > s.prices[i].n
  <2> TAKE j \in 1..(i - 1)
  <2>1. j \in N /\ ~(i <= j)
    BY <1>1, <1>6
  <2>2. s.prices[j].n # m /\ m <= s.prices[j].n /\ s.prices[i].n = m
    BY <1>3, <1>5, <2>1
  <2>3. s.prices[j].n \in Nat /\ m \in Nat
    BY <1>1, <1>2, <2>1
  <2> QED BY <2>2, <2>3
<1> DEFINE Lowest(k) == /\ \A j \in N : s.prices[k].n <= s.prices[j].n
                        /\ \A j \in 1..(k - 1) : s.prices[j].n > s.prices[k].n
           lowest == CHOOSE k \in N : Lowest(k)
<1>8. Floor(s) = s.prices[lowest]
  BY <1>1 DEF Floor
<1>9. \E k \in N : Lowest(k)
  BY <1>6, <1>7
<1> HIDE DEF Lowest
<1>10. lowest \in N /\ Lowest(lowest)
  BY <1>9
<1> QED BY <1>8, <1>10 DEF Lowest

\* One lap comes to every price.
LEMMA LapComesToThePrice ==
    ASSUME NEW s, Scheduled(s), s.cyclic, NEW t \in Int, t >= s.start,
           NEW i \in 1..Len(s.prices)
    PROVE  \E d \in 0..(Lap(s) - 1) : at(s, t + d).price = s.prices[i]
<1> DEFINE n == Len(s.widths)
           b == Boundaries(s)
           a == t - s.start
           r == a % Lap(s)
           x == b[i - 1] - s.start
           d == IF x >= r THEN x - r ELSE x - r + Lap(s)
<1>0. /\ n = Len(s.prices) /\ n \in Nat /\ n >= 2
      /\ Lap(s) \in Nat \ {0} /\ b[n] = s.start + Lap(s) /\ s.start \in Int
  BY LapOf, WidthsOf
<1>1. i \in 1..n /\ i - 1 \in 0..n /\ n \in 0..n /\ 0 \in 0..n /\ i \in 0..n /\ i - 1 < n /\ 0 <= i - 1
      /\ i - 1 < i /\ (i - 1) + 1 = i
  BY <1>0
<1>2. b[0] = s.start /\ b[i - 1] \in Int /\ b[0] <= b[i - 1] /\ b[i - 1] < b[n] /\ b[i - 1] < b[i]
  BY <1>1, BoundariesOf, BoundariesRise
<1>3. a \in Nat /\ r \in 0..(Lap(s) - 1)
  BY <1>0
<1> HIDE DEF b, r
<1>4. x \in 0..(Lap(s) - 1)
  BY <1>0, <1>2
<1> HIDE DEF x
<1>5. d \in 0..(Lap(s) - 1) /\ d \in Nat /\ d < Lap(s)
  BY <1>0, <1>3, <1>4
<1>6. (a + d) % Lap(s) = IF r + d < Lap(s) THEN r + d ELSE r + d - Lap(s)
  <2> HIDE DEF d, a
  <2> QED BY <1>0, <1>3, <1>5, LaterInTheLap DEF r
<1>7. (a + d) % Lap(s) = x
  <2> HIDE DEF a
  <2>1. CASE x >= r
    <3>1. r + d = x
      BY <1>0, <1>3, <1>4, <2>1
    <3> QED BY <1>0, <1>4, <1>6, <3>1
  <2>2. CASE ~(x >= r)
    <3>1. r + d = x + Lap(s)
      BY <1>0, <1>3, <1>4, <2>2
    <3>2. ~(r + d < Lap(s)) /\ r + d - Lap(s) = x
      <4> HIDE DEF d
      <4> QED BY <1>0, <1>3, <1>4, <1>5, <3>1
    <3> QED BY <1>6, <3>2
  <2> QED BY <2>1, <2>2
<1>8. t + d \in Int /\ Elapsed(s, t + d) = a + d
  <2> HIDE DEF d
  <2> QED BY <1>0, <1>3, <1>5 DEF Elapsed
<1> HIDE DEF d, a
<1>9. Place(s, t + d) = b[i - 1]
  <2>1. Place(s, t + d) = s.start + x
    BY <1>7, <1>8, PlaceOf
  <2> QED BY <1>0, <1>2, <2>1 DEF x
<1>10. InForce(s, i - 1, b[i - 1])
  BY <1>1, <1>2 DEF InForce, b
<1>11. at(s, t + d).step = i - 1 /\ at(s, t + d).price = s.prices[i]
  <2>1. StepAt(s, Place(s, t + d)) = i - 1
    BY <1>2, <1>9, <1>10, TheStepInForce
  <2>2. /\ at(s, t + d).step = StepAt(s, Place(s, t + d))
        /\ at(s, t + d).price = s.prices[at(s, t + d).step + 1]
    BY <1>8, WhatAtSays
  <2> QED BY <1>1, <2>1, <2>2
<1> QED BY <1>5, <1>11

\* Of every offer, whatever its prices and however long they hold, a watch that
\* polls no further apart than the shortest hold sees every price
\* (inventory.go: at, over the boundaries buildSchedule lays out).
THEOREM EveryPriceIsSeen == Spec => []NoPriceSkipped
<1>1. ReadingsInv => NoPriceSkipped
  <2> SUFFICES ASSUME ReadingsInv, NEW i \in DOMAIN Offers, NEW t \in now..Horizon,
                      Offers[i].schedule.widths # <<>>
               PROVE  LET s == Offers[i].schedule
                          here == at(s, t)
                      IN  /\ \A d \in 0..ShortestHold(s) :
                                LET there == at(s, t + d)
                                IN  \/ there.step \in {here.step, here.step + 1}
                                    \/ s.cyclic /\ here.step = Len(s.prices) - 1 /\ there.step = 0
                          /\ here.final => \A later \in t..Horizon : at(s, later).step = here.step
                          /\ here.price.n >= Floor(s).n
                          /\ s.cyclic /\ t >= s.start =>
                                \E d \in 0..(Lap(s) - 1) : at(s, t + d).price = Floor(s)
    BY DEF NoPriceSkipped
  <2> DEFINE s == Offers[i].schedule
  <2>1. Scheduled(s)
    BY OffersAssumption
  <2>2. t \in Int /\ Horizon \in Int
    BY ConsoleAssumption DEF ReadingsInv, Horizon
  <2> HIDE DEF s
  <2>3. \A d \in 0..ShortestHold(s) :
           \/ at(s, t + d).step \in {at(s, t).step, at(s, t).step + 1}
           \/ s.cyclic /\ at(s, t).step = Len(s.prices) - 1 /\ at(s, t + d).step = 0
    BY <2>1, <2>2, PollSeesTheNextStep DEF s
  <2>4. at(s, t).final => \A later \in t..Horizon : at(s, later).step = at(s, t).step
    BY <2>1, <2>2, FinalIsFinal
  <2>5. PICK j \in 1..Len(s.prices) :
              /\ Floor(s) = s.prices[j]
              /\ \A k \in 1..Len(s.prices) : s.prices[j].n <= s.prices[k].n
    BY <2>1, FloorOf
  <2>6. at(s, t).price.n >= Floor(s).n
    <3>1. at(s, t).price = s.prices[at(s, t).step + 1] /\ at(s, t).step + 1 \in 1..Len(s.prices)
      BY <2>1, <2>2, WhatAtSays
    <3>2. s.prices[at(s, t).step + 1].n \in Nat /\ s.prices[j].n \in Nat
      BY <2>1, <2>5, <3>1, WidthsOf
    <3> QED BY <2>5, <3>1, <3>2
  <2>7. s.cyclic /\ t >= s.start => \E d \in 0..(Lap(s) - 1) : at(s, t + d).price = Floor(s)
    BY <2>1, <2>2, <2>5, LapComesToThePrice
  <2> QED BY <2>3, <2>4, <2>6, <2>7 DEF s
<1>2. ReadingsInv /\ [Next]_vars => ReadingsInv'
  BY ReadingsInvNext
<1> QED BY ReadingsInvInit, <1>1, <1>2, PTL DEF Spec
=============================================================================
