-------------------------- MODULE Constraint_proofs --------------------------
(***************************************************************************)
(* That the language of limits means what its definition says of every     *)
(* expression, and that a catalogue is never asked for more than the       *)
(* limits say, whatever the attributes an offer may state.                 *)
(***************************************************************************)
EXTENDS Constraint, FiniteSetTheorems, SequenceTheorems, WellFoundedInduction, TLAPS

(* A non-empty set of naturals has a least element. *)

Below == {pair \in Nat \X Nat : pair[1] < pair[2]}

LEMMA LeastOf ==
    ASSUME NEW T \in SUBSET Nat, T # {}
    PROVE  \E x \in T : \A y \in T : x <= y
<1>1. IsWellFoundedOn(Below, Nat)
  BY NatLessThanWellFounded DEF OpToRel, Below
<1>2. PICK x \in T : \A y \in T : <<y, x>> \notin Below
  BY <1>1, WFMin
<1>3. ASSUME NEW y \in T PROVE x <= y
  <2>1. x \in Nat /\ y \in Nat
    OBVIOUS
  <2>2. ~(y < x)
    BY <1>2, <2>1 DEF Below
  <2> QED BY <2>1, <2>2
<1> QED BY <1>3
-----------------------------------------------------------------------------
(* Expressions.  What is computed of one is computed of its parts first. *)

Height == MaxDepth + 2

Level(S) ==
    [op : STRING, field : STRING, shape : STRING, values : Seq(Literal), of : Seq(S)]

Grows(t, n) == t = [i \in 0..n |-> IF i = 0 THEN {} ELSE Level(t[i - 1])]

LEMMA HeightIsNat == Height \in Nat \ {0}
BY DEF Height, MaxDepth

LEMMA TreesGrow ==
    ASSUME NEW n \in Nat
    PROVE  \E t : Grows(t, n)
<1> DEFINE Stuck == {m \in Nat : ~(\E t : Grows(t, m))}
<1>1. SUFFICES ASSUME Stuck # {} PROVE FALSE
  OBVIOUS
<1>2. PICK m \in Stuck : \A k \in Stuck : m <= k
  BY <1>1, LeastOf
<1>3. CASE m = 0
  <2> DEFINE t == [i \in 0..0 |-> {}]
  <2>1. Grows(t, 0)
    BY DEF Grows
  <2> QED BY <1>3, <2>1
<1>4. CASE m # 0
  <2>1. m \in Nat /\ m - 1 \in Nat /\ ~(m <= m - 1)
    BY <1>4
  <2>2. PICK t : Grows(t, m - 1)
    BY <1>2, <2>1
  <2> DEFINE New(i) == IF i = 0 THEN {} ELSE Level(t[i - 1])
             g == [i \in 0..m |-> New(i)]
  <2>3. \A i \in 0..(m - 1) : t[i] = New(i)
    BY <2>2 DEF Grows
  <2>4. \A i \in 0..(m - 1) : g[i] = t[i]
    <3> HIDE DEF New
    <3> QED BY <2>1, <2>3
  <2>5. \A i \in 0..m : New(i) = IF i = 0 THEN {} ELSE Level(g[i - 1])
    <3>1. \A i \in 0..m : i # 0 => i - 1 \in 0..(m - 1)
      BY <2>1
    <3> HIDE DEF g
    <3> QED BY <2>4, <3>1
  <2>6. Grows(g, m)
    <3> HIDE DEF New
    <3>1. g = [i \in 0..m |-> IF i = 0 THEN {} ELSE Level(g[i - 1])]
      BY <2>5
    <3> QED BY <3>1 DEF Grows
  <2> QED BY <2>1, <2>6
<1> QED BY <1>3, <1>4

LEMMA TreesAre ==
    /\ Trees[0] = {}
    /\ \A n \in 1..Height : Trees[n] = Level(Trees[n - 1])
<1>1. \E t : Grows(t, Height)
  BY TreesGrow, HeightIsNat
<1>2. Grows(Trees, Height)
  BY <1>1 DEF Grows, Trees, Height, Level
<1>3. 0 \in 0..Height /\ \A n \in 1..Height : n \in 0..Height /\ n # 0
  BY HeightIsNat
<1>4. Trees = [i \in 0..Height |-> IF i = 0 THEN {} ELSE Level(Trees[i - 1])]
  BY <1>2 DEF Grows
<1> HIDE DEF Trees, Level
<1> QED BY <1>3, <1>4

LEMMA BiggerSeq ==
    ASSUME NEW S, NEW T, S \subseteq T
    PROVE  Seq(S) \subseteq Seq(T)
OBVIOUS

LEMMA BiggerLevel ==
    ASSUME NEW S, NEW T, S \subseteq T
    PROVE  Level(S) \subseteq Level(T)
BY BiggerSeq DEF Level

\* A tree is a tree of more levels.
LEMMA TreesNest == \A n \in 1..Height : Trees[n - 1] \subseteq Trees[n]
<1> DEFINE Bad == {n \in 1..Height : ~(Trees[n - 1] \subseteq Trees[n])}
<1>1. SUFFICES ASSUME Bad # {} PROVE FALSE
  OBVIOUS
<1>2. PICK m \in Bad : \A k \in Bad : m <= k
  <2>1. Bad \in SUBSET Nat
    BY HeightIsNat
  <2> QED BY <1>1, <2>1, LeastOf
<1>3. m \in 1..Height /\ Trees[m] = Level(Trees[m - 1])
  BY <1>2, TreesAre
<1>4. CASE m = 1
  BY <1>2, <1>4, TreesAre
<1>5. CASE m # 1
  <2>1. m - 1 \in 1..Height /\ ~(m <= m - 1)
    BY <1>3, <1>5, HeightIsNat
  <2>2. Trees[(m - 1) - 1] \subseteq Trees[m - 1]
    BY <1>2, <2>1
  <2>3. Trees[m - 1] = Level(Trees[(m - 1) - 1])
    BY <2>1, TreesAre
  <2> QED BY <1>2, <1>3, <2>2, <2>3, BiggerLevel
<1> QED BY <1>4, <1>5

\* The parts of a tree have fewer levels.
LEMMA PartsAreTrees ==
    ASSUME NEW n \in 1..Height, NEW x \in Trees[n]
    PROVE  /\ n - 1 \in 0..Height
           /\ x.of \in Seq(Trees[n - 1]) /\ Len(x.of) \in Nat
           /\ \A i \in 1..Len(x.of) : x.of[i] \in Trees[n - 1]
           /\ \A i \in 1..Len(x.of) : x.of[i] \in Trees[n]
<1>1. n - 1 \in 0..Height
  BY HeightIsNat
<1>2. x.of \in Seq(Trees[n - 1])
  <2>1. x \in Level(Trees[n - 1])
    BY TreesAre
  <2> QED BY <2>1 DEF Level
<1>3. Trees[n - 1] \subseteq Trees[n]
  BY TreesNest
<1> QED BY <1>1, <1>2, <1>3

LEMMA ExpressionIs == Expression = Trees[Height] /\ Height \in 1..Height
BY HeightIsNat DEF Expression, Height

LEMMA TreesReach == \A n \in 0..Height : Trees[n] \subseteq Expression
<1> DEFINE Bad == {d \in 0..Height : ~(Trees[Height - d] \subseteq Expression)}
<1>1. SUFFICES ASSUME Bad # {} PROVE FALSE
  <2>1. \A n \in 0..Height : Height - n \in 0..Height /\ Height - (Height - n) = n
    BY HeightIsNat
  <2> QED BY <2>1
<1>2. PICK d \in Bad : \A k \in Bad : d <= k
  <2>1. Bad \in SUBSET Nat
    BY HeightIsNat
  <2> QED BY <1>1, <2>1, LeastOf
<1>3. CASE d = 0
  BY <1>2, <1>3, ExpressionIs, HeightIsNat
<1>4. CASE d # 0
  <2>1. /\ d - 1 \in 0..Height /\ ~(d <= d - 1)
        /\ Height - (d - 1) \in 1..Height /\ (Height - (d - 1)) - 1 = Height - d
    BY <1>2, <1>4, HeightIsNat
  <2>2. Trees[Height - (d - 1)] \subseteq Expression
    BY <1>2, <2>1
  <2>3. Trees[Height - d] \subseteq Trees[Height - (d - 1)]
    BY <2>1, TreesNest
  <2> QED BY <1>2, <2>2, <2>3
<1> QED BY <1>3, <1>4

LEMMA PartsAreExpressions ==
    ASSUME NEW x \in Expression
    PROVE  /\ Len(x.of) \in Nat
           /\ x.of \in Seq(Expression)
           /\ \A i \in 1..Len(x.of) : x.of[i] \in Expression
<1>1. x \in Trees[Height] /\ Height \in 1..Height
  BY ExpressionIs
<1>2. /\ x.of \in Seq(Trees[Height - 1]) /\ Len(x.of) \in Nat
      /\ \A i \in 1..Len(x.of) : x.of[i] \in Trees[Height]
      /\ Trees[Height - 1] \subseteq Trees[Height]
  BY <1>1, PartsAreTrees, TreesNest
<1> QED BY <1>2, BiggerSeq, ExpressionIs
-----------------------------------------------------------------------------
(* What satisfies an expression. *)

Weigh(x, h, s) ==
    CASE x.op = "all" -> \A i \in 1..Len(x.of) : h[x.of[i]]
      [] x.op = "any" -> \E i \in 1..Len(x.of) : h[x.of[i]]
      [] x.op = "not" -> \A i \in 1..Len(x.of) : ~h[x.of[i]]
      [] OTHER -> LeafHolds(x, s)

LEMMA WeighParts ==
    ASSUME NEW x, NEW g, NEW h, NEW s, \A i \in 1..Len(x.of) : g[x.of[i]] = h[x.of[i]]
    PROVE  Weigh(x, g, s) = Weigh(x, h, s)
BY DEF Weigh

LEMMA WeighingEnds ==
    ASSUME NEW s, NEW n \in 0..Height
    PROVE  \E h : h = [x \in Trees[n] |-> Weigh(x, h, s)]
<1> DEFINE Bad == {m \in 0..Height : ~(\E h : h = [x \in Trees[m] |-> Weigh(x, h, s)])}
<1>1. SUFFICES ASSUME Bad # {} PROVE FALSE
  OBVIOUS
<1>2. PICK m \in Bad : \A k \in Bad : m <= k
  <2>1. Bad \in SUBSET Nat
    BY HeightIsNat
  <2> QED BY <1>1, <2>1, LeastOf
<1>3. CASE m = 0
  <2> DEFINE h == [x \in Trees[m] |-> TRUE]
  <2>1. h = [x \in Trees[m] |-> Weigh(x, h, s)]
    BY <1>3, TreesAre
  <2> QED BY <1>2, <2>1
<1>4. CASE m # 0
  <2>1. m \in 1..Height /\ m - 1 \in 0..Height /\ ~(m <= m - 1)
    BY <1>2, <1>4, HeightIsNat
  <2>2. PICK h : h = [x \in Trees[m - 1] |-> Weigh(x, h, s)]
    BY <1>2, <2>1
  <2> DEFINE g == [x \in Trees[m] |-> Weigh(x, h, s)]
  <2>3. \A x \in Trees[m - 1] : g[x] = h[x]
    <3>1. Trees[m - 1] \subseteq Trees[m]
      BY <2>1, TreesNest
    <3>2. \A x \in Trees[m - 1] : h[x] = Weigh(x, h, s)
      BY <2>2
    <3> QED BY <3>1, <3>2
  <2>4. ASSUME NEW x \in Trees[m] PROVE Weigh(x, h, s) = Weigh(x, g, s)
    <3>1. \A i \in 1..Len(x.of) : x.of[i] \in Trees[m - 1]
      BY <2>1, PartsAreTrees
    <3> HIDE DEF g
    <3>2. \A i \in 1..Len(x.of) : h[x.of[i]] = g[x.of[i]]
      BY <3>1, <2>3
    <3> QED BY <3>2, WeighParts
  <2>5. g = [x \in Trees[m] |-> Weigh(x, g, s)]
    BY <2>4
  <2> QED BY <1>2, <2>5
<1> QED BY <1>3, <1>4

\* Satisfied is what its definition says of every expression.
LEMMA SatisfiedIs ==
    ASSUME NEW s
    PROVE  \E h : /\ \A x \in Expression : h[x] = Weigh(x, h, s)
                 /\ \A x \in Expression : Satisfied(x, s) = h[x]
<1> DEFINE h == CHOOSE f : f = [x \in Expression |-> Weigh(x, f, s)]
<1>1. \E f : f = [x \in Expression |-> Weigh(x, f, s)]
  BY WeighingEnds, ExpressionIs, HeightIsNat
<1>2. h = [x \in Expression |-> Weigh(x, h, s)]
  BY <1>1
<1>3. \A x : Satisfied(x, s) = h[x]
  BY DEF Satisfied, Weigh
<1> HIDE DEF h
<1>4. \A x \in Expression : h[x] = Weigh(x, h, s)
  BY <1>2
<1> QED BY <1>3, <1>4

LEMMA SatisfiedBy ==
    ASSUME NEW s, NEW x \in Expression
    PROVE  /\ x.op = "all" => (Satisfied(x, s) <=> \A i \in 1..Len(x.of) : Satisfied(x.of[i], s))
           /\ x.op = "any" => (Satisfied(x, s) <=> \E i \in 1..Len(x.of) : Satisfied(x.of[i], s))
           /\ x.op = "not" => (Satisfied(x, s) <=> \A i \in 1..Len(x.of) : ~Satisfied(x.of[i], s))
           /\ x.op \notin Groups => (Satisfied(x, s) <=> LeafHolds(x, s))
<1>1. PICK h : /\ \A y \in Expression : h[y] = Weigh(y, h, s)
               /\ \A y \in Expression : Satisfied(y, s) = h[y]
  BY SatisfiedIs
<1>2. \A i \in 1..Len(x.of) : x.of[i] \in Expression
  BY PartsAreExpressions
<1>3. Satisfied(x, s) = Weigh(x, h, s)
  BY <1>1
<1>4. \A i \in 1..Len(x.of) : Satisfied(x.of[i], s) = h[x.of[i]]
  BY <1>1, <1>2
<1> QED BY <1>3, <1>4 DEF Weigh, Groups
-----------------------------------------------------------------------------
(* The fields of an expression, and what depends on them. *)

NamesIn(x, h) == IF x.op \in Groups THEN UNION {h[x.of[i]] : i \in 1..Len(x.of)} ELSE {x.field}

LEMMA NamesParts ==
    ASSUME NEW x, NEW g, NEW h, \A i \in 1..Len(x.of) : g[x.of[i]] = h[x.of[i]]
    PROVE  NamesIn(x, g) = NamesIn(x, h)
BY DEF NamesIn

LEMMA NamingEnds ==
    ASSUME NEW n \in 0..Height
    PROVE  \E h : h = [x \in Trees[n] |-> NamesIn(x, h)]
<1> DEFINE Bad == {m \in 0..Height : ~(\E h : h = [x \in Trees[m] |-> NamesIn(x, h)])}
<1>1. SUFFICES ASSUME Bad # {} PROVE FALSE
  OBVIOUS
<1>2. PICK m \in Bad : \A k \in Bad : m <= k
  <2>1. Bad \in SUBSET Nat
    BY HeightIsNat
  <2> QED BY <1>1, <2>1, LeastOf
<1>3. CASE m = 0
  <2> DEFINE h == [x \in Trees[m] |-> {}]
  <2>1. h = [x \in Trees[m] |-> NamesIn(x, h)]
    BY <1>3, TreesAre
  <2> QED BY <1>2, <2>1
<1>4. CASE m # 0
  <2>1. m \in 1..Height /\ m - 1 \in 0..Height /\ ~(m <= m - 1)
    BY <1>2, <1>4, HeightIsNat
  <2>2. PICK h : h = [x \in Trees[m - 1] |-> NamesIn(x, h)]
    BY <1>2, <2>1
  <2> DEFINE g == [x \in Trees[m] |-> NamesIn(x, h)]
  <2>3. \A x \in Trees[m - 1] : g[x] = h[x]
    <3>1. Trees[m - 1] \subseteq Trees[m]
      BY <2>1, TreesNest
    <3>2. \A x \in Trees[m - 1] : h[x] = NamesIn(x, h)
      BY <2>2
    <3> QED BY <3>1, <3>2
  <2>4. ASSUME NEW x \in Trees[m] PROVE NamesIn(x, h) = NamesIn(x, g)
    <3>1. \A i \in 1..Len(x.of) : x.of[i] \in Trees[m - 1]
      BY <2>1, PartsAreTrees
    <3> HIDE DEF g
    <3>2. \A i \in 1..Len(x.of) : h[x.of[i]] = g[x.of[i]]
      BY <3>1, <2>3
    <3> QED BY <3>2, NamesParts
  <2>5. g = [x \in Trees[m] |-> NamesIn(x, g)]
    BY <2>4
  <2> QED BY <1>2, <2>5
<1> QED BY <1>3, <1>4

LEMMA FieldsAre ==
    ASSUME NEW x \in Expression
    PROVE  /\ x.op \in Groups => Fields(x) = UNION {Fields(x.of[i]) : i \in 1..Len(x.of)}
           /\ x.op \notin Groups => Fields(x) = {x.field}
<1> DEFINE h == CHOOSE f : f = [y \in Expression |-> NamesIn(y, f)]
<1>1. \E f : f = [y \in Expression |-> NamesIn(y, f)]
  BY NamingEnds, ExpressionIs, HeightIsNat
<1>2. h = [y \in Expression |-> NamesIn(y, h)]
  BY <1>1
<1>3. \A y : Fields(y) = h[y]
  BY DEF Fields, NamesIn
<1> HIDE DEF h
<1>4. \A i \in 1..Len(x.of) : Fields(x.of[i]) = h[x.of[i]]
  BY <1>3
<1>5. h[x] = NamesIn(x, h)
  BY <1>2
<1> QED BY <1>3, <1>4, <1>5 DEF NamesIn

\* Two purchases that say the same of some fields.
SaysSame(s, r, names) ==
    \A f \in names : (f \in DOMAIN s <=> f \in DOMAIN r) /\ (f \in DOMAIN s => s[f] = r[f])

LEMMA LeafSeesItsField ==
    ASSUME NEW x, NEW s, NEW r, SaysSame(s, r, {x.field})
    PROVE  LeafHolds(x, s) = LeafHolds(x, r)
<1>1. x.field \in DOMAIN s <=> x.field \in DOMAIN r
  BY DEF SaysSame
<1>2. CASE x.field \notin DOMAIN s
  BY <1>1, <1>2 DEF LeafHolds, Stated
<1>3. CASE x.field \in DOMAIN s
  <2>1. s[x.field] = r[x.field]
    BY <1>3 DEF SaysSame
  <2>2. Stated(s, x.field) <=> Stated(r, x.field)
    BY <1>1, <2>1 DEF Stated
  <2> QED BY <2>1, <2>2 DEF LeafHolds
<1> QED BY <1>2, <1>3

\* An expression is weighed by the fields it names and nothing else.
LEMMA WeighedByItsFields ==
    ASSUME NEW s, NEW r
    PROVE  \A x \in Expression : SaysSame(s, r, Fields(x)) => (Satisfied(x, s) <=> Satisfied(x, r))
<1> DEFINE Same(x) == SaysSame(s, r, Fields(x)) => (Satisfied(x, s) <=> Satisfied(x, r))
           Bad == {n \in 0..Height : ~(\A x \in Trees[n] : Same(x))}
<1>1. SUFFICES ASSUME Bad # {} PROVE FALSE
  <2>1. Height \in 0..Height
    BY HeightIsNat
  <2> QED BY <2>1, ExpressionIs
<1>2. PICK m \in Bad : \A k \in Bad : m <= k
  <2>1. Bad \in SUBSET Nat
    BY HeightIsNat
  <2> QED BY <1>1, <2>1, LeastOf
<1>3. PICK x \in Trees[m] : ~Same(x)
  BY <1>2
<1>4. m \in 1..Height /\ m - 1 \in 0..Height /\ ~(m <= m - 1)
  BY <1>2, <1>3, TreesAre, HeightIsNat
<1>5. \A i \in 1..Len(x.of) : x.of[i] \in Trees[m - 1] /\ Same(x.of[i])
  <2>1. m - 1 \notin Bad
    BY <1>2, <1>4
  <2> HIDE DEF Same
  <2>2. \A y \in Trees[m - 1] : Same(y)
    BY <1>4, <2>1
  <2> QED BY <1>4, <2>2, PartsAreTrees
<1>6. x \in Expression
  BY <1>4, TreesReach
<1>7. CASE x.op \in Groups
  <2>1. SUFFICES ASSUME SaysSame(s, r, Fields(x))
                 PROVE  Satisfied(x, s) <=> Satisfied(x, r)
    BY <1>3
  <2>2. ASSUME NEW i \in 1..Len(x.of)
        PROVE  Satisfied(x.of[i], s) <=> Satisfied(x.of[i], r)
    <3>1. Fields(x.of[i]) \subseteq Fields(x)
      BY <1>6, <1>7, FieldsAre
    <3>2. SaysSame(s, r, Fields(x.of[i]))
      BY <2>1, <3>1 DEF SaysSame
    <3> QED BY <1>5, <3>2
  <2> QED BY <1>6, <1>7, <2>2, SatisfiedBy DEF Groups
<1>8. CASE x.op \notin Groups
  <2>1. Fields(x) = {x.field}
    BY <1>6, <1>8, FieldsAre
  <2>2. SaysSame(s, r, Fields(x)) => LeafHolds(x, s) = LeafHolds(x, r)
    BY <2>1, LeafSeesItsField
  <2> QED BY <1>3, <1>6, <1>8, <2>2, SatisfiedBy
<1> QED BY <1>7, <1>8
-----------------------------------------------------------------------------
(* What sequences are put together of. *)

\* f is what flattening the first n has come to after each of them.
Flattens(f, seqs, n) == f = [i \in 1..n |-> IF i = 1 THEN seqs[i] ELSE f[i - 1] \o seqs[i]]

LEMMA FlatteningEnds ==
    ASSUME NEW seqs, NEW n \in Nat
    PROVE  \E f : Flattens(f, seqs, n)
<1> DEFINE Stuck == {m \in Nat : ~(\E f : Flattens(f, seqs, m))}
<1>1. SUFFICES ASSUME Stuck # {} PROVE FALSE
  OBVIOUS
<1>2. PICK m \in Stuck : \A k \in Stuck : m <= k
  BY <1>1, LeastOf
<1>3. CASE m = 0
  <2> DEFINE f == [i \in 1..0 |-> <<>>]
  <2>1. Flattens(f, seqs, 0)
    BY DEF Flattens
  <2> QED BY <1>3, <2>1
<1>4. CASE m # 0
  <2>1. m \in Nat /\ m - 1 \in Nat /\ ~(m <= m - 1)
    BY <1>4
  <2>2. PICK f : Flattens(f, seqs, m - 1)
    BY <1>2, <2>1
  <2> DEFINE New(i) == IF i = 1 THEN seqs[i] ELSE f[i - 1] \o seqs[i]
             g == [i \in 1..m |-> New(i)]
  <2>3. \A i \in 1..(m - 1) : f[i] = New(i)
    BY <2>2 DEF Flattens
  <2>4. \A i \in 1..(m - 1) : g[i] = f[i]
    <3> HIDE DEF New
    <3> QED BY <2>1, <2>3
  <2>5. \A i \in 1..m : New(i) = IF i = 1 THEN seqs[i] ELSE g[i - 1] \o seqs[i]
    <3>1. \A i \in 1..m : i # 1 => i - 1 \in 1..(m - 1)
      BY <2>1
    <3> HIDE DEF g
    <3> QED BY <2>4, <3>1
  <2>6. Flattens(g, seqs, m)
    <3> HIDE DEF New
    <3>1. g = [i \in 1..m |-> IF i = 1 THEN seqs[i] ELSE g[i - 1] \o seqs[i]]
      BY <2>5
    <3> QED BY <3>1 DEF Flattens
  <2> QED BY <2>1, <2>6
<1> QED BY <1>3, <1>4

\* What is put together of sequences of a set is one.
LEMMA FlattenedIs ==
    ASSUME NEW S, NEW seqs \in Seq(Seq(S))
    PROVE  FlattenSeq(seqs) \in Seq(S)
<1>1. Len(seqs) \in Nat /\ \A i \in 1..Len(seqs) : seqs[i] \in Seq(S)
  OBVIOUS
<1>2. CASE Len(seqs) = 0
  <2>1. seqs = <<>>
    BY <1>2
  <2> QED BY <1>2, <2>1 DEF FlattenSeq
<1>3. CASE Len(seqs) # 0
  <2> DEFINE f == CHOOSE g : Flattens(g, seqs, Len(seqs))
  <2>1. Flattens(f, seqs, Len(seqs))
    BY <1>1, FlatteningEnds
  <2>2. FlattenSeq(seqs) = f[Len(seqs)]
    BY <1>3 DEF FlattenSeq, Flattens
  <2> HIDE DEF f
  <2>3. \A i \in 1..Len(seqs) : f[i] = IF i = 1 THEN seqs[i] ELSE f[i - 1] \o seqs[i]
    BY <2>1 DEF Flattens
  <2> DEFINE Bad == {i \in 1..Len(seqs) : f[i] \notin Seq(S)}
  <2>4. SUFFICES ASSUME Bad # {} PROVE FALSE
    <3>1. Len(seqs) \in 1..Len(seqs)
      BY <1>1, <1>3
    <3> QED BY <2>2, <3>1
  <2>5. PICK m \in Bad : \A k \in Bad : m <= k
    <3>1. Bad \in SUBSET Nat
      BY <1>1
    <3> QED BY <2>4, <3>1, LeastOf
  <2>6. CASE m = 1
    BY <1>1, <2>3, <2>5, <2>6
  <2>7. CASE m # 1
    <3>1. m - 1 \in 1..Len(seqs) /\ ~(m <= m - 1)
      BY <1>1, <2>5, <2>7
    <3>2. f[m - 1] \in Seq(S) /\ seqs[m] \in Seq(S)
      BY <1>1, <2>5, <3>1
    <3>3. f[m] = f[m - 1] \o seqs[m]
      BY <2>3, <2>5, <2>7
    <3> QED BY <2>5, <3>2, <3>3, ConcatProperties
  <2> QED BY <2>6, <2>7
<1> QED BY <1>2, <1>3
-----------------------------------------------------------------------------
(* What a merchant's catalogue is asked of an expression. *)

SaysOf(x, parts) ==
    CASE x.op = "all" -> FlattenSeq(parts)
      [] x.op = "any" ->
            IF \E i \in 1..Len(parts) : parts[i] = <<>> THEN <<>>
            ELSE <<[x EXCEPT !.of = [i \in 1..Len(parts) |-> conjunction(parts[i])]]>>
      [] x.op = "not" -> IF whollySelective(x) THEN <<x>> ELSE <<>>
      [] OTHER -> IF Selective(x.field) THEN <<x>> ELSE <<>>

SaysIn(x, h) == SaysOf(x, [i \in 1..Len(x.of) |-> h[x.of[i]]])

LEMMA SaysParts ==
    ASSUME NEW x, NEW g, NEW h, \A i \in 1..Len(x.of) : g[x.of[i]] = h[x.of[i]]
    PROVE  SaysIn(x, g) = SaysIn(x, h)
<1>1. [i \in 1..Len(x.of) |-> g[x.of[i]]] = [i \in 1..Len(x.of) |-> h[x.of[i]]]
  OBVIOUS
<1> QED BY <1>1 DEF SaysIn

LEMMA SayingEnds ==
    ASSUME NEW n \in 0..Height
    PROVE  \E h : h = [x \in Trees[n] |-> SaysIn(x, h)]
<1> DEFINE Bad == {m \in 0..Height : ~(\E h : h = [x \in Trees[m] |-> SaysIn(x, h)])}
<1>1. SUFFICES ASSUME Bad # {} PROVE FALSE
  OBVIOUS
<1>2. PICK m \in Bad : \A k \in Bad : m <= k
  <2>1. Bad \in SUBSET Nat
    BY HeightIsNat
  <2> QED BY <1>1, <2>1, LeastOf
<1>3. CASE m = 0
  <2> DEFINE h == [x \in Trees[m] |-> <<>>]
  <2>1. h = [x \in Trees[m] |-> SaysIn(x, h)]
    BY <1>3, TreesAre
  <2> QED BY <1>2, <2>1
<1>4. CASE m # 0
  <2>1. m \in 1..Height /\ m - 1 \in 0..Height /\ ~(m <= m - 1)
    BY <1>2, <1>4, HeightIsNat
  <2>2. PICK h : h = [x \in Trees[m - 1] |-> SaysIn(x, h)]
    BY <1>2, <2>1
  <2> DEFINE g == [x \in Trees[m] |-> SaysIn(x, h)]
  <2>3. \A x \in Trees[m - 1] : g[x] = h[x]
    <3>1. Trees[m - 1] \subseteq Trees[m]
      BY <2>1, TreesNest
    <3>2. \A x \in Trees[m - 1] : h[x] = SaysIn(x, h)
      BY <2>2
    <3> QED BY <3>1, <3>2
  <2>4. ASSUME NEW x \in Trees[m] PROVE SaysIn(x, h) = SaysIn(x, g)
    <3>1. \A i \in 1..Len(x.of) : x.of[i] \in Trees[m - 1]
      BY <2>1, PartsAreTrees
    <3> HIDE DEF g
    <3>2. \A i \in 1..Len(x.of) : h[x.of[i]] = g[x.of[i]]
      BY <3>1, <2>3
    <3> QED BY <3>2, SaysParts
  <2>5. g = [x \in Trees[m] |-> SaysIn(x, g)]
    BY <2>4
  <2> QED BY <1>2, <2>5
<1> QED BY <1>3, <1>4

PartsSay(x) == [i \in 1..Len(x.of) |-> narrowing(x.of[i])]

LEMMA NarrowingIs ==
    ASSUME NEW x \in Expression
    PROVE  /\ x.op = "all" => narrowing(x) = FlattenSeq(PartsSay(x))
           /\ x.op = "any" => narrowing(x) =
                 IF \E i \in 1..Len(x.of) : narrowing(x.of[i]) = <<>> THEN <<>>
                 ELSE <<[x EXCEPT !.of = [i \in 1..Len(x.of) |-> conjunction(narrowing(x.of[i]))]]>>
           /\ x.op = "not" => narrowing(x) = IF whollySelective(x) THEN <<x>> ELSE <<>>
           /\ x.op \notin Groups => narrowing(x) = IF Selective(x.field) THEN <<x>> ELSE <<>>
<1> DEFINE h == CHOOSE f : f = [y \in Expression |-> SaysIn(y, f)]
<1>1. \E f : f = [y \in Expression |-> SaysIn(y, f)]
  BY SayingEnds, ExpressionIs, HeightIsNat
<1>2. h = [y \in Expression |-> SaysIn(y, h)]
  BY <1>1
<1>3. \A y : narrowing(y) = h[y]
  BY DEF narrowing, SaysIn, SaysOf
<1> HIDE DEF h
<1>4. [i \in 1..Len(x.of) |-> h[x.of[i]]] = PartsSay(x)
  BY <1>3 DEF PartsSay
<1>5. Len(x.of) \in Nat
  BY PartsAreExpressions
<1>6. /\ Len(PartsSay(x)) = Len(x.of)
      /\ \A i \in 1..Len(x.of) : PartsSay(x)[i] = narrowing(x.of[i])
  BY <1>5 DEF PartsSay
<1>7. [i \in 1..Len(x.of) |-> conjunction(PartsSay(x)[i])]
        = [i \in 1..Len(x.of) |-> conjunction(narrowing(x.of[i]))]
  BY <1>6
<1>8. narrowing(x) = SaysOf(x, PartsSay(x))
  BY <1>2, <1>3, <1>4 DEF SaysIn
<1> HIDE DEF PartsSay
<1>9. CASE x.op = "all"
  BY <1>8, <1>9 DEF SaysOf, Groups
<1>10. CASE x.op = "any"
  <2>1. narrowing(x) = IF \E i \in 1..Len(PartsSay(x)) : PartsSay(x)[i] = <<>> THEN <<>>
                       ELSE <<[x EXCEPT !.of = [i \in 1..Len(PartsSay(x)) |-> conjunction(PartsSay(x)[i])]]>>
    BY <1>8, <1>10 DEF SaysOf
  <2> QED BY <1>6, <1>7, <1>10, <2>1 DEF Groups
<1>11. CASE x.op \notin {"all", "any"}
  BY <1>8, <1>11 DEF SaysOf, Groups
<1> QED BY <1>9, <1>10, <1>11

\* Of the fields of the item and its seller alone, and implied by x.
Implied(p, x, s) == whollySelective(p) /\ (Satisfied(x, s) => Satisfied(p, s))

ImpliedTrees(n, x, s) == {p \in Trees[n] : Implied(p, x, s)}

\* What a tree says of the item and its seller, one by one and as a whole.
SaysAtMost(n, x, s) ==
    /\ narrowing(x) \in Seq(ImpliedTrees(n, x, s))
    /\ narrowing(x) # <<>> => conjunction(narrowing(x)) \in ImpliedTrees(n, x, s)

\* All of them are implied when each is.
LEMMA ConjunctionIsImplied ==
    ASSUME NEW n \in 1..Height, NEW s, NEW x, NEW q \in Seq(ImpliedTrees(n - 1, x, s)), q # <<>>
    PROVE  conjunction(q) \in ImpliedTrees(n, x, s)
<1>1. n - 1 \in 0..Height /\ Trees[n - 1] \subseteq Trees[n] /\ Trees[n] = Level(Trees[n - 1])
      /\ n \in 0..Height
  BY HeightIsNat, TreesNest, TreesAre
<1>2. Len(q) \in Nat /\ Len(q) # 0 /\ \A i \in 1..Len(q) : q[i] \in ImpliedTrees(n - 1, x, s)
  BY EmptySeq
<1>3. CASE Len(q) = 1
  <2>1. conjunction(q) = q[1] /\ 1 \in 1..Len(q)
    BY <1>3 DEF conjunction
  <2> QED BY <1>1, <1>2, <2>1 DEF ImpliedTrees
<1>4. CASE Len(q) # 1
  <2> DEFINE g == [op |-> "all", field |-> "", shape |-> "none", values |-> <<>>, of |-> q]
  <2>1. conjunction(q) = g
    BY <1>4 DEF conjunction
  <2>2. g.op = "all" /\ g.of = q /\ g.op \in Groups
    BY DEF Groups
  <2>3. q \in Seq(Trees[n - 1]) /\ <<>> \in Seq(Literal)
    <3>1. ImpliedTrees(n - 1, x, s) \subseteq Trees[n - 1]
      BY DEF ImpliedTrees
    <3> QED BY <3>1, BiggerSeq
  <2>4. g \in Trees[n]
    <3> DEFINE T == Trees[n - 1]
    <3>1. "all" \in STRING /\ "" \in STRING /\ "none" \in STRING
      BY SpellingAssumption
    <3>2. q \in Seq(T)
      BY <2>3
    <3> HIDE DEF T
    <3>3. g \in Level(T)
      BY <2>3, <3>1, <3>2 DEF Level
    <3> QED BY <1>1, <3>3 DEF T
  <2>5. g \in Expression
    BY <1>1, <2>4, TreesReach
  <2> HIDE DEF g
  <2>6. whollySelective(g)
    BY <1>2, <2>2, <2>5, FieldsAre DEF whollySelective, ImpliedTrees, Implied
  <2>7. Satisfied(x, s) => Satisfied(g, s)
    BY <1>2, <2>2, <2>5, SatisfiedBy DEF ImpliedTrees, Implied
  <2> QED BY <2>1, <2>4, <2>6, <2>7 DEF ImpliedTrees, Implied
<1> QED BY <1>3, <1>4

LEMMA SingleSays ==
    ASSUME NEW n, NEW s, NEW x, NEW p \in ImpliedTrees(n, x, s), narrowing(x) = <<p>>
    PROVE  SaysAtMost(n, x, s)
<1>1. narrowing(x) \in Seq(ImpliedTrees(n, x, s)) /\ Len(narrowing(x)) = 1 /\ narrowing(x)[1] = p
  OBVIOUS
<1>2. conjunction(narrowing(x)) = p
  BY <1>1 DEF conjunction
<1> QED BY <1>1, <1>2 DEF SaysAtMost

LEMMA NothingSays ==
    ASSUME NEW n, NEW s, NEW x, narrowing(x) = <<>>
    PROVE  SaysAtMost(n, x, s)
BY DEF SaysAtMost

\* A group of all says what each of them does.
LEMMA AllSays ==
    ASSUME NEW n \in 1..Height, NEW s, NEW x \in Trees[n], x.op = "all",
           \A i \in 1..Len(x.of) : SaysAtMost(n - 1, x.of[i], s)
    PROVE  SaysAtMost(n, x, s)
<1>1. /\ n - 1 \in 0..Height /\ n \in 0..Height
      /\ Trees[n - 1] \subseteq Trees[n]
      /\ Len(x.of) \in Nat
      /\ x \in Expression
  BY HeightIsNat, TreesNest, PartsAreTrees, TreesReach
<1> DEFINE S == ImpliedTrees(n - 1, x, s)
<1>2. ASSUME NEW i \in 1..Len(x.of) PROVE narrowing(x.of[i]) \in Seq(S)
  <2>1. Satisfied(x, s) => Satisfied(x.of[i], s)
    BY <1>1, SatisfiedBy
  <2>2. ImpliedTrees(n - 1, x.of[i], s) \subseteq S
    BY <2>1 DEF ImpliedTrees, Implied
  <2>3. narrowing(x.of[i]) \in Seq(ImpliedTrees(n - 1, x.of[i], s))
    BY DEF SaysAtMost
  <2> HIDE DEF S
  <2> QED BY <2>2, <2>3, BiggerSeq
<1>3. PartsSay(x) \in Seq(Seq(S))
  <2> HIDE DEF S
  <2> QED BY <1>1, <1>2 DEF PartsSay
<1>4. narrowing(x) \in Seq(S)
  <2> HIDE DEF S
  <2> QED BY <1>1, <1>3, FlattenedIs, NarrowingIs
<1>5. S \subseteq ImpliedTrees(n, x, s)
  BY <1>1 DEF ImpliedTrees
<1>6. narrowing(x) \in Seq(ImpliedTrees(n, x, s))
  <2> HIDE DEF S
  <2> QED BY <1>4, <1>5, BiggerSeq
<1> QED BY <1>4, <1>6, ConjunctionIsImplied DEF SaysAtMost

\* A group of alternatives says that one of what they say holds, if all of them
\* say something.
LEMMA AnySays ==
    ASSUME NEW n \in 1..Height, NEW s, NEW x \in Trees[n], x.op = "any",
           \A i \in 1..Len(x.of) : SaysAtMost(n - 1, x.of[i], s)
    PROVE  SaysAtMost(n, x, s)
<1>1. /\ n - 1 \in 0..Height /\ n \in 0..Height
      /\ Trees[n] = Level(Trees[n - 1])
      /\ Len(x.of) \in Nat
      /\ x \in Expression
  BY HeightIsNat, TreesAre, PartsAreTrees, TreesReach
<1>2. CASE \E i \in 1..Len(x.of) : narrowing(x.of[i]) = <<>>
  BY <1>1, <1>2, NarrowingIs, NothingSays
<1>3. CASE ~(\E i \in 1..Len(x.of) : narrowing(x.of[i]) = <<>>)
  <2> DEFINE C(i) == conjunction(narrowing(x.of[i]))
             q == [i \in 1..Len(x.of) |-> C(i)]
             g == [x EXCEPT !.of = q]
  <2>1. narrowing(x) = <<g>>
    BY <1>1, <1>3, NarrowingIs
  <2>2. \A i \in 1..Len(x.of) : C(i) \in ImpliedTrees(n - 1, x.of[i], s)
    BY <1>3 DEF SaysAtMost
  <2> HIDE DEF C
  <2>3. q \in Seq(Trees[n - 1])
    <3>1. \A i \in 1..Len(x.of) : C(i) \in Trees[n - 1]
      BY <2>2 DEF ImpliedTrees
    <3> QED BY <1>1, <3>1
  <2>4. Len(q) = Len(x.of) /\ \A i \in 1..Len(x.of) : q[i] = C(i)
    BY <1>1
  <2> HIDE DEF q
  <2>5. g \in Trees[n] /\ g.op = "any" /\ g.of = q /\ g.op \in Groups
    BY <1>1, <2>3 DEF Level, Groups
  <2>6. g \in Expression
    BY <1>1, <2>5, TreesReach
  <2> HIDE DEF g
  <2>7. whollySelective(g)
    BY <2>2, <2>4, <2>5, <2>6, FieldsAre DEF whollySelective, ImpliedTrees, Implied
  <2>8. ASSUME Satisfied(x, s) PROVE Satisfied(g, s)
    <3>1. PICK i \in 1..Len(x.of) : Satisfied(x.of[i], s)
      BY <1>1, <2>8, SatisfiedBy
    <3>2. Satisfied(q[i], s)
      BY <2>2, <2>4, <3>1 DEF ImpliedTrees, Implied
    <3> QED BY <2>4, <2>5, <2>6, <3>1, <3>2, SatisfiedBy
  <2>9. g \in ImpliedTrees(n, x, s)
    BY <2>5, <2>7, <2>8 DEF ImpliedTrees, Implied
  <2> QED BY <2>1, <2>9, SingleSays
<1> QED BY <1>2, <1>3

\* Narrowing asks a catalogue for nothing that the limits do not imply, of
\* nothing but the item and its seller.
LEMMA NarrowingSays ==
    ASSUME NEW s
    PROVE  \A n \in 0..Height : \A x \in Trees[n] : SaysAtMost(n, x, s)
<1> DEFINE Bad == {n \in 0..Height : ~(\A x \in Trees[n] : SaysAtMost(n, x, s))}
<1>1. SUFFICES ASSUME Bad # {} PROVE FALSE
  OBVIOUS
<1>2. PICK m \in Bad : \A k \in Bad : m <= k
  <2>1. Bad \in SUBSET Nat
    BY HeightIsNat
  <2> QED BY <1>1, <2>1, LeastOf
<1>3. PICK x \in Trees[m] : ~SaysAtMost(m, x, s)
  BY <1>2
<1>4. m \in 1..Height /\ m - 1 \in 0..Height /\ ~(m <= m - 1)
  BY <1>2, <1>3, TreesAre, HeightIsNat
<1>5. \A i \in 1..Len(x.of) : SaysAtMost(m - 1, x.of[i], s)
  <2>1. m - 1 \notin Bad
    BY <1>2, <1>4
  <2>2. \A y \in Trees[m - 1] : SaysAtMost(m - 1, y, s)
    BY <1>4, <2>1
  <2> QED BY <1>4, <2>2, PartsAreTrees
<1>6. x \in Expression
  BY <1>4, TreesReach
<1>7. CASE x.op = "all"
  BY <1>3, <1>4, <1>5, <1>7, AllSays
<1>8. CASE x.op = "any"
  BY <1>3, <1>4, <1>5, <1>8, AnySays
<1>9. CASE x.op \notin {"all", "any"}
  <2>1. \/ narrowing(x) = <<>>
        \/ narrowing(x) = <<x>> /\ whollySelective(x)
    <3>1. CASE x.op = "not"
      BY <1>6, <3>1, NarrowingIs
    <3>2. CASE x.op \notin Groups
      BY <1>6, <3>2, NarrowingIs, FieldsAre DEF whollySelective
    <3> QED BY <1>9, <3>1, <3>2 DEF Groups
  <2>2. CASE narrowing(x) = <<>>
    BY <1>3, <2>2, NothingSays
  <2>3. CASE narrowing(x) = <<x>> /\ whollySelective(x)
    <3>1. x \in ImpliedTrees(m, x, s)
      BY <2>3 DEF ImpliedTrees, Implied
    <3> QED BY <1>3, <2>3, <3>1, SingleSays
  <2> QED BY <2>1, <2>2, <2>3
<1> QED BY <1>7, <1>8, <1>9

\* Whatever a purchase states, limits it satisfies have it satisfy every clause a
\* catalogue is asked of them, and no clause is about a field a catalogue cannot
\* search by (narrowing.go, Narrowing): the search never drops what may be bought.
THEOREM NothingMoreIsAsked ==
    \A c \in Expression : \A s : \A k \in DOMAIN Narrowing(c) :
        /\ whollySelective(Narrowing(c)[k])
        /\ Satisfied(c, s) => Satisfied(Narrowing(c)[k], s)
<1> SUFFICES ASSUME NEW c \in Expression, NEW s, NEW k \in DOMAIN Narrowing(c)
             PROVE  Implied(Narrowing(c)[k], c, s)
  BY DEF Implied
<1>1. CASE ~Parses(c)
  <2>1. DOMAIN Narrowing(c) = {}
    BY <1>1 DEF Narrowing
  <2> QED BY <2>1
<1>2. CASE Parses(c)
  <2>1. narrowing(c) \in Seq(ImpliedTrees(Height, c, s))
    BY NarrowingSays, ExpressionIs DEF SaysAtMost
  <2>2. Narrowing(c) = narrowing(c)
    BY <1>2 DEF Narrowing
  <2>3. Narrowing(c)[k] \in ImpliedTrees(Height, c, s)
    BY <2>1, <2>2
  <2> QED BY <2>3 DEF ImpliedTrees
<1> QED BY <1>1, <1>2
=============================================================================
