-------------------------- MODULE Authority_proofs --------------------------
(***************************************************************************)
(* Who may spend, for every menu, every instruction, every life of a       *)
(* mandate, of an offer and of a credential, and any number of purchases.  *)
(*                                                                         *)
(* First the keys: a signature outlives the rotation of its key.  Then the *)
(* documents, from the library up: what it makes of what it signs, the     *)
(* delegations the agent makes, the open mandates the surface makes and    *)
(* what a presentation shows of them.  Then the invariant of the decisions *)
(* (AuthorityInv), and what follows from it.                               *)
(***************************************************************************)
EXTENDS Authority, Constraint_proofs

Key == [minted : Nat, notAfter : Int, retiredAt : Nat]

\* What Rotate and the terms leave of a key: its term runs out when it was
\* minted to, or when the overlap after its retirement does if that is sooner.
KeyOK(key, t) ==
    /\ key \in Key
    /\ key.notAfter <= key.minted + Lifetime
    /\ key.retiredAt = Never => key.notAfter = key.minted + Lifetime
    /\ key.retiredAt # Never =>
          /\ key.retiredAt <= t
          /\ key.notAfter \in {key.minted + Lifetime, key.retiredAt + Overlap}
          /\ key.notAfter <= key.retiredAt + Overlap

\* A check was passed at an instant when the key was not retired yet.
CheckedInTime(t, at, first) == t \in 0..at /\ t <= first.retiredAt

KeyInv ==
    /\ now \in 0..MaxTime
    /\ keys \in Seq(Key) /\ Len(keys) >= 1
    /\ \A k \in DOMAIN keys : KeyOK(keys[k], now)
    /\ keys[Len(keys)].retiredAt = Never
    /\ checked = NotSigning \/ CheckedInTime(checked, now, keys[Signer])
    /\ \A t \in signatures : CheckedInTime(t, now, keys[Signer])

LEMMA MinOfTwo ==
    ASSUME NEW a \in Int, NEW b \in Int
    PROVE  Min({a, b}) = IF a <= b THEN a ELSE b
<1>1. CASE a <= b
  <2>1. \A x \in {a, b} : (\A y \in {a, b} : x <= y) => x = a
    BY <1>1
  <2>2. \A y \in {a, b} : a <= y
    BY <1>1
  <2> QED BY <1>1, <2>1, <2>2 DEF Min
<1>2. CASE ~(a <= b)
  <2>1. \A x \in {a, b} : (\A y \in {a, b} : x <= y) => x = b
    BY <1>2
  <2>2. \A y \in {a, b} : b <= y
    BY <1>2
  <2> QED BY <1>2, <2>1, <2>2 DEF Min
<1> QED BY <1>1, <1>2

\* The one key a process starts with.
LEMMA KeyInvInit == KeyInit => KeyInv
BY KeyStoreAssumption DEF KeyInit, KeyInv, Key, KeyOK, CheckedInTime, Never, NotSigning, Signer

\* Time passes: what was retired stays retired.
LEMMA TickKeeps == KeyInv /\ Tick => KeyInv'
<1> SUFFICES ASSUME KeyInv, Tick PROVE KeyInv'
  OBVIOUS
<1> USE KeyStoreAssumption
<1>1. now' = now + 1 /\ now' \in 0..MaxTime /\ UNCHANGED <<keys, checked, signatures>>
  BY DEF KeyInv, Tick
<1>2. \A k \in DOMAIN keys : KeyOK(keys[k], now')
  BY <1>1 DEF KeyInv, Key, KeyOK, Never
<1>3. \A t : CheckedInTime(t, now, keys[Signer]) => CheckedInTime(t, now', keys'[Signer])
  BY <1>1 DEF KeyInv, CheckedInTime
<1> QED BY <1>1, <1>2, <1>3 DEF KeyInv, NotSigning, Never

LEMMA RetiredOK ==
    ASSUME now \in 0..MaxTime, NEW key \in Key, key.notAfter = key.minted + Lifetime
    PROVE  KeyOK(Retired(key), now)
<1> DEFINE until == Min({key.notAfter, now + Overlap})
<1> USE KeyStoreAssumption
<1>1. key.notAfter \in Int /\ now + Overlap \in Int /\ key.minted \in Nat
  BY DEF Key
<1>2. /\ until \in {key.minted + Lifetime, now + Overlap} /\ until \in Int
      /\ until <= key.minted + Lifetime /\ until <= now + Overlap
  BY <1>1, MinOfTwo
<1>3. Retired(key) = [minted |-> key.minted, notAfter |-> until, retiredAt |-> now]
  BY DEF Retired
<1> HIDE DEF until
<1> QED BY <1>1, <1>2, <1>3 DEF Key, KeyOK, Never

LEMMA NewKeyOK == ASSUME now \in 0..MaxTime PROVE KeyOK(NewKey, now) /\ NewKey.retiredAt = Never
BY KeyStoreAssumption DEF NewKey, Key, KeyOK, Never

\* The newest key is retired and another takes its place.  A check that was
\* passed was passed before this.
LEMMA RotateKeeps == KeyInv /\ Rotate => KeyInv'
<1> SUFFICES ASSUME KeyInv, Rotate PROVE KeyInv'
  OBVIOUS
<1> USE KeyStoreAssumption
<1> DEFINE n == Len(keys)
           old == Retired(keys[n])
           retired == [keys EXCEPT ![n] = old]
<1>1. /\ now \in 0..MaxTime /\ n \in Nat \ {0}
      /\ keys \in Seq(Key) /\ keys[n] \in Key
      /\ keys[n].notAfter = keys[n].minted + Lifetime /\ keys[n].retiredAt = Never
  BY DEF KeyInv, Key, KeyOK
<1>2. keys' = Append(retired, NewKey) /\ now' = now
      /\ checked' = checked /\ signatures' = signatures
  BY DEF Rotate
<1>3. \A k \in 1..n : KeyOK(keys[k], now)
  BY <1>1 DEF KeyInv
<1>4. KeyOK(old, now) /\ old \in Key /\ old.retiredAt = now
  BY <1>1, RetiredOK DEF KeyOK, Retired
<1>5. KeyOK(NewKey, now) /\ NewKey \in Key /\ NewKey.retiredAt = Never
  BY <1>1, NewKeyOK DEF KeyOK
<1> HIDE DEF old
<1>6. /\ retired \in Seq(Key) /\ Len(retired) = n
      /\ \A k \in 1..n : retired[k] = IF k = n THEN old ELSE keys[k]
  BY <1>1, <1>4
<1> HIDE DEF retired
<1>7. /\ keys' \in Seq(Key) /\ Len(keys') = n + 1 /\ keys'[n + 1] = NewKey
      /\ \A k \in 1..n : keys'[k] = IF k = n THEN old ELSE keys[k]
  BY <1>1, <1>2, <1>5, <1>6
<1>8. \A k \in DOMAIN keys' : KeyOK(keys'[k], now')
  <2>1. \A k \in DOMAIN keys' : k \in 1..n \/ k = n + 1
    BY <1>1, <1>7
  <2> QED BY <2>1, <1>2, <1>3, <1>4, <1>5, <1>7
<1>9. ASSUME NEW t, CheckedInTime(t, now, keys[Signer])
      PROVE  CheckedInTime(t, now', keys'[Signer])
  <2>1. Signer \in 1..n
    BY <1>1 DEF Signer
  <2>2. keys'[Signer].retiredAt = now \/ keys'[Signer].retiredAt = keys[Signer].retiredAt
    BY <2>1, <1>4, <1>7
  <2>3. t \in 0..now /\ t <= now /\ t <= keys[Signer].retiredAt
    BY <1>9, <1>1 DEF CheckedInTime
  <2>4. t <= keys'[Signer].retiredAt
    BY <2>2, <2>3
  <2> QED BY <2>3, <2>4, <1>2 DEF CheckedInTime
<1>10. keys'[Len(keys')].retiredAt = Never
  BY <1>5, <1>7
<1>11. checked' = NotSigning \/ CheckedInTime(checked', now', keys'[Signer])
  BY <1>2, <1>9 DEF KeyInv
<1>12. \A t \in signatures' : CheckedInTime(t, now', keys'[Signer])
  BY <1>2, <1>9 DEF KeyInv
<1>13. now' \in 0..MaxTime /\ Len(keys') >= 1
  BY <1>1, <1>2, <1>7
<1> QED BY <1>7, <1>8, <1>10, <1>11, <1>12, <1>13 DEF KeyInv, NotSigning, Never

\* A check is passed by a key that is not retired.
LEMMA CheckKeeps ==
    ASSUME KeyInv, NEW refused \in BOOLEAN, SignChecks(refused), UNCHANGED <<now, keys>>
    PROVE  checked' = NotSigning \/ CheckedInTime(checked', now', keys'[Signer])
<1> USE KeyStoreAssumption
<1>1. CASE refused
  BY <1>1 DEF SignChecks
<1>2. CASE ~refused
  <2>1. checked' = now /\ KeyState(keys[Signer], now) = "active"
    BY <1>2 DEF SignChecks, MaySign
  <2>2. keys[Signer] \in Key /\ keys'[Signer] = keys[Signer]
    BY DEF KeyInv, Signer
  <2>3. now < keys[Signer].retiredAt
    BY <2>1, <2>2 DEF KeyState, KeyInv, Key
  <2> QED BY <2>1, <2>2, <2>3 DEF KeyInv, CheckedInTime, Key
<1> QED BY <1>1, <1>2

LEMMA KeyInvNext == KeyInv /\ [KeyNext]_keyVars => KeyInv'
<1> SUFFICES ASSUME KeyInv, [KeyNext]_keyVars PROVE KeyInv'
  OBVIOUS
<1>1. CASE Tick
  BY <1>1, TickKeeps
<1>2. CASE Rotate
  BY <1>2, RotateKeeps
<1>3. CASE SignBegins
  <2>1. checked' = NotSigning \/ CheckedInTime(checked', now', keys'[Signer])
    BY <1>3, CheckKeeps DEF SignBegins
  <2> QED BY <1>3, <2>1 DEF SignBegins, KeyInv, Key, KeyOK, CheckedInTime, NotSigning, Never
<1>4. CASE SignEnds
  <2>1. checked' = NotSigning \/ CheckedInTime(checked', now', keys'[Signer])
    BY <1>4, CheckKeeps DEF SignEnds
  <2>2. \A t \in signatures' : CheckedInTime(t, now', keys'[Signer])
    BY <1>4 DEF SignEnds, SignWrites, KeyInv, CheckedInTime
  <2> QED BY <1>4, <2>1, <2>2 DEF SignEnds, KeyInv, Key, KeyOK, NotSigning, Never
<1>5. CASE UNCHANGED keyVars
  BY <1>5 DEF keyVars, KeyInv, Key, KeyOK, CheckedInTime, NotSigning, Never
<1> QED BY <1>1, <1>2, <1>3, <1>4, <1>5 DEF KeyNext

LEMMA KeyInvSuffices == KeyInv => SignaturesOutliveRotation
<1> SUFFICES ASSUME KeyInv PROVE SignaturesOutliveRotation
  OBVIOUS
<1> USE KeyStoreAssumption
<1>1. \A k \in DOMAIN keys : KeyOK(keys[k], now)
  BY DEF KeyInv
<1>2. Signer \in DOMAIN keys
  BY DEF KeyInv, Signer
<1>3. ASSUME NEW t \in signatures, NEW later \in now..(MaxTime + Overlap),
             later < Min({t + Overlap, keys[Signer].minted + Lifetime})
      PROVE  MayVerify(Signer, later)
  <2>1. t \in Int /\ t <= keys[Signer].retiredAt /\ now \in Int
    BY DEF KeyInv, CheckedInTime
  <2>2. KeyOK(keys[Signer], now)
    BY <1>1, <1>2
  <2>3. later < t + Overlap /\ later < keys[Signer].minted + Lifetime
    <3>1. t + Overlap \in Int /\ keys[Signer].minted + Lifetime \in Int /\ later \in Int
      BY <2>1, <2>2 DEF Key, KeyOK
    <3> QED BY <1>3, <3>1, MinOfTwo
  <2>4. later < keys[Signer].notAfter
    BY <2>1, <2>2, <2>3 DEF Key, KeyOK, Never
  <2> QED BY <2>1, <2>2, <2>4 DEF MayVerify, KeyState, Key, KeyOK
<1>4. ASSUME NEW k \in DOMAIN keys, NEW later \in now..(MaxTime + Overlap + Lifetime),
             MayVerify(k, later)
      PROVE  /\ later < keys[k].minted + Lifetime
             /\ later < keys[k].retiredAt + Overlap
  <2>1. KeyOK(keys[k], now) /\ now \in Int
    BY <1>1 DEF KeyInv
  <2>2. later < keys[k].notAfter
    BY <1>4, <2>1 DEF MayVerify, KeyState, Key, KeyOK
  <2>3. later < keys[k].retiredAt + Overlap
    BY <2>1, <2>2 DEF Key, KeyOK, Never, KeyInv
  <2> QED BY <2>1, <2>2, <2>3 DEF Key, KeyOK
<1> QED BY <1>3, <1>4 DEF SignaturesOutliveRotation

\* Whatever the term and the overlap, and however often and when a key is
\* rotated between the check of a call of Sign and its signature, the signature
\* verifies for the overlap, and no key verifies past its term or its overlap.
THEOREM SignaturesOutlive == KeySpec => []SignaturesOutliveRotation
<1>1. KeySpec => []KeyInv
  BY KeyInvInit, KeyInvNext, PTL DEF KeySpec
<1> QED BY <1>1, KeyInvSuffices, PTL

-----------------------------------------------------------------------------
(* A chain of checks passes when each of them does. *)

Passed(error) == error = ""

LEMMA ChecksPass ==
    ASSUME NEW a, NEW b
    PROVE  Passed(a ?? b) <=> Passed(a) /\ Passed(b)
BY Zenon DEF Passed, ??
-----------------------------------------------------------------------------
(* What is picked from a sequence. *)

\* p has the elements of q at the positions I, each once.
Picks(p, q, I) ==
    \E m \in Nat : \E g \in [1..m -> I] :
        /\ p = [k \in 1..m |-> q[g[k]]]
        /\ \A j, k \in 1..m : g[j] = g[k] => j = k
        /\ \A i \in I : \E k \in 1..m : g[k] = i

LEMMA PicksNone == ASSUME NEW q PROVE Picks(<<>>, q, {})
<1> DEFINE g == [k \in 1..0 |-> 0]
<1>1. g \in [1..0 -> {}] /\ <<>> = [k \in 1..0 |-> q[g[k]]]
  OBVIOUS
<1> HIDE DEF g
<1> QED BY <1>1 DEF Picks

LEMMA PicksMore ==
    ASSUME NEW p, NEW q, NEW I, NEW i, i \notin I, Picks(p, q, I)
    PROVE  Picks(p \o <<q[i]>>, q, I \cup {i})
<1>0. PICK m \in Nat : \E g \in [1..m -> I] :
          /\ p = [k \in 1..m |-> q[g[k]]]
          /\ \A j, k \in 1..m : g[j] = g[k] => j = k
          /\ \A j \in I : \E k \in 1..m : g[k] = j
  BY DEF Picks
<1>1. PICK g \in [1..m -> I] :
          /\ p = [k \in 1..m |-> q[g[k]]]
          /\ \A j, k \in 1..m : g[j] = g[k] => j = k
          /\ \A j \in I : \E k \in 1..m : g[k] = j
  BY <1>0
<1> DEFINE h == [k \in 1..(m + 1) |-> IF k = m + 1 THEN i ELSE g[k]]
<1>2. /\ h \in [1..(m + 1) -> I \cup {i}]
      /\ \A k \in 1..m : h[k] = g[k]
      /\ h[m + 1] = i
  BY <1>1
<1> HIDE DEF h
<1>3. p \o <<q[i]>> = [k \in 1..(m + 1) |-> q[h[k]]]
  <2>1. p \in Seq({q[g[k]] : k \in 1..m}) /\ Len(p) = m
    BY <1>1
  <2>2. \A k \in 1..(m + 1) : k = m + 1 \/ k \in 1..m
    BY <1>1
  <2>3. \A k \in 1..m : (p \o <<q[i]>>)[k] = q[h[k]]
    BY <1>1, <1>2, <2>1
  <2>4. (p \o <<q[i]>>)[m + 1] = q[h[m + 1]]
    BY <1>1, <1>2, <2>1
  <2>5. /\ p \o <<q[i]>> = [k \in 1..(m + 1) |-> (p \o <<q[i]>>)[k]]
    BY <2>1
  <2> QED BY <2>2, <2>3, <2>4, <2>5
<1>4. \A j, k \in 1..(m + 1) : h[j] = h[k] => j = k
  BY <1>1, <1>2
<1>5. \A j \in I \cup {i} : \E k \in 1..(m + 1) : h[k] = j
  BY <1>1, <1>2
<1>6. m + 1 \in Nat
  BY <1>1
<1> QED BY <1>2, <1>3, <1>4, <1>5, <1>6 DEF Picks

LEMMA PicksAre ==
    ASSUME NEW p, NEW q, NEW I, Picks(p, q, I)
    PROVE  p \in Seq({q[i] : i \in I})
<1>1. PICK m \in Nat : \E g \in [1..m -> I] : p = [k \in 1..m |-> q[g[k]]]
  BY DEF Picks
<1>2. PICK g \in [1..m -> I] : p = [k \in 1..m |-> q[g[k]]]
  BY <1>1
<1>3. p \in [1..m -> {q[i] : i \in I}]
  BY <1>2
<1> QED BY <1>3

LEMMA ThoseArePicked ==
    ASSUME NEW n \in Nat, NEW q, DOMAIN q = 1..n, NEW I
    PROVE  Picks(Those(q, I), q, I \cap 1..n)
<1> DEFINE seqs == [i \in DOMAIN q |-> IF i \in I THEN <<q[i]>> ELSE <<>>]
<1>1. Those(q, I) = FlattenSeq(seqs) /\ Len(seqs) = n
  BY DEF Those
<1>2. \A i \in 1..n : seqs[i] = IF i \in I THEN <<q[i]>> ELSE <<>>
  OBVIOUS
<1>3. CASE n = 0
  <2>1. seqs = <<>>
    BY <1>3
  <2>2. Those(q, I) = <<>> /\ I \cap 1..n = {}
    BY <1>1, <1>3, <2>1 DEF FlattenSeq
  <2> QED BY <2>2, PicksNone
<1>4. CASE n # 0
  <2> DEFINE f == CHOOSE g : Flattens(g, seqs, Len(seqs))
  <2>1. Flattens(f, seqs, n)
    BY <1>1, FlatteningEnds
  <2>2. FlattenSeq(seqs) = f[n]
    BY <1>1, <1>4 DEF FlattenSeq, Flattens
  <2> HIDE DEF f, seqs
  <2>3. \A i \in 1..n : f[i] = IF i = 1 THEN seqs[i] ELSE f[i - 1] \o seqs[i]
    BY <2>1 DEF Flattens
  <2> DEFINE Good(i) == Picks(f[i], q, I \cap 1..i)
             Bad == {i \in 1..n : ~Good(i)}
  <2>4. SUFFICES ASSUME Bad # {} PROVE FALSE
    <3>1. n \in 1..n
      BY <1>4
    <3> QED BY <1>1, <2>2, <3>1
  <2>5. PICK m \in Bad : \A k \in Bad : m <= k
    <3>1. Bad \in SUBSET Nat
      OBVIOUS
    <3> QED BY <2>4, <3>1, LeastOf
  <2>6. m \in 1..n /\ ~Good(m)
    BY <2>5
  <2> DEFINE p == IF m = 1 THEN <<>> ELSE f[m - 1]
  <2>7. Picks(p, q, I \cap 1..(m - 1))
    <3>1. CASE m = 1
      BY <3>1, PicksNone
    <3>2. CASE m # 1
      <4>1. m - 1 \in 1..n /\ ~(m <= m - 1)
        BY <2>6, <3>2
      <4>2. m - 1 \notin Bad
        BY <2>5, <4>1
      <4> QED BY <3>2, <4>1, <4>2
    <3> QED BY <3>1, <3>2
  <2>8. \E S : p \in Seq(S)
    BY <2>7, PicksAre
  <2>9. f[m] = p \o seqs[m]
    <3>1. CASE m = 1
      <4>1. \E S : seqs[m] \in Seq(S)
        <5>1. seqs[m] \in {<<q[m]>>, <<>>}
          BY <1>2, <2>6
        <5>2. <<q[m]>> \in Seq({q[m]}) /\ <<>> \in Seq({q[m]})
          OBVIOUS
        <5> QED BY <5>1, <5>2
      <4> QED BY <2>3, <2>6, <3>1, <4>1
    <3>2. CASE m # 1
      BY <2>3, <2>6, <3>2
    <3> QED BY <3>1, <3>2
  <2> HIDE DEF p
  <2>10. CASE m \in I
    <3>1. f[m] = p \o <<q[m]>>
      BY <1>2, <2>6, <2>9, <2>10
    <3>2. I \cap 1..m = (I \cap 1..(m - 1)) \cup {m} /\ m \notin I \cap 1..(m - 1)
      BY <2>6, <2>10
    <3>3. Picks(p \o <<q[m]>>, q, (I \cap 1..(m - 1)) \cup {m})
      BY <2>7, <3>2, PicksMore
    <3>4. Good(m)
      BY <3>1, <3>2, <3>3
    <3> QED BY <2>6, <3>4
  <2>11. CASE m \notin I
    <3>1. f[m] = p \o <<>>
      BY <1>2, <2>6, <2>9, <2>11
    <3>3. f[m] = p
      BY <2>8, <3>1
    <3>2. I \cap 1..m = I \cap 1..(m - 1)
      BY <2>6, <2>11
    <3> QED BY <2>6, <2>7, <3>2, <3>3
  <2> QED BY <2>10, <2>11
<1> QED BY <1>3, <1>4

\* Everything that is picked is everything, in its order.
LEMMA AllOfThose ==
    ASSUME NEW n \in Nat, NEW S, NEW q \in [1..n -> S], NEW I, 1..n \subseteq I
    PROVE  Those(q, I) = q
<1> DEFINE seqs == [i \in DOMAIN q |-> IF i \in I THEN <<q[i]>> ELSE <<>>]
<1>1. Those(q, I) = FlattenSeq(seqs) /\ Len(seqs) = n
  BY DEF Those
<1>2. \A i \in 1..n : seqs[i] = <<q[i]>>
  OBVIOUS
<1>3. CASE n = 0
  <2>1. seqs = <<>> /\ q = <<>>
    BY <1>3
  <2> QED BY <1>1, <1>3, <2>1 DEF FlattenSeq
<1>4. CASE n # 0
  <2> DEFINE f == CHOOSE g : Flattens(g, seqs, Len(seqs))
  <2>1. Flattens(f, seqs, n)
    BY <1>1, FlatteningEnds
  <2>2. FlattenSeq(seqs) = f[n]
    BY <1>1, <1>4 DEF FlattenSeq, Flattens
  <2> HIDE DEF f, seqs
  <2>3. \A i \in 1..n : f[i] = IF i = 1 THEN seqs[i] ELSE f[i - 1] \o seqs[i]
    BY <2>1 DEF Flattens
  <2> DEFINE Bad == {i \in 1..n : f[i] # [k \in 1..i |-> q[k]]}
  <2>4. SUFFICES ASSUME Bad # {} PROVE FALSE
    <3>1. n \in 1..n
      BY <1>4
    <3> QED BY <1>1, <2>2, <3>1
  <2>5. PICK m \in Bad : \A k \in Bad : m <= k
    <3>1. Bad \in SUBSET Nat
      OBVIOUS
    <3> QED BY <2>4, <3>1, LeastOf
  <2>6. m \in 1..n
    BY <2>5
  <2>7. CASE m = 1
    <3>1. f[m] = <<q[1]>>
      BY <1>2, <2>3, <2>6, <2>7
    <3>2. <<q[1]>> = [k \in 1..1 |-> q[k]]
      OBVIOUS
    <3> QED BY <2>5, <2>7, <3>1, <3>2
  <2>8. CASE m # 1
    <3>1. m - 1 \in 1..n /\ ~(m <= m - 1)
      BY <2>6, <2>8
    <3>2. f[m - 1] = [k \in 1..(m - 1) |-> q[k]]
      BY <2>5, <3>1
    <3>3. f[m] = [k \in 1..(m - 1) |-> q[k]] \o <<q[m]>>
      BY <1>2, <2>3, <2>6, <2>8, <3>2
    <3> DEFINE r == [k \in 1..(m - 1) |-> q[k]]
    <3>4. r \in Seq(S) /\ Len(r) = m - 1 /\ q[m] \in S /\ \A k \in 1..(m - 1) : r[k] = q[k]
      BY <2>6, <3>1
    <3> HIDE DEF r
    <3>5. r \o <<q[m]>> = [k \in 1..m |-> q[k]]
      BY <2>6, <3>1, <3>4
    <3> QED BY <2>5, <3>3, <3>5 DEF r
  <2> QED BY <2>7, <2>8
<1> QED BY <1>3, <1>4

\* A sequence of no or of one element of a set.
LEMMA SmallSequences ==
    /\ SetToSeq({}) = <<>>
    /\ \A x : SetToSeq({x}) = <<x>>
<1>1. SetToSeq({}) = <<>>
  <2>1. Cardinality({}) = 0
    BY FS_EmptySet
  <2>2. ASSUME NEW f \in [1..0 -> {}] PROVE f = <<>>
    <3>1. f \in Seq({}) /\ Len(f) = 0
      OBVIOUS
    <3> QED BY <3>1
  <2>4. <<>> \in [1..0 -> {}]
    OBVIOUS
  <2>3. IsInjective(<<>>)
    BY DEF IsInjective
  <2> QED BY <2>1, <2>2, <2>3, <2>4 DEF SetToSeq
<1>2. ASSUME NEW x PROVE SetToSeq({x}) = <<x>>
  <2>1. Cardinality({x}) = 1
    BY FS_Singleton
  <2>2. \A f : f \in [1..1 -> {x}] <=> f = <<x>>
    OBVIOUS
  <2>3. IsInjective(<<x>>)
    BY DEF IsInjective
  <2> QED BY <2>1, <2>2, <2>3 DEF SetToSeq
<1> QED BY <1>1, <1>2
-----------------------------------------------------------------------------
(* What the library makes of what it signed. *)

IsFunction(f) == f = [k \in DOMAIN f |-> f[k]]

\* An object with its optional members.
LEMMA WithIs ==
    ASSUME NEW f, NEW o, NEW w, w = With(f, o)
    PROVE  /\ IsFunction(w)
           /\ \A k : k \in DOMAIN w <=> k \in DOMAIN f \/ (k \in DOMAIN o /\ o[k] # <<>>)
           /\ \A k \in DOMAIN o : o[k] # <<>> => w[k] = o[k][1]
           /\ \A k \in DOMAIN f : k \notin DOMAIN o => w[k] = f[k]
           /\ \A k \in DOMAIN f : o[k] = <<>> => w[k] = f[k]
BY DEF With, IsFunction

\* An object that hides nothing and holds no other.
FlatObject(f) == IsFunction(f) /\ sdClaim \notin DOMAIN f /\ \A k \in DOMAIN f : IsLeaf(f[k])

LEMMA KindsDiffer ==
    /\ \A f : IsObj(Obj(f)) /\ ~IsArr(Obj(f)) /\ Content(Obj(f)) = f
    /\ \A q : IsArr(Arr(q)) /\ ~IsObj(Arr(q)) /\ Content(Arr(q)) = q
    /\ \A s : IsLeaf(Str(s)) /\ Content(Str(s)) = s
    /\ \A n : IsLeaf(Num(n)) /\ Content(Num(n)) = n
    /\ \A a, x : IsLeaf(Hash(a, x)) /\ Committed(Hash(a, x)) = x
    /\ \A h : IsPlaceholder(Placeholder(h)) /\ DigestIn(Placeholder(h)) = h
    /\ \A s, n, v : Value(Disclosure(s, n, v)) = v /\ Name(Disclosure(s, n, v)) = n
BY DEF IsObj, IsArr, Obj, Arr, Content, Str, Num, IsLeaf, Hash, Committed, IsPlaceholder,
       Placeholder, DigestIn, Value, Name, Disclosure

ClaimNames ==
    {"vct", "cnf", "constraints", "iat", "exp", "payee", "payment_amount", "payment_instrument",
     "execution_date", "transaction_id", "checkout_jwt", "checkout_hash", "type", "expression",
     "jwk", "nonce", "aud", "sd_hash", "delegate_payload"}

LEMMA NamesDiffer ==
    /\ sdClaim # sdAlgClaim /\ sdClaim # arrayDigestKey /\ sdAlgClaim # arrayDigestKey
    /\ \A name \in ClaimNames : name \notin Reserved
BY DEF sdClaim, sdAlgClaim, arrayDigestKey, Reserved, ClaimNames

\* A delegated payload of one object that is shown is that object.
LEMMA ProcessedElement ==
    ASSUME NEW h, NEW f, NEW shown, h \in shown, Value(Committed(h)) = Obj(f), FlatObject(f)
    PROVE  process(Arr(<<Placeholder(h)>>), shown) = Arr(<<Obj(f)>>)
<1> DEFINE q == <<Placeholder(h)>>
<1>1. \A x : IsLeaf(x) => processElement(x, shown) = x
  BY Zenon DEF processElement
<1>2. processNode(Obj(f), shown) = f
  <2>1. processNode(Obj(f), shown) = processObject(f, shown)
    BY KindsDiffer DEF processNode
  <2>2. processObject(f, shown) = [k \in DOMAIN f |-> f[k]]
    BY DEF processObject, FlatObject
  <2> QED BY <2>1, <2>2 DEF FlatObject, IsFunction
<1>3. processMember(Obj(f), shown) = Obj(f)
  <2>1. processMember(Obj(f), shown) = <<"obj", [k \in DOMAIN f |-> processElement(f[k], shown)]>>
    <3>1. Obj(f)[1] = "obj" /\ ~IsLeaf(Obj(f))
      BY KindsDiffer DEF IsLeaf, Obj
    <3> QED BY <1>2, <3>1 DEF processMember
  <2>2. [k \in DOMAIN f |-> processElement(f[k], shown)] = [k \in DOMAIN f |-> f[k]]
    BY <1>1 DEF FlatObject
  <2> QED BY <2>1, <2>2 DEF FlatObject, IsFunction, Obj
<1>4. processNode(Arr(q), shown) = <<Obj(f)>>
  <2>1. processNode(Arr(q), shown) = processArray(q, shown)
    BY KindsDiffer DEF processNode
  <2>2. processArray(q, shown) = Those([i \in {1} |-> Obj(f)], {1})
    BY KindsDiffer DEF processArray
  <2>3. [i \in {1} |-> Obj(f)] = <<Obj(f)>>
    OBVIOUS
  <2>4. <<Obj(f)>> \in [1..1 -> {Obj(f)}]
    OBVIOUS
  <2> QED BY <2>1, <2>2, <2>3, <2>4, AllOfThose
<1> DEFINE one == <<Obj(f)>>
<1>5. process(Arr(q), shown) = <<"arr", [k \in DOMAIN one |-> processMember(one[k], shown)]>>
  <2>1. Arr(q)[1] = "arr" /\ ~IsLeaf(Arr(q))
    BY KindsDiffer DEF IsLeaf, Arr
  <2> QED BY <1>4, <2>1 DEF process
<1>6. [k \in DOMAIN one |-> processMember(one[k], shown)] = one
  BY <1>3
<1> QED BY <1>5, <1>6 DEF Arr


Shallow(v) == IsLeaf(v) \/ (\E g : v = Obj(g) /\ FlatObject(g))
Carries(h, e, n) == \A i \in 1..n : Value(Committed(h[i])) = Obj(e[i]) /\ FlatObject(e[i])
Placeholders(h, n) == Arr([i \in 1..n |-> Placeholder(h[i])])
ThoseOf(e, n, h, shown) == Arr(Those([i \in 1..n |-> Obj(e[i])], {i \in 1..n : h[i] \in shown}))
Replaced(f, list, v) == [f EXCEPT ![list] = v]

\* Of an object that holds a list of hidden objects, the payload has those that
\* are shown, and the rest as it was signed.
LEMMA ProcessedList ==
    ASSUME NEW n \in Nat, NEW f, NEW list, NEW h, NEW e, NEW shown,
           IsFunction(f), sdClaim \notin DOMAIN f,
           list \in DOMAIN f, f[list] = Placeholders(h, n),
           \A k \in DOMAIN f \ {list} : Shallow(f[k]), Carries(h, e, n)
    PROVE  process(Obj(f), shown) = Obj(Replaced(f, list, ThoseOf(e, n, h, shown)))
<1> USE DEF Shallow, Carries, Placeholders, ThoseOf, Replaced
<1> DEFINE q == [i \in 1..n |-> Placeholder(h[i])]
           I == {i \in 1..n : h[i] \in shown}
           objects == [i \in 1..n |-> Obj(e[i])]
           those == Those(objects, I)
<1>1. \A x : IsLeaf(x) => /\ processLeaf(x) = x
                         /\ processElement(x, shown) = x /\ processMember(x, shown) = x
  BY Zenon DEF processLeaf, processElement, processMember
<1>2. ASSUME NEW g, FlatObject(g)
      PROVE  processElement(Obj(g), shown) = Obj(g) /\ processMember(Obj(g), shown) = Obj(g)
  <2>1. processNode(Obj(g), shown) = [k \in DOMAIN g |-> g[k]]
    <3>1. processNode(Obj(g), shown) = processObject(g, shown)
      BY KindsDiffer DEF processNode
    <3> QED BY <1>2, <3>1 DEF processObject, FlatObject
  <2>2. processNode(Obj(g), shown) = g
    BY <1>2, <2>1 DEF FlatObject, IsFunction
  <2>3. /\ processElement(Obj(g), shown) =
             <<"obj", [k \in DOMAIN g |-> processLeaf(g[k])]>>
        /\ processMember(Obj(g), shown) =
             <<"obj", [k \in DOMAIN g |-> processElement(g[k], shown)]>>
    <3>1. Obj(g)[1] = "obj" /\ ~IsLeaf(Obj(g))
      BY KindsDiffer DEF IsLeaf, Obj
    <3> QED BY <2>2, <3>1 DEF processElement, processMember
  <2>4. /\ [k \in DOMAIN g |-> processLeaf(g[k])] = [k \in DOMAIN g |-> g[k]]
        /\ [k \in DOMAIN g |-> processElement(g[k], shown)] = [k \in DOMAIN g |-> g[k]]
    BY <1>1, <1>2 DEF FlatObject
  <2> QED BY <1>2, <2>3, <2>4 DEF FlatObject, IsFunction, Obj
<1>3. processMember(Arr(q), shown) = Arr(those)
  <2> DEFINE value(v) == IF IsPlaceholder(v) THEN Value(Committed(DigestIn(v))) ELSE v
             all == [i \in DOMAIN q |-> value(q[i])]
             met == {i \in DOMAIN q : IsPlaceholder(q[i]) => DigestIn(q[i]) \in shown}
  <2>1. processNode(Arr(q), shown) = Those(all, met)
    <3>1. processNode(Arr(q), shown) = processArray(q, shown)
      BY KindsDiffer DEF processNode
    <3> QED BY <3>1 DEF processArray
  <2>2. met = I
    BY KindsDiffer
  <2>3. \A i \in 1..n : value(q[i]) = Obj(e[i])
    BY KindsDiffer
  <2>4. all = objects
    <3> HIDE DEF value
    <3> QED BY <2>3
  <2>5. processNode(Arr(q), shown) = those
    BY <2>1, <2>2, <2>4
  <2>6. processMember(Arr(q), shown) = <<"arr", [k \in DOMAIN those |-> processElement(those[k], shown)]>>
    <3>1. Arr(q)[1] = "arr" /\ ~IsLeaf(Arr(q))
      BY KindsDiffer DEF IsLeaf, Arr
    <3> HIDE DEF q, those
    <3> QED BY <2>5, <3>1 DEF processMember
  <2> DEFINE S == {objects[i] : i \in I \cap 1..n}
  <2>7. those \in Seq(S)
    <3>1. DOMAIN objects = 1..n
      OBVIOUS
    <3> HIDE DEF objects, I
    <3>2. Picks(those, objects, I \cap 1..n)
      BY <3>1, ThoseArePicked
    <3> QED BY <3>2, PicksAre
  <2>8. \A x \in S : processElement(x, shown) = x
    BY <1>2
  <2> HIDE DEF those, S
  <2>9. [k \in DOMAIN those |-> processElement(those[k], shown)] = those
    BY <2>7, <2>8
  <2> QED BY <2>6, <2>9 DEF Arr
<1> HIDE DEF I, those, objects
<1>4. process(Obj(f), shown) = Obj([k \in DOMAIN f |-> processMember(f[k], shown)])
  <2>1. processNode(Obj(f), shown) = processObject(f, shown)
    BY KindsDiffer DEF processNode
  <2>2. processObject(f, shown) = [k \in DOMAIN f |-> f[k]]
    BY DEF processObject
  <2>3. processNode(Obj(f), shown) = f
    BY <2>1, <2>2 DEF IsFunction
  <2>4. Obj(f)[1] = "obj" /\ ~IsLeaf(Obj(f))
    BY KindsDiffer DEF IsLeaf, Obj
  <2> QED BY <2>3, <2>4 DEF process, Obj
<1>5. [k \in DOMAIN f |-> processMember(f[k], shown)] = [f EXCEPT ![list] = Arr(those)]
  <2>1. \A k \in DOMAIN f \ {list} : processMember(f[k], shown) = f[k]
    BY <1>1, <1>2
  <2> DEFINE g == [f EXCEPT ![list] = Arr(those)]
  <2>2. /\ g = [k \in DOMAIN f |-> g[k]]
        /\ \A k \in DOMAIN f \ {list} : g[k] = f[k]
        /\ g[list] = Arr(those)
    BY DEF IsFunction
  <2> HIDE DEF g
  <2>3. \A k \in DOMAIN f : processMember(f[k], shown) = g[k]
    BY <1>3, <2>1, <2>2
  <2> QED BY <2>2, <2>3 DEF g
<1> QED BY <1>4, <1>5 DEF I, those, objects
-----------------------------------------------------------------------------
(* Checks and what has been checked when they pass. *)

LEMMA FreshFor ==
    ASSUME NEW claims, NEW want, NEW t, Passed(freshnessError(claims, want, t))
    PROVE  Content(claims.nonce) = want.nonce /\ Content(claims.aud) = want.aud
BY Zenon DEF freshnessError, Passed, Refuse

LEMMA DelegationChecked ==
    ASSUME NEW chain, NEW key, NEW want, NEW t
    PROVE  Passed(ChainDelegationError(chain, key, want, t)) <=>
           /\ chain.jwt[2].typ = DelegateType
           /\ Passed(SignatureError(chain.jwt, key))
           /\ Passed(bindingError(chain, Delegating(chain), want.requireSDHash))
           /\ Passed(freshnessError(Delegating(chain), want, t))
           /\ DelegatedHashAlg(chain) \in HashAlgs
           /\ Passed(ProcessError(Delegating(chain)["delegate_payload"], chain.disclosures,
                                  DelegatedHashAlg(chain)))
           /\ Len(Elements(chain)) = 1
           /\ Passed(checkValidity(Delegated(chain), t))
<1> DEFINE typed == Refuse(chain.jwt[2].typ # DelegateType, "key binding invalid")
           signed == SignatureError(chain.jwt, key)
           bound == bindingError(chain, Delegating(chain), want.requireSDHash)
           fresh == freshnessError(Delegating(chain), want, t)
           hashed == Refuse(DelegatedHashAlg(chain) \notin HashAlgs, "unsupported hash algorithm")
           processed == ProcessError(Delegating(chain)["delegate_payload"], chain.disclosures,
                                     DelegatedHashAlg(chain))
           single == Refuse(Len(Elements(chain)) # 1, "delegate payload invalid")
           valid == checkValidity(Delegated(chain), t)
<1>1. ChainDelegationError(chain, key, want, t) =
      typed ?? signed ?? bound ?? fresh ?? hashed ?? processed ?? single ?? valid
  BY Zenon DEF ChainDelegationError
<1>2. Passed(hashed) <=> DelegatedHashAlg(chain) \in HashAlgs
  BY Zenon DEF Passed, Refuse
<1>3. Passed(single) <=> Len(Elements(chain)) = 1
  BY Zenon DEF Passed, Refuse
<1>4. Passed(typed) <=> chain.jwt[2].typ = DelegateType
  BY Zenon DEF Passed, Refuse
<1> HIDE DEF typed, signed, bound, fresh, hashed, processed, single, valid
<1>5. Passed(ChainDelegationError(chain, key, want, t)) <=>
      /\ Passed(typed) /\ Passed(signed) /\ Passed(bound) /\ Passed(fresh)
      /\ Passed(hashed) /\ Passed(processed) /\ Passed(single) /\ Passed(valid)
  BY <1>1, ChecksPass
<1> QED BY Zenon, <1>2, <1>3, <1>4, <1>5
        DEF typed, signed, bound, fresh, hashed, processed, single, valid

LEMMA ChainChecked ==
    ASSUME NEW chain, NEW r, NEW n, NEW t, Passed(ChainError(chain, r, n, t))
    PROVE  \E key, want :
              /\ want = [nonce |-> n, aud |-> r.audience, maxAge |-> 0, requireSDHash |-> TRUE]
              /\ Passed(ChainRootError(chain, r.issuer, want, t))
              /\ Passed(ChainDelegationError(chain, key, want, t))
BY Zenon, ChecksPass DEF ChainError

LEMMA ChainAnswers ==
    ASSUME NEW chain, NEW r, NEW n, NEW t, Passed(ChainError(chain, r, n, t))
    PROVE  Content(Delegating(chain).nonce) = n /\ Content(Delegating(chain).aud) = r.audience
<1>1. PICK key, want :
              /\ want = [nonce |-> n, aud |-> r.audience, maxAge |-> 0, requireSDHash |-> TRUE]
              /\ Passed(ChainDelegationError(chain, key, want, t))
  BY ChainChecked
<1>2. Passed(freshnessError(Delegating(chain), want, t))
  BY <1>1, DelegationChecked
<1>3. want.nonce = n /\ want.aud = r.audience
  BY <1>1
<1> QED BY <1>2, <1>3, FreshFor

LEMMA CheckoutChecked ==
    ASSUME NEW chain, NEW s, NEW offer, NEW r, NEW n, NEW t,
           Passed(AuthoriseCheckoutChainError(chain, s, offer, r, n, t))
    PROVE  /\ Passed(ChainError(chain, r, n, t))
           /\ Passed(AuthoriseCheckoutError(decodeOpen(Payload(chain.root)), s, t))
           /\ Passed(CoversError(BindingIn(chain, decodeCheckout(Delegated(chain)).hash),
                                 bindingSubject(decodeCheckout(Delegated(chain)).checkout, <<offer>>)))
<1> DEFINE root == Payload(chain.root)
           delegated == Delegated(chain)
           closed == decodeCheckout(delegated)
           a == ChainError(chain, r, n, t)
           b == openChainError(chain, root, delegated, r, openCheckout, closedCheckout)
           c == decodeCheckoutError(delegated)
           d == bindingSubjectError(closed.checkout, <<offer>>)
           e == CoversError(BindingIn(chain, closed.hash), bindingSubject(closed.checkout, <<offer>>))
           f == AuthoriseCheckoutError(decodeOpen(root), s, t)
<1>1. AuthoriseCheckoutChainError(chain, s, offer, r, n, t) = a ?? b ?? c ?? d ?? e ?? f
  BY DEF AuthoriseCheckoutChainError
<1> HIDE DEF a, b, c, d, e, f
<1>2. Passed(a ?? b ?? c ?? d ?? e ?? f) <=>
      Passed(a) /\ Passed(b) /\ Passed(c) /\ Passed(d) /\ Passed(e) /\ Passed(f)
  BY ChecksPass
<1> QED BY <1>1, <1>2 DEF a, b, c, d, e, f

LEMMA PaymentChecked ==
    ASSUME NEW chain, NEW r, NEW n, NEW t
    PROVE  Passed(AuthorisePaymentChainError(chain, r, n, t)) <=>
           /\ Passed(ChainError(chain, r, n, t))
           /\ Passed(openChainError(chain, Payload(chain.root), Delegated(chain), r, openPayment,
                                    closedPayment))
           /\ Passed(decodePaymentError(Delegated(chain)))
           /\ Passed(AuthorisePaymentError(decodeOpen(Payload(chain.root)),
                                           decodePayment(Delegated(chain)),
                                           PaymentSubject(decodePayment(Delegated(chain)), t), t))
<1> DEFINE root == Payload(chain.root)
           delegated == Delegated(chain)
           closed == decodePayment(delegated)
           a == ChainError(chain, r, n, t)
           b == openChainError(chain, root, delegated, r, openPayment, closedPayment)
           c == decodePaymentError(delegated)
           d == AuthorisePaymentError(decodeOpen(root), closed, PaymentSubject(closed, t), t)
<1>1. AuthorisePaymentChainError(chain, r, n, t) = a ?? b ?? c ?? d
  BY DEF AuthorisePaymentChainError
<1> HIDE DEF a, b, c, d
<1>2. Passed(a ?? b ?? c ?? d) <=> Passed(a) /\ Passed(b) /\ Passed(c) /\ Passed(d)
  BY ChecksPass
<1> QED BY <1>1, <1>2 DEF a, b, c, d
-----------------------------------------------------------------------------
(* What a delegation is. *)

\* The disclosure a delegated payload travels in.
Wrapper(salt, content) ==
    Disclosure(<<salt, "delegate_payload", 1>>, Unnamed, Obj(Without(content, {sdAlgClaim})))

Led(d, q) == <<d>> \o q
Header(key) == [alg |-> key.alg, typ |-> DelegateType]
Sole(h) == Arr(<<Placeholder(h)>>)
DelegationNames == {"nonce", "aud", "iat", "sd_hash", "delegate_payload", sdAlgClaim}

LEMMA DelegationIs ==
    ASSUME NEW sd, NEW key, NEW b, NEW content, NEW shown, NEW alg, NEW salt,
           NEW chain, chain = Delegate(sd, key, b, content, shown, alg, salt)
    PROVE  /\ chain.root = sd
           /\ chain.disclosures = Led(Wrapper(salt, content), shown)
           /\ chain.jwt[2] = Header(key)
           /\ chain.jwt[4] = key
           /\ Content(Delegating(chain)["nonce"]) = b.nonce
           /\ Content(Delegating(chain)["aud"]) = b.aud
           /\ Content(Delegating(chain)["iat"]) = b.iat
           /\ Delegating(chain)["sd_hash"] = SDHash(sd)
           /\ DOMAIN Delegating(chain) = DelegationNames
           /\ Delegating(chain)["delegate_payload"] = Sole(Hash(alg, Wrapper(salt, content)))
           /\ DelegatedHashAlg(chain) = alg
<1> DEFINE wrapper == Wrapper(salt, content)
           stated == [nonce |-> Num(b.nonce), aud |-> Str(b.aud), iat |-> Num(b.iat),
                      sd_hash |-> SDHash(sd),
                      delegate_payload |-> Arr(<<Placeholder(Hash(alg, wrapper))>>)]
           named == [c \in {sdAlgClaim} |-> <<Str(alg)>>]
           claims == With(stated, named)
<1>1. chain = [root |-> sd, jwt |-> SignJWT(key, DelegateType, claims, salt),
               disclosures |-> <<wrapper>> \o shown]
  BY DEF Delegate, Wrapper
<1>2. /\ DOMAIN stated = {"nonce", "aud", "iat", "sd_hash", "delegate_payload"}
      /\ stated["nonce"] = Num(b.nonce) /\ stated["aud"] = Str(b.aud) /\ stated["iat"] = Num(b.iat)
      /\ stated["sd_hash"] = SDHash(sd)
      /\ stated["delegate_payload"] = Arr(<<Placeholder(Hash(alg, wrapper))>>)
  OBVIOUS
<1>3. /\ DOMAIN named = {sdAlgClaim} /\ named[sdAlgClaim] # <<>> /\ named[sdAlgClaim][1] = Str(alg)
  OBVIOUS
<1>0. claims = With(stated, named)
  OBVIOUS
<1> HIDE DEF stated, named, wrapper, claims
<1>4. /\ DOMAIN claims = DOMAIN stated \cup {sdAlgClaim}
      /\ claims[sdAlgClaim] = Str(alg)
      /\ \A k \in DOMAIN stated : claims[k] = stated[k]
  <2>1. sdAlgClaim \notin DOMAIN stated
    BY <1>2, NamesDiffer DEF ClaimNames, Reserved
  <2>2. \A k : k \in DOMAIN claims <=> k \in DOMAIN stated \cup {sdAlgClaim}
    BY <1>3, <1>0, WithIs
  <2>3. claims[sdAlgClaim] = Str(alg)
    BY <1>3, <1>0, WithIs
  <2>4. \A k \in DOMAIN stated : claims[k] = stated[k]
    BY <1>3, <1>0, <2>1, WithIs
  <2> QED BY <2>2, <2>3, <2>4
<1>5. Delegating(chain) = claims
  BY <1>1 DEF Delegating, Claims, SignJWT
<1>6. chain.jwt[2] = [alg |-> key.alg, typ |-> DelegateType] /\ chain.jwt[4] = key
  BY <1>1 DEF SignJWT
<1>7. chain.root = sd /\ chain.disclosures = <<wrapper>> \o shown
  BY <1>1
<1>8. DelegatedHashAlg(chain) = alg
  BY <1>4, <1>5, KindsDiffer DEF DelegatedHashAlg, hashAlgOf
<1> QED BY <1>2, <1>4, <1>5, <1>6, <1>7, <1>8, KindsDiffer
        DEF wrapper, Led, Header, Sole, DelegationNames

\* A payload that hides nothing is what is delegated.
LEMMA DelegatedIs ==
    ASSUME NEW sd, NEW key, NEW b, NEW content, NEW alg, NEW salt, NEW chain,
           NEW S, NEW more \in Seq(S), chain = Delegate(sd, key, b, content, more, alg, salt),
           FlatObject(content), sdAlgClaim \notin DOMAIN content
    PROVE  Elements(chain) = <<Obj(content)>> /\ Delegated(chain) = content
<1> DEFINE wrapper == Wrapper(salt, content)
           shown == {Hash(alg, d) : d \in ToSet(chain.disclosures)}
<1>1. Without(content, {sdAlgClaim}) = content
  BY DEF Without, FlatObject, IsFunction
<1>2. /\ chain.disclosures = Led(wrapper, more)
      /\ Delegating(chain)["delegate_payload"] = Sole(Hash(alg, wrapper))
      /\ DelegatedHashAlg(chain) = alg
  BY DelegationIs
<1>3. Value(wrapper) = Obj(content)
  BY <1>1, KindsDiffer DEF Wrapper
<1> HIDE DEF wrapper
<1>4. wrapper \in ToSet(chain.disclosures)
  <2>1. <<wrapper>> \in Seq({wrapper}) /\ <<wrapper>>[1] = wrapper /\ Len(<<wrapper>>) = 1
    OBVIOUS
  <2>2. 1 \in 1..Len(chain.disclosures) /\ chain.disclosures[1] = wrapper
    BY <1>2, <2>1 DEF Led
  <2> QED BY <2>2 DEF ToSet
<1>5. process(Sole(Hash(alg, wrapper)), shown) = Arr(<<Obj(content)>>)
  BY <1>3, <1>4, KindsDiffer, ProcessedElement DEF Sole
<1>8. Elements(chain) = Content(process(Sole(Hash(alg, wrapper)), shown))
  BY <1>2 DEF Elements, Processed
<1>6. Elements(chain) = <<Obj(content)>>
  BY <1>5, <1>8, KindsDiffer
<1>7. Delegated(chain) = content
  BY <1>1, <1>6, KindsDiffer DEF Delegated
<1> QED BY <1>6, <1>7

\* Claims of which nothing is hidden are signed as they are.
LEMMA BlindNothing ==
    ASSUME NEW claims, IsFunction(claims), NEW alg, NEW salt,
           sdClaim \notin DOMAIN claims, sdAlgClaim \notin DOMAIN claims
    PROVE  /\ Blind(claims, {}, alg, salt).payload = claims
           /\ Blind(claims, {}, alg, salt).disclosures = <<>>
<1> DEFINE arrays == {p.name : p \in {q \in {} : q.array}}
           members == {p.name : p \in {q \in {} : ~q.array}}
           elements(a) == [i \in DOMAIN Content(claims[a]) |->
                             Disclosure(<<salt, a, i>>, Unnamed, Content(claims[a])[i])]
           member(n) == Disclosure(<<salt, n, 0>>, n, claims[n])
           hidden(a) == Arr([i \in DOMAIN elements(a) |-> Placeholder(Hash(alg, elements(a)[i]))])
           order == SetToSeq(arrays)
           lists == [k \in DOMAIN order |-> elements(order[k])]
           disclosures == FlattenSeq(lists) \o SetToSeq({member(n) : n \in members})
           added == [c \in {sdClaim, sdAlgClaim} |->
                       CASE c = sdClaim /\ members # {} ->
                               << <<"set", {Hash(alg, member(n)) : n \in members}>> >>
                         [] c = sdAlgClaim /\ disclosures # <<>> -> <<Str(alg)>>
                         [] OTHER -> <<>>]
           kept == [c \in DOMAIN claims \ members |-> IF c \in arrays THEN hidden(c) ELSE claims[c]]
<1>1. arrays = {} /\ members = {}
  OBVIOUS
<1>2. Blind(claims, {}, alg, salt) = [payload |-> With(kept, added), disclosures |-> disclosures]
  BY DEF Blind
<1> HIDE DEF arrays, members, elements, member, hidden
<1>3. order = <<>> /\ lists = <<>>
  BY <1>1, SmallSequences
<1>4. FlattenSeq(<<>>) = <<>>
  BY DEF FlattenSeq
<1>5. {member(n) : n \in members} = {}
  BY <1>1
<1>6. disclosures = <<>>
  BY <1>3, <1>4, <1>5, SmallSequences
<1> HIDE DEF disclosures, lists, order
<1>7. \A c \in {sdClaim, sdAlgClaim} : added[c] = <<>>
  BY <1>1, <1>6
<1>8. DOMAIN added = {sdClaim, sdAlgClaim}
  OBVIOUS
<1>9. kept = claims
  BY <1>1 DEF IsFunction
<1> HIDE DEF added, kept
<1>10. With(kept, added) = claims
  BY <1>7, <1>8, <1>9 DEF With, IsFunction
<1> QED BY <1>2, <1>6, <1>10
-----------------------------------------------------------------------------
(* The payment the agent presents. *)

\* What the payment mandate of p claims, whoever it is presented to.
Paid(p) == bindPayment(closedPaymentOf(p, buys[p].signedAt), Offer(p), AgentAlg)

PaidNames ==
    {"vct", "payee", "payment_amount", "payment_instrument", "iat", "exp", "transaction_id"}

LEMMA PaymentClaims ==
    ASSUME NEW m, NEW offer, NEW alg, m.date = <<>>,
           IsLeaf(m.payee), IsLeaf(m.amount), IsLeaf(m.instrument),
           NEW claims, claims = bindPayment(m, offer, alg)
    PROVE  /\ FlatObject(claims)
           /\ DOMAIN claims = PaidNames
           /\ claims["vct"] = Str(closedPayment)
           /\ claims["payee"] = m.payee
           /\ claims["payment_amount"] = m.amount
           /\ claims["payment_instrument"] = m.instrument
           /\ claims["iat"] = Num(m.issuedAt)
           /\ claims["exp"] = Num(m.expiresAt)
           /\ claims["transaction_id"] = Hash(alg, offer)
<1> DEFINE stated == [vct |-> Str(closedPayment), payee |-> m.payee, payment_amount |-> m.amount,
                      payment_instrument |-> m.instrument,
                      iat |-> Num(m.issuedAt), exp |-> Num(m.expiresAt)]
           dated == [execution_date |-> m.date]
           bound == [transaction_id |-> <<Hash(alg, offer)>>]
           first == With(stated, dated)
<1>1. claims = With(first, bound)
  BY DEF bindPayment, paymentClaims
<1>2. /\ DOMAIN stated = {"vct", "payee", "payment_amount", "payment_instrument", "iat", "exp"}
      /\ stated["vct"] = Str(closedPayment) /\ stated["payee"] = m.payee
      /\ stated["payment_amount"] = m.amount /\ stated["payment_instrument"] = m.instrument
      /\ stated["iat"] = Num(m.issuedAt) /\ stated["exp"] = Num(m.expiresAt)
  OBVIOUS
<1>3. DOMAIN dated = {"execution_date"} /\ dated["execution_date"] = <<>>
  OBVIOUS
<1>4. /\ DOMAIN bound = {"transaction_id"} /\ bound["transaction_id"] # <<>>
      /\ bound["transaction_id"][1] = Hash(alg, offer)
  OBVIOUS
<1>10. first = With(stated, dated)
  OBVIOUS
<1> HIDE DEF stated, dated, bound, first
<1>5. DOMAIN first = DOMAIN stated /\ \A k \in DOMAIN stated : first[k] = stated[k]
  <2>1. "execution_date" \notin DOMAIN stated
    BY <1>2
  <2>2. \A k : k \in DOMAIN first <=> k \in DOMAIN stated
    BY <1>3, <1>10, WithIs
  <2>3. \A k \in DOMAIN stated : first[k] = stated[k]
    BY <1>3, <1>10, <2>1, WithIs
  <2> QED BY <2>2, <2>3
<1>6. /\ DOMAIN claims = DOMAIN first \cup {"transaction_id"}
      /\ \A k \in DOMAIN first : claims[k] = first[k]
      /\ claims["transaction_id"] = Hash(alg, offer)
      /\ IsFunction(claims)
  <2>1. "transaction_id" \notin DOMAIN first
    BY <1>2, <1>5
  <2>2. \A k : k \in DOMAIN claims <=> k \in DOMAIN first \cup {"transaction_id"}
    BY <1>1, <1>4, WithIs
  <2>3. \A k \in DOMAIN first : claims[k] = first[k]
    BY <1>1, <1>4, <2>1, WithIs
  <2>4. claims["transaction_id"] = Hash(alg, offer)
    BY <1>1, <1>4, WithIs
  <2>5. IsFunction(claims)
    BY <1>1, WithIs
  <2> QED BY <2>2, <2>3, <2>4, <2>5
<1>7. /\ claims["vct"] = Str(closedPayment) /\ claims["payee"] = m.payee
      /\ claims["payment_amount"] = m.amount /\ claims["payment_instrument"] = m.instrument
      /\ claims["iat"] = Num(m.issuedAt) /\ claims["exp"] = Num(m.expiresAt)
  BY <1>2, <1>5, <1>6
<1>8. DOMAIN claims = {"vct", "payee", "payment_amount", "payment_instrument", "iat", "exp",
                       "transaction_id"}
  BY <1>2, <1>5, <1>6
<1>9. FlatObject(claims)
  <2>1. sdClaim \notin DOMAIN claims
    BY <1>8, NamesDiffer DEF ClaimNames, Reserved
  <2>3. /\ IsLeaf(Str(closedPayment)) /\ IsLeaf(Num(m.issuedAt)) /\ IsLeaf(Num(m.expiresAt))
        /\ IsLeaf(Hash(alg, offer))
    BY KindsDiffer
  <2>2. \A k \in DOMAIN claims : IsLeaf(claims[k])
    BY <1>6, <1>7, <1>8, <2>3
  <2> QED BY <1>6, <2>1, <2>2 DEF FlatObject
<1> QED BY <1>1, <1>6, <1>7, <1>8, <1>9 DEF PaidNames

LEMMA MandatesDiffer ==
    /\ openCheckout # openPayment /\ openCheckout # closedCheckout /\ openCheckout # closedPayment
    /\ openPayment # closedCheckout /\ openPayment # closedPayment /\ closedCheckout # closedPayment
BY DEF openCheckout, openPayment, closedCheckout, closedPayment

LEMMA BlindPathsAre ==
    /\ blindPaths(openCheckout) = {Path("constraints", TRUE)}
    /\ blindPaths(openPayment) = {Path("constraints", TRUE)}
    /\ blindPaths(closedCheckout) = {Path("checkout_jwt", FALSE)}
    /\ blindPaths(closedPayment) = {Path("risk_data", FALSE)}
BY MandatesDiffer DEF blindPaths

\* Nothing of a payment is there to be withheld.
LEMMA PaymentBlinded ==
    ASSUME NEW claims, FlatObject(claims), DOMAIN claims = PaidNames, NEW alg, NEW salt
    PROVE  /\ presentPaths(claims, blindPaths(closedPayment)) = {}
           /\ Blinded(claims, closedPayment, alg, salt).payload = claims
           /\ Blinded(claims, closedPayment, alg, salt).disclosures = <<>>
<1>1. Path("risk_data", FALSE).name = "risk_data"
  BY DEF Path
<1>2. "risk_data" \notin DOMAIN claims
  BY DEF PaidNames
<1>3. presentPaths(claims, blindPaths(closedPayment)) = {}
  BY <1>1, <1>2, BlindPathsAre DEF presentPaths
<1>4. sdClaim \notin DOMAIN claims /\ sdAlgClaim \notin DOMAIN claims /\ IsFunction(claims)
  BY NamesDiffer DEF PaidNames, ClaimNames, Reserved, FlatObject
<1> QED BY <1>3, <1>4, BlindNothing DEF Blinded

LEMMA PaidIs ==
    ASSUME NEW p
    PROVE  /\ FlatObject(Paid(p))
           /\ DOMAIN Paid(p) = PaidNames
           /\ Paid(p)["vct"] = Str(closedPayment)
           /\ Paid(p)["payee"] = payee
           /\ Paid(p)["payment_amount"] = Claims(Offer(p)).amount
           /\ Paid(p)["payment_instrument"] = instrument
           /\ Paid(p)["iat"] = Num(buys[p].signedAt)
           /\ Paid(p)["exp"] = Num(buys[p].signedAt + ClosedLife)
           /\ Paid(p)["transaction_id"] = Hash(AgentAlg, Offer(p))
<1> DEFINE m == closedPaymentOf(p, buys[p].signedAt)
<1>1. /\ m.payee = payee /\ m.amount = Claims(Offer(p)).amount /\ m.instrument = instrument
      /\ m.date = <<>> /\ m.issuedAt = buys[p].signedAt
      /\ m.expiresAt = buys[p].signedAt + ClosedLife
  BY DEF closedPaymentOf
<1>2. Claims(Offer(p)).amount = <<"amount", Money(buys[p].offer.price)>>
  BY DEF Offer, signOffer, SignJWT, Claims
<1>3. IsLeaf(payee) /\ IsLeaf(instrument) /\ IsLeaf(Claims(Offer(p)).amount)
  <2>1. "merchant" \notin {"obj", "arr"} /\ "instrument" \notin {"obj", "arr"}
        /\ "amount" \notin {"obj", "arr"}
    OBVIOUS
  <2> QED BY <1>2, <2>1 DEF IsLeaf, IsObj, IsArr, payee, instrument
<1> HIDE DEF m
<1> DEFINE claims == bindPayment(m, Offer(p), AgentAlg)
<1>4. claims = Paid(p)
  BY DEF Paid, m
<1>5. claims = bindPayment(m, Offer(p), AgentAlg)
  OBVIOUS
<1> HIDE DEF claims
<1>6. /\ FlatObject(claims) /\ DOMAIN claims = PaidNames /\ claims["vct"] = Str(closedPayment)
      /\ claims["payee"] = m.payee /\ claims["payment_amount"] = m.amount
      /\ claims["payment_instrument"] = m.instrument /\ claims["iat"] = Num(m.issuedAt)
      /\ claims["exp"] = Num(m.expiresAt) /\ claims["transaction_id"] = Hash(AgentAlg, Offer(p))
  BY <1>1, <1>3, <1>5, PaymentClaims
<1> QED BY <1>1, <1>4, <1>6

\* A payment the agent closed is its delegation, to the one verifier.
LEMMA PaymentIs ==
    ASSUME NEW p, NEW v, buys[p].mode = "chain"
    PROVE  /\ Payment(p, v) = Delegate(Minimise(OpenPayment(open[1])), AgentKey, kb(p, v), Paid(p),
                                       <<>>, AgentAlg, <<v, p>>)
           /\ Content(Delegating(Payment(p, v))["nonce"]) = nonce(p, v)
           /\ Content(Delegating(Payment(p, v))["aud"]) = v
           /\ Content(Delegating(Payment(p, v))["iat"]) = buys[p].signedAt
           /\ DelegatedHashAlg(Payment(p, v)) = AgentAlg
           /\ Elements(Payment(p, v)) = <<Obj(Paid(p))>>
           /\ Delegated(Payment(p, v)) = Paid(p)
           /\ Payment(p, v).root = Minimise(OpenPayment(open[1]))
<1> DEFINE sd == Minimise(OpenPayment(open[1]))
           chain == Payment(p, v)
<1>1. FlatObject(Paid(p)) /\ DOMAIN Paid(p) = PaidNames /\ sdAlgClaim \notin DOMAIN Paid(p)
  BY PaidIs, NamesDiffer DEF PaidNames, ClaimNames, Reserved
<1>2. chain = Delegate(sd, AgentKey, kb(p, v), Paid(p), <<>>, AgentAlg, <<v, p>>)
  <2>1. /\ Blinded(Paid(p), closedPayment, AgentAlg, <<v, p>>).payload = Paid(p)
        /\ Blinded(Paid(p), closedPayment, AgentAlg, <<v, p>>).disclosures = <<>>
    BY <1>1, PaymentBlinded
  <2>2. chain = DelegatePayment(AgentKey, OpenPayment(open[1]),
                                closedPaymentOf(p, buys[p].signedAt), Offer(p), kb(p, v),
                                AgentAlg, <<v, p>>)
    BY DEF Payment
  <2>3. chain = DelegateMandate(AgentKey, OpenPayment(open[1]), Paid(p), closedPayment, kb(p, v),
                                AgentAlg, <<v, p>>)
    BY <2>2 DEF DelegatePayment, bindingAlg, Paid
  <2> QED BY <2>1, <2>3 DEF DelegateMandate
<1> HIDE DEF chain
<1> DEFINE none == <<>>
<1>3. none \in Seq({}) /\ chain = Delegate(sd, AgentKey, kb(p, v), Paid(p), none, AgentAlg, <<v, p>>)
  BY <1>2
<1> HIDE DEF sd, none
<1>4. Elements(chain) = <<Obj(Paid(p))>> /\ Delegated(chain) = Paid(p)
  BY <1>1, <1>3, DelegatedIs
<1>5. /\ chain.root = sd /\ Content(Delegating(chain)["nonce"]) = kb(p, v).nonce
      /\ Content(Delegating(chain)["aud"]) = kb(p, v).aud
      /\ Content(Delegating(chain)["iat"]) = kb(p, v).iat
      /\ DelegatedHashAlg(chain) = AgentAlg
  BY <1>3, DelegationIs
<1>6. kb(p, v).nonce = nonce(p, v) /\ kb(p, v).aud = v /\ kb(p, v).iat = buys[p].signedAt
  BY DEF kb
<1> QED BY <1>2, <1>4, <1>5, <1>6 DEF chain, sd

\* Two offers of one purchase number are of one purchase.
LEMMA OffersDiffer == \A p, q : Offer(p) = Offer(q) => p = q
BY DEF Offer, signOffer, SignJWT

LEMMA NoncesDiffer ==
    \A p, q \in Purchases, v, w \in Verifiers : nonce(p, v) = nonce(q, w) => p = q /\ v = w
<1>1. \A p \in Purchases : p \in Nat
  BY AuthorityAssumption DEF Purchases
<1>2. \A p : /\ nonce(p, "credprovider") = 3 * p + 0 /\ nonce(p, "merchant") = 3 * p + 1
             /\ nonce(p, "mpp") = 3 * p + 2
  BY DEF nonce
<1> SUFFICES ASSUME NEW p \in Purchases, NEW q \in Purchases, NEW v \in Verifiers, NEW w \in Verifiers,
                    nonce(p, v) = nonce(q, w)
             PROVE  p = q /\ v = w
  OBVIOUS
<1> DEFINE offset(u) == IF u = "credprovider" THEN 0 ELSE IF u = "merchant" THEN 1 ELSE 2
<1>3. nonce(p, v) = 3 * p + offset(v) /\ nonce(q, w) = 3 * q + offset(w)
  BY <1>2 DEF Verifiers
<1>4. offset(v) \in 0..2 /\ offset(w) \in 0..2 /\ (offset(v) = offset(w) => v = w)
  BY DEF Verifiers
<1> HIDE DEF offset
<1>5. p = q /\ offset(v) = offset(w)
  <2>1. \A a, b \in Nat, i, j \in 0..2 : 3 * a + i = 3 * b + j => a = b /\ i = j
    OBVIOUS
  <2> QED BY <1>1, <1>3, <1>4, <2>1
<1> QED BY <1>4, <1>5

\* A payment verifier that accepts was answered under its own challenge.
LEMMA PaymentIsForOne ==
    ASSUME NEW p \in Purchases, NEW q \in Purchases, NEW v \in Verifiers, NEW w \in Verifiers,
           buys[p].mode = "chain", NEW t,
           Passed(AuthorisePaymentChainError(Payment(p, w), rules(v), nonce(q, v), t))
    PROVE  p = q /\ v = w
<1>1. Passed(ChainError(Payment(p, w), rules(v), nonce(q, v), t))
  BY PaymentChecked
<1>2. /\ Content(Delegating(Payment(p, w))["nonce"]) = nonce(q, v)
      /\ Content(Delegating(Payment(p, w))["aud"]) = rules(v).audience
  BY <1>1, ChainAnswers
<1>3. rules(v).audience = v
  BY DEF rules
<1>4. nonce(p, w) = nonce(q, v) /\ w = v
  BY <1>2, <1>3, PaymentIs
<1> QED BY <1>4, NoncesDiffer

LEMMA HashIs ==
    ASSUME NEW p, NEW v, buys[p].mode = "chain"
    PROVE  PaymentHash("chain", Payment(p, v)) = Hash(AgentAlg, Offer(p))
<1>1. PaymentHash("chain", Payment(p, v)) = decodePayment(Paid(p)).hash
  BY PaymentIs DEF PaymentHash
<1> QED BY <1>1, PaidIs DEF decodePayment

\* The merchant's verdict on both mandates is "" when each check passes.
LEMMA ChainDecided ==
    ASSUME NEW c, NEW m, NEW offer, NEW challenge
    PROVE  Passed(decideChain(c, m, offer, challenge).error) <=>
           /\ Passed(AuthoriseCheckoutChainError(c, Subject(offer, now), offer, rules("merchant"),
                                                 challenge, now))
           /\ Passed(AuthorisePaymentChainError(m, rules("merchant"), challenge, now))
           /\ Passed(PaysForError(BindingIn(m, decodePayment(Delegated(m)).hash), offer))
           /\ Passed(AmountMatchesError(decodePayment(Delegated(m)).amount, quotedPrice(offer)))
<1> DEFINE checkout == AuthoriseCheckoutChainError(c, Subject(offer, now), offer, rules("merchant"),
                                                   challenge, now)
           a == AuthorisePaymentChainError(m, rules("merchant"), challenge, now)
           b == PaysForError(BindingIn(m, decodePayment(Delegated(m)).hash), offer)
           d == AmountMatchesError(decodePayment(Delegated(m)).amount, quotedPrice(offer))
           payment == a ?? b ?? d
<1>1. decideChain(c, m, offer, challenge) =
      IF checkout # "" \/ payment = "" THEN [kind |-> "checkout", error |-> checkout]
      ELSE [kind |-> "payment", error |-> payment]
  BY Zenon DEF decideChain, Verdict
<1> HIDE DEF checkout, a, b, d
<1>2. Passed(payment) <=> Passed(a) /\ Passed(b) /\ Passed(d)
  BY ChecksPass
<1> HIDE DEF payment
<1>3. decideChain(c, m, offer, challenge).error =
      IF checkout # "" \/ payment = "" THEN checkout ELSE payment
  <2>1. /\ [kind |-> "checkout", error |-> checkout].error = checkout
        /\ [kind |-> "payment", error |-> payment].error = payment
    OBVIOUS
  <2> QED BY Zenon, <1>1, <2>1
<1>4. Passed(decideChain(c, m, offer, challenge).error) <=> Passed(checkout) /\ Passed(payment)
  BY Zenon, <1>3 DEF Passed
<1> QED BY <1>2, <1>4 DEF checkout, a, b, d

LEMMA OnePresentationIsForOne == EachForOne
<1> SUFFICES ASSUME NEW p \in Delegations, NEW q \in Delegations
             PROVE  /\ \A v, w \in Verifiers :
                          examine("chain", Payment(p, w), v, nonce(q, v)) = "" => p = q /\ v = w
                    /\ \A r \in {p, q} :
                          decideChain(Checkout(p), Payment(q, "merchant"), Offer(r),
                                      nonce(p, "merchant")).error = ""
                          => p = q /\ q = r
                    /\ examineSettlement("chain", Payment(p, "mpp"), nonce(p, "mpp"),
                                         Credential(q)) = "" => p = q
  BY Zenon DEF EachForOne
<1>1. /\ p \in Purchases /\ buys[p].mode = "chain"
      /\ q \in Purchases /\ buys[q].mode = "chain"
  BY DEF Delegations
<1>2. "merchant" \in Verifiers
  BY DEF Verifiers
<1>3. ASSUME NEW v \in Verifiers, NEW w \in Verifiers,
             Passed(examine("chain", Payment(p, w), v, nonce(q, v)))
      PROVE  p = q /\ v = w
  BY <1>1, <1>3, PaymentIsForOne DEF examine
<1>4. ASSUME NEW r \in {p, q}, Passed(decideChain(Checkout(p), Payment(q, "merchant"), Offer(r),
                                                  nonce(p, "merchant")).error)
      PROVE  p = q /\ q = r
  <2>1. Passed(AuthorisePaymentChainError(Payment(q, "merchant"), rules("merchant"),
                                          nonce(p, "merchant"), now))
    BY <1>4, ChainDecided
  <2> QED BY <1>1, <1>2, <2>1, PaymentIsForOne
<1>5. ASSUME Passed(examineSettlement("chain", Payment(p, "mpp"), nonce(p, "mpp"), Credential(q)))
      PROVE  p = q
  <2> DEFINE hash == PaymentHash("chain", Payment(p, "mpp"))
             a == Refuse(Credential(q).token = 0, "mandate malformed")
             b == Refuse(Credential(q).hash # hash, "credential scope mismatch")
             c == Refuse(~(now < Credential(q).expiresAt), "credential expired")
  <2>1. Passed(examine("chain", Payment(p, "mpp"), "mpp", nonce(p, "mpp")) ?? (a ?? b ?? c))
    BY Zenon, <1>5 DEF examineSettlement, VerifyCredentialError
  <2>2. Passed(b) => Credential(q).hash = hash
    BY Zenon DEF Passed, Refuse
  <2> HIDE DEF a, b, c
  <2>3. Passed(b)
    BY <2>1, ChecksPass
  <2>4. Credential(q).hash = PaymentHash("chain", Payment(q, "credprovider"))
    BY <1>1 DEF Credential
  <2>5. Hash(AgentAlg, Offer(p)) = Hash(AgentAlg, Offer(q))
    BY <1>1, <2>2, <2>3, <2>4, HashIs
  <2> QED BY <2>5, OffersDiffer DEF Hash
<1> QED BY Zenon, <1>3, <1>4, <1>5 DEF Passed
-----------------------------------------------------------------------------
(* The open mandates, as the surface signs them. *)

LEMMA FlattenOne ==
    ASSUME NEW S, NEW q \in Seq(S)
    PROVE  FlattenSeq(<<q>>) = q
<1> DEFINE seqs == <<q>>
           f == CHOOSE g : Flattens(g, seqs, Len(seqs))
<1>1. Len(seqs) = 1 /\ seqs[1] = q
  OBVIOUS
<1>2. Flattens(f, seqs, 1)
  BY <1>1, FlatteningEnds
<1>3. FlattenSeq(seqs) = f[1]
  BY <1>1, <1>2 DEF FlattenSeq, Flattens
<1> HIDE DEF f, seqs
<1>4. f[1] = seqs[1]
  BY <1>2 DEF Flattens
<1> QED BY <1>1, <1>3, <1>4 DEF seqs

\* A limit, in the list of a mandate's limits and as the disclosure of one.
Limit(c) == Obj([type |-> Str(ConstraintType), expression |-> <<"constraint", c>>])
Disclosed(salt, cs, i) == Disclosure(<<salt, "constraints", i>>, Unnamed, Limit(cs[i]))
LimitDigest(salt, cs, i) == Hash(SurfaceAlg, Disclosed(salt, cs, i))
Hidden(salt, cs) == Arr([i \in 1..Len(cs) |-> Placeholder(LimitDigest(salt, cs, i))])
Limits(cs) == [i \in 1..Len(cs) |-> Limit(cs[i])]

OpenNames == {"vct", "cnf", "constraints", "iat", "exp"}

\* An open mandate the surface makes: nothing is pinned but, in a payment, the
\* instrument.
SurfaceMandate(m) ==
    /\ m.vct \in {openCheckout, openPayment}
    /\ m.payee = <<>> /\ m.amount = <<>> /\ m.date = <<>>
    /\ m.instrument \in {<<>>, <<instrument>>}
    /\ m.constraints \in Seq(Expression) /\ m.constraints # <<>>

Pins(m) == IF m.instrument = <<>> THEN {} ELSE {"payment_instrument"}

LEMMA LimitIs ==
    ASSUME NEW c
    PROVE  /\ decodeConstraint(Limit(c)) = c
           /\ Content(Limit(c)).type = Str(ConstraintType)
           /\ IsObj(Limit(c)) /\ FlatObject(Content(Limit(c)))
           /\ DOMAIN Content(Limit(c)) = {"type", "expression"}
<1> DEFINE f == [type |-> Str(ConstraintType), expression |-> <<"constraint", c>>]
<1>1. Limit(c) = Obj(f)
  BY DEF Limit
<1>2. /\ DOMAIN f = {"type", "expression"} /\ IsFunction(f)
      /\ f.type = Str(ConstraintType) /\ f.expression = <<"constraint", c>>
  BY DEF IsFunction
<1> HIDE DEF f
<1>3. IsLeaf(f.type) /\ IsLeaf(f.expression)
  <2>1. IsLeaf(Str(ConstraintType))
    BY KindsDiffer
  <2>2. "constraint" \notin {"obj", "arr"}
    OBVIOUS
  <2> QED BY <1>2, <2>1, <2>2 DEF IsLeaf, IsObj, IsArr
<1>4. sdClaim \notin DOMAIN f
  BY <1>2, NamesDiffer DEF ClaimNames, Reserved
<1>5. Content(Limit(c)) = f /\ IsObj(Limit(c))
  BY <1>1, KindsDiffer
<1>6. Content(f.expression) = c
  BY <1>2 DEF Content
<1> QED BY <1>2, <1>3, <1>4, <1>5, <1>6 DEF FlatObject, decodeConstraint

LEMMA OpenClaims ==
    ASSUME NEW m, SurfaceMandate(m), NEW claims, claims = openClaims(m)
    PROVE  /\ IsFunction(claims)
           /\ DOMAIN claims = OpenNames \cup Pins(m)
           /\ claims["vct"] = Str(m.vct)
           /\ claims["cnf"] = cnfOf(m.agentKey)
           /\ claims["constraints"] = Arr(Limits(m.constraints))
           /\ claims["iat"] = Num(m.issuedAt)
           /\ claims["exp"] = Num(m.expiresAt)
           /\ "payment_instrument" \in DOMAIN claims => claims["payment_instrument"] = instrument
<1> DEFINE stated == [vct |-> Str(m.vct), cnf |-> cnfOf(m.agentKey),
                      constraints |-> encodeConstraints(m.constraints),
                      iat |-> Num(m.issuedAt), exp |-> Num(m.expiresAt)]
           pins == [payee |-> m.payee, payment_amount |-> m.amount,
                    payment_instrument |-> m.instrument, execution_date |-> m.date]
<1>1. claims = With(stated, pins)
  BY DEF openClaims
<1>2. /\ DOMAIN stated = OpenNames
      /\ stated["vct"] = Str(m.vct) /\ stated["cnf"] = cnfOf(m.agentKey)
      /\ stated["constraints"] = encodeConstraints(m.constraints)
      /\ stated["iat"] = Num(m.issuedAt) /\ stated["exp"] = Num(m.expiresAt)
  BY DEF OpenNames
<1>3. /\ DOMAIN pins = {"payee", "payment_amount", "payment_instrument", "execution_date"}
      /\ pins["payee"] = <<>> /\ pins["payment_amount"] = <<>> /\ pins["execution_date"] = <<>>
      /\ pins["payment_instrument"] = m.instrument
  BY DEF SurfaceMandate
<1> HIDE DEF stated, pins
<1>4. encodeConstraints(m.constraints) = Arr(Limits(m.constraints))
  <2>1. DOMAIN m.constraints = 1..Len(m.constraints)
    BY DEF SurfaceMandate
  <2> QED BY <2>1 DEF encodeConstraints, Limits, Limit
<1>5. \A k \in OpenNames : k \notin DOMAIN pins
  BY <1>3 DEF OpenNames
<1>6. \A k \in OpenNames : claims[k] = stated[k]
  BY <1>1, <1>2, <1>5, WithIs
<1>7. \A k : k \in DOMAIN claims <=> k \in OpenNames \/ (k \in DOMAIN pins /\ pins[k] # <<>>)
  BY <1>1, <1>2, WithIs
<1>8. \A k : (k \in DOMAIN pins /\ pins[k] # <<>>) <=> k \in Pins(m)
  BY <1>3 DEF Pins
<1>9. m.instrument # <<>> => claims["payment_instrument"] = m.instrument[1]
  BY <1>1, <1>3, WithIs
<1>10. "payment_instrument" \notin OpenNames
  BY DEF OpenNames
<1>11. "payment_instrument" \in DOMAIN claims => claims["payment_instrument"] = instrument
  <2>1. "payment_instrument" \in DOMAIN claims => m.instrument # <<>>
    BY <1>7, <1>8, <1>10 DEF Pins
  <2>2. m.instrument # <<>> => m.instrument[1] = instrument
    BY DEF SurfaceMandate
  <2> QED BY <1>9, <2>1, <2>2
<1>12. DOMAIN claims = OpenNames \cup Pins(m)
  BY <1>7, <1>8
<1>13. IsFunction(claims)
  BY <1>1, WithIs
<1> QED BY <1>2, <1>4, <1>6, <1>11, <1>12, <1>13 DEF OpenNames

\* What the surface signs of it: the limits are hidden, each behind a digest.
LEMMA OpenBlinded ==
    ASSUME NEW m, SurfaceMandate(m), NEW salt, NEW claims, claims = openClaims(m),
           NEW b, b = Blinded(claims, m.vct, SurfaceAlg, salt)
    PROVE  /\ b.disclosures = [i \in 1..Len(m.constraints) |-> Disclosed(salt, m.constraints, i)]
           /\ IsFunction(b.payload)
           /\ DOMAIN b.payload = DOMAIN claims \cup {sdAlgClaim}
           /\ b.payload["constraints"] = Hidden(salt, m.constraints)
           /\ b.payload[sdAlgClaim] = Str(SurfaceAlg)
           /\ \A k \in DOMAIN claims \ {"constraints"} : b.payload[k] = claims[k]
<1> DEFINE cs == m.constraints
           n == Len(cs)
           paths == presentPaths(claims, blindPaths(m.vct))
           arrays == {p.name : p \in {q \in paths : q.array}}
           members == {p.name : p \in {q \in paths : ~q.array}}
           elements(a) == [i \in DOMAIN Content(claims[a]) |->
                             Disclosure(<<salt, a, i>>, Unnamed, Content(claims[a])[i])]
           member(name) == Disclosure(<<salt, name, 0>>, name, claims[name])
           hidden(a) == Arr([i \in DOMAIN elements(a) |-> Placeholder(Hash(SurfaceAlg, elements(a)[i]))])
           order == SetToSeq(arrays)
           lists == [k \in DOMAIN order |-> elements(order[k])]
           disclosures == FlattenSeq(lists) \o SetToSeq({member(name) : name \in members})
           added == [c \in {sdClaim, sdAlgClaim} |->
                       CASE c = sdClaim /\ members # {} ->
                               << <<"set", {Hash(SurfaceAlg, member(name)) : name \in members}>> >>
                         [] c = sdAlgClaim /\ disclosures # <<>> -> <<Str(SurfaceAlg)>>
                         [] OTHER -> <<>>]
           kept == [c \in DOMAIN claims \ members |-> IF c \in arrays THEN hidden(c) ELSE claims[c]]
           all == [i \in 1..n |-> Disclosed(salt, cs, i)]
<1>1. b = [payload |-> With(kept, added), disclosures |-> disclosures]
  BY DEF Blinded, Blind
<1>2. /\ cs \in Seq(Expression) /\ n \in Nat \ {0} /\ DOMAIN Limits(cs) = 1..n
      /\ \A i \in 1..n : Limits(cs)[i] = Limit(cs[i])
  BY DEF SurfaceMandate, Limits
<1>3. claims["constraints"] = Arr(Limits(cs)) /\ Content(claims["constraints"]) = Limits(cs)
  BY OpenClaims, KindsDiffer
<1>4. DOMAIN claims = OpenNames \cup Pins(m) /\ "constraints" \in DOMAIN claims /\ IsFunction(claims)
  BY OpenClaims DEF OpenNames
<1>5. paths = {Path("constraints", TRUE)}
  <2>1. blindPaths(m.vct) = {Path("constraints", TRUE)}
    BY BlindPathsAre DEF SurfaceMandate
  <2>2. Path("constraints", TRUE).name = "constraints"
    BY DEF Path
  <2> QED BY <1>4, <2>1, <2>2 DEF presentPaths
<1> HIDE DEF paths, cs, n
<1>6. arrays = {"constraints"} /\ members = {}
  <2>1. Path("constraints", TRUE).name = "constraints" /\ Path("constraints", TRUE).array
    BY DEF Path
  <2>2. {q \in paths : q.array} = paths
    BY Zenon, <1>5, <2>1
  <2>3. {q \in paths : ~q.array} = {}
    BY Zenon, <1>5, <2>1
  <2> QED BY <1>5, <2>1, <2>2, <2>3
<1> HIDE DEF arrays, members
<1>7. elements("constraints") = all
  BY <1>2, <1>3 DEF Disclosed
<1>8. hidden("constraints") = Hidden(salt, cs)
  <2>1. DOMAIN elements("constraints") = 1..n
    BY <1>2, <1>3
  <2>2. \A i \in 1..n : elements("constraints")[i] = Disclosed(salt, cs, i)
    BY <1>7
  <2> HIDE DEF elements
  <2> QED BY <2>1, <2>2 DEF Hidden, LimitDigest, n
<1> HIDE DEF elements, hidden, member
<1>9. lists = <<elements("constraints")>>
  <2>1. order = <<"constraints">>
    BY <1>6, SmallSequences
  <2> QED BY <2>1
<1> DEFINE S == {Disclosed(salt, cs, i) : i \in 1..n}
<1>10. all \in Seq(S) /\ Len(all) = n /\ DOMAIN all = 1..n
  <2>1. all \in [1..n -> S]
    OBVIOUS
  <2> HIDE DEF all, S
  <2> QED BY <1>2, <2>1
<1> HIDE DEF S
<1> HIDE DEF lists, order, all
<1>11. FlattenSeq(lists) = all
  BY <1>7, <1>9, <1>10, FlattenOne
<1>12. {member(name) : name \in members} = {}
  BY <1>6
<1>13. disclosures = all
  <2>1. disclosures = all \o <<>>
    BY <1>11, <1>12, SmallSequences
  <2>2. all \o <<>> = all
    BY <1>10
  <2> QED BY <2>1, <2>2
<1> HIDE DEF disclosures
<1>14. all # <<>>
  BY <1>2, <1>10
<1>15. /\ DOMAIN added = {sdClaim, sdAlgClaim}
       /\ added[sdClaim] = <<>> /\ added[sdAlgClaim] = <<Str(SurfaceAlg)>>
  BY <1>6, <1>13, <1>14, NamesDiffer
<1>16. /\ DOMAIN kept = DOMAIN claims
       /\ kept["constraints"] = Hidden(salt, cs)
       /\ \A k \in DOMAIN claims \ {"constraints"} : kept[k] = claims[k]
  BY <1>4, <1>6, <1>8
<1>17. \A k \in DOMAIN claims : k # sdClaim /\ k # sdAlgClaim
  BY <1>4, NamesDiffer DEF OpenNames, Pins, ClaimNames, Reserved
<1>18. b.payload = With(kept, added) /\ b.disclosures = all
  BY <1>1, <1>13
<1> HIDE DEF kept, added
<1>19. IsFunction(b.payload)
  BY <1>18, WithIs
<1>20. \A k : k \in DOMAIN b.payload <=> k \in DOMAIN claims \cup {sdAlgClaim}
  <2>1. \A k : k \in DOMAIN b.payload <=> k \in DOMAIN kept \/ (k \in DOMAIN added /\ added[k] # <<>>)
    BY <1>18, WithIs
  <2> QED BY <1>15, <1>16, <2>1
<1>21. \A k \in DOMAIN claims : b.payload[k] = kept[k]
  <2>1. \A k \in DOMAIN kept : k \notin DOMAIN added => b.payload[k] = kept[k]
    BY <1>18, WithIs
  <2> QED BY <1>15, <1>16, <1>17, <2>1
<1>22. b.payload[sdAlgClaim] = Str(SurfaceAlg)
  <2>1. \A k \in DOMAIN added : added[k] # <<>> => b.payload[k] = added[k][1]
    BY <1>18, WithIs
  <2> QED BY <1>15, <2>1
<1> QED BY <1>4, <1>16, <1>18, <1>19, <1>20, <1>21, <1>22 DEF all, n, cs

AllLimits(salt, cs) == [i \in 1..Len(cs) |-> Disclosed(salt, cs, i)]
IsToken(sd) == sd = [jwt |-> sd.jwt, disclosures |-> sd.disclosures]
Unlisted(m) == (OpenNames \cup Pins(m)) \ {"constraints"}
Agree(f, g, names) == \A k \in names : f[k] = g[k]
OpenHeader == [alg |-> UserKey.alg, typ |-> NoType]

\* The token, and any presentation of it that leaves limits out.
LEMMA OpenSigned ==
    ASSUME NEW m, SurfaceMandate(m), NEW salt, NEW sd, sd = IssueOpen(UserKey, m, SurfaceAlg, salt)
    PROVE  /\ IsToken(sd)
           /\ sd.disclosures = AllLimits(salt, m.constraints)
           /\ sd.jwt[2] = OpenHeader /\ sd.jwt[4] = UserKey
           /\ IsFunction(SignedClaims(sd))
           /\ DOMAIN SignedClaims(sd) = OpenNames \cup Pins(m) \cup {sdAlgClaim}
           /\ SignedClaims(sd)["constraints"] = Hidden(salt, m.constraints)
           /\ Agree(SignedClaims(sd), openClaims(m), Unlisted(m))
           /\ SignedClaims(sd)[sdAlgClaim] = Str(SurfaceAlg)
           /\ HashAlg(sd) = SurfaceAlg
<1> DEFINE b == Blinded(openClaims(m), m.vct, SurfaceAlg, salt)
           claims == openClaims(m)
<1>1. sd = [jwt |-> SignJWT(UserKey, NoType, b.payload, salt), disclosures |-> b.disclosures]
  BY DEF IssueOpen, Issue
<1>2. /\ b.disclosures = [i \in 1..Len(m.constraints) |-> Disclosed(salt, m.constraints, i)]
      /\ IsFunction(b.payload)
      /\ DOMAIN b.payload = DOMAIN claims \cup {sdAlgClaim}
      /\ b.payload["constraints"] = Hidden(salt, m.constraints)
      /\ b.payload[sdAlgClaim] = Str(SurfaceAlg)
      /\ \A k \in DOMAIN claims \ {"constraints"} : b.payload[k] = claims[k]
  BY OpenBlinded
<1>3. DOMAIN claims = OpenNames \cup Pins(m)
  BY OpenClaims
<1> HIDE DEF b
<1>4. SignedClaims(sd) = b.payload
  BY <1>1 DEF SignedClaims, Claims, SignJWT
<1>5. sd.jwt[2] = OpenHeader /\ sd.jwt[4] = UserKey
  BY <1>1 DEF SignJWT, OpenHeader
<1>6. HashAlg(sd) = SurfaceAlg
  <2>1. sdAlgClaim \in DOMAIN b.payload
    BY <1>2
  <2> QED BY <1>2, <1>4, <2>1, KindsDiffer DEF HashAlg, hashAlgOf
<1>7. sd = [jwt |-> sd.jwt, disclosures |-> sd.disclosures] /\ sd.disclosures = b.disclosures
  BY <1>1
<1> QED BY <1>2, <1>3, <1>4, <1>5, <1>6, <1>7
        DEF IsToken, AllLimits, Unlisted, Agree

At(q, I) == {q[i] : i \in I}

LEMMA PickedSet ==
    ASSUME NEW p, NEW q, NEW I, Picks(p, q, I)
    PROVE  ToSet(p) = At(q, I)
<1>1. PICK n \in Nat : \E g \in [1..n -> I] :
          /\ p = [k \in 1..n |-> q[g[k]]]
          /\ \A i \in I : \E k \in 1..n : g[k] = i
  BY DEF Picks
<1>2. PICK g \in [1..n -> I] : /\ p = [k \in 1..n |-> q[g[k]]]
                               /\ \A i \in I : \E k \in 1..n : g[k] = i
  BY <1>1
<1>3. DOMAIN p = 1..n /\ \A k \in 1..n : p[k] = q[g[k]] /\ g[k] \in I
  BY <1>2
<1> QED BY <1>2, <1>3 DEF ToSet, At

LEMMA DisclosedDiffer ==
    \A salt, cs, i, j : Disclosed(salt, cs, i) = Disclosed(salt, cs, j) => i = j
BY DEF Disclosed, Disclosure

DisclosedAt(salt, cs, I) == {Disclosed(salt, cs, i) : i \in I}
DigestsOf(q) == {Hash(SurfaceAlg, d) : d \in ToSet(q)}

LEMMA DigestsShown ==
    ASSUME NEW salt, NEW cs, NEW I, I \subseteq 1..Len(cs), NEW q, ToSet(q) = DisclosedAt(salt, cs, I)
    PROVE  \A i \in 1..Len(cs) :
              LimitDigest(salt, cs, i) \in DigestsOf(q) <=> i \in I
<1>1. \A x, y : Hash(SurfaceAlg, x) = Hash(SurfaceAlg, y) => x = y
  BY DEF Hash
<1> QED BY <1>1, DisclosedDiffer DEF LimitDigest, DigestsOf, DisclosedAt

\* A presentation of an open mandate with some of its limits.
Shown(sd, I) == Present(sd, Those(sd.disclosures, I))
Portion(I, m) == I \subseteq 1..Len(m.constraints)
ShownWhole(sd, m) == Shown(sd, 1..Len(m.constraints)) = sd

LEMMA ShownIs ==
    ASSUME NEW m, SurfaceMandate(m), NEW salt, NEW sd, sd = IssueOpen(UserKey, m, SurfaceAlg, salt),
           NEW I, Portion(I, m)
    PROVE  /\ Shown(sd, I).jwt = sd.jwt
           /\ Picks(Shown(sd, I).disclosures, sd.disclosures, I)
           /\ ToSet(Shown(sd, I).disclosures) = DisclosedAt(salt, m.constraints, I)
           /\ SignedClaims(Shown(sd, I)) = SignedClaims(sd)
           /\ HashAlg(Shown(sd, I)) = SurfaceAlg
           /\ ShownWhole(sd, m)
<1> DEFINE n == Len(m.constraints)
           all == AllLimits(salt, m.constraints)
<1>1. n \in Nat /\ I \subseteq 1..n
  BY DEF SurfaceMandate, Portion
<1>2. IsToken(sd) /\ sd.disclosures = all /\ HashAlg(sd) = SurfaceAlg
  BY OpenSigned
<1>3. \A q : Present(sd, q).jwt = sd.jwt /\ Present(sd, q).disclosures = q
             /\ Present(sd, q) = [jwt |-> sd.jwt, disclosures |-> q]
  BY <1>2 DEF Present, IsToken
<1>4. Picks(Those(all, I), all, I)
  <2>1. DOMAIN all = 1..n /\ I \cap 1..n = I
    BY <1>1 DEF AllLimits
  <2> HIDE DEF all
  <2> QED BY <1>1, <2>1, ThoseArePicked
<1>5. Those(all, 1..n) = all
  <2> DEFINE S == {Disclosed(salt, m.constraints, i) : i \in 1..n}
  <2>1. all \in [1..n -> S]
    BY DEF AllLimits
  <2> HIDE DEF all, S
  <2> QED BY <1>1, <2>1, AllOfThose
<1>6. ToSet(Those(all, I)) = DisclosedAt(salt, m.constraints, I)
  <2>1. ToSet(Those(all, I)) = At(all, I)
    BY <1>4, PickedSet
  <2> QED BY <1>1, <2>1 DEF At, DisclosedAt, AllLimits
<1> HIDE DEF all
<1>7. SignedClaims(Shown(sd, I)) = SignedClaims(sd)
  BY <1>3 DEF Shown, SignedClaims
<1>8. HashAlg(Shown(sd, I)) = HashAlg(sd)
  BY <1>7 DEF HashAlg
<1>9. Shown(sd, 1..n) = sd
  BY <1>2, <1>3, <1>5 DEF Shown, IsToken
<1> QED BY <1>2, <1>3, <1>4, <1>6, <1>7, <1>8, <1>9 DEF Shown, ShownWhole

LimitsAt(cs, I) == Arr(Those(Limits(cs), I))

\* Its payload has those limits, and the rest as the surface signed it.
LEMMA ShownPayload ==
    ASSUME NEW m, SurfaceMandate(m), NEW salt, NEW sd, sd = IssueOpen(UserKey, m, SurfaceAlg, salt),
           NEW I, Portion(I, m), NEW payload, payload = Payload(Shown(sd, I))
    PROVE  /\ DOMAIN payload = OpenNames \cup Pins(m)
           /\ payload["constraints"] = LimitsAt(m.constraints, I)
           /\ Agree(payload, openClaims(m), Unlisted(m))
<1>0. /\ ToSet(Shown(sd, I).disclosures) = DisclosedAt(salt, m.constraints, I)
      /\ SignedClaims(Shown(sd, I)) = SignedClaims(sd)
      /\ HashAlg(Shown(sd, I)) = SurfaceAlg
  BY ShownIs
<1> DEFINE cs == m.constraints
           n == Len(cs)
           f == SignedClaims(sd)
           h == [i \in 1..n |-> LimitDigest(salt, cs, i)]
           e == [i \in 1..n |-> Content(Limit(cs[i]))]
           kept == Shown(sd, I)
           shown == DigestsOf(kept.disclosures)
           names == OpenNames \cup Pins(m)
           list == "constraints"
           those == LimitsAt(cs, I)
<1>1. n \in Nat /\ I \subseteq 1..n
  BY DEF SurfaceMandate, Portion
<1>2. /\ IsFunction(f) /\ DOMAIN f = names \cup {sdAlgClaim}
      /\ f["constraints"] = Hidden(salt, cs)
      /\ Agree(f, openClaims(m), Unlisted(m))
      /\ f[sdAlgClaim] = Str(SurfaceAlg)
  BY OpenSigned
<1>3. /\ ToSet(kept.disclosures) = DisclosedAt(salt, cs, I)
      /\ SignedClaims(kept) = f /\ HashAlg(kept) = SurfaceAlg
  BY <1>0
<1>4. sdClaim \notin DOMAIN f /\ list \in DOMAIN f /\ sdAlgClaim \notin names
  BY <1>2, NamesDiffer DEF OpenNames, Pins, ClaimNames, Reserved
<1>5. f[list] = Placeholders(h, n)
  <2>1. \A i \in 1..n : h[i] = LimitDigest(salt, cs, i)
    OBVIOUS
  <2> HIDE DEF h
  <2>2. [i \in 1..n |-> Placeholder(h[i])] = [i \in 1..n |-> Placeholder(LimitDigest(salt, cs, i))]
    BY <2>1
  <2> QED BY <1>2, <2>2 DEF Hidden, Placeholders
<1>6. Carries(h, e, n)
  <2>1. ASSUME NEW i \in 1..n PROVE Value(Committed(h[i])) = Obj(e[i]) /\ FlatObject(e[i])
    <3>1. h[i] = Hash(SurfaceAlg, Disclosed(salt, cs, i)) /\ e[i] = Content(Limit(cs[i]))
      BY DEF LimitDigest
    <3> HIDE DEF h, e
    <3>2. Value(Disclosed(salt, cs, i)) = Limit(cs[i])
      BY KindsDiffer DEF Disclosed
    <3>3. Obj(Content(Limit(cs[i]))) = Limit(cs[i])
      BY KindsDiffer DEF Limit
    <3> QED BY <3>1, <3>2, <3>3, KindsDiffer, LimitIs
  <2> HIDE DEF h, e
  <2> QED BY <2>1 DEF Carries
<1>7. [i \in 1..n |-> Obj(e[i])] = Limits(cs)
  <2>1. \A i \in 1..n : Obj(e[i]) = Limit(cs[i])
    <3>1. \A i \in 1..n : e[i] = Content(Limit(cs[i]))
      OBVIOUS
    <3> HIDE DEF e
    <3> QED BY <3>1, KindsDiffer DEF Limit
  <2> HIDE DEF e
  <2> QED BY <2>1 DEF Limits
<1>8. {i \in 1..n : h[i] \in shown} = I
  <2>1. \A i \in 1..n : h[i] \in shown <=> i \in I
    BY <1>1, <1>3, DigestsShown
  <2> HIDE DEF h, shown
  <2> QED BY <1>1, <2>1
<1>9. \A k \in DOMAIN f \ {list} : Shallow(f[k])
  <2>1. /\ openClaims(m)["vct"] = Str(m.vct) /\ openClaims(m)["cnf"] = cnfOf(m.agentKey)
        /\ openClaims(m)["iat"] = Num(m.issuedAt) /\ openClaims(m)["exp"] = Num(m.expiresAt)
        /\ "payment_instrument" \in names => openClaims(m)["payment_instrument"] = instrument
    BY OpenClaims
  <2>2. IsLeaf(instrument) /\ FlatObject([jwk |-> <<"key", m.agentKey>>])
    <3>1. "instrument" \notin {"obj", "arr"} /\ "key" \notin {"obj", "arr"}
      OBVIOUS
    <3>2. sdClaim \notin {"jwk"}
      BY NamesDiffer DEF ClaimNames, Reserved
    <3> QED BY <3>1, <3>2 DEF IsLeaf, IsObj, IsArr, instrument, FlatObject, IsFunction
  <2>3. \E g : cnfOf(m.agentKey) = Obj(g) /\ FlatObject(g)
    BY <2>2 DEF cnfOf
  <2>4. names \ {list} \subseteq {"vct", "cnf", "iat", "exp", "payment_instrument"}
    BY DEF OpenNames, Pins
  <2> HIDE DEF f, names
  <2>5. \A k \in names \ {list} : Shallow(f[k])
    BY <1>2, <2>1, <2>2, <2>3, <2>4, KindsDiffer DEF Shallow, Agree, Unlisted, names
  <2>6. IsLeaf(f[sdAlgClaim])
    BY <1>2, KindsDiffer
  <2> QED BY <1>2, <2>5, <2>6 DEF Shallow
<1> HIDE DEF f, h, e, shown, names, list
<1>10. process(Obj(f), shown) = Obj(Replaced(f, list, those))
  <2>1. process(Obj(f), shown) = Obj(Replaced(f, list, ThoseOf(e, n, h, shown)))
    BY <1>1, <1>2, <1>4, <1>5, <1>6, <1>9, ProcessedList
  <2>2. ThoseOf(e, n, h, shown) = those
    BY <1>7, <1>8 DEF ThoseOf, LimitsAt
  <2> QED BY <2>1, <2>2
<1> HIDE DEF those, kept
<1>11. payload = Without(Replaced(f, list, those), {sdAlgClaim})
  <2>1. Processed(Obj(SignedClaims(kept)), kept.disclosures, HashAlg(kept)) = process(Obj(f), shown)
    BY <1>3 DEF Processed, shown, DigestsOf
  <2> QED BY <1>10, <2>1, KindsDiffer DEF Payload, kept
<1>12. /\ DOMAIN payload = names
       /\ payload[list] = those
       /\ \A k \in names \ {list} : payload[k] = f[k]
  <2> DEFINE g == Replaced(f, list, those)
  <2>1. /\ DOMAIN g = DOMAIN f /\ g[list] = those
        /\ \A k \in DOMAIN f \ {list} : g[k] = f[k]
    BY <1>2, <1>4 DEF Replaced
  <2> HIDE DEF g
  <2>2. payload = Without(g, {sdAlgClaim})
    BY <1>11 DEF g
  <2>3. DOMAIN g \ {sdAlgClaim} = names
    BY <1>2, <1>4, <2>1
  <2>4. payload = [k \in names |-> g[k]]
    BY <2>2, <2>3 DEF Without
  <2>5. list \in names
    BY <1>2, <1>4 DEF list, names, OpenNames
  <2>6. DOMAIN payload = names /\ \A k \in names : payload[k] = g[k]
    BY <2>4
  <2>7. \A k \in names \ {list} : k \in DOMAIN f \ {list}
    BY <1>2
  <2> QED BY <2>1, <2>5, <2>6, <2>7
<1> QED BY <1>2, <1>12 DEF names, list, those, Agree, Unlisted

\* A member that is there, as it is read.
Once(x) == <<x>>

\* And what is read of it: a key, a window and pins as they were signed, and
\* of the limits those it has.
LEMMA ShownDecoded ==
    ASSUME NEW m, SurfaceMandate(m), NEW salt, NEW sd, sd = IssueOpen(UserKey, m, SurfaceAlg, salt),
           NEW I, Portion(I, m), NEW root, root = Payload(Shown(sd, I))
    PROVE  /\ decodeOpen(root).vct = m.vct
           /\ decodeOpen(root).agentKey = m.agentKey
           /\ decodeOpen(root).constraints = decodeConstraints(LimitsAt(m.constraints, I))
           /\ decodeOpen(root).payee = <<>>
           /\ decodeOpen(root).amount = <<>>
           /\ decodeOpen(root).instrument = m.instrument
           /\ decodeOpen(root).date = <<>>
           /\ decodeOpen(root).issuedAt = Once(m.issuedAt)
           /\ decodeOpen(root).expiresAt = Once(m.expiresAt)
<1>1. /\ DOMAIN root = OpenNames \cup Pins(m)
      /\ root["constraints"] = LimitsAt(m.constraints, I)
      /\ Agree(root, openClaims(m), Unlisted(m))
  BY ShownPayload
<1>2. /\ openClaims(m)["vct"] = Str(m.vct) /\ openClaims(m)["cnf"] = cnfOf(m.agentKey)
      /\ openClaims(m)["iat"] = Num(m.issuedAt) /\ openClaims(m)["exp"] = Num(m.expiresAt)
      /\ DOMAIN openClaims(m) = OpenNames \cup Pins(m)
      /\ "payment_instrument" \in DOMAIN openClaims(m) => openClaims(m)["payment_instrument"] = instrument
  BY OpenClaims
<1>3. /\ root["vct"] = Str(m.vct) /\ root["cnf"] = cnfOf(m.agentKey)
      /\ root["iat"] = Num(m.issuedAt) /\ root["exp"] = Num(m.expiresAt)
  <2>1. "vct" \in Unlisted(m) /\ "cnf" \in Unlisted(m) /\ "iat" \in Unlisted(m) /\ "exp" \in Unlisted(m)
    BY DEF Unlisted, OpenNames
  <2> QED BY <1>1, <1>2, <2>1 DEF Agree
<1>4. /\ "iat" \in DOMAIN root /\ "exp" \in DOMAIN root
      /\ "payee" \notin DOMAIN root /\ "payment_amount" \notin DOMAIN root
      /\ "execution_date" \notin DOMAIN root
      /\ "payment_instrument" \in DOMAIN root <=> m.instrument # <<>>
  BY <1>1 DEF OpenNames, Pins
<1>5. Read(root, "payment_instrument") = m.instrument
  <2>1. CASE m.instrument = <<>>
    BY <1>4, <2>1 DEF Read
  <2>2. CASE m.instrument # <<>>
    <3>1. "payment_instrument" \in Unlisted(m)
      BY <2>2 DEF Unlisted, Pins
    <3>2. root["payment_instrument"] = instrument
      BY <1>1, <1>2, <1>4, <2>2, <3>1 DEF Agree
    <3>3. m.instrument = <<instrument>>
      BY <2>2 DEF SurfaceMandate
    <3> QED BY <1>4, <2>2, <3>2, <3>3 DEF Read
  <2> QED BY <2>1, <2>2
<1>6. keyOf(cnfOf(m.agentKey)) = m.agentKey
  BY DEF keyOf, cnfOf, Content, Obj
<1>7. Instant(root, "iat") = Once(m.issuedAt) /\ Instant(root, "exp") = Once(m.expiresAt)
  BY <1>3, <1>4, KindsDiffer DEF Instant, Once
<1>8. Read(root, "payee") = <<>> /\ Read(root, "payment_amount") = <<>> /\ Read(root, "execution_date") = <<>>
  BY <1>4 DEF Read
<1>9. Content(root["vct"]) = m.vct
  BY <1>3, KindsDiffer
<1> DEFINE d == decodeOpen(root)
<1>10. /\ d.vct = Content(root["vct"]) /\ d.agentKey = keyOf(root["cnf"])
       /\ d.constraints = decodeConstraints(root["constraints"])
       /\ d.payee = Read(root, "payee") /\ d.amount = Read(root, "payment_amount")
       /\ d.instrument = Read(root, "payment_instrument") /\ d.date = Read(root, "execution_date")
       /\ d.issuedAt = Instant(root, "iat") /\ d.expiresAt = Instant(root, "exp")
  BY DEF decodeOpen
<1> HIDE DEF d
<1>11. d = decodeOpen(root)
  BY DEF d
<1> QED BY <1>1, <1>3, <1>5, <1>6, <1>7, <1>8, <1>9, <1>10, <1>11

LEMMA LimitsDecoded ==
    ASSUME NEW cs, cs \in Seq(Expression), NEW I, I \subseteq 1..Len(cs)
    PROVE  Picks(decodeConstraints(LimitsAt(cs, I)), cs, I)
<1> DEFINE q == Limits(cs)
           p == Those(q, I)
<1>1. DOMAIN q = 1..Len(cs) /\ Len(cs) \in Nat /\ \A i \in 1..Len(cs) : q[i] = Limit(cs[i])
  BY DEF Limits
<1> HIDE DEF q
<1>2. Picks(p, q, I)
  <2>1. I \cap 1..Len(cs) = I
    OBVIOUS
  <2> QED BY <1>1, <2>1, ThoseArePicked
<1>3. Content(LimitsAt(cs, I)) = p
  BY KindsDiffer DEF LimitsAt, q
<1> HIDE DEF p
<1>4. PICK n \in Nat : \E g \in [1..n -> I] :
          /\ p = [k \in 1..n |-> q[g[k]]]
          /\ \A j, k \in 1..n : g[j] = g[k] => j = k
          /\ \A i \in I : \E k \in 1..n : g[k] = i
  BY <1>2 DEF Picks
<1>5. PICK g \in [1..n -> I] :
          /\ p = [k \in 1..n |-> q[g[k]]]
          /\ \A j, k \in 1..n : g[j] = g[k] => j = k
          /\ \A i \in I : \E k \in 1..n : g[k] = i
  BY <1>4
<1>6. \A k \in 1..n : g[k] \in I /\ g[k] \in 1..Len(cs)
  BY <1>5
<1>7. \A k \in 1..n : decodeConstraint(p[k]) = cs[g[k]]
  <2> SUFFICES ASSUME NEW k \in 1..n PROVE decodeConstraint(p[k]) = cs[g[k]]
    OBVIOUS
  <2>1. p[k] = Limit(cs[g[k]])
    BY <1>1, <1>5, <1>6
  <2> QED BY <2>1, LimitIs
<1>8. decodeConstraints(LimitsAt(cs, I)) = [k \in 1..n |-> cs[g[k]]]
  <2>1. decodeConstraints(LimitsAt(cs, I)) = [k \in DOMAIN p |-> decodeConstraint(p[k])]
    BY <1>3 DEF decodeConstraints
  <2>2. DOMAIN p = 1..n
    BY <1>5
  <2> QED BY <1>7, <2>1, <2>2
<1> QED BY <1>4, <1>5, <1>8 DEF Picks

LEMMA AllDecoded ==
    ASSUME NEW cs, cs \in Seq(Expression)
    PROVE  decodeConstraints(LimitsAt(cs, 1..Len(cs))) = cs
<1> DEFINE q == Limits(cs)
           n == Len(cs)
<1>1. n \in Nat /\ DOMAIN q = 1..n /\ \A i \in 1..n : q[i] = Limit(cs[i])
  BY DEF Limits
<1>2. Those(q, 1..n) = q
  <2>1. q \in [1..n -> {Limit(cs[i]) : i \in 1..n}]
    BY DEF Limits
  <2> HIDE DEF q
  <2> QED BY <1>1, <2>1, AllOfThose
<1>3. Content(LimitsAt(cs, 1..n)) = q
  BY <1>2, KindsDiffer DEF LimitsAt
<1> HIDE DEF q
<1>4. \A i \in 1..n : decodeConstraint(q[i]) = cs[i]
  <2> SUFFICES ASSUME NEW i \in 1..n PROVE decodeConstraint(q[i]) = cs[i]
    OBVIOUS
  <2>1. q[i] = Limit(cs[i])
    BY <1>1
  <2> QED BY <2>1, LimitIs
<1>5. decodeConstraints(LimitsAt(cs, 1..n)) = [i \in 1..n |-> cs[i]]
  <2>1. decodeConstraints(LimitsAt(cs, 1..n)) = [i \in DOMAIN q |-> decodeConstraint(q[i])]
    BY <1>3 DEF decodeConstraints
  <2> QED BY <1>1, <1>4, <2>1
<1> QED BY <1>5

\* Whoever examines a checkout can weigh every limit; whoever examines a
\* payment, the limits on what a payment says.
Stateable == {"amount", "at", "merchant.id"}

LEMMA StatesAre ==
    /\ \A names : canState(openCheckout, names)
    /\ \A names : canState(openPayment, names) <=> names \subseteq Stateable
<1>1. /\ evaluations[openCheckout] = [states |-> DOMAIN fields, attributes |-> TRUE]
      /\ evaluations[openPayment] = [states |-> Stateable, attributes |-> FALSE]
  BY MandatesDiffer DEF evaluations, Stateable
<1>2. Stateable \subseteq DOMAIN fields
  BY DEF Stateable, fields
<1>3. \A names : canState(openCheckout, names)
  <2>1. evaluations[openCheckout].states = DOMAIN fields /\ evaluations[openCheckout].attributes
    BY <1>1
  <2> QED BY Zenon, <2>1 DEF canState
<1>4. ASSUME NEW names PROVE canState(openPayment, names) <=> names \subseteq Stateable
  <2>1. evaluations[openPayment].states = Stateable /\ ~evaluations[openPayment].attributes
    BY <1>1
  <2>2. canState(openPayment, names) <=>
        \A f \in names : IF f \in DOMAIN fields THEN f \in Stateable ELSE FALSE
    BY Zenon, <2>1 DEF canState
  <2> QED BY <1>2, <2>2
<1> QED BY <1>3, <1>4

\* The limits of m its verifiers can weigh.
Weighed(m) == {i \in 1..Len(m.constraints) : canState(m.vct, Fields(m.constraints[i]))}

LEMMA Minimised ==
    ASSUME NEW m, SurfaceMandate(m), NEW salt, NEW sd, sd = IssueOpen(UserKey, m, SurfaceAlg, salt)
    PROVE  /\ Minimise(sd) = Shown(sd, Weighed(m))
           /\ Portion(Weighed(m), m)
<1> DEFINE d == sd.disclosures
           cs == m.constraints
           vct == Content(SignedClaims(sd).vct)
           I == {i \in DOMAIN d : Name(d[i]) # Unnamed \/ Weighable(vct, d[i])}
<1>1. /\ sd.disclosures = AllLimits(salt, cs)
      /\ Agree(SignedClaims(sd), openClaims(m), Unlisted(m))
  BY OpenSigned
<1>2. DOMAIN d = 1..Len(cs) /\ \A i \in 1..Len(cs) : d[i] = Disclosed(salt, cs, i)
  BY <1>1 DEF AllLimits
<1>3. vct = m.vct
  <2>1. "vct" \in Unlisted(m)
    BY DEF Unlisted, OpenNames
  <2>2. SignedClaims(sd)["vct"] = openClaims(m)["vct"]
    BY <1>1, <2>1 DEF Agree
  <2>3. openClaims(m)["vct"] = Str(m.vct)
    BY OpenClaims
  <2>4. SignedClaims(sd).vct = Str(m.vct)
    BY <2>2, <2>3
  <2> QED BY <2>4, KindsDiffer
<1> HIDE DEF d, vct
<1>4. \A i \in 1..Len(cs) : Name(d[i]) = Unnamed /\ Value(d[i]) = Limit(cs[i])
  <2>1. \A i : Name(Disclosed(salt, cs, i)) = Unnamed /\ Value(Disclosed(salt, cs, i)) = Limit(cs[i])
    BY DEF Disclosed, Disclosure, Name, Value
  <2> QED BY <1>2, <2>1
<1>5. \A i \in 1..Len(cs) : Weighable(m.vct, d[i]) <=> canState(m.vct, Fields(cs[i]))
  <2> SUFFICES ASSUME NEW i \in 1..Len(cs)
               PROVE  Weighable(m.vct, d[i]) <=> canState(m.vct, Fields(cs[i]))
    OBVIOUS
  <2>1. decodeConstraint(Value(d[i])) = cs[i]
    BY <1>4, LimitIs
  <2> QED BY Zenon, <2>1 DEF Weighable
<1>6. I = Weighed(m)
  BY <1>2, <1>3, <1>4, <1>5 DEF Weighed
<1>7. shownLimits(sd) = Those(d, I)
  BY Zenon DEF shownLimits, d, vct
<1>8. Minimise(sd) = Shown(sd, Weighed(m))
  BY <1>6, <1>7 DEF Minimise, Shown, d
<1> QED BY <1>8 DEF Portion, Weighed
-----------------------------------------------------------------------------
(* The decisions. *)

CheckoutAt(cs, t) ==
    [vct |-> openCheckout, agentKey |-> AgentKey, constraints |-> cs,
     payee |-> <<>>, amount |-> <<>>, instrument |-> <<>>, date |-> <<>>,
     issuedAt |-> t, expiresAt |-> t + OpenLife]

PaymentAt(cs, t) ==
    [vct |-> openPayment, agentKey |-> AgentKey, constraints |-> cs,
     payee |-> <<>>, amount |-> <<>>, instrument |-> <<instrument>>, date |-> <<>>,
     issuedAt |-> t, expiresAt |-> t + OpenLife]

\* The pair of a decision made at t.
PairAt(cs, t) == [kind |-> "open", checkout |-> CheckoutAt(cs, t), payment |-> PaymentAt(cs, t)]

\* What the human agreed to can be read, and is what is being signed, and is
\* what has been signed.
ApprovedInv ==
    /\ approved \in Instructions \cup {<<>>}
    /\ \A i \in DOMAIN approved : Parses(approved[i])

SigningOpen ==
    /\ open = <<>>
    /\ approved # <<>>
    /\ \E t \in 0..now : desk.job = PairAt(approved, t)

SigningClosed ==
    /\ desk.job.kind = "closed"
    /\ desk.job.id \in Purchases
    /\ buys[desk.job.id].stage = "approving"
    /\ desk.job.checkout \in 0..now
    /\ desk.job.payment \in 0..now

DeskInv ==
    \/ desk = Idle
    \/ /\ desk = [stage |-> desk.stage, job |-> desk.job]
       /\ desk.stage \in {"first", "second"}
       /\ checked # NotSigning
       /\ SigningOpen \/ SigningClosed

OpenInv ==
    \/ open = <<>>
    \/ /\ approved # <<>>
       /\ \E t \in 0..now : open = <<PairAt(approved, t)>>

\* The checks behind an acceptance, passed at an instant.
AgreedChain(p, t) ==
    /\ Passed(AuthoriseCheckoutChainError(Checkout(p), Subject(Offer(p), t), Offer(p),
                                          rules("merchant"), nonce(p, "merchant"), t))
    /\ Passed(AuthorisePaymentChainError(Payment(p, "merchant"), rules("merchant"),
                                         nonce(p, "merchant"), t))

AgreedDirect(p, t) ==
    /\ Passed(VerifyCheckoutError(Checkout(p), Offer(p), rules("merchant"), t))
    /\ Passed(VerifyPaymentError(Payment(p, "merchant"), rules("merchant"), t))
    /\ Passed(PaysForError([hash |-> decodePayment(Payload(Payment(p, "merchant"))).hash,
                            alg |-> HashAlg(Payment(p, "merchant"))], Offer(p)))

MerchantAgreed(p, t) ==
    /\ t < Content(Claims(Offer(p)).exp)
    /\ IF buys[p].mode = "chain" THEN AgreedChain(p, t) ELSE AgreedDirect(p, t)

ProcessorAgreed(p, t) ==
    IF buys[p].mode = "chain"
      THEN Passed(AuthorisePaymentChainError(Payment(p, "mpp"), rules("mpp"), nonce(p, "mpp"), t))
    ELSE Passed(VerifyPaymentError(Payment(p, "mpp"), rules("mpp"), t))

Funded == {Answer("credprovider", "payment", "")}
Accepted == Funded \cup {Answer("merchant", "checkout", "")}
SettledAnswers == Accepted \cup {Answer("mpp", "payment", "")}

Signed == {"mandated", "funded", "accepted", "settled"}
Stages == {"quoted", "approving", "failed", "refused"} \cup Signed

IsBuy(b) ==
    /\ b = [stage |-> b.stage, mode |-> b.mode, offer |-> b.offer, stampedAt |-> b.stampedAt,
            signedAt |-> b.signedAt, fundedAt |-> b.fundedAt, accepted |-> b.accepted,
            answers |-> b.answers]
    /\ b.stage \in Stages
    /\ b.mode \in {"chain", "direct"}
    /\ b.offer.at \in 0..now
    /\ {b.stampedAt, b.signedAt, b.accepted} \subseteq -1..now

\* The stages of a purchase, and what has been answered by each.
StageInv(p) ==
    LET b == buys[p]
    IN  /\ b.mode = "chain" => open # <<>> /\ b.stage # "approving" /\ b.stampedAt = b.signedAt
        /\ b.stage \in {"quoted", "approving", "mandated", "funded"} => b.accepted = -1
        /\ b.stage \in Signed => b.signedAt # -1
        /\ b.stage \in {"quoted", "approving", "mandated"} => b.answers = {}
        /\ b.stage = "funded" => b.answers = Funded
        /\ b.stage = "accepted" => b.accepted # -1 /\ b.answers = Accepted
        /\ b.stage = "settled" => b.accepted # -1 /\ b.answers = SettledAnswers

BuyInv(p) ==
    \/ buys[p] = Unstarted
    \/ /\ IsBuy(buys[p])
       /\ StageInv(p)
       /\ buys[p].accepted # -1 => MerchantAgreed(p, buys[p].accepted)
       /\ buys[p].stage = "settled" => \E t \in 0..now : ProcessorAgreed(p, t)

AuthorityInv ==
    /\ KeyInv
    /\ ApprovedInv
    /\ DeskInv
    /\ OpenInv
    /\ buys = [p \in Purchases |-> buys[p]]
    /\ \A p \in Purchases : BuyInv(p)

\* The terms of a purchase: what its documents are made of.
SameTerms(p) ==
    /\ buys'[p].mode = buys[p].mode
    /\ buys'[p].offer = buys[p].offer
    /\ buys'[p].stampedAt = buys[p].stampedAt
    /\ buys'[p].signedAt = buys[p].signedAt
    /\ buys[p].mode = "chain" => open' = open

LEMMA SameDocuments ==
    ASSUME NEW p \in Purchases, SameTerms(p)
    PROVE  /\ Offer(p)' = Offer(p)
           /\ Checkout(p)' = Checkout(p)
           /\ \A v : Payment(p, v)' = Payment(p, v)
<1>1. Offer(p)' = Offer(p)
  BY DEF Offer, SameTerms
<1>2. \A t : /\ closedCheckoutOf(p, t)' = closedCheckoutOf(p, t)
             /\ closedPaymentOf(p, t)' = closedPaymentOf(p, t)
  BY <1>1 DEF closedCheckoutOf, closedPaymentOf
<1>3. \A v : kb(p, v)' = kb(p, v)
  BY DEF kb, SameTerms
<1>4. Checkout(p)' = Checkout(p)
  BY <1>2, <1>3 DEF Checkout, SameTerms
<1>5. ASSUME NEW v PROVE Payment(p, v)' = Payment(p, v)
  BY <1>1, <1>2, <1>3 DEF Payment, SameTerms
<1> QED BY <1>1, <1>4, <1>5

LEMMA SameAgreement ==
    ASSUME NEW p \in Purchases, SameTerms(p), NEW t
    PROVE  MerchantAgreed(p, t)' = MerchantAgreed(p, t) /\ ProcessorAgreed(p, t)' = ProcessorAgreed(p, t)
<1>1. /\ Offer(p)' = Offer(p) /\ Checkout(p)' = Checkout(p)
      /\ Payment(p, "merchant")' = Payment(p, "merchant") /\ Payment(p, "mpp")' = Payment(p, "mpp")
      /\ buys'[p].mode = buys[p].mode
  BY SameDocuments DEF SameTerms
<1>2. AgreedChain(p, t)' = AgreedChain(p, t)
  BY <1>1 DEF AgreedChain
<1>3. AgreedDirect(p, t)' = AgreedDirect(p, t)
  BY <1>1 DEF AgreedDirect
<1> QED BY <1>1, <1>2, <1>3 DEF MerchantAgreed, ProcessorAgreed

\* Time may pass, and the open mandates be made.
Onward == now' \in Nat /\ now \in Nat /\ now <= now' /\ (open' = open \/ open = <<>>)

LEMMA BuyKept ==
    ASSUME NEW p \in Purchases, BuyInv(p), buys'[p] = buys[p], Onward
    PROVE  BuyInv(p)'
<1>1. CASE buys[p] = Unstarted
  BY <1>1 DEF BuyInv, Unstarted
<1>2. CASE buys[p] # Unstarted
  <2>1. IsBuy(buys[p]) /\ StageInv(p)
    BY <1>2 DEF BuyInv
  <2>2. SameTerms(p)
    BY <2>1 DEF SameTerms, StageInv, Onward
  <2>3. IsBuy(buys[p])' /\ StageInv(p)'
    BY <2>1 DEF IsBuy, StageInv, Onward
  <2>4. buys'[p].accepted # -1 => MerchantAgreed(p, buys[p].accepted)'
    BY <1>2, <2>2, SameAgreement DEF BuyInv
  <2>5. buys'[p].stage = "settled" => \E t \in 0..now' : ProcessorAgreed(p, t)'
    BY <1>2, <2>2, SameAgreement DEF BuyInv, Onward
  <2> QED BY <2>3, <2>4, <2>5 DEF BuyInv
<1> QED BY <1>1, <1>2
-----------------------------------------------------------------------------
(* Every step keeps the invariant. *)

LEMMA NowIsNat == KeyInv => now \in Nat
BY KeyStoreAssumption DEF KeyInv

\* A signature is made of the check behind it, and another check may follow.
LEMMA ChecksKeep ==
    ASSUME KeyInv, NEW refused \in BOOLEAN, SignChecks(refused), UNCHANGED <<now, keys>>,
           signatures' = signatures \/ (SignWrites /\ checked # NotSigning)
    PROVE  KeyInv'
<1>1. checked' = NotSigning \/ CheckedInTime(checked', now', keys'[Signer])
  BY CheckKeeps
<1>2. \A t \in signatures' : CheckedInTime(t, now', keys'[Signer])
  BY DEF SignWrites, KeyInv, CheckedInTime
<1> QED BY <1>1, <1>2 DEF KeyInv, Key, KeyOK, NotSigning, Never

LEMMA WritingKeeps ==
    ASSUME KeyInv, SignWrites, checked # NotSigning, checked' = NotSigning, UNCHANGED <<now, keys>>
    PROVE  KeyInv'
BY DEF SignWrites, KeyInv, CheckedInTime, Key, KeyOK, NotSigning, Never

LEMMA SameKeys == KeyInv /\ UNCHANGED keyVars => KeyInv'
BY DEF keyVars, KeyInv, Key, KeyOK, CheckedInTime, NotSigning, Never

LEMMA DeskKept ==
    ASSUME DeskInv, UNCHANGED <<desk, approved, open, checked>>, Onward,
           \A p \in Purchases : buys[p].stage = "approving" => buys'[p].stage = "approving"
    PROVE  DeskInv'
<1>1. CASE desk = Idle
  BY <1>1 DEF DeskInv
<1>2. CASE desk # Idle
  <2>1. SigningOpen => SigningOpen'
    BY DEF SigningOpen, Onward
  <2>2. SigningClosed => SigningClosed'
    BY DEF SigningClosed, Onward
  <2> QED BY <1>2, <2>1, <2>2 DEF DeskInv
<1> QED BY <1>1, <1>2

LEMMA OpenKept ==
    ASSUME OpenInv, UNCHANGED <<approved, open>>, Onward
    PROVE  OpenInv'
BY DEF OpenInv, Onward

Rewritten(p) ==
    /\ buys' = [q \in Purchases |-> buys'[q]]
    /\ \A q \in Purchases \ {p} : buys'[q] = buys[q]

LEMMA OthersKept ==
    ASSUME AuthorityInv, NEW p \in Purchases, Rewritten(p), Onward, BuyInv(p)'
    PROVE  /\ buys' = [q \in Purchases |-> buys'[q]]
           /\ \A q \in Purchases : BuyInv(q)'
<1>1. ASSUME NEW q \in Purchases, q # p PROVE BuyInv(q)'
  BY <1>1, BuyKept DEF AuthorityInv, Rewritten
<1> QED BY <1>1 DEF Rewritten

\* A step of one purchase that the user is not signing for.
LEMMA PurchaseKeeps ==
    ASSUME AuthorityInv, keep, NEW p \in Purchases, Rewritten(p), BuyInv(p)',
           buys[p].stage # "approving"
    PROVE  AuthorityInv'
<1>1. UNCHANGED <<now, checked, desk, approved, open>> /\ UNCHANGED keyVars
  BY DEF keep, keyVars, surfaceVars
<1>2. Onward
  BY <1>1, NowIsNat DEF Onward, AuthorityInv
<1>3. \A q \in Purchases : buys[q].stage = "approving" => buys'[q].stage = "approving"
  BY DEF Rewritten
<1>4. KeyInv'
  BY <1>1, SameKeys DEF AuthorityInv
<1>5. ApprovedInv'
  BY <1>1 DEF AuthorityInv, ApprovedInv
<1>6. DeskInv'
  BY <1>1, <1>2, <1>3, DeskKept DEF AuthorityInv
<1>7. OpenInv'
  BY <1>1, <1>2, OpenKept DEF AuthorityInv
<1> QED BY <1>2, <1>4, <1>5, <1>6, <1>7, OthersKept DEF AuthorityInv

\* A step in which no purchase changes.
LEMMA NoPurchase ==
    ASSUME AuthorityInv, UNCHANGED buys, Onward
    PROVE  /\ buys' = [q \in Purchases |-> buys'[q]]
           /\ \A q \in Purchases : BuyInv(q)'
<1>1. ASSUME NEW q \in Purchases PROVE BuyInv(q)'
  BY BuyKept DEF AuthorityInv
<1> QED BY <1>1 DEF AuthorityInv

LEMMA Failing ==
    ASSUME AuthorityInv, NEW p \in Purchases, buys[p] # Unstarted, buys[p].stage # "settled",
           Fail(p), Onward
    PROVE  Rewritten(p) /\ BuyInv(p)'
<1>1. IsBuy(buys[p]) /\ StageInv(p) /\ buys = [q \in Purchases |-> buys[q]]
  BY DEF AuthorityInv, BuyInv
<1>2. buys' = [buys EXCEPT ![p].stage = "failed"]
  BY DEF Fail
<1>3. Rewritten(p)
  BY <1>1, <1>2 DEF Rewritten
<1>4. /\ buys'[p].stage = "failed" /\ buys'[p].mode = buys[p].mode /\ buys'[p].offer = buys[p].offer
      /\ buys'[p].stampedAt = buys[p].stampedAt /\ buys'[p].signedAt = buys[p].signedAt
      /\ buys'[p].fundedAt = buys[p].fundedAt /\ buys'[p].accepted = buys[p].accepted
      /\ buys'[p].answers = buys[p].answers
      /\ buys'[p] = [stage |-> "failed", mode |-> buys[p].mode, offer |-> buys[p].offer,
                     stampedAt |-> buys[p].stampedAt, signedAt |-> buys[p].signedAt,
                     fundedAt |-> buys[p].fundedAt, accepted |-> buys[p].accepted,
                     answers |-> buys[p].answers]
  BY <1>1, <1>2 DEF IsBuy
<1>5. IsBuy(buys[p])'
  BY <1>1, <1>4 DEF IsBuy, Stages, Onward
<1>6. StageInv(p)'
  BY <1>1, <1>4 DEF StageInv, Onward, Signed
<1>7. buys'[p].accepted # -1 => MerchantAgreed(p, buys[p].accepted)'
  <2>1. SameTerms(p)
    BY <1>1, <1>4 DEF SameTerms, StageInv, Onward
  <2> QED BY <1>4, <2>1, SameAgreement DEF AuthorityInv, BuyInv
<1> QED BY <1>3, <1>4, <1>5, <1>6, <1>7 DEF BuyInv

LEMMA ApprovedIs ==
    ASSUME AuthorityInv
    PROVE  approved \in Seq(Expression)
<1>1. <<>> \in Seq(Expression)
  OBVIOUS
<1> QED BY <1>1, SurfaceAssumption DEF AuthorityInv, ApprovedInv

LEMMA QuoteKeeps == AuthorityInv /\ (\E p \in Purchases : Quote(p)) => AuthorityInv'
<1> SUFFICES ASSUME AuthorityInv, NEW p \in Purchases, Quote(p) PROVE AuthorityInv'
  OBVIOUS
<1>1. PICK choice \in Menu[p] :
          /\ choice.mode = "chain" => open # <<>>
          /\ buys' = [buys EXCEPT ![p] =
                [stage |-> "quoted", mode |-> choice.mode,
                 offer |-> [item |-> choice.item, price |-> choice.price, quantity |-> 1,
                            at |-> now],
                 stampedAt |-> -1, signedAt |-> -1, fundedAt |-> -1, accepted |-> -1, answers |-> {}]]
  BY DEF Quote
<1>2. choice.mode \in {"chain", "direct"}
  BY AuthorityAssumption DEF Purchases
<1>3. Rewritten(p)
  BY <1>1 DEF Rewritten, AuthorityInv
<1>4. /\ buys'[p] = [stage |-> "quoted", mode |-> choice.mode,
                     offer |-> [item |-> choice.item, price |-> choice.price, quantity |-> 1,
                                at |-> now],
                     stampedAt |-> -1, signedAt |-> -1, fundedAt |-> -1, accepted |-> -1,
                     answers |-> {}]
  BY <1>1 DEF AuthorityInv
<1>5. buys[p].stage = "none" /\ keep
  BY DEF Quote, Unstarted
<1>6. open' = open /\ now' = now /\ now \in Nat
  BY <1>5, NowIsNat DEF keep, keyVars, surfaceVars, AuthorityInv
<1>7. IsBuy(buys[p])'
  BY <1>2, <1>4, <1>6 DEF IsBuy, Stages
<1>8. StageInv(p)'
  BY <1>1, <1>4, <1>6 DEF StageInv, Signed
<1>9. buys'[p].accepted = -1 /\ buys'[p].stage # "settled"
  BY <1>4
<1> QED BY <1>3, <1>5, <1>7, <1>8, <1>9, PurchaseKeeps DEF BuyInv

\* What a purchase under way is.
LEMMA UnderWay ==
    ASSUME AuthorityInv, NEW p \in Purchases, buys[p].stage \in Stages
    PROVE  /\ IsBuy(buys[p]) /\ StageInv(p) /\ buys[p] # Unstarted
           /\ buys = [q \in Purchases |-> buys[q]] /\ now \in Nat
           /\ buys[p].accepted # -1 => MerchantAgreed(p, buys[p].accepted)
BY NowIsNat DEF AuthorityInv, BuyInv, Unstarted, Stages, Signed

LEMMA FailKeeps ==
    ASSUME AuthorityInv, NEW p \in Purchases, keep, Fail(p),
           buys[p].stage \in {"quoted", "mandated", "funded", "accepted"}
    PROVE  AuthorityInv'
<1>1. buys[p].stage \in Stages /\ buys[p].stage # "settled" /\ buys[p].stage # "approving"
  BY DEF Stages, Signed
<1>2. buys[p] # Unstarted /\ now \in Nat
  BY <1>1, UnderWay
<1>3. Onward
  BY <1>2 DEF Onward, keep, keyVars, surfaceVars
<1> QED BY <1>1, <1>2, <1>3, Failing, PurchaseKeeps

LEMMA DelegateKeeps == AuthorityInv /\ (\E p \in Purchases : DelegateAttempt(p)) => AuthorityInv'
<1> SUFFICES ASSUME AuthorityInv, NEW p \in Purchases, DelegateAttempt(p) PROVE AuthorityInv'
  OBVIOUS
<1>1. buys[p].stage = "quoted" /\ buys[p].mode = "chain" /\ keep
  BY DEF DelegateAttempt
<1>2. CASE DelegationRefused(p)
  <2>1. Fail(p)
    BY <1>2 DEF DelegateAttempt
  <2> QED BY <1>1, <2>1, FailKeeps
<1>3. CASE ~DelegationRefused(p)
  <2>1. buys' = [buys EXCEPT ![p].stage = "mandated", ![p].stampedAt = now, ![p].signedAt = now]
    BY <1>3 DEF DelegateAttempt
  <2>2. /\ IsBuy(buys[p]) /\ StageInv(p) /\ buys = [q \in Purchases |-> buys[q]] /\ now \in Nat
    BY <1>1, UnderWay DEF Stages
  <2>3. Rewritten(p)
    BY <2>1, <2>2 DEF Rewritten
  <2>4. buys'[p] = [stage |-> "mandated", mode |-> buys[p].mode, offer |-> buys[p].offer,
                    stampedAt |-> now, signedAt |-> now, fundedAt |-> buys[p].fundedAt,
                    accepted |-> buys[p].accepted, answers |-> buys[p].answers]
    BY <2>1, <2>2 DEF IsBuy
  <2>5. open' = open /\ now' = now
    BY <1>1 DEF keep, keyVars, surfaceVars
  <2>6. IsBuy(buys[p])'
    BY <2>2, <2>4, <2>5 DEF IsBuy, Stages, Signed
  <2>7. StageInv(p)'
    BY <1>1, <2>2, <2>4, <2>5 DEF StageInv, Signed
  <2>8. buys'[p].accepted = -1 /\ buys'[p].stage # "settled"
    BY <1>1, <2>2, <2>4 DEF StageInv
  <2> QED BY <1>1, <2>3, <2>6, <2>7, <2>8, PurchaseKeeps DEF BuyInv
<1> QED BY <1>2, <1>3

LEMMA FundKeeps == AuthorityInv /\ (\E p \in Purchases : Fund(p)) => AuthorityInv'
<1> SUFFICES ASSUME AuthorityInv, NEW p \in Purchases, Fund(p) PROVE AuthorityInv'
  OBVIOUS
<1> DEFINE verdict == examine(buys[p].mode, Payment(p, "credprovider"), "credprovider",
                              nonce(p, "credprovider"))
           st == IF verdict = "" THEN "funded" ELSE "refused"
           when == IF verdict = "" THEN now ELSE buys[p].fundedAt
           said == buys[p].answers \cup {Answer("credprovider", "payment", verdict)}
<1>1. buys[p].stage = "mandated" /\ keep
  BY DEF Fund
<1>2. buys' = [buys EXCEPT ![p].stage = st, ![p].fundedAt = when, ![p].answers = said]
  BY Zenon DEF Fund, AnswerOfProvider
<1>8. st \in {"funded", "refused"}
  BY Zenon
<1>5. st = "funded" => said = buys[p].answers \cup Funded
  BY Zenon DEF Funded
<1> HIDE DEF verdict, st, when, said
<1>3. /\ IsBuy(buys[p]) /\ StageInv(p) /\ buys = [q \in Purchases |-> buys[q]] /\ now \in Nat
  BY <1>1, UnderWay DEF Stages, Signed
<1>4. Rewritten(p)
  BY <1>2, <1>3 DEF Rewritten
<1>6. buys'[p] = [stage |-> st, mode |-> buys[p].mode, offer |-> buys[p].offer,
                  stampedAt |-> buys[p].stampedAt, signedAt |-> buys[p].signedAt,
                  fundedAt |-> when, accepted |-> buys[p].accepted, answers |-> said]
  BY <1>2, <1>3 DEF IsBuy
<1>7. open' = open /\ now' = now
  BY <1>1 DEF keep, keyVars, surfaceVars
<1>10. buys[p].accepted = -1 /\ buys[p].signedAt # -1 /\ buys[p].answers = {}
  BY <1>1, <1>3 DEF StageInv, Signed
<1>9. st = "funded" => said = Funded
  BY <1>5, <1>10
<1>11. IsBuy(buys[p])'
  BY <1>3, <1>6, <1>7, <1>8 DEF IsBuy, Stages, Signed
<1>12. StageInv(p)'
  BY <1>3, <1>6, <1>7, <1>8, <1>9, <1>10 DEF StageInv, Signed
<1>13. buys'[p].accepted = -1 /\ buys'[p].stage # "settled"
  BY <1>6, <1>8, <1>10
<1> QED BY <1>1, <1>4, <1>11, <1>12, <1>13, PurchaseKeeps DEF BuyInv

\* The merchant's verdict on mandates the user signed closed.
LEMMA DirectDecided ==
    ASSUME NEW c, NEW m, NEW offer
    PROVE  Passed(decide(c, m, offer).error) <=>
           /\ Passed(VerifyCheckoutError(c, offer, rules("merchant"), now))
           /\ Passed(VerifyPaymentError(m, rules("merchant"), now))
           /\ Passed(PaysForError([hash |-> decodePayment(Payload(m)).hash, alg |-> HashAlg(m)], offer))
           /\ Passed(AmountMatchesError(decodePayment(Payload(m)).amount, quotedPrice(offer)))
<1> DEFINE checkout == VerifyCheckoutError(c, offer, rules("merchant"), now)
           a == VerifyPaymentError(m, rules("merchant"), now)
           b == PaysForError([hash |-> decodePayment(Payload(m)).hash, alg |-> HashAlg(m)], offer)
           d == AmountMatchesError(decodePayment(Payload(m)).amount, quotedPrice(offer))
           payment == a ?? b ?? d
<1>1. decide(c, m, offer) =
      IF checkout # "" \/ payment = "" THEN [kind |-> "checkout", error |-> checkout]
      ELSE [kind |-> "payment", error |-> payment]
  BY Zenon DEF decide, Verdict
<1> HIDE DEF checkout, a, b, d
<1>2. Passed(payment) <=> Passed(a) /\ Passed(b) /\ Passed(d)
  BY ChecksPass
<1> HIDE DEF payment
<1>3. decide(c, m, offer).error = IF checkout # "" \/ payment = "" THEN checkout ELSE payment
  <2>1. /\ [kind |-> "checkout", error |-> checkout].error = checkout
        /\ [kind |-> "payment", error |-> payment].error = payment
    OBVIOUS
  <2> QED BY Zenon, <1>1, <2>1
<1>4. Passed(decide(c, m, offer).error) <=> Passed(checkout) /\ Passed(payment)
  BY Zenon, <1>3 DEF Passed
<1> QED BY <1>2, <1>4 DEF checkout, a, b, d

\* A verdict of "" is of the checkout.
LEMMA VerdictOf ==
    ASSUME NEW mode, NEW c, NEW m, NEW offer, NEW challenge, NEW verdict,
           verdict = Decide(mode, c, m, offer, challenge), Passed(verdict.error)
    PROVE  verdict.kind = "checkout"
<1> DEFINE Either(e, f) == IF e # "" \/ f = "" THEN [kind |-> "checkout", error |-> e]
                           ELSE [kind |-> "payment", error |-> f]
<1>1. ASSUME NEW e, NEW f, Passed(Either(e, f).error)
      PROVE  Either(e, f).kind = "checkout"
  <2>1. /\ [kind |-> "checkout", error |-> e].kind = "checkout"
        /\ [kind |-> "payment", error |-> f].error = f
    OBVIOUS
  <2> QED BY Zenon, <1>1, <2>1 DEF Passed
<1>2. CASE mode = "chain"
  <2> DEFINE e == AuthoriseCheckoutChainError(c, Subject(offer, now), offer, rules("merchant"),
                                              challenge, now)
             f == AuthorisePaymentChainError(m, rules("merchant"), challenge, now)
                  ?? PaysForError(BindingIn(m, decodePayment(Delegated(m)).hash), offer)
                  ?? AmountMatchesError(decodePayment(Delegated(m)).amount, quotedPrice(offer))
  <2>1. verdict = Either(e, f)
    BY Zenon, <1>2 DEF Decide, decideChain, Verdict
  <2> HIDE DEF e, f, Either
  <2> QED BY <1>1, <2>1
<1>3. CASE mode # "chain"
  <2> DEFINE e == VerifyCheckoutError(c, offer, rules("merchant"), now)
             f == VerifyPaymentError(m, rules("merchant"), now)
                  ?? PaysForError([hash |-> decodePayment(Payload(m)).hash, alg |-> HashAlg(m)], offer)
                  ?? AmountMatchesError(decodePayment(Payload(m)).amount, quotedPrice(offer))
  <2>1. verdict = Either(e, f)
    BY Zenon, <1>3 DEF Decide, decide, Verdict
  <2> HIDE DEF e, f, Either
  <2> QED BY <1>1, <2>1
<1> QED BY <1>2, <1>3

LEMMA OfferStands ==
    ASSUME NEW offer, Passed(ownOfferError(offer))
    PROVE  now < Content(Claims(offer).exp)
<1>1. Passed(Refuse(~(now < Content(Claims(offer).exp)), "offer expired"))
  BY Zenon, ChecksPass DEF ownOfferError
<1> QED BY Zenon, <1>1 DEF Passed, Refuse

LEMMA MerchantKeeps == AuthorityInv /\ (\E p \in Purchases : SettleAtMerchant(p)) => AuthorityInv'
<1> SUFFICES ASSUME AuthorityInv, NEW p \in Purchases, SettleAtMerchant(p) PROVE AuthorityInv'
  OBVIOUS
<1> DEFINE verdict == Decide(buys[p].mode, Checkout(p), Payment(p, "merchant"), Offer(p),
                             nonce(p, "merchant"))
           st == IF verdict.error = "" THEN "accepted" ELSE "refused"
           when == IF verdict.error = "" THEN now ELSE buys[p].accepted
           said == buys[p].answers \cup {Answer("merchant", verdict.kind, verdict.error)}
<1>1. buys[p].stage = "funded" /\ keep
  BY DEF SettleAtMerchant
<1>2. CASE ownOfferError(Offer(p)) # ""
  <2>1. Fail(p)
    BY <1>2 DEF SettleAtMerchant
  <2> QED BY <1>1, <2>1, FailKeeps
<1>3. CASE ownOfferError(Offer(p)) = ""
  <2>1. buys' = [buys EXCEPT ![p].stage = st, ![p].accepted = when, ![p].answers = said]
    BY Zenon, <1>3 DEF SettleAtMerchant, AnswerOfMerchant
  <2>2. verdict.error = "" => MerchantAgreed(p, now) /\ verdict.kind = "checkout"
    <3>1. now < Content(Claims(Offer(p)).exp)
      BY <1>3, OfferStands DEF Passed
    <3>2. ASSUME Passed(verdict.error) PROVE MerchantAgreed(p, now) /\ verdict.kind = "checkout"
      <4>1. CASE buys[p].mode = "chain"
        <5>1. verdict = decideChain(Checkout(p), Payment(p, "merchant"), Offer(p),
                                    nonce(p, "merchant"))
          BY <4>1 DEF Decide
        <5> HIDE DEF verdict
        <5> QED BY <3>1, <3>2, <4>1, <5>1, ChainDecided, VerdictOf DEF MerchantAgreed, AgreedChain, verdict
      <4>2. CASE buys[p].mode # "chain"
        <5>1. verdict = decide(Checkout(p), Payment(p, "merchant"), Offer(p))
          BY <4>2 DEF Decide
        <5> HIDE DEF verdict
        <5> QED BY <3>1, <3>2, <4>2, <5>1, DirectDecided, VerdictOf DEF MerchantAgreed, AgreedDirect, verdict
      <4> QED BY <4>1, <4>2
    <3> QED BY Zenon, <3>2 DEF Passed
  <2>9. /\ st \in {"accepted", "refused"}
        /\ when \in {now, buys[p].accepted}
        /\ st = "accepted" => when = now
        /\ when = buys[p].accepted \/ (when = now /\ MerchantAgreed(p, now))
    BY Zenon, <2>2
  <2>5. st = "accepted" => said = buys[p].answers \cup {Answer("merchant", "checkout", "")}
    BY Zenon, <2>2
  <2> HIDE DEF verdict, st, when, said
  <2>3. /\ IsBuy(buys[p]) /\ StageInv(p) /\ buys = [q \in Purchases |-> buys[q]] /\ now \in Nat
    BY <1>1, UnderWay DEF Stages, Signed
  <2>4. Rewritten(p)
    BY <2>1, <2>3 DEF Rewritten
  <2>6. buys'[p] = [stage |-> st, mode |-> buys[p].mode, offer |-> buys[p].offer,
                    stampedAt |-> buys[p].stampedAt, signedAt |-> buys[p].signedAt,
                    fundedAt |-> buys[p].fundedAt, accepted |-> when, answers |-> said]
    BY <2>1, <2>3 DEF IsBuy
  <2>7. open' = open /\ now' = now
    BY <1>1 DEF keep, keyVars, surfaceVars
  <2>8. /\ buys[p].accepted = -1 /\ buys[p].signedAt # -1 /\ buys[p].answers = Funded
    BY <1>1, <2>3 DEF StageInv, Signed
  <2>10. st = "accepted" => said = Accepted /\ when = now
    BY <2>5, <2>8, <2>9 DEF Accepted
  <2>12. IsBuy(buys[p])'
    BY <2>3, <2>6, <2>7, <2>8, <2>9 DEF IsBuy, Stages, Signed
  <2>13. StageInv(p)'
    BY <2>3, <2>6, <2>7, <2>8, <2>9, <2>10 DEF StageInv, Signed
  <2>14. SameTerms(p)
    BY <2>6, <2>7 DEF SameTerms
  <2>15. buys'[p].accepted # -1 => MerchantAgreed(p, buys[p].accepted)'
    <3>1. PICK t : t = when
      OBVIOUS
    <3>2. t # -1 => MerchantAgreed(p, t)
      BY <2>8, <2>9, <3>1
    <3>3. MerchantAgreed(p, t)' = MerchantAgreed(p, t)
      BY <2>14, SameAgreement
    <3>4. buys'[p].accepted = t
      BY <2>6, <3>1
    <3> QED BY <3>2, <3>3, <3>4
  <2>16. buys'[p].stage # "settled"
    BY <2>6, <2>9
  <2> QED BY <1>1, <2>4, <2>12, <2>13, <2>15, <2>16, PurchaseKeeps DEF BuyInv
<1> QED BY <1>2, <1>3

LEMMA ProcessorKeeps == AuthorityInv /\ (\E p \in Purchases : SettleAtProcessor(p)) => AuthorityInv'
<1> SUFFICES ASSUME AuthorityInv, NEW p \in Purchases, SettleAtProcessor(p) PROVE AuthorityInv'
  OBVIOUS
<1> DEFINE verdict == examineSettlement(buys[p].mode, Payment(p, "mpp"), nonce(p, "mpp"),
                                        Credential(p))
           st == IF verdict = "" THEN "settled" ELSE "refused"
           said == buys[p].answers \cup {Answer("mpp", "payment", verdict)}
<1>1. buys[p].stage = "accepted" /\ keep
  BY DEF SettleAtProcessor
<1>2. buys' = [buys EXCEPT ![p].stage = st, ![p].answers = said]
  BY Zenon DEF SettleAtProcessor, AnswerOfProcessor
<1>3. verdict = "" => ProcessorAgreed(p, now)
  <2>1. ASSUME Passed(verdict) PROVE Passed(examine(buys[p].mode, Payment(p, "mpp"), "mpp", nonce(p, "mpp")))
    BY Zenon, <2>1, ChecksPass DEF examineSettlement
  <2> QED BY Zenon, <2>1 DEF Passed, examine, ProcessorAgreed
<1>9. st \in {"settled", "refused"}
  BY Zenon
<1>6. st = "settled" => said = buys[p].answers \cup {Answer("mpp", "payment", "")}
  BY Zenon
<1>17. st = "settled" => ProcessorAgreed(p, now)
  BY Zenon, <1>3
<1> HIDE DEF verdict, st, said
<1>4. /\ IsBuy(buys[p]) /\ StageInv(p) /\ buys = [q \in Purchases |-> buys[q]] /\ now \in Nat
      /\ buys[p].accepted # -1 => MerchantAgreed(p, buys[p].accepted)
  BY <1>1, UnderWay DEF Stages, Signed
<1>5. Rewritten(p)
  BY <1>2, <1>4 DEF Rewritten
<1>7. buys'[p] = [stage |-> st, mode |-> buys[p].mode, offer |-> buys[p].offer,
                  stampedAt |-> buys[p].stampedAt, signedAt |-> buys[p].signedAt,
                  fundedAt |-> buys[p].fundedAt, accepted |-> buys[p].accepted,
                  answers |-> said]
  BY <1>2, <1>4 DEF IsBuy
<1>8. open' = open /\ now' = now
  BY <1>1 DEF keep, keyVars, surfaceVars
<1>10. buys[p].accepted # -1 /\ buys[p].signedAt # -1 /\ buys[p].answers = Accepted
  BY <1>1, <1>4 DEF StageInv, Signed
<1>11. st = "settled" => said = SettledAnswers
  BY <1>6, <1>10 DEF SettledAnswers
<1>12. IsBuy(buys[p])'
  BY <1>4, <1>7, <1>8, <1>9 DEF IsBuy, Stages, Signed
<1>13. StageInv(p)'
  BY <1>4, <1>7, <1>8, <1>9, <1>10, <1>11 DEF StageInv, Signed
<1>14. SameTerms(p)
  BY <1>7, <1>8 DEF SameTerms
<1>15. MerchantAgreed(p, buys[p].accepted)'
  <2>1. PICK t : t = buys[p].accepted
    OBVIOUS
  <2>2. MerchantAgreed(p, t)' = MerchantAgreed(p, t)
    BY <1>14, SameAgreement
  <2>3. buys'[p].accepted = t
    BY <1>7, <2>1
  <2> QED BY <1>4, <1>10, <2>1, <2>2, <2>3
<1>16. buys'[p].stage = "settled" => \E t \in 0..now' : ProcessorAgreed(p, t)'
  <2>1. PICK t : t = now
    OBVIOUS
  <2>2. ProcessorAgreed(p, t)' = ProcessorAgreed(p, t)
    BY <1>14, SameAgreement
  <2>3. buys'[p].stage = "settled" => ProcessorAgreed(p, t)
    BY <1>7, <1>17, <2>1
  <2>4. buys'[p].stage = "settled" => ProcessorAgreed(p, t)'
    BY <2>2, <2>3
  <2>5. t \in 0..now'
    BY <1>4, <1>8, <2>1
  <2> QED BY <2>4, <2>5
<1> QED BY <1>1, <1>5, <1>12, <1>13, <1>15, <1>16, PurchaseKeeps DEF BuyInv

LEMMA LapseKeeps == AuthorityInv /\ (\E p \in Purchases : ChallengeLapsed(p)) => AuthorityInv'
BY FailKeeps DEF ChallengeLapsed

\* Several checks pass when each of them does.
LEMMA FirstPasses ==
    ASSUME NEW errs, DOMAIN errs \subseteq Nat
    PROVE  Passed(FirstOf(errs)) <=> \A i \in DOMAIN errs : Passed(errs[i])
<1> DEFINE bad == {i \in DOMAIN errs : errs[i] # ""}
<1>1. FirstOf(errs) = IF bad = {} THEN "" ELSE errs[Min(bad)]
  BY Zenon DEF FirstOf
<1>2. bad = {} <=> \A i \in DOMAIN errs : Passed(errs[i])
  BY Zenon DEF Passed
<1>3. \A i \in bad : i \in DOMAIN errs /\ ~Passed(errs[i])
  BY Zenon DEF Passed
<1>4. bad \in SUBSET Nat
  BY <1>3
<1> HIDE DEF bad
<1>5. bad # {} => Min(bad) \in bad
  <2> SUFFICES ASSUME bad # {} PROVE Min(bad) \in bad
    OBVIOUS
  <2>1. \E x \in bad : \A y \in bad : x <= y
    BY <1>4, LeastOf
  <2> QED BY <2>1 DEF Min
<1>6. CASE bad = {}
  BY Zenon, <1>1, <1>2, <1>6 DEF Passed
<1>7. CASE bad # {}
  BY Zenon, <1>1, <1>2, <1>3, <1>5, <1>7
<1> QED BY <1>6, <1>7

LEMMA DigestsDiffer ==
    /\ \A a, b : digestOf(a) = digestOf(b) => a = b
    /\ \A a : digestOf(a) # NoDigest
BY DEF digestOf, NoDigest, Hash

LEMMA Vetted ==
    ASSUME NEW cs \in Seq(Expression), NEW digest, Passed(vettedError(cs, digest))
    PROVE  cs # <<>> /\ (\A i \in DOMAIN cs : Parses(cs[i])) /\ digest \in {NoDigest, digestOf(cs)}
<1> DEFINE errs == [i \in DOMAIN cs |-> ParseError(cs[i])]
           a == Refuse(cs = <<>>, "request malformed")
           b == FirstOf(errs)
           c == Refuse(digest \notin {NoDigest, digestOf(cs)}, "request malformed")
<1>1. Passed(a ?? b ?? c)
  BY Zenon DEF vettedError
<1>2. Passed(a) => cs # <<>>
  BY Zenon DEF Passed, Refuse
<1>3. Passed(c) => digest \in {NoDigest, digestOf(cs)}
  BY Zenon DEF Passed, Refuse
<1>4. DOMAIN errs = DOMAIN cs /\ \A i \in DOMAIN cs : errs[i] = ParseError(cs[i])
  OBVIOUS
<1>5. DOMAIN errs \subseteq Nat
  OBVIOUS
<1> HIDE DEF errs, a, c
<1>6. Passed(b) => \A i \in DOMAIN cs : Passed(errs[i])
  BY <1>4, <1>5, FirstPasses
<1>7. \A i \in DOMAIN cs : Passed(errs[i]) => Parses(cs[i])
  BY Zenon, <1>4 DEF Passed, Parses
<1> HIDE DEF b
<1>8. Passed(a) /\ Passed(b) /\ Passed(c)
  BY <1>1, ChecksPass
<1> QED BY <1>2, <1>3, <1>6, <1>7, <1>8

LEMMA OpenJobIs ==
    ASSUME NEW cs, NEW agent \in Agents, Passed(IssueOpenError(openCheckoutOf(cs, agent), SurfaceAlg, <<>>))
    PROVE  openJob(cs, agent) = PairAt(cs, now)
<1> DEFINE m == openCheckoutOf(cs, agent)
           a == Refuse(~UsableKey(m.agentKey) \/ m.constraints = <<>>, "mandate malformed")
           b == BlindError(openClaims(m), presentPaths(openClaims(m), blindPaths(m.vct)))
<1>1. Passed(a ?? b)
  BY Zenon DEF IssueOpenError
<1>2. Passed(a) => UsableKey(m.agentKey)
  BY Zenon DEF Passed, Refuse
<1>3. m.agentKey = agent
  BY DEF openCheckoutOf
<1> HIDE DEF a, b, m
<1>4. agent = AgentKey
  <2>1. UsableKey(agent)
    BY <1>1, <1>2, <1>3, ChecksPass
  <2> QED BY <2>1, AuthorityAssumption
<1>5. openCheckoutOf(cs, agent) = CheckoutAt(cs, now)
  BY <1>4 DEF openCheckoutOf, CheckoutAt
<1>6. openPaymentOf(cs, agent) = PaymentAt(cs, now)
  <2>1. openPaymentOf(cs, agent) = [CheckoutAt(cs, now) EXCEPT !.vct = openPayment,
                                                               !.instrument = <<instrument>>]
    BY <1>5 DEF openPaymentOf
  <2> QED BY <2>1 DEF CheckoutAt, PaymentAt
<1> QED BY <1>5, <1>6 DEF openJob, PairAt

LEMMA OnwardNow ==
    ASSUME AuthorityInv, now' = now, open' = open \/ open = <<>>
    PROVE  Onward /\ now \in Nat
BY NowIsNat DEF Onward, AuthorityInv

LEMMA AuthoriseKeeps == AuthorityInv /\ AuthoriseOpen => AuthorityInv'
<1> SUFFICES ASSUME AuthorityInv, AuthoriseOpen PROVE AuthorityInv'
  OBVIOUS
<1>1. \E shown, cs \in Instructions, agent \in Agents : \E digest : Authorise(shown, cs, digest, agent)
  BY DEF AuthoriseOpen
<1>0. PICK shown \in Instructions, cs \in Instructions, agent \in Agents :
          \E digest : Authorise(shown, cs, digest, agent)
  BY <1>1
<1>2. PICK digest : Authorise(shown, cs, digest, agent)
  BY <1>0
<1>3. UNCHANGED buys
  BY DEF AuthoriseOpen
<1>4. /\ open = <<>> /\ open' = open
      /\ digest \in {NoDigest, digestOf(shown)}
      /\ approved' = IF digest = NoDigest THEN cs ELSE shown
      /\ Take(openJob(cs, agent))
  BY <1>2 DEF Authorise
<1>5. /\ Passed(vettedError(cs, digest))
      /\ Passed(IssueOpenError(openCheckoutOf(cs, agent), SurfaceAlg, <<>>))
  BY Zenon, <1>2 DEF Authorise, Passed
<1>6. cs \in Seq(Expression)
  BY SurfaceAssumption
<1>7. cs # <<>> /\ (\A i \in DOMAIN cs : Parses(cs[i])) /\ digest \in {NoDigest, digestOf(cs)}
  BY <1>5, <1>6, Vetted
<1>8. approved' = cs
  BY <1>4, <1>7, DigestsDiffer
<1>9. /\ desk' = [stage |-> "first", job |-> PairAt(cs, now)]
      /\ SignChecks(FALSE) /\ UNCHANGED <<now, keys, signatures>>
  BY <1>4, <1>5, OpenJobIs DEF Take
<1>10. now' = now /\ now \in Nat /\ Onward
  BY <1>4, <1>9, OnwardNow
<1>11. KeyInv'
  BY <1>9, ChecksKeep DEF AuthorityInv
<1>12. checked' # NotSigning
  BY <1>9, <1>10 DEF SignChecks, NotSigning
<1>13. ApprovedInv'
  BY <1>7, <1>8 DEF ApprovedInv
<1>14. DeskInv'
  <2>1. desk'.stage = "first" /\ desk'.job = PairAt(cs, now)
    BY <1>9
  <2>2. now \in 0..now'
    BY <1>10
  <2>3. SigningOpen'
    BY <1>4, <1>7, <1>8, <2>1, <2>2 DEF SigningOpen, PairAt, CheckoutAt, PaymentAt
  <2> QED BY <1>9, <1>12, <2>1, <2>3 DEF DeskInv
<1>15. OpenInv'
  BY <1>4 DEF OpenInv
<1> QED BY <1>3, <1>10, <1>11, <1>13, <1>14, <1>15, NoPurchase DEF AuthorityInv

\* The clock, and the store of keys.
LEMMA KeysKeep ==
    AuthorityInv /\ (Tick \/ Rotate) /\ UNCHANGED <<surfaceVars, buys>> => AuthorityInv'
<1> SUFFICES ASSUME AuthorityInv, Tick \/ Rotate, UNCHANGED <<surfaceVars, buys>>
             PROVE  AuthorityInv'
  OBVIOUS
<1>1. KeyInv'
  BY TickKeeps, RotateKeeps DEF AuthorityInv
<1>2. now \in Nat /\ (now' = now + 1 \/ now' = now) /\ checked' = checked
  BY NowIsNat DEF AuthorityInv, Tick, Rotate
<1>3. UNCHANGED <<desk, approved, open, buys>>
  BY DEF surfaceVars
<1>4. Onward
  BY <1>2, <1>3 DEF Onward
<1>5. ApprovedInv'
  BY <1>3 DEF AuthorityInv, ApprovedInv
<1>6. DeskInv'
  BY <1>2, <1>3, <1>4, DeskKept DEF AuthorityInv
<1>7. OpenInv'
  BY <1>3, <1>4, OpenKept DEF AuthorityInv
<1> QED BY <1>1, <1>3, <1>4, <1>5, <1>6, <1>7, NoPurchase DEF AuthorityInv

LEMMA ApproveKeeps == AuthorityInv /\ (\E p \in Purchases : Approve(p)) => AuthorityInv'
<1> SUFFICES ASSUME AuthorityInv, NEW p \in Purchases, Approve(p) PROVE AuthorityInv'
  OBVIOUS
<1>1. /\ buys[p].stage = "quoted" /\ buys[p].mode = "direct"
      /\ buys' = [buys EXCEPT ![p].stage = "approving"]
      /\ UNCHANGED <<approved, open>>
  BY DEF Approve
<1>2. PICK t \in buys[p].offer.at..now :
          Take([kind |-> "closed", id |-> p, checkout |-> t, payment |-> now])
  BY DEF Approve
<1> DEFINE job == [kind |-> "closed", id |-> p, checkout |-> t, payment |-> now]
<1>3. /\ desk' = [stage |-> "first", job |-> job]
      /\ SignChecks(FALSE) /\ UNCHANGED <<now, keys, signatures>>
  BY <1>2 DEF Take
<1>4. now' = now /\ now \in Nat /\ Onward
  BY <1>1, <1>3, OnwardNow
<1>5. /\ IsBuy(buys[p]) /\ StageInv(p) /\ buys = [q \in Purchases |-> buys[q]]
  BY <1>1, UnderWay DEF Stages
<1>6. Rewritten(p)
  BY <1>1, <1>5 DEF Rewritten
<1>7. buys'[p] = [stage |-> "approving", mode |-> buys[p].mode, offer |-> buys[p].offer,
                  stampedAt |-> buys[p].stampedAt, signedAt |-> buys[p].signedAt,
                  fundedAt |-> buys[p].fundedAt, accepted |-> buys[p].accepted,
                  answers |-> buys[p].answers]
  BY <1>1, <1>5 DEF IsBuy
<1>8. IsBuy(buys[p])'
  BY <1>4, <1>5, <1>7 DEF IsBuy, Stages
<1>9. StageInv(p)'
  BY <1>1, <1>5, <1>7 DEF StageInv, Signed
<1>10. buys'[p].accepted = -1 /\ buys'[p].stage = "approving"
  BY <1>1, <1>5, <1>7 DEF StageInv
<1>11. BuyInv(p)'
  BY <1>8, <1>9, <1>10 DEF BuyInv
<1>12. KeyInv'
  BY <1>3, ChecksKeep DEF AuthorityInv
<1>13. checked' # NotSigning
  BY <1>3, <1>4 DEF SignChecks, NotSigning
<1>14. ApprovedInv'
  BY <1>1 DEF AuthorityInv, ApprovedInv
<1>15. OpenInv'
  BY <1>1, <1>4, OpenKept DEF AuthorityInv
<1>16. DeskInv'
  <2>1. /\ desk'.stage = "first" /\ desk'.job = job /\ job.kind = "closed" /\ job.id = p
        /\ job.checkout = t /\ job.payment = now
    BY <1>3
  <2>2. t \in 0..now' /\ now \in 0..now'
    BY <1>2, <1>4, <1>5 DEF IsBuy
  <2>3. SigningClosed'
    BY <1>10, <2>1, <2>2 DEF SigningClosed
  <2> QED BY <1>3, <1>13, <2>1, <2>3 DEF DeskInv
<1> QED BY <1>4, <1>6, <1>11, <1>12, <1>14, <1>15, <1>16, OthersKept DEF AuthorityInv

LEMMA ApproveRefusedKeeps == AuthorityInv /\ (\E p \in Purchases : ApproveRefused(p)) => AuthorityInv'
<1> SUFFICES ASSUME AuthorityInv, NEW p \in Purchases, ApproveRefused(p) PROVE AuthorityInv'
  OBVIOUS
<1>1. /\ buys[p].stage = "quoted" /\ desk = Idle /\ SignChecks(TRUE) /\ Fail(p)
      /\ UNCHANGED <<now, keys, signatures, desk, approved, open>>
  BY DEF ApproveRefused, surfaceVars
<1>2. Onward
  BY <1>1, OnwardNow
<1>3. buys[p] # Unstarted /\ buys[p].stage # "settled"
  BY <1>1, UnderWay DEF Stages
<1>4. Rewritten(p) /\ BuyInv(p)'
  BY <1>1, <1>2, <1>3, Failing
<1>5. KeyInv'
  BY <1>1, ChecksKeep DEF AuthorityInv
<1>6. ApprovedInv'
  BY <1>1 DEF AuthorityInv, ApprovedInv
<1>7. OpenInv'
  BY <1>1, <1>2, OpenKept DEF AuthorityInv
<1>8. DeskInv'
  BY <1>1 DEF DeskInv
<1> QED BY <1>2, <1>4, <1>5, <1>6, <1>7, <1>8, OthersKept DEF AuthorityInv

LEMMA PairStartsKeeps == AuthorityInv /\ PairStarts => AuthorityInv'
<1> SUFFICES ASSUME AuthorityInv, PairStarts PROVE AuthorityInv'
  OBVIOUS
<1>1. desk.stage = "first" /\ SignWrites /\ UNCHANGED <<now, keys, approved, open>>
  BY DEF PairStarts, SignsFirst
<1>2. PICK refused \in BOOLEAN :
          /\ SignChecks(refused)
          /\ desk' = IF refused THEN Idle ELSE [desk EXCEPT !.stage = "second"]
  BY DEF PairStarts, SignsFirst
<1>3. /\ desk = [stage |-> desk.stage, job |-> desk.job] /\ checked # NotSigning
      /\ SigningOpen \/ SigningClosed
  BY <1>1 DEF AuthorityInv, DeskInv, Idle
<1>4. KeyInv'
  BY <1>1, <1>2, <1>3, ChecksKeep DEF AuthorityInv
<1>5. Onward /\ now \in Nat
  BY <1>1, OnwardNow
<1>6. ApprovedInv'
  BY <1>1 DEF AuthorityInv, ApprovedInv
<1>7. OpenInv'
  BY <1>1, <1>5, OpenKept DEF AuthorityInv
<1>8. CASE refused
  <2>1. desk' = Idle
    BY <1>2, <1>8
  <2>2. DeskInv'
    BY <2>1 DEF DeskInv
  <2>3. CASE desk.job.kind = "closed"
    <3>1. SigningClosed
      BY <1>3, <2>3 DEF SigningOpen, PairAt
    <3>2. desk.job.id \in Purchases /\ buys[desk.job.id].stage = "approving" /\ Fail(desk.job.id)
      BY <2>1, <2>3, <3>1 DEF SigningClosed, PairStarts
    <3>3. buys[desk.job.id] # Unstarted /\ buys[desk.job.id].stage # "settled"
      BY <3>2 DEF Unstarted
    <3>4. PICK p \in Purchases : p = desk.job.id
      BY <3>2
    <3>5. Rewritten(p) /\ BuyInv(p)'
      BY <1>5, <3>2, <3>3, <3>4, Failing
    <3> QED BY <1>4, <1>5, <1>6, <1>7, <2>2, <3>5, OthersKept DEF AuthorityInv
  <2>4. CASE desk.job.kind # "closed"
    <3>1. UNCHANGED buys
      BY <2>4 DEF PairStarts
    <3> QED BY <1>4, <1>5, <1>6, <1>7, <2>2, <3>1, NoPurchase DEF AuthorityInv
  <2> QED BY <2>3, <2>4
<1>9. CASE ~refused
  <2>1. desk' = [stage |-> "second", job |-> desk.job]
    BY <1>2, <1>3, <1>9
  <2>2. desk' # Idle
    BY <2>1 DEF Idle
  <2>3. UNCHANGED buys
    BY <2>2 DEF PairStarts
  <2>4. checked' # NotSigning
    BY <1>2, <1>5, <1>9 DEF SignChecks, NotSigning
  <2>5. desk'.stage = "second" /\ desk'.job = desk.job
    BY <2>1
  <2>6. SigningOpen => SigningOpen'
    BY <1>1, <2>5 DEF SigningOpen
  <2>7. SigningClosed => SigningClosed'
    BY <1>1, <2>3, <2>5 DEF SigningClosed
  <2>8. DeskInv'
    BY <1>3, <2>1, <2>4, <2>5, <2>6, <2>7 DEF DeskInv
  <2> QED BY <1>4, <1>5, <1>6, <1>7, <2>3, <2>8, NoPurchase DEF AuthorityInv
<1> QED BY <1>8, <1>9

LEMMA PairDoneKeeps == AuthorityInv /\ PairDone => AuthorityInv'
<1> SUFFICES ASSUME AuthorityInv, PairDone PROVE AuthorityInv'
  OBVIOUS
<1>1. /\ desk.stage = "second" /\ SignWrites /\ checked' = NotSigning /\ desk' = Idle
      /\ open' = IF desk.job.kind = "open" THEN <<desk.job>> ELSE open
      /\ UNCHANGED <<now, keys, approved>>
  BY DEF PairDone, SignsSecond, Pair
<1>2. /\ checked # NotSigning /\ (SigningOpen \/ SigningClosed)
  BY <1>1 DEF AuthorityInv, DeskInv, Idle
<1>3. KeyInv'
  BY <1>1, <1>2, WritingKeeps DEF AuthorityInv
<1>4. ApprovedInv'
  BY <1>1 DEF AuthorityInv, ApprovedInv
<1>5. DeskInv'
  BY <1>1 DEF DeskInv
<1>6. CASE desk.job.kind = "open"
  <2>1. SigningOpen
    BY <1>2, <1>6 DEF SigningClosed
  <2>2. open = <<>> /\ approved # <<>> /\ open' = <<desk.job>>
    BY <1>1, <1>6, <2>1 DEF SigningOpen
  <2>3. PICK t \in 0..now : desk.job = PairAt(approved, t)
    BY <2>1 DEF SigningOpen
  <2>4. OpenInv'
    BY <1>1, <2>2, <2>3 DEF OpenInv, PairAt, CheckoutAt, PaymentAt
  <2>5. UNCHANGED buys
    BY <1>6 DEF PairDone
  <2>6. Onward
    BY <1>1, <2>2, OnwardNow
  <2> QED BY <1>3, <1>4, <1>5, <2>4, <2>5, <2>6, NoPurchase DEF AuthorityInv
<1>7. CASE desk.job.kind # "open"
  <2>1. SigningClosed
    <3>1. \A t : PairAt(approved, t).kind = "open"
      BY DEF PairAt
    <3>2. ~SigningOpen
      BY <1>7, <3>1 DEF SigningOpen
    <3> QED BY <1>2, <3>2
  <2>2. open' = open
    BY <1>1, <1>7
  <2>3. Onward /\ now \in Nat
    BY <1>1, <2>2, OnwardNow
  <2>4. OpenInv'
    BY <1>1, <2>2, <2>3, OpenKept DEF AuthorityInv
  <2>5. PICK p \in Purchases : p = desk.job.id
    BY <2>1 DEF SigningClosed
  <2>6. PICK a \in 0..now : a = desk.job.checkout
    BY <2>1 DEF SigningClosed
  <2>7. PICK b \in 0..now : b = desk.job.payment
    BY <2>1 DEF SigningClosed
  <2>8. buys[p].stage = "approving"
    BY <2>1, <2>5 DEF SigningClosed
  <2>9. buys' = [buys EXCEPT ![p].stage = "mandated", ![p].stampedAt = a, ![p].signedAt = b]
    BY <1>7, <2>5, <2>6, <2>7 DEF PairDone
  <2>10. /\ IsBuy(buys[p]) /\ StageInv(p) /\ buys = [q \in Purchases |-> buys[q]]
    BY <2>8, UnderWay DEF Stages
  <2>11. Rewritten(p)
    BY <2>9, <2>10 DEF Rewritten
  <2>12. buys'[p] = [stage |-> "mandated", mode |-> buys[p].mode, offer |-> buys[p].offer,
                     stampedAt |-> a, signedAt |-> b, fundedAt |-> buys[p].fundedAt,
                     accepted |-> buys[p].accepted, answers |-> buys[p].answers]
    BY <2>9, <2>10 DEF IsBuy
  <2>13. buys[p].mode # "chain" /\ buys[p].accepted = -1 /\ buys[p].answers = {}
    BY <2>8, <2>10 DEF StageInv
  <2>14. IsBuy(buys[p])'
    BY <1>1, <2>3, <2>10, <2>12 DEF IsBuy, Stages, Signed
  <2>15. StageInv(p)'
    BY <2>3, <2>12, <2>13 DEF StageInv, Signed
  <2>16. BuyInv(p)'
    BY <2>12, <2>13, <2>14, <2>15 DEF BuyInv
  <2> QED BY <1>3, <1>4, <1>5, <2>3, <2>4, <2>11, <2>16, OthersKept DEF AuthorityInv
<1> QED BY <1>6, <1>7

LEMMA AuthorityInvInit == Init => AuthorityInv
<1> SUFFICES ASSUME Init PROVE AuthorityInv
  OBVIOUS
<1>1. KeyInv
  BY KeyInvInit DEF Init
<1>2. ApprovedInv /\ DeskInv /\ OpenInv
  BY DEF Init, SurfaceInit, ApprovedInv, DeskInv, OpenInv
<1>3. buys = [p \in Purchases |-> buys[p]] /\ \A p \in Purchases : BuyInv(p)
  BY DEF Init, BuyInv
<1> QED BY <1>1, <1>2, <1>3 DEF AuthorityInv

LEMMA AuthorityInvNext == AuthorityInv /\ [Next]_vars => AuthorityInv'
<1> SUFFICES ASSUME AuthorityInv, [Next]_vars PROVE AuthorityInv'
  OBVIOUS
<1>1. CASE Tick /\ UNCHANGED <<surfaceVars, buys>>
  BY <1>1, KeysKeep
<1>2. CASE Rotate /\ UNCHANGED <<surfaceVars, buys>>
  BY <1>2, KeysKeep
<1>3. CASE AuthoriseOpen
  BY <1>3, AuthoriseKeeps
<1>4. CASE PairStarts
  BY <1>4, PairStartsKeeps
<1>5. CASE PairDone
  BY <1>5, PairDoneKeeps
<1>6. CASE \E p \in Purchases : Quote(p)
  BY <1>6, QuoteKeeps
<1>7. CASE \E p \in Purchases : DelegateAttempt(p)
  BY <1>7, DelegateKeeps
<1>8. CASE \E p \in Purchases : Approve(p)
  BY <1>8, ApproveKeeps
<1>9. CASE \E p \in Purchases : ApproveRefused(p)
  BY <1>9, ApproveRefusedKeeps
<1>10. CASE \E p \in Purchases : Fund(p)
  BY <1>10, FundKeeps
<1>11. CASE \E p \in Purchases : SettleAtMerchant(p)
  BY <1>11, MerchantKeeps
<1>12. CASE \E p \in Purchases : SettleAtProcessor(p)
  BY <1>12, ProcessorKeeps
<1>13. CASE \E p \in Purchases : ChallengeLapsed(p)
  BY <1>13, LapseKeeps
<1>14. CASE UNCHANGED vars
  <2>1. UNCHANGED keyVars /\ UNCHANGED <<now, checked, desk, approved, open, buys>>
    BY <1>14 DEF vars, keyVars, surfaceVars
  <2>2. Onward
    BY <2>1, OnwardNow
  <2>3. ApprovedInv'
    BY <2>1 DEF AuthorityInv, ApprovedInv
  <2>4. DeskInv'
    BY <2>1, <2>2, DeskKept DEF AuthorityInv
  <2> QED BY <2>1, <2>2, <2>3, <2>4, SameKeys, OpenKept, NoPurchase DEF AuthorityInv
<1> QED BY <1>1, <1>2, <1>3, <1>4, <1>5, <1>6, <1>7, <1>8, <1>9, <1>10, <1>11, <1>12, <1>13, <1>14
        DEF Next

\* What is decided is decided once: what the human agreed to is what is being
\* signed and what was signed, under the agent's key and one window; and every
\* purchase keeps the checks behind its acceptance and the answers of its stage.
THEOREM DecisionsKept == Spec => []AuthorityInv
BY AuthorityInvInit, AuthorityInvNext, PTL DEF Spec

\* Signatures outlive the rotation of their key where the store has a user:
\* two signatures of one decision, checked one after the other.
THEOREM DecisionsOutliveRotation == Spec => []SignaturesOutliveRotation
<1>1. AuthorityInv => SignaturesOutliveRotation
  BY KeyInvSuffices DEF AuthorityInv
<1> QED BY <1>1, DecisionsKept, PTL

\* Whatever mandates, challenges, offers and credentials of any number of
\* purchases are put together, a verifier accepts only what was signed for
\* itself, for one purchase, under its own challenge.
THEOREM PresentationsAreForOne == Spec => []EachForOne
<1>1. Spec => []AuthorityInv
  BY DecisionsKept
<1>2. AuthorityInv => EachForOne
  BY OnePresentationIsForOne
<1> QED BY <1>1, <1>2, PTL
-----------------------------------------------------------------------------
(* What the user agreed to, and what is accepted. *)

LEMMA CheckoutAtIs ==
    ASSUME NEW cs, cs \in Seq(Expression), cs # <<>>, NEW t, NEW m, m = CheckoutAt(cs, t)
    PROVE  /\ SurfaceMandate(m)
           /\ m.vct = openCheckout /\ m.agentKey = AgentKey /\ m.constraints = cs
           /\ m.instrument = <<>> /\ m.issuedAt = t /\ m.expiresAt = t + OpenLife
BY DEF CheckoutAt, SurfaceMandate

LEMMA PaymentAtIs ==
    ASSUME NEW cs, cs \in Seq(Expression), cs # <<>>, NEW t, NEW m, m = PaymentAt(cs, t)
    PROVE  /\ SurfaceMandate(m)
           /\ m.vct = openPayment /\ m.agentKey = AgentKey /\ m.constraints = cs
           /\ m.instrument = Once(instrument) /\ m.issuedAt = t /\ m.expiresAt = t + OpenLife
BY DEF PaymentAt, SurfaceMandate, Once

\* Agreed at t: what is signed is what the human agreed to.
AgreedAt(t) ==
    /\ t \in 0..now
    /\ approved \in Seq(Expression) /\ approved # <<>>
    /\ open[1].checkout = CheckoutAt(approved, t)
    /\ open[1].payment = PaymentAt(approved, t)

LEMMA Agreed ==
    ASSUME AuthorityInv, open # <<>>
    PROVE  \E t : AgreedAt(t)
<1>1. PICK t \in 0..now : open = <<PairAt(approved, t)>>
  BY DEF AuthorityInv, OpenInv
<1>2. approved # <<>> /\ approved \in Instructions
  BY DEF AuthorityInv, OpenInv, ApprovedInv
<1>3. approved \in Seq(Expression)
  BY <1>2, SurfaceAssumption
<1>4. open[1] = PairAt(approved, t)
  BY <1>1
<1>5. /\ PairAt(approved, t).checkout = CheckoutAt(approved, t)
      /\ PairAt(approved, t).payment = PaymentAt(approved, t)
  BY DEF PairAt
<1> QED BY <1>1, <1>2, <1>3, <1>4, <1>5 DEF AgreedAt

\* A token with all its limits shown has what was signed.
LEMMA WholeDecoded ==
    ASSUME NEW m, SurfaceMandate(m), NEW salt, NEW sd, sd = IssueOpen(UserKey, m, SurfaceAlg, salt),
           NEW root, root = Payload(sd)
    PROVE  /\ decodeOpen(root).vct = m.vct
           /\ decodeOpen(root).agentKey = m.agentKey
           /\ decodeOpen(root).constraints = m.constraints
           /\ decodeOpen(root).payee = <<>>
           /\ decodeOpen(root).amount = <<>>
           /\ decodeOpen(root).instrument = m.instrument
           /\ decodeOpen(root).date = <<>>
           /\ decodeOpen(root).issuedAt = Once(m.issuedAt)
           /\ decodeOpen(root).expiresAt = Once(m.expiresAt)
<1>1. PICK I : I = 1..Len(m.constraints)
  OBVIOUS
<1>2. Portion(I, m)
  BY <1>1 DEF Portion
<1>3. Shown(sd, I) = sd
  <2>1. ShownWhole(sd, m)
    BY <1>2, ShownIs
  <2> QED BY <1>1, <2>1 DEF ShownWhole
<1>4. decodeConstraints(LimitsAt(m.constraints, I)) = m.constraints
  BY <1>1, AllDecoded DEF SurfaceMandate
<1>5. root = Payload(Shown(sd, I))
  BY <1>3
<1> QED BY <1>2, <1>4, <1>5, ShownDecoded

\* A merchant can weigh every limit, and is shown every one.
LEMMA CheckoutWhole ==
    ASSUME NEW m, SurfaceMandate(m), m.vct = openCheckout,
           NEW salt, NEW sd, sd = IssueOpen(UserKey, m, SurfaceAlg, salt)
    PROVE  Minimise(sd) = sd
<1>1. Weighed(m) = 1..Len(m.constraints)
  BY StatesAre DEF Weighed
<1>2. Minimise(sd) = Shown(sd, 1..Len(m.constraints))
  BY <1>1, Minimised
<1>3. Portion(Weighed(m), m)
  BY Minimised
<1>4. ShownWhole(sd, m)
  BY <1>3, ShownIs
<1> QED BY <1>2, <1>4 DEF ShownWhole

LEMMA CheckoutRoot ==
    ASSUME NEW p, buys[p].mode = "chain"
    PROVE  Checkout(p).root = Minimise(OpenCheckout(open[1]))
<1> DEFINE claims == bindCheckout(closedCheckoutOf(p, buys[p].stampedAt), bindingAlg(AgentAlg, TRUE))
           b == Blinded(claims, closedCheckout, AgentAlg, <<"delegate", p>>)
<1>1. Checkout(p) = Delegate(Minimise(OpenCheckout(open[1])), AgentKey, kb(p, "merchant"), b.payload,
                             b.disclosures, AgentAlg, <<"delegate", p>>)
  BY DEF Checkout, DelegateCheckout, DelegateMandate
<1> HIDE DEF b
<1> QED BY <1>1, DelegationIs

\* Limits that are evaluated and found to hold.
LEMMA Weighing ==
    ASSUME NEW cs \in Seq(Expression), NEW s
    PROVE  Passed(Evaluate(cs, s)) <=>
           /\ \A i \in 1..Len(cs) : Parses(cs[i])
           /\ \A i \in 1..Len(cs) : Satisfied(cs[i], s)
<1> DEFINE errs == [i \in 1..Len(cs) |-> ParseError(cs[i])]
           bad == \E i \in 1..Len(cs) : ~Satisfied(cs[i], s)
<1>1. Evaluate(cs, s) = FirstOf(errs) ?? Refuse(bad, "violated")
  BY Zenon DEF Evaluate
<1>2. DOMAIN errs = 1..Len(cs) /\ 1..Len(cs) \subseteq Nat
  OBVIOUS
<1>3. \A i \in 1..Len(cs) : Passed(errs[i]) <=> Parses(cs[i])
  <2>1. \A i \in 1..Len(cs) : errs[i] = ParseError(cs[i])
    BY Zenon
  <2> HIDE DEF errs
  <2> QED BY Zenon, <2>1 DEF Passed, Parses
<1> HIDE DEF errs
<1>4. Passed(FirstOf(errs)) <=> \A i \in 1..Len(cs) : Parses(cs[i])
  <2>1. Passed(FirstOf(errs)) <=> \A i \in DOMAIN errs : Passed(errs[i])
    BY <1>2, FirstPasses
  <2> QED BY Zenon, <1>2, <1>3, <2>1
<1>5. Passed(Refuse(bad, "violated")) <=> ~bad
  BY Zenon DEF Passed, Refuse
<1>6. Passed(Evaluate(cs, s)) <=> Passed(FirstOf(errs)) /\ Passed(Refuse(bad, "violated"))
  BY Zenon, <1>1, ChecksPass
<1> QED BY Zenon, <1>4, <1>5, <1>6

\* A mandate its key may spend is in its time.
LEMMA InItsTime ==
    ASSUME NEW open1, NEW t, NEW a, NEW b, open1.issuedAt = Once(a), open1.expiresAt = Once(b)
    PROVE  Passed(CanAuthoriseError(open1, t)) <=> UsableKey(open1.agentKey) /\ ~(t < a) /\ t < b
<1> DEFINE x == ~UsableKey(open1.agentKey)
           y == open1.issuedAt # <<>> /\ t < open1.issuedAt[1]
           z == open1.expiresAt # <<>> /\ ~(t < open1.expiresAt[1])
<1>1. CanAuthoriseError(open1, t) = Refuse(x, "no endorsed key") ?? Refuse(y, "not yet valid")
                                    ?? Refuse(z, "expired")
  BY Zenon DEF CanAuthoriseError
<1>2. Once(a) # <<>> /\ Once(a)[1] = a /\ Once(b) # <<>> /\ Once(b)[1] = b
  BY DEF Once
<1>3. (y <=> t < a) /\ (z <=> ~(t < b))
  BY Zenon, <1>2
<1> HIDE DEF x, y, z
<1>5. /\ Passed(Refuse(x, "no endorsed key")) <=> ~x
      /\ Passed(Refuse(y, "not yet valid")) <=> ~y
      /\ Passed(Refuse(z, "expired")) <=> ~z
  BY Zenon DEF Passed, Refuse
<1> DEFINE a1 == Refuse(x, "no endorsed key")
           a2 == Refuse(y, "not yet valid")
           a3 == Refuse(z, "expired")
<1>6. CanAuthoriseError(open1, t) = a1 ?? a2 ?? a3
  BY Zenon, <1>1
<1>7. (Passed(a1) <=> ~x) /\ (Passed(a2) <=> ~y) /\ (Passed(a3) <=> ~z)
  BY Zenon, <1>5
<1> HIDE DEF a1, a2, a3
<1>8. Passed(CanAuthoriseError(open1, t)) <=> ~x /\ ~y /\ ~z
  BY <1>6, <1>7, ChecksPass
<1> QED BY Zenon, <1>3, <1>8 DEF x

\* The checkout the merchant accepted is of limits that hold of what it knows.
LEMMA InstructionKept == AuthorityInv => InstructionHonoured
<1> SUFFICES ASSUME AuthorityInv, NEW p \in Delegations, buys[p].accepted # -1
             PROVE  LET at == buys[p].accepted
                        user == decodeOpen(Payload(OpenCheckout(open[1])))
                    IN  /\ Instructed(p, at)
                        /\ at \in user.issuedAt[1]..(user.expiresAt[1] - 1)
                        /\ at < Content(Claims(Offer(p)).exp)
  BY DEF InstructionHonoured
<1> DEFINE at == buys[p].accepted
           sd == OpenCheckout(open[1])
           root == Payload(sd)
<1>1. p \in Purchases /\ buys[p].mode = "chain" /\ buys[p].stage # "none"
  BY DEF Delegations
<1>2. BuyInv(p) /\ buys[p] # Unstarted
  BY <1>1 DEF AuthorityInv, Unstarted
<1>3. IsBuy(buys[p]) /\ StageInv(p) /\ MerchantAgreed(p, at)
  BY <1>2 DEF BuyInv
<1>4. at \in Nat /\ open # <<>>
  <2>1. now \in Nat
    BY DEF AuthorityInv, KeyInv
  <2> QED BY <1>1, <1>3, <2>1 DEF IsBuy, StageInv
<1>5. AgreedChain(p, at) /\ at < Content(Claims(Offer(p)).exp)
  BY <1>1, <1>3 DEF MerchantAgreed
<1>6. PICK t : AgreedAt(t)
  BY <1>4, Agreed
<1>7. PICK m : m = CheckoutAt(approved, t)
  OBVIOUS
<1>8. /\ SurfaceMandate(m) /\ m.vct = openCheckout /\ m.constraints = approved
      /\ m.issuedAt = t /\ m.expiresAt = t + OpenLife /\ t \in Nat
  <2>1. now \in Nat
    BY DEF AuthorityInv, KeyInv
  <2> QED BY <1>6, <1>7, <2>1, CheckoutAtIs DEF AgreedAt
<1>9. sd = IssueOpen(UserKey, m, SurfaceAlg, <<"open", 1>>)
  BY <1>6, <1>7 DEF OpenCheckout, AgreedAt
<1>10. Checkout(p).root = sd
  <2>1. Minimise(sd) = sd
    BY <1>8, <1>9, CheckoutWhole
  <2> QED BY <1>1, <2>1, CheckoutRoot
<1>11. /\ decodeOpen(root).constraints = approved
       /\ decodeOpen(root).issuedAt = Once(t) /\ decodeOpen(root).expiresAt = Once(t + OpenLife)
  BY <1>8, <1>9, WholeDecoded
<1>12. Passed(AuthoriseCheckoutError(decodeOpen(root), Subject(Offer(p), at), at))
  <2>1. Passed(AuthoriseCheckoutError(decodeOpen(Payload(Checkout(p).root)), Subject(Offer(p), at), at))
    BY <1>5, CheckoutChecked DEF AgreedChain
  <2> QED BY <1>10, <2>1
<1> HIDE DEF at, sd, root
<1> DEFINE user == decodeOpen(root)
<1>13. Passed(CanAuthoriseError(user, at)) /\ Passed(Evaluate(approved, Subject(Offer(p), at)))
  BY Zenon, <1>11, <1>12, ChecksPass DEF AuthoriseCheckoutError
<1> HIDE DEF user
<1>14. /\ user.issuedAt = Once(t) /\ user.expiresAt = Once(t + OpenLife)
       /\ user.issuedAt[1] = t /\ user.expiresAt[1] = t + OpenLife
  BY <1>11 DEF user, Once
<1>15. ~(at < t) /\ at < t + OpenLife
  BY <1>13, <1>14, InItsTime
<1>16. \A i \in 1..Len(approved) : Satisfied(approved[i], Subject(Offer(p), at))
  <2>1. approved \in Seq(Expression)
    BY <1>6 DEF AgreedAt
  <2> QED BY <1>13, <2>1, Weighing
<1>17. Instructed(p, at)
  <2>1. DOMAIN approved = 1..Len(approved)
    BY <1>6 DEF AgreedAt
  <2>2. Subject(Offer(p), at) = Facts(p, at)
    BY DEF Subject, Facts
  <2> QED BY <1>16, <2>1, <2>2 DEF Instructed
<1>18. OpenLife \in Nat
  BY SurfaceAssumption
<1>19. at \in t..((t + OpenLife) - 1)
  BY <1>4, <1>8, <1>15, <1>18 DEF at
<1> QED BY <1>5, <1>14, <1>17, <1>19 DEF at, sd, root, user

\* Whatever a merchant accepts is within what the user agreed to.
THEOREM InstructionsAreHonoured == Spec => []InstructionHonoured
BY InstructionKept, DecisionsKept, PTL
-----------------------------------------------------------------------------
(* What the processor of a token finds in order. *)

\* A value with nothing hidden in it.
Plain(v) == IsLeaf(v) \/ \E g : v = Obj(g) /\ FlatObject(g) /\ arrayDigestKey \notin DOMAIN g

LEMMA PlainIs ==
    ASSUME NEW v, Plain(v), NEW shown
    PROVE  /\ Digests(v) = {}
           /\ \A y \in Inside(v, shown) : Plain(y[2])
           /\ IsObj(v) => FitsObject(Content(v), shown)
           /\ ~IsArr(v)
<1>1. CASE IsLeaf(v)
  <2>1. Digests(v) = {}
    BY <1>1 DEF Digests, IsLeaf
  <2>2. Inside(v, shown) = {}
    BY <1>1, <2>1 DEF Inside, IsLeaf
  <2> QED BY <1>1, <2>1, <2>2 DEF IsLeaf
<1>2. ASSUME NEW g, v = Obj(g), FlatObject(g), arrayDigestKey \notin DOMAIN g
      PROVE  /\ Digests(v) = {}
             /\ \A y \in Inside(v, shown) : Plain(y[2])
             /\ IsObj(v) => FitsObject(Content(v), shown)
             /\ ~IsArr(v)
  <2>1. IsObj(v) /\ ~IsArr(v) /\ Content(v) = g /\ sdClaim \notin DOMAIN g /\ \A k \in DOMAIN g : IsLeaf(g[k])
    BY <1>2, KindsDiffer DEF FlatObject
  <2>2. Digests(v) = {}
    BY <2>1 DEF Digests
  <2>3. Inside(v, shown) \subseteq {<<<<k>>, g[k]>> : k \in DOMAIN g}
    BY <2>1, <2>2 DEF Inside
  <2>4. \A y \in Inside(v, shown) : Plain(y[2])
    BY <2>1, <2>3 DEF Plain
  <2>5. FitsObject(g, shown)
    BY <1>2, <2>1 DEF FitsObject
  <2> QED BY <2>1, <2>2, <2>4, <2>5
<1> QED BY <1>1, <1>2 DEF Plain

\* A list of which every element is hidden.
HiddenList(v, h, n) == v = Placeholders(h, n)
Holds1(h, n, shown) == \A i \in 1..n : h[i] \in shown => Plain(Value(Committed(h[i])))
Unlabelled(h, n) == \A i \in 1..n : Name(Committed(h[i])) = Unnamed
DigestAt(h, i) == <<i, h[i]>>

LEMMA HiddenListIs ==
    ASSUME NEW n \in Nat, NEW h, NEW v, HiddenList(v, h, n), NEW shown, Holds1(h, n, shown),
           Unlabelled(h, n)
    PROVE  /\ \A d : d \in Digests(v) <=> \E i \in 1..n : d = DigestAt(h, i)
           /\ \A y \in Inside(v, shown) : Plain(y[2])
           /\ FitsArray(Content(v), shown) /\ ~IsObj(v)
<1> DEFINE f == [i \in 1..n |-> Placeholder(h[i])]
<1>1. v = Arr(f) /\ DOMAIN f = 1..n /\ \A i \in 1..n : IsPlaceholder(f[i]) /\ DigestIn(f[i]) = h[i]
  BY KindsDiffer DEF HiddenList, Placeholders
<1> HIDE DEF f
<1>2. IsArr(v) /\ ~IsObj(v) /\ Content(v) = f
  BY <1>1, KindsDiffer
<1>3. Digests(v) = {<<i, h[i]>> : i \in 1..n}
  <2>1. Digests(v) = {<<i, DigestIn(f[i])>> : i \in {j \in DOMAIN f : IsPlaceholder(f[j])}}
    BY <1>2 DEF Digests
  <2>2. {j \in DOMAIN f : IsPlaceholder(f[j])} = 1..n
    BY <1>1
  <2> QED BY <1>1, <2>1, <2>2
<1>4. Inside(v, shown) \subseteq {<<d, Value(Committed(d[2]))>> : d \in {e \in Digests(v) : e[2] \in shown}}
  <2>1. {i \in DOMAIN f : ~IsPlaceholder(f[i])} = {}
    BY <1>1
  <2> QED BY <1>2, <2>1 DEF Inside
<1>5. \A y \in Inside(v, shown) : Plain(y[2])
  <2> SUFFICES ASSUME NEW y \in Inside(v, shown) PROVE Plain(y[2])
    OBVIOUS
  <2>1. PICK d \in Digests(v) : d[2] \in shown /\ y[2] = Value(Committed(d[2]))
    BY <1>4
  <2>2. PICK i \in 1..n : d[2] = h[i]
    BY <1>3, <2>1
  <2> QED BY <2>1, <2>2 DEF Holds1
<1>6. FitsArray(f, shown)
  BY <1>1 DEF FitsArray, Unlabelled
<1> QED BY <1>2, <1>3, <1>5, <1>6 DEF DigestAt

\* Where a walk may be: at the value itself, at its one list of hidden
\* elements, or at something with nothing hidden in it.
Root(v) == <<<<>>, v>>
Place(at, v) == <<at, v>>
Found(x, v, at, list) == x = Root(v) \/ x = Place(at, list) \/ Plain(x[2])
\* The value is itself the list, or is an object that holds it.
Around(v, at, list, shown) ==
    /\ \A y \in Inside(v, shown) : y = Place(at, list) \/ Plain(y[2])
    /\ \A y \in Inside(list, shown) : Plain(y[2])

Step(x, y) == <<x[1] \o y[1], y[2]>>

LEMMA DeeperIs ==
    ASSUME NEW S, NEW shown
    PROVE  \A z : z \in Deeper(S, shown) <=>
                 \E x \in S : \E y \in Inside(x[2], shown) : z = Step(x, y)
<1> SUFFICES ASSUME NEW z
             PROVE  z \in Deeper(S, shown) <=>
                    \E x \in S : \E y \in Inside(x[2], shown) : z = Step(x, y)
  OBVIOUS
<1>1. z \in Deeper(S, shown) <=>
      \E x \in S : z \in {Step(x, y) : y \in Inside(x[2], shown)}
  BY Zenon DEF Deeper, Step
<1>2. \A x : z \in {Step(x, y) : y \in Inside(x[2], shown)} <=>
             \E y \in Inside(x[2], shown) : z = Step(x, y)
  BY Zenon
<1> QED BY Zenon, <1>1, <1>2

LEMMA WithinIs ==
    ASSUME NEW v, NEW steps, NEW at \in Seq(steps), NEW list, NEW shown, Around(v, at, list, shown)
    PROVE  /\ \A x \in Within(v, shown) : Found(x, v, at, list)
           /\ Root(v) \in Within(v, shown)
           /\ Place(at, list) \in Inside(v, shown) => Place(at, list) \in Within(v, shown)
<1> DEFINE P(S) == \A x \in S : Found(x, v, at, list)
<1>1. ASSUME NEW S, P(S) PROVE P(Deeper(S, shown))
  <2> USE DEF Step
  <2>1. ASSUME NEW x \in S, NEW y \in Inside(x[2], shown), x = Root(v)
        PROVE  Found(Step(x, y), v, at, list)
    <3>1. x[1] = <<>> /\ x[2] = v
      BY <2>1 DEF Root
    <3>2. CASE y = Place(at, list)
      <4>1. y[1] = at /\ y[2] = list
        BY <3>2 DEF Place
      <4>2. <<>> \o at = at
        OBVIOUS
      <4> QED BY <3>1, <4>1, <4>2 DEF Found, Place
    <3>3. CASE Plain(y[2])
      BY <3>3 DEF Found
    <3> QED BY <2>1, <3>1, <3>2, <3>3 DEF Around
  <2>2. ASSUME NEW x \in S, NEW y \in Inside(x[2], shown), x = Place(at, list)
        PROVE  Found(Step(x, y), v, at, list)
    <3>1. x[2] = list
      BY <2>2 DEF Place
    <3> QED BY <2>2, <3>1 DEF Around, Found
  <2>3. ASSUME NEW x \in S, NEW y \in Inside(x[2], shown), Plain(x[2])
        PROVE  Found(Step(x, y), v, at, list)
    BY <2>3, PlainIs DEF Found
  <2>4. \A x \in S : \A y \in Inside(x[2], shown) : Found(Step(x, y), v, at, list)
    BY Zenon, <1>1, <2>1, <2>2, <2>3 DEF Found
  <2> HIDE DEF Step
  <2>5. \A z \in Deeper(S, shown) : \E x \in S : \E y \in Inside(x[2], shown) : z = Step(x, y)
    BY DeeperIs
  <2> QED BY Zenon, <2>4, <2>5
<1> DEFINE S0 == {Root(v)}
           S1 == Deeper(S0, shown)
           S2 == Deeper(S1, shown)
           S3 == Deeper(S2, shown)
<1>2. Within(v, shown) = S0 \cup S1 \cup S2 \cup S3
  BY DEF Within, Root
<1>3. P(S0)
  BY DEF Found
<1>4. Place(at, list) \in Inside(v, shown) => Place(at, list) \in S1
  <2> SUFFICES ASSUME Place(at, list) \in Inside(v, shown) PROVE Place(at, list) \in S1
    OBVIOUS
  <2>1. /\ Root(v)[1] = <<>> /\ Root(v)[2] = v
        /\ Place(at, list)[1] = at /\ Place(at, list)[2] = list /\ <<>> \o at = at
    BY DEF Root, Place
  <2>2. Step(Root(v), Place(at, list)) = Place(at, list)
    BY <2>1 DEF Step, Place
  <2>3. Root(v) \in S0
    OBVIOUS
  <2> HIDE DEF S0
  <2> QED BY <2>1, <2>2, <2>3, DeeperIs
<1> HIDE DEF P
<1>5. P(S1)
  BY <1>1, <1>3
<1> HIDE DEF S1
<1>6. P(S2)
  BY <1>1, <1>5
<1> HIDE DEF S2
<1>7. P(S3)
  BY <1>1, <1>6
<1> HIDE DEF S3
<1> QED BY <1>2, <1>3, <1>4, <1>5, <1>6, <1>7 DEF P

Met(x, d) == <<x[1] \o <<d[1]>>, d[2]>>

LEMMA EncounterIs ==
    ASSUME NEW v, NEW shown, NEW e
    PROVE  e \in encounter(Within(v, shown)) <=>
           \E x \in Within(v, shown) : \E d \in Digests(x[2]) : e = Met(x, d)
<1>1. e \in encounter(Within(v, shown)) <=>
      \E x \in Within(v, shown) : e \in {Met(x, d) : d \in Digests(x[2])}
  BY Zenon DEF encounter, Met
<1>2. \A x : e \in {Met(x, d) : d \in Digests(x[2])} <=> \E d \in Digests(x[2]) : e = Met(x, d)
  BY Zenon
<1> QED BY Zenon, <1>1, <1>2

DigestsUnder(alg, q) == {Hash(alg, d) : d \in ToSet(q)}
Distinct(q) == \A i, j \in DOMAIN q : q[i] = q[j] => i = j
Injective(h, n) == \A i, j \in 1..n : h[i] = h[j] => i = j
ListedIn(shown, h, n) == \A s \in shown : \E i \in 1..n : s = h[i]

\* The list is the value, or is in it and the value hides nothing else.
Lists(v, at, list, shown) ==
    \/ v = list /\ at = <<>>
    \/ /\ Digests(v) = {} /\ ~IsArr(v) /\ (IsObj(v) => FitsObject(Content(v), shown))
       /\ Place(at, list) \in Inside(v, shown)

\* A value that hides the elements of one list, presented with some of them.
LEMMA InOrder ==
    ASSUME NEW v, NEW steps, NEW at \in Seq(steps), NEW n \in Nat, NEW h, NEW list,
           HiddenList(list, h, n), NEW q, NEW alg, NEW shown, shown = DigestsUnder(alg, q),
           Around(v, at, list, shown), Lists(v, at, list, shown),
           Holds1(h, n, shown), Unlabelled(h, n), Injective(h, n), Distinct(q), ListedIn(shown, h, n)
    PROVE  Passed(ProcessError(v, q, alg))
<1>1. /\ \A x \in Within(v, shown) : Found(x, v, at, list)
      /\ Root(v) \in Within(v, shown)
      /\ Place(at, list) \in Inside(v, shown) => Place(at, list) \in Within(v, shown)
  BY WithinIs
<1>2. /\ \A d : d \in Digests(list) <=> \E i \in 1..n : d = DigestAt(h, i)
      /\ FitsArray(Content(list), shown) /\ ~IsObj(list)
  BY HiddenListIs
<1>3. Place(at, list) \in Within(v, shown)
  <2>1. v = list /\ at = <<>> => Place(at, list) = Root(v)
    BY DEF Place, Root
  <2> QED BY <1>1, <2>1 DEF Lists
<1>4. ASSUME NEW x \in Within(v, shown), Digests(x[2]) # {} PROVE x = Place(at, list)
  <2>1. CASE x = Root(v)
    <3>1. x[2] = v
      BY <2>1 DEF Root
    <3>2. v = list /\ at = <<>>
      BY <1>4, <3>1 DEF Lists
    <3> QED BY <2>1, <3>2 DEF Root, Place
  <2>2. ~Plain(x[2])
    BY <1>4, PlainIs
  <2> QED BY <1>1, <2>1, <2>2 DEF Found
<1>5. ASSUME NEW d \in encounter(Within(v, shown)), NEW e \in encounter(Within(v, shown)), d[2] = e[2] PROVE d = e
  <2>1. PICK x \in Within(v, shown) : \E a \in Digests(x[2]) : d = Met(x, a)
    BY EncounterIs
  <2>2. PICK y \in Within(v, shown) : \E b \in Digests(y[2]) : e = Met(y, b)
    BY EncounterIs
  <2>3. x = Place(at, list) /\ y = Place(at, list) /\ x[2] = list
    <3>1. Digests(x[2]) # {} /\ Digests(y[2]) # {}
      BY <2>1, <2>2
    <3>2. x = Place(at, list) /\ y = Place(at, list)
      BY Zenon, <1>4, <3>1
    <3> QED BY <3>2 DEF Place
  <2>4. PICK a \in Digests(list) : d = Met(x, a)
    BY <2>1, <2>3
  <2>5. PICK b \in Digests(list) : e = Met(x, b)
    BY <2>2, <2>3
  <2>6. PICK i \in 1..n : a = DigestAt(h, i)
    BY <1>2
  <2>7. PICK j \in 1..n : b = DigestAt(h, j)
    BY <1>2
  <2>8. d[2] = h[i] /\ e[2] = h[j]
    BY <2>4, <2>5, <2>6, <2>7 DEF Met, DigestAt
  <2>9. i = j
    BY <1>5, <2>8 DEF Injective
  <2> QED BY <2>4, <2>5, <2>6, <2>7, <2>9
<1>6. \A s \in shown : \E e \in encounter(Within(v, shown)) : s = e[2]
  <2> SUFFICES ASSUME NEW s \in shown PROVE \E e \in encounter(Within(v, shown)) : s = e[2]
    OBVIOUS
  <2>1. PICK i \in 1..n : s = h[i]
    BY DEF ListedIn
  <2>2. DigestAt(h, i) \in Digests(list) /\ DigestAt(h, i)[2] = h[i]
    BY <1>2 DEF DigestAt
  <2>3. Place(at, list)[2] = list
    BY DEF Place
  <2>4. Met(Place(at, list), DigestAt(h, i)) \in encounter(Within(v, shown))
    BY <1>3, <2>2, <2>3, EncounterIs
  <2>5. Met(Place(at, list), DigestAt(h, i))[2] = h[i]
    BY <2>2 DEF Met
  <2> QED BY <2>1, <2>4, <2>5
<1>7. Fits(Within(v, shown), shown)
  <2> SUFFICES ASSUME NEW x \in Within(v, shown)
               PROVE  /\ IsObj(x[2]) => FitsObject(Content(x[2]), shown)
                      /\ IsArr(x[2]) => FitsArray(Content(x[2]), shown)
    BY DEF Fits
  <2>1. CASE x[2] = list
    BY <1>2, <2>1
  <2>2. CASE x[2] = v /\ v # list
    BY <2>2 DEF Lists
  <2>3. CASE Plain(x[2])
    BY <2>3, PlainIs
  <2>4. x[2] = list \/ x[2] = v \/ Plain(x[2])
    BY <1>1 DEF Found, Root, Place
  <2> QED BY <2>1, <2>2, <2>3, <2>4
<1> DEFINE met == encounter(Within(v, shown))
           repeated == \/ \E i, j \in DOMAIN q : i # j /\ q[i] = q[j]
                       \/ \E d, e \in met : d[2] = e[2] /\ d # e
           a == Refuse(repeated, "digest repeated")
           b == Refuse(~Fits(Within(v, shown), shown), "claim conflict")
           c == Refuse(~(shown \subseteq {e[2] : e \in met}), "disclosure unmatched")
<1>8. ProcessError(v, q, alg) = a ?? b ?? c
  <2>1. shown = {Hash(alg, d) : d \in ToSet(q)}
    BY DEF DigestsUnder
  <2> QED BY Zenon, <2>1 DEF ProcessError
<1>9. ~repeated
  BY <1>5 DEF Distinct
<1>10. shown \subseteq {e[2] : e \in met}
  BY <1>6
<1> HIDE DEF repeated, met
<1>11. Passed(a) /\ Passed(b) /\ Passed(c)
  BY Zenon, <1>7, <1>9, <1>10 DEF Passed, Refuse
<1> HIDE DEF a, b, c
<1> QED BY <1>8, <1>11, ChecksPass

LEMMA PickedOnce ==
    ASSUME NEW p, NEW q, NEW I, Picks(p, q, I), \A i, j \in I : q[i] = q[j] => i = j
    PROVE  Distinct(p)
<1>1. PICK n \in Nat : \E g \in [1..n -> I] :
          /\ p = [k \in 1..n |-> q[g[k]]]
          /\ \A j, k \in 1..n : g[j] = g[k] => j = k
  BY DEF Picks
<1>2. PICK g \in [1..n -> I] : /\ p = [k \in 1..n |-> q[g[k]]]
                               /\ \A j, k \in 1..n : g[j] = g[k] => j = k
  BY <1>1
<1>3. DOMAIN p = 1..n /\ \A k \in 1..n : p[k] = q[g[k]] /\ g[k] \in I
  BY <1>2
<1> QED BY <1>2, <1>3 DEF Distinct

\* A token the surface signs, shown with some of its limits, is in order.
LEMMA OpenInOrder ==
    ASSUME NEW m, SurfaceMandate(m), NEW salt, NEW sd, sd = IssueOpen(UserKey, m, SurfaceAlg, salt),
           NEW I, Portion(I, m)
    PROVE  Passed(ProcessError(Obj(SignedClaims(sd)), Shown(sd, I).disclosures, SurfaceAlg))
<1> DEFINE cs == m.constraints
           n == Len(cs)
           f == SignedClaims(sd)
           h == [i \in 1..n |-> LimitDigest(salt, cs, i)]
           q == Shown(sd, I).disclosures
           shown == DigestsUnder(SurfaceAlg, q)
           name == "constraints"
           at == <<name>>
           list == Hidden(salt, cs)
           names == OpenNames \cup Pins(m)
<1>1. n \in Nat /\ I \subseteq 1..n
  BY DEF SurfaceMandate, Portion
<1>2. /\ IsFunction(f) /\ DOMAIN f = names \cup {sdAlgClaim}
      /\ f[name] = list
      /\ Agree(f, openClaims(m), Unlisted(m))
      /\ f[sdAlgClaim] = Str(SurfaceAlg)
      /\ sd.disclosures = AllLimits(salt, cs)
  BY OpenSigned
<1>3. ToSet(q) = DisclosedAt(salt, cs, I) /\ Picks(q, sd.disclosures, I)
  BY ShownIs
<1>4. /\ sdClaim \notin DOMAIN f /\ arrayDigestKey \notin DOMAIN f
      /\ name \in DOMAIN f /\ sdAlgClaim \notin names
  BY <1>2, NamesDiffer DEF OpenNames, Pins, ClaimNames, Reserved
<1>5. \A i \in 1..n : h[i] = LimitDigest(salt, cs, i)
  OBVIOUS
<1> HIDE DEF h
<1>6. HiddenList(list, h, n)
  <2>1. [i \in 1..n |-> Placeholder(h[i])] = [i \in 1..n |-> Placeholder(LimitDigest(salt, cs, i))]
    BY <1>5
  <2> QED BY <2>1 DEF Hidden, Placeholders, HiddenList
<1>7. \A i \in 1..n : Committed(h[i]) = Disclosed(salt, cs, i)
  BY <1>5, KindsDiffer DEF LimitDigest
<1>8. \A i : Value(Disclosed(salt, cs, i)) = Limit(cs[i]) /\ Name(Disclosed(salt, cs, i)) = Unnamed
  BY KindsDiffer DEF Disclosed
<1>9. \A c : Plain(Limit(c))
  <2> SUFFICES ASSUME NEW c PROVE Plain(Limit(c))
    OBVIOUS
  <2>1. Limit(c) = Obj(Content(Limit(c)))
    BY KindsDiffer DEF Limit
  <2>2. arrayDigestKey \notin {"type", "expression"}
    BY NamesDiffer DEF ClaimNames, Reserved
  <2> QED BY <2>1, <2>2, LimitIs DEF Plain
<1>10. Holds1(h, n, shown) /\ Unlabelled(h, n)
  BY <1>7, <1>8, <1>9 DEF Holds1, Unlabelled
<1>11. Injective(h, n)
  <2>1. \A x, y : Hash(SurfaceAlg, x) = Hash(SurfaceAlg, y) => x = y
    BY DEF Hash
  <2> QED BY <1>5, <2>1, DisclosedDiffer DEF Injective, LimitDigest
<1>12. Distinct(q)
  <2>1. \A i \in 1..n : sd.disclosures[i] = Disclosed(salt, cs, i)
    BY <1>2 DEF AllLimits
  <2>2. \A i, j \in I : sd.disclosures[i] = sd.disclosures[j] => i = j
    BY <1>1, <2>1, DisclosedDiffer
  <2> HIDE DEF q
  <2> QED BY <1>3, <2>2, PickedOnce
<1>13. ListedIn(shown, h, n)
  <2>1. \A s \in shown : \E i \in I : s = Hash(SurfaceAlg, Disclosed(salt, cs, i))
    BY <1>3 DEF DigestsUnder, DisclosedAt
  <2> QED BY <1>1, <1>5, <2>1 DEF ListedIn, LimitDigest
<1>14. \A k \in DOMAIN f \ {name} : Plain(f[k])
  <2>1. /\ openClaims(m)["vct"] = Str(m.vct) /\ openClaims(m)["cnf"] = cnfOf(m.agentKey)
        /\ openClaims(m)["iat"] = Num(m.issuedAt) /\ openClaims(m)["exp"] = Num(m.expiresAt)
        /\ "payment_instrument" \in names => openClaims(m)["payment_instrument"] = instrument
    BY OpenClaims
  <2>2. IsLeaf(instrument) /\ FlatObject([jwk |-> <<"key", m.agentKey>>])
    <3>1. "instrument" \notin {"obj", "arr"} /\ "key" \notin {"obj", "arr"}
      OBVIOUS
    <3>2. sdClaim \notin {"jwk"}
      BY NamesDiffer DEF ClaimNames, Reserved
    <3> QED BY <3>1, <3>2 DEF IsLeaf, IsObj, IsArr, instrument, FlatObject, IsFunction
  <2>3. \E g : cnfOf(m.agentKey) = Obj(g) /\ FlatObject(g) /\ arrayDigestKey \notin DOMAIN g
    <3>1. arrayDigestKey \notin DOMAIN [jwk |-> <<"key", m.agentKey>>]
      BY NamesDiffer DEF ClaimNames, Reserved
    <3> QED BY <2>2, <3>1 DEF cnfOf
  <2>4. names \ {name} \subseteq {"vct", "cnf", "iat", "exp", "payment_instrument"}
    BY DEF OpenNames, Pins
  <2> HIDE DEF f, names
  <2>5. \A k \in names \ {name} : Plain(f[k])
    BY <1>2, <2>1, <2>2, <2>3, <2>4, KindsDiffer DEF Plain, Agree, Unlisted, names
  <2>6. IsLeaf(f[sdAlgClaim])
    BY <1>2, KindsDiffer
  <2> QED BY <1>2, <2>5, <2>6 DEF Plain
<1> HIDE DEF f, q, shown, list, names, name
<1>15. Digests(Obj(f)) = {} /\ IsObj(Obj(f)) /\ ~IsArr(Obj(f)) /\ Content(Obj(f)) = f
  BY <1>4, KindsDiffer DEF Digests
<1>16. Inside(Obj(f), shown) = {x \in {<<<<k>>, f[k]>> : k \in DOMAIN f} : ~IsLeaf(x[2])}
  BY <1>4, <1>15 DEF Inside
<1>17. /\ \A y \in Inside(Obj(f), shown) : y = Place(at, list) \/ Plain(y[2])
       /\ Place(at, list) \in Inside(Obj(f), shown)
  <2>1. ~IsLeaf(list)
    BY <1>6, KindsDiffer DEF HiddenList, Placeholders, IsLeaf
  <2>2. \A y \in Inside(Obj(f), shown) : \E k \in DOMAIN f : y = <<<<k>>, f[k]>>
    BY <1>16
  <2>3. \A y \in Inside(Obj(f), shown) : y = Place(at, list) \/ Plain(y[2])
    BY <1>2, <1>4, <1>14, <2>2 DEF Place
  <2>4. Place(at, list) \in {<<<<k>>, f[k]>> : k \in DOMAIN f} /\ Place(at, list)[2] = list
    BY <1>2, <1>4 DEF Place
  <2> QED BY <1>16, <2>1, <2>3, <2>4
<1>18. FitsObject(f, shown)
  BY <1>4 DEF FitsObject
<1>19. \A y \in Inside(list, shown) : Plain(y[2])
  BY <1>1, <1>6, <1>10, HiddenListIs
<1>20. at \in Seq({name})
  OBVIOUS
<1> HIDE DEF at
<1>21. Around(Obj(f), at, list, shown) /\ Lists(Obj(f), at, list, shown)
  BY <1>15, <1>17, <1>18, <1>19 DEF Around, Lists
<1>22. shown = DigestsUnder(SurfaceAlg, q)
  BY DEF shown
<1> HIDE DEF n
<1>23. Passed(ProcessError(Obj(f), q, SurfaceAlg))
  BY <1>1, <1>6, <1>10, <1>11, <1>12, <1>13, <1>20, <1>21, <1>22, InOrder
<1> QED BY <1>23 DEF f, q

LEMMA SignedBySurface ==
    ASSUME NEW jwt, jwt[2] = OpenHeader, jwt[4] = UserKey
    PROVE  Passed(SignatureError(jwt, UserKey))
<1>1. jwt[2].alg = "ES256" /\ UserKey.alg = "ES256"
  BY DEF OpenHeader, UserKey
<1>2. "ES256" \notin Unsigned
  BY Zenon DEF Unsigned
<1> DEFINE a == jwt[2].alg \in Unsigned \/ jwt[2].alg # UserKey.alg
           b == jwt[4] # UserKey
<1>3. ~a /\ ~b
  BY Zenon, <1>1, <1>2
<1> HIDE DEF a, b
<1>4. Passed(Refuse(a, "unsupported algorithm")) /\ Passed(Refuse(b, "signature invalid"))
  BY Zenon, <1>3 DEF Passed, Refuse
<1> QED BY Zenon, <1>4, ChecksPass DEF SignatureError, a, b

\* All that can be wrong with it is its time.
InTime(expiry, t) == Refuse(~(t < expiry), "expired")

LEMMA ValidityIs ==
    ASSUME NEW payload, NEW e, NEW t, "exp" \in DOMAIN payload, Content(payload["exp"]) = e,
           "nbf" \notin DOMAIN payload
    PROVE  checkValidity(payload, t) = InTime(e, t)
<1>1. checkValidity(payload, t) = InTime(e, t) ?? Refuse(FALSE, "not yet valid")
  BY Zenon DEF checkValidity, InTime
<1>2. Refuse(FALSE, "not yet valid") = ""
  BY Zenon DEF Refuse
<1>3. \A a : a ?? "" = a
  BY Zenon DEF ??
<1> QED BY Zenon, <1>1, <1>2, <1>3

LEMMA OpenVerified ==
    ASSUME NEW m, SurfaceMandate(m), NEW salt, NEW sd, sd = IssueOpen(UserKey, m, SurfaceAlg, salt),
           NEW I, Portion(I, m), NEW token, token = Shown(sd, I), NEW t
    PROVE  VerifyError(token, UserKey, t) = InTime(m.expiresAt, t)
<1>1. /\ token.jwt = sd.jwt /\ SignedClaims(token) = SignedClaims(sd) /\ HashAlg(token) = SurfaceAlg
  BY ShownIs
<1>2. Passed(SignatureError(token.jwt, UserKey))
  BY <1>1, OpenSigned, SignedBySurface
<1>3. Passed(ProcessError(Obj(SignedClaims(token)), token.disclosures, HashAlg(token)))
  BY <1>1, OpenInOrder
<1>4. SurfaceAlg \in HashAlgs
  BY SurfaceAssumption
<1>5. checkValidity(Payload(token), t) = InTime(m.expiresAt, t)
  <2>1. /\ DOMAIN Payload(token) = OpenNames \cup Pins(m)
        /\ Agree(Payload(token), openClaims(m), Unlisted(m))
    BY ShownPayload
  <2>2. "exp" \in Unlisted(m)
    BY DEF Unlisted, OpenNames
  <2>3. openClaims(m)["exp"] = Num(m.expiresAt)
    BY OpenClaims
  <2>4. Payload(token)["exp"] = Num(m.expiresAt)
    BY <2>1, <2>2, <2>3 DEF Agree
  <2>5. "exp" \in DOMAIN Payload(token) /\ "nbf" \notin DOMAIN Payload(token)
    BY <2>1 DEF OpenNames, Pins
  <2>6. Content(Payload(token)["exp"]) = m.expiresAt
    BY <2>4, KindsDiffer
  <2> QED BY <2>5, <2>6, ValidityIs
<1> DEFINE a == SignatureError(token.jwt, UserKey)
           b == Refuse(HashAlg(token) \notin HashAlgs, "unsupported hash algorithm")
           c == ProcessError(Obj(SignedClaims(token)), token.disclosures, HashAlg(token))
           d == checkValidity(Payload(token), t)
<1>6. VerifyError(token, UserKey, t) = a ?? b ?? c ?? d
  BY Zenon DEF VerifyError
<1>7. Passed(b)
  BY Zenon, <1>1, <1>4 DEF Passed, Refuse
<1>8. Passed(a) /\ Passed(c)
  BY <1>2, <1>3
<1> HIDE DEF a, b, c, d
<1>9. \A x : a ?? x = x /\ b ?? x = x /\ c ?? x = x
  BY Zenon, <1>7, <1>8 DEF Passed, ??
<1> QED BY Zenon, <1>5, <1>6, <1>9 DEF d

\* The two mandates of a pair are one decision.
LEMMA OneDecision == AuthorityInv => PairIsOneDecision
<1> SUFFICES ASSUME AuthorityInv, open # <<>>
             PROVE  LET checkout == OpenCheckout(open[1])
                        payment == OpenPayment(open[1])
                        c == decodeOpen(Payload(checkout))
                        p == decodeOpen(Payload(payment))
                    IN  /\ c.constraints = approved
                        /\ p = [c EXCEPT !.vct = openPayment, !.instrument = <<instrument>>]
                        /\ \A t \in c.issuedAt[1]..MaxTime :
                              VerifyError(checkout, UserKey, t) = VerifyError(payment, UserKey, t)
  BY DEF PairIsOneDecision
<1> DEFINE checkout == OpenCheckout(open[1])
           payment == OpenPayment(open[1])
           c == decodeOpen(Payload(checkout))
           p == decodeOpen(Payload(payment))
<1>1. PICK at : AgreedAt(at)
  BY Agreed
<1>2. PICK m : m = CheckoutAt(approved, at)
  OBVIOUS
<1>3. PICK n : n = PaymentAt(approved, at)
  OBVIOUS
<1>4. /\ SurfaceMandate(m) /\ m.vct = openCheckout /\ m.agentKey = AgentKey
      /\ m.constraints = approved /\ m.instrument = <<>>
      /\ m.issuedAt = at /\ m.expiresAt = at + OpenLife
  BY <1>1, <1>2, CheckoutAtIs DEF AgreedAt
<1>5. /\ SurfaceMandate(n) /\ n.vct = openPayment /\ n.agentKey = AgentKey
      /\ n.constraints = approved /\ n.instrument = Once(instrument)
      /\ n.issuedAt = at /\ n.expiresAt = at + OpenLife
  BY <1>1, <1>3, PaymentAtIs DEF AgreedAt
<1>6. /\ checkout = IssueOpen(UserKey, m, SurfaceAlg, <<"open", 1>>)
      /\ payment = IssueOpen(UserKey, n, SurfaceAlg, <<"open", 2>>)
  BY <1>1, <1>2, <1>3 DEF OpenCheckout, OpenPayment, AgreedAt
<1>7. ASSUME NEW x, SurfaceMandate(x), NEW salt, NEW sd, sd = IssueOpen(UserKey, x, SurfaceAlg, salt)
      PROVE  \A t : VerifyError(sd, UserKey, t) = InTime(x.expiresAt, t)
  <2>1. PICK I : I = 1..Len(x.constraints)
    OBVIOUS
  <2>2. Portion(I, x)
    BY <2>1 DEF Portion
  <2>3. ShownWhole(sd, x)
    BY <1>7, <2>2, ShownIs
  <2>4. sd = Shown(sd, I)
    BY <2>1, <2>3 DEF ShownWhole
  <2> QED BY <1>7, <2>2, <2>4, OpenVerified
<1>8. \A t : VerifyError(checkout, UserKey, t) = VerifyError(payment, UserKey, t)
  <2> HIDE DEF checkout, payment
  <2>1. \A t : VerifyError(checkout, UserKey, t) = InTime(at + OpenLife, t)
    BY <1>4, <1>6, <1>7
  <2>2. \A t : VerifyError(payment, UserKey, t) = InTime(at + OpenLife, t)
    BY <1>5, <1>6, <1>7
  <2> QED BY <2>1, <2>2
<1>9. /\ c.vct = openCheckout /\ c.agentKey = AgentKey /\ c.constraints = approved
      /\ c.payee = <<>> /\ c.amount = <<>> /\ c.instrument = <<>> /\ c.date = <<>>
      /\ c.issuedAt = Once(at) /\ c.expiresAt = Once(at + OpenLife)
  BY <1>4, <1>6, WholeDecoded
<1>10. /\ p.vct = openPayment /\ p.agentKey = AgentKey /\ p.constraints = approved
       /\ p.payee = <<>> /\ p.amount = <<>> /\ p.instrument = Once(instrument) /\ p.date = <<>>
       /\ p.issuedAt = Once(at) /\ p.expiresAt = Once(at + OpenLife)
  BY <1>5, <1>6, WholeDecoded
<1>11. \A root : decodeOpen(root) = [vct |-> decodeOpen(root).vct,
                                    agentKey |-> decodeOpen(root).agentKey,
                                    constraints |-> decodeOpen(root).constraints,
                                    payee |-> decodeOpen(root).payee,
                                    amount |-> decodeOpen(root).amount,
                                    instrument |-> decodeOpen(root).instrument,
                                    date |-> decodeOpen(root).date,
                                    issuedAt |-> decodeOpen(root).issuedAt,
                                    expiresAt |-> decodeOpen(root).expiresAt]
  BY DEF decodeOpen
<1>12. /\ c = [vct |-> c.vct, agentKey |-> c.agentKey, constraints |-> c.constraints,
               payee |-> c.payee, amount |-> c.amount, instrument |-> c.instrument,
               date |-> c.date, issuedAt |-> c.issuedAt, expiresAt |-> c.expiresAt]
       /\ p = [vct |-> p.vct, agentKey |-> p.agentKey, constraints |-> p.constraints,
               payee |-> p.payee, amount |-> p.amount, instrument |-> p.instrument,
               date |-> p.date, issuedAt |-> p.issuedAt, expiresAt |-> p.expiresAt]
  BY <1>11
<1> HIDE DEF c, p
<1>13. p = [c EXCEPT !.vct = openPayment, !.instrument = <<instrument>>]
  <2> DEFINE names == {"vct", "agentKey", "constraints", "payee", "amount", "instrument", "date",
                       "issuedAt", "expiresAt"}
             e == [c EXCEPT !.vct = openPayment, !.instrument = <<instrument>>]
  <2>1. DOMAIN c = names /\ DOMAIN p = names /\ p = [k \in names |-> p[k]]
    BY <1>12
  <2>2. e = [k \in names |-> IF k = "instrument" THEN <<instrument>>
                             ELSE IF k = "vct" THEN openPayment ELSE c[k]]
    BY <2>1
  <2>3. \A k \in names : p[k] = IF k = "instrument" THEN <<instrument>>
                                ELSE IF k = "vct" THEN openPayment ELSE c[k]
    BY <1>9, <1>10 DEF Once
  <2> HIDE DEF names, e
  <2>4. p = e
    BY <2>1, <2>2, <2>3
  <2> QED BY <2>4 DEF e
<1> QED BY <1>8, <1>9, <1>13 DEF c, p, checkout, payment

\* An open pair is one decision, whatever was asked and however the surface
\* was interrupted.
THEOREM PairsAreOneDecision == Spec => []PairIsOneDecision
BY OneDecision, DecisionsKept, PTL
-----------------------------------------------------------------------------
(* What the arbiter makes of it. *)

\* A report holds when each of its links does.
LEMMA ReportHolds ==
    ASSUME NEW errs
    PROVE  Holds(Report(errs)) <=> \A i \in 1..5 : Passed(errs[i])
<1> DEFINE broke == {i \in 1..Len(Steps) : errs[i] # ""}
           first == CHOOSE i \in broke : \A j \in broke : i <= j
<1>0. \A h, b, e : [held |-> h, broke |-> b, error |-> e].error = e
  OBVIOUS
<1>1. Len(Steps) = 5
  BY DEF Steps
<1>2. Report(errs).error = IF broke = {} THEN "" ELSE errs[first]
  <2>1. CASE broke = {}
    <3>1. Report(errs) = [held |-> Steps, broke |-> "none", error |-> ""]
      BY Zenon, <2>1 DEF Report
    <3> HIDE DEF broke, first
    <3>2. Report(errs).error = ""
      BY Zenon, <1>0, <3>1
    <3> QED BY Zenon, <2>1, <3>2
  <2>2. CASE broke # {}
    <3>1. Report(errs) = [held |-> SubSeq(Steps, 1, first - 1), broke |-> Steps[first],
                          error |-> errs[first]]
      BY Zenon, <2>2 DEF Report
    <3> HIDE DEF broke, first
    <3>3. [held |-> SubSeq(Steps, 1, first - 1), broke |-> Steps[first], error |-> errs[first]].error
          = errs[first]
      BY <1>0
    <3>2. Report(errs).error = errs[first]
      BY Zenon, <3>1, <3>3
    <3> QED BY Zenon, <2>2, <3>2
  <2> QED BY <2>1, <2>2
<1>3. broke # {} => errs[first] # ""
  <2>3. \A i \in broke : i \in 1..Len(Steps)
    BY Zenon
  <2>1. broke \in SUBSET Nat
    <3> HIDE DEF broke
    <3> QED BY <1>1, <2>3
  <2>2. broke # {} => first \in broke
    <3> HIDE DEF broke
    <3> QED BY <2>1, LeastOf
  <2> QED BY Zenon, <2>2
<1>4. Holds(Report(errs)) <=> broke = {}
  BY Zenon, <1>2, <1>3 DEF Holds
<1>5. broke = {} <=> \A i \in 1..Len(Steps) : Passed(errs[i])
  BY Zenon DEF Passed
<1> QED BY <1>1, <1>4, <1>5

\* The receipt of an acceptance.
ReceiptClaims(presented, issuer, type) ==
    With([iss |-> Str(issuer), reference |-> SDHash(presented), mandate_type |-> Str(type),
          result |-> Str("success")],
         [error |-> <<>>])

LEMMA ReceiptClaimsAre ==
    ASSUME NEW presented, NEW issuer, NEW type,
           NEW claims, claims = ReceiptClaims(presented, issuer, type)
    PROVE  /\ "error" \notin DOMAIN claims
           /\ claims["result"] = Str("success")
           /\ claims["mandate_type"] = Str(type)
           /\ claims["reference"] = SDHash(presented)
<1> DEFINE stated == [iss |-> Str(issuer), reference |-> SDHash(presented),
                      mandate_type |-> Str(type), result |-> Str("success")]
           none == [error |-> <<>>]
<1>1. claims = With(stated, none)
  BY DEF ReceiptClaims
<1>2. /\ DOMAIN stated = {"iss", "reference", "mandate_type", "result"}
      /\ stated["reference"] = SDHash(presented) /\ stated["mandate_type"] = Str(type)
      /\ stated["result"] = Str("success")
      /\ DOMAIN none = {"error"} /\ none["error"] = <<>>
  OBVIOUS
<1> HIDE DEF stated, none
<1>3. /\ \A k : k \in DOMAIN claims <=> k \in DOMAIN stated \/ (k \in DOMAIN none /\ none[k] # <<>>)
      /\ \A k \in DOMAIN stated : k \notin DOMAIN none => claims[k] = stated[k]
  BY <1>1, WithIs
<1> QED BY <1>2, <1>3

IsReceipt(receipt, presented, issuer, type, key) ==
    receipt = SignJWT(key, ReceiptType, ReceiptClaims(presented, issuer, type), 0)

LEMMA ReceiptIs ==
    ASSUME NEW presented, NEW verdict, Passed(verdict), NEW issuer, NEW type, NEW key
    PROVE  IsReceipt(IssueReceipt(presented, verdict, issuer, type, key), presented, issuer, type, key)
<1>1. verdict = ""
  BY Zenon DEF Passed
<1> QED BY Zenon, <1>1 DEF IssueReceipt, ReceiptClaims, IsReceipt

LEMMA ReceiptPasses ==
    ASSUME NEW presented, NEW issuer, NEW type, NEW key, key.alg = "ES256",
           NEW receipt, IsReceipt(receipt, presented, issuer, type, key)
    PROVE  Passed(ReceiptError(receipt, presented, key, type))
<1> DEFINE claims == Claims(receipt)
<1>1. claims = ReceiptClaims(presented, issuer, type)
  BY DEF IsReceipt, SignJWT, Claims
<1>2. receipt[2].typ = ReceiptType /\ receipt[2].alg = key.alg /\ receipt[4] = key
  BY DEF IsReceipt, SignJWT
<1> HIDE DEF claims
<1>3. /\ "error" \notin DOMAIN claims /\ claims["result"] = Str("success")
      /\ claims["mandate_type"] = Str(type) /\ claims["reference"] = SDHash(presented)
  BY <1>1, ReceiptClaimsAre
<1>4. "ES256" \notin Unsigned /\ Str("success") # Str("error")
  <2>1. "ES256" \notin Unsigned
    BY Zenon DEF Unsigned
  <2>2. Content(Str("success")) = "success" /\ Content(Str("error")) = "error"
    BY KindsDiffer
  <2> QED BY Zenon, <2>1, <2>2
<1> DEFINE a == Refuse(receipt[2].typ # ReceiptType, "unexpected type")
           b == Refuse(receipt[2].alg \in Unsigned \/ receipt[2].alg # key.alg, "unsupported algorithm")
           c == Refuse(receipt[4] # key, "signature invalid")
           odd == (claims["result"] = Str("error")) # ("error" \in DOMAIN claims)
           d == Refuse(odd, "mandate malformed")
           e == Refuse(claims["mandate_type"] # Str(type), "receipt mismatch")
           f == Refuse(~Answers(receipt, presented), "receipt mismatch")
<1>5. ReceiptError(receipt, presented, key, type) = (((a ?? (b ?? c)) ?? d) ?? e) ?? f
  BY Zenon DEF ReceiptError, VerifyReceiptError, VerifyJWTError, SignatureError, claims
<1>6. Passed(a) /\ Passed(c) /\ Passed(e)
  BY Zenon, <1>2, <1>3 DEF Passed, Refuse
<1>7. Passed(b)
  BY Zenon, <1>2, <1>4 DEF Passed, Refuse
<1>8. Passed(d)
  <2>1. ~odd
    BY <1>3, <1>4
  <2> HIDE DEF odd
  <2> QED BY Zenon, <2>1 DEF Passed, Refuse
<1>9. Passed(f)
  BY Zenon, <1>3 DEF Passed, Refuse, Answers, claims
<1> HIDE DEF a, b, c, d, e, f
<1> QED BY <1>5, <1>6, <1>7, <1>8, <1>9, ChecksPass

KeyOf(who) == CASE who = "credprovider" -> CredProviderKey
                [] who = "merchant" -> MerchantKey
                [] who = "mpp" -> ProcessorKey
PresentedAs(p, who, kind) == IF kind = "checkout" THEN Checkout(p) ELSE Payment(p, who)
Issued(p, who, a) == IssueReceipt(PresentedAs(p, who, a.kind), a.error, who, a.kind, KeyOf(who))
From(p, who) == {a \in buys[p].answers : a.from = who}

LEMMA AnswerIs ==
    \A f, k, v : Answer(f, k, v).from = f /\ Answer(f, k, v).kind = k /\ Answer(f, k, v).error = v
BY DEF Answer

\* The one receipt of a verifier that was asked once, and accepted.
LEMMA OneReceipt ==
    ASSUME NEW p, NEW who, NEW kind, NEW verdict, Passed(verdict),
           From(p, who) = {Answer(who, kind, verdict)}
    PROVE  \E r : /\ Receipts(p, who) = Once(r)
                  /\ IsReceipt(r, PresentedAs(p, who, kind), who, kind, KeyOf(who))
<1> DEFINE a == Answer(who, kind, verdict)
           r == Issued(p, who, a)
<1>1. Receipts(p, who) = SetToSeq({Issued(p, who, b) : b \in From(p, who)})
  BY Zenon DEF Receipts, From, Issued, PresentedAs, KeyOf
<1>2. a.kind = kind /\ a.error = verdict
  BY AnswerIs
<1> HIDE DEF a
<1>3. {Issued(p, who, b) : b \in From(p, who)} = {r}
  BY DEF a
<1>4. IsReceipt(r, PresentedAs(p, who, kind), who, kind, KeyOf(who))
  BY <1>2, ReceiptIs DEF Issued
<1> HIDE DEF r
<1>5. Receipts(p, who) = Once(r)
  BY <1>1, <1>3, SmallSequences DEF Once
<1> QED BY <1>4, <1>5

LEMMA SettledReceipts ==
    ASSUME NEW p, buys[p].answers = SettledAnswers
    PROVE  /\ \E r : /\ Receipts(p, "merchant") = Once(r)
                     /\ IsReceipt(r, Checkout(p), "merchant", "checkout", MerchantKey)
           /\ \E r : /\ Receipts(p, "mpp") = Once(r)
                     /\ IsReceipt(r, Payment(p, "mpp"), "mpp", "payment", ProcessorKey)
<1>1. PICK verdict : verdict = ""
  OBVIOUS
<1>2. Passed(verdict)
  BY Zenon, <1>1 DEF Passed
<1>3. SettledAnswers = {Answer("credprovider", "payment", verdict), Answer("merchant", "checkout", verdict),
                        Answer("mpp", "payment", verdict)}
  <2>1. \A x, y, z : ({x} \cup {y}) \cup {z} = {x, y, z}
    OBVIOUS
  <2> QED BY Zenon, <1>1, <2>1 DEF SettledAnswers, Accepted, Funded
<1>4. From(p, "merchant") = {Answer("merchant", "checkout", verdict)}
  BY <1>3, AnswerIs DEF From
<1>5. From(p, "mpp") = {Answer("mpp", "payment", verdict)}
  BY <1>3, AnswerIs DEF From
<1>6. /\ KeyOf("merchant") = MerchantKey /\ KeyOf("mpp") = ProcessorKey
      /\ PresentedAs(p, "merchant", "checkout") = Checkout(p)
      /\ PresentedAs(p, "mpp", "payment") = Payment(p, "mpp")
  BY DEF KeyOf, PresentedAs
<1> QED BY <1>2, <1>4, <1>5, <1>6, OneReceipt

LEMMA Covering ==
    ASSUME NEW b, NEW offer
    PROVE  (Passed(CoversError(b, offer)) <=> Covers(b, offer)) /\ (Passed(PaysForError(b, offer)) <=> Covers(b, offer))
BY Zenon DEF CoversError, PaysForError, Passed, Refuse

\* The two bindings of one purchase: whether or not their algorithms differ.
LEMMA OnePurchase ==
    ASSUME NEW c, NEW m, NEW offer
    PROVE  /\ Passed(SamePurchaseError(c, m, offer)) => Covers(m, offer)
           /\ Covers(c, offer) /\ Covers(m, offer) => Passed(SamePurchaseError(c, m, offer))
<1> DEFINE same == SameError(c, m)
           rest == (IF same = "" THEN "" ELSE CoversError(c, offer)) ?? CoversError(m, offer)
<1>1. SamePurchaseError(c, m, offer) = IF same \notin {"", "binding unverifiable"} THEN same ELSE rest
  BY Zenon DEF SamePurchaseError
<1>2. ASSUME Passed(SamePurchaseError(c, m, offer)) PROVE Covers(m, offer)
  <2>1. Passed(rest)
    BY Zenon, <1>1, <1>2 DEF Passed
  <2>2. Passed(CoversError(m, offer))
    BY Zenon, <2>1, ChecksPass
  <2> QED BY <2>2, Covering
<1>3. ASSUME Covers(c, offer), Covers(m, offer) PROVE Passed(SamePurchaseError(c, m, offer))
  <2>1. Passed(CoversError(c, offer)) /\ Passed(CoversError(m, offer))
    BY <1>3, Covering
  <2>2. c.alg = m.alg => c.hash = m.hash
    BY <1>3 DEF Covers
  <2>3. same \in {"", "binding unverifiable"}
    BY Zenon, <2>2 DEF SameError, Refuse, ??
  <2> HIDE DEF same
  <2>4. Passed(rest)
    BY Zenon, <2>1 DEF Passed, ??
  <2> QED BY Zenon, <1>1, <2>3, <2>4
<1> QED BY <1>2, <1>3

\* What an arbiter who is told all of it goes through.
Complete(bundle) == \A part \in DOMAIN bundle : bundle[part] # <<>>

LEMMA FiveLinks ==
    ASSUME NEW a, NEW b, NEW c, NEW d, NEW e
    PROVE  Holds(Report(<<a, b, c, d, e>>)) <=>
           Passed(a) /\ Passed(b) /\ Passed(c) /\ Passed(d) /\ Passed(e)
<1> DEFINE errs == <<a, b, c, d, e>>
<1>1. errs[1] = a /\ errs[2] = b /\ errs[3] = c /\ errs[4] = d /\ errs[5] = e
  OBVIOUS
<1> HIDE DEF errs
<1>2. (\A i \in 1..5 : Passed(errs[i])) <=>
      Passed(a) /\ Passed(b) /\ Passed(c) /\ Passed(d) /\ Passed(e)
  BY <1>1
<1>3. Holds(Report(errs)) <=> \A i \in 1..5 : Passed(errs[i])
  BY ReportHolds
<1> QED BY <1>2, <1>3 DEF errs

LEMMA IsComplete ==
    ASSUME NEW bundle
    PROVE  IncompleteError(bundle) # "" <=> ~Complete(bundle)
BY Zenon DEF IncompleteError, Complete, Refuse

Want(r, n) == [nonce |-> n, aud |-> r.audience, maxAge |-> 0, requireSDHash |-> TRUE]
Cnf(chain) == Payload(chain.root)["cnf"]
MayAsk(r, n) == n # 0 /\ r.audience # NoOne

LEMMA WantIs ==
    ASSUME NEW r, NEW n, NEW want, want = Want(r, n)
    PROVE  want.nonce = n /\ want.aud = r.audience /\ want.maxAge = 0 /\ want.requireSDHash = TRUE
BY DEF Want

\* What passes when a chain does, its root and then its delegation.
LEMMA ChainParts ==
    ASSUME NEW chain, NEW r, NEW n, NEW t
    PROVE  Passed(ChainError(chain, r, n, t)) <=>
           /\ MayAsk(r, n)
           /\ Passed(VerifyError(chain.root, r.issuer, t))
           /\ "cnf" \in DOMAIN Payload(chain.root)
           /\ Passed(AgentKeyError(Cnf(chain)))
           /\ Passed(ChainDelegationError(chain, keyOf(Cnf(chain)), Want(r, n), t))
<1> DEFINE asked == Refuse(Want(r, n).nonce = 0 \/ Want(r, n).aud = NoOne, "invalid options")
           root == VerifyError(chain.root, r.issuer, t)
           named == Refuse("cnf" \notin DOMAIN Payload(chain.root), "key binding invalid")
           key == AgentKeyError(Cnf(chain))
           delegation == ChainDelegationError(chain, keyOf(Cnf(chain)), Want(r, n), t)
<1>1. ChainError(chain, r, n, t) = ((asked ?? root) ?? named) ?? key ?? delegation
  BY Zenon DEF ChainError, ChainRootError, Want, Cnf
<1>2. Want(r, n).nonce = n /\ Want(r, n).aud = r.audience
  BY WantIs
<1>3. Passed(asked) <=> MayAsk(r, n)
  BY Zenon, <1>2 DEF Passed, Refuse, MayAsk
<1>4. Passed(named) <=> "cnf" \in DOMAIN Payload(chain.root)
  BY Zenon DEF Passed, Refuse
<1> HIDE DEF asked, root, named, key, delegation
<1>5. Passed(ChainError(chain, r, n, t)) <=>
      Passed(asked) /\ Passed(root) /\ Passed(named) /\ Passed(key) /\ Passed(delegation)
  BY <1>1, ChecksPass
<1> QED BY Zenon, <1>3, <1>4, <1>5 DEF root, key, delegation

\* A delegation of any age is as fresh at one instant as at another.
LEMMA FreshAnyTime ==
    ASSUME NEW claims, NEW want, want.maxAge = 0, NEW t
    PROVE  Passed(freshnessError(claims, want, t)) <=>
           Content(claims["nonce"]) = want.nonce /\ Content(claims["aud"]) = want.aud
<1>1. ~(want.maxAge > 0)
  OBVIOUS
<1> QED BY Zenon, <1>1 DEF freshnessError, Passed, Refuse

\* What of a delegation does not depend on when it is examined.
LEMMA DelegationRejudged ==
    ASSUME NEW chain, NEW key, NEW want, want.maxAge = 0, NEW t, NEW u,
           Passed(ChainDelegationError(chain, key, want, u)),
           Passed(checkValidity(Delegated(chain), t))
    PROVE  Passed(ChainDelegationError(chain, key, want, t))
BY DelegationChecked, FreshAnyTime

\* A payment that one verifier accepted when another accepted the same payment
\* as presented to itself would have been accepted at that instant too.
LEMMA Rejudged ==
    ASSUME NEW a, NEW b, a.root = b.root, Delegated(a) = Delegated(b),
           NEW r, NEW s, r.issuer = s.issuer, NEW m, NEW n, NEW t, NEW u,
           Passed(AuthorisePaymentChainError(a, r, m, t)),
           Passed(AuthorisePaymentChainError(b, s, n, u))
    PROVE  Passed(AuthorisePaymentChainError(b, s, n, t))
<1>1. /\ Passed(ChainError(a, r, m, t)) /\ Passed(ChainError(b, s, n, u))
      /\ Passed(openChainError(b, Payload(b.root), Delegated(b), s, openPayment, closedPayment))
      /\ Passed(decodePaymentError(Delegated(b)))
      /\ Passed(AuthorisePaymentError(decodeOpen(Payload(a.root)), decodePayment(Delegated(a)),
                                      PaymentSubject(decodePayment(Delegated(a)), t), t))
  BY PaymentChecked
<1>2. /\ MayAsk(s, n) /\ "cnf" \in DOMAIN Payload(b.root) /\ Passed(AgentKeyError(Cnf(b)))
      /\ Passed(ChainDelegationError(b, keyOf(Cnf(b)), Want(s, n), u))
  BY <1>1, ChainParts
<1>3. /\ Passed(VerifyError(a.root, r.issuer, t))
      /\ Passed(ChainDelegationError(a, keyOf(Cnf(a)), Want(r, m), t))
  BY <1>1, ChainParts
<1>4. Passed(checkValidity(Delegated(a), t))
  BY <1>3, DelegationChecked
<1>5. Want(s, n).maxAge = 0
  BY DEF Want
<1>6. Passed(ChainDelegationError(b, keyOf(Cnf(b)), Want(s, n), t))
  BY <1>2, <1>4, <1>5, DelegationRejudged
<1>7. Passed(VerifyError(b.root, s.issuer, t))
  BY <1>3
<1>8. Passed(ChainError(b, s, n, t))
  BY <1>2, <1>6, <1>7, ChainParts
<1>9. Passed(AuthorisePaymentError(decodeOpen(Payload(b.root)), decodePayment(Delegated(b)),
                                   PaymentSubject(decodePayment(Delegated(b)), t), t))
  BY <1>1
<1> QED BY <1>1, <1>8, <1>9, PaymentChecked

\* What was bought, as of an instant.
AsOf(s, at) == [s EXCEPT !["at"] = [kind |-> "time", n |-> at, unit |-> "none"]]

LEMMA ToldAsOf ==
    ASSUME NEW offer, NEW at
    PROVE  AsOf(subjectOf(offer, at), at) = subjectOf(offer, at)
<1> DEFINE s == subjectOf(offer, at)
           item == Content(Claims(offer).item)
           names == {"amount", "at", "quantity", "merchant.id"} \cup DOMAIN item
<1>1. s = [f \in names |-> s[f]] /\ s["at"] = Time(at) /\ "at" \in names
  BY DEF subjectOf
<1> HIDE DEF s, names
<1>2. AsOf(s, at) = [s EXCEPT !["at"] = s["at"]]
  BY <1>1 DEF AsOf, Time
<1>3. [s EXCEPT !["at"] = s["at"]] = s
  BY <1>1
<1> QED BY <1>2, <1>3 DEF s

LEMMA ChainLinks ==
    ASSUME NEW bundle, Complete(bundle), NEW at, NEW s,
           NEW nonces, nonces.checkout # 0, nonces.payment # 0, NEW its, NEW trusted,
           NEW c, c = bundle.checkoutMandate[1], NEW m, m = bundle.paymentMandate[1],
           NEW offer, offer = bundle.checkout[1],
           NEW cr, cr = bundle.checkoutReceipt[1], NEW pr, pr = bundle.paymentReceipt[1]
    PROVE  Holds(VerifyChain(bundle, at, s, nonces, its, trusted)) <=>
           /\ Passed(AuthoriseCheckoutChainError(c, AsOf(s, at), offer, its.checkout,
                                                 nonces.checkout, at))
           /\ Passed(ReceiptError(cr, c, trusted.checkout, "checkout"))
           /\ Passed(AuthorisePaymentChainError(m, its.payment, nonces.payment, at))
           /\ Passed(SamePurchaseError(BindingIn(c, decodeCheckout(Delegated(c)).hash),
                                       BindingIn(m, decodePayment(Delegated(m)).hash), offer))
           /\ Passed(ReceiptError(pr, m, trusted.payment, "payment"))
<1>1. IncompleteError(bundle) = ""
  BY Zenon, IsComplete
<1>2. VerifyChain(bundle, at, s, nonces, its, trusted) =
      Report(<<AuthoriseCheckoutChainError(c, AsOf(s, at), offer, its.checkout, nonces.checkout, at),
               ReceiptError(cr, c, trusted.checkout, "checkout"),
               AuthorisePaymentChainError(m, its.payment, nonces.payment, at),
               SamePurchaseError(BindingIn(c, decodeCheckout(Delegated(c)).hash),
                                 BindingIn(m, decodePayment(Delegated(m)).hash), offer),
               ReceiptError(pr, m, trusted.payment, "payment")>>)
  BY Zenon, <1>1 DEF VerifyChain, AsOf
<1> QED BY <1>2, FiveLinks

LEMMA DirectLinks ==
    ASSUME NEW bundle, Complete(bundle), NEW at, NEW its, NEW trusted,
           NEW c, c = bundle.checkoutMandate[1], NEW m, m = bundle.paymentMandate[1],
           NEW offer, offer = bundle.checkout[1],
           NEW cr, cr = bundle.checkoutReceipt[1], NEW pr, pr = bundle.paymentReceipt[1]
    PROVE  Holds(Verify(bundle, at, its, trusted)) <=>
           /\ Passed(VerifyCheckoutError(c, offer, its.checkout, at))
           /\ Passed(ReceiptError(cr, c, trusted.checkout, "checkout"))
           /\ Passed(VerifyPaymentError(m, its.payment, at))
           /\ Passed(SamePurchaseError([hash |-> decodeCheckout(Payload(c)).hash, alg |-> HashAlg(c)],
                                       [hash |-> decodePayment(Payload(m)).hash, alg |-> HashAlg(m)],
                                       offer))
           /\ Passed(ReceiptError(pr, m, trusted.payment, "payment"))
<1>1. IncompleteError(bundle) = ""
  BY Zenon, IsComplete
<1>2. Verify(bundle, at, its, trusted) =
      Report(<<VerifyCheckoutError(c, offer, its.checkout, at),
               ReceiptError(cr, c, trusted.checkout, "checkout"),
               VerifyPaymentError(m, its.payment, at),
               SamePurchaseError([hash |-> decodeCheckout(Payload(c)).hash, alg |-> HashAlg(c)],
                                 [hash |-> decodePayment(Payload(m)).hash, alg |-> HashAlg(m)],
                                 offer),
               ReceiptError(pr, m, trusted.payment, "payment")>>)
  BY Zenon, <1>1 DEF Verify
<1> QED BY <1>2, FiveLinks

\* The evidence for a checkout of p and a payment of q.
Bundle(p, q) ==
    [checkout |-> <<Offer(p)>>, checkoutMandate |-> <<Checkout(p)>>,
     checkoutReceipt |-> Receipts(p, "merchant"),
     paymentMandate |-> <<Payment(q, "mpp")>>,
     paymentReceipt |-> Receipts(q, "mpp")]
Its == [checkout |-> rules("merchant"), payment |-> rules("mpp")]
Trusted == [checkout |-> MerchantKey, payment |-> ProcessorKey]
Nonces(p, q) == [checkout |-> nonce(p, "merchant"), payment |-> nonce(q, "mpp")]

LEMMA CaseIs ==
    ASSUME NEW p, NEW q
    PROVE  Case(p, q) = IF buys[p].mode = "chain"
                        THEN VerifyChain(Bundle(p, q), buys[p].accepted, Facts(p, buys[p].accepted),
                                         Nonces(p, q), Its, Trusted)
                        ELSE Verify(Bundle(p, q), buys[p].accepted, Its, Trusted)
BY Zenon DEF Case, Bundle, Its, Trusted, Nonces

LEMMA BundleIs ==
    ASSUME NEW p, buys[p].answers = SettledAnswers, NEW q, buys[q].answers = SettledAnswers,
           NEW bundle, bundle = Bundle(p, q)
    PROVE  /\ Complete(bundle)
           /\ bundle.checkout[1] = Offer(p)
           /\ bundle.checkoutMandate[1] = Checkout(p)
           /\ bundle.paymentMandate[1] = Payment(q, "mpp")
           /\ Passed(ReceiptError(bundle.checkoutReceipt[1], Checkout(p), Trusted.checkout, "checkout"))
           /\ Passed(ReceiptError(bundle.paymentReceipt[1], Payment(q, "mpp"), Trusted.payment, "payment"))
<1>1. PICK a : Receipts(p, "merchant") = Once(a)
               /\ IsReceipt(a, Checkout(p), "merchant", "checkout", MerchantKey)
  BY SettledReceipts
<1>2. PICK b : Receipts(q, "mpp") = Once(b)
               /\ IsReceipt(b, Payment(q, "mpp"), "mpp", "payment", ProcessorKey)
  BY SettledReceipts
<1>3. Trusted.checkout = MerchantKey /\ Trusted.payment = ProcessorKey
      /\ MerchantKey.alg = "ES256" /\ ProcessorKey.alg = "ES256"
  BY DEF Trusted, MerchantKey, ProcessorKey
<1>4. /\ Passed(ReceiptError(a, Checkout(p), Trusted.checkout, "checkout"))
      /\ Passed(ReceiptError(b, Payment(q, "mpp"), Trusted.payment, "payment"))
  BY <1>1, <1>2, <1>3, ReceiptPasses
<1>5. /\ DOMAIN bundle = {"checkout", "checkoutMandate", "checkoutReceipt", "paymentMandate",
                          "paymentReceipt"}
      /\ bundle.checkout = Once(Offer(p)) /\ bundle.checkoutMandate = Once(Checkout(p))
      /\ bundle.paymentMandate = Once(Payment(q, "mpp"))
      /\ bundle.checkoutReceipt = Once(a) /\ bundle.paymentReceipt = Once(b)
  BY <1>1, <1>2 DEF Bundle, Once
<1>6. \A x : Once(x) # <<>> /\ Once(x)[1] = x
  BY DEF Once
<1> QED BY <1>4, <1>5, <1>6 DEF Complete
\* A verifier that holds the offer compares with it.
LEMMA InHand ==
    ASSUME NEW disclosed, NEW offer
    PROVE  bindingSubject(disclosed, <<offer>>) = offer
BY DEF bindingSubject

LEMMA CheckoutCovers ==
    ASSUME NEW chain, NEW s, NEW offer, NEW r, NEW n, NEW t,
           Passed(AuthoriseCheckoutChainError(chain, s, offer, r, n, t))
    PROVE  Covers(BindingIn(chain, decodeCheckout(Delegated(chain)).hash), offer)
<1> DEFINE b == BindingIn(chain, decodeCheckout(Delegated(chain)).hash)
<1>1. Passed(CoversError(b, offer))
  BY CheckoutChecked, InHand
<1> HIDE DEF b
<1>2. Covers(b, offer)
  BY <1>1, Covering
<1> QED BY <1>2 DEF b

SignedBinding(sd, hash) == [hash |-> hash, alg |-> HashAlg(sd)]

LEMMA DirectCovers ==
    ASSUME NEW sd, NEW offer, NEW r, NEW t, Passed(VerifyCheckoutError(sd, offer, r, t))
    PROVE  Covers(SignedBinding(sd, decodeCheckout(Payload(sd)).hash), offer)
<1> DEFINE m == decodeCheckout(Payload(sd))
           a == VerifyError(sd, r.issuer, t)
           b == requireVCT(Payload(sd), closedCheckout)
           c == decodeCheckoutError(Payload(sd))
           d == bindingSubjectError(m.checkout, <<offer>>)
           e == CoversError(SignedBinding(sd, m.hash), bindingSubject(m.checkout, <<offer>>))
<1>1. VerifyCheckoutError(sd, offer, r, t) = a ?? b ?? c ?? d ?? e
  BY Zenon DEF VerifyCheckoutError, SignedBinding
<1>2. e = CoversError(SignedBinding(sd, m.hash), offer)
  BY InHand
<1> HIDE DEF a, b, c, d, e
<1>3. Passed(e)
  BY <1>1, ChecksPass
<1>4. Passed(CoversError(SignedBinding(sd, m.hash), offer))
  BY <1>2, <1>3
<1> QED BY <1>4, Covering

\* The binding of a payment the agent closed.
LEMMA PaymentBinding ==
    ASSUME NEW p, NEW v, buys[p].mode = "chain", NEW offer
    PROVE  Covers(BindingIn(Payment(p, v), decodePayment(Delegated(Payment(p, v))).hash), offer) <=>
           Hash(AgentAlg, Offer(p)) = Hash(AgentAlg, offer)
<1> DEFINE b == BindingIn(Payment(p, v), decodePayment(Delegated(Payment(p, v))).hash)
<1>1. decodePayment(Delegated(Payment(p, v))).hash = Hash(AgentAlg, Offer(p))
  <2>1. Delegated(Payment(p, v)) = Paid(p)
    BY PaymentIs
  <2>2. Paid(p)["transaction_id"] = Hash(AgentAlg, Offer(p))
    BY PaidIs
  <2> QED BY <2>1, <2>2 DEF decodePayment
<1>2. DelegatedHashAlg(Payment(p, v)) = AgentAlg
  BY PaymentIs
<1>3. b.hash = Hash(AgentAlg, Offer(p)) /\ b.alg = AgentAlg
  BY <1>1, <1>2 DEF BindingIn
<1> QED BY <1>3 DEF Covers

LEMMA HashesDiffer == \A alg, p, q : Hash(alg, Offer(p)) = Hash(alg, Offer(q)) => p = q
BY OffersDiffer DEF Hash

\* A closed payment is examined alike by every verifier that trusts the issuer.
LEMMA PaymentExamined ==
    ASSUME NEW sd, NEW r, NEW s, r.issuer = s.issuer, NEW t, Passed(VerifyPaymentError(sd, r, t))
    PROVE  Passed(VerifyPaymentError(sd, s, t))
BY DEF VerifyPaymentError

LEMMA RulesAre ==
    \A v \in Verifiers : rules(v).issuer = UserKey /\ rules(v).audience = v
                         /\ rules(v).required = {"amount"}
BY DEF rules

\* What is known of a purchase that was settled.
LEMMA SettledIs ==
    ASSUME AuthorityInv, NEW p \in Settled
    PROVE  /\ p \in Purchases /\ p # 0
           /\ buys[p].mode \in {"chain", "direct"}
           /\ buys[p].answers = SettledAnswers
           /\ MerchantAgreed(p, buys[p].accepted)
           /\ \E u : ProcessorAgreed(p, u)
<1>1. p \in Purchases /\ buys[p].stage = "settled" /\ buys[p] # Unstarted
  BY DEF Settled, Unstarted
<1>2. BuyInv(p)
  BY <1>1 DEF AuthorityInv
<1>3. IsBuy(buys[p]) /\ StageInv(p) /\ buys[p].accepted # -1 => MerchantAgreed(p, buys[p].accepted)
  BY <1>1, <1>2 DEF BuyInv
<1>4. IsBuy(buys[p]) /\ StageInv(p)
  BY <1>1, <1>2 DEF BuyInv
<1>5. buys[p].mode \in {"chain", "direct"}
  BY <1>4 DEF IsBuy
<1>6. buys[p].accepted # -1 /\ buys[p].answers = SettledAnswers
  BY <1>1, <1>4 DEF StageInv
<1>7. \E u : ProcessorAgreed(p, u)
  BY <1>1, <1>2 DEF BuyInv
<1>8. p # 0
  BY <1>1, AuthorityAssumption DEF Purchases
<1> QED BY <1>1, <1>3, <1>4, <1>5, <1>6, <1>7, <1>8

\* The evidence of one purchase the agent made.
LEMMA ChainCaseHolds ==
    ASSUME AuthorityInv, NEW p \in Settled, buys[p].mode = "chain"
    PROVE  Holds(Case(p, p))
<1> DEFINE at == buys[p].accepted
           bundle == Bundle(p, p)
           ns == Nonces(p, p)
           c == Checkout(p)
           m == Payment(p, "mpp")
<1>1. /\ p \in Purchases /\ p # 0 /\ buys[p].answers = SettledAnswers /\ MerchantAgreed(p, at)
      /\ \E u : ProcessorAgreed(p, u)
  BY SettledIs
<1>2. AgreedChain(p, at)
  BY <1>1 DEF MerchantAgreed
<1>3. PICK u : Passed(AuthorisePaymentChainError(m, rules("mpp"), nonce(p, "mpp"), u))
  BY <1>1 DEF ProcessorAgreed
<1>4. {"merchant", "mpp"} \subseteq Verifiers
  BY DEF Verifiers
<1>5. Passed(AuthorisePaymentChainError(m, rules("mpp"), nonce(p, "mpp"), at))
  <2>1. Payment(p, "merchant").root = m.root /\ Delegated(Payment(p, "merchant")) = Delegated(m)
    BY PaymentIs
  <2>2. rules("merchant").issuer = rules("mpp").issuer
    BY <1>4, RulesAre
  <2>3. Passed(AuthorisePaymentChainError(Payment(p, "merchant"), rules("merchant"),
                                          nonce(p, "merchant"), at))
    BY <1>2 DEF AgreedChain
  <2> QED BY <1>3, <2>1, <2>2, <2>3, Rejudged
<1>6. Passed(AuthoriseCheckoutChainError(c, Facts(p, at), Offer(p), rules("merchant"),
                                         nonce(p, "merchant"), at))
  BY <1>2 DEF AgreedChain, Subject, Facts
<1>7. Covers(BindingIn(c, decodeCheckout(Delegated(c)).hash), Offer(p))
  BY <1>6, CheckoutCovers
<1>8. Covers(BindingIn(m, decodePayment(Delegated(m)).hash), Offer(p))
  BY PaymentBinding
<1>9. Passed(SamePurchaseError(BindingIn(c, decodeCheckout(Delegated(c)).hash),
                               BindingIn(m, decodePayment(Delegated(m)).hash), Offer(p)))
  BY <1>7, <1>8, OnePurchase
<1>10. AsOf(Facts(p, at), at) = Facts(p, at)
  BY ToldAsOf DEF Facts
<1>11. /\ Its.checkout = rules("merchant") /\ Its.payment = rules("mpp")
       /\ ns.checkout = nonce(p, "merchant") /\ ns.payment = nonce(p, "mpp")
  BY DEF Its, Nonces
<1>12. nonce(p, "merchant") # 0 /\ nonce(p, "mpp") # 0
  <2>1. nonce(p, "merchant") = 3 * p + 1 /\ nonce(p, "mpp") = 3 * p + 2
    BY DEF nonce
  <2>2. p \in Nat
    BY <1>1, AuthorityAssumption DEF Purchases
  <2> QED BY <2>1, <2>2
<1>13. /\ Complete(bundle) /\ bundle.checkout[1] = Offer(p) /\ bundle.checkoutMandate[1] = c
       /\ bundle.paymentMandate[1] = m
       /\ Passed(ReceiptError(bundle.checkoutReceipt[1], c, Trusted.checkout, "checkout"))
       /\ Passed(ReceiptError(bundle.paymentReceipt[1], m, Trusted.payment, "payment"))
  BY <1>1, BundleIs
<1> HIDE DEF bundle, ns, c, m
<1>14. Holds(VerifyChain(bundle, at, Facts(p, at), ns, Its, Trusted))
  BY <1>5, <1>6, <1>9, <1>10, <1>11, <1>12, <1>13, ChainLinks
<1> QED BY <1>14, CaseIs DEF bundle, ns

\* And of one the user signed for.
LEMMA DirectCaseHolds ==
    ASSUME AuthorityInv, NEW p \in Settled, buys[p].mode = "direct"
    PROVE  Holds(Case(p, p))
<1> DEFINE at == buys[p].accepted
           bundle == Bundle(p, p)
           c == Checkout(p)
           m == Payment(p, "mpp")
           bc == SignedBinding(c, decodeCheckout(Payload(c)).hash)
           bm == SignedBinding(m, decodePayment(Payload(m)).hash)
<1>1. buys[p].answers = SettledAnswers /\ MerchantAgreed(p, at)
  BY SettledIs
<1>2. AgreedDirect(p, at)
  BY <1>1 DEF MerchantAgreed
<1>3. m = Payment(p, "merchant")
  BY DEF Payment
<1>4. /\ Passed(VerifyCheckoutError(c, Offer(p), rules("merchant"), at))
      /\ Passed(VerifyPaymentError(m, rules("merchant"), at))
      /\ Passed(PaysForError(bm, Offer(p)))
  BY <1>2, <1>3 DEF AgreedDirect, SignedBinding
<1>5. Passed(VerifyPaymentError(m, rules("mpp"), at))
  <2>1. rules("merchant").issuer = rules("mpp").issuer
    BY RulesAre DEF Verifiers
  <2> QED BY <1>4, <2>1, PaymentExamined
<1>6. Covers(bc, Offer(p))
  BY <1>4, DirectCovers
<1> HIDE DEF bc, bm
<1>7. Covers(bm, Offer(p))
  BY <1>4, Covering
<1>8. Passed(SamePurchaseError(bc, bm, Offer(p)))
  BY <1>6, <1>7, OnePurchase
<1>9. Its.checkout = rules("merchant") /\ Its.payment = rules("mpp")
  BY DEF Its
<1>10. /\ Complete(bundle) /\ bundle.checkout[1] = Offer(p) /\ bundle.checkoutMandate[1] = c
       /\ bundle.paymentMandate[1] = m
       /\ Passed(ReceiptError(bundle.checkoutReceipt[1], c, Trusted.checkout, "checkout"))
       /\ Passed(ReceiptError(bundle.paymentReceipt[1], m, Trusted.payment, "payment"))
  BY <1>1, BundleIs
<1>11. Passed(SamePurchaseError([hash |-> decodeCheckout(Payload(c)).hash, alg |-> HashAlg(c)],
                                [hash |-> decodePayment(Payload(m)).hash, alg |-> HashAlg(m)], Offer(p)))
  BY <1>8 DEF bc, bm, SignedBinding
<1> HIDE DEF bundle, c, m
<1>12. Holds(Verify(bundle, at, Its, Trusted))
  BY <1>4, <1>5, <1>9, <1>10, <1>11, DirectLinks
<1> QED BY <1>12, CaseIs DEF bundle

\* One of the links of a case that holds.
LEMMA ChainOfOne ==
    ASSUME NEW bundle, Complete(bundle), NEW at, NEW s,
           NEW nonces, nonces.checkout # 0, nonces.payment # 0, NEW its, NEW trusted,
           NEW c, c = bundle.checkoutMandate[1], NEW m, m = bundle.paymentMandate[1],
           NEW offer, offer = bundle.checkout[1],
           Holds(VerifyChain(bundle, at, s, nonces, its, trusted))
    PROVE  Passed(SamePurchaseError(BindingIn(c, decodeCheckout(Delegated(c)).hash),
                                    BindingIn(m, decodePayment(Delegated(m)).hash), offer))
<1>1. IncompleteError(bundle) = ""
  BY Zenon, IsComplete
<1>2. PICK cr, pr, then :
        VerifyChain(bundle, at, s, nonces, its, trusted) =
        Report(<<AuthoriseCheckoutChainError(c, then, offer, its.checkout, nonces.checkout, at),
                 ReceiptError(cr, c, trusted.checkout, "checkout"),
                 AuthorisePaymentChainError(m, its.payment, nonces.payment, at),
                 SamePurchaseError(BindingIn(c, decodeCheckout(Delegated(c)).hash),
                                   BindingIn(m, decodePayment(Delegated(m)).hash), offer),
                 ReceiptError(pr, m, trusted.payment, "payment")>>)
  BY Zenon, <1>1 DEF VerifyChain
<1> DEFINE same == SamePurchaseError(BindingIn(c, decodeCheckout(Delegated(c)).hash),
                                     BindingIn(m, decodePayment(Delegated(m)).hash), offer)
           x == AuthoriseCheckoutChainError(c, then, offer, its.checkout, nonces.checkout, at)
           y == ReceiptError(cr, c, trusted.checkout, "checkout")
           z == AuthorisePaymentChainError(m, its.payment, nonces.payment, at)
           w == ReceiptError(pr, m, trusted.payment, "payment")
<1>3. VerifyChain(bundle, at, s, nonces, its, trusted) = Report(<<x, y, z, same, w>>)
  BY Zenon, <1>2
<1> HIDE DEF same, x, y, z, w
<1>4. Passed(same)
  BY <1>3, FiveLinks
<1> QED BY <1>4 DEF same

\* Evidence that holds is of one purchase.
LEMMA CaseIsOfOne ==
    ASSUME AuthorityInv, NEW p \in Settled, NEW q \in Settled, buys[p].mode = buys[q].mode,
           Holds(Case(p, q))
    PROVE  p = q
<1> DEFINE at == buys[p].accepted
           bundle == Bundle(p, q)
           ns == Nonces(p, q)
           c == Checkout(p)
           m == Payment(q, "mpp")
<1>1. /\ p \in Purchases /\ p # 0 /\ buys[p].answers = SettledAnswers
      /\ q \in Purchases /\ q # 0 /\ buys[q].answers = SettledAnswers
      /\ buys[p].mode \in {"chain", "direct"}
      /\ MerchantAgreed(q, buys[q].accepted)
  BY SettledIs
<1>2. /\ Complete(bundle) /\ bundle.checkout[1] = Offer(p) /\ bundle.checkoutMandate[1] = c
      /\ bundle.paymentMandate[1] = m
  BY <1>1, BundleIs
<1>3. CASE buys[p].mode = "chain"
  <2>1. Holds(VerifyChain(bundle, at, Facts(p, at), ns, Its, Trusted))
    BY <1>3, CaseIs
  <2>2. nonce(p, "merchant") # 0 /\ nonce(q, "mpp") # 0
    <3>1. nonce(p, "merchant") = 3 * p + 1 /\ nonce(q, "mpp") = 3 * q + 2
      BY DEF nonce
    <3>2. p \in Nat /\ q \in Nat
      BY <1>1, AuthorityAssumption DEF Purchases
    <3> QED BY <3>1, <3>2
  <2>3. ns.checkout # 0 /\ ns.payment # 0
    BY <2>2 DEF Nonces
  <2> HIDE DEF bundle, ns, c, m
  <2>4. Passed(SamePurchaseError(BindingIn(c, decodeCheckout(Delegated(c)).hash),
                                 BindingIn(m, decodePayment(Delegated(m)).hash), Offer(p)))
    BY <1>2, <2>1, <2>3, ChainOfOne
  <2>5. Covers(BindingIn(m, decodePayment(Delegated(m)).hash), Offer(p))
    BY <2>4, OnePurchase
  <2>6. Hash(AgentAlg, Offer(q)) = Hash(AgentAlg, Offer(p))
    BY <1>3, <2>5, PaymentBinding DEF m
  <2> QED BY <2>6, HashesDiffer
<1>4. CASE buys[p].mode = "direct"
  <2> DEFINE bc == SignedBinding(c, decodeCheckout(Payload(c)).hash)
             bm == SignedBinding(m, decodePayment(Payload(m)).hash)
  <2>1. Holds(Verify(bundle, at, Its, Trusted))
    BY <1>4, CaseIs
  <2>2. m = Payment(q, "merchant")
    BY <1>4 DEF Payment
  <2>3. Passed(PaysForError(bm, Offer(q)))
    <3>1. AgreedDirect(q, buys[q].accepted)
      BY <1>1, <1>4 DEF MerchantAgreed
    <3> QED BY <2>2, <3>1 DEF AgreedDirect, SignedBinding
  <2> HIDE DEF bundle, c, m
  <2>4. Passed(SamePurchaseError([hash |-> decodeCheckout(Payload(c)).hash, alg |-> HashAlg(c)],
                                 [hash |-> decodePayment(Payload(m)).hash, alg |-> HashAlg(m)], Offer(p)))
    BY <1>2, <2>1, DirectLinks
  <2>5. Passed(SamePurchaseError(bc, bm, Offer(p)))
    BY <2>4 DEF SignedBinding
  <2> HIDE DEF bc, bm
  <2>6. Covers(bm, Offer(p))
    BY <2>5, OnePurchase
  <2>7. Covers(bm, Offer(q))
    BY <2>3, Covering
  <2>8. Hash(bm.alg, Offer(p)) = Hash(bm.alg, Offer(q))
    BY <2>6, <2>7 DEF Covers
  <2> QED BY <2>8, HashesDiffer
<1> QED BY <1>1, <1>3, <1>4

LEMMA ArbiterSatisfied == AuthorityInv => DisputeAgrees
<1> SUFFICES ASSUME AuthorityInv, NEW p \in Settled, NEW q \in Settled, buys[p].mode = buys[q].mode
             PROVE  Holds(Case(p, q)) <=> p = q
  BY DEF DisputeAgrees
<1>1. buys[p].mode \in {"chain", "direct"}
  BY SettledIs
<1>2. Holds(Case(p, p))
  BY <1>1, ChainCaseHolds, DirectCaseHolds
<1> QED BY <1>2, CaseIsOfOne

\* An arbiter with the evidence of a settled purchase agrees with those who
\* accepted it, and is not taken in by evidence of two purchases.
\* (dispute.go: Verify, VerifyChain, VerifySamePurchase; receipt.go)
THEOREM ArbiterAgrees == Spec => []DisputeAgrees
BY ArbiterSatisfied, DecisionsKept, PTL
-----------------------------------------------------------------------------
(* Weighing what is shown: a verifier that is given a delegation, in time and  *)
(* within the limits, has no other ground to refuse it than that it was shown  *)
(* no limit on the amount.                                                     *)

\* The one element a delegation hides, shown.
LEMMA SoleInOrder ==
    ASSUME NEW d, NEW f, Value(d) = Obj(f), FlatObject(f), arrayDigestKey \notin DOMAIN f,
           Name(d) = Unnamed, NEW alg
    PROVE  Passed(ProcessError(Sole(Hash(alg, d)), Led(d, <<>>), alg))
<1> DEFINE h == [i \in 1..1 |-> Hash(alg, d)]
           list == Sole(Hash(alg, d))
           q == Led(d, <<>>)
           shown == DigestsUnder(alg, q)
           at == <<>>
<1>1. \A i \in 1..1 : h[i] = Hash(alg, d)
  OBVIOUS
<1>2. Committed(Hash(alg, d)) = d
  BY KindsDiffer
<1>3. q = <<d>> /\ DOMAIN q = {1} /\ q[1] = d
  BY DEF Led
<1>4. HiddenList(list, h, 1)
  <2>1. <<Placeholder(Hash(alg, d))>> = [i \in 1..1 |-> Placeholder(h[i])]
    BY <1>1
  <2> QED BY <2>1 DEF HiddenList, Placeholders, Sole
<1> HIDE DEF h
<1>5. shown = {Hash(alg, d)}
  BY <1>3 DEF DigestsUnder, ToSet
<1>6. Plain(Obj(f))
  BY DEF Plain
<1>7. Holds1(h, 1, shown) /\ Unlabelled(h, 1) /\ Injective(h, 1)
  BY <1>1, <1>2, <1>6 DEF Holds1, Unlabelled, Injective
<1>8. Distinct(q) /\ ListedIn(shown, h, 1)
  BY <1>1, <1>3, <1>5 DEF Distinct, ListedIn
<1> HIDE DEF list, q
<1>9. Around(list, at, list, shown)
  BY <1>4, <1>7, HiddenListIs DEF Around
<1>10. Lists(list, at, list, shown)
  BY DEF Lists
<1>11. at \in Seq({})
  OBVIOUS
<1>12. Passed(ProcessError(list, q, alg))
  BY <1>4, <1>7, <1>8, <1>9, <1>10, <1>11, InOrder
<1> QED BY <1>12 DEF list, q

\* The same key, a header of its own.
LEMMA SignedByAgent ==
    ASSUME NEW jwt, jwt[2] = Header(AgentKey), jwt[4] = AgentKey
    PROVE  jwt[2].typ = DelegateType /\ Passed(SignatureError(jwt, AgentKey))
<1>1. jwt[2].alg = "ES256" /\ AgentKey.alg = "ES256" /\ jwt[2].typ = DelegateType
  BY DEF Header, AgentKey
<1>2. "ES256" \notin Unsigned
  BY Zenon DEF Unsigned
<1> DEFINE a == jwt[2].alg \in Unsigned \/ jwt[2].alg # AgentKey.alg
           b == jwt[4] # AgentKey
<1>3. ~a /\ ~b
  BY Zenon, <1>1, <1>2
<1> HIDE DEF a, b
<1>4. Passed(Refuse(a, "unsupported algorithm")) /\ Passed(Refuse(b, "signature invalid"))
  BY Zenon, <1>3 DEF Passed, Refuse
<1>5. Passed(SignatureError(jwt, AgentKey))
  BY Zenon, <1>4, ChecksPass DEF SignatureError, a, b
<1> QED BY <1>1, <1>5

\* One binding, and it covers the token as it is presented.
LEMMA BoundByHash ==
    ASSUME NEW chain, NEW claims, DOMAIN claims = DelegationNames,
           claims["sd_hash"] = SDHash(chain.root), NEW required
    PROVE  Passed(bindingError(chain, claims, required))
<1>1. "sd_hash" \in DOMAIN claims
  BY DEF DelegationNames
<1>2. "issuer_jwt_hash" \notin DOMAIN claims
  <2>1. "issuer_jwt_hash" # sdAlgClaim
    BY DEF sdAlgClaim
  <2> QED BY <2>1 DEF DelegationNames
<1> DEFINE other == /\ "issuer_jwt_hash" \in DOMAIN claims /\ ~required
                    /\ claims["issuer_jwt_hash"] = Hash(HashAlg(chain.root), chain.root.jwt)
           bound == ("sd_hash" \in DOMAIN claims /\ claims["sd_hash"] = SDHash(chain.root)) \/ other
           bad == ("sd_hash" \in DOMAIN claims) = ("issuer_jwt_hash" \in DOMAIN claims) \/ ~bound
<1>3. bindingError(chain, claims, required) = Refuse(bad, "key binding invalid")
  BY Zenon DEF bindingError
<1>4. ~bad
  BY Zenon, <1>1, <1>2
<1> HIDE DEF bad
<1> QED BY Zenon, <1>3, <1>4 DEF Passed, Refuse

\* The delegation of a payment passes every check but that of its time.
LEMMA PaymentInOrder ==
    ASSUME NEW p \in Purchases, buys[p].mode = "chain", NEW v \in Verifiers, NEW t,
           Passed(checkValidity(Delegated(Payment(p, v)), t))
    PROVE  Passed(ChainDelegationError(Payment(p, v), AgentKey, Want(rules(v), nonce(p, v)), t))
<1> DEFINE salt == <<v, p>>
           wrapper == Wrapper(salt, Paid(p))
           f == Without(Paid(p), {sdAlgClaim})
<1>1. PICK chain : chain = Payment(p, v)
  OBVIOUS
<1>2. PICK want : want = Want(rules(v), nonce(p, v))
  OBVIOUS
<1>3. chain = Delegate(Minimise(OpenPayment(open[1])), AgentKey, kb(p, v), Paid(p), <<>>, AgentAlg, salt)
  BY <1>1, PaymentIs
<1>4. /\ chain.root = Minimise(OpenPayment(open[1]))
      /\ chain.disclosures = Led(wrapper, <<>>)
      /\ chain.jwt[2] = Header(AgentKey)
      /\ chain.jwt[4] = AgentKey
      /\ Delegating(chain)["sd_hash"] = SDHash(Minimise(OpenPayment(open[1])))
      /\ DOMAIN Delegating(chain) = DelegationNames
      /\ Delegating(chain)["delegate_payload"] = Sole(Hash(AgentAlg, wrapper))
      /\ DelegatedHashAlg(chain) = AgentAlg
  BY <1>3, DelegationIs
<1>5. Content(Delegating(chain)["nonce"]) = nonce(p, v) /\ Content(Delegating(chain)["aud"]) = v
  BY <1>1, PaymentIs
<1>6. want.nonce = nonce(p, v) /\ want.aud = v /\ want.maxAge = 0
  <2>1. want.nonce = nonce(p, v) /\ want.aud = rules(v).audience /\ want.maxAge = 0
    BY <1>2 DEF Want
  <2>2. rules(v).audience = v
    BY RulesAre
  <2> QED BY <2>1, <2>2
<1>7. chain.jwt[2].typ = DelegateType /\ Passed(SignatureError(chain.jwt, AgentKey))
  BY <1>4, SignedByAgent
<1>8. Passed(bindingError(chain, Delegating(chain), want.requireSDHash))
  BY <1>4, BoundByHash
<1>9. Passed(freshnessError(Delegating(chain), want, t))
  BY <1>5, <1>6, FreshAnyTime
<1>10. AgentAlg \in HashAlgs
  BY AuthorityAssumption
<1>11. Passed(ProcessError(Delegating(chain)["delegate_payload"], chain.disclosures, DelegatedHashAlg(chain)))
  <2>1. FlatObject(Paid(p)) /\ DOMAIN Paid(p) = PaidNames
    BY PaidIs
  <2>2. sdAlgClaim \notin PaidNames /\ arrayDigestKey \notin PaidNames
    BY NamesDiffer DEF PaidNames, ClaimNames, Reserved
  <2>3. FlatObject(f) /\ arrayDigestKey \notin DOMAIN f
    BY <2>1, <2>2 DEF FlatObject, Without, IsFunction
  <2>4. Value(wrapper) = Obj(f) /\ Name(wrapper) = Unnamed
    BY KindsDiffer DEF Wrapper
  <2> HIDE DEF wrapper, f
  <2>5. Passed(ProcessError(Sole(Hash(AgentAlg, wrapper)), Led(wrapper, <<>>), AgentAlg))
    BY <2>3, <2>4, SoleInOrder
  <2> QED BY <1>4, <2>5
<1>12. Len(Elements(chain)) = 1
  <2>1. Elements(chain) = <<Obj(Paid(p))>>
    BY <1>1, PaymentIs
  <2> QED BY <2>1
<1>13. Passed(checkValidity(Delegated(chain), t))
  BY <1>1
<1>14. Passed(ChainDelegationError(chain, AgentKey, want, t))
  BY <1>4, <1>7, <1>8, <1>9, <1>10, <1>11, <1>12, <1>13, DelegationChecked
<1> QED BY <1>1, <1>2, <1>14

\* What the surface signed for the payments of an agreement, and what of it a
\* verifier is shown.
PaymentRoot(m) == Shown(IssueOpen(UserKey, m, SurfaceAlg, <<"open", 2>>), Weighed(m))

LEMMA PaymentRootIs ==
    ASSUME NEW t, AgreedAt(t), NEW m, m = PaymentAt(approved, t)
    PROVE  /\ Minimise(OpenPayment(open[1])) = PaymentRoot(m)
           /\ Portion(Weighed(m), m)
           /\ \A u : VerifyError(OpenPayment(open[1]), UserKey, u) = InTime(t + OpenLife, u)
           /\ \A u : VerifyError(PaymentRoot(m), UserKey, u) = InTime(t + OpenLife, u)
<1>1. SurfaceMandate(m) /\ m.expiresAt = t + OpenLife
  BY PaymentAtIs DEF AgreedAt
<1>2. PICK sd : sd = IssueOpen(UserKey, m, SurfaceAlg, <<"open", 2>>)
  OBVIOUS
<1>3. OpenPayment(open[1]) = sd
  BY <1>2 DEF OpenPayment, AgreedAt
<1>4. Minimise(sd) = Shown(sd, Weighed(m)) /\ Portion(Weighed(m), m)
  BY <1>1, <1>2, Minimised
<1>5. PICK I : I = 1..Len(m.constraints)
  OBVIOUS
<1>6. Portion(I, m)
  BY <1>5 DEF Portion
<1>7. ShownWhole(sd, m)
  BY <1>1, <1>2, <1>6, ShownIs
<1>8. sd = Shown(sd, I)
  BY <1>5, <1>7 DEF ShownWhole
<1>9. \A u : VerifyError(sd, UserKey, u) = InTime(m.expiresAt, u)
  BY <1>1, <1>2, <1>6, <1>8, OpenVerified
<1>10. \A u : VerifyError(Shown(sd, Weighed(m)), UserKey, u) = InTime(m.expiresAt, u)
  BY <1>1, <1>2, <1>4, OpenVerified
<1> QED BY <1>1, <1>2, <1>3, <1>4, <1>9, <1>10 DEF PaymentRoot

\* The chain is in order while its two times are.
LEMMA PaymentChainInOrder ==
    ASSUME NEW p \in Purchases, p # 0, buys[p].mode = "chain", NEW v \in Verifiers,
           NEW at, AgreedAt(at), NEW t,
           Passed(VerifyError(OpenPayment(open[1]), UserKey, t)),
           Passed(checkValidity(Delegated(Payment(p, v)), t))
    PROVE  Passed(ChainError(Payment(p, v), rules(v), nonce(p, v), t))
<1>1. PICK m : m = PaymentAt(approved, at)
  OBVIOUS
<1>2. SurfaceMandate(m) /\ m.agentKey = AgentKey
  BY <1>1, PaymentAtIs DEF AgreedAt
<1>3. PICK chain : chain = Payment(p, v)
  OBVIOUS
<1>4. chain.root = PaymentRoot(m) /\ Portion(Weighed(m), m)
  BY <1>1, <1>3, PaymentIs, PaymentRootIs
<1>5. Passed(VerifyError(chain.root, rules(v).issuer, t))
  <2>1. rules(v).issuer = UserKey
    BY RulesAre
  <2>2. VerifyError(OpenPayment(open[1]), UserKey, t) = InTime(at + OpenLife, t)
    BY <1>1, PaymentRootIs
  <2>3. VerifyError(PaymentRoot(m), UserKey, t) = InTime(at + OpenLife, t)
    BY <1>1, PaymentRootIs
  <2> QED BY <1>4, <2>1, <2>2, <2>3
<1>6. MayAsk(rules(v), nonce(p, v))
  <2>1. p \in Nat \ {0}
    BY AuthorityAssumption DEF Purchases
  <2>2. nonce(p, v) # 0
    BY <2>1 DEF nonce, Verifiers
  <2>3. v # NoOne
    BY DEF Verifiers, NoOne
  <2> QED BY <2>2, <2>3, RulesAre DEF MayAsk
<1>7. PICK payload : payload = Payload(chain.root)
  OBVIOUS
<1>8. /\ DOMAIN payload = OpenNames \cup Pins(m)
      /\ Agree(payload, openClaims(m), Unlisted(m))
  <2>1. PICK salt : salt = <<"open", 2>>
    OBVIOUS
  <2>2. PICK sd : sd = IssueOpen(UserKey, m, SurfaceAlg, salt)
    OBVIOUS
  <2>3. payload = Payload(Shown(sd, Weighed(m)))
    BY <1>4, <1>7, <2>1, <2>2 DEF PaymentRoot
  <2> QED BY <1>2, <1>4, <2>2, <2>3, ShownPayload
<1>9. "cnf" \in DOMAIN payload
  BY <1>8 DEF OpenNames
<1>10. keyOf(payload["cnf"]) = AgentKey
  <2>1. "cnf" \in Unlisted(m)
    BY DEF Unlisted, OpenNames
  <2>2. payload["cnf"] = cnfOf(AgentKey)
    BY <1>2, <1>8, <2>1, OpenClaims DEF Agree
  <2>3. keyOf(cnfOf(AgentKey)) = AgentKey
    BY DEF keyOf, cnfOf, Obj, Content
  <2> QED BY <2>2, <2>3
<1>11. Cnf(chain) = payload["cnf"]
  BY <1>7 DEF Cnf
<1>12. Passed(AgentKeyError(Cnf(chain)))
  <2>1. UsableKey(AgentKey)
    BY DEF UsableKey, AgentKey
  <2> QED BY Zenon, <1>10, <1>11, <2>1 DEF AgentKeyError, Passed, Refuse
<1>13. Passed(ChainDelegationError(chain, AgentKey, Want(rules(v), nonce(p, v)), t))
  BY <1>3, PaymentInOrder
<1>14. Passed(ChainError(chain, rules(v), nonce(p, v), t))
  BY <1>5, <1>6, <1>7, <1>9, <1>10, <1>11, <1>12, <1>13, ChainParts
<1> QED BY <1>3, <1>14

\* Every limit that is shown is of the one type there is.
LEMMA LimitsTyped ==
    ASSUME NEW cs, cs \in Seq(Expression), NEW I, I \subseteq 1..Len(cs)
    PROVE  Passed(constraintsError(LimitsAt(cs, I)))
<1> DEFINE q == Limits(cs)
           p == Those(q, I)
<1>1. DOMAIN q = 1..Len(cs) /\ Len(cs) \in Nat /\ \A i \in 1..Len(cs) : q[i] = Limit(cs[i])
  BY DEF Limits
<1> HIDE DEF q
<1>2. Picks(p, q, I)
  <2>1. I \cap 1..Len(cs) = I
    OBVIOUS
  <2> QED BY <1>1, <2>1, ThoseArePicked
<1>3. Content(LimitsAt(cs, I)) = p
  BY KindsDiffer DEF LimitsAt, q
<1>4. p \in Seq({q[i] : i \in I})
  BY <1>2, PicksAre
<1> HIDE DEF p
<1>5. \A k \in DOMAIN p : Content(p[k]).type = Str(ConstraintType)
  <2> SUFFICES ASSUME NEW k \in DOMAIN p PROVE Content(p[k]).type = Str(ConstraintType)
    OBVIOUS
  <2>1. PICK i \in I : p[k] = q[i]
    <3>1. PICK S : S = {q[i] : i \in I}
      OBVIOUS
    <3>2. p \in Seq(S)
      BY <1>4, <3>1
    <3>3. p[k] \in S
      BY <3>2
    <3> QED BY <3>1, <3>3
  <2>2. p[k] = Limit(cs[i])
    BY <1>1, <2>1
  <2> QED BY <2>2, LimitIs
<1> DEFINE bad == \E k \in DOMAIN p : Content(p[k]).type # Str(ConstraintType)
<1>6. ~bad
  BY <1>5
<1>7. constraintsError(LimitsAt(cs, I)) = Refuse(bad, "unknown field")
  BY Zenon, <1>3 DEF constraintsError
<1> HIDE DEF bad
<1> QED BY Zenon, <1>6, <1>7 DEF Passed, Refuse

LEMMA RightType ==
    ASSUME NEW claims, NEW vct, "vct" \in DOMAIN claims, claims["vct"] = Str(vct)
    PROVE  Passed(requireVCT(claims, vct))
<1>1. Content(claims["vct"]) = vct
  BY KindsDiffer
<1> QED BY Zenon, <1>1, ChecksPass DEF requireVCT, Passed, Refuse

\* Some limit on the amount is among those shown.
Bounded(m, I) == \E i \in I : "amount" \in Fields(m.constraints[i])

\* What is shown of a mandate with limits, and whether that is enough.
LEMMA EnoughShown ==
    ASSUME NEW m, SurfaceMandate(m), \A i \in 1..Len(m.constraints) : Parses(m.constraints[i]),
           NEW I, Portion(I, m), NEW limits, limits = decodeConstraints(LimitsAt(m.constraints, I)),
           NEW salt, NEW signed, "constraints" \in DOMAIN signed,
           signed["constraints"] = Hidden(salt, m.constraints)
    PROVE  someDisclosedError(signed, limits) ?? constrainedError(limits, {"amount"})
           = IF Bounded(m, I) THEN "" ELSE "disclosure insufficient"
<1> DEFINE cs == m.constraints
           amounts == UNION {Fields(limits[i]) : i \in DOMAIN limits}
           none == "constraints" \notin DOMAIN signed
           empty == Content(signed["constraints"]) # <<>> /\ limits = <<>>
           errs == [i \in DOMAIN limits |-> ParseError(limits[i])]
           unbounded == ~({"amount"} \subseteq amounts)
           bounded == Bounded(m, I)
<1>1. cs \in Seq(Expression) /\ I \subseteq 1..Len(cs)
  BY DEF SurfaceMandate, Portion
<1>2. Picks(limits, cs, I)
  BY <1>1, LimitsDecoded
<1>3. PICK n \in Nat : \E g \in [1..n -> I] :
          /\ limits = [k \in 1..n |-> cs[g[k]]]
          /\ \A j, k \in 1..n : g[j] = g[k] => j = k
          /\ \A i \in I : \E k \in 1..n : g[k] = i
  BY <1>2 DEF Picks
<1>4. PICK g \in [1..n -> I] :
          /\ limits = [k \in 1..n |-> cs[g[k]]]
          /\ \A i \in I : \E k \in 1..n : g[k] = i
  BY <1>3
<1>5. DOMAIN limits = 1..n /\ \A k \in 1..n : limits[k] = cs[g[k]] /\ g[k] \in I
  BY <1>4
<1>6. unbounded <=> ~bounded
  <2>1. ASSUME NEW i \in I, "amount" \in Fields(cs[i]) PROVE "amount" \in amounts
    <3>1. PICK k \in 1..n : g[k] = i
      BY <1>4
    <3>2. k \in DOMAIN limits /\ limits[k] = cs[i]
      BY <1>5, <3>1
    <3> QED BY <2>1, <3>2
  <2>2. ASSUME "amount" \in amounts PROVE bounded
    <3>1. PICK k \in DOMAIN limits : "amount" \in Fields(limits[k])
      BY <2>2
    <3>2. g[k] \in I /\ limits[k] = cs[g[k]]
      BY <1>5, <3>1
    <3> QED BY <3>1, <3>2 DEF Bounded
  <2>3. bounded => "amount" \in amounts
    BY <2>1 DEF Bounded
  <2> QED BY <2>2, <2>3
<1>7. bounded => ~empty
  <2> SUFFICES ASSUME bounded PROVE limits # <<>>
    OBVIOUS
  <2>1. PICK i \in I : TRUE
    BY DEF Bounded
  <2>2. PICK k \in 1..n : g[k] = i
    BY <1>4
  <2>3. k \in DOMAIN limits
    BY <1>5, <2>2
  <2> QED BY <2>3
<1>8. Passed(FirstOf(errs))
  <2>1. DOMAIN errs \subseteq Nat
    BY <1>5
  <2>2. \A k \in DOMAIN errs : Passed(errs[k])
    <3> SUFFICES ASSUME NEW k \in DOMAIN limits PROVE Passed(ParseError(limits[k]))
      BY Zenon
    <3>1. Parses(limits[k])
      BY <1>1, <1>5
    <3> QED BY <3>1 DEF Parses, Passed
  <2> HIDE DEF errs
  <2> QED BY <2>1, <2>2, FirstPasses
<1>9. constrainedError(limits, {"amount"}) = FirstOf(errs) ?? Refuse(unbounded, "disclosure insufficient")
  <2>1. {"amount"} # {}
    OBVIOUS
  <2> QED BY Zenon, <2>1 DEF constrainedError
<1>10. ~none
  OBVIOUS
<1>11. someDisclosedError(signed, limits)
       = Refuse(none, "disclosure insufficient") ?? Refuse(empty, "disclosure insufficient")
  BY Zenon DEF someDisclosedError
<1> DEFINE parse == FirstOf(errs)
<1>12. Passed(parse)
  BY <1>8
<1> HIDE DEF none, empty, unbounded, parse, bounded
<1>13. constrainedError(limits, {"amount"}) = Refuse(unbounded, "disclosure insufficient")
  BY Zenon, <1>9, <1>12 DEF Passed, ??, parse
<1>14. someDisclosedError(signed, limits) = Refuse(empty, "disclosure insufficient")
  BY Zenon, <1>10, <1>11 DEF Refuse, ??
<1>15. Refuse(empty, "disclosure insufficient") ?? Refuse(unbounded, "disclosure insufficient")
       = IF bounded THEN "" ELSE "disclosure insufficient"
  <2>1. CASE bounded
    BY Zenon, <1>6, <1>7, <2>1 DEF Refuse, ??
  <2>2. CASE ~bounded
    BY Zenon, <1>6, <2>2 DEF Refuse, ??
  <2> QED BY <2>1, <2>2
<1> QED BY Zenon, <1>13, <1>14, <1>15 DEF bounded

IfEnough(enough) == IF enough THEN "" ELSE "disclosure insufficient"

\* What the open mandate of a delegated payment comes to, on the limits shown.
LEMMA OpenPaymentChecked ==
    ASSUME NEW p \in Purchases, buys[p].mode = "chain", NEW v \in Verifiers,
           NEW at, AgreedAt(at), NEW m, m = PaymentAt(approved, at),
           \A i \in DOMAIN approved : Parses(approved[i]), NEW chain, chain = Payment(p, v)
    PROVE  openChainError(chain, Payload(chain.root), Delegated(chain), rules(v), openPayment,
                          closedPayment) = IfEnough(Bounded(m, Weighed(m)))
<1>1. PICK root : root = Payload(chain.root)
  OBVIOUS
<1>2. PICK I : I = Weighed(m)
  OBVIOUS
<1>3. PICK salt : salt = <<"open", 2>>
  OBVIOUS
<1>4. PICK sd : sd = IssueOpen(UserKey, m, SurfaceAlg, salt)
  OBVIOUS
<1>5. /\ SurfaceMandate(m) /\ m.vct = openPayment /\ m.constraints = approved
      /\ approved \in Seq(Expression)
  BY PaymentAtIs DEF AgreedAt
<1>6. chain.root = Shown(sd, I) /\ Portion(I, m)
  <2>1. chain.root = PaymentRoot(m) /\ Portion(Weighed(m), m)
    BY PaymentIs, PaymentRootIs
  <2> QED BY <1>2, <1>3, <1>4, <2>1 DEF PaymentRoot
<1>7. /\ DOMAIN root = OpenNames \cup Pins(m)
      /\ root["constraints"] = LimitsAt(m.constraints, I)
      /\ Agree(root, openClaims(m), Unlisted(m))
  <2>1. root = Payload(Shown(sd, I))
    BY <1>1, <1>6
  <2> QED BY <1>4, <1>5, <1>6, <2>1, ShownPayload
<1>8. PICK limits : limits = decodeOpen(root).constraints
  OBVIOUS
<1>9. limits = decodeConstraints(LimitsAt(m.constraints, I))
  BY <1>1, <1>4, <1>5, <1>6, <1>8, ShownDecoded
<1>10. PICK signed : signed = SignedClaims(chain.root)
  OBVIOUS
<1>11. "constraints" \in DOMAIN signed /\ signed["constraints"] = Hidden(salt, m.constraints)
  <2>1. signed = SignedClaims(sd)
    BY <1>4, <1>5, <1>6, <1>10, ShownIs
  <2>2. /\ DOMAIN SignedClaims(sd) = OpenNames \cup Pins(m) \cup {sdAlgClaim}
        /\ SignedClaims(sd)["constraints"] = Hidden(salt, m.constraints)
    BY <1>4, <1>5, OpenSigned
  <2> QED BY <2>1, <2>2 DEF OpenNames
<1> DEFINE a == requireVCT(root, openPayment)
           b == requireVCT(Delegated(chain), closedPayment)
           c == decodeOpenError(root)
           d == someDisclosedError(signed, limits)
           e == constrainedError(limits, {"amount"})
<1>12. Passed(a)
  <2>1. "vct" \in DOMAIN root /\ "vct" \in Unlisted(m)
    BY <1>7 DEF OpenNames, Unlisted
  <2>2. root["vct"] = Str(openPayment)
    BY <1>5, <1>7, <2>1, OpenClaims DEF Agree
  <2> QED BY <2>1, <2>2, RightType
<1>13. Passed(b)
  <2>1. PICK delegated : delegated = Delegated(chain)
    OBVIOUS
  <2>2. delegated = Paid(p)
    BY <2>1, PaymentIs
  <2>3. "vct" \in DOMAIN delegated /\ delegated["vct"] = Str(closedPayment)
    BY <2>2, PaidIs DEF PaidNames
  <2> QED BY <2>1, <2>3, RightType
<1>14. Passed(c)
  <2> DEFINE lacks == {"cnf", "constraints"} \ DOMAIN root # {}
  <2>1. ~lacks
    BY <1>7 DEF OpenNames
  <2>2. Passed(constraintsError(root["constraints"]))
    <3>1. I \subseteq 1..Len(approved)
      BY <1>5, <1>6 DEF Portion
    <3> QED BY <1>5, <1>7, <3>1, LimitsTyped
  <2>3. c = Refuse(lacks, "mandate malformed") ?? constraintsError(root["constraints"])
    BY Zenon DEF decodeOpenError
  <2> HIDE DEF lacks, c
  <2>4. Passed(Refuse(lacks, "mandate malformed"))
    BY Zenon, <2>1 DEF Passed, Refuse
  <2> QED BY <2>2, <2>3, <2>4, ChecksPass
<1>15. d ?? e = IfEnough(Bounded(m, I))
  <2>1. \A i \in 1..Len(m.constraints) : Parses(m.constraints[i])
    BY <1>5
  <2> QED BY Zenon, <1>5, <1>6, <1>9, <1>11, <2>1, EnoughShown DEF IfEnough
<1>16. openChainError(chain, root, Delegated(chain), rules(v), openPayment, closedPayment)
       = a ?? b ?? c ?? d ?? e
  <2>1. rules(v).required = {"amount"}
    BY RulesAre
  <2> QED BY Zenon, <1>8, <1>10, <2>1 DEF openChainError
<1> HIDE DEF a, b, c, d, e
<1>17. a ?? b ?? c ?? d ?? e = d ?? e
  BY Zenon, <1>12, <1>13, <1>14 DEF Passed, ??
<1> QED BY Zenon, <1>1, <1>2, <1>15, <1>16, <1>17

\* What a delegated payment is read as.
LEMMA PaidRead ==
    ASSUME NEW p, NEW closed, closed = decodePayment(Paid(p))
    PROVE  /\ Passed(decodePaymentError(Paid(p)))
           /\ closed.payee = payee /\ closed.amount = Claims(Offer(p)).amount
           /\ closed.instrument = instrument /\ closed.date = <<>>
<1> DEFINE wants == {"transaction_id", "payee", "payment_amount", "payment_instrument"}
           lacks == wants \ DOMAIN Paid(p) # {}
<1>1. DOMAIN Paid(p) = PaidNames
  BY PaidIs
<1>2. ~lacks /\ "execution_date" \notin DOMAIN Paid(p)
  BY <1>1 DEF PaidNames
<1>3. decodePaymentError(Paid(p)) = Refuse(lacks, "mandate malformed")
  BY Zenon DEF decodePaymentError
<1> HIDE DEF lacks
<1>4. Passed(decodePaymentError(Paid(p)))
  BY Zenon, <1>2, <1>3 DEF Passed, Refuse
<1>5. /\ closed.payee = Paid(p)["payee"] /\ closed.amount = Paid(p)["payment_amount"]
      /\ closed.instrument = Paid(p)["payment_instrument"]
      /\ closed.date = Read(Paid(p), "execution_date")
  BY DEF decodePayment
<1>6. Read(Paid(p), "execution_date") = <<>>
  BY <1>2 DEF Read
<1> QED BY <1>4, <1>5, <1>6, PaidIs

\* A payment says of a purchase what the merchant knows of it, as far as it goes.
LEMMA PaymentSays ==
    ASSUME NEW p, NEW closed, closed = decodePayment(Paid(p)), NEW t, NEW names,
           names \subseteq Stateable
    PROVE  SaysSame(Facts(p, t), PaymentSubject(closed, t), names)
<1>1. PICK offer : offer = Offer(p)
  OBVIOUS
<1> DEFINE s == subjectOf(offer, t)
           r == PaymentSubject(closed, t)
<1>2. closed.payee = payee /\ closed.amount = Claims(offer).amount
  BY <1>1, PaidRead
<1>3. DOMAIN r = Stateable /\ Stateable \subseteq DOMAIN s
  BY DEF PaymentSubject, subjectOf, Stateable
<1>4. /\ r["amount"] = Content(closed.amount) /\ r["at"] = Time(t)
      /\ r["merchant.id"] = Content(closed.payee)
  BY DEF PaymentSubject, Time
<1>5. /\ s["amount"] = quotedPrice(offer) /\ s["at"] = Time(t)
      /\ s["merchant.id"] = Content(payee)
  BY DEF subjectOf
<1>6. r["amount"] = s["amount"] /\ r["at"] = s["at"] /\ r["merchant.id"] = s["merchant.id"]
  BY <1>2, <1>4, <1>5 DEF quotedPrice
<1> HIDE DEF s, r
<1>7. SaysSame(s, r, names)
  BY <1>3, <1>6 DEF SaysSame, Stateable
<1> QED BY <1>1, <1>7 DEF Facts, s, r

\* Within the limits and in its time, a payment is authorised by what is shown.
LEMMA PaymentAuthorised ==
    ASSUME NEW p \in Purchases, buys[p].mode = "chain", NEW v \in Verifiers,
           NEW at, AgreedAt(at), NEW m, m = PaymentAt(approved, at),
           \A i \in DOMAIN approved : Parses(approved[i]), NEW t, Instructed(p, t),
           ~(t < at), t < at + OpenLife,
           NEW closed, closed = decodePayment(Paid(p)),
           NEW user, user = decodeOpen(Payload(Payment(p, v).root))
    PROVE  Passed(AuthorisePaymentError(user, closed, PaymentSubject(closed, t), t))
<1>1. PICK I : I = Weighed(m)
  OBVIOUS
<1>2. PICK salt : salt = <<"open", 2>>
  OBVIOUS
<1>3. PICK sd : sd = IssueOpen(UserKey, m, SurfaceAlg, salt)
  OBVIOUS
<1>4. /\ SurfaceMandate(m) /\ m.vct = openPayment /\ m.agentKey = AgentKey
      /\ m.constraints = approved /\ m.instrument = Once(instrument) /\ m.issuedAt = at
      /\ m.expiresAt = at + OpenLife /\ approved \in Seq(Expression)
  BY PaymentAtIs DEF AgreedAt
<1>5. Payment(p, v).root = Shown(sd, I) /\ Portion(I, m)
  <2>1. Payment(p, v).root = PaymentRoot(m) /\ Portion(Weighed(m), m)
    BY PaymentIs, PaymentRootIs
  <2> QED BY <1>1, <1>2, <1>3, <2>1 DEF PaymentRoot
<1>6. PICK root : root = Payload(Shown(sd, I))
  OBVIOUS
<1>7. user = decodeOpen(root)
  BY <1>5, <1>6
<1>8. /\ user.agentKey = AgentKey
      /\ user.constraints = decodeConstraints(LimitsAt(approved, I))
      /\ user.payee = <<>> /\ user.amount = <<>> /\ user.instrument = Once(instrument)
      /\ user.date = <<>>
      /\ user.issuedAt = Once(at) /\ user.expiresAt = Once(at + OpenLife)
  <2>1. /\ decodeOpen(root).agentKey = m.agentKey
        /\ decodeOpen(root).constraints = decodeConstraints(LimitsAt(m.constraints, I))
        /\ decodeOpen(root).payee = <<>>
        /\ decodeOpen(root).amount = <<>>
        /\ decodeOpen(root).instrument = m.instrument
        /\ decodeOpen(root).date = <<>>
        /\ decodeOpen(root).issuedAt = Once(m.issuedAt)
        /\ decodeOpen(root).expiresAt = Once(m.expiresAt)
    BY <1>3, <1>4, <1>5, <1>6, ShownDecoded
  <2> QED BY <1>4, <1>7, <2>1
<1>9. Passed(CanAuthoriseError(user, t))
  <2>1. UsableKey(AgentKey)
    BY DEF UsableKey, AgentKey
  <2> QED BY <1>8, <2>1, InItsTime
<1> DEFINE changed == \/ user.payee \notin {<<>>, <<closed.payee>>}
                      \/ user.instrument \notin {<<>>, <<closed.instrument>>}
                      \/ user.amount \notin {<<>>, <<closed.amount>>}
                      \/ user.date # <<>> /\ closed.date # user.date
<1>10. Passed(pinnedError(user, closed))
  <2>1. ~changed
    BY <1>8, PaidRead DEF Once
  <2>2. pinnedError(user, closed) = Refuse(changed, "pinned field changed")
    BY Zenon DEF pinnedError
  <2> HIDE DEF changed
  <2> QED BY Zenon, <2>1, <2>2 DEF Passed, Refuse
<1>11. PICK limits : limits = user.constraints
  OBVIOUS
<1>12. I \subseteq 1..Len(approved) /\ DOMAIN approved = 1..Len(approved)
  BY <1>4, <1>5 DEF Portion
<1>13. PICK n \in Nat : \E g \in [1..n -> I] : limits = [k \in 1..n |-> approved[g[k]]]
  <2>1. Picks(limits, approved, I)
    BY <1>4, <1>8, <1>11, <1>12, LimitsDecoded
  <2> QED BY <2>1 DEF Picks
<1>14. PICK g \in [1..n -> I] : limits = [k \in 1..n |-> approved[g[k]]]
  BY <1>13
<1>15. \A k \in 1..n : /\ limits[k] = approved[g[k]] /\ g[k] \in I /\ g[k] \in DOMAIN approved
                       /\ approved[g[k]] \in Expression
  <2>1. \A k \in 1..n : /\ limits[k] = approved[g[k]] /\ g[k] \in I
    BY <1>14
  <2>2. \A i \in 1..Len(approved) : approved[i] \in Expression
    BY <1>4
  <2> QED BY <1>12, <2>1, <2>2
<1>16. limits \in Seq(Expression) /\ Len(limits) = n
  <2>1. limits \in [1..n -> Expression]
    BY <1>14, <1>15
  <2>2. DOMAIN limits = 1..n
    BY <1>14
  <2> QED BY <1>13, <2>1, <2>2
<1>17. \A k \in 1..n : Parses(limits[k])
  BY <1>15
<1>18. ASSUME NEW k \in 1..n PROVE Satisfied(limits[k], PaymentSubject(closed, t))
  <2>1. PICK c : c = limits[k]
    OBVIOUS
  <2>2. g[k] \in I /\ c = approved[g[k]] /\ c \in Expression /\ g[k] \in DOMAIN approved
    BY <1>15, <2>1
  <2>3. Fields(c) \subseteq Stateable
    <3>1. canState(openPayment, Fields(c))
      BY <1>1, <1>4, <2>2 DEF Weighed
    <3> QED BY <3>1, StatesAre
  <2>4. Satisfied(c, Facts(p, t))
    BY <2>2 DEF Instructed
  <2>5. SaysSame(Facts(p, t), PaymentSubject(closed, t), Fields(c))
    BY <2>3, PaymentSays
  <2> QED BY <2>1, <2>2, <2>4, <2>5, WeighedByItsFields
<1>19. Passed(Evaluate(limits, PaymentSubject(closed, t)))
  BY <1>16, <1>17, <1>18, Weighing
<1>20. AuthorisePaymentError(user, closed, PaymentSubject(closed, t), t) =
       CanAuthoriseError(user, t) ?? pinnedError(user, closed)
       ?? Evaluate(limits, PaymentSubject(closed, t))
  BY Zenon, <1>11 DEF AuthorisePaymentError
<1> QED BY <1>9, <1>10, <1>19, <1>20, ChecksPass

\* The verdict of a payment verifier on a purchase within its limits.
LEMMA WeighedIsDecided ==
    ASSUME AuthorityInv, NEW p \in Delegations, NEW v \in Verifiers, Instructed(p, now),
           Passed(VerifyError(OpenPayment(open[1]), UserKey, now)),
           Passed(checkValidity(Delegated(Payment(p, v)), now))
    PROVE  AuthorisePaymentChainError(Payment(p, v), rules(v), nonce(p, v), now)
           = IfEnough(\E i \in DOMAIN approved : Fields(approved[i]) \subseteq Stateable
                                                 /\ "amount" \in Fields(approved[i]))
<1>1. p \in Purchases /\ p # 0 /\ buys[p].mode = "chain" /\ buys[p] # Unstarted
  BY AuthorityAssumption DEF Delegations, Purchases, Unstarted
<1>2. open # <<>>
  BY <1>1 DEF AuthorityInv, BuyInv, StageInv
<1>3. PICK at : AgreedAt(at)
  BY <1>2, Agreed
<1>4. PICK m : m = PaymentAt(approved, at)
  OBVIOUS
<1>5. PICK chain : chain = Payment(p, v)
  OBVIOUS
<1>6. \A i \in DOMAIN approved : Parses(approved[i])
  BY DEF AuthorityInv, ApprovedInv
<1>7. Passed(ChainError(chain, rules(v), nonce(p, v), now))
  BY <1>1, <1>3, <1>5, PaymentChainInOrder
<1>8. openChainError(chain, Payload(chain.root), Delegated(chain), rules(v), openPayment, closedPayment)
      = IfEnough(Bounded(m, Weighed(m)))
  BY <1>1, <1>3, <1>4, <1>5, <1>6, OpenPaymentChecked
<1>9. Delegated(chain) = Paid(p)
  BY <1>1, <1>5, PaymentIs
<1>10. PICK closed : closed = decodePayment(Paid(p))
  OBVIOUS
<1>11. Passed(decodePaymentError(Delegated(chain)))
  BY <1>9, <1>10, PaidRead
<1>12. ~(now < at) /\ now < at + OpenLife
  <2>1. VerifyError(OpenPayment(open[1]), UserKey, now) = InTime(at + OpenLife, now)
    BY <1>3, <1>4, PaymentRootIs
  <2>2. Passed(InTime(at + OpenLife, now))
    BY <2>1
  <2>3. now < at + OpenLife
    BY Zenon, <2>2 DEF InTime, Passed, Refuse
  <2>4. now \in Nat
    BY DEF AuthorityInv, KeyInv
  <2> QED BY <1>3, <2>3, <2>4 DEF AgreedAt
<1>13. PICK user : user = decodeOpen(Payload(chain.root))
  OBVIOUS
<1>14. Passed(AuthorisePaymentError(user, closed, PaymentSubject(closed, now), now))
  BY <1>1, <1>3, <1>4, <1>5, <1>6, <1>10, <1>12, <1>13, PaymentAuthorised
<1> DEFINE a == ChainError(chain, rules(v), nonce(p, v), now)
           b == openChainError(chain, Payload(chain.root), Delegated(chain), rules(v), openPayment,
                               closedPayment)
           c == decodePaymentError(Delegated(chain))
           d == AuthorisePaymentError(user, closed, PaymentSubject(closed, now), now)
<1>15. AuthorisePaymentChainError(chain, rules(v), nonce(p, v), now) = a ?? b ?? c ?? d
  BY Zenon, <1>9, <1>10, <1>13 DEF AuthorisePaymentChainError
<1>16. Passed(a) /\ Passed(c) /\ Passed(d)
  BY <1>7, <1>11, <1>14
<1>17. b = IfEnough(Bounded(m, Weighed(m)))
  BY <1>8
<1> HIDE DEF a, b, c, d
<1>18. a ?? b ?? c ?? d = b
  BY Zenon, <1>16 DEF Passed, ??
<1> DEFINE enough == \E i \in DOMAIN approved : Fields(approved[i]) \subseteq Stateable
                                                /\ "amount" \in Fields(approved[i])
<1>19. Bounded(m, Weighed(m)) <=> enough
  <2>1. m.vct = openPayment /\ m.constraints = approved /\ DOMAIN approved = 1..Len(approved)
    BY <1>3, <1>4, PaymentAtIs DEF AgreedAt
  <2>2. \A i : i \in Weighed(m) <=> i \in DOMAIN approved /\ Fields(approved[i]) \subseteq Stateable
    BY <2>1, StatesAre DEF Weighed
  <2> QED BY <2>1, <2>2 DEF Bounded
<1> HIDE DEF enough
<1>20. IfEnough(Bounded(m, Weighed(m))) = IfEnough(enough)
  BY Zenon, <1>19 DEF IfEnough
<1> QED BY <1>5, <1>15, <1>17, <1>18, <1>20 DEF enough

LEMMA WhatIsShownIsWeighed == AuthorityInv => WeighsWhatItIsShown
<1> SUFFICES ASSUME AuthorityInv, NEW p \in Delegations, NEW v \in Verifiers, Instructed(p, now),
                    VerifyError(OpenPayment(open[1]), UserKey, now) = "",
                    checkValidity(Delegated(Payment(p, v)), now) = ""
             PROVE  LET known == {"amount", "at", "merchant.id"}
                        weighable == {i \in DOMAIN approved : Fields(approved[i]) \subseteq known}
                    IN  examine("chain", Payment(p, v), v, nonce(p, v))
                        = IF \E i \in weighable : "amount" \in Fields(approved[i])
                          THEN "" ELSE "disclosure insufficient"
  BY Zenon DEF WeighsWhatItIsShown
<1>1. /\ Passed(VerifyError(OpenPayment(open[1]), UserKey, now))
      /\ Passed(checkValidity(Delegated(Payment(p, v)), now))
  BY Zenon DEF Passed
<1> DEFINE enough == \E i \in DOMAIN approved : Fields(approved[i]) \subseteq Stateable
                                                /\ "amount" \in Fields(approved[i])
           weighable == {i \in DOMAIN approved : Fields(approved[i]) \subseteq Stateable}
<1>2. AuthorisePaymentChainError(Payment(p, v), rules(v), nonce(p, v), now) = IfEnough(enough)
  BY <1>1, WeighedIsDecided
<1>3. (\E i \in weighable : "amount" \in Fields(approved[i])) <=> enough
  OBVIOUS
<1>4. examine("chain", Payment(p, v), v, nonce(p, v))
      = AuthorisePaymentChainError(Payment(p, v), rules(v), nonce(p, v), now)
  BY Zenon DEF examine
<1> HIDE DEF enough
<1> QED BY Zenon, <1>2, <1>3, <1>4 DEF IfEnough, Stateable

\* No verifier refuses a delegation within the user's limits for want of a
\* limit that it was not shown, but one on the amount.
THEOREM WhatIsShownDecides == Spec => []WeighsWhatItIsShown
BY WhatIsShownIsWeighed, DecisionsKept, PTL
=============================================================================
