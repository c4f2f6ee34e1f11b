------------------------------ MODULE KeyStore ------------------------------
(***************************************************************************)
(* The signing keys of one process (platform/crypto/store.go): a key is    *)
(* minted with a term, rotated with an overlap in which it still verifies, *)
(* and used through the signer the process took when it started, which may *)
(* be older than the last rotation.  Every process mints under one slot,   *)
(* its own role's (roles/run.go), so the store has one: the last key       *)
(* minted is the active one.  Its peers fetch its key set when they start  *)
(* and keep it (roles/jwks.go).                                            *)
(*                                                                         *)
(* A call of Sign checks the key's state under the read lock and signs     *)
(* after it has let it go: two steps, with anything in between.  Rotate is *)
(* the store's interface; no command of the repository calls it yet, and a *)
(* retry of one, under its idempotency key, is answered and does nothing.  *)
(***************************************************************************)
EXTENDS Integers, Sequences, FiniteSets, FiniteSetsExt

CONSTANTS
    Lifetime,       \* term of a key (DefaultKeyLifetime)
    Overlap,        \* how long a rotated key still verifies
    MaxKeys,        \* bound: keys minted
    MaxTime         \* bound: the last instant

ASSUME KeyStoreAssumption ==
    /\ Lifetime \in Nat \ {0}
    /\ Overlap \in Nat
    /\ MaxKeys \in Nat \ {0}
    /\ MaxTime \in Nat

VARIABLES
    now,        \* the clock
    keys,       \* every key minted, in order
    checked,    \* instant at which the call of Sign under way passed its check
    signatures  \* history: instants of the checks behind the signatures made

keyVars == <<now, keys, checked, signatures>>

\* The signer the process holds, and the key its peers hold, for their lives.
Signer == 1

NotSigning == -1
Never == MaxTime + Lifetime + 1

NewKey == [minted |-> now, notAfter |-> now + Lifetime, retiredAt |-> Never]
-----------------------------------------------------------------------------
KeyState(key, t) ==
    IF t >= key.notAfter THEN "expired"
    ELSE IF t >= key.retiredAt THEN "retired"
    ELSE "active"

MaySign(k) == KeyState(keys[k], now) = "active"

\* Resolve and JWKS: a key is handed out, and published, until it expires.
MayVerify(k, t) == KeyState(keys[k], t) \in {"active", "retired"}

\* The process starts: Generate.
KeyInit ==
    /\ now = 0
    /\ keys = <<[minted |-> 0, notAfter |-> Lifetime, retiredAt |-> Never]>>
    /\ checked = NotSigning
    /\ signatures = {}

Tick ==
    /\ now < MaxTime
    /\ now' = now + 1
    /\ UNCHANGED <<keys, checked, signatures>>

\* Slip: a rotation late in a key's term gives it a whole overlap more.
RotateExtending ==
    /\ Len(keys) < MaxKeys
    /\ keys' = Append([keys EXCEPT ![Len(keys)].retiredAt = now,
                                   ![Len(keys)].notAfter = now + Overlap], NewKey)
    /\ UNCHANGED <<now, checked, signatures>>

\* A retired key verifies for the overlap, or for what is left of its term if
\* that is less.
Retired(key) ==
    [minted |-> key.minted, notAfter |-> Min({key.notAfter, now + Overlap}), retiredAt |-> now]

\* A new key signs from here on.
Rotate ==
    /\ Len(keys) < MaxKeys
    /\ keys' = Append([keys EXCEPT ![Len(keys)] = Retired(@)], NewKey)
    /\ UNCHANGED <<now, checked, signatures>>

\* Slip: the signer is trusted for as long as the process holds it.
SignChecksNothing(refused) ==
    /\ ~refused
    /\ checked' = now

\* The check of Sign: refused is its answer.
SignChecks(refused) ==
    /\ refused = ~MaySign(Signer)
    /\ checked' = IF refused THEN NotSigning ELSE now

\* And the signing, whatever has become of the key since.
SignWrites == signatures' = signatures \cup {checked}

\* The store by itself: a process that signs one thing, or several in a row, at
\* any time, while the clock runs and its keys are rotated.
SignBegins ==
    /\ checked = NotSigning
    /\ \E refused \in BOOLEAN : SignChecks(refused)
    /\ UNCHANGED <<now, keys, signatures>>

SignEnds ==
    /\ checked # NotSigning
    /\ SignWrites
    /\ checked' = NotSigning \/ \E refused \in BOOLEAN : SignChecks(refused)
    /\ UNCHANGED <<now, keys>>

KeyNext == Tick \/ Rotate \/ SignBegins \/ SignEnds

KeySpec == KeyInit /\ [][KeyNext]_keyVars
-----------------------------------------------------------------------------
\* A signature outlives the rotation of its key: made by a call of Sign that
\* passed its check at t, it verifies through the store for at least Overlap
\* from t, unless the key reaches the end of the term it was minted with
\* first; and no key verifies past that term, nor past Overlap from its
\* retirement.  (store.go: Sign, Rotate, state)
SignaturesOutliveRotation ==
    /\ \A t \in signatures : \A later \in now..(MaxTime + Overlap) :
          later < Min({t + Overlap, keys[Signer].minted + Lifetime}) => MayVerify(Signer, later)
    /\ \A k \in DOMAIN keys : \A later \in now..(MaxTime + Overlap + Lifetime) :
          MayVerify(k, later) => /\ later < keys[k].minted + Lifetime
                                 /\ later < keys[k].retiredAt + Overlap
=============================================================================
