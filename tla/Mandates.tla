------------------------------ MODULE Mandates ------------------------------
(***************************************************************************)
(* Mandates as AP2 carries them (adapters/ap2), with the rules that decide *)
(* whether one authorises a purchase (core/authz/mandate.go): an open      *)
(* mandate the user signs, holding limits and the agent's key; a closed    *)
(* one, for one purchase, signed by the user or by the agent under an open *)
(* one; and the checks of the merchant, the credential provider and the    *)
(* payment processor.                                                      *)
(*                                                                         *)
(* An optional field is a sequence of at most one value.  Instants are     *)
(* numbers.  A key is [id, alg]; one with id 0 has no usable material.     *)
(***************************************************************************)
EXTENDS SDJWT, Constraint

Read(claims, claim) == IF claim \in DOMAIN claims THEN <<claims[claim]>> ELSE <<>>

Instant(claims, claim) ==
    IF claim \in DOMAIN claims THEN <<Content(claims[claim])>> ELSE <<>>

UsableKey(key) == key.id # 0

openCheckout == "mandate.checkout.open.1"
closedCheckout == "mandate.checkout.1"
openPayment == "mandate.payment.open.1"
closedPayment == "mandate.payment.1"

requireVCT(claims, want) ==
    Refuse("vct" \notin DOMAIN claims, "mandate malformed")
    ?? Refuse(Content(claims["vct"]) # want, "wrong mandate type")

\* What each kind lets its holder withhold (x-disclosable in contracts/authz).
blindPaths(vct) ==
    CASE vct \in {openCheckout, openPayment} -> {Path("constraints", TRUE)}
      [] vct = closedCheckout -> {Path("checkout_jwt", FALSE)}
      [] vct = closedPayment -> {Path("risk_data", FALSE)}

presentPaths(claims, paths) == {p \in paths : p.name \in DOMAIN claims}

Blinded(claims, vct, alg, salt) == Blind(claims, presentPaths(claims, blindPaths(vct)), alg, salt)
-----------------------------------------------------------------------------
ConstraintType == "tech.ethernal.ap2.expression.1"

encodeConstraints(cs) ==
    Arr([i \in DOMAIN cs |-> Obj([type |-> Str(ConstraintType),
                                  expression |-> <<"constraint", cs[i]>>])])

decodeConstraint(v) == Content(Content(v).expression)

decodeConstraints(v) == [i \in DOMAIN Content(v) |-> decodeConstraint(Content(v)[i])]

constraintsError(v) ==
    Refuse(\E i \in DOMAIN Content(v) : Content(Content(v)[i]).type # Str(ConstraintType),
           "unknown field")

cnfOf(key) == Obj([jwk |-> <<"key", key>>])
keyOf(cnf) == Content(Content(cnf).jwk)

\* An open mandate: [vct, agentKey, constraints, payee, amount, instrument,
\* date, issuedAt, expiresAt]; the four pins are of payments only.
openClaims(m) ==
    With([vct |-> Str(m.vct), cnf |-> cnfOf(m.agentKey),
          constraints |-> encodeConstraints(m.constraints),
          iat |-> Num(m.issuedAt), exp |-> Num(m.expiresAt)],
         [payee |-> m.payee, payment_amount |-> m.amount,
          payment_instrument |-> m.instrument, execution_date |-> m.date])

\* IssueOpenCheckout and IssueOpenPayment refuse a mandate of no key or of no
\* limit: it would authorise whoever holds it, or everything.
IssueOpenError(m, alg, salt) ==
    Refuse(~UsableKey(m.agentKey) \/ m.constraints = <<>>, "mandate malformed")
    ?? BlindError(openClaims(m), presentPaths(openClaims(m), blindPaths(m.vct)))

IssueOpen(key, m, alg, salt) ==
    Issue(key, Blinded(openClaims(m), m.vct, alg, salt), salt)

decodeOpenError(claims) ==
    Refuse({"cnf", "constraints"} \ DOMAIN claims # {}, "mandate malformed")
    ?? constraintsError(claims["constraints"])

decodeOpen(claims) ==
    [vct |-> Content(claims["vct"]),
     agentKey |-> keyOf(claims["cnf"]),
     constraints |-> decodeConstraints(claims["constraints"]),
     payee |-> Read(claims, "payee"),
     amount |-> Read(claims, "payment_amount"),
     instrument |-> Read(claims, "payment_instrument"),
     date |-> Read(claims, "execution_date"),
     issuedAt |-> Instant(claims, "iat"),
     expiresAt |-> Instant(claims, "exp")]
-----------------------------------------------------------------------------
\* A closed payment: [payee, amount, instrument, date, issuedAt, expiresAt].
paymentClaims(m) ==
    With([vct |-> Str(closedPayment), payee |-> m.payee, payment_amount |-> m.amount,
          payment_instrument |-> m.instrument,
          iat |-> Num(m.issuedAt), exp |-> Num(m.expiresAt)],
         [execution_date |-> m.date])

\* A closed checkout: [checkout, issuedAt, expiresAt].
checkoutClaims(m) ==
    [vct |-> Str(closedCheckout), checkout_jwt |-> m.checkout,
     iat |-> Num(m.issuedAt), exp |-> Num(m.expiresAt)]

\* The digest is under the algorithm the token will name, or the default when
\* it blinds nothing and so names none.
bindingAlg(alg, blinds) == IF blinds THEN alg ELSE DefaultHashAlg

bindCheckout(m, alg) ==
    With(checkoutClaims(m), [checkout_hash |-> <<Hash(alg, m.checkout)>>])
bindPayment(m, checkout, alg) ==
    With(paymentClaims(m), [transaction_id |-> <<Hash(alg, checkout)>>])

\* Slip: the digest is always under the blinder's own algorithm.
IssuePaymentUnderBlinder(key, m, checkout, alg, salt) ==
    Issue(key, Blinded(bindPayment(m, checkout, alg), closedPayment, alg, salt), salt)

\* IssueCheckout and IssuePayment: the pair a user who is present signs.
IssueCheckout(key, m, alg, salt) ==
    Issue(key, Blinded(bindCheckout(m, bindingAlg(alg, TRUE)), closedCheckout, alg, salt), salt)

IssuePayment(key, m, checkout, alg, salt) ==
    LET blinds == presentPaths(paymentClaims(m), blindPaths(closedPayment)) # {}
    IN  Issue(key, Blinded(bindPayment(m, checkout, bindingAlg(alg, blinds)), closedPayment,
                           alg, salt), salt)

decodePaymentError(claims) ==
    Refuse({"transaction_id", "payee", "payment_amount", "payment_instrument"}
           \ DOMAIN claims # {}, "mandate malformed")

decodePayment(claims) ==
    [hash |-> claims["transaction_id"],
     payee |-> claims["payee"],
     amount |-> claims["payment_amount"],
     instrument |-> claims["payment_instrument"],
     date |-> Read(claims, "execution_date")]

decodeCheckoutError(claims) ==
    Refuse("checkout_hash" \notin DOMAIN claims, "mandate malformed")

decodeCheckout(claims) ==
    [hash |-> claims["checkout_hash"], checkout |-> Read(claims, "checkout_jwt")]

\* A checkout is in hand: this verifier's own, and the one disclosed if any.
bindingSubjectError(disclosed, held) ==
    Refuse(disclosed # <<>> /\ held # <<>> /\ disclosed # held, "checkout hash mismatch")
    ?? Refuse(disclosed = <<>> /\ held = <<>>, "binding unverifiable")
bindingSubject(disclosed, held) == IF held # <<>> THEN held[1] ELSE disclosed[1]

\* A binding is a digest and the algorithm it is under.
Covers(b, checkout) == b.hash = Hash(b.alg, checkout)

CoversError(b, checkout) == Refuse(~Covers(b, checkout), "checkout hash mismatch")
PaysForError(b, checkout) == Refuse(~Covers(b, checkout), "payment binding mismatch")

SameError(a, b) ==
    Refuse(a.alg # b.alg, "binding unverifiable")
    ?? Refuse(a.hash # b.hash, "payment binding mismatch")
-----------------------------------------------------------------------------
\* What each verifier knows of a purchase, and so can weigh a limit on.
evaluations ==
    [vct \in {openCheckout, openPayment} |->
        IF vct = openCheckout THEN [states |-> DOMAIN fields, attributes |-> TRUE]
        ELSE [states |-> {"amount", "at", "merchant.id"}, attributes |-> FALSE]]

\* Slip: one field the verifier knows is enough for a limit to be shown.
canStateSome(vct, names) == \E f \in names : f \in evaluations[vct].states

canState(vct, names) ==
    \A f \in names : IF f \in DOMAIN fields THEN f \in evaluations[vct].states
                     ELSE evaluations[vct].attributes

\* Of a limit's disclosure: whether the mandate's verifiers can weigh it.
Weighable(vct, d) == canState(vct, Fields(decodeConstraint(Value(d))))

\* Each audience is shown the limits it can weigh and no others.
shownLimits(sd) ==
    LET vct == Content(SignedClaims(sd).vct)
        d == sd.disclosures
    IN  Those(d, {i \in DOMAIN d : Name(d[i]) # Unnamed \/ Weighable(vct, d[i])})

MinimiseError(sd) ==
    LET d == sd.disclosures
        limits == {i \in DOMAIN d : Name(d[i]) = Unnamed}
    IN  Refuse(Content(SignedClaims(sd).vct) \notin DOMAIN evaluations, "wrong mandate type")
        ?? FirstOf([i \in limits |-> constraintsError(Arr(<<Value(d[i])>>))
                                     ?? ParseError(decodeConstraint(Value(d[i])))])
        ?? PresentError(sd, shownLimits(sd))

Minimise(sd) == Present(sd, shownLimits(sd))

\* A presentation of none of the limits is not a mandate that set none.
someDisclosedError(signed, disclosed) ==
    Refuse("constraints" \notin DOMAIN signed, "disclosure insufficient")
    ?? Refuse(Content(signed["constraints"]) # <<>> /\ disclosed = <<>>,
              "disclosure insufficient")

constrainedError(cs, required) ==
    IF required = {} THEN ""
    ELSE FirstOf([i \in DOMAIN cs |-> ParseError(cs[i])])
         ?? Refuse(~(required \subseteq UNION {Fields(cs[i]) : i \in DOMAIN cs}),
                   "disclosure insufficient")
-----------------------------------------------------------------------------
\* DelegateCheckout and DelegatePayment: the agent closes an open mandate over
\* one purchase, for one verifier.
DelegateMandate(key, open, claims, vct, kb, alg, salt) ==
    LET blinded == Blinded(claims, vct, alg, salt)
    IN  Delegate(Minimise(open), key, kb, blinded.payload, blinded.disclosures, alg, salt)

DelegateMandateError(open, want, claims, vct, kb, alg, salt) ==
    LET blinded == Blinded(claims, vct, alg, salt)
    IN  requireVCT(SignedClaims(open), want)
        ?? BlindError(claims, presentPaths(claims, blindPaths(vct)))
        ?? MinimiseError(open)
        ?? DelegateError(Minimise(open), kb, blinded.payload, blinded.disclosures, alg)

DelegateCheckout(key, open, m, kb, alg, salt) ==
    DelegateMandate(key, open, bindCheckout(m, bindingAlg(alg, TRUE)), closedCheckout, kb, alg, salt)

DelegatePayment(key, open, m, checkout, kb, alg, salt) ==
    DelegateMandate(key, open, bindPayment(m, checkout, bindingAlg(alg, TRUE)), closedPayment,
                    kb, alg, salt)

DelegateCheckoutError(open, m, kb, alg, salt) ==
    DelegateMandateError(open, openCheckout, bindCheckout(m, bindingAlg(alg, TRUE)),
                         closedCheckout, kb, alg, salt)

DelegatePaymentError(open, m, checkout, kb, alg, salt) ==
    DelegateMandateError(open, openPayment, bindPayment(m, checkout, bindingAlg(alg, TRUE)),
                         closedPayment, kb, alg, salt)
-----------------------------------------------------------------------------
\* CanAuthorise: an open mandate is spendable by the key it endorses, in its
\* time.
CanAuthoriseError(open, now) ==
    Refuse(~UsableKey(open.agentKey), "no endorsed key")
    ?? Refuse(open.issuedAt # <<>> /\ now < open.issuedAt[1], "not yet valid")
    ?? Refuse(open.expiresAt # <<>> /\ ~(now < open.expiresAt[1]), "expired")

\* checkPinned: what the user fixed in advance is what is paid.
pinnedError(open, closed) ==
    Refuse(\/ open.payee \notin {<<>>, <<closed.payee>>}
           \/ open.instrument \notin {<<>>, <<closed.instrument>>}
           \/ open.amount \notin {<<>>, <<closed.amount>>}
           \/ open.date # <<>> /\ closed.date # open.date, "pinned field changed")

AuthoriseCheckoutError(open, subject, now) ==
    CanAuthoriseError(open, now) ?? Evaluate(open.constraints, subject)

AuthorisePaymentError(open, closed, subject, now) ==
    CanAuthoriseError(open, now) ?? pinnedError(open, closed)
    ?? Evaluate(open.constraints, subject)

\* PaymentSubject: what a payment says of its purchase.
PaymentSubject(closed, now) ==
    [f \in {"amount", "at", "merchant.id"} |->
        CASE f = "amount" -> Content(closed.amount)
          [] f = "at" -> [kind |-> "time", n |-> now, unit |-> "none"]
          [] f = "merchant.id" -> Content(closed.payee)]
-----------------------------------------------------------------------------
\* What a verifier is configured with: [issuer, audience, required].  Its
\* delegations are bound by sd_hash, of any age, under the key cnf names.
AgentKeyError(cnf) == Refuse(~UsableKey(keyOf(cnf)), "agent key mismatch")

ChainError(chain, rules, nonce, now) ==
    LET want == [nonce |-> nonce, aud |-> rules.audience, maxAge |-> 0,
                 requireSDHash |-> TRUE]
        cnf == Payload(chain.root)["cnf"]
    IN  ChainRootError(chain, rules.issuer, want, now)
        ?? AgentKeyError(cnf)
        ?? ChainDelegationError(chain, keyOf(cnf), want, now)

\* The open mandate of a verified chain, checked as what it is for.
openChainError(chain, root, delegated, rules, want, wantClosed) ==
    LET limits == decodeOpen(root).constraints
    IN  requireVCT(root, want) ?? requireVCT(delegated, wantClosed)
        ?? decodeOpenError(root)
        ?? someDisclosedError(SignedClaims(chain.root), limits)
        ?? constrainedError(limits, rules.required)

BindingIn(chain, hash) == [hash |-> hash, alg |-> DelegatedHashAlg(chain)]

\* MerchantRules.AuthoriseCheckoutChain.
AuthoriseCheckoutChainError(chain, subject, checkout, rules, nonce, now) ==
    LET root == Payload(chain.root)
        delegated == Delegated(chain)
        closed == decodeCheckout(delegated)
    IN  ChainError(chain, rules, nonce, now)
        ?? openChainError(chain, root, delegated, rules, openCheckout, closedCheckout)
        ?? decodeCheckoutError(delegated)
        ?? bindingSubjectError(closed.checkout, <<checkout>>)
        ?? CoversError(BindingIn(chain, closed.hash),
                       bindingSubject(closed.checkout, <<checkout>>))
        ?? AuthoriseCheckoutError(decodeOpen(root), subject, now)

\* CredentialProviderRules.AuthorisePaymentChain, of every payment verifier.
AuthorisePaymentChainError(chain, rules, nonce, now) ==
    LET root == Payload(chain.root)
        delegated == Delegated(chain)
        closed == decodePayment(delegated)
    IN  ChainError(chain, rules, nonce, now)
        ?? openChainError(chain, root, delegated, rules, openPayment, closedPayment)
        ?? decodePaymentError(delegated)
        ?? AuthorisePaymentError(decodeOpen(root), closed, PaymentSubject(closed, now), now)

\* VerifyCheckout and VerifyPayment, of mandates the user signed closed.
VerifyCheckoutError(sd, checkout, rules, now) ==
    LET m == decodeCheckout(Payload(sd))
    IN  VerifyError(sd, rules.issuer, now)
        ?? requireVCT(Payload(sd), closedCheckout)
        ?? decodeCheckoutError(Payload(sd))
        ?? bindingSubjectError(m.checkout, <<checkout>>)
        ?? CoversError([hash |-> m.hash, alg |-> HashAlg(sd)],
                       bindingSubject(m.checkout, <<checkout>>))

VerifyPaymentError(sd, rules, now) ==
    VerifyError(sd, rules.issuer, now)
    ?? requireVCT(Payload(sd), closedPayment)
    ?? decodePaymentError(Payload(sd))

\* MPPRules.VerifyCredential: [token, hash, expiresAt] against the purchase.
VerifyCredentialError(credential, hash, now) ==
    Refuse(credential.token = 0, "mandate malformed")
    ?? Refuse(credential.hash # hash, "credential scope mismatch")
    ?? Refuse(~(now < credential.expiresAt), "credential expired")

AmountMatchesError(amount, quoted) ==
    Refuse(quoted.unit = "none", "misconfigured")
    ?? Refuse(Content(amount) # quoted, "payment amount mismatch")
=============================================================================
