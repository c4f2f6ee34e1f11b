------------------------------ MODULE Authority ------------------------------
(***************************************************************************)
(* Who may spend, from the user's signature to the arbiter: the surface,   *)
(* the agent that closes the open mandates over one purchase               *)
(* (agent/chain.go: Delegate), and the three verifiers that examine what   *)
(* they are presented with and answer it with receipts: the Credential     *)
(* Provider (roles/credprovider), the merchant (roles/merchant), and the   *)
(* Merchant Payment Processor (roles/mpp).  In the other mode the user is  *)
(* present and signs both mandates closed.                                 *)
(*                                                                         *)
(* Module DelegatedPurchase has the calls, their faults and their retries; *)
(* here every call is answered once and the documents are in full.  That   *)
(* an authorisation is spent once is the agent's to keep                   *)
(* (SingleUseAuthorisation): no verifier here remembers a purchase.        *)
(*                                                                         *)
(* Purchases are numbered.  The state keeps of each what was signed, when,  *)
(* and what each verifier answered; the documents are operators of it.     *)
(* stampedAt is the checkout mandate's instant, signedAt the payment's.    *)
(***************************************************************************)
EXTENDS Surface, Evidence

CONSTANTS
    Menu,           \* what each purchase may be: items at prices, and modes
    OfferLife,      \* how long the merchant stands by an offer
    CredentialLife, \* and the provider by a credential
    AgentAlg        \* digest algorithm of the agent's blinder

\* The key of the agent, which asks for open mandates and closes them.
AgentKey == [id |-> 2, alg |-> "ES256"]

\* The agent names its own key, when it names one that can be used.
ASSUME AuthorityAssumption ==
    /\ {OfferLife, CredentialLife} \subseteq Nat \ {0}
    /\ AgentAlg \in HashAlgs
    /\ DOMAIN Menu \subseteq Nat \ {0}
    /\ \A p \in DOMAIN Menu : \A choice \in Menu[p] : choice.mode \in {"chain", "direct"}
    /\ \A key \in Agents : UsableKey(key) => key = AgentKey

VARIABLE buys

vars == <<keyVars, surfaceVars, buys>>

Purchases == DOMAIN Menu

MerchantKey == [id |-> 3, alg |-> "ES256"]
CredProviderKey == [id |-> 4, alg |-> "ES256"]
ProcessorKey == [id |-> 5, alg |-> "ES256"]

Verifiers == {"credprovider", "merchant", "mpp"}

\* Every verifier trusts the surface's key, insists on being named, and on
\* being shown a limit on the amount.
rules(v) == [issuer |-> UserKey, audience |-> v, required |-> {"amount"}]

\* A challenge is one verifier's, for one purchase.
nonce(p, v) ==
    3 * p + CASE v = "credprovider" -> 0 [] v = "merchant" -> 1 [] v = "mpp" -> 2

payee == <<"merchant", [kind |-> "text", n |-> 7, unit |-> "plain"]>>

checkoutType == "checkout+jwt"

Money(n) == [kind |-> "money", n |-> n, unit |-> "EUR"]
Time(n) == [kind |-> "time", n |-> n, unit |-> "none"]
Number(n) == [kind |-> "number", n |-> n, unit |-> "none"]

Unstarted == [stage |-> "none"]
-----------------------------------------------------------------------------
(* The documents of a purchase. *)

\* The merchant's offer for p, of an item at a price: [item, price, quantity, at].
signOffer(o, p) ==
    SignJWT(MerchantKey, checkoutType,
            [iss |-> Str("merchant"), amount |-> <<"amount", Money(o.price)>>,
             item |-> <<"item", o.item>>, quantity |-> Num(o.quantity),
             iat |-> Num(o.at), exp |-> Num(o.at + OfferLife)], p)

Offer(p) == signOffer(buys[p].offer, p)

\* Both closed mandates carry the terms of the offer.
closedCheckoutOf(p, at) ==
    [checkout |-> Offer(p), issuedAt |-> at, expiresAt |-> at + ClosedLife]

closedPaymentOf(p, at) ==
    [payee |-> payee, amount |-> Claims(Offer(p)).amount, instrument |-> instrument,
     date |-> <<>>, issuedAt |-> at, expiresAt |-> at + ClosedLife]

kb(p, v) == [nonce |-> nonce(p, v), aud |-> v, iat |-> buys[p].signedAt]

\* What is presented for a purchase: closed by the agent, the payment once for
\* each verifier, or signed closed by the user.
Checkout(p) ==
    LET m == closedCheckoutOf(p, buys[p].stampedAt)
    IN  IF buys[p].mode = "chain"
          THEN DelegateCheckout(AgentKey, OpenCheckout(open[1]), m, kb(p, "merchant"), AgentAlg,
                                <<"delegate", p>>)
        ELSE IssueCheckout(UserKey, m, SurfaceAlg, <<"closed", p>>)

Payment(p, v) ==
    LET m == closedPaymentOf(p, buys[p].signedAt)
    IN  IF buys[p].mode = "chain"
          THEN DelegatePayment(AgentKey, OpenPayment(open[1]), m, Offer(p), kb(p, v), AgentAlg,
                               <<v, p>>)
        ELSE IssuePayment(UserKey, m, Offer(p), SurfaceAlg, <<"closed", p>>)
-----------------------------------------------------------------------------
\* ownOffer: an offer of this merchant's that it still stands by.
ownOfferError(offer) ==
    VerifyJWTError(offer, checkoutType, MerchantKey)
    ?? Refuse(~(now < Content(Claims(offer).exp)), "offer expired")

quotedPrice(offer) == Content(Claims(offer).amount)

subjectOf(offer, at) ==
    LET item == Content(Claims(offer).item)
    IN  [f \in {"amount", "at", "quantity", "merchant.id"} \cup DOMAIN item |->
            CASE f = "amount" -> quotedPrice(offer)
              [] f = "at" -> Time(at)
              [] f = "quantity" -> Number(Content(Claims(offer).quantity))
              [] f = "merchant.id" -> Content(payee)
              [] OTHER -> item[f]]

\* Slip: the purchase is weighed as of the instant it was offered.
SubjectAsOffered(offer, at) == subjectOf(offer, Content(Claims(offer).iat))

\* Catalogue.Subject: what the merchant knows of a purchase, at an instant.
Subject(offer, at) == subjectOf(offer, at)
-----------------------------------------------------------------------------
(* What each verifier makes of what it is presented with. *)

\* decide and decideChain: the refusal is of one mandate or of the other.
Verdict(checkout, payment) ==
    IF checkout # "" \/ payment = "" THEN [kind |-> "checkout", error |-> checkout]
    ELSE [kind |-> "payment", error |-> payment]

decide(checkout, payment, offer) ==
    LET m == decodePayment(Payload(payment))
    IN  Verdict(VerifyCheckoutError(checkout, offer, rules("merchant"), now),
                VerifyPaymentError(payment, rules("merchant"), now)
                ?? PaysForError([hash |-> m.hash, alg |-> HashAlg(payment)], offer)
                ?? AmountMatchesError(m.amount, quotedPrice(offer)))

decideChain(checkout, payment, offer, challenge) ==
    LET m == decodePayment(Delegated(payment))
    IN  Verdict(AuthoriseCheckoutChainError(checkout, Subject(offer, now), offer,
                                            rules("merchant"), challenge, now),
                AuthorisePaymentChainError(payment, rules("merchant"), challenge, now)
                ?? PaysForError(BindingIn(payment, m.hash), offer)
                ?? AmountMatchesError(m.amount, quotedPrice(offer)))

Decide(mode, checkout, payment, offer, challenge) ==
    IF mode = "chain" THEN decideChain(checkout, payment, offer, challenge)
    ELSE decide(checkout, payment, offer)

\* The payment, as the provider and the processor examine it.
examine(mode, payment, v, challenge) ==
    IF mode = "chain" THEN AuthorisePaymentChainError(payment, rules(v), challenge, now)
    ELSE VerifyPaymentError(payment, rules(v), now)

PaymentHash(mode, payment) ==
    decodePayment(IF mode = "chain" THEN Delegated(payment) ELSE Payload(payment)).hash

\* mint: scoped to the purchase the provider was shown, for a while.
Credential(p) ==
    [token |-> IF buys[p].fundedAt = -1 THEN 0 ELSE p,
     hash |-> PaymentHash(buys[p].mode, Payment(p, "credprovider")),
     expiresAt |-> buys[p].fundedAt + CredentialLife]

\* The processor's: the payment, and the credential scoped to it.
examineSettlement(mode, payment, challenge, credential) ==
    examine(mode, payment, "mpp", challenge)
    ?? VerifyCredentialError(credential, PaymentHash(mode, payment), now)
-----------------------------------------------------------------------------
Init ==
    /\ KeyInit
    /\ SurfaceInit
    /\ buys = [p \in Purchases |-> Unstarted]

keep == UNCHANGED <<keyVars, surfaceVars>>

AuthoriseOpen ==
    /\ \E shown, asked \in Instructions, agent \in Agents :
          \/ Authorise(shown, asked, digestOf(shown), agent)
          \/ Authorise(shown, asked, NoDigest, agent)
    /\ UNCHANGED buys

\* The merchant quotes an item at the price of the moment.  Purchases are
\* started in order: one agent makes one attempt at a time.
Quote(p) ==
    /\ buys[p] = Unstarted
    /\ \A q \in Purchases : q < p => buys[q].stage \in {"settled", "refused", "failed"}
    /\ \E choice \in Menu[p] :
          /\ choice.mode = "chain" => open # <<>>
          /\ buys' = [buys EXCEPT ![p] =
                [stage |-> "quoted", mode |-> choice.mode,
                 offer |-> [item |-> choice.item, price |-> choice.price, quantity |-> 1,
                            at |-> now],
                 stampedAt |-> -1, signedAt |-> -1, fundedAt |-> -1, accepted |-> -1, answers |-> {}]]
    /\ keep

\* A purchase whose key may sign nothing, or whose challenge has lapsed, or
\* that anything else keeps from its next step, ends there.
Fail(p) == buys' = [buys EXCEPT ![p].stage = "failed"]

\* Whether Delegate refuses to close one of the mandates.
DelegationRefused(p) ==
    LET salt == <<"delegate", p>>
        payment == closedPaymentOf(p, now)
    IN  \/ DelegateCheckoutError(OpenCheckout(open[1]), closedCheckoutOf(p, now),
                                 kb(p, "merchant"), AgentAlg, salt) # ""
        \/ \E v \in Verifiers : DelegatePaymentError(OpenPayment(open[1]), payment, Offer(p),
                                                     kb(p, v), AgentAlg, <<v, p>>) # ""

\* Delegate: the agent closes the open mandates over the offer, once for each
\* verifier that will read it, all under one reading of the clock.
DelegateAttempt(p) ==
    /\ buys[p].stage = "quoted"
    /\ buys[p].mode = "chain"
    /\ IF DelegationRefused(p) THEN Fail(p)
       ELSE buys' = [buys EXCEPT ![p].stage = "mandated", ![p].stampedAt = now,
                                 ![p].signedAt = now]
    /\ keep

\* The user is present, and the surface is asked for a closed pair.  It reads
\* the clock for one mandate and then for the other: the checkout's stamp may
\* be an earlier instant than the payment's.
Approve(p) ==
    /\ buys[p].stage = "quoted"
    /\ buys[p].mode = "direct"
    /\ \E at \in buys[p].offer.at..now :
          Take([kind |-> "closed", id |-> p, checkout |-> at, payment |-> now])
    /\ buys' = [buys EXCEPT ![p].stage = "approving"]
    /\ UNCHANGED <<approved, open>>

ApproveRefused(p) ==
    /\ buys[p].stage = "quoted"
    /\ buys[p].mode = "direct"
    /\ desk = Idle
    /\ SignChecks(TRUE)
    /\ Fail(p)
    /\ UNCHANGED <<now, keys, signatures, surfaceVars>>

PairStarts ==
    /\ SignsFirst
    /\ IF desk' = Idle /\ desk.job.kind = "closed" THEN Fail(desk.job.id)
       ELSE UNCHANGED buys

PairDone ==
    /\ SignsSecond
    /\ IF desk.job.kind = "open" THEN UNCHANGED buys
       ELSE buys' = [buys EXCEPT ![desk.job.id].stage = "mandated",
                                 ![desk.job.id].stampedAt = desk.job.checkout,
                                 ![desk.job.id].signedAt = desk.job.payment]
-----------------------------------------------------------------------------
Answer(from, kind, verdict) == [from |-> from, kind |-> kind, error |-> verdict]

\* fund: the provider answers the payment, and mints a credential scoped to
\* its purchase if it is authorised.
AnswerOfProvider(p, verdict) ==
    buys' = [buys EXCEPT
        ![p].stage = IF verdict = "" THEN "funded" ELSE "refused",
        ![p].fundedAt = IF verdict = "" THEN now ELSE @,
        ![p].answers = @ \cup {Answer("credprovider", "payment", verdict)}]

Fund(p) ==
    /\ buys[p].stage = "mandated"
    /\ AnswerOfProvider(p, examine(buys[p].mode, Payment(p, "credprovider"), "credprovider",
                                   nonce(p, "credprovider")))
    /\ keep

\* settle of the merchant: an offer that is not its own, or not current, ends
\* in no receipt; what is examined is answered, whatever the verdict.
AnswerOfMerchant(p, verdict) ==
    buys' = [buys EXCEPT
        ![p].stage = IF verdict.error = "" THEN "accepted" ELSE "refused",
        ![p].accepted = IF verdict.error = "" THEN now ELSE @,
        ![p].answers = @ \cup {Answer("merchant", verdict.kind, verdict.error)}]

SettleAtMerchant(p) ==
    /\ buys[p].stage = "funded"
    /\ IF ownOfferError(Offer(p)) # "" THEN Fail(p)
       ELSE AnswerOfMerchant(p, Decide(buys[p].mode, Checkout(p), Payment(p, "merchant"), Offer(p),
                                       nonce(p, "merchant")))
    /\ keep

\* settle of the processor, which the merchant calls once it has accepted.
AnswerOfProcessor(p, verdict) ==
    buys' = [buys EXCEPT
        ![p].stage = IF verdict = "" THEN "settled" ELSE "refused",
        ![p].answers = @ \cup {Answer("mpp", "payment", verdict)}]

SettleAtProcessor(p) ==
    /\ buys[p].stage = "accepted"
    /\ AnswerOfProcessor(p, examineSettlement(buys[p].mode, Payment(p, "mpp"), nonce(p, "mpp"),
                                              Credential(p)))
    /\ keep

\* The receipts of a purchase from one of its verifiers.
Receipts(p, who) ==
    LET key == CASE who = "credprovider" -> CredProviderKey
                 [] who = "merchant" -> MerchantKey
                 [] who = "mpp" -> ProcessorKey
        its == {a \in buys[p].answers : a.from = who}
        issued(a) == IssueReceipt(IF a.kind = "checkout" THEN Checkout(p) ELSE Payment(p, who),
                                  a.error, who, a.kind, key)
    IN  SetToSeq({issued(a) : a \in its})

\* The verifier no longer honours its challenge: a problem, not a receipt.
ChallengeLapsed(p) ==
    /\ buys[p].stage \in {"mandated", "funded", "accepted"}
    /\ buys[p].mode = "chain"
    /\ Fail(p)
    /\ keep

Next ==
    \/ Tick /\ UNCHANGED <<surfaceVars, buys>>
    \/ Rotate /\ UNCHANGED <<surfaceVars, buys>>
    \/ AuthoriseOpen
    \/ PairStarts
    \/ PairDone
    \/ \E p \in Purchases :
          \/ Quote(p)
          \/ DelegateAttempt(p)
          \/ Approve(p)
          \/ ApproveRefused(p)
          \/ Fund(p)
          \/ SettleAtMerchant(p)
          \/ SettleAtProcessor(p)
          \/ ChallengeLapsed(p)

Spec == Init /\ [][Next]_vars
-----------------------------------------------------------------------------
Delegations == {p \in Purchases : buys[p].stage # "none"
                                  /\ buys[p].mode = "chain" /\ buys[p].signedAt # -1}

\* Everything the merchant could say of a purchase at an instant.
Facts(p, at) == subjectOf(Offer(p), at)

Instructed(p, at) == \A i \in DOMAIN approved : Satisfied(approved[i], Facts(p, at))

\* What the user agreed to holds of what the merchant accepts: at the instant
\* of acceptance every limit the human was shown is satisfied by everything
\* the merchant knows of the purchase, within the life of the mandate and of
\* the offer.  (merchant/service.go: settle; rules.go: AuthoriseCheckoutChain)
InstructionHonoured ==
    \A p \in Delegations :
        LET at == buys[p].accepted
            user == decodeOpen(Payload(OpenCheckout(open[1])))
        IN  at # -1 => /\ Instructed(p, at)
                       /\ at \in user.issuedAt[1]..(user.expiresAt[1] - 1)
                       /\ at < Content(Claims(Offer(p)).exp)

\* No verifier refuses for want of knowing: while a purchase is within every
\* limit the human agreed to and its mandates are in time, a payment verifier
\* either accepts the delegation it is given, or says it was shown no limit on
\* the amount, and only when the user gave none it could weigh.
\* (disclose.go: Minimise, canState, requireConstrained)
WeighsWhatItIsShown ==
    \A p \in {q \in Delegations : buys[q].stage = "mandated"}, v \in Verifiers :
        LET answer == examine("chain", Payment(p, v), v, nonce(p, v))
            known == {"amount", "at", "merchant.id"}
            weighable == {i \in DOMAIN approved : Fields(approved[i]) \subseteq known}
        IN  /\ Instructed(p, now)
            /\ VerifyError(OpenPayment(open[1]), UserKey, now) = ""
            /\ checkValidity(Delegated(Payment(p, v)), now) = ""
            => answer = IF \E i \in weighable : "amount" \in Fields(approved[i])
                        THEN "" ELSE "disclosure insufficient"

\* One presentation is for one verifier and one purchase: whatever mandates,
\* challenges, offers and credentials of two purchases are put together, a
\* verifier accepts only what was signed for itself, for one purchase, under
\* its own challenge.  (chain.go: verifyBinding, verifyDelegateFreshness;
\* binding.go: Covers, PaysFor; rules.go: VerifyCredential)
EachForOne ==
    \A p, q \in {r \in Delegations : now < Content(Claims(Offer(r)).exp)} :
        (buys[p].stage = "mandated" \/ buys[q].stage = "mandated") =>
        /\ \A v, w \in Verifiers :
              examine("chain", Payment(p, w), v, nonce(q, v)) = "" => p = q /\ v = w
        /\ \A r \in {p, q} :
              decideChain(Checkout(p), Payment(q, "merchant"), Offer(r),
                          nonce(p, "merchant")).error = ""
              => p = q /\ q = r
        /\ examineSettlement("chain", Payment(p, "mpp"), nonce(p, "mpp"),
                             Credential(q)) = "" => p = q

\* The arbiter's case for a checkout of p and a payment of q.
Case(p, q) ==
    LET bundle == [checkout |-> <<Offer(p)>>, checkoutMandate |-> <<Checkout(p)>>,
                   checkoutReceipt |-> Receipts(p, "merchant"),
                   paymentMandate |-> <<Payment(q, "mpp")>>,
                   paymentReceipt |-> Receipts(q, "mpp")]
        its == [checkout |-> rules("merchant"), payment |-> rules("mpp")]
        trusted == [checkout |-> MerchantKey, payment |-> ProcessorKey]
        nonces == [checkout |-> nonce(p, "merchant"), payment |-> nonce(q, "mpp")]
        at == buys[p].accepted
    IN  IF buys[p].mode = "chain" THEN VerifyChain(bundle, at, Facts(p, at), nonces, its, trusted)
        ELSE Verify(bundle, at, its, trusted)

Settled == {p \in Purchases : buys[p].stage = "settled"}

\* The arbiter agrees with the verifiers: the evidence of every purchase that
\* was settled holds as of the instant the merchant accepted it, and evidence
\* put together from two purchases never does.  Each purchase has an offer of its
\* own: pairs of mandates over one and the same offer would pair across, as the
\* arbiter's documentation says.  (dispute.go: Dispute, Verify, VerifyChain,
\* VerifySamePurchase; receipt.go: AnswersMandate)
DisputeAgrees ==
    \A p, q \in Settled :
        buys[p].mode = buys[q].mode => (Holds(Case(p, q)) <=> p = q)
=============================================================================
