------------------------------ MODULE Evidence ------------------------------
(***************************************************************************)
(* Receipts (adapters/ap2/receipt.go) and the chain of evidence an arbiter *)
(* reads (adapters/ap2/dispute.go, core/evidence): the merchant's offer,   *)
(* the two mandates presented for it, and the receipts that answer them.   *)
(* An arbiter has the keys and the rules, and judges as of the instant of  *)
(* the transaction.                                                        *)
(***************************************************************************)
EXTENDS Mandates

\* The code a refusal travels under (contracts/common/error-codes).
CodeOf(error) ==
    CASE error = "" -> ""
      [] error \in {"mandate malformed", "malformed", "type mismatch", "too deep",
                    "receipt mismatch", "reserved claim", "delegate payload invalid"}
           -> "mandate_malformed"
      [] error = "wrong mandate type" -> "mandate_version_unsupported"
      [] error = "checkout hash mismatch" -> "checkout_hash_mismatch"
      [] error = "payment binding mismatch" -> "payment_binding_mismatch"
      [] error = "payment amount mismatch" -> "payment_amount_mismatch"
      [] error = "credential scope mismatch" -> "credential_scope_mismatch"
      [] error \in {"expired", "credential expired"} -> "mandate_expired"
      [] error = "not yet valid" -> "mandate_not_yet_valid"
      [] error \in {"binding unverifiable", "disclosure insufficient"}
           -> "disclosure_insufficient"
      [] error \in {"agent key mismatch", "no endorsed key"} -> "agent_key_mismatch"
      [] error \in {"violated", "pinned field changed"} -> "constraint_violated"
      [] error \in {"unknown field", "unknown operator"} -> "constraint_type_unknown"
      [] error = "signature invalid" -> "signature_invalid"
      [] error \in {"unsupported algorithm", "unsupported hash algorithm"}
           -> "algorithm_unsupported"
      [] error \in {"digest repeated", "claim conflict", "disclosure unmatched",
                    "disclosure unreachable"} -> "disclosure_unmatched"
      [] error = "key binding invalid" -> "key_binding_invalid"
      [] error \in {"unexpected type", "incomplete"} -> "request_malformed"
      [] OTHER -> "verifier_unavailable"

ReceiptType == "ap2-receipt+jwt"

\* What a verifier answers a presentation with, whatever its verdict.  When it
\* was issued is in it too, and nothing reads it.
IssueReceipt(presented, verdict, issuer, mandateType, key) ==
    SignJWT(key, ReceiptType,
            With([iss |-> Str(issuer), reference |-> SDHash(presented),
                  mandate_type |-> Str(mandateType),
                  result |-> Str(IF verdict = "" THEN "success" ELSE "error")],
                 [error |-> IF verdict = "" THEN <<>> ELSE <<Str(CodeOf(verdict))>>]),
            0)

\* VerifyReceipt and decodeReceipt: only a rejection says why, and it must.
VerifyReceiptError(receipt, verifier) ==
    LET claims == Claims(receipt)
    IN  VerifyJWTError(receipt, ReceiptType, verifier)
        ?? Refuse((claims["result"] = Str("error")) # ("error" \in DOMAIN claims),
                  "mandate malformed")

Answers(receipt, presented) == Claims(receipt)["reference"] = SDHash(presented)

\* receiptAnswering: the receipt's own signer, kind and presentation.
ReceiptError(receipt, presented, verifier, mandateType) ==
    VerifyReceiptError(receipt, verifier)
    ?? Refuse(Claims(receipt)["mandate_type"] # Str(mandateType), "receipt mismatch")
    ?? Refuse(~Answers(receipt, presented), "receipt mismatch")
-----------------------------------------------------------------------------
\* A bundle: [checkout, checkoutMandate, checkoutReceipt, paymentMandate,
\* paymentReceipt], each a sequence of at most one artefact.
IncompleteError(bundle) ==
    Refuse(\E part \in DOMAIN bundle : bundle[part] = <<>>, "incomplete")

Steps == <<"checkout_authorised", "checkout_answered", "payment_authorised",
           "one_purchase", "payment_answered">>

\* The links are tried in order and the first that breaks ends the report.
Report(errs) ==
    LET broke == {i \in 1..Len(Steps) : errs[i] # ""}
        first == CHOOSE i \in broke : \A j \in broke : i <= j
    IN  IF broke = {} THEN [held |-> Steps, broke |-> "none", error |-> ""]
        ELSE [held |-> SubSeq(Steps, 1, first - 1), broke |-> Steps[first],
              error |-> errs[first]]

Unusable(error) == [held |-> <<>>, broke |-> "none", error |-> error]

Holds(report) == report.error = ""

\* Slip: the two mandates are compared and the offer is not.
SamePurchaseUnopened(checkout, payment, offer) ==
    LET same == SameError(checkout, payment)
    IN  IF same = "binding unverifiable" THEN CoversError(checkout, offer) ELSE same

\* VerifySamePurchase: digests under two algorithms are each compared with the
\* offer in hand.
SamePurchaseError(checkout, payment, offer) ==
    LET same == SameError(checkout, payment)
    IN  IF same \notin {"", "binding unverifiable"} THEN same
        ELSE (IF same = "" THEN "" ELSE CoversError(checkout, offer))
             ?? CoversError(payment, offer)

\* Dispute.Verify, of mandates the user signed closed.
Verify(bundle, at, rules, keys) ==
    LET c == bundle.checkoutMandate[1]
        p == bundle.paymentMandate[1]
        offer == bundle.checkout[1]
        binding(sd, hash) == [hash |-> hash, alg |-> HashAlg(sd)]
    IN  IF IncompleteError(bundle) # "" THEN Unusable("incomplete")
        ELSE Report(<<
            VerifyCheckoutError(c, offer, rules.checkout, at),
            ReceiptError(bundle.checkoutReceipt[1], c, keys.checkout, "checkout"),
            VerifyPaymentError(p, rules.payment, at),
            SamePurchaseError(binding(c, decodeCheckout(Payload(c)).hash),
                              binding(p, decodePayment(Payload(p)).hash), offer),
            ReceiptError(bundle.paymentReceipt[1], p, keys.payment, "payment")>>)

\* Dispute.VerifyChain, of mandates the agent closed: the arbiter is told what
\* was bought and remembers the two nonces.
VerifyChain(bundle, at, subject, nonces, rules, keys) ==
    LET c == bundle.checkoutMandate[1]
        p == bundle.paymentMandate[1]
        offer == bundle.checkout[1]
        then == [subject EXCEPT !["at"] = [kind |-> "time", n |-> at, unit |-> "none"]]
    IN  IF nonces.checkout = 0 \/ nonces.payment = 0 THEN Unusable("misconfigured")
        ELSE IF IncompleteError(bundle) # "" THEN Unusable("incomplete")
        ELSE Report(<<
            AuthoriseCheckoutChainError(c, then, offer, rules.checkout, nonces.checkout, at),
            ReceiptError(bundle.checkoutReceipt[1], c, keys.checkout, "checkout"),
            AuthorisePaymentChainError(p, rules.payment, nonces.payment, at),
            SamePurchaseError(BindingIn(c, decodeCheckout(Delegated(c)).hash),
                              BindingIn(p, decodePayment(Delegated(p)).hash), offer),
            ReceiptError(bundle.paymentReceipt[1], p, keys.payment, "payment")>>)
=============================================================================
