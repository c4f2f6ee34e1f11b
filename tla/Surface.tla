------------------------------- MODULE Surface -------------------------------
(***************************************************************************)
(* The trusted surface (roles/surface/service.go): the one process that    *)
(* holds the user's key.  It vets what it is asked to sign, and signs two  *)
(* mandates for one decision, one after the other: an open pair for a      *)
(* purchase to be made later (authorise), a closed pair for one the user   *)
(* approves now (approve).  A pair is answered whole or not at all.        *)
(*                                                                         *)
(* The human sees limits as the surface words them, and agrees to a digest *)
(* of them; the client then asks for the signatures.  Requests that the    *)
(* surface refuses change nothing and are not steps.  The bounds on the    *)
(* size of what is signed are left out with the size of everything.        *)
(***************************************************************************)
EXTENDS KeyStore, Mandates

CONSTANTS
    Instructions,   \* limits a human may be shown, and a client may ask to be signed
    Agents,         \* keys a request may name
    OpenLife,       \* openMandateLifetime
    ClosedLife,     \* mandateLifetime
    SurfaceAlg      \* digest algorithm of the surface's blinder

ASSUME SurfaceAssumption ==
    /\ Instructions \subseteq Seq(Expression)
    /\ {OpenLife, ClosedLife} \subseteq Nat \ {0}
    /\ SurfaceAlg \in HashAlgs

VARIABLES
    desk,       \* the request the surface is signing for
    approved,   \* history: the limits the human agreed to
    open        \* the open pair answered, <<>> before

surfaceVars == <<desk, approved, open>>

UserKey == [id |-> 1, alg |-> "ES256"]
instrument == <<"instrument", "card">>

Idle == [stage |-> "idle"]

\* digestOf, of limits as they were worded; the empty digest names none.
digestOf(cs) == Hash("sha-256", <<"limits", cs>>)
NoDigest == <<"">>
-----------------------------------------------------------------------------
\* The pair one decision makes, but for its signatures: both mandates are
\* stamped when the request is read.
openCheckoutOf(cs, agent) ==
    [vct |-> openCheckout, agentKey |-> agent, constraints |-> cs,
     payee |-> <<>>, amount |-> <<>>, instrument |-> <<>>, date |-> <<>>,
     issuedAt |-> now, expiresAt |-> now + OpenLife]

openPaymentOf(cs, agent) ==
    [openCheckoutOf(cs, agent) EXCEPT !.vct = openPayment, !.instrument = <<instrument>>]

openJob(cs, agent) ==
    [kind |-> "open", checkout |-> openCheckoutOf(cs, agent), payment |-> openPaymentOf(cs, agent)]

\* The documents of an open pair, which the state keeps as what was signed.
OpenCheckout(pair) == IssueOpen(UserKey, pair.checkout, SurfaceAlg, <<"open", 1>>)
OpenPayment(pair) == IssueOpen(UserKey, pair.payment, SurfaceAlg, <<"open", 2>>)

\* Slip: the digest of what was shown is not compared.
vettedUncompared(cs, digest) ==
    Refuse(cs = <<>>, "request malformed")
    ?? FirstOf([i \in DOMAIN cs |-> ParseError(cs[i])])

\* vetted: limits that say nothing, or that this surface cannot read, are not
\* signed; with a digest, neither are limits other than the ones it names.
vettedError(cs, digest) ==
    Refuse(cs = <<>>, "request malformed")
    ?? FirstOf([i \in DOMAIN cs |-> ParseError(cs[i])])
    ?? Refuse(digest \notin {NoDigest, digestOf(cs)}, "request malformed")
-----------------------------------------------------------------------------
SurfaceInit ==
    /\ desk = Idle
    /\ approved = <<>>
    /\ open = <<>>

\* A request reaches its first signature.
Take(job) ==
    /\ desk = Idle
    /\ SignChecks(FALSE)
    /\ desk' = [stage |-> "first", job |-> job]
    /\ UNCHANGED <<now, keys, signatures>>

\* The human is shown limits (preview), and the client asks for the mandates:
\* with the digest of what was shown, or without one, and then what the human
\* agreed to is what is asked for.
Authorise(shown, cs, digest, agent) ==
    /\ open = <<>>
    /\ digest \in {NoDigest, digestOf(shown)}
    /\ vettedError(cs, digest) = ""
    /\ IssueOpenError(openCheckoutOf(cs, agent), SurfaceAlg, <<>>) = ""
    /\ Take(openJob(cs, agent))
    /\ approved' = IF digest = NoDigest THEN cs ELSE shown
    /\ UNCHANGED open

\* The first mandate is signed; the key may have been retired, or have reached
\* its term, before the second.
SignsFirst ==
    /\ desk.stage = "first"
    /\ SignWrites
    /\ \E refused \in BOOLEAN :
          /\ SignChecks(refused)
          /\ desk' = IF refused THEN Idle ELSE [desk EXCEPT !.stage = "second"]
    /\ UNCHANGED <<now, keys, approved, open>>

\* Slip: the second mandate is stamped when its turn comes.
PairRestamped ==
    [desk.job EXCEPT !.payment.expiresAt = @ + (now - desk.job.payment.issuedAt),
                     !.payment.issuedAt = now]

\* What is answered is the pair of the request.
Pair == desk.job

\* And the second: the pair is the answer.
SignsSecond ==
    /\ desk.stage = "second"
    /\ SignWrites
    /\ checked' = NotSigning
    /\ desk' = Idle
    /\ open' = IF desk.job.kind = "open" THEN <<Pair>> ELSE open
    /\ UNCHANGED <<now, keys, approved>>
-----------------------------------------------------------------------------
\* An open pair is one decision: what is answered is two mandates, of the same
\* limits, which are the ones the human agreed to, the same agent and the same
\* window, however long lay between the two signatures, and the payment names
\* the one instrument.  (service.go: authorise, issueOpenPair)
PairIsOneDecision ==
    open # <<>> =>
        LET checkout == OpenCheckout(open[1])
            payment == OpenPayment(open[1])
            c == decodeOpen(Payload(checkout))
            p == decodeOpen(Payload(payment))
        IN  /\ c.constraints = approved
            /\ p = [c EXCEPT !.vct = openPayment, !.instrument = <<instrument>>]
            /\ \A t \in c.issuedAt[1]..MaxTime :
                  VerifyError(checkout, UserKey, t) = VerifyError(payment, UserKey, t)
=============================================================================
