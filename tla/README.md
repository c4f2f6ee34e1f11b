# TLA+ models of the agentic-payments backend

This directory holds the formal models of the Go backend under `src/backend`:
the modules, the configurations TLC checks them with, and proofs TLAPS checks.
`PROJECT.json` maps every definition to the lines it models and lists the runs,
the hazards and the theorems.

    tlasany M.tla                          parse a module
    tlc -workers 2 -config X.cfg M.tla     model-check
    tlapm M.tla                            check proofs

## The system

An agent buys on a user's behalf. The user signs, at a *trusted surface*, a pair
of open mandates (checkout and payment) that say what may be bought. The *agent*
watches a *merchant*'s price and, when the price step moves, signs one delegation
per verifier over a challenge each of them issued. It asks the *credential
provider* for a payment credential, then presents the purchase to the merchant,
which presents the payment to the *merchant payment processor* inside the same
request. Every verifier answers with a signed receipt. The roles are separate
processes that talk HTTP; each keeps its state in memory.

| Component | State it keeps | Operations | Talks to | What is hard | What makes it correct |
|---|---|---|---|---|---|
| Lifecycle (`core/authz/lifecycle.go`) | none: a table | `Next` | - | - | a mandate leaves AwaitingReceipt only on a receipt |
| Tracker (`agent/tracker.go`) | two mandate states, the outstanding attempt | `Attempt` | runs a callback in the middle | a callback that never answers | the two mandates stay in step |
| Watch loop (`agent/watch.go`) | last step, pending attempt, refused steps, rows | `Run` | merchant (quotes), tracker, client | lost answers, failing mints, prices that move unseen, expiry | one attempt per step, nothing minted while one is outstanding, honest endings, it ends |
| Client (`agent/chain.go`, `agent/purchase.go`) | a delegation: nonces, credential, receipts, settled | `Delegate`, `Fund`, `Settle`, `Deliver`, `call` | all three verifiers | timeouts, re-delivery | a failed delivery is not a refusal; a refusal has a receipt |
| Idempotency store (`platform/store`) | records: fingerprint, result, expiry, done | `Claim`, `Complete`, `Release`, `Len` | - | concurrent requests, lapse, capacity, restart | exclusive execution, an answer kept and replayed to its own question only |
| Idempotency middleware (`platform/transport`) | per request: what the handler wrote | `Wrap` | the store, a handler | panics, 5xx, hijacks | the key is handed back on every way out |
| Challenger (`platform/crypto/challenge.go`) | a key per process | `Issue`, `Check` | - | restart, window | a challenge is honoured by its issuer within the window |
| Merchant (`roles/merchant`) | catalogue, schedules | quote, search, `settle` | processor (nested call) | the nested call fails after the merchant agreed | an unanswered settlement is never a decline |
| Processor (`roles/mpp`), credential provider (`roles/credprovider`) | none but middleware and challenger | `settle`, `fund` | - | repeats, restarts | an attempt is settled once |
| Price schedule (`roles/merchant/inventory.go`) | boundaries fixed at start | `at`, `Floor` | - | boundaries, wrap, before the start | one step in force at every instant, none too short for a watch to see |
| Catalogue (`roles/merchant/catalogue.go`, `search.go`) | offers, fixed at start | `Quote`, `Search`, `Subject` | schedules, constraints | prices that move between search and quote | an offer is found exactly when its terms satisfy the query now |
| Emitter (`platform/obs`) | ring, counters, a goroutine | `Emit`, `drain`, `Close` | collector | overflow, close racing emit | nothing blocks a purchase; counters add up |
| Collector (`collector`) | history ring, subscribers | `Publish`, `Subscribe`, stream | browsers | lagging subscribers, reconnection, restart | history and live stream join without a gap |
| Console (`agent/console`) | runs, reserved places, readings | start, interpret, candidates, propose | agent, watch loop | failing starts, two structures for one cache | places are given back, a reading is held as long as promised |
| Agent proposals (`agent/authorise.go`, `rank.go`) | none but a cache of shelves | `Propose*`, `Authorise` | merchant's search, surface | what a sentence leaves unsaid | what is signed is implied by what was said, nothing allowed is hidden |
| Keys (`platform/crypto/store.go`) | keys per slot, their windows | `Generate`, `Rotate`, `Sign`, `Resolve` | - | rotation while in use | a retired key verifies but does not sign |
| Surface (`roles/surface`) | a signing key | `authorise`, `approve` | - | half a pair | a pair or nothing, of what was shown |
| Constraints, rules (`core/authz`) | none: pure | `Parse`, `Evaluate`, `Narrowing`, `Authorise*` | - | unstated fields, negation | a narrowed constraint is never stricter |
| Mandates (`adapters/ap2`, `pkg/sdjwt`) | none: pure | issue, delegate, disclose, verify | blinders, keys | chains of tokens, two digest algorithms, minimal disclosure | a document is good for one purchase and one verifier |
| Evidence (`core/evidence`, `adapters/ap2/dispute.go`) | none: pure | `Verify` | stored documents | links between documents hashed differently | an arbiter finds what the verifiers found |

## What is modelled

**`MandateLifecycle`** is `lifecycle.go`: the three permitted cells of the table.
A refused event leaves the state as it was.

**`Tracker`** is `tracker.go`. `Tracker.Attempt` runs a callback between two state
changes, so it is two steps: `BeginAttempt` (everything before `run()`) and
`FinishAttempt` (everything after). Attempts are numbered in the order they are
minted, which stands for the fingerprint `Delegated.ID`.

**`Watch`** is `Watch.Run`, one action per way through an iteration. `pc` is where
the loop is: `starting` (the baseline quote), `looping` (at the select), `minting`
(inside `Delegate`), `delivering` (inside `Tracker.Attempt`), `ended`. The local
variables `last`, `pending`, `refused`, `opening`, `instruction` keep their names;
`attempts` is the step of each row of `Watched.Attempts`; `ending` is the error
returned. A failed poll, and a poll that shows the step already acted on, change
nothing and are stuttering. Between two passes the market moves: `PriceMoves` any
number of times, `AuthorisationRunsOut` once. What `Delegate` and a delivery come
back with is free here. `cyclic` is whether the merchant's schedule wraps.

**`DelegatedPurchase`** composes the loop with the three verifiers and the calls
between them. `Watch`'s steps that touch no counterparty are taken as they are;
minting issues three challenges; a delivery is `Fund`/`Settle` by the client, and
`Bought`, `Unanswered` or `Refused` only as `verdictOf` reads the answer that came
back. All copies of an attempt's request to one server share a body, hence an
idempotency key, so `record[server][attempt]` is the middleware's record. `req` says
where each copy is: on the wire, in the handler, in the merchant's handler waiting
for the processor, or on its way back. `Reply` and the middleware's `Complete` are
one step: nothing distinguishes the two orders except a crash between them, and a
lost answer followed by a restart covers that. `charges` counts settlements. Every run
of a handler weighs the user's limits as of its own clock (`Weighs`), as the code does:
a request that is handled again may be given another verdict, where the limits name a
time that has passed in between (the fault `hours`). `weighed` is what a server first
made of an attempt, and `outrun` is history: the attempts on which some server came to
another verdict later.

**`SingleUseAuthorisation`** is what all of this promises: at most one purchase is
paid under an authorisation, while its attempt is unanswered, and none after. Of a
purchase whose standing with the limits changes under way (`Overtake`) it promises only
that it is paid once, and before the authorisation has run out.

**`IdempotencyStore`** is the store under the middleware: `ClaimHeld`,
`ClaimRefused`, `ClaimTaken` are the three ways out of `Claim`; `Complete` and
`Forgo` are the handler returning with and without something to remember;
`Release` is the deferred release. Time is relative (what is left of a record's
window). `claimant` and the `by` of a result are not in the code: they let the
properties say whose answer a record holds.

**`Emitter`**, **`Hub`** and **`EventFeed`** are the event log. In `Emitter` a call of
`Emit` is two steps, the section under the mutex and the ringing of the doorbell, since
the code lets go of the mutex in between; the sender goroutine's select, its drain, and
its call of the sink are steps of their own. `Close` may return, or run out of its
grace and take the process with it. `Hub` is one action per operation, since each holds
the hub's mutex throughout. `EventFeed` joins them: `PostArrives`/`PostFails` are the
sink's request, `IngestOne`/`IngestAnswers` the ingest handler, which publishes a batch
event by event and may go on after the sink gave up on it; `Connect`, `WriteReplay`,
`WriteLive`, `StreamEnds` the stream handler; `StreamBreaks`, `Reconnect`, `ClosePage`
and `Deliver` the page's client in `frontend/src/sse/stream.ts`. `CollectorStops` and
`CollectorRestarts` end a collector. `shown`, `view`, `reported` and `published` are
history. **`OrderedFeed`** is what a page may rely on: an ordered part, with no repeats,
of what the present collector published, each event at most once.

**`Constraint`** is the language of limits: `ParseError` the refusals of `Parse` in
their order, `Satisfied` the evaluation, `Narrowing` what of a limit can be asked of a
catalogue. **`Refusals`** is how the modules that check many things say which refusal
comes first: `Refuse(when, error)` is one early return, and `a ?? b` is *a, or else b*.

**`SDJWT`** is `pkg/sdjwt` over symbolic hashes and signatures: a token is a record of
what it was made from, a digest is the pair of an algorithm and what it is of. What the
library does with them is in full: blinding, presenting, the walk over disclosures with
everything it refuses, delegation, and the verification of a chain. **`Mandates`** is the
adapter that issues, delegates, minimises and verifies the two kinds of mandate over it,
and the rules of `core/authz/mandate.go`. **`Evidence`** is what is kept of a purchase
and the two arbiters. An operator `...Error` is a verification: the first refusal, or
the empty string.

**`KeyStore`** is one slot of the key store of one process. A call of `Sign` is two steps, because
it checks the key's state under the read lock and signs after letting it go.
**`Surface`** is the trusted surface over it: `Take`, `SignsFirst` and `SignsSecond` are
the way of one decision through its two signatures, each of which may be refused.
**`Authority`** composes them with the agent and the three verifiers: what the user
approves, delegates and disputes, with every document in full. It has no lost or
repeated calls (those are `DelegatedPurchase`'s), but time passes between any two
steps, so that offers, mandates, credentials and keys lapse under way. Its state is what
was signed and when; the documents are operators of it. `EachForOne` and `DisputeAgrees`
quantify over every presentation one purchase's documents can be put to, for another
purchase's challenges, offers and credentials, and not over the ones the roles make.

**`Schedule`** and **`Catalogue`** are what a merchant sells, **`Proposals`** what the
agent makes of a sentence or a stated limit, and **`Console`** the console itself, over
any agent: what the agent proposes is a parameter of it, `AgentProposes`. **`PricedConsole`**
is the console and what its clock shows of the offers' prices, and **`AgentConsole`** the
console with the agent of `Proposals` behind it. A request of a page is a slot; a step of
it is what lies between two locks or two round trips: `Start`, `Authorise`, `newID`, `register` for a watch, `interpret` and `remember`
for a sentence, `candidatesOf`, `recall` and `propose` for a proposal. `interpret` and
`candidatesOf` are where the clock is read, and `remember` and `recall` where the lock is taken,
so two requests may take it in the other order. A reading's random identifier is its
position among all ever kept, and a request may ask for any of these, held or not.

Definitions introduced by a comment that begins with *Slip* are plausible mistakes.
No specification uses one; each is there so that the property named against it in
`PROJECT.json` can be seen to fail when the mistake is made.

## What is checked

| Run | Question | Bounds | Result |
|---|---|---|---|
| `watch` | does the loop keep the rule, attempt a price once, say why it ended, and end? | 4 prices, one-shot and cyclic, both kinds of sentence | holds |
| `prompt_purchase` | does the purchase implement a single-use authorisation? | 2 prices (2 attempts), 2 copies of a request, loss of any message, processor restarts, limits whose times pass | holds |
| `faulty_purchase` | is an attempt settled at most once whatever happens? | 1 attempt, 2 copies, every fault | holds |
| `live_purchase` | is an attempt resolved? | 1 attempt, 1 copy, every fault | holds |
| `idempotency` | does the store run handlers exclusively and keep answers? | 2 keys, 2 questions, 3 requests, room for 1 record, window of 2 ticks, handlers of at most 1 | holds |
| `events` | are events accounted for from `Emit` to the page, and does the page know what it missed? | 1 emitter of 3 calls, ring and batches of 2, 1 page, a history and a queue of 1 record, 1 broken stream or ended collector | holds |
| `authority` | do the verifiers accept exactly what the user allowed, for one purchase each, and does the arbiter agree? | 2 purchases in both modes, instants 0 to 2, keys of term 2 with an overlap of 1, offers of 2, closed mandates and credentials of 1 | holds |
| `console` | are places and readings accounted for, proposals honest and prices visible? | 2 requests at a time, 2 places, room for 2 readings of 3 for 2 ticks, instants 0 to 2, 3 offers | holds |
| `unreceipted_rejection` | does every rejection leave a receipt? | 1 attempt, loss and client timeouts | **violated** |
| `double_charge` | is one authorisation settled once? | 2 attempts, loss and limits whose times pass | **violated** |
| `out_of_reach` | does `ErrLimitOutOfReach` mean every price was tried? | 3 prices | **violated** |
| `idempotency_overrun` | does `Complete` refuse a claim that lapsed? | window 1, handlers up to 2 ticks | **violated** |

*Bounds.* A price step is attempted at most once (proved, `NoStepAttemptedTwice`), so
`NumSteps` bounds the attempts of a run and nothing is cut off: two attempts are
enough for one to be settled and the next to be settled wrongly. Two copies of a
request are the one being waited for and one left behind; with one left behind in
a handler, a third can only meet the same record. Four prices let a cyclic schedule
skip some and come back. Three requests on two keys with room for one record make the
store refuse, sweep and reuse a key while two others race for it. In `events` three events
in a ring of two make it evict, batches of two leave one behind, and a queue and a
history of one make a page lag and come back to a hole; one fault is enough to end a
stream or a collector in every state, and a collector that stops may start again without
spending another. In `authority` two purchases are what it takes to present one's
documents for the other, and with an overlap shorter than the term and terms shorter
than the run every window closes between some two steps. In `console` a third reading
evicts, and a lifetime of two expires, and both requests can be between clock and lock
at once; the sentences are given in turn, so `Sentences` bounds the readings. Its prices
have widths of 1 and 2, fall once, go round, or stay, and are looked at up to `Horizon`,
past a whole lap. `Slots` are interchangeable, so the safety runs
use them as a symmetry set; the liveness run does not.

*Fairness.* `events`, `authority` and `console` state safety only and assume none. In
the others the ticker keeps firing and the handlers are scheduled (weak fairness of
the loop and of the servers). A call repeated for ever is not lost every time, nor
does every handling of it end in a crash (strong fairness of hearing an answer, of a
request reaching its handler and of the nonce refusal). Challenges lapse because time
passes. Nothing is assumed of verdicts: an attempt is resolved because its nonces
lapse, whatever the verifiers think of it.

*What the violations are.* `verdictOf` takes every 4xx for a rejection. Two of them
carry no receipt: the middleware's 409 for a key in flight, met by a re-delivery that
overtakes its own first copy after the client's 15-second timeout, and the 400 for a
nonce the verifier no longer honours, met after a restart (challenge keys are per
process) or after two minutes. Either returns the mandate to Ready without a receipt,
and if the first copy was settled meanwhile, a second attempt can be settled as well.
`double_charge` needs neither: the processor's answer to the merchant is lost, the
merchant answers 503 and hands its key back, and a limit's time passes before the
re-delivery. The merchant's handler runs from the top, weighs the limits at its clock
now (`roles/merchant/service.go:1316`) and refuses with its receipt before it asks the
processor, which has settled; the agent mints a second attempt, and that is settled too.
`prompt_purchase` is what remains: within one lifetime of the merchant and the provider
and one challenge window, with no call outliving its caller, every rejection has its
receipt, and two attempts are settled only if some verifier that ran twice on the earlier
one came to two verdicts (`ChargedOnceUnlessOutrun`). Without a limit that names a time
that does not happen. `out_of_reach`: the loop
takes the return of a refused step for a completed lap, but it may have missed steps
while polls failed or an attempt was being re-delivered. `idempotency_overrun`:
`Complete` has no notion of whose claim a key is. With the 24-hour window of the
running system a handler that long is not expected; the comment promises more.

A related behaviour no run refutes: an attempt settled with its answer lost, whose
re-delivery is refused because the authorisation has expired since, ends the watch
with `ErrAuthorisationExpired` or `ErrScheduleExhausted` although money moved.
`SingleUseAuthorisation!Reject` allows exactly this (`over`).

## What is proved

`DelegatedPurchase_proofs` begins with `Watch` alone, for a schedule of any length.
None is inductive alone: that a step is attempted once needs that everything attempted
was refused unless it is outstanding, which needs that nothing is minted while an
attempt is outstanding, which needs that the loop's `pending` and the tracker's
`outstanding` agree at every place the loop can be in. `WatchInv` is that conjunction:
the properties themselves, `DeliveryInv` (which attempt is in delivery or outstanding:
the newest) and `HistoryInv` (the attempts are the refused steps and the outstanding
one). One lemma per group of steps preserves it; the lifecycle's cells are lemmas of
their own. The only assumption is that the schedule has a price.

It goes on to show that every step of the composition is a step of
`Watch` or leaves its variables alone (`PurchaseIsAWatch`): all of the above holds of
the whole purchase. Then, for any schedule, any number of copies of a request and any
set of faults:

* `HandlerHoldsTheKey` is inductive given types: a key is claimed on the way into a
  handler and let go on the way out, and a restart takes both.
* `NoAttemptChargedTwice` (`ChargeInv`). The processor settles an attempt only in a
  handler, which holds the key; were the attempt charged already, and its nonce still
  honoured, the key would hold the settlement (`ChargeIsRemembered`) and not a claim.
  The record lapses only after the nonce, and a restart ends both. A nonce is honoured
  anew only for an attempt being minted, and `OnlyMinted` says that one has no charge.
* `AcceptancesAreSettlements` (`BoughtInv`): every `ok` of the merchant or the processor
  that is on its way back or on record stands for a charge (`OkMeansCharged`, which
  needs that a merchant that waits knows for whom, `CallsSomeone`), and the attempt the
  loop is told was bought is one of `Attempts`, because a step is attempted once.

`SingleUse_proofs` proves the two properties a purchase is for, and the refinement, under
the faults of the run `prompt_purchase`: calls are lost, the processor restarts, and
times that the limits name pass (`Prompt`; the run `unreceipted_rejection` is what happens
otherwise).
Everything rests on what a refusal means. `SoundNet` says what may be on the wire or on
record: a receiver is asked only after those before it agreed, says yes only if it
agreed, refuses only what is `Doomed` (disapproved of, or past the user's expiry), and
only the processor meets a nonce it does not honour or a key that is held, because the
agent has one call under way and does not give it up early (`OneCall`), and the nonces of the
other two last (`Honoured`). So an attempt the agent was refused is doomed and left its
receipt (`OverIsDoomed`: `RejectionsAreReceipted`), what is charged was approved by all
three (`ChargedIsApproved`), and as long as the authorisation stands only the newest attempt
can be charged. When the next attempt is minted the clock may have run out meanwhile, so
`OverIsDoomed` says separately that by then all earlier ones were disapproved of. An attempt
in `outrun` counts as agreed to and as disapproved of by everyone (`Agreed`, `Disapproved`),
so the invariant claims nothing of it but that its refusals have receipts. A server that
agreed to an attempt and one that refused it are therefore two servers, unless the attempt
was outrun (`ApprovedOrOutrun`), which gives `OneSettlementPerAuthorisation`
(`ChargedOnceUnlessOutrun`); and as only the fault `hours` outruns an attempt,
`OneSettlementWithoutHours` has `AuthorisationChargedOnce` without it.
`PurchaseImplementsSingleUse` maps each step: minting presents, the processor's first
settlement pays, a verdict accepts or rejects, what outruns an attempt overtakes it, and
the rest stutters.

`IdempotencyStore_proofs` proves the safety properties of the store. `WithinLimit` needs
types only. The others rest on `StoreInv`: until it has released, a request is the
claimant of its record, and what is left of the record's window and what the request has
run add up to at least the window (`OwnInv`). With handlers that end within the window,
which is a hypothesis of those theorems (`MaxRun < Window`), the record is therefore
live, nobody else can claim the key, and nobody else's result can be recorded in it. The
run `idempotency_overrun` is the same system without the hypothesis. `AnswersLast` needs
no hypothesis: no step overwrites a live, complete record.

`Authority_proofs` proves the safety properties of the user's authority, with the documents
in full, for any instructions in the language of limits, any items, prices, modes, terms and
clocks, any number of purchases, and whichever digest algorithms. It assumes of the
constants what `SurfaceAssumption` and `AuthorityAssumption` say: that instructions are
sequences of expressions, that digest algorithms are the library's, that purchases are
numbered from 1 (a challenge is never 0), and that the one key an agent names that can be
used is its own. It has four layers:

* the store by itself (`KeySpec`): `SignaturesOutlive`. `KeyInv` says what a key's end can
  be (its term, or the overlap after its retirement if that is sooner) and that a check
  passed is a check passed no later than the retirement; the property is arithmetic on the
  two. A call of `Sign` may begin at any moment and meet any number of rotations;
* the documents: what each operator of `SDJWT`, `Mandates` and `Evidence` makes of what
  the roles give it. What a blinded list becomes when some of its elements are shown
  (`ProcessedList`, `InOrder`, by what the walk reaches, `WithinIs`), what a token of the
  surface's says when it is shown in part (`ShownPayload`, `ShownDecoded`), what the agent's
  minimising keeps (`Minimised`: the limits its audience can weigh, in their order), what a
  delegation is and what of it is checked (`DelegationIs`, `DelegationChecked`). A chain of
  refusals passes when each link does (`ChecksPass`), so every verification is read as a
  conjunction;
* the steps: `AuthorityInv` is inductive (`DecisionsKept`). A desk that is signing holds
  what was agreed to, its first signature was made no later than now and its key was checked
  for the second (`DeskInv`); the open pair is made of the limits of one decision at one
  instant, under one key (`OpenInv`); a purchase's instants and answers are those of its
  stage (`StageInv`); and what was accepted passed the merchant's checks at the instant that
  is on record, what was settled the processor's at some instant since (`BuyInv`). None of
  the properties is inductive: the documents are computed from the state, so that a
  document does not change under a later step is part of the argument (`SameDocuments`);
* the properties, each of them a consequence of the invariant.
  `PairsAreOneDecision`: at every instant both mandates verify or neither does, both name
  the agent's key and the limits that were shown (`OpenVerified`, `OneDecision`).
  `InstructionsAreHonoured`: the merchant weighs all the limits and everything it knows
  (`CheckoutWhole`), at the instant it accepts. `PresentationsAreForOne`: a challenge names
  purchase and verifier, the delegation signed over it names both, and no two offers have
  one digest (`NoncesDiffer`, `OffersDiffer`). `ArbiterAgrees`: each of the five links of a
  case is a check some verifier made of the same document. The arbiter judges as of the
  merchant's acceptance a payment the processor accepted later, so what of a verdict depends
  on the instant is separated from what does not (`Rejudged`), and the merchant's verdict
  supplies the former; a case of two purchases breaks at the offer, whose digest
  is in the payment, by whichever algorithm. `WhatIsShownDecides` goes the other way: not what an
  acceptance implies but when a payment verifier accepts. Each of its checks of a chain is
  shown to pass (`PaymentChainInOrder`, `PaymentAuthorised`) but the one of how much was
  disclosed, and that one fails exactly when none of the limits the user set is on the
  amount and of nothing but what a payment states (`OpenPaymentChecked`, `WeighedIsDecided`).

`EventFeed_proofs` proves the emitter's properties of the whole event log, for any roles,
buffer, batch and limits. A step of `EventFeed` is a step of one role's emitter or of none
(`StepOfOneEmitter`), so `EmitterInv` is types and, for each role, four parts: where the
sender is decides whether it holds a batch (`BatchInv`), its last drain comes after
`closed` was set (`LastInv`), what was accepted is what is held, evicted, failed and
delivered (`Accounted`), and a sender that waits with events in its ring has a
wake-up on its way (`WakesUp`). `CloseFlushes` is the first two together: a ring that was empty at
the end of a drain which began after `closed` stays empty.

It also proves the rest of the event log over it: what the hub holds and what its
pages are shown, for any roles, pages, sizes and number of broken streams and restarts.

* `FeedInv`. The history is the last records of the log (`HubInv`); what is pending for a
  page, replay and queue together, are records that follow each other up to a number which
  is the last published one while the hub serves the page, and none of them was shown
  (`PageInv`); the client's `lastSeq` is the last number it showed, and what it skipped it
  reported (`ShownInv`). `StreamsAreContiguous` and `NoSilentHoles` follow. The hard step
  is `Subscribe`: that what `Replay` selects from the history is a suffix of it.
* `OnceInv`. An event is held in one place only: an emitter's events reach the collector in
  the order of its calls, so what it has not sent is later than everything posted
  (`QueueInv`, `PostedInv`), and a handler that outlived its sink's patience shares no
  event with another or with the log (`HandlersInv`). So no event is published twice.
* `PagesFollowOneFeed` maps each step to one of `OrderedFeed`: what `IngestOne` publishes
  is published, what `Deliver` shows is shown, a collector's end starts the feed over,
  and the rest stutters. It needs all of the above.

`Console_proofs` proves three properties of the console over any agent and any schedules.

* `NoPlaceIsLost` (`PlacesInv`): what is pending is the number of starts between their
  reservation and their end, and with the runs they are within the limit.
* `MapAndOrderAgree` (`ReadingsInv`): the order lists the keys of the map, each once and in
  the order they were made. The order of making is not the order of the clock, because a
  request reads the clock before it takes the lock; so a reading may sit behind a younger
  one and outlive its age for a while. What is dropped is therefore only ever said to be
  too old now, or followed by as many as the cache may hold (`Spent`), and what a request
  gets to see is what was young enough at its own reading of the clock (`Asked`).
* `EveryPriceIsSeen` is about the schedule alone: boundaries rise by at least the shortest
  hold, so between two instants no further apart lies at most one of them; reduced to a lap,
  the later instant is in the same lap or over the wrap into the next, where the last
  boundary is the end of the lap; and the instant at which the lowest price begins lies
  less than a lap after any other. Stating that last part for all schedules showed that
  it is not true of one that starts more than a lap ahead, and `NoPriceSkipped` says so now.

`Constraint_proofs` proves what the language of limits says, and `AgentConsole_proofs` what
the agent promises its user, for any offers, prices,
sentences, baskets and limits of the language. `ProposalsAreHonest` has one hypothesis,
`AgentIsBehind`: that the two parameters by which `Console` leaves its agent open are the
agent of `Proposals`, which is how the run `console` sets them. The argument goes through
every layer a sentence does:

* the language: what is computed of an expression (`Satisfied`, `Fields`, `narrowing`) is
  what its definition says, level by level (`SatisfiedIs`, `FieldsAre`, `NarrowingIs`),
  and whether it holds depends on the fields it names and no others (`WeighedByItsFields`);
* `NothingMoreIsAsked`: every clause of a narrowing is implied by what it narrows, and is
  about the item and its seller only. The induction has to carry the clauses together with
  their conjunction (`SaysAtMost`), since a branch of alternatives is asked as a whole;
* the catalogue: a search answers every offer that satisfies its query and whatever its
  price is, because the query does not look at the price (`SearchAnswers`, `QueryFinds`);
  so an offer the limits allow now or later is found now;
* the agent: ranking loses none of them (`RankedHasAll`, of an order that is total,
  `ArrangedHasAll`), and the limits narrowed to the item chosen allow what the limits did,
  of that item (`NarrowedTo`); a limit the user states allows a basket exactly at prices up
  to it, and nothing else (`StatedAllows`), which is what `immediate` is decided by;
* the console: `HonestInv` says of the readings it remembers that they are readings, and of
  each request what its proposal was made from. That a reading outlives the one it was
  recalled for, or is dropped, needs nothing of the cache but `ReadingsInv`.

Recursion is over numbers (`Replay`, `forgetExpired`, `Boundaries`) or over the levels of an
expression (`Trees`, which `MaxDepth` bounds) in these modules and is a recursive function,
so what they compute is proved: a recursive function that goes
wrong goes wrong at a least number (`LeastNatural`), and before it it does not. The
same argument gives the existence of the function from its definition (`LoopRuns`,
`WeighingEnds`, `NamingEnds`, `SayingEnds`). `ParseError` is such a function too, but nothing
proved needs what it computes.

What is model-checked only:

* liveness under fairness (`WatchEnds`, `AttemptResolves`, `KeyIsHandedBack`), which is out of
  the prover's reach;
* the four properties expected to fail; three of them are proved under hypotheses that
  exclude it (`OneSettlementWithoutHours`, `RejectionsAreReceipted`, `ClaimantsRecord`).

Every invariant of a run that passes is stated by a theorem.

## Modelling decisions

* A verifier weighs an attempt's documents on every run of its handler, as of its own
  clock. Without the fault `hours` a second run comes to the verdict of the first: apart
  from the time, the verdict is a function of the documents and of what the process was
  configured with, and nothing else in them that lapses does so within the two minutes of
  a nonce. With it, a run is free to come to either verdict, as limits may name a time
  before or after which they hold, and combine several. `Constraint` and `Authority` say
  what limits are; there the instant is a number, and the verdict computed from it.
  Past the authorisation's expiry every verifier refuses, whatever the limits say.
* `verdictOf`'s last arm, a 2xx that did not settle, is left out: no receiver sends one.
* The nonce is checked before any verdict, and its refusal has no receipt. The other
  400s of the handlers (an offer that expired, a chain that does not parse) come at the
  same place with the same effect and are not told apart from it.
* A record lapses (24 hours after its claim) only once the nonce is dead (2 minutes
  after it was issued, which is before the claim).
* A merchant whose caller hung up loses its request context, so its call to the
  processor may fail at any time; so may any call for any other reason.
* Closed mandates live 15 minutes and credentials 10: both outlast the nonce, whose
  refusal comes first.
* Hashes and signatures are symbolic: two are equal exactly when they are of the same
  thing, by the same algorithm or key. Salts are names of the disclosure. Texts are
  numbered words; a word has whether it is plain where the code asks.
* The walks over a token (`Within`, `process`) go three levels down: as deep as a token of
  the roles nests, with what is disclosed in it. The library has no such limit. The walk is
  not the identity below it: `processLeaf` has no value there, so TLC would stop if a
  token nested deeper, and the proofs show of the tokens of `Authority` that none does.
* Every purchase of `Authority` has an offer of its own. Two pairs of mandates over one
  and the same offer pair across each other (`adapters/ap2/dispute.go`, on `Dispute`), and
  `DisputeAgrees` says nothing of them.
* `OrderedFeed` starts over when a collector ends, and licenses anything of that moment.
  A page that resumes at a restarted collector with the number it had got to at the old
  one is not replayed the new history up to it; it is sent the live records. It cannot
  tell the one from the other, and no property is about it.
* The commands give the surface and the agent a SHA-256 blinder both. `authority` gives
  the surface SHA-512, so that the code for two algorithms is reached.
* The key store has one slot, since every process mints under its own role. `Rotate` is
  modelled though no command calls it yet, and so are the arbiters.
* The challenges of `Authority` are honoured until `ChallengeLapsed`, which stands for
  restarts and windows together; `DelegatedPurchase` tells them apart.
* A reading is what `Validate` lets through; how a sentence comes to be one is free.
  The idempotency middleware stands in front of the console's start and is not repeated
  in `Console`: a start that is repeated there is another start.
* Amounts are small integers; the refusal of a basket whose price overflows is left out,
  and so are the bounds on the size of a request.
* The idempotency store's limit (10,000 records) is modelled in `IdempotencyStore`,
  not in `DelegatedPurchase`: there a full store is one more 503 (`CannotAnswer`).

## What is not modelled

* Cryptography and encodings (JWS, JWK, base64, canonical JSON, the serialised form of a
  token): symbolic in the models, and what a model could say of them is that they work.
* The Human Present client (`agent/purchase.go`: `Buy`), which keeps no authorisation
  between purchases; the verifiers' and the surface's side of that mode is in
  `Authority`.
* Quotes of a route, the loading of the catalogue file, and the live marks laid over the
  prices a page is shown: data validation and display.
* The rows of a run and the console's views over them, the agent's cache of shelves: display.
* How a language model or the scripted table reads a sentence: text.
* The holder's key binding over a single token and the JOSE adapters, which no role asks for.
* Process supervision, wiring and HTTP serving, the front end but for its event stream,
  generated code, contracts and tools, and the registry and proxy, which are placeholders.

## What is left

Every module that was planned is written, and every safety property, action property and
refinement that a passing run checks is proved. What more could be said:

1. Liveness beyond the bounds of the runs, by means other than this prover.
2. What a recursive definition computes for every input, where it recurs over data and not
   over numbers. Expressions are levels of `Trees` because `Parse` itself refuses what is
   deeper than `MaxDepth`; the walk of `SDJWT` could be of any depth with an induction over data.
3. The Human Present client and the catalogue's loading, if either comes to keep state
   between requests.
