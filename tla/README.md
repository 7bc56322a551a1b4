# Supply-Link: TLA+ models, checks and proofs

Supply-Link tracks products through a supply chain. A Soroban smart contract
(`src/smart-contract/contracts/src`) keeps products, custody and tracking
events on the Stellar ledger; a Next.js application (`src/frontend`) signs and
submits its calls, and runs background work (jobs, webhooks, an indexer,
alerts) over a Redis-like key-value store.

This directory holds TLA+ modules of the parts whose correctness lies in the
order of things, TLC configurations that check small instances, and TLAPS
proofs that hold for every value of the constants.

## 1. The system and its parts

### Smart contract

Every call is one transaction: it commits as a whole or not at all, and calls
are totally ordered. What is hard is not concurrency inside a call but long
sequences of calls by different signers over shared storage, with time passing.

| Part | State (`DataKey`) | Operations | What has to hold |
|---|---|---|---|
| Shared helpers, `lib.rs` | `ActorNonce`, `PendingEvents`, `NextPendingId`, `EventEntry`/`EventCount`, `EventHashSeen` | consume a nonce, validate a lifecycle step, compute a stable id, stage or store an event | a nonce is spent once and by its owner; pending ids are never reused; nothing is stored twice |
| Products, `products.rs` | `Product`, `ProductIndex`/`ProductCount`, `Events` | register, register batch, recall, unrecall, deactivate, reactivate, mark spoiled | an id belongs to one product; a flag blocks what its doc says |
| Authorization, `authorization.rs` | `Product.owner`, `Product.authorized_actors`, `TransferEscrow`, `ContractPaused` | transfer, escrow request / accept / cancel / dispute, add / remove / rotate actors, rotate owner, pause | custody moves only as its holder decided; multi-signature products stay operable |
| Events and approval, `events.rs` | as above, `ProvenanceRoot` | add, batch add, add private, approve | an event is final only after its quorum of distinct signers, before its deadline |
| Event audit, `event_audit.rs` | `ArchivedEvents`, snapshots | purge expired events, archive, snapshot, queries | archiving loses and doubles nothing |
| Certifications, auditors, batches, documents, compliance, anomalies, provenance | a list of records per product, issuer or batch | issue, revoke, attest, recall a batch, anchor, report, notarize | revocation is final; a batch recall reaches its members |
| Upgrade, assembly warranty | | | not compiled in: `lib.rs` declares no such module |

The parts interact through storage only: `Product` is read by every handler and
written by products and authorization handlers (and by `recall_batch`); events
reach two stores, the keyed `EventEntry` store when recorded directly and the
older `Events` list when approved or when a product is marked spoiled.

### Application services

State is in a Redis-like store (one atomic operation per access, each one
awaited), in collections of the server's process, or in the browser.

| Part | State | Operations | What is hard, and what has to hold |
|---|---|---|---|
| Job queue, `lib/jobs` | `jobs:<id>`, `queue:pending`, `queue:dlq` | `enqueue`, `processNextJob` | every `await` is a point of interleaving and of a crash; retries are new jobs, attempts must stay bounded, every job must settle |
| Indexer, `lib/indexer` | cursor, events, list of keys per product | `runIndexerTick`, `indexEvent` | ticks overlap and die between two writes, and the key of an event holds its position in a page; no event may be missed behind the cursor |
| Webhooks, `lib/webhooks` and routes | webhooks, subscriptions, attempts, pending and dead-letter lists, claims | tick, broadcast, retry, register, patch, subscribe, delete | check-then-set claims, lists rewritten as a whole, records written back after they were read |
| API route, `lib/api` | windows and reputations, keys and their usage, cached answers, sequence numbers | `defineRoute` with the limiter, authentication and idempotency around a handler | sliding windows, revocation against writes in flight, expiry against overlapping requests |
| Resilience, `lib/resilience.ts`, second breaker in `rateLimit.ts` | state, failures, times | calls with retry and timeout | outcomes that arrive in a state other calls led to |
| Product, auditor and batch routes over `lib/data` | records | create, warranty, claim, assembly, recall, batch recall | read, await, write; a batch recall killed half way |
| Recall, alerts, insurance | collections in process memory; panels with copies | advance, broadcast, acknowledge, resolve, claim, decide, certify | orders of calls, aged copies, answers out of order |
| Certification registry API, ratings | lists in the store, nonces, marks | register, issue, revoke; post a rating | whole lists written back, replay around expiry, failures between three writes |
| Stellar client | attempts of a call; the node's mempool, the ledger | build, simulate, sign, send under `withContractWriteRetry` | an attempt that timed out goes on while the next begins |
| Offline queue, warranty panel, transfer form | `localStorage`, component state | queue and synchronise; file and decide claims; preflight and confirm | tabs that share a list, writes that run on after a timeout, answers that do not say what became of the transaction, answers to an older question |
| Scoring, search, fraud, reports, remaining UI | none, or presentation | pure functions | |

`PROJECT.json` lists every part with what is modelled of it, and under
`hazards` each hard spot of the code with the properties that cover it.

## 2. Modules

| Module | Models | Notes |
|---|---|---|
| `ContractStorage` | `storage.rs`, `types.rs`, helpers of `lib.rs` | constants, variables, records, `ConsumeNonce`, `LifecycleAllows`, `StableId`, `RecordEvents` |
| `Products`, `Authorization`, `Events` | `products.rs`, `authorization.rs`, `events.rs` and `event_audit.rs` | one action per handler; `Tick` is the ledger clock |
| `SupplyLinkContract` | the contract | `Init`, `Next`, `Spec` over the four modules above; all contract properties |
| `ApprovalLedger` | what multi-signature approval promises | abstract specification, refined by the contract |
| `JobPromise` | what a queued job is promised | abstract specification, kept by the job queue for every fresh id |
| `JobQueue`, `Indexer`, composed in `Background` | `lib/jobs`, `lib/indexer` and the routes cron calls | a program counter per process, a step per access |
| `WebhookStore`, `WebhookDelivery`, `WebhookRegistry`, composed in `Webhooks` | `lib/webhooks` and its routes | ticks, deliveries and requests share the store |
| `RateLimit`, `ApiKeys`, `Idempotency`, `EventSequence`, composed in `ApiRoute` | `lib/api` with `handler.ts` | a request passes the limiter, then its key, then the cache |
| `CircuitBreaker` (both breakers), `RecallBroadcast`, `EmergencyAlerts`, `Insurance`, `ProductRecords`, side by side in `Services` | services with state of their own, their routes and panels | |
| `ContractWrites`, `OfflineQueue`, `WarrantyPanel`, `CertificationRegistry`, `Ratings`, `TransferForm`, side by side in `Flows` | the client's calls, forms and small protocols | |
| `SupplyLinkContractProofs`, `ApprovalProofs`, `EventStoreProofs`, `BackgroundProofs`, `WebhookProofs`, `ApiProofs`, `ServicesProofs`, `FlowsProofs` | | theorems |
| `MCContract`, `MCDuplicateIdRejected`, ... | | instances for TLC; `MCContract` serves the runs `contract`, `stores` and `approval`. `Background`, `JobQueue` and `ApiRoute` need none: their cfg gives every constant |

`Background`, `Services` and `Flows` put parts side by side whose state is
disjoint; a behaviour exercises one of them (`task`, `service`, `flow`) and the
others rest, since nothing one of them does can enable or disable a step of
another. In `Webhooks` and `ApiRoute` the parts do share state and all
interleave (the limiter is exercised further by itself, and sequence numbers
are a protocol of their own: `focus`).

Operators called faulty variants in the comments (`ConsumeNonceFrom`,
`PeekPending`, ...) are not used by any specification: each is a plausible bug,
put in place of the operator it stands before to see that a property notices.

### How the contract is modelled

* **A handler is an action.** Its guard is the conjunction of everything that
  lets the call commit; a panic or an `Err` rolls back, so a refused call is no
  step. `signer` records whose `require_auth` the last call passed (no address
  for calls without one); it is what ownership and nonce properties talk about.
* **Nonces** are supplied by the caller, so every value up to the bound is
  tried and `ConsumeNonce` accepts the stored one.
* **`authorized_actors`** is a list that may hold an address twice and the
  owner too (`add_authorized_actor` looks for neither). Handlers use membership
  and length only, so it is kept as a count per address.
* **`add_tracking_event`** replaces the caller by the owner before it checks
  authorization, so there is no caller parameter in `AddTrackingEvents`. The
  batch handler calls it in a loop inside one transaction: one action appends
  the whole batch, each event against the stage the previous one left. One
  timestamp and one actor serve the whole batch, and lifecycle types in it are
  distinct, so its stable ids cannot collide with each other.
* **Private events** are recorded with no check but that the caller is owner or
  actor. The literal in `events.rs:239-250` gives them no stable id.
* **`StableId`** is the tuple that is hashed: SHA-256 is taken to be injective.
  The metadata string is one fixed value, so it is not part of the tuple: two
  events that differ only in metadata are not told apart here.
* **`provenanceRoot`** is the sequence of events hashed into the root.
* **Time** moves between calls. `ExpirationWindow` is in ticks.
* **Pending events** form a set: ids are unique (proved) and no handler that is
  modelled looks at positions other than to find an id.

### How the job queue is modelled

Each `await` on the store is a step: the read, the write and the push of
`enqueue`; the pop, the read, and for each `updateJob` its read and its write.
`call` is the `enqueue` call a process is in, used by producers and, for a
retry, by workers; `worker` is the `processNextJob` call with the record it
loaded (`job`) and the one `updateJob` merges into (`copy`). `Die` ends a
request at any await: the process is killed, or the store throws where nobody
catches it. A store error inside the `try` is `HandlerThrows` in the phase
`complete`. An id is the caller's key followed by the attempt numbers that
`${id}-retry-${attempts}` appends. Payloads, timestamps and error texts are
left out. The retry delay of the code is only a text in `error`; the retry is
queued at once, as here.

### How the other services are modelled

* **An access is a step.** Where the code awaits the store, the node, the wallet
  or the server, the process stops between two steps, and others may run. Code
  that runs without an `await` is one step, as in the browser and in Node:
  `applyRateLimit`, a click handler up to its request, a whole request to a
  service whose collection is synchronous. Requests may be killed at an await
  wherever the platform may kill them (`Die`, `TickDies`, `Crash`,
  `KillRequest`, `RequestDies`, `CloseTab`).
* **Excuses are history, and narrow.** Much of this code is check-then-act
  without a lock. The properties of such parts say what holds although steps
  overlap, and name the cases that break it by a history variable set by the
  very step that does the damage (`dropped`, `forgotten`, `excused`,
  `crossed`, `overlapped`, ...), so that everything else is still required.
* **Indexer.** `chain` is what the RPC node serves: the ledger of each event, and
  in `source` its transaction. The key under which an event is kept is
  `EventKey`: its transaction, which fixes the ledger, and its position in the
  page, since what the node serves has no index of its own (`parseRawEvent`).
  Read in two pages, two events of one transaction can take one key, and
  `LookForEvent` skips the second as already saved. A tick is a job queued each
  minute; two drains may run two ticks.
* **Webhooks.** Lists are sets, since `addToList` never repeats a value and
  nothing depends on order. Outcomes of a delivery are success, a retryable
  failure (5xx, timeout, open breaker) and a permanent one. The attempts due
  are any subset of the pending ones, as `nextRetryAt` passes for each in its
  own time. Keys outlive the instance, but for the tick lock. A payload is an
  event and the tick that broadcasts it; product events and alerts occur once.
* **API.** The limiter's times are exact; a request to it is one step. A key's
  secret and hash are one thing. Usage windows and expiries end at any time.
* **Breakers.** Outcomes of calls in flight arrive in any order and any state.
  `tooEarly`, `streak` and `proofs` are history.
* **Product records.** A route reads a record, awaits, and writes; the update
  is computed from the record as it is at the write (`replaceProduct`), which
  is what `RecordsOnlyGrow` depends on. With the data source `contract`, reads
  may miss what is stored apart and writes may be rejected.
* **Contract writes.** One account. The node takes a transaction with the next
  sequence number that no other waiting one has; a taken one is applied or
  expires. An attempt that timed out runs on beside the next. Whatever the node
  answers, the client returns the hash.
* **Offline queue.** A dispatch is such a write, of up to `DispatchAttempts`
  attempts: one that fails or times out before it hands its transaction over may
  do so later (`late`, `LateHandOver`), beside the retry or after the error was
  reported. `sent` counts transactions handed to the node. A success says that
  one was, not what the node made of it: `Refused` are operations whose
  transactions it turns down.
* **Warranty panel.** One page, from what it is given (`Pages`: any warranty,
  any claims) through what it sends and is told. An answer says nothing of the
  chain, and `assembly_warranty.rs` is not compiled into the contract, so there
  is no chain to compare with: the module is about what the page shows of what
  it was told. The product page passes `isOwner={false}`; the owner's buttons
  are exercised by the component's tests, so both values are modelled.
* **Recall broadcasts.** A card keeps the log it was loaded or created with. An
  acknowledgement loads the notifications (and the statistics made from them)
  anew, not the cards, so a card may lag behind the notifications beside it.
* **Ratings.** Signatures are valid and the mark of a wallet (a year) outlives
  the instance; messages and keys of nonces expire. A request that stays between
  the check of the message and the look at its nonce for longer than the key
  outlives the message is late (`Late`); the code has no guard against it.
* **Insurance.** The panel's collection is another one than the routes'
  (`Site`). Amounts matter only against the provider's threshold. Scores of
  risk are exact hundredths, where the code adds binary fractions.

## 3. Runs

| Run | Instance | Checks |
|---|---|---|
| `contract` | whole contract, 2 addresses, 1 id registered up to twice | `TypeOK`, `OwnerChangeJustified`, `NonceMovesOnlyForItsSigner` |
| `stores` | everything that writes an event, 2 registrations, batches of 2 | `ApprovedEventsConserved`, `NoReplayedEntry`, `LifecycleRecordedOnce` |
| `approval` | 3 addresses, quorum 3, owners, actors and keys changing, time passing | `PendingQueueSound`, `PendingLeavesByApprovalOrExpiry`, `PendingChangesOnlyBySignedApproval`, `ImplementsApprovalLedger` |
| `background` | 2 requests, 2 workers, 3 attempts, one death; or 2 ticks, 4 events (3 once ticks overlap), pages of 3, one death | `OnePlace`, `KeepsJobPromise`, `SavedJobsSettle`, `NothingMissedBehindCursor`, `IndexedOnceUnlessTicksOverlap`, `EventuallyIndexed` |
| `webhooks` | 2 webhooks, 1 subscription, 2 ticks, 2 administrators, one crash | `NoAttemptForgotten`, `RetryFollowsFailure`, `RegisteredIsListed`, `EventReachesActiveWebhooks` |
| `api` | 2 requests with one key and one idempotency key; 6 requests to the limiter; 2 claims | `GrantsFitEveryWindow`, `BlockHolds`, `RevokedIsRefused`, `AnsweredIsNotRerun`, `NoSkippedNumber` |
| `services` | 3 calls per breaker, 2 broadcasts, 2 alerts, 1 policy per site, 3 product requests, all risk bands | `RestsAfterFailures`, `ClosesAfterProofs`, `BroadcastLogAgrees`, `PanelShowsTruth`, `AlertsMoveForward`, `CoveredMeansUnclaimed`, `BatchRecallComplete`, `RecordsOnlyGrow`, `PremiumFollowsRisk` |
| `flows` | 2 writes of 2 attempts, 2 tabs with 2 queued events, a page with 2 claims, 2 requests to the registry, 3 messages, 2 addresses | `NoncedAppliesOnce`, `QueuedIsKeptUntilHanded`, `ToldStaysShown`, `AnsweredRecordStands`, `EachRatingCountsOnce`, `ShieldMatchesAddress` |
| `duplicate_id`, `stale_escrow` | contract, shallow bounds | one statement of the source each, violated (section 5) |
| `job_idempotency` | job queue without deaths | one statement of `docs/ASYNC_JOBS.md`, violated |
| `synced` | offline queue, 2 tabs, an event the node refuses | what the banner says, `SuccessMeansSynced`, violated |

`stores` and `approval` restrict `Next` to the handlers that matter to their
question, which buys deeper bounds; `contract` has all of them. Between them
every action is taken. The largest runs (`services`, `flows`) have more than two
million distinct states each.

**Bounds and why they suffice.** Constants named `Max...` are guards of the
actions that grow what they bound, and nothing else looks at them.
- One product id in the contract: handlers touch one product (a batch
  registration several, by the same formula for each), and the only state
  products share is nonces and the pause flag. Two registrations of the id are
  allowed where re-registration is the hazard.
- Two addresses give an owner and another; three are used where a quorum of
  three has to be gathered while ownership and actors change.
- `MaxPending = 2` gives two pending events at once, one older than the other;
  a quorum of 3 gives an approval that does not finalize and one that does.
- `ExpirationWindow = 0` with `MaxTime = 1` reaches both sides of the deadline,
  and the deadline itself; the comparison is all that matters.
- `contract` gives each address one nonce. Sequences of several nonce calls by
  one address are in `stores` and `approval`, and the theorem has no bound.
- `background`: `MaxAttempts = 3` is the default of the code; two workers are
  enough for two processes to hold one id, two requests for the race of
  `enqueue`.
  A ledger brings 1 or 2 events, of one transaction or of two, and a page holds 3.
  Four events then give pages that end inside a ledger, that are full and that are
  short; three give two pages in which the second event of a transaction has the
  position its first had in the other, once ticks overlap. `MaxCrowd` keeps to
  three once they do, for the time the liveness check takes: the two ways to miss
  an event show in the run, each by itself.
- `webhooks`: the initial states share out what an instance may use (ticks that
  overlap; a broadcast to two webhooks that may die; one webhook changed during
  deliveries; administrators alone). `MaxAttempts = 2` (5 in the code) has a
  first and a last attempt and the step to the dead-letter list;
  `Threshold = 1` (5 in the code) deactivates at the first failure.
- `api`: a short window of 3 with limit 2 and a burst window of 1 with limit 1
  over 5 units of time and 6 requests let times leave a window while others
  stay, and let a block begin, end and begin again.
- `services`, `flows`: two or three of each actor, which is what the races
  need; thresholds of 2, so that one more and one less both occur. Registers of
  the certification registry allow five requests, two at a time, any of which
  may die. `ExpiryWindow = 1` with `NonceTtl = 2` keeps the code's ratio (5 and
  10 minutes), and both end within the run: with a time too short for that, the
  late request that `crossed` excuses did not show.

Addresses are symmetric in the three contract runs, tabs and queued operations in
`flows`; there is no liveness property in them and nothing tells the members
apart, so the reduction is sound. No other run uses symmetry.
`CHECK_DEADLOCK FALSE` because the bounds stop every instance in the end, and
an empty queue with all requests done is where the services rest.

**Fairness.** The contract, `api`, `services` and `flows` have none: no caller
has to act, and no property there depends on it.
- Job queue: every process that can step does (weak fairness of
  `EnqueueStep(p)` and `WorkerStep(w)`): a request that lives gets answers from
  the store, and the cron of `docs/ASYNC_JOBS.md` calls the worker every
  minute. How a handler ends is free, and `Die` is under no fairness.
- Indexer: weak fairness of `TickStep(t)` (the cron ticks, a tick that lives
  runs on) and strong fairness of `FetchAnswered(t)`: the node may fail to
  answer any number of times, but not for ever.
- Webhooks: weak fairness of the steps of a tick and of its deliveries.
  Requests of administrators and crashes are under no fairness.

**What the passing properties mean.**
- `OwnerChangeJustified`, `NonceMovesOnlyForItsSigner`: over all interleavings
  of transfer, rotation, escrow and registration, custody moves only with the
  right signature, and nobody spends a nonce for somebody else.
- `PendingQueueSound`: unique fresh pending ids, distinct approvers starting
  with the event's actor, and no event left waiting with its quorum complete.
- `PendingLeavesByApprovalOrExpiry`, `PendingChangesOnlyBySignedApproval`: what
  becomes of a pending event whatever happens to its product meanwhile. They
  rely on the quorum being recorded in the event when it is staged.
- `ImplementsApprovalLedger`: the same as a refinement. The mapping turns a
  pending event into a proposal (approvals as a set), the provenance root into
  the accepted sequence, `NextPendingId` into the number opened, and the address
  whose authorization the call required into who acts: a signature counts for
  that address and no other.
- `ApprovedEventsConserved`: provenance root = events list + archive, as bags,
  apart from SPOILED markers. `NoReplayedEntry`: no two public entries with one
  stable id. `LifecycleRecordedOnce`: each stage at most once over staged,
  stored, listed and archived events, and only stages the product has reached.
  It is stated for ids registered once: a batch registration resets the stage.
- `OnePlace`, `KeepsJobPromise` are stated for generated ids. For an idempotency
  key they fail with the race that `IdempotentEnqueue` shows. `SavedJobsSettle`
  holds for both: each job that was saved ends completed or dead, itself or in
  one of its retries, unless a request died with it in hand. The exception is
  real: `lpop` removes the id before anything is done, and nothing restores it.
- `KeepsJobPromise`: the job queue as a refinement of `JobPromise`, per generated
  id. The mapping takes the attempts of a job and of all its retries for
  `attempts`, and for `outcome` what any of their records says; several records,
  written by different workers, act as one job. A job with a handler is given up
  after exactly `maxAttempts` attempts and never has more (so `AttemptsBounded`,
  which only bounds them, is a theorem and no run repeats it), one without a
  handler without any, and a settled job is never run, completed or given up
  again.
- `NothingMissedBehindCursor`, `EventuallyIndexed`: ticks that die miss nothing.
  An event can be missed in two ways only, which the formulas name: a page ended
  inside its ledger (`cutLedgers`), or ticks overlapped and another event of its
  transaction had taken its key (`MayCollide`). Both happen in the run.
  `IndexedOnceUnlessTicksOverlap`: a tick run again over the same page gives
  the same keys, which is what makes the retry of the job harmless.
- `NoAttemptForgotten`, `RegisteredIsListed`: what is lost from a list is what a
  concurrent rewrite drops, or a request that died between record and list.
  `RetryFollowsFailure`: attempt numbers stay consecutive and bounded although
  ticks retry the same attempt. `EventReachesActiveWebhooks`: a claimed event
  is sent to every webhook that stays listed and active, if its tick lives.
- `GrantsFitEveryWindow`: the count holds for windows that end at any moment,
  not only at those where a request comes. `BlockHolds`: refusals over several
  endpoints, within the violation window, block for the whole duration.
  `RevokedIsRefused`, `AnsweredIsNotRerun`, `NoSkippedNumber`: what the
  check-then-act code does keep.
- `RestsAfterFailures`, `ClosesAfterProofs`: each breaker under late outcomes.
- `BroadcastLogAgrees`, `PanelShowsTruth`: the server's log of a broadcast counts
  the acknowledgements its notifications do; the panel's cards and notifications
  are never ahead of the server, in whatever order answers arrive, though cards
  may lag behind, also behind the notifications shown beside them.
- `RecordsOnlyGrow`, `BatchRecallComplete`: no lost update among product
  routes, and a batch recall that answered has reached every member on record.
- `NoncedAppliesOnce`: an approval takes effect once however its attempts
  overlap; for a write without a nonce this is false (section 5).
- `QueuedIsKeptUntilHanded`: an operation stays in the queue until a transaction
  of it was handed to the node, always; and no more transactions of it are handed
  over than one dispatch makes attempts, unless it was dispatched again from an
  out-of-date copy of the queue, beside another loop, or after a dispatch that
  ended without success though an attempt was handed over or may yet be
  (`excused`). It does not say that the transaction took effect: see
  `SuccessMeansSynced` in section 5.
- `ToldStaysShown`: what a page was told of a claim stays shown in whatever order
  calls are sent and answered, and a claim it was told is decided never shows
  anything but such a decision. Nothing is excused; nothing is said of the chain.
- `AnsweredRecordStands`, `EachRatingCountsOnce`, `ShieldMatchesAddress`: what
  the user is told against what was stored, but for requests that overlapped on
  a key or died on it, for ratings that crossed, for checks that crossed.
- `PremiumFollowsRisk`: bands, caps and rounding keep the order of risks.

## 4. Proofs

TLAPS checks the theorems below for every value of the constants: any sets of
addresses, products, keys, calls, tabs or requests, and any bounds.

| Theorem | Module | Establishes |
|---|---|---|
| `TypeCorrect` | `SupplyLinkContractProofs` | `Spec => []TypeOK` |
| `QueueSound` | `SupplyLinkContractProofs` | `Spec => []PendingQueueSound` |
| `NonceBelongsToSigner` | `SupplyLinkContractProofs` | `Spec => NonceMovesOnlyForItsSigner` |
| `OwnershipJustified` | `SupplyLinkContractProofs` | `Spec => OwnerChangeJustified` |
| `LeavesByApprovalOrExpiry` | `ApprovalProofs` | `Spec => PendingLeavesByApprovalOrExpiry` |
| `ChangesOnlyBySignedApproval` | `ApprovalProofs` | `Spec => PendingChangesOnlyBySignedApproval` |
| `RefinesApprovalLedger` | `ApprovalProofs` | `Spec => ImplementsApprovalLedger` |
| `ApprovedConserved`, `NothingReplayed`, `LifecycleOnce` | `EventStoreProofs` | `Spec => []ApprovedEventsConserved`, `Spec => []NoReplayedEntry`, `Spec => []LifecycleRecordedOnce` |
| `OnePlaceOnly`, `AttemptsStayBounded` | `BackgroundProofs` | `Spec => []OnePlace`, `Spec => []AttemptsBounded` |
| `JobPromiseKept` | `BackgroundProofs` | `Spec => KeepsJobPromise` |
| `NothingMissed`, `IndexedOnce` | `BackgroundProofs` | `BackgroundSpec => []NothingMissedBehindCursor`, `BackgroundSpec => []IndexedOnceUnlessTicksOverlap` |
| `WebhooksTyped` | `WebhookProofs` | `Spec => []TypeOK` of the webhooks |
| `NothingForgotten`, `RetriesFollowFailures`, `RegistrationsListed` | `WebhookProofs` | `Spec => []NoAttemptForgotten`, `Spec => []RetryFollowsFailure`, `Spec => []RegisteredIsListed` |
| `BreakerRests`, `ProbesProve` | `ServicesProofs` | `RestsAfterFailures` and `ClosesAfterProofs` of a breaker by itself |
| `BreakersKeepTheirWord` | `ServicesProofs` | both, side by side with the other services |
| `LimitsHold`, `BlocksHold` | `ApiProofs` | `Spec => []GrantsFitEveryWindow`, `Spec => []BlockHolds` |
| `RevokedStaysOut`, `AnsweredOnce`, `NumbersHaveNoGaps` | `ApiProofs` | `RevokedIsRefused`, `AnsweredIsNotRerun`, `NoSkippedNumber` of the composed route |
| `AlertsForward`, `CoverIsUnclaimed` | `ServicesProofs` | `AlertsMoveForward`, `CoveredMeansUnclaimed` |
| `BatchRecalled`, `RecordsKept` | `ServicesProofs` | `BatchRecallComplete`, `RecordsOnlyGrow` |
| `PanelsTellTruth`, `LogsCount` | `ServicesProofs` | `Spec => []PanelShowsTruth`, `Spec => []BroadcastLogAgrees` |
| `NoncedOnce`, `AnswersStand` | `FlowsProofs` | `NoncedAppliesOnce`, `AnsweredRecordStands` |
| `RatingsCountOnce`, `QueuedKept`, `ToldShown` | `FlowsProofs` | `EachRatingCountsOnce`, `QueuedIsKeptUntilHanded`, `ToldStaysShown` |
| `ShieldIsForAddress` | `FlowsProofs` | `ShieldMatchesAddress` |
| `RiskierPaysMore` | `ServicesProofs` | `PremiumFollowsRisk` |

**Assumptions** are stated, by name, in the modules that declare the constants,
and TLC evaluates them in every run: absent values (`NoAddress`, `Gone`,
`NoEvent`, ...) are none of the present ones, bounds, thresholds and risk grades
are naturals; producers and workers of jobs are different processes; issuers,
records and the name of the index are different keys; the fixtures are products
and the members of a batch that exist are among them; the lifetimes of messages
and nonce keys, limits, windows and the indexer's page size are naturals; a dispatch has at least one attempt, and
what the node refuses are operations; `Pending` is not a status the buttons set and
the absent claim not a claim id; the recall panel is one of the stakeholders and
lists name stakeholders.

**The contract.** The inductive invariant is `TypeOK /\ PendingQueueSound`. The
parts of `PendingQueueSound` need one another: that an approval finalizes
exactly when the quorum is met needs the approvals to be distinct (the length of
the list is then the number of approvers) and incomplete before the step; that a
pending event keeps its identity across `(pending \ {e}) \cup {e'}` needs ids to
be unique. `TypeOK` is proved first, one lemma per module of handlers. The
refinement takes each action to one step of the ledger: staging to `Open`,
approval to `Sign` or `Accept`, cleanup to `Drop`, time to `Pass`, all others to
a stutter. `Open` needs that ids from `NextPendingId` on are unused; `Sign` and
`Accept` that a list of distinct approvals has as many members as entries.
`ImplementsApprovalLedger` is `\A p : Ledger(p)!LedgerSpec` with the quantifier
inside the box, which TLC and the provers both take.

**The event stores.** The three invariants count occurrences in sequences that
are appended to, concatenated and cut at an index, so the module begins with the
lemmas on `Places` and `CountIn` (how a count changes with each of these), proved
from bijections, not by induction. `ApprovedEventsConserved` needs its counterpart
for all events, not only those in a log (`EventsConserved`): what is not in the
provenance root is in no other log. `NoReplayedEntry` is inductive by itself: a
call stores entries of one product whose ids are not in `seen`, and the ids of a
batch differ (`Fresh`, `Stores`). `LifecycleRecordedOnce` speaks of products
registered once and of a total of at most one; the induction needs how often a
product is registered against whether it exists, and the total of each stage
against `lifecycle_stage`, stage by stage, for the staged, the keyed and the
listed events together (`LifecycleInv`).

**The webhooks.** `Shapes` says what each process holds at each point (a tick, a
delivery, a request), that deliveries are under way only while their tick waits
for them, and that what is pending was owed and may be repeated. On top of it,
`NoAttemptForgotten` needs that a delivery about to list an attempt does so under
the status it recorded, with the attempt in the copy it will write (`WellKept`);
`RetryFollowsFailure` is then inductive; `RegisteredIsListed` needs that whatever
an overlapping process is about to write back (a patch, a failure count, a
deactivation, a stamp) is a record that was listed once, which is a property that
no later rewrite of a list takes away (`KnownHooks`, `KnownSubs`,
`ListedOrDeleted`).

**The services.** None of the properties is inductive as it stands. What each
proof adds, one lemma per group of steps:
- Job queue (`QueueInv`): per key, the places of the key are alone; until its
  record is saved only the request that made it has it and nothing has run; and
  the attempts that ran together with the budget of the job that waits or is in
  hand are `MaxAttempts`, exactly. The last part carries the bound through
  retries, which are jobs of their own, and makes a job that is given up one
  that had all its attempts. For `KeepsJobPromise`, `Final` says beside it that
  a key which still waits or is worked on, other than to be buried, has not
  settled; each step then maps to one step of `JobPromise` or to none
  (`UpdateKept` has the three that are not stutters).
- Indexer (`IndexInv`): the chain's ledgers are in order, so the events of the
  ledgers before any ledger are a prefix of it (`Starts`), and a page is the
  stretch behind such a prefix (`Served`), which stays true as ledgers close
  because a tick asks for a ledger that may only just be open. What a tick has
  passed of its page is saved (`Worked`), and so is all before the ledger it
  began from, also when another tick moves the cursor meanwhile. For ticks one by
  one (`OneByOne`): an event saved from the cursor on has its distance to the
  cursor for an index, so a page that comes again saves it under the same key,
  and nothing beyond the page in hand is saved, so the next cursor has left all
  of it behind. That a key found taken is taken by the event
  itself, unless `MayCollide`, follows: another event with the key would be of
  the same transaction, hence of the same ledger and not behind the cursor, and
  there, while ticks come one by one, the index tells which event it is.
- Breaker around a call: while closed the failures are below the threshold, and
  while open the time of the last failure is the one that opened it
  (`ClosedBelowThreshold`, `Rested`). Second breaker: the successes counted half
  open are the latest outcomes in a row.
- Rate limiter (`LimitInv`): after every moment still inside the window, a window
  holds at least as many times as requests were let through (`SlotFits`), and a
  reputation at least as many as there were refusals (`ViolationsFit`); the
  newest refusal therefore counts at least what the log does, and a block that
  nobody lifted ends no earlier than the log says. What the filter of old times
  leaves is a lemma for every list (`SinceCounts`), by induction over prefixes
  through the smallest counterexample (`SmallestNat`).
- API keys (`RevocationsLast`): only issued keys are revoked and a revoked record
  stays so, therefore a call that began after a revocation never gets to the
  usage count. Idempotency (`IdemInv`): the record of an answered key is there
  and live. Sequence numbers (`SeqInv`): all numbers below the one a claim has
  read were accepted.
- Insurance: a policy with a claim is no longer active.
- Product records (`RecordsInv`): a batch recall at member n has recalled all
  before it, and nothing takes a recall back, since the update is computed from
  the record at the write.
- Recall broadcasts (`BroadcastInv`): per broadcast and stakeholder, there are
  notifications exactly when there are entries in the log, and only the first of
  each can be acknowledged, the one with the other (`Agree`); what an answer
  carries was true of earlier stores, which only grow (`AnswerTrue`,
  `StoresGrow`). That the first one exists is `SmallestNat` again.
- Contract writes: every attempt and every transaction of a nonced call carries
  the nonce of its first attempt, and what was applied had a smaller one than
  the account has now; so a second transaction of the call cannot be applied.
- Certification registry (`RegistryInv`): a key that is not disturbed is written
  by one request at a time, so the copy this request holds is what the store
  holds. The ids in the list then differ, which makes the first record with an
  id the only one; an issuer that is stored is listed or about to be.
- Ratings (`RatingsInv`): requests that run at the same time are of crossed
  wallets; a nonce's key outlives its message for every request that is not
  late; the copy of the list a request will write back counts each wallet that
  did not cross as often as the store does. How a count changes when a rating is
  appended is a lemma (`Times`).
- Offline queue (`OfflineInv`): an operation that is not excused has a budget
  (`Budget`), in one of three states. It is untouched; or it is underway, one
  loop is at its only dispatch, and the transactions handed over and the attempts
  that may yet hand one over are no more than the attempts that loop has begun;
  or it is finished, has left the list, and the same sum is no more than
  `DispatchAttempts`. The proof needs what the filter that takes an operation
  out of the list leaves, for every list (`WithoutIs`): by induction over the
  list's prefixes, through the smallest counterexample (`SmallestNat`, from the
  library's well-founded order on the naturals).
- Warranty panel (`PanelFacts`): a claim is filed by one call at most, and not if
  the page had it (`FiledOnce`); a status the page shows is one it was given or
  one a button sent (`ShownAsCalled`); and a claim whose filing was answered is in
  the list, under a status it was told if it was told any (`ShownAsTold`).
- Transfer form: unless checks crossed, a check that is running or answered
  while there is no pause is for the address typed, and a dialog that was opened
  with a verdict has no check behind it.
- Premium: the score keeps the order of risks through caps and the gap of
  certifications, the multiplier through its bands, the premium through
  rounding.

**Model-checked only.** Out of the provers' reach: liveness (`SavedJobsSettle`,
`EventuallyIndexed`, `EventReachesActiveWebhooks`), and induction over what
`MapThenSumSet` computes in `ActorCount`, which no proof needs. Every other
property of a passing run is a theorem.

## 5. Where the code and its documentation disagree

Shown by a run each (`findings` in `PROJECT.json` quotes the lines):

1. `register_products_batch` takes an id that is registered and replaces the
   product (`DuplicateIdRejected`).
2. An escrow opened by a former owner takes the product from the new one
   (`EscrowBindsCurrentOwner`).
3. Concurrent `enqueue` calls with one key push it twice (`IdempotentEnqueue`).
4. The offline banner announces that all queued operations were synced
   (`SyncStatusBanner.tsx:133`) after taking one from the queue (line 90) whose
   transaction the node refused: the live client returns the hash whatever the
   node's answer (`live-contract-client.ts:105-106`) (`SuccessMeansSynced`).

Read in the code while modelling, without a run of their own. In the contract:
- a spoiled product still receives events and can be handed over by escrow:
  `products.rs:555` says it cannot, and only `transfer_ownership` looks;
- the safeguard of `remove_authorized_actor` (`authorization.rs:512`) counts
  list entries, not distinct addresses as 452-456 promise;
- an approved event goes to another store than the one `get_events_count` reads
  (`events.rs:424`; the test at `invariants.rs:259-262` expects it there);
- the emergency stop is documented for all state changes and checked by
  `register_product` and `add_tracking_event` only; any address may sign as
  its guardian (`SetPauseState`);
- `add_authorized_actor` does not prevent duplicates, although
  `authorization.rs:448-449` relies on it;
- `add_tracking_event` ignores the caller it is given;
- `dispute_transfer_ownership` is documented for either party and demands the
  signature of the one who opened the escrow; a second
  `request_transfer_ownership` replaces an escrow in dispute;
- `reject_event` (`events.rs:507-552`) holds the body of `assign_role`, refers
  to names it does not have and cannot build: it is not modelled.

In the services:
- a job whose attempt failed stays `pending` without being queued
  (`worker.ts:50`; `ASYNC_JOBS.md:38` says waiting in queue);
- the indexer: overlapping ticks may index an event under two keys, or give one
  event's key to another of its transaction, which is then never indexed; a page cut
  inside a ledger skips the rest of that ledger, since the cursor goes one
  ledger on; a tick that dies between saving an event and listing it leaves the
  event unlisted for good, because a saved event is skipped;
- attempts of webhooks that were resolved are sent again, although
  `processor.ts:208-209` says they are skipped; `maxRetries` of a subscription
  is not used by retries;
- `idempotency.ts:5` promises no duplicate side effects, which two concurrent
  requests with one key get; `v1/products/[id]/events/route.ts` reads the body
  at 268 and `withIdempotency` reads it again at `idempotency.ts:85`, which a
  request does not allow;
- `eventSequence.ts:8` calls the sequence monotonically increasing: a claim
  that was read before another one's write moves it back;
- the half-open breaker of `rateLimit.ts:233` lets any number of calls through;
  a success that comes late closes the breaker of `resilience.ts` in whatever
  state it is;
- the recall panel does not load its cards anew after an acknowledgement: a card
  counts fewer acknowledgements than the statistics beside it;
- `voidCoverage`, `resolveBroadcast`, `cancelBroadcast`, `markDelivered` and
  `markDeliveryFailed` have no caller; the status `expired` of a policy is never
  set; a claim may be decided again; a premium ignores the provider's limits;
- an assembly may contain the product itself; a second batch recall overwrites
  the reason of the batch and not of its members; overlapping registrations of
  an auditor store it twice;
- a certification issuer whose registration died before the index was written
  is never listed, since a second registration is refused with 409;
- a nonce of a rating is kept for twice the validity of a message
  (`ratingsProtocol.ts:22`): a request held up for longer than the difference
  after its message was checked finds the nonce forgotten;
- the message `RatingWidget` signs is not in the canonical form the route
  demands, so the route answers 400.

In the client:
- `contract.ts:35` makes a new client at each access, so in mock mode a write
  is gone with the client that took it;
- the live client returns the hash of `sendTransaction` whatever its status,
  so `WarrantyPanel.tsx:473` announces what may not have happened; a write
  without nonce can apply twice after a timeout; argument lists leave out
  nonces the contract expects;
- a lifetime warranty (duration 0) is inactive in the mock client and active in
  the panel; the mock writes `PENDING` where the panel tests `Pending`; the
  product page passes `isOwner={false}` always;
- `RegisterProductForm` promises to queue offline and does not;
  `AddEventForm` decides whether it is online when it is mounted; the banner
  synchronises by itself only when its tab comes back online while idle, and
  its four-second timer can end the display of a running synchronisation; a
  full browser storage loses an operation silently;
- the preflight of a transfer is fetched without the key its route requires,
  and any answer but a success counts as a pass; line 133's "server will
  re-validate" has no counterpart.

## 6. Not modelled

`PROJECT.json` gives the reason for each part.
- Contract: queries; data that decides nothing (names, aliases, hazard labels,
  expiration dates, scores, locations, metadata); roles and event threshold
  (`AuthPolicy`), which no handler consults; upgrade guardians and admin (their
  own storage); snapshots (copies); size limits of strings; the registries of
  certifications, auditors, batches, documents and notarizations, which share
  no state with custody and events but the flag `recall_batch` sets without the
  owners' signature, and on which no property here depends.
- Services: `applyRateLimitAsync` (a variant over an external counter);
  payloads over the size limit; `guardianHandover`'s copy for polling; the event
  routes and their validation; audit and approval logs, which are only appended
  to; read models, exports, searches and scores, which are functions of data.
- Client: rendering, translation, charts, QR codes, wallets, maps; reads of the
  contract and fee bumps; what becomes of a warranty's calls behind the panel (the
  mock client's lists, and a contract module that is not built).

Most of the TypeScript of the repository is presentation, validation schemas,
tests of them and pure formatting. A state model says nothing about those, so
the modules cover the parts with state and concurrency.

## 7. What could be added

1. The contract's registries and `recall_batch`, composed over `recalled`.
