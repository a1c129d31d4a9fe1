# Verification of modelgov

modelgov is a gateway in front of model providers.  A request is authenticated
by a key, evaluated against a policy, screened for personal data, its estimated
cost is reserved, the provider is called, and the reservation is settled with
the real cost or released.  Several replicas share one PostgreSQL database;
outside it there is what one request holds in its closures, and the caches of a
replica.  What is hard about the system is the order of small steps of several
actors (requests, their retries, timers, operators, Stripe, providers) when any
of them may fail, die, be repeated or come late; and that four surfaces (chat,
streams, embeddings, documents), each written for itself, must keep the same
promises on every one of their exits.

This directory models that in TLA+, checks it with TLC and proves its central
claims with TLAPS.  Paths below are relative to `src/packages/api/src` unless
they say otherwise.

## 1. Inventory

| Component | State | Operations | Modelled in |
|---|---|---|---|
| Flat budget ledger (`modules/usage/repo.ts`, `reservationLeaseRepo.ts`, `reservationLeases.ts`) | `budget_counters` per scope and window, `budget_reservation_leases` | reserve, top up, settle with one retry, release, book incurred cost, sweep | `FlatBudget` |
| Credit wallet (`modules/billing/repo.ts`, `service.ts`, `settlement.ts`, `reserve.ts`, `chat/providerBudget.ts`) | `billing_accounts` (`credits_usd`, `credits_reserved_usd`), `billing_reservation_leases` | reserve, zero-hold gate, top up, undo, settle, release one, sweep | `Wallet` |
| Hierarchical budgets (`modules/budgets/repo.ts`, `chat/prep-hierarchical.ts`) | `budget_node_counters` per node, window and shard, `budget_node_leases` | reserve a path, settle, release, sweep | `NodeBudget` |
| Idempotency keys (`modules/idempotency/`) | one row per tenant, user and key | claim, look up, replay, complete, release, two sweeps | `Idempotency` |
| Streaming chat (`modules/chat/routes.ts`, `stream.ts`) | closures of one request: claim flag, socket listener, abort signal, cap timer | the read loop, three ways to end, close events | `Stream`; its money in `ChatCall`, its frames in `StreamRelay` |
| Chat pipeline (`modules/chat/`) | what one call holds, has booked and has still to do | authorise, evaluate, screen, reserve, call, fall back, screen, settle, audit, unwind | `CallLedger`, `ChatCall` |
| Embeddings, documents (`modules/embeddings/`, `modules/documents/`) | the same | the same order, written anew | `EmbeddingsCall`, `DocumentsCall` |
| Policy engine (`src/packages/policy-engine`) | none | validate, evaluate, choose model and fallback, safety plan, estimate | `Policy` |
| Safety services, grounding, structured output (`services/safety/`, `chat/grounding.ts`, `chat/structuredOutput.ts`) | none | scan, mask, block, classify, verify citations | `Guard` |
| Policy store (`modules/policy/repo.ts`, `routes.ts`) | `config_versions`, of which one per tenant is active | save or propose, review, activate, roll back | `PolicyStore` |
| Policy resolution (`modules/policy/tenantResolver.ts`, `listener.ts`) | a TTL cache of promises per replica, the last good policy, one LISTEN connection | resolve, invalidate, reconnect, NOTIFY | `PolicyCache`, `PolicyListener`, `PolicyReplica` |
| API keys (`modules/keys/`, `plugins/auth.ts`) | `api_keys`, a TTL cache per replica | create, list, rotate, revoke, expire, resolve | `ApiKeys`, `Access` |
| Authorisation, emergency stop, erasure (`modules/authz/`, `emergency/`, `governance/`, `plugins/requestContext.ts`) | pause switches, audit rows | bind a tenant, check permissions and ceilings, pause, resume, erase | `Access` |
| Request log, usage reports, explain (`modules/requests/`, `usage/`, `explain/`) | `request_logs` | calls write rows; reports read them | `DataPlane` |
| Webhook outbox, budget alerts (`services/webhookOutbox.ts`, `modules/usage/budgetAlerts.ts`) | outbox rows, alert claims | claim an alert, enqueue, claim rows, deliver, mark, give up, prune | `Outbox` |
| Stripe (`modules/billing/service.ts`, `stripe.ts`, `routes.ts`, `repo.ts`) | accounts, processed events, meter rows | checkout, subscription and invoice events, admin top-up; record, report and prune usage | `StripeEvents`, `MeterEvents` |
| Maintenance (`services/maintenance.ts`, `db/advisoryLock.ts`) | two advisory locks, two overlap guards | tick, elect, reconcile, deliver | `Deliveries`; the sweeps in their ledgers |
| Provider client, document providers (`services/litellm.ts`, `services/documents/`) | one exchange and its timer | call, retry, fall back, poll | `ProviderCalls` |
| Client SDKs (`src/packages/sdk-typescript`, `sdk-python`) | one exchange or stream | JSON calls, streams | `Clients`, `StreamRelay` |
| Transactions (`db/pool.ts`) | - | BEGIN/COMMIT, lease consumption | one action each, see 2.1 |
| Audit log (`modules/audit/`) | hash chain under an advisory lock | append; export, verify | the append in `PolicyStore`, the rows in `Access` |
| Application shell, setup, health, CLI, project generator, operator console, deployment, examples | configuration, files | wiring, one-shot programs, pages | not modelled |

How they meet.  A route resolves the key and the tenant's policy, claims the
idempotency key where there is one, and runs its surface, which reserves in one
of the two budget ledgers and possibly in the wallet, calls the provider,
settles or unwinds each ledger, writes its row and completes the key.  The
maintenance timer visits every ledger on its own and knows of a request only
what its lease row says; it also empties the outbox and reports usage.  The
policy comes from the replica's cache; the operators who change it go through
the policy store, whose COMMIT notifies the replicas that listen.  Keys are
cached per replica with nothing between replicas but time.

What makes each component correct:

* a ledger: a hold is given back once, by whoever deletes its lease row; rows
  reserve what live leases hold; caps hold under concurrency; spend is booked
  once; every hold is given back in the end;
* a governed call, on every surface and exit: what the gateway was charged is
  booked, held before it is risked and on the call's row; nothing held is left
  behind; a reply that asks for a retry cost nothing; protected data reaches
  only who may see it;
* the key: one producer at a time, a paid outcome is replayed and never paid
  again, a replay matches the body, no key is blocked forever;
* the stream: one terminal action, no refund of output, no output free of charge;
* the policy store: one active version, the one the audit log names last,
  approved by two persons where that is asked for;
* policy resolution: nothing older than promised, the boot policy never in
  place of a tenant's own, one listener, the active version in the end;
* tenancy: whatever sequence of requests an operator or key makes, it learns
  and changes nothing outside its partition and its limits; a dead secret fades;
* deliveries: each webhook at least once, usage invoiced once, a payment
  applied once and the newest subscription wins, one replica per piece of work;
* clients: every call ends, a paid answer is not asked for again, a truncated
  answer is not taken for a complete one.

`PROJECT.json` lists the hazards, each at its line, with the properties that
watch it.

## 2. The modules

### 2.1 Conventions

A database transaction is one action: PostgreSQL runs each with row locks on
the counters it changes.  Its outcome `x` is `"ok"`, `"abort"` (nothing
happened, the caller sees an error; a deadlock victim looks like that) or
`"lost"` (it committed, the caller sees an error).  What the code does between
two awaits is another action.  A request is a record of functions indexed by
the request: `pc` is where its closure is.  `Crash` may end it anywhere.  Time
is not measured unless a property is about it: a lease may become `aged` once
its owner has ended, or while it runs if the owner is in `Slow`, the requests
that may outlive `RESERVATION_STALE_MS` (15 minutes by default, where the
provider timeout is one).  Variables marked "history" record what happened for
the properties and are read by no guard.  Operators whose comment begins with
"Mutant" are wrong versions of the operator after them; no action uses them.
`None` is an absent value.

### 2.2 `Holds` and `FlatBudget` (with `WeightLemmas`, `MCFlatBudget`)

`Holds` is what the three ledgers share: the requests and their amounts, the
outcome of a transaction, the ends of a request, `GREATEST(n - m, 0)` and the
sum of a function over a set, which is a cardinality rather than a fold so that
it can be reasoned about without induction.

`Rows[r]` are the counters `dimensionsFor` derives for a request; `ReqRow[r]`
is the one that counts requests.  `Reserve` is `reserveBudget`, `TopUp`
`topUpBudget`, `Settle` `settleActualCostWithRetry` over `SettleEffect`
(`recordActualCost`), `ReleaseEffect` `releaseBudget`, `Incur`
`recordIncurredCost`.  `FallbackBlocked`, `TopUpRejected` and `ProviderFails`
are the ways into `releaseWithSafety`, the first two in the inner `try` of
`executeProviderWithFallback`, the last in its outer `catch`; `outer` remembers
which.  The sweep is not atomic: `SweepSelect` reads, `SweepRelease` frees what
was read, `SweepFails` ends the loop.

One window only: what a request books and frees goes to the window it was
reserved in.  Tokens follow the same statements as dollars and are left out.

### 2.3 `Wallet` (with `MCWallet`)

A hold has up to two rows in `billing_reservation_leases`, `<<r, "base">>` and
`<<r, "extra">>`, which age separately.  `SettleHold` deletes all of them and
frees what the caller says it held; `ReleaseOne` deletes one of a given amount;
`Sweep` is the one statement that returns every stale row.  In hybrid mode the
internal ledger stands between the wallet's steps and only answers yes, no or
throws (`InternalReserve`, `InternalTopUp`).

### 2.4 `NodeBudget` (with `HoldLedger`, `MCNodeBudget`)

A cell is a row of `budget_node_counters`, one shard of a node.  `Fits` is
`NODE_RESERVE_SQL`, with the shard's exact share of a dollar cap and the
floored share of a request cap.  `SettlePath` books regardless and frees only
with the lease; there is no top-up and no retry; `CleanupStaleNodeLeases` is
one transaction.  The variables have names of their own (`nodeUsed`, `nodePc`),
so that `LedgerProofs` can extend this module and `Wallet`.

`HoldLedger` is the abstract specification of a ledger: a request opens one
hold, on all of its rows at once and where each has room; the hold is freed or
settled, once; a spend is booked once, before or after the hold was freed.  It
knows no leases, sweeps or failures.  `NodeBudget` implements it (`Ledger`,
which reads a hold off the lease and the histories `booked` and `freed`).  The
other two ledgers do not: `FlatBudget` drops the spend of a hold that was swept
(`SettleEffect`: `recordActualCost` is gated by the delete of the lease), and
both can strand a top-up (see the differences listed for ledgers below).

### 2.5 `Idempotency` (with `MCIdempotency`)

One key.  `Claim`, `ClaimConflicts`, `SelectFindsRow`, `SelectFindsNothing` and
`SelectFails` are `claimKey`'s two statements, `Produce` runs the flow behind
the key, `Complete` and `Release` store or drop the claim, whoever owns it.

### 2.6 `Stream`

One streamed chat after its reservation.  A stretch of JavaScript between two
awaits is one action.  The socket is destroyed first and emits `close` later;
`listener` is the handler attached at that moment.  `env`, chosen in `Init`, is
what this stream's client and provider do beyond the ordinary: a slow reader, a slow
first delta, an error whose text stalls (`RefusalStalls`, where the generator
has no timer any more and hears no abort).  `Sweep` is the lease sweep as the
stream sees it: possible when something outlasts the cap.

### 2.7 `Policy`, `Guard`, `CallLedger`, `ChatCall`, `EmbeddingsCall`, `DocumentsCall`, composed in `GovernedCalls` (with `MCGovernedCalls`)

One call with everything that decides what it costs and who sees its text.  The
call itself (surface, configuration, request, usage so far, what the backends
may answer) is the constant-like variable `call`, one of `Calls`.

`Policy` is the pure policy engine: `ValidConfig` what `parseConfig` accepts,
`Evaluate` the evaluator in its order (feature, user type, class, global cap
with degradation, model, data class, estimate), the fallback's second decision,
`SafetyPlan` with presets, scope and dispositions.  `Guard` is what the safety
services answer to one text: a text is the set of kinds of personal data that
are readable in it, masking removes kinds, the recogniser may be down or answer
garbage, the classifier is sure, contradicts itself (and then costs, though
nobody learns how much) or is out.

`CallLedger` is what all surfaces share.  A step of the code that is followed
by ledger operations before the next await that matters puts them on `todo`;
each is then performed or fails (`faults`, at most `MaxFaults`), and a failure
goes where `catching` says: to the inner `catch`, the outer one, the stream's,
or the error handler.  `books` is what the internal ledger, the wallet and the
meter were charged, `spent` what the providers charged, `lease` and `hold` what
is reserved, `trail` the row of the request log, `reply` the outcome with the
flag that tells the idempotency layer to release the key, `shown` and
`delivered` who saw which text.  The ledgers are one step each, as the modules
above show them to be.  `ChatCall` has the flat and the hierarchical pipeline
and the prologue and three endings of a stream; `EmbeddingsCall` and
`DocumentsCall` the other surfaces, which copy that order with differences
(pages instead of tokens, own fallback, nothing classified), and it is those
differences the run explores.

### 2.8 `PolicyStore` (with `MCPolicyStore`)

The only transaction whose inside matters: `activateConfigVersion` is not one
action but one per statement.  `Lock` is its `SELECT ... FOR UPDATE` with the
checks that follow, `Snapshot` and `Deactivate` are the two halves of the first
UPDATE (what READ COMMITTED shows it, and what is left when it has the row
locks), `Set` and `Conflict` the second against the unique index on the active
row, `Audit` the advisory lock and the read of the chain's head,
`CommitActivation` with or without its answer.  `owner` and `auditor` are the locks.  `Save` and
`Review` hold one row and then the audit lock and are one action each.
`Replicas` are the settings among the replicas that serve the operators: a
rollout may mix approval on and off, hot reload on and off, strict pricing and
boot-only fields, and a version may be refused by one and taken by another.
`Identity` and `Names` are a person's stable subject and everything the code
knows the person by: the proposer is one name, the reviewer a set of aliases.
A rollback is an activation of an older version.

### 2.9 `PolicyListener`, `PolicyCache`, `PolicyReplica`

`PolicyListener` has the clients of one replica's LISTEN connection.  A client
may be the current one (`client`), have handlers (`wired`), be in `connect()`
(`connecting`) or in a teardown that ends in `scheduleReconnect` (`closing`),
and these overlap: `ConnectRejects` and `Closed` are callbacks of clients that
may have been replaced.  A teardown is an action up to its `await` and `Closed`
after it.

`PolicyCache` has one tenant's entry and the loads in flight, of which one at
most is the entry's.  `StartLoad` is `resolve()` on a miss; `StoreReads` is the
moment the store answers, `Loaded` and `Unparseable` when the replica handles
the answer, `ReadFails` a rejected query.  A load that was let go of still
reaches `lastGood` when it ends.  `age` counts from the start of the load, as
`expiresAt` does.  Versions are numbered in the order of their activation,
0 is the boot fallback; `foreign` are those this build cannot parse.

`PolicyReplica` composes both with `inbox`, the notifications on their way:
`Activate` sends one to each connection that listens at the COMMIT, a broken or
ended connection loses them.  `Returns` is the invalidation by the route that
activated; which activations are this replica's own is left open, so it may
come for any of them, at any time or never.  A connection that is dead without
an event of its client is not modelled; to the cache it is a `Drop` whose event
never comes.  With `stop()` the replica serves no more.

### 2.10 `ApiKeys`, `Access`, composed in `DataPlane` (with `MCAccess`)

`ApiKeys` is the table and the resolver's cache of each replica.  A secret is a
number, drawn once.  A lookup is asked of the store, answered within `Latency`
ticks and stored in the cache when it is answered, whatever `invalidate` or
`clear` did in between; a positive entry is fresh for `TTL`, a negative one for
`NegativeTTL`; `MaxEntries` evicts.

`Access` takes a request from its authentication (`Roles` of a login, or a
secret) through `requestContext` (the key's tenant, or `x-tenant` for whoever
may switch) to its permission check and one of the operations of the control
plane: create, list, rotate, revoke, pause, resume, erase
a user.  The tenant column is a tenant, `Own` (`''`) or `None` (NULL, a
platform key), and each operation has its own clause over it; the clauses are
copied one by one, since they are what differs.  `knows` is what secrets a
party has seen: parties use what they know.

`DataPlane` has the calls (chat and embeddings, explain, ingestion of external
usage) and the reads (requests, one request, usage, summaries, transactions,
audit) with the limits of the key: its project, users and budget node.  A call
is one step; what a read touched is kept until the answer is sent.  What the
first state may hold is stated by two assumptions, `NamesAssumption` (kinds) and
`WorkloadsAssumption` (who holds which secret), which TLC evaluates on `access`.
The limits
that are modelled are project, users and node; an environment is confined as a
project is, a user type as a user.  Keys created in a run have no limits.

### 2.11 `Outbox`, `MeterEvents`, `StripeEvents`, composed in `Deliveries` (with `AtLeastOnce`, `Failing`, `MCDeliveries`, `DeliveriesProofs`)

`Outbox`: a call claims the month's alert and then enqueues a webhook; the
claim of due rows raises `attempts` and leases them; a POST is an element of
`posts` until it is answered; marking it may fail.  `received` counts copies.
`MeterEvents`: rows are read, not claimed, before they are reported, so reports
may overlap; Stripe drops an identifier it knows.  `StripeEvents`: an event is
delivered to any replica, in any order, until it is answered 2xx, at most
`MaxDeliveries` times; a handler looks up the account, then writes in one
transaction.  Of a checkout the fields are kept that decide whether it is
credited (`Creditable`: a user, cleared funds, an amount in USD or
`credits_usd`), to whom, and whether it links the customer, as an operator's
top-up may.  `bought` are the accounts whose user type was last set by one of
these and not by a subscription event.  `Deliveries` adds the ticks of the replicas' timers with the two
advisory locks, which a lost connection frees while the work they guard goes
on, and `Failing` the bounded faults.

`AtLeastOnce` is the abstract specification of a queue: bounded tries, no more
copies than tries, confirmed only if a copy arrived, given up only when the
tries are used.  `Deliveries` implements it (`Queue`, a refinement mapping of
the outbox's rows and POSTs) and `DeliveriesEnd` adds that
nothing stays pending in it (`NonePending`).

### 2.12 `ProviderCalls`, `StreamRelay`, composed in `Clients`

`ProviderCalls` begins with one HTTP exchange as its caller sees it: refused,
headers, body whole, partial, garbled or lost, bounded only by an armed timer.
The calls are the gateway's: chat with retries and fallback, embeddings
with their fallback, the document providers, Azure's polling with its deadline.
`Clients` adds the SDKs' JSON calls.  `StreamRelay` is a streamed answer over
two SSE connections, counted in half lines so that a read may end inside one;
connections break, or are ended cleanly by an intermediary (`cut`); `said`
counts what the provider has sent.  The route may find the stream refused with
an error (`refused`): its text is read without a timer.

## 3. The runs

| Run | Instance | Shows |
|---|---|---|
| `flat_faults` | 2 requests of one user on a user row and a global row, aborted and lost commits, crashes, r1 may outlive its lease | `LeasesSound`, `CapRespected`, `LedgerExact`; `HoldsDrain` |
| `wallet_faults` | 2 requests on one wallet, both modes, all faults, none outlives its lease | `WalletExact`; `LeasesDrain` |
| `node_faults` | 3 requests, an organisation with 2 shards above 2 teams, all faults, r1 slow | `NodesExact`, `NodeCapRespected`, `PathsHoldOnce` (refinement); `PathHoldsDrain` |
| `idem_faults` | 3 requests, 2 bodies, all faults | `OneProducer`, `PaidIsReplayed`, `ReplaySameBody`; `ClaimsEnd` |
| `stream_races` | up to 4 deltas, any environment (slow reader, slow first delta, an error that stalls) | `EndsOnce`, `NobodyForgotten`; `HoldEnds` |
| `policy_store` | 2 versions of 2 authors, one with two names, 3 activations (two race, one rolls back), three kinds of replicas, aborts and lost answers | `ActiveIsAudited`, `Approved`; `CallsEnd` |
| `policy_replica` | 2 clients, 2 loads, 2 activations that parse or not, 1 failing read, a time to live of one tick | `CacheIsCurrent`, `FallbackIsBoot`, `OneListener`; `Converges` |
| `governed_calls` | 6 surfaces (flat and hierarchical chat and streams, embeddings, documents) times 6 safety plans, 8 billing modes, 9 routes and 4 meetings of request and guard where valid; up to 2 failing operations at any place | `SpendBooked`, `HoldsResolved`, `CoveredBeforeRun`, `RetryIsFree`, `PaidIsAudited`, `DataStaysApproved`, `BothSidesScreened` |
| `classifier_raw_pii` | the same without failures | violation: `ClassifierSeesNoRawPii` |
| `deliveries` | 2 replicas, eight workloads (one call's alert; two calls' alerts; usage; subscriptions, and the same around a checkout; checkouts; checkouts the code drops; top-ups and pruning), up to 2 faults | `WebhooksAtLeastOnce` (refinement), `UsageInvoiced`, `OneReplicaActs`, `PaymentsApplyOnce`; `DeliveriesEnd` |
| `access` | 3 operators, 3 keys, 2 replicas, six workloads (key management; billing with and without budget trees; reads; time against rotation, revocation and expiry) | `OperatorsStayHome`, `DeadSecretsFade` |
| `clients` | every kind of call with 3 attempts; streams of 2 deltas and 1 line of noise | `AnswersWhole`; `ExchangesEnd` |

Every run that passes sets `CHECK_DEADLOCK FALSE`: requests, calls and
activations end and a replica stops, and then the system has nothing to do.

Most invariants are a conjunction of named parts, which a counterexample tells
apart:

| Invariant | Parts |
|---|---|
| `LeasesSound` (`FlatBudget`) | `SingleUse`: a lease is consumed once; `NoDoubleFree`: a row reserves no less than its leases hold |
| `LedgerExact` (`FlatBudget`) | `BooksExact`: a row reserves and counts what its requests hold and a call in flight within the stale window has its lease (`HoldsExact`, `RequestsExact`, `HoldBacked`); `SpendExact`: what ran is booked and not twice (`PromptSpendBooked`, `NeverOvercharged`) |
| `WalletExact` (`Wallet`) | the wallet reserves what its rows hold and no less (`HoldsExact`, `WalletCovered`); `DebitExact`: `DebitedOnce`, `SettledIsDebited`, and `HoldsBacked`: it has the credits it promised |
| `NodesExact` (`NodeBudget`) | `PathExact`: `PathHoldsExact`, `PathRequestsExact`; `SettledIsBooked` |
| `EndsOnce`, `NobodyForgotten` (`Stream`) | `OneTerminal`; `SentIsNotRefunded`: no release after a delta; `GoneIsAborted`; `NotServedFree` |
| `ActiveIsAudited`, `Approved` (`PolicyStore`) | `SingleActive`, `AuditTellsActive`, `ChainIsLinear`; `TwoPersons`, `ActiveIsApproved` |
| `CacheIsCurrent`, `OneListener` (`PolicyReplica`) | `ToldIsServed`, `WithinTTL`; `InOnePlace`, `StopIsFinal` |
| `SpendBooked` (`GovernedCalls`) | `Exact` when nothing failed; never more than was charged; a stream's unreported cost not above its hold |
| `OperatorsStayHome` (`DataPlane`) | `OnlyOwnSecrets`, `OnlyOwnReads`, `OnlyOwnEffects`, `KeysStayInScope` |
| `OneReplicaActs` (`Deliveries`) | `AlertOncePerMonth`, `SweepsExclusive` |
| `AnswersWhole` (`Clients`) | `PaidOnce`, `TruncationTold` |

The type invariant of a module is a conjunct of one of its invariants.

Why the bounds are enough.  Requests of a ledger interact through sums on
shared rows and through nothing else, so a second request is enough to be the
victim of a wrong refund, and the caps are chosen so that two primary holds fit
and a further one or a second top-up does not.  `NodeBudget` needs a third to
put two on one shard and one on the other.  Amounts are 0 to 5: an estimate
cheaper and one dearer than the cost, a fallback dearer and one not dearer than
the hold, a zero estimate.  A key needs three requests: an owner, one with
another body that takes over, one that is answered from the row.  `claimKey`
starts over once where the code does three times, so that three requests can
make it give up.  A stream needs one delta before and one after each event.
Activations meet in pairs, on the row of either's target, on the active row and
on the audit lock; the third finds a version active that is not the one it
saw.  A stale callback needs a second client to do harm to, an overtaken load a
second load, and an older version a second activation.

Governed calls share no state but the ledgers, so that one call at a time is
the system; what matters is that its configurations are diverse: two kinds of
personal data, one masked and one blocked, two classes, a fallback of the same
and of another provider, budgets below, at and above each threshold, usage that
is reported or not, and two failing operations, since the unwinding of a first
failure is where the second strikes.  In `deliveries` two callers, two ticks and
two deliveries of an event give every overlap of two workers; a fault more than
the two of a workload repeats one.  In `access` a key for each of root, admin
and one created, two requests at a time where time passes (a lookup in flight
while a key dies) and one where it does not (there a request commits in one
statement, and a sequence of them is what can go wrong); four secrets allow two
rotations.  In `clients` a third attempt is the first that follows a retry of a
retry; two deltas tell a lost one from a reordered one.

Fairness.  A started request goes on (the awaits in it have a timeout: the
provider's, the statement's, the idle timer; the one without, the text of a
refused stream, is given no fairness), leases age, and the maintenance interval
never stops.  `FlatBudget` needs strong fairness for the release of a
row, since a failing sweep may return to it again and again; the code justifies
this because each tick selects all stale rows anew and the failures of the
database are transient.  In `Stream`, timers fire, sockets emit `close`, a
client reads unless it is a slow reader, and the sweep comes for a lease that a
stalled error keeps.  In `PolicyStore` a statement that
waits for no lock ends (statement timeouts), so `CallsEnd` says that no
activations wait for each other in a circle.  In `PolicyReplica` loads end and
time passes; nothing is assumed of the listener, which may never connect, so
`Converges` rests on the time to live alone.  In `Deliveries` ticks go on, a
POST or report is answered or times out, and rows come due; faults are bounded.
A webhook has a timer of its own, but the POST of a meter event has none
(`billing/stripe.ts:103-111`): that it ends rests on the HTTP client's defaults.
In `Clients` the code goes on and armed timers fire; nothing is assumed of the
other side of a connection, which is what `ExchangesEnd` is about.  No fairness
is assumed of crashes, faults, disconnects, new requests, Stripe or operators.

### What the code does otherwise than it says

One disagreement is a run.  `classifier_raw_pii`: "the classifier forwards text
to a guard model, so it must never see raw PII" (`services/safety/composite.ts`),
but the masking it relies on follows the plan's scope and entities, so that
under `scope: output` or a plan that allows a kind on the way in the classifier
gets text as it came; `classifier_raw_pii` finds the configuration.

The properties of passing runs are stated with the exception the code makes, so
that the rest is still checked.  These were found on the way; each says where
the code and its comments part.

Ledgers and streams:

* `findStaleReservationLeases` ends in `FOR UPDATE` but runs outside a
  transaction, so its locks are gone when the releases start.  A top-up in
  between is added to the lease, the sweep frees the older amount and deletes
  the row: the difference stays in `reserved_usd`, the state the comment at
  `modules/usage/repo.ts:366-371` describes as excluded.  `HoldsExact` excludes
  rows with a request whose top-up was lost or left to the sweep.
* A wallet hold whose base row was swept while a younger top-up row is left is
  settled for its whole amount (`billing/repo.ts:245`, against
  `db/pool.ts:121-124`): `wallet_faults` therefore has no request that outlives
  its lease; with `Slow = {r1}` it finds `WalletCovered` violated.
* `providerBudget.ts:87` throws before it notes a top-up whose answer was lost;
  `WalletExact` accounts for holds that were settled for less than their rows.
* `chat/lifecycle.ts:440` starts `releaseWithSafety` again after an unwinding
  failed half-way, and `recordIncurredCost` is gated by nothing: the
  classifier's spend may be booked twice (`NeverOvercharged`, `SpendBooked`).
* `COMPLETE_SQL` names the key and not the claim: the owner of a claim that was
  swept writes into its successor's row; `idem_faults` has no such owner, and
  finds `ReplaySameBody` violated with one.
* The duration cap of a stream wakes no loop that waits for its client: the
  lease is swept first (`CapBeatsSweep` fails with a slow reader).
  `NotServedFree` also excludes streams whose provider sends frames without text
  for more than an idle window before the first delta.
* `chatStream` means its idle timeout to keep a silent provider from holding the
  reservation until the stale-lease sweep (`litellm.ts:336-342`).  On an answer
  that is no success it clears the timer and drops the caller's signal before it
  awaits the text (402-404): a proxy that sends such headers and stalls holds
  the stream until that sweep has its lease, and its client's leaving releases
  the hold but does not end the read.  `HoldEnds` covers the hold,
  `ExchangesEnd` excepts the route (`RefusalOnly`).

Governed calls:

* `settlement.ts:15-17` wants every exit after the provider's call to settle;
  an error of the output screen is rethrown past it (`pipeline.ts:247`;
  `EveryExitSettles` would fail).
* `chat/prep.ts:283` marks the failure to write a row as free of charge after
  the classifier's spend was booked (`AuditFailureIsFree` would fail).
* The cost of a classification that contradicts itself is lost
  (`injection.ts:98`), and so is, for a stream whose client leaves before its
  first token, the provider's charge; such a stream leaves no row either.

Deliveries and billing:

* The budget alert is promised at most once per calendar month; the outbox
  sends at least once, and the direct fallback of a failed enqueue besides.
* An event without `created` is to be "treated as 0 (apply)" and never applies
  an upgrade; a checkout sets the user type with no regard to the order of
  subscription events, until the next one applies (`NewestPlanWins` excepts it
  until then); a subscription event that precedes its account is answered 200
  and dropped.
* A paid checkout is answered 200 and not credited, so that Stripe does not
  deliver it again, if its metadata has no user (`billing/service.ts:334`, with
  no warning), if its total is of another currency (377-384) or absent or
  nothing (394) and `credits_usd` names no amount.  `GrantedOnce` is about the
  others (`Creditable`).

Keys and reports:

* Rotation promises that the old secret stops "immediately" (`keys/routes.ts`,
  `docs/api.md:42`); a lookup in flight is cached after the clear, for a TTL,
  and other replicas are told nothing.
* The ceiling of permissions at creation is not applied by rotation.  A platform
  operator's change to a tenant's key is audited under `''`.  A pause leaves no
  audit row.  Lists of requests are not confined by `allowedUserIds` unless a
  user is asked for, one request is; `GET /keys` is not confined to the key's
  project; a `data:erase` key of the default partition erases in every one; a
  caller without a tenant can use no budget node.

Clients:

* `ProviderError` is documented for network errors and timeouts
  (`litellm.ts:61-65`); a body that stalls or is lost after the headers raises a
  raw error instead, so there is no fallback and the charge is unbooked.
* Embeddings with incomplete vectors raise a `ProviderError`: the fallback pays
  a second time (`PaidOnce` excepts it).  A lost 2xx body of Textract or
  Tesseract is an empty, billed extraction (`readJsonSafe`).
* `chatStream` skips in-band error objects and needs no `[DONE]`, so an early
  clean end counts as complete; after `[DONE]` it reads on, and a proxy that
  stalls there turns a complete answer into `event: error`.
* The TypeScript SDK clears its timer when the headers are there: a body may
  hang, and a lost one is `{}`, a success (`ExchangesEnd` and `Clients` have
  both); its stream timer is total, 60 s, where the server's cap is 10 minutes.
* A stream that an intermediary ends cleanly returns without its done frame,
  which is all that tells it from a complete one.  The Python SDK then also
  yields the half line it holds as text.  Its `chat_stream` documents an
  `Idempotency-Key` "exactly as in `chat`" (`client.py:280`), which the gateway
  refuses for streams (`chat/routes.ts:139-146`).

## 4. The proofs

| Module | Theorem | Assumptions beyond those on the constants |
|---|---|---|
| `FlatBudgetProofs` | `TypeCorrect`, `LeasesAreSound`, `CapsHold`, `LedgerIsExact` | none: any requests, rows, caps, faults, slow requests |
| `LedgerProofs` | `WalletIsExact` of the wallet | `SteadyTopUps`: a slow request tops up nothing |
| | `NodesAreExact`, `NodeCapsHold`, `NodesAreALedger` (the refinement) of the hierarchical budgets | none: any tree, shards, caps, faults, slow requests |
| `RequestProofs` | `KeyTypes`, `OneRequestProduces`, `PaidOutcomesAreReplayed`, `ReplaysMatchTheBody` of a request's idempotency key | `Slow = {}` |
| | `TenantsAreIsolated` of the data plane (its `OperatorsStayHome`), `SecretsDie` (its `DeadSecretsFade`) | none: any tenants, parties, keys, replicas and workloads that satisfy `WorkloadsAssumption` (below) |
| `StreamProofs` | `StreamEndsOnce`, `StreamForgetsNobody` of one streamed chat | none |
| | `AnswersAreWhole` of `Clients` (its `AnswersWhole`) | none: any attempts, retried statuses, lengths of an answer and noise |
| `GovernedCallsProofs` | `RetryCostsNothing`, `DataReachesTheApproved`, `CoveredAtTheCall`, `HoldsAreResolved`, `DataIsScreened`, `CostIsOnTheRow`, `SpendIsBooked` | none: any configuration, request, guard, answers, and any number of failing operations (`MaxFaults`) |
| `PolicyProofs` | `TypeCorrect`, `ListenerIsOne`, `CacheStaysCurrent`, `FallbackOnlyAtBoot` | none: any clients, loads, time to live, activations, failures |
| | `TheLogTellsTheActive` of the store (its `ActiveIsAudited`) | none: any operators, versions, replicas, activations, aborts |
| | `TwoPersonsApprove` of the store (its `Approved`) | `DistinctIdentities`: no operator's stable identity is another's name |
| `DeliveriesProofs` | `OutboxIsAQueue` (the refinement), `ReportedIsInvoiced`, `WorkIsElected`, `PaymentsAreExact` | none: any callers, requests, events, handlers, replicas, workloads, attempts, faults |

`WeightLemmas` holds what the ledgers share: what adding, removing and raising
one element of a set does to the sum of its weights.

`FlatBudget`.  `SingleUse` is not inductive: nothing in it keeps a request that
has not started from having a lease.  `LeaseInv` adds that a new request left
no trace (`FreshUntouched`) and that neither the request (`HoldCovered`) nor
the sweep's snapshot (`SnapCovered`) claims more than the lease row says.
`SnapCovered` survives a top-up because a lease only grows, which is why the
race of the sweep with a top-up strands money and cannot free too much: it is
the reason `NoDoubleFree` holds with slow requests although `HoldsExact` does
not.  `NoDoubleFree` then follows action by action: a refund is gated by a live
lease, at most as large as it, and the sum over the holders of a row loses
exactly that term.  `CapRespected` follows from the check in `Fits`, and
`overrun` absorbs what is booked beyond a hold.

`LedgerExact` needs three more invariants.  `TraceInv` ties `leaseEst` and `hold` to where the
request is and says that a request that is not slow has its lease until it
deletes it itself; a slow one can only lose it to the sweep, and then stays
lost; and that a request once out of step with its lease (not `Steady`) never
comes back into step.  `ChargeInv` carries what the request has cost and been charged through
settlement and unwinding: the bound doubles exactly for a request in `outer`,
whose safety cost the outer `catch` books again.  `HoldsStep` moves the
reserved money of a row and the sum of its live holds by the same amount with
each action, on the rows all of whose requests are in step.

`Wallet` and `NodeBudget`.  `WInv` says of a request which of its two rows
exist by where it is (`Shape`), that a debit consumed the rows it was for
(`Debit`), and of an account that its live rows and what a settle left stranded
add up to what it has reserved (`Money`).  `SteadyTopUps` is needed: the sweep
may take the base row of a slow request, which then tops up; its settle deletes
the row of the top-up and frees both amounts.  TLC finds `WalletCovered`
violated with one such request.  `NInv` says the same of a path, one row at a
time: the holds and the count of a row are the sums over the live leases on it,
and a row with a cap keeps its used and reserved within its share of the cap
plus what was booked beyond a hold.  The cap of a node is then the sum of its
shares, of which there are no more than shards.

The refinement `NodesAreALedger` needs more, since it speaks of steps: a release
is a step of `HoldLedger` only if the hold was not settled before, and a settle
only if what it books is a cost of the call.  `OInv` says so: a lease that is
there, or a request that may still be unwound, has booked nothing, one that was
rejected has left no trace, and a settling one carries a cost of its own.  With
it a reserve that commits is `Hold`, a settle `Settle` with or without the lease,
a release or a sweep `Free` of the leases it deletes, and what fails a stutter.
That `GREATEST(reserved - x, 0)` is the plain subtraction of `HoldLedger` is
`LeasesCovered`: what any set of live leases holds of a row is reserved there.
The mutant `SettleFreesAlways`, a settle that does not look at the lease,
breaks just this.

`Idempotency`.  The invariant ties the row to the one request that owns it:
a processing row's owner is producing or has ended, a completed row holds a
request's own result with the hash of its body, and no two requests own.
With a slow request it fails; the assumption is needed, not convenient.

`DataPlane`.  `OnlyOwnSecrets` says which secrets a party knows, and nothing of
how a secret comes to stand for a key.  `PlaneInv` follows both ways.  A party
knows a secret or is about to be shown it (`Knower`); a key has it in its row, a
replica remembers that it had, or a lookup was answered so (`Stands`): a key
that stands for a secret of a confined party is of that party's partition
(`SecretsInv`), although the row has another secret by now and the answer is
stale.  A new secret was known to nobody (`DrawnInv`), so whoever commits its
creation is its first knower.  An admitted request of a confined party has its
partition and, in the default one, which has no tenant, neither
`tenant:switch` nor `data:erase` (`AdmissionInv`); every read and write is then
shown to have asked for the rows of that partition.  `WorkloadsAssumption` speaks
of the first state: who is confined holds secrets of its partition, no key of
the default partition can switch tenants, and no key bound to no tenant is
granted `data:erase` without `tenant:switch`.  The last is needed and is not
enforced by the code: `POST /keys` lets an owner grant the one without the
other, and a request with no tenant erases a user in every partition
(`modules/governance/repo.ts:71-79` says so).  The login roles satisfy it: of
them only `owner` erases.  Each workload of the run `access` satisfies
the assumption, and TLC has checked `PlaneInv` and `TimeInv` on that run.

`TimeInv`, for `DeadSecretsFade`, counts: a secret no key is active with has
been so for `gone` ticks, at most as many as a lookup under way that found it
active is old (`age <= Latency`), and together with the time its entry is still
remembered at most the horizon, `Latency + TTL`.  A tick moves both sides by
one, an answer that arrives starts its TTL at an `age` that covers `gone`, and
whatever kills a secret finds `gone` at zero.

`Stream`.  Two facts: the flag counts the terminal actions begun, and the only
listener that releases is gone before the first delta is written.  For
`NobodyForgotten`, `Watched` says which listener and which timer are in place at
each point of the loop, and that an abort has been signalled whenever the client
is gone or the cap has fired; `SlowIsWhy` that only a client or a provider that
outlasts every timer lets the lease be swept first.  While the text of an error
is awaited the early listener is still attached, but what it aborts no longer
listens: `GoneIsAborted` says nothing of that phase.

`GovernedCalls`.  The handler is a program with a list of operations it has
still to run (`todo`), so each invariant speaks of that list as much as of the
state.  `PaidInv`: once a model has charged, what is left to do can only settle,
write the row or bill, and no row that may be lost carries a reply that asks
for a retry; every one of the twenty or so lists the exits put together is
shown to be such a list.  `ApprovedInv`: a decision that was taken permits its
class, and the data class its provider; the plan is the one the configuration
resolves to, so a classifier that was asked was an approved or a local one.
`CoverInv`: at each point of the order the lease and the hold are what
`reserved` says (with the stages of a top-up in between), and the decision's
estimate is at least the price of its model for what is sent (`DecidedWell`).
`ResolveInv`: at a reply, what is still held has an operation in `todo` that
gives it back, or that operation has failed and was logged (`LeaseLogged`,
`HoldLogged`); `Queue` and `Orderly` say that a partial return comes first and
is followed by the release of the rest.  The faults are a sequence without a
bound.  `ScreenInv`: from the decision on the plan says what is done to every
kind of data (`PlanShaped`, from what `piiSchema` accepts), past the guard the
text holds nothing the plan masks or refuses, a strictly grounded chat has a
context, and a stream has no plan for its output, since it was refused
otherwise; one lemma each for the input, the answer, its structured values and
the extract then says that the guard's `allow` leaves a `Clean` text.
`AuditInv`: until the reply is decided what the classifier was paid, less what
the guard forgot, is `safety`; from then on the one row of that cost is among
what is left to do or written (`Carries`), or the call is one of the `Exempt`;
after the row nothing is left but the settlement of the credits (`RowLast`);
and a catch block that repeats a release does so before any model has charged
(`Repeats`).  It leans on `CoverInv`, for a stream cut at its first delta is
priced at what it holds, and that this is no less than `safety` is what was
held for it; and on the cost a provider reports not being negative, which
`explicitResponseCost` sees to and `LoadedCalls` assumes.
`MoneyInv`, for `SpendBooked`, adds up the books and what `todo` has still to
book.  Jobs fall in three kinds, by the ledger they book in (`Internal`,
`Credit`, `Metered`), and a list leaves each ledger at most one amount to book
(`Leaves`, `Listed`): that every exit of every surface composes such a list is
shown once for the lists (`Closing`) and then exit by exit.  `Bound`: with what
is due added, no ledger exceeds what was charged, whichever jobs fail and are
logged; only a release that the outer catch repeats is exempt, and `Repeats`
of `AuditInv` says where that can begin.  `Balance`: as long as nothing has
failed, books and due make exactly `Known`, in the ledgers of the billing mode
and in no other.  A job books only what is still held, so `Backed` carries the
lease and the hold to the job that settles them; and `Apart` that a call is
settled or released, never both, or the hold would be gone.  The theorem also
proves the types of `TypeOK`, replies included (`TypeInv`).

`Policy` picks classes with `Max` and `Min`; that such a number exists
is an induction over numbers, which the library's theorem cannot state here
(its argument is an operator), and is had from the well-foundedness of `<`
(`NatLessThanWellFounded`, `WFMin`), whose arguments are sets.

Two definitions were corrected while these were proved: the error codes of
`EvaluateAiRequest` were arms of a CASE that overlapped, where the code tests
them in order; and a stream whose release fails dropped every later release of
a lease from `todo`, where `releaseStream` leaves out only the one that follows
a failed booking.

`PolicyReplica`.  The listener's part is inductive as it stands.  The cache's
is not: `EntryInv` adds that a load which has read nothing is not stale, that
what the entry has read is no older than `told` (an invalidation lets go of the
entry, so what is read after it is newer), that `stale <= age` (the clock of
the entry starts before its read, so that it cannot be out of date for longer
than it is old: the mutant `LoadedRenewed` breaks just this), and that a load
sent when there was a good policy finds one at its end.  `WithinTTL` is then
`stale <= age < TTL`.  `InboxInv` bounds what notifications can tell by what
was committed; it is what ties `told` to the store.

`PolicyStore`.  `ActiveInv` says what a call may rely on between its statements:
once it has set its target no other call is writing (`InDoubt` waits for that
one), so that what its first UPDATE left active is still all there is to
remove; and once it has read the last audit row it has the advisory lock, so
that the row is still the last.  The row locks play no part in either: `seen`
and `owner` decide only who waits.  `ReviewInv` carries the author through the
review: a proposal has one of its author's names, so who may approve it is
another operator, and what he leaves in `reviewed_by` is his stable identity.
That this is no name of the author's is the assumption: the check of
`reviewConfigVersion` compares names, and could not tell an operator whose key
id is another's display name from that other one.

`Deliveries`.  The refinement needs that a delivery confirmed by a late mark
left a copy, and that copies never outnumber attempts.  `received <= attempts`
is not inductive, for a POST under way may still add a copy: `CopiesCounted`
reserves an attempt for each unanswered POST (`received + |Open| <= attempts`),
and `PostsSound` makes those attempts distinct, since a claim counts before it
posts; the mutant `ClaimUncounted` breaks just this.  Claims then map to `Try`,
accepted POSTs to `Arrive`, marks to `Confirm`, a last failed POST to `GiveUp`
(or a worker that dies with it), everything else to a stutter.  `MeterInv` is
the same for reports, with the history `refused` and `crossed` tied to the
reports under way.  `ElectInv` ties each awaited POST and report to the phase of
its worker and, while no fault has struck, to the holder of the lock.
`StripeInv` says that what is remembered as processed was credited, that what
was credited is remembered for as long as it may be delivered again (which is
what makes pruning harmless), and that the guard of an account is the second of
the newest event it has seen; the tie between a downgrade and an upgrade of one
second is then decided the same way in either order, and an event that applies
decides the type whatever a checkout made of it before.

`Clients`.  A stream and a call share no state, and so have an invariant each.
`RelayInv` follows a delta down: upstream the deltas are numbered in the order
they were sent, and one has been parsed exactly if it was relayed (`UpInv`), so
that the next one parsed is the next to be relayed; downstream there are the
deltas in order and then, once the route has closed, the two frames that say
how it ended, the good ones only after the upstream ended cleanly and all was
relayed (`DownInv`); and what an SDK has yielded, and its two flags, are a
function of how many lines it has parsed, until it ends (`SdkInv`).  That a
stream without its done frame returned only after a `cut` is the case of a clean
end: every line has then been parsed, so the SDK would have returned before.
`CallInv`: only a priced request is charged, once, when it succeeds (`Now`);
whatever sends another priced one is guarded by a failure of the last, but for
the fallback of embeddings that came incomplete, of which there is one
(`ChargeInv`); a poll follows a submission that was charged, and is not priced;
and the kind of a call says which exchanges it has (`StepsOf`), so that an
answer was read from a priced one or a poll.  Two guards were corrected while
this was proved: a document whose source was refused could still be sent.

Only model-checked: everything about fairness (`HoldsDrain`, `LeasesDrain`,
`PathHoldsDrain`, `ClaimsEnd`, `HoldEnds`, `CallsEnd`, `Converges`,
`DeliveriesEnd`, `ExchangesEnd`), which is out of the prover's reach with these
backends.  Every safety property the passing runs check is stated by a theorem.

## 5. Not modelled

Windows and their change at midnight, token counters, the administration of
budget nodes; row locks and so deadlocks of the ledgers, which appear as
aborted transactions only: the node sweep locks the counters of several leases
in the order of the leases, where `modules/budgets/repo.ts:10` argues that
requests, which lock theirs in ascending order, cannot deadlock each other; the
eviction of policies when a replica serves more tenants than `maxEntries`; a
failed `pg_advisory_unlock`, after which a pooled connection keeps its lock; an
older load that ends late and puts its version back into `lastGood`, which the
model allows and no property forbids, since all that is said of that policy is
that it may be stale (`modules/policy/tenantResolver.ts:103-104`).

Payloads are what properties tell apart: a text is the kinds of data in it, a
price a few units, a frame its kind.  Parsing of YAML, JSON schema checks, the
assembly of prompts, token counting, Stripe's signatures, OIDC tokens, paging
and the sums of reports, the export and verification of the audit chain are
left out.  A transaction that waits is not distinguished from one that has not
begun.  The application shell, setup, health, the command line, the project
generator, the operator console and deployment are wiring, one-shot programs
and pages over the operations above, with no state of their own that several
actors share.

## 6. Plan

Next, in this order:

1. `LockOrder`: the transactions as sequences of row locks, and who can wait
   for whom: `topUpBudget` (counters, then lease) against settle and release
   (lease, then counters), the node sweep's one transaction over many leases.
   It is the one hazard in `PROJECT.json` that no property covers.
2. `HoldLedger` with top-ups and with spend that may be dropped, so that
   `FlatBudget` (for requests within the stale window) and `Wallet` implement it
   too, and so that `CallLedger`'s one-step operations are its steps.

Bounds to keep: a run finishes within two minutes or so on two workers, so that
the whole project can be checked on every change; a component has one run with
all its faults, and a second only for a disagreement with the documentation.
