# Vinzy-Engine: models and proofs

TLA+ models of the licensing server in `src/src/vinzy_engine`, the TLC runs that
check them on small instances and the theorems TLAPS proves about them for every
instance. Paths below are relative to `src/src/vinzy_engine`.

## 1. The system

One FastAPI process (the Dockerfile starts a single uvicorn worker) runs every
request handler and every background task on one event loop, over one SQL database.
Concurrency is therefore cooperative: control changes hands at an `await`, and an
`await` of the database, of an HTTP call or of a sleep is where the models cut a
handler into steps. State lives in three places: committed rows, the snapshot and
pending writes of an open session (`common/database.py`, `get_session`: commit at the
end, rollback on an exception), and in-memory objects (caches, queues, task sets)
that a restart loses.

| component | state | operations | talks to |
|---|---|---|---|
| licensing core (`licensing/service.py`) | licence, product, customer rows | create, update, soft delete, validate, compose entitlements | caches, webhooks, key validator |
| caching (`common/caching.py`) | four TTL/LRU maps, invalidation bus | get, set, invalidate, cleanup, publish | licensing, webhooks, self-sufficiency |
| activation (`activation/service.py`) | machine rows, `machines_used` | activate, deactivate, heartbeat | licensing, webhooks |
| expiration sweep, hard delete, webhook delivery, Stripe queue (`background.py`) | a loop each; the Stripe queue | `run_once`, `enqueue` | licence rows, delivery rows |
| webhooks (`webhooks/service.py`) | endpoint and delivery rows, in-process sender tasks | CRUD, dispatch, send, retry | licensing and activation call dispatch |
| webhook retry manager (`self_sufficiency/webhook_retry.py`) | in-memory dead-letter queue | pass, replay, purge | delivery rows |
| cache warmer, self-healing, cleanup (`self_sufficiency/`) | fallback entries, policies | warm, validate with fallback, clean | validation cache, licence rows |
| usage and anomalies (`usage/`, `anomaly/`) | usage records, anomalies | record, check limit, detect | licensing |
| client SDK and leases (`client.py`, `keygen/`, `offline/`) | cached lease, offline usage records | validate, activate, record usage, sync | the server |
| health monitor, Nexus client (`common/health.py`, `nexus_client.py`) | failure counters | check, call | database, remote service |
| pricing, trials, churn, upsell (`pricing/`, `trials/`, `churn/`, `upsell/`) | in-memory ledgers and state machines | grant, spend, commit, redeem, convert | nothing else |
| compliance, analytics (`compliance/`, `analytics/`) | in-memory registries | recognise revenue, rotate keys, investigate | nothing else |

`PROJECT.json` lists every component with its status and the reason for what is left out.

### What is hard here

* a handler's session reads a row, awaits, and writes an absolute value computed from
  what it read (`machines_used`, delivery `attempts`, licence `status`);
* `update_license` removes the cached response before its session commits;
* the sweep selects rows, and writes them by primary key later;
* a webhook's sender task is started before the commit of the row it reports on, and
  shares that row with the delivery processor and with manual retries;
* passes are long transactions: a crash in the middle forgets what was already sent;
* in-memory queues and caches disappear at a restart.

At this commit the start-up code itself stands in the way of the background tasks:
`app.py:45-46` (and `67`, at shutdown) uses a `batch_writer` that is defined nowhere, before
the hard-delete, expiration, webhook and Stripe processors are started, so that the lifespan
of the application raises a `NameError` unless the name is supplied. The models of the
processors, and the fairness of the two liveness properties, are about processors that have
been started.

## 2. The plan

Done, in this order:

1. `Licensing`: the licence row, its cached response, edits, deletion, the sweep.
2. `Activation`: seats, over `Licensing`.
3. The proofs about `Licensing`: types, bounded staleness, what the early invalidation
   guarantees.
4. `WebhookDelivery`: one delivery, its four kinds of writers.
5. `DeadLetters`: the retry manager's passes and its in-memory queue.
6. `OfflineUsage`: record, sync, purge, cancellation.
7. `SeatLedger`, the abstract promise of activation, and `ActivationProofs`: types, the
   counter, the limit, authority, and that `Activation` implements the ledger.
8. `Lists`, `LicenceTable`, `ApprovalCache`, `LicenceRemoval`: the cache warmer, the
   self-healing fallback, the cleanup policies, the hard delete, the composed
   entitlements.
9. `ClientCalls`, `OfflineLease`, `OfflineCache`: retries of calls that are not idempotent,
   the cached lease and the offline licence cache.
10. `StripeQueue`, `HealthProbe`, `NexusBreaker`, `UsageMetering`: the in-memory queue, the
    overlapping probes, the breaker, usage limits under concurrent records.
11. Ledgers and life cycles: `CreditLedger`, `Commitments`, `Promotions`, `RateLimits`,
    `Trials`, `RevenueEntries`, `Loyalty`, `Overage`, `Retention`, `Investigations`,
    `Recovery`, `KeyRotation`, `FraudSignals`, `SchemaMigration`.
12. Pure algorithms against reference definitions: `Composition`, `Pricing`.
13. `BillingProofs`: every safety property of the billing engines.
14. `WebhookProofs`, `OfflineUsageProofs`, `DeadLettersProofs`, `LicenceCachesProofs`: every
    safety invariant of the delivery, the offline tracker, the dead-letter queue and the
    derived caches.
15. `OperationsProofs`: the client, its lease, the health monitor, the circuit breaker, the
    Stripe queue, cases, keys (`ProtocolsHold`, `NothingUndone`).
16. `ListsProofs`: lemmas about lists, sums and ordered dictionaries of any length, by an
    induction derived from the naturals being well founded; and on them, in
    `OperationsProofs`, usage rows and their anomalies, the offline cache, recovery tasks,
    fraud signals and generated migrations (`ListsHold`).
17. `ResultsHold`, the composed entitlements and the prices, over the sums of `Lists`.
18. The types of `MCOperations` (`TypeOK`), with the bounds its guards imply.

Next, most important first:

19. Several deliveries under one `batch_size` in `WebhookDelivery`; it now follows one row
    that a pass may leave out (`PassMiss`).
20. Left out so far and within reach: `offline/anomaly.py`, the tier templates. The rest of
    what is not modelled has no state to speak of (section 7).

## 3. The modules

### Licensing

One licence. `lic` is its committed row (`status`, `is_deleted`, whether `expires_at`
has passed, the two machine counters); `cache` is the validation cache's entry for its
key; `req[p]` is the session of the request in slot `p`, or of the sweep: the `await` it
is suspended at (`pc`), its operation, its edit, the row it has read. `since` counts the
ticks since the committed row was last valid, for the properties only.

A request ends in one of three ways: `Close` after its last step, `Abort` (an exception
or a cancelled task: rollback), `Restart`. Writes become visible at `CommitEdit` and
`CommitSweep`. What the model relies on from SQLAlchemy and the database: an UPDATE
names only the columns whose value changed in the session (`EditedColumn`), an UPDATE
that is flushed holds a lock until the session ends (`Locked`), a SELECT reads committed
rows, and `expire_on_commit=False` with the identity map keeps the first read of a row.

* `validate_license` is `ValidateHit` or `ValidateMiss`, `LoadValid` / `LoadRefused` /
  `LoadPast`, `Fill`, `Answer`. The HMAC check before the SELECT is a pure function of
  the key and the model has valid keys only. `LoadPast` changes nothing: the handler sets
  `status = "expired"`, flushes, and its exception rolls the flush back.
  `check_agent_entitlement` is the same operation followed by a pure lookup.
* `update_license` and `soft_delete_license` are `StartEdit`, `FindEdited`, `WriteEdit`
  (flush and invalidation, with no `await` between them), `CommitEdit`. An edit of
  `tier`, `features`, `entitlements` or `metadata` differs from an edit of
  `machines_limit` in nothing the properties see. The messages on the invalidation bus
  carry the licence's id while the cache's keys carry hashes, so they remove nothing.
* the sweep is `StartSweep`, `WriteSweep`, `CommitSweep`; it does not touch the cache.

Abstractions: time is in ticks; `MaxLatency`, the number of ticks a session may stay
open, is an assumption (the code sets no request timeout) and `BoundedStaleness` is
stated in it; statuses other than the three that `validate_license` rejects behave like
`active` except for the sweep.

### Activation

Extends `Licensing`. `machines` is the set of fingerprints with a committed row,
`act[p]` what a seat request knows besides its session, and `raced` records whether some
seat change has been committed from a licence row that another request had superseded.
`activate` validates first (from the cache, or loading the row into its session), looks
the licence up again without looking at its status, selects the machine, compares the
counter with the limit, flushes, commits. `deactivate` and `heartbeat` start at the
lookup. `WriteConflict` is the unique constraint's IntegrityError and, for the update of
a row that has gone, StaleDataError. A delete of a row that has gone is only a warning,
so it commits and still writes the counter. The steps of `Licensing` are steps of this
module too (`LicensingStep`).

`SeatLedger` is what activation promises: a seat is free or held by one machine, a
machine takes a free seat and gives back its own. `Activation` implements it with the
rows as `taken`, `MaxLimit - machines_used` as `free` and `~raced` as `sound`
(`ImplementsLedger`); what follows the first unsound commit is left open.

### WebhookDelivery

One delivery. `row` is its committed row, `endpoint` its endpoint's status, `tx` the
transaction that dispatches the event, `job[w]` the four kinds of writers: sender tasks,
the pass of the delivery processor, the manual retry. `posts`, `reached` (what has come of
the requests so far) and `meddled` are history, for the properties only.

`Dispatch` inserts the row, starts the sender task and leaves the commit to the caller
(`CommitDispatch`, `RollbackDispatch`); the task posts (`Send`), looks for the row in a
session of its own (`Record`) and writes it. The processor's pass is `PassSelect`,
`PassEndpoint`, `PassPost`, `Write(Pass)`; or it takes other rows and leaves this one out,
due or not, since the queries have a LIMIT and no ORDER BY (`PassMiss`, `PassEndOthers`);
the manual retry `RetryRead`, `RetryFlush`
(which starts a task), `RetryCommit`. Each writer's UPDATE names the columns it saw change
(`Named`, `Written`), so concurrent writers mix their columns; only the manual retry
awaits between flush and commit, so only it holds the row's lock across a step. The
answer of the endpoint is external: 2xx or anything else. `Cascades` says whether the
database enforces the foreign key's ON DELETE CASCADE (SQLite does not unless told to).
`next_retry_at` is NULL, ahead or reached (`Due`). The `attempts` column saturates at
`AttemptsCap`. `Begun` is a writer that starts from the row it has just read.

### DeadLetters

Several deliveries, the retry manager's pass over them, and the queue. A pass is one
transaction over a batch: `PassSelect`, then one of `PassGiveUp`, `PassSucceed`,
`PassFail` for each row, which enter a delivery in the queue at once (`MoveToDlq`), then
`PassCommit` or `PassAbort`. `queue` is in the order of `dead_lettered_at`; `Add` evicts
the oldest entry that is not replayed even when the delivery is in the queue already (a
removal is written as a shift of indexes, about which one can prove something). A replay commits the row first and marks the entry afterwards (`ReplayRead`,
`ReplayCommit`, `ReplayMark`). The sender, the delivery processor and the manual retry write
the same rows, whatever their status: the manual retry resets a `dead_letter` row while its
entry waits, and a sender may come late. `Others` is what they leave a row in; `loose` records,
for the properties, the rows they took from the dead letters and the entries of passes that
were cut short. When a failed row is due is left open (`MayBeDue`): `next_retry_at` only keeps
rows out of a pass, and no pass has to take one. No start-up code runs the manager; it and the
delivery processor select the same rows, so running both sends twice.

### OfflineUsage

The bounded buffer of `OfflineUsageTracker` (events are numbered as they are recorded and
every list of the tracker is in that order, so lists are sets and the next is the `Oldest`),
the event objects (which a coroutine may
still hold when the buffer has lost them), the coroutines that report them and their
callers' sessions. `Proceed` is everything a coroutine does between two awaits. The
service that `sync` calls is an argument; it and the callback of `sync_by_license` are
external. A report ends `Accepted`, `Refused` before anything was written, or `Halfway`:
`UsageService.record_usage` adds and flushes its row before it computes the total, records
the audit event and dispatches the webhook, any of which may raise; the handler swallows the
exception, so the row stays in the session that its caller commits, and the event stays in
the buffer. (`sync` passes `raw_key=""`, which `UsageService` refuses before it writes; with
that service every event ends `Refused`. The model is of `sync` with any service.) `sync`
writes through its caller's session, committed or rolled back after it has returned
(`Commit`, `Rollback`); the callback commits each event. `Cancel` is a cancelled task:
`CancelledError` passes `except Exception`. A sync that finds the flag up returns without a
change.

### The caches and what fills them

`LicenceTable` is the licence rows of one customer as the other components see them; a row
changes there when its writer commits. `Lists` has the code's lists and ordered dictionaries
as operators on sequences: `TTLCache`, the least recently used entry first, and a filter, a
sum, the last elements and a concatenation, written as functions recursive in the length.

`ApprovalCache` is the validation cache (`vcache`) with everything that writes it. A
validation that is served or refused is one step (`Validate`); one that finds nothing cached
reads its row and the clock (`Ask`), awaits the product, the audit event and the webhook, and
caches what it has read (`Answer`) or fails (`AskFails`). An edit flushes and clears the cache
(`EditFlush`), and commits or rolls back later (`EditCommit`, `EditAborts`); what overlaps it
may store the old approval again. Self-healing validation is `Ask` and `Answer` with the
database up, `Heal` when `validate_license` answers from the cache, which stores the answer
again, `HealRefused` when it raises, `HealFails` when the database does, `HealCached` when the
database is held to be down. An entry remembers, for the properties, when its row was read,
who stored it, whether it had run out, whether an edit of it overlapped its way into the
cache, and whether it was renewed. The warmer approves by status and never reads
`expires_at`; it selects its rows in one query (`WarmSelect`) and awaits the product of each
before it caches it (`WarmSet`). `WarmFails` is a database error in between. `MaxWarm` and
`MaxLatency` bound the time from the SELECT of the warmer, and of a request, to the store
(the code sets no limit). A cached hit marks the database healthy though nothing touched it
(`heal`).

`LicenceRemoval` is the other things derived from a licence: the composed entitlements of
its customer (`ecache`), which a request reads (`ComposeRead`) and caches after it has awaited
each product (`ComposeStore`), and the rows of other tables (`rows`), under the cleanup's policies
(`CleanupSoft`, `CleanupHard`) and the hard-delete pass (`HardDelete`). `fk` is whether the
database enforces foreign keys: PostgreSQL does, SQLite only when told to.
`MCLicenceCaches` puts the two over one table.

### The client

`ClientCalls` is `_request` with its retries: an attempt ends in an answer, a server
error before (`ServerError`) or after the request was handled (`HandledButFailed`, a 5xx of the
server or of a gateway), or a timeout, after which the server may still handle it (`Late`) or
never see it (`LostRequest`) while the client sends it again. `OfflineLease` is `validate`: the lease of
the last online approval lives in memory and in a file that survives a restart with a key
of its own (`RestartClient`), and answers when the server cannot be reached.
`OfflineCache` is the cache of validation results with its LRU order, its lifetime and the
licence's own expiry; `newest` and `usedAfter`, for the properties only, are the last result
stored for a key and the keys used since a key was.

### Monitors, queues and usage

* `HealthProbe`: the periodic probe and `check_now` share one status and may be in flight
  together; a query that answers after the engine was closed counts as a success and then as a
  failure.
* `NexusBreaker`: overlapping calls, a breaker that counts failures and that only a success
  resets. Ten methods of the client are three actions, since they differ in their payload.
* `StripeQueue`: `Enqueue`, `StartStripe`, `StopStripe` with its `await` (`LoopCancelled`),
  the loop. What provisioning does with an event is a choice of four outcomes (external).
* `UsageMetering`: `record_usage` as one transaction per request, cut where it awaits:
  `CheckLicence`, `Scan` (the anomaly detector over the rows committed by then),
  `InsertAndSum`, `CommitUsage` or `RollbackUsage`. A verdict rests on the last `Window`
  rows (30 in the code) in the order of their commits; the code orders by `created_at`, set
  at the INSERT, and overlapping requests may commit in the other order, which matters only
  where more rows than the window holds exist. The z-score is compared by squares of integers, so no float is
  needed for the thresholds.

### The engines of pricing, trials, churn and loyalty

Each keeps its state in memory and none reads another's; their methods run without an
`await`, so every step is a whole method. One module each, named after what it keeps; the
state variables are the fields of the engine's records for one licence (or contract,
promotion, trial), `now` is the shared `Clock`. `Overage` adds the caller, who asks before
it counts usage and obeys `should_block`. `RevenueEntries` rounds half cents in either
direction, as binary fractions do. Amounts are in cents, scores in hundredths.

`MCBilling` composes them as a sum: `part` names the engine that moves. Interleaving
engines that share no state would multiply the states and show nothing more.

### The registries of compliance, composition and prices

* `Investigations`, `Recovery`, `FraudSignals`: cases, violations with their tasks, and
  signals, each with the eviction at its limit. A `FraudSignals` event carries its own
  time, so events are analysed in any order. The code counts addresses and machines, each
  against a threshold of its own; here an event's address and machine change together, and
  the smaller threshold decides.
* `KeyRotation`: keys as (version character, the version whose secret signed it); issue,
  new version, retirement, the plan and its marks; keys older than the scheme have a random
  first character. `mark_migrated` marks an entry of the plan and nothing else: no code of
  the repository signs a key again.
* `SchemaMigration`: the plan between two snapshots, a list as `diff` builds it, and what
  upgrade and downgrade do, one operation at a time.
* `Composition`: one feature and one agent over up to `MaxLicences` licences in every order,
  since the query states none. Products agree (`Agreed`) when they name one strategy the code
  knows and, unless it adds up, give values of one kind: under "max" a flag and a limit of
  one are equal to Python, and which of them is the result is a matter of order; so is any
  result of a strategy the code does not know, which takes the first value. A model tier is
  one of those the code ranks.
* `Pricing`: the three tier models against a reference that charges unit by unit, the meters
  with their aggregations, plans. The reference is claimed for contiguous tables
  (`Contiguous`): a last tier whose end is below its beginning holds no unit, yet its fee
  is charged, and with an end lower still a negative number of units.

`MCOperations` composes these and the modules of the two sections above, one `part` at a
time, for the same reason. Its properties are conjunctions `Of(part, property)`: each
component's own property, named and commented in its module. `ProtocolsHold` has the
components that wait for others, `ListsHold` those that keep lists or compute from them
(`ComponentsHold` is both), `ResultsHold` entitlements and prices, and `NothingUndone` what a
step of the breaker and of a case may never do.

## 4. The runs

| run | instance | shows |
|---|---|---|
| MCLicensing | 2 requests; validate, update, delete; TTL 1, latency 1 | types; an approval is never older than `TTL + 2 * MaxLatency`; only a validation that overlapped an edit leaves an outdated response; no edit of another column lifts a suspension; expiry is recorded |
| MCLicensingStale | 2 requests; validate, update | *violated*: an outdated response stays in the cache after the edit |
| MCActivation | 2 requests, 2 machines, limit 1; activate, deactivate, heartbeat, update, delete | types; counter and rows agree, and the limit holds, unless raced; a machine is added only within the staleness bound; rows and counter implement `SeatLedger` |
| MCActivationLimit | 2 requests, 2 machines, limit 1 | *violated*: two activations share one seat |
| MCWebhookRow | 1 sender slot, 2 retries, attempts up to 3 | types; no mixture of columns invents a success or forgets a failure; a rolled-back event is sent boundedly often |
| MCWebhookPending | 1 sender slot, 1 retry, cascading deletes | a pending delivery is attempted even when its task is lost, so long as passes are not for ever cut short or busy with other rows |
| MCDeadLetters | 2 deliveries, 1 replay, 2 retries, queue of 1 | types with the queue's bound; a delivery given up waits in the queue, and what waits was given up, except for the overlaps and the writers named |
| MCDeadLettersRace | the same | *violated*: a replay that overlaps a pass marks a delivery replayed that is dead again |
| MCOffline | 2 callers of sync, 1 of sync_by_license, 3 events of 1 licence, buffer 2, batch 2, 1 attempt | types with the buffer's bound; nothing vanishes; nothing is counted twice but for the two reasons named; the flag and the marks mean what they say |
| MCLicenceCaches | 2 licences of a customer that run out at 1, 1 request between SELECT and store, validation cache of 1, TTLs of 1, latency 1, warming 1 row within 1, batch 1, time 4 | types; a cached approval is recent unless renewed; only the warmer approves a licence that has run out; what is served wrongly has run out, or an edit overlapped its way into the cache; composed entitlements catch up in one TTL and one latency; what a deletion leaves behind |
| MCBilling | nine engines, one at a time; small packages, prices, tiers and periods, time 3 | types; credits, commitments, overage and revenue add up; redemptions, granted requests and pauses are bounded; a trial's end is explained by its extensions; loyalty rewards are fair; what has ended stays ended |
| MCOperations | fourteen components, one at a time; 2 concurrent requests, probes or calls, queue of 2, 3 licences, 2 versions, 2 columns, time 2 | types; answers of clients and leases, health, events, cases and keys are what their history accounts for; offline results, usage, tasks, signals, migrations, entitlements and prices are what their definitions say; breakers and closed cases are undone only as named |

**Bounds.** Two request slots are enough for the races of `Licensing` and `Activation`:
each needs one request that has read and one that commits in between. A slot is reused,
so histories of any number of requests occur, two at a time, with the sweep as a third
actor. TTL 1 and latency 1 let an entry be filled by an old request, age, be hit and acted
on late; the theorems cover every other value. `MCActivation` has latency 0, so that a
tick waits for the open sessions; what it checks about races does not depend on time,
and its `ActivationAuthorised` is about the cached approval. One sender slot suffices for `MCWebhookRow`: with the
pass and the manual retry three writers overlap, and the slot is reused for the task of
the retry. Two retries are the least for which `FailedIsScheduled` is claimed. In
`MCOffline` a buffer of 2 for 3 events overflows, a batch of 2 has a next event to mark,
and two callers of `sync` compete while the third ignores the flag; with one attempt an event
fails for good at once and is reported again, as the code does, and a second licence would only
make the batches of `sync_by_license` smaller. A queue of 1 for two
deliveries evicts in every way the code has. `AttemptsCap`, `MaxEvents`, `MaxLimit` and
the saturation of `posts` and `usage` are bounds of the models; each is above the value
from which the code, or a property, no longer distinguishes.

In `MCLicenceCaches` a validation cache of 1 for two licences evicts, TTLs of 1 within
4 ticks run out and are renewed, an expiry at 1 leaves time to edit a licence that is valid,
to clean it up once it is not and to delete it for good after that, one request that has read its row is overtaken by the edits,
the warmer and any number of whole requests, the licences are interchangeable (`Symmetry`), and a batch of 1 leaves a second licence for the next pass.
In `MCBilling` every threshold, limit and period is small enough to be crossed, in every
order, within 3 ticks: packages with and without an expiry, a limit of 2 redemptions, two
tiers with different buckets, a period of 2 with a price of one cent, whose half rounds.
In `MCOperations` each component's limit is met and exceeded: a queue of 2 for 3 events,
two failures that open the breaker with two calls in flight, five rows, judged by the three
before them, against a limit that two large values pass, one kept case of two, three violations kept of five found, two
different limits and ranks, version 2 of 2, two columns that are added, dropped and retyped. The orders of three
licences include those in which the first row decides the strategy.

**Deadlock** is not checked where a model may stop: when its bounded counters are used up.

**Fairness.** `LicFairSpec`: weak for `StartSweep` and `CommitSweep`, since the loop of
the sweep never ends and an `await` of the database returns; strong for `WriteSweep`,
since the row lock it waits for is released again and again by others and the database
queues for it; weak for the commits of edits. `ExpiryIsRecorded` assumes in addition that
passes are not aborted for ever: the loop catches every exception and tries again after
its interval. `FairSpec` of `WebhookDelivery`: the processor's loop never ends and a POST
ends by its timeout (weak), the row's lock is granted in the end (strong), a manual retry
commits (weak); a pass begins, with this row or without it (`PassSelect \/ PassMiss`, weak). That
a pass takes this row is not a matter of fairness: the queries have a LIMIT without an ORDER BY,
and rows that stay "retrying" may fill it for ever. `PendingIsAttempted` therefore says what
holds if, from some time on, no pass that has taken the row is cut short and none leaves it
out that could have taken it (`PassInVain`); and it asks for more than another status, for a request to the endpoint, unless
that was paused or deleted or an admin retried.

## 5. The proofs

Every theorem is about all values of the constants that the named `ASSUME`s of its module
admit: times, limits, lifetimes, amounts and sizes are naturals (positive where the code
divides by them, or where a queue or buffer of none is meaningless), sets of actors do not
overlap, the machines, deliveries and licences are finitely many, `MaxLimit` is at least
every limit. Nothing bounds the requests, workers, replays or senders. Each inductive
invariant was checked by TLC on a small instance before it was proved. Each module proves
one step of the invariant per action and combines them; facts about sequences, sets or
arithmetic that several steps need are lemmas of their own.

**`ActivationProofs`** proves of `Licensing`'s `LicSpec`: `LicTypeOK`, `BoundedStaleness`,
`StaleOnlyByOverlap` and `SuspensionSticks`. None but the first is inductive. `LicInv` adds:
while the licence is valid the clock `since` is zero (`ClockInv`); the row a validation has
read, the cached response and an approval have each been valid within the age of the request,
the age of the entry plus one latency, and one TTL more (`FreshInv`); and an entry that lives
while an edit is flushed was stored after the flush (`OverlapInv`). Each action has a lemma,
so that the proofs about `Activation` cite them. `SuspensionSticks` needs of the sweep that
an open pass selected the licence after its expiry (`SweepInv`), and of edits that an UPDATE
names the columns its session saw change, and no others (`EditOfSuspended`).

It proves of `Activation`'s `Spec`: `TypeOK`, `CounterExactUnlessRaced`,
`SeatLimitUnlessRaced`, `BoundedStaleness`, `ActivationAuthorised` and
`ImplementsLedger`. `ActInv` is `LicInv` together with what each open session remembers
(`ProcInv`): the order of its steps (`CallOK`); that its copy of the counter, and whether
it found the machine's row, are right until another request commits a seat change
(`MemoryOK`); that an activation about to add a row has seen a seat left (`RoomOK`). The
counter is exact because a commit that is not superseded moves it and the rows by the same
machine (`CommitSeatExact`), which is also the step of the ledger. Nothing in this argument
uses the database's lock: superseded memory is the only thing that goes wrong. Steps that
do not concern a session's memory are `Quiet`, and one lemma disposes of them.

**`WebhookProofs`** proves of `WebhookDelivery`'s `Spec`: `TypeOK`, `NoFalseSuccess`,
`PhantomIsBounded` and `FailedIsScheduled`. Three parts of `Inv` carry them. `Phantom`: until
the dispatching transaction commits, the only writer at work is the sender it started, and
every request so far is one of its attempts. `Honest`: nobody holds a success the endpoint
has not given, which must be said of what a writer means to write, not of the row only.
`Scheduled`: as long as nobody has meddled, what a writer has read still bounds the row (a
time that was set is not unset), and what it means to write is scheduled. The three are
needed together because an UPDATE names only the columns its writer saw change
(`WrittenColumns`), so the row is a mixture of two writers' columns.

**`OfflineUsageProofs`** proves `TypeOK`, `CountedOnceBySync`, `FlagMeansSyncing`,
`NothingVanishes` and `SyncingIsInFlight`. `Inv` adds what the coroutines hold (`Coroutines`:
at most one sync awaits, and what it has to do was recorded), where the usage of a reported
event is (`Accounted`: the database, a session, or let go), and what holds of events that no
`sync_by_license` has selected and no report has left written and refused (`Unrepeated`:
counted means marked synced, and a marked event is in no batch of `sync`). That the oldest of a set of events exists is the well-foundedness of the
naturals (`OldestIsLeast`).

**`DeadLettersProofs`** proves `TypeOK`, `DeadIsReplayableUnlessRaced` and
`EntryIsDeadUnlessTaken`. `Inv` says what an open pass may rely on unless the delivery is
raced, though the other writers may change any row under it: nobody else gives up a row it
holds (`Kept`), no replay is between its read and its
mark on one of them (`Apart`), and what it has entered waits in the queue or was evicted
(`EnteredWaits`). `WithoutProperties` and its like say what an addition, an eviction and a
mark do to the queue's entries.

**`LicenceCachesProofs`** proves of `MCLicenceCaches`: all six invariants of its run. These
speak of entries that are served; `Inv` says the same of every entry that is stored, in
terms of its expiry (`Good`, `ComposedSound`), and of every row the warmer, a validation or a
composition holds and has not cached (`WarmingSound`, `AskingSound`, `ComposingSound`), because
a change may come between the two. An entry that lives while an edit is flushed was stored
after the flush, which would have removed it, so it is marked as overlapped before the edit
commits (`Sound`). The lemmas of `ListsProofs`
about entries say that a lookup, a store or a removal keeps one entry per key, keeps the
capacity, and leaves no entry that was not there or has just been stored. `OrphansAreHistory`
is inductive as it stands.

**`BillingProofs`** proves of `MCBilling`'s `Spec`: `CreditsExplained`, `LimitsHold`,
`LedgersAddUp`, `TrialEndExplained`, `LoyaltyFair`, `TypeOK` and the action property
`FinalStays`. Only
the engine `part` names moves, so each engine's invariant has one lemma for its own steps and
is left alone by the others. `CreditInv` says nothing of time: expiry decides when credits go,
not what is left. `RateInv` adds that no bucket was refilled in the future. `RetentionInv`
ties the last assessment to the score of its signals, which grows with each of them
(`ScoreGrows`, `RiskGrows`). `CommitmentInv` adds that every invoice handed out is at least
what a true-up would ask now, and that none precedes a breach. `RevenueInv` rests on two
lemmas of arithmetic: a rounded fraction is within half a unit, so two complementary parts of
an amount miss it by at most one cent (`RoundedIsNear`, `HalvesAddUp`). `TrialInv` bounds
what the extensions record by the longer of the two kinds per use, which is what makes the
allowance shared. `LoyaltyInv` needs that the greatest level a spend reaches exists
(`Greatest`), by the well-foundedness of the naturals again. `FinalStays` needs that sales
are numbered in order (`SoldInv`), so that a new one takes no old one's place. `TypeOK` comes
last: most of it is in those invariants already (`Known`), and a lemma per engine adds what
they leave out, times, statuses and bounds (a rounded share of a sale is a natural, a score
at most 100, its level one of four).

**`ListsProofs`** has no theorem of its own. A set of naturals with 0 and with the successor
of each of its elements lacks none, or the least it lacks would have a predecessor
(`Induction`); so a recursive function exists (`Recursion`), and what it computes can be
said for every length: what a filter keeps and in which order (`KeptProperties`), the sum of
a longer list (`SumOfLonger`), a concatenation without repetitions (`JoinedOnce`), the order
in which a dictionary's entries were used (`GotProperties`, `PutProperties`).

**`OperationsProofs`** proves of `MCOperations`' `Spec` the invariant `ComponentsHold`, which
is `ProtocolsHold` and `ListsHold`, and the action property `NothingUndone`. `OperationsInv` has one part for each component.
`CallsInv` adds to what a caller may be told that the attempts a usage call has left are not
spent yet. `LeaseInv` says of the lease in memory and of the one in the file that each ends
in time after an approval, so that a restart may load either. `HealthInv` counts the failures
in a row and the probes in flight. `NexusCounts` is types only: what the breaker may do is in
its step. `StripeInv` is `EventsAccounted` with types; its step is proved event by event
(`EventByEvent`), for which the queue must be increasing (`Enqueued`, `Dequeued`). `CasesInv`
is `CasesSound` with types; that opening a case evicts enough of the closed ones is a count
(`EvictionEnough`). `RotationInv` adds that no key is signed by a version above the current
one, what a key's character says of its version, and how a plan goes by that character. `NothingUndone`
follows from the same invariant.

Of the components behind `ListsHold`, `OfflineInv` says that an entry is the newest result of
its key, that whatever stands behind it was used after it, and that a result which is gone is
too old or was followed by the use of `CacheSize` other keys (`EnoughUsed`). `MeteringInv`
says of each open transaction what its verdict and its total were computed from, in terms of
the rows committed by now, of which there are only more later (`RowsStay`); that equal values
have no variance, so that any other value is critical, is `BeyondConstant`. `RecoveryInv`
adds that a task's number tells whether it was settled before it was dropped. `FraudInv` ties
the verdict to the profile of the last event; that a signal is raised exactly for what
happened in the window before it is then shown of that profile (`FraudFollows`). `SchemaInv`
says what the database holds when a first part of the plan was run and a last part of it
undone, table by table and column by column (`TableIs`, `ColumnIs`): since the plan has each
operation that is needed once (`PlanIs`), an operation changes the one table or column it
names (`OneTable`, `OneColumn`), and the order does not matter.

`ResultsHold` and `TypeOK` are theorems too. What is claimed of composed entitlements and of
prices is claimed of any list, so the states need no more than their types
(`CompositionInv`, `PricingInv`), and the work is in the functions. A sum is the same in any
order of the list, since permuting it permutes what is summed (`SumInAnyOrder`), and so is
the greatest value, though not its position (`GreatestInAnyOrder`); with that a composed
agent, and a feature on which the products agree, do not depend on the order of the rows
(`AgentInAnyOrder`, `FeatureInAnyOrder`), and a sum or a maximum is at least each of its
parts (`NothingLost`). The graduated price is compared with the price per unit one tier at a
time: what is left for a tier is what lies above its first unit (`LeftForTier`), its charge
is that of a stretch of equal prices (`PriceOfTier`), and nothing is charged beyond the last
one (`PriceBeyond`), which together is `GraduatedIsSum`. `SameTier` says that the first tier
which holds the units and the last whose minimum is reached are one, from the first whole
unit on. Another reading makes every tier's part and every estimate larger or leaves it
(`GraduatedRises`, `VolumeRises`, `EstimateRises`).

`TypeOK` rests on `OperationsInv` and on `TypesInv`, which keeps the types of the components
that are not run and adds what the guards bound and the invariants above leave out.
`CallsBounded`: the attempts that are late, those whose answer was not read and those left
to the call in progress (`Left`) never exceed `MaxRetries` for each call made.
`StripeCounted`: the statistics, which a restart resets, are at most the events that met that
fate. `CasesBounded`: a score exceeds its bound by less than one weight. `PlanTypes`: a plan
is of issued keys. For every other component the types follow from its invariant
(`TypesFollow`).

Every safety invariant and action property that a run checks is a theorem. Liveness
(`ExpiryIsRecorded`, `PendingIsAttempted`) stays with TLC: properties under fairness and
ENABLED are out of the provers' reach. No module here has a RECURSIVE operator.

## 6. What the models brought to light

Refuted by a run, against a sentence of the repository's own (see `findings` in
`PROJECT.json`):

* `licensing/service.py`: `update_license` invalidates the cached response before its
  session commits, so a validation in between stores the old response again.
* `activation/service.py`: two activations that both read the counter before either
  commits pass the limit together and count one seat for two machines.
* `self_sufficiency/webhook_retry.py`: a replay that overlaps a pass leaves a dead
  delivery whose queue entry says it was replayed.

Read off the code while modelling; no sentence of the repository says otherwise, and the
models contain them:

* The sweep writes "expired" by primary key over a status set after its SELECT, a
  suspension included.
* A deactivation that overlaps an activation can leave `machines_used` above the number
  of rows, and nothing reconciles the two.
* The delivery processor selects "retrying" rows without looking at `next_retry_at`, so
  its backoff applies to "failed" rows only; a row it fails for good keeps the time it
  had and, once that is reached, is selected again beyond `max_retries`.
* A manual retry accepts a delivery in any status, a successful one too, and one in
  "dead_letter", whose entry goes on waiting in the dead-letter queue.
* The processor's queries have a LIMIT and no ORDER BY, so nothing makes a pass take a given row.
* `record_usage` flushes its row before it computes the total, records the audit event and
  dispatches the webhook. When one of these raises within `sync`, the exception is swallowed,
  the row commits with the caller's session, and the event is reported again. `sync` names no
  licence (`raw_key=""`), so the repository's own `UsageService` refuses every event.
* `sync_by_license` ignores the flag that keeps two syncs apart; a cancelled report leaves
  its event "syncing", which no later sync selects; events that always fail stay at the
  head of the buffer and starve the rest of a batch.

* Self-healing validation stores again what the cache answered, so an approval that is asked
  for often enough outlives its TTL; its refusals commit the status "expired", since the
  exception is swallowed. A warmed entry approves licences that have run out and lacks the
  field "agents"; a row edited while the warmer awaits a product, or while a validation awaits the rest of its
  work, is cached as it was before. The cleanup and the hard delete clear no cache.
* The composed entitlements ignore `expires_at`, the bus cannot clear their cache, and a
  composition that a change overtakes between its SELECT and its store is cached all the same.
* The hard-delete pass names the dependent tables it knows; usage records and anomalies are
  not among them. Where foreign keys are enforced one such licence refuses the whole batch,
  and, as the query has no ORDER BY, perhaps every later one.
* Client: a POST that timed out, or was answered 5xx after it had been handled, is sent again, so
  usage may be counted twice; a lease lives
  by `lease_ttl`, beyond its licence, and after a restart may answer for another key.
* Health: a query that answers after the engine was closed is a success and a failure. Stripe: events are lost with the
  process or a full queue, and a `start` during `stop` loses track of its loop; nothing calls
  `enqueue`. Usage: the total a request is answered is stale when another commits between.
* Credits: a refund's transaction may exceed what the balance takes back; a release names no
  reservation; expiry leaves credits on hold. Commitments: invoices are not recorded and may
  be issued while the contract is active. Overage: each event charges the overage so far,
  blocked attempts included. Rate limits: a bucket keeps the tier of its first check.
* Trials: `extend_trial` reopens converted and abandoned trials; a referral can be completed
  again and again; EXPIRED and CONVERTING are never set. Loyalty: a tier survives a negative
  spend. Retention: a pause never resumes by itself; conversions are accepted after the
  offer. Promotions: one whose window has passed may stay "active".
* Revenue: the two parts of an amount may miss it by a cent; an earlier `as_of` defers again
  what was recognised.
* Investigations: `escalate` reopens closed cases. Recovery: a second scan finds the same
  violations anew; complete and waive look at no status. Fraud: windows reach into the
  future for events out of order; cloning signals repeat.
* Schema: changes of nullability and indexes are not seen, an alteration has no inverse, a
  dropped column returns as a nullable String.
* Composition: an unlimited (None) limit is lost under "max"; the first row decides the
  strategy though the order is open; a strategy of another name takes the first row's value;
  an agent without "enabled" in one licence and with False
  in another composes to disabled.
* Keys: a key older than the version scheme whose random character reads as the target is
  left alone by the plan and dies with its secret; versions from 32 on wrap; `mark_migrated`
  marks a plan's entry whatever has become of the key.
* Prices: less than one unit is charged by the last tier; graduated prices charge nothing
  beyond a bounded last tier, and a negative number of units in a tier whose end is more than
  one below its beginning; a first tier that starts at 0 is one unit wider; redefining a
  meter reprices its whole period.

## 7. What is not modelled

Each component left out is in `PROJECT.json` with its reason: read-only reports and analytics,
scoring and wording of recommendations, append-only lists (settlements, tier changes), one
closed formula on floats (`enterprise_calc.py`), tables of constants (`tier_templates.py`) and
the HTTP application with its middleware. In the components that are modelled: creation and
listing of rows, formatting, logging, statistics counters, the jitter of backoffs, HMAC and
key parsing (pure functions of valid keys), authentication, and what the component's note in
`PROJECT.json` names. Floating-point arithmetic appears as integers in cents, hundredths or
squares where a decision depends on it, and not otherwise. Seven hazards have no property since
what one would wish is false of the code: the sweep that overwrites a suspension, "retrying" rows
selected ahead of their time, posts sent again after a rollback, pending deliveries and
offline events starved behind others, synced events lost with the caller's rollback, and a
breaker nobody closes. They are described above and in `PROJECT.json`.
