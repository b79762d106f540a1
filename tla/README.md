# A TLA+ verification of Shopee_Management

Shopee_Management lets the owner of several Shopee shops connect them through
OAuth, read their catalogs and analytics, and copy a product from one shop to
others. The calls that change something outside the database (publishing a
product, exchanging an OAuth code, rotating a refresh token) cannot be taken
back, and Shopee may apply a request whose answer is lost. Most of the program's
own logic is there to keep such calls single, ordered and accounted for while
workers crash, leases lapse and processes overlap. That logic is what is
modelled, model-checked and proved here.

Four protocols carry most of it:

| Module | Protocol | Code |
| --- | --- | --- |
| `WriteRecovery` | publishing a confirmed copy in four provider steps, and the recovery of unknown outcomes | `packages/write-recovery` |
| `DeliveryQueue` | outbox, leased jobs, results, dead letters and replays | `packages/delivery` |
| `OAuthExchange` | state, callback, exchange command, worker, grant | `packages/oauth`, `apps/worker` |
| `CredentialRefresh` | rotation of refresh tokens under a row lock, and the access-token cache | `packages/oauth`, `apps/web` |

`SafePublication` (what a seller is promised about a publication) and
`LogicalCommands` (what happens to a command, whatever its jobs go through) are
abstract specifications that the first two implement; `InMemoryDelivery`, the
queue the repository's tests run on, is shown to implement `DeliveryQueue`.
Around them are the parts of the web runtime, each a module of its own:

| Module | Part | Code |
| --- | --- | --- |
| `Dashboard`, `DashboardPanels` | the React application: session, shops, catalog; its panels and their requests | `apps/dashboard` |
| `WebProcess` | environment, session cookie, timer and stop of the inline worker | `apps/web` |
| `Authorization` | the checks before a command | `packages/identity` |
| `CatalogCollection`, `CollectionStore` | the pages a collection asks for; its tables | `packages/catalog`, `shopee-product-catalog.ts` |
| `ProviderReads` | the calls behind ads, insights and product detail | `packages/integrations`, routes of `apps/web` |
| `AnalyticsRuns` | runs, metrics and comparisons | `packages/analytics` |
| `StagingControl`, `PilotMeasurements` | write hold and reconciliation; the pilot's outcome | `packages/staging` |
| `CopyIntents` | previews, intents and their rows | `packages/copy-preview` |
| `RateLimits` | the hierarchical limiter | `packages/integrations` |
| `ScheduleSlots` | one trigger for each slot | `packages/delivery` |
| `PostgresExecutor` | transactions over a pool of connections | `packages/persistence` |

## 1. The system

### Components, their state and how they interact

**Write recovery** (`packages/write-recovery`; tables `write_commands`,
`write_attempts`, `write_recovery_decisions`, `external_operation_attempts`).
`createWritePlan` expands a confirmed command into one attempt per destination
shop; `savePlan` stores command and attempts; `dispatchAttempt` moves an attempt
to `dispatched`; `executeConfirmedWriteWorker` pushes it through
`media_upload`, `item_create`, `variation_init` and `publication`, marking each
operation `sent` before the call and recording the answer after it; the recovery
API and `persistRecoveryDecision` let an operator resolve an `outcome_unknown`.
It consults a revalidator (authorization) before each call.
*Hard:* redelivery while the first worker is alive, a crash between mark, call
and record, an exception after the provider applied the request, two operators
on one attempt. *Correct when* no step is called twice or out of order, no
verdict contradicts the provider, no verdict is overwritten.

**Delivery** (`packages/delivery`; `delivery_commands`, `outbox_events`,
`queue_jobs`, `dead_letter_jobs`, `scheduled_triggers`). Appends an event with
the command's transaction, dispatches it into a job, leases jobs under a fencing
generation, commits and acknowledges results, dead-letters and replays.
*Hard:* duplicate scans, expired leases with the holder alive, worker ids that
are shared, clocks that differ, replays of replays. *Correct when* a command has
one job alive or done, one process can report it, and no command is lost.

**OAuth connection** (`packages/oauth`, run by `apps/worker` and by the inline
worker of `apps/web`; `oauth_states`, `oauth_exchange_commands` with the sealed
code, `credential_subjects`, `shop_credential_bindings`, `oauth_grants`). `start` issues a state, the callback turns it into a command in
one transaction, a worker leases the command, sends the code to Shopee, commits
the grant and completes or fails the command. *Hard:* duplicate and late
callbacks, a lease that lapses during the exchange, a lost COMMIT.
*Correct when* an attempt gives at most one grant, `completed` means that the
grant exists, and only the holder of the lease settles.

**Credential refresh and access tokens** (`postgres-credentials.ts`,
`postgres-worker-refresh.ts`, `inline-oauth-worker.ts`; `credential_subjects`,
`shop_credential_bindings`, a cache and a map of refreshes in flight in each
process). Readers ask the resolver for an access token; without a cached one it
rotates the refresh token under `SELECT ... FOR UPDATE`, held across the call.
*Hard:* two processes with the same revision, an unlocked read before the lock,
a rotation whose transaction is rolled back. *Correct when* the stored token is
the one Shopee accepts, or the subject is fenced as `reauth_required`.

**Copy preview and copy intents** (`packages/copy-preview`) produce the confirmed
command version that write recovery takes. **Catalog**, **analytics** and the
**Shopee integrations** read from Shopee with the resolved token; the **rate
limiter** keeps windows and cooldowns. **Staging** decides whether writes are
open; **identity** authorizes every command. **Persistence** is the pool and the
transaction executor under all of them. `apps/web` serves routes and runs the
inline worker, `apps/worker` runs bounded batches, and `apps/dashboard` is the
application in the operator's browser, with state of its own: the active shop,
the panels, and requests nothing orders.
*Hard* in these parts: answers that overtake each other (dashboard), reads that
go stale between two awaits (authorization, copy intents), one of several calls
that fails (integrations, executor), two statements of one save (staging), requests
with clocks of their own (rate limiter). *Correct when* what is shown, decided or
claimed can be traced to one source, shop and time.
`PROJECT.json` lists every component with its sources and what is left out;
section 7 gives the reasons.

The components interact through PostgreSQL: a callback hands over a command by
inserting it; a worker takes it over by a conditional UPDATE; a job reaches the
write worker at least once. Synchronisation inside a process is the map of
refreshes in flight and the flag of the inline worker's timer; all the rest is row locks (`FOR UPDATE`, `SKIP LOCKED`),
unique keys, compare-and-set UPDATEs and fencing columns, and this is what the
modules keep.

### Hazards

`PROJECT.json` lists the places where this code is hard to test, each at its
line with the properties that would catch it going wrong. The main families:

* a call was marked, and its worker died, or lives on unseen (`write-worker.ts`);
* a lease lapsed and two holders report (`postgres-delivery.ts`,
  `postgres-oauth-exchange-queue.ts`);
* Shopee acted and the transaction that should say so did not commit
  (`postgres-credentials.ts`, `worker-handoff-runner.ts`);
* a row was read before it was locked (`inline-oauth-worker.ts`);
* a verdict, a fence or a settled command overwritten by whoever comes later;
* an answer shown under another shop, range or product than it was asked for
  (`App.tsx`, `ShopPerformance.tsx`);
* one of several steps fails: a call of a page, a statement of a transaction, a
  ROLLBACK (`shopee-ads.ts`, `postgres-staging.ts`, `postgres-executor.ts`).

## 2. Modelling conventions

* A transaction, or a statement outside one, is one action; `PostgresExecutor`
  shows what that rests on. Where a transaction spans a call to Shopee
  (`withRefreshLease`), or its statements are the question (`StagingControl`,
  `ScheduleSlots`), it is several actions, with the lock as a variable or a guard.
* The two questions a transaction asks (which rows, in what state) are operators
  of their own (`Claimable`, `HoldsLease`, `MayDispatch`, `Fresh`), named for the
  code's question; an alternative form marked *Mutant* stands above such an
  operator: the same code with a plausible bug. The mutant forms are used by no
  action. `PROJECT.json` pairs each with the property that must then fail.
* A crash, a thrown exception and a lost answer are actions. The provider is an
  environment: it applies, rejects or never answers; what it did and what the
  caller learns are separate variables.
* Time: `DeliveryQueue` takes arbitrary clock readings for every operation.
  `OAuthExchange` keeps the fact that a deadline has passed (`overdue`,
  `lapsed`), the only thing the code compares an instant with.
* In the dashboard an event, the render it causes and the effects of that render are
  one action: JavaScript runs them before any other event.
* Hashes and identifiers are model values. A binding hash is taken to be one per
  command; a generated id is an unused one.

## 3. The modules

### WriteRecovery

| TLA+ | Code |
| --- | --- |
| `command`, `attempt` | `write_commands.plan`, `write_attempts` |
| `operation` | `external_operation_attempts.state`, per attempt and step |
| `decisions` | `write_recovery_decisions`, append-only |
| `calls`, `request` | calls made to the provider and what it did with them (external) |
| `granted` | what the revalidator answers |
| `pc`, `job`, `step`, `result` | a running `executeConfirmedWriteWorker` |
| `SavePlan`, `DispatchAttempt` | `createWritePlan` with `savePlan`; `dispatchAttempt` with `updateAttempt` |
| `StartExecution` ... `FinishAttempt` | one action for each awaited repository or provider call of the worker's loop |
| `Crash` | the process dies or a call throws where the code does not catch |
| `OpenReview`, `Decide` | the recovery API's `find` and check; `persistRecoveryDecision` |

A worker can stop between any two of its calls, and any number of workers can
execute one attempt. `AwaitResponse` gives the worker an exception whatever the
provider did, so `outcome_unknown` is reached with the request applied, rejected
or still under way.

### DeliveryQueue

| TLA+ | Code |
| --- | --- |
| `outbox`, `jobs`, `dead` | `outbox_events`, `queue_jobs`, `dead_letter_jobs` |
| `token` | the lease a process remembers, current or not |
| `AppendOutbox` | the inserts of the OAuth callback handoff, the one producer of events |
| `DispatchOutbox`, `ClaimJob`, `CommitResult`, `Acknowledge` | the methods of `PostgresDeliveryRepository` |
| `DeadLetter`, `ReplayDeadLetter` | `postgres-delivery-recovery.ts` |
| `Forget` | a process that dies or drops a job (external) |
| `JobIsRead`, `Int8AsNumber` | `onlyJob` inside each transaction; what the driver gives for a `bigint` |

`HoldsLease` is the WHERE of `commitResult` and `deadLetter`. It does not ask
whether the lease has expired, and neither does the model: a late holder may
still commit as long as nobody claimed the job after it.

Every operation but `AppendOutbox` maps the row of its job (`onlyJob`) before its transaction
ends, and `requiredNumber` refuses a `fencing_generation` that is not a number. The driver
the repository uses gives that `bigint` as a string: the operation throws and is undone.
`JobIsRead` is this condition and guards the six actions, since an undone transaction changes
nothing. With `Int8AsNumber = TRUE` the model is the queue on a driver with a type parser, or on the
fake of the tests, and TLC checks it there; with `FALSE` it is the queue on node-postgres as
it stands, where an accepted event is never dispatched. The theorems hold for both.

### OAuthExchange

| TLA+ | Code |
| --- | --- |
| `states`, `overdue` | `oauth_states`, and whether `expires_at` has passed |
| `commands`, `lapsed` | `oauth_exchange_commands` with its envelope; whether the lease has passed |
| `grants` | the rows one commit writes (shop name, credential, binding, grant), counted |
| `workers` | a `runOAuthExchangeWorkerOnce` under way |
| `spent`, `sent` | codes exchanged by Shopee, codes ever sent to it (external) |
| `replies` | the last answer to a callback and its actor |
| `Start`, `Callback` (`DenyExpired`, `DenyActor`, `ReadExisting`, `Accept`) | start handler; `accept` of the callback handoff in its order of checks |
| `ClaimNext`, `SendCode`, ..., `Complete`, `Fail`, `FailStale` | the queue's `claimNext`, `complete`, `fail` and the runner around them |

`StepFails` is the runner's `catch` at each of its awaits; `CommitGrant` and
`Complete` can lose the answer to their COMMIT, after which the runner calls
`fail`.

### CredentialRefresh

| TLA+ | Code |
| --- | --- |
| `subjects`, `bindings`, `locks` | `credential_subjects`, `shop_credential_bindings`, the row lock |
| `live` | the rotation of the token Shopee accepts (external) |
| `procs`, `cache`, `waiting` | `resolveFresh` under way, the cache, the requests that joined it |
| `Connect` | `saveSubject` and `bindShop` of a first connection |
| `Choose`, `Lock`, `ReceiveTokens`, `CommitRotation`, `CommitUnknown`, `Serve` | the unlocked read, `withRefreshLease`, `persistRefreshOutcome`, the resolver's end |
| `LoseOutcome`, `RollBack`, `Crash`, `LockFails` | the failures at each of these |

`spoiled` remembers the subjects whose rotation at Shopee was rolled back in the
database. It is a history variable: no action reads it.

### The dashboard

| TLA+ | Code |
| --- | --- |
| `session`, `base`, `shop`, `catalog` of `Dashboard` | the state of `App`, with the requests of `loadBase` and `loadCatalog` that are unanswered |
| `SessionAnswer` ... `CatalogFails` | the promises of `App` and `Login` |
| `view`, `range`, `adType`, `table` of `DashboardPanels` | state of `App`, the pickers and `ProductCatalog` |
| `panels`, `requests` | data, loading and error of the five panels; their requests |
| `React`, `Cancel` | the effects whose dependencies changed, and their cleanup (`cancelled = true`) |
| `Answer` | an answer, in any order; one whose effect was cleaned up is gone |

`DashboardPanels` lets `App` render it with any shop at any time. The data of a panel
is the key it was asked for, so showing a wrong figure is showing another key.
`Dashboard` keeps the shop whose products are held, which the code does not.

### The other parts

Each is one component; its header says what its variables stand for.

* `WebProcess`: `config` is the environment a process started with, `browser` and `copy`
  the cookies there are; `runs` are the invocations of `run` and `worker` the flags
  of `startInlineOAuthWorker`. Restarts choose any environment.
* `Authorization`: one action for each awaited read of `authorize`, and the changes
  others make in between.
* `CatalogCollection`: `ListPage` and `PageDetails` are the two calls of the adapter for a
  page, `CollectPage` the body of the loop; the provider may change its list, name any
  offset and leave products out. `CollectionStore` keeps the rows of the three tables and
  reads them by the join of the code.
* `ProviderReads`: the stages in which the calls behind a page are made, and the section
  each of them fills.
* `AnalyticsRuns`, `PilotMeasurements`, `StagingControl`: what is saved and what is derived
  from it; `PilotMeasurements` has the rounding of `Math.round` in whole numbers.
* `CopyIntents`: editors that preview, create, supersede, save and load; what publishes a
  stored intent is outside. `WriteRecovery` begins with such an intent.
* `RateLimits`: a request with a time of its own, the four scopes it is counted in.
* `PostgresExecutor`: jobs over a pool, with the server's side of each connection (open,
  aborted, writes): what a lost ROLLBACK leaves there is what the next job finds.
* `ScheduleSlots`: schedulers that call `materializeSchedule` for one slot, from the lock
  to the answer of COMMIT.
* `InMemoryDelivery`: the store of the tests, with its registry of commands; its rows are
  mapped to those of `DeliveryQueue`.

`WebRuntime` composes them: it is the sum of `OAuthExchange` and these parts. They
share no variables, so it does not interleave them: `part` names the one that a
behaviour exercises, and its properties are those of that part. `PartsAssumption`, the
one `ASSUME` of the module, is the conjunction of what each part assumes of its
constants. `MCWebRuntime` gives the constants their values.

## 4. What the runs check

The runs below expect no error and exhaust their state space.

| Run | Instance | Question |
| --- | --- | --- |
| `write_one` | 1 attempt, 4 steps, 2 workers, 2 operators | Is a publication sent once, in order, with a true and final verdict; does it implement `SafePublication`; does it settle? |
| `write_overlap` | 2 commands with a common attempt id, 2 steps, 2 workers | Are plans saved whole, and does the capability gate of a command bind each of its attempts? |
| `queue` | 1 command, 3 jobs, 1 dead letter, 3 processes with one worker id, 2 clock readings, 2 generations | Does a command stay one command through duplicate deliveries and replays; does the queue implement `LogicalCommands`? The driver gives the generation as a number. |
| `oauth_one` | 1 state, 2 actors, 2 codes, 3 workers, 3 mishaps | Is there at most one grant, earned by its callback; does every command settle? |
| `refresh` | 2 subjects, 2 processes, 4 rotations, 2 failures | Is the stored token the live one; are fences whole and final; is every request answered? |
| `web_runtime` | the exchange with 2 attempts, 2 workers and 1 mishap, and the parts above, one at a time | Does only the holder of a lease settle, also after a worker moved on to another command? And of the parts, the table below. |

What `web_runtime` asks of each part:

| Property | Part and bounds | What it says |
| --- | --- | --- |
| `TypesOK` | all | the types of each part |
| `HolderSettles` | exchange | a run whose lease was taken over does not end its successor's command |
| `DisplayIsCurrent` | panels: 2 shops, 2 ranges, 2 ad types, 2 rows on pages of 1; dashboard: 2 shops, 1 unanswered load of each kind | what is on display is what was asked for, and a spinner waits for an answer that will be taken |
| `ShopIsKept` | dashboard | no answer, however late, moves the user to another shop |
| `ReadsAreFounded` | catalog: 2 products, pages of 1, offsets to 2; reads: 2 plain sections, 2 campaigns of which a call may name 1; analytics: 2 products, 2 values, 1 page, times 0 and 1; store: 2 runs, 4 collections | `complete` means the whole list; no cursor twice; a section is its own call's answer; a comparison is of recent numbers of a whole run; a collection is read as it was saved |
| `StagingIsFounded` | staging: 13 snapshots; measurements: 2 rows, 4 captures | the hold is released on one saved snapshot only; a target is met but for the rounding |
| `AllowIsFounded` | authorization: 1 shop, 2 revisions | a member is allowed what the role of its session allows (of the shops it says only that all were looked at) |
| `ProcessIsFounded` | process: 5 environments, clock to 2, 1 claim in a run | a cookie is good for its secret, operator and lifetime; one run at a time, none after stop |
| `AllOrNothing` | executor: 2 jobs on 1 connection | a job is kept whole or not at all, and leaves nothing to the next |
| `RowsAreKept` | intents: 2 editors, 3 inputs, 2 versions; memory: 2 commands of one key, 1 event, 2 jobs, 1 dead letter, 2 processes; slots: 2 schedulers, slots and triggers | a stored intent never changes, from whatever stale read; the store implements `DeliveryQueue`; a slot has one trigger and everyone is told it |
| `LimitsAreKept` | limits: 2 shops, 4 policies, times 0 to 3, 1 cooldown | no window of a scope admits more than its limit while times do not go back |

Why these bounds are enough to be interesting: `NumSteps = 4` is the code's own
number. Two workers are what overlapping needs (the second is the redelivery),
two operators what a conflicting decision needs. Three jobs with one dead letter
give a dead job, its replay and a spare id for a duplicate to use; two
generations give one lost delivery; the shared worker id is the worst case for
fencing. Three workers and three mishaps let a lease be taken over twice while both
earlier holders go on; two attempts let a worker leave one command for another and
settle the wrong one. Two subjects let `Choose` prefer one that is fenced
before it is locked. Two shops, ranges and rows are what one answer overtaking another
needs; a panel has one request that counts, so more requests add only cancelled ones.
One connection is the worst case for what a job leaves behind. The windows of 1, 2 and 4
in times to 3 include ends of windows that coincide and that do not.

`CHECK_DEADLOCK FALSE` appears in `DeliveryQueue.cfg` only: with a finite supply of job ids
and generations a queue whose jobs are done, or abandoned at the bound, stops. In
`MCWebRuntime` the executor and the intents, whose jobs and versions are finite, may stop by
a step that says so (`Stops`); every other part goes on.

### Fairness

* `WriteRecovery`: weak fairness of each worker's step, and strong fairness of
  `StartExecution` for an attempt (at-least-once delivery: a dispatched attempt is
  executed again). Nothing is assumed of the provider, of operators or of grants.
  The liveness properties exclude workers that die for ever, and a revalidator that
  denies: the code then leaves the attempt dispatched, as the property allows.
* `DeliveryQueue`: none, and no liveness is claimed. Nothing in `apps/` dispatches or claims
  yet, and with node-postgres the operations throw (below).
* `OAuthExchange`: the inline worker runs on an interval and the worker process is
  scheduled again and again, so commands are claimed (strong fairness); each
  await of a run ends (requests and queries have timeouts); leases lapse.
  `MaxMishaps` bounds the runs that die or outlive their lease.
* `CredentialRefresh`: strong fairness of a refresh. PostgreSQL grants a free row
  lock to a waiter. That Shopee answers is an assumption on Shopee:
  `refreshAccessToken` sets no timeout, and the hazards name that line.

The parts of `web_runtime` other than these have no liveness property: what they wait
for is the user, the browser or Shopee.

### Where the code departs from its documents

Six runs expect a violation. Each checks a sentence of the repository against what
the code does; the traces are short.

| Run | Document | What happens |
| --- | --- | --- |
| `write_late_call` | "Pause automatic retry and dispatch for that logical intent/destination." (`docs/operations/external-outcome-recovery.md:13`) | A worker that marked its operation `sent` is overtaken by a redelivery, which records `outcome_unknown`; the first worker then makes its call. |
| `write_confirmed` | "persist mapping and continue only from the definitely incomplete safe step" (same file, line 15) | `confirm_succeeded` closes the attempt as `succeeded`, whichever step was unknown; later steps never run. |
| `oauth_replay` | no blind replay of an unknown exchange (`docs/requirements/credential-subject-model.md:20`) | After a lapsed lease the code is sent again. |
| `oauth_duplicate` | a duplicate callback reads the durable result (same line) | After the state's lifetime it is told `state_expired`, because expiry is tested before the earlier use. |
| `refresh_stale` | a crash after a possible rotation becomes unknown/reauth, not a stale retry (`docs/requirements/acceptance-criteria.md:11`) | Nothing is recorded before the call; a rollback leaves the subject active with a dead token, which is sent again. |
| `donut` | "Status publikasi di toko aktif" (publication status in the active shop, `apps/dashboard/src/components/ProductStatusDonut.tsx:34`) | `loadCatalog` keeps whichever answer comes last: after a change of shop the slower answer of the shop that was left is shown as the active one's. |

None of the first five contradicts the safety properties: the late call is still the
only call of its step, the replayed code still gives one grant, and the stale token is
refused and its subject then fenced.

One departure is larger than these and needs no trace. "Dispatcher [...] lalu membuat queue
job unik" (the dispatcher then makes a unique job,
`docs/architecture/ADR-001-modular-monolith.md:13`): on node-postgres no job is ever made.
`queue_jobs.fencing_generation` is `bigint` (`0002_delivery.sql:47`), which the driver gives as
a string unless a type parser is set, and none is; `mapValue` (`postgres-executor.ts:86`)
passes it on and `requiredNumber` (`postgres-delivery-mappers.ts:33`, called at line 69) throws
inside the transaction. `dispatchOutbox`, `claimJob`, `commitResult`, `acknowledge`,
`deadLetter` and `replayDeadLetter` are all undone. The readers of credentials do expect the
string ("PostgreSQL bigint columns (e.g. `revision`) arrive as decimal strings via `pg`.",
`inline-oauth-worker.ts:337`). The tests of the queue run on a fake that gives numbers.

Smaller departures met while modelling, each kept in the model as the code has it:

* Catalog: an empty page of the list is completed with an answer that does not parse, so
  the catalog of a shop without products, or past its end, is a 502
  (`shopee-product-catalog.ts:138`). Offset 0 named as the next cursor reads the first page
  twice. A list that changes under the offsets can be declared complete without an item
  (`docs/requirements/acceptance-criteria.md:16` asks that completeness be known). The loop
  has no limit of pages. `collectedAt` is the time the process started (`main.ts:110`), and
  a missing stock of a variant becomes 0.
* Dashboard: the error of an earlier catalog load stays after a later success; the date of
  the last collection stays after a logout; a panel keeps its spinner when its range becomes
  incomplete under a request; the page of the table is not set back when a refresh
  shortens it.
* Ads: campaigns beyond the first 100 are dropped although the page says there is no next one
  (`shopee-ads.ts:404`); a failed list of campaigns is shown as "no campaigns"; the daily
  figures take Shopee's `"-"` for an error, the others do not. Ranges of the marketing
  insights are turned into days of UTC, not of Jakarta.
* Staging: a save of an older capture overwrites a newer one. A reduction of 49.995 % is
  rounded to 50 and meets the target.
* Copy intents: `supersedeCopyIntent` takes a preview of another source or shop, and the
  successor of an intent that is stored can never be saved.
* Analytics and measurements: what the repositories write (JSON arrays, `numeric`), their
  own readers refuse with the real driver.
* Copy intents and grants, for the same reason: `PostgresCopyPreviewRepository.read` throws for
  every preview, because `attributes` and `errors` are `jsonb` (`0008_copy_preview.sql:13`) and
  the executor's `mapValue` refuses an object, and the reader of `oauth_grants` refuses the
  string of its `bigint` `revision` (`postgres-grants.ts:117`). Nothing in `apps/` calls either.
  `CopyIntents.Load` lets the read succeed: the model has more behaviours than the code on
  node-postgres, and `RowsAreKept` holds in all of them.
* Executor: a ROLLBACK that was never sent is ignored, and the next job on the connection
  may commit what it left. `PostgresExecutor` records those jobs in `torn`.
* Session: a logout cannot take back a copy of the cookie. `main.ts` drops the handle that
  would stop the inline worker. The connect page remembers the field's value as it is
  after the answer, not the token that was accepted.

## 5. What is proved

The proofs are checked by TLAPS for every number of attempts, workers, jobs, processes
and so on, under the `ASSUME` of each module (types of the constants, `None` outside the
sets). TLC evaluates these assumptions on every instance.

* `WriteRecoveryProofs`: `TypeCorrect`, `ProtocolHolds`, `InvariantHolds`,
  `CalledAtMostOnce`, `SentInOrder`, `VerdictSound`, `VerdictsStay`, `DecidedOnce`,
  `PlansHold`, `PlansAreWhole`, `GatesHold`, `PublicationImplemented`.
* `DeliveryQueueProofs`: `TypeCorrect`, `QueueHolds`, `InvariantHolds`, `HolderIsAlone`,
  `CommandStaysOne`, `CommandsSurvive`, `EndsAreFinal`, `CommandsImplemented`.
* `OAuthExchangeProofs`: `InvariantHolds`, `TypeCorrect`, `HandoffHolds`,
  `GrantIsSingle`, `GrantsEarned`, `CarriersHold`, `RunsAgreeAlways`, `SettledIsFinal`,
  `HolderEndsIt`.
* `CredentialRefreshProofs`: `InvariantHolds`, `TypeCorrect`, `TokenIsCurrent`,
  `OnlyUsableIsAsked`, `FencesAreWhole`, `CachesFollow`, `FencedIsFinal`.
* `PostgresExecutorProofs`: `InvariantHolds`, `AtomicityHolds`.
* `GuardProofs`, the parts that guard a write or a call: `StagingInvariant`,
  `HoldIsFoundedAlways`, `StagingTypes`, `AuthorizationInvariant`, `AllowIsFoundedAlways`,
  `IntentsInvariant`, `StoredIntentsStayHolds`, `ProcessInvariant`, `ProcessHolds`,
  `LimitsInvariant`, `LimitsHold`.
* `ReadsProofs`, the parts that read and show: `DashboardInvariant`,
  `LoadsAreAwaitedAlways`, `ShopIsKeptAlways`, `PanelsInvariant`, `FiguresHold`,
  `CatalogInvariant`, `CollectionsAreSound`, `StoreInvariant`, `ReadsGiveWhatWasSaved`,
  `ReadsInvariant`, `SectionsStandAloneAlways`, `AnalyticsInvariant`, `ClaimsHold`,
  `MeasurementInvariant`, `OutcomesAreFair`.
* `WebRuntimeProofs`, the slots, the in-memory queue and the composition: `SlotsInvariant`,
  `SlotsHold`, `MemoryInvariant`, `MemoryImplementsQueue`, `MemoryIsSafe`, `ExecutorHolds`;
  and of `PartsSpec` every property of `web_runtime`: `TypesHold`, `DisplayHolds`,
  `ReadsHold`, `StagingHolds`, `AllowHolds`, `ProcessIsSound`, `JobsAreWhole`, `ShopStays`,
  `RowsStay`, `LimitsStay`, `HolderStays`.

The parts of the web runtime are instances in `WebRuntime`, so their assumptions are
operators and `PartsAssumption` is the fact the last three modules use. Beside types it says
only that `None` is none of the values it stands beside: no shop, row, key of a panel,
reason or id. The shape of a stored collection is part of it too (`StoreAssumption`).

**The composition.** A step of `PartsSpec` is a step of the part that is exercised and leaves
the variables of the others, so a behaviour of it is one of each part alone (`PanelsPart`,
`StorePart` and so on), and what a part promises alone it promises here. Two modules of
proofs are instances: the executor (`EP`) and the queue, of which the maps of
`InMemoryDelivery` are a picture (`QP`); `SameExecutor` and `Same` say that the instances
are about the same actions.

**The write path.** "At most one call per step" is not inductive: a worker at
`call` has its right to call from an earlier step. `Protocol` says what a worker
knows at each control point (`AtStep`), that two workers are never at `call` for
one step (`OneSender`: the compare-and-set from `prepared` to `sent` succeeds
once), that a call is marked before it is made (`CallsAreMarked`), that recorded
answers are the provider's (`RecordedAsAnswered`), that operations are a prefix
of the steps (`OperationsInOrder`), that work is under way on open attempts only
(`OpenWhileWorking`) and that a verdict has a cause (`VerdictHasCause`). The last two
are what makes a verdict agree with the provider although the worker that gives it
may not be the one that called. The refinement maps an attempt to its verdict, the
operations past `prepared` to the steps sent, and the provider's verdicts to answers.
`MarkSent`, and not the call, is the abstract `Send`: from there on the
request may be out. `PlanIsWhole` and `GateHolds` need what `Plans` says of attempts that
two commands claim: a row is of the command that inserted it, and what has run of it
was let through that command's gate.

**The queue.** "One job alive or done per command" depends on which jobs are
replays. The invariant follows the chain: the *head* of a command is the job that
no replay continues; there is exactly one (`OneHead`, `HeadExists`), every dead job
has one dead letter and the reverse (`OneDeadLetter`), and each dead letter has at
most one replay, of the same command (`RowsAgree`). A job that is not dead is
a head, so two of one command are equal. `TokensAreDistinct` (a generation is handed
out once) gives `OneHolder` without the owner or the clock.

**The exchange.** `SingleGrant` cannot rest on the lease, since the commit does not
ask for it. It rests on Shopee exchanging a code once: `Carriers` says that at most
one run holds the tokens of a code, that nothing was granted while it does, and that a
command's code never changes; a second run with the same code gets no answer to
commit. `Handoff` ties the state's claim to the command's existence.

**The refresh.** While a process is between `Lock` and the end of its transaction
nobody changes the subject, so the revision in its hand is the row's
(`Refreshing`, `Tokens`). Without that the UPDATE of a rotation would match no
row and no one would notice. `Cached` carries this over to what is served after the
lock is gone.

**The staging hold.** The two rows are equal to one snapshot or both absent
(`RowsAreOneSnapshot`), because a save holds the lock of the first row until it commits
both; what the open transaction wrote is of the snapshot it saves (`TxIsOneSnapshot`).

**Authorization.** A revision names one role and one status (`RevisionsGrow`), so an equal
revision means the membership is the one the session began with; a check that goes on
has a role that allows it (`CheckIsGranted`), although the membership may change before
the shops are read.

**The executor.** A connection is held by one job (`ConnectionsAreHeldOnce`), and for a job
that is not torn, `JobOK` says at each of its steps what is written and not committed,
where, and by whom. A torn job poisons whoever meets its open transaction, and these are
torn too.

**Copy intents.** An intent in an editor's hands or in a row stands on a valid preview
that was shown (`HeldAreFounded`, `StoredAreFounded`), and nothing is published that is not
stored (`PublishedAreStored`): an insert therefore finds no publication under way.

**The web process.** A cookie that exists is of a login that was accepted, and has the
lifetime that login gave it (`CookiesAreFounded`); the flag of the timer is set while a run
is under way, and a worker that has halted has none (`RunIsTheFlag`).

**The limiter.** While times do not go back, a bucket is the last window anything was
admitted in, counts what was, and windows after it are empty (`BucketIsTheLast`). An older
time ends this, and the property asks nothing from there on (`latest` is `None`).

**Dashboard and panels.** A spinner of `App` has an answer that is due, among those of any
shop (`CatalogIsAwaited`). For the panels the question is which answers still count:
a request that was not cancelled is for what its panel wants now (`RequestsAreCurrent`), a
panel that loads has such a request, and one that does not shows what it wants
(`PanelIsCurrent`). That needs what is left behind by a panel that is not shown
(`NothingIsLeft`), and `EffectFacts`, what an effect makes of a panel.

**Catalog and its store.** Of a list that stays as it is, a collection has the products
before its offset, and the page in its hands begins there (`HasComeTo`); a next cursor that
the provider names is then the true one (`IsHonest`), or the list is at its end. The tables
have of each run the rows of what was saved under it and no other (`IsStored`), from which
the two left joins and the grouping of the code give the collection back, without its
order; a product without variants is the row with `None` for one, which is why no row is
`None`.

**Reads, analytics and measurements.** The stages of a request are disjoint, campaigns are
listed in the first and asked for in the second (`RequestIsStaged`), and a section that was
answered holds that answer (`SectionsAreOwn`). An analytics run is what was built of the
answers (`RunIsBuilt`), so a claim can be traced to them. `EvaluateIsFair` bounds the
rounding of `Math.round` over floor division for all minutes, losses included.

**Slots.** A call that holds the lock of its slot knows the row (`CallIsSound`), no other call
holds it, and no id is inserted twice (`CallsAreApart`).

**The in-memory queue.** Its maps are typed, and agree with each other as the tables do by
their keys (`MapsAreTyped`, `MapsAgree`): an event marked dispatched has its first job, a
letter that names its replay has one, and a replay's letter says so. Under that a step of the maps is a step of `DeliveryQueue`
(`MemoryMaps`), and everything proved of the PostgreSQL queue is so of the store the tests
run on (`MemoryIsSafe`), the refinement to `LogicalCommands` included.

**Only model-checked.** Liveness (`WritesSettle`, `CommandsSettle`, `RequestsAnswered`):
temporal reasoning with fairness and ENABLED is beyond the prover.
These three are the properties of the passing runs that no theorem states. What a recursive
definition computes for all inputs would need induction over data, which the prover
cannot instantiate; there is no recursion in these modules.

## 6. Assumptions on what is outside the code

* Shopee exchanges an authorization code at most once, and accepts the refresh
  token it gave out last and no other.
* A provider call of the write path may be applied, rejected or lost, and its effect
  may come after the caller gave up. The provider does not act without a call.
* A PostgreSQL transaction that locks its rows first (`FOR UPDATE`), and a single
  conditional UPDATE, are atomic with respect to the others on those rows, as READ
  COMMITTED gives it; a unique key refuses the second insert.
* A binding hash identifies a command.
* A membership that was deleted is not created again with a revision it had before; nothing in
  the code creates or changes one.
* In the browser, an event with its render and effects is not interrupted. Requests may be
  answered in any order, or never.
* The shop's list and its figures at Shopee change at any time; Shopee may answer with
  anything the adapters accept.
* Identifiers generated by the code (states, job and dead-letter ids) do not repeat;
  where the primary key would refuse a repeated id, the action is not enabled.

## 7. What is not modelled

* **Formatting, parsing and signing**: Shopee's requests and the fields of its answers,
  layout, redaction. Their failures are actions of the modules that call Shopee.
* **Cryptography and transports**: an envelope opens or does not, a cookie's signature is
  its secret, a preview's hash is its input.
* **Scripts of the server-rendered pages** (`dashboard-ui.ts`, `shopee-connection-ui.ts`,
  `recovery-ui.ts`): pages beside the React application; what was seen of the connect
  page is in section 4.
* **Pure filters and tables**: `filterCatalog`, runtime boundaries, configuration.
* **The analytics repository**: its own reader does not accept what it writes.
* **The worker's outer loop and start-up checks**: a bound on the number of exchange runs.
* **The URL dispatch and shutdown of the HTTP server.**
* **Migrations and operator scripts**: their constraints are in the actions that
  would violate them.
* **`recordAttemptOutcome`, `recordRefreshOutcome`, `readEnvelope`,
  `PostgresOAuthStateRepository.claim`**: nothing in production calls them. The same is true
  of the rate limiter, the copy intents, the schedule slots and every operation of the queue
  but `AppendOutbox`, which are modelled because later features are to rest on them.
* **Old rows**: `mapLease` throws for a row without `shop_id`, older than migration 0015, and
  so blocks the exchange queue; the model has rows of the present schema.

## 8. Plan

Done, in this order: `WriteRecovery` with `SafePublication` (the most important
behaviour: publishing cannot be undone), `DeliveryQueue` with `LogicalCommands`,
`OAuthExchange`, `CredentialRefresh`, each with its proofs; then the parts of the web
runtime, with proofs for each of them and for their composition.

What would add most now:

1. `CopyIntents` composed with `WriteRecovery` once the code has the caller between them
   (the intent's publication is outside today), and `DeliveryQueue` as the source of the
   at-least-once executions that `WriteRecovery` assumes.
2. `PostgresExecutor` with a job that waits for Shopee on a row lock, so that the pool can be
   exhausted by the waiters of one refresh (`inline-oauth-worker.ts:304`).
3. The resolver of access tokens as the source of the tokens that `ProviderReads` and
   `CatalogCollection` call with, so that a section that fails for its token is told apart.
