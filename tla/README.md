# StakeMind: verification project

TLA+ models of the StakeMind backend, the configurations that check them with
TLC, and theorems about them proved with TLAPS. Paths below are relative to the
repository.

StakeMind is a FastAPI service over PostgreSQL and Redis. It builds staking
transactions that a wallet signs, queues automation jobs that a separate worker
process runs, and serves validator catalogs and rankings through a cache that
ingestion jobs invalidate. Its logic is short; what makes it hard is that every
request has a database session of its own, awaits between statements, and so
overlaps with every other request, with the worker processes, and with crashes.

## 1. Inventory

| Component | Code | State | Operations |
|---|---|---|---|
| Staking transactions | `backend/app/services/staking`, `backend/app/api/v1/staking.py` | `staking_transactions`, `staking.*` audit events, the ORM copy each request holds | build, simulate, submit, finalize, expire |
| Staking modal | `frontend/components/staking/StakingActionModal.tsx`, and the panels that mount it | its step, one transaction, one idempotency key, two mutations under way | open, preview, go back, sign, retry, poll, close, leave |
| Automation | `backend/app/services/automation`, `backend/app/api/v1/automation.py`, `backend/scripts/run_automation_worker.py` | `automation_policies`, `automation_jobs`, `automation_incidents`, the open transaction of each worker | set policy, kill switch, enqueue, claim, scan, complete, retry, cancel |
| Read cache | `backend/app/services/cache.py`, `backend/app/cache/redis.py`, and the endpoints of `dashboard.py`, `intelligence.py`, `premium.py` that use them | pages and a watermark per namespace | read through, invalidate, expire, priority refresh |
| Ingestion | `backend/app/ingestion/chain_head.py`, `mvp_sync.py` | `ingestion_runs`, `subnets`, `validators`, `stakes`, `reward_snapshots` | sync the chain head, the catalog, a portfolio |
| Intelligence | `backend/app/ingestion/intelligence_recompute.py`, `backend/app/services/intelligence` | score and risk rollups | recompute, rank, score |
| Portfolio queries | `backend/app/services/portfolio.py` | none | count and page of a listing, reward history |
| Premium | `backend/app/services/premium`, `backend/app/api/v1/entitlements.py` | invites, entitlements, alert rules, delivery log, notifications | redeem, evaluate alerts, gate a request |
| Rate limiter | `backend/app/middleware/rate_limit.py` | a counter per address and minute | count, expire |
| The rest | RPC client, application shell, schemas, migrations, dashboard | none that outlives a call | |

How they interact. The API processes and the workers share the database only.
`run_stuck_transaction_scan` reads the staking transactions that
`submit_transaction` writes; the rebalance scan reads the risk that a recompute
writes; alerts read it too. Syncs and recomputes rewrite rows that the read
cache has pages of, and invalidate them; the scripts in `backend/scripts` rewrite
the same rows and do not know Redis. The priority refresh of a premium wallet
invalidates with nothing rewritten.

What is hard, by component:

- *Staking*: the copy of a row that a request holds goes stale across every
  await; the idempotency test is a SELECT before the write; submission and
  outcome are two commits; a simulation writes to a row that may have been
  submitted while it awaited the node.
- *Staking modal*: the dashboard's requests are lost, refused, or answered after
  the user has gone back, closed the modal or opened it for something else; what
  it then sends decides whether the service is safe.
- *Automation*: several workers poll one table; a job may be retried, cancelled
  by a policy change or dropped by a crash; incidents and the job are to be
  committed together; counting the jobs of the day and inserting one is not
  atomic; two requests for one policy each write what differs from a copy of the
  row that is no longer the row.
- *Cache*: the fill of a page races with the invalidation, which is not atomic
  and deletes the watermark too.
- *Premium*: the limit of an invite holds by a row lock, the hourly dedupe by a
  unique constraint against rows that are not committed yet; an insert that
  fails after the invite was charged; evaluations that deadlock; quiet hours
  that go past midnight.
- *Rate limiter*: a counter is incremented and given its time to live by two
  commands; either may fail or be late.
- *Ingestion*: reruns and overlapping runs for one block or for two, which meet
  at unique constraints and row locks of transactions that write row after row;
  failures in between.
- *Intelligence*: which rows a forecast is made from after several syncs;
  formulas that round, clamp and compare with thresholds.

What makes each correct is listed with its module below. `PROJECT.json` lists
the hazards at their lines, with the properties that would catch each.

## 2. Modules

    StakingLifecycle      what the owner of a transaction is promised
    StakingTransactions   the service; behind the modal it implements
                          StakingLifecycle
    StakingModal          the modal in front of the service
    StakingProofs         the invariant of the service for any client
    StakingModalProofs    its invariant for a restricted client, and the
                          refinement
    StakingClientProofs   the invariant of the modal: it is that client
    JobLifecycle          what the wallet that enqueues a job is promised
    AutomationQueue       queue, workers, scans; it implements JobLifecycle
    PolicyUpdates         the endpoints that write a policy
    AutomationProofs      the invariants of both, and the refinement
    ReadCache             one namespace of the cache
    RateLimiter           the counters of the API calls
    RedisProofs           the invariants of these two users of Redis
    Premium               redemption of invites, evaluation of alert rules
    PremiumProofs         its invariant
    Scoring               the formulas: scores, risk bands, forecasts
    ScoringProofs         what the formulas promise, for every input
    Ingestion             the jobs that copy the chain into the database, and
                          the forecast of the rewards they stored
    IngestionProofs       the invariant of the jobs
    MC*                   the instances TLC checks

What composes what: `StakingModal` extends the service it sends to, and
`Ingestion` extends the formulas. The two abstract specifications are instances
within the modules that implement them (`Lifecycle`, `Jobwise`), and so is the
service with the restricted client (`Restricted` in `StakingModal`). `MCRedis`
and `MCAutomation` put two components side by side that share no state that
would tell: a behaviour is one of either (`part`).

### 2.1 StakingTransactions

`row[t]` is the committed row of transaction `t`, `obj[r]` the ORM object in the
session of request `r`, `pc[r]` the await its handler stands at. A step is one
database transaction or one statement of it:

| Action | Code |
|---|---|
| `Build` | `build_transaction`: nothing is stored before the RPC calls return, row and audit event are one commit |
| `SubmitLoad` | the endpoint loads the row; expired is refused, settled is returned |
| `CheckKey` | the SELECT for another holder of the key, then the test of the session's own copy |
| `SaveSubmit` | the UPDATE and the `staking.submit` event, refused by the unique constraint |
| `Refresh`, `Finalize` | `finalize_submitted_transaction` |
| `SimulateLoad`, `SimulateSave` | `resimulate_transaction` around the RPC call |
| `Expire` | the clock |
| `Crash` | the process dies, or the connection of the session does |

Two points decide what can go wrong, and both are modelled. SQLAlchemy writes
only the columns whose value differs from the loaded one, so a write with a stale
copy merges with what others wrote: `Flush`. And sessions are created with
`expire_on_commit=False`, so the copy stays as it is until `refresh`.

The watcher (`finalize_submitted_transaction`) fails a transaction when a digest
of hash and id is divisible by five. The digest is a fixed relation `Failing`
between transactions and hashes, arbitrary in the proofs. `tx_hash` stands for
the columns that are written together with it; `block_hash` is a digest of
`tx_hash` and is recorded as the hash it digests. The status `expired` assigned
in `_ensure_not_expired` is never committed, since the exception closes the
session.

`ModalClient` chooses the clients. FALSE: any submission at any moment. TRUE:
only those that `ModalAllows` allows, which carry one key and one hash for a
transaction and come one at a time. That this is what the dashboard sends is
shown in 2.2.

Whether a dry run succeeds is up to the RPC node. `SimResults` is what it may
answer: TLC distinguishes two results where overlapping writes are the question
and has one where they are not, and the proofs take any.

Properties:

- `KeyUnique`: a key belongs to one transaction of a wallet, although the
  SELECT alone does not ensure it.
- `Traced`: whatever overlaps, the audit trail explains the row: the hash was
  announced, the outcome was announced, block and failure are verdicts the
  watcher gives.
- `SubmitOnce` (behind the modal): a key stands for one `staking.submit` event.
- `AnswerCarriesKey` (behind the modal): a submission is answered with the transaction
  that carries its key.
- `LifecycleSpec` (behind the modal): the refinement. At most one submission, at most one
  outcome, and it is the outcome of the submitted hash.
- `SettledUnlessCrashed`: a submitted transaction is settled unless a
  submission of it died.

### 2.2 StakingModal

The user and the component in front of the service, whose state is part of the
module. `modal` is the state of the component, `building` and `submission` are
its two mutations (react-query), `stray` are submissions on their way whose
component is gone.

| Action | Code |
|---|---|
| `Open` | the panel shows the modal |
| `AskPreview`, `BuildServed`, `BuildAnswered`, `BuildFails` | "Preview transaction" and `buildMutation`: the request, the service, `onSuccess`, any error |
| `Advance`, `Back` | the buttons between the steps |
| `Sign`, `SubmitServed`, `SubmitAnswered`, `SubmitFails` | "Sign and submit" and `submitMutation` |
| `Poll` | the status query, as long as it shows `submitted` |
| `Close`, `Select` | the effect that resets a modal that stays mounted (ValidatorExplorer) |
| `Leave` | unmounting (StakingPanel), a reload, another page |
| `StrayServed` | the service gets a submission after that |
| `Others`, `Server` | the steps of the service: the clock, other requests, crashes, handlers going on |

Every request may be lost or refused before the service has it, and every answer
after. An answer arrives whatever the modal shows by then: a preview that was
asked for before going back, closing or opening again replaces what is shown.
`asked` records when what is shown was asked for. The key is made at the first
signature (`randomUUID`, a key nobody has used) and stays until the modal is
reset, also when going back and building another transaction; the same key may
so be sent with two transactions, of which the service answers the first.

`SubmitFails` takes the handler to be over by the time the modal sees an error.
If a connection breaks under a running handler the user may sign again while it
runs, and the modal is an unrestricted client (see `StakingSubmitTwice`).

Properties:

- `RestrictedSpec`: the service behind the modal is the service with
  `ModalClient = TRUE`. This is the refinement the modal is there for.
- `SubmitOnce`, `AnswerCarriesKey`, `LifecycleSpec`, `SettledUnlessCrashed` of
  the service hold behind the modal.
- `TracksSubmission`: what is tracked was submitted, and shows the status of its
  row; polling never finds anything new.
- `SignsWhatWasAsked`: what is signed was asked for since the modal was opened,
  unless the modal was closed with the preview under way and stayed mounted.
  ValidatorExplorer allows that: the preview then appears in a modal that has
  been opened for another validator.

### 2.3 AutomationQueue

`work[v]` is the open database transaction of worker `v`, from the SELECT FOR
UPDATE SKIP LOCKED to the commit of the polling loop: the job it has locked,
the transactions its scan has still to look at, the incidents it has flushed.
Nothing of it is visible to others before `Commit`. `request[c]` is an enqueue
request between reading the policy, counting the jobs of the day, and inserting.

| Action | Code |
|---|---|
| `SetPolicy` | `put_automation_policy`, `post_kill_switch`, in detail in 2.4 |
| `Begin`, `Count`, `Insert`, `GiveUp` | `post_automation_job`, `enqueue_job`, `assert_may_enqueue` |
| `Claim` | `claim_next_pending_job` |
| `ReadPolicy` | the policy test of `process_next_job`, with `mark_job_cancelled` |
| `Dispatch`, `ScanOne` | `dispatch_job` and the four handlers |
| `Complete`, `Raise` | `mark_job_completed`, `mark_job_failed` |
| `Crash` | the worker dies; its transaction is rolled back |
| `Tick` | the clock, in fractions of a day |

The type of a job matters only to its handler, and each attempt may be of any
type. The amount and allowlist tests refuse an enqueue and leave no trace; no
handler reads the payload. `created_at` is the start of the database
transaction, which may lie on the day before the one that is counted.

Properties:

- `OutcomeFinal`: no second worker reports another outcome for a job.
- `IncidentsCounted`: incidents and job are committed together.
- `DuplicatesBounded`: a stuck transaction has at most as many incidents as
  there are workers, although the test and the insert are not atomic.
- `KillSwitchHolds`: a queued job changes only to `cancelled`, and leaves no
  incident, unless automation was allowed at some moment since its claim. The
  history variable `allowed` records that.
- `OvershootBounded`, a theorem: the daily cap is missed by at most two jobs
  per concurrent client, less one.
- `JobwiseSpec`: the refinement of `JobLifecycle`, which knows no workers,
  locks or crashes. A job is attempted `max_attempts` times at most and gets one
  outcome; an attempt reports its incidents when it ends, and none if the policy
  cancelled it.
- `EveryJobEnds`: every job gets an outcome.

### 2.4 PolicyUpdates

`AutomationQueue` lets `SetPolicy` store any policy at once. This module is about
how the endpoints store one: `update[q]` is a request with its copy of the row
(`LoadPolicy`), the INSERT of a policy that does not exist (`CreatePolicy`), the
UPDATE of the columns that differ from the copy, which waits for whoever has
written the row (`WriteColumns`), `CommitPolicy`, and the `refresh` it is answered
from. GET, PUT and the kill switch differ in the columns they ask for.

- `OnlyAsked`: a policy changes only as the request that commits was asked to;
  setting a limit with an old copy does not release the kill switch.
- `Acknowledged`: a request that is answered has got what it asked for, or has
  been overtaken: by a commit after its own, or by one after it found a column
  as it should be and left it out of its UPDATE. In the second case the answer
  to "stop" may say that nothing was stopped.
- `StaysSet`: from its commit on, what a request was asked for stays stored until
  another request commits a different value it was asked for itself. An
  acknowledged kill switch outlasts requests that loaded the row before it was
  set and write other columns later, because they leave it out of their UPDATE.

### 2.5 ReadCache and RateLimiter

The rows are abstracted to the number of commits that rewrote them; a cached
page is the number it was read at. The key of a page is the watermark the reader
saw and the query. Redis commands are atomic, and a reader or a job awaits
between any two of them. Both namespaces, `validators` and `intelligence`, go
through the same steps, so the module is one of them: `GetWatermark`, `GetPage`,
`CountItems`, `ReadRows`, `Store` for the listings; `FetchHead`, `Commit` (or
`Reuse`), `SetWatermark`, `Invalidate`, `DeletePage`, `DeleteWatermark`,
`Return` for the jobs; `Refresh` for the priority refresh; `Script` for the
scripts. `invalidate_namespace` iterates with SCAN, which finds every key that
exists throughout, and the watermark is such a key.

A listing counts its items and reads its page by two statements, between which
READ COMMITTED lets a rewrite in. The page that is stored is taken to be as old
as its count.

The limiter is the other user of Redis. `bucket[b]` is the counter of an address
in a minute of the clock, with its deadline; `call[c]` is a call between reading
the clock (`Arrive`), INCR and EXPIRE (`Incr`, `Expire120`). Either command may
be held up, may fail before or after Redis has executed it (`RedisFails`: the
call is let through), and the process may die before it (`Die`). `Pass` is the
clock, by which Redis also forgets.

Properties:

- `StaleExplained`: a page misses a rewrite only if a job is about to delete
  the page, the rewrite came from a script or from a job that died, or the
  reader stored it after the rewrite it had not seen. There is no fourth cause.
  The history variables `raced` and `lost` record the last two.
- `EventuallyFresh`: once the rows are left alone, only current pages remain.
- `LimitHolds`: an address has no more than the limit of calls of a minute
  served, but for those Redis failed and those held up past the whole next
  minute, when the counter may be gone. That holds because a counter lives for
  two minutes from an EXPIRE that comes after the clock was read.
- `CountersExpire`: a counter has a deadline ahead, unless the call that made it
  could not give it one. INCR and EXPIRE are not atomic, and nobody else does.

### 2.6 Premium

`req[q]` is the database transaction of request `q`, which is committed at the
end of the request and not before; `count`, `plan`, `log`, `notes` and `events`
are what is committed. What a transaction has written is seen by the others only
when they wait for it: the row of an invite is held by whoever has selected it
FOR UPDATE (`HoldsInvite`), that of an entitlement by whoever has written it
(`HoldsEntitlement`), a key of the delivery log by whoever has inserted it
(`HoldsKey`).

| Action | Code |
|---|---|
| `Redeem`, `LockInvite` | the SELECT FOR UPDATE of `redeem_invite_code` and its refusals |
| `ReadEntitlement`, `WriteEntitlement` | `session.get` and the flush: INSERT, UPDATE, or nothing when the row is as it should be |
| `CommitRedeem` | count, entitlement and audit event in the commit of `redeem_wallet_invite` |
| `CreateRule` | `create_alert_rule` |
| `Evaluate` | the reads of `evaluate_wallet_alert_rules` and its tests of risk and quiet hours |
| `FireRule` | `try_insert_delivery_dedupe` and `create_in_app_notification` for the next rule |
| `CommitEvaluate` | the commit of `evaluate_alerts` |
| `Fail` | an exception, a lost connection, a crash: the transaction is rolled back |
| `Abort` | PostgreSQL fails one of the transactions in a deadlock |
| `Tick` | the clock, in hours |

Which rules match the risk of the wallet is any subset of its rules, and the
order in which they come is any, because the SELECT has no ORDER BY. The
expiry of an invite refuses before anything is written; an entitlement never
expires, because `valid_until` is only ever written as NULL.

Properties:

- `TypeOK` includes the limit of every invite.
- `Charged`: the count of an invite is the number of its recorded redemptions,
  so one that failed, was refused or lost the race for the entitlement row
  costs nothing; and a wallet is premium by a recorded redemption.
- `NotifiedOnce`: one notification per rule and hour.
- `DuplicatesDelivered`: an alert reported as `deduped` was delivered, also
  when the delivery it duplicates was not committed yet at the time of the
  insert.
- `QuietKept`: the two comparisons of `is_within_quiet_hours` cover every hour
  from start to end counted around the clock.
- `EveryRequestEnds`: nobody waits for ever, although evaluations may deadlock.

### 2.7 Ingestion

`db[x]` is the committed row `x` of any of the tables the jobs write; a request
has one database transaction at a time, and `txn[r].writes` is what it has
flushed. All jobs have one shape. A SELECT decides which rows are to be written
(`Lookup`, `List`, `ListWallets` put them in `todo`); then each row is selected
(`Visit`) and, if it is new or not as it should be, written by the autoflush of
the next statement (`Flush`); then comes the commit. An INSERT or UPDATE waits
for whoever has written the row, and an INSERT of a row that has been committed
since fails.

| Action | Code |
|---|---|
| `Fetch` | `fetch_chain_head`, which may answer with any head or fail |
| `Lookup`, `Reread` | the SELECT by idempotency key, also the one after an `IntegrityError` |
| `List` | the SELECT of the subnets (catalog) or of the validators (portfolio, recompute) |
| `ListWallets` | the second half of `recompute_intelligence`: wallets with stakes, and the row of the run |
| `Visit`, `Flush` | one row: `_seed_subnet_catalog`, the upserts of `mvp_sync.py`, the rollups |
| `Commit` | the commit of each job, with the reward history of a portfolio sync |
| `Crash`, `Abort` | the process dies; PostgreSQL ends a deadlock |

A script goes through its jobs in one session (`NextJob`), and asks for the head
a second time after the first job. What a row holds is abstracted to the head it
was written at; a stake also holds its place in the selection, on which its
amount depends. Whether a row is written at all depends on that, since
SQLAlchemy sends no UPDATE for a row whose columns have not changed, and then
takes no lock. That is how two catalog syncs can pass each other.

`recompute_intelligence` flushes new rollups before it assigns their ranks, which
must not be NULL (`Unranked`). So it fails as soon as there is a validator, and
what is left of it are recomputes over an empty catalog, whose wallets are listed
later and may be of a catalog that has been committed meanwhile. The other models
take rollups and risks as given: `AutomationQueue` lets a wallet have signals,
`Premium` lets any rule match, `ReadCache` lets a job of either namespace rewrite
its rows.

A portfolio sync appends a history of thirty days for up to three validators
(`RewardRows`), and `rewards[w]` counts how often that happened. `RewardForecast`
is `build_reward_forecast`: the rows in order of time, cut off after `days * 10`
(`Limited`), summed by day (`Daily`), and the line through them (`Forecast` of
Scoring). Syncs are taken to be of one day.

Properties:

- `RunOnce`: idempotency by block hash, for requests that overlap: one of them
  does the work, the others reuse a committed run or fail.
- `JobsWhole`: what a job writes is there together or not at all. As recomputes
  fail over a catalog, its clause about risks is met only by those that list the
  wallets of a catalog committed after they listed no validators.
- `OneHead`: a catalog sync leaves all validators at one head, unless it left a
  row as it was and another sync committed since. There is no other way to a
  mixed catalog.
- `OrderedJobsNeverDeadlock`: only portfolio syncs and recomputes, which select
  without a full order, can wait in a circle.
- `EveryRequestEnds`.
- `ForecastTrailing`, which fails: a forecast is made from the last stored days.

### 2.8 Scoring

`CompositeScore` is `compute_validator_score`, `RiskBand` is
`compute_wallet_risk`, `Forecast` is `forecast_daily_rewards`, with `PoolMedian`
and the splits of a wallet by validator and by subnet from
`recompute_intelligence`. The code computes with floats; here are integers and
fractions, and comparisons of a standard deviation are squared. `Round` is
Python's `round`, half to even. The logarithm of a stake is any table that grows
with it. A sync gives every validator a hotkey of its own, so a position of a
wallet is one validator in one subnet.

What the formulas promise is stated over all inputs within the bounds, and
`MCIngestion` assumes it (`ScoresKeepTheirPromises`), so that TLC evaluates it
at the start of each run of Ingestion:

- `OwnStakePays`: a validator that gains stake does not lose score by it,
  although its stake lifts the median it is measured against.
- `SubnetsCoarser`: a wallet is no less concentrated by subnet than by validator,
  by share and by HHI.
- `LowIsSpread`: a low band means three validators at least, and no day worth
  more than all others.
- `ForecastExact`: rewards on a line are forecast to stay on it until it reaches
  0, whatever came before the last 14 days.

## 3. Runs

| Run | Shows | Instance |
|---|---|---|
| `StakingOverlap` | `TypeOK`, `KeyUnique`, `Traced` | 2 transactions of one wallet, 2 keys, 2 hashes of which one fails, 3 requests of any client |
| `StakingModal` | the properties of 2.2 | one user and modal, 2 transactions of one wallet of which one fails, 2 keys, 2 requests of the service |
| `StakingSubmitTwice` | violation of `SubmitOnce` | 1 key, 2 requests, any client |
| `StakingNoOutcome` | violation of `TrackedOutcome` | 1 key, 2 requests, restricted client |
| `AutomationWorkers` | `TypeOK` and the properties of 2.3 but `OvershootBounded`, and those of 2.4 | 2 workers, 2 jobs, 2 attempts, 1 crash, 1 client, 1 transaction and 1 signal to report; 2 requests for a policy with 2 columns |
| `AutomationDailyCap` | violation of `DailyCap` | 2 clients, 2 jobs, a cap of 1 |
| `Redis` | `TypeOK` and the properties of 2.5 | 1 reader, 2 jobs, 2 rewrites, 2 keys (watermarks 0 and 1); 3 calls of one address in a minute of 2 ticks, with a limit of 1 |
| `ReadCacheStale` | violation of `InvalidatedOnCompletion` | 2 readers, 1 job |
| `Premium` | `TypeOK` and the properties of 2.6 | 2 wallets, invites for one and for two redemptions, 3 requests, 2 rules of which one is quiet past midnight and one is in another channel, a day of 3 hours of which 2 pass |
| `Ingestion` | `TypeOK` and the properties of 2.7 but `ForecastTrailing` | every pair of endpoints on an empty database; the script with any other endpoint, or with two catalog syncs; 2 heads, 1 subnet with 2 validators, 1 wallet |
| `IngestionRanks` | violation of `RankingsStored` | the script alone |
| `IngestionForecast` | violation of `ForecastTrailing` | the script and a portfolio sync |

The runs of Ingestion also evaluate the four statements of 2.8, for sequences of
up to 3 positions, days or validators, amounts up to 4, stakes up to 6 and
percentages on both sides of every clamp.

Why the bounds are enough. Each hazard needs two actors on one object and a
third one to see the result: three requests on two transactions of one wallet
with two keys include two that race, a retry, and a simulation in the middle.
Two workers on two jobs include the race for one job and the race of two jobs on
one incident; two attempts are one retry. Two jobs of the cache with two
rewrites include an invalidation under way while the other rewrites. Three
requests of Premium include the two redemptions or evaluations that race, and
the redemption that an evaluation needs first. The script of `Ingestion` fills
the tables its rivals then find; two catalog syncs beside it are needed for one
to find a row at its own head and be overtaken. Behind the modal two requests
are a submission and its retry, or one for each of two transactions, or a
submission and a simulation; the modal is opened, closed and left without bound,
and the theorems cover any number of requests. Two columns and two requests for
a policy are a column both ask for and one of each. Three calls of a minute
include one that makes the counter, one that meets the limit, and one held up
until it is gone. Bounds that a guard contains: `MaxTime`, `MaxCrashes`,
`MaxCommits`, `MaxHour`, `LastTick`; an id space (`TxIds`, `Jobs`) or a set of
requests (each served once) bounds the rest, and when it is used up the model
stops, which is why the deadlock test is off. `Symmetry` permutes requests and
keys of `StakingOverlap`, which no property of that run tells apart.

Fairness. A handler that has begun is run to its end by the event loop: weak
fairness of `Continue(r)` (`Server(r)` in StakingModal), of `List(c)` and of
`Proceed(s)`, and none for clients to ask for anything. Weak fairness is enough
for the loop of a worker too (`Run(v)`), because a crash is bounded and a lock
is released by whoever holds it. A request of Premium or Ingestion
(`Continue(q)`) goes on when the lock it waits for is free, and a deadlock is
resolved by the database (`Abort`); weak fairness is enough because a request
takes a bounded number of locks once. The clock of the queue goes on (`Tick`),
and Redis expires pages (`Expire`). Crashes, errors, scripts, policy changes,
the user of the modal and the network are never fair. `EveryJobEnds` therefore
assumes that crashes end.

## 4. What the violation runs show

- `StakingSubmitTwice`: `docs/BUILD_TODO.md:93` calls submit handling
  idempotent. It is for a client that waits, not for one whose retry overlaps
  the first attempt, because the test is made on the copy of the session with
  no lock: both requests announce a submission, with hashes that may differ.
- `StakingNoOutcome`: outcomes are tracked (`docs/BUILD_TODO.md:95`) by the
  request that submits and by nothing else. If it dies between its two
  commits, a retry is answered with the row as it is, and the transaction stays
  `submitted`.
- `AutomationDailyCap`: the policy engine is to enforce caps
  (`docs/BUILD_TODO.md:144`), but counts before it inserts. The theorem
  `Overshoot` says by how much the cap can be missed.
- `ReadCacheStale`: the cache is to be invalidated on completion
  (`docs/BUILD_TODO.md:197`). A page that was read before the commit may be
  stored after the invalidation, and is served until it expires.
- `IngestionRanks`: recomputes are to keep the rankings fresh
  (`docs/BUILD_TODO.md:110`), and the script is to include one
  (`docs/phase4/scoring-and-risk.md:48`). The recompute inserts rollups before it
  ranks them, against a NOT NULL constraint, and fails.
- `IngestionForecast`: forecasts are to use the trailing daily rewards
  (`docs/phase4/scoring-and-risk.md:38`). The query takes the oldest `days * 10`
  rows. One sync stores 90, so a client that asks for 7 days gets a forecast
  without the last six; after four syncs the default of 30 days drops some too.
  The volatility of the recompute and the reward history have the same limit.

## 5. Proofs

All theorems hold for every value of the constants that meets the ASSUMEs of the
module: `OwnerAssumption`, `FailingAssumption`, `SimAssumption`,
`ClientAssumption` and `NoneAssumption` for staking, with `PayloadAssumption`
and `UnrestrictedAssumption` for the modal; typing of the bounds,
`ScheduleAssumption`, `SignalAssumption`, `NullAssumption`, a finite set of
workers, and for `Overshoot` a largest cap and finite sets of jobs and clients,
for automation; `NumberAssumption`, `PlanAssumption`, `NoneAssumption` and
finitely many wallets for ingestion; `RowAssumption` for policies;
`BoundAssumption` and `NoneAssumption` for the cache; `LimitAssumption` and
`MinuteAssumption` for the limiter; `LimitAssumption`, `HourAssumption`,
`RuleAssumption` and `NoneAssumption` for premium.

*StakingProofs* (`TypeCorrect`, `KeysUnique`, `RowsTraced`). Neither `KeyUnique`
nor `Traced` is inductive: a step writes a row from a copy made steps ago.
`OverlapInv` adds `Copies`: however stale a copy, the columns it has set are
still set in the row (`NoneErased`), and a request about to finalize holds a
submitted copy. Then the merge of `Flush` never pairs an outcome with an erased
hash. There is one lemma per action.

*StakingModalProofs* (`SubmittedOnce`, `Answered`, `Implements`). With a
restricted client more is true: `CurrentCopies`, a submitting request's copy
differs from the row in the simulation result at most, because submissions of a
transaction come one at a time (`OneAtATime`), and `SubmitsKeyed` ties each
event to the key in the row. An answer is given from a current copy
(`ReaderAnswers`), and the key of a row never changes once it is set
(`AnswerStays`). With these every step of the service is a step of
`StakingLifecycle` or a stutter.

*StakingClientProofs* (`ModalTypes`, `SignsAsked`, `ClientRestricted`,
`ModalSubmitsOnce`, `ModalAnswered`, `ModalImplements`, `ModalTracks`). That a
submission repeats those before it, and finds them over, is not inductive: it
depends on who may still send one. `ClientInv` says so for each transaction. A
preview on its way is of a transaction nobody knows (`ComingIsNew`); what the
modal offers was submitted by this modal with its key and to the end, or is what
it waits for (`OfferIsOwn`); a message on its way, with or without its modal, is
alone and repeats what ended (`SentAlone`). The steps of the service need one
fact only (`Quiet`): a step that loads no submission adds none and leaves what
is over over. `AskedNow` is about when the preview was asked for. Then every
step of the modal is a step of the restricted service (`RestrictedStep`), and
the theorems of StakingModalProofs, instantiated with `ModalClient = TRUE`, hold
behind the modal. `ModalTracks` needs to know who else might settle what was
answered. A settling request has submitted its transaction with the key the row
carries, which is the key that was answered, and `OneSender` says that nobody
but the submission the modal waits for is still at work with its key, whatever
transaction that names. So what is answered is at rest (`Quieted`), and stays so
(`QuietedStays`).

*AutomationProofs* (`QueueTyped`, `Counting`, `Reporting`, `OutcomesFinal`,
`KillSwitch`, `Overshoot`, `JobsLive`; `Acknowledging`, `SettingsStay`,
`ColumnsAsked`). `QueueInv` adds that a job is held by one worker (`Exclusive`),
that a held job is pending and the incidents flushed for it are of the attempt
being made (`Held`), that a pending job has attempts left (`Rows`), and that a
worker past the policy test had permission (`Permitted`). The two action
properties follow from it, one step per action, and so does `JobsLive`: the
attempts that have ended are those the row counts, and a commit is the one step
of `JobLifecycle` that the work of the worker amounts to. `Overshoot` has an
invariant of its own, `CapInv`, over wallets and days. The count of the jobs of
a day alone is not inductive. While the day lasts, its jobs and the requests
that have passed the count (`Passed`) together stay below the cap and one for
each other client, because a request passes only when it sees room for one more.
Once the day is over no request of it begins, and its jobs with those that are
still under way (`Waiting`) only shrink or trade places. The cardinalities are
stepped with the library's facts about finite sets. `Reporting` is another
count: the committed incidents about a transaction and the workers that have
flushed one are together at most as many as there are workers, because a scan
reports only where it sees none committed (`ReportedBy`), and a commit trades
its worker for the incident. `PolicyInv` is the invariant of `PolicyUpdates`.
Whoever has written the row is alone with it, so between UPDATE and commit a
column changes under nobody, and a column a request relies on without having
written it still is as it was loaded or has been overtaken.

*ScoringProofs* (`ScoreInRange`, `ScoreMonotone`; `CoarserBySubnet`,
`LowTakesThree`, `LowHasNoPeak`, `LineIsForecast`, and `CoarserWithinBounds`,
`LowWithinBounds`, `ForecastWithinBounds`). Division with rest is monotone, so
rounding half to even is (`RoundMonotone`), and does not touch whole numbers
(`RoundWhole`). The blend of the inputs is monotone and comes to nine tenths at
most; the first two theorems follow for any metadata, stake and median. The
others are about sums, which the model computes with the fold `MapThenSumSet`:
a function that calls itself, chosen by CHOOSE. That there is such a function
(`AddedExists`), that it adds up in whatever order elements are taken
(`AddedIsSum`), and that there is one only (`SumUnique`) are shown by induction
on the size of the set (`NumberInduction`, from the library's well-founded
minimum, because its induction theorems take an operator). From then on sums are
linear, monotone and split along disjoint sets (`SumInduction`,
`SumLinear`). The share and the HHI of a subnet are at least those of its
validators together. A low band leaves the largest validator 40 percent, which
two cannot share; and a day worth more than all others has, by Cauchy's
inequality, a deviation above 35 percent of the mean. The least squares of a
line give its slope, because the sum of n squares of distances is not 0. The
last three theorems are the statements of 2.8 themselves, for every value of
the bounds.

*RedisProofs*, of the cache (`CacheTyped`, `PagesExplained`). `StaleExplained`
becomes inductive with `Known`: a reader under way has a key of the namespace,
and a job about to set the watermark has a real head. `TypeOK` does its share:
no page and no pending fill is younger than the rows.

*RedisProofs*, of the limiter (`LimiterTyped`, `NoCounterStays`, `Limited`). The
number of calls served is bounded because those that were counted in time were
given different numbers (`Numbered`): a counter is not forgotten before its
grace is over (`Deadlines`), and whoever is counted later is not in time. Those
served have numbers up to the limit.

*PremiumProofs* (`PremiumTyped`, `InvitesCharged`, `Notifying`, `Duplicates`,
`QuietHoursKept`). `PremiumInv` adds what the locks are for: whoever holds an
invite has read its current count (`CountCurrent`) and is alone with it
(`InviteExclusive`); a delivery is held once and is not in the log
(`KeyExclusive`); what is skipped is in the log (`Skipped`). Since every step
but the commits changes one transaction only, `PrivateStep` proves them
together: the new record has to fit (`Fits`) what the locks guarantee.
`QuietHours` relates the code's comparisons to hours counted modulo the day.

*IngestionProofs* (`IngestionTyped`, `SyncedOnce`, `StoredWhole`,
`ValidatorsAtOneHead`, `OrderedNeverDeadlock`). The invariant, `IngestionInv`,
says of every open transaction what it has written and what it has yet to write,
so that its commit can be judged: its rows are those of its job, at its head
(`Proper`); all that the job promises is pending or there (`Covers`); a catalog
sync that was not overtaken sees what is behind it at its head (`Catalogued`);
and a run it has inserted is not committed by another (`Claims`). Those speak of
the committed rows too, and hold through the commits of others because no two
transactions have written one row (`Exclusive`), and subnets are committed all
together (`SeededTogether`). `RunOnce`, `JobsWhole` and `OneHead` then come from
`CommitOnce`, `CommitWhole` and `CommitOneHead`; all other actions change one
transaction, for which there is a lemma each, as in premium. The absence of
deadlock among ordered jobs follows from `InOrder`: rows are written by
ascending `Place`, so whoever waits for a job of its kind waits for one that
waits for a later row (`WaitsForLater`), and a circle of waits would have no
last row (`Lowest`, from the library's well-foundedness of the natural numbers).

Every invariant, action property and refinement that a run checks is so proved
as well, and three of the four statements of 2.8. Only model-checked:
`OwnStakePays`, which sorts stakes to take their median, and does not follow from
`LogAssumption`: of a table that stands still from 1 to 2 and grows from 2 to 3
it is false (stakes 1 and 4, then 2 and 4), so a proof needs that the logarithm
is concave; and everything under fairness (`SettledUnlessCrashed`, `EveryJobEnds`, `EventuallyFresh`,
`EveryRequestEnds`), because liveness and
ENABLED are out of the prover's reach. None of the modules uses a RECURSIVE
operator.

## 6. What is not modelled

- The contents of payloads, previews, messages and pages, and the wallet header
  tests, which refuse before anything is read or written.
- An error of the database inside a handler, which makes `mark_job_failed` fail
  too and ends the worker: it looks like `Crash`, whose number is bounded.
- The RPC retry loop, which keeps nothing: a call answers or fails.
- More than one modal at a time: the panels show one, and other tabs are other
  clients of the service (`StakingOverlap` has any). A wallet or a validator that
  is changed under an open modal, and a preview request that reaches the service
  after its modal was left: it builds a transaction nobody is shown.
- The audit events of policy changes, which are committed with the row and say
  what the object had.
- What a scan looks for before it reports (compound and rebalance do not look for
  an incident that exists), the history a portfolio sync appends beyond what the
  forecast takes of it, `last_seen_block`, which a lagging node sets back, and a
  code that is redeemed again by its wallet: the code promises nothing there, and
  no property would say more than the line does.
- Floats: a share or a volatility exactly at a threshold of the risk band is
  decided by their rounding. Delegation trend, reputation and downtime, which
  are stored and shown but decide nothing; the order of the ranks, of which none
  is ever stored.
- Two blocks with one number, and blocks of one hash whose number differs: a head
  is one number with one hash.
- The script that creates invites: they exist from the start, unused.
- Application shell, schemas, migrations, and the dashboard apart from the
  modal: declarations, wiring and rendering.

## 7. Plan

Done: staking (abstract and detailed) with the modal in front, automation with
the endpoints of the policy and the abstract job, cache and rate limiter,
premium, ingestion, all with their proofs; scoring, evaluated over bounded
inputs and proved but for `OwnStakePays`. Next, in this order:

1. Two hazards without a property: an attempt that is never counted because the
   database fails under its handler, and a recompute that is stored as done before
   there is anything to score.
2. `OwnStakePays` for concave tables: what the median of a sequence with one
   larger element can be, and that the score grows with it.
