# M-Placas: a verification project

M-Placas collects the solar production of photovoltaic plants from manufacturers' clouds, stores it in PostgreSQL, analyses
every day, compares the result with the utility bills of the plant and reports on it: alerts on Telegram, monthly reports,
an investor panel. It is a FastAPI application (`src/src/mplacas`), a set of batch jobs (`cloud_jobs.py`) started daily by
`.github/workflows/operational-jobs.yml`, and a browser front end.

Almost nothing in it is hard inside one transaction. What is hard is what happens *between* transactions: a row read in one
transaction and written in another, the same job started twice, a process killed between two commits, a remote system that
may or may not have got a message. Those are the behaviours modelled here. Every process of the program is a process of a
model, every database transaction (or, where a row is read without a lock and written later, every *half* of one) is an
action, and PostgreSQL's READ COMMITTED isolation, row locks, `SKIP LOCKED` and unique constraints appear as what they let
other processes see, make them wait for, or refuse.

Paths below are relative to the repository (`src/` in the map of `PROJECT.json` stands for its root).

## 1. Inventory

| component | state | operations | hard behaviour |
|---|---|---|---|
| **Collection queue** `collection/queue.py, worker.py, drain.py, job.py` | `collection_tasks` (status, attempts, available_at, locked_at), `daily_energy` | enqueue of a failed day, due ids, claim `FOR UPDATE SKIP LOCKED`, complete with the production, reschedule in a second transaction, purge | rollback gives the lock back before the reschedule; reschedule from an unlocked read; crashes; long waits after a manufacturer's block |
| **Alert outbox** `events/outbox.py, alerts/outbox.py, alerts/operations.py, alerts/sql_ledger.py` | `outbox_events`, `alert_delivery_records` | enqueue with the analysis, due ids, claim (committed), ledger check, send, mark delivered / reschedule / failed, purge | the message leaves before the commit that records it; stale claims are taken over while their owner still works; late marks |
| **Pipeline execution ledger** `orchestration/execution_repository.py, runtime.py, daily_pipeline.py, router.py` | `pipeline_executions`, the day's analysis | acquire, commit of the alert intents, succeed, fail, watchdog | one row is lock and record; a transaction that stays open over provider calls; two callers that treat failure differently |
| **Report exports** `reports/export_service.py, drain.py` | `report_export_tasks` | enqueue, claim a batch, process one by one, complete, fail, download | a claim whose answer is ignored; results written from unlocked reads; killed drains |
| **Bill intake and review** `billing/router.py, repository.py, completion.py` | `utility_bills` | text and PDF intake, completion of a confirmed bill, confirm, reject | unlocked read, then write by key; confirmation materializes a report |
| **Report snapshots and savings gaps** `reports/snapshot.py, snapshot_revisions.py, savings_gaps.py` | `monthly_report_snapshots` (bill, revision) | materialize, list gaps, reprocess | unique `(bill, revision)` under concurrency; gap decided on an old snapshot |
| **Auth sessions** `auth/session_service.py, router.py` | `auth_sessions`, `login_rate_limits` | login, rotate, log out, revoke, count failed logins | rotation and revocation of one family at once; counters read, incremented and written back |
| **Invitations, organizations, users** `organizations/*, clients/router.py, credentials/*` | `user_invitations`, `organizations`, `operational_users`, `api_credentials` | invite, reset access, open and accept a link, deactivate, reactivate | checks when a link is opened, other checks when it is accepted |
| **Authorization and tenancy** `core/security.py, tenancy.py, authorization.py` | none of its own | authenticate in three ways, infer a plant, fan out | scope and plants read in different transactions |
| **Provider accounts** `providers/accounts.py, router.py` | `provider_accounts` (sealed credentials, fingerprint), readings kept in memory | connect, reconnect, first plant, disconnect, read now, rotate keys | owner looked up before the lock; processes with different keyrings |
| **Plants** `plants/service.py, autofill.py` | `plants` and the marks of filled fields | create, fill, edit, locate, quote | one row filled by a manufacturer and edited by its owner |
| **Manufacturer clients** `providers/resilient.py, nepviewer/, growatt/` | a session per run | sign in, list, read a day, totals | refusals, limits and silence told apart; what may be tried again |
| **Daily energy and meter readings** `services/collection.py, db/repositories/daily_energy.py` | `daily_energy`, versions, `meter_readings` | upsert, derive a day from two totals | unlocked ownership check; insert race; late, repeated, reset totals |
| **Photovoltaic analysis, climate** `photovoltaic/*, climate/*` | climate, irradiation on the modules, performance, baseline, losses, a row a day each | the four steps of a day, reruns, retention | rows of several calculations side by side; a reference year that is filled or purged later |
| **Energy intelligence** `intelligence/*` | none of its own | analysis of a cycle, diagnostics, trend, anomalies of recent days, is a larger plant worth while | days nobody read, windows that begin elsewhere |
| **Dashboard cache** `intelligence/dashboard_cache.py, dashboard_readmodel.py` | dashboards by fingerprint, per process | fingerprint, build, store, evict | a key that does not cover all the inputs |
| **Production and anomaly alerts** `alerts/production_alert*.py, candidates.py, intelligence/anomaly_service.py` | the ledger of what was sent | assess, count the streak, send, mark; queue | each run judges the days anew from data that is revised |
| **Tariffs** `tariffs/*` | `distributor_tariffs` | import of ANEEL's base, tariff of a cycle | bases that extend, split or contradict what is stored |
| **Market indexes** `market/*` | `market_index_monthly`, last attempt per process | read, fetch what is missing, insert | workers that fetch the same months at once |
| **Check of the utility** `reports/utility_check.py, history_service.py`, `intelligence/expansion*.py` | none of its own | credits missing, impossible export, advice on expansion | bills issued again, uploaded late or never, or half read |
| **Cloud jobs** `cloud_jobs.py`, `operational-jobs.yml` | settings, the workflow's steps | the cycle of jobs of a day, the watchdog, hand runs | it goes on after failures; plants come and go between two jobs |
| **Retention** `retention/*` | cuts over the tables above | purge | age by creation while windows speak of terminal rows |
| **Telegram intake** `telegram/*` | the chat's organization, bills | messages and commands | a message delivered again |
| **Job runs** `operations/*` | `job_runs` | status | nothing in the source writes them: the status is always "no history" |
| **Front end** `frontend/` | session refresh in flight | single-flight refresh | concurrent 401s |
| parser, projection and renderers, audit, observability, explanations, devices, migrations, application shell | none of their own, or single-row CRUD | | none beyond one transaction |

Interaction. `daily-pipeline` (cloud job or `POST /pipeline/run`) acquires the ledger, analyses, enqueues alerts in the outbox
*in the same transaction* and dispatches its own batch; `dispatch-outbox` dispatches what is left. `collect` stores days or
enqueues them in the collection queue; `drain-collection` drains it. Confirming a bill materializes a report snapshot, which
exports, ROI and the investor panel read. `retention` deletes settled rows under all of them. All communicate through tables
only; there is no in-memory sharing between jobs.

What makes each component correct:

* queue: one handler per row at a time; no failed attempt counted twice, none lost by a single worker; every deferred
  day is accounted for; a refused login waits; every pending task settles;
* outbox: nothing lost silently; nothing sent twice without one of the reasons at-least-once delivery admits; the ledger and
  DELIVERED speak only of what was sent; claims always recoverable;
* ledger: one first run per day; SUCCEEDED means analysed; the watchdog is quiet only if something really ran;
* exports: results only for claimed tasks; a settled task stays settled; status and content agree; nothing pending forever;
* sessions, links, tenancy: a family has one live session and a revoked one none; a link is used once; nobody is served a
  plant of another organization, at whatever point plants and organizations change;
* accounts and plants: one account feeds one plant; what the owner said is not overwritten by what a manufacturer said;
* energy and analysis: no value of a day is forgotten, no production counted twice; the losses of a day explain its
  performance; a reference year is not learned again from degraded production; a dashboard shows the readings it has;
* alerts: a bad day is told of once and as what it is; tariffs and rates: what was concluded of a past cycle stands; credits
  reported missing are missing;
* the cycle of jobs: green means done, for every plant that was there;
* bills and reports: a confirmed bill has its report; no report before review; a revision adds something and never loses a
  month's savings; requests never wait for each other in a cycle.

`PROJECT.json` lists every component with its sources and status, and every hazard at its line.

## 2. Plan

Order of work, most important behaviour first; all of it is in the project now except the lines marked "planned".

| module | abstract specification | composed with | state |
|---|---|---|---|
| `CollectionQueue` (queue, workers, daily job, purge) | `TaskLifecycle` | the purge of `retention`, the enqueue of `job.py` | proofs in `CollectionQueueProofs` |
| `AlertOutbox` (pipeline's enqueue, dispatchers, Telegram, ledger, purge) | `AlertDelivery` | pipeline and dispatch-outbox as two modes of one dispatcher | proofs, with the refinement, in `AlertOutboxProofs`; of the composition in `OperationsProofs` |
| `PipelineExecution` (ledger, cloud job, API, watchdog, purge) | | `MCOperations` | proofs in `OperationsProofs` |
| `ReportExport` (endpoint, drains) | | | proofs in `ReportExportProofs` |
| `BillReports` (intake, review, snapshots, savings gaps) | | bills and their reports share their requests' transactions | proofs in `BillReportsProofs` |
| `Access`, `LoginRateLimit`, `ProviderAccounts`, `PlantSettings`, `Tenancy` | | `MCIdentity` | proofs in `IdentityProofs` |
| `SolarCollection` | | the queue's enqueue; `MCIdentity` | proofs in `IdentityProofs` |
| `DailyEnergy` | | `MCOperations` | proofs in `OperationsProofs` |
| `PvAnalysis`; `EnergyCycle` (pure) under `DashboardCache` | a build on the present state is what a hit is compared with | `MCOperations` | proofs in `AnalysisProofs` |
| `ProductionAlert`, `AnomalyAlerts` | | `MCOperations` | proofs in `AnalysisProofs` |
| `Tariffs`, `MarketIndex`, `UtilityCheck` | what the base, the answers and the utility's own books say | `MCOperations` | proofs in `FiguresProofs` |
| `DailyCycle` | | the jobs' outcomes; `MCOperations` | proofs in `OperationsProofs` |
| single-flight refresh of the front end; the money of the investor panel and of an expansion | | | planned, small |

Theorems worth proving, in this order: those of the queue, the exports, the bills, the outbox with its refinement, and of
everything in `MCIdentity`; the days, the ledger of the analysis and the cycle of jobs; the refinement of `TaskLifecycle`; the
losses, references, alerts and cached answers of a plant; the tariffs, rates and credits (all done, section 5). Every safety
invariant and every action property of the runs is now a theorem; what is left to TLC is liveness.

Conventions. Parameters of a module are CONSTANTS with a named assumption. Bounds that exist only for TLC are constants too
and are marked "bound" where they are declared. Time is kept as *ticks left* or *ticks elapsed*, saturating at the largest
window that is compared with it, so that no clock grows. A definition called `XDoingSomethingWrong` with the comment
"Mutant of X" is not part of any specification: it is X with a plausible bug, kept to show that the property named in
`PROJECT.json` notices it. No module declares a RECURSIVE operator.

## 3. The modules and the code

### CollectionQueue

`row` is `collection_tasks` by its deduplication key (plant, day); `id` identifies the physical row, since a purged task may
be enqueued again and a worker may still hold the old id. A worker's run is `StartDrain` (the due ids are listed in a
transaction of their own), then for every id `Claim` or `Skip`, then `Complete`, or `Fail` (rollback, lock released) followed
by `RescheduleRead` and `RescheduleWrite`: two actions because `_reschedule` reads the row with `session.get` and no lock,
and the flush later writes only the columns that differ from what was read. `PROCESSING` is flushed but never committed (the
claim commits together with its outcome), so no other session sees it; the model leaves it out, together with the second arm
of `_claimable`, which has nothing to match. `CollectStores`, `CollectFails` and `EnqueueRetry` are the daily job; the enqueue
is `ON CONFLICT DO NOTHING`. `Purge` is the retention cut. A handler may return normally with nothing to store: the manufacturer
lists no device (`services/collection.py`, the loop has no turn) or covers the date with no value (`nepviewer/client.py`, no error
even when the day must be complete). `Complete` therefore chooses whether the answer had the day; the task is COMPLETED either way.

Four history variables: `failures` and `blocked`, how often the task of the present row, or of the last one if it was purged, really
failed, and how long its last refusal asks to wait; `deferred`, the days whose enqueue was committed, also where a row was already
there; `silent`, the tasks whose last handled row ended on an answer without the day. `DeferredDaysAccountedFor` relates them: a
deferred day is stored, or pending, or silent, or given up after all its attempts, across rollbacks, crashes, late reschedules,
purges and enqueues that change nothing.

`TaskLifecycle` is what the queue promises without workers, delays or row identities. `MCCollectionQueue` maps the table to it.

### AlertOutbox

An event is an alert *for a chat*. A dispatcher is a process in one of two modes: `Enqueue` starts a daily pipeline, which
commits its alerts and dispatches just those; `StartDispatch` starts a dispatch-outbox job, which lists what is due. Both run
the same `_dispatch_event`: `Claim` (committed), `CheckLedger`, one of `SendAccepted`, `SendLost` (accepted, but the answer
never said so) and `SendRefused`, then `MarkRead` and `MarkWrite`, again an unlocked read and a later write of the changed
columns, together with the ledger entry when the message was sent. When the row was purged meanwhile the mark raises; the
pipeline's caller commits what its session holds and the worker's rolls back (`Abort`). `Tampered` are alerts whose stored
payload may lose its checksum, `Invalid` those whose payload does not deserialize. `sends` counts what Telegram accepted;
`excuses` counts the events that justify one more message. `MoveChat` changes the configured chat.

### PipelineExecution

A run is `AcquireRead` (an unlocked SELECT, the refusal of a RUNNING row that is not stale), `AcquireWrite` (the INSERT or
UPDATE, which waits for any open transaction that has written the row), `CommitIntents` (only when alerts are dispatched), and
`Succeed` or `Fail`. `draft` is the row inside the run's open transaction. `Fail` depends on the caller: the cloud job
commits, the router rolls back. `Healthy` is the watchdog's verdict over the latest row. Status `partly`: the analyses between
acquisition and commit are one value (`none`, `partial`, `full`).

### ReportExport

`ListPending`, `Claim` and `CommitClaims` are the claim transaction; a task that could not be locked stays in the list all the
same, because the answer of `claim` is ignored. `Visit`, `ReadToComplete`/`MarkCompleted`, `ReadToFail`/`MarkFailed` and the
losses `CompletionLost`, `FailureLost` are the transactions of `_process_task` and `_fail_task`.

### BillReports

A request is one transaction. `Review` reads a bill without a lock; `Reject` and `Confirm` write it by key later, whatever it
has become, and wait while another request has the row (`RowLocked`). `Confirm` materializes the report of a bill that has
none (`PrepareInsert`, `Insert`, `Commit`); `View` does it for the latest confirmed bill; `ListGaps` and `VisitGap` are the
reprocessing, which keeps the causes it listed and reads everything else again. `Insert` waits for a request that has inserted
the same `(bill, revision)` and not committed, and takes a refused key for an answer. A report is reduced to what decides its
gap: whether the savings metric is there and filled, what telemetry it rests on, which tariff and class it used, whether its
formula is old and whether it counts estimated days. `SavingsOf` stands for the amount: two reports have the same savings when
they were computed from the same data by the same formula. `Legacy` bills start confirmed, with any report an earlier release
could have written, or none. `Upload`, `Complete`, `ChangeProduction` and `RegisterTariffs` are what changes around them.

### Access, LoginRateLimit

A request of `Access` is one transaction: it reads without locks (`RefreshRead`, `LogoutRead`, `OpenInvitation`), its writes wait
for rows another request wrote, and its commit shows them. A statement that revokes many sessions (`StartRevocation`,
`StartReset`) works on the rows it saw when it began. `mark`, `late`, `barred` and `uses` are history. In `LoginRateLimit` an
attempt reads the row (`Begin`), checks the password in between, and writes back what it read counted up (`Count`); only the
columns that differ are written, which is how two overlapping failures count once. `Purge` is the retention.

### ProviderAccounts, PlantSettings, Tenancy

A request to connect asks the manufacturer first and holds no transaction meanwhile; `PutLookup` and `Create` look the
account's owner up under every key of their own keyring, `PutCommit` and `CreateCommit` meet the unique fingerprint. `AddKey`
deploys a newer key to processes that begin later, `RotateAll` seals every row anew. `live` is the reading kept in memory; a
request keeps the one it found there as `entry`, and puts it back if the manufacturer fails (`NowFailed`), over whatever was kept or
forgotten meanwhile.
`PlantSettings` keeps, for each column, who gave its value; an edit loads the row (`OwnerEdits`, `OwnerLocates`, `OwnerQuotes`,
`ProfileFills`), works on what it loaded, and at its commit writes the columns that differ from it; the marks `auto_filled` are one
JSON column, so they are written together or not at all. `lost` is history: the columns a request wrote over, or whose mark it
wrote over, without having seen another one change it. The properties speak of every column outside `lost`, however requests
overlap; `overtaken` counts how often an open request has been overtaken and serves only as a bound. `Tenancy` separates authentication (`ByStaticKey`, `ByBearer`,
`ByCredential`) from serving (`ServeNamed`, `ServeInferred`, `ServeFanout`), as the program's dependencies do.

### DailyEnergy, SolarCollection

A writer of `DailyEnergy` is one transaction over one or several days: insert, or lock and update with a version. A night
reading (`CountNight`) inserts the total, looks at the day's owner without a lock (`LookDay`) and upserts the difference. `trail` is
every value a day had. `SolarCollection` is one `collect` job over its plants: `SignIn`, `Listed`, `GotDay`, the errors a client
may raise, what each of them leads to (`Defer`, `GiveUp`, `Daylight`, `MeterRead`), and `RecordOutcome`, which writes to whatever
connection the plant has by then.

### PvAnalysis, EnergyCycle, DashboardCache

A run of `PvAnalysis` is one daily pipeline: `Climate`, `Measure`, `Compare`, `Classify` are its four services on the rows as they
are at that moment, each with its skips, which leave an older row as it is. `Baseline` has the filters of the program at its
bounds: the envelope is the 0.90 quantile of the season (`Envelope`), clear-sky days have 0.65 to 1.25 of it (`ClearSky`), and
`MadFilter` drops the outliers of what is left. The run starts from each of several *pasts* (`Pasts`), tables of days already
calculated in which each filter keeps some samples and drops others. `FailJob` commits what was done (the cloud job),
`RollBack` does not (the API). `FetchHistory`, `Collect`, `EditPlant` and `Purge` change the rows around it. `EnergyCycle` holds
the pure functions of a cycle (production with estimated days, savings, diagnostics, trend) over small integers.
`DashboardCache` builds with them from what is committed at each query; `HitStep` compares a hit with a build done now.

### ProductionAlert, AnomalyAlerts

`Assess` reads the day, the sky and the devices, `Count` the days before it, `Check` the ledger; `Send`, `SendLost`, `Mark` follow. Nothing
in the source calls the production alert yet; it is modelled as its tests use it. `AnomalyAlerts` is the operational alert
pipeline: a window judged by trailing medians, its worst level, its streak, the candidates it queues.

### Tariffs, MarketIndex, UtilityCheck

`Import` is the whole weekly job: parse, contradictions, coalesce, compare, write. A request of `MarketIndex` reads, fetches at
most once per interval and process, inserts in a savepoint, and commits at its end. In `UtilityCheck` the environment issues
bills, and corrected ones, from the utility's own books; `Confirm`, `Complete` and `Snapshot` are what the program gets of them;
`Verdict` and `Assessment` are `check_cycle` and `assess_expansion` on that.

### DailyCycle

The workflow of `operational-jobs.yml`, one action per step; `Analyse` and `Look` take one plant each, as the loops of
`run_daily_pipeline` and `run_operational_watchdog` do with a session each. What a run of the analysis does inside is
`PipelineExecution`; here it ends well, badly, or is killed. Owners, clients, hand runs and GitHub's delays are the environment.

### MC modules

`MCCollectionQueue` adds the queue's refinement mapping (`AlertOutbox` has its own, which the proof of the refinement needs);
`MCPipelineExecution`, `MCBillReports` and `MCAlertOutbox` the symmetry of processes, used only in runs without liveness properties; `MCReportExport` adds nothing. `MCIdentity` and `MCOperations` hold
several components: `part` says which one a behaviour is about, the components share the state variables `s1`, `s2`, ... by
position, and a property of the whole says of each component what it promises. They are not interleaved with each other
because none writes a table another one of them decides on (`MCOperations` instantiates `AlertOutboxProofs`, so that what is
proved of the outbox alone can be carried to the composition); where components do share a table (a bill and its reports, the
queue and the day it stores, a pipeline and the outbox, readings and the dashboard) they are one module.

## 4. Runs

| run | instance | properties | what it shows |
|---|---|---|---|
| `queue_single` | 1 drain, 1 collector, 2 days, 2 attempts, 1 crash, 2 rows, fair | `TypeOK`, `ImplementsLifecycle`, `RefusedTaskWaits`, `PendingTasksSettle` | with one worker the queue implements the task lifecycle: no attempt is lost or counted twice, a done task stays done; a refused login waits; nothing stays pending |
| `queue_pair` | 2 drains, 1 day, 3 attempts, 1 crash, 2 rows | `HandlerOwnsDueTask`, `GivenUpOnlyAfterMaxAttempts`, `DeferredDaysAccountedFor` | two drains and a job that defers race for one row across the unlocked reschedule; a deferred day is never just forgotten (the refinement does *not* hold here: a late reschedule reopens a COMPLETED task) |
| `outbox_single` | 1 dispatcher, 2 alerts (one defective), 2 chats, 1 move, 1 crash, 2 sends, fair | `TypeOK`, `ImplementsDelivery`, `QueuedAlertsSettle` | one process at a time delivers at least once, sends nothing on record, settles every event of the present chat |
| `pipeline_reacquire` | 2 runs | `RunningExcludes` violated | see findings |
| `pipeline_router` | 1 run | `EndedRunIsOnRecord` violated | see findings |
| `export_pair` | 2 drains, batches of 2, 3 tasks, 2 crashes, fair | `TypeOK`, `ResultMatchesStatus`, `SettledNeverReopens`, `PendingIsTaken` | overlapping batches, double processing, killed drains |
| `export_killed` | 1 drain, 1 task, 1 crash | `ProcessingSettles` violated | see findings |
| `bills_pair` | 2 requests, 1 legacy and 1 new bill, 2 revisions, 1 change | `TypeOK`, `ReviewedHasReport`, `FreshRevisionImproves`, `NoMutualWait`, `SecondRequestStoresNothing` | every pair of requests over both bills |
| `outbox_overtaken` | 3 dispatchers, 1 alert, 3 attempts, no crash | `ClaimHasLease` violated | see findings |
| `identity` | 2 requests, editors or attempts, 1 user, 2 organizations, accounts and plants, 1 credential; of a plant's settings 1 overtaking and none begun after a loss, 1 day; a collection of 1 plant, 2 connections, 2 attempts, run twice | `TypeOK`, `SessionsEnd`, `LinksSpent`, `LoginBounded`, `AccountsAreSingle`, `OwnersPrevail`, `ScopeIsExact`, `OutcomesKept`, `RefusedLeftAlone` | who may do what with which plant, under every interleaving of two requests' transactions; and the daily collection with the connected accounts |
| `operations` | the eleven parts below | the twelve properties below | what is collected, concluded and told of the plants |
| `dashboard_stale` | 1 request, 1 writer, 3 days, 2 bills | `NeverStale` violated | see findings |

The parts of `operations`:

| part | instance | property of the run | of the module |
|---|---|---|---|
| outbox | 2 dispatchers, 1 alert, 1 attempt, 1 crash, 2 sends | `DuplicateNeedsExcuse`, `ConfirmedWasSent` | of the same names |
| pipeline | 2 runs of one day, 2 acquisitions, 1 crash, 2 rows | `OutcomeIsHonest` | `FirstAttemptExclusive`, `SucceededMeansAnalysed`, `QuietMeansAlive` |
| cycle | an owner's and a client's plant, 2 cycles, 1 event around them | `OutcomeIsHonest` | `GreenIsHonest` |
| energy | 2 writers, 2 days, 3 runs | `NoValueForgotten`, `DaysClose` | `NoValueForgotten`, `TotalsClose`, `BrandStep` |
| analysis | 5 days, a reference of 3 of which 2 are needed, 7 pasts, 2 runs, 1 change, 3 sites | `LossesExplainPerformance`, `ReferenceIsHonest` | `LossesExplainPerformance`, `NotLearnedBack`, `ReasonIsTrue` |
| dashboard | 2 requests, 2 writers, 2 bills, 3 writes | `HitIsCurrent` | `HitStep` |
| alert | 2 senders, 2 inverters, 2 days, 1 revision | `AlertsAddUp` | `SilenceHasEvidence`, `OneMessageADay`, `SecondDayEscalates` |
| anomaly | 2 runners, 2 days, 1 revision | `AlertsAddUp` | `JudgedAlike`, `EveryTurnIsTold` |
| tariffs | 3 days, 3 imports, 1 or 2 periods a base, 3 classes | `FiguresStand`, `CyclesKeepTariff` | `OneTariffADay`, `ToldOrTrue`, `CycleKeepsTariff` |
| market | 2 workers, 3 requests, 2 months, 2 rates | `FiguresStand` | `AnswersAreStored` |
| utility | 3 months of seven kinds, 1 bill issued again, window of 2 | `FiguresStand` | `MissingIsExact`, `AdviceIsSound` |

Why the bounds are enough. Two processes are what every race in this code needs: each hazard is one process acting between
another's two steps, and rows interact only through the batch order, for which two tasks (queue, outbox) or three (exports, so
that two batches of two overlap without being equal) are enough. Two attempts distinguish a first failure from the last one,
three let two drains disagree about which one is the last. `BatchLimit` 1 with two tasks makes the older one a possible
obstacle for the younger. One crash may hit any step, including the recovery step of a later run; exports get two since their
second drain has to survive the first one's death. A row bound of 2 lets a key be purged and used again once, which is what
makes an id stale. Delays are small but ordered as in the code: first backoff at most the cap, cap at most the long wait,
retention of the ledger longer than that of the events, watchdog's stuck limit not larger than the stale timeout. In
`bills_pair` a single change of the world is enough to make a listed gap stale; a second revision is enough for a conflict
over a key, and the legacy bill starts in every state an older release could have left. `outbox_overtaken` needs a third dispatcher, since its process is
overtaken twice.
In `identity` every race is between two requests about one user, plant or account; two organizations and two plants are what a
scope can be wrong about, and `MaxTime` lets a window and a lock both pass. In `operations` two days make a predecessor, three
make a predecessor of one, which is what totals, streaks and tariff periods are about; a window of one or two stands for three,
twelve or a year, since only its being full or not, and where it begins, is decided on. The analysis has five days, because a
reference year must hold a season of several samples for its quantile, clear-sky and MAD filters to tell them apart: the pasts
are chosen so that each filter drops a sample in one of them. Values are as few as make every verdict occur, which was tried for
each of them. An edit of a plant that was overtaken twice meets what the first overtaking left, and once a column is lost, what
is begun later is no new question about the others; both are bounds of the run only, and the theorem has neither.

Runs without `CHECK_DEADLOCK FALSE` never stop: time passes. The exports and the bills may rest: when every task is settled,
when every bill is reviewed and every report up to date.

### Fairness

* queue: weak fairness of each worker's steps together and of time. `operational-jobs.yml` starts `drain-collection` every
  day and a started drain goes on until its batch is empty. Nothing is assumed of the collector, the accounts, the purge, the
  crashes or *how* a handler ends: `Complete` and `Fail` are chosen freely, so a task may fail each time and is given up.
* outbox: weak fairness of each dispatcher's steps and of time, and strong fairness of `StartDispatch`. The daily cycle runs
  `daily-pipeline` and then `dispatch-outbox`, one after the other in one concurrency group, so pipelines, which are not
  assumed to occur at all, cannot keep the job from being started again and again. Nothing is assumed of Telegram: refusals
  are counted and end in FAILED.
* exports: weak fairness of each drain's steps: the cycle runs `drain-report-exports` daily, and failures are free.
* crashes are bounded only to bound the state space; the liveness properties hold because crashes stop some day.

### Findings

Each is a run whose single property TLC refutes; `PROJECT.json` quotes the line it contradicts.

* `pipeline_reacquire`: a RUNNING record is meant to exclude other runs until it is stale. `acquire` reads a terminal row
  without a lock; a second run that read it too overwrites the fresh RUNNING row.
* `pipeline_router`: a failed run is meant to be on record. The router's rollback undoes the FAILED mark.
* `export_killed`: a claimed task is meant to end completed or failed. One whose drain is killed stays processing for ever.
* `outbox_overtaken`: abandoned claims are meant to become eligible again. A process overtaken twice finds the row DELIVERED
  with a stamp, and writes after a reschedule and a third claim: it clears the stamp and leaves the claim's PROCESSING, so that
  the event is lost if the third claimant dies.
* `dashboard_stale`: a cached dashboard is meant never to be obsolete. Its key covers the readings of its own cycle; the
  readings around it, the climate, the tariff and the cycle before enter the dashboard as well.

Also seen while modelling, without a run of their own.

* Queue, exports, bills: two drains may process the same export task and the later result wins (the tasks of a
batch that could not be claimed are visited all the same); a day that already has a row keeps the row's due time when a block
would ask for a longer wait, and a FAILED row swallows the new deferral, where the docstring of `run_solar_collection`
(`collection/job.py:35-41`) says the day is queued for a later attempt; a task is COMPLETED with nothing stored when `list_devices()`
is empty or NEPViewer covers the date with no value; with two drains a late reschedule reopens a COMPLETED
collection task (the day is collected again, harmlessly); a bill whose rejection raced its confirmation ends REJECTED with a
report that is still counted; a gap listed as missing or predating savings may, if telemetry is pruned and another request
stores a report meanwhile, replace given savings by an empty metric, which is why `FreshRevisionImproves` speaks only of
revisions whose gap was listed on the revision they follow; two reprocessing requests, or one with a view in between,
can store identical revisions (`savings_gaps.py`: the cause listed before the other's commit is applied to the revision it
committed), which `ADR-081` means to exclude.
* Outbox, pipeline: `RUNBOOK_DEPLOY.md:172` says a backfill's pipeline does not deliver; it dispatches its own batch
  (`alerts/operations.py`). The watchdog reads the newest target date, so a hand run of today hides a failed yesterday; it excuses
  client plants without history for ever; a day whose cycle never ran is not analysed by the next one; dispatching a cycle again
  sends the digest again; the digest creates a plant of the configured name if none has it, which then makes the watchdog red.
* Collection: credentials are read by row after the brand was (`cloud_jobs.py`), so a connection exchanged meanwhile hands the new
  brand's credentials to the old brand's client; NEPViewer's `_post` signs in again and recurses without a limit; `save` keeps the
  last success of the previous connection; a drain exits 0 although tasks failed; the meter upsert works on a row read earlier.
* Sessions and tenancy: a session opened with the old password while a reset is under way survives it, as do access tokens and
  Telegram chats a deactivation; a failed rotation's writes are rolled back because the router raises without a commit; an
  inactive Default organization makes `_resolve_default_organization_id` insert its id again; a message Telegram delivers again
  registers its bill in another plant if the default changed.
* Plants: a profile fill that loaded the plant before the owner's edit was committed overwrites it; two overlapping proposals can
  tear amount, inverter and day; a live reading taken during a reconnection is served for up to ten minutes.
* Photovoltaics: the frozen reference window moves back when older days are backfilled and forward when the retention deletes its
  year; skipped steps leave old derived rows; a climate fetched again without irradiation leaves the old result; the
  expectation uses the latest baseline of any month.
* Dashboard: a build reads the latest bill again, so a newer bill's dashboard can be stored under the older key.
* Alerts: the message "os N inversores caíram junto" with none that dropped, "só um inversor caiu" with two of three, "a queda não foi o
  tempo" with too few sunny samples; a crash between send and mark repeats a message said to be sent at most once; the cause
  and the worst level of an anomaly are of the whole window, so one critical day is told of for up to seven end dates.
* Tariffs and rates: `import-tariffs.yml:3-5` says an implausible value aborts the import, the importer leaves out that class; a
  stored longer period keeps out the base's newer price; a missing SCEE value is never filled; the six hours between attempts are
  spent even if the request rolls back; the CDI and the IPCA of one answer may end in different months.
* Utility: if the bill of the month before lacks the line about expiring credits, credits that expire count as a confirmed
  loss until it is completed; a bill issued again and uploaded without the one the next month started from does the same.

## 5. Proofs

Eight modules hold theorems. What they state on every value of the constants, the runs of section 4 check on small ones.

| module | theorem | property |
|---|---|---|
| `CollectionQueueProofs` | `TypeCorrect` | `TypeOK` |
| | `HandlerOwnership` | `HandlerOwnsDueTask` |
| | `GivenUpLate` | `GivenUpOnlyAfterMaxAttempts` |
| | `DeferralsAccounted` | `DeferredDaysAccountedFor` |
| | `LifecycleImplemented` | `ImplementsLifecycle` |
| | `RefusalsWait` | `RefusedTaskWaits` |
| `ReportExportProofs` | `TypeCorrect` | `TypeOK` |
| | `ResultAfterClaim` | `ResultNeedsClaim` (in no run: the other three cover it) |
| | `ResultFollowsStatus` | `ResultMatchesStatus` |
| | `SettledStays` | `SettledNeverReopens` |
| `BillReportsProofs` | `TypeCorrect` | `TypeOK` |
| | `ReportWithConfirmation` | `ReviewedHasReport` |
| | `FreshRevision` | `FreshRevisionImproves` |
| | `NoDeadlock` | `NoMutualWait` |
| | `SecondRequestIdle` | `SecondRequestStoresNothing` |
| `AlertOutboxProofs` | `TypesKept` | `TypeOK` |
| | `NeverRepeatedForNothing` | `DuplicateNeedsExcuse` of the outbox |
| | `OnlyConfirmedIsRecorded` | `ConfirmedWasSent` of the outbox |
| | `DeliversAtLeastOnce` | `ImplementsDelivery` |
| `OperationsProofs` | `MessagesNeedExcuse` | `DuplicateNeedsExcuse` of the composition |
| | `MarksAreOfSent` | `ConfirmedWasSent` of the composition |
| | `NoVersionIsLost` | `NoValueForgotten` |
| | `DaysAreClosed` | `DaysClose` |
| | `OutcomesAreHonest` | `OutcomeIsHonest` |
| | `OperationsTyped` | `TypeOK` of `MCOperations` |
| `AnalysisProofs` | `LossesAreExplained` | `LossesExplainPerformance` |
| | `ReferenceStaysHonest` | `ReferenceIsHonest` |
| | `AlertsHold` | `AlertsAddUp` |
| | `HitsAreCurrent` | `HitIsCurrent` |
| `FiguresProofs` | `CyclesKeepTheirTariff` | `CyclesKeepTariff` |
| | `FiguresHold` | `FiguresStand` |
| `IdentityProofs` | `LoginsAreBounded` | `LoginBounded` |
| | `OwnersAreKept` | `OwnersPrevail` |
| | `ScopesAreExact` | `ScopeIsExact` |
| | `AccountsStaySingle` | `AccountsAreSingle` |
| | `DaysAndFailuresKept` | `OutcomesKept` |
| | `RefusedAreLeftAlone` | `RefusedLeftAlone` |
| | `SessionsStayEnded` | `SessionsEnd` |
| | `LinksStaySpent` | `LinksSpent` |
| | `IdentityTyped` | `TypeOK` of `MCIdentity` |

Assumptions are the ones the modules name: `ConstantsAssumption` (limits are naturals; the attempt limit, the batch size and the
number of bills are positive; the queue's workers are finite, its null task is no task and its backoff is a natural number,
since exponentiation is beyond the provers; `OneWorker`, for `LifecycleImplemented` and `RefusalsWait`, says that one worker
drains; there is a target date to analyse, and the days of the energy are finitely many, from 1 on)
and, for each value that stands for "no row", that it is not a row. A component that
is instantiated states the same as an operator `ConstantsOK`, and the composition assumes it of all (`ConstantsOfParts`): a file of tariffs is
finite and its periods end no earlier than they begin (the table's CHECK), the series of a request are distinct, the kWh of a
month are natural numbers, a window has a month, an amount is never the value that stands for none. TLC
evaluates all of them in every run. Each proof has one step per action; frame lemmas dispose of what an action leaves alone.

**The queue**, for any plants and days, any finite set of workers, any number of collectors and any limits. The first three
theorems follow from one inductive invariant, `IInv`:

* `TypeOK`;
* `HoldsKnownRow`: the ids of rows in the table and the ids workers hold were handed out (they are at most `inserted`), a worker
  that holds a task holds one of `Tasks`, and one that is about to reschedule has read a row. Without it a purged and
  re-inserted task could be confused with the one a late worker read;
* `HandlerOwnsDueTask`, which is needed because a reschedule may not touch a row that is being handled: it waits for its lock;
* `Counted`: the attempts of a row, *plus the number of workers that saw the present row's task fail and have not written it
  yet*, are at most the failures in history, and what a worker read is no larger than that. Given-up-late alone is not
  inductive: a reschedule writes `seen.attempts + 1`, so the invariant must bound what every worker has *read*. The pending
  writers are a finite set, and the proof counts them with the cardinality lemmas of `FiniteSetTheorems`.

`DeferralsAccounted` is inductive with `TypeOK`, `Counted` and the fact that a row exists only because its day was deferred: an
enqueue leaves a PENDING row or finds one; a completion makes its day stored or silent; a row fails only with all its attempts counted, and
`failures` and `silent` outlive the row until the next one; a purge takes only rows whose day is accounted for otherwise. `LifecycleImplemented` is the refinement of
`TaskLifecycle`, for one worker: a second one may reopen a finished task (section 4), which the abstract queue forbids. Each
action maps to a step of the task it handles or to none, because what one worker read before it writes is still so.
`RefusalsWait` needs that a refused task which is due again was due before; a worker killed before it wrote the refusal down is
excepted.

**The exports**, for any set of drains, any number of tasks and any batch size. Not even the type of the table is inductive: a
late mark updates `row[Task(d)]`, which must be a row. The invariant adds that a drain that is not idle has a task left
(`BatchNotEmpty`; it needs that a non-empty list has an oldest task, `OldestExists`, and that the batch size is positive), that
`claimed` is set exactly when a task leaves pending (`ClaimedUnlessPending`), that open claims hold distinct pending rows
(`LocksPending`) and that a drain past its look at a task works on a claimed one (`BusyOnClaimed`). From the last three a late mark
never meets a pending or locked row, so a commit of claims overwrites no result and a mark writes a settled status or keeps the
one another drain stored.

**The bills**, for any number of bills, any set of requests and any history of earlier releases. The invariant has a part about
the table (`BillsHaveReports`) and three about each request: what it is about to insert is a report of a reviewed bill or of the
bill it confirms in the same transaction (`Prepared`); what it has inserted is older than what it inserts now, and that is older
than the gaps it has not visited (`OldestFirst`); what it knows of a revision is true as long as that revision is the current one
(`FreshGaps`). A request that takes no step keeps its part because reports are only appended and a reviewed bill stays reviewed
(`RestingKeeps`). `NoDeadlock` takes, among requests that insert, the one with the latest bill: what the others hold is older than what
*they* insert, so it waits for none of them; and nobody who waits for a bill's row holds a key. `SecondRequestIdle`: a bill whose
revision nobody disturbed since it was written has the gaps its revision says, so a request that starts then stores nothing.

**The outbox**, for any alerts, chats, dispatchers and limits; its invariants are in `AlertOutbox` under "Why they hold". A
message is excused or still owed: `Balanced` counts, for each message, what Telegram accepted against the excuses, one more being
free to the process that is between claim and mark. That process may be any of several, so the invariant also says how the
ledger, a DELIVERED row and a process that is past sending bear witness of a message (`Witnessed`), and that a row a late process
still means to write is one it has read (`Undisturbed`). `DeliversAtLeastOnce` is the refinement, for one dispatcher at a
time: every step of the outbox maps to one step of `AlertDelivery` or to none; the second half of `AlertOutboxProofs` has the
strengthening, the initial condition and the step of each action. The composite theorems follow by instance: a behaviour of `MCOperations` about the
outbox is one of the outbox (`OutboxBehaves`).

**The days** (`DailyEnergy`), for any writers, days, amounts and totals. What a writer holds is true of what it found: `Holds`, a
day is locked by one writer at most, and the value it replaces is still the day's; `Closing`, a reading of the night that overlaps
with no other writer has, at each of its steps, the total and the day as they are, so the difference it computes is that of
the two nights when it commits. `JobAgrees` says which days a writer has still to do. The night is read without a lock: when it
overlapped with another writer (`crossed`) nothing is claimed, which is the exemption the properties themselves have. The
invariant is `DailyInv`; `DaysAreClosed` is an invariant and an action property in one.

**The ledger of the analysis** (`PipelineExecution`), for any runs, days and windows. `FirstAttemptExclusive` is not inductive: `RunsAgree` adds
that two open transactions never have the same day (a write waits), that a run which found no row and has its own open still
finds none committed, and that no two inserted the same id. `QuietMeansAlive` compares the ages in a row with those of the last
start and the last success, so `RowsAgree` keeps them in order in every row, committed or drafted: columns of two runs may mix in
one row, but each is as old as something that really happened. Ages saturate, and saturation keeps the order (`AgesInStep`).

**The cycle of jobs** (`DailyCycle`), for any plants, settings and any others at work. `ThroughListed`: a plant there all along is in the
list of every job. `StepsAgree`: it is analysed or still to do, and if it was wrong, not yet looked at, unless something failed. `LedgerAgrees`:
what was wrong at the start still is, since nothing is written in the future and an execution that is newer would end its being
told; it fails only where a run is killed, and then the cycle is red. `SourIsSick` is the lemma that matters: whatever was neither a recent
success nor a run just begun is what the watchdog calls unhealthy.

**The analysis of a day** (`PvAnalysis`), for any days, readings, irradiations and changes. Runs are of different days, and only one
that is about to commit has losses of its own (`RunsApart`). `LossesAgree`: a day without a performance has no losses, and a stored loss
explains the performance and the baseline stored beside it, unless a failed run left the day half calculated (`torn`); a
run at its last step has assessed what it sees. `LevelsAgree`: a baseline not disturbed since (`touched`) has the level of the season of
its day in the reference year *as that is known now*, and so has the one a quiet run is about to commit: other days may be
written meanwhile, but not those the level rests on without marking it.

**The alerts of a plant** (`ProductionAlert`, `AnomalyAlerts`). `Spoken` are the messages that Telegram accepted and those a run still has in
hand. Each is `Grounded`: of its day it says what is stored, as long as the rows read are not corrected. Two that rest on the same rows
`Agree`: about one day in reason and streak, about consecutive days in that the second says two days or more. A run that still counts
knows why it alerts (`Assessed`). `DeliveriesKnown`: whether a message was delivered is in the ledger, or with the run that is about to
mark it, or the message is excused; and two runs with the same message in hand excuse it. The proof needs that a median, a
verdict and a streak depend on rows of earlier days only, and that these stay as they are while `revision` does. Of the anomalies,
`AnomalyInv` says that a queued alert has the severity its fingerprint names, so an alert that is already queued under a fingerprint
is the one the new turn needs (`EveryTurnIsTold`); `JudgedAlike` is about two windows on the same rows and has a lemma of its own.

**The cached dashboard** (`DashboardCache`). A fingerprint has the number of readings, their sum and their newest stamp. As long as no day
of the cycle is `late` (committed after a later stamp), the newest stamp only grows, and each writer's stamp is its own
(`StampsAreOnes`), so a fingerprint that is gone does not come back (`KeyOK`). What was built under a key is of what the key stands for
while the newest stamp is the key's (`BuiltOK`), which holds of an entry (`EntryOK`) and of a request between its reads
(`RequestOK`): rows that change before the build ends change the stamp, and then the entry is one nobody asks for.

**Tariffs, rates and credits.** Three parts that do not meet, put together by `FiguresHold`:

* `Tariffs`: the periods of a file, once coalesced, are disjoint and ordered; a stored row is extended only up to the row that
  follows it, and inserted only where none is. With `OneTariffADay` that is inductive, and a cycle that has a full tariff on every
  day keeps it, since a day with a row never loses it and its price never changes.
* `MarketIndex`: `MarketInv` says that a month of a series belongs to the transaction that inserted it until that one ends
  (`Asking`, and no two requests write the same month), and never changes once stored. What a request shows is what it found or
  what it inserted, so every answer is what the table says, and will say.
* `UtilityCheck`: `UtilityInv` says that the credits of a bill add up (`AddsUp`): what a bill has too little, compared with the
  bill it started from, is what expired unused, was lost, or was given away, less what came back. It holds of a bill issued again
  because the bill carries its loss as a field. `MissingExact` follows: a check that is possible has one record to start from,
  so the gap it computes is that of `AddsUp`. For `AdviceSound` the sums over a window are monotone (`SumMonotone`, by the least
  month that is not), and a window of `Cycles` months whose ends are `Cycles - 1` apart has no gap (`WindowHasNoGap`, by
  cardinality). The proof found that the property was too strong as it stood: a month in which the inverter saw nothing produced
  and the meter counted something is not called impossible (`production_kwh > 0` in `utility_check.py`), so an advice may rest
  on it; the property says so now, and the run has such a month.

`OperationsTyped` puts the types of the eleven parts together; `OperationsProofs` extends `FiguresProofs`, and that
`AnalysisProofs`, for it.

**Who may do what**, in the composition `MCIdentity`, for any instance and bounds. Each component has its invariant, under "Why
they hold" in its module, and TLC checked each before it was proved:

* `LoginRateLimit`: `LocksAreRead`, what an attempt holds of the row is as old as the attempt; `LonersKnow`, an attempt that nobody
  overlapped has the row as it is. Without the first, a lock could be lifted by an attempt that never saw it end.
* `PlantSettings`: `EditsAgree`: a column that was never written over unseen agrees with its mark in the row, in what every open request
  loaded and in what it is to leave, however stale these are; since a commit takes each column either from the request or from
  the row, the row agrees after it (`FieldCommitted`). The same for the parts of a proposal. The action property needs that what a
  request changes is what its kind may change (`Respects`).
* `Tenancy`: `ScopesHold`: a credential's plants are its organization's, a request carries the scope it was issued, and a
  bill's plants are those that could be inferred for the chat. A plant never changes its organization, so the scope checked at
  authentication is still right when the plant is served.
* `ProviderAccounts`: `FirstPlants` (a request about to create has its organization's lock, and an organization has a plant or
  none), `RingsAgree` (while no save met another keyring every fingerprint is of one key, so the unique index is enough),
  `ReadingsKnown` (a request that asked the manufacturer knows the account it asked, or the plant is marked as reconnected
  meanwhile).
* `SolarCollection`: `DaysFollowed` (a plant that was taken is at one place of the run that will end in a day, a task or a
  problem), `RefusalsKnown`, `SwapsKnown`. A session works on one plant at a time, which the proof of the types needs.
* `Access`: what a request *holds* between two of its statements. `SessionsHeld`: a claimed session lives and is claimed by one request,
  and a revocation holds every session that was there when it began and still lives: one that is missing from its list has
  been ended by somebody else, and one begun later is of a new family or is the `late` successor of a rotation.
  `FamiliesNumbered` orders families, so that a family begun after a revocation is told from one before it. `LinksHeld`: a
  link that was opened is not barred, one request at a time resets with it and it is unused until then. `ClientHeld`: one
  request has the organization's row, and has read every reset link that is open.

`IdentityTyped` puts them together: none of the types is inductive alone (a late write goes to a row that must exist).

Only model-checked: liveness (`PendingTasksSettle`, `QueuedAlertsSettle`, `PendingIsTaken`), which is out of the prover's
reach: it needs ENABLED under fairness. `DeliversAtLeastOnce` and `LifecycleImplemented` are the safety part of their refinements.
What a recursive function computes for every input is proved only as far as a least counterexample reaches: `Sum` is monotone,
not "the sum". The findings of section 4 are counterexamples and have no theorem.

## 6. Not modelled

`PROJECT.json` gives the reason for each component. In short: the bill parser, the projection and rendering of reports (PDF,
XLSX, the screens' payloads), the investor panel and the money of an expansion are pure functions of decimals and dates that no
transition depends on; observability, explanations, audit, migrations and the application shell are input, output or wiring;
`JobRun` rows are written by nothing. The front end's single-flight refresh is planned.

Within the modelled components: PostgreSQL errors other than the constraint violations named above appear as the failure of
a whole transaction; several bills of one month, and a PDF whose tariff class is not recognised, are left out of
`BillReports` (`UtilityCheck` has the former); the analysis between acquisition and commit is one value in `PipelineExecution`;
amounts of energy, money and irradiation are small integers, so that rounding is left out; row-level security repeats what the
scopes say; the retention of ended sessions and expired links deletes rows nobody can present any more.
