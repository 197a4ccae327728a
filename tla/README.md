# Verification of the market-environment backend and its dashboard store

TLA+ models, TLC configurations and TLAPS proofs for the parts of this
repository where correctness depends on who does what when: the collection of
market data by request threads, executor threads and processes over one
PostgreSQL database, the operators' commands beside it, and the browser that
reads the result.

## 1. The system

A FastAPI process (`src/market_environment`) collects seven datasets per market
date from providers, stores one snapshot per dataset/date in PostgreSQL, and
serves a dashboard from a materialized aggregate of the snapshots. Collections
are started by hand (`POST /collection-runs`), by a cron caller with an
idempotency key (`POST /collection-runs/full`), by dashboard reads of the legacy
service and by CLI commands; they share the tables, the leases and one bounded
executor, on which the THS sector operations run as well.

### Inventory

| Component | State it keeps | Operations | What makes it hard | Modelled in |
|---|---|---|---|---|
| Refresh lease (`persistence/postgres/lease_repository.py`, `legacy/snapshot_store.py`) | `refresh_leases` row, `refresh_lease_fences` ledger per dataset/date; tokens in memory | acquire, get, renew, release, prune, reads | expiry against clocks read early, deletion of rows, dead owners | `RefreshLease`, abstractly `LeaseOwnership` |
| Fenced writes (`execute_fenced`, `put`, `set_refresh_warning`, committers) | snapshot rows, `lease_fence_events` | check, write, commit, roll back | the check does not lock what it checked | `FencedCommit` |
| Date relabelling (`persistence/sqlite_import/date_relabel.py`) | `date_relabel_audits` with before and after images | plan, apply, reject, roll back | plan and apply are connections of their own, collectors of both dates go on | `DateRelabel`, over `FencedCommit` |
| Collection tables | `collection_runs`, `collection_tasks` | create, compare-and-set transitions, unguarded updates, sweep of inactive tasks | sweeps with a SELECT and a later UPDATE | `CollectionStore` |
| Coordinator and executor (`collection/coordinator.py`, `execution/bounded.py`) | executor queue, per-thread job | `execute_run`, `_execute_task`, `get_run`, `collection_status` | 30 store calls per run, each a transaction of its own; failure of any of them | `CollectionExecution` |
| Manual collection (`interfaces/http/routers/collection.py`, `start_run`) | the request thread | create, reserve, submit, poll | concurrent requests, crash, full executor | `ManualCollection` |
| Full collection (`application/commands/full_collection.py`, `collection.py`, `idempotency_repository.py`) | `idempotency_bindings` row with a submission lease | claim, replay, take-over, reserve, launch, release, mark | lost answers, replays, take-over of what is only slow | `FullCollection` |
| Acquisition plans (`providers/*_acquisition.py`) | a plan's readings so far; per source gates | next source, admission, merge, retention | "latest" sources asked about a given day while that day ends | `Acquisition` |
| THS daily datasets (`collection/ths_datasets.py`) | catalog revisions, rankings, bars, breadth rows: immutable facts | collect and commit industry-ranking, sector-turnover, sector-breadth | read one committed state after the other, derive from each other | `ThsDatasets` |
| Preparers and committers (`collection/collectors.py`, `committers.py`, `core_committer.py`, `limits_commit_requests.py`) | snapshots, limit details, trading sessions, a second lease | commit per dataset, nested previous-day write | overlapping collections of a key over a lapsed lease | `DatasetCollection` |
| Snapshot refresher (`collection/refresh.py`, `legacy/service.py`) | `refresh_runs`, a lock per process | look up, refresh, join a cohort, poll | what a joiner may be given, jobs that nobody waits for | `SnapshotRefresh` |
| Materialized aggregate (`commands/materialized_aggregate.py`, `put_materialized_aggregate`, `_get_local_aggregate`) | aggregate row, component versions kept by triggers | compose, compare, store, serve | inputs change while they are read one by one | `MaterializedAggregate` |
| Limit ecosystem (`application/queries/limit_ecosystem.py`) | bounded cache by payload and revision | compose, build, evict | revision covers less than is read; no lock | `LimitEcosystem` |
| Transport policy gateway (`trading_system/data/provider_transport.py`) | per host: circuit and failure count; flights and cache by request | request, retry, open and probe a circuit | threads that sleep between two locked sections | `TransportGateway` |
| THS sector operations (`commands/ths_sector_operations.py`, `ths_sector_repository.py`) | `ths_operations`, `ths_backfill_checkpoints`, identities, fact tables | catalog sync, turnover backfill, member import, resume | budgets and verdicts over crashes; shared facts | `ThsStore`, `ThsOperations` |
| Dashboard market store (`apps/market-environment-dashboard/src/stores/market.ts`, `market-v2-api.ts`) | what is shown, phases, v2 revision, legacy sequence numbers | open, reload, pages, sections, retry, change of date | answers of two APIs in any order | `MarketStore` |
| Hermes caller (`scripts/hermes_market_collection.py`) | its own deadlines | post, replay once, poll | uncertain outcomes | its effect, replays, is in `FullCollection` |
| Fuyao request gate, sector continuity, breadth maintenance, capability promotion, SQLite import, timezone preferences | rows written by single commands | | sequential | not modelled |
| Provider runtime and parsers, read API and mappers, CLI, schemas | none | | network I/O, formatting | abstracted: a provider answers with data of some day, or fails |
| `trading_system` rules and backtests, `trading_knowledge`, the other dashboard stores and views, deployment | | | floating-point series, text parsing, presentation | not modelled |

What a careful reader wants of each modelled component:

* **Lease**: two owners are never entitled at once; a generation is never
  issued twice, so that an old token is recognised whatever was deleted.
* **Fenced write**: only the newest generation is admitted.
* **Relabel**: what was collected for the source date is there or in an audit
  that can be rolled back; what was moved answers to such an audit; a rollback
  takes nothing away that was collected for the target date since.
* **Tasks and runs**: no provider work twice while leases hold; a status never
  contradicts the stored data; what has ended is not worked on again; a run is
  reported terminal only when its tasks are; nothing stays active for ever.
* **Full collection**: one key, one run, one execution at a time; a replay
  never disturbs an execution that still works; a rejected submission leaves
  nothing behind; a claimed key settles.
* **Acquisition and commit**: a snapshot is of its day, and one that calls
  itself settled is made of final data; nothing is overwritten unseen; derived
  snapshots agree with the facts they name.
* **Refresher**: a cohort is one fetch; what is recorded is what is stored;
  every request returns.
* **Aggregate**: what is stored or served is a state the inputs were in; the
  last rebuild to finish has seen the last commit of a collection.
* **Limit ecosystem**: a cached answer under the current revision is true; the
  cache stays bounded.
* **Gateway**: a failing host is left alone, probed by one caller, and never
  locked out for good; identical requests are one fetch; every call returns.
* **THS operations**: success means stored; the budget is kept; every operation
  gets a verdict, and the verdict is that of its windows.
* **Market store**: one screen is of one date, the reader's; no spinner stays but
  that of a breadth history whose restart was broken off.

The hazards that these properties are for are listed in `PROJECT.json`, at
their lines.

## 2. Modules

An arrow points to what a module extends.

```
LeaseOwnership <..(refinement).. RefreshLease <-- FencedCommit <-- DateRelabel
                                                                              ^
                                                                         LeaseProofs

CollectionStore <-- CollectionExecution <-- ManualCollection <-- ManualCollectionProofs
                                        <-- FullCollection   <-- FullCollectionProofs

Acquisition <-- ThsDatasets <-- DatasetCollection <--+
                                                     +-- DatasetProofs
ThsStore <-- ThsOperations                        <--+

MaterializedAggregate <-- MaterializedAggregateProofs
LimitEcosystem        <-- LimitEcosystemProofs
TransportGateway      <-- TransportGatewayProofs

SnapshotRefresh <--+
                   +-- DashboardProofs
MarketStore     <--+
```

`MC*.tla` give the small instances for TLC.

**RefreshLease** is one dataset/date: the row, the ledger, a token per worker
and the wall clock. `ReadClock` is `now or utc_now()` at the head of a call; the
transaction that follows, `AcquireLease`, `RenewLease`, `Prune`, ..., may come
any time later. `issued` is history: the owner of each generation.

**LeaseOwnership** is what a lease promises, without clock, rows and tokens:
numbered epochs, the next of which starts only when the newest is not in force.
`RefreshLease` implements it with `epochs <- issued` and
`held <- LiveAt(now)`. Two of its steps are there because the code needs them:
an epoch can be *resumed* (a renewal computed before the lapse arrives after
it), and one can be *granted already lapsed* (from an old clock reading).

**FencedCommit** adds write transactions. `BeginFencedWrite` is the fence check,
`CommitWrite` the commit; between them the lease goes its own way. A refusal is
of two kinds, because the code records it in two ways.

**DateRelabel** adds the operator. The workers of `FencedCommit` collect the
source date (`CollectSource` is their step), whose row is `stored`; the target date
has a `collector` of its own. `PlanLeases`, `PlanSource` and `PlanTarget` are the
SELECTs of `_build_plan`, `ApplyRelabel` the transaction under table locks that
compares the source rows with the plan, moves them and takes the after-image,
`RollBack` the one that compares the target with the after-image. One content table
and one run table stand for those of each kind. As in the code, a table is in the
after-image only if it has target rows after the move, and only such a table is
compared and deleted from (`TargetIsAsLeft`); what the others hold is left alone.
Content is "moved" (with the source generation it came from) or "own". `collected`
and `later` are history: the generation last collected for the source date, and the
tables in which something was collected for the target date after the newest relabel.

**CollectionStore** holds the tables of one date as seen by the coordinator:
`run`, `task`, `lease`, `snapshot`. Each operator is the effect of one store
call. The clock is reduced to whether a lease row is live, which may end at any
time (`Lapse`); generations are reduced to being different from those in use,
which `RefreshLease` justifies. `snapshot[d]` is the set of writers of the row,
so that a status can be compared with the data.

**CollectionExecution** is `execute_run` thread by thread. The program counter
of a job names the next store call; what the thread remembers (`todo`, `seen`,
`token`, `expect`, `target`) may be out of date when it is used.

| Steps | Code |
|---|---|
| `SweepSelect`, `SweepExpire` | `expire_inactive_collection_tasks` |
| `BeginRun`, `OpenRun`, `ListTasks`, `FinishRun`, `CloseRun` | `execute_run` |
| `CheckPrerequisites`, `ReadReservation`, `BlockTask` | its branch for blocked tasks |
| `ClaimTask`, `ReadToken`, `RenewToken`, `ReadRetainedOnLoss`, `FailWithoutLease` | head of `_execute_task` |
| `Collect`, `CollectRaises`, `AdmitCommit`, `CommitSnapshot`, `CommitSnapshotAndTask`, `CommitFindsCorruption`, `RereadTask`, `SettleTask` | `_collect_and_commit` and the committers |
| `ReadExisting`, `WarnSnapshot`, `FailTask`, `RebuildAggregate`, `RebuildQuietly` | reported failures and the exception path |
| `ReadFencedTask`, `RefuseTask`, `FailOnCorruption`, `ReadParent`, `SettleParent` | `_fenced_task_result`, `_integrity_task_result`, `_settle_parent_run` |
| `Release` | `finally` |
| `GetRun`, `CollectionStatus`, `ReaderExpire`, `ReaderRead`, `ReaderSettle` | request threads |

**ManualCollection** adds the requests that start runs, one per run, the clients
that poll the runs they were answered with, and crashes of the process.

**FullCollection** adds keys. A key's run and tasks exist from its claim on, so
`Bound = Run`. A request thread is at one `caller` step around its `get_run`
calls; `binding` is the idempotency row with its submission lease.

**Acquisition** is what a plan asks of which source. One session `D` and the one
before it, `P`; the market's clock has four phases (before the open, before the
settlement boundary, after it, next day). A reading is the day the data is of and
whether it was final. A plan reads the clock once, at its start, and decides from
that which sources it may ask.

**ThsDatasets** holds the normalized tables: revisions in the order of their
first observation, rankings and breadth rows as functions of a revision, and
what each of the three collectors reads in which order.

**DatasetCollection** runs both: a worker takes a lease, executes its plan one
source or one read per step, and commits everything in one fenced transaction.
`PrepareLimits`, `TakePrevious` and `EndPrevious` are the nested previous-day
collection of limits. `scope` picks which datasets are collected together.

**SnapshotRefresh** is one dataset/date, several processes. A request takes the
lock of its process (`Enter`), looks the snapshot up, and refreshes on its own
thread or submits a job; `Observe` reads the generation of completed refreshes
before the lease is waited for, `Recheck` compares. `Record` and `Release` are the
`finally`. `fetches` and `lapses` are history, per cohort.

**MaterializedAggregate** models the rebuild by collection threads (under a
lease, stored) and by requests (without, not stored). The revision is read by
two statements, so `ReadRows` and `TakeRevision` are two steps. `CommitInput` is a
collection, which goes on to rebuild; `CommitAside` is whoever changes what the
revision counts and rebuilds nothing, or nothing for this date: `SnapshotRefresher`
(`collection/refresh.py:254-326`), a collection of an earlier date, whose breadth and
limits rows count as history (`snapshot_store.py:904-911`, `:953-985`) while its thread
rebuilds its own date (`coordinator.py:1311-1319`), and prune. `past` is history: every
state the inputs have had; `due` is the version each input had when a collection last
committed it, `aside` the number of commits aside since an aggregate was stored.

**LimitEcosystem** is one composer shared by threads. A call reads its payload,
the revision (two statements), looks the cache up, builds date by date, and puts;
eviction is four steps (`CheckSize`, `Iterate`, `ChooseVictim`, `Pop`), for the
dictionary is used without a lock and each of them can find it changed.

**TransportGateway** is one upstream host. A caller's `pc` is the next section of
`request()` that it enters: under the lock (`Fetch`, `Join`, `RefuseSlot`,
`GrantSlot`, `ChooseProbe`, the three records, `ClearProbe`, `StoreResponse`,
`Finish`) or outside of it (`Wake`, `Send`). `Wake` is a step of its own because
`_wait_for_slot` looks at the circuit once more after its sleep, without the
lock. `chosen` is history: who was let through as the probe.

**ThsStore** has the tables and their calls. A transaction on facts is a step that
SELECTs and one that commits, since two may find the same row absent.
**ThsOperations** has the thread of each operation: gate, item, fetch, select,
commit, count, finish; `Resume` starts a thread again for a run that was left.
`left` says why a thread ended without a verdict.

**MarketStore** is the browser. An action is what JavaScript does between two
awaits: one answer arrives and everything up to the next request follows. An
answer is a state of the server between request and arrival (`Answerable`). `crossed`
is history: a request was under way that a change of date does not make old.
`LoadFails` is the catch of a load: the legacy API is asked, or, of a breadth group
that is no snapshot, its evidence is dropped. `store.lost` is history: a restart of
the breadth group was broken off and its history not asked for since.

### Abstractions

* One dataset/date in `RefreshLease`, `FencedCommit` and `SnapshotRefresh`, one
  market date in the collection modules: keys and dates do not interact, except
  through the previous-day lease, which is in `DatasetCollection`.
* The check, the writes and the commit of a fenced transaction are one step in
  `DatasetCollection`; the gap inside it is the subject of `FencedCommit`. Tasks,
  runs and crashes are `CollectionExecution`'s, data is `DatasetCollection`'s.
* Requests are validated before they reach the store; dates, wording, timings,
  warnings and failure records are left out.
* A preflight rejection, a feature gate read from the database, and whatever a
  normaliser may reject are choices that may always be taken.
* The read of the active task and the insert that follows it are one step in
  `CreateTask`, the run and task reads of `get_run` likewise, and
  `ReadFencedTask` merges two reads: nothing observable lies between.
* The CONFLICT answer for a key reused on another date is left out. In
  `FullCollection`, `wait()` and GET polls do to the tables what a replay begins
  with, and are represented by replays.
* In the collection modules a rebuild of the aggregate succeeds or fails;
  `MaterializedAggregate` has its steps. There, in turn, leases are a fact:
  `RebuildRaises` is what a lost lease does.
* In `TransportGateway` spacing and backoff are sleeps, which any step may last;
  the request budget is a refusal that may come at any time; the callers of one
  request agree on whether it is cached; and the host has one engine.
* `DateRelabel` has one content table and one of run rows; rewriting payloads
  and checksums is leaving the content recognisable as moved.
* `MaterializedAggregate` has no relabel. A relabel deletes and resets version rows
  and moves the aggregate (`date_relabel.py:1025-1045`), and its rollback puts the old
  version numbers back (`:1166-1173`), so a request that spans both may compare equal
  revisions of different rows. Rebuilds that are stored hold a live lease, which
  excludes a relabel.
* `MarketStore` has stamps (date, revision) for payloads, and one resource
  of each way of reading: pinned, in two parts, and page by page.

## 3. What is checked

| Run | Instance | Shows |
|---|---|---|
| `DateRelabel_fences` | 2 workers of 1 task, duration 1, clock to 1, 2 generations, 1 run row, 2 audits, 1 collection of the target date; policies reject ("skip" does the same) and overwrite; after the first audit one worker at a time and overwrite only | what was collected is there or held by an audit and what was moved answers to one, in any order of relabels and rollbacks; a rollback spares what was collected later and returns what had moved; only the newest generation is admitted, `LeaseOwnership` is implemented |
| `ManualCollection_two_runs` | 2 runs of "core", 2 executor threads, 1 pending, 1 reader, 1 crash | statuses tell the truth about data, no duplicate provider work while leases hold, ended tasks stay ended |
| `ManualCollection_settles` | 1 run of turnover with its prerequisite, 1 thread, 1 crash, fairness | prerequisites, honest verdicts, tasks and answered runs settle |
| `FullCollection_takeover` | 1 key, 2 requests, 1 replay, 1 crash, 2 executor threads, rivals for the dataset | one execution per key, take-over only from what has stopped, rejection leaves no reservation |
| `FullCollection_settles` | 1 key, any number of replays, 1 crash, fairness | a claimed key settles |
| `DatasetCollection_sources` | 2 workers; breadth, activeDirection, limits of both days, or core: 2 collections and 1 lapse over the whole day; the three sector datasets: 4 collections and 1 change of what they read, after settlement; fairness | settled is final, snapshots match facts, nothing is overwritten unseen, core keeps its indices, leases come free |
| `SnapshotRefresh_single_flight` | 2 requests of one process, 1 of another, 3 reads, 1 lapse, 1 crash, fairness | one fetch per cohort, true results, requests return |
| `MaterializedAggregate_consistency` | 2 collection threads, 1 request, 2 inputs with 2 contents, 3 commits, 1 of them aside until an aggregate is stored, 2 attempts | stored and served aggregates are of one moment, what collections committed is in the last one stored, conflicts are earned |
| `LimitEcosystem_cache` | 2 threads, 3 dates of which the revision covers 2, 4 reads, cache of 1, 2 commits | entries and quiet answers are recent |
| `TransportGateway_circuit` | 3 callers, 2 requests of which 1 is cached, threshold 2, 1 retry, fairness | a probe ends, flights are shared, an open circuit reopens on one failure, calls return |
| `ThsOperations_verdicts` | 4 backfills, 2 catalogs, 2 imports, in five sets requested together; budget 2, up to 2 requests a fetch, 1 resume, 1 crash, fairness | success means stored, the budget is kept, operations settle |
| `MarketStore_races` | 3 dates of which one is a day off, a page of each kind, 2 loads under way, 3 started, 1 change of date, 1 new revision of each date | one date is shown, it is the reader's, nothing spins once nothing is under way, but a breadth history whose restart was broken off |

**Why the bounds are enough.** A lease story needs two workers (one displaced,
one displacing) and enough clock for a lease to expire; what an old generation
may do is shown by the second, and generations beyond it are covered by the
proofs. A relabel story is one relabel and its rollback with something collected at
each date before, between or after, or two relabels, overlapping, and a source row
collected again. A second worker matters to the leases, which a relabel does not touch:
both collect until the first audit (`Explored` of `MCDateRelabel`), then one at a time,
either of them, over what the other has left. Races of
tasks are between two threads over one dataset; the dependency story needs two
datasets and one thread, since a run's tasks are executed in turn. A key's races
are between two requests, each of which may outlive the other: the claim and its
replay, or the replay and what is left of a claim after a crash. Rivals for the
dataset are in the safety run only, to keep the liveness graph small.
Two collections of a key meet only over a lapsed lease, so one lapse is what
there is to see; the sectors need one collection of each and a second one of any.
A cohort needs two who have seen one generation and one of another process, which
does not share the lock. Two attempts instead of the
code's three, and three commits, let a rebuild conflict, retry and give up; a commit
aside may come before, during or after any of them, and once more after a store.
An entry of the composer goes stale through a covered date and through one beyond
the revision; a date read twice can be read torn; a cache of one makes every
second entry evict. At the gateway three callers are a
probe, a straggler from before the circuit opened, and one more who asks; a
threshold of two tells a count that is kept from one that starts again.
The sets of THS operations are the ways in which two share rows: a bar, a sector
that one lists and another needs, a revision, a day; the remaining one resumes.
In the browser two loads under way are one late and one new; the third started
is the one that finds what they have left.
`SYMMETRY` is used only in runs without liveness, over sets the modules never
order.

**Deadlock** is not checked: bounded histories end, and the system rests when
no request comes.

**Fairness.** Threads make progress (weak fairness of each thread's step; of the
steps of all requests and jobs together in `SnapshotRefresh`, and of all executions
together in `ThsOperations`, whose threads never wait for each other for ever),
leases run out (weak fairness of `Lapse`), and clients come back: strong fairness
of polling (`ManualCollection`), which the dashboard does every few seconds, and of
replays (`FullCollection`), which is the operator's documented way to recover.
`LaunchRun` is strongly fair because the shared executor is not full for ever;
without it a launch could be rejected on every replay. At the gateway and the
refresher a fetch ends because engines have timeouts, and a poll at its deadline.
In `DatasetCollection` only the threads are fair: a nested lease is taken or
skipped, never waited for. Whether a cooldown ends is not assumed. No fairness is
assumed of crashes, rivals, requests, failures or restarts.

**What the liveness results do not say.** A run whose POST never answered has no
client; when the process dies between `create_collection_run` and the first task
(`coordinator.py:438`), its row stays queued for ever, and `AnsweredRunsSettle`
does not speak of it. A claimed run that nobody replays does not settle either: its
queued tasks are exempt from the sweep. `OperationsSettle` lets an operation be
left by its thread for a named cause (a closed gate, a missing identity, a crash,
an overrun of its budget): a backfill can then be resumed under its run id, a
catalog or an import cannot.

**Properties stated as they hold.**
`OneExecutionPerKey` allows a second execution once a submission lease has run
out, because a submitter that was slow does not check its lease again before it
launches; `NoDuplicateProviderWork` allows one once a task's lease has run out;
`DecidedTasksStayDecided` allows a task to get worse. `SettledRunIsHonest`
speaks of runs whose POST has answered: before that, the sweep may settle a run
that is still being filled, which `start_run`'s last update opens again.
`SettledIsFinal` leaves out the limits union and retained core indices,
`BudgetIsKept` allows one fetch beyond the budget and one for each lost execution,
`OneFetchPerCohort` one for each lease that ran out, and `OneDateShown` excepts a date changed under requests
that carry no number. `QuietMeansSettled` excepts the breadth history after a restart of
its group that was broken off. `QuietAggregateIsCurrent` speaks of what collections
committed: an aggregate at rest lacks what was committed aside after it was stored (a
refresh, a collection of an earlier date, a prune). It no longer carries the current
revision then, so a request composes an answer of its own, and the next collection of
the date stores one. `RollbackSparesLaterWork` is about work after the newest relabel.
Each exception is a behaviour of the code that TLC shows when
it is taken away.

### Disagreements between documents and code

Where the repository says one thing and the code does another. The properties
named here are in the modules, stated as the documents have it; no run lists them,
because they do not hold: TLC violates each when it is put into the configuration
named.

*Leases and writes* (the constants of `DateRelabel_fences.cfg`, with `Spec` of
`FencedCommit`; `OnlyNewestGenerationAdmitted` is what does hold).

* `execute_fenced` (`lease_repository.py:270`) checks the lease with a SELECT that
  locks nothing, then writes and commits at READ COMMITTED: a writer that was valid
  at the check commits after its lease has passed on, over a snapshot of a newer
  generation. `openspec/changes/migrate-sqlite-to-postgresql/specs/postgresql-runtime-storage/spec.md:25-27`:
  "WHEN an expired or superseded lease owner attempts a fenced write THEN the write
  is rejected". `StoredGenerationNeverRegresses` of `FencedCommit`.
* A refusal inside a unit of work inserts its `lease_fence_events` row on the
  connection that `__exit__` rolls back (`lease_repository.py:288`), so the event is
  lost; line 27 of the same document: "the persisted lease-fence audit records the
  rejection". The store's own methods use another connection and keep it.
  `RefusalsAreAudited` of `FencedCommit`.

*Collections* (`ManualCollection_two_runs.cfg` and `ManualCollection_settles.cfg`).

* The sweep selects active tasks without a live lease and updates them by id alone
  (`snapshot_store.py:2697`): a task settled in between, with data stored, becomes
  failed-retained. `openspec/changes/migrate-sqlite-to-postgresql/design.md:33` has
  conflicts rejected by generation and compare-and-set. `SuccessIsNotOverwritten`.
* A task that was expired between the listing and its claim makes
  `transition_collection_task` raise out of `execute_run` (`coordinator.py:954`), and
  the rest of the run stays queued.
  `openspec/specs/market-data-collection-management/spec.md:31`: "a task failure MUST
  NOT stop, roll back, or invalidate successful sibling tasks"; `:54`: "continues
  processing after any individual task failure". `FailuresDoNotStopSiblings`.
* The limits union takes the clock after its two sources (`limits_acquisition.py:967`),
  so two readings from before the boundary merge into a settled snapshot; the same
  document has what is collected before the boundary be provisional (`:174-176`).
* A settled core snapshot may retain the intraday payload of an index whose source
  failed later (`core_acquisition.py:1250-1285`, settled at `:1440`), and
  `cache_state` (`snapshot_store.py:3081-3093`) then treats it as fresh.

*Gateway* (`TransportGateway_circuit.cfg`). `_wait_for_slot` returns `bool(state.open_until)` after its sleep, outside
the lock (`provider_transport.py:1259`), so a caller admitted before the circuit
opened takes itself for the probe; when it ends, the flag of the real probe is
cleared (`_clear_probe`, or `:1361` for any caller) and another is let through.
`openspec/specs/provider-http-transport/spec.md:54`: "allow one controlled half-open
probe after the cooldown". `OneProbe` of `TransportGateway`.

*THS operations* (`ThsOperations_verdicts.cfg`). A fetch that the Fuyao client repeats (`market.py:187-249`) can take
`requests_used` past `request_budget`. `ThsBackfillRun` refuses to be built so
(`ths_sector.py:262-263`); the `ValueError` leaves `run()` after the window was
committed (`ths_sector_operations.py:738`), and the row stays active for ever; the
catalog likewise (`:456-469`).
`openspec/changes/add-fuyao-ths-sector-datasets/specs/fuyao-ths-sector-datasets/spec.md:53`:
"enforce the declared request budget, and resume only unresolved chunks"; `:61`: "the
parent run is `partial`". `EndedRunsAreDecided` of `ThsOperations`.

*Dashboard* (`MarketStore_races.cfg`). `docs/architecture.md:17` has an old summary never merged with a new
history, and a failing history never close the global V2;
`openspec/changes/fix-breadth-page-data-availability/design.md:94` likewise. In
`market.ts` a 409 of a pinned read wipes the data but leaves `loadedV2Resources` as it
is, as do a reload whose integrity check fails and a refresh from the top bar in v2;
`retryBreadthHistory` whose group restart fails leaves `breadthHistoryState`
"loading", and so does an ordinary load of the breadth page that meets a 409 in its
history, announces it anew (`market.ts:341`) and then fails, or finds V2 closed, before it
asks for it (`:332-348`, `:361-363`): the store falls back to the legacy API (`:525-541`)
or drops the group, and `Document02BreadthPage.vue:216` goes on showing a history that
loads; an overview that fails inside a history's 409 closes the global V2; v2 answers carry no sequence number, and `setDate` in v2 mode does not make a legacy load
old. `BreadthIsOneRevision` of `MarketStore`.

*Date relabelling.* `docs/architecture.md:266` and `date_relabel.py:8-10` promise images
from which a move can be taken back. As `DateRelabel` shows, a rollback

* deletes the target date's own runs, tasks and refresh runs that were there before the
  relabel (`:1150-1160`), and its own content in a table from which nothing had moved;
* deletes, with the target rows, run rows that an earlier relabel had moved there: they
  are "gone" until that one is rolled back too;
* overwrites what was collected for the source date since, without a comparison (so
  `CollectedIsThereOrHeld` takes what it puts back for what was collected last);
* leaves alone, and does not look at, tables that had no target rows after the relabel
  (`:1057`): what was collected there later survives, as `RollbackSparesLaterWork` says,
  but stands beside the returned source rows, where a refusal could be expected.

The comment at `:413-414`, "so a worker cannot write the old key", does not hold for a
writer past its fence check. Under "overwrite" a target row that was written between plan
and apply is replaced without being in `targetBefore`: an audit holds what the plan saw
of the target date, which is not all that goes. Nothing is claimed of such rows.

*Smaller ones, met while reading.*

* The docstring of `get_materialized_aggregate_state` promises one consistent view, and
  the function reads by statements of their own; `ServedIsOneMoment` holds all the same.
  The one at `snapshot_store.py:1003` speaks of "every persisted aggregate input", and
  limits history beyond the previous session is not among them.
* A provider that shows catalog A, B and A again on one day leaves
  `put_catalog_revision` with A's first timestamp, so `list_rankings` selects B, and
  turnover and breadth are refused. Sector-breadth facts carry the limits revision and
  are immutable, so a collection repeated after limits arrive fails.
* `detail_available` is read before the previous day's lease is taken, so the nested
  write may replace a complete detail; that lease lasts 600 seconds, is never renewed,
  and fails the whole commit when it has run out.
* `SectorsAcquisitionPlan` is imported (`bootstrap/registries.py:95`) and wired nowhere.
* Two threads that evict at once make one of them raise after its response was built,
  and leave the cache an entry over its size (`limit_ecosystem.py:64`), which
  `CacheIsBounded` allows.

## 4. What is proved

Eight modules hold theorems, each for every value of the constants that its
assumption admits: any number of workers, callers, requests, inputs or dates, any
durations, thresholds and bounds.

| Assumption | Says |
|---|---|
| `LeaseAssumption` | durations are positive naturals, bounds are naturals, `NoToken` is not a token |
| `RelabelAssumption` | policies are those of the command; `Nothing` is no content; bounds are naturals |
| `GatewayAssumption` | the threshold is a positive natural, `Nobody` is no caller |
| `RefreshAssumption` | there are finitely many requests, `Nobody` is none; bounds are naturals |
| `AggregateAssumption` | core is read first, `Missing` is no content, there is at least one attempt |
| `EcosystemAssumption` | the revision covers the date, what is read are dates, threads are finite, the cache holds at least one entry |
| `StoreAssumption`, `OperationsAssumption` of THS | every operation has items, budgets and requests per fetch are positive |
| `StoreAssumption` of collections | the dependencies of datasets can be ranked, so they have no cycles; `NoRun` is no run |
| `ExecutionAssumption` | there are finitely many executor threads; what is atomic are datasets; the queue's bound is a natural |
| `ManualAssumption` | a request is for some datasets, at least one |
| `MarketAssumption` | every date has a trading date, which is its own trading date; every page has parts, and the breadth page has parts of both kinds; `Nothing` is none of the things it stands for the absence of; bounds are naturals |
| `DatasetAssumption` | scopes are sets of datasets and days, and all three THS datasets may be collected if one is; "retained" is no index; there are catalogs and values; `None` and `NoOne` are none of the things they stand for the absence of; bounds are naturals |
| `FullAssumption` | every run of a full collection has a key; there is at least one dataset; request threads are finitely many |

**The lease** (`LeaseProofs`, first and second part). That a generation names
one owner is not inductive: nothing in it says what the ledger remembers.
`LeaseInv` adds the history: the ledger equals the number of generations issued, the
row and every token carry a generation that was issued to their owner, and no clock
reading is ahead of the clock. An acquisition then takes a number beyond all of
them, which gives `GenerationsAreFencingTokens`; `LiveLeaseIsSafe` follows from the
readings being past, since what has expired at an old reading has expired now. The
refinement proof maps each step to `Grant`, `Lapse`, `Resume` or a stutter.
`FencedInv` adds that open transactions and what is stored belong to issued
generations; `FencedCommitExtendsLease` carries the lease theorems over.

**The relabel** (`LeaseProofs`, third part). A relabel touches neither leases nor open
transactions, so `FencedInv` and the refinement survive it, with one addition: what a
rollback puts back was issued once (`ImagesWereIssued`). That a rollback spares later
work needs `LaterWorkShows`, table by table: something collected for the target date since
the last relabel is in no after-image of its table, for a collection has a number that no
image could know (`Known`) and a run that was started later was in none of the sets of
started runs (`Started`). Either the table is in the after-image, and the comparison
fails, or it is not, and the rollback leaves it. `NothingIsLost` follows from what an
apply compares: the source rows that go are those the audit holds.

`MovesAnswerToAudits` is not inductive, since content that was moved may be at the target
date or, replaced there by a later relabel, in an image from which it returns. Each of
these slots with moved content in it has an applied audit of its own that moved it there
(`Keepers`, an injection from slots to audits). A relabel that fills the target date's
slot has a new audit for it. A rollback empties a slot and settles an audit; if that one
was the keeper of another slot, the keeper of the target date takes its place, for both
kept the same generation.

**The refresher** (`DashboardProofs`, first part). The bound on the fetches of a cohort is
not inductive: a lease that has run out before its holder fetched leaves that holder
a fetch to make. So `RefreshInv` counts the fetches made together with those still to
come (`Late`) against the leases run out and the one in force (`Spent`). `ResultsAreTrue`
needs that, as long as no lease has run out, whoever is past the acquisition is
alone (`Alone`).

**The aggregate** (`MaterializedAggregateProofs`). A revision proves nothing about its
rows, which may be older than its versions. It does about what was read after the
versions (`Faithful`): they count up with each commit, so if they are still what they
were, everything read since is there. That gives the one moment of what is stored and
served. `QuietIsCurrent` needs nothing beside it: a writer that ends has broken its rebuild,
or found no core, or stored under a comparison with the versions as they are, whoever
counted them up. `ConflictsAreEarned` counts: each attempt of a thread but its last saw a commit or
a store (`AttemptsOK`). That there is a next input to read while one is missing is
well-founded induction on their ranks (`LeastOfRanks`).

**The limit ecosystem** (`LimitEcosystemProofs`). The same argument on the versions of
the covered dates, for calls and for entries of the cache: what they have counted is at
most what is, and as long as it agrees no covered date has changed. The bound on the
cache is inductive once an insertion under way is charged to its thread.

**The gateway** (`TransportGatewayProofs`). `OneFetchPerRequest` does not know the table
of flights, and `OpenCircuitIsStrict` does not know the count of failures.
`GatewayInv` adds `OwnFlight`, whoever fetches is the one in the table and stores
only what may be cached, and `OpenIsCounted`, the count that opened a circuit is
kept while it is open. `ProbeWillEnd` needs only the types: it names its own
witness, who may change from step to step but is lost only when the flag is.

**The THS operations** (`DatasetProofs`, first part). One thread works on an operation at a time
and the others only add facts, so each operation has an invariant of its own: its
thread's memory agrees with its checkpoints but for the window in hand, what it takes
for done is stored or about to be, and what the provider has received is what the row
says, the fetch in hand, and at most one fetch for each lost execution.

**The collections of the datasets** (`DatasetProofs`, second part). What is stored depends on
what a plan read long before, so `DatasetInv` says of every plan under way what its readings
are still worth. The clock only goes on and facts are only added (`Grows`): a plan that took
its day for settled goes on being right, and evidence that was read is still in the tables
(`EvidenceOK`), which is all that `SettledIsFinal` and `SnapshotsMatchFacts` need of what is
written. The revision that a THS plan selects has its rankings because every revision has
them, as both are written in one commit. Whoever holds a lease has seen what is stored under
it (`HasSeen`), since a commit writes only under leases its thread holds, that of the previous
day included; this gives `NothingIsOverwrittenUnseen`. For `CoreKeepsItsIndices` the draft
remembers what it was begun with: every index asked so far that was stored is in the draft
(`CoreDraftOK`), and if one that was stored is final the day is over, so what is read afresh
is final as well; a retained index is compared with the store once more at the commit. A core plan
never stops half-way, so it ends with all its indices asked. The reads of the plans, the
beginning of a collection and the commit are proved through one frame lemma each
(`PlanKeeps`, `TakesLease`, `EndKeeps`).

**Manual runs** (`ManualCollectionProofs`). A thread, a poll and a request each act on
what they have read earlier, with steps of others in between. `CollectionInv` says for
each of them which part of what it read is still so: a task that somebody saw decided is
still decided that way, what was seen stored is stored, and a run seen settled has no task
left to run. It is preserved because every step keeps certain things (`Kept`: what is
decided or stored stays, a lease passes only when free or run out), so that a step of one
thread is proved once against the readings of all the others. That provider work is not
doubled rests on a run being handed to one thread (`ScheduledOnce`) and, between threads
with different runs, on whoever collects owning the live lease unless it has run out
(`GroundsOK`). A run that settles is honest as its reading of the tasks, one by one, was
of decided ones.

**Full collections** (`FullCollectionProofs`). One key has one execution at a time
although three different leases guard it, one after the other. While a request attends to
a submission, the submission lease keeps the others away (`Attended`). The mark it leaves
keeps later requests from submitting the run again, as long as no submission lease has run
out (`PlacedByOne`). After one has run out, whoever takes over finds the tasks still under
their leases, or all of them ended (`CalmOK`), so a slow execution is not doubled; that is
`TakeoverWaitsForTheTasks`. A step concerns one run, so each action is proved for the run
it is about, and a frame lemma (`Frame`, `Quiet`) disposes of all other runs. A run that a
request finds ended is marked as not launched only if it has tasks, which is where
`Dataset # {}` is needed. A refused hand-over gives back what it reserved, in the same
step.

**The market store** (`DashboardProofs`, second part). None of the three properties says
what is still under way, and all three depend on it. `MarketInv` says it of every load
and every read. For `QuietMeansSettled`, whatever spins has somebody who will stop it: the
page's own load, which is not a mere re-reading of a history (`Loads`), a shell or the
newest core request (`CoreOK`), and, in legacy mode, the newest request of the section
(`SectionOK`). The last holds because a section is then always asked for the date that is
selected, so a core answer that comes after all does not make the section's answer an old
one; and a new core request, which does make section requests old, resets their phases in
the same step. The breadth history spins with no request of its own while its group is
read again, so `HistoryInv`, proved beside `MarketInv`, names the loads that will come to
its request or break off (`Restores`). For the two dates, while no date has been changed under a request
(`crossed`), all that can still be answered, and all that a core request may keep, is of
the reader's date or its trading date (`DatesOK`). That a trading date is its own trading
date is used there: a core answer replaces the selected date by its trading date, for which
others may have been asked already. Each action changes one load and, with it, some of what is shown;
`LoadsKeepOthers` states once what such a step has to leave to the others
(`CallMoves`, `DatesMove`, `CoreMoves`, `PhasesMove`, `SectionsMove`), and the lemmas on
each continuation (`CoreGoesOn`, `SectionGoesOn`, `HistoryGoesOn`, ...) establish it.

| Module | Theorems |
|---|---|
| `LeaseProofs` | `LeaseInvariant`, `LeaseTypeCorrect`, `GenerationsAreFencingTokens`, `LiveLeaseIsSafe`, `LeaseImplementsOwnership`, `FencedInvariant`, `CommitTypeCorrect`, `FencedCommitExtendsLease`, `WritersHeldTheLease`, `AdmissionGoesToNewest`, `LeaseTheoremsCarryOver`, `RelabelInvariant`, `RelabelTypeCorrect`, `RelabelLeavesLeases`, `RelabelLeavesFences`, `RollbackIsFenced`, `NothingIsLost`, `MovesAnswerToAudits` |
| `ManualCollectionProofs` | `TypeIsCorrect`, `ReadingsStayTrue`, `StatusIsTrue`, `ProviderWorkIsNotDuplicated`, `PrerequisitesAreStored`, `SettledRunsAreHonest`, `DecidedTasksStay` |
| `FullCollectionProofs` | `TypeIsCorrect`, `SubmissionsAreKeptApart`, `RunsAreExecutedOnce`, `SlowCollectionsAreNotDoubled`, `RejectionGivesBack` |
| `DashboardProofs` | `RefreshIsTyped`, `CohortsFetchOnce`, `ReportsAreTrue`, `MarketInvariant`, `ScreenIsOfOneDate`, `PickerIsTheReaders`, `NoSpinnerIsLeft` |
| `MaterializedAggregateProofs` | `AggregateInvariant`, `AggregateTypeCorrect`, `StoredIsOneMoment`, `QuietIsCurrent`, `ServedWasThere`, `GivingUpIsEarned`, `NeverGoesBack` |
| `LimitEcosystemProofs` | `EcosystemIsTyped`, `CacheIsTrue`, `QuietAnswersAreTrue`, `CacheStaysBounded` |
| `TransportGatewayProofs` | `GatewayInvariant`, `GatewayTypeCorrect`, `NoHostIsLockedOut`, `FlightsAreShared`, `OpenCircuitReopens` |
| `DatasetProofs` | `Operations`, `SuccessIsStored`, `BudgetHolds`, `FailuresStoreNothing`, `VerdictsMatchWindows`, `ReportsMatchRequests`, `WhatIsDoneStays`, `DatasetInvariant`, `SettledSnapshotsAreFinal`, `ThsSnapshotsMatchTheirFacts`, `WritesAreSeen`, `CoreKeepsWhatIsFinal` |

What each establishes is at its statement and in `PROJECT.json`. Of these,
`GenerationsAreFencingTokens`, `LiveLeaseIsSafe`, `WritersHeldTheLease`,
`FailuresStoreNothing`, `VerdictsMatchWindows`, `ReportsMatchRequests`, `WhatIsDoneStays`,
`CacheStaysBounded` and `NeverGoesBack` are about properties no run lists, as the proof covers every
instance.

*Only model-checked*: the liveness properties, which are out of the prover's reach
(`TasksSettle`, `AnsweredRunsSettle`, `LeasesComeFree` and the others of section 3). Every
other property of the runs is a theorem. `OneProbe`,
`EndedRunsAreDecided` and `BreadthIsOneRevision` do not hold (Disagreements).

## 5. Not modelled, and why

* **Provider runtime, HTTP clients and parsers**: network I/O and the reading of
  foreign formats. What a source may say is the free choice in `Acquisition`; the
  quotes it combines, the legacy limits path, shadow attempts and feature gates are in
  that choice.
* **Read API, mappers, schemas, v2 consistency queries**: reads and formatting over the
  aggregate, which is modelled; what a v2 answer is pinned to is in `MarketStore`.
* **Fuyao request gate**: a lock held over a sleep. **Timezone preferences**,
  **capability promotion**: single rows, last write wins or is refused.
  **Breadth-history maintenance**: sequential; its rebuild under a lease is that of
  `MaterializedAggregate`.
* **Sector continuity, trading rules, evaluation, backtests**: floating-point
  calculations over price series. **Trading knowledge**: a text index rebuilt as a whole.
* **SQLite import**: a migration run once on a stopped system; of its module only the
  relabelling runs beside collectors.
* **Other dashboard stores and views, deployment, scripts**: presentation, charts, DDL
  and shell.

Within modelled components: the repository methods `save_run`, `transition_run` and
`save_task` that only the claim uses; the non-trading-day answer and `wait()` of the full
collection; a release of reserved leases that itself raises (`commands/collection.py:162-169`: the
leases then run out); the replacement intent for a corrupt core snapshot, and retained
payloads that carry another date; orderly shutdown of the executor; next-session comparison, limit pool pages,
index histories and reset of the market store; the listing queries of the THS operations.

What could follow: an abstract collection job (claimed, executed by one at a time, settled
once) that `FullCollection` implements, with the Hermes caller over it; the remaining
operations of the market store.

## 6. Running

In this directory:

```
tlc -config DateRelabel_fences.cfg MCDateRelabel
tlapm LeaseProofs.tla
```

and likewise for the other configurations, each named after its run (module and run in
`PROJECT.json`), and the other `*Proofs.tla`. The longest runs are
`MaterializedAggregate_consistency`, four million states, and `DateRelabel_fences`, a
million and a third, both under two minutes; of the proofs, `FullCollectionProofs` takes
about six.
