# LighthousePM: a verification project

LighthousePM is a release-management workspace for Jira projects: an Electron
application (`src/desktop/src`) that runs a FastAPI backend over one SQLite file
(`src/backend/app`) and shows it with a React renderer (`src/frontend/src`).
These modules model the parts of it whose correctness depends on an order of
steps (crashes between two writes to the disk, a backend that writes while
Electron restores, Jira's users changing issues between two requests) or whose
results must agree with each other although they are decided in different places
(metrics, availability, signals, explanations, responses).

Contents: [inventory](#inventory) · [modules](#modules-and-code) ·
[runs](#runs) · [claims that do not hold](#claims-of-the-repository-that-do-not-hold) ·
[other divergences](#other-divergences) ·
[proofs](#proofs) · [abstractions](#abstractions-and-what-is-left-out) ·
[plan](#plan) · [how to run](#how-to-run).

All paths below are relative to `src/`.

## Inventory

How the parts meet: Electron starts the backend as a child process and hands it
the configuration; the renderer reaches the backend through a local proxy that
Electron opens, and Electron itself through IPC. The backend's scheduler and the
renderer both start synchronizations; a synchronization calls Jira, writes
issues, and recomputes metrics in the same transaction. The storage operations
(Restore, Clear Data, Factory Reset) stop the backend, replace its files and
start it again.

| Component | State it keeps | Operations | What is hard |
| --- | --- | --- | --- |
| Desktop storage transaction (`desktop/src/storage-transaction.cjs`, `storage-recovery.cjs`) | recovery root with `journal.json` and payloads; active files | create journal, transition, apply plan, restore, commit, remove; startup recovery | crash between any two writes, each step of a rollback failing, repeated recovery |
| Desktop storage operations and backend process (`main.cjs`, `operation-control.cjs`) | child process, token file, configuration, operation lock | restore, clear data, factory reset; start, stop, verify | a backend that still writes; a plaintext token moved while a restore runs |
| Desktop lifecycle (`desktop-lifecycle.cjs`, `main.cjs`) | window, servers, shutdown promise | launch, quit, exit observer | quitting in the middle of an operation; two waits for one process; a stop that fails |
| Settings backup (`backup.cjs`) | backup directories with a manifest | create, validate, list | partial publication, files that change while copied |
| Jira synchronization (`services/sync_service.py`, `repositories/sync_repository.py`, `jobs/scheduler.py`) | issues, history, cursor, status row; lock | full and incremental sync, status | changes between listing, details and changelog; failures of single issues; cancellation |
| Jira client (`services/jira_service.py`, `jira_field_mapper.py`) | HTTP client, field ids | paged search, details, changelog, retry | retries, rate limits, timeouts |
| Metric recomputation (`services/metric_recompute_service.py`, `repositories/*`) | release metrics, snapshots and signals | recalculate all or one, on request or in a sync | reads of several moments in one request; the write lock |
| Analytics and availability (`services/analytics_service.py`, `metric_availability_service.py`, `snapshot_comparison_service.py`) | none; sprint snapshots | release and sprint metrics from rows and changelogs | missing fields, edits at the boundary of a window, histories that go back and forth |
| Signals, confidence, recommendations (`services/signal_service.py`, `confidence_breakdown_service.py`, `driver_analysis_service.py`, `recommendation_engine.py`) | none | score, signal, gates, risks, explanations | incomplete evidence; an explanation must add up to what it explains |
| Response assembly (`services/release_*_response_service.py`, `sprint_response_service.py`) | none | metrics, signal, charts, comparisons, history | stored results of two classifications |
| Metric catalog (`metric_catalog.py`) | none | thresholds, dependencies, policies | every service refers to it |
| Database migration and validation (`db/migrations.py`, `schema_revision.py`, `backup_validation.py`) | schema, version table, automatic backup | identify, back up, stamp, upgrade | failure after any statement; two processes |
| Configuration (`services/configuration_service.py`, `app/config.py`) | `backend.env`, environment, cached settings | read, validate, merge, replace | two writers without a lock; precedence of sources |
| Release workspace (`frontend/src/hooks/useReleaseWorkspace.ts`) | selection, loaded data, loading flags | select, load, refresh, recalculate | answers that arrive after the user has moved on |
| Not modelled: rendering, reports, API schemas, local API access, scripts | none worth a model | | formatting, declarations, stateless checks, tooling |

What makes each of them correct:

* **Storage**: the workspace is replaced whole or not at all; a rollback puts
  back exactly what was there; nothing is served from a half-replaced set of
  files; a message to the user is true; an interrupted operation is finished or
  undone by a later start.
* **Lifecycle**: an open window has a backend; no second shutdown; a failed
  stop does not leave a window without one unnoticed.
* **Settings backup**: a listed backup is complete; a validated one is what was
  copied.
* **Synchronization**: the cursor never covers a change that is not stored;
  history and row go together; a sync commits whole or not at all; its status is
  honest; the workspace catches up with Jira by scheduled syncs alone.
* **Jira client**: bounded attempts; a retry never repeats a page into the result.
* **Recomputation**: results belong to tickets that were stored together, are
  never rewritten, and the latest signal belongs to the latest snapshot; a request
  ends.
* **Analytics**: additions and removals account for every change of a scope;
  events are counted once; a measured time does not change; finishing work never
  costs confidence; what is said to be available is stored and shown.
* **Signals and explanations**: a critical value is never hidden; what is said of
  incomplete tickets stays true when they are completed; components, drivers and
  contributions add up.
* **Responses**: no response mixes results of two classifications or contradicts
  another one.
* **Migration**: no change without a usable backup; only a complete schema is
  served.
* **Configuration**: what was accepted is used, now and after a restart.
* **Release workspace**: what is shown belongs to the selection; a selection is
  not forgotten.

The hazards behind these, each with its line and the properties that cover it,
are in `PROJECT.json` under `hazards`.

## Modules and code

| Module | Models |
| --- | --- |
| `StoragePlans` | the files an operation may touch, the file plan of each operation (`main.cjs`), its verification |
| `AtomicStorage` | the abstract promise: a request, then the outcome in one step or nothing |
| `StorageTransaction` | journal, snapshot, commit, rollback, startup recovery, backend process, crashes |
| `MCStorageTransaction` | instances for TLC |
| `StorageTransactionProofs` | theorems |
| `JiraSync` | a synchronization against a changing Jira, scheduler, status |
| `MCJiraSync` | an instance for TLC |
| `JiraSyncProofs` | theorems |
| `MetricCatalog` | `metric_catalog.py`: thresholds, dependencies, policies |
| `TicketClassification` | blockers, bugs, severities and work states of tickets with missing fields; release metrics over them |
| `ReleaseHealth` | availability, confidence score, hard rules, gates, drivers, breakdown, recommendations of a release (pure operators) |
| `MetricRecompute` | requests to recalculate a release beside a synchronization, the write lock, stored snapshots and signals |
| `MetricRecomputeProofs` | theorems |
| `ReleaseResponses` | what the API says of stored results: metrics, signal, charts, comparisons, changes |
| `ReleaseResponsesProofs` | theorems about stored results and responses |
| `MCMetrics` | an instance of the metric modules above for TLC |
| `IssueHistory` | cycle time, reopenings, scope churn, scope creep, start of a risk, from changelogs read row first and history later; the properties replay Jira's changelog forwards |
| `SprintDelivery` | workload, delivery confidence, availability, recommendations and comparisons of a sprint |
| `AnalyticsProofs` | theorems about `IssueHistory` and `SprintDelivery` |
| `DatabaseMigration` | start of the backend over an existing database |
| `Configuration` | saving, loading and restarting with the Jira configuration |
| `BackendStartProofs` | theorems about `DatabaseMigration` and `Configuration` |
| `ReleaseWorkspace` | the hook of the release page, its effects and abandoned loads |
| `ReleaseWorkspaceProofs` | theorems |
| `DesktopLifecycle` | startup, holder of the operation lock and shutdown, competing for the backend process |
| `DesktopLifecycleProofs` | theorems |
| `MCApplication` | an instance of the last six models for TLC |

How they compose: `MetricRecompute` takes the evidence of a calculation from
`TicketClassification` and decides with `ReleaseHealth`; `ReleaseResponses`
reads what it stored. The events in its databases, and those of `SprintDelivery`, stand
for what `IssueHistory` evaluates. `DesktopLifecycle` and
`StorageTransaction` describe the same tasks from two sides: the former has two
callers that stop one process, the latter the files that decide how a task
continues. `MCApplication` puts parts that share no state into one instance:
`focus` says which one takes steps, so that their state spaces add up instead of
multiplying. It takes the modules as they are (`EXTENDS`): the properties the run
checks are the definitions the theorems are about.

### StorageTransaction

`active`, `journal` and `snapshot` are the disk and survive a crash. `pc` is the
await (or the write) at which Electron's single flow of storage code stands,
`caller` tells whether startup or an operation runs the shared rollback code,
`child` is the backend process, `screen` the window. `todo` holds the files a
plan has still to handle. `op`, `before` and `report` are history: the last
operation, the files it found after the backend had stopped, the rule of the last
error (or of a success) Electron reported.

| Code | Locations and actions |
| --- | --- |
| `recoverInterruptedStorageOperation` | `inspect`: `InspectRecoveryRoot`, `StartRecovery`, `InspectionFails`; then the rollback below |
| `startBackend`, `waitForBackend`, token move | `boot`, `start_new`, `start_old`, `start_same`: `StoreToken`, `StripToken`, `SpawnBackend`, `BackendReady`, `StartFails` |
| the rest of `runApplicationStartup` (the renderer's origin and page) | `open`: `OpenWorkspace`, `OpenFails`; a backend may end there (`BackendDies`) |
| `runStorageTransaction` up to its commit | `BeginOperation`, `stop`, `capture` (`MakeRecoveryDirectory`, `PublishJournal`, `SnapshotFails`, `BeginMutation`), `apply` (`RemoveFile`, `PublishFile`, `ChangesApplied`), `started_new`, `verify_new` (`BeginVerification`, `Commit`, `NewStateRejected`), `TransactionFails` |
| `failWithRollback` and the recovery that repeats it | `undo`, `restore`, `start_old`, `verify_old`, `diagnose`, `settle` with one failing action each |
| `removeCompletedRecoveryJournal` | `clean_*`: `BeginRemoval`, `FinishRemoval`, `RemovalFails` |
| exit observer, quit, crash | `BackendDies`, `Quit`, `Crash` |
| backend and user | `BackendWrites` (only the files a backend writes, only while it lives), `UserEdits` |

A write of the journal is atomic (`renameSync`), but a call that throws may have
written it: `FailJournal`. A transition the code's table does not list is
rejected; `AllowedTransitions` is that table. Replacing a file is a removal and
a rename, two steps with a possible crash in between; deletions of a plan come
before its first rename. The removal of a finished journal first makes it
unreadable (`torn`).

`Recoverable` is the refinement mapping: the content the next start would come
back to, the snapshot over the active files while a journal is unfinished.
`ImplementsAtomicStorage` says that it only ever changes as `AtomicStorage`
allows.

### JiraSync

`jira`, `clock` and `removed` are the project in Jira; an issue is its `updated`
timestamp. `stored` is the committed database, `session` what the running
transaction sees. `ListIssue`, `FetchDetails` and `FetchChangelog` are one
request each, and Jira changes between any two of them. `SkipIssue` is
`_can_skip_unchanged_issue`, `SkipFailedIssue` the `JiraServiceError` branch that
holds the cursor back, `Fail` the rollback with a failure status that may itself
be lost, `Cancel` a cancelled request or dead process, for which no handler runs.
`late` and `missed` are history: issues that changed after the running sync had
read them, and those among them a committed cursor passed over.

### Metrics: MetricRecompute and the operators it uses

A stored ticket is a record of issue type, severity, status, blocker flag and so
on, any of which may be `Missing`; a calculation's evidence is what the evaluators
make of the tickets and of their events. Every status (`COMPUTED`, `PARTIAL`,
`NOT_COMPUTED`), threshold, hard rule, gate, driver and contribution of the
release services is an operator of `ReleaseHealth`, in hundredths where the code
has decimals.

| Code | Actions of `MetricRecompute` |
| --- | --- |
| `recompute_release_metrics`, one query after the other | `Start`, `ReadTickets`, `ReadHistory`, `ReadAvailability` |
| flush of the snapshot: SQLite's write lock, its busy timeout | `Flush`, `LockTimeout` |
| the signal for the latest snapshot, then the commit; an exception | `Commit`, `RequestFails` |
| the synchronization's transaction | `SyncWrites`, `SyncRecomputes`, `SyncCommits`, `SyncFails` |
| a saved classification | `ChangeConfiguration` |

A request that a synchronization committed into between its reads is marked
`disturbed`: history, by which properties say what the code cannot promise.

### IssueHistory and SprintDelivery

`IssueHistory` has tickets in Jira that are created and edited (`Create`, `Edit`,
several fields at once too) while time advances (`Advance`) and a synchronization
reads the row (`SyncRow`) and later the changelog (`SyncChangelog`). A ticket may have
several fix versions: a synchronization links its row to the first one it knows
(`LinkRelease`), while the changelog has an entry for each. A ticket's `earlier` says
that another known version stands before the release's; it is edited together with
the release or alone. The evaluators
are operators over what is stored; the properties compare them with the history
in Jira. `SprintDelivery` has the tickets of one sprint that are finished and
estimated (`Finish`, `Estimate`), passing time, the end of the sprint (`Close`) and
the recalculation (`Recompute`), whose result is stored.

### DatabaseMigration

A database is the number of applied revisions, the statements applied of the next,
and the recorded revision. `disk` is final, `view` what the open transaction sees:
SQLite's driver opens it at the first statement that changes rows, so schema
statements before it are final at once. `Start` identifies, `Reuse`, `Copy` and
`Publish` make the backup, `EnsureVersionTable` and `Stamp` mark a database of the
time before Alembic, `Statement`, `Skip` and `Record` run revisions, `Commit` ends
the transaction, and `Stop` is a failure or a crash anywhere, after which the next
`Start` finds what is on the disk.

### Configuration

`Load` and `Keep` are the two halves of a cached `get_settings`; `Begin`, `ReadFile`,
`Replace`, `Apply` and `Clear` are the steps of an update (validation against the
cached settings, the file read, its replacement, the environment, the cache), each
interleaved with other requests; `Restart` reads everything again.

### ReleaseWorkspace

`RunEffects` is React running the effects whose dependencies changed: their
cleanup abandons the earlier loads. Every answer or failure (`ContextAnswer`,
`ReleasesAnswer`, `DetailsAnswer`, ...) may come in any order, of an abandoned load
(`Ignored`) too, and between a change and its effects. `Select`, `DataChanged`,
`Recompute`, `Recomputed` and `ConfigurationSaved` are the handlers.

### DesktopLifecycle

`task` is the startup or the operation that holds the lock, `stage` the await at
which it stands; `shutdown` runs beside it. Both may wait for the exit of the same
process (`StopBackend`, `StopForOperation`, `BeginShutdown`), each wait may give up
(`StopFails`, `ShutdownFails`), and the process may end at any time
(`BackendExits`, which continues whoever waits or reports a crash). `Quit` and
`CloseWindow` are the two ways to quit, `OpenWorkspace`, `Verified`, `FilesFail`,
`ChangesFail` the ends of a task. The history variables `asked`, `expired`,
`reported`, `late` and `missed` say which processes somebody stopped, gave up on,
reported as crashed, and which cases below are outside the code's promise.

## Runs

| Run | Checks | Instance | Distinct states |
| --- | --- | --- | --- |
| `storage_safety` | `TypeOK`, `NeverServesMixedState`, `OpenWorkspaceIsServed`, `RollbackIsExact`, `TruthfulReport`, `ImplementsAtomicStorage` | one operation of any kind, two faults, one companion file, two backups, two installations | 2.4 million |
| `storage_recovery` | `RecoveryHeals` under `FairSpec` | two operations, two faults | 1.4 million |
| `sync` | `TypeOK`, `TrustedCursor`, `HistoryCoversIssue`, `RunningIsShown`, `AllOrNothing`, `Convergence` under `FairSpec` | two issues, four ticks of Jira's clock, two faults | 1.1 million |
| `metrics` | `TypeOK`, `ExplainedScore`, `ExplainedChange`, `AvailabilityIsStored`, `HonestSignals`, `SignalOfLatest`, `LatestIsCurrent`, `SignalSurvivesCompletion`, `ResponsesAgree`, `ComparisonsRespectClassification`, `ResultsAreImmutable`, `RequestsEnd` under `Fairness` | every scope and event metric of the bounds by one request; two requests, one synchronization and one change of the classification over few of them | 39,000 |
| `application` | `RiskStartIsProven`, `ScopeBalances`, `ReopensBalance`, `CycleIsFixed` (histories); `SprintAvailabilityIsStored`, `WorkloadIsTrue`, `ScoreIsExplained`, `WorkPaysOff` (sprints); `BackupProtects`, `NeverServesPartialSchema` (migration); `AcceptedConfigurationStarts`; `ShownBelongsToSelection`, `SelectionIsServed` (workspace); `BackendsAreControlled`, `HonestWindow` (lifecycle) | six parts that share no state | 0.85 million |
| `rollback_verification`, `reopened_workspace`, `failed_rollback`, `restored_token`, `lost_update`, `removed_issue`, `daily_change` | one claim each, violated | see below | |

What the passing runs show:

* `NeverServesMixedState`: no backend lives while the journal says `mutating` or
  `rolling_back`.
* `OpenWorkspaceIsServed`: an open workspace has a ready backend, and its journal
  is gone, terminal, unreadable, or at worst `rollback_applied`. The exception is a
  backend that ended while startup was still loading the page (see
  [other divergences](#other-divergences)); its end is then the last thing reported.
* `RollbackIsExact`: `rollback_applied` is only written when every declared file
  holds what the operation found, and at `rolled_back` the files no backend
  writes still do, also after interrupted and repeated rollbacks.
* `TruthfulReport`: success and "previous state restored" are said of files that
  are so.
* `RecoveryHeals`: once failures stop, a start that finds a readable journal ends
  in an open workspace without one (or the user quits).
* `TrustedCursor`: a stored issue whose Jira timestamp the cursor covers is stored
  in that version with its changelog, except the lost updates of the finding
  below, which `missed` delimits exactly.
* `HistoryCoversIssue`, `AllOrNothing`, `RunningIsShown`: as their comments say.
* `Convergence`: with Jira quiet and no more faults, the scheduled incremental
  syncs bring every issue that was not passed over up to date.
* `ExplainedScore`, `ExplainedChange`, `ScoreIsExplained`: the components of a score
  add up to it, the contributions of a comparison to its movement, and what costs
  a score a point names a driver, also where rounding and caps spill over.
* `AvailabilityIsStored`, `SprintAvailabilityIsStored`: what the availability
  service announces is what the analytics service stored and the response shows,
  although three places decide it.
* `HonestSignals`: a critical value is never hidden by a high score or by missing
  inputs. `SignalSurvivesCompletion`: filling in missing fields of tickets never
  changes a signal that was given without them; churn and flow results, which come
  from changelogs, stay what they are.
* `SignalOfLatest`, `LatestIsCurrent`, `ResultsAreImmutable`: in whatever order
  requests and synchronizations commit, the last signal is that of the last
  snapshot, the last snapshot describes the committed tickets (unless a
  synchronization committed into its calculation), and commits only add.
* `RequestsEnd`: a request ends although a synchronization may hold the write lock
  for ever.
* `ResponsesAgree`: the signal response has the score, components, driver and gates
  of the snapshot the metrics response shows, and what it shows RED can be acted
  upon. `ComparisonsRespectClassification`: neither the comparison endpoint nor the
  history of changes compares scores of two classifications.
* `RiskStartIsProven`: the derived start of a risk is an edit or the creation, never
  too early, and exact when an edit changes one field.
* `ScopeBalances`, `ReopensBalance`: scope now minus scope then is additions minus
  removals (for a release with its tickets that are stored in an earlier fix version
  counted in), completions and reopenings balance. `CycleIsFixed`: a measured cycle
  time never changes.
* `WorkPaysOff`: finishing never lowers the delivery confidence, waiting never
  raises it. `WorkloadIsTrue`: a division of work called complete is the true one,
  whatever display names are shared.
* `BackupProtects`, `NeverServesPartialSchema`: through any number of failed starts.
* `AcceptedConfigurationStarts`: an accepted configuration is used, is found by a
  restart, and lets the backend start, unless requests overlapped.
* `ShownBelongsToSelection`, `SelectionIsServed`: in any order of answers.
* `BackendsAreControlled`, `HonestWindow`: never two backends, none left behind, an
  idle workspace has its backend and server, and an intended stop is not reported
  as a crash unless somebody had given up waiting; except for the two races under
  [other divergences](#other-divergences), which `late` and `missed` delimit.

### Bounds and why they suffice

* `MaxFaults = 2`: a failed operation whose rollback fails or crashes as well, and
  a recovery that is interrupted once, each take two. The proofs do without.
* `MaxOperations`: one for safety, because an operation only starts from an idle
  workspace without a journal, and both initial installations stand for
  everything an earlier one leaves; two for recovery, where the history variables
  of the first must not disturb the second.
* Files: one companion stands for the WAL and the SHM file, which are always
  handled together. The contents tell old, requested, empty, written meanwhile,
  and a token in plain text, stripped or stored. One backup overwrites the
  database and the configuration, one brings a plaintext token with its token
  file.
* `MCInitialFiles`: an installation in use, whose WAL is absent, and one that was
  never started beside a configuration with a plaintext token.
* Two issues: a lost update takes one issue that changes and one that moves the
  cursor. Four ticks: both issues are created, one changes, another change moves
  the cursor, in any grouping, since a bulk change gives several issues one tick.
* `MCMetrics`: the scopes have at most three tickets: a threshold takes two bugs, a
  blocker and a bug together a third. Two classifications differ in one set.
  Every combination of churn, reopening and cycle time on both sides of the
  thresholds is calculated by one request alone (`focus = "calculation"`); a race
  takes two requests and a synchronization, and only needs databases that differ
  (`"concurrency"`). A day is one tick.
* `MCApplication`: one ticket with three edits (into a state, out of it, in again)
  or two with two and one, of a release's two one has fix versions before it,
  and the other is there from the beginning; one sprint of two tickets, with other sprints that give
  no, one or three baselines; four revisions, one of each kind the repository has
  (plain, repeatable, rebuilding a table, only changing rows), over databases at
  every revision, half-way, unversioned and of a newer version; two requests to the
  configuration until they overlap; three releases of two projects and two
  refreshes; four backend processes: that of the startup, of an operation, of its
  rollback and of a second operation.
* Deadlock is checked in the storage and synchronization runs: with all bounds used
  up, the application can still be launched and quit, and a synchronization can
  still be started. `metrics`, `daily_change` and `application` do not check it:
  there a part really ends, with its requests answered, its histories at their
  bound, or Electron gone.

### Fairness

`StorageTransaction!FairSpec` is weak fairness of `Progress`, Electron's own next
step: the event loop runs every pending continuation, and the waits it awaits
have timeouts. Nothing makes a user, a backend's writer or a fault act.

`JiraSync!FairSpec` is weak fairness of `SyncStep`, since the HTTP client's
timeout ends every request, and of `StartSync("incremental")`, the interval job
of `jobs/scheduler.py`. That job exists only with `jira_sync_interval_seconds`
above zero (it is off by default), so `Convergence` is a statement about
installations that turned it on.

`MetricRecompute!Fairness` is weak fairness of each request's own work: the server
runs a request it accepted, and SQLite's busy timeout (`db/session.py:27`) ends
the wait for the write lock. Nothing is assumed of the synchronization, which may
wait for Jira with the lock in its hands.

## Claims of the repository that do not hold

Each has a run whose counterexample is a path of the code as it stands.

* `RestartFailureIsReal`. `failWithRollback` (`storage-transaction.cjs:322`)
  verifies the restored state with the operation's own `verifyState`. For Clear
  Data and Factory Reset that check demands an empty database, so the rollback of
  an installation with data ends as `rollback_restart` and the error screen
  although the restored backend is ready. The next start recovers the files.
* `EditsAreDurable`. A rollback whose diagnostic or cleanup fails reopens the
  workspace (`main.cjs:857`) over a journal that says `rollback_applied`. The
  next start rolls the old snapshot over what the user did in between.
* `FailedRollbackClosesBackend`. A failed restart of the restored state leaves
  the backend it started running (`storage-transaction.cjs:323`); startup
  recovery stops it.
* `RollbackKeepsOtherFiles`. A restored configuration with a token in plain text
  makes the start of the backend write the token file (`main.cjs:287`), which the
  restore did not declare; its rollback leaves that file. It takes a backup that
  holds the token in its configuration only, such as one made before the backend
  ran on a hand-edited configuration. The runs and theorems on the other
  properties assume `BackupsHoldTheirToken`; this one shows what happens without.
* `SkippedIssuesAreUnchanged`. The cursor is the newest timestamp of a fetched
  detail, which can be later than a change to an issue the same sync had already
  read. `_can_skip_unchanged_issue` compares with the cursor, never with the
  stored timestamp (`sync_service.py:345`), so that change waits until the issue
  changes again, or for a full sync.
* `RemovalsAreVisible`. Stored issues that are no longer in the inventory are
  neither removed nor marked (`sync_service.py:280`).
* `DailyChangeRespectsClassification`. The change of the last 24 hours compares two
  snapshots after asking for equal rulesets only (`signal_service.py:861`), so a
  changed classification appears as a change of delivery; `PRODUCT_RULES.md:116`
  says that such a comparison is unavailable. The other comparisons ask
  (`ComparisonsRespectClassification`).

## Other divergences

Met while modelling; the models have the behaviour, and where a property would be
wrong because of it, the property says so.

* `README.md:276` says that a signal is stored for each new snapshot. The code makes
  it for the latest one; a request overtaken before its commit makes none for its
  own (`SignalOfLatest` allows it).
* Recalculations after a synchronization are to keep the snapshots in sync with it
  (`sync_service.py:399`). A request that read before the commit and flushed after
  it can still be the latest (`disturbed`).
* The start of a risk is to be the latest proven transition (`PRODUCT_RULES.md:952`).
  Entries of one edit carry one time and no order, so after an edit of several
  fields the derived start can be later than the true one.
* A ticket with several fix versions is stored in the first known one
  (`sync_service.py:307`), but its changelog entries count for each: the churn of a
  release has movements of tickets that its stored scope never shows
  (`LinkedElsewhere` of `ScopeBalances`).
* A ticket that is created inside a sprint or a release leaves no changelog entry and
  counts as there from the start.
* After a failure between the creation of the version table and its stamp, or in the
  middle of the first schema statements, later starts refuse the database: nothing
  is lost, but the user has to help.
* A canonical backup is accepted again by its revision (`migrations.py:96`): it may be
  older than data a user entered since, and `BackupProtects` speaks of the database
  of before the first change of its upgrade.
* Values set by the deployment's environment win over the saved file after a restart,
  although the update was accepted and used until then.
* A load of the settings that began before an update may be cached after it
  (`config.py:354`); overlapping updates can combine to a file no start accepts.
* `isLoadingDetails` stays set when the selection disappears while details load.
* The first answer about the project context (`useReleaseWorkspace.ts:87`) puts the
  old project back if it arrives after a saved configuration.
* Application shutdown is to wait for confirmed backend termination
  (`PRODUCT_RULES.md:2526`). When the user quits in the middle of a storage operation,
  the operation may start another backend after the shutdown has looked for one
  (`late`).
* An unexpected exit is to show the error page (`PRODUCT_RULES.md:2524`). If the
  backend ends between its readiness and the startup's loading of the renderer, the
  workspace is loaded over that page (`missed` in `DesktopLifecycle`, the report
  `backend_exited` in `StorageTransaction`).
* When the user quits by closing the window and the stop fails, Electron keeps
  running without a window.

## Proofs

All theorems hold for every value of the constants: any files, contents, work,
backups and installations, any number of operations, faults, issues and ticks.
They use the modules' `ASSUME`s: the paths are distinct, contents do not include
`Absent`, backups are payloads for the allowlist, neither the
backend nor Settings writes a plaintext token (`configuration_service.py:110`
leaves it out of the file), issues are numbered and finitely many; there is at
least one revision, each has statements, the revisions recognized without a
version table are among them, and a database found with a recorded revision has it
applied; the results of a database's histories are as the evaluators leave them, a
value exactly of a complete calculation (`SoundDatabase`), and a configured
classification has no empty items (`config.py:310`); the defaults of the settings are
valid (`config.py:254`); tickets are finitely many, the first ones are older than the
first day, a move gives a ticket a status, and membership in a release or a sprint is
read as a truth value (`HistoryAssumption`); the tickets of a sprint are finitely many,
their points and the sprint's dates are numbers (`None`, where one is missing, is a
negative number), there is a done status and a missing status is not done, a complete
history gives scope creep a value that is not negative, and the other sprints a velocity
is averaged over are finitely many and completed no negative points
(`DeliveryAssumption`).

`StorageTransactionProofs`:

* `TypeCorrect`, `NoMixedStateServed`, `ServedWorkspace` need nothing more. Their
  inductive invariant is the part of `IndInv` that does not speak of contents:
  `JournalAt` says which journal each location can meet, `ChildAt` where the
  backend is certainly down or ready. Neither property is inductive alone: that a
  rollback may write `rolling_back` safely depends on the location having stopped
  the backend before.
* `Invariance`, `ExactRollbacks`, `Truthfulness` and `Refinement` assume
  `BackupsHoldTheirToken`. Their invariant adds `FilesAt` (the snapshot of an
  unfinished journal is what the operation found; every declared file that is no
  longer in `todo` has reached its goal; after that, settled files stay there)
  and `TokenAt` (no start moves a token between the snapshot and the end of the
  transaction). Without `TokenAt` the last is not inductive: a start would change
  settled files in the middle of a transaction, which is exactly what
  `RollbackKeepsOtherFiles` shows to happen without the assumption.
* `Refinement` maps each step: the journal's `committed` to `Commit`, its
  `rolling_back` to `Abandon`, the first journal to `Request`, a backend's write
  to `Serve`, an edit or a token move to `Edit`, everything else to a stutter.

`JiraSyncProofs`: `TypeCorrect`, `Invariance`, `CursorIsTrusted`,
`HistoryIsWhole`, `StatusIsHonest`, `Atomicity`. `TrustedCursor` speaks of the
committed database, but what a sync will commit is decided while it runs, so
`SyncInv` follows it: `Ordered` (nothing is newer than Jira when it was read),
`Trusted` for both `stored` and `session`, `Listed` (a stored issue of the
project does not escape the scan), `Processed` (an issue the sync is finished
with is stored as it is in Jira, or late), `Paired` (only the issue between its
two requests has a row without its changelog), `Resting` (nothing of a sync is
left between two).

`IndInv` and `SyncInv`, the inductive invariants of these two, are proved and no
longer part of a run.

`BackendStartProofs`, for any number of revisions, any statements, any
databases and any number of failed starts: `MigrationInvariance`, `BackupIsKept`,
`CompleteSchemaServed`. `BackupProtects` is not inductive: that a reused backup is
the original needs to know that the disk is still the original whenever no backup
exists, that a schema once there never disappears, and what each step may take for
granted of the identity found before it (`BackupInv`, `TransactionInv`).
`NeverServesPartialSchema` needs `UpgradeInv`, which bounds the statements applied
by the revision recorded at each point of an upgrade, on the disk and in the
transaction, since only some of them are lost when it fails.

In the same module, for any number of requests, settings and restarts:
`SettingsStayReadable`, `AcceptedConfigurationIsSaved`. An update is checked against
the settings in use, but written over the file, and it changes file, environment and
cache one after the other. So `ConfigurationInv` says for each step of the request
that is served (`RequestAt`) which of the three already agree: what was checked is
still what the file gives, and the environment only repeats the file, but for what
is being applied.

`AnalyticsProofs`, for any tickets, values, classification, windows, edits of one or
two fields and synchronizations: `HistoryInvariance`, `RiskStartsAreProven`,
`ScopesBalance`, `ReopeningsAreCounted`, `CycleTimesAreFixed`. The evaluators work on a
stored history, newest entry first or by counting entries; the properties speak of
Jira's tickets at earlier moments. `HistoryInv` connects them: an entry found what the
entry before it in its field left, the ticket has what the newest one left, no field is
changed twice at one time (`Chained`), and a stored history is how the changelog began
(`Begins`). From it:

* A moment cuts a changelog in two (`CutAt`), and the ticket then is what the first
  part left (`StateAtCut`). Undoing the second part leads to the same ticket for the
  fields of a risk (`UndoneIsAfter`); an inactive moment that no entry follows is the
  present (`ActiveSince`), which bounds the start of a risk from both sides.
* `Balance`: between two cuts a field entered a set of values as often as it left it,
  but for the difference between the two cuts. `ReopeningsAreCounted` takes the done
  statuses and the whole changelog, `ScopesBalance` takes membership and a window, for
  each ticket; `Together` adds up the tickets.
* Numbers and finite sets are counted up without the library's induction theorems
  (they take an operator): `EveryNumber` and `EverySubset` state induction for a set
  of numbers or of sets, and follow from the well-founded order of finite sets.

In the same module, for any tickets of a sprint, dates, settings, histories and other
sprints: `SprintInvariance`, `ComputedWorkloadIsTrue`, `AvailabilitySaysWhatIsStored`,
`SprintScoresAreExplained`, `FinishingPaysOff`. `SprintInv` says that every stored
snapshot is `Sound`: its statuses agree with its values, and a stored score is that
of its components with their driver. A snapshot is calculated at one moment, so the
work is in the operators it is calculated with:

* Points are added with a fold, about which nothing can be proved by induction on the
  numbers added. `SumIsCounted` reads a sum as the size of the set of the pairs
  "ticket, one of its points"; that a part is at most the whole (`PartOfSum`), that
  sums grow with what is added (`SumsGrow`) and that the sum of the four components is
  the ordinary one (`FourAdded`) follow from what is known of finite sets.
* The score is a sum of four weighted components (`ScoreIs`), so the impacts add up to
  the difference of two scores (`ImpactsAdd`), and a score below the highest has a
  component below the highest, which becomes the driver (`DriverIs`) and a
  recommendation (`LossIsRecommended`).
* For `FinishingPaysOff`, quotients grow with their numerators and shrink with their
  denominators (`PctGrows`, `PctShrinks`). Completing a ticket moves its points from
  remaining to completed and leaves the commitment alone, so the two components that
  depend on them cannot fall (`AlignmentMoves`, `FitMoves`) and nor can the score
  (`ScoreFollows`). Waiting only raises the share of the time elapsed, which raises the
  progress expected and shrinks the capacity left.

`MetricRecomputeProofs`, for any requests, stored databases and classifications and
any number of synchronizations (nobody who may hold the write lock has the name of
another; the events of a database are the event metrics): `TypeCorrect`,
`SignalsFollowSnapshots`, `LatestDescribesTickets`, `ResultsStay`. What is committed
is decided by reads of several moments, so `LatestIsCurrent` is not inductive:
`ReadInv` says that what a request has read so far is what is committed, unless it
is marked `disturbed`; it is kept by a synchronization's commit because no request
has the lock then. `Times` makes the snapshot of a synchronization the latest one,
because it is begun and committed under one lock. That a latest snapshot exists is
kept along with `SignalOfLatest` (`LatestInv`), from commit to commit.

`ReleaseResponsesProofs`, for the same constants, is about contents: what is stored of
a release and what the API says of it. `ResultsInvariance` is its base. What a
request stores was calculated from three reads, so its invariant `ResultsInv` says
of every stage that evidence, snapshot and availability are `Sound`: statuses and
values fit together, the score is there exactly with its inputs, an undisturbed
snapshot is `OfOneDatabase`, and a signal is that of its snapshot. The last is a
theorem of its own (`RecalculationIsSerial`): without a commit in between, several reads
are as good as one. The properties then follow from facts about pure operators, the
larger part of the module:

* `ScoresAreExplained`, `ChangesAreExplained`: the penalties of risks with their caps
  add up, also where one spills over into the next (`ScoreAddsUp`, `ImpactsAddUp`).
* `AvailabilityAgrees`, `SignalsAreHonest`, `ViewsOfReleaseAgree`, `OnlyLikeIsCompared`:
  case distinctions over which inputs are missing; `SmallestOf` and `GreatestOf`
  (a non-empty finite set of numbers has a least and a greatest one) give the
  `CHOOSE` of drivers and of latest snapshots a value. They are proved with the
  library's well-founded order of finite sets, which replaces the induction that is
  out of reach.
* `SignalsOutliveGaps`: a completion of some tickets can only turn undecided tickets
  into decided ones, so counts grow by at most the undecided, and a rule that fired
  without them fires with them.

`DesktopLifecycleProofs`, for any number of processes: `LifecycleInvariance`,
`ControlledBackends`, `WindowIsHonest`. Two backends never run because the only live
process is the current one (`ProcessInv`), but a step that starts one is only safe
if whoever waits, waits for that process (`WaitInv`), which a failed or a second
stop must not break (`ShutdownInv`). `HonestWindow` needs `ReportInv` (a live process that was asked to
stop is marked as intentionally stopped, or somebody gave up waiting for it) and,
per stage, whether the backend is ready where a task may end with the workspace
untouched (`TaskInv`, `WindowInv`).

`ReleaseWorkspaceProofs`, for any releases, projects and number of refreshes:
`WorkspaceInvariance`, `ShownIsSelected`, `SelectionServed`,
`SelectionIsNeverForgotten`. That answers are for the selection cannot be
read off an answer alone: `LoadInv` says that a load which was not abandoned asks for
what the details effect last ran with, `ShownInv` that what is shown does too and that
nothing is loading then. That a selection is served needs more (`ServedInv`): once the
effects ran after the last refresh, the loading flag is set exactly when a load of the
details is under way (`WaitInv`), there is at most one that was not abandoned, and
nothing is loaded before the active project is known (`StartInv`).

Only model-checked: `RecoveryHeals`, `Convergence` and `RequestsEnd`, because liveness
under fairness and `ENABLED` are beyond the proof system, and the violated claims, whose
counterexamples need no proof. Every invariant and every action property of a passing
run has a theorem.

## Abstractions and what is left out

* A file is its content; a directory is one file. Hashes, sizes, path validation
  and the manifest of a journal become: readable or torn, and exact copies.
* The model follows the packaged application. The development build's copy of a
  legacy database (`main.cjs:292-301`) is left out.
* One configuration file; the choice between the one beside the executable and
  the one in the user data is listed as a hazard and planned.
* A child does not outlive Electron, as the job object of the supported
  platform guarantees.
* `Quit` of `StorageTransaction` models a confirmed stop; stops that fail and quits
  in the middle of a task are in `DesktopLifecycle`, where in turn every step of a
  task may succeed or fail, whatever the files say.
* The request proxy and the token IPC, which do not take the operation lock, are
  left out.
* A request to Jira, its retries and paging included, is one step; a page holds one
  issue, which is the finest interleaving. Releases, sprints and sanitized fields
  are left out of `JiraSync`; the recalculation at the end of a synchronization is
  in `MetricRecompute`.
* Durations are ticks and percentages are cut to hundredths. Wording, labels,
  rounding for display and the lists behind charts are left out of the operators,
  provenance is reduced to the classification.
* The revision of a database is what was applied to it; the fingerprint of a schema
  and the integrity check of a backup become a comparison of that. A schema of the
  time before Alembic is recognized by all its statements, where the code looks at
  tables and columns only (`schema_revision.py:171`): one that lacks nothing but
  indexes is recognized by the code and refused in the model. Two processes
  that migrate one database are not modelled: the desktop starts one backend.
* A ticket has one release under study and at most one place before it among its fix
  versions. That Jira's order of versions changes without an edit, and versions
  created after a synchronization has read them, are left out; the latter is a hazard.
* A response reads its database in one step, although the code reads signal and
  snapshot one after the other.
* In `IssueHistory` and `SprintDelivery` the classification does not change;
  `MetricRecompute` has that case.
* Rendering, reports, API schemas, access checks and scripts are not modelled: they
  keep no state a property would be about. Creating a settings backup is copying
  and validation of files; here a validated backup is a payload.

## Plan

What is left, the most valuable first:

1. `SettingsBackup`: staged copies, manifest, publication, validation; feeds the
   backups of `StoragePlans` and decides when `BackupsHoldTheirToken` holds.
2. `JiraRequest`: attempts, waits and paging of one request; refines the single
   step of `JiraSync`.
3. Releases in `JiraSync`: versions read before the issues that refer to them.
4. The token IPC and the request proxy beside `StorageTransaction`, and the choice
   between two configuration files.

## How to run

    tlc -workers 2 -config MCStorageTransaction.cfg MCStorageTransaction.tla
    tlc -workers 2 -config MCJiraSync.cfg MCJiraSync.tla
    tlc -workers 2 -config MCMetrics.cfg MCMetrics.tla
    tlc -workers 2 -config MCApplication.cfg MCApplication.tla
    tlapm StorageTransactionProofs.tla
    tlapm JiraSyncProofs.tla
    tlapm MetricRecomputeProofs.tla
    tlapm ReleaseResponsesProofs.tla
    tlapm ReleaseWorkspaceProofs.tla
    tlapm BackendStartProofs.tla
    tlapm AnalyticsProofs.tla
    tlapm DesktopLifecycleProofs.tla

The configuration of every run is named in `PROJECT.json`; each finishes within
four minutes with two workers. Definitions marked `Mutant:` in the modules are
wrong variants of the definition that follows them. `PROJECT.json` pairs each with
the property that fails when it takes that definition's place, which shows that
the property depends on it.
