--------------------------- MODULE MetricRecompute ---------------------------
(***************************************************************************)
(* Recalculation of the metrics and of the signal of one release: on       *)
(* request (metric_recompute_service.py) and at the end of a               *)
(* synchronization, over one SQLite database in WAL mode.                  *)
(*                                                                         *)
(* A request reads the committed database several times, each time what    *)
(* is committed then, and first waits for the write lock when it flushes   *)
(* its snapshot; a synchronization holds the write lock from its first     *)
(* issue to its commit and calculates over what only it can see.           *)
(*                                                                         *)
(* A database is a record of the tickets of the release, of whether any    *)
(* changelog entry of them is stored, and of the results the churn and     *)
(* flow evaluators give for the stored history (see IssueHistory).         *)
(***************************************************************************)
EXTENDS ReleaseHealth, Sequences

CONSTANTS
  Requests,          \* requests to recalculate the release
  Databases,         \* the stored databases
  Changes,           \* pairs of databases: what a synchronization turns into what
  Configurations,    \* classifications a user can configure
  Tickets,           \* what a ticket with missing fields may turn out to be
  MaxSyncs,          \* bound on synchronizations
  NoOne,             \* nobody holds the write lock
  Unset              \* not read or calculated yet

VARIABLES
  database,          \* what is committed
  config,            \* the classification configured now
  snapshots,         \* committed metric snapshots, in the order of their ids
  signals,           \* committed signals, in the order of their calculation
  clock,             \* the time of the last snapshot that was begun
  request,           \* request[r]: the progress of a request
  lock,              \* who holds the write lock
  sync               \* the synchronization under way, and their number

vars == <<database, config, snapshots, signals, clock, request, lock, sync>>

EventMetrics == FlowMetrics \cup {"scope_churn_7d_pct"}
EvaluatedMetrics == ClassifiedMetrics \cup EventMetrics

ASSUME HoldersAssumption == NoOne # "sync" /\ {NoOne, "sync"} \cap Requests = {}
(* What the evaluators of histories leave: a value exactly of a complete   *)
(* calculation, and of churn always something when there are tickets.      *)
SoundDatabase(d) ==
  /\ DOMAIN d = {"tickets", "changelog", "events"}
  /\ IsFiniteSet(DOMAIN d.tickets)
  /\ DOMAIN d.events = EventMetrics
  /\ \A m \in EventMetrics :
       /\ d.events[m].value \in Nat \cup {None}
       /\ d.events[m].status \in {"COMPUTED", "PARTIAL", "NOT_COMPUTED"}
       /\ d.events[m].status = "COMPUTED" <=> d.events[m].value # None
  /\ DOMAIN d.tickets # {} =>
       d.events["scope_churn_7d_pct"].status \in {"COMPUTED", "PARTIAL"}
ASSUME DatabasesAssumption == \A d \in Databases : SoundDatabase(d)
ASSUME ConfigurationsAssumption == \A c \in Configurations : WellFormed(c)

(* The results of f and, of what f has no result for, those of g.          *)
Over(f, g) == [m \in DOMAIN f \cup DOMAIN g |-> IF m \in DOMAIN f THEN f[m] ELSE g[m]]

(* What the evaluators say of a database.                                  *)
Evidence(c, d) ==
  [tickets |-> Cardinality(DOMAIN d.tickets),
   changelog |-> d.changelog,
   result |-> Over(ClassificationResults(c, d.tickets), d.events)]

NoEvidence ==
  [tickets |-> 0, changelog |-> FALSE,
   result |-> [m \in EvaluatedMetrics |-> [value |-> None, status |-> "NOT_COMPUTED"]]]

Idle ==
  [step |-> "idle", at |-> 0, settings |-> Unset, evidence |-> NoEvidence,
   row |-> Unset, disturbed |-> FALSE]
NoSync == [database |-> Unset, at |-> 0, settings |-> Unset, count |-> 0]

Init ==
  /\ database \in Databases
  /\ config \in Configurations
  /\ snapshots = <<>>
  /\ signals = <<>>
  /\ clock = 0
  /\ request = [r \in Requests |-> Idle]
  /\ lock = NoOne
  /\ sync = NoSync

(* MetricRepository.get_latest_snapshot: by time, then by id.              *)
LatestIndex(stored) ==
  CHOOSE i \in DOMAIN stored : \A j \in DOMAIN stored :
    \/ stored[i].at > stored[j].at
    \/ stored[i].at = stored[j].at /\ i >= j
Latest == snapshots[LatestIndex(snapshots)]

Signalled(stored, id) == \E k \in DOMAIN stored : stored[k].snapshot = id

(* Mutants: the signal is made for the snapshot just flushed, whatever the *)
(* latest one is; an existing signal is calculated again.                  *)
SignalsOfFlushed(stored, known, tickets) ==
  Append(known, Over([snapshot |-> Len(stored)], ReleaseSignal(tickets, stored[Len(stored)])))
SignalsRewritten(stored, known, tickets) ==
  LET latest == LatestIndex(stored)
      new == Over([snapshot |-> latest], ReleaseSignal(tickets, stored[latest]))
  IN IF Signalled(known, latest)
     THEN [k \in DOMAIN known |-> IF known[k].snapshot = latest
                                  THEN [new EXCEPT !.signal = "INCONCLUSIVE"] ELSE known[k]]
     ELSE Append(known, new)

(* recompute_release_signal and create_signal: the latest snapshot in view *)
(* gets a signal unless it has one.                                        *)
SignalsFor(stored, known, tickets) ==
  LET latest == LatestIndex(stored)
  IN IF Signalled(known, latest) THEN known
     ELSE Append(known, Over([snapshot |-> latest], ReleaseSignal(tickets, stored[latest])))

Publish(snapshot, tickets) ==
  /\ snapshots' = Append(snapshots, snapshot)
  /\ signals' = SignalsFor(snapshots', signals, tickets)

Stamped(snapshot, at, disturbed) ==
  Over([at |-> at, disturbed |-> disturbed], snapshot)

-----------------------------------------------------------------------------
(* A request.                                                              *)

Start(r) ==
  /\ request[r].step = "idle"
  /\ clock' = clock + 1
  /\ request' = [request EXCEPT ![r].step = "tickets", ![r].at = clock + 1,
                                ![r].settings = config]
  /\ UNCHANGED <<database, config, snapshots, signals, lock, sync>>

ReadTickets(r) ==
  /\ request[r].step = "tickets"
  /\ request' = [request EXCEPT
       ![r].step = "history",
       ![r].evidence.result =
          Over(ClassificationResults(request[r].settings, database.tickets), @)]
  /\ UNCHANGED <<database, config, snapshots, signals, clock, lock, sync>>

(* The number of tickets is counted beside the history.                    *)
ReadHistory(r) ==
  /\ request[r].step = "history"
  /\ request' = [request EXCEPT
       ![r].step = "availability",
       ![r].evidence = [tickets |-> Cardinality(DOMAIN database.tickets),
                        changelog |-> database.changelog,
                        result |-> Over(database.events, @.result)]]
  /\ UNCHANGED <<database, config, snapshots, signals, clock, lock, sync>>

(* _release_calculation_provenance evaluates the stored tickets again.     *)
ReadAvailability(r) ==
  /\ request[r].step = "availability"
  /\ \E inputs \in {Inputs(request[r].evidence, Evidence(request[r].settings, database))} :
       request' = [request EXCEPT
         ![r].step = "flush",
         ![r].row = MetricSnapshot(request[r].evidence, inputs, request[r].settings)]
  /\ UNCHANGED <<database, config, snapshots, signals, clock, lock, sync>>

Flush(r) ==
  /\ request[r].step = "flush"
  /\ lock = NoOne
  /\ lock' = r
  /\ request' = [request EXCEPT ![r].step = "signal"]
  /\ UNCHANGED <<database, config, snapshots, signals, clock, sync>>

(* Mutant: the wait for the lock has no end.                               *)
LockTimeoutNever(r) ==
  /\ request[r].step = "flush"
  /\ lock = r
  /\ request' = [request EXCEPT ![r] = [Idle EXCEPT !.step = "failed"]]
  /\ UNCHANGED <<database, config, snapshots, signals, clock, lock, sync>>

(* busy_timeout: the flush gives up and the request fails.                 *)
LockTimeout(r) ==
  /\ request[r].step = "flush"
  /\ lock # NoOne
  /\ request' = [request EXCEPT ![r] = [Idle EXCEPT !.step = "failed"]]
  /\ UNCHANGED <<database, config, snapshots, signals, clock, lock, sync>>

Commit(r) ==
  /\ request[r].step = "signal"
  /\ Publish(Stamped(request[r].row, request[r].at, request[r].disturbed),
             Cardinality(DOMAIN database.tickets))
  /\ request' = [request EXCEPT ![r] = [Idle EXCEPT !.step = "done"]]
  /\ lock' = NoOne
  /\ UNCHANGED <<database, config, clock, sync>>

(* Mutant: the session of a failed request stays open.                     *)
RequestFailsHoldingLock(r) ==
  /\ request[r].step \notin {"idle", "done", "failed"}
  /\ request' = [request EXCEPT ![r] = [Idle EXCEPT !.step = "failed"]]
  /\ UNCHANGED <<database, config, snapshots, signals, clock, lock, sync>>

(* Any exception rolls the session back; recompute_all_releases goes on    *)
(* with the next release.                                                  *)
RequestFails(r) ==
  /\ request[r].step \notin {"idle", "done", "failed"}
  /\ request' = [request EXCEPT ![r] = [Idle EXCEPT !.step = "failed"]]
  /\ lock' = IF lock = r THEN NoOne ELSE lock
  /\ UNCHANGED <<database, config, snapshots, signals, clock, sync>>

-----------------------------------------------------------------------------
(* A synchronization and the user's configuration.                         *)

SyncWrites ==
  /\ lock = NoOne
  /\ sync.count < MaxSyncs
  /\ lock' = "sync"
  /\ \E d \in Databases :
       /\ <<database, d>> \in Changes
       /\ sync' = [database |-> d, at |-> 0, settings |-> Unset, count |-> sync.count + 1]
  /\ UNCHANGED <<database, config, snapshots, signals, clock, request>>

SyncRecomputes ==
  /\ lock = "sync"
  /\ sync.at = 0
  /\ clock' = clock + 1
  /\ sync' = [sync EXCEPT !.at = clock + 1, !.settings = config]
  /\ UNCHANGED <<database, config, snapshots, signals, request, lock>>

(* A request is disturbed when it has read some, but not all, of what it   *)
(* stores before the commit.                                               *)
Reading == {"history", "availability", "flush"}

(* Mutant: the synchronization leaves the metrics to the next request.     *)
SyncCommitsTickets ==
  /\ lock = "sync"
  /\ sync.at > 0
  /\ database' = sync.database
  /\ lock' = NoOne
  /\ sync' = [sync EXCEPT !.database = Unset, !.at = 0, !.settings = Unset]
  /\ request' = [r \in Requests |->
       [request[r] EXCEPT !.disturbed = @ \/ request[r].step \in Reading]]
  /\ UNCHANGED <<config, clock, snapshots, signals>>

SyncCommits ==
  /\ lock = "sync"
  /\ sync.at > 0
  /\ \E seen \in {Evidence(sync.settings, sync.database)} :
       Publish(Stamped(MetricSnapshot(seen, seen, sync.settings), sync.at, FALSE),
               seen.tickets)
  /\ database' = sync.database
  /\ lock' = NoOne
  /\ sync' = [sync EXCEPT !.database = Unset, !.at = 0, !.settings = Unset]
  /\ request' = [r \in Requests |->
       [request[r] EXCEPT !.disturbed = @ \/ request[r].step \in Reading]]
  /\ UNCHANGED <<config, clock>>

SyncFails ==
  /\ lock = "sync"
  /\ lock' = NoOne
  /\ sync' = [sync EXCEPT !.database = Unset, !.at = 0, !.settings = Unset]
  /\ UNCHANGED <<database, config, snapshots, signals, clock, request>>

ChangeConfiguration ==
  /\ config' \in Configurations \ {config}
  /\ UNCHANGED <<database, snapshots, signals, clock, request, lock, sync>>

RequestStep(r) ==
  \/ Start(r) \/ ReadTickets(r) \/ ReadHistory(r) \/ ReadAvailability(r)
  \/ Flush(r) \/ LockTimeout(r) \/ Commit(r) \/ RequestFails(r)

Next ==
  \/ \E r \in Requests : RequestStep(r)
  \/ SyncWrites \/ SyncRecomputes \/ SyncCommits \/ SyncFails
  \/ ChangeConfiguration

(* A request that was started is served; a synchronization may hang for as *)
(* long as Jira does.                                                      *)
Work(r) ==
  \/ ReadTickets(r) \/ ReadHistory(r) \/ ReadAvailability(r)
  \/ Flush(r) \/ LockTimeout(r) \/ Commit(r)
Fairness == \A r \in Requests : WF_vars(Work(r))
Spec == Init /\ [][Next]_vars /\ Fairness

-----------------------------------------------------------------------------
(* Properties.                                                             *)

Steps == {"idle", "tickets", "history", "availability", "flush", "signal", "done", "failed"}
Working == Steps \ {"idle", "done", "failed"}

(* Requests and the synchronization keep their shape; who holds the lock   *)
(* is at the step that has it.                                             *)
TypeOK ==
  /\ database \in Databases
  /\ config \in Configurations
  /\ clock \in Nat
  /\ lock \in Requests \cup {NoOne, "sync"}
  /\ \A r \in Requests :
       /\ request[r].step \in Steps
       /\ request[r].at <= clock
       /\ request[r].step \in Working => request[r].settings \in Configurations
       /\ lock = r <=> request[r].step = "signal"
  /\ \A i \in DOMAIN snapshots : snapshots[i].at \in 1 .. clock
  /\ \A k \in DOMAIN signals : signals[k].snapshot \in DOMAIN snapshots

(* A score is the sum of the components it is explained with, and names a  *)
(* driver exactly when something was taken from it.                        *)
ExplainedScore ==
  \A i \in DOMAIN snapshots :
    LET s == snapshots[i]
    IN s.confidence # None =>
         /\ BreakdownTotal(Breakdown(s.values)) = s.confidence
         /\ s.driver = "none" <=> s.confidence = 100

(* The contributors of a comparison account for the whole movement of the  *)
(* score, although metrics that did not move are left out.                 *)
ExplainedChange ==
  \A i, j \in DOMAIN snapshots :
    Comparable(snapshots[i], snapshots[j]) =>
      LET c == Comparison(snapshots[i], snapshots[j])
      IN Total(c.impacts) = c.delta

(* What the availability says of score and readiness is what is stored,    *)
(* although both are decided in different services from different inputs,  *)
(* for every calculation no synchronization committed into.                *)
AvailabilityMatches(s) ==
  /\ s.confidence # None <=> s.availability["confidence_score"].available
  /\ s.confidence_status = s.availability["confidence_score"].status
  /\ s.readiness # None <=> s.availability["readiness_pct"].available
  /\ ComputationState(s.tickets, s.availability) = "COMPUTED" => s.confidence # None
AvailabilityIsStored ==
  \A i \in DOMAIN snapshots :
    ~snapshots[i].disturbed => AvailabilityMatches(snapshots[i])

(* A critical value is never hidden by a high score or by missing inputs;  *)
(* GREEN is said of complete inputs without any breach; RED has a reason.  *)
HonestSignals ==
  \A k \in DOMAIN signals :
    LET s == snapshots[signals[k].snapshot]
        said == signals[k].signal
    IN said # "NOT_COMPUTED" =>
         /\ HardRed(s.values) => said = "RED"
         /\ said = "GREEN" => \A m \in ConfidenceMetrics : ~Breached(m, s.values[m])
         /\ said = "RED" => \/ HardRed(s.values)
                            \/ s.confidence # None /\ s.confidence <= 60
         /\ ~s.disturbed /\ said \in {"GREEN", "YELLOW"} => s.confidence # None

(* The signal of a database, and the databases its incomplete tickets may  *)
(* turn out to be.                                                         *)
FinalSignal(c, d) ==
  LET e == Evidence(c, d)
  IN ReleaseSignal(e.tickets, MetricSnapshot(e, e, c)).signal

Possible(t) == {u \in Tickets : Completes(t, u)}
Completions(d) ==
  LET keys == DOMAIN d.tickets
  IN {[d EXCEPT !.tickets = u] : u \in
        {u \in [keys -> UNION {Possible(d.tickets[k]) : k \in keys}] :
           \A k \in keys : Completes(d.tickets[k], u[k])}}

(* Filling in the missing fields of tickets never takes a signal back:     *)
(* what is said of incomplete tickets is true of whatever they turn out to *)
(* be.                                                                     *)
SignalSurvivesCompletion ==
  LET said == FinalSignal(config, database)
  IN said \in {"GREEN", "YELLOW", "RED"} =>
       \A d \in Completions(database) : FinalSignal(config, d) = said

(* Whatever order requests and synchronizations commit in, the signal read *)
(* last belongs to the snapshot read last, which the response puts beside  *)
(* it, and no snapshot has two signals.                                    *)
SignalOfLatest ==
  /\ snapshots # <<>> =>
       /\ signals # <<>>
       /\ signals[Len(signals)].snapshot = LatestIndex(snapshots)
  /\ \A k, l \in DOMAIN signals :
       signals[k].snapshot = signals[l].snapshot => k = l

(* The newest snapshot describes the committed tickets under its own       *)
(* classification, unless a synchronization committed into the request     *)
(* that calculated it.                                                     *)
LatestIsCurrent ==
  snapshots # <<>> /\ ~Latest.disturbed =>
    Latest.values = StoredValues(Evidence(Latest.classification, database))

(* Stored results are immutable: commits only add.                         *)
ResultsAreImmutable ==
  [][/\ Len(snapshots') >= Len(snapshots)
     /\ \A i \in DOMAIN snapshots : snapshots'[i] = snapshots[i]
     /\ Len(signals') >= Len(signals)
     /\ \A k \in DOMAIN signals : signals'[k] = signals[k]]_vars

(* A request that was started ends, however long a synchronization keeps   *)
(* the write lock.                                                         *)
RequestsEnd ==
  \A r \in Requests :
    request[r].step \in Working ~> request[r].step \in {"done", "failed"}

=============================================================================
