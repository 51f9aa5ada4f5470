--------------------------- MODULE SprintDelivery ---------------------------
(***************************************************************************)
(* The metrics of one sprint: workload, delivery confidence, availability, *)
(* what is stored of them at a recalculation and shown afterwards          *)
(* (analytics_service.py, metric_availability_service.py,                  *)
(* sprint_response_service.py), while tickets are worked on, time passes   *)
(* and the sprint is closed.                                               *)
(*                                                                         *)
(* A ticket has, beside the fields of TicketClassification, its points     *)
(* (None: no valid estimate), the person it is assigned to and whether     *)
(* Jira gave that person's stable id; without it only the display name is  *)
(* known, which several persons may share.  events holds what IssueHistory *)
(* evaluates: scope creep with the number of scope changes, flow metrics,  *)
(* bugs created, and whether every changelog of the project is complete.   *)
(***************************************************************************)
EXTENDS TicketClassification, Functions, Sequences

CONSTANTS
  Settings,          \* the configured classification
  Scopes,            \* what the tickets of the sprint can be
  Sprints,           \* state and dates of the sprint
  Histories,         \* the events
  OtherSprints,      \* sets of the other sprints of the project
  Display,           \* Display[p]: the display name of person p
  Nobody,            \* no assignee
  MaxTime,           \* bound on time
  MaxResults         \* bound on recalculations

VARIABLES
  tickets,
  sprint,            \* [closed, start, end]
  now,
  events,
  others,            \* [id, closed, date, coverage, completed] of other sprints
  results            \* stored snapshots, oldest first

sprintVars == <<tickets, sprint, now, events, others, results>>

Scope == DOMAIN tickets

Clamp(n, high) == IF n < 0 THEN 0 ELSE IF n > high THEN high ELSE n
Full == Hundredths(100)
PctOf(part, whole) == (Full * part) \div whole

-----------------------------------------------------------------------------
(* Story points and workload.                                              *)

Pointed == {k \in Scope : ValidPoints(tickets[k])}
Coverage == IF Scope = {} THEN 0 ELSE PctOf(Cardinality(Pointed), Cardinality(Scope))
Estimated == Scope # {} /\ Coverage >= MinimumCoverage
LackingStatus == {k \in Scope : ~HasStatus(tickets[k])}
Active == {k \in Scope : Unfinished(Settings, tickets[k])}
PointsIn(S) == SumFunction([k \in S |-> tickets[k].points])

(* Whom a ticket counts for; the mutant asks whether nobody is named.      *)
FallbackUnassigned(k) == tickets[k].person = Nobody /\ ~tickets[k].identified
Fallback(k) == tickets[k].person # Nobody /\ ~tickets[k].identified
Bucket(k) ==
  IF tickets[k].person = Nobody THEN <<"unassigned">>
  ELSE IF tickets[k].identified THEN <<"jira", tickets[k].person>>
  ELSE <<"display", Display[tickets[k].person]>>

(* The largest share of the points of S, by what tickets count for.        *)
Concentration(S, countsFor) ==
  LET share == {PctOf(PointsIn({j \in S : countsFor[j] = countsFor[k]}), PointsIn(S)) : k \in S}
  IN CHOOSE v \in share : \A w \in share : v >= w

Workload ==
  LET included == Active \cap Pointed
      none(status) == [status |-> status, value |-> None]
  IN IF Scope = {} THEN none("NOT_COMPUTED")
     ELSE IF ~Estimated \/ LackingStatus # {} THEN none("INCONCLUSIVE")
     ELSE IF Active = {} THEN none("NOT_APPLICABLE")
     ELSE IF PointsIn(included) = 0 THEN none("NOT_COMPUTED")
     ELSE [status |-> IF Coverage < Full \/ \E k \in included : Fallback(k)
                      THEN "PARTIAL" ELSE "COMPUTED",
           value |-> Concentration(included, [k \in included |-> Bucket(k)])]

-----------------------------------------------------------------------------
(* Delivery confidence.                                                    *)

DurationValid == sprint.start # None /\ sprint.end # None /\ sprint.end > sprint.start

(* evaluate_sprint_delivery_confidence_prerequisites.                      *)
Prerequisites ==
  /\ LackingStatus \cap Pointed = {}
  /\ \A k \in Scope : ~BlockerIndeterminate(Settings, tickets[k])
  /\ DurationValid
  /\ events.complete

Elapsed == Clamp(PctOf(now - sprint.start, sprint.end - sprint.start), Full)

Committed == PointsIn(Pointed)
Completed == PointsIn({k \in Pointed : IsDone(Settings, tickets[k])})
Remaining == Clamp(Committed - Completed, Committed)
Progress == IF Committed = 0 THEN Full ELSE PctOf(Completed, Committed)

(* Mutant: nothing is on time before the first moment has passed.          *)
ProgressAlignmentFromStart(done, elapsed) ==
  IF elapsed <= 0 THEN 0 ELSE Clamp(PctOf(done, elapsed), Full)
ProgressAlignment(done, elapsed) ==
  IF elapsed <= 0 THEN Full ELSE Clamp(PctOf(done, elapsed), Full)

(* _list_velocity_baseline_sprints: the newest closed sprints that ended   *)
(* before this one started and whose tickets were estimated.               *)
HistoricalSprints == 3
Newer(s, t) == s.date > t.date \/ (s.date = t.date /\ s.id > t.id)
Baselines ==
  LET eligible == {s \in others : /\ s.closed
                                  /\ s.date # None
                                  /\ sprint.start # None => s.date <= sprint.start
                                  /\ s.coverage >= MinimumCoverage}
  IN {s \in eligible : Cardinality({t \in eligible : Newer(t, s)}) < HistoricalSprints}

Velocity ==
  SumFunction([s \in Baselines |-> Hundredths(s.completed)]) \div Cardinality(Baselines)
Capacity(elapsed) == (Velocity * (Full - elapsed)) \div Full
VelocityFit(remaining, elapsed) ==
  IF remaining <= 0 THEN Full
  ELSE IF Baselines = {} THEN Hundredths(50)
  ELSE Clamp(PctOf(Capacity(elapsed), Hundredths(remaining)), Full)

OpenBlockerCount == Cardinality({k \in Scope : OpenBlocker(Settings, tickets[k])})

Components ==
  [progress_alignment |-> ProgressAlignment(Progress, Elapsed),
   velocity_fit |-> VelocityFit(Remaining, Elapsed),
   blocker_penalty |-> Clamp(Full - PctOf(OpenBlockerCount, Cardinality(Scope)), Full),
   scope_stability |-> Clamp(Full - events.creep.value, Full)]
ComponentNames ==
  {"progress_alignment", "velocity_fit", "blocker_penalty", "scope_stability"}
Weight ==
  [progress_alignment |-> 4, velocity_fit |-> 3, blocker_penalty |-> 2,
   scope_stability |-> 1]

(* Scores and impacts are counted in tenths of a hundredth.                *)
Score(components) == SumFunction([n \in ComponentNames |-> Weight[n] * components[n]])
Highest == 10 * Full

NoComponents == [n \in ComponentNames |-> None]
DeliveryConfidence ==
  LET none(status) ==
        [status |-> status, score |-> None, components |-> NoComponents, remaining |-> 0]
  IN IF Scope = {} THEN none("NOT_COMPUTED")
     ELSE IF ~Estimated \/ ~Prerequisites \/ events.creep.status # "COMPUTED"
          THEN none("INCONCLUSIVE")
     ELSE [status |-> IF Coverage = Full /\ \A s \in Baselines : s.coverage = Full
                      THEN "COMPUTED" ELSE "PARTIAL",
           score |-> Score(Components),
           components |-> Components,
           remaining |-> Remaining]

(* build_sprint_driver: the largest weighted loss, else this order.        *)
Order ==
  [progress_alignment |-> 1, velocity_fit |-> 2, scope_stability |-> 3,
   blocker_penalty |-> 4]
Loss(components, n) == Weight[n] * (Full - components[n])
Driver(components) ==
  LET losing == {n \in ComponentNames : Loss(components, n) > 0}
  IN IF losing = {} THEN "none"
     ELSE CHOOSE n \in losing : \A m \in losing :
            \/ Loss(components, n) > Loss(components, m)
            \/ Loss(components, n) = Loss(components, m) /\ Order[n] <= Order[m]

-----------------------------------------------------------------------------
(* Availability: build_sprint_availability.                                *)

Item(status, available) == [status |-> status, available |-> available]
Valued(result) == Item(result.status, result.value # None)

(* Dependencies the stored data satisfies.  Status, blockers, duration,    *)
(* changelogs and assignees are left to evaluators of their own.           *)
Satisfied ==
  (IF Scope # {} THEN {"ticket_count", "sprint_assignment", "ticket_status"} ELSE {})
  \cup (IF Estimated THEN {"story_points"} ELSE {})
  \cup {"sprint_duration", "project_changelog_completeness", "blocker_classification",
        "assignee_identity"}
DependencyItem(m) ==
  Item(IF Sprint[m].needs \subseteq Satisfied THEN "COMPUTED" ELSE "NOT_COMPUTED",
       Sprint[m].needs \subseteq Satisfied)

(* Mutant: a result that is inconclusive does not reach the availability.  *)
DeliveryItemOfPrerequisites(delivery) ==
  IF Estimated /\ ~Prerequisites
  THEN Item("NOT_COMPUTED", FALSE) ELSE DependencyItem("delivery_confidence_score")
DeliveryItem(delivery) ==
  IF Estimated /\ (~Prerequisites \/ delivery.status = "INCONCLUSIVE")
  THEN Item("NOT_COMPUTED", FALSE) ELSE DependencyItem("delivery_confidence_score")

WorkloadItem(workload) ==
  Item(IF workload.status = "INCONCLUSIVE" THEN "NOT_COMPUTED" ELSE workload.status,
       workload.status \in {"COMPUTED", "PARTIAL"})

Evaluated ==
  [committed_scope |-> CommittedScope(tickets),
   completed_scope_pct |-> ScopeCompletedPct(Settings, tickets),
   open_blockers |-> OpenBlockers(Settings, tickets),
   open_high_severity_bugs |-> OpenHighSeverityBugs(Settings, tickets),
   in_progress_count |-> InProgressCount(Settings, tickets),
   not_started_count |-> NotStartedCount(Settings, tickets),
   rollover_count |-> RolloverCount(Settings, tickets, sprint.closed),
   median_cycle_time_days |-> events.cycle,
   reopen_rate_pct |-> events.reopen]

Availability(workload, delivery) ==
  [m \in SprintMetrics |->
     IF m \in DOMAIN Evaluated THEN Valued(Evaluated[m])
     ELSE IF m = "scope_creep_pct" THEN Item(events.creep.status, events.creep.status = "COMPUTED")
     ELSE IF m = "workload_concentration_pct" THEN WorkloadItem(workload)
     ELSE IF m = "delivery_confidence_score" THEN DeliveryItem(delivery)
     ELSE DependencyItem(m)]

ComputationState(items) ==
  IF Scope = {} THEN "NOT_COMPUTED"
  ELSE IF \E m \in SprintMetrics :
            \/ items[m].status = "PARTIAL"
            \/ ~items[m].available /\ items[m].status # "NOT_APPLICABLE"
       THEN "PARTIAL" ELSE "COMPUTED"

(* recompute_sprint_metrics and _sprint_calculation_provenance.            *)
Snapshot ==
  LET workload == Workload
      delivery == DeliveryConfidence
      items == Availability(workload, delivery)
  IN [values |-> [m \in DOMAIN Evaluated |-> Evaluated[m].value],
      creep |-> events.creep,
      bugs |-> events.bugs,
      workload |-> workload,
      delivery |-> delivery,
      driver |-> IF delivery.score # None THEN Driver(delivery.components) ELSE "none",
      availability |-> items,
      state |-> ComputationState(items)]

-----------------------------------------------------------------------------
(* What is shown: get_sprint_metrics, build_sprint_recommendations and the *)
(* comparison of two snapshots.  Some values are shown as they are stored. *)

Unguarded ==
  {"committed_scope", "completed_scope_pct", "median_cycle_time_days", "reopen_rate_pct"}
Shown(s, m) ==
  CASE m \in Unguarded -> s.values[m]
    [] m = "scope_creep_pct" -> IF s.availability[m].available THEN s.creep.value ELSE None
    [] m = "bugs_created_during_sprint" ->
         IF s.bugs.status # "NOT_COMPUTED" THEN s.bugs.value ELSE None
    [] m = "workload_concentration_pct" ->
         IF s.availability[m].available THEN s.workload.value ELSE None
    [] m = "delivery_confidence_score" -> s.delivery.score
    [] OTHER -> IF s.availability[m].available THEN s.values[m] ELSE None

Above(m, v, level) == v # None /\ v > level
Recommendations(s) ==
  LET v == s.values
      c == s.delivery.components
      scored == s.delivery.score # None
  IN {n \in {"scope_stability", "open_blockers", "progress_alignment",
             "open_high_severity_bugs", "workload_concentration",
             "median_cycle_time_days", "reopen_rate_pct"} :
        CASE n = "scope_stability" ->
               scored /\ (s.creep.changes > 0 \/ c.scope_stability < Full)
          [] n = "progress_alignment" ->
               /\ scored
               /\ \/ v.completed_scope_pct # None /\ v.completed_scope_pct < Full
                  \/ s.delivery.remaining > 0
                  \/ c.progress_alignment < Full
          [] n = "workload_concentration" ->
               /\ s.workload.status \in {"COMPUTED", "PARTIAL"}
               /\ s.workload.value >= Sprint["workload_concentration_pct"].watch
          [] n = "median_cycle_time_days" -> Above(n, v[n], Release[n].watch)
          [] n = "reopen_rate_pct" -> Above(n, v[n], Release[n].watch)
          [] OTHER -> v[n] > 0}

(* Impacts of the components that moved.  The mutant explains a change by  *)
(* the components as they are.                                             *)
ImpactUnweighted(current, previous, n) ==
  current.delivery.components[n] - previous.delivery.components[n]
Impact(current, previous, n) ==
  Weight[n] * (current.delivery.components[n] - previous.delivery.components[n])
Comparable(current, previous) ==
  current.delivery.score # None /\ previous.delivery.score # None
Comparison(current, previous) ==
  [delta |-> current.delivery.score - previous.delivery.score,
   impacts |-> [n \in ComponentNames |-> Impact(current, previous, n)]]

-----------------------------------------------------------------------------
(* The sprint.                                                             *)

TicketFields == {"type", "severity", "status", "flag", "points", "person", "identified"}

(* A history that could be evaluated gives scope creep a value.            *)
ASSUME DeliveryAssumption ==
  /\ Settings.done # {} /\ Missing \notin Settings.done
  /\ \A scope \in Scopes :
       /\ IsFiniteSet(DOMAIN scope)
       /\ \A k \in DOMAIN scope : DOMAIN scope[k] = TicketFields /\ scope[k].points \in Int
  /\ \A s \in Sprints : DOMAIN s = {"closed", "start", "end"} /\ {s.start, s.end} \subseteq Int
  /\ \A h \in Histories :
       h.creep.value \in Int /\ (h.creep.status = "COMPUTED" => h.creep.value >= 0)
  /\ \A past \in OtherSprints :
       IsFiniteSet(past) /\ \A s \in past : s.completed \in Nat /\ s.coverage \in Int

SprintInit ==
  /\ tickets \in Scopes
  /\ sprint \in Sprints
  /\ now = 1
  /\ events \in Histories
  /\ others \in OtherSprints
  /\ results = <<>>

FirstDone == CHOOSE s \in Settings.done : TRUE

(* What synchronizations bring: tickets get a status, or are completed.    *)
Finish(k) ==
  /\ ~IsDone(Settings, tickets[k])
  /\ tickets' = [tickets EXCEPT ![k].status = FirstDone]
  /\ UNCHANGED <<sprint, now, events, others, results>>

Estimate(k) ==
  /\ tickets[k].points = None
  /\ tickets' = [tickets EXCEPT ![k].points = 2]
  /\ UNCHANGED <<sprint, now, events, others, results>>

PassTime ==
  /\ now < MaxTime
  /\ now' = now + 1
  /\ UNCHANGED <<tickets, sprint, events, others, results>>

Close ==
  /\ ~sprint.closed
  /\ sprint' = [sprint EXCEPT !.closed = TRUE]
  /\ UNCHANGED <<tickets, now, events, others, results>>

RecomputeSprintMetrics ==
  /\ Len(results) < MaxResults
  /\ \E snapshot \in {Snapshot} : results' = Append(results, snapshot)
  /\ UNCHANGED <<tickets, sprint, now, events, others>>

SprintNext ==
  \/ \E k \in Scope : Finish(k) \/ Estimate(k)
  \/ PassTime \/ Close \/ RecomputeSprintMetrics
SprintSpec == SprintInit /\ [][SprintNext]_sprintVars

-----------------------------------------------------------------------------
(* Properties.                                                             *)

(* Nothing anybody does to finish a sprint lowers its score: completing a  *)
(* ticket never does, and waiting never raises it, although four           *)
(* components react to both with different conventions for the start, an   *)
(* empty commitment and missing baselines.                                 *)
WorkPays ==
  LET before == DeliveryConfidence.score
      after == (DeliveryConfidence.score)'
      scored == before # None /\ after # None
  IN /\ (\E k \in Scope : Finish(k)) /\ scored => after >= before
     /\ PassTime /\ scored => after <= before
WorkPaysOff == [][WorkPays]_sprintVars

(* What the availability says of each stored value, decided elsewhere from *)
(* other conditions, is so: a value is shown exactly when it is called     *)
(* available, a complete result has a score that left no ticket and no     *)
(* baseline out.  (The bugs created in a sprint have no evaluator in the   *)
(* availability.)                                                          *)
SprintAvailabilityIsStored ==
  \A i \in DOMAIN results :
    LET s == results[i]
    IN /\ \A m \in SprintMetrics \ {"bugs_created_during_sprint"} :
            Shown(s, m) # None <=> s.availability[m].available
       /\ s.state = "COMPUTED" =>
            /\ s.delivery.score # None
            /\ s.workload.status \in {"COMPUTED", "NOT_APPLICABLE"}
       /\ s.delivery.status = "COMPUTED" =>
            s.workload.status # "INCONCLUSIVE"

(* Work that is called computed is divided between persons as it really    *)
(* is: wherever display names could confuse two persons, or split one in   *)
(* two, the result says that it is partial.                                *)
WorkloadIsTrue ==
  Workload.status = "COMPUTED" =>
    Workload.value = Concentration(Active, [k \in Active |-> tickets[k].person])

(* Every point missing from a score has an explanation and an action: a    *)
(* driver, and a recommendation although velocity has none of its own; the *)
(* components that moved account for the movement from a stored snapshot   *)
(* to the one that a recalculation would store now.                        *)
ScoreIsExplained ==
  \A i \in DOMAIN results :
    LET s == results[i]
    IN s.delivery.score # None =>
         /\ s.driver = "none" <=> s.delivery.score = Highest
         /\ s.delivery.score < Highest => Recommendations(s) # {}
         /\ Comparable(Snapshot, s) =>
              LET c == Comparison(Snapshot, s)
              IN SumFunction([n \in ComponentNames |-> c.impacts[n]]) = c.delta

=============================================================================
