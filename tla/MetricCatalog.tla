---------------------------- MODULE MetricCatalog ----------------------------
(***************************************************************************)
(* The metric catalog of the backend (metric_catalog.py): thresholds,      *)
(* dependencies and policies every calculation and every response refers   *)
(* to.  Percentages and days are counted in hundredths, scores in points;  *)
(* a value that was not calculated (Python's None) is None, which exceeds  *)
(* no threshold.                                                           *)
(***************************************************************************)
EXTENDS Integers

None == -1
Hundredths(n) == 100 * n

(* The states of a calculation and of an availability item.                *)
Statuses == {"COMPUTED", "PARTIAL", "NOT_COMPUTED", "NOT_APPLICABLE", "INCONCLUSIVE"}

(* A metric is critical, or to be watched, above a threshold (None: there  *)
(* is no such level); policy says what may be shown of it while evidence   *)
(* is incomplete, needs which dependencies it has.                         *)
Entry(critical, watch, policy, needs) ==
  [critical |-> critical, watch |-> watch, policy |-> policy, needs |-> needs]

Assigned == {"ticket_count", "release_assignment"}
Planned == {"ticket_count", "sprint_assignment"}

-----------------------------------------------------------------------------
(* Releases.                                                               *)

ReleaseOpenBlockers == Entry(0, None, "confirmed_minimum", Assigned)
ReleaseHighBugs == Entry(1, 0, "confirmed_minimum", Assigned)
ReleaseCompletedPct == Entry(None, None, "unavailable", Assigned)
ReleaseCompleted == Entry(None, None, "confirmed_minimum", Assigned)
ReleaseChurn ==
  Entry(Hundredths(20), Hundredths(10), "unavailable", Assigned \cup {"history_changelog"})
ReleaseAdded ==
  Entry(None, None, "confirmed_minimum", Assigned \cup {"history_changelog"})
ReleaseRemoved ==
  Entry(None, None, "confirmed_minimum", Assigned \cup {"history_changelog"})
ReleaseCycleTime ==
  Entry(None, Hundredths(7), "unavailable",
        Assigned \cup {"completed_tickets", "history_changelog"})
ReleaseReopen ==
  Entry(Hundredths(15), Hundredths(10), "unavailable", Assigned \cup {"history_changelog"})
(* The score is the one metric that is bad when low: RED up to critical,   *)
(* YELLOW up to watch.                                                     *)
ReleaseConfidence == Entry(60, 90, "unavailable", Assigned)
ReleaseGatesPassed == Entry(None, None, "unavailable", Assigned)
ReleaseReadiness == Entry(None, None, "unavailable", Assigned)

Release ==
  [open_blockers |-> ReleaseOpenBlockers,
   open_high_severity_bugs |-> ReleaseHighBugs,
   scope_completed_pct |-> ReleaseCompletedPct,
   completed_tickets |-> ReleaseCompleted,
   scope_churn_7d_pct |-> ReleaseChurn,
   scope_added_7d_count |-> ReleaseAdded,
   scope_removed_7d_count |-> ReleaseRemoved,
   median_cycle_time_days |-> ReleaseCycleTime,
   reopen_rate_pct |-> ReleaseReopen,
   confidence_score |-> ReleaseConfidence,
   gates_passed_count |-> ReleaseGatesPassed,
   readiness_pct |-> ReleaseReadiness]

ReleaseMetrics == DOMAIN Release

ClassificationMetrics == {"open_blockers", "open_high_severity_bugs"}
ClassifiedMetrics ==
  ClassificationMetrics \cup {"completed_tickets", "scope_completed_pct"}
FlowMetrics == {"median_cycle_time_days", "reopen_rate_pct"}
ChurnMetrics == {"scope_churn_7d_pct", "scope_added_7d_count", "scope_removed_7d_count"}

(* What the release confidence is made of.                                 *)
ConfidenceMetrics ==
  ClassificationMetrics \cup FlowMetrics \cup {"scope_churn_7d_pct"}

-----------------------------------------------------------------------------
(* Sprints.                                                                *)

SprintCommitted == Entry(None, None, "not_supported", Planned)
SprintCompletedPct == Entry(None, None, "unavailable", Planned \cup {"ticket_status"})
SprintCreep ==
  Entry(Hundredths(20), Hundredths(10), "unavailable",
        {"sprint_duration", "project_changelog_completeness", "sprint_assignment"})
SprintOpenBlockers == Entry(None, None, "confirmed_minimum", Planned)
SprintHighBugs == Entry(None, None, "confirmed_minimum", Planned)
SprintBugsCreated == Entry(None, None, "confirmed_minimum", Planned)
SprintInProgress ==
  Entry(None, None, "confirmed_minimum", Planned \cup {"ticket_status"})
SprintNotStarted ==
  Entry(None, None, "confirmed_minimum", Planned \cup {"ticket_status"})
SprintRollover ==
  Entry(None, None, "confirmed_minimum", Planned \cup {"ticket_status"})
SprintCycleTime ==
  Entry(None, None, "unavailable", Planned \cup {"completed_tickets", "history_changelog"})
SprintReopen == Entry(None, None, "unavailable", Planned \cup {"history_changelog"})
(* Watched from the threshold on, critical above it.                       *)
SprintWorkload ==
  Entry(Hundredths(50), Hundredths(35), "calculated_from_available_data",
        Planned \cup {"ticket_status", "story_points", "assignee_identity"})
SprintDeliveryConfidence ==
  Entry(None, None, "calculated_from_available_data",
        Planned \cup {"story_points", "ticket_status", "blocker_classification",
                      "sprint_duration", "project_changelog_completeness"})

Sprint ==
  [committed_scope |-> SprintCommitted,
   completed_scope_pct |-> SprintCompletedPct,
   scope_creep_pct |-> SprintCreep,
   open_blockers |-> SprintOpenBlockers,
   open_high_severity_bugs |-> SprintHighBugs,
   bugs_created_during_sprint |-> SprintBugsCreated,
   in_progress_count |-> SprintInProgress,
   not_started_count |-> SprintNotStarted,
   rollover_count |-> SprintRollover,
   median_cycle_time_days |-> SprintCycleTime,
   reopen_rate_pct |-> SprintReopen,
   workload_concentration_pct |-> SprintWorkload,
   delivery_confidence_score |-> SprintDeliveryConfidence]

SprintMetrics == DOMAIN Sprint

(* The share of tickets that must carry story points.                      *)
MinimumCoverage == Hundredths(50)

=============================================================================
