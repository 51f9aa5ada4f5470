---------------------------- MODULE ReleaseHealth ----------------------------
(***************************************************************************)
(* From the results of the metric evaluators to what is stored and shown   *)
(* of a release: availability, metric snapshot, signal, gates, risks,      *)
(* breakdown, driver, recommendations and comparisons.                     *)
(*                                                                         *)
(* The evidence of a calculation is a record                               *)
(*   tickets     the number of tickets of the release                      *)
(*   changelog   whether any changelog entry of them is stored             *)
(*   result      value and status of every evaluated metric                *)
(* and the values of a snapshot are a function of the five metrics that    *)
(* make the confidence.                                                    *)
(***************************************************************************)
EXTENDS TicketClassification

-----------------------------------------------------------------------------
(* Thresholds, risk points and the confidence score.                       *)

Red(m, v) == Release[m].critical # None /\ v > Release[m].critical
Yellow(m, v) == ~Red(m, v) /\ Release[m].watch # None /\ v > Release[m].watch
Breached(m, v) == Red(m, v) \/ Yellow(m, v)

(* RISK_WEIGHTS.                                                           *)
RedPoints ==
  [open_blockers |-> 28, open_high_severity_bugs |-> 18, scope_churn_7d_pct |-> 8,
   reopen_rate_pct |-> 6, median_cycle_time_days |-> 0]
YellowPoints ==
  [open_blockers |-> 0, open_high_severity_bugs |-> 9, scope_churn_7d_pct |-> 4,
   reopen_rate_pct |-> 3, median_cycle_time_days |-> 4]

Points(m, v) ==
  IF Red(m, v) THEN RedPoints[m] ELSE IF Yellow(m, v) THEN YellowPoints[m] ELSE 0

RiskPoints(values) == [m \in ConfidenceMetrics |-> Points(m, values[m])]

(* Written out: there are five metrics.                                    *)
Total(points) ==
  points.open_blockers + points.open_high_severity_bugs + points.scope_churn_7d_pct
    + points.reopen_rate_pct + points.median_cycle_time_days

AtLeastZero(n) == IF n < 0 THEN 0 ELSE n
ConfidenceScore(values) == AtLeastZero(100 - Total(RiskPoints(values)))

-----------------------------------------------------------------------------
(* The signal.                                                             *)

Severity ==
  [s \in {"GREEN", "YELLOW", "RED"} |->
     IF s = "RED" THEN 2 ELSE IF s = "YELLOW" THEN 1 ELSE 0]
MostSevere(s, t) == IF Severity[t] > Severity[s] THEN t ELSE s

Band(score) ==
  IF score <= Release["confidence_score"].critical THEN "RED"
  ELSE IF score <= Release["confidence_score"].watch THEN "YELLOW" ELSE "GREEN"

HardRed(values) == \E m \in ConfidenceMetrics : Red(m, values[m])
HardRule(values) ==
  IF HardRed(values) THEN "RED"
  ELSE IF \E m \in ConfidenceMetrics : Yellow(m, values[m]) THEN "YELLOW" ELSE "GREEN"

Optional == FlowMetrics \cup {"scope_churn_7d_pct"}

(* The mutant lets the score alone decide.                                 *)
EvaluateSignalByScore(values) ==
  IF \E m \in Optional : values[m] = None
  THEN IF HardRed(values) THEN "RED" ELSE "INCONCLUSIVE"
  ELSE Band(ConfidenceScore(values))

EvaluateSignal(values) ==
  IF \E m \in Optional : values[m] = None
  THEN IF HardRed(values) THEN "RED" ELSE "INCONCLUSIVE"
  ELSE MostSevere(HardRule(values), Band(ConfidenceScore(values)))

(* Gates: cycle time passes while it is unknown, churn and reopened work   *)
(* have no gate then.                                                      *)
GateMetrics(values) ==
  {m \in ConfidenceMetrics : m \in {"scope_churn_7d_pct", "reopen_rate_pct"}
                               => values[m] # None}
Passed(m, v) ==
  IF m = "median_cycle_time_days" THEN v <= Release[m].watch
  ELSE v <= Release[m].critical
Gates(values) == [m \in GateMetrics(values) |-> Passed(m, values[m])]
ReadinessPct(gates) ==
  (Hundredths(100) * Cardinality({m \in DOMAIN gates : gates[m]}))
    \div Cardinality(DOMAIN gates)

CriticalRisks(values) == {m \in ClassificationMetrics : Red(m, values[m])}
Warnings(values) ==
  {m \in ConfidenceMetrics : Breached(m, values[m])} \ CriticalRisks(values)

(* The largest points first, then this order.                              *)
Rank ==
  [open_blockers |-> 1, open_high_severity_bugs |-> 2, scope_churn_7d_pct |-> 3,
   reopen_rate_pct |-> 4, median_cycle_time_days |-> 5]
BiggestDriver(values) ==
  LET points == RiskPoints(values)
      active == {m \in ConfidenceMetrics : points[m] > 0}
  IN IF active = {} THEN "none"
     ELSE CHOOSE m \in active : \A n \in active :
            \/ points[m] > points[n]
            \/ points[m] = points[n] /\ Rank[m] <= Rank[n]

(* The four components of the score.  Blockers weigh on risk up to its     *)
(* whole allowance, with the rest on delivery.                             *)
RiskAllowance == 20
BreakdownWithoutSpill(values) ==
  LET p == RiskPoints(values)
      blocked == p.open_blockers
  IN [delivery |-> AtLeastZero(30 - p.scope_churn_7d_pct),
      quality |-> AtLeastZero(30 - (p.open_high_severity_bugs + p.reopen_rate_pct)),
      flow |-> AtLeastZero(20 - p.median_cycle_time_days),
      risk |-> AtLeastZero(RiskAllowance - blocked)]

Breakdown(values) ==
  LET p == RiskPoints(values)
      spill == AtLeastZero(p.open_blockers - RiskAllowance)
  IN [delivery |-> AtLeastZero(30 - (p.scope_churn_7d_pct + spill)),
      quality |-> AtLeastZero(30 - (p.open_high_severity_bugs + p.reopen_rate_pct)),
      flow |-> AtLeastZero(20 - p.median_cycle_time_days),
      risk |-> AtLeastZero(RiskAllowance - (p.open_blockers - spill))]
BreakdownTotal(b) == b.delivery + b.quality + b.flow + b.risk

-----------------------------------------------------------------------------
(* Availability: what may be said of each metric, and why.                 *)

Item(status, available) == [status |-> status, available |-> available]

(* The dependencies the stored data satisfies.                             *)
Context(e) ==
  (IF e.tickets > 0 THEN {"ticket_count", "release_assignment"} ELSE {})
  \cup (IF e.result["completed_tickets"].value > 0 THEN {"completed_tickets"} ELSE {})
  \cup (IF e.changelog THEN {"history_changelog"} ELSE {})

DependencyItem(e, m) ==
  LET met == Release[m].needs \subseteq Context(e)
  IN Item(IF met THEN "COMPUTED" ELSE "NOT_COMPUTED", met)

ClassifiedItem(e, m) ==
  LET status == e.result[m].status
  IN Item(status, IF m = "scope_completed_pct" THEN status = "COMPUTED"
                  ELSE e.tickets > 0)

ChurnItem(e, m) ==
  LET status == e.result["scope_churn_7d_pct"].status
  IN Item(status, \/ status = "COMPUTED"
                  \/ status = "PARTIAL" /\ m # "scope_churn_7d_pct")

FlowItem(e, m) == Item(e.result[m].status, e.result[m].status = "COMPUTED")

(* What keeps the confidence from being calculated, and the readiness.     *)
UnavailableInputs(e) ==
  {m \in ClassificationMetrics \cup {"scope_churn_7d_pct"} : e.result[m].status = "PARTIAL"}
  \cup {m \in FlowMetrics : e.result[m].status # "COMPUTED"}
UnavailableGates(e) ==
  {m \in UnavailableInputs(e) : m # "median_cycle_time_days" \/ e.result[m].status = "PARTIAL"}

Withheld(e, inputs) ==
  Item(IF \E m \in inputs : e.result[m].status = "PARTIAL" THEN "PARTIAL"
       ELSE "NOT_COMPUTED", FALSE)

AvailabilityItem(e, m) ==
  IF m \in ClassifiedMetrics THEN ClassifiedItem(e, m)
  ELSE IF m \in ChurnMetrics THEN ChurnItem(e, m)
  ELSE IF m \in FlowMetrics THEN FlowItem(e, m)
  ELSE IF m = "confidence_score" /\ UnavailableInputs(e) # {}
       THEN Withheld(e, UnavailableInputs(e))
  ELSE IF m \in {"gates_passed_count", "readiness_pct"} /\ UnavailableGates(e) # {}
       THEN Withheld(e, UnavailableGates(e))
  ELSE DependencyItem(e, m)

Availability(e) == [m \in ReleaseMetrics |-> AvailabilityItem(e, m)]

ComputationState(tickets, items) ==
  IF tickets = 0 THEN "NOT_COMPUTED"
  ELSE IF \E m \in ReleaseMetrics :
            \/ items[m].status = "PARTIAL"
            \/ ~items[m].available /\ items[m].status # "NOT_APPLICABLE"
       THEN "PARTIAL" ELSE "COMPUTED"

-----------------------------------------------------------------------------
(* The snapshot of a calculation.  It stores the calculated values and the *)
(* availability, whose evaluators look at the stored tickets a second      *)
(* time: e is the evidence of the calculation, inputs that of the          *)
(* availability, Inputs of e and of the later look.                        *)

StoredValues(e) ==
  [m \in ConfidenceMetrics |->
     IF m \in ClassificationMetrics THEN AtLeastZero(e.result[m].value)
     ELSE e.result[m].value]

Inputs(e, later) ==
  [later EXCEPT !.result = [m \in DOMAIN e.result |->
     IF m \in ClassifiedMetrics THEN @[m] ELSE e.result[m]]]

(* The mutant forgets that a flow metric may be unavailable.               *)
ConfidenceOfPartial(e) ==
  IF /\ e.tickets > 0
     /\ \A m \in ClassificationMetrics : e.result[m].status # "PARTIAL"
     /\ e.result["scope_churn_7d_pct"].value # None
     /\ e.result["reopen_rate_pct"].value # None
  THEN ConfidenceScore(StoredValues(e)) ELSE None

Confidence(e) ==
  IF /\ e.tickets > 0
     /\ UnavailableInputs(e) = {}
     /\ e.result["scope_churn_7d_pct"].value # None
     /\ e.result["reopen_rate_pct"].value # None
  THEN ConfidenceScore(StoredValues(e)) ELSE None

PartialInputs(e) == {m \in ConfidenceMetrics : e.result[m].status = "PARTIAL"}

NoGates == [m \in {} |-> TRUE]
StoredGates(e) ==
  IF /\ e.tickets > 0
     /\ PartialInputs(e) = {}
     /\ e.result["reopen_rate_pct"].status = "COMPUTED"
     /\ e.result["scope_churn_7d_pct"].value # None
  THEN Gates(StoredValues(e)) ELSE NoGates

MetricSnapshot(e, inputs, classification) ==
  LET values == StoredValues(e)
      score == Confidence(e)
      gates == StoredGates(e)
  IN [values |-> values,
      completed |-> AtLeastZero(e.result["completed_tickets"].value),
      confidence |-> score,
      confidence_status |-> IF PartialInputs(e) # {} THEN "PARTIAL"
                            ELSE IF score # None THEN "COMPUTED" ELSE "NOT_COMPUTED",
      availability |-> Availability(inputs),
      tickets |-> inputs.tickets,
      risk_points |-> IF /\ UnavailableInputs(e) = {}
                         /\ e.result["scope_churn_7d_pct"].value # None
                      THEN RiskPoints(values) ELSE [m \in ConfidenceMetrics |-> 0],
      driver |-> IF score # None THEN BiggestDriver(values) ELSE "none",
      gates |-> gates,
      readiness |-> IF DOMAIN gates = {} THEN None ELSE ReadinessPct(gates),
      classification |-> classification]

(* recompute_release_signal over the snapshot, as its availability has it. *)
UnavailableConfidence(snapshot) ==
  {m \in ConfidenceMetrics :
     \/ snapshot.availability[m].status = "PARTIAL"
     \/ m \in FlowMetrics /\ snapshot.availability[m].status = "NOT_COMPUTED"}

(* Mutant: cycle time has no gate while it is unknown either.              *)
ShownGatesOfKnown(snapshot) ==
  {m \in GateMetrics(snapshot.values) : m \notin UnavailableConfidence(snapshot)}

ShownGates(snapshot) ==
  {m \in GateMetrics(snapshot.values) :
     \/ m \notin UnavailableConfidence(snapshot)
     \/ m = "median_cycle_time_days" /\ snapshot.availability[m].status = "NOT_COMPUTED"}

SignalOf(snapshot) ==
  IF UnavailableConfidence(snapshot) = {} THEN EvaluateSignal(snapshot.values)
  ELSE IF HardRed(snapshot.values) THEN "RED" ELSE "INCONCLUSIVE"

ReleaseSignal(tickets, snapshot) ==
  IF tickets = 0
  THEN [signal |-> "NOT_COMPUTED", confidence |-> None, gates |-> NoGates,
        primary |-> "none"]
  ELSE [signal |-> SignalOf(snapshot),
        confidence |-> snapshot.confidence,
        gates |-> [m \in ShownGates(snapshot) |-> Passed(m, snapshot.values[m])],
        primary |-> IF UnavailableConfidence(snapshot) = {}
                    THEN BiggestDriver(snapshot.values) ELSE "none"]

OutlookLabel(signal) ==
  CASE signal = "GREEN" -> "ON TRACK"
    [] signal = "YELLOW" -> "NEEDS ATTENTION"
    [] signal = "RED" -> "AT RISK"
    [] signal = "INCONCLUSIVE" -> "INCONCLUSIVE"
    [] OTHER -> "NOT COMPUTED"

(* One recommendation for each breached metric that is available, most     *)
(* valuable first: the impacts fall in the order of the metrics.           *)
RecommendationImpact ==
  [open_blockers |-> 10, open_high_severity_bugs |-> 8, scope_churn_7d_pct |-> 7,
   reopen_rate_pct |-> 6, median_cycle_time_days |-> 4]
Recommendations(snapshot) ==
  {m \in ConfidenceMetrics : /\ snapshot.availability[m].available
                             /\ Breached(m, snapshot.values[m])}

-----------------------------------------------------------------------------
(* Comparison of two snapshots.                                            *)

(* The mutant explains the movement by the points of the new snapshot.     *)
ImpactOfCurrent(current, previous, m) == 0 - current.risk_points[m]
Impact(current, previous, m) == previous.risk_points[m] - current.risk_points[m]

Contributors(current, previous) ==
  {m \in ConfidenceMetrics : /\ current.values[m] # None
                             /\ previous.values[m] # None
                             /\ current.values[m] # previous.values[m]}

Comparable(current, previous) ==
  /\ current.classification = previous.classification
  /\ current.confidence # None
  /\ previous.confidence # None

Comparison(current, previous) ==
  [delta |-> current.confidence - previous.confidence,
   impacts |-> [m \in ConfidenceMetrics |->
                  IF m \in Contributors(current, previous)
                  THEN Impact(current, previous, m) ELSE 0]]

=============================================================================
