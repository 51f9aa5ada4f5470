-------------------------- MODULE ReleaseResponses --------------------------
(***************************************************************************)
(* What the API says of a release from the stored snapshots and signals:   *)
(* the metrics, the signal with its outlook, charts, comparisons and the   *)
(* history of changes (release_metrics_response_service.py,                *)
(* release_signal_response_service.py).  Every stored result has the       *)
(* present ruleset; a day is DayLength ticks of the clock.                 *)
(***************************************************************************)
EXTENDS MetricRecompute

CONSTANT DayLength
ASSUME DayLengthAssumption == DayLength \in Nat \ {0}

Nowhere == 0               \* no such snapshot

(* The queries of MetricRepository: the order of snapshots, and the last   *)
(* one of those that qualify.                                              *)
Earlier(stored, i, j) ==
  \/ stored[i].at < stored[j].at
  \/ stored[i].at = stored[j].at /\ i < j
LastOf(stored, indices) ==
  IF indices = {} THEN Nowhere
  ELSE CHOOSE i \in indices : \A j \in indices \ {i} : Earlier(stored, j, i)
Previous(stored, i) == LastOf(stored, {j \in DOMAIN stored : Earlier(stored, j, i)})
AtOrBefore(stored, t) == LastOf(stored, {j \in DOMAIN stored : stored[j].at <= t})
BaselineOf(stored, i, baseline) ==
  IF baseline = "previous" THEN Previous(stored, i)
  ELSE AtOrBefore(stored, stored[i].at - DayLength)

(* Why two snapshots cannot be compared, in the order the code asks; the   *)
(* mutant forgets to ask.                                                  *)
UnavailableReasonOfScores(current, previous) ==
  IF current.confidence = None \/ previous.confidence = None THEN "unavailable"
  ELSE "comparable"

UnavailableReason(current, previous) ==
  IF current.classification # previous.classification THEN "classification"
  ELSE IF current.confidence # None /\ previous.confidence # None THEN "comparable"
  ELSE IF "PARTIAL" \in {current.confidence_status, previous.confidence_status}
       THEN "inconclusive" ELSE "unavailable"

(* GET comparison of the latest snapshot with a baseline.                  *)
ComparisonResponse(stored, baseline) ==
  LET current == LatestIndex(stored)
      base == BaselineOf(stored, current, baseline)
      reason == IF base = Nowhere THEN "no baseline"
                ELSE UnavailableReason(stored[current], stored[base])
  IN [reason |-> reason,
      delta |-> IF reason = "comparable"
                THEN stored[current].confidence - stored[base].confidence ELSE 0,
      contributors |-> IF reason = "comparable"
                       THEN Contributors(stored[current], stored[base]) ELSE {}]

(* One item of the history of changes.                                     *)
HistoryItem(stored, i) ==
  LET previous == Previous(stored, i)
      reason == IF previous = Nowhere THEN "baseline"
                ELSE UnavailableReason(stored[i], stored[previous])
  IN [reason |-> reason,
      confidence |-> stored[i].confidence,
      delta |-> IF reason = "comparable"
                THEN stored[i].confidence - stored[previous].confidence ELSE 0]

(* _stored_metric_value: what a chart shows of a metric.                   *)
Shown(snapshot, m) ==
  IF snapshot.availability[m].available THEN snapshot.values[m] ELSE None

(* GET metrics: tickets is the number of tickets of the release now; flow  *)
(* metrics are shown as they are stored.                                   *)
MetricsResponse(snapshot, tickets) ==
  [values |-> [m \in ConfidenceMetrics |->
                 IF m \in FlowMetrics THEN snapshot.values[m] ELSE Shown(snapshot, m)],
   confidence |-> IF tickets > 0 THEN snapshot.confidence ELSE None,
   status |-> ComputationState(snapshot.tickets, snapshot.availability),
   breakdown |-> IF snapshot.confidence # None THEN Breakdown(snapshot.values) ELSE None,
   driver |-> snapshot.driver,
   recommendations |-> IF tickets > 0 THEN Recommendations(snapshot) ELSE {}]

(* The changes of the last day, against the last snapshot before it.       *)
Delta(v, w) == [known |-> v # None /\ w # None, by |-> IF v # None /\ w # None THEN v - w ELSE 0]
Last24Hours(stored) ==
  LET current == LatestIndex(stored)
      base == AtOrBefore(stored, stored[current].at - DayLength)
  IN [base |-> base,
      confidence |-> IF base = Nowhere THEN Delta(None, None)
                     ELSE Delta(stored[current].confidence, stored[base].confidence)]

(* GET signal: the last signal beside the latest snapshot.                 *)
SignalResponse(known, stored, tickets) ==
  LET row == known[Len(known)]
      snapshot == stored[LatestIndex(stored)]
      matches == row.snapshot = LatestIndex(stored)
      none == tickets = 0
  IN [signal |-> IF none THEN "NOT_COMPUTED" ELSE row.signal,
      label |-> OutlookLabel(IF none THEN "NOT_COMPUTED" ELSE row.signal),
      confidence |-> IF none THEN None ELSE row.confidence,
      breakdown |-> IF none \/ snapshot.confidence = None THEN None
                    ELSE Breakdown(snapshot.values),
      driver |-> IF none THEN "none" ELSE snapshot.driver,
      gates |-> IF none THEN NoGates ELSE row.gates,
      risks |-> IF none \/ ~matches THEN {}
                ELSE CriticalRisks(snapshot.values) \cup Warnings(snapshot.values),
      primary |-> IF none \/ ~matches THEN "none" ELSE row.primary,
      change24h |-> IF none THEN Delta(None, None) ELSE Last24Hours(stored).confidence]

-----------------------------------------------------------------------------
(* Properties.                                                             *)

TicketCount == Cardinality(DOMAIN database.tickets)

(* The views of one release agree although different services assemble     *)
(* them from what different services calculated: the signal has the score  *)
(* of the metrics, the components of the score, its driver as primary risk *)
(* and the gates of the snapshot; what is shown RED can be acted upon.     *)
ResponsesAgree ==
  snapshots # <<>> /\ ~Latest.disturbed /\ Latest.tickets = TicketCount =>
    LET m == MetricsResponse(Latest, TicketCount)
        s == SignalResponse(signals, snapshots, TicketCount)
    IN /\ s.confidence = m.confidence
       /\ s.confidence # None => /\ BreakdownTotal(s.breakdown) = s.confidence
                                 /\ s.primary = s.driver
                                 /\ s.risks # {} <=> s.confidence < 100
       /\ DOMAIN Latest.gates # {} => s.gates = Latest.gates
       /\ s.signal = "RED" => m.recommendations # {}
       /\ s.signal \in {"GREEN", "NOT_COMPUTED"} => m.recommendations = {}
       /\ m.status = "COMPUTED" => s.label \notin {"INCONCLUSIVE", "NOT COMPUTED"}

(* PRODUCT_RULES.md: "A comparison between snapshots with different        *)
(* effective classification sets is unavailable": no view compares scores  *)
(* calculated under different classifications.  The comparison endpoint    *)
(* and the history do not.                                                 *)
ComparisonsRespectClassification ==
  /\ \A i \in DOMAIN snapshots :
       /\ HistoryItem(snapshots, i).reason = "comparable" =>
            snapshots[i].classification =
              snapshots[Previous(snapshots, i)].classification
  /\ snapshots # <<>> => \A b \in {"previous", "24h"} :
       LET c == ComparisonResponse(snapshots, b)
       IN c.reason = "comparable" =>
            /\ Latest.classification =
                 snapshots[BaselineOf(snapshots, LatestIndex(snapshots), b)].classification
            /\ c.delta # 0 => c.contributors # {}

(* The same of the changes of the last day shown with the signal.          *)
DailyChangeRespectsClassification ==
  snapshots # <<>> /\ Last24Hours(snapshots).confidence.known =>
    Latest.classification = snapshots[Last24Hours(snapshots).base].classification

=============================================================================
