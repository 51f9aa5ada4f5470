------------------------ MODULE ReleaseResponsesProofs ------------------------
(***************************************************************************)
(* Theorems about what is stored of a release and what the API says of it, *)
(* for any tickets, classifications, evaluated histories and order of      *)
(* commits: scores and their changes are explained, availability, signals  *)
(* and responses agree with the stored values.                             *)
(***************************************************************************)
EXTENDS ReleaseResponses, MetricRecomputeProofs, FiniteSetTheorems

-----------------------------------------------------------------------------
(* Thresholds and risk points.                                             *)

(* The five metrics of the confidence, written out.                        *)
LEMMA ConfidenceMetricsAre ==
  ConfidenceMetrics =
    {"open_blockers", "open_high_severity_bugs", "scope_churn_7d_pct", "reopen_rate_pct",
     "median_cycle_time_days"}
BY DEF ConfidenceMetrics, ClassificationMetrics, FlowMetrics

LEMMA ConfidenceMetricsFinite == IsFiniteSet(ConfidenceMetrics)
<1> DEFINE one == {} \cup {"open_blockers"}
           two == one \cup {"open_high_severity_bugs"}
           three == two \cup {"scope_churn_7d_pct"}
           four == three \cup {"reopen_rate_pct"}
           five == four \cup {"median_cycle_time_days"}
<1>1. ConfidenceMetrics = five
  BY ConfidenceMetricsAre
<1>2. IsFiniteSet(one)
  BY FS_EmptySet, FS_AddElement
<1>3. IsFiniteSet(two)
  <2> HIDE DEF one
  <2> QED
    BY <1>2, FS_AddElement
<1>4. IsFiniteSet(three)
  <2> HIDE DEF two
  <2> QED
    BY <1>3, FS_AddElement
<1>5. IsFiniteSet(four)
  <2> HIDE DEF three
  <2> QED
    BY <1>4, FS_AddElement
<1> HIDE DEF four
<1> QED
  BY <1>1, <1>5, FS_AddElement

LEMMA Thresholds ==
  ASSUME NEW v
  PROVE  /\ Red("open_blockers", v) <=> v > 0
         /\ ~Yellow("open_blockers", v)
         /\ Red("open_high_severity_bugs", v) <=> v > 1
         /\ Yellow("open_high_severity_bugs", v) <=> ~(v > 1) /\ v > 0
         /\ Red("scope_churn_7d_pct", v) <=> v > 2000
         /\ Yellow("scope_churn_7d_pct", v) <=> ~(v > 2000) /\ v > 1000
         /\ Red("reopen_rate_pct", v) <=> v > 1500
         /\ Yellow("reopen_rate_pct", v) <=> ~(v > 1500) /\ v > 1000
         /\ ~Red("median_cycle_time_days", v)
         /\ Yellow("median_cycle_time_days", v) <=> v > 700
<1>1. /\ Release["open_blockers"].critical = 0 /\ Release["open_blockers"].watch = None
      /\ Release["open_high_severity_bugs"].critical = 1
      /\ Release["open_high_severity_bugs"].watch = 0
  BY DEF Release, ReleaseOpenBlockers, ReleaseHighBugs, Entry
<1>2. /\ Release["scope_churn_7d_pct"].critical = 2000
      /\ Release["scope_churn_7d_pct"].watch = 1000
      /\ Release["reopen_rate_pct"].critical = 1500
      /\ Release["reopen_rate_pct"].watch = 1000
  BY DEF Release, ReleaseChurn, ReleaseReopen, Entry, Hundredths
<1>3. /\ Release["median_cycle_time_days"].critical = None
      /\ Release["median_cycle_time_days"].watch = 700
  BY DEF Release, ReleaseCycleTime, Entry, Hundredths
<1> QED
  BY <1>1, <1>2, <1>3 DEF Red, Yellow, None

(* What can be taken from a score.                                         *)
LEMMA PointsAre ==
  ASSUME NEW values
  PROVE  LET p == RiskPoints(values)
         IN /\ DOMAIN p = ConfidenceMetrics
            /\ \A m \in ConfidenceMetrics : p[m] = Points(m, values[m])
            /\ p.open_blockers \in {0, 28}
            /\ p.open_high_severity_bugs \in {0, 9, 18}
            /\ p.scope_churn_7d_pct \in {0, 4, 8}
            /\ p.reopen_rate_pct \in {0, 3, 6}
            /\ p.median_cycle_time_days \in {0, 4}
<1> DEFINE p == RiskPoints(values)
<1>1. DOMAIN p = ConfidenceMetrics /\ \A m \in ConfidenceMetrics : p[m] = Points(m, values[m])
  BY DEF RiskPoints
<1>2. \A v : /\ Points("open_blockers", v) \in {0, 28}
             /\ Points("open_high_severity_bugs", v) \in {0, 9, 18}
             /\ Points("scope_churn_7d_pct", v) \in {0, 4, 8}
             /\ Points("reopen_rate_pct", v) \in {0, 3, 6}
             /\ Points("median_cycle_time_days", v) \in {0, 4}
  BY DEF Points, RedPoints, YellowPoints
<1> HIDE DEF p
<1> QED
  BY <1>1, <1>2, ConfidenceMetricsAre DEF p

(* A metric takes points exactly when it breaches a threshold.             *)
LEMMA PointsOfBreaches ==
  ASSUME NEW m \in ConfidenceMetrics, NEW v
  PROVE  Breached(m, v) <=> Points(m, v) > 0
BY Thresholds, ConfidenceMetricsAre DEF Breached, Points, RedPoints, YellowPoints

(* The score is never cut off at zero, and the components add up to it.    *)
LEMMA ScoreAddsUp ==
  ASSUME NEW values
  PROVE  /\ ConfidenceScore(values) = 100 - Total(RiskPoints(values))
         /\ ConfidenceScore(values) \in 36 .. 100
         /\ BreakdownTotal(Breakdown(values)) = ConfidenceScore(values)
BY PointsAre DEF ConfidenceScore, Breakdown, BreakdownTotal, RiskAllowance, AtLeastZero, Total

-----------------------------------------------------------------------------
(* Every CHOOSE of the largest has one: least and greatest elements.       *)

LEMMA SmallestOf ==
  ASSUME NEW S \in SUBSET Nat, S # {}
  PROVE  \E m \in S : \A n \in S : m <= n
<1> DEFINE T == {0 .. n : n \in S}
<1>1. T \subseteq FiniteSubsetsOf(Nat) /\ T # {}
  <2>1. \A n \in S : 0 .. n \in SUBSET Nat /\ IsFiniteSet(0 .. n)
    BY FS_Interval
  <2> QED
    BY <2>1 DEF FiniteSubsetsOf
<1>2. \E x \in T : \A y \in T : ~ (<<y, x>> \in StrictSubsetOrdering(Nat))
  BY <1>1, FS_StrictSubsetOrderingWellFounded, WFMin
<1>3. PICK m \in S : \A n \in S : ~ (<<0 .. n, 0 .. m>> \in StrictSubsetOrdering(Nat))
  BY <1>2
<1>4. ASSUME NEW n \in S, n < m
      PROVE  FALSE
  <2>1. m \in 0 .. m /\ m \notin 0 .. n
    BY <1>4
  <2>2. 0 .. n \in SUBSET Nat /\ 0 .. m \in SUBSET Nat /\ 0 .. n \subseteq 0 .. m
    BY <1>4
  <2> QED
    BY <2>1, <2>2, <1>3 DEF StrictSubsetOrdering
<1> QED
  BY <1>4

LEMMA GreatestOf ==
  ASSUME NEW S \in SUBSET Nat, S # {}, NEW n \in Nat, \A k \in S : k <= n
  PROVE  \E m \in S : \A k \in S : m >= k
<1> DEFINE T == {n - k : k \in S}
<1>1. T \in SUBSET Nat
  OBVIOUS
<1>2. T # {}
  <2>1. PICK k \in S : TRUE
    OBVIOUS
  <2>2. n - k \in T
    BY <2>1
  <2> QED
    BY <2>2
<1>3. \E m \in T : \A k \in T : m <= k
  <2> HIDE DEF T
  <2> QED
    BY <1>1, <1>2, SmallestOf
<1>4. PICK m \in S : \A k \in S : n - m <= n - k
  BY <1>3
<1>5. \A k \in S : m >= k
  BY <1>4
<1> QED
  BY <1>5

(* Among bounded keys one is the largest.                                   *)
LEMMA LargestKey ==
  ASSUME NEW S, S # {}, NEW n \in Nat, NEW key \in [S -> 0 .. n]
  PROVE  \E a \in S : \A b \in S : key[a] >= key[b]
<1> DEFINE K == {key[a] : a \in S}
<1>1. K \in SUBSET Nat /\ \A k \in K : k <= n
  OBVIOUS
<1>2. K # {}
  <2>1. PICK a \in S : TRUE
    OBVIOUS
  <2>2. key[a] \in K
    BY <2>1
  <2> QED
    BY <2>2
<1>3. \E k \in K : \A l \in K : k >= l
  <2> HIDE DEF K
  <2> QED
    BY <1>1, <1>2, GreatestOf
<1> QED
  BY <1>3

(* Points first, rank second, in one number.                               *)
LEMMA LeadingKey ==
  ASSUME NEW p \in 0 .. 28, NEW q \in 0 .. 28, NEW i \in 1 .. 5, NEW j \in 1 .. 5,
         10 * p + 5 - i >= 10 * q + 5 - j
  PROVE  \/ p > q
         \/ p = q /\ i <= j
OBVIOUS

(* A driver is named exactly when something was taken from the score.      *)
LEMMA DriverIsNamed ==
  ASSUME NEW values
  PROVE  BiggestDriver(values) = "none" <=> ConfidenceScore(values) = 100
<1> DEFINE points == RiskPoints(values)
           active == {m \in ConfidenceMetrics : points[m] > 0}
           key == [m \in active |-> 10 * points[m] + 5 - Rank[m]]
           Leads(m) == \A n \in active : \/ points[m] > points[n]
                                         \/ points[m] = points[n] /\ Rank[m] <= Rank[n]
<1>1. \A m \in ConfidenceMetrics : points[m] \in 0 .. 28 /\ Rank[m] \in 1 .. 5
  BY PointsAre, ConfidenceMetricsAre DEF Rank
<1>2. active = {} <=> ConfidenceScore(values) = 100
  <2>1. Total(points) = 0 <=> /\ points.open_blockers = 0
                              /\ points.open_high_severity_bugs = 0
                              /\ points.scope_churn_7d_pct = 0
                              /\ points.reopen_rate_pct = 0
                              /\ points.median_cycle_time_days = 0
    BY PointsAre DEF Total
  <2>2. ConfidenceScore(values) = 100 - Total(points) /\ Total(points) \in Int
    BY ScoreAddsUp, PointsAre DEF Total
  <2>3. Total(points) = 0 <=> \A m \in ConfidenceMetrics : points[m] = 0
    BY <2>1, ConfidenceMetricsAre
  <2> QED
    BY <1>1, <2>2, <2>3
<1> HIDE DEF points
<1>3. active # {} => \E m \in active : Leads(m)
  <2>1. SUFFICES ASSUME active # {}
                 PROVE  \E m \in active : Leads(m)
    OBVIOUS
  <2>2. \A m \in active : 10 * points[m] + 5 - Rank[m] \in 0 .. 300
    BY <1>1
  <2>3. key \in [active -> 0 .. 300]
    BY <2>2
  <2>4. PICK m \in active : \A n \in active : key[m] >= key[n]
    <3> HIDE DEF active, key
    <3>1. \A n \in Nat : \A k \in [active -> 0 .. n] :
            \E a \in active : \A b \in active : k[a] >= k[b]
      BY <2>1, LargestKey
    <3>2. 300 \in Nat
      OBVIOUS
    <3> QED
      BY <2>3, <3>1, <3>2
  <2>5. ASSUME NEW n \in active
        PROVE  \/ points[m] > points[n]
               \/ points[m] = points[n] /\ Rank[m] <= Rank[n]
    <3>1. 10 * points[m] + 5 - Rank[m] >= 10 * points[n] + 5 - Rank[n]
      BY <2>4
    <3>2. /\ points[m] \in 0 .. 28 /\ Rank[m] \in 1 .. 5
          /\ points[n] \in 0 .. 28 /\ Rank[n] \in 1 .. 5
      BY <1>1
    <3> QED
      BY <3>1, <3>2, LeadingKey
  <2> QED
    BY <2>5
<1>4. BiggestDriver(values) = IF active = {} THEN "none" ELSE CHOOSE m \in active : Leads(m)
  BY DEF BiggestDriver, points
<1>5. "none" \notin active
  BY ConfidenceMetricsAre
<1> HIDE DEF active, Leads
<1>6. active # {} => (CHOOSE m \in active : Leads(m)) \in active
  BY <1>3
<1> QED
  BY <1>2, <1>4, <1>5, <1>6

-----------------------------------------------------------------------------
(* What evaluators say of one database.                                    *)

SoundCounts(e) ==
  \A m \in ClassificationMetrics : e.result[m].value \in Nat \cup {None}
SoundEvents(e) ==
  \A m \in EventMetrics :
    /\ e.result[m].value \in Nat \cup {None}
    /\ e.result[m].status \in {"COMPUTED", "PARTIAL", "NOT_COMPUTED"}
    /\ e.result[m].status = "COMPUTED" <=> e.result[m].value # None

(* The results of evaluators that all looked at the same tickets.          *)
SoundEvidence(e) ==
  /\ e.tickets \in Nat
  /\ SoundCounts(e)
  /\ SoundEvents(e)
  /\ \A m \in ClassificationMetrics :
       IF e.tickets = 0 THEN e.result[m].status = "NOT_COMPUTED"
       ELSE e.result[m].status \in {"COMPUTED", "PARTIAL"} /\ e.result[m].value \in Nat
  /\ e.tickets # 0 => e.result["scope_churn_7d_pct"].status \in {"COMPUTED", "PARTIAL"}

LEMMA CountsAreSound ==
  ASSUME NEW scope, IsFiniteSet(scope), NEW counted \in SUBSET scope, NEW indeterminate
  PROVE  /\ Count(scope, counted, indeterminate).value \in Nat \cup {None}
         /\ scope = {} => Count(scope, counted, indeterminate).status = "NOT_COMPUTED"
         /\ scope # {} =>
              /\ Count(scope, counted, indeterminate).status \in {"COMPUTED", "PARTIAL"}
              /\ Count(scope, counted, indeterminate).value \in Nat
<1>1. Cardinality(counted) \in Nat
  BY FS_Subset, FS_CardinalityType
<1> QED
  BY <1>1 DEF Count

LEMMA ClassificationIsSound ==
  ASSUME NEW c, NEW d, SoundDatabase(d), NEW m \in ClassificationMetrics
  PROVE  LET found == ClassificationResults(c, d.tickets)[m]
         IN /\ found.value \in Nat \cup {None}
            /\ DOMAIN d.tickets = {} => found.status = "NOT_COMPUTED"
            /\ DOMAIN d.tickets # {} => /\ found.status \in {"COMPUTED", "PARTIAL"}
                                        /\ found.value \in Nat
<1> DEFINE scope == DOMAIN d.tickets
           found == ClassificationResults(c, d.tickets)[m]
<1>1. IsFiniteSet(scope)
  BY DEF SoundDatabase
<1>2. \E counted \in SUBSET scope, indeterminate \in SUBSET scope :
        found = Count(scope, counted, indeterminate)
  <2>1. CASE m = "open_blockers"
    <3>1. found = Count(scope, {k \in scope : OpenBlocker(c, d.tickets[k])},
                        {k \in scope : BlockerIndeterminate(c, d.tickets[k])})
      BY <2>1 DEF ClassificationResults, OpenBlockers
    <3> QED
      BY <3>1
  <2>2. CASE m = "open_high_severity_bugs"
    <3>1. found = Count(scope, {k \in scope : OpenHighBug(c, d.tickets[k])},
                        {k \in scope : HighBugIndeterminate(c, d.tickets[k])})
      BY <2>2 DEF ClassificationResults, OpenHighSeverityBugs
    <3> QED
      BY <3>1
  <2> QED
    BY <2>1, <2>2 DEF ClassificationMetrics
<1> HIDE DEF scope, found
<1>3. /\ found.value \in Nat \cup {None}
      /\ scope = {} => found.status = "NOT_COMPUTED"
      /\ scope # {} => found.status \in {"COMPUTED", "PARTIAL"} /\ found.value \in Nat
  BY <1>1, <1>2, CountsAreSound
<1> QED
  BY <1>3 DEF scope, found

LEMMA EvidenceIsSound ==
  ASSUME NEW c, NEW d, SoundDatabase(d)
  PROVE  SoundEvidence(Evidence(c, d))
<1> DEFINE e == Evidence(c, d)
<1>1. /\ e.tickets \in Nat
      /\ e.tickets = 0 <=> DOMAIN d.tickets = {}
  <2>1. IsFiniteSet(DOMAIN d.tickets)
    BY DEF SoundDatabase
  <2>2. e.tickets = Cardinality(DOMAIN d.tickets)
    BY DEF Evidence
  <2> QED
    BY <2>1, <2>2, FS_CardinalityType, FS_EmptySet
<1>2. /\ \A m \in ClassificationMetrics : e.result[m] = ClassificationResults(c, d.tickets)[m]
      /\ \A m \in EventMetrics : e.result[m] = d.events[m]
  <2>1. /\ \A m \in ClassifiedMetrics : e.result[m] = ClassificationResults(c, d.tickets)[m]
        /\ \A m \in EventMetrics : e.result[m] = d.events[m]
    BY EvidenceOfDatabase
  <2> QED
    BY <2>1 DEF ClassifiedMetrics
<1> HIDE DEF e
<1>3. SoundCounts(e)
  <2>1. \A m \in ClassificationMetrics :
          ClassificationResults(c, d.tickets)[m].value \in Nat \cup {None}
    BY ClassificationIsSound
  <2> QED
    BY <1>2, <2>1 DEF SoundCounts
<1>4. SoundEvents(e)
  BY <1>2 DEF SoundDatabase, SoundEvents
<1>5. \A m \in ClassificationMetrics :
        IF e.tickets = 0 THEN e.result[m].status = "NOT_COMPUTED"
        ELSE e.result[m].status \in {"COMPUTED", "PARTIAL"} /\ e.result[m].value \in Nat
  <2> TAKE m \in ClassificationMetrics
  <2> DEFINE found == ClassificationResults(c, d.tickets)[m]
  <2>1. e.result[m] = found
    BY <1>2
  <2>2. /\ DOMAIN d.tickets = {} => found.status = "NOT_COMPUTED"
        /\ DOMAIN d.tickets # {} => /\ found.status \in {"COMPUTED", "PARTIAL"}
                                    /\ found.value \in Nat
    BY ClassificationIsSound
  <2> HIDE DEF found
  <2> QED
    BY <1>1, <2>1, <2>2
<1>6. e.tickets # 0 => e.result["scope_churn_7d_pct"].status \in {"COMPUTED", "PARTIAL"}
  BY <1>1, <1>2 DEF SoundDatabase, EventMetrics
<1> QED
  BY <1>1, <1>3, <1>4, <1>5, <1>6 DEF SoundEvidence, e

-----------------------------------------------------------------------------
(* A stored snapshot.                                                      *)

(* What holds of it whatever was committed while it was calculated: a      *)
(* score is the score of the stored values, all of which are known.        *)
Calculated(s) ==
  /\ \A m \in ConfidenceMetrics : s.values[m] \in Nat \cup {None}
  /\ s.confidence # None =>
       /\ s.confidence = ConfidenceScore(s.values)
       /\ \A m \in ConfidenceMetrics : s.values[m] # None
       /\ s.risk_points = RiskPoints(s.values)
       /\ s.driver = BiggestDriver(s.values)

LEMMA SnapshotIsCalculated ==
  ASSUME NEW e, NEW inputs, NEW c, SoundCounts(e), SoundEvents(e)
  PROVE  Calculated(MetricSnapshot(e, inputs, c))
<1> DEFINE s == MetricSnapshot(e, inputs, c)
           values == StoredValues(e)
<1>1. /\ s.values = values
      /\ s.confidence = Confidence(e)
      /\ s.driver = IF Confidence(e) # None THEN BiggestDriver(values) ELSE "none"
      /\ s.risk_points = IF /\ UnavailableInputs(e) = {}
                            /\ e.result["scope_churn_7d_pct"].value # None
                         THEN RiskPoints(values) ELSE [m \in ConfidenceMetrics |-> 0]
  BY DEF MetricSnapshot
<1>2. /\ \A m \in ClassificationMetrics : values[m] \in Nat
      /\ \A m \in EventMetrics : values[m] = e.result[m].value
  <2>1. \A m \in ClassificationMetrics : values[m] = AtLeastZero(e.result[m].value)
    BY DEF StoredValues, ConfidenceMetrics
  <2>2. \A m \in EventMetrics : values[m] = e.result[m].value
    BY DEF StoredValues, ConfidenceMetrics, EventMetrics, ClassificationMetrics, FlowMetrics
  <2> QED
    BY <2>1, <2>2 DEF SoundCounts, AtLeastZero, None
<1> HIDE DEF s, values
<1>3. \A m \in ConfidenceMetrics : m \in ClassificationMetrics \/ m \in EventMetrics
  BY DEF ConfidenceMetrics, EventMetrics
<1>4. \A m \in ConfidenceMetrics : values[m] \in Nat \cup {None}
  BY <1>2, <1>3 DEF SoundEvents
<1>5. ASSUME s.confidence # None
      PROVE  /\ s.confidence = ConfidenceScore(values)
             /\ \A m \in ConfidenceMetrics : values[m] # None
             /\ s.risk_points = RiskPoints(values)
             /\ s.driver = BiggestDriver(values)
  <2>1. /\ UnavailableInputs(e) = {}
        /\ e.result["scope_churn_7d_pct"].value # None
        /\ s.confidence = ConfidenceScore(values)
    BY <1>1, <1>5 DEF Confidence, values
  <2>2. \A m \in FlowMetrics : e.result[m].value # None
    BY <2>1 DEF UnavailableInputs, SoundEvents, EventMetrics
  <2>3. \A m \in EventMetrics : values[m] # None
    BY <1>2, <2>1, <2>2 DEF EventMetrics
  <2>4. \A m \in ClassificationMetrics : values[m] # None
    BY <1>2 DEF None
  <2> QED
    BY <1>1, <1>3, <1>5, <2>1, <2>3, <2>4
<1> QED
  BY <1>1, <1>4, <1>5 DEF Calculated, s

(* What holds of a snapshot of one database: its availability, score and   *)
(* gates say the same.                                                     *)
Agreeing(s) ==
  /\ s.tickets \in Nat
  /\ AvailabilityMatches(s)
  /\ s.tickets # 0 =>
       /\ UnavailableConfidence(s) = {} <=> s.confidence # None
       /\ \A m \in ConfidenceMetrics :
            Red(m, s.values[m]) => s.availability[m].available
  /\ DOMAIN s.gates # {} =>
       /\ s.tickets # 0
       /\ s.gates = [m \in ShownGates(s) |-> Passed(m, s.values[m])]

SnapshotOf(c, d) == MetricSnapshot(Evidence(c, d), Evidence(c, d), c)

LEMMA ItemFields ==
  ASSUME NEW status, NEW available \in BOOLEAN, NEW item, item = Item(status, available)
  PROVE  item.status = status /\ (item.available <=> available)
BY DEF Item

LEMMA AvailabilityIs ==
  ASSUME NEW e
  PROVE  LET a == Availability(e)
         IN /\ \A m \in ConfidenceMetrics : a[m].status = e.result[m].status
            /\ \A m \in ClassificationMetrics : a[m].available <=> e.tickets > 0
            /\ \A m \in EventMetrics : a[m].available <=> e.result[m].status = "COMPUTED"
            /\ a["confidence_score"] =
                 IF UnavailableInputs(e) # {} THEN Withheld(e, UnavailableInputs(e))
                 ELSE DependencyItem(e, "confidence_score")
            /\ a["readiness_pct"] =
                 IF UnavailableGates(e) # {} THEN Withheld(e, UnavailableGates(e))
                 ELSE DependencyItem(e, "readiness_pct")
<1> DEFINE a == Availability(e)
<1>1. \A m \in ReleaseMetrics : a[m] = AvailabilityItem(e, m)
  BY DEF Availability
<1>2. /\ ConfidenceMetrics \subseteq ReleaseMetrics
      /\ "confidence_score" \in ReleaseMetrics /\ "readiness_pct" \in ReleaseMetrics
  BY ConfidenceMetricsAre DEF ReleaseMetrics, Release
<1> HIDE DEF a
<1>3. \A m \in ClassificationMetrics :
        a[m].status = e.result[m].status /\ (a[m].available <=> e.tickets > 0)
  <2> TAKE m \in ClassificationMetrics
  <2>1. a[m] = Item(e.result[m].status, e.tickets > 0)
    BY <1>1, <1>2 DEF AvailabilityItem, ClassifiedItem, ClassifiedMetrics,
                      ClassificationMetrics, ConfidenceMetrics
  <2> DEFINE item == a[m]
             status == e.result[m].status
             known == e.tickets > 0
  <2>2. item = Item(status, known) /\ known \in BOOLEAN
    BY <2>1
  <2> HIDE DEF item, status, known
  <2>3. item.status = status /\ (item.available <=> known)
    BY <2>2, ItemFields
  <2> QED
    BY <2>3 DEF item, status, known
<1>4. \A m \in EventMetrics :
        /\ a[m].status = e.result[m].status
        /\ a[m].available <=> e.result[m].status = "COMPUTED"
  <2>1. a["scope_churn_7d_pct"] = ChurnItem(e, "scope_churn_7d_pct")
    BY <1>1, <1>2 DEF AvailabilityItem, ClassifiedMetrics, ClassificationMetrics,
                      ConfidenceMetrics, ChurnMetrics
  <2>2. \A m \in FlowMetrics : a[m] = FlowItem(e, m)
    BY <1>1, <1>2 DEF AvailabilityItem, ClassifiedMetrics, ClassificationMetrics,
                      ConfidenceMetrics, ChurnMetrics, FlowMetrics
  <2>3. \A m \in EventMetrics :
          a[m] = Item(e.result[m].status, e.result[m].status = "COMPUTED")
    <3>1. a["scope_churn_7d_pct"] =
            Item(e.result["scope_churn_7d_pct"].status,
                 e.result["scope_churn_7d_pct"].status = "COMPUTED")
      BY <2>1 DEF ChurnItem, Item
    <3> QED
      BY <2>2, <3>1 DEF EventMetrics, FlowItem
  <2> TAKE m \in EventMetrics
  <2>4. a[m] = Item(e.result[m].status, e.result[m].status = "COMPUTED")
    BY <2>3
  <2> DEFINE item == a[m]
             status == e.result[m].status
             known == status = "COMPUTED"
  <2>5. item = Item(status, known) /\ known \in BOOLEAN
    BY <2>4
  <2> HIDE DEF item, status, known
  <2>6. item.status = status /\ (item.available <=> known)
    BY <2>5, ItemFields
  <2> QED
    BY <2>6 DEF item, status, known
<1>5. /\ a["confidence_score"] =
           IF UnavailableInputs(e) # {} THEN Withheld(e, UnavailableInputs(e))
           ELSE DependencyItem(e, "confidence_score")
      /\ a["readiness_pct"] =
           IF UnavailableGates(e) # {} THEN Withheld(e, UnavailableGates(e))
           ELSE DependencyItem(e, "readiness_pct")
  BY <1>1, <1>2 DEF AvailabilityItem, ClassifiedMetrics, ClassificationMetrics,
                    ChurnMetrics, FlowMetrics
<1>6. \A m \in ConfidenceMetrics : m \in ClassificationMetrics \/ m \in EventMetrics
  BY DEF ConfidenceMetrics, EventMetrics
<1> QED
  BY <1>3, <1>4, <1>5, <1>6 DEF a

LEMMA DependenciesAre ==
  ASSUME NEW e, NEW m \in {"confidence_score", "readiness_pct"}, e.tickets \in Nat
  PROVE  DependencyItem(e, m) =
           IF e.tickets > 0 THEN Item("COMPUTED", TRUE) ELSE Item("NOT_COMPUTED", FALSE)
<1>1. Release[m].needs = {"ticket_count", "release_assignment"}
  BY DEF Release, ReleaseConfidence, ReleaseReadiness, Entry, Assigned
<1>2. Release[m].needs \subseteq Context(e) <=> e.tickets > 0
  BY <1>1 DEF Context
<1> QED
  BY <1>2 DEF DependencyItem

(* The items of what the calculation decides from all metrics.             *)
LEMMA DecidedItems ==
  ASSUME NEW e, e.tickets \in Nat
  PROVE  LET score == Availability(e)["confidence_score"]
             readiness == Availability(e)["readiness_pct"]
         IN /\ score.available <=> e.tickets > 0 /\ UnavailableInputs(e) = {}
            /\ readiness.available <=> e.tickets > 0 /\ UnavailableGates(e) = {}
            /\ score.status =
                 IF \E m \in UnavailableInputs(e) : e.result[m].status = "PARTIAL"
                 THEN "PARTIAL"
                 ELSE IF e.tickets > 0 /\ UnavailableInputs(e) = {}
                 THEN "COMPUTED" ELSE "NOT_COMPUTED"
<1> DEFINE score == Availability(e)["confidence_score"]
           readiness == Availability(e)["readiness_pct"]
           inputs == UnavailableInputs(e)
           gates == UnavailableGates(e)
           assigned == e.tickets > 0
           partial == \E m \in inputs : e.result[m].status = "PARTIAL"
<1>1. /\ score = IF inputs # {} THEN Withheld(e, inputs) ELSE DependencyItem(e, "confidence_score")
      /\ readiness = IF gates # {} THEN Withheld(e, gates) ELSE DependencyItem(e, "readiness_pct")
  BY AvailabilityIs
<1>2. /\ DependencyItem(e, "confidence_score") =
           IF assigned THEN Item("COMPUTED", TRUE) ELSE Item("NOT_COMPUTED", FALSE)
      /\ DependencyItem(e, "readiness_pct") =
           IF assigned THEN Item("COMPUTED", TRUE) ELSE Item("NOT_COMPUTED", FALSE)
  BY DependenciesAre
<1>3. Withheld(e, inputs) = Item(IF partial THEN "PARTIAL" ELSE "NOT_COMPUTED", FALSE)
  BY DEF Withheld
<1>4. ~Withheld(e, gates).available
  BY DEF Withheld, Item
<1>5. inputs = {} => ~partial
  OBVIOUS
<1> HIDE DEF score, readiness, inputs, gates, partial, assigned
<1>6. /\ score.available <=> assigned /\ inputs = {}
      /\ score.status = IF partial THEN "PARTIAL"
                        ELSE IF assigned /\ inputs = {} THEN "COMPUTED" ELSE "NOT_COMPUTED"
  BY <1>1, <1>2, <1>3, <1>5 DEF Item
<1>7. readiness.available <=> assigned /\ gates = {}
  BY <1>1, <1>2, <1>4 DEF Item
<1> QED
  BY <1>6, <1>7 DEF score, readiness, inputs, gates, partial, assigned

(* What is missing of one database, in three equal ways: as inputs of the  *)
(* score, as partial inputs, and as the signal reads the availability.     *)
LEMMA MissingOf ==
  ASSUME NEW e, SoundEvidence(e), e.tickets # 0
  PROVE  /\ UnavailableInputs(e) =
              {m \in ConfidenceMetrics : \/ e.result[m].status = "PARTIAL"
                                         \/ m \in FlowMetrics /\ e.result[m].status = "NOT_COMPUTED"}
         /\ UnavailableInputs(e) = {} =>
              \A m \in EventMetrics : e.result[m].value # None
         /\ UnavailableGates(e) = {} <=>
              /\ PartialInputs(e) = {}
              /\ e.result["reopen_rate_pct"].status = "COMPUTED"
              /\ e.result["scope_churn_7d_pct"].value # None
<1>1. /\ \A m \in FlowMetrics :
           /\ e.result[m].status \in {"COMPUTED", "PARTIAL", "NOT_COMPUTED"}
           /\ e.result[m].status = "COMPUTED" <=> e.result[m].value # None
      /\ e.result["scope_churn_7d_pct"].status \in {"COMPUTED", "PARTIAL"}
      /\ e.result["scope_churn_7d_pct"].status = "COMPUTED" <=>
           e.result["scope_churn_7d_pct"].value # None
  BY DEF SoundEvidence, SoundEvents, EventMetrics
<1>2. UnavailableInputs(e) =
        {m \in ConfidenceMetrics : \/ e.result[m].status = "PARTIAL"
                                   \/ m \in FlowMetrics /\ e.result[m].status = "NOT_COMPUTED"}
  BY <1>1 DEF UnavailableInputs, ConfidenceMetrics
<1>3. UnavailableInputs(e) = {} => \A m \in EventMetrics : e.result[m].value # None
  BY <1>1 DEF UnavailableInputs, EventMetrics
<1>4. UnavailableGates(e) = {} <=>
        /\ PartialInputs(e) = {}
        /\ e.result["reopen_rate_pct"].status = "COMPUTED"
        /\ e.result["scope_churn_7d_pct"].value # None
  <2>1. ASSUME UnavailableGates(e) = {}
        PROVE  /\ PartialInputs(e) = {}
               /\ e.result["reopen_rate_pct"].status = "COMPUTED"
               /\ e.result["scope_churn_7d_pct"].value # None
    <3>1. \A m \in ConfidenceMetrics : e.result[m].status # "PARTIAL"
      BY <1>2, <2>1 DEF UnavailableGates
    <3>2. "reopen_rate_pct" \in FlowMetrics /\ "scope_churn_7d_pct" \in ConfidenceMetrics
      BY DEF FlowMetrics, ConfidenceMetrics
    <3>3. "reopen_rate_pct" \notin UnavailableInputs(e)
      BY <2>1 DEF UnavailableGates
    <3> QED
      BY <1>1, <3>1, <3>2, <3>3 DEF PartialInputs, UnavailableInputs
  <2>2. ASSUME PartialInputs(e) = {}, e.result["reopen_rate_pct"].status = "COMPUTED"
        PROVE  UnavailableGates(e) = {}
    BY <1>2, <2>2 DEF UnavailableGates, PartialInputs, FlowMetrics
  <2> QED
    BY <2>1, <2>2
<1> QED
  BY <1>2, <1>3, <1>4

LEMMA ReadinessIsKnown ==
  ASSUME NEW gates, IsFiniteSet(DOMAIN gates), DOMAIN gates # {}
  PROVE  ReadinessPct(gates) # None
<1> DEFINE passed == Cardinality({m \in DOMAIN gates : gates[m]})
           all == Cardinality(DOMAIN gates)
<1>1. passed \in Nat /\ all \in Nat /\ all # 0
  <2>1. {m \in DOMAIN gates : gates[m]} \subseteq DOMAIN gates
    OBVIOUS
  <2> QED
    BY <2>1, FS_Subset, FS_CardinalityType, FS_EmptySet
<1>2. ReadinessPct(gates) = (Hundredths(100) * passed) \div all
  BY DEF ReadinessPct
<1> HIDE DEF passed, all
<1>3. Hundredths(100) * passed \in Nat
  BY <1>1 DEF Hundredths
<1>4. \A a \in Nat, b \in Nat \ {0} : a \div b >= 0
  OBVIOUS
<1> QED
  BY <1>1, <1>2, <1>3, <1>4 DEF None

(* Availability, score, signal inputs and gates of one look at a database  *)
(* agree.                                                                  *)
LEMMA AgreedSnapshot ==
  ASSUME NEW e, NEW c, SoundEvidence(e)
  PROVE  Agreeing(MetricSnapshot(e, e, c))
<1> DEFINE s == MetricSnapshot(e, e, c)
           values == StoredValues(e)
           a == Availability(e)
           known == e.tickets > 0 /\ UnavailableInputs(e) = {}
<1>1. /\ s.values = values
      /\ s.confidence = Confidence(e)
      /\ s.confidence_status = IF PartialInputs(e) # {} THEN "PARTIAL"
                               ELSE IF Confidence(e) # None THEN "COMPUTED"
                               ELSE "NOT_COMPUTED"
      /\ s.availability = a
      /\ s.tickets = e.tickets
      /\ s.gates = StoredGates(e)
      /\ s.readiness = IF DOMAIN StoredGates(e) = {} THEN None ELSE ReadinessPct(StoredGates(e))
  BY DEF MetricSnapshot
<1>2. e.tickets \in Nat
  BY DEF SoundEvidence
<1>3. Confidence(e) # None <=> known
  <2>1. ConfidenceScore(values) # None
    BY ScoreAddsUp DEF None
  <2>2. known => \A m \in EventMetrics : e.result[m].value # None
    BY MissingOf
  <2> QED
    BY <2>1, <2>2 DEF Confidence, EventMetrics, FlowMetrics
<1>4. /\ a["confidence_score"].available <=> known
      /\ a["readiness_pct"].available <=> e.tickets > 0 /\ UnavailableGates(e) = {}
      /\ a["confidence_score"].status =
           IF \E m \in UnavailableInputs(e) : e.result[m].status = "PARTIAL" THEN "PARTIAL"
           ELSE IF known THEN "COMPUTED" ELSE "NOT_COMPUTED"
  BY <1>2, DecidedItems
<1>5. PartialInputs(e) # {} <=> \E m \in UnavailableInputs(e) : e.result[m].status = "PARTIAL"
  BY DEF PartialInputs, UnavailableInputs, ConfidenceMetrics
<1>6. /\ \A m \in ConfidenceMetrics : a[m].status = e.result[m].status
      /\ \A m \in ClassificationMetrics : a[m].available <=> e.tickets > 0
      /\ \A m \in EventMetrics : a[m].available <=> e.result[m].status = "COMPUTED"
  BY AvailabilityIs
<1>7. FlowMetrics \subseteq ConfidenceMetrics
  BY DEF ConfidenceMetrics
<1>8. DOMAIN StoredGates(e) # {} <=>
        /\ e.tickets > 0
        /\ PartialInputs(e) = {}
        /\ e.result["reopen_rate_pct"].status = "COMPUTED"
        /\ e.result["scope_churn_7d_pct"].value # None
  <2>1. "open_blockers" \in DOMAIN Gates(values)
    BY DEF Gates, GateMetrics, ConfidenceMetrics, ClassificationMetrics
  <2>2. DOMAIN NoGates = {}
    BY DEF NoGates
  <2> QED
    BY <2>1, <2>2 DEF StoredGates
<1>9. DOMAIN StoredGates(e) # {} => ReadinessPct(StoredGates(e)) # None
  <2>1. SUFFICES ASSUME DOMAIN StoredGates(e) # {}
                 PROVE  IsFiniteSet(DOMAIN StoredGates(e))
    BY ReadinessIsKnown
  <2>2. DOMAIN StoredGates(e) \subseteq ConfidenceMetrics
    BY <2>1, <1>8 DEF StoredGates, Gates, GateMetrics
  <2>3. IsFiniteSet(ConfidenceMetrics)
    BY ConfidenceMetricsFinite
  <2> QED
    BY <2>2, <2>3, FS_Subset
<1>10. UnavailableConfidence(s) =
         {m \in ConfidenceMetrics : \/ e.result[m].status = "PARTIAL"
                                    \/ m \in FlowMetrics /\ e.result[m].status = "NOT_COMPUTED"}
  BY <1>1, <1>6, <1>7 DEF UnavailableConfidence
<1>11. AvailabilityMatches(s)
  <2>1. s.confidence # None <=> a["confidence_score"].available
    BY <1>1, <1>3, <1>4
  <2>2. s.confidence_status = a["confidence_score"].status
    BY <1>1, <1>3, <1>4, <1>5
  <2>3. s.readiness # None <=> a["readiness_pct"].available
    <3>1. e.tickets > 0 <=> e.tickets # 0
      BY <1>2
    <3>2. DOMAIN StoredGates(e) # {} <=> e.tickets > 0 /\ UnavailableGates(e) = {}
      BY <3>1, <1>8, MissingOf
    <3>3. s.readiness # None <=> DOMAIN StoredGates(e) # {}
      BY <1>1, <1>9
    <3> QED
      BY <3>2, <3>3, <1>4
  <2>4. ASSUME ComputationState(s.tickets, a) = "COMPUTED"
        PROVE  a["confidence_score"].available
    <3>1. "confidence_score" \in ReleaseMetrics
      BY DEF ReleaseMetrics, Release
    <3>2. \/ a["confidence_score"].available
          \/ a["confidence_score"].status = "NOT_APPLICABLE"
      BY <2>4, <3>1 DEF ComputationState
    <3> QED
      BY <3>2, <1>4
  <2> HIDE DEF s, a
  <2> QED
    BY <2>1, <2>2, <2>3, <2>4, <1>1 DEF AvailabilityMatches
<1>12. ASSUME s.tickets # 0
       PROVE  /\ UnavailableConfidence(s) = {} <=> s.confidence # None
              /\ \A m \in ConfidenceMetrics : Red(m, s.values[m]) => s.availability[m].available
  <2>1. e.tickets # 0 /\ e.tickets > 0
    BY <1>1, <1>2, <1>12
  <2>2. UnavailableConfidence(s) = UnavailableInputs(e)
    BY <1>10, <2>1, MissingOf
  <2>3. ASSUME NEW m \in ConfidenceMetrics, Red(m, values[m])
        PROVE  a[m].available
    <3>1. CASE m \in ClassificationMetrics
      BY <1>6, <2>1, <3>1
    <3>2. CASE m \notin ClassificationMetrics
      <4>1. m \in EventMetrics /\ values[m] = e.result[m].value
        BY <3>2 DEF ConfidenceMetrics, EventMetrics, StoredValues
      <4>2. values[m] # None
        BY <2>3, Thresholds, ConfidenceMetricsAre DEF None
      <4>3. e.result[m].status = "COMPUTED" <=> e.result[m].value # None
        BY <4>1 DEF SoundEvidence, SoundEvents
      <4> QED
        BY <4>1, <4>2, <4>3, <1>6
    <3> QED
      BY <3>1, <3>2
  <2> QED
    BY <1>1, <1>3, <2>1, <2>2, <2>3
<1>13. ASSUME DOMAIN s.gates # {}
       PROVE  /\ s.tickets # 0
              /\ s.gates = [m \in ShownGates(s) |-> Passed(m, s.values[m])]
  <2>0. s.tickets # 0
    BY <1>1, <1>2, <1>8, <1>13
  <2>1. /\ PartialInputs(e) = {}
        /\ e.result["reopen_rate_pct"].status = "COMPUTED"
        /\ e.result["scope_churn_7d_pct"].value # None
        /\ s.gates = Gates(values)
    BY <1>1, <1>8, <1>13 DEF StoredGates
  <2>2. ASSUME NEW m \in ConfidenceMetrics
        PROVE  \/ m \notin UnavailableConfidence(s)
               \/ m = "median_cycle_time_days" /\ s.availability[m].status = "NOT_COMPUTED"
    BY <1>1, <1>6, <1>10, <2>1, <2>2 DEF PartialInputs, FlowMetrics
  <2>3. ShownGates(s) = GateMetrics(values)
    BY <1>1, <2>2 DEF ShownGates, GateMetrics
  <2> QED
    BY <1>1, <2>0, <2>1, <2>3 DEF Gates
<1> HIDE DEF s
<1> QED
  BY <1>1, <1>2, <1>11, <1>12, <1>13 DEF Agreeing, s

-----------------------------------------------------------------------------
(* The invariant of requests and of what is stored.                        *)

RowFields ==
  {"values", "completed", "confidence", "confidence_status", "availability", "tickets",
   "risk_points", "driver", "gates", "readiness", "classification"}

(* Until a synchronization commits into it a request holds what one look   *)
(* at the committed database would have given.                             *)
SoundRequest(r) ==
  LET q == request[r]
  IN /\ DOMAIN q.evidence.result = EvaluatedMetrics
     /\ q.step = "history" => SoundCounts(q.evidence)
     /\ q.step = "availability" => SoundCounts(q.evidence) /\ SoundEvents(q.evidence)
     /\ q.step \in {"flush", "signal"} => DOMAIN q.row = RowFields /\ Calculated(q.row)
     /\ ~q.disturbed =>
          /\ q.step = "availability" => q.evidence = Evidence(q.settings, database)
          /\ q.step \in {"flush", "signal"} => q.row = SnapshotOf(q.settings, database)
SoundRequests == \A r \in Requests : SoundRequest(r)

(* Stored in one look at one database the release was in.                  *)
OfOneDatabase(s) ==
  \E c \in Configurations, d \in Databases, at \in Nat :
    s = Stamped(SnapshotOf(c, d), at, FALSE)
SoundSnapshot(s) == Calculated(s) /\ (~s.disturbed => OfOneDatabase(s))
SoundSnapshots == \A i \in DOMAIN snapshots : SoundSnapshot(snapshots[i])

(* A signal is that of its snapshot and of a number of tickets.            *)
SignalFor(signal, j, s) ==
  \E n \in Nat : /\ signal = Over([snapshot |-> j], ReleaseSignal(n, s))
                 /\ ~s.disturbed => n = s.tickets
SoundSignals ==
  \A k \in DOMAIN signals :
    SignalFor(signals[k], signals[k].snapshot, snapshots[signals[k].snapshot])

(* A synchronization calculates under a classification of the user's.      *)
SoundSync == lock = "sync" /\ sync.at > 0 => sync.settings \in Configurations

ResultsInv == SoundRequests /\ SoundSnapshots /\ SoundSignals /\ SoundSync

LEMMA RowIs ==
  ASSUME NEW e, NEW inputs, NEW c
  PROVE  /\ DOMAIN MetricSnapshot(e, inputs, c) = RowFields
         /\ MetricSnapshot(e, inputs, c).classification = c
         /\ MetricSnapshot(e, inputs, c).tickets = inputs.tickets
BY DEF MetricSnapshot, RowFields

(* What is said of a row is said of it with its stamp.                     *)
LEMMA StampedIs ==
  ASSUME NEW s, DOMAIN s = RowFields, NEW at, NEW disturbed, NEW t, t = Stamped(s, at, disturbed)
  PROVE  /\ t.at = at /\ t.disturbed = disturbed
         /\ t.tickets = s.tickets /\ t.classification = s.classification
         /\ Calculated(s) => Calculated(t)
         /\ Agreeing(s) => Agreeing(t)
<1>1. t["at"] = at /\ t["disturbed"] = disturbed
  BY StampedFields
<1>2. \A f \in RowFields : t[f] = s[f]
  <2>1. \A f \in RowFields : f \in DOMAIN s \ {"at", "disturbed"}
    BY DEF RowFields
  <2> QED
    BY <2>1, StampedFields
<1>3. /\ t["values"] = s["values"] /\ t["confidence"] = s["confidence"]
      /\ t["confidence_status"] = s["confidence_status"]
      /\ t["availability"] = s["availability"] /\ t["tickets"] = s["tickets"]
      /\ t["risk_points"] = s["risk_points"] /\ t["driver"] = s["driver"]
      /\ t["gates"] = s["gates"] /\ t["readiness"] = s["readiness"]
      /\ t["classification"] = s["classification"]
  BY <1>2 DEF RowFields
<1>4. Calculated(s) => Calculated(t)
  BY <1>3 DEF Calculated
<1>5. Agreeing(s) => Agreeing(t)
  <2>1. AvailabilityMatches(s) <=> AvailabilityMatches(t)
    BY <1>3 DEF AvailabilityMatches
  <2>2. UnavailableConfidence(s) = UnavailableConfidence(t)
    BY <1>3 DEF UnavailableConfidence
  <2>3. ShownGates(s) = ShownGates(t)
    BY <1>3, <2>2 DEF ShownGates
  <2> QED
    BY <1>3, <2>1, <2>2, <2>3 DEF Agreeing
<1> QED
  BY <1>1, <1>3, <1>4, <1>5

LEMMA OverIsFunction ==
  ASSUME NEW f, NEW g, NEW h, h = Over(f, g)
  PROVE  h = [m \in DOMAIN h |-> h[m]]
BY DEF Over

LEMMA SameOver ==
  ASSUME NEW f1, NEW g1, NEW h1, h1 = Over(f1, g1), NEW f2, NEW g2, NEW h2, h2 = Over(f2, g2),
         DOMAIN h1 = DOMAIN h2, \A m \in DOMAIN h1 : h1[m] = h2[m]
  PROVE  h1 = h2
BY OverIsFunction

LEMMA EvidenceIs ==
  ASSUME NEW c, NEW d \in Databases
  PROVE  /\ DOMAIN Evidence(c, d).result = EvaluatedMetrics
         /\ Inputs(Evidence(c, d), Evidence(c, d)) = Evidence(c, d)
<1> DEFINE found == ClassificationResults(c, d.tickets)
           result == Over(found, d.events)
           n == Cardinality(DOMAIN d.tickets)
<1>1. Evidence(c, d) = [tickets |-> n, changelog |-> d.changelog, result |-> result]
  BY DEF Evidence
<1>2. DOMAIN found = ClassifiedMetrics /\ DOMAIN d.events = EventMetrics
  BY EvidenceFacts, DatabasesAssumption DEF SoundDatabase
<1> HIDE DEF found, n
<1>3. DOMAIN result = EvaluatedMetrics
  BY <1>2, OverFields DEF EvaluatedMetrics
<1>4. result = [m \in DOMAIN result |-> result[m]]
  BY OverIsFunction
<1> HIDE DEF result
<1>5. Inputs(Evidence(c, d), Evidence(c, d)) =
        [tickets |-> n, changelog |-> d.changelog, result |-> [m \in DOMAIN result |-> result[m]]]
  BY <1>1 DEF Inputs
<1> QED
  BY <1>1, <1>3, <1>4, <1>5

(* Undisturbed snapshots agree with themselves.                            *)
LEMMA UndisturbedAgrees ==
  ASSUME NEW s, OfOneDatabase(s)
  PROVE  Agreeing(s) /\ ~s.disturbed
<1>1. PICK c \in Configurations, d \in Databases, at \in Nat :
        s = Stamped(SnapshotOf(c, d), at, FALSE)
  BY DEF OfOneDatabase
<1> DEFINE row == SnapshotOf(c, d)
           no == FALSE
<1>2. DOMAIN row = RowFields /\ Agreeing(row)
  BY DatabasesAssumption, EvidenceIsSound, AgreedSnapshot, RowIs DEF SnapshotOf
<1>3. s = Stamped(row, at, no)
  BY <1>1
<1> HIDE DEF row, no
<1>4. Agreeing(s) /\ s.disturbed = no
  BY <1>2, <1>3, StampedIs
<1> QED
  BY <1>4 DEF no

-----------------------------------------------------------------------------
(* Steps of one request before its commit.                                 *)

LEMMA OneRequestSound ==
  ASSUME RecomputeInv, ResultsInv, NEW r \in Requests, NEW q,
         request' = [request EXCEPT ![r] = q],
         UNCHANGED <<database, snapshots, signals, sync>>,
         lock' = "sync" <=> lock = "sync",
         SoundRequest(r)'
  PROVE  ResultsInv'
<1>1. \A p \in Requests \ {r} : request'[p] = request[p]
  BY RequestFacts
<1>2. SoundRequests'
  <2> SUFFICES ASSUME NEW p \in Requests, p # r
               PROVE  SoundRequest(p)'
    BY DEF SoundRequests
  <2> QED
    BY <1>1 DEF ResultsInv, SoundRequests, SoundRequest
<1> QED
  BY <1>2 DEF ResultsInv, SoundSnapshots, SoundSignals, SoundSync

LEMMA StartSound ==
  ASSUME RecomputeInv, ResultsInv, NEW r \in Requests, Start(r)
  PROVE  ResultsInv'
<1> DEFINE q == [request[r] EXCEPT !.step = "tickets", !.at = clock + 1, !.settings = config]
<1>1. request' = [request EXCEPT ![r] = q]
  BY RequestFacts DEF Start
<1>2. q.evidence = request[r].evidence /\ q.step = "tickets"
  BY RequestFacts DEF RequestFields
<1> HIDE DEF q
<1>3. request'[r] = q
  BY <1>1, RequestFacts
<1>4. SoundRequest(r)'
  BY <1>2, <1>3 DEF SoundRequest, ResultsInv, SoundRequests
<1> QED
  BY <1>1, <1>4, OneRequestSound DEF Start

LEMMA ReadTicketsSound ==
  ASSUME RecomputeInv, ResultsInv, NEW r \in Requests, ReadTickets(r)
  PROVE  ResultsInv'
<1> DEFINE found == ClassificationResults(request[r].settings, database.tickets)
           result == Over(found, request[r].evidence.result)
           evidence == [request[r].evidence EXCEPT !.result = result]
           q == [request[r] EXCEPT !.step = "history", !.evidence = evidence]
<1>1. request' = [request EXCEPT ![r] = q]
  BY RequestFacts DEF ReadTickets, RequestFields
<1>2. q.evidence = evidence /\ evidence.result = result /\ q.step = "history"
  BY RequestFacts DEF RequestFields, EvidenceFields
<1>3. database \in Databases
  BY DEF RecomputeInv, TypeOK
<1>4. /\ DOMAIN found = ClassifiedMetrics
      /\ \A m \in ClassificationMetrics : found[m].value \in Nat \cup {None}
  BY <1>3, DatabasesAssumption, EvidenceFacts, ClassificationIsSound
<1>5. DOMAIN request[r].evidence.result = EvaluatedMetrics
  BY DEF ResultsInv, SoundRequests, SoundRequest
<1> HIDE DEF q, evidence, found
<1>6. /\ DOMAIN result = EvaluatedMetrics
      /\ \A m \in ClassificationMetrics : result[m] = found[m]
  <2>1. /\ DOMAIN result = ClassifiedMetrics \cup EvaluatedMetrics
        /\ \A m \in ClassifiedMetrics : result[m] = found[m]
    BY <1>4, <1>5, OverFields
  <2>2. /\ ClassifiedMetrics \cup EvaluatedMetrics = EvaluatedMetrics
        /\ ClassificationMetrics \subseteq ClassifiedMetrics
    BY DEF EvaluatedMetrics, ClassifiedMetrics
  <2> QED
    BY <2>1, <2>2
<1> HIDE DEF result
<1>7. SoundCounts(evidence)
  BY <1>2, <1>4, <1>6 DEF SoundCounts
<1>8. request'[r] = q
  BY <1>1, RequestFacts
<1>9. SoundRequest(r)'
  BY <1>2, <1>6, <1>7, <1>8 DEF SoundRequest
<1> QED
  BY <1>1, <1>9, OneRequestSound DEF ReadTickets

LEMMA ReadHistorySound ==
  ASSUME RecomputeInv, ResultsInv, NEW r \in Requests, ReadHistory(r)
  PROVE  ResultsInv'
<1> DEFINE known == request[r].evidence.result
           result == Over(database.events, known)
           evidence == [tickets |-> Cardinality(DOMAIN database.tickets),
                        changelog |-> database.changelog, result |-> result]
           q == [request[r] EXCEPT !.step = "availability", !.evidence = evidence]
<1>1. request' = [request EXCEPT ![r] = q]
  BY RequestFacts DEF ReadHistory, RequestFields
<1>2. /\ q.evidence = evidence /\ evidence.result = result
      /\ q.step = "availability" /\ q.settings = request[r].settings
      /\ q.disturbed = request[r].disturbed
  BY RequestFacts DEF RequestFields
<1>3. /\ database \in Databases
      /\ DOMAIN database.events = EventMetrics
      /\ DOMAIN known = EvaluatedMetrics
      /\ SoundCounts(request[r].evidence)
  BY DatabasesAssumption
  DEF SoundDatabase, RecomputeInv, TypeOK, ResultsInv, SoundRequests, SoundRequest, ReadHistory
<1>4. /\ DOMAIN result = EvaluatedMetrics
      /\ \A m \in EventMetrics : result[m] = database.events[m]
      /\ \A m \in EvaluatedMetrics \ EventMetrics : result[m] = known[m]
  <2> DEFINE events == database.events
  <2> HIDE DEF known, events
  <2>1. /\ DOMAIN Over(events, known) = EventMetrics \cup EvaluatedMetrics
        /\ \A m \in EventMetrics : Over(events, known)[m] = events[m]
        /\ \A m \in EvaluatedMetrics \ EventMetrics : Over(events, known)[m] = known[m]
    <3>1. DOMAIN events = EventMetrics
      BY <1>3 DEF events
    <3>2. /\ DOMAIN Over(events, known) = DOMAIN events \cup DOMAIN known
          /\ \A m \in DOMAIN events : Over(events, known)[m] = events[m]
          /\ \A m \in DOMAIN known \ DOMAIN events : Over(events, known)[m] = known[m]
      BY OverFields
    <3> QED
      BY <1>3, <3>1, <3>2
  <2>2. EventMetrics \cup EvaluatedMetrics = EvaluatedMetrics
    BY DEF EvaluatedMetrics
  <2> QED
    BY <2>1, <2>2 DEF events
<1>5. SoundCounts(evidence) /\ SoundEvents(evidence)
  <2> HIDE DEF evidence, result
  <2>1. SoundEvents(evidence)
    BY <1>2, <1>3, <1>4, DatabasesAssumption DEF SoundDatabase, SoundEvents
  <2>2. ClassificationMetrics \subseteq EvaluatedMetrics \ EventMetrics
    BY DEF ClassificationMetrics, EvaluatedMetrics, ClassifiedMetrics, EventMetrics, FlowMetrics
  <2>3. SoundCounts(evidence)
    BY <1>2, <1>3, <1>4, <2>2 DEF SoundCounts
  <2> QED
    BY <2>1, <2>3
<1>6. ASSUME ~request[r].disturbed
      PROVE  evidence = Evidence(request[r].settings, database)
  <2> DEFINE found == ClassificationResults(request[r].settings, database.tickets)
             committed == Over(found, database.events)
  <2>1. Evidence(request[r].settings, database) =
          [tickets |-> Cardinality(DOMAIN database.tickets),
           changelog |-> database.changelog, result |-> committed]
    BY DEF Evidence
  <2>2. /\ DOMAIN committed = EvaluatedMetrics
        /\ committed = Evidence(request[r].settings, database).result
    BY <1>3, <2>1, EvidenceIs
  <2> HIDE DEF found
  <2>3. ASSUME NEW m \in EvaluatedMetrics
        PROVE  result[m] = committed[m]
    <3> HIDE DEF result, committed
    <3>1. CASE m \in EventMetrics
      BY <1>3, <1>4, <2>2, <3>1, EvidenceFacts
    <3>2. CASE m \notin EventMetrics
      <4>1. m \in ClassifiedMetrics
        BY <1>3, <3>2, EvidenceFacts
      <4>2. known[m] = Evidence(request[r].settings, database).result[m]
        BY <1>6, <4>1, RequestFacts DEF ReadHistory, ReadSoFar
      <4> QED
        BY <1>4, <2>2, <3>2, <4>2
    <3> QED
      BY <3>1, <3>2
  <2>4. result = committed
    BY <1>4, <2>2, <2>3, SameOver
  <2> QED
    BY <2>1, <2>4
<1> HIDE DEF q, evidence, result, known
<1>7. request'[r] = q /\ UNCHANGED database
  BY <1>1, RequestFacts DEF ReadHistory
<1>8. SoundRequest(r)'
  BY <1>2, <1>4, <1>5, <1>6, <1>7 DEF SoundRequest
<1> QED
  BY <1>1, <1>8, OneRequestSound DEF ReadHistory

LEMMA ReadAvailabilitySound ==
  ASSUME RecomputeInv, ResultsInv, NEW r \in Requests, ReadAvailability(r)
  PROVE  ResultsInv'
<1> DEFINE evidence == request[r].evidence
           settings == request[r].settings
           committed == Evidence(settings, database)
           inputs == Inputs(evidence, committed)
           row == MetricSnapshot(evidence, inputs, settings)
           q == [request[r] EXCEPT !.step = "flush", !.row = row]
<1>1. request' = [request EXCEPT ![r] = q]
  BY RequestFacts DEF ReadAvailability, RequestFields
<1>2. /\ q.evidence = evidence /\ q.row = row
      /\ q.step = "flush" /\ q.settings = settings
      /\ q.disturbed = request[r].disturbed
  BY RequestFacts DEF RequestFields
<1>3. /\ DOMAIN evidence.result = EvaluatedMetrics
      /\ SoundCounts(evidence) /\ SoundEvents(evidence)
      /\ ~request[r].disturbed => evidence = committed
  BY DEF ResultsInv, SoundRequests, SoundRequest, ReadAvailability
<1>4. DOMAIN row = RowFields /\ Calculated(row)
  BY <1>3, RowIs, SnapshotIsCalculated
<1>5. ~request[r].disturbed => row = SnapshotOf(settings, database)
  <2>1. database \in Databases
    BY DEF RecomputeInv, TypeOK
  <2> QED
    BY <1>3, <2>1, EvidenceIs DEF SnapshotOf
<1> HIDE DEF q, row, evidence, settings
<1>6. request'[r] = q /\ UNCHANGED database
  BY <1>1, RequestFacts DEF ReadAvailability
<1>7. SoundRequest(r)'
  BY <1>2, <1>3, <1>4, <1>5, <1>6 DEF SoundRequest
<1> QED
  BY <1>1, <1>7, OneRequestSound DEF ReadAvailability

LEMMA FlushSound ==
  ASSUME RecomputeInv, ResultsInv, NEW r \in Requests, Flush(r)
  PROVE  ResultsInv'
<1> DEFINE q == [request[r] EXCEPT !.step = "signal"]
<1>1. request' = [request EXCEPT ![r] = q]
  BY RequestFacts DEF Flush, RequestFields
<1>2. /\ q.evidence = request[r].evidence /\ q.row = request[r].row
      /\ q.step = "signal" /\ q.settings = request[r].settings
      /\ q.disturbed = request[r].disturbed
  BY RequestFacts DEF RequestFields
<1> HIDE DEF q
<1>3. request'[r] = q /\ UNCHANGED database
  BY <1>1, RequestFacts DEF Flush
<1>4. SoundRequest(r)'
  BY <1>2, <1>3 DEF SoundRequest, ResultsInv, SoundRequests, Flush
<1>5. lock' = "sync" <=> lock = "sync"
  BY HoldersAssumption DEF Flush
<1> QED
  BY <1>1, <1>4, <1>5, OneRequestSound DEF Flush

LEMMA EndedIsSound ==
  ASSUME NEW s
  PROVE  DOMAIN [Idle EXCEPT !.step = s].evidence.result = EvaluatedMetrics
BY DEF Idle, NoEvidence

LEMMA FailureSound ==
  ASSUME RecomputeInv, ResultsInv, NEW r \in Requests,
         request' = [request EXCEPT ![r] = [Idle EXCEPT !.step = "failed"]],
         lock' = IF lock = r THEN NoOne ELSE lock,
         UNCHANGED <<database, config, snapshots, signals, clock, sync>>
  PROVE  ResultsInv'
<1> DEFINE q == [Idle EXCEPT !.step = "failed"]
<1>1. q.step = "failed" /\ DOMAIN q.evidence.result = EvaluatedMetrics
  BY EndedRequest, EndedIsSound
<1> HIDE DEF q
<1>2. request' = [request EXCEPT ![r] = q]
  BY DEF q
<1>3. request'[r] = q
  BY <1>2, RequestFacts
<1>4. SoundRequest(r)'
  BY <1>1, <1>3 DEF SoundRequest
<1>5. lock' = "sync" <=> lock = "sync"
  BY HoldersAssumption
<1> QED
  BY <1>2, <1>4, <1>5, OneRequestSound

-----------------------------------------------------------------------------
(* Commits.                                                                *)

LEMMA StoredSound ==
  ASSUME RecomputeInv, ResultsInv, NEW x, NEW n \in Nat, Publish(x, n), x.at \in 1 .. clock,
         SoundSnapshot(x), ~x.disturbed => n = x.tickets
  PROVE  SoundSnapshots' /\ SoundSignals'
<1> DEFINE id == Len(snapshots) + 1
           new == Over([snapshot |-> id], ReleaseSignal(n, x))
<1>1. /\ snapshots' = Append(snapshots, x)
      /\ signals' = signals \/ signals' = Append(signals, new)
  BY PublishKeeps DEF RecomputeInv, TypeOK, Shapes
<1>2. /\ IsSequence(snapshots) /\ IsSequence(signals)
      /\ \A k \in DOMAIN signals : signals[k].snapshot \in DOMAIN snapshots
  BY DEF RecomputeInv, TypeOK, Shapes
<1>3. /\ DOMAIN snapshots = 1 .. Len(snapshots) /\ Len(snapshots) \in Nat
      /\ DOMAIN snapshots' = 1 .. id
      /\ \A i \in DOMAIN snapshots : snapshots'[i] = snapshots[i]
      /\ snapshots'[id] = x
  BY <1>1, <1>2, AppendExtends
<1>4. SoundSnapshots'
  BY <1>3 DEF SoundSnapshots, ResultsInv
<1>5. new.snapshot = id
  <2> DEFINE tag == [snapshot |-> id]
  <2>1. DOMAIN tag = {"snapshot"} /\ tag["snapshot"] = id
    OBVIOUS
  <2> HIDE DEF tag
  <2>2. Over(tag, ReleaseSignal(n, x))["snapshot"] = id
    <3>1. "snapshot" \in DOMAIN tag
      BY <2>1
    <3>2. Over(tag, ReleaseSignal(n, x))["snapshot"] = tag["snapshot"]
      BY <3>1, OverFields
    <3> QED
      BY <3>2, <2>1
  <2> QED
    BY <2>2 DEF tag
<1>6. SignalFor(new, new.snapshot, snapshots'[new.snapshot])
  <2>1. SignalFor(new, id, x)
    BY DEF SignalFor
  <2> HIDE DEF new
  <2> QED
    BY <2>1, <1>3, <1>5
<1> HIDE DEF new
<1>7. \A k \in DOMAIN signals :
        SignalFor(signals[k], signals[k].snapshot, snapshots'[signals[k].snapshot])
  BY <1>2, <1>3 DEF ResultsInv, SoundSignals
<1>8. CASE signals' = signals
  BY <1>4, <1>7, <1>8 DEF SoundSignals
<1>9. CASE signals' = Append(signals, new)
  <2>1. /\ DOMAIN signals = 1 .. Len(signals) /\ Len(signals) \in Nat
        /\ DOMAIN signals' = 1 .. Len(signals) + 1
        /\ \A k \in DOMAIN signals : signals'[k] = signals[k]
        /\ signals'[Len(signals) + 1] = new
    BY <1>2, <1>9, AppendExtends
  <2>2. \A k \in DOMAIN signals' : k \in DOMAIN signals \/ signals'[k] = new
    BY <2>1
  <2>3. ASSUME NEW k \in DOMAIN signals'
        PROVE  SignalFor(signals'[k], signals'[k].snapshot, snapshots'[signals'[k].snapshot])
    <3>1. CASE k \in DOMAIN signals
      BY <2>1, <3>1, <1>7
    <3>2. CASE signals'[k] = new
      BY <3>2, <1>6
    <3> QED
      BY <2>2, <2>3, <3>1, <3>2
  <2> QED
    BY <1>4, <2>3 DEF SoundSignals
<1> QED
  BY <1>1, <1>8, <1>9

LEMMA TicketsAreCounted ==
  ASSUME NEW d \in Databases
  PROVE  Cardinality(DOMAIN d.tickets) \in Nat
BY DatabasesAssumption, FS_CardinalityType DEF SoundDatabase

LEMMA CommitSound ==
  ASSUME RecomputeInv, ResultsInv, NEW r \in Requests, Commit(r)
  PROVE  ResultsInv'
<1> DEFINE row == request[r].row
           at == request[r].at
           disturbed == request[r].disturbed
           settings == request[r].settings
           n == Cardinality(DOMAIN database.tickets)
           x == Stamped(row, at, disturbed)
           q == [Idle EXCEPT !.step = "done"]
<1>1. /\ Publish(x, n)
      /\ request[r].step = "signal" /\ lock = r
      /\ request' = [request EXCEPT ![r] = q]
      /\ lock' = NoOne
      /\ UNCHANGED <<database, config, clock, sync>>
  BY RequestFacts DEF Commit
<1>2. at \in 1 .. clock /\ at \in Nat /\ settings \in Configurations
  BY <1>1, RequestFacts DEF Steps, Working
<1>3. /\ DOMAIN row = RowFields /\ Calculated(row)
      /\ ~disturbed => row = SnapshotOf(settings, database)
  BY <1>1 DEF ResultsInv, SoundRequests, SoundRequest
<1>4. database \in Databases /\ n \in Nat
  BY TicketsAreCounted DEF RecomputeInv, TypeOK
<1>5. q.step = "done" /\ DOMAIN q.evidence.result = EvaluatedMetrics
  BY EndedRequest, EndedIsSound
<1>6. ~disturbed => n = row.tickets
  BY <1>3, RowIs DEF SnapshotOf, Evidence
<1>7. /\ x.at = at /\ x.tickets = row.tickets /\ Calculated(x)
      /\ x.disturbed = disturbed
  <2> HIDE DEF row, at, disturbed
  <2> QED
    BY <1>3, StampedIs
<1>8. SoundSnapshot(x)
  <2>1. ASSUME ~x.disturbed
        PROVE  OfOneDatabase(x)
    <3>1. row = SnapshotOf(settings, database)
      BY <2>1, <1>3, <1>7
    <3>2. ~disturbed
      BY <2>1, <1>7
    <3>3. x = Stamped(SnapshotOf(settings, database), at, FALSE)
      <4>1. disturbed = FALSE \/ Stamped(row, at, disturbed) = Stamped(row, at, FALSE)
        BY <3>2 DEF Stamped
      <4> QED
        BY <3>1, <4>1
    <3> QED
      BY <3>3, <1>2, <1>4 DEF OfOneDatabase
  <2> QED
    BY <2>1, <1>7 DEF SoundSnapshot
<1> HIDE DEF q, x, n, row, at, disturbed
<1>9. SoundSnapshots' /\ SoundSignals'
  BY <1>1, <1>2, <1>4, <1>6, <1>7, <1>8, StoredSound
<1>10. SoundRequests'
  <2> SUFFICES ASSUME NEW p \in Requests
               PROVE  SoundRequest(p)'
    BY DEF SoundRequests
  <2>1. CASE p = r
    <3>1. request'[p] = q
      BY <1>1, <2>1, RequestFacts
    <3> QED
      BY <1>5, <3>1 DEF SoundRequest
  <2>2. CASE p # r
    <3>1. request'[p] = request[p]
      BY <1>1, <2>2, RequestFacts
    <3> QED
      BY <1>1, <3>1 DEF SoundRequest, ResultsInv, SoundRequests
  <2> QED
    BY <2>1, <2>2
<1>11. SoundSync'
  BY <1>1, HoldersAssumption DEF SoundSync
<1> QED
  BY <1>9, <1>10, <1>11 DEF ResultsInv

LEMMA SyncCommitsSound ==
  ASSUME RecomputeInv, ResultsInv, SyncCommits
  PROVE  ResultsInv'
<1> DEFINE settings == sync.settings
           seen == Evidence(settings, sync.database)
           row == MetricSnapshot(seen, seen, settings)
           x == Stamped(row, sync.at, FALSE)
<1>1. /\ Publish(x, seen.tickets)
      /\ lock = "sync" /\ lock' = NoOne /\ sync.at > 0
      /\ database' = sync.database
      /\ UNCHANGED <<config, clock>>
  BY DEF SyncCommits
<1>2. /\ sync.at \in 1 .. clock /\ sync.at \in Nat
      /\ settings \in Configurations /\ sync.database \in Databases
  BY <1>1 DEF RecomputeInv, TypeOK, Times, Shapes, ResultsInv, SoundSync
<1>3. row = SnapshotOf(settings, sync.database)
  BY DEF SnapshotOf
<1>4. /\ DOMAIN row = RowFields /\ row.tickets = seen.tickets
      /\ seen.tickets \in Nat
      /\ Calculated(row)
  BY <1>2, DatabasesAssumption, RowIs, EvidenceIsSound, SnapshotIsCalculated DEF SoundEvidence
<1>5. OfOneDatabase(x)
  BY <1>2, <1>3 DEF OfOneDatabase
<1>6. /\ x.at = sync.at /\ x.tickets = row.tickets /\ Calculated(x)
  <2> DEFINE no == FALSE
             y == Stamped(row, sync.at, no)
  <2> HIDE DEF row, no
  <2>1. y.at = sync.at /\ y.tickets = row.tickets /\ Calculated(y)
    BY <1>4, StampedIs
  <2> QED
    BY <2>1 DEF no
<1> HIDE DEF x, row, seen
<1>7. SoundSnapshots' /\ SoundSignals'
  BY <1>1, <1>2, <1>4, <1>5, <1>6, StoredSound DEF SoundSnapshot
<1>8. /\ \A r \in Requests :
           /\ request'[r].step = request[r].step
           /\ request'[r].settings = request[r].settings
           /\ request'[r].evidence = request[r].evidence
           /\ request'[r].row = request[r].row
           /\ request[r].step \in Reading => request'[r].disturbed
  BY DEF SyncCommits, RecomputeInv, Shapes, RequestFields
<1>9. \A r \in Requests : request[r].step # "signal"
  BY <1>1, HoldersAssumption DEF RecomputeInv, TypeOK
<1>10. SoundRequests'
  <2> SUFFICES ASSUME NEW r \in Requests
               PROVE  SoundRequest(r)'
    BY DEF SoundRequests
  <2>1. SoundRequest(r)
    BY DEF ResultsInv, SoundRequests
  <2>2. CASE request[r].step \in Reading
    BY <1>8, <1>9, <2>1, <2>2 DEF SoundRequest
  <2>3. CASE request[r].step \notin Reading
    BY <1>8, <1>9, <2>1, <2>3 DEF SoundRequest, Reading
  <2> QED
    BY <2>2, <2>3
<1>11. SoundSync'
  BY <1>1, HoldersAssumption DEF SoundSync
<1> QED
  BY <1>7, <1>10, <1>11 DEF ResultsInv

LEMMA SyncSound ==
  ASSUME RecomputeInv, ResultsInv, SyncWrites \/ SyncRecomputes \/ SyncFails
  PROVE  ResultsInv'
<1>1. UNCHANGED <<database, snapshots, signals, request>>
  BY DEF SyncWrites, SyncRecomputes, SyncFails
<1>2. SoundRequests' /\ SoundSnapshots' /\ SoundSignals'
  BY <1>1 DEF ResultsInv, SoundRequests, SoundRequest, SoundSnapshots, SoundSignals
<1>3. SoundSync'
  <2>1. CASE SyncWrites
    BY <2>1 DEF SyncWrites, SoundSync
  <2>2. CASE SyncRecomputes
    BY <2>2 DEF SyncRecomputes, SoundSync, RecomputeInv, TypeOK, Shapes
  <2>3. CASE SyncFails
    BY <2>3, HoldersAssumption DEF SyncFails, SoundSync
  <2> QED
    BY <2>1, <2>2, <2>3
<1> QED
  BY <1>2, <1>3 DEF ResultsInv

LEMMA NextSound ==
  ASSUME RecomputeInv, ResultsInv, [Next]_vars
  PROVE  ResultsInv'
<1>1. ASSUME NEW r \in Requests, RequestStep(r)
      PROVE  ResultsInv'
  <2>1. CASE Start(r)
    BY <2>1, StartSound
  <2>2. CASE ReadTickets(r)
    BY <2>2, ReadTicketsSound
  <2>3. CASE ReadHistory(r)
    BY <2>3, ReadHistorySound
  <2>4. CASE ReadAvailability(r)
    BY <2>4, ReadAvailabilitySound
  <2>5. CASE Flush(r)
    BY <2>5, FlushSound
  <2>6. CASE LockTimeout(r)
    <3>1. lock # r
      BY <2>6, RequestFacts DEF LockTimeout
    <3> QED
      BY <2>6, <3>1, FailureSound DEF LockTimeout
  <2>7. CASE Commit(r)
    BY <2>7, CommitSound
  <2>8. CASE RequestFails(r)
    BY <2>8, FailureSound DEF RequestFails
  <2> QED
    BY <1>1, <2>1, <2>2, <2>3, <2>4, <2>5, <2>6, <2>7, <2>8 DEF RequestStep
<1>2. CASE SyncWrites \/ SyncRecomputes \/ SyncFails
  BY <1>2, SyncSound
<1>3. CASE SyncCommits
  BY <1>3, SyncCommitsSound
<1>4. CASE ChangeConfiguration \/ UNCHANGED vars
  <2>1. UNCHANGED <<database, snapshots, signals, request, lock, sync>>
    BY <1>4 DEF ChangeConfiguration, vars
  <2> QED
    BY <2>1 DEF ResultsInv, SoundRequests, SoundRequest, SoundSnapshots, SoundSignals, SoundSync
<1> QED
  BY <1>1, <1>2, <1>3, <1>4 DEF Next

LEMMA NothingIsSound == Init => ResultsInv
<1> SUFFICES ASSUME Init PROVE ResultsInv
  OBVIOUS
<1>1. Idle.step = "idle" /\ DOMAIN Idle.evidence.result = EvaluatedMetrics
  BY DEF Idle, NoEvidence
<1>2. SoundRequests
  BY <1>1 DEF Init, SoundRequests, SoundRequest
<1>3. SoundSnapshots /\ SoundSignals
  BY DEF Init, SoundSnapshots, SoundSignals
<1>4. SoundSync
  BY HoldersAssumption DEF Init, SoundSync
<1> QED
  BY <1>2, <1>3, <1>4 DEF ResultsInv

(* What requests have read and what is stored is sound, in any order of    *)
(* their steps (metric_recompute_service.py).                              *)
THEOREM ResultsInvariance == Spec => [](RecomputeInv /\ ResultsInv)
<1>1. RecomputeInv /\ ResultsInv /\ [Next]_vars => (RecomputeInv /\ ResultsInv)'
  BY NextKeeps, NextSound
<1> QED
  BY InitialState, NothingIsSound, <1>1, PTL DEF Spec

(* A snapshot no synchronization committed into is what one evaluation of  *)
(* one database the release was in gives, though the request that stored   *)
(* it read the database three times (recompute_release_metrics).           *)
THEOREM RecalculationIsSerial ==
  Spec => [](\A i \in DOMAIN snapshots : ~snapshots[i].disturbed => OfOneDatabase(snapshots[i]))
<1>1. ResultsInv => \A i \in DOMAIN snapshots :
                      ~snapshots[i].disturbed => OfOneDatabase(snapshots[i])
  BY DEF ResultsInv, SoundSnapshots, SoundSnapshot
<1> QED
  BY ResultsInvariance, <1>1, PTL

-----------------------------------------------------------------------------
(* Scores, their changes and availability.                                 *)

(* Every stored score is the sum of its components and has a driver        *)
(* exactly when something was taken from it                                *)
(* (calculate_release_confidence, release_signal_service.py).              *)
THEOREM ScoresAreExplained == Spec => []ExplainedScore
<1>1. ASSUME ResultsInv
      PROVE  ExplainedScore
  <2> SUFFICES ASSUME NEW i \in DOMAIN snapshots, snapshots[i].confidence # None
               PROVE  /\ BreakdownTotal(Breakdown(snapshots[i].values)) = snapshots[i].confidence
                      /\ snapshots[i].driver = "none" <=> snapshots[i].confidence = 100
    BY DEF ExplainedScore
  <2>1. /\ snapshots[i].confidence = ConfidenceScore(snapshots[i].values)
        /\ snapshots[i].driver = BiggestDriver(snapshots[i].values)
    BY <1>1 DEF ResultsInv, SoundSnapshots, SoundSnapshot, Calculated
  <2> QED
    BY <2>1, ScoreAddsUp, DriverIsNamed
<1> QED
  BY ResultsInvariance, <1>1, PTL

LEMMA ImpactsAddUp ==
  ASSUME NEW s, NEW t, Calculated(s), Calculated(t), Comparable(s, t)
  PROVE  Total(Comparison(s, t).impacts) = Comparison(s, t).delta
<1> DEFINE p == RiskPoints(s.values)
           q == RiskPoints(t.values)
           c == Comparison(s, t)
<1>1. /\ s.confidence = ConfidenceScore(s.values) /\ s.risk_points = p
      /\ t.confidence = ConfidenceScore(t.values) /\ t.risk_points = q
      /\ \A m \in ConfidenceMetrics : s.values[m] # None /\ t.values[m] # None
  BY DEF Comparable, Calculated
<1>2. /\ c.delta = s.confidence - t.confidence
      /\ DOMAIN c.impacts = ConfidenceMetrics
      /\ \A m \in ConfidenceMetrics :
           c.impacts[m] = IF m \in Contributors(s, t) THEN Impact(s, t, m) ELSE 0
  BY DEF Comparison
<1>3. /\ \A m \in ConfidenceMetrics : p[m] = Points(m, s.values[m])
      /\ \A m \in ConfidenceMetrics : q[m] = Points(m, t.values[m])
      /\ \A m \in ConfidenceMetrics : p[m] \in Int /\ q[m] \in Int
  BY PointsAre, ConfidenceMetricsAre
<1> HIDE DEF c, p, q
<1>4. \A m \in ConfidenceMetrics : c.impacts[m] = q[m] - p[m]
  <2> TAKE m \in ConfidenceMetrics
  <2>1. CASE s.values[m] = t.values[m]
    BY <2>1, <1>2, <1>3 DEF Contributors
  <2>2. CASE s.values[m] # t.values[m]
    BY <2>2, <1>1, <1>2 DEF Contributors, Impact
  <2> QED
    BY <2>1, <2>2
<1>5. Total(c.impacts) = Total(q) - Total(p)
  BY <1>3, <1>4, ConfidenceMetricsAre DEF Total
<1>6. /\ s.confidence = 100 - Total(p) /\ t.confidence = 100 - Total(q)
      /\ Total(p) \in Int /\ Total(q) \in Int
  BY <1>1, <1>3, ScoreAddsUp, ConfidenceMetricsAre DEF p, q, Total
<1> QED
  BY <1>2, <1>5, <1>6 DEF c

(* The contributors of a comparison account for the whole movement of the  *)
(* score (release_metrics_response_service.py).                            *)
THEOREM ChangesAreExplained == Spec => []ExplainedChange
<1>1. ASSUME ResultsInv
      PROVE  ExplainedChange
  <2>1. \A i \in DOMAIN snapshots : Calculated(snapshots[i])
    BY <1>1 DEF ResultsInv, SoundSnapshots, SoundSnapshot
  <2> QED
    BY <2>1, ImpactsAddUp DEF ExplainedChange
<1> QED
  BY ResultsInvariance, <1>1, PTL

(* What the availability says of score and readiness is what is stored     *)
(* beside it (metric_availability_service.py, release_metrics_service.py). *)
THEOREM AvailabilityAgrees == Spec => []AvailabilityIsStored
<1>1. ASSUME ResultsInv
      PROVE  AvailabilityIsStored
  <2> SUFFICES ASSUME NEW i \in DOMAIN snapshots, ~snapshots[i].disturbed
               PROVE  AvailabilityMatches(snapshots[i])
    BY DEF AvailabilityIsStored
  <2>1. OfOneDatabase(snapshots[i])
    BY <1>1 DEF ResultsInv, SoundSnapshots, SoundSnapshot
  <2> QED
    BY <2>1, UndisturbedAgrees DEF Agreeing
<1> QED
  BY ResultsInvariance, <1>1, PTL

-----------------------------------------------------------------------------
(* Signals.                                                                *)

(* What signal x says of snapshot s and n tickets.                         *)
Says(x, s, n) ==
  /\ ~s.disturbed => n = s.tickets
  /\ x.signal = IF n = 0 THEN "NOT_COMPUTED" ELSE SignalOf(s)
  /\ x.confidence = IF n = 0 THEN None ELSE s.confidence
  /\ n # 0 => /\ x.gates = [m \in ShownGates(s) |-> Passed(m, s.values[m])]
              /\ x.primary = IF UnavailableConfidence(s) = {}
                             THEN BiggestDriver(s.values) ELSE "none"

LEMMA SignalIs ==
  ASSUME NEW x, NEW j, NEW s, SignalFor(x, j, s)
  PROVE  \E n \in Nat : Says(x, s, n)
<1>0. PICK n \in Nat : /\ x = Over([snapshot |-> j], ReleaseSignal(n, s))
                       /\ ~s.disturbed => n = s.tickets
  BY DEF SignalFor
<1> DEFINE tag == [snapshot |-> j]
           said == ReleaseSignal(n, s)
<1>1. DOMAIN tag = {"snapshot"}
  OBVIOUS
<1>2. /\ DOMAIN said = {"signal", "confidence", "gates", "primary"}
      /\ said["signal"] = IF n = 0 THEN "NOT_COMPUTED" ELSE SignalOf(s)
      /\ said["confidence"] = IF n = 0 THEN None ELSE s.confidence
      /\ n # 0 => /\ said["gates"] = [m \in ShownGates(s) |-> Passed(m, s.values[m])]
                  /\ said["primary"] = IF UnavailableConfidence(s) = {}
                                       THEN BiggestDriver(s.values) ELSE "none"
  BY DEF ReleaseSignal
<1>3. x = Over(tag, said)
  BY <1>0
<1> HIDE DEF tag, said
<1>4. \A f \in {"signal", "confidence", "gates", "primary"} : x[f] = said[f]
  <2>1. \A f \in DOMAIN said \ DOMAIN tag : Over(tag, said)[f] = said[f]
    BY OverFields
  <2>2. \A f \in {"signal", "confidence", "gates", "primary"} : f \in DOMAIN said \ DOMAIN tag
    BY <1>1, <1>2
  <2> QED
    BY <1>3, <2>1, <2>2
<1>5. /\ x["signal"] = said["signal"] /\ x["confidence"] = said["confidence"]
      /\ x["gates"] = said["gates"] /\ x["primary"] = said["primary"]
  BY <1>4
<1> QED
  BY <1>0, <1>2, <1>5 DEF Says

(* Without a critical value the score cannot be critical.                  *)
LEMMA OnlyCriticalValuesSinkScore ==
  ASSUME NEW values, ~HardRed(values)
  PROVE  ConfidenceScore(values) \in 80 .. 100
<1> DEFINE p == RiskPoints(values)
<1>1. /\ p.open_blockers = 0
      /\ p.open_high_severity_bugs \in {0, 9}
      /\ p.scope_churn_7d_pct \in {0, 4}
      /\ p.reopen_rate_pct \in {0, 3}
      /\ p.median_cycle_time_days \in {0, 4}
  <2>1. \A m \in ConfidenceMetrics :
          /\ p[m] = Points(m, values[m])
          /\ Points(m, values[m]) \in {0, YellowPoints[m]}
    BY PointsAre DEF HardRed, Points
  <2> HIDE DEF p
  <2> QED
    BY <2>1, ConfidenceMetricsAre DEF YellowPoints
<1>2. ConfidenceScore(values) = 100 - Total(p)
  BY ScoreAddsUp
<1> HIDE DEF p
<1> QED
  BY <1>1, <1>2 DEF Total

LEMMA SignalsAre ==
  ASSUME NEW s
  PROVE  /\ SignalOf(s) \in {"GREEN", "YELLOW", "RED", "INCONCLUSIVE"}
         /\ SignalOf(s) = "RED" <=> HardRed(s.values)
         /\ SignalOf(s) = "GREEN" => \A m \in ConfidenceMetrics : ~Breached(m, s.values[m])
         /\ SignalOf(s) \in {"GREEN", "YELLOW"} => UnavailableConfidence(s) = {}
         /\ SignalOf(s) = "INCONCLUSIVE" =>
              \/ UnavailableConfidence(s) # {}
              \/ \E m \in Optional : s.values[m] = None
<1> DEFINE v == s.values
           hard == HardRule(v)
           band == Band(ConfidenceScore(v))
<1>1. /\ hard \in {"GREEN", "YELLOW", "RED"}
      /\ hard = "RED" <=> HardRed(v)
      /\ hard = "GREEN" => \A m \in ConfidenceMetrics : ~Breached(m, v[m])
  BY DEF HardRule, HardRed, Breached
<1>2. /\ band \in {"GREEN", "YELLOW", "RED"}
      /\ ~HardRed(v) => band # "RED"
  <2>1. Release["confidence_score"].critical = 60
    BY DEF Release, ReleaseConfidence, Entry
  <2>2. ~HardRed(v) => ConfidenceScore(v) \in 80 .. 100
    BY OnlyCriticalValuesSinkScore
  <2> QED
    BY <2>1, <2>2 DEF Band
<1>3. EvaluateSignal(v) = IF \E m \in Optional : v[m] = None
                          THEN IF HardRed(v) THEN "RED" ELSE "INCONCLUSIVE"
                          ELSE MostSevere(hard, band)
  BY DEF EvaluateSignal
<1> HIDE DEF hard, band
<1>4. /\ MostSevere(hard, band) \in {hard, band}
      /\ hard = "RED" => MostSevere(hard, band) = "RED"
      /\ MostSevere(hard, band) = "GREEN" => hard = "GREEN"
  BY <1>1, <1>2 DEF MostSevere, Severity
<1>5. SignalOf(s) = IF UnavailableConfidence(s) = {} THEN EvaluateSignal(v)
                    ELSE IF HardRed(v) THEN "RED" ELSE "INCONCLUSIVE"
  BY DEF SignalOf
<1> HIDE DEF v
<1>6. /\ SignalOf(s) \in {"GREEN", "YELLOW", "RED", "INCONCLUSIVE"}
      /\ SignalOf(s) = "RED" <=> HardRed(v)
      /\ SignalOf(s) = "GREEN" => \A m \in ConfidenceMetrics : ~Breached(m, v[m])
      /\ SignalOf(s) \in {"GREEN", "YELLOW"} => UnavailableConfidence(s) = {}
      /\ SignalOf(s) = "INCONCLUSIVE" =>
           \/ UnavailableConfidence(s) # {}
           \/ \E m \in Optional : v[m] = None
  <2>1. CASE UnavailableConfidence(s) # {}
    BY <2>1, <1>5
  <2>2. CASE UnavailableConfidence(s) = {} /\ \E m \in Optional : v[m] = None
    BY <2>2, <1>3, <1>5
  <2>3. CASE UnavailableConfidence(s) = {} /\ ~ \E m \in Optional : v[m] = None
    BY <2>3, <1>1, <1>2, <1>3, <1>4, <1>5
  <2> QED
    BY <2>1, <2>2, <2>3
<1> QED
  BY <1>6 DEF v

(* A critical value makes the signal RED whatever is missing and whatever  *)
(* the score, GREEN has no breach under it, RED has a reason, and GREEN    *)
(* and YELLOW are said with a score (recompute_release_signal).            *)
THEOREM SignalsAreHonest == Spec => []HonestSignals
<1>1. ASSUME RecomputeInv, ResultsInv
      PROVE  HonestSignals
  <2> SUFFICES ASSUME NEW k \in DOMAIN signals, signals[k].signal # "NOT_COMPUTED"
               PROVE  LET s == snapshots[signals[k].snapshot]
                          said == signals[k].signal
                      IN /\ HardRed(s.values) => said = "RED"
                         /\ said = "GREEN" =>
                              \A m \in ConfidenceMetrics : ~Breached(m, s.values[m])
                         /\ said = "RED" => \/ HardRed(s.values)
                                            \/ s.confidence # None /\ s.confidence <= 60
                         /\ ~s.disturbed /\ said \in {"GREEN", "YELLOW"} =>
                              s.confidence # None
    BY DEF HonestSignals
  <2> DEFINE j == signals[k].snapshot
             s == snapshots[j]
             x == signals[k]
  <2>1. j \in DOMAIN snapshots /\ SoundSnapshot(s) /\ SignalFor(x, j, s)
    BY <1>1 DEF RecomputeInv, TypeOK, ResultsInv, SoundSnapshots, SoundSignals
  <2>2. PICK n \in Nat : Says(x, s, n)
    <3> HIDE DEF x, j, s
    <3> QED
      BY <2>1, SignalIs
  <2>3. n # 0 /\ x.signal = SignalOf(s)
    <3>1. x.signal # "NOT_COMPUTED"
      OBVIOUS
    <3> QED
      BY <2>2, <3>1 DEF Says
  <2>4. ASSUME ~s.disturbed, SignalOf(s) \in {"GREEN", "YELLOW"}
        PROVE  s.confidence # None
    <3>1. Agreeing(s)
      BY <2>1, <2>4, UndisturbedAgrees DEF SoundSnapshot
    <3> QED
      BY <2>2, <2>3, <2>4, <3>1, SignalsAre DEF Agreeing, Says
  <2> HIDE DEF s, j, x
  <2>5. /\ HardRed(s.values) => x.signal = "RED"
        /\ x.signal = "GREEN" => \A m \in ConfidenceMetrics : ~Breached(m, s.values[m])
        /\ x.signal = "RED" => HardRed(s.values)
        /\ ~s.disturbed /\ x.signal \in {"GREEN", "YELLOW"} => s.confidence # None
    BY <2>3, <2>4, SignalsAre
  <2> QED
    BY <2>5 DEF s, j, x
<1> QED
  BY ResultsInvariance, <1>1, PTL

-----------------------------------------------------------------------------
(* Responses.                                                              *)

(* A score is full exactly when no threshold is breached.                  *)
LEMMA FullScore ==
  ASSUME NEW values
  PROVE  ConfidenceScore(values) = 100 <=> \A m \in ConfidenceMetrics : ~Breached(m, values[m])
<1> DEFINE p == RiskPoints(values)
<1>1. \A m \in ConfidenceMetrics :
        /\ p[m] = Points(m, values[m])
        /\ p[m] \in Nat
        /\ Breached(m, values[m]) <=> Points(m, values[m]) > 0
  BY PointsAre, ConfidenceMetricsAre, PointsOfBreaches
<1>2. ConfidenceScore(values) = 100 - Total(p)
  BY ScoreAddsUp
<1> HIDE DEF p
<1>3. /\ Total(p) \in Nat
      /\ Total(p) = 0 <=> \A m \in ConfidenceMetrics : p[m] = 0
  <2>1. /\ p.open_blockers \in Nat /\ p.open_high_severity_bugs \in Nat
        /\ p.scope_churn_7d_pct \in Nat /\ p.reopen_rate_pct \in Nat
        /\ p.median_cycle_time_days \in Nat
    BY <1>1, ConfidenceMetricsAre
  <2>2. /\ Total(p) \in Nat
        /\ Total(p) = 0 <=> /\ p.open_blockers = 0 /\ p.open_high_severity_bugs = 0
                            /\ p.scope_churn_7d_pct = 0 /\ p.reopen_rate_pct = 0
                            /\ p.median_cycle_time_days = 0
    <3> DEFINE a == p.open_blockers
               b == p.open_high_severity_bugs
               c == p.scope_churn_7d_pct
               d == p.reopen_rate_pct
               e == p.median_cycle_time_days
    <3>1. /\ a \in Nat /\ b \in Nat /\ c \in Nat /\ d \in Nat /\ e \in Nat
          /\ Total(p) = a + b + c + d + e
      BY <2>1 DEF Total
    <3> HIDE DEF a, b, c, d, e
    <3>2. /\ Total(p) \in Nat
          /\ Total(p) = 0 <=> a = 0 /\ b = 0 /\ c = 0 /\ d = 0 /\ e = 0
      BY <3>1
    <3> QED
      BY <3>2 DEF a, b, c, d, e
  <2> QED
    BY <2>2, ConfidenceMetricsAre
<1>4. Total(p) = 0 <=> \A m \in ConfidenceMetrics : ~Breached(m, values[m])
  BY <1>1, <1>3
<1> QED
  BY <1>2, <1>3, <1>4

(* What the views say of the latest snapshot and a signal of it.           *)
LEMMA ViewsAgree ==
  ASSUME NEW s, NEW x, NEW n \in Nat, Calculated(s), Agreeing(s), s.tickets = n, Says(x, s, n)
  PROVE  /\ n = 0 => DOMAIN s.gates = {}
         /\ n # 0 =>
              /\ x.confidence = s.confidence
              /\ s.confidence # None =>
                   /\ BreakdownTotal(Breakdown(s.values)) = s.confidence
                   /\ x.primary = s.driver
                   /\ CriticalRisks(s.values) \cup Warnings(s.values) # {} <=>
                        s.confidence < 100
              /\ DOMAIN s.gates # {} => x.gates = s.gates
              /\ x.signal = "RED" => Recommendations(s) # {}
              /\ x.signal = "GREEN" => Recommendations(s) = {}
              /\ x.signal \in {"GREEN", "YELLOW", "RED", "INCONCLUSIVE"}
              /\ ComputationState(n, s.availability) = "COMPUTED" =>
                   x.signal \in {"GREEN", "YELLOW", "RED"}
<1>1. n = 0 => DOMAIN s.gates = {}
  BY DEF Agreeing
<1> SUFFICES ASSUME n # 0
             PROVE  /\ x.confidence = s.confidence
                    /\ s.confidence # None =>
                         /\ BreakdownTotal(Breakdown(s.values)) = s.confidence
                         /\ x.primary = s.driver
                         /\ CriticalRisks(s.values) \cup Warnings(s.values) # {} <=>
                              s.confidence < 100
                    /\ DOMAIN s.gates # {} => x.gates = s.gates
                    /\ x.signal = "RED" => Recommendations(s) # {}
                    /\ x.signal = "GREEN" => Recommendations(s) = {}
                    /\ x.signal \in {"GREEN", "YELLOW", "RED", "INCONCLUSIVE"}
                    /\ ComputationState(n, s.availability) = "COMPUTED" =>
                         x.signal \in {"GREEN", "YELLOW", "RED"}
  BY <1>1
<1>2. /\ x.signal = SignalOf(s) /\ x.confidence = s.confidence
      /\ x.gates = [m \in ShownGates(s) |-> Passed(m, s.values[m])]
      /\ x.primary = IF UnavailableConfidence(s) = {}
                     THEN BiggestDriver(s.values) ELSE "none"
  BY DEF Says
<1>3. /\ UnavailableConfidence(s) = {} <=> s.confidence # None
      /\ \A m \in ConfidenceMetrics : Red(m, s.values[m]) => s.availability[m].available
      /\ DOMAIN s.gates # {} => s.gates = [m \in ShownGates(s) |-> Passed(m, s.values[m])]
  BY DEF Agreeing
<1>4. ASSUME s.confidence # None
      PROVE  /\ BreakdownTotal(Breakdown(s.values)) = s.confidence
             /\ x.primary = s.driver
             /\ CriticalRisks(s.values) \cup Warnings(s.values) # {} <=> s.confidence < 100
  <2>1. /\ s.confidence = ConfidenceScore(s.values)
        /\ s.driver = BiggestDriver(s.values)
    BY <1>4 DEF Calculated
  <2>2. CriticalRisks(s.values) \cup Warnings(s.values) # {} <=>
          \E m \in ConfidenceMetrics : Breached(m, s.values[m])
    BY DEF CriticalRisks, Warnings, Breached, ConfidenceMetrics
  <2>3. ConfidenceScore(s.values) < 100 <=> ConfidenceScore(s.values) # 100
    BY ScoreAddsUp
  <2> QED
    BY <1>2, <1>3, <1>4, <2>1, <2>2, <2>3, ScoreAddsUp, FullScore
<1>5. ASSUME x.signal = "RED"
      PROVE  Recommendations(s) # {}
  <2>1. PICK m \in ConfidenceMetrics : Red(m, s.values[m])
    BY <1>2, <1>5, SignalsAre DEF HardRed
  <2>2. m \in Recommendations(s)
    BY <1>3, <2>1 DEF Recommendations, Breached
  <2> QED
    BY <2>2
<1>6. x.signal = "GREEN" => Recommendations(s) = {}
  BY <1>2, SignalsAre DEF Recommendations
<1>7. ASSUME ComputationState(n, s.availability) = "COMPUTED"
      PROVE  x.signal # "INCONCLUSIVE"
  <2>1. s.confidence # None
    BY <1>7 DEF Agreeing, AvailabilityMatches
  <2>2. \A m \in Optional : s.values[m] # None
    BY <2>1 DEF Calculated, Optional, ConfidenceMetrics
  <2> QED
    BY <1>2, <1>3, <2>1, <2>2, SignalsAre
<1> QED
  BY <1>2, <1>3, <1>4, <1>5, <1>6, <1>7, SignalsAre

(* The metrics and the signal of one release, assembled by two services    *)
(* from what two services stored, agree on score, components, driver,      *)
(* gates and recommendations (release_metrics_response_service.py,         *)
(* release_signal_response_service.py).                                    *)
THEOREM ViewsOfReleaseAgree == Spec => []ResponsesAgree
<1>1. ASSUME RecomputeInv, ResultsInv
      PROVE  ResponsesAgree
  <2> DEFINE last == LatestIndex(snapshots)
             s == Latest
             x == signals[Len(signals)]
             n == TicketCount
             m == MetricsResponse(s, n)
             r == SignalResponse(signals, snapshots, n)
  <2> SUFFICES ASSUME snapshots # <<>>, ~s.disturbed, s.tickets = n
               PROVE  /\ r.confidence = m.confidence
                      /\ r.confidence # None => /\ BreakdownTotal(r.breakdown) = r.confidence
                                                /\ r.primary = r.driver
                                                /\ r.risks # {} <=> r.confidence < 100
                      /\ DOMAIN s.gates # {} => r.gates = s.gates
                      /\ r.signal = "RED" => m.recommendations # {}
                      /\ r.signal \in {"GREEN", "NOT_COMPUTED"} => m.recommendations = {}
                      /\ m.status = "COMPUTED" =>
                           r.label \notin {"INCONCLUSIVE", "NOT COMPUTED"}
    BY DEF ResponsesAgree
  <2>1. /\ last \in DOMAIN snapshots /\ s = snapshots[last]
        /\ x.snapshot = last /\ Len(signals) \in DOMAIN signals
    <3>1. last \in DOMAIN snapshots /\ s = snapshots[last]
      BY <1>1 DEF RecomputeInv, LatestInv, Last, Latest
    <3>2. signals # <<>> /\ x.snapshot = last /\ IsSequence(signals)
      BY <1>1 DEF RecomputeInv, SignalOfLatest, Shapes
    <3>3. Len(signals) \in DOMAIN signals
      <4>1. Len(signals) \in Nat /\ DOMAIN signals = 1 .. Len(signals)
        BY <3>2, AppendExtends
      <4>2. Len(signals) # 0
        BY <3>2 DEF IsSequence
      <4> QED
        BY <4>1, <4>2
    <3> QED
      BY <3>1, <3>2, <3>3
  <2>2. Calculated(s) /\ Agreeing(s)
    BY <1>1, <2>1, UndisturbedAgrees DEF ResultsInv, SoundSnapshots, SoundSnapshot
  <2>3. SignalFor(x, last, s)
    BY <1>1, <2>1 DEF ResultsInv, SoundSignals
  <2>4. n \in Nat /\ Says(x, s, n)
    <3>1. n \in Nat
      BY <1>1, TicketsAreCounted DEF RecomputeInv, TypeOK, TicketCount
    <3>2. PICK k \in Nat : Says(x, s, k)
      <4> HIDE DEF x, s, last
      <4> QED
        BY <2>3, SignalIs
    <3>3. k = n
      BY <3>2 DEF Says
    <3> QED
      BY <3>1, <3>2, <3>3
  <2>5. /\ r.signal = IF n = 0 THEN "NOT_COMPUTED" ELSE x.signal
        /\ r.label = OutlookLabel(IF n = 0 THEN "NOT_COMPUTED" ELSE x.signal)
        /\ r.confidence = IF n = 0 THEN None ELSE x.confidence
        /\ n # 0 /\ s.confidence # None => r.breakdown = Breakdown(s.values)
        /\ r.driver = IF n = 0 THEN "none" ELSE s.driver
        /\ r.gates = IF n = 0 THEN NoGates ELSE x.gates
        /\ n # 0 => r.risks = CriticalRisks(s.values) \cup Warnings(s.values)
        /\ n # 0 => r.primary = x.primary
    BY <2>1 DEF SignalResponse
  <2>6. /\ m.confidence = IF n > 0 THEN s.confidence ELSE None
        /\ m.status = ComputationState(s.tickets, s.availability)
        /\ m.recommendations = IF n > 0 THEN Recommendations(s) ELSE {}
    BY DEF MetricsResponse
  <2> HIDE DEF r, m, n, x, s, last
  <2>7. CASE n = 0
    BY <2>2, <2>4, <2>5, <2>6, <2>7, ViewsAgree DEF ComputationState
  <2>8. CASE n # 0
    <3>1. n > 0
      BY <2>4, <2>8
    <3>2. x.signal \in {"GREEN", "YELLOW", "RED"} =>
            OutlookLabel(x.signal) \notin {"INCONCLUSIVE", "NOT COMPUTED"}
      BY DEF OutlookLabel
    <3>3. /\ x.confidence = s.confidence
          /\ s.confidence # None =>
               /\ BreakdownTotal(Breakdown(s.values)) = s.confidence
               /\ x.primary = s.driver
               /\ CriticalRisks(s.values) \cup Warnings(s.values) # {} <=> s.confidence < 100
          /\ DOMAIN s.gates # {} => x.gates = s.gates
          /\ x.signal = "RED" => Recommendations(s) # {}
          /\ x.signal = "GREEN" => Recommendations(s) = {}
          /\ x.signal \in {"GREEN", "YELLOW", "RED", "INCONCLUSIVE"}
          /\ ComputationState(n, s.availability) = "COMPUTED" =>
               x.signal \in {"GREEN", "YELLOW", "RED"}
      BY <2>2, <2>4, <2>8, ViewsAgree
    <3>4. /\ r.signal = x.signal /\ r.label = OutlookLabel(x.signal)
          /\ r.confidence = s.confidence /\ m.confidence = s.confidence
          /\ s.confidence # None => r.breakdown = Breakdown(s.values)
          /\ r.driver = s.driver /\ r.gates = x.gates /\ r.primary = x.primary
          /\ r.risks = CriticalRisks(s.values) \cup Warnings(s.values)
          /\ m.recommendations = Recommendations(s)
          /\ m.status = ComputationState(n, s.availability)
      BY <2>5, <2>6, <2>8, <3>1, <3>3
    <3>5. r.confidence # None =>
            /\ BreakdownTotal(r.breakdown) = r.confidence
            /\ r.primary = r.driver
            /\ r.risks # {} <=> r.confidence < 100
      BY <3>3, <3>4
    <3>6. /\ DOMAIN s.gates # {} => r.gates = s.gates
          /\ r.signal = "RED" => m.recommendations # {}
          /\ r.signal \in {"GREEN", "NOT_COMPUTED"} => m.recommendations = {}
      BY <3>3, <3>4
    <3>7. m.status = "COMPUTED" => r.label \notin {"INCONCLUSIVE", "NOT COMPUTED"}
      BY <3>2, <3>3, <3>4
    <3> QED
      BY <3>4, <3>5, <3>6, <3>7
  <2> QED
    BY <2>7, <2>8
<1> QED
  BY ResultsInvariance, <1>1, PTL

-----------------------------------------------------------------------------
(* Comparisons.                                                            *)

(* The queries of the repository find the snapshot they ask for.           *)
LEMMA LastOfIsThere ==
  ASSUME NEW stored, NEW n \in Nat, DOMAIN stored = 1 .. n, NEW t \in Nat,
         \A i \in DOMAIN stored : stored[i].at \in 0 .. t,
         NEW indices \in SUBSET (DOMAIN stored)
  PROVE  LastOf(stored, indices) # Nowhere =>
           /\ LastOf(stored, indices) \in indices
           /\ \A j \in indices \ {LastOf(stored, indices)} :
                Earlier(stored, j, LastOf(stored, indices))
<1> SUFFICES ASSUME indices # {}
             PROVE  \E i \in indices : \A j \in indices \ {i} : Earlier(stored, j, i)
  BY DEF LastOf
<1> DEFINE key == [i \in indices |-> stored[i].at]
<1>1. key \in [indices -> 0 .. t]
  OBVIOUS
<1>2. PICK a \in indices : \A b \in indices : key[a] >= key[b]
  <2> HIDE DEF key
  <2> QED
    BY <1>1, LargestKey
<1> DEFINE latest == {i \in indices : stored[i].at = stored[a].at}
<1>3. latest \in SUBSET Nat /\ latest # {} /\ \A k \in latest : k <= n
  <2>1. a \in latest
    OBVIOUS
  <2> QED
    BY <2>1
<1>4. PICK i \in latest : \A k \in latest : i >= k
  <2> HIDE DEF latest
  <2> QED
    BY <1>3, GreatestOf
<1>5. ASSUME NEW j \in indices, j # i
      PROVE  Earlier(stored, j, i)
  <2>1. stored[i].at >= stored[j].at /\ stored[i].at \in Int /\ stored[j].at \in Int
    BY <1>2, <1>4
  <2>2. CASE stored[j].at = stored[i].at
    <3>1. j \in latest
      BY <1>4, <2>2
    <3> QED
      BY <1>4, <1>5, <2>2, <3>1 DEF Earlier
  <2>3. CASE stored[j].at # stored[i].at
    BY <2>1, <2>3 DEF Earlier
  <2> QED
    BY <2>2, <2>3
<1> QED
  BY <1>4, <1>5

LEMMA BaselineIsThere ==
  ASSUME RecomputeInv, NEW i \in DOMAIN snapshots, NEW b \in {"previous", "24h"},
         BaselineOf(snapshots, i, b) # Nowhere
  PROVE  BaselineOf(snapshots, i, b) \in DOMAIN snapshots
<1>1. /\ clock \in Nat /\ Len(snapshots) \in Nat
      /\ DOMAIN snapshots = 1 .. Len(snapshots)
      /\ \A j \in DOMAIN snapshots : snapshots[j].at \in 0 .. clock
  BY AppendExtends DEF RecomputeInv, TypeOK, Shapes
<1>2. \A indices \in SUBSET (DOMAIN snapshots) :
        LastOf(snapshots, indices) # Nowhere => LastOf(snapshots, indices) \in indices
  BY <1>1, LastOfIsThere
<1>3. \E indices \in SUBSET (DOMAIN snapshots) :
        BaselineOf(snapshots, i, b) = LastOf(snapshots, indices)
  BY DEF BaselineOf, Previous, AtOrBefore
<1> QED
  BY <1>2, <1>3

LEMMA MovedScoresHaveContributors ==
  ASSUME NEW s, NEW t, Calculated(s), Calculated(t), s.confidence # None, t.confidence # None,
         Contributors(s, t) = {}
  PROVE  s.confidence = t.confidence
<1>1. /\ s.confidence = ConfidenceScore(s.values)
      /\ t.confidence = ConfidenceScore(t.values)
      /\ \A m \in ConfidenceMetrics : s.values[m] # None /\ t.values[m] # None
  BY DEF Calculated
<1>2. \A m \in ConfidenceMetrics : s.values[m] = t.values[m]
  BY <1>1 DEF Contributors
<1>3. RiskPoints(s.values) = RiskPoints(t.values)
  BY <1>2 DEF RiskPoints
<1> QED
  BY <1>1, <1>3 DEF ConfidenceScore

(* No comparison or history of changes relates scores calculated under     *)
(* different classifications, and a score that moved has contributors      *)
(* (release_metrics_response_service.py).                                  *)
THEOREM OnlyLikeIsCompared == Spec => []ComparisonsRespectClassification
<1>1. ASSUME RecomputeInv, ResultsInv
      PROVE  ComparisonsRespectClassification
  <2>1. ASSUME NEW i \in DOMAIN snapshots, HistoryItem(snapshots, i).reason = "comparable"
        PROVE  snapshots[i].classification = snapshots[Previous(snapshots, i)].classification
    BY <2>1 DEF HistoryItem, UnavailableReason
  <2>2. ASSUME snapshots # <<>>, NEW b \in {"previous", "24h"},
               ComparisonResponse(snapshots, b).reason = "comparable"
        PROVE  /\ Latest.classification =
                    snapshots[BaselineOf(snapshots, LatestIndex(snapshots), b)].classification
               /\ ComparisonResponse(snapshots, b).delta # 0 =>
                    ComparisonResponse(snapshots, b).contributors # {}
    <3> DEFINE last == LatestIndex(snapshots)
               base == BaselineOf(snapshots, last, b)
               c == ComparisonResponse(snapshots, b)
    <3>1. last \in DOMAIN snapshots
      BY <1>1, <2>2 DEF RecomputeInv, LatestInv, Last
    <3>2. /\ base # Nowhere
          /\ UnavailableReason(snapshots[last], snapshots[base]) = "comparable"
          /\ c.delta = snapshots[last].confidence - snapshots[base].confidence
          /\ c.contributors = Contributors(snapshots[last], snapshots[base])
      BY <2>2 DEF ComparisonResponse
    <3>3. base \in DOMAIN snapshots
      BY <1>1, <3>1, <3>2, BaselineIsThere
    <3> HIDE DEF c, base, last
    <3>4. /\ snapshots[last].classification = snapshots[base].classification
          /\ snapshots[last].confidence # None /\ snapshots[base].confidence # None
      BY <3>2 DEF UnavailableReason
    <3>5. Calculated(snapshots[last]) /\ Calculated(snapshots[base])
      BY <1>1, <3>1, <3>3 DEF ResultsInv, SoundSnapshots, SoundSnapshot
    <3>6. snapshots[last].confidence \in Int /\ snapshots[base].confidence \in Int
      BY <3>4, <3>5, ScoreAddsUp DEF Calculated
    <3>7. c.delta # 0 => c.contributors # {}
      BY <3>2, <3>4, <3>5, <3>6, MovedScoresHaveContributors
    <3> QED
      BY <3>4, <3>7 DEF c, base, last, Latest
  <2> QED
    BY <2>1, <2>2 DEF ComparisonsRespectClassification
<1> QED
  BY ResultsInvariance, <1>1, PTL

-----------------------------------------------------------------------------
(* Completions: tickets with missing fields and what they turn out to be.  *)

(* What is confirmed of a ticket stays true, and what is not               *)
(* indeterminate is decided.                                               *)
LEMMA CompletionKeeps ==
  ASSUME NEW c, WellFormed(c), NEW t, NEW u, Completes(t, u)
  PROVE  /\ OpenBlocker(c, t) => OpenBlocker(c, u)
         /\ OpenHighBug(c, t) => OpenHighBug(c, u)
         /\ ~BlockerIndeterminate(c, t) =>
              /\ OpenBlocker(c, u) => OpenBlocker(c, t)
              /\ ~BlockerIndeterminate(c, u)
         /\ ~HighBugIndeterminate(c, t) =>
              /\ OpenHighBug(c, u) => OpenHighBug(c, t)
              /\ ~HighBugIndeterminate(c, u)
<1>1. /\ Missing \notin c.done /\ Missing \notin c.inProgress /\ Missing \notin c.blocked
      /\ Missing \notin c.bugs /\ Missing \notin c.blockerTypes
      /\ Missing \notin c.high /\ Missing \notin c.blockerSeverities
  BY DEF WellFormed, ConfigurationFields
<1>2. /\ u.flag = t.flag
      /\ t.type # Missing => u.type = t.type
      /\ t.severity # Missing => u.severity = t.severity
      /\ t.status # Missing => u.status = t.status
  BY DEF Completes
<1>3. /\ OpenBlocker(c, t) => OpenBlocker(c, u)
      /\ OpenHighBug(c, t) => OpenHighBug(c, u)
  BY <1>1, <1>2 DEF OpenBlocker, OpenHighBug, HasStatus, ClassifyBlocker, IsDone, IsBug, IsHigh
<1>4. ASSUME ~BlockerIndeterminate(c, t)
      PROVE  /\ OpenBlocker(c, u) => OpenBlocker(c, t)
             /\ ~BlockerIndeterminate(c, u)
  BY <1>1, <1>2, <1>4 DEF BlockerIndeterminate, OpenBlocker, HasStatus, ClassifyBlocker, IsDone
<1>5. ASSUME ~HighBugIndeterminate(c, t)
      PROVE  /\ OpenHighBug(c, u) => OpenHighBug(c, t)
             /\ ~HighBugIndeterminate(c, u)
  BY <1>1, <1>2, <1>5 DEF HighBugIndeterminate, OpenHighBug, HasStatus, IsDone, IsBug, IsHigh
<1> QED
  BY <1>3, <1>4, <1>5

LEMMA CountsOnlyGrow ==
  ASSUME NEW scope, IsFiniteSet(scope), scope # {},
         NEW counted \in SUBSET scope, NEW unknown,
         NEW counted1 \in SUBSET scope, NEW unknown1,
         counted \subseteq counted1,
         unknown = {} => counted1 = counted /\ unknown1 = {}
  PROVE  LET was == Count(scope, counted, unknown)
             is == Count(scope, counted1, unknown1)
         IN /\ was.value \in Nat /\ is.value \in Nat
            /\ is.value >= was.value
            /\ was.status # "PARTIAL" => is = was
<1>1. /\ Cardinality(counted) \in Nat /\ Cardinality(counted1) \in Nat
      /\ Cardinality(counted1) >= Cardinality(counted)
  <2>1. IsFiniteSet(counted) /\ IsFiniteSet(counted1)
    BY FS_Subset
  <2> QED
    BY <2>1, FS_Subset, FS_CardinalityType
<1> QED
  BY <1>1 DEF Count

(* A completion changes neither what is known nor downwards what is        *)
(* counted.                                                                *)
LEMMA ClassificationOnlyGrows ==
  ASSUME NEW c, WellFormed(c), NEW t, NEW u, IsFiniteSet(DOMAIN t), DOMAIN t # {},
         DOMAIN u = DOMAIN t, \A k \in DOMAIN t : Completes(t[k], u[k]),
         NEW m \in ClassificationMetrics
  PROVE  LET was == ClassificationResults(c, t)[m]
             is == ClassificationResults(c, u)[m]
         IN /\ was.value \in Nat /\ is.value \in Nat
            /\ is.value >= was.value
            /\ was.status # "PARTIAL" => is = was
<1> DEFINE scope == DOMAIN t
           Blockers(v) == {k \in scope : OpenBlocker(c, v[k])}
           Bugs(v) == {k \in scope : OpenHighBug(c, v[k])}
           UnsureBlockers(v) == {k \in scope : BlockerIndeterminate(c, v[k])}
           UnsureBugs(v) == {k \in scope : HighBugIndeterminate(c, v[k])}
<1>1. /\ Blockers(t) \subseteq Blockers(u)
      /\ UnsureBlockers(t) = {} => Blockers(u) = Blockers(t) /\ UnsureBlockers(u) = {}
      /\ Bugs(t) \subseteq Bugs(u)
      /\ UnsureBugs(t) = {} => Bugs(u) = Bugs(t) /\ UnsureBugs(u) = {}
  BY CompletionKeeps
<1>2. CASE m = "open_blockers"
  <2>1. /\ ClassificationResults(c, t)[m] = Count(scope, Blockers(t), UnsureBlockers(t))
        /\ ClassificationResults(c, u)[m] = Count(scope, Blockers(u), UnsureBlockers(u))
    BY <1>2 DEF ClassificationResults, OpenBlockers
  <2>2. Blockers(t) \in SUBSET scope /\ Blockers(u) \in SUBSET scope
    OBVIOUS
  <2> HIDE DEF scope, Blockers, UnsureBlockers
  <2>3. IsFiniteSet(scope) /\ scope # {}
    BY DEF scope
  <2> QED
    BY <1>1, <2>1, <2>2, <2>3, CountsOnlyGrow
<1>3. CASE m = "open_high_severity_bugs"
  <2>1. /\ ClassificationResults(c, t)[m] = Count(scope, Bugs(t), UnsureBugs(t))
        /\ ClassificationResults(c, u)[m] = Count(scope, Bugs(u), UnsureBugs(u))
    BY <1>3 DEF ClassificationResults, OpenHighSeverityBugs
  <2>2. Bugs(t) \in SUBSET scope /\ Bugs(u) \in SUBSET scope
    OBVIOUS
  <2> HIDE DEF scope, Bugs, UnsureBugs
  <2>3. IsFiniteSet(scope) /\ scope # {}
    BY DEF scope
  <2> QED
    BY <1>1, <2>1, <2>2, <2>3, CountsOnlyGrow
<1> QED
  BY <1>2, <1>3 DEF ClassificationMetrics

LEMMA FinalSignalIs ==
  ASSUME NEW c, NEW d, SoundDatabase(d)
  PROVE  LET e == Evidence(c, d)
             s == MetricSnapshot(e, e, c)
         IN /\ FinalSignal(c, d) = IF DOMAIN d.tickets = {} THEN "NOT_COMPUTED" ELSE SignalOf(s)
            /\ s.values = StoredValues(e)
            /\ UnavailableConfidence(s) =
                 {m \in ConfidenceMetrics :
                    \/ e.result[m].status = "PARTIAL"
                    \/ m \in FlowMetrics /\ e.result[m].status = "NOT_COMPUTED"}
            /\ \A m \in ClassificationMetrics :
                 e.result[m] = ClassificationResults(c, d.tickets)[m]
            /\ \A m \in EventMetrics : e.result[m] = d.events[m]
<1> DEFINE e == Evidence(c, d)
           s == MetricSnapshot(e, e, c)
<1>1. e.tickets = 0 <=> DOMAIN d.tickets = {}
  <2>1. e.tickets = Cardinality(DOMAIN d.tickets) /\ IsFiniteSet(DOMAIN d.tickets)
    BY DEF Evidence, SoundDatabase
  <2> QED
    BY <2>1, FS_EmptySet
<1>2. FinalSignal(c, d) = IF e.tickets = 0 THEN "NOT_COMPUTED" ELSE SignalOf(s)
  BY DEF FinalSignal, ReleaseSignal
<1>3. s.values = StoredValues(e) /\ s.availability = Availability(e)
  BY DEF MetricSnapshot
<1>4. \A m \in ConfidenceMetrics : s.availability[m].status = e.result[m].status
  BY <1>3, AvailabilityIs
<1> HIDE DEF s
<1>5. UnavailableConfidence(s) =
        {m \in ConfidenceMetrics : \/ e.result[m].status = "PARTIAL"
                                   \/ m \in FlowMetrics /\ e.result[m].status = "NOT_COMPUTED"}
  BY <1>4 DEF UnavailableConfidence, ConfidenceMetrics
<1>6. /\ \A m \in ClassifiedMetrics : e.result[m] = ClassificationResults(c, d.tickets)[m]
      /\ \A m \in EvaluatedMetrics \ ClassifiedMetrics : e.result[m] = d.events[m]
      /\ EvaluatedMetrics \ ClassifiedMetrics = EventMetrics
  BY EvidenceOfDatabase
<1>7. /\ \A m \in ClassificationMetrics : e.result[m] = ClassificationResults(c, d.tickets)[m]
      /\ \A m \in EventMetrics : e.result[m] = d.events[m]
  BY <1>6 DEF ClassifiedMetrics
<1> QED
  BY <1>1, <1>2, <1>3, <1>5, <1>7 DEF s

LEMMA CompletionKeepsSignal ==
  ASSUME NEW c, WellFormed(c), NEW d, SoundDatabase(d), NEW d1 \in Completions(d),
         FinalSignal(c, d) \in {"GREEN", "YELLOW", "RED"}
  PROVE  FinalSignal(c, d1) = FinalSignal(c, d)
<1> DEFINE t == d.tickets
           e == Evidence(c, d)
           s == MetricSnapshot(e, e, c)
           e1 == Evidence(c, d1)
           s1 == MetricSnapshot(e1, e1, c)
<1>1. PICK u : /\ d1 = [d EXCEPT !.tickets = u]
               /\ DOMAIN u = DOMAIN t
               /\ \A k \in DOMAIN t : Completes(t[k], u[k])
  BY DEF Completions
<1>2. /\ d1.tickets = u /\ d1.events = d.events
      /\ DOMAIN d1 = DOMAIN d
  BY <1>1 DEF SoundDatabase
<1>3. SoundDatabase(d1) /\ IsFiniteSet(DOMAIN t)
  BY <1>1, <1>2 DEF SoundDatabase
<1>4. DOMAIN t # {} /\ FinalSignal(c, d) = SignalOf(s) /\ FinalSignal(c, d1) = SignalOf(s1)
  <2>1. FinalSignal(c, d) = IF DOMAIN t = {} THEN "NOT_COMPUTED" ELSE SignalOf(s)
    BY FinalSignalIs
  <2>2. FinalSignal(c, d1) = IF DOMAIN d1.tickets = {} THEN "NOT_COMPUTED" ELSE SignalOf(s1)
    BY <1>3, FinalSignalIs
  <2>3. DOMAIN d1.tickets = DOMAIN t
    BY <1>1, <1>2
  <2> QED
    BY <2>1, <2>2, <2>3
<1>5. /\ s.values = StoredValues(e)
      /\ UnavailableConfidence(s) =
           {m \in ConfidenceMetrics : \/ e.result[m].status = "PARTIAL"
                                      \/ m \in FlowMetrics /\ e.result[m].status = "NOT_COMPUTED"}
      /\ \A m \in ClassificationMetrics : e.result[m] = ClassificationResults(c, t)[m]
      /\ \A m \in EventMetrics : e.result[m] = d.events[m]
  BY FinalSignalIs
<1>6. /\ s1.values = StoredValues(e1)
      /\ UnavailableConfidence(s1) =
           {m \in ConfidenceMetrics : \/ e1.result[m].status = "PARTIAL"
                                      \/ m \in FlowMetrics /\ e1.result[m].status = "NOT_COMPUTED"}
      /\ \A m \in ClassificationMetrics : e1.result[m] = ClassificationResults(c, u)[m]
      /\ \A m \in EventMetrics : e1.result[m] = d.events[m]
  <2>1. /\ \A m \in ClassificationMetrics :
             e1.result[m] = ClassificationResults(c, d1.tickets)[m]
        /\ \A m \in EventMetrics : e1.result[m] = d1.events[m]
    BY <1>3, FinalSignalIs
  <2>2. /\ s1.values = StoredValues(e1)
        /\ UnavailableConfidence(s1) =
             {m \in ConfidenceMetrics : \/ e1.result[m].status = "PARTIAL"
                                        \/ m \in FlowMetrics /\ e1.result[m].status = "NOT_COMPUTED"}
    BY <1>3, FinalSignalIs
  <2> QED
    BY <1>2, <2>1, <2>2
<1>7. \A m \in ClassificationMetrics :
        /\ e.result[m].value \in Nat /\ e1.result[m].value \in Nat
        /\ e1.result[m].value >= e.result[m].value
        /\ e.result[m].status # "PARTIAL" => e1.result[m] = e.result[m]
  <2> TAKE m \in ClassificationMetrics
  <2> DEFINE was == ClassificationResults(c, t)[m]
             is == ClassificationResults(c, u)[m]
  <2>1. /\ was.value \in Nat /\ is.value \in Nat
        /\ is.value >= was.value
        /\ was.status # "PARTIAL" => is = was
    BY <1>1, <1>3, <1>4, ClassificationOnlyGrows
  <2>2. e.result[m] = was /\ e1.result[m] = is
    BY <1>5, <1>6
  <2> HIDE DEF was, is, e, e1
  <2> QED
    BY <2>1, <2>2
<1> HIDE DEF t, e, s, e1, s1
<1>8. \A m \in ConfidenceMetrics :
        /\ m \in ClassificationMetrics => /\ s.values[m] = e.result[m].value
                                          /\ s1.values[m] = e1.result[m].value
        /\ m \notin ClassificationMetrics => /\ m \in EventMetrics
                                             /\ s.values[m] = e.result[m].value
                                             /\ s1.values[m] = e1.result[m].value
  BY <1>5, <1>6, <1>7 DEF StoredValues, AtLeastZero, ConfidenceMetrics, EventMetrics
<1>9. CASE FinalSignal(c, d) = "RED"
  <2>1. PICK m \in ConfidenceMetrics : Red(m, s.values[m])
    BY <1>4, <1>9, SignalsAre DEF HardRed
  <2>2. Red(m, s1.values[m])
    <3>1. CASE m \in ClassificationMetrics
      <4>1. \A v \in Nat, w \in Nat : Red(m, v) /\ w >= v => Red(m, w)
        BY <3>1, Thresholds DEF ClassificationMetrics
      <4> QED
        BY <1>7, <1>8, <2>1, <3>1, <4>1
    <3>2. CASE m \notin ClassificationMetrics
      BY <1>5, <1>6, <1>8, <2>1, <3>2
    <3> QED
      BY <3>1, <3>2
  <2> QED
    BY <1>4, <1>9, <2>2, SignalsAre DEF HardRed
<1>10. CASE FinalSignal(c, d) \in {"GREEN", "YELLOW"}
  <2>1. UnavailableConfidence(s) = {}
    BY <1>4, <1>10, SignalsAre
  <2>2. \A m \in ConfidenceMetrics : e1.result[m] = e.result[m]
    <3> TAKE m \in ConfidenceMetrics
    <3>1. e.result[m].status # "PARTIAL"
      BY <1>5, <2>1
    <3>2. m \in ClassificationMetrics \/ m \in EventMetrics
      BY DEF ConfidenceMetrics, EventMetrics
    <3> QED
      BY <1>5, <1>6, <1>7, <3>1, <3>2
  <2>3. s1.values = s.values
    BY <1>5, <1>6, <2>2 DEF StoredValues
  <2>4. UnavailableConfidence(s1) = UnavailableConfidence(s)
    BY <1>5, <1>6, <2>2
  <2> QED
    BY <1>4, <2>3, <2>4 DEF SignalOf
<1> QED
  BY <1>9, <1>10

(* Filling in missing fields of tickets never takes a signal back          *)
(* (metric_availability_service.py, recompute_release_signal).             *)
THEOREM SignalsOutliveGaps == Spec => []SignalSurvivesCompletion
<1>1. ASSUME RecomputeInv
      PROVE  SignalSurvivesCompletion
  <2>1. SoundDatabase(database) /\ WellFormed(config)
    BY <1>1, DatabasesAssumption, ConfigurationsAssumption DEF RecomputeInv, TypeOK
  <2> QED
    BY <2>1, CompletionKeepsSignal DEF SignalSurvivesCompletion
<1> QED
  BY ResultsInvariance, <1>1, PTL

=============================================================================
