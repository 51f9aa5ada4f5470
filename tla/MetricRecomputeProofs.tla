------------------------ MODULE MetricRecomputeProofs ------------------------
(***************************************************************************)
(* Theorems about MetricRecompute, for any requests, databases and         *)
(* classifications and any number of synchronizations: the latest snapshot *)
(* has the latest signal and describes the committed tickets, and what is  *)
(* stored stays.                                                           *)
(***************************************************************************)
EXTENDS MetricRecompute, TLAPS

-----------------------------------------------------------------------------
(* Sequences of results and the latest of them.                            *)

IsSequence(s) == s \in Seq({s[i] : i \in DOMAIN s})

(* What a sequence without a bound on its elements is after Append.        *)
LEMMA AppendExtends ==
  ASSUME NEW s, NEW e, IsSequence(s)
  PROVE  /\ IsSequence(Append(s, e))
         /\ Len(s) \in Nat /\ DOMAIN s = 1 .. Len(s)
         /\ Len(Append(s, e)) = Len(s) + 1
         /\ DOMAIN Append(s, e) = 1 .. Len(s) + 1
         /\ \A i \in DOMAIN s : Append(s, e)[i] = s[i]
         /\ Append(s, e)[Len(s) + 1] = e
<1> DEFINE S == {s[i] : i \in DOMAIN s} \cup {e}
           t == Append(s, e)
<1>1. s \in Seq(S)
  BY DEF IsSequence
<1>2. /\ t \in Seq(S)
      /\ Len(s) \in Nat /\ DOMAIN s = 1 .. Len(s)
      /\ Len(t) = Len(s) + 1
      /\ DOMAIN t = 1 .. Len(s) + 1
      /\ \A i \in DOMAIN s : t[i] = s[i]
      /\ t[Len(s) + 1] = e
  BY <1>1
<1>3. t \in Seq({t[i] : i \in DOMAIN t})
  <2> HIDE DEF t
  <2>1. t \in [1 .. Len(t) -> S] /\ Len(t) \in Nat /\ DOMAIN t = 1 .. Len(t)
    BY <1>2
  <2>2. \A i \in 1 .. Len(t) : t[i] \in {t[j] : j \in DOMAIN t}
    BY <2>1
  <2>3. t \in [1 .. Len(t) -> {t[i] : i \in DOMAIN t}]
    BY <2>1, <2>2
  <2> QED
    BY <2>1, <2>3
<1> QED
  BY <1>2, <1>3 DEF IsSequence

Dated(s) == \A i \in DOMAIN s : s[i].at \in Nat

(* i is what get_latest_snapshot orders last.                              *)
Last(s, i) ==
  /\ i \in DOMAIN s
  /\ \A j \in DOMAIN s : \/ s[i].at > s[j].at
                         \/ s[i].at = s[j].at /\ i >= j

LEMMA LatestIsLast ==
  ASSUME NEW s, NEW i, Dated(s), DOMAIN s \subseteq Nat, Last(s, i)
  PROVE  LatestIndex(s) = i
<1> DEFINE P(k) == \A j \in DOMAIN s : \/ s[k].at > s[j].at
                                       \/ s[k].at = s[j].at /\ k >= j
<1>1. \A k \in DOMAIN s : P(k) => k = i
  BY DEF Dated, Last
<1>2. i \in DOMAIN s /\ P(i)
  BY DEF Last
<1>3. LatestIndex(s) \in DOMAIN s /\ P(LatestIndex(s))
  BY <1>2 DEF LatestIndex
<1> QED
  BY <1>1, <1>3

(* The latest result after one was added is the new one unless the latest  *)
(* before was begun later.                                                 *)
LEMMA LatestAfterAppend ==
  ASSUME NEW s, NEW e, IsSequence(s), Dated(s), e.at \in Nat,
         s # <<>> => Last(s, LatestIndex(s))
  PROVE  LET t == Append(s, e)
         IN /\ Dated(t)
            /\ t # <<>>
            /\ Last(t, LatestIndex(t))
            /\ \/ LatestIndex(t) = Len(s) + 1
               \/ s # <<>> /\ LatestIndex(t) = LatestIndex(s)
            /\ (\A i \in DOMAIN s : s[i].at < e.at) => LatestIndex(t) = Len(s) + 1
<1> DEFINE t == Append(s, e)
           n == Len(s) + 1
<1>1. /\ Len(s) \in Nat /\ DOMAIN s = 1 .. Len(s) /\ DOMAIN t = 1 .. n
      /\ \A i \in DOMAIN s : t[i] = s[i]
      /\ t[n] = e
  BY AppendExtends
<1>2. Dated(t) /\ t # <<>>
  <2>1. Dated(t)
    BY <1>1 DEF Dated
  <2>2. n \in DOMAIN t
    BY <1>1
  <2> HIDE DEF t, n
  <2>3. t # <<>>
    BY <2>2
  <2> QED
    BY <2>1, <2>3
<1> HIDE DEF t
<1>3. ASSUME \A i \in DOMAIN s : s[i].at <= e.at
      PROVE  Last(t, n)
  BY <1>1, <1>3 DEF Last, Dated
<1>4. ASSUME NEW i \in DOMAIN s, s[i].at > e.at
      PROVE  s # <<>> /\ Last(t, LatestIndex(s))
  <2>1. s # <<>>
    BY <1>1, <1>4
  <2>2. Last(s, LatestIndex(s))
    BY <2>1
  <2> QED
    BY <2>1, <2>2, <1>1, <1>4 DEF Last, Dated
<1>5. \/ Last(t, n) /\ LatestIndex(t) = n
      \/ /\ s # <<>> /\ Last(t, LatestIndex(s)) /\ LatestIndex(t) = LatestIndex(s)
         /\ \E i \in DOMAIN s : s[i].at > e.at
  <2>1. DOMAIN t \subseteq Nat
    BY <1>1
  <2>2. CASE \E i \in DOMAIN s : s[i].at > e.at
    BY <2>1, <2>2, <1>2, <1>4, LatestIsLast
  <2>3. CASE \A i \in DOMAIN s : s[i].at <= e.at
    BY <2>1, <2>3, <1>2, <1>3, LatestIsLast
  <2> QED
    BY <2>2, <2>3 DEF Dated
<1>6. (\A i \in DOMAIN s : s[i].at < e.at) => LatestIndex(t) = n
  BY <1>5 DEF Dated
<1> QED
  BY <1>2, <1>5, <1>6 DEF t

-----------------------------------------------------------------------------
(* The invariant.                                                          *)

RequestFields == {"step", "at", "settings", "evidence", "row", "disturbed"}
EvidenceFields == {"tickets", "changelog", "result"}

Shapes ==
  /\ DOMAIN request = Requests
  /\ \A r \in Requests :
       /\ DOMAIN request[r] = RequestFields
       /\ DOMAIN request[r].evidence = EvidenceFields
  /\ DOMAIN sync = {"database", "at", "settings", "count"}
  /\ lock = "sync" => sync.database \in Databases
  /\ IsSequence(snapshots) /\ IsSequence(signals)

(* While the lock is held nobody else commits: what was begun last then is *)
(* the latest.                                                             *)
Times ==
  /\ \A r \in Requests :
       /\ request[r].at \in Nat
       /\ request[r].step \in Working => request[r].at > 0
  /\ sync.at \in 0 .. clock
  /\ lock = "sync" /\ sync.at > 0 =>
       \A i \in DOMAIN snapshots : snapshots[i].at < sync.at

LatestInv == snapshots # <<>> => Last(snapshots, LatestIndex(snapshots))

(* What a request has read so far is what is committed, unless a           *)
(* synchronization committed into it.                                      *)
ReadSoFar(r) ==
  LET q == request[r]
      committed == Evidence(q.settings, database)
  IN /\ q.step = "history" => ClassifiedMetrics \subseteq DOMAIN q.evidence.result
     /\ q.step \in {"flush", "signal"} =>
          /\ {"values", "classification"} \subseteq DOMAIN q.row
          /\ q.row.classification = q.settings
     /\ ~q.disturbed =>
          /\ q.step = "history" =>
               \A m \in ClassifiedMetrics : q.evidence.result[m] = committed.result[m]
          /\ q.step = "availability" =>
               \A m \in EvaluatedMetrics : q.evidence.result[m] = committed.result[m]
          /\ q.step \in {"flush", "signal"} => q.row.values = StoredValues(committed)
ReadInv == \A r \in Requests : ReadSoFar(r)

RecomputeInv ==
  /\ TypeOK
  /\ Shapes
  /\ Times
  /\ LatestInv
  /\ SignalOfLatest
  /\ ReadInv
  /\ LatestIsCurrent

-----------------------------------------------------------------------------
(* Commits.                                                                *)

LEMMA OverFields ==
  ASSUME NEW f, NEW g
  PROVE  /\ DOMAIN Over(f, g) = DOMAIN f \cup DOMAIN g
         /\ \A m \in DOMAIN f : Over(f, g)[m] = f[m]
         /\ \A m \in DOMAIN g \ DOMAIN f : Over(f, g)[m] = g[m]
BY DEF Over

LEMMA StampedFields ==
  ASSUME NEW s, NEW a, NEW d
  PROVE  /\ Stamped(s, a, d)["at"] = a
         /\ Stamped(s, a, d)["disturbed"] = d
         /\ \A f \in DOMAIN s \ {"at", "disturbed"} : Stamped(s, a, d)[f] = s[f]
<1> DEFINE stamp == [at |-> a, disturbed |-> d]
<1>1. DOMAIN stamp = {"at", "disturbed"} /\ stamp["at"] = a /\ stamp["disturbed"] = d
  OBVIOUS
<1> HIDE DEF stamp
<1>2. Stamped(s, a, d) = Over(stamp, s)
  BY DEF Stamped, stamp
<1>3. /\ \A f \in DOMAIN stamp : Over(stamp, s)[f] = stamp[f]
      /\ \A f \in DOMAIN s \ DOMAIN stamp : Over(stamp, s)[f] = s[f]
  BY OverFields
<1>4. Over(stamp, s)["at"] = a /\ Over(stamp, s)["disturbed"] = d
  BY <1>1, <1>3
<1> QED
  BY <1>1, <1>2, <1>3, <1>4

Appended(old, new) ==
  /\ Len(new) >= Len(old)
  /\ \A i \in DOMAIN old : new[i] = old[i]

(* What a commit does to the stored results, whoever commits.              *)
LEMMA PublishKeeps ==
  ASSUME NEW x, NEW n, Publish(x, n), x.at \in 1 .. clock, clock \in Nat,
         IsSequence(snapshots), IsSequence(signals), LatestInv, SignalOfLatest,
         \A i \in DOMAIN snapshots : snapshots[i].at \in 1 .. clock,
         \A k \in DOMAIN signals : signals[k].snapshot \in DOMAIN snapshots
  PROVE  /\ IsSequence(snapshots)' /\ IsSequence(signals)'
         /\ \A i \in DOMAIN snapshots' : snapshots'[i].at \in 1 .. clock
         /\ \A k \in DOMAIN signals' : signals'[k].snapshot \in DOMAIN snapshots'
         /\ LatestInv' /\ SignalOfLatest'
         /\ Appended(snapshots, snapshots') /\ Appended(signals, signals')
         /\ \/ Latest' = x
            \/ snapshots # <<>> /\ Latest' = Latest
         /\ (\A i \in DOMAIN snapshots : snapshots[i].at < x.at) => Latest' = x
         /\ snapshots' = Append(snapshots, x)
         /\ \/ signals' = signals
            \/ signals' = Append(signals, Over([snapshot |-> Len(snapshots) + 1],
                                              ReleaseSignal(n, x)))
<1> DEFINE last == LatestIndex(snapshots)
           last1 == LatestIndex(snapshots')
           size == Len(snapshots)
           count == Len(signals)
           new == Over([snapshot |-> last1], ReleaseSignal(n, snapshots'[last1]))
<1>1. snapshots' = Append(snapshots, x)
  BY DEF Publish
<1>2. /\ IsSequence(snapshots)'
      /\ size \in Nat /\ DOMAIN snapshots = 1 .. size
      /\ Len(snapshots') = size + 1 /\ DOMAIN snapshots' = 1 .. size + 1
      /\ \A i \in DOMAIN snapshots : snapshots'[i] = snapshots[i]
      /\ snapshots'[size + 1] = x
  BY <1>1, AppendExtends
<1>3. /\ count \in Nat /\ DOMAIN signals = 1 .. count
      /\ IsSequence(Append(signals, new))
      /\ Len(Append(signals, new)) = count + 1
      /\ DOMAIN Append(signals, new) = 1 .. count + 1
      /\ \A k \in DOMAIN signals : Append(signals, new)[k] = signals[k]
      /\ Append(signals, new)[count + 1] = new
  BY AppendExtends
<1>4. /\ snapshots' # <<>> /\ Last(snapshots', last1)
      /\ \/ last1 = size + 1
         \/ snapshots # <<>> /\ last1 = last
      /\ (\A i \in DOMAIN snapshots : snapshots[i].at < x.at) => last1 = size + 1
  <2>1. Dated(snapshots) /\ x.at \in Nat
    BY DEF Dated
  <2>2. snapshots # <<>> => Last(snapshots, last)
    BY DEF LatestInv
  <2> QED
    BY <1>1, <2>1, <2>2, LatestAfterAppend
<1>5. new.snapshot = last1
  <2> DEFINE tag == [snapshot |-> last1]
  <2>1. DOMAIN tag = {"snapshot"} /\ tag["snapshot"] = last1
    OBVIOUS
  <2> HIDE DEF tag
  <2>2. Over(tag, ReleaseSignal(n, snapshots'[last1]))["snapshot"] = last1
    <3>1. "snapshot" \in DOMAIN tag
      BY <2>1
    <3>2. Over(tag, ReleaseSignal(n, snapshots'[last1]))["snapshot"] = tag["snapshot"]
      BY <3>1, OverFields
    <3> QED
      BY <3>2, <2>1
  <2> QED
    BY <2>2 DEF tag
<1>6. signals' = IF Signalled(signals, last1) THEN signals ELSE Append(signals, new)
  BY DEF Publish, SignalsFor
<1> HIDE DEF last, last1, size, count, new
<1>7. /\ last1 \in 1 .. size + 1
      /\ snapshots # <<>> => last \in 1 .. size
  BY <1>2, <1>4 DEF Last, LatestInv, last
<1>8. CASE Signalled(signals, last1)
  <2>1. signals' = signals
    BY <1>6, <1>8
  <2>2. last1 = last /\ snapshots # <<>>
    BY <1>8, <1>4, <1>2 DEF Signalled
  <2>3. SignalOfLatest'
    BY <2>1, <2>2, <1>4 DEF SignalOfLatest, last, last1
  <2>4. LatestInv'
    BY <1>4 DEF LatestInv, last1
  <2>5. Latest' = Latest
    BY <2>2, <1>2, <1>7 DEF Latest, last, last1
  <2>6. \A i \in DOMAIN snapshots' : snapshots'[i].at \in 1 .. clock
    BY <1>2
  <2>7. Appended(snapshots, snapshots') /\ Appended(signals, signals')
    BY <1>2, <1>3, <2>1 DEF Appended, size, count
  <2>8. ~(\A i \in DOMAIN snapshots : snapshots[i].at < x.at)
    BY <1>2, <1>4, <1>7, <2>2
  <2> QED
    BY <1>1, <1>2, <2>1, <2>2, <2>3, <2>4, <2>5, <2>6, <2>7, <2>8
<1>9. CASE ~Signalled(signals, last1)
  <2>1. signals' = Append(signals, new)
    BY <1>6, <1>9
  <2>2. last1 = size + 1
    <3>1. SUFFICES ASSUME snapshots # <<>>, last1 = last
                   PROVE  FALSE
      BY <1>4
    <3>2. signals # <<>> /\ signals[count].snapshot = last
      BY <3>1 DEF SignalOfLatest, last, count
    <3>3. count \in DOMAIN signals
      <4>1. count # 0
        BY <3>2, <1>3 DEF IsSequence, count
      <4> QED
        BY <4>1, <1>3
    <3> QED
      BY <3>1, <3>2, <3>3, <1>9 DEF Signalled
  <2>3. /\ Len(signals') = count + 1 /\ DOMAIN signals' = 1 .. count + 1
        /\ \A k \in DOMAIN signals : signals'[k] = signals[k]
        /\ signals'[count + 1].snapshot = last1
        /\ IsSequence(signals)'
    BY <2>1, <1>3, <1>5
  <2>4. SignalOfLatest'
    <3>1. signals' # <<>>
      BY <2>3, <1>3
    <3>2. signals'[Len(signals')].snapshot = LatestIndex(snapshots')
      BY <2>3 DEF last1
    <3>3. ASSUME NEW k \in DOMAIN signals', NEW l \in DOMAIN signals',
                 signals'[k].snapshot = signals'[l].snapshot
          PROVE  k = l
      <4>1. \A i \in DOMAIN signals : signals'[i].snapshot \in 1 .. size
        BY <2>3, <1>2
      <4> QED
        BY <3>3, <4>1, <2>2, <2>3, <1>2, <1>3 DEF SignalOfLatest
    <3> QED
      BY <3>1, <3>2, <3>3 DEF SignalOfLatest
  <2>5. LatestInv'
    BY <1>4 DEF LatestInv, last1
  <2>6. Latest' = x
    BY <2>2, <1>2 DEF Latest, last1
  <2>7. \A i \in DOMAIN snapshots' : snapshots'[i].at \in 1 .. clock
    BY <1>2
  <2>8. \A k \in DOMAIN signals' : signals'[k].snapshot \in DOMAIN snapshots'
    BY <2>2, <2>3, <1>2, <1>3
  <2>9. Appended(snapshots, snapshots') /\ Appended(signals, signals')
    BY <1>2, <1>3, <2>3 DEF Appended, size, count
  <2>10. signals' = Append(signals, Over([snapshot |-> Len(snapshots) + 1],
                                          ReleaseSignal(n, x)))
    BY <2>1, <2>2, <1>2 DEF new, size
  <2> QED
    BY <1>1, <1>2, <2>3, <2>4, <2>5, <2>6, <2>7, <2>8, <2>9, <2>10
<1> QED
  BY <1>8, <1>9

-----------------------------------------------------------------------------
(* Steps of one request before its commit.                                 *)

LEMMA RequestKeeps ==
  ASSUME RecomputeInv, NEW r \in Requests, NEW q,
         UNCHANGED <<database, config, snapshots, signals, sync>>,
         request' = [request EXCEPT ![r] = q],
         DOMAIN q = RequestFields, DOMAIN q.evidence = EvidenceFields,
         q.step \in Steps, q.at \in 0 .. clock',
         q.step \in Working => q.at > 0 /\ q.settings \in Configurations,
         clock' \in {clock, clock + 1},
         lock' \in Requests \cup {NoOne, "sync"},
         lock' = "sync" <=> lock = "sync",
         lock' = r <=> q.step = "signal",
         \A p \in Requests \ {r} : lock' = p <=> lock = p,
         ReadSoFar(r)'
  PROVE  RecomputeInv'
<1>1. /\ DOMAIN request = Requests /\ DOMAIN request' = Requests
      /\ request'[r] = q
      /\ \A p \in Requests \ {r} : request'[p] = request[p]
  BY DEF RecomputeInv, Shapes
<1>2. clock \in Nat /\ clock' \in Nat /\ clock <= clock'
  BY DEF RecomputeInv, TypeOK
<1>3. TypeOK'
  <2>1. \A p \in Requests :
          /\ request'[p].step \in Steps
          /\ request'[p].at <= clock'
          /\ request'[p].step \in Working => request'[p].settings \in Configurations
          /\ lock' = p <=> request'[p].step = "signal"
    <3> TAKE p \in Requests
    <3>1. CASE p = r
      BY <1>1, <1>2, <3>1
    <3>2. CASE p # r
      BY <1>1, <1>2, <3>2 DEF RecomputeInv, TypeOK, Times
    <3> QED
      BY <3>1, <3>2
  <2>2. \A i \in DOMAIN snapshots' : snapshots'[i].at \in 1 .. clock'
    BY <1>2 DEF RecomputeInv, TypeOK
  <2> QED
    BY <1>2, <2>1, <2>2 DEF RecomputeInv, TypeOK
<1>4. Shapes'
  BY <1>1 DEF RecomputeInv, Shapes
<1>5. Times'
  <2>1. \A p \in Requests :
          /\ request'[p].at \in Nat
          /\ request'[p].step \in Working => request'[p].at > 0
    BY <1>1, <1>2 DEF RecomputeInv, Times
  <2>2. sync'.at \in 0 .. clock'
    BY <1>2 DEF RecomputeInv, Times
  <2> QED
    BY <2>1, <2>2 DEF RecomputeInv, Times
<1>6. LatestInv' /\ SignalOfLatest' /\ LatestIsCurrent'
  BY DEF RecomputeInv, LatestInv, SignalOfLatest, LatestIsCurrent, Latest
<1>7. ReadInv'
  BY <1>1 DEF RecomputeInv, ReadInv, ReadSoFar
<1> QED
  BY <1>3, <1>4, <1>5, <1>6, <1>7 DEF RecomputeInv

(* What the invariant says of one request.                                 *)
LEMMA RequestFacts ==
  ASSUME RecomputeInv, NEW r \in Requests
  PROVE  /\ DOMAIN request = Requests
         /\ DOMAIN request[r] = RequestFields
         /\ DOMAIN request[r].evidence = EvidenceFields
         /\ clock \in Nat
         /\ request[r].step \in Steps
         /\ request[r].at \in 0 .. clock
         /\ request[r].step \in Working =>
              request[r].at > 0 /\ request[r].settings \in Configurations
         /\ lock \in Requests \cup {NoOne, "sync"}
         /\ lock = r <=> request[r].step = "signal"
         /\ r # NoOne /\ r # "sync" /\ NoOne # "sync"
         /\ ReadSoFar(r)
<1>1. request[r].at \in 0 .. clock
  BY DEF RecomputeInv, Times, TypeOK
<1>2. r # NoOne /\ r # "sync" /\ NoOne # "sync"
  BY HoldersAssumption
<1> QED
  BY <1>1, <1>2 DEF RecomputeInv, Shapes, Times, TypeOK, ReadInv

LEMMA StartKeeps ==
  ASSUME RecomputeInv, NEW r \in Requests, Start(r)
  PROVE  RecomputeInv'
<1> DEFINE q == [request[r] EXCEPT !.step = "tickets", !.at = clock + 1, !.settings = config]
<1>1. request' = [request EXCEPT ![r] = q]
  BY RequestFacts DEF Start
<1>2. /\ DOMAIN q = RequestFields
      /\ q.evidence = request[r].evidence
      /\ q.step = "tickets" /\ q.at = clock + 1 /\ q.settings = config
  BY RequestFacts DEF RequestFields
<1> HIDE DEF q
<1>3. request'[r] = q
  BY <1>1, RequestFacts
<1>4. ReadSoFar(r)'
  BY <1>2, <1>3 DEF ReadSoFar
<1>5. config \in Configurations /\ request[r].step = "idle"
  BY DEF RecomputeInv, TypeOK, Start
<1> QED
  <2>1. q.step \in Steps /\ q.step # "signal" /\ request[r].step # "signal"
    BY <1>2, <1>5 DEF Steps
  <2>2. q.at \in 0 .. clock' /\ clock' = clock + 1 /\ q.at > 0
    BY <1>2, RequestFacts DEF Start
  <2>3. /\ lock' = lock /\ lock # r
        /\ UNCHANGED <<database, config, snapshots, signals, sync>>
    BY <2>1, RequestFacts DEF Start
  <2> QED
    BY <1>1, <1>2, <1>4, <1>5, <2>1, <2>2, <2>3, RequestFacts, RequestKeeps

(* The classified metrics of the evidence come from the tickets, the others *)
(* from the history.                                                       *)
LEMMA EvidenceOfDatabase ==
  ASSUME NEW c, NEW d, SoundDatabase(d)
  PROVE  /\ DOMAIN ClassificationResults(c, d.tickets) = ClassifiedMetrics
         /\ \A m \in ClassifiedMetrics :
              Evidence(c, d).result[m] = ClassificationResults(c, d.tickets)[m]
         /\ \A m \in EvaluatedMetrics \ ClassifiedMetrics :
              Evidence(c, d).result[m] = d.events[m]
         /\ EvaluatedMetrics \ ClassifiedMetrics = EventMetrics
<1> DEFINE found == ClassificationResults(c, d.tickets)
<1>1. DOMAIN found = ClassifiedMetrics
  BY DEF ClassificationResults, ClassifiedMetrics, ClassificationMetrics
<1>2. Evidence(c, d).result = Over(found, d.events)
  BY DEF Evidence
<1>3. DOMAIN d.events = EventMetrics
  BY DEF SoundDatabase
<1>4. EvaluatedMetrics \ ClassifiedMetrics = EventMetrics
  BY DEF EvaluatedMetrics, ClassifiedMetrics, ClassificationMetrics, EventMetrics, FlowMetrics
<1> HIDE DEF found
<1>5. /\ \A m \in DOMAIN found : Over(found, d.events)[m] = found[m]
      /\ \A m \in DOMAIN d.events \ DOMAIN found : Over(found, d.events)[m] = d.events[m]
  BY OverFields
<1>6. \A m \in EventMetrics : m \notin ClassifiedMetrics
  BY <1>4
<1> QED
  BY <1>1, <1>2, <1>3, <1>4, <1>5, <1>6 DEF found

LEMMA EvidenceFacts ==
  ASSUME NEW c, NEW d \in Databases
  PROVE  /\ DOMAIN ClassificationResults(c, d.tickets) = ClassifiedMetrics
         /\ \A m \in ClassifiedMetrics :
              Evidence(c, d).result[m] = ClassificationResults(c, d.tickets)[m]
         /\ \A m \in EvaluatedMetrics \ ClassifiedMetrics :
              Evidence(c, d).result[m] = d.events[m]
         /\ EvaluatedMetrics \ ClassifiedMetrics = EventMetrics
<1>1. SoundDatabase(d)
  BY DatabasesAssumption
<1>2. DOMAIN ClassificationResults(c, d.tickets) = ClassifiedMetrics
  BY <1>1, EvidenceOfDatabase
<1>3. \A m \in ClassifiedMetrics :
        Evidence(c, d).result[m] = ClassificationResults(c, d.tickets)[m]
  BY <1>1, EvidenceOfDatabase
<1>4. \A m \in EvaluatedMetrics \ ClassifiedMetrics : Evidence(c, d).result[m] = d.events[m]
  BY <1>1, EvidenceOfDatabase
<1>5. EvaluatedMetrics \ ClassifiedMetrics = EventMetrics
  BY <1>1, EvidenceOfDatabase
<1> QED
  BY <1>2, <1>3, <1>4, <1>5

LEMMA ReadTicketsKeeps ==
  ASSUME RecomputeInv, NEW r \in Requests, ReadTickets(r)
  PROVE  RecomputeInv'
<1> DEFINE found == ClassificationResults(request[r].settings, database.tickets)
           result == Over(found, request[r].evidence.result)
           evidence == [request[r].evidence EXCEPT !.result = result]
           q == [request[r] EXCEPT !.step = "history", !.evidence = evidence]
<1>1. request' = [request EXCEPT ![r] = q]
  BY RequestFacts DEF ReadTickets, RequestFields
<1>2. /\ DOMAIN q = RequestFields
      /\ q.evidence = evidence
      /\ DOMAIN evidence = EvidenceFields
      /\ evidence.result = result
      /\ q.step = "history" /\ q.at = request[r].at /\ q.settings = request[r].settings
      /\ q.disturbed = request[r].disturbed
  BY RequestFacts DEF RequestFields, EvidenceFields
<1>3. /\ DOMAIN found = ClassifiedMetrics
      /\ \A m \in ClassifiedMetrics : Evidence(q.settings, database).result[m] = found[m]
  <2>1. database \in Databases
    BY DEF RecomputeInv, TypeOK
  <2> QED
    BY <1>2, <2>1, EvidenceFacts
<1> HIDE DEF q, evidence, found
<1>4. DOMAIN result = DOMAIN found \cup DOMAIN request[r].evidence.result
  <2> DEFINE earlier == request[r].evidence.result
  <2>1. DOMAIN Over(found, earlier) = DOMAIN found \cup DOMAIN earlier
    <3> HIDE DEF earlier
    <3> QED
      BY OverFields
  <2> QED
    BY <2>1
<1>5. \A m \in DOMAIN found : result[m] = found[m]
  BY OverFields
<1> HIDE DEF result
<1>6. request'[r] = q /\ UNCHANGED database
  BY <1>1, RequestFacts DEF ReadTickets
<1>7. ReadSoFar(r)'
  BY <1>2, <1>3, <1>4, <1>5, <1>6 DEF ReadSoFar
<1> QED
  BY <1>1, <1>2, <1>7, RequestFacts, RequestKeeps DEF ReadTickets, Steps, Working

LEMMA ReadHistoryKeeps ==
  ASSUME RecomputeInv, NEW r \in Requests, ReadHistory(r)
  PROVE  RecomputeInv'
<1> DEFINE known == request[r].evidence.result
           result == Over(database.events, known)
           evidence == [tickets |-> Cardinality(DOMAIN database.tickets),
                        changelog |-> database.changelog, result |-> result]
           q == [request[r] EXCEPT !.step = "availability", !.evidence = evidence]
<1>1. request' = [request EXCEPT ![r] = q]
  BY RequestFacts DEF ReadHistory, RequestFields
<1>2. /\ DOMAIN q = RequestFields
      /\ q.evidence = evidence
      /\ DOMAIN evidence = EvidenceFields
      /\ evidence.result = result
      /\ q.step = "availability" /\ q.at = request[r].at /\ q.settings = request[r].settings
      /\ q.disturbed = request[r].disturbed
  BY RequestFacts DEF RequestFields, EvidenceFields
<1> HIDE DEF q, evidence
<1>3. database \in Databases /\ DOMAIN database.events = EventMetrics
  BY DatabasesAssumption DEF SoundDatabase, RecomputeInv, TypeOK
<1>4. /\ \A m \in EventMetrics : result[m] = database.events[m]
      /\ \A m \in DOMAIN known \ EventMetrics : result[m] = known[m]
  BY <1>3, OverFields
<1> HIDE DEF result
<1>5. ASSUME ~request[r].disturbed, NEW m \in EvaluatedMetrics
      PROVE  result[m] = Evidence(q.settings, database).result[m]
  <2>1. CASE m \in EventMetrics
    BY <1>3, <1>4, <2>1, EvidenceFacts
  <2>2. CASE m \notin EventMetrics
    <3>1. m \in ClassifiedMetrics
      BY <1>3, <2>2, EvidenceFacts
    <3>2. /\ ClassifiedMetrics \subseteq DOMAIN known
          /\ known[m] = Evidence(request[r].settings, database).result[m]
      BY <1>5, <3>1, RequestFacts DEF ReadHistory, ReadSoFar
    <3> QED
      BY <1>2, <1>4, <2>2, <3>1, <3>2
  <2> QED
    BY <2>1, <2>2
<1> HIDE DEF known
<1>6. request'[r] = q /\ UNCHANGED database
  BY <1>1, RequestFacts DEF ReadHistory
<1>7. ReadSoFar(r)'
  BY <1>2, <1>5, <1>6 DEF ReadSoFar
<1> QED
  BY <1>1, <1>2, <1>7, RequestFacts, RequestKeeps DEF ReadHistory, Steps, Working

(* Evidence that agrees on the metrics of the score gives the same values. *)
LEMMA SameValues ==
  ASSUME NEW e, NEW f, \A m \in EvaluatedMetrics : e.result[m] = f.result[m]
  PROVE  StoredValues(e) = StoredValues(f)
<1>1. ConfidenceMetrics \subseteq EvaluatedMetrics
  BY DEF ConfidenceMetrics, EvaluatedMetrics, ClassifiedMetrics, ClassificationMetrics,
         EventMetrics
<1> QED
  BY <1>1 DEF StoredValues

LEMMA SnapshotFields ==
  ASSUME NEW e, NEW inputs, NEW c
  PROVE  /\ {"values", "classification"} \subseteq
              DOMAIN MetricSnapshot(e, inputs, c) \ {"at", "disturbed"}
         /\ MetricSnapshot(e, inputs, c)["values"] = StoredValues(e)
         /\ MetricSnapshot(e, inputs, c)["classification"] = c
BY DEF MetricSnapshot

LEMMA ReadAvailabilityKeeps ==
  ASSUME RecomputeInv, NEW r \in Requests, ReadAvailability(r)
  PROVE  RecomputeInv'
<1> DEFINE committed == Evidence(request[r].settings, database)
           inputs == Inputs(request[r].evidence, committed)
           row == MetricSnapshot(request[r].evidence, inputs, request[r].settings)
           q == [request[r] EXCEPT !.step = "flush", !.row = row]
<1>1. request' = [request EXCEPT ![r] = q]
  BY RequestFacts DEF ReadAvailability, RequestFields
<1>2. /\ DOMAIN q = RequestFields
      /\ q.evidence = request[r].evidence
      /\ q.row = row
      /\ q.step = "flush" /\ q.at = request[r].at /\ q.settings = request[r].settings
      /\ q.disturbed = request[r].disturbed
  BY RequestFacts DEF RequestFields
<1>3. /\ {"values", "classification"} \subseteq DOMAIN row
      /\ row.values = StoredValues(request[r].evidence)
      /\ row.classification = request[r].settings
  BY SnapshotFields
<1> HIDE DEF q, row, inputs
<1>4. ~request[r].disturbed => row.values = StoredValues(committed)
  <2>1. SUFFICES ASSUME ~request[r].disturbed
                 PROVE  StoredValues(request[r].evidence) = StoredValues(committed)
    BY <1>3
  <2>2. \A m \in EvaluatedMetrics : request[r].evidence.result[m] = committed.result[m]
    BY <2>1, RequestFacts DEF ReadAvailability, ReadSoFar
  <2> QED
    BY <2>2, SameValues
<1>5. request'[r] = q /\ UNCHANGED database
  BY <1>1, RequestFacts DEF ReadAvailability
<1>6. ReadSoFar(r)'
  BY <1>2, <1>3, <1>4, <1>5 DEF ReadSoFar
<1> QED
  BY <1>1, <1>2, <1>6, RequestFacts, RequestKeeps DEF ReadAvailability, Steps, Working

LEMMA FlushKeeps ==
  ASSUME RecomputeInv, NEW r \in Requests, Flush(r)
  PROVE  RecomputeInv'
<1> DEFINE q == [request[r] EXCEPT !.step = "signal"]
<1>1. request' = [request EXCEPT ![r] = q]
  BY RequestFacts DEF Flush, RequestFields
<1>2. /\ DOMAIN q = RequestFields
      /\ q.evidence = request[r].evidence /\ q.row = request[r].row
      /\ q.step = "signal" /\ q.at = request[r].at /\ q.settings = request[r].settings
      /\ q.disturbed = request[r].disturbed
  BY RequestFacts DEF RequestFields
<1> HIDE DEF q
<1>3. request'[r] = q /\ UNCHANGED database
  BY <1>1, RequestFacts DEF Flush
<1>4. ReadSoFar(r)'
  BY <1>2, <1>3, RequestFacts DEF ReadSoFar, Flush
<1>5. lock = NoOne /\ \A p \in Requests : p # NoOne
  BY HoldersAssumption DEF Flush
<1>6. /\ lock' = r /\ lock' # "sync" /\ lock # "sync"
      /\ \A p \in Requests \ {r} : lock' = p <=> lock = p
      /\ UNCHANGED <<database, config, snapshots, signals, sync, clock>>
  BY <1>5, RequestFacts DEF Flush
<1> QED
  BY <1>1, <1>2, <1>4, <1>6, RequestFacts, RequestKeeps DEF Flush, Steps, Working

LEMMA EndedRequest ==
  ASSUME NEW s
  PROVE  LET q == [Idle EXCEPT !.step = s]
         IN /\ DOMAIN q = RequestFields
            /\ DOMAIN q.evidence = EvidenceFields
            /\ q.step = s /\ q.at = 0 /\ ~q.disturbed
BY DEF Idle, NoEvidence, RequestFields, EvidenceFields

(* A request that ends without a commit, and gives back the lock if it has *)
(* it.                                                                     *)
LEMMA FailureKeeps ==
  ASSUME RecomputeInv, NEW r \in Requests,
         request' = [request EXCEPT ![r] = [Idle EXCEPT !.step = "failed"]],
         lock' = IF lock = r THEN NoOne ELSE lock,
         UNCHANGED <<database, config, snapshots, signals, clock, sync>>
  PROVE  RecomputeInv'
<1> DEFINE q == [Idle EXCEPT !.step = "failed"]
<1>1. /\ DOMAIN q = RequestFields
      /\ DOMAIN q.evidence = EvidenceFields
      /\ q.step = "failed" /\ q.at = 0
  BY EndedRequest
<1> HIDE DEF q
<1>2. request' = [request EXCEPT ![r] = q]
  BY DEF q
<1>3. request'[r] = q
  BY <1>2, RequestFacts
<1>4. ReadSoFar(r)'
  BY <1>1, <1>3 DEF ReadSoFar
<1>5. \A p \in Requests : p # NoOne /\ p # "sync"
  BY HoldersAssumption
<1>6. /\ lock' \in Requests \cup {NoOne, "sync"}
      /\ lock' # r
      /\ lock' = "sync" <=> lock = "sync"
      /\ \A p \in Requests \ {r} : lock' = p <=> lock = p
  BY <1>5, RequestFacts
<1>7. /\ q.step \in Steps /\ q.step \notin Working /\ q.step # "signal"
      /\ q.at \in 0 .. clock' /\ clock' = clock
  BY <1>1, RequestFacts DEF Steps, Working
<1> QED
  BY <1>1, <1>2, <1>4, <1>6, <1>7, RequestKeeps

-----------------------------------------------------------------------------
(* Steps that commit, and the synchronization.                             *)

Kept == Appended(snapshots, snapshots') /\ Appended(signals, signals')

LEMMA CommitKeeps ==
  ASSUME RecomputeInv, NEW r \in Requests, Commit(r)
  PROVE  RecomputeInv' /\ Kept
<1> DEFINE row == request[r].row
           x == Stamped(row, request[r].at, request[r].disturbed)
           q == [Idle EXCEPT !.step = "done"]
<1>1. /\ Publish(x, Cardinality(DOMAIN database.tickets))
      /\ request[r].step = "signal" /\ lock = r
      /\ request[r].at \in 1 .. clock
      /\ request' = [request EXCEPT ![r] = q]
      /\ lock' = NoOne
      /\ UNCHANGED <<database, config, clock, sync>>
  BY RequestFacts DEF Commit, Steps, Working
<1>2. /\ {"values", "classification"} \subseteq DOMAIN row
      /\ row.classification = request[r].settings
      /\ ~request[r].disturbed =>
           row.values = StoredValues(Evidence(request[r].settings, database))
  BY <1>1, RequestFacts DEF ReadSoFar
<1>3. /\ DOMAIN q = RequestFields
      /\ DOMAIN q.evidence = EvidenceFields
      /\ q.step = "done" /\ q.at = 0
  BY EndedRequest
<1> HIDE DEF row, q
<1>4. /\ x.at = request[r].at
      /\ x.disturbed = request[r].disturbed
      /\ x.values = row.values
      /\ x.classification = row.classification
  BY <1>2, StampedFields
<1> HIDE DEF x
<1>5. /\ IsSequence(snapshots)' /\ IsSequence(signals)'
      /\ \A i \in DOMAIN snapshots' : snapshots'[i].at \in 1 .. clock
      /\ \A k \in DOMAIN signals' : signals'[k].snapshot \in DOMAIN snapshots'
      /\ LatestInv' /\ SignalOfLatest'
      /\ Kept
      /\ \/ Latest' = x
         \/ snapshots # <<>> /\ Latest' = Latest
  BY <1>1, <1>4, PublishKeeps DEF RecomputeInv, TypeOK, Shapes, Kept
<1>6. /\ request'[r] = q
      /\ DOMAIN request' = Requests
      /\ \A p \in Requests \ {r} : request'[p] = request[p]
  BY <1>1, RequestFacts
<1>7. TypeOK'
  <2>1. \A p \in Requests :
          /\ request'[p].step \in Steps
          /\ request'[p].at <= clock'
          /\ request'[p].step \in Working => request'[p].settings \in Configurations
          /\ lock' = p <=> request'[p].step = "signal"
    <3> TAKE p \in Requests
    <3>1. CASE p = r
      BY <1>1, <1>3, <1>6, <3>1, RequestFacts DEF Steps, Working
    <3>2. CASE p # r
      BY <1>1, <1>6, <3>2, RequestFacts
    <3> QED
      BY <3>1, <3>2
  <2> QED
    BY <1>1, <1>5, <2>1 DEF RecomputeInv, TypeOK
<1>8. Shapes'
  BY <1>1, <1>3, <1>5, <1>6, RequestFacts DEF RecomputeInv, Shapes
<1>9. Times'
  BY <1>1, <1>3, <1>6, RequestFacts DEF RecomputeInv, Times, Working
<1>10. ReadInv'
  BY <1>1, <1>3, <1>6 DEF RecomputeInv, ReadInv, ReadSoFar
<1>11. LatestIsCurrent'
  BY <1>1, <1>2, <1>4, <1>5 DEF RecomputeInv, LatestIsCurrent
<1> QED
  BY <1>5, <1>7, <1>8, <1>9, <1>10, <1>11 DEF RecomputeInv

LEMMA SyncWritesKeeps ==
  ASSUME RecomputeInv, SyncWrites
  PROVE  RecomputeInv'
<1>1. /\ lock = NoOne /\ lock' = "sync"
      /\ sync'.at = 0 /\ sync'.database \in Databases
      /\ DOMAIN sync' = {"database", "at", "settings", "count"}
      /\ UNCHANGED <<database, config, snapshots, signals, clock, request>>
  BY DEF SyncWrites
<1>2. \A r \in Requests : r # NoOne /\ r # "sync"
  BY HoldersAssumption
<1>3. TypeOK'
  BY <1>1, <1>2 DEF RecomputeInv, TypeOK
<1>4. Shapes'
  BY <1>1 DEF RecomputeInv, Shapes
<1>5. Times'
  BY <1>1 DEF RecomputeInv, Times, TypeOK
<1>6. LatestInv' /\ SignalOfLatest' /\ LatestIsCurrent' /\ ReadInv'
  BY <1>1 DEF RecomputeInv, LatestInv, SignalOfLatest, LatestIsCurrent, Latest,
              ReadInv, ReadSoFar
<1> QED
  BY <1>3, <1>4, <1>5, <1>6 DEF RecomputeInv

LEMMA SyncRecomputesKeeps ==
  ASSUME RecomputeInv, SyncRecomputes
  PROVE  RecomputeInv'
<1>1. clock \in Nat /\ DOMAIN sync = {"database", "at", "settings", "count"}
  BY DEF RecomputeInv, TypeOK, Shapes
<1>2. /\ lock = "sync" /\ clock' = clock + 1
      /\ sync'.at = clock + 1 /\ sync'.database = sync.database
      /\ DOMAIN sync' = {"database", "at", "settings", "count"}
      /\ UNCHANGED <<database, config, snapshots, signals, request, lock>>
  BY <1>1 DEF SyncRecomputes
<1>3. TypeOK'
  <2>1. \A r \in Requests : request'[r].at <= clock'
    BY <1>1, <1>2 DEF RecomputeInv, TypeOK, Times
  <2>2. \A i \in DOMAIN snapshots' : snapshots'[i].at \in 1 .. clock'
    BY <1>1, <1>2 DEF RecomputeInv, TypeOK
  <2> QED
    BY <1>1, <1>2, <2>1, <2>2 DEF RecomputeInv, TypeOK
<1>4. Shapes'
  BY <1>2 DEF RecomputeInv, Shapes
<1>5. Times'
  <2>1. \A i \in DOMAIN snapshots' : snapshots'[i].at < sync'.at
    BY <1>1, <1>2 DEF RecomputeInv, TypeOK
  <2> QED
    BY <1>1, <1>2, <2>1 DEF RecomputeInv, Times
<1>6. LatestInv' /\ SignalOfLatest' /\ LatestIsCurrent' /\ ReadInv'
  BY <1>2 DEF RecomputeInv, LatestInv, SignalOfLatest, LatestIsCurrent, Latest,
              ReadInv, ReadSoFar
<1> QED
  BY <1>3, <1>4, <1>5, <1>6 DEF RecomputeInv

LEMMA SyncFailsKeeps ==
  ASSUME RecomputeInv, SyncFails
  PROVE  RecomputeInv'
<1>1. clock \in Nat /\ DOMAIN sync = {"database", "at", "settings", "count"}
  BY DEF RecomputeInv, TypeOK, Shapes
<1>2. /\ lock = "sync" /\ lock' = NoOne /\ lock' # "sync"
      /\ sync'.at = 0
      /\ DOMAIN sync' = {"database", "at", "settings", "count"}
      /\ UNCHANGED <<database, config, snapshots, signals, clock, request>>
  BY <1>1, HoldersAssumption DEF SyncFails
<1>3. \A r \in Requests : r # NoOne /\ r # "sync"
  BY HoldersAssumption
<1>4. TypeOK'
  BY <1>2, <1>3 DEF RecomputeInv, TypeOK
<1>5. Shapes'
  BY <1>2 DEF RecomputeInv, Shapes
<1>6. Times'
  BY <1>1, <1>2 DEF RecomputeInv, Times
<1>7. LatestInv' /\ SignalOfLatest' /\ LatestIsCurrent' /\ ReadInv'
  BY <1>2 DEF RecomputeInv, LatestInv, SignalOfLatest, LatestIsCurrent, Latest,
              ReadInv, ReadSoFar
<1> QED
  BY <1>4, <1>5, <1>6, <1>7 DEF RecomputeInv

(* No request has the lock, so nobody is about to store what was read      *)
(* before; a request that has read something is marked.                    *)
LEMMA SyncCommitsKeeps ==
  ASSUME RecomputeInv, SyncCommits
  PROVE  RecomputeInv' /\ Kept
<1> DEFINE seen == Evidence(sync.settings, sync.database)
           row == MetricSnapshot(seen, seen, sync.settings)
           disturbed == FALSE
           x == Stamped(row, sync.at, disturbed)
<1>1. /\ Publish(x, seen.tickets)
      /\ lock = "sync" /\ lock' = NoOne /\ lock' # "sync"
      /\ database' = sync.database
      /\ UNCHANGED <<config, clock>>
  BY HoldersAssumption DEF SyncCommits
<1>2. clock \in Nat /\ DOMAIN sync = {"database", "at", "settings", "count"}
  BY DEF RecomputeInv, TypeOK, Shapes
<1>3. /\ sync.at \in 1 .. clock
      /\ \A i \in DOMAIN snapshots : snapshots[i].at < sync.at
      /\ sync'.at = 0
      /\ DOMAIN sync' = {"database", "at", "settings", "count"}
      /\ database' \in Databases
  BY <1>1, <1>2 DEF RecomputeInv, Times, Shapes, SyncCommits
<1>4. /\ {"values", "classification"} \subseteq DOMAIN row \ {"at", "disturbed"}
      /\ row.values = StoredValues(seen)
      /\ row.classification = sync.settings
  BY SnapshotFields
<1> HIDE DEF row, disturbed
<1>5. /\ x.at = sync.at
      /\ x.values = row.values
      /\ x.classification = row.classification
  BY <1>4, StampedFields
<1> HIDE DEF x
<1>6. /\ IsSequence(snapshots)' /\ IsSequence(signals)'
      /\ \A i \in DOMAIN snapshots' : snapshots'[i].at \in 1 .. clock
      /\ \A k \in DOMAIN signals' : signals'[k].snapshot \in DOMAIN snapshots'
      /\ LatestInv' /\ SignalOfLatest'
      /\ Kept
      /\ Latest' = x
  BY <1>1, <1>2, <1>3, <1>5, PublishKeeps DEF RecomputeInv, TypeOK, Shapes, Kept
<1>7. /\ DOMAIN request' = Requests
      /\ \A r \in Requests :
           /\ DOMAIN request'[r] = DOMAIN request[r]
           /\ request'[r].step = request[r].step /\ request'[r].at = request[r].at
           /\ request'[r].settings = request[r].settings
           /\ request'[r].evidence = request[r].evidence
           /\ request'[r].row = request[r].row
           /\ request[r].step \in Reading => request'[r].disturbed
  BY DEF SyncCommits, RecomputeInv, Shapes, RequestFields
<1>8. \A r \in Requests : request[r].step # "signal" /\ lock' # r
  BY <1>1, HoldersAssumption DEF RecomputeInv, TypeOK
<1>9. TypeOK'
  BY <1>1, <1>3, <1>6, <1>7, <1>8 DEF RecomputeInv, TypeOK
<1>10. Shapes'
  BY <1>1, <1>3, <1>6, <1>7 DEF RecomputeInv, Shapes
<1>11. Times'
  BY <1>1, <1>2, <1>3, <1>7 DEF RecomputeInv, Times
<1>12. ReadInv'
  <2> SUFFICES ASSUME NEW r \in Requests
               PROVE  ReadSoFar(r)'
    BY DEF ReadInv
  <2>1. ReadSoFar(r)
    BY DEF RecomputeInv, ReadInv
  <2>2. CASE request[r].step \in Reading
    BY <1>7, <1>8, <2>1, <2>2 DEF ReadSoFar
  <2>3. CASE request[r].step \notin Reading
    BY <1>7, <1>8, <2>3 DEF ReadSoFar, Reading
  <2> QED
    BY <2>2, <2>3
<1>13. LatestIsCurrent'
  BY <1>1, <1>4, <1>5, <1>6 DEF LatestIsCurrent
<1> QED
  BY <1>6, <1>9, <1>10, <1>11, <1>12, <1>13 DEF RecomputeInv

LEMMA ChangeConfigurationKeeps ==
  ASSUME RecomputeInv, ChangeConfiguration
  PROVE  RecomputeInv'
<1>1. /\ config' \in Configurations
      /\ UNCHANGED <<database, snapshots, signals, clock, request, lock, sync>>
  BY DEF ChangeConfiguration
<1> QED
  BY <1>1 DEF RecomputeInv, TypeOK, Shapes, Times, LatestInv, SignalOfLatest, ReadInv,
              ReadSoFar, LatestIsCurrent, Latest

-----------------------------------------------------------------------------
(* Theorems.                                                               *)

LEMMA InitialState == Init => RecomputeInv
<1> SUFFICES ASSUME Init PROVE RecomputeInv
  OBVIOUS
<1>1. /\ DOMAIN Idle = RequestFields
      /\ DOMAIN Idle.evidence = EvidenceFields
      /\ Idle.step = "idle" /\ Idle.at = 0
  BY DEF Idle, NoEvidence, RequestFields, EvidenceFields
<1>2. DOMAIN request = Requests /\ \A r \in Requests : request[r] = Idle
  BY DEF Init
<1>3. \A r \in Requests : r # NoOne /\ lock # "sync"
  BY HoldersAssumption DEF Init
<1>4. lock # "sync"
  BY HoldersAssumption DEF Init
<1>5. TypeOK
  BY <1>1, <1>2, <1>3 DEF Init, TypeOK, Steps, Working
<1>6. Shapes
  <2>1. IsSequence(<<>>)
    BY DEF IsSequence
  <2> QED
    BY <1>1, <1>2, <1>4, <2>1 DEF Init, Shapes, NoSync
<1>7. Times
  BY <1>1, <1>2, <1>4 DEF Init, Times, NoSync, Working
<1>8. ReadInv
  BY <1>1, <1>2 DEF ReadInv, ReadSoFar
<1>9. LatestInv /\ SignalOfLatest /\ LatestIsCurrent
  BY DEF Init, LatestInv, SignalOfLatest, LatestIsCurrent
<1> QED
  BY <1>5, <1>6, <1>7, <1>8, <1>9 DEF RecomputeInv

LEMMA NothingStored ==
  ASSUME RecomputeInv, UNCHANGED <<snapshots, signals>>
  PROVE  Kept
<1>1. Len(snapshots) \in Nat /\ Len(signals) \in Nat
  BY DEF RecomputeInv, Shapes, IsSequence
<1> QED
  BY <1>1 DEF Kept, Appended

LEMMA NextKeeps ==
  ASSUME RecomputeInv, [Next]_vars
  PROVE  RecomputeInv' /\ Kept
<1>1. ASSUME NEW r \in Requests, RequestStep(r)
      PROVE  RecomputeInv' /\ Kept
  <2>1. CASE Start(r)
    BY <2>1, StartKeeps, NothingStored DEF Start
  <2>2. CASE ReadTickets(r)
    BY <2>2, ReadTicketsKeeps, NothingStored DEF ReadTickets
  <2>3. CASE ReadHistory(r)
    BY <2>3, ReadHistoryKeeps, NothingStored DEF ReadHistory
  <2>4. CASE ReadAvailability(r)
    BY <2>4, ReadAvailabilityKeeps, NothingStored DEF ReadAvailability
  <2>5. CASE Flush(r)
    BY <2>5, FlushKeeps, NothingStored DEF Flush
  <2>6. CASE LockTimeout(r)
    <3>1. lock # r
      BY <2>6, RequestFacts DEF LockTimeout
    <3> QED
      BY <2>6, <3>1, FailureKeeps, NothingStored DEF LockTimeout
  <2>7. CASE Commit(r)
    BY <2>7, CommitKeeps
  <2>8. CASE RequestFails(r)
    BY <2>8, FailureKeeps, NothingStored DEF RequestFails
  <2> QED
    BY <1>1, <2>1, <2>2, <2>3, <2>4, <2>5, <2>6, <2>7, <2>8 DEF RequestStep
<1>2. CASE SyncWrites
  BY <1>2, SyncWritesKeeps, NothingStored DEF SyncWrites
<1>3. CASE SyncRecomputes
  BY <1>3, SyncRecomputesKeeps, NothingStored DEF SyncRecomputes
<1>4. CASE SyncCommits
  BY <1>4, SyncCommitsKeeps
<1>5. CASE SyncFails
  BY <1>5, SyncFailsKeeps, NothingStored DEF SyncFails
<1>6. CASE ChangeConfiguration
  BY <1>6, ChangeConfigurationKeeps, NothingStored DEF ChangeConfiguration
<1>7. CASE UNCHANGED vars
  <2>1. RecomputeInv'
    BY <1>7 DEF vars, RecomputeInv, TypeOK, Shapes, Times, LatestInv, SignalOfLatest,
                ReadInv, ReadSoFar, LatestIsCurrent, Latest
  <2> QED
    BY <1>7, <2>1, NothingStored DEF vars
<1> QED
  BY <1>1, <1>2, <1>3, <1>4, <1>5, <1>6, <1>7 DEF Next

(* The inductive invariant of a recalculation.                             *)
THEOREM RecomputeInvariance == Spec => []RecomputeInv
<1>1. RecomputeInv /\ [Next]_vars => RecomputeInv'
  BY NextKeeps
<1> QED
  BY InitialState, <1>1, PTL DEF Spec

(* The shape of requests, and who has the write lock                       *)
(* (metric_recompute_service.py).                                          *)
THEOREM TypeCorrect == Spec => []TypeOK
<1>1. RecomputeInv => TypeOK
  BY DEF RecomputeInv
<1> QED
  BY RecomputeInvariance, <1>1, PTL

(* Whoever overtakes whom, the signal read last is that of the snapshot    *)
(* read last (create_signal, get_latest_snapshot).                         *)
THEOREM SignalsFollowSnapshots == Spec => []SignalOfLatest
<1>1. RecomputeInv => SignalOfLatest
  BY DEF RecomputeInv
<1> QED
  BY RecomputeInvariance, <1>1, PTL

(* The latest snapshot describes the committed tickets unless a            *)
(* synchronization committed into its calculation                          *)
(* (recompute_release_metrics, sync_from_jira).                            *)
THEOREM LatestDescribesTickets == Spec => []LatestIsCurrent
<1>1. RecomputeInv => LatestIsCurrent
  BY DEF RecomputeInv
<1> QED
  BY RecomputeInvariance, <1>1, PTL

(* Stored snapshots and signals are never changed or removed               *)
(* (metric_repository.py, signal_repository.py).                           *)
THEOREM ResultsStay == Spec => ResultsAreImmutable
<1>1. RecomputeInv /\ [Next]_vars =>
        [/\ Len(snapshots') >= Len(snapshots)
         /\ \A i \in DOMAIN snapshots : snapshots'[i] = snapshots[i]
         /\ Len(signals') >= Len(signals)
         /\ \A k \in DOMAIN signals : signals'[k] = signals[k]]_vars
  BY NextKeeps DEF Kept, Appended
<1> QED
  BY RecomputeInvariance, <1>1, PTL DEF Spec, ResultsAreImmutable

=============================================================================
