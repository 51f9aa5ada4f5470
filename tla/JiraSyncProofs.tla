--------------------------- MODULE JiraSyncProofs ---------------------------
(***************************************************************************)
(* Proofs about JiraSync for every set of issues and every bound on Jira's *)
(* changes and on failures.                                                *)
(***************************************************************************)
EXTENDS JiraSync, TLAPS

LEMMA TypeInit == Init => TypeOK
<1>1. Never \in [Issues -> Times]
  BY BoundsAssumption DEF Never, Times
<1>2. EmptyDatabase \in Databases
  BY <1>1, BoundsAssumption DEF EmptyDatabase, Databases, Times
<1>3. 0 \in Times /\ 0 \in Nat
  BY BoundsAssumption DEF Times
<1>4. QED
  BY <1>1, <1>2, <1>3, Zenon DEF Init, TypeOK

LEMMA TypeStep == TypeOK /\ [Next]_vars => TypeOK'
<1> SUFFICES ASSUME TypeOK, [Next]_vars PROVE TypeOK'
  OBVIOUS
<1> USE DEF TypeOK, world, scan
<1>n. Never \in [Issues -> Times] /\ 0 \in Times
  BY BoundsAssumption DEF Never, Times
<1>f. ASSUME Fault PROVE faults' \in Nat
  BY <1>f DEF Fault
<1>1. CASE ChangeIssues
  BY <1>1, BoundsAssumption DEF ChangeIssues, Times, Databases
<1>2. CASE RemoveIssue
  BY <1>2 DEF RemoveIssue
<1>3. ASSUME NEW wanted \in {"incremental", "full"}, StartSync(wanted)
      PROVE  TypeOK'
  BY <1>3 DEF StartSync, Databases
<1>4. CASE StartFails
  BY <1>4, <1>f DEF StartFails, Databases
<1>5. CASE ListIssue
  BY <1>5, <1>n DEF ListIssue
<1>6. CASE FinishListing
  BY <1>6 DEF FinishListing
<1>7. ASSUME NEW i \in todo, SkipIssue(i) PROVE TypeOK'
  BY <1>7 DEF SkipIssue, Larger
<1>8. CASE FetchDetails
  <2>1. PICK i \in todo :
          /\ session' = [session EXCEPT !.rows[i] = jira[i], !.missed = @ \ {i}]
          /\ newest' = Larger(newest, jira[i])
          /\ late' = late \ {i}
    BY <1>8 DEF FetchDetails
  <2>2. session' \in Databases
    BY <2>1 DEF Databases
  <2>3. QED
    BY <1>8, <2>1, <2>2 DEF FetchDetails, Larger
<1>9. CASE SkipFailedIssue
  BY <1>9, <1>f DEF SkipFailedIssue
<1>10. CASE FetchChangelog
  <2>1. PICK i \in todo :
          session' = [session EXCEPT !.history[i] = jira[i],
                                     !.complete = @ \cup {i}]
    BY <1>10 DEF FetchChangelog
  <2>2. session' \in Databases
    BY <2>1 DEF Databases
  <2>3. QED
    BY <1>10, <2>2 DEF FetchChangelog
<1>11. CASE Succeed
  <2>1. NextCursor \in Times
    BY DEF NextCursor, Databases
  <2>2. stored' \in Databases
    BY <1>11, <2>1 DEF Succeed, Databases
  <2>3. QED
    BY <1>11, <1>n, <2>2 DEF Succeed, EndSync
<1>12. CASE Fail
  <2>1. [stored EXCEPT !.status = "failed"] \in Databases
    BY DEF Databases
  <2>2. stored' \in Databases /\ session' \in Databases
    BY <1>12, <2>1 DEF Fail
  <2>3. faults' \in Nat
    BY <1>12, <1>f DEF Fail
  <2>4. QED
    BY <1>12, <1>n, <2>2, <2>3 DEF Fail, EndSync
<1>13. CASE Cancel
  BY <1>13, <1>f, <1>n DEF Cancel, EndSync
<1>14. CASE UNCHANGED vars
  BY <1>14 DEF vars
<1>15. QED
  BY <1>1, <1>2, <1>3, <1>4, <1>5, <1>6, <1>7, <1>8, <1>9, <1>10, <1>11,
     <1>12, <1>13, <1>14 DEF Next, SyncStep

(* Type correctness: stored and session keep the shape of the tables, the  *)
(* cursor is always one of Jira's timestamps, never a local time.          *)
THEOREM TypeCorrect == Spec => []TypeOK
  BY TypeInit, TypeStep, PTL DEF Spec

-----------------------------------------------------------------------------

(* Only one issue is next in key order.                                    *)
LEMMA OneNext ==
  ASSUME TypeOK, NEW i \in Issues, NEW j \in Issues, IsNext(i), IsNext(j)
  PROVE  i = j
  BY IssuesAssumption DEF TypeOK, IsNext

LEMMA InitInv == Init => SyncInv
  BY TypeInit, BoundsAssumption
  DEF Init, SyncInv, Ordered, Resting, Trusted, Paired, WithHistory, Listed,
      Processed, Never, EmptyDatabase, Listable

LEMMA ChangeIssuesInv == SyncInv /\ TypeOK' /\ ChangeIssues => SyncInv'
<1> SUFFICES ASSUME SyncInv, TypeOK', ChangeIssues PROVE SyncInv'
  OBVIOUS
<1> USE DEF TypeOK, Times, Databases, world, scan
<1>1. PICK S \in SUBSET (Issues \ removed) \ {{}} :
        /\ clock' = clock + 1
        /\ jira' = [i \in Issues |-> IF i \in S THEN clock' ELSE jira[i]]
        /\ late' = late \cup {i \in S : summaries[i] > 0}
        /\ stored' = [stored EXCEPT !.missed = @ \ S]
        /\ session' = [session EXCEPT !.missed = @ \ S]
        /\ UNCHANGED <<removed, pc, scan, faults>>
  BY DEF ChangeIssues
<1>t. TypeOK
  BY DEF SyncInv
<1>2. /\ \A i \in S : jira'[i] = clock + 1 /\ i \in Issues
      /\ \A i \in Issues \ S : jira'[i] = jira[i]
  BY <1>1, <1>t
<1>3. Ordered'
  BY <1>1, <1>2, <1>t, BoundsAssumption DEF SyncInv, Ordered
<1>4. Resting'
  <2>1. stored'.status = stored.status
    BY <1>1, <1>t
  <2>2. pc = "idle" => session' = stored' /\ summaries' = Never /\ late' = {}
    BY <1>1, <1>t DEF SyncInv, Resting, Never
  <2>3. QED
    BY <1>1, <2>1, <2>2 DEF SyncInv, Resting
<1>5. Trusted(stored)' /\ Trusted(session)'
  BY <1>1, <1>2, <1>t, BoundsAssumption DEF SyncInv, Ordered, Trusted, Listable
<1>6. Paired'
  BY <1>1, <1>t DEF SyncInv, Paired, WithHistory, IsNext
<1>7. Listed'
  BY <1>1, <1>2, <1>t DEF SyncInv, Listed, Ordered, Listable
<1>8. Processed'
  BY <1>1, <1>2, <1>t DEF SyncInv, Processed, Listable, IsNext
<1>9. QED
  BY <1>3, <1>4, <1>5, <1>6, <1>7, <1>8 DEF SyncInv

LEMMA RemoveIssueInv == SyncInv /\ TypeOK' /\ RemoveIssue => SyncInv'
<1> SUFFICES ASSUME SyncInv, TypeOK', RemoveIssue PROVE SyncInv'
  OBVIOUS
<1>1. /\ removed \subseteq removed'
      /\ UNCHANGED <<clock, jira, stored, session, pc, scan, late>>
  BY DEF RemoveIssue
<1>2. (Trusted(stored) /\ Trusted(session) /\ Listed)'
  BY <1>1 DEF SyncInv, Trusted, Listed, Listable, scan
<1>3. (Ordered /\ Resting /\ Paired /\ Processed)'
  BY <1>1 DEF SyncInv, Ordered, Resting, Paired, WithHistory, Processed,
     Listable, IsNext, Never, scan
<1>4. QED
  BY <1>2, <1>3 DEF SyncInv

(* The steps that leave both databases as they were, except for a status,  *)
(* and no sync running.                                                    *)
LEMMA RestInv ==
  ASSUME SyncInv, TypeOK', UNCHANGED world, session' = stored',
         \E s \in {"idle", "running", "succeeded", "failed"} :
           stored' = [stored EXCEPT !.status = s],
         summaries' = Never, late' = {}, newest' <= clock, pc' = "idle"
  PROVE  SyncInv'
<1>1. /\ stored'.rows = stored.rows /\ stored'.history = stored.history
      /\ stored'.complete = stored.complete /\ stored'.cursor = stored.cursor
      /\ stored'.missed = stored.missed
  BY DEF SyncInv, TypeOK, Databases
<1>2. (Ordered /\ Resting)'
  BY <1>1, BoundsAssumption
  DEF SyncInv, Ordered, Resting, Never, world, TypeOK, Times
<1>3. (Trusted(stored) /\ Trusted(session))'
  BY <1>1 DEF SyncInv, Trusted, Listable, world
<1>4. (Paired /\ Listed /\ Processed)'
  BY <1>1 DEF SyncInv, Paired, WithHistory, Listed, Processed, Never
<1>5. QED
  BY <1>2, <1>3, <1>4 DEF SyncInv

LEMMA StartSyncInv ==
  ASSUME SyncInv, TypeOK', NEW wanted \in {"incremental", "full"},
         StartSync(wanted)
  PROVE  SyncInv'
<1>1. /\ stored'.rows = stored.rows /\ stored'.history = stored.history
      /\ stored'.complete = stored.complete /\ stored'.cursor = stored.cursor
      /\ stored'.missed = stored.missed /\ session' = stored'
      /\ stored'.status = "running"
  BY DEF SyncInv, TypeOK, Databases, StartSync
<1>2. /\ pc' = "listing" /\ todo' = Issues /\ summaries' = Never /\ late' = {}
      /\ UNCHANGED <<world, newest>> /\ session = stored
  BY DEF SyncInv, Resting, StartSync
<1>3. (Ordered /\ Resting)'
  BY <1>1, <1>2, BoundsAssumption
  DEF SyncInv, Ordered, Resting, world, Never, TypeOK, Times
<1>4. (Trusted(stored) /\ Trusted(session))'
  BY <1>1, <1>2 DEF SyncInv, Trusted, Listable, world
<1>5. (Paired /\ Listed /\ Processed)'
  BY <1>1, <1>2 DEF SyncInv, Paired, WithHistory, Listed, Processed, Never
<1>6. QED
  BY <1>3, <1>4, <1>5 DEF SyncInv

LEMMA ListIssueInv == SyncInv /\ TypeOK' /\ ListIssue => SyncInv'
<1> SUFFICES ASSUME SyncInv, TypeOK', ListIssue PROVE SyncInv'
  OBVIOUS
<1>1. PICK i \in todo :
        /\ todo' = todo \ {i}
        /\ summaries' = [summaries EXCEPT ![i] = IF Listable(i) THEN jira[i] ELSE 0]
  BY DEF ListIssue
<1>2. /\ pc = "listing" /\ pc' = "listing"
      /\ UNCHANGED <<clock, jira, removed, stored, session, newest, late>>
  BY DEF ListIssue, world
<1>3. (Ordered /\ Resting)'
  BY <1>1, <1>2, BoundsAssumption DEF SyncInv, Ordered, Resting, TypeOK, Times
<1>4. (Trusted(stored) /\ Trusted(session))'
  BY <1>2 DEF SyncInv, Trusted, Listable
<1>5. Paired'
  BY <1>2 DEF SyncInv, Paired, WithHistory
<1>6. (Listed /\ Processed)'
  BY <1>1, <1>2 DEF SyncInv, Listed, Processed, TypeOK, Listable
<1>7. QED
  BY <1>3, <1>4, <1>5, <1>6 DEF SyncInv

LEMMA FinishListingInv == SyncInv /\ TypeOK' /\ FinishListing => SyncInv'
<1> SUFFICES ASSUME SyncInv, TypeOK', FinishListing PROVE SyncInv'
  OBVIOUS
<1>1. /\ pc = "listing" /\ todo = {} /\ pc' = "issues"
      /\ todo' = {i \in Issues : summaries[i] > 0}
      /\ UNCHANGED <<clock, jira, removed, stored, session, summaries, newest, late>>
  BY DEF FinishListing, world
<1>2. (Ordered /\ Resting)'
  BY <1>1 DEF SyncInv, Ordered, Resting
<1>3. (Trusted(stored) /\ Trusted(session))'
  BY <1>1 DEF SyncInv, Trusted, Listable
<1>4. (Paired /\ Listed /\ Processed)'
  BY <1>1 DEF SyncInv, Paired, WithHistory, Listed, Processed, Listable
<1>5. QED
  BY <1>2, <1>3, <1>4 DEF SyncInv

LEMMA SkipIssueInv ==
  ASSUME SyncInv, TypeOK', NEW i \in todo, SkipIssue(i)
  PROVE  SyncInv'
<1>1. /\ pc = "issues" /\ IsNext(i) /\ CanSkip(i)
      /\ newest' = Larger(newest, summaries[i])
      /\ todo' = todo \ {i}
      /\ UNCHANGED <<clock, jira, removed, stored, session, pc, summaries,
                     skipped, late>>
  BY DEF SkipIssue, world
<1>t. TypeOK /\ i \in Issues
  BY DEF SyncInv, TypeOK
<1>2. (Ordered /\ Resting)'
  BY <1>1, <1>t DEF SyncInv, Ordered, Resting, Larger, TypeOK, Times
<1>3. (Trusted(stored) /\ Trusted(session))'
  BY <1>1 DEF SyncInv, Trusted, Listable
<1>4. (Paired /\ Listed)'
  BY <1>1 DEF SyncInv, Paired, WithHistory, Listed, Listable, IsNext
<1>5. Processed'
  <2>1. summaries[i] > 0 /\ i \notin late =>
          i \in session.missed \/ session.rows[i] = jira[i] \/ ~Listable(i)
    <3> SUFFICES ASSUME summaries[i] > 0, i \notin late, Listable(i),
                        session.rows[i] # jira[i]
                 PROVE  i \in session.missed
      OBVIOUS
    <3>1. summaries[i] = jira[i]
      BY <1>t DEF SyncInv, Processed
    <3>2. jira[i] <= session.cursor /\ session.rows[i] > 0
      BY <1>1, <3>1 DEF CanSkip
    <3>3. QED
      BY <1>t, <3>2 DEF SyncInv, Trusted
  <2>2. QED
    BY <1>1, <1>t, <2>1 DEF SyncInv, Processed, Listable, IsNext
<1>6. QED
  BY <1>2, <1>3, <1>4, <1>5 DEF SyncInv

LEMMA FetchDetailsInv == SyncInv /\ TypeOK' /\ FetchDetails => SyncInv'
<1> SUFFICES ASSUME SyncInv, TypeOK', FetchDetails PROVE SyncInv'
  OBVIOUS
<1>1. PICK i \in todo :
        /\ IsNext(i) /\ Listable(i)
        /\ session' = [session EXCEPT !.rows[i] = jira[i], !.missed = @ \ {i}]
        /\ newest' = Larger(newest, jira[i])
        /\ late' = late \ {i}
  BY DEF FetchDetails, MustFetch
<1>2. /\ pc = "issues" /\ pc' = "changelog"
      /\ UNCHANGED <<clock, jira, removed, stored, todo, summaries, skipped>>
  BY DEF FetchDetails, world
<1>t. TypeOK /\ i \in Issues
  BY DEF SyncInv, TypeOK
<1>j. session \in Databases /\ jira[i] \in Times
  BY <1>t DEF TypeOK
<1>3. /\ session'.rows = [session.rows EXCEPT ![i] = jira[i]]
      /\ session'.missed = session.missed \ {i}
      /\ session'.history = session.history
      /\ session'.complete = session.complete
      /\ session'.cursor = session.cursor
  BY <1>1, <1>t, <1>j DEF Databases
<1>r. /\ session'.rows[i] = jira[i]
      /\ \A j \in Issues \ {i} : session'.rows[j] = session.rows[j]
  BY <1>3, <1>t DEF TypeOK, Databases
<1>4. (Ordered /\ Resting)'
  BY <1>1, <1>2, <1>3, <1>r, <1>t DEF SyncInv, Ordered, Resting, Larger, TypeOK, Times
<1>5. (Trusted(stored) /\ Trusted(session))'
  BY <1>2, <1>3, <1>r DEF SyncInv, Trusted, Listable
<1>6. Paired'
  BY <1>1, <1>2, <1>3, <1>r DEF SyncInv, Paired, WithHistory, IsNext
<1>7. Listed'
  BY <1>1, <1>2, <1>r DEF SyncInv, Listed, Listable
<1>n. \A j \in Issues : IsNext(j) => j = i
  BY <1>1, <1>t, OneNext
<1>8. Processed'
  BY <1>1, <1>2, <1>3, <1>r, <1>n DEF SyncInv, Processed, Listable, IsNext
<1>9. QED
  BY <1>4, <1>5, <1>6, <1>7, <1>8 DEF SyncInv

LEMMA SkipFailedIssueInv == SyncInv /\ TypeOK' /\ SkipFailedIssue => SyncInv'
<1> SUFFICES ASSUME SyncInv, TypeOK', SkipFailedIssue PROVE SyncInv'
  OBVIOUS
<1>1. PICK i \in todo : todo' = todo \ {i}
  BY DEF SkipFailedIssue
<1>2. /\ pc = "issues" /\ skipped' = TRUE
      /\ UNCHANGED <<clock, jira, removed, stored, session, pc, summaries,
                     newest, late>>
  BY DEF SkipFailedIssue, world
<1>3. (Ordered /\ Resting)'
  BY <1>2 DEF SyncInv, Ordered, Resting
<1>4. (Trusted(stored) /\ Trusted(session))'
  BY <1>2 DEF SyncInv, Trusted, Listable
<1>5. (Paired /\ Listed)'
  BY <1>1, <1>2 DEF SyncInv, Paired, WithHistory, Listed, Listable
<1>6. Processed'
  BY <1>2 DEF SyncInv, Processed
<1>7. QED
  BY <1>3, <1>4, <1>5, <1>6 DEF SyncInv

LEMMA FetchChangelogInv == SyncInv /\ TypeOK' /\ FetchChangelog => SyncInv'
<1> SUFFICES ASSUME SyncInv, TypeOK', FetchChangelog PROVE SyncInv'
  OBVIOUS
<1>1. PICK i \in todo :
        /\ IsNext(i)
        /\ session' = [session EXCEPT !.history[i] = jira[i],
                                      !.complete = @ \cup {i}]
        /\ todo' = todo \ {i}
  BY DEF FetchChangelog
<1>2. /\ pc = "changelog" /\ pc' = "issues"
      /\ UNCHANGED <<clock, jira, removed, stored, summaries, newest, skipped,
                     late>>
  BY DEF FetchChangelog, world
<1>t. TypeOK /\ i \in Issues
  BY DEF SyncInv, TypeOK
<1>j. session \in Databases /\ jira[i] \in Times
  BY <1>t DEF TypeOK
<1>3. /\ session'.history = [session.history EXCEPT ![i] = jira[i]]
      /\ session'.complete = session.complete \cup {i}
      /\ session'.rows = session.rows
      /\ session'.missed = session.missed
      /\ session'.cursor = session.cursor
  BY <1>1, <1>t, <1>j DEF Databases
<1>h. /\ session'.history[i] = jira[i]
      /\ \A j \in Issues \ {i} : session'.history[j] = session.history[j]
  BY <1>3, <1>t DEF TypeOK, Databases
<1>n. \A j \in Issues : IsNext(j) => j = i
  BY <1>1, <1>t, OneNext
<1>4. (Ordered /\ Resting)'
  BY <1>2, <1>3, <1>h, <1>t DEF SyncInv, Ordered, Resting, TypeOK, Times
<1>5. (Trusted(stored) /\ Trusted(session))'
  BY <1>2, <1>3 DEF SyncInv, Trusted, Listable
<1>6. Paired'
  BY <1>2, <1>3, <1>h, <1>n, <1>t DEF SyncInv, Paired, Ordered, WithHistory
<1>7. Listed'
  BY <1>1, <1>2, <1>3 DEF SyncInv, Listed, Listable
<1>8. Processed'
  BY <1>1, <1>2, <1>3, <1>t DEF SyncInv, Processed, Listable
<1>9. QED
  BY <1>4, <1>5, <1>6, <1>7, <1>8 DEF SyncInv

(* The commit: a newer cursor covers only what this sync stored, found     *)
(* stored, or now counts as missed.                                        *)
LEMMA SucceedInv == SyncInv /\ TypeOK' /\ Succeed => SyncInv'
<1> SUFFICES ASSUME SyncInv, TypeOK', Succeed PROVE SyncInv'
  OBVIOUS
<1> DEFINE passed == {i \in late : jira[i] <= NextCursor}
<1>1. /\ pc = "issues" /\ todo = {} /\ pc' = "idle" /\ summaries' = Never
      /\ late' = {} /\ newest' = 0 /\ todo' = {} /\ session' = stored'
      /\ UNCHANGED <<clock, jira, removed>>
  BY DEF Succeed, EndSync, world
<1>t. TypeOK
  BY DEF SyncInv
<1>2. /\ stored'.rows = session.rows /\ stored'.history = session.history
      /\ stored'.complete = session.complete
      /\ stored'.cursor = NextCursor
      /\ stored'.missed = session.missed \cup passed
  BY <1>t DEF Succeed, TypeOK, Databases
<1>3. NextCursor <= clock
  BY <1>t DEF SyncInv, Ordered, NextCursor
<1>4. (Ordered /\ Resting)'
  BY <1>1, <1>2, <1>3, <1>t, BoundsAssumption
  DEF SyncInv, Ordered, Resting, Never, TypeOK, Times
<1>5. ASSUME NEW i \in Issues, i \notin session.missed \cup passed,
             Listable(i), session.rows[i] > 0, jira[i] <= NextCursor
      PROVE  session.rows[i] = jira[i]
  <2>1. CASE NextCursor = session.cursor
    BY <1>5, <2>1 DEF SyncInv, Trusted
  <2>2. CASE ~skipped
    <3>1. i \notin late /\ summaries[i] > 0
      BY <1>1, <1>5 DEF SyncInv, Listed
    <3>2. QED
      BY <1>1, <1>5, <2>2, <3>1 DEF SyncInv, Processed
  <2>3. QED
    BY <2>1, <2>2 DEF NextCursor
<1>6. (Trusted(stored) /\ Trusted(session))'
  BY <1>1, <1>2, <1>5 DEF Trusted, Listable
<1>7. (Paired /\ Listed /\ Processed)'
  BY <1>1, <1>2 DEF SyncInv, Paired, WithHistory, Listed, Processed, Never
<1>8. QED
  BY <1>4, <1>6, <1>7 DEF SyncInv

LEMMA StepInv == SyncInv /\ [Next]_vars => SyncInv'
<1> SUFFICES ASSUME SyncInv, [Next]_vars PROVE SyncInv'
  OBVIOUS
<1>t. TypeOK'
  BY TypeStep DEF SyncInv
<1>s. \E s \in {"idle", "running", "succeeded", "failed"} :
        stored = [stored EXCEPT !.status = s]
  BY DEF SyncInv, TypeOK, Databases
<1>c. 0 <= clock
  BY BoundsAssumption DEF SyncInv, TypeOK, Times
<1>1. CASE StartFails
  <2>1. /\ pc' = "idle" /\ summaries' = Never /\ late' = {}
        /\ newest' <= clock /\ session' = stored'
        /\ stored' = [stored EXCEPT !.status = "failed"]
        /\ UNCHANGED world
    BY <1>1 DEF StartFails, SyncInv, Resting, Ordered, scan
  <2>2. QED
    BY <1>t, <2>1, RestInv
<1>2. CASE Fail
  <2>1. \E s \in {"idle", "running", "succeeded", "failed"} :
          stored' = [stored EXCEPT !.status = s]
    BY <1>2, <1>s DEF Fail
  <2>2. QED
    BY <1>2, <1>t, <1>c, <2>1, RestInv DEF Fail, EndSync
<1>3. CASE Cancel
  <2>1. \E s \in {"idle", "running", "succeeded", "failed"} :
          stored' = [stored EXCEPT !.status = s]
    BY <1>3, <1>s DEF Cancel
  <2>2. QED
    BY <1>3, <1>t, <1>c, <2>1, RestInv DEF Cancel, EndSync
<1>4. CASE UNCHANGED vars
  BY <1>4, <1>t DEF vars, SyncInv, Ordered, Resting, Trusted, Paired,
     WithHistory, Listed, Processed, Listable, IsNext, Never
<1>5. QED
  BY <1>t, <1>1, <1>2, <1>3, <1>4, ChangeIssuesInv, RemoveIssueInv,
     StartSyncInv, ListIssueInv, FinishListingInv, SkipIssueInv,
     FetchDetailsInv, SkipFailedIssueInv, FetchChangelogInv, SucceedInv
  DEF Next, SyncStep

(* The inductive invariant of a synchronization: what it has listed, read  *)
(* and stored, against what Jira held when it did.                         *)
THEOREM Invariance == Spec => []SyncInv
  BY InitInv, StepInv, PTL DEF Spec

(* The cursor of jira_project_sync_state covers only issues that are       *)
(* stored in Jira's version with their changelog, or that were changed     *)
(* while a sync was reading.                                               *)
THEOREM CursorIsTrusted == Spec => []TrustedCursor
<1>1. SyncInv => TrustedCursor
  BY DEF SyncInv, Trusted, Paired, WithHistory, TrustedCursor
<1>2. QED
  BY <1>1, Invariance, PTL

(* A changelog marked complete by mark_issue_changelog_complete covers the *)
(* stored version of its issue.                                            *)
THEOREM HistoryIsWhole == Spec => []HistoryCoversIssue
<1>1. SyncInv => HistoryCoversIssue
  BY BoundsAssumption DEF SyncInv, Paired, WithHistory, HistoryCoversIssue,
     TypeOK, Databases, Times
<1>2. QED
  BY <1>1, Invariance, PTL

(* get_jira_sync_status says "running" exactly while a sync runs.          *)
THEOREM StatusIsHonest == Spec => []RunningIsShown
<1>1. SyncInv => RunningIsShown
  BY DEF SyncInv, Resting, RunningIsShown, ShownStatus
<1>2. QED
  BY <1>1, Invariance, PTL

(* What the database shows changes in a sync's one commit or not at all,   *)
(* and a sync that had to skip an issue leaves the cursor.                 *)
THEOREM Atomicity == Spec => AllOrNothing
<1>1. SyncInv /\ [Next]_vars => [CommitsWhole]_vars
  <2> SUFFICES ASSUME SyncInv, Next PROVE CommitsWhole
    BY DEF vars, CommitsWhole
  <2>1. CASE Succeed
    <3>1. /\ pc = "issues" /\ todo = {} /\ pc' = "idle"
          /\ stored'.status = "succeeded" /\ stored'.cursor = NextCursor
      BY <2>1 DEF Succeed, EndSync, SyncInv, TypeOK, Databases
    <3>2. skipped => NextCursor = stored.cursor
      BY DEF NextCursor, SyncInv, Ordered
    <3>3. QED
      BY <3>1, <3>2 DEF CommitsWhole
  <2>2. ASSUME ~Succeed
        PROVE  /\ stored'.rows = stored.rows
               /\ stored'.history = stored.history
               /\ stored'.cursor = stored.cursor
    BY <2>2 DEF Next, SyncStep, ChangeIssues, RemoveIssue, StartSync,
       StartFails, ListIssue, FinishListing, SkipIssue, FetchDetails,
       SkipFailedIssue, FetchChangelog, Fail, Cancel, SyncInv, TypeOK,
       Databases
  <2>3. QED
    BY <2>1, <2>2 DEF CommitsWhole
<1>2. QED
  BY <1>1, Invariance, PTL DEF Spec, AllOrNothing

=============================================================================
