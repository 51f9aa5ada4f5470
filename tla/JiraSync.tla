------------------------------ MODULE JiraSync ------------------------------
(***************************************************************************)
(* The Jira synchronization of the backend (services/sync_service.py,      *)
(* repositories/sync_repository.py): one asyncio task at a time scans the  *)
(* project's issue summaries, fetches the details and the changelog of the *)
(* issues it does not trust, and commits everything in one transaction     *)
(* with a cursor, the newest Jira timestamp it accepted.                   *)
(*                                                                         *)
(* Every request to Jira is an await: Jira's users change issues between   *)
(* any two of them. An issue is abstracted to its "updated" timestamp,     *)
(* which identifies its version; timestamps are ticks of Jira's clock, and *)
(* a bulk change gives several issues the same one. A page of summaries    *)
(* holds one issue (jira_sync_page_size = 1, the finest interleaving).     *)
(* Releases, sprints and the recomputed metrics are left to other modules. *)
(***************************************************************************)
EXTENDS Naturals, FiniteSets

CONSTANTS
  Issues,     \* the issue keys of the project, numbered in key order
  MaxClock,   \* bound on the ticks of Jira's clock at which issues change
  MaxFaults   \* bound on failed requests and writes, and on cancelled syncs

ASSUME IssuesAssumption == Issues \subseteq Nat /\ IsFiniteSet(Issues)
ASSUME BoundsAssumption == MaxClock \in Nat /\ MaxFaults \in Nat

VARIABLES
  clock,      \* Jira's clock
  jira,       \* the timestamp of each issue in Jira; 0: not created yet
  removed,    \* issues deleted from the project
  stored,     \* the committed database
  session,    \* what the running sync's transaction sees of it
  pc,         \* where the running sync is
  mode,       \* the mode asked for, and from "issues" on the effective one
  todo,       \* issues still to be listed, or still to be processed
  summaries,  \* timestamps of the listed issues; 0: not listed
  newest,     \* the newest accepted timestamp; 0: none
  skipped,    \* whether an issue's details could not be fetched
  late,       \* listed issues changed since the sync read them (history)
  faults      \* bound

scan == <<mode, todo, summaries, newest, skipped>>
world == <<clock, jira, removed>>
vars == <<clock, jira, removed, stored, session, pc, mode, todo, summaries,
          newest, skipped, late, faults>>

Times == 0..MaxClock
Never == [i \in Issues |-> 0]

(* rows: the stored timestamp (0: no row); history: the version up to      *)
(* which changelog entries are stored; complete: the issues with the       *)
(* changelog flag; cursor and status: jira_project_sync_state; missed      *)
(* (history): issues whose latest change a committed sync passed over.     *)
Databases ==
  [rows : [Issues -> Times], history : [Issues -> Times],
   complete : SUBSET Issues, cursor : Times,
   status : {"idle", "running", "succeeded", "failed"},
   missed : SUBSET Issues]

EmptyDatabase ==
  [rows |-> Never, history |-> Never, complete |-> {}, cursor |-> 0,
   status |-> "idle", missed |-> {}]

Larger(a, b) == IF a > b THEN a ELSE b
Listable(i) == jira[i] > 0 /\ i \notin removed

(* Issues are listed and processed in key order.                           *)
IsNext(i) == i \in todo /\ \A j \in todo : i <= j

Init ==
  /\ clock = 0
  /\ jira = Never
  /\ removed = {}
  /\ stored = EmptyDatabase
  /\ session = EmptyDatabase
  /\ pc = "idle"
  /\ mode = "full"
  /\ todo = {}
  /\ summaries = Never
  /\ newest = 0
  /\ skipped = FALSE
  /\ late = {}
  /\ faults = 0

Fault == faults < MaxFaults /\ faults' = faults + 1

-----------------------------------------------------------------------------
(* Jira and its users.                                                     *)

(* Issues are created or changed, by one edit or by a bulk change.         *)
ChangeIssues ==
  /\ clock < MaxClock
  /\ \E S \in SUBSET (Issues \ removed) \ {{}} :
       /\ clock' = clock + 1
       /\ jira' = [i \in Issues |-> IF i \in S THEN clock' ELSE jira[i]]
       /\ late' = late \cup {i \in S : summaries[i] > 0}
       /\ stored' = [stored EXCEPT !.missed = @ \ S]
       /\ session' = [session EXCEPT !.missed = @ \ S]
  /\ UNCHANGED <<removed, pc, scan, faults>>

RemoveIssue ==
  /\ \E i \in Issues : Listable(i) /\ removed' = removed \cup {i}
  /\ UNCHANGED <<clock, jira, stored, session, pc, scan, late, faults>>

-----------------------------------------------------------------------------
(* sync_from_jira: the lock, mark_project_sync_running and its commit. A   *)
(* second sync is refused while the lock is held and changes nothing.      *)

StartSync(wanted) ==
  /\ pc = "idle"
  /\ stored' = [stored EXCEPT !.status = "running"]
  /\ session' = stored'
  /\ pc' = "listing"
  /\ mode' = wanted
  /\ todo' = Issues
  /\ UNCHANGED <<world, summaries, newest, skipped, late, faults>>

(* The running status could not be committed.                              *)
StartFails ==
  /\ pc = "idle"
  /\ Fault
  /\ stored' = [stored EXCEPT !.status = "failed"]
  /\ session' = stored'
  /\ UNCHANGED <<world, pc, scan, late>>

(* search_issues, page by page.                                            *)
ListIssue ==
  /\ pc = "listing"
  /\ \E i \in todo :
       /\ IsNext(i)
       /\ todo' = todo \ {i}
       /\ summaries' = [summaries EXCEPT ![i] = IF Listable(i) THEN jira[i] ELSE 0]
  /\ UNCHANGED <<world, stored, session, pc, mode, newest, skipped, late, faults>>

(* The cursor is read after the listing; without one the sync is full.     *)
FinishListing ==
  /\ pc = "listing" /\ todo = {}
  /\ mode' = IF session.cursor = 0 THEN "full" ELSE mode
  /\ todo' = {i \in Issues : summaries[i] > 0}
  /\ pc' = "issues"
  /\ UNCHANGED <<world, stored, session, summaries, newest, skipped, late, faults>>

(* Mutant: the timestamp alone decides.                                    *)
CanSkipByCursor(i) == summaries[i] <= session.cursor

(* _can_skip_unchanged_issue                                               *)
CanSkip(i) ==
  /\ summaries[i] <= session.cursor
  /\ session.rows[i] > 0
  /\ i \in session.complete

SkipIssue(i) ==
  /\ pc = "issues" /\ IsNext(i)
  /\ mode = "incremental" /\ CanSkip(i)
  /\ newest' = Larger(newest, summaries[i])
  /\ todo' = todo \ {i}
  /\ UNCHANGED <<world, stored, session, pc, mode, summaries, skipped, late, faults>>

MustFetch(i) == IsNext(i) /\ ~(mode = "incremental" /\ CanSkip(i))

(* get_issue_details and upsert_issue; the detail's own timestamp, not the *)
(* summary's, is accepted for the cursor.                                  *)
FetchDetails ==
  /\ pc = "issues"
  /\ \E i \in todo :
       /\ MustFetch(i) /\ Listable(i)
       /\ session' = [session EXCEPT !.rows[i] = jira[i], !.missed = @ \ {i}]
       /\ newest' = Larger(newest, jira[i])
       /\ late' = late \ {i}
  /\ pc' = "changelog"
  /\ UNCHANGED <<world, stored, mode, todo, summaries, skipped, faults>>

(* A JiraServiceError of get_issue_details skips the issue.                *)
SkipFailedIssue ==
  /\ pc = "issues"
  /\ \E i \in todo :
       /\ MustFetch(i)
       /\ IF Listable(i) THEN Fault ELSE UNCHANGED faults
       /\ todo' = todo \ {i}
  /\ skipped' = TRUE
  /\ UNCHANGED <<world, stored, session, pc, mode, summaries, newest, late>>

(* Mutant: a failed changelog request skips the rest of the issue.         *)
FetchChangelogOrSkip ==
  /\ pc = "changelog"
  /\ \E i \in todo :
       /\ IsNext(i)
       /\ \/ session' = [session EXCEPT !.history[i] = jira[i],
                                        !.complete = @ \cup {i}]
          \/ UNCHANGED session
       /\ todo' = todo \ {i}
  /\ pc' = "issues"
  /\ UNCHANGED <<world, stored, mode, summaries, newest, skipped, late, faults>>

(* get_issue_changelog, insert_issue_history_entries (entries are only     *)
(* ever added) and mark_issue_changelog_complete.                          *)
FetchChangelog ==
  /\ pc = "changelog"
  /\ \E i \in todo :
       /\ IsNext(i) /\ Listable(i)
       /\ session' = [session EXCEPT !.history[i] = jira[i],
                                     !.complete = @ \cup {i}]
       /\ todo' = todo \ {i}
  /\ pc' = "issues"
  /\ UNCHANGED <<world, stored, mode, summaries, newest, skipped, late, faults>>

EndSync ==
  /\ pc' = "idle"
  /\ mode' = "full"
  /\ todo' = {}
  /\ summaries' = Never
  /\ newest' = 0
  /\ skipped' = FALSE
  /\ late' = {}

(* Mutant: the cursor is the time of the sync.                             *)
NextCursorByClock == clock + 1

(* Mutant: skipped issues do not hold the cursor back.                     *)
NextCursorAlways == IF newest = 0 THEN session.cursor ELSE newest

(* max(accepted timestamps), unless an issue had to be skipped.            *)
NextCursor ==
  IF skipped \/ newest = 0 THEN session.cursor ELSE newest

(* The metrics are recomputed in the same transaction; then the one commit *)
(* of the sync.                                                            *)
Succeed ==
  /\ pc = "issues" /\ todo = {}
  /\ stored' = [session EXCEPT
       !.cursor = NextCursor,
       !.status = "succeeded",
       !.missed = @ \cup {i \in late : jira[i] <= NextCursor}]
  /\ session' = stored'
  /\ EndSync
  /\ UNCHANGED <<world, faults>>

(* Mutant: the failure status is committed without a rollback.             *)
FailWithoutRollback ==
  /\ pc # "idle"
  /\ IF pc = "changelog" /\ \E i \in todo : IsNext(i) /\ ~Listable(i)
     THEN UNCHANGED faults ELSE Fault
  /\ \E recorded \in {stored, [session EXCEPT !.status = "failed"]} :
       /\ stored' = recorded
       /\ session' = recorded
  /\ EndSync
  /\ UNCHANGED world

(* Any other exception: a rollback, then the failure status is committed   *)
(* by _persist_sync_failure_status, whose own failure is only logged.      *)
Fail ==
  /\ pc # "idle"
  /\ IF pc = "changelog" /\ \E i \in todo : IsNext(i) /\ ~Listable(i)
     THEN UNCHANGED faults ELSE Fault
  /\ \E recorded \in {stored, [stored EXCEPT !.status = "failed"]} :
       /\ stored' = recorded
       /\ session' = recorded
  /\ EndSync
  /\ UNCHANGED world

(* A cancelled request, or the backend process dies: no handler runs, the  *)
(* open transaction is gone with its session.                              *)
Cancel ==
  /\ pc # "idle"
  /\ Fault
  /\ session' = stored
  /\ EndSync
  /\ UNCHANGED <<world, stored>>

-----------------------------------------------------------------------------

(* Mutant: the stored status is shown as it is.                            *)
ShownStatusAsStored == stored.status

(* What get_jira_sync_status shows.                                        *)
ShownStatus ==
  IF stored.status = "running" /\ pc = "idle" THEN "failed" ELSE stored.status

(* The requests of a running sync.                                         *)
SyncStep ==
  \/ ListIssue \/ FinishListing
  \/ \E i \in todo : SkipIssue(i)
  \/ FetchDetails \/ SkipFailedIssue \/ FetchChangelog
  \/ Succeed \/ Fail

Next ==
  \/ ChangeIssues \/ RemoveIssue
  \/ \E wanted \in {"incremental", "full"} : StartSync(wanted)
  \/ StartFails \/ SyncStep \/ Cancel

Spec == Init /\ [][Next]_vars

(* The HTTP client's timeouts end every request, and the scheduler's       *)
(* interval job starts an incremental sync again and again.                *)
FairSpec ==
  Spec /\ WF_vars(SyncStep) /\ WF_vars(StartSync("incremental"))

-----------------------------------------------------------------------------

(* The state every request and every commit of a sync leaves.              *)
TypeOK ==
  /\ clock \in Times
  /\ jira \in [Issues -> Times]
  /\ removed \subseteq Issues
  /\ stored \in Databases
  /\ session \in Databases
  /\ pc \in {"idle", "listing", "issues", "changelog"}
  /\ mode \in {"incremental", "full"}
  /\ todo \subseteq Issues
  /\ summaries \in [Issues -> Times]
  /\ newest \in Times
  /\ skipped \in BOOLEAN
  /\ late \subseteq Issues
  /\ faults \in Nat

(* The cursor can be trusted: a stored issue whose Jira timestamp it       *)
(* covers is stored in that version with its whole changelog, through      *)
(* failed, cancelled and partial syncs, unless it was changed in Jira      *)
(* after a sync had read it and before that sync committed a newer cursor. *)
TrustedCursor ==
  \A i \in Issues \ stored.missed :
    Listable(i) /\ stored.rows[i] > 0 /\ jira[i] <= stored.cursor =>
      /\ stored.rows[i] = jira[i]
      /\ i \in stored.complete

(* A changelog marked complete reaches at least the version of the issue   *)
(* that is stored with it, so history and fields can be read together.     *)
HistoryCoversIssue ==
  \A i \in stored.complete : stored.history[i] >= stored.rows[i]

(* "Failed, cancelled, rejected, or partially persisted sync attempts must *)
(* not advance the marker", and no reader sees half of a sync: what is     *)
(* stored changes only with a reported success, the cursor only when no    *)
(* issue was skipped.                                                      *)
CommitsWhole ==
  /\ stored'.rows # stored.rows \/ stored'.history # stored.history =>
       stored'.status = "succeeded" /\ pc # "idle" /\ pc' = "idle"
  /\ stored'.cursor # stored.cursor => ~skipped /\ todo = {}

AllOrNothing == [][CommitsWhole]_vars

(* The status page says that a sync is running exactly while one is, also  *)
(* when a sync was cancelled, its process died or its failure could not be *)
(* recorded.                                                               *)
RunningIsShown == ShownStatus = "running" <=> pc # "idle"

(* Once Jira is quiet and requests no longer fail, the scheduled syncs     *)
(* bring every issue they did not pass over to its version in Jira.        *)
Quiet == clock = MaxClock /\ faults = MaxFaults
UpToDate ==
  \A i \in Issues \ stored.missed : Listable(i) => stored.rows[i] = jira[i]

Convergence == []<>(Quiet => UpToDate)

-----------------------------------------------------------------------------
(* The inductive invariant behind TrustedCursor and HistoryCoversIssue.    *)

(* No timestamp is newer than what Jira had when it was read.              *)
Ordered ==
  /\ stored.cursor <= clock /\ newest <= clock
  /\ session.cursor = stored.cursor
  /\ \A i \in Issues :
       /\ jira[i] <= clock
       /\ summaries[i] <= jira[i]
       /\ stored.rows[i] <= jira[i]
       /\ stored.history[i] <= jira[i]
       /\ session.rows[i] <= jira[i]
       /\ session.history[i] <= jira[i]

(* A running sync is marked; between two, nothing of the last one is left. *)
Resting ==
  /\ pc = "idle" => session = stored /\ summaries = Never /\ late = {}
  /\ pc # "idle" => stored.status = "running"

Trusted(db) ==
  \A i \in Issues \ db.missed :
    Listable(i) /\ db.rows[i] > 0 /\ jira[i] <= db.cursor => db.rows[i] = jira[i]

(* The row of i comes with its changelog, up to its version at least.      *)
WithHistory(db, i) ==
  db.rows[i] > 0 => i \in db.complete /\ db.history[i] >= db.rows[i]

(* Only the issue between its two requests is stored without a changelog.  *)
Paired ==
  \A i \in Issues :
    /\ WithHistory(stored, i)
    /\ (pc = "changelog" /\ IsNext(i)) \/ WithHistory(session, i)

(* A stored issue that is still in the project does not escape the scan.   *)
Listed ==
  /\ pc # "idle" =>
       \A i \in Issues :
         Listable(i) /\ session.rows[i] > 0 /\ ~(pc = "listing" /\ i \in todo)
           => summaries[i] > 0
  /\ pc \in {"issues", "changelog"} => \A i \in todo : summaries[i] > 0

(* What the sync has read of a listed issue is current or known to be late;*)
(* what it has finished with is stored or known to be missed.              *)
Processed ==
  \A i \in Issues :
    summaries[i] > 0 /\ i \notin late =>
      /\ summaries[i] = jira[i] \/ session.rows[i] = jira[i]
      /\ pc = "changelog" /\ IsNext(i) => session.rows[i] = jira[i]
      /\ pc \in {"issues", "changelog"} /\ i \notin todo /\ ~skipped /\ Listable(i) =>
           i \in session.missed \/ session.rows[i] = jira[i]

SyncInv ==
  /\ TypeOK
  /\ Ordered
  /\ Resting
  /\ Trusted(stored) /\ Trusted(session)
  /\ Paired
  /\ Listed
  /\ Processed

-----------------------------------------------------------------------------

(* "Incremental sync may use the persisted cursor to avoid refetching      *)
(* unchanged issue details": an issue is skipped only if the version its   *)
(* summary names is the stored one.                                        *)
SkippedIssuesAreUnchanged ==
  [][ \A i \in todo : SkipIssue(i) => session.rows[i] >= summaries[i] ]_vars

(* The sync "scans the complete project issue-summary inventory so         *)
(* removals and current membership remain visible": what is stored after a *)
(* successful sync was in its inventory.                                   *)
RemovalsAreVisible ==
  [][ Succeed => \A i \in Issues : stored'.rows[i] > 0 => summaries[i] > 0 ]_vars

=============================================================================
