---------------------------- MODULE IssueHistory ----------------------------
(***************************************************************************)
(* What the backend concludes from the changelogs of tickets: cycle time,  *)
(* reopened work, scope churn, scope creep and the start of a risk         *)
(* (analytics_service.py, signal_service.py), while users edit tickets in  *)
(* Jira and synchronizations read each ticket's row and, later, its        *)
(* changelog.                                                              *)
(*                                                                         *)
(* One edit is a change group of Jira: it may change several fields, which *)
(* Jira lists as one entry each with the same time.  A ticket's membership *)
(* in the release and in the sprint is TRUE or FALSE: what the code reads  *)
(* out of fix versions and of sprint texts; "earlier" says that Jira lists *)
(* another known fix version of the ticket before the release.  Creating a *)
(* ticket leaves no entry.                                                 *)
(***************************************************************************)
EXTENDS TicketClassification, SequencesExt

CONSTANTS
  Keys,              \* issue keys of the project
  Classification,    \* the configured classification
  NewTickets,        \* what a ticket may be when it is created
  Values(_),         \* Values(f): what field f can be changed to
  ChurnWindow,       \* length of the churn window
  Iterations,        \* the sprint, with its state and dates
  MaxDay,            \* bound on time
  MaxEntries         \* bound on the entries of one changelog

VARIABLES
  day,
  jira,              \* the tickets in Jira
  changelog,         \* their entries in Jira, oldest first
  fetched,           \* rows a synchronization has read
  stored,            \* [row, history, complete] of the stored tickets
  iteration          \* the sprint

historyVars == <<day, jira, changelog, fetched, stored, iteration>>

Fields == {"type", "severity", "status", "flag", "release", "earlier", "sprint"}
RiskFields == {"type", "severity", "status", "flag"}

Without(f, k) == [j \in DOMAIN f \ {k} |-> f[j]]
With(f, k, v) == [j \in DOMAIN f \cup {k} |-> IF j = k THEN v ELSE f[j]]

(* The first tickets are there before the first day.  A move always gives  *)
(* a ticket a status; a membership is TRUE or FALSE.                       *)
ASSUME HistoryAssumption ==
  /\ IsFiniteSet(Keys)
  /\ ChurnWindow \in Nat
  /\ \A t \in NewTickets : /\ DOMAIN t = Fields \cup {"created"}
                           /\ {t.release, t.earlier, t.sprint} \subseteq BOOLEAN
                           /\ t.created \in Int /\ t.created <= 0
  /\ Values("release") \cup Values("earlier") \cup Values("sprint") \subseteq BOOLEAN
  /\ Missing \notin Values("status")
  /\ \A i \in Iterations : {i.start, i.end, i.complete} \subseteq Int

(* A synchronization links a ticket to the first of its fix versions that  *)
(* it knows, so the row of a ticket with several is in one release only.   *)
LinkRelease(ticket) == [ticket EXCEPT !.release = @ /\ ~ticket.earlier]

(* Tickets stored by a version that kept no changelogs are incomplete.     *)
HistoryInit ==
  /\ day = 1
  /\ iteration \in Iterations
  /\ fetched = [k \in {} |-> 0]
  /\ \E old \in SUBSET Keys : \E t \in NewTickets :
       /\ jira = [k \in old |-> t]
       /\ changelog = [k \in old |-> <<>>]
       /\ stored = [k \in old |-> [row |-> LinkRelease(t), history |-> <<>>,
                                   complete |-> FALSE]]

Advance ==
  /\ day < MaxDay
  /\ day' = day + 1
  /\ UNCHANGED <<jira, changelog, fetched, stored, iteration>>

Create(k) ==
  /\ k \notin DOMAIN jira
  /\ \E t \in NewTickets : jira' = With(jira, k, [t EXCEPT !.created = day])
  /\ changelog' = With(changelog, k, <<>>)
  /\ UNCHANGED <<day, fetched, stored, iteration>>

Edited(k) == IF changelog[k] = <<>> THEN jira[k].created ELSE Last(changelog[k]).at

Change(k, f, v) == [field |-> f, old |-> jira[k][f], new |-> v, at |-> day]
ChangeGroup(k, f, v, g, w) ==
  IF f = g THEN <<Change(k, f, v)>> ELSE <<Change(k, f, v), Change(k, g, w)>>
EditFields(k, f, v, g, w) ==
  /\ f = g => v = w
  /\ Len(changelog[k]) + Len(ChangeGroup(k, f, v, g, w)) <= MaxEntries
  /\ changelog' = [changelog EXCEPT ![k] = @ \o ChangeGroup(k, f, v, g, w)]
  /\ jira' = [jira EXCEPT ![k] = [@ EXCEPT ![f] = v, ![g] = w]]
Edit(k) ==
  /\ k \in DOMAIN jira
  /\ Edited(k) < day
  /\ \E f, g \in Fields : \E v \in Values(f) \ {jira[k][f]}, w \in Values(g) \ {jira[k][g]} :
       EditFields(k, f, v, g, w)
  /\ UNCHANGED <<day, fetched, stored, iteration>>

(* What is stored of a ticket is what a synchronization takes from Jira.   *)
Known(k) ==
  /\ k \in DOMAIN stored
  /\ stored[k].complete
  /\ stored[k].row = LinkRelease(jira[k])
  /\ stored[k].history = changelog[k]

(* A synchronization takes one updated ticket after the other: it stores   *)
(* the row and marks its changelog incomplete, then reads the changelog;   *)
(* both are committed together.                                            *)
SyncRow(k) ==
  /\ DOMAIN fetched = {}
  /\ k \in DOMAIN jira
  /\ ~Known(k)
  /\ fetched' = With(fetched, k, LinkRelease(jira[k]))
  /\ UNCHANGED <<day, jira, changelog, stored, iteration>>

SyncChangelog(k) ==
  /\ k \in DOMAIN fetched
  /\ stored' = With(stored, k, [row |-> fetched[k], history |-> changelog[k],
                                complete |-> TRUE])
  /\ fetched' = Without(fetched, k)
  /\ UNCHANGED <<day, jira, changelog, iteration>>

HistoryNext ==
  \/ Advance
  \/ \E k \in Keys : Create(k) \/ Edit(k) \/ SyncRow(k) \/ SyncChangelog(k)

HistorySpec == HistoryInit /\ [][HistoryNext]_historyVars

-----------------------------------------------------------------------------
(* The evaluators, at the time of a snapshot.                              *)

Row(k) == stored[k].row
History(k) == stored[k].history
Entries(k, f) == {i \in DOMAIN History(k) : History(k)[i].field = f}
Incomplete == {k \in DOMAIN stored : ~stored[k].complete}
Members(f) == {k \in DOMAIN stored : Row(k)[f]}

(* Issue.release_id = release_id.                                          *)
ReleaseScope == Members("release")

(* _evaluate_cycle_time: from the first entry into work to the first       *)
(* completion after it; the mutant takes the last completion.              *)
Entered(k, statuses) ==
  {History(k)[i].at : i \in {i \in Entries(k, "status") : History(k)[i].new \in statuses}}

CycleToLast(k) ==
  LET starts == Entered(k, Classification.inProgress)
      ends == {t \in Entered(k, Classification.done) : starts # {} /\ t > Min(starts)}
  IN IF ends = {} THEN None
     ELSE Max(ends) - Min(starts)

Cycle(k) ==
  LET starts == Entered(k, Classification.inProgress)
      ends == {t \in Entered(k, Classification.done) : starts # {} /\ t > Min(starts)}
  IN IF ends = {} THEN None ELSE Min(ends) - Min(starts)

Median(durations) ==
  LET n == Len(durations)
  IN (durations[(n + 1) \div 2] + durations[(n + 2) \div 2]) \div 2

CycleTime ==
  LET scope == ReleaseScope
      finished == {k \in scope : IsDone(Classification, Row(k))}
      partial == {k \in scope : ~HasStatus(Row(k))} \cup (finished \cap Incomplete)
      measured == {k \in finished \ partial : Cycle(k) # None}
      ordered == SetToSortSeq(measured, LAMBDA j, k : Cycle(j) < Cycle(k))
  IN [status |-> IF partial # {} THEN "PARTIAL"
                 ELSE IF measured # {} THEN "COMPUTED" ELSE "NOT_COMPUTED",
      value |-> IF partial = {} /\ measured # {}
                THEN Median([i \in DOMAIN ordered |-> Hundredths(Cycle(ordered[i]))])
                ELSE None]

(* _evaluate_reopen_event_rate.  A ticket is eligible when it is done or   *)
(* was seen to become done; equal events count once.  The mutant counts a  *)
(* move from one done status to another.                                   *)
Eligible(k) == IsDone(Classification, Row(k)) \/ Entered(k, Classification.done) # {}
ReopenEventsOfMoves(k) ==
  IF ~Eligible(k) THEN {}
  ELSE {[at |-> History(k)[i].at, old |-> History(k)[i].old, new |-> History(k)[i].new] :
          i \in {i \in Entries(k, "status") : History(k)[i].old \in Classification.done}}
ReopenEvents(k) ==
  IF ~Eligible(k) THEN {}
  ELSE {[at |-> History(k)[i].at, old |-> History(k)[i].old, new |-> History(k)[i].new] :
          i \in {i \in Entries(k, "status") :
                   /\ History(k)[i].old \in Classification.done
                   /\ History(k)[i].new \notin Classification.done \cup {Missing}}}

ReopenRate ==
  LET scope == ReleaseScope
      partial == (scope \cap Incomplete)
                   \cup {k \in scope : ~HasStatus(Row(k)) /\ Entered(k, Classification.done) = {}}
      eligible == {k \in scope : Eligible(k)}
      events == UNION {{<<k, e>> : e \in ReopenEvents(k)} : k \in scope}
  IN [status |-> IF partial # {} THEN "PARTIAL"
                 ELSE IF eligible # {} THEN "COMPUTED" ELSE "NOT_COMPUTED",
      value |-> IF partial = {} /\ eligible # {}
                THEN (Hundredths(100) * Cardinality(events)) \div Cardinality(eligible)
                ELSE None]

(* Entries that moved a ticket into, or out of, a release or a sprint.     *)
MovesOf(k, f, into, from, to) ==
  {i \in Entries(k, f) : /\ History(k)[i].new = into
                         /\ History(k)[i].at \in from .. to}
Moves(f, into, from, to) ==
  UNION {{k} \X MovesOf(k, f, into, from, to) : k \in DOMAIN stored}

(* _compute_release_scope_churn_7d: both ends of the window count, and the *)
(* entries of every fix version of a ticket.                               *)
ChurnMoves(into) == Moves("release", into, day - ChurnWindow, day)
ScopeChurn ==
  LET moves == ChurnMoves(TRUE) \cup ChurnMoves(FALSE)
      observed == ReleaseScope \cup {m[1] : m \in moves}
  IN [status |-> IF Incomplete # {} THEN "PARTIAL"
                 ELSE IF observed = {} THEN "NOT_COMPUTED" ELSE "COMPUTED",
      value |-> IF Incomplete = {} /\ observed # {}
                THEN (Hundredths(100) * Cardinality(moves)) \div Cardinality(observed)
                ELSE None]

(* _effective_sprint_window_end.                                           *)
WindowEnd ==
  IF iteration.closed
  THEN IF iteration.complete # None THEN iteration.complete
       ELSE IF iteration.end # None THEN iteration.end ELSE day
  ELSE IF iteration.end # None /\ iteration.end < day THEN iteration.end ELSE day

(* _compute_sprint_scope_creep: what moved after the start, up to the end  *)
(* of the window; the mutant counts the moment of the start as well.       *)
SprintMovesFromStart(into) == Moves("sprint", into, iteration.start, WindowEnd)
SprintMoves(into) == Moves("sprint", into, iteration.start + 1, WindowEnd)
InitialCommitment ==
  LET n == Cardinality(Members("sprint")) - Cardinality(SprintMoves(TRUE))
             + Cardinality(SprintMoves(FALSE))
  IN IF n < 0 THEN 0 ELSE n
ScopeCreep ==
  LET moves == SprintMoves(TRUE) \cup SprintMoves(FALSE)
  IN IF iteration.start = None \/ WindowEnd < iteration.start
     THEN [status |-> "NOT_COMPUTED", value |-> None]
     ELSE IF Incomplete # {} THEN [status |-> "PARTIAL", value |-> None]
     ELSE IF InitialCommitment = 0 THEN [status |-> "NOT_COMPUTED", value |-> None]
     ELSE [status |-> "COMPUTED",
           value |-> (Hundredths(100) * Cardinality(moves)) \div InitialCommitment]

(* compute_sprint_initial_scope_flags: the changes after the start are     *)
(* undone, so the oldest of them decides.                                  *)
InitialScopeFlag(k) ==
  LET after == {i \in Entries(k, "sprint") :
                  History(k)[i].at \in (iteration.start + 1) .. WindowEnd}
  IN IF iteration.start = None \/ WindowEnd <= iteration.start \/ after = {} THEN TRUE
     ELSE History(k)[Min(after)].old

(* _compute_bugs_created_during_sprint: both ends of the window count.     *)
BugsCreated ==
  IF iteration.start = None THEN {}
  ELSE {k \in Members("sprint") : /\ IsBug(Classification, Row(k))
                                  /\ Row(k).created \in iteration.start .. WindowEnd}

(* What a row was before some entries of its history: each field has the   *)
(* value that the earliest of them found.                                  *)
Undone(row, history, entries) ==
  [f \in DOMAIN row |->
     LET changes == {i \in entries : history[i].field = f}
     IN IF changes = {} THEN row[f] ELSE history[Min(changes)].old]

(* _risk_start_evidence for blockers: entries are undone one by one, the   *)
(* newest first, until the risk is not active; the mutant goes on to the   *)
(* oldest one.                                                             *)
RiskActive(row) == ClassifyBlocker(Classification, row)
RiskEntries(k) ==
  {i \in DOMAIN History(k) : History(k)[i].at <= day /\ History(k)[i].field \in RiskFields}
ActiveBefore(k, i) ==
  RiskActive(Undone(Row(k), History(k), {j \in RiskEntries(k) : j >= i}))
RiskStartOldest(k) ==
  LET inactive == {i \in RiskEntries(k) : ~ActiveBefore(k, i)}
  IN IF inactive # {} THEN History(k)[Min(inactive)].at
     ELSE IF ActiveBefore(k, 1) THEN Row(k).created ELSE None
RiskStartOf(k) ==
  LET inactive == {i \in RiskEntries(k) : ~ActiveBefore(k, i)}
  IN IF inactive # {} THEN History(k)[Max(inactive)].at
     ELSE IF ActiveBefore(k, 1) THEN Row(k).created ELSE None
RiskStart(k) == IF stored[k].complete THEN RiskStartOf(k) ELSE None

-----------------------------------------------------------------------------
(* Properties.  The reference replays Jira's changelog forwards.           *)

AllKnown == \A k \in DOMAIN jira : Known(k)

(* A ticket after its edits up to time t: each field has the value it was  *)
(* last given, or else the one it was created with.                        *)
Edits(k, f) == {i \in DOMAIN changelog[k] : changelog[k][i].field = f}
StateAt(k, t) ==
  [f \in DOMAIN jira[k] |->
     LET given == {i \in Edits(k, f) : changelog[k][i].at <= t}
     IN IF given # {} THEN changelog[k][Max(given)].new
        ELSE IF Edits(k, f) # {} THEN changelog[k][Min(Edits(k, f))].old
        ELSE jira[k][f]]
EditTimes(k) == {jira[k].created} \cup {changelog[k][i].at : i \in DOMAIN changelog[k]}
TrueRiskStart(k) ==
  Min({t \in EditTimes(k) : \A u \in EditTimes(k) : u >= t => RiskActive(StateAt(k, u))})
OneFieldEdits(k) ==
  \A i, j \in DOMAIN changelog[k] : changelog[k][i].at = changelog[k][j].at => i = j

(* The start of a risk is never reported earlier than it was, it is a time *)
(* the ticket was edited or created, and it is exact for tickets whose     *)
(* edits change one field each.                                            *)
RiskStartIsProven ==
  \A k \in DOMAIN stored : Known(k) /\ RiskActive(Row(k)) =>
    /\ RiskStart(k) \in EditTimes(k)
    /\ RiskStart(k) >= TrueRiskStart(k)
    /\ OneFieldEdits(k) => RiskStart(k) = TrueRiskStart(k)

(* The release's tickets that are linked to an earlier fix version.        *)
LinkedElsewhere == {k \in DOMAIN jira : jira[k].release /\ jira[k].earlier}

(* Additions and removals account for every difference between the scope   *)
(* of today and that before the window, for a release and for a sprint;    *)
(* the initial commitment is the scope at the start of the sprint, and the *)
(* flag of each ticket agrees with it.  A ticket created later counts as   *)
(* if it had been there before in the scope it was created in, because its *)
(* creation leaves no entry.  A release's moves balance only together with *)
(* the tickets that several fix versions keep out of its stored scope.     *)
ScopeBalances ==
  AllKnown =>
    /\ Cardinality(ChurnMoves(TRUE)) - Cardinality(ChurnMoves(FALSE)) =
         Cardinality(ReleaseScope) + Cardinality(LinkedElsewhere)
           - Cardinality({k \in DOMAIN jira : StateAt(k, day - ChurnWindow - 1).release})
    /\ iteration.start # None /\ WindowEnd >= iteration.start
         /\ Moves("sprint", TRUE, WindowEnd + 1, day) \cup
            Moves("sprint", FALSE, WindowEnd + 1, day) = {} =>
         /\ InitialCommitment =
              Cardinality({k \in DOMAIN jira : StateAt(k, iteration.start).sprint})
         /\ \A k \in Members("sprint") :
              InitialScopeFlag(k) = StateAt(k, iteration.start).sprint

(* Every completion of a ticket that is not undone by now was followed by  *)
(* one counted event; events of tickets never seen to become done are not  *)
(* counted.                                                                *)
BecameDone(k) ==
  {i \in Entries(k, "status") : /\ History(k)[i].new \in Classification.done
                                /\ History(k)[i].old \notin Classification.done}
ReopensBalance ==
  \A k \in DOMAIN stored : Known(k) =>
    LET one(b) == IF b THEN 1 ELSE 0
    IN IF Eligible(k)
       THEN Cardinality(ReopenEvents(k)) + one(IsDone(Classification, Row(k))) =
              Cardinality(BecameDone(k))
                + one(IsDone(Classification, StateAt(k, jira[k].created - 1)))
       ELSE ReopenEvents(k) = {}

(* What was measured of a finished piece of work never changes, however    *)
(* often the ticket is reopened and finished again.                        *)
CyclesStay == \A k \in DOMAIN stored : Cycle(k) # None => Cycle(k)' = Cycle(k)
CycleIsFixed == [][CyclesStay]_historyVars

=============================================================================
