------------------------ MODULE TicketClassification ------------------------
(***************************************************************************)
(* What the backend concludes from the stored fields of tickets, some of   *)
(* which may be missing (jira_field_mapper.py, the classification and work *)
(* state evaluators of metric_availability_service.py).                    *)
(*                                                                         *)
(* A stored ticket is a record of its issue type, severity, status,        *)
(* blocker flag, story points and of whether its whole changelog is stored.*)
(* Jira's texts are members of the sets a project configures; Missing is a *)
(* field without text.  The flag is "unset" when Jira supplied no value:   *)
(* that is an answer, not a gap, and the fallback sets decide.             *)
(***************************************************************************)
EXTENDS MetricCatalog, FiniteSets

CONSTANT Missing           \* a field without text

(* A configuration c has the sets done, inProgress and blocked of statuses, *)
(* bugs and blockerTypes of issue types, high and blockerSeverities of      *)
(* severities; none of them holds Missing.                                  *)
ConfigurationFields ==
  {"done", "inProgress", "blocked", "bugs", "blockerTypes", "high", "blockerSeverities"}
WellFormed(c) == \A f \in ConfigurationFields : Missing \notin c[f]

-----------------------------------------------------------------------------
(* One ticket.                                                             *)

IsDone(c, t) == t.status \in c.done
HasStatus(t) == t.status # Missing
IsBug(c, t) == t.type \in c.bugs
IsHigh(c, t) == t.severity \in c.high

(* classify_blocker: an explicit flag decides, else the fallback sets.     *)
ClassifyBlocker(c, t) ==
  /\ ~IsDone(c, t)
  /\ IF t.flag # "unset" THEN t.flag = "set"
     ELSE \/ t.type \in c.blockerTypes
          \/ t.severity \in c.blockerSeverities
          \/ t.status \in c.blocked

OpenBlocker(c, t) == HasStatus(t) /\ ClassifyBlocker(c, t)

(* Mutant: a missing severity is taken for a harmless one.                 *)
BlockerIndeterminateByType(c, t) ==
  \/ ~HasStatus(t)
  \/ /\ t.flag = "unset" /\ ~IsDone(c, t) /\ ~ClassifyBlocker(c, t)
     /\ c.blockerTypes # {} /\ t.type = Missing

(* A missing field could still make the ticket an open blocker.            *)
BlockerIndeterminate(c, t) ==
  \/ ~HasStatus(t)
  \/ /\ t.flag = "unset" /\ ~IsDone(c, t) /\ ~ClassifyBlocker(c, t)
     /\ \/ c.blockerTypes # {} /\ t.type = Missing
        \/ c.blockerSeverities # {} /\ t.severity = Missing

OpenHighBug(c, t) == IsBug(c, t) /\ IsHigh(c, t) /\ HasStatus(t) /\ ~IsDone(c, t)

(* The fields are looked at in the order type, severity, status, and the   *)
(* first one that settles the question ends the search.                    *)
HighBugIndeterminate(c, t) ==
  \/ t.type = Missing
  \/ IsBug(c, t) /\ t.severity = Missing
  \/ IsBug(c, t) /\ IsHigh(c, t) /\ ~HasStatus(t)

InProgress(c, t) == t.status \in c.inProgress
NotStarted(c, t) == HasStatus(t) /\ ~IsDone(c, t) /\ ~InProgress(c, t)
Unfinished(c, t) == HasStatus(t) /\ ~IsDone(c, t)
ValidPoints(t) == t.points >= 0

-----------------------------------------------------------------------------
(* A set of tickets: a function from issue keys to stored tickets.         *)

(* A count over an empty scope is not computed; over tickets that could    *)
(* not all be evaluated it is PARTIAL, a confirmed minimum.                *)
Count(scope, counted, indeterminate) ==
  [value |-> IF scope = {} THEN None ELSE Cardinality(counted),
   status |-> IF scope = {} THEN "NOT_COMPUTED"
              ELSE IF indeterminate # {} THEN "PARTIAL" ELSE "COMPUTED"]

LacksStatus(tickets) == {k \in DOMAIN tickets : ~HasStatus(tickets[k])}

OpenBlockers(c, tickets) ==
  Count(DOMAIN tickets,
        {k \in DOMAIN tickets : OpenBlocker(c, tickets[k])},
        {k \in DOMAIN tickets : BlockerIndeterminate(c, tickets[k])})
OpenHighSeverityBugs(c, tickets) ==
  Count(DOMAIN tickets,
        {k \in DOMAIN tickets : OpenHighBug(c, tickets[k])},
        {k \in DOMAIN tickets : HighBugIndeterminate(c, tickets[k])})
CompletedTickets(c, tickets) ==
  Count(DOMAIN tickets, {k \in DOMAIN tickets : IsDone(c, tickets[k])}, LacksStatus(tickets))

(* A share is unavailable when it would have to be guessed.                *)
ScopeCompletedPct(c, tickets) ==
  LET completed == CompletedTickets(c, tickets)
  IN [completed EXCEPT
        !.value = IF completed.status = "COMPUTED"
                  THEN (Hundredths(100) * completed.value) \div Cardinality(DOMAIN tickets)
                  ELSE None]

CommittedScope(tickets) ==
  LET size == Cardinality(DOMAIN tickets)
  IN IF size = 0 THEN [value |-> None, status |-> "NOT_COMPUTED"]
     ELSE [value |-> size, status |-> "COMPUTED"]

InProgressCount(c, tickets) ==
  Count(DOMAIN tickets, {k \in DOMAIN tickets : InProgress(c, tickets[k])},
        LacksStatus(tickets))
NotStartedCount(c, tickets) ==
  Count(DOMAIN tickets, {k \in DOMAIN tickets : NotStarted(c, tickets[k])},
        LacksStatus(tickets))

(* Unfinished scope is said of closed sprints only.                        *)
RolloverCount(c, tickets, closed) ==
  IF closed
  THEN Count(DOMAIN tickets, {k \in DOMAIN tickets : Unfinished(c, tickets[k])},
             LacksStatus(tickets))
  ELSE [value |-> None, status |-> "NOT_APPLICABLE"]

ClassificationResults(c, tickets) ==
  [open_blockers |-> OpenBlockers(c, tickets),
   open_high_severity_bugs |-> OpenHighSeverityBugs(c, tickets),
   completed_tickets |-> CompletedTickets(c, tickets),
   scope_completed_pct |-> ScopeCompletedPct(c, tickets)]

-----------------------------------------------------------------------------
(* Knowledge.  A completion of a ticket fills in what is missing and       *)
(* leaves the rest alone: what the ticket turns out to be.                 *)

Completes(t, u) ==
  /\ u.flag = t.flag
  /\ t.type # Missing => u.type = t.type
  /\ t.severity # Missing => u.severity = t.severity
  /\ t.status # Missing => u.status = t.status

=============================================================================
