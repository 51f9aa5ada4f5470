------------------------------ MODULE MCMetrics ------------------------------
EXTENDS ReleaseResponses

CONSTANTS r1, r2

(* Two classifications: blockers by issue type, or by issue type and by    *)
(* severity.                                                               *)
ByType ==
  [done |-> {"done"}, inProgress |-> {"doing"}, blocked |-> {}, bugs |-> {"bug"},
   blockerTypes |-> {"stopper"}, high |-> {"high"}, blockerSeverities |-> {}]
BySeverity == [ByType EXCEPT !.blockerSeverities = {"high"}]
MCConfigurations == {ByType, BySeverity}

MCTickets ==
  [type : {Missing, "bug", "task", "stopper"}, severity : {Missing, "high", "low"},
   status : {Missing, "open", "done"}, flag : {"unset", "set"}]
Ticket(type, severity, status, flag) ==
  [type |-> type, severity |-> severity, status |-> status, flag |-> flag]

Done == Ticket("task", "low", "done", "unset")
Open == Ticket("task", "low", "open", "unset")
HighBug == Ticket("bug", "high", "open", "unset")
Blocker == Ticket("task", "low", "open", "set")
Untyped == Ticket(Missing, "high", "open", "unset")
Unrated == Ticket("bug", Missing, "open", "unset")
Unranked == Ticket("task", Missing, "open", "unset")
Unknown == Ticket("stopper", "low", Missing, "unset")

Scopes ==
  {[k \in {} |-> Done], [k \in {1} |-> Done], [k \in {1, 2} |-> HighBug]}
  \cup {[k \in {1, 2} |-> IF k = 1 THEN t ELSE Open] :
         t \in {HighBug, Blocker, Untyped, Unrated, Unranked, Unknown}}
  \cup {[k \in {1, 2} |-> IF k = 1 THEN Blocker ELSE Unrated],
        [k \in {1, 2, 3} |-> IF k = 1 THEN Blocker ELSE HighBug]}

Known(v) == [value |-> v, status |-> "COMPUTED"]
Partial == [value |-> None, status |-> "PARTIAL"]
NotComputed == [value |-> None, status |-> "NOT_COMPUTED"]

Churns == {Known(0), Known(Hundredths(15)), Known(Hundredths(30)), Partial}
Reopens == {Known(0), Known(Hundredths(12)), Known(Hundredths(20)), Partial, NotComputed}
Cycles == {Known(Hundredths(3)), Known(Hundredths(9)), Partial, NotComputed}

Database(tickets, churn, reopen, cycle) ==
  [tickets |-> tickets, changelog |-> TRUE,
   events |-> [scope_churn_7d_pct |-> churn, reopen_rate_pct |-> reopen,
               median_cycle_time_days |-> cycle]]

(* Without tickets nothing can have been reopened or finished.             *)
Plausible(d) ==
  DOMAIN d.tickets = {} => /\ d.events.reopen_rate_pct = NotComputed
                           /\ d.events.median_cycle_time_days = NotComputed

MCDatabases ==
  {d \in {Database(t, c, r, y) : t \in Scopes, c \in Churns, r \in Reopens, y \in Cycles} :
     Plausible(d)}

(* What a synchronization may find: everything got worse, or better, or    *)
(* the release lost its tickets.                                           *)
Quiet == Database([k \in {1} |-> Done], Known(0), Known(0), Known(Hundredths(3)))
Alarming ==
  Database([k \in {1, 2, 3} |-> IF k = 1 THEN Blocker ELSE HighBug],
           Known(Hundredths(30)), Known(Hundredths(20)), Known(Hundredths(9)))
Vague == Database([k \in {1, 2} |-> IF k = 1 THEN Blocker ELSE Unrated], Partial, Known(0), NotComputed)

MCChanges == {<<Quiet, Alarming>>, <<Vague, Quiet>>}

(* The calculation is checked over all databases by one request at rest,   *)
(* the concurrency over few databases by everyone; the user changes the    *)
(* configuration once.                                                     *)
VARIABLE focus

MCInit ==
  /\ Init
  /\ focus \in {"calculation", "concurrency"}
  /\ focus = "concurrency" => database \in {Quiet, Vague} /\ config = ByType
MCNext ==
  /\ \/ focus = "concurrency" /\ Next
     \/ focus = "calculation" /\ (Start(r1) \/ Work(r1))
  /\ config' # config => config = ByType
  /\ UNCHANGED focus
MCSpec == MCInit /\ [][MCNext]_<<vars, focus>> /\ Fairness
=============================================================================
