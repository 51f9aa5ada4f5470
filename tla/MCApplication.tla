---------------------------- MODULE MCApplication ----------------------------
(***************************************************************************)
(* The parts of the application that do not share state are checked in one *)
(* run: focus says which one takes steps, the variables of the others stay *)
(* at one of their initial states.  Within the histories focus also says   *)
(* which fields are edited.                                                *)
(***************************************************************************)
EXTENDS
  IssueHistory, SprintDelivery, Configuration, DatabaseMigration, ReleaseWorkspace,
  DesktopLifecycle

CONSTANTS k1, k2           \* issue keys

VARIABLE focus

migrationVars == vars
allVars ==
  <<focus, historyVars, sprintVars, migrationVars, configurationVars, workspaceVars,
    lifecycleVars>>

MCClassification ==
  [done |-> {"done", "closed"}, inProgress |-> {"doing"}, blocked |-> {"stuck"},
   bugs |-> {"bug"}, blockerTypes |-> {"stopper"}, high |-> {"high"},
   blockerSeverities |-> {}]

-----------------------------------------------------------------------------
(* Histories.                                                              *)

NoDate == None
Iteration(closed, from, to, complete) ==
  [closed |-> closed, start |-> from, end |-> to, complete |-> complete]
MCIterations ==
  {Iteration(FALSE, 2, 3, NoDate), Iteration(TRUE, 2, 4, 3), Iteration(FALSE, NoDate, 4, NoDate)}

New ==
  [type |-> "task", severity |-> "low", status |-> "open", flag |-> "unset",
   release |-> FALSE, earlier |-> FALSE, sprint |-> FALSE, created |-> 0]
HistoryFoci == {"risk", "flow", "release", "sprint scope"}
Born ==
  [f \in HistoryFoci |->
     CASE f = "risk" -> {New, [New EXCEPT !.type = "stopper"]}
       [] f = "flow" -> {New, [New EXCEPT !.status = "done"]}
       [] f = "release" -> {New, [New EXCEPT !.release = TRUE]}
       [] OTHER -> {New, [New EXCEPT !.sprint = TRUE]}]
EditedIn ==
  [f \in HistoryFoci |->
     CASE f = "risk" -> {"type", "status", "flag"}
       [] f = "flow" -> {"status"}
       [] f = "release" -> {"release", "earlier"}
       [] OTHER -> {"sprint"}]
MCValues(f) ==
  CASE f = "type" -> {"stopper", "task"}
    [] f = "severity" -> {"low"}
    [] f = "status" -> {"open", "stuck", "doing", "done", "closed"}
    [] f = "flag" -> {"unset", "set"}
    [] OTHER -> BOOLEAN

MCNewTickets == UNION {Born[f] : f \in HistoryFoci}

(* The tickets and edits of a focus: one ticket with three entries, or two *)
(* with two entries and one, the first of which may have a second fix      *)
(* version while the second is there from the beginning.                   *)
InFocus ==
  /\ focus = "release" => k2 \in DOMAIN jira
  /\ \A k \in DOMAIN jira :
       /\ changelog[k] = <<>> => [jira[k] EXCEPT !.created = 0] \in Born[focus]
       /\ \A i \in DOMAIN changelog[k] : changelog[k][i].field \in EditedIn[focus]
       /\ IF focus \in {"risk", "flow"} THEN k = k1
          ELSE IF k = k1 THEN Len(changelog[k]) <= 2
          ELSE Len(changelog[k]) <= 1 /\ ~jira[k].earlier
MCHistoryInit ==
  /\ focus \in HistoryFoci
  /\ HistoryInit
  /\ InFocus
  /\ focus = "sprint scope" <=> iteration.start # NoDate
MCHistoryNext == focus \in HistoryFoci /\ HistoryNext /\ InFocus'

-----------------------------------------------------------------------------
(* One sprint.                                                             *)

Ticket(type, status, flag, points, person, identified) ==
  [type |-> type, severity |-> "high", status |-> status, flag |-> flag, points |-> points,
   person |-> person, identified |-> identified]

(* Tickets that differ in what the score looks at, and tickets that differ *)
(* in whom they count for; the first person is anna: the names are alike.  *)
ScoredTickets ==
  <<Ticket("task", "doing", "unset", None, "anna", TRUE),
    Ticket("task", "doing", "unset", 0, "anna", TRUE),
    Ticket("task", "doing", "unset", 3, "anna", TRUE),
    Ticket("task", "done", "unset", 3, "anna", TRUE),
    Ticket("bug", "doing", "set", 3, "anna", TRUE),
    Ticket(Missing, "doing", "unset", 3, "anna", TRUE),
    Ticket("task", Missing, "unset", None, "anna", TRUE)>>
AssignedTickets ==
  {Ticket("task", "doing", "unset", p, x, i) :
     p \in {None, 0, 2, 3}, x \in {"anna", "anton"}, i \in BOOLEAN}
  \cup {Ticket("task", s, "unset", 2, Nobody, FALSE) : s \in {"doing", "done"}}
ScoredScopes ==
  {<<>>}
    \cup {<<ScoredTickets[p[1]], ScoredTickets[p[2]]>> :
            p \in {p \in (1 .. 7) \X (1 .. 7) : p[1] <= p[2]}}
AssignedScopes ==
  {<<t, u>> : t \in {a \in AssignedTickets : a.person # "anton"}, u \in AssignedTickets}

Dates(from, to) == [closed |-> FALSE, start |-> from, end |-> to]
Result(status, value) == [status |-> status, value |-> value]
Events(creep, changes, complete, cycle, reopen) ==
  [creep |-> [status |-> creep.status, value |-> creep.value, changes |-> changes],
   complete |-> complete, cycle |-> cycle, reopen |-> reopen,
   bugs |-> Result("COMPUTED", 0)]
Calm ==
  Events(Result("COMPUTED", 0), 0, TRUE, Result("NOT_COMPUTED", None), Result("COMPUTED", 0))
Eventful ==
  {Calm,
   Events(Result("COMPUTED", Hundredths(50)), 1, TRUE,
          Result("COMPUTED", Hundredths(9)), Result("COMPUTED", Hundredths(20))),
   Events(Result("NOT_COMPUTED", None), 0, TRUE,
          Result("COMPUTED", Hundredths(9)), Result("COMPUTED", Hundredths(20))),
   Events(Result("PARTIAL", None), 0, FALSE, Result("PARTIAL", None), Result("PARTIAL", None))}

(* No baseline; one of four sprints qualifies; three of four do.           *)
Past(id, closed, date, coverage, completed) ==
  [id |-> id, closed |-> closed, date |-> date, coverage |-> Hundredths(coverage),
   completed |-> completed]
Pasts ==
  {{},
   {Past(1, TRUE, 0, 100, 4), Past(2, TRUE, 0, 40, 90), Past(3, FALSE, 0, 100, 90),
    Past(4, TRUE, 3, 100, 90)},
   {Past(1, TRUE, 0, 100, 90), Past(2, TRUE, 1, 80, 2), Past(3, TRUE, 1, 100, 2),
    Past(4, TRUE, 1, 100, 1)}}

MCScopes == ScoredScopes \cup AssignedScopes
MCSprints == {Dates(1, 3), Dates(1, 1), Dates(None, 3)}
MCDisplay == [p \in {"anna", "anton"} |-> "A."]

MCSprintInit ==
  /\ focus \in {"score", "workload"}
  /\ SprintInit
  /\ focus = "score" => /\ tickets \in ScoredScopes
                        /\ events.creep.value = None \/ sprint # Dates(1, 3) => others = {}
  /\ focus = "workload" => /\ tickets \in AssignedScopes
                           /\ sprint = Dates(1, 3) /\ events = Calm /\ others = {}
MCSprintNext == focus \in {"score", "workload"} /\ SprintNext

-----------------------------------------------------------------------------
(* Migration: the fourth revision only changes rows, the third rebuilds a  *)
(* table, the second looks whether it is applied.                          *)

MCKinds ==
  <<<<"schema", "schema">>, <<"schema">>, <<"schema", "rows", "schema">>, <<"rows">>>>
Found(done, part, table, version) ==
  [done |-> done, part |-> part, table |-> table, version |-> version]
MCOriginals ==
  {Found(d, 0, FALSE, 0) : d \in 0 .. 3} \cup {Found(d, 1, FALSE, 0) : d \in {0, 2}}
    \cup {Found(d, 0, TRUE, d) : d \in 1 .. 5}

MigrationInit == focus = "migration" /\ Init
MigrationNext == focus = "migration" /\ Next

-----------------------------------------------------------------------------
(* Configuration.  What happens after requests overlapped is not followed. *)

MCDefault == [s \in {"done", "inProgress"} |-> IF s = "done" THEN {"a"} ELSE {"b"}]
MCDeployed == [s \in {} |-> {}]

MCConfigurationInit == focus = "configuration" /\ ConfigurationInit
MCConfigurationNext == focus = "configuration" /\ ~overlapped /\ ConfigurationNext

-----------------------------------------------------------------------------
(* Workspace.                                                              *)

MCReleases == {"a1", "a2", "b1"}
MCProjectOf == [r \in MCReleases |-> IF r = "b1" THEN "B" ELSE "A"]
MCPhase == [r \in MCReleases |-> IF r = "a1" THEN "active" ELSE "other"]
MCCreated == "a1" :> 1 @@ "a2" :> 2 @@ "b1" :> 3

MCWorkspaceInit == focus = "workspace" /\ WorkspaceInit
MCWorkspaceNext == focus = "workspace" /\ WorkspaceNext

-----------------------------------------------------------------------------
(* Lifecycle.                                                              *)

MCLifecycleInit == focus = "lifecycle" /\ LifecycleInit
MCLifecycleNext == focus = "lifecycle" /\ LifecycleNext

-----------------------------------------------------------------------------
(* Everything.                                                             *)

NoHistory ==
  /\ day = 1 /\ iteration = Iteration(FALSE, 2, 3, NoDate)
  /\ jira = [k \in {} |-> 0] /\ changelog = jira /\ fetched = jira /\ stored = jira
NoSprint ==
  /\ tickets = <<>> /\ sprint = Dates(1, 3) /\ now = 1 /\ events = Calm /\ others = {}
  /\ results = <<>>
NoMigration == Init /\ original = Absent
NoConfiguration == ConfigurationInit
NoWorkspace == WorkspaceInit /\ \A l \in loads : l.project = NoProject

MCInit ==
  \/ /\ MCHistoryInit
     /\ NoSprint /\ NoMigration /\ NoConfiguration /\ NoWorkspace /\ LifecycleInit
  \/ /\ MCSprintInit
     /\ NoHistory /\ NoMigration /\ NoConfiguration /\ NoWorkspace /\ LifecycleInit
  \/ /\ MigrationInit
     /\ NoHistory /\ NoSprint /\ NoConfiguration /\ NoWorkspace /\ LifecycleInit
  \/ /\ MCConfigurationInit
     /\ NoHistory /\ NoSprint /\ NoMigration /\ NoWorkspace /\ LifecycleInit
  \/ /\ MCWorkspaceInit
     /\ NoHistory /\ NoSprint /\ NoMigration /\ NoConfiguration /\ LifecycleInit
  \/ /\ MCLifecycleInit
     /\ NoHistory /\ NoSprint /\ NoMigration /\ NoConfiguration /\ NoWorkspace

MCNext ==
  /\ UNCHANGED focus
  /\ \/ /\ MCHistoryNext
        /\ UNCHANGED <<sprintVars, migrationVars, configurationVars, workspaceVars,
                       lifecycleVars>>
     \/ /\ MCSprintNext
        /\ UNCHANGED <<historyVars, migrationVars, configurationVars, workspaceVars,
                       lifecycleVars>>
     \/ /\ MigrationNext
        /\ UNCHANGED <<historyVars, sprintVars, configurationVars, workspaceVars, lifecycleVars>>
     \/ /\ MCConfigurationNext
        /\ UNCHANGED <<historyVars, sprintVars, migrationVars, workspaceVars, lifecycleVars>>
     \/ /\ MCWorkspaceNext
        /\ UNCHANGED <<historyVars, sprintVars, migrationVars, configurationVars, lifecycleVars>>
     \/ /\ MCLifecycleNext
        /\ UNCHANGED <<historyVars, sprintVars, migrationVars, configurationVars, workspaceVars>>

MCSpec == MCInit /\ [][MCNext]_allVars

=============================================================================
