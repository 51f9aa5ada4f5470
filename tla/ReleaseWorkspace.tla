-------------------------- MODULE ReleaseWorkspace --------------------------
(***************************************************************************)
(* The release workspace of the frontend: hooks/useReleaseWorkspace.ts     *)
(* with releaseSelection.ts and workspaceContext.ts.                       *)
(*                                                                         *)
(* A handler or an answer changes the state; React then runs the effects   *)
(* whose dependencies changed: it abandons the loads they began before and *)
(* begins others.  Answers come in any order, those of abandoned loads     *)
(* too, between a change and its effects as well.                          *)
(***************************************************************************)
EXTENDS Integers, FiniteSets

CONSTANTS
  Releases,          \* releases of all projects
  ProjectOf,         \* ProjectOf[r]: the project of a release
  Phase,             \* Phase[r]: "dated" (includes today), "active" or "other"
  Created,           \* Created[r]: when it was created
  NoProject,
  NoRelease,
  MaxRefresh         \* bound on refreshes

Projects == {ProjectOf[r] : r \in Releases}

VARIABLES
  project,           \* activeProjectKey
  known,             \* isProjectContextLoaded
  list,              \* releases
  chosen,            \* selectedReleaseId
  shown,             \* release, metrics, charts, signal: of which load
  loading,           \* isLoadingDetails
  refresh,           \* refreshNonce
  error,             \* whether an error is shown
  busy,              \* recomputations under way: "release", "all"
  ran,               \* the dependencies each effect last ran with
  loads              \* loads without an answer

workspaceVars == <<project, known, list, chosen, shown, loading, refresh, error, busy, ran, loads>>

Nothing == [release |-> NoRelease, refresh |-> 0]

-----------------------------------------------------------------------------
(* Selection.                                                              *)

WorkspaceReleases == {r \in list : ProjectOf[r] = project}
Selected == IF chosen \in WorkspaceReleases THEN chosen ELSE NoRelease

NewestRelease(S) == CHOOSE r \in S : \A q \in S : Created[r] >= Created[q]
CurrentRelease(S) ==
  LET in(phase) == {r \in S : Phase[r] = phase}
  IN IF in("dated") # {} THEN NewestRelease(in("dated"))
     ELSE IF in("active") # {} THEN NewestRelease(in("active"))
     ELSE IF S # {} THEN NewestRelease(S) ELSE NoRelease

-----------------------------------------------------------------------------
(* Effects.                                                                *)

ReleasesDependencies == [project |-> project, refresh |-> refresh, known |-> known]
DetailsDependencies == [project |-> project, release |-> Selected, refresh |-> refresh]
Changed(effect, dependencies) == ran[effect] # dependencies
Settled ==
  /\ ~Changed("releases", ReleasesDependencies)
  /\ ~Changed("details", DetailsDependencies)
  /\ chosen \in WorkspaceReleases \/ chosen = CurrentRelease(WorkspaceReleases)

(* Mutant: a request that is still out for the same is not sent again.     *)
LoadOnce(kind, release) ==
  [kind |-> kind, project |-> project, release |-> release, refresh |-> refresh,
   active |-> ~\E l \in loads : l.kind = kind /\ l.release = release]
Load(kind, release) ==
  [kind |-> kind, project |-> project, release |-> release, refresh |-> refresh,
   active |-> TRUE]

(* The cleanup of an effect; the mutant has none.                          *)
AbandonedNever(kinds) == loads
Abandoned(kinds) ==
  {IF l.kind \in kinds THEN [l EXCEPT !.active = FALSE] ELSE l : l \in loads}

WorkspaceInit ==
  /\ project = NoProject
  /\ known = FALSE
  /\ list = {}
  /\ chosen = NoRelease
  /\ shown = Nothing
  /\ loading = FALSE
  /\ refresh = 0
  /\ error = FALSE
  /\ busy = {}
  /\ ran = [releases |-> ReleasesDependencies, details |-> DetailsDependencies]
  /\ \E p \in Projects \cup {NoProject} :
       loads = {[kind |-> "context", project |-> p, release |-> NoRelease,
                 refresh |-> 0, active |-> TRUE]}

RunEffects ==
  LET reload == Changed("releases", ReleasesDependencies)
      redraw == Changed("details", DetailsDependencies)
  IN /\ ~Settled
     /\ ran' = [releases |-> ReleasesDependencies, details |-> DetailsDependencies]
     /\ chosen' = IF chosen \in WorkspaceReleases THEN chosen
                  ELSE CurrentRelease(WorkspaceReleases)
     /\ list' = IF reload /\ known /\ project = NoProject THEN {} ELSE list
     /\ shown' = IF redraw THEN Nothing ELSE shown
     /\ loading' = (loading \/ (redraw /\ Selected # NoRelease))
     /\ error' = (error /\ ~(reload /\ known /\ project # NoProject)
                        /\ ~(redraw /\ Selected # NoRelease))
     /\ loads' =
          Abandoned((IF reload THEN {"releases"} ELSE {})
                      \cup (IF redraw THEN {"details"} ELSE {}))
          \cup (IF reload /\ known /\ project # NoProject
                THEN {Load("releases", NoRelease)} ELSE {})
          \cup (IF redraw /\ Selected # NoRelease
                THEN {Load("details", Selected)} ELSE {})
     /\ UNCHANGED <<project, known, refresh, busy>>

-----------------------------------------------------------------------------
(* Answers.                                                                *)

(* applyActiveProjectKey.                                                  *)
ActivateProject(p) ==
  /\ project' = p
  /\ list' = {}
  /\ chosen' = NoRelease
  /\ shown' = Nothing
  /\ loading' = FALSE

ContextAnswer(l) ==
  /\ l.kind = "context"
  /\ ActivateProject(l.project)
  /\ known' = TRUE
  /\ loads' = loads \ {l}
  /\ UNCHANGED <<refresh, error, busy, ran>>

ContextFails(l) ==
  /\ l.kind = "context"
  /\ known' = TRUE
  /\ loads' = loads \ {l}
  /\ UNCHANGED <<project, list, chosen, shown, loading, refresh, error, busy, ran>>

Ignored(l) ==
  /\ ~l.active
  /\ loads' = loads \ {l}
  /\ UNCHANGED <<project, known, list, chosen, shown, loading, refresh, error, busy, ran>>

(* Releases come and go in Jira.                                           *)
ReleasesAnswer(l) ==
  /\ l.kind = "releases" /\ l.active
  /\ list' \in SUBSET {r \in Releases : ProjectOf[r] = l.project}
  /\ loads' = loads \ {l}
  /\ UNCHANGED <<project, known, chosen, shown, loading, refresh, error, busy, ran>>

ReleasesFail(l) ==
  /\ l.kind = "releases" /\ l.active
  /\ list' = {}
  /\ error' = TRUE
  /\ loads' = loads \ {l}
  /\ UNCHANGED <<project, known, chosen, shown, loading, refresh, busy, ran>>

DetailsAnswer(l) ==
  /\ l.kind = "details" /\ l.active
  /\ shown' = IF ProjectOf[l.release] = l.project
              THEN [release |-> l.release, refresh |-> l.refresh] ELSE Nothing
  /\ loading' = FALSE
  /\ loads' = loads \ {l}
  /\ UNCHANGED <<project, known, list, chosen, refresh, error, busy, ran>>

DetailsFail(l) ==
  /\ l.kind = "details" /\ l.active
  /\ shown' = Nothing
  /\ loading' = FALSE
  /\ error' = TRUE
  /\ loads' = loads \ {l}
  /\ UNCHANGED <<project, known, list, chosen, refresh, busy, ran>>

-----------------------------------------------------------------------------
(* Handlers.                                                               *)

Select(r) ==
  /\ r \in WorkspaceReleases \ {chosen}
  /\ chosen' = r
  /\ UNCHANGED <<project, known, list, shown, loading, refresh, error, busy, ran, loads>>

DataChanged ==
  /\ refresh < MaxRefresh
  /\ refresh' = refresh + 1
  /\ UNCHANGED <<project, known, list, chosen, shown, loading, error, busy, ran, loads>>

Recompute(what) ==
  /\ what \notin busy
  /\ what = "all" => list # {}
  /\ what = "release" => chosen # NoRelease
  /\ busy' = busy \cup {what}
  /\ error' = FALSE
  /\ UNCHANGED <<project, known, list, chosen, shown, loading, refresh, ran, loads>>

Recomputed(what) ==
  /\ what \in busy
  /\ busy' = busy \ {what}
  /\ \/ refresh < MaxRefresh /\ refresh' = refresh + 1 /\ UNCHANGED error
     \/ error' = TRUE /\ UNCHANGED refresh
  /\ UNCHANGED <<project, known, list, chosen, shown, loading, ran, loads>>

(* The configuration saved may still be incomplete.                        *)
ConfigurationSaved ==
  /\ refresh < MaxRefresh
  /\ \E p \in Projects \cup {NoProject} : ActivateProject(p)
  /\ refresh' = refresh + 1
  /\ error' \in {error, FALSE}
  /\ UNCHANGED <<known, busy, ran, loads>>

WorkspaceNext ==
  \/ RunEffects
  \/ \E l \in loads :
       \/ ContextAnswer(l) \/ ContextFails(l) \/ Ignored(l)
       \/ ReleasesAnswer(l) \/ ReleasesFail(l)
       \/ DetailsAnswer(l) \/ DetailsFail(l)
  \/ \E r \in Releases : Select(r)
  \/ \E what \in {"release", "all"} : Recompute(what) \/ Recomputed(what)
  \/ DataChanged \/ ConfigurationSaved

WorkspaceSpec == WorkspaceInit /\ [][WorkspaceNext]_workspaceVars

-----------------------------------------------------------------------------
(* Properties.                                                             *)

(* Once the effects of a change have run, the details on screen are those  *)
(* of the selected release of the active project, asked for after the last *)
(* refresh, in whatever order the answers of earlier loads arrive.         *)
ShownBelongsToSelection ==
  Settled /\ shown # Nothing =>
    /\ shown = [release |-> Selected, refresh |-> refresh]
    /\ ProjectOf[shown.release] = project
    /\ ~loading

(* A selected release is never forgotten: its details are shown, or on     *)
(* their way, or an error or a recomputation that reloads them is; and     *)
(* while a release is selected, nothing is said to be loading that is not. *)
SelectionIsServed ==
  LET underWay == \E l \in loads : /\ l.kind = "details" /\ l.active
                                   /\ l.release = Selected /\ l.refresh = refresh
  IN Settled /\ Selected # NoRelease =>
       /\ shown # Nothing \/ underWay \/ error \/ busy # {}
       /\ loading <=> underWay

=============================================================================
