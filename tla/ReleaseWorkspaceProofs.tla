------------------------ MODULE ReleaseWorkspaceProofs ------------------------
(***************************************************************************)
(* What is shown is what is selected, for any releases, projects and       *)
(* number of refreshes, and any order of answers.                          *)
(***************************************************************************)
EXTENDS ReleaseWorkspace, TLAPS

LoadFields == {"kind", "project", "release", "refresh", "active"}

(* A load that was not abandoned asks for what the effect of the details   *)
(* last ran with.                                                          *)
LoadInv ==
  /\ DOMAIN ran = {"releases", "details"}
  /\ \A l \in loads :
       /\ DOMAIN l = LoadFields
       /\ l.kind = "details" /\ l.active =>
            [project |-> l.project, release |-> l.release, refresh |-> l.refresh] = ran.details

(* So does what is shown, and nothing is loading then: an effect that runs *)
(* with other dependencies clears the details first.                       *)
ShownInv ==
  shown # Nothing =>
    /\ shown = [release |-> ran.details.release, refresh |-> ran.details.refresh]
    /\ ProjectOf[shown.release] = ran.details.project
    /\ ~loading

WorkspaceInv == LoadInv /\ ShownInv

LEMMA InitialWorkspace == WorkspaceInit => WorkspaceInv
BY DEF WorkspaceInit, WorkspaceInv, LoadInv, ShownInv, LoadFields

LEMMA EffectsKeep ==
  ASSUME WorkspaceInv, RunEffects
  PROVE  WorkspaceInv'
<1> DEFINE redraw == Changed("details", DetailsDependencies)
           kinds == (IF Changed("releases", ReleasesDependencies) THEN {"releases"} ELSE {})
                      \cup (IF redraw THEN {"details"} ELSE {})
<1>1. /\ ran' = [releases |-> ReleasesDependencies, details |-> DetailsDependencies]
      /\ shown' = IF redraw THEN Nothing ELSE shown
      /\ loading' = (loading \/ (redraw /\ Selected # NoRelease))
  BY DEF RunEffects
<1>2. ~redraw => ran'.details = ran.details
  BY <1>1 DEF Changed
<1>3. \A l \in loads' :
        \/ l \in Abandoned(kinds)
        \/ l = Load("releases", NoRelease)
        \/ redraw /\ l = Load("details", Selected)
  BY DEF RunEffects
<1>4. \A l \in Abandoned(kinds) :
        /\ DOMAIN l = LoadFields
        /\ l.kind = "details" /\ l.active => l \in loads /\ ~redraw
  <2>1. SUFFICES ASSUME NEW k \in loads,
                        NEW l, l = IF k.kind \in kinds THEN [k EXCEPT !.active = FALSE] ELSE k
                 PROVE  /\ DOMAIN l = LoadFields
                        /\ l.kind = "details" /\ l.active => l \in loads /\ ~redraw
    BY DEF Abandoned
  <2>2. DOMAIN k = LoadFields
    BY DEF WorkspaceInv, LoadInv
  <2>3. CASE k.kind \in kinds
    BY <2>1, <2>2, <2>3 DEF LoadFields
  <2>4. CASE k.kind \notin kinds
    <3>1. redraw => k.kind # "details"
      BY <2>4
    <3> QED
      BY <2>1, <2>2, <2>4, <3>1
  <2> QED
    BY <2>3, <2>4
<1> HIDE DEF redraw, kinds
<1>5. LoadInv'
  <2> SUFFICES ASSUME NEW l \in loads'
               PROVE  /\ DOMAIN l = LoadFields
                      /\ l.kind = "details" /\ l.active =>
                           [project |-> l.project, release |-> l.release,
                            refresh |-> l.refresh] = ran'.details
    BY <1>1 DEF LoadInv
  <2>1. CASE l \in Abandoned(kinds)
    BY <1>2, <1>4, <2>1 DEF WorkspaceInv, LoadInv
  <2>2. CASE l = Load("releases", NoRelease)
    BY <2>2 DEF Load, LoadFields
  <2>3. CASE l = Load("details", Selected)
    BY <1>1, <2>3 DEF Load, LoadFields, DetailsDependencies
  <2> QED
    BY <1>3, <2>1, <2>2, <2>3
<1>6. ShownInv'
  BY <1>1, <1>2 DEF WorkspaceInv, ShownInv, Nothing
<1> QED
  BY <1>5, <1>6 DEF WorkspaceInv

LEMMA AnswersKeep ==
  ASSUME WorkspaceInv, NEW l \in loads,
         \/ ContextAnswer(l) \/ ContextFails(l) \/ Ignored(l)
         \/ ReleasesAnswer(l) \/ ReleasesFail(l)
         \/ DetailsAnswer(l) \/ DetailsFail(l)
  PROVE  WorkspaceInv'
<1>1. LoadInv'
  <2>1. loads' = loads \ {l} /\ ran' = ran
    BY DEF ContextAnswer, ContextFails, Ignored, ReleasesAnswer, ReleasesFail,
           DetailsAnswer, DetailsFail
  <2> QED
    BY <2>1 DEF WorkspaceInv, LoadInv
<1>2. ShownInv'
  <2>1. CASE ContextAnswer(l)
    BY <2>1 DEF ContextAnswer, ActivateProject, ShownInv, Nothing
  <2>2. CASE ContextFails(l) \/ Ignored(l) \/ ReleasesAnswer(l) \/ ReleasesFail(l)
    BY <2>2 DEF ContextFails, Ignored, ReleasesAnswer, ReleasesFail, WorkspaceInv, ShownInv,
                Nothing
  <2>3. CASE DetailsAnswer(l)
    <3>1. [project |-> l.project, release |-> l.release, refresh |-> l.refresh] = ran.details
      BY <2>3 DEF DetailsAnswer, WorkspaceInv, LoadInv
    <3>2. /\ l.project = ran.details.project
          /\ l.release = ran.details.release
          /\ l.refresh = ran.details.refresh
      BY <3>1
    <3> QED
      BY <2>3, <3>2 DEF DetailsAnswer, ShownInv, Nothing
  <2>4. CASE DetailsFail(l)
    BY <2>4 DEF DetailsFail, ShownInv, Nothing
  <2> QED
    BY <2>1, <2>2, <2>3, <2>4
<1> QED
  BY <1>1, <1>2 DEF WorkspaceInv

LEMMA HandlersKeep ==
  ASSUME WorkspaceInv,
         \/ \E r \in Releases : Select(r)
         \/ \E what \in {"release", "all"} : Recompute(what) \/ Recomputed(what)
         \/ DataChanged \/ ConfigurationSaved
  PROVE  WorkspaceInv'
<1>1. loads' = loads /\ ran' = ran
  BY DEF Select, Recompute, Recomputed, DataChanged, ConfigurationSaved
<1>2. \/ shown' = shown /\ loading' = loading
      \/ shown' = Nothing
  BY DEF Select, Recompute, Recomputed, DataChanged, ConfigurationSaved, ActivateProject
<1>3. LoadInv'
  BY <1>1 DEF WorkspaceInv, LoadInv
<1>4. ShownInv'
  BY <1>1, <1>2 DEF WorkspaceInv, ShownInv, Nothing
<1> QED
  BY <1>3, <1>4 DEF WorkspaceInv

(* The inductive invariant of the workspace.                               *)
THEOREM WorkspaceInvariance == WorkspaceSpec => []WorkspaceInv
<1>1. WorkspaceInv /\ [WorkspaceNext]_workspaceVars => WorkspaceInv'
  <2> SUFFICES ASSUME WorkspaceInv, [WorkspaceNext]_workspaceVars
               PROVE  WorkspaceInv'
    OBVIOUS
  <2>1. CASE RunEffects
    BY <2>1, EffectsKeep
  <2>2. CASE \E l \in loads :
               \/ ContextAnswer(l) \/ ContextFails(l) \/ Ignored(l)
               \/ ReleasesAnswer(l) \/ ReleasesFail(l)
               \/ DetailsAnswer(l) \/ DetailsFail(l)
    BY <2>2, AnswersKeep
  <2>3. CASE \/ \E r \in Releases : Select(r)
             \/ \E what \in {"release", "all"} : Recompute(what) \/ Recomputed(what)
             \/ DataChanged \/ ConfigurationSaved
    BY <2>3, HandlersKeep
  <2>4. CASE UNCHANGED workspaceVars
    BY <2>4 DEF workspaceVars, WorkspaceInv, LoadInv, ShownInv, Nothing
  <2> QED
    BY <2>1, <2>2, <2>3, <2>4 DEF WorkspaceNext
<1> QED
  BY InitialWorkspace, <1>1, PTL DEF WorkspaceSpec

(* Once the effects of a change have run, the details on screen are those  *)
(* of the selected release, asked for after the last refresh, whatever     *)
(* answers arrive late (useReleaseWorkspace.ts).                           *)
THEOREM ShownIsSelected == WorkspaceSpec => []ShownBelongsToSelection
<1>1. WorkspaceInv => ShownBelongsToSelection
  BY DEF WorkspaceInv, ShownInv, ShownBelongsToSelection, Settled, Changed,
         DetailsDependencies
<1> QED
  BY WorkspaceInvariance, <1>1, PTL

-----------------------------------------------------------------------------
(* Nothing selected is forgotten.                                          *)

Pending == \E l \in loads : l.kind = "details" /\ l.active
Details == ran.details
Waits == Details.refresh = refresh /\ Details.release # NoRelease

IsLoad(l) ==
  /\ l = [f \in DOMAIN l |-> l[f]]
  /\ DOMAIN l = LoadFields
  /\ l.active \in BOOLEAN

(* Until the active project is known nothing is loaded and nothing can be  *)
(* selected; the effects of the list and of the details last ran together. *)
StartInv ==
  /\ ~known => /\ list = {} /\ Details.release = NoRelease
               /\ \A l \in loads : l.kind = "context"
  /\ \A l \in loads : IsLoad(l)
  /\ \A k, l \in loads : k.kind = "context" => ~known /\ l = k
  /\ ran.releases = [project |-> ran.releases.project, refresh |-> ran.releases.refresh,
                     known |-> ran.releases.known]
  /\ ran.releases.project = Details.project
  /\ ran.releases.refresh = Details.refresh
  /\ Details.release # NoRelease =>
       /\ ran.releases.known = known
       /\ ProjectOf[Details.release] = Details.project

RefreshInv == refresh \in Nat /\ Details.refresh \in Nat /\ Details.refresh <= refresh

PendingInv == Pending => Details.release # NoRelease

(* While the effects ran after the last refresh, the loading indicator is  *)
(* honest, whichever release is selected meanwhile.                        *)
WaitInv ==
  Waits => /\ loading <=> Pending
           /\ shown # Nothing \/ Pending \/ error \/ busy # {}

ServedInv == StartInv /\ RefreshInv /\ PendingInv /\ WaitInv

(* There is one load of the details at most that was not abandoned.        *)
LEMMA OnePending ==
  ASSUME WorkspaceInv, StartInv,
         NEW k \in loads, k.kind = "details", k.active,
         NEW l \in loads, l.kind = "details", l.active
  PROVE  k = l
<1>1. /\ k.active = TRUE /\ l.active = TRUE
      /\ [project |-> k.project, release |-> k.release, refresh |-> k.refresh] = ran.details
      /\ [project |-> l.project, release |-> l.release, refresh |-> l.refresh] = ran.details
  BY DEF WorkspaceInv, LoadInv, StartInv, IsLoad
<1>2. k.project = l.project /\ k.release = l.release /\ k.refresh = l.refresh
  BY <1>1
<1>3. \A f \in LoadFields : k[f] = l[f]
  BY <1>1, <1>2 DEF LoadFields
<1> QED
  BY <1>3 DEF StartInv, IsLoad

LEMMA InitialServed == WorkspaceInit => ServedInv
<1> SUFFICES ASSUME WorkspaceInit
             PROVE  ServedInv
  OBVIOUS
<1>1. /\ Selected = NoRelease
      /\ ran = [releases |-> ReleasesDependencies, details |-> DetailsDependencies]
      /\ ~known /\ list = {} /\ refresh = 0
  BY DEF WorkspaceInit, Selected, WorkspaceReleases
<1>2. PICK p \in Projects \cup {NoProject} :
        loads = {[kind |-> "context", project |-> p, release |-> NoRelease,
                  refresh |-> 0, active |-> TRUE]}
  BY DEF WorkspaceInit
<1>3. StartInv
  BY <1>1, <1>2 DEF StartInv, Details, ReleasesDependencies, DetailsDependencies, IsLoad,
                    LoadFields
<1>4. ~Pending
  BY <1>2 DEF Pending
<1>5. RefreshInv /\ ~Waits
  BY <1>1 DEF RefreshInv, Details, Waits, DetailsDependencies
<1> QED
  BY <1>3, <1>4, <1>5 DEF ServedInv, PendingInv, WaitInv

LEMMA AbandonedLoad ==
  ASSUME NEW k, IsLoad(k), NEW l, l = [k EXCEPT !.active = FALSE]
  PROVE  IsLoad(l) /\ l.kind = k.kind /\ l.active = FALSE
BY DEF IsLoad, LoadFields

LEMMA BegunLoad ==
  ASSUME NEW kind, NEW release
  PROVE  IsLoad(Load(kind, release)) /\ Load(kind, release).kind = kind
         /\ Load(kind, release).active = TRUE
BY DEF IsLoad, Load, LoadFields

LEMMA EffectsServe ==
  ASSUME WorkspaceInv, ServedInv, RunEffects
  PROVE  ServedInv'
<1> DEFINE redraw == Changed("details", DetailsDependencies)
           reload == Changed("releases", ReleasesDependencies)
           kinds == (IF reload THEN {"releases"} ELSE {}) \cup (IF redraw THEN {"details"} ELSE {})
           asks == reload /\ known /\ project # NoProject
<1>1. /\ ran' = [releases |-> ReleasesDependencies, details |-> DetailsDependencies]
      /\ shown' = IF redraw THEN Nothing ELSE shown
      /\ loading' = (loading \/ (redraw /\ Selected # NoRelease))
      /\ list' = IF reload /\ known /\ project = NoProject THEN {} ELSE list
      /\ error' = (error /\ ~asks /\ ~(redraw /\ Selected # NoRelease))
      /\ UNCHANGED <<project, known, refresh, busy>>
  BY DEF RunEffects
<1>2. loads' = Abandoned(kinds)
               \cup (IF asks THEN {Load("releases", NoRelease)} ELSE {})
               \cup (IF redraw /\ Selected # NoRelease THEN {Load("details", Selected)} ELSE {})
  BY DEF RunEffects
<1>3. /\ ~redraw => ran.details = DetailsDependencies
      /\ ~reload => ran.releases = ReleasesDependencies
  BY DEF Changed
<1>4. /\ Selected # NoRelease => ProjectOf[Selected] = project /\ known
      /\ ~known => list = {}
      /\ Details' = DetailsDependencies /\ ran'.releases = ReleasesDependencies
  BY <1>1 DEF Selected, WorkspaceReleases, ServedInv, StartInv, Details
<1>5. \A l \in Abandoned(kinds) :
        \E k \in loads : l = IF k.kind \in kinds THEN [k EXCEPT !.active = FALSE] ELSE k
  BY DEF Abandoned
<1>6. \A k \in loads : IsLoad(k)
  BY DEF ServedInv, StartInv
<1>7. \A l \in Abandoned(kinds) :
        /\ IsLoad(l)
        /\ l.kind = "details" /\ l.active => l \in loads /\ ~redraw
        /\ l.kind = "context" => l \in loads
        /\ \E k \in loads : l.kind = k.kind
  <2>1. SUFFICES ASSUME NEW k \in loads,
                        NEW l, l = IF k.kind \in kinds THEN [k EXCEPT !.active = FALSE] ELSE k
                 PROVE  /\ IsLoad(l)
                        /\ l.kind = "details" /\ l.active => l \in loads /\ ~redraw
                        /\ l.kind = "context" => l \in loads
                        /\ l.kind = k.kind
    BY <1>5
  <2>2. /\ "context" \notin kinds
        /\ redraw => "details" \in kinds
    OBVIOUS
  <2> HIDE DEF kinds, redraw
  <2>3. CASE k.kind \in kinds
    BY <1>6, <2>1, <2>2, <2>3, AbandonedLoad
  <2>4. CASE k.kind \notin kinds
    BY <1>6, <2>1, <2>2, <2>4
  <2> QED
    BY <2>3, <2>4
<1>8. /\ IsLoad(Load("releases", NoRelease))
      /\ Load("releases", NoRelease).kind = "releases"
      /\ IsLoad(Load("details", Selected))
      /\ Load("details", Selected).kind = "details"
      /\ Load("details", Selected).active
  BY BegunLoad
<1> DEFINE isLoad(l) == \/ l \in Abandoned(kinds)
                        \/ asks /\ l = Load("releases", NoRelease)
                        \/ redraw /\ Selected # NoRelease /\ l = Load("details", Selected)
           began(condition, load) == IF condition THEN {load} ELSE {}
<1>9. \A l : l \in loads' <=> isLoad(l)
  <2>1. \A condition \in BOOLEAN : \A load, l : l \in began(condition, load) <=> condition /\ l = load
    OBVIOUS
  <2>2. loads' = Abandoned(kinds) \cup began(asks, Load("releases", NoRelease))
                                  \cup began(redraw /\ Selected # NoRelease, Load("details", Selected))
    BY <1>2
  <2>3. asks \in BOOLEAN /\ (redraw /\ Selected # NoRelease) \in BOOLEAN
    OBVIOUS
  <2> HIDE DEF began, redraw, asks, kinds
  <2> QED
    BY <2>1, <2>2, <2>3
<1>10. \A l \in loads : l.kind = "context" => ~known /\ \A k \in loads : l = k
  BY DEF ServedInv, StartInv
<1>11. StartInv'
  <2>1. \A l \in loads' : IsLoad(l)
    <3> HIDE DEF redraw, reload, kinds, asks
    <3> QED
      BY <1>7, <1>8, <1>9
  <2>3. ASSUME NEW k \in loads', NEW l \in loads', k.kind = "context"
        PROVE  ~known' /\ l = k
    <3>1. k \in Abandoned(kinds)
      <4> HIDE DEF redraw, reload, kinds, asks
      <4> QED
        BY <1>8, <1>9, <2>3
    <3>2. k \in loads
      <4> HIDE DEF redraw, reload, kinds, asks
      <4> QED
        BY <1>7, <2>3, <3>1
    <3>3. ~known /\ loads = {k}
      BY <1>10, <2>3, <3>2
    <3>4. Selected = NoRelease /\ ~asks
      BY <3>3, <1>4
    <3>5. l \in Abandoned(kinds)
      <4> HIDE DEF redraw, reload, kinds, asks
      <4> QED
        BY <1>9, <3>4
    <3>6. k.kind \notin kinds
      BY <2>3
    <3> HIDE DEF redraw, reload, kinds, asks
    <3> QED
      BY <1>1, <1>5, <3>3, <3>5, <3>6
  <2>4. ~known' => list' = {} /\ Details'.release = NoRelease
    BY <1>1, <1>4 DEF DetailsDependencies
  <2>7. ASSUME ~known', NEW l \in loads'
        PROVE  l.kind = "context"
    <3>1. ~asks /\ Selected = NoRelease
      BY <1>1, <1>4, <2>7
    <3>2. \A k \in loads : k.kind = "context"
      BY <1>1, <2>7 DEF ServedInv, StartInv
    <3> HIDE DEF redraw, reload, kinds, asks
    <3> QED
      BY <1>7, <1>9, <3>1, <3>2
  <2>6. ran'.releases = [project |-> ran'.releases.project, refresh |-> ran'.releases.refresh,
                         known |-> ran'.releases.known]
    BY <1>4 DEF ReleasesDependencies
  <2>5. /\ ran'.releases.project = Details'.project
        /\ ran'.releases.refresh = Details'.refresh
        /\ Details'.release # NoRelease => /\ ran'.releases.known = known'
                                           /\ ProjectOf[Details'.release] = Details'.project
    BY <1>1, <1>4 DEF DetailsDependencies, ReleasesDependencies
  <2> HIDE DEF redraw, reload, kinds, asks
  <2> QED
    BY <2>1, <2>3, <2>4, <2>5, <2>6, <2>7 DEF StartInv
<1>12. RefreshInv'
  BY <1>1, <1>4 DEF RefreshInv, ServedInv, DetailsDependencies
<1>13. redraw /\ Selected # NoRelease => Pending' /\ loading'
  <2> HIDE DEF reload, kinds, asks
  <2>1. ASSUME redraw /\ Selected # NoRelease
        PROVE  Load("details", Selected) \in loads'
    BY <1>9, <2>1
  <2>2. Load("details", Selected).kind = "details" /\ Load("details", Selected).active
    BY <1>8
  <2> HIDE DEF redraw
  <2> QED
    BY <1>1, <2>1, <2>2 DEF Pending
<1>14. redraw /\ Selected = NoRelease => ~Pending'
  <2> HIDE DEF redraw, reload, kinds, asks
  <2> QED
    BY <1>7, <1>8, <1>9 DEF Pending
<1>15. ~redraw => (Pending' <=> Pending)
  <2>1. ASSUME ~redraw, NEW k \in loads, k.kind = "details"
        PROVE  k \in Abandoned(kinds)
    <3>1. k.kind \notin kinds
      BY <2>1
    <3> HIDE DEF redraw, reload, kinds, asks
    <3> QED
      BY <3>1 DEF Abandoned
  <2>2. ASSUME ~redraw, NEW l \in loads', l.kind = "details"
        PROVE  l \in Abandoned(kinds)
    <3>1. Load("releases", NoRelease).kind = "releases"
      BY <1>8
    <3> HIDE DEF redraw, reload, kinds, asks
    <3> QED
      BY <1>9, <2>2, <3>1
  <2>3. Abandoned(kinds) \subseteq loads'
    <3> HIDE DEF redraw, reload, kinds, asks
    <3> QED
      BY <1>9
  <2> HIDE DEF redraw, reload, kinds, asks
  <2> QED
    BY <1>7, <2>1, <2>2, <2>3 DEF Pending
<1>16. PendingInv'
  <2> HIDE DEF redraw, reload, kinds, asks
  <2> QED
    BY <1>3, <1>4, <1>13, <1>14, <1>15 DEF PendingInv, ServedInv, Details, DetailsDependencies
<1>17. WaitInv'
  <2>1. CASE redraw
    <3> HIDE DEF redraw, reload, kinds, asks
    <3> QED
      BY <2>1, <1>4, <1>13 DEF WaitInv, Waits, DetailsDependencies
  <2>2. CASE ~redraw
    <3>1. Details' = Details
      BY <2>2, <1>3, <1>4 DEF Details
    <3>2. Waits => ~asks
      <4>1. SUFFICES ASSUME Waits
                     PROVE  ~reload
        OBVIOUS
      <4>2. Details = DetailsDependencies
        BY <2>2, <1>3 DEF Details
      <4>3. /\ ran.releases.project = project
            /\ ran.releases.refresh = refresh
            /\ ran.releases.known = known
        BY <4>1, <4>2 DEF ServedInv, StartInv, DetailsDependencies, Waits
      <4>4. ran.releases = [project |-> ran.releases.project, refresh |-> ran.releases.refresh,
                            known |-> ran.releases.known]
        BY DEF ServedInv, StartInv
      <4> QED
        BY <4>3, <4>4 DEF Changed, ReleasesDependencies
    <3> HIDE DEF redraw, reload, kinds, asks
    <3>3. Waits' <=> Waits
      BY <1>1, <3>1 DEF Waits
    <3> QED
      BY <2>2, <1>1, <1>15, <3>2, <3>3 DEF WaitInv, ServedInv
  <2> QED
    BY <2>1, <2>2
<1> QED
  BY <1>11, <1>12, <1>16, <1>17 DEF ServedInv

(* An answer ends one load.                                                *)
LEMMA AnswersServe ==
  ASSUME WorkspaceInv, ServedInv, NEW l \in loads,
         \/ ContextAnswer(l) \/ ContextFails(l) \/ Ignored(l)
         \/ ReleasesAnswer(l) \/ ReleasesFail(l)
         \/ DetailsAnswer(l) \/ DetailsFail(l)
  PROVE  ServedInv'
<1>1. loads' = loads \ {l} /\ ran' = ran /\ Details' = Details /\ refresh' = refresh /\ busy' = busy
  BY DEF ContextAnswer, ContextFails, Ignored, ReleasesAnswer, ReleasesFail, ActivateProject,
         DetailsAnswer, DetailsFail, Details
<1>2. \/ known' = known
      \/ known' /\ l.kind = "context"
  BY DEF ContextAnswer, ContextFails, Ignored, ReleasesAnswer, ReleasesFail, DetailsAnswer,
         DetailsFail
<1>3. ~known' => list' = {}
  <2>1. ASSUME ~known'
        PROVE  ~known /\ l.kind = "context" /\ list = {}
    BY <1>2, <2>1 DEF ServedInv, StartInv
  <2>2. ASSUME ~known'
        PROVE  Ignored(l)
    BY <2>1, <2>2 DEF ContextAnswer, ContextFails, ReleasesAnswer, ReleasesFail, DetailsAnswer,
                DetailsFail
  <2> QED
    BY <2>1, <2>2 DEF Ignored
<1>4. l.kind = "context" => Details.release = NoRelease
  BY DEF ServedInv, StartInv
<1>5. StartInv'
  BY <1>1, <1>2, <1>3, <1>4 DEF ServedInv, StartInv
<1>6. RefreshInv' /\ PendingInv'
  BY <1>1 DEF ServedInv, RefreshInv, PendingInv, Pending
<1>7. WaitInv'
  <2> SUFFICES ASSUME Waits'
               PROVE  /\ loading' <=> Pending'
                      /\ shown' # Nothing \/ Pending' \/ error' \/ busy' # {}
    BY DEF WaitInv
  <2>1. /\ Waits
        /\ loading <=> Pending
        /\ shown # Nothing \/ Pending \/ error \/ busy # {}
        /\ Details.release # NoRelease
        /\ l.kind # "context"
    BY <1>1, <1>4 DEF ServedInv, WaitInv, Waits
  <2>2. CASE l.kind = "details" /\ l.active
    <3>1. DetailsAnswer(l) \/ DetailsFail(l)
      BY <2>2 DEF ContextAnswer, ContextFails, Ignored, ReleasesAnswer, ReleasesFail
    <3>2. ~Pending'
      <4>1. \A k \in loads : k.kind = "details" /\ k.active => k = l
        BY <2>2, OnePending DEF ServedInv
      <4> QED
        BY <1>1, <4>1 DEF Pending
    <3>3. loading' = FALSE
      BY <3>1 DEF DetailsAnswer, DetailsFail
    <3>4. CASE DetailsAnswer(l)
      <4>1. [project |-> l.project, release |-> l.release, refresh |-> l.refresh] = Details
        BY <2>2 DEF WorkspaceInv, LoadInv, Details
      <4>2. l.project = Details.project /\ l.release = Details.release
        BY <4>1
      <4>3. ProjectOf[Details.release] = Details.project
        BY <2>1 DEF ServedInv, StartInv
      <4>4. shown'.release = Details.release
        BY <3>4, <4>2, <4>3 DEF DetailsAnswer
      <4> QED
        BY <2>1, <3>2, <3>3, <4>4 DEF Nothing
    <3>5. CASE DetailsFail(l)
      BY <3>2, <3>3, <3>5 DEF DetailsFail
    <3> QED
      BY <3>1, <3>4, <3>5
  <2>3. CASE ~(l.kind = "details" /\ l.active)
    <3>1. Pending' <=> Pending
      BY <1>1, <2>3 DEF Pending
    <3>2. loading' = loading /\ (shown' = shown) /\ (error => error')
      BY <2>1, <2>3 DEF ContextAnswer, ContextFails, Ignored, ReleasesAnswer, ReleasesFail,
                        DetailsAnswer, DetailsFail
    <3> QED
      BY <1>1, <2>1, <3>1, <3>2 DEF Nothing
  <2> QED
    BY <2>2, <2>3
<1> QED
  BY <1>5, <1>6, <1>7 DEF ServedInv

LEMMA HandlersServe ==
  ASSUME WorkspaceInv, ServedInv,
         \/ \E r \in Releases : Select(r)
         \/ \E what \in {"release", "all"} : Recompute(what) \/ Recomputed(what)
         \/ DataChanged \/ ConfigurationSaved
  PROVE  ServedInv'
<1>1. loads' = loads /\ ran' = ran /\ known' = known /\ Details' = Details
  BY DEF Select, Recompute, Recomputed, DataChanged, ConfigurationSaved, Details
<1>2. list' = list \/ list' = {}
  BY DEF Select, Recompute, Recomputed, DataChanged, ConfigurationSaved, ActivateProject
<1>3. refresh' = refresh \/ refresh' = refresh + 1
  BY DEF Select, Recompute, Recomputed, DataChanged, ConfigurationSaved
<1>4. StartInv'
  BY <1>1, <1>2 DEF ServedInv, StartInv
<1>5. RefreshInv' /\ PendingInv'
  BY <1>1, <1>3 DEF ServedInv, RefreshInv, PendingInv, Pending
<1>6. WaitInv'
  <2>1. CASE refresh' = refresh + 1
    BY <1>1, <2>1 DEF ServedInv, RefreshInv, WaitInv, Waits
  <2>2. CASE refresh' = refresh
    <3>1. /\ loading' = loading /\ shown' = shown
          /\ busy' # {} \/ error'  \/ (busy' = busy /\ error' = error)
      <4>1. refresh' # refresh + 1
        BY <2>2 DEF ServedInv, RefreshInv
      <4>2. CASE \E r \in Releases : Select(r)
        BY <4>2 DEF Select
      <4>3. CASE \E what \in {"release", "all"} : Recompute(what)
        BY <4>3 DEF Recompute
      <4>4. CASE \E what \in {"release", "all"} : Recomputed(what)
        BY <4>1, <4>4 DEF Recomputed
      <4> QED
        BY <4>1, <4>2, <4>3, <4>4 DEF DataChanged, ConfigurationSaved
    <3> QED
      BY <1>1, <2>2, <3>1 DEF ServedInv, WaitInv, Waits, Pending, Nothing
  <2> QED
    BY <1>3, <2>1, <2>2
<1> QED
  BY <1>4, <1>5, <1>6 DEF ServedInv

(* What the loads of the workspace ask for, and what waits for them.       *)
THEOREM SelectionServed == WorkspaceSpec => []ServedInv
<1>1. WorkspaceInv /\ ServedInv /\ [WorkspaceNext]_workspaceVars => ServedInv'
  <2> SUFFICES ASSUME WorkspaceInv, ServedInv, [WorkspaceNext]_workspaceVars
               PROVE  ServedInv'
    OBVIOUS
  <2>1. CASE RunEffects
    BY <2>1, EffectsServe
  <2>2. CASE \E l \in loads :
               \/ ContextAnswer(l) \/ ContextFails(l) \/ Ignored(l)
               \/ ReleasesAnswer(l) \/ ReleasesFail(l)
               \/ DetailsAnswer(l) \/ DetailsFail(l)
    BY <2>2, AnswersServe
  <2>3. CASE \/ \E r \in Releases : Select(r)
             \/ \E what \in {"release", "all"} : Recompute(what) \/ Recomputed(what)
             \/ DataChanged \/ ConfigurationSaved
    BY <2>3, HandlersServe
  <2>4. CASE UNCHANGED workspaceVars
    BY <2>4 DEF workspaceVars, ServedInv, StartInv, RefreshInv, PendingInv, WaitInv, Pending,
                Details, Waits, Nothing
  <2> QED
    BY <2>1, <2>2, <2>3, <2>4 DEF WorkspaceNext
<1> QED
  BY InitialServed, WorkspaceInvariance, <1>1, PTL DEF WorkspaceSpec

(* A selected release is never forgotten, and the loading indicator says   *)
(* what is under way, whatever order the answers, refreshes and            *)
(* recomputations come in (useReleaseWorkspace.ts).                        *)
THEOREM SelectionIsNeverForgotten == WorkspaceSpec => []SelectionIsServed
<1>1. ASSUME WorkspaceInv, ServedInv
      PROVE  SelectionIsServed
  <2> DEFINE underWay == \E l \in loads : /\ l.kind = "details" /\ l.active
                                          /\ l.release = Selected /\ l.refresh = refresh
  <2> SUFFICES ASSUME Settled, Selected # NoRelease
               PROVE  /\ shown # Nothing \/ underWay \/ error \/ busy # {}
                      /\ loading <=> underWay
    BY DEF SelectionIsServed
  <2>1. Details = DetailsDependencies
    BY DEF Settled, Changed, Details
  <2>2. Waits
    BY <2>1 DEF Waits, DetailsDependencies
  <2>3. Pending <=> underWay
    <3>1. ASSUME NEW l \in loads, l.kind = "details", l.active
          PROVE  l.release = Selected /\ l.refresh = refresh
      <4>1. [project |-> l.project, release |-> l.release, refresh |-> l.refresh]
              = [project |-> project, release |-> Selected, refresh |-> refresh]
        <5>1. [project |-> l.project, release |-> l.release, refresh |-> l.refresh] = Details
          BY <1>1, <3>1 DEF WorkspaceInv, LoadInv, Details
        <5> QED
          BY <2>1, <5>1 DEF DetailsDependencies
      <4> QED
        BY <4>1
    <3> QED
      BY <3>1 DEF Pending
  <2>4. /\ shown # Nothing \/ Pending \/ error \/ busy # {}
        /\ loading <=> Pending
    BY <1>1, <2>2 DEF ServedInv, WaitInv
  <2> HIDE DEF underWay
  <2> QED
    BY <2>3, <2>4
<1> QED
  BY <1>1, WorkspaceInvariance, SelectionServed, PTL

=============================================================================
