SPECIFICATION MCSpec
CONSTANTS
  Missing = Missing
  k1 = k1
  k2 = k2
  Nobody = Nobody
  Unset = Unset
  NoProject = NoProject
  NoRelease = NoRelease
  Keys = {k1, k2}
  Classification <- MCClassification
  NewTickets <- MCNewTickets
  Values <- MCValues
  ChurnWindow = 2
  Iterations <- MCIterations
  MaxDay = 4
  MaxEntries = 3
  Settings <- MCClassification
  Scopes <- MCScopes
  Sprints <- MCSprints
  Histories <- Eventful
  OtherSprints <- Pasts
  Display <- MCDisplay
  MaxTime = 3
  MaxResults = 1
  Requests = {"q1", "q2"}
  JiraStatuses = {"a", "b"}
  Default <- MCDefault
  Deployed <- MCDeployed
  Releases <- MCReleases
  ProjectOf <- MCProjectOf
  Phase <- MCPhase
  Created <- MCCreated
  MaxRefresh = 2
  Newest = 4
  Kinds <- MCKinds
  Repeatable = {2}
  LastLegacy = 2
  Originals <- MCOriginals
  MaxBackends = 4
INVARIANTS
  RiskStartIsProven
  ScopeBalances
  ReopensBalance
  SprintAvailabilityIsStored
  WorkloadIsTrue
  ScoreIsExplained
  BackupProtects
  NeverServesPartialSchema
  AcceptedConfigurationStarts
  ShownBelongsToSelection
  SelectionIsServed
  BackendsAreControlled
  HonestWindow
PROPERTIES
  CycleIsFixed
  WorkPaysOff
CHECK_DEADLOCK FALSE
