SPECIFICATION MCSpec
CONSTANTS
  Missing = Missing
  r1 = r1
  r2 = r2
  NoOne = NoOne
  Unset = Unset
  Requests = {r1, r2}
  Databases <- MCDatabases
  Changes <- MCChanges
  Configurations <- MCConfigurations
  Tickets <- MCTickets
  MaxSyncs = 1
  DayLength = 1
INVARIANTS
  TypeOK
  ExplainedScore
  ExplainedChange
  AvailabilityIsStored
  HonestSignals
  SignalOfLatest
  LatestIsCurrent
  SignalSurvivesCompletion
  ResponsesAgree
  ComparisonsRespectClassification
PROPERTIES
  ResultsAreImmutable
  RequestsEnd
CHECK_DEADLOCK FALSE
