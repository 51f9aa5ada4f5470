SPECIFICATION FairSpec
CONSTANTS
  Issues <- MCIssues
  MaxClock = 4
  MaxFaults = 2
INVARIANTS
  TypeOK
  TrustedCursor
  HistoryCoversIssue
  RunningIsShown
PROPERTIES
  AllOrNothing
  Convergence
