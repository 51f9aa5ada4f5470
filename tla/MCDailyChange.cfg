SPECIFICATION MCSpec
CONSTANTS
  Missing = Missing
  r1 = r1
  r2 = r2
  NoOne = NoOne
  Unset = Unset
  Requests = {r1, r2}
  Databases <- MCDatabases
  Tickets <- MCTickets
  Changes <- MCChanges
  Configurations <- MCConfigurations
  MaxSyncs = 1
  DayLength = 1
INVARIANT DailyChangeRespectsClassification
CHECK_DEADLOCK FALSE
