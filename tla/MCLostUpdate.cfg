SPECIFICATION Spec
CONSTANTS
  Issues <- MCIssues
  MaxClock = 4
  MaxFaults = 0
PROPERTY SkippedIssuesAreUnchanged
