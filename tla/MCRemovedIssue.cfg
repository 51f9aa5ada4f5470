SPECIFICATION Spec
CONSTANTS
  Issues <- MCIssues
  MaxClock = 2
  MaxFaults = 0
PROPERTY RemovalsAreVisible
