SPECIFICATION Spec
CONSTANTS
  MaxRuns = 1
  MaxFaults = 0
  MaxPolls = 1
  ResetAttempts = 1
PROPERTY ControlRemainsOnHat
CHECK_DEADLOCK FALSE
