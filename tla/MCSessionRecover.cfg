CONSTANTS
  input = input
  camera = camera
  TestIds <- MCTestIds
  Plans <- MCPlans
  NoTest = NoTest
  NoResult = NoResult
  MaxSessions = 2
  MaxAttempts <- NoAttempts
SPECIFICATION Spec
INVARIANTS UnfinishedIsRecovered
CHECK_DEADLOCK FALSE
