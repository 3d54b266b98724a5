CONSTANTS
  input = input
  camera = camera
  link = link
  TestIds <- MCTestIds
  Plans <- MCPlans
  MaxAttempts <- NoAttempts
  NoTest = NoTest
  NoResult = NoResult
  MaxSessions = 2
SPECIFICATION FSpec
INVARIANTS FInv
PROPERTIES VerdictForDisplayedTest AbandonedOnRequest
CHECK_DEADLOCK FALSE
