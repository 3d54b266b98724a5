CONSTANTS
  input = input
  camera = camera
  TestIds <- MCTestIds
  Plans <- MCPlans
  NoTest = NoTest
  NoResult = NoResult
  MaxSessions = 2
  MaxAttempts <- MCAttempts
SPECIFICATION Spec
INVARIANTS TypeOK MemoryMatchesDisk CompletedHasResult EvidenceFromLastAttempt
PROPERTIES Journal
CHECK_DEADLOCK FALSE
