SPECIFICATION HatSpec
CONSTANTS
  MaxVisits = 2
  MaxRuns = 2
  MaxFaults = 2
  MaxPolls = 1
  ResetAttempts = 2
  MaxRestarts = 2
  Candidates = 2
  Registers = 2
  Lines <- MCLines
INVARIANTS FixtureInv RadioInv ExtIoInv HandedBack
PROPERTIES DrivenAsGpio LeavingEnds
CHECK_DEADLOCK FALSE
