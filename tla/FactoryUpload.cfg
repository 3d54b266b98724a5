CONSTANTS
  MaxUploads = 2
  MaxWire = 1
  MaxWithFaults = 1
SPECIFICATION FairSpec
INVARIANTS Inv
PROPERTIES VerdictsHold PageIsAnswered StopEnds
CHECK_DEADLOCK FALSE
