CONSTANTS
  MaxUploads = 2
  MaxWire = 1
  MaxWithFaults = 2
SPECIFICATION Spec
PROPERTIES SuccessWasSent
CHECK_DEADLOCK FALSE
