SPECIFICATION FairSpec
CONSTANTS
  Readers = {r1}
  Detached = TRUE
  Operator = TRUE
  MaxSpool = 1
  MaxFaults = 1
PROPERTIES CancelReturns OrphanWaitReturns
CHECK_DEADLOCK FALSE
