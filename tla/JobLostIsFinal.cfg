SPECIFICATION Spec
CONSTANTS
  Readers = {r1, r2}
  Detached = FALSE
  Operator = FALSE
  MaxSpool = 0
  MaxFaults = 2
PROPERTIES LostIsFinal
SYMMETRY Observers
CHECK_DEADLOCK FALSE
