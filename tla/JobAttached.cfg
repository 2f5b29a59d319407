SPECIFICATION Spec
CONSTANTS
  Readers = {r1, r2}
  Detached = FALSE
  Operator = FALSE
  MaxSpool = 0
  MaxFaults = 3
INVARIANTS FrontendAgrees
PROPERTIES NothingForgotten
SYMMETRY Observers
CHECK_DEADLOCK FALSE
