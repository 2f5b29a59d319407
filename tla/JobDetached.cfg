SPECIFICATION Spec
CONSTANTS
  Readers = {r1, r2}
  Detached = TRUE
  Operator = FALSE
  MaxSpool = 1
  MaxFaults = 2
INVARIANTS LiveOwnerNeverLost RecordInv
PROPERTIES CommittedOutcomeStable
SYMMETRY Observers
CHECK_DEADLOCK FALSE
