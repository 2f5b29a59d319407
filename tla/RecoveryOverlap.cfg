SPECIFICATION Spec
CONSTANTS
  Recoverers = {r1, r2}
  Files = {f1, f2}
  Outputs = {o1, o2}
  Dest = o1
  MaxFaults = 1
INVARIANTS ClaimMatchesEvents
CHECK_DEADLOCK FALSE
