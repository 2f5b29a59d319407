SPECIFICATION BoundarySpec
CONSTANTS
  Limit = 1
  MaxStarts = 2
  MaxDepth = 2
INVARIANT SnapshotAccepted
CHECK_DEADLOCK FALSE
