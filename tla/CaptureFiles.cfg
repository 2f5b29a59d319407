SPECIFICATION FilesSpec
CONSTANTS
  Recoverers = {r1, r2}
  Files = {f1, f2}
  Outputs = {o1, o2}
  Dest = o1
  MaxFaults = 2
  Streams = {"out"}
  HeadLimit = 2
  TailLimit = 2
  MaxOmitted = 1
  MaxRead = 3
  MaxBytes = 6
  MaxMishaps = 1
INVARIANTS EvidenceKept RunpackInv OutputInv
PROPERTIES CheckpointPublished FollowerShowsView FollowerReturns
CHECK_DEADLOCK FALSE
