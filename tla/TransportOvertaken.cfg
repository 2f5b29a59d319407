SPECIFICATION Spec
CONSTANTS
  Pids = {p1}
  Root = p1
  Backlog = 2
  FileLimits = {2}
  DropLimit = 1
  MaxMessages = 4
  Periodic = {p1}
  MaxCheckpoints = 1
  MaxFaults = 1
PROPERTIES LatestRetained
CHECK_DEADLOCK FALSE
