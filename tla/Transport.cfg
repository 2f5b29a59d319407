SPECIFICATION FairSpec
CONSTANTS
  Pids = {p1, p2}
  Root = p1
  Backlog = 1
  FileLimits = {1, 2}
  DropLimit = 1
  MaxMessages = 3
  Periodic = {p1}
  MaxCheckpoints = 1
  MaxFaults = 1
INVARIANTS ReportsInv
PROPERTIES SocketOrderKept ExitNotHeldUp CollectionEnds
CHECK_DEADLOCK FALSE
