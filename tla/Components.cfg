SPECIFICATION ComponentsSpec
CONSTANTS
  ParentThreads = {a, b}
  Forked = c
  Inherited = Inherited
  Nil = Nil
  Transport = "path"
  Pieces = 2
  MaxRecords = 3
  RecordLimits = {2, 4}
  MaxUpsets = 2
  Jobs = {1, 2, 3}
  Previous = {3}
  Retained = 1
  Retention = 0
  Entries = 2
  MaxTime = 1
  Pids = {1, 2, 3}
  MaxProcesses = 3
  MaxSamples = 4
  MaxPolls = 3
  Limit = 1
  MaxStarts = 2
  MaxDepth = 2
  MaxWrites = 3
  Ranges <- SearchedRanges
  Budgets = {2, 6}
  MaxChanges = 2
  MaxMoves = 2
  Containers = {c1, c2}
  MaxObjects = 3
  MaxSteps = 5
  ActivityNames = {1, 2}
  MaxEvents = 5
  MaxSpans = 1
  Services = {1, 2}
  MaxTraceSpans = 2
  MaxLogs = 1
  MaxTelemetry = 4
  SizeLimits <- SmallSizes
  MaxImports = 2
  ExitCodes = {0, 1}
  Outputs = {1, 2}
  Measurements = {1, 2, 3}
  MaxCount = 1
  Percent = 50
  Factor = 1
  RowIds = {1, 2, 3}
  MaxInstant = 2
  MaxRows = 3
  KeptEvents = 2
  MaxDocuments = 2
  MaxReported = 3
  FunctionNames = {1, 2, 3}
  Native = {3}
  KeptFunctions = 2
  KeptEdges = 1
  MaxPids = 2
  MaxItems = 4
INVARIANTS
  RecordsWhole
  DiscardedOnlyForCause
  LockHeldByWriter
  BoundariesAreTrue
  ReportIsTrue
  ObservationIsWhole
  NewestJobsKept
  PublishedIsWhole
  EvidenceIsTrue
  SummaryIsTrue
  ProfileIsTrue
  StoredIsReadable
  IdentityIsOfTheRecords
  AnalysesAreTrue
  ConclusionsAreTrue
  ExperimentsAreSound
  HistoryIsTrue
  TelemetryIsTrue
  SnapshotIsTrue
PROPERTIES OthersKept
CHECK_DEADLOCK FALSE
