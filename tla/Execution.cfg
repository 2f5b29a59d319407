SPECIFICATION FairSpec
CONSTANTS
  Streams = {out, err}
  First = out
  PipeSize = 2
  MaxRead = 1
  DrainLimit = 2
  MaxOutput = 1
  MaxFaults = 2
INVARIANTS OutputInv NoProcessLeft
PROPERTIES CaptureEnds
CHECK_DEADLOCK FALSE
