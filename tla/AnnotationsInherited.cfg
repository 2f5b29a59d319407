CONSTANTS
    ParentThreads = {a, b}
    Forked = c
    Inherited = Inherited
    Nil = Nil
    Transport = "fd"
    Pieces = 2
    MaxRecords = 3
    RecordLimits = {3}
    MaxUpsets = 1
SPECIFICATION Spec
INVARIANT RecordsWhole
CHECK_DEADLOCK FALSE
