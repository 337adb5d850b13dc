SPECIFICATION Spec
CONSTANTS
    card = card
    comment = comment
    NoOne = NoOne
    Kinds <- MCOneKind
    Readable <- MCOneKind
    Typesets <- MCOneType
    Dispatchers = {d1, d2}
    Pruners = {}
    MaxId = 2
    Unrecorded = 0
    BatchSize = 1
    Retention = 1
    Oldest = 2
    Skew = 0
    TxTime = 1
    SettleTime = 2
    MaxEvents = 2
    MaxFailures = 2
    SlowRuns = TRUE
    AdminOps <- MCOwnerOps
    MaxAdmin = 1
    MaxCrashes = 0
INVARIANTS TypeOK NothingSkipped OneStaleSend
PROPERTIES CursorForward FirstTimesInOrder
SYMMETRY RunSymmetry
CHECK_DEADLOCK FALSE
