SPECIFICATION Spec
CONSTANTS
    card = card
    comment = comment
    NoOne = NoOne
    Kinds <- MCOneKind
    Readable <- MCOneKind
    Typesets <- MCOneType
    Dispatchers = {d1, d2}
    Pruners = {}
    MaxId = 1
    Unrecorded = 0
    BatchSize = 1
    Retention = 1
    Oldest = 2
    Skew = 0
    TxTime = 1
    SettleTime = 2
    MaxEvents = 1
    MaxFailures = 2
    SlowRuns = FALSE
    AdminOps <- MCOwnerOps
    MaxAdmin = 2
    MaxCrashes = 0
INVARIANTS NeverFromBoth
SYMMETRY RunSymmetry
CHECK_DEADLOCK FALSE
