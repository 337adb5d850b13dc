SPECIFICATION FairSpec
CONSTANTS
    card = card
    comment = comment
    NoOne = NoOne
    Kinds <- MCKinds
    Readable <- MCReadable
    Typesets <- MCTypesets
    Dispatchers = {d1}
    Pruners = {p1}
    MaxId = 2
    Unrecorded = 0
    BatchSize = 1
    Retention = 0
    Oldest = 1
    Skew = 0
    TxTime = 0
    SettleTime = 1
    MaxEvents = 1
    MaxFailures = 2
    SlowRuns = FALSE
    AdminOps <- MCOtherOps
    MaxAdmin = 1
    MaxCrashes = 1
PROPERTIES CursorForward ExpiredExactly NothingWaitsForEver
CHECK_DEADLOCK FALSE
