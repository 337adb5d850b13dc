SPECIFICATION Spec
CONSTANTS
    open = open
    adminOnly = adminOnly
    Kinds <- MCKinds
    Roles <- MCRoles
    MaxId = 3
    Unrecorded = 1
    Pruners = {p1, p2}
    BatchSize = 1
    Retention = 1
    Oldest = 2
    Skew = 0
    TxTime = 1
    Limit = 2
INVARIANTS TypeOK MarksCoverPruned PageIsComplete OnlyLateRowsMissed
PROPERTIES MarksNeverFall NextCursorResumes
SYMMETRY PrunerSymmetry
CHECK_DEADLOCK FALSE
