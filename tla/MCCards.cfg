SPECIFICATION MCGameSpec
CONSTANTS
    Procs = {p1, p2, p3}
    Cards <- MCCards
    Columns <- MCFiveColumns
    Lanes <- MCThreeLanes
    ColumnLimit <- MCGameLimit
    LaneLimit <- MCGameLaneLimit
    Counted <- MCCountAll
    InitCards <- MCGameBoards
    InitColumns <- MCFourColumns
    InitLanes <- MCThreeLanes
    Requests <- MCGameRequests
    MaxTries = 2
INVARIANTS TypeOK OnlyRestoresDeadlock MembersLocked DecidedOnCurrentRow NoIntegrityError
PROPERTIES ImplementsContents
SYMMETRY ProcSymmetry
