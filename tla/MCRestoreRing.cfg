SPECIFICATION Spec
CONSTANTS
    Procs = {p1, p2, p3}
    Cards <- MCCards
    Columns <- MCFiveColumns
    Lanes <- MCThreeLanes
    ColumnLimit <- MCGameLimit
    LaneLimit <- MCGameLaneLimit
    Counted <- MCCountAll
    InitCards <- MCRingBoards
    InitColumns <- MCFourColumns
    InitLanes <- MCThreeLanes
    Requests <- MCRingRequests
    MaxTries = 2
INVARIANTS NoWaitCycle
SYMMETRY ProcSymmetry
