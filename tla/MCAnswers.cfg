SPECIFICATION FairSpec
CONSTANTS
    Procs = {p1, p2}
    Cards <- MCCards
    Columns <- MCColumns
    Lanes <- MCTwoLanes
    ColumnLimit <- MCLimitOne
    LaneLimit <- MCLaneLimit
    Counted <- MCCountAll
    InitCards <- MCSpreadBoards
    InitColumns <- MCInitColumns
    InitLanes <- MCTwoLanes
    Requests <- MCAllRequests
    MaxTries = 2
INVARIANTS CardsInv
PROPERTIES EveryRequestAnswered
