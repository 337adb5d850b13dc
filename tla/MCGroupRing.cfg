SPECIFICATION MCRingSpec
CONSTANTS
    Procs = {p1, p2, p3, p4}
    Groups <- MCGroups
    MaxDepth = 6
    Links = {}
    LinkGroup <- MCNoLinks
    Emailed = {}
    MaxActive = 5
    Users <- MCUsers
    SiteAdmins = {}
    InitTrees <- MCRing
    InitLinks = {}
    InitStaff <- MCRingStaff
    Games <- MCRingGames
INVARIANTS NoGroupAboveItself
SYMMETRY ProcSymmetry
