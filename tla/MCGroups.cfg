SPECIFICATION MCGameSpec
CONSTANTS
    Procs = {p1, p2, p3}
    Groups <- MCGroups
    MaxDepth = 3
    Links <- MCLinks
    LinkGroup <- MCLinkGroup
    Emailed = {1}
    MaxActive = 2
    Users <- MCUsers
    SiteAdmins = {4}
    InitTrees <- MCTrees
    InitLinks <- MCInitLinks
    InitStaff <- MCStaff
    Games <- MCGames
INVARIANTS GroupsInv NoGroupAboveItself OnlyRewalksDeadlock NoIntegrityError LinkLimits
PROPERTIES OthersKeepTheTree AdministrationKept
SYMMETRY ProcSymmetry
