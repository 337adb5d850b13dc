SPECIFICATION Spec
CONSTANTS
    a = a
    b = b
    Cards = {a, b}
    Worlds <- PassingWorlds
    MaxEvents = 3
    MaxFetches = 1
    MaxOwn = 1
    MaxGaps = 1
SYMMETRY Symmetry
INVARIANTS TypeOK ScreenSettles CellsSettle
CHECK_DEADLOCK FALSE
