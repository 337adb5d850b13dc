SPECIFICATION Spec
CONSTANTS
    Cards = {c1}
    Cells = {k1, k2}
    Texts = {t1, t2}
    Nothing = Nothing
    Ops <- WithAdmin
    MaxVersion = 4
    MaxTrail = 5
INVARIANTS TypeOK VersionOrdersCopies BlockMirrored
PROPERTIES TrailTellsTheCard
CHECK_DEADLOCK FALSE
