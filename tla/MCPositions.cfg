SPECIFICATION Spec
CONSTANTS
    Cards = {c1, c2, c3}
    Cells = {k1, k2}
    MaxPosition = 3
    AdminPositions <- MCNatural
    Ops <- MCAllOps
INVARIANTS TypeOK
PROPERTIES SplitsCell OrderKept CompactKept
SYMMETRY MCSymmetry
CHECK_DEADLOCK FALSE
