--------------------------- MODULE MCCardPositions ---------------------------
(***************************************************************************)
(* An instance of CardPositions for TLC: three cards, interchangeable, in   *)
(* two cells.                                                               *)
(***************************************************************************)
EXTENDS CardPositions, TLC

MCSymmetry == Permutations(Cards)

MCAllOps ==
    {"create", "place", "transfer", "reorder", "archive", "restore", "delete", "admin"}

MCNatural == 0 .. MaxPosition
=============================================================================
