----------------------------- MODULE MCCardLocks -----------------------------
(***************************************************************************)
(* Instances of CardLocks for TLC: one board and up to three cards.  Two     *)
(* columns, a third to be created, and two swimlanes for pairs of requests  *)
(* of any kind; four columns, a fifth to be created, and three swimlanes    *)
(* for the games of three requests, each with a part of the board of its    *)
(* own.                                                                     *)
(***************************************************************************)
EXTENDS CardLocksInvariant, TLC

Row(k, l, a)  == [st |-> "live", col |-> k, lane |-> l, archived |-> a, ver |-> 1]
Unborn        == [st |-> "unborn", col |-> 1, lane |-> 1, archived |-> FALSE, ver |-> 1]

Ask(op, c, k, l) == [op |-> op, card |-> c, col |-> k, lane |-> l, arch |-> FALSE]

MCCards   == 1 .. 3
MCColumns == 1 .. 3
MCTwoLanes == 1 .. 2
MCInitColumns == {1, 2}

MCLimitOne   == 2 :> 1
MCLaneLimit  == 1 :> 2
MCCountAll   == [l \in Lanes |-> Columns]

\* The requests are interchangeable; used for safety only.
ProcSymmetry == Permutations(Procs)

\* Two cards in one column, a third still to be created.
MCPairBoard == {(1 :> Row(1, 1, FALSE)) @@ (2 :> Row(1, 1, FALSE)) @@ (3 :> Unborn)}

\* A card in each column, or the second archived; a third to be created.
MCSpreadBoards ==
    {(1 :> Row(1, 1, FALSE)) @@ (2 :> Row(2, 1, a)) @@ (3 :> Unborn) : a \in BOOLEAN}
MCActiveBoard == {b \in MCSpreadBoards : ~b[2].archived}

\* Moves either way, creation and placement.
MCMoveRequests ==
    {Ask("move", c, k, 1) : c \in {1, 2}, k \in {1, 2}}
    \cup {Ask(op, 3, k, 1) : op \in {"create", "place"}, k \in {1, 2}}

\* Everything that takes whole containers, against what may enter them.
MCCascadeRequestsWith(newColumn) ==
    {Ask("dropColumn", 1, 2, 1), Ask("dropLane", 1, 1, 2), Ask("dropBoard", 1, 1, 1),
     Ask("reorderColumns", 1, 1, 1), Ask("reorderLanes", 1, 1, 1), Ask("addColumn", 1, newColumn, 1),
     Ask("move", 1, 2, 1), Ask("move", 1, 1, 2), Ask("create", 3, 2, 2), Ask("place", 3, 2, 1),
     Ask("archive", 2, 1, 1), Ask("delete", 2, 1, 1)}

MCCascadeRequests == MCCascadeRequestsWith(3)

\* Every kind of write to one card.
MCOneCardRequests ==
    {Ask(op, 1, 1, 1) : op \in {"update", "grow", "block", "archive", "restore", "delete"}}
    \cup {Ask(op, 1, k, 1) : op \in {"move", "admin"}, k \in {1, 2}}
    \cup {[Ask("admin", 1, 2, 1) EXCEPT !.arch = TRUE]}

\* Everything that may add to the limited column k or the limited lane l, for
\* which a card comes from column j.
MCLimitRequestsIn(j, k, l) ==
    {Ask(op, 1, k, l) : op \in {"move", "admin", "archive", "grow"}}
    \cup {Ask(op, 2, k, l) : op \in {"move", "restore"}}
    \cup {Ask(op, 3, to, l) : op \in {"create", "place"}, to \in {j, k}}

MCLimitRequests == MCLimitRequestsIn(1, 2, 1)

\* One or two of everything.
MCAllRequests ==
    MCCascadeRequests \cup MCOneCardRequests \cup MCLimitRequests

-----------------------------------------------------------------------------
\* Five games on one board: moves within columns 1 and 2, writes to one card
\* there, cascades there with column 5 still to come, entries to columns 3
\* and 4 and lane 3, of which 4 and 3 are limited, and a restore, a move and a
\* reorder that meet in lane 3.
MCFourColumns == 1 .. 4
MCFiveColumns == 1 .. 5
MCThreeLanes  == 1 .. 3
MCGameLimit     == 4 :> 1
MCGameLaneLimit == 3 :> 2

MCLimitBoards ==
    {(1 :> Row(3, 3, FALSE)) @@ (2 :> Row(4, 3, a)) @@ (3 :> Unborn) : a \in BOOLEAN}

\* A restore into an unlimited column of the limited lane, a move into that
\* lane from a higher column, and what may hold columns or cards for longer.
MCRingBoards == {(1 :> Row(1, 3, TRUE)) @@ (2 :> Row(2, 1, FALSE)) @@ (3 :> Unborn)}
MCRingRequests ==
    {Ask("restore", 1, 1, 1), Ask("move", 2, 2, 3), Ask("move", 2, 1, 3),
     Ask("create", 3, 2, 3), Ask("reorderColumns", 1, 1, 1), Ask("reorderLanes", 1, 1, 1)}

MCGames ==
    {[boards |-> MCPairBoard,   asks |-> MCMoveRequests],
     [boards |-> MCSpreadBoards, asks |-> MCOneCardRequests],
     [boards |-> MCActiveBoard, asks |-> MCCascadeRequestsWith(5)],
     [boards |-> MCLimitBoards, asks |-> MCLimitRequestsIn(3, 4, 3)],
     [boards |-> MCRingBoards, asks |-> MCRingRequests]}

MCGameBoards   == UNION {g.boards : g \in MCGames}
MCGameRequests == UNION {g.asks : g \in MCGames}

MCGameInit ==
    /\ Init
    /\ \E g \in MCGames : card \in g.boards /\ \A p \in Procs : req[p] \in g.asks

MCGameSpec == MCGameInit /\ [][Next]_vars
=============================================================================
