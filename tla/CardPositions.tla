---------------------------- MODULE CardPositions ----------------------------
(***************************************************************************)
(* Card.position: how the card services number the cards of a cell (one     *)
(* column in one swimlane).  Every operation is one step, because each holds *)
(* the rows it numbers from its first read to its commit (MembersLocked of  *)
(* CardLocks).  A cell is shown sorted by position; equal positions have no *)
(* defined order.  A limit that refuses an operation leaves nothing behind, *)
(* so limits are left out.                                                  *)
(***************************************************************************)
EXTENDS Integers, FiniteSets

CONSTANTS
    Cards,         \* cards that may be created
    Cells,         \* the cells of the board, none of which is deleted
    MaxPosition,   \* bound: no step may store a higher position
    AdminPositions, \* the positions typed into the admin form, which takes any integer
    Ops            \* the kinds of request that are made

VARIABLE card

ASSUME SizeAssumption ==
    /\ IsFiniteSet(Cards) /\ Cells # {} /\ MaxPosition \in Nat
    /\ \A p \in AdminPositions : p \in Int /\ p <= MaxPosition

CardRecord == [ st : {"unborn", "live", "gone"}, cell : Cells, pos : Int,
                archived : BOOLEAN ]

\* The positions a client may ask for.  A move clamps what it is given, so
\* one value on each side of the stored positions stands for all of them.
Asked == -1 .. MaxPosition + 1

Unborn == [st |-> "unborn", cell |-> CHOOSE k \in Cells : TRUE, pos |-> 0, archived |-> FALSE]

Init == card = [c \in Cards |-> Unborn]

-----------------------------------------------------------------------------
(* Numbering.  rows stands for the table, before or within a transaction.   *)

Members(rows, k) == {c \in Cards : rows[c].st = "live" /\ rows[c].cell = k}
Active(rows, k)  == {c \in Members(rows, k) : ~rows[c].archived}

Shift(rows, S, n) ==
    [c \in Cards |-> IF c \in S THEN [rows[c] EXCEPT !.pos = @ + n] ELSE rows[c]]

\* Faults: every other card moves up; a position read before an earlier move
\* out of the cell decides; the gap is left open.
CloseGapForAll(rows, c)    == Shift(rows, Active(rows, rows[c].cell) \ {c}, -1)
CloseGapFromStale(rows, c) ==
    Shift(rows, {d \in Active(rows, rows[c].cell) \ {c} : rows[d].pos > rows[c].pos + 1}, -1)
LeaveGap(rows, c)          == rows

\* The gap a card leaves in its cell is closed among the active cards.
CloseGap(rows, c) ==
    Shift(rows, {d \in Active(rows, rows[c].cell) \ {c} : rows[d].pos > rows[c].pos}, -1)

\* Fault: the card at the position itself does not make room.
MakeRoomAbove(rows, S, at) == Shift(rows, {d \in S : rows[d].pos > at}, 1)

\* Room is made among all cards of the target cell, archived ones included.
MakeRoom(rows, S, at) == Shift(rows, {d \in S : rows[d].pos >= at}, 1)

\* One past the highest of the cards S, and 0 if there is none.
Past(rows, S) ==
    CHOOSE n \in 0 .. MaxPosition + 1 :
        /\ \A d \in S : rows[d].pos < n
        /\ (n = 0 \/ \E d \in S : rows[d].pos = n - 1)

\* p, clamped into [0, highest sibling + 1].
Clamp(rows, S, p) ==
    LET high == IF p <= Past(rows, S) THEN p ELSE Past(rows, S)
    IN  IF high < 0 THEN 0 ELSE high

\* The table after card c has moved to cell k with position p asked for.  A
\* move within one cell leaves the gap open.
Moved(rows, c, k, p) ==
    LET others == Members(rows, k) \ {c}
        at     == Clamp(rows, others, p)
        closed == IF rows[c].cell = k THEN rows ELSE CloseGap(rows, c)
    IN  [MakeRoom(closed, others, at) EXCEPT ![c].cell = k, ![c].pos = at]

\* A new card takes the number of cards in its cell for its position.
Created(rows, c, k) ==
    [rows EXCEPT ![c] = [st |-> "live", cell |-> k, archived |-> FALSE,
                         pos |-> Cardinality(Members(rows, k))]]

InBound(rows) == \A c \in Cards : rows[c].pos <= MaxPosition

-----------------------------------------------------------------------------
(* Requests.                                                                *)

Create(c, k) ==
    /\ card[c].st = "unborn"
    /\ InBound(Created(card, c, k))
    /\ card' = Created(card, c, k)

\* Created, and in the same transaction reordered within its cell unless it
\* has the position asked for already.
Place(c, k, p) ==
    LET made == Created(card, c, k)
        put  == IF p = made[c].pos THEN made ELSE Moved(made, c, k, p)
    IN  /\ card[c].st = "unborn"
        /\ InBound(put)
        /\ card' = put

\* Archived cards may be moved.
Move(c, k, p) ==
    /\ card[c].st = "live"
    /\ InBound(Moved(card, c, k, p))
    /\ card' = Moved(card, c, k, p)

Transfer(c, k, p) == card[c].cell # k /\ Move(c, k, p)
Reorder(c, p)     == Move(c, card[c].cell, p)

\* A card keeps its position while it is archived and when it is restored.
Archive(c) ==
    /\ card[c].st = "live" /\ ~card[c].archived
    /\ card' = [card EXCEPT ![c].archived = TRUE]

Restore(c) ==
    /\ card[c].st = "live" /\ card[c].archived
    /\ card' = [card EXCEPT ![c].archived = FALSE]

\* The gap a deleted card leaves stays open.
Delete(c) ==
    /\ card[c].st = "live" /\ ~card[c].archived
    /\ card' = [card EXCEPT ![c].st = "gone"]

\* The Django admin stores the cell, the position and the archive state that
\* the form was sent with, and numbers nothing.
AdminSave(c, k, p, a) ==
    /\ card[c].st = "live"
    /\ card' = [card EXCEPT ![c].cell = k, ![c].pos = p, ![c].archived = a]

Next ==
    \E c \in Cards :
        \/ "create" \in Ops /\ \E k \in Cells : Create(c, k)
        \/ "place" \in Ops /\ \E k \in Cells, p \in Asked : Place(c, k, p)
        \/ "transfer" \in Ops /\ \E k \in Cells, p \in Asked : Transfer(c, k, p)
        \/ "reorder" \in Ops /\ \E p \in Asked : Reorder(c, p)
        \/ "archive" \in Ops /\ Archive(c)
        \/ "restore" \in Ops /\ Restore(c)
        \/ "delete" \in Ops /\ Delete(c)
        \/ "admin" \in Ops /\ \E k \in Cells, p \in AdminPositions, a \in BOOLEAN :
                                  AdminSave(c, k, p, a)

Spec == Init /\ [][Next]_card

-----------------------------------------------------------------------------
(* Properties.                                                              *)

\* Types, and the fact that closing gaps never takes a position below 0 (unless
\* the admin form stores one there).
TypeOK == card \in [Cards -> CardRecord] /\ \A c \in Cards : card[c].pos >= 0

\* The cards of k that were below position p are before card c, all others
\* after it, archived ones included: c ties with none of them.
Splits(c, k, p) ==
    \A d \in Members(card, k) \ {c} :
        IF card[d].pos < p THEN card'[d].pos < card'[c].pos ELSE card'[d].pos > card'[c].pos

\* move_card puts the card exactly where the position asked for says, whatever
\* gaps and ties the cell has: the clamp is "order-preserving for any input"
\* (cards.py:2027).  True as long as no position is negative: a card asked to be
\* below a negative sibling, which only the admin form can store, lands above it.
SplitsCell ==
    [][\A c \in Cards, p \in Asked : Move(c, card'[c].cell, p) => Splits(c, card'[c].cell, p)]_card

\* Card d, archived or not, stayed where it was when card c left its cell: it was
\* tied with c, or it is archived, and an archived card above the gap keeps its place.
Stays(d, c) ==
    card[d].pos = card[c].pos \/ (card[d].archived /\ card[d].pos > card[c].pos)

\* Neither closing the gap in the source cell nor making room in the target
\* cell reorders two cards that stay, archived ones included.  Two of them come to
\* be tied only where c has left for another cell: an active card closes up on the
\* one below it if that one stays.  So an archived card may be restored to a tie.
OrderKept ==
    [][\A c \in Cards, p \in Asked :
          LET k == card'[c].cell IN
          Move(c, k, p) \/ Place(c, k, p) =>
             \A j \in Cells : \A d, e \in Members(card, j) \ {c} :
                card[d].pos < card[e].pos =>
                   \/ card'[d].pos < card'[e].pos
                   \/ /\ card'[d].pos = card'[e].pos
                      /\ c \in Members(card, j) /\ k # j
                      /\ Stays(d, c) /\ ~card[e].archived]_card

\* The active cards of every cell are numbered 0, 1, 2 ... without gap or tie.
\* cards.py:2018 says it of every move.
CellsCompact ==
    \A k \in Cells : {card[c].pos : c \in Active(card, k)} = 0 .. Cardinality(Active(card, k)) - 1

\* Creation and a move to another cell renumber both cells without gap or tie,
\* as long as nothing is archived: the gaps come from reorders within a cell,
\* deletes, and cards that are archived or stored by the admin.
CompactKept ==
    [][\A c \in Cards, k \in Cells :
          /\ CellsCompact /\ \A d \in Cards : ~card[d].archived
          /\ Create(c, k) \/ \E p \in Asked : Transfer(c, k, p)
          => CellsCompact']_card
=============================================================================
