---------------------------- MODULE BoardContents ----------------------------
(***************************************************************************)
(* What the card services promise of one board, with no locks and no        *)
(* transactions: every request takes effect in one step, against the state  *)
(* it finds.  A step that puts a card into a column or a swimlane finds     *)
(* room there, no card survives its column, swimlane or board, and each     *)
(* operation changes only the fields that are its own.                      *)
(* boards/services/cards.py is shown to implement this in CardLocks.        *)
(***************************************************************************)
EXTENDS BoardState

Init ==
    /\ card \in InitCards
    /\ cols = InitColumns
    /\ lanes = InitLanes
    /\ up = TRUE

-----------------------------------------------------------------------------
\* A card enters a cell from nowhere: created, or restored where it was.
Enter(c, k, l) ==
    /\ k \in cols /\ RoomInColumn(k, c)
    /\ l \in lanes /\ (k \in Counted[l] => RoomInLane(l, c))

Create(c) ==
    /\ card[c].st = "unborn"
    /\ \E k \in Columns, l \in Lanes, v \in 1..2 :
          /\ Enter(c, k, l)
          /\ card' = [card EXCEPT ![c] = [st |-> "live", col |-> k, lane |-> l,
                                          archived |-> FALSE, ver |-> v]]
    /\ UNCHANGED <<cols, lanes, up>>

\* A move checks a container only when it adds to what the container counts.
Move(c) ==
    /\ c \in Live
    /\ \E k \in cols, l \in lanes :
          LET from == card[c] IN
          /\ from.col # k => RoomInColumn(k, c)
          /\ (k \in Counted[l] /\ ~(from.lane = l /\ from.col \in Counted[l])) => RoomInLane(l, c)
          /\ card' = [card EXCEPT ![c] = [from EXCEPT !.col = k, !.lane = l, !.ver = @ + 1]]
    /\ UNCHANGED <<cols, lanes, up>>

\* A field edit, a block or an unblock: the card stays where it is.
Edit(c) ==
    /\ c \in Live /\ ~card[c].archived
    /\ card' = [card EXCEPT ![c].ver = @ + 1]
    /\ UNCHANGED <<cols, lanes, up>>

Archive(c) ==
    /\ c \in Live /\ ~card[c].archived
    /\ card' = [card EXCEPT ![c].archived = TRUE]
    /\ UNCHANGED <<cols, lanes, up>>

Restore(c) ==
    /\ c \in Live /\ card[c].archived
    /\ Enter(c, card[c].col, card[c].lane)
    /\ card' = [card EXCEPT ![c].archived = FALSE]
    /\ UNCHANGED <<cols, lanes, up>>

\* A change in the Django admin places the card, and may archive or restore it.
AdminSave(c) ==
    /\ c \in Live
    /\ \E k \in cols, l \in lanes, a \in BOOLEAN :
          LET from    == card[c]
              restore == from.archived
          IN
          /\ (~a /\ (restore \/ from.col # k)) => RoomInColumn(k, c)
          /\ /\ ~a /\ k \in Counted[l]
             /\ restore \/ ~(from.lane = l /\ from.col \in Counted[l])
             => RoomInLane(l, c)
          /\ card' = [card EXCEPT ![c] = [st |-> "live", col |-> k, lane |-> l,
                                          archived |-> a, ver |-> from.ver + 1]]
    /\ UNCHANGED <<cols, lanes, up>>

Without(gone) == [c \in Cards |-> IF c \in gone THEN [card[c] EXCEPT !.st = "gone"] ELSE card[c]]

DeleteCard(c) ==
    /\ c \in Live /\ ~card[c].archived
    /\ card' = Without({c})
    /\ UNCHANGED <<cols, lanes, up>>

DropColumn(k) ==
    /\ k \in cols
    /\ card' = Without(InColumn(k))
    /\ cols' = cols \ {k}
    /\ UNCHANGED <<lanes, up>>

DropLane(l) ==
    /\ l \in lanes
    /\ card' = Without(InLane(l))
    /\ lanes' = lanes \ {l}
    /\ UNCHANGED <<cols, up>>

DropBoard ==
    /\ up /\ up' = FALSE
    /\ card' = Without(Live)
    /\ cols' = {} /\ lanes' = {}

AddColumn(k) ==
    /\ up /\ k \notin cols
    /\ cols' = cols \cup {k}
    /\ UNCHANGED <<card, lanes, up>>

\* One request's effect.
Effect ==
    \/ \E c \in Cards : \/ Create(c) \/ Move(c) \/ Edit(c) \/ Archive(c)
                        \/ Restore(c) \/ AdminSave(c) \/ DeleteCard(c)
    \/ \E k \in Columns : DropColumn(k) \/ AddColumn(k)
    \/ \E l \in Lanes : DropLane(l)
    \/ DropBoard

\* A request that changes nothing is no step of the board.
Next == contents' # contents /\ Effect

Spec == Init /\ [][Next]_contents

=============================================================================
