------------------------- MODULE CardLocksInvariant -------------------------
(***************************************************************************)
(* The inductive invariant of CardLocks: what the row locks a request holds *)
(* guarantee, statement by statement.  CardLocksProofs shows that every     *)
(* step keeps it and that it implies the properties; TLC checks it too.     *)
(***************************************************************************)
EXTENDS CardLocks

Late    == {"lane", "check", "write", "fkey"}   \* the re-check has passed
Decided == {"columns"} \cup Late                \* the request's own card is locked
Early   == Places \ Late
Writers == {"move", "place"} \cup Cascades      \* those that have Members

-----------------------------------------------------------------------------
(* Between processes.                                                       *)

\* Two transactions never hold conflicting locks on one row.
LocksCompatible ==
    \A p, q \in Procs : p # q =>
        \A r \in Rows : Compatible(held[p][r], held[q][r])

\* The card a request creates is created by no other.
CreationsDistinct ==
    \A p, q \in Procs :
        p # q /\ Op(p) \in Creations /\ Op(q) \in Creations => req[p].card # req[q].card

-----------------------------------------------------------------------------
(* Of one process p.                                                        *)

\* A row that p holds is there: only its holder may remove it.
HeldExist(p) == \A r \in Rows : held[p][r] # None => r \in Existing

CreationFresh(p) ==
    Op(p) \in Creations /\ pc[p] # "done" => card[req[p].card].st = "unborn"

\* The card a request is about existed when the request read it.
CardBorn(p) ==
    Op(p) \in CardOps /\ pc[p] \notin {"read", "done"} => card[req[p].card].st # "unborn"

\* The board row is held from p's first lock on.
BoardHeld(p) ==
    pc[p] \notin {"read", "board", "done"} => held[p][BoardRow] >= BoardMode(Op(p))

\* While p locks its card rows, its own is among them unless it is gone.
CardComing(p) ==
    pc[p] = "cards" /\ Op(p) \in CardOps /\ req[p].card \in Live =>
        \/ OfCard(req[p].card) \in todo[p]
        \/ held[p][OfCard(req[p].card)] >= CardMode(Op(p))

\* The card p is about is held, and is as p knows it, once p has decided.
CardHeld(p) ==
    pc[p] \in Decided /\ Op(p) \in CardOps =>
        /\ seen[p] = card[req[p].card]
        /\ req[p].card \in Live
        /\ held[p][OfCard(req[p].card)] >= CardMode(Op(p))

\* Until the re-check p has taken its rows in the documented modes only.
EarlyModes(p) ==
    pc[p] \in Early =>
        /\ \A k \in Columns : held[p][OfColumn(k)] \in {None, NoKeyUpdate, Update}
        /\ Op(p) \in Writers => \A c \in Cards : held[p][OfCard(c)] \in {None, Update}

\* The columns through which a card could enter what p is about to write.
EntryColumns(p) ==
    IF Op(p) \in Creations \cup {"dropColumn"} THEN {req[p].col}
    ELSE IF Op(p) = "move" \/ (Op(p) = "admin" /\ CellChange(p, seen[p]))
         THEN {seen[p].col, req[p].col}
    ELSE IF Op(p) \in {"dropLane", "dropBoard"} THEN cols
    ELSE {}

\* On the way there, an existing one is held or still to be locked.  (A target
\* column is looked at when the statement returns.)
ColumnsComing(p) ==
    pc[p] = "columns" =>
        /\ todo[p] \subseteq {OfColumn(k) : k \in Columns}
        /\ \A k \in EntryColumns(p) \cap cols :
              (Op(p) \in CardOps /\ k = seen[p].col) \/ Op(p) \in Cascades =>
                  OfColumn(k) \in todo[p] \/ held[p][OfColumn(k)] >= NoKeyUpdate

ColumnsHeld(p) ==
    pc[p] \in Late => \A k \in EntryColumns(p) : held[p][OfColumn(k)] >= NoKeyUpdate

\* The lane a card is about to enter is there.
LaneThere(p) ==
    /\ pc[p] \in Late
    /\ Op(p) \in Creations \/ (Op(p) \in {"move", "admin"} /\ CellChange(p, seen[p]))
    => req[p].lane \in lanes

\* Every card of p's cells or container is locked FOR UPDATE.
MembersHeld(p) ==
    pc[p] \in Late => \A c \in Members(p, seen[p]) : held[p][OfCard(c)] = Update

\* A cascade has collected its whole container, which is still there, and has
\* locked, or is about to, every row it deletes.
CascadeReady(p) ==
    pc[p] \in Late /\ Op(p) \in Cascades =>
        /\ pc[p] \in {"write", "fkey"}
        /\ doomed[p] = Container(p)
        /\ ~TargetGone(p)
        /\ \A r \in CascadeRows(p) :
              (pc[p] = "write" /\ r \in todo[p]) \/ held[p][r] >= WriteMode(p, r)

\* At COMMIT every foreign key has been checked or is to be.
ForeignKeysComing(p) ==
    pc[p] = "fkey" =>
        /\ todo[p] \subseteq ForeignKeys(p)
        /\ \A r \in ForeignKeys(p) : r \in todo[p] \/ held[p][r] # None

Good(p) ==
    /\ HeldExist(p)
    /\ CreationFresh(p)
    /\ CardBorn(p)
    /\ BoardHeld(p)
    /\ CardComing(p)
    /\ CardHeld(p)
    /\ EarlyModes(p)
    /\ ColumnsComing(p)
    /\ ColumnsHeld(p)
    /\ LaneThere(p)
    /\ MembersHeld(p)
    /\ CascadeReady(p)
    /\ ForeignKeysComing(p)

\* The inductive invariant: with it, every decision a request has made still
\* holds when it commits, whatever the others did in between.
IInv ==
    /\ TypeOK
    /\ LocksCompatible
    /\ CreationsDistinct
    /\ Housed
    /\ \A p \in Procs : Good(p)

-----------------------------------------------------------------------------
(* What the limits and the other preconditions of a commit rest on.         *)

\* The column a request creates is created by no other.
NewColumnsDistinct ==
    \A p, q \in Procs :
        p # q /\ Op(p) = "addColumn" /\ Op(q) = "addColumn" => req[p].col # req[q].col

NewColumnFresh(p) == Op(p) = "addColumn" /\ pc[p] # "done" => req[p].col \notin cols

\* With its card locked, p is about a card it may act on.
Entitled(p) ==
    pc[p] \in Decided /\ Op(p) \in CardOps => ~Missing(p, seen[p]) /\ ~Nothing(p, seen[p])

\* A restore locks its column if the column has a limit.
LimitColumnComing(p) ==
    pc[p] = "columns" /\ Op(p) = "restore" /\ seen[p].col \in DOMAIN ColumnLimit =>
        OfColumn(seen[p].col) \in todo[p] \/ held[p][OfColumn(seen[p].col)] >= NoKeyUpdate

\* Whoever adds to a limited total holds the row it is the total of: the column
\* before the re-check, the swimlane before it counts.
LimitColumnHeld(p) ==
    pc[p] \in Late /\ Op(p) \in Placing /\ ColumnApplies(p) =>
        held[p][OfColumn(Target(p, seen[p])[1])] >= NoKeyUpdate

LimitLaneHeld(p) ==
    pc[p] \in {"check", "write", "fkey"} /\ Op(p) \in Placing /\ LaneApplies(p) =>
        held[p][OfLane(Target(p, seen[p])[2])] >= NoKeyUpdate

\* The room p counted is still there when it writes.
RoomKept(p) == pc[p] \in {"write", "fkey"} => ~OverLimit(p)

Admitted(p) ==
    /\ NewColumnFresh(p)
    /\ Entitled(p)
    /\ LimitColumnComing(p)
    /\ LimitColumnHeld(p)
    /\ LimitLaneHeld(p)
    /\ RoomKept(p)

\* With IInv: when a request commits, BoardContents would let it.
AInv == NewColumnsDistinct /\ \A p \in Procs : Admitted(p)

-----------------------------------------------------------------------------
(* The order of the locks, which bounds who can wait for whom.              *)

CardRows   == {OfCard(c) : c \in Cards}
ColumnRows == {OfColumn(k) : k \in Columns}
LaneRows   == {OfLane(l) : l \in Lanes}

HoldsNone(p, rows) == \A r \in rows : held[p][r] = None

\* The statements a request goes through, for those that skip some.
OwnPlaces(p) ==
    /\ Op(p) = "addColumn" => pc[p] \in {"read", "board", "fkey", "done"}
    /\ Op(p) = "reorderColumns" => pc[p] \in {"read", "board", "columns", "write", "fkey", "done"}
    /\ Op(p) \in {"archive", "block"} => pc[p] \in {"read", "snap", "cards", "write", "fkey", "done"}

\* The tables are locked in the order board, cards, columns, swimlane.
TablesInOrder(p) ==
    /\ pc[p] \in {"read", "board"} => HoldsNone(p, Rows)
    /\ pc[p] = "snap" => HoldsNone(p, Rows \ {BoardRow})
    /\ pc[p] = "cards" => HoldsNone(p, ColumnRows \cup LaneRows)
    /\ pc[p] \in {"columns", "lane"} => HoldsNone(p, LaneRows)
    /\ pc[p] = "lane" => \A r \in ColumnRows : held[p][r] \in {None, NoKeyUpdate, Update}
    /\ pc[p] \in {"snap", "cards", "columns", "lane"} /\ BoardMode(Op(p)) = None =>
          held[p][BoardRow] = None

\* Within a statement, the rows already locked come before the others.
RowsInOrder(p) ==
    /\ pc[p] = "cards" =>
          /\ todo[p] \subseteq CardRows
          /\ \A r \in CardRows, s \in todo[p] : held[p][r] # None => r[2] < s[2]
    /\ pc[p] = "columns" =>
          \A r \in ColumnRows, s \in todo[p] : held[p][r] # None => r[2] < s[2]

\* A column reorder locks every column of the board FOR UPDATE.
AllColumnsComing(p) ==
    pc[p] = "columns" /\ Op(p) = "reorderColumns" =>
        \A k \in cols : OfColumn(k) \in todo[p] \/ held[p][OfColumn(k)] = Update

\* The rows that a write may still have to lock: those of its container, and
\* the swimlanes a reorder or a column delete updates.
WriteRows(p) ==
    IF Op(p) = "dropColumn" THEN {OfColumn(req[p].col)} \cup LaneRows
    ELSE IF Op(p) = "dropLane" THEN {OfLane(req[p].lane)}
    ELSE IF Op(p) = "dropBoard" THEN ColumnRows \cup LaneRows \cup {BoardRow}
    ELSE IF Op(p) = "reorderLanes" THEN LaneRows
    ELSE {}

WritesComing(p) ==
    pc[p] = "write" =>
        /\ todo[p] \subseteq WriteRows(p)
        /\ \A r \in todo[p] \cap ColumnRows : held[p][r] >= NoKeyUpdate

\* Besides cards, only these rows are ever held FOR UPDATE.
Exclusive(p) ==
    IF Op(p) = "reorderColumns" THEN ColumnRows
    ELSE IF Op(p) = "addColumn" THEN {BoardRow}
    ELSE IF Op(p) \in Cascades /\ pc[p] \in Late
         THEN WriteRows(p) \ (IF Op(p) = "dropColumn" THEN LaneRows ELSE {})
    ELSE {}

ExclusiveRows(p) == \A r \in Rows \ CardRows : held[p][r] = Update => r \in Exclusive(p)

\* A foreign key still to be checked is on a row not locked yet.
KeysLeft(p) == pc[p] = "fkey" => HoldsNone(p, todo[p])

\* An archive or a block holds its card and, at COMMIT, what its row refers to.
KeysOnly(p) ==
    Op(p) \in {"archive", "block"} =>
        /\ \A k \in Columns : held[p][OfColumn(k)] \in {None, KeyShare}
        /\ \A k \in Columns : held[p][OfColumn(k)] # None => pc[p] \in {"fkey", "done"} /\ k = seen[p].col
        /\ \A r \in LaneRows : held[p][r] \in {None, KeyShare}

Ordered(p) ==
    /\ OwnPlaces(p)
    /\ TablesInOrder(p)
    /\ RowsInOrder(p)
    /\ AllColumnsComing(p)
    /\ WritesComing(p)
    /\ ExclusiveRows(p)
    /\ KeysLeft(p)
    /\ KeysOnly(p)

\* With IInv: waiting goes up the lock order, but for one way back.
OInv == \A p \in Procs : Ordered(p)

\* All of it: what a request decided still holds when it commits, what it may
\* do then is what BoardContents allows, and what it waits for is in order.
CardsInv == IInv /\ AInv /\ OInv
=============================================================================
