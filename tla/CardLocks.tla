------------------------------ MODULE CardLocks ------------------------------
(***************************************************************************)
(* The lock protocol of the card services on one board                      *)
(* (boards/services/cards.py, views/columns.py, views/swimlanes.py,         *)
(* views/boards.py, and the change form of admin.py), one SQL statement at  *)
(* a time.  Each process is one request in one READ COMMITTED transaction   *)
(* (a move opens a new one per attempt).  A statement that locks several    *)
(* rows takes the rows of its snapshot one by one, in pk order, waiting at  *)
(* each; a transaction's writes appear at its Commit, and the locks it      *)
(* holds until then are what keeps the decisions it made on the way true.   *)
(*                                                                          *)
(* BoardContents is what all this must amount to.                           *)
(***************************************************************************)
EXTENDS BoardState, RowLocks

CONSTANTS
    Requests,   \* the requests a client may send: records as in RequestRecord
    MaxTries    \* _MOVE_LOCK_ATTEMPTS = _CASCADE_LOCK_ATTEMPTS

VARIABLES
    req,        \* req[p]: the request p serves
    pc,         \* pc[p]: the statement p is at
    seen,       \* seen[p]: its card as p last read it
    todo,       \* todo[p]: the rows the current statement has still to lock
    tries,      \* tries[p]: attempts rolled back so far
    doomed,     \* doomed[p]: the cards p's cascade has collected
    out         \* out[p]: the answer, "" until there is one

vars == <<card, cols, lanes, up, held, req, pc, seen, todo, tries, doomed, out>>

-----------------------------------------------------------------------------
(* Requests.  Each names a card, a column and a lane; which of them matter  *)
(* depends on the operation.  "grow" is an update that raises the weight,   *)
(* "block" also stands for unblock, "place" is create_card_at_position and  *)
(* "admin" a change saved in the Django admin (arch is its archived_at).    *)

Creations == {"create", "place"}
Cascades  == {"dropColumn", "dropLane", "dropBoard"}
Reorders  == {"reorderColumns", "reorderLanes"}
CardOps   == {"move", "admin", "update", "grow", "block", "archive", "restore", "delete"}
Ops       == Creations \cup CardOps \cup Cascades \cup Reorders \cup {"addColumn"}

RequestRecord == [op : Ops, card : Cards, col : Columns, lane : Lanes, arch : BOOLEAN]

ASSUME RequestsAssumption == Requests \subseteq RequestRecord /\ MaxTries \in Nat \ {0}
ASSUME ProcsAssumption == IsFiniteSet(Procs)      \* the requests in flight

Targeting == Creations \cup {"move", "admin"}            \* the request names a cell
Placing   == Targeting \cup {"restore"}                  \* may add to a cell's total

ActiveOnly == {"update", "grow", "block", "delete"}      \* archived cards answer 404

Op(p) == req[p].op

\* Rows are tagged with their table; within a table they are ordered by pk.
OfCard(c)   == <<"card", c>>
OfColumn(k) == <<"column", k>>
OfLane(l)   == <<"lane", l>>
BoardRow    == <<"board", 0>>
Rows == {OfCard(c) : c \in Cards} \cup {OfColumn(k) : k \in Columns}
        \cup {OfLane(l) : l \in Lanes} \cup {BoardRow}

Existing == {OfCard(c) : c \in Live} \cup {OfColumn(k) : k \in cols}
            \cup {OfLane(l) : l \in lanes} \cup (IF up THEN {BoardRow} ELSE {})

FirstByPk(rows) == {r \in rows : \A s \in rows : r[2] <= s[2]}

-----------------------------------------------------------------------------
(* Lock modes, by operation.                                                *)

\* Fault: the reorders take FOR UPDATE, as they did before #1566 and #1150.
BoardModeBefore1566(op) ==
    IF op \in {"create", "place", "update", "grow", "admin"} THEN Share
    ELSE IF op \in Cascades THEN NoKeyUpdate
    ELSE IF op \in Reorders \cup {"addColumn"} THEN Update
    ELSE None

\* lock_board_for_card_write; lock_board_row_or_404 and _lock_cascade_boards.
BoardMode(op) ==
    IF op \in {"create", "place", "update", "grow", "admin"} THEN Share
    ELSE IF op \in Cascades \cup Reorders THEN NoKeyUpdate
    ELSE IF op = "addColumn" THEN Update
    ELSE None

\* lock_card_for_write, against the FOR UPDATE of every other card lock.
CardMode(op) ==
    IF op \in {"update", "grow", "block", "archive", "restore"} THEN NoKeyUpdate ELSE Update

\* _lock_move_columns and its like, against the column reorder.
ColumnMode(op) == IF op = "reorderColumns" THEN Update ELSE NoKeyUpdate

-----------------------------------------------------------------------------
(* What a request works on, given s, its card as last read.                 *)

Target(p, s) == IF Op(p) \in Targeting THEN <<req[p].col, req[p].lane>> ELSE <<s.col, s.lane>>

CellChange(p, s) == <<s.col, s.lane>> # Target(p, s)

\* The cells whose cards a move or a placement renumbers.
Cells(p, s) ==
    IF Op(p) = "move" THEN {<<s.col, s.lane>>, Target(p, s)}
    ELSE IF Op(p) = "place" THEN {Target(p, s)}
    ELSE {}

Container(p) ==
    IF Op(p) = "dropColumn" THEN InColumn(req[p].col)
    ELSE IF Op(p) = "dropLane" THEN InLane(req[p].lane)
    ELSE IF Op(p) = "dropBoard" THEN Live
    ELSE {}

\* The cards whose rows p must hold before it writes.
Members(p, s) == Container(p) \cup UNION {InCell(cell[1], cell[2]) : cell \in Cells(p, s)}

\* An admin save checks limits only when it leaves the card active and places
\* it; every other operation that reaches the limits enforces them.
Enforces(p, s) == Op(p) = "admin" => ~req[p].arch /\ (s.archived \/ CellChange(p, s))

\* Fault: unarchive_card counts without the column lock.
ColumnsToLockButRestore(p, s) == cols \cap
    ( IF Op(p) \in Creations \cup {"dropColumn"} THEN {req[p].col}
      ELSE IF Op(p) \in {"move", "admin"} THEN {s.col, req[p].col}
      ELSE IF Op(p) \in {"dropLane", "dropBoard", "reorderColumns"} THEN cols
      ELSE {} )

\* The columns p locks: its cells can gain no card while p holds them.
ColumnsToLock(p, s) == cols \cap
    ( IF Op(p) \in Creations \cup {"dropColumn"} THEN {req[p].col}
      ELSE IF Op(p) = "move" \/ (Op(p) = "admin" /\ (CellChange(p, s) \/ Enforces(p, s)))
           THEN {s.col, req[p].col}
      ELSE IF Op(p) \in {"restore", "grow"} THEN {s.col} \cap DOMAIN ColumnLimit
      ELSE IF Op(p) \in {"dropLane", "dropBoard", "reorderColumns"} THEN cols
      ELSE {} )

-----------------------------------------------------------------------------
(* Limits.  Where the card counts already: nowhere for a create or restore. *)

CountsIn(p) ==
    IF Op(p) = "move" \/ (Op(p) = "admin" /\ ~seen[p].archived)
    THEN {<<seen[p].col, seen[p].lane>>} ELSE {}

\* _column_constraints with check_column, for placements and weight growth.
ColumnApplies(p) ==
    LET k == Target(p, seen[p])[1] IN
    /\ k \in DOMAIN ColumnLimit
    /\ Enforces(p, seen[p])
    /\ \A cell \in CountsIn(p) : cell[1] # k

\* _swimlane_check_applies: the placement adds to the lane's counted total.
LaneApplies(p) ==
    LET k == Target(p, seen[p])[1]
        l == Target(p, seen[p])[2]
    IN
    /\ l \in DOMAIN LaneLimit
    /\ k \in Counted[l]
    /\ Enforces(p, seen[p])
    /\ \A cell \in CountsIn(p) : ~(cell[2] = l /\ cell[1] \in Counted[l])

\* enforce_column_limits.  Weights are abstracted: a growth may always fail.
OverLimit(p) ==
    /\ Op(p) \in Placing
    /\ \/ ColumnApplies(p) /\ ~RoomInColumn(Target(p, seen[p])[1], req[p].card)
       \/ LaneApplies(p) /\ ~RoomInLane(Target(p, seen[p])[2], req[p].card)

-----------------------------------------------------------------------------
(* Ends and restarts.                                                       *)

Goto(p, where, rows) ==
    /\ pc' = [pc EXCEPT ![p] = where]
    /\ todo' = [todo EXCEPT ![p] = rows]

\* The transaction ends, with answer a; its locks go with it.
End(p, a) ==
    /\ Goto(p, "done", {})
    /\ out' = [out EXCEPT ![p] = a]
    /\ Release(p, {})

Refuse(p, a) == End(p, a) /\ UNCHANGED <<contents, req, seen, tries, doomed>>

\* Fault: no bound on the attempts.
RetryUnbounded(p) ==
    /\ tries' = [tries EXCEPT ![p] = @ + 1]
    /\ Goto(p, IF Op(p) = "move" THEN "read" ELSE "snap", {})
    /\ Release(p, IF Op(p) = "move" THEN {} ELSE {BoardRow})
    /\ UNCHANGED <<contents, req, seen, doomed, out>>

\* Fault: a move loops on its locks without reading its card again.
RetryFromStaleRead(p) ==
    /\ Goto(p, "snap", {})
    /\ Release(p, IF Op(p) = "move" THEN {} ELSE {BoardRow})
    /\ UNCHANGED <<contents, req, seen, tries, doomed, out>>

\* _CardChangedBeforeLock and _ContainerGainedCard: a move rolls its whole
\* transaction back, a placement or cascade goes back to the savepoint it set
\* once it had the board row; either gives up with a 409 after MaxTries.
Retry(p) ==
    IF tries[p] + 1 >= MaxTries
    THEN Refuse(p, "409")
    ELSE /\ tries' = [tries EXCEPT ![p] = @ + 1]
         /\ Goto(p, IF Op(p) = "move" THEN "read" ELSE "snap", {})
         /\ Release(p, IF Op(p) = "move" THEN {} ELSE {BoardRow})
         /\ UNCHANGED <<contents, req, seen, doomed, out>>

-----------------------------------------------------------------------------
(* The unlocked read that starts every request: 404s, and the two no-ops    *)
(* (archiving an archived card, restoring an active one).                   *)

Missing(p, s) ==
    \/ Op(p) \in CardOps /\ s.st # "live"
    \/ Op(p) \in ActiveOnly /\ s.archived

Nothing(p, s) ==
    \/ Op(p) = "archive" /\ s.archived
    \/ Op(p) = "restore" /\ ~s.archived

TargetGone(p) ==
    \/ Op(p) \in Targeting /\ (req[p].col \notin cols \/ req[p].lane \notin lanes)
    \/ Op(p) = "dropColumn" /\ req[p].col \notin cols
    \/ Op(p) = "dropLane" /\ req[p].lane \notin lanes
    \/ ~up

Read(p) ==
    /\ pc[p] = "read"
    /\ LET s == card[req[p].card] IN
       \/ (Missing(p, s) \/ TargetGone(p)) /\ Refuse(p, "404")
       \/ ~Missing(p, s) /\ ~TargetGone(p) /\ Nothing(p, s) /\ Refuse(p, "ok")
       \/ /\ ~Missing(p, s) /\ ~TargetGone(p) /\ ~Nothing(p, s)
          /\ seen' = [seen EXCEPT ![p] = s]
          /\ Goto(p, IF BoardMode(Op(p)) = None THEN "snap" ELSE "board", {})
          /\ UNCHANGED <<contents, held, req, tries, doomed, out>>

\* The board row is the first lock of every transaction that takes it.
LockBoard(p) ==
    /\ pc[p] = "board"
    /\ \/ ~up /\ Refuse(p, "404")
       \/ /\ up
          /\ Take(p, BoardRow, BoardMode(Op(p)))
          /\ IF Op(p) \in {"create", "reorderColumns"}
             THEN Goto(p, "columns", {OfColumn(k) : k \in ColumnsToLock(p, seen[p])})
             ELSE IF Op(p) = "reorderLanes" THEN Goto(p, "write", {OfLane(l) : l \in lanes})
             ELSE IF Op(p) = "addColumn" THEN Goto(p, "fkey", {})
             ELSE Goto(p, "snap", {})
          /\ UNCHANGED <<contents, req, seen, tries, doomed, out>>

-----------------------------------------------------------------------------
(* Card rows: one statement.  Its snapshot fixes which rows it will lock.   *)

SnapshotCards(p) ==
    /\ pc[p] = "snap"
    /\ LET named == IF Op(p) \in CardOps THEN {req[p].card} \cap Live ELSE {} IN
       Goto(p, "cards", {OfCard(c) : c \in named \cup Members(p, seen[p])})
    /\ UNCHANGED <<contents, held, req, seen, tries, doomed, out>>

\* A row deleted while p waited for it is left out of the result.
LockCard(p) ==
    /\ pc[p] = "cards"
    /\ \E r \in FirstByPk(todo[p]) :
          /\ IF r \in Existing THEN Take(p, r, CardMode(Op(p))) ELSE UNCHANGED held
          /\ Goto(p, "cards", todo[p] \ {r})
    /\ UNCHANGED <<contents, req, seen, tries, doomed, out>>

\* _move_relevant_state: what the move's gates and cell lock were decided on.
Relevant(s) == <<s.ver, s.col, s.lane>>

\* Fault: the lock is taken, but the row read before it is used (#1598).
RowReadBeforeLock(p) ==
    IF Op(p) \in CardOps /\ req[p].card \notin Live THEN card[req[p].card] ELSE seen[p]

\* The row as the lock returned it.
LockedRow(p) == IF Op(p) \in CardOps THEN card[req[p].card] ELSE seen[p]

\* With its card locked, p decides again on the row it holds
\* (_adopt_locked_state); a move whose card changed starts over.
CardsLocked(p) ==
    /\ pc[p] = "cards" /\ todo[p] = {}
    /\ LET s == LockedRow(p) IN
       \/ Missing(p, s) /\ Refuse(p, "404")
       \/ ~Missing(p, s) /\ Nothing(p, s) /\ Refuse(p, "ok")
       \/ ~Missing(p, s) /\ Op(p) = "move" /\ Relevant(s) # Relevant(seen[p]) /\ Retry(p)
       \/ /\ ~Missing(p, s) /\ ~Nothing(p, s)
          /\ Op(p) = "move" => Relevant(s) = Relevant(seen[p])
          /\ seen' = [seen EXCEPT ![p] = s]
          /\ IF Op(p) \in {"update", "block", "archive", "delete"} THEN Goto(p, "write", {})
             ELSE Goto(p, "columns", {OfColumn(k) : k \in ColumnsToLock(p, s)})
          /\ UNCHANGED <<contents, held, req, tries, doomed, out>>

-----------------------------------------------------------------------------
(* Column rows, then the re-check that makes the card locks conclusive.     *)

LockColumn(p) ==
    /\ pc[p] = "columns"
    /\ \E r \in FirstByPk(todo[p]) :
          /\ IF r \in Existing THEN Take(p, r, ColumnMode(Op(p))) ELSE UNCHANGED held
          /\ Goto(p, "columns", todo[p] \ {r})
    /\ UNCHANGED <<contents, req, seen, tries, doomed, out>>

\* The target column is not among the rows the statement returned.
ColumnNotLocked(p) ==
    /\ Op(p) \in Targeting
    /\ Op(p) = "admin" => CellChange(p, seen[p]) \/ Enforces(p, seen[p])
    /\ held[p][OfColumn(req[p].col)] = None

\* Fault: the lane is not looked up again (require_swimlane_exists, #1602).
OnlyColumnGone(p) ==
    \/ ColumnNotLocked(p)
    \/ Op(p) \in Cascades /\ TargetGone(p)

\* The target is gone: a container delete committed while p waited.  A move
\* re-reads the lane only when it changes lanes, the admin when it changes cell.
ContainerGone(p) ==
    LET s == seen[p] IN
    \/ ColumnNotLocked(p)
    \/ Op(p) \in Creations /\ req[p].lane \notin lanes
    \/ Op(p) = "move" /\ s.lane # req[p].lane /\ req[p].lane \notin lanes
    \/ Op(p) = "admin" /\ CellChange(p, s) /\ req[p].lane \notin lanes
    \/ Op(p) \in Cascades /\ TargetGone(p)

\* Fault: the cells and containers are not read again (#1567, #1602).
NoRecheck(p) == FALSE

\* _require_cells_locked, _cascade_card_pks: a card p does not hold is there.
Newcomer(p) == \E c \in Members(p, seen[p]) : held[p][OfCard(c)] = None

\* The rows p writes besides its own card, and the mode each write takes.
CascadeRows(p) ==
    {OfCard(c) : c \in Container(p)}
    \cup (IF Op(p) = "dropColumn"
          THEN {OfColumn(req[p].col)} \cup {OfLane(l) : l \in {m \in lanes : req[p].col \in Counted[m]}}
          ELSE IF Op(p) = "dropLane" THEN {OfLane(req[p].lane)}
          ELSE {OfColumn(k) : k \in cols} \cup {OfLane(l) : l \in lanes} \cup {BoardRow})

\* Deletes, and position writes (a unique key), take FOR UPDATE; a column
\* delete prunes limit_column_ids with a plain update of the lanes.
WriteMode(p, r) ==
    IF Op(p) = "reorderColumns" \/ (Op(p) \in Cascades /\ ~(Op(p) = "dropColumn" /\ r[1] = "lane"))
    THEN Update ELSE NoKeyUpdate

\* Rows p's UPDATEs and DELETEs have still to lock, beyond what it holds.
NotYetHeld(p, rows) == {r \in rows : held[p][r] < WriteMode(p, r)}

ColumnsLocked(p) ==
    /\ pc[p] = "columns" /\ todo[p] = {}
    /\ \/ ContainerGone(p) /\ Refuse(p, "404")
       \/ ~ContainerGone(p) /\ Newcomer(p) /\ Retry(p)
       \/ /\ ~Newcomer(p) /\ ~ContainerGone(p)
          /\ doomed' = [doomed EXCEPT ![p] = Container(p)]
          /\ IF Op(p) \in Cascades THEN Goto(p, "write", NotYetHeld(p, CascadeRows(p)))
             ELSE IF Op(p) = "reorderColumns"
                  THEN Goto(p, "write", NotYetHeld(p, {OfColumn(k) : k \in cols}))
             ELSE Goto(p, IF LaneApplies(p) THEN "lane" ELSE "check", {})
          /\ UNCHANGED <<contents, held, req, seen, tries, out>>

-----------------------------------------------------------------------------
(* The swimlane row, the limits, the writes and the deferred foreign keys.  *)

LockLane(p) ==
    /\ pc[p] = "lane"
    /\ LET l == Target(p, seen[p])[2] IN
       IF l \in lanes
       THEN /\ Take(p, OfLane(l), NoKeyUpdate)
            /\ Goto(p, "check", {})
            /\ UNCHANGED <<contents, req, seen, tries, doomed, out>>
       ELSE Refuse(p, "404")

Check(p) ==
    /\ pc[p] = "check"
    /\ \/ (OverLimit(p) \/ Op(p) = "grow") /\ Refuse(p, "409")
       \/ /\ ~OverLimit(p)
          /\ Goto(p, "write", NotYetHeld(p, {OfCard(c) : c \in Members(p, seen[p])}))
          /\ UNCHANGED <<contents, held, req, seen, tries, doomed, out>>

\* The rows the new foreign keys of p name: the card's own cell when it
\* changes, and what its CardMovement or CardBlock row points at.
ForeignKeys(p) ==
    LET s      == seen[p]
        cells  == {<<s.col, s.lane>>, Target(p, s)}
        rowsOf == {OfColumn(x[1]) : x \in cells} \cup {OfLane(x[2]) : x \in cells}
    IN
    IF Op(p) \in Creations THEN {BoardRow, OfColumn(req[p].col), OfLane(req[p].lane)}
    ELSE IF Op(p) = "move" /\ CellChange(p, s) THEN {BoardRow} \cup rowsOf
    ELSE IF Op(p) = "admin" /\ CellChange(p, s) THEN {OfColumn(req[p].col), OfLane(req[p].lane)}
    ELSE IF Op(p) \in {"archive", "restore"} THEN {BoardRow} \cup rowsOf
    ELSE IF Op(p) = "block" THEN {BoardRow, OfColumn(s.col)}
    ELSE {}

\* UPDATE and DELETE lock rows in no particular order and skip missing ones.
WriteRow(p) ==
    /\ pc[p] = "write"
    /\ \E r \in todo[p] :
          /\ IF r \in Existing THEN Take(p, r, WriteMode(p, r)) ELSE UNCHANGED held
          /\ Goto(p, "write", todo[p] \ {r})
    /\ UNCHANGED <<contents, req, seen, tries, doomed, out>>

WritesDone(p) ==
    /\ pc[p] = "write" /\ todo[p] = {}
    /\ Goto(p, "fkey", {r \in ForeignKeys(p) : held[p][r] = None})
    /\ UNCHANGED <<contents, held, req, seen, tries, doomed, out>>

\* The constraints are DEFERRABLE INITIALLY DEFERRED: at COMMIT each takes
\* FOR KEY SHARE on the row it names, or fails the transaction.
CheckForeignKey(p) ==
    /\ pc[p] = "fkey"
    /\ \E r \in todo[p] :
          IF r \in Existing
          THEN /\ Take(p, r, KeyShare)
               /\ Goto(p, "fkey", todo[p] \ {r})
               /\ UNCHANGED <<contents, req, seen, tries, doomed, out>>
          ELSE Refuse(p, "500")

-----------------------------------------------------------------------------
(* What each operation leaves in the tables.                                *)

WriteCard(p, row) ==
    /\ card' = [card EXCEPT ![req[p].card] = row]
    /\ UNCHANGED <<cols, lanes, up>>

Placed(row, k, l) == [row EXCEPT !.col = k, !.lane = l, !.ver = @ + 1]

Remove(gone) ==
    card' = [c \in Cards |-> IF c \in gone THEN [card[c] EXCEPT !.st = "gone"] ELSE card[c]]

Insert(p) ==
    \E v \in (IF Op(p) = "place" THEN {1, 2} ELSE {1}) :
        WriteCard(p, [st |-> "live", col |-> req[p].col, lane |-> req[p].lane,
                      archived |-> FALSE, ver |-> v])

\* Every update bumps the stored version (F("version") + 1).  update_card's
\* save() writes back every column of the row it adopted; the others name
\* their fields.
Effect(p) ==
    LET now == card[req[p].card]
        mine == seen[p]
    IN
    \/ Op(p) \in Creations /\ Insert(p)
    \/ Op(p) = "move" /\ WriteCard(p, Placed(now, req[p].col, req[p].lane))
    \/ Op(p) \in {"update", "grow"} /\ WriteCard(p, [mine EXCEPT !.ver = now.ver + 1])
    \/ Op(p) = "block" /\ WriteCard(p, [now EXCEPT !.ver = @ + 1])
    \/ Op(p) = "admin" /\ WriteCard(p, [Placed(mine, req[p].col, req[p].lane)
                                           EXCEPT !.archived = req[p].arch])
    \/ Op(p) = "archive" /\ WriteCard(p, [now EXCEPT !.archived = TRUE])
    \/ Op(p) = "restore" /\ WriteCard(p, [now EXCEPT !.archived = FALSE])
    \/ Op(p) = "delete" /\ Remove({req[p].card}) /\ UNCHANGED <<cols, lanes, up>>
    \/ Op(p) = "dropColumn" /\ Remove(doomed[p]) /\ cols' = cols \ {req[p].col} /\ UNCHANGED <<lanes, up>>
    \/ Op(p) = "dropLane" /\ Remove(doomed[p]) /\ lanes' = lanes \ {req[p].lane} /\ UNCHANGED <<cols, up>>
    \/ Op(p) = "dropBoard" /\ Remove(doomed[p]) /\ cols' = {} /\ lanes' = {} /\ up' = FALSE
    \/ Op(p) = "addColumn" /\ cols' = cols \cup {req[p].col} /\ UNCHANGED <<card, lanes, up>>
    \/ Op(p) \in Reorders /\ UNCHANGED contents

\* A cascade that leaves a card behind in its container fails at COMMIT too.
Commit(p) ==
    /\ pc[p] = "fkey" /\ todo[p] = {}
    /\ IF Container(p) \subseteq doomed[p]
       THEN End(p, "ok") /\ Effect(p) /\ UNCHANGED <<req, seen, tries, doomed>>
       ELSE Refuse(p, "500")

-----------------------------------------------------------------------------
(* Waiting, and the deadlocks that it may end in.                           *)

\* The row locks p may be waiting for, with the mode it wants.
Wanted(p) ==
    LET inOrder(mode) == {<<r, mode>> : r \in FirstByPk(todo[p])} IN
    CASE pc[p] = "board"   -> {<<BoardRow, BoardMode(Op(p))>>}
      [] pc[p] = "cards"   -> inOrder(CardMode(Op(p)))
      [] pc[p] = "columns" -> inOrder(ColumnMode(Op(p)))
      [] pc[p] = "lane"    -> {<<OfLane(Target(p, seen[p])[2]), NoKeyUpdate>>}
      [] pc[p] = "write"   -> {<<r, WriteMode(p, r)>> : r \in todo[p]}
      [] pc[p] = "fkey"    -> {<<r, KeyShare>> : r \in todo[p]}
      [] OTHER             -> {}

WaitsFor(p, q) == \E w \in Wanted(p) : ~Compatible(held[q][w[1]], w[2])

\* A set of requests each of which waits for another of the set.
WaitCycle(S) == S # {} /\ \A p \in S : \E q \in S \ {p} : WaitsFor(p, q)

\* PostgreSQL ends a deadlock by aborting one of its transactions: one without
\* which the others of the set no longer wait for each other.
Abort(p) ==
    /\ \E S \in SUBSET Procs : WaitCycle(S) /\ \A T \in SUBSET (S \ {p}) : ~WaitCycle(T)
    /\ Refuse(p, "aborted")

-----------------------------------------------------------------------------
Step(p) ==
    \/ Read(p) \/ LockBoard(p) \/ SnapshotCards(p) \/ LockCard(p) \/ CardsLocked(p)
    \/ LockColumn(p) \/ ColumnsLocked(p) \/ LockLane(p) \/ Check(p)
    \/ WriteRow(p) \/ WritesDone(p) \/ CheckForeignKey(p) \/ Commit(p) \/ Abort(p)

AllDone == \A p \in Procs : pc[p] = "done"

Finished == AllDone /\ UNCHANGED vars      \* so that a stuck state is a deadlock

Next == Finished \/ \E p \in Procs : Step(p)

\* Ids of new rows come from sequences: no two requests create the same one.
Sensible ==
    /\ \A p \in Procs :
          /\ Op(p) \in Creations => card[req[p].card].st = "unborn"
          /\ Op(p) = "addColumn" => req[p].col \notin InitColumns
    /\ \A p, q \in Procs : p # q =>
          /\ Op(p) \in Creations /\ Op(q) \in Creations => req[p].card # req[q].card
          /\ Op(p) = "addColumn" /\ Op(q) = "addColumn" => req[p].col # req[q].col

Init ==
    /\ card \in InitCards
    /\ cols = InitColumns /\ lanes = InitLanes /\ up = TRUE
    /\ req \in [Procs -> Requests]
    /\ Sensible
    /\ held = [p \in Procs |-> [r \in Rows |-> None]]
    /\ pc = [p \in Procs |-> "read"]
    /\ seen = [p \in Procs |-> card[req[p].card]]
    /\ todo = [p \in Procs |-> {}]
    /\ tries = [p \in Procs |-> 0]
    /\ doomed = [p \in Procs |-> {}]
    /\ out = [p \in Procs |-> ""]

Spec == Init /\ [][Next]_vars

\* The database grants a lock once nothing conflicts with it and looks for
\* deadlocks, and the server threads keep running, so each request takes the
\* step it can.
FairSpec == Spec /\ \A p \in Procs : WF_vars(Step(p))

-----------------------------------------------------------------------------
(* Properties.                                                              *)

Places == {"read", "board", "snap", "cards", "columns", "lane", "check", "write", "fkey", "done"}
Answers == {"", "ok", "404", "409", "500", "aborted"}

\* Every variable has its type.
TypeOK ==
    /\ ContentsTypeOK
    /\ held \in [Procs -> [Rows -> Modes]]
    /\ req \in [Procs -> Requests]
    /\ pc \in [Procs -> Places]
    /\ seen \in [Procs -> CardRecord]
    /\ todo \in [Procs -> SUBSET Rows]
    /\ tries \in [Procs -> 0 .. MaxTries - 1]
    /\ doomed \in [Procs -> SUBSET Cards]
    /\ out \in [Procs -> Answers]

\* No set of requests wait for one another: the lock order board, cards,
\* columns, swimlane, with KEY SHARE at COMMIT, admits no deadlock, as move_card's
\* docstring says (cards.py:1253-1271).
NoWaitCycle == \A S \in SUBSET Procs : ~WaitCycle(S)

\* The one that it does admit: a restore into a column without a hard limit
\* holds its swimlane but not its column, which its movement row needs at
\* COMMIT; a column reorder may hold that column and wait for another, which a
\* move holds that waits for the swimlane.
OnlyRestoresDeadlock ==
    \A S \in SUBSET Procs : WaitCycle(S) =>
        /\ \E p \in S : Op(p) = "reorderColumns" /\ pc[p] = "columns"
        /\ \E p \in S : Op(p) = "restore" /\ pc[p] = "fkey" /\ seen[p].col \notin DOMAIN ColumnLimit

\* Once a move, a placement or a cascade has passed its re-check, it holds
\* every card of its cells or container, and goes on doing so: no card can
\* enter behind it, so its bulk UPDATE or DELETE touches no row it has not
\* locked, and nobody else is moving the siblings it renumbers (#1567, #1602).
MembersLocked ==
    \A p \in Procs : pc[p] \in {"lane", "check", "write", "fkey"} =>
        \A c \in Members(p, seen[p]) : held[p][OfCard(c)] = Update

\* The card a request decided on is, until it commits, the card in the table:
\* no archive, move or edit that commits in between is written over (#1598).
DecidedOnCurrentRow ==
    \A p \in Procs :
        pc[p] \in {"columns", "lane", "check", "write", "fkey"} /\ Op(p) \in CardOps =>
            seen[p] = card[req[p].card]

\* No request ends in the IntegrityError that a deferred foreign key raises
\* at COMMIT: whoever loses a race with a delete answers 404 or 409.
NoIntegrityError == \A p \in Procs : out[p] # "500"

\* The services implement BoardContents: whatever the interleaving, each
\* committed request did to the board what it may do when it runs alone.
Contents == INSTANCE BoardContents
    WITH card <- card, cols <- cols, lanes <- lanes, up <- up
ImplementsContents == Contents!Spec

\* Every request is answered.
EveryRequestAnswered == \A p \in Procs : <>(pc[p] = "done")
=============================================================================
