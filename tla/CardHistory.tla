----------------------------- MODULE CardHistory -----------------------------
(***************************************************************************)
(* What is recorded about a card beside its row: the version that clients    *)
(* order their copies by and send back with a write (optimistic             *)
(* concurrency), the CardBlock rows that Card.blocked_at mirrors, and the    *)
(* CardMovement rows.  Every operation is one step, decided on the locked    *)
(* row (DecidedOnCurrentRow of CardLocks); what a client or the admin form   *)
(* read before its lock is kept in variables of its own.                    *)
(***************************************************************************)
EXTENDS Integers, Sequences, SequencesExt

CONSTANTS
    Cards, Cells, Texts,   \* a text stands for the fields a client may edit
    Nothing,               \* no copy was read
    Ops,                   \* the kinds of request that are made
    MaxVersion, MaxTrail   \* bounds: versions and movement rows of one card

VARIABLES
    row,      \* the card's row
    blocks,   \* the number of open CardBlock rows of the card
    trail,    \* the CardMovement rows of the card, oldest first
    copy,     \* the row a client has read, whose version it sends
    form      \* the row the admin's change form has read, before its lock

vars == <<row, blocks, trail, copy, form>>

Rows == [ st : {"unborn", "live", "gone"}, cell : Cells, text : Texts,
          archived : BOOLEAN, blocked : BOOLEAN, ver : Nat ]
Movements == [ type : {"move", "archived", "unarchived"}, to : Cells ]

Init ==
    /\ row \in [Cards -> [ st : {"unborn"}, cell : Cells, text : Texts,
                           archived : {FALSE}, blocked : {FALSE}, ver : {0} ]]
    /\ blocks = [c \in Cards |-> 0]
    /\ trail = [c \in Cards |-> <<>>]
    /\ copy = [c \in Cards |-> Nothing]
    /\ form = [c \in Cards |-> Nothing]

Live(c)     == row[c].st = "live"
Editable(c) == Live(c) /\ ~row[c].archived

\* A request may name the version it read.  If it does, it is refused unless
\* the card still has that version.
Accepted(c, versioned) == versioned => copy[c] # Nothing /\ copy[c].ver = row[c].ver

Bumped(r) == [r EXCEPT !.ver = @ + 1]
Room(c)   == row[c].ver < MaxVersion

Record(c, type, k) ==
    /\ Len(trail[c]) < MaxTrail
    /\ trail' = [trail EXCEPT ![c] = Append(@, [type |-> type, to |-> k])]

-----------------------------------------------------------------------------
Create(c, k, t) ==
    /\ row[c].st = "unborn"
    /\ row' = [row EXCEPT ![c] = [st |-> "live", cell |-> k, text |-> t,
                                  archived |-> FALSE, blocked |-> FALSE, ver |-> 1]]
    /\ Record(c, "move", k)
    /\ UNCHANGED <<blocks, copy, form>>

\* A reorder within the cell writes no movement row; an archived card moves too.
Move(c, k, versioned) ==
    /\ Live(c) /\ Accepted(c, versioned) /\ Room(c)
    /\ row' = [row EXCEPT ![c] = Bumped([@ EXCEPT !.cell = k])]
    /\ IF k # row[c].cell THEN Record(c, "move", k) ELSE UNCHANGED trail
    /\ UNCHANGED <<blocks, copy, form>>

Update(c, t, versioned) ==
    /\ Editable(c) /\ Accepted(c, versioned) /\ Room(c)
    /\ row' = [row EXCEPT ![c] = Bumped([@ EXCEPT !.text = t])]
    /\ UNCHANGED <<blocks, trail, copy, form>>

\* Archive and restore leave the version alone.
Archive(c) ==
    /\ Editable(c)
    /\ row' = [row EXCEPT ![c].archived = TRUE]
    /\ Record(c, "archived", row[c].cell)
    /\ UNCHANGED <<blocks, copy, form>>

\* Fault: the restore of a card is not recorded.
RestoreUnrecorded(c) ==
    /\ Live(c) /\ row[c].archived
    /\ row' = [row EXCEPT ![c].archived = FALSE]
    /\ UNCHANGED <<blocks, trail, copy, form>>

Restore(c) ==
    /\ Live(c) /\ row[c].archived
    /\ row' = [row EXCEPT ![c].archived = FALSE]
    /\ Record(c, "unarchived", row[c].cell)
    /\ UNCHANGED <<blocks, copy, form>>

Block(c) ==
    /\ Editable(c) /\ ~row[c].blocked /\ Room(c)
    /\ row' = [row EXCEPT ![c] = Bumped([@ EXCEPT !.blocked = TRUE])]
    /\ blocks' = [blocks EXCEPT ![c] = @ + 1]
    /\ UNCHANGED <<trail, copy, form>>

\* Fault: a second unblock is not refused, and closes one row.
UnblockTwice(c) ==
    /\ Editable(c) /\ Room(c)
    /\ row' = [row EXCEPT ![c] = Bumped([@ EXCEPT !.blocked = FALSE])]
    /\ blocks' = [blocks EXCEPT ![c] = @ - 1]
    /\ UNCHANGED <<trail, copy, form>>

\* Every open row of the card is closed.
Unblock(c) ==
    /\ Editable(c) /\ row[c].blocked /\ Room(c)
    /\ row' = [row EXCEPT ![c] = Bumped([@ EXCEPT !.blocked = FALSE])]
    /\ blocks' = [blocks EXCEPT ![c] = 0]
    /\ UNCHANGED <<trail, copy, form>>

\* The card's blocks and movements stay, but no longer name it (SET_NULL).
Delete(c) ==
    /\ Editable(c)
    /\ row' = [row EXCEPT ![c].st = "gone"]
    /\ blocks' = [blocks EXCEPT ![c] = 0]
    /\ trail' = [trail EXCEPT ![c] = <<>>]
    /\ UNCHANGED <<copy, form>>

-----------------------------------------------------------------------------
ReadCopy(c) == Live(c) /\ copy' = [copy EXCEPT ![c] = row[c]] /\ UNCHANGED <<row, blocks, trail, form>>
ReadForm(c) == Live(c) /\ form' = [form EXCEPT ![c] = row[c]] /\ UNCHANGED <<row, blocks, trail, copy>>

\* Faults: the version, or the block state, is taken from the row read before
\* the lock.
SavedOverReadVersion(locked, read, k, t, a) ==
    Bumped([locked EXCEPT !.cell = k, !.text = t, !.archived = a, !.ver = read.ver])
SavedWithReadBlock(locked, read, k, t, a) ==
    Bumped([locked EXCEPT !.cell = k, !.text = t, !.archived = a, !.blocked = read.blocked])

\* The row the admin writes: the fields of the form as submitted, the version
\* and the block state from the row it has locked.  read is the row it had
\* before the lock.
Saved(locked, read, k, t, a) ==
    Bumped([locked EXCEPT !.cell = k, !.text = t, !.archived = a])

\* The admin writes no movement row.
AdminSave(c, k, t, a) ==
    /\ Live(c) /\ form[c] # Nothing /\ Room(c)
    /\ row' = [row EXCEPT ![c] = Saved(@, form[c], k, t, a)]
    /\ form' = [form EXCEPT ![c] = Nothing]
    /\ UNCHANGED <<blocks, trail, copy>>

Next ==
    \E c \in Cards :
        \/ \E k \in Cells, t \in Texts : Create(c, k, t)
        \/ \E k \in Cells, v \in BOOLEAN : Move(c, k, v)
        \/ \E t \in Texts, v \in BOOLEAN : Update(c, t, v)
        \/ Archive(c) \/ Restore(c) \/ Block(c) \/ Unblock(c) \/ Delete(c) \/ ReadCopy(c)
        \/ "admin" \in Ops /\ ReadForm(c)
        \/ "admin" \in Ops /\ \E k \in Cells, t \in Texts, a \in BOOLEAN : AdminSave(c, k, t, a)

Spec == Init /\ [][Next]_vars

-----------------------------------------------------------------------------
TypeOK ==
    /\ row \in [Cards -> Rows]
    /\ blocks \in [Cards -> Nat]
    /\ trail \in [Cards -> Seq(Movements)]
    /\ copy \in [Cards -> Rows \cup {Nothing}]
    /\ form \in [Cards -> Rows \cup {Nothing}]

\* Versions order the copies of a card: no copy is ahead of the row, and one
\* with the row's version has its cell, text and block state.  So a client that
\* drops the copy with the lower version keeps the later one, and a write that
\* names a version overwrites only what its client saw.
VersionOrdersCopies ==
    \A c \in Cards : \A r \in {copy[c], form[c]} \ {Nothing} :
        /\ r.ver <= row[c].ver
        /\ (Live(c) /\ r.ver = row[c].ver) =>
              <<r.cell, r.text, r.blocked>> = <<row[c].cell, row[c].text, row[c].blocked>>

\* Card.blocked_at mirrors the one open CardBlock row of the card
\* (cardblock_one_open_per_card): blocking cannot fail on the constraint, and
\* no block accrues time on a card that is shown as free.
BlockMirrored ==
    \A c \in Cards : Live(c) => blocks[c] = (IF row[c].blocked THEN 1 ELSE 0)

\* An archiving that no restore follows.
EndsArchived(rows) ==
    \E m \in DOMAIN rows :
        /\ rows[m].type = "archived"
        /\ \A n \in DOMAIN rows : n > m => rows[n].type # "unarchived"

\* The movement rows of card c tell where it is and whether it is archived.
TrailTells(c) ==
    Live(c) =>
        /\ Last(trail[c]).to = row[c].cell
        /\ row[c].archived <=> EndsArchived(trail[c])

\* Whatever the services do to a card, one that was moved or restored while
\* archived included, its movement rows go on telling where it is and whether
\* it is archived.  Only the admin, which writes none, can leave them behind.
TrailTellsTheCard ==
    [][\A c \in Cards :
          TrailTells(c) /\ (\A k \in Cells, t \in Texts, a \in BOOLEAN : ~AdminSave(c, k, t, a))
          => TrailTells(c)']_vars
=============================================================================
