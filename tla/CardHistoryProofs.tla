-------------------------- MODULE CardHistoryProofs --------------------------
(***************************************************************************)
(* Proofs about CardHistory, for any cards, cells and texts and any bounds.  *)
(***************************************************************************)
EXTENDS CardHistory, TLAPS

\* A card that does not exist yet was read by nobody, so its first version is
\* the first anyone can hold, and has no blocks.
NewToAll ==
    \A c \in Cards : row[c].st = "unborn" =>
        copy[c] = Nothing /\ form[c] = Nothing /\ blocks[c] = 0

IInv == TypeOK /\ NewToAll /\ VersionOrdersCopies /\ BlockMirrored

\* What relates a copy r to the row it was read from.
Behind(r, now) ==
    /\ r.ver <= now.ver
    /\ (now.st = "live" /\ r.ver = now.ver) =>
          <<r.cell, r.text, r.blocked>> = <<now.cell, now.text, now.blocked>>

\* What the edit of a field, and the bump of the version, do to a row.
LEMMA CellSet ==
    ASSUME NEW q \in Rows, NEW k \in Cells
    PROVE  /\ [q EXCEPT !.cell = k] \in Rows
           /\ [q EXCEPT !.cell = k].st = q.st /\ [q EXCEPT !.cell = k].ver = q.ver
           /\ [q EXCEPT !.cell = k].blocked = q.blocked
BY DEF Rows

LEMMA TextSet ==
    ASSUME NEW q \in Rows, NEW t \in Texts
    PROVE  /\ [q EXCEPT !.text = t] \in Rows
           /\ [q EXCEPT !.text = t].st = q.st /\ [q EXCEPT !.text = t].ver = q.ver
           /\ [q EXCEPT !.text = t].blocked = q.blocked
BY DEF Rows

LEMMA ArchivedSet ==
    ASSUME NEW q \in Rows, NEW a \in BOOLEAN
    PROVE  /\ [q EXCEPT !.archived = a] \in Rows
           /\ [q EXCEPT !.archived = a].st = q.st /\ [q EXCEPT !.archived = a].ver = q.ver
           /\ [q EXCEPT !.archived = a].blocked = q.blocked
BY DEF Rows

LEMMA BlockedSet ==
    ASSUME NEW q \in Rows, NEW b \in BOOLEAN
    PROVE  /\ [q EXCEPT !.blocked = b] \in Rows
           /\ [q EXCEPT !.blocked = b].st = q.st /\ [q EXCEPT !.blocked = b].ver = q.ver
           /\ [q EXCEPT !.blocked = b].blocked = b
BY DEF Rows

LEMMA BumpedRow ==
    ASSUME NEW q \in Rows
    PROVE  /\ Bumped(q) \in Rows
           /\ Bumped(q).ver = q.ver + 1
           /\ Bumped(q).st = q.st /\ Bumped(q).blocked = q.blocked
<1>1. q.ver + 1 \in Nat
  BY DEF Rows
<1>2. QED
  BY <1>1 DEF Rows, Bumped

LEMMA CopiesBehind ==
    VersionOrdersCopies <=>
        \A c \in Cards : /\ copy[c] # Nothing => Behind(copy[c], row[c])
                         /\ form[c] # Nothing => Behind(form[c], row[c])
BY DEF VersionOrdersCopies, Behind, Live

LEMMA Initially == Init => IInv
<1> SUFFICES ASSUME Init PROVE IInv
  OBVIOUS
<1>1. /\ row \in [Cards -> Rows]
      /\ \A c \in Cards : row[c].st = "unborn"
  <2> DEFINE Blank == [ st : {"unborn"}, cell : Cells, text : Texts,
                        archived : {FALSE}, blocked : {FALSE}, ver : {0} ]
  <2>1. row \in [Cards -> Blank]
    BY DEF Init
  <2>2. ASSUME NEW r \in Blank PROVE r \in Rows /\ r.st = "unborn"
    <3>1. r = [st |-> r.st, cell |-> r.cell, text |-> r.text, archived |-> r.archived,
               blocked |-> r.blocked, ver |-> r.ver]
      OBVIOUS
    <3>2. /\ r.st = "unborn" /\ r.cell \in Cells /\ r.text \in Texts
          /\ r.archived = FALSE /\ r.blocked = FALSE /\ r.ver = 0
      OBVIOUS
    <3>3. [st |-> "unborn", cell |-> r.cell, text |-> r.text, archived |-> FALSE,
           blocked |-> FALSE, ver |-> 0] \in Rows
      BY <3>2 DEF Rows
    <3>4. QED
      BY <3>1, <3>2, <3>3
  <2> HIDE DEF Blank
  <2>3. QED
    BY <2>1, <2>2
<1>2. TypeOK
  <2>1. << >> \in Seq(Movements)
    OBVIOUS
  <2>2. QED
    BY <1>1, <2>1 DEF Init, TypeOK
<1>3. NewToAll /\ VersionOrdersCopies
  BY DEF Init, NewToAll, VersionOrdersCopies
<1>4. BlockMirrored
  BY <1>1 DEF BlockMirrored, Live
<1>5. QED
  BY <1>2, <1>3, <1>4 DEF IInv

\* One row changes, to r: the copies of it stay behind, and the open blocks
\* agree with it.
LEMMA OneRow ==
    ASSUME IInv, NEW c \in Cards, NEW r \in Rows, NEW n \in Nat,
           row' = [row EXCEPT ![c] = r], blocks' = [blocks EXCEPT ![c] = n],
           trail' \in [Cards -> Seq(Movements)], copy' = copy,
           form' \in [Cards -> Rows \cup {Nothing}],
           \A d \in Cards : form'[d] \in {form[d], Nothing},
           r.st # "unborn",
           copy[c] # Nothing => Behind(copy[c], r),
           form[c] # Nothing => Behind(form[c], r),
           r.st = "live" => n = (IF r.blocked THEN 1 ELSE 0)
    PROVE  IInv'
<1>1. row \in [Cards -> Rows] /\ blocks \in [Cards -> Nat] /\ copy \in [Cards -> Rows \cup {Nothing}]
  BY DEF IInv, TypeOK
<1>2. /\ row'[c] = r /\ blocks'[c] = n
      /\ \A d \in Cards : d # c => row'[d] = row[d] /\ blocks'[d] = blocks[d]
  BY <1>1
<1>3. TypeOK'
  BY <1>1 DEF TypeOK
<1>4. NewToAll'
  BY <1>2 DEF IInv, NewToAll
<1>5. VersionOrdersCopies'
  <2>1. \A d \in Cards : /\ copy[d] # Nothing => Behind(copy[d], row[d])
                         /\ form[d] # Nothing => Behind(form[d], row[d])
    BY CopiesBehind DEF IInv
  <2>2. ASSUME NEW d \in Cards
        PROVE  /\ copy'[d] # Nothing => Behind(copy'[d], row'[d])
               /\ form'[d] # Nothing => Behind(form'[d], row'[d])
    <3>1. CASE d = c
      BY <1>2, <3>1
    <3>2. CASE d # c
      BY <1>2, <2>1, <3>2
    <3>3. QED
      BY <3>1, <3>2
  <2>3. QED
    BY <2>2 DEF VersionOrdersCopies, Behind, Live
<1>6. BlockMirrored'
  BY <1>2 DEF IInv, BlockMirrored, Live
<1>7. QED
  BY <1>3, <1>4, <1>5, <1>6 DEF IInv

\* One row r is read, into the copy or the form.
LEMMA OneRead ==
    ASSUME IInv, NEW c \in Cards, ReadCopy(c) \/ ReadForm(c)
    PROVE  IInv'
<1>1. /\ row \in [Cards -> Rows] /\ row[c].st = "live"
      /\ row' = row /\ blocks' = blocks /\ trail' = trail
      /\ copy \in [Cards -> Rows \cup {Nothing}] /\ form \in [Cards -> Rows \cup {Nothing}]
  BY DEF IInv, TypeOK, ReadCopy, ReadForm, Live
<1>2. /\ copy' \in [Cards -> Rows \cup {Nothing}] /\ form' \in [Cards -> Rows \cup {Nothing}]
      /\ \A d \in Cards : copy'[d] \in {copy[d], row[d]} /\ form'[d] \in {form[d], row[d]}
      /\ \A d \in Cards : d # c => copy'[d] = copy[d] /\ form'[d] = form[d]
  BY <1>1 DEF ReadCopy, ReadForm
<1>3. \A d \in Cards : Behind(row[d], row[d])
  BY <1>1 DEF Behind, Rows
<1>4. \A d \in Cards : /\ copy'[d] # Nothing => Behind(copy'[d], row[d])
                       /\ form'[d] # Nothing => Behind(form'[d], row[d])
  BY <1>2, <1>3, CopiesBehind DEF IInv
<1>5. VersionOrdersCopies'
  BY <1>1, <1>4 DEF VersionOrdersCopies, Behind, Live
<1>6. NewToAll'
  BY <1>1, <1>2 DEF IInv, NewToAll
<1>7. TypeOK' /\ BlockMirrored'
  BY <1>1, <1>2 DEF IInv, TypeOK, BlockMirrored, Live
<1>8. QED
  BY <1>5, <1>6, <1>7 DEF IInv

\* A movement row, or none, keeps the trail's type.
LEMMA TrailTyped ==
    ASSUME IInv, NEW c \in Cards, NEW type \in {"move", "archived", "unarchived"},
           NEW k \in Cells, Record(c, type, k) \/ UNCHANGED trail
    PROVE  trail' \in [Cards -> Seq(Movements)]
<1>1. trail \in [Cards -> Seq(Movements)]
  BY DEF IInv, TypeOK
<1>2. [type |-> type, to |-> k] \in Movements
  BY DEF Movements
<1>3. Append(trail[c], [type |-> type, to |-> k]) \in Seq(Movements)
  BY <1>1, <1>2
<1>4. QED
  BY <1>1, <1>3 DEF Record

\* A row with a higher version is ahead of every copy.
LEMMA BumpedAhead ==
    ASSUME IInv, NEW c \in Cards, NEW r, r.ver = row[c].ver + 1
    PROVE  /\ copy[c] # Nothing => Behind(copy[c], r)
           /\ form[c] # Nothing => Behind(form[c], r)
<1>1. row[c].ver \in Nat
  BY DEF IInv, TypeOK, Rows
<1>2. /\ copy[c] # Nothing => copy[c].ver \in Nat /\ copy[c].ver <= row[c].ver
      /\ form[c] # Nothing => form[c].ver \in Nat /\ form[c].ver <= row[c].ver
  BY CopiesBehind DEF IInv, TypeOK, Rows, Behind
<1>3. QED
  BY <1>1, <1>2 DEF Behind

\* So is a row that differs from the current one in the archive state only, or
\* that is gone.
LEMMA SameVersionAhead ==
    ASSUME IInv, NEW c \in Cards, NEW r, row[c].st = "live",
           r.ver = row[c].ver, r.cell = row[c].cell, r.text = row[c].text, r.blocked = row[c].blocked
    PROVE  /\ copy[c] # Nothing => Behind(copy[c], r)
           /\ form[c] # Nothing => Behind(form[c], r)
BY CopiesBehind DEF IInv, Behind

-----------------------------------------------------------------------------
LEMMA Preserved == IInv /\ [Next]_vars => IInv'
<1> SUFFICES ASSUME IInv, [Next]_vars PROVE IInv'
  OBVIOUS
<1>1. /\ row \in [Cards -> Rows] /\ blocks \in [Cards -> Nat] /\ trail \in [Cards -> Seq(Movements)]
      /\ copy \in [Cards -> Rows \cup {Nothing}] /\ form \in [Cards -> Rows \cup {Nothing}]
  BY DEF IInv, TypeOK
<1>2. \A c \in Cards : row[c].st = "live" => blocks[c] = (IF row[c].blocked THEN 1 ELSE 0)
  BY DEF IInv, BlockMirrored, Live
<1>3. ASSUME NEW c \in Cards, NEW k \in Cells, NEW t \in Texts, Create(c, k, t) PROVE IInv'
  <2> DEFINE r == [st |-> "live", cell |-> k, text |-> t, archived |-> FALSE,
                   blocked |-> FALSE, ver |-> 1]
  <2>1. r \in Rows /\ r.st = "live" /\ r.blocked = FALSE
    BY DEF Rows
  <2>2. copy[c] = Nothing /\ form[c] = Nothing /\ blocks[c] = 0
    BY <1>3 DEF Create, IInv, NewToAll
  <2>3. row' = [row EXCEPT ![c] = r] /\ blocks' = [blocks EXCEPT ![c] = 0]
    BY <1>1, <1>3, <2>2 DEF Create
  <2>4. trail' \in [Cards -> Seq(Movements)]
    BY <1>3, TrailTyped DEF Create
  <2> HIDE DEF r
  <2>5. QED
    BY <1>1, <1>3, <2>1, <2>2, <2>3, <2>4, OneRow DEF Create
<1>4. ASSUME NEW c \in Cards, NEW k \in Cells, NEW v \in BOOLEAN, Move(c, k, v) PROVE IInv'
  <2> DEFINE r == Bumped([row[c] EXCEPT !.cell = k])
  <2>1. /\ row[c].st = "live" /\ row[c] \in Rows
    BY <1>1, <1>4 DEF Move, Live
  <2>2. r \in Rows /\ r.st = "live" /\ r.blocked = row[c].blocked /\ r.ver = row[c].ver + 1
    <3> DEFINE q == [row[c] EXCEPT !.cell = k]
    <3>1. q \in Rows /\ q.st = "live" /\ q.ver = row[c].ver /\ q.blocked = row[c].blocked
      BY <2>1, CellSet
    <3> HIDE DEF q
    <3>2. Bumped(q) \in Rows /\ Bumped(q).st = "live" /\ Bumped(q).blocked = row[c].blocked
          /\ Bumped(q).ver = row[c].ver + 1
      BY <3>1, BumpedRow
    <3>3. QED
      BY <3>2 DEF q
  <2>3. row' = [row EXCEPT ![c] = r] /\ copy' = copy /\ form' = form /\ blocks' = [blocks EXCEPT ![c] = blocks[c]]
    BY <1>1, <1>4 DEF Move
  <2>4. trail' \in [Cards -> Seq(Movements)]
    <3>1. Record(c, "move", k) \/ UNCHANGED trail
      BY <1>4 DEF Move
    <3>2. QED
      BY <1>1, <2>1, <3>1, TrailTyped DEF Rows
  <2> HIDE DEF r
  <2>5. (copy[c] # Nothing => Behind(copy[c], r)) /\ (form[c] # Nothing => Behind(form[c], r))
    BY <2>1, <2>2, BumpedAhead
  <2>6. QED
    BY <1>1, <1>2, <2>1, <2>2, <2>3, <2>4, <2>5, OneRow
<1>5. ASSUME NEW c \in Cards, NEW t \in Texts, NEW v \in BOOLEAN, Update(c, t, v) PROVE IInv'
  <2> DEFINE r == Bumped([row[c] EXCEPT !.text = t])
  <2>1. /\ row[c].st = "live" /\ row[c] \in Rows
    BY <1>1, <1>5 DEF Update, Editable, Live
  <2>2. r \in Rows /\ r.st = "live" /\ r.blocked = row[c].blocked /\ r.ver = row[c].ver + 1
    <3> DEFINE q == [row[c] EXCEPT !.text = t]
    <3>1. q \in Rows /\ q.st = "live" /\ q.ver = row[c].ver /\ q.blocked = row[c].blocked
      BY <2>1, TextSet
    <3> HIDE DEF q
    <3>2. Bumped(q) \in Rows /\ Bumped(q).st = "live" /\ Bumped(q).blocked = row[c].blocked
          /\ Bumped(q).ver = row[c].ver + 1
      BY <3>1, BumpedRow
    <3>3. QED
      BY <3>2 DEF q
  <2>3. row' = [row EXCEPT ![c] = r] /\ copy' = copy /\ form' = form /\ blocks' = [blocks EXCEPT ![c] = blocks[c]]
    BY <1>1, <1>5 DEF Update
  <2>4. trail' \in [Cards -> Seq(Movements)]
    <3>1. UNCHANGED trail
      BY <1>5 DEF Update
    <3>2. QED
      BY <1>1, <2>1, <3>1, TrailTyped DEF Rows
  <2> HIDE DEF r
  <2>5. (copy[c] # Nothing => Behind(copy[c], r)) /\ (form[c] # Nothing => Behind(form[c], r))
    BY <2>1, <2>2, BumpedAhead
  <2>6. QED
    BY <1>1, <1>2, <2>1, <2>2, <2>3, <2>4, <2>5, OneRow
<1>6. ASSUME NEW c \in Cards, Archive(c) PROVE IInv'
  <2> DEFINE r == [row[c] EXCEPT !.archived = TRUE]
  <2>1. /\ row[c].st = "live" /\ row[c] \in Rows
    BY <1>1, <1>6 DEF Archive, Editable, Live
  <2>2. r \in Rows /\ r.st = "live" /\ r.blocked = row[c].blocked /\ r.ver = row[c].ver
        /\ r.cell = row[c].cell /\ r.text = row[c].text
    BY <2>1 DEF Rows
  <2>3. row' = [row EXCEPT ![c] = r] /\ copy' = copy /\ form' = form /\ blocks' = [blocks EXCEPT ![c] = blocks[c]]
    BY <1>1, <1>6 DEF Archive
  <2>4. trail' \in [Cards -> Seq(Movements)]
    <3>1. Record(c, "archived", row[c].cell)
      BY <1>6 DEF Archive
    <3>2. QED
      BY <1>1, <2>1, <3>1, TrailTyped DEF Rows
  <2> HIDE DEF r
  <2>5. (copy[c] # Nothing => Behind(copy[c], r)) /\ (form[c] # Nothing => Behind(form[c], r))
    BY <2>1, <2>2, SameVersionAhead
  <2>6. QED
    BY <1>1, <1>2, <2>1, <2>2, <2>3, <2>4, <2>5, OneRow
<1>7. ASSUME NEW c \in Cards, Restore(c) PROVE IInv'
  <2> DEFINE r == [row[c] EXCEPT !.archived = FALSE]
  <2>1. /\ row[c].st = "live" /\ row[c] \in Rows
    BY <1>1, <1>7 DEF Restore, Live
  <2>2. r \in Rows /\ r.st = "live" /\ r.blocked = row[c].blocked /\ r.ver = row[c].ver
        /\ r.cell = row[c].cell /\ r.text = row[c].text
    BY <2>1 DEF Rows
  <2>3. row' = [row EXCEPT ![c] = r] /\ copy' = copy /\ form' = form /\ blocks' = [blocks EXCEPT ![c] = blocks[c]]
    BY <1>1, <1>7 DEF Restore
  <2>4. trail' \in [Cards -> Seq(Movements)]
    <3>1. Record(c, "unarchived", row[c].cell)
      BY <1>7 DEF Restore
    <3>2. QED
      BY <1>1, <2>1, <3>1, TrailTyped DEF Rows
  <2> HIDE DEF r
  <2>5. (copy[c] # Nothing => Behind(copy[c], r)) /\ (form[c] # Nothing => Behind(form[c], r))
    BY <2>1, <2>2, SameVersionAhead
  <2>6. QED
    BY <1>1, <1>2, <2>1, <2>2, <2>3, <2>4, <2>5, OneRow
<1>8. ASSUME NEW c \in Cards, Block(c) PROVE IInv'
  <2> DEFINE r == Bumped([row[c] EXCEPT !.blocked = TRUE])
  <2>1. /\ row[c].st = "live" /\ row[c] \in Rows
    BY <1>1, <1>8 DEF Block, Editable, Live
  <2>2. r \in Rows /\ r.st = "live" /\ r.blocked = TRUE /\ r.ver = row[c].ver + 1
    <3> DEFINE q == [row[c] EXCEPT !.blocked = TRUE]
    <3>1. q \in Rows /\ q.st = "live" /\ q.ver = row[c].ver /\ q.blocked = TRUE
      BY <2>1, BlockedSet
    <3> HIDE DEF q
    <3>2. Bumped(q) \in Rows /\ Bumped(q).st = "live" /\ Bumped(q).blocked = TRUE
          /\ Bumped(q).ver = row[c].ver + 1
      BY <3>1, BumpedRow
    <3>3. QED
      BY <3>2 DEF q
  <2>3. row' = [row EXCEPT ![c] = r] /\ copy' = copy /\ form' = form
        /\ row[c].blocked = FALSE /\ blocks' = [blocks EXCEPT ![c] = blocks[c] + 1]
    BY <1>1, <1>8 DEF Block, Rows
  <2>4. trail' \in [Cards -> Seq(Movements)]
    <3>1. UNCHANGED trail
      BY <1>8 DEF Block
    <3>2. QED
      BY <1>1, <2>1, <3>1, TrailTyped DEF Rows
  <2> HIDE DEF r
  <2>5. (copy[c] # Nothing => Behind(copy[c], r)) /\ (form[c] # Nothing => Behind(form[c], r))
    BY <2>1, <2>2, BumpedAhead
  <2>6. 1 = (IF r.blocked THEN 1 ELSE 0)
    BY <2>2
  <2>7. blocks[c] + 1 = 1
    BY <1>2, <2>1, <2>3
  <2>8. QED
    BY <1>1, <2>2, <2>3, <2>4, <2>5, <2>6, <2>7, OneRow
<1>9. ASSUME NEW c \in Cards, Unblock(c) PROVE IInv'
  <2> DEFINE r == Bumped([row[c] EXCEPT !.blocked = FALSE])
  <2>1. /\ row[c].st = "live" /\ row[c] \in Rows
    BY <1>1, <1>9 DEF Unblock, Editable, Live
  <2>2. r \in Rows /\ r.st = "live" /\ r.blocked = FALSE /\ r.ver = row[c].ver + 1
    <3> DEFINE q == [row[c] EXCEPT !.blocked = FALSE]
    <3>1. q \in Rows /\ q.st = "live" /\ q.ver = row[c].ver /\ q.blocked = FALSE
      BY <2>1, BlockedSet
    <3> HIDE DEF q
    <3>2. Bumped(q) \in Rows /\ Bumped(q).st = "live" /\ Bumped(q).blocked = FALSE
          /\ Bumped(q).ver = row[c].ver + 1
      BY <3>1, BumpedRow
    <3>3. QED
      BY <3>2 DEF q
  <2>3. row' = [row EXCEPT ![c] = r] /\ copy' = copy /\ form' = form /\ blocks' = [blocks EXCEPT ![c] = 0]
    BY <1>1, <1>9 DEF Unblock
  <2>4. trail' \in [Cards -> Seq(Movements)]
    <3>1. UNCHANGED trail
      BY <1>9 DEF Unblock
    <3>2. QED
      BY <1>1, <2>1, <3>1, TrailTyped DEF Rows
  <2> HIDE DEF r
  <2>5. (copy[c] # Nothing => Behind(copy[c], r)) /\ (form[c] # Nothing => Behind(form[c], r))
    BY <2>1, <2>2, BumpedAhead
  <2>6. QED
    BY <1>1, <1>2, <2>1, <2>2, <2>3, <2>4, <2>5, OneRow
<1>10. ASSUME NEW c \in Cards, Delete(c) PROVE IInv'
  <2> DEFINE r == [row[c] EXCEPT !.st = "gone"]
  <2>1. /\ row[c].st = "live" /\ row[c] \in Rows
    BY <1>1, <1>10 DEF Delete, Editable, Live
  <2>2. r \in Rows /\ r.st = "gone" /\ r.blocked = row[c].blocked /\ r.ver = row[c].ver
        /\ r.cell = row[c].cell /\ r.text = row[c].text
    BY <2>1 DEF Rows
  <2>3. row' = [row EXCEPT ![c] = r] /\ copy' = copy /\ form' = form /\ blocks' = [blocks EXCEPT ![c] = 0]
    BY <1>1, <1>10 DEF Delete
  <2>4. trail' \in [Cards -> Seq(Movements)]
    <3>1. trail' = [trail EXCEPT ![c] = << >>]
      BY <1>10 DEF Delete
    <3>2. << >> \in Seq(Movements)
      OBVIOUS
    <3>3. QED
      BY <1>1, <3>1, <3>2
  <2> HIDE DEF r
  <2>5. (copy[c] # Nothing => Behind(copy[c], r)) /\ (form[c] # Nothing => Behind(form[c], r))
    BY <2>1, <2>2, SameVersionAhead
  <2>6. QED
    BY <1>1, <1>2, <2>1, <2>2, <2>3, <2>4, <2>5, OneRow
<1>11. ASSUME NEW c \in Cards, NEW k \in Cells, NEW t \in Texts, NEW a \in BOOLEAN, AdminSave(c, k, t, a) PROVE IInv'
  <2> DEFINE r == Saved(row[c], form[c], k, t, a)
  <2>1. /\ row[c].st = "live" /\ row[c] \in Rows
    BY <1>1, <1>11 DEF AdminSave, Live
  <2>2. r \in Rows /\ r.st = "live" /\ r.blocked = row[c].blocked /\ r.ver = row[c].ver + 1
    <3> DEFINE q1 == [row[c] EXCEPT !.cell = k]
               q2 == [q1 EXCEPT !.text = t]
               q3 == [q2 EXCEPT !.archived = a]
    <3>1. q1 \in Rows /\ q1.st = "live" /\ q1.ver = row[c].ver /\ q1.blocked = row[c].blocked
      BY <2>1, CellSet
    <3> HIDE DEF q1
    <3>2. q2 \in Rows /\ q2.st = "live" /\ q2.ver = row[c].ver /\ q2.blocked = row[c].blocked
      BY <3>1, TextSet
    <3> HIDE DEF q2
    <3>3. q3 \in Rows /\ q3.st = "live" /\ q3.ver = row[c].ver /\ q3.blocked = row[c].blocked
      BY <3>2, ArchivedSet
    <3>4. r = Bumped(q3)
      BY <2>1 DEF Saved, Rows, q1, q2
    <3> HIDE DEF q3
    <3>5. QED
      BY <3>3, <3>4, BumpedRow
  <2>3. row' = [row EXCEPT ![c] = r] /\ copy' = copy /\ form' = [form EXCEPT ![c] = Nothing]
        /\ blocks' = [blocks EXCEPT ![c] = blocks[c]]
    BY <1>1, <1>11 DEF AdminSave
  <2>4. trail' \in [Cards -> Seq(Movements)]
    <3>1. UNCHANGED trail
      BY <1>11 DEF AdminSave
    <3>2. QED
      BY <1>1, <2>1, <3>1, TrailTyped DEF Rows
  <2> HIDE DEF r
  <2>5. (copy[c] # Nothing => Behind(copy[c], r)) /\ (form[c] # Nothing => Behind(form[c], r))
    BY <2>1, <2>2, BumpedAhead
  <2>6. QED
    BY <1>1, <1>2, <2>1, <2>2, <2>3, <2>4, <2>5, OneRow
<1>12. CASE UNCHANGED vars
  BY <1>12 DEF vars, IInv, TypeOK, NewToAll, VersionOrdersCopies, BlockMirrored, Live
<1>13. QED
  BY <1>3, <1>4, <1>5, <1>6, <1>7, <1>8, <1>9, <1>10, <1>11, <1>12, OneRead DEF Next

\* The invariant holds in every reachable state, for any cards and any bounds.
THEOREM Invariance == Spec => []IInv
BY Initially, Preserved, PTL DEF Spec

\* Every variable always has its type.
THEOREM HistoryTyped == Spec => []TypeOK
<1>1. IInv => TypeOK
  BY DEF IInv
<1>2. QED
  BY <1>1, Invariance, PTL

\* No copy is ahead of the row, and one with its version agrees with it: the
\* version a write names is enough to refuse what its client did not see.
THEOREM VersionsOrderCopies == Spec => []VersionOrdersCopies
<1>1. IInv => VersionOrdersCopies
  BY DEF IInv
<1>2. QED
  BY <1>1, Invariance, PTL

\* A card is shown as blocked exactly while one CardBlock row of it is open.
THEOREM BlocksAgree == Spec => []BlockMirrored
<1>1. IInv => BlockMirrored
  BY DEF IInv
<1>2. QED
  BY <1>1, Invariance, PTL

-----------------------------------------------------------------------------
(* What the movement rows tell.                                             *)

\* A card has no movement rows before it is created.
UnbornBlank == \A c \in Cards : row[c].st = "unborn" => trail[c] = <<>>

\* What one more movement row tells.
LEMMA OneMore ==
    ASSUME NEW s \in Seq(Movements), NEW m \in Movements
    PROVE  /\ Last(Append(s, m)) = m
           /\ EndsArchived(Append(s, m)) <=>
                 m.type = "archived" \/ (m.type # "unarchived" /\ EndsArchived(s))
<1> DEFINE t == Append(s, m)
<1>1. /\ Len(s) \in Nat /\ DOMAIN s = 1 .. Len(s)
      /\ Len(t) = Len(s) + 1 /\ DOMAIN t = 1 .. Len(s) + 1 /\ t[Len(s) + 1] = m
      /\ \A n \in 1 .. Len(s) : t[n] = s[n]
  OBVIOUS
<1> HIDE DEF t
<1>2. Last(t) = m
  BY <1>1 DEF Last
<1>3. ASSUME m.type = "archived" PROVE EndsArchived(t)
  BY <1>1, <1>3 DEF EndsArchived
<1>4. ASSUME m.type # "unarchived", EndsArchived(s) PROVE EndsArchived(t)
  <2>1. PICK i \in DOMAIN s : s[i].type = "archived" /\ \A n \in DOMAIN s : n > i => s[n].type # "unarchived"
    BY <1>4 DEF EndsArchived
  <2>2. i \in DOMAIN t /\ t[i].type = "archived"
    BY <1>1, <2>1
  <2>3. ASSUME NEW n \in DOMAIN t, n > i PROVE t[n].type # "unarchived"
    BY <1>1, <1>4, <2>1, <2>3
  <2>4. QED
    BY <2>2, <2>3 DEF EndsArchived
<1>5. ASSUME EndsArchived(t), m.type # "archived"
      PROVE  m.type # "unarchived" /\ EndsArchived(s)
  <2>1. PICK i \in DOMAIN t : t[i].type = "archived" /\ \A n \in DOMAIN t : n > i => t[n].type # "unarchived"
    BY <1>5 DEF EndsArchived
  <2>2. i \in DOMAIN s /\ s[i].type = "archived"
    BY <1>1, <1>5, <2>1
  <2>3. m.type # "unarchived"
    BY <1>1, <2>1, <2>2
  <2>4. \A n \in DOMAIN s : n > i => s[n].type # "unarchived"
    BY <1>1, <2>1
  <2>5. QED
    BY <2>2, <2>3, <2>4 DEF EndsArchived
<1>6. QED
  BY <1>2, <1>3, <1>4, <1>5 DEF t

\* One more row of card c, and none of the others.
LEMMA Recorded ==
    ASSUME IInv, NEW c \in Cards, NEW type \in {"move", "archived", "unarchived"},
           NEW k \in Cells, Record(c, type, k)
    PROVE  /\ Last(trail'[c]).to = k
           /\ EndsArchived(trail'[c]) <=>
                 type = "archived" \/ (type # "unarchived" /\ EndsArchived(trail[c]))
           /\ \A d \in Cards \ {c} : trail'[d] = trail[d]
<1> DEFINE m == [type |-> type, to |-> k]
<1>1. trail \in [Cards -> Seq(Movements)] /\ trail[c] \in Seq(Movements)
  BY DEF IInv, TypeOK
<1>2. m \in Movements /\ m.type = type /\ m.to = k
  BY DEF Movements
<1>3. trail' = [trail EXCEPT ![c] = Append(trail[c], m)]
  BY DEF Record
<1> HIDE DEF m
<1>4. trail'[c] = Append(trail[c], m) /\ \A d \in Cards \ {c} : trail'[d] = trail[d]
  BY <1>1, <1>3
<1>5. QED
  BY <1>1, <1>2, <1>4, OneMore

\* A step on card c leaves the rows of the others alone, and the movement rows
\* of c go on telling what they told, unless the admin saved it.
Follows(c) ==
    /\ \A d \in Cards \ {c} : row'[d] = row[d] /\ trail'[d] = trail[d]
    /\ row'[c].st # "unborn" \/ (row'[c] = row[c] /\ trail'[c] = trail[c])
    /\ (\A k \in Cells, t \in Texts, a \in BOOLEAN : ~AdminSave(c, k, t, a)) =>
          (TrailTells(c) => TrailTells(c)')

\* What each write does to the fields that the movement rows tell of.
LEMMA FieldsSet ==
    ASSUME NEW q \in Rows
    PROVE  /\ \A k \in Cells : LET r == Bumped([q EXCEPT !.cell = k]) IN
                 r.st = q.st /\ r.cell = k /\ r.archived = q.archived
           /\ \A t \in Texts : LET r == Bumped([q EXCEPT !.text = t]) IN
                 r.st = q.st /\ r.cell = q.cell /\ r.archived = q.archived
           /\ \A b \in BOOLEAN : LET r == Bumped([q EXCEPT !.blocked = b]) IN
                 r.st = q.st /\ r.cell = q.cell /\ r.archived = q.archived
           /\ \A a \in BOOLEAN : LET r == [q EXCEPT !.archived = a] IN
                 r.st = q.st /\ r.cell = q.cell /\ r.archived = a
           /\ [q EXCEPT !.st = "gone"].st = "gone"
BY DEF Rows, Bumped

LEMMA StepFollows ==
    ASSUME IInv, UnbornBlank, Next
    PROVE  \E c \in Cards : Follows(c)
<1>1. /\ row \in [Cards -> Rows] /\ trail \in [Cards -> Seq(Movements)]
      /\ \A c \in Cards : row[c] \in Rows /\ row[c].cell \in Cells
  BY DEF IInv, TypeOK, Rows
<1>2. ASSUME NEW c \in Cards, NEW k \in Cells, NEW t \in Texts, Create(c, k, t) PROVE Follows(c)
  <2> DEFINE r == [st |-> "live", cell |-> k, text |-> t, archived |-> FALSE,
                   blocked |-> FALSE, ver |-> 1]
  <2>1. row' = [row EXCEPT ![c] = r] /\ Record(c, "move", k) /\ trail[c] = <<>>
    BY <1>2 DEF Create, UnbornBlank
  <2>2. r.st = "live" /\ r.cell = k /\ r.archived = FALSE
    OBVIOUS
  <2> HIDE DEF r
  <2>3. row'[c] = r /\ \A d \in Cards \ {c} : row'[d] = row[d]
    BY <1>1, <2>1
  <2>4. ~EndsArchived(trail[c])
    BY <2>1 DEF EndsArchived
  <2>5. TrailTells(c)'
    BY <2>1, <2>2, <2>3, <2>4, Recorded DEF TrailTells, Live
  <2>6. QED
    BY <2>1, <2>2, <2>3, <2>5, Recorded DEF Follows
<1>3. ASSUME NEW c \in Cards, NEW k \in Cells, NEW v \in BOOLEAN, Move(c, k, v) PROVE Follows(c)
  <2> DEFINE r == Bumped([row[c] EXCEPT !.cell = k])
  <2>1. row[c].st = "live" /\ row' = [row EXCEPT ![c] = r]
    BY <1>1, <1>3 DEF Move, Live
  <2>2. r.st = "live" /\ r.cell = k /\ r.archived = row[c].archived
    BY <1>1, <2>1, FieldsSet
  <2> HIDE DEF r
  <2>3. row'[c] = r /\ \A d \in Cards \ {c} : row'[d] = row[d]
    BY <1>1, <2>1
  <2>4. CASE k = row[c].cell
    <3>1. trail' = trail
      BY <1>3, <2>4 DEF Move
    <3>2. QED
      BY <2>1, <2>2, <2>3, <2>4, <3>1 DEF Follows, TrailTells, Live
  <2>5. CASE k # row[c].cell
    <3>1. Record(c, "move", k)
      BY <1>3, <2>5 DEF Move
    <3>2. TrailTells(c) => TrailTells(c)'
      BY <2>1, <2>2, <2>3, <3>1, Recorded DEF TrailTells, Live
    <3>3. QED
      BY <2>2, <2>3, <3>1, <3>2, Recorded DEF Follows
  <2>6. QED
    BY <2>4, <2>5
<1>4. ASSUME NEW c \in Cards, NEW t \in Texts, NEW v \in BOOLEAN, Update(c, t, v) PROVE Follows(c)
  <2> DEFINE r == Bumped([row[c] EXCEPT !.text = t])
  <2>1. row[c].st = "live" /\ row' = [row EXCEPT ![c] = r] /\ trail' = trail
    BY <1>1, <1>4 DEF Update, Editable, Live
  <2>2. r.st = "live" /\ r.cell = row[c].cell /\ r.archived = row[c].archived
    BY <1>1, <2>1, FieldsSet
  <2> HIDE DEF r
  <2>3. row'[c] = r /\ \A d \in Cards \ {c} : row'[d] = row[d]
    BY <1>1, <2>1
  <2>4. QED
    BY <2>1, <2>2, <2>3 DEF Follows, TrailTells, Live
<1>5. ASSUME NEW c \in Cards, Block(c) \/ Unblock(c) PROVE Follows(c)
  <2>1. PICK b \in BOOLEAN : row' = [row EXCEPT ![c] = Bumped([row[c] EXCEPT !.blocked = b])]
    BY <1>1, <1>5 DEF Block, Unblock
  <2> DEFINE r == Bumped([row[c] EXCEPT !.blocked = b])
  <2>2. row[c].st = "live" /\ row' = [row EXCEPT ![c] = r] /\ trail' = trail
    BY <1>5, <2>1 DEF Block, Unblock, Editable, Live
  <2>3. r.st = "live" /\ r.cell = row[c].cell /\ r.archived = row[c].archived
    BY <1>1, <2>2, FieldsSet
  <2> HIDE DEF r
  <2>4. row'[c] = r /\ \A d \in Cards \ {c} : row'[d] = row[d]
    BY <1>1, <2>2
  <2>5. QED
    BY <2>2, <2>3, <2>4 DEF Follows, TrailTells, Live
<1>6. ASSUME NEW c \in Cards, Archive(c) \/ Restore(c) PROVE Follows(c)
  <2>1. PICK a \in BOOLEAN : /\ row' = [row EXCEPT ![c] = [row[c] EXCEPT !.archived = a]]
                             /\ Record(c, IF a THEN "archived" ELSE "unarchived", row[c].cell)
    <3>1. CASE Archive(c)
      BY <1>1, <3>1 DEF Archive
    <3>2. CASE Restore(c)
      BY <1>1, <3>2 DEF Restore
    <3>3. QED
      BY <1>6, <3>1, <3>2
  <2> DEFINE r == [row[c] EXCEPT !.archived = a]
             type == IF a THEN "archived" ELSE "unarchived"
  <2>2. row[c].st = "live" /\ row' = [row EXCEPT ![c] = r]
    BY <1>6, <2>1 DEF Archive, Restore, Editable, Live
  <2>3. r.st = "live" /\ r.cell = row[c].cell /\ r.archived = a
    BY <1>1, <2>2, FieldsSet
  <2> HIDE DEF r
  <2>4. row'[c] = r /\ \A d \in Cards \ {c} : row'[d] = row[d]
    BY <1>1, <2>2
  <2>5. type \in {"move", "archived", "unarchived"} /\ Record(c, type, row[c].cell)
        /\ (type = "archived" <=> a) /\ (type # "unarchived" <=> a)
    BY <2>1
  <2> HIDE DEF type
  <2>6. /\ Last(trail'[c]).to = row[c].cell
        /\ EndsArchived(trail'[c]) <=> a
        /\ \A d \in Cards \ {c} : trail'[d] = trail[d]
    BY <1>1, <2>5, Recorded
  <2>7. TrailTells(c)'
    BY <2>3, <2>4, <2>6 DEF TrailTells, Live
  <2>8. QED
    BY <2>3, <2>4, <2>6, <2>7 DEF Follows
<1>7. ASSUME NEW c \in Cards, Delete(c) PROVE Follows(c)
  <2> DEFINE r == [row[c] EXCEPT !.st = "gone"]
  <2>1. row' = [row EXCEPT ![c] = r] /\ trail' = [trail EXCEPT ![c] = <<>>]
    BY <1>1, <1>7 DEF Delete
  <2>2. r.st = "gone"
    BY <1>1, FieldsSet
  <2> HIDE DEF r
  <2>3. row'[c] = r /\ \A d \in Cards \ {c} : row'[d] = row[d] /\ trail'[d] = trail[d]
    BY <1>1, <2>1
  <2>4. QED
    BY <2>2, <2>3 DEF Follows, TrailTells, Live
<1>8. ASSUME NEW c \in Cards, ReadCopy(c) \/ ReadForm(c) PROVE Follows(c)
  BY <1>8 DEF ReadCopy, ReadForm, Follows, TrailTells, Live
<1>9. ASSUME NEW c \in Cards, NEW k \in Cells, NEW t \in Texts, NEW a \in BOOLEAN, AdminSave(c, k, t, a)
      PROVE  Follows(c)
  <2> DEFINE r == Saved(row[c], form[c], k, t, a)
  <2>1. row[c].st = "live" /\ row' = [row EXCEPT ![c] = r] /\ trail' = trail
    BY <1>9 DEF AdminSave, Live
  <2>2. r.st = "live"
    BY <1>1, <2>1 DEF Saved, Bumped, Rows
  <2> HIDE DEF r
  <2>3. row'[c] = r /\ \A d \in Cards \ {c} : row'[d] = row[d]
    BY <1>1, <2>1
  <2>4. QED
    BY <1>9, <2>1, <2>2, <2>3 DEF Follows
<1>10. QED
  BY <1>2, <1>3, <1>4, <1>5, <1>6, <1>7, <1>8, <1>9 DEF Next

\* The movement rows of a card go on telling where it is and whether it is
\* archived, whatever the services do; only a save in the admin can end that.
THEOREM TrailFollowsTheCard == Spec => TrailTellsTheCard
<1>1. Init => UnbornBlank
  BY DEF Init, UnbornBlank
<1>2. IInv /\ UnbornBlank /\ [Next]_vars => UnbornBlank'
  <2>1. ASSUME IInv, UnbornBlank, Next PROVE UnbornBlank'
    <3>1. PICK c \in Cards : Follows(c)
      BY <2>1, StepFollows
    <3>2. QED
      BY <2>1, <3>1 DEF UnbornBlank, Follows
  <2>2. CASE UNCHANGED vars
    BY <2>2 DEF vars, UnbornBlank
  <2>3. QED
    BY <2>1, <2>2
<1>3. IInv /\ UnbornBlank /\ [Next]_vars =>
        [\A c \in Cards :
            TrailTells(c) /\ (\A k \in Cells, t \in Texts, a \in BOOLEAN : ~AdminSave(c, k, t, a))
            => TrailTells(c)']_vars
  <2>1. ASSUME IInv, UnbornBlank, Next,
               NEW d \in Cards, TrailTells(d),
               \A k \in Cells, t \in Texts, a \in BOOLEAN : ~AdminSave(d, k, t, a)
        PROVE  TrailTells(d)'
    <3>1. PICK c \in Cards : Follows(c)
      BY <2>1, StepFollows
    <3>2. CASE d = c
      BY <2>1, <3>1, <3>2 DEF Follows
    <3>3. CASE d # c
      BY <2>1, <3>1, <3>3 DEF Follows, TrailTells, Live
    <3>4. QED
      BY <3>2, <3>3
  <2>2. QED
    BY <2>1
<1>4. QED
  BY <1>1, <1>2, <1>3, Invariance, PTL DEF Spec, TrailTellsTheCard
=============================================================================
