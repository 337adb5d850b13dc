------------------------- MODULE CardPositionsProofs -------------------------
(***************************************************************************)
(* Proofs about CardPositions, for any finite set of cards, any cells and    *)
(* any bound.                                                               *)
(***************************************************************************)
EXTENDS CardPositions, FiniteSetTheorems, WellFoundedInduction, TLAPS

\* A well-typed table whose positions are natural numbers within the bound.
Table(rows) ==
    rows \in [Cards -> CardRecord] /\ \A d \in Cards : rows[d].pos \in 0 .. MaxPosition

\* The same, whatever the position of card c.
TableBut(rows, c) ==
    /\ rows \in [Cards -> CardRecord]
    /\ \A d \in Cards : d # c => rows[d].pos \in 0 .. MaxPosition

IInv == Table(card)

-----------------------------------------------------------------------------
(* The arithmetic of the clamp.                                             *)

LEMMA LeastExists ==
    ASSUME NEW T \in SUBSET Nat, T # {}
    PROVE  \E x \in T : \A y \in T : x <= y
<1>1. \E x \in T : \A y \in T : ~ (<<y, x>> \in OpToRel(<, Nat))
  BY NatLessThanWellFounded, WFMin
<1>2. PICK x \in T : \A y \in T : ~ (<<y, x>> \in OpToRel(<, Nat))
  BY <1>1
<1>3. ASSUME NEW y \in T PROVE x <= y
  <2>1. ~ (y < x)
    BY <1>2 DEF OpToRel
  <2>2. QED
    BY <2>1
<1>4. QED
  BY <1>3

\* What Past computes: the least number above the positions of S.
LEMMA PastFact ==
    ASSUME NEW rows, NEW S, \A d \in S : rows[d].pos \in 0 .. MaxPosition
    PROVE  /\ Past(rows, S) \in 0 .. MaxPosition + 1
           /\ \A d \in S : rows[d].pos < Past(rows, S)
           /\ (Past(rows, S) = 0 \/ \E d \in S : rows[d].pos = Past(rows, S) - 1)
<1> DEFINE Above == {n \in 0 .. MaxPosition + 1 : \A d \in S : rows[d].pos < n}
<1>1. MaxPosition \in Nat
  BY SizeAssumption
<1>2. Above \in SUBSET Nat /\ MaxPosition + 1 \in Above
  BY <1>1
<1>3. PICK n \in Above : \A m \in Above : n <= m
  <2> HIDE DEF Above
  <2>1. QED
    BY <1>2, LeastExists
<1>4. n = 0 \/ \E d \in S : rows[d].pos = n - 1
  <2>1. SUFFICES ASSUME n # 0, \A d \in S : rows[d].pos # n - 1 PROVE FALSE
    OBVIOUS
  <2>2. n - 1 \in Above
    BY <1>1, <1>3, <2>1
  <2>3. QED
    BY <1>1, <1>3, <2>2
<1>5. \E m \in 0 .. MaxPosition + 1 :
        /\ \A d \in S : rows[d].pos < m
        /\ (m = 0 \/ \E d \in S : rows[d].pos = m - 1)
  BY <1>3, <1>4
<1>6. QED
  BY <1>5 DEF Past

\* The clamp moves a position to the other side of no card.
LEMMA ClampFact ==
    ASSUME NEW rows, NEW S, \A d \in S : rows[d].pos \in 0 .. MaxPosition, NEW p \in Int
    PROVE  /\ Clamp(rows, S, p) \in 0 .. MaxPosition + 1
           /\ \A d \in S : rows[d].pos < p <=> rows[d].pos < Clamp(rows, S, p)
<1>1. MaxPosition \in Nat
  BY SizeAssumption
<1>2. /\ Past(rows, S) \in 0 .. MaxPosition + 1
      /\ \A d \in S : rows[d].pos < Past(rows, S)
  BY PastFact
<1>3. Clamp(rows, S, p) = (IF (IF p <= Past(rows, S) THEN p ELSE Past(rows, S)) < 0 THEN 0
                           ELSE IF p <= Past(rows, S) THEN p ELSE Past(rows, S))
  BY DEF Clamp
<1>4. QED
  BY <1>1, <1>2, <1>3

-----------------------------------------------------------------------------
(* What a move does to each row.                                            *)

LEMMA ShiftFact ==
    ASSUME NEW rows \in [Cards -> CardRecord], NEW S, NEW n \in Int
    PROVE  /\ Shift(rows, S, n) \in [Cards -> CardRecord]
           /\ \A d \in Cards : Shift(rows, S, n)[d].pos = rows[d].pos + (IF d \in S THEN n ELSE 0)
BY DEF Shift, CardRecord

Others(rows, c, k)     == Members(rows, k) \ {c}
Landing(rows, c, k, p) == Clamp(rows, Others(rows, c, k), p)

\* The cards above the gap that c leaves behind in another cell than k.
Above(rows, c, k) ==
    {d \in Active(rows, rows[c].cell) \ {c} : rows[c].cell # k /\ rows[d].pos > rows[c].pos}

\* The moved card takes the clamped position; a card of the target cell at or
\* above it gains one; a card above the gap in another source cell loses one.
LEMMA MovedFact ==
    ASSUME NEW c \in Cards, NEW rows, TableBut(rows, c), NEW k \in Cells, NEW p \in Int
    PROVE  /\ Moved(rows, c, k, p) \in [Cards -> CardRecord]
           /\ Moved(rows, c, k, p)[c].pos = Landing(rows, c, k, p)
           /\ Moved(rows, c, k, p)[c].cell = k
           /\ \A d \in Others(rows, c, k) :
                 Moved(rows, c, k, p)[d].pos =
                    rows[d].pos + (IF rows[d].pos >= Landing(rows, c, k, p) THEN 1 ELSE 0)
           /\ \A d \in Cards \ (Others(rows, c, k) \cup {c}) :
                 Moved(rows, c, k, p)[d].pos =
                    rows[d].pos - (IF d \in Above(rows, c, k) THEN 1 ELSE 0)
<1> DEFINE others == Members(rows, k) \ {c}
           at     == Clamp(rows, others, p)
           above  == {d \in Active(rows, rows[c].cell) \ {c} : rows[d].pos > rows[c].pos}
           closed == IF rows[c].cell = k THEN rows ELSE Shift(rows, above, -1)
           room   == {d \in others : closed[d].pos >= at}
           opened == Shift(closed, room, 1)
<1>1. rows \in [Cards -> CardRecord] /\ others \subseteq Cards /\ above \subseteq Cards
  BY DEF Table, TableBut, Members, Active
<1>2. \A d \in Cards : rows[d].pos \in Int
  BY <1>1 DEF CardRecord
<1>3. /\ closed \in [Cards -> CardRecord]
      /\ \A d \in Cards : closed[d].pos =
            (IF rows[c].cell # k /\ d \in above THEN rows[d].pos - 1 ELSE rows[d].pos)
  <2> HIDE DEF above
  <2>1. CASE rows[c].cell = k
    BY <1>1, <2>1
  <2>2. CASE rows[c].cell # k
    <3>1. closed = Shift(rows, above, -1)
      BY <2>2
    <3>2. /\ closed \in [Cards -> CardRecord]
          /\ \A d \in Cards : closed[d].pos = rows[d].pos + (IF d \in above THEN -1 ELSE 0)
      <4> HIDE DEF closed
      <4>1. QED
        BY <1>1, <3>1, ShiftFact
    <3>3. QED
      BY <1>2, <2>2, <3>2
  <2>3. QED
    BY <2>1, <2>2
<1>4. \A d \in others : closed[d].pos = rows[d].pos
  <2>1. \A d \in others : rows[c].cell # k => d \notin above
    BY DEF Members, Active
  <2>2. QED
    BY <1>1, <1>3, <2>1
<1>5. /\ opened \in [Cards -> CardRecord]
      /\ \A d \in Cards : opened[d].pos = closed[d].pos + (IF d \in room THEN 1 ELSE 0)
  <2> HIDE DEF closed, room
  <2>1. QED
    BY <1>3, ShiftFact
<1>6. at \in Int
  <2>1. \A d \in others : rows[d].pos \in 0 .. MaxPosition
    BY <1>1 DEF Table, TableBut
  <2>2. QED
    <3> HIDE DEF others
    <3>1. at \in 0 .. MaxPosition + 1 /\ MaxPosition \in Nat
      BY <2>1, ClampFact, SizeAssumption
    <3>2. QED
      BY <3>1
<1>7. Moved(rows, c, k, p) = [opened EXCEPT ![c].cell = k, ![c].pos = at]
  BY DEF Moved, MakeRoom, CloseGap
<1>8. /\ Moved(rows, c, k, p) \in [Cards -> CardRecord]
      /\ Moved(rows, c, k, p)[c].pos = at /\ Moved(rows, c, k, p)[c].cell = k
      /\ \A d \in Cards \ {c} : Moved(rows, c, k, p)[d] = opened[d]
  <2> HIDE DEF opened, at
  <2>1. opened[c] \in CardRecord
    BY <1>5
  <2>2. Moved(rows, c, k, p) = [opened EXCEPT ![c] = [[opened[c] EXCEPT !.cell = k] EXCEPT !.pos = at]]
    BY <1>5, <1>7
  <2>3. /\ [[opened[c] EXCEPT !.cell = k] EXCEPT !.pos = at] \in CardRecord
        /\ [[opened[c] EXCEPT !.cell = k] EXCEPT !.pos = at].pos = at
        /\ [[opened[c] EXCEPT !.cell = k] EXCEPT !.pos = at].cell = k
    BY <1>6, <2>1 DEF CardRecord
  <2>4. QED
    BY <1>5, <2>2, <2>3
<1>9. \A d \in others : Moved(rows, c, k, p)[d].pos =
                             rows[d].pos + (IF rows[d].pos >= at THEN 1 ELSE 0)
  <2>1. \A d \in others : d \in room <=> rows[d].pos >= at
    BY <1>4
  <2>2. QED
    <3> HIDE DEF opened, closed, room, at
    <3>1. QED
      BY <1>1, <1>4, <1>5, <1>8, <2>1
<1>10. \A d \in Cards \ (others \cup {c}) :
         Moved(rows, c, k, p)[d].pos =
            IF rows[c].cell # k /\ d \in above THEN rows[d].pos - 1 ELSE rows[d].pos
  <2>1. \A d \in Cards \ (others \cup {c}) : d \notin room
    OBVIOUS
  <2>2. QED
    <3> HIDE DEF opened, closed, room, at, above
    <3>1. QED
      BY <1>2, <1>3, <1>5, <1>8, <2>1
<1>11. \A d \in Cards : (rows[c].cell # k /\ d \in above) <=> d \in Above(rows, c, k)
  BY DEF Above
<1>12. Others(rows, c, k) = others /\ Landing(rows, c, k, p) = at
  BY DEF Others, Landing
<1>13. QED
  <2> HIDE DEF others, at, above
  <2>1. QED
    BY <1>2, <1>8, <1>9, <1>10, <1>11, <1>12

\* The position taken splits the target cell as the one asked for does.
LEMMA LandingFact ==
    ASSUME NEW c \in Cards, NEW rows, TableBut(rows, c), NEW k, NEW p \in Int
    PROVE  /\ Landing(rows, c, k, p) \in 0 .. MaxPosition + 1
           /\ \A d \in Others(rows, c, k) : rows[d].pos \in 0 .. MaxPosition
           /\ \A d \in Others(rows, c, k) : rows[d].pos < p <=> rows[d].pos < Landing(rows, c, k, p)
<1>1. \A d \in Others(rows, c, k) : rows[d].pos \in 0 .. MaxPosition
  BY DEF Table, TableBut, Others, Members
<1>2. QED
  BY <1>1, ClampFact DEF Landing

\* A move keeps positions natural numbers.
LEMMA MovedTable ==
    ASSUME NEW c \in Cards, NEW rows, TableBut(rows, c), rows[c].pos \in Nat,
           NEW k \in Cells, NEW p \in Int, InBound(Moved(rows, c, k, p))
    PROVE  Table(Moved(rows, c, k, p))
<1> DEFINE moved == Moved(rows, c, k, p)
           at    == Landing(rows, c, k, p)
<1>1. /\ moved \in [Cards -> CardRecord]
      /\ moved[c].pos = at
      /\ \A d \in Others(rows, c, k) : moved[d].pos = rows[d].pos + (IF rows[d].pos >= at THEN 1 ELSE 0)
      /\ \A d \in Cards \ (Others(rows, c, k) \cup {c}) :
            moved[d].pos = rows[d].pos - (IF d \in Above(rows, c, k) THEN 1 ELSE 0)
  BY MovedFact
<1>2. \A d \in Cards \ {c} : rows[d].pos \in 0 .. MaxPosition
  BY DEF Table, TableBut
<1>3. at \in 0 .. MaxPosition + 1 /\ MaxPosition \in Nat
  BY LandingFact, SizeAssumption
<1>4. \A d \in Above(rows, c, k) : d \in Cards \ {c} /\ rows[d].pos > rows[c].pos
  BY DEF Above, Active, Members
<1>5. \A d \in Cards : moved[d].pos \in Nat
  <2> HIDE DEF at, moved
  <2>1. ASSUME NEW d \in Others(rows, c, k) PROVE moved[d].pos \in Nat
    <3>1. d \in Cards \ {c}
      BY DEF Others, Members
    <3>2. QED
      BY <1>1, <1>2, <1>3, <3>1
  <2>2. ASSUME NEW d \in Cards \ (Others(rows, c, k) \cup {c}) PROVE moved[d].pos \in Nat
    BY <1>1, <1>2, <1>3, <1>4
  <2>3. QED
    BY <1>1, <1>3, <2>1, <2>2
<1>6. \A d \in Cards : moved[d].pos <= MaxPosition
  BY DEF InBound
<1>7. \A d \in Cards : moved[d].pos \in 0 .. MaxPosition
  <2> HIDE DEF moved
  <2>1. QED
    BY <1>3, <1>5, <1>6
<1>8. QED
  BY <1>1, <1>7 DEF Table

LEMMA CreatedFact ==
    ASSUME NEW c \in Cards, NEW k \in Cells, Table(card)
    PROVE  /\ TableBut(Created(card, c, k), c)
           /\ Created(card, c, k)[c].pos \in Nat /\ Created(card, c, k)[c].cell = k
           /\ \A d \in Cards \ {c} : Created(card, c, k)[d] = card[d]
<1>1. Cardinality(Members(card, k)) \in Nat
  <2>1. IsFiniteSet(Members(card, k))
    BY SizeAssumption, FS_Subset DEF Members
  <2>2. QED
    BY <2>1, FS_CardinalityType
<1> DEFINE n == Cardinality(Members(card, k))
<1>2. Created(card, c, k) =
        [card EXCEPT ![c] = [st |-> "live", cell |-> k, archived |-> FALSE, pos |-> n]]
  BY DEF Created
<1> HIDE DEF n
<1>3. n \in Nat
  BY <1>1 DEF n
<1>4. [st |-> "live", cell |-> k, archived |-> FALSE, pos |-> n] \in CardRecord
  BY <1>3 DEF CardRecord
<1>5. QED
  BY <1>2, <1>3, <1>4 DEF Table, TableBut

-----------------------------------------------------------------------------
(* The numbering stays well-formed.                                         *)

\* For any finite set of cards, the services and the admin form keep every
\* position a natural number within the bound, as long as the form is sent
\* with natural numbers.
THEOREM Numbering ==
    ASSUME AdminPositions \subseteq Nat
    PROVE  Spec => []IInv
<1>1. Init => IInv
  <2>1. Cells # {} /\ MaxPosition \in Nat
    BY SizeAssumption
  <2>2. Unborn \in CardRecord /\ Unborn.pos = 0
    BY <2>1 DEF Unborn, CardRecord
  <2>3. QED
    BY <2>1, <2>2 DEF Init, IInv, Table
<1>2. IInv /\ [Next]_card => IInv'
  <2> SUFFICES ASSUME IInv, [Next]_card PROVE IInv'
    OBVIOUS
  <2>1. Table(card)
    BY DEF IInv
  <2>2. \A c \in Cards : card[c] \in CardRecord /\ card[c].pos \in 0 .. MaxPosition
    BY <2>1 DEF Table
  <2>3. MaxPosition \in Nat /\ \A p \in Asked : p \in Int
    BY SizeAssumption DEF Asked
  <2>4. ASSUME NEW c \in Cards, NEW k \in Cells, Create(c, k) PROVE IInv'
    <3>1. /\ TableBut(card', c) /\ card'[c].pos \in Nat
      BY <2>1, <2>4, CreatedFact DEF Create
    <3>2. \A d \in Cards : card'[d].pos <= MaxPosition
      BY <2>4 DEF Create, InBound
    <3>3. QED
      BY <2>3, <3>1, <3>2 DEF IInv, Table, TableBut
  <2>5. ASSUME NEW c \in Cards, NEW k \in Cells, NEW p \in Asked, Place(c, k, p) PROVE IInv'
    <3>1. TableBut(Created(card, c, k), c) /\ Created(card, c, k)[c].pos \in Nat
      BY <2>1, CreatedFact
    <3>2. CASE p = Created(card, c, k)[c].pos
      <4>1. card' = Created(card, c, k) /\ InBound(Created(card, c, k))
        BY <2>5, <3>2 DEF Place
      <4>2. \A d \in Cards : card'[d].pos <= MaxPosition
        BY <4>1 DEF InBound
      <4>3. QED
        BY <2>3, <3>1, <4>1, <4>2 DEF IInv, Table, TableBut
    <3>3. CASE p # Created(card, c, k)[c].pos
      <4>1. /\ card' = Moved(Created(card, c, k), c, k, p)
            /\ InBound(Moved(Created(card, c, k), c, k, p))
        BY <2>5, <3>3 DEF Place
      <4>2. Table(Moved(Created(card, c, k), c, k, p))
        BY <2>3, <3>1, <4>1, MovedTable
      <4>3. QED
        BY <4>1, <4>2 DEF IInv
    <3>4. QED
      BY <3>2, <3>3
  <2>6. ASSUME NEW c \in Cards, NEW k \in Cells, NEW p \in Asked, Move(c, k, p) PROVE IInv'
    <3>1. TableBut(card, c) /\ card[c].pos \in Nat
      BY <2>1, <2>2, <2>3 DEF Table, TableBut
    <3>2. Table(Moved(card, c, k, p))
      BY <2>3, <2>6, <3>1, MovedTable DEF Move
    <3>3. QED
      BY <2>6, <3>2 DEF IInv, Move
  <2>7. ASSUME NEW c \in Cards, Archive(c) \/ Restore(c) \/ Delete(c) PROVE IInv'
    <3>1. PICK r \in CardRecord : card' = [card EXCEPT ![c] = r] /\ r.pos = card[c].pos
      <4>1. [card[c] EXCEPT !.archived = TRUE] \in CardRecord
            /\ [card[c] EXCEPT !.archived = FALSE] \in CardRecord
            /\ [card[c] EXCEPT !.st = "gone"] \in CardRecord
        BY <2>2 DEF CardRecord
      <4>2. /\ [card[c] EXCEPT !.archived = TRUE].pos = card[c].pos
            /\ [card[c] EXCEPT !.archived = FALSE].pos = card[c].pos
            /\ [card[c] EXCEPT !.st = "gone"].pos = card[c].pos
        BY <2>2 DEF CardRecord
      <4>3. QED
        BY <2>1, <2>7, <4>1, <4>2 DEF Table, Archive, Restore, Delete
    <3>2. QED
      BY <2>1, <2>2, <3>1 DEF IInv, Table
  <2>8. ASSUME NEW c \in Cards, NEW k \in Cells, NEW p \in AdminPositions, NEW a \in BOOLEAN,
               AdminSave(c, k, p, a)
        PROVE  IInv'
    <3> DEFINE r == [[[card[c] EXCEPT !.cell = k] EXCEPT !.pos = p] EXCEPT !.archived = a]
    <3>1. p \in 0 .. MaxPosition /\ p \in Int
      BY <2>3, SizeAssumption
    <3>2. r \in CardRecord /\ r.pos = p
      BY <2>2, <3>1 DEF CardRecord
    <3>3. card' = [card EXCEPT ![c] = r]
      BY <2>1, <2>8 DEF AdminSave, Table
    <3> HIDE DEF r
    <3>4. QED
      BY <2>1, <3>1, <3>2, <3>3 DEF IInv, Table
  <2>9. CASE UNCHANGED card
    BY <2>1, <2>9 DEF IInv, Table
  <2>10. ASSUME NEW c \in Cards, NEW p \in Asked, Reorder(c, p) PROVE IInv'
    <3>1. card[c].cell \in Cells
      BY <2>2 DEF CardRecord
    <3>2. QED
      BY <2>6, <2>10, <3>1 DEF Reorder
  <2>11. QED
    BY <2>4, <2>5, <2>6, <2>7, <2>8, <2>9, <2>10 DEF Next, Transfer
<1>3. QED
  BY <1>1, <1>2, PTL DEF Spec

\* Every row of the table always has its type, and no position is negative.
THEOREM PositionsTyped ==
    ASSUME AdminPositions \subseteq Nat
    PROVE  Spec => []TypeOK
<1>1. IInv => TypeOK
  BY SizeAssumption DEF IInv, Table, TypeOK
<1>2. QED
  BY <1>1, Numbering, PTL

-----------------------------------------------------------------------------
(* Where a moved card lands, and who stays in order.                        *)

\* A move in a well-formed table splits its target cell at the position asked
\* for.
LEMMA MoveSplits ==
    ASSUME IInv, NEW c \in Cards, NEW k \in Cells, NEW p \in Asked, Move(c, k, p)
    PROVE  Splits(c, k, p)
<1>1. TableBut(card, c) /\ p \in Int /\ MaxPosition \in Nat
  BY SizeAssumption DEF IInv, Table, TableBut, Asked
<1> DEFINE at == Landing(card, c, k, p)
<1>2. /\ at \in 0 .. MaxPosition + 1
      /\ \A d \in Others(card, c, k) : card[d].pos \in 0 .. MaxPosition
      /\ \A d \in Others(card, c, k) : card[d].pos < p <=> card[d].pos < at
  BY <1>1, LandingFact
<1>3. /\ card'[c].pos = at
      /\ \A d \in Others(card, c, k) :
            card'[d].pos = card[d].pos + (IF card[d].pos >= at THEN 1 ELSE 0)
  BY <1>1, MovedFact DEF Move
<1> HIDE DEF at
<1>4. ASSUME NEW d \in Others(card, c, k)
      PROVE  IF card[d].pos < p THEN card'[d].pos < card'[c].pos ELSE card'[d].pos > card'[c].pos
  BY <1>1, <1>2, <1>3
<1>5. QED
  BY <1>4 DEF Splits, Others

\* A moved card lands exactly at the position asked for, whatever gaps and
\* ties the cell has.
THEOREM MovesSplitTheCell ==
    ASSUME AdminPositions \subseteq Nat
    PROVE  Spec => SplitsCell
<1>1. ASSUME IInv, IInv', [Next]_card
      PROVE  [\A c \in Cards, p \in Asked :
                 Move(c, card'[c].cell, p) => Splits(c, card'[c].cell, p)]_card
  <2>1. ASSUME NEW c \in Cards PROVE card'[c].cell \in Cells
    BY <1>1 DEF IInv, Table, CardRecord
  <2>2. QED
    BY <1>1, <2>1, MoveSplits
<1>2. QED
  BY <1>1, Numbering, PTL DEF Spec, SplitsCell

\* The order of two cards that a move of c from rows leaves in their cell: the
\* lower one is caught up with only if c leaves and the gap is closed above it alone.
LEMMA MovedKeepsOrder ==
    ASSUME NEW c \in Cards, NEW rows, TableBut(rows, c), rows[c].pos \in Nat,
           NEW k \in Cells, NEW p \in Int,
           NEW j \in Cells, NEW d \in Members(rows, j) \ {c}, NEW e \in Members(rows, j) \ {c},
           rows[d].pos < rows[e].pos
    PROVE  \/ Moved(rows, c, k, p)[d].pos < Moved(rows, c, k, p)[e].pos
           \/ /\ Moved(rows, c, k, p)[d].pos = Moved(rows, c, k, p)[e].pos
              /\ j # k /\ rows[c].cell = j
              /\ rows[d].pos = rows[c].pos \/ (rows[d].archived /\ rows[d].pos > rows[c].pos)
              /\ ~rows[e].archived
<1> DEFINE moved == Moved(rows, c, k, p)
           at    == Landing(rows, c, k, p)
<1>1. d \in Cards /\ e \in Cards /\ d # c /\ e # c
  BY DEF Members
<1>2. rows[d].pos \in Int /\ rows[e].pos \in Int /\ rows[c].pos \in Int
  BY <1>1, SizeAssumption DEF TableBut
<1>3. at \in Int
  BY LandingFact, SizeAssumption
<1>4. CASE j = k
  <2>1. d \in Others(rows, c, k) /\ e \in Others(rows, c, k)
    BY <1>4 DEF Others
  <2>2. /\ moved[d].pos = rows[d].pos + (IF rows[d].pos >= at THEN 1 ELSE 0)
        /\ moved[e].pos = rows[e].pos + (IF rows[e].pos >= at THEN 1 ELSE 0)
    BY <2>1, MovedFact
  <2> HIDE DEF moved, at
  <2>3. moved[d].pos < moved[e].pos
    BY <1>2, <1>3, <2>2
  <2>4. QED
    BY <2>3 DEF moved
<1>5. CASE j # k
  <2>1. d \in Cards \ (Others(rows, c, k) \cup {c}) /\ e \in Cards \ (Others(rows, c, k) \cup {c})
    BY <1>1, <1>5 DEF Others, Members
  <2>2. /\ moved[d].pos = rows[d].pos - (IF d \in Above(rows, c, k) THEN 1 ELSE 0)
        /\ moved[e].pos = rows[e].pos - (IF e \in Above(rows, c, k) THEN 1 ELSE 0)
    BY <2>1, MovedFact
  <2>3. CASE rows[c].cell = j
    <3>1. /\ d \in Above(rows, c, k) <=> ~rows[d].archived /\ rows[d].pos > rows[c].pos
          /\ e \in Above(rows, c, k) <=> ~rows[e].archived /\ rows[e].pos > rows[c].pos
      BY <1>5, <2>3 DEF Above, Active
    <3> HIDE DEF moved
    <3>2. CASE d \in Above(rows, c, k) \/ e \notin Above(rows, c, k)
      <4>1. moved[d].pos < moved[e].pos
        BY <1>2, <2>2, <3>1, <3>2
      <4>2. QED
        BY <4>1 DEF moved
    <3>3. CASE d \notin Above(rows, c, k) /\ e \in Above(rows, c, k)
      <4>1. moved[d].pos < moved[e].pos \/ moved[d].pos = moved[e].pos
        BY <1>2, <2>2, <3>3
      <4>2. moved[d].pos < moved[e].pos \/ rows[d].pos >= rows[c].pos
        BY <1>2, <2>2, <3>1, <3>3
      <4>3. rows[d].pos >= rows[c].pos =>
               rows[d].pos = rows[c].pos \/ (rows[d].archived /\ rows[d].pos > rows[c].pos)
        BY <1>2, <3>1, <3>3
      <4>4. QED
        BY <1>5, <2>3, <3>1, <3>3, <4>1, <4>2, <4>3 DEF moved
    <3>4. QED
      BY <3>2, <3>3
  <2>4. CASE rows[c].cell # j
    <3>1. d \notin Above(rows, c, k) /\ e \notin Above(rows, c, k)
      BY <2>4 DEF Above, Active, Members
    <3> HIDE DEF moved
    <3>2. moved[d].pos < moved[e].pos
      BY <1>2, <2>2, <3>1
    <3>3. QED
      BY <3>2 DEF moved
  <2>5. QED
    BY <2>3, <2>4
<1>6. QED
  BY <1>4, <1>5

\* Neither a move nor a placement reorders two cards that stay in a cell, archived
\* or not.  It ties two of them only where an active card closes up on one that stays
\* (Stays): one that was tied with the card that left, or an archived one above it.
THEOREM TheRestKeepsItsOrder ==
    ASSUME AdminPositions \subseteq Nat
    PROVE  Spec => OrderKept
<1> DEFINE Kept(c) ==
        \A j \in Cells : \A d, e \in Members(card, j) \ {c} :
            card[d].pos < card[e].pos =>
               \/ card'[d].pos < card'[e].pos
               \/ /\ card'[d].pos = card'[e].pos
                  /\ c \in Members(card, j) /\ card'[c].cell # j
                  /\ Stays(d, c) /\ ~card[e].archived
<1>1. ASSUME IInv, NEW c \in Cards, NEW k \in Cells, NEW p \in Asked, Move(c, k, p)
      PROVE  Kept(c)
  <2>1. TableBut(card, c) /\ card[c].pos \in Nat /\ p \in Int
    BY <1>1, SizeAssumption DEF IInv, Table, TableBut, Asked
  <2>2. card' = Moved(card, c, k, p) /\ card[c].st = "live"
    BY <1>1 DEF Move
  <2>3. card'[c].cell = k
    BY <2>1, <2>2, MovedFact
  <2>4. ASSUME NEW j \in Cells, NEW d \in Members(card, j) \ {c}, NEW e \in Members(card, j) \ {c},
               card[d].pos < card[e].pos
        PROVE  \/ card'[d].pos < card'[e].pos
               \/ /\ card'[d].pos = card'[e].pos
                  /\ j # k /\ card[c].cell = j /\ Stays(d, c) /\ ~card[e].archived
    BY <2>1, <2>2, <2>4, MovedKeepsOrder DEF Stays
  <2>5. \A j \in Cells : card[c].cell = j => c \in Members(card, j)
    BY <2>2 DEF Members
  <2>6. QED
    BY <2>3, <2>4, <2>5
<1>2. ASSUME IInv, NEW c \in Cards, NEW k \in Cells, NEW p \in Asked, Place(c, k, p)
      PROVE  Kept(c)
  <2> DEFINE made == Created(card, c, k)
  <2>1. /\ TableBut(made, c) /\ made[c].pos \in Nat /\ made[c].cell = k
        /\ \A d \in Cards \ {c} : made[d] = card[d]
    BY <1>2, CreatedFact DEF IInv
  <2>2. card' = made \/ card' = Moved(made, c, k, p)
    BY <1>2 DEF Place
  <2>3. p \in Int
    BY SizeAssumption DEF Asked
  <2> HIDE DEF made
  <2>4. ASSUME NEW j \in Cells, NEW d \in Members(card, j) \ {c}, NEW e \in Members(card, j) \ {c},
               card[d].pos < card[e].pos
        PROVE  card'[d].pos < card'[e].pos
    <3>1. /\ made[d] = card[d] /\ made[e] = card[e]
          /\ d \in Members(made, j) \ {c} /\ e \in Members(made, j) \ {c}
      BY <2>1 DEF Members
    <3>2. CASE card' = made
      BY <2>4, <3>1, <3>2
    <3>3. CASE card' = Moved(made, c, k, p)
      <4>1. \/ Moved(made, c, k, p)[d].pos < Moved(made, c, k, p)[e].pos
            \/ (j # k /\ made[c].cell = j)
        BY <2>1, <2>3, <2>4, <3>1, MovedKeepsOrder
      <4>2. QED
        BY <2>1, <3>3, <4>1
    <3>4. QED
      BY <2>2, <3>2, <3>3
  <2>5. QED
    BY <2>4
<1>3. ASSUME IInv, IInv', [Next]_card
      PROVE  [\A c \in Cards, p \in Asked :
                 LET k == card'[c].cell IN Move(c, k, p) \/ Place(c, k, p) => Kept(c)]_card
  <2>1. ASSUME NEW c \in Cards PROVE card'[c].cell \in Cells
    BY <1>3 DEF IInv, Table, CardRecord
  <2> HIDE DEF Kept
  <2>2. QED
    BY <1>1, <1>2, <1>3, <2>1
<1>4. QED
  BY <1>3, Numbering, PTL DEF Spec, OrderKept

-----------------------------------------------------------------------------
(* Numbering without gap or tie.                                            *)

\* The active cards of cell k in rows are numbered 0, 1, 2 ...
Compact(rows, k) ==
    {rows[d].pos : d \in Active(rows, k)} = 0 .. Cardinality(Active(rows, k)) - 1

\* As many positions as cards: no two cards share one.
LEMMA CompactUntied ==
    ASSUME NEW rows, NEW k, Compact(rows, k),
           NEW d \in Active(rows, k), NEW e \in Active(rows, k), rows[d].pos = rows[e].pos
    PROVE  d = e
<1> DEFINE A == Active(rows, k)
           n == Cardinality(A)
           f == [x \in A |-> rows[x].pos]
<1>1. IsFiniteSet(A) /\ n \in Nat
  <2>1. A \in SUBSET Cards
    BY DEF Active, Members
  <2>2. IsFiniteSet(A)
    <3> HIDE DEF A
    <3>1. QED
      BY <2>1, SizeAssumption, FS_Subset
  <2>3. QED
    BY <2>2, FS_CardinalityType
<1>2. {rows[x].pos : x \in A} = 0 .. n - 1
  BY DEF Compact
<1>3. Cardinality(0 .. n - 1) = n
  <2> HIDE DEF n
  <2>1. 0 \in Int /\ n - 1 \in Int
    BY <1>1
  <2>2. Cardinality(0 .. n - 1) = IF 0 > n - 1 THEN 0 ELSE (n - 1) - 0 + 1
    BY <2>1, FS_Interval
  <2>3. QED
    BY <1>1, <2>2
<1>4. f \in Surjection(A, 0 .. n - 1)
  <2> HIDE DEF A, n
  <2>1. f \in [A -> 0 .. n - 1]
    BY <1>2
  <2>2. \A y \in 0 .. n - 1 : \E x \in A : f[x] = y
    BY <1>2
  <2> HIDE DEF f
  <2>3. QED
    BY <2>1, <2>2 DEF Surjection
<1>5. f \in Injection(A, 0 .. n - 1)
  <2> HIDE DEF A, f
  <2>1. Cardinality(A) = Cardinality(0 .. n - 1)
    BY <1>3
  <2> HIDE DEF n
  <2>2. QED
    BY <1>1, <1>4, <2>1, FS_SurjSameCardinalityImpliesInj
<1>6. d \in A /\ e \in A /\ f[d] = f[e]
  OBVIOUS
<1>7. QED
  <2> HIDE DEF A, n, f
  <2>1. QED
    BY <1>5, <1>6 DEF Injection, IsInjective

\* A cell that gains card c, the cards at and above c's position one place up.
LEMMA CompactWith ==
    ASSUME NEW rows, NEW new, NEW k, NEW c, Compact(rows, k), c \notin Active(rows, k),
           NEW at \in 0 .. Cardinality(Active(rows, k)),
           Active(new, k) = Active(rows, k) \cup {c}, new[c].pos = at,
           \A d \in Active(rows, k) : new[d].pos = rows[d].pos + (IF rows[d].pos >= at THEN 1 ELSE 0)
    PROVE  Compact(new, k)
<1> DEFINE A == Active(rows, k)
           n == Cardinality(A)
           B == Active(new, k)
<1>1. IsFiniteSet(A) /\ n \in Nat
  <2>1. A \in SUBSET Cards
    BY DEF Active, Members
  <2>2. IsFiniteSet(A)
    <3> HIDE DEF A
    <3>1. QED
      BY <2>1, SizeAssumption, FS_Subset
  <2>3. QED
    BY <2>2, FS_CardinalityType
<1>2. {rows[d].pos : d \in A} = 0 .. n - 1
  BY DEF Compact
<1>3. B = A \cup {c} /\ c \notin A /\ at \in 0 .. n
  OBVIOUS
<1>4. \A d \in A : new[d].pos = rows[d].pos + (IF rows[d].pos >= at THEN 1 ELSE 0)
  OBVIOUS
<1>5. Cardinality(B) = n + 1
  <2> HIDE DEF A
  <2>1. QED
    BY <1>1, <1>3, FS_AddElement
<1> HIDE DEF A, B, n
<1>6. ASSUME NEW d \in B PROVE new[d].pos \in 0 .. n
  <2>1. CASE d = c
    BY <1>3, <2>1
  <2>2. CASE d \in A
    <3>1. rows[d].pos \in 0 .. n - 1
      BY <1>2, <2>2
    <3>2. new[d].pos = rows[d].pos + (IF rows[d].pos >= at THEN 1 ELSE 0)
      BY <1>4, <2>2
    <3>3. QED
      BY <1>1, <1>3, <3>1, <3>2
  <2>3. QED
    BY <1>3, <2>1, <2>2
<1>7. ASSUME NEW i \in 0 .. n PROVE \E d \in B : new[d].pos = i
  <2>1. CASE i = at
    BY <1>3, <2>1
  <2>2. CASE i < at
    <3>1. i \in 0 .. n - 1
      BY <1>1, <1>3, <2>2
    <3>2. PICK d \in A : rows[d].pos = i
      BY <1>2, <3>1
    <3>3. new[d].pos = i
      BY <1>3, <1>4, <2>2, <3>2
    <3>4. QED
      BY <1>3, <3>3
  <2>3. CASE i > at
    <3>1. i - 1 \in 0 .. n - 1 /\ i - 1 >= at
      BY <1>1, <1>3, <2>3
    <3>2. PICK d \in A : rows[d].pos = i - 1
      BY <1>2, <3>1
    <3>3. new[d].pos = i
      BY <1>3, <1>4, <3>1, <3>2
    <3>4. QED
      BY <1>3, <3>3
  <2>4. QED
    BY <1>1, <1>3, <2>1, <2>2, <2>3
<1>8. {new[d].pos : d \in B} = 0 .. (n + 1) - 1
  <2>1. {new[d].pos : d \in B} = 0 .. n
    BY <1>6, <1>7
  <2>2. (n + 1) - 1 = n
    BY <1>1
  <2>3. QED
    BY <2>1, <2>2
<1>9. QED
  BY <1>5, <1>8 DEF Compact, B

\* A cell that loses card c, the cards above it one place down.
LEMMA CompactWithout ==
    ASSUME NEW rows, NEW new, NEW k, Compact(rows, k), NEW c \in Active(rows, k),
           Active(new, k) = Active(rows, k) \ {c},
           \A d \in Active(rows, k) \ {c} :
              new[d].pos = rows[d].pos - (IF rows[d].pos > rows[c].pos THEN 1 ELSE 0)
    PROVE  Compact(new, k)
<1> DEFINE A == Active(rows, k)
           n == Cardinality(A)
           B == Active(new, k)
<1>1. IsFiniteSet(A) /\ n \in Nat
  <2>1. A \in SUBSET Cards
    BY DEF Active, Members
  <2>2. IsFiniteSet(A)
    <3> HIDE DEF A
    <3>1. QED
      BY <2>1, SizeAssumption, FS_Subset
  <2>3. QED
    BY <2>2, FS_CardinalityType
<1>2. {rows[d].pos : d \in A} = 0 .. n - 1
  BY DEF Compact
<1>3. B = A \ {c} /\ c \in A
  OBVIOUS
<1>4. \A d \in B : new[d].pos = rows[d].pos - (IF rows[d].pos > rows[c].pos THEN 1 ELSE 0)
  OBVIOUS
<1>5. \A d \in B : rows[d].pos # rows[c].pos
  BY CompactUntied
<1>6. Cardinality(B) = n - 1
  <2> HIDE DEF A
  <2>1. QED
    BY <1>1, <1>3, FS_RemoveElement
<1> HIDE DEF A, B, n
<1>7. \A d \in A : rows[d].pos \in 0 .. n - 1
  BY <1>2
<1>8. ASSUME NEW d \in B PROVE new[d].pos \in 0 .. n - 2
  <2>1. /\ rows[d].pos \in 0 .. n - 1 /\ rows[c].pos \in 0 .. n - 1 /\ rows[d].pos # rows[c].pos
        /\ new[d].pos = rows[d].pos - (IF rows[d].pos > rows[c].pos THEN 1 ELSE 0)
    BY <1>3, <1>4, <1>5, <1>7
  <2>2. QED
    BY <1>1, <2>1
<1>9. ASSUME NEW i \in 0 .. n - 2 PROVE \E d \in B : new[d].pos = i
  <2>0. rows[c].pos \in 0 .. n - 1
    BY <1>3, <1>7
  <2>1. CASE i < rows[c].pos
    <3>1. i \in 0 .. n - 1
      BY <1>1
    <3>2. PICK d \in A : rows[d].pos = i
      BY <1>2, <3>1
    <3>3. d \in B
      BY <1>3, <2>0, <2>1, <3>2
    <3>4. new[d].pos = i
      BY <1>4, <2>0, <2>1, <3>2, <3>3
    <3>5. QED
      BY <3>3, <3>4
  <2>2. CASE i >= rows[c].pos
    <3>1. i + 1 \in 0 .. n - 1 /\ i + 1 > rows[c].pos
      BY <1>1, <2>0, <2>2
    <3>2. PICK d \in A : rows[d].pos = i + 1
      BY <1>2, <3>1
    <3>3. d \in B
      BY <1>3, <2>0, <3>1, <3>2
    <3>4. new[d].pos = i
      BY <1>4, <2>0, <3>1, <3>2, <3>3
    <3>5. QED
      BY <3>3, <3>4
  <2>3. QED
    BY <1>1, <2>0, <2>1, <2>2
<1>10. {new[d].pos : d \in B} = 0 .. (n - 1) - 1
  <2>1. {new[d].pos : d \in B} = 0 .. n - 2
    BY <1>8, <1>9
  <2>2. (n - 1) - 1 = n - 2
    BY <1>1
  <2>3. QED
    BY <2>1, <2>2
<1>11. QED
  BY <1>6, <1>10 DEF Compact, B

LEMMA ShiftPlaces ==
    ASSUME NEW rows \in [Cards -> CardRecord], NEW S, NEW n \in Int
    PROVE  /\ Shift(rows, S, n) \in [Cards -> CardRecord]
           /\ \A d \in Cards : /\ Shift(rows, S, n)[d].st = rows[d].st
                               /\ Shift(rows, S, n)[d].cell = rows[d].cell
                               /\ Shift(rows, S, n)[d].archived = rows[d].archived
BY DEF Shift, CardRecord

\* A move changes the cell of the moved card only, and archives nothing.
LEMMA MovedPlaces ==
    ASSUME NEW c \in Cards, NEW rows, TableBut(rows, c), NEW k \in Cells, NEW p \in Int
    PROVE  LET new == Moved(rows, c, k, p) IN
           /\ new[c].st = rows[c].st /\ new[c].archived = rows[c].archived
           /\ \A d \in Cards \ {c} : /\ new[d].st = rows[d].st /\ new[d].cell = rows[d].cell
                                     /\ new[d].archived = rows[d].archived
<1> DEFINE others == Members(rows, k) \ {c}
           at     == Clamp(rows, others, p)
           closed == IF rows[c].cell = k THEN rows ELSE CloseGap(rows, c)
           opened == MakeRoom(closed, others, at)
<1>1. rows \in [Cards -> CardRecord]
  BY DEF TableBut
<1>2. /\ closed \in [Cards -> CardRecord]
      /\ \A d \in Cards : /\ closed[d].st = rows[d].st /\ closed[d].cell = rows[d].cell
                          /\ closed[d].archived = rows[d].archived
  BY <1>1, ShiftPlaces DEF CloseGap
<1>3. /\ opened \in [Cards -> CardRecord]
      /\ \A d \in Cards : /\ opened[d].st = closed[d].st /\ opened[d].cell = closed[d].cell
                          /\ opened[d].archived = closed[d].archived
  <2> HIDE DEF closed, at
  <2>1. QED
    BY <1>2, ShiftPlaces DEF MakeRoom
<1>4. Moved(rows, c, k, p) = [opened EXCEPT ![c].cell = k, ![c].pos = at]
  BY DEF Moved
<1> HIDE DEF opened, closed, at
<1>5. Moved(rows, c, k, p) = [opened EXCEPT ![c] = [[opened[c] EXCEPT !.cell = k] EXCEPT !.pos = at]]
  BY <1>3, <1>4
<1> DEFINE r == [[opened[c] EXCEPT !.cell = k] EXCEPT !.pos = at]
<1>6. r.st = opened[c].st /\ r.archived = opened[c].archived
  BY <1>3 DEF CardRecord
<1> HIDE DEF r
<1>7. Moved(rows, c, k, p) = [opened EXCEPT ![c] = r]
  BY <1>5 DEF r
<1>8. QED
  BY <1>2, <1>3, <1>6, <1>7

\* In a cell numbered without gap, a card lands at one place past the last at most.
LEMMA LandsWithin ==
    ASSUME NEW c \in Cards, NEW rows, TableBut(rows, c), NEW k, NEW p \in Int,
           Compact(rows, k), Active(rows, k) = Members(rows, k), c \notin Members(rows, k)
    PROVE  Landing(rows, c, k, p) \in 0 .. Cardinality(Active(rows, k))
<1> DEFINE S == Others(rows, c, k)
           n == Cardinality(Active(rows, k))
<1>1. S = Active(rows, k)
  BY DEF Others
<1>2. n \in Nat
  <2>1. Active(rows, k) \in SUBSET Cards
    BY DEF Active, Members
  <2>2. QED
    BY <2>1, SizeAssumption, FS_Subset, FS_CardinalityType
<1>3. \A d \in S : rows[d].pos \in 0 .. MaxPosition
  BY LandingFact
<1>4. \A d \in S : rows[d].pos \in 0 .. n - 1
  BY <1>1 DEF Compact
<1> HIDE DEF S, n
<1>5. /\ Past(rows, S) \in 0 .. MaxPosition + 1
      /\ (Past(rows, S) = 0 \/ \E d \in S : rows[d].pos = Past(rows, S) - 1)
  BY <1>3, PastFact
<1>6. Past(rows, S) \in 0 .. n
  <2>1. CASE Past(rows, S) = 0
    BY <1>2, <2>1
  <2>2. CASE \E d \in S : rows[d].pos = Past(rows, S) - 1
    BY <1>2, <1>4, <1>5, <2>2, SizeAssumption
  <2>3. QED
    BY <1>5, <2>1, <2>2
<1>7. Clamp(rows, S, p) = (IF (IF p <= Past(rows, S) THEN p ELSE Past(rows, S)) < 0 THEN 0
                           ELSE IF p <= Past(rows, S) THEN p ELSE Past(rows, S))
  BY DEF Clamp
<1>8. Clamp(rows, S, p) \in 0 .. n
  BY <1>2, <1>6, <1>7
<1>9. QED
  BY <1>8 DEF Landing, S, n

\* A card that comes from another cell leaves both without gap or tie.
LEMMA TransferCompact ==
    ASSUME IInv, CellsCompact, \A d \in Cards : ~card[d].archived,
           NEW c \in Cards, NEW k \in Cells, NEW p \in Asked, Transfer(c, k, p)
    PROVE  CellsCompact'
<1> DEFINE at == Landing(card, c, k, p)
<1>1. /\ TableBut(card, c) /\ p \in Int /\ \A d \in Cards : card[d] \in CardRecord /\ card[d].pos \in Int
  BY SizeAssumption DEF IInv, Table, TableBut, Asked
<1>2. card' = Moved(card, c, k, p) /\ card[c].st = "live" /\ card[c].cell # k
  BY DEF Transfer, Move
<1>3. /\ card'[c].pos = at /\ card'[c].cell = k
      /\ \A d \in Others(card, c, k) : card'[d].pos = card[d].pos + (IF card[d].pos >= at THEN 1 ELSE 0)
      /\ \A d \in Cards \ (Others(card, c, k) \cup {c}) :
            card'[d].pos = card[d].pos - (IF d \in Above(card, c, k) THEN 1 ELSE 0)
  BY <1>1, <1>2, MovedFact
<1>4. /\ card'[c].st = card[c].st /\ card'[c].archived = card[c].archived
      /\ \A d \in Cards \ {c} : /\ card'[d].st = card[d].st /\ card'[d].cell = card[d].cell
                                /\ card'[d].archived = card[d].archived
  BY <1>1, <1>2, MovedPlaces
<1>5. \A j \in Cells : Active(card, j) = Members(card, j) /\ Compact(card, j)
  BY DEF Active, Members, CellsCompact, Compact
<1>6. c \notin Members(card, k)
  BY <1>2 DEF Members
<1>7. at \in 0 .. Cardinality(Active(card, k))
  BY <1>1, <1>5, <1>6, LandsWithin
<1> HIDE DEF at
<1>8. Compact(card', k)
  <2>1. Active(card', k) = Active(card, k) \cup {c}
    BY <1>2, <1>3, <1>4 DEF Active, Members
  <2>2. Others(card, c, k) = Active(card, k)
    BY <1>5, <1>6 DEF Others
  <2>3. QED
    BY <1>3, <1>5, <1>6, <1>7, <2>1, <2>2, CompactWith
<1>9. Compact(card', card[c].cell)
  <2> DEFINE j == card[c].cell
  <2>1. j \in Cells /\ c \in Active(card, j)
    BY <1>1, <1>2 DEF CardRecord, Active, Members
  <2>2. Active(card', j) = Active(card, j) \ {c}
    BY <1>2, <1>3, <1>4 DEF Active, Members
  <2>3. ASSUME NEW d \in Active(card, j) \ {c}
        PROVE  card'[d].pos = card[d].pos - (IF card[d].pos > card[c].pos THEN 1 ELSE 0)
    <3>1. d \in Cards \ (Others(card, c, k) \cup {c})
      BY <1>2 DEF Others, Active, Members
    <3>2. d \in Above(card, c, k) <=> card[d].pos > card[c].pos
      BY <1>2 DEF Above
    <3>3. QED
      BY <1>3, <3>1, <3>2
  <2> HIDE DEF j
  <2>4. Compact(card, j)
    BY <1>5, <2>1
  <2>5. Compact(card', j)
    BY <2>1, <2>2, <2>3, <2>4, CompactWithout
  <2>6. QED
    BY <2>5 DEF j
<1>10. ASSUME NEW j \in Cells, j # k, j # card[c].cell PROVE Compact(card', j)
  <2>1. Active(card', j) = Active(card, j)
    BY <1>3, <1>4, <1>10 DEF Active, Members
  <2>2. ASSUME NEW d \in Active(card, j) PROVE card'[d].pos = card[d].pos
    <3>1. d \in Cards \ (Others(card, c, k) \cup {c}) /\ d \notin Above(card, c, k)
      BY <1>10 DEF Others, Above, Active, Members
    <3>2. card[d].pos \in Int
      BY <1>1, <3>1
    <3>3. QED
      BY <1>3, <3>1, <3>2
  <2>3. QED
    BY <1>5, <2>1, <2>2 DEF Compact
<1>11. QED
  BY <1>8, <1>9, <1>10 DEF CellsCompact, Compact, Active, Members

\* A card that is created comes after the last.
LEMMA CreateCompact ==
    ASSUME IInv, CellsCompact, \A d \in Cards : ~card[d].archived,
           NEW c \in Cards, NEW k \in Cells, Create(c, k)
    PROVE  CellsCompact'
<1> DEFINE n == Cardinality(Members(card, k))
           r == [st |-> "live", cell |-> k, archived |-> FALSE, pos |-> n]
<1>1. card \in [Cards -> CardRecord] /\ card[c].st = "unborn" /\ card' = [card EXCEPT ![c] = r]
  BY DEF IInv, Table, Create, Created
<1>2. r.st = "live" /\ r.cell = k /\ ~r.archived /\ r.pos = n
  OBVIOUS
<1> HIDE DEF r
<1>3. card'[c] = r /\ \A d \in Cards \ {c} : card'[d] = card[d]
  BY <1>1
<1>4. \A j \in Cells : Active(card, j) = Members(card, j) /\ Compact(card, j)
  BY DEF Active, Members, CellsCompact, Compact
<1>5. c \notin Active(card, k) /\ n = Cardinality(Active(card, k)) /\ n \in Nat
  <2>1. c \notin Active(card, k) /\ n = Cardinality(Active(card, k))
    BY <1>1, <1>4 DEF Members, Active
  <2>2. Active(card, k) \in SUBSET Cards
    BY DEF Active, Members
  <2>3. n \in Nat
    <3> HIDE DEF n
    <3>1. Cardinality(Active(card, k)) \in Nat
      BY <2>2, SizeAssumption, FS_Subset, FS_CardinalityType
    <3>2. QED
      BY <2>1, <3>1
  <2>4. QED
    BY <2>1, <2>3
<1> HIDE DEF n
<1>6. Compact(card', k)
  <2>1. Active(card', k) = Active(card, k) \cup {c}
    BY <1>2, <1>3 DEF Active, Members
  <2>2. ASSUME NEW d \in Active(card, k)
        PROVE  card'[d].pos = card[d].pos + (IF card[d].pos >= n THEN 1 ELSE 0)
    <3>1. card[d].pos \in 0 .. n - 1
      BY <1>4, <1>5 DEF Compact
    <3>2. card'[d] = card[d]
      BY <1>3, <1>5 DEF Active, Members
    <3>3. QED
      BY <1>5, <3>1, <3>2
  <2>3. n \in 0 .. Cardinality(Active(card, k))
    BY <1>5
  <2>4. QED
    BY <1>2, <1>3, <1>4, <1>5, <2>1, <2>2, <2>3, CompactWith
<1>7. ASSUME NEW j \in Cells, j # k PROVE Compact(card', j)
  <2>1. Active(card', j) = Active(card, j) /\ \A d \in Active(card, j) : card'[d] = card[d]
    BY <1>1, <1>2, <1>3, <1>7 DEF Active, Members
  <2>2. QED
    BY <1>4, <2>1 DEF Compact
<1>8. QED
  BY <1>6, <1>7 DEF CellsCompact, Compact, Active, Members

\* Creation and a move to another cell renumber without gap or tie, as long as
\* nothing is archived.
THEOREM CompactStaysCompact ==
    ASSUME AdminPositions \subseteq Nat
    PROVE  Spec => CompactKept
<1>1. ASSUME IInv
      PROVE  [\A c \in Cards, k \in Cells :
                 /\ CellsCompact /\ \A d \in Cards : ~card[d].archived
                 /\ Create(c, k) \/ \E p \in Asked : Transfer(c, k, p)
                 => CellsCompact']_card
  BY <1>1, CreateCompact, TransferCompact
<1>2. QED
  BY <1>1, Numbering, PTL DEF Spec, CompactKept
=============================================================================
