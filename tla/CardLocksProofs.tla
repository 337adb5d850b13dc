--------------------------- MODULE CardLocksProofs ---------------------------
(***************************************************************************)
(* Proofs about CardLocks, for any cards, columns, lanes, requests, limits  *)
(* and number of requests in flight.                                        *)
(***************************************************************************)
EXTENDS CardLocksInvariant, FiniteSetTheorems, TLAPS

HeldType == held \in [Procs -> [Rows -> Modes]]

-----------------------------------------------------------------------------
(* Row locks.                                                               *)

\* What taking a lock changes, and that it keeps the lock table compatible.
LEMMA TakeLock ==
    ASSUME HeldType, LocksCompatible,
           NEW p \in Procs, NEW r \in Rows, NEW m \in Modes, Take(p, r, m)
    PROVE  /\ HeldType' /\ LocksCompatible'
           /\ \A q \in Procs \ {p} : held'[q] = held[q]
           /\ \A s \in Rows \ {r} : held'[p][s] = held[p][s]
           /\ held'[p][r] >= m
           /\ held'[p][r] >= held[p][r]
           /\ held'[p][r] \in {m, held[p][r]}
<1>1. held' = [held EXCEPT ![p] = [held[p] EXCEPT ![r] = Stronger(held[p][r], m)]]
  BY DEF Take, WithLock, HeldType
<1>2. \A q \in Procs \ {p} : held[q][r] + m < 5
  BY DEF Take, Grantable, Compatible
<1>3. Stronger(held[p][r], m) \in Modes /\ Stronger(held[p][r], m) \in {m, held[p][r]}
      /\ Stronger(held[p][r], m) >= m /\ Stronger(held[p][r], m) >= held[p][r]
  BY DEF HeldType, Stronger, Modes, None, Update
<1>4. HeldType'
  BY <1>1, <1>3 DEF HeldType
<1>5. /\ \A q \in Procs \ {p} : held'[q] = held[q]
      /\ \A s \in Rows \ {r} : held'[p][s] = held[p][s]
      /\ held'[p][r] = Stronger(held[p][r], m)
  BY <1>1 DEF HeldType
<1>6. LocksCompatible'
  <2> SUFFICES ASSUME NEW a \in Procs, NEW b \in Procs, a # b, NEW s \in Rows
               PROVE  held'[a][s] + held'[b][s] < 5
    BY DEF LocksCompatible, Compatible
  <2>1. held[a][s] + held[b][s] < 5
    BY DEF LocksCompatible, Compatible
  <2>2. held[a][s] \in Nat /\ held[b][s] \in Nat
    BY DEF HeldType, Modes, None, Update
  <2>3. CASE a # p /\ b # p
    BY <2>1, <2>3, <1>5
  <2>4. CASE s # r
    BY <2>1, <2>4, <1>5
  <2>5. CASE a = p /\ s = r
    <3>1. held[b][r] + m < 5 /\ held'[b] = held[b]
      BY <2>5, <1>2, <1>5
    <3>2. held'[p][r] = m \/ held'[p][r] = held[p][r]
      BY <1>3, <1>5
    <3> QED BY <2>1, <2>2, <2>5, <3>1, <3>2 DEF Modes, None, Update
  <2>6. CASE b = p /\ s = r
    <3>1. held[a][r] + m < 5 /\ held'[a] = held[a]
      BY <2>6, <1>2, <1>5
    <3>2. held'[p][r] = m \/ held'[p][r] = held[p][r]
      BY <1>3, <1>5
    <3> QED BY <2>1, <2>2, <2>6, <3>1, <3>2 DEF Modes, None, Update
  <2> QED BY <2>3, <2>4, <2>5, <2>6
<1> QED BY <1>3, <1>4, <1>5, <1>6

\* What ending a transaction, or going back to a savepoint, changes.
LEMMA ReleaseLocks ==
    ASSUME HeldType, LocksCompatible, NEW p \in Procs, NEW kept \in SUBSET Rows, Release(p, kept)
    PROVE  /\ HeldType' /\ LocksCompatible'
           /\ \A q \in Procs \ {p} : held'[q] = held[q]
           /\ \A r \in kept : held'[p][r] = held[p][r]
           /\ \A r \in Rows \ kept : held'[p][r] = None
<1>1. held' = [held EXCEPT ![p] = [r \in Rows |-> IF r \in kept THEN held[p][r] ELSE None]]
  BY DEF Release, OnlyOn, HeldType
<1>2. HeldType'
  BY <1>1 DEF HeldType, Modes, None, Update
<1>3. /\ \A q \in Procs \ {p} : held'[q] = held[q]
      /\ \A r \in Rows : held'[p][r] = IF r \in kept THEN held[p][r] ELSE None
  BY <1>1 DEF HeldType
<1>4. LocksCompatible'
  <2> SUFFICES ASSUME NEW a \in Procs, NEW b \in Procs, a # b, NEW s \in Rows
               PROVE  held'[a][s] + held'[b][s] < 5
    BY DEF LocksCompatible, Compatible
  <2>1. held[a][s] + held[b][s] < 5 /\ held[a][s] \in Nat /\ held[b][s] \in Nat
    BY DEF LocksCompatible, Compatible, HeldType, Modes, None, Update
  <2>2. held'[a][s] \in {held[a][s], 0} /\ held'[b][s] \in {held[b][s], 0}
    BY <1>3 DEF None
  <2> QED BY <2>1, <2>2
<1> QED BY <1>2, <1>3, <1>4

-----------------------------------------------------------------------------
(* Rows.                                                                    *)

\* Tags keep the tables apart, and a row exists when its table has it.
LEMMA RowFacts ==
    /\ BoardRow \in Rows
    /\ \A c \in Cards : OfCard(c) \in Rows /\ OfCard(c) # BoardRow
    /\ \A k \in Columns : OfColumn(k) \in Rows /\ OfColumn(k) # BoardRow
    /\ \A l \in Lanes : OfLane(l) \in Rows /\ OfLane(l) # BoardRow
    /\ \A c, d \in Cards : OfCard(c) = OfCard(d) => c = d
    /\ \A k, j \in Columns : OfColumn(k) = OfColumn(j) => k = j
    /\ \A l, m \in Lanes : OfLane(l) = OfLane(m) => l = m
    /\ \A c \in Cards, k \in Columns : OfCard(c) # OfColumn(k)
    /\ \A c \in Cards, l \in Lanes : OfCard(c) # OfLane(l)
    /\ \A k \in Columns, l \in Lanes : OfColumn(k) # OfLane(l)
  BY DEF Rows, BoardRow, OfCard, OfColumn, OfLane

\* Which rows exist, table by table.
LEMMA ExistingFacts ==
    ASSUME cols \subseteq Columns, lanes \subseteq Lanes
    PROVE  /\ Existing \subseteq Rows
           /\ BoardRow \in Existing <=> up
           /\ \A c \in Cards : OfCard(c) \in Existing <=> c \in Live
           /\ \A k \in Columns : OfColumn(k) \in Existing <=> k \in cols
           /\ \A l \in Lanes : OfLane(l) \in Existing <=> l \in lanes
  BY DEF Existing, Rows, Live, BoardRow, OfCard, OfColumn, OfLane

-----------------------------------------------------------------------------
(* Types.                                                                   *)

\* The fields of a request, and of a card as last read.
LEMMA RequestFields ==
    ASSUME TypeOK, NEW p \in Procs
    PROVE  /\ Op(p) \in Ops
           /\ req[p].card \in Cards /\ req[p].col \in Columns /\ req[p].lane \in Lanes
           /\ req[p].arch \in BOOLEAN
           /\ seen[p] \in CardRecord
           /\ card[req[p].card] \in CardRecord
  BY RequestsAssumption DEF TypeOK, ContentsTypeOK, RequestRecord, Op

\* The modes an operation asks for are lock modes.
LEMMA ModeTypes ==
    ASSUME NEW p, NEW r
    PROVE  /\ BoardMode(Op(p)) \in Modes
           /\ CardMode(Op(p)) \in {NoKeyUpdate, Update}
           /\ ColumnMode(Op(p)) \in {NoKeyUpdate, Update}
           /\ WriteMode(p, r) \in {NoKeyUpdate, Update}
           /\ {KeyShare, NoKeyUpdate, Update} \subseteq Modes
  BY DEF BoardMode, CardMode, ColumnMode, WriteMode, Modes, None, Share, KeyShare, NoKeyUpdate, Update

\* The rows and cards an operation works on are rows and cards.
LEMMA RowTypes ==
    ASSUME TypeOK, NEW p \in Procs, NEW s \in CardRecord
    PROVE  /\ Target(p, s)[1] \in Columns /\ Target(p, s)[2] \in Lanes
           /\ Container(p) \subseteq Live
           /\ Members(p, s) \subseteq Live
           /\ Live \subseteq Cards
           /\ ColumnsToLock(p, s) \subseteq cols /\ cols \subseteq Columns /\ lanes \subseteq Lanes
           /\ CascadeRows(p) \subseteq Rows
           /\ ForeignKeys(p) \subseteq Rows
<1>1. Target(p, s)[1] \in Columns /\ Target(p, s)[2] \in Lanes
  BY RequestFields DEF Target, CardRecord
<1>2. Container(p) \subseteq Live /\ Live \subseteq Cards
  BY DEF Container, Live, InColumn, InLane
<1>3. Members(p, s) \subseteq Live
  BY <1>2 DEF Members, InCell, InColumn
<1>4. ColumnsToLock(p, s) \subseteq cols /\ cols \subseteq Columns /\ lanes \subseteq Lanes
  BY DEF ColumnsToLock, TypeOK, ContentsTypeOK
<1>5. CascadeRows(p) \subseteq Rows
  BY <1>2, <1>4, RequestFields, RowFacts DEF CascadeRows
<1>6. ForeignKeys(p) \subseteq Rows
  <2>1. Target(p, seen[p])[1] \in Columns /\ Target(p, seen[p])[2] \in Lanes
    BY RequestFields DEF Target, CardRecord
  <2>2. seen[p].col \in Columns /\ seen[p].lane \in Lanes
    BY RequestFields DEF CardRecord
  <2>3. req[p].col \in Columns /\ req[p].lane \in Lanes
    BY RequestFields
  <2> QED BY <2>1, <2>2, <2>3, RowFacts DEF ForeignKeys
<1> QED BY <1>1, <1>2, <1>3, <1>4, <1>5, <1>6

-----------------------------------------------------------------------------
(* The helpers the actions share.                                           *)

\* p's step leaves the other requests' own state, and all requests, alone.
OthersKept(p) ==
    /\ req' = req
    /\ \A q \in Procs \ {p} : /\ pc'[q] = pc[q] /\ seen'[q] = seen[q] /\ todo'[q] = todo[q]
                             /\ doomed'[q] = doomed[q] /\ held'[q] = held[q]

\* What moving to the next statement changes: p's own place and work list.
LEMMA GotoStep ==
    ASSUME TypeOK, NEW p \in Procs, NEW where \in Places, NEW rows \in SUBSET Rows, Goto(p, where, rows)
    PROVE  /\ pc' \in [Procs -> Places] /\ todo' \in [Procs -> SUBSET Rows]
           /\ pc'[p] = where /\ todo'[p] = rows
           /\ \A q \in Procs \ {p} : pc'[q] = pc[q] /\ todo'[q] = todo[q]
  BY DEF Goto, TypeOK

\* The lock table maps every request and row to a mode.
LEMMA HeldTyped == TypeOK => HeldType
  BY DEF TypeOK, HeldType

\* A transaction that ends holds nothing, and disturbs no other request.
LEMMA EndStep ==
    ASSUME TypeOK, LocksCompatible, NEW p \in Procs, NEW a \in Answers, End(p, a)
    PROVE  /\ pc' \in [Procs -> Places] /\ todo' \in [Procs -> SUBSET Rows]
           /\ out' \in [Procs -> Answers] /\ HeldType' /\ LocksCompatible'
           /\ pc'[p] = "done" /\ todo'[p] = {} /\ out'[p] = a
           /\ \A r \in Rows : held'[p][r] = None
           /\ \A q \in Procs \ {p} : /\ pc'[q] = pc[q] /\ todo'[q] = todo[q]
                                    /\ held'[q] = held[q] /\ out'[q] = out[q]
<1>1. Goto(p, "done", {}) /\ "done" \in Places /\ {} \in SUBSET Rows
  BY DEF End, Places
<1>2. HeldType /\ Release(p, {})
  BY HeldTyped DEF End
<1>3. /\ out' \in [Procs -> Answers] /\ out'[p] = a
      /\ \A q \in Procs \ {p} : out'[q] = out[q]
  BY DEF End, TypeOK
<1> QED BY <1>1, <1>2, <1>3, GotoStep, ReleaseLocks

\* A refusal changes no table, whatever the answer.
LEMMA RefuseStep ==
    ASSUME TypeOK, LocksCompatible, NEW p \in Procs, NEW a \in Answers, Refuse(p, a)
    PROVE  /\ TypeOK' /\ LocksCompatible' /\ OthersKept(p) /\ UNCHANGED contents
           /\ pc'[p] = "done" /\ out'[p] = a
           /\ \A r \in Rows : held'[p][r] = None
           /\ \A q \in Procs \ {p} : out'[q] = out[q]
<1>1. End(p, a) /\ UNCHANGED <<contents, req, seen, tries, doomed>>
  BY DEF Refuse
<1>2. TypeOK'
  BY <1>1, EndStep DEF TypeOK, ContentsTypeOK, Live, HeldType, contents
<1> QED BY <1>1, <1>2, EndStep DEF OthersKept

\* An attempt that starts over changes no table: it gives up with 409, or
\* goes back to its first statement holding the board row at most.
LEMMA RetryStep ==
    ASSUME TypeOK, LocksCompatible, NEW p \in Procs, Retry(p)
    PROVE  /\ TypeOK' /\ LocksCompatible' /\ OthersKept(p) /\ UNCHANGED contents
           /\ \A q \in Procs \ {p} : out'[q] = out[q]
           /\ out'[p] \in {out[p], "409"}
           /\ \/ pc'[p] = "done" /\ \A r \in Rows : held'[p][r] = None
              \/ /\ pc'[p] = IF Op(p) = "move" THEN "read" ELSE "snap"
                 /\ \A r \in Rows \ {BoardRow} : held'[p][r] = None
                 /\ held'[p][BoardRow] = IF Op(p) = "move" THEN None ELSE held[p][BoardRow]
<1>1. CASE tries[p] + 1 >= MaxTries
  <2>1. Refuse(p, "409") /\ "409" \in Answers
    BY <1>1 DEF Retry, Answers
  <2> QED BY <2>1, RefuseStep
<1>2. CASE ~(tries[p] + 1 >= MaxTries)
  <2> DEFINE where == IF Op(p) = "move" THEN "read" ELSE "snap"
             kept  == IF Op(p) = "move" THEN {} ELSE {BoardRow}
  <2>1. /\ tries' = [tries EXCEPT ![p] = @ + 1]
        /\ Goto(p, where, {}) /\ Release(p, kept)
        /\ UNCHANGED <<contents, req, seen, doomed, out>>
    BY <1>2 DEF Retry
  <2>2. where \in Places /\ kept \in SUBSET Rows /\ {} \in SUBSET Rows
    BY RowFacts DEF Places
  <2>3. tries' \in [Procs -> 0 .. MaxTries - 1]
    BY <1>2, <2>1, RequestsAssumption DEF TypeOK
  <2> HIDE DEF where, kept
  <2>4. /\ HeldType' /\ LocksCompatible'
        /\ \A q \in Procs \ {p} : held'[q] = held[q]
        /\ \A r \in kept : held'[p][r] = held[p][r]
        /\ \A r \in Rows \ kept : held'[p][r] = None
    BY <2>1, <2>2, HeldTyped, ReleaseLocks
  <2>5. /\ pc' \in [Procs -> Places] /\ todo' \in [Procs -> SUBSET Rows]
        /\ pc'[p] = where
        /\ \A q \in Procs \ {p} : pc'[q] = pc[q] /\ todo'[q] = todo[q]
    BY <2>1, <2>2, GotoStep
  <2>6. TypeOK'
    BY <2>1, <2>3, <2>4, <2>5 DEF TypeOK, ContentsTypeOK, HeldType, contents
  <2>7. /\ \A r \in Rows \ {BoardRow} : held'[p][r] = None
        /\ held'[p][BoardRow] = IF Op(p) = "move" THEN None ELSE held[p][BoardRow]
    BY <2>4, RowFacts DEF kept
  <2> QED BY <2>1, <2>4, <2>5, <2>6, <2>7 DEF OthersKept, where
<1> QED BY <1>1, <1>2

-----------------------------------------------------------------------------
(* Steps that leave the tables alone.                                       *)

\* What holds of a request goes on holding while it does not step and nobody
\* changes the tables.
LEMMA GoodKept ==
    ASSUME NEW q \in Procs, Good(q), UNCHANGED contents,
           req'[q] = req[q], pc'[q] = pc[q], seen'[q] = seen[q], todo'[q] = todo[q],
           doomed'[q] = doomed[q], held'[q] = held[q]
    PROVE  Good(q)'
<1>1. /\ req'[q] = req[q] /\ pc'[q] = pc[q] /\ seen'[q] = seen[q] /\ todo'[q] = todo[q]
      /\ doomed'[q] = doomed[q] /\ held'[q] = held[q]
      /\ card' = card /\ cols' = cols /\ lanes' = lanes /\ up' = up
  BY DEF contents
<1>2. HeldExist(q)'
  BY <1>1 DEF Good, HeldExist, Existing, Live
<1>3. CreationFresh(q)' /\ CardBorn(q)' /\ BoardHeld(q)' /\ CardComing(q)' /\ CardHeld(q)' /\ EarlyModes(q)'
  BY <1>1 DEF Good, CreationFresh, CardBorn, BoardHeld, CardComing, CardHeld, EarlyModes, Live, Op
<1>4. ColumnsComing(q)' /\ ColumnsHeld(q)' /\ LaneThere(q)'
  BY <1>1 DEF Good, ColumnsComing, ColumnsHeld, LaneThere, EntryColumns, CellChange, Target, Op
<1>5. MembersHeld(q)'
  BY <1>1 DEF Good, MembersHeld, Members, Container, Cells, Target, InCell, InColumn, InLane, Live, Op
<1>6. CascadeReady(q)'
  BY <1>1 DEF Good, CascadeReady, Container, CascadeRows, WriteMode, TargetGone, InColumn, InLane, Live, Op
<1>7. ForeignKeysComing(q)'
  BY <1>1 DEF Good, ForeignKeysComing, ForeignKeys, CellChange, Target, Op
<1> QED BY <1>2, <1>3, <1>4, <1>5, <1>6, <1>7 DEF Good

\* What every step but a successful Commit does.
Quiet(p) ==
    /\ TypeOK' /\ LocksCompatible' /\ UNCHANGED contents
    /\ OthersKept(p) /\ Good(p)'
    /\ \A q \in Procs : out'[q] \in {out[q], "ok", "404", "409", "aborted"}

\* A request that is done has promised nothing.
LEMMA DoneGood ==
    ASSUME NEW p \in Procs, HeldType', pc'[p] = "done", \A r \in Rows : held'[p][r] = None
    PROVE  Good(p)'
<1>1. /\ pc'[p] \notin Late /\ pc'[p] \notin Decided /\ pc'[p] # "fkey" /\ pc'[p] # "columns"
      /\ pc'[p] # "cards"
  BY DEF Late, Decided
<1>2. HeldExist(p)' /\ CreationFresh(p)' /\ CardBorn(p)' /\ BoardHeld(p)' /\ CardComing(p)' /\ CardHeld(p)'
  BY <1>1 DEF HeldExist, CreationFresh, CardBorn, BoardHeld, CardComing, CardHeld
<1>3. EarlyModes(p)'
  BY <1>1, RowFacts DEF EarlyModes
<1>4. /\ ColumnsComing(p)' /\ ColumnsHeld(p)' /\ LaneThere(p)' /\ MembersHeld(p)'
      /\ CascadeReady(p)' /\ ForeignKeysComing(p)'
  BY <1>1 DEF ColumnsComing, ColumnsHeld, LaneThere, MembersHeld, CascadeReady, ForeignKeysComing
<1> QED BY <1>2, <1>3, <1>4 DEF Good

\* A refused request leaves everyone's guarantees alone.
LEMMA QuietRefusal ==
    ASSUME TypeOK, LocksCompatible, NEW p \in Procs, NEW a \in {"ok", "404", "409", "aborted"}, Refuse(p, a)
    PROVE  Quiet(p)
<1>1. a \in Answers
  BY DEF Answers
<1>2. /\ TypeOK' /\ LocksCompatible' /\ OthersKept(p) /\ UNCHANGED contents
      /\ pc'[p] = "done" /\ out'[p] = a
      /\ \A r \in Rows : held'[p][r] = None
      /\ \A q \in Procs \ {p} : out'[q] = out[q]
  BY <1>1, RefuseStep
<1>3. HeldType'
  BY <1>2 DEF TypeOK, HeldType
<1>4. Good(p)'
  BY <1>2, <1>3, DoneGood
<1> QED BY <1>2, <1>4 DEF Quiet

\* A request that starts over keeps at most the board row.
LEMMA QuietRetry ==
    ASSUME TypeOK, LocksCompatible, NEW p \in Procs, Good(p), pc[p] \in {"cards", "columns"}, Retry(p)
    PROVE  Quiet(p)
<1>1. /\ TypeOK' /\ LocksCompatible' /\ OthersKept(p) /\ UNCHANGED contents
      /\ \A q \in Procs \ {p} : out'[q] = out[q]
      /\ out'[p] \in {out[p], "409"}
  BY RetryStep
<1>2. Good(p)'
  <2>1. CASE pc'[p] = "done" /\ \A r \in Rows : held'[p][r] = None
    BY <1>1, <2>1, DoneGood DEF TypeOK, HeldType
  <2>2. CASE /\ pc'[p] = IF Op(p) = "move" THEN "read" ELSE "snap"
             /\ \A r \in Rows \ {BoardRow} : held'[p][r] = None
             /\ held'[p][BoardRow] = IF Op(p) = "move" THEN None ELSE held[p][BoardRow]
    <3>1. /\ req' = req /\ card' = card /\ cols' = cols /\ lanes' = lanes /\ up' = up
          /\ pc'[p] \in {"read", "snap"}
          /\ pc'[p] \notin Late /\ pc'[p] \notin Decided
      BY <1>1, <2>2 DEF OthersKept, contents, Late, Decided
    <3>2. HeldExist(p)'
      BY <2>2, <3>1 DEF Good, HeldExist, Existing, Live
    <3>3. CreationFresh(p)' /\ CardBorn(p)' /\ CardComing(p)' /\ CardHeld(p)'
      BY <3>1 DEF Good, CreationFresh, CardBorn, CardComing, CardHeld, Op
    <3>4. BoardHeld(p)'
      BY <2>2, <3>1 DEF Good, BoardHeld, BoardMode, Op, None
    <3>5. EarlyModes(p)'
      BY <2>2, <3>1, RowFacts DEF EarlyModes
    <3>6. /\ ColumnsComing(p)' /\ ColumnsHeld(p)' /\ LaneThere(p)' /\ MembersHeld(p)'
          /\ CascadeReady(p)' /\ ForeignKeysComing(p)'
      BY <3>1 DEF ColumnsComing, ColumnsHeld, LaneThere, MembersHeld, CascadeReady, ForeignKeysComing, Late
    <3> QED BY <3>2, <3>3, <3>4, <3>5, <3>6 DEF Good
  <2> QED BY <2>1, <2>2, RetryStep
<1> QED BY <1>1, <1>2 DEF Quiet

\* A step that writes no table and takes locks for p alone leaves everyone
\* else's guarantees alone: only p's own are left to show.
LEMMA LocalStep ==
    ASSUME TypeOK, NEW p \in Procs,
           NEW where \in Places, NEW rows \in SUBSET Rows, Goto(p, where, rows),
           UNCHANGED <<contents, req, tries, out>>,
           HeldType', LocksCompatible', \A q \in Procs \ {p} : held'[q] = held[q],
           seen' \in [Procs -> CardRecord], \A q \in Procs \ {p} : seen'[q] = seen[q],
           doomed' \in [Procs -> SUBSET Cards], \A q \in Procs \ {p} : doomed'[q] = doomed[q],
           Good(p)'
    PROVE  Quiet(p)
<1>1. /\ pc' \in [Procs -> Places] /\ todo' \in [Procs -> SUBSET Rows]
      /\ \A q \in Procs \ {p} : pc'[q] = pc[q] /\ todo'[q] = todo[q]
  BY GotoStep
<1>2. TypeOK'
  BY <1>1 DEF TypeOK, ContentsTypeOK, HeldType, contents
<1>3. OthersKept(p)
  BY <1>1 DEF OthersKept
<1>4. UNCHANGED contents /\ \A q \in Procs : out'[q] \in {out[q], "ok", "404", "409", "aborted"}
  OBVIOUS
<1> QED BY <1>2, <1>3, <1>4 DEF Quiet

\* A lock on a row that is there keeps what the locks held so far promise.
LEMMA TakeKeeps ==
    ASSUME TypeOK, LocksCompatible, NEW p \in Procs, NEW r \in Rows, NEW m \in Modes,
           r \in Existing, HeldExist(p), UNCHANGED contents, Take(p, r, m)
    PROVE  /\ HeldType' /\ LocksCompatible' /\ HeldExist(p)'
           /\ \A q \in Procs \ {p} : held'[q] = held[q]
           /\ \A s \in Rows : held'[p][s] \in Modes /\ held'[p][s] >= held[p][s]
           /\ \A s \in Rows \ {r} : held'[p][s] = held[p][s]
           /\ held'[p][r] >= m /\ held'[p][r] \in {m, held[p][r]}
<1>1. HeldType
  BY HeldTyped
<1>2. /\ HeldType' /\ LocksCompatible'
      /\ \A q \in Procs \ {p} : held'[q] = held[q]
      /\ \A s \in Rows \ {r} : held'[p][s] = held[p][s]
      /\ held'[p][r] >= m
      /\ held'[p][r] >= held[p][r]
      /\ held'[p][r] \in {m, held[p][r]}
  BY <1>1, TakeLock
<1>3. \A s \in Rows : held'[p][s] \in Modes /\ held[p][s] \in Modes
  BY <1>1, <1>2 DEF HeldType
<1>4. \A s \in Rows : held'[p][s] >= held[p][s]
  BY <1>2, <1>3 DEF Modes, None, Update
<1>5. HeldExist(p)'
  BY <1>2 DEF HeldExist, Existing, Live, contents
<1> QED BY <1>2, <1>3, <1>4, <1>5

\* A locking statement takes each row that is still there when its turn comes.
LEMMA TakeIfThere ==
    ASSUME TypeOK, LocksCompatible, NEW p \in Procs, NEW r \in Rows, NEW m \in Modes,
           HeldExist(p), UNCHANGED contents,
           IF r \in Existing THEN Take(p, r, m) ELSE UNCHANGED held
    PROVE  /\ HeldType' /\ LocksCompatible' /\ HeldExist(p)'
           /\ \A q \in Procs \ {p} : held'[q] = held[q]
           /\ \A s \in Rows : held[p][s] \in Nat /\ held'[p][s] \in Nat
           /\ \A s \in Rows : held'[p][s] >= held[p][s]
           /\ \A s \in Rows : held'[p][s] \in {held[p][s], m}
           /\ \A s \in Rows : held[p][s] = Update => held'[p][s] = Update
           /\ r \in Existing => held'[p][r] >= m
<1>1. /\ HeldType' /\ LocksCompatible' /\ HeldExist(p)'
      /\ \A q \in Procs \ {p} : held'[q] = held[q]
      /\ \A s \in Rows : held'[p][s] >= held[p][s]
      /\ \A s \in Rows : held'[p][s] \in {held[p][s], m}
      /\ r \in Existing => held'[p][r] >= m
  <2>1. CASE r \in Existing
    BY <2>1, TakeKeeps
  <2>2. CASE r \notin Existing
    <3>1. held' = held
      BY <2>2
    <3>2. \A s \in Rows : held[p][s] >= held[p][s]
      BY DEF TypeOK, Modes, None, Update
    <3> QED BY <2>2, <3>1, <3>2 DEF HeldExist, HeldType, TypeOK, LocksCompatible, Existing, Live, contents
  <2> QED BY <2>1, <2>2
<1>2. \A s \in Rows : held[p][s] \in Modes /\ held'[p][s] \in Modes
  BY <1>1 DEF TypeOK, HeldType
<1>3. \A s \in Rows : held[p][s] \in Nat /\ held'[p][s] \in Nat
  BY <1>2 DEF Modes, None, Update
<1>4. \A s \in Rows : held[p][s] = Update => held'[p][s] = Update
  BY <1>1, <1>2 DEF Modes, None, Update
<1> QED BY <1>1, <1>3, <1>4

-----------------------------------------------------------------------------
(* The actions, one lemma each.                                             *)

\* The unlocked read promises only that the card was there.
LEMMA ReadStep ==
    ASSUME TypeOK, LocksCompatible, NEW p \in Procs, Good(p), Read(p)
    PROVE  Quiet(p)
<1> DEFINE s == card[req[p].card]
<1>1. CASE Refuse(p, "404") \/ Refuse(p, "ok")
  BY <1>1, QuietRefusal
<1>2. CASE /\ ~Missing(p, s)
           /\ seen' = [seen EXCEPT ![p] = s]
           /\ Goto(p, IF BoardMode(Op(p)) = None THEN "snap" ELSE "board", {})
           /\ UNCHANGED <<contents, held, req, tries, doomed, out>>
  <2> DEFINE where == IF BoardMode(Op(p)) = None THEN "snap" ELSE "board"
  <2>1. /\ where \in Places /\ {} \in SUBSET Rows
        /\ where \notin Late /\ where \notin Decided
        /\ pc[p] = "read" /\ pc[p] \in Early
    BY DEF Places, Late, Decided, Read, Early
  <2>2. pc'[p] = where /\ todo'[p] = {}
    BY <1>2, <2>1, GotoStep
  <2>3. /\ seen' \in [Procs -> CardRecord] /\ doomed' \in [Procs -> SUBSET Cards]
        /\ \A q \in Procs \ {p} : seen'[q] = seen[q] /\ doomed'[q] = doomed[q]
        /\ HeldType' /\ LocksCompatible' /\ held' = held
    BY <1>2, RequestFields DEF TypeOK, HeldType, LocksCompatible
  <2>4. HeldExist(p)' /\ CreationFresh(p)'
    BY <1>2, <2>1, <2>2 DEF Good, HeldExist, CreationFresh, Existing, Live, Op, contents
  <2>5. CardBorn(p)' /\ CardComing(p)' /\ CardHeld(p)'
    BY <1>2, <2>1, <2>2 DEF CardBorn, CardComing, CardHeld, Op, Missing, contents
  <2>6. BoardHeld(p)'
    BY <1>2, <2>2, <2>3, RowFacts DEF BoardHeld, BoardMode, Op, HeldType, Modes, None, Update
  <2>7. EarlyModes(p)'
    BY <1>2, <2>1 DEF Good, EarlyModes, Op
  <2>8. /\ ColumnsComing(p)' /\ ColumnsHeld(p)' /\ LaneThere(p)' /\ MembersHeld(p)'
        /\ CascadeReady(p)' /\ ForeignKeysComing(p)'
    BY <2>1, <2>2 DEF ColumnsComing, ColumnsHeld, LaneThere, MembersHeld, CascadeReady, ForeignKeysComing, Late
  <2>9. Good(p)'
    BY <2>4, <2>5, <2>6, <2>7, <2>8 DEF Good
  <2> QED BY <1>2, <2>1, <2>3, <2>9, LocalStep
<1> QED BY <1>1, <1>2 DEF Read

\* Taking the board row first, or answering 404 without it.
LEMMA LockBoardStep ==
    ASSUME TypeOK, LocksCompatible, NEW p \in Procs, Good(p), LockBoard(p)
    PROVE  Quiet(p)
<1>1. CASE Refuse(p, "404")
  BY <1>1, QuietRefusal
<1>2. CASE ~Refuse(p, "404")
  <2>1. /\ pc[p] = "board" /\ up
        /\ Take(p, BoardRow, BoardMode(Op(p)))
        /\ UNCHANGED <<contents, req, seen, tries, doomed, out>>
        /\ \/ /\ Op(p) \in {"create", "reorderColumns"}
              /\ Goto(p, "columns", {OfColumn(k) : k \in ColumnsToLock(p, seen[p])})
           \/ Op(p) = "reorderLanes" /\ Goto(p, "write", {OfLane(l) : l \in lanes})
           \/ Op(p) = "addColumn" /\ Goto(p, "fkey", {})
           \/ /\ Op(p) \notin {"create", "reorderColumns", "reorderLanes", "addColumn"}
              /\ Goto(p, "snap", {})
    BY <1>2 DEF LockBoard
  <2>2. /\ HeldType' /\ LocksCompatible' /\ HeldExist(p)'
        /\ \A q \in Procs \ {p} : held'[q] = held[q]
        /\ \A s \in Rows \ {BoardRow} : held'[p][s] = held[p][s]
        /\ held'[p][BoardRow] >= BoardMode(Op(p))
    BY <2>1, RowFacts, ModeTypes, ExistingFacts, TakeKeeps DEF Good, TypeOK, ContentsTypeOK
  <2>3. PICK where \in {"columns", "write", "fkey", "snap"}, rows \in SUBSET Rows :
          /\ Goto(p, where, rows)
          /\ where = "columns" => /\ Op(p) \in {"create", "reorderColumns"}
                                  /\ rows \subseteq {OfColumn(k) : k \in Columns}
          /\ where = "write" => Op(p) = "reorderLanes"
          /\ where = "fkey" => Op(p) = "addColumn" /\ rows = {}
    <3>1. /\ {OfColumn(k) : k \in ColumnsToLock(p, seen[p])} \subseteq {OfColumn(k) : k \in Columns}
          /\ {OfColumn(k) : k \in Columns} \subseteq Rows
          /\ {OfLane(l) : l \in lanes} \subseteq Rows
      BY RequestFields, RowTypes, RowFacts
    <3> QED BY <2>1, <3>1
  <2>4. pc'[p] = where /\ todo'[p] = rows /\ where \in Places
    BY <2>3, GotoStep DEF Places
  <2>5. /\ req' = req /\ card' = card /\ cols' = cols /\ lanes' = lanes /\ up' = up
        /\ seen' = seen /\ doomed' = doomed
    BY <2>1 DEF contents
  <2>6. Op(p) \notin CardOps \/ (where = "snap" /\ where \notin Late /\ where \notin Decided)
    BY <2>3 DEF CardOps, Late, Decided
  <2>7. CreationFresh(p)' /\ CardBorn(p)' /\ CardComing(p)' /\ CardHeld(p)'
    BY <2>1, <2>3, <2>4, <2>5, <2>6
       DEF Good, CreationFresh, CardBorn, CardComing, CardHeld, Op
  <2>8. BoardHeld(p)'
    BY <2>2, <2>5 DEF BoardHeld, Op
  <2>9. EarlyModes(p)'
    BY <2>1, <2>2, <2>5, RowFacts DEF Good, EarlyModes, Op, Early, Places, Late
  <2>10. ColumnsComing(p)' /\ ForeignKeysComing(p)'
    BY <2>3, <2>4, <2>5 DEF ColumnsComing, ForeignKeysComing, ForeignKeys, Creations, CardOps,
                           Cascades, Op
  <2>11. where \in Late => Op(p) \in {"reorderLanes", "addColumn"}
    BY <2>3 DEF Late
  <2>12. ColumnsHeld(p)' /\ LaneThere(p)' /\ MembersHeld(p)' /\ CascadeReady(p)'
    BY <2>4, <2>5, <2>11 DEF ColumnsHeld, LaneThere, MembersHeld, CascadeReady, EntryColumns,
                           Members, Container, Cells, Creations, Cascades, Op
  <2>13. Good(p)'
    BY <2>2, <2>7, <2>8, <2>9, <2>10, <2>12 DEF Good
  <2>14. /\ seen' \in [Procs -> CardRecord] /\ doomed' \in [Procs -> SUBSET Cards]
         /\ UNCHANGED <<contents, req, tries, out>>
    BY <2>1, <2>5 DEF TypeOK
  <2> QED BY <2>2, <2>3, <2>4, <2>5, <2>13, <2>14, LocalStep
<1> QED BY <1>1, <1>2

\* The card rows to lock include the request's own card while it exists.
LEMMA SnapshotCardsStep ==
    ASSUME TypeOK, LocksCompatible, NEW p \in Procs, Good(p), SnapshotCards(p)
    PROVE  Quiet(p)
<1> DEFINE named == IF Op(p) \in CardOps THEN {req[p].card} \cap Live ELSE {}
           rows  == {OfCard(c) : c \in named \cup Members(p, seen[p])}
<1>1. /\ pc[p] = "snap" /\ Goto(p, "cards", rows)
      /\ UNCHANGED <<contents, held, req, seen, tries, doomed, out>>
  BY DEF SnapshotCards
<1>2. rows \in SUBSET Rows /\ "cards" \in Places
  BY RequestFields, RowTypes, RowFacts DEF Places
<1>3. pc'[p] = "cards" /\ todo'[p] = rows
  BY <1>1, <1>2, GotoStep
<1>4. /\ req' = req /\ card' = card /\ cols' = cols /\ lanes' = lanes /\ up' = up
      /\ seen' = seen /\ doomed' = doomed /\ held' = held
  BY <1>1 DEF contents
<1>5. /\ HeldType' /\ LocksCompatible' /\ seen' \in [Procs -> CardRecord]
      /\ doomed' \in [Procs -> SUBSET Cards]
  BY <1>4 DEF TypeOK, HeldType, LocksCompatible
<1>6. HeldExist(p)' /\ CreationFresh(p)' /\ CardBorn(p)' /\ BoardHeld(p)'
  BY <1>1, <1>3, <1>4 DEF Good, HeldExist, CreationFresh, CardBorn, BoardHeld, Existing, Live, Op
<1>7. CardComing(p)'
  BY <1>3, <1>4 DEF CardComing, Live, Op
<1>8. CardHeld(p)' /\ EarlyModes(p)'
  BY <1>1, <1>3, <1>4 DEF Good, CardHeld, EarlyModes, Decided, Late, Early, Places, Op
<1>9. /\ ColumnsComing(p)' /\ ColumnsHeld(p)' /\ LaneThere(p)' /\ MembersHeld(p)'
      /\ CascadeReady(p)' /\ ForeignKeysComing(p)'
  BY <1>3 DEF ColumnsComing, ColumnsHeld, LaneThere, MembersHeld, CascadeReady, ForeignKeysComing, Late
<1>10. Good(p)'
  BY <1>6, <1>7, <1>8, <1>9 DEF Good
<1> HIDE DEF rows
<1> QED BY <1>1, <1>2, <1>4, <1>5, <1>10, LocalStep

\* Locking one card row of the statement.
LEMMA LockCardStep ==
    ASSUME TypeOK, LocksCompatible, NEW p \in Procs, Good(p), LockCard(p)
    PROVE  Quiet(p)
<1>1. PICK r \in FirstByPk(todo[p]) :
        /\ IF r \in Existing THEN Take(p, r, CardMode(Op(p))) ELSE UNCHANGED held
        /\ Goto(p, "cards", todo[p] \ {r})
  BY DEF LockCard
<1>2. /\ pc[p] = "cards"
      /\ UNCHANGED <<contents, req, seen, tries, doomed, out>>
  BY DEF LockCard
<1>3. r \in todo[p] /\ r \in Rows /\ (todo[p] \ {r}) \in SUBSET Rows /\ "cards" \in Places
  BY <1>1 DEF FirstByPk, TypeOK, Places
<1>4. pc'[p] = "cards" /\ todo'[p] = todo[p] \ {r}
  BY <1>1, <1>3, GotoStep
<1>5. /\ req' = req /\ card' = card /\ cols' = cols /\ lanes' = lanes /\ up' = up
      /\ seen' = seen /\ doomed' = doomed
      /\ seen' \in [Procs -> CardRecord] /\ doomed' \in [Procs -> SUBSET Cards]
  BY <1>2 DEF contents, TypeOK
<1>6. /\ HeldType' /\ LocksCompatible' /\ HeldExist(p)'
      /\ \A q \in Procs \ {p} : held'[q] = held[q]
      /\ \A s \in Rows : held'[p][s] >= held[p][s]
      /\ \A s \in Rows : held'[p][s] \in {held[p][s], CardMode(Op(p))}
      /\ r \in Existing => held'[p][r] >= CardMode(Op(p))
      /\ \A s \in Rows : held[p][s] \in Nat /\ held'[p][s] \in Nat
  BY <1>1, <1>2, <1>3, ModeTypes, TakeIfThere DEF Good
<1>7. CreationFresh(p)' /\ CardBorn(p)'
  BY <1>2, <1>5, <1>4 DEF Good, CreationFresh, CardBorn, Op
<1>8. BoardHeld(p)'
  <2>1. BoardMode(Op(p)) \in Nat
    BY ModeTypes DEF Modes, None, Update
  <2> QED BY <1>2, <1>4, <1>5, <1>6, <2>1, RowFacts DEF Good, BoardHeld, Op
<1>9. CardComing(p)'
  <2> SUFFICES ASSUME Op(p) \in CardOps, req[p].card \in Live, OfCard(req[p].card) \notin todo'[p]
               PROVE  held'[p][OfCard(req[p].card)] >= CardMode(Op(p))
    BY <1>4, <1>5 DEF CardComing, Op, Live
  <2>1. OfCard(req[p].card) \in Rows /\ OfCard(req[p].card) \in Existing
    BY RequestFields, RowFacts, ExistingFacts DEF TypeOK, ContentsTypeOK
  <2>2. CASE OfCard(req[p].card) = r
    BY <1>6, <2>1, <2>2
  <2>3. CASE OfCard(req[p].card) # r
    <3>1. held[p][OfCard(req[p].card)] >= CardMode(Op(p))
      BY <1>2, <1>4, <2>3 DEF Good, CardComing
    <3>2. CardMode(Op(p)) \in Nat
      BY ModeTypes DEF NoKeyUpdate, Update
    <3> QED BY <1>6, <2>1, <3>1, <3>2
  <2> QED BY <2>2, <2>3
<1>10. EarlyModes(p)'
  <2>1. pc[p] \in Early
    BY <1>2 DEF Early, Places, Late
  <2>2. CardMode(Op(p)) \in {NoKeyUpdate, Update}
    BY ModeTypes
  <2>3. Op(p) \in Writers => CardMode(Op(p)) = Update
    BY DEF Writers, Cascades, CardMode
  <2> QED BY <1>5, <1>6, <2>1, <2>2, <2>3, RowFacts DEF Good, EarlyModes, Op
<1>11. /\ CardHeld(p)' /\ ColumnsComing(p)' /\ ColumnsHeld(p)' /\ LaneThere(p)' /\ MembersHeld(p)'
       /\ CascadeReady(p)' /\ ForeignKeysComing(p)'
  BY <1>4 DEF CardHeld, ColumnsComing, ColumnsHeld, LaneThere, MembersHeld, CascadeReady,
              ForeignKeysComing, Late, Decided
<1>12. Good(p)'
  BY <1>6, <1>7, <1>8, <1>9, <1>10, <1>11 DEF Good
<1> QED BY <1>1, <1>2, <1>3, <1>5, <1>6, <1>12, LocalStep

\* With its card locked, a request knows the card as it is in the table.
LEMMA CardsLockedStep ==
    ASSUME TypeOK, LocksCompatible, Housed, NEW p \in Procs, Good(p), CardsLocked(p)
    PROVE  Quiet(p)
<1> DEFINE s == LockedRow(p)
<1>1. CASE Refuse(p, "404") \/ Refuse(p, "ok")
  BY <1>1, QuietRefusal
<1>2. CASE Retry(p)
  BY <1>2, QuietRetry DEF CardsLocked
<1>3. CASE /\ ~Missing(p, s)
           /\ seen' = [seen EXCEPT ![p] = s]
           /\ IF Op(p) \in {"update", "block", "archive", "delete"} THEN Goto(p, "write", {})
              ELSE Goto(p, "columns", {OfColumn(k) : k \in ColumnsToLock(p, s)})
           /\ UNCHANGED <<contents, held, req, tries, doomed, out>>
  <2>1. /\ pc[p] = "cards" /\ todo[p] = {}
        /\ s \in CardRecord
        /\ Op(p) \in CardOps => s = card[req[p].card]
    BY RequestFields DEF CardsLocked, LockedRow
  <2>2. PICK where \in {"write", "columns"}, rows \in SUBSET Rows :
          /\ Goto(p, where, rows)
          /\ where = "write" => Op(p) \in {"update", "block", "archive", "delete"}
          /\ where = "columns" => rows = {OfColumn(k) : k \in ColumnsToLock(p, s)}
    <3>1. {OfColumn(k) : k \in ColumnsToLock(p, s)} \in SUBSET Rows
      BY <2>1, RowTypes, RowFacts
    <3> QED BY <1>3, <3>1
  <2>3. pc'[p] = where /\ todo'[p] = rows /\ where \in Places
    BY <2>2, GotoStep DEF Places
  <2>4. /\ req' = req /\ card' = card /\ cols' = cols /\ lanes' = lanes /\ up' = up
        /\ held' = held /\ doomed' = doomed /\ seen'[p] = s
        /\ \A q \in Procs \ {p} : seen'[q] = seen[q]
        /\ HeldType' /\ LocksCompatible'
        /\ seen' \in [Procs -> CardRecord] /\ doomed' \in [Procs -> SUBSET Cards]
    BY <1>3, <2>1 DEF contents, TypeOK, HeldType, LocksCompatible
  <2>5. HeldExist(p)' /\ CreationFresh(p)' /\ CardBorn(p)' /\ BoardHeld(p)' /\ EarlyModes(p)'
    BY <2>1, <2>3, <2>4 DEF Good, HeldExist, CreationFresh, CardBorn, BoardHeld, EarlyModes,
                            Existing, Live, Op, Early, Places, Late
  <2>6. CardComing(p)' /\ ForeignKeysComing(p)'
    BY <2>3 DEF CardComing, ForeignKeysComing
  <2>7. CardHeld(p)'
    <3> SUFFICES ASSUME Op(p) \in CardOps
                 PROVE  /\ req[p].card \in Live
                        /\ held[p][OfCard(req[p].card)] >= CardMode(Op(p))
      BY <2>1, <2>4 DEF CardHeld, Op, Live
    <3>1. req[p].card \in Live
      BY <1>3, <2>1, RequestFields DEF Missing, Live
    <3> QED BY <2>1, <3>1 DEF Good, CardComing
  <2>8. ColumnsComing(p)'
    <3> SUFFICES ASSUME where = "columns"
                 PROVE  /\ rows \subseteq {OfColumn(k) : k \in Columns}
                        /\ \A k \in EntryColumns(p)' \cap cols :
                              (Op(p) \in CardOps /\ k = s.col) \/ Op(p) \in Cascades =>
                                  OfColumn(k) \in rows
      BY <2>3, <2>4 DEF ColumnsComing, Op
    <3>1. rows \subseteq {OfColumn(k) : k \in Columns}
      BY <2>1, <2>2, RowTypes
    <3>2. ASSUME NEW k \in EntryColumns(p)' \cap cols,
                 (Op(p) \in CardOps /\ k = s.col) \/ Op(p) \in Cascades
          PROVE  k \in ColumnsToLock(p, s)
      BY <2>4, <3>2 DEF EntryColumns, ColumnsToLock, CellChange, Target, Op, Creations, CardOps,
                        Cascades, Targeting
    <3> QED BY <2>2, <3>1, <3>2
  <2>9. where \in Late => where = "write" /\ Op(p) \in {"update", "block", "archive", "delete"}
    BY <2>2 DEF Late
  <2>10. ColumnsHeld(p)' /\ LaneThere(p)' /\ MembersHeld(p)' /\ CascadeReady(p)'
    BY <2>3, <2>4, <2>9 DEF ColumnsHeld, LaneThere, MembersHeld, CascadeReady, EntryColumns,
                           Members, Container, Cells, Creations, Cascades, Op
  <2>11. Good(p)'
    BY <2>5, <2>6, <2>7, <2>8, <2>10 DEF Good
  <2> HIDE DEF s
  <2> QED BY <1>3, <2>2, <2>3, <2>4, <2>11, LocalStep
<1> QED BY <1>1, <1>2, <1>3 DEF CardsLocked

\* Locking one column row of the statement.
LEMMA LockColumnStep ==
    ASSUME TypeOK, LocksCompatible, NEW p \in Procs, Good(p), LockColumn(p)
    PROVE  Quiet(p)
<1>1. PICK r \in FirstByPk(todo[p]) :
        /\ IF r \in Existing THEN Take(p, r, ColumnMode(Op(p))) ELSE UNCHANGED held
        /\ Goto(p, "columns", todo[p] \ {r})
  BY DEF LockColumn
<1>2. /\ pc[p] = "columns"
      /\ UNCHANGED <<contents, req, seen, tries, doomed, out>>
  BY DEF LockColumn
<1>3. r \in todo[p] /\ r \in Rows /\ (todo[p] \ {r}) \in SUBSET Rows /\ "columns" \in Places
  BY <1>1 DEF FirstByPk, TypeOK, Places
<1>4. pc'[p] = "columns" /\ todo'[p] = todo[p] \ {r}
  BY <1>1, <1>3, GotoStep
<1>5. /\ req' = req /\ card' = card /\ cols' = cols /\ lanes' = lanes /\ up' = up
      /\ seen' = seen /\ doomed' = doomed
      /\ seen' \in [Procs -> CardRecord] /\ doomed' \in [Procs -> SUBSET Cards]
  BY <1>2 DEF contents, TypeOK
<1>6. /\ HeldType' /\ LocksCompatible' /\ HeldExist(p)'
      /\ \A q \in Procs \ {p} : held'[q] = held[q]
      /\ \A s \in Rows : held'[p][s] >= held[p][s]
      /\ \A s \in Rows : held'[p][s] \in {held[p][s], ColumnMode(Op(p))}
      /\ r \in Existing => held'[p][r] >= ColumnMode(Op(p))
      /\ \A s \in Rows : held[p][s] \in Nat /\ held'[p][s] \in Nat
  BY <1>1, <1>2, <1>3, ModeTypes, TakeIfThere DEF Good
<1>7. PICK c \in Columns : r = OfColumn(c)
  BY <1>2, <1>3 DEF Good, ColumnsComing
<1>8. \A s \in Rows \ {r} : held'[p][s] = held[p][s]
  <2>1. CASE r \in Existing
    BY <1>1, <1>2, <1>3, <2>1, ModeTypes, TakeKeeps DEF Good
  <2>2. CASE r \notin Existing
    BY <1>1, <2>2
  <2> QED BY <2>1, <2>2
<1>9. CreationFresh(p)' /\ CardBorn(p)'
  BY <1>2, <1>4, <1>5 DEF Good, CreationFresh, CardBorn, Op
<1>10. BoardHeld(p)'
  BY <1>2, <1>5, <1>7, <1>8, RowFacts DEF Good, BoardHeld, Op
<1>11. CardHeld(p)'
  BY <1>2, <1>5, <1>7, <1>8, RequestFields, RowFacts DEF Good, CardHeld, Op, Live, Decided
<1>12. EarlyModes(p)'
  <2>1. pc[p] \in Early
    BY <1>2 DEF Early, Places, Late
  <2> QED BY <1>5, <1>6, <1>7, <1>8, <2>1, ModeTypes, RowFacts DEF Good, EarlyModes, Op
<1>13. ColumnsComing(p)'
  <2> SUFFICES ASSUME NEW k \in EntryColumns(p) \cap cols,
                      (Op(p) \in CardOps /\ k = seen[p].col) \/ Op(p) \in Cascades,
                      OfColumn(k) \notin todo'[p]
               PROVE  held'[p][OfColumn(k)] >= NoKeyUpdate
    BY <1>2, <1>4, <1>5 DEF Good, ColumnsComing, Op, EntryColumns, CellChange, Target
  <2>1. k \in Columns /\ OfColumn(k) \in Rows /\ OfColumn(k) \in Existing
    BY RowFacts, ExistingFacts DEF TypeOK, ContentsTypeOK
  <2>2. CASE OfColumn(k) = r
    <3>1. held'[p][r] >= ColumnMode(Op(p)) /\ held'[p][r] \in Nat
      BY <1>3, <1>6, <2>1, <2>2
    <3> QED BY <2>2, <3>1, ModeTypes DEF NoKeyUpdate, Update
  <2>3. CASE OfColumn(k) # r
    BY <1>2, <1>4, <1>8, <2>1, <2>3 DEF Good, ColumnsComing
  <2> QED BY <2>2, <2>3
<1>14. /\ CardComing(p)' /\ ColumnsHeld(p)' /\ LaneThere(p)' /\ MembersHeld(p)'
       /\ CascadeReady(p)' /\ ForeignKeysComing(p)'
  BY <1>4 DEF CardComing, ColumnsHeld, LaneThere, MembersHeld, CascadeReady, ForeignKeysComing, Late
<1>15. Good(p)'
  BY <1>6, <1>9, <1>10, <1>11, <1>12, <1>13, <1>14 DEF Good
<1> QED BY <1>1, <1>2, <1>3, <1>5, <1>6, <1>15, LocalStep

\* After the re-check every member of the cells or container is held.
LEMMA ColumnsLockedStep ==
    ASSUME TypeOK, LocksCompatible, Housed, NEW p \in Procs, Good(p), ColumnsLocked(p)
    PROVE  Quiet(p)
<1>1. CASE Refuse(p, "404")
  BY <1>1, QuietRefusal
<1>2. CASE Retry(p)
  BY <1>2, QuietRetry DEF ColumnsLocked
<1>3. CASE /\ ~Newcomer(p) /\ ~ContainerGone(p)
           /\ doomed' = [doomed EXCEPT ![p] = Container(p)]
           /\ IF Op(p) \in Cascades THEN Goto(p, "write", NotYetHeld(p, CascadeRows(p)))
              ELSE IF Op(p) = "reorderColumns"
                   THEN Goto(p, "write", NotYetHeld(p, {OfColumn(k) : k \in cols}))
              ELSE Goto(p, IF LaneApplies(p) THEN "lane" ELSE "check", {})
           /\ UNCHANGED <<contents, held, req, seen, tries, out>>
  <2>1. pc[p] = "columns" /\ todo[p] = {}
    BY DEF ColumnsLocked
  <2>2. PICK where \in {"write", "lane", "check"}, rows \in SUBSET Rows :
          /\ Goto(p, where, rows)
          /\ Op(p) \in Cascades => where = "write" /\ rows = NotYetHeld(p, CascadeRows(p))
    <3>1. NotYetHeld(p, CascadeRows(p)) \in SUBSET Rows
      BY RequestFields, RowTypes DEF NotYetHeld
    <3>2. NotYetHeld(p, {OfColumn(k) : k \in cols}) \in SUBSET Rows
      BY RequestFields, RowTypes, RowFacts DEF NotYetHeld
    <3> QED BY <1>3, <3>1, <3>2
  <2>3. pc'[p] = where /\ todo'[p] = rows /\ where \in Places
    BY <2>2, GotoStep DEF Places
  <2>4. /\ req' = req /\ card' = card /\ cols' = cols /\ lanes' = lanes /\ up' = up
        /\ held' = held /\ seen' = seen /\ doomed'[p] = Container(p)
        /\ \A q \in Procs \ {p} : doomed'[q] = doomed[q]
        /\ HeldType' /\ LocksCompatible'
        /\ seen' \in [Procs -> CardRecord] /\ doomed' \in [Procs -> SUBSET Cards]
    BY <1>3, RequestFields, RowTypes DEF contents, TypeOK, HeldType, LocksCompatible
  <2>5. \A r \in Rows : held[p][r] \in Nat
    BY DEF TypeOK, Modes, None, Update
  <2>6. HeldExist(p)' /\ CreationFresh(p)' /\ CardBorn(p)' /\ BoardHeld(p)' /\ CardHeld(p)'
    BY <2>1, <2>3, <2>4 DEF Good, HeldExist, CreationFresh, CardBorn, BoardHeld, CardHeld,
                            Existing, Live, Op, Decided, Late
  <2>7. CardComing(p)' /\ EarlyModes(p)' /\ ColumnsComing(p)' /\ ForeignKeysComing(p)'
    BY <2>3 DEF CardComing, EarlyModes, ColumnsComing, ForeignKeysComing, Early, Late
  <2>8. pc[p] \in Early /\ pc[p] \in Decided
    BY <2>1 DEF Early, Decided, Places, Late
  <2>9. \A k \in Columns : held[p][OfColumn(k)] # None => held[p][OfColumn(k)] >= NoKeyUpdate
    BY <2>5, <2>8, RowFacts DEF Good, EarlyModes, NoKeyUpdate, Update
  <2>10. Op(p) \in CardOps => seen[p].col \in cols /\ seen[p].lane \in lanes
    BY <2>8 DEF Good, CardHeld, Housed
  <2>11. ASSUME NEW k \in EntryColumns(p)
         PROVE  held[p][OfColumn(k)] >= NoKeyUpdate
    <3>1. CASE Op(p) \in Cascades
      <4>1. k \in cols
        BY <1>3, <2>11, <3>1 DEF ContainerGone, TargetGone, EntryColumns, Cascades, Creations
      <4> QED BY <2>1, <2>11, <3>1, <4>1 DEF Good, ColumnsComing
    <3>2. CASE Op(p) \in CardOps /\ k = seen[p].col
      BY <2>1, <2>10, <2>11, <3>2 DEF Good, ColumnsComing
    <3>3. CASE Op(p) \notin Cascades /\ k = req[p].col
      <4>1. Op(p) \in Targeting /\ (Op(p) = "admin" => CellChange(p, seen[p]))
        BY <2>11, <3>3 DEF EntryColumns, Targeting, Cascades, Creations
      <4>2. held[p][OfColumn(k)] # None
        BY <1>3, <3>3, <4>1 DEF ContainerGone, ColumnNotLocked
      <4> QED BY <2>9, <3>3, <4>2, RequestFields
    <3> QED BY <2>11, <3>1, <3>2, <3>3 DEF EntryColumns, Cascades, Creations, CardOps
  <2>12. ColumnsHeld(p)'
    BY <2>4, <2>11 DEF ColumnsHeld, EntryColumns, CellChange, Target, Op
  <2>13. LaneThere(p)'
    <3>1. Op(p) \in Creations \/ (Op(p) \in {"move", "admin"} /\ CellChange(p, seen[p]))
          => req[p].lane \in lanes
      BY <1>3, <2>10 DEF ContainerGone, CardOps
    <3> QED BY <2>4, <3>1 DEF LaneThere, CellChange, Target, Op
  <2>14. MembersHeld(p)'
    <3> SUFFICES ASSUME NEW c \in Members(p, seen[p])
                 PROVE  held[p][OfCard(c)] = Update
      BY <2>4 DEF MembersHeld, Members, Container, Cells, Target, InCell, InColumn, InLane, Live, Op
    <3>1. held[p][OfCard(c)] # None /\ c \in Cards
      BY <1>3, RequestFields, RowTypes DEF Newcomer
    <3>2. Op(p) \in Writers
      BY DEF Members, Container, Cells, Writers, Cascades
    <3> QED BY <2>8, <3>1, <3>2 DEF Good, EarlyModes
  <2>15. CascadeReady(p)'
    <3> SUFFICES ASSUME Op(p) \in Cascades
                 PROVE  /\ where = "write"
                        /\ ~TargetGone(p)
                        /\ \A r \in CascadeRows(p) : r \in rows \/ held[p][r] >= WriteMode(p, r)
      BY <2>3, <2>4 DEF CascadeReady, Op, Container, CascadeRows, WriteMode, TargetGone,
                        InColumn, InLane, Live
    <3>1. where = "write" /\ rows = NotYetHeld(p, CascadeRows(p)) /\ ~TargetGone(p)
      BY <1>3, <2>2 DEF ContainerGone
    <3>2. ASSUME NEW r \in CascadeRows(p), ~(held[p][r] < WriteMode(p, r))
          PROVE  held[p][r] >= WriteMode(p, r)
      <4>1. held[p][r] \in Nat
        BY <2>5, RequestFields, RowTypes
      <4> QED BY <3>2, <4>1, ModeTypes DEF NoKeyUpdate, Update
    <3> QED BY <3>1, <3>2 DEF NotYetHeld
  <2>16. Good(p)'
    BY <2>6, <2>7, <2>12, <2>13, <2>14, <2>15 DEF Good
  <2> QED BY <1>3, <2>2, <2>3, <2>4, <2>16, LocalStep
<1> QED BY <1>1, <1>2, <1>3 DEF ColumnsLocked

\* After the re-check, locks are only added and nothing else changes: what the
\* locks guarantee goes on being guaranteed.
LEMMA LateKept ==
    ASSUME TypeOK, NEW p \in Procs, Good(p), pc[p] \in Late, pc'[p] \in Late,
           UNCHANGED <<contents, req, seen, doomed>>, HeldExist(p)',
           \A s \in Rows : held[p][s] \in Nat /\ held'[p][s] \in Nat,
           \A s \in Rows : held'[p][s] >= held[p][s],
           \A s \in Rows : held[p][s] = Update => held'[p][s] = Update,
           CascadeReady(p)', ForeignKeysComing(p)'
    PROVE  Good(p)'
<1>1. /\ req' = req /\ card' = card /\ cols' = cols /\ lanes' = lanes /\ up' = up
      /\ seen' = seen /\ doomed' = doomed
  BY DEF contents
<1>2. /\ pc[p] \notin {"read", "board", "done", "cards", "columns"} /\ pc[p] \in Decided
      /\ pc'[p] \notin {"read", "board", "done", "cards", "columns"} /\ pc'[p] \in Decided
  BY DEF Late, Decided
<1>3. CreationFresh(p)' /\ CardBorn(p)' /\ LaneThere(p)'
  BY <1>1, <1>2 DEF Good, CreationFresh, CardBorn, LaneThere, CellChange, Target, Op
<1>4. BoardHeld(p)'
  <2>1. BoardMode(Op(p)) \in Nat /\ held[p][BoardRow] >= BoardMode(Op(p))
    BY <1>2, ModeTypes DEF Good, BoardHeld, Modes, None, Update
  <2> QED BY <1>1, <2>1, RowFacts DEF BoardHeld, Op
<1>5. CardHeld(p)'
  <2> SUFFICES ASSUME Op(p) \in CardOps
               PROVE  held'[p][OfCard(req[p].card)] >= CardMode(Op(p))
    BY <1>1, <1>2 DEF Good, CardHeld, Op, Live
  <2>1. held[p][OfCard(req[p].card)] >= CardMode(Op(p)) /\ CardMode(Op(p)) \in Nat
    BY <1>2, ModeTypes DEF Good, CardHeld, NoKeyUpdate, Update
  <2> QED BY <2>1, RequestFields, RowFacts
<1>6. CardComing(p)' /\ EarlyModes(p)' /\ ColumnsComing(p)'
  BY <1>2 DEF CardComing, EarlyModes, ColumnsComing, Early
<1>7. ColumnsHeld(p)'
  <2> SUFFICES ASSUME NEW k \in EntryColumns(p)
               PROVE  held'[p][OfColumn(k)] >= NoKeyUpdate
    BY <1>1 DEF ColumnsHeld, EntryColumns, CellChange, Target, Op
  <2>1. held[p][OfColumn(k)] >= NoKeyUpdate
    BY DEF Good, ColumnsHeld
  <2>2. OfColumn(k) \in Rows
    BY RequestFields, RowFacts DEF EntryColumns, CardRecord, TypeOK, ContentsTypeOK
  <2> QED BY <2>1, <2>2 DEF NoKeyUpdate
<1>8. MembersHeld(p)'
  <2> SUFFICES ASSUME NEW c \in Members(p, seen[p])
               PROVE  held'[p][OfCard(c)] = Update
    BY <1>1 DEF MembersHeld, Members, Container, Cells, Target, InCell, InColumn, InLane, Live, Op
  <2> QED BY RequestFields, RowTypes, RowFacts DEF Good, MembersHeld
<1> QED BY <1>3, <1>4, <1>5, <1>6, <1>7, <1>8 DEF Good

\* Locking the swimlane row before its limit is counted.
LEMMA LockLaneStep ==
    ASSUME TypeOK, LocksCompatible, NEW p \in Procs, Good(p), LockLane(p)
    PROVE  Quiet(p)
<1> DEFINE l == Target(p, seen[p])[2]
<1>1. CASE Refuse(p, "404")
  BY <1>1, QuietRefusal
<1>2. CASE /\ l \in lanes
           /\ Take(p, OfLane(l), NoKeyUpdate)
           /\ Goto(p, "check", {})
           /\ UNCHANGED <<contents, req, seen, tries, doomed, out>>
  <2>1. OfLane(l) \in Rows /\ OfLane(l) \in Existing
    BY <1>2, RowFacts, ExistingFacts DEF TypeOK, ContentsTypeOK
  <2>2. /\ HeldType' /\ LocksCompatible' /\ HeldExist(p)'
        /\ \A q \in Procs \ {p} : held'[q] = held[q]
        /\ \A s \in Rows : held[p][s] \in Nat /\ held'[p][s] \in Nat
        /\ \A s \in Rows : held'[p][s] >= held[p][s]
        /\ \A s \in Rows : held[p][s] = Update => held'[p][s] = Update
    <3> HIDE DEF l
    <3>1. IF OfLane(l) \in Existing THEN Take(p, OfLane(l), NoKeyUpdate) ELSE UNCHANGED held
      BY <1>2, <2>1
    <3> QED BY <1>2, <2>1, <3>1, ModeTypes, TakeIfThere DEF Good
  <2>3. pc[p] = "lane" /\ pc'[p] = "check" /\ {"lane", "check"} \subseteq Late /\ "check" \in Places
    BY <1>2, GotoStep DEF LockLane, Late, Places
  <2>4. CascadeReady(p)' /\ ForeignKeysComing(p)'
    BY <1>2, <2>3 DEF Good, CascadeReady, ForeignKeysComing, Op
  <2>5. UNCHANGED <<contents, req, seen, doomed>>
    BY <1>2
  <2>6. Good(p)'
    BY <2>2, <2>3, <2>4, <2>5, LateKept
  <2>7. seen' \in [Procs -> CardRecord] /\ doomed' \in [Procs -> SUBSET Cards]
    BY <2>5 DEF TypeOK
  <2> HIDE DEF l
  <2> QED BY <1>2, <2>2, <2>3, <2>6, <2>7, LocalStep
<1> QED BY <1>1, <1>2 DEF LockLane

\* The limit check decides; it gives up no lock.
LEMMA CheckStep ==
    ASSUME TypeOK, LocksCompatible, NEW p \in Procs, Good(p), Check(p)
    PROVE  Quiet(p)
<1> DEFINE rows == NotYetHeld(p, {OfCard(c) : c \in Members(p, seen[p])})
<1>1. CASE Refuse(p, "409")
  BY <1>1, QuietRefusal
<1>2. CASE /\ Goto(p, "write", rows)
           /\ UNCHANGED <<contents, held, req, seen, tries, doomed, out>>
  <2>1. rows \in SUBSET Rows
    BY RequestFields, RowTypes, RowFacts DEF NotYetHeld
  <2> HIDE DEF rows
  <2>2. pc[p] = "check" /\ pc'[p] = "write" /\ {"check", "write"} \subseteq Late /\ "write" \in Places
    BY <1>2, <2>1, GotoStep DEF Check, Late, Places
  <2>3. CascadeReady(p)' /\ ForeignKeysComing(p)'
    BY <1>2, <2>2 DEF Good, CascadeReady, ForeignKeysComing, Op
  <2>4. HeldExist(p)' /\ HeldType' /\ LocksCompatible'
    BY <1>2 DEF Good, HeldExist, Existing, Live, contents, TypeOK, HeldType, LocksCompatible
  <2>5. \A s \in Rows : held[p][s] \in Nat /\ held'[p][s] \in Nat /\ held'[p][s] >= held[p][s]
    BY <1>2 DEF TypeOK, Modes, None, Update
  <2>6. held' = held /\ UNCHANGED <<contents, req, seen, doomed>>
    BY <1>2
  <2>7. Good(p)'
    BY <2>2, <2>3, <2>4, <2>5, <2>6, LateKept
  <2>8. seen' \in [Procs -> CardRecord] /\ doomed' \in [Procs -> SUBSET Cards]
    BY <2>6 DEF TypeOK
  <2> QED BY <1>2, <2>1, <2>2, <2>4, <2>6, <2>7, <2>8, LocalStep
<1> QED BY <1>1, <1>2 DEF Check

\* Every row a cascade deletes or writes is there until it does.
LEMMA CascadeRowsExist ==
    ASSUME TypeOK, NEW p \in Procs, ~TargetGone(p), Op(p) \in Cascades
    PROVE  CascadeRows(p) \subseteq Existing
<1>1. Container(p) \subseteq Live /\ Live \subseteq Cards
  BY RequestFields, RowTypes
<1> QED BY <1>1, RequestFields DEF CascadeRows, Existing, TargetGone, Cascades

\* Locking one row of a write: a cascade's rows end up in its write mode.
LEMMA WriteRowStep ==
    ASSUME TypeOK, LocksCompatible, NEW p \in Procs, Good(p), WriteRow(p)
    PROVE  Quiet(p)
<1>1. PICK r \in todo[p] :
        /\ IF r \in Existing THEN Take(p, r, WriteMode(p, r)) ELSE UNCHANGED held
        /\ Goto(p, "write", todo[p] \ {r})
  BY DEF WriteRow
<1>2. /\ pc[p] = "write"
      /\ UNCHANGED <<contents, req, seen, tries, doomed, out>>
  BY DEF WriteRow
<1>3. r \in Rows /\ (todo[p] \ {r}) \in SUBSET Rows /\ {"write"} \subseteq Places \cap Late
  BY DEF TypeOK, Places, Late
<1>4. pc'[p] = "write" /\ todo'[p] = todo[p] \ {r}
  BY <1>1, <1>3, GotoStep
<1>5. /\ HeldType' /\ LocksCompatible' /\ HeldExist(p)'
      /\ \A q \in Procs \ {p} : held'[q] = held[q]
      /\ \A s \in Rows : held[p][s] \in Nat /\ held'[p][s] \in Nat
      /\ \A s \in Rows : held'[p][s] >= held[p][s]
      /\ \A s \in Rows : held[p][s] = Update => held'[p][s] = Update
      /\ r \in Existing => held'[p][r] >= WriteMode(p, r)
  BY <1>1, <1>2, <1>3, ModeTypes, TakeIfThere DEF Good
<1>6. /\ req' = req /\ card' = card /\ cols' = cols /\ lanes' = lanes /\ up' = up
      /\ seen' = seen /\ doomed' = doomed
  BY <1>2 DEF contents
<1>7. CascadeReady(p)'
  <2> SUFFICES ASSUME Op(p) \in Cascades
               PROVE  /\ doomed[p] = Container(p)
                      /\ ~TargetGone(p)
                      /\ \A s \in CascadeRows(p) : s \in todo'[p] \/ held'[p][s] >= WriteMode(p, s)
    BY <1>4, <1>6 DEF CascadeReady, Op, Container, CascadeRows, WriteMode, TargetGone,
                      InColumn, InLane, Live
  <2>1. /\ doomed[p] = Container(p) /\ ~TargetGone(p)
        /\ \A s \in CascadeRows(p) : s \in todo[p] \/ held[p][s] >= WriteMode(p, s)
    BY <1>2, <1>3 DEF Good, CascadeReady
  <2>2. ASSUME NEW s \in CascadeRows(p), s \notin todo'[p]
        PROVE  held'[p][s] >= WriteMode(p, s)
    <3>1. s \in Existing /\ s \in Rows
      BY <2>1, CascadeRowsExist, RequestFields, RowTypes
    <3>2. CASE s = r
      BY <1>5, <3>1, <3>2
    <3>3. CASE s # r
      <4>1. held[p][s] >= WriteMode(p, s) /\ WriteMode(p, s) \in Nat
        BY <1>4, <2>1, <2>2, <3>3, ModeTypes DEF NoKeyUpdate, Update
      <4> QED BY <1>5, <3>1, <4>1
    <3> QED BY <3>2, <3>3
  <2> QED BY <2>1, <2>2
<1>8. ForeignKeysComing(p)'
  BY <1>4 DEF ForeignKeysComing
<1>9. Good(p)'
  BY <1>2, <1>3, <1>4, <1>5, <1>7, <1>8, LateKept
<1>10. seen' \in [Procs -> CardRecord] /\ doomed' \in [Procs -> SUBSET Cards]
  BY <1>6 DEF TypeOK
<1> QED BY <1>1, <1>2, <1>3, <1>5, <1>6, <1>9, <1>10, LocalStep

\* With the writes done, the foreign keys not already locked are checked.
LEMMA WritesDoneStep ==
    ASSUME TypeOK, LocksCompatible, NEW p \in Procs, Good(p), WritesDone(p)
    PROVE  Quiet(p)
<1> DEFINE rows == {r \in ForeignKeys(p) : held[p][r] = None}
<1>1. /\ pc[p] = "write" /\ todo[p] = {} /\ Goto(p, "fkey", rows)
      /\ UNCHANGED <<contents, held, req, seen, tries, doomed, out>>
  BY DEF WritesDone
<1>2. rows \in SUBSET Rows
  BY RequestFields, RowTypes
<1>3. /\ rows \subseteq ForeignKeys(p)
      /\ \A r \in ForeignKeys(p) : r \in rows \/ held[p][r] # None
  OBVIOUS
<1> HIDE DEF rows
<1>4. pc'[p] = "fkey" /\ todo'[p] = rows /\ {"write", "fkey"} \subseteq Places \cap Late
  BY <1>1, <1>2, GotoStep DEF Places, Late
<1>5. /\ req' = req /\ card' = card /\ cols' = cols /\ lanes' = lanes /\ up' = up
      /\ seen' = seen /\ doomed' = doomed /\ held' = held
  BY <1>1 DEF contents
<1>6. CascadeReady(p)'
  BY <1>1, <1>4, <1>5 DEF Good, CascadeReady, Op, Container, CascadeRows, WriteMode, TargetGone,
                          InColumn, InLane, Live
<1>7. ForeignKeysComing(p)'
  BY <1>3, <1>4, <1>5 DEF ForeignKeysComing, ForeignKeys, CellChange, Target, Op
<1>8. HeldExist(p)' /\ HeldType' /\ LocksCompatible'
  BY <1>5 DEF Good, HeldExist, Existing, Live, TypeOK, HeldType, LocksCompatible
<1>9. \A s \in Rows : held[p][s] \in Nat /\ held'[p][s] \in Nat /\ held'[p][s] >= held[p][s]
  BY <1>5 DEF TypeOK, Modes, None, Update
<1>10. Good(p)'
  BY <1>1, <1>4, <1>5, <1>6, <1>7, <1>8, <1>9, LateKept
<1>11. seen' \in [Procs -> CardRecord] /\ doomed' \in [Procs -> SUBSET Cards]
  BY <1>5 DEF TypeOK
<1> QED BY <1>1, <1>2, <1>4, <1>5, <1>8, <1>10, <1>11, LocalStep

\* The rows named by the new foreign keys are there when they are checked.
LEMMA ForeignKeysExist ==
    ASSUME TypeOK, Housed, NEW p \in Procs, Good(p), pc[p] = "fkey"
    PROVE  ForeignKeys(p) \subseteq Existing
<1>1. "fkey" \in Late /\ "fkey" \in Decided /\ "fkey" \notin {"read", "board", "done"}
  BY DEF Late, Decided
<1>2. \A k \in Columns : held[p][OfColumn(k)] >= NoKeyUpdate => k \in cols
  BY RowFacts, ExistingFacts DEF Good, HeldExist, NoKeyUpdate, None, TypeOK, ContentsTypeOK
<1>3. \A k \in EntryColumns(p) : k \in Columns => k \in cols
  BY <1>1, <1>2 DEF Good, ColumnsHeld
<1>4. Op(p) \in CardOps => up /\ seen[p].col \in cols /\ seen[p].lane \in lanes
  BY <1>1 DEF Good, CardHeld, Housed
<1>5. CASE Op(p) \in Creations
  <2>1. held[p][BoardRow] >= Share
    BY <1>1, <1>5 DEF Good, BoardHeld, BoardMode, Creations
  <2>2. up
    BY <2>1, RowFacts, ExistingFacts DEF Good, HeldExist, Share, None, TypeOK, ContentsTypeOK
  <2>3. req[p].col \in cols /\ req[p].lane \in lanes
    BY <1>1, <1>3, <1>5, RequestFields DEF EntryColumns, Good, LaneThere
  <2> QED BY <1>5, <2>2, <2>3 DEF ForeignKeys, Existing
<1>6. CASE Op(p) \in {"move", "admin"} /\ CellChange(p, seen[p])
  <2>1. req[p].col \in cols /\ req[p].lane \in lanes
    BY <1>1, <1>3, <1>6, RequestFields DEF EntryColumns, Good, LaneThere
  <2>2. Target(p, seen[p]) = <<req[p].col, req[p].lane>> /\ Op(p) \in CardOps /\ Op(p) \notin Creations
    BY <1>6 DEF Target, Targeting, CardOps, Creations
  <2> QED BY <1>4, <1>6, <2>1, <2>2 DEF ForeignKeys, Existing
<1>7. CASE Op(p) \in {"archive", "restore", "block"}
  <2>1. Target(p, seen[p]) = <<seen[p].col, seen[p].lane>> /\ Op(p) \in CardOps /\ Op(p) \notin Creations
    BY <1>7 DEF Target, Targeting, CardOps, Creations
  <2> QED BY <1>4, <1>7, <2>1 DEF ForeignKeys, Existing
<1> QED BY <1>5, <1>6, <1>7 DEF ForeignKeys

\* A deferred foreign key finds its row: the branch that answers 500 is dead.
LEMMA CheckForeignKeyStep ==
    ASSUME TypeOK, LocksCompatible, Housed, NEW p \in Procs, Good(p), CheckForeignKey(p)
    PROVE  Quiet(p)
<1>0. pc[p] = "fkey"
  BY DEF CheckForeignKey
<1>1. todo[p] \subseteq Existing
  BY <1>0, ForeignKeysExist DEF Good, ForeignKeysComing
<1>2. PICK r \in todo[p] :
        /\ Take(p, r, KeyShare) /\ r \in Existing
        /\ Goto(p, "fkey", todo[p] \ {r})
        /\ UNCHANGED <<contents, req, seen, tries, doomed, out>>
  BY <1>1 DEF CheckForeignKey
<1>3. r \in Rows /\ (todo[p] \ {r}) \in SUBSET Rows /\ {"fkey"} \subseteq Places \cap Late
  BY DEF TypeOK, Places, Late
<1>4. pc'[p] = "fkey" /\ todo'[p] = todo[p] \ {r}
  BY <1>2, <1>3, GotoStep
<1>5. /\ HeldType' /\ LocksCompatible' /\ HeldExist(p)'
      /\ \A q \in Procs \ {p} : held'[q] = held[q]
      /\ \A s \in Rows : held[p][s] \in Nat /\ held'[p][s] \in Nat
      /\ \A s \in Rows : held'[p][s] >= held[p][s]
      /\ \A s \in Rows : held[p][s] = Update => held'[p][s] = Update
      /\ held'[p][r] >= KeyShare
  BY <1>2, <1>3, ModeTypes, TakeIfThere DEF Good
<1>6. /\ req' = req /\ card' = card /\ cols' = cols /\ lanes' = lanes /\ up' = up
      /\ seen' = seen /\ doomed' = doomed
  BY <1>2 DEF contents
<1>7. CascadeReady(p)'
  <2> SUFFICES ASSUME Op(p) \in Cascades
               PROVE  /\ doomed[p] = Container(p)
                      /\ ~TargetGone(p)
                      /\ \A s \in CascadeRows(p) : held'[p][s] >= WriteMode(p, s)
    BY <1>4, <1>6 DEF CascadeReady, Op, Container, CascadeRows, WriteMode, TargetGone,
                      InColumn, InLane, Live
  <2>1. /\ doomed[p] = Container(p) /\ ~TargetGone(p)
        /\ \A s \in CascadeRows(p) : held[p][s] >= WriteMode(p, s)
    BY <1>0, <1>3 DEF Good, CascadeReady
  <2>2. \A s \in CascadeRows(p) : s \in Rows /\ WriteMode(p, s) \in Nat
    BY RequestFields, RowTypes, ModeTypes DEF NoKeyUpdate, Update
  <2> QED BY <1>5, <2>1, <2>2
<1>8. ForeignKeysComing(p)'
  <2> SUFFICES \A s \in ForeignKeys(p) : s \in todo'[p] \/ held'[p][s] # None
    BY <1>0, <1>4, <1>6 DEF Good, ForeignKeysComing, ForeignKeys, CellChange, Target, Op
  <2> TAKE s \in ForeignKeys(p)
  <2>1. s \in Rows
    BY RequestFields, RowTypes
  <2>2. CASE s = r
    BY <1>5, <2>2 DEF KeyShare, None
  <2>3. CASE s # r
    <3>1. s \in todo'[p] \/ held[p][s] # None
      BY <1>0, <1>4, <2>3 DEF Good, ForeignKeysComing
    <3> QED BY <1>5, <2>1, <3>1 DEF None
  <2> QED BY <2>2, <2>3
<1>9. Good(p)'
  BY <1>0, <1>2, <1>3, <1>4, <1>5, <1>7, <1>8, LateKept
<1>10. seen' \in [Procs -> CardRecord] /\ doomed' \in [Procs -> SUBSET Cards]
  BY <1>6 DEF TypeOK
<1> QED BY <1>2, <1>3, <1>5, <1>6, <1>9, <1>10, LocalStep

-----------------------------------------------------------------------------
(* Commit: everything it changes, it had locked.                            *)

\* What p's locks cover when its writes become visible.
Covered(p) ==
    /\ ContentsTypeOK' /\ Housed'
    /\ \A r \in Existing : r \in Existing' \/ held[p][r] = Update
    /\ \A c \in Cards : \/ card'[c] = card[c]
                        \/ held[p][OfCard(c)] >= NoKeyUpdate
                        \/ Op(p) \in Creations /\ c = req[p].card /\ card[c].st = "unborn"
    /\ \A c \in Cards : card'[c].st = "live" =>
          c \in Live \/ (Op(p) \in Creations /\ c = req[p].card /\ card[c].st = "unborn")
    /\ \A c \in Cards : card'[c].st = "unborn" => card[c].st = "unborn"
    /\ \A c \in Cards : card'[c].st = "live" =>
          \/ c \in Live /\ card'[c].col = card[c].col /\ card'[c].lane = card[c].lane
          \/ held[p][OfColumn(card'[c].col)] >= NoKeyUpdate
    /\ \A k \in cols' : k \in cols \/ held[p][BoardRow] = Update
    /\ \A l \in lanes : l \in lanes' \/ ( /\ held[p][BoardRow] >= NoKeyUpdate
                                         /\ \A k \in cols : held[p][OfColumn(k)] >= NoKeyUpdate )
    /\ lanes' \subseteq lanes
    /\ up' => up

\* The card's own row is the only one a write changes.
LEMMA WriteCovered ==
    ASSUME TypeOK, LocksCompatible, Housed, NEW p \in Procs, Good(p), pc[p] = "fkey",
           NEW row \in CardRecord, WriteCard(p, row), row.st = "live",
           \/ Op(p) \in Creations
           \/ Op(p) \in CardOps,
           \/ row.col = req[p].col /\ row.lane = req[p].lane /\ Op(p) \in Targeting
           \/ row.col = seen[p].col /\ row.lane = seen[p].lane /\ Op(p) \in CardOps
    PROVE  Covered(p)
<1> DEFINE x == req[p].card
<1>1. /\ card' = [card EXCEPT ![x] = row] /\ cols' = cols /\ lanes' = lanes /\ up' = up
      /\ x \in Cards /\ card \in [Cards -> CardRecord]
  BY RequestFields DEF WriteCard, TypeOK, ContentsTypeOK
<1>2. /\ card'[x] = row
      /\ \A c \in Cards \ {x} : card'[c] = card[c]
      /\ ContentsTypeOK'
  BY <1>1 DEF TypeOK, ContentsTypeOK
<1>3. "fkey" \in Late /\ "fkey" \in Decided /\ "fkey" \notin {"read", "board", "done"}
  BY DEF Late, Decided
<1>4. Op(p) \in CardOps =>
        /\ seen[p] = card[x] /\ x \in Live /\ held[p][OfCard(x)] >= NoKeyUpdate
        /\ up /\ seen[p].col \in cols /\ seen[p].lane \in lanes
  <2> SUFFICES ASSUME Op(p) \in CardOps
               PROVE  /\ seen[p] = card[x] /\ x \in Live /\ held[p][OfCard(x)] >= NoKeyUpdate
                      /\ up /\ seen[p].col \in cols /\ seen[p].lane \in lanes
    OBVIOUS
  <2>1. seen[p] = card[x] /\ x \in Live /\ held[p][OfCard(x)] >= CardMode(Op(p))
    BY <1>3 DEF Good, CardHeld
  <2>2. held[p][OfCard(x)] \in Modes
    BY <1>1, RowFacts DEF TypeOK
  <2>3. held[p][OfCard(x)] >= NoKeyUpdate
    BY <2>1, <2>2, ModeTypes DEF Modes, NoKeyUpdate, None, Update
  <2> QED BY <2>1, <2>3 DEF Housed
<1>5. Op(p) \in Creations => card[x].st = "unborn" /\ up
  <2> SUFFICES ASSUME Op(p) \in Creations PROVE card[x].st = "unborn" /\ up
    OBVIOUS
  <2>1. held[p][BoardRow] >= Share
    BY <1>3 DEF Good, BoardHeld, BoardMode, Creations
  <2>2. up
    BY <2>1, RowFacts, ExistingFacts DEF Good, HeldExist, Share, None, TypeOK, ContentsTypeOK
  <2> QED BY <1>3, <2>2 DEF Good, CreationFresh
<1>6. \/ x \in Live /\ row.col = card[x].col /\ row.lane = card[x].lane
      \/ /\ held[p][OfColumn(row.col)] >= NoKeyUpdate
         /\ row.col \in cols /\ row.lane \in lanes
  <2>1. CASE Op(p) \in CardOps /\ row.col = seen[p].col /\ row.lane = seen[p].lane
    BY <1>4, <2>1
  <2>2. CASE /\ row.col = req[p].col /\ row.lane = req[p].lane /\ Op(p) \in Targeting
             /\ Op(p) \in Creations \/ (Op(p) \in {"move", "admin"} /\ CellChange(p, seen[p]))
    <3>1. held[p][OfColumn(row.col)] >= NoKeyUpdate /\ row.lane \in lanes
      BY <1>3, <2>2 DEF Good, ColumnsHeld, LaneThere, EntryColumns
    <3>2. row.col \in cols
      BY <2>2, <3>1, RequestFields, RowFacts, ExistingFacts
         DEF Good, HeldExist, NoKeyUpdate, None, TypeOK, ContentsTypeOK
    <3> QED BY <3>1, <3>2
  <2>3. CASE /\ row.col = req[p].col /\ row.lane = req[p].lane
             /\ Op(p) \in {"move", "admin"} /\ ~CellChange(p, seen[p])
    <3>1. <<seen[p].col, seen[p].lane>> = <<req[p].col, req[p].lane>> /\ Op(p) \in CardOps
      BY <2>3 DEF CellChange, Target, Targeting, CardOps
    <3> QED BY <1>4, <2>3, <3>1
  <2> QED BY <2>1, <2>2, <2>3 DEF Targeting
<1>7. \A c \in Cards : card'[c].st = "live" /\ c # x => c \in Live
  BY <1>2 DEF Live
<1>8. x \in Live \/ (Op(p) \in Creations /\ card[x].st = "unborn")
  BY <1>4, <1>5
<1>9. Live \subseteq Live' /\ Existing \subseteq Existing'
  BY <1>1, <1>2 DEF Live, Existing
<1>10. Housed'
  <2> SUFFICES ASSUME NEW c \in Cards, card'[c].st = "live"
               PROVE  up /\ card'[c].col \in cols /\ card'[c].lane \in lanes
    BY <1>1 DEF Housed, Live
  <2>1. CASE c # x
    BY <1>2, <1>7, <2>1 DEF Housed
  <2>2. CASE c = x
    BY <1>2, <1>4, <1>5, <1>6, <2>2 DEF Housed
  <2> QED BY <2>1, <2>2
<1>11. \A c \in Cards : \/ card'[c] = card[c]
                        \/ held[p][OfCard(c)] >= NoKeyUpdate
                        \/ Op(p) \in Creations /\ c = req[p].card /\ card[c].st = "unborn"
  BY <1>2, <1>4, <1>5
<1>12. \A c \in Cards : card'[c].st = "live" =>
          \/ c \in Live /\ card'[c].col = card[c].col /\ card'[c].lane = card[c].lane
          \/ held[p][OfColumn(card'[c].col)] >= NoKeyUpdate
  BY <1>2, <1>6, <1>7
<1>13. \A c \in Cards : card'[c].st = "unborn" => card[c].st = "unborn"
  BY <1>2
<1>14. \A c \in Cards : card'[c].st = "live" =>
          c \in Live \/ (Op(p) \in Creations /\ c = req[p].card /\ card[c].st = "unborn")
  BY <1>7, <1>8
<1>15. \A r \in Existing : r \in Existing' \/ held[p][r] = Update
  BY <1>9
<1>16. /\ \A k \in cols' : k \in cols \/ held[p][BoardRow] = Update
       /\ \A l \in lanes : l \in lanes' \/ ( /\ held[p][BoardRow] >= NoKeyUpdate
                                            /\ \A k \in cols : held[p][OfColumn(k)] >= NoKeyUpdate )
       /\ lanes' \subseteq lanes
       /\ up' => up
  BY <1>1
<1> HIDE DEF x
<1> QED BY <1>2, <1>10, <1>11, <1>12, <1>13, <1>14, <1>15, <1>16 DEF Covered

\* Deleted cards are held FOR UPDATE, and so is the container that goes along.
LEMMA RemoveCovered ==
    ASSUME TypeOK, NEW p \in Procs, NEW gone \in SUBSET Live, Remove(gone), Housed,
           \A c \in gone : held[p][OfCard(c)] = Update,
           cols' \subseteq cols, lanes' \subseteq lanes, up' \in BOOLEAN, up' => up,
           \A k \in cols \ cols' : held[p][OfColumn(k)] = Update /\ InColumn(k) \subseteq gone,
           \A l \in lanes \ lanes' : /\ held[p][OfLane(l)] = Update /\ InLane(l) \subseteq gone
                                     /\ held[p][BoardRow] >= NoKeyUpdate
                                     /\ \A k \in cols : held[p][OfColumn(k)] >= NoKeyUpdate,
           up /\ ~up' => held[p][BoardRow] = Update /\ Live \subseteq gone
    PROVE  Covered(p)
<1>1. /\ card' \in [Cards -> CardRecord]
      /\ \A c \in Cards \ gone : card'[c] = card[c]
      /\ \A c \in gone : card'[c].st = "gone"
      /\ gone \subseteq Cards
  <2>1. \A c \in Cards : /\ [card[c] EXCEPT !.st = "gone"] \in CardRecord
                         /\ [card[c] EXCEPT !.st = "gone"].st = "gone"
    <3> TAKE c \in Cards
    <3>1. card[c] \in CardRecord
      BY DEF TypeOK, ContentsTypeOK
    <3> QED BY <3>1 DEF CardRecord
  <2>2. gone \subseteq Cards /\ card \in [Cards -> CardRecord]
    BY DEF TypeOK, ContentsTypeOK, Live
  <2> QED BY <2>1, <2>2 DEF Remove
<1>2. ContentsTypeOK'
  BY <1>1 DEF TypeOK, ContentsTypeOK
<1>3. \A c \in Cards : card'[c].st = "live" => c \in Live \ gone
  BY <1>1 DEF Live
<1>4. Housed'
  <2> SUFFICES ASSUME NEW c \in Cards, card'[c].st = "live"
               PROVE  up' /\ card'[c].col \in cols' /\ card'[c].lane \in lanes'
    BY DEF Housed, Live
  <2>1. c \in Live \ gone /\ card'[c] = card[c] /\ up /\ card[c].col \in cols /\ card[c].lane \in lanes
    BY <1>1, <1>3 DEF Housed
  <2> QED BY <2>1 DEF InColumn, InLane
<1>5. \A r \in Existing : r \in Existing' \/ held[p][r] = Update
  <2> SUFFICES ASSUME NEW r \in Existing PROVE r \in Existing' \/ held[p][r] = Update
    OBVIOUS
  <2>1. CASE \E c \in Live : r = OfCard(c)
    <3>1. PICK c \in Live : r = OfCard(c)
      BY <2>1
    <3>2. c \in Cards /\ (c \notin gone => card'[c].st = "live")
      BY <1>1 DEF Live
    <3> QED BY <3>1, <3>2 DEF Existing, Live
  <2>2. CASE \E k \in cols : r = OfColumn(k)
    BY <2>2 DEF Existing
  <2>3. CASE \E l \in lanes : r = OfLane(l)
    BY <2>3 DEF Existing
  <2>4. CASE r = BoardRow /\ up
    BY <2>4 DEF Existing
  <2> QED BY <2>1, <2>2, <2>3, <2>4 DEF Existing
<1>6. \A c \in Cards : card'[c] = card[c] \/ held[p][OfCard(c)] >= NoKeyUpdate
  BY <1>1 DEF NoKeyUpdate, Update
<1>7. \A c \in Cards : card'[c].st = "unborn" => card[c].st = "unborn"
  BY <1>1
<1>8. \A c \in Cards : card'[c].st = "live" =>
         /\ c \in Live
         /\ card'[c].col = card[c].col /\ card'[c].lane = card[c].lane
  BY <1>1, <1>3
<1>9. /\ \A k \in cols' : k \in cols \/ held[p][BoardRow] = Update
      /\ \A l \in lanes : l \in lanes' \/ ( /\ held[p][BoardRow] >= NoKeyUpdate
                                           /\ \A k \in cols : held[p][OfColumn(k)] >= NoKeyUpdate )
  OBVIOUS
<1> QED BY <1>2, <1>4, <1>5, <1>6, <1>7, <1>8, <1>9 DEF Covered

\* A placed card is a card in the cell named.  (The provers take one field at
\* a time.)
LEMMA PlacedRow ==
    ASSUME NEW s \in CardRecord, NEW k \in Columns, NEW l \in Lanes
    PROVE  /\ Placed(s, k, l) \in CardRecord /\ Placed(s, k, l).st = s.st
           /\ Placed(s, k, l).col = k /\ Placed(s, k, l).lane = l
           /\ Placed(s, k, l).archived = s.archived /\ Placed(s, k, l).ver = s.ver + 1
<1> DEFINE a  == [s EXCEPT !.col = k]
           b  == [a EXCEPT !.lane = l]
<1>1. a \in CardRecord /\ a.st = s.st /\ a.col = k /\ a.archived = s.archived /\ a.ver = s.ver
  BY DEF CardRecord
<1>2. /\ b \in CardRecord /\ b.st = s.st /\ b.col = k /\ b.lane = l
      /\ b.archived = s.archived /\ b.ver = s.ver
  <2> HIDE DEF a
  <2> QED BY <1>1 DEF CardRecord
<1>3. Placed(s, k, l) = [b EXCEPT !.ver = @ + 1]
  BY DEF CardRecord, Placed
<1> HIDE DEF b
<1> QED BY <1>2, <1>3 DEF CardRecord

\* What p changes when it commits, it has locked.
LEMMA CommitCovered ==
    ASSUME TypeOK, LocksCompatible, Housed, NEW p \in Procs, Good(p), Commit(p)
    PROVE  Covered(p) /\ End(p, "ok") /\ UNCHANGED <<req, seen, tries, doomed>>
<1>1. pc[p] = "fkey" /\ todo[p] = {} /\ "fkey" \in Late /\ "fkey" \in Decided
  BY DEF Commit, Late, Decided
<1>2. Op(p) \in Cascades =>
        /\ doomed[p] = Container(p) /\ ~TargetGone(p)
        /\ \A r \in CascadeRows(p) : held[p][r] >= WriteMode(p, r)
  BY <1>1 DEF Good, CascadeReady
<1>3. Op(p) \notin Cascades => Container(p) = {}
  BY DEF Cascades, Container
<1>4. End(p, "ok") /\ Effect(p) /\ UNCHANGED <<req, seen, tries, doomed>>
  BY <1>2, <1>3 DEF Commit
<1>5. \A r \in Rows : held[p][r] \in Modes
  BY DEF TypeOK
<1> DEFINE x == req[p].card
           now == card[x]
<1>6. /\ x \in Cards /\ now \in CardRecord /\ seen[p] \in CardRecord
      /\ req[p].col \in Columns /\ req[p].lane \in Lanes /\ req[p].arch \in BOOLEAN
  BY RequestFields
<1>7. Op(p) \in CardOps => seen[p] = now /\ now.st = "live"
  BY <1>1 DEF Good, CardHeld, Live
<1>8. CASE Op(p) \in Creations
  <2>1. PICK v \in {1, 2} :
          WriteCard(p, [st |-> "live", col |-> req[p].col, lane |-> req[p].lane,
                        archived |-> FALSE, ver |-> v])
    BY <1>4, <1>8 DEF Effect, Insert, Creations, Reorders
  <2> DEFINE row == [st |-> "live", col |-> req[p].col, lane |-> req[p].lane,
                     archived |-> FALSE, ver |-> v]
  <2>2. row \in CardRecord /\ row.st = "live" /\ row.col = req[p].col /\ row.lane = req[p].lane
    BY <1>6 DEF CardRecord
  <2>3. Op(p) \in Targeting
    BY <1>8 DEF Targeting
  <2> HIDE DEF row
  <2>4. WriteCard(p, row)
    BY <2>1 DEF row
  <2> QED BY <1>1, <1>4, <1>8, <2>2, <2>3, <2>4, WriteCovered
<1>9. CASE Op(p) \in CardOps \ {"delete"}
  <2>1. PICK row \in CardRecord :
          /\ WriteCard(p, row) /\ row.st = "live"
          /\ \/ row.col = req[p].col /\ row.lane = req[p].lane /\ Op(p) \in Targeting
             \/ row.col = seen[p].col /\ row.lane = seen[p].lane
    <3>1. CASE Op(p) = "move"
      <4> DEFINE row == Placed(now, req[p].col, req[p].lane)
      <4>1. WriteCard(p, row)
        BY <1>4, <3>1 DEF Effect, Creations, Reorders
      <4>2. row \in CardRecord /\ row.st = "live" /\ row.col = req[p].col /\ row.lane = req[p].lane
        BY <1>6, <1>7, <1>9, PlacedRow
      <4> HIDE DEF row
      <4> QED BY <3>1, <4>1, <4>2 DEF Targeting
    <3>2. CASE Op(p) = "admin"
      <4> DEFINE there == Placed(seen[p], req[p].col, req[p].lane)
                 row   == [there EXCEPT !.archived = req[p].arch]
      <4>1. WriteCard(p, row)
        BY <1>4, <3>2 DEF Effect, Creations, Reorders
      <4>2. /\ there \in CardRecord /\ there.st = "live"
            /\ there.col = req[p].col /\ there.lane = req[p].lane
        BY <1>6, <1>7, <1>9, PlacedRow
      <4> HIDE DEF there
      <4>3. row \in CardRecord /\ row.st = "live" /\ row.col = req[p].col /\ row.lane = req[p].lane
        BY <1>6, <4>2 DEF CardRecord
      <4> HIDE DEF row
      <4> QED BY <3>2, <4>1, <4>3 DEF Targeting
    <3>3. CASE Op(p) \in {"update", "grow"}
      <4> DEFINE row == [seen[p] EXCEPT !.ver = now.ver + 1]
      <4>1. WriteCard(p, row)
        BY <1>4, <3>3 DEF Effect, Creations, Reorders
      <4>2. row \in CardRecord /\ row.st = "live" /\ row.col = seen[p].col /\ row.lane = seen[p].lane
        BY <1>6, <1>7, <1>9 DEF CardRecord
      <4> HIDE DEF row
      <4> QED BY <4>1, <4>2
    <3>4. CASE Op(p) = "block"
      <4> DEFINE row == [now EXCEPT !.ver = @ + 1]
      <4>1. WriteCard(p, row)
        BY <1>4, <3>4 DEF Effect, Creations, Reorders
      <4>2. row \in CardRecord /\ row.st = "live" /\ row.col = seen[p].col /\ row.lane = seen[p].lane
        BY <1>6, <1>7, <1>9 DEF CardRecord
      <4> HIDE DEF row
      <4> QED BY <4>1, <4>2
    <3>5. CASE Op(p) \in {"archive", "restore"}
      <4>1. PICK a \in BOOLEAN : WriteCard(p, [now EXCEPT !.archived = a])
        BY <1>4, <3>5 DEF Effect, Creations, Reorders
      <4> DEFINE row == [now EXCEPT !.archived = a]
      <4>2. row \in CardRecord /\ row.st = "live" /\ row.col = seen[p].col /\ row.lane = seen[p].lane
        BY <1>6, <1>7, <1>9 DEF CardRecord
      <4> HIDE DEF row
      <4> QED BY <4>1, <4>2 DEF row
    <3> QED BY <1>9, <3>1, <3>2, <3>3, <3>4, <3>5 DEF CardOps
  <2> QED BY <1>1, <1>4, <1>9, <2>1, WriteCovered
<1>10. CASE Op(p) = "delete"
  <2>1. Remove({x}) /\ UNCHANGED <<cols, lanes, up>>
    BY <1>4, <1>10 DEF Effect, Creations, Reorders
  <2>2. {x} \in SUBSET Live /\ held[p][OfCard(x)] = Update
    <3>1. /\ x \in Live /\ held[p][OfCard(x)] >= CardMode(Op(p)) /\ CardMode(Op(p)) = Update
          /\ held[p][OfCard(x)] \in Modes
      BY <1>1, <1>5, <1>6, <1>10, RowFacts DEF Good, CardHeld, CardOps, CardMode
    <3> QED BY <3>1 DEF Modes, None, Update
  <2>3. up \in BOOLEAN
    BY DEF TypeOK, ContentsTypeOK
  <2> HIDE DEF x
  <2> QED BY <1>4, <2>1, <2>2, <2>3, RemoveCovered
<1>11. CASE Op(p) \in Cascades
  <2>1. Container(p) \in SUBSET Live /\ Remove(Container(p))
    BY <1>2, <1>4, <1>6, <1>11, RowTypes DEF Effect, Creations, Reorders, Cascades
  <2>2. /\ \A r \in CascadeRows(p) : r \in Rows
        /\ \A r \in Rows : held[p][r] >= Update => held[p][r] = Update
    BY <1>5, <1>6, RowTypes DEF Modes, None, Update
  <2>3. ASSUME NEW r \in CascadeRows(p), Op(p) # "dropColumn" \/ r[1] # "lane"
        PROVE  held[p][r] = Update
    <3>1. WriteMode(p, r) = Update
      BY <1>11, <2>3 DEF WriteMode
    <3> QED BY <1>2, <1>11, <2>2, <3>1
  <2>4. \A c \in Container(p) : held[p][OfCard(c)] = Update
    <3> TAKE c \in Container(p)
    <3>1. OfCard(c) \in CascadeRows(p) /\ OfCard(c)[1] # "lane"
      BY DEF CascadeRows, OfCard
    <3> QED BY <2>3, <3>1
  <2>5. held[p][BoardRow] >= NoKeyUpdate
    BY <1>1, <1>11 DEF Good, BoardHeld, BoardMode, Cascades
  <2>6. up \in BOOLEAN
    BY DEF TypeOK, ContentsTypeOK
  <2>7. CASE Op(p) = "dropColumn"
    <3>1. /\ cols' = cols \ {req[p].col} /\ UNCHANGED <<lanes, up>>
          /\ Container(p) = InColumn(req[p].col)
      BY <1>4, <2>7 DEF Effect, Creations, Reorders, Container
    <3>2. held[p][OfColumn(req[p].col)] = Update
      <4>1. OfColumn(req[p].col) \in CascadeRows(p) /\ OfColumn(req[p].col)[1] # "lane"
        BY <2>7 DEF CascadeRows, OfColumn
      <4> QED BY <2>3, <4>1
    <3> QED BY <1>4, <2>1, <2>4, <2>6, <3>1, <3>2, RemoveCovered
  <2>8. CASE Op(p) = "dropLane"
    <3>1. /\ lanes' = lanes \ {req[p].lane} /\ UNCHANGED <<cols, up>>
          /\ Container(p) = InLane(req[p].lane)
      BY <1>4, <2>8 DEF Effect, Creations, Reorders, Container
    <3>2. held[p][OfLane(req[p].lane)] = Update
      BY <2>3, <2>8 DEF CascadeRows
    <3>3. \A k \in cols : held[p][OfColumn(k)] >= NoKeyUpdate
      BY <1>1, <2>8 DEF Good, ColumnsHeld, EntryColumns, Creations
    <3> QED BY <1>4, <2>1, <2>4, <2>5, <2>6, <3>1, <3>2, <3>3, RemoveCovered
  <2>9. CASE Op(p) = "dropBoard"
    <3>1. cols' = {} /\ lanes' = {} /\ up' = FALSE /\ Container(p) = Live
      BY <1>4, <2>9 DEF Effect, Creations, Reorders, Container
    <3>2. /\ \A k \in cols : held[p][OfColumn(k)] = Update
          /\ \A l \in lanes : held[p][OfLane(l)] = Update
          /\ held[p][BoardRow] = Update
      BY <2>3, <2>9 DEF CascadeRows
    <3>3. \A k \in cols : held[p][OfColumn(k)] >= NoKeyUpdate
      BY <3>2 DEF NoKeyUpdate, Update
    <3>4. /\ \A k \in cols : InColumn(k) \subseteq Live
          /\ \A l \in lanes : InLane(l) \subseteq Live
      BY DEF InColumn, InLane
    <3> QED BY <1>4, <2>1, <2>4, <2>5, <2>6, <3>1, <3>2, <3>3, <3>4, RemoveCovered
  <2> QED BY <1>11, <2>7, <2>8, <2>9 DEF Cascades
<1>12. CASE Op(p) = "addColumn"
  <2>1. cols' = cols \cup {req[p].col} /\ UNCHANGED <<card, lanes, up>>
    BY <1>4, <1>12 DEF Effect, Creations, Reorders
  <2>2. held[p][BoardRow] = Update
    <3>1. held[p][BoardRow] >= Update /\ held[p][BoardRow] \in Modes
      BY <1>1, <1>5, <1>12, RowFacts DEF Good, BoardHeld, BoardMode, Cascades, Reorders
    <3> QED BY <3>1 DEF Modes, None, Update
  <2>3. ContentsTypeOK' /\ Housed' /\ Existing \subseteq Existing' /\ Live' = Live
    BY <1>6, <2>1 DEF TypeOK, ContentsTypeOK, Housed, Existing, Live
  <2> QED BY <1>4, <2>1, <2>2, <2>3 DEF Covered, Live
<1>13. CASE Op(p) \in Reorders
  <2>1. UNCHANGED <<card, cols, lanes, up>>
    BY <1>4, <1>13 DEF Effect, Creations, Reorders, contents
  <2>2. ContentsTypeOK' /\ Housed' /\ Existing = Existing' /\ Live' = Live
    BY <2>1 DEF TypeOK, ContentsTypeOK, Housed, Existing, Live
  <2> QED BY <1>4, <2>1, <2>2 DEF Covered, Live
<1> QED BY <1>8, <1>9, <1>10, <1>11, <1>12, <1>13, <1>6, RequestFields DEF Ops

\* No two requests hold conflicting locks, so a row p writes is not one whose
\* content another request relies on.
LEMMA Excluded ==
    ASSUME TypeOK, LocksCompatible, NEW p \in Procs, NEW q \in Procs \ {p}, NEW r \in Rows
    PROVE  /\ held[q][r] \in Nat
           /\ held[p][r] = Update => held[q][r] = None
           /\ held[p][r] >= NoKeyUpdate => ~(held[q][r] >= NoKeyUpdate) /\ held[q][r] # Update
<1>1. held[p][r] \in Modes /\ held[q][r] \in Modes /\ held[p][r] + held[q][r] < 5
  BY DEF TypeOK, LocksCompatible, Compatible
<1> QED BY <1>1 DEF Modes, None, NoKeyUpdate, Update

\* A commit leaves everything the other requests rely on as it was.
LEMMA GoodThroughCommit ==
    ASSUME TypeOK, LocksCompatible, CreationsDistinct, Housed,
           NEW p \in Procs, Good(p), Covered(p), OthersKept(p),
           NEW q \in Procs \ {p}, Good(q)
    PROVE  Good(q)'
<1> DEFINE x == req[q].card
<1>1. /\ req'[q] = req[q] /\ pc'[q] = pc[q] /\ seen'[q] = seen[q] /\ todo'[q] = todo[q]
      /\ doomed'[q] = doomed[q] /\ held'[q] = held[q]
  BY DEF OthersKept
<1>2. /\ x \in Cards /\ req[q].col \in Columns /\ req[q].lane \in Lanes /\ seen[q] \in CardRecord
      /\ Existing \subseteq Rows /\ BoardRow \in Rows
      /\ \A c \in Cards : OfCard(c) \in Rows
      /\ \A k \in Columns : OfColumn(k) \in Rows
      /\ cols \subseteq Columns /\ lanes \subseteq Lanes /\ cols' \subseteq Columns /\ lanes' \subseteq Lanes
      /\ Late \subseteq Decided /\ "done" \notin Decided /\ "columns" \in Decided
  BY RequestFields, RowFacts, ExistingFacts DEF TypeOK, ContentsTypeOK, Covered, Late, Decided
\* The rows q holds.
<1>3. \A r \in Rows : held[q][r] # None => r \in Existing /\ r \in Existing'
  BY <1>2, Excluded DEF Good, HeldExist, Covered
<1>4. HeldExist(q)'
  BY <1>1, <1>3 DEF HeldExist
<1>5. \A k \in Columns : held[q][OfColumn(k)] >= NoKeyUpdate => k \in cols /\ k \in cols'
  <2> SUFFICES ASSUME NEW k \in Columns, held[q][OfColumn(k)] >= NoKeyUpdate
               PROVE  k \in cols /\ k \in cols'
    OBVIOUS
  <2>1. OfColumn(k) \in Existing /\ OfColumn(k) \in Existing'
    BY <1>2, <1>3 DEF NoKeyUpdate, None
  <2> QED BY <2>1 DEF Existing, OfCard, OfColumn, OfLane, BoardRow
\* The card q creates, or is about.
<1>6. CreationFresh(q)'
  <2> SUFFICES ASSUME Op(q) \in Creations, pc[q] # "done"
               PROVE  card'[x].st = "unborn"
    BY <1>1 DEF CreationFresh, Op
  <2>1. card[x].st = "unborn"
    BY DEF Good, CreationFresh
  <2>2. ~(held[p][OfCard(x)] >= NoKeyUpdate)
    <3>1. OfCard(x) \notin Existing
      BY <1>2, <2>1, ExistingFacts DEF Live
    <3> QED BY <1>2, <3>1 DEF Good, HeldExist, NoKeyUpdate, None
  <2>3. ~(Op(p) \in Creations /\ x = req[p].card)
    BY DEF CreationsDistinct
  <2> QED BY <1>2, <2>1, <2>2, <2>3 DEF Covered
<1>7. CardBorn(q)' /\ CardComing(q)'
  BY <1>1, <1>2 DEF Good, CardBorn, CardComing, Covered, Op, Live
<1>8. BoardHeld(q)' /\ EarlyModes(q)' /\ ForeignKeysComing(q)'
  BY <1>1 DEF Good, BoardHeld, EarlyModes, ForeignKeysComing, ForeignKeys, CellChange, Target, Op
<1>9. ASSUME pc[q] \in Decided, Op(q) \in CardOps
      PROVE  seen[q] = card[x] /\ x \in Live /\ held[q][OfCard(x)] >= CardMode(Op(q)) /\ card'[x] = card[x]
  <2>1. seen[q] = card[x] /\ x \in Live /\ held[q][OfCard(x)] >= CardMode(Op(q))
    BY <1>9 DEF Good, CardHeld
  <2>2. held[q][OfCard(x)] >= NoKeyUpdate
    BY <1>2, <2>1, Excluded, ModeTypes DEF NoKeyUpdate, Update
  <2> QED BY <1>2, <2>1, <2>2, Excluded DEF Covered, Live
<1>10. CardHeld(q)'
  BY <1>1, <1>2, <1>9 DEF CardHeld, Op, Live
\* The columns, lanes and cells q is about.
<1>11. ASSUME pc[q] \in Decided, Op(q) \in Cascades
       PROVE  cols' \subseteq cols /\ held[q][BoardRow] >= NoKeyUpdate
  <2>1. held[q][BoardRow] >= NoKeyUpdate
    BY <1>11 DEF Good, BoardHeld, BoardMode, Cascades, Decided, Late
  <2> QED BY <1>2, <2>1, Excluded DEF Covered, NoKeyUpdate, None
<1>12. pc[q] \in Decided => EntryColumns(q)' \subseteq EntryColumns(q)
  BY <1>1, <1>11 DEF EntryColumns, CellChange, Target, Op, Cascades
<1>13. ColumnsComing(q)'
  <2> SUFFICES ASSUME pc[q] = "columns"
               PROVE  /\ todo[q] \subseteq {OfColumn(k) : k \in Columns}
                      /\ \A k \in EntryColumns(q)' \cap cols' :
                            (Op(q) \in CardOps /\ k = seen[q].col) \/ Op(q) \in Cascades =>
                                OfColumn(k) \in todo[q] \/ held[q][OfColumn(k)] >= NoKeyUpdate
    BY <1>1 DEF ColumnsComing, Op
  <2>1. Op(q) \in CardOps => seen[q].col \in cols
    BY <1>2, <1>9 DEF Housed
  <2>2. ASSUME NEW k \in EntryColumns(q)' \cap cols',
               (Op(q) \in CardOps /\ k = seen[q].col) \/ Op(q) \in Cascades
        PROVE  k \in EntryColumns(q) \cap cols
    BY <1>2, <1>11, <1>12, <2>1, <2>2
  <2> QED BY <2>2 DEF Good, ColumnsComing
<1>14. ColumnsHeld(q)'
  BY <1>1, <1>2, <1>12 DEF Good, ColumnsHeld
<1>15. LaneThere(q)'
  <2> SUFFICES ASSUME pc[q] \in Late,
                      Op(q) \in Creations \/ (Op(q) \in {"move", "admin"} /\ CellChange(q, seen[q]))
               PROVE  req[q].lane \in lanes'
    BY <1>1 DEF LaneThere, CellChange, Target, Op
  <2>1. req[q].lane \in lanes /\ held[q][OfColumn(req[q].col)] >= NoKeyUpdate
    BY DEF Good, LaneThere, ColumnsHeld, EntryColumns
  <2>2. ~(held[p][OfColumn(req[q].col)] >= NoKeyUpdate) /\ req[q].col \in cols
    BY <1>2, <1>5, <2>1, Excluded
  <2> QED BY <2>1, <2>2 DEF Covered
<1>16. ASSUME pc[q] \in Late, NEW c \in Live',
              \/ Op(q) \in Cascades /\ c \in Container(q)'
              \/ \E cell \in Cells(q, seen[q]) : c \in InCell(cell[1], cell[2])'
       PROVE  c \in Live /\ card'[c].col = card[c].col /\ card'[c].lane = card[c].lane
  <2>1. c \in Cards /\ card'[c].st = "live" /\ card'[c].col \in cols'
    BY DEF Covered, Housed, Live
  <2>2. card'[c].col \in EntryColumns(q)
    <3>1. CASE Op(q) = "dropColumn" /\ c \in Container(q)'
      BY <1>1, <3>1 DEF Container, InColumn, EntryColumns, Op
    <3>2. CASE Op(q) \in {"dropLane", "dropBoard"}
      BY <1>2, <1>11, <1>16, <2>1, <3>2 DEF EntryColumns, Cascades, Creations
    <3>3. CASE \E cell \in Cells(q, seen[q]) : c \in InCell(cell[1], cell[2])'
      <4>1. PICK cell \in Cells(q, seen[q]) : card'[c].col = cell[1]
        BY <3>3 DEF InCell, InColumn
      <4> QED BY <4>1 DEF Cells, Target, Targeting, EntryColumns, Creations
    <3> QED BY <1>16, <3>1, <3>2, <3>3 DEF Cascades
  <2>3. held[q][OfColumn(card'[c].col)] >= NoKeyUpdate
    BY <1>16, <2>2 DEF Good, ColumnsHeld
  <2>4. ~(held[p][OfColumn(card'[c].col)] >= NoKeyUpdate)
    BY <1>2, <2>1, <2>3, Excluded
  <2> QED BY <2>1, <2>4 DEF Covered
<1>17. MembersHeld(q)'
  <2> SUFFICES ASSUME pc[q] \in Late, NEW c \in Members(q, seen[q])'
               PROVE  held[q][OfCard(c)] = Update
    BY <1>1 DEF MembersHeld
  <2>1. \/ Op(q) \in Cascades /\ c \in Container(q)'
        \/ \E cell \in Cells(q, seen[q]) : c \in InCell(cell[1], cell[2])'
    BY <1>1 DEF Members, Container, Cells, Target, Cascades, Op
  <2>2. c \in Live'
    BY <2>1 DEF Container, InCell, InColumn, InLane
  <2>3. c \in Live /\ card'[c].col = card[c].col /\ card'[c].lane = card[c].lane
    BY <1>16, <2>1, <2>2
  <2>4. c \in Members(q, seen[q])
    BY <1>1, <2>1, <2>3 DEF Members, Container, InCell, InColumn, InLane, Op
  <2> QED BY <2>4 DEF Good, MembersHeld
<1>18. CascadeReady(q)'
  <2> SUFFICES ASSUME pc[q] \in Late, Op(q) \in Cascades
               PROVE  /\ pc[q] \in {"write", "fkey"}
                      /\ doomed[q] = Container(q)'
                      /\ ~TargetGone(q)'
                      /\ \A r \in CascadeRows(q)' :
                           (pc[q] = "write" /\ r \in todo[q]) \/ held[q][r] >= WriteMode(q, r)
    BY <1>1 DEF CascadeReady, WriteMode, Op
  <2>1. /\ pc[q] \in {"write", "fkey"} /\ doomed[q] = Container(q) /\ ~TargetGone(q)
        /\ \A r \in CascadeRows(q) :
             (pc[q] = "write" /\ r \in todo[q]) \/ held[q][r] >= WriteMode(q, r)
    BY DEF Good, CascadeReady
  <2>2. Container(q)' = Container(q)
    <3>1. ASSUME NEW c \in Container(q)' PROVE c \in Container(q)
      <4>1. c \in Live'
        BY DEF Container, InColumn, InLane
      <4>2. c \in Live /\ card'[c].col = card[c].col /\ card'[c].lane = card[c].lane
        BY <1>16, <3>1, <4>1
      <4> QED BY <1>1, <3>1, <4>2 DEF Container, InColumn, InLane, Op
    <3>2. ASSUME NEW c \in Container(q) PROVE c \in Container(q)'
      <4>1. held[q][OfCard(c)] = Update /\ c \in Live /\ c \in Cards
        BY <3>2, RowTypes, <1>2 DEF Good, MembersHeld, Members
      <4>2. card'[c] = card[c]
        BY <1>2, <4>1, Excluded DEF Covered, Live
      <4> QED BY <1>1, <3>2, <4>1, <4>2 DEF Container, InColumn, InLane, Live, Op
    <3> QED BY <3>1, <3>2
  <2>3. up /\ up'
    <3>1. BoardRow \in Existing /\ BoardRow \in Existing'
      BY <1>2, <1>3, <1>11 DEF NoKeyUpdate, None
    <3> QED BY <3>1 DEF Existing, OfCard, OfColumn, OfLane, BoardRow
  <2>4. Op(q) = "dropColumn" => req[q].col \in cols'
    BY <1>2, <1>5 DEF Good, ColumnsHeld, EntryColumns
  <2>5. \A l \in lanes : l \in lanes'
    BY <1>2, <1>11, Excluded DEF Covered
  <2>6. ~TargetGone(q)'
    BY <1>1, <2>1, <2>3, <2>4, <2>5 DEF TargetGone, Op, Targeting, Cascades, Creations
  <2>7. CascadeRows(q)' \subseteq CascadeRows(q)
    BY <1>1, <1>2, <1>11, <2>2, <2>5 DEF CascadeRows, Op, Covered
  <2> QED BY <2>1, <2>2, <2>6, <2>7
<1> QED BY <1>4, <1>6, <1>7, <1>8, <1>10, <1>13, <1>14, <1>15, <1>17, <1>18 DEF Good

-----------------------------------------------------------------------------
(* The invariant.                                                           *)

\* Nothing is promised before the first step, and the board starts housed.
LEMMA InitIInv == Init => IInv /\ NoIntegrityError
<1> SUFFICES ASSUME Init PROVE IInv /\ NoIntegrityError
  OBVIOUS
<1>1. card \in [Cards -> CardRecord] /\ ContentsTypeOK /\ Housed
  BY InitAssumption DEF Init, ContentsTypeOK, Housed, Live
<1>2. \A p \in Procs : req[p] \in RequestRecord
  BY RequestsAssumption DEF Init
<1>3. seen \in [Procs -> CardRecord]
  BY <1>1, <1>2 DEF Init, RequestRecord
<1>4. TypeOK
  <2>1. None \in Modes /\ 0 \in 0 .. MaxTries - 1
    BY RequestsAssumption DEF Modes, None, Update
  <2>2. held \in [Procs -> [Rows -> Modes]] /\ tries \in [Procs -> 0 .. MaxTries - 1]
    BY <2>1 DEF Init
  <2>3. /\ req \in [Procs -> Requests] /\ pc \in [Procs -> Places] /\ todo \in [Procs -> SUBSET Rows]
        /\ doomed \in [Procs -> SUBSET Cards] /\ out \in [Procs -> Answers]
    BY DEF Init, Places, Answers
  <2> QED BY <1>1, <1>3, <2>2, <2>3 DEF TypeOK
<1>5. LocksCompatible
  <2> SUFFICES ASSUME NEW p \in Procs, NEW q \in Procs, NEW r \in Rows
               PROVE  held[p][r] + held[q][r] < 5
    BY DEF LocksCompatible, Compatible
  <2>1. held[p][r] = 0 /\ held[q][r] = 0
    BY DEF Init, None
  <2> QED BY <2>1
<1>6. CreationsDistinct
  BY DEF Init, Sensible, CreationsDistinct
<1>7. ASSUME NEW p \in Procs PROVE Good(p)
  <2>1. pc[p] = "read" /\ "read" \notin Late /\ "read" \notin Decided
    BY DEF Init, Late, Decided
  <2>2. \A r \in Rows : held[p][r] = None
    BY DEF Init
  <2>3. HeldExist(p) /\ CardBorn(p) /\ BoardHeld(p) /\ CardComing(p) /\ CardHeld(p)
    BY <2>1, <2>2 DEF HeldExist, CardBorn, BoardHeld, CardComing, CardHeld
  <2>4. CreationFresh(p)
    BY DEF Init, Sensible, CreationFresh
  <2>5. EarlyModes(p)
    BY <2>2, RowFacts DEF EarlyModes
  <2>6. /\ ColumnsComing(p) /\ ColumnsHeld(p) /\ LaneThere(p) /\ MembersHeld(p)
        /\ CascadeReady(p) /\ ForeignKeysComing(p)
    BY <2>1 DEF ColumnsComing, ColumnsHeld, LaneThere, MembersHeld, CascadeReady, ForeignKeysComing
  <2> QED BY <2>3, <2>4, <2>5, <2>6 DEF Good
<1>8. NoIntegrityError
  BY DEF Init, NoIntegrityError
<1> QED BY <1>1, <1>4, <1>5, <1>6, <1>7, <1>8 DEF IInv

\* The database aborting a request changes nothing but the request.
LEMMA AbortStep ==
    ASSUME TypeOK, LocksCompatible, NEW p \in Procs, Abort(p)
    PROVE  Quiet(p)
  BY QuietRefusal DEF Abort

\* Every step of a request but a commit is quiet.
LEMMA StepQuiet ==
    ASSUME TypeOK, LocksCompatible, Housed, NEW p \in Procs, Good(p), Step(p)
    PROVE  Quiet(p) \/ Commit(p)
  BY ReadStep, LockBoardStep, SnapshotCardsStep, LockCardStep, CardsLockedStep, LockColumnStep,
     ColumnsLockedStep, LockLaneStep, CheckStep, WriteRowStep, WritesDoneStep, CheckForeignKeyStep,
     AbortStep DEF Step

\* Every step of the system keeps the invariant.
LEMMA NextIInv == IInv /\ NoIntegrityError /\ [Next]_vars => (IInv /\ NoIntegrityError)'
<1> SUFFICES ASSUME IInv, NoIntegrityError, [Next]_vars
             PROVE  (IInv /\ NoIntegrityError)'
  OBVIOUS
<1>0. TypeOK /\ LocksCompatible /\ CreationsDistinct /\ Housed /\ \A p \in Procs : Good(p)
  BY DEF IInv
<1>1. ASSUME NEW p \in Procs, Quiet(p)
      PROVE  (IInv /\ NoIntegrityError)'
  <2>1. TypeOK' /\ LocksCompatible' /\ UNCHANGED contents /\ OthersKept(p) /\ Good(p)'
    BY <1>1 DEF Quiet
  <2>2. ASSUME NEW q \in Procs \ {p} PROVE Good(q)'
    BY <1>0, <2>1, GoodKept DEF OthersKept
  <2>3. CreationsDistinct'
    BY <1>0, <2>1 DEF CreationsDistinct, OthersKept, Op
  <2>4. Housed'
    BY <1>0, <2>1 DEF Housed, Live, contents
  <2>5. NoIntegrityError'
    BY <1>1 DEF Quiet, NoIntegrityError
  <2> QED BY <2>1, <2>2, <2>3, <2>4, <2>5 DEF IInv
<1>2. ASSUME NEW p \in Procs, Commit(p)
      PROVE  (IInv /\ NoIntegrityError)'
  <2>1. Covered(p) /\ End(p, "ok") /\ UNCHANGED <<req, seen, tries, doomed>>
    BY <1>0, <1>2, CommitCovered
  <2>2. /\ pc' \in [Procs -> Places] /\ todo' \in [Procs -> SUBSET Rows]
        /\ out' \in [Procs -> Answers] /\ HeldType' /\ LocksCompatible'
        /\ pc'[p] = "done" /\ todo'[p] = {} /\ out'[p] = "ok"
        /\ \A r \in Rows : held'[p][r] = None
        /\ \A q \in Procs \ {p} : /\ pc'[q] = pc[q] /\ todo'[q] = todo[q]
                                 /\ held'[q] = held[q] /\ out'[q] = out[q]
    <3>1. "ok" \in Answers
      BY DEF Answers
    <3> QED BY <1>0, <2>1, <3>1, EndStep
  <2>3. TypeOK'
    BY <1>0, <2>1, <2>2 DEF TypeOK, HeldType, Covered
  <2>4. OthersKept(p)
    BY <2>1, <2>2 DEF OthersKept
  <2>5. Good(p)'
    BY <2>2, DoneGood
  <2>6. ASSUME NEW q \in Procs \ {p} PROVE Good(q)'
    BY <1>0, <2>1, <2>4, GoodThroughCommit
  <2>7. CreationsDistinct'
    BY <1>0, <2>1 DEF CreationsDistinct, Op
  <2>8. Housed'
    BY <2>1 DEF Covered
  <2>9. NoIntegrityError'
    BY <2>2 DEF NoIntegrityError
  <2> QED BY <2>2, <2>3, <2>5, <2>6, <2>7, <2>8, <2>9 DEF IInv
<1>3. ASSUME UNCHANGED vars
      PROVE  (IInv /\ NoIntegrityError)'
  <2>1. /\ card' = card /\ cols' = cols /\ lanes' = lanes /\ up' = up /\ held' = held /\ req' = req
        /\ pc' = pc /\ seen' = seen /\ todo' = todo /\ tries' = tries /\ doomed' = doomed /\ out' = out
    BY <1>3 DEF vars
  <2>2. TypeOK' /\ LocksCompatible' /\ CreationsDistinct' /\ Housed' /\ NoIntegrityError'
    BY <1>0, <2>1 DEF TypeOK, ContentsTypeOK, LocksCompatible, CreationsDistinct, Housed,
                     NoIntegrityError, Live, Op
  <2>3. ASSUME NEW q \in Procs PROVE Good(q)'
    BY <1>0, <2>1, GoodKept DEF contents
  <2> QED BY <2>2, <2>3 DEF IInv
<1>4. ASSUME NEW p \in Procs, Step(p)
      PROVE  (IInv /\ NoIntegrityError)'
  BY <1>0, <1>1, <1>2, <1>4, StepQuiet
<1> QED BY <1>3, <1>4 DEF Next, Finished

\* The row locks, taken in the order and modes of the code, guarantee what
\* IInv says, and no request fails at COMMIT on a foreign key.
THEOREM Invariance == Spec => [](IInv /\ NoIntegrityError)
  BY InitIInv, NextIInv, PTL DEF Spec

\* Every variable always has its type.
THEOREM TypeCorrectness == Spec => []TypeOK
<1>1. IInv => TypeOK
  BY DEF IInv
<1> QED BY <1>1, Invariance, PTL

\* No IntegrityError: whoever loses a race with a delete of the column, the
\* swimlane or the board is answered 404 or 409, never 500.
THEOREM NoForeignKeyFails == Spec => []NoIntegrityError
  BY Invariance, PTL

\* A move, a placement or a cascade holds every row of its cells or container
\* from its re-check to its commit.
THEOREM MembersStayLocked == Spec => []MembersLocked
<1>1. IInv => MembersLocked
  BY DEF IInv, Good, MembersHeld, MembersLocked, Late
<1> QED BY <1>1, Invariance, PTL

\* A request commits the decision it made on a row nobody has changed since.
THEOREM DecisionsStayCurrent == Spec => []DecidedOnCurrentRow
<1>1. IInv => DecidedOnCurrentRow
  BY DEF IInv, Good, CardHeld, DecidedOnCurrentRow, Decided, Late
<1> QED BY <1>1, Invariance, PTL

-----------------------------------------------------------------------------
(* The refinement: CardLocks implements BoardContents.  Whatever the        *)
(* interleaving, a request that commits does to the board what it may do    *)
(* alone.  The invariant above is completed with what makes a limit checked *)
(* early still hold at the commit.  Last, its deadlocks.                    *)

(* Steps of the request itself.                                             *)

\* A request that is done has nothing left to be admitted for.
LEMMA DoneAdmitted ==
    ASSUME NEW p \in Procs, pc'[p] = "done"
    PROVE  Admitted(p)'
<1>1. /\ pc'[p] \notin Decided /\ pc'[p] \notin Late /\ pc'[p] # "columns"
      /\ pc'[p] \notin {"check", "write", "fkey"}
  BY DEF Decided, Late
<1> QED BY <1>1 DEF Admitted, NewColumnFresh, Entitled, LimitColumnComing, LimitColumnHeld,
                    LimitLaneHeld, RoomKept

\* Before its card is locked, only the column it creates matters.
LEMMA EarlyAdmitted ==
    ASSUME NEW p \in Procs, Admitted(p), pc[p] # "done", UNCHANGED contents, req' = req,
           pc'[p] \in {"read", "board", "snap", "cards"}
    PROVE  Admitted(p)'
<1>1. /\ pc'[p] \notin Decided /\ pc'[p] \notin Late /\ pc'[p] # "columns"
      /\ pc'[p] \notin {"check", "write", "fkey"}
  BY DEF Decided, Late
<1>2. NewColumnFresh(p)'
  BY DEF Admitted, NewColumnFresh, contents, Op
<1> QED BY <1>1, <1>2 DEF Admitted, Entitled, LimitColumnComing, LimitColumnHeld, LimitLaneHeld,
                         RoomKept

\* What applies to a request depends on its row as read, not on the tables.
LEMMA AppliesKept ==
    ASSUME NEW p \in Procs, req'[p] = req[p], seen'[p] = seen[p]
    PROVE  /\ Op(p)' = Op(p)
           /\ Target(p, seen[p])' = Target(p, seen[p])
           /\ ColumnApplies(p)' = ColumnApplies(p)
           /\ LaneApplies(p)' = LaneApplies(p)
           /\ Missing(p, seen[p])' = Missing(p, seen[p])
           /\ Nothing(p, seen[p])' = Nothing(p, seen[p])
  BY DEF ColumnApplies, LaneApplies, Target, Enforces, CellChange, CountsIn, Op, Missing, Nothing

\* Without a write, a limit is exceeded when it was.
LEMMA OverLimitKept ==
    ASSUME NEW p \in Procs, UNCHANGED contents, req'[p] = req[p], seen'[p] = seen[p]
    PROVE  OverLimit(p)' = OverLimit(p)
<1>1. card' = card
  BY DEF contents
<1> QED BY <1>1, AppliesKept
        DEF OverLimit, RoomInColumn, RoomInLane, ColumnLoad, LaneLoad, InColumn, InLane, Live

\* What holds of a request goes on holding while it does not step and nobody
\* changes the tables.
LEMMA AdmittedKept ==
    ASSUME NEW q \in Procs, Admitted(q), UNCHANGED contents,
           req'[q] = req[q], pc'[q] = pc[q], seen'[q] = seen[q], todo'[q] = todo[q],
           held'[q] = held[q]
    PROVE  Admitted(q)'
<1>1. NewColumnFresh(q)' /\ Entitled(q)'
  BY AppliesKept DEF Admitted, NewColumnFresh, Entitled, contents
<1>2. LimitColumnComing(q)' /\ LimitColumnHeld(q)' /\ LimitLaneHeld(q)'
  BY AppliesKept DEF Admitted, LimitColumnComing, LimitColumnHeld, LimitLaneHeld
<1>3. RoomKept(q)'
  BY OverLimitKept DEF Admitted, RoomKept
<1> QED BY <1>1, <1>2, <1>3 DEF Admitted

\* After the re-check locks are only added; the limits are all that is left.
LEMMA LateAdmitted ==
    ASSUME TypeOK, NEW p \in Procs, Admitted(p), pc[p] \in Late, pc'[p] \in Late,
           UNCHANGED <<contents, req, seen>>,
           \A s \in Rows : held[p][s] \in Nat /\ held'[p][s] \in Nat /\ held'[p][s] >= held[p][s],
           LimitLaneHeld(p)', RoomKept(p)'
    PROVE  Admitted(p)'
<1>1. /\ pc[p] \in Decided /\ pc'[p] \in Decided /\ pc[p] # "done" /\ pc'[p] # "columns"
      /\ cols' = cols /\ req' = req /\ seen' = seen
  BY DEF Late, Decided, contents
<1>2. NewColumnFresh(p)' /\ Entitled(p)' /\ LimitColumnComing(p)'
  BY <1>1, AppliesKept DEF Admitted, NewColumnFresh, Entitled, LimitColumnComing
<1>3. LimitColumnHeld(p)'
  <2> DEFINE r == OfColumn(Target(p, seen[p])[1])
  <2>1. r \in Rows
    BY RequestFields, RowTypes, RowFacts
  <2>2. held[p][r] >= NoKeyUpdate => held'[p][r] >= NoKeyUpdate
    BY <2>1 DEF NoKeyUpdate
  <2> QED BY <1>1, <2>2, AppliesKept DEF Admitted, LimitColumnHeld
<1> QED BY <1>2, <1>3 DEF Admitted

\* Reading and the first two statements decide nothing about limits.
LEMMA EarlyStepAdmitted ==
    ASSUME TypeOK, LocksCompatible, NEW p \in Procs, Admitted(p),
           Read(p) \/ LockBoard(p) \/ SnapshotCards(p) \/ LockCard(p)
    PROVE  Admitted(p)'
<1>1. ASSUME NEW a \in Answers, Refuse(p, a) PROVE Admitted(p)'
  BY <1>1, RefuseStep, DoneAdmitted
<1>2. {"404", "ok"} \subseteq Answers
  BY DEF Answers
<1>3. CASE \E where \in {"read", "board", "snap", "cards"} :
             /\ pc' = [pc EXCEPT ![p] = where] /\ pc[p] # "done"
             /\ UNCHANGED <<contents, req>>
  BY <1>3, EarlyAdmitted DEF TypeOK
<1>4. CASE Read(p)
  BY <1>1, <1>2, <1>3, <1>4 DEF Read, Goto
<1>5. CASE LockBoard(p)
  <2>1. CASE Refuse(p, "404")
    BY <1>1, <1>2, <2>1
  <2>2. CASE ~Refuse(p, "404") /\ Op(p) \in {"create", "reorderColumns", "reorderLanes", "addColumn"}
    <3>1. /\ UNCHANGED <<contents, req, seen>> /\ pc[p] = "board"
          /\ pc'[p] \in {"columns", "write", "fkey"}
          /\ pc'[p] = "columns" => Op(p) \in {"create", "reorderColumns"}
          /\ pc'[p] # "columns" => Op(p) \in {"reorderLanes", "addColumn"}
      BY <1>5, <2>2 DEF LockBoard, Goto, TypeOK
    <3>2. Op(p) \notin CardOps /\ Op(p)' = Op(p) /\ cols' = cols /\ req' = req
      BY <2>2, <3>1, AppliesKept DEF CardOps, contents
    <3>3. NewColumnFresh(p)' /\ Entitled(p)' /\ LimitColumnComing(p)'
      BY <3>1, <3>2 DEF Admitted, NewColumnFresh, Entitled, LimitColumnComing, CardOps
    <3>4. pc'[p] \in Late => Op(p) \notin Placing
      BY <3>1 DEF Late, Placing, Targeting, Creations
    <3>5. LimitColumnHeld(p)' /\ LimitLaneHeld(p)' /\ RoomKept(p)'
      BY <3>2, <3>4, AppliesKept DEF LimitColumnHeld, LimitLaneHeld, RoomKept, OverLimit, Late
    <3> QED BY <3>3, <3>5 DEF Admitted
  <2>3. CASE ~Refuse(p, "404") /\ Op(p) \notin {"create", "reorderColumns", "reorderLanes", "addColumn"}
    BY <1>3, <1>5, <2>3 DEF LockBoard, Goto
  <2> QED BY <2>1, <2>2, <2>3
<1>6. CASE SnapshotCards(p)
  BY <1>3, <1>6 DEF SnapshotCards, Goto
<1>7. CASE LockCard(p)
  BY <1>3, <1>7 DEF LockCard, Goto
<1> QED BY <1>4, <1>5, <1>6, <1>7

\* With its card locked, the request knows that it may act on it, and a restore
\* has the limited column among the rows it locks next.
LEMMA CardsLockedAdmitted ==
    ASSUME TypeOK, LocksCompatible, Housed, NEW p \in Procs, Admitted(p), CardsLocked(p)
    PROVE  Admitted(p)'
<1> DEFINE s == LockedRow(p)
<1>1. CASE Refuse(p, "404") \/ Refuse(p, "ok")
  <2>1. {"404", "ok"} \subseteq Answers
    BY DEF Answers
  <2> QED BY <1>1, <2>1, RefuseStep, DoneAdmitted
<1>2. CASE Retry(p)
  <2>1. /\ UNCHANGED contents /\ req' = req
        /\ pc'[p] \in {"done", "read", "snap"}
    BY <1>2, RetryStep DEF OthersKept
  <2> QED BY <2>1, DoneAdmitted, EarlyAdmitted DEF CardsLocked
<1>3. CASE /\ ~Missing(p, s) /\ ~Nothing(p, s)
           /\ seen' = [seen EXCEPT ![p] = s]
           /\ IF Op(p) \in {"update", "block", "archive", "delete"} THEN Goto(p, "write", {})
              ELSE Goto(p, "columns", {OfColumn(k) : k \in ColumnsToLock(p, s)})
           /\ UNCHANGED <<contents, held, req, tries, doomed, out>>
  <2>1. /\ req' = req /\ cols' = cols /\ seen'[p] = s /\ pc[p] = "cards"
        /\ pc'[p] \in {"write", "columns"}
        /\ pc'[p] = "write" => Op(p) \in {"update", "block", "archive", "delete"}
        /\ pc'[p] = "columns" => todo'[p] = {OfColumn(k) : k \in ColumnsToLock(p, s)}
    BY <1>3 DEF CardsLocked, contents, Goto, TypeOK
  <2>2. NewColumnFresh(p)'
    BY <2>1 DEF Admitted, NewColumnFresh, Op
  <2>3. Entitled(p)'
    BY <1>3, <2>1 DEF Entitled, Missing, Nothing, Op
  <2>4. LimitColumnComing(p)'
    <3> SUFFICES ASSUME pc'[p] = "columns", Op(p) = "restore", s.col \in DOMAIN ColumnLimit
                 PROVE  OfColumn(s.col) \in todo'[p]
      BY <2>1 DEF LimitColumnComing, Op
    <3>1. s = card[req[p].card] /\ req[p].card \in Live
      BY <1>3, RequestFields DEF LockedRow, Missing, CardOps, Live
    <3>2. s.col \in cols
      BY <3>1 DEF Housed
    <3>3. s.col \in ColumnsToLock(p, s)
      BY <3>2 DEF ColumnsToLock, Creations
    <3> QED BY <2>1, <3>3
  <2>5. pc'[p] \in Late => Op(p) \notin Placing
    BY <2>1 DEF Late, Placing, Targeting, Creations
  <2>6. LimitColumnHeld(p)' /\ LimitLaneHeld(p)' /\ RoomKept(p)'
    BY <2>1, <2>5 DEF LimitColumnHeld, LimitLaneHeld, RoomKept, OverLimit, Late, Op
  <2> QED BY <2>2, <2>3, <2>4, <2>6 DEF Admitted
<1> QED BY <1>1, <1>2, <1>3 DEF CardsLocked

\* A limited column still to be locked stays on the list until it is.
LEMMA LockColumnAdmitted ==
    ASSUME TypeOK, LocksCompatible, Housed, NEW p \in Procs, Good(p), Admitted(p), LockColumn(p)
    PROVE  Admitted(p)'
<1>1. PICK r \in FirstByPk(todo[p]) :
        /\ IF r \in Existing THEN Take(p, r, ColumnMode(Op(p))) ELSE UNCHANGED held
        /\ Goto(p, "columns", todo[p] \ {r})
  BY DEF LockColumn
<1>2. /\ pc[p] = "columns" /\ UNCHANGED contents /\ req' = req /\ seen' = seen
      /\ cols' = cols /\ "columns" \in Decided /\ "columns" \notin Late
      /\ "columns" \notin {"check", "write", "fkey"}
  BY DEF LockColumn, contents, Decided, Late
<1>3. r \in Rows /\ pc'[p] = "columns" /\ todo'[p] = todo[p] \ {r}
  BY <1>1 DEF FirstByPk, Goto, TypeOK
<1>4. /\ \A s \in Rows : held[p][s] \in Nat /\ held'[p][s] \in Nat
      /\ \A s \in Rows : held'[p][s] >= held[p][s]
      /\ r \in Existing => held'[p][r] >= ColumnMode(Op(p))
  BY <1>1, <1>2, <1>3, ModeTypes, TakeIfThere DEF Good
<1>5. NewColumnFresh(p)' /\ Entitled(p)'
  BY <1>2, <1>3, AppliesKept DEF Admitted, NewColumnFresh, Entitled
<1>6. LimitColumnComing(p)'
  <2> DEFINE row == OfColumn(seen[p].col)
  <2> SUFFICES ASSUME Op(p) = "restore", seen[p].col \in DOMAIN ColumnLimit, row \notin todo'[p]
               PROVE  held'[p][row] >= NoKeyUpdate
    BY <1>2, <1>3, AppliesKept DEF LimitColumnComing
  <2>1. seen[p] = card[req[p].card] /\ req[p].card \in Live
    BY <1>2 DEF Good, CardHeld, CardOps
  <2>2. row \in Rows /\ row \in Existing
    BY <2>1, RowFacts, ExistingFacts DEF Housed, TypeOK, ContentsTypeOK
  <2>3. CASE row = r
    <3>1. held'[p][r] >= ColumnMode(Op(p)) /\ held'[p][r] \in Nat
      BY <1>3, <1>4, <2>2, <2>3
    <3> QED BY <2>3, <3>1, ModeTypes DEF NoKeyUpdate, Update
  <2>4. CASE row # r
    <3>1. held[p][row] >= NoKeyUpdate
      BY <1>2, <1>3, <2>4 DEF Admitted, LimitColumnComing
    <3> QED BY <1>4, <2>2, <3>1 DEF NoKeyUpdate
  <2> QED BY <2>3, <2>4
<1>7. LimitColumnHeld(p)' /\ LimitLaneHeld(p)' /\ RoomKept(p)'
  BY <1>2, <1>3 DEF LimitColumnHeld, LimitLaneHeld, RoomKept
<1> QED BY <1>5, <1>6, <1>7 DEF Admitted

\* After the re-check, a request that a column limit applies to holds the column.
LEMMA ColumnsLockedAdmitted ==
    ASSUME TypeOK, LocksCompatible, NEW p \in Procs, Good(p), Admitted(p), ColumnsLocked(p)
    PROVE  Admitted(p)'
<1>1. CASE Refuse(p, "404")
  BY <1>1, RefuseStep, DoneAdmitted DEF Answers
<1>2. CASE Retry(p)
  <2>1. UNCHANGED contents /\ req' = req /\ pc'[p] \in {"done", "read", "snap"}
    BY <1>2, RetryStep DEF OthersKept
  <2> QED BY <2>1, DoneAdmitted, EarlyAdmitted DEF ColumnsLocked
<1>3. CASE /\ ~ContainerGone(p)
           /\ IF Op(p) \in Cascades THEN Goto(p, "write", NotYetHeld(p, CascadeRows(p)))
              ELSE IF Op(p) = "reorderColumns"
                   THEN Goto(p, "write", NotYetHeld(p, {OfColumn(k) : k \in cols}))
              ELSE Goto(p, IF LaneApplies(p) THEN "lane" ELSE "check", {})
           /\ UNCHANGED <<contents, held, req, seen, tries, out>>
  <2>1. /\ pc[p] = "columns" /\ todo[p] = {} /\ pc'[p] \in Late /\ pc'[p] # "columns"
        /\ pc[p] \in Early /\ pc[p] \in Decided
        /\ pc'[p] \in {"write", "fkey"} => Op(p) \in Cascades \cup {"reorderColumns"}
        /\ pc'[p] = "check" => ~LaneApplies(p)
        /\ req' = req /\ seen' = seen /\ held' = held /\ cols' = cols
    BY <1>3 DEF ColumnsLocked, Goto, TypeOK, Late, Early, Places, Decided, contents
  <2>2. NewColumnFresh(p)' /\ Entitled(p)' /\ LimitColumnComing(p)'
    BY <2>1, AppliesKept DEF Admitted, NewColumnFresh, Entitled, LimitColumnComing
  <2>3. LimitColumnHeld(p)'
    <3> DEFINE k == Target(p, seen[p])[1]
    <3> SUFFICES ASSUME Op(p) \in Placing, ColumnApplies(p)
                 PROVE  held[p][OfColumn(k)] >= NoKeyUpdate
      BY <2>1, AppliesKept DEF LimitColumnHeld
    <3>1. k \in DOMAIN ColumnLimit /\ Enforces(p, seen[p])
      BY DEF ColumnApplies
    <3>2. CASE Op(p) \in Targeting
      <4>1. k = req[p].col /\ (Op(p) = "admin" => Enforces(p, seen[p]))
        BY <3>1, <3>2 DEF Target
      <4>2. held[p][OfColumn(k)] # None
        BY <1>3, <3>2, <4>1 DEF ContainerGone, ColumnNotLocked
      <4>3. held[p][OfColumn(k)] \in {None, NoKeyUpdate, Update}
        BY <2>1, <4>1, RequestFields DEF Good, EarlyModes
      <4> QED BY <4>2, <4>3 DEF NoKeyUpdate, Update
    <3>3. CASE Op(p) = "restore"
      BY <2>1, <3>1, <3>3 DEF Admitted, LimitColumnComing, Target, Targeting, Creations
    <3> QED BY <3>2, <3>3 DEF Placing
  <2>4. LimitLaneHeld(p)' /\ RoomKept(p)'
    <3>1. pc'[p] \in {"write", "fkey"} => Op(p) \notin Placing
      BY <2>1 DEF Cascades, Placing, Targeting, Creations
    <3> QED BY <2>1, <3>1, AppliesKept DEF LimitLaneHeld, RoomKept, OverLimit
  <2> QED BY <2>2, <2>3, <2>4 DEF Admitted
<1> QED BY <1>1, <1>2, <1>3 DEF ColumnsLocked

\* The swimlane is held before it is counted, and what was counted when the
\* request passed its check stays counted while it locks the rows it writes.
LEMMA LateStepAdmitted ==
    ASSUME TypeOK, LocksCompatible, Housed, NEW p \in Procs, Good(p), Admitted(p),
           LockLane(p) \/ Check(p) \/ WriteRow(p) \/ WritesDone(p) \/ CheckForeignKey(p)
    PROVE  Admitted(p)'
<1>0. ASSUME NEW a \in Answers, Refuse(p, a) PROVE Admitted(p)'
  BY <1>0, RefuseStep, DoneAdmitted
<1>1. {"404", "409", "500"} \subseteq Answers
  BY DEF Answers
<1>2. Late = {"lane", "check", "write", "fkey"} /\ \A s \in Rows : held[p][s] \in Modes /\ held[p][s] \in Nat
  BY DEF Late, TypeOK, Modes, None, Update
<1> DEFINE lane == OfLane(Target(p, seen[p])[2])
<1>3. lane \in Rows
  BY RequestFields, RowTypes, RowFacts
\* From the check on, every step but the last has this shape.
<1>4. ASSUME pc[p] \in {"check", "write", "fkey"}, pc'[p] \in {"write", "fkey"},
             pc[p] = "check" => ~OverLimit(p),
             UNCHANGED <<contents, req, seen>>,
             \A s \in Rows : held[p][s] \in Nat /\ held'[p][s] \in Nat /\ held'[p][s] >= held[p][s]
      PROVE  Admitted(p)'
  <2>1. LimitLaneHeld(p)'
    <3>1. held[p][lane] >= NoKeyUpdate => held'[p][lane] >= NoKeyUpdate
      BY <1>3, <1>4 DEF NoKeyUpdate
    <3> QED BY <1>4, <3>1, AppliesKept DEF Admitted, LimitLaneHeld
  <2>2. RoomKept(p)'
    BY <1>4, OverLimitKept DEF Admitted, RoomKept
  <2> QED BY <1>2, <1>4, <2>1, <2>2, LateAdmitted
<1>5. CASE LockLane(p)
  <2>1. CASE /\ Take(p, lane, NoKeyUpdate) /\ Goto(p, "check", {})
             /\ Target(p, seen[p])[2] \in lanes
             /\ UNCHANGED <<contents, req, seen, tries, doomed, out>>
    <3>1. pc[p] = "lane" /\ pc'[p] = "check"
      BY <1>5, <2>1 DEF LockLane, Goto, TypeOK
    <3>2. lane \in Existing
      BY <2>1, ExistingFacts DEF TypeOK, ContentsTypeOK
    <3>3. /\ \A s \in Rows : held[p][s] \in Nat /\ held'[p][s] \in Nat
          /\ \A s \in Rows : held'[p][s] >= held[p][s]
          /\ held'[p][lane] >= NoKeyUpdate
      <4> HIDE DEF lane
      <4>1. IF lane \in Existing THEN Take(p, lane, NoKeyUpdate) ELSE UNCHANGED held
        BY <2>1, <3>2
      <4> QED BY <1>3, <2>1, <3>2, <4>1, ModeTypes, TakeIfThere DEF Good
    <3>4. LimitLaneHeld(p)'
      BY <2>1, <3>3, AppliesKept DEF LimitLaneHeld
    <3>5. RoomKept(p)'
      BY <3>1 DEF RoomKept
    <3> QED BY <1>2, <2>1, <3>1, <3>3, <3>4, <3>5, LateAdmitted
  <2> QED BY <1>0, <1>1, <1>5, <2>1 DEF LockLane
<1>6. CASE Check(p)
  <2>1. CASE ~OverLimit(p) /\ pc'[p] = "write" /\ UNCHANGED <<contents, req, seen, held>>
    <3>1. \A s \in Rows : held'[p][s] >= held[p][s] /\ held'[p][s] \in Nat
      BY <1>2, <2>1
    <3> QED BY <1>2, <1>4, <1>6, <2>1, <3>1 DEF Check
  <2> QED BY <1>0, <1>1, <1>6, <2>1 DEF Check, Goto, TypeOK
<1>7. CASE WriteRow(p)
  <2>1. PICK r \in todo[p] :
          /\ IF r \in Existing THEN Take(p, r, WriteMode(p, r)) ELSE UNCHANGED held
          /\ Goto(p, "write", todo[p] \ {r})
    BY <1>7 DEF WriteRow
  <2>2. r \in Rows /\ pc[p] = "write" /\ pc'[p] = "write" /\ UNCHANGED <<contents, req, seen>>
    BY <1>7, <2>1 DEF WriteRow, Goto, TypeOK
  <2>3. \A s \in Rows : held'[p][s] >= held[p][s] /\ held'[p][s] \in Nat
    BY <2>1, <2>2, ModeTypes, TakeIfThere DEF Good
  <2> QED BY <1>2, <1>4, <2>2, <2>3
<1>8. CASE WritesDone(p)
  <2>1. pc[p] = "write" /\ pc'[p] = "fkey" /\ UNCHANGED <<contents, req, seen, held>>
    BY <1>8 DEF WritesDone, Goto, TypeOK
  <2>2. \A s \in Rows : held'[p][s] >= held[p][s] /\ held'[p][s] \in Nat
    BY <1>2, <2>1
  <2> QED BY <1>2, <1>4, <2>1, <2>2
<1>9. CASE CheckForeignKey(p)
  <2>1. PICK r \in todo[p] :
          IF r \in Existing
          THEN /\ Take(p, r, KeyShare)
               /\ Goto(p, "fkey", todo[p] \ {r})
               /\ UNCHANGED <<contents, req, seen, tries, doomed, out>>
          ELSE Refuse(p, "500")
    BY <1>9 DEF CheckForeignKey
  <2>2. CASE r \in Existing
    <3>1. r \in Rows /\ pc[p] = "fkey" /\ pc'[p] = "fkey" /\ UNCHANGED <<contents, req, seen>>
      BY <1>9, <2>1, <2>2 DEF CheckForeignKey, Goto, TypeOK
    <3>2. \A s \in Rows : held'[p][s] >= held[p][s] /\ held'[p][s] \in Nat
      BY <2>1, <2>2, <3>1, ModeTypes, TakeIfThere DEF Good
    <3> QED BY <1>2, <1>4, <3>1, <3>2
  <2> QED BY <1>0, <1>1, <2>1, <2>2
<1> QED BY <1>5, <1>6, <1>7, <1>8, <1>9

\* A step of the request itself, short of its commit, keeps it admitted.
LEMMA StepAdmitted ==
    ASSUME TypeOK, LocksCompatible, Housed, NEW p \in Procs, Good(p), Admitted(p), Step(p), ~Commit(p)
    PROVE  Admitted(p)'
<1>1. CASE Abort(p)
  BY <1>1, RefuseStep, DoneAdmitted DEF Abort, Answers
<1> QED BY <1>1, EarlyStepAdmitted, CardsLockedAdmitted, LockColumnAdmitted, ColumnsLockedAdmitted,
           LateStepAdmitted DEF Step

-----------------------------------------------------------------------------
(* The commit.                                                              *)

\* What a request knows of the tables when it commits.
LEMMA AtCommit ==
    ASSUME TypeOK, LocksCompatible, Housed, NEW p \in Procs, Good(p), Admitted(p), Commit(p)
    PROVE  /\ Effect(p)
           /\ Op(p) \in CardOps =>
                 /\ seen[p] = card[req[p].card] /\ req[p].card \in Live
                 /\ ~Missing(p, seen[p]) /\ ~Nothing(p, seen[p])
                 /\ seen[p].col \in cols /\ seen[p].lane \in lanes
           /\ Op(p) \in Creations => card[req[p].card].st = "unborn"
           /\ Op(p) \in Targeting => req[p].col \in cols /\ req[p].lane \in lanes
           /\ Op(p) \in Cascades => doomed[p] = Container(p) /\ ~TargetGone(p)
           /\ Op(p) = "addColumn" => up /\ req[p].col \notin cols
           /\ Op(p) \in Placing /\ ColumnApplies(p) =>
                 /\ held[p][OfColumn(Target(p, seen[p])[1])] >= NoKeyUpdate
                 /\ RoomInColumn(Target(p, seen[p])[1], req[p].card)
           /\ Op(p) \in Placing /\ LaneApplies(p) =>
                 /\ held[p][OfLane(Target(p, seen[p])[2])] >= NoKeyUpdate
                 /\ RoomInLane(Target(p, seen[p])[2], req[p].card)
<1>1. pc[p] = "fkey" /\ pc[p] \in Late /\ pc[p] \in Decided /\ pc[p] \notin {"read", "board", "done"}
  BY DEF Commit, Late, Decided
<1>2. Op(p) \in Cascades => doomed[p] = Container(p) /\ ~TargetGone(p)
  BY <1>1 DEF Good, CascadeReady
<1>3. Effect(p)
  <2>1. Op(p) \notin Cascades => Container(p) = {}
    BY DEF Cascades, Container
  <2> QED BY <1>2, <2>1 DEF Commit
<1>4. Op(p) \in CardOps =>
        /\ seen[p] = card[req[p].card] /\ req[p].card \in Live
        /\ ~Missing(p, seen[p]) /\ ~Nothing(p, seen[p])
        /\ seen[p].col \in cols /\ seen[p].lane \in lanes
  BY <1>1 DEF Good, CardHeld, Admitted, Entitled, Housed
<1>5. Op(p) \in Creations => card[req[p].card].st = "unborn"
  BY <1>1 DEF Good, CreationFresh
<1>6. Op(p) \in Targeting => req[p].col \in cols /\ req[p].lane \in lanes
  <2> SUFFICES ASSUME Op(p) \in Targeting
               PROVE  req[p].col \in cols /\ req[p].lane \in lanes
    OBVIOUS
  <2>1. CASE Op(p) \in Creations \/ CellChange(p, seen[p])
    <3>1. held[p][OfColumn(req[p].col)] >= NoKeyUpdate /\ req[p].lane \in lanes
      BY <1>1, <2>1 DEF Good, ColumnsHeld, LaneThere, EntryColumns, Targeting, Creations
    <3> QED BY <3>1, RequestFields, RowFacts, ExistingFacts
            DEF Good, HeldExist, NoKeyUpdate, None, TypeOK, ContentsTypeOK
  <2>2. CASE Op(p) \notin Creations /\ ~CellChange(p, seen[p])
    BY <1>4, <2>2 DEF CellChange, Target, Targeting, CardOps
  <2> QED BY <2>1, <2>2
<1>7. Op(p) = "addColumn" => up /\ req[p].col \notin cols
  <2> SUFFICES ASSUME Op(p) = "addColumn" PROVE up /\ req[p].col \notin cols
    OBVIOUS
  <2>1. held[p][BoardRow] >= Update
    BY <1>1 DEF Good, BoardHeld, BoardMode, Cascades, Reorders
  <2>2. up
    BY <2>1, RowFacts, ExistingFacts DEF Good, HeldExist, Update, None, TypeOK, ContentsTypeOK
  <2> QED BY <1>1, <2>2 DEF Admitted, NewColumnFresh
<1>8. /\ Op(p) \in Placing /\ ColumnApplies(p) =>
           held[p][OfColumn(Target(p, seen[p])[1])] >= NoKeyUpdate
      /\ Op(p) \in Placing /\ LaneApplies(p) =>
           held[p][OfLane(Target(p, seen[p])[2])] >= NoKeyUpdate
      /\ ~OverLimit(p)
  BY <1>1 DEF Admitted, LimitColumnHeld, LimitLaneHeld, RoomKept
<1> QED BY <1>2, <1>3, <1>4, <1>5, <1>6, <1>7, <1>8 DEF OverLimit

\* The row that each operation on one card leaves behind.
LEMMA CommitRow ==
    ASSUME TypeOK, LocksCompatible, Housed, NEW p \in Procs, Good(p), Admitted(p), Commit(p),
           Op(p) \in Creations \cup (CardOps \ {"delete"})
    PROVE  LET x == req[p].card
               s == card[x]
           IN \E row \in CardRecord :
                /\ card' = [card EXCEPT ![x] = row] /\ UNCHANGED <<cols, lanes, up>>
                /\ Op(p) \in Creations =>
                     \E v \in 1..2 : row = [st |-> "live", col |-> req[p].col, lane |-> req[p].lane,
                                            archived |-> FALSE, ver |-> v]
                /\ Op(p) = "move" => row = Placed(s, req[p].col, req[p].lane)
                /\ Op(p) = "admin" =>
                     row = [Placed(s, req[p].col, req[p].lane) EXCEPT !.archived = req[p].arch]
                /\ Op(p) \in {"update", "grow", "block"} => row = [s EXCEPT !.ver = @ + 1]
                /\ Op(p) = "archive" => row = [s EXCEPT !.archived = TRUE]
                /\ Op(p) = "restore" => row = [s EXCEPT !.archived = FALSE]
<1> DEFINE x == req[p].card
           s == card[x]
<1>1. /\ x \in Cards /\ s \in CardRecord /\ req[p].col \in Columns /\ req[p].lane \in Lanes
      /\ req[p].arch \in BOOLEAN
  BY RequestFields
<1>2. Effect(p) /\ (Op(p) \in CardOps => seen[p] = s)
  BY AtCommit
<1>3. CASE Op(p) \in Creations
  <2>1. PICK v \in {1, 2} :
          WriteCard(p, [st |-> "live", col |-> req[p].col, lane |-> req[p].lane,
                        archived |-> FALSE, ver |-> v])
    BY <1>2, <1>3 DEF Effect, Insert, Creations, Reorders
  <2>2. [st |-> "live", col |-> req[p].col, lane |-> req[p].lane, archived |-> FALSE, ver |-> v]
           \in CardRecord /\ v \in 1..2
    BY <1>1 DEF CardRecord
  <2> QED BY <1>3, <2>1, <2>2 DEF WriteCard, Creations
<1>4. CASE Op(p) = "move"
  <2>1. Placed(s, req[p].col, req[p].lane) \in CardRecord
    BY <1>1, PlacedRow
  <2> QED BY <1>2, <1>4, <2>1 DEF Effect, WriteCard, Creations, Reorders
<1>5. CASE Op(p) = "admin"
  <2> DEFINE there == Placed(s, req[p].col, req[p].lane)
  <2>1. there \in CardRecord
    BY <1>1, PlacedRow
  <2>2. [there EXCEPT !.archived = req[p].arch] \in CardRecord
    <3> HIDE DEF there
    <3> QED BY <1>1, <2>1 DEF CardRecord
  <2>3. WriteCard(p, [there EXCEPT !.archived = req[p].arch])
    BY <1>2, <1>5 DEF Effect, Creations, Reorders, CardOps
  <2> HIDE DEF there
  <2> QED BY <1>5, <2>2, <2>3 DEF WriteCard, Creations, there
<1>6. CASE Op(p) \in {"update", "grow", "block"}
  <2> DEFINE row == [s EXCEPT !.ver = @ + 1]
  <2>1. row \in CardRecord
    BY <1>1 DEF CardRecord
  <2>2. WriteCard(p, row)
    BY <1>2, <1>6 DEF Effect, Creations, Reorders, CardOps
  <2> HIDE DEF row
  <2> QED BY <1>6, <2>1, <2>2 DEF WriteCard, Creations, row
<1>7. CASE Op(p) = "archive"
  <2> DEFINE row == [s EXCEPT !.archived = TRUE]
  <2>1. row \in CardRecord
    BY <1>1 DEF CardRecord
  <2>2. WriteCard(p, row)
    BY <1>2, <1>7 DEF Effect, Creations, Reorders, CardOps
  <2> HIDE DEF row
  <2> QED BY <1>7, <2>1, <2>2 DEF WriteCard, Creations, row
<1>8. CASE Op(p) = "restore"
  <2> DEFINE row == [s EXCEPT !.archived = FALSE]
  <2>1. row \in CardRecord
    BY <1>1 DEF CardRecord
  <2>2. WriteCard(p, row)
    BY <1>2, <1>8 DEF Effect, Creations, Reorders, CardOps
  <2> HIDE DEF row
  <2> QED BY <1>8, <2>1, <2>2 DEF WriteCard, Creations, row
<1> QED BY <1>3, <1>4, <1>5, <1>6, <1>7, <1>8 DEF CardOps

\* Card d counts, before and after a step, in a column or in a swimlane.
CountsInColumn(d, k) == d \in InColumn(k) /\ ~card[d].archived
CountsInLane(d, l)   == d \in InLane(l) /\ ~card[d].archived /\ card[d].col \in Counted[l]

\* p holds every limited column and swimlane to whose load it adds a card.
AddsOnlyWhereHeld(p) ==
    /\ \A d \in Cards, k \in DOMAIN ColumnLimit :
          CountsInColumn(d, k)' => CountsInColumn(d, k) \/ held[p][OfColumn(k)] >= NoKeyUpdate
    /\ \A d \in Cards, l \in DOMAIN LaneLimit :
          CountsInLane(d, l)' => CountsInLane(d, l) \/ held[p][OfLane(l)] >= NoKeyUpdate

\* A written row adds to loads only where the limit was found to apply.
LEMMA RowAdds ==
    ASSUME TypeOK, LocksCompatible, Housed, NEW p \in Procs, Good(p), Admitted(p), Commit(p),
           Op(p) \in Creations \cup (CardOps \ {"delete"}),
           card'[req[p].card].st = "live", ~card'[req[p].card].archived
    PROVE  LET x == req[p].card
               k == card'[x].col
               l == card'[x].lane
           IN /\ \/ x \in Live /\ ~card[x].archived /\ card[x].col = k
                 \/ Op(p) \in Placing /\ Target(p, seen[p])[1] = k
                    /\ (k \in DOMAIN ColumnLimit => ColumnApplies(p))
              /\ \/ x \in Live /\ ~card[x].archived /\ card[x].lane = l /\ card[x].col \in Counted[l]
                 \/ k \notin Counted[l]
                 \/ Op(p) \in Placing /\ Target(p, seen[p])[2] = l
                    /\ (l \in DOMAIN LaneLimit => LaneApplies(p))
<1> DEFINE x == req[p].card
           s == card[x]
           k == card'[x].col
           l == card'[x].lane
<1>1. /\ x \in Cards /\ s \in CardRecord /\ req[p].col \in Columns /\ req[p].lane \in Lanes
      /\ req[p].arch \in BOOLEAN /\ card \in [Cards -> CardRecord]
  BY RequestFields DEF TypeOK, ContentsTypeOK
<1>2. Op(p) \in CardOps => seen[p] = s /\ x \in Live /\ ~Nothing(p, seen[p])
  BY AtCommit
<1>3. CASE Op(p) \in Creations
  <2>1. card'[x].col = req[p].col /\ card'[x].lane = req[p].lane
    BY <1>1, <1>3, CommitRow
  <2>2. Target(p, seen[p]) = <<k, l>> /\ CountsIn(p) = {} /\ Enforces(p, seen[p]) /\ Op(p) \in Placing
    BY <1>3, <2>1 DEF Target, Targeting, Placing, CountsIn, Enforces, Creations
  <2> QED BY <2>2 DEF ColumnApplies, LaneApplies
<1>4. CASE Op(p) = "move"
  <2>1. card'[x] = Placed(s, req[p].col, req[p].lane)
    BY <1>1, <1>4, CommitRow DEF CardOps
  <2>2. k = req[p].col /\ l = req[p].lane /\ ~s.archived
    BY <1>1, <2>1, PlacedRow
  <2>3. /\ Target(p, seen[p]) = <<k, l>> /\ CountsIn(p) = {<<s.col, s.lane>>}
        /\ Enforces(p, seen[p]) /\ Op(p) \in Placing /\ x \in Live
    BY <1>2, <1>4, <2>2 DEF Target, Targeting, Placing, CountsIn, Enforces, CardOps
  <2> QED BY <2>2, <2>3 DEF ColumnApplies, LaneApplies
<1>5. CASE Op(p) = "admin"
  <2> DEFINE there == Placed(s, req[p].col, req[p].lane)
  <2>1. card'[x] = [there EXCEPT !.archived = req[p].arch]
    BY <1>1, <1>5, CommitRow DEF CardOps
  <2>2. there \in CardRecord /\ there.col = req[p].col /\ there.lane = req[p].lane
    BY <1>1, PlacedRow
  <2>3. k = req[p].col /\ l = req[p].lane /\ ~req[p].arch
    <3> HIDE DEF there
    <3> QED BY <1>1, <2>1, <2>2 DEF CardRecord
  <2>4. /\ Target(p, seen[p]) = <<k, l>> /\ Op(p) \in Placing /\ x \in Live /\ seen[p] = s
        /\ CountsIn(p) = IF s.archived THEN {} ELSE {<<s.col, s.lane>>}
        /\ s.archived \/ <<s.col, s.lane>> # <<k, l>> => Enforces(p, seen[p])
    BY <1>2, <1>5, <2>3 DEF Target, Targeting, Placing, CountsIn, Enforces, CellChange, CardOps
  <2> QED BY <2>4 DEF ColumnApplies, LaneApplies
<1>6. CASE Op(p) \in {"update", "grow", "block"}
  <2>1. card'[x] = [s EXCEPT !.ver = @ + 1]
    BY <1>1, <1>6, CommitRow DEF CardOps
  <2>2. k = s.col /\ l = s.lane /\ ~s.archived
    BY <1>1, <2>1 DEF CardRecord
  <2> QED BY <1>2, <1>6, <2>2 DEF CardOps
<1>7. CASE Op(p) = "archive"
  <2>1. card'[x] = [s EXCEPT !.archived = TRUE]
    BY <1>1, <1>7, CommitRow DEF CardOps
  <2> QED BY <1>1, <2>1 DEF CardRecord
<1>8. CASE Op(p) = "restore"
  <2>1. card'[x] = [s EXCEPT !.archived = FALSE]
    BY <1>1, <1>8, CommitRow DEF CardOps
  <2>2. k = s.col /\ l = s.lane
    BY <1>1, <2>1 DEF CardRecord
  <2>3. /\ Target(p, seen[p]) = <<k, l>> /\ CountsIn(p) = {} /\ Enforces(p, seen[p]) /\ Op(p) \in Placing
    BY <1>2, <1>8, <2>2 DEF Target, Targeting, Placing, CountsIn, Enforces, Creations, CardOps
  <2> QED BY <2>3 DEF ColumnApplies, LaneApplies
<1> QED BY <1>3, <1>4, <1>5, <1>6, <1>7, <1>8 DEF CardOps

\* Whoever commits adds to limited loads only under their row locks.
LEMMA CommitAdds ==
    ASSUME TypeOK, LocksCompatible, Housed, NEW p \in Procs, Good(p), Admitted(p), Commit(p)
    PROVE  AddsOnlyWhereHeld(p)
<1>0. PICK x \in Cards : x = req[p].card
  BY RequestFields
<1>1. card \in [Cards -> CardRecord]
  BY DEF TypeOK, ContentsTypeOK
\* A card that is not written, or is removed, counts nowhere anew.
<1>2. ASSUME NEW d \in Cards, card'[d] = card[d] \/ card'[d].st # "live"
      PROVE  /\ \A k \in DOMAIN ColumnLimit : CountsInColumn(d, k)' => CountsInColumn(d, k)
             /\ \A l \in DOMAIN LaneLimit : CountsInLane(d, l)' => CountsInLane(d, l)
  BY <1>2 DEF CountsInColumn, CountsInLane, InColumn, InLane, Live
<1>3. CASE Op(p) \in Creations \cup (CardOps \ {"delete"})
  <2>1. \A d \in Cards \ {x} : card'[d] = card[d]
    BY <1>0, <1>1, <1>3, CommitRow
  <2>2. ASSUME NEW k \in DOMAIN ColumnLimit, CountsInColumn(x, k)', ~CountsInColumn(x, k)
        PROVE  held[p][OfColumn(k)] >= NoKeyUpdate
    <3>1. card'[x].st = "live" /\ ~card'[x].archived /\ card'[x].col = k
      BY <2>2 DEF CountsInColumn, InColumn, Live
    <3>2. ~(x \in Live /\ ~card[x].archived /\ card[x].col = k)
      BY <2>2 DEF CountsInColumn, InColumn
    <3>3. Op(p) \in Placing /\ Target(p, seen[p])[1] = k /\ ColumnApplies(p)
      BY <1>0, <1>3, <2>2, <3>1, <3>2, RowAdds
    <3> QED BY <3>3, AtCommit
  <2>3. ASSUME NEW l \in DOMAIN LaneLimit, CountsInLane(x, l)', ~CountsInLane(x, l)
        PROVE  held[p][OfLane(l)] >= NoKeyUpdate
    <3>1. /\ card'[x].st = "live" /\ ~card'[x].archived /\ card'[x].lane = l
          /\ card'[x].col \in Counted[l]
      BY <2>3 DEF CountsInLane, InLane, Live
    <3>2. ~(x \in Live /\ ~card[x].archived /\ card[x].lane = l /\ card[x].col \in Counted[l])
      BY <2>3 DEF CountsInLane, InLane
    <3>3. Op(p) \in Placing /\ Target(p, seen[p])[2] = l /\ LaneApplies(p)
      BY <1>0, <1>3, <2>3, <3>1, <3>2, RowAdds
    <3> QED BY <3>3, AtCommit
  <2> QED BY <1>2, <2>1, <2>2, <2>3 DEF AddsOnlyWhereHeld
<1>4. CASE Op(p) \notin Creations \cup (CardOps \ {"delete"})
  <2>1. \A d \in Cards : card'[d] = card[d] \/ card'[d].st # "live"
    <3>1. CASE Op(p) \in {"delete"} \cup Cascades
      <4>1. PICK gone : Remove(gone)
        BY <1>4, <3>1, AtCommit DEF Effect, CardOps, Creations, Cascades, Reorders
      <4> QED BY <1>1, <4>1 DEF Remove, CardRecord
    <3>2. CASE Op(p) \in {"addColumn"} \cup Reorders
      <4>1. card' = card
        BY <1>4, <3>2, AtCommit DEF Effect, CardOps, Creations, Cascades, Reorders, contents
      <4> QED BY <4>1
    <3> QED BY <1>4, <3>1, <3>2, RequestFields DEF Ops
  <2> QED BY <1>2, <2>1 DEF AddsOnlyWhereHeld
<1> QED BY <1>3, <1>4

\* The loads that another request counted under its own row locks can only
\* have shrunk.
LEMMA ColumnRoomKept ==
    ASSUME TypeOK, LocksCompatible, NEW p \in Procs, AddsOnlyWhereHeld(p), ContentsTypeOK',
           NEW q \in Procs \ {p}, NEW k \in Columns, NEW c \in Cards,
           held[q][OfColumn(k)] >= NoKeyUpdate, RoomInColumn(k, c)
    PROVE  RoomInColumn(k, c)'
<1> SUFFICES ASSUME k \in DOMAIN ColumnLimit
             PROVE  ColumnLoad(k, c)' < ColumnLimit[k]
  BY DEF RoomInColumn
<1> DEFINE before == {d \in InColumn(k) \ {c} : ~card[d].archived}
           after  == {d \in InColumn(k) \ {c} : ~card[d].archived}'
<1>1. ~(held[p][OfColumn(k)] >= NoKeyUpdate)
  BY Excluded, RowFacts
<1>2. after \subseteq before
  <2> SUFFICES ASSUME NEW d \in after PROVE d \in before
    OBVIOUS
  <2>1. d \in Cards /\ d # c /\ CountsInColumn(d, k)'
    BY DEF CountsInColumn, InColumn, Live
  <2>2. CountsInColumn(d, k)
    BY <1>1, <2>1 DEF AddsOnlyWhereHeld
  <2> QED BY <2>1, <2>2 DEF CountsInColumn
<1>3. IsFiniteSet(before)
  BY FiniteAssumption, FS_Subset DEF InColumn, Live
<1>4. Cardinality(before) \in Nat /\ Cardinality(after) \in Nat /\ Cardinality(after) <= Cardinality(before)
  <2> HIDE DEF before, after
  <2> QED BY <1>2, <1>3, FS_Subset, FS_CardinalityType
<1>5. Cardinality(before) < ColumnLimit[k] /\ ColumnLimit[k] \in Nat
  BY LimitsAssumption DEF RoomInColumn, ColumnLoad
<1>6. ColumnLoad(k, c)' = Cardinality(after)
  BY DEF ColumnLoad
<1> HIDE DEF before, after
<1> QED BY <1>4, <1>5, <1>6

LEMMA LaneRoomKept ==
    ASSUME TypeOK, LocksCompatible, NEW p \in Procs, AddsOnlyWhereHeld(p), ContentsTypeOK',
           NEW q \in Procs \ {p}, NEW l \in Lanes, NEW c \in Cards,
           held[q][OfLane(l)] >= NoKeyUpdate, RoomInLane(l, c)
    PROVE  RoomInLane(l, c)'
<1> SUFFICES ASSUME l \in DOMAIN LaneLimit
             PROVE  LaneLoad(l, c)' < LaneLimit[l]
  BY DEF RoomInLane
<1> DEFINE before == {d \in InLane(l) \ {c} : ~card[d].archived /\ card[d].col \in Counted[l]}
           after  == {d \in InLane(l) \ {c} : ~card[d].archived /\ card[d].col \in Counted[l]}'
<1>1. ~(held[p][OfLane(l)] >= NoKeyUpdate)
  BY Excluded, RowFacts
<1>2. after \subseteq before
  <2> SUFFICES ASSUME NEW d \in after PROVE d \in before
    OBVIOUS
  <2>1. d \in Cards /\ d # c /\ CountsInLane(d, l)'
    BY DEF CountsInLane, InLane, Live
  <2>2. CountsInLane(d, l)
    BY <1>1, <2>1 DEF AddsOnlyWhereHeld
  <2> QED BY <2>1, <2>2 DEF CountsInLane
<1>3. IsFiniteSet(before)
  BY FiniteAssumption, FS_Subset DEF InLane, Live
<1>4. Cardinality(before) \in Nat /\ Cardinality(after) \in Nat /\ Cardinality(after) <= Cardinality(before)
  <2> HIDE DEF before, after
  <2> QED BY <1>2, <1>3, FS_Subset, FS_CardinalityType
<1>5. Cardinality(before) < LaneLimit[l] /\ LaneLimit[l] \in Nat
  BY LimitsAssumption DEF RoomInLane, LaneLoad
<1>6. LaneLoad(l, c)' = Cardinality(after)
  BY DEF LaneLoad
<1> HIDE DEF before, after
<1> QED BY <1>4, <1>5, <1>6

\* A commit leaves the other requests as admitted as they were.
LEMMA AdmittedThroughCommit ==
    ASSUME TypeOK, LocksCompatible, Housed, NewColumnsDistinct,
           NEW p \in Procs, Good(p), Admitted(p), Commit(p), NEW q \in Procs \ {p}, Admitted(q)
    PROVE  Admitted(q)'
<1>1. Covered(p) /\ End(p, "ok") /\ UNCHANGED <<req, seen, tries, doomed>>
  BY CommitCovered
<1>2. /\ req' = req /\ seen' = seen /\ pc'[q] = pc[q] /\ todo'[q] = todo[q] /\ held'[q] = held[q]
      /\ ContentsTypeOK'
  BY <1>1, EndStep DEF Covered, Answers
<1>3. NewColumnFresh(q)'
  <2> SUFFICES ASSUME Op(q) = "addColumn", pc[q] # "done"
               PROVE  req[q].col \notin cols'
    BY <1>2 DEF NewColumnFresh, Op
  <2>1. req[q].col \notin cols
    BY DEF Admitted, NewColumnFresh
  <2>2. CASE Op(p) = "addColumn"
    <3>1. cols' = cols \cup {req[p].col}
      BY <2>2, AtCommit DEF Effect, CardOps, Creations, Cascades, Reorders
    <3> QED BY <2>1, <2>2, <3>1 DEF NewColumnsDistinct
  <2>3. CASE Op(p) # "addColumn"
    <3>1. cols' \subseteq cols
      BY <2>3, AtCommit DEF Effect, Insert, WriteCard, contents
    <3> QED BY <2>1, <3>1
  <2> QED BY <2>2, <2>3
<1>4. Entitled(q)' /\ LimitColumnComing(q)' /\ LimitColumnHeld(q)' /\ LimitLaneHeld(q)'
  BY <1>2, AppliesKept DEF Admitted, Entitled, LimitColumnComing, LimitColumnHeld, LimitLaneHeld
<1>5. RoomKept(q)'
  <2> SUFFICES ASSUME pc[q] \in {"write", "fkey"}, Op(q) \in Placing
               PROVE  /\ ColumnApplies(q) => RoomInColumn(Target(q, seen[q])[1], req[q].card)'
                      /\ LaneApplies(q) => RoomInLane(Target(q, seen[q])[2], req[q].card)'
    BY <1>2, AppliesKept DEF RoomKept, OverLimit
  <2>1. PICK k \in Columns, l \in Lanes, c \in Cards :
          /\ k = Target(q, seen[q])[1] /\ l = Target(q, seen[q])[2] /\ c = req[q].card
    BY RequestFields, RowTypes
  <2>2. /\ k = Target(q, seen[q])[1]' /\ l = Target(q, seen[q])[2]' /\ c = req'[q].card
    BY <1>2, <2>1, AppliesKept
  <2>3. AddsOnlyWhereHeld(p)
    BY CommitAdds
  <2>4. pc[q] \in Late
    BY DEF Late
  <2>5. ColumnApplies(q) => RoomInColumn(k, c)'
    <3>1. ColumnApplies(q) => held[q][OfColumn(k)] >= NoKeyUpdate /\ RoomInColumn(k, c)
      BY <2>1, <2>4 DEF Admitted, LimitColumnHeld, RoomKept, OverLimit
    <3> QED BY <1>2, <2>3, <3>1, ColumnRoomKept
  <2>6. LaneApplies(q) => RoomInLane(l, c)'
    <3>1. LaneApplies(q) => held[q][OfLane(l)] >= NoKeyUpdate /\ RoomInLane(l, c)
      BY <2>1, <2>4 DEF Admitted, LimitLaneHeld, RoomKept, OverLimit
    <3> QED BY <1>2, <2>3, <3>1, LaneRoomKept
  <2> QED BY <2>2, <2>5, <2>6 DEF RoomInColumn, RoomInLane, ColumnLoad, LaneLoad
<1> QED BY <1>3, <1>4, <1>5 DEF Admitted

-----------------------------------------------------------------------------
(* The completed invariant.                                                 *)

LEMMA InitAInv == Init => AInv
<1> SUFFICES ASSUME Init PROVE AInv
  OBVIOUS
<1>1. NewColumnsDistinct
  BY DEF Init, Sensible, NewColumnsDistinct
<1>2. ASSUME NEW p \in Procs PROVE Admitted(p)
  <2>1. pc[p] = "read" /\ "read" \notin Late /\ "read" \notin Decided
    BY DEF Init, Late, Decided
  <2> QED BY <2>1 DEF Init, Sensible, Admitted, NewColumnFresh, Entitled, LimitColumnComing,
                      LimitColumnHeld, LimitLaneHeld, RoomKept
<1> QED BY <1>1, <1>2 DEF AInv

LEMMA NextAInv == IInv /\ AInv /\ [Next]_vars => AInv'
<1> SUFFICES ASSUME IInv, AInv, [Next]_vars PROVE AInv'
  OBVIOUS
<1>1. /\ TypeOK /\ LocksCompatible /\ Housed /\ NewColumnsDistinct
      /\ \A p \in Procs : Good(p) /\ Admitted(p)
  BY DEF IInv, AInv
<1>2. CASE UNCHANGED vars
  <2>1. /\ UNCHANGED contents
        /\ req' = req /\ pc' = pc /\ seen' = seen /\ todo' = todo /\ held' = held
    BY <1>2 DEF vars, contents
  <2>2. \A p \in Procs : Admitted(p)'
    BY <1>1, <2>1, AdmittedKept
  <2> QED BY <1>1, <2>1, <2>2 DEF AInv, NewColumnsDistinct, Op
<1>3. CASE \E p \in Procs : Step(p)
  <2>1. PICK p \in Procs : Step(p)
    BY <1>3
  <2>2. CASE Commit(p)
    <3>1. /\ End(p, "ok") /\ req' = req
      BY <1>1, <2>2, CommitCovered
    <3>2. pc'[p] = "done"
      BY <1>1, <3>1, EndStep DEF Answers
    <3>3. Admitted(p)'
      BY <3>2, DoneAdmitted
    <3>4. \A q \in Procs \ {p} : Admitted(q)'
      BY <1>1, <2>2, AdmittedThroughCommit
    <3> QED BY <1>1, <3>1, <3>3, <3>4 DEF AInv, NewColumnsDistinct, Op
  <2>3. CASE ~Commit(p)
    <3>1. Quiet(p)
      BY <1>1, <2>1, <2>3, StepQuiet
    <3>2. UNCHANGED contents /\ OthersKept(p) /\ req' = req
      BY <3>1 DEF Quiet, OthersKept
    <3>3. Admitted(p)'
      BY <1>1, <2>1, <2>3, StepAdmitted
    <3>4. \A q \in Procs \ {p} : Admitted(q)'
      BY <1>1, <3>2, AdmittedKept DEF OthersKept
    <3> QED BY <1>1, <3>2, <3>3, <3>4 DEF AInv, NewColumnsDistinct, Op
  <2> QED BY <2>2, <2>3
<1> QED BY <1>2, <1>3 DEF Next, Finished

\* Whoever is about to write is still entitled to, and the room it counted for
\* its card, under the row locks of the limited column and swimlane, is still
\* there, whatever committed since.
THEOREM Admission == Spec => [](IInv /\ AInv)
<1>1. Init => AInv
  BY InitAInv
<1>2. IInv /\ AInv /\ [Next]_vars => AInv'
  BY NextAInv
<1> QED BY <1>1, <1>2, Invariance, PTL DEF Spec

-----------------------------------------------------------------------------
(* The refinement.                                                          *)

\* BoardContents speaks of the same tables.
LEMMA SameTables ==
    /\ Contents!Live = Live
    /\ Contents!contents = contents
    /\ \A k : Contents!InColumn(k) = InColumn(k)
    /\ \A l : Contents!InLane(l) = InLane(l)
    /\ \A k, c : Contents!RoomInColumn(k, c) = RoomInColumn(k, c)
    /\ \A l, c : Contents!RoomInLane(l, c) = RoomInLane(l, c)
<1>1. /\ Contents!Live = Live
      /\ \A k : Contents!InColumn(k) = InColumn(k)
      /\ \A l : Contents!InLane(l) = InLane(l)
  BY DEF Contents!Live, Contents!InColumn, Contents!InLane, Live, InColumn, InLane
<1>2. /\ \A k, c : Contents!ColumnLoad(k, c) = ColumnLoad(k, c)
      /\ \A l, c : Contents!LaneLoad(l, c) = LaneLoad(l, c)
  <2>1. \A k, c : {d \in Contents!InColumn(k) \ {c} : ~card[d].archived}
                 = {d \in InColumn(k) \ {c} : ~card[d].archived}
    BY <1>1
  <2>2. \A l, c : {d \in Contents!InLane(l) \ {c} : ~card[d].archived /\ card[d].col \in Counted[l]}
                 = {d \in InLane(l) \ {c} : ~card[d].archived /\ card[d].col \in Counted[l]}
    BY <1>1
  <2>3. \A S : Contents!Cardinality(S) = Cardinality(S)
    BY DEF Contents!Cardinality, Cardinality
  <2> QED BY <2>1, <2>2, <2>3 DEF Contents!ColumnLoad, Contents!LaneLoad, ColumnLoad, LaneLoad
<1> QED BY <1>1, <1>2 DEF Contents!contents, contents, Contents!RoomInColumn, Contents!RoomInLane,
                         RoomInColumn, RoomInLane

\* A card that enters a cell finds room there.
LEMMA CommitEnters ==
    ASSUME TypeOK, LocksCompatible, Housed, NEW p \in Procs, Good(p), Admitted(p), Commit(p),
           Op(p) \in Creations \cup {"restore"}
    PROVE  Contents!Enter(req[p].card, Target(p, seen[p])[1], Target(p, seen[p])[2])
<1>1. CountsIn(p) = {} /\ Enforces(p, seen[p]) /\ Op(p) \in Placing
  BY DEF CountsIn, Enforces, Placing, Targeting, Creations
<1>2. Target(p, seen[p])[1] \in cols /\ Target(p, seen[p])[2] \in lanes
  BY AtCommit DEF Target, Targeting, CardOps, Creations
<1>3. /\ RoomInColumn(Target(p, seen[p])[1], req[p].card)
      /\ Target(p, seen[p])[1] \in Counted[Target(p, seen[p])[2]] =>
            RoomInLane(Target(p, seen[p])[2], req[p].card)
  BY <1>1, AtCommit DEF ColumnApplies, LaneApplies, RoomInColumn, RoomInLane
<1> QED BY <1>2, <1>3, SameTables DEF Contents!Enter

\* What a commit does to the board is one request's effect.
LEMMA CommitEffect ==
    ASSUME TypeOK, LocksCompatible, Housed, NEW p \in Procs, Good(p), Admitted(p), Commit(p)
    PROVE  Contents!Effect \/ UNCHANGED contents
<1>0. PICK x \in Cards, k \in Columns, l \in Lanes :
        x = req[p].card /\ k = req[p].col /\ l = req[p].lane
  BY RequestFields
<1>1. /\ card \in [Cards -> CardRecord] /\ card[x] \in CardRecord
      /\ Op(p) \in CardOps => seen[p] = card[x] /\ x \in Live
      /\ Op(p) \in Targeting => k \in cols /\ l \in lanes
  BY <1>0, AtCommit DEF TypeOK, ContentsTypeOK
<1>2. CASE Op(p) \in Creations
  <2>1. PICK v \in 1..2 :
          card' = [card EXCEPT ![x] = [st |-> "live", col |-> k, lane |-> l,
                                       archived |-> FALSE, ver |-> v]]
    <3>1. PICK row \in CardRecord :
            /\ card' = [card EXCEPT ![x] = row]
            /\ \E v \in 1..2 : row = [st |-> "live", col |-> k, lane |-> l,
                                      archived |-> FALSE, ver |-> v]
      BY <1>0, <1>2, CommitRow
    <3> QED BY <3>1
  <2>2. UNCHANGED <<cols, lanes, up>> /\ card[x].st = "unborn"
    BY <1>0, <1>2, CommitRow, AtCommit
  <2>3. Contents!Enter(x, k, l)
    BY <1>0, <1>2, CommitEnters DEF Target, Targeting
  <2> QED BY <2>1, <2>2, <2>3 DEF Contents!Create, Contents!Effect
<1>3. CASE Op(p) = "move"
  <2>1. /\ card' = [card EXCEPT ![x] = Placed(card[x], k, l)]
        /\ UNCHANGED <<cols, lanes, up>>
    BY <1>0, <1>3, CommitRow DEF CardOps
  <2>2. /\ Target(p, seen[p]) = <<k, l>> /\ CountsIn(p) = {<<card[x].col, card[x].lane>>}
        /\ Enforces(p, seen[p]) /\ Op(p) \in Placing /\ Op(p) \in Targeting /\ x \in Live
    BY <1>0, <1>1, <1>3 DEF Target, Targeting, Placing, CountsIn, Enforces, CardOps
  <2>3. /\ card[x].col # k => RoomInColumn(k, x)
        /\ (k \in Counted[l] /\ ~(card[x].lane = l /\ card[x].col \in Counted[l])) => RoomInLane(l, x)
    BY <1>0, <2>2, AtCommit DEF ColumnApplies, LaneApplies, RoomInColumn, RoomInLane
  <2> QED BY <1>1, <2>1, <2>2, <2>3, SameTables DEF Contents!Move, Contents!Effect, Placed
<1>4. CASE Op(p) = "admin"
  <2> DEFINE there == Placed(card[x], k, l)
             row   == [there EXCEPT !.archived = req[p].arch]
             a     == req[p].arch
  <2>1. card' = [card EXCEPT ![x] = row] /\ UNCHANGED <<cols, lanes, up>> /\ a \in BOOLEAN
    BY <1>0, <1>4, CommitRow, RequestFields DEF CardOps
  <2>2. row = [st |-> "live", col |-> k, lane |-> l, archived |-> a, ver |-> card[x].ver + 1]
    <3>1. /\ there \in CardRecord /\ there.st = "live" /\ there.col = k /\ there.lane = l
          /\ there.ver = card[x].ver + 1
      BY <1>1, <1>4, PlacedRow DEF CardOps, Live
    <3> HIDE DEF there
    <3> QED BY <2>1, <3>1 DEF CardRecord
  <2> HIDE DEF row
  <2>3. /\ Target(p, seen[p]) = <<k, l>> /\ Op(p) \in Placing /\ Op(p) \in Targeting /\ x \in Live
        /\ CountsIn(p) = IF card[x].archived THEN {} ELSE {<<card[x].col, card[x].lane>>}
        /\ ~a /\ (card[x].archived \/ <<card[x].col, card[x].lane>> # <<k, l>>) => Enforces(p, seen[p])
    BY <1>0, <1>1, <1>4 DEF Target, Targeting, Placing, CountsIn, Enforces, CellChange, CardOps
  <2>4. ~a /\ (card[x].archived \/ card[x].col # k) => RoomInColumn(k, x)
    BY <1>0, <2>3, AtCommit DEF ColumnApplies, RoomInColumn
  <2>5. /\ ~a /\ k \in Counted[l]
        /\ card[x].archived \/ ~(card[x].lane = l /\ card[x].col \in Counted[l])
        => RoomInLane(l, x)
    BY <1>0, <2>3, AtCommit DEF LaneApplies, RoomInLane
  <2> QED BY <1>1, <2>1, <2>2, <2>3, <2>4, <2>5, SameTables DEF Contents!AdminSave, Contents!Effect
<1>5. CASE Op(p) \in {"update", "grow", "block"}
  <2>1. card' = [card EXCEPT ![x] = [card[x] EXCEPT !.ver = @ + 1]] /\ UNCHANGED <<cols, lanes, up>>
    BY <1>0, <1>5, CommitRow DEF CardOps
  <2>2. x \in Live /\ ~card[x].archived
    BY <1>0, <1>5, AtCommit DEF CardOps, Missing, ActiveOnly
  <2> QED BY <2>1, <2>2, SameTables DEF Contents!Edit, Contents!Effect
<1>6. CASE Op(p) = "archive"
  <2>1. card' = [card EXCEPT ![x] = [card[x] EXCEPT !.archived = TRUE]] /\ UNCHANGED <<cols, lanes, up>>
    BY <1>0, <1>6, CommitRow DEF CardOps
  <2>2. x \in Live /\ ~card[x].archived
    BY <1>0, <1>6, AtCommit DEF CardOps, Nothing
  <2> QED BY <2>1, <2>2, SameTables DEF Contents!Archive, Contents!Effect
<1>7. CASE Op(p) = "restore"
  <2>1. card' = [card EXCEPT ![x] = [card[x] EXCEPT !.archived = FALSE]] /\ UNCHANGED <<cols, lanes, up>>
    BY <1>0, <1>7, CommitRow DEF CardOps
  <2>2. x \in Live /\ card[x].archived
    BY <1>0, <1>1, <1>7, AtCommit DEF CardOps, Nothing, CardRecord
  <2>3. Contents!Enter(x, card[x].col, card[x].lane)
    BY <1>0, <1>1, <1>7, CommitEnters DEF Target, Targeting, CardOps, Creations
  <2> QED BY <2>1, <2>2, <2>3, SameTables DEF Contents!Restore, Contents!Effect
<1>8. CASE Op(p) = "delete"
  <2>1. Remove({x}) /\ UNCHANGED <<cols, lanes, up>>
    BY <1>0, <1>8, AtCommit DEF Effect, CardOps, Creations, Cascades, Reorders
  <2>2. x \in Live /\ ~card[x].archived
    BY <1>0, <1>8, AtCommit DEF CardOps, Missing, ActiveOnly
  <2> QED BY <2>1, <2>2, SameTables DEF Contents!DeleteCard, Contents!Without, Contents!Effect, Remove
<1>9. CASE Op(p) \in Cascades
  <2>1. Remove(Container(p)) /\ ~TargetGone(p) /\ Effect(p)
    BY <1>9, AtCommit DEF Effect, CardOps, Creations, Cascades, Reorders
  <2>2. CASE Op(p) = "dropColumn"
    <3>1. Container(p) = InColumn(k) /\ k \in cols /\ cols' = cols \ {k} /\ UNCHANGED <<lanes, up>>
      BY <1>0, <2>1, <2>2 DEF Container, TargetGone, Effect, CardOps, Creations, Cascades, Reorders
    <3> QED BY <2>1, <3>1, SameTables DEF Contents!DropColumn, Contents!Without, Contents!Effect, Remove
  <2>3. CASE Op(p) = "dropLane"
    <3>1. Container(p) = InLane(l) /\ l \in lanes /\ lanes' = lanes \ {l} /\ UNCHANGED <<cols, up>>
      BY <1>0, <2>1, <2>3 DEF Container, TargetGone, Effect, CardOps, Creations, Cascades, Reorders
    <3> QED BY <2>1, <3>1, SameTables DEF Contents!DropLane, Contents!Without, Contents!Effect, Remove
  <2>4. CASE Op(p) = "dropBoard"
    <3>1. Container(p) = Live /\ up /\ cols' = {} /\ lanes' = {} /\ up' = FALSE
      BY <2>1, <2>4 DEF Container, TargetGone, Effect, CardOps, Creations, Cascades, Reorders
    <3> QED BY <2>1, <3>1, SameTables DEF Contents!DropBoard, Contents!Without, Contents!Effect, Remove
  <2> QED BY <1>9, <2>2, <2>3, <2>4 DEF Cascades
<1>10. CASE Op(p) = "addColumn"
  <2>1. cols' = cols \cup {k} /\ UNCHANGED <<card, lanes, up>> /\ up /\ k \notin cols
    BY <1>0, <1>10, AtCommit DEF Effect, CardOps, Creations, Cascades, Reorders
  <2> QED BY <2>1 DEF Contents!AddColumn, Contents!Effect
<1>11. CASE Op(p) \in Reorders
  BY <1>11, AtCommit DEF Effect, CardOps, Creations, Cascades, Reorders
<1> QED BY <1>2, <1>3, <1>4, <1>5, <1>6, <1>7, <1>8, <1>9, <1>10, <1>11, RequestFields DEF Ops, CardOps

LEMMA ContentsStep ==
    IInv /\ AInv /\ [Next]_vars => [Contents!Next]_contents
<1> SUFFICES ASSUME IInv, AInv, [Next]_vars, ~UNCHANGED contents PROVE Contents!Next
  OBVIOUS
<1>1. /\ TypeOK /\ LocksCompatible /\ Housed
      /\ \A p \in Procs : Good(p) /\ Admitted(p)
  BY DEF IInv, AInv
<1>2. PICK p \in Procs : Step(p)
  BY DEF Next, Finished, vars, contents
<1>3. Commit(p)
  BY <1>1, <1>2, StepQuiet DEF Quiet
<1>4. Contents!Effect
  BY <1>1, <1>3, CommitEffect
<1> QED BY <1>4, SameTables DEF Contents!Next, Contents!contents, contents

\* The card services implement BoardContents: every committed request takes
\* effect in one step, against the state it finds, within the limits.
THEOREM ContentsRefined == Spec => ImplementsContents
<1>1. Init => Contents!Init
  BY DEF Init, Contents!Init
<1>2. IInv /\ AInv /\ [Next]_vars => [Contents!Next]_(Contents!contents)
  BY ContentsStep, SameTables DEF Contents!contents, contents
<1> QED BY <1>1, <1>2, Admission, PTL DEF Spec, ImplementsContents, Contents!Spec

-----------------------------------------------------------------------------
(***************************************************************************)
(* The lock order.  The only requests of CardLocks that can deadlock are a  *)
(* column reorder and a restore into a column without a limit, with what    *)
(* waits between them.  Every other wait goes up: to a row of a later       *)
(* table, or of the same table with a larger primary key.                   *)
(***************************************************************************)

(* Rows of the four tables.                                                 *)

LEMMA TableFacts ==
    /\ CardRows \subseteq Rows /\ ColumnRows \subseteq Rows /\ LaneRows \subseteq Rows
    /\ Rows = CardRows \cup ColumnRows \cup LaneRows \cup {BoardRow}
    /\ \A c \in Cards : OfCard(c) \in CardRows
    /\ \A k \in Columns : OfColumn(k) \in ColumnRows
    /\ \A l \in Lanes : OfLane(l) \in LaneRows
    /\ \A k \in Columns : OfColumn(k) \notin CardRows /\ OfColumn(k) \notin LaneRows
    /\ \A l \in Lanes : OfLane(l) \notin CardRows /\ OfLane(l) \notin ColumnRows
    /\ CardRows \cap ColumnRows = {} /\ CardRows \cap LaneRows = {} /\ ColumnRows \cap LaneRows = {}
    /\ BoardRow \notin CardRows /\ BoardRow \notin ColumnRows /\ BoardRow \notin LaneRows
  BY DEF Rows, CardRows, ColumnRows, LaneRows, OfCard, OfColumn, OfLane, BoardRow

\* The primary keys of one table are numbers, and tell its rows apart.
LEMMA PkFacts ==
    /\ \A r \in CardRows : r[2] \in Nat
    /\ \A r \in ColumnRows : r[2] \in Nat
    /\ \A r, s \in CardRows : r[2] = s[2] => r = s
    /\ \A r, s \in ColumnRows : r[2] = s[2] => r = s
  BY IdsAssumption DEF CardRows, ColumnRows, OfCard, OfColumn

-----------------------------------------------------------------------------
(* Steps that leave a request where it is, or end it.                       *)

\* What holds of a request's locks goes on holding while it does not step.
\* Only the list of columns a reorder must lock depends on the tables.
LEMMA OrderedKept ==
    ASSUME NEW q \in Procs, Ordered(q),
           req'[q] = req[q], pc'[q] = pc[q], seen'[q] = seen[q], todo'[q] = todo[q],
           held'[q] = held[q], AllColumnsComing(q)'
    PROVE  Ordered(q)'
<1>1. OwnPlaces(q)' /\ TablesInOrder(q)' /\ RowsInOrder(q)'
  BY DEF Ordered, OwnPlaces, TablesInOrder, RowsInOrder, HoldsNone, Op
<1>2. WritesComing(q)' /\ KeysLeft(q)' /\ KeysOnly(q)'
  BY DEF Ordered, WritesComing, KeysLeft, KeysOnly, HoldsNone, WriteRows, Op
<1>3. ExclusiveRows(q)'
  BY DEF Ordered, ExclusiveRows, Exclusive, WriteRows, Op
<1> QED BY <1>1, <1>2, <1>3 DEF Ordered

\* A request that released its locks, but for the board row at most.
LEMMA ReleasedOrdered ==
    ASSUME NEW p \in Procs,
           \/ pc'[p] \in {"done", "read"} /\ \A r \in Rows : held'[p][r] = None
           \/ /\ pc'[p] = "snap" /\ pc[p] \in {"cards", "columns"} /\ Op(p) # "reorderColumns"
              /\ \A r \in Rows \ {BoardRow} : held'[p][r] = None
              /\ held'[p][BoardRow] = held[p][BoardRow],
           Ordered(p), req'[p] = req[p]
    PROVE  Ordered(p)'
<1>1. OwnPlaces(p)'
  BY DEF Ordered, OwnPlaces, Op
<1>2. TablesInOrder(p)'
  BY TableFacts DEF Ordered, TablesInOrder, HoldsNone, Op
<1>3. /\ RowsInOrder(p)' /\ AllColumnsComing(p)' /\ WritesComing(p)' /\ KeysLeft(p)'
  BY DEF RowsInOrder, AllColumnsComing, WritesComing, KeysLeft
<1>4. KeysOnly(p)'
  BY TableFacts, RowFacts DEF KeysOnly
<1>5. ExclusiveRows(p)'
  <2> SUFFICES ASSUME NEW r \in Rows \ CardRows, held'[p][r] = Update
               PROVE  r \in Exclusive(p)'
    BY DEF ExclusiveRows
  <2>1. /\ r = BoardRow /\ held[p][BoardRow] = Update /\ pc[p] \in {"cards", "columns"}
    BY DEF None, Update
  <2>2. BoardRow \in Exclusive(p) /\ BoardRow \in Rows
    BY <2>1, TableFacts DEF Ordered, ExclusiveRows
  <2> QED BY <2>1, <2>2, TableFacts DEF Exclusive, Late, Ordered, OwnPlaces
<1> QED BY <1>1, <1>2, <1>3, <1>4, <1>5 DEF Ordered

LEMMA RefusedOrdered ==
    ASSUME TypeOK, LocksCompatible, NEW p \in Procs, Ordered(p), NEW a \in Answers, Refuse(p, a)
    PROVE  Ordered(p)'
  BY RefuseStep, ReleasedOrdered DEF OthersKept

LEMMA RetryOrdered ==
    ASSUME TypeOK, LocksCompatible, NEW p \in Procs, Ordered(p), Retry(p),
           pc[p] \in {"cards", "columns"}, Op(p) # "reorderColumns"
    PROVE  Ordered(p)'
  BY RetryStep, ReleasedOrdered, TableFacts DEF OthersKept

\* What one attempt to lock a row changes.
LEMMA TakeOne ==
    ASSUME TypeOK, LocksCompatible, NEW p \in Procs, NEW r \in Rows, NEW m \in Modes,
           HeldExist(p), UNCHANGED contents,
           IF r \in Existing THEN Take(p, r, m) ELSE UNCHANGED held
    PROVE  /\ \A s \in Rows \ {r} : held'[p][s] = held[p][s]
           /\ held'[p][r] \in {held[p][r], m}
           /\ \A s \in Rows : held[p][s] \in Nat /\ held'[p][s] \in Nat
           /\ r \in Existing => held'[p][r] >= m
           /\ held[p][r] = Update => held'[p][r] = Update
<1>1. \A s \in Rows \ {r} : held'[p][s] = held[p][s]
  <2>1. CASE r \in Existing
    BY <2>1, TakeKeeps
  <2>2. CASE r \notin Existing
    BY <2>2
  <2> QED BY <2>1, <2>2
<1> QED BY <1>1, TakeIfThere

-----------------------------------------------------------------------------
(* The actions up to the card locks.                                        *)

LEMMA ReadOrdered ==
    ASSUME TypeOK, LocksCompatible, NEW p \in Procs, Ordered(p), Read(p)
    PROVE  Ordered(p)'
<1>1. CASE Refuse(p, "404") \/ Refuse(p, "ok")
  BY <1>1, RefusedOrdered DEF Answers
<1>2. CASE /\ Goto(p, IF BoardMode(Op(p)) = None THEN "snap" ELSE "board", {})
           /\ UNCHANGED <<contents, held, req, tries, doomed, out>>
  <2>1. /\ pc[p] = "read" /\ pc'[p] \in {"snap", "board"} /\ held' = held /\ req' = req
        /\ pc'[p] = "board" <=> BoardMode(Op(p)) # None
    BY <1>2 DEF Read, Goto, TypeOK
  <2>2. HoldsNone(p, Rows)'
    BY <2>1 DEF Ordered, TablesInOrder, HoldsNone
  <2>3. OwnPlaces(p)'
    BY <2>1 DEF OwnPlaces, Op, BoardMode, Cascades, Reorders, None, Share, NoKeyUpdate, Update
  <2>4. TablesInOrder(p)' /\ KeysOnly(p)' /\ ExclusiveRows(p)'
    BY <2>1, <2>2, TableFacts DEF TablesInOrder, HoldsNone, KeysOnly, ExclusiveRows, None, Update
  <2>5. RowsInOrder(p)' /\ AllColumnsComing(p)' /\ WritesComing(p)' /\ KeysLeft(p)'
    BY <2>1 DEF RowsInOrder, AllColumnsComing, WritesComing, KeysLeft
  <2> QED BY <2>3, <2>4, <2>5 DEF Ordered
<1> QED BY <1>1, <1>2 DEF Read

LEMMA LockBoardOrdered ==
    ASSUME TypeOK, LocksCompatible, NEW p \in Procs, Good(p), Ordered(p), LockBoard(p)
    PROVE  Ordered(p)'
<1>1. CASE Refuse(p, "404")
  BY <1>1, RefusedOrdered DEF Answers
<1>2. CASE ~Refuse(p, "404")
  <2>1. /\ pc[p] = "board" /\ up /\ Take(p, BoardRow, BoardMode(Op(p)))
        /\ UNCHANGED <<contents, req, seen, tries, doomed, out>>
        /\ \/ /\ Op(p) \in {"create", "reorderColumns"} /\ pc'[p] = "columns"
              /\ todo'[p] = {OfColumn(k) : k \in ColumnsToLock(p, seen[p])}
           \/ Op(p) = "reorderLanes" /\ pc'[p] = "write" /\ todo'[p] = {OfLane(l) : l \in lanes}
           \/ Op(p) = "addColumn" /\ pc'[p] = "fkey" /\ todo'[p] = {}
           \/ /\ Op(p) \notin {"create", "reorderColumns", "reorderLanes", "addColumn"}
              /\ pc'[p] = "snap"
    BY <1>2 DEF LockBoard, Goto, TypeOK
  <2>2. HoldsNone(p, Rows)
    BY <2>1 DEF Ordered, TablesInOrder
  <2>3. /\ \A s \in Rows \ {BoardRow} : held'[p][s] = None
        /\ held'[p][BoardRow] \in {None, BoardMode(Op(p))}
    BY <2>1, <2>2, RowFacts, ModeTypes, ExistingFacts, TakeKeeps
       DEF Good, TypeOK, ContentsTypeOK, HoldsNone
  <2>4. req' = req /\ cols' = cols /\ lanes \subseteq Lanes /\ seen' = seen
    BY <2>1 DEF contents, TypeOK, ContentsTypeOK
  <2>5. OwnPlaces(p)'
    BY <2>1, <2>4 DEF Ordered, OwnPlaces, Op
  <2>6. TablesInOrder(p)'
    BY <2>1, <2>3, <2>4, TableFacts DEF TablesInOrder, HoldsNone, Op
  <2>7. RowsInOrder(p)' /\ KeysLeft(p)'
    BY <2>1, <2>3, TableFacts DEF RowsInOrder, KeysLeft, HoldsNone
  <2>8. AllColumnsComing(p)'
    <3> SUFFICES ASSUME pc'[p] = "columns", Op(p) = "reorderColumns", NEW k \in cols
                 PROVE  OfColumn(k) \in todo'[p]
      BY <2>4 DEF AllColumnsComing, Op
    <3>1. k \in ColumnsToLock(p, seen[p])
      BY DEF ColumnsToLock, Creations
    <3> QED BY <2>1, <3>1
  <2>9. WritesComing(p)'
    BY <2>1, <2>4, TableFacts DEF WritesComing, WriteRows, LaneRows, Op
  <2>10. KeysOnly(p)'
    BY <2>3, <2>4, RowFacts, TableFacts DEF KeysOnly, Op
  <2>11. ExclusiveRows(p)'
    <3> SUFFICES ASSUME held'[p][BoardRow] = Update PROVE Op(p) = "addColumn"
      BY <2>3, <2>4, TableFacts DEF ExclusiveRows, Exclusive, None, Update, Op
    <3> QED BY <2>3 DEF BoardMode, None, Share, NoKeyUpdate, Update
  <2> QED BY <2>5, <2>6, <2>7, <2>8, <2>9, <2>10, <2>11 DEF Ordered
<1> QED BY <1>1, <1>2

LEMMA SnapshotCardsOrdered ==
    ASSUME TypeOK, NEW p \in Procs, Ordered(p), SnapshotCards(p)
    PROVE  Ordered(p)'
<1> DEFINE named == IF Op(p) \in CardOps THEN {req[p].card} \cap Live ELSE {}
           rows  == {OfCard(c) : c \in named \cup Members(p, seen[p])}
<1>1. /\ pc[p] = "snap" /\ pc'[p] = "cards" /\ todo'[p] = rows
      /\ held' = held /\ req' = req
  BY DEF SnapshotCards, Goto, TypeOK
<1>2. rows \subseteq CardRows
  BY RequestFields, RowTypes, TableFacts
<1> HIDE DEF rows
<1>3. HoldsNone(p, Rows \ {BoardRow})
  BY <1>1 DEF Ordered, TablesInOrder
<1>4. OwnPlaces(p)'
  BY <1>1 DEF Ordered, OwnPlaces, Op
<1>5. TablesInOrder(p)'
  BY <1>1, <1>3, TableFacts DEF Ordered, TablesInOrder, HoldsNone, Op
<1>6. RowsInOrder(p)'
  BY <1>1, <1>2, <1>3, TableFacts DEF RowsInOrder, HoldsNone
<1>7. AllColumnsComing(p)' /\ WritesComing(p)' /\ KeysLeft(p)'
  BY <1>1 DEF AllColumnsComing, WritesComing, KeysLeft
<1>8. KeysOnly(p)'
  BY <1>1, <1>3, TableFacts DEF KeysOnly, HoldsNone
<1>9. ExclusiveRows(p)'
  BY <1>1, TableFacts DEF Ordered, ExclusiveRows, Exclusive, Late, Op
<1> QED BY <1>4, <1>5, <1>6, <1>7, <1>8, <1>9 DEF Ordered

\* Locked in pk order, a card row comes before those still to be locked.
LEMMA LockCardOrdered ==
    ASSUME TypeOK, LocksCompatible, NEW p \in Procs, Good(p), Ordered(p), LockCard(p)
    PROVE  Ordered(p)'
<1>1. PICK r \in FirstByPk(todo[p]) :
        /\ IF r \in Existing THEN Take(p, r, CardMode(Op(p))) ELSE UNCHANGED held
        /\ Goto(p, "cards", todo[p] \ {r})
  BY DEF LockCard
<1>2. /\ pc[p] = "cards" /\ UNCHANGED <<contents, req, seen, tries, doomed, out>> /\ req' = req
  BY DEF LockCard
<1>3. /\ r \in todo[p] /\ r \in CardRows /\ r \in Rows /\ todo[p] \subseteq CardRows
      /\ \A s \in todo[p] : r[2] <= s[2]
  BY <1>1, <1>2, TableFacts DEF FirstByPk, Ordered, RowsInOrder
<1>4. pc'[p] = "cards" /\ todo'[p] = todo[p] \ {r}
  BY <1>1 DEF Goto, TypeOK
<1>5. /\ \A s \in Rows \ {r} : held'[p][s] = held[p][s]
      /\ CardMode(Op(p)) \in Modes
  BY <1>1, <1>2, <1>3, ModeTypes, TakeOne DEF Good
<1>6. OwnPlaces(p)'
  BY <1>2, <1>4 DEF Ordered, OwnPlaces, Op
<1>7. TablesInOrder(p)'
  BY <1>2, <1>3, <1>4, <1>5, TableFacts DEF Ordered, TablesInOrder, HoldsNone, Op
<1>8. RowsInOrder(p)'
  <2> SUFFICES ASSUME NEW a \in CardRows, NEW s \in todo[p], s # r, held'[p][a] # None
               PROVE  a[2] < s[2]
    BY <1>3, <1>4 DEF RowsInOrder
  <2>1. CASE a = r
    BY <1>3, <2>1, PkFacts
  <2>2. CASE a # r
    BY <1>2, <1>5, <2>2, TableFacts DEF Ordered, RowsInOrder
  <2> QED BY <2>1, <2>2
<1>9. AllColumnsComing(p)' /\ WritesComing(p)' /\ KeysLeft(p)'
  BY <1>4 DEF AllColumnsComing, WritesComing, KeysLeft
<1>10. KeysOnly(p)'
  <2>1. \A s \in ColumnRows \cup LaneRows : held'[p][s] = None
    BY <1>2, <1>3, <1>5, TableFacts DEF Ordered, TablesInOrder, HoldsNone
  <2> QED BY <2>1, TableFacts DEF KeysOnly
<1>11. ExclusiveRows(p)'
  <2>1. \A s \in Rows \ CardRows : held'[p][s] = held[p][s]
    BY <1>3, <1>5
  <2> QED BY <1>2, <1>4, <2>1 DEF Ordered, ExclusiveRows, Exclusive, Late, Op
<1> QED BY <1>6, <1>7, <1>8, <1>9, <1>10, <1>11 DEF Ordered

LEMMA CardsLockedOrdered ==
    ASSUME TypeOK, LocksCompatible, NEW p \in Procs, Ordered(p), CardsLocked(p)
    PROVE  Ordered(p)'
<1> DEFINE s == LockedRow(p)
<1>1. CASE Refuse(p, "404") \/ Refuse(p, "ok")
  BY <1>1, RefusedOrdered DEF Answers
<1>2. CASE Op(p) = "move" /\ Retry(p)
  BY <1>2, RetryOrdered DEF CardsLocked
<1>3. CASE /\ IF Op(p) \in {"update", "block", "archive", "delete"} THEN Goto(p, "write", {})
              ELSE Goto(p, "columns", {OfColumn(k) : k \in ColumnsToLock(p, s)})
           /\ UNCHANGED <<contents, held, req, tries, doomed, out>>
  <2>1. /\ pc[p] = "cards" /\ held' = held /\ req' = req
        /\ \/ /\ Op(p) \in {"update", "block", "archive", "delete"}
              /\ pc'[p] = "write" /\ todo'[p] = {}
           \/ /\ Op(p) \notin {"update", "block", "archive", "delete"}
              /\ pc'[p] = "columns"
    BY <1>3 DEF CardsLocked, Goto, TypeOK
  <2>2. HoldsNone(p, ColumnRows \cup LaneRows) /\ Op(p) \notin {"reorderColumns", "addColumn"}
    BY <2>1 DEF Ordered, TablesInOrder, OwnPlaces
  <2>3. OwnPlaces(p)' /\ AllColumnsComing(p)' /\ WritesComing(p)' /\ KeysLeft(p)'
    BY <2>1, <2>2 DEF OwnPlaces, AllColumnsComing, WritesComing, KeysLeft, Op
  <2>4. TablesInOrder(p)' /\ RowsInOrder(p)' /\ KeysOnly(p)'
    BY <2>1, <2>2, TableFacts DEF Ordered, TablesInOrder, RowsInOrder, KeysOnly, HoldsNone, Op
  <2>5. ExclusiveRows(p)'
    <3>1. \A r \in Rows \ CardRows : held[p][r] # Update
      BY <2>1, <2>2 DEF Ordered, ExclusiveRows, Exclusive, Late
    <3> QED BY <2>1, <3>1 DEF ExclusiveRows
  <2> QED BY <2>3, <2>4, <2>5 DEF Ordered
<1> QED BY <1>1, <1>2, <1>3 DEF CardsLocked

-----------------------------------------------------------------------------
(* The actions on columns and swimlanes.                                    *)

\* Locked in pk order, a column comes before those still to be locked.
LEMMA LockColumnOrdered ==
    ASSUME TypeOK, LocksCompatible, NEW p \in Procs, Good(p), Ordered(p), LockColumn(p)
    PROVE  Ordered(p)'
<1>1. PICK r \in FirstByPk(todo[p]) :
        /\ IF r \in Existing THEN Take(p, r, ColumnMode(Op(p))) ELSE UNCHANGED held
        /\ Goto(p, "columns", todo[p] \ {r})
  BY DEF LockColumn
<1>2. /\ pc[p] = "columns" /\ UNCHANGED contents /\ req' = req /\ cols' = cols /\ seen' = seen
  BY DEF LockColumn, contents
<1>3. /\ r \in todo[p] /\ todo[p] \subseteq ColumnRows /\ r \in ColumnRows /\ r \in Rows
      /\ \A s \in todo[p] : r[2] <= s[2]
  BY <1>1, <1>2, TableFacts DEF FirstByPk, Good, ColumnsComing, ColumnRows
<1>4. pc'[p] = "columns" /\ todo'[p] = todo[p] \ {r}
  BY <1>1 DEF Goto, TypeOK
<1>5. /\ \A s \in Rows \ {r} : held'[p][s] = held[p][s]
      /\ held'[p][r] \in {held[p][r], ColumnMode(Op(p))}
      /\ r \in Existing => held'[p][r] >= ColumnMode(Op(p))
      /\ \A s \in Rows : held[p][s] \in Nat /\ held'[p][s] \in Nat
      /\ held[p][r] = Update => held'[p][r] = Update
  BY <1>1, <1>2, <1>3, ModeTypes, TakeOne DEF Good
<1>6. OwnPlaces(p)' /\ Op(p) \notin {"archive", "block", "addColumn"}
  BY <1>2, <1>4 DEF Ordered, OwnPlaces, Op
<1>7. TablesInOrder(p)'
  BY <1>2, <1>3, <1>4, <1>5, TableFacts DEF Ordered, TablesInOrder, HoldsNone, Op
<1>8. RowsInOrder(p)'
  <2> SUFFICES ASSUME NEW a \in ColumnRows, NEW s \in todo[p], s # r, held'[p][a] # None
               PROVE  a[2] < s[2]
    BY <1>3, <1>4 DEF RowsInOrder
  <2>1. CASE a = r
    BY <1>3, <2>1, PkFacts
  <2>2. CASE a # r
    BY <1>2, <1>5, <2>2, TableFacts DEF Ordered, RowsInOrder
  <2> QED BY <2>1, <2>2
<1>9. AllColumnsComing(p)'
  <2> SUFFICES ASSUME Op(p) = "reorderColumns", NEW k \in cols, OfColumn(k) \notin todo'[p]
               PROVE  held'[p][OfColumn(k)] = Update
    BY <1>2 DEF AllColumnsComing, Op
  <2>1. k \in Columns /\ OfColumn(k) \in Rows /\ OfColumn(k) \in Existing
    BY RowFacts, ExistingFacts DEF TypeOK, ContentsTypeOK
  <2>2. CASE OfColumn(k) = r
    <3>1. held'[p][r] \in {held[p][r], Update} /\ held'[p][r] >= Update
      BY <1>5, <2>1, <2>2 DEF ColumnMode
    <3>2. held[p][r] \in 0..4
      BY <1>3 DEF TypeOK, Modes, None, Update
    <3> QED BY <2>2, <3>1, <3>2 DEF Update
  <2>3. CASE OfColumn(k) # r
    BY <1>2, <1>4, <1>5, <2>1, <2>3 DEF Ordered, AllColumnsComing
  <2> QED BY <2>2, <2>3
<1>10. WritesComing(p)' /\ KeysLeft(p)' /\ KeysOnly(p)'
  BY <1>2, <1>4, <1>6 DEF WritesComing, KeysLeft, KeysOnly, Op
<1>11. ExclusiveRows(p)'
  <2> SUFFICES ASSUME NEW a \in Rows \ CardRows, held'[p][a] = Update
               PROVE  a \in Exclusive(p)
    BY <1>2, <1>4 DEF ExclusiveRows, Exclusive, WriteRows, Late, Op
  <2>1. CASE held[p][a] = Update
    BY <2>1 DEF Ordered, ExclusiveRows
  <2>2. CASE held[p][a] # Update
    <3>1. a = r /\ ColumnMode(Op(p)) = Update
      BY <1>5, <2>2
    <3> QED BY <1>3, <3>1 DEF ColumnMode, Exclusive, NoKeyUpdate, Update
  <2> QED BY <2>1, <2>2
<1> QED BY <1>6, <1>7, <1>8, <1>9, <1>10, <1>11 DEF Ordered

\* After the re-check only containers, columns to prune and cells are left.
LEMMA ColumnsLockedOrdered ==
    ASSUME TypeOK, LocksCompatible, Housed, NEW p \in Procs, Good(p), Ordered(p), ColumnsLocked(p)
    PROVE  Ordered(p)'
<1>0. pc[p] = "columns" /\ todo[p] = {} /\ Op(p) \notin {"archive", "block", "addColumn"}
  BY DEF ColumnsLocked, Ordered, OwnPlaces
<1>1. CASE Refuse(p, "404")
  BY <1>1, RefusedOrdered DEF Answers
<1>2. CASE Newcomer(p) /\ Retry(p)
  <2>1. Members(p, seen[p]) # {}
    BY <1>2 DEF Newcomer
  <2>2. Op(p) # "reorderColumns"
    BY <2>1 DEF Members, Container, Cells
  <2> QED BY <1>0, <1>2, <2>2, RetryOrdered
<1>3. CASE /\ ~Newcomer(p) /\ ~ContainerGone(p)
           /\ IF Op(p) \in Cascades THEN Goto(p, "write", NotYetHeld(p, CascadeRows(p)))
              ELSE IF Op(p) = "reorderColumns"
                   THEN Goto(p, "write", NotYetHeld(p, {OfColumn(k) : k \in cols}))
              ELSE Goto(p, IF LaneApplies(p) THEN "lane" ELSE "check", {})
           /\ UNCHANGED <<contents, held, req, seen, tries, out>>
  <2>1. /\ held' = held /\ req' = req /\ seen' = seen /\ cols' = cols
        /\ \/ /\ Op(p) \in Cascades /\ pc'[p] = "write"
              /\ todo'[p] = NotYetHeld(p, CascadeRows(p))
           \/ /\ Op(p) = "reorderColumns" /\ pc'[p] = "write"
              /\ todo'[p] = NotYetHeld(p, {OfColumn(k) : k \in cols})
           \/ Op(p) \notin Cascades \cup {"reorderColumns"} /\ pc'[p] \in {"lane", "check"}
    BY <1>3 DEF Goto, TypeOK, contents
  <2>2. OwnPlaces(p)'
    BY <1>0, <2>1 DEF OwnPlaces, Op, Cascades
  <2>3. \A k \in Columns : held[p][OfColumn(k)] \in {None, NoKeyUpdate, Update}
    BY <1>0 DEF Good, EarlyModes, Early, Late, Places
  <2>4. TablesInOrder(p)'
    BY <1>0, <2>1, <2>3 DEF Ordered, TablesInOrder, HoldsNone, ColumnRows, Op
  <2>5. RowsInOrder(p)' /\ AllColumnsComing(p)' /\ KeysLeft(p)' /\ KeysOnly(p)'
    BY <1>0, <2>1 DEF RowsInOrder, AllColumnsComing, KeysLeft, KeysOnly, Op
  <2>6. ASSUME Op(p) \in Cascades
        PROVE  WritesComing(p)'
    <3>1. pc'[p] = "write" /\ todo'[p] = NotYetHeld(p, CascadeRows(p)) /\ "write" \in Late
      BY <2>1, <2>6 DEF Cascades, Late
    <3>2. \A c \in Container(p) : held[p][OfCard(c)] = Update /\ WriteMode(p, OfCard(c)) = Update
      <4> TAKE c \in Container(p)
      <4>1. c \in Members(p, seen[p]) /\ c \in Cards
        BY RequestFields, RowTypes DEF Members
      <4>2. held[p][OfCard(c)] \in {None, Update}
        BY <1>0, <2>6, <4>1 DEF Good, EarlyModes, Early, Late, Places, Writers
      <4>3. WriteMode(p, OfCard(c)) = Update
        BY <2>6 DEF WriteMode, OfCard
      <4> QED BY <1>3, <4>1, <4>2, <4>3 DEF Newcomer
    <3>3. \A c \in Container(p) : OfCard(c) \notin todo'[p]
      BY <3>1, <3>2 DEF NotYetHeld, Update
    <3>4. todo'[p] \subseteq WriteRows(p)
      <4> SUFFICES ASSUME NEW r \in todo'[p] PROVE r \in WriteRows(p)
        OBVIOUS
      <4>1. r \in CascadeRows(p) /\ r \notin {OfCard(c) : c \in Container(p)}
        BY <3>1, <3>3 DEF NotYetHeld
      <4>2. cols \subseteq Columns /\ lanes \subseteq Lanes /\ req[p].col \in Columns /\ req[p].lane \in Lanes
        BY RequestFields, RowTypes
      <4> QED BY <2>6, <4>1, <4>2 DEF CascadeRows, WriteRows, Cascades, LaneRows, ColumnRows
    <3>5. \A r \in todo'[p] \cap ColumnRows : held[p][r] >= NoKeyUpdate
      <4> SUFFICES ASSUME NEW r \in todo'[p], r \in ColumnRows PROVE held[p][r] >= NoKeyUpdate
        OBVIOUS
      <4>1. PICK k \in Columns : r = OfColumn(k)
        BY DEF ColumnRows
      <4>2. /\ r \in CascadeRows(p)
            /\ cols \subseteq Columns /\ lanes \subseteq Lanes /\ req[p].col \in Columns /\ req[p].lane \in Lanes
            /\ Container(p) \subseteq Cards
        BY <3>1, RequestFields, RowTypes DEF NotYetHeld
      <4>3. \/ Op(p) = "dropColumn" /\ k = req[p].col
            \/ Op(p) = "dropBoard" /\ k \in cols
        BY <2>6, <4>1, <4>2, RowFacts DEF CascadeRows, Cascades
      <4>4. k \in EntryColumns(p)
        BY <4>3 DEF EntryColumns, Creations
      <4>5. ColumnsHeld(p)'
        BY ColumnsLockedStep DEF Quiet, Good
      <4>6. EntryColumns(p)' = EntryColumns(p)
        BY <2>1 DEF EntryColumns, CellChange, Target, Op
      <4> QED BY <2>1, <3>1, <4>1, <4>4, <4>5, <4>6 DEF ColumnsHeld
    <3>6. WriteRows(p)' = WriteRows(p)
      BY <2>1 DEF WriteRows, Op
    <3> QED BY <2>1, <3>4, <3>5, <3>6 DEF WritesComing
  <2>7. ASSUME Op(p) = "reorderColumns"
        PROVE  WritesComing(p)'
    <3>1. todo'[p] = NotYetHeld(p, {OfColumn(k) : k \in cols})
      BY <2>1, <2>7 DEF Cascades
    <3>2. \A k \in cols : held[p][OfColumn(k)] = Update
      BY <1>0, <2>7 DEF Ordered, AllColumnsComing
    <3>3. \A k \in cols : WriteMode(p, OfColumn(k)) = Update
      BY <2>7 DEF WriteMode
    <3>4. todo'[p] = {}
      BY <3>1, <3>2, <3>3 DEF NotYetHeld, Update
    <3> QED BY <3>4 DEF WritesComing
  <2>8. WritesComing(p)'
    BY <2>1, <2>6, <2>7 DEF WritesComing
  <2>9. ExclusiveRows(p)'
    <3>1. Exclusive(p) \subseteq Exclusive(p)'
      BY <1>0, <2>1 DEF Exclusive, Late, Op
    <3> QED BY <2>1, <3>1 DEF Ordered, ExclusiveRows
  <2> QED BY <2>2, <2>4, <2>5, <2>8, <2>9 DEF Ordered
<1> QED BY <1>1, <1>2, <1>3 DEF ColumnsLocked

LEMMA LockLaneOrdered ==
    ASSUME TypeOK, LocksCompatible, NEW p \in Procs, Good(p), Ordered(p), LockLane(p)
    PROVE  Ordered(p)'
<1>0. pc[p] = "lane" /\ Op(p) \notin {"archive", "block", "addColumn", "reorderColumns"}
  BY DEF LockLane, Ordered, OwnPlaces
<1>1. CASE Refuse(p, "404")
  BY <1>1, RefusedOrdered DEF Answers
<1>2. CASE ~Refuse(p, "404")
  <2> DEFINE r == OfLane(Target(p, seen[p])[2])
  <2>1. /\ Take(p, r, NoKeyUpdate) /\ UNCHANGED contents /\ req' = req /\ pc'[p] = "check"
        /\ Target(p, seen[p])[2] \in lanes
    BY <1>2 DEF LockLane, Goto, TypeOK
  <2>2. r \in LaneRows /\ r \in Rows /\ r \in Existing /\ NoKeyUpdate \in Modes
    BY <2>1, TableFacts, ExistingFacts, ModeTypes DEF TypeOK, ContentsTypeOK
  <2> HIDE DEF r
  <2>3. \A s \in Rows \ {r} : held'[p][s] = held[p][s]
    BY <2>1, <2>2, TakeKeeps DEF Good
  <2>4. held'[p][r] \in {held[p][r], NoKeyUpdate}
    BY <2>1, <2>2, TakeKeeps DEF Good
  <2>5. OwnPlaces(p)' /\ TablesInOrder(p)' /\ RowsInOrder(p)' /\ AllColumnsComing(p)'
    BY <1>0, <2>1 DEF OwnPlaces, TablesInOrder, RowsInOrder, AllColumnsComing, Op
  <2>6. WritesComing(p)' /\ KeysLeft(p)' /\ KeysOnly(p)'
    BY <1>0, <2>1 DEF WritesComing, KeysLeft, KeysOnly, Op
  <2>7. ExclusiveRows(p)'
    <3>1. \A a \in Rows : held'[p][a] = Update => held[p][a] = Update
      BY <2>3, <2>4 DEF NoKeyUpdate, Update
    <3>2. Exclusive(p)' = Exclusive(p)
      BY <1>0, <2>1 DEF Exclusive, WriteRows, Late, Op
    <3> QED BY <3>1, <3>2 DEF Ordered, ExclusiveRows
  <2> QED BY <2>5, <2>6, <2>7 DEF Ordered
<1> QED BY <1>1, <1>2

LEMMA CheckOrdered ==
    ASSUME TypeOK, LocksCompatible, NEW p \in Procs, Good(p), Ordered(p), Check(p)
    PROVE  Ordered(p)'
<1>0. pc[p] = "check" /\ Op(p) \notin {"archive", "block", "addColumn", "reorderColumns"}
  BY DEF Check, Ordered, OwnPlaces
<1>1. CASE Refuse(p, "409")
  BY <1>1, RefusedOrdered DEF Answers
<1>2. CASE /\ Goto(p, "write", NotYetHeld(p, {OfCard(c) : c \in Members(p, seen[p])}))
           /\ UNCHANGED <<contents, held, req, seen, tries, doomed, out>>
  <2>1. /\ pc'[p] = "write" /\ held' = held /\ req' = req
        /\ todo'[p] = NotYetHeld(p, {OfCard(c) : c \in Members(p, seen[p])})
    BY <1>2 DEF Goto, TypeOK
  <2>2. todo'[p] = {}
    <3> SUFFICES ASSUME NEW c \in Members(p, seen[p])
                 PROVE  ~(held[p][OfCard(c)] < WriteMode(p, OfCard(c)))
      BY <2>1 DEF NotYetHeld
    <3>1. held[p][OfCard(c)] = Update
      BY <1>0 DEF Good, MembersHeld, Late
    <3> QED BY <3>1, ModeTypes DEF NoKeyUpdate, Update
  <2>3. OwnPlaces(p)' /\ TablesInOrder(p)' /\ RowsInOrder(p)' /\ AllColumnsComing(p)'
    BY <1>0, <2>1 DEF OwnPlaces, TablesInOrder, RowsInOrder, AllColumnsComing, Op
  <2>4. WritesComing(p)' /\ KeysLeft(p)' /\ KeysOnly(p)'
    BY <1>0, <2>1, <2>2 DEF WritesComing, KeysLeft, KeysOnly, Op
  <2>5. Exclusive(p)' = Exclusive(p)
    BY <1>0, <2>1 DEF Exclusive, WriteRows, Late, Op
  <2>6. ExclusiveRows(p)'
    BY <2>1, <2>5 DEF Ordered, ExclusiveRows
  <2> QED BY <2>3, <2>4, <2>6 DEF Ordered
<1> QED BY <1>1, <1>2 DEF Check

-----------------------------------------------------------------------------
(* The writes and the foreign keys.                                         *)

LEMMA WriteRowOrdered ==
    ASSUME TypeOK, LocksCompatible, NEW p \in Procs, Good(p), Ordered(p), WriteRow(p)
    PROVE  Ordered(p)'
<1>1. PICK r \in todo[p] :
        /\ IF r \in Existing THEN Take(p, r, WriteMode(p, r)) ELSE UNCHANGED held
        /\ Goto(p, "write", todo[p] \ {r})
  BY DEF WriteRow
<1>2. pc[p] = "write" /\ UNCHANGED contents /\ req' = req /\ seen' = seen
  BY DEF WriteRow
<1>3. r \in Rows /\ r \in WriteRows(p) /\ WriteMode(p, r) \in Modes
  BY <1>2, ModeTypes DEF TypeOK, Ordered, WritesComing
<1>4. pc'[p] = "write" /\ todo'[p] = todo[p] \ {r}
  BY <1>1 DEF Goto, TypeOK
<1>5. /\ \A s \in Rows \ {r} : held'[p][s] = held[p][s]
      /\ held'[p][r] \in {held[p][r], WriteMode(p, r)}
  BY <1>1, <1>2, <1>3, TakeOne DEF Good
<1>6. OwnPlaces(p)' /\ TablesInOrder(p)' /\ RowsInOrder(p)' /\ AllColumnsComing(p)' /\ KeysLeft(p)'
  BY <1>2, <1>4 DEF Ordered, OwnPlaces, TablesInOrder, RowsInOrder, AllColumnsComing, KeysLeft, Op
<1>7. WritesComing(p)'
  <2>1. WriteRows(p)' = WriteRows(p)
    BY <1>2 DEF WriteRows, Op
  <2>2. \A s \in todo[p] \ {r} : s \in Rows
    BY DEF TypeOK
  <2> QED BY <1>2, <1>4, <1>5, <2>1, <2>2 DEF Ordered, WritesComing
<1>8. Op(p) \notin {"archive", "block"}
  BY <1>3 DEF WriteRows
<1>9. KeysOnly(p)'
  BY <1>2, <1>8 DEF KeysOnly, Op
<1>10. ExclusiveRows(p)'
  <2> SUFFICES ASSUME NEW a \in Rows \ CardRows, held'[p][a] = Update
               PROVE  a \in Exclusive(p)
    BY <1>2, <1>4 DEF ExclusiveRows, Exclusive, WriteRows, Late, Op
  <2>1. CASE held[p][a] = Update
    BY <2>1 DEF Ordered, ExclusiveRows
  <2>2. CASE held[p][a] # Update
    <3>1. a = r /\ WriteMode(p, r) = Update
      BY <1>5, <2>2
    <3>2. Op(p) \in Cascades \cup Reorders
      BY <1>3 DEF WriteRows, Cascades, Reorders
    <3>3. Op(p) \in Cascades /\ ~(Op(p) = "dropColumn" /\ r[1] = "lane")
      BY <1>3, <3>1, <3>2 DEF WriteMode, NoKeyUpdate, Update, WriteRows, Cascades
    <3>4. \A s \in LaneRows : s[1] = "lane"
      BY DEF LaneRows, OfLane
    <3> QED BY <1>2, <1>3, <3>1, <3>3, <3>4 DEF Exclusive, Late, Cascades
  <2> QED BY <2>1, <2>2
<1> QED BY <1>6, <1>7, <1>9, <1>10 DEF Ordered

LEMMA WritesDoneOrdered ==
    ASSUME TypeOK, NEW p \in Procs, Ordered(p), WritesDone(p)
    PROVE  Ordered(p)'
<1>1. /\ pc[p] = "write" /\ pc'[p] = "fkey" /\ held' = held /\ req' = req /\ seen' = seen
      /\ todo'[p] = {r \in ForeignKeys(p) : held[p][r] = None}
  BY DEF WritesDone, Goto, TypeOK
<1>2. OwnPlaces(p)' /\ TablesInOrder(p)' /\ RowsInOrder(p)' /\ AllColumnsComing(p)' /\ WritesComing(p)'
  BY <1>1 DEF Ordered, OwnPlaces, TablesInOrder, RowsInOrder, AllColumnsComing, WritesComing, Op
<1>3. KeysLeft(p)'
  BY <1>1 DEF KeysLeft, HoldsNone
<1>4. KeysOnly(p)'
  BY <1>1 DEF Ordered, KeysOnly, Op
<1>5. Exclusive(p)' = Exclusive(p)
  BY <1>1 DEF Exclusive, WriteRows, Late, Op
<1>6. ExclusiveRows(p)'
  BY <1>1, <1>5 DEF Ordered, ExclusiveRows
<1> QED BY <1>2, <1>3, <1>4, <1>6 DEF Ordered

LEMMA CheckForeignKeyOrdered ==
    ASSUME TypeOK, LocksCompatible, Housed, NEW p \in Procs, Good(p), Ordered(p), CheckForeignKey(p)
    PROVE  Ordered(p)'
<1>0. pc[p] = "fkey"
  BY DEF CheckForeignKey
<1>1. todo[p] \subseteq Existing /\ todo[p] \subseteq ForeignKeys(p)
  BY <1>0, ForeignKeysExist DEF Good, ForeignKeysComing
<1>2. PICK r \in todo[p] :
        /\ Take(p, r, KeyShare) /\ r \in Existing
        /\ Goto(p, "fkey", todo[p] \ {r})
        /\ UNCHANGED <<contents, req, seen, tries, doomed, out>>
  BY <1>1 DEF CheckForeignKey
<1>3. r \in Rows /\ KeyShare \in Modes /\ todo[p] \subseteq Rows
  BY ModeTypes DEF TypeOK
<1>4. pc'[p] = "fkey" /\ todo'[p] = todo[p] \ {r} /\ req' = req /\ seen' = seen
  BY <1>2 DEF Goto, TypeOK
<1>5. /\ \A s \in Rows \ {r} : held'[p][s] = held[p][s]
      /\ held'[p][r] \in {held[p][r], KeyShare}
      /\ held[p][r] = None
  BY <1>0, <1>2, <1>3, TakeOne DEF Good, Ordered, KeysLeft, HoldsNone
<1>6. /\ OwnPlaces(p)' /\ TablesInOrder(p)' /\ RowsInOrder(p)' /\ AllColumnsComing(p)'
      /\ WritesComing(p)'
  BY <1>0, <1>4 DEF Ordered, OwnPlaces, TablesInOrder, RowsInOrder, AllColumnsComing, WritesComing, Op
<1>7. KeysLeft(p)'
  BY <1>0, <1>3, <1>4, <1>5 DEF Ordered, KeysLeft, HoldsNone
<1>8. KeysOnly(p)'
  <2> SUFFICES ASSUME Op(p) \in {"archive", "block"}
               PROVE  /\ \A k \in Columns : held'[p][OfColumn(k)] \in {None, KeyShare}
                      /\ \A k \in Columns : held'[p][OfColumn(k)] # None => k = seen[p].col
                      /\ \A a \in LaneRows : held'[p][a] \in {None, KeyShare}
    BY <1>4 DEF KeysOnly, Op
  <2>1. /\ \A k \in Columns : held[p][OfColumn(k)] \in {None, KeyShare}
        /\ \A k \in Columns : held[p][OfColumn(k)] # None => k = seen[p].col
        /\ \A a \in LaneRows : held[p][a] \in {None, KeyShare}
    BY DEF Ordered, KeysOnly
  <2>2. held'[p][r] \in {None, KeyShare}
    BY <1>5
  <2>3. \A k \in Columns : r = OfColumn(k) => k = seen[p].col
    <3> SUFFICES ASSUME NEW k \in Columns, r = OfColumn(k) PROVE k = seen[p].col
      OBVIOUS
    <3>1. Target(p, seen[p]) = <<seen[p].col, seen[p].lane>>
      BY DEF Target, Targeting, Creations
    <3>2. r \in {BoardRow, OfColumn(seen[p].col), OfLane(seen[p].lane)}
      BY <1>1, <3>1 DEF ForeignKeys, Creations
    <3>3. seen[p].col \in Columns /\ seen[p].lane \in Lanes
      BY RequestFields DEF CardRecord
    <3> QED BY <3>2, <3>3, RowFacts
  <2> QED BY <1>5, <2>1, <2>2, <2>3, RowFacts, TableFacts
<1>9. ExclusiveRows(p)'
  <2>1. \A a \in Rows : held'[p][a] = Update => held[p][a] = Update
    BY <1>5 DEF KeyShare, None, Update
  <2>2. Exclusive(p)' = Exclusive(p)
    BY <1>0, <1>4 DEF Exclusive, WriteRows, Late, Op
  <2> QED BY <2>1, <2>2 DEF Ordered, ExclusiveRows
<1> QED BY <1>6, <1>7, <1>8, <1>9 DEF Ordered

-----------------------------------------------------------------------------
(* All steps.                                                               *)

LEMMA StepOrdered ==
    ASSUME TypeOK, LocksCompatible, Housed, NEW p \in Procs, Good(p), Ordered(p), Step(p), ~Commit(p)
    PROVE  Ordered(p)'
<1>1. CASE Abort(p)
  BY <1>1, RefusedOrdered DEF Abort, Answers
<1>2. CASE Read(p) \/ LockBoard(p) \/ SnapshotCards(p) \/ LockCard(p) \/ CardsLocked(p)
  BY <1>2, ReadOrdered, LockBoardOrdered, SnapshotCardsOrdered, LockCardOrdered, CardsLockedOrdered
<1>3. CASE LockColumn(p) \/ ColumnsLocked(p) \/ LockLane(p) \/ Check(p)
  BY <1>3, LockColumnOrdered, ColumnsLockedOrdered, LockLaneOrdered, CheckOrdered
<1>4. CASE WriteRow(p) \/ WritesDone(p) \/ CheckForeignKey(p)
  BY <1>4, WriteRowOrdered, WritesDoneOrdered, CheckForeignKeyOrdered
<1> QED BY <1>1, <1>2, <1>3, <1>4 DEF Step

\* While a reorder holds the board row, no other request adds a column.
LEMMA ColumnsComingKept ==
    ASSUME TypeOK, LocksCompatible, Housed, NEW p \in Procs, Good(p), Step(p),
           NEW q \in Procs \ {p}, Good(q), Ordered(q),
           pc'[q] = pc[q], todo'[q] = todo[q], held'[q] = held[q], req' = req
    PROVE  AllColumnsComing(q)'
<1>1. CASE cols' \subseteq cols
  BY <1>1 DEF Ordered, AllColumnsComing, Op
<1>2. CASE ~(cols' \subseteq cols)
  <2>1. Commit(p)
    BY <1>2, StepQuiet DEF Quiet, contents
  <2>2. held[p][BoardRow] = Update
    BY <1>2, <2>1, CommitCovered DEF Covered
  <2>3. held[q][BoardRow] = None
    BY <2>2, Excluded, RowFacts
  <2>4. ~(pc[q] = "columns" /\ Op(q) = "reorderColumns")
    BY <2>3 DEF Good, BoardHeld, BoardMode, Cascades, Reorders, None, NoKeyUpdate
  <2> QED BY <2>4 DEF AllColumnsComing, Op
<1> QED BY <1>1, <1>2

LEMMA InitOInv == Init => OInv
<1> SUFFICES ASSUME Init, NEW p \in Procs PROVE Ordered(p)
  BY DEF OInv
<1>1. pc[p] = "read" /\ HoldsNone(p, Rows) /\ todo[p] = {}
  BY DEF Init, HoldsNone
<1>2. OwnPlaces(p) /\ RowsInOrder(p) /\ AllColumnsComing(p) /\ WritesComing(p) /\ KeysLeft(p)
  BY <1>1 DEF OwnPlaces, RowsInOrder, AllColumnsComing, WritesComing, KeysLeft
<1>3. TablesInOrder(p) /\ KeysOnly(p) /\ ExclusiveRows(p)
  BY <1>1, TableFacts DEF TablesInOrder, KeysOnly, ExclusiveRows, HoldsNone, None, Update
<1> QED BY <1>2, <1>3 DEF Ordered

LEMMA NextOInv == IInv /\ OInv /\ [Next]_vars => OInv'
<1> SUFFICES ASSUME IInv, OInv, [Next]_vars, NEW q \in Procs
             PROVE  Ordered(q)'
  BY DEF OInv
<1>0. TypeOK /\ LocksCompatible /\ Housed /\ Good(q) /\ Ordered(q)
  BY DEF IInv, OInv
<1>1. CASE UNCHANGED vars
  <2>1. AllColumnsComing(q)'
    BY <1>0, <1>1 DEF vars, Ordered, AllColumnsComing, Op
  <2> QED BY <1>0, <1>1, <2>1, OrderedKept DEF vars
<1>2. ASSUME NEW p \in Procs, Step(p)
      PROVE  Ordered(q)'
  <2>0. Good(p) /\ Ordered(p)
    BY DEF IInv, OInv
  <2>1. CASE p = q /\ ~Commit(p)
    BY <1>0, <1>2, <2>1, StepOrdered
  <2>2. CASE p = q /\ Commit(p)
    <3>1. End(p, "ok") /\ UNCHANGED <<req, seen, tries, doomed>> /\ "ok" \in Answers
      BY <1>0, <2>0, <2>2, CommitCovered DEF Answers
    <3>2. pc'[p] = "done" /\ \A r \in Rows : held'[p][r] = None
      BY <1>0, <3>1, EndStep
    <3> QED BY <2>0, <2>2, <3>1, <3>2, ReleasedOrdered
  <2>3. CASE p # q
    <3>1. OthersKept(p)
      <4>1. CASE Quiet(p)
        BY <4>1 DEF Quiet
      <4>2. CASE Commit(p)
        <5>1. End(p, "ok") /\ UNCHANGED <<req, seen, tries, doomed>> /\ "ok" \in Answers
          BY <1>0, <2>0, <4>2, CommitCovered DEF Answers
        <5> QED BY <1>0, <5>1, EndStep DEF OthersKept
      <4> QED BY <1>0, <1>2, <2>0, <4>1, <4>2, StepQuiet
    <3>2. AllColumnsComing(q)'
      BY <1>0, <1>2, <2>0, <2>3, <3>1, ColumnsComingKept DEF OthersKept
    <3> QED BY <1>0, <2>3, <3>1, <3>2, OrderedKept DEF OthersKept
  <2> QED BY <2>1, <2>2, <2>3
<1> QED BY <1>1, <1>2 DEF Next, Finished

\* Whatever the requests and their interleaving: a decision still holds at the
\* commit, BoardContents allows what is committed, and locks come in order.
THEOREM CardsInvariance == Spec => []CardsInv
<1>1. Init => OInv
  BY InitOInv
<1>2. Spec => [](IInv /\ AInv)
  BY Admission
<1>3. IInv /\ OInv /\ [Next]_vars => OInv'
  BY NextOInv
<1>4. IInv /\ AInv /\ OInv => CardsInv
  BY DEF CardsInv
<1> QED BY <1>1, <1>2, <1>3, <1>4, PTL DEF Spec

-----------------------------------------------------------------------------
(* Who can wait for whom.                                                   *)

\* A strict order on a finite set has a maximal element.
LEMMA FiniteMaximal ==
    ASSUME NEW T, IsFiniteSet(T), T # {}, NEW R,
           \A x, y, z \in T : <<x, y>> \in R /\ <<y, z>> \in R => <<x, z>> \in R,
           \A x \in T : <<x, x>> \notin R
    PROVE  \E x \in T : \A y \in T : <<x, y>> \notin R
<1> DEFINE beyond(x) == {y \in T : <<x, y>> \in R}
           sizes     == {Cardinality(beyond(x)) : x \in T}
<1>1. \A x \in T : IsFiniteSet(beyond(x)) /\ Cardinality(beyond(x)) \in Nat
  BY FS_Subset, FS_CardinalityType
<1>2. sizes \subseteq Nat /\ sizes # {}
  <2> HIDE DEF beyond
  <2> QED BY <1>1
<1>3. PICK n \in sizes : \A m \in sizes : ~(<<m, n>> \in OpToRel(<, Nat))
  <2> HIDE DEF sizes
  <2> QED BY <1>2, WFMin, NatLessThanWellFounded
<1>4. PICK x \in T : n = Cardinality(beyond(x))
  OBVIOUS
<1>5. SUFFICES ASSUME NEW y \in T, <<x, y>> \in R PROVE FALSE
  OBVIOUS
<1>6. beyond(y) \subseteq beyond(x) /\ y \in beyond(x) /\ y \notin beyond(y)
  BY <1>5
<1>7. Cardinality(beyond(y)) < Cardinality(beyond(x))
  <2> HIDE DEF beyond
  <2> QED BY <1>1, <1>6, FS_Subset
<1>8. Cardinality(beyond(y)) \in sizes
  OBVIOUS
<1> HIDE DEF sizes, beyond
<1> QED BY <1>1, <1>3, <1>4, <1>7, <1>8 DEF OpToRel

\* How far up the lock order p waits: the table, then the primary key.
Level(p) == CASE pc[p] = "cards" -> 1 [] pc[p] = "columns" -> 2 [] pc[p] = "lane" -> 3
              [] pc[p] = "write" -> 4 [] pc[p] = "fkey" -> 5 [] OTHER -> 0

Pk(p) == IF pc[p] \in {"cards", "columns"} THEN (CHOOSE r \in FirstByPk(todo[p]) : TRUE)[2] ELSE 0

Above(p, q) == Level(p) < Level(q) \/ (Level(p) = Level(q) /\ Pk(p) < Pk(q))

\* The one way back down: a foreign key on a column, to a reorder of columns.
Back(p, q) ==
    /\ pc[p] = "fkey" /\ Op(p) \in {"archive", "block", "restore"}
    /\ OfColumn(seen[p].col) \in todo[p]
    /\ pc[q] = "columns" /\ Op(q) = "reorderColumns"

LEMMA LevelFacts ==
    ASSUME NEW p
    PROVE  /\ Level(p) \in 0..5
           /\ pc[p] = "cards" => Level(p) = 1
           /\ pc[p] = "columns" => Level(p) = 2
           /\ pc[p] = "lane" => Level(p) = 3
           /\ pc[p] = "write" => Level(p) = 4
           /\ pc[p] = "fkey" => Level(p) = 5
           /\ Level(p) >= 2 => pc[p] \in {"columns", "lane", "write", "fkey"}
  BY DEF Level

\* A request that waits wants a row, in a mode that conflicts with the holder's.
LEMMA WaitRow ==
    ASSUME NEW p \in Procs, NEW q \in Procs, WaitsFor(p, q)
    PROVE  \E r : /\ \/ pc[p] = "board" /\ r = BoardRow /\ ~Compatible(held[q][r], BoardMode(Op(p)))
                     \/ pc[p] = "cards" /\ r \in FirstByPk(todo[p]) /\ ~Compatible(held[q][r], CardMode(Op(p)))
                     \/ /\ pc[p] = "columns" /\ r \in FirstByPk(todo[p])
                        /\ ~Compatible(held[q][r], ColumnMode(Op(p)))
                     \/ /\ pc[p] = "lane" /\ r = OfLane(Target(p, seen[p])[2])
                        /\ ~Compatible(held[q][r], NoKeyUpdate)
                     \/ pc[p] = "write" /\ r \in todo[p] /\ ~Compatible(held[q][r], WriteMode(p, r))
                     \/ pc[p] = "fkey" /\ r \in todo[p] /\ ~Compatible(held[q][r], KeyShare)
<1>1. PICK w \in Wanted(p) : ~Compatible(held[q][w[1]], w[2])
  BY DEF WaitsFor
<1>2. CASE pc[p] = "board"
  BY <1>1, <1>2 DEF Wanted
<1>3. CASE pc[p] = "cards"
  BY <1>1, <1>3 DEF Wanted
<1>4. CASE pc[p] = "columns"
  BY <1>1, <1>4 DEF Wanted
<1>5. CASE pc[p] = "lane"
  BY <1>1, <1>5 DEF Wanted
<1>6. CASE pc[p] = "write"
  BY <1>1, <1>6 DEF Wanted
<1>7. CASE pc[p] = "fkey"
  BY <1>1, <1>7 DEF Wanted
<1>8. CASE pc[p] \notin {"board", "cards", "columns", "lane", "write", "fkey"}
  BY <1>1, <1>8 DEF Wanted
<1> QED BY <1>2, <1>3, <1>4, <1>5, <1>6, <1>7, <1>8

\* Where a request that waits can be, and what it is then about.
LEMMA WaitPlace ==
    ASSUME CardsInv, NEW q \in Procs, Wanted(q) # {}
    PROVE  /\ pc[q] \in {"board", "cards", "columns", "lane", "write", "fkey"}
           /\ pc[q] \in {"cards", "columns"} => FirstByPk(todo[q]) # {}
           /\ pc[q] = "write" => Op(q) \in Cascades \cup {"reorderLanes"}
           /\ pc[q] = "fkey" => Op(q) \in Creations \cup {"move", "admin", "archive", "restore", "block"}
<1>1. pc[q] \in {"board", "cards", "columns", "lane", "write", "fkey"}
  BY DEF Wanted
<1>2. ASSUME pc[q] \in {"cards", "columns"} PROVE FirstByPk(todo[q]) # {}
  BY <1>2 DEF Wanted
<1>3. ASSUME pc[q] = "write" PROVE Op(q) \in Cascades \cup {"reorderLanes"}
  <2>1. todo[q] # {}
    BY <1>3 DEF Wanted
  <2>2. todo[q] \subseteq WriteRows(q)
    BY <1>3 DEF CardsInv, OInv, Ordered, WritesComing
  <2> QED BY <2>1, <2>2 DEF WriteRows, Cascades
<1>4. ASSUME pc[q] = "fkey"
      PROVE  Op(q) \in Creations \cup {"move", "admin", "archive", "restore", "block"}
  <2>1. todo[q] # {}
    BY <1>4 DEF Wanted
  <2>2. todo[q] \subseteq ForeignKeys(q)
    BY <1>4 DEF CardsInv, IInv, Good, ForeignKeysComing
  <2> QED BY <2>1, <2>2 DEF ForeignKeys
<1> QED BY <1>1, <1>2, <1>3, <1>4

\* A lock in the way is a lock held.
LEMMA InTheWay ==
    ASSUME TypeOK, NEW q \in Procs, NEW r \in Rows, NEW m \in Modes, ~Compatible(held[q][r], m)
    PROVE  held[q][r] # None /\ held[q][r] \in Modes /\ (m = KeyShare => held[q][r] = Update)
                             /\ (m = NoKeyUpdate => held[q][r] >= Share)
<1>1. held[q][r] \in Modes
  BY DEF TypeOK
<1> QED BY <1>1 DEF Compatible, Modes, None, KeyShare, Share, NoKeyUpdate, Update

\* All the rows that come first have the same primary key, which Pk gives.
LEMMA FirstPk ==
    ASSUME TypeOK, NEW p \in Procs, Good(p), Ordered(p), pc[p] \in {"cards", "columns"},
           NEW r \in FirstByPk(todo[p])
    PROVE  Pk(p) = r[2] /\ Pk(p) \in Nat
<1>1. PICK s \in FirstByPk(todo[p]) : s = CHOOSE x \in FirstByPk(todo[p]) : TRUE
  OBVIOUS
<1>2. todo[p] \subseteq CardRows \cup ColumnRows
  BY DEF Ordered, RowsInOrder, Good, ColumnsComing, ColumnRows
<1>3. r[2] \in Nat /\ s[2] \in Nat /\ r[2] <= s[2] /\ s[2] <= r[2]
  BY <1>2, PkFacts DEF FirstByPk
<1> QED BY <1>1, <1>3 DEF Pk

\* The waits up to the swimlane go up, row by row.
LEMMA EarlyEdge ==
    ASSUME CardsInv, NEW p \in Procs, NEW q \in Procs, WaitsFor(p, q), Wanted(q) # {},
           pc[p] \in {"board", "cards", "columns", "lane"}
    PROVE  Above(p, q)
<1>0. /\ TypeOK /\ Good(p) /\ Good(q) /\ Ordered(p) /\ Ordered(q)
      /\ pc[q] \in {"board", "cards", "columns", "lane", "write", "fkey"}
  BY WaitPlace DEF CardsInv, IInv, OInv
<1>1. CASE pc[p] = "board"
  <2>1. ~Compatible(held[q][BoardRow], BoardMode(Op(p)))
    BY <1>1, WaitRow
  <2>2. held[q][BoardRow] # None
    BY <1>0, <2>1, InTheWay, ModeTypes, RowFacts
  <2>3. pc[q] # "board"
    BY <1>0, <2>2, RowFacts DEF Ordered, TablesInOrder, HoldsNone
  <2> QED BY <1>0, <1>1, <2>3 DEF Above, Level
<1>2. CASE pc[p] = "cards"
  <2>1. PICK r \in FirstByPk(todo[p]) : ~Compatible(held[q][r], CardMode(Op(p)))
    BY <1>2, WaitRow
  <2>2. r \in todo[p] /\ r \in CardRows /\ r \in Rows /\ CardMode(Op(p)) \in Modes
    BY <1>0, <1>2, <2>1, TableFacts, ModeTypes DEF FirstByPk, Ordered, RowsInOrder
  <2>3. held[q][r] # None
    BY <1>0, <2>1, <2>2, InTheWay
  <2>4. pc[q] # "board"
    BY <1>0, <2>2, <2>3 DEF Ordered, TablesInOrder, HoldsNone
  <2>5. CASE pc[q] = "cards"
    <3>1. PICK s \in FirstByPk(todo[q]) : TRUE
      BY <2>5, WaitPlace
    <3>2. s \in todo[q]
      BY DEF FirstByPk
    <3>3. r[2] < s[2]
      BY <1>0, <2>2, <2>3, <2>5, <3>2 DEF Ordered, RowsInOrder
    <3>4. Pk(p) < Pk(q)
      BY <1>0, <1>2, <2>5, <3>3, FirstPk
    <3> QED BY <1>2, <2>5, <3>4, LevelFacts DEF Above
  <2> QED BY <1>0, <1>2, <2>4, <2>5, LevelFacts DEF Above, Level
<1>3. CASE pc[p] = "columns"
  <2>1. PICK r \in FirstByPk(todo[p]) : ~Compatible(held[q][r], ColumnMode(Op(p)))
    BY <1>3, WaitRow
  <2>2. r \in todo[p] /\ r \in ColumnRows /\ r \in Rows /\ ColumnMode(Op(p)) \in Modes
    BY <1>0, <1>3, <2>1, TableFacts, ModeTypes DEF FirstByPk, Good, ColumnsComing, ColumnRows
  <2>3. held[q][r] # None
    BY <1>0, <2>1, <2>2, InTheWay
  <2>4. pc[q] \notin {"board", "cards"}
    BY <1>0, <2>2, <2>3 DEF Ordered, TablesInOrder, HoldsNone
  <2>5. CASE pc[q] = "columns"
    <3>1. PICK s \in FirstByPk(todo[q]) : TRUE
      BY <2>5, WaitPlace
    <3>2. s \in todo[q]
      BY DEF FirstByPk
    <3>3. r[2] < s[2]
      BY <1>0, <2>2, <2>3, <2>5, <3>2 DEF Ordered, RowsInOrder
    <3>4. Pk(p) < Pk(q)
      BY <1>0, <1>3, <2>5, <3>3, FirstPk
    <3> QED BY <1>3, <2>5, <3>4, LevelFacts DEF Above
  <2> QED BY <1>0, <1>3, <2>4, <2>5, LevelFacts DEF Above, Level
<1>4. CASE pc[p] = "lane"
  <2> DEFINE r == OfLane(Target(p, seen[p])[2])
  <2>1. ~Compatible(held[q][r], NoKeyUpdate) /\ r \in LaneRows /\ r \in Rows
    BY <1>0, <1>4, WaitRow, RequestFields, RowTypes, TableFacts
  <2>2. held[q][r] # None
    BY <1>0, <2>1, InTheWay, ModeTypes
  <2>3. pc[q] \notin {"board", "cards", "columns", "lane"}
    BY <1>0, <2>1, <2>2 DEF Ordered, TablesInOrder, HoldsNone
  <2> QED BY <1>0, <1>4, <2>3 DEF Above, Level
<1> QED BY <1>1, <1>2, <1>3, <1>4

\* Only one request that updates or deletes containers is past the board row,
\* and then none that asked for the board row in FOR SHARE is.
LEMMA BoardExcludes ==
    ASSUME CardsInv, NEW p \in Procs, NEW q \in Procs, p # q,
           Op(p) \in Cascades \cup Reorders \cup {"addColumn"},
           pc[p] \notin {"read", "board", "done"}, pc[q] \notin {"read", "board", "done"}
    PROVE  BoardMode(Op(q)) = None /\ held[q][BoardRow] < Share
<1>1. held[p][BoardRow] >= BoardMode(Op(p)) /\ held[q][BoardRow] >= BoardMode(Op(q))
  BY DEF CardsInv, IInv, Good, BoardHeld
<1>2. BoardMode(Op(p)) >= NoKeyUpdate
  BY DEF BoardMode, Cascades, Reorders, NoKeyUpdate, Update
<1>3. held[p][BoardRow] \in Nat /\ held[q][BoardRow] \in Nat /\ held[p][BoardRow] + held[q][BoardRow] < 5
  BY RowFacts DEF CardsInv, IInv, LocksCompatible, Compatible, TypeOK, Modes, None, Update
<1>4. held[q][BoardRow] < Share
  BY <1>1, <1>2, <1>3 DEF BoardMode, NoKeyUpdate, Update, Share
<1>5. BoardMode(Op(q)) \in {None, Share, NoKeyUpdate, Update}
  BY DEF BoardMode
<1> QED BY <1>1, <1>3, <1>4, <1>5 DEF None, Share, NoKeyUpdate, Update

\* A write waits for nothing but a commit.
LEMMA WriteEdge ==
    ASSUME CardsInv, NEW p \in Procs, NEW q \in Procs, p # q, WaitsFor(p, q), Wanted(q) # {},
           pc[p] = "write"
    PROVE  Above(p, q)
<1>0. TypeOK /\ Good(p) /\ Good(q) /\ Ordered(p) /\ Ordered(q)
  BY DEF CardsInv, IInv, OInv
<1>1. PICK r \in todo[p] : ~Compatible(held[q][r], WriteMode(p, r))
  BY WaitRow
<1>2. /\ r \in Rows /\ r \in WriteRows(p) /\ r \in LaneRows \cup ColumnRows \cup {BoardRow}
      /\ r \in ColumnRows => held[p][r] >= NoKeyUpdate
  <2>1. r \in WriteRows(p) /\ r \in Rows /\ (r \in ColumnRows => held[p][r] >= NoKeyUpdate)
    BY <1>0 DEF Ordered, WritesComing, TypeOK
  <2> QED BY <1>0, <2>1, RequestFields, TableFacts DEF WriteRows
<1>3. held[q][r] # None
  BY <1>0, <1>1, <1>2, InTheWay, ModeTypes
<1>4. Op(p) \in Cascades \cup Reorders
  BY <1>2 DEF WriteRows, Cascades, Reorders
<1>5. pc[q] \in {"board", "cards", "columns", "lane", "write", "fkey"}
  BY WaitPlace
<1>6. pc[q] # "board"
  BY <1>0, <1>2, <1>3 DEF Ordered, TablesInOrder, HoldsNone
<1>7. BoardMode(Op(q)) = None
  BY <1>4, <1>5, <1>6, BoardExcludes
<1>8. pc[q] # "write"
  <2> SUFFICES ASSUME pc[q] = "write" PROVE FALSE
    OBVIOUS
  <2>1. Op(q) \in Cascades \cup {"reorderLanes"}
    BY WaitPlace
  <2> QED BY <1>7, <2>1 DEF BoardMode, Cascades, Reorders, None, NoKeyUpdate
<1>9. pc[q] \notin {"cards", "columns", "lane"}
  <2> SUFFICES ASSUME pc[q] \in {"cards", "columns", "lane"} PROVE FALSE
    OBVIOUS
  <2>1. held[q][BoardRow] = None /\ HoldsNone(q, LaneRows)
    BY <1>0, <1>7 DEF Ordered, TablesInOrder, HoldsNone
  <2>2. r \in ColumnRows /\ held[p][r] >= NoKeyUpdate
    BY <1>2, <1>3, <2>1 DEF HoldsNone
  <2>3. PICK k \in Columns : r = OfColumn(k)
    BY <2>2 DEF ColumnRows
  <2>4. held[q][r] \in {None, NoKeyUpdate, Update}
    <3>1. CASE pc[q] = "lane"
      BY <1>0, <2>2, <3>1 DEF Ordered, TablesInOrder
    <3>2. CASE pc[q] # "lane"
      BY <1>0, <2>3, <3>2 DEF Good, EarlyModes, Early, Late, Places
    <3> QED BY <3>1, <3>2
  <2>5. ~(held[q][r] >= NoKeyUpdate)
    BY <1>0, <1>2, <2>2, Excluded DEF CardsInv, IInv
  <2> QED BY <1>3, <2>4, <2>5 DEF None, NoKeyUpdate, Update
<1> QED BY <1>5, <1>6, <1>8, <1>9, LevelFacts DEF Above

\* What a foreign key of a request without the board row may still wait for.
LEMMA KeyRows ==
    ASSUME CardsInv, NEW p \in Procs, pc[p] = "fkey", BoardMode(Op(p)) = None, NEW r \in todo[p]
    PROVE  /\ held[p][r] = None /\ r \in Rows
           /\ Op(p) \in {"move", "archive", "restore", "block"}
           /\ Op(p) = "move" => CellChange(p, seen[p]) /\ r \notin ColumnRows
           /\ Op(p) # "move" => r \in {BoardRow, OfColumn(seen[p].col), OfLane(seen[p].lane)}
<1>0. TypeOK /\ Good(p) /\ Ordered(p) /\ pc[p] \in Late
  BY DEF CardsInv, IInv, OInv, Late
<1>1. r \in ForeignKeys(p) /\ r \in Rows /\ held[p][r] = None
  BY <1>0 DEF Good, ForeignKeysComing, Ordered, KeysLeft, HoldsNone, TypeOK
<1>2. Op(p) \in {"move", "archive", "restore", "block"} /\ (Op(p) = "move" => CellChange(p, seen[p]))
  BY <1>1 DEF ForeignKeys, BoardMode, Creations, None, Share
<1>3. ASSUME Op(p) = "move" PROVE r \notin ColumnRows
  <2>1. /\ held[p][OfColumn(seen[p].col)] >= NoKeyUpdate
        /\ held[p][OfColumn(req[p].col)] >= NoKeyUpdate
    BY <1>0, <1>3 DEF Good, ColumnsHeld, EntryColumns, Creations
  <2>2. Target(p, seen[p]) = <<req[p].col, req[p].lane>>
    BY <1>3 DEF Target, Targeting
  <2>3. r # OfColumn(seen[p].col) /\ r # OfColumn(req[p].col)
    BY <1>1, <2>1 DEF None, NoKeyUpdate
  <2>4. seen[p].lane \in Lanes /\ req[p].lane \in Lanes
    BY <1>0, RequestFields DEF CardRecord
  <2> QED BY <1>1, <1>3, <2>2, <2>3, <2>4, TableFacts DEF ForeignKeys, Creations
<1>4. ASSUME Op(p) # "move"
      PROVE  r \in {BoardRow, OfColumn(seen[p].col), OfLane(seen[p].lane)}
  <2>1. Target(p, seen[p]) = <<seen[p].col, seen[p].lane>> /\ Op(p) \in {"archive", "restore", "block"}
    BY <1>2, <1>4 DEF Target, Targeting, Creations
  <2> QED BY <1>1, <2>1 DEF ForeignKeys, Creations
<1> QED BY <1>1, <1>2, <1>3, <1>4

\* Foreign keys are on columns, swimlanes and the board, never on cards.
LEMMA KeyTables ==
    ASSUME CardsInv, NEW p \in Procs, pc[p] = "fkey"
    PROVE  todo[p] \subseteq Rows \ CardRows
<1>1. TypeOK /\ todo[p] \subseteq ForeignKeys(p)
  BY DEF CardsInv, IInv, Good, ForeignKeysComing
<1>2. /\ Target(p, seen[p])[1] \in Columns /\ Target(p, seen[p])[2] \in Lanes
      /\ seen[p].col \in Columns /\ seen[p].lane \in Lanes
      /\ req[p].col \in Columns /\ req[p].lane \in Lanes
  BY <1>1, RequestFields, RowTypes DEF CardRecord
<1>3. ForeignKeys(p) \cap CardRows = {}
  BY <1>2, TableFacts DEF ForeignKeys
<1> QED BY <1>1, <1>3 DEF TypeOK

\* No foreign key waits for a cascade that has passed its re-check: the card
\* would be one of those that the cascade has locked, or the column is held.
LEMMA KeyNotCascade ==
    ASSUME CardsInv, NEW p \in Procs, NEW q \in Procs, p # q, pc[p] = "fkey",
           Op(q) \in Cascades, pc[q] \in Late, NEW r \in todo[p]
    PROVE  held[q][r] # Update
<1> SUFFICES ASSUME held[q][r] = Update PROVE FALSE
  OBVIOUS
<1>0. TypeOK /\ LocksCompatible /\ Good(p) /\ Good(q) /\ Ordered(p) /\ Ordered(q) /\ Housed
  BY DEF CardsInv, IInv, OInv
<1>1. pc[q] \notin {"read", "board", "done"} /\ pc[p] \notin {"read", "board", "done"}
      /\ pc[p] \in Late /\ pc[p] \in Decided
  BY DEF Late, Decided
<1>2. BoardMode(Op(p)) = None
  BY <1>1, BoardExcludes
<1>3. r \in Rows /\ held[p][r] = None /\ r \notin CardRows
  BY <1>2, KeyRows, KeyTables
<1>4. Op(p) \in {"move", "archive", "restore", "block"} /\ (Op(p) = "move" => CellChange(p, seen[p]))
  BY <1>2, KeyRows
<1>5. /\ req[p].card \in Live /\ seen[p] = card[req[p].card]
      /\ held[p][OfCard(req[p].card)] >= NoKeyUpdate
  <2>1. Op(p) \in CardOps
    BY <1>4 DEF CardOps
  <2>2. /\ req[p].card \in Live /\ seen[p] = card[req[p].card]
        /\ held[p][OfCard(req[p].card)] >= CardMode(Op(p))
    BY <1>0, <1>1, <2>1 DEF Good, CardHeld
  <2>3. held[p][OfCard(req[p].card)] \in Nat
    BY <1>0, RequestFields, RowFacts DEF TypeOK, Modes, None, Update
  <2> QED BY <2>2, <2>3, ModeTypes DEF NoKeyUpdate, Update
<1>6. req[p].card \notin Container(q)
  <2> SUFFICES ASSUME req[p].card \in Container(q) PROVE FALSE
    OBVIOUS
  <2>1. held[q][OfCard(req[p].card)] = Update
    BY <1>0 DEF Good, MembersHeld, Members
  <2>2. OfCard(req[p].card) \in Rows
    BY <1>0, RequestFields, RowFacts
  <2> QED BY <1>0, <1>5, <2>1, <2>2, Excluded DEF NoKeyUpdate, Update
<1>7. r \in WriteRows(q) \ (IF Op(q) = "dropColumn" THEN LaneRows ELSE {})
  BY <1>0, <1>3 DEF Ordered, ExclusiveRows, Exclusive, Cascades
<1>8. Op(p) = "move" => r \notin ColumnRows
  BY <1>2, KeyRows
<1>9. Op(p) # "move" => r \in {BoardRow, OfColumn(seen[p].col), OfLane(seen[p].lane)}
  BY <1>2, KeyRows
<1>10. /\ seen[p].col \in Columns /\ seen[p].lane \in Lanes
       /\ req[q].col \in Columns /\ req[q].lane \in Lanes /\ req[p].col \in Columns
  BY <1>0, RequestFields DEF CardRecord
<1>11. CASE Op(q) = "dropBoard"
  BY <1>5, <1>6, <1>11 DEF Container
<1>12. CASE Op(q) = "dropColumn"
  <2>1. r = OfColumn(req[q].col)
    BY <1>7, <1>12 DEF WriteRows
  <2>2. r = OfColumn(seen[p].col)
    BY <1>8, <1>9, <1>10, <2>1, RowFacts, TableFacts
  <2>3. req[p].card \in InColumn(req[q].col)
    BY <1>5, <1>10, <2>1, <2>2, RowFacts DEF InColumn
  <2> QED BY <1>6, <1>12, <2>3 DEF Container
<1>13. CASE Op(q) = "dropLane"
  <2>1. r = OfLane(req[q].lane)
    BY <1>7, <1>13 DEF WriteRows
  <2>2. CASE Op(p) = "move"
    <3>1. held[p][OfColumn(req[p].col)] >= NoKeyUpdate /\ OfColumn(req[p].col) \in Rows
      BY <1>0, <1>1, <1>4, <1>10, <2>2, RowFacts DEF Good, ColumnsHeld, EntryColumns, Creations
    <3>2. req[p].col \in cols
      BY <1>0, <1>10, <3>1, ExistingFacts
         DEF Good, HeldExist, NoKeyUpdate, None, TypeOK, ContentsTypeOK
    <3>3. held[q][OfColumn(req[p].col)] >= NoKeyUpdate
      BY <1>0, <1>13, <3>2 DEF Good, ColumnsHeld, EntryColumns, Creations
    <3> QED BY <1>0, <3>1, <3>3, Excluded
  <2>3. CASE Op(p) # "move"
    <3>1. r = OfLane(seen[p].lane)
      BY <1>9, <1>10, <2>1, <2>3, RowFacts, TableFacts
    <3>2. req[p].card \in InLane(req[q].lane)
      BY <1>5, <1>10, <2>1, <3>1, RowFacts DEF InLane
    <3> QED BY <1>6, <1>13, <3>2 DEF Container
  <2> QED BY <2>2, <2>3
<1> QED BY <1>11, <1>12, <1>13 DEF Cascades

\* A foreign key that waits for a request that waits is the way back.
LEMMA KeyEdge ==
    ASSUME CardsInv, NEW p \in Procs, NEW q \in Procs, p # q, WaitsFor(p, q), Wanted(q) # {},
           pc[p] = "fkey"
    PROVE  Back(p, q)
<1>0. TypeOK /\ Good(p) /\ Good(q) /\ Ordered(p) /\ Ordered(q)
  BY DEF CardsInv, IInv, OInv
<1>1. PICK r \in todo[p] : ~Compatible(held[q][r], KeyShare)
  BY WaitRow
<1>2. r \in Rows \ CardRows
  BY KeyTables
<1>3. held[q][r] = Update
  BY <1>0, <1>1, <1>2, InTheWay, ModeTypes
<1>4. r \in Exclusive(q)
  BY <1>0, <1>2, <1>3 DEF Ordered, ExclusiveRows
<1>5. pc[q] \in {"board", "cards", "columns", "lane", "write", "fkey"} /\ pc[q] # "board"
  BY <1>0, <1>2, <1>3, WaitPlace DEF Ordered, TablesInOrder, HoldsNone, None, Update
<1>6. ~(Op(q) \in Cascades /\ pc[q] \in Late)
  BY <1>3, KeyNotCascade
<1>7. Op(q) # "addColumn"
  BY <1>0, <1>5, WaitPlace DEF Ordered, OwnPlaces, Creations
<1>8. Op(q) = "reorderColumns" /\ r \in ColumnRows
  BY <1>4, <1>6, <1>7 DEF Exclusive
<1>9. pc[q] = "columns"
  BY <1>0, <1>5, <1>8, WaitPlace DEF Ordered, OwnPlaces, Creations, Cascades
<1>10. BoardMode(Op(p)) = None
  BY <1>8, <1>9, BoardExcludes DEF Reorders
<1>11. Op(p) \in {"archive", "restore", "block"} /\ r = OfColumn(seen[p].col)
  <2>1. seen[p].lane \in Lanes
    BY <1>0, RequestFields DEF CardRecord
  <2> QED BY <1>8, <1>10, <2>1, KeyRows, TableFacts
<1> QED BY <1>8, <1>9, <1>11 DEF Back

\* Every wait goes up, but for the way back.
LEMMA Edge ==
    ASSUME CardsInv, NEW p \in Procs, NEW q \in Procs, p # q, WaitsFor(p, q), Wanted(q) # {}
    PROVE  Above(p, q) \/ Back(p, q)
<1>1. Wanted(p) # {}
  BY DEF WaitsFor
<1>2. pc[p] \in {"board", "cards", "columns", "lane", "write", "fkey"}
  BY <1>1, WaitPlace
<1> QED BY <1>2, EarlyEdge, WriteEdge, KeyEdge

\* A restore that waits on the way back has a column without a limit.
LEMMA BackUnlimited ==
    ASSUME CardsInv, NEW p \in Procs, pc[p] = "fkey", Op(p) = "restore",
           OfColumn(seen[p].col) \in todo[p]
    PROVE  seen[p].col \notin DOMAIN ColumnLimit
<1> SUFFICES ASSUME seen[p].col \in DOMAIN ColumnLimit PROVE FALSE
  OBVIOUS
<1>1. Target(p, seen[p]) = <<seen[p].col, seen[p].lane>>
  BY DEF Target, Targeting, Creations
<1>2. ColumnApplies(p)
  BY <1>1 DEF ColumnApplies, Enforces, CountsIn
<1>3. held[p][OfColumn(seen[p].col)] >= NoKeyUpdate
  BY <1>1, <1>2 DEF CardsInv, AInv, Admitted, LimitColumnHeld, Late, Placing
<1>4. held[p][OfColumn(seen[p].col)] = None
  BY DEF CardsInv, OInv, Ordered, KeysLeft, HoldsNone
<1> QED BY <1>3, <1>4 DEF None, NoKeyUpdate

\* An archive or a block on its way back holds nothing that others wait for,
\* once they are past the cards.
LEMMA KeysBlockNobody ==
    ASSUME CardsInv, NEW p \in Procs, NEW q \in Procs, NEW z \in Procs, p # q, q # z,
           Level(p) >= 2, WaitsFor(p, q), WaitsFor(q, z), Wanted(z) # {},
           pc[q] = "fkey", Op(q) \in {"archive", "block"}
    PROVE  FALSE
<1>0. TypeOK /\ Good(p) /\ Good(q) /\ Ordered(p) /\ Ordered(q)
  BY DEF CardsInv, IInv, OInv
<1>1. Back(q, z)
  BY KeyEdge
<1>2. held[q][OfColumn(seen[q].col)] = None
  BY <1>0, <1>1 DEF Back, Ordered, KeysLeft, HoldsNone
<1>3. HoldsNone(q, ColumnRows) /\ \A r \in LaneRows : held[q][r] \in {None, KeyShare}
  BY <1>0, <1>2 DEF Ordered, KeysOnly, HoldsNone, ColumnRows
<1>4. pc[p] \in {"columns", "lane", "write", "fkey"}
  BY LevelFacts
<1>5. CASE pc[p] = "columns"
  <2>1. PICK r \in todo[p] : ~Compatible(held[q][r], ColumnMode(Op(p)))
    BY <1>5, WaitRow DEF FirstByPk
  <2>2. r \in ColumnRows /\ r \in Rows
    BY <1>0, <1>5, TableFacts DEF Good, ColumnsComing, ColumnRows
  <2> QED BY <1>0, <1>3, <2>1, <2>2, InTheWay, ModeTypes DEF HoldsNone
<1>6. CASE pc[p] = "lane"
  <2> DEFINE r == OfLane(Target(p, seen[p])[2])
  <2>1. ~Compatible(held[q][r], NoKeyUpdate) /\ r \in LaneRows /\ r \in Rows
    BY <1>0, <1>6, WaitRow, RequestFields, RowTypes, TableFacts
  <2>2. held[q][r] >= Share
    BY <1>0, <2>1, InTheWay, ModeTypes
  <2> QED BY <1>3, <2>1, <2>2 DEF None, KeyShare, Share
<1>7. CASE pc[p] = "write"
  <2>1. Op(p) \in Cascades \cup Reorders /\ p # z
    <3>1. Wanted(p) # {}
      BY DEF WaitsFor
    <3> QED BY <1>1, <1>7, <3>1, WaitPlace DEF Back, Reorders
  <2>2. BoardMode(Op(z)) = None
    BY <1>1, <1>7, <2>1, BoardExcludes DEF Back
  <2> QED BY <1>1, <2>2 DEF Back, BoardMode, Cascades, Reorders, None, NoKeyUpdate
<1>8. CASE pc[p] = "fkey"
  <2>1. PICK r \in todo[p] : ~Compatible(held[q][r], KeyShare)
    BY <1>8, WaitRow
  <2>2. r \in Rows \ CardRows /\ held[q][r] = Update
    BY <1>0, <1>8, <2>1, KeyTables, InTheWay, ModeTypes
  <2> QED BY <1>0, <2>2 DEF Ordered, ExclusiveRows, Exclusive, Cascades
<1> QED BY <1>4, <1>5, <1>6, <1>7, <1>8

\* Among finitely many requests that all wait, waits do not only go up.
LEMMA NoAscent ==
    ASSUME CardsInv, NEW T \in SUBSET Procs, T # {},
           \A p \in T : Wanted(p) # {} /\ \E q \in T : Above(p, q)
    PROVE  FALSE
<1> DEFINE R == {x \in T \X T : Above(x[1], x[2])}
<1>1. \A p \in T : Level(p) \in Nat /\ Pk(p) \in Nat
  <2> TAKE p \in T
  <2>1. CASE pc[p] \in {"cards", "columns"}
    <3>1. PICK r \in FirstByPk(todo[p]) : TRUE
      BY <2>1, WaitPlace
    <3> QED BY <2>1, <3>1, FirstPk, LevelFacts DEF CardsInv, IInv, OInv
  <2>2. CASE pc[p] \notin {"cards", "columns"}
    BY <2>2, LevelFacts DEF Pk
  <2> QED BY <2>1, <2>2
<1>2. \A x, y \in T : <<x, y>> \in R <=> Above(x, y)
  OBVIOUS
<1>3. IsFiniteSet(T)
  BY ProcsAssumption, FS_Subset
<1>4. \A x, y, z \in T : Above(x, y) /\ Above(y, z) => Above(x, z)
  BY <1>1 DEF Above
<1>5. \A x \in T : ~Above(x, x)
  BY <1>1 DEF Above
<1> HIDE DEF R
<1>6. \E x \in T : \A y \in T : <<x, y>> \notin R
  BY <1>2, <1>3, <1>4, <1>5, FiniteMaximal
<1> QED BY <1>2, <1>6

\* The deadlocks of CardLocks: a reorder of the columns at one end, a restore
\* that did not lock its column at the other.
LEMMA CardsDeadlock == CardsInv => OnlyRestoresDeadlock
<1> SUFFICES ASSUME CardsInv, NEW S \in SUBSET Procs, WaitCycle(S)
             PROVE  /\ \E p \in S : Op(p) = "reorderColumns" /\ pc[p] = "columns"
                    /\ \E p \in S : /\ Op(p) = "restore" /\ pc[p] = "fkey"
                                    /\ seen[p].col \notin DOMAIN ColumnLimit
  BY DEF OnlyRestoresDeadlock
<1>1. S # {} /\ \A p \in S : Wanted(p) # {} /\ \E q \in S \ {p} : WaitsFor(p, q)
  BY DEF WaitCycle, WaitsFor
<1>2. \A p, q \in S : p # q /\ WaitsFor(p, q) => Above(p, q) \/ Back(p, q)
  BY <1>1, Edge
<1>3. \E p \in S : Op(p) = "reorderColumns" /\ pc[p] = "columns"
  <2> SUFFICES ASSUME ~(\E p \in S : Op(p) = "reorderColumns" /\ pc[p] = "columns")
               PROVE  FALSE
    OBVIOUS
  <2>1. \A p \in S : \E q \in S : Above(p, q)
    BY <1>1, <1>2 DEF Back
  <2> QED BY <1>1, <2>1, NoAscent
<1>4. ASSUME ~(\E p \in S : /\ Op(p) = "restore" /\ pc[p] = "fkey"
                            /\ seen[p].col \notin DOMAIN ColumnLimit)
      PROVE  FALSE
  <2> DEFINE onKeys(p) == pc[p] = "fkey" /\ Op(p) \in {"archive", "block"}
             T == {p \in S : Level(p) >= 2 /\ ~onKeys(p)}
  <2>1. T # {}
    <3>1. PICK p \in S : Op(p) = "reorderColumns" /\ pc[p] = "columns"
      BY <1>3
    <3> QED BY <3>1, LevelFacts
  <2>2. ASSUME NEW p \in T PROVE \E q \in T : Above(p, q)
    <3>1. PICK q \in S \ {p} : WaitsFor(p, q)
      BY <1>1
    <3>2. ~Back(p, q)
      BY <1>4, BackUnlimited DEF Back
    <3>3. Above(p, q)
      BY <1>2, <3>1, <3>2
    <3>4. Level(q) >= 2
      BY <3>3, LevelFacts DEF Above
    <3>5. ~onKeys(q)
      BY <1>1, <3>1, KeysBlockNobody
    <3> QED BY <3>3, <3>4, <3>5
  <2>3. T \in SUBSET Procs /\ \A p \in T : Wanted(p) # {}
    BY <1>1
  <2> HIDE DEF T
  <2> QED BY <2>1, <2>2, <2>3, NoAscent
<1> QED BY <1>3, <1>4

\* Requests never wait for one another in a circle without a column reorder
\* and a restore into a column without a limit.
THEOREM DeadlockFreeButRestores == Spec => []OnlyRestoresDeadlock
  BY CardsInvariance, CardsDeadlock, PTL
=============================================================================
