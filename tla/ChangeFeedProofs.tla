-------------------------- MODULE ChangeFeedProofs --------------------------
(***************************************************************************)
(* The change feed by itself, for any number of events, pruners and kinds    *)
(* and any batch size: the invariant of its rows, marks and batches, what a  *)
(* step leaves to those who have read it, and the lemmas about the operators *)
(* its readers ask with.                                                    *)
(***************************************************************************)
EXTENDS ChangeFeed, FiniteSetTheorems, WellFoundedInduction, TLAPS

\* Ids are given in order, and the rows pruned without a record are the oldest.
Numbered  == \A i \in Ids : status[i] = "none" <=> i >= next
LostFirst == \A i \in Lost, j \in Ids \ Lost : i < j

\* What a pruner is about to delete is there, or another has deleted it.
BatchesRead == \A p \in Pruners : batch[p] \subseteq Visible \cup Pruned

\* Nothing at or above next is recorded.
MarksBelow == floor < next /\ \A k \in Kinds : mark[k] < next

Unmarked == ~known => floor = 0 /\ \A k \in Kinds : mark[k] = 0

\* No transaction is open below a row old enough to be pruned: what the
\* retention buys.
Settled == \A i \in Open :
    /\ floor < i
    /\ \A k \in Kinds : mark[k] < i
    /\ \A p \in Pruners : \A j \in batch[p] : j < i

\* A row inserted after an open one is older by the lag of its clock at most.
Aged ==
    /\ \A i \in Ids \ (Open \cup Visible) : since[i] = 0
    /\ \A i \in Open : since[i] <= TxTime
    /\ \A i \in Open, j \in Open \cup Visible : i < j => age[j] <= since[i] + Skew

FInv == /\ FeedTypeOK /\ MarksCoverPruned
        /\ Numbered /\ LostFirst /\ BatchesRead /\ MarksBelow /\ Unmarked
        /\ Settled /\ Aged

-----------------------------------------------------------------------------
(* Least and greatest elements.                                             *)

LEMMA LeastExists ==
    ASSUME NEW T \in SUBSET Nat, T # {}
    PROVE  \E x \in T : \A y \in T : x <= y
<1>1. PICK x \in T : \A y \in T : ~ (<<y, x>> \in OpToRel(<, Nat))
  BY NatLessThanWellFounded, WFMin
<1>2. ASSUME NEW y \in T PROVE x <= y
  <2>1. ~ (y < x)
    BY <1>1 DEF OpToRel
  <2>2. QED
    BY <2>1
<1>3. QED
  BY <1>2

LEMMA MinFact ==
    ASSUME NEW S \in SUBSET Nat, S # {}
    PROVE  Min(S) \in S /\ \A y \in S : Min(S) <= y
BY LeastExists DEF Min

LEMMA MaxFact ==
    ASSUME NEW N \in Nat, NEW S \in SUBSET (0 .. N), S # {}
    PROVE  Max(S) \in S /\ \A y \in S : y <= Max(S)
<1> DEFINE T == {N - y : y \in S}
<1>1. \A y \in S : N - y \in Nat
  OBVIOUS
<1>2. PICK x \in T : \A y \in T : x <= y
  <2>1. T \in SUBSET Nat
    BY <1>1
  <2>2. T # {}
    OBVIOUS
  <2> HIDE DEF T
  <2>3. QED
    BY <2>1, <2>2, LeastExists
<1>3. PICK s \in S : x = N - s
  BY <1>2
<1>4. ASSUME NEW y \in S PROVE y <= s
  <2>1. N - y \in T
    OBVIOUS
  <2>2. N - s <= N - y
    BY <1>2, <1>3, <2>1
  <2>3. QED
    BY <2>2
<1>5. QED
  BY <1>3, <1>4 DEF Max

LEMMA HighestFact ==
    ASSUME NEW S \in SUBSET (0 .. MaxId)
    PROVE  /\ Highest(S) \in S \/ (S = {} /\ Highest(S) = 0)
           /\ Highest(S) \in 0 .. MaxId
           /\ \A y \in S : y <= Highest(S)
<1>1. MaxId \in Nat
  BY FeedAssumption
<1>2. CASE S = {}
  BY <1>1, <1>2 DEF Highest
<1>3. CASE S # {}
  <2>1. Highest(S) = Max(S)
    BY <1>3 DEF Highest
  <2>2. Max(S) \in S /\ \A y \in S : y <= Max(S)
    BY <1>1, <1>3, MaxFact
  <2>3. QED
    BY <2>1, <2>2
<1>4. QED
  BY <1>2, <1>3

\* The first n rows of S: if one is among them, so are all below it.
LEMMA FirstFact ==
    ASSUME NEW S \in SUBSET Ids, NEW n \in Nat
    PROVE  /\ First(S, n) \subseteq S
           /\ \A m \in First(S, n), i \in S : i <= m => i \in First(S, n)
<1>1. First(S, n) \subseteq S
  BY DEF First
<1>2. ASSUME NEW m \in First(S, n), NEW i \in S, i <= m
      PROVE  i \in First(S, n)
  <2> DEFINE A == {j \in S : j < i}
             B == {j \in S : j < m}
  <2>1. IsFiniteSet(Ids)
    BY FS_Interval, FeedAssumption DEF Ids
  <2>2. IsFiniteSet(B)
    BY <2>1, FS_Subset
  <2>3. A \subseteq B
    <3>1. MaxId \in Nat /\ m \in Ids /\ i \in Ids
      BY <1>1, <1>2, FeedAssumption
    <3>2. ASSUME NEW j \in A PROVE j \in B
      <4>1. j \in Ids /\ j < i
        OBVIOUS
      <4>2. j < m
        BY <1>2, <3>1, <4>1 DEF Ids
      <4>3. QED
        BY <3>2, <4>2
    <3>3. QED
      BY <3>2
  <2>4. Cardinality(A) <= Cardinality(B) /\ Cardinality(A) \in Nat /\ Cardinality(B) \in Nat
    BY <2>2, <2>3, FS_Subset, FS_CardinalityType
  <2>5. Cardinality(B) < n
    BY DEF First
  <2>6. QED
    BY <2>4, <2>5 DEF First
<1>3. QED
  BY <1>1, <1>2

LEMMA PairMax ==
    ASSUME NEW a \in 0 .. MaxId, NEW b \in 0 .. MaxId
    PROVE  Max({a, b}) \in {a, b} /\ a <= Max({a, b}) /\ b <= Max({a, b})
<1> DEFINE S == {a, b}
<1>1. S \in SUBSET (0 .. MaxId) /\ S # {} /\ a \in S /\ b \in S
  OBVIOUS
<1>2. MaxId \in Nat
  BY FeedAssumption
<1>3. Max(S) \in S /\ \A y \in S : y <= Max(S)
  <2> HIDE DEF S
  <2>1. QED
    BY <1>1, <1>2, MaxFact
<1>4. QED
  BY <1>1, <1>3

-----------------------------------------------------------------------------
(* Marks.                                                                   *)

LEMMA TopFact ==
    ASSUME NEW b \in SUBSET Ids, NEW k \in Kinds
    PROVE  /\ Top(b, k) \in 0 .. MaxId
           /\ Top(b, k) \in b \/ Top(b, k) = 0
           /\ \A i \in b : kind[i] = k => i <= Top(b, k)
<1> DEFINE S == {i \in b : kind[i] = k}
<1>1. S \in SUBSET (0 .. MaxId)
  <2>1. S \subseteq Ids /\ MaxId \in Nat
    BY FeedAssumption
  <2>2. Ids \subseteq 0 .. MaxId
    BY <2>1 DEF Ids
  <2>3. QED
    BY <2>1, <2>2
<1>2. /\ Highest(S) \in S \/ Highest(S) = 0
      /\ Highest(S) \in 0 .. MaxId
      /\ \A y \in S : y <= Highest(S)
  <2> HIDE DEF S
  <2>1. QED
    BY <1>1, HighestFact
<1>3. QED
  BY <1>2 DEF Top

LEMMA MarkFact ==
    ASSUME FeedTypeOK, NEW R \in SUBSET Kinds
    PROVE  /\ MarkOf(R) \in 0 .. MaxId
           /\ MarkOf(R) = 0 \/ \E k \in R : MarkOf(R) = mark[k]
           /\ \A k \in R : mark[k] <= MarkOf(R)
<1> DEFINE S == {mark[k] : k \in R}
<1>1. S \in SUBSET (0 .. MaxId)
  BY DEF FeedTypeOK
<1>2. /\ Highest(S) \in S \/ Highest(S) = 0
      /\ Highest(S) \in 0 .. MaxId
      /\ \A y \in S : y <= Highest(S)
  <2> HIDE DEF S
  <2>1. QED
    BY <1>1, HighestFact
<1>3. QED
  BY <1>2 DEF MarkOf

\* What a reader of the kinds in R is compared with, and what all are.
LEMMA ThroughFact ==
    ASSUME FeedTypeOK, NEW R \in SUBSET Kinds
    PROVE  /\ Max({floor, MarkOf(R)}) \in 0 .. MaxId
           /\ \/ Max({floor, MarkOf(R)}) = floor
              \/ Max({floor, MarkOf(R)}) = 0
              \/ \E k \in R : Max({floor, MarkOf(R)}) = mark[k]
           /\ floor <= Max({floor, MarkOf(R)})
           /\ \A k \in R : mark[k] <= Max({floor, MarkOf(R)})
           /\ Max({floor, MarkOf(R)}) <= PrunedThrough
<1>1. floor \in 0 .. MaxId /\ mark \in [Kinds -> 0 .. MaxId] /\ MaxId \in Nat
  BY FeedAssumption DEF FeedTypeOK
<1>2. /\ MarkOf(R) \in 0 .. MaxId
      /\ MarkOf(R) = 0 \/ \E k \in R : MarkOf(R) = mark[k]
      /\ \A k \in R : mark[k] <= MarkOf(R)
  BY MarkFact
<1>3. MarkOf(Kinds) \in 0 .. MaxId /\ \A k \in Kinds : mark[k] <= MarkOf(Kinds)
  BY MarkFact
<1>4. /\ PrunedThrough \in 0 .. MaxId
      /\ floor <= PrunedThrough /\ MarkOf(Kinds) <= PrunedThrough
  BY <1>1, <1>3, PairMax DEF PrunedThrough
<1>5. MarkOf(R) <= PrunedThrough
  <2>1. CASE MarkOf(R) = 0
    BY <1>4, <2>1
  <2>2. ASSUME NEW k \in R, MarkOf(R) = mark[k] PROVE MarkOf(R) <= PrunedThrough
    BY <1>1, <1>3, <1>4, <2>2
  <2>3. QED
    BY <1>2, <2>1, <2>2
<1> DEFINE M == Max({floor, MarkOf(R)})
<1>6. M \in {floor, MarkOf(R)} /\ floor <= M /\ MarkOf(R) <= M
  BY <1>1, <1>2, PairMax
<1>7. \A k \in R : mark[k] <= M
  <2> HIDE DEF M
  <2>1. QED
    BY <1>1, <1>2, <1>6
<1>8. M \in 0 .. MaxId /\ M <= PrunedThrough
  BY <1>1, <1>2, <1>4, <1>5, <1>6
<1>9. M = floor \/ M = 0 \/ \E k \in R : M = mark[k]
  BY <1>2, <1>6
<1>10. QED
  BY <1>6, <1>7, <1>8, <1>9

-----------------------------------------------------------------------------
(* The feed's invariant.                                                    *)

LEMMA FeedStarts == FeedInit => FInv
<1> SUFFICES ASSUME FeedInit PROVE FInv
  OBVIOUS
<1>1. MaxId \in Nat /\ Unrecorded \in 0 .. MaxId /\ Oldest \in Nat /\ next \in 1 .. Unrecorded + 1
  BY FeedAssumption DEF FeedInit
<1>2. next \in 1 .. MaxId + 1
  BY <1>1
<1>3. \A i \in Ids : status[i] = IF i < next THEN "lost" ELSE "none"
  BY DEF FeedInit
<1>4. Ids \subseteq Nat
  BY DEF Ids
<1>5. Visible = {} /\ Open = {} /\ Pruned = {} /\ Lost = {i \in Ids : i < next}
  BY <1>3 DEF Visible, Open, Pruned, Lost
<1>6. FeedTypeOK
  <2>1. status \in [Ids -> {"none", "open", "visible", "aborted", "pruned", "lost"}]
    BY DEF FeedInit
  <2>2. 0 \in 0 .. Oldest /\ 0 \in 0 .. MaxId
    BY <1>1
  <2>3. QED
    BY <1>2, <2>1, <2>2 DEF FeedInit, FeedTypeOK
<1>7. MarksCoverPruned
  BY <1>5 DEF FeedInit, MarksCoverPruned
<1>8. Numbered
  <2>1. \A i \in Ids : i < next \/ i >= next
    BY <1>2, <1>4
  <2>2. \A i \in Ids : ~(i < next /\ i >= next)
    BY <1>2, <1>4
  <2>3. QED
    BY <1>3, <2>1, <2>2 DEF Numbered
<1>9. LostFirst
  BY <1>2, <1>4, <1>5 DEF LostFirst
<1>10. BatchesRead /\ MarksBelow /\ Unmarked
  BY <1>2 DEF FeedInit, BatchesRead, MarksBelow, Unmarked
<1>11. Settled /\ Aged
  BY <1>5 DEF FeedInit, Settled, Aged
<1>12. QED
  BY <1>6, <1>7, <1>8, <1>9, <1>10, <1>11 DEF FInv

LEMMA Placed ==
    ASSUME FInv
    PROVE  /\ next \in Nat
           /\ \A i \in Ids : i \in Nat /\ (i < next <=> status[i] # "none")
           /\ \A i \in Open \cup Written : i \in Ids /\ i \in Nat /\ i < next
<1>1. next \in Nat
  BY DEF FInv, FeedTypeOK
<1>2. ASSUME NEW i \in Ids PROVE i \in Nat /\ (i < next <=> status[i] # "none")
  <2>1. i \in Nat
    BY DEF Ids
  <2>2. i < next <=> ~(i >= next)
    BY <1>1, <2>1
  <2>3. QED
    BY <2>1, <2>2 DEF FInv, Numbered
<1>3. \A i \in Open \cup Written : i \in Ids /\ status[i] # "none"
  BY DEF Open, Written, Visible, Pruned, Lost
<1>4. QED
  BY <1>1, <1>2, <1>3

LEMMA PersistEventKeeps ==
    ASSUME FInv, NEW k \in Kinds, NEW lag \in 0 .. Skew, PersistEvent(k, lag)
    PROVE  FInv'
<1>1. /\ FeedTypeOK /\ MarksCoverPruned /\ Numbered /\ LostFirst /\ BatchesRead
      /\ MarksBelow /\ Unmarked /\ Settled /\ Aged
  BY DEF FInv
<1>2. /\ next \in Ids /\ next' = next + 1
      /\ UNCHANGED <<since, known, floor, mark, batch>>
  BY DEF PersistEvent, marks
<1>3. /\ \A i \in Ids : status'[i] = IF i = next THEN "open" ELSE status[i]
      /\ \A i \in Ids : kind'[i] = IF i = next THEN k ELSE kind[i]
      /\ \A i \in Ids : age'[i] = IF i = next THEN lag ELSE age[i]
  BY <1>1, <1>2 DEF PersistEvent, FeedTypeOK
<1>4. Ids \subseteq Nat /\ MaxId \in Nat
  BY FeedAssumption DEF Ids
<1>5. status[next] = "none" /\ next \in Nat
  BY <1>1, <1>2, <1>4 DEF Numbered
<1>6. /\ Visible' = Visible /\ Pruned' = Pruned /\ Lost' = Lost
      /\ Open' = Open \cup {next}
  BY <1>2, <1>3, <1>5 DEF Visible, Pruned, Lost, Open
<1>7. FeedTypeOK'
  <2>1. next' \in 1 .. MaxId + 1
    BY <1>1, <1>2, <1>4 DEF Ids
  <2>2. lag \in 0 .. Oldest
    BY FeedAssumption
  <2>3. QED
    BY <1>1, <1>2, <2>1, <2>2 DEF PersistEvent, FeedTypeOK
<1>8. MarksCoverPruned'
  <2>1. \A i \in Pruned : kind'[i] = kind[i]
    BY <1>3, <1>5 DEF Pruned
  <2>2. QED
    BY <1>1, <1>2, <1>6, <2>1 DEF MarksCoverPruned
<1>9. Numbered'
  <2> SUFFICES ASSUME NEW i \in Ids PROVE status'[i] = "none" <=> i >= next'
    BY DEF Numbered
  <2>1. CASE i = next
    BY <1>2, <1>3, <1>5, <2>1
  <2>2. CASE i # next
    BY <1>1, <1>2, <1>3, <1>4, <1>5, <2>2 DEF Numbered
  <2>3. QED
    BY <2>1, <2>2
<1>10. LostFirst' /\ BatchesRead'
  BY <1>1, <1>2, <1>6 DEF LostFirst, BatchesRead
<1>11. MarksBelow' /\ Unmarked'
  <2>1. floor < next /\ \A j \in Kinds : mark[j] < next
    BY <1>1 DEF MarksBelow
  <2>2. floor \in Nat /\ \A j \in Kinds : mark[j] \in Nat
    BY <1>1, <1>4 DEF FeedTypeOK
  <2>3. floor < next + 1 /\ \A j \in Kinds : mark[j] < next + 1
    BY <1>5, <2>1, <2>2
  <2>4. QED
    BY <1>1, <1>2, <2>3 DEF MarksBelow, Unmarked
<1>12. Settled'
  <2>1. ASSUME NEW p \in Pruners, NEW j \in batch[p] PROVE j < next
    <3>1. j \in Ids /\ status[j] # "none"
      BY <1>1, <2>1 DEF BatchesRead, Visible, Pruned
    <3>2. QED
      BY <1>1, <1>4, <1>5, <3>1 DEF Numbered
  <2>2. floor < next /\ \A j \in Kinds : mark[j] < next
    BY <1>1 DEF MarksBelow
  <2>3. QED
    BY <1>1, <1>2, <1>6, <2>1, <2>2 DEF Settled
<1>13. Aged'
  <2>1. \A i \in Open \cup Visible : i # next /\ i < next
    BY <1>1, <1>4, <1>5 DEF Open, Visible, Numbered
  <2>2. since[next] = 0
    BY <1>1, <1>2, <1>5 DEF Aged, Open, Visible
  <2>3. TxTime \in Nat /\ Skew \in Nat /\ Oldest \in Nat
    BY FeedAssumption
  <2>4. \A i \in Ids \ (Open' \cup Visible') : since'[i] = 0
    BY <1>1, <1>2, <1>6 DEF Aged
  <2>5. \A i \in Open' : since'[i] <= TxTime
    BY <1>1, <1>2, <1>6, <2>2, <2>3 DEF Aged
  <2>6. ASSUME NEW i \in Open', NEW j \in Open' \cup Visible', i < j
        PROVE  age'[j] <= since'[i] + Skew
    <3>1. i \in Ids /\ j \in Ids
      BY DEF Open, Visible
    <3>2. since[i] \in Nat /\ age[j] \in Nat
      BY <1>1, <2>3, <3>1 DEF FeedTypeOK
    <3>3. CASE j = next
      BY <1>2, <1>3, <2>3, <3>1, <3>2, <3>3
    <3>4. CASE j # next
      <4>1. j \in Open \cup Visible
        BY <1>6, <3>4
      <4>2. i # next
        BY <1>4, <2>1, <2>6, <3>1, <4>1
      <4>3. QED
        BY <1>1, <1>2, <1>3, <1>6, <2>6, <3>1, <3>4, <4>1, <4>2 DEF Aged
    <3>5. QED
      BY <3>3, <3>4
  <2>7. QED
    BY <2>4, <2>5, <2>6 DEF Aged
<1>14. QED
  BY <1>7, <1>8, <1>9, <1>10, <1>11, <1>12, <1>13 DEF FInv

\* A transaction ends: one row less is open.
LEMMA EndKeeps ==
    ASSUME FInv, NEW i \in Ids, Commit(i) \/ Rollback(i)
    PROVE  FInv'
<1>1. /\ FeedTypeOK /\ MarksCoverPruned /\ Numbered /\ LostFirst /\ BatchesRead
      /\ MarksBelow /\ Unmarked /\ Settled /\ Aged
  BY DEF FInv
<1>2. UNCHANGED <<next, kind, known, floor, mark, batch>> /\ i \in Open
  BY DEF Commit, Rollback, marks, Open
<1>3. /\ \A j \in Ids : j # i => status'[j] = status[j]
      /\ \A j \in Ids : j # i => age'[j] = age[j] /\ since'[j] = since[j]
      /\ \/ status'[i] = "visible" /\ age'[i] = age[i] /\ since'[i] = since[i]
         \/ status'[i] = "aborted" /\ since'[i] = 0
  <2>1. CASE Commit(i)
    <3>1. UNCHANGED <<age, since>>
      BY <2>1 DEF Commit
    <3>2. /\ \A j \in Ids : j # i => status'[j] = status[j]
          /\ status'[i] = "visible"
      BY <1>1, <2>1 DEF Commit, FeedTypeOK
    <3>3. QED
      BY <3>1, <3>2
  <2>2. CASE Rollback(i)
    <3>1. /\ \A j \in Ids : j # i => status'[j] = status[j]
          /\ status'[i] = "aborted"
      BY <1>1, <2>2 DEF Rollback, FeedTypeOK
    <3>2. /\ \A j \in Ids : j # i => age'[j] = age[j] /\ since'[j] = since[j]
          /\ since'[i] = 0
      BY <1>1, <2>2 DEF Rollback, FeedTypeOK
    <3>3. QED
      BY <3>1, <3>2
  <2>3. QED
    BY <2>1, <2>2
<1>4. /\ Pruned' = Pruned /\ Lost' = Lost /\ Open' = Open \ {i}
      /\ Visible \subseteq Visible'
      /\ \/ Open' \cup Visible' = Open \cup Visible /\ since'[i] = since[i]
         \/ Open' \cup Visible' = (Open \cup Visible) \ {i} /\ since'[i] = 0
  BY <1>2, <1>3 DEF Visible, Pruned, Lost, Open
<1>5. FeedTypeOK'
  <2>1. 0 \in 0 .. Oldest
    BY FeedAssumption
  <2>2. QED
    BY <1>1, <1>2, <2>1 DEF Commit, Rollback, FeedTypeOK
<1>6. MarksCoverPruned' /\ LostFirst' /\ BatchesRead'
  BY <1>1, <1>2, <1>4 DEF MarksCoverPruned, LostFirst, BatchesRead
<1>7. Numbered'
  <2>1. status[i] # "none" /\ status'[i] # "none"
    BY <1>2, <1>3 DEF Open
  <2>2. QED
    BY <1>1, <1>2, <1>3, <2>1 DEF Numbered
<1>8. MarksBelow' /\ Unmarked' /\ Settled'
  BY <1>1, <1>2, <1>4 DEF MarksBelow, Unmarked, Settled
<1>9. Aged'
  <2>1. \A j \in Ids \ (Open' \cup Visible') : since'[j] = 0
    BY <1>1, <1>3, <1>4 DEF Aged
  <2>2. \A j \in Open' : j \in Open /\ since'[j] = since[j]
    BY <1>3, <1>4 DEF Open
  <2>3. \A j \in Open' \cup Visible' : j \in Open \cup Visible /\ age'[j] = age[j]
    BY <1>3, <1>4 DEF Open, Visible
  <2>4. QED
    BY <1>1, <2>1, <2>2, <2>3 DEF Aged
<1>10. QED
  BY <1>5, <1>6, <1>7, <1>8, <1>9 DEF FInv

LEMMA TickKeeps ==
    ASSUME FInv, Tick
    PROVE  FInv'
<1>1. /\ FeedTypeOK /\ MarksCoverPruned /\ Numbered /\ LostFirst /\ BatchesRead
      /\ MarksBelow /\ Unmarked /\ Settled /\ Aged
  BY DEF FInv
<1>2. UNCHANGED <<next, status, kind, known, floor, mark, batch>>
  BY DEF Tick, marks
<1>3. Visible' = Visible /\ Pruned' = Pruned /\ Lost' = Lost /\ Open' = Open
  BY <1>2 DEF Visible, Pruned, Lost, Open
<1>4. Oldest \in Nat /\ Skew \in Nat /\ TxTime \in Nat
  BY FeedAssumption
<1>5. \A n \in 0 .. Oldest :
         Older(n) \in 0 .. Oldest /\ n <= Older(n) /\ Older(n) <= n + 1 /\ (n < Oldest => Older(n) = n + 1)
  BY <1>4 DEF Older
<1>6. /\ \A i \in Ids : age'[i] = IF i \in Open \cup Visible THEN Older(age[i]) ELSE 0
      /\ \A i \in Ids : since'[i] = IF i \in Open \cup Visible THEN Older(since[i]) ELSE 0
  BY DEF Tick
<1>7. FeedTypeOK'
  <2>1. \A i \in Ids : age[i] \in 0 .. Oldest /\ since[i] \in 0 .. Oldest
    BY <1>1 DEF FeedTypeOK
  <2>2. \A i \in Ids :
           /\ (IF i \in Open \cup Visible THEN Older(age[i]) ELSE 0) \in 0 .. Oldest
           /\ (IF i \in Open \cup Visible THEN Older(since[i]) ELSE 0) \in 0 .. Oldest
    BY <1>4, <1>5, <2>1
  <2>3. age' \in [Ids -> 0 .. Oldest] /\ since' \in [Ids -> 0 .. Oldest]
    BY <2>2 DEF Tick
  <2>4. QED
    BY <1>1, <1>2, <2>3 DEF FeedTypeOK
<1>8. /\ MarksCoverPruned' /\ Numbered' /\ LostFirst' /\ BatchesRead'
      /\ MarksBelow' /\ Unmarked' /\ Settled'
  BY <1>1, <1>2, <1>3
  DEF MarksCoverPruned, Numbered, LostFirst, BatchesRead, MarksBelow, Unmarked, Settled
<1>9. Aged'
  <2>1. \A i \in Ids \ (Open' \cup Visible') : since'[i] = 0
    BY <1>3, <1>6
  <2>2. ASSUME NEW i \in Open PROVE since'[i] <= TxTime
    <3>1. i \in Ids /\ since[i] \in 0 .. Oldest /\ since[i] < TxTime
      BY <1>1 DEF Open, Tick, FeedTypeOK
    <3>2. since'[i] = Older(since[i])
      BY <1>6, <3>1
    <3>3. QED
      BY <1>4, <1>5, <3>1, <3>2
  <2>3. ASSUME NEW i \in Open, NEW j \in Open \cup Visible, i < j
        PROVE  age'[j] <= since'[i] + Skew
    <3>1. /\ i \in Ids /\ since[i] \in 0 .. Oldest
          /\ j \in Ids /\ age[j] \in 0 .. Oldest
      BY <1>1 DEF Open, Visible, FeedTypeOK
    <3>2. since'[i] = Older(since[i]) /\ age'[j] = Older(age[j])
      BY <1>6, <3>1
    <3>3. age[j] <= since[i] + Skew
      BY <1>1, <2>3 DEF Aged
    <3>4. CASE since[i] < Oldest
      <4>1. Older(since[i]) = since[i] + 1 /\ Older(age[j]) <= age[j] + 1 /\ Older(age[j]) \in 0 .. Oldest
        BY <1>5, <3>1, <3>4
      <4>2. QED
        BY <1>4, <3>1, <3>2, <3>3, <4>1
    <3>5. CASE ~(since[i] < Oldest)
      <4>1. Older(since[i]) >= Oldest /\ Older(age[j]) <= Oldest
        BY <1>4, <1>5, <3>1, <3>5
      <4>2. Older(since[i]) \in 0 .. Oldest /\ Older(age[j]) \in 0 .. Oldest
        BY <1>5, <3>1
      <4>3. QED
        BY <1>4, <3>2, <4>1, <4>2
    <3>6. QED
      BY <3>4, <3>5
  <2>4. QED
    BY <1>3, <2>1, <2>2, <2>3 DEF Aged
<1>10. QED
  BY <1>7, <1>8, <1>9 DEF FInv

\* The rows old enough to be pruned lie below every open one.
LEMMA PruneSelectKeeps ==
    ASSUME FInv, NEW p \in Pruners, PruneSelect(p)
    PROVE  FInv'
<1>1. /\ FeedTypeOK /\ MarksCoverPruned /\ Numbered /\ LostFirst /\ BatchesRead
      /\ MarksBelow /\ Unmarked /\ Settled /\ Aged
  BY DEF FInv
<1>2. UNCHANGED <<next, status, kind, age, since, known, floor, mark>>
  BY DEF PruneSelect, rows, marks
<1>3. Visible' = Visible /\ Pruned' = Pruned /\ Lost' = Lost /\ Open' = Open
  BY <1>2 DEF Visible, Pruned, Lost, Open
<1>4. Batch \subseteq {i \in Visible : age[i] > Retention} /\ Batch \in SUBSET Ids
  BY DEF Batch, First, Visible
<1>5. \A q \in Pruners : batch'[q] = batch[q] \/ batch'[q] = Batch
  BY <1>1 DEF PruneSelect, FeedTypeOK
<1>6. FeedTypeOK'
  BY <1>1, <1>2, <1>4 DEF PruneSelect, FeedTypeOK
<1>7. /\ MarksCoverPruned' /\ Numbered' /\ LostFirst' /\ MarksBelow' /\ Unmarked' /\ Aged'
  BY <1>1, <1>2, <1>3
  DEF MarksCoverPruned, Numbered, LostFirst, MarksBelow, Unmarked, Aged
<1>8. BatchesRead'
  BY <1>1, <1>3, <1>4, <1>5 DEF BatchesRead
<1>9. ASSUME NEW i \in Open, NEW j \in Batch PROVE j < i
  <2>1. /\ i \in Ids /\ since[i] \in Nat /\ i \in Nat
        /\ j \in Ids /\ age[j] \in Nat /\ j \in Nat
        /\ age[j] > Retention /\ j \in Visible /\ i # j
    BY <1>1, <1>4, FeedAssumption DEF Open, Visible, FeedTypeOK, Ids
  <2>2. since[i] <= TxTime
    BY <1>1 DEF Aged
  <2>3. ASSUME i < j PROVE FALSE
    <3>1. age[j] <= since[i] + Skew
      BY <1>1, <2>1, <2>3 DEF Aged
    <3>2. QED
      BY <2>1, <2>2, <3>1, FeedAssumption
  <2>4. QED
    BY <2>1, <2>3
<1>10. Settled'
  BY <1>1, <1>2, <1>3, <1>5, <1>9 DEF Settled
<1>11. QED
  BY <1>6, <1>7, <1>8, <1>10 DEF FInv

LEMMA PruneCrashKeeps ==
    ASSUME FInv, NEW p \in Pruners, PruneCrash(p)
    PROVE  FInv'
<1>1. /\ FeedTypeOK /\ MarksCoverPruned /\ Numbered /\ LostFirst /\ BatchesRead
      /\ MarksBelow /\ Unmarked /\ Settled /\ Aged
  BY DEF FInv
<1>2. UNCHANGED <<next, status, kind, age, since, known, floor, mark>>
  BY DEF PruneCrash, rows, marks
<1>3. Visible' = Visible /\ Pruned' = Pruned /\ Lost' = Lost /\ Open' = Open
  BY <1>2 DEF Visible, Pruned, Lost, Open
<1>4. \A q \in Pruners : batch'[q] \subseteq batch[q]
  BY <1>1 DEF PruneCrash, FeedTypeOK
<1>5. FeedTypeOK'
  BY <1>1, <1>2 DEF PruneCrash, FeedTypeOK
<1>6. /\ MarksCoverPruned' /\ Numbered' /\ LostFirst' /\ MarksBelow' /\ Unmarked' /\ Aged'
  BY <1>1, <1>2, <1>3
  DEF MarksCoverPruned, Numbered, LostFirst, MarksBelow, Unmarked, Aged
<1>7. BatchesRead' /\ Settled'
  BY <1>1, <1>2, <1>3, <1>4 DEF BatchesRead, Settled
<1>8. QED
  BY <1>5, <1>6, <1>7 DEF FInv

\* What a batch records: marks that reach its rows, and no open one.
LEMMA RecordFact ==
    ASSUME FInv, NEW p \in Pruners, batch[p] # {}, RecordPruned(batch[p])
    PROVE  /\ known' = TRUE
           /\ floor' \in 0 .. MaxId
           /\ ~known => \A i \in Lost : i <= floor'
           /\ known => floor' = floor
           /\ floor' < next /\ \A i \in Open : floor' < i
           /\ mark' \in [Kinds -> 0 .. MaxId]
           /\ \A k \in Kinds : mark[k] <= mark'[k]
           /\ \A k \in Kinds : mark'[k] < next /\ \A i \in Open : mark'[k] < i
           /\ \A i \in batch[p] : i <= mark'[kind[i]]
<1> DEFINE b == batch[p]
<1>1. /\ FeedTypeOK /\ Numbered /\ LostFirst /\ BatchesRead /\ MarksBelow /\ Settled
  BY DEF FInv
<1>2. Ids \subseteq Nat /\ MaxId \in Nat /\ next \in Nat
  BY <1>1, FeedAssumption DEF Ids, FeedTypeOK
<1>3. \A j \in b : j \in Ids /\ j < next /\ j \notin Lost
  <2>1. \A j \in b : j \in Ids /\ status[j] \in {"visible", "pruned"}
    BY <1>1 DEF BatchesRead, Visible, Pruned
  <2>2. \A j \in b : ~(j >= next)
    BY <1>1, <2>1 DEF Numbered
  <2> HIDE DEF b
  <2>3. \A j \in b : j < next
    BY <1>2, <2>1, <2>2
  <2>4. QED
    BY <2>1, <2>3 DEF Lost
<1>4. \A i \in Open, j \in b : j < i
  BY <1>1 DEF Settled
<1>5. b \in SUBSET Nat /\ b \in SUBSET Ids
  BY <1>2, <1>3
<1>6. Min(b) \in b
  BY <1>5, MinFact
<1>7. /\ floor' \in 0 .. MaxId
      /\ ~known => \A i \in Lost : i <= floor'
      /\ floor' < next /\ \A i \in Open : floor' < i
  <2>1. CASE known
    BY <1>1, <2>1 DEF RecordPruned, FeedTypeOK, MarksBelow, Settled
  <2>2. CASE ~known
    <3>1. PICK m \in b : m = Min(b)
      BY <1>6
    <3>2. floor' = m - 1
      BY <2>2, <3>1 DEF RecordPruned
    <3>3. m \in Ids /\ m < next
      BY <1>3
    <3>4. floor' \in 0 .. MaxId /\ floor' < next
      BY <1>2, <3>2, <3>3 DEF Ids
    <3>5. \A i \in Open : i \in Nat /\ m < i
      BY <1>2, <1>4 DEF Open
    <3>6. \A i \in Lost : i \in Nat /\ i < m
      BY <1>1, <1>2, <1>3, <3>3 DEF LostFirst, Lost
    <3> HIDE DEF b
    <3>7. QED
      BY <1>2, <2>2, <3>2, <3>3, <3>4, <3>5, <3>6
  <2>3. QED
    BY <2>1, <2>2
<1>8. ASSUME NEW k \in Kinds
      PROVE  /\ mark'[k] \in 0 .. MaxId /\ mark[k] <= mark'[k]
             /\ mark'[k] < next /\ \A i \in Open : mark'[k] < i
             /\ \A i \in b : kind[i] = k => i <= mark'[k]
  <2>1. /\ Top(b, k) \in 0 .. MaxId
        /\ Top(b, k) \in b \/ Top(b, k) = 0
        /\ \A i \in b : kind[i] = k => i <= Top(b, k)
    BY <1>5, TopFact
  <2>2. mark'[k] = IF Top(b, k) > mark[k] THEN Top(b, k) ELSE mark[k]
    BY DEF RecordPruned, Raised
  <2>3. /\ mark[k] \in 0 .. MaxId
        /\ mark[k] < next /\ \A i \in Open : mark[k] < i
    BY <1>1 DEF FeedTypeOK, MarksBelow, Settled
  <2> HIDE DEF b
  <2>4. CASE Top(b, k) > mark[k]
    <3>1. Top(b, k) \in b
      BY <2>1, <2>3, <2>4
    <3>2. QED
      BY <1>2, <1>3, <1>4, <2>1, <2>2, <2>3, <2>4, <3>1
  <2>5. CASE ~(Top(b, k) > mark[k])
    BY <1>2, <1>5, <2>1, <2>2, <2>3, <2>5
  <2>6. QED
    BY <2>4, <2>5
<1>9. mark' \in [Kinds -> 0 .. MaxId]
  <2>1. mark' = [k \in Kinds |-> mark'[k]]
    BY DEF RecordPruned, Raised
  <2>2. QED
    BY <1>8, <2>1
<1>10. \A i \in b : kind[i] \in Kinds
  BY <1>1, <1>5 DEF FeedTypeOK
<1>11. known' = TRUE /\ (known => floor' = floor)
  BY DEF RecordPruned
<1>12. QED
  BY <1>7, <1>8, <1>9, <1>10, <1>11

LEMMA PruneCommitKeeps ==
    ASSUME FInv, NEW p \in Pruners, PruneCommit(p)
    PROVE  FInv'
<1>1. /\ FeedTypeOK /\ MarksCoverPruned /\ Numbered /\ LostFirst /\ BatchesRead
      /\ MarksBelow /\ Unmarked /\ Settled /\ Aged
  BY DEF FInv
<1> DEFINE gone == batch[p] \cap Visible
<1>2. /\ batch[p] # {} /\ RecordPruned(batch[p])
      /\ batch' = [batch EXCEPT ![p] = {}]
      /\ UNCHANGED <<next, kind>>
      /\ status' = [i \in Ids |-> IF i \in gone THEN "pruned" ELSE status[i]]
      /\ age' = [i \in Ids |-> IF i \in gone THEN 0 ELSE age[i]]
      /\ since' = [i \in Ids |-> IF i \in gone THEN 0 ELSE since[i]]
  BY DEF PruneCommit
<1>3. /\ known' = TRUE
      /\ floor' \in 0 .. MaxId
      /\ ~known => \A i \in Lost : i <= floor'
      /\ known => floor' = floor
      /\ floor' < next /\ \A i \in Open : floor' < i
      /\ mark' \in [Kinds -> 0 .. MaxId]
      /\ \A k \in Kinds : mark[k] <= mark'[k]
      /\ \A k \in Kinds : mark'[k] < next /\ \A i \in Open : mark'[k] < i
      /\ \A i \in batch[p] : i <= mark'[kind[i]]
  BY <1>2, RecordFact
<1>4. gone \subseteq batch[p] /\ gone \subseteq Visible
  OBVIOUS
<1> HIDE DEF gone
<1>5. /\ Visible' = Visible \ gone /\ Pruned' = Pruned \cup gone
      /\ Lost' = Lost /\ Open' = Open
  BY <1>2, <1>4 DEF Visible, Pruned, Lost, Open
<1>6. \A q \in Pruners : batch'[q] \subseteq batch[q]
  BY <1>1, <1>2 DEF FeedTypeOK
<1>7. FeedTypeOK'
  <2>1. 0 \in 0 .. Oldest
    BY FeedAssumption
  <2>2. status' \in [Ids -> {"none", "open", "visible", "aborted", "pruned", "lost"}]
    BY <1>1, <1>2 DEF FeedTypeOK
  <2>3. age' \in [Ids -> 0 .. Oldest] /\ since' \in [Ids -> 0 .. Oldest]
    BY <1>1, <1>2, <2>1 DEF FeedTypeOK
  <2>4. batch' \in [Pruners -> SUBSET Ids]
    BY <1>1, <1>2 DEF FeedTypeOK
  <2>5. QED
    BY <1>1, <1>2, <1>3, <2>2, <2>3, <2>4 DEF FeedTypeOK
<1>8. MarksCoverPruned'
  <2>1. ASSUME NEW i \in Pruned PROVE mark'[kind'[i]] >= i
    <3>1. i \in Ids /\ i \in Nat /\ kind[i] \in Kinds
      BY <1>1 DEF Pruned, FeedTypeOK, Ids
    <3>2. mark[kind[i]] \in 0 .. MaxId /\ mark'[kind[i]] \in 0 .. MaxId
      BY <1>1, <1>3, <3>1 DEF FeedTypeOK
    <3>3. mark[kind[i]] >= i /\ mark[kind[i]] <= mark'[kind[i]]
      BY <1>1, <1>3, <3>1 DEF MarksCoverPruned
    <3>4. QED
      BY <1>2, <3>1, <3>2, <3>3
  <2>2. ASSUME NEW i \in gone PROVE mark'[kind'[i]] >= i
    <3>1. i \in Ids /\ i \in Nat /\ kind[i] \in Kinds
      BY <1>1, <1>4 DEF Visible, FeedTypeOK, Ids
    <3>2. mark'[kind[i]] \in 0 .. MaxId
      BY <1>3, <3>1
    <3>3. i <= mark'[kind[i]]
      BY <1>3, <1>4
    <3>4. QED
      BY <1>2, <3>1, <3>2, <3>3
  <2>3. ASSUME NEW i \in Lost PROVE floor' >= i
    <3>1. i \in Nat /\ floor' \in Nat
      BY <1>3 DEF Lost, Ids
    <3>2. CASE known
      BY <1>1, <1>3, <3>1, <3>2 DEF MarksCoverPruned
    <3>3. CASE ~known
      BY <1>3, <3>1, <3>3
    <3>4. QED
      BY <3>2, <3>3
  <2>4. QED
    BY <1>3, <1>5, <2>1, <2>2, <2>3 DEF MarksCoverPruned
<1>9. Numbered'
  <2>1. \A i \in Ids : status'[i] = "none" <=> status[i] = "none"
    BY <1>2, <1>4 DEF Visible
  <2>2. QED
    BY <1>1, <1>2, <2>1 DEF Numbered
<1>10. LostFirst' /\ BatchesRead'
  BY <1>1, <1>5, <1>6 DEF LostFirst, BatchesRead
<1>11. MarksBelow' /\ Unmarked' /\ Settled'
  BY <1>1, <1>2, <1>3, <1>5, <1>6 DEF MarksBelow, Unmarked, Settled
<1>12. Aged'
  <2>1. /\ \A i \in Ids : since'[i] = IF i \in gone THEN 0 ELSE since[i]
        /\ \A i \in Ids : age'[i] = IF i \in gone THEN 0 ELSE age[i]
    BY <1>2
  <2>2. \A i \in Ids \ (Open' \cup Visible') : since'[i] = 0
    BY <1>1, <1>5, <2>1 DEF Aged
  <2>3. \A i \in Open : i \in Ids /\ i \notin gone
    BY <1>4 DEF Open, Visible
  <2>4. \A i \in Open' \cup Visible' : i \in Open \cup Visible /\ i \in Ids /\ i \notin gone
    BY <1>5, <2>3 DEF Open, Visible
  <2>5. QED
    BY <1>1, <1>5, <2>1, <2>2, <2>3, <2>4 DEF Aged
<1>13. QED
  BY <1>7, <1>8, <1>9, <1>10, <1>11, <1>12 DEF FInv

LEMMA FeedKeeps ==
    ASSUME FInv, [FeedNext]_feed
    PROVE  FInv'
<1>1. CASE UNCHANGED feed
  <2>1. UNCHANGED <<next, status, kind, age, since, known, floor, mark, batch>>
    BY <1>1 DEF feed
  <2>2. Visible' = Visible /\ Pruned' = Pruned /\ Lost' = Lost /\ Open' = Open
    BY <2>1 DEF Visible, Pruned, Lost, Open
  <2>3. FeedTypeOK' /\ MarksCoverPruned' /\ Numbered' /\ LostFirst'
    BY <2>1, <2>2 DEF FInv, FeedTypeOK, MarksCoverPruned, Numbered, LostFirst
  <2>4. BatchesRead' /\ MarksBelow' /\ Unmarked' /\ Settled' /\ Aged'
    BY <2>1, <2>2 DEF FInv, BatchesRead, MarksBelow, Unmarked, Settled, Aged
  <2>5. QED
    BY <2>3, <2>4 DEF FInv
<1>2. CASE FeedNext
  <2>1. ASSUME NEW k \in Kinds, NEW lag \in 0 .. Skew, PersistEvent(k, lag) PROVE FInv'
    BY <2>1, PersistEventKeeps
  <2>2. ASSUME NEW i \in Ids, Commit(i) \/ Rollback(i) PROVE FInv'
    BY <2>2, EndKeeps
  <2>3. CASE Tick
    BY <2>3, TickKeeps
  <2>4. ASSUME NEW p \in Pruners, PruneSelect(p) PROVE FInv'
    BY <2>4, PruneSelectKeeps
  <2>5. ASSUME NEW p \in Pruners, PruneCommit(p) PROVE FInv'
    BY <2>5, PruneCommitKeeps
  <2>6. ASSUME NEW p \in Pruners, PruneCrash(p) PROVE FInv'
    BY <2>6, PruneCrashKeeps
  <2>7. QED
    BY <1>2, <2>1, <2>2, <2>3, <2>4, <2>5, <2>6 DEF FeedNext
<1>3. QED
  BY <1>1, <1>2

\* What a step of the feed leaves to those that have read it.
Grows ==
    /\ next <= next' /\ (known => known')
    /\ \A i \in Ids : i < next => kind'[i] = kind[i]
    /\ Open' \subseteq Open \cup {next}
    /\ Pruned \subseteq Pruned' /\ Lost' = Lost
    /\ Visible \cup Pruned \subseteq Visible' \cup Pruned'
    /\ Visible' \cup Pruned' \subseteq Visible \cup Pruned \cup Open
    /\ \A k \in Kinds : mark[k] <= mark'[k]

LEMMA FeedGrows ==
    ASSUME FInv, [FeedNext]_feed
    PROVE  Grows
<1>1. FeedTypeOK
  BY DEF FInv
<1>2. /\ next \in Nat /\ \A k \in Kinds : mark[k] \in Nat
      /\ \A i \in Ids : i \in Nat
  BY <1>1, FeedAssumption DEF FeedTypeOK, Ids
<1>3. CASE UNCHANGED feed
  BY <1>2, <1>3 DEF feed, Grows, Open, Visible, Pruned, Lost
<1>4. ASSUME NEW k \in Kinds, NEW lag \in 0 .. Skew, PersistEvent(k, lag) PROVE Grows
  <2>1. UNCHANGED <<known, mark>> /\ next' = next + 1
    BY <1>4 DEF PersistEvent, marks
  <2>2. /\ \A i \in Ids : i # next => status'[i] = status[i] /\ kind'[i] = kind[i]
        /\ next \in Ids /\ status'[next] = "open" /\ status[next] = "none"
    <3>1. next \in Ids /\ status[next] = "none"
      BY <1>2, <1>4 DEF PersistEvent, FInv, Numbered
    <3>2. \A i \in Ids : i # next => status'[i] = status[i]
      BY <1>1, <1>4 DEF PersistEvent, FeedTypeOK
    <3>3. \A i \in Ids : i # next => kind'[i] = kind[i]
      BY <1>1, <1>4 DEF PersistEvent, FeedTypeOK
    <3>4. status'[next] = "open"
      BY <1>1, <1>4 DEF PersistEvent, FeedTypeOK
    <3>5. QED
      BY <3>1, <3>2, <3>3, <3>4
  <2>3. /\ Visible' = Visible /\ Pruned' = Pruned /\ Lost' = Lost
        /\ Open' \subseteq Open \cup {next}
    BY <2>2 DEF Visible, Pruned, Lost, Open
  <2>4. ASSUME NEW i \in Ids, i < next PROVE kind'[i] = kind[i]
    <3>1. i # next
      BY <1>2, <2>4
    <3>2. QED
      BY <2>2, <3>1
  <2>5. QED
    BY <1>2, <2>1, <2>3, <2>4 DEF Grows
<1>5. ASSUME NEW i \in Ids, Commit(i) \/ Rollback(i) PROVE Grows
  <2>1. UNCHANGED <<next, kind, known, mark>> /\ i \in Open
    BY <1>5 DEF Commit, Rollback, marks, Open
  <2>2. \A j \in Ids : j # i => status'[j] = status[j]
    BY <1>1, <1>5 DEF Commit, Rollback, FeedTypeOK
  <2>3. status'[i] \in {"visible", "aborted"}
    BY <1>1, <1>5 DEF Commit, Rollback, FeedTypeOK
  <2>4. /\ Pruned' = Pruned /\ Lost' = Lost /\ Open' \subseteq Open
        /\ Visible \subseteq Visible' /\ Visible' \subseteq Visible \cup {i}
    BY <2>1, <2>2, <2>3 DEF Visible, Pruned, Lost, Open
  <2>5. QED
    BY <1>2, <2>1, <2>4 DEF Grows
<1>6. CASE Tick
  BY <1>2, <1>6 DEF Tick, marks, Grows, Open, Visible, Pruned, Lost
<1>7. ASSUME NEW p \in Pruners, PruneSelect(p) \/ PruneCrash(p) PROVE Grows
  BY <1>2, <1>7 DEF PruneSelect, PruneCrash, rows, marks, Grows, Open, Visible, Pruned, Lost
<1>8. ASSUME NEW p \in Pruners, PruneCommit(p) PROVE Grows
  <2>1. /\ batch[p] # {} /\ RecordPruned(batch[p]) /\ UNCHANGED <<next, kind>>
    BY <1>8 DEF PruneCommit
  <2>2. known' = TRUE /\ \A k \in Kinds : mark[k] <= mark'[k]
    BY <2>1, RecordFact
  <2>3. \A i \in Ids : status'[i] = IF i \in batch[p] \cap Visible THEN "pruned" ELSE status[i]
    BY <1>8 DEF PruneCommit
  <2>4. /\ Pruned \subseteq Pruned' /\ Lost' = Lost /\ Open' \subseteq Open
        /\ Visible' \cup Pruned' = Visible \cup Pruned
    BY <2>3 DEF Visible, Pruned, Lost, Open
  <2>5. QED
    BY <1>2, <2>1, <2>2, <2>4 DEF Grows
<1>9. QED
  BY <1>3, <1>4, <1>5, <1>6, <1>7, <1>8 DEF FeedNext

-----------------------------------------------------------------------------
(* What the webhook dispatcher relies on besides.                           *)

\* A mark is the id of a pruned row of its kind.
MarksExact == \A k \in Kinds : mark[k] # 0 => mark[k] \in Pruned /\ kind[mark[k]] = k

OpenAged == \A i \in Open : age[i] <= since[i] + Skew

LEMMA SharpStarts == FeedInit => MarksExact /\ OpenAged
<1> SUFFICES ASSUME FeedInit PROVE MarksExact /\ OpenAged
  OBVIOUS
<1>1. Open = {}
  BY DEF FeedInit, Open
<1>2. QED
  BY <1>1 DEF FeedInit, MarksExact, OpenAged

LEMMA MarksExactKept ==
    ASSUME FInv, MarksExact, [FeedNext]_feed
    PROVE  MarksExact'
<1>1. Grows
  BY FeedGrows
<1>2. FeedTypeOK /\ Numbered /\ BatchesRead
  BY DEF FInv
<1>3. \A i \in Pruned : i \in Pruned' /\ kind'[i] = kind[i]
  <2>1. \A i \in Pruned : i \in Ids /\ i < next
    BY Placed DEF Written, Pruned
  <2>2. QED
    BY <1>1, <2>1 DEF Grows
<1>4. CASE UNCHANGED mark
  BY <1>3, <1>4 DEF MarksExact
<1>5. ASSUME NEW p \in Pruners, PruneCommit(p) PROVE MarksExact'
  <2> SUFFICES ASSUME NEW k \in Kinds, mark'[k] # 0
               PROVE  mark'[k] \in Pruned' /\ kind'[mark'[k]] = k
    BY DEF MarksExact
  <2>1. mark'[k] = IF Top(batch[p], k) > mark[k] THEN Top(batch[p], k) ELSE mark[k]
    BY <1>5 DEF PruneCommit, RecordPruned, Raised
  <2>2. CASE mark'[k] = mark[k]
    BY <1>3, <2>2 DEF MarksExact
  <2>3. CASE Top(batch[p], k) > mark[k] /\ mark'[k] = Top(batch[p], k)
    <3> DEFINE S == {i \in batch[p] : kind[i] = k}
    <3>1. batch[p] \subseteq Ids /\ mark[k] \in Nat
      BY <1>2, FeedAssumption DEF FeedTypeOK
    <3>2. S \in SUBSET (0 .. MaxId)
      BY <3>1, FeedAssumption DEF Ids
    <3>3. Highest(S) \in S \/ Highest(S) = 0
      <4> HIDE DEF S
      <4>1. QED
        BY <3>2, HighestFact
    <3>4. mark'[k] = Highest(S)
      BY <2>3 DEF Top
    <3>5. mark'[k] \in batch[p] /\ kind[mark'[k]] = k
      BY <3>3, <3>4
    <3>6. \A i \in batch[p] : i \in Pruned'
      <4>1. \A i \in batch[p] : i \in Visible \cup Pruned
        BY <1>2 DEF BatchesRead
      <4>2. \A i \in Ids : status'[i] = IF i \in batch[p] \cap Visible THEN "pruned" ELSE status[i]
        BY <1>5 DEF PruneCommit
      <4>3. QED
        BY <3>1, <4>1, <4>2 DEF Visible, Pruned
    <3>7. UNCHANGED kind
      BY <1>5 DEF PruneCommit
    <3>8. QED
      BY <3>5, <3>6, <3>7
  <2>4. QED
    BY <2>1, <2>2, <2>3
<1>6. QED
  BY <1>4, <1>5
  DEF FeedNext, feed, PersistEvent, Commit, Rollback, Tick, PruneSelect, PruneCrash, marks

LEMMA OpenAgedKept ==
    ASSUME FInv, OpenAged, [FeedNext]_feed
    PROVE  OpenAged'
<1>1. FeedTypeOK /\ Numbered /\ Aged
  BY DEF FInv
<1>2. Oldest \in Nat /\ Skew \in Nat /\ MaxId \in Nat
  BY FeedAssumption
<1>3. CASE \A i \in Ids : i \in Open' => /\ i \in Open
                                         /\ age'[i] = age[i] /\ since'[i] = since[i]
  BY <1>3 DEF OpenAged, Open
<1>4. ASSUME NEW k \in Kinds, NEW lag \in 0 .. Skew, PersistEvent(k, lag) PROVE OpenAged'
  <2>1. \A i \in Ids : /\ i # next => status'[i] = status[i] /\ age'[i] = age[i]
                       /\ since'[i] = since[i]
    BY <1>1, <1>4 DEF PersistEvent, FeedTypeOK
  <2>2. next \in Ids /\ age'[next] = lag /\ since'[next] = since[next] /\ since[next] \in Nat
    BY <1>1, <1>2, <1>4 DEF PersistEvent, FeedTypeOK
  <2>3. QED
    BY <1>2, <2>1, <2>2 DEF OpenAged, Open
<1>5. ASSUME NEW i \in Ids, Commit(i) \/ Rollback(i) PROVE OpenAged'
  <2>1. \A j \in Ids : j # i => /\ status'[j] = status[j]
                                /\ age'[j] = age[j] /\ since'[j] = since[j]
    BY <1>1, <1>5 DEF Commit, Rollback, FeedTypeOK
  <2>2. status'[i] # "open"
    BY <1>1, <1>5 DEF Commit, Rollback, FeedTypeOK
  <2>3. QED
    BY <1>3, <2>1, <2>2 DEF Open
<1>6. CASE Tick
  <2> SUFFICES ASSUME NEW i \in Open' PROVE age'[i] <= since'[i] + Skew
    BY DEF OpenAged
  <2>1. i \in Open /\ i \in Ids
    BY <1>6 DEF Tick, Open
  <2>2. age[i] \in 0 .. Oldest /\ since[i] \in 0 .. Oldest /\ age[i] <= since[i] + Skew
    BY <1>1, <2>1 DEF FeedTypeOK, OpenAged
  <2>3. age'[i] = Older(age[i]) /\ since'[i] = Older(since[i])
    BY <1>6, <2>1 DEF Tick
  <2>4. QED
    BY <1>2, <2>2, <2>3 DEF Older
<1>7. ASSUME NEW p \in Pruners, PruneCommit(p) PROVE OpenAged'
  <2>1. \A i \in Ids : i \notin batch[p] \cap Visible =>
           status'[i] = status[i] /\ age'[i] = age[i] /\ since'[i] = since[i]
    BY <1>7 DEF PruneCommit
  <2>2. \A i \in batch[p] \cap Visible : status'[i] = "pruned"
    BY <1>7 DEF PruneCommit, Visible
  <2>3. QED
    BY <1>3, <2>1, <2>2 DEF Open
<1>8. ASSUME NEW p \in Pruners, PruneSelect(p) \/ PruneCrash(p) PROVE OpenAged'
  BY <1>3, <1>8 DEF PruneSelect, PruneCrash, rows, Open
<1>9. CASE UNCHANGED feed
  BY <1>3, <1>9 DEF feed, Open
<1>10. QED
  BY <1>4, <1>5, <1>6, <1>7, <1>8, <1>9 DEF FeedNext

\* What resume_cursor is: at or above every row that is there or was pruned.
ResumeSound ==
    /\ ResumeCursor \in 0 .. MaxId /\ ResumeCursor < next
    /\ \A i \in Visible \cup Pruned : i <= ResumeCursor
    /\ floor <= ResumeCursor /\ \A k \in Kinds : mark[k] <= ResumeCursor
    /\ \/ ResumeCursor = 0 \/ ResumeCursor \in Visible \/ ResumeCursor = floor
       \/ \E k \in Kinds : ResumeCursor = mark[k]

LEMMA ResumeFact == FInv => ResumeSound
<1> SUFFICES ASSUME FInv PROVE ResumeSound
  OBVIOUS
<1>1. FeedTypeOK /\ MarksCoverPruned /\ MarksBelow
  BY DEF FInv
<1>2. MaxId \in Nat /\ next \in 1 .. MaxId + 1
  BY <1>1, FeedAssumption DEF FeedTypeOK
<1>3. /\ PrunedThrough \in 0 .. MaxId
      /\ \/ PrunedThrough = floor \/ PrunedThrough = 0
         \/ \E k \in Kinds : PrunedThrough = mark[k]
      /\ floor <= PrunedThrough
      /\ \A k \in Kinds : mark[k] <= PrunedThrough
  BY <1>1, ThroughFact DEF PrunedThrough
<1>4. /\ NewestEventId \in Visible \/ NewestEventId = 0
      /\ NewestEventId \in 0 .. MaxId
      /\ \A i \in Visible : i <= NewestEventId
  <2>1. Visible \in SUBSET (0 .. MaxId)
    BY <1>2 DEF Visible, Ids
  <2>2. QED
    BY <2>1, HighestFact DEF NewestEventId
<1>5. /\ ResumeCursor \in {NewestEventId, PrunedThrough}
      /\ NewestEventId <= ResumeCursor /\ PrunedThrough <= ResumeCursor
  BY <1>3, <1>4, PairMax DEF ResumeCursor
<1>6. ResumeCursor \in 0 .. MaxId
  BY <1>3, <1>4, <1>5
<1>7. floor \in Nat /\ \A k \in Kinds : mark[k] \in Nat
  BY <1>1, FeedAssumption DEF FeedTypeOK
<1>8. \A i \in Visible : i <= ResumeCursor
  BY <1>2, <1>3, <1>4, <1>5, <1>6 DEF Visible, Ids
<1>9. floor <= ResumeCursor /\ \A k \in Kinds : mark[k] <= ResumeCursor
  BY <1>3, <1>5, <1>6, <1>7
<1>10. ASSUME NEW i \in Pruned PROVE i <= ResumeCursor
  <2>1. i \in Nat /\ kind[i] \in Kinds /\ mark[kind[i]] >= i
    BY <1>1, FeedAssumption DEF Pruned, Ids, FeedTypeOK, MarksCoverPruned
  <2>2. QED
    BY <1>6, <1>7, <1>9, <2>1
<1>11. \/ ResumeCursor = 0 \/ ResumeCursor \in Visible \/ ResumeCursor = floor
       \/ \E k \in Kinds : ResumeCursor = mark[k]
  BY <1>3, <1>4, <1>5
<1>12. ResumeCursor < next
  <2>1. \A i \in Visible : i < next
    BY Placed DEF Written
  <2>2. QED
    BY <1>1, <1>2, <1>11, <2>1 DEF MarksBelow
<1>13. QED
  BY <1>6, <1>8, <1>9, <1>10, <1>11, <1>12 DEF ResumeSound

LEMMA ResumeFactNext == FInv' => ResumeSound'
BY ResumeFact, PTL

\* The reason the cursor of a resume never lies behind one that was given.
LEMMA ResumeRises ==
    ASSUME FInv, [FeedNext]_feed
    PROVE  ResumeCursor <= ResumeCursor'
<1>1. FInv' /\ Grows
  BY FeedKeeps, FeedGrows
<1>2. FeedTypeOK /\ FeedTypeOK' /\ Unmarked
  BY <1>1 DEF FInv
<1>3. /\ \A i \in (Visible \cup Pruned)' : i <= ResumeCursor'
      /\ floor' <= ResumeCursor' /\ \A k \in Kinds : mark'[k] <= ResumeCursor'
      /\ ResumeCursor' \in 0 .. MaxId
  BY <1>1, ResumeFactNext DEF ResumeSound
<1>4. \/ ResumeCursor = 0 \/ ResumeCursor \in Visible \/ ResumeCursor = floor
      \/ \E k \in Kinds : ResumeCursor = mark[k]
  BY ResumeFact DEF ResumeSound
<1>5. MaxId \in Nat
  BY FeedAssumption
<1>6. CASE ResumeCursor \in Visible
  BY <1>1, <1>3, <1>6 DEF Grows
<1>7. ASSUME NEW k \in Kinds, ResumeCursor = mark[k] PROVE ResumeCursor <= ResumeCursor'
  <2>1. mark[k] <= mark'[k] /\ mark'[k] <= ResumeCursor'
    BY <1>1, <1>3 DEF Grows
  <2>2. mark[k] \in Nat /\ mark'[k] \in Nat /\ ResumeCursor' \in Nat
    BY <1>2, <1>3, <1>5 DEF FeedTypeOK
  <2>3. QED
    BY <1>7, <2>1, <2>2
<1>8. CASE ResumeCursor = floor
  <2>1. floor = 0 \/ floor' = floor
    BY <1>2 DEF FeedNext, feed, PersistEvent, Commit, Rollback, Tick, PruneSelect,
                PruneCommit, PruneCrash, RecordPruned, marks, Unmarked
  <2>2. QED
    BY <1>3, <1>5, <1>8, <2>1
<1>9. QED
  BY <1>3, <1>4, <1>5, <1>6, <1>7, <1>8

\* A page that is not full holds all the rows that were asked for.
LEMMA FirstAll ==
    ASSUME NEW S \in SUBSET Ids, NEW n \in Nat, Cardinality(First(S, n)) < n
    PROVE  First(S, n) = S
<1>1. First(S, n) \subseteq S /\ S \in SUBSET Nat
  BY DEF First, Ids
<1>2. IsFiniteSet(First(S, n))
  <2>1. IsFiniteSet(Ids)
    BY FS_Interval, FeedAssumption DEF Ids
  <2>2. QED
    BY <1>1, <2>1, FS_Subset
<1>3. ASSUME S \ First(S, n) # {} PROVE FALSE
  <2>1. S \ First(S, n) \in SUBSET Nat
    BY <1>1
  <2>2. PICK m \in S \ First(S, n) : \A y \in S \ First(S, n) : m <= y
    BY <1>3, <2>1, LeastExists
  <2> DEFINE B == {j \in S : j < m}
  <2>3. B \subseteq First(S, n)
    <3>1. ASSUME NEW j \in S, j < m PROVE j \in First(S, n)
      <4>1. j \in Nat /\ m \in Nat /\ ~(m <= j)
        BY <1>1, <2>2, <3>1
      <4>2. QED
        BY <2>2, <4>1
    <3>2. QED
      BY <3>1
  <2>4. ~(Cardinality(B) < n)
    BY <2>2 DEF First
  <2> HIDE DEF B
  <2>5. /\ Cardinality(B) <= Cardinality(First(S, n))
        /\ Cardinality(B) \in Nat /\ Cardinality(First(S, n)) \in Nat
    BY <1>2, <2>3, FS_Subset, FS_CardinalityType
  <2>6. QED
    BY <2>4, <2>5
<1>4. QED
  BY <1>1, <1>3
=============================================================================
