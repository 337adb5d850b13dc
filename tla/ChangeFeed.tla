----------------------------- MODULE ChangeFeed -----------------------------
(***************************************************************************)
(* The change feed of one board: a row per event, written in the            *)
(* transaction of the change it describes and so visible when that commits, *)
(* and the command that prunes old rows and records what it removed.  Ids    *)
(* are given at the INSERT, so rows become visible in another order.         *)
(*                                                                          *)
(* A kind of event stands for its type together with its owner when it is    *)
(* per user: what decides who may read it.  Time is the age of each row, so  *)
(* that there is no clock to run out.                                        *)
(***************************************************************************)
EXTENDS Integers, FiniteSets, FiniteSetsExt

CONSTANTS
    Kinds,
    MaxId,       \* bound: ids given
    Unrecorded,  \* bound: ids pruned by a release that kept no record
    Pruners,     \* runs of prune_board_events, which may overlap
    BatchSize,   \* --batch-size
    Retention,   \* --days
    Oldest,      \* bound: the age at which rows are no longer told apart
    Skew,        \* created_at is read at most so long before the INSERT
    TxTime       \* a transaction commits at most so long after its INSERT

Ids == 1 .. MaxId

\* Rows are kept for days and a transaction is over in seconds.
ASSUME FeedAssumption ==
    /\ Kinds # {}
    /\ MaxId \in Nat /\ Unrecorded \in 0 .. MaxId
    /\ BatchSize \in Nat \ {0}
    /\ Retention \in Nat /\ Skew \in Nat /\ TxTime \in Nat
    /\ Oldest \in Nat /\ Skew <= Oldest
    /\ TxTime + Skew <= Retention

VARIABLES
    next,    \* the next id
    status,  \* per id: none, open, visible, aborted, pruned, or lost
    kind,
    age,     \* time since created_at, of the rows open or visible
    since,   \* time since the INSERT, of the same
    known,   \* BoardEventPruneMark has a row for the board
    floor,   \* its unrecorded_floor
    mark,    \* BoardEventPruneTypeMark.max_pruned_id, 0 for no row
    batch    \* per pruner: the rows it has selected and not yet deleted

feed == <<next, status, kind, age, since, known, floor, mark, batch>>
rows == <<next, status, kind, age, since>>
marks == <<known, floor, mark>>

Visible == {i \in Ids : status[i] = "visible"}
Open    == {i \in Ids : status[i] = "open"}
Pruned  == {i \in Ids : status[i] = "pruned"}
Lost    == {i \in Ids : status[i] = "lost"}    \* pruned without a record
Written == Visible \cup Pruned \cup Lost       \* all that ever committed

\* order_by("id")[:n]
First(S, n) == {i \in S : Cardinality({j \in S : j < i}) < n}

Highest(S) == IF S = {} THEN 0 ELSE Max(S)

FeedInit ==
    /\ next \in 1 .. Unrecorded + 1
    /\ status = [i \in Ids |-> IF i < next THEN "lost" ELSE "none"]
    /\ kind \in [Ids -> Kinds]
    /\ \A i \in next .. MaxId : kind[i] = CHOOSE k \in Kinds : TRUE
    /\ age = [i \in Ids |-> 0] /\ since = [i \in Ids |-> 0]
    /\ known = FALSE /\ floor = 0
    /\ mark = [k \in Kinds |-> 0]
    /\ batch = [p \in Pruners |-> {}]

-----------------------------------------------------------------------------
(* The transactions that write events.                                      *)

PersistEvent(k, lag) ==
    /\ next \in Ids
    /\ next' = next + 1
    /\ status' = [status EXCEPT ![next] = "open"]
    /\ kind' = [kind EXCEPT ![next] = k]
    /\ age' = [age EXCEPT ![next] = lag]
    /\ UNCHANGED <<since, marks, batch>>

Commit(i) ==
    /\ status[i] = "open"
    /\ status' = [status EXCEPT ![i] = "visible"]
    /\ UNCHANGED <<next, kind, age, since, marks, batch>>

Rollback(i) ==
    /\ status[i] = "open"
    /\ status' = [status EXCEPT ![i] = "aborted"]
    /\ age' = [age EXCEPT ![i] = 0] /\ since' = [since EXCEPT ![i] = 0]
    /\ UNCHANGED <<next, kind, marks, batch>>

Older(n) == IF n < Oldest THEN n + 1 ELSE n

Tick ==
    /\ \A i \in Open : since[i] < TxTime
    /\ \E i \in Open \cup Visible : since[i] < Oldest
    /\ age' = [i \in Ids |-> IF i \in Open \cup Visible THEN Older(age[i]) ELSE 0]
    /\ since' = [i \in Ids |-> IF i \in Open \cup Visible THEN Older(since[i]) ELSE 0]
    /\ UNCHANGED <<next, status, kind, marks, batch>>

-----------------------------------------------------------------------------
(* prune_board_events.  A run keeps the cutoff it started with; a batch here *)
(* has the cutoff of its own moment, as if the run had ended and another     *)
(* begun.  Each batch is selected without locks, then deleted and recorded   *)
(* in the same transaction.                                                 *)

Batch == First({i \in Visible : age[i] > Retention}, BatchSize)

PruneSelect(p) ==
    /\ batch[p] = {} /\ Batch # {}
    /\ batch' = [batch EXCEPT ![p] = Batch]
    /\ UNCHANGED <<rows, marks>>

\* The highest id of kind k in a batch, or 0.
Top(b, k) == Highest({i \in b : kind[i] = k})

\* A mutant: the upsert overwrites the mark.
Overwritten(m, b) == [k \in Kinds |-> IF Top(b, k) > 0 THEN Top(b, k) ELSE m[k]]

\* GREATEST of what is stored and what was deleted.
Raised(m, b) == [k \in Kinds |-> IF Top(b, k) > m[k] THEN Top(b, k) ELSE m[k]]

\* Mutants: a floor below what an earlier release may have pruned, and one row
\* too low.
RecordWithoutFloor(b) == known' = TRUE /\ floor' = floor /\ mark' = Raised(mark, b)

FloorTwoBelow(b) ==
    known' = TRUE /\ floor' = (IF known THEN floor ELSE Min(b) - 2) /\ mark' = Raised(mark, b)

RecordPruned(b) ==
    /\ known' = TRUE
    /\ floor' = IF known THEN floor ELSE Min(b) - 1
    /\ mark' = Raised(mark, b)

PruneCommit(p) ==
    /\ batch[p] # {}
    /\ LET gone == batch[p] \cap Visible
       IN  /\ status' = [i \in Ids |-> IF i \in gone THEN "pruned" ELSE status[i]]
           /\ age' = [i \in Ids |-> IF i \in gone THEN 0 ELSE age[i]]
           /\ since' = [i \in Ids |-> IF i \in gone THEN 0 ELSE since[i]]
    /\ RecordPruned(batch[p])
    /\ batch' = [batch EXCEPT ![p] = {}]
    /\ UNCHANGED <<next, kind>>

PruneCrash(p) ==
    /\ batch[p] # {}
    /\ batch' = [batch EXCEPT ![p] = {}]
    /\ UNCHANGED <<rows, marks>>

FeedNext ==
    \/ \E k \in Kinds, lag \in 0 .. Skew : PersistEvent(k, lag)
    \/ \E i \in Ids : Commit(i) \/ Rollback(i)
    \/ Tick
    \/ \E p \in Pruners : PruneSelect(p) \/ PruneCommit(p) \/ PruneCrash(p)

-----------------------------------------------------------------------------
(* What the readers ask.                                                    *)

NewestEventId == Highest(Visible)

\* The highest id removed, of any kind, and of the kinds in ks.
MarkOf(ks)    == Highest({mark[k] : k \in ks})
PrunedThrough == Max({floor, MarkOf(Kinds)})

ResumeCursor == Max({NewestEventId, PrunedThrough})

\* A mutant: the inference made before there was a prune record.
ExpiredByInference(after, ks, pageHasRows) == pageHasRows /\ after \notin Visible

\* _events_cursor_expired, for a reader of the kinds in ks.
EventsCursorExpired(after, ks, pageHasRows) ==
    IF known /\ after <= PrunedThrough
    THEN after < Max({floor, MarkOf(ks)})
    ELSE pageHasRows /\ after \notin Visible

-----------------------------------------------------------------------------
FeedTypeOK ==
    /\ next \in 1 .. MaxId + 1
    /\ status \in [Ids -> {"none", "open", "visible", "aborted", "pruned", "lost"}]
    /\ kind \in [Ids -> Kinds]
    /\ age \in [Ids -> 0 .. Oldest] /\ since \in [Ids -> 0 .. Oldest]
    /\ known \in BOOLEAN /\ floor \in 0 .. MaxId
    /\ mark \in [Kinds -> 0 .. MaxId]
    /\ batch \in [Pruners -> SUBSET Ids]

(***************************************************************************)
(* A prune mark never falls, whichever of two overlapping runs commits last *)
(* (the GREATEST in record_pruned): one that fell would let a cursor pass    *)
(* events that are gone.                                                    *)
(***************************************************************************)
MarksNeverFall == [][\A k \in Kinds : mark'[k] >= mark[k]]_feed

(***************************************************************************)
(* Whatever has been deleted since the record exists is covered by the mark *)
(* of its own kind, and the floor covers what was deleted before it: the     *)
(* rows and their marks change together.                                    *)
(***************************************************************************)
MarksCoverPruned ==
    /\ Pruned # {} => known
    /\ \A i \in Pruned : mark[kind[i]] >= i
    /\ known => \A i \in Lost : floor >= i
=============================================================================
