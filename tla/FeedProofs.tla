----------------------------- MODULE FeedProofs -----------------------------
(***************************************************************************)
(* Proofs about the change feed and its consumer, for any number of events,  *)
(* pruners and kinds, any batch and page size and any retention that is      *)
(* longer than a transaction.                                               *)
(***************************************************************************)
EXTENDS FeedClient, ChangeFeedProofs

-----------------------------------------------------------------------------
(* The client's part.                                                       *)

Reading   == pc \in {"marks", "page", "handled"}
Resyncing == pc \in {"resume", "gone", "resync"}

ClientTyped ==
    /\ role \in Roles /\ cursor \in 0 .. MaxId
    /\ pc \in {"idle", "marks", "resume", "gone", "resync", "page", "handled"}
    /\ after \in 0 .. MaxId /\ ks \in SUBSET Kinds /\ page \in SUBSET Ids
    /\ goOn \in 0 .. MaxId
    /\ was \in SUBSET Ids /\ opened \in SUBSET Ids
    /\ seen \in SUBSET Ids /\ late \in SUBSET Ids

Below ==
    /\ cursor < next /\ goOn < next
    /\ pc # "idle" => ks \in Roles /\ after <= cursor
    /\ was \subseteq Written /\ page \subseteq Visible \cup Pruned

\* The rows of the feed a request after the cursor asks for.
Asked(S) == {i \in S : i > after /\ kind[i] \in ks}

\* A page is the first rows of all that were ever committed but for some, G,
\* that were gone; and what is at or below one of its rows had been committed
\* or was open when it was read.
PageRows ==
    \E G \in SUBSET (Pruned \cup Lost) :
        page = First(Asked(was \ G), Limit) /\ (after = 0 => G \subseteq seen)

PageAges ==
    \A m \in page, i \in Open \cup Written : i <= m =>
        /\ i \in Open => i \in opened
        /\ i \in Written => i \in was \cup opened

PageRead == Reading => PageRows /\ PageAges

HandledSeen == pc = "handled" => Left # {} /\ Min(Left) \in seen

\* The cursor of a 410.
Resuming ==
    /\ pc = "resume" => goOn \in Visible \cup Pruned \/ (goOn = 0 /\ known)
    /\ Resyncing => \A i \in Open : i <= goOn => i \in opened
    /\ pc = "resync" => \A i \in Written : i <= goOn => i \in was \cup opened

\* OnlyLateRowsMissed, of the rows that are still open too.
ForAll(i) == \A r \in Roles : kind[i] \in r
Passed == \A i \in Open \cup Written : i <= cursor /\ ForAll(i) => i \in seen \cup late

CInv == /\ ClientTyped /\ Below /\ PageRead /\ PageIsComplete
        /\ HandledSeen /\ Resuming /\ Passed

-----------------------------------------------------------------------------
(* The client's invariant.                                                  *)

LEMMA ClientStarts == Init => CInv
<1> SUFFICES ASSUME Init PROVE CInv
  OBVIOUS
<1>1. FInv
  BY FeedStarts DEF Init
<1>2. next \in 1 .. MaxId + 1 /\ MaxId \in Nat
  BY <1>1, FeedAssumption DEF FInv, FeedTypeOK
<1>3. cursor \in 0 .. next - 1
  BY DEF Init
<1>4. cursor \in 0 .. MaxId /\ cursor < next /\ 1 .. cursor \subseteq Ids
  BY <1>2, <1>3 DEF Ids
<1>5. ClientTyped
  BY <1>2, <1>4 DEF Init, ClientTyped
<1>6. Below
  BY <1>2, <1>4 DEF Init, Below
<1>7. PageRead /\ PageIsComplete /\ HandledSeen /\ Resuming
  BY DEF Init, PageRead, Reading, PageIsComplete, HandledSeen, Resuming, Resyncing
<1>8. Passed
  <2>1. \A i \in Ids : i <= cursor => i \in 1 .. cursor
    BY <1>2, <1>3 DEF Ids
  <2>2. Open \cup Written \subseteq Ids
    BY DEF Open, Written, Visible, Pruned, Lost
  <2>3. QED
    BY <2>1, <2>2 DEF Init, Passed
<1>9. QED
  BY <1>5, <1>6, <1>7, <1>8 DEF CInv

\* The feed moves on under a consumer.
LEMMA FeedStepKeeps ==
    ASSUME FInv, CInv, [FeedNext]_feed, UNCHANGED client
    PROVE  CInv'
<1>1. Grows
  BY FeedGrows
<1>2. UNCHANGED <<role, cursor, pc, after, ks, page, goOn, was, opened, seen, late>>
  BY DEF client, request, history
<1>3. /\ next \in Nat /\ next' \in Nat
      /\ \A i \in Open \cup Written : i \in Ids /\ i \in Nat /\ i < next
  <2>1. FInv'
    BY FeedKeeps
  <2>2. next' \in Nat
    BY <2>1 DEF FInv, FeedTypeOK
  <2>3. QED
    BY <2>2, Placed
<1>4. /\ Written \subseteq Written' /\ Written' \subseteq Written \cup Open
      /\ Visible \cup Pruned \subseteq Visible' \cup Pruned'
      /\ Pruned \cup Lost \subseteq Pruned' \cup Lost'
      /\ Open' \subseteq Open \cup {next} /\ Open' \subseteq Ids
  BY <1>1 DEF Grows, Written, Open
<1>5. \A i \in Open \cup Written : kind'[i] = kind[i]
  BY <1>1, <1>3 DEF Grows
<1>7. ClientTyped'
  BY <1>2 DEF CInv, ClientTyped
<1>8. Below'
  <2>1. cursor \in Nat /\ goOn \in Nat
    BY FeedAssumption DEF CInv, ClientTyped
  <2>2. next <= next'
    BY <1>1 DEF Grows
  <2>3. cursor < next' /\ goOn < next'
    BY <1>3, <2>1, <2>2 DEF CInv, Below
  <2>4. QED
    BY <1>2, <1>4, <2>3 DEF CInv, Below
<1>9. ASSUME NEW S \in SUBSET was
      PROVE  {i \in S : i > after' /\ kind'[i] \in ks'} = {i \in S : i > after /\ kind[i] \in ks}
  BY <1>2, <1>5 DEF CInv, Below
\* Below a committed row or a cursor nothing new opens or is committed.
<1>10. ASSUME NEW m \in Nat, m < next, NEW i \in Open' \cup Written', i <= m
       PROVE  /\ i \in Open' => i \in Open
              /\ i \in Written' => i \in Open \cup Written
              /\ i \in Open \cup Written
  <2>1. i # next
    BY <1>3, <1>10
  <2>2. QED
    BY <1>4, <2>1
<1>11. PageRead'
  <2>1. CASE Reading
    <3>1. PageRows /\ PageAges
      BY <2>1 DEF CInv, PageRead
    <3>2. PICK G \in SUBSET (Pruned \cup Lost) :
             page = First(Asked(was \ G), Limit) /\ (after = 0 => G \subseteq seen)
      BY <3>1 DEF PageRows
    <3>3. {i \in was \ G : i > after' /\ kind'[i] \in ks'} = Asked(was \ G)
      BY <1>9 DEF Asked
    <3>4. G \in SUBSET (Pruned' \cup Lost')
      BY <1>4
    <3>5. PageRows'
      BY <1>2, <3>2, <3>3, <3>4 DEF PageRows, Asked, First
    <3>6. ASSUME NEW m \in page, NEW i \in Open' \cup Written', i <= m
          PROVE  /\ i \in Open' => i \in opened
                 /\ i \in Written' => i \in was \cup opened
      <4>1. m \in Open \cup Written
        BY DEF CInv, Below, Written
      <4>2. m \in Nat /\ m < next
        BY <1>3, <4>1
      <4>3. /\ i \in Open' => i \in Open
            /\ i \in Written' => i \in Open \cup Written
            /\ i \in Open \cup Written
        BY <1>10, <3>6, <4>2
      <4>4. QED
        BY <3>1, <3>6, <4>3 DEF PageAges
    <3>7. PageAges'
      BY <1>2, <3>6 DEF PageAges
    <3>8. QED
      BY <3>5, <3>7 DEF PageRead
  <2>2. CASE ~Reading
    BY <1>2, <2>2 DEF Reading, PageRead
  <2>3. QED
    BY <2>1, <2>2
<1>12. PageIsComplete'
  <2>1. {i \in was : i > after' /\ kind'[i] \in ks'} = {i \in was : i > after /\ kind[i] \in ks}
    BY <1>9
  <2>2. Lost' = Lost
    BY <1>1 DEF Grows
  <2>3. QED
    BY <1>2, <2>1, <2>2 DEF CInv, PageIsComplete, First
<1>13. HandledSeen'
  BY <1>2 DEF CInv, HandledSeen, Left
<1>14. Resuming'
  <2>1. goOn \in Nat /\ goOn < next
    BY FeedAssumption DEF CInv, ClientTyped, Below
  <2>2. (known => known') /\ Visible \cup Pruned \subseteq Visible' \cup Pruned'
    BY <1>1 DEF Grows
  <2>3. \A i \in Open' : i <= goOn => i \in Open
    BY <1>10, <2>1
  <2>4. \A i \in Written' : i <= goOn => i \in Open \cup Written
    BY <1>10, <2>1
  <2>5. QED
    BY <1>2, <2>2, <2>3, <2>4 DEF CInv, Resuming, Resyncing
<1>15. Passed'
  <2>1. cursor \in Nat /\ cursor < next
    BY FeedAssumption DEF CInv, ClientTyped, Below
  <2>2. \A i \in Open' \cup Written' : i <= cursor => i \in Open \cup Written
    BY <1>10, <2>1
  <2>3. QED
    BY <1>2, <1>5, <2>2 DEF CInv, Passed, ForAll
<1>16. QED
  BY <1>7, <1>8, <1>11, <1>12, <1>13, <1>14, <1>15 DEF CInv

-----------------------------------------------------------------------------
(* The client's own steps.                                                  *)

LEMMA EndRequestKeeps ==
    ASSUME FInv, CInv, EndRequest, UNCHANGED feed, role' \in Roles,
           cursor' \in 0 .. MaxId, cursor' < next,
           seen' \in SUBSET Ids, late' \in SUBSET Ids, Passed'
    PROVE  CInv'
<1>1. UNCHANGED <<next, status, kind, known>>
  BY DEF feed
<1>2. 0 \in 0 .. MaxId /\ 0 < next
  BY FeedAssumption DEF FInv, FeedTypeOK
<1>3. ClientTyped'
  BY <1>2 DEF EndRequest, ClientTyped
<1>4. Below'
  BY <1>1, <1>2 DEF EndRequest, Below
<1>5. PageRead' /\ PageIsComplete' /\ HandledSeen' /\ Resuming'
  BY DEF EndRequest, PageRead, Reading, PageIsComplete, HandledSeen, Resuming, Resyncing
<1>6. QED
  BY <1>3, <1>4, <1>5 DEF CInv

\* The sets of rows, and the invariant of what was passed, in a step that
\* leaves the feed alone.
LEMMA FeedStill ==
    ASSUME UNCHANGED feed
    PROVE  /\ UNCHANGED <<next, status, kind, known, floor, mark>>
           /\ Visible' = Visible /\ Pruned' = Pruned /\ Lost' = Lost
           /\ Open' = Open /\ Written' = Written
           /\ NewestEventId' = NewestEventId /\ PrunedThrough' = PrunedThrough
           /\ CInv /\ cursor' = cursor /\ seen \subseteq seen' /\ late' = late => Passed'
<1>1. UNCHANGED <<next, status, kind, known, floor, mark>>
  BY DEF feed
<1>2. /\ Visible' = Visible /\ Pruned' = Pruned /\ Lost' = Lost
      /\ Open' = Open /\ Written' = Written
  BY <1>1 DEF Visible, Pruned, Lost, Open, Written
<1>3. NewestEventId' = NewestEventId /\ PrunedThrough' = PrunedThrough
  BY <1>1, <1>2 DEF NewestEventId, PrunedThrough, MarkOf, Highest, Max
<1>4. ASSUME CInv, cursor' = cursor, seen \subseteq seen', late' = late PROVE Passed'
  BY <1>1, <1>2, <1>4 DEF CInv, Passed, ForAll
<1>5. QED
  BY <1>1, <1>2, <1>3, <1>4

LEMMA ReadPageKeeps ==
    ASSUME FInv, CInv, ReadPage
    PROVE  CInv'
<1>1. /\ UNCHANGED <<feed, role, cursor, goOn, late>>
      /\ pc' = "marks" /\ ks' = role /\ after' = cursor
      /\ was' = Written /\ opened' = Open
      /\ page' = First({i \in Visible : i > cursor /\ kind[i] \in role}, Limit)
      /\ seen' = IF cursor = 0 THEN seen \cup Pruned \cup Lost ELSE seen
  BY DEF ReadPage
<1>2. /\ UNCHANGED <<next, status, kind, known, floor, mark>>
      /\ Visible' = Visible /\ Pruned' = Pruned /\ Lost' = Lost
      /\ Open' = Open /\ Written' = Written
      /\ seen \subseteq seen' => Passed'
  BY <1>1, FeedStill
<1>3. page' \subseteq Visible
  BY <1>1 DEF First
<1>4. role \in Roles /\ Roles \subseteq SUBSET Kinds /\ cursor \in 0 .. MaxId /\ MaxId \in Nat
  BY FeedAssumption, ClientAssumption DEF CInv, ClientTyped
<1>5. ClientTyped'
  <2>1. /\ Visible \in SUBSET Ids /\ Open \in SUBSET Ids /\ Pruned \in SUBSET Ids
        /\ Lost \in SUBSET Ids /\ Written \in SUBSET Ids
    BY DEF Visible, Open, Pruned, Lost, Written
  <2>2. seen' \in SUBSET Ids
    BY <1>1, <2>1 DEF CInv, ClientTyped
  <2>3. QED
    BY <1>1, <1>3, <1>4, <2>1, <2>2 DEF CInv, ClientTyped
<1>6. Below'
  BY <1>1, <1>2, <1>3, <1>4 DEF CInv, Below
<1>7. PageRead'
  <2> DEFINE G == Pruned \cup Lost
  <2>1. Written \ G = Visible
    BY DEF Written, Visible, Pruned, Lost
  <2>2. {i \in was' \ G : i > after' /\ kind'[i] \in ks'} = {i \in Visible : i > cursor /\ kind[i] \in role}
    BY <1>1, <1>2, <2>1
  <2>3. after' = 0 => G \subseteq seen'
    BY <1>1
  <2>4. G \in SUBSET (Pruned' \cup Lost')
    BY <1>2
  <2>5. PageRows'
    <3> HIDE DEF G
    <3>1. QED
      BY <1>1, <2>2, <2>3, <2>4 DEF PageRows, Asked, First
  <2>6. PageAges'
    BY <1>1, <1>2 DEF PageAges
  <2>7. QED
    BY <2>5, <2>6 DEF PageRead
<1>8. PageIsComplete' /\ HandledSeen' /\ Resuming'
  BY <1>1 DEF PageIsComplete, HandledSeen, Resuming, Resyncing
<1>9. Passed'
  BY <1>1, <1>2
<1>10. QED
  BY <1>5, <1>6, <1>7, <1>8, <1>9 DEF CInv

\* A cursor that is not expired has nothing after it that is gone.
LEMMA NotExpired ==
    ASSUME FInv, CInv, pc = "marks", after # 0,
           ~EventsCursorExpired(after, ks, page # {})
    PROVE  \/ page = First(Asked(was), Limit)
           \/ page = {} /\ \E i \in Lost : i > after
<1>1. FeedTypeOK /\ MarksCoverPruned /\ LostFirst
  BY DEF FInv
<1>2. PICK G \in SUBSET (Pruned \cup Lost) : page = First(Asked(was \ G), Limit)
  BY DEF CInv, PageRead, Reading, PageRows
<1>3. after \in Nat /\ ks \in SUBSET Kinds /\ MaxId \in Nat
  BY FeedAssumption DEF CInv, ClientTyped
<1>4. /\ Max({floor, MarkOf(ks)}) \in 0 .. MaxId
      /\ floor <= Max({floor, MarkOf(ks)})
      /\ \A k \in ks : mark[k] <= Max({floor, MarkOf(ks)})
      /\ Max({floor, MarkOf(ks)}) <= PrunedThrough
      /\ PrunedThrough \in 0 .. MaxId
  BY <1>1, <1>3, ThroughFact DEF PrunedThrough
<1>5. ASSUME NEW g \in G, g > after, kind[g] \in ks
      PROVE  page = {} /\ \E i \in Lost : i > after
  <2>1. g \in Ids /\ g \in Nat
    BY DEF Pruned, Lost, Ids
  <2>2. /\ floor \in Nat
        /\ mark[kind[g]] \in Nat
    BY <1>1, <1>3, <1>5, <2>1 DEF FeedTypeOK
  <2>3. ASSUME known, g <= Max({floor, MarkOf(ks)}) PROVE FALSE
    <3>1. after < Max({floor, MarkOf(ks)}) /\ after <= PrunedThrough
      BY <1>3, <1>4, <1>5, <2>1, <2>3
    <3>2. QED
      BY <2>3, <3>1 DEF EventsCursorExpired
  <2>4. CASE g \in Pruned
    <3>1. known /\ g <= mark[kind[g]]
      BY <1>1, <2>1, <2>2, <2>4 DEF MarksCoverPruned
    <3>2. mark[kind[g]] <= Max({floor, MarkOf(ks)})
      BY <1>4, <1>5
    <3>3. QED
      BY <1>4, <2>1, <2>2, <2>3, <3>1, <3>2
  <2>5. CASE g \in Lost
    <3>1. CASE known
      <4>1. g <= floor
        BY <1>1, <2>1, <2>2, <2>5, <3>1 DEF MarksCoverPruned
      <4>2. QED
        BY <1>4, <2>1, <2>2, <2>3, <3>1, <4>1
    <3>2. CASE ~known
      <4>1. page = {} \/ after \in Visible
        BY <3>2 DEF EventsCursorExpired
      <4>2. after \notin Visible
        <5>1. ASSUME after \in Visible PROVE FALSE
          <6>1. after \in Ids \ Lost
            BY <5>1 DEF Visible, Lost
          <6>2. g < after
            BY <1>1, <2>5, <6>1 DEF LostFirst
          <6>3. QED
            BY <1>3, <1>5, <2>1, <6>2
        <5>2. QED
          BY <5>1
      <4>3. QED
        BY <1>5, <2>5, <4>1, <4>2
    <3>3. QED
      BY <3>1, <3>2
  <2>6. QED
    BY <2>4, <2>5
<1>6. CASE \E g \in G : g > after /\ kind[g] \in ks
  BY <1>5, <1>6
<1>7. CASE ~\E g \in G : g > after /\ kind[g] \in ks
  <2>1. Asked(was \ G) = Asked(was)
    BY <1>7 DEF Asked
  <2>2. QED
    BY <1>2, <2>1
<1>8. QED
  BY <1>6, <1>7

LEMMA CheckCursorKeeps ==
    ASSUME FInv, CInv, CheckCursor
    PROVE  CInv'
<1>1. /\ pc = "marks"
      /\ UNCHANGED <<feed, role, cursor, after, ks, was, seen, late>>
  BY DEF CheckCursor, history
<1>2. /\ UNCHANGED <<next, status, kind, known, floor, mark>>
      /\ Visible' = Visible /\ Pruned' = Pruned /\ Lost' = Lost
      /\ Open' = Open /\ Written' = Written
      /\ Passed'
  BY <1>1, FeedStill
<1>3. MaxId \in Nat /\ Visible \in SUBSET Ids /\ Open \in SUBSET Ids
  BY FeedAssumption DEF Visible, Open
<1>4. HandledSeen'
  BY DEF CheckCursor, HandledSeen
<1>5. CASE after # 0 /\ EventsCursorExpired(after, ks, page # {})
  <2>1. pc' = "resume" /\ goOn' = NewestEventId /\ opened' = Open /\ page' = {}
    BY <1>5 DEF CheckCursor
  <2>2. /\ NewestEventId \in Visible \/ (Visible = {} /\ NewestEventId = 0)
        /\ NewestEventId \in 0 .. MaxId
    <3>1. Ids \subseteq 0 .. MaxId
      BY <1>3 DEF Ids
    <3>2. Visible \in SUBSET (0 .. MaxId)
      BY <1>3, <3>1
    <3>3. QED
      BY <3>2, HighestFact DEF NewestEventId
  <2>3. Visible = {} => known
    <3>1. ASSUME ~known, Visible = {} PROVE FALSE
      <4>1. page # {}
        BY <1>5, <3>1 DEF EventsCursorExpired
      <4>2. Pruned # {}
        BY <3>1, <4>1 DEF CInv, Below
      <4>3. QED
        BY <3>1, <4>2 DEF FInv, MarksCoverPruned
    <3>2. QED
      BY <3>1
  <2>4. ClientTyped'
    BY <1>1, <1>3, <2>1, <2>2 DEF CInv, ClientTyped
  <2>5. Below'
    <3>1. goOn' < next
      <4>1. CASE NewestEventId \in Visible
        BY <2>1, <4>1, Placed DEF Written
      <4>2. CASE NewestEventId = 0
        BY <2>1, <4>2 DEF FInv, FeedTypeOK
      <4>3. QED
        BY <2>2, <4>1, <4>2
    <3>2. QED
      BY <1>1, <1>2, <2>1, <3>1 DEF CInv, Below
  <2>6. PageRead' /\ PageIsComplete'
    BY <2>1 DEF PageRead, Reading, PageIsComplete
  <2>7. Resuming'
    BY <1>2, <2>1, <2>2, <2>3 DEF Resuming
  <2>8. QED
    BY <1>2, <1>4, <2>4, <2>5, <2>6, <2>7 DEF CInv
<1>6. CASE ~(after # 0 /\ EventsCursorExpired(after, ks, page # {}))
  <2>1. pc' = "page" /\ UNCHANGED <<goOn, opened, page>>
    BY <1>6 DEF CheckCursor
  <2>2. ClientTyped' /\ Below' /\ Resuming'
    BY <1>1, <1>2, <2>1 DEF CInv, ClientTyped, Below, Resuming, Resyncing
  <2>3. PageRead'
    <3>1. PageRows /\ PageAges
      BY <1>1 DEF CInv, PageRead, Reading
    <3>2. PageRows' /\ PageAges'
      BY <1>1, <1>2, <2>1, <3>1 DEF PageRows, PageAges, Asked, First
    <3>3. QED
      BY <3>2 DEF PageRead
  <2>4. PageIsComplete'
    <3>1. CASE after = 0
      BY <1>1, <3>1 DEF PageIsComplete
    <3>2. CASE after # 0
      <4>1. \/ page = First(Asked(was), Limit)
            \/ page = {} /\ \E i \in Lost : i > after
        BY <1>1, <1>6, <3>2, NotExpired
      <4>2. QED
        BY <1>1, <1>2, <2>1, <4>1 DEF PageIsComplete, Asked, First
    <3>3. QED
      BY <3>1, <3>2
  <2>5. QED
    BY <1>2, <1>4, <2>2, <2>3, <2>4 DEF CInv
<1>7. QED
  BY <1>5, <1>6

\* What a 410 gives a client to go on from.
LEMMA AnswerFact ==
    ASSUME FInv, CInv, AnswerGone
    PROVE  /\ goOn' \in 0 .. MaxId /\ goOn' < next
           /\ goOn <= goOn' /\ PrunedThrough <= goOn'
           /\ goOn' = goOn \/ goOn' = PrunedThrough
           /\ \A i \in Open : ~(i <= PrunedThrough)
<1>1. FeedTypeOK /\ MarksBelow /\ Settled
  BY DEF FInv
<1>2. goOn' = Max({goOn, PrunedThrough})
  BY DEF AnswerGone
<1>3. goOn \in 0 .. MaxId /\ goOn < next /\ next \in Nat /\ 0 < next /\ MaxId \in Nat
  BY <1>1, FeedAssumption DEF CInv, ClientTyped, Below, FeedTypeOK
<1>4. /\ PrunedThrough \in 0 .. MaxId
      /\ PrunedThrough = floor \/ PrunedThrough = 0 \/ \E k \in Kinds : PrunedThrough = mark[k]
  BY <1>1, ThroughFact DEF PrunedThrough
<1>5. PrunedThrough < next
  BY <1>1, <1>3, <1>4 DEF MarksBelow
<1>6. goOn' \in {goOn, PrunedThrough} /\ goOn <= goOn' /\ PrunedThrough <= goOn'
  BY <1>2, <1>3, <1>4, PairMax
<1>7. ASSUME NEW i \in Open PROVE ~(i <= PrunedThrough)
  <2>1. i \in Ids /\ i \in Nat /\ 0 < i
    BY DEF Open, Ids
  <2>2. PrunedThrough < i
    BY <1>1, <1>4, <2>1 DEF Settled
  <2>3. QED
    BY <1>4, <2>1, <2>2
<1>8. QED
  BY <1>3, <1>4, <1>5, <1>6, <1>7

LEMMA AnswerGoneKeeps ==
    ASSUME FInv, CInv, AnswerGone
    PROVE  CInv'
<1>1. /\ pc = "resume" /\ pc' = "gone"
      /\ UNCHANGED <<feed, role, cursor, after, ks, page, was, opened, seen, late>>
  BY DEF AnswerGone, history
<1>2. /\ UNCHANGED <<next, status, kind, known, floor, mark>>
      /\ Visible' = Visible /\ Pruned' = Pruned /\ Lost' = Lost
      /\ Open' = Open /\ Written' = Written
      /\ Passed'
  BY <1>1, FeedStill
<1>3. /\ goOn' \in 0 .. MaxId /\ goOn' < next
      /\ goOn' = goOn \/ goOn' = PrunedThrough
      /\ \A i \in Open : ~(i <= PrunedThrough)
  BY AnswerFact
<1>4. ClientTyped' /\ Below'
  BY <1>1, <1>2, <1>3 DEF CInv, ClientTyped, Below
<1>5. PageRead' /\ PageIsComplete' /\ HandledSeen'
  BY <1>1 DEF PageRead, Reading, PageIsComplete, HandledSeen
<1>6. Resuming'
  BY <1>1, <1>2, <1>3 DEF CInv, Resuming, Resyncing
<1>7. QED
  BY <1>2, <1>4, <1>5, <1>6 DEF CInv

LEMMA ReadBoardKeeps ==
    ASSUME FInv, CInv, ReadBoard
    PROVE  CInv'
<1>1. /\ pc = "gone" /\ pc' = "resync" /\ was' = Written
      /\ UNCHANGED <<feed, role, cursor, after, ks, page, goOn, opened, seen, late>>
  BY DEF ReadBoard, history
<1>2. /\ UNCHANGED <<next, status, kind, known, floor, mark>>
      /\ Visible' = Visible /\ Pruned' = Pruned /\ Lost' = Lost
      /\ Open' = Open /\ Written' = Written
      /\ Passed'
  BY <1>1, FeedStill
<1>3. Written \in SUBSET Ids
  BY DEF Written, Visible, Pruned, Lost
<1>4. ClientTyped' /\ Below'
  BY <1>1, <1>2, <1>3 DEF CInv, ClientTyped, Below
<1>5. PageRead' /\ PageIsComplete' /\ HandledSeen'
  BY <1>1 DEF PageRead, Reading, PageIsComplete, HandledSeen
<1>6. Resuming'
  BY <1>1, <1>2 DEF CInv, Resuming, Resyncing
<1>7. QED
  BY <1>2, <1>4, <1>5, <1>6 DEF CInv

LEMMA ResyncHandledKeeps ==
    ASSUME FInv, CInv, ResyncHandled
    PROVE  CInv'
<1>1. /\ pc = "resync" /\ cursor' = goOn /\ EndRequest /\ UNCHANGED <<feed, role>>
      /\ seen' = seen \cup was
      /\ late' = late \cup {i \in opened : i <= goOn}
  BY DEF ResyncHandled
<1>2. kind' = kind /\ Open' = Open /\ Written' = Written
  BY <1>1, FeedStill
<1>3. /\ \A i \in Open : i <= goOn => i \in opened
      /\ \A i \in Written : i <= goOn => i \in was \cup opened
  BY <1>1 DEF CInv, Resuming, Resyncing
<1>4. Passed'
  BY <1>1, <1>2, <1>3 DEF Passed
<1>5. seen' \in SUBSET Ids /\ late' \in SUBSET Ids
  BY <1>1 DEF CInv, ClientTyped
<1>6. role' \in Roles /\ cursor' \in 0 .. MaxId /\ cursor' < next
  BY <1>1 DEF CInv, ClientTyped, Below
<1>7. QED
  BY <1>1, <1>4, <1>5, <1>6, EndRequestKeeps

\* The next row of a page.
LEMMA LeftFact ==
    ASSUME FInv, CInv, Left # {}
    PROVE  /\ Min(Left) \in page /\ Min(Left) \in Ids /\ Min(Left) < next
           /\ Min(Left) > cursor
           /\ \A i \in Left : Min(Left) <= i
           /\ Min(Left) \in Visible \cup Pruned
<1>1. page \subseteq Visible \cup Pruned
  BY DEF CInv, Below
<1>2. \A i \in Left : i \in page /\ i \in Ids /\ i \in Nat /\ i < next /\ i > cursor
  BY <1>1, Placed DEF Left, Written
<1>3. Left \in SUBSET Nat
  BY <1>2
<1>4. Min(Left) \in Left /\ \A i \in Left : Min(Left) <= i
  BY <1>3, MinFact
<1>5. QED
  BY <1>1, <1>2, <1>4

LEMMA YieldKeeps ==
    ASSUME FInv, CInv, Yield
    PROVE  CInv'
<1>1. /\ pc = "page" /\ Left # {} /\ pc' = "handled" /\ seen' = seen \cup {Min(Left)}
      /\ UNCHANGED <<feed, role, cursor, after, ks, page, goOn, was, opened, late>>
  BY DEF Yield
<1>2. /\ UNCHANGED <<next, status, kind, known, floor, mark>>
      /\ Visible' = Visible /\ Pruned' = Pruned /\ Lost' = Lost
      /\ Open' = Open /\ Written' = Written
      /\ Passed'
  BY <1>1, FeedStill
<1>3. Min(Left) \in Ids
  BY <1>1, LeftFact
<1>4. ClientTyped' /\ Below'
  BY <1>1, <1>2, <1>3 DEF CInv, ClientTyped, Below
<1>5. Left' = Left
  BY <1>1 DEF Left
<1>6. HandledSeen'
  BY <1>1, <1>5 DEF HandledSeen
<1>7. Resuming'
  BY <1>1 DEF Resuming, Resyncing
<1>8. PageIsComplete'
  BY <1>1, <1>2 DEF CInv, PageIsComplete, First
<1>9. PageRead'
  <2>1. PageRows /\ PageAges
    BY <1>1 DEF CInv, PageRead, Reading
  <2>2. PICK G \in SUBSET (Pruned \cup Lost) :
           page = First(Asked(was \ G), Limit) /\ (after = 0 => G \subseteq seen)
    BY <2>1 DEF PageRows
  <2>3. {i \in was' \ G : i > after' /\ kind'[i] \in ks'} = Asked(was \ G)
    BY <1>1, <1>2 DEF Asked
  <2>4. page' = page /\ G \in SUBSET (Pruned' \cup Lost')
    BY <1>1, <1>2
  <2>5. after' = 0 => G \subseteq seen'
    BY <1>1, <2>2
  <2>6. PageRows'
    BY <2>2, <2>3, <2>4, <2>5 DEF PageRows, Asked, First
  <2>7. PageAges'
    BY <1>1, <1>2, <2>1 DEF PageAges
  <2>8. QED
    BY <2>6, <2>7 DEF PageRead
<1>10. QED
  BY <1>2, <1>4, <1>6, <1>7, <1>8, <1>9 DEF CInv

LEMMA StoreKeeps ==
    ASSUME FInv, CInv, Store
    PROVE  CInv'
<1> DEFINE m == Min(Left)
<1>1. /\ pc = "handled" /\ pc' = "page" /\ cursor' = m
      /\ late' = late \cup {i \in opened : i < m}
      /\ UNCHANGED <<feed, role, after, ks, page, goOn, was, opened, seen>>
  BY DEF Store
<1>2. /\ UNCHANGED <<next, status, kind, known, floor, mark>>
      /\ Visible' = Visible /\ Pruned' = Pruned /\ Lost' = Lost
      /\ Open' = Open /\ Written' = Written
  BY <1>1, FeedStill
<1>3. Left # {} /\ m \in seen
  BY <1>1 DEF CInv, HandledSeen
<1>4. /\ m \in page /\ m \in Ids /\ m < next /\ m > cursor
      /\ \A i \in Left : m <= i
      /\ m \in Visible \cup Pruned
  BY <1>3, LeftFact
<1> HIDE DEF m
<1>5. /\ m \in Nat /\ cursor \in Nat /\ after \in Nat /\ after <= cursor /\ ks \in Roles
      /\ MaxId \in Nat
  BY <1>1, <1>4, FeedAssumption DEF CInv, ClientTyped, Below, Ids
<1>6. ClientTyped'
  <2>1. m \in 0 .. MaxId
    BY <1>4, <1>5 DEF Ids
  <2>2. late' \in SUBSET Ids
    BY <1>1 DEF CInv, ClientTyped
  <2>3. QED
    BY <1>1, <2>1, <2>2 DEF CInv, ClientTyped
<1>7. Below'
  BY <1>1, <1>2, <1>4, <1>5 DEF CInv, Below
<1>8. PageRows /\ PageAges
  BY <1>1 DEF CInv, PageRead, Reading
<1>9. PageRead' /\ PageIsComplete'
  <2>1. PageRows' /\ PageAges'
    BY <1>1, <1>2, <1>8 DEF PageRows, PageAges, Asked, First
  <2>2. PageIsComplete'
    BY <1>1, <1>2 DEF CInv, PageIsComplete, First
  <2>3. QED
    BY <2>1, <2>2 DEF PageRead
<1>10. HandledSeen' /\ Resuming'
  BY <1>1 DEF HandledSeen, Resuming, Resyncing
\* A row for every reader between the cursor and m was on the page.
<1>11. ASSUME NEW i \in was, i > cursor, i <= m, ForAll(i)
       PROVE  i \in seen
  <2>1. i \in Ids /\ i \in Nat
    BY DEF CInv, ClientTyped, Ids
  <2>2. i > after /\ kind[i] \in ks
    BY <1>5, <1>11, <2>1 DEF ForAll
  <2>3. PICK G \in SUBSET (Pruned \cup Lost) :
           page = First(Asked(was \ G), Limit) /\ (after = 0 => G \subseteq seen)
    BY <1>8 DEF PageRows
  <2>4. ASSUME NEW S \in SUBSET Ids, page = First(S, Limit), i \in S PROVE i \in seen
    <3>1. i \in page
      BY <1>4, <1>11, <2>4, FirstFact, ClientAssumption
    <3>2. i \in Left
      BY <1>11, <3>1 DEF Left
    <3>3. i = m
      BY <1>4, <1>5, <1>11, <2>1, <3>2
    <3>4. QED
      BY <1>3, <3>3
  <2>5. was \in SUBSET Ids
    BY DEF CInv, ClientTyped
  <2>6. CASE after = 0
    <3>1. CASE i \in G
      BY <2>3, <2>6, <3>1
    <3>2. CASE i \notin G
      <4>1. i \in Asked(was \ G) /\ Asked(was \ G) \in SUBSET Ids
        BY <2>2, <2>5, <3>2 DEF Asked
      <4>2. QED
        BY <2>3, <2>4, <4>1
    <3>3. QED
      BY <3>1, <3>2
  <2>7. CASE after # 0
    <3>1. page = First(Asked(was), Limit)
      BY <1>1, <1>4, <2>7 DEF CInv, PageIsComplete, Asked
    <3>2. i \in Asked(was) /\ Asked(was) \in SUBSET Ids
      BY <2>2, <2>5 DEF Asked
    <3>3. QED
      BY <2>4, <3>1, <3>2
  <2>8. QED
    BY <2>6, <2>7
<1>12. ASSUME NEW i \in Open \cup Written, i <= m, ForAll(i)
       PROVE  i \in seen \cup late'
  <2>1. i \in Ids /\ i \in Nat
    BY Placed
  <2>2. CASE i <= cursor
    BY <1>1, <1>12, <2>2 DEF CInv, Passed
  <2>3. CASE ~(i <= cursor)
    <3>1. i > cursor
      BY <1>5, <2>1, <2>3
    <3>2. CASE i \in was
      BY <1>11, <1>12, <3>1, <3>2
    <3>3. CASE i \notin was
      <4>1. i \in opened
        BY <1>4, <1>8, <1>12, <3>3 DEF PageAges
      <4>2. CASE i = m
        BY <1>3, <4>2
      <4>3. CASE i # m
        BY <1>1, <1>5, <1>12, <2>1, <4>1, <4>3
      <4>4. QED
        BY <4>2, <4>3
    <3>4. QED
      BY <3>2, <3>3
  <2>4. QED
    BY <2>2, <2>3
<1>13. Passed'
  BY <1>1, <1>2, <1>12 DEF Passed, ForAll
<1>14. QED
  BY <1>6, <1>7, <1>9, <1>10, <1>13 DEF CInv

LEMMA ClientKeeps ==
    ASSUME FInv, CInv, ClientNext
    PROVE  CInv'
<1>1. CASE ReadPage
  BY <1>1, ReadPageKeeps
<1>2. CASE CheckCursor
  BY <1>2, CheckCursorKeeps
<1>3. CASE AnswerGone
  BY <1>3, AnswerGoneKeeps
<1>4. CASE ReadBoard
  BY <1>4, ReadBoardKeeps
<1>5. CASE ResyncHandled
  BY <1>5, ResyncHandledKeeps
<1>6. CASE Yield
  BY <1>6, YieldKeeps
<1>7. CASE Store
  BY <1>7, StoreKeeps
<1>8. CASE PageDone \/ Fail
  <2>1. EndRequest /\ UNCHANGED <<feed, role, cursor, seen, late>>
    BY <1>8 DEF PageDone, Fail, history
  <2>2. Passed'
    BY <2>1, FeedStill
  <2>3. /\ role' \in Roles /\ cursor' \in 0 .. MaxId /\ cursor' < next
        /\ seen' \in SUBSET Ids /\ late' \in SUBSET Ids
    BY <2>1 DEF CInv, ClientTyped, Below
  <2>4. QED
    BY <2>1, <2>2, <2>3, EndRequestKeeps
<1>9. CASE ChangeRole
  <2>1. /\ role' \in Roles
        /\ UNCHANGED <<feed, cursor, pc, after, ks, page, goOn, was, opened, seen, late>>
    BY <1>9 DEF ChangeRole, request, history
  <2>2. /\ UNCHANGED <<next, status, kind, known, floor, mark>>
        /\ Visible' = Visible /\ Pruned' = Pruned /\ Lost' = Lost
        /\ Open' = Open /\ Written' = Written
        /\ Passed'
    BY <2>1, FeedStill
  <2>3. ClientTyped' /\ Below' /\ HandledSeen' /\ Resuming'
    BY <2>1, <2>2 DEF CInv, ClientTyped, Below, HandledSeen, Left, Resuming, Resyncing
  <2>4. PageRead'
    BY <2>1, <2>2 DEF CInv, PageRead, Reading, PageRows, PageAges, Asked, First
  <2>5. PageIsComplete'
    BY <2>1, <2>2 DEF CInv, PageIsComplete, First
  <2>6. QED
    BY <2>2, <2>3, <2>4, <2>5 DEF CInv
<1>10. QED
  BY <1>1, <1>2, <1>3, <1>4, <1>5, <1>6, <1>7, <1>8, <1>9 DEF ClientNext

-----------------------------------------------------------------------------
(* The theorems.                                                            *)

LEMMA StepIsFeedStep ==
    ASSUME [Next]_vars
    PROVE  [FeedNext]_feed
BY DEF Next, vars, ClientNext, ReadPage, CheckCursor, AnswerGone, ReadBoard,
       ResyncHandled, Yield, Store, PageDone, Fail, ChangeRole

LEMMA InvariantKept ==
    ASSUME FInv, CInv, [Next]_vars
    PROVE  FInv' /\ CInv'
<1>1. [FeedNext]_feed
  BY StepIsFeedStep
<1>2. FInv'
  BY <1>1, FeedKeeps
<1>3. CASE UNCHANGED client
  BY <1>1, <1>2, <1>3, FeedStepKeeps
<1>4. CASE ClientNext
  BY <1>2, <1>4, ClientKeeps
<1>5. QED
  BY <1>2, <1>3, <1>4 DEF Next, vars

\* The two invariants hold in every reachable state.
THEOREM FeedInvariant == Spec => [](FInv /\ CInv)
<1>1. Init => FInv /\ CInv
  BY FeedStarts, ClientStarts DEF Init
<1>2. FInv /\ CInv /\ [Next]_vars => (FInv /\ CInv)'
  BY InvariantKept
<1>3. QED
  BY <1>1, <1>2, PTL DEF Spec

(***************************************************************************)
(* TypeOK: every variable of the feed and of its consumer keeps its range.   *)
(***************************************************************************)
THEOREM FeedTyped == Spec => []TypeOK
<1>1. FInv /\ CInv => TypeOK
  BY DEF FInv, CInv, ClientTyped, TypeOK
<1>2. QED
  BY <1>1, FeedInvariant, PTL

(***************************************************************************)
(* MarksCoverPruned: the mark of a kind has reached every row of that kind   *)
(* record_pruned deleted, and the floor every row deleted before it.         *)
(***************************************************************************)
THEOREM MarksCover == Spec => []MarksCoverPruned
<1>1. FInv /\ CInv => MarksCoverPruned
  BY DEF FInv
<1>2. QED
  BY <1>1, FeedInvariant, PTL

(***************************************************************************)
(* MarksNeverFall: record_pruned's GREATEST, under any number of overlapping *)
(* prune runs that commit in any order.                                     *)
(***************************************************************************)
THEOREM MarksRise == Spec => MarksNeverFall
<1> DEFINE Rise == \A k \in Kinds : mark'[k] >= mark[k]
<1>1. FInv /\ CInv /\ [Next]_vars => [Rise]_feed
  <2> SUFFICES ASSUME FInv, [Next]_vars PROVE Rise
    OBVIOUS
  <2>1. FInv' /\ \A k \in Kinds : mark[k] <= mark'[k]
    BY StepIsFeedStep, FeedKeeps, FeedGrows DEF Grows
  <2>2. \A k \in Kinds : mark[k] \in Nat /\ mark'[k] \in Nat
    BY <2>1, FeedAssumption DEF FInv, FeedTypeOK
  <2>3. QED
    BY <2>1, <2>2
<1>2. QED
  BY <1>1, FeedInvariant, PTL DEF Spec, MarksNeverFall

(***************************************************************************)
(* PageIsComplete: no prune before or during a request makes a page that is  *)
(* answered with 200 step over a row.                                       *)
(***************************************************************************)
THEOREM PagesAreComplete == Spec => []PageIsComplete
<1>1. FInv /\ CInv => PageIsComplete
  BY DEF CInv
<1>2. QED
  BY <1>1, FeedInvariant, PTL

(***************************************************************************)
(* OnlyLateRowsMissed: a consumer with the client package's loop has handled *)
(* or seen all that it has passed, but for the rows whose transaction was    *)
(* open then, through crashes, failed requests, prunes and 410s.             *)
(***************************************************************************)
THEOREM OnlyLateRowsAreMissed == Spec => []OnlyLateRowsMissed
<1>1. FInv /\ CInv => OnlyLateRowsMissed
  BY DEF CInv, Passed, ForAll, OnlyLateRowsMissed
<1>2. QED
  BY <1>1, FeedInvariant, PTL

\* A cursor that reaches what is recorded is not expired.
LEMMA GivenCursorHolds ==
    ASSUME FInv, CInv, AnswerGone, NEW r \in Roles, NEW rowsFollow \in BOOLEAN
    PROVE  ~EventsCursorExpired(goOn, r, rowsFollow)'
<1>1. /\ goOn' \in 0 .. MaxId
      /\ goOn <= goOn' /\ PrunedThrough <= goOn'
      /\ goOn' = goOn \/ goOn' = PrunedThrough
  BY AnswerFact
<1>2. /\ UNCHANGED <<next, status, kind, known, floor, mark>>
      /\ Visible' = Visible /\ PrunedThrough' = PrunedThrough
  BY FeedStill DEF AnswerGone
<1>3. FeedTypeOK /\ r \in SUBSET Kinds /\ MaxId \in Nat
  BY FeedAssumption, ClientAssumption DEF FInv
<1>4. /\ Max({floor, MarkOf(r)}) \in 0 .. MaxId
      /\ Max({floor, MarkOf(r)}) <= PrunedThrough
      /\ PrunedThrough \in 0 .. MaxId
      /\ PrunedThrough = floor \/ PrunedThrough = 0 \/ \E k \in Kinds : PrunedThrough = mark[k]
      /\ \A k \in Kinds : mark[k] <= PrunedThrough
  BY <1>3, ThroughFact DEF PrunedThrough
<1>5. Max({floor, MarkOf(r)})' = Max({floor, MarkOf(r)})
  BY <1>2 DEF Max, MarkOf, Highest
<1>6. CASE known /\ goOn' <= PrunedThrough
  <2>1. ~(goOn' < Max({floor, MarkOf(r)}))
    BY <1>1, <1>3, <1>4
  <2>2. QED
    BY <1>2, <1>5, <1>6, <2>1 DEF EventsCursorExpired
<1>7. CASE ~(known /\ goOn' <= PrunedThrough)
  <2>1. goOn' \in Visible
    <3>1. goOn \in Visible \cup Pruned \/ (goOn = 0 /\ known)
      BY DEF AnswerGone, CInv, Resuming
    <3>2. CASE known
      <4>1. goOn' = goOn /\ goOn > PrunedThrough
        BY <1>1, <1>3, <1>4, <1>7, <3>2
      <4>2. goOn # 0
        BY <1>3, <1>4, <4>1
      <4>3. goOn \notin Pruned
        <5>1. ASSUME goOn \in Pruned PROVE FALSE
          <6>1. goOn \in Ids /\ goOn \in Nat /\ kind[goOn] \in Kinds
            BY <1>3, <5>1 DEF Pruned, Ids, FeedTypeOK
          <6>2. mark[kind[goOn]] >= goOn /\ mark[kind[goOn]] \in 0 .. MaxId
            BY <1>3, <5>1, <6>1 DEF FInv, MarksCoverPruned, FeedTypeOK
          <6>3. QED
            BY <1>3, <1>4, <4>1, <6>1, <6>2
        <5>2. QED
          BY <5>1
      <4>4. QED
        BY <3>1, <4>1, <4>2, <4>3
    <3>3. CASE ~known
      <4>1. goOn \in Visible
        BY <3>1, <3>3 DEF FInv, MarksCoverPruned
      <4>2. PrunedThrough = 0
        BY <1>4, <3>3 DEF FInv, Unmarked
      <4>3. goOn \in Nat /\ 0 < goOn
        BY <4>1 DEF Visible, Ids
      <4>4. goOn' = goOn
        BY <1>1, <4>2, <4>3
      <4>5. QED
        BY <4>1, <4>4
    <3>4. QED
      BY <3>2, <3>3
  <2>2. QED
    BY <1>2, <1>7, <2>1 DEF EventsCursorExpired
<1>8. QED
  BY <1>6, <1>7

(***************************************************************************)
(* NextCursorResumes: the next_cursor of a 410 is not expired when it is     *)
(* given, for a reader of any role.                                         *)
(***************************************************************************)
THEOREM NextCursorsResume == Spec => NextCursorResumes
<1> DEFINE Resumes == pc = "resume" /\ pc' = "gone" =>
             \A r \in Roles, rowsFollow \in BOOLEAN :
                 ~EventsCursorExpired(goOn, r, rowsFollow)'
<1>1. FInv /\ CInv /\ [Next]_vars => [Resumes]_vars
  <2> SUFFICES ASSUME FInv, CInv, Next, pc = "resume", pc' = "gone"
               PROVE  \A r \in Roles, rowsFollow \in BOOLEAN :
                          ~EventsCursorExpired(goOn, r, rowsFollow)'
    BY DEF vars
  <2>1. AnswerGone
    BY DEF Next, ClientNext, client, request, ReadPage, CheckCursor, ReadBoard, EndRequest,
           ResyncHandled, Yield, Store, PageDone, Fail, ChangeRole
  <2>2. QED
    BY <2>1, GivenCursorHolds
<1>2. QED
  BY <1>1, FeedInvariant, PTL DEF Spec, NextCursorResumes
=============================================================================
