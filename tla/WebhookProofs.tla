---------------------------- MODULE WebhookProofs ----------------------------
(***************************************************************************)
(* Proofs about the webhook dispatcher, for any number of runs, pruners,     *)
(* events, kinds and acts of the admins, whatever runs crash or outlast      *)
(* their lease and whatever becomes of the POSTs.                            *)
(***************************************************************************)
EXTENDS WebhookDispatch, ChangeFeedProofs

SubTyped ==
    /\ enabled \in BOOLEAN /\ cursor \in 0 .. MaxId /\ wants \in Typesets
    /\ config \in 0 .. MaxAdmin /\ standing \in BOOLEAN
    /\ failures \in 0 .. MaxFailures /\ waiting \in BOOLEAN
    /\ lease \in Dispatchers \cup {NoOne} /\ leaseOver \in BOOLEAN

RunsTyped ==
    /\ at \in [Dispatchers -> Stages]
    /\ mine \in [Dispatchers -> 0 .. MaxId] /\ pending \in [Dispatchers -> 0 .. MaxId]
    /\ types \in [Dispatchers -> SUBSET Readable]
    /\ conf \in [Dispatchers -> 0 .. MaxAdmin] /\ fit \in [Dispatchers -> BOOLEAN]
    /\ settled \in [Dispatchers -> SUBSET Ids] /\ page \in [Dispatchers -> SUBSET Ids]
    /\ short \in [Dispatchers -> BOOLEAN] /\ cut \in [Dispatchers -> 0 .. MaxId + 1]
    /\ streak \in [Dispatchers -> 0 .. MaxFailures]
    /\ posted \in [Dispatchers -> SUBSET Ids] /\ staleSends \in [Dispatchers -> Nat]

RestTyped ==
    /\ flying \in SUBSET Ids /\ got \in SUBSET Ids /\ excused \in SUBSET Ids
    /\ acts \in 0 .. MaxAdmin /\ crashes \in 0 .. MaxCrashes

\* Where a run is: its page lies ahead of it, and nothing it has passed lies
\* ahead of what resume_from: latest would give.
Positioned(d) ==
    /\ mine[d] <= pending[d] /\ pending[d] <= ResumeCursor
    /\ page[d] \subseteq Visible \cup Pruned
    /\ \A i \in page[d] : pending[d] < i
    /\ at[d] \in {"idle", "read", "page"} => page[d] = {} /\ settled[d] = {}
    /\ at[d] \in {"page", "marks", "cut"} => pending[d] = mine[d]
    /\ at[d] \in {"send", "sent"} => page[d] # {}

\* A run that has sent a row under a configuration it had not read is past the
\* check of the next.
Configured(d) ==
    /\ conf[d] <= config
    /\ staleSends[d] = 0 \/ (staleSends[d] = 1 /\ config # conf[d])
    /\ at[d] \in {"idle", "read", "send"} => staleSends[d] = 0

HInv ==
    /\ SubTyped /\ RunsTyped /\ RestTyped
    /\ config <= acts /\ cursor <= ResumeCursor
    /\ \A d \in Dispatchers : Positioned(d) /\ Configured(d)

Same(e) ==
    /\ at'[e] = at[e] /\ mine'[e] = mine[e] /\ pending'[e] = pending[e]
    /\ types'[e] = types[e] /\ conf'[e] = conf[e] /\ fit'[e] = fit[e]
    /\ settled'[e] = settled[e] /\ page'[e] = page[e]
    /\ short'[e] = short[e] /\ cut'[e] = cut[e] /\ streak'[e] = streak[e]
    /\ posted'[e] = posted[e] /\ staleSends'[e] = staleSends[e]

\* What a run may do, and the other steps.
RunStep(d) == Lease(d) \/ Step(d) \/ OutOfTime(d) \/ Crash(d)
Around     == LeaseEnds \/ BackoffEnds \/ (\E i \in Ids : Arrive(i)) \/ Admin

LEMMA Numbers ==
    /\ MaxId \in Nat /\ MaxAdmin \in Nat /\ MaxFailures \in Nat \ {0}
    /\ MaxEvents \in Nat \ {0} /\ MaxCrashes \in Nat /\ SettleTime \in Nat
    /\ TxTime \in Nat /\ Skew \in Nat
    /\ Ids \subseteq Nat /\ NoOne \notin Dispatchers
BY FeedAssumption, DispatchAssumption DEF Ids

LEMMA HookSteps == HookNext <=> (\E d \in Dispatchers : RunStep(d)) \/ Around
BY DEF HookNext, RunStep, Around

LEMMA TurnOffFact ==
    ASSUME NEW d \in Dispatchers, SubTyped, TurnOffAs(d)
    PROVE  SubTyped' /\ UNCHANGED <<cursor, wants, config>>
<1>1. CASE TurnOff
  BY <1>1 DEF TurnOff, SubTyped
<1>2. CASE UNCHANGED sub
  BY <1>2 DEF sub, SubTyped
<1>3. QED
  BY <1>1, <1>2 DEF TurnOffAs

\* A run's step is its own, and leaves the feed as it is.
LEMMA OneRunMoves ==
    ASSUME RunsTyped, NEW d \in Dispatchers, RunStep(d)
    PROVE  /\ UNCHANGED feed
           /\ \A e \in Dispatchers \ {d} : Same(e)
<1> SUFFICES ASSUME NEW e \in Dispatchers \ {d} PROVE UNCHANGED feed /\ Same(e)
  <2>1. UNCHANGED feed
    BY DEF RunStep, Lease, Step, OutOfTime, Crash, Read, LostAccess, ReadPage, CheckMarks,
           Cut, Skip, Check, Post, Accepted, Refused, RecordFailure, GiveUp, PageDone,
           Flush, Finish
  <2>2. QED
    BY <2>1
<1> USE DEF RunsTyped, Same, Go, reading, run, net, ghosts
<1>1. CASE Lease(d) \/ OutOfTime(d)
  BY <1>1 DEF Lease, OutOfTime
<1>2. CASE Crash(d) \/ Finish(d)
  BY <1>2 DEF Crash, Finish, Forget
<1>3. CASE Read(d)
  BY <1>3 DEF Read
<1>4. CASE LostAccess(d) \/ CheckMarks(d) \/ Check(d) \/ GiveUp(d) \/ Flush(d)
  BY <1>4 DEF LostAccess, CheckMarks, Check, GiveUp, Flush
<1>5. CASE ReadPage(d)
  BY <1>5 DEF ReadPage
<1>6. CASE Cut(d)
  BY <1>6 DEF Cut
<1>7. CASE Skip(d)
  BY <1>7 DEF Skip
<1>8. CASE Post(d)
  BY <1>8 DEF Post
<1>9. CASE Accepted(d)
  BY <1>9 DEF Accepted
<1>10. CASE Refused(d) \/ RecordFailure(d) \/ PageDone(d)
  BY <1>10 DEF Refused, RecordFailure, PageDone
<1>11. QED
  BY <1>1, <1>2, <1>3, <1>4, <1>5, <1>6, <1>7, <1>8, <1>9, <1>10 DEF RunStep, Step

-----------------------------------------------------------------------------
(* Types.                                                                   *)

LEMMA PageFact ==
    ASSUME RunsTyped, NEW d \in Dispatchers, page[d] # {}
    PROVE  /\ Head(d) \in page[d] /\ Head(d) \in Ids /\ Head(d) \in 0 .. MaxId
           /\ \A i \in page[d] : Head(d) <= i
<1>1. page[d] \subseteq Ids /\ page[d] \in SUBSET Nat
  BY Numbers DEF RunsTyped
<1>2. QED
  BY <1>1, MinFact, Numbers DEF Head, Ids

LEMMA UnsettledFact ==
    ASSUME NEW d \in Dispatchers
    PROVE  /\ Unsettled(d) # {} => Min(Unsettled(d)) \in Unsettled(d)
           /\ \A i \in Unsettled(d) : Min(Unsettled(d)) <= i
           /\ Unsettled(d) \in SUBSET Ids
<1>1. Unsettled(d) \in SUBSET Nat /\ Unsettled(d) \in SUBSET Ids
  BY Numbers DEF Unsettled, Visible
<1>2. QED
  BY <1>1, MinFact

\* The newest settled row below the cut.
Tail(d) == Highest({i \in Visible \cap settled[d] : i < cut[d]})

LEMMA TailFact ==
    ASSUME NEW d \in Dispatchers
    PROVE  /\ Tail(d) \in 0 .. MaxId
           /\ Tail(d) = 0 \/ (Tail(d) \in Visible \cap settled[d] /\ Tail(d) < cut[d])
<1> DEFINE S == {i \in Visible \cap settled[d] : i < cut[d]}
<1>1. S \in SUBSET (0 .. MaxId)
  BY Numbers DEF Visible, Ids
<1>2. Highest(S) \in 0 .. MaxId /\ (Highest(S) \in S \/ Highest(S) = 0)
  <2> HIDE DEF S
  <2>1. QED
    BY <1>1, HighestFact
<1>3. QED
  BY <1>2 DEF Tail

LEMMA RunStepTyped ==
    ASSUME FInv, HInv, NEW d \in Dispatchers, RunStep(d)
    PROVE  SubTyped' /\ RunsTyped' /\ RestTyped'
<1>1. SubTyped /\ RunsTyped /\ RestTyped
  BY DEF HInv
<1>2. /\ MaxId \in Nat /\ 0 \in 0 .. MaxId /\ 0 \in 0 .. MaxAdmin /\ 0 \in 0 .. MaxFailures
      /\ 0 \in 0 .. MaxId + 1 /\ 0 \in Nat
  BY Numbers
<1>3. Written \in SUBSET Ids
  BY DEF Written, Visible, Pruned, Lost
<1> USE DEF Go, Stages
<1>4. CASE Lease(d)
  BY <1>1, <1>4 DEF Lease, SubTyped, RunsTyped, RestTyped, reading, net, ghosts
<1>5. CASE Read(d)
  <2>1. wants \in SUBSET Readable
    BY <1>1, DispatchAssumption DEF SubTyped
  <2>2. SubTyped' /\ RestTyped'
    BY <1>1, <1>5 DEF Read, SubTyped, RestTyped, sub, net, ghosts
  <2>3. RunsTyped'
    BY <1>1, <1>5, <2>1 DEF Read, SubTyped, RunsTyped, ghosts
  <2>4. QED
    BY <2>2, <2>3
<1>6. CASE LostAccess(d) \/ GiveUp(d)
  <2>1. SubTyped'
    BY <1>1, <1>6, TurnOffFact DEF LostAccess, GiveUp
  <2>2. RunsTyped' /\ RestTyped'
    BY <1>1, <1>6 DEF LostAccess, GiveUp, RunsTyped, RestTyped, reading, net, ghosts
  <2>3. QED
    BY <2>1, <2>2
<1>7. CASE ReadPage(d)
  <2>1. /\ UNCHANGED <<sub, mine, types, conf, fit, cut, pending, streak, flying, got,
                       acts, crashes, posted, staleSends>>
        /\ \E S \in SUBSET Ids : settled' = [settled EXCEPT ![d] = S]
        /\ \E P \in SUBSET Ids : page' = [page EXCEPT ![d] = P]
        /\ \E b \in BOOLEAN : short' = [short EXCEPT ![d] = b]
        /\ at' = [at EXCEPT ![d] = "marks"]
        /\ excused' \in SUBSET Ids
    <3>1. /\ \A S \in SUBSET Ids : First(S, MaxEvents) \in SUBSET Ids
          /\ \A i \in Open \cup Visible : i \in Ids
      BY DEF First, Open, Visible
    <3>2. \E S \in SUBSET Ids : settled' = [settled EXCEPT ![d] = S]
      BY <1>7, <3>1 DEF ReadPage
    <3>3. \E P \in SUBSET Ids : page' = [page EXCEPT ![d] = P]
      <4>1. {i \in Visible : i > mine[d] /\ kind[i] \in Readable /\ age[i] >= SettleTime}
               \in SUBSET Ids
        BY <3>1
      <4>2. QED
        BY <1>7, <3>1, <4>1 DEF ReadPage
    <3>4. \E b \in BOOLEAN : short' = [short EXCEPT ![d] = b]
      <4>1. (Cardinality(page'[d]) < MaxEvents) \in BOOLEAN
        OBVIOUS
      <4>2. short' = [short EXCEPT ![d] = Cardinality(page'[d]) < MaxEvents]
        BY <1>7 DEF ReadPage
      <4>3. QED
        BY <4>1, <4>2, Zenon
    <3>5. excused' \in SUBSET Ids
      BY <1>1, <1>3, <1>7 DEF ReadPage, RestTyped
    <3>6. QED
      BY <1>7, <3>2, <3>3, <3>4, <3>5 DEF ReadPage, net
  <2>2. SubTyped' /\ RestTyped'
    BY <1>1, <2>1 DEF SubTyped, RestTyped, sub
  <2>3. RunsTyped'
    BY <1>1, <2>1 DEF RunsTyped
  <2>4. QED
    BY <2>2, <2>3
<1>8. CASE CheckMarks(d)
  <2>1. SubTyped'
    BY <1>1, <1>8, TurnOffFact DEF CheckMarks, sub, SubTyped
  <2>2. RunsTyped' /\ RestTyped'
    BY <1>1, <1>8 DEF CheckMarks, RunsTyped, RestTyped, reading, net, ghosts
  <2>3. QED
    BY <2>1, <2>2
<1>9. CASE Cut(d)
  <2>1. \E c \in 0 .. MaxId + 1 : cut' = [cut EXCEPT ![d] = c]
    <3>1. Unsettled(d) # {} => Min(Unsettled(d)) \in Ids
      BY UnsettledFact
    <3>2. MaxId + 1 \in 0 .. MaxId + 1 /\ Ids \subseteq 0 .. MaxId + 1
      BY Numbers DEF Ids
    <3>3. QED
      BY <1>9, <3>1, <3>2 DEF Cut
  <2>2. /\ UNCHANGED <<sub, mine, types, conf, fit, settled, pending, streak, net, ghosts>>
        /\ \E P \in SUBSET Ids : page' = [page EXCEPT ![d] = P]
        /\ \E b \in BOOLEAN : short' = [short EXCEPT ![d] = b]
        /\ at' = [at EXCEPT ![d] = "row"]
    <3>1. \E P \in SUBSET Ids : page' = [page EXCEPT ![d] = P]
      <4>1. page[d] \in SUBSET Ids
        BY <1>1 DEF RunsTyped
      <4>2. {i \in page[d] : i < cut'[d]} \in SUBSET Ids
        BY <4>1
      <4>3. page' = [page EXCEPT ![d] = {i \in page[d] : i < cut'[d]}]
        BY <1>1, <1>9 DEF Cut, RunsTyped
      <4>4. QED
        BY <4>2, <4>3
    <3>2. \E b \in BOOLEAN : short' = [short EXCEPT ![d] = b]
      <4>1. (Cardinality(page'[d]) < MaxEvents) \in BOOLEAN
        OBVIOUS
      <4>2. short' = [short EXCEPT ![d] = Cardinality(page'[d]) < MaxEvents]
        BY <1>9 DEF Cut
      <4>3. QED
        BY <4>1, <4>2, Zenon
    <3>3. QED
      BY <1>9, <3>1, <3>2 DEF Cut
  <2>3. SubTyped' /\ RestTyped'
    BY <1>1, <2>2 DEF SubTyped, RestTyped, sub, net, ghosts
  <2>4. RunsTyped'
    BY <1>1, <2>1, <2>2 DEF RunsTyped, ghosts
  <2>5. QED
    BY <2>3, <2>4
<1>10. CASE Skip(d)
  <2>1. Head(d) \in 0 .. MaxId
    BY <1>1, <1>10, PageFact DEF Skip
  <2>2. SubTyped' /\ RestTyped'
    BY <1>1, <1>10 DEF Skip, SubTyped, RestTyped, sub, net, ghosts
  <2>3. RunsTyped'
    BY <1>1, <1>10, <2>1 DEF Skip, RunsTyped, ghosts
  <2>4. QED
    BY <2>2, <2>3
<1>11. CASE OutOfTime(d) \/ Check(d)
  BY <1>1, <1>11
  DEF OutOfTime, Check, SubTyped, RunsTyped, RestTyped, sub, reading, net, ghosts
<1>12. CASE Post(d)
  <2>1. Head(d) \in Ids
    BY <1>1, <1>12, PageFact DEF Post, HInv, Positioned
  <2>2. SubTyped' /\ RestTyped'
    BY <1>1, <1>12, <2>1 DEF Post, SubTyped, RestTyped, sub
  <2>3. \E n \in Nat : staleSends' = [staleSends EXCEPT ![d] = n]
    <3>1. staleSends[d] \in Nat /\ staleSends[d] + 1 \in Nat
      BY <1>1 DEF RunsTyped
    <3>2. QED
      BY <1>12, <3>1 DEF Post
  <2>4. \E P \in SUBSET Ids : posted' = [posted EXCEPT ![d] = P]
    BY <1>1, <1>12, <2>1 DEF Post, RunsTyped
  <2>5. RunsTyped'
    BY <1>1, <1>12, <2>3, <2>4 DEF Post, RunsTyped, reading
  <2>6. QED
    BY <2>2, <2>5
<1>13. CASE Accepted(d)
  <2>1. Head(d) \in 0 .. MaxId
    BY <1>1, <1>13, PageFact DEF Accepted, HInv, Positioned
  <2>2. SubTyped' /\ RestTyped'
    BY <1>1, <1>2, <1>13, <2>1 DEF Accepted, SubTyped, RestTyped, net, ghosts
  <2>3. CASE MayAdvance(d)
    BY <1>1, <1>13, <2>1, <2>2, <2>3 DEF Accepted, RunsTyped, ghosts
  <2>4. CASE ~MayAdvance(d)
    BY <1>1, <1>13, <2>2, <2>4 DEF Accepted, RunsTyped, ghosts
  <2>5. QED
    BY <2>3, <2>4
<1>14. CASE Refused(d)
  <2>1. pending[d] \in 0 .. MaxId /\ mine[d] \in 0 .. MaxId
    BY <1>1 DEF RunsTyped
  <2>2. /\ cursor' \in 0 .. MaxId
        /\ \E m \in 0 .. MaxId : mine' = [mine EXCEPT ![d] = m]
    BY <1>1, <1>14, <2>1 DEF Refused, SubTyped
  <2>3. \E n \in 0 .. MaxFailures : streak' = [streak EXCEPT ![d] = n]
    <3>1. (IF failures < MaxFailures THEN failures + 1 ELSE failures) \in 0 .. MaxFailures
      BY <1>1, Numbers DEF SubTyped
    <3>2. QED
      BY <1>14, <3>1 DEF Refused
  <2>4. SubTyped' /\ RestTyped'
    BY <1>1, <1>14, <2>2 DEF Refused, SubTyped, RestTyped, net, ghosts
  <2>5. RunsTyped'
    BY <1>1, <1>14, <2>2, <2>3 DEF Refused, RunsTyped, reading, ghosts
  <2>6. QED
    BY <2>4, <2>5
<1>15. CASE RecordFailure(d)
  <2>1. streak[d] \in 0 .. MaxFailures
    BY <1>1 DEF RunsTyped
  <2>2. SubTyped' /\ RestTyped'
    BY <1>1, <1>15, <2>1 DEF RecordFailure, SubTyped, RestTyped, net, ghosts
  <2>3. RunsTyped'
    BY <1>1, <1>15 DEF RecordFailure, RunsTyped, reading, ghosts
  <2>4. QED
    BY <2>2, <2>3
<1>16. CASE PageDone(d)
  <2>1. SubTyped' /\ RestTyped'
    BY <1>1, <1>16 DEF PageDone, SubTyped, RestTyped, sub, net, ghosts
  <2>2. Tail(d) \in 0 .. MaxId /\ pending[d] \in 0 .. MaxId
    BY <1>1, TailFact DEF RunsTyped
  <2>3. pending' = [pending EXCEPT ![d] =
                       IF short[d] /\ Tail(d) > pending[d] THEN Tail(d) ELSE pending[d]]
    BY <1>1, <1>16 DEF PageDone, Tail, RunsTyped
  <2>4. \E n \in 0 .. MaxId : pending' = [pending EXCEPT ![d] = n]
    BY <2>2, <2>3
  <2>5. RunsTyped'
    BY <1>1, <1>16, <2>4 DEF PageDone, RunsTyped, reading, ghosts
  <2>6. QED
    BY <2>1, <2>5
<1>17. CASE Flush(d)
  <2>1. pending[d] \in 0 .. MaxId
    BY <1>1 DEF RunsTyped
  <2>2. SubTyped' /\ RestTyped'
    BY <1>1, <1>17, <2>1 DEF Flush, SubTyped, RestTyped, net, ghosts
  <2>3. RunsTyped'
    BY <1>1, <1>17 DEF Flush, RunsTyped, reading, ghosts
  <2>4. QED
    BY <2>2, <2>3
<1>18. CASE Finish(d) \/ Crash(d)
  <2>1. Forget(d)
    BY <1>18 DEF Finish, Crash
  <2>2. RunsTyped'
    BY <1>1, <1>2, <2>1 DEF Forget, RunsTyped
  <2>3. SubTyped'
    BY <1>1, <1>18 DEF Finish, Crash, SubTyped, sub
  <2>4. RestTyped'
    <3>1. CASE Finish(d)
      BY <1>1, <3>1 DEF Finish, RestTyped, net
    <3>2. CASE Crash(d)
      BY <1>1, <3>2, Numbers DEF Crash, RestTyped, net
    <3>3. QED
      BY <1>18, <3>1, <3>2
  <2>5. QED
    BY <2>2, <2>3, <2>4
<1>19. QED
  BY <1>4, <1>5, <1>6, <1>7, <1>8, <1>9, <1>10, <1>11, <1>12, <1>13, <1>14, <1>15, <1>16,
     <1>17, <1>18
  DEF RunStep, Step

-----------------------------------------------------------------------------
(* Positions and configurations.                                            *)

LEMMA FeedStill ==
    ASSUME UNCHANGED feed
    PROVE  /\ Visible' = Visible /\ Open' = Open /\ Pruned' = Pruned /\ Lost' = Lost
           /\ Written' = Written /\ ResumeCursor' = ResumeCursor
           /\ UNCHANGED <<next, status, kind, age, since, known, floor, mark, batch>>
<1>1. UNCHANGED <<next, status, kind, age, since, known, floor, mark, batch>>
  BY DEF feed
<1>2. Visible' = Visible /\ Open' = Open /\ Pruned' = Pruned /\ Lost' = Lost
  BY <1>1 DEF Visible, Open, Pruned, Lost
<1>3. Written' = Written /\ ResumeCursor' = ResumeCursor
  BY <1>1, <1>2 DEF Written, ResumeCursor, NewestEventId, PrunedThrough, MarkOf
<1>4. QED
  BY <1>1, <1>2, <1>3

LEMMA SameKeeps ==
    ASSUME NEW e \in Dispatchers, Same(e), RunsTyped, config \in Nat, config' \in Nat,
           ResumeCursor \in Nat, ResumeCursor' \in Nat,
           config <= config', ResumeCursor <= ResumeCursor',
           Visible \cup Pruned \subseteq Visible' \cup Pruned',
           Positioned(e), Configured(e)
    PROVE  Positioned(e)' /\ Configured(e)'
<1>1. /\ pending[e] \in Nat /\ mine[e] \in Nat /\ conf[e] \in Nat
  BY Numbers DEF RunsTyped
<1>2. Positioned(e)'
  BY <1>1 DEF Same, Positioned
<1>3. Configured(e)'
  BY <1>1 DEF Same, Configured
<1>4. QED
  BY <1>2, <1>3

\* By what a run writes the cursor goes forward only.
LEMMA RunStepPlaced ==
    ASSUME FInv, HInv, NEW d \in Dispatchers, RunStep(d)
    PROVE  /\ cursor <= cursor' /\ cursor' <= ResumeCursor
           /\ UNCHANGED <<config, acts>>
           /\ Positioned(d)'
<1>1. SubTyped /\ RunsTyped /\ RestTyped /\ Positioned(d) /\ cursor <= ResumeCursor
  BY DEF HInv
<1>2. /\ cursor \in Nat /\ mine[d] \in Nat /\ pending[d] \in Nat /\ page[d] \subseteq Ids
      /\ Ids \subseteq Nat
  BY <1>1, Numbers DEF SubTyped, RunsTyped
<1>3. /\ ResumeCursor \in Nat
      /\ \A i \in Visible \cup Pruned : i <= ResumeCursor
      /\ UNCHANGED <<ResumeCursor, Visible, Pruned>>
  BY <1>1, OneRunMoves, FeedStill, ResumeFact, Numbers DEF ResumeSound
<1>4. /\ mine[d] <= pending[d] /\ pending[d] <= ResumeCursor
      /\ page[d] \subseteq Visible \cup Pruned
      /\ \A i \in page[d] : pending[d] < i
      /\ at[d] \in {"idle", "read", "page"} => page[d] = {} /\ settled[d] = {}
      /\ at[d] \in {"page", "marks", "cut"} => pending[d] = mine[d]
      /\ at[d] \in {"send", "sent"} => page[d] # {}
  BY <1>1 DEF Positioned
<1>5. ASSUME page[d] # {}
      PROVE  /\ Head(d) \in page[d] /\ Head(d) \in Nat /\ Head(d) <= ResumeCursor
             /\ pending[d] < Head(d) /\ mine[d] < Head(d)
             /\ \A i \in page[d] \ {Head(d)} : Head(d) < i
  <2>1. Head(d) \in page[d] /\ Head(d) \in Ids /\ \A i \in page[d] : Head(d) <= i
    BY <1>1, <1>5, PageFact
  <2>2. Head(d) \in Nat /\ Head(d) <= ResumeCursor /\ pending[d] < Head(d)
    BY <1>2, <1>3, <1>4, <2>1
  <2>3. mine[d] < Head(d)
    BY <1>2, <1>4, <2>2
  <2>4. ASSUME NEW i \in page[d] \ {Head(d)} PROVE Head(d) < i
    <3>1. i \in Nat /\ Head(d) <= i /\ i # Head(d)
      BY <1>2, <2>1
    <3>2. QED
      BY <2>2, <3>1
  <2>5. QED
    BY <2>1, <2>2, <2>3, <2>4
<1> USE DEF Go
<1>6. CASE Lease(d) \/ LostAccess(d) \/ CheckMarks(d) \/ OutOfTime(d) \/ Check(d)
            \/ RecordFailure(d) \/ GiveUp(d)
  <2>1. UNCHANGED <<cursor, config, acts, mine, pending, page, settled>>
    BY <1>1, <1>6, TurnOffFact
    DEF Lease, LostAccess, CheckMarks, OutOfTime, Check, RecordFailure, GiveUp, reading,
        sub, ghosts
  <2>2. /\ at'[d] \in {"read", "end", "cut", "flush", "send", "last"}
        /\ at'[d] = "read" => at[d] = "idle"
        /\ at'[d] = "cut" => at[d] = "marks"
        /\ at'[d] = "send" => page[d] # {}
    BY <1>1, <1>6
    DEF RunsTyped, Lease, LostAccess, CheckMarks, OutOfTime, Check, RecordFailure, GiveUp
  <2>3. QED
    BY <1>1, <1>2, <1>3, <1>4, <2>1, <2>2 DEF Positioned
<1>7. CASE Read(d)
  <2>1. UNCHANGED <<cursor, config, acts, page, settled>> /\ at[d] = "read"
    BY <1>7 DEF Read, sub, ghosts
  <2>2. at'[d] = "page" /\ mine'[d] = cursor /\ pending'[d] = cursor
    BY <1>1, <1>7 DEF Read, RunsTyped
  <2>3. QED
    BY <1>1, <1>2, <1>3, <1>4, <2>1, <2>2 DEF Positioned
<1>8. CASE ReadPage(d)
  <2>1. UNCHANGED <<cursor, config, acts, mine, pending>> /\ at[d] = "page"
    BY <1>8 DEF ReadPage, sub
  <2>2. at'[d] = "marks" /\ page'[d] \subseteq {i \in Visible : i > mine[d]}
    BY <1>1, <1>8 DEF ReadPage, RunsTyped, First
  <2>3. QED
    BY <1>1, <1>2, <1>3, <1>4, <2>1, <2>2 DEF Positioned
<1>9. CASE Cut(d)
  <2>1. UNCHANGED <<cursor, config, acts, mine, pending>>
    BY <1>9 DEF Cut, sub, ghosts
  <2>2. at'[d] = "row" /\ page'[d] \subseteq page[d]
    BY <1>1, <1>9 DEF Cut, RunsTyped
  <2>3. QED
    BY <1>1, <1>2, <1>3, <1>4, <2>1, <2>2 DEF Positioned
<1>10. CASE Skip(d)
  <2>1. UNCHANGED <<cursor, config, acts, at, mine>> /\ at[d] = "row" /\ page[d] # {}
    BY <1>10 DEF Skip, sub, ghosts
  <2>2. pending'[d] = Head(d) /\ page'[d] = page[d] \ {Head(d)}
    BY <1>1, <1>10 DEF Skip, RunsTyped
  <2>3. QED
    BY <1>1, <1>2, <1>3, <1>4, <1>5, <2>1, <2>2 DEF Positioned
<1>11. CASE Post(d)
  <2>1. UNCHANGED <<cursor, config, acts, mine, pending, page>> /\ at[d] = "send"
    BY <1>11 DEF Post, sub, reading
  <2>2. at'[d] = "sent"
    BY <1>1, <1>11 DEF Post, RunsTyped
  <2>3. QED
    BY <1>1, <1>2, <1>3, <1>4, <2>1, <2>2 DEF Positioned
<1>12. CASE Accepted(d)
  <2>1. UNCHANGED <<config, acts>> /\ page[d] # {}
    BY <1>4, <1>12 DEF Accepted, ghosts
  <2>2. CASE MayAdvance(d)
    <3>1. cursor = mine[d] /\ cursor' = Head(d)
      BY <1>12, <2>2 DEF Accepted, MayAdvance
    <3>2. /\ at'[d] = "row" /\ mine'[d] = Head(d) /\ pending'[d] = Head(d)
          /\ page'[d] = page[d] \ {Head(d)}
      BY <1>1, <1>12, <2>2 DEF Accepted, RunsTyped
    <3>3. QED
      BY <1>2, <1>3, <1>4, <1>5, <2>1, <3>1, <3>2 DEF Positioned
  <2>3. CASE ~MayAdvance(d)
    <3>1. UNCHANGED <<cursor, mine, pending, page>>
      BY <1>12, <2>3 DEF Accepted
    <3>2. at'[d] = "end"
      BY <1>1, <1>12, <2>3 DEF Accepted, RunsTyped
    <3>3. QED
      BY <1>1, <1>2, <1>3, <1>4, <2>1, <3>1, <3>2 DEF Positioned
  <2>4. QED
    BY <2>2, <2>3
<1>13. CASE Refused(d)
  <2>1. UNCHANGED <<config, acts, pending, page>>
    BY <1>13 DEF Refused, ghosts, reading
  <2>2. \/ cursor = mine[d] /\ cursor' = pending[d] /\ mine'[d] = pending[d]
        \/ cursor' = cursor /\ mine'[d] = mine[d]
    BY <1>1, <1>13 DEF Refused, RunsTyped, MayAdvance
  <2>3. at'[d] = "failed"
    BY <1>1, <1>13 DEF Refused, RunsTyped
  <2>4. QED
    BY <1>1, <1>2, <1>3, <1>4, <2>1, <2>2, <2>3 DEF Positioned
<1>14. CASE PageDone(d)
  <2>1. UNCHANGED <<cursor, config, acts, mine, page>> /\ page[d] = {}
    BY <1>14 DEF PageDone, sub, ghosts, reading
  <2>2. at'[d] = "flush"
    BY <1>1, <1>14 DEF PageDone, RunsTyped
  <2>3. pending'[d] = IF short[d] /\ Tail(d) > pending[d] THEN Tail(d) ELSE pending[d]
    BY <1>1, <1>14 DEF PageDone, RunsTyped, Tail
  <2>4. Tail(d) \in Nat /\ (Tail(d) = 0 \/ Tail(d) \in Visible)
    BY TailFact, Numbers
  <2>5. pending[d] <= pending'[d] /\ pending'[d] <= ResumeCursor
    BY <1>2, <1>3, <1>4, <2>3, <2>4
  <2>6. pending'[d] \in Nat
    BY <1>2, <2>3, <2>4
  <2>7. QED
    BY <1>1, <1>2, <1>3, <1>4, <2>1, <2>2, <2>5, <2>6 DEF Positioned
<1>15. CASE Flush(d)
  <2>1. UNCHANGED <<config, acts, mine, pending, page>>
    BY <1>15 DEF Flush, ghosts, reading
  <2>2. (cursor = mine[d] /\ cursor' = pending[d]) \/ cursor' = cursor
    BY <1>15 DEF Flush, MayAdvance
  <2>3. at'[d] = "end"
    BY <1>1, <1>15 DEF Flush, RunsTyped
  <2>4. QED
    BY <1>1, <1>2, <1>3, <1>4, <2>1, <2>2, <2>3 DEF Positioned
<1>16. CASE Finish(d) \/ Crash(d)
  <2>1. UNCHANGED <<cursor, config, acts>> /\ Forget(d)
    BY <1>16 DEF Finish, Crash, sub
  <2>2. /\ at'[d] = "idle" /\ mine'[d] = 0 /\ pending'[d] = 0 /\ page'[d] = {}
        /\ settled'[d] = {}
    BY <1>1, <2>1 DEF Forget, RunsTyped
  <2>3. QED
    BY <1>1, <1>2, <1>3, <2>1, <2>2 DEF Positioned
<1>17. QED
  BY <1>6, <1>7, <1>8, <1>9, <1>10, <1>11, <1>12, <1>13, <1>14, <1>15, <1>16
  DEF RunStep, Step

LEMMA RunStepConfigured ==
    ASSUME HInv, NEW d \in Dispatchers, RunStep(d)
    PROVE  Configured(d)'
<1>1. SubTyped /\ RunsTyped /\ RestTyped /\ Configured(d)
  BY DEF HInv
<1>2. /\ conf[d] <= config /\ conf[d] \in Nat /\ config \in Nat
      /\ staleSends[d] = 0 \/ (staleSends[d] = 1 /\ config # conf[d])
      /\ at[d] \in {"idle", "read", "send"} => staleSends[d] = 0
  BY <1>1, Numbers DEF SubTyped, RunsTyped, Configured
<1> USE DEF Go
<1>3. CASE Lease(d)
  <2>1. UNCHANGED <<config, conf, staleSends>> /\ at[d] = "idle"
    BY <1>3 DEF Lease, reading, ghosts
  <2>2. QED
    BY <1>2, <2>1 DEF Configured
<1>4. CASE Read(d)
  <2>1. UNCHANGED <<config, staleSends>> /\ at[d] = "read"
    BY <1>4 DEF Read, sub, ghosts
  <2>2. conf'[d] = config
    BY <1>1, <1>4 DEF Read, RunsTyped
  <2>3. QED
    BY <1>2, <2>1, <2>2 DEF Configured
<1>5. CASE Check(d)
  <2>1. UNCHANGED <<config, conf, staleSends>>
    BY <1>5 DEF Check, sub, reading, ghosts
  <2>2. at'[d] = "flush" \/ (at'[d] = "send" /\ config = conf[d])
    BY <1>1, <1>5 DEF Check, RunsTyped, StillConfiguredAsRead
  <2>3. QED
    BY <1>2, <2>1, <2>2 DEF Configured
<1>6. CASE Post(d)
  <2>1. UNCHANGED <<config, conf>> /\ at[d] = "send"
    BY <1>6 DEF Post, sub, reading
  <2>2. /\ at'[d] = "sent"
        /\ staleSends'[d] = IF config # conf[d] THEN staleSends[d] + 1 ELSE staleSends[d]
    BY <1>1, <1>6 DEF Post, RunsTyped
  <2>3. QED
    BY <1>2, <2>1, <2>2 DEF Configured
<1>7. CASE \/ LostAccess(d) \/ ReadPage(d) \/ CheckMarks(d) \/ Cut(d) \/ Skip(d)
           \/ Accepted(d) \/ Refused(d) \/ RecordFailure(d) \/ GiveUp(d) \/ PageDone(d)
           \/ Flush(d) \/ OutOfTime(d)
  <2>1. UNCHANGED <<conf, staleSends>>
    BY <1>7
    DEF LostAccess, ReadPage, CheckMarks, Cut, Skip, Accepted, Refused, RecordFailure,
        GiveUp, PageDone, Flush, OutOfTime, reading, ghosts
  <2>2. UNCHANGED config
    BY <1>1, <1>7, TurnOffFact
    DEF LostAccess, ReadPage, CheckMarks, Cut, Skip, Accepted, Refused, RecordFailure,
        GiveUp, PageDone, Flush, OutOfTime, sub
  <2>3. at'[d] \notin {"idle", "read", "send"}
    BY <1>1, <1>7
    DEF LostAccess, ReadPage, CheckMarks, Cut, Skip, Accepted, Refused, RecordFailure,
        GiveUp, PageDone, Flush, OutOfTime, RunsTyped
  <2>4. QED
    BY <1>2, <2>1, <2>2, <2>3 DEF Configured
<1>8. CASE Finish(d) \/ Crash(d)
  <2>1. UNCHANGED config /\ Forget(d)
    BY <1>8 DEF Finish, Crash, sub
  <2>2. conf'[d] = 0 /\ staleSends'[d] = 0
    BY <1>1, <2>1 DEF Forget, RunsTyped
  <2>3. QED
    BY <1>2, <2>1, <2>2 DEF Configured
<1>9. QED
  BY <1>3, <1>4, <1>5, <1>6, <1>7, <1>8 DEF RunStep, Step

\* The network and the admins.
LEMMA AroundKeeps ==
    ASSUME FInv, HInv, Around
    PROVE  HInv' /\ cursor <= cursor' /\ UNCHANGED <<feed, run, posted, staleSends>>
<1>1. SubTyped /\ RunsTyped /\ RestTyped /\ config <= acts /\ cursor <= ResumeCursor
  BY DEF HInv
<1>2. /\ ResumeCursor \in 0 .. MaxId /\ cursor \in 0 .. MaxId
      /\ config \in 0 .. MaxAdmin /\ acts \in 0 .. MaxAdmin /\ MaxAdmin \in Nat /\ MaxId \in Nat
      /\ 0 \in 0 .. MaxFailures
  BY <1>1, ResumeFact, Numbers DEF ResumeSound, SubTyped, RestTyped
<1>3. UNCHANGED <<feed, run, posted, staleSends>>
  BY DEF Around, LeaseEnds, BackoffEnds, Arrive, Admin, Act, Reconfigure, SetTypes, Disable,
         Reenable, LoseStanding, ghosts
<1>4. RunsTyped' /\ \A e \in Dispatchers : Same(e)
  BY <1>1, <1>3 DEF RunsTyped, Same, run, reading
<1>5. /\ SubTyped' /\ RestTyped' /\ config' <= acts' /\ config <= config'
      /\ cursor <= cursor' /\ cursor' <= ResumeCursor
  <2>1. CASE LeaseEnds \/ BackoffEnds
    <3>1. /\ UNCHANGED <<enabled, cursor, wants, config, standing, failures, lease>>
          /\ UNCHANGED <<flying, got, acts, crashes, excused>>
          /\ waiting' \in BOOLEAN /\ leaseOver' \in BOOLEAN
      BY <1>1, <2>1 DEF LeaseEnds, BackoffEnds, SubTyped, net, ghosts
    <3>2. QED
      BY <1>1, <1>2, <3>1 DEF SubTyped, RestTyped
  <2>2. ASSUME NEW i \in Ids, Arrive(i)
        PROVE  /\ SubTyped' /\ RestTyped' /\ config' <= acts' /\ config <= config'
               /\ cursor <= cursor' /\ cursor' <= ResumeCursor
    BY <1>1, <1>2, <2>2 DEF Arrive, SubTyped, RestTyped, sub, ghosts
  <2>3. CASE Admin
    <3>1. /\ acts' = acts + 1 /\ acts < MaxAdmin /\ UNCHANGED <<flying, got, crashes>>
      BY <2>3 DEF Admin, Act, Reconfigure, SetTypes, Disable, Reenable, LoseStanding, net
    <3>2. acts' \in 0 .. MaxAdmin
      BY <1>2, <3>1
    <3>3. (1 .. next - 1) \in SUBSET Ids
      <4>1. next \in 1 .. MaxId + 1
        BY DEF FInv, FeedTypeOK
      <4>2. QED
        BY <1>2, <4>1 DEF Ids
    <3>4. excused' \in SUBSET Ids
      <4>1. \/ UNCHANGED excused \/ excused' = excused \cup (1 .. next - 1)
            \/ \E ks \in Typesets :
                  excused' = excused \cup {i \in Written : kind[i] \notin wants \cap ks}
        BY <2>3 DEF Admin, Reconfigure, SetTypes, Disable, Reenable, LoseStanding
      <4>2. Written \in SUBSET Ids
        BY DEF Written, Visible, Pruned, Lost
      <4>3. QED
        BY <1>1, <3>3, <4>1, <4>2 DEF RestTyped
    <3>5. RestTyped'
      BY <1>1, <3>1, <3>2, <3>4 DEF RestTyped
    <3>6. cursor' \in {cursor, ResumeCursor} /\ config' \in {config, config + 1}
      BY <2>3 DEF Admin, Reconfigure, SetTypes, Disable, Reenable, LoseStanding, TurnOff
    <3>7. config' <= acts' /\ config <= config' /\ config' \in 0 .. MaxAdmin
      BY <1>1, <1>2, <3>1, <3>2, <3>6
    <3>8. cursor <= cursor' /\ cursor' <= ResumeCursor /\ cursor' \in 0 .. MaxId
      BY <1>1, <1>2, <3>6
    <3>9. SubTyped'
      <4>1. /\ enabled' \in BOOLEAN /\ wants' \in Typesets /\ standing' \in BOOLEAN
            /\ failures' \in 0 .. MaxFailures /\ waiting' \in BOOLEAN
            /\ lease' \in Dispatchers \cup {NoOne} /\ leaseOver' \in BOOLEAN
        BY <1>1, <1>2, <2>3
        DEF Admin, Reconfigure, SetTypes, Disable, Reenable, LoseStanding, TurnOff, SubTyped
      <4>2. QED
        BY <3>7, <3>8, <4>1 DEF SubTyped
    <3>10. QED
      BY <3>5, <3>7, <3>8, <3>9
  <2>4. QED
    BY <2>1, <2>2, <2>3 DEF Around
<1>6. UNCHANGED <<ResumeCursor, Visible, Pruned>>
  BY <1>3, FeedStill
<1>7. ASSUME NEW e \in Dispatchers PROVE Positioned(e)' /\ Configured(e)'
  <2>1. config \in Nat /\ config' \in Nat /\ ResumeCursor \in Nat /\ ResumeCursor' \in Nat
    BY <1>2, <1>5, <1>6, Numbers DEF SubTyped
  <2>2. Positioned(e) /\ Configured(e)
    BY DEF HInv
  <2>3. ResumeCursor <= ResumeCursor' /\ Visible \cup Pruned \subseteq Visible' \cup Pruned'
    BY <1>2, <1>6
  <2>4. QED
    BY <1>1, <1>4, <1>5, <2>1, <2>2, <2>3, SameKeeps
<1>8. QED
  BY <1>3, <1>4, <1>5, <1>6, <1>7 DEF HInv

LEMMA HookStarts == Init => HInv
<1> SUFFICES ASSUME Init PROVE HInv
  OBVIOUS
<1>1. FInv /\ ResumeCursor \in 0 .. MaxId
  BY FeedStarts, ResumeFact DEF Init, ResumeSound
<1>2. 0 \in 0 .. MaxId /\ 0 <= ResumeCursor /\ 0 \in 0 .. MaxAdmin /\ 0 \in 0 .. MaxFailures
      /\ 0 \in 0 .. MaxCrashes /\ 0 \in 0 .. MaxId + 1
  BY <1>1, Numbers
<1>3. SubTyped
  BY <1>1, <1>2 DEF Init, SubTyped
<1>4. RunsTyped
  BY <1>2 DEF Init, RunsTyped, Stages
<1>5. RestTyped
  BY <1>2 DEF Init, RestTyped, Lost
<1>6. config <= acts /\ cursor <= ResumeCursor
  BY <1>1 DEF Init
<1>7. \A d \in Dispatchers : Positioned(d) /\ Configured(d)
  BY <1>2 DEF Init, Positioned, Configured
<1>8. QED
  BY <1>3, <1>4, <1>5, <1>6, <1>7 DEF HInv

LEMMA HookKeeps ==
    ASSUME FInv, HInv, [Next]_vars
    PROVE  HInv' /\ cursor <= cursor' /\ [FeedNext]_feed
<1>1. ASSUME NEW d \in Dispatchers, RunStep(d)
      PROVE  HInv' /\ cursor <= cursor' /\ [FeedNext]_feed
  <2>1. /\ cursor <= cursor' /\ cursor' <= ResumeCursor
        /\ UNCHANGED <<config, acts>> /\ Positioned(d)' /\ Configured(d)'
    BY <1>1, RunStepPlaced, RunStepConfigured
  <2>2. SubTyped' /\ RunsTyped' /\ RestTyped'
    BY <1>1, RunStepTyped
  <2>3. UNCHANGED <<feed, ResumeCursor, Visible, Pruned>>
        /\ \A e \in Dispatchers \ {d} : Same(e)
    BY <1>1, OneRunMoves, FeedStill DEF HInv
  <2>4. ASSUME NEW e \in Dispatchers \ {d} PROVE Positioned(e)' /\ Configured(e)'
    <3>1. config \in Nat /\ ResumeCursor \in Nat
      BY ResumeFact, Numbers DEF HInv, SubTyped, ResumeSound
    <3>2. Same(e) /\ RunsTyped /\ Positioned(e) /\ Configured(e)
      BY <2>3 DEF HInv
    <3>3. QED
      BY <2>1, <2>3, <3>1, <3>2, SameKeeps
  <2>5. config' <= acts'
    BY <2>1 DEF HInv
  <2>6. QED
    BY <2>1, <2>2, <2>3, <2>4, <2>5 DEF HInv
<1>2. CASE Around
  BY <1>2, AroundKeeps
<1>3. ASSUME UNCHANGED hook, [FeedNext]_feed
      PROVE  HInv' /\ cursor <= cursor' /\ [FeedNext]_feed
  <2>1. Grows /\ ResumeCursor <= ResumeCursor' /\ FInv'
    BY <1>3, FeedGrows, ResumeRises, FeedKeeps
  <2>2. UNCHANGED <<sub, run, flying, got, acts, crashes, excused, posted, staleSends>>
    BY <1>3 DEF hook, net, ghosts
  <2>3. SubTyped' /\ RunsTyped' /\ RestTyped' /\ \A e \in Dispatchers : Same(e)
    <3>1. SubTyped'
      BY <2>2 DEF HInv, SubTyped, sub
    <3>2. RunsTyped' /\ \A e \in Dispatchers : Same(e)
      BY <2>2 DEF HInv, RunsTyped, Same, run, reading
    <3>3. RestTyped'
      BY <2>2 DEF HInv, RestTyped
    <3>4. QED
      BY <3>1, <3>2, <3>3
  <2>4. /\ config \in Nat /\ cursor \in Nat /\ ResumeCursor \in Nat /\ ResumeCursor' \in Nat
        /\ config' = config /\ acts' = acts /\ cursor' = cursor
    BY <2>1, <2>2, ResumeFact, ResumeFactNext, Numbers DEF HInv, SubTyped, ResumeSound, sub
  <2>5. ASSUME NEW e \in Dispatchers PROVE Positioned(e)' /\ Configured(e)'
    <3>1. Same(e) /\ RunsTyped /\ Positioned(e) /\ Configured(e)
      BY <2>3 DEF HInv
    <3>2. Visible \cup Pruned \subseteq Visible' \cup Pruned' /\ config <= config'
      BY <2>1, <2>4 DEF Grows
    <3>3. QED
      BY <2>1, <2>4, <3>1, <3>2, SameKeeps
  <2>6. config' <= acts' /\ cursor' <= ResumeCursor' /\ cursor <= cursor'
    BY <2>1, <2>4 DEF HInv
  <2>7. QED
    BY <1>3, <2>3, <2>5, <2>6 DEF HInv
<1>4. QED
  <2>1. CASE UNCHANGED vars
    BY <1>3, <2>1 DEF vars
  <2>2. CASE FeedNext /\ UNCHANGED hook
    BY <1>3, <2>2
  <2>3. CASE HookNext
    BY <1>1, <1>2, <2>3, HookSteps
  <2>4. QED
    BY <2>1, <2>2, <2>3 DEF Next

LEMMA SharpKeeps ==
    ASSUME FInv, MarksExact, OpenAged, [FeedNext]_feed
    PROVE  MarksExact' /\ OpenAged'
BY MarksExactKept, OpenAgedKept

-----------------------------------------------------------------------------
(* The theorems.                                                            *)

\* The invariants of the feed and of the subscription hold in every reachable
\* state.
THEOREM DispatchInvariant == Spec => [](FInv /\ HInv /\ MarksExact /\ OpenAged)
<1>1. Init => FInv /\ HInv /\ MarksExact /\ OpenAged
  BY FeedStarts, SharpStarts, HookStarts DEF Init
<1>2. FInv /\ HInv /\ MarksExact /\ OpenAged /\ [Next]_vars
         => (FInv /\ HInv /\ MarksExact /\ OpenAged)'
  BY HookKeeps, FeedKeeps, SharpKeeps
<1>3. QED
  BY <1>1, <1>2, PTL DEF Spec

(***************************************************************************)
(* TypeOK: every variable of the feed, the subscription and its runs keeps   *)
(* its range.                                                               *)
(***************************************************************************)
THEOREM DispatchTyped == Spec => []TypeOK
<1>1. FInv /\ HInv => TypeOK
  BY DEF FInv, HInv, SubTyped, RunsTyped, RestTyped, TypeOK
<1>2. QED
  BY <1>1, DispatchInvariant, PTL

(***************************************************************************)
(* OneStaleSend: however many runs overlap, a run whose URL or secret was    *)
(* replaced sends no second row under the old one.                          *)
(***************************************************************************)
THEOREM OneSendIsStale == Spec => []OneStaleSend
<1>1. HInv => OneStaleSend
  BY DEF HInv, Configured, OneStaleSend
<1>2. QED
  BY <1>1, DispatchInvariant, PTL

(***************************************************************************)
(* CursorForward: the compare-and-set of _advance and resume_cursor never    *)
(* move the cursor back, whichever of two runs writes and whatever a prune   *)
(* has removed meanwhile.                                                   *)
(***************************************************************************)
THEOREM CursorGoesForward == Spec => CursorForward
<1>1. FInv /\ HInv /\ [Next]_vars => [cursor' >= cursor]_vars
  <2> SUFFICES ASSUME FInv, HInv, [Next]_vars PROVE cursor' >= cursor
    OBVIOUS
  <2>1. HInv' /\ cursor <= cursor'
    BY HookKeeps
  <2>2. cursor \in Nat /\ cursor' \in Nat
    BY <2>1, Numbers DEF HInv, SubTyped
  <2>3. QED
    BY <2>1, <2>2
<1>2. QED
  BY <1>1, DispatchInvariant, PTL DEF Spec, CursorForward

(***************************************************************************)
(* ExpiredExactly: a run that ends because cursor_expired says so has lost a *)
(* row of the types it sends, ahead of its cursor.                          *)
(***************************************************************************)
THEOREM ExpiresExactly == Spec => ExpiredExactly
<1> DEFINE Exact == \A d \in Dispatchers :
                       at[d] = "marks" /\ at'[d] = "end" =>
                          \E i \in Pruned : i > mine[d] /\ kind[i] \in types[d]
<1>1. FInv /\ HInv /\ MarksExact /\ [Next]_vars => [Exact]_vars
  <2> SUFFICES ASSUME FInv, HInv, MarksExact, [Next]_vars,
                      NEW d \in Dispatchers, at[d] = "marks", at'[d] = "end"
               PROVE  \E i \in Pruned : i > mine[d] /\ kind[i] \in types[d]
    OBVIOUS
  <2>1. RunsTyped /\ FeedTypeOK
    BY DEF HInv, FInv
  <2>2. CheckMarks(d)
    <3>1. ASSUME NEW e \in Dispatchers, RunStep(e) PROVE e = d
      BY <2>1, <3>1, OneRunMoves DEF Same
    <3>2. ASSUME Around PROVE FALSE
      BY <3>2, AroundKeeps DEF run
    <3>3. ~ UNCHANGED hook
      BY DEF hook, run
    <3>4. RunStep(d)
      BY <3>1, <3>2, <3>3, HookSteps DEF Next, vars
    <3>5. QED
      BY <3>4, <2>1
      DEF RunStep, Step, Lease, OutOfTime, Crash, Read, LostAccess, ReadPage, Cut, Skip,
          Check, Post, Accepted, Refused, RecordFailure, GiveUp, PageDone, Flush, Finish,
          RunsTyped, Go, Forget
  <2>3. CursorExpired(mine[d], types[d])
    BY <2>1, <2>2 DEF CheckMarks, RunsTyped, Go
  <2>4. types[d] \subseteq Kinds /\ mine[d] \in Nat
    BY <2>1, DispatchAssumption, Numbers DEF RunsTyped
  <2>5. MarkOf(types[d]) > mine[d]
    BY <2>3 DEF CursorExpired
  <2>6. PICK k \in types[d] : MarkOf(types[d]) = mark[k]
    <3>1. MarkOf(types[d]) = 0 \/ \E k \in types[d] : MarkOf(types[d]) = mark[k]
      BY <2>1, <2>4, MarkFact
    <3>2. QED
      BY <2>4, <2>5, <3>1
  <2>7. mark[k] \in Pruned /\ kind[mark[k]] = k
    <3>1. mark[k] # 0
      BY <2>4, <2>5, <2>6
    <3>2. QED
      BY <2>4, <2>6, <3>1 DEF MarksExact
  <2>8. QED
    BY <2>5, <2>6, <2>7
<1>2. QED
  BY <1>1, DispatchInvariant, PTL DEF Spec, ExpiredExactly

-----------------------------------------------------------------------------
(* Delivery.                                                                *)

\* A transaction ends within the settle window, however its clock lags.
SettlesFirst == TxTime + Skew < SettleTime

\* A run looks for unsettled rows right after it has read its page: none of
\* those has come of age to be pruned.  The settle window is seconds, rows are
\* kept for days.
PruneWaits ==
    \A d \in Dispatchers : at[d] = "cut" =>
        \A i \in Pruned : i > mine[d] /\ kind[i] \in types[d] => i \in settled[d]

\* What the receiver has or will have to be sent.
Owed == (Open \cup Written) \ excused

Passed(x) == \A i \in Owed : i <= x => i \in got

Known == Lost \subseteq excused /\ got \cup flying \subseteq Visible \cup Pruned

\* The receiver lacks no row below one it has or that is under way to it.
InOrder == \A j \in got \cup flying, i \in Owed \ got : j <= i

\* No transaction is open below a settled row, and what is written below one and
\* is not of the run's types is not owed.
SettledRows(d) ==
    /\ settled[d] \subseteq Visible \cup Pruned /\ page[d] \subseteq settled[d]
    /\ \A j \in settled[d], i \in Open : j < i
    /\ \A j \in settled[d], i \in Written :
          i <= j /\ kind[i] \notin types[d] => i \in excused

\* The rows up to which a page is complete, before the cut and after it.
Reach(d)      == IF short[d] THEN settled[d] ELSE page[d]
ReachOfCut(d) == IF short[d] THEN {j \in settled[d] : j < cut[d]} ELSE page[d]

WholePage(d) ==
    at[d] \in {"marks", "cut"} =>
       /\ short[d] = (Cardinality(page[d]) < MaxEvents)
       /\ \A j \in Reach(d), i \in Owed : mine[d] < i /\ i <= j =>
             i \in page[d] \/ i \notin settled[d] \/ (at[d] = "marks" /\ i \in Pruned)

WholeCut(d) ==
    at[d] \in {"row", "send", "sent"} =>
       /\ \A i \in page[d] : i < cut[d]
       /\ \A j \in ReachOfCut(d), i \in Owed : pending[d] < i /\ i <= j => i \in page[d]

Delivering(d) == Passed(pending[d]) /\ SettledRows(d) /\ WholePage(d) /\ WholeCut(d)

DInv == /\ Known /\ InOrder /\ Passed(cursor)
        /\ \A d \in Dispatchers : Delivering(d)

\* A step that leaves the feed and takes nothing back.
Onward == UNCHANGED feed /\ excused \subseteq excused' /\ got \subseteq got'

LEMMA OnwardFact ==
    ASSUME Onward
    PROVE  /\ Owed' \subseteq Owed
           /\ UNCHANGED <<Visible, Open, Pruned, Lost, Written, kind>>
           /\ \A x : Passed(x) => \A i \in Owed' : i <= x => i \in got'
<1>1. UNCHANGED <<Visible, Open, Pruned, Lost, Written, kind>>
  BY FeedStill DEF Onward
<1>2. Owed' \subseteq Owed
  BY <1>1 DEF Owed, Onward
<1>3. QED
  BY <1>1, <1>2 DEF Passed, Onward

LEMMA SettledOnward ==
    ASSUME Onward, NEW e \in Dispatchers, SettledRows(e),
           types'[e] = types[e], settled'[e] = settled[e], page'[e] \subseteq page[e]
    PROVE  SettledRows(e)'
BY OnwardFact DEF SettledRows, Onward

LEMMA SameDelivers ==
    ASSUME Onward, NEW e \in Dispatchers, Same(e), Delivering(e)
    PROVE  Delivering(e)'
<1>1. /\ Owed' \subseteq Owed /\ Pruned' = Pruned
      /\ \A x : Passed(x) => \A i \in Owed' : i <= x => i \in got'
  BY OnwardFact
<1>2. SettledRows(e)'
  BY SettledOnward DEF Delivering, Same
<1>3. Passed(pending[e])'
  BY <1>1 DEF Delivering, Passed, Same
<1>4. WholePage(e)'
  BY <1>1 DEF Delivering, WholePage, Reach, Same
<1>5. WholeCut(e)'
  BY <1>1 DEF Delivering, WholeCut, ReachOfCut, Same
<1>6. QED
  BY <1>2, <1>3, <1>4, <1>5 DEF Delivering

\* What is owed below the next row of a page has been received.
LEMMA HeadIsNext ==
    ASSUME HInv, NEW d \in Dispatchers, Delivering(d), page[d] # {},
           at[d] \in {"row", "send", "sent"}
    PROVE  \A i \in Owed : i < Head(d) => i \in got
<1>1. /\ Head(d) \in page[d] /\ Head(d) \in Nat /\ pending[d] \in Nat
      /\ \A i \in page[d] : Head(d) <= i
  BY PageFact, Numbers DEF HInv, RunsTyped
<1>2. \A i \in Owed : i \in Nat
  BY Numbers DEF Owed, Open, Written, Visible, Pruned, Lost
<1>3. Head(d) \in ReachOfCut(d)
  BY <1>1 DEF Delivering, SettledRows, WholeCut, ReachOfCut
<1>4. ASSUME NEW i \in Owed, i < Head(d) PROVE i \in got
  <2>1. CASE i <= pending[d]
    BY <2>1 DEF Delivering, Passed
  <2>2. CASE ~(i <= pending[d])
    <3>1. pending[d] < i /\ i <= Head(d)
      BY <1>1, <1>2, <1>4, <2>2
    <3>2. i \in page[d]
      BY <1>3, <3>1 DEF Delivering, WholeCut
    <3>3. QED
      BY <1>1, <1>2, <1>4, <3>2
  <2>3. QED
    BY <2>1, <2>2
<1>5. QED
  BY <1>4

\* No row above an open one is settled.
LEMMA OpenIsYoung ==
    ASSUME SettlesFirst, FInv, OpenAged, NEW i \in Open, NEW j \in Open \cup Visible,
           i <= j, age[j] >= SettleTime
    PROVE  FALSE
<1>1. /\ i \in Ids /\ j \in Ids /\ since[i] \in Nat /\ age[j] \in Nat /\ age[i] \in Nat
      /\ i \in Nat /\ j \in Nat
  BY Numbers, FeedAssumption DEF FInv, FeedTypeOK, Open, Visible
<1>2. since[i] <= TxTime
  BY DEF FInv, Aged
<1>3. age[j] <= since[i] + Skew
  <2>1. CASE i = j
    BY <2>1 DEF OpenAged
  <2>2. CASE i < j
    BY <2>2 DEF FInv, Aged
  <2>3. QED
    BY <1>1, <2>1, <2>2
<1>4. QED
  BY <1>1, <1>2, <1>3, Numbers DEF SettlesFirst

LEMMA ReadPageDelivers ==
    ASSUME SettlesFirst, FInv, OpenAged, HInv, NEW d \in Dispatchers, Delivering(d), ReadPage(d)
    PROVE  Onward /\ Delivering(d)'
<1> DEFINE S == {i \in Visible : i > mine[d] /\ kind[i] \in Readable /\ age[i] >= SettleTime}
<1>1. RunsTyped /\ S \in SUBSET Ids /\ Written \subseteq Ids
  BY DEF HInv, Visible, Written, Pruned, Lost
<1>2. /\ settled'[d] = {i \in Open \cup Visible : age[i] >= SettleTime}
      /\ page'[d] = First(S, MaxEvents)
      /\ at'[d] = "marks" /\ UNCHANGED <<mine, pending, types, feed, got>>
      /\ excused' = excused \cup {i \in Written : kind[i] \notin types[d]}
  BY <1>1 DEF ReadPage, RunsTyped, Go, net
<1>3. short'[d] = (Cardinality(page'[d]) < MaxEvents)
  BY <1>1 DEF ReadPage, RunsTyped
<1>4. Onward
  BY <1>2 DEF Onward
<1>5. UNCHANGED <<Visible, Open, Pruned, Lost, Written, kind>> /\ Owed' \subseteq Owed
  BY <1>4, OnwardFact
<1>6. ASSUME NEW i \in Open, NEW j \in settled'[d] PROVE j \in Visible /\ j < i
  <2>1. j \in Open \cup Visible /\ age[j] >= SettleTime
    BY <1>2
  <2>2. i \in Nat /\ j \in Nat
    BY <2>1, Numbers DEF Open, Visible
  <2>3. ~(i <= j)
    BY <2>1, OpenIsYoung
  <2>4. ASSUME j \in Open PROVE FALSE
    BY <2>1, <2>2, <2>4, OpenIsYoung
  <2>5. QED
    BY <2>1, <2>2, <2>3, <2>4
<1>7. settled'[d] \subseteq Visible
  BY <1>2, <1>6
<1>8. SettledRows(d)'
  <2>1. page'[d] \subseteq settled'[d]
    <3>1. S \subseteq settled'[d]
      BY <1>2
    <3>2. First(S, MaxEvents) \subseteq S
      BY DEF First
    <3>3. QED
      BY <1>2, <3>1, <3>2
  <2>2. QED
    BY <1>2, <1>5, <1>6, <1>7, <2>1 DEF SettledRows
<1>9. Passed(pending[d])'
  BY <1>2, <1>4, OnwardFact DEF Delivering, Passed
<1>10. WholePage(d)'
  <2> SUFFICES ASSUME NEW j \in Reach(d)', NEW i \in Owed', mine[d] < i, i <= j,
                      i \in settled'[d]
               PROVE  i \in page'[d]
    BY <1>2, <1>3 DEF WholePage
  <2>1. i \in Visible /\ age[i] >= SettleTime /\ i \in Written /\ i \in Nat
    BY <1>1, <1>2, <1>7, Numbers DEF Written
  <2>2. kind[i] \in types[d]
    BY <1>2, <2>1 DEF Owed
  <2>3. i \in S
    BY <1>1, <2>1, <2>2, Numbers DEF RunsTyped
  <2> HIDE DEF S
  <2>4. CASE short'[d]
    BY <1>1, <1>2, <1>3, <2>3, <2>4, FirstAll, Numbers
  <2>5. CASE ~short'[d]
    <3>1. j \in First(S, MaxEvents)
      BY <1>2, <2>5 DEF Reach
    <3>2. MaxEvents \in Nat
      BY Numbers
    <3>3. i \in First(S, MaxEvents)
      BY <1>1, <2>3, <3>1, <3>2, FirstFact
    <3>4. QED
      BY <1>2, <3>3
  <2>6. QED
    BY <2>4, <2>5
<1>11. WholeCut(d)'
  BY <1>2 DEF WholeCut
<1>12. QED
  BY <1>4, <1>8, <1>9, <1>10, <1>11 DEF Delivering

\* The marks that the run finds at or below its cursor say that no row of its
\* page's range was pruned.
LEMMA CheckMarksDelivers ==
    ASSUME FInv, HInv, NEW d \in Dispatchers, Delivering(d), CheckMarks(d)
    PROVE  Onward /\ Delivering(d)'
<1>1. RunsTyped /\ FeedTypeOK /\ MarksCoverPruned
  BY DEF HInv, FInv
<1>2. /\ UNCHANGED <<feed, got, excused, mine, pending, types, settled, page, short>>
      /\ at[d] = "marks"
      /\ at'[d] = "end" \/ (at'[d] = "cut" /\ ~CursorExpired(mine[d], types[d]))
  BY <1>1 DEF CheckMarks, RunsTyped, Go, reading, net, ghosts
<1>3. Onward
  BY <1>2 DEF Onward
<1>4. UNCHANGED <<Visible, Open, Pruned, Lost, Written, kind, Owed>>
  BY <1>2, <1>3, OnwardFact DEF Owed
<1>5. SettledRows(d)' /\ Passed(pending[d])' /\ WholeCut(d)'
  BY <1>2, <1>3, <1>4, SettledOnward DEF Delivering, Passed, WholeCut
<1>6. WholePage(d)'
  <2> SUFFICES ASSUME at'[d] = "cut", NEW j \in Reach(d), NEW i \in Owed,
                      mine[d] < i, i <= j, i \in Pruned
               PROVE  i \in page[d] \/ i \notin settled[d]
    <3>1. short[d] = (Cardinality(page[d]) < MaxEvents)
      BY <1>2 DEF Delivering, WholePage
    <3>2. QED
      BY <1>2, <1>4, <3>1 DEF Delivering, WholePage, Reach
  <2>1. j \in settled[d]
    BY DEF Reach, Delivering, SettledRows
  <2>2. kind[i] \in types[d]
    BY <2>1 DEF Delivering, SettledRows, Owed, Written
  <2>3. types[d] \subseteq Kinds /\ mine[d] \in Nat /\ i \in Nat
    BY <1>1, DispatchAssumption, Numbers DEF RunsTyped, Pruned
  <2>4. mark[kind[i]] >= i /\ mark[kind[i]] \in Nat
    BY <1>1, <2>2, <2>3, Numbers DEF MarksCoverPruned, FeedTypeOK
  <2>5. mark[kind[i]] <= MarkOf(types[d]) /\ MarkOf(types[d]) \in Nat
    BY <1>1, <2>2, <2>3, MarkFact, Numbers
  <2>6. ~(MarkOf(types[d]) > mine[d])
    BY <1>2 DEF CursorExpired
  <2>7. QED
    BY <2>3, <2>4, <2>5, <2>6
<1>7. QED
  BY <1>3, <1>5, <1>6 DEF Delivering

\* Below the cut nothing is unsettled, so that the page holds all that is owed.
LEMMA CutDelivers ==
    ASSUME PruneWaits, FInv, HInv, Lost \subseteq excused,
           NEW d \in Dispatchers, Delivering(d), Cut(d)
    PROVE  Onward /\ Delivering(d)'
<1>1. RunsTyped /\ Positioned(d)
  BY DEF HInv
<1>2. /\ UNCHANGED <<feed, got, excused, mine, pending, types, settled>>
      /\ at[d] = "cut" /\ at'[d] = "row"
      /\ cut'[d] = IF Unsettled(d) = {} THEN MaxId + 1 ELSE Min(Unsettled(d))
      /\ page'[d] = {i \in page[d] : i < cut'[d]}
  BY <1>1 DEF Cut, RunsTyped, Go, net, ghosts
<1>3. short'[d] = (Cardinality(page'[d]) < MaxEvents)
  BY <1>1 DEF Cut, RunsTyped
<1>4. Onward
  BY <1>2 DEF Onward
<1>5. UNCHANGED <<Visible, Open, Pruned, Lost, Written, kind, Owed>>
  BY <1>2, <1>4, OnwardFact DEF Owed
<1>6. SettledRows(d)' /\ Passed(pending[d])' /\ WholePage(d)'
  BY <1>2, <1>4, <1>5, SettledOnward DEF Delivering, Passed, WholePage
<1>7. /\ pending[d] = mine[d] /\ mine[d] \in Nat /\ cut'[d] \in Nat
      /\ page[d] \subseteq Ids /\ settled[d] \subseteq Ids
      /\ \A i \in Unsettled(d) : cut'[d] <= i
  <2>1. /\ pending[d] = mine[d] /\ mine[d] \in Nat
        /\ page[d] \subseteq Ids /\ settled[d] \subseteq Ids
    BY <1>1, <1>2, Numbers DEF Positioned, RunsTyped
  <2>2. cut'[d] \in Nat /\ \A i \in Unsettled(d) : cut'[d] <= i
    <3>1. CASE Unsettled(d) = {}
      BY <1>2, <3>1, Numbers
    <3>2. CASE Unsettled(d) # {}
      <4>1. cut'[d] = Min(Unsettled(d))
        BY <1>2, <3>2
      <4>2. QED
        BY <3>2, <4>1, UnsettledFact, Numbers
    <3>3. QED
      BY <3>1, <3>2
  <2>3. QED
    BY <2>1, <2>2
<1>8. ASSUME NEW j \in Reach(d), NEW i \in Owed, mine[d] < i, i <= j, i < cut'[d]
      PROVE  i \in page[d]
  <2>1. j \in settled[d] /\ i \in Nat /\ j \in Nat
    BY <1>7, Numbers
    DEF Reach, Delivering, SettledRows, Owed, Open, Written, Visible, Pruned, Lost
  <2>2. i \in page[d] \/ i \notin settled[d]
    BY <1>2, <1>8 DEF Delivering, WholePage
  <2>3. ASSUME i \notin settled[d] PROVE FALSE
    <3>1. i \notin Open
      BY <1>8, <2>1 DEF Delivering, SettledRows
    <3>2. i \in Visible \cup Pruned
      BY <3>1 DEF Owed, Written
    <3>3. i \notin Pruned
      <4>1. i \in Pruned => kind[i] \in types[d]
        BY <1>8, <2>1 DEF Delivering, SettledRows, Owed, Written
      <4>2. QED
        BY <1>2, <1>7, <1>8, <2>1, <2>3, <4>1 DEF PruneWaits
    <3>4. ~short[d] => i <= Max(page[d])
      <4>1. SUFFICES ASSUME ~short[d] PROVE i <= Max(page[d])
        OBVIOUS
      <4>2. j \in page[d]
        BY <4>1 DEF Reach
      <4>3. page[d] \in SUBSET (0 .. MaxId) /\ MaxId \in Nat
        BY <1>7, Numbers DEF Ids
      <4>4. Max(page[d]) \in page[d] /\ j <= Max(page[d])
        BY <4>2, <4>3, MaxFact
      <4>5. QED
        BY <1>8, <2>1, <4>3, <4>4
    <3>5. i \in Unsettled(d)
      BY <1>7, <1>8, <2>1, <2>3, <3>2, <3>3, <3>4 DEF Unsettled
    <3>6. QED
      BY <1>7, <1>8, <2>1, <3>5
  <2>4. QED
    BY <2>2, <2>3
<1>9. WholeCut(d)'
  <2>1. \A i \in page'[d] : i < cut'[d]
    BY <1>2
  <2>2. ASSUME NEW j \in ReachOfCut(d)', NEW i \in Owed, mine[d] < i, i <= j
        PROVE  i \in page'[d]
    <3>1. j \in settled[d] /\ j < cut'[d] /\ j \in Nat /\ i \in Nat
      BY <1>2, <1>7, Numbers
      DEF ReachOfCut, Delivering, SettledRows, Owed, Open, Written, Visible, Pruned, Lost
    <3>2. i < cut'[d]
      BY <1>7, <2>2, <3>1
    <3>3. PICK m \in Reach(d) : j <= m
      <4>1. CASE short[d] \/ j \in page[d]
        BY <3>1, <4>1 DEF Reach
      <4>2. CASE ~short[d] /\ j \notin page[d]
        <5>1. short'[d]
          BY <1>2, <4>2 DEF ReachOfCut
        <5>2. page'[d] # page[d]
          BY <1>2, <1>3, <4>2, <5>1 DEF Delivering, WholePage
        <5>3. PICK m \in page[d] : ~(m < cut'[d])
          BY <1>2, <5>2
        <5>4. m \in Nat /\ j <= m
          <6>1. m \in Nat
            BY <1>7, Numbers
          <6>2. QED
            BY <1>7, <3>1, <5>3, <6>1
        <5>5. QED
          BY <4>2, <5>4 DEF Reach
      <4>3. QED
        BY <4>1, <4>2
    <3>4. m \in Nat /\ i <= m
      <4>1. m \in Nat
        BY <1>7, Numbers DEF Reach
      <4>2. QED
        BY <2>2, <3>1, <3>3, <4>1
    <3>5. i \in page[d]
      BY <1>8, <2>2, <3>2, <3>3, <3>4
    <3>6. QED
      BY <1>2, <3>2, <3>5
  <2>3. QED
    BY <1>2, <1>5, <1>7, <2>1, <2>2 DEF WholeCut
<1>10. QED
  BY <1>4, <1>6, <1>9 DEF Delivering

\* The run takes the next row off its page once it has been passed.
LEMMA NextRowDelivers ==
    ASSUME HInv, NEW d \in Dispatchers, Delivering(d), page[d] # {}, Onward,
           at[d] \in {"row", "sent"}, at'[d] = "row",
           UNCHANGED <<types, settled, short, cut>>,
           pending'[d] = Head(d), page'[d] = page[d] \ {Head(d)},
           Head(d) \in got \/ Head(d) \in excused
    PROVE  Delivering(d)'
<1>1. /\ Head(d) \in page[d] /\ Head(d) \in Nat /\ pending[d] \in Nat
      /\ pending[d] < Head(d)
  BY PageFact, Numbers DEF HInv, RunsTyped, Positioned
<1>2. Owed' \subseteq Owed /\ Owed \subseteq Nat
  BY OnwardFact, Numbers DEF Owed, Open, Written, Visible, Pruned, Lost
<1>3. SettledRows(d)' /\ WholePage(d)'
  BY SettledOnward DEF Delivering, WholePage
<1>4. Passed(pending[d])'
  <2> SUFFICES ASSUME NEW i \in Owed', i <= Head(d) PROVE i \in got'
    BY DEF Passed
  <2>1. i \in Owed /\ i \notin excused /\ i \in Nat
    BY <1>2 DEF Owed
  <2>2. CASE i = Head(d)
    BY <2>1, <2>2 DEF Onward
  <2>3. CASE i # Head(d)
    <3>1. i < Head(d)
      BY <1>1, <2>1, <2>3
    <3>2. QED
      BY <2>1, <3>1, HeadIsNext DEF Onward
  <2>4. QED
    BY <2>2, <2>3
<1>5. WholeCut(d)'
  <2>1. \A i \in page'[d] : i < cut'[d]
    BY DEF Delivering, WholeCut
  <2>2. ASSUME NEW j \in ReachOfCut(d)', NEW i \in Owed, Head(d) < i, i <= j
        PROVE  i \in page'[d]
    <3>1. j \in ReachOfCut(d)
      BY DEF ReachOfCut
    <3>2. pending[d] < i /\ i # Head(d)
      BY <1>1, <1>2, <2>2
    <3>3. i \in page[d]
      BY <2>2, <3>1, <3>2 DEF Delivering, WholeCut
    <3>4. QED
      BY <3>2, <3>3
  <2>3. QED
    BY <1>2, <2>1, <2>2 DEF WholeCut
<1>6. QED
  BY <1>3, <1>4, <1>5 DEF Delivering

\* Past a short page the run goes on to the newest settled row below the cut.
LEMMA PageDoneDelivers ==
    ASSUME HInv, NEW d \in Dispatchers, Delivering(d), PageDone(d)
    PROVE  Onward /\ Delivering(d)'
<1>1. RunsTyped
  BY DEF HInv
<1>2. /\ UNCHANGED <<feed, got, excused, mine, types, settled, page, short, cut>>
      /\ at[d] = "row" /\ at'[d] = "flush" /\ page[d] = {}
      /\ pending'[d] = IF short[d] /\ Tail(d) > pending[d] THEN Tail(d) ELSE pending[d]
  BY <1>1 DEF PageDone, RunsTyped, Go, Tail, reading, net, ghosts
<1>3. Onward
  BY <1>2 DEF Onward
<1>4. Owed' \subseteq Owed /\ Owed \subseteq Nat
  BY <1>3, OnwardFact, Numbers DEF Owed, Open, Written, Visible, Pruned, Lost
<1>5. SettledRows(d)' /\ WholePage(d)' /\ WholeCut(d)'
  BY <1>2, <1>3, SettledOnward DEF Delivering, WholePage, WholeCut
<1>6. Passed(pending[d])'
  <2> SUFFICES ASSUME NEW i \in Owed, i <= pending'[d] PROVE i \in got
    BY <1>2, <1>4 DEF Passed
  <2>1. CASE i <= pending[d]
    BY <2>1 DEF Delivering, Passed
  <2>2. CASE ~(i <= pending[d])
    <3>1. short[d] /\ pending'[d] = Tail(d) /\ Tail(d) > pending[d]
      BY <1>2, <2>2
    <3>2. pending[d] \in Nat /\ Tail(d) \in Nat /\ i \in Nat
      BY <1>1, <1>4, TailFact, Numbers DEF RunsTyped
    <3>3. Tail(d) \in ReachOfCut(d)
      BY <3>1, <3>2, TailFact DEF ReachOfCut
    <3>4. pending[d] < i /\ i <= Tail(d)
      BY <2>2, <3>1, <3>2
    <3>5. i \in page[d]
      BY <1>2, <3>3, <3>4 DEF Delivering, WholeCut
    <3>6. QED
      BY <1>2, <3>5
  <2>3. QED
    BY <2>1, <2>2
<1>7. QED
  BY <1>3, <1>5, <1>6 DEF Delivering

\* What a run's step leaves to the receiver.
LEMMA RunStepDelivers ==
    ASSUME SettlesFirst, PruneWaits, FInv, OpenAged, HInv, DInv,
           NEW d \in Dispatchers, RunStep(d)
    PROVE  /\ Onward /\ Delivering(d)'
           /\ got' = got /\ (flying' = flying \/ (Post(d) /\ flying' = flying \cup {Head(d)}))
           /\ cursor' = cursor \/ cursor' = pending'[d]
<1>1. RunsTyped /\ SubTyped /\ RestTyped /\ Positioned(d) /\ Delivering(d) /\ Passed(cursor)
  BY DEF HInv, DInv
<1> USE DEF Go
<1>2. CASE Read(d)
  <2>1. /\ UNCHANGED <<feed, excused, got, flying, cursor, settled, page>> /\ at[d] = "read"
        /\ at'[d] = "page" /\ pending'[d] = cursor
    BY <1>1, <1>2 DEF Read, RunsTyped, sub, net, ghosts
  <2>2. Onward
    BY <2>1 DEF Onward
  <2>3. settled[d] = {} /\ page[d] = {}
    BY <1>1, <2>1 DEF Positioned
  <2>4. SettledRows(d)' /\ WholePage(d)' /\ WholeCut(d)'
    BY <2>1, <2>3 DEF SettledRows, WholePage, WholeCut
  <2>5. Passed(pending[d])'
    BY <1>1, <2>1, <2>2, OnwardFact DEF Passed
  <2>6. QED
    BY <2>1, <2>2, <2>4, <2>5 DEF Delivering
<1>3. CASE ReadPage(d)
  BY <1>1, <1>3, ReadPageDelivers DEF ReadPage, sub, net
<1>4. CASE CheckMarks(d)
  <2>1. UNCHANGED cursor
    BY <1>1, <1>4, TurnOffFact DEF CheckMarks, sub
  <2>2. QED
    BY <1>1, <1>4, <2>1, CheckMarksDelivers DEF CheckMarks, net
<1>5. CASE Cut(d)
  BY <1>1, <1>5, CutDelivers DEF Cut, DInv, Known, sub, net
<1>6. CASE Skip(d)
  <2>1. /\ UNCHANGED <<feed, excused, got, flying, cursor, types, settled, short, cut, at>>
        /\ at[d] = "row" /\ page[d] # {} /\ kind[Head(d)] \notin types[d]
    BY <1>6 DEF Skip, sub, net, ghosts
  <2>2. pending'[d] = Head(d) /\ page'[d] = page[d] \ {Head(d)} /\ Head(d) \in page[d]
    BY <1>1, <1>6, <2>1, PageFact DEF Skip, RunsTyped
  <2>3. Head(d) \in excused
    <3>1. Head(d) \in settled[d] /\ Head(d) \in Written /\ Head(d) <= Head(d)
      BY <1>1, <2>1, <2>2, PageFact, Numbers
      DEF Delivering, SettledRows, Written, Positioned
    <3>2. QED
      BY <1>1, <2>1, <3>1 DEF Delivering, SettledRows
  <2>4. Onward
    BY <2>1 DEF Onward
  <2>5. QED
    BY <1>1, <2>1, <2>2, <2>3, <2>4, NextRowDelivers
<1>7. CASE Accepted(d) /\ MayAdvance(d)
  <2>1. /\ UNCHANGED <<feed, excused, got, flying, types, settled, short, cut>>
        /\ at[d] = "sent" /\ Head(d) \in got /\ cursor' = Head(d)
    BY <1>7 DEF Accepted, net, ghosts
  <2>2. pending'[d] = Head(d) /\ page'[d] = page[d] \ {Head(d)} /\ at'[d] = "row"
    BY <1>1, <1>7 DEF Accepted, RunsTyped
  <2>3. Onward /\ page[d] # {}
    BY <1>1, <2>1 DEF Onward, Positioned
  <2>4. QED
    BY <1>1, <2>1, <2>2, <2>3, NextRowDelivers
<1>8. CASE PageDone(d)
  BY <1>1, <1>8, PageDoneDelivers DEF PageDone, sub, net
<1>9. CASE Finish(d) \/ Crash(d)
  <2>1. UNCHANGED <<feed, excused, got, flying, cursor>> /\ Forget(d)
    BY <1>9 DEF Finish, Crash, sub, net
  <2>2. at'[d] = "idle" /\ pending'[d] = 0 /\ settled'[d] = {} /\ page'[d] = {}
    BY <1>1, <2>1 DEF Forget, RunsTyped
  <2>3. Passed(pending[d])'
    <3>1. Owed' \subseteq Ids
      BY DEF Owed, Open, Written, Visible, Pruned, Lost
    <3>2. \A i \in Ids : ~(i <= 0)
      BY Numbers DEF Ids
    <3>3. QED
      BY <2>2, <3>1, <3>2 DEF Passed
  <2>4. SettledRows(d)' /\ WholePage(d)' /\ WholeCut(d)'
    BY <2>2 DEF SettledRows, WholePage, WholeCut
  <2>5. QED
    BY <2>1, <2>3, <2>4 DEF Onward, Delivering
<1>10. CASE \/ Lease(d) \/ LostAccess(d) \/ Check(d) \/ Post(d) \/ Refused(d) \/ RecordFailure(d)
            \/ GiveUp(d) \/ Flush(d) \/ OutOfTime(d) \/ (Accepted(d) /\ ~MayAdvance(d))
  <2>1. /\ UNCHANGED <<feed, excused, got, types, settled, page, short, cut, pending>>
        /\ flying' = flying \/ (Post(d) /\ flying' = flying \cup {Head(d)})
    BY <1>10
    DEF Lease, LostAccess, Check, Post, Refused, RecordFailure, GiveUp, Flush, OutOfTime,
        Accepted, reading, net, ghosts
  <2>2. cursor' = cursor \/ cursor' = pending'[d]
    BY <1>1, <1>10, <2>1, TurnOffFact
    DEF Lease, LostAccess, Check, Post, Refused, RecordFailure, GiveUp, Flush, OutOfTime,
        Accepted, sub
  <2>3. /\ at'[d] \notin {"marks", "cut"}
        /\ at'[d] \in {"row", "send", "sent"} => at[d] \in {"row", "send", "sent"}
    BY <1>1, <1>10
    DEF Lease, LostAccess, Check, Post, Refused, RecordFailure, GiveUp, Flush, OutOfTime,
        Accepted, RunsTyped
  <2>4. Onward
    BY <2>1 DEF Onward
  <2>5. Owed' \subseteq Owed /\ SettledRows(d)'
    BY <1>1, <2>1, <2>4, OnwardFact, SettledOnward DEF Delivering
  <2>6. Passed(pending[d])' /\ WholePage(d)'
    BY <1>1, <2>1, <2>3, <2>5 DEF Delivering, Passed, WholePage
  <2>7. WholeCut(d)'
    BY <1>1, <2>1, <2>3, <2>5 DEF Delivering, WholeCut, ReachOfCut
  <2>8. QED
    BY <2>1, <2>2, <2>4, <2>5, <2>6, <2>7 DEF Delivering
<1>11. QED
  BY <1>2, <1>3, <1>4, <1>5, <1>6, <1>7, <1>8, <1>9, <1>10 DEF RunStep, Step

LEMMA RunStepKeepsDelivery ==
    ASSUME SettlesFirst, PruneWaits, FInv, OpenAged, HInv, DInv,
           NEW d \in Dispatchers, RunStep(d)
    PROVE  DInv'
<1>1. /\ Onward /\ Delivering(d)'
      /\ got' = got /\ (flying' = flying \/ (Post(d) /\ flying' = flying \cup {Head(d)}))
      /\ cursor' = cursor \/ cursor' = pending'[d]
  BY RunStepDelivers
<1>2. /\ Owed' \subseteq Owed /\ UNCHANGED <<Visible, Pruned, Lost>>
      /\ Passed(cursor) => \A i \in Owed' : i <= cursor => i \in got'
  BY <1>1, OnwardFact
<1>3. ASSUME NEW e \in Dispatchers \ {d} PROVE Delivering(e)'
  <2>1. Same(e) /\ Delivering(e)
    BY OneRunMoves DEF HInv, DInv
  <2>2. QED
    BY <1>1, <2>1, SameDelivers
<1>4. Passed(cursor)'
  <2>1. Passed(pending[d])'
    BY <1>1 DEF Delivering
  <2>2. QED
    BY <1>1, <1>2, <2>1 DEF DInv, Passed
<1>5. Known' /\ InOrder'
  <2>1. CASE flying' = flying
    BY <1>1, <1>2, <2>1 DEF DInv, Known, InOrder, Onward
  <2>2. CASE Post(d) /\ flying' = flying \cup {Head(d)}
    <3>1. at[d] = "send" /\ page[d] # {} /\ Delivering(d)
      BY <2>2 DEF Post, HInv, Positioned, DInv
    <3>2. Head(d) \in Visible \cup Pruned /\ Head(d) \in Nat
      BY <3>1, PageFact, Numbers DEF HInv, Positioned
    <3>3. \A i \in Owed : i < Head(d) => i \in got
      BY <3>1, HeadIsNext
    <3>4. \A i \in Owed \ got : i \in Nat /\ Head(d) <= i
      <4>1. \A i \in Owed : i \in Nat
        BY Numbers DEF Owed, Open, Written, Visible, Pruned, Lost
      <4>2. QED
        BY <3>2, <3>3, <4>1
    <3>5. Known'
      BY <1>1, <1>2, <2>2, <3>2 DEF DInv, Known, Onward
    <3>6. InOrder'
      BY <1>1, <1>2, <2>2, <3>4 DEF DInv, InOrder
    <3>7. QED
      BY <3>5, <3>6
  <2>3. QED
    BY <1>1, <2>1, <2>2
<1>6. QED
  BY <1>1, <1>3, <1>4, <1>5 DEF DInv

\* resume_from: latest gives up all that is there to be passed.
LEMMA AroundKeepsDelivery ==
    ASSUME FInv, HInv, DInv, Around
    PROVE  DInv'
<1>1. UNCHANGED <<feed, run, posted, staleSends>>
  BY AroundKeeps
<1>2. RunsTyped /\ RestTyped
  BY DEF HInv
<1>3. /\ Onward
      /\ (got \cup flying)' = got \cup flying
      /\ \/ cursor' = cursor
         \/ excused' = excused \cup (1 .. next - 1)
  <2>1. CASE LeaseEnds \/ BackoffEnds
    BY <1>1, <2>1 DEF LeaseEnds, BackoffEnds, Onward, net, ghosts
  <2>2. ASSUME NEW i \in Ids, Arrive(i)
        PROVE  /\ Onward /\ (got \cup flying)' = got \cup flying /\ cursor' = cursor
    BY <1>1, <2>2 DEF Arrive, Onward, sub, ghosts
  <2>3. CASE Admin
    <3>1. UNCHANGED <<got, flying>>
      BY <2>3 DEF Admin, Act, Reconfigure, SetTypes, Disable, Reenable, LoseStanding, net
    <3>2. excused \subseteq excused'
      BY <2>3 DEF Admin, Reconfigure, SetTypes, Disable, Reenable, LoseStanding
    <3>3. cursor' = cursor \/ excused' = excused \cup (1 .. next - 1)
      BY <2>3 DEF Admin, Reconfigure, SetTypes, Disable, Reenable, LoseStanding, TurnOff
    <3>4. QED
      BY <1>1, <3>1, <3>2, <3>3 DEF Onward
  <2>4. QED
    BY <2>1, <2>2, <2>3 DEF Around
<1>4. /\ Owed' \subseteq Owed /\ UNCHANGED <<Visible, Pruned, Lost>>
      /\ Passed(cursor) => \A i \in Owed' : i <= cursor => i \in got'
  BY <1>3, OnwardFact
<1>5. \A e \in Dispatchers : Delivering(e)'
  <2>1. \A e \in Dispatchers : Same(e)
    BY <1>1 DEF Same, run, reading
  <2>2. QED
    BY <1>3, <2>1, SameDelivers DEF DInv
<1>6. Known' /\ InOrder'
  BY <1>3, <1>4 DEF DInv, Known, InOrder, Onward
<1>7. Passed(cursor)'
  <2>1. CASE cursor' = cursor
    BY <1>4, <2>1 DEF DInv, Passed
  <2>2. CASE excused' = excused \cup (1 .. next - 1)
    <3>1. \A i \in Open \cup Written : i \in 1 .. next - 1
      <4>1. /\ next \in Nat
            /\ \A i \in Open \cup Written : i \in Ids /\ i \in Nat /\ i < next
        BY Placed
      <4>2. QED
        BY <4>1 DEF Ids
    <3>2. Owed' = {}
      BY <1>4, <2>2, <3>1 DEF Owed
    <3>3. QED
      BY <3>2 DEF Passed
  <2>3. QED
    BY <1>3, <2>1, <2>2
<1>8. QED
  BY <1>5, <1>6, <1>7 DEF DInv

\* The feed moves on: a new row lies ahead of everything.
LEMMA FeedKeepsDelivery ==
    ASSUME FInv, HInv, DInv, [FeedNext]_feed, UNCHANGED hook
    PROVE  DInv'
<1>1. Grows
  BY FeedGrows
<1>2. /\ next \in Nat
      /\ \A i \in Open \cup Written : i \in Ids /\ i \in Nat /\ i < next
  BY Placed
<1>3. /\ UNCHANGED <<cursor, at, mine, pending, types, settled, page, short, cut>>
      /\ UNCHANGED <<got, flying, excused>>
  BY DEF hook, sub, run, reading, net, ghosts
<1>4. /\ Written \subseteq Written' /\ Written' \subseteq Written \cup Open
      /\ Visible \cup Pruned \subseteq Visible' \cup Pruned' /\ Lost' = Lost
      /\ Pruned \subseteq Pruned'
      /\ Open' \subseteq Open \cup {next}
      /\ \A i \in Open \cup Written : kind'[i] = kind[i]
  BY <1>1, <1>2 DEF Grows, Written
<1>5. Owed' \subseteq Owed \cup {next} /\ next \notin Owed
  BY <1>2, <1>3, <1>4 DEF Owed
<1>6. /\ cursor \in Nat /\ cursor < next /\ RunsTyped
      /\ \A e \in Dispatchers : pending[e] \in Nat /\ pending[e] < next
  <2>1. ResumeCursor \in Nat /\ ResumeCursor < next
    BY ResumeFact, Numbers DEF ResumeSound
  <2>2. cursor \in Nat /\ cursor <= ResumeCursor /\ RunsTyped
    BY Numbers DEF HInv, SubTyped
  <2>3. \A e \in Dispatchers : pending[e] \in Nat /\ pending[e] <= ResumeCursor
    BY <2>2, Numbers DEF HInv, RunsTyped, Positioned
  <2>4. QED
    BY <1>2, <2>1, <2>2, <2>3
<1>7. ASSUME NEW e \in Dispatchers PROVE Delivering(e)'
  <2>1. SettledRows(e) /\ Passed(pending[e]) /\ WholePage(e) /\ WholeCut(e)
    BY DEF DInv, Delivering
  <2>2. settled[e] \subseteq Written /\ page[e] \subseteq settled[e]
    BY <2>1 DEF SettledRows, Written
  <2>3. \A j \in settled[e] : j \in Nat /\ j < next
    BY <1>2, <2>2
  <2>4. \A j \in settled[e] : ~(next <= j)
    BY <1>2, <2>3
  <2>5. SettledRows(e)'
    <3>1. \A j \in settled[e], i \in Open' : j < i
      BY <1>4, <2>1, <2>3 DEF SettledRows
    <3>2. ASSUME NEW j \in settled[e], NEW i \in Written', i <= j, kind'[i] \notin types[e]
          PROVE  i \in excused
      <4>1. j \in Nat /\ i \in Nat
        BY <1>2, <1>4, <2>3
      <4>2. i \notin Open
        BY <2>1, <3>2, <4>1 DEF SettledRows
      <4>3. i \in Written /\ kind'[i] = kind[i]
        BY <1>4, <4>2
      <4>4. QED
        BY <2>1, <3>2, <4>3 DEF SettledRows
    <3>3. settled[e] \subseteq Visible' \cup Pruned' /\ page[e] \subseteq settled[e]
      BY <1>4, <2>1 DEF SettledRows
    <3>4. QED
      BY <1>3, <3>1, <3>2, <3>3 DEF SettledRows
  <2>6. Passed(pending[e])'
    <3>1. ~(next <= pending[e])
      BY <1>2, <1>6
    <3>2. QED
      BY <1>3, <1>5, <2>1, <3>1 DEF Passed
  <2>7. WholePage(e)'
    <3>1. Reach(e) \subseteq settled[e] /\ Reach(e)' = Reach(e)
      BY <1>3, <2>2 DEF Reach
    <3>2. QED
      BY <1>3, <1>4, <1>5, <2>1, <2>4, <3>1 DEF WholePage
  <2>8. WholeCut(e)'
    <3>1. ReachOfCut(e) \subseteq settled[e] /\ ReachOfCut(e)' = ReachOfCut(e)
      BY <1>3, <2>2 DEF ReachOfCut
    <3>2. QED
      BY <1>3, <1>5, <2>1, <2>4, <3>1 DEF WholeCut
  <2>9. QED
    BY <2>5, <2>6, <2>7, <2>8 DEF Delivering
<1>8. Known'
  BY <1>3, <1>4 DEF DInv, Known
<1>9. InOrder'
  <2>1. \A j \in got \cup flying : j \in Nat /\ j < next
    BY <1>2 DEF DInv, Known, Written
  <2>2. \A j \in got \cup flying : j <= next
    BY <1>2, <2>1
  <2>3. QED
    BY <1>3, <1>5, <2>2 DEF DInv, InOrder
<1>10. Passed(cursor)'
  <2>1. ~(next <= cursor)
    BY <1>2, <1>6
  <2>2. QED
    BY <1>3, <1>5, <2>1 DEF DInv, Passed
<1>11. QED
  BY <1>7, <1>8, <1>9, <1>10 DEF DInv

LEMMA DeliveryStarts == Init => DInv
<1> SUFFICES ASSUME Init PROVE DInv
  OBVIOUS
<1>1. Open = {} /\ Visible = {} /\ Pruned = {}
  BY DEF Init, FeedInit, Open, Visible, Pruned
<1>2. Owed = {}
  BY <1>1 DEF Init, Owed, Written
<1>3. QED
  BY <1>2
  DEF Init, DInv, Known, InOrder, Passed, Delivering, SettledRows, WholePage, WholeCut

LEMMA DeliveryKept ==
    ASSUME SettlesFirst, PruneWaits, FInv, OpenAged, HInv, DInv, [Next]_vars
    PROVE  DInv'
<1>1. CASE UNCHANGED vars
  BY <1>1, FeedKeepsDelivery DEF vars
<1>2. CASE FeedNext /\ UNCHANGED hook
  BY <1>2, FeedKeepsDelivery
<1>3. CASE HookNext
  BY <1>3, HookSteps, RunStepKeepsDelivery, AroundKeepsDelivery
<1>4. QED
  BY <1>1, <1>2, <1>3 DEF Next

THEOREM DeliveryInvariant ==
    ASSUME SettlesFirst
    PROVE  Spec /\ []PruneWaits => []DInv
<1>1. Init => DInv
  BY DeliveryStarts
<1>2. PruneWaits /\ FInv /\ OpenAged /\ HInv /\ DInv /\ [Next]_vars => DInv'
  BY DeliveryKept
<1>3. Spec => [](FInv /\ OpenAged /\ HInv)
  BY DispatchInvariant, PTL
<1>4. QED
  BY <1>1, <1>2, <1>3, PTL DEF Spec

(***************************************************************************)
(* NothingSkipped: whatever runs overlap, crash, outlast their lease or stop *)
(* at an unsettled row, and however transactions commit out of the order of  *)
(* their ids, the cursor passes no row that is owed before the receiver has  *)
(* it; as long as a transaction fits in the settle window, and no row goes   *)
(* from unsettled to pruned between two statements of a run.                *)
(***************************************************************************)
THEOREM NoRowIsSkipped ==
    ASSUME SettlesFirst
    PROVE  Spec /\ []PruneWaits => []NothingSkipped
<1>1. DInv => NothingSkipped
  BY DEF DInv, Passed, Owed, NothingSkipped
<1>2. QED
  BY <1>1, DeliveryInvariant, PTL

(***************************************************************************)
(* FirstTimesInOrder: under the same conditions the receiver gets rows for   *)
(* the first time in the order of their ids, from any number of runs and     *)
(* through POSTs that arrive late or not at all.                            *)
(***************************************************************************)
THEOREM FirstTimesAreInOrder ==
    ASSUME SettlesFirst
    PROVE  Spec /\ []PruneWaits => FirstTimesInOrder
<1> DEFINE Ordered == \A i \in got' \ got : i \notin excused => \A j \in got : j < i
<1>1. PruneWaits /\ FInv /\ OpenAged /\ HInv /\ DInv /\ [Next]_vars => [Ordered]_vars
  <2> SUFFICES ASSUME PruneWaits, FInv, OpenAged, HInv, DInv, [Next]_vars,
                      NEW i \in got' \ got, i \notin excused, NEW j \in got
               PROVE  j < i
    OBVIOUS
  <2>1. i \in flying
    <3>1. ASSUME NEW d \in Dispatchers, RunStep(d) PROVE FALSE
      BY <3>1, RunStepDelivers
    <3>2. ASSUME UNCHANGED hook PROVE FALSE
      BY <3>2 DEF hook, net
    <3>3. Around
      BY <3>1, <3>2, HookSteps DEF Next, vars
    <3>4. QED
      BY <3>3
      DEF Around, LeaseEnds, BackoffEnds, Arrive, Admin, Act, Reconfigure, SetTypes, Disable,
          Reenable, LoseStanding, net
  <2>2. i \in Owed \ got
    BY <2>1 DEF DInv, Known, Owed, Written
  <2>3. j <= i
    BY <2>2 DEF DInv, InOrder
  <2>4. i \in Nat /\ j \in Nat /\ i # j
    BY Numbers, <2>1 DEF HInv, RestTyped
  <2>5. QED
    BY <2>3, <2>4
<1>2. Spec => [](FInv /\ OpenAged /\ HInv)
  BY DispatchInvariant, PTL
<1>3. QED
  BY <1>1, <1>2, DeliveryInvariant, PTL DEF Spec, FirstTimesInOrder
=============================================================================
