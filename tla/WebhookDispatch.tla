--------------------------- MODULE WebhookDispatch ---------------------------
(***************************************************************************)
(* One webhook subscription over the change feed: runs of the dispatcher     *)
(* that may overlap, crash, or outlast their lease; the receiver, which a    *)
(* POST may reach late or not at all and whose answer may be lost; and the   *)
(* board's admins.  A run is modelled statement by statement, since the      *)
(* subscription has no row lock while it goes on: each of its writes is a    *)
(* conditional UPDATE on the lease token.  A dispatcher has one run at a     *)
(* time, so its name stands for the token.                                  *)
(***************************************************************************)
EXTENDS ChangeFeed

CONSTANTS
    Dispatchers, NoOne,
    Readable,    \* kinds a viewer with no reader id may see
    Typesets,    \* the event types a subscription may name, as sets of kinds
    SettleTime,  \* WEBHOOK_SETTLE_SECONDS
    MaxEvents,   \* WEBHOOK_MAX_EVENTS_PER_RUN
    MaxFailures, \* WEBHOOK_DISABLE_AFTER_FAILURES
    SlowRuns,    \* may a run outlast its lease
    AdminOps,    \* what the admins may do
    MaxAdmin, MaxCrashes   \* bounds: acts of the admins, crashes of runs

ASSUME DispatchAssumption ==
    /\ NoOne \notin Dispatchers
    /\ Readable \subseteq Kinds /\ Typesets \subseteq SUBSET Readable /\ Typesets # {}
    /\ SettleTime \in Nat /\ SettleTime <= Oldest /\ Skew < SettleTime
    /\ MaxEvents \in Nat \ {0} /\ MaxFailures \in Nat \ {0}
    /\ SlowRuns \in BOOLEAN
    /\ MaxAdmin \in Nat /\ MaxCrashes \in Nat

VARIABLES
    \* The subscription.
    enabled, cursor, wants,
    config,     \* configured_at, which every change of URL, secret or owner stamps
    standing,   \* its configurer administers the board and the secret is readable
    failures, waiting,   \* consecutive_failures; next_attempt_at is ahead
    lease, leaseOver,    \* the token's holder; lease_until has passed
    \* The runs, per dispatcher: where, and what it has read.
    at, mine,   \* mine is the cursor as this run last wrote it
    types, conf, fit, settled, page, short, cut, pending, streak,
    \* The network and the receiver.
    flying, got,
    \* Bounds and history.
    acts, crashes, excused, posted, staleSends

sub     == <<enabled, cursor, wants, config, standing, failures, waiting, lease, leaseOver>>
reading == <<types, conf, fit, settled, page, short, cut>>
run     == <<at, mine, reading, pending, streak>>
net     == <<flying, got>>
ghosts  == <<acts, crashes, excused, posted, staleSends>>
hook    == <<sub, run, net, ghosts>>
vars    == <<feed, hook>>

Stages == {"idle", "read", "page", "marks", "cut", "row", "send", "sent", "failed",
           "last", "flush", "end"}

Init ==
    /\ FeedInit
    /\ enabled = TRUE /\ cursor = ResumeCursor /\ wants \in Typesets
    /\ config = 0 /\ standing = TRUE /\ failures = 0 /\ waiting = FALSE
    /\ lease = NoOne /\ leaseOver = FALSE
    /\ at = [d \in Dispatchers |-> "idle"] /\ mine = [d \in Dispatchers |-> 0]
    /\ types = [d \in Dispatchers |-> {}] /\ conf = [d \in Dispatchers |-> 0]
    /\ fit = [d \in Dispatchers |-> FALSE]
    /\ settled = [d \in Dispatchers |-> {}] /\ page = [d \in Dispatchers |-> {}]
    /\ short = [d \in Dispatchers |-> FALSE] /\ cut = [d \in Dispatchers |-> 0]
    /\ pending = [d \in Dispatchers |-> 0] /\ streak = [d \in Dispatchers |-> 0]
    /\ flying = {} /\ got = {}
    /\ acts = 0 /\ crashes = 0 /\ excused = Lost
    /\ posted = [d \in Dispatchers |-> {}] /\ staleSends = [d \in Dispatchers |-> 0]

Go(d, stage) == at' = [at EXCEPT ![d] = stage]

-----------------------------------------------------------------------------
(* What a run writes.                                                       *)

\* disable(): the lease goes with it.
TurnOff ==
    /\ enabled' = FALSE /\ waiting' = FALSE /\ lease' = NoOne /\ leaseOver' = FALSE
    /\ UNCHANGED <<cursor, wants, config, standing, failures>>

\* disable(lease_token=...)
TurnOffAs(d) == IF enabled /\ lease = d THEN TurnOff ELSE UNCHANGED sub

\* A mutant: the UPDATE is not conditional on the lease and the cursor.
MayAdvanceUnleased(d) == enabled

\* The compare-and-set of _advance.
MayAdvance(d) == enabled /\ lease = d /\ cursor = mine[d]

\* A mutant: a new URL or secret is not looked for.
StillLeased(d) == enabled /\ lease = d

StillConfiguredAsRead(d) == enabled /\ lease = d /\ config = conf[d]

\* A mutant: a lease that has passed is not taken over.
LeaseIfFree(d) ==
    /\ at[d] = "idle"
    /\ enabled /\ ~waiting /\ lease = NoOne
    /\ lease' = d /\ leaseOver' = FALSE
    /\ Go(d, "read")
    /\ UNCHANGED <<feed, enabled, cursor, wants, config, standing, failures, waiting,
                   mine, reading, pending, streak, net, ghosts>>

Lease(d) ==
    /\ at[d] = "idle"
    /\ enabled /\ ~waiting /\ (lease = NoOne \/ leaseOver)
    /\ lease' = d /\ leaseOver' = FALSE
    /\ Go(d, "read")
    /\ UNCHANGED <<feed, enabled, cursor, wants, config, standing, failures, waiting,
                   mine, reading, pending, streak, net, ghosts>>

Read(d) ==
    /\ at[d] = "read"
    /\ mine' = [mine EXCEPT ![d] = cursor] /\ pending' = [pending EXCEPT ![d] = cursor]
    /\ types' = [types EXCEPT ![d] = wants] /\ conf' = [conf EXCEPT ![d] = config]
    /\ fit' = [fit EXCEPT ![d] = standing]
    /\ Go(d, "page")
    /\ UNCHANGED <<feed, sub, settled, page, short, cut, streak, net, ghosts>>

LostAccess(d) ==
    /\ at[d] = "page" /\ ~fit[d]
    /\ TurnOffAs(d)
    /\ Go(d, "end")
    /\ UNCHANGED <<feed, mine, reading, pending, streak, net, ghosts>>

\* A mutant: the settle window is left out.
ReadPageAtOnce(d) ==
    /\ at[d] = "page" /\ fit[d]
    /\ settled' = [settled EXCEPT ![d] = Open \cup Visible]
    /\ page' = [page EXCEPT ![d] =
                  First({i \in Visible : i > mine[d] /\ kind[i] \in Readable}, MaxEvents)]
    /\ short' = [short EXCEPT ![d] = Cardinality(page'[d]) < MaxEvents]
    /\ excused' = excused \cup {i \in Written : kind[i] \notin types[d]}
    /\ Go(d, "marks")
    /\ UNCHANGED <<feed, sub, mine, types, conf, fit, cut, pending, streak, net,
                   acts, crashes, posted, staleSends>>

\* The idle fast path reads the newest id and the record, and ends as a page
\* without rows does.  A run goes by the types it read before the page.
ReadPage(d) ==
    /\ at[d] = "page" /\ fit[d]
    /\ settled' = [settled EXCEPT ![d] = {i \in Open \cup Visible : age[i] >= SettleTime}]
    /\ page' = [page EXCEPT ![d] =
                  First({i \in Visible : i > mine[d] /\ kind[i] \in Readable
                                           /\ age[i] >= SettleTime}, MaxEvents)]
    /\ short' = [short EXCEPT ![d] = Cardinality(page'[d]) < MaxEvents]
    /\ excused' = excused \cup {i \in Written : kind[i] \notin types[d]}
    /\ Go(d, "marks")
    /\ UNCHANGED <<feed, sub, mine, types, conf, fit, cut, pending, streak, net,
                   acts, crashes, posted, staleSends>>

\* A mutant: the marks of every type count.
CursorExpiredByAny(position, ks) == MarkOf(Kinds) > position

\* cursor_expired, which leaves out the floor.
CursorExpired(position, ks) == MarkOf(ks) > position

CheckMarks(d) ==
    /\ at[d] = "marks"
    /\ IF CursorExpired(mine[d], types[d])
       THEN TurnOffAs(d) /\ Go(d, "end")
       ELSE UNCHANGED sub /\ Go(d, "cut")
    /\ UNCHANGED <<feed, mine, reading, pending, streak, net, ghosts>>

Unsettled(d) ==
    {i \in Visible \ settled[d] :
        i > mine[d] /\ (~short[d] => i <= Max(page[d]))}

\* The run stops before the oldest row that has not settled.
Cut(d) ==
    /\ at[d] = "cut"
    /\ cut' = [cut EXCEPT ![d] = IF Unsettled(d) = {} THEN MaxId + 1 ELSE Min(Unsettled(d))]
    /\ page' = [page EXCEPT ![d] = {i \in @ : i < cut'[d]}]
    /\ short' = [short EXCEPT ![d] = Cardinality(page'[d]) < MaxEvents]
    /\ Go(d, "row")
    /\ UNCHANGED <<feed, sub, mine, types, conf, fit, settled, pending, streak, net, ghosts>>

Head(d) == Min(page[d])

\* A type the subscription does not take.
Skip(d) ==
    /\ at[d] = "row" /\ page[d] # {} /\ kind[Head(d)] \notin types[d]
    /\ pending' = [pending EXCEPT ![d] = Head(d)]
    /\ page' = [page EXCEPT ![d] = @ \ {Head(d)}]
    /\ UNCHANGED <<feed, sub, at, mine, types, conf, fit, settled, short, cut, streak,
                   net, ghosts>>

\* The run's budget is spent.
OutOfTime(d) ==
    /\ at[d] = "row" /\ page[d] # {} /\ kind[Head(d)] \in types[d]
    /\ Go(d, "flush")
    /\ UNCHANGED <<feed, sub, mine, reading, pending, streak, net, ghosts>>

Check(d) ==
    /\ at[d] = "row" /\ page[d] # {} /\ kind[Head(d)] \in types[d]
    /\ Go(d, IF StillConfiguredAsRead(d) THEN "send" ELSE "flush")
    /\ UNCHANGED <<feed, sub, mine, reading, pending, streak, net, ghosts>>

Post(d) ==
    /\ at[d] = "send"
    /\ flying' = flying \cup {Head(d)}
    /\ posted' = [posted EXCEPT ![d] = @ \cup {Head(d)}]
    /\ staleSends' = [staleSends EXCEPT ![d] = IF config # conf[d] THEN @ + 1 ELSE @]
    /\ Go(d, "sent")
    /\ UNCHANGED <<feed, sub, mine, reading, pending, streak, got, acts, crashes, excused>>

\* A 2xx.  The cursor moves, unless the lease or the subscription was lost.
Accepted(d) ==
    /\ at[d] = "sent" /\ Head(d) \in got
    /\ IF MayAdvance(d)
       THEN /\ cursor' = Head(d) /\ failures' = 0
            /\ mine' = [mine EXCEPT ![d] = Head(d)]
            /\ pending' = [pending EXCEPT ![d] = Head(d)]
            /\ page' = [page EXCEPT ![d] = @ \ {Head(d)}]
            /\ Go(d, "row")
       ELSE /\ Go(d, "end")
            /\ UNCHANGED <<cursor, failures, mine, pending, page>>
    /\ UNCHANGED <<feed, enabled, wants, config, standing, waiting, lease, leaseOver,
                   types, conf, fit, settled, short, cut, streak, net, ghosts>>

\* A mutant: the run goes on with the next row.
RefusedButGoOn(d) ==
    /\ at[d] = "sent"
    /\ page' = [page EXCEPT ![d] = @ \ {Head(d)}]
    /\ Go(d, "row")
    /\ UNCHANGED <<feed, sub, mine, types, conf, fit, settled, short, cut, pending,
                   streak, net, ghosts>>

\* An error or no answer: the skipped rows are written first, then the
\* failures are read.  Counts past the limit are not told apart.
Refused(d) ==
    /\ at[d] = "sent"
    /\ LET advance == pending[d] # mine[d] /\ MayAdvance(d)
       IN  /\ cursor' = IF advance THEN pending[d] ELSE cursor
           /\ mine' = [mine EXCEPT ![d] = IF advance THEN pending[d] ELSE @]
    /\ streak' = [streak EXCEPT ![d] = IF failures < MaxFailures THEN failures + 1 ELSE failures]
    /\ Go(d, "failed")
    /\ UNCHANGED <<feed, enabled, wants, config, standing, failures, waiting, lease,
                   leaseOver, reading, pending, net, ghosts>>

\* A mutant: the count is written past the limit.
RecordFailureTwice(d) ==
    /\ at[d] = "failed"
    /\ failures' = streak[d] + 1 /\ waiting' = TRUE
    /\ Go(d, IF streak[d] >= MaxFailures THEN "last" ELSE "end")
    /\ UNCHANGED <<feed, enabled, cursor, wants, config, standing, lease, leaseOver,
                   mine, reading, pending, streak, net, ghosts>>

RecordFailure(d) ==
    /\ at[d] = "failed"
    /\ IF lease = d
       THEN failures' = streak[d] /\ waiting' = TRUE
       ELSE UNCHANGED <<failures, waiting>>
    /\ \E longAgo \in {FALSE, streak[d] > 1} :
          Go(d, IF streak[d] >= MaxFailures \/ longAgo THEN "last" ELSE "end")
    /\ UNCHANGED <<feed, enabled, cursor, wants, config, standing, lease, leaseOver,
                   mine, reading, pending, streak, net, ghosts>>

GiveUp(d) ==
    /\ at[d] = "last"
    /\ TurnOffAs(d)
    /\ Go(d, "end")
    /\ UNCHANGED <<feed, mine, reading, pending, streak, net, ghosts>>

\* Every row was handled: past a short page the cursor may go on to the newest
\* settled row of any kind.
PageDone(d) ==
    /\ at[d] = "row" /\ page[d] = {}
    /\ LET tail == Highest({i \in Visible \cap settled[d] : i < cut[d]})
       IN  pending' = [pending EXCEPT ![d] = IF short[d] /\ tail > @ THEN tail ELSE @]
    /\ Go(d, "flush")
    /\ UNCHANGED <<feed, sub, mine, reading, streak, net, ghosts>>

Flush(d) ==
    /\ at[d] = "flush"
    /\ cursor' = IF MayAdvance(d) THEN pending[d] ELSE cursor
    /\ Go(d, "end")
    /\ UNCHANGED <<feed, enabled, wants, config, standing, failures, waiting, lease,
                   leaseOver, mine, reading, pending, streak, net, ghosts>>

\* The run forgets what it read.
Forget(d) ==
    /\ Go(d, "idle")
    /\ mine' = [mine EXCEPT ![d] = 0] /\ types' = [types EXCEPT ![d] = {}]
    /\ conf' = [conf EXCEPT ![d] = 0] /\ fit' = [fit EXCEPT ![d] = FALSE]
    /\ settled' = [settled EXCEPT ![d] = {}] /\ page' = [page EXCEPT ![d] = {}]
    /\ short' = [short EXCEPT ![d] = FALSE] /\ cut' = [cut EXCEPT ![d] = 0]
    /\ pending' = [pending EXCEPT ![d] = 0] /\ streak' = [streak EXCEPT ![d] = 0]
    /\ posted' = [posted EXCEPT ![d] = {}] /\ staleSends' = [staleSends EXCEPT ![d] = 0]

Finish(d) ==
    /\ at[d] = "end"
    /\ lease' = IF lease = d THEN NoOne ELSE lease
    /\ leaseOver' = IF lease = d THEN FALSE ELSE leaseOver
    /\ Forget(d)
    /\ UNCHANGED <<feed, enabled, cursor, wants, config, standing, failures, waiting,
                   net, acts, crashes, excused>>

Crash(d) ==
    /\ at[d] # "idle" /\ crashes < MaxCrashes
    /\ crashes' = crashes + 1
    /\ Forget(d)
    /\ UNCHANGED <<feed, sub, net, acts, excused>>

-----------------------------------------------------------------------------
(* Time, the network and the receiver.                                      *)

LeaseEnds ==
    /\ lease # NoOne /\ ~leaseOver
    /\ SlowRuns \/ at[lease] = "idle"
    /\ leaseOver' = TRUE
    /\ UNCHANGED <<feed, enabled, cursor, wants, config, standing, failures, waiting,
                   lease, run, net, ghosts>>

BackoffEnds ==
    /\ waiting
    /\ waiting' = FALSE
    /\ UNCHANGED <<feed, enabled, cursor, wants, config, standing, failures, lease,
                   leaseOver, run, net, ghosts>>

\* A POST that is under way may arrive at any time, or never.
Arrive(i) ==
    /\ i \in flying
    /\ flying' = flying \ {i} /\ got' = got \cup {i}
    /\ UNCHANGED <<feed, sub, run, ghosts>>

-----------------------------------------------------------------------------
(* The admins.                                                              *)

Act(op) ==
    /\ op \in AdminOps /\ acts < MaxAdmin
    /\ acts' = acts + 1
    /\ UNCHANGED <<feed, run, net, crashes, posted, staleSends>>

\* A new URL or secret makes the caller the owner.
Reconfigure ==
    /\ Act("reconfigure")
    /\ config' = config + 1 /\ standing' = TRUE
    /\ UNCHANGED <<enabled, cursor, wants, failures, waiting, lease, leaseOver, excused>>

\* What was written while a type was not taken is not owed.
SetTypes(ks) ==
    /\ Act("types") /\ ks # wants
    /\ wants' = ks
    /\ excused' = excused \cup {i \in Written : kind[i] \notin wants \cap ks}
    /\ UNCHANGED <<enabled, cursor, config, standing, failures, waiting, lease, leaseOver>>

\* A delete is a disable that is never taken back.
Disable ==
    /\ Act("disable") /\ enabled
    /\ TurnOff
    /\ UNCHANGED excused

\* A mutant: resume_from: latest takes the newest row that is left.
ReenableAtNewest(from) ==
    /\ Act("reenable")
    /\ cursor' = IF ~enabled /\ from = "latest" THEN NewestEventId ELSE cursor
    /\ excused' = IF ~enabled /\ from = "latest" THEN excused \cup (1 .. next - 1) ELSE excused
    /\ enabled' = TRUE /\ failures' = 0 /\ waiting' = FALSE
    /\ config' = config + 1 /\ standing' = TRUE
    /\ UNCHANGED <<wants, lease, leaseOver>>

Reenable(from) ==
    /\ Act("reenable")
    /\ ~enabled => from = "latest" \/ ~CursorExpired(cursor, wants)
    /\ LET latest == ~enabled /\ from = "latest"
       IN  /\ cursor' = IF latest THEN ResumeCursor ELSE cursor
           /\ excused' = IF latest THEN excused \cup (1 .. next - 1) ELSE excused
    /\ enabled' = TRUE /\ failures' = 0 /\ waiting' = FALSE
    /\ config' = config + 1 /\ standing' = TRUE
    /\ UNCHANGED <<wants, lease, leaseOver>>

\* The configurer loses the board, or the key of the stored secret is lost.
LoseStanding ==
    /\ Act("lose") /\ standing
    /\ standing' = FALSE
    /\ UNCHANGED <<enabled, cursor, wants, config, failures, waiting, lease, leaseOver,
                   excused>>

-----------------------------------------------------------------------------
Step(d) ==
    \/ Read(d) \/ LostAccess(d) \/ ReadPage(d) \/ CheckMarks(d) \/ Cut(d) \/ Skip(d)
    \/ Check(d) \/ Post(d) \/ Accepted(d) \/ Refused(d) \/ RecordFailure(d) \/ GiveUp(d)
    \/ PageDone(d) \/ Flush(d) \/ Finish(d)

Admin ==
    \/ Reconfigure \/ Disable \/ LoseStanding
    \/ \E ks \in Typesets : SetTypes(ks)
    \/ \E from \in {"cursor", "latest"} : Reenable(from)

HookNext ==
    \/ \E d \in Dispatchers : Lease(d) \/ Step(d) \/ OutOfTime(d) \/ Crash(d)
    \/ LeaseEnds \/ BackoffEnds
    \/ \E i \in Ids : Arrive(i)
    \/ Admin

Next == (FeedNext /\ UNCHANGED hook) \/ HookNext

Spec == Init /\ [][Next]_vars

\* The scheduler starts runs again and again; a run goes on until it ends;
\* transactions end and time passes.  The budget is not spent before the first
\* row of every run, which the least-recently-scanned order sees to.  Nothing is
\* asked of the receiver, the admins or the pruner.
FairSpec ==
    /\ Spec
    /\ \A d \in Dispatchers : WF_vars(Lease(d) \/ Step(d)) /\ SF_vars(Check(d))
    /\ WF_vars(LeaseEnds \/ BackoffEnds)
    /\ WF_vars((Tick \/ \E i \in Ids : Commit(i) \/ Rollback(i)) /\ UNCHANGED hook)

-----------------------------------------------------------------------------
TypeOK ==
    /\ FeedTypeOK
    /\ enabled \in BOOLEAN /\ cursor \in 0 .. MaxId /\ wants \in Typesets
    /\ config \in 0 .. MaxAdmin /\ standing \in BOOLEAN
    /\ failures \in 0 .. MaxFailures /\ waiting \in BOOLEAN
    /\ lease \in Dispatchers \cup {NoOne} /\ leaseOver \in BOOLEAN
    /\ at \in [Dispatchers -> Stages]
    /\ mine \in [Dispatchers -> 0 .. MaxId] /\ pending \in [Dispatchers -> 0 .. MaxId]
    /\ types \in [Dispatchers -> SUBSET Readable]
    /\ conf \in [Dispatchers -> 0 .. MaxAdmin] /\ fit \in [Dispatchers -> BOOLEAN]
    /\ settled \in [Dispatchers -> SUBSET Ids] /\ page \in [Dispatchers -> SUBSET Ids]
    /\ short \in [Dispatchers -> BOOLEAN] /\ cut \in [Dispatchers -> 0 .. MaxId + 1]
    /\ streak \in [Dispatchers -> 0 .. MaxFailures]
    /\ flying \in SUBSET Ids /\ got \in SUBSET Ids
    /\ acts \in 0 .. MaxAdmin /\ crashes \in 0 .. MaxCrashes
    /\ excused \in SUBSET Ids /\ posted \in [Dispatchers -> SUBSET Ids]
    /\ staleSends \in [Dispatchers -> Nat]

(***************************************************************************)
(* The cursor passes no row the subscription takes before the receiver has   *)
(* it: not one that committed late, as long as transactions end within the   *)
(* settle window, not one that was pruned or retyped during a run, and       *)
(* whatever run crashed or lost its lease.  Rows written before their type   *)
(* was taken, or given up by resume_from: latest, are not owed.              *)
(***************************************************************************)
NothingSkipped ==
    \A i \in Written \ excused : i <= cursor /\ kind[i] \in wants => i \in got

(***************************************************************************)
(* "Only ever moves forward" (WebhookSubscription.cursor): by a run, by a    *)
(* run that lost its lease meanwhile, or by resume_from: latest on a feed    *)
(* whose newest rows were pruned.                                           *)
(***************************************************************************)
CursorForward == [][cursor' >= cursor]_vars

(***************************************************************************)
(* The receiver gets rows for the first time in the order of their ids,      *)
(* however requests are repeated, delayed or lost.                          *)
(***************************************************************************)
FirstTimesInOrder ==
    [][\A i \in got' \ got : i \notin excused => \A j \in got : j < i]_vars

(***************************************************************************)
(* After a new URL or secret a run that began before sends at most the one   *)
(* row it had already checked (_still_configured_as_read before each row).   *)
(***************************************************************************)
OneStaleSend == \A d \in Dispatchers : staleSends[d] <= 1

(***************************************************************************)
(* cursor_expired is "exact, not an estimate": a run gives it as its reason  *)
(* only when a row it would have been sent was pruned.                       *)
(***************************************************************************)
ExpiredExactly ==
    [][\A d \in Dispatchers :
          at[d] = "marks" /\ at'[d] = "end" =>
              \E i \in Pruned : i > mine[d] /\ kind[i] \in types[d]]_vars

(***************************************************************************)
(* A row the subscription takes is passed by its cursor in the end, or the   *)
(* subscription is turned off: whatever the receiver answers, nothing stays  *)
(* behind a failing row, a lost lease or a back-off for ever.                *)
(***************************************************************************)
Due(i) == enabled /\ i \in Visible /\ kind[i] \in wants /\ i > cursor

NothingWaitsForEver == \A i \in Ids : Due(i) ~> ~Due(i)

(***************************************************************************)
(* "Two overlapping runs never deliver the same row from both: the loser of  *)
(* the lease does nothing" (webhooks/dispatch.py).                           *)
(***************************************************************************)
NeverFromBoth ==
    \A d, e \in Dispatchers : d # e => posted[d] \cap posted[e] = {}
=============================================================================
