# Verification of Visiban's board services

Visiban is a kanban server: a Django/DRF backend over PostgreSQL, websockets
through Django Channels, an MCP server, outgoing webhooks and a React client.
This directory holds TLA+ models of its core logic, the TLC runs that check
them and the TLAPS proofs about them. Paths below are relative to
`src/backend/` unless they begin with `src/`.

## Inventory

| Part | State | Operations | What makes it hard |
| --- | --- | --- | --- |
| Card services (`boards/services/cards.py`) | rows of cards, columns, swimlanes, boards, movements, blocks | create, create at position, move, update, block/unblock, archive/restore, delete, the cascade helpers | several SQL statements in a READ COMMITTED transaction; correctness is a protocol of row locks, re-reads, savepoints and retries |
| Structure endpoints (`boards/views/columns.py`, `swimlanes.py`, `boards.py`) | the same rows | column and swimlane create, reorder, delete, settings; board delete | they take whole containers while cards enter and leave them |
| Django admin (`boards/admin.py`, `accounts/admin.py`) | the same rows, accounts | card add, change, delete; user deactivation and delete | decides in the form's `clean()`, saves later |
| Change feed (`boards/broadcast.py`, `services/feed.py`, `prune_board_events.py`) | `board_events`, prune marks | record with the change, read by cursor, prune | ids are given at INSERT and become visible in commit order; prune runs overlap |
| Webhooks (`webhooks/`) | the subscription's cursor, lease and failures | dispatch, disable, re-enable, rotate secret | overlapping runs, leases that expire, a configuration read before it is used |
| Live updates (`broadcast.py`, `consumers.py`, `src/frontend/src/hooks/useBoard.ts`) | channel groups, the client's copy of the board | publish on commit, version rule, optimistic moves, resync | best effort: frames are lost and overtake one another |
| Groups (`groups/`) | tree, memberships, roles, owners | create, re-parent, rename, delete, roles, transfers | subtree and chain locks; the last admin |
| Invites (`groups/invite_registration.py`, `groups/views.py`) | links, redemptions, reservations | create, join, sign up, confirm, revoke | redemption against delete, caps, a reservation that waits |
| Accounts (`accounts/`) | users, tokens, sessions, tickets | log in, change email, deactivate, delete | cached tickets, pending changes |
| MCP server (`mcp_server/`) | throttle buckets in the cache | tools over the card services | non-atomic read-modify-write, documented as approximate |
| Scheduler, migrations | last run, advisory lock | daily jobs, migrate | several replicas start together |
| The rest: notifications, import/export, analytics, share links, custom fields, templates, git lens, seeds, web client | rows of their own | | little shared state |

How they interact: the views lock and write through the card services; each
write records its event in the same transaction and publishes a frame after
COMMIT; REST consumers and the webhook dispatcher read the event rows, open
pages the frames; the groups own boards, and accounts own groups.

What each part must guarantee: the card services, that a committed request did
to the board what it may do when it runs alone, that interleavings deadlock in
one known way only and never end in a server error, and that positions, versions, movement history and
blocks agree with the cards; the feed, that a cursor never silently skips an
event its reader may see; webhooks, at-least-once delivery, in order; live
updates, that a client converges; groups, a tree that always has somebody to act
for it; invites, their caps.

`PROJECT.json` lists the hazards of the code line by line, each with the
properties that would catch it.

## Plan

1. `CardLocks` and the abstract board `BoardContents` it implements. **Done**, and
   proved but for liveness.
2. `CardPositions`, `CardHistory`. **Done**, and proved.
3. `ChangeFeed` with `FeedClient` and `WebhookDispatch` over it. **Done**, and
   proved but for liveness.
4. `LiveBoard`. **Done**, and proved.
5. `GroupTree`, `GroupRows`, `GroupLocks`, `GroupAdmins`, `GroupRequests`. **Done**, and
   proved but for `NoGroupAboveItself`, which is not true in general.
6. Proofs: the refinement of `BoardContents`, the lock orders of cards and of groups,
   the dispatcher, the groups, the numbering and the history of cards, and the page
   are **done**. Left: `CellsSettle` around reads when cards are created as well.
7. Left, models: swimlane settings edited between their unlocked read and the
   swimlane's lock (`cards.py:704`); the scheduler's last run and the migration
   lock; the rows of card children.

## Modules

| Module | Content |
| --- | --- |
| `RowLocks` | PostgreSQL's four row-lock modes, their conflict table, and taking and releasing (external: modelled from how the code uses them) |
| `BoardState` | the committed rows of one board, their counts against limits |
| `BoardContents` | abstract specification: each operation as one atomic step, refused or done as when nobody else runs |
| `CardLocks` | the requests, one SQL statement at a time |
| `CardLocksInvariant` | what each request may rely on at each statement; the inductive invariant `CardsInv`, of which `IInv` is the first part |
| `CardPositions` | how the services number the cards of a cell |
| `CardHistory` | versions and copies of a card, its block rows and its movement rows |
| `ChangeFeed` | the event rows of one board and the prune command |
| `FeedClient` | the events endpoint and the client package's loop, over `ChangeFeed` |
| `WebhookDispatch` | one subscription and its dispatcher runs, over `ChangeFeed` |
| `LiveBoard` | the server's cards, the frames and one open page |
| `GroupTree` | the tree of groups and the walks over it |
| `GroupRows` | the tables and row locks that group requests share |
| `GroupLocks` | requests on the tree, the invite links and the board of a group |
| `GroupAdmins` | requests on members, ownership and accounts |
| `GroupRequests` | the two composed; deadlocks and the properties |
| `GroupsInvariant` | what each of these requests may rely on at each statement; the inductive invariant `GroupsInv`, and `QueueInv`, the order of their locks |
| `CardLocksProofs` | the theorems about `CardLocks`: the invariant, the refinement of `BoardContents` and the lock order |
| `CardPositionsProofs`, `CardHistoryProofs` | the theorems about one card's cells and history |
| `ChangeFeedProofs` | the invariant of the feed, on which the next two rest |
| `FeedProofs`, `WebhookProofs` | the theorems about `FeedClient` and `WebhookDispatch` |
| `GroupProofs` | the theorems about `GroupRequests` |
| `LiveProofs` | the theorems about `LiveBoard` |
| `MC*` | the instances for TLC |

Operators whose comment begins "Fault" or "A mutant" are plausible bugs, several
of them the code as it was before a fix its comments name. No specification uses
them; the mutants of `PROJECT.json` put them in the place of the operator that
follows to show that each property can fail.

### CardLocks and BoardContents

A process is one request in one transaction; `pc` names the SQL statement it is
at. `read` is the unlocked read with its 404s and no-ops; `board` the board row
(`lock_board_for_card_write`, `lock_board_row_or_404`, `_lock_cascade_boards`);
`snap` takes the snapshot of the card-row statement, and `cards` locks its rows
one at a time in pk order, waiting at each; `columns` does the same for the
column rows and ends with the re-check for gone containers and newcomers; `lane`
locks the swimlane; `check` counts against the limits; `write` takes the row
locks of the UPDATEs and DELETEs, in any order, which the request does not
already hold; `fkey` is COMMIT's deferred foreign-key check, which takes FOR KEY
SHARE; and `Commit` makes the writes visible and releases the locks. `Abort` is
PostgreSQL's deadlock detector, which ends one request of a wait cycle. A move that
finds its card changed (`_CardChangedBeforeLock`) starts a new transaction; a
placement or a cascade rolls back to the savepoint it set after the board row.

`BoardContents` has no locks: a create, move, archive, delete and so on each take
one step against the state they find, and find room there. `ImplementsContents`
says that the committed rows of `CardLocks` behave like it, so no limit is passed
and no write lost, whatever interleaves.

Abstractions:

* Weights are left out: an update that grows a card ("grow") may be refused at
  will, once it holds the column. Only hard limits are modelled; `force`
  overrides soft ones, so it never reaches the lock protocol.
* `Counted`, the columns a swimlane's limit counts, and the limits themselves do
  not change during a run; the prune of `limit_column_ids` by a column delete
  keeps its lane locks and loses its effect. Reading these settings before the
  swimlane is locked is a hazard of its own, and the one hazard listed that no
  property covers.
* A transaction's writes appear at its commit, so a request does not see its
  own; nothing in these services reads back what it wrote except the counts,
  which exclude the card written.
* The column statement's snapshot is taken in the step that ends the statement
  before it: no lock is awaited between them.
* `_reject_cell_change` (an update that echoes the card's cell) has no effect on
  the rows and is left out. Roles, ownership gates and validation come before
  the first lock and are left out; so are broadcasts, hooks, activity rows,
  labels, the writers of card children (they lock as `block` does), user rows,
  the admin's adds, deletes and moves to another board. Swimlane create takes
  the locks of column create and is not a separate request.
* Row ids come from sequences and are not reused (`Sensible`).
* The 404 branch of `LockLane` cannot be taken: a request that reaches it holds
  what a swimlane delete needs.

### CardPositions and CardHistory

Each operation is one step here. `CardLocks` shows why that is right: whoever
renumbers a cell holds all its cards until COMMIT (`MembersLocked`), and whoever
writes a card decides on the row it overwrites (`DecidedOnCurrentRow`). What is
read before a lock and used after it is state: the client's `copy`, whose version
it sends, and the admin's `form`.

In `CardPositions`, `Moved` is the body of `_move_card_attempt` from the compaction
of the source cell to the save: the gap is closed among active cards only and only
if the cell is left, the target position is clamped over all siblings, archived
ones included, and all of them make room. `Created` stores the `count()` of
`create_card`; `Place` is `create_card_at_position`, which skips the move when the
position asked for is that count. Equal positions are possible and have no defined
order, so the properties compare positions strictly. `OrderKept` speaks of archived
cards too and names the ties that closing a gap makes: an active card that closes up
may reach an archived one, which keeps its place, and a restore then shows two cards
at one position. `CompactKept` claims no more than the code does: a move between
cells leaves no gap in a cell that had none; moves within a cell, archives and
deletes do leave gaps. Left out: limits (a refusal leaves nothing behind), deletes of
containers, cards of an import (they come with any natural positions, which admin
saves reach too), and adds by the admin form.

In `CardHistory`, cards do not interact. A text stands for all fields a client may
edit, and the cell for column and swimlane. The movement rows keep their type and
the cell they end in. Left out: writes that bump no version and are invisible here
(renumbering of siblings, `clear_viewer_assignees`, the deletion of a user), the
edit of a card by a label or custom-field delete, and movement rows of containers
deleted meanwhile. A version sent is compared once, on the read that the lock
then confirms.

### ChangeFeed, FeedClient and WebhookDispatch

`ChangeFeed` gives every event row a status: open from its INSERT, then visible
or aborted, then pruned, or `lost` when a release that kept no prune record
removed it. A *kind* stands for an event type and its owner, which is what
decides who may read it. Time is the age of each row, so there is no clock to
run out: `age` since `created_at`, `since` since the INSERT, which is at most
`Skew` later. `PruneSelect` and `PruneCommit` are the two halves of a batch, and
runs overlap and crash between them.

`FeedClient` reads the page, then the prune record, then, for a 410, the newest
id and the record again, each in a step of its own, as the `events` action of
`boards/views/boards.py` does in separate statements; the client stores its cursor after each item, and may fail
anywhere. The fields a role may not see inside an event are left out, and so is
the dry run of the prune command.

`WebhookDispatch` is one subscription without a row lock: every write of a run is
a conditional UPDATE on the lease token, and `mine` is the cursor the run believes
in. A run reads the subscription, a page of settled rows, the marks and the oldest
row that has not settled, then per row checks the subscription again, posts, and
advances or records a failure. A POST may arrive late or never, and its answer
may be lost; a run may crash anywhere or outlast its lease (`SlowRuns`). The
admins change URL or secret, types, turn it off and on, or lose their standing.
Left out: the choice among subscriptions, caps and throttles, test sends,
signing with two secrets, the URL guard.

### LiveBoard

The server's cards are versions, states and positions; a position is named by
the event that set it last. Three ways lead to the page and overtake each other:
frames (which the publish may drop), answers to its own requests, and reads of
`/full/`. The writers of `board.cards` in `useBoard.ts` are operators of the same
name (`UpdateCard`, `AddCard`, `RemoveCard`), each recording in the touches of
the read in flight what `Merged` then keeps. `missed` and `lost` are book-keeping of
the model: frames that a gap swallowed and the page owes itself a read for, and
frames it will not make up for; a read takes from `missed` what was there when it began (`owed`). A *world* says what happens around the
page, so that each claim is made where the code makes it.

Known limits, which the properties exclude. Comments and documentation of the code
name two: frames of two reorders that overtake each other drop sibling
positions (`useBoard.ts:836`, `src/docs/api/websockets.md:309`); an archived card
moved during a re-read stays on the screen (`useBoard.ts:222`). Three more it does not mention,
in no run of their own: a card created during a gap of the socket and edited during
the re-read stays at the older version, because `updateCard` records nothing for a
card that is not on the screen yet (`useBoard.ts:862`); positions a sibling gets during a read
at another version are lost, and after two own moves of one card that are both
refused the card stays where it was first dropped. Left out: columns, swimlanes,
labels and members on the page, the socket's access re-check, group channels, and
creates by the page itself.

### Groups

A request is `[op, g, x]` and one transaction, except `enrol`, a sign-up that
reserves a link and is granted in a second transaction when its address is
confirmed. Each reads unlocked (`Ask`, `Walk`), makes a `plan` of row locks that
`Lock` takes one by one, judges the rows it has now locked, and commits with FOR
KEY SHARE on the groups its writes point at. A group delete walks its subtree
again under its locks (`Rewalk`) and locks what it finds, which is the one place
where keys are not taken in order; then Django's collector reads memberships,
links and boards (`Collect`) and deletes them one after the other. PostgreSQL's
deadlock detector is `Abort`: it ends a request of a wait cycle.

`GroupAdmins` has the requests that could leave a group without anybody to act
for it: accounts are locked before groups, and a user delete locks in three rounds
(accounts, the groups it administers, itself) and judges after the second and the
third. Limits of the model:

* The membership rows, which are locked last, are left out: each is written only
  under its group's and its account's lock.
* Callers, senders of links and superusers keep their standing; the links and
  share links that a lost role revokes are not modelled.
* The account is deactivated by the endpoint; a deactivation by PATCH or the admin
  form locks the same row more strongly. That an instance keeps a site admin is
  modelled only by the rows a user delete locks for it (`SiteAdmins`).
* Of a deleted user's data only accounts and memberships: no cards, no boards.
* Whoever creates a group is an admin of it and counts as one (`AdminsOf`,
  `Counted`), but has no account row to lock: no request is about that account, and
  two that would meet at its row meet at the group's.
* Expiry of links, multi-use links, site and board invites are left out.

## Runs

| Run | Instance | Shows |
| --- | --- | --- |
| `cards` | three requests of one of five games: moves in two cells, writes to one card, cascades and reorders, entries to limited containers, a restore against a move and the reorders | types and the bound on retries, one kind of deadlock only, the cards renumbered are all held, every decision on the row it overwrites, no IntegrityError at COMMIT, refinement of `BoardContents` |
| `answers` | any two requests of all of these, weak fairness | each is answered; the inductive invariant `CardsInv` |
| `positions` | three cards, two cells, positions to 3, all operations with the admin | a move lands where it was asked to, reorders nobody else, ties two others in the one way the code allows, and leaves no gap behind |
| `versions` | one card, versions to 4, movement rows to 5, a client's copy and an admin form read earlier | the version orders all copies; block rows and movement rows agree with the card |
| `feed` | three ids, one lost, two pruners, one client of changing role | marks cover what was pruned and never fall, pages have no holes, only rows still open are missed, a 410's cursor can be used |
| `overlap` | two ids, two dispatchers that may outlast their leases, one act of an admin | nothing is skipped, the cursor never goes back, first deliveries are in order, one stale send at most |
| `webhooks` | two ids of two types, one dispatcher with a crash, a pruner, fairness | nothing waits for ever, "expired" is exact, the cursor never goes back when turned on from the newest event |
| `live` | two cards, three commits, one read, one request of the page, one gap | when all is quiet the page shows the board, and the positions where the code promises them |
| `groups` | three requests of one of three games: the tree, the links and the board, admins and accounts; groups of depth 3 | no ring, only re-walks deadlock, no IntegrityError, links admit one user and keep their cap, other saves keep the tree, and a group keeps an active admin and an owner; the inductive invariant `GroupsInv`, types included |

Three runs show where the code and what is written about it disagree (`findings`
in `PROJECT.json`):

| Run | Written | What the code does |
| --- | --- | --- |
| `restore_ring` | "No path takes a card or column row after a swimlane row" (`boards/services/cards.py:1262`) | a restore into a column without a limit holds its swimlane before its column, which its movement row locks at COMMIT; with a column reorder and a move into that swimlane it closes a ring |
| `group_ring` | "the new parent is not the group itself or one of its subgroups" (`src/docs/api/groups.md:148`) | only the ancestors read before the lock are locked: four moves at once close a ring |
| `one_deliverer` | "Two overlapping runs ... never deliver the same row from both" (`webhooks/dispatch.py:19`) | a disable clears the lease of a run with a POST in flight; turned on again, the next run posts the same row |

`restore_ring` ends in a deadlock that PostgreSQL breaks by aborting one request,
and `one_deliverer` is mild: the docs ask receivers to deduplicate by event id.

The model refutes four more remarks about positions, left without a run. A card
created "at the end of its target cell" ties with the last or sorts before it when
the cell has a gap; one placed at that count skips the move and lands there too; the
clamp does not bound stored positions by the cell size (`cards.py:2029`), since every
reorder to the top pushes the others up by one; and closing a gap is not "equivalent
to a full renumber" (`cards.py:2018`), since it passes over archived cards: of c, a, b
at 0, 1, 2 with a archived, a move of c to another cell leaves a and b both at 1
(`OrderKept` allows just this tie, and the run reaches it).

And one about admins, also without a run. An account delete locks the admins of the
groups its account administers, so that the group-admin count "judges active flags
that a concurrent deactivation cannot change before this delete commits"
(`accounts/admin.py:600`). That is true of the groups it listed. If the account is made
an admin of another group between that listing and the lock on the account, the
admins of that group are not among the accounts locked, and one of them may be
deactivated between the last count and the delete. `AdministrationKept` makes an
exception of it (`NewAdmins`), which the game on admins reaches.

### Bounds, and why they are enough

* `cards`: three requests let one wait for a second while a third changes what the
  first has read, and make wait cycles of length three; the request sets contain
  the pairs the source comments describe (#1522, #1566, #1567, #1598, #1602,
  #1605). `MaxTries` is 2 for the code's 3, so that three requests exhaust it.
* `positions` speaks of the card that moves and of two others. In `versions` one
  card stands for all; four versions let a copy fall behind twice and be caught
  up with, five movement rows let a card be archived, moved and restored.
* `feed`: three ids let a row commit after a higher one and be pruned in a batch of
  its own while a page is read; two pruners overlap; a page holds two rows.
* `overlap`, `webhooks`: two rows are a first and its successor. `MaxFailures` is 2,
  the first failure and the one that disables. The settle time exceeds the time a
  transaction takes by one tick: the code calls its window best effort, and a
  transaction that outlasts it is passed over.
* `live`: three commits are a create or move, one that overtakes it, and one
  around the read. The worlds are separate because their product is out of reach,
  and each holds what one claim is about.
* `groups`: a chain of three with a tree cap of 3 reaches the cap both ways; two
  admins and a member of one group, its owner perhaps deactivated, are the last
  admin and the one before; four links reach the cap of 2 (5 in the code) by two
  mints at once. Three requests do not close a ring, four do (`group_ring`, with
  the code's cap of 6).

### Fairness

`answers`: weak fairness of each request's step. A step is enabled when the
statement's next lock can be granted; PostgreSQL grants a lock that nothing
conflicts with, looks for deadlocks by itself (`Abort` is one of the steps), and the
server's threads run. Nothing is assumed about which of
two waiting requests is granted first.

`webhooks`: weak fairness of a dispatcher's next step or next run (the scheduler
or cron starts it again and again), of time passing and of transactions ending, and
strong fairness of the check before a row, because the budget of a run is not spent
before its first row every time: subscriptions are taken least recently scanned
first. Nothing is asked of the receiver, the admins or the pruner.

No other property is a liveness property; `live` states convergence as an
invariant of the states in which nothing is under way.

Deadlock is checked in the runs of `CardLocks` and `GroupRequests`. The other
models may stop: their ids, versions or events are bounded and used up.

## Proofs

The proof modules state properties of the runs for every value of the constants that
the modules' assumptions admit.

**CardLocksProofs**, for any number of requests, cards, columns and swimlanes, any
limits and any `MaxTries >= 1`: `Invariance` (`Spec => []IInv`) and from it
`TypeCorrectness`, `NoForeignKeyFails`, `MembersStayLocked` and
`DecisionsStayCurrent`. The assumptions are those of the modules on their
constants: ids are numbers, the board starts with its cards housed, requests are
well formed. None of the four is inductive alone: that a card cannot enter a cell a
move holds depends on what the *other* request must hold before it commits. `IInv`
says of each request, statement by statement, which rows it holds, in which mode,
and what it has read that is still true (`Good`), together with the compatibility
of all locks held and every card being in an existing column and swimlane. The
argument has two halves. A step that commits nothing (`Quiet`) leaves the rows
alone, so the other requests keep what they had; a commit changes only rows that
the request holds in a mode that excludes anybody who relies on them (`Covered`,
`Excluded`, `GoodThroughCommit`). Each action then needs one lemma about the
request that takes it.

`ContentsRefined`, in the same module: every behaviour of `CardLocks`, seen at its
committed rows, is one of `BoardContents`. A step that is not a commit changes no
row (`ContentsStep`). A commit has the effect of one atomic step, and its guard too:
the card is one the request may act on (`Entitled`), its target is there, its whole
container goes with it, and there is room. The room is what locks are for:
`Admission` proves that whoever adds to a limited column or swimlane has held its row
since before it counted (`LimitColumnHeld`, `LimitLaneHeld`), that a commit adds only
where its request holds the row (`CommitAdds`), and so that a count that left room
still does when the request commits (`RoomKept`). `FiniteAssumption` (finitely many
cards, limits in `Nat`) is there for the counting.

The module also has `CardsInvariance` (`CardsInv`, the whole invariant, which TLC
checks in `answers`) and `DeadlockFreeButRestores`: whenever requests wait for one
another in a circle, one is a column reorder still locking its columns and one a
restore at COMMIT whose column has no limit. `Ordered` says of each request that it
takes its locks by table and, in a statement, by primary key. A request that waits at
one place for another that waits too therefore waits *upwards* (`Edge`), with one
exception, a foreign key at COMMIT (`Back`); a set that waits only upwards has no last
element and cannot be finite (`FiniteMaximal`, `NoAscent`, with `ProcsAssumption`: the
requests in flight are finite), so that each circle contains the exception, and
`KeyNotCascade`, `BackUnlimited` and `KeysBlockNobody` narrow it down to the restore
and the reorder. `restore_ring` shows that this circle exists.

**CardPositionsProofs**, for any finite set of cards, any cells and any bound: the
invariant `Numbering` (every position a natural number within the bound),
`PositionsTyped`, and from them `MovesSplitTheCell`, `TheRestKeepsItsOrder` (of all
the cards of a cell, the archived ones included) and `CompactStaysCompact`. They
assume that the admin form is sent natural numbers (`AdminPositions \subseteq Nat`); with a negative position `MovesSplitTheCell` fails: a
card asked to be below such a sibling lands above it. The argument is arithmetic on one move: `PastFact`
says what the highest sibling is (a least-element argument), `ClampFact` that the
clamp passes over no sibling, and `MovedFact` what a move adds to each position. For `CompactStaysCompact`, a cell
with as many positions as cards has no ties (`CompactUntied`, from the library's
facts on surjections), so that closing the gap frees no number but the last
(`CompactWithout`), and a card lands at most one past the last (`LandsWithin`).

**CardHistoryProofs**, for any cards, cells, texts and bounds: `HistoryTyped`,
`VersionsOrderCopies`, `BlocksAgree` and `TrailFollowsTheCard`. The invariant adds that nobody has read a
card that does not exist yet. Every write either bumps the version, and so leaves
all copies behind, or changes nothing that versions order (archive, restore). The movement rows follow
because each row added says where the card now is, and the last archiving or restore
among them what it now is (`OneMore`); a card that does not exist yet has none.

**ChangeFeedProofs** is the invariant of the event rows, for any number of ids, kinds
and prune runs and any batch size. The one assumption of `ChangeFeed` that is more
than a type is `TxTime + Skew <= Retention`: rows are kept longer than a transaction
lasts (days against seconds). It is what makes prune marks safe: `Aged` says that a
row inserted after an open one is older by the clock's lag at most, and `Settled` that
no transaction is open below a row old enough to be selected or marked. `MarksExact`
is the converse of the marks' safety: with the record that the code keeps, a mark
stands for a row that was pruned.

**FeedProofs**, for any roles and page size: `FeedTyped`, `MarksCover`, `MarksRise`,
`PagesAreComplete`, `OnlyLateRowsAreMissed` and `NextCursorsResume`. The client's half
of the invariant says that a page is the first rows of what had been written when it
was read, but for some that were gone by then (`PageRows`), that whatever is at or
below one of its rows had been committed or was open then (`PageAges`), and that of
the rows every role may see each one at or below the cursor has been seen or was late
(`Passed`, which covers open rows too, so that it survives their commit). A prune
between page and check is then caught by `NotExpired`: if the cursor is not expired,
the rows that were gone are not the reader's.

**WebhookProofs**, for any number of rows, types and overlapping runs, any lease,
retention and limit on failures: `DispatchTyped`, `CursorGoesForward`,
`OneSendIsStale`, `ExpiresExactly`, and, for deliveries, `NoRowIsSkipped` and
`FirstTimesAreInOrder`. `HInv` says that no run is ahead of where `resume_from:
latest` would put the cursor, that its page lies ahead of it (`Positioned`), and that
a run which has sent a row under a replaced configuration has its next check before it
(`Configured`). `DInv` adds what has been delivered: the receiver has every row owed
at or below the cursor, and at or below what a run has passed (`Passed`), and lacks no
row below one it has (`InOrder`). Its heart is the page: no transaction is open below
a row that had settled when the page was read (`SettledRows`), the page has every
owed row up to its end or did not see it as settled (`WholePage`), and the cut at the
oldest unsettled row takes care of those (`WholeCut`). Those two have hypotheses that the constants alone do not give.
`SettlesFirst` (`TxTime + Skew < SettleTime`): a transaction ends within the settle
window; the code calls the window best effort, and a transaction that outlasts it is
passed over. `PruneWaits`: in the instant between the page query and the query for
unsettled rows that follows it (`webhooks/dispatch.py:463-495`), no row goes from
unsettled to pruned; that takes days. The run `overlap` has no pruner and so meets
it; in `webhooks`, which has one, the two properties are not checked.

**GroupProofs**, for any finite sets of groups, links and accounts, any requests in
flight on them and any caps: `GroupsInvariance` (`Spec => []GroupsInv`) and from it
`Types`, `NoIntegrityErrors`, `LinksLimited`, `TreeKept` and `AdministrationStays`. The
assumptions are the modules' own: requests name what they may (`RequestAssumption`),
account ids are numbers (`AccountAssumption`), and at first each group has an owner
who is an admin of it, links and parents point at groups that are there, and no group
has more unused links than its cap (`StartAssumption`). `Good` says of each request what
it holds, statement by statement, or still has in its plan: the chain above a move
(`WalkLocked`), a closed set of groups below a delete, with every link and the board
in it (`DeleteReady`), the accounts of all admins of the groups an account delete will
judge (`DismissReady`), and what it has decided on (`MemberReady`, `MintReady`,
`LinkReady`, `SaveReady`). The argument has the two halves that `CardLocks` has.
`Effects` lists all that a step may do to the tables, each with the row lock under
which it is done; `OthersGood` concludes, once and for all actions, that no other
request loses anything, because the modes exclude one another. Then each action keeps
its own request's part (`StepKeeps` and the lemmas `...Keeps`, one to an action or a
kind of write). The walks are recursive functions; what is needed of them (a chain is
closed upwards, a subtree downwards, and both reach all there is: `AllReached`) is
proved by a least-element argument over the number of steps, and the order of a
statement's keys exists by the same means (`InOrder`). For
`AdministrationStays` the commit that takes an admin away either counted another whose
account it holds, or is a deactivation, or a group got new admins meanwhile
(`MoreAdmins`, `AdminLeft`, `LastAdmin`).

`RewalksOnly` (`Spec => []OnlyRewalksDeadlock`) needs a second invariant, `QueueInv`
(`QueueInvariance`), on top of the first: a statement's rows come after all the
request holds, accounts before groups before links before the board and each in the
order of the keys (`LocksRise`), but for the two that come back (`Returns`); a link is
locked under its group (`LinksUnder`), a delete takes the board last (`BoardLast`), and
nobody shares an account (`AccountModes`). It is proved only; no run checks it. Take a
circle without a delete in its second round. Nobody in it waits at COMMIT for the
group it points at, which it has locked before; nobody for a link, which the other
can have only with the group that this one holds; nobody for the board, for whoever has that wants nothing more; and an account delete that comes back
holds its account already. What is left waits for accounts and groups in the order of
the keys, and whoever wants the greatest of them waits for a request that wants a
greater one.

**LiveProofs**, for any cards, worlds, and bounds on commits, reads, requests and gaps:
`LiveInvariance` (`Spec => []IInv`), `LiveTypes`, `PageSettles` and `PlacesSettle`; the one assumption is that the worlds are worlds.
That nothing is wrong once nothing is under way is far from inductive. `IInv` says what
is true meanwhile: of each card, that its frames on their way bring the version the page
shows to the server's (`Fine`: the version is current or a frame brings it, and a card that comes
or goes has its last such frame still to come), in `Now` on top of what is on the page and
in `Then` on top of what the read under way will leave there (`After`, the versions of
`Merged`). Around them it needs that no copy is newer than the server's and that a
snapshot is at least as new as whatever was not written since it was taken (`Versions`),
that a guess belongs to the request in flight (`Guesses`), and that what a gap dropped is
owed to a read (`Gaps`). `Fine` is shown step by step by lemmas on sets of frames
(`FineUpdated`, `FineCame`, `FineLeft`, `FineRaised`, `FineDropped`, `FineAdded`, `FineRemoved`), one step at a time for every
way a card is written; the writers are then told apart only by whether they wrote the
card, left it alone or took it away (`Wrote`, `Untouched`, `TookAway`).

`PageSettles` is `Spec => [](Settling => ScreenSettles)`: `ScreenSettles` is false in
general, by the known limits above, and `Settling` names the worlds in which it is true,
more than those the run checks. Where cards are only edited and moved, anything may be
lost, reordered or dropped by a gap. Where none comes to the board, none may be lost,
and with gaps the page may ask for nothing itself and an archived card may not be moved.
Everywhere else the frames must be in order and none missed. Each of these has its own
part of the invariant (`StayingWorld`, `LeavingWorld`, `WholeWorld`, `GapWorld`).

`PlacesSettle` is `Spec => [](Placing => CellsSettle)`, by the invariant `Places` on top
of `IInv`. With frames in order and no read, each active card is where the server has it
and no frame takes it elsewhere, or a frame is to come that finds the card on the page,
puts it at its place, and is followed by none that says otherwise (`Brings`, `Met`,
`Steady`). With drops at the top of a cell every move places all its cards: the frame of
the last one is still to come, and will win over any copy, or the page has its positions
and knows them to be its (`posId`), or the read under way has them (`AtTop`). `Places`
rests on cards being only moved, archived and deleted there. The run also has cards
created and restored around a read, which is not proved; with edits as well it is false,
one of the limits above.

Only model-checked: of the groups, `NoGroupAboveItself`, which is false for four moves at
once (see `group_ring`); of the page, `CellsSettle` in the worlds of the run that are
outside `Placing` (cards created and restored around a read, and worlds with gaps of the
socket while none has happened); and `EveryRequestAnswered` and
`NothingWaitsForEver`, since liveness under fairness is outside what the prover handles.

## Not modelled

The components of `PROJECT.json` with status `not_modelled` give their reasons.
In short: conversions between formats (import, export, templates, analytics,
seeds) have no concurrent state; notifications, share links and the git lens
write rows nothing else decides on; the MCP tools call the services modelled here;
the writers of card children lock as `block` does. Swimlane settings and the
scheduler are next (Plan, 7). Of the large files, `boards/serializers.py`,
`import_export.py` and the seed commands are field lists and data without
protocol.
