----------------------------- MODULE LiveBoard -----------------------------
(***************************************************************************)
(* The cards of one board on one open page: what the server commits and    *)
(* publishes, the frames in flight, and the copy hooks/useBoard.ts keeps    *)
(* from frames, from the answers to its own requests and from reads of      *)
(* /full/, which overtake each other on their three ways to the page.       *)
(*                                                                         *)
(* A version stands for a card's content and cell.  A position is named by  *)
(* the event that set it last, so two positions are equal when and only     *)
(* when no event between them set another.                                 *)
(***************************************************************************)
EXTENDS Integers, FiniteSets

CONSTANTS Cards,
          Worlds,      \* what happens around the page; see World
          MaxEvents,   \* commits on the board
          MaxFetches,  \* reads of /full/
          MaxOwn,      \* requests of the page itself
          MaxGaps      \* closures of the socket

\* ops: the kinds of commit; inOrder: frames arrive in the order of their ids;
\* lossy: the publish may drop one; gaps: the socket may close and open again;
\* top: a move always goes to the top of its cell; own, reads: the page sends
\* requests, the user reads the board again.
World == [ops : SUBSET {"create", "edit", "move", "archive", "restore", "delete"},
          inOrder : BOOLEAN, lossy : BOOLEAN, gaps : BOOLEAN, top : BOOLEAN,
          own : BOOLEAN, reads : BOOLEAN]

ASSUME LiveAssumption == Worlds \subseteq World /\ MaxEvents \in Nat

None == 0            \* no event id
Dragged == -1        \* the position of a card the user has just dropped
Nothing == [none |-> TRUE]

VARIABLES
    world,
    srv,        \* the server's cards
    lastId,     \* the id of the last event
    frames,     \* published and not yet delivered
    screen,     \* board.cards
    posId,      \* positionEventIds: per card, the last event known to have set its position
    fetch,      \* the latest read in flight and its FetchTouches
    own,        \* the request in flight
    open,       \* the socket is open, and in the board's broadcast group
    due,        \* a resync that waits for a drag to end
    missed,     \* ids of frames that fell into a gap of the socket
    lost,       \* ids of frames nothing on the page will make up for by itself
    fetches, owns, gaps
server == <<srv, lastId, frames>>
socket == <<open, due, gaps>>
vars == <<world, server, screen, posId, fetch, own, socket, missed, lost, fetches, owns>>

Copies == [ver : Nat, pos : Int, guess : BOOLEAN]
NotShown == [ver |-> 0, pos |-> 0, guess |-> FALSE]

Active(c) == srv[c].state = "active"
Stored(c) == srv[c].state \in {"active", "archived"}
Shown(c) == screen[c] # NotShown
CopyOf(row) == [ver |-> row.ver, pos |-> row.pos, guess |-> FALSE]
Stale(copy, stored) == copy.ver < stored.ver
InFlight == fetch # Nothing

Init ==
    /\ world \in Worlds
    /\ \E unborn \in (IF "create" \in world.ops THEN SUBSET Cards ELSE {{}}) :
          srv = [c \in Cards |-> IF c \in unborn THEN [state |-> "unborn", ver |-> 0, pos |-> 0]
                                                 ELSE [state |-> "active", ver |-> 1, pos |-> 0]]
    /\ lastId = 0
    /\ frames = {}
    /\ screen = [c \in Cards |-> IF Active(c) THEN CopyOf(srv[c]) ELSE NotShown]
    /\ posId = [c \in Cards |-> None]
    /\ fetch = Nothing
    /\ own = Nothing
    /\ open = TRUE /\ due = FALSE
    /\ missed = {} /\ lost = {}
    /\ fetches = 0 /\ owns = 0 /\ gaps = 0
-----------------------------------------------------------------------------
(* The server: a commit and the frame published after it.                  *)

\* Event e makes card c the row r and moves the cards of shifted aside.
Commit(e, c, r, shifted) ==
    /\ lastId < MaxEvents
    /\ lastId' = lastId + 1
    /\ srv' = [d \in Cards |-> CASE d = c -> r
                                 [] d \in shifted -> [srv[d] EXCEPT !.pos = lastId']
                                 [] OTHER -> srv[d]]
    /\ LET frame == [id |-> lastId', event |-> e, card |-> c, copy |-> CopyOf(r),
                     pairs |-> [d \in shifted |-> srv[d].ver]]
       IN  IF open THEN frames' = frames \cup {frame} /\ UNCHANGED missed
                   ELSE missed' = missed \cup {frame.id} /\ UNCHANGED frames

Edit(c) ==
    /\ Active(c)
    /\ Commit("card.updated", c, [srv[c] EXCEPT !.ver = @ + 1], {})

MoveListingItself(c) ==
    /\ Stored(c)
    /\ Commit("card.moved", c, [srv[c] EXCEPT !.ver = @ + 1, !.pos = lastId + 1], {d \in Cards : Active(d)})

\* The cards a move renumbers are active cards of its two cells.
Move(c) ==
    /\ Stored(c)
    /\ LET others == {d \in Cards \ {c} : Active(d)}
       IN  \E shifted \in (IF world.top THEN {others} ELSE SUBSET others) :
              Commit("card.moved", c, [srv[c] EXCEPT !.ver = @ + 1, !.pos = lastId + 1], shifted)

Create(c) ==
    /\ srv[c].state = "unborn"
    /\ Commit("card.created", c, [state |-> "active", ver |-> 1, pos |-> lastId + 1], {})

\* Archiving, restoring: neither a version nor a position.
Archive(c) ==
    /\ Active(c)
    /\ Commit("card.archived", c, [srv[c] EXCEPT !.state = "archived"], {})

Restore(c) ==
    /\ srv[c].state = "archived"
    /\ Commit("card.unarchived", c, [srv[c] EXCEPT !.state = "active"], {})

Delete(c) ==
    /\ Active(c)
    /\ Commit("card.deleted", c, [srv[c] EXCEPT !.state = "deleted"], {})

Elsewhere ==
    /\ \E c \in Cards :
          \/ "edit" \in world.ops /\ Edit(c)
          \/ "move" \in world.ops /\ Move(c)
          \/ "create" \in world.ops /\ Create(c)
          \/ "archive" \in world.ops /\ Archive(c)
          \/ "restore" \in world.ops /\ Restore(c)
          \/ "delete" \in world.ops /\ Delete(c)
    /\ UNCHANGED <<world, screen, posId, fetch, own, socket, lost, fetches, owns>>

\* The publish to the channel layer fails and is logged (#1462).
Lose ==
    /\ world.lossy
    /\ \E f \in frames : frames' = frames \ {f} /\ lost' = lost \cup {f.id}
    /\ UNCHANGED <<world, srv, lastId, screen, posId, fetch, own, socket, missed, fetches, owns>>

\* The socket closes with frames on their way; it opens again, and the page then
\* owes itself a read (useDeferredResync).
Close ==
    /\ world.gaps /\ open /\ gaps < MaxGaps
    /\ open' = FALSE
    /\ gaps' = gaps + 1
    /\ missed' = missed \cup {f.id : f \in frames}
    /\ frames' = {}
    /\ UNCHANGED <<world, srv, lastId, screen, posId, fetch, own, due, lost, fetches, owns>>

Reopen ==
    /\ ~open
    /\ open' = TRUE
    /\ due' = TRUE
    /\ UNCHANGED <<world, server, screen, posId, fetch, own, gaps, missed, lost, fetches, owns>>
-----------------------------------------------------------------------------
(* The writers of board.cards.  Each records what it changed in the touches *)
(* of the read in flight.                                                  *)

Touch(wrote, placed, gone) ==
    fetch' = IF ~InFlight THEN fetch
             ELSE [fetch EXCEPT !.written = @ \cup wrote, !.placed = @ \cup placed,
                                !.removed = @ \cup gone]

\* isStaleCard guards every replacement: an equal version replaces.
ReplaceUnlessStale(c, copy) ==
    LET applied == Shown(c) /\ ~Stale(copy, screen[c])
    IN  /\ screen' = IF applied THEN [screen EXCEPT ![c] = copy] ELSE screen
        /\ Touch(IF applied THEN {c} ELSE {}, {}, {})

\* Card d's position is a later move's than event id's.
NotCompared(id, d) == FALSE
NewerThan(id, d) == id # None /\ posId[d] > id

\* A frame for a card and, for a move, the siblings it renumbered.
UpdateCard(c, copy, id, pairs) ==
    LET newerThanFrame(d) == NewerThan(id, d)
        stale == Stale(copy, screen[c])
        applied == Shown(c) /\ ~stale
        fresh == IF stale THEN {} ELSE {d \in DOMAIN pairs : ~newerThanFrame(d)}
        placed == {d \in fresh : /\ Shown(d) /\ screen[d].pos # id
                                 /\ pairs[d] >= screen[d].ver}
        recorded == fresh \cup {d \in {c} : ~stale /\ ~newerThanFrame(d)}
        prepared == IF newerThanFrame(c) THEN [copy EXCEPT !.pos = screen[c].pos] ELSE copy
    IN  /\ screen' = [d \in Cards |-> CASE d = c /\ applied -> prepared
                                        [] d \in placed -> [screen[d] EXCEPT !.pos = id]
                                        [] OTHER -> screen[d]]
        /\ posId' = [d \in Cards |-> IF id # None /\ d \in recorded THEN id ELSE posId[d]]
        /\ Touch(IF applied THEN {c} ELSE {}, placed, {})

AddCard(c, copy) ==
    /\ IF Shown(c)
       THEN ReplaceUnlessStale(c, copy)
       ELSE /\ screen' = [screen EXCEPT ![c] = copy]
            /\ Touch({c}, {}, {})
    /\ UNCHANGED posId

\* Recorded even when the card is not on the screen.
RemoveCard(c) ==
    /\ screen' = [screen EXCEPT ![c] = NotShown]
    /\ Touch({}, {}, {c})
    /\ UNCHANGED posId

Deliver ==
    /\ \E f \in frames :
          /\ world.inOrder => \A g \in frames : f.id <= g.id
          /\ frames' = frames \ {f}
          /\ CASE f.event = "card.moved" -> UpdateCard(f.card, f.copy, f.id, f.pairs)
               [] f.event = "card.updated" -> UpdateCard(f.card, f.copy, None, f.pairs)
               [] f.event \in {"card.created", "card.unarchived"} -> AddCard(f.card, f.copy)
               [] f.event \in {"card.archived", "card.deleted"} -> RemoveCard(f.card)
    /\ UNCHANGED <<world, srv, lastId, own, socket, missed, lost, fetches, owns>>
-----------------------------------------------------------------------------
(* load and silentReload: the latest read wins.                            *)

NewFetch == [upTo |-> None, snapshot |-> Nothing, written |-> {}, placed |-> {}, removed |-> {},
             owed |-> missed]

StartFetch ==
    /\ \/ due /\ due' = FALSE /\ UNCHANGED fetches
       \/ world.reads /\ fetches < MaxFetches /\ fetches' = fetches + 1 /\ UNCHANGED due
    /\ fetch' = NewFetch
    /\ UNCHANGED <<world, server, screen, posId, own, open, gaps, missed, lost, owns>>

\* The server reads the board's cards somewhere in between.
ReadSnapshot ==
    /\ InFlight /\ fetch.snapshot = Nothing
    /\ fetch' = [fetch EXCEPT !.upTo = lastId,
                              !.snapshot = [c \in {d \in Cards : Active(d)} |-> CopyOf(srv[c])]]
    /\ UNCHANGED <<world, server, screen, posId, own, socket, missed, lost, fetches, owns>>

MergedWholesale(c, snapshot, touches) == IF c \in DOMAIN snapshot THEN snapshot[c] ELSE NotShown

\* The card c after a snapshot is laid over the screen.
Merged(c, snapshot, touches) ==
    IF c \in DOMAIN snapshot
    THEN CASE ~Shown(c) -> IF c \in touches.removed THEN NotShown ELSE snapshot[c]
           [] Shown(c) /\ c \in touches.written /\ Stale(snapshot[c], screen[c]) -> screen[c]
           [] Shown(c) /\ c \in touches.placed /\ snapshot[c].ver = screen[c].ver ->
                 [snapshot[c] EXCEPT !.pos = screen[c].pos]
           [] OTHER -> snapshot[c]
    ELSE IF c \in touches.written THEN screen[c] ELSE NotShown

ApplySnapshot ==
    /\ InFlight /\ fetch.snapshot # Nothing
    /\ screen' = [c \in Cards |-> Merged(c, fetch.snapshot, fetch)]
    /\ lost' = {i \in lost : i > fetch.upTo}
    /\ missed' = missed \ fetch.owed
    /\ fetch' = Nothing
    /\ UNCHANGED <<world, server, posId, own, socket, fetches, owns>>

\* A resync that fails is swallowed: what the gap dropped waits for the next one.
FailFetch ==
    /\ InFlight
    /\ fetch' = Nothing
    /\ lost' = lost \cup missed
    /\ missed' = {}
    /\ UNCHANGED <<world, server, screen, posId, own, socket, fetches, owns>>
-----------------------------------------------------------------------------
(* The page's own requests.                                                *)

Ask(kind, c) ==
    /\ world.own
    /\ own = Nothing /\ owns < MaxOwn /\ Shown(c)
    /\ owns' = owns + 1
    /\ own' = [kind |-> kind, card |-> c, before |-> screen[c], answer |-> "none", copy |-> NotShown]

\* moveCard shows the card where it was dropped before the server has answered.
StartMove(c) ==
    /\ Ask("move", c)
    /\ screen' = [screen EXCEPT ![c].pos = Dragged, ![c].guess = TRUE]
    /\ UNCHANGED <<world, server, posId, fetch, socket, missed, lost, fetches>>

StartEdit(c) ==
    /\ Ask("edit", c)
    /\ UNCHANGED <<world, server, screen, posId, fetch, socket, missed, lost, fetches>>

Answered(a, copy) == own' = [own EXCEPT !.answer = a, !.copy = copy]

\* The server handles the request.  A move carries the version it was made on and
\* is sent back to reload if that is not the card's; a limit, an archived card or
\* a version may refuse either.
Serve ==
    /\ own # Nothing /\ own.answer = "none"
    /\ LET c == own.card IN
       \/ /\ IF own.kind = "move" THEN srv[c].ver = own.before.ver /\ Move(c) ELSE Edit(c)
          /\ Answered("ok", CopyOf(srv'[c]))
       \/ /\ own.kind = "move" /\ (~Stored(c) \/ srv[c].ver # own.before.ver)
          /\ Answered("reload", NotShown)
          /\ UNCHANGED <<server, missed>>
       \/ /\ Answered("refused", NotShown)
          /\ UNCHANGED <<server, missed>>
    /\ UNCHANGED <<world, screen, posId, fetch, socket, lost, fetches, owns>>

\* rollbackMovedCard: the moved card's location alone, and only while the copy
\* on the screen is still the optimistic one.
RollBack ==
    LET c == own.card IN
    IF Shown(c) /\ ~Stale(own.before, screen[c])
    THEN [screen EXCEPT ![c].pos = own.before.pos, ![c].guess = own.before.guess]
    ELSE screen

\* The answer reaches the page, or the connection breaks before or after the
\* server has handled the request (which it then never does).
TakeAnswer ==
    /\ own # Nothing /\ own.answer = "ok"
    /\ ReplaceUnlessStale(own.card, own.copy)
    /\ own' = Nothing
    /\ UNCHANGED <<world, server, posId, socket, missed, lost, fetches, owns>>

TakeRefusal ==
    /\ own # Nothing
    /\ own' = Nothing
    /\ screen' = IF own.kind = "move" THEN RollBack ELSE screen
    /\ IF own.kind = "move" /\ own.answer = "reload"
       THEN fetch' = NewFetch ELSE UNCHANGED fetch
    /\ UNCHANGED <<world, server, posId, socket, missed, lost, fetches, owns>>

Next ==
    \/ Elsewhere \/ Lose \/ Close \/ Reopen \/ Deliver
    \/ StartFetch \/ ReadSnapshot \/ ApplySnapshot \/ FailFetch
    \/ \E c \in Cards : StartMove(c) \/ StartEdit(c)
    \/ Serve \/ TakeAnswer \/ TakeRefusal

Spec == Init /\ [][Next]_vars
-----------------------------------------------------------------------------
(* Properties.                                                             *)

TypeOK ==
    /\ world \in Worlds
    /\ srv \in [Cards -> [state : {"unborn", "active", "archived", "deleted"}, ver : Nat, pos : Nat]]
    /\ screen \in [Cards -> Copies]
    /\ posId \in [Cards -> 0 .. lastId]
    /\ \A f \in frames : f.id \in 1 .. lastId /\ f.card \notin DOMAIN f.pairs
    /\ InFlight => fetch.written \cup fetch.placed \cup fetch.removed \subseteq Cards
    /\ lost \cup missed \subseteq 1 .. lastId
    /\ open \/ frames = {}

\* Nothing is under way, and no frame was lost but to a gap the page knows of.
Quiet == frames = {} /\ fetch = Nothing /\ own = Nothing /\ open /\ ~due /\ lost = {}

Settled == \A c \in Cards :
    /\ Shown(c) <=> Active(c)
    /\ Shown(c) => screen[c].ver = srv[c].ver /\ ~screen[c].guess

\* Once nothing is under way, the page shows exactly the active cards, each in
\* the version and the cell the server has, whatever frames, answers and reads
\* overtook each other: the older of two copies never stays (#1969), a read
\* does not undo what came during it (#2038), a refused drop is undone, and a
\* gap of the socket in which no card came to the board is made up for (#1463).
ScreenSettles == Quiet => Settled

\* And each card at its place: when frames arrive in order and the page only
\* listens, and for drops at the top of a cell also when the frames arrive in
\* any order, or in order around a read (#1890, #2038).
CellsSettle ==
    /\ Quiet /\ owns = 0 /\ gaps = 0
    /\ \/ world.inOrder /\ fetches = 0
       \/ world.inOrder /\ world.top
       \/ world.top /\ fetches = 0
    => \A c \in Cards : Shown(c) => screen[c].pos = srv[c].pos
=============================================================================
