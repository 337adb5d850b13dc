----------------------------- MODULE LiveProofs -----------------------------
(***************************************************************************)
(* Proofs about LiveBoard, for any cards, commits, reads, requests and gaps *)
(* of the socket: that what the page shows settles, and each card's place.  *)
(***************************************************************************)
EXTENDS LiveBoard, TLAPS

-----------------------------------------------------------------------------
(* What one card's frames on their way still do to the page.               *)

AddEvents == {"card.created", "card.unarchived"}
RemoveEvents == {"card.archived", "card.deleted"}
UpdateEvents == {"card.updated", "card.moved"}

Adds(P) == {f \in P : f.event \in AddEvents}
Removals(P) == {f \in P : f.event \in RemoveEvents}
Updates(P) == {f \in P : f.event \in UpdateEvents}

\* Version v is the server's, or a frame after event i brings it.
Current(ver, P, v, i) == v = ver \/ \E f \in Updates(P) : f.id > i /\ f.copy.ver = ver

\* The card is still to come, after whatever takes it away.
Comes(ver, P) ==
    \E r \in Adds(P) : (\A g \in Removals(P) : g.id < r.id) /\ Current(ver, P, r.copy.ver, r.id)

Goes(P) == \E g \in Removals(P) : \A r \in Adds(P) : r.id < g.id

\* Version v on the page (0: not shown) becomes what the server has of the card
\* by the frames P alone.
Fine(active, ver, P, v) ==
    IF active THEN (v # 0 /\ Removals(P) = {} /\ Current(ver, P, v, 0)) \/ Comes(ver, P)
              ELSE (v = 0 /\ Adds(P) = {}) \/ Goes(P)

\* The version a read leaves on the page: see Merged.
MergedVer(v, in, sv, w, g) ==
    IF in THEN IF v = 0 THEN (IF g THEN 0 ELSE sv) ELSE IF w /\ v > sv THEN v ELSE sv
          ELSE IF w THEN v ELSE 0

-----------------------------------------------------------------------------
(* The invariant.                                                          *)

Of(c) == {f \in frames : f.card = c}
Taken == InFlight /\ fetch.snapshot # Nothing
In(c) == c \in DOMAIN fetch.snapshot
After(c) == MergedVer(screen[c].ver, In(c), fetch.snapshot[c].ver, c \in fetch.written, c \in fetch.removed)

FetchType ==
    /\ fetch \in [upTo : Nat, snapshot : {fetch.snapshot}, written : SUBSET Cards,
                  placed : SUBSET Cards, removed : SUBSET Cards, owed : SUBSET (1 .. lastId)]
    /\ fetch.upTo <= lastId
    /\ Taken => /\ DOMAIN fetch.snapshot \subseteq Cards
                /\ \A c \in DOMAIN fetch.snapshot :
                      /\ fetch.snapshot[c] \in Copies
                      /\ ~fetch.snapshot[c].guess
                      /\ fetch.snapshot[c].ver \in 1 .. srv[c].ver

OwnRecord == [kind : {"move", "edit"}, card : Cards, before : Copies,
              answer : {"none", "ok", "reload", "refused"}, copy : Copies]

OwnType == own \in OwnRecord

FrameType(f) ==
    /\ f.id \in 1 .. lastId
    /\ f.card \in Cards
    /\ f.event \in AddEvents \cup RemoveEvents \cup UpdateEvents
    /\ f.copy \in Copies /\ ~f.copy.guess
    /\ f.copy.ver \in 1 .. srv[f.card].ver
    /\ DOMAIN f.pairs \subseteq Cards \ {f.card}

Types ==
    /\ TypeOK
    /\ lastId \in Nat
    /\ open \in BOOLEAN /\ due \in BOOLEAN
    /\ \A f \in frames : FrameType(f)
    /\ InFlight => FetchType
    /\ own # Nothing => OwnType

\* No copy is newer than the server's, and every version but the unborn's is one.
Versions ==
    /\ \A c \in Cards : /\ srv[c].ver = 0 <=> srv[c].state = "unborn"
                        /\ screen[c].ver <= srv[c].ver
                        /\ screen[c].ver = 0 <=> screen[c] = NotShown
    /\ own # Nothing /\ own.answer = "ok" =>
          /\ own.copy.ver \in 1 .. srv[own.card].ver
          /\ ~own.copy.guess
    /\ Taken => \A c \in DOMAIN fetch.snapshot :
          /\ \A f \in Of(c) : f.id <= fetch.upTo => f.copy.ver <= fetch.snapshot[c].ver
          /\ c \notin fetch.written => screen[c].ver <= fetch.snapshot[c].ver

\* A guess is that of the request in flight, on the copy it was made on.
Guesses ==
    /\ own # Nothing => ~own.before.guess
    /\ \A c \in Cards : screen[c].guess =>
          /\ own # Nothing /\ own.kind = "move" /\ own.card = c
          /\ screen[c].ver = own.before.ver
    /\ own # Nothing /\ own.kind = "move" /\ own.answer = "ok" => own.copy.ver > own.before.ver

\* What a gap dropped is not owed for ever: a read is due or under way.
Gaps ==
    /\ missed # {} => ~open \/ due \/ (InFlight /\ missed \subseteq fetch.owed)
    /\ \A f \in frames : f.id \notin missed /\ (InFlight => f.id \notin fetch.owed)

Whole == ~world.gaps /\ ~world.lossy
Leaving == world.ops \cap {"create", "restore"} = {}
Staying == world.ops \subseteq {"edit", "move"}

\* The read under way makes up for every frame that is owed.
Covered == (\A i \in lost : i <= fetch.upTo) /\ missed \subseteq fetch.owed

\* With nothing owed, the frames on their way bring the page up to date.
Now == lost = {} /\ missed = {} => \A c \in Cards : Fine(Active(c), srv[c].ver, Of(c), screen[c].ver)

\* So they do on top of the read that is under way.
Then == Taken /\ Covered => \A c \in Cards : Fine(Active(c), srv[c].ver, Of(c), After(c))

\* Without a gap or a loss.
WholeWorld ==
    /\ open
    /\ lost = {} /\ missed = {}
    /\ Taken => \A c \in Cards :
          /\ In(c) /\ screen[c].ver = 0 /\ c \notin fetch.removed =>
                \E r \in Adds(Of(c)) : r.id <= fetch.upTo
          /\ ~In(c) /\ screen[c].ver # 0 /\ c \notin fetch.written =>
                \E g \in Removals(Of(c)) : g.id <= fetch.upTo

\* Where no card comes to the board.
LeavingWorld ==
    /\ Adds(frames) = {}
    /\ \A c \in Cards :
          /\ srv[c].state # "unborn"
          /\ Active(c) => screen[c].ver # 0 /\ Removals(Of(c)) = {}
          /\ Taken => /\ Active(c) => In(c)
                      /\ In(c) /\ screen[c].ver = 0 => c \in fetch.removed

\* And none leaves it.
StayingWorld == \A c \in Cards : Active(c)

\* With gaps of the socket: whatever could write a card that has left the board
\* comes with the frame that takes it off the page.
GapWorld ==
    /\ own # Nothing => world.own
    /\ "archive" \notin world.ops => \A c \in Cards : srv[c].state # "archived"
    /\ \A c \in Cards : ~Active(c) /\ screen[c].ver # 0 =>
          /\ Updates(Of(c)) # {} => Removals(Of(c)) # {}
          /\ InFlight /\ c \in fetch.written => Removals(Of(c)) # {} \/ ~(missed \subseteq fetch.owed)

\* The worlds in which the page settles: those in which cards are only edited and
\* moved, whatever happens; those in which none comes to the board, without a
\* loss, and with gaps only if the page itself asks for nothing and an archived
\* card is not moved; and all others with the frames in order and none missed.
Settling ==
    \/ Staying
    \/ Leaving /\ ~world.lossy
       /\ (world.gaps => ~world.own /\ ~({"archive", "move"} \subseteq world.ops))
    \/ world.inOrder /\ Whole

Settles ==
    /\ Now /\ Then
    /\ Whole => WholeWorld
    /\ Leaving => LeavingWorld
    /\ Staying => StayingWorld
    /\ world.gaps => GapWorld

IInv == Types /\ Versions /\ Guesses /\ Gaps /\ (Settling => Settles)

-----------------------------------------------------------------------------
(* What a commit, a delivery and an answer do to one card's versions.       *)

\* A set of frames, as far as the lemmas need one.
FramesOk(P) == \A f \in P : f.id \in Nat \ {0} /\ f.copy.ver \in Nat \ {0}

\* A new version, and the frame that brings it.
LEMMA FineUpdated ==
    ASSUME NEW active \in BOOLEAN, NEW ver \in Nat, NEW P, NEW v \in Nat, FramesOk(P),
           NEW n, n.event \in UpdateEvents, n.copy.ver = ver + 1, n.id \in Nat \ {0},
           \A f \in P : f.id < n.id, Fine(active, ver, P, v)
    PROVE  Fine(active, ver + 1, P \cup {n}, v)
<1>1. Adds(P \cup {n}) = Adds(P) /\ Removals(P \cup {n}) = Removals(P)
      /\ n \in Updates(P \cup {n})
  BY DEF Adds, Removals, Updates, AddEvents, RemoveEvents, UpdateEvents
<1>2. \A x, i : i < n.id => Current(ver + 1, P \cup {n}, x, i)
  BY <1>1 DEF Current
<1>3. \A r \in Adds(P) : r.id < n.id
  BY DEF Adds
<1>4. 0 < n.id
  OBVIOUS
<1> QED BY <1>1, <1>2, <1>3, <1>4 DEF Fine, Comes, Goes

\* A card that comes to the board, and the frame that says so.
LEMMA FineCame ==
    ASSUME NEW ver \in Nat, NEW P, NEW v \in Nat,
           NEW n, n.event \in AddEvents, n.copy.ver = ver, \A f \in P : f.id < n.id
    PROVE  Fine(TRUE, ver, P \cup {n}, v)
<1>1. n \in Adds(P \cup {n}) /\ Removals(P \cup {n}) = Removals(P)
  BY DEF Adds, Removals, AddEvents, RemoveEvents
<1>2. \A g \in Removals(P) : g.id < n.id
  BY DEF Removals
<1> QED BY <1>1, <1>2 DEF Fine, Comes, Current

\* A card that leaves the board, and the frame that says so.
LEMMA FineLeft ==
    ASSUME NEW ver \in Nat, NEW P, NEW v \in Nat,
           NEW n, n.event \in RemoveEvents, \A f \in P : f.id < n.id
    PROVE  Fine(FALSE, ver, P \cup {n}, v)
<1>1. n \in Removals(P \cup {n}) /\ Adds(P \cup {n}) = Adds(P)
  BY DEF Adds, Removals, AddEvents, RemoveEvents
<1>2. \A r \in Adds(P) : r.id < n.id
  BY DEF Adds
<1> QED BY <1>1, <1>2 DEF Fine, Goes

\* A newer copy on the page, from wherever it comes.
LEMMA FineRaised ==
    ASSUME NEW active \in BOOLEAN, NEW ver \in Nat, NEW P, NEW v \in Nat, NEW w \in Nat,
           Fine(active, ver, P, v), v <= w, w <= ver,
           v = 0 /\ w # 0 /\ ~active => Goes(P)
    PROVE  Fine(active, ver, P, w)
  BY DEF Fine, Current

\* An update that is delivered, or lost, once the page has its version.
LEMMA FineDropped ==
    ASSUME NEW active \in BOOLEAN, NEW ver \in Nat, NEW P, NEW v \in Nat, FramesOk(P),
           NEW f \in P, f.event \in UpdateEvents, Fine(active, ver, P, v),
           v # 0 /\ f.copy.ver = ver => v = ver,
           Adds(P) = {} \/ \A g \in P : f.id <= g.id
    PROVE  Fine(active, ver, P \ {f}, v)
<1>1. Adds(P \ {f}) = Adds(P) /\ Removals(P \ {f}) = Removals(P) /\ Updates(P \ {f}) = Updates(P) \ {f}
  BY DEF Adds, Removals, Updates, AddEvents, RemoveEvents, UpdateEvents
<1>2. v # 0 /\ Current(ver, P, v, 0) => Current(ver, P \ {f}, v, 0)
  BY <1>1 DEF Current
<1>3. ASSUME NEW r \in Adds(P), Current(ver, P, r.copy.ver, r.id)
      PROVE  Current(ver, P \ {f}, r.copy.ver, r.id)
  <2>1. r \in P /\ f.id <= r.id /\ f.id \in Nat /\ r.id \in Nat
    BY DEF Adds, FramesOk
  <2>2. CASE r.copy.ver = ver
    BY <2>2 DEF Current
  <2>3. CASE r.copy.ver # ver
    <3>1. PICK g \in Updates(P) : g.id > r.id /\ g.copy.ver = ver
      BY <1>3, <2>3 DEF Current
    <3>2. g # f
      BY <2>1, <3>1
    <3> QED BY <1>1, <3>1, <3>2 DEF Current
  <2> QED BY <2>2, <2>3
<1> QED BY <1>1, <1>2, <1>3 DEF Fine, Comes, Goes

\* A card that comes by its frame, unless a read has already settled that it is
\* still to go.
LEMMA FineAdded ==
    ASSUME NEW active \in BOOLEAN, NEW ver \in Nat, NEW P, NEW v \in Nat, NEW w \in Nat, FramesOk(P),
           NEW f \in P, f.event \in AddEvents, Fine(active, ver, P, v),
           \A g \in P : f.id <= g.id,
           \/ w # 0 /\ v <= w /\ f.copy.ver <= w /\ w <= ver
           \/ w = v /\ v = 0 /\ Removals(P) # {}
    PROVE  Fine(active, ver, P \ {f}, w)
<1>1. Adds(P \ {f}) = Adds(P) \ {f} /\ Removals(P \ {f}) = Removals(P) /\ Updates(P \ {f}) = Updates(P)
      /\ f \in Adds(P)
  BY DEF Adds, Removals, Updates, AddEvents, RemoveEvents, UpdateEvents
<1>2. \A g \in Removals(P) : g \in P /\ g.id \in Nat /\ f.id \in Nat /\ ~(g.id < f.id)
  BY DEF Removals, FramesOk
<1>3. \A x, i : Current(ver, P \ {f}, x, i) <=> Current(ver, P, x, i)
  BY <1>1 DEF Current
<1>4. CASE ~active
  <2>1. Goes(P)
    BY <1>1, <1>4 DEF Fine
  <2> QED BY <1>1, <1>4, <2>1 DEF Fine, Goes
<1>5. CASE active /\ ~Comes(ver, P)
  <2>1. v # 0 /\ Removals(P) = {} /\ Current(ver, P, v, 0)
    BY <1>5 DEF Fine
  <2>2. w # 0 /\ Current(ver, P, w, 0)
    BY <2>1 DEF Current
  <2> QED BY <1>1, <1>3, <1>5, <2>1, <2>2 DEF Fine
<1>6. CASE active /\ Comes(ver, P)
  <2>1. PICK r \in Adds(P) : (\A g \in Removals(P) : g.id < r.id) /\ Current(ver, P, r.copy.ver, r.id)
    BY <1>6 DEF Comes
  <2>2. CASE r # f
    BY <1>1, <1>3, <1>6, <2>1, <2>2 DEF Fine, Comes
  <2>3. CASE r = f
    <3>1. Removals(P) = {}
      BY <1>2, <2>1, <2>3
    <3>2. w # 0 /\ f.copy.ver <= w /\ w <= ver
      BY <3>1
    <3>3. f.copy.ver \in Nat /\ f.id > 0
      BY DEF FramesOk
    <3>4. \A g \in Updates(P) : g.id > f.id => g.id > 0
      BY <3>3 DEF FramesOk, Updates
    <3>5. Current(ver, P, w, 0)
      BY <2>1, <2>3, <3>2, <3>3, <3>4 DEF Current
    <3> QED BY <1>1, <1>3, <1>6, <3>1, <3>2, <3>5 DEF Fine
  <2> QED BY <2>2, <2>3
<1> QED BY <1>4, <1>5, <1>6

\* A card that goes by its frame.
LEMMA FineRemoved ==
    ASSUME NEW active \in BOOLEAN, NEW ver \in Nat, NEW P, NEW v \in Nat, FramesOk(P),
           NEW f \in P, f.event \in RemoveEvents, Fine(active, ver, P, v),
           Adds(P) = {} \/ \A g \in P : f.id <= g.id
    PROVE  Fine(active, ver, P \ {f}, 0)
<1>1. Adds(P \ {f}) = Adds(P) /\ Removals(P \ {f}) = Removals(P) \ {f} /\ Updates(P \ {f}) = Updates(P)
      /\ f \in Removals(P)
  BY DEF Adds, Removals, Updates, AddEvents, RemoveEvents, UpdateEvents
<1>2. \A x, i : Current(ver, P \ {f}, x, i) <=> Current(ver, P, x, i)
  BY <1>1 DEF Current
<1>3. CASE active
  <2>1. Comes(ver, P)
    BY <1>1, <1>3 DEF Fine
  <2> QED BY <1>1, <1>2, <1>3, <2>1 DEF Fine, Comes
<1>4. CASE ~active /\ Adds(P) = {}
  BY <1>1, <1>4 DEF Fine
<1>5. CASE ~active /\ Adds(P) # {}
  <2>1. PICK g \in Removals(P) : \A r \in Adds(P) : r.id < g.id
    BY <1>5 DEF Fine, Goes
  <2>2. g # f
    BY <1>5, <2>1 DEF Adds, FramesOk
  <2> QED BY <1>1, <1>5, <2>1, <2>2 DEF Fine, Goes
<1> QED BY <1>3, <1>4, <1>5

-----------------------------------------------------------------------------
(* The record of a read and of a request, and what a writer changes of it.  *)

FetchRecord(snapshot) ==
    [upTo : Nat, snapshot : {snapshot}, written : SUBSET Cards, placed : SUBSET Cards,
     removed : SUBSET Cards, owed : SUBSET (1 .. lastId)]

LEMMA Records ==
    /\ \A snapshot : Nothing \notin FetchRecord(snapshot)
    /\ Nothing \notin OwnRecord
<1>1. DOMAIN Nothing = {"none"}
  BY DEF Nothing
<1>2. ASSUME NEW snapshot, NEW x \in FetchRecord(snapshot) PROVE x # Nothing
  <2>1. DOMAIN x = {"upTo", "snapshot", "written", "placed", "removed", "owed"}
    BY <1>2 DEF FetchRecord
  <2>2. "upTo" \in DOMAIN x /\ "upTo" \notin DOMAIN Nothing
    BY <1>1, <2>1
  <2> QED BY <2>2
<1>3. ASSUME NEW x \in OwnRecord PROVE x # Nothing
  <2>1. DOMAIN x = {"kind", "card", "before", "answer", "copy"}
    BY <1>3 DEF OwnRecord
  <2>2. "kind" \in DOMAIN x /\ "kind" \notin DOMAIN Nothing
    BY <1>1, <2>1
  <2> QED BY <2>2
<1> QED BY <1>2, <1>3

\* The read in flight is the same but for its touches.
SameFetch ==
    /\ InFlight' <=> InFlight
    /\ ~InFlight => fetch' = fetch
    /\ InFlight => /\ fetch' \in FetchRecord(fetch.snapshot)
                   /\ fetch'.upTo = fetch.upTo
                   /\ fetch'.snapshot = fetch.snapshot
                   /\ fetch'.owed = fetch.owed

LEMMA Touched ==
    ASSUME InFlight => FetchType, NEW wrote \in SUBSET Cards, NEW placed \in SUBSET Cards,
           NEW gone \in SUBSET Cards, Touch(wrote, placed, gone)
    PROVE  /\ SameFetch
           /\ InFlight => /\ fetch'.written = fetch.written \cup wrote
                          /\ fetch'.placed = fetch.placed \cup placed
                          /\ fetch'.removed = fetch.removed \cup gone
<1>1. CASE ~InFlight
  BY <1>1 DEF Touch, SameFetch, InFlight
<1>2. CASE InFlight
  <2>1. fetch \in FetchRecord(fetch.snapshot)
    BY <1>2 DEF FetchType, FetchRecord
  <2>2. fetch' = [[[fetch EXCEPT !.written = fetch.written \cup wrote]
                          EXCEPT !.placed = fetch.placed \cup placed]
                          EXCEPT !.removed = fetch.removed \cup gone]
    BY <1>2, <2>1 DEF Touch, FetchRecord
  <2>3. /\ fetch' \in FetchRecord(fetch.snapshot)
        /\ fetch'.upTo = fetch.upTo /\ fetch'.snapshot = fetch.snapshot /\ fetch'.owed = fetch.owed
        /\ fetch'.written = fetch.written \cup wrote
        /\ fetch'.placed = fetch.placed \cup placed
        /\ fetch'.removed = fetch.removed \cup gone
    BY <2>1, <2>2 DEF FetchRecord
  <2>4. InFlight'
    BY <2>3, Records DEF InFlight
  <2> QED BY <1>2, <2>3, <2>4 DEF SameFetch
<1> QED BY <1>1, <1>2

\* What a writer does to one card.
Wrote(c, ver) ==
    /\ screen'[c].ver = ver /\ ~screen'[c].guess
    /\ InFlight => c \in fetch'.written /\ (c \in fetch'.removed <=> c \in fetch.removed)

Untouched(c) ==
    /\ screen'[c].ver = screen[c].ver /\ screen'[c].guess = screen[c].guess
    /\ InFlight => /\ c \in fetch'.written <=> c \in fetch.written
                   /\ c \in fetch'.removed <=> c \in fetch.removed

TookAway(c) ==
    /\ screen'[c] = NotShown
    /\ InFlight => c \in fetch'.removed /\ (c \in fetch'.written <=> c \in fetch.written)

\* A page whose every card was written by a writer.
ScreenOk ==
    /\ screen' \in [Cards -> Copies]
    /\ \A d \in Cards : screen'[d].ver = 0 <=> screen'[d] = NotShown

LEMMA ReplacedUnlessStale ==
    ASSUME Types, Versions, NEW c \in Cards, NEW copy \in Copies, copy.ver # 0, ~copy.guess,
           ReplaceUnlessStale(c, copy)
    PROVE  /\ SameFetch /\ ScreenOk
           /\ \A d \in Cards \ {c} : Untouched(d)
           /\ IF screen[c].ver # 0 /\ screen[c].ver <= copy.ver THEN Wrote(c, copy.ver) ELSE Untouched(c)
<1> DEFINE applied == Shown(c) /\ ~Stale(copy, screen[c])
<1>1. screen \in [Cards -> Copies] /\ (InFlight => FetchType)
  BY DEF Types, TypeOK
<1>2. screen[c].ver \in Nat /\ copy.ver \in Nat
  BY <1>1 DEF Copies
<1>3. applied <=> screen[c].ver # 0 /\ screen[c].ver <= copy.ver
  BY <1>2 DEF Versions, Shown, Stale
<1>4. /\ screen' = IF applied THEN [screen EXCEPT ![c] = copy] ELSE screen
      /\ Touch(IF applied THEN {c} ELSE {}, {}, {})
  BY DEF ReplaceUnlessStale
<1> HIDE DEF applied
<1> DEFINE wrote == IF applied THEN {c} ELSE {}
<1>5. wrote \in SUBSET Cards /\ {} \in SUBSET Cards /\ Touch(wrote, {}, {})
  BY <1>4
<1> HIDE DEF wrote
<1>6. /\ SameFetch
      /\ InFlight => fetch'.written = fetch.written \cup wrote /\ fetch'.removed = fetch.removed \cup {}
  BY <1>1, <1>5, Touched
<1>7. ScreenOk
  <2>1. copy # NotShown
    BY DEF NotShown
  <2>2. CASE applied
    BY <1>1, <1>4, <2>1, <2>2 DEF ScreenOk, Versions
  <2>3. CASE ~applied
    BY <1>1, <1>4, <2>3 DEF ScreenOk, Versions
  <2> QED BY <2>2, <2>3
<1>8. \A d \in Cards \ {c} : Untouched(d)
  BY <1>1, <1>4, <1>6 DEF Untouched, wrote
<1>9. IF applied THEN Wrote(c, copy.ver) ELSE Untouched(c)
  BY <1>1, <1>4, <1>6 DEF Untouched, Wrote, wrote
<1> QED BY <1>3, <1>6, <1>7, <1>8, <1>9

LEMMA Removed ==
    ASSUME Types, Versions, NEW c \in Cards, RemoveCard(c)
    PROVE  /\ SameFetch /\ ScreenOk
           /\ \A d \in Cards \ {c} : Untouched(d)
           /\ TookAway(c)
<1>1. screen \in [Cards -> Copies] /\ (InFlight => FetchType)
  BY DEF Types, TypeOK
<1>2. screen' = [screen EXCEPT ![c] = NotShown] /\ Touch({}, {}, {c})
  BY DEF RemoveCard
<1>3. /\ SameFetch
      /\ InFlight => fetch'.written = fetch.written \cup {} /\ fetch'.removed = fetch.removed \cup {c}
  <2>1. {c} \in SUBSET Cards /\ {} \in SUBSET Cards
    OBVIOUS
  <2> QED BY <1>1, <1>2, <2>1, Touched
<1>4. ScreenOk
  BY <1>1, <1>2 DEF ScreenOk, Versions, NotShown, Copies
<1> QED BY <1>1, <1>2, <1>3, <1>4 DEF Untouched, TookAway

LEMMA Added ==
    ASSUME Types, Versions, NEW c \in Cards, NEW copy \in Copies, copy.ver # 0, ~copy.guess,
           AddCard(c, copy)
    PROVE  /\ SameFetch /\ ScreenOk
           /\ \A d \in Cards \ {c} : Untouched(d)
           /\ IF screen[c].ver <= copy.ver THEN Wrote(c, copy.ver) ELSE Untouched(c)
<1>1. screen \in [Cards -> Copies] /\ (InFlight => FetchType)
  BY DEF Types, TypeOK
<1>2. CASE Shown(c)
  <2>1. ReplaceUnlessStale(c, copy) /\ screen[c].ver # 0
    BY <1>2 DEF AddCard, Shown, Versions
  <2> QED BY <2>1, ReplacedUnlessStale
<1>3. CASE ~Shown(c)
  <2>1. screen' = [screen EXCEPT ![c] = copy] /\ Touch({c}, {}, {}) /\ screen[c].ver = 0
    BY <1>3 DEF AddCard, Shown, Versions
  <2>2. /\ SameFetch
        /\ InFlight => fetch'.written = fetch.written \cup {c} /\ fetch'.removed = fetch.removed \cup {}
    <3>1. {c} \in SUBSET Cards /\ {} \in SUBSET Cards
      OBVIOUS
    <3> QED BY <1>1, <2>1, <3>1, Touched
  <2>3. ScreenOk
    BY <1>1, <2>1 DEF ScreenOk, Versions, NotShown, Copies
  <2>4. screen[c].ver <= copy.ver
    BY <2>1 DEF Copies
  <2> QED BY <1>1, <2>1, <2>2, <2>3, <2>4 DEF Untouched, Wrote
<1> QED BY <1>2, <1>3

LEMMA Updated ==
    ASSUME Types, Versions, NEW f \in frames, NEW id \in {None, f.id},
           UpdateCard(f.card, f.copy, id, f.pairs)
    PROVE  /\ SameFetch /\ ScreenOk
           /\ posId' \in [Cards -> 0 .. lastId]
           /\ \A d \in Cards \ {f.card} : Untouched(d)
           /\ IF screen[f.card].ver # 0 /\ screen[f.card].ver <= f.copy.ver
              THEN Wrote(f.card, f.copy.ver) ELSE Untouched(f.card)
<1> DEFINE c == f.card
           copy == f.copy
           newerThanFrame(d) == NewerThan(id, d)
           stale == Stale(copy, screen[c])
           applied == Shown(c) /\ ~stale
           fresh == IF stale THEN {} ELSE {d \in DOMAIN f.pairs : ~newerThanFrame(d)}
           placed == {d \in fresh : /\ Shown(d) /\ screen[d].pos # id
                                    /\ f.pairs[d] >= screen[d].ver}
           recorded == fresh \cup {d \in {c} : ~stale /\ ~newerThanFrame(d)}
           prepared == IF newerThanFrame(c) THEN [copy EXCEPT !.pos = screen[c].pos] ELSE copy
<1>1. /\ screen \in [Cards -> Copies] /\ (InFlight => FetchType) /\ FrameType(f)
      /\ posId \in [Cards -> 0 .. lastId] /\ lastId \in Nat
  BY DEF Types, TypeOK
<1>2. /\ screen' = [d \in Cards |-> CASE d = c /\ applied -> prepared
                                      [] d \in placed -> [screen[d] EXCEPT !.pos = id]
                                      [] OTHER -> screen[d]]
      /\ posId' = [d \in Cards |-> IF id # None /\ d \in recorded THEN id ELSE posId[d]]
      /\ Touch(IF applied THEN {c} ELSE {}, placed, {})
  BY DEF UpdateCard
<1>3. c \in Cards /\ copy \in Copies /\ copy.ver # 0 /\ ~copy.guess /\ screen[c] \in Copies
  BY <1>1 DEF FrameType
<1>4. applied <=> screen[c].ver # 0 /\ screen[c].ver <= copy.ver
  BY <1>3 DEF Versions, Shown, Stale, Copies
<1>5. placed \in SUBSET (Cards \ {c}) /\ recorded \in SUBSET Cards
  BY <1>1, <1>3 DEF FrameType
<1>6. id \in 0 .. lastId /\ id \in Int
  BY <1>1 DEF FrameType, None
<1>7. prepared \in Copies /\ prepared.ver = copy.ver /\ ~prepared.guess
  BY <1>3 DEF Copies
<1>8. \A d \in placed : screen[d] \in Copies /\ screen[d].ver # 0
  BY <1>1, <1>5 DEF Versions, Shown
<1>9. posId' \in [Cards -> 0 .. lastId]
  BY <1>1, <1>2, <1>5, <1>6
<1> HIDE DEF applied, placed, recorded, prepared
<1> DEFINE wrote == IF applied THEN {c} ELSE {}
<1>10. wrote \in SUBSET Cards /\ {} \in SUBSET Cards /\ placed \in SUBSET Cards /\ Touch(wrote, placed, {})
  BY <1>2, <1>3, <1>5
<1> HIDE DEF wrote
<1>11. /\ SameFetch
       /\ InFlight => fetch'.written = fetch.written \cup wrote /\ fetch'.removed = fetch.removed \cup {}
  BY <1>1, <1>10, Touched
<1>12. ASSUME NEW d \in Cards
       PROVE  /\ screen'[d] \in Copies
              /\ screen'[d].ver = 0 <=> screen'[d] = NotShown
              /\ screen'[d].ver = (IF d = c /\ applied THEN copy.ver ELSE screen[d].ver)
              /\ screen'[d].guess = (IF d = c /\ applied THEN FALSE ELSE screen[d].guess)
  <2>1. /\ NotShown.ver = 0 /\ screen[d] \in Copies
        /\ screen[d].ver = 0 <=> screen[d] = NotShown
    BY <1>1 DEF NotShown, Versions
  <2>2. screen'[d] = CASE d = c /\ applied -> prepared
                       [] d \in placed -> [screen[d] EXCEPT !.pos = id]
                       [] OTHER -> screen[d]
    BY <1>2
  <2>3. CASE d = c /\ applied
    <3>1. d \notin placed
      BY <1>5, <2>3
    <3>2. screen'[d] = prepared
      BY <2>2, <2>3, <3>1
    <3>3. screen'[d] \in Copies /\ screen'[d].ver = copy.ver /\ screen'[d].guess = FALSE
      BY <1>7, <3>2
    <3>4. screen'[d] # NotShown /\ screen'[d].ver # 0
      BY <1>3, <2>1, <3>3
    <3> QED BY <2>3, <3>3, <3>4
  <2>4. CASE ~(d = c /\ applied) /\ d \in placed
    <3>1. screen'[d] = [screen[d] EXCEPT !.pos = id]
      BY <2>2, <2>4
    <3>2. screen'[d].ver # 0 /\ screen'[d] \in Copies
          /\ screen'[d].ver = screen[d].ver /\ screen'[d].guess = screen[d].guess
      BY <1>6, <1>8, <2>1, <2>4, <3>1 DEF Copies
    <3> QED BY <2>1, <2>4, <3>2
  <2>5. CASE ~(d = c /\ applied) /\ d \notin placed
    <3>1. screen'[d] = screen[d]
      BY <2>2, <2>5
    <3> QED BY <2>1, <2>5, <3>1
  <2> QED BY <2>3, <2>4, <2>5
<1>13. ScreenOk
  BY <1>2, <1>12 DEF ScreenOk
<1>14. \A d \in Cards \ {c} : Untouched(d)
  BY <1>7, <1>11, <1>12 DEF Untouched, wrote
<1>15. IF applied THEN Wrote(c, copy.ver) ELSE Untouched(c)
  BY <1>3, <1>7, <1>11, <1>12 DEF Untouched, Wrote, wrote
<1> QED BY <1>4, <1>9, <1>11, <1>13, <1>14, <1>15

-----------------------------------------------------------------------------
(* Frames that arrive.                                                     *)

\* What each card of the page may be to a writer.
Writer ==
    /\ SameFetch /\ ScreenOk
    /\ posId' \in [Cards -> 0 .. lastId]
    /\ \A d \in Cards : Untouched(d) \/ TookAway(d) \/ \E ver \in 1 .. srv[d].ver : Wrote(d, ver)

\* What a frame does to its own card.
Arrives(f) ==
    LET v == screen[f.card].ver IN
    /\ f.event \in UpdateEvents =>
          IF v # 0 /\ v <= f.copy.ver THEN Wrote(f.card, f.copy.ver) ELSE Untouched(f.card)
    /\ f.event \in AddEvents =>
          IF v <= f.copy.ver THEN Wrote(f.card, f.copy.ver) ELSE Untouched(f.card)
    /\ f.event \in RemoveEvents => TookAway(f.card)

LEMMA Delivered ==
    ASSUME Types, Versions, NEW f \in frames, UNCHANGED <<srv, lastId>>,
           CASE f.event = "card.moved" -> UpdateCard(f.card, f.copy, f.id, f.pairs)
             [] f.event = "card.updated" -> UpdateCard(f.card, f.copy, None, f.pairs)
             [] f.event \in {"card.created", "card.unarchived"} -> AddCard(f.card, f.copy)
             [] f.event \in {"card.archived", "card.deleted"} -> RemoveCard(f.card)
    PROVE  /\ Writer
           /\ Arrives(f)
           /\ \A d \in Cards \ {f.card} : Untouched(d)
<1>1. FrameType(f) /\ posId \in [Cards -> 0 .. lastId]
  BY DEF Types, TypeOK
<1>2. f.card \in Cards /\ f.copy \in Copies /\ f.copy.ver \in 1 .. srv[f.card].ver /\ ~f.copy.guess
      /\ f.copy.ver # 0
  BY <1>1 DEF FrameType
<1>3. CASE f.event \in UpdateEvents
  <2>1. \E id \in {None, f.id} : UpdateCard(f.card, f.copy, id, f.pairs)
    BY <1>3 DEF UpdateEvents
  <2>2. f.event \notin AddEvents /\ f.event \notin RemoveEvents
    BY <1>3 DEF UpdateEvents, AddEvents, RemoveEvents
  <2> QED BY <1>2, <1>3, <2>1, <2>2, Updated DEF Writer, Arrives
<1>4. CASE f.event \in AddEvents
  <2>1. AddCard(f.card, f.copy) /\ posId' = posId
    BY <1>4 DEF AddEvents, AddCard
  <2>2. f.event \notin UpdateEvents /\ f.event \notin RemoveEvents
    BY <1>4 DEF UpdateEvents, AddEvents, RemoveEvents
  <2> QED BY <1>1, <1>2, <1>4, <2>1, <2>2, Added DEF Writer, Arrives
<1>5. CASE f.event \in RemoveEvents
  <2>1. RemoveCard(f.card) /\ posId' = posId
    BY <1>5 DEF RemoveEvents, RemoveCard
  <2>2. f.event \notin UpdateEvents /\ f.event \notin AddEvents
    BY <1>5 DEF UpdateEvents, AddEvents, RemoveEvents
  <2> QED BY <1>1, <1>2, <1>5, <2>1, <2>2, Removed DEF Writer, Arrives
<1> QED BY <1>1, <1>3, <1>4, <1>5 DEF FrameType

\* A writer keeps the types, and no copy becomes newer than the server's.
LEMMA WriterTypes ==
    ASSUME Types, Versions, Writer, frames' \subseteq frames,
           UNCHANGED <<world, srv, lastId, open, due, missed, lost>>,
           own' = own \/ own' = Nothing
    PROVE  Types' /\ Versions'
<1>1. /\ TypeOK /\ (InFlight => FetchType) /\ (own # Nothing => OwnType) /\ screen \in [Cards -> Copies]
      /\ srv \in [Cards -> [state : {"unborn", "active", "archived", "deleted"}, ver : Nat, pos : Nat]]
  BY DEF Types, TypeOK
<1>2. InFlight' => InFlight /\ FetchType
  BY <1>1 DEF Writer, SameFetch
<1>3. InFlight' => FetchType'
  <2> HAVE InFlight'
  <2>1. /\ InFlight /\ fetch' \in FetchRecord(fetch.snapshot) /\ fetch'.snapshot = fetch.snapshot
        /\ fetch'.upTo = fetch.upTo
    BY <1>2 DEF Writer, SameFetch
  <2>2. fetch' \in [upTo : Nat, snapshot : {fetch'.snapshot}, written : SUBSET Cards,
                    placed : SUBSET Cards, removed : SUBSET Cards, owed : SUBSET (1 .. lastId')]
    BY <2>1 DEF FetchRecord
  <2>3. Taken' => Taken
    BY <2>1 DEF Taken, InFlight
  <2> QED BY <1>2, <2>1, <2>2, <2>3 DEF FetchType
<1>4. TypeOK'
  <2>1. InFlight' => fetch'.written \cup fetch'.placed \cup fetch'.removed \subseteq Cards
    BY <1>3 DEF FetchType
  <2>2. screen' \in [Cards -> Copies] /\ posId' \in [Cards -> 0 .. lastId']
    BY DEF Writer, ScreenOk
  <2> QED BY <1>1, <2>1, <2>2 DEF TypeOK
<1>5. own' # Nothing => OwnType'
  BY <1>1 DEF OwnType
<1>6. \A f \in frames' : FrameType(f)'
  BY DEF Types, FrameType
<1>7. Types'
  BY <1>3, <1>4, <1>5, <1>6 DEF Types
<1>8. ASSUME NEW c \in Cards
      PROVE  /\ screen'[c].ver <= srv[c].ver
             /\ screen'[c].ver = 0 <=> screen'[c] = NotShown
             /\ InFlight /\ c \notin fetch'.written => screen'[c].ver <= screen[c].ver
  <2>1. screen'[c].ver = 0 <=> screen'[c] = NotShown
    BY DEF Writer, ScreenOk
  <2>2. screen[c].ver \in Nat /\ screen[c].ver <= srv[c].ver /\ srv[c].ver \in Nat
    BY <1>1 DEF Versions, Copies
  <2>3. CASE Untouched(c)
    BY <2>1, <2>2, <2>3 DEF Untouched
  <2>4. CASE TookAway(c)
    BY <2>1, <2>2, <2>4 DEF TookAway
  <2>5. CASE \E ver \in 1 .. srv[c].ver : Wrote(c, ver)
    BY <2>1, <2>2, <2>5 DEF Wrote
  <2> QED BY <2>3, <2>4, <2>5 DEF Writer
<1>9. Taken' => Taken /\ fetch'.snapshot = fetch.snapshot /\ fetch'.upTo = fetch.upTo
  BY DEF Taken, Writer, SameFetch, InFlight
<1>10. Taken' => \A c \in DOMAIN fetch'.snapshot :
          /\ \A f \in Of(c)' : f.id <= fetch'.upTo => f.copy.ver <= fetch'.snapshot[c].ver
          /\ c \notin fetch'.written => screen'[c].ver <= fetch'.snapshot[c].ver
  <2> HAVE Taken'
  <2> TAKE c \in DOMAIN fetch'.snapshot
  <2>1. /\ Taken /\ InFlight /\ c \in DOMAIN fetch.snapshot /\ fetch'.snapshot = fetch.snapshot
        /\ fetch'.upTo = fetch.upTo /\ FetchType
    BY <1>1, <1>9 DEF Taken
  <2>2. c \in Cards /\ fetch.snapshot[c].ver \in Nat /\ fetch.snapshot[c] \in Copies
    BY <2>1 DEF FetchType, Copies
  <2>3. Of(c)' \subseteq Of(c)
    BY DEF Of
  <2>4. c \notin fetch'.written => c \notin fetch.written
    <3>1. CASE Untouched(c)
      BY <2>1, <3>1 DEF Untouched
    <3>2. CASE TookAway(c)
      BY <2>1, <3>2 DEF TookAway
    <3>3. CASE \E ver \in 1 .. srv[c].ver : Wrote(c, ver)
      BY <2>1, <3>3 DEF Wrote
    <3> QED BY <2>2, <3>1, <3>2, <3>3 DEF Writer
  <2>5. c \notin fetch.written => screen[c].ver <= fetch.snapshot[c].ver
    BY <2>1 DEF Versions
  <2>6. screen[c].ver \in Nat /\ screen'[c].ver \in Nat
    BY <1>1, <1>4, <2>2 DEF TypeOK, Copies
  <2>7. \A f \in Of(c) : f.id <= fetch.upTo => f.copy.ver <= fetch.snapshot[c].ver
    BY <2>1 DEF Versions
  <2> QED BY <1>8, <2>1, <2>2, <2>3, <2>4, <2>5, <2>6, <2>7
<1>11. own' # Nothing /\ own'.answer = "ok" => own'.copy.ver \in 1 .. srv'[own'.card].ver /\ ~own'.copy.guess
  BY DEF Versions
<1> QED BY <1>7, <1>8, <1>10, <1>11 DEF Versions

LEMMA WriterGaps ==
    ASSUME Gaps, SameFetch, frames' \subseteq frames, UNCHANGED <<open, due, missed>>
    PROVE  Gaps'
  BY DEF Gaps, SameFetch

\* What the read under way leaves of a card no writer touched, of one it wrote and
\* of one it took away.
LEMMA AfterWriter ==
    ASSUME Types, Versions, SameFetch, Taken, NEW c \in Cards
    PROVE  /\ screen[c].ver \in Nat /\ srv[c].ver \in Nat /\ screen[c].ver <= srv[c].ver
           /\ In(c) \in BOOLEAN /\ (In(c)' <=> In(c)) /\ fetch'.upTo = fetch.upTo
           /\ In(c) => fetch.snapshot[c].ver \in 1 .. srv[c].ver
           /\ After(c) \in Nat
           /\ Untouched(c) => After(c)' = After(c)
           /\ TookAway(c) => After(c)' = 0
           /\ \A ver \in 1 .. srv[c].ver : screen[c].ver <= ver /\ Wrote(c, ver) =>
                 /\ After(c)' \in Nat \ {0} /\ After(c) <= After(c)'
                 /\ ver <= After(c)' /\ After(c)' <= srv[c].ver
<1>1. /\ InFlight /\ InFlight' /\ fetch'.snapshot = fetch.snapshot /\ fetch'.upTo = fetch.upTo /\ FetchType
      /\ screen \in [Cards -> Copies]
      /\ srv \in [Cards -> [state : {"unborn", "active", "archived", "deleted"}, ver : Nat, pos : Nat]]
  BY DEF Types, TypeOK, SameFetch, Taken
<1>2. screen[c].ver \in Nat /\ srv[c].ver \in Nat /\ screen[c].ver <= srv[c].ver
  BY <1>1 DEF Versions, Copies
<1>3. In(c) => fetch.snapshot[c].ver \in 1 .. srv[c].ver
  BY <1>1 DEF FetchType, In
<1>4. In(c) \in BOOLEAN /\ (In(c)' <=> In(c))
  BY <1>1 DEF In
<1> DEFINE sv == fetch.snapshot[c].ver
           w == c \in fetch.written
           g == c \in fetch.removed
<1>5. After(c) = MergedVer(screen[c].ver, In(c), sv, w, g)
      /\ After(c)' = MergedVer(screen'[c].ver, In(c), sv, c \in fetch'.written, c \in fetch'.removed)
  BY <1>1 DEF After, In
<1>6. After(c) \in Nat
  BY <1>2, <1>3, <1>5 DEF MergedVer
<1>7. Untouched(c) => After(c)' = After(c)
  BY <1>1, <1>5 DEF Untouched
<1>8. TookAway(c) => After(c)' = 0
  <2> HAVE TookAway(c)
  <2>1. screen'[c].ver = 0 /\ c \in fetch'.removed
    BY <1>1 DEF TookAway, NotShown
  <2> QED BY <1>5, <2>1 DEF MergedVer
<1>9. ASSUME NEW ver \in 1 .. srv[c].ver, screen[c].ver <= ver, Wrote(c, ver)
      PROVE  /\ After(c)' \in Nat \ {0} /\ After(c) <= After(c)'
             /\ ver <= After(c)' /\ After(c)' <= srv[c].ver
  <2>1. screen'[c].ver = ver /\ c \in fetch'.written /\ (c \in fetch'.removed <=> g)
    BY <1>1, <1>9 DEF Wrote
  <2>2. ver \in Nat \ {0} /\ ver <= srv[c].ver
    BY <1>2
  <2>3. CASE ~In(c)
    <3>1. After(c)' = ver /\ After(c) \in {0, screen[c].ver}
      BY <1>5, <2>1, <2>2, <2>3 DEF MergedVer
    <3> QED BY <1>2, <1>9, <2>2, <3>1
  <2>4. CASE In(c)
    <3>1. sv \in Nat \ {0} /\ sv <= srv[c].ver
      BY <1>2, <1>3, <2>4
    <3>2. After(c)' = IF ver > sv THEN ver ELSE sv
      BY <1>5, <2>1, <2>2, <2>4 DEF MergedVer
    <3>3. After(c) \in {0, sv, screen[c].ver}
      BY <1>5, <2>4 DEF MergedVer
    <3> QED BY <1>2, <1>9, <2>2, <3>1, <3>2, <3>3
  <2> QED BY <2>3, <2>4
<1> QED BY <1>1, <1>2, <1>3, <1>4, <1>6, <1>7, <1>8, <1>9

\* What Settling excludes.
LEMMA WorldFacts ==
    ASSUME world \in World, Settling
    PROVE  /\ Leaving \/ (world.inOrder /\ Whole)
           /\ Whole \/ Leaving
           /\ Staying => Leaving
           /\ world.lossy => Staying
           /\ world.gaps => \/ Staying
                            \/ ~world.own /\ ~({"archive", "move"} \subseteq world.ops)
  BY DEF Settling, Leaving, Whole, Staying, World

\* A card that is shown, though it has left the board, and still has an update to
\* come, or may have an answer to come, has its removal to come.
LEMMA Going ==
    ASSUME Types, Settling, Settles, NEW c \in Cards, ~Active(c), screen[c].ver # 0,
           Updates(Of(c)) # {} \/ own # Nothing
    PROVE  Goes(Of(c))
<1>1. world \in World
  BY LiveAssumption DEF Types, TypeOK
<1>2. CASE Whole
  <2>1. Fine(Active(c), srv[c].ver, Of(c), screen[c].ver)
    BY <1>2 DEF Settles, WholeWorld, Now
  <2> QED BY <2>1 DEF Fine
<1>3. CASE ~Whole
  <2>1. ~Staying
    BY DEF Settles, StayingWorld
  <2>2. world.gaps /\ Leaving /\ ~world.own
    BY <1>1, <1>3, <2>1, WorldFacts DEF Whole
  <2>3. Removals(Of(c)) # {} /\ Adds(frames) = {}
    BY <2>2 DEF Settles, GapWorld, LeavingWorld
  <2> QED BY <2>3 DEF Goes, Adds, Of
<1> QED BY <1>2, <1>3

\* The frames of a card, as the lemmas above take them.
LEMMA OfCard ==
    ASSUME Types, NEW c \in Cards
    PROVE  /\ FramesOk(Of(c))
           /\ Active(c) \in BOOLEAN /\ srv[c].ver \in Nat /\ screen[c].ver \in Nat
           /\ \A f \in Of(c) : f.id \in 1 .. lastId /\ f.copy.ver \in 1 .. srv[c].ver
<1>1. /\ \A f \in frames : FrameType(f)
      /\ lastId \in Nat /\ screen \in [Cards -> Copies]
      /\ srv \in [Cards -> [state : {"unborn", "active", "archived", "deleted"}, ver : Nat, pos : Nat]]
  BY DEF Types, TypeOK
<1>2. Active(c) \in BOOLEAN /\ srv[c].ver \in Nat /\ screen[c].ver \in Nat
  BY <1>1 DEF Active, Copies
<1>3. \A f \in Of(c) : f.id \in 1 .. lastId /\ f.copy.ver \in 1 .. srv[c].ver
  BY <1>1 DEF Of, FrameType
<1> QED BY <1>1, <1>2, <1>3 DEF FramesOk

\* A frame that arrives keeps its card on its way to the server's version.
LEMMA ArrivalFine ==
    ASSUME Types, Versions, Settling, Settles, Writer, NEW f \in frames,
           world.inOrder => \A g \in frames : f.id <= g.id, Arrives(f),
           NEW c \in Cards, c = f.card
    PROVE  /\ Fine(Active(c), srv[c].ver, Of(c), screen[c].ver) =>
                 Fine(Active(c), srv[c].ver, Of(c) \ {f}, screen'[c].ver)
           /\ Taken /\ Fine(Active(c), srv[c].ver, Of(c), After(c)) =>
                 Fine(Active(c), srv[c].ver, Of(c) \ {f}, After(c)')
<1> DEFINE P == Of(c)
           active == Active(c)
           ver == srv[c].ver
           v == screen[c].ver
           w == screen'[c].ver
<1>1. /\ FramesOk(P) /\ active \in BOOLEAN /\ ver \in Nat /\ v \in Nat /\ v <= ver
      /\ f \in P /\ f.copy.ver \in 1 .. ver /\ f.event \in AddEvents \cup RemoveEvents \cup UpdateEvents
      /\ f.id \in Nat
  <2>1. f \in P /\ FrameType(f)
    BY DEF Of, Types
  <2>2. v <= ver
    BY DEF Versions
  <2> QED BY <2>1, <2>2, OfCard DEF FrameType
<1>2. world \in World
  BY LiveAssumption DEF Types, TypeOK
<1>3. Adds(P) = {} \/ \A g \in P : f.id <= g.id
  <2>1. CASE Leaving
    BY <2>1 DEF Settles, LeavingWorld, Adds, Of
  <2>2. CASE world.inOrder
    BY <2>2 DEF Of
  <2> QED BY <1>2, <2>1, <2>2, WorldFacts
<1>4. SameFetch
  BY DEF Writer
<1>5. CASE f.event \in UpdateEvents
  <2>1. f \in Updates(P)
    BY <1>1, <1>5 DEF Updates
  <2>2. CASE v # 0 /\ v <= f.copy.ver
    <3>1. Wrote(c, f.copy.ver) /\ w = f.copy.ver
      BY <1>5, <2>2 DEF Arrives, Wrote
    <3>2. ~active => Goes(P)
      BY <2>1, <2>2, Going
    <3>3. ASSUME Fine(active, ver, P, v) PROVE Fine(active, ver, P \ {f}, w)
      <4>1. Fine(active, ver, P, w)
        BY <1>1, <2>2, <3>1, <3>3, FineRaised
      <4> QED BY <1>1, <1>3, <1>5, <3>1, <4>1, FineDropped
    <3>4. ASSUME Taken, Fine(active, ver, P, After(c)) PROVE Fine(active, ver, P \ {f}, After(c)')
      <4>1. /\ After(c) \in Nat /\ After(c)' \in Nat /\ After(c) <= After(c)'
            /\ f.copy.ver <= After(c)' /\ After(c)' <= ver
        BY <1>1, <1>4, <2>2, <3>1, <3>4, AfterWriter
      <4>2. Fine(active, ver, P, After(c)')
        BY <1>1, <3>2, <3>4, <4>1, FineRaised
      <4>3. f.copy.ver = ver => After(c)' = ver
        BY <1>1, <4>1
      <4> QED BY <1>1, <1>3, <1>5, <4>1, <4>2, <4>3, FineDropped
    <3> QED BY <3>3, <3>4
  <2>3. CASE ~(v # 0 /\ v <= f.copy.ver)
    <3>1. Untouched(c) /\ w = v
      BY <1>5, <2>3 DEF Arrives, Untouched
    <3>2. v # 0 => f.copy.ver # ver
      BY <1>1, <2>3
    <3>3. ASSUME Fine(active, ver, P, v) PROVE Fine(active, ver, P \ {f}, w)
      BY <1>1, <1>3, <1>5, <3>1, <3>2, <3>3, FineDropped
    <3>4. ASSUME Taken, Fine(active, ver, P, After(c)) PROVE Fine(active, ver, P \ {f}, After(c)')
      <4>1. /\ After(c) \in Nat /\ After(c)' = After(c)
            /\ In(c) => fetch.snapshot[c].ver \in 1 .. ver
        BY <1>4, <3>1, <3>4, AfterWriter
      <4>2. ASSUME After(c) # 0, f.copy.ver = ver PROVE After(c) = ver
        <5>1. v = 0
          BY <3>2, <4>2
        <5>2. In(c) /\ c \notin fetch.removed /\ After(c) = fetch.snapshot[c].ver
          BY <4>2, <5>1 DEF After, MergedVer
        <5>3. ~Leaving
          BY <3>4, <5>1, <5>2 DEF Settles, LeavingWorld
        <5>4. PICK r \in Adds(P) : r.id <= fetch.upTo
          BY <1>2, <3>4, <5>1, <5>2, <5>3, WorldFacts DEF Settles, WholeWorld
        <5>5. f.id <= r.id /\ r.id \in Nat /\ fetch.upTo \in Nat
          BY <1>1, <1>3, <3>4, <5>4 DEF Adds, FramesOk, Types, FetchType, Taken
        <5>6. f.id <= fetch.upTo
          BY <1>1, <5>4, <5>5
        <5>7. f.copy.ver <= fetch.snapshot[c].ver
          BY <1>1, <3>4, <5>2, <5>6 DEF Versions, In
        <5> QED BY <1>1, <4>1, <4>2, <5>2, <5>7
      <4> QED BY <1>1, <1>3, <1>5, <3>4, <4>1, <4>2, FineDropped
    <3> QED BY <3>3, <3>4
  <2> QED BY <2>2, <2>3
<1>6. CASE f.event \in AddEvents
  <2>1. f \in Adds(P)
    BY <1>1, <1>6 DEF Adds
  <2>2. \A g \in P : f.id <= g.id
    BY <1>3, <2>1
  <2>3. ~Leaving /\ Whole
    <3>1. ~Leaving
      BY <2>1 DEF Settles, LeavingWorld, Adds, Of
    <3> QED BY <1>2, <3>1, WorldFacts
  <2>4. CASE v <= f.copy.ver
    <3>1. Wrote(c, f.copy.ver) /\ w = f.copy.ver
      BY <1>6, <2>4 DEF Arrives, Wrote
    <3>2. ASSUME Fine(active, ver, P, v) PROVE Fine(active, ver, P \ {f}, w)
      BY <1>1, <1>6, <2>2, <2>4, <3>1, <3>2, FineAdded
    <3>3. ASSUME Taken, Fine(active, ver, P, After(c)) PROVE Fine(active, ver, P \ {f}, After(c)')
      <4>1. /\ After(c) \in Nat /\ After(c)' \in Nat \ {0} /\ After(c) <= After(c)'
            /\ f.copy.ver <= After(c)' /\ After(c)' <= ver
        BY <1>1, <1>4, <2>4, <3>1, <3>3, AfterWriter
      <4> QED BY <1>1, <1>6, <2>2, <3>3, <4>1, FineAdded
    <3> QED BY <3>2, <3>3
  <2>5. CASE ~(v <= f.copy.ver)
    <3>1. Untouched(c) /\ w = v
      BY <1>6, <2>5 DEF Arrives, Untouched
    <3>2. ASSUME Fine(active, ver, P, v) PROVE Fine(active, ver, P \ {f}, w)
      <4>1. v # 0 /\ f.copy.ver <= v
        BY <1>1, <2>5
      <4> QED BY <1>1, <1>6, <2>2, <3>1, <3>2, <4>1, FineAdded
    <3>3. ASSUME Taken, Fine(active, ver, P, After(c)) PROVE Fine(active, ver, P \ {f}, After(c)')
      <4>1. /\ After(c) \in Nat /\ After(c)' = After(c)
            /\ In(c) => fetch.snapshot[c].ver \in 1 .. ver
        BY <1>4, <3>1, <3>3, AfterWriter
      <4>2. In(c) /\ c \notin fetch.written => v <= fetch.snapshot[c].ver
        BY <3>3 DEF Versions, In
      <4>3. CASE In(c) \/ c \in fetch.written
        <5>1. v \in Nat \ {0} /\ f.copy.ver < v
          BY <1>1, <2>5
        <5>2. v <= After(c) /\ After(c) <= ver
          BY <1>1, <4>1, <4>2, <4>3, <5>1 DEF After, MergedVer
        <5>3. After(c) # 0 /\ f.copy.ver <= After(c)
          BY <1>1, <4>1, <5>1, <5>2
        <5> QED BY <1>1, <1>6, <2>2, <3>3, <4>1, <5>2, <5>3, FineAdded
      <4>4. CASE ~In(c) /\ c \notin fetch.written
        <5>1. After(c) = 0
          BY <4>4 DEF After, MergedVer
        <5>2. Removals(P) # {}
          BY <1>1, <2>3, <2>5, <3>3, <4>4 DEF Settles, WholeWorld
        <5> QED BY <1>1, <1>6, <2>2, <3>3, <4>1, <5>1, <5>2, FineAdded
      <4> QED BY <4>3, <4>4
    <3> QED BY <3>2, <3>3
  <2> QED BY <2>4, <2>5
<1>7. CASE f.event \in RemoveEvents
  <2>1. TookAway(c) /\ w = 0
    BY <1>7 DEF Arrives, TookAway, NotShown
  <2>2. ASSUME Fine(active, ver, P, v) PROVE Fine(active, ver, P \ {f}, w)
    BY <1>1, <1>3, <1>7, <2>1, <2>2, FineRemoved
  <2>3. ASSUME Taken, Fine(active, ver, P, After(c)) PROVE Fine(active, ver, P \ {f}, After(c)')
    <3>1. After(c) \in Nat /\ After(c)' = 0
      BY <1>4, <2>1, <2>3, AfterWriter
    <3> QED BY <1>1, <1>3, <1>7, <2>3, <3>1, FineRemoved
  <2> QED BY <2>2, <2>3
<1> QED BY <1>1, <1>5, <1>6, <1>7

\* A frame that arrives keeps what makes the page settle.
LEMMA ArrivalSettles ==
    ASSUME Types, Versions, Settling, Settles, Writer, NEW f \in frames,
           world.inOrder => \A g \in frames : f.id <= g.id, Arrives(f),
           \A d \in Cards \ {f.card} : Untouched(d), frames' = frames \ {f},
           UNCHANGED <<world, srv, lastId, own, open, missed, lost>>
    PROVE  Settles'
<1>1. /\ FrameType(f) /\ f.card \in Cards /\ f \in Of(f.card)
      /\ f.event \in AddEvents \cup RemoveEvents \cup UpdateEvents /\ f.copy.ver # 0
  BY DEF Types, FrameType, Of
<1>2. /\ \A d \in Cards \ {f.card} : Of(d)' = Of(d)
      /\ Of(f.card)' = Of(f.card) \ {f}
  BY DEF Of
<1>3. \A d \in Cards : Active(d)' <=> Active(d)
  BY DEF Active
<1>4. SameFetch /\ world \in World /\ (Taken' => Taken)
  BY LiveAssumption DEF Types, TypeOK, Writer, SameFetch, Taken, InFlight
<1>5. Now'
  <2> SUFFICES ASSUME lost = {}, missed = {}, NEW c \in Cards
               PROVE  Fine(Active(c)', srv'[c].ver, Of(c)', screen'[c].ver)
    BY DEF Now
  <2>1. Fine(Active(c), srv[c].ver, Of(c), screen[c].ver)
    BY DEF Settles, Now
  <2>2. CASE c = f.card
    BY <1>2, <1>3, <2>1, <2>2, ArrivalFine DEF Active
  <2>3. CASE c # f.card
    BY <1>2, <2>1, <2>3 DEF Untouched, Active
  <2> QED BY <2>2, <2>3
<1>6. Then'
  <2> SUFFICES ASSUME Taken', Covered', NEW c \in Cards
               PROVE  Fine(Active(c)', srv'[c].ver, Of(c)', After(c)')
    BY DEF Then
  <2>1. Taken /\ Covered
    BY <1>4 DEF Covered, SameFetch, Taken
  <2>2. Fine(Active(c), srv[c].ver, Of(c), After(c))
    BY <2>1 DEF Settles, Then
  <2>3. CASE c = f.card
    BY <1>2, <2>1, <2>2, <2>3, ArrivalFine DEF Active
  <2>4. CASE c # f.card
    <3>1. After(c)' = After(c)
      BY <1>4, <2>1, <2>4, AfterWriter
    <3> QED BY <1>2, <2>2, <2>4, <3>1 DEF Active
  <2> QED BY <2>3, <2>4
\* Where a card's events are.
<1>7. /\ f.event \in AddEvents => \A c \in Cards : Removals(Of(c)') = Removals(Of(c))
      /\ f.event \in UpdateEvents => \A c \in Cards : /\ Removals(Of(c)') = Removals(Of(c))
                                                     /\ Adds(Of(c)') = Adds(Of(c))
      /\ f.event \in RemoveEvents => \A c \in Cards : Adds(Of(c)') = Adds(Of(c))
      /\ \A c \in Cards : /\ Adds(Of(c)') \subseteq Adds(Of(c))
                          /\ Removals(Of(c)') \subseteq Removals(Of(c))
                          /\ Updates(Of(c)') \subseteq Updates(Of(c))
      /\ \A c \in Cards \ {f.card} : /\ Adds(Of(c)') = Adds(Of(c))
                                    /\ Removals(Of(c)') = Removals(Of(c))
                                    /\ Updates(Of(c)') = Updates(Of(c))
  BY <1>1, <1>2 DEF Adds, Removals, Updates, AddEvents, RemoveEvents, UpdateEvents
<1>8. ASSUME Whole PROVE WholeWorld'
  <2>1. open' /\ lost' = {} /\ missed' = {}
    BY <1>8 DEF Settles, WholeWorld
  <2> SUFFICES ASSUME Taken', NEW c \in Cards
               PROVE  /\ In(c)' /\ screen'[c].ver = 0 /\ c \notin fetch'.removed =>
                            \E r \in Adds(Of(c)') : r.id <= fetch'.upTo
                      /\ ~In(c)' /\ screen'[c].ver # 0 /\ c \notin fetch'.written =>
                            \E g \in Removals(Of(c)') : g.id <= fetch'.upTo
    BY <2>1 DEF WholeWorld
  <2>2. Taken /\ InFlight /\ (In(c)' <=> In(c)) /\ fetch'.upTo = fetch.upTo
    BY <1>4, AfterWriter DEF Taken
  <2>3. /\ In(c) /\ screen[c].ver = 0 /\ c \notin fetch.removed =>
                 \E r \in Adds(Of(c)) : r.id <= fetch.upTo
        /\ ~In(c) /\ screen[c].ver # 0 /\ c \notin fetch.written =>
                 \E g \in Removals(Of(c)) : g.id <= fetch.upTo
    BY <1>8, <2>2 DEF Settles, WholeWorld
  <2>4. CASE c # f.card
    BY <1>7, <2>2, <2>3, <2>4 DEF Untouched
  <2>5. CASE c = f.card
    <3>1. CASE Untouched(c)
      <4>1. f.event \notin RemoveEvents \/ screen[c].ver = 0
        BY <2>5, <3>1 DEF Arrives, TookAway, Untouched, NotShown
      <4>2. f.event \in AddEvents => screen[c].ver # 0
        BY <1>1, <2>5, <3>1, OfCard DEF Arrives, Wrote, Untouched
      <4> QED BY <1>1, <1>7, <2>2, <2>3, <3>1, <4>1, <4>2 DEF Untouched
    <3>2. CASE Wrote(c, f.copy.ver)
      BY <1>1, <2>2, <3>2 DEF Wrote
    <3>3. CASE TookAway(c)
      BY <2>2, <3>3 DEF TookAway, NotShown
    <3> QED BY <1>1, <2>5, <3>1, <3>2, <3>3 DEF Arrives
  <2> QED BY <2>4, <2>5
<1>9. ASSUME Leaving PROVE LeavingWorld' /\ f.event \notin AddEvents
  <2>1. Adds(frames) = {} /\ Adds(frames') = {} /\ f.event \notin AddEvents
    BY <1>9 DEF Settles, LeavingWorld, Adds
  <2> SUFFICES ASSUME NEW c \in Cards
               PROVE  /\ srv'[c].state # "unborn"
                      /\ Active(c)' => screen'[c].ver # 0 /\ Removals(Of(c)') = {}
                      /\ Taken' => /\ Active(c)' => In(c)'
                                   /\ In(c)' /\ screen'[c].ver = 0 => c \in fetch'.removed
    BY <2>1 DEF LeavingWorld
  <2>2. /\ srv[c].state # "unborn"
        /\ Active(c) => screen[c].ver # 0 /\ Removals(Of(c)) = {}
        /\ Taken => /\ Active(c) => In(c)
                    /\ In(c) /\ screen[c].ver = 0 => c \in fetch.removed
    BY <1>9 DEF Settles, LeavingWorld
  <2>3. Taken' => Taken /\ InFlight /\ (In(c)' <=> In(c))
    BY <1>4, AfterWriter DEF Taken
  <2>4. CASE Untouched(c)
    BY <1>3, <1>7, <2>2, <2>3, <2>4 DEF Untouched
  <2>5. CASE c = f.card /\ Wrote(c, f.copy.ver)
    BY <1>1, <1>3, <1>7, <2>2, <2>3, <2>5 DEF Wrote
  <2>6. CASE c = f.card /\ f.event \in RemoveEvents
    <3>1. ~Active(c) /\ TookAway(c)
      BY <1>1, <2>2, <2>6 DEF Removals, Arrives
    <3> QED BY <1>3, <2>2, <2>3, <2>6, <3>1 DEF TookAway
  <2> QED BY <1>1, <2>4, <2>5, <2>6 DEF Arrives
<1>10. ASSUME Staying PROVE StayingWorld'
  BY <1>3, <1>10 DEF Settles, StayingWorld
<1>11. ASSUME world.gaps PROVE GapWorld'
  <2>1. f.event \notin AddEvents
    BY <1>4, <1>9, <1>11, WorldFacts DEF Whole
  <2>2. /\ own # Nothing => world.own
        /\ "archive" \notin world.ops => \A c \in Cards : srv[c].state # "archived"
    BY <1>11 DEF Settles, GapWorld
  <2> SUFFICES ASSUME NEW c \in Cards, ~Active(c)', screen'[c].ver # 0
               PROVE  /\ Updates(Of(c)') # {} => Removals(Of(c)') # {}
                      /\ InFlight' /\ c \in fetch'.written =>
                            Removals(Of(c)') # {} \/ ~(missed \subseteq fetch'.owed)
    BY <2>2 DEF GapWorld
  <2>3. CASE Untouched(c)
    <3>1. Removals(Of(c)') = Removals(Of(c))
      BY <1>1, <1>7, <2>1, <2>3 DEF Arrives, TookAway, Untouched, NotShown
    <3>2. /\ Updates(Of(c)) # {} => Removals(Of(c)) # {}
          /\ InFlight /\ c \in fetch.written => Removals(Of(c)) # {} \/ ~(missed \subseteq fetch.owed)
      BY <1>3, <1>11, <2>3 DEF Settles, GapWorld, Untouched
    <3> QED BY <1>4, <1>7, <2>3, <3>1, <3>2 DEF Untouched, SameFetch
  <2>4. CASE c = f.card /\ ~Untouched(c)
    <3>1. f.event \in UpdateEvents /\ screen[c].ver # 0
      BY <1>1, <2>1, <2>4 DEF Arrives, TookAway, NotShown
    <3>2. f \in Updates(Of(c))
      BY <1>1, <2>4, <3>1 DEF Updates
    <3>3. Removals(Of(c)) # {}
      BY <1>3, <1>11, <3>1, <3>2 DEF Settles, GapWorld
    <3> QED BY <1>7, <3>1, <3>3
  <2> QED BY <1>1, <2>3, <2>4
<1> QED BY <1>5, <1>6, <1>8, <1>9, <1>10, <1>11 DEF Settles, Whole, Leaving, Staying

-----------------------------------------------------------------------------
(* Commits.                                                                *)

Row == [state : {"unborn", "active", "archived", "deleted"}, ver : Nat, pos : Nat]

\* What a commit may do to its card, and the event it publishes.
Kind(e, c, r) ==
    \/ e \in UpdateEvents /\ Stored(c) /\ r.state = srv[c].state /\ r.ver = srv[c].ver + 1
    \/ e \in AddEvents /\ ~Active(c) /\ r.state = "active" /\ r.ver # 0 /\ srv[c].ver <= r.ver
    \/ e \in RemoveEvents /\ Active(c) /\ r.state \in {"archived", "deleted"} /\ r.ver = srv[c].ver

\* Frame n tells of event e, which made card c the row r.
Tells(n, e, c, r) ==
    n.id = lastId + 1 /\ n.event = e /\ n.card = c /\ n.copy = CopyOf(r) /\ DOMAIN n.pairs \subseteq Cards \ {c}

Committed(e, c, r) ==
    /\ Kind(e, c, r)
    /\ lastId' = lastId + 1
    /\ srv' \in [Cards -> Row]
    /\ srv'[c] = r
    /\ \A d \in Cards \ {c} : srv'[d].state = srv[d].state /\ srv'[d].ver = srv[d].ver
    /\ open => missed' = missed /\ \E n : Tells(n, e, c, r) /\ frames' = frames \cup {n}
    /\ ~open => frames' = frames /\ missed' = missed \cup {lastId + 1}

LEMMA CommitIs ==
    ASSUME Types, NEW e, NEW c \in Cards, NEW r \in Row, NEW shifted \in SUBSET (Cards \ {c}),
           Commit(e, c, r, shifted), Kind(e, c, r)
    PROVE  Committed(e, c, r)
<1>1. srv \in [Cards -> Row] /\ lastId \in Nat
  BY DEF Types, TypeOK, Row
<1>2. /\ lastId' = lastId + 1 /\ lastId' \in Nat
      /\ srv' = [d \in Cards |-> CASE d = c -> r
                                   [] d \in shifted -> [srv[d] EXCEPT !.pos = lastId']
                                   [] OTHER -> srv[d]]
  BY <1>1 DEF Commit
<1>3. ASSUME NEW d \in Cards
      PROVE  /\ srv'[d] \in Row
             /\ d = c => srv'[d] = r
             /\ d # c => srv'[d].state = srv[d].state /\ srv'[d].ver = srv[d].ver
  <2>1. CASE d = c
    BY <1>2, <2>1
  <2>2. CASE d \in shifted
    <3>1. srv'[d] = [srv[d] EXCEPT !.pos = lastId'] /\ d # c
      BY <1>2, <2>2
    <3> QED BY <1>1, <1>2, <3>1 DEF Row
  <2>3. CASE d # c /\ d \notin shifted
    <3>1. srv'[d] = srv[d]
      BY <1>2, <2>3
    <3> QED BY <1>1, <2>3, <3>1
  <2> QED BY <2>1, <2>2, <2>3
<1>4. srv' \in [Cards -> Row]
  BY <1>2, <1>3
<1> DEFINE n == [id |-> lastId', event |-> e, card |-> c, copy |-> CopyOf(r),
                 pairs |-> [d \in shifted |-> srv[d].ver]]
<1>5. Tells(n, e, c, r) /\ n.id = lastId + 1
  BY <1>2 DEF Tells
<1>6. IF open THEN frames' = frames \cup {n} /\ missed' = missed
              ELSE missed' = missed \cup {n.id} /\ frames' = frames
  BY DEF Commit
<1> HIDE DEF n
<1> QED BY <1>2, <1>3, <1>4, <1>5, <1>6 DEF Committed

LEMMA EditCommits ==
    ASSUME Types, NEW c \in Cards, Edit(c)
    PROVE  \E r \in Row : Committed("card.updated", c, r)
<1> DEFINE r == [srv[c] EXCEPT !.ver = @ + 1]
<1>1. srv \in [Cards -> Row] /\ {} \in SUBSET (Cards \ {c})
  BY DEF Types, TypeOK, Row
<1>2. r \in Row /\ r.state = srv[c].state /\ r.ver = srv[c].ver + 1
  BY <1>1 DEF Row
<1>3. Commit("card.updated", c, r, {}) /\ Active(c)
  BY DEF Edit
<1> HIDE DEF r
<1>4. Kind("card.updated", c, r)
  BY <1>2, <1>3 DEF Kind, UpdateEvents, Stored, Active
<1> QED BY <1>1, <1>2, <1>3, <1>4, CommitIs

LEMMA MoveCommits ==
    ASSUME Types, NEW c \in Cards, Move(c)
    PROVE  \E r \in Row : Committed("card.moved", c, r)
<1> DEFINE r == [srv[c] EXCEPT !.ver = @ + 1, !.pos = lastId + 1]
<1>1. srv \in [Cards -> Row] /\ lastId \in Nat
  BY DEF Types, TypeOK, Row
<1>2. r = [[srv[c] EXCEPT !.ver = srv[c].ver + 1] EXCEPT !.pos = lastId + 1] /\ srv[c] \in Row
  BY <1>1 DEF Row
<1>3. Stored(c) /\ \E shifted \in SUBSET (Cards \ {c}) : Commit("card.moved", c, r, shifted)
  BY DEF Move
<1> HIDE DEF r
<1> DEFINE q == [srv[c] EXCEPT !.ver = srv[c].ver + 1]
<1>4. q \in Row /\ q.state = srv[c].state /\ q.ver = srv[c].ver + 1 /\ r = [q EXCEPT !.pos = lastId + 1]
  BY <1>1, <1>2 DEF Row
<1> HIDE DEF q
<1>5. r \in Row /\ r.state = srv[c].state /\ r.ver = srv[c].ver + 1
  <2>1. r.state = q.state /\ r.ver = q.ver
    BY <1>4 DEF Row
  <2>2. r \in Row
    BY <1>1, <1>4 DEF Row
  <2> QED BY <1>4, <2>1, <2>2
<1>6. Kind("card.moved", c, r)
  BY <1>3, <1>5 DEF Kind, UpdateEvents
<1> QED BY <1>3, <1>5, <1>6, CommitIs

LEMMA CreateCommits ==
    ASSUME Types, Versions, NEW c \in Cards, Create(c)
    PROVE  \E r \in Row : Committed("card.created", c, r)
<1> DEFINE r == [state |-> "active", ver |-> 1, pos |-> lastId + 1]
<1>1. srv \in [Cards -> Row] /\ lastId \in Nat /\ {} \in SUBSET (Cards \ {c})
  BY DEF Types, TypeOK, Row
<1>2. r \in Row /\ r.state = "active" /\ r.ver = 1
  BY <1>1 DEF Row
<1>3. Commit("card.created", c, r, {}) /\ srv[c].state = "unborn" /\ srv[c].ver = 0
  BY DEF Create, Versions
<1> HIDE DEF r
<1>4. Kind("card.created", c, r)
  BY <1>2, <1>3 DEF Kind, AddEvents, Active
<1> QED BY <1>1, <1>2, <1>3, <1>4, CommitIs

LEMMA ArchiveCommits ==
    ASSUME Types, NEW c \in Cards, Archive(c)
    PROVE  \E r \in Row : Committed("card.archived", c, r)
<1> DEFINE r == [srv[c] EXCEPT !.state = "archived"]
<1>1. srv \in [Cards -> Row] /\ {} \in SUBSET (Cards \ {c})
  BY DEF Types, TypeOK, Row
<1>2. r \in Row /\ r.state = "archived" /\ r.ver = srv[c].ver
  BY <1>1 DEF Row
<1>3. Commit("card.archived", c, r, {}) /\ Active(c)
  BY DEF Archive
<1> HIDE DEF r
<1>4. Kind("card.archived", c, r)
  BY <1>2, <1>3 DEF Kind, RemoveEvents
<1> QED BY <1>1, <1>2, <1>3, <1>4, CommitIs

LEMMA RestoreCommits ==
    ASSUME Types, Versions, NEW c \in Cards, Restore(c)
    PROVE  \E r \in Row : Committed("card.unarchived", c, r)
<1> DEFINE r == [srv[c] EXCEPT !.state = "active"]
<1>1. srv \in [Cards -> Row] /\ {} \in SUBSET (Cards \ {c})
  BY DEF Types, TypeOK, Row
<1>2. r \in Row /\ r.state = "active" /\ r.ver = srv[c].ver
  BY <1>1 DEF Row
<1>3. Commit("card.unarchived", c, r, {}) /\ srv[c].state = "archived" /\ srv[c].ver # 0
  BY DEF Restore, Versions
<1> HIDE DEF r
<1>4. Kind("card.unarchived", c, r)
  BY <1>1, <1>2, <1>3 DEF Kind, AddEvents, Active, Row
<1> QED BY <1>1, <1>2, <1>3, <1>4, CommitIs

LEMMA DeleteCommits ==
    ASSUME Types, NEW c \in Cards, Delete(c)
    PROVE  \E r \in Row : Committed("card.deleted", c, r) /\ r.state = "deleted"
<1> DEFINE r == [srv[c] EXCEPT !.state = "deleted"]
<1>1. srv \in [Cards -> Row] /\ {} \in SUBSET (Cards \ {c})
  BY DEF Types, TypeOK, Row
<1>2. r \in Row /\ r.state = "deleted" /\ r.ver = srv[c].ver
  BY <1>1 DEF Row
<1>3. Commit("card.deleted", c, r, {}) /\ Active(c)
  BY DEF Delete
<1> HIDE DEF r
<1>4. Kind("card.deleted", c, r)
  BY <1>2, <1>3 DEF Kind, RemoveEvents
<1> QED BY <1>1, <1>2, <1>3, <1>4, CommitIs

\* What the world allows.
Allowed(e, c, r) ==
    /\ Leaving => e \notin AddEvents
    /\ Staying => e \in UpdateEvents
    /\ "archive" \notin world.ops /\ r.state = "archived" => srv[c].state = "archived"
    /\ own = Nothing /\ "move" \notin world.ops /\ e \in UpdateEvents => Active(c)

LEMMA ElsewhereCommits ==
    ASSUME Types, Versions, Elsewhere
    PROVE  \E e : \E c \in Cards : \E r \in Row : Committed(e, c, r) /\ Allowed(e, c, r)
<1>1. world \in World
  BY LiveAssumption DEF Types, TypeOK
<1>2. PICK c \in Cards :
        \/ "edit" \in world.ops /\ Edit(c)
        \/ "move" \in world.ops /\ Move(c)
        \/ "create" \in world.ops /\ Create(c)
        \/ "archive" \in world.ops /\ Archive(c)
        \/ "restore" \in world.ops /\ Restore(c)
        \/ "delete" \in world.ops /\ Delete(c)
  BY DEF Elsewhere
<1>3. \A e : \A r \in Row : Committed(e, c, r) /\ e \notin RemoveEvents /\ r.state = "archived" =>
                                 srv[c].state = "archived"
  BY DEF Committed, Kind
<1> USE DEF Allowed, Leaving, Staying, AddEvents, UpdateEvents, RemoveEvents
<1>4. CASE Edit(c)
  <2>1. Active(c)
    BY <1>4 DEF Edit
  <2> QED BY <1>4, <1>3, <2>1, EditCommits
<1>5. CASE "move" \in world.ops /\ Move(c)
  BY <1>5, <1>3, MoveCommits
<1>6. CASE "create" \in world.ops /\ Create(c)
  BY <1>6, <1>3, CreateCommits
<1>7. CASE "archive" \in world.ops /\ Archive(c)
  BY <1>7, ArchiveCommits
<1>8. CASE "restore" \in world.ops /\ Restore(c)
  <2>1. PICK r \in Row : Committed("card.unarchived", c, r)
    BY <1>8, RestoreCommits
  <2>2. ~Leaving /\ ~Staying
    BY <1>8
  <2>3. Allowed("card.unarchived", c, r)
    BY <1>3, <2>1, <2>2
  <2> QED BY <2>1, <2>3
<1>9. CASE "delete" \in world.ops /\ Delete(c)
  BY <1>9, DeleteCommits
<1> QED BY <1>2, <1>4, <1>5, <1>6, <1>7, <1>8, <1>9

\* A request the server has handled with this commit, or none.
OwnStep(e, c) ==
    \/ own' = own
    \/ /\ e \in UpdateEvents
       /\ own # Nothing /\ own.card = c /\ (own.kind = "move" => srv[c].ver = own.before.ver)
       /\ OwnType' /\ own'.answer = "ok" /\ own'.copy = CopyOf(srv'[c])
       /\ own'.kind = own.kind /\ own'.card = own.card /\ own'.before = own.before

\* What a commit does to the versions.
LEMMA CommitVersions ==
    ASSUME Types, Versions, NEW e, NEW c \in Cards, NEW r \in Row, Committed(e, c, r)
    PROVE  /\ r.ver \in Nat \ {0} /\ srv[c].ver \in Nat /\ srv[c].ver <= r.ver
           /\ r.state # "unborn"
           /\ e \in UpdateEvents => r.ver = srv[c].ver + 1
           /\ \A d \in Cards : srv'[d].ver \in Nat /\ srv[d].ver \in Nat /\ srv[d].ver <= srv'[d].ver
<1>1. srv \in [Cards -> Row] /\ srv[c].ver \in Nat /\ r.ver \in Nat
  BY DEF Types, TypeOK, Row
<1>2. /\ r.ver # 0 /\ srv[c].ver <= r.ver /\ r.state # "unborn"
      /\ e \in UpdateEvents => r.ver = srv[c].ver + 1
  <2>1. CASE e \in UpdateEvents /\ Stored(c) /\ r.state = srv[c].state /\ r.ver = srv[c].ver + 1
    BY <1>1, <2>1 DEF Stored
  <2>2. CASE e \in AddEvents /\ ~Active(c) /\ r.state = "active" /\ r.ver # 0 /\ srv[c].ver <= r.ver
    BY <2>2 DEF AddEvents, UpdateEvents
  <2>3. CASE e \in RemoveEvents /\ Active(c) /\ r.state \in {"archived", "deleted"} /\ r.ver = srv[c].ver
    BY <1>1, <2>3 DEF RemoveEvents, UpdateEvents, Active, Versions
  <2> QED BY <2>1, <2>2, <2>3 DEF Committed, Kind
<1>3. srv' \in [Cards -> Row] /\ srv'[c] = r /\ \A d \in Cards \ {c} : srv'[d].ver = srv[d].ver
  BY DEF Committed
<1>4. ASSUME NEW d \in Cards
      PROVE  srv'[d].ver \in Nat /\ srv[d].ver \in Nat /\ srv[d].ver <= srv'[d].ver
  BY <1>1, <1>2, <1>3 DEF Row
<1> QED BY <1>1, <1>2, <1>4

\* A commit keeps the types, the versions, the guesses and what is owed.
LEMMA CommitTypes ==
    ASSUME Types, Versions, Guesses, Gaps, NEW e, NEW c \in Cards, NEW r \in Row,
           Committed(e, c, r), OwnStep(e, c),
           UNCHANGED <<world, screen, posId, fetch, socket, lost, fetches, owns>>
    PROVE  Types' /\ Versions' /\ Guesses' /\ Gaps'
<1>1. /\ TypeOK /\ (InFlight => FetchType) /\ (own # Nothing => OwnType) /\ screen \in [Cards -> Copies]
      /\ lastId \in Nat /\ lastId' = lastId + 1 /\ srv' \in [Cards -> Row]
      /\ posId \in [Cards -> 0 .. lastId] /\ lost \cup missed \subseteq 1 .. lastId
      /\ \A f \in frames : FrameType(f)
  BY DEF Types, TypeOK, Committed
<1>2. /\ world' = world /\ screen' = screen /\ posId' = posId /\ fetch' = fetch /\ open' = open
      /\ due' = due /\ lost' = lost
  BY DEF socket
<1>3. /\ r.ver \in Nat \ {0} /\ srv[c].ver \in Nat /\ r.state # "unborn"
      /\ e \in UpdateEvents => r.ver = srv[c].ver + 1
      /\ \A d \in Cards : srv'[d].ver \in Nat /\ srv[d].ver \in Nat /\ srv[d].ver <= srv'[d].ver
  BY CommitVersions
<1>4. ASSUME NEW f \in frames' PROVE FrameType(f)' /\ (f \in frames \/ (open /\ f.id = lastId + 1 /\ f.card = c))
  <2>1. CASE f \in frames
    <3>1. FrameType(f) /\ f.card \in Cards /\ f.copy.ver \in Nat
      BY <1>1, <2>1 DEF FrameType
    <3>2. f.copy.ver \in 1 .. srv'[f.card].ver /\ f.id \in 1 .. lastId'
      BY <1>1, <1>3, <3>1 DEF FrameType
    <3>3. /\ f.card \in Cards /\ f.event \in AddEvents \cup RemoveEvents \cup UpdateEvents
          /\ f.copy \in Copies /\ ~f.copy.guess /\ DOMAIN f.pairs \subseteq Cards \ {f.card}
      BY <3>1 DEF FrameType
    <3> QED BY <2>1, <3>2, <3>3 DEF FrameType
  <2>2. CASE f \notin frames
    <3>1. open /\ Tells(f, e, c, r)
      BY <2>2 DEF Committed
    <3>2. f.copy = CopyOf(r) /\ CopyOf(r) \in Copies /\ ~CopyOf(r).guess /\ CopyOf(r).ver = r.ver
      BY <3>1 DEF Tells, CopyOf, Copies, Row
    <3>3. srv'[c].ver = r.ver /\ e \in AddEvents \cup RemoveEvents \cup UpdateEvents
      BY DEF Committed, Kind
    <3>4. f.id = lastId + 1 /\ f.card = c /\ f.event = e /\ DOMAIN f.pairs \subseteq Cards \ {c}
      BY <3>1 DEF Tells
    <3> QED BY <1>1, <1>3, <3>1, <3>2, <3>3, <3>4 DEF FrameType
  <2> QED BY <2>1, <2>2
<1>5. missed' \subseteq missed \cup {lastId + 1} /\ (open => missed' = missed) /\ (~open => frames' = {})
  BY <1>1 DEF Committed, TypeOK
<1>6. InFlight' <=> InFlight
  BY <1>2 DEF InFlight
<1>7. Taken' <=> Taken
  BY <1>2, <1>6 DEF Taken
<1>8. InFlight => FetchType'
  <2> HAVE InFlight
  <2>1. FetchType
    BY <1>1
  <2>2. 1 .. lastId \subseteq 1 .. lastId'
    BY <1>1
  <2>3. fetch \in [upTo : Nat, snapshot : {fetch.snapshot}, written : SUBSET Cards,
                   placed : SUBSET Cards, removed : SUBSET Cards, owed : SUBSET (1 .. lastId')]
    BY <2>1, <2>2 DEF FetchType
  <2>4. fetch.upTo <= lastId'
    BY <1>1, <2>1 DEF FetchType
  <2>5. Taken => \A d \in DOMAIN fetch.snapshot :
           fetch.snapshot[d].ver \in 1 .. srv[d].ver /\ d \in Cards /\ fetch.snapshot[d].ver \in Nat
    BY <2>1 DEF FetchType
  <2>6. Taken => \A d \in DOMAIN fetch.snapshot : fetch.snapshot[d].ver \in 1 .. srv'[d].ver
    BY <1>3, <2>5
  <2> QED BY <1>2, <1>7, <2>1, <2>3, <2>4, <2>6 DEF FetchType
<1>9. TypeOK'
  <2>1. posId' \in [Cards -> 0 .. lastId']
    BY <1>1, <1>2
  <2>2. lost' \cup missed' \subseteq 1 .. lastId'
    BY <1>1, <1>2, <1>5
  <2>3. \A f \in frames' : f.id \in 1 .. lastId' /\ f.card \notin DOMAIN f.pairs
    BY <1>4 DEF FrameType
  <2>4. InFlight' => fetch'.written \cup fetch'.placed \cup fetch'.removed \subseteq Cards
    BY <1>1, <1>2, <1>6 DEF FetchType
  <2>5. open' \/ frames' = {}
    BY <1>2, <1>5
  <2> QED BY <1>1, <1>2, <2>1, <2>2, <2>3, <2>4, <2>5 DEF TypeOK, Row
<1>10. own' # Nothing => OwnType'
  BY <1>1 DEF OwnStep, OwnType
<1>11. Types'
  BY <1>1, <1>2, <1>4, <1>6, <1>8, <1>9, <1>10 DEF Types
<1>12. Versions'
  <2>1. ASSUME NEW d \in Cards
        PROVE  /\ srv'[d].ver = 0 <=> srv'[d].state = "unborn"
               /\ screen'[d].ver <= srv'[d].ver
               /\ screen'[d].ver = 0 <=> screen'[d] = NotShown
    <3>1. screen[d].ver \in Nat
      BY <1>1 DEF Copies
    <3> QED BY <1>2, <1>3, <3>1 DEF Versions, Committed
  <2>2. own' # Nothing /\ own'.answer = "ok" => own'.copy.ver \in 1 .. srv'[own'.card].ver /\ ~own'.copy.guess
    <3>1. CASE own' = own
      <4> HAVE own' # Nothing /\ own'.answer = "ok"
      <4>1. own.card \in Cards /\ own.copy.ver \in 1 .. srv[own.card].ver /\ ~own.copy.guess
        BY <1>1, <3>1 DEF Versions, OwnType, OwnRecord
      <4> QED BY <1>3, <3>1, <4>1
    <3>2. CASE own' # own
      <4>1. own'.copy.ver = r.ver /\ ~own'.copy.guess /\ srv'[own'.card] = r
        BY <3>2 DEF OwnStep, CopyOf, Committed
      <4> QED BY <1>3, <4>1
    <3> QED BY <3>1, <3>2
  <2>3. ASSUME Taken, NEW d \in DOMAIN fetch.snapshot
        PROVE  /\ \A f \in Of(d)' : f.id <= fetch.upTo => f.copy.ver <= fetch.snapshot[d].ver
               /\ d \notin fetch.written => screen[d].ver <= fetch.snapshot[d].ver
    <3>1. /\ \A f \in Of(d) : f.id <= fetch.upTo => f.copy.ver <= fetch.snapshot[d].ver
          /\ d \notin fetch.written => screen[d].ver <= fetch.snapshot[d].ver
      BY <2>3 DEF Versions
    <3>2. fetch.upTo \in Nat /\ fetch.upTo <= lastId
      BY <1>1, <2>3 DEF Taken, FetchType
    <3>3. \A f \in Of(d)' : f \in Of(d) \/ f.id = lastId + 1
      BY <1>4 DEF Of
    <3> QED BY <1>1, <3>1, <3>2, <3>3
  <2> QED BY <1>2, <1>7, <2>1, <2>2, <2>3 DEF Versions
<1>13. Guesses'
  <2>1. CASE own' = own
    BY <1>2, <2>1 DEF Guesses
  <2>2. CASE own' # own
    <3>1. /\ own # Nothing /\ own' # Nothing /\ own'.kind = own.kind /\ own'.card = own.card
          /\ own'.before = own.before
          /\ own.kind = "move" => srv[c].ver = own.before.ver
          /\ own'.copy.ver = r.ver /\ r.ver = srv[c].ver + 1
      BY <1>3, <2>2, Records DEF OwnStep, CopyOf, Committed, OwnType
    <3> QED BY <1>2, <1>3, <3>1 DEF Guesses
  <2> QED BY <2>1, <2>2
<1>14. Gaps'
  <2>1. missed' # {} => ~open' \/ due' \/ (InFlight' /\ missed' \subseteq fetch'.owed)
    BY <1>2, <1>5, <1>6 DEF Gaps
  <2>2. ASSUME NEW f \in frames' PROVE f.id \notin missed' /\ (InFlight' => f.id \notin fetch'.owed)
    <3>1. open /\ missed' = missed
      BY <1>5
    <3>2. CASE f \in frames
      BY <1>2, <1>6, <3>1, <3>2 DEF Gaps
    <3>3. CASE f.id = lastId + 1
      <4>1. lastId + 1 \notin 1 .. lastId
        BY <1>1
      <4>2. InFlight => fetch.owed \subseteq 1 .. lastId
        BY <1>1 DEF FetchType
      <4> QED BY <1>1, <1>2, <1>6, <3>1, <3>3, <4>1, <4>2
    <3> QED BY <1>4, <3>2, <3>3
  <2> QED BY <2>1, <2>2 DEF Gaps
<1> QED BY <1>11, <1>12, <1>13, <1>14

\* A commit keeps its card on the way to the server's version, by the frame that
\* tells of it.
LEMMA CommitFine ==
    ASSUME Types, Versions, NEW e, NEW c \in Cards, NEW r \in Row, Committed(e, c, r),
           NEW n, Tells(n, e, c, r), NEW v \in Nat, Fine(Active(c), srv[c].ver, Of(c), v)
    PROVE  Fine(Active(c)', srv'[c].ver, Of(c) \cup {n}, v)
<1>1. /\ FramesOk(Of(c)) /\ srv[c].ver \in Nat /\ lastId \in Nat /\ srv'[c] = r
      /\ r.ver \in Nat \ {0} /\ n.id = lastId + 1 /\ n.event = e /\ n.copy.ver = r.ver
      /\ n.id \in Nat \ {0}
  BY OfCard, CommitVersions DEF Types, Tells, CopyOf, Committed
<1>2. \A f \in Of(c) : f.id < n.id
  BY <1>1, OfCard
<1>3. CASE e \in UpdateEvents /\ r.state = srv[c].state /\ r.ver = srv[c].ver + 1
  <2>1. (Active(c)' <=> Active(c)) /\ Active(c) \in BOOLEAN /\ Active(c)' \in BOOLEAN
    BY <1>1, <1>3 DEF Active
  <2>2. Fine(Active(c), srv[c].ver + 1, Of(c) \cup {n}, v)
    BY <1>1, <1>2, <1>3, <2>1, FineUpdated
  <2> QED BY <1>1, <1>3, <2>1, <2>2
<1>4. CASE e \in AddEvents /\ r.state = "active"
  <2>1. Active(c)' = TRUE
    BY <1>1, <1>4 DEF Active
  <2>2. Fine(TRUE, r.ver, Of(c) \cup {n}, v)
    BY <1>1, <1>2, <1>4, FineCame
  <2> QED BY <1>1, <2>1, <2>2
<1>5. CASE e \in RemoveEvents /\ r.state \in {"archived", "deleted"}
  <2>1. Active(c)' = FALSE
    BY <1>1, <1>5 DEF Active
  <2>2. Fine(FALSE, r.ver, Of(c) \cup {n}, v)
    BY <1>1, <1>2, <1>5, FineLeft
  <2> QED BY <1>1, <2>1, <2>2
<1> QED BY <1>3, <1>4, <1>5 DEF Committed, Kind

\* A commit keeps what makes the page settle.
LEMMA CommitSettles ==
    ASSUME Types, Versions, Settling, Settles, NEW e, NEW c \in Cards, NEW r \in Row,
           Committed(e, c, r), Allowed(e, c, r), OwnStep(e, c),
           UNCHANGED <<world, screen, posId, fetch, socket, lost, fetches, owns>>
    PROVE  Settles'
<1>1. /\ world' = world /\ screen' = screen /\ fetch' = fetch /\ open' = open /\ lost' = lost
      /\ (InFlight' <=> InFlight) /\ (Taken' <=> Taken) /\ world \in World
      /\ \A d \in Cards : screen[d].ver \in Nat
  BY LiveAssumption, OfCard DEF socket, InFlight, Taken, Types, TypeOK
<1>2. /\ \A d \in Cards \ {c} : /\ srv'[d].ver = srv[d].ver /\ srv'[d].state = srv[d].state
                               /\ (Active(d)' <=> Active(d)) /\ Active(d)' = Active(d)
      /\ srv'[c] = r /\ (Active(c)' <=> r.state = "active")
  BY DEF Committed, Active
<1>3. ASSUME open
      PROVE  /\ missed' = missed
             /\ \E n : Tells(n, e, c, r) /\ frames' = frames \cup {n} /\ Of(c)' = Of(c) \cup {n}
             /\ \A d \in Cards \ {c} : Of(d)' = Of(d)
  BY <1>3 DEF Committed, Tells, Of
<1>4. ASSUME ~open
      PROVE  /\ frames = {} /\ frames' = {} /\ \A d \in Cards : Of(d) = {} /\ Of(d)' = {}
             /\ missed' = missed \cup {lastId + 1} /\ lastId + 1 \in missed'
             /\ InFlight => ~(missed' \subseteq fetch.owed)
  <2>1. frames = {} /\ frames' = {} /\ missed' = missed \cup {lastId + 1}
    BY <1>4 DEF Committed, Types, TypeOK
  <2>2. lastId + 1 \notin 1 .. lastId
    BY DEF Types
  <2>3. InFlight => fetch.owed \subseteq 1 .. lastId
    BY DEF Types, FetchType
  <2> QED BY <2>1, <2>2, <2>3 DEF Of
<1>5. \A d \in Cards : After(d)' = After(d)
  BY <1>1 DEF After, In
<1>6. ASSUME open, NEW d \in Cards, NEW v \in Nat, Fine(Active(d), srv[d].ver, Of(d), v)
      PROVE  Fine(Active(d)', srv'[d].ver, Of(d)', v)
  <2>1. CASE d = c
    <3>1. PICK n : Tells(n, e, c, r) /\ Of(c)' = Of(c) \cup {n}
      BY <1>3, <1>6
    <3>2. Fine(Active(c), srv[c].ver, Of(c), v)
      BY <1>6, <2>1
    <3>3. Fine(Active(c)', srv'[c].ver, Of(c) \cup {n}, v)
      BY <3>1, <3>2, CommitFine
    <3> QED BY <2>1, <3>1, <3>3
  <2>2. CASE d # c
    BY <1>2, <1>3, <1>6, <2>2
  <2> QED BY <2>1, <2>2
<1>7. Now'
  <2> SUFFICES ASSUME lost' = {}, missed' = {}, NEW d \in Cards
               PROVE  Fine(Active(d)', srv'[d].ver, Of(d)', screen'[d].ver)
    BY DEF Now
  <2>1. open /\ missed = {} /\ lost = {}
    BY <1>1, <1>3, <1>4
  <2>2. Fine(Active(d), srv[d].ver, Of(d), screen[d].ver)
    BY <2>1 DEF Settles, Now
  <2> QED BY <1>1, <1>6, <2>1, <2>2
<1>8. Then'
  <2> SUFFICES ASSUME Taken', Covered', NEW d \in Cards
               PROVE  Fine(Active(d)', srv'[d].ver, Of(d)', After(d)')
    BY DEF Then
  <2>1. open /\ Taken /\ Covered
    BY <1>1, <1>3, <1>4 DEF Covered, Taken
  <2>2. Fine(Active(d), srv[d].ver, Of(d), After(d)) /\ After(d) \in Nat
    <3>1. /\ screen[d].ver \in Nat
          /\ In(d) => fetch.snapshot[d].ver \in Nat
      BY <1>1, <2>1, OfCard DEF Types, FetchType, In, Taken
    <3> QED BY <2>1, <3>1 DEF Settles, Then, After, MergedVer
  <2> QED BY <1>5, <1>6, <2>1, <2>2
<1>9. ASSUME Whole PROVE WholeWorld'
  <2>1. open /\ missed' = {} /\ lost' = {}
    BY <1>1, <1>3, <1>9 DEF Settles, WholeWorld
  <2>2. \A d \in Cards : Of(d) \subseteq Of(d)'
    BY <1>3, <2>1
  <2>3. \A d \in Cards : Adds(Of(d)) \subseteq Adds(Of(d)') /\ Removals(Of(d)) \subseteq Removals(Of(d)')
    BY <2>2 DEF Adds, Removals
  <2>4. Taken => \A d \in Cards :
          /\ In(d) /\ screen[d].ver = 0 /\ d \notin fetch.removed =>
                \E q \in Adds(Of(d)) : q.id <= fetch.upTo
          /\ ~In(d) /\ screen[d].ver # 0 /\ d \notin fetch.written =>
                \E g \in Removals(Of(d)) : g.id <= fetch.upTo
    BY <1>9 DEF Settles, WholeWorld
  <2>5. \A d \in Cards : In(d)' <=> In(d)
    BY <1>1 DEF In
  <2> QED BY <1>1, <2>1, <2>3, <2>4, <2>5 DEF WholeWorld
<1>10. ASSUME Leaving PROVE LeavingWorld'
  <2>1. e \notin AddEvents
    BY <1>10 DEF Allowed
  <2>2. Adds(frames') = {}
    <3>1. Adds(frames) = {}
      BY <1>10 DEF Settles, LeavingWorld
    <3>2. \A f \in frames' : f \in frames \/ f.event = e
      BY DEF Committed, Tells
    <3> QED BY <2>1, <3>1, <3>2 DEF Adds
  <2>3. ASSUME NEW d \in Cards
        PROVE  /\ srv'[d].state # "unborn"
               /\ Active(d)' => screen[d].ver # 0 /\ Removals(Of(d)') = {}
               /\ Taken => /\ Active(d)' => In(d)
                           /\ In(d) /\ screen[d].ver = 0 => d \in fetch.removed
    <3>1. /\ srv[d].state # "unborn"
          /\ Active(d) => screen[d].ver # 0 /\ Removals(Of(d)) = {}
          /\ Taken => /\ Active(d) => In(d)
                      /\ In(d) /\ screen[d].ver = 0 => d \in fetch.removed
      BY <1>10 DEF Settles, LeavingWorld
    <3>2. CASE d # c
      <4>1. Of(d)' = Of(d)
        BY <1>3, <1>4, <3>2
      <4> QED BY <1>2, <3>1, <3>2, <4>1
    <3>3. CASE d = c
      <4>1. r.state # "unborn" /\ (Active(c)' => e \in UpdateEvents /\ Active(c))
        BY <1>2, <2>1, CommitVersions DEF Committed, Kind, Active
      <4>2. e \in UpdateEvents => Removals(Of(c)') = Removals(Of(c))
        <5>1. CASE open
          BY <1>3, <5>1 DEF Removals, Tells, UpdateEvents, RemoveEvents
        <5>2. CASE ~open
          BY <1>4, <5>2
        <5> QED BY <5>1, <5>2
      <4> QED BY <1>2, <3>1, <3>3, <4>1, <4>2
    <3> QED BY <3>2, <3>3
  <2>4. \A d \in Cards : In(d)' <=> In(d)
    BY <1>1 DEF In
  <2> QED BY <1>1, <2>2, <2>3, <2>4 DEF LeavingWorld
<1>11. ASSUME Staying PROVE StayingWorld'
  <2>1. e \in UpdateEvents /\ \A d \in Cards : Active(d)
    BY <1>11 DEF Allowed, Settles, StayingWorld
  <2>2. r.state = srv[c].state
    BY <2>1 DEF Committed, Kind, UpdateEvents, AddEvents, RemoveEvents
  <2> QED BY <1>2, <2>1, <2>2 DEF StayingWorld, Active
<1>12. ASSUME world.gaps PROVE GapWorld'
  <2>1. /\ own # Nothing => world.own
        /\ "archive" \notin world.ops => \A d \in Cards : srv[d].state # "archived"
        /\ \A d \in Cards : ~Active(d) /\ screen[d].ver # 0 =>
              /\ Updates(Of(d)) # {} => Removals(Of(d)) # {}
              /\ InFlight /\ d \in fetch.written => Removals(Of(d)) # {} \/ ~(missed \subseteq fetch.owed)
    BY <1>12 DEF Settles, GapWorld
  <2>2. Leaving /\ e \notin AddEvents /\ missed \subseteq missed'
    BY <1>1, <1>3, <1>4, <1>12, WorldFacts DEF Whole, Allowed
  <2>3. own' # Nothing => world.own
    BY <2>1 DEF OwnStep
  <2>4. "archive" \notin world.ops => \A d \in Cards : srv'[d].state # "archived"
    BY <1>2, <2>1 DEF Allowed
  <2>5. ASSUME NEW d \in Cards, ~Active(d)', screen[d].ver # 0
        PROVE  /\ Updates(Of(d)') # {} => Removals(Of(d)') # {}
               /\ InFlight /\ d \in fetch.written => Removals(Of(d)') # {} \/ ~(missed' \subseteq fetch.owed)
    <3>1. CASE ~open
      BY <1>4, <3>1 DEF Updates
    <3>2. CASE open /\ d # c
      <4>1. Of(d)' = Of(d) /\ ~Active(d)
        BY <1>2, <1>3, <2>5, <3>2
      <4> QED BY <2>1, <2>2, <2>5, <4>1
    <3>3. CASE open /\ d = c /\ e \in RemoveEvents
      <4>1. Removals(Of(c)') # {}
        BY <1>3, <3>3 DEF Removals, Tells
      <4> QED BY <3>3, <4>1
    <3>4. CASE open /\ d = c /\ e \notin RemoveEvents
      <4>1. e \in UpdateEvents /\ Stored(c) /\ ~Active(c)
        BY <1>2, <2>2, <2>5, <3>4 DEF Committed, Kind, Active
      <4>2. ~world.own /\ ~({"archive", "move"} \subseteq world.ops)
        BY <1>1, <1>12, <4>1, WorldFacts DEF Settles, StayingWorld
      <4>3. own = Nothing /\ srv[c].state = "archived"
        BY <2>1, <4>1, <4>2 DEF Stored, Active
      <4>4. "archive" \in world.ops /\ "move" \in world.ops
        BY <2>1, <4>1, <4>3 DEF Allowed
      <4> QED BY <4>2, <4>4
    <3> QED BY <3>1, <3>2, <3>3, <3>4
  <2> QED BY <1>1, <2>3, <2>4, <2>5 DEF GapWorld
<1> QED BY <1>1, <1>7, <1>8, <1>9, <1>10, <1>11, <1>12 DEF Settles, Whole, Leaving, Staying

-----------------------------------------------------------------------------
(* Every step keeps the invariant.                                         *)

LEMMA ElsewhereKeeps ==
    ASSUME IInv, Elsewhere
    PROVE  IInv'
<1>1. PICK e : \E c \in Cards : \E r \in Row : Committed(e, c, r) /\ Allowed(e, c, r)
  BY ElsewhereCommits DEF IInv
<1>2. PICK c \in Cards : \E r \in Row : Committed(e, c, r) /\ Allowed(e, c, r)
  BY <1>1
<1>3. PICK r \in Row : Committed(e, c, r) /\ Allowed(e, c, r)
  BY <1>2
<1>4. UNCHANGED <<world, screen, posId, fetch, own, socket, lost, fetches, owns>>
  BY DEF Elsewhere
<1>5. OwnStep(e, c)
  BY <1>4 DEF OwnStep
<1>6. Types' /\ Versions' /\ Guesses' /\ Gaps'
  BY <1>4, <1>5, <1>3, CommitTypes DEF IInv
<1>7. Settling => Settles'
  BY <1>4, <1>5, <1>3, CommitSettles DEF IInv
<1> QED BY <1>4, <1>6, <1>7 DEF IInv, Settling, Staying, Leaving, Whole

LEMMA DeliverKeeps ==
    ASSUME IInv, Deliver
    PROVE  IInv'
<1>1. PICK f \in frames :
        /\ world.inOrder => \A g \in frames : f.id <= g.id
        /\ frames' = frames \ {f}
        /\ CASE f.event = "card.moved" -> UpdateCard(f.card, f.copy, f.id, f.pairs)
             [] f.event = "card.updated" -> UpdateCard(f.card, f.copy, None, f.pairs)
             [] f.event \in {"card.created", "card.unarchived"} -> AddCard(f.card, f.copy)
             [] f.event \in {"card.archived", "card.deleted"} -> RemoveCard(f.card)
  BY DEF Deliver
<1>2. UNCHANGED <<world, srv, lastId, own, socket, missed, lost, fetches, owns>>
  BY DEF Deliver
<1>3. open' = open /\ due' = due
  BY <1>2 DEF socket
<1>4. Types /\ Versions /\ Guesses /\ Gaps /\ (Settling => Settles)
  BY DEF IInv
<1>5. Writer /\ Arrives(f) /\ \A d \in Cards \ {f.card} : Untouched(d)
  BY <1>1, <1>2, <1>4, Delivered
<1>6. Types' /\ Versions'
  BY <1>1, <1>2, <1>3, <1>4, <1>5, WriterTypes
<1>7. Gaps'
  BY <1>1, <1>2, <1>3, <1>4, <1>5, WriterGaps DEF Writer
<1>8. Guesses'
  <2>1. ASSUME NEW c \in Cards, screen'[c].guess PROVE screen[c].guess /\ screen'[c].ver = screen[c].ver
    BY <1>5, <2>1 DEF Writer, Untouched, TookAway, Wrote, NotShown
  <2> QED BY <1>2, <1>4, <2>1 DEF Guesses
<1>9. Settling => Settles'
  BY <1>1, <1>2, <1>3, <1>4, <1>5, ArrivalSettles
<1> QED BY <1>2, <1>6, <1>7, <1>8, <1>9 DEF IInv, Settling, Staying, Leaving, Whole

\* A frame is lost only where no card comes to the board or leaves it.
LEMMA LoseKeeps ==
    ASSUME IInv, Lose
    PROVE  IInv'
<1>1. PICK f \in frames : frames' = frames \ {f} /\ lost' = lost \cup {f.id}
  BY DEF Lose
<1>2. /\ UNCHANGED <<world, srv, lastId, screen, posId, fetch, own, missed>>
      /\ open' = open /\ due' = due /\ world.lossy
  BY DEF Lose, socket
<1>3. /\ Types /\ Versions /\ Guesses /\ Gaps /\ (Settling => Settles)
      /\ world \in World /\ FrameType(f) /\ f \in Of(f.card) /\ f.card \in Cards /\ lastId \in Nat
  BY LiveAssumption DEF IInv, Types, TypeOK, FrameType, Of
<1>4. (InFlight' <=> InFlight) /\ (Taken' <=> Taken)
  BY <1>2 DEF InFlight, Taken
<1>5. Types'
  <2>1. TypeOK'
    BY <1>1, <1>2, <1>3, <1>4 DEF Types, TypeOK, FrameType
  <2>2. \A g \in frames' : FrameType(g)'
    BY <1>1, <1>2, <1>3 DEF Types, FrameType
  <2>3. InFlight' => FetchType'
    BY <1>2, <1>3, <1>4 DEF Types, FetchType
  <2>4. own' # Nothing => OwnType'
    BY <1>2, <1>3 DEF Types, OwnType
  <2> QED BY <1>2, <1>3, <2>1, <2>2, <2>3, <2>4 DEF Types
<1>6. \A c \in Cards : Of(c)' \subseteq Of(c) /\ (c # f.card => Of(c)' = Of(c)) /\ Of(f.card)' = Of(f.card) \ {f}
  BY <1>1 DEF Of
<1>7. Versions'
  <2>1. Taken' => \A c \in DOMAIN fetch.snapshot : c \in Cards
    BY <1>3, <1>4 DEF Types, FetchType, Taken
  <2> QED BY <1>2, <1>3, <1>4, <1>6, <2>1 DEF Versions
<1>8. Guesses' /\ Gaps'
  BY <1>1, <1>2, <1>3, <1>4 DEF Guesses, Gaps
<1>9. ASSUME Settling PROVE Settles'
  <2>1. Staying /\ Leaving /\ ~Whole
    BY <1>2, <1>3, <1>9, WorldFacts DEF Whole
  <2>2. /\ \A c \in Cards : Active(c) /\ screen[c].ver # 0 /\ Removals(Of(c)) = {} /\ (Taken => In(c))
        /\ Adds(frames) = {}
    BY <1>9, <2>1, <1>3 DEF Settles, StayingWorld, LeavingWorld
  <2>3. f.event \in UpdateEvents
    BY <1>3, <2>2 DEF FrameType, Adds, Removals
  <2>4. lost' # {}
    BY <1>1
  <2>5. Now'
    BY <2>4 DEF Now
  <2>6. Then'
    <3> SUFFICES ASSUME Taken', Covered', NEW c \in Cards
                 PROVE  Fine(Active(c)', srv'[c].ver, Of(c)', After(c)')
      BY DEF Then
    <3>1. Taken /\ Covered /\ f.id <= fetch.upTo
      BY <1>1, <1>2, <1>4 DEF Covered
    <3>2. Active(c)' = Active(c) /\ After(c)' = After(c)
      BY <1>2 DEF Active, After, In
    <3>3. Fine(Active(c), srv[c].ver, Of(c), After(c))
      BY <1>3, <1>9, <3>1 DEF Settles, Then
    <3>4. CASE c # f.card
      BY <1>2, <1>6, <3>2, <3>3, <3>4
    <3>5. CASE c = f.card
      <4>1. /\ FramesOk(Of(c)) /\ Active(c) \in BOOLEAN /\ srv[c].ver \in Nat /\ screen[c].ver \in Nat
            /\ f \in Of(c) /\ f.copy.ver \in 1 .. srv[c].ver
        BY <1>3, <3>5, OfCard DEF FrameType
      <4>2. In(c) /\ fetch.snapshot[c].ver \in 1 .. srv[c].ver /\ f.copy.ver <= fetch.snapshot[c].ver
            /\ screen[c].ver <= srv[c].ver
        BY <1>3, <2>2, <3>1, <4>1 DEF Types, FetchType, Taken, In, Versions
      <4>3. After(c) \in Nat /\ fetch.snapshot[c].ver <= After(c) /\ After(c) <= srv[c].ver
        BY <2>2, <4>1, <4>2 DEF After, MergedVer
      <4>4. f.copy.ver = srv[c].ver => After(c) = srv[c].ver
        BY <4>1, <4>2, <4>3
      <4>5. Adds(Of(c)) = {}
        BY <2>2 DEF Adds, Of
      <4>6. Fine(Active(c), srv[c].ver, Of(c) \ {f}, After(c))
        BY <2>3, <3>3, <4>1, <4>3, <4>4, <4>5, FineDropped
      <4> QED BY <1>2, <1>6, <3>2, <3>5, <4>6
    <3> QED BY <3>4, <3>5
  <2>7. LeavingWorld'
    <3>1. /\ Adds(frames') = {}
          /\ \A c \in Cards : Removals(Of(c)') = {} /\ (Active(c)' <=> Active(c)) /\ (In(c)' <=> In(c))
      BY <1>1, <1>2, <1>6, <2>2 DEF Adds, Removals, Active, In
    <3> QED BY <1>2, <1>3, <1>4, <1>9, <2>1, <3>1 DEF Settles, LeavingWorld
  <2>8. StayingWorld'
    BY <1>2, <2>2 DEF StayingWorld, Active
  <2>9. world.gaps => GapWorld'
    BY <1>2, <1>3, <1>9, <2>8 DEF Settles, GapWorld, StayingWorld
  <2> QED BY <1>2, <2>1, <2>5, <2>6, <2>7, <2>8, <2>9 DEF Settles, Whole, Leaving, Staying
<1> QED BY <1>2, <1>5, <1>7, <1>8, <1>9 DEF IInv, Settling, Staying, Leaving, Whole

\* Steps after which the frames, the read and the versions on the page are what
\* they were.
LEMMA SettlesKept ==
    ASSUME Types, Settles, UNCHANGED <<world, srv, frames, fetch, lost, missed>>, open => open',
           \A c \in Cards : screen'[c].ver = screen[c].ver, own' # Nothing => own # Nothing \/ world.own
    PROVE  Settles'
<1>1. /\ InFlight' <=> InFlight
      /\ Taken' <=> Taken
      /\ \A c \in Cards : /\ Active(c)' = Active(c) /\ (Active(c)' <=> Active(c)) /\ (In(c)' <=> In(c))
                          /\ Of(c)' = Of(c) /\ After(c)' = After(c)
  BY DEF InFlight, Taken, Active, In, Of, After
<1>2. Now' /\ Then'
  BY <1>1 DEF Settles, Now, Then, Covered
<1>3. Whole => WholeWorld'
  BY <1>1 DEF Settles, WholeWorld
<1>4. Leaving => LeavingWorld'
  BY <1>1 DEF Settles, LeavingWorld
<1>5. Staying => StayingWorld'
  BY <1>1 DEF Settles, StayingWorld
<1>6. world.gaps => GapWorld'
  BY <1>1 DEF Settles, GapWorld
<1> QED BY <1>2, <1>3, <1>4, <1>5, <1>6 DEF Settles, Whole, Leaving, Staying

\* Steps after which no snapshot has been taken, and nothing written.
LEMMA SettlesUntaken ==
    ASSUME Types, Settles, UNCHANGED <<world, srv, frames, open>>, ~Taken', InFlight' => fetch'.written = {},
           lost' \cup missed' = lost \cup missed,
           \A c \in Cards : screen'[c].ver = screen[c].ver, own' # Nothing => own # Nothing
    PROVE  Settles'
<1>1. \A c \in Cards : /\ Active(c)' = Active(c) /\ (Active(c)' <=> Active(c)) /\ Of(c)' = Of(c)
  BY DEF Active, Of
<1>2. lost' = {} /\ missed' = {} <=> lost = {} /\ missed = {}
  <2>1. lost' \cup missed' = {} <=> lost' = {} /\ missed' = {}
    OBVIOUS
  <2>2. lost \cup missed = {} <=> lost = {} /\ missed = {}
    OBVIOUS
  <2> QED BY <2>1, <2>2
<1>3. Now' /\ Then'
  BY <1>1, <1>2 DEF Settles, Now, Then
<1>4. Whole => WholeWorld'
  BY <1>2 DEF Settles, WholeWorld
<1>5. Leaving => LeavingWorld'
  BY <1>1 DEF Settles, LeavingWorld
<1>6. Staying => StayingWorld'
  BY <1>1 DEF Settles, StayingWorld
<1>7. world.gaps => GapWorld'
  BY <1>1 DEF Settles, GapWorld
<1> QED BY <1>3, <1>4, <1>5, <1>6, <1>7 DEF Settles, Whole, Leaving, Staying

\* The socket.
LEMMA CloseKeeps ==
    ASSUME IInv, Close
    PROVE  IInv'
<1>1. /\ UNCHANGED <<world, srv, lastId, screen, posId, fetch, own, lost>>
      /\ due' = due /\ open' = FALSE /\ open /\ world.gaps /\ frames' = {}
      /\ missed' = missed \cup {f.id : f \in frames}
  BY DEF Close
<1>2. Types /\ Versions /\ Guesses /\ Gaps /\ (Settling => Settles) /\ world \in World
  BY LiveAssumption DEF IInv, Types, TypeOK
<1>3. (InFlight' <=> InFlight) /\ (Taken' <=> Taken)
  BY <1>1 DEF InFlight, Taken
<1>4. Types'
  <2>1. missed' \subseteq 1 .. lastId
    BY <1>1, <1>2 DEF Types, TypeOK
  <2>2. TypeOK'
    BY <1>1, <1>2, <1>3, <2>1 DEF Types, TypeOK
  <2>3. InFlight' => FetchType'
    BY <1>1, <1>2, <1>3 DEF Types, FetchType
  <2>4. own' # Nothing => OwnType'
    BY <1>1, <1>2 DEF Types, OwnType
  <2> QED BY <1>1, <1>2, <2>2, <2>3, <2>4 DEF Types
<1>5. Versions' /\ Guesses' /\ Gaps'
  BY <1>1, <1>2, <1>3 DEF Versions, Guesses, Gaps, Of
<1>6. ASSUME Settling PROVE Settles'
  <2>1. Leaving /\ ~Whole
    BY <1>1, <1>2, <1>6, WorldFacts DEF Whole
  <2>2. missed' = {} \/ (InFlight /\ missed' \subseteq fetch.owed) => frames = {} /\ missed' = missed
    BY <1>1, <1>2 DEF Gaps
  <2>3. \A c \in Cards : /\ Active(c)' = Active(c) /\ (Active(c)' <=> Active(c)) /\ (In(c)' <=> In(c))
                         /\ Of(c)' = {} /\ After(c)' = After(c)
                         /\ frames = {} => Of(c) = {}
    BY <1>1 DEF Active, In, Of, After
  <2>4. Now'
    BY <1>1, <1>2, <1>6, <2>2, <2>3 DEF Settles, Now
  <2>5. Then'
    BY <1>1, <1>2, <1>3, <1>6, <2>2, <2>3 DEF Settles, Then, Covered, Taken
  <2>6. LeavingWorld'
    BY <1>1, <1>2, <1>3, <1>6, <2>1, <2>3 DEF Settles, LeavingWorld, Adds, Removals
  <2>7. Staying => StayingWorld'
    BY <1>2, <1>6, <2>3 DEF Settles, StayingWorld
  <2>8. GapWorld'
    <3> SUFFICES ASSUME NEW c \in Cards, ~Active(c), screen[c].ver # 0, InFlight, c \in fetch.written
                 PROVE  ~(missed' \subseteq fetch.owed)
      BY <1>1, <1>2, <1>3, <1>6, <2>3 DEF Settles, GapWorld, Updates
    <3>1. Removals(Of(c)) # {} \/ ~(missed \subseteq fetch.owed)
      BY <1>1, <1>2, <1>6 DEF Settles, GapWorld
    <3> QED BY <1>1, <2>2, <3>1 DEF Removals, Of
  <2> QED BY <1>1, <2>1, <2>4, <2>5, <2>6, <2>7, <2>8 DEF Settles, Whole, Leaving, Staying
<1> QED BY <1>1, <1>4, <1>5, <1>6 DEF IInv, Settling, Staying, Leaving, Whole

LEMMA ReopenKeeps ==
    ASSUME IInv, Reopen
    PROVE  IInv'
<1>1. /\ UNCHANGED <<world, srv, lastId, frames, screen, posId, fetch, own, missed, lost>>
      /\ open' = TRUE /\ due' = TRUE
  BY DEF Reopen, server
<1>2. Types /\ Versions /\ Guesses /\ Gaps /\ (Settling => Settles)
  BY DEF IInv
<1>3. (InFlight' <=> InFlight) /\ (Taken' <=> Taken)
  BY <1>1 DEF InFlight, Taken
<1>4. Types'
  <2>1. TypeOK'
    BY <1>1, <1>2, <1>3 DEF Types, TypeOK
  <2>2. InFlight' => FetchType'
    BY <1>1, <1>2, <1>3 DEF Types, FetchType
  <2>3. own' # Nothing => OwnType'
    BY <1>1, <1>2 DEF Types, OwnType
  <2>4. \A f \in frames' : FrameType(f)'
    BY <1>1, <1>2 DEF Types, FrameType
  <2> QED BY <1>1, <1>2, <2>1, <2>2, <2>3, <2>4 DEF Types
<1>5. Versions' /\ Guesses' /\ Gaps'
  BY <1>1, <1>2, <1>3 DEF Versions, Guesses, Gaps, Of
<1>6. Settling => Settles'
  BY <1>1, <1>2, SettlesKept
<1> QED BY <1>1, <1>4, <1>5, <1>6 DEF IInv, Settling, Staying, Leaving, Whole

\* A read that starts.
LEMMA NewFetchOk ==
    ASSUME Types, fetch' = NewFetch, lastId' = lastId
    PROVE  /\ InFlight' /\ ~Taken' /\ FetchType'
           /\ fetch'.written = {} /\ fetch'.owed = missed
<1>1. /\ fetch'.upTo = 0 /\ fetch'.snapshot = Nothing /\ fetch'.written = {} /\ fetch'.owed = missed
      /\ fetch' = [upTo |-> 0, snapshot |-> Nothing, written |-> {}, placed |-> {}, removed |-> {},
                   owed |-> missed]
  BY DEF NewFetch, None
<1>2. missed \in SUBSET (1 .. lastId) /\ lastId \in Nat
  BY DEF Types, TypeOK
<1>3. fetch' \in FetchRecord(Nothing)
  BY <1>1, <1>2 DEF FetchRecord
<1>4. InFlight' /\ ~Taken'
  BY <1>1, <1>3, Records DEF InFlight, Taken
<1>5. FetchType'
  <2>1. fetch' \in [upTo : Nat, snapshot : {fetch'.snapshot}, written : SUBSET Cards,
                    placed : SUBSET Cards, removed : SUBSET Cards, owed : SUBSET (1 .. lastId')]
    BY <1>1, <1>3 DEF FetchRecord
  <2>2. fetch'.upTo <= lastId'
    BY <1>1, <1>2
  <2> QED BY <1>4, <2>1, <2>2 DEF FetchType
<1> QED BY <1>1, <1>4, <1>5

LEMMA StartFetchKeeps ==
    ASSUME IInv, StartFetch
    PROVE  IInv'
<1>1. /\ UNCHANGED <<world, srv, lastId, frames, screen, posId, own, open, missed, lost>>
      /\ fetch' = NewFetch /\ due' \in BOOLEAN
  BY DEF StartFetch, server, IInv, Types
<1>2. Types /\ Versions /\ Guesses /\ Gaps /\ (Settling => Settles)
  BY DEF IInv
<1>3. InFlight' /\ ~Taken' /\ FetchType' /\ fetch'.written = {} /\ fetch'.owed = missed
  BY <1>1, <1>2, NewFetchOk
<1>4. Types'
  <2>1. fetch'.written \cup fetch'.placed \cup fetch'.removed \subseteq Cards
    BY <1>3 DEF FetchType
  <2>2. TypeOK'
    BY <1>1, <1>2, <2>1 DEF Types, TypeOK
  <2>3. own' # Nothing => OwnType'
    BY <1>1, <1>2 DEF Types, OwnType
  <2>4. \A f \in frames' : FrameType(f)'
    BY <1>1, <1>2 DEF Types, FrameType
  <2> QED BY <1>1, <1>2, <1>3, <2>2, <2>3, <2>4 DEF Types
<1>5. Versions' /\ Guesses' /\ Gaps'
  BY <1>1, <1>2, <1>3 DEF Versions, Guesses, Gaps
<1>6. Settling => Settles'
  BY <1>1, <1>2, <1>3, SettlesUntaken
<1> QED BY <1>1, <1>4, <1>5, <1>6 DEF IInv, Settling, Staying, Leaving, Whole

LEMMA FailFetchKeeps ==
    ASSUME IInv, FailFetch
    PROVE  IInv'
<1>1. /\ UNCHANGED <<world, srv, lastId, frames, screen, posId, own, open, due>>
      /\ ~InFlight' /\ ~Taken' /\ lost' = lost \cup missed /\ missed' = {}
  BY DEF FailFetch, server, socket, InFlight, Taken
<1>2. Types /\ Versions /\ Guesses /\ Gaps /\ (Settling => Settles)
  BY DEF IInv
<1>3. Types'
  <2>1. TypeOK'
    BY <1>1, <1>2 DEF Types, TypeOK
  <2>2. own' # Nothing => OwnType'
    BY <1>1, <1>2 DEF Types, OwnType
  <2>3. \A f \in frames' : FrameType(f)'
    BY <1>1, <1>2 DEF Types, FrameType
  <2> QED BY <1>1, <1>2, <2>1, <2>2, <2>3 DEF Types
<1>4. Versions' /\ Guesses' /\ Gaps'
  BY <1>1, <1>2 DEF Versions, Guesses, Gaps
<1>5. Settling => Settles'
  BY <1>1, <1>2, SettlesUntaken
<1> QED BY <1>1, <1>3, <1>4, <1>5 DEF IInv, Settling, Staying, Leaving, Whole

\* What the server reads for the snapshot.
LEMMA SnapshotRead ==
    ASSUME Types, Versions, ReadSnapshot
    PROVE  /\ InFlight /\ InFlight' /\ ~Taken /\ FetchType'
           /\ fetch'.upTo = lastId /\ fetch'.owed = fetch.owed
           /\ fetch'.written = fetch.written /\ fetch'.removed = fetch.removed
           /\ \A c \in Cards : In(c)' <=> Active(c)
           /\ DOMAIN fetch'.snapshot \subseteq Cards
           /\ \A c \in Cards : Active(c) => fetch'.snapshot[c] = CopyOf(srv[c])
<1> DEFINE read == [c \in {d \in Cards : Active(d)} |-> CopyOf(srv[c])]
           f1 == [fetch EXCEPT !.upTo = lastId]
<1>1. /\ InFlight /\ fetch.snapshot = Nothing /\ FetchType /\ lastId \in Nat /\ lastId' = lastId /\ srv' = srv
      /\ srv \in [Cards -> Row]
  BY DEF ReadSnapshot, Types, TypeOK, server, Row
<1>2. fetch' = [fetch EXCEPT !.upTo = lastId, !.snapshot = read]
  BY DEF ReadSnapshot
<1>3. DOMAIN read = {d \in Cards : Active(d)} /\ \A c \in DOMAIN read : read[c] = CopyOf(srv[c])
  OBVIOUS
<1> HIDE DEF read
<1>4. f1 \in FetchRecord(Nothing) /\ f1.upTo = lastId /\ f1.owed = fetch.owed
      /\ f1.written = fetch.written /\ f1.removed = fetch.removed
  BY <1>1 DEF FetchType, FetchRecord
<1>5. fetch' = [f1 EXCEPT !.snapshot = read]
  BY <1>1, <1>2 DEF FetchType
<1> HIDE DEF f1
<1>6. fetch' \in FetchRecord(read) /\ fetch'.upTo = lastId /\ fetch'.owed = fetch.owed
      /\ fetch'.written = fetch.written /\ fetch'.removed = fetch.removed /\ fetch'.snapshot = read
  BY <1>4, <1>5 DEF FetchRecord
<1>7. InFlight'
  BY <1>6, Records DEF InFlight
<1>8. \A c \in DOMAIN read : /\ CopyOf(srv[c]) \in Copies /\ ~CopyOf(srv[c]).guess
                             /\ CopyOf(srv[c]).ver = srv[c].ver
                             /\ srv[c].ver \in 1 .. srv[c].ver
  <2> TAKE c \in DOMAIN read
  <2>1. c \in Cards /\ Active(c) /\ srv[c] \in Row
    BY <1>1, <1>3
  <2>2. srv[c].ver # 0
    BY <2>1 DEF Versions, Active
  <2> QED BY <2>1, <2>2 DEF CopyOf, Copies, Row
<1>9. FetchType'
  <2>1. fetch' \in [upTo : Nat, snapshot : {fetch'.snapshot}, written : SUBSET Cards,
                    placed : SUBSET Cards, removed : SUBSET Cards, owed : SUBSET (1 .. lastId')]
    BY <1>1, <1>6 DEF FetchRecord
  <2> QED BY <1>1, <1>3, <1>6, <1>8, <2>1 DEF FetchType
<1> QED BY <1>1, <1>3, <1>6, <1>7, <1>9 DEF Taken, In

LEMMA ReadSnapshotKeeps ==
    ASSUME IInv, ReadSnapshot
    PROVE  IInv'
<1>1. UNCHANGED <<world, srv, lastId, frames, screen, posId, own, open, due, missed, lost>>
  BY DEF ReadSnapshot, server, socket
<1>2. Types /\ Versions /\ Guesses /\ Gaps /\ (Settling => Settles) /\ world \in World
  BY LiveAssumption DEF IInv, Types, TypeOK
<1>3. /\ InFlight /\ InFlight' /\ ~Taken /\ FetchType'
      /\ fetch'.upTo = lastId /\ fetch'.owed = fetch.owed
      /\ fetch'.written = fetch.written /\ fetch'.removed = fetch.removed
      /\ \A c \in Cards : In(c)' <=> Active(c)
      /\ DOMAIN fetch'.snapshot \subseteq Cards
      /\ \A c \in Cards : Active(c) => fetch'.snapshot[c] = CopyOf(srv[c])
  BY <1>2, SnapshotRead
<1>4. Types'
  <2>1. fetch'.written \cup fetch'.placed \cup fetch'.removed \subseteq Cards
    BY <1>3 DEF FetchType
  <2>2. TypeOK'
    BY <1>1, <1>2, <2>1 DEF Types, TypeOK
  <2>3. own' # Nothing => OwnType'
    BY <1>1, <1>2 DEF Types, OwnType
  <2>4. \A f \in frames' : FrameType(f)'
    BY <1>1, <1>2 DEF Types, FrameType
  <2> QED BY <1>1, <1>2, <1>3, <2>2, <2>3, <2>4 DEF Types
<1>5. Versions'
  <2>1. ASSUME NEW c \in DOMAIN fetch'.snapshot
        PROVE  /\ \A f \in Of(c)' : f.copy.ver <= fetch'.snapshot[c].ver
               /\ screen'[c].ver <= fetch'.snapshot[c].ver
    <3>1. c \in Cards /\ Active(c)
      BY <1>3, <2>1 DEF In
    <3>2. fetch'.snapshot[c].ver = srv[c].ver
      <4>1. fetch'.snapshot[c] = CopyOf(srv[c])
        BY <1>3, <3>1
      <4> QED BY <4>1 DEF CopyOf
    <3>3. Of(c)' = Of(c)
      BY <1>1 DEF Of
    <3> QED BY <1>1, <1>2, <3>1, <3>2, <3>3, OfCard DEF Versions
  <2> QED BY <1>1, <1>2, <2>1 DEF Versions
<1>6. Guesses' /\ Gaps'
  BY <1>1, <1>2, <1>3 DEF Guesses, Gaps
<1>7. ASSUME Settling PROVE Settles'
  <2>1. Leaving \/ Whole
    BY <1>2, <1>7, WorldFacts
  <2>2. \A c \in Cards : /\ Active(c)' = Active(c) /\ (Active(c)' <=> Active(c)) /\ Of(c)' = Of(c)
                         /\ screen[c].ver \in Nat /\ srv[c].ver \in Nat /\ screen[c].ver <= srv[c].ver
                         /\ Active(c) => srv[c].ver # 0
    BY <1>1, <1>2, OfCard DEF Active, Of, Versions
  <2>3. Now'
    BY <1>1, <1>2, <1>7, <2>2 DEF Settles, Now
  <2>4. ASSUME NEW c \in Cards
        PROVE  /\ Active(c) /\ screen[c].ver # 0 => After(c)' = srv[c].ver
               /\ Active(c) /\ screen[c].ver = 0 => After(c)' = IF c \in fetch.removed THEN 0 ELSE srv[c].ver
               /\ ~Active(c) => After(c)' = IF c \in fetch.written THEN screen[c].ver ELSE 0
    <3>1. ASSUME Active(c) PROVE fetch'.snapshot[c].ver = srv[c].ver
      <4>1. fetch'.snapshot[c] = CopyOf(srv[c])
        BY <1>3, <3>1
      <4> QED BY <4>1 DEF CopyOf
    <3>2. After(c)' = MergedVer(screen[c].ver, In(c)', fetch'.snapshot[c].ver, c \in fetch'.written,
                                c \in fetch'.removed)
      BY <1>1 DEF After
    <3> QED BY <1>3, <2>2, <3>1, <3>2 DEF MergedVer
  <2>5. Then'
    <3> SUFFICES ASSUME Covered', NEW c \in Cards
                 PROVE  Fine(Active(c)', srv'[c].ver, Of(c)', After(c)')
      BY DEF Then
    <3>1. missed \subseteq fetch.owed
      BY <1>1, <1>3 DEF Covered
    <3>2. CASE Whole
      <4>1. Fine(Active(c), srv[c].ver, Of(c), screen[c].ver)
        BY <1>7, <1>2, <3>2 DEF Settles, WholeWorld, Now
      <4> QED BY <1>1, <2>2, <2>4, <4>1 DEF Fine, Current
    <3>3. CASE ~Whole
      <4>1. /\ Leaving /\ Adds(frames) = {}
            /\ Active(c) => screen[c].ver # 0 /\ Removals(Of(c)) = {}
        BY <1>2, <1>7, <2>1, <3>3 DEF Settles, LeavingWorld
      <4>2. Adds(Of(c)) = {}
        BY <4>1 DEF Adds, Of
      <4>3. CASE Active(c)
        BY <1>1, <2>2, <2>4, <4>1, <4>3 DEF Fine, Current
      <4>4. CASE ~Active(c)
        <5>1. CASE After(c)' = 0
          BY <1>1, <2>2, <4>2, <4>4, <5>1 DEF Fine
        <5>2. CASE After(c)' # 0
          <6>1. c \in fetch.written /\ screen[c].ver # 0
            BY <2>4, <4>4, <5>2
          <6>2. world.gaps
            BY <1>2, <1>7, <3>3, <4>4, WorldFacts DEF Whole, Settles, StayingWorld
          <6>3. Removals(Of(c)) # {}
            BY <1>2, <1>3, <1>7, <3>1, <4>4, <6>1, <6>2 DEF Settles, GapWorld
          <6> QED BY <1>1, <2>2, <4>2, <4>4, <6>3 DEF Fine, Goes
        <5> QED BY <5>1, <5>2
      <4> QED BY <4>3, <4>4
    <3> QED BY <3>2, <3>3
  <2>6. ASSUME Whole PROVE WholeWorld'
    <3>1. open' /\ lost' = {} /\ missed' = {}
      BY <1>1, <1>2, <1>7, <2>6 DEF Settles, WholeWorld
    <3>2. ASSUME NEW c \in Cards
          PROVE  /\ Active(c) /\ screen[c].ver = 0 => \E r \in Adds(Of(c)) : r.id <= lastId
                 /\ ~Active(c) /\ screen[c].ver # 0 => \E g \in Removals(Of(c)) : g.id <= lastId
      <4>1. Fine(Active(c), srv[c].ver, Of(c), screen[c].ver)
        BY <1>7, <1>2, <2>6 DEF Settles, WholeWorld, Now
      <4>2. \A f \in Of(c) : f.id <= lastId
        BY <1>2, OfCard DEF Types
      <4> QED BY <4>1, <4>2 DEF Fine, Comes, Goes, Adds, Removals
    <3> QED BY <1>1, <1>3, <2>2, <3>1, <3>2 DEF WholeWorld
  <2>7. Leaving => LeavingWorld'
    BY <1>1, <1>2, <1>3, <1>7, <2>2 DEF Settles, LeavingWorld
  <2>8. Staying => StayingWorld'
    BY <1>2, <1>7, <2>2 DEF Settles, StayingWorld
  <2>9. world.gaps => GapWorld'
    BY <1>1, <1>2, <1>3, <1>7, <2>2 DEF Settles, GapWorld
  <2> QED BY <1>1, <2>3, <2>5, <2>6, <2>7, <2>8, <2>9 DEF Settles, Whole, Leaving, Staying
<1> QED BY <1>1, <1>4, <1>5, <1>6, <1>7 DEF IInv, Settling, Staying, Leaving, Whole

\* What a read leaves of a card.
LEMMA MergedIs ==
    ASSUME Types, Versions, Taken, NEW c \in Cards
    PROVE  LET m == Merged(c, fetch.snapshot, fetch) IN
           /\ m \in Copies /\ m.ver = After(c) /\ m.ver <= srv[c].ver
           /\ m.ver = 0 <=> m = NotShown
           /\ m.guess => screen[c].guess /\ m.ver = screen[c].ver
<1> DEFINE m == Merged(c, fetch.snapshot, fetch)
           s == fetch.snapshot[c]
<1> SUFFICES /\ m \in Copies /\ m.ver = After(c) /\ m.ver <= srv[c].ver
             /\ m.ver = 0 <=> m = NotShown
             /\ m.guess => screen[c].guess /\ m.ver = screen[c].ver
  OBVIOUS
<1>1. /\ FetchType /\ screen[c] \in Copies /\ srv[c].ver \in Nat /\ screen[c].ver <= srv[c].ver
      /\ screen[c].ver = 0 <=> screen[c] = NotShown
  BY OfCard DEF Types, TypeOK, Taken, Versions
<1>2. NotShown \in Copies /\ NotShown.ver = 0 /\ ~NotShown.guess
  BY DEF NotShown, Copies
<1>3. CASE ~In(c)
  <2>1. m = IF c \in fetch.written THEN screen[c] ELSE NotShown
    BY <1>3 DEF Merged, In
  <2>2. After(c) = IF c \in fetch.written THEN screen[c].ver ELSE 0
    BY <1>3 DEF After, MergedVer
  <2> HIDE DEF m
  <2>3. CASE c \in fetch.written
    BY <1>1, <2>1, <2>2, <2>3
  <2>4. CASE c \notin fetch.written
    BY <1>1, <1>2, <2>1, <2>2, <2>4
  <2> QED BY <2>3, <2>4
<1>4. CASE In(c)
  <2>1. s \in Copies /\ ~s.guess /\ s.ver \in 1 .. srv[c].ver
    BY <1>1, <1>4 DEF FetchType, In, Taken
  <2>2. s.ver # 0 /\ s # NotShown /\ s.ver <= srv[c].ver
    BY <1>1, <1>2, <2>1
  <2>3. m = CASE ~Shown(c) -> IF c \in fetch.removed THEN NotShown ELSE s
              [] Shown(c) /\ c \in fetch.written /\ Stale(s, screen[c]) -> screen[c]
              [] Shown(c) /\ c \in fetch.placed /\ s.ver = screen[c].ver -> [s EXCEPT !.pos = screen[c].pos]
              [] OTHER -> s
    BY <1>4 DEF Merged, In
  <2>4. After(c) = IF screen[c].ver = 0 THEN (IF c \in fetch.removed THEN 0 ELSE s.ver)
                   ELSE IF c \in fetch.written /\ screen[c].ver > s.ver THEN screen[c].ver ELSE s.ver
    BY <1>4 DEF After, MergedVer
  <2>5. (Shown(c) <=> screen[c].ver # 0) /\ (Stale(s, screen[c]) <=> s.ver < screen[c].ver)
    BY <1>1 DEF Shown, Stale
  <2>6. s.ver \in Nat /\ screen[c].ver \in Nat
    BY <1>1, <2>1 DEF Copies
  <2> DEFINE q == [s EXCEPT !.pos = screen[c].pos]
  <2>7. q \in Copies /\ q.ver = s.ver /\ ~q.guess
    BY <1>1, <2>1 DEF Copies
  <2> HIDE DEF m, s, q
  <2>8. CASE ~Shown(c)
    <3>1. m = IF c \in fetch.removed THEN NotShown ELSE s
      BY <2>3, <2>8
    <3>2. After(c) = IF c \in fetch.removed THEN 0 ELSE s.ver
      BY <2>4, <2>5, <2>8
    <3>3. CASE c \in fetch.removed
      BY <1>1, <1>2, <3>1, <3>2, <3>3
    <3>4. CASE c \notin fetch.removed
      BY <2>1, <2>2, <3>1, <3>2, <3>4
    <3> QED BY <3>3, <3>4
  <2>9. CASE Shown(c) /\ c \in fetch.written /\ Stale(s, screen[c])
    <3>1. s.ver # screen[c].ver
      BY <2>5, <2>6, <2>9
    <3>2. m = screen[c]
      BY <2>3, <2>9, <3>1 DEF q
    <3>3. After(c) = screen[c].ver
      BY <2>4, <2>5, <2>6, <2>9
    <3> QED BY <1>1, <3>2, <3>3
  <2>10. CASE Shown(c) /\ ~(c \in fetch.written /\ Stale(s, screen[c]))
    <3>1. m = s \/ m = q
      BY <2>3, <2>10 DEF q
    <3>2. After(c) = s.ver
      BY <2>4, <2>5, <2>6, <2>10
    <3> QED BY <1>2, <2>1, <2>2, <2>7, <3>1, <3>2
  <2> QED BY <2>8, <2>9, <2>10
<1> QED BY <1>3, <1>4

LEMMA ApplySnapshotKeeps ==
    ASSUME IInv, ApplySnapshot
    PROVE  IInv'
<1>1. /\ UNCHANGED <<world, srv, lastId, frames, posId, own, open, due>>
      /\ Taken /\ InFlight /\ ~InFlight' /\ ~Taken'
      /\ screen' = [c \in Cards |-> Merged(c, fetch.snapshot, fetch)]
      /\ lost' = {i \in lost : i > fetch.upTo}
      /\ missed' = missed \ fetch.owed
  BY DEF ApplySnapshot, server, socket, InFlight, Taken
<1>2. Types /\ Versions /\ Guesses /\ Gaps /\ (Settling => Settles)
  BY DEF IInv
<1>3. \A c \in Cards : /\ screen'[c] \in Copies /\ screen'[c].ver = After(c)
                       /\ screen'[c].ver <= srv[c].ver
                       /\ screen'[c].ver = 0 <=> screen'[c] = NotShown
                       /\ screen'[c].guess => screen[c].guess /\ screen'[c].ver = screen[c].ver
  <2> TAKE c \in Cards
  <2>1. screen'[c] = Merged(c, fetch.snapshot, fetch)
    BY <1>1
  <2> QED BY <1>1, <1>2, <2>1, MergedIs
<1>4. Types'
  <2>1. screen' \in [Cards -> Copies]
    BY <1>1, <1>3
  <2>2. TypeOK'
    BY <1>1, <1>2, <2>1 DEF Types, TypeOK
  <2>3. own' # Nothing => OwnType'
    BY <1>1, <1>2 DEF Types, OwnType
  <2>4. \A f \in frames' : FrameType(f)'
    BY <1>1, <1>2 DEF Types, FrameType
  <2> QED BY <1>1, <1>2, <2>2, <2>3, <2>4 DEF Types
<1>5. Versions' /\ Guesses' /\ Gaps'
  BY <1>1, <1>2, <1>3 DEF Versions, Guesses, Gaps
<1>6. ASSUME Settling PROVE Settles'
  <2>1. \A c \in Cards : /\ Active(c)' = Active(c) /\ (Active(c)' <=> Active(c)) /\ Of(c)' = Of(c)
    BY <1>1 DEF Active, Of
  <2>2. Now'
    <3> SUFFICES ASSUME lost' = {}, missed' = {}, NEW c \in Cards
                 PROVE  Fine(Active(c)', srv'[c].ver, Of(c)', screen'[c].ver)
      BY DEF Now
    <3>1. \A i \in lost : i <= fetch.upTo
      <4>1. lost \subseteq 1 .. lastId /\ lastId \in Nat /\ fetch.upTo \in Nat
        BY <1>1, <1>2 DEF Types, TypeOK, FetchType
      <4>2. \A i \in lost : ~(i > fetch.upTo)
        BY <1>1
      <4> QED BY <4>1, <4>2
    <3>2. Covered
      BY <1>1, <3>1 DEF Covered
    <3> QED BY <1>1, <1>2, <1>3, <1>6, <2>1, <3>2 DEF Settles, Then
  <2>3. Then'
    BY <1>1 DEF Then
  <2>4. Whole => WholeWorld'
    BY <1>1, <1>2, <1>6 DEF Settles, WholeWorld
  <2>5. Leaving => LeavingWorld'
    <3> HAVE Leaving
    <3>1. ASSUME NEW c \in Cards, Active(c) PROVE After(c) # 0
      <4>1. In(c) /\ screen[c].ver # 0
        BY <1>1, <1>2, <1>6, <3>1 DEF Settles, LeavingWorld
      <4>2. fetch.snapshot[c].ver # 0
        BY <1>1, <1>2, <4>1 DEF Types, FetchType, In
      <4> QED BY <4>1, <4>2 DEF After, MergedVer
    <3> QED BY <1>1, <1>2, <1>3, <1>6, <2>1, <3>1 DEF Settles, LeavingWorld
  <2>6. Staying => StayingWorld'
    BY <1>2, <1>6, <2>1 DEF Settles, StayingWorld
  <2>7. world.gaps => GapWorld'
    <3> HAVE world.gaps
    <3>1. Leaving /\ GapWorld /\ LeavingWorld
      <4>1. world \in World
        BY <1>2, LiveAssumption DEF Types, TypeOK
      <4> QED BY <1>2, <1>6, <4>1, WorldFacts DEF Whole, Settles
    <3>2. ASSUME NEW c \in Cards, ~Active(c), After(c) # 0, Updates(Of(c)) # {}
          PROVE  Removals(Of(c)) # {}
      <4>1. In(c) /\ screen[c].ver = 0 => c \in fetch.removed
        BY <1>1, <3>1 DEF LeavingWorld
      <4>2. screen[c].ver # 0
        BY <3>2, <4>1 DEF After, MergedVer
      <4> QED BY <3>1, <3>2, <4>2 DEF GapWorld
    <3> QED BY <1>1, <1>3, <2>1, <3>1, <3>2 DEF GapWorld
  <2> QED BY <1>1, <2>2, <2>3, <2>4, <2>5, <2>6, <2>7 DEF Settles, Whole, Leaving, Staying
<1> QED BY <1>1, <1>4, <1>5, <1>6 DEF IInv, Settling, Staying, Leaving, Whole

\* The page's requests.
LEMMA StartMoveKeeps ==
    ASSUME IInv, NEW c \in Cards, StartMove(c)
    PROVE  IInv'
<1>1. /\ UNCHANGED <<world, srv, lastId, frames, posId, fetch, open, due, missed, lost>>
      /\ world.own /\ own = Nothing /\ Shown(c)
      /\ own' = [kind |-> "move", card |-> c, before |-> screen[c], answer |-> "none", copy |-> NotShown]
      /\ screen' = [screen EXCEPT ![c].pos = Dragged, ![c].guess = TRUE]
  BY DEF StartMove, Ask, server, socket
<1>2. Types /\ Versions /\ Guesses /\ Gaps /\ (Settling => Settles) /\ screen \in [Cards -> Copies]
  BY DEF IInv, Types, TypeOK
<1>3. (InFlight' <=> InFlight) /\ (Taken' <=> Taken)
  BY <1>1 DEF InFlight, Taken
<1>4. \A d \in Cards : /\ screen'[d] \in Copies /\ screen'[d].ver = screen[d].ver
                       /\ d # c => screen'[d] = screen[d]
                       /\ screen'[d].ver = 0 <=> screen'[d] = NotShown
  <2> TAKE d \in Cards
  <2>1. screen[d].ver = 0 <=> screen[d] = NotShown
    BY <1>2 DEF Versions
  <2>2. CASE d # c
    BY <1>1, <1>2, <2>1, <2>2
  <2>3. CASE d = c
    <3> DEFINE q == [screen[c] EXCEPT !.pos = Dragged]
    <3>1. q \in Copies /\ q.ver = screen[c].ver
      BY <1>2 DEF Copies, Dragged
    <3>2. screen'[c] = [q EXCEPT !.guess = TRUE]
      BY <1>1, <1>2 DEF Copies
    <3> HIDE DEF q
    <3>3. screen'[c] \in Copies /\ screen'[c].ver = screen[c].ver
      BY <3>1, <3>2 DEF Copies
    <3>4. screen[c].ver # 0 /\ NotShown.ver = 0
      BY <1>1, <2>1, <2>3 DEF Shown, NotShown
    <3> QED BY <2>3, <3>3, <3>4
  <2> QED BY <2>2, <2>3
<1>5. screen' \in [Cards -> Copies]
  BY <1>1, <1>2, <1>4
<1>6. own' \in OwnRecord /\ own' # Nothing /\ own'.answer = "none"
      /\ own'.card = c /\ own'.before = screen[c] /\ own'.kind = "move"
  <2>1. own' \in OwnRecord
    BY <1>1, <1>2 DEF OwnRecord, NotShown, Copies
  <2> QED BY <1>1, <2>1, Records
<1>7. Types'
  <2>1. TypeOK'
    BY <1>1, <1>2, <1>3, <1>5 DEF Types, TypeOK
  <2>2. InFlight' => FetchType'
    BY <1>1, <1>2, <1>3 DEF Types, FetchType
  <2>3. \A f \in frames' : FrameType(f)'
    BY <1>1, <1>2 DEF Types, FrameType
  <2> QED BY <1>1, <1>2, <1>6, <2>1, <2>2, <2>3 DEF Types, OwnType
<1>8. Versions'
  <2>1. Taken => DOMAIN fetch.snapshot \subseteq Cards
    BY <1>2 DEF Types, FetchType, Taken
  <2> QED BY <1>1, <1>2, <1>3, <1>4, <1>6, <2>1 DEF Versions, Of
<1>9. Guesses'
  <2>1. \A d \in Cards : ~screen[d].guess
    BY <1>1, <1>2 DEF Guesses
  <2> QED BY <1>1, <1>4, <1>6, <2>1 DEF Guesses
<1>10. Gaps'
  BY <1>1, <1>2, <1>3 DEF Gaps
<1>11. Settling => Settles'
  BY <1>1, <1>2, <1>4, SettlesKept
<1> QED BY <1>1, <1>7, <1>8, <1>9, <1>10, <1>11 DEF IInv, Settling, Staying, Leaving, Whole

LEMMA StartEditKeeps ==
    ASSUME IInv, NEW c \in Cards, StartEdit(c)
    PROVE  IInv'
<1>1. /\ UNCHANGED <<world, srv, lastId, frames, screen, posId, fetch, open, due, missed, lost>>
      /\ world.own /\ own = Nothing
      /\ own' = [kind |-> "edit", card |-> c, before |-> screen[c], answer |-> "none", copy |-> NotShown]
  BY DEF StartEdit, Ask, server, socket
<1>2. Types /\ Versions /\ Guesses /\ Gaps /\ (Settling => Settles) /\ screen \in [Cards -> Copies]
  BY DEF IInv, Types, TypeOK
<1>3. (InFlight' <=> InFlight) /\ (Taken' <=> Taken)
  BY <1>1 DEF InFlight, Taken
<1>4. own' \in OwnRecord /\ own' # Nothing /\ own'.answer = "none"
      /\ own'.card = c /\ own'.before = screen[c] /\ own'.kind = "edit"
  <2>1. own' \in OwnRecord
    BY <1>1, <1>2 DEF OwnRecord, NotShown, Copies
  <2> QED BY <1>1, <2>1, Records
<1>5. Types'
  <2>1. TypeOK'
    BY <1>1, <1>2, <1>3 DEF Types, TypeOK
  <2>2. InFlight' => FetchType'
    BY <1>1, <1>2, <1>3 DEF Types, FetchType
  <2>3. \A f \in frames' : FrameType(f)'
    BY <1>1, <1>2 DEF Types, FrameType
  <2> QED BY <1>1, <1>2, <1>4, <2>1, <2>2, <2>3 DEF Types, OwnType
<1>6. Versions' /\ Guesses' /\ Gaps'
  BY <1>1, <1>2, <1>3, <1>4 DEF Versions, Guesses, Gaps, Of
<1>7. Settling => Settles'
  BY <1>1, <1>2, SettlesKept
<1> QED BY <1>1, <1>5, <1>6, <1>7 DEF IInv, Settling, Staying, Leaving, Whole

LEMMA AnswerIs ==
    ASSUME Types, own # Nothing, NEW a \in {"ok", "reload", "refused"}, NEW copy \in Copies,
           Answered(a, copy)
    PROVE  /\ own' \in OwnRecord /\ own' # Nothing /\ own'.answer = a /\ own'.copy = copy
           /\ own'.kind = own.kind /\ own'.card = own.card /\ own'.before = own.before
<1> DEFINE q == [own EXCEPT !.answer = a]
<1>1. own \in OwnRecord
  BY DEF Types, OwnType
<1>2. q \in OwnRecord /\ q.answer = a /\ q.kind = own.kind /\ q.card = own.card /\ q.before = own.before
  BY <1>1 DEF OwnRecord
<1>3. own' = [q EXCEPT !.copy = copy]
  BY <1>1 DEF Answered, OwnRecord
<1> HIDE DEF q
<1>4. /\ own' \in OwnRecord /\ own'.answer = a /\ own'.copy = copy
      /\ own'.kind = own.kind /\ own'.card = own.card /\ own'.before = own.before
  BY <1>2, <1>3 DEF OwnRecord
<1> QED BY <1>4, Records

LEMMA ServeKeeps ==
    ASSUME IInv, Serve
    PROVE  IInv'
<1> DEFINE c == own.card
<1>1. /\ UNCHANGED <<world, screen, posId, fetch, socket, lost, fetches, owns>>
      /\ own # Nothing
      /\ \/ /\ IF own.kind = "move" THEN srv[c].ver = own.before.ver /\ Move(c) ELSE Edit(c)
            /\ Answered("ok", CopyOf(srv'[c]))
         \/ /\ \E a \in {"reload", "refused"} : Answered(a, NotShown)
            /\ UNCHANGED <<server, missed>>
  BY DEF Serve
<1>2. /\ Types /\ Versions /\ Guesses /\ Gaps /\ (Settling => Settles)
      /\ own \in OwnRecord /\ c \in Cards
  BY <1>1 DEF IInv, Types, OwnType, OwnRecord
<1>3. CASE /\ IF own.kind = "move" THEN srv[c].ver = own.before.ver /\ Move(c) ELSE Edit(c)
           /\ Answered("ok", CopyOf(srv'[c]))
  <2>1. \E e \in UpdateEvents : \E r \in Row : Committed(e, c, r)
    BY <1>2, <1>3, MoveCommits, EditCommits DEF UpdateEvents
  <2>2. PICK e \in UpdateEvents : \E r \in Row : Committed(e, c, r)
    BY <2>1
  <2>3. PICK r \in Row : Committed(e, c, r)
    BY <2>2
  <2>4. CopyOf(srv'[c]) \in Copies
    BY <1>2, <2>3 DEF Committed, CopyOf, Copies, Row
  <2>5. /\ own' \in OwnRecord /\ own'.answer = "ok" /\ own'.copy = CopyOf(srv'[c])
        /\ own'.kind = own.kind /\ own'.card = own.card /\ own'.before = own.before
    BY <1>1, <1>2, <1>3, <2>4, AnswerIs
  <2>6. OwnStep(e, c)
    BY <1>1, <1>3, <2>5 DEF OwnStep, OwnType
  <2>7. Types' /\ Versions' /\ Guesses' /\ Gaps'
    BY <1>1, <1>2, <2>3, <2>6, CommitTypes
  <2>8. Allowed(e, c, r)
    <3>1. r.state = srv[c].state
      BY <2>3 DEF Committed, Kind, UpdateEvents, AddEvents, RemoveEvents
    <3> QED BY <1>1, <3>1 DEF Allowed, UpdateEvents, AddEvents
  <2>9. Settling => Settles'
    BY <1>1, <1>2, <2>3, <2>6, <2>8, CommitSettles
  <2> QED BY <1>1, <2>7, <2>9 DEF IInv, Settling, Staying, Leaving, Whole
<1>4. CASE /\ \E a \in {"reload", "refused"} : Answered(a, NotShown)
           /\ UNCHANGED <<server, missed>>
  <2>1. UNCHANGED <<world, srv, lastId, frames, screen, posId, fetch, open, due, missed, lost>>
    BY <1>1, <1>4 DEF server, socket
  <2>2. NotShown \in Copies
    BY DEF NotShown, Copies
  <2>3. /\ own' \in OwnRecord /\ own' # Nothing /\ own'.answer # "ok"
        /\ own'.kind = own.kind /\ own'.card = own.card /\ own'.before = own.before
    BY <1>1, <1>2, <1>4, <2>2, AnswerIs
  <2>4. (InFlight' <=> InFlight) /\ (Taken' <=> Taken)
    BY <2>1 DEF InFlight, Taken
  <2>5. Types'
    <3>1. TypeOK'
      BY <1>2, <2>1, <2>4 DEF Types, TypeOK
    <3>2. InFlight' => FetchType'
      BY <1>2, <2>1, <2>4 DEF Types, FetchType
    <3>3. \A f \in frames' : FrameType(f)'
      BY <1>2, <2>1 DEF Types, FrameType
    <3> QED BY <1>2, <2>1, <2>3, <3>1, <3>2, <3>3 DEF Types, OwnType
  <2>6. Versions' /\ Guesses' /\ Gaps'
    BY <1>1, <1>2, <2>1, <2>3, <2>4 DEF Versions, Guesses, Gaps, Of
  <2>7. Settling => Settles'
    BY <1>1, <1>2, <2>1, SettlesKept
  <2> QED BY <2>1, <2>5, <2>6, <2>7 DEF IInv, Settling, Staying, Leaving, Whole
<1> QED BY <1>1, <1>3, <1>4

LEMMA TakeAnswerKeeps ==
    ASSUME IInv, TakeAnswer
    PROVE  IInv'
<1>1. PICK c \in Cards : c = own.card
  BY DEF TakeAnswer, IInv, Types, OwnType, OwnRecord
<1> DEFINE ver == own.copy.ver
<1>2. /\ UNCHANGED <<world, srv, lastId, frames, posId, open, due, missed, lost>>
      /\ own # Nothing /\ own.answer = "ok" /\ own' = Nothing
      /\ ReplaceUnlessStale(c, own.copy)
  BY <1>1 DEF TakeAnswer, server, socket
<1>3. /\ Types /\ Versions /\ Guesses /\ Gaps /\ (Settling => Settles)
      /\ own \in OwnRecord /\ own.copy \in Copies
      /\ ver \in 1 .. srv[c].ver /\ ~own.copy.guess /\ srv[c].ver \in Nat
      /\ \A d \in Cards : screen[d].ver \in Nat
  BY <1>1, <1>2, OfCard DEF IInv, Types, OwnType, OwnRecord, Versions
<1>4. /\ SameFetch /\ ScreenOk /\ ver # 0
      /\ \A d \in Cards \ {c} : Untouched(d)
      /\ IF screen[c].ver # 0 /\ screen[c].ver <= ver THEN Wrote(c, ver) ELSE Untouched(c)
  BY <1>2, <1>3, ReplacedUnlessStale
<1>5. Writer
  BY <1>2, <1>3, <1>4 DEF Writer, Types, TypeOK
<1>6. Types' /\ Versions'
  BY <1>2, <1>3, <1>5, WriterTypes
<1>7. Gaps'
  BY <1>2, <1>3, <1>4, WriterGaps
<1>8. Guesses'
  <2>1. ASSUME NEW d \in Cards, screen'[d].guess PROVE FALSE
    <3>1. Untouched(d)
      BY <1>4, <2>1 DEF Wrote
    <3>2. screen[d].guess
      BY <2>1, <3>1 DEF Untouched
    <3>3. own.kind = "move" /\ d = c /\ screen[d].ver = own.before.ver /\ ver > own.before.ver
      BY <1>1, <1>2, <1>3, <3>2 DEF Guesses
    <3>4. screen[c].ver # 0 /\ screen[c].ver <= ver
      <4>1. screen[c] # NotShown
        BY <3>2, <3>3 DEF NotShown
      <4> QED BY <1>3, <3>3, <4>1 DEF Versions
    <3> QED BY <1>4, <2>1, <3>3, <3>4 DEF Wrote
  <2> QED BY <1>2, <2>1 DEF Guesses
<1>9. ASSUME Settling PROVE Settles'
  <2>1. /\ \A d \in Cards : Active(d)' = Active(d) /\ (Active(d)' <=> Active(d)) /\ Of(d)' = Of(d)
        /\ (InFlight' <=> InFlight) /\ (Taken' <=> Taken) /\ world \in World
        /\ Taken => \A d \in Cards : In(d)' <=> In(d)
        /\ InFlight => fetch'.upTo = fetch.upTo /\ fetch'.owed = fetch.owed
    BY <1>2, <1>3, <1>4, LiveAssumption DEF Active, Of, SameFetch, Taken, InFlight, In, Types, TypeOK
  <2>2. CASE \A d \in Cards : Untouched(d)
    <3>1. \A d \in Cards : screen'[d].ver = screen[d].ver
      BY <2>2 DEF Untouched
    <3>2. Now'
      BY <1>2, <1>3, <1>9, <2>1, <3>1 DEF Settles, Now
    <3>3. Taken => \A d \in Cards : After(d)' = After(d)
      BY <1>3, <1>4, <2>2, AfterWriter
    <3>4. Then'
      BY <1>2, <1>3, <1>9, <2>1, <3>3 DEF Settles, Then, Covered, Taken
    <3>5. Whole => WholeWorld'
      BY <1>2, <1>3, <1>9, <2>1, <2>2 DEF Settles, WholeWorld, Untouched, Taken
    <3>6. Leaving => LeavingWorld'
      BY <1>2, <1>3, <1>9, <2>1, <2>2 DEF Settles, LeavingWorld, Untouched, Taken
    <3>7. Staying => StayingWorld'
      BY <1>3, <1>9, <2>1 DEF Settles, StayingWorld
    <3>8. world.gaps => GapWorld'
      BY <1>2, <1>3, <1>9, <2>1, <2>2 DEF Settles, GapWorld, Untouched
    <3> QED BY <1>2, <3>2, <3>4, <3>5, <3>6, <3>7, <3>8 DEF Settles, Whole, Leaving, Staying
  <2>3. CASE screen[c].ver # 0 /\ screen[c].ver <= ver
    <3>1. Wrote(c, ver)
      BY <1>4, <2>3
    <3>2. ~Active(c) => Goes(Of(c))
      BY <1>2, <1>3, <1>9, <2>3, Going
    <3>3. Active(c) \in BOOLEAN /\ srv[c].ver \in Nat /\ screen[c].ver \in Nat /\ ver \in Nat /\ ver <= srv[c].ver
      BY <1>3, OfCard
    <3>4. Now'
      <4> SUFFICES ASSUME lost = {}, missed = {}, NEW d \in Cards
                   PROVE  Fine(Active(d)', srv'[d].ver, Of(d)', screen'[d].ver)
        BY <1>2 DEF Now
      <4>1. Fine(Active(d), srv[d].ver, Of(d), screen[d].ver)
        BY <1>3, <1>9 DEF Settles, Now
      <4>2. CASE d = c
        <5>1. Fine(Active(c), srv[c].ver, Of(c), ver)
          BY <2>3, <3>2, <3>3, <4>1, <4>2, FineRaised
        <5> QED BY <1>2, <2>1, <3>1, <4>2, <5>1 DEF Wrote
      <4>3. CASE d # c
        BY <1>2, <1>4, <2>1, <4>1, <4>3 DEF Untouched
      <4> QED BY <4>2, <4>3
    <3>5. Then'
      <4> SUFFICES ASSUME Taken, Covered, NEW d \in Cards
                   PROVE  Fine(Active(d)', srv'[d].ver, Of(d)', After(d)')
        BY <1>2, <2>1 DEF Then, Covered, Taken
      <4>1. Fine(Active(d), srv[d].ver, Of(d), After(d))
        BY <1>3, <1>9 DEF Settles, Then
      <4>2. CASE d = c
        <5>1. /\ After(c) \in Nat /\ After(c)' \in Nat /\ After(c) <= After(c)' /\ After(c)' <= srv[c].ver
          <6>1. /\ After(c) \in Nat
                /\ \A x \in 1 .. srv[c].ver : screen[c].ver <= x /\ Wrote(c, x) =>
                      After(c)' \in Nat /\ After(c) <= After(c)' /\ After(c)' <= srv[c].ver
            BY <1>3, <1>4, AfterWriter
          <6> QED BY <1>3, <2>3, <3>1, <6>1
        <5>2. Fine(Active(c), srv[c].ver, Of(c), After(c)')
          BY <3>2, <3>3, <4>1, <4>2, <5>1, FineRaised
        <5>3. Active(c)' = Active(c) /\ Of(c)' = Of(c) /\ srv'[c].ver = srv[c].ver
          BY <1>2, <1>3, <2>1
        <5>4. Fine(Active(c)', srv'[c].ver, Of(c)', After(c)')
          BY <5>2, <5>3
        <5> QED BY <4>2, <5>4
      <4>3. CASE d # c
        <5>1. After(d)' = After(d)
          BY <1>3, <1>4, <4>3, AfterWriter
        <5> QED BY <1>2, <2>1, <4>1, <4>3, <5>1
      <4> QED BY <4>2, <4>3
    <3>6. \A d \in Cards : /\ screen'[d].ver = 0 <=> screen[d].ver = 0
                           /\ InFlight => /\ d \in fetch.written => d \in fetch'.written
                                          /\ d \in fetch'.removed <=> d \in fetch.removed
      BY <1>3, <1>4, <2>3, <3>1 DEF Untouched, Wrote
    <3>7. Whole => WholeWorld'
      BY <1>2, <1>3, <1>9, <2>1, <3>6 DEF Settles, WholeWorld, Taken
    <3>8. Leaving => LeavingWorld'
      BY <1>2, <1>3, <1>9, <2>1, <3>6 DEF Settles, LeavingWorld, Taken
    <3>9. Staying => StayingWorld'
      BY <1>3, <1>9, <2>1 DEF Settles, StayingWorld
    <3>10. world.gaps => GapWorld'
      <4> HAVE world.gaps
      <4>1. world.own
        BY <1>2, <1>3, <1>9 DEF Settles, GapWorld
      <4>2. \A d \in Cards : Active(d)
        BY <1>3, <1>9, <2>1, <4>1, WorldFacts DEF Settles, StayingWorld
      <4> QED BY <1>2, <2>1, <4>2 DEF GapWorld, Active
    <3> QED BY <1>2, <3>4, <3>5, <3>7, <3>8, <3>9, <3>10 DEF Settles, Whole, Leaving, Staying
  <2> QED BY <1>4, <2>2, <2>3
<1> QED BY <1>2, <1>6, <1>7, <1>8, <1>9 DEF IInv, Settling, Staying, Leaving, Whole

\* A refused drop is undone, and no guess is left.
LEMMA RolledBack ==
    ASSUME Types, Versions, Guesses, own # Nothing, screen' = IF own.kind = "move" THEN RollBack ELSE screen
    PROVE  /\ screen' \in [Cards -> Copies]
           /\ \A d \in Cards : /\ screen'[d].ver = screen[d].ver /\ ~screen'[d].guess
                               /\ screen'[d].ver = 0 <=> screen'[d] = NotShown
<1> DEFINE c == own.card
           applied == own.kind = "move" /\ Shown(c) /\ ~Stale(own.before, screen[c])
           q == [screen[c] EXCEPT !.pos = own.before.pos]
<1>1. /\ screen \in [Cards -> Copies] /\ own \in OwnRecord /\ c \in Cards /\ own.before \in Copies
      /\ ~own.before.guess
      /\ \A d \in Cards : screen[d].ver = 0 <=> screen[d] = NotShown
  BY DEF Types, TypeOK, OwnType, OwnRecord, Guesses, Versions
<1>2. screen' = IF applied THEN [screen EXCEPT ![c].pos = own.before.pos, ![c].guess = own.before.guess]
                           ELSE screen
  BY DEF RollBack
<1>3. q \in Copies /\ q.ver = screen[c].ver
  BY <1>1 DEF Copies
<1>4. ASSUME applied PROVE screen'[c] = [q EXCEPT !.guess = own.before.guess]
                           /\ screen' = [screen EXCEPT ![c] = screen'[c]]
  <2>1. screen' = [screen EXCEPT ![c].pos = own.before.pos, ![c].guess = own.before.guess]
    BY <1>2, <1>4
  <2> QED BY <1>1, <2>1 DEF Copies
<1> HIDE DEF q
<1>5. CASE applied
  <2>1. screen'[c] \in Copies /\ screen'[c].ver = screen[c].ver /\ ~screen'[c].guess
    BY <1>1, <1>3, <1>4, <1>5 DEF Copies
  <2>2. screen[c].ver # 0 /\ NotShown.ver = 0
    BY <1>1, <1>5 DEF Shown, NotShown
  <2>3. screen' \in [Cards -> Copies] /\ \A d \in Cards \ {c} : screen'[d] = screen[d]
    BY <1>1, <1>4, <1>5, <2>1
  <2>4. \A d \in Cards \ {c} : ~screen[d].guess
    BY DEF Guesses
  <2> QED BY <1>1, <2>1, <2>2, <2>3, <2>4
<1>6. CASE ~applied
  <2>1. screen' = screen
    BY <1>2, <1>6
  <2>2. ASSUME NEW d \in Cards, screen[d].guess PROVE FALSE
    <3>1. own.kind = "move" /\ d = c /\ screen[c].ver = own.before.ver
      BY <2>2 DEF Guesses
    <3>2. Shown(c)
      BY <2>2, <3>1 DEF Shown, NotShown
    <3>3. ~Stale(own.before, screen[c])
      BY <1>1, <3>1 DEF Stale, Copies
    <3> QED BY <1>6, <3>1, <3>2, <3>3
  <2> QED BY <1>1, <2>1, <2>2
<1> QED BY <1>5, <1>6

LEMMA TakeRefusalKeeps ==
    ASSUME IInv, TakeRefusal
    PROVE  IInv'
<1>1. /\ UNCHANGED <<world, srv, lastId, frames, posId, open, due, missed, lost>>
      /\ own # Nothing /\ own' = Nothing
      /\ screen' = IF own.kind = "move" THEN RollBack ELSE screen
      /\ fetch' = NewFetch \/ fetch' = fetch
  BY DEF TakeRefusal, server, socket
<1>2. Types /\ Versions /\ Guesses /\ Gaps /\ (Settling => Settles)
  BY DEF IInv
<1>3. /\ screen' \in [Cards -> Copies]
      /\ \A d \in Cards : /\ screen'[d].ver = screen[d].ver /\ ~screen'[d].guess
                          /\ screen'[d].ver = 0 <=> screen'[d] = NotShown
  BY <1>1, <1>2, RolledBack
<1>4. Guesses'
  BY <1>1, <1>3 DEF Guesses
<1>5. \A f \in frames' : FrameType(f)'
  BY <1>1, <1>2 DEF Types, FrameType
<1>6. CASE fetch' = fetch
  <2>1. (InFlight' <=> InFlight) /\ (Taken' <=> Taken)
    BY <1>6 DEF InFlight, Taken
  <2>2. TypeOK'
    BY <1>1, <1>2, <1>3, <1>6, <2>1 DEF Types, TypeOK
  <2>3. InFlight' => FetchType'
    BY <1>1, <1>2, <1>6, <2>1 DEF Types, FetchType
  <2>4. Types'
    BY <1>1, <1>2, <1>5, <2>2, <2>3 DEF Types
  <2>5. Versions' /\ Gaps'
    <3>1. Taken => DOMAIN fetch.snapshot \subseteq Cards
      BY <1>2 DEF Types, FetchType, Taken
    <3> QED BY <1>1, <1>2, <1>3, <1>6, <2>1, <3>1 DEF Versions, Gaps, Of
  <2>6. Settling => Settles'
    BY <1>1, <1>2, <1>3, <1>6, SettlesKept
  <2> QED BY <1>1, <1>4, <2>4, <2>5, <2>6 DEF IInv, Settling, Staying, Leaving, Whole
<1>7. CASE fetch' = NewFetch
  <2>1. InFlight' /\ ~Taken' /\ FetchType' /\ fetch'.written = {} /\ fetch'.owed = missed
    BY <1>1, <1>2, <1>7, NewFetchOk
  <2>2. fetch'.written \cup fetch'.placed \cup fetch'.removed \subseteq Cards
    BY <2>1 DEF FetchType
  <2>3. TypeOK'
    BY <1>1, <1>2, <1>3, <2>2 DEF Types, TypeOK
  <2>4. Types'
    BY <1>1, <1>2, <1>5, <2>1, <2>3 DEF Types
  <2>5. Versions' /\ Gaps'
    BY <1>1, <1>2, <1>3, <2>1 DEF Versions, Gaps
  <2>6. Settling => Settles'
    BY <1>1, <1>2, <1>3, <2>1, SettlesUntaken
  <2> QED BY <1>1, <1>4, <2>4, <2>5, <2>6 DEF IInv, Settling, Staying, Leaving, Whole
<1> QED BY <1>1, <1>6, <1>7

-----------------------------------------------------------------------------
(* The theorems.                                                           *)

LEMMA InitIInv == Init => IInv
<1> SUFFICES ASSUME Init PROVE IInv
  OBVIOUS
<1>1. /\ world \in Worlds /\ world \in World /\ lastId = 0 /\ frames = {} /\ fetch = Nothing /\ own = Nothing
      /\ open = TRUE /\ due = FALSE /\ missed = {} /\ lost = {}
      /\ screen = [c \in Cards |-> IF Active(c) THEN CopyOf(srv[c]) ELSE NotShown]
      /\ posId = [c \in Cards |-> 0]
      /\ ~InFlight /\ ~Taken
  BY LiveAssumption DEF Init, None, InFlight, Taken
<1>2. PICK unborn \in SUBSET Cards :
        /\ "create" \notin world.ops => unborn = {}
        /\ srv = [c \in Cards |-> IF c \in unborn THEN [state |-> "unborn", ver |-> 0, pos |-> 0]
                                                  ELSE [state |-> "active", ver |-> 1, pos |-> 0]]
  BY DEF Init
<1>3. \A c \in Cards : /\ srv[c] \in Row
                       /\ c \in unborn => srv[c].state = "unborn" /\ srv[c].ver = 0 /\ ~Active(c)
                       /\ c \notin unborn => srv[c].state = "active" /\ srv[c].ver = 1 /\ Active(c)
  BY <1>2 DEF Row, Active
<1>4. \A c \in Cards : /\ screen[c] \in Copies /\ ~screen[c].guess
                       /\ screen[c].ver = srv[c].ver
                       /\ screen[c].ver = 0 <=> screen[c] = NotShown
  <2> TAKE c \in Cards
  <2>1. CASE c \in unborn
    BY <1>1, <1>3, <2>1 DEF NotShown, Copies
  <2>2. CASE c \notin unborn
    <3>1. screen[c] = CopyOf(srv[c])
      BY <1>1, <1>3, <2>2
    <3> QED BY <1>3, <2>2, <3>1 DEF CopyOf, NotShown, Copies, Row
  <2> QED BY <2>1, <2>2
<1>5. Types
  <2>1. srv \in [Cards -> Row] /\ screen \in [Cards -> Copies] /\ posId \in [Cards -> 0 .. lastId]
    BY <1>1, <1>2, <1>3, <1>4
  <2> QED BY <1>1, <2>1 DEF Types, TypeOK, Row
<1>6. Versions /\ Guesses /\ Gaps
  BY <1>1, <1>3, <1>4 DEF Versions, Guesses, Gaps
<1>7. Settles
  <2>1. \A c \in Cards : Of(c) = {} /\ (Active(c) <=> c \notin unborn)
    BY <1>1, <1>3 DEF Of
  <2>2. Now /\ Then
    BY <1>1, <1>3, <1>4, <2>1 DEF Now, Then, Fine, Current, Adds, Removals
  <2>3. WholeWorld
    BY <1>1 DEF WholeWorld
  <2>4. Leaving => unborn = {}
    BY <1>2 DEF Leaving
  <2>5. Leaving => LeavingWorld
    BY <1>1, <1>3, <1>4, <2>1, <2>4 DEF LeavingWorld, Adds, Removals
  <2>6. Staying => unborn = {}
    BY <1>2 DEF Staying
  <2>7. Staying => StayingWorld
    BY <2>1, <2>6 DEF StayingWorld
  <2>8. GapWorld
    BY <1>1, <1>3, <1>4, <2>1 DEF GapWorld, Updates
  <2> QED BY <2>2, <2>3, <2>5, <2>7, <2>8 DEF Settles
<1> QED BY <1>5, <1>6, <1>7 DEF IInv

LEMMA NextIInv == IInv /\ [Next]_vars => IInv'
<1> SUFFICES ASSUME IInv, [Next]_vars PROVE IInv'
  OBVIOUS
<1>1. CASE Elsewhere
  BY <1>1, ElsewhereKeeps
<1>2. CASE Lose
  BY <1>2, LoseKeeps
<1>3. CASE Close
  BY <1>3, CloseKeeps
<1>4. CASE Reopen
  BY <1>4, ReopenKeeps
<1>5. CASE Deliver
  BY <1>5, DeliverKeeps
<1>6. CASE StartFetch
  BY <1>6, StartFetchKeeps
<1>7. CASE ReadSnapshot
  BY <1>7, ReadSnapshotKeeps
<1>8. CASE ApplySnapshot
  BY <1>8, ApplySnapshotKeeps
<1>9. CASE FailFetch
  BY <1>9, FailFetchKeeps
<1>10. CASE \E c \in Cards : StartMove(c) \/ StartEdit(c)
  BY <1>10, StartMoveKeeps, StartEditKeeps
<1>11. CASE Serve
  BY <1>11, ServeKeeps
<1>12. CASE TakeAnswer
  BY <1>12, TakeAnswerKeeps
<1>13. CASE TakeRefusal
  BY <1>13, TakeRefusalKeeps
<1>14. CASE UNCHANGED vars
  <2>1. UNCHANGED <<world, srv, lastId, frames, screen, posId, fetch, own, open, due, missed, lost>>
    BY <1>14 DEF vars, server, socket
  <2>2. (InFlight' <=> InFlight) /\ (Taken' <=> Taken)
    BY <2>1 DEF InFlight, Taken
  <2>3. Types'
    <3>1. TypeOK'
      BY <2>1, <2>2 DEF IInv, Types, TypeOK
    <3>2. InFlight' => FetchType'
      BY <2>1, <2>2 DEF IInv, Types, FetchType
    <3>3. \A f \in frames' : FrameType(f)'
      BY <2>1 DEF IInv, Types, FrameType
    <3> QED BY <2>1, <3>1, <3>2, <3>3 DEF IInv, Types, OwnType
  <2>4. Versions' /\ Guesses' /\ Gaps'
    BY <2>1, <2>2 DEF IInv, Versions, Guesses, Gaps, Of
  <2>5. Settling => Settles'
    BY <2>1, SettlesKept DEF IInv
  <2> QED BY <2>1, <2>3, <2>4, <2>5 DEF IInv, Settling, Staying, Leaving, Whole
<1> QED BY <1>1, <1>2, <1>3, <1>4, <1>5, <1>6, <1>7, <1>8, <1>9, <1>10, <1>11, <1>12, <1>13, <1>14 DEF Next

\* The invariant, for any cards, worlds, commits, reads, requests and gaps.
THEOREM LiveInvariance == Spec => []IInv
  BY InitIInv, NextIInv, PTL DEF Spec

\* Every variable always has its type.
THEOREM LiveTypes == Spec => []TypeOK
<1>1. IInv => TypeOK
  BY DEF IInv, Types
<1> QED BY <1>1, LiveInvariance, PTL

\* In every world in which it does, and whatever overtakes what: once nothing is
\* under way, the page shows exactly the active cards, each in the version and the
\* cell the server has.
THEOREM PageSettles == Spec => [](Settling => ScreenSettles)
<1>1. ASSUME IInv, Settling, Quiet PROVE Settled
  <2>1. Types /\ Versions /\ Guesses /\ Gaps /\ Settles
    BY <1>1 DEF IInv
  <2>2. frames = {} /\ ~InFlight /\ own = Nothing /\ open /\ ~due /\ lost = {}
    BY <1>1 DEF Quiet, InFlight
  <2>3. missed = {}
    BY <2>1, <2>2 DEF Gaps
  <2>4. ASSUME NEW c \in Cards
        PROVE  /\ Shown(c) <=> Active(c)
               /\ Shown(c) => screen[c].ver = srv[c].ver /\ ~screen[c].guess
    <3>1. Fine(Active(c), srv[c].ver, {}, screen[c].ver)
      <4>1. Of(c) = {}
        BY <2>2 DEF Of
      <4> QED BY <2>1, <2>2, <2>3, <4>1 DEF Settles, Now
    <3>2. IF Active(c) THEN screen[c].ver # 0 /\ screen[c].ver = srv[c].ver ELSE screen[c].ver = 0
      BY <3>1 DEF Fine, Comes, Goes, Current, Adds, Removals, Updates
    <3>3. ~screen[c].guess
      BY <2>1, <2>2 DEF Guesses
    <3> QED BY <2>1, <3>2, <3>3 DEF Versions, Shown
  <2> QED BY <2>4 DEF Settled
<1>2. IInv => (Settling => ScreenSettles)
  BY <1>1 DEF ScreenSettles
<1> QED BY <1>2, LiveInvariance, PTL
-----------------------------------------------------------------------------
(* Each card at its place: the invariant.                                  *)

\* Frame f has a version and a position for card c.
Touches(f, c) == c = f.card \/ c \in DOMAIN f.pairs
VerIn(f, c) == IF c = f.card THEN f.copy.ver ELSE f.pairs[c]
PosIn(f, c) == IF c = f.card THEN f.copy.pos ELSE f.id

Moves == {f \in frames : f.event = "card.moved"}

\* After event i no frame takes card c away or to another place than the server's.
Steady(c, i) == \A g \in frames : i < g.id /\ Touches(g, c) =>
                   g.event \notin RemoveEvents /\ PosIn(g, c) = srv[c].pos

NotTaken(c, i, j) == \A g \in Removals(Of(c)) : i < g.id => j <= g.id

\* In order, frame f finds card c on the page.
Met(f, c) ==
    \/ Shown(c) /\ NotTaken(c, 0, f.id)
    \/ \E r \in Adds(Of(c)) : r.id < f.id /\ NotTaken(c, r.id, f.id)

\* Frame f brings card c to its place for good.
Brings(f, c) ==
    /\ Touches(f, c) /\ PosIn(f, c) = srv[c].pos /\ Steady(c, f.id)
    /\ f.event \in AddEvents \/ (f.event \in UpdateEvents /\ Met(f, c))

\* The frames arrive in order and nothing else is under way.
InOrder ==
    /\ \A f \in frames : \A c \in Cards :
          /\ posId[c] < f.id
          /\ Touches(f, c) => VerIn(f, c) \in 1 .. srv[c].ver /\ screen[c].ver <= VerIn(f, c)
    /\ \A f, g \in frames : \A c \in Cards :
          f.id < g.id /\ Touches(f, c) /\ Touches(g, c) => VerIn(f, c) <= VerIn(g, c)
    /\ \A c \in Cards : Active(c) =>
          \/ Shown(c) /\ screen[c].pos = srv[c].pos /\ Steady(c, 0)
          \/ \E f \in frames : Brings(f, c)

\* Frame f is that of the last move, which brought card c to its place.
LastMove(f, c) ==
    /\ f \in Moves /\ f.id = srv[c].pos
    /\ f.copy.ver = srv[f.card].ver
    /\ c = f.card \/ (c \in DOMAIN f.pairs /\ f.pairs[c] = srv[c].ver)

ToCome(c) == \E f \in frames : LastMove(f, c)

\* Every move went to the top of the cell, and so moved all of its cards.
AtTop ==
    /\ \A f \in frames : f.event \in {"card.moved"} \cup RemoveEvents
    /\ \A c \in Cards :
          /\ srv[c].pos <= lastId /\ screen[c].pos <= lastId
          /\ Active(c) =>
                /\ \A d \in Cards : Active(d) => srv[d].pos = srv[c].pos
                /\ posId[c] <= srv[c].pos
                /\ \A f \in Moves : f.id <= srv[c].pos
                /\ world.inOrder /\ Moves # {} => ToCome(c)
                /\ ToCome(c) \/ (screen[c].pos = srv[c].pos /\ posId[c] = srv[c].pos)
    /\ \A f \in Moves : f.copy.pos = f.id
    /\ Taken =>
          /\ world.inOrder
          /\ \A c \in DOMAIN fetch.snapshot :
                /\ fetch.snapshot[c].pos <= lastId
                /\ \A f \in Moves : f.card = c /\ f.id > fetch.upTo => fetch.snapshot[c].ver < f.copy.ver
                /\ Active(c) =>
                      /\ srv[c].pos <= fetch.upTo => fetch.snapshot[c].pos = srv[c].pos
                      /\ screen[c].pos > fetch.upTo =>
                            c \in fetch.placed \/ fetch.snapshot[c].ver < screen[c].ver

Falling == world.top /\ world.ops \subseteq {"move", "archive", "delete"}

\* No frame came twice, and only moves set siblings aside; without a gap and a
\* request of the page, only a read that the user asks for is ever under way.
Basics ==
    /\ owns \in Nat /\ fetches \in Nat
    /\ \A f, g \in frames : f.id = g.id => f = g
    /\ \A f \in frames : f.event # "card.moved" => DOMAIN f.pairs = {}
    /\ own # Nothing => owns # 0
    /\ Whole => open /\ ~due /\ (owns = 0 /\ fetches = 0 => ~InFlight)

Places ==
    /\ Basics
    /\ Whole /\ owns = 0 /\ fetches = 0 /\ world.inOrder => InOrder
    /\ Whole /\ owns = 0 /\ Falling /\ (world.inOrder \/ fetches = 0) => AtTop

-----------------------------------------------------------------------------
(* Commits, and the positions they set.                                    *)

\* Frame n tells of event e, which made card c the row r and shifted other cards.
Published(n, e, c, r, shifted) ==
    /\ lastId' = lastId + 1
    /\ srv' \in [Cards -> Row]
    /\ srv'[c] = r
    /\ \A d \in Cards \ {c} : /\ srv'[d].state = srv[d].state /\ srv'[d].ver = srv[d].ver
                              /\ srv'[d].pos = IF d \in shifted THEN lastId + 1 ELSE srv[d].pos
    /\ n.id = lastId + 1 /\ n.event = e /\ n.card = c /\ n.copy = CopyOf(r)
    /\ DOMAIN n.pairs = shifted /\ \A d \in shifted : n.pairs[d] = srv[d].ver
    /\ frames' = IF open THEN frames \cup {n} ELSE frames

\* What an event makes of its card, and which cards it shifts.
Changes(e, c, r, shifted) ==
    \/ /\ e = "card.updated" /\ shifted = {} /\ Active(c)
       /\ r.state = srv[c].state /\ r.ver = srv[c].ver + 1 /\ r.pos = srv[c].pos
    \/ /\ e = "card.moved" /\ Stored(c)
       /\ shifted \subseteq {d \in Cards \ {c} : Active(d)}
       /\ world.top => shifted = {d \in Cards \ {c} : Active(d)}
       /\ r.state = srv[c].state /\ r.ver = srv[c].ver + 1 /\ r.pos = lastId + 1
    \/ /\ e \in AddEvents /\ shifted = {} /\ ~Active(c)
       /\ r.state = "active" /\ r.ver # 0 /\ srv[c].ver <= r.ver
    \/ /\ e \in RemoveEvents /\ shifted = {} /\ Active(c)
       /\ r.state \in {"archived", "deleted"} /\ r.ver = srv[c].ver /\ r.pos = srv[c].pos

LEMMA CommitPublishes ==
    ASSUME Types, NEW e, NEW c \in Cards, NEW r \in Row, NEW shifted \in SUBSET (Cards \ {c}),
           Commit(e, c, r, shifted)
    PROVE  \E n : Published(n, e, c, r, shifted)
<1>1. srv \in [Cards -> Row] /\ lastId \in Nat
  BY DEF Types, TypeOK, Row
<1>2. /\ lastId' = lastId + 1 /\ lastId' \in Nat
      /\ srv' = [d \in Cards |-> CASE d = c -> r
                                   [] d \in shifted -> [srv[d] EXCEPT !.pos = lastId']
                                   [] OTHER -> srv[d]]
  BY <1>1 DEF Commit
<1>3. ASSUME NEW d \in Cards
      PROVE  /\ srv'[d] \in Row
             /\ d = c => srv'[d] = r
             /\ d # c => /\ srv'[d].state = srv[d].state /\ srv'[d].ver = srv[d].ver
                         /\ srv'[d].pos = IF d \in shifted THEN lastId + 1 ELSE srv[d].pos
  <2>1. CASE d = c
    BY <1>2, <2>1
  <2>2. CASE d \in shifted
    <3>1. srv'[d] = [srv[d] EXCEPT !.pos = lastId'] /\ d # c
      BY <1>2, <2>2
    <3> QED BY <1>1, <1>2, <2>2, <3>1 DEF Row
  <2>3. CASE d # c /\ d \notin shifted
    <3>1. srv'[d] = srv[d]
      BY <1>2, <2>3
    <3> QED BY <1>1, <2>3, <3>1
  <2> QED BY <2>1, <2>2, <2>3
<1>4. srv' \in [Cards -> Row]
  BY <1>2, <1>3
<1> DEFINE n == [id |-> lastId', event |-> e, card |-> c, copy |-> CopyOf(r),
                 pairs |-> [d \in shifted |-> srv[d].ver]]
<1>5. /\ n.id = lastId + 1 /\ n.event = e /\ n.card = c /\ n.copy = CopyOf(r)
      /\ DOMAIN n.pairs = shifted /\ \A d \in shifted : n.pairs[d] = srv[d].ver
  BY <1>2
<1>6. frames' = IF open THEN frames \cup {n} ELSE frames
  BY DEF Commit
<1> HIDE DEF n
<1> QED BY <1>2, <1>3, <1>4, <1>5, <1>6 DEF Published

LEMMA EditPublishes ==
    ASSUME Types, NEW c \in Cards, Edit(c)
    PROVE  \E r \in Row : \E shifted \in SUBSET (Cards \ {c}) : \E n :
              Published(n, "card.updated", c, r, shifted) /\ Changes("card.updated", c, r, shifted)
<1> DEFINE r == [srv[c] EXCEPT !.ver = @ + 1]
<1>1. srv \in [Cards -> Row]
  BY DEF Types, TypeOK, Row
<1>2. r \in Row /\ r.state = srv[c].state /\ r.ver = srv[c].ver + 1 /\ r.pos = srv[c].pos
  BY <1>1 DEF Row
<1>3. Commit("card.updated", c, r, {}) /\ Active(c) /\ {} \in SUBSET (Cards \ {c})
  BY DEF Edit
<1> HIDE DEF r
<1>4. Changes("card.updated", c, r, {})
  BY <1>2, <1>3 DEF Changes
<1> QED BY <1>2, <1>3, <1>4, CommitPublishes

LEMMA MovePublishes ==
    ASSUME Types, NEW c \in Cards, Move(c)
    PROVE  \E r \in Row : \E shifted \in SUBSET (Cards \ {c}) : \E n :
              Published(n, "card.moved", c, r, shifted) /\ Changes("card.moved", c, r, shifted)
<1> DEFINE q == [srv[c] EXCEPT !.ver = srv[c].ver + 1]
           r == [q EXCEPT !.pos = lastId + 1]
           others == {d \in Cards \ {c} : Active(d)}
<1>1. srv \in [Cards -> Row] /\ lastId \in Nat
  BY DEF Types, TypeOK, Row
<1>2. q \in Row /\ q.state = srv[c].state /\ q.ver = srv[c].ver + 1
  BY <1>1 DEF Row
<1>3. r = [srv[c] EXCEPT !.ver = @ + 1, !.pos = lastId + 1]
  BY <1>1 DEF Row
<1>4. PICK shifted \in (IF world.top THEN {others} ELSE SUBSET others) : Commit("card.moved", c, r, shifted)
  BY <1>3 DEF Move
<1>5. Stored(c)
  BY DEF Move
<1>6. shifted \in SUBSET (Cards \ {c}) /\ shifted \subseteq others /\ (world.top => shifted = others)
  BY <1>4
<1> HIDE DEF q
<1>7. r \in Row /\ r.state = srv[c].state /\ r.ver = srv[c].ver + 1 /\ r.pos = lastId + 1
  BY <1>1, <1>2 DEF Row
<1> HIDE DEF r
<1>8. Changes("card.moved", c, r, shifted)
  BY <1>5, <1>6, <1>7 DEF Changes
<1> QED BY <1>4, <1>6, <1>7, <1>8, CommitPublishes

LEMMA ElsewherePublishes ==
    ASSUME Types, Versions, Elsewhere
    PROVE  \E e : \E c \in Cards : \E r \in Row : \E shifted \in SUBSET (Cards \ {c}) : \E n :
              /\ Published(n, e, c, r, shifted) /\ Changes(e, c, r, shifted)
              /\ Falling => e \in {"card.moved"} \cup RemoveEvents
<1>1. srv \in [Cards -> Row] /\ lastId \in Nat
  BY DEF Types, TypeOK, Row
<1>2. PICK c \in Cards :
        \/ "edit" \in world.ops /\ Edit(c)
        \/ "move" \in world.ops /\ Move(c)
        \/ "create" \in world.ops /\ Create(c)
        \/ "archive" \in world.ops /\ Archive(c)
        \/ "restore" \in world.ops /\ Restore(c)
        \/ "delete" \in world.ops /\ Delete(c)
  BY DEF Elsewhere
<1>3. {} \in SUBSET (Cards \ {c})
  OBVIOUS
<1>4. CASE "edit" \in world.ops /\ Edit(c)
  BY <1>4, EditPublishes DEF Falling
<1>5. CASE "move" \in world.ops /\ Move(c)
  BY <1>5, MovePublishes
<1>6. CASE "create" \in world.ops /\ Create(c)
  <2> DEFINE r == [state |-> "active", ver |-> 1, pos |-> lastId + 1]
  <2>1. r \in Row /\ r.state = "active" /\ r.ver = 1
    BY <1>1 DEF Row
  <2>2. Commit("card.created", c, r, {}) /\ srv[c].state = "unborn" /\ srv[c].ver = 0 /\ ~Falling
    BY <1>6 DEF Create, Versions, Falling
  <2> HIDE DEF r
  <2>3. Changes("card.created", c, r, {})
    BY <2>1, <2>2 DEF Changes, AddEvents, Active
  <2> QED BY <1>3, <2>1, <2>2, <2>3, CommitPublishes
<1>7. CASE "restore" \in world.ops /\ Restore(c)
  <2> DEFINE r == [srv[c] EXCEPT !.state = "active"]
  <2>1. r \in Row /\ r.state = "active" /\ r.ver = srv[c].ver /\ srv[c].ver \in Nat
    BY <1>1 DEF Row
  <2>2. Commit("card.unarchived", c, r, {}) /\ srv[c].state = "archived" /\ srv[c].ver # 0 /\ ~Falling
    BY <1>7 DEF Restore, Versions, Falling
  <2> HIDE DEF r
  <2>3. Changes("card.unarchived", c, r, {})
    BY <2>1, <2>2 DEF Changes, AddEvents, Active
  <2> QED BY <1>3, <2>1, <2>2, <2>3, CommitPublishes
<1>8. CASE ("archive" \in world.ops /\ Archive(c)) \/ ("delete" \in world.ops /\ Delete(c))
  <2>1. PICK e \in RemoveEvents : \E s \in {"archived", "deleted"} : Commit(e, c, [srv[c] EXCEPT !.state = s], {})
    BY <1>8 DEF Archive, Delete, RemoveEvents
  <2>2. PICK s \in {"archived", "deleted"} : Commit(e, c, [srv[c] EXCEPT !.state = s], {})
    BY <2>1
  <2> DEFINE r == [srv[c] EXCEPT !.state = s]
  <2>3. /\ r \in Row /\ r.state \in {"archived", "deleted"} /\ r.ver = srv[c].ver /\ r.pos = srv[c].pos
        /\ Commit(e, c, r, {}) /\ Active(c)
    BY <1>1, <1>8, <2>2 DEF Row, Archive, Delete
  <2> HIDE DEF r
  <2>4. Changes(e, c, r, {})
    BY <2>3 DEF Changes
  <2> QED BY <1>3, <2>3, <2>4, CommitPublishes
<1> QED BY <1>2, <1>4, <1>5, <1>6, <1>7, <1>8

-----------------------------------------------------------------------------
(* Deliveries, and the positions they set.                                 *)

\* What frame f does to the place of card d; id is None unless f is of a move.
Repositions(f, id, d) ==
    /\ posId'[d] = posId[d] \/ (id # None /\ posId[d] <= id /\ posId'[d] = id /\ Touches(f, d))
    /\ \/ screen'[d].pos = screen[d].pos
       \/ /\ Touches(f, d) /\ ~NewerThan(id, d)
          /\ screen'[d].pos = PosIn(f, d)
          /\ InFlight => (d = f.card /\ screen'[d].ver = f.copy.ver) \/ d \in fetch'.placed
    /\ Shown(d) /\ Touches(f, d) /\ ~NewerThan(id, d)
          /\ screen[d].ver <= VerIn(f, d) /\ screen[f.card].ver <= f.copy.ver =>
             screen'[d].pos = PosIn(f, d) /\ (id # None => posId'[d] = id)

LEMMA UpdateRepositions ==
    ASSUME Types, Versions, NEW f \in frames, NEW id,
           id = f.id \/ (id = None /\ DOMAIN f.pairs = {}),
           UpdateCard(f.card, f.copy, id, f.pairs)
    PROVE  /\ \A d \in Cards : Repositions(f, id, d)
           /\ InFlight => fetch.placed \subseteq fetch'.placed
<1> DEFINE c == f.card
           copy == f.copy
           newerThanFrame(d) == NewerThan(id, d)
           stale == Stale(copy, screen[c])
           applied == Shown(c) /\ ~stale
           fresh == IF stale THEN {} ELSE {d \in DOMAIN f.pairs : ~newerThanFrame(d)}
           placed == {d \in fresh : /\ Shown(d) /\ screen[d].pos # id
                                    /\ f.pairs[d] >= screen[d].ver}
           recorded == fresh \cup {d \in {c} : ~stale /\ ~newerThanFrame(d)}
           prepared == IF newerThanFrame(c) THEN [copy EXCEPT !.pos = screen[c].pos] ELSE copy
           wrote == IF applied THEN {c} ELSE {}
<1>1. /\ screen \in [Cards -> Copies] /\ (InFlight => FetchType) /\ FrameType(f)
      /\ posId \in [Cards -> 0 .. lastId] /\ lastId \in Nat
  BY DEF Types, TypeOK
<1>2. /\ screen' = [d \in Cards |-> CASE d = c /\ applied -> prepared
                                      [] d \in placed -> [screen[d] EXCEPT !.pos = id]
                                      [] OTHER -> screen[d]]
      /\ posId' = [d \in Cards |-> IF id # None /\ d \in recorded THEN id ELSE posId[d]]
      /\ Touch(wrote, placed, {})
  BY DEF UpdateCard
<1>3. /\ c \in Cards /\ copy \in Copies /\ id \in Nat
      /\ DOMAIN f.pairs \subseteq Cards \ {c}
      /\ f.id \in Nat /\ (id # None => id = f.id)
  BY <1>1 DEF FrameType, None
<1>4. /\ fresh \subseteq DOMAIN f.pairs /\ placed \subseteq fresh
      /\ stale <=> copy.ver < screen[c].ver
      /\ \A d \in Cards : screen[d].ver \in Nat /\ screen[d].pos \in Int /\ posId[d] \in Nat
  BY <1>1, <1>3 DEF Stale, Copies
<1>5. InFlight => fetch'.placed = fetch.placed \cup placed
  <2>1. wrote \in SUBSET Cards /\ placed \in SUBSET Cards /\ {} \in SUBSET Cards
    BY <1>3, <1>4
  <2> QED BY <1>1, <1>2, <2>1, Touched
<1>6. prepared.ver = copy.ver /\ prepared.pos = IF newerThanFrame(c) THEN screen[c].pos ELSE copy.pos
  BY <1>1, <1>3 DEF Copies
<1> DEFINE shiftedTo(d) == [screen[d] EXCEPT !.pos = id]
<1>7. \A d \in Cards : shiftedTo(d).pos = id /\ shiftedTo(d).ver = screen[d].ver
  BY <1>1 DEF Copies
<1>8. ASSUME NEW d \in Cards
      PROVE  screen'[d] = CASE d = c /\ applied -> prepared
                            [] d \in placed -> shiftedTo(d)
                            [] OTHER -> screen[d]
  BY <1>2
<1> HIDE DEF prepared, shiftedTo, wrote
<1>9. ASSUME NEW d \in Cards
      PROVE  posId'[d] = posId[d] \/ (id # None /\ posId[d] <= id /\ posId'[d] = id /\ Touches(f, d))
  <2>1. d \in recorded => Touches(f, d) /\ ~newerThanFrame(d)
    BY <1>4 DEF Touches
  <2> HIDE DEF recorded
  <2> QED BY <1>2, <1>3, <1>4, <2>1 DEF NewerThan
<1>10. ASSUME NEW d \in Cards
       PROVE  \/ screen'[d].pos = screen[d].pos
              \/ /\ Touches(f, d) /\ ~NewerThan(id, d)
                 /\ screen'[d].pos = PosIn(f, d)
                 /\ InFlight => (d = f.card /\ screen'[d].ver = f.copy.ver) \/ d \in fetch'.placed
  <2>1. CASE d = c /\ applied
    <3>1. screen'[d].ver = copy.ver /\ screen'[d].pos = IF newerThanFrame(d) THEN screen[d].pos ELSE copy.pos
      <4>1. d \notin placed
        BY <1>3, <1>4, <2>1
      <4> QED BY <1>6, <1>8, <2>1, <4>1
    <3> QED BY <2>1, <3>1 DEF Touches, PosIn
  <2>2. CASE ~(d = c /\ applied) /\ d \in placed
    <3>1. d \in DOMAIN f.pairs /\ ~newerThanFrame(d) /\ d # c
      BY <1>3, <1>4, <2>2
    <3>2. screen'[d].pos = id /\ id = f.id
      BY <1>7, <1>8, <2>2, <3>1
    <3> QED BY <1>5, <2>2, <3>1, <3>2 DEF Touches, PosIn
  <2>3. CASE ~(d = c /\ applied) /\ d \notin placed
    BY <1>8, <2>3
  <2> QED BY <2>1, <2>2, <2>3
<1>11. ASSUME NEW d \in Cards, Shown(d), Touches(f, d), ~NewerThan(id, d),
              screen[d].ver <= VerIn(f, d), screen[f.card].ver <= f.copy.ver
       PROVE  screen'[d].pos = PosIn(f, d) /\ (id # None => posId'[d] = id)
  <2>1. ~stale
    BY <1>1, <1>3, <1>4, <1>11 DEF Copies
  <2>2. CASE d = c
    <3>1. screen'[d].pos = copy.pos
      <4>1. d \notin placed
        BY <1>3, <1>4, <2>2
      <4> QED BY <1>6, <1>8, <1>11, <2>1, <2>2, <4>1
    <3>2. d \in recorded
      BY <1>11, <2>1, <2>2
    <3> HIDE DEF recorded
    <3> QED BY <1>2, <2>2, <3>1, <3>2 DEF PosIn
  <2>3. CASE d # c
    <3>1. d \in fresh /\ f.pairs[d] >= screen[d].ver /\ id = f.id
      BY <1>4, <1>11, <2>1, <2>3 DEF Touches, VerIn
    <3>2. d \in recorded
      BY <3>1
    <3>3. screen'[d].pos = id
      <4>1. CASE screen[d].pos = id
        <5>1. d \notin placed
          BY <4>1
        <5> QED BY <1>8, <2>3, <4>1, <5>1
      <4>2. CASE screen[d].pos # id
        <5>1. d \in placed
          BY <1>11, <3>1, <4>2
        <5> QED BY <1>7, <1>8, <2>3, <5>1
      <4> QED BY <4>1, <4>2
    <3> HIDE DEF recorded
    <3> QED BY <1>2, <2>3, <3>1, <3>2, <3>3 DEF PosIn
  <2> QED BY <2>2, <2>3
<1> QED BY <1>5, <1>9, <1>10, <1>11 DEF Repositions

-----------------------------------------------------------------------------
(* Frames in order.                                                        *)

\* Once all the frames under way have come, an active card is on the page.
LEMMA MetAtLast ==
    ASSUME Types, Basics, InOrder, NEW c \in Cards, Active(c)
    PROVE  \/ Shown(c) /\ Removals(Of(c)) = {}
           \/ \E r \in Adds(Of(c)) : \A g \in Removals(Of(c)) : g.id <= r.id
<1>1. \A f \in frames : f.id \in Nat /\ f.id > 0
  BY DEF Types, TypeOK
<1>2. \A f \in Removals(Of(c)) : f \in frames /\ Touches(f, c) /\ f.event \in RemoveEvents
  BY DEF Removals, Of, Touches
<1>3. CASE Shown(c) /\ Steady(c, 0)
  BY <1>1, <1>2, <1>3 DEF Steady
<1>4. ASSUME NEW f \in frames, Brings(f, c)
      PROVE  \/ Shown(c) /\ Removals(Of(c)) = {}
             \/ \E r \in Adds(Of(c)) : \A g \in Removals(Of(c)) : g.id <= r.id
  <2>1. f.id \in Nat /\ Touches(f, c) /\ Steady(c, f.id)
    BY <1>1, <1>4 DEF Brings
  <2>2. \A g \in Removals(Of(c)) : g.id <= f.id
    BY <1>1, <1>2, <2>1 DEF Steady
  <2>3. CASE f.event \in AddEvents
    <3>1. c = f.card
      BY <2>1, <2>3 DEF Basics, Touches, AddEvents
    <3> QED BY <2>2, <2>3, <3>1 DEF Adds, Of
  <2>4. CASE f.event \in UpdateEvents /\ Met(f, c)
    <3>1. \A g \in Removals(Of(c)) : g.id # f.id
      BY <1>2, <2>4 DEF Basics, RemoveEvents, UpdateEvents
    <3>2. \A g \in Removals(Of(c)) : g.id \in Nat /\ g.id < f.id /\ 0 < g.id
      BY <1>1, <1>2, <2>1, <2>2, <3>1
    <3>3. CASE Shown(c) /\ NotTaken(c, 0, f.id)
      BY <2>1, <3>2, <3>3 DEF NotTaken
    <3>4. ASSUME NEW r \in Adds(Of(c)), NotTaken(c, r.id, f.id)
          PROVE  \A g \in Removals(Of(c)) : g.id <= r.id
      <4>1. r.id \in Nat
        BY <1>1 DEF Adds, Of
      <4> QED BY <2>1, <3>2, <3>4, <4>1 DEF NotTaken
    <3> QED BY <2>4, <3>3, <3>4 DEF Met
  <2> QED BY <1>4, <2>3, <2>4 DEF Brings
<1> QED BY <1>3, <1>4 DEF InOrder

LEMMA InOrderCommitted ==
    ASSUME Types, Versions, Basics, InOrder, open, UNCHANGED <<screen, posId>>,
           NEW n, NEW e, NEW c \in Cards, NEW r \in Row, NEW shifted \in SUBSET (Cards \ {c}),
           Published(n, e, c, r, shifted), Changes(e, c, r, shifted)
    PROVE  InOrder'
<1>1. /\ lastId \in Nat /\ posId \in [Cards -> 0 .. lastId]
      /\ srv \in [Cards -> Row] /\ screen \in [Cards -> Copies]
      /\ \A f \in frames : FrameType(f) /\ f.id \in 1 .. lastId
  BY DEF Types, TypeOK, Row
<1>2. /\ frames' = frames \cup {n} /\ n.id = lastId + 1 /\ n.card = c /\ n.event = e
      /\ n.copy = CopyOf(r) /\ DOMAIN n.pairs = shifted
      /\ \A d \in shifted : n.pairs[d] = srv[d].ver
      /\ srv' \in [Cards -> Row] /\ srv'[c] = r
      /\ \A d \in Cards \ {c} : /\ srv'[d].state = srv[d].state /\ srv'[d].ver = srv[d].ver
                                /\ srv'[d].pos = IF d \in shifted THEN lastId + 1 ELSE srv[d].pos
  BY DEF Published
<1>3. /\ n.copy.ver = r.ver /\ n.copy.pos = r.pos
      /\ r.ver \in Nat /\ r.ver # 0 /\ srv[c].ver \in Nat /\ srv[c].ver <= r.ver
  <2>1. srv[c].ver \in Nat /\ r.ver \in Nat /\ n.copy.ver = r.ver /\ n.copy.pos = r.pos
    BY <1>1, <1>2 DEF Row, CopyOf
  <2>2. Active(c) \/ Stored(c) => srv[c].ver # 0
    BY DEF Versions, Active, Stored
  <2> QED BY <2>1, <2>2 DEF Changes
<1>4. \A d \in shifted : d \in Cards /\ d # c /\ Active(d) /\ srv[d].ver # 0
  BY DEF Changes, Versions, Active
<1>5. ASSUME NEW d \in Cards
      PROVE  srv[d].ver \in Nat /\ srv'[d].ver \in Nat /\ srv[d].ver <= srv'[d].ver
             /\ screen[d].ver \in Nat /\ screen[d].ver <= srv[d].ver
  BY <1>1, <1>2, <1>3 DEF Row, Copies, Versions
<1>6. ASSUME NEW d \in Cards, Touches(n, d) PROVE VerIn(n, d) = srv'[d].ver /\ PosIn(n, d) = srv'[d].pos /\ srv'[d].ver # 0
  BY <1>2, <1>3, <1>4, <1>6 DEF Touches, VerIn, PosIn
<1>7. ASSUME NEW f \in frames', NEW d \in Cards
      PROVE  /\ posId'[d] < f.id
             /\ Touches(f, d) => VerIn(f, d) \in 1 .. srv'[d].ver /\ screen'[d].ver <= VerIn(f, d)
  <2>1. CASE f \in frames
    <3>1. posId[d] < f.id /\ (Touches(f, d) => VerIn(f, d) \in 1 .. srv[d].ver /\ screen[d].ver <= VerIn(f, d))
      BY <2>1 DEF InOrder
    <3> QED BY <1>5, <3>1
  <2>2. CASE f = n
    <3>1. posId[d] < f.id
      BY <1>1, <1>2, <2>2
    <3> QED BY <1>5, <1>6, <2>2, <3>1
  <2> QED BY <1>2, <2>1, <2>2
<1>8. ASSUME NEW f \in frames', NEW g \in frames', NEW d \in Cards, f.id < g.id, Touches(f, d), Touches(g, d)
      PROVE  VerIn(f, d) <= VerIn(g, d)
  <2>1. f \in frames
    BY <1>1, <1>2, <1>8
  <2>2. CASE g \in frames
    BY <1>8, <2>1, <2>2 DEF InOrder
  <2>3. CASE g = n
    <3>1. VerIn(f, d) \in 1 .. srv[d].ver
      BY <1>8, <2>1 DEF InOrder
    <3> QED BY <1>5, <1>6, <1>8, <2>3, <3>1
  <2> QED BY <1>2, <2>2, <2>3
<1>9. \A d \in Cards : Steady(d, n.id)'
  BY <1>1, <1>2 DEF Steady
<1>10. ASSUME NEW d \in Cards, e \notin RemoveEvents \/ d # c
       PROVE  Removals(Of(d))' = Removals(Of(d)) /\ Adds(Of(d)) \subseteq Adds(Of(d))'
  BY <1>2, <1>10 DEF Removals, Adds, Of
<1>11. ASSUME NEW d \in Cards, Active(d), Touches(n, d), e \in UpdateEvents
       PROVE  Brings(n, d)'
  <2>1. Met(n, d)'
    <3>1. Removals(Of(d))' = Removals(Of(d)) /\ Adds(Of(d)) \subseteq Adds(Of(d))'
      BY <1>10, <1>11 DEF UpdateEvents, RemoveEvents
    <3>2. \A g \in frames : g.id \in Nat /\ g.id < n.id
      BY <1>1, <1>2
    <3>3. CASE Shown(d) /\ Removals(Of(d)) = {}
      BY <3>1, <3>3 DEF Met, NotTaken, Shown
    <3>4. ASSUME NEW r1 \in Adds(Of(d)), \A g \in Removals(Of(d)) : g.id <= r1.id PROVE Met(n, d)'
      <4>1. r1 \in frames /\ \A g \in Removals(Of(d)) : g \in frames
        BY DEF Adds, Removals, Of
      <4>2. NotTaken(d, r1.id, n.id)'
        BY <3>1, <3>2, <3>4, <4>1 DEF NotTaken
      <4> QED BY <3>1, <3>2, <4>1, <4>2 DEF Met
    <3> QED BY <1>11, <3>3, <3>4, MetAtLast
  <2> QED BY <1>2, <1>6, <1>9, <1>11, <2>1 DEF Brings
<1>12. ASSUME NEW d \in Cards, Active(d)'
       PROVE  \/ (Shown(d) /\ screen[d].pos = srv[d].pos /\ Steady(d, 0))'
              \/ \E f \in frames' : Brings(f, d)'
  <2>1. CASE d = c
    <3>1. e \in AddEvents \/ (e \in UpdateEvents /\ Active(c))
      BY <1>2, <1>12, <2>1 DEF Changes, UpdateEvents, Active
    <3>2. CASE e \in AddEvents
      <4>1. Brings(n, d)'
        BY <1>2, <1>3, <1>9, <2>1, <3>2 DEF Brings, Touches, PosIn
      <4> QED BY <1>2, <4>1
    <3>3. CASE e \in UpdateEvents /\ Active(c)
      <4>1. Touches(n, d)
        BY <1>2, <2>1 DEF Touches
      <4> QED BY <1>2, <1>11, <2>1, <3>3, <4>1
    <3> QED BY <3>1, <3>2, <3>3
  <2>2. CASE d \in shifted
    <3>1. Active(d) /\ Touches(n, d) /\ e \in UpdateEvents
      BY <1>2, <1>4, <2>2 DEF Touches, Changes, UpdateEvents
    <3> QED BY <1>2, <1>11, <3>1
  <2>3. CASE d # c /\ d \notin shifted
    <3>1. Active(d) /\ srv'[d].pos = srv[d].pos /\ ~Touches(n, d)
      BY <1>2, <1>12, <2>3 DEF Active, Touches
    <3>2. ASSUME NEW i, Steady(d, i) PROVE Steady(d, i)'
      BY <1>2, <3>1, <3>2 DEF Steady
    <3>3. CASE Shown(d) /\ screen[d].pos = srv[d].pos /\ Steady(d, 0)
      BY <3>1, <3>2, <3>3 DEF Shown
    <3>4. ASSUME NEW f \in frames, Brings(f, d) PROVE Brings(f, d)'
      <4>1. Met(f, d) => Met(f, d)'
        BY <1>10, <2>3 DEF Met, NotTaken, Shown
      <4> QED BY <3>1, <3>2, <3>4, <4>1 DEF Brings
    <3> QED BY <1>2, <3>1, <3>3, <3>4 DEF InOrder
  <2> QED BY <2>1, <2>2, <2>3
<1> QED BY <1>7, <1>8, <1>12 DEF InOrder

\* What a frame that arrives in order does to the places.
LEMMA ComesInOrder ==
    ASSUME Types, Versions, Basics, InOrder, NEW f \in frames,
           CASE f.event = "card.moved" -> UpdateCard(f.card, f.copy, f.id, f.pairs)
             [] f.event = "card.updated" -> UpdateCard(f.card, f.copy, None, f.pairs)
             [] f.event \in {"card.created", "card.unarchived"} -> AddCard(f.card, f.copy)
             [] f.event \in {"card.archived", "card.deleted"} -> RemoveCard(f.card),
           NEW d \in Cards
    PROVE  /\ posId'[d] = posId[d] \/ posId'[d] = f.id
           /\ \/ d = f.card /\ f.event \in RemoveEvents
              \/ screen'[d].pos = screen[d].pos \/ (Touches(f, d) /\ screen'[d].pos = PosIn(f, d))
           /\ Touches(f, d) =>
                 \/ f.event \in UpdateEvents /\ ~Shown(d)
                 \/ f.event \in RemoveEvents
                 \/ screen'[d].pos = PosIn(f, d)
<1>1. FrameType(f) /\ f.id \in 1 .. lastId /\ lastId \in Nat /\ screen \in [Cards -> Copies]
      /\ posId \in [Cards -> 0 .. lastId]
  BY DEF Types, TypeOK
<1>2. /\ posId[d] < f.id
      /\ Touches(f, d) => screen[d].ver <= VerIn(f, d)
      /\ f.card \in Cards /\ screen[f.card].ver <= f.copy.ver
  <2>1. f.card \in Cards
    BY <1>1 DEF FrameType
  <2> QED BY <2>1 DEF InOrder, Touches, VerIn
<1>3. CASE f.event \in UpdateEvents
  <2>1. PICK id \in {None, f.id} : /\ UpdateCard(f.card, f.copy, id, f.pairs)
                                   /\ id = f.id \/ (id = None /\ DOMAIN f.pairs = {})
    BY <1>3 DEF UpdateEvents, Basics
  <2>2. Repositions(f, id, d)
    BY <2>1, UpdateRepositions
  <2>3. ~NewerThan(id, d)
    BY <1>1, <1>2, <2>1 DEF NewerThan, None
  <2> QED BY <1>2, <1>3, <2>1, <2>2, <2>3 DEF Repositions
<1>4. CASE f.event \in AddEvents
  <2>1. AddCard(f.card, f.copy) /\ posId' = posId
    BY <1>4 DEF AddEvents, AddCard
  <2>2. Touches(f, d) <=> d = f.card
    BY <1>4 DEF Basics, Touches, AddEvents
  <2>3. screen' = [screen EXCEPT ![f.card] = f.copy]
    <3>1. Shown(f.card) => ~Stale(f.copy, screen[f.card])
      BY <1>1, <1>2 DEF Stale, FrameType, Copies
    <3> QED BY <2>1, <3>1 DEF AddCard, ReplaceUnlessStale
  <2> QED BY <1>1, <1>2, <2>1, <2>2, <2>3 DEF PosIn
<1>5. CASE f.event \in RemoveEvents
  <2>1. RemoveCard(f.card)
    BY <1>5 DEF RemoveEvents
  <2> QED BY <1>1, <1>2, <1>5, <2>1 DEF RemoveCard
<1> QED BY <1>1, <1>3, <1>4, <1>5 DEF FrameType

LEMMA InOrderDelivered ==
    ASSUME Types, Versions, Basics, InOrder, NEW f \in frames, \A g \in frames : f.id <= g.id,
           frames' = frames \ {f}, UNCHANGED <<srv, lastId>>,
           CASE f.event = "card.moved" -> UpdateCard(f.card, f.copy, f.id, f.pairs)
             [] f.event = "card.updated" -> UpdateCard(f.card, f.copy, None, f.pairs)
             [] f.event \in {"card.created", "card.unarchived"} -> AddCard(f.card, f.copy)
             [] f.event \in {"card.archived", "card.deleted"} -> RemoveCard(f.card)
    PROVE  InOrder'
<1>1. /\ FrameType(f) /\ lastId \in Nat /\ screen \in [Cards -> Copies]
      /\ \A g \in frames : g.id \in Nat /\ g.id > 0
  BY DEF Types, TypeOK
<1>2. f.card \in Cards /\ f.id \in Nat /\ f.id > 0
  BY <1>1 DEF FrameType
<1>3. Writer /\ Arrives(f) /\ \A d \in Cards \ {f.card} : Untouched(d)
  BY Delivered
<1>4. \A g \in frames \ {f} : f.id < g.id /\ g.id # f.id
  BY <1>1, <1>2 DEF Basics
<1>5. ASSUME NEW d \in Cards
      PROVE  /\ screen[d].ver \in Nat /\ screen'[d].ver \in Nat
             /\ Shown(d) <=> screen[d].ver # 0
             /\ Shown(d)' <=> screen'[d].ver # 0
             /\ screen'[d].ver = screen[d].ver \/ (d = f.card /\ screen'[d].ver \in {0, f.copy.ver})
             /\ Shown(d) /\ ~(d = f.card /\ f.event \in RemoveEvents) => Shown(d)'
             /\ d = f.card /\ f.event \in AddEvents => Shown(d)'
  <2>1. /\ screen[d].ver \in Nat /\ screen'[d].ver \in Nat
        /\ Shown(d) <=> screen[d].ver # 0
        /\ Shown(d)' <=> screen'[d].ver # 0
    BY <1>1, <1>3 DEF Writer, ScreenOk, Copies, Versions, Shown
  <2>2. f.copy.ver \in Nat /\ f.copy.ver # 0 /\ NotShown.ver = 0
    BY <1>1 DEF FrameType, Copies, NotShown
  <2>3. f.event \in AddEvents \/ f.event \in RemoveEvents \/ f.event \in UpdateEvents
    BY <1>1 DEF FrameType
  <2>4. CASE d # f.card
    BY <1>3, <2>1, <2>4 DEF Untouched
  <2>5. CASE d = f.card
    <3>1. screen'[d].ver = screen[d].ver \/ (screen'[d].ver = f.copy.ver) \/ (f.event \in RemoveEvents /\ screen'[d].ver = 0)
      BY <1>3, <2>2, <2>3, <2>5 DEF Arrives, Wrote, Untouched, TookAway
    <3>2. f.event \in AddEvents => screen'[d].ver # 0
      BY <1>3, <2>1, <2>2, <2>5 DEF Arrives, Wrote, Untouched
    <3> QED BY <2>1, <2>2, <2>5, <3>1, <3>2
  <2> QED BY <2>4, <2>5
<1>6. ASSUME NEW d \in Cards
      PROVE  /\ posId'[d] = posId[d] \/ posId'[d] = f.id
             /\ \/ d = f.card /\ f.event \in RemoveEvents
                \/ screen'[d].pos = screen[d].pos \/ (Touches(f, d) /\ screen'[d].pos = PosIn(f, d))
             /\ Touches(f, d) =>
                   \/ f.event \in UpdateEvents /\ ~Shown(d)
                   \/ f.event \in RemoveEvents
                   \/ screen'[d].pos = PosIn(f, d)
  BY ComesInOrder
<1>7. ASSUME NEW g \in frames', NEW d \in Cards
      PROVE  /\ posId'[d] < g.id
             /\ Touches(g, d) => VerIn(g, d) \in 1 .. srv'[d].ver /\ screen'[d].ver <= VerIn(g, d)
  <2>1. g \in frames /\ f.id < g.id /\ posId[d] < g.id
    BY <1>4 DEF InOrder
  <2>2. posId'[d] < g.id
    BY <1>6, <2>1
  <2>3. ASSUME Touches(g, d) PROVE VerIn(g, d) \in 1 .. srv[d].ver /\ screen'[d].ver <= VerIn(g, d)
    <3>1. VerIn(g, d) \in 1 .. srv[d].ver /\ screen[d].ver <= VerIn(g, d)
      BY <2>1, <2>3 DEF InOrder
    <3>2. d = f.card => f.copy.ver <= VerIn(g, d)
      BY <1>2, <2>1, <2>3 DEF InOrder, Touches, VerIn
    <3> QED BY <1>5, <3>1, <3>2
  <2> QED BY <2>2, <2>3
<1>8. \A g, h \in frames' : \A d \in Cards :
         g.id < h.id /\ Touches(g, d) /\ Touches(h, d) => VerIn(g, d) <= VerIn(h, d)
  BY DEF InOrder
<1>9. ASSUME NEW d \in Cards, Active(d)'
      PROVE  \/ (Shown(d) /\ screen[d].pos = srv[d].pos /\ Steady(d, 0))'
             \/ \E g \in frames' : Brings(g, d)'
  <2>1. Active(d) /\ srv'[d] = srv[d]
    BY <1>9 DEF Active
  <2>2. ASSUME NEW i, Steady(d, i) PROVE Steady(d, i)'
    BY <2>1, <2>2 DEF Steady
  <2>3. CASE Shown(d) /\ screen[d].pos = srv[d].pos /\ Steady(d, 0)
    <3>1. Touches(f, d) => f.event \notin RemoveEvents /\ PosIn(f, d) = srv[d].pos
      BY <1>2, <2>3 DEF Steady
    <3>2. ~(d = f.card /\ f.event \in RemoveEvents)
      BY <3>1 DEF Touches
    <3> QED BY <1>5, <1>6, <2>1, <2>2, <2>3, <3>1, <3>2
  <2>4. ASSUME Brings(f, d)
        PROVE  (Shown(d) /\ screen[d].pos = srv[d].pos /\ Steady(d, 0))'
    <3>1. Touches(f, d) /\ PosIn(f, d) = srv[d].pos /\ Steady(d, f.id)
      BY <2>4 DEF Brings
    <3>2. Steady(d, 0)'
      BY <1>1, <1>4, <2>1, <3>1 DEF Steady
    <3>3. CASE f.event \in AddEvents
      <4>1. d = f.card
        BY <3>1, <3>3 DEF Basics, Touches, AddEvents
      <4>2. f.event \notin UpdateEvents /\ f.event \notin RemoveEvents
        BY <3>3 DEF AddEvents, UpdateEvents, RemoveEvents
      <4> QED BY <1>5, <1>6, <2>1, <3>1, <3>2, <3>3, <4>1, <4>2
    <3>4. CASE f.event \in UpdateEvents /\ Met(f, d)
      <4>1. Shown(d)
        <5>1. \A r \in Adds(Of(d)) : r \in frames /\ r.id \in Nat /\ ~(r.id < f.id)
          BY <1>1, <1>2 DEF Adds, Of
        <5> QED BY <3>4, <5>1 DEF Met
      <4>2. f.event \notin RemoveEvents
        BY <3>4 DEF UpdateEvents, RemoveEvents
      <4> QED BY <1>5, <1>6, <2>1, <3>1, <3>2, <4>1, <4>2
    <3> QED BY <2>4, <3>3, <3>4 DEF Brings
  <2>5. ASSUME NEW w \in frames, w # f, Brings(w, d)
        PROVE  w \in frames' /\ Brings(w, d)'
    <3>1. w \in frames' /\ f.id < w.id
      BY <1>4, <2>5
    <3>2. \A r \in Adds(Of(d)) : r # f => r \in Adds(Of(d))'
      BY DEF Adds, Of
    <3>3. \A g \in Removals(Of(d))' : g \in Removals(Of(d))
      BY DEF Removals, Of
    <3>4. ASSUME Met(w, d) PROVE Met(w, d)'
      <4>1. CASE Shown(d) /\ NotTaken(d, 0, w.id)
        <5>1. ~(d = f.card /\ f.event \in RemoveEvents)
          BY <1>1, <1>2, <3>1, <4>1 DEF NotTaken, Removals, Of
        <5> QED BY <1>5, <3>3, <4>1, <5>1 DEF Met, NotTaken
      <4>2. ASSUME NEW r \in Adds(Of(d)), r.id < w.id, NotTaken(d, r.id, w.id), r # f PROVE Met(w, d)'
        BY <3>2, <3>3, <4>2 DEF Met, NotTaken
      <4>3. CASE f \in Adds(Of(d)) /\ NotTaken(d, f.id, w.id)
        <5>1. d = f.card /\ f.event \in AddEvents
          BY <4>3 DEF Adds, Of
        <5>2. \A g \in Removals(Of(d))' : g \in frames /\ g # f
          BY DEF Removals, Of
        <5>3. NotTaken(d, 0, w.id)'
          BY <1>4, <3>3, <4>3, <5>2 DEF NotTaken
        <5> QED BY <1>5, <5>1, <5>3 DEF Met
      <4> QED BY <3>4, <4>1, <4>2, <4>3 DEF Met
    <3> QED BY <2>1, <2>2, <2>5, <3>1, <3>4 DEF Brings
  <2> QED BY <2>1, <2>3, <2>4, <2>5 DEF InOrder
<1> QED BY <1>7, <1>8, <1>9 DEF InOrder

-----------------------------------------------------------------------------
(* Drops at the top of a cell.                                             *)

LEMMA AtTopCommitted ==
    ASSUME Types, Versions, AtTop, Falling, open, UNCHANGED <<world, screen, posId, fetch>>,
           NEW n, NEW e \in {"card.moved"} \cup RemoveEvents, NEW c \in Cards, NEW r \in Row,
           NEW shifted \in SUBSET (Cards \ {c}),
           Published(n, e, c, r, shifted), Changes(e, c, r, shifted)
    PROVE  AtTop'
<1>1. /\ lastId \in Nat /\ posId \in [Cards -> 0 .. lastId]
      /\ srv \in [Cards -> Row] /\ screen \in [Cards -> Copies]
      /\ \A f \in frames : FrameType(f) /\ f.id \in 1 .. lastId
      /\ Taken => FetchType
  BY DEF Types, TypeOK, Row, Taken
<1>2. /\ frames' = frames \cup {n} /\ n.id = lastId + 1 /\ n.card = c /\ n.event = e
      /\ n.copy.ver = r.ver /\ n.copy.pos = r.pos /\ DOMAIN n.pairs = shifted
      /\ \A d \in shifted : n.pairs[d] = srv[d].ver
      /\ srv' \in [Cards -> Row] /\ srv'[c] = r /\ lastId' = lastId + 1
      /\ \A d \in Cards \ {c} : /\ srv'[d].state = srv[d].state /\ srv'[d].ver = srv[d].ver
                                /\ srv'[d].pos = IF d \in shifted THEN lastId + 1 ELSE srv[d].pos
  BY DEF Published, CopyOf
<1>3. /\ Taken' <=> Taken
      /\ Taken => /\ fetch.upTo \in Nat /\ fetch.upTo <= lastId
                  /\ \A d \in DOMAIN fetch.snapshot :
                        /\ d \in Cards /\ fetch.snapshot[d].ver \in 1 .. srv[d].ver
                        /\ fetch.snapshot[d].pos \in Int
  BY <1>1 DEF Taken, InFlight, FetchType, Copies
<1>4. \A d \in Cards : /\ srv[d].pos \in Nat /\ srv[d].ver \in Nat /\ srv'[d].pos \in Nat
                       /\ screen[d].pos \in Int
  BY <1>1, <1>2 DEF Row, Copies
<1>5. CASE e = "card.moved"
  <2>1. /\ shifted = {d \in Cards \ {c} : Active(d)}
        /\ r.state = srv[c].state /\ r.ver = srv[c].ver + 1 /\ r.pos = lastId + 1
    BY <1>5 DEF Changes, AddEvents, RemoveEvents, Falling
  <2>2. \A d \in Cards : Active(d)' <=> Active(d)
    BY <1>2, <2>1 DEF Active
  <2>3. \A d \in Cards : Active(d) => srv'[d].pos = lastId + 1
    BY <1>2, <2>1
  <2>4. Moves' = Moves \cup {n}
    BY <1>2, <1>5 DEF Moves
  <2>5. \A f \in Moves' : f.id <= lastId + 1 /\ f.copy.pos = f.id
    BY <1>1, <1>2, <2>1, <2>4 DEF AtTop, Moves
  <2>6. ASSUME NEW d \in Cards, Active(d) PROVE ToCome(d)'
    <3>1. n.copy.ver = srv'[n.card].ver
      BY <1>2
    <3>2. d = c \/ (d \in shifted /\ n.pairs[d] = srv'[d].ver)
      BY <1>2, <2>1, <2>6
    <3>3. LastMove(n, d)'
      BY <1>2, <2>3, <2>4, <2>6, <3>1, <3>2 DEF LastMove
    <3> QED BY <1>2, <3>3 DEF ToCome
  <2>7. ASSUME NEW d \in Cards
        PROVE  /\ srv'[d].pos <= lastId' /\ screen'[d].pos <= lastId'
               /\ Active(d)' => /\ \A x \in Cards : Active(x)' => srv'[x].pos = srv'[d].pos
                                /\ posId'[d] <= srv'[d].pos
    <3>1. srv[d].pos <= lastId /\ screen[d].pos <= lastId
      BY DEF AtTop
    <3>2. srv'[d].pos <= lastId'
      BY <1>1, <1>2, <1>4, <2>1, <3>1
    <3> QED BY <1>1, <1>2, <1>4, <2>2, <2>3, <3>1, <3>2
  <2>8. ASSUME Taken, NEW d \in DOMAIN fetch.snapshot
        PROVE  /\ fetch.snapshot[d].pos <= lastId'
               /\ \A f \in Moves' : f.card = d /\ f.id > fetch.upTo => fetch.snapshot[d].ver < f.copy.ver
               /\ Active(d)' =>
                     /\ srv'[d].pos <= fetch.upTo => fetch.snapshot[d].pos = srv'[d].pos
                     /\ screen[d].pos > fetch.upTo =>
                           d \in fetch.placed \/ fetch.snapshot[d].ver < screen[d].ver
    <3>1. fetch.snapshot[d].pos <= lastId'
      BY <1>1, <1>2, <1>3, <2>8 DEF AtTop
    <3>2. d = c => fetch.snapshot[d].ver < n.copy.ver
      BY <1>2, <1>3, <1>4, <2>1, <2>8
    <3>3. \A f \in Moves' : f.card = d /\ f.id > fetch.upTo => fetch.snapshot[d].ver < f.copy.ver
      BY <1>2, <2>4, <2>8, <3>2 DEF AtTop
    <3>4. Active(d) => ~(srv'[d].pos <= fetch.upTo)
      BY <1>1, <1>3, <2>3, <2>8
    <3> QED BY <1>3, <2>2, <2>8, <3>1, <3>3, <3>4 DEF AtTop
  <2>9. \A f \in frames' : f.event \in {"card.moved"} \cup RemoveEvents
    BY <1>2 DEF AtTop
  <2> QED BY <1>2, <1>3, <2>2, <2>3, <2>5, <2>6, <2>7, <2>8, <2>9 DEF AtTop
<1>6. CASE e \in RemoveEvents
  <2>1. shifted = {} /\ r.state # "active" /\ r.ver = srv[c].ver /\ r.pos = srv[c].pos
    BY <1>6 DEF Changes, AddEvents, RemoveEvents
  <2>2. \A d \in Cards : /\ Active(d)' => Active(d)
                         /\ srv'[d].ver = srv[d].ver /\ srv'[d].pos = srv[d].pos
    BY <1>2, <2>1 DEF Active
  <2>3. Moves' = Moves
    BY <1>2, <1>6 DEF Moves, RemoveEvents
  <2>4. ASSUME NEW d \in Cards, ToCome(d) PROVE ToCome(d)'
    <3>1. PICK f \in frames : LastMove(f, d)
      BY <2>4 DEF ToCome
    <3>2. f.card \in Cards
      BY <1>1 DEF FrameType
    <3>3. LastMove(f, d)'
      BY <2>2, <2>3, <3>1, <3>2 DEF LastMove
    <3> QED BY <1>2, <3>3 DEF ToCome
  <2>5. ASSUME NEW d \in Cards
        PROVE  /\ srv'[d].pos <= lastId' /\ screen'[d].pos <= lastId'
               /\ Active(d)' =>
                     /\ \A x \in Cards : Active(x)' => srv'[x].pos = srv'[d].pos
                     /\ posId'[d] <= srv'[d].pos
                     /\ \A f \in Moves' : f.id <= srv'[d].pos
                     /\ world'.inOrder /\ Moves' # {} => ToCome(d)'
                     /\ ToCome(d)' \/ (screen'[d].pos = srv'[d].pos /\ posId'[d] = srv'[d].pos)
    <3>1. srv[d].pos <= lastId /\ screen[d].pos <= lastId
      BY DEF AtTop
    <3>2. srv'[d].pos <= lastId' /\ screen'[d].pos <= lastId'
      BY <1>1, <1>2, <1>4, <2>2, <3>1
    <3> QED BY <2>2, <2>3, <2>4, <3>2 DEF AtTop
  <2>6. ASSUME Taken, NEW d \in DOMAIN fetch.snapshot
        PROVE  /\ fetch.snapshot[d].pos <= lastId'
               /\ \A f \in Moves' : f.card = d /\ f.id > fetch.upTo => fetch.snapshot[d].ver < f.copy.ver
               /\ Active(d)' =>
                     /\ srv'[d].pos <= fetch.upTo => fetch.snapshot[d].pos = srv'[d].pos
                     /\ screen[d].pos > fetch.upTo =>
                           d \in fetch.placed \/ fetch.snapshot[d].ver < screen[d].ver
    <3>1. fetch.snapshot[d].pos <= lastId'
      BY <1>1, <1>2, <1>3, <2>6 DEF AtTop
    <3> QED BY <1>3, <2>2, <2>3, <2>6, <3>1 DEF AtTop
  <2>7. \A f \in frames' : f.event \in {"card.moved"} \cup RemoveEvents
    BY <1>2 DEF AtTop
  <2> QED BY <1>2, <1>3, <2>3, <2>5, <2>6, <2>7 DEF AtTop
<1> QED BY <1>5, <1>6

\* What a frame that arrives does to the places.
LEMMA ComesAtTop ==
    ASSUME Types, Versions, Basics, AtTop, NEW f \in frames,
           CASE f.event = "card.moved" -> UpdateCard(f.card, f.copy, f.id, f.pairs)
             [] f.event = "card.updated" -> UpdateCard(f.card, f.copy, None, f.pairs)
             [] f.event \in {"card.created", "card.unarchived"} -> AddCard(f.card, f.copy)
             [] f.event \in {"card.archived", "card.deleted"} -> RemoveCard(f.card)
    PROVE  /\ f \in Moves => \A d \in Cards : Repositions(f, f.id, d)
           /\ f \notin Moves =>
                 /\ f.event \in RemoveEvents /\ posId' = posId
                 /\ screen' = [screen EXCEPT ![f.card] = NotShown]
           /\ InFlight => fetch.placed \subseteq fetch'.placed
<1>1. FrameType(f) /\ (InFlight => FetchType)
  BY DEF Types
<1>2. CASE f \in Moves
  <2>1. UpdateCard(f.card, f.copy, f.id, f.pairs)
    BY <1>2 DEF Moves
  <2> QED BY <1>2, <2>1, UpdateRepositions
<1>3. CASE f \notin Moves
  <2>1. f.event \in RemoveEvents
    BY <1>3 DEF AtTop, Moves
  <2>2. RemoveCard(f.card)
    BY <2>1 DEF RemoveEvents
  <2>3. {f.card} \in SUBSET Cards /\ {} \in SUBSET Cards
    BY <1>1 DEF FrameType
  <2>4. Touch({}, {}, {f.card})
    BY <2>2 DEF RemoveCard
  <2>5. InFlight => fetch'.placed = fetch.placed \cup {}
    BY <1>1, <2>3, <2>4, Touched
  <2> QED BY <1>3, <2>1, <2>2, <2>5 DEF RemoveCard
<1> QED BY <1>2, <1>3

LEMMA AtTopDelivered ==
    ASSUME Types, Versions, Basics, AtTop, LeavingWorld, NEW f \in frames,
           world.inOrder => \A g \in frames : f.id <= g.id,
           frames' = frames \ {f}, UNCHANGED <<world, srv, lastId>>,
           CASE f.event = "card.moved" -> UpdateCard(f.card, f.copy, f.id, f.pairs)
             [] f.event = "card.updated" -> UpdateCard(f.card, f.copy, None, f.pairs)
             [] f.event \in {"card.created", "card.unarchived"} -> AddCard(f.card, f.copy)
             [] f.event \in {"card.archived", "card.deleted"} -> RemoveCard(f.card)
    PROVE  AtTop'
<1>1. /\ lastId \in Nat /\ posId \in [Cards -> 0 .. lastId]
      /\ srv \in [Cards -> Row] /\ screen \in [Cards -> Copies]
      /\ FrameType(f) /\ \A g \in frames : g.id \in 1 .. lastId
      /\ Taken => FetchType
  BY DEF Types, TypeOK, Row, Taken
<1>2. /\ f.card \in Cards /\ f.id \in Nat /\ f.id > 0 /\ f.id <= lastId
      /\ f.copy.ver \in Nat
  BY <1>1 DEF FrameType, Copies
<1>3. Writer /\ Arrives(f) /\ \A d \in Cards \ {f.card} : Untouched(d)
  BY Delivered
<1>4. /\ f \in Moves => \A d \in Cards : Repositions(f, f.id, d)
      /\ f \notin Moves => /\ f.event \in RemoveEvents /\ posId' = posId
                           /\ screen' = [screen EXCEPT ![f.card] = NotShown]
      /\ InFlight => fetch.placed \subseteq fetch'.placed
  BY ComesAtTop
<1>5. /\ Taken' <=> Taken
      /\ Taken => InFlight /\ fetch'.snapshot = fetch.snapshot /\ fetch'.upTo = fetch.upTo
      /\ Taken => /\ fetch.upTo \in Nat
                  /\ \A d \in DOMAIN fetch.snapshot : d \in Cards /\ fetch.snapshot[d].ver \in Nat
  BY <1>1, <1>3 DEF Writer, SameFetch, Taken, InFlight, FetchType, Copies
<1>6. ASSUME NEW d \in Cards
      PROVE  /\ srv[d].pos \in Nat /\ srv[d].ver \in Nat /\ screen[d].pos \in Int /\ screen[d].ver \in Nat
             /\ posId[d] \in Nat /\ screen[d].ver <= srv[d].ver
  BY <1>1 DEF Row, Copies, Versions
<1>7. f \in Moves => /\ f.copy.pos = f.id /\ f.event = "card.moved" /\ f.id # None
                     /\ \A d \in Cards : PosIn(f, d) = f.id
  BY <1>2 DEF AtTop, PosIn, Moves, None
<1>8. Moves' = Moves \ {f}
  BY DEF Moves
<1>9. ASSUME NEW d \in Cards, Active(d)
      PROVE  Shown(d) /\ (f \notin Moves => f.card # d)
  <2>1. Shown(d) /\ Removals(Of(d)) = {}
    BY <1>9 DEF LeavingWorld, Shown, Versions
  <2> QED BY <1>4, <2>1 DEF Removals, Of
<1>10. ASSUME NEW d \in Cards PROVE screen'[d].pos <= lastId
  <2>1. screen[d].pos <= lastId
    BY DEF AtTop
  <2>2. CASE f \in Moves
    BY <1>2, <1>4, <1>7, <2>1, <2>2 DEF Repositions
  <2>3. CASE f \notin Moves
    BY <1>1, <1>4, <2>1, <2>3 DEF NotShown
  <2> QED BY <2>2, <2>3
<1>11. ASSUME NEW d \in Cards, Active(d)
       PROVE  /\ posId'[d] <= srv[d].pos
              /\ world.inOrder /\ Moves' # {} => ToCome(d)'
              /\ ToCome(d)' \/ (screen'[d].pos = srv[d].pos /\ posId'[d] = srv[d].pos)
  <2>1. /\ posId[d] <= srv[d].pos
        /\ \A g \in Moves : g.id <= srv[d].pos
        /\ world.inOrder /\ Moves # {} => ToCome(d)
        /\ ToCome(d) \/ (screen[d].pos = srv[d].pos /\ posId[d] = srv[d].pos)
    BY <1>11 DEF AtTop
  <2>2. posId'[d] <= srv[d].pos
    <3>1. CASE f \in Moves
      BY <1>4, <2>1, <3>1 DEF Repositions
    <3>2. CASE f \notin Moves
      BY <1>4, <2>1, <3>2
    <3> QED BY <3>1, <3>2
  <2>3. ASSUME NEW w \in frames, w # f, LastMove(w, d) PROVE ToCome(d)'
    <3>1. w \in Moves' /\ w \in frames'
      BY <1>8, <2>3 DEF LastMove
    <3>2. LastMove(w, d)'
      BY <2>3, <3>1 DEF LastMove
    <3> QED BY <3>1, <3>2 DEF ToCome
  <2>4. ASSUME LastMove(f, d)
        PROVE  screen'[d].pos = srv[d].pos /\ posId'[d] = srv[d].pos
    <3>1. /\ f \in Moves /\ f.id = srv[d].pos /\ f.copy.ver = srv[f.card].ver
          /\ Touches(f, d) /\ VerIn(f, d) = srv[d].ver
      BY <2>4 DEF LastMove, Touches, VerIn
    <3>2. ~NewerThan(f.id, d)
      BY <1>2, <1>6, <2>1, <3>1 DEF NewerThan
    <3>3. screen[d].ver <= VerIn(f, d) /\ screen[f.card].ver <= f.copy.ver
      BY <1>2, <1>6, <3>1
    <3> QED BY <1>4, <1>7, <1>9, <1>11, <3>1, <3>2, <3>3 DEF Repositions
  <2>5. ASSUME world.inOrder, Moves' # {} PROVE ToCome(d)'
    <3>1. PICK w \in frames : LastMove(w, d)
      BY <1>8, <2>1, <2>5 DEF ToCome
    <3>2. PICK g \in Moves : g # f
      BY <1>8, <2>5
    <3>3. w # f
      <4>1. SUFFICES ASSUME w = f PROVE FALSE
        OBVIOUS
      <4>2. f.id = srv[d].pos /\ g \in frames /\ g.id <= srv[d].pos /\ f.id <= g.id /\ g.id \in Nat
        BY <1>1, <2>1, <2>5, <3>1, <3>2, <4>1 DEF LastMove, Moves
      <4>3. g.id = f.id
        BY <1>2, <4>2
      <4> QED BY <3>2, <4>2, <4>3 DEF Basics
    <3> QED BY <2>3, <3>1, <3>3
  <2>6. ASSUME screen[d].pos = srv[d].pos, posId[d] = srv[d].pos
        PROVE  screen'[d].pos = srv[d].pos /\ posId'[d] = srv[d].pos
    <3>1. CASE f \in Moves
      <4>1. Repositions(f, f.id, d) /\ f.id <= srv[d].pos
        BY <1>4, <2>1, <3>1
      <4>2. posId'[d] = srv[d].pos
        BY <1>2, <1>6, <2>6, <4>1 DEF Repositions
      <4>3. screen'[d].pos = srv[d].pos
        <5>1. ~NewerThan(f.id, d) => f.id = srv[d].pos
          BY <1>2, <1>6, <1>7, <2>6, <3>1, <4>1 DEF NewerThan
        <5> QED BY <1>7, <2>6, <3>1, <4>1, <5>1 DEF Repositions
      <4> QED BY <4>2, <4>3
    <3>2. CASE f \notin Moves
      BY <1>1, <1>4, <1>9, <1>11, <2>6, <3>2
    <3> QED BY <3>1, <3>2
  <2>7. ToCome(d)' \/ (screen'[d].pos = srv[d].pos /\ posId'[d] = srv[d].pos)
    BY <2>1, <2>3, <2>4, <2>6 DEF ToCome
  <2> QED BY <2>2, <2>5, <2>7
<1>12. ASSUME Taken, NEW d \in DOMAIN fetch.snapshot, Active(d), screen'[d].pos > fetch.upTo
       PROVE  d \in fetch'.placed \/ fetch.snapshot[d].ver < screen'[d].ver
  <2>1. d \in Cards /\ InFlight /\ fetch.snapshot[d].ver \in Nat
    BY <1>5, <1>12
  <2>2. screen'[d].ver \in Nat /\ screen[d].ver <= screen'[d].ver
    <3>1. CASE d # f.card
      BY <1>3, <1>6, <2>1, <3>1 DEF Untouched
    <3>2. CASE d = f.card
      <4>1. f \in Moves /\ f.event \in UpdateEvents
        BY <1>7, <1>9, <1>12, <2>1, <3>2 DEF UpdateEvents
      <4> QED BY <1>2, <1>3, <1>6, <2>1, <3>2, <4>1 DEF Arrives, Wrote, Untouched
    <3> QED BY <3>1, <3>2
  <2>3. CASE screen'[d].pos = screen[d].pos
    <3>1. d \in fetch.placed \/ fetch.snapshot[d].ver < screen[d].ver
      BY <1>12, <2>3 DEF AtTop
    <3> QED BY <1>4, <1>6, <2>1, <2>2, <3>1
  <2>4. CASE screen'[d].pos # screen[d].pos
    <3>1. f \in Moves
      BY <1>1, <1>4, <1>9, <1>12, <2>1, <2>4
    <3>2. /\ screen'[d].pos = f.id
          /\ (d = f.card /\ screen'[d].ver = f.copy.ver) \/ d \in fetch'.placed
      BY <1>4, <1>7, <2>1, <2>4, <3>1 DEF Repositions
    <3>3. d = f.card => fetch.snapshot[d].ver < f.copy.ver
      BY <1>12, <3>1, <3>2 DEF AtTop
    <3> QED BY <3>2, <3>3
  <2> QED BY <2>3, <2>4
<1>13. \A d \in Cards : Active(d)' <=> Active(d)
  BY DEF Active
<1>14. /\ \A g \in frames' : g.event \in {"card.moved"} \cup RemoveEvents
       /\ \A g \in Moves' : g.copy.pos = g.id
  BY <1>8 DEF AtTop
<1>15. ASSUME NEW d \in Cards
       PROVE  /\ srv'[d].pos <= lastId' /\ screen'[d].pos <= lastId'
              /\ Active(d)' =>
                    /\ \A x \in Cards : Active(x)' => srv'[x].pos = srv'[d].pos
                    /\ posId'[d] <= srv'[d].pos
                    /\ \A g \in Moves' : g.id <= srv'[d].pos
                    /\ world'.inOrder /\ Moves' # {} => ToCome(d)'
                    /\ ToCome(d)' \/ (screen'[d].pos = srv'[d].pos /\ posId'[d] = srv'[d].pos)
  BY <1>8, <1>10, <1>11, <1>13 DEF AtTop
<1>16. ASSUME Taken
       PROVE  /\ world'.inOrder
              /\ \A d \in DOMAIN fetch.snapshot :
                    /\ fetch.snapshot[d].pos <= lastId'
                    /\ \A g \in Moves' : g.card = d /\ g.id > fetch.upTo => fetch.snapshot[d].ver < g.copy.ver
                    /\ Active(d)' =>
                          /\ srv'[d].pos <= fetch.upTo => fetch.snapshot[d].pos = srv'[d].pos
                          /\ screen'[d].pos > fetch.upTo =>
                                d \in fetch'.placed \/ fetch.snapshot[d].ver < screen'[d].ver
  BY <1>5, <1>8, <1>12, <1>13, <1>16 DEF AtTop
<1> QED BY <1>5, <1>14, <1>15, <1>16 DEF AtTop

LEMMA AtTopRead ==
    ASSUME Types, AtTop, world.inOrder, ReadSnapshot
    PROVE  AtTop'
<1>1. /\ srv \in [Cards -> Row] /\ screen \in [Cards -> Copies] /\ lastId \in Nat
      /\ \A f \in frames : f.id \in 1 .. lastId
      /\ FetchType
  BY DEF Types, TypeOK, Row, ReadSnapshot
<1>2. /\ UNCHANGED <<world, srv, lastId, frames, screen, posId>>
      /\ fetch' = [fetch EXCEPT !.upTo = lastId,
                                !.snapshot = [c \in {d \in Cards : Active(d)} |-> CopyOf(srv[c])]]
  BY DEF ReadSnapshot, server
<1>3. fetch'.upTo = lastId /\ fetch'.snapshot = [c \in {d \in Cards : Active(d)} |-> CopyOf(srv[c])]
  BY <1>1, <1>2 DEF FetchType
<1>4. ASSUME NEW d \in DOMAIN fetch'.snapshot
      PROVE  d \in Cards /\ Active(d) /\ fetch'.snapshot[d].pos = srv[d].pos
  BY <1>3 DEF CopyOf
<1>5. \A d \in Cards : srv[d].pos <= lastId /\ screen[d].pos <= lastId /\ screen[d].pos \in Int
  BY <1>1 DEF AtTop, Copies
<1>6. Moves' = Moves /\ \A f \in Moves : ~(f.id > lastId)
  BY <1>1, <1>2 DEF Moves
<1>7. \A d \in Cards : (Active(d)' <=> Active(d)) /\ (ToCome(d)' <=> ToCome(d))
  BY <1>2, <1>6 DEF Active, ToCome, LastMove
<1>8. /\ \A f \in frames' : f.event \in {"card.moved"} \cup RemoveEvents
      /\ \A f \in Moves' : f.copy.pos = f.id
      /\ \A d \in Cards :
            /\ srv'[d].pos <= lastId' /\ screen'[d].pos <= lastId'
            /\ Active(d)' =>
                  /\ \A x \in Cards : Active(x)' => srv'[x].pos = srv'[d].pos
                  /\ posId'[d] <= srv'[d].pos
                  /\ \A f \in Moves' : f.id <= srv'[d].pos
                  /\ world'.inOrder /\ Moves' # {} => ToCome(d)'
                  /\ ToCome(d)' \/ (screen'[d].pos = srv'[d].pos /\ posId'[d] = srv'[d].pos)
  BY <1>2, <1>6, <1>7 DEF AtTop
<1>9. /\ world'.inOrder
      /\ \A d \in DOMAIN fetch'.snapshot :
            /\ fetch'.snapshot[d].pos <= lastId'
            /\ \A f \in Moves' : f.card = d /\ f.id > fetch'.upTo => fetch'.snapshot[d].ver < f.copy.ver
            /\ Active(d)' =>
                  /\ srv'[d].pos <= fetch'.upTo => fetch'.snapshot[d].pos = srv'[d].pos
                  /\ screen'[d].pos > fetch'.upTo =>
                        d \in fetch'.placed \/ fetch'.snapshot[d].ver < screen'[d].ver
  <2>1. ASSUME NEW d \in DOMAIN fetch'.snapshot
        PROVE  /\ fetch'.snapshot[d].pos <= lastId'
               /\ \A f \in Moves' : ~(f.id > fetch'.upTo)
               /\ fetch'.snapshot[d].pos = srv'[d].pos
               /\ ~(screen'[d].pos > fetch'.upTo)
    BY <1>1, <1>2, <1>3, <1>4, <1>5, <1>6, <2>1
  <2> QED BY <1>2, <2>1
<1> QED BY <1>8, <1>9 DEF AtTop

\* A step that takes no snapshot, and leaves the frames and the server alone.
LEMMA AtTopKept ==
    ASSUME AtTop, UNCHANGED <<world, srv, lastId, frames, posId>>, ~Taken',
           \A c \in Cards : /\ screen'[c].pos <= lastId
                            /\ Active(c) /\ ~ToCome(c) => screen'[c].pos = srv[c].pos
    PROVE  AtTop'
<1>1. Moves' = Moves
  BY DEF Moves
<1>2. \A d \in Cards : (Active(d)' <=> Active(d)) /\ (ToCome(d)' <=> ToCome(d))
  BY <1>1 DEF Active, ToCome, LastMove
<1>3. \A d \in Cards :
         /\ srv'[d].pos <= lastId' /\ screen'[d].pos <= lastId'
         /\ Active(d)' =>
               /\ \A x \in Cards : Active(x)' => srv'[x].pos = srv'[d].pos
               /\ posId'[d] <= srv'[d].pos
               /\ \A f \in Moves' : f.id <= srv'[d].pos
               /\ world'.inOrder /\ Moves' # {} => ToCome(d)'
               /\ ToCome(d)' \/ (screen'[d].pos = srv'[d].pos /\ posId'[d] = srv'[d].pos)
  BY <1>1, <1>2 DEF AtTop
<1>4. /\ \A f \in frames' : f.event \in {"card.moved"} \cup RemoveEvents
      /\ \A f \in Moves' : f.copy.pos = f.id
  BY <1>1 DEF AtTop
<1> QED BY <1>3, <1>4 DEF AtTop

LEMMA AtTopApplied ==
    ASSUME Types, Versions, AtTop, Now, LeavingWorld, lost = {}, missed = {}, ApplySnapshot
    PROVE  AtTop'
<1>1. /\ srv \in [Cards -> Row] /\ screen \in [Cards -> Copies] /\ lastId \in Nat
      /\ FetchType /\ Taken
  BY DEF Types, TypeOK, Row, ApplySnapshot, Taken
<1>2. /\ UNCHANGED <<world, srv, lastId, frames, posId>>
      /\ screen' = [c \in Cards |-> Merged(c, fetch.snapshot, fetch)]
      /\ ~Taken'
  BY DEF ApplySnapshot, server, Taken, InFlight
<1>3. ASSUME NEW c \in DOMAIN fetch.snapshot
      PROVE  /\ c \in Cards /\ fetch.snapshot[c] \in Copies
             /\ fetch.snapshot[c].ver \in Nat /\ fetch.snapshot[c].ver <= srv[c].ver /\ srv[c].ver \in Nat
             /\ fetch.snapshot[c].pos <= lastId
             /\ c \notin fetch.written => screen[c].ver <= fetch.snapshot[c].ver
  <2>1. c \in Cards /\ fetch.snapshot[c] \in Copies /\ fetch.snapshot[c].ver \in 1 .. srv[c].ver
    BY <1>1 DEF FetchType
  <2>2. srv[c].ver \in Nat
    BY <1>1, <2>1 DEF Row
  <2> QED BY <1>1, <2>1, <2>2 DEF AtTop, Versions
<1>4. ASSUME NEW c \in Cards
      PROVE  screen[c] \in Copies /\ screen[c].ver \in Nat /\ screen[c].pos \in Int /\ screen[c].pos <= lastId
  BY <1>1 DEF Copies, AtTop
<1>5. \A c \in Cards : c \in DOMAIN fetch.snapshot =>
         [fetch.snapshot[c] EXCEPT !.pos = screen[c].pos].pos = screen[c].pos
  BY <1>3 DEF Copies
<1>6. ASSUME NEW c \in Cards PROVE screen'[c].pos <= lastId
  <2>1. NotShown.pos = 0
    BY DEF NotShown
  <2>2. screen'[c] = Merged(c, fetch.snapshot, fetch)
    BY <1>2
  <2>3. CASE c \in DOMAIN fetch.snapshot
    <3>1. screen'[c].pos \in {NotShown.pos, fetch.snapshot[c].pos, screen[c].pos}
      BY <1>5, <2>2, <2>3 DEF Merged
    <3> QED BY <1>1, <1>3, <1>4, <2>1, <2>3, <3>1
  <2>4. CASE c \notin DOMAIN fetch.snapshot
    BY <1>1, <1>4, <2>1, <2>2, <2>4 DEF Merged
  <2> QED BY <2>3, <2>4
<1>7. ASSUME NEW c \in Cards, Active(c), ~ToCome(c)
      PROVE  screen'[c].pos = srv[c].pos
  <2>1. /\ screen[c].pos = srv[c].pos /\ Moves = {}
        /\ c \in DOMAIN fetch.snapshot /\ Shown(c)
    BY <1>1, <1>7 DEF AtTop, LeavingWorld, In, Shown, Versions
  <2>2. screen[c].ver = srv[c].ver
    <3>1. Updates(Of(c)) = {} /\ Adds(Of(c)) = {}
      BY <2>1 DEF Updates, Adds, Of, UpdateEvents, AddEvents, RemoveEvents, Moves, AtTop
    <3> QED BY <1>7, <3>1 DEF Now, Fine, Current, Comes
  <2>3. /\ srv[c].pos <= fetch.upTo => fetch.snapshot[c].pos = srv[c].pos
        /\ screen[c].pos > fetch.upTo => c \in fetch.placed \/ fetch.snapshot[c].ver < screen[c].ver
    BY <1>1, <1>7, <2>1 DEF AtTop
  <2>4. screen'[c] = CASE c \in fetch.written /\ Stale(fetch.snapshot[c], screen[c]) -> screen[c]
                       [] c \in fetch.placed /\ fetch.snapshot[c].ver = screen[c].ver ->
                             [fetch.snapshot[c] EXCEPT !.pos = screen[c].pos]
                       [] OTHER -> fetch.snapshot[c]
    BY <1>2, <2>1 DEF Merged, Stale
  <2>5. fetch.upTo \in Nat /\ srv[c].pos \in Nat
    BY <1>1 DEF FetchType, Row
  <2>6. CASE fetch.snapshot[c].ver < screen[c].ver
    BY <1>3, <1>4, <2>1, <2>4, <2>6 DEF Stale
  <2>7. CASE fetch.snapshot[c].ver = screen[c].ver
    <3>1. ~Stale(fetch.snapshot[c], screen[c])
      BY <1>4, <2>7 DEF Stale
    <3>2. CASE c \in fetch.placed
      BY <1>5, <2>1, <2>4, <2>7, <3>1, <3>2
    <3>3. CASE c \notin fetch.placed
      BY <1>4, <2>1, <2>3, <2>4, <2>5, <2>7, <3>1, <3>3
    <3> QED BY <3>2, <3>3
  <2> QED BY <1>3, <1>4, <2>1, <2>2, <2>6, <2>7
<1> QED BY <1>2, <1>6, <1>7, AtTopKept

-----------------------------------------------------------------------------
(* Each card at its place: every step.                                     *)

LEMMA BasicsKept ==
    ASSUME Basics, world' = world, frames' \subseteq frames, owns' \in Nat, fetches' \in Nat,
           own' # Nothing => owns' # 0,
           Whole => open' /\ ~due' /\ (owns' = 0 /\ fetches' = 0 => ~InFlight')
    PROVE  Basics'
  BY DEF Basics, Whole

LEMMA BasicsCommitted ==
    ASSUME Types, Basics, UNCHANGED <<world, open, due, fetch, owns, fetches>>, own' # Nothing => owns # 0,
           NEW n, NEW e, NEW c \in Cards, NEW r \in Row, NEW shifted \in SUBSET (Cards \ {c}),
           Published(n, e, c, r, shifted), Changes(e, c, r, shifted)
    PROVE  Basics'
<1>1. lastId \in Nat /\ \A f \in frames : f.id \in 1 .. lastId
  BY DEF Types, TypeOK
<1>2. /\ frames' \subseteq frames \cup {n} /\ n.id = lastId + 1
      /\ n.event = e /\ DOMAIN n.pairs = shifted
  BY DEF Published
<1>3. e # "card.moved" => shifted = {}
  BY DEF Changes
<1>4. \A f, g \in frames' : f.id = g.id => f = g
  BY <1>1, <1>2 DEF Basics
<1>5. \A f \in frames' : f.event # "card.moved" => DOMAIN f.pairs = {}
  BY <1>2, <1>3 DEF Basics
<1> QED BY <1>4, <1>5 DEF Basics, Whole, InFlight

\* What the invariant of the versions gives of the worlds in which the places settle.
LEMMA PlacesFacts ==
    ASSUME IInv, Whole, world.inOrder \/ Falling
    PROVE  /\ open /\ lost = {} /\ missed = {} /\ Now
           /\ Falling => LeavingWorld
<1>1. world.ops \subseteq {"move", "archive", "delete"} => Leaving
  BY DEF Leaving
<1>2. Settling
  BY <1>1 DEF Settling, Whole, Falling
<1> QED BY <1>1, <1>2 DEF IInv, Settles, WholeWorld, Falling

LEMMA ElsewhereKeepsPlaces ==
    ASSUME IInv, Places, Elsewhere
    PROVE  Places'
<1>1. PICK e : \E c \in Cards : \E r \in Row : \E shifted \in SUBSET (Cards \ {c}) : \E n :
              /\ Published(n, e, c, r, shifted) /\ Changes(e, c, r, shifted)
              /\ Falling => e \in {"card.moved"} \cup RemoveEvents
  BY ElsewherePublishes DEF IInv
<1>2. PICK c \in Cards : \E r \in Row : \E shifted \in SUBSET (Cards \ {c}) : \E n :
              /\ Published(n, e, c, r, shifted) /\ Changes(e, c, r, shifted)
              /\ Falling => e \in {"card.moved"} \cup RemoveEvents
  BY <1>1
<1>3. PICK r \in Row : \E shifted \in SUBSET (Cards \ {c}) : \E n :
              /\ Published(n, e, c, r, shifted) /\ Changes(e, c, r, shifted)
              /\ Falling => e \in {"card.moved"} \cup RemoveEvents
  BY <1>2
<1>4. PICK shifted \in SUBSET (Cards \ {c}) : \E n :
              /\ Published(n, e, c, r, shifted) /\ Changes(e, c, r, shifted)
              /\ Falling => e \in {"card.moved"} \cup RemoveEvents
  BY <1>3
<1>5. PICK n : /\ Published(n, e, c, r, shifted) /\ Changes(e, c, r, shifted)
               /\ Falling => e \in {"card.moved"} \cup RemoveEvents
  BY <1>4
<1>6. /\ UNCHANGED <<world, screen, posId, fetch, own, open, due, owns, fetches>>
      /\ Types /\ Versions /\ Basics
  BY DEF Elsewhere, socket, IInv, Places
<1>7. Basics'
  BY <1>5, <1>6, BasicsCommitted DEF Basics
<1>8. ASSUME Whole, owns = 0, fetches = 0, world.inOrder PROVE InOrder'
  <2>1. open /\ InOrder
    BY <1>8, PlacesFacts DEF Places
  <2> QED BY <1>5, <1>6, <2>1, InOrderCommitted
<1>9. ASSUME Whole, owns = 0, Falling, world.inOrder \/ fetches = 0 PROVE AtTop'
  <2>1. open /\ AtTop
    BY <1>9, PlacesFacts DEF Places
  <2> QED BY <1>5, <1>6, <1>9, <2>1, AtTopCommitted
<1> QED BY <1>6, <1>7, <1>8, <1>9 DEF Places, Whole, Falling

LEMMA ServeKeepsPlaces ==
    ASSUME IInv, Places, Serve
    PROVE  Places'
<1>1. /\ UNCHANGED <<world, screen, posId, fetch, open, due, owns, fetches>>
      /\ own # Nothing /\ owns # 0
      /\ Types /\ Versions /\ Basics
  BY DEF Serve, socket, IInv, Places, Basics
<1>2. own.card \in Cards
  BY <1>1 DEF Types, OwnType, OwnRecord
<1>3. CASE Move(own.card) \/ Edit(own.card)
  <2>1. PICK e \in {"card.moved", "card.updated"} : \E r \in Row :
           \E shifted \in SUBSET (Cards \ {own.card}) : \E n :
              Published(n, e, own.card, r, shifted) /\ Changes(e, own.card, r, shifted)
    BY <1>1, <1>2, <1>3, EditPublishes, MovePublishes
  <2> QED BY <1>1, <1>2, <2>1, BasicsCommitted DEF Places
<1>4. CASE UNCHANGED <<server, missed>>
  <2>1. frames' = frames
    BY <1>4 DEF server
  <2>2. InFlight' <=> InFlight
    BY <1>1 DEF InFlight
  <2>3. Basics'
    BY <1>1, <2>1, <2>2, BasicsKept DEF Basics
  <2> QED BY <1>1, <2>3 DEF Places
<1> QED BY <1>3, <1>4 DEF Serve

LEMMA DeliverKeepsPlaces ==
    ASSUME IInv, Places, Deliver
    PROVE  Places'
<1>1. PICK f \in frames :
        /\ world.inOrder => \A g \in frames : f.id <= g.id
        /\ frames' = frames \ {f}
        /\ CASE f.event = "card.moved" -> UpdateCard(f.card, f.copy, f.id, f.pairs)
             [] f.event = "card.updated" -> UpdateCard(f.card, f.copy, None, f.pairs)
             [] f.event \in {"card.created", "card.unarchived"} -> AddCard(f.card, f.copy)
             [] f.event \in {"card.archived", "card.deleted"} -> RemoveCard(f.card)
  BY DEF Deliver
<1>2. /\ UNCHANGED <<world, srv, lastId, own, open, due, owns, fetches>>
      /\ Types /\ Versions /\ Basics
  BY DEF Deliver, socket, IInv, Places
<1>3. InFlight' <=> InFlight
  BY <1>1, <1>2, Delivered DEF Writer, SameFetch
<1>4. Basics'
  BY <1>1, <1>2, <1>3, BasicsKept DEF Basics
<1>5. ASSUME Whole, owns = 0, fetches = 0, world.inOrder PROVE InOrder'
  <2>1. InOrder
    BY <1>5 DEF Places
  <2> QED BY <1>1, <1>2, <1>5, <2>1, InOrderDelivered
<1>6. ASSUME Whole, owns = 0, Falling, world.inOrder \/ fetches = 0 PROVE AtTop'
  <2>1. AtTop /\ LeavingWorld
    BY <1>6, PlacesFacts DEF Places
  <2> QED BY <1>1, <1>2, <2>1, AtTopDelivered
<1> QED BY <1>2, <1>4, <1>5, <1>6 DEF Places, Whole, Falling

LEMMA StartFetchKeepsPlaces ==
    ASSUME IInv, Places, StartFetch
    PROVE  Places'
<1>1. /\ UNCHANGED <<world, srv, lastId, frames, screen, posId, own, open, owns>>
      /\ \/ due /\ ~due' /\ fetches' = fetches
         \/ fetches' = fetches + 1 /\ due' = due
      /\ fetch' = NewFetch
      /\ Types /\ Versions /\ Basics
  BY DEF StartFetch, server, IInv, Places
<1>2. Whole => fetches' # 0 /\ fetches' = fetches + 1 /\ ~due'
  BY <1>1 DEF Basics
<1>3. fetches' \in Nat
  BY <1>1 DEF Basics
<1>4. Basics'
  BY <1>1, <1>2, <1>3, BasicsKept DEF Basics
<1>5. ~Taken'
  BY <1>1 DEF NewFetch, Taken
<1>6. ASSUME Whole, owns = 0, Falling, world.inOrder PROVE AtTop'
  <2>1. AtTop
    BY <1>6 DEF Places
  <2>2. \A c \in Cards : /\ screen'[c].pos <= lastId
                         /\ Active(c) /\ ~ToCome(c) => screen'[c].pos = srv[c].pos
    BY <1>1, <2>1 DEF AtTop
  <2> QED BY <1>1, <1>5, <2>1, <2>2, AtTopKept
<1> QED BY <1>1, <1>2, <1>4, <1>6 DEF Places, Whole, Falling

LEMMA ReadSnapshotKeepsPlaces ==
    ASSUME IInv, Places, ReadSnapshot
    PROVE  Places'
<1>1. /\ UNCHANGED <<world, srv, lastId, frames, screen, posId, own, open, due, owns, fetches>>
      /\ InFlight
      /\ Types /\ Versions /\ Basics
  BY DEF ReadSnapshot, server, socket, IInv, Places
<1>2. Whole /\ owns = 0 => fetches # 0
  BY <1>1 DEF Basics
<1>3. Basics'
  BY <1>1, <1>2, BasicsKept DEF Basics
<1>4. ASSUME Whole, owns = 0, Falling, world.inOrder PROVE AtTop'
  <2>1. AtTop
    BY <1>4 DEF Places
  <2> QED BY <1>1, <1>4, <2>1, AtTopRead
<1> QED BY <1>1, <1>2, <1>3, <1>4 DEF Places, Whole, Falling

LEMMA ApplySnapshotKeepsPlaces ==
    ASSUME IInv, Places, ApplySnapshot
    PROVE  Places'
<1>1. /\ UNCHANGED <<world, srv, lastId, frames, posId, own, open, due, owns, fetches>>
      /\ InFlight /\ ~InFlight'
      /\ Types /\ Versions /\ Basics
  BY DEF ApplySnapshot, server, socket, IInv, Places, InFlight
<1>2. Whole /\ owns = 0 => fetches # 0
  BY <1>1 DEF Basics
<1>3. Basics'
  BY <1>1, <1>2, BasicsKept DEF Basics
<1>4. ASSUME Whole, owns = 0, Falling, world.inOrder PROVE AtTop'
  <2>1. AtTop /\ Now /\ LeavingWorld /\ lost = {} /\ missed = {}
    BY <1>4, PlacesFacts DEF Places
  <2> QED BY <1>1, <2>1, AtTopApplied
<1> QED BY <1>1, <1>2, <1>3, <1>4 DEF Places, Whole, Falling

LEMMA FailFetchKeepsPlaces ==
    ASSUME IInv, Places, FailFetch
    PROVE  Places'
<1>1. /\ UNCHANGED <<world, srv, lastId, frames, screen, posId, own, open, due, owns, fetches>>
      /\ InFlight /\ ~InFlight' /\ ~Taken'
      /\ Types /\ Versions /\ Basics
  BY DEF FailFetch, server, socket, IInv, Places, InFlight, Taken
<1>2. Whole /\ owns = 0 => fetches # 0
  BY <1>1 DEF Basics
<1>3. Basics'
  BY <1>1, <1>2, BasicsKept DEF Basics
<1>4. ASSUME Whole, owns = 0, Falling, world.inOrder PROVE AtTop'
  <2>1. AtTop
    BY <1>4 DEF Places
  <2>2. \A c \in Cards : /\ screen'[c].pos <= lastId
                         /\ Active(c) /\ ~ToCome(c) => screen'[c].pos = srv[c].pos
    BY <1>1, <2>1 DEF AtTop
  <2> QED BY <1>1, <2>1, <2>2, AtTopKept
<1> QED BY <1>1, <1>2, <1>3, <1>4 DEF Places, Whole, Falling

\* The page's own requests, after which the places are not followed.
LEMMA OwnKeepsPlaces ==
    ASSUME IInv, Places,
           \/ \E c \in Cards : StartMove(c) \/ StartEdit(c)
           \/ TakeAnswer \/ TakeRefusal
    PROVE  Places'
<1>1. UNCHANGED <<world, frames, open, due, fetches>> /\ Basics
  BY DEF StartMove, StartEdit, TakeAnswer, TakeRefusal, server, socket, Places
<1>2. owns' \in Nat /\ owns' # 0
  <2>1. CASE \E c \in Cards : StartMove(c) \/ StartEdit(c)
    BY <1>1, <2>1 DEF StartMove, StartEdit, Ask, Basics
  <2>2. CASE TakeAnswer \/ TakeRefusal
    BY <1>1, <2>2 DEF TakeAnswer, TakeRefusal, Basics
  <2> QED BY <2>1, <2>2
<1>3. Basics'
  BY <1>1, <1>2, BasicsKept DEF Basics
<1> QED BY <1>2, <1>3 DEF Places

LEMMA InitPlaces == Init => Places
<1> SUFFICES ASSUME Init PROVE Places
  OBVIOUS
<1>1. /\ lastId = 0 /\ frames = {} /\ fetch = Nothing /\ own = Nothing /\ open = TRUE /\ due = FALSE
      /\ fetches = 0 /\ owns = 0
      /\ \A c \in Cards : srv[c].pos = 0 /\ posId[c] = 0
      /\ \A c \in Cards : screen[c] = IF Active(c) THEN CopyOf(srv[c]) ELSE NotShown
  BY DEF Init, None
<1>2. \A c \in Cards : /\ screen[c].pos = 0 /\ srv[c].pos = 0 /\ posId[c] = 0
                       /\ Active(c) => Shown(c)
  <2>1. ASSUME NEW c \in Cards, Active(c) PROVE srv[c].ver = 1
    BY <2>1 DEF Init, Active
  <2>2. ASSUME NEW c \in Cards PROVE screen[c].pos = 0 /\ (Active(c) => Shown(c))
    <3>1. CASE Active(c)
      <4>1. screen[c].ver = 1 /\ screen[c].pos = 0 /\ NotShown.ver = 0
        <5>1. screen[c] = CopyOf(srv[c])
          BY <1>1, <3>1
        <5> QED BY <1>1, <2>1, <3>1, <5>1 DEF CopyOf, NotShown
      <4> QED BY <4>1 DEF Shown
    <3>2. CASE ~Active(c)
      BY <1>1, <3>2 DEF NotShown
    <3> QED BY <3>1, <3>2
  <2> QED BY <1>1, <2>2
<1>3. Basics
  BY <1>1 DEF Basics, InFlight
<1>4. InOrder
  BY <1>1, <1>2 DEF InOrder, Steady
<1>5. AtTop
  <2>1. Moves = {} /\ ~Taken
    BY <1>1 DEF Moves, Taken, InFlight
  <2> QED BY <1>1, <1>2, <2>1 DEF AtTop
<1> QED BY <1>3, <1>4, <1>5 DEF Places

LEMMA NextPlaces == IInv /\ Places /\ [Next]_vars => Places'
<1> SUFFICES ASSUME IInv, Places, [Next]_vars PROVE Places'
  OBVIOUS
<1>1. CASE Elsewhere
  BY <1>1, ElsewhereKeepsPlaces
<1>2. CASE Deliver
  BY <1>2, DeliverKeepsPlaces
<1>3. CASE Serve
  BY <1>3, ServeKeepsPlaces
<1>4. CASE StartFetch \/ ReadSnapshot \/ ApplySnapshot \/ FailFetch
  BY <1>4, StartFetchKeepsPlaces, ReadSnapshotKeepsPlaces, ApplySnapshotKeepsPlaces, FailFetchKeepsPlaces
<1>5. CASE (\E c \in Cards : StartMove(c) \/ StartEdit(c)) \/ TakeAnswer \/ TakeRefusal
  BY <1>5, OwnKeepsPlaces
<1>6. CASE Lose \/ Close
  <2>1. /\ UNCHANGED <<world, due, fetch, own, owns, fetches>> /\ frames' \subseteq frames
        /\ ~Whole /\ Basics
    BY <1>6 DEF Lose, Close, socket, Whole, Places
  <2>2. Basics'
    BY <2>1, BasicsKept DEF Basics
  <2> QED BY <2>1, <2>2 DEF Places, Whole
<1>7. CASE Reopen
  <2>1. /\ UNCHANGED <<world, frames, fetch, own, owns, fetches>>
        /\ ~Whole /\ Basics
    BY <1>7 DEF Reopen, server, Places, Basics
  <2>2. Basics'
    BY <2>1, BasicsKept DEF Basics
  <2> QED BY <2>1, <2>2 DEF Places, Whole
<1>8. CASE UNCHANGED vars
  <2>1. UNCHANGED <<world, srv, lastId, frames, screen, posId, fetch, own, open, due, missed, lost, fetches, owns>>
    BY <1>8 DEF vars, server, socket
  <2>2. Basics'
    BY <2>1 DEF Places, Basics, Whole, InFlight
  <2>3. InOrder => InOrder'
    BY <2>1 DEF InOrder, Active, Shown, Steady, Brings, Met, NotTaken, Of, Removals, Adds
  <2>4. AtTop => AtTop'
    BY <2>1 DEF AtTop, Active, Moves, ToCome, LastMove, Taken, InFlight
  <2> QED BY <2>1, <2>2, <2>3, <2>4 DEF Places, Whole, Falling
<1> QED BY <1>1, <1>2, <1>3, <1>4, <1>5, <1>6, <1>7, <1>8 DEF Next

\* Each card ends at its place, without a gap or a loss: with the frames in order
\* if the page reads nothing, whatever is done to the cards; and where cards are
\* only moved, archived and deleted, also around reads if the drops are at the top,
\* and with the frames in any order if it reads nothing.
Placing ==
    /\ Whole
    /\ (world.inOrder /\ fetches = 0) \/ world.ops \subseteq {"move", "archive", "delete"}

\* Every card shown stands at the server's place once nothing is under way.
THEOREM PlacesSettle == Spec => [](Placing => CellsSettle)
<1>1. Spec => []Places
  BY InitPlaces, NextPlaces, LiveInvariance, PTL DEF Spec
<1>2. ASSUME IInv, Places, Placing, Quiet, owns = 0,
             \/ world.inOrder /\ fetches = 0
             \/ world.top /\ (world.inOrder \/ fetches = 0),
             NEW c \in Cards, Shown(c)
      PROVE  screen[c].pos = srv[c].pos
  <2>1. frames = {} /\ Of(c) = {}
    BY <1>2 DEF Quiet, Of
  <2>2. CASE world.inOrder /\ fetches = 0
    <3>1. InOrder /\ Now /\ lost = {} /\ missed = {}
      BY <1>2, <2>2, PlacesFacts DEF Places, Placing
    <3>2. Active(c)
      BY <1>2, <2>1, <3>1 DEF Now, Fine, Goes, Removals, Adds, Shown, IInv, Versions
    <3> QED BY <2>1, <3>1, <3>2 DEF InOrder
  <2>3. CASE ~(world.inOrder /\ fetches = 0)
    <3>1. Falling /\ (world.inOrder \/ fetches = 0)
      BY <1>2, <2>3 DEF Placing, Falling
    <3>2. AtTop /\ Now /\ lost = {} /\ missed = {}
      BY <1>2, <3>1, PlacesFacts DEF Places, Placing
    <3>3. Active(c)
      BY <1>2, <2>1, <3>2 DEF Now, Fine, Goes, Removals, Adds, Shown, IInv, Versions
    <3> QED BY <2>1, <3>2, <3>3 DEF AtTop, ToCome
  <2> QED BY <2>2, <2>3
<1>3. IInv /\ Places => (Placing => CellsSettle)
  BY <1>2 DEF CellsSettle
<1> QED BY <1>1, <1>3, LiveInvariance, PTL
=============================================================================
