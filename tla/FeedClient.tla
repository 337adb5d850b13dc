----------------------------- MODULE FeedClient -----------------------------
(***************************************************************************)
(* A consumer of the change feed over REST: GET /boards/<id>/events/ with an *)
(* id cursor, answered by a page of rows or by 410, and the client package's *)
(* loop, which moves its stored cursor past an item when the consumer has    *)
(* handled it, and re-synchronises with /full/ after a 410.  The page, the   *)
(* prune record and the 410's next_cursor are read by separate statements,   *)
(* and any request or the client itself may fail between two steps.          *)
(***************************************************************************)
EXTENDS ChangeFeed

CONSTANTS
    Roles,     \* the kinds of event a reader of each role may see
    Limit      \* rows of a page

ASSUME ClientAssumption ==
    /\ Roles \subseteq SUBSET Kinds /\ Roles # {}
    /\ Limit \in Nat \ {0}

VARIABLES
    role,      \* the kinds the consumer's account may see now
    cursor,    \* the stored cursor
    pc,        \* idle, marks, resume, gone, resync, page, or handled
    after,     \* the cursor and the kinds of the request under way
    ks,
    page,      \* the rows it returned
    goOn,      \* the 410's next_cursor
    \* History, which only the properties read:
    was,       \* Written, when the page was read
    opened,    \* Open, then
    seen,      \* rows the consumer has handled, or seen in a board state
    late       \* rows still open when the cursor passed them

request == <<pc, after, ks, page, goOn, was, opened>>
history == <<seen, late>>
client  == <<role, cursor, request, history>>
vars    == <<feed, client>>

Init ==
    /\ FeedInit
    /\ role \in Roles
    /\ cursor \in 0 .. next - 1
    /\ pc = "idle" /\ after = 0 /\ ks = {} /\ page = {} /\ goOn = 0
    /\ was = {} /\ opened = {} /\ late = {}
    /\ seen = 1 .. cursor

\* feed_queryset(...).filter(pk__gt=after).order_by("id")[:limit].  A cursor
\* of 0 asks for what is retained, so nothing older is owed to the consumer.
ReadPage ==
    /\ pc = "idle"
    /\ pc' = "marks" /\ ks' = role /\ after' = cursor
    /\ page' = First({i \in Visible : i > cursor /\ kind[i] \in role}, Limit)
    /\ was' = Written /\ opened' = Open
    /\ seen' = IF cursor = 0 THEN seen \cup Pruned \cup Lost ELSE seen
    /\ UNCHANGED <<feed, role, cursor, goOn, late>>

\* The prune record is read after the page.
CheckCursor ==
    /\ pc = "marks"
    /\ IF after # 0 /\ EventsCursorExpired(after, ks, page # {})
       THEN pc' = "resume" /\ goOn' = NewestEventId /\ opened' = Open /\ page' = {}
       ELSE pc' = "page" /\ UNCHANGED <<goOn, opened, page>>
    /\ UNCHANGED <<feed, role, cursor, after, ks, was, history>>

\* A mutant: next_cursor is the newest id that is left.
AnswerNewest ==
    /\ pc = "resume"
    /\ pc' = "gone"
    /\ UNCHANGED <<feed, role, cursor, after, ks, page, goOn, was, opened, history>>

\* A 410: the newest id has been read, now the record is read once more.
AnswerGone ==
    /\ pc = "resume"
    /\ pc' = "gone"
    /\ goOn' = Max({goOn, PrunedThrough})
    /\ UNCHANGED <<feed, role, cursor, after, ks, page, was, opened, history>>

\* GET /full/, after the 410.
ReadBoard ==
    /\ pc = "gone"
    /\ pc' = "resync"
    /\ was' = Written
    /\ UNCHANGED <<feed, role, cursor, after, ks, page, goOn, opened, history>>

EndRequest ==
    /\ pc' = "idle" /\ after' = 0 /\ ks' = {} /\ page' = {} /\ goOn' = 0
    /\ was' = {} /\ opened' = {}

ResyncHandled ==
    /\ pc = "resync"
    /\ cursor' = goOn
    /\ seen' = seen \cup was
    /\ late' = late \cup {i \in opened : i <= goOn}
    /\ EndRequest
    /\ UNCHANGED <<feed, role>>

Left == {i \in page : i > cursor}

\* The consumer handles the next event; asking for another one stores it.
Yield ==
    /\ pc = "page" /\ Left # {}
    /\ pc' = "handled"
    /\ seen' = seen \cup {Min(Left)}
    /\ UNCHANGED <<feed, role, cursor, after, ks, page, goOn, was, opened, late>>

\* A mutant: the page's last id is stored with its first event.
StorePage ==
    /\ pc = "handled"
    /\ pc' = "page"
    /\ cursor' = Max(page)
    /\ late' = late \cup {i \in opened : i < Max(page)}
    /\ UNCHANGED <<feed, role, after, ks, page, goOn, was, opened, seen>>

Store ==
    /\ pc = "handled"
    /\ pc' = "page"
    /\ cursor' = Min(Left)
    /\ late' = late \cup {i \in opened : i < Min(Left)}
    /\ UNCHANGED <<feed, role, after, ks, page, goOn, was, opened, seen>>

PageDone ==
    /\ pc = "page" /\ Left = {}
    /\ EndRequest
    /\ UNCHANGED <<feed, role, cursor, history>>

\* The request fails, or the consumer stops and starts again from its store.
Fail ==
    /\ pc # "idle"
    /\ EndRequest
    /\ UNCHANGED <<feed, role, cursor, history>>

ChangeRole ==
    /\ role' \in Roles
    /\ UNCHANGED <<feed, cursor, request, history>>

ClientNext ==
    \/ ReadPage \/ CheckCursor \/ AnswerGone \/ ReadBoard \/ ResyncHandled
    \/ Yield \/ Store \/ PageDone \/ Fail \/ ChangeRole

Next == (FeedNext /\ UNCHANGED client) \/ ClientNext

Spec == Init /\ [][Next]_vars

-----------------------------------------------------------------------------
TypeOK ==
    /\ FeedTypeOK
    /\ role \in Roles /\ cursor \in 0 .. MaxId
    /\ pc \in {"idle", "marks", "resume", "gone", "resync", "page", "handled"}
    /\ after \in 0 .. MaxId /\ ks \in SUBSET Kinds /\ page \in SUBSET Ids
    /\ goOn \in 0 .. MaxId
    /\ was \in SUBSET Ids /\ opened \in SUBSET Ids
    /\ seen \in SUBSET Ids /\ late \in SUBSET Ids

(***************************************************************************)
(* A page that is answered with 200 is the first rows after the cursor of    *)
(* all that had ever been committed for this reader when the page was read:  *)
(* no prune, before or during the request, makes it step over a row          *)
(* (views/boards.py reads the record after the page).  A cursor from before  *)
(* the record may be told that there is nothing after it, never be moved.    *)
(***************************************************************************)
PageIsComplete ==
    pc \in {"page", "handled"} /\ after # 0 =>
        \/ page = First({i \in was : i > after /\ kind[i] \in ks}, Limit)
        \/ page = {} /\ \E i \in Lost : i > after

(***************************************************************************)
(* What a consumer with the client package's loop has passed it has handled, *)
(* or has seen in a board state, but for rows whose transaction was open     *)
(* when the cursor passed their ids.  So crashes, failed requests, prunes,   *)
(* 410s and changes of role lose nothing a reader of every role may see.     *)
(***************************************************************************)
OnlyLateRowsMissed ==
    \A i \in Written :
        i <= cursor /\ (\A r \in Roles : kind[i] \in r) =>
            i \in seen \cup late

(***************************************************************************)
(* The next_cursor of a 410 is not expired when it is given, for a reader of *)
(* any role and whatever was pruned while the answer was put together: the   *)
(* consumer is not sent to re-sync for ever.                                *)
(***************************************************************************)
NextCursorResumes ==
    [][pc = "resume" /\ pc' = "gone" =>
          \A r \in Roles, rowsFollow \in BOOLEAN :
              ~EventsCursorExpired(goOn, r, rowsFollow)']_vars
=============================================================================
