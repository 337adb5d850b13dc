----------------------------- MODULE GroupLocks -----------------------------
(***************************************************************************)
(* The requests of groups/views.py that change the group tree, a group's    *)
(* invite links or the board placed in it, as the row-lock protocol of      *)
(* groups/serializers.py, groups/services.py and                            *)
(* groups/invite_registration.py runs them, one transaction per request but *)
(* for enrol.  x is the new parent of a move or a create, the link of a     *)
(* join, sign-up, mint or revoke, and for a placement of the board, where g *)
(* is unused, the group or Top.                                             *)
(*   move      PATCH with parent           create   POST                    *)
(*   rename    PATCH without parent        delete   DELETE, by the owner    *)
(*   defaults  PATCH board-defaults        place    POST move-group         *)
(*   redeem    POST join (a single-use link), by a user of its own          *)
(*   register  a sign-up by an emailed invite                               *)
(*   enrol     one that has to confirm its address, in its own time         *)
(*   mint, revoke  POST and DELETE invite-links                             *)
(*                                                                          *)
(* Every caller and every sender of a link keeps the authority it needs, so *)
(* the standing checks and the revocations they lead to do nothing.  A      *)
(* foreign key is checked at COMMIT (all of them are deferred), with        *)
(* FOR KEY SHARE on the row it points at.                                   *)
(***************************************************************************)
EXTENDS GroupRows

CONSTANTS
    Emailed,            \* the links that were sent to an address
    MaxActive           \* how many unused copied links a group may have: 5

SignUps  == {"register", "enrol"}
LinkOps  == {"redeem", "revoke"} \cup SignUps
GroupOps == {"move", "create", "rename", "delete", "defaults", "place", "mint"} \cup LinkOps

\* The links of the groups gs, which their delete reaches one after the other.
LinksOf(gs) == {i \in links : LinkGroup[i] \in gs}

\* The links that count against the cap.
Unused(g) == ((LinksOf({g}) \cap active) \ used) \ Emailed

\* An enrol whose address is confirmed: its second transaction.
Confirms(p) == Op(p) = "enrol" /\ round[p] = 2

-----------------------------------------------------------------------------
(* Before the locks.                                                        *)

\* get_object and the serializer's validation, which only refuse what would
\* be refused under the locks.  An unknown group or link answers 404.
Found(p) ==
    CASE Op(p) = "create" -> TRUE
      [] Op(p) = "place"  -> X(p) = Top \/ X(p) \in exists
      [] Op(p) \in LinkOps -> X(p) \in active
      [] OTHER            -> G(p) \in exists

Valid(p) ==
    CASE Op(p) = "move"   -> MayMove(G(p), X(p))
      [] Op(p) = "create" -> MayCreateUnder(X(p))
      [] OTHER            -> TRUE

\* Fault: the board row before the group row, as before #1638.
BoardBeforeGroup(p) ==
    IF Op(p) = "place" /\ X(p) # Top
    THEN <<<<BoardRow, NoKeyUpdate>>, <<OfGroup(X(p)), KeyShare>>>>
    ELSE <<>>

\* Fault: lock_group_for_child_write for every write below a group, and the
\* link read without a lock.
GroupsShared(p) == <<<<OfGroup(G(p)), KeyShare>>>>

\* The locks of a request that needs no walk to know them.
FixedLocks(p) ==
    CASE Op(p) = "rename"   -> <<<<OfGroup(G(p)), Update>>>>
      [] Op(p) \in {"defaults", "mint"} -> <<<<OfGroup(G(p)), NoKeyUpdate>>>>
      [] Op(p) \in LinkOps  ->
            <<<<OfGroup(G(p)), NoKeyUpdate>>, <<OfLink(X(p)), Update>>>>
      [] Op(p) = "place"    ->
            IF X(p) = Top THEN <<<<BoardRow, NoKeyUpdate>>>>
            ELSE <<<<OfGroup(X(p)), KeyShare>>, <<BoardRow, NoKeyUpdate>>>>
      [] OTHER              -> <<>>

Walks(p) == Op(p) \in {"move", "create", "delete"}

Ask(p) ==
    /\ pc[p] = "ask" /\ Op(p) \in GroupOps
    /\ pc' = [pc EXCEPT ![p] = IF ~Found(p) THEN "gone" ELSE IF ~Valid(p) THEN "refused"
                               ELSE IF Walks(p) THEN "walk" ELSE "lock"]
    /\ seen' = [seen EXCEPT ![p] = IF Op(p) = "delete" THEN owner[G(p)] ELSE parent[G(p)]]
    /\ plan' = [plan EXCEPT ![p] = FixedLocks(p)]
    /\ UNCHANGED <<tables, held, req, ids, joined, round>>

\* The unlocked walk: up from the new parent, if that is still there, or down
\* from the group to delete.
Walked(p) ==
    CASE Op(p) = "delete" -> SubtreeIds(G(p))
      [] Op(p) = "create" -> Chain(X(p))
      [] OTHER -> {G(p)} \cup (IF X(p) \in exists THEN Chain(X(p)) ELSE {})

Walk(p) ==
    /\ pc[p] = "walk"
    /\ pc' = [pc EXCEPT ![p] = "lock"]
    /\ ids' = [ids EXCEPT ![p] = Walked(p)]
    /\ plan' = [plan EXCEPT ![p] = ByPk("group", Walked(p), Update)]
    /\ UNCHANGED <<tables, held, req, seen, joined, round>>

-----------------------------------------------------------------------------
(* The locks.                                                               *)

\* Fault: the subtree as the first, unlocked walk saw it.
WalkedOnce(p) ==
    /\ Locked(p) /\ Op(p) = "delete"
    /\ IF G(p) \in exists
       THEN Answer(p, "collect") /\ UNCHANGED <<tables, held, req, seen, ids, joined, round, plan>>
       ELSE End(p, "gone") /\ UNCHANGED tables

\* Under the locks lock_group_subtree_for_delete walks again; what it finds
\* beyond the groups locked is locked too, in another round.
Rewalk(p) ==
    /\ Locked(p) /\ Op(p) = "delete"
    /\ UNCHANGED <<tables, req, seen, joined>>
    /\ LET all == ids[p] \cup SubtreeIds(G(p)) IN
       \/ all # ids[p]
          /\ ids' = [ids EXCEPT ![p] = all]
          /\ plan' = [plan EXCEPT ![p] = ByPk("group", all, Update)]
          /\ round' = [round EXCEPT ![p] = 2]
          /\ UNCHANGED <<held, pc>>
       \/ all = ids[p] /\ G(p) \in exists /\ owner[G(p)] = seen[p]
          /\ Answer(p, "collect") /\ UNCHANGED <<held, ids, round, plan>>
       \/ all = ids[p] /\ ~(G(p) \in exists /\ owner[G(p)] = seen[p])
          /\ Answer(p, IF G(p) \in exists THEN "refused" ELSE "gone") /\ Release(p, {})
          /\ UNCHANGED <<ids, round, plan>>

\* group.delete(): the collector walks the subtree and deletes its memberships,
\* then its links, then clears its boards.  The rows show gone at the end.
Collect(p) ==
    /\ pc[p] = "collect"
    /\ ids' = [ids EXCEPT ![p] = SubtreeIds(G(p))]
    /\ joined' = [joined EXCEPT ![p] = {m \in member : m[1] \in SubtreeIds(G(p))}]
    /\ LET gone == SetToSeq(LinksOf(SubtreeIds(G(p)))) IN
       plan' = [plan EXCEPT ![p] = [n \in DOMAIN gone |-> <<OfLink(gone[n]), Update>>]
                                   \o <<<<BoardRow, NoKeyUpdate>>>>]
    /\ Answer(p, "clear")
    /\ UNCHANGED <<tables, held, req, seen, round>>

\* Fault: validate_parent's answer is taken for good.
CheckedBeforeLock(p) == IF Op(p) = "move" /\ G(p) \notin exists THEN "gone" ELSE "write"

Reserved(i) == \E q \in Procs : <<i, q>> \in reserved

\* What the request decides on the rows it has locked and read again.
Verdict(p) ==
    CASE Op(p) = "move" /\ G(p) \notin exists         -> "gone"
      [] Op(p) = "move" /\ ~MayMove(G(p), X(p))       -> "refused"
      [] Op(p) = "rename" /\ G(p) \notin exists       -> "gone"
      [] Op(p) = "create" /\ ~MayCreateUnder(X(p))    -> "refused"
      [] Confirms(p) /\ X(p) \notin active \ used              -> "release"
      [] Op(p) \in LinkOps /\ X(p) \notin active               -> "gone"
      [] Op(p) \in LinkOps /\ X(p) \in used                    -> "refused"
      [] Op(p) \in SignUps /\ X(p) \notin Emailed              -> "refused"
      [] Op(p) = "enrol" /\ round[p] = 1 /\ Reserved(X(p))     -> "refused"
      [] Op(p) = "mint" /\ Cardinality(Unused(G(p))) >= MaxActive
                                                      -> "refused"
      [] OTHER                                        -> "write"

\* Fault: the group as get_object loaded it.
AsLoaded(p) == seen[p]

\* The parent in the copy that save() writes back whole: refresh_from_db.
Reloaded(p) == parent[G(p)]

Judge(p) ==
    /\ Locked(p) /\ Op(p) \in GroupOps \ {"delete"} /\ Verdict(p) # "release"
    /\ UNCHANGED tables
    /\ IF Verdict(p) = "write"
       THEN /\ Answer(p, "write")
            /\ seen' = [seen EXCEPT ![p] = Reloaded(p)]
            /\ UNCHANGED <<held, req, ids, joined, round, plan>>
       ELSE End(p, Verdict(p))

\* A reservation that can no longer be granted is given back.
GiveBack(p) ==
    /\ Locked(p) /\ Op(p) = "enrol" /\ Verdict(p) = "release"
    /\ reserved' = reserved \ {<<X(p), p>>}
    /\ UNCHANGED <<tree, people, roles, links, active, used, home>>
    /\ End(p, "refused")

-----------------------------------------------------------------------------
(* The writes and COMMIT.                                                   *)

\* The groups that what p writes points at anew.
Points(p) ==
    CASE Op(p) \in {"move", "create", "place"} -> {X(p)} \ {Top}
      [] Op(p) \in {"redeem", "register", "mint"} \/ Confirms(p) -> {G(p)}
      [] Op(p) \in {"rename", "defaults"} /\ G(p) \notin exists -> {seen[p]} \ {Top}
      [] OTHER                                 -> {}

\* Its account joins the group, with no more than a member's role.
Joins(p) == member' = member \cup {<<G(p), p>>} /\ UNCHANGED <<people, owner, admins, tree, home>>

\* The invite is claimed, and no longer waits for anyone.
Claimed(i) ==
    /\ used' = used \cup {i} /\ reserved' = {r \in reserved : r[1] # i}
    /\ UNCHANGED <<links, active>>

Write(p) ==
    \/ /\ Op(p) = "move"
       /\ parent' = [parent EXCEPT ![G(p)] = X(p)]
       /\ UNCHANGED <<exists, people, roles, invites, home>>
    \/ /\ Op(p) \in {"rename", "defaults"}     \* save() inserts what is not there
       /\ exists' = exists \cup {G(p)}
       /\ parent' = [parent EXCEPT ![G(p)] = seen[p]]
       /\ UNCHANGED <<people, roles, invites, home>>
    \/ /\ Op(p) = "create"
       /\ exists' = exists \cup {G(p)}
       /\ parent' = [parent EXCEPT ![G(p)] = X(p)]
       /\ owner' = [owner EXCEPT ![G(p)] = p]
       /\ member' = member \cup {<<G(p), p>>} /\ admins' = admins \cup {<<G(p), p>>}
       /\ UNCHANGED <<people, invites, home>>
    \/ /\ Op(p) = "redeem"                      \* whoever it is reserved for
       /\ Joins(p) /\ used' = used \cup {X(p)} /\ UNCHANGED <<links, active, reserved>>
    \/ (Op(p) = "register" \/ Confirms(p)) /\ Joins(p) /\ Claimed(X(p))
    \/ /\ Op(p) = "enrol" /\ ~Confirms(p)
       /\ reserved' = reserved \cup {<<X(p), p>>}
       /\ UNCHANGED <<tree, people, roles, links, active, used, home>>
    \/ /\ Op(p) = "mint"
       /\ links' = links \cup {X(p)} /\ active' = active \cup {X(p)}
       /\ UNCHANGED <<tree, people, roles, used, reserved, home>>
    \/ /\ Op(p) = "revoke"
       /\ active' = active \ {X(p)}
       /\ UNCHANGED <<tree, people, roles, links, used, reserved, home>>
    \/ /\ Op(p) = "place"
       /\ home' = X(p)
       /\ UNCHANGED <<tree, people, roles, invites>>

\* A sign-up that has to confirm its address goes on waiting.
Outcome(p) == IF Op(p) = "enrol" /\ ~Confirms(p) THEN "waiting" ELSE "ok"

Commit(p) ==
    /\ pc[p] = "write" /\ Op(p) \in GroupOps
    /\ \A g \in Points(p) : Grantable(p, OfGroup(g), KeyShare)
    /\ \/ Points(p) \subseteq exists /\ Write(p) /\ End(p, Outcome(p))
       \/ ~(Points(p) \subseteq exists) /\ UNCHANGED tables /\ End(p, "error")

\* The address is confirmed: the invites reserved for the account are read,
\* and each is locked and judged in a transaction of its own.
Confirm(p) ==
    /\ pc[p] = "waiting"
    /\ UNCHANGED <<tables, held, req, seen, ids, joined>>
    /\ IF <<X(p), p>> \in reserved
       THEN /\ Answer(p, "lock")
            /\ round' = [round EXCEPT ![p] = 2]
            /\ plan' = [plan EXCEPT ![p] = FixedLocks(p)]
       ELSE Answer(p, "refused") /\ UNCHANGED <<round, plan>>

Swept(p) == {i \in Links : held[p][OfLink(i)] = Update}

\* A row the delete leaves behind would point at a group it deletes.
Dangling(p) ==
    \/ \E c \in exists \ ids[p] : parent[c] \in ids[p]
    \/ \E m \in member \ joined[p] : m[1] \in ids[p]
    \/ ~(LinksOf(ids[p]) \subseteq Swept(p))
    \/ home \in ids[p] /\ held[p][BoardRow] = None

\* Board.group is SET_NULL.
Cleared(p) == IF home \in ids[p] THEN Top ELSE home

CommitDelete(p) ==
    /\ pc[p] = "clear" /\ plan[p] = <<>>
    /\ \/ /\ ~Dangling(p)
          /\ exists' = exists \ ids[p]
          /\ parent' = [g \in Groups |-> IF g \in ids[p] THEN Top ELSE parent[g]]
          /\ member' = member \ joined[p] /\ admins' = admins \ joined[p]
          /\ links' = links \ Swept(p) /\ active' = active \ Swept(p) /\ used' = used \ Swept(p)
          /\ reserved' = {r \in reserved : r[1] \notin Swept(p)}
          /\ home' = Cleared(p)
          /\ UNCHANGED <<people, owner>>
          /\ End(p, "ok")
       \/ Dangling(p) /\ UNCHANGED tables /\ End(p, "error")

GroupStep(p) ==
    \/ Ask(p) \/ Walk(p) \/ Lock(p) \/ Rewalk(p) \/ Collect(p) \/ Judge(p) \/ GiveBack(p)
    \/ Commit(p) \/ Confirm(p) \/ CommitDelete(p)
=============================================================================
