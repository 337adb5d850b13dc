---------------------------- MODULE GroupAdmins ----------------------------
(***************************************************************************)
(* The requests that could leave a group without an admin who can act for   *)
(* it, one transaction each: the member endpoints of groups/views.py, the   *)
(* two transfers of groups/services.py, and in accounts/ the deactivation   *)
(* and the delete of a user.  x is the account concerned.                   *)
(*   promote, demote, remove   PATCH and DELETE members/x                   *)
(*   transfer, handover        the owner's, and a superuser's, to x         *)
(*   deactivate, dismiss       of the account x, in no group                *)
(* Locks go from accounts to groups.  The membership rows, which are locked *)
(* last, are left out: each is written only under its group and its account.*)
(* The accounts concerned own no board and have sent no links.              *)
(***************************************************************************)
EXTENDS GroupRows

CONSTANT SiteAdmins     \* accounts a user delete always locks; nobody's target

MemberOps == {"promote", "demote", "remove"}
Transfers == {"transfer", "handover"}
AdminOps  == MemberOps \cup Transfers \cup {"deactivate", "dismiss"}

AdminsOf(g) == {u \in People : <<g, u>> \in admins}

\* The groups u is an active admin of.
Administered(u) == {g \in exists : u \in ActiveAdmins(g)}

\* user_deletion_refusals: u owns a group, or leaves one without active admin.
MayNotGo(u) ==
    \/ \E g \in exists : owner[g] = u
    \/ \E g \in Administered(u) : ActiveAdmins(g) = {u}

-----------------------------------------------------------------------------
(* Before the locks: the row is looked up, and a form validated.            *)

FoundMember(p) ==
    CASE Op(p) \in MemberOps  -> <<G(p), X(p)>> \in member
      [] Op(p) \in Transfers  -> G(p) \in exists
      [] Op(p) = "dismiss"    -> X(p) \in accounts
      [] OTHER                -> TRUE

ValidMember(p) ==
    CASE Op(p) = "handover" -> <<G(p), X(p)>> \in member /\ X(p) \in enabled /\ owner[G(p)] # X(p)
      [] Op(p) = "dismiss"  -> ~MayNotGo(X(p))
      [] OTHER              -> TRUE

AskMember(p) ==
    /\ pc[p] = "ask" /\ Op(p) \in AdminOps
    /\ Answer(p, IF ~FoundMember(p) THEN "gone" ELSE IF ~ValidMember(p) THEN "refused" ELSE "count")
    /\ seen' = [seen EXCEPT ![p] = IF Op(p) \in Transfers THEN owner[G(p)] ELSE Top]
    /\ UNCHANGED <<tables, held, req, ids, joined, round, plan>>

\* The accounts whose rows the first statement takes, as it finds them.
AccountsToLock(p) ==
    CASE Op(p) \in MemberOps -> AdminsOf(G(p)) \cup {X(p)}
      [] Op(p) = "dismiss"   -> SiteAdmins \cup {X(p)} \cup UNION {AdminsOf(g) : g \in Administered(X(p))}
      [] OTHER               -> {X(p)}

\* The group row after the accounts'; a user delete has yet to find its groups.
GroupToLock(p) ==
    CASE Op(p) \in MemberOps -> <<<<OfGroup(G(p)), NoKeyUpdate>>>>
      [] Op(p) \in Transfers -> <<<<OfGroup(G(p)), Update>>>>
      [] OTHER               -> <<>>

\* The account of somebody who created the group meanwhile is one of them; it has
\* no row in the model, for no request here would wait for it.
LockAccounts(p) ==
    /\ pc[p] = "count"
    /\ Answer(p, "lock")
    /\ ids' = [ids EXCEPT ![p] = AccountsToLock(p) \cap (accounts \cup Procs)]
    /\ plan' = [plan EXCEPT ![p] =
                   ByPk("account", AccountsToLock(p) \cap Users, NoKeyUpdate) \o GroupToLock(p)]
    /\ UNCHANGED <<tables, held, req, seen, joined, round>>

-----------------------------------------------------------------------------
(* Under the locks.                                                         *)

\* Fault: a deactivated admin counts.
CountedByRole(p) == ids[p] \cap AdminsOf(G(p))

\* The admins that count: active, and their account row held.
Counted(p) == ids[p] \cap ActiveAdmins(G(p))

\* What is decided on the rows locked.
MemberVerdict(p) ==
    CASE Op(p) \in MemberOps \cup Transfers /\ G(p) \notin exists        -> "gone"
      [] Op(p) \in MemberOps /\ <<G(p), X(p)>> \notin member             -> "gone"
      [] Op(p) \in {"demote", "remove"} /\ X(p) = owner[G(p)]            -> "refused"
      [] Op(p) \in {"demote", "remove"} /\ X(p) \in ActiveAdmins(G(p))
         /\ Cardinality(Counted(p)) <= 1                                 -> "refused"
      [] Op(p) \in Transfers /\ owner[G(p)] # seen[p]                    -> "refused"
      [] Op(p) \in Transfers /\ <<G(p), X(p)>> \notin member             -> "refused"
      [] Op(p) = "transfer" /\ <<G(p), X(p)>> \notin admins              -> "refused"
      [] Op(p) = "handover" /\ X(p) \notin enabled                       -> "refused"
      [] Op(p) = "deactivate" /\ X(p) \notin enabled                     -> "refused"
      [] Op(p) = "dismiss" /\ X(p) \in accounts /\ MayNotGo(X(p))        -> "refused"
      [] OTHER                                                           -> "write"

JudgeMember(p) ==
    /\ Locked(p) /\ Op(p) \in AdminOps /\ (Op(p) = "dismiss" => round[p] = 3)
    /\ UNCHANGED tables
    /\ IF MemberVerdict(p) = "write"
       THEN Answer(p, "write") /\ UNCHANGED <<held, req, seen, ids, joined, round, plan>>
       ELSE End(p, MemberVerdict(p))

\* The next statement of a user delete.
NextRound(p, locks) ==
    /\ plan' = [plan EXCEPT ![p] = locks]
    /\ round' = [round EXCEPT ![p] = @ + 1]
    /\ UNCHANGED <<tables, held, req, pc, seen, ids, joined>>

\* It locks the groups the account administers by then, judges, and takes the
\* account's own row FOR UPDATE, after which it judges again.
LockItsGroups(p) ==
    /\ Locked(p) /\ Op(p) = "dismiss" /\ round[p] = 1
    /\ NextRound(p, ByPk("group", Administered(X(p)), NoKeyUpdate))

LockItself(p) ==
    /\ Locked(p) /\ Op(p) = "dismiss" /\ round[p] = 2
    /\ IF MemberVerdict(p) = "write"
       THEN NextRound(p, <<<<OfAccount(X(p)), Update>>>>)
       ELSE End(p, MemberVerdict(p)) /\ UNCHANGED tables

-----------------------------------------------------------------------------
(* The writes.                                                              *)

Membership(p) == <<G(p), X(p)>>

WriteMember(p) ==
    \/ /\ Op(p) = "promote"
       /\ admins' = admins \cup {Membership(p)}
       /\ UNCHANGED <<people, owner, member>>
    \/ /\ Op(p) = "demote"
       /\ admins' = admins \ {Membership(p)}
       /\ UNCHANGED <<people, owner, member>>
    \/ /\ Op(p) = "remove"
       /\ member' = member \ {Membership(p)} /\ admins' = admins \ {Membership(p)}
       /\ UNCHANGED <<people, owner>>
    \/ /\ Op(p) \in Transfers       \* the old owner stays as an admin
       /\ owner' = [owner EXCEPT ![G(p)] = X(p)]
       /\ LET both == {Membership(p), <<G(p), seen[p]>>} IN
          member' = member \cup both /\ admins' = admins \cup both
       /\ UNCHANGED people
    \/ /\ Op(p) = "deactivate"
       /\ enabled' = enabled \ {X(p)}
       /\ UNCHANGED <<accounts, roles>>
    \/ /\ Op(p) = "dismiss"         \* memberships CASCADE
       /\ accounts' = accounts \ {X(p)} /\ enabled' = enabled \ {X(p)}
       /\ member' = {m \in member : m[2] # X(p)} /\ admins' = {m \in admins : m[2] # X(p)}
       /\ UNCHANGED owner

CommitMember(p) ==
    /\ pc[p] = "write" /\ Op(p) \in AdminOps
    /\ WriteMember(p)
    /\ UNCHANGED <<tree, invites, home>>
    /\ End(p, "ok")

AdminStep(p) ==
    \/ AskMember(p) \/ LockAccounts(p) \/ JudgeMember(p)
    \/ LockItsGroups(p) \/ LockItself(p) \/ CommitMember(p)
=============================================================================
