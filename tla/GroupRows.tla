----------------------------- MODULE GroupRows -----------------------------
(***************************************************************************)
(* The tables that the requests of groups/views.py and of the admin pages   *)
(* for accounts share, and how every such request takes its row locks: it   *)
(* reads unlocked, makes a plan of the rows to lock, takes them one by one, *)
(* judges the reloaded rows, and commits or answers.  Writes show when the  *)
(* transaction commits.                                                     *)
(*                                                                          *)
(* A request is [op, g, x].  GroupLocks has those on the tree, the invite   *)
(* links and the board of a group, GroupAdmins those on its members and     *)
(* their accounts, and GroupRequests puts them together.                    *)
(***************************************************************************)
EXTENDS GroupTree, RowLocks, SequencesExt

CONSTANTS
    Links, LinkGroup,   \* the invite links and the group each belongs to
    Users,              \* the accounts there are at first, by primary key
    Games               \* sets of requests; those of one set may be in flight at once

VARIABLES
    accounts, enabled,  \* the accounts of Users left; those not deactivated
    owner,              \* the owner of each group
    member, admins,     \* the memberships, as pairs; those with the admin role
    links, active, used,\* the link rows; those not revoked; those redeemed
    reserved,           \* the links reserved, with the account each waits for
    home,               \* the group the board is in, or Top
    req, pc,            \* each request and where it stands
    seen,               \* the parent, or owner, in the copy of g it holds
    ids,                \* the groups it has walked, or the accounts it has locked
    joined,             \* the memberships a delete's collector has found
    round,              \* how often it has locked
    plan                \* the row locks it is to take, in order

tree    == <<exists, parent>>
people  == <<accounts, enabled>>
roles   == <<owner, member, admins>>
invites == <<links, active, used, reserved>>
tables  == <<tree, people, roles, invites, home>>
vars    == <<tables, held, req, pc, seen, ids, joined, round, plan>>

OfGroup(g)   == <<"group", g>>
OfLink(i)    == <<"link", i>>
OfAccount(u) == <<"account", u>>
BoardRow     == <<"board", 0>>
Rows == {OfGroup(g) : g \in Groups} \cup {OfLink(i) : i \in Links}
        \cup {OfAccount(u) : u \in Users} \cup {BoardRow}

Requests == UNION Games

\* The accounts, with those of the requests that sign up, join or create.
People == Users \cup Procs

Op(p) == req[p].op
G(p)  == req[p].g
X(p)  == req[p].x

\* One statement that locks the rows of one table with the keys ks, in key order.
ByPk(table, ks, mode) ==
    LET order == CHOOSE f \in [1 .. Cardinality(ks) -> ks] :
                     \A m, n \in DOMAIN f : m < n => f[m] < f[n]
    IN [n \in DOMAIN order |-> <<<<table, order[n]>>, mode>>]

\* A row is there to lock: the board for a delete only if it is to be cleared,
\* a link for a confirmation only while it waits for it.
There(p, r) ==
    CASE r[1] = "group"   -> r[2] \in exists
      [] r[1] = "link"    -> r[2] \in links
                             /\ (Op(p) = "enrol" /\ round[p] = 2 => <<r[2], p>> \in reserved)
      [] r[1] = "account" -> r[2] \in accounts
      [] OTHER            -> Op(p) = "delete" => home \in ids[p]

Answers == {"ok", "refused", "gone", "error", "aborted"}

Answer(p, a) == pc' = [pc EXCEPT ![p] = a]

\* The transaction is over: its locks go.
End(p, a) ==
    /\ Answer(p, a)
    /\ Release(p, {})
    /\ UNCHANGED <<req, seen, ids, joined, round, plan>>

Rest(p) == plan' = [plan EXCEPT ![p] = Tail(@)]

\* A statement over several rows passes over one that is gone; the fetch of
\* one row answers 404 at once.
Passes(p, r) ==
    \/ Op(p) \in {"move", "rename", "create", "delete", "dismiss"}
    \/ r[1] = "account" /\ Op(p) # "deactivate"

Lock(p) ==
    /\ pc[p] \in {"lock", "clear"} /\ plan[p] # <<>>
    /\ UNCHANGED tables
    /\ LET r == Head(plan[p])[1] IN
       \/ There(p, r) /\ Take(p, r, Head(plan[p])[2]) /\ Rest(p)
          /\ UNCHANGED <<req, pc, seen, ids, joined, round>>
       \/ ~There(p, r) /\ Passes(p, r) /\ Rest(p)
          /\ UNCHANGED <<held, req, pc, seen, ids, joined, round>>
       \/ ~There(p, r) /\ ~Passes(p, r) /\ End(p, "gone")

Locked(p) == pc[p] = "lock" /\ plan[p] = <<>>

\* An account that can sign in and is an admin of g: what the minimum counts.
ActiveAdmins(g) == {u \in enabled \cup Procs : <<g, u>> \in admins}
=============================================================================
