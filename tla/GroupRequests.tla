--------------------------- MODULE GroupRequests ---------------------------
(***************************************************************************)
(* The requests of GroupLocks and GroupAdmins at once, on one tree of       *)
(* groups with its members, links and board: their interleavings, the       *)
(* deadlocks among them, and what holds of the tables throughout.           *)
(***************************************************************************)
EXTENDS GroupLocks, GroupAdmins

CONSTANTS
    InitTrees,          \* the trees to start from
    InitLinks,          \* the links there at first, unused
    InitStaff           \* the admins and members of each group, and the
                        \* accounts enabled, to start from

\* What a request names; a link is minted once, and of no group but its own.
Sensible(r) ==
    /\ r.op \in GroupOps => r.g \in Groups
    /\ r.op \in {"move", "create", "place"} => r.x \in Groups \cup {Top}
    /\ r.op \in LinkOps \cup {"mint"} => r.x \in Links /\ LinkGroup[r.x] = r.g
    /\ r.op = "mint" => r.x \notin InitLinks
    /\ r.op \in AdminOps => r.x \in Users
    /\ r.op \in MemberOps \cup Transfers => r.g \in Groups

ASSUME RequestAssumption ==
    \A r \in Requests : r.op \in GroupOps \cup AdminOps /\ Sensible(r)

ASSUME AccountAssumption ==
    /\ Users \subseteq Nat /\ SiteAdmins \subseteq Users
    /\ Users \cap Procs = {}

ASSUME FiniteAssumption == IsFiniteSet(Groups) /\ IsFiniteSet(Links) /\ IsFiniteSet(Users)

\* What there is at first: every group's parent, each link's group, an owner of
\* each group among its admins, and no more unused links than may be.
ASSUME StartAssumption ==
    /\ MaxActive \in Nat /\ LinkGroup \in [Links -> Groups]
    /\ \A t \in InitTrees :
          /\ DOMAIN t \subseteq Groups
          /\ \A g \in DOMAIN t : t[g] \in DOMAIN t \cup {Top}
          /\ InitLinks \subseteq {i \in Links : LinkGroup[i] \in DOMAIN t}
          /\ \A s \in InitStaff, g \in DOMAIN t : <<g, s.owner[g]>> \in s.admins
    /\ \A s \in InitStaff :
          /\ s.owner \in [Groups -> Users] /\ s.enabled \subseteq Users
          /\ s.admins \cup s.member \subseteq Groups \X Users
    /\ \A g \in Groups : Cardinality({i \in InitLinks \ Emailed : LinkGroup[i] = g}) <= MaxActive

\* The row locks p may be waiting for, with the mode it wants.
Wanted(p) ==
    CASE pc[p] \in {"lock", "clear"} /\ plan[p] # <<>> ->
            IF There(p, Head(plan[p])[1]) THEN {Head(plan[p])} ELSE {}
      [] pc[p] = "write" /\ Op(p) \in GroupOps -> {<<OfGroup(g), KeyShare>> : g \in Points(p)}
      [] OTHER           -> {}

WaitsFor(p, q) == \E w \in Wanted(p) : ~Compatible(held[q][w[1]], w[2])

WaitCycle(S) == \A p \in S : \E q \in S \ {p} : WaitsFor(p, q)

\* PostgreSQL ends a deadlock by aborting one of its transactions.
Abort(p) ==
    /\ \E S \in SUBSET Procs : p \in S /\ WaitCycle(S)
    /\ UNCHANGED tables
    /\ End(p, "aborted")

\* Every request is answered, or its user has yet to confirm an address.
Finished == (\A p \in Procs : pc[p] \in Answers \cup {"waiting"}) /\ UNCHANGED vars

Next == Finished \/ \E p \in Procs : GroupStep(p) \/ AdminStep(p) \/ Abort(p)

Init ==
    /\ \E t \in InitTrees : parent = [g \in Groups |-> IF g \in DOMAIN t THEN t[g] ELSE Top]
                            /\ exists = DOMAIN t
    /\ \E game \in Games : req \in [Procs -> game]
    /\ \A p \in Procs : Op(p) = "create" => G(p) \notin exists
    /\ \A p, q \in Procs : p # q /\ Op(p) = "create" /\ Op(q) = "create" => G(p) # G(q)
    /\ \A p, q \in Procs : p # q /\ Op(p) = "mint" /\ Op(q) = "mint" => X(p) # X(q)
    /\ \E s \in InitStaff :
          /\ owner = s.owner /\ enabled = s.enabled
          /\ admins = {m \in s.admins : m[1] \in exists}
          /\ member = {m \in s.admins \cup s.member : m[1] \in exists}
    /\ accounts = Users
    /\ links = InitLinks /\ active = InitLinks /\ used = {} /\ reserved = {}
    /\ home \in exists \cup {Top}
    /\ held = [p \in Procs |-> [r \in Rows |-> None]]
    /\ pc = [p \in Procs |-> "ask"]
    /\ seen = [p \in Procs |-> Top]
    /\ ids = [p \in Procs |-> {}] /\ joined = [p \in Procs |-> {}]
    /\ round = [p \in Procs |-> 1]
    /\ plan = [p \in Procs |-> <<>>]

Spec == Init /\ [][Next]_vars

-----------------------------------------------------------------------------
(* Properties.                                                              *)

\* Every variable has its type, and every foreign key points at a row.
TypeOK ==
    /\ exists \subseteq Groups
    /\ parent \in [Groups -> exists \cup {Top}]
    /\ accounts \subseteq Users /\ enabled \subseteq accounts
    /\ owner \in [Groups -> People]
    /\ member \subseteq exists \X (accounts \cup Procs) /\ admins \subseteq member
    /\ links \subseteq {i \in Links : LinkGroup[i] \in exists}
    /\ active \subseteq links /\ used \subseteq links
    /\ reserved \subseteq links \X Procs
    /\ home \in exists \cup {Top}
    /\ held \in [Procs -> [Rows -> Modes]]
    /\ req \in [Procs -> Requests]
    /\ pc \in [Procs -> {"ask", "walk", "count", "lock", "collect", "clear", "write", "waiting"} \cup Answers]
    /\ seen \in [Procs -> Groups \cup {Top} \cup People]
    /\ ids \in [Procs -> SUBSET (Groups \cup {Top} \cup People)]
    /\ joined \in [Procs -> SUBSET (Groups \X People)]
    /\ round \in [Procs -> 1 .. 3]
    /\ plan \in [Procs -> Seq(Rows \X Modes)]

\* No group comes to be above itself: the re-check under the chain's locks
\* refuses a move under the group's own subtree (_check_parent_change).
NoGroupAboveItself == Acyclic

\* Requests wait for one another only around a delete that found subgroups on
\* its second walk and locks those after higher keys (services.py:34-43).
OnlyRewalksDeadlock ==
    \A S \in (SUBSET Procs) \ {{}} :
        WaitCycle(S) => \E p \in S : Op(p) = "delete" /\ round[p] = 2

\* No request fails a foreign key at COMMIT: nothing is put into a group that a
\* delete is past reading, nor left behind in one (#1638, #1719).
NoIntegrityError == \A p \in Procs : pc[p] # "error"

\* A single-use link admits one user, and one that was revoked nobody: a join,
\* a sign-up, a confirmed reservation and a revoke of it exclude one another.
\* And concurrent mints give no group more unused links than the cap allows.
LinkLimits ==
    /\ \A i \in Links :
          Cardinality({p \in Procs : Op(p) \in LinkOps /\ X(p) = i /\ pc[p] = "ok"}) <= 1
    /\ \A g \in exists : Cardinality(Unused(g)) <= MaxActive

\* A request that does not send a parent writes back the group as it is when
\* it commits: it undoes no move, and brings no deleted group back.
OthersKeepTheTree ==
    [][\A p \in Procs : Op(p) \in {"rename", "defaults"} /\ pc'[p] = "ok" /\ pc[p] # "ok"
        => UNCHANGED <<exists, parent>>]_vars

\* Somebody was made an admin of g.
NewAdmins(g) ==
    \E p \in Procs : Op(p) \in {"promote", "handover"} /\ G(p) = g /\ pc[p] = "ok"

\* Whatever members, admins, transfers and account deletes do at once, a group
\* keeps an active admin if it had one, and an owner who is an admin of it and
\* has an account.  A deactivation may take the last active admin away, and so
\* may an account delete in a group with new admins: it lists the admins whose
\* accounts it locks before it waits for those locks.
AdministrationKept ==
    [][\A g \in exists' :
        /\ <<g, owner'[g]>> \in admins' /\ owner'[g] \in accounts' \cup Procs
        /\ g \in exists /\ ActiveAdmins(g) # {} /\ ActiveAdmins(g)' = {}
           => \/ accounts' = accounts /\ roles' = roles
              \/ accounts' # accounts /\ NewAdmins(g)]_vars
=============================================================================
