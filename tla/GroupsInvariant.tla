-------------------------- MODULE GroupsInvariant --------------------------
(***************************************************************************)
(* The inductive invariant of GroupRequests: what the row locks a request   *)
(* holds guarantee, statement by statement (GroupsInv, which TLC checks too),*)
(* and the order in which it takes its locks (QueueInv).  GroupProofs shows  *)
(* that every step keeps both and that they imply the properties.            *)
(***************************************************************************)
EXTENDS GroupRequests

Going == {"lock", "collect", "clear", "write"}  \* in its transaction, its rows listed

\* p holds row r in mode m at least, or has it in its plan.
Has(p, r, m) == held[p][r] >= m \/ <<r, m>> \in ToSet(plan[p])

-----------------------------------------------------------------------------
(* Of the tables, and between requests.                                     *)

LocksCompatible ==
    \A p, q \in Procs : p # q =>
        \A r \in Rows : Compatible(held[p][r], held[q][r])

\* The groups and the links that are still to be created.
Unborn   == {G(p) : p \in {q \in Procs : Op(q) = "create" /\ pc[q] # "ok"}}
Unminted == {X(p) : p \in {q \in Procs : Op(q) = "mint" /\ pc[q] # "ok"}}

Fresh ==
    /\ Unborn \cap exists = {} /\ Unminted \cap links = {}
    /\ \A p, q \in Procs : p # q => /\ Op(p) = "create" /\ Op(q) = "create" => G(p) # G(q)
                                    /\ Op(p) = "mint" /\ Op(q) = "mint" => X(p) # X(q)

\* A group that is gone has no parent; one that is there has an owner who is an
\* admin of it, and no more unused links than the cap allows.
GroupsInOrder ==
    /\ \A g \in Groups \ exists : parent[g] = Top
    /\ \A g \in exists : <<g, owner[g]>> \in admins
    /\ \A g \in exists : Cardinality(Unused(g)) <= MaxActive

\* Two requests were not granted on one link.
GrantedOnce ==
    \A p, q \in Procs :
        p # q /\ Op(p) \in LinkOps /\ Op(q) \in LinkOps /\ X(p) = X(q) => ~(pc[p] = "ok" /\ pc[q] = "ok")

-----------------------------------------------------------------------------
(* Of one request p.                                                        *)

\* A row that p holds is there: only its holder may remove it.
HeldThere(p) ==
    /\ \A g \in Groups : held[p][OfGroup(g)] # None => g \in exists
    /\ \A u \in Users : held[p][OfAccount(u)] # None => u \in accounts

\* The groups p has read of are not among those to be created: one that is gone
\* does not come back.
OldGroups(p) ==
    pc[p] \in {"walk"} \cup Going =>
        /\ Op(p) \in {"move", "delete", "rename"} => G(p) \notin Unborn
        /\ Op(p) \in {"move", "create"} => X(p) \notin Unborn
        /\ Walks(p) /\ pc[p] # "walk" => ids[p] \cap Unborn = {}

\* Those it walked are locked, or about to be, unless they are gone.
WalkLocked(p) ==
    Walks(p) /\ pc[p] \in Going =>
        \A k \in ids[p] \cap exists :
            held[p][OfGroup(k)] = Update
            \/ (pc[p] = "lock" /\ <<OfGroup(k), Update>> \in ToSet(plan[p]))

MoveReady(p) ==
    /\ Op(p) = "move" /\ pc[p] \in Going => G(p) \in ids[p]
    /\ Op(p) \in {"move", "create"} /\ pc[p] \in Going =>
          X(p) \in ids[p] \cup {Top} \/ X(p) \notin exists
    /\ Op(p) \in {"move", "create"} /\ pc[p] = "write" => X(p) \in exists \cup {Top}
    /\ Op(p) = "move" /\ pc[p] = "write" => G(p) \in exists

\* With a group of C a delete takes the ones below it.
Closed(C) == \A c \in exists : parent[c] \in C => c \in C

DeleteReady(p) ==
    Op(p) = "delete" =>
        /\ pc[p] = "lock" => G(p) \in ids[p]
        /\ pc[p] = "collect" => G(p) \in exists /\ \E C \in SUBSET ids[p] : G(p) \in C /\ Closed(C)
        /\ pc[p] = "clear" =>
              /\ ids[p] \subseteq exists /\ Closed(ids[p])
              /\ \A m \in joined[p] : m[1] \in ids[p]
              /\ \A m \in member : m[1] \in ids[p] => m \in joined[p]
              /\ \A i \in LinksOf(ids[p]) : Has(p, OfLink(i), Update)
              /\ home \in ids[p] => Has(p, BoardRow, NoKeyUpdate)

\* The rows of a request that needs no walk; a rename passes over a group that
\* is gone.
FixedOps == {"rename", "defaults", "mint", "place"} \cup LinkOps

FixedLocked(p) ==
    Op(p) \in FixedOps /\ pc[p] \in {"lock", "write"} =>
        \/ \A l \in ToSet(FixedLocks(p)) : Has(p, l[1], l[2])
        \/ Op(p) = "rename" /\ G(p) \notin exists /\ pc[p] = "lock"

\* What a request decided on is so until it commits.
SaveReady(p) == pc[p] = "write" /\ Op(p) \in {"rename", "defaults"} => seen[p] = parent[G(p)]
LinkReady(p) == pc[p] = "write" /\ Op(p) \in LinkOps => X(p) \in active \ used
MintReady(p) == pc[p] = "write" /\ Op(p) = "mint" => Cardinality(Unused(G(p))) < MaxActive

\* The link of a request is there or was, and is used up if it was granted.
LinkKnown(p) ==
    Op(p) \in LinkOps =>
        /\ pc[p] \notin {"ask", "gone"} => X(p) \notin Unminted
        /\ pc[p] = "ok" => X(p) \notin active \ used

\* The accounts it listed are locked, or about to be, unless they are gone.
AccountsLocked(p) ==
    Op(p) \in AdminOps /\ pc[p] \in Going =>
        /\ ids[p] \subseteq People
        /\ X(p) \in accounts => X(p) \in ids[p]
        /\ \A u \in ids[p] \cap accounts :
              held[p][OfAccount(u)] >= NoKeyUpdate
              \/ (pc[p] = "lock" /\ round[p] = 1 /\ <<OfAccount(u), NoKeyUpdate>> \in ToSet(plan[p]))
        /\ Op(p) \in MemberOps => Has(p, OfGroup(G(p)), NoKeyUpdate)
        /\ Op(p) \in Transfers => Has(p, OfGroup(G(p)), Update)

MemberReady(p) ==
    Op(p) \in MemberOps \cup Transfers /\ pc[p] = "write" =>
        /\ Membership(p) \in member
        /\ Op(p) \in {"demote", "remove"} =>
              /\ X(p) # owner[G(p)]
              /\ X(p) \in ActiveAdmins(G(p)) => \E u \in Counted(p) : u # X(p)
        /\ Op(p) \in Transfers => owner[G(p)] = seen[p]
        /\ Op(p) = "transfer" => Membership(p) \in admins

\* An account delete: what it listed, and its groups.
DismissReady(p) ==
    Op(p) = "dismiss" /\ pc[p] \in Going =>
        /\ \A g \in Administered(X(p)) : NewAdmins(g) \/ (AdminsOf(g) \cap Users) \subseteq ids[p]
        /\ round[p] = 2 => \A g \in Administered(X(p)) : Has(p, OfGroup(g), NoKeyUpdate)
        /\ round[p] = 3 => /\ \A g \in Administered(X(p)) : held[p][OfGroup(g)] >= NoKeyUpdate
                           /\ X(p) \in accounts => Has(p, OfAccount(X(p)), Update)
        /\ pc[p] = "write" =>
              /\ round[p] = 3
              /\ X(p) \in accounts => \A g \in exists : owner[g] # X(p)
              /\ \A g \in Administered(X(p)) :
                    NewAdmins(g) \/ \E u \in ActiveAdmins(g) : u # X(p)

\* Where a request may be.
Places(p) ==
    /\ pc[p] # "error"
    /\ Walks(p) => ids[p] \subseteq Groups
    /\ pc[p] \in {"write", "collect"} => plan[p] = <<>>
    /\ pc[p] = "walk" => Walks(p)
    /\ pc[p] \in {"collect", "clear"} => Op(p) = "delete"
    /\ pc[p] = "write" => Op(p) # "delete"
    /\ pc[p] = "waiting" => Op(p) = "enrol"
    /\ pc[p] = "count" => Op(p) \in AdminOps
    /\ Op(p) \in AdminOps /\ round[p] # 1 => Op(p) = "dismiss"
    /\ pc[p] \in {"ask", "count"} => round[p] = 1

Good(p) ==
    /\ HeldThere(p) /\ OldGroups(p) /\ WalkLocked(p) /\ MoveReady(p) /\ DeleteReady(p)
    /\ FixedLocked(p) /\ SaveReady(p) /\ LinkReady(p) /\ MintReady(p) /\ LinkKnown(p)
    /\ AccountsLocked(p) /\ MemberReady(p) /\ DismissReady(p) /\ Places(p)

GroupsInv ==
    /\ TypeOK /\ LocksCompatible /\ Fresh /\ GroupsInOrder /\ GrantedOnce
    /\ \A p \in Procs : Good(p)

-----------------------------------------------------------------------------
(* Of the order in which a request takes its locks.                         *)

Table(r) == CASE r[1] = "account" -> 1 [] r[1] = "group" -> 2 [] r[1] = "link" -> 3 [] OTHER -> 4

\* A row to lock before another: in an earlier table, or with a smaller key.
Before(r, s) == Table(r) < Table(s) \/ (Table(r) = Table(s) /\ Table(r) <= 2 /\ r[2] < s[2])

Rising(locks) == \A m, n \in DOMAIN locks : m < n => Before(locks[m][1], locks[n][1])

\* A delete that locks again, and a user delete that comes back to the account.
Returns(p) == (Op(p) = "delete" /\ round[p] = 2) \/ (Op(p) = "dismiss" /\ round[p] = 3)

LocksRise(p) ==
    pc[p] = "lock" /\ ~Returns(p) =>
        /\ Rising(plan[p])
        /\ \A r \in Rows, l \in ToSet(plan[p]) : held[p][r] # None => Before(r, l[1])

\* No locks are held outside a transaction; a request's first statement locks
\* rows of one table.
LocksBegin(p) ==
    /\ pc[p] \notin Going => \A r \in Rows : held[p][r] = None
    /\ Op(p) = "delete" /\ pc[p] \in {"lock", "collect"} =>
          /\ \A r \in Rows : held[p][r] # None => Table(r) = 2
          /\ \A l \in ToSet(plan[p]) : Table(l[1]) = 2
    /\ Op(p) = "dismiss" /\ pc[p] = "lock" /\ round[p] = 1 =>
          /\ \A r \in Rows : held[p][r] # None => Table(r) = 1
          /\ \A l \in ToSet(plan[p]) : Table(l[1]) = 1

\* A link is locked under its group.
LinksUnder(p) ==
    /\ \A i \in Links : held[p][OfLink(i)] # None => held[p][OfGroup(LinkGroup[i])] >= NoKeyUpdate
    /\ \A l \in ToSet(plan[p]), i \in Links :
          l[1] = OfLink(i) => /\ pc[p] = "lock" => Op(p) \in LinkOps /\ i = X(p)
                              /\ pc[p] = "clear" => LinkGroup[i] \in ids[p]

\* A delete takes the board's row last.
BoardLast(p) ==
    pc[p] = "clear" =>
        /\ \A n \in DOMAIN plan[p] : plan[p][n][1] = BoardRow => n = Len(plan[p])
        /\ held[p][BoardRow] # None => plan[p] = <<>>
        /\ \A l \in ToSet(plan[p]) : Table(l[1]) >= 3

\* Nobody shares an account.
AccountModes(p) ==
    /\ \A u \in Users : held[p][OfAccount(u)] \in {None, NoKeyUpdate, Update}
    /\ pc[p] \in {"lock", "clear"} =>
          \A l \in ToSet(plan[p]) : Table(l[1]) = 1 => l[2] \in {NoKeyUpdate, Update}

\* In its third round an account delete locks that account only.
LocksItself(p) ==
    Op(p) = "dismiss" /\ pc[p] = "lock" /\ round[p] = 3 =>
        \A l \in ToSet(plan[p]) : l[1] = OfAccount(X(p))

Queued(p) ==
    /\ LocksRise(p) /\ LocksBegin(p) /\ LinksUnder(p)
    /\ BoardLast(p) /\ AccountModes(p) /\ LocksItself(p)

QueueInv == \A p \in Procs : Queued(p)
=============================================================================
