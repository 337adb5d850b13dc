-------------------------- MODULE MCGroupRequests --------------------------
(***************************************************************************)
(* Instances of GroupRequests for TLC: three games of three requests each,   *)
(* on up to four groups, four links and four accounts, and the ring of four *)
(* moves.                                                                   *)
(***************************************************************************)
EXTENDS GroupsInvariant, TLC

ProcSymmetry == Permutations(Procs)

Do(op, g, x) == [op |-> op, g |-> g, x |-> x]

MCGroups == 1 .. 4
MCLinks == 1 .. 4
MCLinkGroup == 1 :> 1 @@ 2 :> 2 @@ 3 :> 2 @@ 4 :> 2
MCUsers == 1 .. 4

\* One admin for all the groups; or two or three with a member; or the owner of
\* group 1 deactivated, and a site admin as the owner of group 2.
Alone == [owner |-> [g \in 1 .. 4 |-> 1], admins |-> {<<g, 1>> : g \in 1 .. 4},
          member |-> {}, enabled |-> MCUsers]
Shared == [owner |-> (2 :> 3 @@ [g \in 1 .. 4 |-> 1]), member |-> {<<1, 3>>}, enabled |-> MCUsers,
           admins |-> {<<1, 1>>, <<1, 2>>, <<2, 3>>, <<2, 1>>, <<3, 1>>}]
OwnerLeft == [Shared EXCEPT !.enabled = {2, 3, 4}, !.owner[2] = 4,
                            !.admins = (@ \ {<<2, 3>>}) \cup {<<2, 4>>}]
MCStaff == {Alone, Shared, OwnerLeft}

\* Four moves that together would close a ring of four groups.
MCRing == {[g \in 1 .. 4 |-> Top]}
MCNoLinks == <<>>
MCRingRequests == {Do("move", g, (g % 4) + 1) : g \in 1 .. 4}

\* Three groups at the top, and a chain of three.
MCTrees == {[g \in 1 .. 3 |-> Top], 1 :> 2 @@ 2 :> 3 @@ 3 :> Top}
MCInitLinks == {1, 2}

MCTreeRequests ==
    {Do("move", m[1], m[2]) : m \in {n \in (1 .. 3) \X (0 .. 3) : n[1] # n[2]}} \cup {Do("create", 4, 1), Do("create", 4, 2)}
    \cup {Do("delete", 2, Top), Do("delete", 3, Top), Do("rename", 1, Top)}

MCLinkRequests ==
    {Do("redeem", 1, 1), Do("register", 1, 1), Do("enrol", 1, 1), Do("revoke", 1, 1),
     Do("redeem", 2, 2), Do("mint", 2, 3), Do("mint", 2, 4),
     Do("delete", 1, Top), Do("delete", 2, Top), Do("place", 1, 1), Do("place", 2, 2), Do("place", 2, Top),
     Do("move", 1, 2), Do("defaults", 1, Top), Do("rename", 1, Top)}

MCAdminRequests ==
    {Do("promote", 1, 3), Do("demote", 1, 2), Do("remove", 1, 2), Do("remove", 1, 1), Do("remove", 2, 1),
     Do("transfer", 1, 2), Do("handover", 1, 3), Do("delete", 1, Top)}
    \cup {Do("deactivate", Top, u) : u \in 1 .. 3} \cup {Do("dismiss", Top, u) : u \in 2 .. 3}

MCGames == {MCTreeRequests, MCLinkRequests, MCAdminRequests}
MCRingGames == {MCRingRequests}
MCRingStaff == {Alone}

\* Three requests on the tree, the board in no group; or on a link, a member or the
\* board of a group, the groups all at the top, the board in one that is deleted
\* or in none; or on admins and accounts.
MCGameInit ==
    /\ Init
    /\ \/ /\ home = Top /\ admins = {<<g, 1>> : g \in exists} /\ \A p \in Procs : req[p] \in MCTreeRequests
          /\ \A p, q \in Procs : p # q => req[p] # req[q]
       \/ /\ parent[1] = Top /\ admins = {<<g, 1>> : g \in exists} /\ \A p \in Procs : req[p] \in MCLinkRequests
          /\ home = Top \/ \E p \in Procs : Op(p) = "delete" /\ G(p) = home
       \/ parent[1] = Top /\ home = Top /\ owner[2] # 1 /\ \A p \in Procs : req[p] \in MCAdminRequests

MCGameSpec == MCGameInit /\ [][Next]_vars

MCRingSpec ==
    Init /\ (\A p, q \in Procs : p # q => req[p] # req[q]) /\ [][Next]_vars
=============================================================================
