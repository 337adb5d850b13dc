----------------------------- MODULE GroupTree -----------------------------
(***************************************************************************)
(* The tree of groups (groups/models.py Group.parent) and the walks over it *)
(* in groups/serializers.py and groups/services.py.  A group is its primary *)
(* key, which is what a row lock statement orders by.  The walks read what  *)
(* is committed; the deepest one a request makes is cut at MaxDepth levels  *)
(* (_GROUP_TRAVERSAL_MAX_DEPTH, 6 in the code).                             *)
(***************************************************************************)
EXTENDS Naturals, FiniteSets

CONSTANTS
    Groups,             \* primary keys of groups, those to be created too
    MaxDepth

ASSUME GroupTreeAssumption == Groups \subseteq Nat \ {0} /\ MaxDepth \in Nat \ {0}

VARIABLES
    exists,             \* the groups in the table
    parent              \* parent[g]: the group above g, or Top

\* Not a group: the parent of a group at the top.
Top == 0

\* The n-th group of the walk upwards that starts at g, Top once past a root.
Above(g) ==
    LET up[n \in Nat] == IF n = 0 THEN g
                         ELSE IF up[n - 1] = Top THEN Top ELSE parent[up[n - 1]]
    IN up

\* _ancestor_chain: g and the groups above it, as many as the cap allows, and
\* whether that reached a root.
Chain(g)       == {Above(g)[n] : n \in 0 .. MaxDepth - 1} \ {Top}
ReachedRoot(g) == Above(g)[MaxDepth] = Top
Level(g)       == Cardinality({n \in 0 .. MaxDepth - 1 : Above(g)[n] # Top})

\* The groups at most n levels below g, g included.
Within(g) ==
    LET down[n \in Nat] == IF n = 0 THEN {g}
                           ELSE down[n - 1] \cup {c \in exists : parent[c] \in down[n - 1]}
    IN down

\* _subtree_ids: the groups below g, and g itself whether or not it is there.
SubtreeIds(g) == Within(g)[Cardinality(Groups)]

\* _subtree_height(g, limit) <= limit.
HeightAtMost(g, limit) == Within(g)[limit + 1] = Within(g)[limit]

\* The rules of _check_parent_change for moving g under p: p is there, is not
\* in g's own subtree as far as its chain shows, and leaves room for g's height.
MayMove(g, p) ==
    \/ p = parent[g]
    \/ p = Top
    \/ /\ p \in exists
       /\ g \notin Chain(p)
       /\ ReachedRoot(p)
       /\ Level(p) + 1 <= MaxDepth
       /\ HeightAtMost(g, MaxDepth - (Level(p) + 1))

\* _check_create_depth, and for a top-level group nothing.
MayCreateUnder(p) ==
    \/ p = Top
    \/ p \in exists /\ ReachedRoot(p) /\ Level(p) + 1 <= MaxDepth

\* No group is above itself.
Acyclic == \A g \in exists : Above(g)[Cardinality(Groups)] = Top
=============================================================================
