---------------------------- MODULE GroupProofs ----------------------------
(***************************************************************************)
(* Proofs about GroupRequests, for any groups, links, accounts and requests *)
(* in flight.  A step of one request changes the tables only under its row  *)
(* locks (Effects), so it leaves alone what the locks of every other        *)
(* request guarantee (OthersGood), and each step keeps its own part of the  *)
(* invariant (StepKeeps).  The order in which requests take their locks is  *)
(* an invariant of its own (QueueInv), from which it follows which of them  *)
(* may deadlock.                                                            *)
(***************************************************************************)
EXTENDS GroupsInvariant, FiniteSetTheorems, TLAPS

-----------------------------------------------------------------------------
(* Walks and row lists: what the recursive definitions and the CHOOSEs yield. *)

\* A non-empty set of naturals has a least element.
LEMMA Least ==
    ASSUME NEW S \in SUBSET Nat, S # {}
    PROVE  \E n \in S : \A m \in S : n <= m
<1>1. PICK n \in S : \A m \in S : ~(<<m, n>> \in OpToRel(<, Nat))
  BY WFMin, NatLessThanWellFounded
<1>2. ASSUME NEW m \in S PROVE n <= m
  <2>1. ~(m < n)
    BY <1>1 DEF OpToRel
  <2> QED BY <2>1
<1> QED BY <1>2

\* A function may be iterated from a point.
LEMMA Iteration ==
    ASSUME NEW D, NEW a \in D, NEW s \in [D -> D]
    PROVE  \E f \in [Nat -> D] : f[0] = a /\ \A n \in Nat : f[n + 1] = s[f[n]]
<1> DEFINE Starts(n) == {h \in [0 .. n -> D] : h[0] = a /\ \A m \in 0 .. n - 1 : h[m + 1] = s[h[m]]}
<1>1. \A n \in Nat : Starts(n) # {}
  <2> DEFINE B == {n \in Nat : Starts(n) = {}}
  <2>1. SUFFICES ASSUME B # {} PROVE FALSE
    OBVIOUS
  <2>2. PICK n \in B : \A m \in B : n <= m
    <3> HIDE DEF B
    <3>1. B \in SUBSET Nat
      BY DEF B
    <3> QED BY <2>1, <3>1, Least
  <2>3. n \in Nat /\ Starts(n) = {} /\ B \in SUBSET Nat
    OBVIOUS
  <2>4. CASE n = 0
    <3>1. [m \in 0 .. 0 |-> a] \in Starts(0)
      OBVIOUS
    <3> QED BY <2>3, <2>4, <3>1
  <2>5. CASE n # 0
    <3>1. n - 1 \in Nat /\ n - 1 \notin B
      <4>1. n - 1 \in Nat /\ ~(n <= n - 1)
        BY <2>3, <2>5
      <4> HIDE DEF B
      <4> QED BY <2>2, <4>1
    <3>2. PICK h : h \in Starts(n - 1)
      BY <3>1
    <3> DEFINE j == [m \in 0 .. n |-> IF m = n THEN s[h[n - 1]] ELSE h[m]]
    <3>3. h \in [0 .. n - 1 -> D] /\ h[0] = a /\ \A m \in 0 .. n - 2 : h[m + 1] = s[h[m]]
      BY <3>1, <3>2
    <3>4. j \in [0 .. n -> D] /\ j[0] = a
      BY <2>3, <2>5, <3>1, <3>3
    <3>5. ASSUME NEW m \in 0 .. n - 1 PROVE j[m + 1] = s[j[m]]
      <4>1. CASE m = n - 1
        BY <2>3, <3>1, <4>1
      <4>2. CASE m # n - 1
        BY <2>3, <3>1, <3>3, <4>2
      <4> QED BY <4>1, <4>2
    <3> HIDE DEF j
    <3> QED BY <2>3, <3>4, <3>5
  <2> QED BY <2>4, <2>5
<1>2. ASSUME NEW m \in Nat, NEW n \in Nat, NEW g \in Starts(m), NEW h \in Starts(n), NEW k \in Nat,
             k <= m, k <= n
      PROVE  g[k] = h[k]
  <2> DEFINE B == {i \in 0 .. k : g[i] # h[i]}
  <2>1. SUFFICES ASSUME B # {} PROVE FALSE
    <3>1. k \in 0 .. k
      OBVIOUS
    <3> QED BY <3>1
  <2>2. PICK i \in B : \A j \in B : i <= j
    <3>1. B \in SUBSET Nat
      <4>1. 0 .. k \subseteq Nat
        OBVIOUS
      <4> QED BY <4>1
    <3> HIDE DEF B
    <3> QED BY <2>1, <3>1, Least
  <2>3. i \in 0 .. k /\ g[i] # h[i]
    OBVIOUS
  <2>4. i # 0
    BY <2>3
  <2>5. i - 1 \in 0 .. k /\ i - 1 \notin B
    BY <2>2, <2>3, <2>4
  <2>6. g[i - 1] = h[i - 1]
    BY <2>5
  <2>7. i - 1 \in 0 .. m - 1 /\ i - 1 \in 0 .. n - 1 /\ (i - 1) + 1 = i
    BY <1>2, <2>3, <2>4
  <2>8. g[(i - 1) + 1] = s[g[i - 1]] /\ h[(i - 1) + 1] = s[h[i - 1]]
    BY <2>7
  <2> QED BY <2>3, <2>6, <2>7, <2>8
<1> DEFINE at(n) == CHOOSE h : h \in Starts(n)
           f == [n \in Nat |-> at(n)[n]]
<1>3. \A n \in Nat : at(n) \in Starts(n)
  <2> HIDE DEF Starts
  <2> QED BY <1>1
<1>4. \A n \in Nat : at(n) \in [0 .. n -> D] /\ at(n)[0] = a /\ \A m \in 0 .. n - 1 : at(n)[m + 1] = s[at(n)[m]]
  <2> HIDE DEF at
  <2> QED BY <1>3
<1>5. f \in [Nat -> D] /\ f[0] = a
  <2> HIDE DEF at
  <2> QED BY <1>4
<1>6. ASSUME NEW n \in Nat PROVE f[n + 1] = s[f[n]]
  <2>1. n + 1 \in Nat /\ n <= n + 1 /\ n <= n /\ n \in 0 .. (n + 1) - 1
    OBVIOUS
  <2>2. at(n + 1)[n] = at(n)[n]
    <3> HIDE DEF at, Starts
    <3> QED BY <1>2, <1>3, <2>1
  <2>3. at(n + 1)[n + 1] = s[at(n + 1)[n]]
    <3> HIDE DEF at
    <3> QED BY <1>4, <2>1
  <2> HIDE DEF at
  <2> QED BY <2>1, <2>2, <2>3
<1> HIDE DEF f
<1> QED BY <1>5, <1>6

\* Where the walk up from g comes by.
LEMMA AboveSteps ==
    ASSUME NEW g \in Groups \cup {Top}
    PROVE  parent \in [Groups -> Groups \cup {Top}]
           => /\ Above(g)[0] = g
              /\ \A n \in Nat :
                    /\ Above(g)[n] \in Groups \cup {Top}
                    /\ Above(g)[n + 1] = IF Above(g)[n] = Top THEN Top ELSE parent[Above(g)[n]]
<1>p. HAVE parent \in [Groups -> Groups \cup {Top}]
<1> DEFINE D == Groups \cup {Top}
<1>s. PICK s : s = [x \in D |-> IF x = Top THEN Top ELSE parent[x]]
  OBVIOUS
<1>1. s \in [D -> D] /\ g \in D
  BY <1>p, <1>s, GroupTreeAssumption DEF Top
<1>2. PICK f \in [Nat -> D] : f[0] = g /\ \A n \in Nat : f[n + 1] = s[f[n]]
  <2> HIDE DEF D
  <2> QED BY <1>1, Iteration
<1> USE <1>p
<1> DEFINE Q(up) == up = [n \in Nat |-> IF n = 0 THEN g
                              ELSE IF up[n - 1] = Top THEN Top ELSE parent[up[n - 1]]]
<1>3. Q(f)
  <2>1. ASSUME NEW n \in Nat
        PROVE  f[n] = IF n = 0 THEN g ELSE IF f[n - 1] = Top THEN Top ELSE parent[f[n - 1]]
    <3>1. CASE n = 0
      BY <1>2, <3>1
    <3>2. CASE n # 0
      <4>1. n - 1 \in Nat /\ (n - 1) + 1 = n
        BY <3>2
      <4>2. f[n - 1] \in D
        BY <1>2, <4>1
      <4> QED BY <1>s, <1>2, <3>2, <4>1, <4>2
    <3> QED BY <3>1, <3>2
  <2> QED BY <2>1
<1>4. Above(g) = CHOOSE up : Q(up)
  BY DEF Above
<1>5. Q(Above(g))
  <2> HIDE DEF Q
  <2> QED BY <1>3, <1>4
<1> DEFINE up == Above(g)
<1>6. up[0] = g /\ \A n \in Nat : up[n + 1] = IF up[n] = Top THEN Top ELSE parent[up[n]]
  <2>1. \A n \in Nat : up[n] = IF n = 0 THEN g ELSE IF up[n - 1] = Top THEN Top ELSE parent[up[n - 1]]
    <3> HIDE DEF up
    <3> QED BY <1>5 DEF up
  <2> HIDE DEF up
  <2> QED BY <2>1
<1>7. \A n \in Nat : up[n] \in D
  <2> DEFINE B == {n \in Nat : up[n] \notin D}
  <2>1. SUFFICES ASSUME B # {} PROVE FALSE
    OBVIOUS
  <2>2. PICK n \in B : \A m \in B : n <= m
    <3>1. B \in SUBSET Nat
      OBVIOUS
    <3> HIDE DEF B
    <3> QED BY <2>1, <3>1, Least
  <2>3. n # 0
    <3> HIDE DEF up
    <3> QED BY <1>1, <1>6
  <2>4. n - 1 \in Nat /\ n - 1 \notin B /\ (n - 1) + 1 = n
    BY <2>2, <2>3
  <2>5. up[n - 1] \in D
    BY <2>4
  <2> HIDE DEF up
  <2> QED BY <1>6, <2>4, <2>5
<1> HIDE DEF up
<1> QED BY <1>6, <1>7 DEF up

\* The chain of a group has the group, and otherwise groups that are there.
LEMMA ChainFacts ==
    ASSUME exists \subseteq Groups, parent \in [Groups -> exists \cup {Top}], NEW x \in Groups \cup {Top}
    PROVE  /\ Chain(x) \subseteq exists \cup {x}
           /\ Chain(x) \subseteq Groups
           /\ x # Top => x \in Chain(x)
<1>1. parent \in [Groups -> Groups \cup {Top}]
  OBVIOUS
<1>2. /\ Above(x)[0] = x
      /\ \A n \in Nat : /\ Above(x)[n] \in Groups \cup {Top}
                        /\ Above(x)[n + 1] = IF Above(x)[n] = Top THEN Top ELSE parent[Above(x)[n]]
  BY <1>1, AboveSteps
<1>3. MaxDepth - 1 \in Nat /\ 0 \in 0 .. MaxDepth - 1 /\ 0 .. MaxDepth - 1 \subseteq Nat
  BY GroupTreeAssumption
<1>4. ASSUME NEW n \in Nat PROVE Above(x)[n] \in exists \cup {x, Top}
  <2>1. CASE n = 0
    BY <1>2, <2>1
  <2>2. CASE n # 0
    <3>1. n - 1 \in Nat /\ (n - 1) + 1 = n
      BY <2>2
    <3>2. Above(x)[n] = IF Above(x)[n - 1] = Top THEN Top ELSE parent[Above(x)[n - 1]]
      BY <1>2, <3>1
    <3>3. Above(x)[n - 1] \in Groups \cup {Top}
      BY <1>2, <3>1
    <3> QED BY <3>2, <3>3
  <2> QED BY <2>1, <2>2
<1> QED BY <1>2, <1>3, <1>4 DEF Chain

\* Induction on the naturals, for a set.
LEMMA SetInduction ==
    ASSUME NEW S, 0 \in S, \A n \in Nat : n \in S => n + 1 \in S
    PROVE  \A n \in Nat : n \in S
<1> DEFINE B == {n \in Nat : n \notin S}
<1>1. SUFFICES ASSUME B # {} PROVE FALSE
  OBVIOUS
<1>2. PICK n \in B : \A m \in B : n <= m
  <2>1. B \in SUBSET Nat
    OBVIOUS
  <2> HIDE DEF B
  <2> QED BY <1>1, <2>1, Least
<1>3. n \in Nat /\ n # 0 /\ n \notin S
  OBVIOUS
<1>4. n - 1 \in Nat /\ (n - 1) + 1 = n /\ ~(n <= n - 1)
  BY <1>3
<1>5. n - 1 \in S
  BY <1>2, <1>4
<1> QED BY <1>3, <1>4, <1>5

\* Where the walk down from g comes by.
LEMMA WithinSteps ==
    ASSUME NEW g
    PROVE  /\ Within(g)[0] = {g}
           /\ \A n \in Nat :
                /\ Within(g)[n] \subseteq exists \cup {g}
                /\ Within(g)[n + 1] = Within(g)[n] \cup {c \in exists : parent[c] \in Within(g)[n]}
<1> DEFINE D == SUBSET (exists \cup {g})
<1>s. PICK s : s = [W \in D |-> W \cup {c \in exists : parent[c] \in W}]
  OBVIOUS
<1>1. {g} \in D /\ s \in [D -> D]
  BY <1>s
<1>2. PICK f \in [Nat -> D] : f[0] = {g} /\ \A n \in Nat : f[n + 1] = s[f[n]]
  <2> HIDE DEF D
  <2> QED BY <1>1, Iteration
<1> DEFINE Q(down) == down = [n \in Nat |-> IF n = 0 THEN {g}
                                ELSE down[n - 1] \cup {c \in exists : parent[c] \in down[n - 1]}]
<1>3. Q(f)
  <2>1. ASSUME NEW n \in Nat
        PROVE  f[n] = IF n = 0 THEN {g} ELSE f[n - 1] \cup {c \in exists : parent[c] \in f[n - 1]}
    <3>1. CASE n = 0
      BY <1>2, <3>1
    <3>2. CASE n # 0
      <4>1. n - 1 \in Nat /\ (n - 1) + 1 = n
        BY <3>2
      <4>2. f[n - 1] \in D
        BY <1>2, <4>1
      <4> HIDE DEF D
      <4>3. s[f[n - 1]] = f[n - 1] \cup {c \in exists : parent[c] \in f[n - 1]}
        BY <1>s, <4>2
      <4> QED BY <1>2, <3>2, <4>1, <4>3
    <3> QED BY <3>1, <3>2
  <2> QED BY <1>2, <2>1
<1>4. Within(g) = CHOOSE down : Q(down)
  BY DEF Within
<1>5. Q(Within(g))
  <2> HIDE DEF Q
  <2> QED BY <1>3, <1>4
<1> DEFINE down == Within(g)
<1>6. down[0] = {g} /\ \A n \in Nat : down[n + 1] = down[n] \cup {c \in exists : parent[c] \in down[n]}
  <2>1. \A n \in Nat : down[n] = IF n = 0 THEN {g}
                                 ELSE down[n - 1] \cup {c \in exists : parent[c] \in down[n - 1]}
    <3> HIDE DEF down
    <3> QED BY <1>5 DEF down
  <2> HIDE DEF down
  <2>2. ASSUME NEW n \in Nat PROVE down[n + 1] = down[n] \cup {c \in exists : parent[c] \in down[n]}
    <3>1. n + 1 \in Nat /\ n + 1 # 0 /\ (n + 1) - 1 = n
      OBVIOUS
    <3> QED BY <2>1, <3>1
  <2> QED BY <2>1, <2>2
<1>7. \A n \in Nat : down[n] \subseteq exists \cup {g}
  <2> DEFINE I == {n \in Nat : down[n] \subseteq exists \cup {g}}
  <2> HIDE DEF down
  <2>1. 0 \in I
    BY <1>6
  <2>2. \A n \in Nat : n \in I => n + 1 \in I
    BY <1>6
  <2>3. \A n \in Nat : n \in I
    <3> HIDE DEF I
    <3> QED BY <2>1, <2>2, SetInduction
  <2> QED BY <2>3
<1> HIDE DEF down
<1> QED BY <1>6, <1>7 DEF down

\* The subtree of g has g and with a group those below it, and nothing else.
LEMMA SubtreeFacts ==
    ASSUME NEW g \in Groups
    PROVE  exists \subseteq Groups
           => /\ g \in SubtreeIds(g)
              /\ SubtreeIds(g) \subseteq exists \cup {g}
              /\ Closed(SubtreeIds(g))
              /\ \A C : g \in C /\ Closed(C) => SubtreeIds(g) \subseteq C
<1>p. HAVE exists \subseteq Groups
<1> DEFINE W(n) == Within(g)[n]
<1>1. /\ W(0) = {g}
      /\ \A n \in Nat : W(n) \subseteq exists \cup {g} /\ W(n + 1) = W(n) \cup {c \in exists : parent[c] \in W(n)}
  BY WithinSteps
<1>2. IsFiniteSet(Groups) /\ Cardinality(Groups) \in Nat
  BY FiniteAssumption, FS_CardinalityType
<1>3. SubtreeIds(g) = W(Cardinality(Groups))
  BY DEF SubtreeIds
<1> HIDE DEF W
<1>4. \A n \in Nat : IsFiniteSet(W(n)) /\ Cardinality(W(n)) \in Nat /\ Cardinality(W(n)) <= Cardinality(Groups)
  <2>1. ASSUME NEW n \in Nat PROVE W(n) \in SUBSET Groups
    BY <1>1, <1>p
  <2> QED BY <1>2, <2>1, FS_Subset, FS_CardinalityType
<1>5. \A n \in Nat : g \in W(n)
  <2> DEFINE I == {n \in Nat : g \in W(n)}
  <2>1. 0 \in I /\ \A n \in Nat : n \in I => n + 1 \in I
    BY <1>1
  <2> HIDE DEF I
  <2>2. \A n \in Nat : n \in I
    BY <2>1, SetInduction
  <2> QED BY <2>2 DEF I
<1>6. \A n \in Nat : Closed(W(n)) \/ Cardinality(W(n)) >= n + 1
  <2> DEFINE I == {n \in Nat : Closed(W(n)) \/ Cardinality(W(n)) >= n + 1}
  <2>1. 0 \in I
    <3>1. Cardinality({g}) = 1
      BY FS_Singleton
    <3> QED BY <1>1, <3>1
  <2>2. ASSUME NEW n \in Nat, n \in I PROVE n + 1 \in I
    <3>1. CASE Closed(W(n))
      <4>1. W(n + 1) = W(n)
        BY <1>1, <3>1 DEF Closed
      <4> QED BY <3>1, <4>1
    <3>2. CASE ~Closed(W(n))
      <4>1. Cardinality(W(n)) >= n + 1
        BY <2>2, <3>2
      <4>2. W(n) \in SUBSET W(n + 1) /\ W(n) # W(n + 1)
        BY <1>1, <3>2 DEF Closed
      <4>3. Cardinality(W(n)) < Cardinality(W(n + 1))
        BY <1>4, <4>2, FS_Subset
      <4> QED BY <1>4, <4>1, <4>3
    <3> QED BY <3>1, <3>2
  <2> HIDE DEF I
  <2>3. \A n \in Nat : n \in I
    BY <2>1, <2>2, SetInduction
  <2> QED BY <2>3 DEF I
<1>7. Closed(W(Cardinality(Groups)))
  BY <1>2, <1>4, <1>6
<1>8. ASSUME NEW C, g \in C, Closed(C) PROVE \A n \in Nat : W(n) \subseteq C
  <2> DEFINE I == {n \in Nat : W(n) \subseteq C}
  <2>1. 0 \in I
    BY <1>1, <1>8
  <2>2. \A n \in Nat : n \in I => n + 1 \in I
    BY <1>1, <1>8 DEF Closed
  <2> HIDE DEF I
  <2>3. \A n \in Nat : n \in I
    BY <2>1, <2>2, SetInduction
  <2> QED BY <2>3 DEF I
<1> QED BY <1>1, <1>2, <1>3, <1>5, <1>7, <1>8

\* An injection of the first naturals into a set as large reaches all of it.
LEMMA AllReached ==
    ASSUME NEW S, IsFiniteSet(S), NEW f \in [1 .. Cardinality(S) -> S], IsInjective(f)
    PROVE  \A x \in S : \E n \in 1 .. Cardinality(S) : f[n] = x
<1>1. f \in Injection(1 .. Cardinality(S), S)
  BY DEF Injection
<1>2. Cardinality(S) \in Nat /\ IsFiniteSet(1 .. Cardinality(S))
      /\ Cardinality(1 .. Cardinality(S)) = Cardinality(S)
  BY FS_CardinalityType, FS_Interval
<1>3. f \in Surjection(1 .. Cardinality(S), S)
  BY <1>1, <1>2, FS_Injection
<1> QED BY <1>3 DEF Surjection

\* A finite set of naturals can be listed in order.
LEMMA InOrder ==
    ASSUME NEW S, S \subseteq Nat, IsFiniteSet(S)
    PROVE  \E f \in [1 .. Cardinality(S) -> S] : \A m, n \in DOMAIN f : m < n => f[m] < f[n]
<1> DEFINE Listed(T, n) == \E f \in [1 .. n -> T] : \A i, j \in 1 .. n : i < j => f[i] < f[j]
           I == {n \in Nat : \A T \in SUBSET S : Cardinality(T) = n => Listed(T, n)}
<1>1. 0 \in I
  <2>1. ASSUME NEW T PROVE Listed(T, 0)
    <3>1. [i \in 1 .. 0 |-> i] \in [1 .. 0 -> T]
      OBVIOUS
    <3> QED BY <3>1
  <2> QED BY <2>1
<1>2. ASSUME NEW n \in Nat, n \in I PROVE n + 1 \in I
  <2>1. SUFFICES ASSUME NEW T \in SUBSET S, Cardinality(T) = n + 1 PROVE Listed(T, n + 1)
    OBVIOUS
  <2>2. IsFiniteSet(T) /\ T # {} /\ T \in SUBSET Nat
    <3>1. IsFiniteSet(T)
      BY FS_Subset
    <3>2. n + 1 # 0
      OBVIOUS
    <3> QED BY <2>1, <3>1, <3>2, FS_EmptySet
  <2>3. PICK k \in T : \A j \in T : k <= j
    BY <2>2, Least
  <2>4. Cardinality(T \ {k}) = n
    <3>1. Cardinality(T \ {k}) = Cardinality(T) - 1
      BY <2>2, FS_RemoveElement
    <3> QED BY <2>1, <3>1
  <2>5. T \ {k} \in SUBSET S
    OBVIOUS
  <2>6. PICK f \in [1 .. n -> T \ {k}] : \A i, j \in 1 .. n : i < j => f[i] < f[j]
    BY <1>2, <2>4, <2>5
  <2> DEFINE h == [i \in 1 .. n + 1 |-> IF i = 1 THEN k ELSE f[i - 1]]
  <2>7. h \in [1 .. n + 1 -> T]
    OBVIOUS
  <2>8. ASSUME NEW i \in 1 .. n + 1, NEW j \in 1 .. n + 1, i < j PROVE h[i] < h[j]
    <3>1. j - 1 \in 1 .. n /\ h[j] = f[j - 1]
      BY <2>8
    <3>2. f[j - 1] \in T \ {k}
      BY <3>1
    <3>3. CASE i = 1
      <4>1. k <= f[j - 1] /\ k # f[j - 1] /\ k \in Nat /\ f[j - 1] \in Nat
        BY <2>2, <2>3, <3>2
      <4> QED BY <3>1, <3>3, <4>1
    <3>4. CASE i # 1
      <4>1. i - 1 \in 1 .. n /\ h[i] = f[i - 1] /\ i - 1 < j - 1
        BY <2>8, <3>4
      <4> QED BY <2>6, <3>1, <4>1
    <3> QED BY <3>3, <3>4
  <2> HIDE DEF h
  <2> QED BY <2>7, <2>8
<1>3. Cardinality(S) \in I
  <2> HIDE DEF I
  <2>1. \A n \in Nat : n \in I
    BY <1>1, <1>2, SetInduction
  <2> QED BY <2>1, FS_CardinalityType
<1>4. PICK f \in [1 .. Cardinality(S) -> S] : \A i, j \in 1 .. Cardinality(S) : i < j => f[i] < f[j]
  BY <1>3
<1> QED BY <1>4

\* One statement takes just the rows with the keys it names.
LEMMA ByPkFacts ==
    ASSUME NEW ks, ks \subseteq Nat, IsFiniteSet(ks), NEW table, NEW mode
    PROVE  /\ ByPk(table, ks, mode) \in Seq({<<<<table, k>>, mode>> : k \in ks})
           /\ ToSet(ByPk(table, ks, mode)) = {<<<<table, k>>, mode>> : k \in ks}
<1> DEFINE Q(f) == f \in [1 .. Cardinality(ks) -> ks] /\ \A m, n \in DOMAIN f : m < n => f[m] < f[n]
           order == CHOOSE f : Q(f)
           rows == {<<<<table, k>>, mode>> : k \in ks}
<1>1. \E f : Q(f)
  BY InOrder
<1>2. Q(order)
  <2> HIDE DEF Q
  <2> QED BY <1>1
<1>3. ByPk(table, ks, mode) = [n \in DOMAIN order |-> <<<<table, order[n]>>, mode>>]
  BY DEF ByPk
<1> HIDE DEF order
<1>4. Cardinality(ks) \in Nat
  BY FS_CardinalityType
<1>5. IsInjective(order)
  <2>1. SUFFICES ASSUME NEW m \in DOMAIN order, NEW n \in DOMAIN order, order[m] = order[n] PROVE m = n
    BY DEF IsInjective
  <2>2. order[m] \in Nat /\ order[n] \in Nat /\ m \in Int /\ n \in Int
    <3>1. m \in 1 .. Cardinality(ks) /\ n \in 1 .. Cardinality(ks)
      BY <1>2
    <3>2. order[m] \in ks /\ order[n] \in ks
      BY <1>2, <3>1
    <3>3. order[m] \in Nat /\ order[n] \in Nat
      BY <3>2
    <3>4. m \in Int /\ n \in Int
      BY <1>4, <3>1
    <3> QED BY <3>3, <3>4
  <2>3. ~(m < n) /\ ~(n < m)
    BY <1>2, <2>1, <2>2
  <2> QED BY <2>2, <2>3
<1>6. \A k \in ks : \E n \in 1 .. Cardinality(ks) : order[n] = k
  BY <1>2, <1>5, AllReached
<1>7. ByPk(table, ks, mode) \in [1 .. Cardinality(ks) -> rows]
  BY <1>2, <1>3
<1>8. ASSUME NEW k \in ks PROVE <<<<table, k>>, mode>> \in ToSet(ByPk(table, ks, mode))
  BY <1>2, <1>3, <1>6 DEF ToSet
<1>9. ASSUME NEW r \in ToSet(ByPk(table, ks, mode)) PROVE r \in rows
  BY <1>2, <1>3 DEF ToSet
<1> QED BY <1>4, <1>7, <1>8, <1>9

\* The collector takes all the links it has found.
LEMMA SetToSeqFacts ==
    ASSUME NEW S, IsFiniteSet(S)
    PROVE  /\ SetToSeq(S) \in Seq(S)
           /\ \A x \in S : \E n \in DOMAIN SetToSeq(S) : SetToSeq(S)[n] = x
<1>1. Cardinality(S) \in Nat /\ ExistsBijection(1 .. Cardinality(S), S)
  BY FS_CardinalityType
<1>2. \E f \in [1 .. Cardinality(S) -> S] : IsInjective(f)
  BY <1>1 DEF ExistsBijection, Bijection, Injection
<1>3. SetToSeq(S) \in [1 .. Cardinality(S) -> S] /\ IsInjective(SetToSeq(S))
  BY <1>2 DEF SetToSeq
<1> QED BY <1>1, <1>3, AllReached

\* What is in a plan of no, one or two locks.
LEMMA ShortSeqs ==
    \A a, b : ToSet(<<>>) = {} /\ ToSet(<<a>>) = {a} /\ ToSet(<<a, b>>) = {a, b}
<1>1. ASSUME NEW a, NEW b PROVE ToSet(<<a, b>>) = {a, b}
  <2>1. DOMAIN <<a, b>> = {1, 2} /\ <<a, b>>[1] = a /\ <<a, b>>[2] = b
    OBVIOUS
  <2> QED BY <2>1 DEF ToSet
<1>2. ASSUME NEW a PROVE ToSet(<<a>>) = {a}
  <2>1. DOMAIN <<a>> = {1} /\ <<a>>[1] = a
    OBVIOUS
  <2> QED BY <2>1 DEF ToSet
<1>3. ToSet(<<>>) = {}
  BY DEF ToSet
<1> QED BY <1>1, <1>2, <1>3

\* What is in one plan is in the two put together.
LEMMA Joined ==
    ASSUME NEW T, NEW s \in Seq(T), NEW t \in Seq(T)
    PROVE  s \o t \in Seq(T) /\ ToSet(s) \cup ToSet(t) \subseteq ToSet(s \o t)
<1>1. /\ s \o t \in Seq(T) /\ Len(s) \in Nat /\ Len(t) \in Nat
      /\ DOMAIN s = 1 .. Len(s) /\ DOMAIN t = 1 .. Len(t) /\ DOMAIN (s \o t) = 1 .. Len(s) + Len(t)
      /\ \A i \in 1 .. Len(s) : (s \o t)[i] = s[i]
      /\ \A i \in 1 .. Len(t) : (s \o t)[Len(s) + i] = t[i]
  OBVIOUS
<1>2. ASSUME NEW i \in DOMAIN s PROVE s[i] \in ToSet(s \o t)
  <2>1. i \in DOMAIN (s \o t) /\ (s \o t)[i] = s[i]
    BY <1>1
  <2> QED BY <2>1 DEF ToSet
<1>3. ASSUME NEW i \in DOMAIN t PROVE t[i] \in ToSet(s \o t)
  <2>1. Len(s) + i \in DOMAIN (s \o t) /\ (s \o t)[Len(s) + i] = t[i]
    BY <1>1
  <2> QED BY <2>1 DEF ToSet
<1> QED BY <1>1, <1>2, <1>3 DEF ToSet

-----------------------------------------------------------------------------
(* The shape of a step.                                                     *)

Pcs == {"ask", "walk", "count", "lock", "collect", "clear", "write", "waiting"} \cup Answers

\* The type of the tables, and that of one request's variables.
TablesOK ==
    /\ exists \subseteq Groups
    /\ parent \in [Groups -> exists \cup {Top}]
    /\ accounts \subseteq Users /\ enabled \subseteq accounts
    /\ owner \in [Groups -> People]
    /\ member \subseteq exists \X (accounts \cup Procs) /\ admins \subseteq member
    /\ links \subseteq {i \in Links : LinkGroup[i] \in exists}
    /\ active \subseteq links /\ used \subseteq links
    /\ reserved \subseteq links \X Procs
    /\ home \in exists \cup {Top}

RequestOK(p) ==
    /\ held[p] \in [Rows -> Modes]
    /\ pc[p] \in Pcs
    /\ seen[p] \in Groups \cup {Top} \cup People
    /\ ids[p] \in SUBSET (Groups \cup {Top} \cup People)
    /\ joined[p] \in SUBSET (Groups \X People)
    /\ round[p] \in 1 .. 3
    /\ plan[p] \in Seq(Rows \X Modes)

\* A step of p leaves the variables of the other requests alone.
Own(p) ==
    /\ req' = req
    /\ held' = [held EXCEPT ![p] = held'[p]]
    /\ pc' = [pc EXCEPT ![p] = pc'[p]]
    /\ seen' = [seen EXCEPT ![p] = seen'[p]]
    /\ ids' = [ids EXCEPT ![p] = ids'[p]]
    /\ joined' = [joined EXCEPT ![p] = joined'[p]]
    /\ round' = [round EXCEPT ![p] = round'[p]]
    /\ plan' = [plan EXCEPT ![p] = plan'[p]]

\* The locks under which a step of p changes the tree and the board,
TreeEffects(p) ==
    /\ \A g \in exists \ exists' : held[p][OfGroup(g)] = Update
    /\ \A g \in exists' \ exists :
          Op(p) = "create" /\ g = G(p) /\ pc'[p] = "ok" /\ owner'[g] \notin Users
    /\ \A g \in exists' :
          parent'[g] # parent[g] \/ g \notin exists =>
              /\ g \in exists => held[p][OfGroup(g)] = Update
              /\ parent'[g] = Top \/ held[p][OfGroup(parent'[g])] = Update
    /\ home' # home => home' = Top \/ held[p][OfGroup(home')] # None

\* the links,
LinkEffects(p) ==
    /\ pc'[p] = "ok" /\ Op(p) \in LinkOps => X(p) \in active \ used
    /\ \A i \in links' \ links :
          Op(p) = "mint" /\ i = X(p) /\ pc'[p] = "ok" /\ held[p][OfGroup(G(p))] >= NoKeyUpdate
    /\ active' \ active \subseteq links' \ links
    /\ used \ used' \subseteq links \ links'
    /\ \A i \in (active \ active') \cup (used' \ used) : held[p][OfLink(i)] = Update

\* and the members, their roles and their accounts.
Unseats(p, m) ==
    held[p][OfGroup(m[1])] >= NoKeyUpdate \/ (m[2] \in Users /\ held[p][OfAccount(m[2])] = Update)

PeopleEffects(p) ==
    /\ \A m \in member' \ member : m[1] \in exists => held[p][OfGroup(m[1])] >= NoKeyUpdate
    /\ \A m \in (member \ member') \cup (admins \ admins') : Unseats(p, m)
    /\ \A m \in admins' \ admins :
          /\ m[1] \in exists => held[p][OfGroup(m[1])] >= NoKeyUpdate
          /\ m[2] \in Users => /\ held[p][OfAccount(m[2])] >= NoKeyUpdate
                               /\ Op(p) \in {"promote", "handover"} /\ G(p) = m[1] /\ pc'[p] = "ok"
    /\ \A g \in exists :
          owner'[g] # owner[g] =>
              /\ held[p][OfGroup(g)] = Update
              /\ owner'[g] \in Users => held[p][OfAccount(owner'[g])] >= NoKeyUpdate
    /\ accounts' \subseteq accounts /\ enabled' \subseteq enabled
    /\ \A u \in accounts \ accounts' : held[p][OfAccount(u)] = Update
    /\ \A u \in enabled \ enabled' : held[p][OfAccount(u)] >= NoKeyUpdate

Effects(p) == pc[p] \notin Answers /\ TreeEffects(p) /\ LinkEffects(p) /\ PeopleEffects(p)

\* p takes a lock only where no other request's is in its way.
LockStep(p) ==
    \A r \in Rows : \A q \in Procs :
        q # p /\ held'[p][r] # held[p][r] => Compatible(held[q][r], held'[p][r])

\* What p holds or has in its plan after the step.
WillHave(p, r, m) == held'[p][r] >= m \/ <<r, m>> \in ToSet(plan'[p])

-----------------------------------------------------------------------------

\* The type invariant, of the tables and of each request.
LEMMA TypeParts ==
    TypeOK => TablesOK /\ \A p \in Procs : RequestOK(p) /\ req[p] \in Requests
BY DEF TypeOK, TablesOK, RequestOK, Pcs

\* A step of p has only the tables and its own variables to type.
LEMMA OwnType ==
    ASSUME NEW p \in Procs, TypeOK, Own(p), TablesOK', RequestOK(p)'
    PROVE  TypeOK'
<1>1. req' \in [Procs -> Requests]
  BY DEF TypeOK, Own
<1>2. held' \in [Procs -> [Rows -> Modes]]
  BY DEF TypeOK, Own, RequestOK
<1>3. pc' \in [Procs -> Pcs]
  BY DEF TypeOK, Own, RequestOK, Pcs
<1>4. seen' \in [Procs -> Groups \cup {Top} \cup People]
  BY DEF TypeOK, Own, RequestOK
<1>5. ids' \in [Procs -> SUBSET (Groups \cup {Top} \cup People)]
  BY DEF TypeOK, Own, RequestOK
<1>6. joined' \in [Procs -> SUBSET (Groups \X People)]
  BY DEF TypeOK, Own, RequestOK
<1>7. round' \in [Procs -> 1 .. 3]
  BY DEF TypeOK, Own, RequestOK
<1>8. plan' \in [Procs -> Seq(Rows \X Modes)]
  BY DEF TypeOK, Own, RequestOK
<1> QED BY <1>1, <1>2, <1>3, <1>4, <1>5, <1>6, <1>7, <1>8 DEF TypeOK, TablesOK, Pcs

\* What p's step leaves alone.
LEMMA OwnOthers ==
    ASSUME NEW p \in Procs, TypeOK, Own(p)
    PROVE  /\ \A q \in Procs : Op(q)' = Op(q) /\ G(q)' = G(q) /\ X(q)' = X(q) /\ req'[q] = req[q]
           /\ \A q \in Procs : q # p => /\ held'[q] = held[q] /\ pc'[q] = pc[q] /\ seen'[q] = seen[q]
                                        /\ ids'[q] = ids[q] /\ joined'[q] = joined[q]
                                        /\ round'[q] = round[q] /\ plan'[q] = plan[q]
BY DEF TypeOK, Own, Op, G, X

\* The rows of the four tables are told apart.
LEMMA RowFacts ==
    /\ \A g \in Groups : OfGroup(g) \in Rows
    /\ \A i \in Links : OfLink(i) \in Rows
    /\ \A u \in Users : OfAccount(u) \in Rows
    /\ BoardRow \in Rows
    /\ \A a, b : /\ OfGroup(a) = OfGroup(b) => a = b
                 /\ OfLink(a) = OfLink(b) => a = b
                 /\ OfAccount(a) = OfAccount(b) => a = b
                 /\ OfGroup(a) # OfLink(b) /\ OfGroup(a) # OfAccount(b) /\ OfLink(a) # OfAccount(b)
                 /\ OfGroup(a) # BoardRow /\ OfLink(a) # BoardRow /\ OfAccount(a) # BoardRow
BY DEF Rows, OfGroup, OfLink, OfAccount, BoardRow

\* Locks that exclude one another.
LEMMA Apart ==
    ASSUME TypeOK, LocksCompatible, NEW p \in Procs, NEW q \in Procs, p # q, NEW r \in Rows
    PROVE  /\ held[p][r] = Update => held[q][r] = None
           /\ held[p][r] >= NoKeyUpdate => ~(held[q][r] >= NoKeyUpdate)
           /\ held[p][r] # None => held[q][r] # Update
<1>1. held[p][r] \in Modes /\ held[q][r] \in Modes
  BY DEF TypeOK
<1>2. held[p][r] + held[q][r] < 5
  BY DEF LocksCompatible, Compatible
<1> QED BY <1>1, <1>2 DEF Modes, None, Update, NoKeyUpdate

\* The order of the lock modes.
LEMMA ModeFacts ==
    /\ Update >= NoKeyUpdate /\ Update # None /\ ~(None >= NoKeyUpdate)
    /\ \A m \in Modes : /\ m >= Update => m = Update
                        /\ m >= NoKeyUpdate => m # None
                        /\ m >= KeyShare => m # None
BY DEF Modes, None, KeyShare, NoKeyUpdate, Update

\* What p's request names.
LEMMA Named ==
    ASSUME TypeOK, NEW p \in Procs
    PROVE  /\ Op(p) \in GroupOps \cup AdminOps
           /\ Op(p) \in GroupOps \cup MemberOps \cup Transfers => G(p) \in Groups
           /\ Op(p) \in {"move", "create", "place"} => X(p) \in Groups \cup {Top}
           /\ Op(p) \in LinkOps \cup {"mint"} => X(p) \in Links /\ LinkGroup[X(p)] = G(p)
           /\ Op(p) \in AdminOps => X(p) \in Users
<1>1. req[p] \in Requests
  BY DEF TypeOK
<1> QED BY <1>1, RequestAssumption DEF Sensible, Op, G, X

\* The operations are told apart by name.
LEMMA Kinds ==
    /\ GroupOps \cap AdminOps = {}
    /\ "dismiss" \notin MemberOps \cup Transfers /\ MemberOps \cap Transfers = {}
    /\ MemberOps \cup Transfers \cup {"deactivate", "dismiss"} = AdminOps
    /\ LinkOps \subseteq GroupOps /\ LinkOps \subseteq FixedOps /\ FixedOps \subseteq GroupOps
    /\ {"move", "create", "delete"} \cap FixedOps = {} /\ "mint" \notin LinkOps
    /\ FixedOps \cup {"move", "create", "delete"} = GroupOps
BY DEF GroupOps, AdminOps, MemberOps, Transfers, LinkOps, SignUps, FixedOps

\* What was answered stays answered.
LEMMA Progress ==
    ASSUME NEW p \in Procs, TypeOK, Own(p), pc[p] \notin Answers
    PROVE  /\ Unborn' \subseteq Unborn /\ Unminted' \subseteq Unminted
           /\ \A g : NewAdmins(g) => NewAdmins(g)'
           /\ \A q \in Procs : pc[q] = "ok" => pc'[q] = "ok"
<1>1. \A q \in Procs : Op(q)' = Op(q) /\ G(q)' = G(q) /\ X(q)' = X(q) /\ (q # p => pc'[q] = pc[q])
  BY OwnOthers
<1>2. pc[p] # "ok"
  BY DEF Answers
<1>3. \A q \in Procs : pc[q] = "ok" => pc'[q] = "ok"
  BY <1>1, <1>2
<1> QED BY <1>1, <1>3 DEF Unborn, Unminted, NewAdmins

\* What another request's invariant says of its own variables is as before.
LEMMA Untouched ==
    ASSUME NEW p \in Procs, NEW q \in Procs, p # q, TypeOK, Own(p)
    PROVE  /\ Op(q)' = Op(q) /\ G(q)' = G(q) /\ X(q)' = X(q) /\ held'[q] = held[q] /\ pc'[q] = pc[q]
           /\ seen'[q] = seen[q] /\ ids'[q] = ids[q] /\ joined'[q] = joined[q]
           /\ round'[q] = round[q] /\ plan'[q] = plan[q]
           /\ FixedLocks(q)' = FixedLocks(q) /\ Membership(q)' = Membership(q)
           /\ Walks(q)' <=> Walks(q)
           /\ \A r, m : Has(q, r, m)' <=> Has(q, r, m)
<1>1. /\ Op(q)' = Op(q) /\ G(q)' = G(q) /\ X(q)' = X(q) /\ held'[q] = held[q] /\ pc'[q] = pc[q]
      /\ seen'[q] = seen[q] /\ ids'[q] = ids[q] /\ joined'[q] = joined[q]
      /\ round'[q] = round[q] /\ plan'[q] = plan[q]
  BY OwnOthers
<1>2. FixedLocks(q)' = FixedLocks(q) /\ Membership(q)' = Membership(q) /\ (Walks(q)' <=> Walks(q))
  BY <1>1 DEF FixedLocks, Membership, Walks
<1>3. \A r, m : Has(q, r, m)' <=> Has(q, r, m)
  BY <1>1 DEF Has
<1> QED BY <1>1, <1>2, <1>3

\* The groups and accounts another request has locked stay as they are.
LEMMA OthersRows ==
    ASSUME NEW p \in Procs, NEW q \in Procs, p # q, GroupsInv, Own(p), Effects(p)
    PROVE  /\ HeldThere(q)'
           /\ \A g \in Groups : held[q][OfGroup(g)] # None => g \in exists /\ g \in exists'
           /\ \A g \in Groups : held[q][OfGroup(g)] # None =>
                 ~(parent'[g] # parent[g])
           /\ \A g \in Groups : held[q][OfGroup(g)] >= NoKeyUpdate => ~(held[p][OfGroup(g)] >= NoKeyUpdate)
           /\ \A g \in Groups : held[q][OfGroup(g)] = Update => held[p][OfGroup(g)] = None
           /\ \A u \in Users : held[q][OfAccount(u)] >= NoKeyUpdate =>
                 ~(held[p][OfAccount(u)] >= NoKeyUpdate) /\ held[p][OfAccount(u)] # Update
           /\ \A i \in Links : held[q][OfLink(i)] = Update => held[p][OfLink(i)] # Update
<1>1. TypeOK /\ LocksCompatible /\ HeldThere(q)
  BY DEF GroupsInv, Good
<1>2. /\ \A g \in Groups : OfGroup(g) \in Rows
      /\ \A i \in Links : OfLink(i) \in Rows
      /\ \A u \in Users : OfAccount(u) \in Rows
  BY RowFacts
<1>3. held'[q] = held[q]
  BY <1>1, Untouched
<1>4. \A r \in Rows : /\ held[p][r] = Update => held[q][r] = None
                      /\ held[q][r] = Update => held[p][r] = None
                      /\ held[q][r] # None => held[p][r] # Update
                      /\ held[q][r] >= NoKeyUpdate => ~(held[p][r] >= NoKeyUpdate)
  BY <1>1, Apart
<1>5. \A g \in Groups : held[q][OfGroup(g)] # None => g \in exists /\ g \in exists'
  BY <1>1, <1>2, <1>4 DEF HeldThere, Effects, TreeEffects
<1>6. \A u \in Users : held[q][OfAccount(u)] # None => u \in accounts'
  BY <1>1, <1>2, <1>4 DEF HeldThere, Effects, PeopleEffects
<1>7. HeldThere(q)'
  BY <1>3, <1>5, <1>6 DEF HeldThere
<1>8. \A g \in Groups : held[q][OfGroup(g)] # None => ~(parent'[g] # parent[g])
  BY <1>2, <1>4, <1>5 DEF Effects, TreeEffects
<1>9. \A u \in Users : held[q][OfAccount(u)] >= NoKeyUpdate =>
                 ~(held[p][OfAccount(u)] >= NoKeyUpdate) /\ held[p][OfAccount(u)] # Update
  BY <1>2, <1>4, ModeFacts
<1>10. \A i \in Links : held[q][OfLink(i)] = Update => held[p][OfLink(i)] # Update
  BY <1>2, <1>4, ModeFacts
<1> QED BY <1>2, <1>4, <1>5, <1>7, <1>8, <1>9, <1>10

\* The walks and checks of another request hold good.
LEMMA OthersTree ==
    ASSUME NEW p \in Procs, NEW q \in Procs, p # q, GroupsInv, Own(p), Effects(p), TablesOK'
    PROVE  OldGroups(q)' /\ WalkLocked(q)' /\ MoveReady(q)' /\ SaveReady(q)' /\ FixedLocked(q)' /\ Places(q)'
<1>1. /\ TypeOK /\ LocksCompatible /\ HeldThere(q) /\ Fresh
      /\ OldGroups(q) /\ WalkLocked(q) /\ MoveReady(q) /\ SaveReady(q) /\ FixedLocked(q) /\ Places(q)
  BY DEF GroupsInv, Good
<1>2. /\ Op(q)' = Op(q) /\ G(q)' = G(q) /\ X(q)' = X(q) /\ held'[q] = held[q] /\ pc'[q] = pc[q]
      /\ seen'[q] = seen[q] /\ ids'[q] = ids[q] /\ joined'[q] = joined[q]
      /\ round'[q] = round[q] /\ plan'[q] = plan[q]
      /\ FixedLocks(q)' = FixedLocks(q) /\ (Walks(q)' <=> Walks(q))
      /\ \A r, m : Has(q, r, m)' <=> Has(q, r, m)
  BY <1>1, Untouched
<1>3. Unborn' \subseteq Unborn
  BY <1>1, Progress DEF Effects
<1>4. OldGroups(q)'
  BY <1>1, <1>2, <1>3 DEF OldGroups
<1>5. \A g \in exists' \ exists : g \in Unborn /\ g \in Groups
  BY DEF Effects, TreeEffects, Unborn, Answers, TablesOK
<1>6. WalkLocked(q)'
  BY <1>1, <1>2, <1>5 DEF WalkLocked, OldGroups, Walks, Going
<1>7. \A g \in Groups : held[q][OfGroup(g)] # None => g \in exists' /\ ~(parent'[g] # parent[g])
  BY OthersRows
<1>8. \A k \in ids[q] \cap exists : Walks(q) /\ pc[q] = "write" => k \in exists' /\ ~(parent'[k] # parent[k])
  BY <1>1, <1>7, ModeFacts DEF WalkLocked, Going, TypeOK
<1>9. MoveReady(q)'
  BY <1>1, <1>2, <1>5, <1>8 DEF MoveReady, OldGroups, Going, Walks
<1>10. SaveReady(q)' /\ FixedLocked(q)'
  <2>1. ASSUME pc[q] = "write", Op(q) \in {"rename", "defaults"}
        PROVE  held[q][OfGroup(G(q))] # None /\ G(q) \in Groups
    <3>1. plan[q] = <<>> /\ Op(q) \in FixedOps
      BY <1>1, <2>1 DEF Places, FixedOps
    <3>2. Has(q, OfGroup(G(q)), NoKeyUpdate) \/ Has(q, OfGroup(G(q)), Update)
      BY <1>1, <2>1, <3>1 DEF FixedLocked, FixedLocks, ToSet
    <3>3. G(q) \in Groups
      BY <1>1, <2>1, Named DEF GroupOps
    <3>4. held[q][OfGroup(G(q))] \in Modes
      BY <1>1, <3>3, RowFacts DEF TypeOK
    <3> QED BY <3>1, <3>2, <3>3, <3>4, ModeFacts DEF Has, ToSet
  <2>2. SaveReady(q)'
    BY <1>1, <1>2, <1>7, <2>1 DEF SaveReady
  <2>3. FixedLocked(q)'
    BY <1>1, <1>2, <1>5 DEF FixedLocked, OldGroups, Going
  <2> QED BY <2>2, <2>3
<1>11. Places(q)'
  BY <1>1, <1>2 DEF Places, Going
<1> QED BY <1>4, <1>6, <1>9, <1>10, <1>11

\* The group a request has locked to write below it, held.
LEMMA LockedFixed ==
    ASSUME NEW q \in Procs, TypeOK, FixedLocked(q), Places(q), pc[q] = "write",
           Op(q) \in {"defaults", "mint"} \cup LinkOps
    PROVE  /\ held[q][OfGroup(G(q))] >= NoKeyUpdate
           /\ Op(q) \in LinkOps => held[q][OfLink(X(q))] = Update
<1>1. plan[q] = <<>> /\ Op(q) \in FixedOps /\ Op(q) # "rename"
  BY Kinds DEF Places, FixedOps, LinkOps, SignUps
<1>2. \A l \in ToSet(FixedLocks(q)) : Has(q, l[1], l[2])
  BY <1>1 DEF FixedLocked
<1>3. ToSet(plan[q]) = {}
  BY <1>1 DEF ToSet
<1>4. Has(q, OfGroup(G(q)), NoKeyUpdate)
  <2>1. CASE Op(q) \in {"defaults", "mint"}
    BY <1>2, <2>1 DEF FixedLocks, ToSet
  <2>2. CASE Op(q) \in LinkOps
    <3>1. FixedLocks(q) = <<<<OfGroup(G(q)), NoKeyUpdate>>, <<OfLink(X(q)), Update>>>>
      BY <2>2 DEF FixedLocks, LinkOps, SignUps
    <3> QED BY <1>2, <3>1 DEF ToSet
  <2> QED BY <2>1, <2>2
<1>5. ASSUME Op(q) \in LinkOps PROVE Has(q, OfLink(X(q)), Update)
  <2>1. FixedLocks(q) = <<<<OfGroup(G(q)), NoKeyUpdate>>, <<OfLink(X(q)), Update>>>>
    BY <1>5 DEF FixedLocks, LinkOps, SignUps
  <2> QED BY <1>2, <2>1 DEF ToSet
<1>6. Op(q) \in LinkOps => held[q][OfLink(X(q))] \in Modes
  BY Named, RowFacts DEF TypeOK
<1> QED BY <1>3, <1>4, <1>5, <1>6, ModeFacts DEF Has

\* The links another request decides on stay as they are.
LEMMA OthersLinks ==
    ASSUME NEW p \in Procs, NEW q \in Procs, p # q, GroupsInv, Own(p), Effects(p), TablesOK'
    PROVE  LinkReady(q)' /\ MintReady(q)' /\ LinkKnown(q)'
<1>1. /\ TypeOK /\ LocksCompatible /\ Fresh
      /\ FixedLocked(q) /\ LinkReady(q) /\ MintReady(q) /\ LinkKnown(q) /\ Places(q)
  BY DEF GroupsInv, Good
<1>2. /\ Op(q)' = Op(q) /\ G(q)' = G(q) /\ X(q)' = X(q) /\ pc'[q] = pc[q]
  BY <1>1, Untouched
<1>3. Unminted' \subseteq Unminted
  BY <1>1, Progress DEF Effects
<1>4. Op(q) \in LinkOps => X(q) \in Links
  BY <1>1, Named
<1>5. LinkReady(q)'
  <2>1. SUFFICES ASSUME pc[q] = "write", Op(q) \in LinkOps PROVE X(q) \in active' \ used'
    BY <1>2 DEF LinkReady
  <2>2. held[q][OfLink(X(q))] = Update
    BY <1>1, <2>1, LockedFixed
  <2>3. held[p][OfLink(X(q))] # Update
    BY <1>4, <2>1, <2>2, OthersRows
  <2>4. X(q) \in active \ used
    BY <1>1, <2>1 DEF LinkReady
  <2> QED BY <2>3, <2>4 DEF Effects, LinkEffects
<1>6. MintReady(q)'
  <2>1. SUFFICES ASSUME pc[q] = "write", Op(q) = "mint" PROVE Cardinality(Unused(G(q))') < MaxActive
    BY <1>2 DEF MintReady, Unused, LinksOf
  <2>2. held[q][OfGroup(G(q))] >= NoKeyUpdate /\ G(q) \in Groups
    BY <1>1, <2>1, LockedFixed, Named DEF GroupOps
  <2>3. ~(held[p][OfGroup(G(q))] >= NoKeyUpdate)
    BY <2>2, OthersRows
  <2>4. Op(p) = "mint" => LinkGroup[X(p)] = G(p)
    BY <1>1, Named
  <2>5. Unused(G(q))' \subseteq Unused(G(q))
    BY <2>3, <2>4, <1>2 DEF Unused, LinksOf, Effects, LinkEffects, TablesOK
  <2>6. IsFiniteSet(Unused(G(q)))
    <3>1. Unused(G(q)) \in SUBSET Links
      BY <1>1 DEF TypeOK, Unused, LinksOf
    <3> QED BY <3>1, FS_Subset, FiniteAssumption
  <2>7. Cardinality(Unused(G(q))) < MaxActive
    BY <1>1, <2>1 DEF MintReady
  <2>8. Cardinality(Unused(G(q))') <= Cardinality(Unused(G(q)))
    BY <2>5, <2>6, FS_Subset
  <2>9. Cardinality(Unused(G(q))') \in Nat /\ Cardinality(Unused(G(q))) \in Nat
    BY <2>5, <2>6, FS_Subset, FS_CardinalityType
  <2> QED BY <2>7, <2>8, <2>9, StartAssumption
<1>7. LinkKnown(q)'
  <2>1. active' \ active \subseteq Unminted
    BY DEF Effects, LinkEffects, Unminted, Answers
  <2>2. (used \ used') \cap active' = {}
    BY DEF Effects, LinkEffects, TablesOK
  <2> QED BY <1>1, <1>2, <1>3, <2>1, <2>2 DEF LinkKnown
<1> QED BY <1>5, <1>6, <1>7

\* What another delete has collected stays all there is.
LEMMA OthersDelete ==
    ASSUME NEW p \in Procs, NEW q \in Procs, p # q, GroupsInv, Own(p), Effects(p), TablesOK'
    PROVE  DeleteReady(q)'
<1>1. /\ TypeOK /\ LocksCompatible /\ Fresh /\ HeldThere(p)
      /\ WalkLocked(q) /\ DeleteReady(q) /\ Places(q)
  BY DEF GroupsInv, Good
<1>2. /\ Op(q)' = Op(q) /\ G(q)' = G(q) /\ held'[q] = held[q] /\ pc'[q] = pc[q]
      /\ ids'[q] = ids[q] /\ joined'[q] = joined[q]
      /\ \A r, m : Has(q, r, m)' <=> Has(q, r, m)
  BY <1>1, Untouched
<1>3. SUFFICES ASSUME Op(q) = "delete" PROVE DeleteReady(q)'
  BY <1>2 DEF DeleteReady
<1>4. /\ pc[q] = "lock" => G(q) \in ids[q]
      /\ pc[q] = "collect" => G(q) \in exists /\ \E C \in SUBSET ids[q] : G(q) \in C /\ Closed(C)
      /\ pc[q] = "clear" =>
            /\ ids[q] \subseteq exists /\ Closed(ids[q])
            /\ \A m \in joined[q] : m[1] \in ids[q]
            /\ \A m \in member : m[1] \in ids[q] => m \in joined[q]
            /\ \A i \in LinksOf(ids[q]) : Has(q, OfLink(i), Update)
            /\ home \in ids[q] => Has(q, BoardRow, NoKeyUpdate)
  BY <1>1, <1>3 DEF DeleteReady
<1>5. CASE pc[q] \notin {"collect", "clear"}
  BY <1>2, <1>4, <1>5 DEF DeleteReady
<1>6. ASSUME pc[q] \in {"collect", "clear"}, NEW k \in ids[q], k \in exists
      PROVE  /\ k \in Groups /\ held[q][OfGroup(k)] = Update /\ held[p][OfGroup(k)] = None
             /\ k \in exists' /\ k # Top
  <2>1. held[q][OfGroup(k)] = Update
    BY <1>1, <1>3, <1>6 DEF WalkLocked, Walks, Going
  <2>2. k \in Groups
    BY <1>1, <1>6 DEF TypeOK
  <2> QED BY <2>1, <2>2, OthersRows, ModeFacts, GroupTreeAssumption DEF Top
<1>7. ASSUME pc[q] \in {"collect", "clear"}, NEW C \in SUBSET ids[q], Closed(C) PROVE Closed(C)'
  <2>1. SUFFICES ASSUME NEW c \in exists', parent'[c] \in C PROVE c \in C
    BY DEF Closed
  <2>2. parent'[c] \in exists' /\ ids[q] \subseteq Groups
    <3>1. parent'[c] \in exists' \cup {Top}
      BY DEF TablesOK
    <3>2. ids[q] \subseteq Groups
      BY <1>1, <1>3 DEF Places, Walks
    <3> QED BY <3>1, <3>2, <2>1, GroupTreeAssumption DEF Top
  <2>3. CASE c \in exists /\ parent'[c] = parent[c]
    BY <1>7, <2>1, <2>3 DEF Closed
  <2>4. CASE ~(c \in exists /\ parent'[c] = parent[c])
    <3>1. parent'[c] = Top \/ held[p][OfGroup(parent'[c])] = Update
      BY <2>1, <2>4 DEF Effects, TreeEffects
    <3>2. parent'[c] \in Groups /\ parent'[c] # Top
      BY <2>1, <2>2, GroupTreeAssumption DEF Top
    <3>3. parent'[c] \in exists
      BY <1>1, <3>1, <3>2, ModeFacts DEF HeldThere
    <3> QED BY <1>6, <1>7, <2>1, <3>1, <3>2, <3>3, ModeFacts
  <2> QED BY <2>3, <2>4
<1>8. CASE pc[q] = "collect"
  <2>1. PICK C \in SUBSET ids[q] : G(q) \in C /\ Closed(C)
    BY <1>4, <1>8
  <2>2. Closed(C)'
    BY <1>7, <1>8, <2>1
  <2>3. G(q) \in exists'
    BY <1>4, <1>6, <1>8, <2>1
  <2> QED BY <1>2, <1>8, <2>1, <2>2, <2>3 DEF DeleteReady, Closed
<1>9. CASE pc[q] = "clear"
  <2>1. Closed(ids[q])' /\ ids[q] \subseteq exists'
    BY <1>2, <1>4, <1>6, <1>7, <1>9 DEF Closed
  <2>2. \A m \in member' : m[1] \in ids[q] => m \in joined[q]
    <3>1. ASSUME NEW m \in member', m[1] \in ids[q], m \notin member PROVE FALSE
      <4>1. held[p][OfGroup(m[1])] = None /\ m[1] \in exists
        BY <1>4, <1>6, <1>9, <3>1
      <4> QED BY <3>1, <4>1, ModeFacts DEF Effects, PeopleEffects
    <3> QED BY <1>4, <1>9, <3>1
  <2>3. \A i \in LinksOf(ids[q])' : Has(q, OfLink(i), Update)
    <3>1. ASSUME NEW i \in links', LinkGroup[i] \in ids[q], i \notin links PROVE FALSE
      <4>1. Op(p) = "mint" /\ i = X(p) /\ held[p][OfGroup(G(p))] >= NoKeyUpdate
        BY <3>1 DEF Effects, LinkEffects
      <4>2. LinkGroup[i] = G(p)
        BY <1>1, <4>1, Named
      <4>3. held[p][OfGroup(G(p))] = None
        BY <1>4, <1>6, <1>9, <3>1, <4>2
      <4> QED BY <4>1, <4>3, ModeFacts
    <3> QED BY <1>2, <1>4, <1>9, <3>1 DEF LinksOf
  <2>4. home' \in ids[q] => Has(q, BoardRow, NoKeyUpdate)
    <3>1. ASSUME home' \in ids[q], home' # home PROVE FALSE
      <4>1. home' \in exists /\ home' # Top /\ held[p][OfGroup(home')] = None
        BY <1>4, <1>6, <1>9, <3>1
      <4> QED BY <3>1, <4>1 DEF Effects, TreeEffects
    <3> QED BY <1>4, <1>9, <3>1
  <2> QED BY <1>2, <1>3, <1>4, <1>9, <2>1, <2>2, <2>3, <2>4 DEF DeleteReady, LinksOf, Closed
<1> QED BY <1>5, <1>8, <1>9

\* The accounts, members and admins another request counts stay as they are.
LEMMA OthersPeople ==
    ASSUME NEW p \in Procs, NEW q \in Procs, p # q, GroupsInv, Own(p), Effects(p), TablesOK'
    PROVE  AccountsLocked(q)' /\ MemberReady(q)' /\ DismissReady(q)'
<1>1. /\ TypeOK /\ LocksCompatible /\ HeldThere(p) /\ HeldThere(q)
      /\ AccountsLocked(q) /\ MemberReady(q) /\ DismissReady(q) /\ Places(q)
  BY DEF GroupsInv, Good
<1>2. /\ Op(q)' = Op(q) /\ G(q)' = G(q) /\ X(q)' = X(q) /\ held'[q] = held[q] /\ pc'[q] = pc[q]
      /\ seen'[q] = seen[q] /\ ids'[q] = ids[q] /\ round'[q] = round[q] /\ plan'[q] = plan[q]
      /\ Membership(q)' = Membership(q)
      /\ \A r, m : Has(q, r, m)' <=> Has(q, r, m)
  BY <1>1, Untouched
<1>3. PeopleEffects(p) /\ TreeEffects(p)
  BY DEF Effects
<1>4. AccountsLocked(q)'
  BY <1>1, <1>2, <1>3 DEF AccountsLocked, PeopleEffects
<1>5. CASE ~(Op(q) \in AdminOps /\ pc[q] \in Going)
  BY <1>2, <1>4, <1>5, Kinds DEF MemberReady, DismissReady, AdminOps, Going
<1>6. CASE Op(q) \in AdminOps /\ pc[q] \in Going
  <2> USE <1>6
  <2>1. X(q) \in Users /\ X(q) \notin Procs
    BY <1>1, Named, AccountAssumption
  <2>2. ids[q] \subseteq People /\ (X(q) \in accounts => X(q) \in ids[q])
    BY <1>1 DEF AccountsLocked
  <2>3. ASSUME NEW u \in ids[q], u \in accounts, pc[q] # "lock" \/ round[q] # 1
        PROVE  held[q][OfAccount(u)] >= NoKeyUpdate /\ ~(held[p][OfAccount(u)] >= NoKeyUpdate)
               /\ held[p][OfAccount(u)] # Update
    <3>1. held[q][OfAccount(u)] >= NoKeyUpdate
      BY <1>1, <2>3 DEF AccountsLocked
    <3>2. u \in Users
      BY <1>1, <2>3 DEF TypeOK
    <3> QED BY <3>1, <3>2, OthersRows
  <2>4. \A g : g \in Groups /\ held[q][OfGroup(g)] >= NoKeyUpdate => ~(held[p][OfGroup(g)] >= NoKeyUpdate)
    BY OthersRows
  <2>5. MemberReady(q)'
    <3>1. SUFFICES ASSUME Op(q) \in MemberOps \cup Transfers, pc[q] = "write" PROVE MemberReady(q)'
      BY <1>2 DEF MemberReady
    <3>2. /\ Membership(q) \in member
          /\ Op(q) \in {"demote", "remove"} =>
                /\ X(q) # owner[G(q)]
                /\ X(q) \in ActiveAdmins(G(q)) => \E u \in Counted(q) : u # X(q)
          /\ Op(q) \in Transfers => owner[G(q)] = seen[q]
          /\ Op(q) = "transfer" => Membership(q) \in admins
      BY <1>1, <3>1 DEF MemberReady
    <3>3. X(q) \in accounts /\ G(q) \in exists /\ G(q) \in Groups
      BY <1>1, <2>1, <3>2 DEF TypeOK, Membership
    <3>4. ~(held[p][OfAccount(X(q))] >= NoKeyUpdate) /\ held[p][OfAccount(X(q))] # Update
      BY <2>2, <2>3, <3>1, <3>3
    <3>5. held[q][OfGroup(G(q))] >= NoKeyUpdate
      <4>1. plan[q] = <<>>
        BY <1>1, <3>1 DEF Places
      <4>2. Has(q, OfGroup(G(q)), NoKeyUpdate) \/ Has(q, OfGroup(G(q)), Update)
        BY <1>1, <3>1 DEF AccountsLocked
      <4>3. held[q][OfGroup(G(q))] \in Modes
        BY <1>1, <3>3, RowFacts DEF TypeOK
      <4> QED BY <4>1, <4>2, <4>3, ModeFacts DEF Has, ToSet
    <3>6. ~(held[p][OfGroup(G(q))] >= NoKeyUpdate) /\ held[p][OfGroup(G(q))] # Update
      BY <2>4, <3>3, <3>5, ModeFacts
    <3>7. Membership(q) \in member'
      BY <1>3, <3>2, <3>4, <3>6 DEF PeopleEffects, Unseats, Membership
    <3>8. Op(q) = "transfer" => Membership(q) \in admins'
      BY <1>3, <3>2, <3>4, <3>6 DEF PeopleEffects, Unseats, Membership
    <3>9. owner'[G(q)] = owner[G(q)]
      BY <1>3, <3>3, <3>6 DEF PeopleEffects
    <3>10. ASSUME Op(q) \in {"demote", "remove"}, X(q) \in ActiveAdmins(G(q))'
           PROVE  \E u \in Counted(q)' : u # X(q)
      <4>1. X(q) \in ActiveAdmins(G(q))
        BY <1>2, <1>3, <2>1, <3>3, <3>6, <3>10 DEF ActiveAdmins, PeopleEffects
      <4>2. PICK u \in Counted(q) : u # X(q)
        BY <3>2, <3>10, <4>1
      <4>3. u \in ids[q] /\ u \in enabled \cup Procs /\ <<G(q), u>> \in admins
        BY <4>2 DEF Counted, ActiveAdmins
      <4>4. CASE u \in Procs
        <5>1. u \notin Users
          BY <4>4, AccountAssumption
        <5>2. <<G(q), u>> \in admins'
          BY <1>3, <3>6, <4>3, <5>1 DEF PeopleEffects, Unseats
        <5> QED BY <1>2, <4>2, <4>3, <4>4, <5>2 DEF Counted, ActiveAdmins
      <4>5. CASE u \in enabled
        <5>1. ~(held[p][OfAccount(u)] >= NoKeyUpdate) /\ held[p][OfAccount(u)] # Update
          BY <1>1, <2>3, <3>1, <4>3, <4>5 DEF TypeOK
        <5>2. u \in enabled' /\ <<G(q), u>> \in admins'
          BY <1>3, <3>6, <4>3, <4>5, <5>1 DEF PeopleEffects, Unseats
        <5> QED BY <1>2, <4>2, <4>3, <5>2 DEF Counted, ActiveAdmins
      <4> QED BY <4>3, <4>4, <4>5
    <3> QED BY <1>2, <3>2, <3>7, <3>8, <3>9, <3>10 DEF MemberReady
  <2>6. DismissReady(q)'
    <3>1. SUFFICES ASSUME Op(q) = "dismiss" PROVE DismissReady(q)'
      BY <1>2 DEF DismissReady
    <3>2. /\ \A g \in Administered(X(q)) : NewAdmins(g) \/ (AdminsOf(g) \cap Users) \subseteq ids[q]
          /\ round[q] = 2 => \A g \in Administered(X(q)) : Has(q, OfGroup(g), NoKeyUpdate)
          /\ round[q] = 3 => /\ \A g \in Administered(X(q)) : held[q][OfGroup(g)] >= NoKeyUpdate
                             /\ X(q) \in accounts => Has(q, OfAccount(X(q)), Update)
          /\ pc[q] = "write" =>
                /\ round[q] = 3
                /\ X(q) \in accounts => \A g \in exists : owner[g] # X(q)
                /\ \A g \in Administered(X(q)) :
                      NewAdmins(g) \/ \E u \in ActiveAdmins(g) : u # X(q)
      BY <1>1, <3>1 DEF DismissReady
    <3>3. \A g : NewAdmins(g) => NewAdmins(g)'
      BY <1>1, Progress DEF Effects
    <3>4. ASSUME NEW m \in admins' \ admins, m[2] \in Users PROVE NewAdmins(m[1])'
      <4>1. Op(p) \in {"promote", "handover"} /\ G(p) = m[1] /\ pc'[p] = "ok"
        BY <1>3, <3>4 DEF PeopleEffects
      <4>2. Op(p)' = Op(p) /\ G(p)' = G(p)
        BY <1>1, OwnOthers
      <4> QED BY <4>1, <4>2 DEF NewAdmins
    <3>5. ASSUME NEW g \in Administered(X(q))'
          PROVE  /\ NewAdmins(g)' \/ (g \in Administered(X(q)) /\ (AdminsOf(g)' \cap Users) \subseteq AdminsOf(g))
                 /\ round[q] # 1 \/ pc[q] = "write" => g \in Administered(X(q))
                 /\ X(q) \in accounts /\ g \in Groups
      <4>1. g \in exists' /\ X(q) \in enabled' /\ <<g, X(q)>> \in admins'
        BY <1>2, <2>1, <3>5 DEF Administered, ActiveAdmins
      <4>2. X(q) \in enabled /\ X(q) \in accounts
        BY <1>1, <1>3, <4>1 DEF PeopleEffects, TypeOK
      <4>3. CASE <<g, X(q)>> \in admins
        <5>1. g \in Administered(X(q))
          BY <1>1, <4>2, <4>3 DEF Administered, ActiveAdmins, TypeOK
        <5>2. ASSUME ~NewAdmins(g)' PROVE (AdminsOf(g)' \cap Users) \subseteq AdminsOf(g)
          BY <3>4, <5>2 DEF AdminsOf
        <5> QED BY <4>1, <4>2, <5>1, <5>2 DEF TablesOK
      <4>4. CASE <<g, X(q)>> \notin admins
        <5>1. NewAdmins(g)'
          BY <2>1, <3>4, <4>1, <4>4
        <5>2. held[p][OfAccount(X(q))] >= NoKeyUpdate
          BY <1>3, <2>1, <4>1, <4>4 DEF PeopleEffects
        <5>3. ~(round[q] # 1 \/ pc[q] = "write")
          BY <2>2, <2>3, <3>2, <4>2, <5>2
        <5> QED BY <4>1, <4>2, <5>1, <5>3 DEF TablesOK
      <4> QED BY <4>3, <4>4
    <3>6. \A g \in Administered(X(q))' : NewAdmins(g)' \/ (AdminsOf(g)' \cap Users) \subseteq ids[q]
      BY <3>2, <3>3, <3>5
    <3>7. round[q] = 2 => \A g \in Administered(X(q))' : Has(q, OfGroup(g), NoKeyUpdate)
      BY <3>2, <3>5
    <3>8. round[q] = 3 => /\ \A g \in Administered(X(q))' : held[q][OfGroup(g)] >= NoKeyUpdate
                          /\ X(q) \in accounts' => Has(q, OfAccount(X(q)), Update)
      BY <1>3, <3>2, <3>5 DEF PeopleEffects
    <3>9. ASSUME pc[q] = "write"
          PROVE  /\ X(q) \in accounts' => \A g \in exists' : owner'[g] # X(q)
                 /\ \A g \in Administered(X(q))' :
                       NewAdmins(g)' \/ \E u \in ActiveAdmins(g)' : u # X(q)
      <4>1. ASSUME X(q) \in accounts', NEW g \in exists', owner'[g] = X(q) PROVE FALSE
        <5>1. X(q) \in accounts
          BY <1>3, <4>1 DEF PeopleEffects
        <5>2. ~(held[p][OfAccount(X(q))] >= NoKeyUpdate)
          BY <2>2, <2>3, <3>9, <5>1
        <5>3. g \in exists
          BY <1>3, <2>1, <4>1 DEF TreeEffects
        <5>4. owner[g] # X(q)
          BY <3>2, <3>9, <5>1, <5>3
        <5> QED BY <1>3, <2>1, <4>1, <5>2, <5>3, <5>4 DEF PeopleEffects
      <4>2. ASSUME NEW g \in Administered(X(q))', ~NewAdmins(g)'
            PROVE  \E u \in ActiveAdmins(g)' : u # X(q)
        <5>1. g \in Administered(X(q)) /\ g \in Groups /\ ~NewAdmins(g) /\ (AdminsOf(g) \cap Users) \subseteq ids[q]
          BY <3>2, <3>3, <3>5, <4>2
        <5>2. PICK u \in ActiveAdmins(g) : u # X(q)
          BY <3>2, <3>9, <5>1
        <5>3. ~(held[p][OfGroup(g)] >= NoKeyUpdate)
          BY <2>4, <3>2, <3>9, <5>1
        <5>4. u \in enabled \cup Procs /\ <<g, u>> \in admins
          BY <5>2 DEF ActiveAdmins
        <5>5. CASE u \in Procs
          <6>1. u \notin Users
            BY <5>5, AccountAssumption
          <6>2. <<g, u>> \in admins'
            BY <1>3, <5>3, <5>4, <6>1 DEF PeopleEffects, Unseats
          <6> QED BY <5>2, <5>5, <6>2 DEF ActiveAdmins
        <5>6. CASE u \in enabled
          <6>1. u \in accounts /\ u \in Users /\ u \in ids[q]
            <7>1. u \in accounts /\ u \in Users
              BY <1>1, <5>6 DEF TypeOK
            <7>2. u \in AdminsOf(g)
              BY <5>4, <7>1 DEF AdminsOf, People
            <7> QED BY <5>1, <7>1, <7>2
          <6>2. ~(held[p][OfAccount(u)] >= NoKeyUpdate) /\ held[p][OfAccount(u)] # Update
            BY <2>3, <3>9, <6>1
          <6>3. <<g, u>> \in admins' /\ u \in enabled'
            BY <1>3, <5>3, <5>4, <5>6, <6>2 DEF PeopleEffects, Unseats
          <6> QED BY <5>2, <6>3 DEF ActiveAdmins
        <5> QED BY <5>4, <5>5, <5>6
      <4> QED BY <4>1, <4>2
    <3> QED BY <1>2, <3>2, <3>6, <3>7, <3>8, <3>9 DEF DismissReady, Administered, ActiveAdmins
  <2> QED BY <1>4, <2>5, <2>6
<1> QED BY <1>5, <1>6

\* A step of p leaves what the locks of another request guarantee.
LEMMA OthersGood ==
    ASSUME NEW p \in Procs, NEW q \in Procs, p # q, GroupsInv, Own(p), Effects(p), TablesOK'
    PROVE  Good(q)'
BY OthersRows, OthersTree, OthersLinks, OthersDelete, OthersPeople DEF Good

-----------------------------------------------------------------------------
(* From what is shown of a step to the invariant.                           *)

\* A step keeps the invariant if its changes of the tables are made under the
\* locks that Effects names, and it keeps its own part.
LEMMA StepKeeps ==
    ASSUME NEW p \in Procs, GroupsInv, Own(p), Effects(p), LockStep(p), TablesOK', RequestOK(p)',
           GroupsInOrder', Good(p)'
    PROVE  GroupsInv'
<1>1. TypeOK /\ LocksCompatible /\ Fresh /\ GrantedOnce /\ \A q \in Procs : Good(q)
  BY DEF GroupsInv
<1>2. TypeOK'
  BY <1>1, OwnType
<1>3. \A q \in Procs : /\ Op(q)' = Op(q) /\ G(q)' = G(q) /\ X(q)' = X(q)
                       /\ q # p => held'[q] = held[q] /\ pc'[q] = pc[q]
  BY <1>1, OwnOthers
<1>4. LocksCompatible'
  <2>1. ASSUME NEW q \in Procs, q # p, NEW r \in Rows
        PROVE  Compatible(held'[p][r], held'[q][r]) /\ Compatible(held'[q][r], held'[p][r])
    <3>1. held'[q][r] = held[q][r] /\ held[q][r] \in Modes /\ held'[p][r] \in Modes
      BY <1>1, <1>2, <1>3, <2>1 DEF TypeOK
    <3>2. Compatible(held[q][r], held'[p][r])
      BY <1>1, <2>1 DEF LockStep, LocksCompatible
    <3> QED BY <3>1, <3>2 DEF Compatible, Modes, None, Update
  <2>2. ASSUME NEW a \in Procs, NEW b \in Procs, a # b, NEW r \in Rows
        PROVE  Compatible(held'[a][r], held'[b][r])
    <3>1. CASE a # p /\ b # p
      BY <1>1, <1>3, <2>2, <3>1 DEF LocksCompatible
    <3> QED BY <2>1, <2>2, <3>1
  <2> QED BY <2>2 DEF LocksCompatible
<1>5. Fresh'
  <2>1. Unborn' \subseteq Unborn /\ Unminted' \subseteq Unminted
    BY <1>1, Progress DEF Effects
  <2>2. ASSUME NEW g \in Unborn', g \in exists' PROVE FALSE
    <3>1. PICK q \in Procs : g = G(q) /\ Op(q) = "create" /\ pc'[q] # "ok"
      BY <1>3, <2>2 DEF Unborn
    <3>2. g \notin exists
      BY <1>1, <2>1, <2>2 DEF Fresh
    <3>3. Op(p) = "create" /\ g = G(p) /\ pc'[p] = "ok"
      BY <2>2, <3>2 DEF Effects, TreeEffects
    <3> QED BY <1>1, <3>1, <3>3 DEF Fresh
  <2>3. ASSUME NEW i \in Unminted', i \in links' PROVE FALSE
    <3>1. PICK q \in Procs : i = X(q) /\ Op(q) = "mint" /\ pc'[q] # "ok"
      BY <1>3, <2>3 DEF Unminted
    <3>2. i \notin links
      BY <1>1, <2>1, <2>3 DEF Fresh
    <3>3. Op(p) = "mint" /\ i = X(p) /\ pc'[p] = "ok"
      BY <2>3, <3>2 DEF Effects, LinkEffects
    <3> QED BY <1>1, <3>1, <3>3 DEF Fresh
  <2> QED BY <1>1, <1>3, <2>2, <2>3 DEF Fresh
<1>6. GrantedOnce'
  <2>1. ASSUME NEW q \in Procs, q # p, Op(p) \in LinkOps, Op(q) \in LinkOps, X(p) = X(q),
               pc'[p] = "ok", pc'[q] = "ok"
        PROVE  FALSE
    <3>1. X(p) \in active \ used
      BY <2>1 DEF Effects, LinkEffects
    <3>2. LinkKnown(q) /\ pc[q] = "ok"
      BY <1>1, <1>3, <2>1 DEF Good
    <3> QED BY <2>1, <3>1, <3>2 DEF LinkKnown
  <2>2. ASSUME NEW a \in Procs, NEW b \in Procs, a # b, Op(a) \in LinkOps, Op(b) \in LinkOps,
               X(a) = X(b), pc'[a] = "ok", pc'[b] = "ok"
        PROVE  FALSE
    <3>1. a = p \/ b = p
      BY <1>1, <1>3, <2>2 DEF GrantedOnce
    <3> QED BY <2>1, <2>2, <3>1
  <2> QED BY <1>3, <2>2 DEF GrantedOnce
<1>7. \A q \in Procs : Good(q)'
  BY OthersGood
<1> QED BY <1>2, <1>4, <1>5, <1>6, <1>7 DEF GroupsInv

\* The tables unchanged, so is what is read off them.
LEMMA Same ==
    ASSUME NEW p \in Procs, TypeOK, Own(p), UNCHANGED tables, pc[p] \notin Answers, pc'[p] # "ok"
    PROVE  /\ exists' = exists /\ parent' = parent /\ accounts' = accounts /\ enabled' = enabled
           /\ owner' = owner /\ member' = member /\ admins' = admins /\ links' = links
           /\ active' = active /\ used' = used /\ reserved' = reserved /\ home' = home
           /\ Op(p)' = Op(p) /\ G(p)' = G(p) /\ X(p)' = X(p) /\ Membership(p)' = Membership(p)
           /\ FixedLocks(p)' = FixedLocks(p) /\ (Walks(p)' <=> Walks(p))
           /\ Unborn' = Unborn /\ Unminted' = Unminted
           /\ \A g : (NewAdmins(g)' <=> NewAdmins(g)) /\ ActiveAdmins(g)' = ActiveAdmins(g)
                     /\ AdminsOf(g)' = AdminsOf(g) /\ Unused(g)' = Unused(g)
                     /\ LinksOf(g)' = LinksOf(g) /\ Administered(g)' = Administered(g)
           /\ \A C : Closed(C)' <=> Closed(C)
<1>1. /\ exists' = exists /\ parent' = parent /\ accounts' = accounts /\ enabled' = enabled
      /\ owner' = owner /\ member' = member /\ admins' = admins /\ links' = links
      /\ active' = active /\ used' = used /\ reserved' = reserved /\ home' = home
  BY DEF tables, tree, people, roles, invites
<1>2. \A q \in Procs : Op(q)' = Op(q) /\ G(q)' = G(q) /\ X(q)' = X(q) /\ (q # p => pc'[q] = pc[q])
  BY OwnOthers
<1>3. pc[p] # "ok"
  BY DEF Answers
<1>4. \A q \in Procs : pc'[q] = "ok" <=> pc[q] = "ok"
  BY <1>2, <1>3
<1>5. Unborn' = Unborn /\ Unminted' = Unminted /\ \A g : NewAdmins(g)' <=> NewAdmins(g)
  BY <1>2, <1>4 DEF Unborn, Unminted, NewAdmins
<1>6. Membership(p)' = Membership(p) /\ FixedLocks(p)' = FixedLocks(p) /\ (Walks(p)' <=> Walks(p))
  BY <1>2 DEF Membership, FixedLocks, Walks
<1>7. \A g : ActiveAdmins(g)' = ActiveAdmins(g) /\ AdminsOf(g)' = AdminsOf(g) /\ Unused(g)' = Unused(g)
             /\ LinksOf(g)' = LinksOf(g) /\ Administered(g)' = Administered(g)
  BY <1>1 DEF ActiveAdmins, AdminsOf, Unused, LinksOf, Administered
<1>8. \A C : Closed(C)' <=> Closed(C)
  BY <1>1 DEF Closed
<1> QED BY <1>1, <1>2, <1>5, <1>6, <1>7, <1>8

\* A step that leaves the tables alone has only p's own rows to answer for.
LEMMA QuietStep ==
    ASSUME NEW p \in Procs, GroupsInv, Own(p), UNCHANGED tables, pc[p] \notin Answers, pc'[p] # "ok",
           LockStep(p), RequestOK(p)', Good(p)'
    PROVE  GroupsInv'
<1>1. TypeOK /\ GroupsInOrder
  BY DEF GroupsInv
<1>2. /\ exists' = exists /\ parent' = parent /\ accounts' = accounts /\ enabled' = enabled
      /\ owner' = owner /\ member' = member /\ admins' = admins /\ links' = links
      /\ active' = active /\ used' = used /\ reserved' = reserved /\ home' = home
      /\ \A g : Unused(g)' = Unused(g)
  BY <1>1, Same
<1>3. TablesOK'
  BY <1>1, <1>2, TypeParts DEF TablesOK
<1>4. GroupsInOrder'
  BY <1>1, <1>2 DEF GroupsInOrder
<1>5. Effects(p)
  BY <1>2 DEF Effects, TreeEffects, LinkEffects, PeopleEffects
<1> QED BY <1>3, <1>4, <1>5, StepKeeps

\* Letting go of locks is in nobody's way.
LEMMA NoLockTaken ==
    ASSUME NEW p \in Procs, TypeOK, \A r \in Rows : held'[p][r] \in {held[p][r], None}
    PROVE  LockStep(p)
<1>1. ASSUME NEW r \in Rows, NEW q \in Procs, q # p, held'[p][r] # held[p][r]
      PROVE  Compatible(held[q][r], held'[p][r])
  <2>1. held'[p][r] = None /\ held[q][r] \in Modes
    BY <1>1 DEF TypeOK
  <2> QED BY <2>1 DEF Compatible, Modes, None, Update
<1> QED BY <1>1 DEF LockStep

\* The transaction over, no locks are left.
LEMMA Ended ==
    ASSUME NEW p \in Procs, TypeOK, NEW a \in Answers \cup {"waiting"}, End(p, a)
    PROVE  /\ Own(p) /\ RequestOK(p)' /\ LockStep(p) /\ pc'[p] = a
           /\ \A r \in Rows : held'[p][r] = None
           /\ ids'[p] = ids[p] /\ round'[p] = round[p]
<1>1. held' = [held EXCEPT ![p] = OnlyOn(@, {})] /\ pc' = [pc EXCEPT ![p] = a]
      /\ UNCHANGED <<req, seen, ids, joined, round, plan>>
  BY DEF End, Answer, Release
<1>2. held'[p] = [r \in Rows |-> None]
  BY <1>1 DEF OnlyOn, TypeOK
<1>3. pc'[p] = a /\ pc'[p] \in Pcs
  BY <1>1 DEF TypeOK, Pcs
<1>4. Own(p)
  BY <1>1 DEF Own, TypeOK
<1>5. RequestOK(p)'
  BY <1>1, <1>2, <1>3, TypeParts DEF RequestOK, Modes, None, Update
<1>6. LockStep(p)
  BY <1>2, NoLockTaken
<1> QED BY <1>1, <1>2, <1>3, <1>4, <1>5, <1>6

\* Nothing more is claimed of a request that is over, or waits for its user.
LEMMA EndedGood ==
    ASSUME NEW p \in Procs, GroupsInv, Own(p), pc'[p] \in (Answers \cup {"waiting"}) \ {"error"},
           HeldThere(p)', LinkKnown(p)', ids'[p] = ids[p], round'[p] = round[p],
           pc'[p] = "waiting" => Op(p) = "enrol"
    PROVE  Good(p)'
<1>1. Op(p)' = Op(p) /\ G(p)' = G(p) /\ X(p)' = X(p) /\ Places(p)
  BY OwnOthers DEF GroupsInv, Good
<1>2. pc'[p] \notin Going /\ pc'[p] \notin {"ask", "walk", "count"}
  BY DEF Answers, Going
<1>3. OldGroups(p)' /\ WalkLocked(p)' /\ MoveReady(p)' /\ DeleteReady(p)' /\ FixedLocked(p)'
  BY <1>2 DEF OldGroups, WalkLocked, MoveReady, DeleteReady, FixedLocked, Going
<1>4. SaveReady(p)' /\ LinkReady(p)' /\ MintReady(p)' /\ AccountsLocked(p)' /\ MemberReady(p)' /\ DismissReady(p)'
  BY <1>2 DEF SaveReady, LinkReady, MintReady, AccountsLocked, MemberReady, DismissReady, Going
<1>5. Places(p)'
  BY <1>1, <1>2 DEF Places, Walks, Going
<1> QED BY <1>3, <1>4, <1>5 DEF Good

\* A request that is refused, or finds nothing.
LEMMA EndKeeps ==
    ASSUME NEW p \in Procs, GroupsInv, UNCHANGED tables, NEW a \in {"refused", "gone", "aborted"},
           End(p, a), pc[p] \notin Answers \cup {"ask"}
    PROVE  GroupsInv'
<1>1. TypeOK /\ LinkKnown(p)
  BY DEF GroupsInv, Good
<1>2. /\ Own(p) /\ RequestOK(p)' /\ LockStep(p) /\ pc'[p] = a /\ \A r \in Rows : held'[p][r] = None
      /\ ids'[p] = ids[p] /\ round'[p] = round[p]
  <2>1. a \in Answers \cup {"waiting"}
    BY DEF Answers
  <2> QED BY <1>1, <2>1, Ended
<1>3. pc'[p] # "ok" /\ pc'[p] # "error" /\ pc'[p] \in Answers /\ pc'[p] # "waiting"
  BY <1>2 DEF Answers
<1>4. HeldThere(p)'
  BY <1>2, RowFacts DEF HeldThere
<1>5. LinkKnown(p)'
  BY <1>1, <1>2, <1>3, Same DEF LinkKnown, Answers
<1>6. Good(p)'
  BY <1>2, <1>3, <1>4, <1>5, EndedGood
<1> QED BY <1>2, <1>3, <1>6, QuietStep

-----------------------------------------------------------------------------
(* One step at a time: the requests on the tree, the links and the board.   *)

\* The locks of a request that needs no walk are locks of rows.
LEMMA FixedType ==
    ASSUME NEW p \in Procs, TypeOK, Op(p) \in GroupOps
    PROVE  FixedLocks(p) \in Seq(Rows \X Modes)
<1>1. {NoKeyUpdate, Update, KeyShare} \subseteq Modes
  BY DEF Modes, None, NoKeyUpdate, Update, KeyShare
<1>2. G(p) \in Groups /\ OfGroup(G(p)) \in Rows /\ BoardRow \in Rows
  BY Named, RowFacts
<1>3. CASE Op(p) \in LinkOps
  <2>1. OfLink(X(p)) \in Rows
    BY <1>3, Named, RowFacts
  <2>2. FixedLocks(p) = <<<<OfGroup(G(p)), NoKeyUpdate>>, <<OfLink(X(p)), Update>>>>
    BY <1>3 DEF FixedLocks, LinkOps, SignUps
  <2> QED BY <1>1, <1>2, <2>1, <2>2
<1>4. CASE Op(p) = "place"
  <2>1. X(p) # Top => OfGroup(X(p)) \in Rows
    BY <1>4, Named, RowFacts
  <2>2. FixedLocks(p) = IF X(p) = Top THEN <<<<BoardRow, NoKeyUpdate>>>>
                        ELSE <<<<OfGroup(X(p)), KeyShare>>, <<BoardRow, NoKeyUpdate>>>>
    BY <1>4 DEF FixedLocks, LinkOps, SignUps
  <2>3. <<<<BoardRow, NoKeyUpdate>>>> \in Seq(Rows \X Modes)
    BY <1>1, <1>2
  <2>4. X(p) # Top => <<<<OfGroup(X(p)), KeyShare>>, <<BoardRow, NoKeyUpdate>>>> \in Seq(Rows \X Modes)
    BY <1>1, <1>2, <2>1
  <2> QED BY <2>2, <2>3, <2>4
<1>5. CASE Op(p) \notin LinkOps /\ Op(p) # "place"
  BY <1>1, <1>2, <1>5 DEF FixedLocks
<1> QED BY <1>3, <1>4, <1>5

\* A request is looked up and validated, and changes nothing.
LEMMA AskKeeps ==
    ASSUME NEW p \in Procs, GroupsInv, Ask(p)
    PROVE  GroupsInv'
<1>1. TypeOK /\ Good(p) /\ Fresh
  BY DEF GroupsInv
<1>2. pc[p] = "ask" /\ Op(p) \in GroupOps /\ UNCHANGED <<tables, held, req, ids, joined, round>>
  BY DEF Ask
<1>3. pc' = [pc EXCEPT ![p] = IF ~Found(p) THEN "gone" ELSE IF ~Valid(p) THEN "refused"
                               ELSE IF Walks(p) THEN "walk" ELSE "lock"]
      /\ seen' = [seen EXCEPT ![p] = IF Op(p) = "delete" THEN owner[G(p)] ELSE parent[G(p)]]
      /\ plan' = [plan EXCEPT ![p] = FixedLocks(p)]
  BY DEF Ask
<1>4. /\ pc'[p] = (IF ~Found(p) THEN "gone" ELSE IF ~Valid(p) THEN "refused"
                   ELSE IF Walks(p) THEN "walk" ELSE "lock")
      /\ plan'[p] = FixedLocks(p) /\ held'[p] = held[p] /\ ids'[p] = ids[p] /\ round'[p] = round[p]
  BY <1>1, <1>2, <1>3 DEF TypeOK
<1>5. pc'[p] \in {"gone", "refused", "walk", "lock"}
  BY <1>4
<1>6. Own(p)
  BY <1>1, <1>2, <1>3 DEF TypeOK, Own
<1>7. G(p) \in Groups
  BY <1>1, <1>2, Named
<1>8. RequestOK(p)'
  <2>1. seen'[p] \in Groups \cup {Top} \cup People
    BY <1>1, <1>3, <1>7 DEF TypeOK
  <2>2. plan'[p] \in Seq(Rows \X Modes)
    BY <1>1, <1>2, <1>4, FixedType
  <2>3. RequestOK(p)
    BY <1>1, TypeParts
  <2> QED BY <1>2, <1>4, <1>5, <2>1, <2>2, <2>3 DEF RequestOK, Pcs, Answers
<1>9. LockStep(p)
  BY <1>1, <1>2, NoLockTaken
<1>10. UNCHANGED tables /\ pc[p] \notin Answers /\ pc'[p] # "ok"
  BY <1>2, <1>5 DEF Answers
<1>11. /\ exists' = exists /\ parent' = parent /\ accounts' = accounts
       /\ active' = active /\ links' = links /\ Op(p)' = Op(p) /\ G(p)' = G(p) /\ X(p)' = X(p)
       /\ Unborn' = Unborn /\ Unminted' = Unminted
       /\ FixedLocks(p)' = FixedLocks(p) /\ (Walks(p)' <=> Walks(p))
  BY <1>1, <1>6, <1>10, Same
<1>12. HeldThere(p)'
  BY <1>1, <1>4, <1>11 DEF Good, HeldThere
<1>13. LinkKnown(p)'
  <2>1. ASSUME Op(p) \in LinkOps, pc'[p] # "gone" PROVE X(p) \in active /\ X(p) \notin Unminted
    <3>1. Found(p)
      BY <1>4, <2>1
    <3>2. X(p) \in active
      BY <2>1, <3>1 DEF Found, LinkOps, SignUps
    <3> QED BY <1>1, <3>2 DEF TypeOK, Fresh
  <2> QED BY <1>5, <1>11, <2>1 DEF LinkKnown
<1>14. CASE pc'[p] \in {"gone", "refused"}
  <2>1. Good(p)'
    BY <1>4, <1>6, <1>12, <1>13, <1>14, EndedGood DEF Answers
  <2> QED BY <1>6, <1>8, <1>9, <1>10, <2>1, QuietStep
<1>15. CASE pc'[p] \in {"walk", "lock"}
  <2>1. Found(p) /\ Valid(p) /\ (pc'[p] = "walk" <=> Walks(p)) /\ (pc'[p] = "lock" <=> ~Walks(p))
    BY <1>4, <1>15
  <2>2. OldGroups(p)'
    <3>1. Op(p) \in {"move", "delete", "rename"} => G(p) \in exists
      BY <2>1 DEF Found, LinkOps, SignUps
    <3>2. Op(p) \in {"move", "create"} => X(p) = Top \/ X(p) \in exists
      BY <1>1, <1>7, <2>1 DEF Valid, MayMove, MayCreateUnder, TypeOK
    <3>3. Top \notin Unborn
      <4>1. Unborn \subseteq Groups
        BY <1>1, Named DEF Unborn, GroupOps
      <4> QED BY <4>1, GroupTreeAssumption DEF Top
    <3>4. Unborn \cap exists = {}
      BY <1>1 DEF Fresh
    <3> QED BY <1>11, <2>1, <3>1, <3>2, <3>3, <3>4 DEF OldGroups, Walks
  <2>3. WalkLocked(p)' /\ MoveReady(p)' /\ DeleteReady(p)'
    BY <1>11, <1>15, <2>1 DEF WalkLocked, MoveReady, DeleteReady, Walks, Going
  <2>4. FixedLocked(p)'
    <3>1. ASSUME NEW l \in ToSet(FixedLocks(p)) PROVE Has(p, l[1], l[2])'
      <4>1. FixedLocks(p) \in Seq(Rows \X Modes)
        BY <1>1, <1>2, FixedType
      <4>2. l \in Rows \X Modes
        BY <3>1, <4>1 DEF ToSet
      <4>3. <<l[1], l[2]>> = l
        BY <4>2
      <4> QED BY <1>4, <3>1, <4>3 DEF Has
    <3> QED BY <1>11, <3>1 DEF FixedLocked
  <2>5. SaveReady(p)' /\ LinkReady(p)' /\ MintReady(p)' /\ AccountsLocked(p)' /\ MemberReady(p)' /\ DismissReady(p)'
    BY <1>2, <1>11, <1>15, Kinds DEF SaveReady, LinkReady, MintReady, AccountsLocked, MemberReady, DismissReady, AdminOps
  <2>6. Places(p)'
    BY <1>1, <1>2, <1>4, <1>11, <1>15, <2>1, Kinds DEF Good, Places, Walks
  <2>7. Good(p)'
    BY <1>12, <1>13, <2>2, <2>3, <2>4, <2>5, <2>6 DEF Good
  <2> QED BY <1>6, <1>8, <1>9, <1>10, <2>7, QuietStep
<1> QED BY <1>5, <1>14, <1>15

\* What a walk lists, and that the statement that follows takes all of it.
LEMMA WalkedFacts ==
    ASSUME NEW p \in Procs, TypeOK, Walks(p)
    PROVE  /\ Walked(p) \subseteq Groups
           /\ Walked(p) \subseteq exists \cup {G(p), X(p)}
           /\ Op(p) = "delete" => Walked(p) \subseteq exists \cup {G(p)}
           /\ Op(p) = "create" => Walked(p) \subseteq exists \cup {X(p)}
           /\ Op(p) \in {"move", "delete"} => G(p) \in Walked(p)
           /\ Op(p) \in {"move", "create"} => X(p) \in Walked(p) \cup {Top} \/ X(p) \notin exists
<1>1. G(p) \in Groups /\ exists \subseteq Groups /\ parent \in [Groups -> exists \cup {Top}]
  BY Named DEF Walks, GroupOps, TypeOK
<1>2. Op(p) \in {"move", "create"} => X(p) \in Groups \cup {Top}
  BY Named
<1>3. CASE Op(p) = "delete"
  BY <1>1, <1>3, SubtreeFacts DEF Walked
<1>4. CASE Op(p) = "create"
  <2>1. Walked(p) = Chain(X(p))
    BY <1>4 DEF Walked
  <2> QED BY <1>1, <1>2, <1>4, <2>1, ChainFacts
<1>5. CASE Op(p) = "move"
  <2>1. Walked(p) = {G(p)} \cup (IF X(p) \in exists THEN Chain(X(p)) ELSE {})
    BY <1>5 DEF Walked
  <2>2. X(p) \in exists => X(p) # Top
    BY <1>1, GroupTreeAssumption DEF Top
  <2> QED BY <1>1, <1>2, <1>5, <2>1, <2>2, ChainFacts
<1> QED BY <1>3, <1>4, <1>5 DEF Walks

\* A statement over groups is a plan of row locks.
LEMMA GroupsByPk ==
    ASSUME NEW ks \in SUBSET Groups, NEW mode \in Modes
    PROVE  /\ ByPk("group", ks, mode) \in Seq(Rows \X Modes)
           /\ \A k \in ks : <<OfGroup(k), mode>> \in ToSet(ByPk("group", ks, mode))
<1>1. ks \subseteq Nat /\ IsFiniteSet(ks)
  BY GroupTreeAssumption, FiniteAssumption, FS_Subset
<1>2. {<<<<"group", k>>, mode>> : k \in ks} \subseteq Rows \X Modes
  BY DEF Rows, OfGroup
<1>3. ByPk("group", ks, mode) \in Seq({<<<<"group", k>>, mode>> : k \in ks})
      /\ ToSet(ByPk("group", ks, mode)) = {<<<<"group", k>>, mode>> : k \in ks}
  BY <1>1, ByPkFacts
<1> QED BY <1>2, <1>3 DEF OfGroup

\* A walk lists the groups to lock as it finds them.
LEMMA WalkKeeps ==
    ASSUME NEW p \in Procs, GroupsInv, Walk(p)
    PROVE  GroupsInv'
<1>1. TypeOK /\ Good(p) /\ Fresh
  BY DEF GroupsInv
<1>2. /\ pc[p] = "walk" /\ UNCHANGED <<tables, held, req, seen, joined, round>>
      /\ pc' = [pc EXCEPT ![p] = "lock"] /\ ids' = [ids EXCEPT ![p] = Walked(p)]
      /\ plan' = [plan EXCEPT ![p] = ByPk("group", Walked(p), Update)]
  BY DEF Walk
<1>3. /\ pc'[p] = "lock" /\ ids'[p] = Walked(p) /\ plan'[p] = ByPk("group", Walked(p), Update)
      /\ held'[p] = held[p] /\ round'[p] = round[p]
  BY <1>1, <1>2 DEF TypeOK
<1>4. Own(p)
  BY <1>1, <1>2 DEF TypeOK, Own
<1>5. Walks(p) /\ OldGroups(p)
  BY <1>1, <1>2 DEF Good, Places
<1>6. /\ Walked(p) \subseteq Groups
      /\ Walked(p) \subseteq exists \cup {G(p), X(p)}
      /\ Op(p) = "delete" => Walked(p) \subseteq exists \cup {G(p)}
      /\ Op(p) = "create" => Walked(p) \subseteq exists \cup {X(p)}
      /\ Op(p) \in {"move", "delete"} => G(p) \in Walked(p)
      /\ Op(p) \in {"move", "create"} => X(p) \in Walked(p) \cup {Top} \/ X(p) \notin exists
  BY <1>1, <1>5, WalkedFacts
<1>7. plan'[p] \in Seq(Rows \X Modes) /\ \A k \in Walked(p) : <<OfGroup(k), Update>> \in ToSet(plan'[p])
  <2>1. Update \in Modes
    BY DEF Modes, None, Update
  <2> QED BY <1>3, <1>6, <2>1, GroupsByPk
<1>8. RequestOK(p)'
  <2>1. RequestOK(p)
    BY <1>1, TypeParts
  <2> QED BY <1>2, <1>3, <1>6, <1>7, <2>1 DEF RequestOK, Pcs
<1>9. LockStep(p)
  BY <1>1, <1>2, NoLockTaken
<1>10. UNCHANGED tables /\ pc[p] \notin Answers /\ pc'[p] # "ok"
  BY <1>2, <1>3 DEF Answers
<1>11. /\ exists' = exists /\ accounts' = accounts /\ Op(p)' = Op(p) /\ G(p)' = G(p) /\ X(p)' = X(p)
       /\ Unborn' = Unborn /\ Unminted' = Unminted /\ (Walks(p)' <=> Walks(p))
  BY <1>1, <1>4, <1>10, Same
<1>12. Op(p) \notin FixedOps /\ Op(p) \notin AdminOps /\ Op(p) \notin LinkOps
  BY <1>5, Kinds DEF Walks
<1>13. HeldThere(p)'
  BY <1>1, <1>3, <1>11 DEF Good, HeldThere
<1>14. OldGroups(p)'
  <2>1. Walked(p) \cap Unborn = {}
    BY <1>1, <1>2, <1>5, <1>6 DEF OldGroups, Fresh, Walks
  <2> QED BY <1>2, <1>3, <1>5, <1>11, <2>1 DEF OldGroups
<1>15. WalkLocked(p)'
  BY <1>3, <1>7, <1>11 DEF WalkLocked
<1>16. MoveReady(p)' /\ DeleteReady(p)'
  BY <1>3, <1>6, <1>11 DEF MoveReady, DeleteReady
<1>17. FixedLocked(p)' /\ SaveReady(p)' /\ LinkReady(p)' /\ MintReady(p)' /\ LinkKnown(p)'
  BY <1>3, <1>11, <1>12 DEF FixedLocked, SaveReady, LinkReady, MintReady, LinkKnown
<1>18. AccountsLocked(p)' /\ MemberReady(p)' /\ DismissReady(p)'
  BY <1>3, <1>11, <1>12 DEF AccountsLocked, MemberReady, DismissReady, AdminOps
<1>19. Places(p)'
  BY <1>1, <1>3, <1>5, <1>6, <1>11, <1>12 DEF Good, Places
<1>20. Good(p)'
  BY <1>13, <1>14, <1>15, <1>16, <1>17, <1>18, <1>19 DEF Good
<1> QED BY <1>4, <1>8, <1>9, <1>10, <1>20, QuietStep

\* What a plan still has once its first lock is taken or passed over.
LEMMA PlanTail ==
    ASSUME NEW T, NEW s \in Seq(T), s # <<>>
    PROVE  /\ Head(s) \in T /\ Tail(s) \in Seq(T)
           /\ \A x : x \in ToSet(s) => x = Head(s) \/ x \in ToSet(Tail(s))
           /\ ToSet(Tail(s)) \subseteq ToSet(s)
<1>1. Len(s) \in Nat /\ Len(s) # 0 /\ DOMAIN s = 1 .. Len(s) /\ s \in [1 .. Len(s) -> T]
  OBVIOUS
<1>2. /\ Head(s) = s[1] /\ Len(Tail(s)) = Len(s) - 1 /\ DOMAIN Tail(s) = 1 .. Len(s) - 1
      /\ \A i \in 1 .. Len(s) - 1 : Tail(s)[i] = s[i + 1]
  OBVIOUS
<1>3. ASSUME NEW i \in DOMAIN s PROVE s[i] = Head(s) \/ s[i] \in ToSet(Tail(s))
  <2>1. CASE i = 1
    BY <1>2, <2>1
  <2>2. CASE i # 1
    <3>1. i - 1 \in 1 .. Len(s) - 1 /\ (i - 1) + 1 = i
      BY <1>1, <2>2
    <3>2. Tail(s)[i - 1] = s[i] /\ i - 1 \in DOMAIN Tail(s)
      BY <1>2, <3>1
    <3> QED BY <3>2 DEF ToSet
  <2> QED BY <2>1, <2>2
<1>4. ASSUME NEW i \in DOMAIN Tail(s) PROVE Tail(s)[i] \in ToSet(s)
  <2>1. i \in 1 .. Len(s) - 1 /\ i + 1 \in DOMAIN s /\ Tail(s)[i] = s[i + 1]
    BY <1>1, <1>2, <1>4
  <2> QED BY <2>1 DEF ToSet
<1>5. Head(s) \in T /\ Tail(s) \in Seq(T)
  OBVIOUS
<1> QED BY <1>3, <1>4, <1>5 DEF ToSet

\* A lock taken strengthens what is held; a row passed over is not there.
LEMMA LockFacts ==
    ASSUME NEW p \in Procs, GroupsInv, Lock(p), ~End(p, "gone")
    PROVE  /\ Own(p) /\ RequestOK(p)' /\ LockStep(p) /\ UNCHANGED tables
           /\ pc'[p] = pc[p] /\ pc[p] \in {"lock", "clear"} /\ seen'[p] = seen[p]
           /\ ids'[p] = ids[p] /\ joined'[p] = joined[p] /\ round'[p] = round[p]
           /\ \A r \in Rows : /\ held[p][r] # None => held'[p][r] # None
                              /\ held[p][r] >= NoKeyUpdate => held'[p][r] >= NoKeyUpdate
                              /\ held[p][r] = Update => held'[p][r] = Update
                              /\ held'[p][r] # held[p][r] => There(p, r)
           /\ \A r \in Rows, m \in Modes : /\ Has(p, r, m) /\ There(p, r) => WillHave(p, r, m)
                                           /\ Has(p, r, m) /\ ~There(p, r) => WillHave(p, r, m) \/ Passes(p, r)
           /\ \A r \in Rows, m \in Modes : <<r, m>> \in ToSet(plan[p]) /\ There(p, r) =>
                 held'[p][r] >= m \/ <<r, m>> \in ToSet(plan'[p])
<1>1. TypeOK /\ RequestOK(p)
  BY TypeParts DEF GroupsInv
<1> DEFINE r0 == Head(plan[p])[1]
           m0 == Head(plan[p])[2]
<1>2. /\ pc[p] \in {"lock", "clear"} /\ plan[p] # <<>> /\ UNCHANGED tables
      /\ UNCHANGED <<req, pc, seen, ids, joined, round>> /\ Rest(p)
      /\ \/ There(p, r0) /\ Take(p, r0, m0)
         \/ ~There(p, r0) /\ Passes(p, r0) /\ UNCHANGED held
  BY DEF Lock
<1>3. plan[p] \in Seq(Rows \X Modes)
  BY <1>1 DEF RequestOK
<1>4. /\ Head(plan[p]) \in Rows \X Modes /\ Tail(plan[p]) \in Seq(Rows \X Modes)
      /\ \A x : x \in ToSet(plan[p]) => x = Head(plan[p]) \/ x \in ToSet(Tail(plan[p]))
  BY <1>2, <1>3, PlanTail
<1>5. r0 \in Rows /\ m0 \in Modes /\ Head(plan[p]) = <<r0, m0>>
  BY <1>4
<1> HIDE DEF r0, m0
<1>6. plan'[p] = Tail(plan[p]) /\ plan' = [plan EXCEPT ![p] = plan'[p]]
  BY <1>1, <1>2 DEF Rest, TypeOK
<1>7. CASE There(p, r0) /\ Take(p, r0, m0)
  <2>1. held' = [held EXCEPT ![p] = WithLock(@, r0, m0)] /\ Grantable(p, r0, m0)
    BY <1>7 DEF Take
  <2>2. held'[p] = [held[p] EXCEPT ![r0] = Stronger(@, m0)]
    BY <1>1, <2>1 DEF TypeOK, WithLock
  <2>3. held'[p][r0] = Stronger(held[p][r0], m0) /\ \A r \in Rows : r # r0 => held'[p][r] = held[p][r]
    BY <1>1, <1>5, <2>2 DEF RequestOK
  <2>4. held[p][r0] \in Modes
    BY <1>1, <1>5 DEF RequestOK
  <2>5. /\ held'[p][r0] \in {held[p][r0], m0} /\ held'[p][r0] >= m0
        /\ held[p][r0] # None => held'[p][r0] # None
        /\ held[p][r0] >= NoKeyUpdate => held'[p][r0] >= NoKeyUpdate
        /\ held[p][r0] = Update => held'[p][r0] = Update
        /\ \A m \in Modes : held[p][r0] >= m => held'[p][r0] >= m
    BY <1>5, <2>3, <2>4 DEF Stronger, Modes, None, NoKeyUpdate, Update
  <2>6. Own(p)
    BY <1>1, <1>2, <1>6, <2>1 DEF TypeOK, Own
  <2>7. RequestOK(p)'
    <3>1. held'[p] \in [Rows -> Modes]
      BY <1>1, <1>5, <2>2, <2>3, <2>4, <2>5 DEF RequestOK
    <3> QED BY <1>1, <1>2, <1>4, <1>6, <3>1 DEF RequestOK, Pcs
  <2>8. LockStep(p)
    BY <2>1, <2>3, <2>5 DEF LockStep, Grantable
  <2>9. ASSUME NEW r \in Rows, NEW m \in Modes
        PROVE  /\ held[p][r] >= m => held'[p][r] >= m
               /\ <<r, m>> \in ToSet(plan[p]) => held'[p][r] >= m \/ <<r, m>> \in ToSet(plan'[p])
    <3>1. <<r, m>> \in ToSet(plan[p]) => <<r, m>> = <<r0, m0>> \/ <<r, m>> \in ToSet(plan'[p])
      BY <1>4, <1>5, <1>6
    <3> QED BY <2>3, <2>5, <3>1
  <2>10. \A r \in Rows, m \in Modes : Has(p, r, m) => WillHave(p, r, m)
    BY <2>9 DEF Has, WillHave
  <2>11. \A r \in Rows : held'[p][r] # held[p][r] => There(p, r)
    BY <1>7, <2>3
  <2> QED BY <1>2, <2>3, <2>5, <2>6, <2>7, <2>8, <2>9, <2>10, <2>11
<1>8. CASE ~There(p, r0) /\ Passes(p, r0) /\ UNCHANGED held
  <2>1. Own(p)
    BY <1>1, <1>2, <1>6, <1>8 DEF TypeOK, Own
  <2>2. RequestOK(p)'
    BY <1>1, <1>2, <1>4, <1>6, <1>8 DEF RequestOK, Pcs
  <2>3. LockStep(p)
    BY <1>1, <1>8, NoLockTaken
  <2>4. ASSUME NEW r \in Rows, NEW m \in Modes, <<r, m>> \in ToSet(plan[p])
        PROVE  <<r, m>> \in ToSet(plan'[p]) \/ r = r0
    <3>1. <<r, m>> = <<r0, m0>> \/ <<r, m>> \in ToSet(plan'[p])
      BY <1>4, <1>5, <1>6, <2>4
    <3> QED BY <3>1
  <2>5. \A r \in Rows, m \in Modes : /\ Has(p, r, m) /\ There(p, r) => WillHave(p, r, m)
                                     /\ Has(p, r, m) /\ ~There(p, r) => WillHave(p, r, m) \/ Passes(p, r)
    BY <1>8, <2>4 DEF Has, WillHave
  <2> QED BY <1>2, <1>8, <2>1, <2>2, <2>3, <2>4, <2>5
<1> QED BY <1>2, <1>7, <1>8

\* A row lock is taken, or the row is gone.
LEMMA LockKeeps ==
    ASSUME NEW p \in Procs, GroupsInv, Lock(p)
    PROVE  GroupsInv'
<1>1. TypeOK /\ Good(p)
  BY DEF GroupsInv
<1>2. CASE End(p, "gone")
  BY <1>2, EndKeeps DEF Lock, Answers
<1>3. CASE ~End(p, "gone")
  <2>1. /\ Own(p) /\ RequestOK(p)' /\ LockStep(p) /\ UNCHANGED tables
        /\ pc'[p] = pc[p] /\ pc[p] \in {"lock", "clear"} /\ seen'[p] = seen[p]
        /\ ids'[p] = ids[p] /\ joined'[p] = joined[p] /\ round'[p] = round[p]
        /\ \A r \in Rows : /\ held[p][r] # None => held'[p][r] # None
                           /\ held[p][r] >= NoKeyUpdate => held'[p][r] >= NoKeyUpdate
                           /\ held[p][r] = Update => held'[p][r] = Update
                           /\ held'[p][r] # held[p][r] => There(p, r)
        /\ \A r \in Rows, m \in Modes : /\ Has(p, r, m) /\ There(p, r) => WillHave(p, r, m)
                                        /\ Has(p, r, m) /\ ~There(p, r) => WillHave(p, r, m) \/ Passes(p, r)
        /\ \A r \in Rows, m \in Modes : <<r, m>> \in ToSet(plan[p]) /\ There(p, r) =>
              held'[p][r] >= m \/ <<r, m>> \in ToSet(plan'[p])
    BY <1>3, LockFacts
  <2>2. pc[p] \notin Answers /\ pc'[p] # "ok"
    BY <2>1 DEF Answers
  <2>3. /\ exists' = exists /\ parent' = parent /\ accounts' = accounts /\ enabled' = enabled
        /\ owner' = owner /\ member' = member /\ admins' = admins /\ links' = links
        /\ active' = active /\ used' = used /\ reserved' = reserved /\ home' = home
        /\ Op(p)' = Op(p) /\ G(p)' = G(p) /\ X(p)' = X(p) /\ Membership(p)' = Membership(p)
        /\ FixedLocks(p)' = FixedLocks(p) /\ (Walks(p)' <=> Walks(p))
        /\ Unborn' = Unborn /\ Unminted' = Unminted
        /\ \A g : (NewAdmins(g)' <=> NewAdmins(g)) /\ ActiveAdmins(g)' = ActiveAdmins(g)
                  /\ AdminsOf(g)' = AdminsOf(g) /\ Unused(g)' = Unused(g)
                  /\ LinksOf(g)' = LinksOf(g) /\ Administered(g)' = Administered(g)
        /\ \A C : Closed(C)' <=> Closed(C)
    BY <1>1, <2>1, <2>2, Same
  <2>4. /\ \A g \in Groups : OfGroup(g) \in Rows
        /\ \A i \in Links : OfLink(i) \in Rows
        /\ \A u \in Users : OfAccount(u) \in Rows
        /\ BoardRow \in Rows
    BY RowFacts
  <2>5. Update \in Modes /\ NoKeyUpdate \in Modes /\ KeyShare \in Modes
    BY DEF Modes, None, Update, NoKeyUpdate, KeyShare
  <2>6. /\ \A g : There(p, OfGroup(g)) <=> g \in exists
        /\ \A u : There(p, OfAccount(u)) <=> u \in accounts
        /\ \A i : Op(p) # "enrol" => (There(p, OfLink(i)) <=> i \in links)
        /\ There(p, BoardRow) <=> (Op(p) = "delete" => home \in ids[p])
    BY DEF There, OfGroup, OfAccount, OfLink, BoardRow
  <2>7. HeldThere(p)'
    BY <1>1, <2>1, <2>3, <2>4, <2>6 DEF Good, HeldThere
  <2>8. OldGroups(p)'
    BY <1>1, <2>1, <2>3 DEF Good, OldGroups
  <2>9. WalkLocked(p)'
    <3>1. SUFFICES ASSUME Walks(p), NEW k \in ids[p], k \in exists
                   PROVE  held'[p][OfGroup(k)] = Update
                          \/ (pc[p] = "lock" /\ <<OfGroup(k), Update>> \in ToSet(plan'[p]))
      BY <2>1, <2>3 DEF WalkLocked
    <3>2. held[p][OfGroup(k)] = Update \/ (pc[p] = "lock" /\ <<OfGroup(k), Update>> \in ToSet(plan[p]))
      BY <1>1, <2>1, <3>1 DEF Good, WalkLocked, Going
    <3>3. OfGroup(k) \in Rows
      BY <1>1, <2>4, <3>1 DEF TypeOK
    <3>4. held'[p] \in [Rows -> Modes]
      BY <2>1 DEF RequestOK
    <3> QED BY <2>1, <2>5, <2>6, <3>1, <3>2, <3>3, <3>4, ModeFacts
  <2>10. MoveReady(p)'
    BY <1>1, <2>1, <2>3 DEF Good, MoveReady
  <2>11. DeleteReady(p)'
    <3>1. SUFFICES ASSUME Op(p) = "delete" PROVE DeleteReady(p)'
      BY <2>3 DEF DeleteReady
    <3>2. CASE pc[p] = "lock"
      BY <1>1, <2>1, <2>3, <3>2 DEF Good, DeleteReady
    <3>3. CASE pc[p] = "clear"
      <4>1. /\ ids[p] \subseteq exists /\ Closed(ids[p])
            /\ \A m \in joined[p] : m[1] \in ids[p]
            /\ \A m \in member : m[1] \in ids[p] => m \in joined[p]
            /\ \A i \in LinksOf(ids[p]) : Has(p, OfLink(i), Update)
            /\ home \in ids[p] => Has(p, BoardRow, NoKeyUpdate)
        BY <1>1, <3>1, <3>3 DEF Good, DeleteReady
      <4>2. \A i \in LinksOf(ids[p]) : i \in links /\ i \in Links
        BY <1>1 DEF LinksOf, TypeOK
      <4>3. \A i \in LinksOf(ids[p]) : WillHave(p, OfLink(i), Update)
        BY <2>1, <2>4, <2>5, <2>6, <3>1, <4>1, <4>2
      <4>4. home \in ids[p] => WillHave(p, BoardRow, NoKeyUpdate)
        BY <2>1, <2>4, <2>5, <2>6, <4>1
      <4> QED BY <2>1, <2>3, <3>3, <4>1, <4>3, <4>4 DEF DeleteReady, Has, WillHave
    <3> QED BY <2>1, <3>2, <3>3
  <2>12. FixedLocked(p)'
    <3>1. SUFFICES ASSUME Op(p) \in FixedOps, pc[p] = "lock" PROVE FixedLocked(p)'
      BY <1>1, <2>1, <2>3, Kinds DEF FixedLocked, Good, Places
    <3>2. \/ \A l \in ToSet(FixedLocks(p)) : Has(p, l[1], l[2])
          \/ Op(p) = "rename" /\ G(p) \notin exists
      BY <1>1, <3>1 DEF Good, FixedLocked
    <3>3. CASE Op(p) = "rename" /\ G(p) \notin exists
      BY <2>1, <2>3, <3>1, <3>3 DEF FixedLocked
    <3>4. CASE Op(p) = "rename" /\ G(p) \in exists
      <4>1. FixedLocks(p) = <<<<OfGroup(G(p)), Update>>>>
        BY <3>4 DEF FixedLocks, LinkOps, SignUps
      <4>2. ToSet(FixedLocks(p)) = {<<OfGroup(G(p)), Update>>}
        BY <4>1, ShortSeqs
      <4>3. Has(p, OfGroup(G(p)), Update)
        BY <3>2, <3>4, <4>2
      <4>4. OfGroup(G(p)) \in Rows /\ There(p, OfGroup(G(p)))
        BY <1>1, <2>4, <2>6, <3>4 DEF TypeOK
      <4>5. WillHave(p, OfGroup(G(p)), Update)
        BY <2>1, <2>5, <4>3, <4>4
      <4>6. \A l \in ToSet(FixedLocks(p)) : WillHave(p, l[1], l[2])
        BY <4>2, <4>5
      <4> QED BY <2>3, <4>6 DEF FixedLocked, Has, WillHave
    <3>5. CASE Op(p) # "rename"
      <4>1. ASSUME NEW l \in ToSet(FixedLocks(p)) PROVE WillHave(p, l[1], l[2])
        <5>1. FixedLocks(p) \in Seq(Rows \X Modes)
          BY <1>1, <3>1, FixedType, Kinds
        <5>2. l \in Rows \X Modes
          BY <4>1, <5>1 DEF ToSet
        <5>3. ~Passes(p, l[1])
          <6>1. Op(p) \notin {"move", "rename", "create", "delete", "dismiss"}
            BY <3>1, <3>5 DEF FixedOps, LinkOps, SignUps
          <6>2. l[1][1] # "account"
            <7>1. CASE Op(p) \in LinkOps
              <8>1. FixedLocks(p) = <<<<OfGroup(G(p)), NoKeyUpdate>>, <<OfLink(X(p)), Update>>>>
                BY <7>1 DEF FixedLocks, LinkOps, SignUps
              <8>2. ToSet(FixedLocks(p)) = {<<OfGroup(G(p)), NoKeyUpdate>>, <<OfLink(X(p)), Update>>}
                BY <8>1, ShortSeqs
              <8> QED BY <4>1, <8>2 DEF OfGroup, OfLink
            <7>2. CASE Op(p) = "place"
              <8>1. FixedLocks(p) = <<<<BoardRow, NoKeyUpdate>>>>
                    \/ FixedLocks(p) = <<<<OfGroup(X(p)), KeyShare>>, <<BoardRow, NoKeyUpdate>>>>
                BY <7>2 DEF FixedLocks, LinkOps, SignUps
              <8>2. ToSet(FixedLocks(p)) \subseteq {<<OfGroup(X(p)), KeyShare>>, <<BoardRow, NoKeyUpdate>>}
                BY <8>1, ShortSeqs
              <8> QED BY <4>1, <8>2 DEF OfGroup, BoardRow
            <7>3. CASE Op(p) \in {"defaults", "mint"}
              <8>1. FixedLocks(p) = <<<<OfGroup(G(p)), NoKeyUpdate>>>>
                BY <7>3 DEF FixedLocks, LinkOps, SignUps
              <8>2. ToSet(FixedLocks(p)) = {<<OfGroup(G(p)), NoKeyUpdate>>}
                BY <8>1, ShortSeqs
              <8> QED BY <4>1, <8>2 DEF OfGroup
            <7> QED BY <3>1, <3>5, <7>1, <7>2, <7>3 DEF FixedOps
          <6> QED BY <6>1, <6>2 DEF Passes
        <5>4. Has(p, l[1], l[2])
          BY <3>2, <3>5, <4>1
        <5>5. l[1] \in Rows /\ l[2] \in Modes
          BY <5>2
        <5> QED BY <2>1, <5>3, <5>4, <5>5
      <4> QED BY <2>3, <4>1 DEF FixedLocked, Has, WillHave
    <3> QED BY <3>3, <3>4, <3>5
  <2>13. SaveReady(p)' /\ LinkReady(p)' /\ MintReady(p)' /\ MemberReady(p)' /\ LinkKnown(p)'
    BY <1>1, <2>1, <2>3 DEF Good, SaveReady, LinkReady, MintReady, MemberReady, LinkKnown
  <2>14. AccountsLocked(p)'
    <3>1. SUFFICES ASSUME Op(p) \in AdminOps PROVE AccountsLocked(p)'
      BY <2>3 DEF AccountsLocked
    <3>2. pc[p] = "lock"
      BY <1>1, <2>1, <3>1, Kinds DEF Good, Places, GroupOps
    <3>3. /\ ids[p] \subseteq People
          /\ X(p) \in accounts => X(p) \in ids[p]
          /\ \A u \in ids[p] \cap accounts :
                held[p][OfAccount(u)] >= NoKeyUpdate
                \/ (round[p] = 1 /\ <<OfAccount(u), NoKeyUpdate>> \in ToSet(plan[p]))
          /\ Op(p) \in MemberOps => Has(p, OfGroup(G(p)), NoKeyUpdate)
          /\ Op(p) \in Transfers => Has(p, OfGroup(G(p)), Update)
      BY <1>1, <3>1, <3>2 DEF Good, AccountsLocked, Going
    <3>4. \A u \in ids[p] \cap accounts :
                held'[p][OfAccount(u)] >= NoKeyUpdate
                \/ (round[p] = 1 /\ <<OfAccount(u), NoKeyUpdate>> \in ToSet(plan'[p]))
      <4>1. \A u \in accounts : u \in Users
        BY <1>1 DEF TypeOK
      <4> QED BY <2>1, <2>4, <2>5, <2>6, <3>3, <4>1
    <3>5. ASSUME Op(p) \in MemberOps \cup Transfers
          PROVE  OfGroup(G(p)) \in Rows /\ ~Passes(p, OfGroup(G(p)))
      <4>1. G(p) \in Groups
        BY <1>1, <3>5, Named
      <4>2. Op(p) \notin {"move", "rename", "create", "delete", "dismiss"}
        BY <3>5 DEF MemberOps, Transfers
      <4> QED BY <2>4, <4>1, <4>2 DEF Passes, OfGroup
    <3>6. /\ Op(p) \in MemberOps => WillHave(p, OfGroup(G(p)), NoKeyUpdate)
          /\ Op(p) \in Transfers => WillHave(p, OfGroup(G(p)), Update)
      <4>1. \A r \in Rows, m \in Modes : Has(p, r, m) /\ ~Passes(p, r) => WillHave(p, r, m)
        BY <2>1
      <4>2. ASSUME Op(p) \in MemberOps PROVE WillHave(p, OfGroup(G(p)), NoKeyUpdate)
        BY <2>5, <3>3, <3>5, <4>1, <4>2
      <4>3. ASSUME Op(p) \in Transfers PROVE WillHave(p, OfGroup(G(p)), Update)
        BY <2>5, <3>3, <3>5, <4>1, <4>3
      <4> QED BY <4>2, <4>3
    <3> QED BY <2>1, <2>3, <3>2, <3>3, <3>4, <3>6 DEF AccountsLocked, Has, WillHave
  <2>15. DismissReady(p)'
    <3>1. SUFFICES ASSUME Op(p) = "dismiss" PROVE DismissReady(p)'
      BY <2>3 DEF DismissReady
    <3>2. pc[p] = "lock" /\ X(p) \in Users
      BY <1>1, <2>1, <3>1, Named DEF Good, Places, AdminOps
    <3>3. /\ \A g \in Administered(X(p)) : NewAdmins(g) \/ (AdminsOf(g) \cap Users) \subseteq ids[p]
          /\ round[p] = 2 => \A g \in Administered(X(p)) : Has(p, OfGroup(g), NoKeyUpdate)
          /\ round[p] = 3 => /\ \A g \in Administered(X(p)) : held[p][OfGroup(g)] >= NoKeyUpdate
                             /\ X(p) \in accounts => Has(p, OfAccount(X(p)), Update)
      BY <1>1, <3>1, <3>2 DEF Good, DismissReady, Going
    <3>4. \A g \in Administered(X(p)) : g \in exists /\ OfGroup(g) \in Rows
      BY <1>1, <2>4 DEF Administered, TypeOK
    <3>5. /\ round[p] = 2 => \A g \in Administered(X(p)) : WillHave(p, OfGroup(g), NoKeyUpdate)
          /\ round[p] = 3 => /\ \A g \in Administered(X(p)) : held'[p][OfGroup(g)] >= NoKeyUpdate
                             /\ X(p) \in accounts => WillHave(p, OfAccount(X(p)), Update)
      <4>1. ASSUME round[p] = 2, NEW g \in Administered(X(p)) PROVE WillHave(p, OfGroup(g), NoKeyUpdate)
        BY <2>1, <2>5, <2>6, <3>3, <3>4, <4>1
      <4>2. ASSUME round[p] = 3, NEW g \in Administered(X(p)) PROVE held'[p][OfGroup(g)] >= NoKeyUpdate
        BY <2>1, <3>3, <3>4, <4>2
      <4>3. ASSUME round[p] = 3, X(p) \in accounts PROVE WillHave(p, OfAccount(X(p)), Update)
        BY <2>1, <2>4, <2>5, <2>6, <3>2, <3>3, <4>3
      <4> QED BY <4>1, <4>2, <4>3
    <3> QED BY <2>1, <2>3, <3>2, <3>3, <3>5 DEF DismissReady, Has, WillHave
  <2>16. Places(p)'
    <3>1. pc[p] \notin {"write", "collect"}
      BY <2>1
    <3> QED BY <1>1, <2>1, <2>3, <3>1 DEF Good, Places
  <2>17. Good(p)'
    BY <2>7, <2>8, <2>9, <2>10, <2>11, <2>12, <2>13, <2>14, <2>15, <2>16 DEF Good
  <2> QED BY <2>1, <2>2, <2>17, QuietStep
<1> QED BY <1>2, <1>3

\* A delete has the first half of the invariant to answer for.
LEMMA OfDelete ==
    ASSUME NEW p, Op(p)' = "delete"
    PROVE  /\ MoveReady(p)' /\ FixedLocked(p)' /\ SaveReady(p)' /\ LinkReady(p)' /\ MintReady(p)'
           /\ LinkKnown(p)' /\ AccountsLocked(p)' /\ MemberReady(p)' /\ DismissReady(p)'
<1>1. /\ Op(p)' \notin FixedOps /\ Op(p)' \notin LinkOps /\ Op(p)' \notin AdminOps
      /\ Op(p)' \notin MemberOps \cup Transfers
  BY Kinds, "delete" \in GroupOps DEF GroupOps, LinkOps, SignUps, FixedOps
<1> QED BY <1>1 DEF MoveReady, FixedLocked, SaveReady, LinkReady, MintReady, LinkKnown,
                   AccountsLocked, MemberReady, DismissReady

\* With the first walk's groups locked nobody adds one below them unseen.
LEMMA RewalkKeeps ==
    ASSUME NEW p \in Procs, GroupsInv, Rewalk(p)
    PROVE  GroupsInv'
<1>1. TypeOK /\ Good(p) /\ Fresh
  BY DEF GroupsInv
<1>2. /\ pc[p] = "lock" /\ plan[p] = <<>> /\ Op(p) = "delete" /\ UNCHANGED <<tables, req, seen, joined>>
  BY DEF Rewalk, Locked
<1> DEFINE all == ids[p] \cup SubtreeIds(G(p))
<1>3. \/ all # ids[p]
         /\ ids' = [ids EXCEPT ![p] = all]
         /\ plan' = [plan EXCEPT ![p] = ByPk("group", all, Update)]
         /\ round' = [round EXCEPT ![p] = 2]
         /\ UNCHANGED <<held, pc>>
      \/ all = ids[p] /\ G(p) \in exists /\ owner[G(p)] = seen[p]
         /\ Answer(p, "collect") /\ UNCHANGED <<held, ids, round, plan>>
      \/ all = ids[p] /\ ~(G(p) \in exists /\ owner[G(p)] = seen[p])
         /\ Answer(p, IF G(p) \in exists THEN "refused" ELSE "gone") /\ Release(p, {})
         /\ UNCHANGED <<ids, round, plan>>
  BY DEF Rewalk
<1>4. /\ G(p) \in Groups /\ SubtreeIds(G(p)) \subseteq exists \cup {G(p)} /\ G(p) \in SubtreeIds(G(p))
      /\ Closed(SubtreeIds(G(p))) /\ exists \subseteq Groups
  <2>1. G(p) \in Groups /\ exists \subseteq Groups
    BY <1>1, <1>2, Named DEF TypeOK, GroupOps
  <2> QED BY <2>1, SubtreeFacts
<1>5. Walks(p) /\ ids[p] \subseteq Groups
  BY <1>1, <1>2 DEF Good, Places, Walks
<1>6. all \subseteq Groups
  BY <1>4, <1>5
<1>7. G(p) \in ids[p] /\ ids[p] \cap Unborn = {} /\ G(p) \notin Unborn
  BY <1>1, <1>2, <1>5 DEF Good, DeleteReady, OldGroups, Going
<1>8. \A k \in ids[p] \cap exists : held[p][OfGroup(k)] = Update
  BY <1>1, <1>2, <1>5 DEF Good, WalkLocked, Going, ToSet
<1> HIDE DEF all
<1>9. ASSUME ids' = [ids EXCEPT ![p] = all], plan' = [plan EXCEPT ![p] = ByPk("group", all, Update)],
             round' = [round EXCEPT ![p] = 2], UNCHANGED <<held, pc>>
      PROVE  GroupsInv'
  <2>1. /\ ids'[p] = all /\ plan'[p] = ByPk("group", all, Update) /\ round'[p] = 2
        /\ pc'[p] = "lock" /\ held'[p] = held[p]
    BY <1>1, <1>2, <1>9 DEF TypeOK
  <2>2. Own(p)
    BY <1>1, <1>2, <1>9, <2>1 DEF TypeOK, Own
  <2>3. plan'[p] \in Seq(Rows \X Modes) /\ \A k \in all : <<OfGroup(k), Update>> \in ToSet(plan'[p])
    <3>1. Update \in Modes
      BY DEF Modes, None, Update
    <3> QED BY <1>6, <2>1, <3>1, GroupsByPk
  <2>4. RequestOK(p)'
    <3>1. RequestOK(p)
      BY <1>1, TypeParts
    <3> QED BY <1>2, <1>6, <2>1, <2>3, <3>1 DEF RequestOK, Pcs
  <2>5. LockStep(p)
    BY <1>1, <2>1, NoLockTaken
  <2>6. UNCHANGED tables /\ pc[p] \notin Answers /\ pc'[p] # "ok"
    BY <1>2, <2>1 DEF Answers
  <2>7. /\ exists' = exists /\ accounts' = accounts /\ Op(p)' = Op(p) /\ G(p)' = G(p) /\ X(p)' = X(p)
        /\ Unborn' = Unborn /\ (Walks(p)' <=> Walks(p))
    BY <1>1, <2>2, <2>6, Same
  <2>8. HeldThere(p)'
    BY <1>1, <2>1, <2>7 DEF Good, HeldThere
  <2>9. OldGroups(p)'
    <3>1. all \cap Unborn = {}
      BY <1>1, <1>4, <1>7 DEF all, Fresh
    <3> QED BY <1>2, <1>7, <2>1, <2>7, <3>1 DEF OldGroups
  <2>10. WalkLocked(p)'
    BY <2>1, <2>3, <2>7 DEF WalkLocked
  <2>11. DeleteReady(p)'
    BY <1>7, <2>1, <2>7 DEF DeleteReady, all
  <2>12. Places(p)'
    BY <1>1, <1>2, <1>6, <2>1, <2>7, Kinds DEF Good, Places, GroupOps
  <2>13. Good(p)'
    BY <1>2, <2>7, <2>8, <2>9, <2>10, <2>11, <2>12, OfDelete DEF Good
  <2> QED BY <2>2, <2>4, <2>5, <2>6, <2>13, QuietStep
<1>10. ASSUME all = ids[p], G(p) \in exists, Answer(p, "collect"), UNCHANGED <<held, ids, round, plan>>
       PROVE  GroupsInv'
  <2>1. /\ pc'[p] = "collect" /\ held'[p] = held[p] /\ ids'[p] = ids[p] /\ plan'[p] = plan[p]
        /\ round'[p] = round[p]
    BY <1>1, <1>10 DEF TypeOK, Answer
  <2>2. Own(p)
    BY <1>1, <1>2, <1>10, <2>1 DEF TypeOK, Own, Answer
  <2>3. RequestOK(p)'
    <3>1. RequestOK(p)
      BY <1>1, TypeParts
    <3> QED BY <1>2, <2>1, <3>1 DEF RequestOK, Pcs
  <2>4. LockStep(p)
    BY <1>1, <2>1, NoLockTaken
  <2>5. UNCHANGED tables /\ pc[p] \notin Answers /\ pc'[p] # "ok"
    BY <1>2, <2>1 DEF Answers
  <2>6. /\ exists' = exists /\ accounts' = accounts /\ Op(p)' = Op(p) /\ G(p)' = G(p) /\ X(p)' = X(p)
        /\ Unborn' = Unborn /\ (Walks(p)' <=> Walks(p)) /\ \A C : Closed(C)' <=> Closed(C)
    BY <1>1, <2>2, <2>5, Same
  <2>7. HeldThere(p)' /\ OldGroups(p)' /\ WalkLocked(p)'
    BY <1>1, <1>2, <1>7, <1>8, <2>1, <2>6 DEF Good, HeldThere, OldGroups, WalkLocked
  <2>8. DeleteReady(p)'
    <3>1. SubtreeIds(G(p)) \in SUBSET ids[p] /\ G(p) \in SubtreeIds(G(p)) /\ Closed(SubtreeIds(G(p)))
      BY <1>4, <1>10 DEF all
    <3>2. \E C \in SUBSET ids[p] : G(p) \in C /\ Closed(C)
      BY <3>1
    <3>3. \E C \in SUBSET ids[p] : G(p) \in C /\ Closed(C)'
      BY <2>6, <3>2
    <3> QED BY <1>10, <2>1, <2>6, <3>3 DEF DeleteReady, Closed
  <2>9. Places(p)'
    BY <1>1, <1>2, <2>1, <2>6, Kinds DEF Good, Places, GroupOps
  <2>10. Good(p)'
    BY <1>2, <2>6, <2>7, <2>8, <2>9, OfDelete DEF Good
  <2> QED BY <2>2, <2>3, <2>4, <2>5, <2>10, QuietStep
<1>11. ASSUME Answer(p, IF G(p) \in exists THEN "refused" ELSE "gone"), Release(p, {}),
              UNCHANGED <<ids, round, plan>>
       PROVE  GroupsInv'
  <2>1. PICK a \in {"refused", "gone"} : Answer(p, a)
    BY <1>11
  <2>2. End(p, a)
    BY <1>2, <1>11, <2>1 DEF End
  <2>3. pc[p] \notin Answers \cup {"ask"} /\ UNCHANGED tables
    BY <1>2 DEF Answers
  <2> QED BY <2>2, <2>3, EndKeeps
<1> QED BY <1>3, <1>9, <1>10, <1>11

\* Under the subtree's locks the collector finds all there is in it.
LEMMA CollectKeeps ==
    ASSUME NEW p \in Procs, GroupsInv, Collect(p)
    PROVE  GroupsInv'
<1>1. TypeOK /\ Good(p) /\ Fresh
  BY DEF GroupsInv
<1> DEFINE below == SubtreeIds(G(p))
           gone == SetToSeq(LinksOf(below))
           rows == [n \in DOMAIN gone |-> <<OfLink(gone[n]), Update>>]
<1>2. /\ pc[p] = "collect" /\ UNCHANGED <<tables, held, req, seen, round>>
      /\ ids' = [ids EXCEPT ![p] = below]
      /\ joined' = [joined EXCEPT ![p] = {m \in member : m[1] \in below}]
      /\ plan' = [plan EXCEPT ![p] = rows \o <<<<BoardRow, NoKeyUpdate>>>>]
      /\ pc' = [pc EXCEPT ![p] = "clear"]
  BY DEF Collect, Answer
<1>3. Op(p) = "delete" /\ Walks(p)
  BY <1>1, <1>2 DEF Good, Places, Walks
<1>4. PICK C \in SUBSET ids[p] : G(p) \in C /\ Closed(C)
  BY <1>1, <1>2, <1>3 DEF Good, DeleteReady
<1>5. /\ G(p) \in exists /\ exists \subseteq Groups
      /\ below \subseteq exists /\ Closed(below) /\ below \subseteq ids[p]
  <2>1. G(p) \in exists /\ exists \subseteq Groups
    BY <1>1, <1>2, <1>3 DEF Good, DeleteReady, TypeOK
  <2> QED BY <1>4, <2>1, SubtreeFacts
<1> HIDE DEF below
<1>6. LinksOf(below) \subseteq Links /\ IsFiniteSet(LinksOf(below))
  <2>1. LinksOf(below) \in SUBSET Links
    BY <1>1 DEF LinksOf, TypeOK
  <2> QED BY <2>1, FiniteAssumption, FS_Subset
<1>7. gone \in Seq(LinksOf(below)) /\ \A i \in LinksOf(below) : \E n \in DOMAIN gone : gone[n] = i
  BY <1>6, SetToSeqFacts
<1> HIDE DEF gone
<1>8. /\ rows \in Seq(Rows \X Modes)
      /\ \A i \in LinksOf(below) : <<OfLink(i), Update>> \in ToSet(rows)
      /\ <<<<BoardRow, NoKeyUpdate>>>> \in Seq(Rows \X Modes)
      /\ <<BoardRow, NoKeyUpdate>> \in ToSet(<<<<BoardRow, NoKeyUpdate>>>>)
  <2>1. Update \in Modes /\ NoKeyUpdate \in Modes
    BY DEF Modes, None, Update, NoKeyUpdate
  <2>2. DOMAIN gone = 1 .. Len(gone) /\ Len(gone) \in Nat /\ \A n \in DOMAIN gone : gone[n] \in Links
    BY <1>6, <1>7
  <2>3. \A n \in DOMAIN gone : <<OfLink(gone[n]), Update>> \in Rows \X Modes
    BY <2>1, <2>2, RowFacts
  <2>4. rows \in Seq(Rows \X Modes)
    BY <2>2, <2>3
  <2>5. \A i \in LinksOf(below) : <<OfLink(i), Update>> \in ToSet(rows)
    BY <1>7 DEF ToSet
  <2> QED BY <2>1, <2>4, <2>5, RowFacts, ShortSeqs
<1> HIDE DEF rows
<1>9. /\ pc'[p] = "clear" /\ ids'[p] = below /\ joined'[p] = {m \in member : m[1] \in below}
      /\ plan'[p] = rows \o <<<<BoardRow, NoKeyUpdate>>>> /\ held'[p] = held[p] /\ round'[p] = round[p]
  BY <1>1, <1>2 DEF TypeOK
<1>10. /\ plan'[p] \in Seq(Rows \X Modes)
       /\ \A i \in LinksOf(below) : <<OfLink(i), Update>> \in ToSet(plan'[p])
       /\ <<BoardRow, NoKeyUpdate>> \in ToSet(plan'[p])
  BY <1>8, <1>9, Joined
<1>11. Own(p)
  BY <1>1, <1>2, <1>9 DEF TypeOK, Own
<1>12. RequestOK(p)'
  <2>1. RequestOK(p)
    BY <1>1, TypeParts
  <2>2. member \subseteq Groups \X People
    BY <1>1 DEF TypeOK, People
  <2> QED BY <1>2, <1>5, <1>9, <1>10, <2>1, <2>2 DEF RequestOK, Pcs
<1>13. LockStep(p)
  BY <1>1, <1>9, NoLockTaken
<1>14. UNCHANGED tables /\ pc[p] \notin Answers /\ pc'[p] # "ok"
  BY <1>2, <1>9 DEF Answers
<1>15. /\ exists' = exists /\ accounts' = accounts /\ member' = member /\ home' = home
       /\ Op(p)' = Op(p) /\ G(p)' = G(p) /\ X(p)' = X(p)
       /\ Unborn' = Unborn /\ (Walks(p)' <=> Walks(p))
       /\ (\A C1 : Closed(C1)' <=> Closed(C1)) /\ \A g : LinksOf(g)' = LinksOf(g)
  BY <1>1, <1>11, <1>14, Same
<1>16. HeldThere(p)'
  BY <1>1, <1>9, <1>15 DEF Good, HeldThere
<1>17. OldGroups(p)' /\ WalkLocked(p)'
  <2>1. below \cap Unborn = {} /\ G(p) \notin Unborn
    BY <1>1, <1>5 DEF Fresh
  <2>2. \A k \in below : held[p][OfGroup(k)] = Update
    BY <1>1, <1>2, <1>3, <1>5 DEF Good, WalkLocked, Going
  <2> QED BY <1>3, <1>9, <1>15, <2>1, <2>2 DEF OldGroups, WalkLocked
<1>18. DeleteReady(p)'
  <2>1. \A i \in LinksOf(below) : WillHave(p, OfLink(i), Update)
    BY <1>10 DEF WillHave
  <2>2. WillHave(p, BoardRow, NoKeyUpdate)
    BY <1>10 DEF WillHave
  <2> QED BY <1>5, <1>9, <1>15, <2>1, <2>2 DEF DeleteReady, Has, WillHave
<1>19. Places(p)'
  BY <1>1, <1>3, <1>5, <1>9, <1>15, Kinds DEF Good, Places, GroupOps
<1>20. Good(p)'
  BY <1>3, <1>15, <1>16, <1>17, <1>18, <1>19, OfDelete DEF Good
<1> QED BY <1>11, <1>12, <1>13, <1>14, <1>20, QuietStep

\* What is so when a request on a group goes on to write.
LEMMA VerdictFacts ==
    ASSUME NEW p
    PROVE  /\ Verdict(p) \in {"gone", "refused", "release", "write"}
           /\ Verdict(p) = "release" => Confirms(p) /\ X(p) \notin active \ used
           /\ Verdict(p) = "write" =>
                 /\ Op(p) \in {"move", "rename"} => G(p) \in exists
                 /\ Op(p) = "move" => MayMove(G(p), X(p))
                 /\ Op(p) = "create" => MayCreateUnder(X(p))
                 /\ Op(p) \in LinkOps => X(p) \in active \ used
                 /\ Op(p) = "mint" => ~(Cardinality(Unused(G(p))) >= MaxActive)
BY DEF Verdict, LinkOps, SignUps, Confirms

\* The unused links of a group can be counted.
LEMMA UnusedFinite ==
    ASSUME TypeOK, NEW g
    PROVE  IsFiniteSet(Unused(g)) /\ Cardinality(Unused(g)) \in Nat
<1>1. Unused(g) \in SUBSET Links
  BY DEF TypeOK, Unused, LinksOf
<1> QED BY <1>1, FiniteAssumption, FS_Subset, FS_CardinalityType

\* A request judges what it has locked and read again.
LEMMA JudgeKeeps ==
    ASSUME NEW p \in Procs, GroupsInv, Judge(p)
    PROVE  GroupsInv'
<1>1. TypeOK /\ Good(p) /\ Fresh
  BY DEF GroupsInv
<1>2. /\ pc[p] = "lock" /\ plan[p] = <<>> /\ Op(p) \in GroupOps \ {"delete"} /\ UNCHANGED tables
      /\ Verdict(p) # "release"
  BY DEF Judge, Locked
<1>3. CASE Verdict(p) # "write"
  <2>1. Verdict(p) \in {"gone", "refused"}
    BY <1>2, <1>3, VerdictFacts
  <2>2. End(p, Verdict(p))
    BY <1>3 DEF Judge
  <2>3. pc[p] \notin Answers \cup {"ask"} /\ Verdict(p) \in {"refused", "gone", "aborted"}
    BY <1>2, <2>1 DEF Answers
  <2> QED BY <1>2, <2>2, <2>3, EndKeeps
<1>4. CASE Verdict(p) = "write"
  <2>1. /\ pc' = [pc EXCEPT ![p] = "write"] /\ seen' = [seen EXCEPT ![p] = Reloaded(p)]
        /\ UNCHANGED <<held, req, ids, joined, round, plan>>
    BY <1>4 DEF Judge, Answer
  <2>2. /\ pc'[p] = "write" /\ seen'[p] = parent[G(p)] /\ held'[p] = held[p] /\ ids'[p] = ids[p]
        /\ plan'[p] = plan[p] /\ round'[p] = round[p]
    BY <1>1, <2>1 DEF TypeOK, Reloaded
  <2>3. Own(p)
    BY <1>1, <2>1 DEF TypeOK, Own
  <2>4. G(p) \in Groups
    BY <1>1, <1>2, Named
  <2>5. RequestOK(p)'
    <3>1. RequestOK(p)
      BY <1>1, TypeParts
    <3>2. parent[G(p)] \in Groups \cup {Top} \cup People
      BY <1>1, <2>4 DEF TypeOK
    <3> QED BY <2>1, <2>2, <3>1, <3>2 DEF RequestOK, Pcs
  <2>6. LockStep(p)
    BY <1>1, <2>1, NoLockTaken
  <2>7. pc[p] \notin Answers /\ pc'[p] # "ok"
    BY <1>2, <2>2 DEF Answers
  <2>8. /\ exists' = exists /\ parent' = parent /\ accounts' = accounts /\ active' = active /\ used' = used
        /\ Op(p)' = Op(p) /\ G(p)' = G(p) /\ X(p)' = X(p) /\ FixedLocks(p)' = FixedLocks(p)
        /\ Unborn' = Unborn /\ Unminted' = Unminted /\ (Walks(p)' <=> Walks(p))
        /\ \A g : Unused(g)' = Unused(g)
    BY <1>1, <1>2, <2>3, <2>7, Same
  <2>9. ToSet(plan[p]) = {}
    BY <1>2, ShortSeqs
  <2>10. Op(p) \notin AdminOps /\ Op(p) # "delete"
    BY <1>2, Kinds
  <2>11. HeldThere(p)' /\ OldGroups(p)'
    BY <1>1, <1>2, <2>2, <2>8 DEF Good, HeldThere, OldGroups, Going
  <2>12. WalkLocked(p)'
    BY <1>1, <1>2, <2>2, <2>8, <2>9 DEF Good, WalkLocked, Going
  <2>13. MoveReady(p)'
    <3>1. Op(p) = "move" => X(p) \in exists \cup {Top}
      BY <1>1, <1>4, <2>4, VerdictFacts DEF MayMove, TypeOK
    <3>2. Op(p) = "create" => X(p) \in exists \cup {Top}
      BY <1>4, VerdictFacts DEF MayCreateUnder
    <3>3. Op(p) = "move" => G(p) \in exists
      BY <1>4, VerdictFacts
    <3> QED BY <1>1, <1>2, <2>2, <2>8, <3>1, <3>2, <3>3 DEF Good, MoveReady, Going
  <2>14. DeleteReady(p)'
    BY <2>8, <2>10 DEF DeleteReady
  <2>15. FixedLocked(p)'
    <3>1. Op(p) \in FixedOps => \A l \in ToSet(FixedLocks(p)) : Has(p, l[1], l[2])
      BY <1>1, <1>2, <1>4, VerdictFacts DEF Good, FixedLocked
    <3> QED BY <2>2, <2>8, <3>1 DEF FixedLocked, Has
  <2>16. SaveReady(p)' /\ LinkReady(p)'
    BY <1>4, <2>2, <2>8, VerdictFacts DEF SaveReady, LinkReady
  <2>17. MintReady(p)'
    <3>1. Op(p) = "mint" => Cardinality(Unused(G(p))) < MaxActive
      BY <1>1, <1>4, VerdictFacts, UnusedFinite, StartAssumption
    <3> QED BY <2>8, <3>1 DEF MintReady
  <2>18. LinkKnown(p)'
    BY <1>1, <1>2, <2>2, <2>8 DEF Good, LinkKnown
  <2>19. AccountsLocked(p)' /\ MemberReady(p)' /\ DismissReady(p)'
    BY <2>8, <2>10 DEF AccountsLocked, MemberReady, DismissReady, AdminOps
  <2>20. Places(p)'
    BY <1>1, <1>2, <2>2, <2>8, <2>10 DEF Good, Places
  <2>21. Good(p)'
    BY <2>11, <2>12, <2>13, <2>14, <2>15, <2>16, <2>17, <2>18, <2>19, <2>20 DEF Good
  <2> QED BY <1>2, <2>3, <2>5, <2>6, <2>7, <2>21, QuietStep
<1> QED BY <1>3, <1>4

\* A confirmed sign-up begins a second transaction.
LEMMA ConfirmKeeps ==
    ASSUME NEW p \in Procs, GroupsInv, Confirm(p)
    PROVE  GroupsInv'
<1>1. TypeOK /\ Good(p) /\ Fresh
  BY DEF GroupsInv
<1>2. pc[p] = "waiting" /\ Op(p) = "enrol" /\ UNCHANGED <<tables, held, req, seen, ids, joined>>
  BY <1>1 DEF Confirm, Good, Places
<1>3. /\ pc'[p] \in {"lock", "refused"} /\ pc' = [pc EXCEPT ![p] = pc'[p]]
      /\ round'[p] \in {round[p], 2} /\ round' = [round EXCEPT ![p] = round'[p]]
      /\ plan'[p] \in {plan[p], FixedLocks(p)} /\ plan' = [plan EXCEPT ![p] = plan'[p]]
      /\ pc'[p] = "lock" => plan'[p] = FixedLocks(p)
      /\ pc'[p] = "refused" => round'[p] = round[p]
  <2>1. CASE <<X(p), p>> \in reserved
    BY <1>1, <2>1 DEF Confirm, TypeOK, Answer
  <2>2. CASE <<X(p), p>> \notin reserved
    BY <1>1, <2>2 DEF Confirm, TypeOK, Answer
  <2> QED BY <2>1, <2>2
<1>4. held'[p] = held[p] /\ ids'[p] = ids[p] /\ seen'[p] = seen[p] /\ joined'[p] = joined[p]
  BY <1>2
<1>5. Own(p)
  BY <1>1, <1>2, <1>3 DEF TypeOK, Own
<1>6. Op(p) \in GroupOps /\ Op(p) \in LinkOps /\ Op(p) \in FixedOps /\ ~Walks(p)
      /\ Op(p) \notin AdminOps
  BY <1>2, Kinds DEF GroupOps, LinkOps, SignUps, FixedOps, Walks
<1>7. FixedLocks(p) \in Seq(Rows \X Modes)
  BY <1>1, <1>6, FixedType
<1>8. RequestOK(p)'
  <2>1. RequestOK(p)
    BY <1>1, TypeParts
  <2>2. pc'[p] \in Pcs
    BY <1>3 DEF Pcs, Answers
  <2> QED BY <1>3, <1>4, <1>7, <2>1, <2>2 DEF RequestOK
<1>9. LockStep(p)
  BY <1>1, <1>4, NoLockTaken
<1>10. UNCHANGED tables /\ pc[p] \notin Answers /\ pc'[p] # "ok"
  BY <1>2, <1>3 DEF Answers
<1>11. /\ exists' = exists /\ accounts' = accounts /\ Op(p)' = Op(p) /\ G(p)' = G(p) /\ X(p)' = X(p)
       /\ FixedLocks(p)' = FixedLocks(p) /\ (Walks(p)' <=> Walks(p)) /\ Unminted' = Unminted
  BY <1>1, <1>5, <1>10, Same
<1>12. HeldThere(p)'
  BY <1>1, <1>4, <1>11 DEF Good, HeldThere
<1>13. LinkKnown(p)'
  BY <1>1, <1>2, <1>3, <1>11 DEF Good, LinkKnown
<1>14. CASE pc'[p] = "refused"
  <2>1. Good(p)'
    BY <1>3, <1>4, <1>5, <1>12, <1>13, <1>14, EndedGood DEF Answers
  <2> QED BY <1>5, <1>8, <1>9, <1>10, <2>1, QuietStep
<1>15. CASE pc'[p] = "lock"
  <2>1. FixedLocked(p)'
    <3>1. ASSUME NEW l \in ToSet(FixedLocks(p)) PROVE WillHave(p, l[1], l[2])
      <4>1. l \in Rows \X Modes
        BY <1>7, <3>1 DEF ToSet
      <4>2. <<l[1], l[2]>> = l
        BY <4>1
      <4> QED BY <1>3, <1>15, <3>1, <4>2 DEF WillHave
    <3> QED BY <1>11, <3>1 DEF FixedLocked, Has, WillHave
  <2>2. OldGroups(p)' /\ WalkLocked(p)' /\ MoveReady(p)' /\ DeleteReady(p)'
    BY <1>2, <1>6, <1>11 DEF OldGroups, WalkLocked, MoveReady, DeleteReady
  <2>3. SaveReady(p)' /\ LinkReady(p)' /\ MintReady(p)' /\ AccountsLocked(p)' /\ MemberReady(p)' /\ DismissReady(p)'
    BY <1>6, <1>11, <1>15 DEF SaveReady, LinkReady, MintReady, AccountsLocked, MemberReady, DismissReady, AdminOps
  <2>4. Places(p)'
    BY <1>1, <1>2, <1>6, <1>11, <1>15 DEF Good, Places
  <2>5. Good(p)'
    BY <1>12, <1>13, <2>1, <2>2, <2>3, <2>4 DEF Good
  <2> QED BY <1>5, <1>8, <1>9, <1>10, <2>5, QuietStep
<1> QED BY <1>3, <1>14, <1>15

\* A transaction aborted for a deadlock changes nothing.
LEMMA AbortKeeps ==
    ASSUME NEW p \in Procs, GroupsInv, Abort(p)
    PROVE  GroupsInv'
<1>1. PICK S \in SUBSET Procs : p \in S /\ WaitCycle(S)
  BY DEF Abort
<1>2. Wanted(p) # {}
  BY <1>1 DEF WaitCycle, WaitsFor
<1>3. pc[p] \in {"lock", "clear", "write"}
  BY <1>2 DEF Wanted
<1>4. pc[p] \notin Answers \cup {"ask"}
  BY <1>3 DEF Answers
<1> QED BY <1>4, EndKeeps DEF Abort

\* A reservation given back was its own.
LEMMA GiveBackKeeps ==
    ASSUME NEW p \in Procs, GroupsInv, GiveBack(p)
    PROVE  GroupsInv'
<1>1. TypeOK /\ Good(p) /\ GroupsInOrder
  BY DEF GroupsInv
<1>2. /\ pc[p] = "lock" /\ Op(p) = "enrol" /\ End(p, "refused")
      /\ reserved' = reserved \ {<<X(p), p>>}
      /\ exists' = exists /\ parent' = parent /\ accounts' = accounts /\ enabled' = enabled
      /\ owner' = owner /\ member' = member /\ admins' = admins /\ links' = links
      /\ active' = active /\ used' = used /\ home' = home
  BY DEF GiveBack, Locked, tree, people, roles
<1>3. /\ Own(p) /\ RequestOK(p)' /\ LockStep(p) /\ pc'[p] = "refused"
      /\ \A r \in Rows : held'[p][r] = None
      /\ ids'[p] = ids[p] /\ round'[p] = round[p]
  <2>1. "refused" \in Answers \cup {"waiting"}
    BY DEF Answers
  <2> QED BY <1>1, <1>2, <2>1, Ended
<1>4. TablesOK'
  BY <1>1, <1>2, TypeParts DEF TablesOK
<1>5. GroupsInOrder'
  <2>1. \A g : Unused(g)' = Unused(g)
    BY <1>2 DEF Unused, LinksOf
  <2> QED BY <1>1, <1>2, <2>1 DEF GroupsInOrder
<1>6. pc[p] \notin Answers /\ pc'[p] # "ok"
  BY <1>2, <1>3 DEF Answers
<1>7. Effects(p)
  BY <1>2, <1>6 DEF Effects, TreeEffects, LinkEffects, PeopleEffects
<1>8. HeldThere(p)'
  BY <1>3, RowFacts DEF HeldThere
<1>9. LinkKnown(p)'
  <2>1. Unminted' \subseteq Unminted /\ Op(p)' = Op(p) /\ X(p)' = X(p)
    BY <1>1, <1>3, <1>6, Progress, OwnOthers
  <2> QED BY <1>1, <1>2, <1>3, <2>1 DEF Good, LinkKnown
<1>10. Good(p)'
  BY <1>3, <1>8, <1>9, EndedGood DEF Answers
<1> QED BY <1>3, <1>4, <1>5, <1>7, <1>10, StepKeeps

\* A transaction that has written and ends.
LEMMA FinishKeeps ==
    ASSUME NEW p \in Procs, GroupsInv, NEW a \in {"ok", "waiting"}, End(p, a), pc[p] \notin Answers \cup {"ask"},
           TablesOK', TreeEffects(p), LinkEffects(p), PeopleEffects(p), GroupsInOrder',
           a = "waiting" => Op(p) = "enrol",
           a = "ok" /\ Op(p) \in LinkOps => X(p) \notin active' \ used'
    PROVE  GroupsInv'
<1>1. TypeOK /\ LinkKnown(p)
  BY DEF GroupsInv, Good
<1>2. /\ Own(p) /\ RequestOK(p)' /\ LockStep(p) /\ pc'[p] = a /\ \A r \in Rows : held'[p][r] = None
      /\ ids'[p] = ids[p] /\ round'[p] = round[p]
  <2>1. a \in Answers \cup {"waiting"}
    BY DEF Answers
  <2> QED BY <1>1, <2>1, Ended
<1>3. pc'[p] \in (Answers \cup {"waiting"}) \ {"error"} /\ pc'[p] \notin {"ask", "gone"}
  BY <1>2 DEF Answers
<1>4. HeldThere(p)'
  BY <1>2, RowFacts DEF HeldThere
<1>5. Effects(p)
  BY DEF Effects
<1>6. LinkKnown(p)'
  <2>1. Unminted' \subseteq Unminted /\ Op(p)' = Op(p) /\ X(p)' = X(p)
    BY <1>1, <1>2, Progress, OwnOthers
  <2>2. Op(p) \in LinkOps => pc[p] # "gone" /\ pc[p] # "ask"
    BY DEF Answers
  <2> QED BY <1>1, <1>2, <2>1, <2>2 DEF LinkKnown
<1>7. Good(p)'
  BY <1>2, <1>3, <1>4, <1>6, EndedGood
<1> QED BY <1>2, <1>5, <1>7, StepKeeps

\* The row of a rename, and the group of a placement, held.
LEMMA RowsFixed ==
    ASSUME NEW p \in Procs, TypeOK, FixedLocked(p), Places(p), pc[p] = "write"
    PROVE  /\ Op(p) = "rename" => held[p][OfGroup(G(p))] = Update
           /\ Op(p) = "place" /\ X(p) # Top => held[p][OfGroup(X(p))] # None
<1>1. \A r, m : Has(p, r, m) => held[p][r] >= m
  BY ShortSeqs DEF Has, Places
<1>2. ASSUME Op(p) = "rename" PROVE held[p][OfGroup(G(p))] = Update
  <2>1. FixedLocks(p) = <<<<OfGroup(G(p)), Update>>>>
    BY <1>2 DEF FixedLocks, LinkOps, SignUps
  <2>2. <<OfGroup(G(p)), Update>> \in ToSet(FixedLocks(p))
    BY <2>1, ShortSeqs
  <2>3. Has(p, OfGroup(G(p)), Update)
    BY <1>2, <2>2 DEF FixedLocked, FixedOps
  <2>4. G(p) \in Groups
    BY <1>2, Named DEF GroupOps
  <2>5. held[p][OfGroup(G(p))] \in Modes
    BY <2>4, RowFacts DEF TypeOK
  <2> QED BY <1>1, <2>3, <2>5, ModeFacts
<1>3. ASSUME Op(p) = "place", X(p) # Top PROVE held[p][OfGroup(X(p))] # None
  <2>1. FixedLocks(p) = <<<<OfGroup(X(p)), KeyShare>>, <<BoardRow, NoKeyUpdate>>>>
    BY <1>3 DEF FixedLocks
  <2>2. <<OfGroup(X(p)), KeyShare>> \in ToSet(FixedLocks(p))
    BY <2>1, ShortSeqs
  <2>3. Has(p, OfGroup(X(p)), KeyShare)
    BY <1>3, <2>2 DEF FixedLocked, FixedOps
  <2>4. X(p) \in Groups
    BY <1>3, Named DEF GroupOps
  <2>5. held[p][OfGroup(X(p))] \in Modes
    BY <2>4, RowFacts DEF TypeOK
  <2> QED BY <1>1, <2>3, <2>5, ModeFacts
<1> QED BY <1>2, <1>3

\* What a request writes points at is still there: COMMIT finds every foreign key.
LEMMA CommitFacts ==
    ASSUME NEW p \in Procs, GroupsInv, Commit(p)
    PROVE  /\ Points(p) \subseteq exists /\ Write(p) /\ End(p, Outcome(p))
           /\ pc[p] = "write" /\ Op(p) \in GroupOps \ {"delete"} /\ Op(p) \notin AdminOps
           /\ pc[p] \notin Answers \cup {"ask"}
           /\ Op(p) \in {"rename", "defaults", "mint"} \cup LinkOps => G(p) \in exists
           /\ Op(p) \in {"defaults", "mint"} \cup LinkOps => held[p][OfGroup(G(p))] >= NoKeyUpdate
           /\ Op(p) \in LinkOps => held[p][OfLink(X(p))] = Update
<1>1. TypeOK /\ HeldThere(p) /\ MoveReady(p) /\ FixedLocked(p) /\ Places(p)
  BY DEF GroupsInv, Good
<1>2. pc[p] = "write" /\ Op(p) \in GroupOps
  BY DEF Commit
<1>3. Op(p) # "delete" /\ Op(p) \notin AdminOps
  BY <1>1, <1>2, Kinds DEF Places
<1>4. /\ Op(p) \in {"defaults", "mint"} \cup LinkOps => held[p][OfGroup(G(p))] >= NoKeyUpdate
      /\ Op(p) \in LinkOps => held[p][OfLink(X(p))] = Update
  BY <1>1, <1>2, LockedFixed
<1>5. G(p) \in Groups
  BY <1>1, <1>2, Named
<1>6. Op(p) \in {"rename", "defaults", "mint"} \cup LinkOps => G(p) \in exists
  <2>1. held[p][OfGroup(G(p))] \in Modes
    BY <1>1, <1>5, RowFacts DEF TypeOK
  <2> QED BY <1>1, <1>2, <1>4, <1>5, <2>1, RowsFixed, ModeFacts DEF HeldThere
<1>7. Points(p) \subseteq exists
  <2>1. CASE Op(p) \in {"move", "create"}
    BY <1>1, <1>2, <2>1 DEF Points, MoveReady, Confirms
  <2>2. CASE Op(p) = "place"
    <3>1. X(p) \in Groups \cup {Top}
      BY <1>1, <2>2, Named
    <3> QED BY <1>1, <1>2, <2>2, <3>1, RowsFixed DEF Points, HeldThere, Confirms
  <2>3. CASE Op(p) \in {"rename", "defaults"}
    BY <1>6, <2>3 DEF Points, Confirms
  <2>4. CASE Op(p) \in {"redeem", "register", "mint", "revoke", "enrol"}
    BY <1>6, <2>4 DEF Points, Confirms, LinkOps, SignUps
  <2> QED BY <1>2, <1>3, <2>1, <2>2, <2>3, <2>4 DEF GroupOps, LinkOps, SignUps
<1>8. pc[p] \notin Answers \cup {"ask"}
  BY <1>2 DEF Answers
<1> QED BY <1>2, <1>3, <1>4, <1>6, <1>7, <1>8 DEF Commit

\* No more unused links than the cap allows, if no more than before.
LEMMA Fewer ==
    ASSUME TypeOK, NEW g, NEW S \in SUBSET Unused(g), Cardinality(Unused(g)) <= MaxActive
    PROVE  Cardinality(S) <= MaxActive
<1>1. IsFiniteSet(Unused(g)) /\ Cardinality(Unused(g)) \in Nat
  BY UnusedFinite
<1>2. IsFiniteSet(S) /\ Cardinality(S) <= Cardinality(Unused(g))
  BY <1>1, FS_Subset
<1>3. Cardinality(S) \in Nat
  BY <1>2, FS_CardinalityType
<1> QED BY <1>1, <1>2, <1>3, StartAssumption

\* The chain a move or a create was judged on is locked, so the new parent is.
LEMMA ChainLocked ==
    ASSUME NEW p \in Procs, TypeOK, WalkLocked(p), MoveReady(p), pc[p] = "write", Op(p) \in {"move", "create"}
    PROVE  /\ X(p) \in exists \cup {Top} /\ G(p) \in Groups
           /\ X(p) # Top => held[p][OfGroup(X(p))] = Update
           /\ Op(p) = "move" => G(p) \in exists /\ held[p][OfGroup(G(p))] = Update
<1>1. Walks(p) /\ pc[p] \in Going /\ pc[p] # "lock"
  BY DEF Walks, Going
<1>2. \A k \in ids[p] \cap exists : held[p][OfGroup(k)] = Update
  BY <1>1 DEF WalkLocked
<1>3. X(p) \in exists \cup {Top} /\ X(p) \in ids[p] \cup {Top}
  BY <1>1 DEF MoveReady
<1>4. Op(p) = "move" => G(p) \in exists /\ G(p) \in ids[p]
  BY <1>1 DEF MoveReady
<1>5. G(p) \in Groups
  BY Named DEF GroupOps
<1> QED BY <1>2, <1>3, <1>4, <1>5

\* A move is written under the locks of the group, the new parent and its chain.
LEMMA CommitMoveKeeps ==
    ASSUME NEW p \in Procs, GroupsInv, Commit(p), Op(p) = "move"
    PROVE  GroupsInv'
<1>1. TypeOK /\ WalkLocked(p) /\ MoveReady(p) /\ GroupsInOrder
  BY DEF GroupsInv, Good
<1>2. pc[p] = "write" /\ Write(p) /\ End(p, Outcome(p)) /\ pc[p] \notin Answers \cup {"ask"}
  BY CommitFacts
<1>3. /\ parent' = [parent EXCEPT ![G(p)] = X(p)] /\ exists' = exists /\ accounts' = accounts
      /\ enabled' = enabled /\ owner' = owner /\ member' = member /\ admins' = admins /\ links' = links
      /\ active' = active /\ used' = used /\ reserved' = reserved /\ home' = home
  BY <1>2, Kinds DEF Write, people, roles, invites, Confirms
<1>4. End(p, "ok")
  BY <1>2 DEF Outcome
<1>5. /\ X(p) \in exists \cup {Top} /\ G(p) \in exists /\ held[p][OfGroup(G(p))] = Update
      /\ X(p) # Top => held[p][OfGroup(X(p))] = Update
  BY <1>1, <1>2, ChainLocked
<1>6. parent \in [Groups -> exists \cup {Top}] /\ exists \subseteq Groups
  BY <1>1 DEF TypeOK
<1>7. \A g \in Groups : parent'[g] = IF g = G(p) THEN X(p) ELSE parent[g]
  BY <1>3, <1>6
<1>8. TablesOK'
  <2>1. parent' \in [Groups -> exists \cup {Top}]
    BY <1>3, <1>5, <1>6
  <2> QED BY <1>1, <1>3, <2>1, TypeParts DEF TablesOK
<1>9. TreeEffects(p)
  BY <1>3, <1>5, <1>6, <1>7 DEF TreeEffects
<1>10. LinkEffects(p) /\ PeopleEffects(p)
  <2>1. Op(p) \notin LinkOps
    BY DEF LinkOps, SignUps
  <2> QED BY <1>3, <2>1 DEF LinkEffects, PeopleEffects
<1>11. GroupsInOrder'
  <2>1. \A g : Unused(g)' = Unused(g)
    BY <1>3 DEF Unused, LinksOf
  <2> QED BY <1>1, <1>3, <1>5, <1>7, <2>1 DEF GroupsInOrder
<1> QED BY <1>2, <1>4, <1>8, <1>9, <1>10, <1>11, FinishKeeps DEF LinkOps, SignUps

\* The copy that a rename or the defaults write back whole is the group as it is.
LEMMA SaveChangesNothing ==
    ASSUME NEW p \in Procs, GroupsInv, Commit(p), Op(p) \in {"rename", "defaults"}
    PROVE  /\ exists' = exists /\ parent' = parent /\ accounts' = accounts
           /\ enabled' = enabled /\ owner' = owner /\ member' = member /\ admins' = admins /\ links' = links
           /\ active' = active /\ used' = used /\ reserved' = reserved /\ home' = home
<1>1. TypeOK /\ SaveReady(p)
  BY DEF GroupsInv, Good
<1>2. pc[p] = "write" /\ Write(p) /\ G(p) \in exists
  BY CommitFacts
<1>3. /\ parent' = [parent EXCEPT ![G(p)] = seen[p]] /\ exists' = exists \cup {G(p)} /\ accounts' = accounts
      /\ enabled' = enabled /\ owner' = owner /\ member' = member /\ admins' = admins /\ links' = links
      /\ active' = active /\ used' = used /\ reserved' = reserved /\ home' = home
  BY <1>2 DEF Write, people, roles, invites, Confirms
<1>4. seen[p] = parent[G(p)] /\ parent \in [Groups -> exists \cup {Top}]
  BY <1>1, <1>2 DEF SaveReady, TypeOK
<1>5. parent' = parent
  BY <1>3, <1>4
<1>6. exists' = exists
  BY <1>2, <1>3
<1> QED BY <1>3, <1>5, <1>6

\* So such a COMMIT has nothing to answer for.
LEMMA CommitSaveKeeps ==
    ASSUME NEW p \in Procs, GroupsInv, Commit(p), Op(p) \in {"rename", "defaults"}
    PROVE  GroupsInv'
<1>1. TypeOK /\ GroupsInOrder
  BY DEF GroupsInv
<1>2. End(p, Outcome(p)) /\ pc[p] \notin Answers \cup {"ask"}
  BY CommitFacts
<1>3. /\ exists' = exists /\ parent' = parent /\ accounts' = accounts
      /\ enabled' = enabled /\ owner' = owner /\ member' = member /\ admins' = admins /\ links' = links
      /\ active' = active /\ used' = used /\ reserved' = reserved /\ home' = home
  BY SaveChangesNothing
<1>4. End(p, "ok")
  BY <1>2 DEF Outcome
<1>5. TablesOK'
  BY <1>1, <1>3, TypeParts DEF TablesOK
<1>6. TreeEffects(p) /\ LinkEffects(p) /\ PeopleEffects(p)
  <2>1. Op(p) \notin LinkOps
    BY DEF LinkOps, SignUps
  <2> QED BY <1>3, <2>1 DEF TreeEffects, LinkEffects, PeopleEffects
<1>7. GroupsInOrder'
  <2>1. \A g : Unused(g)' = Unused(g)
    BY <1>3 DEF Unused, LinksOf
  <2> QED BY <1>1, <1>3, <2>1 DEF GroupsInOrder
<1> QED BY <1>2, <1>4, <1>5, <1>6, <1>7, FinishKeeps DEF LinkOps, SignUps

\* A new group is below a locked one, its creator its owner and admin.
LEMMA CommitCreateKeeps ==
    ASSUME NEW p \in Procs, GroupsInv, Commit(p), Op(p) = "create"
    PROVE  GroupsInv'
<1>1. TypeOK /\ WalkLocked(p) /\ MoveReady(p) /\ GroupsInOrder /\ Fresh
  BY DEF GroupsInv, Good
<1>2. pc[p] = "write" /\ Write(p) /\ End(p, Outcome(p)) /\ pc[p] \notin Answers \cup {"ask"}
  BY CommitFacts
<1>3. /\ parent' = [parent EXCEPT ![G(p)] = X(p)] /\ exists' = exists \cup {G(p)} /\ accounts' = accounts
      /\ enabled' = enabled /\ owner' = [owner EXCEPT ![G(p)] = p]
      /\ member' = member \cup {<<G(p), p>>} /\ admins' = admins \cup {<<G(p), p>>} /\ links' = links
      /\ active' = active /\ used' = used /\ reserved' = reserved /\ home' = home
  BY <1>2 DEF Write, people, invites, Confirms
<1>4. End(p, "ok")
  BY <1>2 DEF Outcome
<1>5. /\ X(p) \in exists \cup {Top} /\ G(p) \in Groups
      /\ X(p) # Top => held[p][OfGroup(X(p))] = Update
  BY <1>1, <1>2, ChainLocked
<1>6. G(p) \notin exists
  BY <1>1, <1>2 DEF Fresh, Unborn
<1>7. TablesOK
  BY <1>1, TypeParts
<1>8. \A g \in Groups : /\ parent'[g] = IF g = G(p) THEN X(p) ELSE parent[g]
                        /\ owner'[g] = IF g = G(p) THEN p ELSE owner[g]
  BY <1>3, <1>7 DEF TablesOK
<1>9. pc'[p] = "ok"
  BY <1>1, <1>4 DEF End, Answer, TypeOK
<1>10. p \notin Users /\ p \in People
  BY AccountAssumption DEF People
<1>11. TablesOK'
  <2>1. parent' \in [Groups -> exists' \cup {Top}]
    BY <1>3, <1>5, <1>7 DEF TablesOK
  <2>2. owner' \in [Groups -> People]
    BY <1>3, <1>7, <1>10 DEF TablesOK
  <2>3. member' \subseteq exists' \X (accounts' \cup Procs) /\ admins' \subseteq member'
    BY <1>3, <1>7 DEF TablesOK
  <2>4. exists' \subseteq Groups /\ home' \in exists' \cup {Top}
    BY <1>3, <1>5, <1>7 DEF TablesOK
  <2>5. links' \subseteq {i \in Links : LinkGroup[i] \in exists'}
    BY <1>3, <1>7 DEF TablesOK
  <2> QED BY <1>3, <1>7, <2>1, <2>2, <2>3, <2>4, <2>5 DEF TablesOK
<1>12. TreeEffects(p)
  BY <1>3, <1>5, <1>6, <1>7, <1>8, <1>9, <1>10 DEF TreeEffects, TablesOK
<1>13. LinkEffects(p)
  BY <1>3 DEF LinkEffects, LinkOps, SignUps
<1>14. PeopleEffects(p)
  <2>1. \A m \in (member' \ member) \cup (admins' \ admins) : m = <<G(p), p>>
    BY <1>3
  <2>2. \A g \in exists : owner'[g] = owner[g]
    BY <1>6, <1>7, <1>8 DEF TablesOK
  <2> QED BY <1>3, <1>6, <1>10, <2>1, <2>2 DEF PeopleEffects
<1>15. GroupsInOrder'
  <2>1. \A g : Unused(g)' = Unused(g)
    BY <1>3 DEF Unused, LinksOf
  <2>2. Unused(G(p)) = {}
    BY <1>6, <1>7 DEF Unused, LinksOf, TablesOK
  <2>3. Cardinality(Unused(G(p))) <= MaxActive
    BY <2>2, FS_EmptySet, StartAssumption
  <2>4. ASSUME NEW g \in exists' PROVE Cardinality(Unused(g)') <= MaxActive
    BY <1>1, <1>3, <2>1, <2>3, <2>4 DEF GroupsInOrder
  <2>5. ASSUME NEW g \in exists' PROVE <<g, owner'[g]>> \in admins'
    <3>1. CASE g = G(p)
      BY <1>3, <1>5, <1>8, <3>1
    <3>2. CASE g # G(p)
      <4>1. g \in exists /\ g \in Groups
        BY <1>3, <1>7, <2>5, <3>2 DEF TablesOK
      <4>2. owner'[g] = owner[g] /\ <<g, owner[g]>> \in admins
        BY <1>1, <1>8, <3>2, <4>1 DEF GroupsInOrder
      <4> QED BY <1>3, <4>2
    <3> QED BY <3>1, <3>2
  <2>6. ASSUME NEW g \in Groups \ exists' PROVE parent'[g] = Top
    BY <1>1, <1>3, <1>8, <2>6 DEF GroupsInOrder
  <2> QED BY <2>4, <2>5, <2>6 DEF GroupsInOrder
<1> QED BY <1>2, <1>4, <1>11, <1>12, <1>13, <1>14, <1>15, FinishKeeps DEF LinkOps, SignUps

\* The board goes to a group that the request holds FOR KEY SHARE.
LEMMA CommitPlaceKeeps ==
    ASSUME NEW p \in Procs, GroupsInv, Commit(p), Op(p) = "place"
    PROVE  GroupsInv'
<1>1. TypeOK /\ FixedLocked(p) /\ Places(p) /\ GroupsInOrder
  BY DEF GroupsInv, Good
<1>2. /\ pc[p] = "write" /\ Write(p) /\ End(p, Outcome(p)) /\ pc[p] \notin Answers \cup {"ask"}
      /\ Points(p) \subseteq exists
  BY CommitFacts
<1>3. /\ parent' = parent /\ exists' = exists /\ accounts' = accounts
      /\ enabled' = enabled /\ owner' = owner /\ member' = member /\ admins' = admins /\ links' = links
      /\ active' = active /\ used' = used /\ reserved' = reserved /\ home' = X(p)
  BY <1>2 DEF Write, tree, people, roles, invites, Confirms
<1>4. End(p, "ok")
  BY <1>2 DEF Outcome
<1>5. X(p) # Top => X(p) \in exists /\ held[p][OfGroup(X(p))] # None
  <2>1. Points(p) = {X(p)} \ {Top}
    BY DEF Points, Confirms
  <2> QED BY <1>1, <1>2, <2>1, RowsFixed
<1>6. TablesOK'
  BY <1>1, <1>3, <1>5, TypeParts DEF TablesOK
<1>7. TreeEffects(p) /\ LinkEffects(p) /\ PeopleEffects(p)
  <2>1. Op(p) \notin LinkOps
    BY DEF LinkOps, SignUps
  <2> QED BY <1>3, <1>5, <2>1 DEF TreeEffects, LinkEffects, PeopleEffects
<1>8. GroupsInOrder'
  <2>1. \A g : Unused(g)' = Unused(g)
    BY <1>3 DEF Unused, LinksOf
  <2> QED BY <1>1, <1>3, <2>1 DEF GroupsInOrder
<1> QED BY <1>2, <1>4, <1>6, <1>7, <1>8, FinishKeeps DEF LinkOps, SignUps

\* One that lets an account into the group of a link.
LEMMA CommitJoinKeeps ==
    ASSUME NEW p \in Procs, GroupsInv, Commit(p), Op(p) \in {"redeem", "register"} \/ Confirms(p)
    PROVE  GroupsInv'
<1>1. TypeOK /\ LinkReady(p) /\ GroupsInOrder
  BY DEF GroupsInv, Good
<1>2. Op(p) \in LinkOps /\ Op(p) \in {"redeem", "register", "enrol"}
  BY DEF LinkOps, SignUps, Confirms
<1>3. /\ pc[p] = "write" /\ Write(p) /\ End(p, Outcome(p)) /\ pc[p] \notin Answers \cup {"ask"}
      /\ G(p) \in exists /\ held[p][OfGroup(G(p))] >= NoKeyUpdate /\ held[p][OfLink(X(p))] = Update
  BY <1>2, CommitFacts
<1>4. Joins(p) /\ used' = used \cup {X(p)} /\ links' = links /\ active' = active /\ reserved' \subseteq reserved
  BY <1>2, <1>3 DEF Write, Claimed, Confirms
<1>5. /\ parent' = parent /\ exists' = exists /\ accounts' = accounts
      /\ enabled' = enabled /\ owner' = owner /\ member' = member \cup {<<G(p), p>>} /\ admins' = admins
      /\ home' = home
  BY <1>4 DEF Joins, tree, people
<1>6. End(p, "ok")
  BY <1>2, <1>3 DEF Outcome
<1>7. X(p) \in active \ used
  BY <1>1, <1>2, <1>3 DEF LinkReady
<1>8. TablesOK
  BY <1>1, TypeParts
<1>9. TablesOK'
  <2>1. member' \subseteq exists' \X (accounts' \cup Procs) /\ admins' \subseteq member'
    BY <1>3, <1>5, <1>8 DEF TablesOK
  <2>2. used' \subseteq links' /\ reserved' \subseteq links' \X Procs
    BY <1>4, <1>7, <1>8 DEF TablesOK
  <2> QED BY <1>4, <1>5, <1>8, <2>1, <2>2 DEF TablesOK
<1>10. TreeEffects(p)
  BY <1>5 DEF TreeEffects
<1>11. LinkEffects(p)
  BY <1>3, <1>4, <1>7 DEF LinkEffects
<1>12. PeopleEffects(p)
  <2>1. \A m \in member' \ member : held[p][OfGroup(m[1])] >= NoKeyUpdate
    BY <1>3, <1>5
  <2> QED BY <1>5, <2>1 DEF PeopleEffects
<1>13. GroupsInOrder'
  <2>1. \A g : Unused(g)' \in SUBSET Unused(g)
    BY <1>4 DEF Unused, LinksOf
  <2>2. \A g \in exists : Cardinality(Unused(g)') <= MaxActive
    BY <1>1, <2>1, Fewer DEF GroupsInOrder
  <2> QED BY <1>1, <1>5, <2>2 DEF GroupsInOrder
<1> QED BY <1>3, <1>4, <1>6, <1>7, <1>9, <1>10, <1>11, <1>12, <1>13, FinishKeeps

\* A sign-up that has to confirm its address only reserves its link.
LEMMA CommitReserveKeeps ==
    ASSUME NEW p \in Procs, GroupsInv, Commit(p), Op(p) = "enrol", ~Confirms(p)
    PROVE  GroupsInv'
<1>1. TypeOK /\ LinkReady(p) /\ GroupsInOrder
  BY DEF GroupsInv, Good
<1>2. Op(p) \in LinkOps
  BY DEF LinkOps, SignUps
<1>3. /\ pc[p] = "write" /\ Write(p) /\ End(p, Outcome(p)) /\ pc[p] \notin Answers \cup {"ask"}
  BY <1>2, CommitFacts
<1>4. /\ parent' = parent /\ exists' = exists /\ accounts' = accounts /\ links' = links /\ active' = active
      /\ enabled' = enabled /\ owner' = owner /\ member' = member /\ admins' = admins /\ used' = used
      /\ home' = home /\ reserved' = reserved \cup {<<X(p), p>>}
  BY <1>3 DEF Write, tree, people, roles
<1>5. End(p, "waiting")
  BY <1>3 DEF Outcome
<1>6. pc'[p] = "waiting"
  BY <1>1, <1>5 DEF End, Answer, TypeOK
<1>7. X(p) \in active \ used
  BY <1>1, <1>2, <1>3 DEF LinkReady
<1>8. TablesOK
  BY <1>1, TypeParts
<1>9. TablesOK'
  <2>1. reserved' \subseteq links' \X Procs
    BY <1>4, <1>7, <1>8 DEF TablesOK
  <2> QED BY <1>4, <1>8, <2>1 DEF TablesOK
<1>10. TreeEffects(p) /\ LinkEffects(p) /\ PeopleEffects(p)
  BY <1>4, <1>6 DEF TreeEffects, LinkEffects, PeopleEffects
<1>11. GroupsInOrder'
  <2>1. \A g : Unused(g)' = Unused(g)
    BY <1>4 DEF Unused, LinksOf
  <2> QED BY <1>1, <1>4, <2>1 DEF GroupsInOrder
<1> QED BY <1>3, <1>5, <1>9, <1>10, <1>11, FinishKeeps

\* A mint counted the unused links under the group's lock, and adds one.
LEMMA CommitMintKeeps ==
    ASSUME NEW p \in Procs, GroupsInv, Commit(p), Op(p) = "mint"
    PROVE  GroupsInv'
<1>1. TypeOK /\ MintReady(p) /\ GroupsInOrder /\ Fresh
  BY DEF GroupsInv, Good
<1>2. /\ pc[p] = "write" /\ Write(p) /\ End(p, Outcome(p)) /\ pc[p] \notin Answers \cup {"ask"}
      /\ G(p) \in exists /\ held[p][OfGroup(G(p))] >= NoKeyUpdate
  BY CommitFacts
<1>3. /\ parent' = parent /\ exists' = exists /\ accounts' = accounts /\ enabled' = enabled /\ owner' = owner
      /\ member' = member /\ admins' = admins /\ used' = used /\ home' = home /\ reserved' = reserved
      /\ links' = links \cup {X(p)} /\ active' = active \cup {X(p)}
  BY <1>2 DEF Write, tree, people, roles, Confirms
<1>4. End(p, "ok")
  BY <1>2 DEF Outcome
<1>5. pc'[p] = "ok"
  BY <1>1, <1>4 DEF End, Answer, TypeOK
<1>6. X(p) \in Links /\ LinkGroup[X(p)] = G(p)
  BY <1>1, Named
<1>7. X(p) \notin links
  BY <1>1, <1>2 DEF Fresh, Unminted
<1>8. TablesOK
  BY <1>1, TypeParts
<1>9. TablesOK'
  <2>1. links' \subseteq {i \in Links : LinkGroup[i] \in exists'}
    BY <1>2, <1>3, <1>6, <1>8 DEF TablesOK
  <2>2. active' \subseteq links' /\ used' \subseteq links' /\ reserved' \subseteq links' \X Procs
    BY <1>3, <1>8 DEF TablesOK
  <2> QED BY <1>3, <1>8, <2>1, <2>2 DEF TablesOK
<1>10. TreeEffects(p) /\ PeopleEffects(p)
  BY <1>3 DEF TreeEffects, PeopleEffects
<1>11. LinkEffects(p)
  BY <1>2, <1>3, <1>5, <1>7 DEF LinkEffects, LinkOps, SignUps
<1>12. GroupsInOrder'
  <2> PICK h : h = G(p)
    OBVIOUS
  <2>1. Unused(h)' \subseteq Unused(h) \cup {X(p)}
    BY <1>3 DEF Unused, LinksOf
  <2>2. Cardinality(Unused(h)) < MaxActive
    BY <1>1, <1>2 DEF MintReady
  <2>3. Cardinality(Unused(h)') <= MaxActive
    <3>1. IsFiniteSet(Unused(h)) /\ Cardinality(Unused(h)) \in Nat
      BY <1>1, UnusedFinite
    <3>2. /\ IsFiniteSet(Unused(h) \cup {X(p)})
          /\ Cardinality(Unused(h) \cup {X(p)}) <= Cardinality(Unused(h)) + 1
      BY <3>1, FS_AddElement
    <3>3. /\ IsFiniteSet(Unused(h)')
          /\ Cardinality(Unused(h)') <= Cardinality(Unused(h) \cup {X(p)})
      BY <2>1, <3>2, FS_Subset
    <3>4. Cardinality(Unused(h)') \in Nat /\ Cardinality(Unused(h) \cup {X(p)}) \in Nat
      BY <3>2, <3>3, FS_CardinalityType
    <3> QED BY <2>2, <3>1, <3>2, <3>3, <3>4, StartAssumption
  <2>4. ASSUME NEW g \in exists, g # h PROVE Unused(g)' = Unused(g)
    BY <1>3, <1>6, <2>4 DEF Unused, LinksOf
  <2>5. \A g \in exists : Cardinality(Unused(g)') <= MaxActive
    BY <1>1, <2>3, <2>4 DEF GroupsInOrder
  <2> QED BY <1>1, <1>3, <2>5 DEF GroupsInOrder
<1> QED BY <1>2, <1>4, <1>9, <1>10, <1>11, <1>12, FinishKeeps DEF LinkOps, SignUps

\* A revoke has locked the link and found it neither revoked nor redeemed.
LEMMA CommitRevokeKeeps ==
    ASSUME NEW p \in Procs, GroupsInv, Commit(p), Op(p) = "revoke"
    PROVE  GroupsInv'
<1>1. TypeOK /\ LinkReady(p) /\ GroupsInOrder
  BY DEF GroupsInv, Good
<1>2. Op(p) \in LinkOps
  BY DEF LinkOps, SignUps
<1>3. /\ pc[p] = "write" /\ Write(p) /\ End(p, Outcome(p)) /\ pc[p] \notin Answers \cup {"ask"}
      /\ held[p][OfLink(X(p))] = Update
  BY <1>2, CommitFacts
<1>4. /\ parent' = parent /\ exists' = exists /\ accounts' = accounts /\ enabled' = enabled /\ owner' = owner
      /\ member' = member /\ admins' = admins /\ used' = used /\ home' = home /\ reserved' = reserved
      /\ links' = links /\ active' = active \ {X(p)}
  BY <1>3 DEF Write, tree, people, roles, Confirms
<1>5. End(p, "ok")
  BY <1>3 DEF Outcome
<1>6. X(p) \in active \ used
  BY <1>1, <1>2, <1>3 DEF LinkReady
<1>7. TablesOK'
  BY <1>1, <1>4, TypeParts DEF TablesOK
<1>8. TreeEffects(p) /\ LinkEffects(p) /\ PeopleEffects(p)
  BY <1>3, <1>4, <1>6 DEF TreeEffects, LinkEffects, PeopleEffects
<1>9. GroupsInOrder'
  <2>1. \A g : Unused(g)' \in SUBSET Unused(g)
    BY <1>4 DEF Unused, LinksOf
  <2>2. \A g \in exists : Cardinality(Unused(g)') <= MaxActive
    BY <1>1, <2>1, Fewer DEF GroupsInOrder
  <2> QED BY <1>1, <1>4, <2>2 DEF GroupsInOrder
<1> QED BY <1>3, <1>4, <1>5, <1>7, <1>8, <1>9, FinishKeeps

\* Every COMMIT of a request on a group but a delete keeps the invariant.
LEMMA CommitKeeps ==
    ASSUME NEW p \in Procs, GroupsInv, Commit(p)
    PROVE  GroupsInv'
<1>1. Op(p) \in GroupOps \ {"delete"}
  BY CommitFacts
<1>2. \/ Op(p) = "move" \/ Op(p) \in {"rename", "defaults"} \/ Op(p) = "create" \/ Op(p) = "place"
      \/ Op(p) \in {"redeem", "register"} \/ Op(p) = "enrol" \/ Op(p) = "mint" \/ Op(p) = "revoke"
  BY <1>1 DEF GroupOps, LinkOps, SignUps
<1> QED BY <1>2, CommitMoveKeeps, CommitSaveKeeps, CommitCreateKeeps, CommitPlaceKeeps, CommitJoinKeeps,
           CommitReserveKeeps, CommitMintKeeps, CommitRevokeKeeps

\* What the collector found is all there is to a subtree, and p holds it.
LEMMA SubtreeHeld ==
    ASSUME NEW p \in Procs, GroupsInv, pc[p] = "clear", plan[p] = <<>>
    PROVE  /\ Op(p) = "delete" /\ ids[p] \subseteq exists /\ Closed(ids[p])
           /\ \A g \in ids[p] : held[p][OfGroup(g)] = Update
           /\ \A m \in joined[p] : m[1] \in ids[p]
           /\ \A m \in member : m[1] \in ids[p] => m \in joined[p]
           /\ LinksOf(ids[p]) \subseteq Swept(p)
           /\ home \in ids[p] => held[p][BoardRow] # None
<1>1. TypeOK /\ Places(p) /\ DeleteReady(p) /\ WalkLocked(p)
  BY DEF GroupsInv, Good
<1>2. Op(p) = "delete" /\ Walks(p) /\ pc[p] \in Going /\ pc[p] # "lock"
  BY <1>1 DEF Places, Walks, Going
<1>3. ids[p] \subseteq exists
  BY <1>1, <1>2 DEF DeleteReady
<1>4. \A r, m : Has(p, r, m) => held[p][r] >= m
  BY ShortSeqs DEF Has
<1>5. \A r \in Rows : held[p][r] \in Modes
  BY <1>1 DEF TypeOK
<1>6. LinksOf(ids[p]) \subseteq Swept(p)
  <2>1. ASSUME NEW i \in LinksOf(ids[p]) PROVE i \in Swept(p)
    <3>1. i \in Links /\ Has(p, OfLink(i), Update)
      BY <1>1, <1>2, <2>1 DEF DeleteReady, LinksOf, TypeOK
    <3>2. held[p][OfLink(i)] = Update
      BY <1>4, <1>5, <3>1, RowFacts, ModeFacts
    <3> QED BY <3>1, <3>2 DEF Swept
  <2> QED BY <2>1
<1>7. home \in ids[p] => held[p][BoardRow] # None
  <2>1. home \in ids[p] => Has(p, BoardRow, NoKeyUpdate)
    BY <1>1, <1>2 DEF DeleteReady
  <2>2. held[p][BoardRow] \in Modes
    BY <1>5, RowFacts
  <2> QED BY <1>4, <2>1, <2>2, ModeFacts
<1>8. \A g \in ids[p] : held[p][OfGroup(g)] = Update
  BY <1>1, <1>2, <1>3 DEF WalkLocked
<1> QED BY <1>1, <1>2, <1>3, <1>6, <1>7, <1>8 DEF DeleteReady

\* So a delete leaves no row behind that points at a group it deletes.
LEMMA NothingDangles ==
    ASSUME NEW p \in Procs, GroupsInv, CommitDelete(p)
    PROVE  ~Dangling(p)
<1>1. pc[p] = "clear" /\ plan[p] = <<>>
  BY DEF CommitDelete
<1> QED BY <1>1, SubtreeHeld DEF Dangling, Closed

\* A delete takes a closed subtree, all of it locked, with what is in it.
LEMMA CommitDeleteKeeps ==
    ASSUME NEW p \in Procs, GroupsInv, CommitDelete(p)
    PROVE  GroupsInv'
<1>1. TypeOK /\ GroupsInOrder
  BY DEF GroupsInv
<1>2. pc[p] = "clear" /\ plan[p] = <<>>
  BY DEF CommitDelete
<1>3. /\ exists' = exists \ ids[p]
      /\ parent' = [g \in Groups |-> IF g \in ids[p] THEN Top ELSE parent[g]]
      /\ member' = member \ joined[p] /\ admins' = admins \ joined[p]
      /\ links' = links \ Swept(p) /\ active' = active \ Swept(p) /\ used' = used \ Swept(p)
      /\ reserved' = {r \in reserved : r[1] \notin Swept(p)}
      /\ home' = (IF home \in ids[p] THEN Top ELSE home)
      /\ accounts' = accounts /\ enabled' = enabled /\ owner' = owner
      /\ End(p, "ok")
  BY NothingDangles DEF CommitDelete, Cleared, people
<1>4. /\ Op(p) = "delete" /\ ids[p] \subseteq exists /\ Closed(ids[p])
      /\ \A g \in ids[p] : held[p][OfGroup(g)] = Update
      /\ \A m \in joined[p] : m[1] \in ids[p]
      /\ \A m \in member : m[1] \in ids[p] => m \in joined[p]
      /\ LinksOf(ids[p]) \subseteq Swept(p)
  BY <1>2, SubtreeHeld
<1>5. TablesOK
  BY <1>1, TypeParts
<1>6. TablesOK'
  <2>1. exists' \subseteq Groups
    BY <1>3, <1>5 DEF TablesOK
  <2>2. ASSUME NEW g \in Groups, g \notin ids[p] PROVE parent[g] \in exists' \cup {Top}
    <3>1. CASE g \in exists
      BY <1>3, <1>4, <1>5, <2>2, <3>1 DEF TablesOK, Closed
    <3>2. CASE g \notin exists
      BY <1>1, <2>2, <3>2 DEF GroupsInOrder
    <3> QED BY <3>1, <3>2
  <2>3. parent' \in [Groups -> exists' \cup {Top}]
    BY <1>3, <2>2
  <2>4. member' \subseteq exists' \X (accounts' \cup Procs)
    <3>1. ASSUME NEW m \in member' PROVE m \in exists' \X (accounts' \cup Procs)
      <4>1. m \in member /\ m \in exists \X (accounts \cup Procs) /\ m[1] \notin ids[p]
        BY <1>3, <1>4, <1>5, <3>1 DEF TablesOK
      <4> QED BY <1>3, <4>1
    <3> QED BY <3>1
  <2>5. admins' \subseteq member'
    BY <1>3, <1>5 DEF TablesOK
  <2>6. links' \subseteq {i \in Links : LinkGroup[i] \in exists'}
    BY <1>3, <1>4, <1>5 DEF TablesOK, LinksOf
  <2>7. active' \subseteq links' /\ used' \subseteq links'
    BY <1>3, <1>5 DEF TablesOK
  <2>8. reserved' \subseteq links' \X Procs
    <3>1. ASSUME NEW r \in reserved' PROVE r \in links' \X Procs
      <4>1. r \in links \X Procs /\ r[1] \notin Swept(p)
        BY <1>3, <1>5, <3>1 DEF TablesOK
      <4> QED BY <1>3, <4>1
    <3> QED BY <3>1
  <2>9. home' \in exists' \cup {Top}
    BY <1>3, <1>5 DEF TablesOK
  <2> QED BY <1>3, <1>5, <2>1, <2>3, <2>4, <2>5, <2>6, <2>7, <2>8, <2>9 DEF TablesOK
<1>7. \A g \in exists' : g \in Groups /\ g \notin ids[p] /\ g \in exists /\ parent'[g] = parent[g]
  BY <1>3, <1>5 DEF TablesOK
<1>8. TreeEffects(p)
  BY <1>3, <1>4, <1>7 DEF TreeEffects
<1>9. LinkEffects(p)
  <2>1. \A i \in (active \ active') \cup (used' \ used) : held[p][OfLink(i)] = Update
    BY <1>3 DEF Swept
  <2>2. used \ used' \subseteq links \ links'
    BY <1>3, <1>5 DEF TablesOK
  <2>3. Op(p) \notin LinkOps
    BY <1>4, Kinds DEF LinkOps, SignUps
  <2> QED BY <1>3, <2>1, <2>2, <2>3 DEF LinkEffects
<1>10. PeopleEffects(p)
  <2>1. \A m \in (member \ member') \cup (admins \ admins') : Unseats(p, m)
    BY <1>3, <1>4, ModeFacts DEF Unseats
  <2> QED BY <1>3, <2>1 DEF PeopleEffects
<1>11. GroupsInOrder'
  <2>1. \A g : Unused(g)' \in SUBSET Unused(g)
    BY <1>3 DEF Unused, LinksOf
  <2>2. \A g \in exists' : Cardinality(Unused(g)') <= MaxActive
    BY <1>1, <1>7, <2>1, Fewer DEF GroupsInOrder
  <2>3. ASSUME NEW g \in exists' PROVE <<g, owner'[g]>> \in admins'
    <3>1. <<g, owner[g]>> \in admins /\ <<g, owner[g]>>[1] = g
      BY <1>1, <1>7 DEF GroupsInOrder
    <3>2. <<g, owner[g]>> \notin joined[p]
      BY <1>4, <1>7, <3>1
    <3> QED BY <1>3, <3>1, <3>2
  <2>4. ASSUME NEW g \in Groups \ exists' PROVE parent'[g] = Top
    BY <1>1, <1>3, <2>4 DEF GroupsInOrder
  <2> QED BY <2>2, <2>3, <2>4 DEF GroupsInOrder
<1>12. pc[p] \notin Answers \cup {"ask"}
  BY <1>2 DEF Answers
<1> QED BY <1>3, <1>4, <1>6, <1>8, <1>9, <1>10, <1>11, <1>12, FinishKeeps DEF LinkOps, SignUps

-----------------------------------------------------------------------------
(* The requests on members and accounts.                                    *)

\* What the invariant says of the other requests is not about these.
LEMMA AdminGood ==
    ASSUME NEW p \in Procs, TypeOK, Own(p), Op(p) \in AdminOps,
           HeldThere(p)', AccountsLocked(p)', MemberReady(p)', DismissReady(p)', Places(p)'
    PROVE  Good(p)'
<1>1. Op(p)' = Op(p)
  BY OwnOthers
<1>2. Op(p) \notin {"move", "create", "delete", "rename", "defaults", "mint", "place"}
      /\ Op(p) \notin LinkOps /\ Op(p) \notin FixedOps
  BY DEF AdminOps, MemberOps, Transfers, FixedOps, LinkOps, SignUps
<1>3. OldGroups(p)' /\ WalkLocked(p)' /\ MoveReady(p)' /\ DeleteReady(p)' /\ FixedLocked(p)'
  BY <1>1, <1>2 DEF OldGroups, WalkLocked, MoveReady, DeleteReady, FixedLocked, Walks
<1>4. SaveReady(p)' /\ LinkReady(p)' /\ MintReady(p)' /\ LinkKnown(p)'
  BY <1>1, <1>2 DEF SaveReady, LinkReady, MintReady, LinkKnown
<1> QED BY <1>3, <1>4 DEF Good

\* Where such a request may be.
LEMMA AdminPlaces ==
    ASSUME NEW p \in Procs, TypeOK, Own(p), Op(p) \in AdminOps,
           pc'[p] \in {"count", "lock", "write"} \cup Answers, pc'[p] # "error",
           pc'[p] = "write" => plan'[p] = <<>>,
           round'[p] # 1 => Op(p) = "dismiss" /\ pc'[p] # "count"
    PROVE  Places(p)'
<1>1. Op(p)' = Op(p)
  BY OwnOthers
<1>2. Op(p) \notin {"move", "create", "delete", "enrol"}
  BY DEF AdminOps, MemberOps, Transfers
<1> QED BY <1>1, <1>2 DEF Places, Walks, Answers

\* It looks its row up, and changes nothing.
LEMMA AskMemberKeeps ==
    ASSUME NEW p \in Procs, GroupsInv, AskMember(p)
    PROVE  GroupsInv'
<1>1. TypeOK /\ Good(p)
  BY DEF GroupsInv
<1>2. pc[p] = "ask" /\ Op(p) \in AdminOps /\ UNCHANGED <<tables, held, req, ids, joined, round, plan>>
  BY DEF AskMember
<1>3. /\ pc' = [pc EXCEPT ![p] = IF ~FoundMember(p) THEN "gone" ELSE IF ~ValidMember(p) THEN "refused"
                                 ELSE "count"]
      /\ seen' = [seen EXCEPT ![p] = IF Op(p) \in Transfers THEN owner[G(p)] ELSE Top]
  BY DEF AskMember, Answer
<1>4. /\ pc'[p] \in {"gone", "refused", "count"} /\ held'[p] = held[p] /\ ids'[p] = ids[p]
      /\ round'[p] = round[p] /\ plan'[p] = plan[p]
  BY <1>1, <1>2, <1>3 DEF TypeOK
<1>5. Own(p)
  BY <1>1, <1>2, <1>3 DEF TypeOK, Own
<1>6. RequestOK(p)'
  <2>1. RequestOK(p)
    BY <1>1, TypeParts
  <2>2. seen'[p] \in Groups \cup {Top} \cup People
    <3>1. Op(p) \in Transfers => owner[G(p)] \in People
      BY <1>1, Named DEF TypeOK
    <3> QED BY <1>1, <1>3, <3>1 DEF TypeOK
  <2> QED BY <1>2, <1>4, <2>1, <2>2 DEF RequestOK, Pcs, Answers
<1>7. LockStep(p)
  BY <1>1, <1>4, NoLockTaken
<1>8. UNCHANGED tables /\ pc[p] \notin Answers /\ pc'[p] # "ok"
  BY <1>2, <1>4 DEF Answers
<1>9. exists' = exists /\ accounts' = accounts /\ Op(p)' = Op(p)
  BY <1>1, <1>5, <1>8, Same
<1>10. HeldThere(p)'
  BY <1>1, <1>4, <1>9 DEF Good, HeldThere
<1>11. AccountsLocked(p)' /\ MemberReady(p)' /\ DismissReady(p)'
  BY <1>4 DEF AccountsLocked, MemberReady, DismissReady, Going
<1>12. Places(p)'
  <2>1. round[p] = 1
    BY <1>1, <1>2 DEF Good, Places
  <2>2. pc'[p] \in {"count", "lock", "write"} \cup Answers /\ pc'[p] # "error" /\ pc'[p] # "write"
    BY <1>4 DEF Answers
  <2> QED BY <1>1, <1>2, <1>4, <1>5, <2>1, <2>2, AdminPlaces
<1>13. Good(p)'
  BY <1>1, <1>2, <1>5, <1>10, <1>11, <1>12, AdminGood
<1> QED BY <1>5, <1>6, <1>7, <1>8, <1>13, QuietStep

\* The plan of the first statement: the accounts, then the group.
LEMMA AccountsPlan ==
    ASSUME NEW p \in Procs, TypeOK, Op(p) \in AdminOps
    PROVE  LET all == ByPk("account", AccountsToLock(p) \cap Users, NoKeyUpdate) \o GroupToLock(p)
           IN  /\ all \in Seq(Rows \X Modes)
               /\ \A u \in AccountsToLock(p) \cap Users : <<OfAccount(u), NoKeyUpdate>> \in ToSet(all)
               /\ Op(p) \in MemberOps => <<OfGroup(G(p)), NoKeyUpdate>> \in ToSet(all)
               /\ Op(p) \in Transfers => <<OfGroup(G(p)), Update>> \in ToSet(all)
<1> DEFINE us == AccountsToLock(p) \cap Users
<1>1. X(p) \in Users /\ SiteAdmins \subseteq Users /\ Users \subseteq Nat /\ IsFiniteSet(Users)
  BY Named, AccountAssumption, FiniteAssumption
<1>2. us \subseteq Users
  BY <1>1 DEF AccountsToLock, AdminsOf
<1>3. us \subseteq Nat /\ IsFiniteSet(us)
  BY <1>1, <1>2, FS_Subset
<1> HIDE DEF us
<1>4. /\ ByPk("account", us, NoKeyUpdate) \in Seq({<<<<"account", u>>, NoKeyUpdate>> : u \in us})
      /\ ToSet(ByPk("account", us, NoKeyUpdate)) = {<<<<"account", u>>, NoKeyUpdate>> : u \in us}
  BY <1>3, ByPkFacts
<1>5. NoKeyUpdate \in Modes /\ Update \in Modes
  BY DEF Modes, None, NoKeyUpdate, Update
<1>6. {<<<<"account", u>>, NoKeyUpdate>> : u \in us} \subseteq Rows \X Modes
  BY <1>2, <1>5, RowFacts DEF OfAccount
<1>7. ByPk("account", us, NoKeyUpdate) \in Seq(Rows \X Modes)
  BY <1>4, <1>6
<1>8. GroupToLock(p) \in Seq(Rows \X Modes)
      /\ (Op(p) \in MemberOps => <<OfGroup(G(p)), NoKeyUpdate>> \in ToSet(GroupToLock(p)))
      /\ (Op(p) \in Transfers => <<OfGroup(G(p)), Update>> \in ToSet(GroupToLock(p)))
  <2>1. CASE Op(p) \in MemberOps
    <3>1. GroupToLock(p) = <<<<OfGroup(G(p)), NoKeyUpdate>>>> /\ Op(p) \notin Transfers
      BY <2>1 DEF GroupToLock, MemberOps, Transfers
    <3>2. OfGroup(G(p)) \in Rows
      BY <2>1, Named, RowFacts
    <3> QED BY <1>5, <3>1, <3>2, ShortSeqs
  <2>2. CASE Op(p) \in Transfers
    <3>1. GroupToLock(p) = <<<<OfGroup(G(p)), Update>>>> /\ Op(p) \notin MemberOps
      BY <2>2 DEF GroupToLock, MemberOps, Transfers
    <3>2. OfGroup(G(p)) \in Rows
      BY <2>2, Named, RowFacts
    <3> QED BY <1>5, <3>1, <3>2, ShortSeqs
  <2>3. CASE Op(p) \notin MemberOps /\ Op(p) \notin Transfers
    BY <2>3 DEF GroupToLock
  <2> QED BY <2>1, <2>2, <2>3
<1>9. /\ ByPk("account", us, NoKeyUpdate) \o GroupToLock(p) \in Seq(Rows \X Modes)
      /\ ToSet(ByPk("account", us, NoKeyUpdate)) \cup ToSet(GroupToLock(p))
            \subseteq ToSet(ByPk("account", us, NoKeyUpdate) \o GroupToLock(p))
  BY <1>7, <1>8, Joined
<1>10. \A u \in us : <<OfAccount(u), NoKeyUpdate>> \in ToSet(ByPk("account", us, NoKeyUpdate))
  BY <1>4 DEF OfAccount
<1> QED BY <1>8, <1>9, <1>10 DEF us

\* It lists the accounts to lock, for a dismiss those of all its groups' admins.
LEMMA LockAccountsKeeps ==
    ASSUME NEW p \in Procs, GroupsInv, LockAccounts(p)
    PROVE  GroupsInv'
<1>1. TypeOK /\ Good(p)
  BY DEF GroupsInv
<1>2. /\ pc[p] = "count" /\ pc' = [pc EXCEPT ![p] = "lock"] /\ UNCHANGED <<tables, held, req, seen, joined, round>>
      /\ ids' = [ids EXCEPT ![p] = AccountsToLock(p) \cap (accounts \cup Procs)]
      /\ plan' = [plan EXCEPT ![p] = ByPk("account", AccountsToLock(p) \cap Users, NoKeyUpdate) \o GroupToLock(p)]
  BY DEF LockAccounts, Answer
<1>3. Op(p) \in AdminOps /\ round[p] = 1
  BY <1>1, <1>2 DEF Good, Places
<1>4. /\ pc'[p] = "lock" /\ held'[p] = held[p] /\ ids'[p] = AccountsToLock(p) \cap (accounts \cup Procs)
      /\ plan'[p] = ByPk("account", AccountsToLock(p) \cap Users, NoKeyUpdate) \o GroupToLock(p)
      /\ round'[p] = 1 /\ seen'[p] = seen[p] /\ joined'[p] = joined[p]
  BY <1>1, <1>2, <1>3 DEF TypeOK
<1>5. Own(p)
  BY <1>1, <1>2 DEF TypeOK, Own
<1>6. /\ plan'[p] \in Seq(Rows \X Modes)
      /\ \A u \in AccountsToLock(p) \cap Users : <<OfAccount(u), NoKeyUpdate>> \in ToSet(plan'[p])
      /\ Op(p) \in MemberOps => <<OfGroup(G(p)), NoKeyUpdate>> \in ToSet(plan'[p])
      /\ Op(p) \in Transfers => <<OfGroup(G(p)), Update>> \in ToSet(plan'[p])
  BY <1>1, <1>3, <1>4, AccountsPlan
<1>7. TablesOK /\ RequestOK(p)
  BY <1>1, TypeParts
<1>8. RequestOK(p)'
  <2>1. ids'[p] \subseteq People
    BY <1>4, <1>7 DEF TablesOK, People
  <2> QED BY <1>4, <1>6, <1>7, <2>1 DEF RequestOK, TablesOK, Pcs
<1>9. LockStep(p)
  BY <1>1, <1>4, NoLockTaken
<1>10. UNCHANGED tables /\ pc[p] \notin Answers /\ pc'[p] # "ok"
  BY <1>2, <1>4 DEF Answers
<1>11. /\ exists' = exists /\ accounts' = accounts /\ Op(p)' = Op(p) /\ X(p)' = X(p) /\ G(p)' = G(p)
       /\ \A u : Administered(u)' = Administered(u) /\ AdminsOf(u)' = AdminsOf(u)
  BY <1>1, <1>5, <1>10, Same
<1>12. HeldThere(p)'
  BY <1>1, <1>4, <1>11 DEF Good, HeldThere
<1>13. AccountsLocked(p)'
  <2>1. ids'[p] \subseteq People
    BY <1>4, <1>7 DEF TablesOK, People
  <2>2. X(p) \in AccountsToLock(p)
    BY <1>3 DEF AccountsToLock, AdminOps
  <2>3. \A u \in ids'[p] \cap accounts : <<OfAccount(u), NoKeyUpdate>> \in ToSet(plan'[p])
    BY <1>4, <1>6, <1>7 DEF TablesOK
  <2> QED BY <1>4, <1>6, <1>11, <2>1, <2>2, <2>3 DEF AccountsLocked, Has
<1>14. MemberReady(p)'
  BY <1>4 DEF MemberReady
<1>15. DismissReady(p)'
  <2>1. ASSUME Op(p) = "dismiss", NEW g \in Administered(X(p)) PROVE (AdminsOf(g) \cap Users) \subseteq ids'[p]
    <3>1. AdminsOf(g) \subseteq AccountsToLock(p)
      BY <2>1 DEF AccountsToLock, MemberOps
    <3>2. AdminsOf(g) \subseteq accounts \cup Procs
      BY <1>7 DEF AdminsOf, TablesOK
    <3> QED BY <1>4, <3>1, <3>2
  <2> PICK x : x = X(p)
    OBVIOUS
  <2>2. X(p)' = x /\ Administered(x)' = Administered(x)
    BY <1>11
  <2>3. Op(p) = "dismiss" => \A g \in Administered(x)' : (AdminsOf(g)' \cap Users) \subseteq ids'[p]
    BY <1>11, <2>1, <2>2
  <2>4. Administered(X(p))' = Administered(x)'
    BY <2>2 DEF Administered
  <2> QED BY <1>4, <1>11, <2>3, <2>4 DEF DismissReady
<1>16. Places(p)'
  BY <1>1, <1>3, <1>4, <1>5, AdminPlaces
<1>17. Good(p)'
  BY <1>1, <1>3, <1>5, <1>12, <1>13, <1>14, <1>15, <1>16, AdminGood
<1> QED BY <1>5, <1>8, <1>9, <1>10, <1>17, QuietStep

\* What is so when it goes on to write.
LEMMA MemberVerdictFacts ==
    ASSUME NEW p, Op(p) \in AdminOps
    PROVE  /\ MemberVerdict(p) \in {"gone", "refused", "write"}
           /\ MemberVerdict(p) = "write" =>
                 /\ Op(p) \in MemberOps \cup Transfers => Membership(p) \in member
                 /\ Op(p) \in {"demote", "remove"} =>
                       /\ X(p) # owner[G(p)]
                       /\ X(p) \in ActiveAdmins(G(p)) => ~(Cardinality(Counted(p)) <= 1)
                 /\ Op(p) \in Transfers => owner[G(p)] = seen[p]
                 /\ Op(p) = "transfer" => Membership(p) \in admins
                 /\ Op(p) = "dismiss" /\ X(p) \in accounts => ~MayNotGo(X(p))
BY DEF MemberVerdict, AdminOps, MemberOps, Transfers, Membership

\* Its accounts locked, they stay so, and what else it holds.
LEMMA AccountsStay ==
    ASSUME NEW p \in Procs, GroupsInv, Own(p), UNCHANGED tables, Op(p) \in AdminOps, Locked(p),
           pc'[p] \in {"lock", "write"}, held'[p] = held[p], ids'[p] = ids[p]
    PROVE  /\ HeldThere(p)' /\ AccountsLocked(p)'
           /\ \A r, m : Has(p, r, m) => held'[p][r] >= m
<1>1. TypeOK /\ Good(p) /\ pc[p] = "lock" /\ plan[p] = <<>>
  BY DEF GroupsInv, Locked
<1>2. exists' = exists /\ accounts' = accounts /\ Op(p)' = Op(p) /\ X(p)' = X(p) /\ G(p)' = G(p)
  BY <1>1, Same DEF Answers
<1>3. HeldThere(p)'
  BY <1>1, <1>2 DEF Good, HeldThere
<1>4. \A r, m : Has(p, r, m) => held'[p][r] >= m
  BY <1>1, ShortSeqs DEF Has
<1>5. AccountsLocked(p)'
  <2>1. /\ ids[p] \subseteq People
        /\ X(p) \in accounts => X(p) \in ids[p]
        /\ \A u \in ids[p] \cap accounts : held[p][OfAccount(u)] >= NoKeyUpdate
        /\ Op(p) \in MemberOps => Has(p, OfGroup(G(p)), NoKeyUpdate)
        /\ Op(p) \in Transfers => Has(p, OfGroup(G(p)), Update)
    BY <1>1, ShortSeqs DEF Good, AccountsLocked, Going
  <2>2. /\ Op(p) \in MemberOps => held'[p][OfGroup(G(p))] >= NoKeyUpdate
        /\ Op(p) \in Transfers => held'[p][OfGroup(G(p))] >= Update
    BY <1>4, <2>1
  <2> QED BY <1>2, <2>1, <2>2 DEF AccountsLocked, Has
<1> QED BY <1>3, <1>4, <1>5

\* It judges under its locks: counted admins cannot go before it commits.
LEMMA JudgeMemberKeeps ==
    ASSUME NEW p \in Procs, GroupsInv, JudgeMember(p)
    PROVE  GroupsInv'
<1>1. TypeOK /\ Good(p)
  BY DEF GroupsInv
<1>2. /\ Locked(p) /\ pc[p] = "lock" /\ plan[p] = <<>> /\ Op(p) \in AdminOps /\ UNCHANGED tables
      /\ Op(p) = "dismiss" => round[p] = 3
  BY DEF JudgeMember, Locked
<1>3. CASE MemberVerdict(p) # "write"
  <2>1. End(p, MemberVerdict(p)) /\ MemberVerdict(p) \in {"gone", "refused", "aborted"}
    BY <1>2, <1>3, MemberVerdictFacts DEF JudgeMember
  <2>2. pc[p] \notin Answers \cup {"ask"}
    BY <1>2 DEF Answers
  <2> QED BY <1>2, <2>1, <2>2, EndKeeps
<1>4. CASE MemberVerdict(p) = "write"
  <2>1. pc' = [pc EXCEPT ![p] = "write"] /\ UNCHANGED <<held, req, seen, ids, joined, round, plan>>
    BY <1>4 DEF JudgeMember, Answer
  <2>2. pc'[p] = "write"
    BY <1>1, <2>1 DEF TypeOK
  <2>3. Own(p)
    BY <1>1, <2>1 DEF TypeOK, Own
  <2>4. RequestOK(p)'
    BY <1>1, <2>1, <2>2, TypeParts DEF RequestOK, Pcs
  <2>5. LockStep(p)
    BY <1>1, <2>1, NoLockTaken
  <2>6. pc[p] \notin Answers /\ pc'[p] # "ok"
    BY <1>2, <2>2 DEF Answers
  <2>7. HeldThere(p)' /\ AccountsLocked(p)'
    BY <1>2, <2>1, <2>2, <2>3, AccountsStay
  <2>8. /\ exists' = exists /\ accounts' = accounts /\ owner' = owner /\ member' = member /\ admins' = admins
        /\ enabled' = enabled /\ Op(p)' = Op(p) /\ X(p)' = X(p) /\ G(p)' = G(p) /\ Membership(p)' = Membership(p)
        /\ \A g : (NewAdmins(g)' <=> NewAdmins(g)) /\ ActiveAdmins(g)' = ActiveAdmins(g)
                  /\ AdminsOf(g)' = AdminsOf(g) /\ Administered(g)' = Administered(g)
    BY <1>1, <1>2, <2>3, <2>6, Same
  <2>9. MemberReady(p)'
    <3>1. ASSUME Op(p) \in {"demote", "remove"}, X(p) \in ActiveAdmins(G(p))
          PROVE  \E u \in Counted(p) : u # X(p)
      <4>1. ~(Cardinality(Counted(p)) <= 1)
        BY <1>2, <1>4, <3>1, MemberVerdictFacts
      <4>2. SUFFICES ASSUME Counted(p) \subseteq {X(p)} PROVE FALSE
        OBVIOUS
      <4>3. Counted(p) = {} \/ Counted(p) = {X(p)}
        BY <4>2
      <4>4. Cardinality(Counted(p)) \in {0, 1}
        BY <4>3, FS_EmptySet, FS_Singleton
      <4> QED BY <4>1, <4>4
    <3> PICK g : g = G(p)
      OBVIOUS
    <3>2. Counted(p)' = Counted(p)
      BY <2>1, <2>8 DEF Counted, ActiveAdmins
    <3>3. ActiveAdmins(G(p))' = ActiveAdmins(G(p)) /\ owner'[G(p)'] = owner[G(p)]
      BY <2>8 DEF ActiveAdmins
    <3>4. /\ Op(p) \in MemberOps \cup Transfers => Membership(p) \in member
          /\ Op(p) \in {"demote", "remove"} => X(p) # owner[G(p)]
          /\ Op(p) \in Transfers => owner[G(p)] = seen[p]
          /\ Op(p) = "transfer" => Membership(p) \in admins
      BY <1>2, <1>4, MemberVerdictFacts
    <3> QED BY <2>1, <2>8, <3>1, <3>2, <3>3, <3>4 DEF MemberReady
  <2>10. DismissReady(p)'
    <3> SUFFICES ASSUME Op(p) = "dismiss" PROVE DismissReady(p)'
      BY <2>8 DEF DismissReady
    <3> PICK x : x = X(p)
      OBVIOUS
    <3>1. round[p] = 3 /\ pc[p] \in Going
      BY <1>2 DEF Going
    <3>2. /\ \A g \in Administered(x) : NewAdmins(g) \/ (AdminsOf(g) \cap Users) \subseteq ids[p]
          /\ \A g \in Administered(x) : held[p][OfGroup(g)] >= NoKeyUpdate
          /\ x \in accounts => Has(p, OfAccount(x), Update)
      BY <1>1, <3>1 DEF Good, DismissReady
    <3>3. x \in accounts => ~MayNotGo(x)
      BY <1>2, <1>4, MemberVerdictFacts
    <3>4. x \in accounts => \A g \in exists : owner[g] # x
      BY <3>3 DEF MayNotGo
    <3>5. ASSUME NEW g \in Administered(x) PROVE \E u \in ActiveAdmins(g) : u # x
      <4>1. x \in ActiveAdmins(g) /\ x \in Users
        BY <1>1, <1>2, <3>5, Named DEF Administered
      <4>2. x \in accounts
        BY <1>1, <4>1, AccountAssumption DEF ActiveAdmins, TypeOK
      <4>3. ActiveAdmins(g) # {x}
        BY <3>3, <3>5, <4>2 DEF MayNotGo
      <4> QED BY <4>1, <4>3
    <3>6. Administered(X(p))' = Administered(x) /\ X(p)' = x
      BY <2>8 DEF Administered, ActiveAdmins
    <3>7. x \in accounts => Has(p, OfAccount(x), Update)'
      <4>1. x \in accounts => held[p][OfAccount(x)] >= Update
        BY <1>2, <3>2, ShortSeqs DEF Has
      <4> QED BY <2>1, <4>1 DEF Has
    <3> QED BY <2>1, <2>2, <2>8, <3>1, <3>2, <3>4, <3>5, <3>6, <3>7 DEF DismissReady
  <2>11. Places(p)'
    <3>1. round[p] # 1 => Op(p) = "dismiss"
      BY <1>1, <1>2 DEF Good, Places
    <3> QED BY <1>1, <1>2, <2>1, <2>2, <2>3, <3>1, AdminPlaces
  <2>12. Good(p)'
    BY <1>1, <1>2, <2>3, <2>7, <2>9, <2>10, <2>11, AdminGood
  <2> QED BY <1>2, <2>3, <2>4, <2>5, <2>6, <2>12, QuietStep
<1> QED BY <1>3, <1>4

\* What the next statement of a user delete leaves as it is.
LEMMA RoundFacts ==
    ASSUME NEW p \in Procs, GroupsInv, Locked(p), Op(p) = "dismiss", round[p] \in {1, 2},
           NEW locks \in Seq(Rows \X Modes), NextRound(p, locks)
    PROVE  /\ Own(p) /\ RequestOK(p)' /\ LockStep(p) /\ UNCHANGED tables
           /\ pc'[p] = "lock" /\ plan'[p] = locks /\ round'[p] = round[p] + 1
           /\ held'[p] = held[p] /\ ids'[p] = ids[p]
           /\ HeldThere(p)' /\ AccountsLocked(p)' /\ MemberReady(p)' /\ Places(p)'
           /\ Op(p)' = Op(p) /\ X(p)' = X(p) /\ accounts' = accounts
           /\ Administered(X(p))' = Administered(X(p))
           /\ \A g : (NewAdmins(g)' <=> NewAdmins(g)) /\ AdminsOf(g)' = AdminsOf(g)
           /\ pc[p] = "lock" /\ pc[p] \notin Answers /\ pc'[p] # "ok"
           /\ \A g \in Administered(X(p)) : NewAdmins(g) \/ (AdminsOf(g) \cap Users) \subseteq ids[p]
<1>1. TypeOK /\ Good(p) /\ pc[p] = "lock"
  BY DEF GroupsInv, Locked
<1>2. /\ plan' = [plan EXCEPT ![p] = locks] /\ round' = [round EXCEPT ![p] = @ + 1]
      /\ UNCHANGED <<tables, held, req, pc, seen, ids, joined>>
  BY DEF NextRound
<1>3. plan'[p] = locks /\ round'[p] = round[p] + 1 /\ pc'[p] = "lock"
  BY <1>1, <1>2 DEF TypeOK
<1>4. Own(p)
  BY <1>1, <1>2 DEF TypeOK, Own
<1>5. RequestOK(p)'
  <2>1. round'[p] \in 1 .. 3
    BY <1>3
  <2> QED BY <1>1, <1>2, <1>3, <2>1, TypeParts DEF RequestOK, Pcs
<1>6. LockStep(p)
  BY <1>1, <1>2, NoLockTaken
<1>7. pc[p] \notin Answers /\ pc'[p] # "ok"
  BY <1>1, <1>3 DEF Answers
<1>8. Op(p) \in AdminOps
  BY DEF AdminOps
<1>9. HeldThere(p)' /\ AccountsLocked(p)'
  BY <1>2, <1>3, <1>4, <1>8, AccountsStay
<1>10. /\ Op(p)' = Op(p) /\ X(p)' = X(p) /\ accounts' = accounts /\ exists' = exists /\ enabled' = enabled
       /\ admins' = admins
       /\ \A g : (NewAdmins(g)' <=> NewAdmins(g)) /\ AdminsOf(g)' = AdminsOf(g)
  BY <1>1, <1>2, <1>4, <1>7, Same
<1>11. Administered(X(p))' = Administered(X(p))
  BY <1>10 DEF Administered, ActiveAdmins
<1>12. MemberReady(p)'
  BY <1>3 DEF MemberReady
<1>13. Places(p)'
  BY <1>1, <1>3, <1>4, <1>8, AdminPlaces
<1>14. \A g \in Administered(X(p)) : NewAdmins(g) \/ (AdminsOf(g) \cap Users) \subseteq ids[p]
  BY <1>1 DEF Good, DismissReady, Going
<1> QED BY <1>1, <1>2, <1>3, <1>4, <1>5, <1>6, <1>7, <1>9, <1>10, <1>11, <1>12, <1>13, <1>14

\* The groups the account administers by then are all that it locks.
LEMMA LockItsGroupsKeeps ==
    ASSUME NEW p \in Procs, GroupsInv, LockItsGroups(p)
    PROVE  GroupsInv'
<1> DEFINE locks == ByPk("group", Administered(X(p)), NoKeyUpdate)
<1>1. Locked(p) /\ Op(p) = "dismiss" /\ round[p] = 1 /\ NextRound(p, locks)
  BY DEF LockItsGroups
<1>2. TypeOK
  BY DEF GroupsInv
<1>3. Administered(X(p)) \subseteq Groups
  BY <1>2 DEF Administered, TypeOK
<1>4. Administered(X(p)) \subseteq Nat /\ IsFiniteSet(Administered(X(p)))
  BY <1>3, GroupTreeAssumption, FiniteAssumption, FS_Subset
<1>5. /\ locks \in Seq({<<<<"group", g>>, NoKeyUpdate>> : g \in Administered(X(p))})
      /\ ToSet(locks) = {<<<<"group", g>>, NoKeyUpdate>> : g \in Administered(X(p))}
  BY <1>4, ByPkFacts
<1>6. {<<<<"group", g>>, NoKeyUpdate>> : g \in Administered(X(p))} \subseteq Rows \X Modes
  BY <1>3, RowFacts DEF OfGroup, Modes, None, NoKeyUpdate, Update
<1> HIDE DEF locks
<1>7. locks \in Seq(Rows \X Modes)
  BY <1>5, <1>6
<1>8. \A g \in Administered(X(p)) : <<OfGroup(g), NoKeyUpdate>> \in ToSet(locks)
  BY <1>5 DEF OfGroup
<1>9. /\ Own(p) /\ RequestOK(p)' /\ LockStep(p) /\ UNCHANGED tables
      /\ pc'[p] = "lock" /\ plan'[p] = locks /\ round'[p] = round[p] + 1 /\ ids'[p] = ids[p]
      /\ HeldThere(p)' /\ AccountsLocked(p)' /\ MemberReady(p)' /\ Places(p)'
      /\ Op(p)' = Op(p) /\ X(p)' = X(p) /\ accounts' = accounts
      /\ Administered(X(p))' = Administered(X(p))
      /\ \A g : (NewAdmins(g)' <=> NewAdmins(g)) /\ AdminsOf(g)' = AdminsOf(g)
      /\ pc[p] = "lock" /\ pc[p] \notin Answers /\ pc'[p] # "ok"
      /\ \A g \in Administered(X(p)) : NewAdmins(g) \/ (AdminsOf(g) \cap Users) \subseteq ids[p]
  BY <1>1, <1>7, RoundFacts
<1>10. DismissReady(p)'
  <2>1. round'[p] = 2
    BY <1>1, <1>9
  <2>2. \A g \in Administered(X(p)) : WillHave(p, OfGroup(g), NoKeyUpdate)
    BY <1>8, <1>9 DEF WillHave
  <2>3. \A g \in Administered(X(p)) : NewAdmins(g)' \/ (AdminsOf(g)' \cap Users) \subseteq ids'[p]
    BY <1>9
  <2> QED BY <1>9, <2>1, <2>2, <2>3 DEF DismissReady, WillHave, Has
<1>11. Good(p)'
  BY <1>1, <1>2, <1>9, <1>10, AdminGood DEF AdminOps
<1> QED BY <1>9, <1>11, QuietStep

\* With its groups locked it goes for the account itself.
LEMMA LockItselfKeeps ==
    ASSUME NEW p \in Procs, GroupsInv, LockItself(p)
    PROVE  GroupsInv'
<1> DEFINE locks == <<<<OfAccount(X(p)), Update>>>>
<1>1. Locked(p) /\ Op(p) = "dismiss" /\ round[p] = 2 /\ pc[p] = "lock" /\ plan[p] = <<>>
  BY DEF LockItself, Locked
<1>2. TypeOK /\ Good(p) /\ Op(p) \in AdminOps
  BY <1>1 DEF GroupsInv, AdminOps
<1>3. CASE MemberVerdict(p) # "write"
  <2>1. End(p, MemberVerdict(p)) /\ UNCHANGED tables /\ MemberVerdict(p) \in {"gone", "refused", "aborted"}
    BY <1>2, <1>3, MemberVerdictFacts DEF LockItself
  <2>2. pc[p] \notin Answers \cup {"ask"}
    BY <1>1 DEF Answers
  <2> QED BY <2>1, <2>2, EndKeeps
<1>4. CASE MemberVerdict(p) = "write"
  <2>1. NextRound(p, locks)
    BY <1>4 DEF LockItself
  <2>2. OfAccount(X(p)) \in Rows /\ Update \in Modes
    BY <1>2, Named, RowFacts DEF Modes, None, Update
  <2>3. locks \in Seq(Rows \X Modes) /\ <<OfAccount(X(p)), Update>> \in ToSet(locks)
    BY <2>2, ShortSeqs
  <2> HIDE DEF locks
  <2>4. /\ Own(p) /\ RequestOK(p)' /\ LockStep(p) /\ UNCHANGED tables
        /\ pc'[p] = "lock" /\ plan'[p] = locks /\ round'[p] = round[p] + 1 /\ ids'[p] = ids[p]
        /\ held'[p] = held[p]
        /\ HeldThere(p)' /\ AccountsLocked(p)' /\ MemberReady(p)' /\ Places(p)'
        /\ Op(p)' = Op(p) /\ X(p)' = X(p) /\ accounts' = accounts
        /\ Administered(X(p))' = Administered(X(p))
        /\ \A g : (NewAdmins(g)' <=> NewAdmins(g)) /\ AdminsOf(g)' = AdminsOf(g)
        /\ pc[p] \notin Answers /\ pc'[p] # "ok"
        /\ \A g \in Administered(X(p)) : NewAdmins(g) \/ (AdminsOf(g) \cap Users) \subseteq ids[p]
    BY <1>1, <2>1, <2>3, RoundFacts
  <2>5. DismissReady(p)'
    <3>1. round'[p] = 3
      BY <1>1, <2>4
    <3>2. \A g \in Administered(X(p)) : held[p][OfGroup(g)] >= NoKeyUpdate
      <4>1. \A g \in Administered(X(p)) : Has(p, OfGroup(g), NoKeyUpdate)
        BY <1>1, <1>2 DEF Good, DismissReady, Going
      <4> QED BY <1>1, <4>1, ShortSeqs DEF Has
    <3>3. WillHave(p, OfAccount(X(p)), Update)
      BY <2>3, <2>4 DEF WillHave
    <3>4. \A g \in Administered(X(p)) : NewAdmins(g)' \/ (AdminsOf(g)' \cap Users) \subseteq ids'[p]
      BY <2>4
    <3> QED BY <2>4, <3>1, <3>2, <3>3, <3>4 DEF DismissReady, WillHave, Has
  <2>6. Good(p)'
    BY <1>2, <2>4, <2>5, AdminGood
  <2> QED BY <2>4, <2>6, QuietStep
<1> QED BY <1>3, <1>4

\* What such a request holds when it writes.
LEMMA MemberHeld ==
    ASSUME NEW p \in Procs, GroupsInv, pc[p] = "write", Op(p) \in AdminOps
    PROVE  /\ TypeOK /\ GroupsInOrder /\ TablesOK /\ MemberReady(p) /\ X(p) \in Users /\ X(p) \notin Procs
           /\ X(p) \in accounts => held[p][OfAccount(X(p))] >= NoKeyUpdate
           /\ Op(p) \in MemberOps \cup Transfers =>
                 /\ G(p) \in exists /\ Membership(p) \in member /\ X(p) \in accounts
                 /\ held[p][OfGroup(G(p))] >= NoKeyUpdate
           /\ Op(p) \in Transfers => held[p][OfGroup(G(p))] = Update
           /\ Op(p) = "dismiss" => /\ X(p) \in accounts => held[p][OfAccount(X(p))] = Update
                                   /\ X(p) \in accounts => \A g \in exists : owner[g] # X(p)
<1>1. TypeOK /\ GroupsInOrder /\ Good(p) /\ TablesOK
  BY TypeParts DEF GroupsInv
<1>2. X(p) \in Users /\ X(p) \notin Procs
  BY <1>1, Named, AccountAssumption
<1>3. plan[p] = <<>> /\ MemberReady(p)
  BY <1>1 DEF Good, Places
<1>4. \A r, m : Has(p, r, m) => held[p][r] >= m
  BY <1>3, ShortSeqs DEF Has
<1>5. X(p) \in accounts => held[p][OfAccount(X(p))] >= NoKeyUpdate
  BY <1>1 DEF Good, AccountsLocked, Going
<1>6. ASSUME Op(p) \in MemberOps \cup Transfers
      PROVE  G(p) \in exists /\ Membership(p) \in member /\ X(p) \in accounts
  <2>1. Membership(p) \in member
    BY <1>3, <1>6 DEF MemberReady
  <2>2. Membership(p) \in exists \X (accounts \cup Procs)
    BY <1>1, <2>1 DEF TablesOK
  <2> QED BY <1>2, <2>1, <2>2 DEF Membership
<1>7. ASSUME Op(p) \in MemberOps \cup Transfers
      PROVE  held[p][OfGroup(G(p))] \in Modes
  BY <1>1, <1>7, Named, RowFacts DEF TypeOK
<1>8. Op(p) \in Transfers => held[p][OfGroup(G(p))] = Update
  <2>1. Op(p) \in Transfers => Has(p, OfGroup(G(p)), Update)
    BY <1>1 DEF Good, AccountsLocked, Going
  <2> QED BY <1>4, <1>7, <2>1, ModeFacts
<1>9. Op(p) \in MemberOps => held[p][OfGroup(G(p))] >= NoKeyUpdate
  <2>1. Op(p) \in MemberOps => Has(p, OfGroup(G(p)), NoKeyUpdate)
    BY <1>1 DEF Good, AccountsLocked, Going
  <2> QED BY <1>4, <2>1
<1>10. ASSUME Op(p) = "dismiss"
       PROVE  /\ X(p) \in accounts => held[p][OfAccount(X(p))] = Update
              /\ X(p) \in accounts => \A g \in exists : owner[g] # X(p)
  <2>1. /\ X(p) \in accounts => Has(p, OfAccount(X(p)), Update)
        /\ X(p) \in accounts => \A g \in exists : owner[g] # X(p)
    BY <1>1, <1>10 DEF Good, DismissReady, Going
  <2>2. held[p][OfAccount(X(p))] \in Modes
    BY <1>1, <1>2, RowFacts DEF TypeOK
  <2> QED BY <1>4, <2>1, <2>2, ModeFacts
<1> QED BY <1>1, <1>2, <1>3, <1>5, <1>6, <1>8, <1>9, <1>10, ModeFacts

\* Its COMMIT changes members, roles and accounts only under its locks.
LEMMA CommitMemberKeeps ==
    ASSUME NEW p \in Procs, GroupsInv, CommitMember(p)
    PROVE  GroupsInv'
<1>1. /\ pc[p] = "write" /\ Op(p) \in AdminOps /\ WriteMember(p) /\ End(p, "ok")
      /\ exists' = exists /\ parent' = parent /\ links' = links /\ active' = active /\ used' = used
      /\ reserved' = reserved /\ home' = home
  BY DEF CommitMember, tree, invites
<1>2. /\ TypeOK /\ GroupsInOrder /\ TablesOK /\ MemberReady(p) /\ X(p) \in Users /\ X(p) \notin Procs
      /\ X(p) \in accounts => held[p][OfAccount(X(p))] >= NoKeyUpdate
      /\ Op(p) \in MemberOps \cup Transfers =>
            /\ G(p) \in exists /\ Membership(p) \in member /\ X(p) \in accounts
            /\ held[p][OfGroup(G(p))] >= NoKeyUpdate
      /\ Op(p) \in Transfers => held[p][OfGroup(G(p))] = Update
      /\ Op(p) = "dismiss" => /\ X(p) \in accounts => held[p][OfAccount(X(p))] = Update
                              /\ X(p) \in accounts => \A g \in exists : owner[g] # X(p)
  BY <1>1, MemberHeld
<1>3. pc'[p] = "ok" /\ pc[p] \notin Answers \cup {"ask"}
  BY <1>1, <1>2 DEF End, Answer, TypeOK, Answers
<1>4. TreeEffects(p) /\ LinkEffects(p)
  <2>1. Op(p) \notin LinkOps
    BY <1>1 DEF AdminOps, MemberOps, Transfers, LinkOps, SignUps
  <2> QED BY <1>1, <2>1 DEF TreeEffects, LinkEffects
<1>5. \A g : Unused(g)' = Unused(g)
  BY <1>1 DEF Unused, LinksOf
<1>6. Membership(p)[1] = G(p) /\ Membership(p)[2] = X(p)
  BY DEF Membership
<1>7. CASE Op(p) = "promote"
  <2>1. admins' = admins \cup {Membership(p)} /\ accounts' = accounts /\ enabled' = enabled
        /\ owner' = owner /\ member' = member
    BY <1>7 DEF WriteMember, people, Transfers, CommitMember
  <2>2. Op(p) \in MemberOps
    BY <1>7 DEF MemberOps
  <2>3. TablesOK'
    BY <1>1, <1>2, <2>1, <2>2 DEF TablesOK
  <2>4. PeopleEffects(p)
    BY <1>2, <1>3, <1>6, <1>7, <2>1, <2>2 DEF PeopleEffects
  <2>5. GroupsInOrder'
    BY <1>1, <1>2, <1>5, <2>1 DEF GroupsInOrder
  <2> QED BY <1>1, <1>3, <1>4, <1>7, <2>3, <2>4, <2>5, FinishKeeps DEF LinkOps, SignUps
<1>8. CASE Op(p) \in {"demote", "remove"}
  <2>1. /\ admins' = admins \ {Membership(p)} /\ accounts' = accounts /\ enabled' = enabled
        /\ owner' = owner /\ member' \in {member, member \ {Membership(p)}}
    BY <1>1, <1>8 DEF WriteMember, people, Transfers
  <2>2. Op(p) \in MemberOps
    BY <1>8 DEF MemberOps
  <2>3. TablesOK'
    <3>1. admins' \subseteq member'
      BY <1>2, <2>1 DEF TablesOK
    <3> QED BY <1>1, <1>2, <2>1, <3>1 DEF TablesOK
  <2>4. PeopleEffects(p)
    <3>1. \A m \in (member \ member') \cup (admins \ admins') : Unseats(p, m)
      BY <1>2, <1>6, <2>1, <2>2 DEF Unseats
    <3> QED BY <2>1, <3>1 DEF PeopleEffects
  <2>5. GroupsInOrder'
    <3>1. X(p) # owner[G(p)]
      BY <1>1, <1>2, <1>8, <2>2 DEF MemberReady
    <3>2. \A g \in exists : <<g, owner[g]>> \in admins'
      BY <1>2, <2>1, <3>1 DEF GroupsInOrder, Membership
    <3> QED BY <1>1, <1>2, <1>5, <2>1, <3>2 DEF GroupsInOrder
  <2> QED BY <1>1, <1>3, <1>4, <1>8, <2>3, <2>4, <2>5, FinishKeeps DEF LinkOps, SignUps
<1>9. CASE Op(p) \in Transfers
  <2>1. /\ owner' = [owner EXCEPT ![G(p)] = X(p)] /\ accounts' = accounts /\ enabled' = enabled
        /\ member' = member \cup {Membership(p), <<G(p), seen[p]>>}
        /\ admins' = admins \cup {Membership(p), <<G(p), seen[p]>>}
    BY <1>1, <1>9 DEF WriteMember, people, Transfers
  <2>2. seen[p] = owner[G(p)] /\ <<G(p), owner[G(p)]>> \in admins
    BY <1>1, <1>2, <1>9 DEF MemberReady, GroupsInOrder
  <2>3. member' = member /\ admins' = admins \cup {Membership(p)}
    BY <1>2, <1>9, <2>1, <2>2 DEF TablesOK
  <2>4. G(p) \in Groups /\ \A g \in Groups : owner'[g] = IF g = G(p) THEN X(p) ELSE owner[g]
    BY <1>2, <1>9, <2>1 DEF TablesOK
  <2>5. TablesOK'
    <3>1. owner' \in [Groups -> People]
      BY <1>2, <2>1 DEF TablesOK, People
    <3> QED BY <1>1, <1>2, <1>9, <2>1, <2>3, <3>1 DEF TablesOK
  <2>6. PeopleEffects(p)
    <3>1. ASSUME NEW m \in admins' \ admins
          PROVE  /\ held[p][OfGroup(m[1])] >= NoKeyUpdate /\ held[p][OfAccount(m[2])] >= NoKeyUpdate
                 /\ Op(p) \in {"promote", "handover"} /\ G(p) = m[1] /\ pc'[p] = "ok"
      <4>1. m = Membership(p) /\ m \notin admins
        BY <2>3, <3>1
      <4>2. Op(p) # "transfer"
        BY <1>1, <1>2, <4>1 DEF MemberReady, Transfers
      <4> QED BY <1>2, <1>3, <1>6, <1>9, <4>1, <4>2 DEF Transfers
    <3>2. \A g \in exists : owner'[g] # owner[g] => g = G(p) /\ owner'[g] = X(p)
      BY <1>2, <2>4 DEF TablesOK
    <3>3. \A g \in exists : owner'[g] # owner[g] =>
              /\ held[p][OfGroup(g)] = Update
              /\ owner'[g] \in Users => held[p][OfAccount(owner'[g])] >= NoKeyUpdate
      BY <1>2, <1>9, <3>2
    <3>4. member' \ member = {} /\ (member \ member') \cup (admins \ admins') = {}
      BY <2>3
    <3> QED BY <2>1, <3>1, <3>3, <3>4 DEF PeopleEffects
  <2>7. GroupsInOrder'
    <3>1. ASSUME NEW g \in exists PROVE <<g, owner'[g]>> \in admins'
      <4>1. g \in Groups /\ <<g, owner[g]>> \in admins
        BY <1>2 DEF TablesOK, GroupsInOrder
      <4> QED BY <2>3, <2>4, <4>1 DEF Membership
    <3> QED BY <1>1, <1>2, <1>5, <3>1 DEF GroupsInOrder
  <2> QED BY <1>1, <1>3, <1>4, <1>9, <2>5, <2>6, <2>7, FinishKeeps DEF LinkOps, SignUps, Transfers
<1>10. CASE Op(p) = "deactivate"
  <2>1. /\ enabled' = enabled \ {X(p)} /\ accounts' = accounts
        /\ owner' = owner /\ member' = member /\ admins' = admins
    BY <1>1, <1>10 DEF WriteMember, roles, Transfers
  <2>2. TablesOK'
    BY <1>1, <1>2, <2>1 DEF TablesOK
  <2>3. PeopleEffects(p)
    BY <1>2, <2>1 DEF PeopleEffects, TablesOK
  <2>4. GroupsInOrder'
    BY <1>1, <1>2, <1>5, <2>1 DEF GroupsInOrder
  <2> QED BY <1>1, <1>3, <1>4, <1>10, <2>2, <2>3, <2>4, FinishKeeps DEF LinkOps, SignUps
<1>11. CASE Op(p) = "dismiss"
  <2>1. /\ enabled' = enabled \ {X(p)} /\ accounts' = accounts \ {X(p)} /\ owner' = owner
        /\ member' = {m \in member : m[2] # X(p)} /\ admins' = {m \in admins : m[2] # X(p)}
    BY <1>1, <1>11 DEF WriteMember, Transfers
  <2>2. \A m \in member : m \in exists \X (accounts \cup Procs)
    BY <1>2 DEF TablesOK
  <2>3. TablesOK'
    <3>1. ASSUME NEW m \in member' PROVE m \in exists \X (accounts' \cup Procs)
      BY <2>1, <2>2, <3>1
    <3>2. admins' \subseteq member' /\ enabled' \subseteq accounts' /\ accounts' \subseteq Users
      BY <1>2, <2>1 DEF TablesOK
    <3>3. member' \subseteq exists' \X (accounts' \cup Procs)
      BY <1>1, <3>1
    <3> QED BY <1>1, <1>2, <2>1, <3>2, <3>3 DEF TablesOK
  <2>4. PeopleEffects(p)
    <3>1. ASSUME NEW m \in (member \ member') \cup (admins \ admins') PROVE Unseats(p, m)
      <4>1. m \in member /\ m[2] = X(p)
        BY <1>2, <2>1, <3>1 DEF TablesOK
      <4>2. X(p) \in accounts
        BY <1>2, <2>2, <4>1
      <4> QED BY <1>2, <1>11, <4>1, <4>2 DEF Unseats
    <3>2. \A u \in (accounts \ accounts') \cup (enabled \ enabled') : u = X(p) /\ X(p) \in accounts
      BY <1>2, <2>1 DEF TablesOK
    <3>3. /\ \A u \in accounts \ accounts' : held[p][OfAccount(u)] = Update
          /\ \A u \in enabled \ enabled' : held[p][OfAccount(u)] >= NoKeyUpdate
      BY <1>2, <1>11, <3>2
    <3> QED BY <2>1, <3>1, <3>3 DEF PeopleEffects
  <2>5. GroupsInOrder'
    <3>1. ASSUME NEW g \in exists PROVE <<g, owner[g]>> \in admins'
      <4>1. <<g, owner[g]>> \in admins /\ <<g, owner[g]>> \in member
        BY <1>2 DEF GroupsInOrder, TablesOK
      <4>2. owner[g] \in accounts \cup Procs
        BY <2>2, <4>1
      <4>3. owner[g] # X(p)
        BY <1>2, <1>11, <4>2
      <4> QED BY <2>1, <4>1, <4>3
    <3> QED BY <1>1, <1>2, <1>5, <2>1, <3>1 DEF GroupsInOrder
  <2> QED BY <1>1, <1>3, <1>4, <1>11, <2>3, <2>4, <2>5, FinishKeeps DEF LinkOps, SignUps
<1> QED BY <1>1, <1>7, <1>8, <1>9, <1>10, <1>11 DEF AdminOps, MemberOps

-----------------------------------------------------------------------------
(* The invariant.                                                           *)

\* The tables to start from.
LEMMA InitTables ==
    ASSUME Init
    PROVE  /\ TablesOK /\ GroupsInOrder /\ links = InitLinks
           /\ req \in [Procs -> Requests]
<1>1. PICK t \in InitTrees : parent = [g \in Groups |-> IF g \in DOMAIN t THEN t[g] ELSE Top] /\ exists = DOMAIN t
  BY DEF Init
<1>2. PICK s \in InitStaff : /\ owner = s.owner /\ enabled = s.enabled
                             /\ admins = {m \in s.admins : m[1] \in exists}
                             /\ member = {m \in s.admins \cup s.member : m[1] \in exists}
  BY DEF Init
<1>3. /\ accounts = Users /\ links = InitLinks /\ active = InitLinks /\ used = {} /\ reserved = {}
      /\ home \in exists \cup {Top}
  BY DEF Init
<1>4. /\ exists \subseteq Groups /\ \A g \in exists : t[g] \in exists \cup {Top}
      /\ InitLinks \subseteq {i \in Links : LinkGroup[i] \in exists}
      /\ \A g \in exists : <<g, s.owner[g]>> \in s.admins
      /\ s.owner \in [Groups -> Users] /\ s.enabled \subseteq Users
      /\ s.admins \cup s.member \subseteq Groups \X Users
      /\ MaxActive \in Nat
      /\ \A g \in Groups : Cardinality({i \in InitLinks \ Emailed : LinkGroup[i] = g}) <= MaxActive
  BY <1>1, StartAssumption
<1>5. TablesOK
  <2>1. parent \in [Groups -> exists \cup {Top}]
    BY <1>1, <1>4
  <2>2. owner \in [Groups -> People]
    BY <1>2, <1>4 DEF People
  <2>3. member \subseteq exists \X (accounts \cup Procs)
    <3>1. ASSUME NEW m \in member PROVE m \in exists \X (accounts \cup Procs)
      <4>1. m \in Groups \X Users /\ m[1] \in exists
        BY <1>2, <1>4, <3>1
      <4> QED BY <1>3, <4>1
    <3> QED BY <3>1
  <2>4. admins \subseteq member
    BY <1>2
  <2> QED BY <1>2, <1>3, <1>4, <2>1, <2>2, <2>3, <2>4 DEF TablesOK
<1>6. GroupsInOrder
  <2>1. \A g \in Groups \ exists : parent[g] = Top
    BY <1>1
  <2>2. \A g \in exists : <<g, owner[g]>> \in admins
    <3>1. ASSUME NEW g \in exists PROVE <<g, owner[g]>> \in admins
      <4>1. <<g, owner[g]>> \in s.admins /\ <<g, owner[g]>>[1] \in exists
        BY <1>2, <1>4
      <4> QED BY <1>2, <4>1
    <3> QED BY <3>1
  <2>3. \A g : Unused(g) = {i \in InitLinks \ Emailed : LinkGroup[i] = g}
    BY <1>3 DEF Unused, LinksOf
  <2> QED BY <1>4, <2>1, <2>2, <2>3 DEF GroupsInOrder
<1>7. req \in [Procs -> Requests]
  BY DEF Init, Requests
<1> QED BY <1>3, <1>5, <1>6, <1>7

\* The invariant holds at first.
LEMMA InitGood ==
    Init => GroupsInv
<1> SUFFICES ASSUME Init PROVE GroupsInv
  OBVIOUS
<1>1. TablesOK /\ GroupsInOrder /\ links = InitLinks /\ req \in [Procs -> Requests]
  BY InitTables
<1>2. /\ held = [p \in Procs |-> [r \in Rows |-> None]] /\ pc = [p \in Procs |-> "ask"]
      /\ seen = [p \in Procs |-> Top] /\ ids = [p \in Procs |-> {}] /\ joined = [p \in Procs |-> {}]
      /\ round = [p \in Procs |-> 1] /\ plan = [p \in Procs |-> <<>>]
      /\ \A p \in Procs : Op(p) = "create" => G(p) \notin exists
      /\ \A p, q \in Procs : p # q /\ Op(p) = "create" /\ Op(q) = "create" => G(p) # G(q)
      /\ \A p, q \in Procs : p # q /\ Op(p) = "mint" /\ Op(q) = "mint" => X(p) # X(q)
  BY DEF Init
<1>3. TypeOK
  <2>1. held \in [Procs -> [Rows -> Modes]]
    BY <1>2 DEF Modes, None, Update
  <2>2. pc \in [Procs -> Pcs] /\ seen \in [Procs -> Groups \cup {Top} \cup People]
    BY <1>2 DEF Pcs
  <2>3. /\ ids \in [Procs -> SUBSET (Groups \cup {Top} \cup People)]
        /\ joined \in [Procs -> SUBSET (Groups \X People)] /\ round \in [Procs -> 1 .. 3]
    BY <1>2
  <2>4. plan \in [Procs -> Seq(Rows \X Modes)]
    BY <1>2
  <2> QED BY <1>1, <2>1, <2>2, <2>3, <2>4 DEF TypeOK, TablesOK, Pcs
<1>4. LocksCompatible
  <2>1. Compatible(None, None)
    BY DEF Compatible, None
  <2> QED BY <1>2, <2>1 DEF LocksCompatible
<1>5. Fresh
  <2>1. \A p \in Procs : Op(p) = "mint" => X(p) \notin InitLinks
    BY <1>1, RequestAssumption DEF Sensible, Op, X
  <2> QED BY <1>1, <1>2, <2>1 DEF Fresh, Unborn, Unminted
<1>6. GrantedOnce
  BY <1>2 DEF GrantedOnce
<1>7. ASSUME NEW p \in Procs PROVE Good(p)
  <2>1. pc[p] = "ask" /\ pc[p] \notin Going /\ ids[p] = {} /\ round[p] = 1 /\ plan[p] = <<>>
        /\ \A r \in Rows : held[p][r] = None
    BY <1>2 DEF Going
  <2>2. HeldThere(p)
    BY <2>1, RowFacts DEF HeldThere
  <2>3. OldGroups(p) /\ WalkLocked(p) /\ MoveReady(p) /\ DeleteReady(p) /\ FixedLocked(p)
    BY <2>1 DEF OldGroups, WalkLocked, MoveReady, DeleteReady, FixedLocked, Going
  <2>4. SaveReady(p) /\ LinkReady(p) /\ MintReady(p) /\ LinkKnown(p) /\ AccountsLocked(p) /\ MemberReady(p)
        /\ DismissReady(p)
    BY <2>1 DEF SaveReady, LinkReady, MintReady, LinkKnown, AccountsLocked, MemberReady, DismissReady
  <2>5. Places(p)
    BY <2>1 DEF Places
  <2> QED BY <2>2, <2>3, <2>4, <2>5 DEF Good
<1> QED BY <1>1, <1>3, <1>4, <1>5, <1>6, <1>7 DEF GroupsInv

\* It is about the variables only.
LEMMA UnchangedKeeps ==
    ASSUME GroupsInv, UNCHANGED vars
    PROVE  GroupsInv'
<1>1. /\ exists' = exists /\ parent' = parent /\ accounts' = accounts /\ enabled' = enabled
      /\ owner' = owner /\ member' = member /\ admins' = admins /\ links' = links
      /\ active' = active /\ used' = used /\ reserved' = reserved /\ home' = home
      /\ held' = held /\ req' = req /\ pc' = pc /\ seen' = seen /\ ids' = ids /\ joined' = joined
      /\ round' = round /\ plan' = plan
  BY DEF vars, tables, tree, people, roles, invites
<1>2. TypeOK'
  BY <1>1 DEF GroupsInv, TypeOK
<1>3. LocksCompatible' /\ GroupsInOrder' /\ GrantedOnce'
  BY <1>1 DEF GroupsInv, LocksCompatible, GroupsInOrder, GrantedOnce, Unused, LinksOf, Op, X
<1>4. Unborn' = Unborn /\ Unminted' = Unminted
  BY <1>1 DEF Unborn, Unminted, Op, G, X
<1>5. Fresh'
  BY <1>1, <1>4 DEF GroupsInv, Fresh, Op, G, X
<1>6. ASSUME NEW p \in Procs PROVE Good(p)'
  <2>1. Good(p)
    BY DEF GroupsInv
  <2>2. /\ Op(p)' = Op(p) /\ G(p)' = G(p) /\ X(p)' = X(p) /\ Membership(p)' = Membership(p)
        /\ FixedLocks(p)' = FixedLocks(p) /\ (Walks(p)' <=> Walks(p))
        /\ \A r, m : Has(p, r, m)' <=> Has(p, r, m)
        /\ \A g : (NewAdmins(g)' <=> NewAdmins(g)) /\ ActiveAdmins(g)' = ActiveAdmins(g)
                  /\ AdminsOf(g)' = AdminsOf(g) /\ Unused(g)' = Unused(g)
                  /\ LinksOf(g)' = LinksOf(g) /\ Administered(g)' = Administered(g)
        /\ \A C : Closed(C)' <=> Closed(C)
    BY <1>1 DEF Op, G, X, Membership, FixedLocks, Walks, Has, NewAdmins, ActiveAdmins, AdminsOf,
                Unused, LinksOf, Administered, Closed
  <2>3. HeldThere(p)' /\ OldGroups(p)' /\ WalkLocked(p)' /\ MoveReady(p)'
    BY <1>1, <1>4, <2>1, <2>2 DEF Good, HeldThere, OldGroups, WalkLocked, MoveReady
  <2>4. DeleteReady(p)'
    BY <1>1, <2>1, <2>2 DEF Good, DeleteReady
  <2>5. FixedLocked(p)' /\ SaveReady(p)' /\ LinkReady(p)' /\ LinkKnown(p)'
    BY <1>1, <1>4, <2>1, <2>2 DEF Good, FixedLocked, SaveReady, LinkReady, LinkKnown
  <2>6. MintReady(p)' /\ AccountsLocked(p)'
    BY <1>1, <2>1, <2>2 DEF Good, MintReady, AccountsLocked
  <2>7. MemberReady(p)'
    BY <1>1, <2>1, <2>2 DEF Good, MemberReady, Counted, ActiveAdmins
  <2>8. DismissReady(p)'
    BY <1>1, <2>1, <2>2 DEF Good, DismissReady
  <2>9. Places(p)'
    BY <1>1, <2>1, <2>2 DEF Good, Places
  <2> QED BY <2>3, <2>4, <2>5, <2>6, <2>7, <2>8, <2>9 DEF Good
<1> QED BY <1>2, <1>3, <1>5, <1>6 DEF GroupsInv

\* Every step keeps the invariant.
LEMMA NextKeeps ==
    ASSUME GroupsInv, [Next]_vars
    PROVE  GroupsInv'
<1>1. CASE UNCHANGED vars
  BY <1>1, UnchangedKeeps
<1>2. CASE Finished
  BY <1>2, UnchangedKeeps DEF Finished
<1>3. ASSUME NEW p \in Procs, GroupStep(p) PROVE GroupsInv'
  BY <1>3, AskKeeps, WalkKeeps, LockKeeps, RewalkKeeps, CollectKeeps, JudgeKeeps, GiveBackKeeps, CommitKeeps,
     ConfirmKeeps, CommitDeleteKeeps DEF GroupStep
<1>4. ASSUME NEW p \in Procs, AdminStep(p) PROVE GroupsInv'
  BY <1>4, AskMemberKeeps, LockAccountsKeeps, JudgeMemberKeeps, LockItsGroupsKeeps, LockItselfKeeps,
     CommitMemberKeeps DEF AdminStep
<1>5. ASSUME NEW p \in Procs, Abort(p) PROVE GroupsInv'
  BY <1>5, AbortKeeps
<1> QED BY <1>1, <1>2, <1>3, <1>4, <1>5 DEF Next

\* Whatever requests are in flight, what each has locked, listed or decided
\* on stays as its locks say until it commits.
THEOREM GroupsInvariance == Spec => []GroupsInv
<1>1. Init => GroupsInv
  BY InitGood
<1>2. GroupsInv /\ [Next]_vars => GroupsInv'
  BY NextKeeps
<1> QED BY <1>1, <1>2, PTL DEF Spec

-----------------------------------------------------------------------------
(* What the invariant says of the requests.                                 *)

\* Every variable has its type, and every foreign key points at a row.
THEOREM Types == Spec => []TypeOK
<1>1. GroupsInv => TypeOK
  BY DEF GroupsInv
<1> QED BY <1>1, GroupsInvariance, PTL

\* No request fails a foreign key at COMMIT: what it points at is locked, and a
\* delete finds all there is below its group.
THEOREM NoIntegrityErrors == Spec => []NoIntegrityError
<1>1. GroupsInv => NoIntegrityError
  BY DEF GroupsInv, Good, Places, NoIntegrityError
<1> QED BY <1>1, GroupsInvariance, PTL

\* A single-use link admits one user, and no group has more unused links than
\* the cap allows.
THEOREM LinksLimited == Spec => []LinkLimits
<1>1. GroupsInv => LinkLimits
  <2> SUFFICES ASSUME GroupsInv PROVE LinkLimits
    OBVIOUS
  <2>1. ASSUME NEW i \in Links
        PROVE  Cardinality({p \in Procs : Op(p) \in LinkOps /\ X(p) = i /\ pc[p] = "ok"}) <= 1
    <3> DEFINE S == {p \in Procs : Op(p) \in LinkOps /\ X(p) = i /\ pc[p] = "ok"}
    <3>1. \A p, q \in S : p = q
      BY DEF GroupsInv, GrantedOnce
    <3>2. S = {} \/ \E p : S = {p}
      BY <3>1
    <3> HIDE DEF S
    <3>3. Cardinality(S) <= 1
      BY <3>2, FS_EmptySet, FS_Singleton
    <3> QED BY <3>3 DEF S
  <2> QED BY <2>1 DEF GroupsInv, GroupsInOrder, LinkLimits
<1> QED BY <1>1, GroupsInvariance, PTL

-----------------------------------------------------------------------------
(* What a step may not do.                                                  *)

\* Only a COMMIT changes the tables of groups, members and accounts.
LEMMA OnlyCommits ==
    ASSUME NEW p \in Procs, GroupStep(p) \/ AdminStep(p) \/ Abort(p),
           ~Commit(p), ~CommitDelete(p), ~CommitMember(p)
    PROVE  UNCHANGED <<tree, people, roles>>
<1>1. CASE GroupStep(p)
  BY <1>1 DEF GroupStep, Ask, Walk, Lock, Rewalk, Collect, Judge, GiveBack, Confirm, tables
<1>2. CASE AdminStep(p)
  BY <1>2 DEF AdminStep, AskMember, LockAccounts, JudgeMember, LockItsGroups, LockItself, NextRound, tables
<1>3. CASE Abort(p)
  BY <1>3 DEF Abort, tables
<1> QED BY <1>1, <1>2, <1>3

\* The end of a transaction is the answer to one request.
LEMMA OnlyItsOwn ==
    ASSUME NEW p \in Procs, TypeOK, NEW a, End(p, a)
    PROVE  \A q \in Procs : q # p => pc'[q] = pc[q]
BY DEF End, Answer, TypeOK

\* A rename, or a change of defaults, writes the group back as it is: it undoes
\* no move and brings no deleted group back.
THEOREM TreeKept == Spec => OthersKeepTheTree
<1> DEFINE Kept == \A p \in Procs : Op(p) \in {"rename", "defaults"} /\ pc'[p] = "ok" /\ pc[p] # "ok"
                       => UNCHANGED <<exists, parent>>
<1>1. ASSUME GroupsInv, [Next]_vars PROVE [Kept]_vars
  <2>1. CASE UNCHANGED vars
    BY <2>1
  <2>2. CASE Finished
    BY <2>2 DEF Finished
  <2>3. ASSUME NEW q \in Procs, GroupStep(q) \/ AdminStep(q) \/ Abort(q) PROVE Kept
    <3>1. TypeOK /\ Places(q)
      BY <1>1 DEF GroupsInv, Good
    <3>2. CASE Commit(q)
      <4>1. ASSUME NEW p \in Procs, Op(p) \in {"rename", "defaults"}, pc'[p] = "ok", pc[p] # "ok"
            PROVE  UNCHANGED <<exists, parent>>
        <5>1. End(q, Outcome(q))
          BY <1>1, <3>2, CommitFacts
        <5>2. p = q
          BY <3>1, <4>1, <5>1, OnlyItsOwn
        <5> QED BY <1>1, <3>2, <4>1, <5>2, SaveChangesNothing
      <4> QED BY <4>1
    <3>3. CASE CommitDelete(q)
      <4>1. ASSUME NEW p \in Procs, Op(p) \in {"rename", "defaults"}, pc'[p] = "ok", pc[p] # "ok"
            PROVE  UNCHANGED <<exists, parent>>
        <5>1. End(q, "ok") /\ Op(q) = "delete"
          BY <1>1, <3>1, <3>3, NothingDangles DEF CommitDelete, Places
        <5>2. p = q
          BY <3>1, <4>1, <5>1, OnlyItsOwn
        <5> QED BY <4>1, <5>1, <5>2
      <4> QED BY <4>1
    <3>4. CASE CommitMember(q)
      BY <3>4 DEF CommitMember, tree
    <3>5. CASE ~Commit(q) /\ ~CommitDelete(q) /\ ~CommitMember(q)
      BY <2>3, <3>5, OnlyCommits DEF tree
    <3> QED BY <3>2, <3>3, <3>4, <3>5
  <2> QED BY <1>1, <2>1, <2>2, <2>3 DEF Next
<1> QED BY <1>1, GroupsInvariance, PTL DEF Spec, OthersKeepTheTree

\* A step that only adds admins takes no group's last one.
LEMMA MoreAdmins ==
    ASSUME NEW g, enabled' = enabled, admins \subseteq admins', ActiveAdmins(g) # {}
    PROVE  ActiveAdmins(g)' # {}
BY DEF ActiveAdmins

\* An active admin who stays one.
LEMMA AdminLeft ==
    ASSUME NEW g, NEW u \in ActiveAdmins(g), <<g, u>> \in admins', u \in enabled => u \in enabled'
    PROVE  ActiveAdmins(g)' # {}
BY DEF ActiveAdmins

\* Only an account delete, or a deactivation, takes a group's last active admin.
LEMMA LastAdmin ==
    ASSUME NEW p \in Procs, GroupsInv, CommitMember(p), NEW g \in exists,
           ActiveAdmins(g) # {}, ActiveAdmins(g)' = {}
    PROVE  \/ accounts' = accounts /\ roles' = roles
           \/ accounts' # accounts /\ NewAdmins(g)
<1>1. pc[p] = "write" /\ Op(p) \in AdminOps /\ WriteMember(p)
  BY DEF CommitMember
<1>2. /\ TypeOK /\ TablesOK /\ MemberReady(p) /\ X(p) \in Users /\ X(p) \notin Procs /\ DismissReady(p)
      /\ Op(p) \in MemberOps \cup Transfers => Membership(p) \in member
  BY <1>1, MemberHeld DEF GroupsInv, Good
<1>3. CASE Op(p) = "promote" \/ Op(p) \in Transfers
  <2>1. enabled' = enabled /\ admins \subseteq admins'
    BY <1>1, <1>3 DEF WriteMember, people, Transfers
  <2> QED BY <2>1, MoreAdmins
<1>4. CASE Op(p) \in {"demote", "remove"}
  <2>1. admins' = admins \ {Membership(p)} /\ enabled' = enabled
    BY <1>1, <1>4 DEF WriteMember, people, Transfers
  <2>2. ASSUME NEW u \in ActiveAdmins(g), <<g, u>> # Membership(p) PROVE FALSE
    <3>1. <<g, u>> \in admins'
      BY <2>1, <2>2 DEF ActiveAdmins
    <3> QED BY <2>1, <2>2, <3>1, AdminLeft
  <2>3. g = G(p) /\ X(p) \in ActiveAdmins(g)
    BY <2>2 DEF Membership
  <2>4. \E u \in Counted(p) : u # X(p)
    BY <1>1, <1>2, <1>4, <2>3 DEF MemberReady, MemberOps
  <2> QED BY <2>2, <2>3, <2>4 DEF Counted, Membership
<1>5. CASE Op(p) = "deactivate"
  BY <1>1, <1>5 DEF WriteMember, Transfers
<1>6. CASE Op(p) = "dismiss"
  <2>1. /\ enabled' = enabled \ {X(p)} /\ accounts' = accounts \ {X(p)}
        /\ admins' = {m \in admins : m[2] # X(p)}
    BY <1>1, <1>6 DEF WriteMember, Transfers
  <2>2. ASSUME NEW u \in ActiveAdmins(g), u # X(p) PROVE FALSE
    <3>1. <<g, u>> \in admins'
      BY <2>1, <2>2 DEF ActiveAdmins
    <3> QED BY <2>1, <2>2, <3>1, AdminLeft
  <2>3. X(p) \in ActiveAdmins(g)
    BY <2>2
  <2>4. X(p) \in accounts
    BY <1>2, <2>3 DEF ActiveAdmins, TablesOK
  <2>5. accounts' # accounts
    BY <2>1, <2>4
  <2>6. g \in Administered(X(p))
    BY <2>3 DEF Administered
  <2>7. NewAdmins(g)
    BY <1>1, <1>2, <1>6, <2>2, <2>6 DEF DismissReady, Going
  <2> QED BY <2>5, <2>7
<1> QED BY <1>1, <1>3, <1>4, <1>5, <1>6 DEF AdminOps, MemberOps

\* A group keeps an owner who is an admin of it and has an account, and an active
\* admin but for a deactivation, or for an account delete in a group with new ones.
THEOREM AdministrationStays == Spec => AdministrationKept
<1> DEFINE Kept ==
       \A g \in exists' :
           /\ <<g, owner'[g]>> \in admins' /\ owner'[g] \in accounts' \cup Procs
           /\ g \in exists /\ ActiveAdmins(g) # {} /\ ActiveAdmins(g)' = {}
              => \/ accounts' = accounts /\ roles' = roles
                 \/ accounts' # accounts /\ NewAdmins(g)
<1>1. ASSUME GroupsInv, [Next]_vars PROVE Kept
  <2>1. GroupsInv'
    BY <1>1, NextKeeps
  <2>2. ASSUME NEW g \in exists' PROVE <<g, owner'[g]>> \in admins' /\ owner'[g] \in accounts' \cup Procs
    <3>1. <<g, owner'[g]>> \in admins' /\ admins' \subseteq member' /\ member' \subseteq exists' \X (accounts' \cup Procs)
      BY <2>1, <2>2 DEF GroupsInv, GroupsInOrder, TypeOK
    <3> QED BY <3>1
  <2>3. ASSUME NEW g \in exists', g \in exists, ActiveAdmins(g) # {}, ActiveAdmins(g)' = {}
        PROVE  \/ accounts' = accounts /\ roles' = roles
               \/ accounts' # accounts /\ NewAdmins(g)
    <3>1. CASE UNCHANGED vars
      BY <3>1 DEF vars, tables, people
    <3>2. CASE Finished
      BY <3>2 DEF Finished, vars, tables, people
    <3>3. ASSUME NEW q \in Procs, GroupStep(q) \/ AdminStep(q) \/ Abort(q)
          PROVE  \/ accounts' = accounts /\ roles' = roles
                 \/ accounts' # accounts /\ NewAdmins(g)
      <4>1. CASE Commit(q)
        <5>1. Write(q)
          BY <1>1, <4>1, CommitFacts
        <5>2. enabled' = enabled /\ admins \subseteq admins'
          BY <5>1 DEF Write, Joins, people, roles
        <5> QED BY <2>3, <5>2, MoreAdmins
      <4>2. CASE CommitDelete(q)
        <5>1. /\ exists' = exists \ ids[q] /\ admins' = admins \ joined[q] /\ enabled' = enabled
              /\ \A m \in joined[q] : m[1] \in ids[q]
          BY <1>1, <4>2, NothingDangles, SubtreeHeld DEF CommitDelete, people
        <5>2. PICK u : u \in ActiveAdmins(g)
          BY <2>3
        <5>3. <<g, u>> \in admins'
          BY <2>3, <5>1, <5>2 DEF ActiveAdmins
        <5> QED BY <2>3, <5>1, <5>2, <5>3, AdminLeft
      <4>3. CASE CommitMember(q)
        BY <1>1, <2>3, <4>3, LastAdmin
      <4>4. CASE ~Commit(q) /\ ~CommitDelete(q) /\ ~CommitMember(q)
        BY <3>3, <4>4, OnlyCommits DEF people
      <4> QED BY <4>1, <4>2, <4>3, <4>4
    <3> QED BY <1>1, <3>1, <3>2, <3>3 DEF Next
  <2> QED BY <2>2, <2>3
<1>2. GroupsInv /\ [Next]_vars => [Kept]_vars
  BY <1>1
<1> QED BY <1>2, GroupsInvariance, PTL DEF Spec, AdministrationKept

-----------------------------------------------------------------------------
(* The order of the locks.                                                  *)

\* The table and the key of each row.
LEMMA TableFacts ==
    /\ \A u : Table(OfAccount(u)) = 1 /\ OfAccount(u)[2] = u
    /\ \A g : Table(OfGroup(g)) = 2 /\ OfGroup(g)[2] = g
    /\ \A i : Table(OfLink(i)) = 3 /\ Table(BoardRow) = 4
BY DEF Table, OfAccount, OfGroup, OfLink, BoardRow

\* A row is of one of the four tables.
LEMMA RowsByTable ==
    ASSUME NEW r \in Rows
    PROVE  /\ Table(r) \in 1 .. 4
           /\ Table(r) = 1 => \E u \in Users : r = OfAccount(u)
           /\ Table(r) = 2 => \E g \in Groups : r = OfGroup(g)
           /\ Table(r) = 3 => \E i \in Links : r = OfLink(i)
           /\ Table(r) = 4 => r = BoardRow
BY TableFacts DEF Rows

\* Accounts come before groups, those before links, and the board comes last.
LEMMA BeforeFacts ==
    /\ \A u, v : Before(OfAccount(u), OfAccount(v)) <=> u < v
    /\ \A g, h : Before(OfGroup(g), OfGroup(h)) <=> g < h
    /\ \A u, g, i : /\ Before(OfAccount(u), OfGroup(g)) /\ ~Before(OfGroup(g), OfAccount(u))
                    /\ Before(OfGroup(g), OfLink(i)) /\ ~Before(OfLink(i), OfGroup(g))
                    /\ Before(OfGroup(g), BoardRow) /\ ~Before(BoardRow, OfGroup(g))
                    /\ ~Before(BoardRow, OfAccount(u)) /\ ~Before(BoardRow, OfLink(i))
    /\ ~Before(BoardRow, BoardRow)
BY TableFacts DEF Before

\* Plans of no, one or two locks.
LEMMA ShortRising ==
    /\ Rising(<<>>)
    /\ \A a : Rising(<<a>>)
    /\ \A a, b : Before(a[1], b[1]) => Rising(<<a, b>>)
<1>1. ASSUME NEW a, NEW b, Before(a[1], b[1]) PROVE Rising(<<a, b>>)
  <2>1. DOMAIN <<a, b>> = {1, 2} /\ <<a, b>>[1] = a /\ <<a, b>>[2] = b
    OBVIOUS
  <2> QED BY <1>1, <2>1 DEF Rising
<1>2. ASSUME NEW a PROVE Rising(<<a>>)
  <2>1. DOMAIN <<a>> = {1}
    OBVIOUS
  <2> QED BY <2>1 DEF Rising
<1>3. Rising(<<>>)
  BY DEF Rising
<1> QED BY <1>1, <1>2, <1>3

\* One statement locks in key order.
LEMMA ByPkRises ==
    ASSUME NEW ks, ks \subseteq Nat, IsFiniteSet(ks), NEW table \in {"account", "group"}, NEW mode
    PROVE  Rising(ByPk(table, ks, mode))
<1> DEFINE Q(f) == f \in [1 .. Cardinality(ks) -> ks] /\ \A m, n \in DOMAIN f : m < n => f[m] < f[n]
           order == CHOOSE f : Q(f)
<1>1. \E f : Q(f)
  BY InOrder
<1>2. Q(order)
  <2> HIDE DEF Q
  <2> QED BY <1>1
<1>3. ByPk(table, ks, mode) = [n \in DOMAIN order |-> <<<<table, order[n]>>, mode>>]
  BY DEF ByPk
<1> HIDE DEF order
<1>4. ASSUME NEW m \in DOMAIN order, NEW n \in DOMAIN order, m < n
      PROVE  Before(<<table, order[m]>>, <<table, order[n]>>)
  <2>1. order[m] < order[n]
    BY <1>2, <1>4
  <2>2. table = "account" => /\ <<table, order[m]>> = OfAccount(order[m])
                             /\ <<table, order[n]>> = OfAccount(order[n])
    BY DEF OfAccount
  <2>3. table = "group" => /\ <<table, order[m]>> = OfGroup(order[m])
                           /\ <<table, order[n]>> = OfGroup(order[n])
    BY DEF OfGroup
  <2> QED BY <2>1, <2>2, <2>3, BeforeFacts
<1> QED BY <1>3, <1>4 DEF Rising

\* A plan in order goes on in order; what is left comes after its head.
LEMMA RisingTail ==
    ASSUME NEW T, NEW s \in Seq(T), s # <<>>, Rising(s)
    PROVE  /\ Rising(Tail(s))
           /\ \A l \in ToSet(Tail(s)) : Before(Head(s)[1], l[1])
<1>1. Len(s) \in Nat /\ Len(s) # 0 /\ DOMAIN s = 1 .. Len(s)
  OBVIOUS
<1>2. /\ Head(s) = s[1] /\ DOMAIN Tail(s) = 1 .. Len(s) - 1
      /\ \A i \in 1 .. Len(s) - 1 : Tail(s)[i] = s[i + 1]
  OBVIOUS
<1>3. ASSUME NEW m \in DOMAIN Tail(s), NEW n \in DOMAIN Tail(s), m < n
      PROVE  Before(Tail(s)[m][1], Tail(s)[n][1])
  <2>1. m + 1 \in DOMAIN s /\ n + 1 \in DOMAIN s /\ m + 1 < n + 1
    BY <1>1, <1>2, <1>3
  <2>2. Tail(s)[m] = s[m + 1] /\ Tail(s)[n] = s[n + 1]
    BY <1>2
  <2> QED BY <2>1, <2>2 DEF Rising
<1>4. ASSUME NEW n \in DOMAIN Tail(s) PROVE Before(Head(s)[1], Tail(s)[n][1])
  <2>1. 1 \in DOMAIN s /\ n + 1 \in DOMAIN s /\ 1 < n + 1
    BY <1>1, <1>2
  <2>2. Tail(s)[n] = s[n + 1]
    BY <1>2
  <2> QED BY <1>2, <2>1, <2>2 DEF Rising
<1> QED BY <1>3, <1>4 DEF Rising, ToSet

\* The head, and then the rows after it.
LEMMA RisingHead ==
    ASSUME NEW T, NEW s \in Seq(T), s # <<>>, Rising(s), NEW l \in ToSet(s)
    PROVE  l = Head(s) \/ Before(Head(s)[1], l[1])
BY PlanTail, RisingTail

\* One plan after another.
LEMMA RisingJoined ==
    ASSUME NEW T, NEW s \in Seq(T), NEW t \in Seq(T), Rising(s), Rising(t),
           \A l \in ToSet(s), k \in ToSet(t) : Before(l[1], k[1])
    PROVE  Rising(s \o t) /\ ToSet(s \o t) = ToSet(s) \cup ToSet(t)
<1>1. /\ Len(s) \in Nat /\ Len(t) \in Nat
      /\ DOMAIN s = 1 .. Len(s) /\ DOMAIN t = 1 .. Len(t) /\ DOMAIN (s \o t) = 1 .. Len(s) + Len(t)
      /\ \A i \in 1 .. Len(s) : (s \o t)[i] = s[i]
      /\ \A i \in 1 .. Len(s) + Len(t) : i > Len(s) => i - Len(s) \in 1 .. Len(t) /\ (s \o t)[i] = t[i - Len(s)]
  OBVIOUS
<1>2. ASSUME NEW m \in DOMAIN (s \o t), NEW n \in DOMAIN (s \o t), m < n
      PROVE  Before((s \o t)[m][1], (s \o t)[n][1])
  <2>1. CASE n <= Len(s)
    <3>1. m \in DOMAIN s /\ n \in DOMAIN s
      BY <1>1, <1>2, <2>1
    <3> QED BY <1>1, <1>2, <3>1 DEF Rising
  <2>2. CASE m > Len(s)
    <3>1. n > Len(s) /\ m - Len(s) < n - Len(s)
      BY <1>1, <1>2, <2>2
    <3> QED BY <1>1, <2>2, <3>1 DEF Rising
  <2>3. CASE m <= Len(s) /\ n > Len(s)
    <3>1. (s \o t)[m] \in ToSet(s) /\ (s \o t)[n] \in ToSet(t)
      BY <1>1, <2>3 DEF ToSet
    <3> QED BY <3>1
  <2> QED BY <1>1, <2>1, <2>2, <2>3
<1>3. ASSUME NEW i \in DOMAIN (s \o t) PROVE (s \o t)[i] \in ToSet(s) \cup ToSet(t)
  <2>1. i <= Len(s) \/ i > Len(s)
    BY <1>1
  <2> QED BY <1>1, <2>1 DEF ToSet
<1>4. ToSet(s) \cup ToSet(t) \subseteq ToSet(s \o t)
  BY Joined
<1> QED BY <1>2, <1>3, <1>4 DEF Rising, ToSet

-----------------------------------------------------------------------------
(* Between transactions, and at the start of a statement.                   *)

\* Only its own variables matter.
LEMMA QueuedKept ==
    ASSUME NEW q \in Procs, Queued(q), Op(q)' = Op(q), X(q)' = X(q), held'[q] = held[q], pc'[q] = pc[q],
           ids'[q] = ids[q], round'[q] = round[q], plan'[q] = plan[q]
    PROVE  Queued(q)'
<1>1. LocksRise(q)' /\ LocksBegin(q)'
  BY DEF Queued, LocksRise, LocksBegin, Returns
<1>2. LinksUnder(q)' /\ BoardLast(q)'
  BY DEF Queued, LinksUnder, BoardLast
<1>3. AccountModes(q)' /\ LocksItself(q)'
  BY DEF Queued, AccountModes, LocksItself
<1> QED BY <1>1, <1>2, <1>3 DEF Queued

\* No locks and no transaction.
LEMMA IdleQueued ==
    ASSUME NEW p \in Procs, pc'[p] \notin Going, \A r \in Rows : held'[p][r] = None
    PROVE  Queued(p)'
<1>1. pc'[p] \notin {"lock", "collect", "clear"}
  BY DEF Going
<1>2. \A i \in Links : held'[p][OfLink(i)] = None
  BY RowFacts
<1>3. \A u \in Users : held'[p][OfAccount(u)] = None
  BY RowFacts
<1>4. LocksRise(p)' /\ LocksBegin(p)'
  BY <1>1 DEF LocksRise, LocksBegin
<1>5. LinksUnder(p)' /\ BoardLast(p)'
  BY <1>1, <1>2 DEF LinksUnder, BoardLast
<1>6. AccountModes(p)' /\ LocksItself(p)'
  BY <1>1, <1>3 DEF AccountModes, LocksItself
<1> QED BY <1>4, <1>5, <1>6 DEF Queued

\* It ends.
LEMMA EndQueued ==
    ASSUME NEW p \in Procs, TypeOK, NEW a \in Answers \cup {"waiting"}, End(p, a)
    PROVE  Queued(p)'
<1>1. pc'[p] = a /\ \A r \in Rows : held'[p][r] = None
  BY Ended
<1>2. pc'[p] \notin Going
  BY <1>1 DEF Answers, Going
<1> QED BY <1>1, <1>2, IdleQueued

\* The statement locks these rows next, in this order.
LEMMA PlanQueued ==
    ASSUME NEW p \in Procs, Queued(p), pc'[p] = "lock", held'[p] = held[p], Op(p)' = Op(p), X(p)' = X(p),
           Returns(p)' \/ /\ Rising(plan'[p])
                          /\ \A r \in Rows, l \in ToSet(plan'[p]) : held[p][r] # None => Before(r, l[1]),
           Op(p) = "delete" =>
                /\ \A r \in Rows : held[p][r] # None => Table(r) = 2
                /\ \A l \in ToSet(plan'[p]) : Table(l[1]) = 2,
           Op(p) = "dismiss" /\ round'[p] = 1 =>
                /\ \A r \in Rows : held[p][r] # None => Table(r) = 1
                /\ \A l \in ToSet(plan'[p]) : Table(l[1]) = 1,
           Op(p) = "dismiss" /\ round'[p] = 3 => \A l \in ToSet(plan'[p]) : l[1] = OfAccount(X(p)),
           \A l \in ToSet(plan'[p]), i \in Links : l[1] = OfLink(i) => Op(p) \in LinkOps /\ i = X(p),
           \A l \in ToSet(plan'[p]) : Table(l[1]) = 1 => l[2] \in {NoKeyUpdate, Update}
    PROVE  Queued(p)'
<1>1. pc'[p] \in Going /\ pc'[p] # "clear"
  BY DEF Going
<1>2. LocksRise(p)'
  BY DEF LocksRise
<1>3. LocksBegin(p)'
  BY <1>1 DEF LocksBegin
<1>4. LinksUnder(p)' /\ BoardLast(p)'
  BY <1>1 DEF Queued, LinksUnder, BoardLast
<1>5. AccountModes(p)' /\ LocksItself(p)'
  BY DEF Queued, AccountModes, LocksItself
<1> QED BY <1>2, <1>3, <1>4, <1>5 DEF Queued

-----------------------------------------------------------------------------
(* What a step of one request leaves alone.                                 *)

\* A step in a transaction, or before it, writes its request's own variables.
LEMMA MovesOwn ==
    ASSUME NEW p \in Procs, TypeOK, req' = req,
           held' = held \/ held' = [held EXCEPT ![p] = held'[p]],
           pc' = pc \/ pc' = [pc EXCEPT ![p] = pc'[p]],
           seen' = seen \/ seen' = [seen EXCEPT ![p] = seen'[p]],
           ids' = ids \/ ids' = [ids EXCEPT ![p] = ids'[p]],
           joined' = joined \/ joined' = [joined EXCEPT ![p] = joined'[p]],
           round' = round \/ round' = [round EXCEPT ![p] = round'[p]],
           plan' = plan \/ plan' = [plan EXCEPT ![p] = plan'[p]]
    PROVE  Own(p)
BY DEF TypeOK, Own

\* The new value of one field of p.
LEMMA OneField ==
    TypeOK => \A p \in Procs : \A v :
        /\ held' = [held EXCEPT ![p] = v] => held'[p] = v /\ held' = [held EXCEPT ![p] = held'[p]]
        /\ pc' = [pc EXCEPT ![p] = v] => pc'[p] = v /\ pc' = [pc EXCEPT ![p] = pc'[p]]
        /\ seen' = [seen EXCEPT ![p] = v] => seen'[p] = v /\ seen' = [seen EXCEPT ![p] = seen'[p]]
        /\ ids' = [ids EXCEPT ![p] = v] => ids'[p] = v /\ ids' = [ids EXCEPT ![p] = ids'[p]]
        /\ joined' = [joined EXCEPT ![p] = v] => joined'[p] = v /\ joined' = [joined EXCEPT ![p] = joined'[p]]
        /\ round' = [round EXCEPT ![p] = v] => round'[p] = v /\ round' = [round EXCEPT ![p] = round'[p]]
        /\ plan' = [plan EXCEPT ![p] = v] => plan'[p] = v /\ plan' = [plan EXCEPT ![p] = plan'[p]]
BY DEF TypeOK

-----------------------------------------------------------------------------
(* The plans, and who takes them.                                           *)

\* The rows of a request that needs no walk, in order.
LEMMA FixedRises ==
    ASSUME NEW p \in Procs
    PROVE  /\ Rising(FixedLocks(p))
           /\ \A l \in ToSet(FixedLocks(p)) : Table(l[1]) # 1
           /\ \A l \in ToSet(FixedLocks(p)) : \A i : l[1] = OfLink(i) => Op(p) \in LinkOps /\ i = X(p)
<1>1. /\ Before(OfGroup(G(p)), OfLink(X(p))) /\ Before(OfGroup(X(p)), BoardRow)
      /\ Table(OfGroup(G(p))) = 2 /\ Table(OfLink(X(p))) = 3 /\ Table(OfGroup(X(p))) = 2 /\ Table(BoardRow) = 4
  BY TableFacts, BeforeFacts
<1>2. \A i : /\ OfGroup(G(p)) # OfLink(i) /\ OfGroup(X(p)) # OfLink(i) /\ BoardRow # OfLink(i)
             /\ OfLink(X(p)) = OfLink(i) => X(p) = i
  BY RowFacts
<1>3. CASE Op(p) \in {"rename", "defaults", "mint"}
  <2>1. \E m : FixedLocks(p) = <<<<OfGroup(G(p)), m>>>>
    BY <1>3 DEF FixedLocks, LinkOps, SignUps
  <2>2. PICK m : FixedLocks(p) = <<<<OfGroup(G(p)), m>>>>
    BY <2>1
  <2> QED BY <1>1, <1>2, <2>2, ShortRising, ShortSeqs
<1>4. CASE Op(p) \in LinkOps
  <2>1. FixedLocks(p) = <<<<OfGroup(G(p)), NoKeyUpdate>>, <<OfLink(X(p)), Update>>>>
    BY <1>4 DEF FixedLocks, LinkOps, SignUps
  <2> QED BY <1>1, <1>2, <1>4, <2>1, ShortRising, ShortSeqs
<1>5. CASE Op(p) = "place" /\ X(p) = Top
  <2>1. FixedLocks(p) = <<<<BoardRow, NoKeyUpdate>>>>
    BY <1>5 DEF FixedLocks, LinkOps, SignUps
  <2> QED BY <1>1, <1>2, <2>1, ShortRising, ShortSeqs
<1>6. CASE Op(p) = "place" /\ X(p) # Top
  <2>1. FixedLocks(p) = <<<<OfGroup(X(p)), KeyShare>>, <<BoardRow, NoKeyUpdate>>>>
    BY <1>6 DEF FixedLocks, LinkOps, SignUps
  <2> QED BY <1>1, <1>2, <2>1, ShortRising, ShortSeqs
<1>7. CASE Op(p) \notin {"rename", "defaults", "mint", "place"} \cup LinkOps
  <2>1. FixedLocks(p) = <<>>
    BY <1>7 DEF FixedLocks
  <2> QED BY <2>1, ShortRising, ShortSeqs
<1> QED BY <1>3, <1>4, <1>5, <1>6, <1>7

\* One statement on the groups, or on the accounts.
LEMMA GroupsRise ==
    ASSUME NEW ks \in SUBSET Groups, NEW mode \in Modes
    PROVE  /\ Rising(ByPk("group", ks, mode))
           /\ \A l \in ToSet(ByPk("group", ks, mode)) : Table(l[1]) = 2 /\ l[2] = mode
<1>1. ks \subseteq Nat /\ IsFiniteSet(ks) /\ "group" \in {"account", "group"}
  BY FS_Subset, FiniteAssumption, GroupTreeAssumption
<1>2. Rising(ByPk("group", ks, mode))
  BY <1>1, ByPkRises
<1> DEFINE Q(h) == h \in [1 .. Cardinality(ks) -> ks] /\ \A m, n \in DOMAIN h : m < n => h[m] < h[n]
           f == CHOOSE h : Q(h)
<1>3. ByPk("group", ks, mode) = [n \in 1 .. Cardinality(ks) |-> <<<<"group", f[n]>>, mode>>]
  <2>1. \E h : Q(h)
    BY <1>1, InOrder
  <2>2. Q(f)
    <3> HIDE DEF Q
    <3> QED BY <2>1
  <2>3. ByPk("group", ks, mode) = [n \in DOMAIN f |-> <<<<"group", f[n]>>, mode>>]
    BY DEF ByPk
  <2> HIDE DEF f
  <2>4. DOMAIN f = 1 .. Cardinality(ks)
    BY <2>2
  <2> QED BY <2>3, <2>4
<1> HIDE DEF f
<1>4. ASSUME NEW l \in ToSet(ByPk("group", ks, mode))
      PROVE  Table(l[1]) = 2 /\ l[2] = mode
  <2>1. PICK n \in 1 .. Cardinality(ks) : l = <<<<"group", f[n]>>, mode>>
    BY <1>3 DEF ToSet
  <2>2. l[1] = OfGroup(f[n]) /\ l[2] = mode
    BY <2>1 DEF OfGroup
  <2> QED BY <2>2, TableFacts
<1> QED BY <1>2, <1>4

\* The same of the accounts.
LEMMA AccountsRise ==
    ASSUME NEW ks \in SUBSET Users, NEW mode \in Modes
    PROVE  /\ Rising(ByPk("account", ks, mode))
           /\ \A l \in ToSet(ByPk("account", ks, mode)) : Table(l[1]) = 1 /\ l[2] = mode
           /\ \E T : ByPk("account", ks, mode) \in Seq(T)
<1>1. ks \subseteq Nat /\ IsFiniteSet(ks) /\ "account" \in {"account", "group"}
  BY FS_Subset, FiniteAssumption, AccountAssumption
<1>2. Rising(ByPk("account", ks, mode))
  BY <1>1, ByPkRises
<1> DEFINE Q(h) == h \in [1 .. Cardinality(ks) -> ks] /\ \A m, n \in DOMAIN h : m < n => h[m] < h[n]
           f == CHOOSE h : Q(h)
<1>3. ByPk("account", ks, mode) = [n \in 1 .. Cardinality(ks) |-> <<<<"account", f[n]>>, mode>>]
  <2>1. \E h : Q(h)
    BY <1>1, InOrder
  <2>2. Q(f)
    <3> HIDE DEF Q
    <3> QED BY <2>1
  <2>3. ByPk("account", ks, mode) = [n \in DOMAIN f |-> <<<<"account", f[n]>>, mode>>]
    BY DEF ByPk
  <2> HIDE DEF f
  <2>4. DOMAIN f = 1 .. Cardinality(ks)
    BY <2>2
  <2> QED BY <2>3, <2>4
<1> HIDE DEF f
<1>4. ASSUME NEW l \in ToSet(ByPk("account", ks, mode))
      PROVE  Table(l[1]) = 1 /\ l[2] = mode
  <2>1. PICK n \in 1 .. Cardinality(ks) : l = <<<<"account", f[n]>>, mode>>
    BY <1>3 DEF ToSet
  <2>2. l[1] = OfAccount(f[n]) /\ l[2] = mode
    BY <2>1 DEF OfAccount
  <2> QED BY <2>2, TableFacts
<1>5. \E T : ByPk("account", ks, mode) \in Seq(T)
  <2>1. Cardinality(ks) \in Nat
    BY <1>1, FS_CardinalityType
  <2> DEFINE T == {<<<<"account", f[n]>>, mode>> : n \in 1 .. Cardinality(ks)}
  <2>2. ByPk("account", ks, mode) \in [1 .. Cardinality(ks) -> T]
    BY <1>3
  <2> HIDE DEF T
  <2>3. ByPk("account", ks, mode) \in Seq(T)
    BY <2>1, <2>2
  <2> QED BY <2>3
<1> QED BY <1>2, <1>4, <1>5

-----------------------------------------------------------------------------
(* Every step keeps the order.                                              *)

\* A step with no lock to take, on the way to the writes.
LEMMA StayQueued ==
    ASSUME NEW p \in Procs, Queued(p), pc[p] = "lock", plan[p] = <<>>, pc'[p] \in {"collect", "write"},
           held'[p] = held[p], plan'[p] = plan[p], Op(p)' = Op(p), X(p)' = X(p)
    PROVE  Queued(p)'
<1>1. ToSet(plan'[p]) = {}
  BY ShortSeqs
<1>2. LocksRise(p)' /\ BoardLast(p)' /\ LocksItself(p)'
  BY DEF LocksRise, BoardLast, LocksItself
<1>3. LocksBegin(p)'
  BY <1>1 DEF Queued, LocksBegin, Going
<1>4. LinksUnder(p)' /\ AccountModes(p)'
  BY <1>1 DEF Queued, LinksUnder, AccountModes
<1> QED BY <1>2, <1>3, <1>4 DEF Queued

\* Outside a transaction it holds nothing.
LEMMA NoneHeld ==
    ASSUME NEW p \in Procs, Queued(p), pc[p] \notin Going
    PROVE  \A r \in Rows : held[p][r] = None
BY DEF Queued, LocksBegin

\* A request that needs no walk plans its locks in order.
LEMMA AskQueued ==
    ASSUME NEW p \in Procs, GroupsInv, Queued(p), Ask(p)
    PROVE  Own(p) /\ Queued(p)'
<1>1. TypeOK /\ pc[p] = "ask" /\ Op(p) \in GroupOps
  BY DEF GroupsInv, Ask
<1>2. /\ req' = req /\ held' = held /\ ids' = ids /\ joined' = joined /\ round' = round
      /\ plan'[p] = FixedLocks(p) /\ plan' = [plan EXCEPT ![p] = plan'[p]]
      /\ seen' = [seen EXCEPT ![p] = seen'[p]]
      /\ pc' = [pc EXCEPT ![p] = pc'[p]]
      /\ pc'[p] \in {"gone", "refused", "walk", "lock"} /\ (pc'[p] = "lock" => ~Walks(p))
  <2> DEFINE next == IF ~Found(p) THEN "gone" ELSE IF ~Valid(p) THEN "refused"
                     ELSE IF Walks(p) THEN "walk" ELSE "lock"
             copy == IF Op(p) = "delete" THEN owner[G(p)] ELSE parent[G(p)]
  <2>1. /\ req' = req /\ held' = held /\ ids' = ids /\ joined' = joined /\ round' = round
        /\ plan' = [plan EXCEPT ![p] = FixedLocks(p)] /\ seen' = [seen EXCEPT ![p] = copy]
        /\ pc' = [pc EXCEPT ![p] = next]
    BY DEF Ask
  <2>2. next \in {"gone", "refused", "walk", "lock"} /\ (next = "lock" => ~Walks(p))
    OBVIOUS
  <2> HIDE DEF next, copy
  <2> QED BY <1>1, <2>1, <2>2, OneField
<1>3. Own(p)
  BY <1>1, <1>2, MovesOwn
<1>4. \A r \in Rows : held[p][r] = None
  BY <1>1, NoneHeld DEF Going
<1>5. CASE pc'[p] # "lock"
  <2>1. pc'[p] \notin Going
    BY <1>2, <1>5 DEF Going
  <2> QED BY <1>2, <1>3, <1>4, <2>1, IdleQueued
<1>6. CASE pc'[p] = "lock"
  <2>1. Op(p) # "delete" /\ Op(p) # "dismiss"
    BY <1>1, <1>2, <1>6, Kinds DEF Walks, AdminOps
  <2>2. Op(p)' = Op(p) /\ X(p)' = X(p) /\ held'[p] = held[p]
    BY <1>2 DEF Op, X
  <2> QED BY <1>2, <1>3, <1>4, <1>6, <2>1, <2>2, FixedRises, PlanQueued
<1> QED BY <1>5, <1>6

\* One that walks locks the groups it found in key order.
LEMMA WalkQueued ==
    ASSUME NEW p \in Procs, GroupsInv, Queued(p), Walk(p)
    PROVE  Own(p) /\ Queued(p)'
<1>1. TypeOK /\ pc[p] = "walk" /\ Walks(p)
  BY DEF GroupsInv, Walk, Good, Places
<1>2. /\ req' = req /\ held' = held /\ seen' = seen /\ joined' = joined /\ round' = round
      /\ plan'[p] = ByPk("group", Walked(p), Update) /\ plan' = [plan EXCEPT ![p] = plan'[p]]
      /\ ids' = [ids EXCEPT ![p] = ids'[p]]
      /\ pc' = [pc EXCEPT ![p] = pc'[p]] /\ pc'[p] = "lock"
  BY <1>1, OneField DEF Walk
<1>3. Own(p)
  BY <1>1, <1>2, MovesOwn
<1>4. \A r \in Rows : held[p][r] = None
  BY <1>1, NoneHeld DEF Going
<1>5. Walked(p) \subseteq Groups /\ Update \in Modes
  BY <1>1, WalkedFacts DEF Update, Modes, None
<1>6. Rising(plan'[p]) /\ \A l \in ToSet(plan'[p]) : Table(l[1]) = 2
  <2>1. /\ Rising(ByPk("group", Walked(p), Update))
        /\ \A l \in ToSet(ByPk("group", Walked(p), Update)) : Table(l[1]) = 2
    BY <1>5, GroupsRise
  <2> QED BY <1>2, <2>1
<1>7. \A l \in ToSet(plan'[p]), i \in Links : l[1] # OfLink(i)
  BY <1>6, TableFacts
<1>8. Op(p)' = Op(p) /\ X(p)' = X(p) /\ held'[p] = held[p] /\ Op(p) # "dismiss"
  BY <1>1, <1>2 DEF Op, X, Walks
<1> QED BY <1>2, <1>3, <1>4, <1>6, <1>7, <1>8, PlanQueued

\* A delete that locks again is let off the order from then on.
LEMMA RewalkQueued ==
    ASSUME NEW p \in Procs, GroupsInv, Queued(p), Rewalk(p)
    PROVE  Own(p) /\ Queued(p)'
<1>1. /\ TypeOK /\ Places(p) /\ pc[p] = "lock" /\ plan[p] = <<>> /\ Op(p) = "delete"
      /\ req' = req /\ seen' = seen /\ joined' = joined
  BY DEF GroupsInv, Rewalk, Locked, Good
<1> DEFINE all == ids[p] \cup SubtreeIds(G(p))
<1>2. Op(p)' = Op(p) /\ X(p)' = X(p) /\ Op(p) # "dismiss"
  BY <1>1 DEF Op, X
<1>3. CASE /\ all # ids[p] /\ ids' = [ids EXCEPT ![p] = all]
           /\ plan' = [plan EXCEPT ![p] = ByPk("group", all, Update)]
           /\ round' = [round EXCEPT ![p] = 2] /\ UNCHANGED <<held, pc>>
  <2>1. /\ plan'[p] = ByPk("group", all, Update) /\ plan' = [plan EXCEPT ![p] = plan'[p]]
        /\ ids' = [ids EXCEPT ![p] = ids'[p]]
        /\ round'[p] = 2 /\ round' = [round EXCEPT ![p] = round'[p]]
    <3> HIDE DEF all
    <3> QED BY <1>1, <1>3, OneField
  <2>2. Own(p)
    BY <1>1, <1>3, <2>1, MovesOwn
  <2>3. all \subseteq Groups /\ Update \in Modes
    <3>1. G(p) \in Groups /\ exists \subseteq Groups
      BY <1>1, Named DEF GroupOps, TypeOK
    <3>2. SubtreeIds(G(p)) \subseteq Groups
      BY <3>1, SubtreeFacts
    <3> QED BY <1>1, <3>2 DEF Places, Walks, Update, Modes, None
  <2>4. \A l \in ToSet(plan'[p]) : Table(l[1]) = 2
    <3> HIDE DEF all
    <3> QED BY <2>1, <2>3, GroupsRise
  <2>5. \A l \in ToSet(plan'[p]), i \in Links : l[1] # OfLink(i)
    BY <2>4, TableFacts
  <2>6. Returns(p)'
    BY <1>1, <1>2, <2>1 DEF Returns
  <2>7. \A r \in Rows : held[p][r] # None => Table(r) = 2
    BY <1>1 DEF Queued, LocksBegin
  <2>8. pc'[p] = "lock" /\ held'[p] = held[p]
    BY <1>1, <1>3
  <2> QED BY <1>2, <2>2, <2>4, <2>5, <2>6, <2>7, <2>8, PlanQueued
<1>4. CASE all = ids[p] /\ Answer(p, "collect") /\ UNCHANGED <<held, ids, round, plan>>
  <2>1. pc'[p] = "collect" /\ pc' = [pc EXCEPT ![p] = pc'[p]]
    BY <1>1, <1>4, OneField DEF Answer
  <2>2. Own(p)
    BY <1>1, <1>4, <2>1, MovesOwn
  <2> QED BY <1>1, <1>2, <1>4, <2>1, <2>2, StayQueued
<1>5. CASE \E a \in {"refused", "gone"} : Answer(p, a) /\ Release(p, {}) /\ UNCHANGED <<ids, round, plan>>
  <2>1. PICK a \in {"refused", "gone"} : Answer(p, a) /\ Release(p, {}) /\ UNCHANGED <<ids, round, plan>>
    BY <1>5
  <2>2. End(p, a) /\ a \in Answers \cup {"waiting"}
    BY <1>1, <2>1 DEF End, Answers
  <2> QED BY <1>1, <2>2, Ended, EndQueued
<1> QED BY <1>3, <1>4, <1>5 DEF Rewalk

\* It judges with its plan done.
LEMMA JudgeQueued ==
    ASSUME NEW p \in Procs, GroupsInv, Queued(p), Judge(p)
    PROVE  Own(p) /\ Queued(p)'
<1>1. TypeOK /\ pc[p] = "lock" /\ plan[p] = <<>>
  BY DEF GroupsInv, Judge, Locked
<1>2. CASE Verdict(p) # "write"
  <2>1. Verdict(p) \in {"gone", "refused"} /\ End(p, Verdict(p))
    BY <1>2, VerdictFacts DEF Judge
  <2>2. Verdict(p) \in Answers \cup {"waiting"}
    BY <2>1 DEF Answers
  <2> QED BY <1>1, <2>1, <2>2, Ended, EndQueued
<1>3. CASE Verdict(p) = "write"
  <2>1. /\ UNCHANGED <<held, req, ids, joined, round, plan>>
        /\ pc'[p] = "write" /\ pc' = [pc EXCEPT ![p] = pc'[p]] /\ seen' = [seen EXCEPT ![p] = seen'[p]]
    BY <1>1, <1>3, OneField DEF Judge, Answer
  <2>2. Own(p)
    BY <1>1, <2>1, MovesOwn
  <2>3. Op(p)' = Op(p) /\ X(p)' = X(p)
    BY <2>1 DEF Op, X
  <2> QED BY <1>1, <2>1, <2>2, <2>3, StayQueued
<1> QED BY <1>2, <1>3

\* So do the requests on members and accounts.
LEMMA JudgeMemberQueued ==
    ASSUME NEW p \in Procs, GroupsInv, Queued(p), JudgeMember(p)
    PROVE  Own(p) /\ Queued(p)'
<1>1. TypeOK /\ pc[p] = "lock" /\ plan[p] = <<>> /\ Op(p) \in AdminOps
  BY DEF GroupsInv, JudgeMember, Locked
<1>2. CASE MemberVerdict(p) # "write"
  <2>1. MemberVerdict(p) \in {"gone", "refused"} /\ End(p, MemberVerdict(p))
    BY <1>1, <1>2, MemberVerdictFacts DEF JudgeMember
  <2>2. MemberVerdict(p) \in Answers \cup {"waiting"}
    BY <2>1 DEF Answers
  <2> QED BY <1>1, <2>1, <2>2, Ended, EndQueued
<1>3. CASE MemberVerdict(p) = "write"
  <2>1. /\ UNCHANGED <<held, req, seen, ids, joined, round, plan>>
        /\ pc'[p] = "write" /\ pc' = [pc EXCEPT ![p] = pc'[p]]
    BY <1>1, <1>3, OneField DEF JudgeMember, Answer
  <2>2. Own(p)
    BY <1>1, <2>1, MovesOwn
  <2>3. Op(p)' = Op(p) /\ X(p)' = X(p)
    BY <2>1 DEF Op, X
  <2> QED BY <1>1, <2>1, <2>2, <2>3, StayQueued
<1> QED BY <1>2, <1>3

\* A second transaction starts like the first.
LEMMA ConfirmQueued ==
    ASSUME NEW p \in Procs, GroupsInv, Queued(p), Confirm(p)
    PROVE  Own(p) /\ Queued(p)'
<1>1. TypeOK /\ pc[p] = "waiting" /\ Op(p) = "enrol"
  BY DEF GroupsInv, Confirm, Good, Places
<1>2. /\ UNCHANGED <<held, req, seen, ids, joined>>
      /\ pc'[p] \in {"lock", "refused"} /\ pc' = [pc EXCEPT ![p] = pc'[p]]
      /\ round' = round \/ round' = [round EXCEPT ![p] = round'[p]]
      /\ plan' = plan \/ plan' = [plan EXCEPT ![p] = plan'[p]]
      /\ pc'[p] = "lock" => plan'[p] = FixedLocks(p)
  <2>1. CASE <<X(p), p>> \in reserved
    BY <1>1, <2>1, OneField DEF Confirm, Answer
  <2>2. CASE <<X(p), p>> \notin reserved
    <3>1. pc'[p] = "refused" /\ pc' = [pc EXCEPT ![p] = pc'[p]] /\ UNCHANGED <<round, plan>>
      BY <1>1, <2>2, OneField DEF Confirm, Answer
    <3> QED BY <3>1 DEF Confirm
  <2> QED BY <2>1, <2>2
<1>3. Own(p)
  BY <1>1, <1>2, MovesOwn
<1>4. \A r \in Rows : held[p][r] = None
  BY <1>1, NoneHeld DEF Going
<1>5. CASE pc'[p] # "lock"
  <2>1. pc'[p] \notin Going
    BY <1>2, <1>5 DEF Going
  <2> QED BY <1>2, <1>3, <1>4, <2>1, IdleQueued
<1>6. CASE pc'[p] = "lock"
  <2>1. Op(p) # "delete" /\ Op(p) # "dismiss"
    BY <1>1
  <2>2. Op(p)' = Op(p) /\ X(p)' = X(p) /\ held'[p] = held[p]
    BY <1>2 DEF Op, X
  <2> QED BY <1>2, <1>3, <1>4, <1>6, <2>1, <2>2, FixedRises, PlanQueued
<1> QED BY <1>5, <1>6

\* One more lock at the end of a plan.
LEMMA OneMore ==
    ASSUME NEW T, NEW s \in Seq(T), NEW e \in T
    PROVE  /\ Len(s \o <<e>>) = Len(s) + 1 /\ DOMAIN (s \o <<e>>) = 1 .. Len(s) + 1
           /\ (s \o <<e>>)[Len(s) + 1] = e
           /\ \A i \in 1 .. Len(s) : (s \o <<e>>)[i] = s[i]
<1>1. <<e>> \in Seq(T) /\ Len(<<e>>) = 1 /\ <<e>>[1] = e /\ Len(s) \in Nat
  OBVIOUS
<1>2. Len(s \o <<e>>) = Len(s) + 1 /\ DOMAIN (s \o <<e>>) = 1 .. Len(s) + 1
  BY <1>1
<1>3. (s \o <<e>>)[Len(s) + 1] = e
  BY <1>1
<1>4. \A i \in 1 .. Len(s) : (s \o <<e>>)[i] = s[i]
  BY <1>1
<1> QED BY <1>2, <1>3, <1>4

\* A delete's plan: the links, then the board.
LEMMA LinksThenBoard ==
    ASSUME NEW S, NEW N \in Nat, NEW gone, NEW t, DOMAIN t = 1 .. N + 1,
           \A n \in 1 .. N : t[n] = <<OfLink(gone[n]), Update>> /\ gone[n] \in S,
           t[N + 1] = <<BoardRow, NoKeyUpdate>>
    PROVE  /\ \A n \in DOMAIN t : t[n][1] = BoardRow => n = N + 1
           /\ \A l \in ToSet(t) : Table(l[1]) >= 3
           /\ \A l \in ToSet(t) : \A i : l[1] = OfLink(i) => i \in S
<1>1. \A n \in 1 .. N : t[n][1] = OfLink(gone[n])
  OBVIOUS
<1>2. t[N + 1][1] = BoardRow
  OBVIOUS
<1>3. \A n \in DOMAIN t : n = N + 1 \/ n \in 1 .. N
  OBVIOUS
<1>4. \A i : OfLink(i) # BoardRow
  BY RowFacts
<1>5. \A n \in DOMAIN t : t[n][1] = BoardRow => n = N + 1
  BY <1>1, <1>3, <1>4
<1>6. ASSUME NEW l \in ToSet(t) PROVE Table(l[1]) >= 3 /\ \A i : l[1] = OfLink(i) => i \in S
  <2>1. PICK n \in DOMAIN t : l = t[n]
    BY DEF ToSet
  <2>2. CASE n = N + 1
    <3>1. l[1] = BoardRow
      BY <1>2, <2>1, <2>2
    <3> QED BY <1>4, <3>1, TableFacts
  <2>3. CASE n \in 1 .. N
    <3>1. l[1] = OfLink(gone[n]) /\ gone[n] \in S
      BY <1>1, <2>1, <2>3
    <3> QED BY <3>1, TableFacts, RowFacts
  <2> QED BY <1>3, <2>2, <2>3
<1> QED BY <1>5, <1>6

\* A delete goes on to the links of its groups, then to the board.
LEMMA CollectQueued ==
    ASSUME NEW p \in Procs, GroupsInv, Queued(p), Collect(p)
    PROVE  Own(p) /\ Queued(p)'
<1>1. TypeOK /\ pc[p] = "collect" /\ Op(p) = "delete"
  BY DEF GroupsInv, Collect, Good, Places
<1> DEFINE below == SubtreeIds(G(p))
           gone == SetToSeq(LinksOf(below))
           rows == [n \in DOMAIN gone |-> <<OfLink(gone[n]), Update>>]
           all == rows \o <<<<BoardRow, NoKeyUpdate>>>>
<1>2. LinksOf(below) \subseteq Links /\ IsFiniteSet(LinksOf(below)) /\ \A i \in LinksOf(below) : LinkGroup[i] \in below
  <2>1. LinksOf(below) \in SUBSET Links /\ \A i \in LinksOf(below) : LinkGroup[i] \in below
    BY <1>1 DEF LinksOf, TypeOK
  <2> QED BY <2>1, FiniteAssumption, FS_Subset
<1>3. gone \in Seq(LinksOf(below))
  <2> HIDE DEF below
  <2> QED BY <1>2, SetToSeqFacts
<1>4. /\ UNCHANGED <<tables, held, req, seen, round>>
      /\ ids' = [ids EXCEPT ![p] = below]
      /\ joined' = [joined EXCEPT ![p] = {m \in member : m[1] \in below}]
      /\ plan' = [plan EXCEPT ![p] = all]
      /\ pc' = [pc EXCEPT ![p] = "clear"]
  BY DEF Collect, Answer
<1> HIDE DEF below, gone
<1>5. /\ \A n \in DOMAIN all : all[n][1] = BoardRow => n = Len(all)
      /\ \A l \in ToSet(all) : Table(l[1]) >= 3
      /\ \A l \in ToSet(all) : \A i : l[1] = OfLink(i) => i \in LinksOf(below)
  <2> DEFINE T == {<<OfLink(i), Update>> : i \in LinksOf(below)} \cup {<<BoardRow, NoKeyUpdate>>}
             e == <<BoardRow, NoKeyUpdate>>
  <2>1. Len(gone) \in Nat /\ DOMAIN gone = 1 .. Len(gone) /\ \A n \in DOMAIN gone : gone[n] \in LinksOf(below)
    BY <1>3
  <2>2. /\ rows \in Seq(T) /\ e \in T /\ Len(rows) = Len(gone)
        /\ \A n \in 1 .. Len(gone) : rows[n] = <<OfLink(gone[n]), Update>>
    BY <2>1
  <2>3. all = rows \o <<e>>
    OBVIOUS
  <2> HIDE DEF rows, e, T, all
  <2>4. /\ Len(rows \o <<e>>) = Len(rows) + 1 /\ DOMAIN (rows \o <<e>>) = 1 .. Len(rows) + 1
        /\ (rows \o <<e>>)[Len(rows) + 1] = e
        /\ \A i \in 1 .. Len(rows) : (rows \o <<e>>)[i] = rows[i]
    BY <2>2, OneMore
  <2>5. /\ DOMAIN all = 1 .. Len(gone) + 1 /\ Len(all) = Len(gone) + 1
        /\ \A n \in 1 .. Len(gone) : all[n] = <<OfLink(gone[n]), Update>> /\ gone[n] \in LinksOf(below)
        /\ all[Len(gone) + 1] = <<BoardRow, NoKeyUpdate>>
    BY <2>1, <2>2, <2>3, <2>4 DEF e
  <2> QED BY <2>1, <2>5, LinksThenBoard
<1> HIDE DEF rows, all
<1>6. /\ ids'[p] = below /\ ids' = [ids EXCEPT ![p] = ids'[p]]
      /\ joined' = [joined EXCEPT ![p] = joined'[p]]
      /\ plan'[p] = all /\ plan' = [plan EXCEPT ![p] = plan'[p]]
      /\ pc'[p] = "clear" /\ pc' = [pc EXCEPT ![p] = pc'[p]]
  <2> DEFINE found == {m \in member : m[1] \in below}
  <2> HIDE DEF found
  <2>1. joined' = [joined EXCEPT ![p] = found]
    BY <1>4 DEF found
  <2> QED BY <1>1, <1>4, <2>1, OneField
<1>7. Own(p)
  BY <1>1, <1>4, <1>6, MovesOwn
<1>8. Op(p)' = Op(p) /\ held' = held
  BY <1>4 DEF Op
<1>9. LocksRise(p)' /\ LocksItself(p)'
  BY <1>6 DEF LocksRise, LocksItself
<1>10. LocksBegin(p)'
  BY <1>1, <1>6, <1>8 DEF LocksBegin, Going
<1>11. LinksUnder(p)'
  <2>1. \A l \in ToSet(plan'[p]), i \in Links : l[1] = OfLink(i) => LinkGroup[i] \in ids'[p]
    BY <1>2, <1>5, <1>6
  <2> QED BY <1>6, <1>8, <2>1 DEF Queued, LinksUnder
<1>12. BoardLast(p)'
  <2>1. held[p][BoardRow] = None
    BY <1>1, TableFacts, RowFacts DEF Queued, LocksBegin
  <2> QED BY <1>5, <1>6, <1>8, <2>1 DEF BoardLast
<1>13. AccountModes(p)'
  <2>1. \A l \in ToSet(plan'[p]) : Table(l[1]) # 1
    BY <1>5, <1>6
  <2> QED BY <1>8, <2>1 DEF Queued, AccountModes
<1> QED BY <1>7, <1>9, <1>10, <1>11, <1>12, <1>13 DEF Queued

\* The lookup is outside the transaction.
LEMMA AskMemberQueued ==
    ASSUME NEW p \in Procs, GroupsInv, Queued(p), AskMember(p)
    PROVE  Own(p) /\ Queued(p)'
<1>1. TypeOK /\ pc[p] = "ask"
  BY DEF GroupsInv, AskMember
<1> DEFINE next == IF ~FoundMember(p) THEN "gone" ELSE IF ~ValidMember(p) THEN "refused" ELSE "count"
           copy == IF Op(p) \in Transfers THEN owner[G(p)] ELSE Top
<1>2. /\ UNCHANGED <<tables, held, req, ids, joined, round, plan>>
      /\ seen' = [seen EXCEPT ![p] = copy] /\ pc' = [pc EXCEPT ![p] = next]
  BY DEF AskMember, Answer
<1>3. next \in {"gone", "refused", "count"}
  OBVIOUS
<1> HIDE DEF next, copy
<1>4. seen' = [seen EXCEPT ![p] = seen'[p]] /\ pc'[p] = next /\ pc' = [pc EXCEPT ![p] = pc'[p]]
  BY <1>1, <1>2, OneField
<1>5. Own(p)
  BY <1>1, <1>2, <1>4, MovesOwn
<1>6. pc'[p] \notin Going
  BY <1>3, <1>4 DEF Going
<1>7. \A r \in Rows : held'[p][r] = None
  BY <1>1, <1>2, NoneHeld DEF Going
<1> QED BY <1>5, <1>6, <1>7, IdleQueued

\* The accounts in key order, then the group.
LEMMA LockAccountsQueued ==
    ASSUME NEW p \in Procs, GroupsInv, Queued(p), LockAccounts(p)
    PROVE  Own(p) /\ Queued(p)'
<1>1. TypeOK /\ pc[p] = "count" /\ Op(p) \in AdminOps /\ round[p] = 1
  BY DEF GroupsInv, LockAccounts, Good, Places
<1> DEFINE us == AccountsToLock(p) \cap Users
           first == ByPk("account", us, NoKeyUpdate)
           all == first \o GroupToLock(p)
<1>2. us \in SUBSET Users
  BY <1>1, Named, AccountAssumption DEF AccountsToLock, AdminsOf
<1>3. /\ UNCHANGED <<tables, held, req, seen, joined, round>>
      /\ ids' = [ids EXCEPT ![p] = AccountsToLock(p) \cap (accounts \cup Procs)]
      /\ plan' = [plan EXCEPT ![p] = all] /\ pc' = [pc EXCEPT ![p] = "lock"]
  BY DEF LockAccounts, Answer
<1> HIDE DEF us
<1>4. NoKeyUpdate \in Modes
  BY DEF NoKeyUpdate, Update, Modes, None
<1>5. Rising(first) /\ \A l \in ToSet(first) : Table(l[1]) = 1 /\ l[2] = NoKeyUpdate
  BY <1>2, <1>4, AccountsRise
<1>6. \E T : first \in Seq(T)
  BY <1>2, <1>4, AccountsRise
<1> HIDE DEF first
<1>7. /\ Rising(GroupToLock(p)) /\ \E T : GroupToLock(p) \in Seq(T)
      /\ \A l \in ToSet(GroupToLock(p)) : Table(l[1]) = 2
      /\ Op(p) = "dismiss" => GroupToLock(p) = <<>>
  <2>1. CASE \E m : GroupToLock(p) = <<<<OfGroup(G(p)), m>>>>
    <3>1. PICK m : GroupToLock(p) = <<<<OfGroup(G(p)), m>>>>
      BY <2>1
    <3>2. GroupToLock(p) \in Seq({<<OfGroup(G(p)), m>>})
      BY <3>1
    <3>3. Op(p) # "dismiss"
      BY <3>1 DEF GroupToLock, MemberOps, Transfers
    <3> QED BY <3>1, <3>2, <3>3, ShortSeqs, ShortRising, TableFacts
  <2>2. CASE GroupToLock(p) = <<>>
    BY <2>2, ShortSeqs, ShortRising
  <2> QED BY <2>1, <2>2 DEF GroupToLock
<1>8. Rising(all) /\ ToSet(all) = ToSet(first) \cup ToSet(GroupToLock(p))
  <2>1. PICK T, U : GroupToLock(p) \in Seq(T) /\ first \in Seq(U)
    BY <1>6, <1>7
  <2>2. first \in Seq(T \cup U) /\ GroupToLock(p) \in Seq(T \cup U)
    BY <2>1
  <2>3. \A l \in ToSet(first), k \in ToSet(GroupToLock(p)) : Before(l[1], k[1])
    BY <1>5, <1>7 DEF Before
  <2> QED BY <1>5, <1>7, <2>2, <2>3, RisingJoined
<1> HIDE DEF all
<1>9. /\ ids' = [ids EXCEPT ![p] = ids'[p]]
      /\ plan'[p] = all /\ plan' = [plan EXCEPT ![p] = plan'[p]]
      /\ pc'[p] = "lock" /\ pc' = [pc EXCEPT ![p] = pc'[p]]
  <2> DEFINE found == AccountsToLock(p) \cap (accounts \cup Procs)
  <2>1. ids' = [ids EXCEPT ![p] = found]
    BY <1>3
  <2> HIDE DEF found
  <2> QED BY <1>1, <1>3, <2>1, OneField
<1>10. Own(p)
  BY <1>1, <1>3, <1>9, MovesOwn
<1>11. \A r \in Rows : held[p][r] = None
  BY <1>1, NoneHeld DEF Going
<1>12. Op(p)' = Op(p) /\ X(p)' = X(p) /\ held'[p] = held[p] /\ round'[p] = 1
  BY <1>1, <1>3 DEF Op, X
<1>13. Op(p) # "delete"
  BY <1>1, Kinds DEF GroupOps
<1>14. \A l \in ToSet(plan'[p]) : Table(l[1]) \in {1, 2} /\ (Table(l[1]) = 1 => l[2] = NoKeyUpdate)
  BY <1>5, <1>7, <1>8, <1>9
<1>15. \A l \in ToSet(plan'[p]), i \in Links : l[1] # OfLink(i)
  BY <1>14, TableFacts
<1>16. Op(p) = "dismiss" => \A l \in ToSet(plan'[p]) : Table(l[1]) = 1
  BY <1>5, <1>7, <1>8, <1>9, ShortSeqs
<1> QED BY <1>8, <1>9, <1>10, <1>11, <1>12, <1>13, <1>14, <1>15, <1>16, PlanQueued

\* An account delete holds accounts only when it comes to its groups.
LEMMA LockItsGroupsQueued ==
    ASSUME NEW p \in Procs, GroupsInv, Queued(p), LockItsGroups(p)
    PROVE  Own(p) /\ Queued(p)'
<1>1. TypeOK /\ pc[p] = "lock" /\ plan[p] = <<>> /\ Op(p) = "dismiss" /\ round[p] = 1
  BY DEF GroupsInv, LockItsGroups, Locked
<1> DEFINE gs == Administered(X(p))
           locks == ByPk("group", gs, NoKeyUpdate)
<1>2. gs \in SUBSET Groups /\ NoKeyUpdate \in Modes
  BY <1>1 DEF Administered, TypeOK, NoKeyUpdate, Update, Modes, None
<1>3. UNCHANGED <<tables, held, req, pc, seen, ids, joined>> /\ plan' = [plan EXCEPT ![p] = locks]
      /\ round' = [round EXCEPT ![p] = round[p] + 1]
  BY DEF LockItsGroups, NextRound
<1> HIDE DEF gs
<1>4. Rising(locks) /\ \A l \in ToSet(locks) : Table(l[1]) = 2
  BY <1>2, GroupsRise
<1> HIDE DEF locks
<1>5. /\ plan'[p] = locks /\ plan' = [plan EXCEPT ![p] = plan'[p]]
      /\ round'[p] = 2 /\ round' = [round EXCEPT ![p] = round'[p]]
  <2>1. round[p] + 1 = 2
    BY <1>1
  <2> QED BY <1>1, <1>3, <2>1, OneField
<1>6. Own(p)
  BY <1>1, <1>3, <1>5, MovesOwn
<1>7. Op(p)' = Op(p) /\ X(p)' = X(p) /\ held'[p] = held[p] /\ pc'[p] = "lock"
  BY <1>1, <1>3 DEF Op, X
<1>8. \A r \in Rows : held[p][r] # None => Table(r) = 1
  BY <1>1 DEF Queued, LocksBegin
<1>9. \A r \in Rows, l \in ToSet(plan'[p]) : held[p][r] # None => Before(r, l[1])
  BY <1>4, <1>5, <1>8 DEF Before
<1>10. \A l \in ToSet(plan'[p]), i \in Links : l[1] # OfLink(i)
  BY <1>4, <1>5, TableFacts
<1> QED BY <1>1, <1>4, <1>5, <1>6, <1>7, <1>9, <1>10, PlanQueued

\* Its last statement is on the account alone, which it holds.
LEMMA LockItselfQueued ==
    ASSUME NEW p \in Procs, GroupsInv, Queued(p), LockItself(p)
    PROVE  Own(p) /\ Queued(p)'
<1>1. TypeOK /\ pc[p] = "lock" /\ plan[p] = <<>> /\ Op(p) = "dismiss" /\ round[p] = 2 /\ Op(p) \in AdminOps
  BY DEF GroupsInv, LockItself, Locked, AdminOps
<1>2. CASE MemberVerdict(p) # "write"
  <2>1. MemberVerdict(p) \in {"gone", "refused"} /\ End(p, MemberVerdict(p))
    BY <1>1, <1>2, MemberVerdictFacts DEF LockItself
  <2>2. MemberVerdict(p) \in Answers \cup {"waiting"}
    BY <2>1 DEF Answers
  <2> QED BY <1>1, <2>1, <2>2, Ended, EndQueued
<1>3. CASE MemberVerdict(p) = "write"
  <2> DEFINE locks == <<<<OfAccount(X(p)), Update>>>>
  <2>1. UNCHANGED <<tables, held, req, pc, seen, ids, joined>> /\ plan' = [plan EXCEPT ![p] = locks]
        /\ round' = [round EXCEPT ![p] = round[p] + 1]
    BY <1>3 DEF LockItself, NextRound
  <2>2. \A l \in ToSet(locks) : l[1] = OfAccount(X(p)) /\ l[2] = Update /\ Table(l[1]) = 1
    BY ShortSeqs, TableFacts
  <2> HIDE DEF locks
  <2>3. /\ plan'[p] = locks /\ plan' = [plan EXCEPT ![p] = plan'[p]]
        /\ round'[p] = 3 /\ round' = [round EXCEPT ![p] = round'[p]]
    <3>1. round[p] + 1 = 3
      BY <1>1
    <3> QED BY <1>1, <2>1, <3>1, OneField
  <2>4. Own(p)
    BY <1>1, <2>1, <2>3, MovesOwn
  <2>5. Op(p)' = Op(p) /\ X(p)' = X(p) /\ held'[p] = held[p] /\ pc'[p] = "lock"
    BY <1>1, <2>1 DEF Op, X
  <2>6. Returns(p)'
    BY <1>1, <2>3, <2>5 DEF Returns
  <2>7. \A l \in ToSet(plan'[p]), i \in Links : l[1] # OfLink(i)
    BY <2>2, <2>3, RowFacts
  <2> QED BY <1>1, <2>2, <2>3, <2>4, <2>5, <2>6, <2>7, PlanQueued
<1> QED BY <1>2, <1>3

-----------------------------------------------------------------------------
(* A lock taken, or a row passed over.                                      *)

\* Only the first row of the plan is taken.
LEMMA LockTakes ==
    ASSUME NEW p \in Procs, TypeOK, Lock(p), ~End(p, "gone")
    PROVE  /\ plan[p] # <<>> /\ plan'[p] = Tail(plan[p]) /\ Head(plan[p]) \in ToSet(plan[p])
           /\ Head(plan[p])[1] \in Rows /\ Head(plan[p]) \in Rows \X Modes
           /\ \A r \in Rows : r # Head(plan[p])[1] => held'[p][r] = held[p][r]
           /\ held'[p][Head(plan[p])[1]] \in {held[p][Head(plan[p])[1]], Head(plan[p])[2]}
<1> DEFINE r0 == Head(plan[p])[1]
           m0 == Head(plan[p])[2]
<1>1. /\ plan[p] # <<>> /\ Rest(p)
      /\ \/ Take(p, r0, m0)
         \/ UNCHANGED held
  BY DEF Lock
<1>2. RequestOK(p)
  BY TypeParts
<1>3. plan[p] \in Seq(Rows \X Modes)
  BY <1>2 DEF RequestOK
<1>4. Head(plan[p]) \in Rows \X Modes /\ Head(plan[p]) \in ToSet(plan[p])
  <2>1. Head(plan[p]) \in Rows \X Modes
    BY <1>1, <1>3, PlanTail
  <2>2. 1 \in DOMAIN plan[p] /\ Head(plan[p]) = plan[p][1]
    BY <1>1, <1>3
  <2> QED BY <2>1, <2>2 DEF ToSet
<1>5. r0 \in Rows /\ m0 \in Modes
  BY <1>4
<1>6. plan'[p] = Tail(plan[p])
  BY <1>1 DEF Rest, TypeOK
<1>7. /\ \A r \in Rows : r # r0 => held'[p][r] = held[p][r]
      /\ held'[p][r0] \in {held[p][r0], m0}
  <2> HIDE DEF r0, m0
  <2>1. CASE Take(p, r0, m0)
    <3>1. held' = [held EXCEPT ![p] = WithLock(@, r0, m0)]
      BY <2>1 DEF Take
    <3>2. held'[p] = [held[p] EXCEPT ![r0] = Stronger(@, m0)]
      BY <3>1 DEF TypeOK, WithLock
    <3>3. held'[p][r0] = Stronger(held[p][r0], m0) /\ \A r \in Rows : r # r0 => held'[p][r] = held[p][r]
      BY <1>2, <1>5, <3>2 DEF RequestOK
    <3> QED BY <3>3 DEF Stronger
  <2>2. CASE UNCHANGED held
    BY <2>2
  <2> QED BY <1>1, <2>1, <2>2
<1> QED BY <1>1, <1>4, <1>5, <1>6, <1>7

\* A link is locked once its group is.
LEMMA LinkAfterGroup ==
    ASSUME NEW p \in Procs, GroupsInv, Queued(p), pc[p] \in {"lock", "clear"},
           plan[p] # <<>>, NEW i \in Links, Head(plan[p])[1] = OfLink(i), Head(plan[p]) \in ToSet(plan[p])
    PROVE  held[p][OfGroup(LinkGroup[i])] >= NoKeyUpdate
<1>1. TypeOK /\ Good(p) /\ plan[p] \in Seq(Rows \X Modes)
  BY DEF GroupsInv, TypeOK
<1>2. CASE pc[p] = "lock"
  <2>1. Op(p) \in LinkOps /\ i = X(p)
    BY <1>2 DEF Queued, LinksUnder
  <2>2. LinkGroup[i] = G(p) /\ G(p) \in Groups
    BY <1>1, <2>1, Named, Kinds
  <2>3. Op(p) \in FixedOps /\ Op(p) # "rename" /\ ~Returns(p)
    BY <2>1 DEF FixedOps, LinkOps, SignUps, Returns
  <2>4. FixedLocks(p) = <<<<OfGroup(G(p)), NoKeyUpdate>>, <<OfLink(X(p)), Update>>>>
    BY <2>1 DEF FixedLocks, LinkOps, SignUps
  <2>5. <<OfGroup(G(p)), NoKeyUpdate>> \in ToSet(FixedLocks(p))
    BY <2>4, ShortSeqs
  <2>6. \A l \in ToSet(FixedLocks(p)) : Has(p, l[1], l[2])
    BY <1>1, <1>2, <2>3 DEF Good, FixedLocked
  <2>7. Has(p, OfGroup(G(p)), NoKeyUpdate)
    BY <2>5, <2>6
  <2>8. <<OfGroup(G(p)), NoKeyUpdate>> \notin ToSet(plan[p])
    <3>1. SUFFICES ASSUME <<OfGroup(G(p)), NoKeyUpdate>> \in ToSet(plan[p]) PROVE FALSE
      OBVIOUS
    <3>2. Rising(plan[p])
      BY <1>2, <2>3 DEF Queued, LocksRise
    <3> DEFINE l == <<OfGroup(G(p)), NoKeyUpdate>>
    <3>3. l = Head(plan[p]) \/ Before(Head(plan[p])[1], l[1])
      <4> HIDE DEF l
      <4>1. l \in ToSet(plan[p])
        BY <3>1 DEF l
      <4> QED BY <1>1, <3>2, <4>1, RisingHead
    <3>4. l[1] = OfGroup(G(p))
      OBVIOUS
    <3> HIDE DEF l
    <3>5. ~Before(OfLink(i), OfGroup(G(p))) /\ OfLink(i) # OfGroup(G(p))
      BY BeforeFacts, RowFacts
    <3> QED BY <3>3, <3>4, <3>5
  <2> QED BY <2>2, <2>7, <2>8 DEF Has
<1>3. CASE pc[p] = "clear"
  <2>1. Op(p) = "delete" /\ Walks(p)
    BY <1>1, <1>3 DEF Good, Places, Walks
  <2>2. LinkGroup[i] \in ids[p]
    BY <1>3 DEF Queued, LinksUnder
  <2>3. LinkGroup[i] \in exists
    BY <1>1, <1>3, <2>1, <2>2 DEF Good, DeleteReady
  <2>4. held[p][OfGroup(LinkGroup[i])] = Update
    BY <1>1, <1>3, <2>1, <2>2, <2>3 DEF Good, WalkLocked, Going
  <2> QED BY <2>4, ModeFacts
<1> QED BY <1>2, <1>3

\* What is taken comes before all that is left.
LEMMA LockQueued ==
    ASSUME NEW p \in Procs, GroupsInv, Queued(p), Lock(p)
    PROVE  Own(p) /\ Queued(p)'
<1>1. TypeOK
  BY DEF GroupsInv
<1>2. CASE End(p, "gone")
  <2>1. "gone" \in Answers \cup {"waiting"}
    BY DEF Answers
  <2> QED BY <1>1, <1>2, <2>1, Ended, EndQueued
<1>3. CASE ~End(p, "gone")
  <2> DEFINE h == Head(plan[p])
  <2>1. /\ Own(p) /\ pc'[p] = pc[p] /\ pc[p] \in {"lock", "clear"} /\ ids'[p] = ids[p] /\ round'[p] = round[p]
        /\ \A r \in Rows : held[p][r] >= NoKeyUpdate => held'[p][r] >= NoKeyUpdate
    BY <1>3, LockFacts
  <2>2. /\ plan[p] # <<>> /\ plan'[p] = Tail(plan[p]) /\ h \in ToSet(plan[p])
        /\ h[1] \in Rows
        /\ \A r \in Rows : r # h[1] => held'[p][r] = held[p][r]
        /\ held'[p][h[1]] \in {held[p][h[1]], h[2]}
    BY <1>1, <1>3, LockTakes
  <2>3. plan[p] \in Seq(Rows \X Modes)
    BY <1>1, TypeParts DEF RequestOK
  <2>4. ToSet(plan'[p]) \subseteq ToSet(plan[p])
    BY <2>2, <2>3, PlanTail
  <2>5. Op(p)' = Op(p) /\ X(p)' = X(p)
    BY <1>1, <2>1, OwnOthers
  <2>6. \A r \in Rows : held'[p][r] # None => held[p][r] # None \/ r = h[1]
    BY <2>2
  <2>7. ASSUME pc[p] = "lock", ~Returns(p) PROVE Rising(plan'[p]) /\ \A l \in ToSet(plan'[p]) : Before(h[1], l[1])
    <3>1. Rising(plan[p])
      BY <2>7 DEF Queued, LocksRise
    <3> QED BY <2>2, <2>3, <3>1, RisingTail
  <2> HIDE DEF h
  <2>8. LocksRise(p)'
    <3>1. Returns(p)' <=> Returns(p)
      BY <2>1, <2>5 DEF Returns
    <3>2. ASSUME pc[p] = "lock", ~Returns(p), NEW r \in Rows, NEW l \in ToSet(plan'[p]), held'[p][r] # None
          PROVE  Before(r, l[1])
      <4>1. CASE held[p][r] # None
        BY <2>4, <3>2, <4>1 DEF Queued, LocksRise
      <4>2. CASE r = h[1]
        BY <2>7, <3>2, <4>2
      <4> QED BY <2>6, <3>2, <4>1, <4>2
    <3> QED BY <2>1, <2>7, <3>1, <3>2 DEF LocksRise
  <2>9. LocksBegin(p)'
    <3>1. pc'[p] \in Going
      BY <2>1 DEF Going
    <3>2. Op(p) = "delete" /\ pc[p] = "lock" =>
             /\ \A r \in Rows : held'[p][r] # None => Table(r) = 2
             /\ \A l \in ToSet(plan'[p]) : Table(l[1]) = 2
      BY <2>2, <2>4, <2>6 DEF Queued, LocksBegin
    <3>3. Op(p) = "dismiss" /\ pc[p] = "lock" /\ round[p] = 1 =>
             /\ \A r \in Rows : held'[p][r] # None => Table(r) = 1
             /\ \A l \in ToSet(plan'[p]) : Table(l[1]) = 1
      BY <2>2, <2>4, <2>6 DEF Queued, LocksBegin
    <3>4. pc'[p] # "collect"
      BY <2>1
    <3> QED BY <2>1, <2>5, <3>1, <3>2, <3>3, <3>4 DEF LocksBegin
  <2>10. LinksUnder(p)'
    <3>1. ASSUME NEW i \in Links, held'[p][OfLink(i)] # None
          PROVE  held'[p][OfGroup(LinkGroup[i])] >= NoKeyUpdate
      <4>1. OfGroup(LinkGroup[i]) \in Rows /\ OfLink(i) \in Rows
        BY StartAssumption, RowFacts
      <4>2. CASE held[p][OfLink(i)] # None
        BY <2>1, <4>1, <4>2 DEF Queued, LinksUnder
      <4>3. CASE OfLink(i) = h[1]
        <5>1. held[p][OfGroup(LinkGroup[i])] >= NoKeyUpdate
          BY <2>1, <2>2, <4>3, LinkAfterGroup DEF h
        <5> QED BY <2>1, <4>1, <5>1
      <4> QED BY <2>6, <3>1, <4>1, <4>2, <4>3
    <3>2. ASSUME NEW l \in ToSet(plan'[p]), NEW i \in Links, l[1] = OfLink(i)
          PROVE  /\ pc[p] = "lock" => Op(p) \in LinkOps /\ i = X(p)
                 /\ pc[p] = "clear" => LinkGroup[i] \in ids[p]
      BY <2>4, <3>2 DEF Queued, LinksUnder
    <3> QED BY <2>1, <2>5, <3>1, <3>2 DEF LinksUnder
  <2>11. BoardLast(p)'
    <3>1. SUFFICES ASSUME pc[p] = "clear" PROVE BoardLast(p)'
      BY <2>1 DEF BoardLast
    <3>2. /\ \A n \in DOMAIN plan[p] : plan[p][n][1] = BoardRow => n = Len(plan[p])
          /\ held[p][BoardRow] = None /\ \A l \in ToSet(plan[p]) : Table(l[1]) >= 3
      BY <2>2, <3>1 DEF Queued, BoardLast
    <3>3. /\ Len(plan[p]) \in Nat /\ DOMAIN plan[p] = 1 .. Len(plan[p]) /\ Len(plan[p]) # 0
          /\ h = plan[p][1] /\ Len(plan'[p]) = Len(plan[p]) - 1 /\ DOMAIN plan'[p] = 1 .. Len(plan[p]) - 1
          /\ \A n \in 1 .. Len(plan[p]) - 1 : plan'[p][n] = plan[p][n + 1]
      BY <2>2, <2>3 DEF h
    <3>4. ASSUME NEW n \in DOMAIN plan'[p], plan'[p][n][1] = BoardRow PROVE n = Len(plan'[p])
      <4>1. n \in Nat /\ n + 1 \in DOMAIN plan[p] /\ plan[p][n + 1][1] = BoardRow
        BY <3>3, <3>4
      <4>2. n + 1 = Len(plan[p])
        BY <3>2, <4>1
      <4> QED BY <3>3, <4>1, <4>2
    <3>5. ASSUME held'[p][BoardRow] # None PROVE plan'[p] = <<>>
      <4>1. h[1] = BoardRow
        BY <2>6, <3>2, <3>5, RowFacts
      <4>2. 1 = Len(plan[p])
        <5>1. 1 \in DOMAIN plan[p] /\ plan[p][1][1] = BoardRow
          BY <3>3, <4>1
        <5> QED BY <3>2, <5>1
      <4>3. Len(plan'[p]) = 0 /\ plan'[p] \in Seq(Rows \X Modes)
        BY <2>2, <2>3, <3>3, <4>2, PlanTail
      <4> QED BY <4>3
    <3> QED BY <2>4, <3>2, <3>4, <3>5 DEF BoardLast
  <2>12. AccountModes(p)'
    <3>1. ASSUME NEW u \in Users PROVE held'[p][OfAccount(u)] \in {None, NoKeyUpdate, Update}
      <4>1. OfAccount(u) \in Rows /\ held[p][OfAccount(u)] \in {None, NoKeyUpdate, Update}
        BY RowFacts DEF Queued, AccountModes
      <4>2. OfAccount(u) = h[1] => h[2] \in {NoKeyUpdate, Update}
        BY <2>1, <2>2, TableFacts DEF Queued, AccountModes
      <4> QED BY <2>2, <4>1, <4>2
    <3> QED BY <2>1, <2>4, <3>1 DEF Queued, AccountModes
  <2>13. LocksItself(p)'
    BY <2>1, <2>4, <2>5 DEF Queued, LocksItself
  <2> QED BY <2>1, <2>8, <2>9, <2>10, <2>11, <2>12, <2>13 DEF Queued
<1> QED BY <1>2, <1>3

\* At the end of a transaction all locks go.
LEMMA EndsQueued ==
    ASSUME NEW p \in Procs, GroupsInv,
           GiveBack(p) \/ Commit(p) \/ CommitDelete(p) \/ CommitMember(p) \/ Abort(p)
    PROVE  Own(p) /\ Queued(p)'
<1>1. \E a \in Answers \cup {"waiting"} : End(p, a)
  <2>1. {"ok", "refused", "error", "aborted"} \subseteq Answers
    BY DEF Answers
  <2>2. CASE GiveBack(p)
    BY <2>1, <2>2 DEF GiveBack
  <2>3. CASE CommitDelete(p)
    BY <2>1, <2>3 DEF CommitDelete
  <2>4. CASE CommitMember(p)
    BY <2>1, <2>4 DEF CommitMember
  <2>5. CASE Abort(p)
    BY <2>1, <2>5 DEF Abort
  <2>6. CASE Commit(p)
    BY <2>1, <2>6 DEF Commit, Outcome
  <2> QED BY <2>2, <2>3, <2>4, <2>5, <2>6
<1>2. TypeOK
  BY DEF GroupsInv
<1> QED BY <1>1, <1>2, Ended, EndQueued

\* Every step of every request keeps the order.
LEMMA QueueNext ==
    ASSUME GroupsInv, QueueInv, [Next]_vars
    PROVE  QueueInv'
<1>1. TypeOK
  BY DEF GroupsInv
<1>2. ASSUME UNCHANGED vars, NEW p \in Procs PROVE Queued(p)'
  BY <1>2, QueuedKept DEF vars, Op, X, QueueInv
<1>3. ASSUME NEW p \in Procs, Own(p), Queued(p)', NEW q \in Procs PROVE Queued(q)'
  <2>1. CASE q = p
    BY <1>3, <2>1
  <2>2. CASE q # p
    <3>1. /\ Op(q)' = Op(q) /\ X(q)' = X(q) /\ held'[q] = held[q] /\ pc'[q] = pc[q]
          /\ ids'[q] = ids[q] /\ round'[q] = round[q] /\ plan'[q] = plan[q]
      BY <1>1, <1>3, <2>2, OwnOthers
    <3> QED BY <3>1, QueuedKept DEF QueueInv
  <2> QED BY <2>1, <2>2
<1>4. ASSUME NEW p \in Procs, GroupStep(p) PROVE Own(p) /\ Queued(p)'
  <2>1. Queued(p)
    BY DEF QueueInv
  <2> QED BY <1>4, <2>1, AskQueued, WalkQueued, LockQueued, RewalkQueued, CollectQueued, JudgeQueued,
             ConfirmQueued, EndsQueued DEF GroupStep
<1>5. ASSUME NEW p \in Procs, AdminStep(p) PROVE Own(p) /\ Queued(p)'
  <2>1. Queued(p)
    BY DEF QueueInv
  <2> QED BY <1>5, <2>1, AskMemberQueued, LockAccountsQueued, JudgeMemberQueued, LockItsGroupsQueued,
             LockItselfQueued, EndsQueued DEF AdminStep
<1>6. ASSUME NEW p \in Procs, Abort(p) PROVE Own(p) /\ Queued(p)'
  BY <1>6, EndsQueued
<1>7. CASE UNCHANGED vars
  BY <1>2, <1>7 DEF QueueInv
<1>8. CASE Finished
  BY <1>2, <1>8 DEF Finished, QueueInv
<1>9. CASE \E p \in Procs : GroupStep(p) \/ AdminStep(p) \/ Abort(p)
  BY <1>3, <1>4, <1>5, <1>6, <1>9 DEF QueueInv
<1> QED BY <1>7, <1>8, <1>9 DEF Next

\* There are no locks at first.
LEMMA InitQueued ==
    Init => QueueInv
<1> SUFFICES ASSUME Init PROVE QueueInv
  OBVIOUS
<1>1. \A p \in Procs : pc[p] = "ask" /\ plan[p] = <<>> /\ \A r \in Rows : held[p][r] = None
  BY DEF Init
<1>2. ASSUME NEW p \in Procs PROVE Queued(p)
  <2>1. ToSet(plan[p]) = {} /\ pc[p] \notin {"lock", "collect", "clear"}
    BY <1>1, ShortSeqs
  <2>2. \A i \in Links : held[p][OfLink(i)] = None
    BY <1>1, RowFacts
  <2>3. \A u \in Users : held[p][OfAccount(u)] = None
    BY <1>1, RowFacts
  <2>4. LocksRise(p) /\ LocksBegin(p)
    BY <1>1, <2>1 DEF LocksRise, LocksBegin
  <2>5. LinksUnder(p) /\ BoardLast(p)
    BY <1>1, <2>1, <2>2 DEF LinksUnder, BoardLast
  <2>6. AccountModes(p) /\ LocksItself(p)
    BY <1>1, <2>1, <2>3 DEF AccountModes, LocksItself
  <2> QED BY <2>4, <2>5, <2>6 DEF Queued
<1> QED BY <1>2 DEF QueueInv

\* Whatever requests are in flight, each takes its row locks in the order of the
\* tables and of the keys, but for the deletes and account deletes that come back.
THEOREM QueueInvariance == Spec => [](GroupsInv /\ QueueInv)
<1>1. Init => GroupsInv /\ QueueInv
  BY InitGood, InitQueued
<1>2. GroupsInv /\ QueueInv /\ [Next]_vars => (GroupsInv /\ QueueInv)'
  BY NextKeeps, QueueNext
<1> QED BY <1>1, <1>2, PTL DEF Spec

-----------------------------------------------------------------------------
(* Who waits for whom.                                                      *)

\* A finite set of keys has a greatest one.
LEMMA Greatest ==
    ASSUME NEW S, S \subseteq Nat, IsFiniteSet(S), S # {}
    PROVE  \E n \in S : \A m \in S : m <= n
<1> DEFINE N == Cardinality(S)
<1>1. N \in Nat /\ N # 0
  BY FS_CardinalityType, FS_EmptySet
<1>2. PICK f \in [1 .. N -> S] : \A m, n \in DOMAIN f : m < n => f[m] < f[n]
  BY InOrder
<1>3. IsInjective(f)
  <2>1. SUFFICES ASSUME NEW m \in DOMAIN f, NEW n \in DOMAIN f, f[m] = f[n] PROVE m = n
    BY DEF IsInjective
  <2>2. f[m] \in Nat /\ f[n] \in Nat
    BY <1>2
  <2>3. m \in Int /\ n \in Int
    BY <1>1, <1>2
  <2>4. ~(m < n) /\ ~(n < m)
    BY <1>2, <2>1, <2>2
  <2> QED BY <2>3, <2>4
<1>4. \A x \in S : \E n \in 1 .. N : f[n] = x
  BY <1>2, <1>3, AllReached
<1>5. f[N] \in S /\ N \in DOMAIN f
  BY <1>1, <1>2
<1>6. ASSUME NEW m \in S PROVE m <= f[N]
  <2>1. PICK n \in 1 .. N : f[n] = m
    BY <1>4
  <2>2. f[n] \in Nat /\ f[N] \in Nat /\ n \in DOMAIN f
    BY <1>2, <1>5
  <2>3. CASE n = N
    BY <2>1, <2>2, <2>3
  <2>4. CASE n < N
    BY <1>2, <1>5, <2>1, <2>2, <2>4
  <2>5. n <= N /\ n \in Int
    BY <1>1
  <2> QED BY <1>1, <2>3, <2>4, <2>5
<1> QED BY <1>5, <1>6

\* What a request is about to point at it has locked.
LEMMA PointsHeld ==
    ASSUME NEW p \in Procs, GroupsInv, pc[p] = "write", NEW g \in Points(p)
    PROVE  g \in Groups /\ held[p][OfGroup(g)] # None
<1>1. TypeOK /\ Good(p) /\ Places(p)
  BY DEF GroupsInv, Good
<1>2. CASE Op(p) \in {"move", "create"}
  <2>1. g = X(p) /\ g # Top
    BY <1>2 DEF Points, Confirms
  <2>2. X(p) \in exists \cup {Top} /\ held[p][OfGroup(X(p))] = Update
    BY <1>1, <1>2, <2>1, ChainLocked DEF Good
  <2> QED BY <1>1, <2>1, <2>2, ModeFacts DEF TypeOK
<1>3. CASE Op(p) = "place"
  <2>1. g = X(p) /\ g # Top /\ X(p) \in Groups \cup {Top}
    BY <1>1, <1>3, Named DEF Points, Confirms
  <2>2. held[p][OfGroup(X(p))] # None
    BY <1>1, <1>3, <2>1, RowsFixed DEF Good
  <2> QED BY <2>1, <2>2
<1>4. CASE Op(p) \in {"redeem", "register", "mint"} \/ Confirms(p)
  <2>1. g = G(p) /\ Op(p) \in {"defaults", "mint"} \cup LinkOps
    BY <1>4 DEF Points, Confirms, LinkOps, SignUps
  <2>2. held[p][OfGroup(G(p))] >= NoKeyUpdate
    BY <1>1, <2>1, LockedFixed DEF Good
  <2>3. G(p) \in Groups
    BY <1>1, <2>1, Named DEF GroupOps
  <2>4. held[p][OfGroup(G(p))] \in Modes
    BY <1>1, <2>3, RowFacts DEF TypeOK
  <2> QED BY <2>1, <2>2, <2>3, <2>4, ModeFacts
<1>5. CASE Op(p) \in {"rename", "defaults"}
  <2>1. G(p) \notin exists
    BY <1>5 DEF Points, Confirms
  <2>2. G(p) \in Groups
    BY <1>1, <1>5, Named DEF GroupOps
  <2>3. held[p][OfGroup(G(p))] \in Modes
    BY <1>1, <2>2, RowFacts DEF TypeOK
  <2>4. held[p][OfGroup(G(p))] # None
    <3>1. CASE Op(p) = "rename"
      <4>1. held[p][OfGroup(G(p))] = Update
        BY <1>1, <3>1, RowsFixed DEF Good
      <4> QED BY <4>1, ModeFacts
    <3>2. CASE Op(p) = "defaults"
      <4>1. held[p][OfGroup(G(p))] >= NoKeyUpdate
        BY <1>1, <3>2, LockedFixed DEF Good
      <4> QED BY <2>3, <4>1, ModeFacts
    <3> QED BY <1>5, <3>1, <3>2
  <2>5. G(p) \in exists
    BY <1>1, <2>2, <2>4 DEF Good, HeldThere
  <2> QED BY <2>1, <2>5
<1>6. CASE ~(Op(p) \in {"move", "create", "place", "redeem", "register", "mint", "rename", "defaults"} \/ Confirms(p))
  BY <1>6 DEF Points
<1> QED BY <1>2, <1>3, <1>4, <1>5, <1>6

\* A request that waits for another wants the first row of its plan, which the
\* other holds: what it points at when it commits it has locked.
LEMMA WaiterFacts ==
    ASSUME GroupsInv, NEW p \in Procs, NEW q \in Procs, p # q, WaitsFor(p, q)
    PROVE  /\ pc[p] \in {"lock", "clear"} /\ plan[p] # <<>> /\ Head(plan[p]) \in ToSet(plan[p])
           /\ Head(plan[p])[1] \in Rows /\ There(p, Head(plan[p])[1])
           /\ held[q][Head(plan[p])[1]] # None
<1>1. TypeOK /\ LocksCompatible
  BY DEF GroupsInv
<1>2. PICK w \in Wanted(p) : ~Compatible(held[q][w[1]], w[2])
  BY DEF WaitsFor
<1>3. CASE pc[p] \in {"lock", "clear"} /\ plan[p] # <<>>
  <2>1. w = Head(plan[p]) /\ There(p, Head(plan[p])[1])
    BY <1>2, <1>3 DEF Wanted
  <2>2. plan[p] \in Seq(Rows \X Modes)
    BY <1>1, TypeParts DEF RequestOK
  <2>3. w \in Rows \X Modes /\ w \in ToSet(plan[p])
    <3>1. Head(plan[p]) \in Rows \X Modes
      BY <1>3, <2>2, PlanTail
    <3>2. 1 \in DOMAIN plan[p] /\ Head(plan[p]) = plan[p][1]
      BY <1>3, <2>2
    <3> QED BY <2>1, <3>1, <3>2 DEF ToSet
  <2>4. w[1] \in Rows /\ w[2] \in Modes
    BY <2>3
  <2>5. held[q][w[1]] # None
    BY <1>2, <2>4 DEF Compatible, Modes, None, Update
  <2> QED BY <1>3, <2>1, <2>3, <2>4, <2>5
<1>4. CASE ~(pc[p] \in {"lock", "clear"} /\ plan[p] # <<>>)
  <2>1. pc[p] = "write" /\ \E g \in Points(p) : w = <<OfGroup(g), KeyShare>>
    BY <1>2, <1>4 DEF Wanted
  <2>2. PICK g \in Points(p) : w = <<OfGroup(g), KeyShare>>
    BY <2>1
  <2>3. g \in Groups /\ held[p][OfGroup(g)] # None
    BY <2>1, PointsHeld
  <2>4. OfGroup(g) \in Rows
    BY <2>3, RowFacts
  <2>5. held[q][OfGroup(g)] # Update /\ held[q][OfGroup(g)] \in Modes
    BY <1>1, <2>3, <2>4, Apart DEF TypeOK
  <2>6. ~Compatible(held[q][OfGroup(g)], KeyShare)
    BY <1>2, <2>2
  <2> QED BY <2>5, <2>6 DEF Compatible, Modes, None, KeyShare, Update
<1> QED BY <1>3, <1>4

\* Nobody waits for a link: it is locked under its group.
LEMMA NoLinkWanted ==
    ASSUME GroupsInv, QueueInv, NEW p \in Procs, NEW q \in Procs, p # q, WaitsFor(p, q), NEW i \in Links
    PROVE  Head(plan[p])[1] # OfLink(i)
<1>1. SUFFICES ASSUME Head(plan[p])[1] = OfLink(i) PROVE FALSE
  OBVIOUS
<1>2. /\ pc[p] \in {"lock", "clear"} /\ plan[p] # <<>> /\ Head(plan[p]) \in ToSet(plan[p])
      /\ held[q][OfLink(i)] # None
  BY <1>1, WaiterFacts
<1>3. Queued(p) /\ Queued(q) /\ TypeOK /\ LocksCompatible
  BY DEF QueueInv, GroupsInv
<1>4. held[p][OfGroup(LinkGroup[i])] >= NoKeyUpdate
  BY <1>1, <1>2, <1>3, LinkAfterGroup
<1>5. held[q][OfGroup(LinkGroup[i])] >= NoKeyUpdate
  BY <1>2, <1>3 DEF Queued, LinksUnder
<1>6. OfGroup(LinkGroup[i]) \in Rows
  BY StartAssumption, RowFacts
<1> QED BY <1>3, <1>4, <1>5, <1>6, Apart

\* Nor does an account delete that comes back to the account: it holds it.
LEMMA DismissNeverWaits ==
    ASSUME GroupsInv, QueueInv, NEW p \in Procs, NEW q \in Procs, p # q, WaitsFor(p, q),
           Op(p) = "dismiss", round[p] = 3, pc[p] = "lock"
    PROVE  FALSE
<1>1. /\ Head(plan[p]) \in ToSet(plan[p]) /\ There(p, Head(plan[p])[1])
      /\ held[q][Head(plan[p])[1]] # None
  BY WaiterFacts
<1>2. Queued(p) /\ Queued(q) /\ TypeOK /\ LocksCompatible /\ Good(p)
  BY DEF QueueInv, GroupsInv
<1>3. Head(plan[p])[1] = OfAccount(X(p))
  BY <1>1, <1>2 DEF Queued, LocksItself
<1>4. Op(p) \in AdminOps /\ X(p) \in Users
  BY <1>2, Named DEF AdminOps
<1>5. X(p) \in accounts
  BY <1>1, <1>3 DEF There, OfAccount
<1>6. held[p][OfAccount(X(p))] >= NoKeyUpdate
  BY <1>2, <1>4, <1>5 DEF Good, AccountsLocked, Going
<1>7. held[q][OfAccount(X(p))] \in {NoKeyUpdate, Update}
  BY <1>1, <1>2, <1>3, <1>4 DEF Queued, AccountModes
<1>8. held[q][OfAccount(X(p))] >= NoKeyUpdate
  BY <1>7 DEF NoKeyUpdate, Update
<1> QED BY <1>2, <1>4, <1>6, <1>8, Apart, RowFacts

\* Nor whoever holds the board: it is the last row of every request.
LEMMA BoardHolder ==
    ASSUME GroupsInv, QueueInv, NEW p \in Procs, NEW q \in Procs, p # q, WaitsFor(p, q),
           ~Returns(p), held[p][BoardRow] # None
    PROVE  FALSE
<1>1. /\ pc[p] \in {"lock", "clear"} /\ plan[p] # <<>> /\ Head(plan[p]) \in ToSet(plan[p])
      /\ Head(plan[p])[1] \in Rows
  BY WaiterFacts
<1>2. Queued(p)
  BY DEF QueueInv
<1>3. pc[p] = "lock"
  BY <1>1, <1>2 DEF Queued, BoardLast
<1>4. Before(BoardRow, Head(plan[p])[1])
  BY <1>1, <1>2, <1>3, RowFacts DEF Queued, LocksRise
<1>5. ~Before(BoardRow, Head(plan[p])[1])
  <2>1. Table(Head(plan[p])[1]) \in 1 .. 4
    BY <1>1, RowsByTable
  <2> QED BY <2>1, TableFacts DEF Before
<1> QED BY <1>4, <1>5

\* Requests wait for one another only around a delete that found subgroups on
\* its second walk (OnlyRewalksDeadlock).  Of any others that do, all wait for
\* groups and accounts, which they lock in key order, accounts first: the one
\* that waits for the last row has nobody to wait for.
LEMMA CyclesNeedRewalks ==
    ASSUME GroupsInv, QueueInv, NEW S \in SUBSET Procs, S # {}, WaitCycle(S)
    PROVE  \E p \in S : Op(p) = "delete" /\ round[p] = 2
<1>1. SUFFICES ASSUME \A p \in S : ~(Op(p) = "delete" /\ round[p] = 2) PROVE FALSE
  OBVIOUS
<1> DEFINE W(p) == Head(plan[p])[1]
<1>2. ASSUME NEW p \in S
      PROVE  /\ pc[p] \in {"lock", "clear"} /\ plan[p] # <<>> /\ Head(plan[p]) \in ToSet(plan[p])
             /\ W(p) \in Rows /\ Queued(p)
             /\ \E q \in S : q # p /\ WaitsFor(p, q) /\ held[q][W(p)] # None
  <2>1. PICK q \in S \ {p} : WaitsFor(p, q)
    BY DEF WaitCycle
  <2> QED BY <2>1, WaiterFacts DEF QueueInv
<1>3. ASSUME NEW p \in S PROVE ~Returns(p) \/ pc[p] # "lock"
  <2>1. PICK q \in S : q # p /\ WaitsFor(p, q)
    BY <1>2
  <2> QED BY <1>1, <2>1, DismissNeverWaits DEF Returns
<1>4. ASSUME NEW p \in S PROVE W(p) # BoardRow /\ \A i \in Links : W(p) # OfLink(i)
  <2>1. PICK q \in S : q # p /\ WaitsFor(p, q) /\ held[q][W(p)] # None
    BY <1>2
  <2>2. \A i \in Links : W(p) # OfLink(i)
    BY <2>1, NoLinkWanted
  <2>3. PICK t \in S : t # q /\ WaitsFor(q, t)
    BY <1>2
  <2>4. pc[q] = "lock" => ~Returns(q)
    BY <1>3
  <2>5. held[q][BoardRow] = None
    <3>1. CASE pc[q] = "lock"
      BY <2>3, <2>4, <3>1, BoardHolder
    <3>2. CASE pc[q] = "clear"
      BY <1>2, <3>2 DEF Queued, BoardLast
    <3> QED BY <1>2, <3>1, <3>2
  <2> QED BY <2>1, <2>2, <2>5
<1>5. ASSUME NEW p \in S
      PROVE  (\E g \in Groups : W(p) = OfGroup(g)) \/ (\E u \in Users : W(p) = OfAccount(u))
  <2>1. W(p) \in Rows
    BY <1>2
  <2> HIDE DEF W
  <2> QED BY <1>4, <2>1 DEF Rows
<1>6. ASSUME NEW p \in S PROVE pc[p] = "lock" /\ ~Returns(p)
  <2>1. Table(W(p)) \in {1, 2}
    <3> HIDE DEF W
    <3> QED BY <1>5, TableFacts
  <2>2. pc[p] # "clear"
    <3>1. SUFFICES ASSUME pc[p] = "clear" PROVE FALSE
      OBVIOUS
    <3>2. Table(W(p)) >= 3
      BY <1>2, <3>1 DEF Queued, BoardLast
    <3> QED BY <2>1, <3>2
  <2> QED BY <1>2, <1>3, <2>2
<1>7. ASSUME NEW p \in S PROVE \E q \in S : Before(W(p), W(q))
  <2>1. PICK q \in S : q # p /\ held[q][W(p)] # None
    BY <1>2
  <2>2. Before(W(p), W(q))
    BY <1>2, <1>6, <2>1 DEF Queued, LocksRise
  <2> QED BY <2>2
<1> HIDE DEF W
<1> DEFINE Gs == {g \in Groups : \E p \in S : W(p) = OfGroup(g)}
           Us == {u \in Users : \E p \in S : W(p) = OfAccount(u)}
<1>8. Gs \subseteq Nat /\ IsFiniteSet(Gs) /\ Us \subseteq Nat /\ IsFiniteSet(Us)
  <2>1. Gs \in SUBSET Groups /\ Us \in SUBSET Users
    OBVIOUS
  <2> HIDE DEF Gs, Us
  <2> QED BY <2>1, GroupTreeAssumption, AccountAssumption, FiniteAssumption, FS_Subset
<1>9. Gs = {}
  <2>1. SUFFICES ASSUME Gs # {} PROVE FALSE
    OBVIOUS
  <2>2. PICK g \in Gs : \A h \in Gs : h <= g
    <3> HIDE DEF Gs
    <3> QED BY <1>8, <2>1, Greatest
  <2>3. PICK p \in S : W(p) = OfGroup(g)
    OBVIOUS
  <2>4. PICK q \in S : Before(OfGroup(g), W(q))
    BY <1>7, <2>3
  <2>5. PICK h \in Groups : W(q) = OfGroup(h)
    BY <1>5, <2>4, BeforeFacts
  <2>6. h \in Gs /\ g < h
    BY <2>4, <2>5, BeforeFacts
  <2>7. g \in Nat /\ h \in Nat /\ h <= g
    BY <1>8, <2>2, <2>6
  <2> QED BY <2>6, <2>7
<1>10. Us # {}
  <2>1. PICK p \in S : TRUE
    OBVIOUS
  <2>2. ~\E g \in Groups : W(p) = OfGroup(g)
    BY <1>9
  <2> QED BY <1>5, <2>2
<1>11. PICK u \in Us : \A v \in Us : v <= u
  <2> HIDE DEF Us
  <2> QED BY <1>8, <1>10, Greatest
<1>12. PICK p \in S : W(p) = OfAccount(u)
  OBVIOUS
<1>13. PICK q \in S : Before(OfAccount(u), W(q))
  BY <1>7, <1>12
<1>14. PICK v \in Users : W(q) = OfAccount(v)
  BY <1>5, <1>9
<1>15. v \in Us /\ u < v
  BY <1>13, <1>14, BeforeFacts
<1>16. u \in Nat /\ v \in Nat /\ v <= u
  BY <1>8, <1>11, <1>15
<1> QED BY <1>15, <1>16

\* Requests on groups, members and accounts wait for one another in a circle
\* only around a delete that found subgroups on its second walk.
THEOREM RewalksOnly == Spec => []OnlyRewalksDeadlock
<1>1. GroupsInv /\ QueueInv => OnlyRewalksDeadlock
  <2>1. SUFFICES ASSUME GroupsInv, QueueInv, NEW S \in (SUBSET Procs) \ {{}}, WaitCycle(S)
                 PROVE  \E p \in S : Op(p) = "delete" /\ round[p] = 2
    BY DEF OnlyRewalksDeadlock
  <2>2. S \in SUBSET Procs /\ S # {}
    OBVIOUS
  <2> QED BY <2>1, <2>2, CyclesNeedRewalks
<1> QED BY <1>1, QueueInvariance, PTL
=============================================================================
