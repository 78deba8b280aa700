----------------------------- MODULE RouteProofs -----------------------------
(***************************************************************************)
(* Facts about routes and their cost, for any finite graph and context.    *)
(***************************************************************************)
EXTENDS RouteContext, WellFoundedInduction, FiniteSetTheorems, SequenceTheorems,
        TLAPS

(***************************************************************************)
(* A set of naturals that is not empty has a least member.                 *)
(***************************************************************************)
LEMMA LeastMember ==
    ASSUME NEW T, T \subseteq Nat, T # {}
    PROVE  \E x \in T : \A y \in T : x <= y
<1> DEFINE R == OpToRel(<, Nat)
<1>1. IsWellFoundedOn(R, Nat)
    BY NatLessThanWellFounded
<1>2. PICK x \in T : \A y \in T : ~(<<y, x>> \in R)
    <2> HIDE DEF R
    <2> QED BY <1>1, WFMin
<1>3. ASSUME NEW y \in T, y < x PROVE FALSE
    <2>1. <<y, x>> \in R
        BY <1>3 DEF OpToRel
    <2> QED BY <1>2, <2>1
<1>4. \A y \in T : x <= y
    BY <1>3
<1> QED BY <1>4

(***************************************************************************)
(* A function over 1..n is a sequence of length n.                         *)
(***************************************************************************)
LEMMA FunctionIsSeq ==
    ASSUME NEW S, NEW n \in Nat, NEW f \in [1..n -> S]
    PROVE  f \in Seq(S) /\ Len(f) = n
<1>1. f \in Seq(S)
    BY SeqDef
<1>2. DOMAIN f = 1..n
    OBVIOUS
<1>3. DOMAIN f = 1..Len(f) /\ Len(f) \in Nat
    BY <1>1, LenProperties
<1>4. \A k, m \in Nat : 1..k = 1..m => k = m
    <2> SUFFICES ASSUME NEW k \in Nat, NEW m \in Nat, 1..k = 1..m, k < m PROVE FALSE
        OBVIOUS
    <2>1. m \in 1..m
        OBVIOUS
    <2> QED BY <2>1
<1> QED BY <1>1, <1>2, <1>3, <1>4

(***************************************************************************)
(* Induction, for the members of a set (a set needs no operator to be      *)
(* instantiated).                                                          *)
(***************************************************************************)
LEMMA SetInduction ==
    ASSUME NEW S, 0 \in S, \A n \in Nat : n \in S => n + 1 \in S
    PROVE  Nat \subseteq S
<1> SUFFICES ASSUME Nat \ S # {} PROVE FALSE
    OBVIOUS
<1>1. PICK x \in Nat \ S : \A y \in Nat \ S : x <= y
    BY LeastMember
<1>2. x # 0 /\ x - 1 \in Nat /\ ~(x <= x - 1) /\ x = (x - 1) + 1
    BY <1>1
<1> QED BY <1>1, <1>2

(***************************************************************************)
(* The recursive function of Cost exists, so that it does satisfy its      *)
(* defining equation.                                                      *)
(***************************************************************************)
IsRunningCost(c, p, f) ==
    f = [k \in 1..Len(p) |->
            IF k = 1 THEN 0 ELSE f[k - 1] + EdgeWeight(c, p[k - 1], p[k])]

LEMMA RunningCostExists ==
    ASSUME NEW c, NEW p, Len(p) \in Nat
    PROVE  \E f : IsRunningCost(c, p, f)
<1> DEFINE Upto(n, f) ==
               f = [k \in 1..n |->
                       IF k = 1 THEN 0 ELSE f[k - 1] + EdgeWeight(c, p[k - 1], p[k])]
           S == {n \in Nat : \E f : Upto(n, f)}
<1>1. 0 \in S
    <2>1. Upto(0, [k \in 1..0 |-> 0])
        OBVIOUS
    <2> QED BY <2>1
<1>2. ASSUME NEW n \in Nat, n \in S PROVE n + 1 \in S
    <2>0. PICK f : Upto(n, f)
        BY <1>2
    <2> DEFINE last == IF n = 0 THEN 0 ELSE f[n] + EdgeWeight(c, p[n], p[n + 1])
               g == [k \in 1..n + 1 |-> IF k = n + 1 THEN last ELSE f[k]]
    <2>1. \A k \in 1..n + 1 :
              g[k] = IF k = 1 THEN 0 ELSE g[k - 1] + EdgeWeight(c, p[k - 1], p[k])
        <3> SUFFICES ASSUME NEW k \in 1..n + 1
                     PROVE  g[k] = IF k = 1 THEN 0
                                   ELSE g[k - 1] + EdgeWeight(c, p[k - 1], p[k])
            OBVIOUS
        <3>1. CASE k = n + 1
            BY <3>1
        <3>2. CASE k # n + 1
            <4>1. k \in 1..n /\ g[k] = f[k]
                BY <3>2
            <4>2. f[k] = IF k = 1 THEN 0 ELSE f[k - 1] + EdgeWeight(c, p[k - 1], p[k])
                BY <2>0, <4>1
            <4>3. k # 1 => g[k - 1] = f[k - 1]
                BY <4>1
            <4> QED BY <4>1, <4>2, <4>3
        <3> QED BY <3>1, <3>2
    <2>2. Upto(n + 1, g)
        BY <2>1
    <2>3. \E h : Upto(n + 1, h)
        <3> HIDE DEF Upto, g
        <3> QED BY <2>2
    <2> QED BY <2>3
<1>3. Len(p) \in S
    <2> HIDE DEF S
    <2> QED BY <1>1, <1>2, SetInduction
<1> QED BY <1>3 DEF IsRunningCost

(***************************************************************************)
(* Every edge weighs at least 1, whatever the context.                     *)
(***************************************************************************)
LEMMA WeightIsPositive ==
    ASSUME NEW c, NEW a, NEW b
    PROVE  EdgeWeight(c, a, b) \in Nat /\ EdgeWeight(c, a, b) >= 1
BY DEF EdgeWeight, SecurityPenalty, WormholePenalty, SECURITY_PENALTY,
       WORMHOLE_PENALTY

(***************************************************************************)
(* Cost is the last value of a running cost.                               *)
(***************************************************************************)
LEMMA CostIsRunning ==
    ASSUME NEW c, NEW p, Len(p) \in Nat
    PROVE  \E f : IsRunningCost(c, p, f) /\ Cost(c, p) = f[Len(p)]
<1> DEFINE upTo == CHOOSE f : IsRunningCost(c, p, f)
<1>1. IsRunningCost(c, p, upTo)
    BY RunningCostExists
<1>2. Cost(c, p) = upTo[Len(p)]
    BY DEF Cost, IsRunningCost
<1> QED BY <1>1, <1>2

(***************************************************************************)
(* A running cost starts at 0 and never falls.                             *)
(***************************************************************************)
LEMMA RunningCostGrows ==
    ASSUME NEW c, NEW p, Len(p) \in Nat, NEW f, IsRunningCost(c, p, f),
           NEW k \in 1..Len(p)
    PROVE  /\ f[k] \in Nat
           /\ f[1] = 0
           /\ k < Len(p) => /\ f[k + 1] = f[k] + EdgeWeight(c, p[k], p[k + 1])
                            /\ f[k + 1] >= f[k]
<1> DEFINE S == {n \in Nat : n + 1 \in 1..Len(p) => f[n + 1] \in Nat}
<1>1. \A n \in 1..Len(p) :
          f[n] = IF n = 1 THEN 0 ELSE f[n - 1] + EdgeWeight(c, p[n - 1], p[n])
    BY DEF IsRunningCost
<1>2. 0 \in S
    BY <1>1
<1>3. ASSUME NEW n \in Nat, n \in S PROVE n + 1 \in S
    <2> SUFFICES ASSUME n + 2 \in 1..Len(p) PROVE f[n + 2] \in Nat
        OBVIOUS
    <2>1. f[n + 2] = f[n + 1] + EdgeWeight(c, p[n + 1], p[n + 2])
        BY <1>1
    <2>2. f[n + 1] \in Nat
        BY <1>3
    <2> QED BY <2>1, <2>2, WeightIsPositive
<1>4. Nat \subseteq S
    <2> HIDE DEF S
    <2> QED BY <1>2, <1>3, SetInduction
<1>5. f[k] \in Nat /\ f[1] = 0
    <2>1. k - 1 \in S /\ (k - 1) + 1 = k
        BY <1>4
    <2> QED BY <1>1, <2>1
<1>6. ASSUME k < Len(p) PROVE f[k + 1] = f[k] + EdgeWeight(c, p[k], p[k + 1])
    BY <1>1, <1>6
<1> QED BY <1>5, <1>6, WeightIsPositive

(***************************************************************************)
(* The cost of a path is a number.                                         *)
(***************************************************************************)
LEMMA CostIsNat ==
    ASSUME NEW c, NEW p, Len(p) \in Nat \ {0}
    PROVE  Cost(c, p) \in Nat
<1>1. PICK f : IsRunningCost(c, p, f) /\ Cost(c, p) = f[Len(p)]
    BY CostIsRunning
<1>2. Len(p) \in Nat /\ Len(p) \in 1..Len(p)
    OBVIOUS
<1>3. f[Len(p)] \in Nat
    BY <1>1, <1>2, RunningCostGrows
<1> QED BY <1>1, <1>3

(***************************************************************************)
(* Under shortest a path costs its jumps.                                  *)
(***************************************************************************)
LEMMA ShortestCostsJumps ==
    ASSUME NEW c, c.pref = "shortest", NEW p, Len(p) \in Nat \ {0}
    PROVE  Cost(c, p) = Jumps(p)
<1>1. PICK f : IsRunningCost(c, p, f) /\ Cost(c, p) = f[Len(p)]
    BY CostIsRunning
<1>2. \A a, b : EdgeWeight(c, a, b) = 1
    BY DEF EdgeWeight, SecurityPenalty, WormholePenalty
<1> DEFINE m == Len(p)
           S == {n \in Nat : n + 1 \in 1..m => f[n + 1] = n}
<1>3. m \in Nat \ {0}
    OBVIOUS
<1>4. \A n \in 1..m : f[n] = IF n = 1 THEN 0 ELSE f[n - 1] + 1
    BY <1>1, <1>2, SMTT(20) DEF IsRunningCost
<1> HIDE DEF m
<1>5. 0 \in S
    BY <1>3, <1>4
<1>6. ASSUME NEW n \in Nat, n \in S PROVE n + 1 \in S
    BY <1>3, <1>4, <1>6
<1>7. m - 1 \in S
    <2> HIDE DEF S
    <2>1. Nat \subseteq S
        BY <1>5, <1>6, SetInduction
    <2> QED BY <1>3, <2>1
<1>8. f[m] = m - 1
    BY <1>3, <1>7
<1> QED BY <1>1, <1>8 DEF Jumps, m

(***************************************************************************)
(* Neighbours are nodes of the graph that are not avoided.                 *)
(***************************************************************************)
LEMMA NeighborsAreNodes ==
    ASSUME NEW c, NEW a
    PROVE  Neighbors(c, a) \subseteq Nodes \ c.avoid
BY DEF Neighbors

----------------------------------------------------------------------------
(***************************************************************************)
(* The paths from s, wherever they end.                                    *)
(***************************************************************************)
PathsFrom(c, s) ==
    {p \in Seq(Nodes) : /\ Len(p) > 0 /\ p[1] = s
                        /\ \A k \in 1..Len(p) - 1 : p[k + 1] \in Neighbors(c, p[k])}

(***************************************************************************)
(* A path that is extended stays a path.                                   *)
(***************************************************************************)
LEMMA ExtendedArePaths ==
    ASSUME NEW c, NEW s, NEW ps \in SUBSET PathsFrom(c, s)
    PROVE  Extended(c, ps) \subseteq PathsFrom(c, s)
<1> SUFFICES ASSUME NEW q \in Extended(c, ps) PROVE q \in PathsFrom(c, s)
    OBVIOUS
<1>a. PICK p \in ps : \E n \in Neighbors(c, p[Len(p)]) : q = Append(p, n)
    BY DEF Extended
<1>b. PICK n \in Neighbors(c, p[Len(p)]) : q = Append(p, n)
    BY <1>a
<1>1. /\ p \in Seq(Nodes) /\ Len(p) \in Nat \ {0} /\ p[1] = s
      /\ \A k \in 1..Len(p) - 1 : p[k + 1] \in Neighbors(c, p[k])
    BY DEF PathsFrom
<1>2. n \in Nodes
    BY DEF Neighbors
<1>3. /\ q \in Seq(Nodes) /\ Len(q) = Len(p) + 1 /\ q[Len(p) + 1] = n
      /\ \A k \in 1..Len(p) : q[k] = p[k]
    BY <1>b, <1>1, <1>2
<1>4. ASSUME NEW k \in 1..Len(q) - 1 PROVE q[k + 1] \in Neighbors(c, q[k])
    <2>1. CASE k = Len(p)
        BY <1>1, <1>3, <2>1
    <2>2. CASE k # Len(p)
        BY <1>1, <1>3, <1>4, <2>2
    <2> QED BY <2>1, <2>2
<1> QED BY <1>1, <1>3, <1>4 DEF PathsFrom

(***************************************************************************)
(* The recursive function of SimpleRoutes exists.                          *)
(***************************************************************************)
IsWithin(c, s, m, w) ==
    w = [k \in 0..m |-> IF k = 0 THEN {<<s>>}
                        ELSE LET ps == w[k - 1] IN ps \cup Extended(c, ps)]

LEMMA WithinExists ==
    ASSUME NEW c, NEW s, NEW m \in Nat
    PROVE  \E w : IsWithin(c, s, m, w)
<1> DEFINE S == {n \in Nat : \E w : IsWithin(c, s, n, w)}
<1>1. 0 \in S
    <2>1. IsWithin(c, s, 0, [k \in 0..0 |-> {<<s>>}])
        BY DEF IsWithin
    <2> QED BY <2>1
<1>2. ASSUME NEW n \in Nat, n \in S PROVE n + 1 \in S
    <2>1. PICK w : IsWithin(c, s, n, w)
        BY <1>2
    <2> DEFINE v == [k \in 0..n + 1 |-> IF k = n + 1
                                        THEN w[n] \cup Extended(c, w[n])
                                        ELSE w[k]]
    <2>2. ASSUME NEW k \in 0..n + 1
          PROVE  v[k] = IF k = 0 THEN {<<s>>}
                        ELSE LET ps == v[k - 1] IN ps \cup Extended(c, ps)
        <3>1. CASE k = n + 1
            BY <3>1
        <3>2. CASE k # n + 1
            <4>1. k \in 0..n /\ v[k] = w[k]
                BY <3>2
            <4>2. w[k] = IF k = 0 THEN {<<s>>}
                         ELSE LET ps == w[k - 1] IN ps \cup Extended(c, ps)
                BY <2>1, <4>1 DEF IsWithin
            <4>3. k # 0 => v[k - 1] = w[k - 1]
                BY <4>1
            <4> QED BY <4>1, <4>2, <4>3
        <3> QED BY <3>1, <3>2
    <2>3. IsWithin(c, s, n + 1, v)
        BY <2>2 DEF IsWithin
    <2>4. \E u : IsWithin(c, s, n + 1, u)
        <3> HIDE DEF v
        <3> QED BY <2>3
    <2> QED BY <2>4
<1> HIDE DEF S
<1>3. m \in S
    BY <1>1, <1>2, SetInduction
<1> QED BY <1>3 DEF S

(***************************************************************************)
(* SimpleRoutes holds routes only.                                         *)
(***************************************************************************)
LEMMA SimpleRoutesAreRoutes ==
    ASSUME NEW c, NEW s \in Nodes, NEW t, NEW q \in SimpleRoutes(c, s, t)
    PROVE  Len(q) \in Nat /\ IsRoute(c, s, t, q)
<1> DEFINE m == Cardinality(Nodes) - 1
           w == CHOOSE v : IsWithin(c, s, m, v)
<1>1. m \in Nat
    BY NodesAssumption, FS_CardinalityType, FS_EmptySet
<1>2. IsWithin(c, s, m, w)
    BY <1>1, WithinExists
<1>3. SimpleRoutes(c, s, t) = {p \in w[m] : p[Len(p)] = t}
    BY DEF SimpleRoutes, IsWithin
<1> HIDE DEF m, w
<1> DEFINE S == {k \in Nat : k <= m => w[k] \subseteq PathsFrom(c, s)}
<1>4. 0 \in S
    <2>1. <<s>> \in PathsFrom(c, s)
        BY DEF PathsFrom
    <2> QED BY <1>1, <1>2, <2>1 DEF IsWithin
<1>5. ASSUME NEW n \in Nat, n \in S PROVE n + 1 \in S
    <2> SUFFICES ASSUME n + 1 <= m PROVE w[n + 1] \subseteq PathsFrom(c, s)
        OBVIOUS
    <2>1. w[n + 1] = w[n] \cup Extended(c, w[n])
        <3>1. n + 1 \in 0..m /\ n + 1 # 0 /\ (n + 1) - 1 = n
            BY <1>1
        <3>2. \A k \in 0..m : k # 0 => w[k] = w[k - 1] \cup Extended(c, w[k - 1])
            BY <1>2 DEF IsWithin
        <3> QED BY <3>1, <3>2
    <2>2. w[n] \subseteq PathsFrom(c, s)
        BY <1>1, <1>5
    <2> QED BY <2>1, <2>2, ExtendedArePaths
<1>6. m \in S
    <2> HIDE DEF S
    <2> QED BY <1>1, <1>4, <1>5, SetInduction
<1>7. q \in PathsFrom(c, s) /\ q[Len(q)] = t
    BY <1>1, <1>3, <1>6
<1> QED BY <1>7 DEF PathsFrom, IsRoute

(***************************************************************************)
(* A route of SimpleRoutes has no more systems than there are.             *)
(***************************************************************************)
LEMMA SimpleRoutesAreShort ==
    ASSUME NEW c, NEW s \in Nodes, NEW t, NEW q \in SimpleRoutes(c, s, t)
    PROVE  Len(q) <= Cardinality(Nodes)
<1> DEFINE m == Cardinality(Nodes) - 1
           w == CHOOSE v : IsWithin(c, s, m, v)
<1>1. m \in Nat /\ Cardinality(Nodes) = m + 1
    BY NodesAssumption, FS_CardinalityType, FS_EmptySet
<1>2. IsWithin(c, s, m, w)
    BY <1>1, WithinExists
<1>3. q \in w[m]
    BY DEF SimpleRoutes, IsWithin
<1> HIDE DEF m, w
<1> DEFINE Short(k) == {p \in Seq(Nodes) : Len(p) <= k + 1}
           S == {k \in Nat : k <= m => w[k] \subseteq Short(k)}
<1>4. 0 \in S
    <2>1. w[0] = {<<s>>}
        BY <1>1, <1>2 DEF IsWithin
    <2>2. <<s>> \in Seq(Nodes) /\ Len(<<s>>) = 1
        OBVIOUS
    <2>3. w[0] \subseteq Short(0)
        BY <2>1, <2>2
    <2> QED BY <2>3
<1>5. ASSUME NEW n \in Nat, n \in S PROVE n + 1 \in S
    <2> SUFFICES ASSUME n + 1 <= m, NEW p \in w[n + 1] PROVE p \in Short(n + 1)
        OBVIOUS
    <2>1. w[n + 1] = w[n] \cup Extended(c, w[n])
        <3>1. n + 1 \in 0..m /\ n + 1 # 0 /\ (n + 1) - 1 = n
            BY <1>1
        <3>2. \A k \in 0..m : k # 0 => w[k] = w[k - 1] \cup Extended(c, w[k - 1])
            BY <1>2 DEF IsWithin
        <3> QED BY <3>1, <3>2
    <2>2. w[n] \subseteq Short(n)
        BY <1>1, <1>5
    <2>3. CASE p \in w[n]
        BY <2>2, <2>3
    <2>4. CASE p \in Extended(c, w[n])
        <3>1. PICK r \in w[n] : \E x \in Neighbors(c, r[Len(r)]) : p = Append(r, x)
            BY <2>4 DEF Extended
        <3>2. PICK x \in Neighbors(c, r[Len(r)]) : p = Append(r, x)
            BY <3>1
        <3>3. r \in Seq(Nodes) /\ Len(r) <= n + 1 /\ x \in Nodes
            BY <2>2, NeighborsAreNodes
        <3> QED BY <3>2, <3>3
    <2> QED BY <2>1, <2>3, <2>4
<1>6. m \in S
    <2> HIDE DEF S
    <2> QED BY <1>1, <1>4, <1>5, SetInduction
<1>7. q \in Short(m)
    BY <1>1, <1>3, <1>6
<1> QED BY <1>1, <1>7

\* A system comes twice on a path.
Repeats(p) == \E i, j \in 1..Len(p) : i < j /\ p[i] = p[j]

(***************************************************************************)
(* To stay is a path.                                                      *)
(***************************************************************************)
LEMMA StayingIsAPath ==
    ASSUME NEW c, NEW s \in Nodes
    PROVE  /\ <<s>> \in PathsFrom(c, s) /\ ~Repeats(<<s>>)
           /\ Len(<<s>>) = 1 /\ <<s>>[1] = s
<1>1. <<s>> \in Seq(Nodes) /\ Len(<<s>>) = 1 /\ <<s>>[1] = s
    OBVIOUS
<1>2. <<s>> \in PathsFrom(c, s)
    BY DEF PathsFrom
<1>3. ~Repeats(<<s>>)
    BY DEF Repeats
<1> QED BY <1>1, <1>2, <1>3

(***************************************************************************)
(* No route of SimpleRoutes enters a system twice.                         *)
(***************************************************************************)
LEMMA SimpleRoutesRepeatNothing ==
    ASSUME NEW c, NEW s \in Nodes, NEW t, NEW q \in SimpleRoutes(c, s, t)
    PROVE  ~Repeats(q)
<1> DEFINE m == Cardinality(Nodes) - 1
           w == CHOOSE v : IsWithin(c, s, m, v)
<1>1. m \in Nat
    BY NodesAssumption, FS_CardinalityType, FS_EmptySet
<1>2. IsWithin(c, s, m, w)
    BY <1>1, WithinExists
<1>3. q \in w[m]
    BY DEF SimpleRoutes, IsWithin
<1> HIDE DEF m, w
<1> DEFINE Simple == {p \in Seq(Nodes) : ~Repeats(p)}
           S == {k \in Nat : k <= m => w[k] \subseteq Simple}
<1>4. 0 \in S
    <2>1. w[0] = {<<s>>}
        BY <1>1, <1>2 DEF IsWithin
    <2>2. <<s>> \in Seq(Nodes) /\ Len(<<s>>) = 1
        OBVIOUS
    <2>3. ~Repeats(<<s>>)
        BY <2>2 DEF Repeats
    <2> QED BY <2>1, <2>2, <2>3
<1>5. ASSUME NEW n \in Nat, n \in S PROVE n + 1 \in S
    <2> SUFFICES ASSUME n + 1 <= m, NEW p \in w[n + 1] PROVE p \in Simple
        OBVIOUS
    <2>1. w[n + 1] = w[n] \cup Extended(c, w[n])
        <3>1. n + 1 \in 0..m /\ n + 1 # 0 /\ (n + 1) - 1 = n
            BY <1>1
        <3>2. \A k \in 0..m : k # 0 => w[k] = w[k - 1] \cup Extended(c, w[k - 1])
            BY <1>2 DEF IsWithin
        <3> QED BY <3>1, <3>2
    <2>2. w[n] \subseteq Simple
        BY <1>1, <1>5
    <2>3. CASE p \in Extended(c, w[n])
        <3>1. PICK r \in w[n] : \E x \in Neighbors(c, r[Len(r)]) :
                  p = Append(r, x) /\ \A k \in 1..Len(r) : r[k] # x
            BY <2>3 DEF Extended
        <3>2. PICK x \in Neighbors(c, r[Len(r)]) :
                  p = Append(r, x) /\ \A k \in 1..Len(r) : r[k] # x
            BY <3>1
        <3>3. r \in Seq(Nodes) /\ ~Repeats(r) /\ x \in Nodes
            BY <2>2, NeighborsAreNodes
        <3>4. /\ p \in Seq(Nodes) /\ Len(p) = Len(r) + 1 /\ Len(r) \in Nat
              /\ p[Len(r) + 1] = x /\ \A k \in 1..Len(r) : p[k] = r[k]
            BY <3>2, <3>3
        <3>5. ASSUME NEW i \in 1..Len(p), NEW j \in 1..Len(p), i < j, p[i] = p[j]
              PROVE  FALSE
            <4>1. i \in 1..Len(r) /\ p[i] = r[i]
                BY <3>4, <3>5
            <4>2. CASE j = Len(r) + 1
                BY <3>2, <3>4, <3>5, <4>1, <4>2
            <4>3. CASE j # Len(r) + 1
                <5>1. j \in 1..Len(r) /\ p[j] = r[j]
                    BY <3>4, <4>3
                <5> QED BY <3>3, <3>5, <4>1, <5>1 DEF Repeats
            <4> QED BY <4>2, <4>3
        <3> QED BY <3>4, <3>5 DEF Repeats
    <2> QED BY <2>1, <2>2, <2>3
<1>6. m \in S
    <2> HIDE DEF S
    <2> QED BY <1>1, <1>4, <1>5, SetInduction
<1> QED BY <1>1, <1>3, <1>6

(***************************************************************************)
(* A route that enters no system twice is one of SimpleRoutes.             *)
(***************************************************************************)
LEMMA SimplePathsAreShort ==
    ASSUME NEW p \in Seq(Nodes), ~Repeats(p)
    PROVE  Len(p) <= Cardinality(Nodes)
<1>1. Len(p) \in Nat /\ p \in [1..Len(p) -> Nodes]
    OBVIOUS
<1>2. ASSUME NEW i \in 1..Len(p), NEW j \in 1..Len(p), p[i] = p[j] PROVE i = j
    BY <1>1, <1>2 DEF Repeats
<1>3. p \in Injection(1..Len(p), Nodes)
    BY <1>1, <1>2 DEF Injection, IsInjective
<1>4. Cardinality(1..Len(p)) = Len(p)
    BY <1>1, FS_Interval, SMTT(30)
<1> QED BY <1>3, <1>4, FS_Injection, NodesAssumption

LEMMA SimplePathsAreWithin ==
    ASSUME NEW c, NEW s \in Nodes, NEW m \in Nat, NEW w, IsWithin(c, s, m, w),
           NEW n \in Nat, n <= m,
           NEW p \in PathsFrom(c, s), ~Repeats(p), Len(p) <= n + 1
    PROVE  p \in w[n]
<1> DEFINE Ok(k) == \A q \in PathsFrom(c, s) : ~Repeats(q) /\ Len(q) <= k + 1 => q \in w[k]
           S == {k \in Nat : k <= m => Ok(k)}
<1>1. 0 \in S
    <2> SUFFICES ASSUME NEW q \in PathsFrom(c, s), Len(q) <= 0 + 1 PROVE q \in w[0]
        OBVIOUS
    <2>1. q \in Seq(Nodes) /\ Len(q) > 0 /\ q[1] = s
        BY DEF PathsFrom
    <2>2. Len(q) = 1
        <3>1. Len(q) \in Nat /\ Len(q) > 0
            BY <2>1
        <3>2. \A x \in Nat : x > 0 /\ x <= 0 + 1 => x = 1
            OBVIOUS
        <3> QED BY <3>1, <3>2
    <2>3. q = <<s>>
        <3>1. <<s>> \in Seq(Nodes) /\ Len(<<s>>) = 1 /\ <<s>>[1] = s
            OBVIOUS
        <3> QED BY <2>1, <2>2, <3>1, SeqEqual
    <2>4. w[0] = {<<s>>}
        BY DEF IsWithin
    <2> QED BY <2>3, <2>4
<1>2. ASSUME NEW k \in Nat, k \in S PROVE k + 1 \in S
    <2> SUFFICES ASSUME k + 1 <= m, NEW q \in PathsFrom(c, s), ~Repeats(q),
                        Len(q) <= k + 2
                 PROVE  q \in w[k + 1]
        OBVIOUS
    <2>1. w[k + 1] = w[k] \cup Extended(c, w[k])
        <3>1. k + 1 \in 0..m /\ k + 1 # 0 /\ (k + 1) - 1 = k
            OBVIOUS
        <3>2. \A j \in 0..m : j # 0 => w[j] = w[j - 1] \cup Extended(c, w[j - 1])
            BY DEF IsWithin
        <3> QED BY <3>1, <3>2
    <2>2. Ok(k)
        BY <1>2
    <2>3. /\ q \in Seq(Nodes) /\ Len(q) \in Nat /\ Len(q) > 0 /\ q[1] = s
          /\ \A j \in 1..Len(q) - 1 : q[j + 1] \in Neighbors(c, q[j])
        BY DEF PathsFrom
    <2>4. CASE Len(q) <= k + 1
        BY <2>1, <2>2, <2>4
    <2>5. CASE Len(q) = k + 2
        <3> DEFINE r == SubSeq(q, 1, k + 1)
                   x == q[k + 2]
        <3>1. /\ r \in Seq(Nodes) /\ Len(r) = k + 1
              /\ \A j \in 1..k + 1 : r[j] = q[j]
            BY <2>3, <2>5
        <3>2. x \in Nodes /\ q = Append(r, x)
            BY <2>3, <2>5, <3>1
        <3> HIDE DEF r, x
        <3>3. r \in PathsFrom(c, s)
            BY <2>3, <2>5, <3>1 DEF PathsFrom
        <3>4. ~Repeats(r)
            BY <2>5, <3>1 DEF Repeats
        <3>5. r \in w[k]
            BY <2>2, <3>1, <3>3, <3>4
        <3>6. x \in Neighbors(c, r[Len(r)])
            BY <2>3, <2>5, <3>1 DEF x
        <3>7. \A j \in 1..Len(r) : r[j] # x
            BY <2>5, <3>1 DEF Repeats, x
        <3>8. q \in Extended(c, w[k])
            BY <3>2, <3>5, <3>6, <3>7 DEF Extended
        <3> QED BY <2>1, <3>8
    <2> QED BY <2>3, <2>4, <2>5
<1>3. n \in S
    <2> HIDE DEF S
    <2> QED BY <1>1, <1>2, SetInduction
<1> QED BY <1>3

LEMMA SimpleRoutesAreAll ==
    ASSUME NEW c, NEW s \in Nodes, NEW p \in PathsFrom(c, s), ~Repeats(p)
    PROVE  p \in SimpleRoutes(c, s, p[Len(p)])
<1> DEFINE m == Cardinality(Nodes) - 1
           w == CHOOSE v : IsWithin(c, s, m, v)
<1>1. m \in Nat /\ Cardinality(Nodes) = m + 1
    BY NodesAssumption, FS_CardinalityType, FS_EmptySet
<1>2. IsWithin(c, s, m, w)
    BY <1>1, WithinExists
<1>3. SimpleRoutes(c, s, p[Len(p)]) = {q \in w[m] : q[Len(q)] = p[Len(p)]}
    BY DEF SimpleRoutes, IsWithin
<1>4. p \in Seq(Nodes) /\ Len(p) <= m + 1
    <2>1. p \in Seq(Nodes)
        BY DEF PathsFrom
    <2>2. Len(p) <= Cardinality(Nodes) /\ Cardinality(Nodes) = m + 1
        BY <1>1, <2>1, SimplePathsAreShort
    <2> QED BY <2>1, <2>2
<1> HIDE DEF m, w
<1>5. p \in w[m]
    BY <1>1, <1>2, <1>4, SimplePathsAreWithin
<1> QED BY <1>3, <1>5

(***************************************************************************)
(* A path that enters no system twice reaches the neighbours of its end in *)
(* one step more at most, and enters none twice on the way.                *)
(***************************************************************************)
LEMMA SimplePathsExtend ==
    ASSUME NEW c, NEW s, NEW p \in PathsFrom(c, s), ~Repeats(p),
           NEW n \in Neighbors(c, p[Len(p)])
    PROVE  \E q \in PathsFrom(c, s) :
               ~Repeats(q) /\ q[Len(q)] = n /\ Len(q) <= Len(p) + 1
<1>1. /\ p \in Seq(Nodes) /\ Len(p) \in Nat /\ Len(p) > 0 /\ p[1] = s /\ n \in Nodes
      /\ \A k \in 1..Len(p) : p[k] \in Nodes
      /\ \A k \in 1..Len(p) - 1 : p[k + 1] \in Neighbors(c, p[k])
    <2>1. /\ p \in Seq(Nodes) /\ Len(p) > 0 /\ p[1] = s
          /\ \A k \in 1..Len(p) - 1 : p[k + 1] \in Neighbors(c, p[k])
        BY DEF PathsFrom
    <2>2. Len(p) \in Nat /\ \A k \in 1..Len(p) : p[k] \in Nodes
        BY <2>1
    <2>3. n \in Nodes
        BY NeighborsAreNodes
    <2> QED BY <2>1, <2>2, <2>3
<1>2. CASE \E k \in 1..Len(p) : p[k] = n
    <2>1. PICK k \in 1..Len(p) : p[k] = n
        BY <1>2
    <2> DEFINE q == SubSeq(p, 1, k)
    <2>2. q \in Seq(Nodes) /\ Len(q) = k /\ \A i \in 1..k : q[i] = p[i]
        BY <1>1
    <2> HIDE DEF q
    <2>3. q \in PathsFrom(c, s)
        BY <1>1, <2>2, SMTT(20) DEF PathsFrom
    <2>4. ~Repeats(q)
        BY <1>1, <2>2 DEF Repeats
    <2> QED BY <1>1, <2>1, <2>2, <2>3, <2>4
<1>3. CASE \A k \in 1..Len(p) : p[k] # n
    <2> DEFINE q == Append(p, n)
    <2>1. /\ q \in Seq(Nodes) /\ Len(q) = Len(p) + 1 /\ q[Len(p) + 1] = n
          /\ \A i \in 1..Len(p) : q[i] = p[i]
        BY <1>1
    <2> HIDE DEF q
    <2>2. \A k \in 1..Len(q) - 1 : q[k + 1] \in Neighbors(c, q[k])
        <3> SUFFICES ASSUME NEW k \in 1..Len(p) PROVE q[k + 1] \in Neighbors(c, q[k])
            BY <1>1, <2>1
        <3>1. CASE k = Len(p)
            BY <2>1, <3>1
        <3>2. CASE k # Len(p)
            BY <1>1, <2>1, <3>2
        <3> QED BY <3>1, <3>2
    <2>3. q \in PathsFrom(c, s)
        BY <1>1, <2>1, <2>2 DEF PathsFrom
    <2>4. ~Repeats(q)
        <3> SUFFICES ASSUME NEW i \in 1..Len(p) + 1, NEW j \in 1..Len(p) + 1,
                            i < j, q[i] = q[j]
                     PROVE  FALSE
            BY <2>1 DEF Repeats
        <3>1. i \in 1..Len(p) /\ q[i] = p[i]
            <4>1. i \in 1..Len(p)
                BY <1>1
            <4> QED BY <2>1, <4>1
        <3>2. CASE j = Len(p) + 1
            BY <1>3, <2>1, <3>1, <3>2
        <3>3. CASE j # Len(p) + 1
            <4>1. j \in 1..Len(p)
                BY <1>1, <3>3
            <4>2. q[j] = p[j] /\ p[i] = p[j]
                BY <2>1, <3>1, <4>1
            <4> QED BY <3>1, <4>1, <4>2 DEF Repeats
        <3> QED BY <3>2, <3>3
    <2> QED BY <1>1, <2>1, <2>3, <2>4
<1> QED BY <1>2, <1>3

(***************************************************************************)
(* When every step costs 1 and the steps of H a penalty more, the cost is  *)
(* the number of steps and one penalty for each member of H.               *)
(***************************************************************************)
LEMMA CostSplits ==
    ASSUME NEW c, NEW p, Len(p) \in Nat, Len(p) > 0,
           NEW penalty \in Nat, NEW H \in SUBSET (1..Len(p) - 1),
           \A k \in H : EdgeWeight(c, p[k], p[k + 1]) = 1 + penalty,
           \A k \in (1..Len(p) - 1) \ H : EdgeWeight(c, p[k], p[k + 1]) = 1
    PROVE  Cost(c, p) = (Len(p) - 1) + penalty * Cardinality(H)
<1>0. \A h \in H : h \in Nat /\ h >= 1 /\ h <= Len(p) - 1
    OBVIOUS
<1>1. PICK f : IsRunningCost(c, p, f) /\ Cost(c, p) = f[Len(p)]
    BY CostIsRunning
<1> DEFINE upTo(n) == {k \in H : k <= n}
           S == {n \in Nat : n < Len(p) =>
                    /\ IsFiniteSet(upTo(n))
                    /\ f[n + 1] = n + penalty * Cardinality(upTo(n))}
<1>2. 0 \in S
    <2>1. upTo(0) = {}
        <3>1. \A h \in H : ~(h <= 0)
            BY <1>0
        <3> QED BY <3>1
    <2>2. IsFiniteSet(upTo(0)) /\ Cardinality(upTo(0)) = 0
        BY <2>1, FS_EmptySet
    <2>3. f[1] = 0
        <3>1. 1 \in 1..Len(p)
            OBVIOUS
        <3> QED BY <1>1, <3>1, RunningCostGrows
    <2> HIDE DEF upTo
    <2> QED BY <2>2, <2>3
<1>3. ASSUME NEW n \in Nat, n \in S PROVE n + 1 \in S
    <2> SUFFICES ASSUME n + 1 < Len(p)
                 PROVE  /\ IsFiniteSet(upTo(n + 1))
                        /\ f[(n + 1) + 1] = (n + 1) + penalty * Cardinality(upTo(n + 1))
        OBVIOUS
    <2> DEFINE k == n + 1
    <2>1. k \in 1..Len(p) - 1 /\ k \in 1..Len(p) /\ k < Len(p)
        OBVIOUS
    <2>2. IsFiniteSet(upTo(n)) /\ f[k] = n + penalty * Cardinality(upTo(n))
        BY <1>3
    <2>3. Cardinality(upTo(n)) \in Nat
        BY <2>2, FS_CardinalityType
    <2>4. f[k + 1] = f[k] + EdgeWeight(c, p[k], p[k + 1])
        BY <1>1, <2>1, RunningCostGrows
    <2>5. CASE k \in H
        <3>1. upTo(k) = upTo(n) \cup {k} /\ k \notin upTo(n)
            <4>1. \A h \in H : h <= k <=> h <= n \/ h = k
                BY <1>0
            <4>2. ~(k <= n)
                OBVIOUS
            <4> HIDE DEF k
            <4> QED BY <2>5, <4>1, <4>2
        <3>2. /\ IsFiniteSet(upTo(k))
              /\ Cardinality(upTo(k)) = Cardinality(upTo(n)) + 1
            <4> HIDE DEF upTo, k
            <4> QED BY <2>2, <3>1, FS_AddElement
        <3> HIDE DEF upTo
        <3>3. penalty * (Cardinality(upTo(n)) + 1)
                  = penalty * Cardinality(upTo(n)) + penalty
            BY <2>3
        <3>4. penalty * Cardinality(upTo(n)) \in Nat
            BY <2>3
        <3> QED BY <2>1, <2>2, <2>4, <2>5, <3>2, <3>3, <3>4
    <2>6. CASE k \notin H
        <3>1. upTo(k) = upTo(n)
            <4>1. \A h \in H : h # k => (h <= k <=> h <= n)
                BY <1>0
            <4> HIDE DEF k
            <4> QED BY <2>6, <4>1
        <3> HIDE DEF upTo
        <3>2. penalty * Cardinality(upTo(n)) \in Nat
            BY <2>3
        <3> QED BY <2>1, <2>2, <2>4, <2>6, <3>1, <3>2
    <2> QED BY <2>5, <2>6
<1>4. Len(p) - 1 \in S
    <2>1. Len(p) - 1 \in Nat
        OBVIOUS
    <2> HIDE DEF S
    <2> QED BY <1>2, <1>3, <2>1, SetInduction
<1>5. upTo(Len(p) - 1) = H
    BY <1>0
<1>6. IsFiniteSet(H) /\ f[(Len(p) - 1) + 1] = (Len(p) - 1) + penalty * Cardinality(H)
    <2>1. Len(p) - 1 < Len(p)
        OBVIOUS
    <2> HIDE DEF upTo
    <2> QED BY <1>4, <1>5, <2>1
<1> QED BY <1>1, <1>6

(***************************************************************************)
(* The connections of an overlay are of a kind, never gates.               *)
(***************************************************************************)
LEMMA OverlayKinds ==
    ASSUME NEW c, IsContext(c), NEW e \in DOMAIN c.overlay
    PROVE  c.overlay[e] \in EdgeKinds
<1>1. /\ DOMAIN c.overlay \subseteq Nodes \X Nodes
      /\ \A a, b \in Nodes :
            <<a, b>> \in DOMAIN c.overlay => c.overlay[<<a, b>>] \in EdgeKinds
    BY DEF IsContext
<1>2. PICK a \in Nodes, b \in Nodes : e = <<a, b>>
    BY <1>1
<1> QED BY <1>1, <1>2

----------------------------------------------------------------------------
(* Cheapest routes.                                                        *)

(***************************************************************************)
(* They are routes that enter no system twice, and none of those costs     *)
(* less.                                                                   *)
(***************************************************************************)
LEMMA CheapestAreRoutes ==
    ASSUME NEW c, NEW s \in Nodes, NEW t, NEW p \in CheapestRoutes(c, s, t)
    PROVE  /\ IsRoute(c, s, t, p) /\ Len(p) \in Nat \ {0} /\ ~Repeats(p)
           /\ \A q \in SimpleRoutes(c, s, t) : Cost(c, p) <= Cost(c, q)
<1>1. /\ p \in SimpleRoutes(c, s, t)
      /\ \A q \in SimpleRoutes(c, s, t) : Cost(c, p) <= Cost(c, q)
    BY DEF CheapestRoutes
<1>2. Len(p) \in Nat /\ IsRoute(c, s, t, p) /\ ~Repeats(p)
    BY <1>1, SimpleRoutesAreRoutes, SimpleRoutesRepeatNothing
<1> QED BY <1>1, <1>2 DEF IsRoute

(***************************************************************************)
(* A route ends where it starts or in a system that is not avoided.        *)
(***************************************************************************)
LEMMA RoutesEndOpen ==
    ASSUME NEW c, NEW s \in Nodes, NEW t, NEW p \in CheapestRoutes(c, s, t)
    PROVE  t = s \/ t \notin c.avoid
<1>1. IsRoute(c, s, t, p) /\ Len(p) \in Nat \ {0}
    BY CheapestAreRoutes
<1>2. /\ p[1] = s /\ p[Len(p)] = t
      /\ \A k \in 1..Len(p) - 1 : p[k + 1] \in Neighbors(c, p[k])
    BY <1>1 DEF IsRoute
<1>3. CASE Len(p) = 1
    BY <1>2, <1>3
<1>4. CASE Len(p) # 1
    <2>1. Len(p) - 1 \in 1..Len(p) - 1 /\ (Len(p) - 1) + 1 = Len(p)
        <3>1. \A m \in Nat \ {0} : m # 1 => m - 1 \in 1..m - 1 /\ (m - 1) + 1 = m
            OBVIOUS
        <3>2. Len(p) \in Nat \ {0}
            BY <1>1
        <3> QED BY <1>4, <3>1, <3>2
    <2>2. t \in Neighbors(c, p[Len(p) - 1])
        BY <1>2, <2>1
    <2> QED BY <2>2 DEF Neighbors
<1> QED BY <1>3, <1>4

(***************************************************************************)
(* When there is a route there is a cheapest one: the least of a set of    *)
(* naturals exists.                                                        *)
(***************************************************************************)
LEMMA CheapestExists ==
    ASSUME NEW c, NEW s \in Nodes, NEW t, SimpleRoutes(c, s, t) # {}
    PROVE  CheapestRoutes(c, s, t) # {}
<1> DEFINE T == {Cost(c, q) : q \in SimpleRoutes(c, s, t)}
<1>1. ASSUME NEW q \in SimpleRoutes(c, s, t) PROVE Cost(c, q) \in Nat
    <2>1. Len(q) \in Nat /\ Len(q) > 0
        BY SimpleRoutesAreRoutes DEF IsRoute
    <2>2. PICK f : IsRunningCost(c, q, f) /\ Cost(c, q) = f[Len(q)]
        BY <2>1, CostIsRunning
    <2>3. Len(q) \in 1..Len(q)
        BY <2>1
    <2>4. f[Len(q)] \in Nat
        BY <2>1, <2>2, <2>3, RunningCostGrows
    <2> QED BY <2>2, <2>4
<1>2. PICK x \in T : \A y \in T : x <= y
    <2>1. T \subseteq Nat /\ T # {}
        BY <1>1
    <2> HIDE DEF T
    <2> QED BY <2>1, LeastMember
<1>3. PICK q \in SimpleRoutes(c, s, t) : Cost(c, q) = x
    OBVIOUS
<1> QED BY <1>2, <1>3 DEF CheapestRoutes
=============================================================================
