---------------------------- MODULE OverlayProofs ----------------------------
(***************************************************************************)
(* Facts about the pure operators that the requests are served with: the   *)
(* lookups of a build, the overlay, the hulls and the distances.           *)
(***************************************************************************)
EXTENDS Overlay, JumpRange, RouteProofs

----------------------------------------------------------------------------
(* Lookups.                                                                *)

(***************************************************************************)
(* The last position of a key.                                             *)
(***************************************************************************)
LEMMA LastByIsLast ==
    ASSUME NEW keys, NEW n \in Nat, DOMAIN keys = 1..n, NEW k \in ToSet(keys)
    PROVE  /\ DOMAIN LastBy(keys) = ToSet(keys)
           /\ LastBy(keys)[k] \in 1..n
           /\ keys[LastBy(keys)[k]] = k
<1> DEFINE T == {n - i : i \in {j \in 1..n : keys[j] = k}}
<1>1. PICK x \in T : \A y \in T : x <= y
    <2>1. T \subseteq Nat /\ T # {}
        BY DEF ToSet
    <2> HIDE DEF T
    <2> QED BY <2>1, LeastMember
<1>2. PICK i \in 1..n : keys[i] = k /\ x = n - i
    BY <1>1
<1>3. ASSUME NEW j \in 1..n, j > i, keys[j] = k PROVE FALSE
    <2>1. n - j \in T
        BY <1>3
    <2>2. n - i <= n - j
        BY <1>1, <1>2, <2>1
    <2> QED BY <1>2, <1>3, <2>2
<1>4. \E m \in DOMAIN keys :
          keys[m] = k /\ \A j \in DOMAIN keys : j > m => keys[j] # k
    BY <1>2, <1>3
<1>5. LastBy(keys)[k] = CHOOSE m \in DOMAIN keys :
          keys[m] = k /\ \A j \in DOMAIN keys : j > m => keys[j] # k
    BY DEF LastBy
<1>6. /\ LastBy(keys)[k] \in DOMAIN keys
      /\ keys[LastBy(keys)[k]] = k
    BY <1>4, <1>5
<1> QED BY <1>6 DEF LastBy

(***************************************************************************)
(* What a reference means: the positions in the system list that it names. *)
(***************************************************************************)
Means(systems, ref, i) ==
    IF ref.by = "id" THEN systems[i].id = ref.key
                     ELSE Lower[systems[i].name] = Lower[ref.key]

(***************************************************************************)
(* A lookup finds a system that the reference means, if there is one.      *)
(***************************************************************************)
LEMMA LookupFinds ==
    ASSUME NEW raw, NEW b, NEW n \in Nat, DOMAIN raw.systems = 1..n, NEW ref
    PROVE  LET m == ResolveSystem(BuildGraph(raw, b), ref)
           IN  /\ m = Unresolved \/ (m \in 0..n - 1 /\ Means(raw.systems, ref, m + 1))
               /\ m = Unresolved => \A i \in 1..n : ~Means(raw.systems, ref, i)
<1> DEFINE systems == raw.systems
           g  == BuildGraph(raw, b)
           ks == IF ref.by = "id" THEN [i \in DOMAIN systems |-> systems[i].id]
                                  ELSE LowerNames(systems)
           k  == IF ref.by = "id" THEN ref.key ELSE Lower[ref.key]
           m  == ResolveSystem(g, ref)
<1>1. /\ DOMAIN ks = 1..n
      /\ \A i \in 1..n : ks[i] = k <=> Means(systems, ref, i)
    BY DEF LowerNames, Means
<1>2. m = IF k \in DOMAIN LastBy(ks) THEN LastBy(ks)[k] - 1 ELSE Unresolved
    BY DEF ResolveSystem, BuildGraph, IdToIdx, NameToIdx
<1>3. DOMAIN LastBy(ks) = ToSet(ks)
    BY DEF LastBy
<1>4. ToSet(ks) = {ks[i] : i \in 1..n}
    <2> HIDE DEF ks
    <2> QED BY <1>1 DEF ToSet
<1> HIDE DEF ks, m, k
<1>5. CASE k \in ToSet(ks)
    <2>1. LastBy(ks)[k] \in 1..n /\ ks[LastBy(ks)[k]] = k
        BY <1>1, <1>5, LastByIsLast
    <2>2. m = LastBy(ks)[k] - 1
        BY <1>2, <1>3, <1>5
    <2>3. m \in 0..n - 1 /\ m + 1 = LastBy(ks)[k]
        BY <2>1, <2>2
    <2>4. Means(systems, ref, m + 1)
        BY <1>1, <2>1, <2>3
    <2> QED BY <2>3, <2>4 DEF Unresolved, m
<1>6. CASE k \notin ToSet(ks)
    BY <1>1, <1>2, <1>3, <1>4, <1>6 DEF m
<1> QED BY <1>5, <1>6

(***************************************************************************)
(* On a parsed map, the systems of which are its nodes, it is the only one *)
(* that the reference means.                                               *)
(***************************************************************************)
LEMMA ParsedFacts ==
    ASSUME NEW raw, IsParsed(raw)
    PROVE  /\ Len(raw.systems) \in Nat
           /\ DOMAIN raw.systems = 1..Len(raw.systems)
           /\ \A i \in 1..Len(raw.systems) :
                  raw.systems[i] \in SystemRow /\ i - 1 \in Nodes
<1>1. raw.systems \in Seq(SystemRow) /\ \A i \in DOMAIN raw.systems : i - 1 \in Nodes
    BY DEF IsParsed
<1>2. /\ Len(raw.systems) \in Nat /\ DOMAIN raw.systems = 1..Len(raw.systems)
      /\ \A i \in 1..Len(raw.systems) : raw.systems[i] \in SystemRow
    BY <1>1
<1> QED BY <1>1, <1>2

LEMMA LookupIsUnique ==
    ASSUME NEW raw, NEW b, IsParsed(raw), NEW ref,
           NEW i \in 1..Len(raw.systems), Means(raw.systems, ref, i)
    PROVE  ResolveSystem(BuildGraph(raw, b), ref) = i - 1
<1> DEFINE n == Len(raw.systems)
           m == ResolveSystem(BuildGraph(raw, b), ref)
<1>1. n \in Nat /\ DOMAIN raw.systems = 1..n
    BY ParsedFacts
<1>2. m \in 0..n - 1 /\ Means(raw.systems, ref, m + 1)
    <2> HIDE DEF n
    <2> QED BY <1>1, LookupFinds DEF n
<1>3. m + 1 \in 1..n
    BY <1>1, <1>2
<1>4. m + 1 = i
    <2> SUFFICES ASSUME m + 1 # i PROVE FALSE
        OBVIOUS
    <2>1. /\ raw.systems[m + 1].id # raw.systems[i].id
          /\ Lower[raw.systems[m + 1].name] # Lower[raw.systems[i].name]
        <3> HIDE DEF m
        <3> QED BY <1>1, <1>3 DEF IsParsed
    <2> QED BY <1>2, <2>1 DEF Means
<1> QED BY <1>2, <1>4

(***************************************************************************)
(* The node of an id has that id, and every system is the node of its id.  *)
(***************************************************************************)
LEMMA NodeOfFacts ==
    ASSUME NEW raw, NEW b, IsParsed(raw)
    PROVE  LET g == BuildGraph(raw, b)
           IN  /\ \A id : NodeOf(g, id) # Unresolved =>
                      /\ NodeOf(g, id) \in 0..Len(raw.systems) - 1
                      /\ SystemAt(g, NodeOf(g, id)).id = id
               /\ \A i \in 1..Len(raw.systems) : NodeOf(g, raw.systems[i].id) = i - 1
               /\ \A id : id \in DOMAIN g.id_to_idx <=> NodeOf(g, id) # Unresolved
               /\ \A id \in DOMAIN g.id_to_idx : g.id_to_idx[id] = NodeOf(g, id)
<1> DEFINE g == BuildGraph(raw, b)
           Id(id) == [by |-> "id", key |-> id]
<1>1. Len(raw.systems) \in Nat /\ DOMAIN raw.systems = 1..Len(raw.systems)
    BY ParsedFacts
<1>2. \A id, i : Means(raw.systems, Id(id), i) <=> raw.systems[i].id = id
    BY DEF Means
<1>3. ASSUME NEW id, NodeOf(g, id) # Unresolved
      PROVE  /\ NodeOf(g, id) \in 0..Len(raw.systems) - 1
             /\ SystemAt(g, NodeOf(g, id)).id = id
    <2>1. NodeOf(g, id) = ResolveSystem(g, Id(id))
        BY DEF NodeOf
    <2>2. /\ NodeOf(g, id) \in 0..Len(raw.systems) - 1
          /\ Means(raw.systems, Id(id), NodeOf(g, id) + 1)
        <3> HIDE DEF Id
        <3> QED BY <1>1, <1>3, <2>1, LookupFinds
    <2>3. raw.systems[NodeOf(g, id) + 1].id = id
        BY <1>2, <2>2
    <2>4. g.systems = raw.systems
        BY DEF BuildGraph
    <2> QED BY <2>2, <2>3, <2>4 DEF SystemAt
<1>4. ASSUME NEW i \in 1..Len(raw.systems)
      PROVE  NodeOf(g, raw.systems[i].id) = i - 1
    <2>1. Means(raw.systems, Id(raw.systems[i].id), i)
        BY <1>2
    <2>2. ResolveSystem(g, Id(raw.systems[i].id)) = i - 1
        <3> HIDE DEF Id
        <3> QED BY <2>1, LookupIsUnique
    <2> QED BY <2>2 DEF NodeOf
<1>5. ASSUME NEW id
      PROVE  /\ id \in DOMAIN g.id_to_idx <=> NodeOf(g, id) # Unresolved
             /\ id \in DOMAIN g.id_to_idx => g.id_to_idx[id] = NodeOf(g, id)
    <2>1. NodeOf(g, id) = IF id \in DOMAIN g.id_to_idx THEN g.id_to_idx[id]
                                                     ELSE Unresolved
        BY DEF NodeOf, ResolveSystem
    <2> DEFINE keys == [i \in DOMAIN raw.systems |-> raw.systems[i].id]
    <2>2. ASSUME id \in DOMAIN g.id_to_idx PROVE g.id_to_idx[id] # Unresolved
        <3>1. g.id_to_idx = [k \in DOMAIN LastBy(keys) |-> LastBy(keys)[k] - 1]
            BY DEF BuildGraph, IdToIdx
        <3>2. DOMAIN LastBy(keys) = ToSet(keys) /\ DOMAIN keys = 1..Len(raw.systems)
            BY <1>1 DEF LastBy
        <3> HIDE DEF g, keys
        <3>3. LastBy(keys)[id] \in 1..Len(raw.systems)
            BY <1>1, <2>2, <3>1, <3>2, LastByIsLast
        <3>4. g.id_to_idx[id] = LastBy(keys)[id] - 1
            BY <2>2, <3>1
        <3> QED BY <1>1, <3>3, <3>4 DEF Unresolved
    <2> QED BY <2>1, <2>2
<1> QED BY <1>3, <1>4, <1>5

(***************************************************************************)
(* Two nodes have an edge in the gate graph when the file links their ids. *)
(***************************************************************************)
Linked(raw, x, y) == {<<x, y>>, <<y, x>>} \cap ToSet(raw.gate_pairs) # {}

LEMMA GatesAreLinks ==
    ASSUME NEW raw, NEW b, IsParsed(raw),
           NEW m \in 0..Len(raw.systems) - 1, NEW n \in 0..Len(raw.systems) - 1
    PROVE  LET g == BuildGraph(raw, b)
           IN  {m, n} \in g.gate_graph <=>
                   Linked(raw, SystemAt(g, m).id, SystemAt(g, n).id)
<1> DEFINE g   == BuildGraph(raw, b)
           idx == g.id_to_idx
           x   == SystemAt(g, m).id
           y   == SystemAt(g, n).id
           known == {q \in ToSet(raw.gate_pairs) : {q[1], q[2]} \subseteq DOMAIN idx}
<1>1. g.gate_graph = {{idx[p[1]], idx[p[2]]} : p \in known}
    BY DEF BuildGraph, GateGraph
<1>2. /\ x \in DOMAIN idx /\ idx[x] = m
      /\ y \in DOMAIN idx /\ idx[y] = n
    <2>1. x = raw.systems[m + 1].id /\ y = raw.systems[n + 1].id
        BY DEF SystemAt, BuildGraph
    <2>2. /\ m + 1 \in 1..Len(raw.systems) /\ (m + 1) - 1 = m
          /\ n + 1 \in 1..Len(raw.systems) /\ (n + 1) - 1 = n
        BY ParsedFacts
    <2>3. NodeOf(g, raw.systems[m + 1].id) = m /\ NodeOf(g, raw.systems[n + 1].id) = n
        <3> HIDE DEF g, x, y
        <3> QED BY <2>2, NodeOfFacts, ZenonT(40) DEF g
    <2>4. m # Unresolved /\ n # Unresolved
        BY ParsedFacts DEF Unresolved
    <2> HIDE DEF g, x, y
    <2> QED BY <2>1, <2>3, <2>4, NodeOfFacts DEF g
<1>3. \A id \in DOMAIN idx : SystemAt(g, idx[id]).id = id
    <2> HIDE DEF g
    <2> QED BY NodeOfFacts DEF g
<1>4. \A p \in ToSet(raw.gate_pairs) : p = <<p[1], p[2]>>
    <2>1. raw.gate_pairs \in Seq(Nat \X Nat)
        BY DEF IsParsed
    <2> HIDE DEF known
    <2>2. \A p \in ToSet(raw.gate_pairs) : p \in Nat \X Nat
        BY <2>1, SMTT(20) DEF ToSet
    <2> QED BY <2>2, SMTT(20)
<1>5. ASSUME {m, n} \in g.gate_graph PROVE Linked(raw, x, y)
    <2> PICK p \in known : {m, n} = {idx[p[1]], idx[p[2]]}
        BY <1>1, <1>5
    <2>1. p[1] \in DOMAIN idx /\ p[2] \in DOMAIN idx /\ p \in ToSet(raw.gate_pairs)
        OBVIOUS
    <2>2. CASE m = idx[p[1]] /\ n = idx[p[2]]
        <3>1. x = p[1] /\ y = p[2]
            <4> HIDE DEF g, idx
            <4> QED BY <1>3, <2>1, <2>2
        <3> QED BY <1>4, <2>1, <3>1 DEF Linked
    <2>3. CASE n = idx[p[1]] /\ m = idx[p[2]]
        <3>1. y = p[1] /\ x = p[2]
            <4> HIDE DEF g, idx
            <4> QED BY <1>3, <2>1, <2>3
        <3> QED BY <1>4, <2>1, <3>1 DEF Linked
    <2> QED BY <2>2, <2>3
<1>6. ASSUME Linked(raw, x, y) PROVE {m, n} \in g.gate_graph
    <2> HIDE DEF g, idx, x, y
    <2>1. CASE <<x, y>> \in ToSet(raw.gate_pairs)
        <3>1. <<x, y>> \in known
            BY <1>2, <2>1
        <3>2. {idx[<<x, y>>[1]], idx[<<x, y>>[2]]} \in g.gate_graph
            BY <1>1, <3>1
        <3> QED BY <1>2, <3>2
    <2>2. CASE <<y, x>> \in ToSet(raw.gate_pairs)
        <3>1. <<y, x>> \in known
            BY <1>2, <2>2
        <3>2. {idx[<<y, x>>[1]], idx[<<y, x>>[2]]} \in g.gate_graph
            BY <1>1, <3>1
        <3>3. {n, m} = {m, n}
            OBVIOUS
        <3> QED BY <1>2, <3>2, <3>3
    <2> QED BY <1>6, <2>1, <2>2 DEF Linked
<1> QED BY <1>5, <1>6

----------------------------------------------------------------------------
(* The overlay.                                                            *)

(***************************************************************************)
(* The recursive function of AddEdges exists.                              *)
(***************************************************************************)
Step(overlay, edge, isUsed) ==
    IF isUsed THEN AddConnection(overlay, edge.a, edge.b, edge.kind) ELSE overlay

IsAfter(overlay, edges, used, n, f) ==
    f = [i \in 0..n |-> IF i = 0 THEN overlay ELSE Step(f[i - 1], edges[i], i \in used)]

LEMMA AfterExists ==
    ASSUME NEW overlay, NEW edges, NEW used, NEW m \in Nat
    PROVE  \E f : IsAfter(overlay, edges, used, m, f)
<1> DEFINE S == {n \in Nat : \E f : IsAfter(overlay, edges, used, n, f)}
<1>1. 0 \in S
    <2>1. IsAfter(overlay, edges, used, 0, [i \in 0..0 |-> overlay])
        BY DEF IsAfter
    <2> QED BY <2>1
<1>2. ASSUME NEW n \in Nat, n \in S PROVE n + 1 \in S
    <2>0. PICK f : IsAfter(overlay, edges, used, n, f)
        BY <1>2
    <2> DEFINE last == Step(f[n], edges[n + 1], n + 1 \in used)
               g == [i \in 0..n + 1 |-> IF i = n + 1 THEN last ELSE f[i]]
    <2>1. ASSUME NEW i \in 0..n + 1
          PROVE  g[i] = IF i = 0 THEN overlay ELSE Step(g[i - 1], edges[i], i \in used)
        <3> HIDE DEF last
        <3>1. CASE i = n + 1
            <4>1. g[i] = last /\ g[i - 1] = f[n] /\ i # 0
                BY <3>1
            <4> QED BY <3>1, <4>1 DEF last
        <3>2. CASE i # n + 1
            <4>1. i \in 0..n /\ g[i] = f[i] /\ (i # 0 => g[i - 1] = f[i - 1])
                BY <3>2
            <4>2. f[i] = IF i = 0 THEN overlay
                         ELSE Step(f[i - 1], edges[i], i \in used)
                BY <2>0, <4>1 DEF IsAfter
            <4> QED BY <4>1, <4>2
        <3> QED BY <3>1, <3>2
    <2>2. IsAfter(overlay, edges, used, n + 1, g)
        <3> HIDE DEF last
        <3> QED BY <2>1 DEF IsAfter
    <2> HIDE DEF g
    <2> QED BY <2>2
<1> HIDE DEF S
<1>3. m \in S
    BY <1>1, <1>2, SetInduction
<1> QED BY <1>3 DEF S

LEMMA AddEdgesIsAfter ==
    ASSUME NEW overlay, NEW edges, Len(edges) \in Nat, NEW used
    PROVE  \E f : /\ IsAfter(overlay, edges, used, Len(edges), f)
                  /\ AddEdges(overlay, edges, used) = f[Len(edges)]
<1> DEFINE after == CHOOSE f : IsAfter(overlay, edges, used, Len(edges), f)
<1>1. IsAfter(overlay, edges, used, Len(edges), after)
    BY AfterExists
<1>2. AddEdges(overlay, edges, used) = after[Len(edges)]
    BY DEF AddEdges, IsAfter, Step
<1> QED BY <1>1, <1>2

(***************************************************************************)
(* What is in the overlay afterwards was there before, and as before, or   *)
(* has the kind of the first edge used that joins it; and nothing is lost. *)
(***************************************************************************)
Joins(edge, e) == edge.a # edge.b /\ e \in {<<edge.a, edge.b>>, <<edge.b, edge.a>>}

FirstJoins(edges, used, i, e) ==
    Joins(edges[i], e) /\ \A j \in used : j < i => ~Joins(edges[j], e)

LEMMA AddEdgesFirst ==
    ASSUME NEW overlay, NEW edges, Len(edges) \in Nat, NEW used, used \subseteq 1..Len(edges)
    PROVE  LET after == AddEdges(overlay, edges, used)
           IN  /\ \A e \in DOMAIN overlay : e \in DOMAIN after /\ after[e] = overlay[e]
               /\ \A i \in used : \A e : Joins(edges[i], e) => e \in DOMAIN after
               /\ \A e \in DOMAIN after : e \notin DOMAIN overlay =>
                     \E i \in used : FirstJoins(edges, used, i, e) /\ after[e] = edges[i].kind
<1> DEFINE m == Len(edges)
<1>1. PICK f : IsAfter(overlay, edges, used, m, f) /\ AddEdges(overlay, edges, used) = f[m]
    BY AddEdgesIsAfter
<1> DEFINE Keeps(n) == \A e \in DOMAIN overlay : e \in DOMAIN f[n] /\ f[n][e] = overlay[e]
           Holds(n) == \A i \in used : i <= n =>
                           \A e : Joins(edges[i], e) => e \in DOMAIN f[n]
           First(n) == \A e \in DOMAIN f[n] : e \notin DOMAIN overlay =>
                           \E i \in used : /\ i <= n /\ FirstJoins(edges, used, i, e)
                                           /\ f[n][e] = edges[i].kind
           S == {n \in Nat : n <= m => Keeps(n) /\ Holds(n) /\ First(n)}
<1>2. f[0] = overlay
    BY <1>1 DEF IsAfter
<1>3. \A n \in 1..m : f[n] = Step(f[n - 1], edges[n], n \in used)
    BY <1>1 DEF IsAfter
<1>4. 0 \in S
    BY <1>2
<1>5. ASSUME NEW n \in Nat, n \in S PROVE n + 1 \in S
    <2> SUFFICES ASSUME n + 1 <= m PROVE Keeps(n + 1) /\ Holds(n + 1) /\ First(n + 1)
        OBVIOUS
    <2>1. Keeps(n) /\ Holds(n) /\ First(n)
        BY <1>5
    <2>2. f[n + 1] = Step(f[n], edges[n + 1], n + 1 \in used)
        BY <1>3
    <2>3. /\ \A e \in DOMAIN f[n] : e \in DOMAIN f[n + 1] /\ f[n + 1][e] = f[n][e]
          /\ n + 1 \in used => \A e : Joins(edges[n + 1], e) => e \in DOMAIN f[n + 1]
        BY <2>2 DEF Step, AddConnection, Joins
    <2>4. Keeps(n + 1)
        BY <2>1, <2>3
    <2>5. \A i \in used : i <= n + 1 => i <= n \/ i = n + 1
        OBVIOUS
    <2>6. Holds(n + 1)
        BY <2>1, <2>3, <2>5
    <2>7. ASSUME NEW e \in DOMAIN f[n + 1], e \notin DOMAIN overlay
          PROVE  \E i \in used : /\ i <= n + 1 /\ FirstJoins(edges, used, i, e)
                                 /\ f[n + 1][e] = edges[i].kind
        <3>1. CASE e \in DOMAIN f[n]
            <4>1. PICK i \in used : /\ i <= n /\ FirstJoins(edges, used, i, e)
                                    /\ f[n][e] = edges[i].kind
                BY <2>1, <2>7, <3>1
            <4>2. i <= n + 1 /\ f[n + 1][e] = edges[i].kind
                BY <2>3, <3>1, <4>1
            <4> QED BY <4>1, <4>2
        <3>2. CASE e \notin DOMAIN f[n]
            <4>1. n + 1 \in used /\ f[n + 1] =
                    AddConnection(f[n], edges[n + 1].a, edges[n + 1].b, edges[n + 1].kind)
                BY <2>2, <2>7, <3>2 DEF Step
            <4>2. Joins(edges[n + 1], e) /\ f[n + 1][e] = edges[n + 1].kind
                BY <2>7, <3>2, <4>1 DEF AddConnection, Joins
            <4>3. \A j \in used : j < n + 1 => ~Joins(edges[j], e)
                <5>1. \A j \in used : j < n + 1 => j <= n
                    OBVIOUS
                <5> QED BY <2>1, <3>2, <5>1
            <4>4. FirstJoins(edges, used, n + 1, e)
                BY <4>2, <4>3 DEF FirstJoins
            <4> QED BY <4>1, <4>2, <4>4
        <3> QED BY <3>1, <3>2
    <2> QED BY <2>4, <2>6, <2>7
<1> HIDE DEF S
<1>6. m \in S
    BY <1>4, <1>5, SetInduction
<1>7. Keeps(m) /\ Holds(m) /\ First(m) /\ \A i \in used : i <= m
    BY <1>6 DEF S
<1> HIDE DEF m
<1> QED BY <1>1, <1>7 DEF m

----------------------------------------------------------------------------
(* Signatures.                                                             *)

(***************************************************************************)
(* The recursive function of WormholesOf exists.                           *)
(***************************************************************************)
Kept(hub, sigs, row) ==
    IF row.type = "wormhole" /\ row.out = hub THEN Append(sigs, row) ELSE sigs

IsKept(hub, raw, n, f) ==
    f = [i \in 0..n |-> IF i = 0 THEN << >> ELSE Kept(hub, f[i - 1], raw[i])]

LEMMA KeptExists ==
    ASSUME NEW hub, NEW raw, NEW m \in Nat
    PROVE  \E f : IsKept(hub, raw, m, f)
<1> DEFINE S == {n \in Nat : \E f : IsKept(hub, raw, n, f)}
<1>1. 0 \in S
    <2>1. IsKept(hub, raw, 0, [i \in 0..0 |-> << >>])
        BY DEF IsKept
    <2> QED BY <2>1
<1>2. ASSUME NEW n \in Nat, n \in S PROVE n + 1 \in S
    <2>0. PICK f : IsKept(hub, raw, n, f)
        BY <1>2
    <2> DEFINE last == Kept(hub, f[n], raw[n + 1])
               g == [i \in 0..n + 1 |-> IF i = n + 1 THEN last ELSE f[i]]
    <2>1. ASSUME NEW i \in 0..n + 1
          PROVE  g[i] = IF i = 0 THEN << >> ELSE Kept(hub, g[i - 1], raw[i])
        <3> HIDE DEF last
        <3>1. CASE i = n + 1
            <4>1. g[i] = last /\ g[i - 1] = f[n] /\ i # 0
                BY <3>1
            <4> QED BY <3>1, <4>1 DEF last
        <3>2. CASE i # n + 1
            <4>1. i \in 0..n /\ g[i] = f[i] /\ (i # 0 => g[i - 1] = f[i - 1])
                BY <3>2
            <4>2. f[i] = IF i = 0 THEN << >> ELSE Kept(hub, f[i - 1], raw[i])
                BY <2>0, <4>1 DEF IsKept
            <4> QED BY <4>1, <4>2
        <3> QED BY <3>1, <3>2
    <2>2. IsKept(hub, raw, n + 1, g)
        <3> HIDE DEF last
        <3> QED BY <2>1 DEF IsKept
    <2> HIDE DEF g
    <2> QED BY <2>2
<1> HIDE DEF S
<1>3. m \in S
    BY <1>1, <1>2, SetInduction
<1> QED BY <1>3 DEF S

(***************************************************************************)
(* What a snapshot holds: rows of wormholes that lead from their hub.      *)
(***************************************************************************)
IsSnapshot(scout) ==
    /\ scout.thera \in Seq({r \in RawSignature : r.type = "wormhole" /\ r.out = Thera})
    /\ scout.turnur \in Seq({r \in RawSignature : r.type = "wormhole" /\ r.out = Turnur})

LEMMA WormholesOfHub ==
    ASSUME NEW hub, NEW raw \in Seq(RawSignature)
    PROVE  WormholesOf(hub, raw) \in
               Seq({r \in RawSignature : r.type = "wormhole" /\ r.out = hub})
<1> DEFINE m == Len(raw)
           R == {r \in RawSignature : r.type = "wormhole" /\ r.out = hub}
           kept == CHOOSE f : IsKept(hub, raw, m, f)
<1>1. m \in Nat /\ \A i \in 1..m : raw[i] \in RawSignature
    OBVIOUS
<1>2. IsKept(hub, raw, m, kept)
    BY <1>1, KeptExists
<1>3. WormholesOf(hub, raw) = kept[m]
    BY DEF WormholesOf, IsKept, Kept
<1> DEFINE S == {n \in Nat : n <= m => kept[n] \in Seq(R)}
<1> HIDE DEF m, kept
<1>4. 0 \in S
    <2>1. kept[0] = << >>
        BY <1>1, <1>2 DEF IsKept
    <2>2. << >> \in Seq(R)
        OBVIOUS
    <2> HIDE DEF R
    <2> QED BY <2>1, <2>2
<1>5. ASSUME NEW n \in Nat, n \in S PROVE n + 1 \in S
    <2> SUFFICES ASSUME n + 1 <= m PROVE kept[n + 1] \in Seq(R)
        OBVIOUS
    <2>1. kept[n + 1] = Kept(hub, kept[n], raw[n + 1])
        BY <1>1, <1>2 DEF IsKept
    <2>2. kept[n] \in Seq(R) /\ raw[n + 1] \in RawSignature
        BY <1>1, <1>5
    <2>3. CASE raw[n + 1].type = "wormhole" /\ raw[n + 1].out = hub
        <3>1. raw[n + 1] \in R
            BY <2>2, <2>3
        <3> HIDE DEF R
        <3> QED BY <2>1, <2>2, <2>3, <3>1 DEF Kept
    <2>4. CASE ~(raw[n + 1].type = "wormhole" /\ raw[n + 1].out = hub)
        BY <2>1, <2>2, <2>4 DEF Kept
    <2> QED BY <2>3, <2>4
<1> HIDE DEF S
<1>6. m \in S
    BY <1>1, <1>4, <1>5, SetInduction
<1> QED BY <1>1, <1>3, <1>6 DEF S

LEMMA PartitionIsSnapshot ==
    ASSUME NEW raw \in Seq(RawSignature), NEW now
    PROVE  IsSnapshot(Partition(raw, now))
BY WormholesOfHub DEF Partition, IsSnapshot

LEMMA EmptyIsSnapshot == IsSnapshot(EmptySnapshot)
BY DEF EmptySnapshot, IsSnapshot

(***************************************************************************)
(* The fields that make a context.                                         *)
(***************************************************************************)
HasFields(ctx) ==
    ctx = [gates |-> ctx.gates, sec |-> ctx.sec, overlay |-> ctx.overlay,
           avoid |-> ctx.avoid, pref |-> ctx.pref]

SameButOverlay(d, c) ==
    /\ HasFields(d)
    /\ d.gates = c.gates /\ d.sec = c.sec /\ d.avoid = c.avoid /\ d.pref = c.pref

(***************************************************************************)
(* Signatures that are live and known join two nodes of the overlay; no    *)
(* others do.                                                              *)
(***************************************************************************)
SigJoins(g, s, now, e) ==
    /\ IsLive(s, now)
    /\ NodeOf(g, s.out) # Unresolved /\ NodeOf(g, s.in) # Unresolved
    /\ NodeOf(g, s.out) # NodeOf(g, s.in)
    /\ e \in {<<NodeOf(g, s.out), NodeOf(g, s.in)>>, <<NodeOf(g, s.in), NodeOf(g, s.out)>>}

AddsSignatures(c, ctx, g, sigs, now) ==
    /\ SameButOverlay(c, ctx)
    /\ \A e \in DOMAIN c.overlay :
          \/ e \in DOMAIN ctx.overlay /\ c.overlay[e] = ctx.overlay[e]
          \/ /\ \E i \in 1..Len(sigs) : SigJoins(g, sigs[i], now, e)
             /\ c.overlay[e] = "wormhole"
    /\ \A e \in DOMAIN ctx.overlay :
          e \in DOMAIN c.overlay /\ c.overlay[e] = ctx.overlay[e]
    /\ \A i \in 1..Len(sigs) : \A e :
          SigJoins(g, sigs[i], now, e) => e \in DOMAIN c.overlay

LEMMA ScoutEdges ==
    ASSUME NEW ctx, HasFields(ctx), NEW g, NEW sigs, Len(sigs) \in Nat,
           DOMAIN sigs = 1..Len(sigs), NEW now
    PROVE  AddsSignatures(AddScoutEdges(ctx, g, sigs, now), ctx, g, sigs, now)
<1> DEFINE c     == AddScoutEdges(ctx, g, sigs, now)
           m     == Len(sigs)
           edges == [i \in DOMAIN sigs |->
                        [a |-> NodeOf(g, sigs[i].out), b |-> NodeOf(g, sigs[i].in),
                         kind |-> "wormhole"]]
           used  == {i \in DOMAIN sigs : /\ IsLive(sigs[i], now)
                                         /\ Unresolved \notin {edges[i].a, edges[i].b}}
           after == AddEdges(ctx.overlay, edges, used)
<1>1. c = [ctx EXCEPT !.overlay = after]
    BY DEF AddScoutEdges
<1>2. SameButOverlay(c, ctx) /\ c.overlay = after
    <2> HIDE DEF c, after
    <2> QED BY <1>1 DEF HasFields, SameButOverlay
<1>3. edges \in Seq({edges[i] : i \in 1..m}) /\ Len(edges) = m
    <2>1. edges \in [1..m -> {edges[i] : i \in 1..m}]
        OBVIOUS
    <2> HIDE DEF edges
    <2> QED BY <2>1
<1>4. /\ used \subseteq 1..m
      /\ \A i \in 1..m : \A e :
            SigJoins(g, sigs[i], now, e) <=> i \in used /\ Joins(edges[i], e)
      /\ \A i \in 1..m : edges[i].kind = "wormhole"
    BY DEF SigJoins, Joins
<1> HIDE DEF c, edges, used, after
<1>5. /\ \A e \in DOMAIN ctx.overlay : e \in DOMAIN after /\ after[e] = ctx.overlay[e]
      /\ \A i \in used : \A e : Joins(edges[i], e) => e \in DOMAIN after
      /\ \A e \in DOMAIN after : e \notin DOMAIN ctx.overlay =>
            \E i \in used : FirstJoins(edges, used, i, e) /\ after[e] = edges[i].kind
    <2>1. Len(edges) \in Nat /\ used \subseteq 1..Len(edges)
        BY <1>3, <1>4
    <2> QED BY <2>1, AddEdgesFirst, ZenonT(40) DEF after
<1>6. \A e \in DOMAIN after :
          \/ e \in DOMAIN ctx.overlay /\ after[e] = ctx.overlay[e]
          \/ \E i \in used : Joins(edges[i], e) /\ after[e] = edges[i].kind
    BY <1>5 DEF FirstJoins
<1>7. \A e \in DOMAIN c.overlay :
          \/ e \in DOMAIN ctx.overlay /\ c.overlay[e] = ctx.overlay[e]
          \/ /\ \E i \in 1..m : SigJoins(g, sigs[i], now, e)
             /\ c.overlay[e] = "wormhole"
    BY <1>2, <1>4, <1>6
<1>8. \A i \in 1..m : \A e : SigJoins(g, sigs[i], now, e) => e \in DOMAIN after
    BY <1>4, <1>5
<1>9. AddsSignatures(c, ctx, g, sigs, now)
    BY <1>2, <1>5, <1>7, <1>8 DEF AddsSignatures
<1> QED BY <1>9 DEF c

(***************************************************************************)
(* The overlay of a search adds the signatures of the hubs that are wanted *)
(* and nothing else.                                                       *)
(***************************************************************************)
Wanted(g, flag, hub, endpoints) ==
    flag \/ (NodeOf(g, hub) # Unresolved /\ NodeOf(g, hub) \in endpoints)

ScoutJoins(g, scout, req, endpoints, now, e) ==
    \/ /\ Wanted(g, req.include_thera, Thera, endpoints)
       /\ \E i \in 1..Len(scout.thera) : SigJoins(g, scout.thera[i], now, e)
    \/ /\ Wanted(g, req.include_turnur, Turnur, endpoints)
       /\ \E i \in 1..Len(scout.turnur) : SigJoins(g, scout.turnur[i], now, e)

LEMMA ScoutOverlay ==
    ASSUME NEW ctx, HasFields(ctx), NEW raw, NEW b, IsParsed(raw),
           NEW scout, IsSnapshot(scout), NEW req, NEW endpoints, NEW now
    PROVE  LET g == BuildGraph(raw, b)
               c == ApplyScoutOverlay(ctx, g, scout, req, endpoints, now)
           IN  /\ SameButOverlay(c, ctx)
               /\ \A e \in DOMAIN c.overlay :
                     \/ e \in DOMAIN ctx.overlay /\ c.overlay[e] = ctx.overlay[e]
                     \/ /\ ScoutJoins(g, scout, req, endpoints, now, e)
                        /\ c.overlay[e] = "wormhole"
               /\ \A e \in DOMAIN ctx.overlay :
                     e \in DOMAIN c.overlay /\ c.overlay[e] = ctx.overlay[e]
               /\ \A e : ScoutJoins(g, scout, req, endpoints, now, e) =>
                             e \in DOMAIN c.overlay
<1> DEFINE g == BuildGraph(raw, b)
           c == ApplyScoutOverlay(ctx, g, scout, req, endpoints, now)
           th == Wanted(g, req.include_thera, Thera, endpoints)
           tu == Wanted(g, req.include_turnur, Turnur, endpoints)
           d == IF th THEN AddScoutEdges(ctx, g, scout.thera, now) ELSE ctx
<1>1. /\ \A id : id \in DOMAIN g.id_to_idx <=> NodeOf(g, id) # Unresolved
      /\ \A id \in DOMAIN g.id_to_idx : g.id_to_idx[id] = NodeOf(g, id)
    BY NodeOfFacts
<1>2. c = IF tu THEN AddScoutEdges(d, g, scout.turnur, now) ELSE d
    <2> HIDE DEF g
    <2> QED BY <1>1 DEF ApplyScoutOverlay, Wanted
<1>3. /\ Len(scout.thera) \in Nat /\ DOMAIN scout.thera = 1..Len(scout.thera)
      /\ Len(scout.turnur) \in Nat /\ DOMAIN scout.turnur = 1..Len(scout.turnur)
    BY DEF IsSnapshot
<1> DEFINE AtThera(e)  == \E i \in 1..Len(scout.thera) : SigJoins(g, scout.thera[i], now, e)
           AtTurnur(e) == \E i \in 1..Len(scout.turnur) : SigJoins(g, scout.turnur[i], now, e)
<1> HIDE DEF g, c, th, tu
<1>4. /\ SameButOverlay(d, ctx)
      /\ \A e \in DOMAIN d.overlay :
            \/ e \in DOMAIN ctx.overlay /\ d.overlay[e] = ctx.overlay[e]
            \/ th /\ AtThera(e) /\ d.overlay[e] = "wormhole"
      /\ \A e \in DOMAIN ctx.overlay :
            e \in DOMAIN d.overlay /\ d.overlay[e] = ctx.overlay[e]
      /\ \A e : th /\ AtThera(e) => e \in DOMAIN d.overlay
    <2>1. CASE th
        <3>1. AddsSignatures(d, ctx, g, scout.thera, now)
            BY <1>3, <2>1, ScoutEdges
        <3> HIDE DEF d
        <3> QED BY <2>1, <3>1, ZenonT(40) DEF AddsSignatures
    <2>2. CASE ~th
        BY <2>2 DEF SameButOverlay
    <2> QED BY <2>1, <2>2
<1> HIDE DEF d
<1>5. HasFields(d)
    BY <1>4 DEF SameButOverlay
<1>6. /\ SameButOverlay(c, d)
      /\ \A e \in DOMAIN c.overlay :
            \/ e \in DOMAIN d.overlay /\ c.overlay[e] = d.overlay[e]
            \/ tu /\ AtTurnur(e) /\ c.overlay[e] = "wormhole"
      /\ \A e \in DOMAIN d.overlay :
            e \in DOMAIN c.overlay /\ c.overlay[e] = d.overlay[e]
      /\ \A e : tu /\ AtTurnur(e) => e \in DOMAIN c.overlay
    <2>1. CASE tu
        <3>1. AddsSignatures(c, d, g, scout.turnur, now)
            BY <1>2, <1>3, <1>5, <2>1, ScoutEdges
        <3> QED BY <2>1, <3>1, ZenonT(40) DEF AddsSignatures
    <2>2. CASE ~tu
        BY <1>2, <1>5, <2>2 DEF SameButOverlay
    <2> QED BY <2>1, <2>2
<1>7. \A e : ScoutJoins(g, scout, req, endpoints, now, e) <=>
                 (th /\ AtThera(e)) \/ (tu /\ AtTurnur(e))
    BY DEF ScoutJoins, th, tu
<1> HIDE DEF AtThera, AtTurnur
<1>8. SameButOverlay(c, ctx)
    BY <1>4, <1>6 DEF SameButOverlay
<1>9. \A e \in DOMAIN c.overlay :
          \/ e \in DOMAIN ctx.overlay /\ c.overlay[e] = ctx.overlay[e]
          \/ ScoutJoins(g, scout, req, endpoints, now, e) /\ c.overlay[e] = "wormhole"
    BY <1>4, <1>6, <1>7
<1>10. /\ \A e \in DOMAIN ctx.overlay :
             e \in DOMAIN c.overlay /\ c.overlay[e] = ctx.overlay[e]
       /\ \A e : ScoutJoins(g, scout, req, endpoints, now, e) => e \in DOMAIN c.overlay
    BY <1>4, <1>6, <1>7
<1> QED BY <1>8, <1>9, <1>10 DEF c, g

(***************************************************************************)
(* The connections of the request are added as their flags say; the first  *)
(* of those that join two systems gives them its kind.                     *)
(***************************************************************************)
Enabled(req, kind) ==
    IF kind = "bridge" THEN req.use_bridges ELSE req.use_wormholes

ConnectionJoins(g, req, i, e) ==
    LET c == req.connections[i]
    IN  /\ Enabled(req, c.kind)
        /\ Joins([a |-> ResolveSystem(g, c.from), b |-> ResolveSystem(g, c.to)], e)

FirstConnection(g, req, e, kind) ==
    \E i \in 1..Len(req.connections) :
        /\ ConnectionJoins(g, req, i, e) /\ req.connections[i].kind = kind
        /\ \A j \in 1..Len(req.connections) : ConnectionJoins(g, req, j, e) => i <= j

LEMMA UserOverlay ==
    ASSUME NEW ctx, HasFields(ctx), NEW g, NEW req,
           req.connections \in Seq(Connection)
    PROVE  LET c == AddOverlayConnections(ctx, req, ResolveConnections(g, req))
           IN  /\ SameButOverlay(c, ctx)
               /\ \A e \in DOMAIN ctx.overlay :
                     e \in DOMAIN c.overlay /\ c.overlay[e] = ctx.overlay[e]
               /\ \A e \in DOMAIN c.overlay : e \notin DOMAIN ctx.overlay =>
                     /\ c.overlay[e] \in EdgeKinds
                     /\ FirstConnection(g, req, e, c.overlay[e])
               /\ \A i \in 1..Len(req.connections) : \A e :
                     ConnectionJoins(g, req, i, e) => e \in DOMAIN c.overlay
<1> DEFINE conns == ResolveConnections(g, req)
           c     == AddOverlayConnections(ctx, req, conns)
           m     == Len(req.connections)
           used  == {i \in DOMAIN conns :
                        \/ conns[i].kind = "wormhole" /\ req.use_wormholes
                        \/ conns[i].kind = "bridge" /\ req.use_bridges}
           after == AddEdges(ctx.overlay, conns, used)
<1>1. m \in Nat /\ DOMAIN req.connections = 1..m
          /\ \A i \in 1..m : req.connections[i].kind \in EdgeKinds
    <2>1. m \in Nat /\ DOMAIN req.connections = 1..m
              /\ \A i \in 1..m : req.connections[i] \in Connection
        OBVIOUS
    <2> QED BY <2>1 DEF Connection
<1>2. c = [ctx EXCEPT !.overlay = after]
    BY DEF AddOverlayConnections
<1>3. SameButOverlay(c, ctx) /\ c.overlay = after
    <2> HIDE DEF c, after
    <2> QED BY <1>2 DEF HasFields, SameButOverlay
<1>4. /\ DOMAIN conns = 1..m
      /\ \A i \in 1..m : /\ conns[i].kind = req.connections[i].kind
                         /\ conns[i].a = ResolveSystem(g, req.connections[i].from)
                         /\ conns[i].b = ResolveSystem(g, req.connections[i].to)
    BY <1>1 DEF ResolveConnections
<1>5. Len(conns) = m
    <2>1. conns \in [1..m -> {conns[i] : i \in 1..m}]
        BY <1>1 DEF ResolveConnections
    <2> HIDE DEF conns
    <2>2. m \in Nat
        BY <1>1
    <2> HIDE DEF m
    <2> QED BY <2>1, <2>2, FunctionIsSeq
<1>6. \A i \in 1..m : i \in used <=> Enabled(req, conns[i].kind)
    <2> HIDE DEF conns
    <2> QED BY <1>1, <1>4 DEF Enabled, EdgeKinds
<1>7. used \subseteq 1..m
    BY <1>4
<1> HIDE DEF c, conns, used, after
<1>8. /\ \A e \in DOMAIN ctx.overlay : e \in DOMAIN after /\ after[e] = ctx.overlay[e]
      /\ \A i \in used : \A e : Joins(conns[i], e) => e \in DOMAIN after
      /\ \A e \in DOMAIN after : e \notin DOMAIN ctx.overlay =>
            \E i \in used : FirstJoins(conns, used, i, e) /\ after[e] = conns[i].kind
    BY <1>1, <1>5, <1>7, AddEdgesFirst DEF after
<1>9. \A i \in 1..m : \A e :
          ConnectionJoins(g, req, i, e) <=> i \in used /\ Joins(conns[i], e)
    BY <1>4, <1>6 DEF ConnectionJoins, Joins
<1>10. ASSUME NEW e \in DOMAIN after, e \notin DOMAIN ctx.overlay
       PROVE  after[e] \in EdgeKinds /\ FirstConnection(g, req, e, after[e])
    <2> PICK i \in used : FirstJoins(conns, used, i, e) /\ after[e] = conns[i].kind
        BY <1>8, <1>10
    <2>1. i \in 1..m /\ after[e] = req.connections[i].kind
        BY <1>4, <1>7
    <2>2. ConnectionJoins(g, req, i, e)
        BY <1>9, <2>1 DEF FirstJoins
    <2>3. ASSUME NEW j \in 1..m, ConnectionJoins(g, req, j, e) PROVE i <= j
        <3>1. j \in used /\ Joins(conns[j], e)
            BY <1>9, <2>3
        <3>2. ~(j < i)
            BY <3>1 DEF FirstJoins
        <3> QED BY <2>1, <3>2
    <2>4. after[e] \in EdgeKinds
        BY <1>1, <2>1
    <2> QED BY <2>1, <2>2, <2>3, <2>4 DEF FirstConnection
<1>11. \A i \in 1..m : \A e : ConnectionJoins(g, req, i, e) => e \in DOMAIN after
    BY <1>8, <1>9
<1> QED BY <1>3, <1>8, <1>10, <1>11 DEF c, conns

(***************************************************************************)
(* A context is symmetric: an edge of the overlay goes both ways, as the   *)
(* same kind.                                                              *)
(***************************************************************************)
Mirrored(overlay) ==
    \A a, b : <<a, b>> \in DOMAIN overlay =>
        <<b, a>> \in DOMAIN overlay /\ overlay[<<b, a>>] = overlay[<<a, b>>]

LEMMA AddEdgesMirrored ==
    ASSUME NEW overlay, Mirrored(overlay), NEW edges, Len(edges) \in Nat, NEW used
    PROVE  Mirrored(AddEdges(overlay, edges, used))
<1> DEFINE m == Len(edges)
<1>1. PICK f : IsAfter(overlay, edges, used, m, f) /\ AddEdges(overlay, edges, used) = f[m]
    BY AddEdgesIsAfter
<1> DEFINE S == {n \in Nat : n <= m => Mirrored(f[n])}
<1>2. f[0] = overlay /\ \A n \in 1..m : f[n] = Step(f[n - 1], edges[n], n \in used)
    BY <1>1 DEF IsAfter
<1>3. 0 \in S
    BY <1>2
<1>4. ASSUME NEW n \in Nat, n \in S PROVE n + 1 \in S
    <2> SUFFICES ASSUME n + 1 <= m PROVE Mirrored(f[n + 1])
        OBVIOUS
    <2>1. Mirrored(f[n]) /\ f[n + 1] = Step(f[n], edges[n + 1], n + 1 \in used)
        BY <1>2, <1>4
    <2>2. ASSUME NEW o, Mirrored(o), NEW x, NEW y, NEW kind
          PROVE  Mirrored(AddConnection(o, x, y, kind))
        <3> SUFFICES ASSUME x # y, NEW a, NEW b,
                            <<a, b>> \in DOMAIN AddConnection(o, x, y, kind)
                     PROVE  LET p == AddConnection(o, x, y, kind)
                            IN  <<b, a>> \in DOMAIN p /\ p[<<b, a>>] = p[<<a, b>>]
            BY <2>2 DEF Mirrored, AddConnection
        <3> DEFINE p == AddConnection(o, x, y, kind)
        <3>1. /\ DOMAIN p = DOMAIN o \cup {<<x, y>>, <<y, x>>}
              /\ \A e \in DOMAIN p : p[e] = IF e \in DOMAIN o THEN o[e] ELSE kind
            BY DEF AddConnection
        <3> HIDE DEF p
        <3>2. /\ <<a, b>> \in DOMAIN o <=> <<b, a>> \in DOMAIN o
              /\ <<a, b>> \in DOMAIN o => o[<<b, a>>] = o[<<a, b>>]
            BY <2>2 DEF Mirrored
        <3>3. <<a, b>> \in DOMAIN p
            BY DEF p
        <3>4. <<b, a>> \in DOMAIN p
            BY <3>1, <3>2, <3>3
        <3> QED BY <3>1, <3>2, <3>3, <3>4 DEF p
    <2> QED BY <2>1, <2>2 DEF Step
<1> HIDE DEF S
<1>5. m \in S
    BY <1>3, <1>4, SetInduction
<1>6. Mirrored(f[m])
    BY <1>5 DEF S
<1> HIDE DEF m
<1> QED BY <1>1, <1>6 DEF m

LEMMA OverlayMirrored ==
    ASSUME NEW ctx, HasFields(ctx), Mirrored(ctx.overlay), NEW g, NEW req,
           req.connections \in Seq(Connection),
           NEW scout, IsSnapshot(scout), NEW endpoints, NEW now
    PROVE  Mirrored(ApplyScoutOverlay(
               AddOverlayConnections(ctx, req, ResolveConnections(g, req)),
               g, scout, req, endpoints, now).overlay)
<1>1. ASSUME NEW c, HasFields(c), Mirrored(c.overlay), NEW edges, Len(edges) \in Nat,
             NEW used
      PROVE  LET d == [c EXCEPT !.overlay = AddEdges(@, edges, used)]
             IN  HasFields(d) /\ Mirrored(d.overlay)
    <2> DEFINE o == AddEdges(c.overlay, edges, used)
               d == [c EXCEPT !.overlay = o]
    <2>1. Mirrored(o)
        BY <1>1, AddEdgesMirrored
    <2> HIDE DEF o
    <2>2. HasFields(d) /\ d.overlay = o
        BY <1>1 DEF HasFields
    <2> QED BY <2>1, <2>2 DEF o
<1> DEFINE conns == ResolveConnections(g, req)
           c1    == AddOverlayConnections(ctx, req, conns)
<1>2. HasFields(c1) /\ Mirrored(c1.overlay)
    <2>1. Len(req.connections) \in Nat /\ DOMAIN req.connections = 1..Len(req.connections)
        OBVIOUS
    <2>2. conns \in [1..Len(req.connections) -> {conns[i] : i \in DOMAIN conns}]
        BY <2>1 DEF ResolveConnections
    <2> HIDE DEF conns
    <2>3. Len(conns) \in Nat
        BY <2>1, <2>2, FunctionIsSeq
    <2> QED BY <1>1, <2>3 DEF AddOverlayConnections
<1>3. ASSUME NEW c, HasFields(c), Mirrored(c.overlay), NEW sigs,
             Len(sigs) \in Nat, DOMAIN sigs = 1..Len(sigs)
      PROVE  LET d == AddScoutEdges(c, g, sigs, now) IN HasFields(d) /\ Mirrored(d.overlay)
    <2> DEFINE edges == [i \in DOMAIN sigs |->
                           [a |-> NodeOf(g, sigs[i].out), b |-> NodeOf(g, sigs[i].in),
                            kind |-> "wormhole"]]
               used  == {i \in DOMAIN sigs : /\ IsLive(sigs[i], now)
                                             /\ Unresolved \notin {edges[i].a, edges[i].b}}
    <2>1. AddScoutEdges(c, g, sigs, now) = [c EXCEPT !.overlay = AddEdges(@, edges, used)]
        BY DEF AddScoutEdges
    <2>2. edges \in [1..Len(sigs) -> {edges[i] : i \in DOMAIN edges}]
        BY <1>3
    <2> HIDE DEF edges, used
    <2>3. Len(edges) \in Nat
        BY <1>3, <2>2, FunctionIsSeq
    <2> QED BY <1>1, <1>3, <2>1, <2>3, SMTT(20)
<1>4. /\ Len(scout.thera) \in Nat /\ DOMAIN scout.thera = 1..Len(scout.thera)
      /\ Len(scout.turnur) \in Nat /\ DOMAIN scout.turnur = 1..Len(scout.turnur)
    BY DEF IsSnapshot
<1> HIDE DEF c1
<1> DEFINE d == AddScoutEdges(c1, g, scout.thera, now)
<1>5. HasFields(d) /\ Mirrored(d.overlay)
    BY <1>2, <1>3, <1>4
<1>6. \A c : LET e == AddScoutEdges(c, g, scout.turnur, now)
             IN  HasFields(c) /\ Mirrored(c.overlay) => Mirrored(e.overlay)
    BY <1>3, <1>4
<1>7. \E c \in {c1, d} :
          ApplyScoutOverlay(c1, g, scout, req, endpoints, now)
              \in {c, AddScoutEdges(c, g, scout.turnur, now)}
    BY DEF ApplyScoutOverlay
<1> HIDE DEF d
<1> QED BY <1>2, <1>5, <1>6, <1>7 DEF c1, conns

----------------------------------------------------------------------------
(* References that do not resolve.                                         *)

(***************************************************************************)
(* The ends of connections all resolve when both ends of each do.          *)
(***************************************************************************)
LEMMA EndsInOrderAre ==
    ASSUME NEW cs, Len(cs) \in Nat
    PROVE  /\ DOMAIN EndsInOrder(cs) = 1..2 * Len(cs) /\ Len(EndsInOrder(cs)) = 2 * Len(cs)
           /\ \A i \in 1..Len(cs) :
                 /\ 2 * i - 1 \in 1..2 * Len(cs) /\ EndsInOrder(cs)[2 * i - 1] = cs[i].from
                 /\ 2 * i \in 1..2 * Len(cs) /\ EndsInOrder(cs)[2 * i] = cs[i].to
           /\ \A k \in 1..2 * Len(cs) : \E i \in 1..Len(cs) :
                 EndsInOrder(cs)[k] \in {cs[i].from, cs[i].to}
<1> DEFINE m == Len(cs)
           refs == EndsInOrder(cs)
<1>1. refs = [k \in 1..2 * m |->
                 IF k % 2 = 1 THEN cs[(k + 1) \div 2].from ELSE cs[k \div 2].to]
    BY DEF EndsInOrder
<1>2. 2 * m \in Nat
    OBVIOUS
<1>3. \A i \in 1..m : /\ 2 * i - 1 \in 1..2 * m /\ (2 * i - 1) % 2 = 1
                      /\ ((2 * i - 1) + 1) \div 2 = i
                      /\ 2 * i \in 1..2 * m /\ (2 * i) % 2 = 0 /\ (2 * i) \div 2 = i
    OBVIOUS
<1>4. \A k \in 1..2 * m : /\ k % 2 = 1 => (k + 1) \div 2 \in 1..m
                          /\ k % 2 # 1 => k \div 2 \in 1..m
    OBVIOUS
<1> HIDE DEF refs, m
<1>5. DOMAIN refs = 1..2 * m
    BY <1>1
<1>6. Len(refs) = 2 * m
    BY <1>1, <1>2
<1>7. ASSUME NEW i \in 1..m
      PROVE  /\ 2 * i - 1 \in 1..2 * m /\ refs[2 * i - 1] = cs[i].from
             /\ 2 * i \in 1..2 * m /\ refs[2 * i] = cs[i].to
    <2>1. 2 * i - 1 \in 1..2 * m /\ refs[2 * i - 1] = cs[((2 * i - 1) + 1) \div 2].from
        BY <1>1, <1>3
    <2>2. 2 * i \in 1..2 * m /\ refs[2 * i] = cs[(2 * i) \div 2].to
        BY <1>1, <1>3
    <2> QED BY <1>3, <2>1, <2>2
<1>8. ASSUME NEW k \in 1..2 * m
      PROVE  \E i \in 1..m : refs[k] \in {cs[i].from, cs[i].to}
    BY <1>1, <1>4
<1> QED BY <1>5, <1>6, <1>7, <1>8 DEF refs, m

LEMMA EndsResolve ==
    ASSUME NEW g, NEW cs, Len(cs) \in Nat
    PROVE  AllResolve(g, EndsInOrder(cs)) <=>
               \A i \in 1..Len(cs) : /\ ResolveSystem(g, cs[i].from) # Unresolved
                                     /\ ResolveSystem(g, cs[i].to) # Unresolved
<1>1. ASSUME AllResolve(g, EndsInOrder(cs)), NEW i \in 1..Len(cs)
      PROVE  /\ ResolveSystem(g, cs[i].from) # Unresolved
             /\ ResolveSystem(g, cs[i].to) # Unresolved
    <2>1. /\ 2 * i - 1 \in DOMAIN EndsInOrder(cs)
          /\ EndsInOrder(cs)[2 * i - 1] = cs[i].from
          /\ 2 * i \in DOMAIN EndsInOrder(cs) /\ EndsInOrder(cs)[2 * i] = cs[i].to
        BY EndsInOrderAre
    <2>2. /\ ResolveSystem(g, EndsInOrder(cs)[2 * i - 1]) # Unresolved
          /\ ResolveSystem(g, EndsInOrder(cs)[2 * i]) # Unresolved
        BY <1>1, <2>1 DEF AllResolve
    <2> QED BY <2>1, <2>2
<1>2. ASSUME \A i \in 1..Len(cs) : /\ ResolveSystem(g, cs[i].from) # Unresolved
                                   /\ ResolveSystem(g, cs[i].to) # Unresolved,
             NEW k \in DOMAIN EndsInOrder(cs)
      PROVE  ResolveSystem(g, EndsInOrder(cs)[k]) # Unresolved
    <2>1. PICK i \in 1..Len(cs) : EndsInOrder(cs)[k] \in {cs[i].from, cs[i].to}
        BY EndsInOrderAre
    <2>2. CASE EndsInOrder(cs)[k] = cs[i].from
        BY <1>2, <2>2
    <2>3. CASE EndsInOrder(cs)[k] = cs[i].to
        BY <1>2, <2>3
    <2> QED BY <2>1, <2>2, <2>3
<1> QED BY <1>1, <1>2 DEF AllResolve

(***************************************************************************)
(* The reference that is reported is the first that does not resolve.      *)
(***************************************************************************)
LEMMA FirstUnknownIsUnknown ==
    ASSUME NEW g, NEW refs, NEW n \in Nat, DOMAIN refs = 1..n, ~AllResolve(g, refs)
    PROVE  \E i \in 1..n : /\ FirstUnknown(g, refs) = refs[i]
                           /\ ResolveSystem(g, refs[i]) = Unresolved
                           /\ \A j \in 1..i - 1 : ResolveSystem(g, refs[j]) # Unresolved
<1> DEFINE T == {i \in 1..n : ResolveSystem(g, refs[i]) = Unresolved}
<1>1. PICK x \in T : \A y \in T : x <= y
    <2>1. T \subseteq Nat /\ T # {}
        BY DEF AllResolve
    <2> HIDE DEF T
    <2> QED BY <2>1, LeastMember
<1>2. /\ x \in DOMAIN refs /\ ResolveSystem(g, refs[x]) = Unresolved
      /\ \A j \in 1..x - 1 : ResolveSystem(g, refs[j]) # Unresolved
    <2>1. x \in 1..n /\ ResolveSystem(g, refs[x]) = Unresolved
        OBVIOUS
    <2>2. ASSUME NEW j \in 1..x - 1, ResolveSystem(g, refs[j]) = Unresolved PROVE FALSE
        <3>1. j \in T /\ j < x
            BY <2>1, <2>2
        <3> HIDE DEF T
        <3> QED BY <1>1, <2>1, <3>1
    <2> QED BY <2>1, <2>2
<1> DEFINE i == CHOOSE k \in DOMAIN refs :
                    /\ ResolveSystem(g, refs[k]) = Unresolved
                    /\ \A j \in 1..k - 1 : ResolveSystem(g, refs[j]) # Unresolved
<1>3. /\ i \in 1..n /\ ResolveSystem(g, refs[i]) = Unresolved
      /\ \A j \in 1..i - 1 : ResolveSystem(g, refs[j]) # Unresolved
    BY <1>2
<1>4. FirstUnknown(g, refs) = refs[i]
    BY DEF FirstUnknown
<1> HIDE DEF i
<1> QED BY <1>3, <1>4
(***************************************************************************)
(* References one after the other.                                         *)
(***************************************************************************)
LEMMA EndsAreRefs ==
    ASSUME NEW cs \in Seq(Connection)
    PROVE  EndsInOrder(cs) \in Seq(Ref)
<1> DEFINE refs == EndsInOrder(cs)
           m    == 2 * Len(cs)
<1>1. Len(cs) \in Nat /\ \A i \in 1..Len(cs) : cs[i] \in Connection
    OBVIOUS
<1>2. \A i \in 1..Len(cs) : cs[i].from \in Ref /\ cs[i].to \in Ref
    <2> HIDE DEF refs, m
    <2> QED BY <1>1 DEF Connection
<1>3. /\ m \in Nat /\ DOMAIN refs = 1..m
      /\ \A k \in 1..m : \E i \in 1..Len(cs) : refs[k] \in {cs[i].from, cs[i].to}
    BY <1>1, EndsInOrderAre
<1>4. refs = [k \in 1..m |-> refs[k]]
    BY <1>3 DEF EndsInOrder
<1> HIDE DEF refs, m
<1>5. \A k \in 1..m : refs[k] \in Ref
    BY <1>2, <1>3
<1>6. [k \in 1..m |-> refs[k]] \in Seq(Ref)
    BY <1>3, <1>5
<1> QED BY <1>4, <1>6 DEF refs

LEMMA AllOfBoth ==
    ASSUME NEW g, NEW s \in Seq(Ref), NEW t \in Seq(Ref)
    PROVE  /\ s \o t \in Seq(Ref)
           /\ AllResolve(g, s \o t) <=> AllResolve(g, s) /\ AllResolve(g, t)
<1> DEFINE u == s \o t
           a == Len(s)
           b == Len(t)
<1>1. /\ a \in Nat /\ b \in Nat /\ u \in Seq(Ref)
      /\ DOMAIN s = 1..a /\ DOMAIN t = 1..b /\ DOMAIN u = 1..a + b
      /\ \A i \in 1..a : u[i] = s[i]
      /\ \A i \in 1..b : u[a + i] = t[i]
    OBVIOUS
<1> HIDE DEF u, a, b
<1>2. ASSUME AllResolve(g, u) PROVE AllResolve(g, s) /\ AllResolve(g, t)
    <2>1. \A i \in 1..a : i \in 1..a + b
        BY <1>1
    <2>2. \A i \in 1..b : a + i \in 1..a + b
        BY <1>1
    <2> QED BY <1>1, <1>2, <2>1, <2>2 DEF AllResolve
<1>3. ASSUME AllResolve(g, s), AllResolve(g, t) PROVE AllResolve(g, u)
    <2> SUFFICES ASSUME NEW i \in 1..a + b PROVE ResolveSystem(g, u[i]) # Unresolved
        BY <1>1 DEF AllResolve
    <2>1. CASE i <= a
        <3>1. i \in 1..a
            BY <1>1, <2>1
        <3> QED BY <1>1, <1>3, <3>1 DEF AllResolve
    <2>2. CASE i > a
        <3>1. i - a \in 1..b /\ i = a + (i - a)
            BY <1>1, <2>2
        <3> QED BY <1>1, <1>3, <3>1 DEF AllResolve
    <2> QED BY <1>1, <2>1, <2>2
<1> QED BY <1>1, <1>2, <1>3 DEF u

----------------------------------------------------------------------------
(* Distances.                                                              *)

LEMMA SquaresGrow ==
    ASSUME NEW x \in Nat, NEW y \in Nat
    PROVE  /\ x * x \in Nat
           /\ x <= y => x * x <= y * y
           /\ x < y => x * x < y * y
<1>1. x * x \in Nat /\ y * y \in Nat /\ x * y \in Nat
    OBVIOUS
<1>2. ASSUME x <= y PROVE x * x <= y * y
    <2>1. x * x <= x * y
        BY <1>2
    <2>2. x * y <= y * y
        BY <1>2
    <2> QED BY <1>1, <2>1, <2>2
<1>3. ASSUME x < y PROVE x * x < y * y
    <2>1. x * x <= x * y
        BY <1>3
    <2>2. x * y < y * y
        BY <1>3
    <2> QED BY <1>1, <2>1, <2>2
<1> QED BY <1>1, <1>2, <1>3

(***************************************************************************)
(* Rounding to the nearest hundredth is defined.                           *)
(***************************************************************************)
IsRounded(square, r) ==
    /\ 4 * square >= (2 * r - 1) * (2 * r - 1) \/ r = 0
    /\ 4 * square < (2 * r + 1) * (2 * r + 1)

LEMMA RoundedExists ==
    ASSUME NEW square \in Nat
    PROVE  Round2(square) \in Nat /\ IsRounded(square, Round2(square))
<1> DEFINE T == {r \in Nat : 4 * square < (2 * r + 1) * (2 * r + 1)}
<1>1. (2 * square + 1) * (2 * square + 1) = 4 * (square * square) + 4 * square + 1
    OBVIOUS
<1>2. square * square \in Nat
    BY SquaresGrow
<1>3. square \in T
    BY <1>1, <1>2
<1>4. PICK r \in T : \A x \in T : r <= x
    <2> HIDE DEF T
    <2>1. T \subseteq Nat
        BY DEF T
    <2> QED BY <1>3, <2>1, LeastMember
<1>5. r \in 0..square
    <2>1. r <= square
        BY <1>3, <1>4
    <2> QED BY <2>1
<1>6. IsRounded(square, r)
    <2>1. CASE r = 0
        BY <2>1, <1>4 DEF IsRounded
    <2>2. CASE r # 0
        <3>1. r - 1 \in Nat /\ ~(r <= r - 1)
            BY <2>2
        <3>2. r - 1 \notin T
            BY <1>4, <3>1
        <3>3. ~(4 * square < (2 * (r - 1) + 1) * (2 * (r - 1) + 1))
            BY <3>1, <3>2
        <3>4. 2 * (r - 1) + 1 = 2 * r - 1 /\ 2 * r - 1 \in Nat
            BY <2>2
        <3>5. (2 * r - 1) * (2 * r - 1) \in Nat
            BY <3>4, SquaresGrow
        <3>6. (2 * (r - 1) + 1) * (2 * (r - 1) + 1) = (2 * r - 1) * (2 * r - 1)
            BY <3>4
        <3>7. ~(4 * square < (2 * r - 1) * (2 * r - 1)) /\ 4 * square \in Nat
            BY <3>3, <3>6
        <3>8. 4 * square >= (2 * r - 1) * (2 * r - 1)
            <4> HIDE DEF T
            <4> QED BY <3>5, <3>7
        <3>9. 4 * square < (2 * r + 1) * (2 * r + 1)
            BY <1>4
        <3> QED BY <3>8, <3>9 DEF IsRounded
    <2> QED BY <2>1, <2>2
<1>7. \E x \in 0..square : IsRounded(square, x)
    BY <1>5, <1>6
<1>8. Round2(square) = CHOOSE x \in 0..square : IsRounded(square, x)
    BY DEF Round2, IsRounded
<1> HIDE DEF T
<1>9. Round2(square) \in 0..square /\ IsRounded(square, Round2(square))
    BY <1>7, <1>8
<1> QED BY <1>9

(***************************************************************************)
(* The distance of two systems, squared, is the same from either.          *)
(***************************************************************************)
Square(s, t) ==
    LET d(i) == s.coords[i] - t.coords[i] IN d(1) * d(1) + d(2) * d(2) + d(3) * d(3)

LEMMA SquareFacts ==
    ASSUME NEW s \in SystemRow, NEW t \in SystemRow
    PROVE  Square(s, t) \in Nat /\ Square(s, t) = Square(t, s)
<1>1. \A i \in 1..3 : s.coords[i] \in Int /\ t.coords[i] \in Int
    BY DEF SystemRow
<1>2. \A x \in Int, y \in Int : /\ (x - y) * (x - y) \in Nat
                                /\ (x - y) * (x - y) = (y - x) * (y - x)
    <2> SUFFICES ASSUME NEW x \in Int, NEW y \in Int
                 PROVE  /\ (x - y) * (x - y) \in Nat
                        /\ (x - y) * (x - y) = (y - x) * (y - x)
        OBVIOUS
    <2>1. (x - y) * (x - y) = (y - x) * (y - x)
        OBVIOUS
    <2>2. CASE x - y \in Nat
        BY <2>2, SquaresGrow
    <2>3. CASE y - x \in Nat
        BY <2>1, <2>3, SquaresGrow
    <2> QED BY <2>1, <2>2, <2>3
<1> DEFINE d(i) == (s.coords[i] - t.coords[i]) * (s.coords[i] - t.coords[i])
           e(i) == (t.coords[i] - s.coords[i]) * (t.coords[i] - s.coords[i])
<1>3. \A i \in 1..3 : d(i) \in Nat /\ d(i) = e(i)
    BY <1>1, <1>2
<1>4. Square(s, t) = d(1) + d(2) + d(3) /\ Square(t, s) = e(1) + e(2) + e(3)
    BY DEF Square
<1> HIDE DEF d, e
<1>5. /\ d(1) \in Nat /\ d(2) \in Nat /\ d(3) \in Nat
      /\ d(1) = e(1) /\ d(2) = e(2) /\ d(3) = e(3)
    BY <1>3
<1> QED BY <1>4, <1>5

LEMMA DistanceIsSquare ==
    ASSUME NEW g, NEW m, NEW n
    PROVE  Distance2(g, m, n) = Square(SystemAt(g, m), SystemAt(g, n))
BY DEF Distance2, Square

(***************************************************************************)
(* A range is a number that misses the exact product by no more than one.  *)
(***************************************************************************)
LEMMA EffectiveFacts ==
    ASSUME NEW base_ly \in Nat, NEW bonus \in Nat, NEW level \in Nat
    PROVE  LET exact == base_ly * (100 + bonus * level)
               range == EffectiveLy(base_ly, bonus, level)
           IN  exact \in Nat /\ range \in Nat /\ range \in exact - 1..exact + 1
<1> DEFINE k == 100 + bonus * level
           exact == base_ly * k
           t == <<base_ly, bonus, level>>
<1>1. bonus * level \in Nat
    BY SMTT(30)
<1>2. k \in Nat /\ k > 0
    BY <1>1
<1> HIDE DEF k
<1>3. exact \in Nat
    BY <1>2, SMTT(30)
<1>4. base_ly > 0 => exact > 0
    <2> SUFFICES ASSUME base_ly > 0 PROVE exact > 0
        OBVIOUS
    <2>1. base_ly \in Nat \ {0} /\ k \in Nat \ {0}
        BY <1>2
    <2> QED BY <2>1, SMTT(30)
<1>5. t \in FallsShort => exact > 0
    <2>1. t[1] = base_ly
        OBVIOUS
    <2> QED BY <1>4, <2>1, RoundingAssumption
<1>6. EffectiveLy(base_ly, bonus, level) \in {exact - 1, exact, exact + 1}
          /\ (t \notin FallsShort => EffectiveLy(base_ly, bonus, level) # exact - 1)
    <2>1. EffectiveLy(base_ly, bonus, level) =
              IF t \in FallsShort THEN exact - 1 ELSE IF t \in Exceeds THEN exact + 1 ELSE exact
        BY DEF EffectiveLy, k
    <2> HIDE DEF exact, t
    <2> QED BY <1>3, <2>1
<1>7. exact = base_ly * (100 + bonus * level)
    BY DEF k
<1> HIDE DEF exact, t
<1> DEFINE range == EffectiveLy(base_ly, bonus, level)
<1>8. range \in Nat /\ range \in exact - 1..exact + 1
    <2> HIDE DEF range
    <2>1. range \in {exact - 1, exact, exact + 1} /\ (range = exact - 1 => exact > 0)
        BY <1>5, <1>6 DEF range
    <2> QED BY <1>3, <2>1
<1> HIDE DEF range
<1> QED BY <1>3, <1>7, <1>8 DEF range

(***************************************************************************)
(* What is well within a range is not out of it.                           *)
(***************************************************************************)
LEMMA InsideIsIn ==
    ASSUME NEW square \in Nat, NEW range \in Nat, Inside(square, range)
    PROVE  ~Outside(square, range)
<1> DEFINE p == (range - 1) * (range - 1)
           q == (range + 1) * (range + 1)
<1>1. range - 1 \in Nat /\ range + 1 \in Nat /\ range - 1 <= range + 1
    BY DEF Inside
<1>2. p \in Nat /\ q \in Nat /\ p <= q
    BY <1>1, SquaresGrow
<1>3. 10000 * square < p
    BY DEF Inside
<1>4. Outside(square, range) <=> 10000 * square > q
    BY DEF Outside
<1> HIDE DEF p, q
<1> QED BY <1>2, <1>3, <1>4

(***************************************************************************)
(* The spatial index holds the nodes that are not in wormhole space, and a *)
(* radius query finds those that are well within the range and none that   *)
(* are out of it.                                                          *)
(***************************************************************************)
LEMMA IndexIsKSpace ==
    ASSUME NEW raw, NEW b, IsParsed(raw)
    PROVE  LET g == BuildGraph(raw, b)
           IN  \A n : n \in g.spatial_index <=>
                          /\ n \in 0..Len(raw.systems) - 1
                          /\ SystemAt(g, n).sec # "wormhole"
<1> DEFINE g == BuildGraph(raw, b)
           m == Len(raw.systems)
<1>1. m \in Nat /\ DOMAIN raw.systems = 1..m
    BY ParsedFacts
<1>2. /\ g.systems = raw.systems
      /\ g.spatial_index = {i - 1 : i \in {k \in 1..m : raw.systems[k].sec # "wormhole"}}
    BY <1>1 DEF BuildGraph, SpatialIndex, IsWormhole
<1> HIDE DEF g, m
<1>3. ASSUME NEW n \in g.spatial_index
      PROVE  n \in 0..m - 1 /\ SystemAt(g, n).sec # "wormhole"
    <2>1. PICK i \in 1..m : n = i - 1 /\ raw.systems[i].sec # "wormhole"
        BY <1>2
    <2>2. n \in 0..m - 1 /\ n + 1 = i
        BY <1>1, <2>1
    <2> QED BY <1>2, <2>1, <2>2 DEF SystemAt
<1>4. ASSUME NEW n \in 0..m - 1, SystemAt(g, n).sec # "wormhole"
      PROVE  n \in g.spatial_index
    <2>1. n + 1 \in 1..m /\ (n + 1) - 1 = n
        BY <1>1
    <2>2. raw.systems[n + 1].sec # "wormhole"
        BY <1>2, <1>4 DEF SystemAt
    <2> QED BY <1>2, <2>1, <2>2
<1> QED BY <1>3, <1>4 DEF g, m

LEMMA HitsAreInRange ==
    ASSUME NEW g, NEW n, NEW range \in Nat,
           \A m \in g.spatial_index : Distance2(g, m, n) \in Nat,
           NEW hits \in Hits(g, n, range)
    PROVE  /\ \A m \in hits : /\ m \in g.spatial_index
                              /\ ~Outside(Distance2(g, m, n), range)
           /\ \A m \in g.spatial_index :
                  Inside(Distance2(g, m, n), range) => m \in hits
<1> DEFINE sure   == {m \in g.spatial_index : Inside(Distance2(g, m, n), range)}
           border == {m \in g.spatial_index \ sure : ~Outside(Distance2(g, m, n), range)}
<1>1. PICK some \in SUBSET border : hits = sure \cup some
    BY DEF Hits
<1>2. ASSUME NEW m \in hits
      PROVE  m \in g.spatial_index /\ ~Outside(Distance2(g, m, n), range)
    <2>1. CASE m \in sure
        <3>1. m \in g.spatial_index /\ Inside(Distance2(g, m, n), range)
            BY <2>1
        <3> QED BY <3>1, InsideIsIn
    <2>2. CASE m \in some
        BY <2>2
    <2> QED BY <1>1, <2>1, <2>2
<1> QED BY <1>1, <1>2

----------------------------------------------------------------------------
(* Hulls.                                                                  *)

MeansHull(ref, h) ==
    IF ref.by = "id" THEN h.type_id = ref.key ELSE Lower[h.name] = Lower[ref.key]

LEMMA HullFinds ==
    ASSUME NEW raw, raw.hulls \in Seq(HullRow), NEW ref
    PROVE  LET h == ResolveHull(FromRaw(raw), ref)
           IN  /\ h # NoHull => h \in ToSet(raw.hulls) /\ h \in HullRow /\ MeansHull(ref, h)
               /\ h = NoHull => \A x \in ToSet(raw.hulls) : ~MeansHull(ref, x)
<1> DEFINE rows == raw.hulls
           n  == Len(rows)
           ks == IF ref.by = "id" THEN [i \in DOMAIN rows |-> rows[i].type_id]
                                  ELSE LowerNames(rows)
           k  == IF ref.by = "id" THEN ref.key ELSE Lower[ref.key]
           h  == ResolveHull(FromRaw(raw), ref)
<1>1. n \in Nat /\ DOMAIN rows = 1..n /\ \A i \in 1..n : rows[i] \in HullRow
    OBVIOUS
<1>2. /\ DOMAIN ks = 1..n
      /\ \A i \in 1..n : ks[i] = k <=> MeansHull(ref, rows[i])
    BY <1>1 DEF LowerNames, MeansHull
<1>3. h = IF k \in DOMAIN LastBy(ks) THEN rows[LastBy(ks)[k]] ELSE NoHull
    BY DEF ResolveHull, FromRaw
<1>4. DOMAIN LastBy(ks) = ToSet(ks)
    BY DEF LastBy
<1>5. ToSet(rows) = {rows[i] : i \in 1..n}
    BY <1>1 DEF ToSet
<1>6. ToSet(ks) = {ks[i] : i \in 1..n}
    <2> HIDE DEF ks
    <2> QED BY <1>2 DEF ToSet
<1>7. \A x \in HullRow : x # NoHull
    BY DEF HullRow, NoHull
<1> HIDE DEF ks, k, h, n, rows
<1>8. CASE k \in ToSet(ks)
    <2>1. LastBy(ks)[k] \in 1..n /\ ks[LastBy(ks)[k]] = k
        BY <1>1, <1>2, <1>8, LastByIsLast
    <2>2. h = rows[LastBy(ks)[k]]
        BY <1>3, <1>4, <1>8
    <2> QED BY <1>1, <1>2, <1>5, <1>7, <2>1, <2>2 DEF h, rows
<1>9. CASE k \notin ToSet(ks)
    <2>1. h = NoHull
        BY <1>3, <1>4, <1>9
    <2> QED BY <1>2, <1>5, <1>6, <1>9, <2>1 DEF h, rows
<1> QED BY <1>8, <1>9

(***************************************************************************)
(* The least range of a group is that of one of its rows and no greater    *)
(* than that of any.                                                       *)
(***************************************************************************)
LEMMA LeastIsMin ==
    ASSUME NEW T, T \subseteq Nat, T # {}
    PROVE  Min(T) \in T /\ \A x \in T : Min(T) <= x
<1>1. \E x \in T : \A y \in T : x <= y
    BY LeastMember
<1> QED BY <1>1 DEF Min

LEMMA GroupMinimum ==
    ASSUME NEW raw, raw.hulls \in Seq(HullRow), NEW group
    PROVE  LET mins == FromRaw(raw).min_base_ly_by_group
               rows == {h \in ToSet(raw.hulls) : h.group_id = group}
           IN  /\ group \in DOMAIN mins <=> rows # {}
               /\ group \in DOMAIN mins =>
                     /\ \E h \in rows : h.base_ly = mins[group]
                     /\ \A h \in rows : mins[group] <= h.base_ly
<1> DEFINE mins == FromRaw(raw).min_base_ly_by_group
           rows == {h \in ToSet(raw.hulls) : h.group_id = group}
           T    == {h.base_ly : h \in rows}
<1>1. mins = MinBaseLyByGroup(raw.hulls)
    BY DEF FromRaw
<1>2. \A h \in ToSet(raw.hulls) : h \in HullRow
    BY DEF ToSet
<1>3. group \in DOMAIN mins <=> rows # {}
    BY <1>1 DEF MinBaseLyByGroup
<1>4. ASSUME group \in DOMAIN mins
      PROVE  /\ \E h \in rows : h.base_ly = mins[group]
             /\ \A h \in rows : mins[group] <= h.base_ly
    <2>1. mins[group] = Min(T)
        BY <1>1, <1>4 DEF MinBaseLyByGroup
    <2>2. T \subseteq Nat /\ T # {}
        BY <1>2, <1>3, <1>4 DEF HullRow
    <2> HIDE DEF T
    <2>3. Min(T) \in T /\ \A x \in T : Min(T) <= x
        BY <2>2, LeastIsMin
    <2> QED BY <2>1, <2>3 DEF T
<1> QED BY <1>3, <1>4

----------------------------------------------------------------------------
(* Orders.                                                                 *)

(***************************************************************************)
(* What SetToSeqs gives: each member once.                                 *)
(***************************************************************************)
LEMMA EnumerationFacts ==
    ASSUME NEW D, IsFiniteSet(D), NEW o \in SetToSeqs(D)
    PROVE  LET n == Cardinality(D)
           IN  /\ n \in Nat /\ o \in [1..n -> D] /\ o \in Seq(D) /\ Len(o) = n
               /\ \A i, j \in 1..n : i # j => o[i] # o[j]
               /\ \A x \in D : \E i \in 1..n : o[i] = x
<1> DEFINE n == Cardinality(D)
<1>1. n \in Nat
    BY FS_CardinalityType
<1>2. o \in [1..n -> D] /\ \A i, j \in 1..n : i # j => o[i] # o[j]
    BY DEF SetToSeqs
<1> HIDE DEF n
<1>3. o \in Seq(D) /\ Len(o) = n
    BY <1>1, <1>2
<1>4. o \in Injection(1..n, D)
    BY <1>2 DEF Injection, IsInjective
<1>5. Cardinality(1..n) = n
    BY <1>1, FS_Interval, SMTT(30)
<1>6. o \in Surjection(1..n, D)
    BY <1>4, <1>5, FS_Injection DEF n
<1>7. \A x \in D : \E i \in 1..n : o[i] = x
    BY <1>6 DEF Surjection
<1> QED BY <1>1, <1>2, <1>3, <1>7 DEF n

(***************************************************************************)
(* A finite set with a total order has a greatest member, and can be put   *)
(* in order.                                                               *)
(***************************************************************************)
IsOrder(D, R) ==
    /\ \A x \in D : <<x, x>> \notin R
    /\ \A x, y \in D : x = y \/ <<x, y>> \in R \/ <<y, x>> \in R
    /\ \A x, y, z \in D : <<x, y>> \in R /\ <<y, z>> \in R => <<x, z>> \in R

LEMMA GreatestExists ==
    ASSUME NEW D, NEW R, IsOrder(D, R), NEW E \in SUBSET D, IsFiniteSet(E), E # {}
    PROVE  \E y \in E : \A x \in E \ {y} : <<x, y>> \in R
<1> DEFINE Has(F) == \E y \in F : \A x \in F \ {y} : <<x, y>> \in R
           S == {n \in Nat : \A F \in SUBSET D :
                    IsFiniteSet(F) /\ Cardinality(F) = n + 1 => Has(F)}
<1>1. 0 \in S
    <2> SUFFICES ASSUME NEW F \in SUBSET D, IsFiniteSet(F), Cardinality(F) = 1 PROVE Has(F)
        BY Z3
    <2>1. PICK y : F = {y}
        BY FS_Singleton
    <2> QED BY <2>1
<1>2. ASSUME NEW n \in Nat, n \in S PROVE n + 1 \in S
    <2> SUFFICES ASSUME NEW F \in SUBSET D, IsFiniteSet(F), Cardinality(F) = (n + 1) + 1
                 PROVE  Has(F)
        OBVIOUS
    <2>1. F # {}
        BY FS_EmptySet
    <2>2. PICK a \in F : TRUE
        BY <2>1
    <2>3. /\ F \ {a} \in SUBSET D /\ IsFiniteSet(F \ {a})
          /\ Cardinality(F \ {a}) = n + 1
        BY FS_RemoveElement
    <2>4. PICK y \in F \ {a} : \A x \in (F \ {a}) \ {y} : <<x, y>> \in R
        BY <1>2, <2>3
    <2>5. CASE <<a, y>> \in R
        BY <2>4, <2>5
    <2>6. CASE <<y, a>> \in R
        <3>1. \A x \in F \ {a} : <<x, a>> \in R
            BY <2>4, <2>6 DEF IsOrder
        <3> QED BY <3>1
    <2> QED BY <2>4, <2>5, <2>6 DEF IsOrder
<1>3. Cardinality(E) \in Nat /\ Cardinality(E) # 0
    BY FS_CardinalityType, FS_EmptySet
<1>4. Cardinality(E) - 1 \in Nat /\ (Cardinality(E) - 1) + 1 = Cardinality(E)
    BY <1>3
<1>5. Cardinality(E) - 1 \in S
    <2> HIDE DEF S
    <2> QED BY <1>1, <1>2, <1>4, SetInduction
<1> QED BY <1>4, <1>5

LEMMA SortedExists ==
    ASSUME NEW D, IsFiniteSet(D), NEW R, IsOrder(D, R)
    PROVE  \E o \in SetToSeqs(D) : \A i, j \in DOMAIN o : i < j => <<o[i], o[j]>> \in R
<1> DEFINE Sorted(F, n) ==
               \E o \in [1..n -> F] : \A i, j \in 1..n : i < j => <<o[i], o[j]>> \in R
           S == {n \in Nat : \A F \in SUBSET D :
                    IsFiniteSet(F) /\ Cardinality(F) = n => Sorted(F, n)}
<1>1. 0 \in S
    <2>1. \A F : \A o \in [1..0 -> F] : \A i, j \in 1..0 : i < j => <<o[i], o[j]>> \in R
        OBVIOUS
    <2>2. \A F : << >> \in [1..0 -> F]
        OBVIOUS
    <2> QED BY <2>1, <2>2
<1>2. ASSUME NEW n \in Nat, n \in S PROVE n + 1 \in S
    <2> SUFFICES ASSUME NEW F \in SUBSET D, IsFiniteSet(F), Cardinality(F) = n + 1
                 PROVE  Sorted(F, n + 1)
        OBVIOUS
    <2>1. F # {}
        BY FS_EmptySet
    <2>2. PICK y \in F : \A x \in F \ {y} : <<x, y>> \in R
        BY <2>1, GreatestExists
    <2>3. /\ F \ {y} \in SUBSET D /\ IsFiniteSet(F \ {y})
          /\ Cardinality(F \ {y}) = n
        BY FS_RemoveElement, SMTT(20)
    <2>4. PICK o \in [1..n -> F \ {y}] :
              \A i, j \in 1..n : i < j => <<o[i], o[j]>> \in R
        BY <1>2, <2>3
    <2> DEFINE p == [i \in 1..n + 1 |-> IF i = n + 1 THEN y ELSE o[i]]
    <2>5. \A i \in 1..n + 1 : (i = n + 1 /\ p[i] = y) \/ (i \in 1..n /\ p[i] = o[i])
        OBVIOUS
    <2>6. p \in [1..n + 1 -> F]
        <3>1. \A i \in 1..n + 1 : (IF i = n + 1 THEN y ELSE o[i]) \in F
            OBVIOUS
        <3> QED BY <3>1
    <2> HIDE DEF p
    <2>7. ASSUME NEW i \in 1..n + 1, NEW j \in 1..n + 1, i < j
          PROVE  <<p[i], p[j]>> \in R
        <3>1. i \in 1..n /\ p[i] = o[i] /\ o[i] \in F \ {y}
            BY <2>5, <2>7
        <3>2. CASE j = n + 1
            BY <2>2, <2>5, <3>1, <3>2
        <3>3. CASE j \in 1..n
            BY <2>4, <2>5, <2>7, <3>1, <3>3
        <3> QED BY <3>2, <3>3
    <2> QED BY <2>6, <2>7
<1> DEFINE m == Cardinality(D)
<1>3. m \in Nat
    BY FS_CardinalityType
<1>4. m \in S
    <2> HIDE DEF S
    <2> QED BY <1>1, <1>2, <1>3, SetInduction
<1>5. PICK o \in [1..m -> D] : \A i, j \in 1..m : i < j => <<o[i], o[j]>> \in R
    BY <1>4
<1>6. ASSUME NEW i \in 1..m, NEW j \in 1..m, i # j PROVE o[i] # o[j]
    <2>1. i < j \/ j < i
        BY <1>3, <1>6
    <2>2. <<o[i], o[j]>> \in R \/ <<o[j], o[i]>> \in R
        BY <1>5, <2>1
    <2> QED BY <1>5, <2>2 DEF IsOrder
<1>7. o \in SetToSeqs(D)
    BY <1>5, <1>6 DEF SetToSeqs
<1> QED BY <1>5, <1>7
=============================================================================
