--------------------------- MODULE DijkstraProofs ---------------------------
(***************************************************************************)
(* Proofs about Dijkstra for any graph, any contexts and any number of     *)
(* searches.                                                               *)
(***************************************************************************)
EXTENDS Dijkstra, RouteProofs

(***************************************************************************)
(* The inductive invariant: TypeOK and, about a running search,            *)
(***************************************************************************)
\* the source is at distance 0,
SourceInv == pc # "idle" => dist[from] = 0

\* every labelled node that is not settled is on the heap with its label,
FrontierInv ==
    pc = "search" =>
        \A n \in Nodes \ visited :
            dist[n] # INFINITY => [dist |-> dist[n], node |-> n] \in heap

\* no entry is below its node's label.
HeapInv ==
    pc = "search" =>
        \A i \in heap : dist[i.node] # INFINITY /\ dist[i.node] <= i.dist

IInv ==
    /\ TypeOK
    /\ SourceInv
    /\ FrontierInv
    /\ HeapInv
    /\ SettledAreRelaxed
    /\ PredecessorChainIntact
----------------------------------------------------------------------------
(***************************************************************************)
(* What pop returns for a node that is not settled is the node's label:    *)
(* the entry with that label is on the heap and would pop before.          *)
(***************************************************************************)
LEMMA PoppedIsLabel ==
    ASSUME TypeOK, FrontierInv, HeapInv, pc = "search",
           NEW i \in heap, Popped(i), i.node \notin visited
    PROVE  dist[i.node] = i.dist
<1>1. /\ i.dist \in Nat /\ i.node \in Nodes
      /\ dist[i.node] \in Nat \cup {INFINITY}
    BY DEF TypeOK, Entry
<1> DEFINE j == [dist |-> dist[i.node], node |-> i.node]
<1>2. j \in heap /\ dist[i.node] # INFINITY /\ dist[i.node] <= i.dist
    BY <1>1 DEF FrontierInv, HeapInv
<1>3. CASE j = i
    BY <1>3
<1>4. CASE j # i
    <2>1. PopsBefore(i, j)
        BY <1>2, <1>4 DEF Popped
    <2> QED BY <1>1, <1>2, <2>1 DEF PopsBefore, INFINITY
<1> QED BY <1>3, <1>4

(***************************************************************************)
(* What a Settle step does: the popped entry carries the label, so it is   *)
(* expanded, and exactly the improved neighbours change.                   *)
(***************************************************************************)
LEMMA SettleEffect ==
    ASSUME IInv, NEW i \in heap, Settle(i)
    PROVE  /\ pc = "search" /\ pc' = "search" /\ from' = from /\ ctx' = ctx
           /\ i.dist \in Nat /\ i.node \in Nodes \ visited
           /\ dist[i.node] = i.dist
           /\ visited' = visited \cup {i.node}
           /\ Improved(i) \subseteq Nodes \ (visited \cup {i.node})
           /\ dist' \in [Nodes -> Nat \cup {INFINITY}]
           /\ prev' \in [Nodes -> Nodes \cup {NO_PREV}]
           /\ \A n \in Improved(i) :
                  /\ dist'[n] = i.dist + EdgeWeight(ctx, i.node, n)
                  /\ prev'[n] = i.node
                  /\ Closer(dist'[n], dist[n])
           /\ \A n \in Nodes \ Improved(i) :
                  dist'[n] = dist[n] /\ prev'[n] = prev[n]
           /\ heap' = (heap \ {i}) \cup
                  {[dist |-> i.dist + EdgeWeight(ctx, i.node, n), node |-> n] :
                      n \in Improved(i)}
<1>1. /\ pc = "search" /\ pc' = "search" /\ from' = from /\ ctx' = ctx
      /\ visited' = visited \cup {i.node} /\ i.node \notin visited
      /\ Popped(i)
    BY DEF Settle, request
<1>2. i.dist \in Nat /\ i.node \in Nodes
    BY DEF IInv, TypeOK, Entry
<1>3. dist[i.node] = i.dist
    BY <1>1, PoppedIsLabel DEF IInv
<1>4. ~Outdated(i)
    BY <1>2, <1>3 DEF Outdated
<1>5. Improved(i) \subseteq Nodes \ (visited \cup {i.node})
    BY NeighborsAreNodes DEF Improved
<1> DEFINE B == Improved(i)
           new(n) == i.dist + EdgeWeight(ctx, i.node, n)
<1>6. /\ dist' = [n \in Nodes |-> IF n \in B THEN new(n) ELSE dist[n]]
      /\ prev' = [n \in Nodes |-> IF n \in B THEN i.node ELSE prev[n]]
      /\ heap' = (heap \ {i}) \cup {[dist |-> new(n), node |-> n] : n \in B}
    BY <1>4 DEF Settle, Relax
<1>7. \A n \in B : Closer(new(n), dist[n])
    BY DEF Improved
<1>8. \A n \in Nodes : new(n) \in Nat
    BY <1>2, WeightIsPositive
<1> HIDE DEF B, new
<1>9. /\ dist' \in [Nodes -> Nat \cup {INFINITY}]
      /\ prev' \in [Nodes -> Nodes \cup {NO_PREV}]
    BY <1>2, <1>6, <1>8 DEF IInv, TypeOK
<1>10. /\ \A n \in B : /\ dist'[n] = new(n) /\ prev'[n] = i.node
                       /\ Closer(dist'[n], dist[n])
       /\ \A n \in Nodes \ B : dist'[n] = dist[n] /\ prev'[n] = prev[n]
    BY <1>5, <1>6, <1>7 DEF B
<1> QED BY <1>1, <1>2, <1>3, <1>5, <1>6, <1>9, <1>10 DEF B, new
(***************************************************************************)
(* A Settle step keeps the invariant, conjunct by conjunct.                *)
(***************************************************************************)
LEMMA SettlePreservesIInv ==
    ASSUME IInv, NEW i \in heap, Settle(i)
    PROVE  IInv'
<1> DEFINE u == i.node
           new(n) == i.dist + EdgeWeight(ctx, u, n)
<1>1. /\ pc = "search" /\ pc' = "search" /\ from' = from /\ ctx' = ctx
      /\ i.dist \in Nat /\ u \in Nodes \ visited
      /\ dist[u] = i.dist
      /\ visited' = visited \cup {u}
      /\ Improved(i) \subseteq Nodes \ (visited \cup {u})
      /\ dist' \in [Nodes -> Nat \cup {INFINITY}]
      /\ prev' \in [Nodes -> Nodes \cup {NO_PREV}]
      /\ \A n \in Improved(i) :
             dist'[n] = new(n) /\ prev'[n] = u /\ Closer(dist'[n], dist[n])
      /\ \A n \in Nodes \ Improved(i) :
             dist'[n] = dist[n] /\ prev'[n] = prev[n]
      /\ heap' = (heap \ {i}) \cup
             {[dist |-> new(n), node |-> n] : n \in Improved(i)}
    BY SettleEffect
<1>2. /\ TypeOK
      /\ from \in Nodes /\ visited \subseteq Nodes /\ heap \subseteq Entry
      /\ \A n \in Nodes : dist[n] \in Nat \cup {INFINITY}
      /\ \A n \in Nodes : dist'[n] \in Nat \cup {INFINITY}
    BY <1>1 DEF IInv, TypeOK
<1>3. \A a, n \in Nodes : EdgeWeight(ctx, a, n) \in Nat /\ EdgeWeight(ctx, a, n) >= 1
    BY WeightIsPositive
<1>4. \A n \in Improved(i) : new(n) \in Nat /\ new(n) > i.dist
    BY <1>1, <1>3
\* Settled nodes are below the popped entry, and it is below the rest.
<1>5. /\ \A w \in visited : dist[w] \in Nat /\ dist[w] <= i.dist
      /\ \A j \in heap : i.dist <= j.dist
    <2>1. \A w \in visited : dist[w] \in Nat /\ dist[w] <= i.dist
        BY <1>1, <1>2 DEF IInv, SettledAreRelaxed
    <2>2. \A j \in heap \ {i} : PopsBefore(i, j)
        BY DEF Settle, Popped
    <2> QED BY <1>1, <1>2, <2>1, <2>2 DEF PopsBefore, Entry
<1>6. \A w \in visited \cup {u} : dist'[w] = dist[w]
    BY <1>1, <1>2
<1>7. heap' \subseteq Entry
    BY <1>1, <1>2, <1>4 DEF Entry
<1> HIDE DEF u, new
<1>8. TypeOK'
    BY <1>1, <1>2, <1>7 DEF TypeOK, Settle, request
<1>9. SourceInv'
    <2>1. dist[from] = 0
        BY <1>1 DEF IInv, SourceInv
    <2>2. CASE from \in Improved(i)
        BY <1>1, <1>2, <1>4, <2>1, <2>2 DEF Closer, INFINITY
    <2>3. CASE from \notin Improved(i)
        BY <1>1, <1>2, <2>1, <2>3 DEF SourceInv
    <2> QED BY <2>2, <2>3
<1>10. FrontierInv'
    <2> SUFFICES ASSUME NEW n \in Nodes, n \notin visited', dist'[n] # INFINITY
                 PROVE  [dist |-> dist'[n], node |-> n] \in heap'
        BY DEF FrontierInv
    <2>1. CASE n \in Improved(i)
        BY <1>1, <2>1
    <2>2. CASE n \notin Improved(i)
        <3>1. [dist |-> dist[n], node |-> n] \in heap
            BY <1>1, <2>2 DEF IInv, FrontierInv
        <3>2. [dist |-> dist[n], node |-> n] # i
            BY <1>1 DEF u
        <3> QED BY <1>1, <2>2, <3>1, <3>2
    <2> QED BY <2>1, <2>2
<1>11. HeapInv'
    <2> SUFFICES ASSUME NEW j \in heap'
                 PROVE  dist'[j.node] # INFINITY /\ dist'[j.node] <= j.dist
        BY DEF HeapInv
    <2>1. CASE j \in heap
        <3>1. /\ j.node \in Nodes /\ j.dist \in Nat
              /\ dist[j.node] # INFINITY /\ dist[j.node] <= j.dist
            BY <1>1, <1>2, <2>1 DEF IInv, HeapInv, Entry
        <3>2. CASE j.node \in Improved(i)
            BY <1>1, <1>2, <1>4, <3>1, <3>2 DEF Closer, INFINITY
        <3>3. CASE j.node \notin Improved(i)
            BY <1>1, <3>1, <3>3
        <3> QED BY <3>2, <3>3
    <2>2. CASE j \notin heap
        <3>1. PICK n \in Improved(i) : j = [dist |-> new(n), node |-> n]
            BY <1>1, <2>2
        <3> QED BY <1>1, <1>4, <3>1 DEF INFINITY
    <2> QED BY <2>1, <2>2
<1>12. SettledAreRelaxed'
    <2> SUFFICES ASSUME NEW w \in visited'
                 PROVE  /\ dist'[w] # INFINITY
                        /\ \A n \in Neighbors(ctx, w) :
                              /\ dist'[n] # INFINITY
                              /\ dist'[n] <= dist'[w] + EdgeWeight(ctx, w, n)
                        /\ \A j \in heap' : dist'[w] <= j.dist
        BY <1>1 DEF SettledAreRelaxed
    <2>1. /\ w \in Nodes /\ dist'[w] = dist[w] /\ dist[w] \in Nat
          /\ dist[w] <= i.dist
        BY <1>1, <1>2, <1>5, <1>6
    <2>2. ASSUME NEW j \in heap' PROVE dist'[w] <= j.dist
        <3>1. CASE j \in heap
            BY <1>1, <1>2, <1>5, <2>1, <3>1 DEF Entry
        <3>2. CASE j \notin heap
            <4>1. PICK n \in Improved(i) : j = [dist |-> new(n), node |-> n]
                BY <1>1, <3>2
            <4> QED BY <1>1, <1>4, <2>1, <4>1
        <3> QED BY <3>1, <3>2
    <2>3. ASSUME NEW n \in Neighbors(ctx, w)
          PROVE  dist'[n] # INFINITY /\ dist'[n] <= dist'[w] + EdgeWeight(ctx, w, n)
        <3>1. n \in Nodes /\ EdgeWeight(ctx, w, n) \in Nat
            BY <1>3, <2>1, NeighborsAreNodes
        <3>2. CASE w = u
            <4>1. CASE n \in Improved(i)
                BY <1>1, <1>4, <2>1, <3>1, <3>2, <4>1 DEF new, INFINITY
            <4>2. CASE n \in visited \cup {u}
                BY <1>1, <1>5, <1>6, <2>1, <3>1, <3>2, <4>2 DEF INFINITY
            <4>3. CASE n \notin Improved(i) \cup visited \cup {u}
                <5>1. ~Closer(i.dist + EdgeWeight(ctx, u, n), dist[n])
                    BY <3>2, <4>3 DEF Improved, u
                <5> QED BY <1>1, <1>2, <2>1, <3>1, <3>2, <4>3, <5>1
                        DEF Closer, INFINITY
            <4> QED BY <4>1, <4>2, <4>3
        <3>3. CASE w # u
            <4>1. /\ dist[n] # INFINITY
                  /\ dist[n] <= dist[w] + EdgeWeight(ctx, w, n)
                BY <1>1, <3>3 DEF IInv, SettledAreRelaxed
            <4>2. CASE n \in Improved(i)
                BY <1>1, <1>2, <1>4, <2>1, <3>1, <4>1, <4>2 DEF Closer, INFINITY
            <4>3. CASE n \notin Improved(i)
                BY <1>1, <2>1, <3>1, <4>1, <4>3
            <4> QED BY <4>2, <4>3
        <3> QED BY <3>2, <3>3
    <2> QED BY <2>1, <2>2, <2>3 DEF INFINITY
<1>13. PredecessorChainIntact'
    <2> SUFFICES ASSUME NEW n \in Nodes \ {from}, dist'[n] # INFINITY
                 PROVE  /\ prev'[n] \in visited'
                        /\ n \in Neighbors(ctx, prev'[n])
                        /\ dist'[n] = dist'[prev'[n]]
                                        + EdgeWeight(ctx, prev'[n], n)
        BY <1>1 DEF PredecessorChainIntact
    <2>1. CASE n \in Improved(i)
        BY <1>1, <1>6, <2>1 DEF Improved, new, u
    <2>2. CASE n \notin Improved(i)
        <3>1. /\ prev[n] \in visited
              /\ n \in Neighbors(ctx, prev[n])
              /\ dist[n] = dist[prev[n]] + EdgeWeight(ctx, prev[n], n)
            BY <1>1, <2>2 DEF IInv, PredecessorChainIntact
        <3> QED BY <1>1, <1>6, <2>2, <3>1
    <2> QED BY <2>1, <2>2
<1> QED BY <1>8, <1>9, <1>10, <1>11, <1>12, <1>13 DEF IInv
----------------------------------------------------------------------------
(***************************************************************************)
(* Initially nothing is searched.                                          *)
(***************************************************************************)
LEMMA InitEstablishesIInv == Init => IInv
<1> SUFFICES ASSUME Init PROVE IInv
    OBVIOUS
<1>1. ctx \in Requests /\ from \in Nodes
    BY NodesAssumption, RequestsAssumption DEF Init
<1> QED
    BY <1>1 DEF Init, IInv, TypeOK, SourceInv, FrontierInv, HeapInv,
                SettledAreRelaxed, PredecessorChainIntact

(***************************************************************************)
(* A search begins with reset buffers and the source alone on the heap,    *)
(* whatever the search before left in them.                                *)
(***************************************************************************)
LEMMA BeginEstablishesIInv ==
    ASSUME IInv, NEW k \in {"single", "multi"}, NEW c \in Requests,
           NEW s \in Nodes, NEW T \in SUBSET Nodes, Begin(k, c, s, T)
    PROVE  IInv'
<1>1. /\ dist' \in [Nodes -> Nat \cup {INFINITY}] /\ dist'[s] = 0
      /\ \A n \in Nodes \ {s} : dist'[n] = INFINITY
      /\ prev' \in [Nodes -> Nodes \cup {NO_PREV}] /\ visited' = {}
    BY DEF Begin, Reset
<1>2. heap' = {[dist |-> 0, node |-> s]} /\ from' = s /\ pc' = "search"
    BY DEF Begin
<1>3. TypeOK'
    BY <1>1, <1>2 DEF Begin, IInv, TypeOK, Entry
<1>4. SourceInv' /\ FrontierInv' /\ HeapInv'
    BY <1>1, <1>2 DEF SourceInv, FrontierInv, HeapInv, INFINITY
<1>5. SettledAreRelaxed' /\ PredecessorChainIntact'
    BY <1>1, <1>2 DEF SettledAreRelaxed, PredecessorChainIntact
<1> QED BY <1>3, <1>4, <1>5 DEF IInv

(***************************************************************************)
(* Dropping an outdated entry keeps the invariant: the label of its node   *)
(* is settled.                                                             *)
(***************************************************************************)
LEMMA SkipPreservesIInv ==
    ASSUME IInv, NEW i \in heap, SkipVisited(i)
    PROVE  IInv'
<1>1. TypeOK' /\ SourceInv' /\ PredecessorChainIntact'
    BY DEF IInv, TypeOK, SourceInv, PredecessorChainIntact, SkipVisited,
           request, scratch
<1>2. FrontierInv' /\ HeapInv'
    BY DEF IInv, FrontierInv, HeapInv, SkipVisited, request, scratch
<1>3. SettledAreRelaxed'
    BY DEF IInv, SettledAreRelaxed, SkipVisited, request, scratch
<1> QED BY <1>1, <1>2, <1>3 DEF IInv

(***************************************************************************)
(* The end of a search leaves the labels alone.                            *)
(***************************************************************************)
LEMMA EndPreservesIInv ==
    ASSUME IInv, Exhausted \/ \E i \in heap : SettleLast(i)
    PROVE  IInv'
<1>1. /\ pc' = "done" /\ from' = from /\ ctx' = ctx /\ dist' = dist
      /\ prev' = prev /\ visited \subseteq visited' /\ pc # "idle"
    BY DEF Exhausted, SettleLast, Answer, request, scratch
<1>2. TypeOK'
    BY DEF IInv, TypeOK, Entry, Exhausted, SettleLast, Answer, request, scratch
<1>3. SourceInv' /\ PredecessorChainIntact'
    BY <1>1 DEF IInv, SourceInv, PredecessorChainIntact
<1>4. FrontierInv' /\ HeapInv' /\ SettledAreRelaxed'
    BY <1>1 DEF FrontierInv, HeapInv, SettledAreRelaxed
<1> QED BY <1>2, <1>3, <1>4 DEF IInv

(***************************************************************************)
(* Every step preserves the invariant.                                     *)
(***************************************************************************)
LEMMA NextPreservesIInv == IInv /\ [Next]_vars => IInv'
<1> SUFFICES ASSUME IInv, [Next]_vars PROVE IInv'
    OBVIOUS
<1>1. ASSUME NEW c \in Requests, NEW s \in Nodes, NEW t \in Nodes,
             ShortestPath(c, s, t)
      PROVE  IInv'
    <2>1. Begin("single", c, s, {t}) /\ {t} \in SUBSET Nodes
        BY <1>1 DEF ShortestPath
    <2> QED BY <2>1, BeginEstablishesIInv
<1>2. ASSUME NEW c \in Requests, NEW s \in Nodes,
             NEW T \in SUBSET Nodes \ {{}}, ShortestPathMulti(c, s, T)
      PROVE  IInv'
    <2>1. Begin("multi", c, s, T) /\ T \in SUBSET Nodes
        BY <1>2 DEF ShortestPathMulti
    <2> QED BY <2>1, BeginEstablishesIInv
<1>3. CASE \E i \in heap : SkipVisited(i)
    BY <1>3, SkipPreservesIInv
<1>4. CASE \E i \in heap : Settle(i)
    BY <1>4, SettlePreservesIInv
<1>5. CASE Exhausted \/ \E i \in heap : SettleLast(i)
    BY <1>5, EndPreservesIInv
<1>6. CASE UNCHANGED vars
    BY <1>6 DEF vars, request, scratch, IInv, TypeOK, SourceInv, FrontierInv,
                HeapInv, SettledAreRelaxed, PredecessorChainIntact
<1> QED BY <1>1, <1>2, <1>3, <1>4, <1>5, <1>6 DEF Next

(***************************************************************************)
(* The inductive invariant holds in every reachable state.                 *)
(***************************************************************************)
THEOREM Invariance == Spec => []IInv
<1>1. Init => IInv
    BY InitEstablishesIInv
<1>2. IInv /\ [Next]_vars => IInv'
    BY NextPreservesIInv
<1> QED BY <1>1, <1>2, PTL DEF Spec

(***************************************************************************)
(* Every variable keeps its type.                                          *)
(***************************************************************************)
THEOREM TypeCorrect == Spec => []TypeOK
<1>1. IInv => TypeOK
    BY DEF IInv
<1> QED BY <1>1, Invariance, PTL

(***************************************************************************)
(* The settled labels are a certificate: every edge out of a settled node  *)
(* is relaxed and nothing pending is below a settled node.                 *)
(***************************************************************************)
THEOREM SettledLabelsAreFinal == Spec => []SettledAreRelaxed
<1>1. IInv => SettledAreRelaxed
    BY DEF IInv
<1> QED BY <1>1, Invariance, PTL

(***************************************************************************)
(* reconstruct_path never meets a broken predecessor chain.                *)
(***************************************************************************)
THEOREM ChainNeverBreaks == Spec => []PredecessorChainIntact
<1>1. IInv => PredecessorChainIntact
    BY DEF IInv
<1> QED BY <1>1, Invariance, PTL

(***************************************************************************)
(* The staleness test after the visited test never skips anything.         *)
(***************************************************************************)
THEOREM StalenessTestIsRedundant == Spec => []PoppedEntriesAreCurrent
<1>1. IInv => PoppedEntriesAreCurrent
    BY PoppedIsLabel DEF IInv, PoppedEntriesAreCurrent
<1> QED BY <1>1, Invariance, PTL

(***************************************************************************)
(* Within a search a settled node keeps its distance and predecessor.      *)
(***************************************************************************)
THEOREM SettledNodesKeepLabels == Spec => SettledStaySettled
<1> DEFINE Keeps == \A u \in visited : /\ u \in visited'
                                      /\ dist'[u] = dist[u] /\ prev'[u] = prev[u]
<1>1. ASSUME IInv, [Next]_vars, pc = "search" PROVE Keeps
    <2>1. CASE \E i \in heap : Settle(i)
        <3>1. PICK i \in heap : Settle(i)
            BY <2>1
        <3>2. /\ visited' = visited \cup {i.node}
              /\ Improved(i) \subseteq Nodes \ (visited \cup {i.node})
              /\ \A n \in Nodes \ Improved(i) :
                     dist'[n] = dist[n] /\ prev'[n] = prev[n]
            BY <1>1, <3>1, SettleEffect
        <3> QED BY <1>1, <3>2 DEF IInv, TypeOK
    <2>2. CASE \E i \in heap : SkipVisited(i) \/ SettleLast(i)
        BY <2>2 DEF SkipVisited, SettleLast, scratch
    <2>3. CASE Exhausted \/ UNCHANGED vars
        BY <2>3 DEF Exhausted, scratch, vars
    <2> QED BY <1>1, <2>1, <2>2, <2>3 DEF Next, Free
<1>2. IInv /\ [Next]_vars =>
          [pc = "search" =>
              \A u \in visited : /\ u \in visited'
                                 /\ dist'[u] = dist[u] /\ prev'[u] = prev[u]]_vars
    BY <1>1
<1> QED BY <1>2, Invariance, PTL DEF Spec, SettledStaySettled

----------------------------------------------------------------------------
(* The paths of both searches are cheapest routes, for any finite graph,   *)
(* any contexts and any number of searches.                                *)

(***************************************************************************)
(* What the labels of a search promise to path reconstruction: distance d  *)
(* and predecessor p over source s.                                        *)
(***************************************************************************)
Labels(c, s, d, p) ==
    /\ s \in Nodes
    /\ d \in [Nodes -> Nat \cup {INFINITY}]
    /\ d[s] = 0
    /\ \A n \in Nodes \ {s} :
          d[n] # INFINITY =>
              /\ p[n] \in Nodes
              /\ d[p[n]] # INFINITY
              /\ n \in Neighbors(c, p[n])
              /\ d[n] = d[p[n]] + EdgeWeight(c, p[n], n)

----------------------------------------------------------------------------
(***************************************************************************)
(* The recursive function of PathTo exists.                                *)
(***************************************************************************)
IsBack(p, s, t, m, b) ==
    b = [k \in 0..m |->
            IF k = 0 THEN t ELSE IF b[k - 1] = s THEN s ELSE p[b[k - 1]]]

LEMMA BackExists ==
    ASSUME NEW p, NEW s, NEW t, NEW m \in Nat
    PROVE  \E b : IsBack(p, s, t, m, b)
<1> DEFINE S == {n \in Nat : \E b : IsBack(p, s, t, n, b)}
<1>1. 0 \in S
    <2>1. IsBack(p, s, t, 0, [k \in 0..0 |-> t])
        BY DEF IsBack
    <2> QED BY <2>1
<1>2. ASSUME NEW n \in Nat, n \in S PROVE n + 1 \in S
    <2>1. PICK b : IsBack(p, s, t, n, b)
        BY <1>2
    <2> DEFINE next == IF b[n] = s THEN s ELSE p[b[n]]
               a == [k \in 0..n + 1 |-> IF k = n + 1 THEN next ELSE b[k]]
    <2>2. ASSUME NEW k \in 0..n + 1
          PROVE  a[k] = IF k = 0 THEN t
                        ELSE IF a[k - 1] = s THEN s ELSE p[a[k - 1]]
        <3>1. CASE k = n + 1
            BY <3>1
        <3>2. CASE k # n + 1
            <4>1. k \in 0..n /\ a[k] = b[k]
                BY <3>2
            <4>2. b[k] = IF k = 0 THEN t
                         ELSE IF b[k - 1] = s THEN s ELSE p[b[k - 1]]
                BY <2>1, <4>1 DEF IsBack
            <4>3. k # 0 => a[k - 1] = b[k - 1]
                BY <4>1
            <4> QED BY <4>1, <4>2, <4>3
        <3> QED BY <3>1, <3>2
    <2>3. IsBack(p, s, t, n + 1, a)
        BY <2>2 DEF IsBack
    <2>4. \E e : IsBack(p, s, t, n + 1, e)
        <3> HIDE DEF a
        <3> QED BY <2>3
    <2> QED BY <2>4
<1> HIDE DEF S
<1>3. m \in S
    BY <1>1, <1>2, SetInduction
<1> QED BY <1>3 DEF S

(***************************************************************************)
(* Going back from a labelled node one meets labelled nodes only, each at  *)
(* least one nearer than the one before, until the source is met.          *)
(***************************************************************************)
LEMMA BackDescends ==
    ASSUME NEW c, NEW s, NEW d, NEW p, Labels(c, s, d, p),
           NEW t \in Nodes, d[t] # INFINITY,
           NEW m \in Nat, NEW b, IsBack(p, s, t, m, b)
    PROVE  /\ b[0] = t
           /\ \A k \in 0..m : b[k] \in Nodes /\ d[b[k]] # INFINITY
           /\ \A k \in 0..m - 1 :
                  b[k] # s => /\ b[k + 1] = p[b[k]]
                              /\ b[k] \in Neighbors(c, b[k + 1])
                              /\ d[b[k]] = d[b[k + 1]] + EdgeWeight(c, b[k + 1], b[k])
<1>0. \A k \in 0..m : b[k] = IF k = 0 THEN t
                             ELSE IF b[k - 1] = s THEN s ELSE p[b[k - 1]]
    BY DEF IsBack
<1>1. ASSUME NEW k \in 0..m - 1
      PROVE  b[k + 1] = IF b[k] = s THEN s ELSE p[b[k]]
    <2>1. k + 1 \in 0..m /\ k + 1 # 0 /\ (k + 1) - 1 = k
        OBVIOUS
    <2> QED BY <1>0, <2>1
<1> DEFINE S == {k \in Nat : k <= m => b[k] \in Nodes /\ d[b[k]] # INFINITY}
<1>2. 0 \in S
    BY <1>0
<1>3. ASSUME NEW n \in Nat, n \in S PROVE n + 1 \in S
    <2> SUFFICES ASSUME n + 1 <= m
                 PROVE  b[n + 1] \in Nodes /\ d[b[n + 1]] # INFINITY
        OBVIOUS
    <2>1. b[n] \in Nodes /\ d[b[n]] # INFINITY
        BY <1>3
    <2>2. b[n + 1] = IF b[n] = s THEN s ELSE p[b[n]]
        BY <1>1
    <2> QED BY <2>1, <2>2 DEF Labels, INFINITY
<1>4. Nat \subseteq S
    <2> HIDE DEF S
    <2> QED BY <1>2, <1>3, SetInduction
<1>5. ASSUME NEW k \in 0..m PROVE b[k] \in Nodes /\ d[b[k]] # INFINITY
    BY <1>4
<1>6. ASSUME NEW k \in 0..m - 1, b[k] # s
      PROVE  /\ b[k + 1] = p[b[k]]
             /\ b[k] \in Neighbors(c, b[k + 1])
             /\ d[b[k]] = d[b[k + 1]] + EdgeWeight(c, b[k + 1], b[k])
    <2>1. b[k] \in Nodes \ {s} /\ d[b[k]] # INFINITY
        BY <1>5, <1>6
    <2> QED BY <1>1, <1>6, <2>1 DEF Labels
<1> QED BY <1>0, <1>5, <1>6

(***************************************************************************)
(* The source is met after fewer steps than there are nodes.               *)
(***************************************************************************)
LEMMA BackEnds ==
    ASSUME NEW c, NEW s, NEW d, NEW p, Labels(c, s, d, p),
           NEW t \in Nodes, d[t] # INFINITY,
           NEW b, IsBack(p, s, t, Cardinality(Nodes), b)
    PROVE  \E k \in 0..Cardinality(Nodes) :
               b[k] = s /\ \A j \in 0..k - 1 : b[j] # s
<1> DEFINE m == Cardinality(Nodes)
<1>1. m \in Nat
    BY NodesAssumption, FS_CardinalityType
<1>2. \E k \in 0..m : b[k] = s
    <2> SUFFICES ASSUME \A k \in 0..m : b[k] # s PROVE FALSE
        OBVIOUS
    <2>1. \A k \in 0..m : b[k] \in Nodes /\ d[b[k]] \in Nat
        <3>1. \A k \in 0..m : b[k] \in Nodes /\ d[b[k]] # INFINITY
            BY <1>1, BackDescends
        <3> QED BY <3>1 DEF Labels
    <2>2. ASSUME NEW k \in 0..m - 1 PROVE d[b[k + 1]] < d[b[k]]
        <3>1. d[b[k]] = d[b[k + 1]] + EdgeWeight(c, b[k + 1], b[k])
            BY <1>1, BackDescends
        <3>2. d[b[k]] \in Nat /\ d[b[k + 1]] \in Nat
            BY <1>1, <2>1
        <3> QED BY <3>1, <3>2, WeightIsPositive
    <2> DEFINE S == {k \in Nat : k <= m => \A i \in 0..k - 1 : d[b[k]] < d[b[i]]}
    <2>3. 0 \in S
        OBVIOUS
    <2>4. ASSUME NEW n \in Nat, n \in S PROVE n + 1 \in S
        <3> SUFFICES ASSUME n + 1 <= m, NEW i \in 0..n
                     PROVE  d[b[n + 1]] < d[b[i]]
            OBVIOUS
        <3>1. d[b[n + 1]] < d[b[n]]
            BY <1>1, <2>2
        <3>2. i = n \/ d[b[n]] < d[b[i]]
            BY <1>1, <2>4
        <3>3. d[b[n + 1]] \in Nat /\ d[b[n]] \in Nat /\ d[b[i]] \in Nat
            BY <1>1, <2>1
        <3> QED BY <3>1, <3>2, <3>3
    <2>5. Nat \subseteq S
        <3> HIDE DEF S
        <3> QED BY <2>3, <2>4, SetInduction
    <2>6. \A j \in 0..m : \A i \in 0..j - 1 : d[b[j]] < d[b[i]]
        BY <2>5
    <2>7. \A i, j \in 0..m : i # j => b[i] # b[j]
        <3> SUFFICES ASSUME NEW i \in 0..m, NEW j \in 0..m, i < j
                     PROVE  b[i] # b[j]
            BY <1>1
        <3>1. d[b[j]] < d[b[i]]
            BY <1>1, <2>6
        <3> QED BY <1>1, <2>1, <3>1
    <2>8. b \in [0..m -> Nodes]
        <3>1. b = [k \in 0..m |-> b[k]]
            BY DEF IsBack
        <3> QED BY <2>1, <3>1
    <2>9. IsFiniteSet(0..m) /\ Cardinality(0..m) = m + 1
        BY <1>1, FS_Interval, SMTT(30)
    <2> QED BY <1>1, <2>7, <2>8, <2>9, FS_PigeonHole, NodesAssumption
<1>3. PICK k \in {j \in 0..m : b[j] = s} : \A j \in {i \in 0..m : b[i] = s} : k <= j
    <2> DEFINE T == {j \in 0..m : b[j] = s}
    <2>1. T # {} /\ T \subseteq Nat
        BY <1>1, <1>2
    <2> HIDE DEF T
    <2>2. \E k \in T : \A j \in T : k <= j
        BY <2>1, LeastMember
    <2> QED BY <2>2 DEF T
<1>4. \A j \in 0..k - 1 : b[j] # s
    BY <1>1, <1>3
<1> QED BY <1>3, <1>4

(***************************************************************************)
(* reconstruct_path of a labelled node gives a route to it that costs just *)
(* its distance and enters no system twice: distances grow along it.       *)
(***************************************************************************)
LEMMA PathToIsRoute ==
    ASSUME NEW c, NEW s, NEW d, NEW p, Labels(c, s, d, p),
           NEW t \in Nodes, d[t] # INFINITY
    PROVE  /\ Len(PathTo(p, s, t)) \in Nat
           /\ IsRoute(c, s, t, PathTo(p, s, t))
           /\ ~Repeats(PathTo(p, s, t))
           /\ Cost(c, PathTo(p, s, t)) = d[t]
<1> DEFINE m == Cardinality(Nodes)
           b == CHOOSE f : IsBack(p, s, t, m, f)
           J == CHOOSE k \in DOMAIN b : b[k] = s /\ \A j \in 0..k - 1 : b[j] # s
           q == [i \in 1..J + 1 |-> b[J + 1 - i]]
<1>1. m \in Nat
    BY NodesAssumption, FS_CardinalityType
<1>2. IsBack(p, s, t, m, b)
    BY <1>1, BackExists
<1>3. PathTo(p, s, t) = q
    BY DEF PathTo, IsBack
<1>4. DOMAIN b = 0..m
    BY <1>2 DEF IsBack
<1> HIDE DEF b
<1>5. J \in 0..m /\ b[J] = s /\ \A j \in 0..J - 1 : b[j] # s
    <2>1. \E k \in 0..m : b[k] = s /\ \A j \in 0..k - 1 : b[j] # s
        BY <1>2, BackEnds
    <2> HIDE DEF m
    <2> QED BY <1>4, <2>1
<1> HIDE DEF J, m
<1>6. /\ b[0] = t
      /\ \A k \in 0..J : b[k] \in Nodes /\ d[b[k]] \in Nat
      /\ \A k \in 0..J - 1 :
             /\ b[k] \in Neighbors(c, b[k + 1])
             /\ d[b[k]] = d[b[k + 1]] + EdgeWeight(c, b[k + 1], b[k])
    <2>1. /\ b[0] = t
          /\ \A k \in 0..m : b[k] \in Nodes /\ d[b[k]] # INFINITY
          /\ \A k \in 0..m - 1 :
                 b[k] # s => /\ b[k + 1] = p[b[k]]
                             /\ b[k] \in Neighbors(c, b[k + 1])
                             /\ d[b[k]] = d[b[k + 1]] + EdgeWeight(c, b[k + 1], b[k])
        BY <1>1, <1>2, BackDescends
    <2>2. 0..J \subseteq 0..m /\ 0..J - 1 \subseteq 0..m - 1
        BY <1>1, <1>5
    <2>3. \A k \in 0..J : b[k] \in Nodes /\ d[b[k]] \in Nat
        BY <2>1, <2>2 DEF Labels
    <2> QED BY <1>5, <2>1, <2>2, <2>3
<1>7. q \in Seq(Nodes) /\ Len(q) = J + 1 /\ J \in Nat
    <2>1. q \in [1..J + 1 -> Nodes] /\ J + 1 \in Nat
        BY <1>1, <1>5, <1>6
    <2>2. q \in Seq(Nodes)
        <3> HIDE DEF q
        <3> QED BY <2>1, SeqDef
    <2>3. DOMAIN q = 1..Len(q) /\ Len(q) \in Nat
        <3> HIDE DEF q
        <3> QED BY <2>2, LenProperties
    <2>4. 1..J + 1 = 1..Len(q)
        BY <2>3
    <2> HIDE DEF q
    <2> QED BY <1>1, <1>5, <2>1, <2>2, <2>3, <2>4
<1>8. \A k \in 1..J :
          /\ q[k + 1] \in Neighbors(c, q[k])
          /\ d[q[k + 1]] = d[q[k]] + EdgeWeight(c, q[k], q[k + 1])
    <2> SUFFICES ASSUME NEW k \in 1..J
                 PROVE  /\ q[k + 1] \in Neighbors(c, q[k])
                        /\ d[q[k + 1]] = d[q[k]] + EdgeWeight(c, q[k], q[k + 1])
        OBVIOUS
    <2>1. J - k \in 0..J - 1 /\ (J - k) + 1 = J + 1 - k /\ J + 1 - (k + 1) = J - k
        BY <1>7
    <2>2. q[k] = b[(J - k) + 1] /\ q[k + 1] = b[J - k]
        BY <1>7, <2>1
    <2> HIDE DEF q
    <2> QED BY <1>6, <2>1, <2>2
<1>9. q[1] = s /\ q[J + 1] = t
    BY <1>5, <1>6, <1>7
<1> HIDE DEF q
<1>10. IsRoute(c, s, t, q)
    BY <1>7, <1>8, <1>9 DEF IsRoute
<1>11. Cost(c, q) = d[t]
    <2>0. Len(q) \in Nat /\ 1 \in 1..Len(q)
        BY <1>7
    <2>1. PICK f : IsRunningCost(c, q, f) /\ Cost(c, q) = f[Len(q)]
        BY <2>0, CostIsRunning
    <2> DEFINE S == {n \in Nat : n <= J => f[n + 1] = d[q[n + 1]]}
    <2>2. 0 \in S
        <3>1. f[1] = 0
            BY <2>0, <2>1, RunningCostGrows
        <3> QED BY <1>9, <3>1 DEF Labels
    <2>3. ASSUME NEW n \in Nat, n \in S PROVE n + 1 \in S
        <3> SUFFICES ASSUME n + 1 <= J PROVE f[(n + 1) + 1] = d[q[(n + 1) + 1]]
            OBVIOUS
        <3> DEFINE k == n + 1
        <3>1. k \in 1..J /\ k \in 1..Len(q) /\ k < Len(q) /\ f[k] = d[q[k]]
            BY <1>7, <2>3
        <3> HIDE DEF k
        <3>2. f[k + 1] = f[k] + EdgeWeight(c, q[k], q[k + 1])
            BY <2>0, <2>1, <3>1, RunningCostGrows
        <3>3. f[k + 1] = d[q[k + 1]]
            BY <1>8, <3>1, <3>2
        <3> QED BY <3>3 DEF k
    <2>4. J \in S
        <3> HIDE DEF S
        <3> QED BY <1>7, <2>2, <2>3, SetInduction
    <2> QED BY <1>7, <1>9, <2>1, <2>4
<1>12. ~Repeats(q)
    <2>1. \A k \in 1..J + 1 : q[k] \in Nodes /\ d[q[k]] \in Nat
        <3> SUFFICES ASSUME NEW k \in 1..J + 1 PROVE q[k] \in Nodes /\ d[q[k]] \in Nat
            OBVIOUS
        <3>1. J + 1 - k \in 0..J
            BY <1>7
        <3> QED BY <1>6, <3>1 DEF q
    <2>2. ASSUME NEW k \in 1..J PROVE d[q[k]] < d[q[k + 1]]
        <3>1. d[q[k + 1]] = d[q[k]] + EdgeWeight(c, q[k], q[k + 1])
            BY <1>8
        <3>2. d[q[k]] \in Nat /\ d[q[k + 1]] \in Nat
            BY <1>7, <2>1
        <3> QED BY <3>1, <3>2, WeightIsPositive
    <2> DEFINE S == {n \in Nat : n <= J => \A i \in 1..n : d[q[i]] < d[q[n + 1]]}
    <2>3. 0 \in S
        OBVIOUS
    <2>4. ASSUME NEW n \in Nat, n \in S PROVE n + 1 \in S
        <3> SUFFICES ASSUME n + 1 <= J, NEW i \in 1..n + 1
                     PROVE  d[q[i]] < d[q[(n + 1) + 1]]
            OBVIOUS
        <3>1. d[q[n + 1]] < d[q[(n + 1) + 1]]
            BY <1>7, <2>2
        <3>2. i = n + 1 \/ d[q[i]] < d[q[n + 1]]
            BY <1>7, <2>4
        <3>3. d[q[i]] \in Nat /\ d[q[n + 1]] \in Nat /\ d[q[(n + 1) + 1]] \in Nat
            BY <1>7, <2>1
        <3> QED BY <3>1, <3>2, <3>3
    <2>5. Nat \subseteq S
        <3> HIDE DEF S
        <3> QED BY <2>3, <2>4, SetInduction
    <2> SUFFICES ASSUME NEW i \in 1..J + 1, NEW j \in 1..J + 1, i < j
                 PROVE  q[i] # q[j]
        BY <1>7 DEF Repeats
    <2>6. j - 1 \in Nat /\ j - 1 <= J /\ i \in 1..j - 1 /\ (j - 1) + 1 = j
        BY <1>7
    <2>7. d[q[i]] < d[q[j]]
        BY <2>5, <2>6
    <2>8. d[q[i]] \in Nat /\ d[q[j]] \in Nat
        BY <2>1
    <2> QED BY <2>7, <2>8
<1> QED BY <1>3, <1>7, <1>10, <1>11, <1>12

----------------------------------------------------------------------------
(***************************************************************************)
(* A node t that is no farther than any pending node, when the edges out   *)
(* of the settled nodes V are relaxed.  Along a route, either the cost so  *)
(* far bounds the distance of the node reached, or it is past the distance *)
(* of t already.                                                           *)
(***************************************************************************)
LEMMA RoutesAreBounded ==
    ASSUME NEW c, NEW s \in Nodes, NEW t \in Nodes, NEW w, NEW V,
           NEW d \in [Nodes -> Nat \cup {INFINITY}],
           d[s] = 0, d[t] # INFINITY,
           \A u \in V : \A n \in Neighbors(c, u) :
               d[n] # INFINITY /\ d[n] <= d[u] + EdgeWeight(c, u, n),
           \A n \in Nodes \ V : d[n] # INFINITY => d[t] <= d[n],
           NEW q, Len(q) \in Nat, IsRoute(c, s, w, q)
    PROVE  \/ d[t] <= Cost(c, q)
           \/ w \in Nodes /\ d[w] # INFINITY /\ d[w] <= Cost(c, q)
<1>1. PICK f : IsRunningCost(c, q, f) /\ Cost(c, q) = f[Len(q)]
    BY CostIsRunning
<1> DEFINE Bounded(k) == \/ d[t] <= f[k]
                         \/ q[k] \in Nodes /\ d[q[k]] # INFINITY /\ d[q[k]] <= f[k]
           S == {n \in Nat : n + 1 <= Len(q) => Bounded(n + 1)}
<1>2. Len(q) >= 1 /\ 1 \in 1..Len(q) /\ q[1] = s /\ q[Len(q)] = w
    BY DEF IsRoute
<1>3. 0 \in S
    BY <1>1, <1>2, RunningCostGrows DEF INFINITY
<1>4. ASSUME NEW n \in Nat, n \in S PROVE n + 1 \in S
    <2> SUFFICES ASSUME (n + 1) + 1 <= Len(q) PROVE Bounded((n + 1) + 1)
        OBVIOUS
    <2> DEFINE k == n + 1
    <2>1. k \in 1..Len(q) /\ k < Len(q) /\ k \in 1..Len(q) - 1 /\ Bounded(k)
        BY <1>2, <1>4
    <2> SUFFICES Bounded(k + 1)
        OBVIOUS
    <2> HIDE DEF k
    <2>2. /\ f[k] \in Nat
          /\ f[k + 1] = f[k] + EdgeWeight(c, q[k], q[k + 1])
          /\ EdgeWeight(c, q[k], q[k + 1]) \in Nat
        BY <1>1, <2>1, RunningCostGrows, WeightIsPositive
    <2>3. q[k + 1] \in Neighbors(c, q[k]) /\ q[k + 1] \in Nodes
        BY <2>1 DEF IsRoute, Neighbors
    <2>4. d[t] \in Nat
        OBVIOUS
    <2>5. CASE d[t] <= f[k]
        BY <2>2, <2>4, <2>5
    <2>6. CASE q[k] \in Nodes /\ d[q[k]] # INFINITY /\ d[q[k]] <= f[k]
        <3>1. d[q[k]] \in Nat
            BY <2>6
        <3>2. CASE q[k] \in V
            <4>1. /\ d[q[k + 1]] # INFINITY
                  /\ d[q[k + 1]] <= d[q[k]] + EdgeWeight(c, q[k], q[k + 1])
                BY <2>3, <3>2
            <4>2. d[q[k + 1]] \in Nat
                BY <2>3, <4>1
            <4> QED BY <2>2, <2>3, <2>6, <3>1, <4>1, <4>2
        <3>3. CASE q[k] \notin V
            <4>1. d[t] <= d[q[k]]
                BY <2>6, <3>3
            <4> QED BY <2>2, <2>4, <2>6, <3>1, <4>1
        <3> QED BY <3>2, <3>3
    <2> QED BY <2>1, <2>5, <2>6
<1>5. Len(q) - 1 \in S
    <2> HIDE DEF S
    <2>1. Nat \subseteq S
        BY <1>3, <1>4, SetInduction, ZenonT(30)
    <2>2. Len(q) \in Nat
        BY DEF IsRoute
    <2>3. Len(q) - 1 \in Nat
        BY <1>2, <2>2
    <2> QED BY <2>1, <2>3
<1>6. Bounded(Len(q))
    <2>1. (Len(q) - 1) + 1 = Len(q)
        OBVIOUS
    <2> QED BY <1>5, <2>1
<1> QED BY <1>1, <1>2, <1>6

(***************************************************************************)
(* No route to such a node costs less than its distance.                   *)
(***************************************************************************)
LEMMA NoRouteUndercuts ==
    ASSUME NEW c, NEW s \in Nodes, NEW t \in Nodes, NEW V,
           NEW d \in [Nodes -> Nat \cup {INFINITY}],
           d[s] = 0, d[t] # INFINITY,
           \A u \in V : \A n \in Neighbors(c, u) :
               d[n] # INFINITY /\ d[n] <= d[u] + EdgeWeight(c, u, n),
           \A n \in Nodes \ V : d[n] # INFINITY => d[t] <= d[n],
           NEW q, Len(q) \in Nat, IsRoute(c, s, t, q)
    PROVE  d[t] <= Cost(c, q)
BY RoutesAreBounded

(***************************************************************************)
(* When nothing is pending, every node a route leads to is settled.        *)
(***************************************************************************)
LEMMA DrainedIsComplete ==
    ASSUME NEW c, NEW s \in Nodes, NEW t, NEW V,
           NEW d \in [Nodes -> Nat \cup {INFINITY}],
           d[s] = 0,
           \A u \in V : \A n \in Neighbors(c, u) : d[n] # INFINITY,
           \A n \in Nodes \ V : d[n] = INFINITY,
           NEW q, Len(q) \in Nat, IsRoute(c, s, t, q)
    PROVE  t \in V
<1> DEFINE S == {n \in Nat : n + 1 <= Len(q) => q[n + 1] \in V}
<1>1. Len(q) >= 1 /\ q[1] = s /\ q[Len(q)] = t
    BY DEF IsRoute
<1>2. 0 \in S
    BY <1>1 DEF INFINITY
<1>3. ASSUME NEW n \in Nat, n \in S PROVE n + 1 \in S
    <2> SUFFICES ASSUME (n + 1) + 1 <= Len(q) PROVE q[(n + 1) + 1] \in V
        OBVIOUS
    <2>1. q[n + 1] \in V /\ n + 1 \in 1..Len(q) - 1
        BY <1>3
    <2>2. q[(n + 1) + 1] \in Neighbors(c, q[n + 1])
        BY <2>1 DEF IsRoute
    <2>3. q[(n + 1) + 1] \in Nodes
        BY <2>2, NeighborsAreNodes
    <2> QED BY <2>1, <2>2, <2>3
<1>4. Len(q) - 1 \in S
    <2> HIDE DEF S
    <2> QED BY <1>1, <1>2, <1>3, SetInduction
<1>5. (Len(q) - 1) + 1 = Len(q)
    OBVIOUS
<1> QED BY <1>1, <1>4, <1>5

----------------------------------------------------------------------------
(***************************************************************************)
(* Beyond IInv: the targets still wanted are those not settled.            *)
(***************************************************************************)
WantInv == pc = "search" => want = targets \ visited

OInv == WantInv /\ RoutesAreCheapest

(***************************************************************************)
(* The path of a target no farther than any pending node is a cheapest     *)
(* route.                                                                  *)
(***************************************************************************)
LEMMA NearestIsCheapest ==
    ASSUME IInv, pc = "search", NEW t \in Nodes, dist[t] # INFINITY,
           \A n \in Nodes \ visited : dist[n] # INFINITY => dist[t] <= dist[n]
    PROVE  PathTo(prev, from, t) \in CheapestRoutes(ctx, from, t)
<1>1. /\ dist \in [Nodes -> Nat \cup {INFINITY}] /\ from \in Nodes /\ visited \subseteq Nodes
      /\ dist[from] = 0
      /\ \A u \in visited : dist[u] # INFINITY
      /\ \A u \in visited : \A n \in Neighbors(ctx, u) :
             dist[n] # INFINITY /\ dist[n] <= dist[u] + EdgeWeight(ctx, u, n)
    BY DEF IInv, TypeOK, SourceInv, SettledAreRelaxed
<1>2. Labels(ctx, from, dist, prev)
    BY <1>1 DEF Labels, IInv, PredecessorChainIntact
<1>3. /\ PathTo(prev, from, t) \in SimpleRoutes(ctx, from, t)
      /\ Cost(ctx, PathTo(prev, from, t)) = dist[t]
    <2> DEFINE p == PathTo(prev, from, t)
    <2>1. IsRoute(ctx, from, t, p) /\ ~Repeats(p) /\ Cost(ctx, p) = dist[t]
        BY <1>2, PathToIsRoute
    <2> HIDE DEF p
    <2>2. p \in PathsFrom(ctx, from) /\ p[Len(p)] = t
        BY <2>1 DEF IsRoute, PathsFrom
    <2>3. p \in SimpleRoutes(ctx, from, t)
        BY <1>1, <2>1, <2>2, SimpleRoutesAreAll
    <2> QED BY <2>1, <2>3 DEF p
<1>4. ASSUME NEW q \in SimpleRoutes(ctx, from, t) PROVE dist[t] <= Cost(ctx, q)
    <2>1. Len(q) \in Nat /\ IsRoute(ctx, from, t, q)
        BY <1>1, SimpleRoutesAreRoutes
    <2> QED BY <1>1, <2>1, NoRouteUndercuts
<1> QED BY <1>3, <1>4 DEF CheapestRoutes

(***************************************************************************)
(* A target that is settled is no farther than any pending node.           *)
(***************************************************************************)
LEMMA SettledAreNearest ==
    ASSUME IInv, pc = "search", NEW t \in visited
    PROVE  /\ dist[t] # INFINITY
           /\ \A n \in Nodes \ visited : dist[n] # INFINITY => dist[t] <= dist[n]
<1>1. dist[t] # INFINITY /\ \A i \in heap : dist[t] <= i.dist
    BY DEF IInv, SettledAreRelaxed
<1>2. ASSUME NEW n \in Nodes \ visited, dist[n] # INFINITY PROVE dist[t] <= dist[n]
    <2>1. [dist |-> dist[n], node |-> n] \in heap
        BY <1>2 DEF IInv, FrontierInv
    <2> QED BY <1>1, <2>1
<1> QED BY <1>1, <1>2

(***************************************************************************)
(* So is the node that is popped.                                          *)
(***************************************************************************)
LEMMA PoppedIsNearest ==
    ASSUME IInv, pc = "search", NEW i \in heap, Popped(i), i.node \notin visited
    PROVE  /\ i.node \in Nodes /\ dist[i.node] # INFINITY
           /\ \A n \in Nodes \ visited : dist[n] # INFINITY => dist[i.node] <= dist[n]
<1>1. i.node \in Nodes /\ i.dist \in Nat /\ dist[i.node] = i.dist
    BY PoppedIsLabel DEF IInv, TypeOK, Entry
<1>2. ASSUME NEW n \in Nodes \ visited, dist[n] # INFINITY PROVE i.dist <= dist[n]
    <2> DEFINE j == [dist |-> dist[n], node |-> n]
    <2>1. j \in heap /\ j.dist \in Nat /\ j.dist = dist[n]
        BY <1>2 DEF IInv, FrontierInv, TypeOK
    <2>2. j = i \/ PopsBefore(i, j)
        BY <2>1 DEF Popped
    <2> HIDE DEF j
    <2>3. i.dist <= j.dist
        BY <1>1, <2>1, <2>2 DEF PopsBefore
    <2> QED BY <2>1, <2>3
<1> QED BY <1>1, <1>2 DEF INFINITY

(***************************************************************************)
(* The answer given at the last target.                                    *)
(***************************************************************************)
LEMMA LastAnswerIsCheapest ==
    ASSUME IInv, WantInv, NEW i \in heap, SettleLast(i)
    PROVE  RoutesAreCheapest'
<1> DEFINE settled == visited \cup {i.node}
<1>1. /\ pc = "search" /\ Popped(i) /\ i.node \notin visited /\ want = {i.node}
      /\ paths' = [t \in targets \cap settled |-> PathTo(prev, from, t)]
      /\ ctx' = ctx /\ from' = from /\ targets' = targets
    BY DEF SettleLast, Answer, request
<1>2. targets \subseteq settled
    BY <1>1 DEF WantInv
<1>3. ASSUME NEW t \in targets
      PROVE  t \in DOMAIN paths' /\ paths'[t] \in CheapestRoutes(ctx, from, t)
    <2>1. t \in DOMAIN paths' /\ paths'[t] = PathTo(prev, from, t)
        BY <1>1, <1>2, <1>3
    <2>2. /\ t \in Nodes /\ dist[t] # INFINITY
          /\ \A n \in Nodes \ visited : dist[n] # INFINITY => dist[t] <= dist[n]
        <3>1. CASE t \in visited
            BY <1>1, <3>1, SettledAreNearest DEF IInv, TypeOK
        <3>2. CASE t = i.node
            BY <1>1, <3>2, PoppedIsNearest
        <3> QED BY <1>2, <3>1, <3>2
    <2>3. PathTo(prev, from, t) \in CheapestRoutes(ctx, from, t)
        BY <1>1, <2>2, NearestIsCheapest
    <2> QED BY <2>1, <2>3
<1> QED BY <1>1, <1>3 DEF RoutesAreCheapest

(***************************************************************************)
(* The answer given when nothing is pending.                               *)
(***************************************************************************)
LEMMA DrainedAnswerIsCheapest ==
    ASSUME IInv, Exhausted
    PROVE  RoutesAreCheapest'
<1>1. /\ pc = "search" /\ heap = {}
      /\ paths' = [t \in targets \cap visited |-> PathTo(prev, from, t)]
      /\ ctx' = ctx /\ from' = from /\ targets' = targets
    BY DEF Exhausted, Answer, request
<1>2. ASSUME NEW t \in targets \cap visited
      PROVE  t \in DOMAIN paths' /\ paths'[t] \in CheapestRoutes(ctx, from, t)
    <2>1. t \in DOMAIN paths' /\ paths'[t] = PathTo(prev, from, t)
        BY <1>1, <1>2
    <2>2. t \in Nodes
        BY DEF IInv, TypeOK
    <2> QED BY <1>1, <2>1, <2>2, SettledAreNearest, NearestIsCheapest
<1>3. ASSUME NEW t \in targets \ visited
      PROVE  t \notin DOMAIN paths' /\ CheapestRoutes(ctx, from, t) = {}
    <2>1. t \notin DOMAIN paths'
        BY <1>1, <1>3
    <2>2. ASSUME NEW q \in SimpleRoutes(ctx, from, t) PROVE FALSE
        <3>1. /\ dist \in [Nodes -> Nat \cup {INFINITY}] /\ from \in Nodes
              /\ dist[from] = 0
              /\ \A u \in visited : \A n \in Neighbors(ctx, u) : dist[n] # INFINITY
              /\ \A n \in Nodes \ visited : dist[n] = INFINITY
            BY <1>1 DEF IInv, TypeOK, SourceInv, SettledAreRelaxed, FrontierInv
        <3>2. Len(q) \in Nat /\ IsRoute(ctx, from, t, q)
            BY <3>1, SimpleRoutesAreRoutes
        <3>3. t \in visited
            BY <3>1, <3>2, DrainedIsComplete
        <3> QED BY <1>3, <3>3
    <2> QED BY <2>1, <2>2 DEF CheapestRoutes
<1> QED BY <1>1, <1>2, <1>3 DEF RoutesAreCheapest

(***************************************************************************)
(* Every step keeps the property of the answer.                            *)
(***************************************************************************)
LEMMA NextPreservesOInv == IInv /\ OInv /\ [Next]_vars => OInv'
<1> SUFFICES ASSUME IInv, OInv, [Next]_vars PROVE OInv'
    OBVIOUS
<1>1. ASSUME NEW k, NEW c, NEW s, NEW T, Free, Begin(k, c, s, T)
      PROVE  OInv'
    <2>1. pc' = "search" /\ want' = targets' /\ visited' = {}
        BY <1>1 DEF Begin, Reset
    <2> QED BY <2>1 DEF OInv, WantInv, RoutesAreCheapest
<1>2. ASSUME NEW i \in heap, SkipVisited(i) PROVE OInv'
    BY <1>2 DEF SkipVisited, OInv, WantInv, RoutesAreCheapest, request, scratch
<1>3. ASSUME NEW i \in heap, SettleLast(i) PROVE OInv'
    <2>1. pc' = "done"
        BY <1>3 DEF SettleLast, Answer
    <2>2. RoutesAreCheapest'
        BY <1>3, LastAnswerIsCheapest DEF OInv
    <2> QED BY <2>1, <2>2 DEF OInv, WantInv
<1>4. ASSUME NEW i \in heap, Settle(i) PROVE OInv'
    <2>1. /\ pc = "search" /\ pc' = pc /\ visited' = visited \cup {i.node}
          /\ want' = want \ {i.node} /\ targets' = targets
        BY <1>4 DEF Settle, request
    <2> QED BY <2>1 DEF OInv, WantInv, RoutesAreCheapest
<1>5. ASSUME Exhausted PROVE OInv'
    <2>1. pc' = "done"
        BY <1>5 DEF Exhausted, Answer
    <2>2. RoutesAreCheapest'
        BY <1>5, DrainedAnswerIsCheapest
    <2> QED BY <2>1, <2>2 DEF OInv, WantInv
<1>6. CASE UNCHANGED vars
    BY <1>6 DEF OInv, WantInv, RoutesAreCheapest, vars, request, scratch
<1> QED BY <1>1, <1>2, <1>3, <1>4, <1>5, <1>6
        DEF Next, ShortestPath, ShortestPathMulti

(***************************************************************************)
(* Both searches, for any finite graph, any contexts and any number of     *)
(* searches: a path for exactly the reachable targets, one of the cheapest *)
(* routes, which is all that the handlers take from a search.              *)
(***************************************************************************)
THEOREM SearchesAreOptimal == Spec => []RoutesAreCheapest
<1>1. Init => OInv
    BY DEF Init, OInv, WantInv, RoutesAreCheapest
<1>2. OInv => RoutesAreCheapest
    BY DEF OInv
<1> QED BY <1>1, <1>2, NextPreservesOInv, Invariance, PTL DEF Spec

----------------------------------------------------------------------------
(***************************************************************************)
(* Under prefer_gates a route costs its jumps and WORMHOLE_PENALTY for     *)
(* each step that is labelled as a connection.                             *)
(***************************************************************************)
LEMMA CostUnderPreferGates ==
    ASSUME NEW c, c.pref = "prefer_gates", NEW s, NEW t, NEW p, IsRoute(c, s, t, p),
           NEW H, H = {k \in 1..Len(p) - 1 : StepVia(c, p[k], p[k + 1]) # "stargate"},
           \A e \in DOMAIN c.overlay : c.overlay[e] # "stargate"
    PROVE  /\ Cardinality(H) \in Nat
           /\ Cost(c, p) = Jumps(p) + WORMHOLE_PENALTY * Cardinality(H)
<1>1. Len(p) \in Nat /\ Len(p) > 0 /\ H \in SUBSET (1..Len(p) - 1)
    BY DEF IsRoute
<1>2. /\ \A k \in H : EdgeWeight(c, p[k], p[k + 1]) = 1 + WORMHOLE_PENALTY
      /\ \A k \in (1..Len(p) - 1) \ H : EdgeWeight(c, p[k], p[k + 1]) = 1
    BY DEF EdgeWeight, SecurityPenalty, WormholePenalty, StepVia, IsOverlayEdge,
           WORMHOLE_PENALTY
<1>3. WORMHOLE_PENALTY \in Nat
    BY DEF WORMHOLE_PENALTY
<1>4. Cost(c, p) = (Len(p) - 1) + WORMHOLE_PENALTY * Cardinality(H)
    BY <1>1, <1>2, <1>3, CostSplits, ZenonT(40)
<1>5. Cardinality(H) \in Nat
    <2>1. IsFiniteSet(1..Len(p) - 1)
        <3>1. 1 \in Int /\ Len(p) - 1 \in Int
            BY <1>1
        <3> QED BY <3>1, FS_Interval
    <2> QED BY <1>1, <2>1, FS_Subset, FS_CardinalityType
<1> QED BY <1>4, <1>5 DEF Jumps

(***************************************************************************)
(* Under safest a route costs its jumps and SECURITY_PENALTY for each step *)
(* into a system that is not highsec.                                      *)
(***************************************************************************)
LEMMA CostUnderSafest ==
    ASSUME NEW c, c.pref = "safest", NEW s, NEW t, NEW p, IsRoute(c, s, t, p),
           NEW H, H = {k \in 1..Len(p) - 1 : c.sec[p[k + 1]] # "highsec"}
    PROVE  /\ Cardinality(H) \in Nat
           /\ Cost(c, p) = Jumps(p) + SECURITY_PENALTY * Cardinality(H)
<1>1. Len(p) \in Nat /\ Len(p) > 0 /\ H \in SUBSET (1..Len(p) - 1)
    BY DEF IsRoute
<1>2. /\ \A k \in H : EdgeWeight(c, p[k], p[k + 1]) = 1 + SECURITY_PENALTY
      /\ \A k \in (1..Len(p) - 1) \ H : EdgeWeight(c, p[k], p[k + 1]) = 1
    BY DEF EdgeWeight, SecurityPenalty, WormholePenalty, SECURITY_PENALTY
<1>3. SECURITY_PENALTY \in Nat
    BY DEF SECURITY_PENALTY
<1>4. Cost(c, p) = (Len(p) - 1) + SECURITY_PENALTY * Cardinality(H)
    BY <1>1, <1>2, <1>3, CostSplits, ZenonT(40)
<1>5. Cardinality(H) \in Nat
    <2>1. IsFiniteSet(1..Len(p) - 1)
        <3>1. 1 \in Int /\ Len(p) - 1 \in Int
            BY <1>1
        <3> QED BY <3>1, FS_Interval
    <2> QED BY <1>1, <2>1, FS_Subset, FS_CardinalityType
<1> QED BY <1>4, <1>5 DEF Jumps

(***************************************************************************)
(* prefer_gates: a path with connections beats every route of gates by     *)
(* its penalty or there is none.                                           *)
(***************************************************************************)
THEOREM GatesFirst == Spec => []GatesArePreferred
<1>1. TypeOK /\ RoutesAreCheapest => GatesArePreferred
    <2> SUFFICES ASSUME TypeOK, RoutesAreCheapest, pc = "done", ctx.pref = "prefer_gates",
                        NEW t \in DOMAIN paths, NEW q \in SimpleRoutes(ctx, from, t),
                        Cardinality({k \in 1..Len(q) - 1 :
                            StepVia(ctx, q[k], q[k + 1]) # "stargate"}) = 0
                 PROVE  Jumps(paths[t]) + WORMHOLE_PENALTY *
                            Cardinality({k \in 1..Len(paths[t]) - 1 :
                                StepVia(ctx, paths[t][k], paths[t][k + 1]) # "stargate"})
                            <= Jumps(q)
        BY DEF GatesArePreferred, Steps
    <2> DEFINE p == paths[t]
               P == {k \in 1..Len(p) - 1 : StepVia(ctx, p[k], p[k + 1]) # "stargate"}
               Q == {k \in 1..Len(q) - 1 : StepVia(ctx, q[k], q[k + 1]) # "stargate"}
    <2>1. IsRoute(ctx, from, t, p) /\ Cost(ctx, p) <= Cost(ctx, q)
        BY CheapestAreRoutes DEF TypeOK, RoutesAreCheapest
    <2>2. IsRoute(ctx, from, t, q)
        BY SimpleRoutesAreRoutes DEF TypeOK
    <2>3. \A e \in DOMAIN ctx.overlay : ctx.overlay[e] # "stargate"
        <3>1. IsContext(ctx)
            BY RequestsAssumption DEF TypeOK
        <3> QED BY <3>1, OverlayKinds DEF EdgeKinds
    <2> HIDE DEF p
    <2>4. /\ Cardinality(P) \in Nat
          /\ Cost(ctx, p) = Jumps(p) + WORMHOLE_PENALTY * Cardinality(P)
        BY <2>1, <2>3, CostUnderPreferGates
    <2>5. Cost(ctx, q) = Jumps(q) + WORMHOLE_PENALTY * Cardinality(Q)
        BY <2>2, <2>3, CostUnderPreferGates
    <2>6. Cardinality(Q) = 0
        OBVIOUS
    <2>7. Jumps(p) \in Int /\ Jumps(q) \in Int
        BY <2>1, <2>2 DEF Jumps, IsRoute
    <2> HIDE DEF P, Q
    <2>8. Jumps(p) + WORMHOLE_PENALTY * Cardinality(P) <= Jumps(q)
        BY <2>1, <2>4, <2>5, <2>6, <2>7 DEF WORMHOLE_PENALTY
    <2> QED BY <2>8 DEF p, P
<1> QED BY <1>1, TypeCorrect, SearchesAreOptimal, PTL

(***************************************************************************)
(* safest: no route enters fewer systems that are not highsec, as long as  *)
(* the graph has no more systems than SECURITY_PENALTY outweighs.          *)
(***************************************************************************)
THEOREM SafestAvoidsExposure ==
    ASSUME Cardinality(Nodes) <= SECURITY_PENALTY
    PROVE  Spec => []SafestIsSafest
<1>1. TypeOK /\ RoutesAreCheapest => SafestIsSafest
    <2> SUFFICES ASSUME TypeOK, RoutesAreCheapest, pc = "done", ctx.pref = "safest",
                        NEW t \in DOMAIN paths, NEW q \in SimpleRoutes(ctx, from, t),
                        NEW P, P = {k \in 1..Len(paths[t]) - 1 :
                                       ctx.sec[paths[t][k + 1]] # "highsec"},
                        NEW Q, Q = {k \in 1..Len(q) - 1 :
                                       ctx.sec[q[k + 1]] # "highsec"}
                 PROVE  \/ Cardinality(P) < Cardinality(Q)
                        \/ /\ Cardinality(P) = Cardinality(Q)
                           /\ Jumps(paths[t]) <= Jumps(q)
        BY DEF SafestIsSafest, Steps
    <2>1. IsRoute(ctx, from, t, paths[t]) /\ Cost(ctx, paths[t]) <= Cost(ctx, q)
        BY CheapestAreRoutes DEF TypeOK, RoutesAreCheapest
    <2>2. IsRoute(ctx, from, t, q) /\ Len(q) <= Cardinality(Nodes)
        BY SimpleRoutesAreRoutes, SimpleRoutesAreShort DEF TypeOK
    <2>3. /\ Cardinality(P) \in Nat
          /\ Cost(ctx, paths[t]) = Jumps(paths[t]) + SECURITY_PENALTY * Cardinality(P)
        BY <2>1, CostUnderSafest
    <2>4. /\ Cardinality(Q) \in Nat
          /\ Cost(ctx, q) = Jumps(q) + SECURITY_PENALTY * Cardinality(Q)
        BY <2>2, CostUnderSafest
    <2>5. Jumps(paths[t]) \in Nat /\ Jumps(q) \in Nat /\ Jumps(q) < SECURITY_PENALTY
        <3>1. Len(paths[t]) \in Nat \ {0} /\ Len(q) \in Nat \ {0}
            BY <2>1, <2>2 DEF IsRoute
        <3>2. Cardinality(Nodes) \in Nat
            BY NodesAssumption, FS_CardinalityType
        <3> QED BY <2>2, <3>1, <3>2 DEF Jumps, SECURITY_PENALTY
    <2> QED BY <2>1, <2>3, <2>4, <2>5 DEF SECURITY_PENALTY
<1> QED BY <1>1, TypeCorrect, SearchesAreOptimal, PTL

----------------------------------------------------------------------------
(* An answer depends on the request alone.                                 *)

(***************************************************************************)
(* What the labels of a search are while it runs, with the nodes V         *)
(* settled: a node's predecessor is the first in settling order of those   *)
(* that give it its distance.                                              *)
(***************************************************************************)
Key(d, n) == [dist |-> d[n], node |-> n]

Gives(c, d, u, n) == n \in Neighbors(c, u) /\ d[n] = d[u] + EdgeWeight(c, u, n)

Searched(c, s, V, d, p) ==
    /\ s \in Nodes /\ V \subseteq Nodes
    /\ d \in [Nodes -> Nat \cup {INFINITY}] /\ d[s] = 0
    /\ \A u \in V : /\ d[u] # INFINITY
                    /\ \A n \in Neighbors(c, u) :
                          d[n] # INFINITY /\ d[n] <= d[u] + EdgeWeight(c, u, n)
    /\ \A v \in V : \A n \in Nodes \ V : d[n] # INFINITY => d[v] <= d[n]
    /\ \A n \in Nodes \ {s} : d[n] # INFINITY =>
          /\ p[n] \in V /\ Gives(c, d, p[n], n)
          /\ \A u \in V : Gives(c, d, u, n) =>
                u = p[n] \/ PopsBefore(Key(d, p[n]), Key(d, u))

\* No node that is pending is nearer than t.
Nearest(d, V, t) ==
    /\ t \in Nodes /\ d[t] # INFINITY
    /\ \A n \in Nodes \ V : d[n] # INFINITY => d[t] <= d[n]

LEMMA SearchedFacts ==
    ASSUME NEW c, NEW s, NEW V, NEW d, NEW p, Searched(c, s, V, d, p)
    PROVE  /\ Labels(c, s, d, p)
           /\ \A v \in V : Nearest(d, V, v) /\ d[v] \in Nat
           /\ Nearest(d, V, s)
           /\ \A t : Nearest(d, V, t) => d[t] \in Nat
<1>1. /\ s \in Nodes /\ V \subseteq Nodes
      /\ \A n \in Nodes : d[n] \in Nat \cup {INFINITY}
      /\ d[s] = 0 /\ \A v \in V : d[v] # INFINITY
      /\ \A v \in V : \A n \in Nodes \ V : d[n] # INFINITY => d[v] <= d[n]
    BY DEF Searched
<1>2. Labels(c, s, d, p)
    BY <1>1 DEF Searched, Labels, Gives
<1>3. \A v \in V : Nearest(d, V, v) /\ d[v] \in Nat
    BY <1>1 DEF Nearest
<1>4. Nearest(d, V, s)
    BY <1>1 DEF Nearest, INFINITY
<1> QED BY <1>1, <1>2, <1>3, <1>4 DEF Nearest

(***************************************************************************)
(* Two searches of the same context from the same source: a node nearest   *)
(* in both has one distance, and a node nearer than it in the one is       *)
(* settled in the other.                                                   *)
(***************************************************************************)
LEMMA DistancesBound ==
    ASSUME NEW c, NEW s, NEW V1, NEW d1, NEW p1, Searched(c, s, V1, d1, p1),
           NEW V2, NEW d2, NEW p2, Searched(c, s, V2, d2, p2),
           NEW t, Nearest(d2, V2, t),
           NEW w \in Nodes, d1[w] # INFINITY, d1[w] < d2[t] \/ w = t
    PROVE  d2[w] # INFINITY /\ d2[w] <= d1[w]
<1> DEFINE q == PathTo(p1, s, w)
<1>1. Len(q) \in Nat /\ IsRoute(c, s, w, q) /\ Cost(c, q) = d1[w]
    BY SearchedFacts, PathToIsRoute
<1> HIDE DEF q
<1>2. /\ s \in Nodes /\ d2 \in [Nodes -> Nat \cup {INFINITY}] /\ d2[s] = 0
      /\ \A u \in V2 : \A n \in Neighbors(c, u) :
             d2[n] # INFINITY /\ d2[n] <= d2[u] + EdgeWeight(c, u, n)
    BY DEF Searched
<1>3. /\ t \in Nodes /\ d2[t] # INFINITY
      /\ \A n \in Nodes \ V2 : d2[n] # INFINITY => d2[t] <= d2[n]
    BY DEF Nearest
<1>4. d2[t] <= Cost(c, q) \/ (d2[w] # INFINITY /\ d2[w] <= Cost(c, q))
    BY <1>1, <1>2, <1>3, RoutesAreBounded
<1>5. d1[w] \in Nat /\ d2[t] \in Nat
    BY <1>2, <1>3 DEF Searched
<1> QED BY <1>1, <1>3, <1>4, <1>5

LEMMA DistancesAgree ==
    ASSUME NEW c, NEW s, NEW V1, NEW d1, NEW p1, Searched(c, s, V1, d1, p1),
           NEW V2, NEW d2, NEW p2, Searched(c, s, V2, d2, p2),
           NEW t, Nearest(d1, V1, t), Nearest(d2, V2, t)
    PROVE  d1[t] = d2[t]
<1>1. t \in Nodes /\ d1[t] # INFINITY /\ d2[t] # INFINITY
    BY DEF Nearest
<1>2. d2[t] <= d1[t] /\ d1[t] <= d2[t]
    BY <1>1, DistancesBound
<1>3. d1[t] \in Nat /\ d2[t] \in Nat
    BY SearchedFacts
<1> QED BY <1>2, <1>3

LEMMA NearerIsSettled ==
    ASSUME NEW c, NEW s, NEW V1, NEW d1, NEW p1, Searched(c, s, V1, d1, p1),
           NEW V2, NEW d2, NEW p2, Searched(c, s, V2, d2, p2),
           NEW t, Nearest(d1, V1, t), Nearest(d2, V2, t), t # s
    PROVE  LET u == p1[t]
           IN  /\ u \in V1 /\ u \in V2 /\ d1[u] = d2[u]
               /\ Gives(c, d1, u, t) /\ Gives(c, d2, u, t)
<1>1. PICK u : u = p1[t]
    OBVIOUS
<1>2. t \in Nodes /\ d1[t] # INFINITY /\ d1[t] = d2[t]
    BY DistancesAgree DEF Nearest
<1>3. u \in V1 /\ Gives(c, d1, u, t)
    BY <1>1, <1>2 DEF Searched
<1>4. u \in Nodes /\ d1[u] # INFINITY /\ d1[u] \in Nat /\ d2[t] \in Nat /\ Nearest(d1, V1, u)
    <2>1. u \in Nodes /\ d1[u] # INFINITY
        BY <1>3 DEF Searched
    <2> QED BY <1>3, <2>1, SearchedFacts
<1>5. d1[u] < d2[t]
    <2>1. d2[t] = d1[u] + EdgeWeight(c, u, t)
        BY <1>2, <1>3 DEF Gives
    <2> QED BY <1>4, <2>1, WeightIsPositive
<1>6. d2[u] # INFINITY /\ d2[u] <= d1[u]
    BY <1>4, <1>5, DistancesBound
<1>7. d2[u] \in Nat
    BY <1>4, <1>6 DEF Searched
<1>8. u \in V2
    <2>1. u \notin V2 => d2[t] <= d2[u]
        BY <1>4, <1>6 DEF Nearest
    <2> QED BY <1>4, <1>5, <1>6, <1>7, <2>1
<1>9. d1[u] = d2[u]
    BY <1>4, <1>8, SearchedFacts, DistancesAgree
<1>10. Gives(c, d2, u, t)
    BY <1>2, <1>3, <1>9 DEF Gives
<1> QED BY <1>1, <1>3, <1>8, <1>9, <1>10

(***************************************************************************)
(* Such a node has one predecessor, and it is nearest in both as well.     *)
(***************************************************************************)
LEMMA PredecessorsAgree ==
    ASSUME NEW c, NEW s, NEW V1, NEW d1, NEW p1, Searched(c, s, V1, d1, p1),
           NEW V2, NEW d2, NEW p2, Searched(c, s, V2, d2, p2),
           NEW t, Nearest(d1, V1, t), Nearest(d2, V2, t), t # s
    PROVE  p1[t] = p2[t] /\ Nearest(d1, V1, p1[t]) /\ Nearest(d2, V2, p1[t])
<1>1. PICK u, v : u = p1[t] /\ v = p2[t]
    OBVIOUS
<1>2. /\ u \in V1 /\ u \in V2 /\ d1[u] = d2[u]
      /\ Gives(c, d1, u, t) /\ Gives(c, d2, u, t)
    BY <1>1, NearerIsSettled
<1>3. /\ v \in V1 /\ v \in V2 /\ d1[v] = d2[v]
      /\ Gives(c, d1, v, t) /\ Gives(c, d2, v, t)
    BY <1>1, NearerIsSettled
<1>4. t \in Nodes \ {s} /\ d1[t] # INFINITY /\ d2[t] # INFINITY
    BY DEF Nearest
<1>5. /\ v = u \/ PopsBefore(Key(d1, u), Key(d1, v))
      /\ u = v \/ PopsBefore(Key(d2, v), Key(d2, u))
    BY <1>1, <1>2, <1>3, <1>4 DEF Searched
<1>6. /\ u \in Nat /\ v \in Nat /\ d1[u] \in Nat /\ d1[v] \in Nat
      /\ Nearest(d1, V1, u) /\ Nearest(d2, V2, u)
    BY <1>2, <1>3, SearchedFacts, NodesAssumption DEF Nearest
<1>7. u = v
    BY <1>2, <1>3, <1>5, <1>6 DEF PopsBefore, Key
<1> QED BY <1>1, <1>6, <1>7

(***************************************************************************)
(* The walk back is one function, the same in both searches.               *)
(***************************************************************************)
LEMMA BackIsUnique ==
    ASSUME NEW p, NEW s, NEW t, NEW m \in Nat,
           NEW a, IsBack(p, s, t, m, a), NEW b, IsBack(p, s, t, m, b)
    PROVE  a = b
<1> DEFINE S == {k \in Nat : k <= m => a[k] = b[k]}
<1>0. a = [k \in 0..m |-> a[k]] /\ b = [k \in 0..m |-> b[k]]
    BY DEF IsBack
<1>1. /\ \A k \in 0..m : a[k] = IF k = 0 THEN t
                                ELSE IF a[k - 1] = s THEN s ELSE p[a[k - 1]]
      /\ \A k \in 0..m : b[k] = IF k = 0 THEN t
                                ELSE IF b[k - 1] = s THEN s ELSE p[b[k - 1]]
    BY DEF IsBack
<1>2. 0 \in S
    <2>1. 0 \in 0..m
        OBVIOUS
    <2>2. a[0] = t /\ b[0] = t
        BY <1>1, <2>1
    <2> QED BY <2>2
<1>3. ASSUME NEW n \in Nat, n \in S PROVE n + 1 \in S
    <2> SUFFICES ASSUME n + 1 <= m PROVE a[n + 1] = b[n + 1]
        OBVIOUS
    <2>1. n + 1 \in 0..m /\ n + 1 # 0 /\ (n + 1) - 1 = n /\ a[n] = b[n]
        BY <1>3
    <2>2. /\ a[n + 1] = IF a[n] = s THEN s ELSE p[a[n]]
          /\ b[n + 1] = IF b[n] = s THEN s ELSE p[b[n]]
        BY <1>1, <2>1
    <2> QED BY <2>1, <2>2
<1>4. Nat \subseteq S
    <2> HIDE DEF S
    <2> QED BY <1>2, <1>3, SetInduction
<1>5. \A k \in 0..m : a[k] = b[k]
    BY <1>4
<1> QED BY <1>0, <1>5

LEMMA BackIsSame ==
    ASSUME NEW c, NEW s, NEW V1, NEW d1, NEW p1, Searched(c, s, V1, d1, p1),
           NEW V2, NEW d2, NEW p2, Searched(c, s, V2, d2, p2),
           NEW t, Nearest(d1, V1, t), Nearest(d2, V2, t),
           NEW m \in Nat, NEW b, IsBack(p1, s, t, m, b)
    PROVE  IsBack(p2, s, t, m, b)
<1> DEFINE Near(n) == Nearest(d1, V1, n) /\ Nearest(d2, V2, n)
           S == {k \in Nat : k <= m => Near(b[k])}
<1>1. /\ b = [k \in 0..m |-> b[k]]
      /\ \A k \in 0..m : b[k] = IF k = 0 THEN t
                                ELSE IF b[k - 1] = s THEN s ELSE p1[b[k - 1]]
    BY DEF IsBack
<1>2. /\ Near(s) /\ Near(t)
      /\ \A n : Near(n) /\ n # s => p1[n] = p2[n] /\ Near(p1[n])
    BY SearchedFacts, PredecessorsAgree
<1> HIDE DEF Near
<1>3. 0 \in S
    BY <1>1, <1>2
<1>4. ASSUME NEW n \in Nat, n \in S PROVE n + 1 \in S
    <2> SUFFICES ASSUME n + 1 <= m PROVE Near(b[n + 1])
        OBVIOUS
    <2>1. n + 1 \in 0..m /\ n + 1 # 0 /\ (n + 1) - 1 = n /\ Near(b[n])
        BY <1>4
    <2> QED BY <1>1, <1>2, <2>1
<1>5. Nat \subseteq S
    <2> HIDE DEF S
    <2> QED BY <1>3, <1>4, SetInduction
<1>6. ASSUME NEW k \in 0..m
      PROVE  b[k] = IF k = 0 THEN t ELSE IF b[k - 1] = s THEN s ELSE p2[b[k - 1]]
    <2>1. CASE k = 0
        BY <1>1, <2>1
    <2>2. CASE k # 0
        <3>1. k - 1 \in Nat /\ k - 1 <= m
            BY <2>2
        <3>2. Near(b[k - 1])
            BY <1>5, <3>1
        <3> QED BY <1>1, <1>2, <2>2, <3>2
    <2> QED BY <2>1, <2>2
<1> QED BY <1>1, <1>6 DEF IsBack

LEMMA PathsAgree ==
    ASSUME NEW c, NEW s, NEW V1, NEW d1, NEW p1, Searched(c, s, V1, d1, p1),
           NEW V2, NEW d2, NEW p2, Searched(c, s, V2, d2, p2),
           NEW t, Nearest(d1, V1, t), Nearest(d2, V2, t)
    PROVE  PathTo(p1, s, t) = PathTo(p2, s, t)
<1> DEFINE m  == Cardinality(Nodes)
           b1 == CHOOSE f : IsBack(p1, s, t, m, f)
           b2 == CHOOSE f : IsBack(p2, s, t, m, f)
           path(b) == LET J == CHOOSE k \in DOMAIN b :
                                   b[k] = s /\ \A j \in 0..k - 1 : b[j] # s
                      IN  [i \in 1..J + 1 |-> b[J + 1 - i]]
<1>1. m \in Nat
    BY NodesAssumption, FS_CardinalityType
<1>2. PathTo(p1, s, t) = path(b1) /\ PathTo(p2, s, t) = path(b2)
    BY DEF PathTo, IsBack
<1>3. IsBack(p1, s, t, m, b1) /\ IsBack(p2, s, t, m, b2)
    BY <1>1, BackExists
<1> HIDE DEF b1, b2, m
<1>4. IsBack(p2, s, t, m, b1)
    BY <1>1, <1>3, BackIsSame
<1>5. b1 = b2
    BY <1>1, <1>3, <1>4, BackIsUnique
<1> HIDE DEF path
<1> QED BY <1>2, <1>5

(***************************************************************************)
(* What a search may answer: the path to a nearest target, or nothing for  *)
(* one that is not settled when the heap is drained.                       *)
(***************************************************************************)
IsAnswer(x, V, d, p) ==
    /\ Searched(x.ctx, x.from, V, d, p)
    /\ \/ Nearest(d, V, x.to) /\ x.path = PathTo(p, x.from, x.to)
       \/ /\ \A n \in Nodes \ V : d[n] = INFINITY
          /\ x.to \notin V /\ x.path = << >>

LEMMA AnswersAgree ==
    ASSUME NEW x, NEW V1, NEW d1, NEW p1, IsAnswer(x, V1, d1, p1),
           NEW y, NEW V2, NEW d2, NEW p2, IsAnswer(y, V2, d2, p2),
           x.ctx = y.ctx, x.from = y.from, x.to = y.to
    PROVE  x.path = y.path
<1>1. ASSUME NEW c, NEW s, NEW t, NEW V, NEW d, NEW p, Searched(c, s, V, d, p),
             Nearest(d, V, t),
             NEW W, NEW e, NEW r, Searched(c, s, W, e, r),
             \A n \in Nodes \ W : e[n] = INFINITY
      PROVE  t \in W
    <2> DEFINE q == PathTo(p, s, t)
    <2>1. Len(q) \in Nat /\ IsRoute(c, s, t, q)
        BY <1>1, SearchedFacts, PathToIsRoute DEF Nearest
    <2> HIDE DEF q
    <2>2. /\ s \in Nodes /\ e \in [Nodes -> Nat \cup {INFINITY}] /\ e[s] = 0
          /\ \A u \in W : \A n \in Neighbors(c, u) : e[n] # INFINITY
        BY <1>1 DEF Searched
    <2> QED BY <1>1, <2>1, <2>2, DrainedIsComplete
<1>2. Searched(x.ctx, x.from, V1, d1, p1) /\ Searched(x.ctx, x.from, V2, d2, p2)
    BY DEF IsAnswer
<1>3. CASE Nearest(d1, V1, x.to) /\ Nearest(d2, V2, x.to)
    <2>1. x.path = PathTo(p1, x.from, x.to) /\ y.path = PathTo(p2, x.from, x.to)
        BY <1>1, <1>2, <1>3 DEF IsAnswer
    <2> QED BY <1>2, <1>3, <2>1, PathsAgree
<1>4. CASE ~Nearest(d1, V1, x.to) /\ ~Nearest(d2, V2, x.to)
    BY <1>4 DEF IsAnswer
<1>5. CASE Nearest(d1, V1, x.to) /\ ~Nearest(d2, V2, x.to)
    BY <1>1, <1>2, <1>5 DEF IsAnswer
<1>6. CASE ~Nearest(d1, V1, x.to) /\ Nearest(d2, V2, x.to)
    BY <1>1, <1>2, <1>6 DEF IsAnswer
<1> QED BY <1>3, <1>4, <1>5, <1>6

(***************************************************************************)
(* The invariant: nodes are settled in the order of their keys, so that a  *)
(* predecessor, which only a strictly nearer one replaces, is the first.   *)
(***************************************************************************)
OrderInv ==
    pc = "search" =>
        \A v \in visited : \A j \in heap :
            j.node \notin visited => PopsBefore(Key(dist, v), j)

FirstInv ==
    pc = "search" =>
        \A n \in Nodes \ {from} : dist[n] # INFINITY =>
            \A u \in visited :
                Gives(ctx, dist, u, n) =>
                    u = prev[n] \/ PopsBefore(Key(dist, prev[n]), Key(dist, u))

AnswersInv == \A x \in answers : \E V, d, p : IsAnswer(x, V, d, p)

RInv == OrderInv /\ FirstInv /\ AnswersInv

LEMMA SearchIsSearched ==
    ASSUME IInv, FirstInv, pc = "search"
    PROVE  Searched(ctx, from, visited, dist, prev)
<1>1. /\ from \in Nodes /\ visited \subseteq Nodes
      /\ dist \in [Nodes -> Nat \cup {INFINITY}] /\ dist[from] = 0
    BY DEF IInv, TypeOK, SourceInv
<1>2. \A u \in visited :
          /\ dist[u] # INFINITY
          /\ \A n \in Neighbors(ctx, u) :
                dist[n] # INFINITY /\ dist[n] <= dist[u] + EdgeWeight(ctx, u, n)
    BY DEF IInv, SettledAreRelaxed
<1>3. \A v \in visited : \A n \in Nodes \ visited : dist[n] # INFINITY => dist[v] <= dist[n]
    BY SettledAreNearest
<1>4. \A n \in Nodes \ {from} : dist[n] # INFINITY =>
          prev[n] \in visited /\ Gives(ctx, dist, prev[n], n)
    BY DEF IInv, PredecessorChainIntact, Gives
<1> QED BY <1>1, <1>2, <1>3, <1>4 DEF FirstInv, Searched

LEMMA SettleKeepsOrder ==
    ASSUME IInv, OrderInv, FirstInv, NEW i \in heap, Settle(i)
    PROVE  OrderInv' /\ FirstInv'
<1> DEFINE u == i.node
           new(n) == i.dist + EdgeWeight(ctx, u, n)
<1>1. /\ pc = "search" /\ pc' = "search" /\ from' = from /\ ctx' = ctx
      /\ i.dist \in Nat /\ u \in Nodes \ visited
      /\ dist[u] = i.dist
      /\ visited' = visited \cup {u}
      /\ Improved(i) \subseteq Nodes \ (visited \cup {u})
      /\ \A n \in Improved(i) :
             dist'[n] = new(n) /\ prev'[n] = u /\ Closer(dist'[n], dist[n])
      /\ \A n \in Nodes \ Improved(i) :
             dist'[n] = dist[n] /\ prev'[n] = prev[n]
      /\ heap' = (heap \ {i}) \cup
             {[dist |-> new(n), node |-> n] : n \in Improved(i)}
    BY SettleEffect
<1>2. /\ visited \subseteq Nodes /\ heap \subseteq Entry
      /\ \A n \in Nodes : dist[n] \in Nat \cup {INFINITY}
      /\ \A v \in visited : dist[v] \in Nat
    BY DEF IInv, TypeOK, SettledAreRelaxed, Settle
<1>3. \A n \in Improved(i) : new(n) \in Nat /\ new(n) > i.dist
    BY <1>1, WeightIsPositive
<1>4. /\ i = Key(dist, u)
      /\ \A v \in visited : PopsBefore(Key(dist, v), i)
      /\ \A j \in heap \ {i} : PopsBefore(i, j)
    BY <1>1, <1>2 DEF Key, Entry, OrderInv, Settle, Popped
<1>5. \A v \in visited \cup {u} : dist'[v] = dist[v] /\ Key(dist', v) = Key(dist, v)
    BY <1>1, <1>2 DEF Key
<1> HIDE DEF u, new
<1>6. OrderInv'
    <2> SUFFICES ASSUME NEW v \in visited \cup {u}, NEW j \in heap', j.node \notin visited'
                 PROVE  PopsBefore(Key(dist, v), j)
        BY <1>1, <1>5 DEF OrderInv
    <2>1. CASE j \in heap \ {i}
        <3>1. j.node \notin visited
            BY <1>1
        <3>2. v \in visited => PopsBefore(Key(dist, v), j)
            BY <1>1, <2>1, <3>1 DEF OrderInv
        <3> QED BY <1>4, <2>1, <3>2
    <2>2. CASE j \notin heap \ {i}
        <3>1. PICK n \in Improved(i) : j = [dist |-> new(n), node |-> n]
            BY <1>1, <2>2
        <3>2. dist[v] \in Nat /\ dist[v] <= i.dist
            BY <1>1, <1>2, <1>4 DEF PopsBefore, Key
        <3> QED BY <1>1, <1>3, <3>1, <3>2 DEF PopsBefore, Key
    <2> QED BY <2>1, <2>2
<1>7. FirstInv'
    <2> SUFFICES ASSUME NEW n \in Nodes \ {from}, dist'[n] # INFINITY,
                        NEW x \in visited \cup {u}, n \in Neighbors(ctx, x),
                        dist'[n] = dist[x] + EdgeWeight(ctx, x, n)
                 PROVE  x = prev'[n] \/ PopsBefore(Key(dist', prev'[n]), Key(dist, x))
        BY <1>1, <1>5 DEF FirstInv, Gives
    <2>1. CASE n \in Improved(i)
        <3>1. CASE x = u
            BY <1>1, <2>1, <3>1
        <3>2. CASE x \in visited
            <4>1. dist[n] # INFINITY /\ dist[n] <= dist'[n]
                BY <1>1, <3>2 DEF IInv, SettledAreRelaxed
            <4>2. Closer(dist'[n], dist[n]) /\ dist'[n] \in Nat
                BY <1>1, <1>3, <2>1
            <4> QED BY <1>2, <4>1, <4>2 DEF Closer
        <3> QED BY <3>1, <3>2
    <2>2. CASE n \notin Improved(i)
        <3>1. dist'[n] = dist[n] /\ prev'[n] = prev[n]
            BY <1>1, <2>2
        <3>2. prev[n] \in visited /\ Gives(ctx, dist, x, n)
            BY <1>1, <3>1 DEF IInv, PredecessorChainIntact, Gives
        <3>3. Key(dist', prev'[n]) = Key(dist, prev[n])
            BY <1>5, <3>1, <3>2
        <3>4. CASE x = u
            BY <1>4, <3>1, <3>2, <3>3, <3>4
        <3>5. CASE x \in visited
            BY <1>1, <3>1, <3>2, <3>3, <3>5 DEF FirstInv
        <3> QED BY <3>4, <3>5
    <2> QED BY <2>1, <2>2
<1> QED BY <1>6, <1>7

(***************************************************************************)
(* The answers given at the end of a search.                               *)
(***************************************************************************)
LEMMA GivenAnswersStay ==
    ASSUME IInv, WantInv, FirstInv, AnswersInv,
           Exhausted \/ \E i \in heap : SettleLast(i)
    PROVE  AnswersInv'
<1>1. pc = "search"
    BY DEF Exhausted, SettleLast
<1>2. Searched(ctx, from, visited, dist, prev)
    BY <1>1, SearchIsSearched
<1>3. targets \subseteq Nodes
    BY DEF IInv, TypeOK
<1>4. PICK settled :
          /\ answers' = answers \cup
                {[ctx |-> ctx, from |-> from, to |-> t,
                  path |-> IF t \in settled THEN PathTo(prev, from, t) ELSE << >>] :
                     t \in targets}
          /\ \A t \in targets \cap settled : Nearest(dist, visited, t)
          /\ \A t \in targets \ settled :
                t \notin visited /\ \A n \in Nodes \ visited : dist[n] = INFINITY
    <2>1. CASE Exhausted
        <3>1. \A t \in targets \cap visited : Nearest(dist, visited, t)
            BY <1>1, <1>3, SettledAreNearest DEF Nearest
        <3>2. \A n \in Nodes \ visited : dist[n] = INFINITY
            BY <1>1, <2>1 DEF Exhausted, IInv, FrontierInv
        <3>3. answers' = answers \cup
                {[ctx |-> ctx, from |-> from, to |-> t,
                  path |-> IF t \in visited THEN PathTo(prev, from, t) ELSE << >>] :
                     t \in targets}
            BY <2>1 DEF Exhausted, Answer
        <3> QED BY <3>1, <3>2, <3>3
    <2>2. ASSUME NEW i \in heap, SettleLast(i)
          PROVE  LET settled == visited \cup {i.node}
                 IN  /\ answers' = answers \cup
                           {[ctx |-> ctx, from |-> from, to |-> t,
                             path |-> IF t \in settled THEN PathTo(prev, from, t)
                                      ELSE << >>] : t \in targets}
                     /\ targets \subseteq settled
                     /\ \A t \in targets : Nearest(dist, visited, t)
        <3>1. Popped(i) /\ i.node \notin visited /\ want = {i.node}
            BY <2>2 DEF SettleLast
        <3>2. targets \subseteq visited \cup {i.node}
            BY <1>1, <3>1 DEF WantInv
        <3>3. \A t \in targets : Nearest(dist, visited, t)
            BY <1>1, <1>3, <3>1, <3>2, SettledAreNearest, PoppedIsNearest DEF Nearest
        <3> QED BY <2>2, <3>2, <3>3 DEF SettleLast, Answer
    <2>3. ASSUME NEW i \in heap, SettleLast(i)
          PROVE  \E settled :
                    /\ answers' = answers \cup
                          {[ctx |-> ctx, from |-> from, to |-> t,
                            path |-> IF t \in settled THEN PathTo(prev, from, t)
                                     ELSE << >>] : t \in targets}
                    /\ \A t \in targets \cap settled : Nearest(dist, visited, t)
                    /\ \A t \in targets \ settled :
                          t \notin visited /\ \A n \in Nodes \ visited : dist[n] = INFINITY
        <3>1. PICK settled : settled = visited \cup {i.node}
            OBVIOUS
        <3> QED BY <2>2, <2>3, <3>1
    <2> QED BY <2>1, <2>3
<1>5. ASSUME NEW x \in answers' PROVE \E V, d, p : IsAnswer(x, V, d, p)
    <2>1. CASE x \in answers
        BY <2>1 DEF AnswersInv
    <2>2. CASE x \notin answers
        <3>1. PICK t \in targets :
                  x = [ctx |-> ctx, from |-> from, to |-> t,
                       path |-> IF t \in settled THEN PathTo(prev, from, t) ELSE << >>]
            BY <1>4, <2>2
        <3>2. IsAnswer(x, visited, dist, prev)
            BY <1>2, <1>4, <3>1 DEF IsAnswer
        <3> QED BY <3>2
    <2> QED BY <2>1, <2>2
<1> QED BY <1>5 DEF AnswersInv

LEMMA NextPreservesRInv == IInv /\ OInv /\ RInv /\ [Next]_vars => RInv'
<1> SUFFICES ASSUME IInv, OInv, RInv, [Next]_vars PROVE RInv'
    OBVIOUS
<1>1. ASSUME NEW k, NEW c, NEW s, NEW T, Free, Begin(k, c, s, T)
      PROVE  RInv'
    <2>1. /\ visited' = {} /\ answers' = answers
        BY <1>1 DEF Begin, Reset
    <2> QED BY <2>1 DEF RInv, OrderInv, FirstInv, AnswersInv
<1>2. ASSUME NEW i \in heap, SkipVisited(i) PROVE RInv'
    <2>1. /\ UNCHANGED <<pc, ctx, from, visited, dist, prev, answers>>
          /\ heap' \subseteq heap
        BY <1>2 DEF SkipVisited, request, scratch
    <2> QED BY <2>1 DEF RInv, OrderInv, FirstInv, AnswersInv
<1>3. CASE Exhausted \/ \E i \in heap : SettleLast(i)
    <2>1. AnswersInv'
        BY <1>3, GivenAnswersStay DEF RInv, OInv
    <2>2. pc' = "done"
        BY <1>3 DEF Exhausted, SettleLast, Answer
    <2> QED BY <2>1, <2>2 DEF RInv, OrderInv, FirstInv
<1>4. ASSUME NEW i \in heap, Settle(i) PROVE RInv'
    <2>1. OrderInv' /\ FirstInv'
        BY <1>4, SettleKeepsOrder DEF RInv
    <2>2. answers' = answers
        BY <1>4 DEF Settle
    <2> QED BY <2>1, <2>2 DEF RInv, AnswersInv
<1>5. CASE UNCHANGED vars
    BY <1>5 DEF RInv, OrderInv, FirstInv, AnswersInv, vars, request, scratch
<1> QED BY <1>1, <1>2, <1>3, <1>4, <1>5 DEF Next, ShortestPath, ShortestPathMulti

(***************************************************************************)
(* An answer depends on the request alone, for any finite graph, whatever  *)
(* was searched before with the same buffers and whatever else was asked   *)
(* for with it.                                                            *)
(***************************************************************************)
THEOREM AnswersRepeat == Spec => []AnswersAreRepeatable
<1>1. Init => OInv /\ RInv
    BY DEF Init, OInv, WantInv, RoutesAreCheapest, RInv, OrderInv, FirstInv, AnswersInv
<1>2. RInv => AnswersAreRepeatable
    BY AnswersAgree DEF RInv, AnswersInv, AnswersAreRepeatable
<1> QED BY <1>1, <1>2, NextPreservesOInv, NextPreservesRInv, Invariance, PTL DEF Spec
=============================================================================
