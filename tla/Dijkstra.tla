------------------------------ MODULE Dijkstra ------------------------------
(***************************************************************************)
(* shortest_path and shortest_path_multi over a RouteContext, with the     *)
(* scratch buffers a worker thread keeps from one search to the next.      *)
(* One step is one turn of the `while let Some(..) = heap.pop()` loop.     *)
(*                                                                         *)
(* Abstracted: the binary heap is the set of its entries (an entry for a   *)
(* node is pushed only with a smaller distance than the one before, so     *)
(* none occurs twice) and pop takes the least by (distance, node index).   *)
(***************************************************************************)
EXTENDS RouteContext

CONSTANTS Requests,     \* contexts the services build
          MaxSearches   \* bound: searches one thread runs

ASSUME RequestsAssumption == Requests # {} /\ \A c \in Requests : IsContext(c)

INFINITY == -1          \* f32::INFINITY in dist, larger than any distance
NO_PREV  == -1

VARIABLES
    pc,        \* "idle", "search", "done"
    kind,      \* "single" (shortest_path) or "multi" (shortest_path_multi)
    ctx,       \* the RouteContext searched
    from,      \* the source
    targets,   \* the requested targets, one for a single search
    want,      \* targets not settled yet
    dist, prev, visited,   \* DijkstraScratch
    heap,      \* pending entries [dist, node]
    paths,     \* result: the path of every target reached
    searches,  \* searches run so far
    answers    \* every answer given (history for the properties)

scratch == <<dist, prev, visited>>
request == <<kind, ctx, from, targets>>
vars == <<pc, request, want, scratch, heap, paths, searches,
          answers>>

Entry == [dist : Nat, node : Nodes]

\* Faulty PopsBefore: a max-heap.
PopsBeforeMax(i, j) == i.dist > j.dist \/ (i.dist = j.dist /\ i.node < j.node)

\* HeapItem's order, reversed twice: smaller distance, then smaller index.
PopsBefore(i, j) == i.dist < j.dist \/ (i.dist = j.dist /\ i.node < j.node)

\* Faulty Closer: the first label of a node stays.
CloserFirst(d, e) == e = INFINITY

Closer(d, e) == e = INFINITY \/ d < e

----------------------------------------------------------------------------
Init ==
    /\ pc = "idle"
    /\ kind = "single"
    /\ ctx = CHOOSE c \in Requests : TRUE
    /\ from = CHOOSE n \in Nodes : TRUE
    /\ targets = {}
    /\ want = {}
    /\ dist = [n \in Nodes |-> INFINITY]
    /\ prev = [n \in Nodes |-> NO_PREV]
    /\ visited = {}
    /\ heap = {}
    /\ paths = << >>
    /\ searches = 0
    /\ answers = {}

\* Faulty Reset: old distances stay in the buffer.
ResetKeepsDist(s) ==
    /\ dist' = [dist EXCEPT ![s] = 0]
    /\ prev' = [n \in Nodes |-> NO_PREV]
    /\ visited' = {}

\* DijkstraScratch::reset, then the source at distance 0.
Reset(s) ==
    /\ dist' = [n \in Nodes |-> IF n = s THEN 0 ELSE INFINITY]
    /\ prev' = [n \in Nodes |-> NO_PREV]
    /\ visited' = {}

\* The thread is free to run another search.
Free == pc \in {"idle", "done"} /\ searches < MaxSearches

Begin(k, c, s, T) ==
    /\ s \notin c.avoid
    /\ Reset(s)
    /\ pc' = "search"
    /\ kind' = k
    /\ ctx' = c
    /\ from' = s
    /\ targets' = T
    /\ want' = T
    /\ heap' = {[dist |-> 0, node |-> s]}
    /\ paths' = << >>
    /\ searches' = searches + 1
    /\ UNCHANGED answers

\* Both services take the source out of the avoid set; compute_one also
\* takes its destination out.
ShortestPath(c, s, t) == t \notin c.avoid /\ Begin("single", c, s, {t})

ShortestPathMulti(c, s, T) == Begin("multi", c, s, T)

----------------------------------------------------------------------------
\* reconstruct_path: back from t along the predecessors p until s.
PathTo(p, s, t) ==
    LET back[k \in 0..Cardinality(Nodes)] ==
            IF k = 0 THEN t
            ELSE IF back[k - 1] = s THEN s ELSE p[back[k - 1]]
        jumps == CHOOSE k \in DOMAIN back :
                     back[k] = s /\ \A j \in 0..k - 1 : back[j] # s
    IN  [i \in 1..jumps + 1 |-> back[jumps + 1 - i]]

\* Faulty Answer: every settled node gets a path.
AnswerSettled(settled) ==
    /\ pc' = "done"
    /\ paths' = [t \in settled |-> PathTo(prev, from, t)]
    /\ UNCHANGED answers

\* The end of a search: the path of every target among the settled nodes.
Answer(settled) ==
    /\ pc' = "done"
    /\ paths' = [t \in targets \cap settled |-> PathTo(prev, from, t)]
    /\ answers' = answers \cup
           {[ctx |-> ctx, from |-> from, to |-> t,
             path |-> IF t \in settled THEN PathTo(prev, from, t) ELSE << >>] :
                t \in targets}

Popped(i) == i \in heap /\ \A j \in heap \ {i} : PopsBefore(i, j)

SkipVisited(i) ==
    /\ pc = "search"
    /\ Popped(i)
    /\ i.node \in visited
    /\ heap' = heap \ {i}
    /\ UNCHANGED <<pc, request, want, scratch, paths, searches, answers>>

\* A single search returns at its target, a multi-target one breaks off at
\* its last target.
SettleLast(i) ==
    /\ pc = "search"
    /\ Popped(i)
    /\ i.node \notin visited
    /\ want = {i.node}
    /\ heap' = heap \ {i}
    /\ visited' = visited \cup {i.node}
    /\ want' = {}
    /\ Answer(visited \cup {i.node})
    /\ UNCHANGED <<request, dist, prev, searches>>

\* Faulty Improved: settled nodes are relabelled.
ImprovedAll(i) == Neighbors(ctx, i.node)

\* Strictly closer neighbours that are not settled get this node as
\* predecessor and a new heap entry.
Improved(i) ==
    {n \in Neighbors(ctx, i.node) \ (visited \cup {i.node}) :
        Closer(i.dist + EdgeWeight(ctx, i.node, n), dist[n])}

\* An entry above its node's distance is outdated and is not expanded.
Outdated(i) == dist[i.node] # INFINITY /\ dist[i.node] < i.dist

\* Faulty Relax: the first predecessor stays.
RelaxKeepsPrev(i, better) ==
    LET new(n) == i.dist + EdgeWeight(ctx, i.node, n)
    IN  /\ dist' = [n \in Nodes |-> IF n \in better THEN new(n) ELSE dist[n]]
        /\ prev' = [n \in Nodes |-> IF n \in better /\ prev[n] = NO_PREV
                                    THEN i.node ELSE prev[n]]
        /\ heap' = (heap \ {i}) \cup {[dist |-> new(n), node |-> n] : n \in better}

\* Faulty Relax: a pending node is not pushed again.
RelaxPushesOnce(i, better) ==
    LET new(n) == i.dist + EdgeWeight(ctx, i.node, n)
    IN  /\ dist' = [n \in Nodes |-> IF n \in better THEN new(n) ELSE dist[n]]
        /\ prev' = [n \in Nodes |-> IF n \in better THEN i.node ELSE prev[n]]
        /\ heap' = (heap \ {i}) \cup
               {[dist |-> new(n), node |-> n] :
                   n \in {m \in better : \A j \in heap : j.node # m}}

Relax(i, better) ==
    LET new(n) == i.dist + EdgeWeight(ctx, i.node, n)
    IN  /\ dist' = [n \in Nodes |-> IF n \in better THEN new(n) ELSE dist[n]]
        /\ prev' = [n \in Nodes |-> IF n \in better THEN i.node ELSE prev[n]]
        /\ heap' = (heap \ {i}) \cup
                   {[dist |-> new(n), node |-> n] : n \in better}

Settle(i) ==
    /\ pc = "search"
    /\ Popped(i)
    /\ i.node \notin visited
    /\ want # {i.node}
    /\ visited' = visited \cup {i.node}
    /\ want' = want \ {i.node}
    /\ Relax(i, IF Outdated(i) THEN {} ELSE Improved(i))
    /\ UNCHANGED <<pc, request, paths, searches, answers>>

\* The heap drains before every target is settled.
Exhausted ==
    /\ pc = "search"
    /\ heap = {}
    /\ Answer(visited)
    /\ UNCHANGED <<request, want, scratch, heap, searches>>

Next ==
    \/ /\ Free
       /\ \E c \in Requests, s \in Nodes :
             \/ \E t \in Nodes : ShortestPath(c, s, t)
             \/ \E T \in SUBSET Nodes \ {{}} : ShortestPathMulti(c, s, T)
    \/ \E i \in heap : SkipVisited(i)
    \/ \E i \in heap : SettleLast(i)
    \/ \E i \in heap : Settle(i)
    \/ Exhausted

Spec == Init /\ [][Next]_vars
----------------------------------------------------------------------------
TypeOK ==
    /\ pc \in {"idle", "search", "done"}
    /\ kind \in {"single", "multi"}
    /\ ctx \in Requests
    /\ from \in Nodes
    /\ targets \subseteq Nodes
    /\ want \subseteq targets
    /\ dist \in [Nodes -> Nat \cup {INFINITY}]
    /\ prev \in [Nodes -> Nodes \cup {NO_PREV}]
    /\ visited \subseteq Nodes
    /\ heap \subseteq Entry
    /\ DOMAIN paths \subseteq targets
    /\ searches \in Nat

(***************************************************************************)
(* The promise of both searches: a path is returned for exactly the        *)
(* reachable targets, it is a route of the context that enters no avoided  *)
(* system and no system twice, and no route is cheaper under the           *)
(* preference's weights.                                                   *)
(***************************************************************************)
RoutesAreCheapest ==
    pc = "done" =>
        \A t \in targets :
            LET routes == CheapestRoutes(ctx, from, t)
            IN  IF t \in DOMAIN paths THEN paths[t] \in routes ELSE routes = {}

(***************************************************************************)
(* What `safest` is for: no route enters fewer systems that are not        *)
(* highsec, and among those that enter as few none is shorter (the finite  *)
(* SECURITY_PENALTY dominates any number of jumps).                        *)
(***************************************************************************)
SafestIsSafest ==
    pc = "done" /\ ctx.pref = "safest" =>
        LET exposed(a, b) == ctx.sec[b] # "highsec"
        IN  \A t \in DOMAIN paths : \A q \in SimpleRoutes(ctx, from, t) :
                \/ Steps(paths[t], exposed) < Steps(q, exposed)
                \/ /\ Steps(paths[t], exposed) = Steps(q, exposed)
                   /\ Jumps(paths[t]) <= Jumps(q)

(***************************************************************************)
(* What `prefer_gates` is for: a route with steps labelled wormhole or     *)
(* bridge is never taken when a route of gates alone is as good after      *)
(* WORMHOLE_PENALTY jumps less for each such step; the penalty follows the *)
(* label (step_via), so a connection parallel to a gate costs nothing.     *)
(***************************************************************************)
GatesArePreferred ==
    pc = "done" /\ ctx.pref = "prefer_gates" =>
        LET hole(a, b) == StepVia(ctx, a, b) # "stargate"
        IN  \A t \in DOMAIN paths : \A q \in SimpleRoutes(ctx, from, t) :
                Steps(q, hole) = 0 =>
                    Jumps(paths[t]) + WORMHOLE_PENALTY * Steps(paths[t], hole)
                        <= Jumps(q)

(***************************************************************************)
(* An answer depends on the request alone: not on what an earlier search   *)
(* left in the thread's buffers, nor on whether the target was asked for   *)
(* alone or among others (shortest_path_multi as the sibling of            *)
(* shortest_path).                                                         *)
(***************************************************************************)
AnswersAreRepeatable ==
    \A x, y \in answers :
        x.ctx = y.ctx /\ x.from = y.from /\ x.to = y.to => x.path = y.path

(***************************************************************************)
(* While a search runs, the edges out of every settled node are relaxed    *)
(* and no pending entry undercuts a settled node: the labels of settled    *)
(* nodes are final, which is what the early returns rely on.               *)
(***************************************************************************)
SettledAreRelaxed ==
    pc = "search" =>
        \A u \in visited :
            /\ dist[u] # INFINITY
            /\ \A n \in Neighbors(ctx, u) :
                  /\ dist[n] # INFINITY
                  /\ dist[n] <= dist[u] + EdgeWeight(ctx, u, n)
            /\ \A i \in heap : dist[u] <= i.dist

(***************************************************************************)
(* The predecessor chain that reconstruct_path follows is never broken     *)
(* (its debug_assert): the predecessor of a node with a label is a settled *)
(* neighbour, exactly one edge weight nearer to the source, so the walk    *)
(* back ends at the source.                                                *)
(***************************************************************************)
PredecessorChainIntact ==
    pc # "idle" =>
        \A n \in Nodes \ {from} :
            dist[n] # INFINITY =>
                /\ prev[n] \in visited
                /\ n \in Neighbors(ctx, prev[n])
                /\ dist[n] = dist[prev[n]] + EdgeWeight(ctx, prev[n], n)

(***************************************************************************)
(* An entry that is popped for a node not yet settled carries the node's   *)
(* distance: the staleness test after the visited test never skips         *)
(* anything, outdated entries are all caught by `visited`.                 *)
(***************************************************************************)
PoppedEntriesAreCurrent ==
    pc = "search" =>
        \A i \in heap :
            Popped(i) /\ i.node \notin visited => dist[i.node] = i.dist

(***************************************************************************)
(* Within a search the distance and predecessor of a settled node never    *)
(* change.                                                                 *)
(***************************************************************************)
SettledStaySettled ==
    [][pc = "search" =>
          \A u \in visited : /\ u \in visited'
                             /\ dist'[u] = dist[u] /\ prev'[u] = prev[u]]_vars

----------------------------------------------------------------------------
(***************************************************************************)
(* routing.rs:30-32: a wormhole is taken only when it saves more than      *)
(* WORMHOLE_PENALTY jumps.                                                 *)
(***************************************************************************)
WormholeSavesMoreThanPenalty ==
    pc = "done" /\ ctx.pref = "prefer_gates" =>
        LET hole(a, b) == StepVia(ctx, a, b) # "stargate"
        IN  \A t \in DOMAIN paths : \A q \in SimpleRoutes(ctx, from, t) :
                Steps(q, hole) = 0 /\ Steps(paths[t], hole) > 0 =>
                    Jumps(q) - Jumps(paths[t])
                        > WORMHOLE_PENALTY * Steps(paths[t], hole)
=============================================================================
