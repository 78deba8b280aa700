---------------------------- MODULE RouteContext ----------------------------
(***************************************************************************)
(* The per-request routing context: the gate graph, the overlay of user    *)
(* connections and EVE-Scout signatures over it, the avoid set and the     *)
(* preference, and the edge weights they give.  Pure operators over a      *)
(* context record                                                          *)
(*                                                                         *)
(*   gates    a set of unordered pairs of systems                          *)
(*   sec      the security class of each system                            *)
(*   overlay  a function from ordered pairs to the kind of the connection  *)
(*   avoid    the systems a route must not enter                           *)
(*   pref     the routing preference                                       *)
(*                                                                         *)
(* Systems are the node indices 0 .. N-1.  Weights are sums of 1, 2 and    *)
(* 10000, exact in the f32 of the code below 2^24, hence natural numbers.  *)
(***************************************************************************)
EXTENDS Integers, Sequences, FiniteSets

CONSTANT Nodes     \* node indices of the graph

ASSUME NodesAssumption ==
    Nodes # {} /\ Nodes \subseteq Nat /\ IsFiniteSet(Nodes)

SecClasses  == {"highsec", "lowsec", "nullsec", "wormhole"}
Preferences == {"shortest", "safest", "prefer_gates"}
EdgeKinds   == {"wormhole", "bridge"}

SECURITY_PENALTY == 10000
WORMHOLE_PENALTY == 2

\* A context the services can build.  An overlay is mirrored: no code path
\* adds one direction of a connection only.
IsContext(ctx) ==
    /\ \A g \in ctx.gates : \E a, b \in Nodes : g = {a, b}
    /\ ctx.sec \in [Nodes -> SecClasses]
    /\ DOMAIN ctx.overlay \subseteq Nodes \X Nodes
    /\ \A a, b \in Nodes :
          <<a, b>> \in DOMAIN ctx.overlay =>
              /\ <<b, a>> \in DOMAIN ctx.overlay
              /\ ctx.overlay[<<a, b>>] = ctx.overlay[<<b, a>>]
              /\ ctx.overlay[<<a, b>>] \in EdgeKinds
    /\ ctx.avoid \subseteq Nodes
    /\ ctx.pref \in Preferences

----------------------------------------------------------------------------
\* RouteContext::new
NewContext(gates, sec, avoid, pref) ==
    [gates |-> gates, sec |-> sec, overlay |-> << >>, avoid |-> avoid,
     pref |-> pref]

\* add_connection: both directions, no self-loop, the first kind stays.
AddConnection(overlay, a, b, kind) ==
    IF a = b THEN overlay
    ELSE [e \in DOMAIN overlay \cup {<<a, b>>, <<b, a>>} |->
             IF e \in DOMAIN overlay THEN overlay[e] ELSE kind]

IsOverlayEdge(ctx, a, b) == <<a, b>> \in DOMAIN ctx.overlay

HasGateEdge(ctx, a, b) == {a, b} \in ctx.gates

\* The label of a step: a gate hides a connection of the same pair.
StepVia(ctx, a, b) ==
    IF ~HasGateEdge(ctx, a, b) /\ IsOverlayEdge(ctx, a, b)
    THEN ctx.overlay[<<a, b>>]
    ELSE "stargate"

Neighbors(ctx, a) ==
    {b \in Nodes : /\ b \notin ctx.avoid
                   /\ HasGateEdge(ctx, a, b) \/ IsOverlayEdge(ctx, a, b)}

\* Faulty SecurityPenalty: lowsec counts as safe.
SecurityPenaltyNullsec(ctx, b) ==
    IF ctx.pref = "safest" /\ ctx.sec[b] \in {"nullsec", "wormhole"}
    THEN SECURITY_PENALTY ELSE 0

SecurityPenalty(ctx, b) ==
    IF ctx.pref = "safest" /\ ctx.sec[b] # "highsec"
    THEN SECURITY_PENALTY ELSE 0

\* Faulty WormholePenalty: a gate with a parallel connection pays.
WormholePenaltyOnGates(ctx, a, b) ==
    IF ctx.pref = "prefer_gates" /\ IsOverlayEdge(ctx, a, b)
    THEN WORMHOLE_PENALTY ELSE 0

WormholePenalty(ctx, a, b) ==
    IF /\ ctx.pref = "prefer_gates"
       /\ IsOverlayEdge(ctx, a, b)
       /\ ~HasGateEdge(ctx, a, b)
    THEN WORMHOLE_PENALTY ELSE 0

EdgeWeight(ctx, a, b) ==
    1 + SecurityPenalty(ctx, b) + WormholePenalty(ctx, a, b)
----------------------------------------------------------------------------
(* What a route is, for the properties.                                    *)

IsRoute(ctx, s, t, p) ==
    /\ p \in Seq(Nodes)
    /\ Len(p) > 0 /\ p[1] = s /\ p[Len(p)] = t
    /\ \A k \in 1..Len(p) - 1 : p[k + 1] \in Neighbors(ctx, p[k])

Jumps(p) == Len(p) - 1

\* How many steps of a path satisfy a test on the step.
Steps(p, Test(_, _)) ==
    Cardinality({k \in 1..Len(p) - 1 : Test(p[k], p[k + 1])})

Cost(ctx, p) ==
    LET upTo[k \in 1..Len(p)] ==
            IF k = 1 THEN 0 ELSE upTo[k - 1] + EdgeWeight(ctx, p[k - 1], p[k])
    IN  upTo[Len(p)]

\* The paths of a set, each longer by a system it does not hold yet.
Extended(ctx, ps) ==
    UNION {{Append(p, n) : n \in {m \in Neighbors(ctx, p[Len(p)]) :
                                     \A k \in 1..Len(p) : p[k] # m}} : p \in ps}

\* Every route from s to t that enters no system twice.
SimpleRoutes(ctx, s, t) ==
    LET within[k \in 0..Cardinality(Nodes) - 1] ==
            IF k = 0 THEN {<<s>>}
            ELSE LET ps == within[k - 1] IN ps \cup Extended(ctx, ps)
    IN  {p \in within[Cardinality(Nodes) - 1] : p[Len(p)] = t}

\* What a search returns one of, or nothing when there is none: what Dijkstra
\* promises (RoutesAreCheapest) is what the handlers are modelled with.
CheapestRoutes(ctx, s, t) ==
    LET routes == SimpleRoutes(ctx, s, t)
    IN  {p \in routes : \A q \in routes : Cost(ctx, p) <= Cost(ctx, q)}
=============================================================================
