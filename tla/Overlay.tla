------------------------------ MODULE Overlay ------------------------------
(***************************************************************************)
(* What the gate-route and the staging service do with the routing knobs   *)
(* of a request before and after a search: resolve its systems, assemble   *)
(* the avoid set, add connections and signatures to the overlay, label the *)
(* steps.  Pure operators over                                             *)
(*                                                                         *)
(*   g     a graph of GraphData                                            *)
(*   req   a request: avoid, connections (sequences), use_wormholes,       *)
(*         use_bridges, include_thera, include_turnur, include_zarzakh     *)
(*   ctx   a routing context of RouteContext                               *)
(***************************************************************************)
EXTENDS RouteContext, GraphData, EveScout

CONSTANT Zarzakh           \* the id of the system excluded by default

\* What SdeParse leaves of a build.  That an id and a name, in whatever
\* spelling, belong to one system is what the SDE promises: the parser keeps
\* rows that share a key (SdeParse) and does not check it.  Coordinates and
\* base ranges are in hundredths of a light-year.
SystemRow == [id : Nat, name : STRING, sec : SecClasses, coords : [1..3 -> Int]]
HullRow   == [type_id : Nat, name : STRING, group_id : Nat, base_ly : Nat]

IsParsed(sde) ==
    /\ sde.systems \in Seq(SystemRow)
    /\ \A i, j \in DOMAIN sde.systems : i # j =>
          /\ sde.systems[i].id # sde.systems[j].id
          /\ Lower[sde.systems[i].name] # Lower[sde.systems[j].name]
    /\ \A i \in DOMAIN sde.systems : i - 1 \in Nodes
    /\ sde.gate_pairs \in Seq(Nat \X Nat)
    /\ sde.hulls.hulls \in Seq(HullRow)
    /\ sde.hulls.jdc_bonus_per_level \in Nat \cup {NoBonus}

\* A reference to a system, and a connection of a request.
Ref        == [by : {"id"}, key : Int] \cup [by : {"name"}, key : STRING]
Connection == [kind : EdgeKinds, from : Ref, to : Ref]
----------------------------------------------------------------------------
SecOf(g) == [n \in Nodes |-> SystemAt(g, n).sec]

\* The first of some references that the graph does not know.
AllResolve(g, refs) ==
    \A i \in DOMAIN refs : ResolveSystem(g, refs[i]) # Unresolved

FirstUnknown(g, refs) ==
    refs[CHOOSE i \in DOMAIN refs :
            /\ ResolveSystem(g, refs[i]) = Unresolved
            /\ \A j \in 1..i - 1 : ResolveSystem(g, refs[j]) # Unresolved]

\* The ends of some connections, in the order they are resolved.
EndsInOrder(cs) ==
    [i \in 1..2 * Len(cs) |->
        IF i % 2 = 1 THEN cs[(i + 1) \div 2].from ELSE cs[i \div 2].to]

\* Faulty ConnectionRefs: a connection whose flag is off is not looked at.
ConnectionRefsUsed(req) ==
    LET used(c) == IF c.kind = "bridge" THEN req.use_bridges
                                        ELSE req.use_wormholes
    IN  EndsInOrder(SelectSeq(req.connections, used))

ConnectionRefs(req) == EndsInOrder(req.connections)

\* resolve_connections, whatever the use-flags say.
ResolveConnections(g, req) ==
    [i \in DOMAIN req.connections |->
        LET c == req.connections[i]
        IN  [a |-> ResolveSystem(g, c.from), b |-> ResolveSystem(g, c.to),
             kind |-> c.kind]]

\* assemble_avoid_set
AssembleAvoidSet(g, req) ==
    LET avoid == {ResolveSystem(g, r) : r \in ToSet(req.avoid)}
    IN  IF ~req.include_zarzakh /\ Zarzakh \in DOMAIN g.id_to_idx
        THEN avoid \cup {g.id_to_idx[Zarzakh]} ELSE avoid

\* A loop over edges [a, b, kind] that adds those with an index in `used`.
AddEdges(overlay, edges, used) ==
    LET after[i \in 0..Len(edges)] ==
            IF i = 0 THEN overlay
            ELSE IF i \in used
                 THEN AddConnection(after[i - 1], edges[i].a, edges[i].b, edges[i].kind)
                 ELSE after[i - 1]
    IN  after[Len(edges)]

\* add_overlay_connections: the kinds whose flag is set, in request order.
AddOverlayConnections(ctx, req, connections) ==
    LET enabled(kind) == \/ kind = "wormhole" /\ req.use_wormholes
                         \/ kind = "bridge" /\ req.use_bridges
        used == {i \in DOMAIN connections : enabled(connections[i].kind)}
    IN  [ctx EXCEPT !.overlay = AddEdges(@, connections, used)]

\* The node of an id, if the graph knows it.
NodeOf(g, id) == ResolveSystem(g, [by |-> "id", key |-> id])

\* add_scout_edges: expired signatures and unknown systems are skipped.
AddScoutEdges(ctx, g, sigs, now) ==
    LET edges == [i \in DOMAIN sigs |->
                     [a |-> NodeOf(g, sigs[i].out), b |-> NodeOf(g, sigs[i].in),
                      kind |-> "wormhole"]]
        used  == {i \in DOMAIN sigs : /\ IsLive(sigs[i], now)
                                      /\ Unresolved \notin {edges[i].a, edges[i].b}}
    IN  [ctx EXCEPT !.overlay = AddEdges(@, edges, used)]

\* Faulty ApplyScoutOverlay: the flags alone decide.
ApplyScoutOverlayByFlag(ctx, g, scout, req, endpoints, now) ==
    LET withThera == IF req.include_thera
                     THEN AddScoutEdges(ctx, g, scout.thera, now) ELSE ctx
    IN  IF req.include_turnur
        THEN AddScoutEdges(withThera, g, scout.turnur, now) ELSE withThera

\* apply_scout_overlay: a hub's signatures when its flag is set, or when the
\* hub is an endpoint of the route.
ApplyScoutOverlay(ctx, g, scout, req, endpoints, now) ==
    LET endpoint(hub) == /\ hub \in DOMAIN g.id_to_idx
                         /\ g.id_to_idx[hub] \in endpoints
        withThera == IF req.include_thera \/ endpoint(Thera)
                     THEN AddScoutEdges(ctx, g, scout.thera, now) ELSE ctx
    IN  IF req.include_turnur \/ endpoint(Turnur)
        THEN AddScoutEdges(withThera, g, scout.turnur, now) ELSE withThera

\* build_steps
BuildSteps(g, ctx, path) ==
    [k \in 1..Len(path) |->
        [system_id |-> SystemAt(g, path[k]).id,
         via |-> IF k = 1 THEN "start" ELSE StepVia(ctx, path[k - 1], path[k])]]
=============================================================================
