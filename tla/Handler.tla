------------------------------ MODULE Handler ------------------------------
(***************************************************************************)
(* What the three route handlers have in common: a body comes in and is    *)
(* decoded, the handler loads its snapshots, one step each, because the    *)
(* reload task, the poller and the clock run on other threads meanwhile,   *)
(* and answers or refuses.  Handlers share nothing that they write, so one *)
(* request is modelled, coming at any moment of the service's life.        *)
(***************************************************************************)
EXTENDS LiveState, Overlay, Wire

CONSTANTS
    Sde,       \* Sde[b]: the parsed SDE of build b
    Bodies     \* bodies a client may send

ASSUME SdeAssumption == \A b \in Builds : IsParsed(Sde[b])

\* What serde leaves of the fields that are not wrong.

FieldType(route, f) ==
    CASE f = "to"                 -> IF route = "system" THEN Seq(Ref) ELSE Ref
      [] f \in {"from", "ship"}   -> Ref
      [] f = "avoid"              -> Seq(Ref)
      [] f = "connections"        -> Seq(Connection)
      [] f = "preference"         -> Preferences
      [] f = "jdc_level"          -> Int
      [] OTHER                    -> BOOLEAN

ASSUME BodiesAssumption ==
    \A body \in Bodies :
        /\ body.route \in {"system", "blops", "range"}
        /\ \A f \in (Fields(body.route) \cap DOMAIN body.given) \ body.wrong :
              body.given[f] \in FieldType(body.route, f)

VARIABLES
    pc,          \* "idle", "loading", "checking", "routing", "answered"
    req,         \* the request
    view,        \* the graph snapshot: the build the handler loaded
    viewScout,   \* the signature snapshot it loaded
    failure,     \* the request-level error
    began        \* clock when the request came (history)

request     == <<req, began>>
snapshots   == <<view, viewScout>>
handlerVars == <<pc, request, snapshots, failure>>

NoRequest == [route |-> "none"]
NoFailure == [error |-> "none"]

GraphOf == [b \in Builds |-> BuildGraph(Sde[b], b)]

HandlerInit ==
    /\ LiveInit
    /\ pc = "idle"
    /\ req = NoRequest
    /\ view = graph
    /\ viewScout = EmptySnapshot
    /\ failure = NoFailure
    /\ began = 0

----------------------------------------------------------------------------
\* axum's Json extractor refuses a body before the handler runs.
RefuseBody(body) ==
    /\ pc = "idle"
    /\ Malformed(body)
    /\ pc' = "answered"
    /\ req' = [route |-> body.route]
    /\ failure' = [error |-> "malformed"]
    /\ UNCHANGED <<liveVars, snapshots, began>>

LoadGraph(body) ==
    /\ pc = "idle"
    /\ ~Malformed(body)
    /\ pc' = IF body.route = "range" THEN "checking" ELSE "loading"
    /\ req' = Decode(body)
    /\ began' = clock
    /\ view' = graph
    /\ UNCHANGED <<liveVars, viewScout, failure>>

\* Not for a range request, which knows no overlay.
LoadScout ==
    /\ pc = "loading"
    /\ pc' = "checking"
    /\ viewScout' = eve_scout
    /\ UNCHANGED <<liveVars, request, view, failure>>

\* Faulty G: the live graph instead of the one loaded.
GLive == GraphOf[graph]

G == GraphOf[view]

From == ResolveSystem(G, req.from)

\* The request-level error of a handler.
Reject(error) ==
    /\ pc = "checking"
    /\ pc' = "answered"
    /\ failure' = error
    /\ UNCHANGED <<liveVars, request, snapshots>>

Unknown(refs) == [error |-> "unknown_system", ref |-> FirstUnknown(G, refs)]

\* avoid[], then connections[].
OverlayRefs == req.avoid \o ConnectionRefs(req)

\* The context of a search; the clock is read for each.
ContextFor(avoid, connections, endpoints) ==
    LET base == NewContext(G.gate_graph, SecOf(G), avoid, req.preference)
    IN  ApplyScoutOverlay(AddOverlayConnections(base, req, connections),
                          G, viewScout, req, endpoints, clock)

----------------------------------------------------------------------------
(* The routes a request allows, in the words of the specification: by the  *)
(* ids of the systems, from the SDE the handler loaded.  `ends` are the    *)
(* ids of the systems at the ends of the request, t a time.                *)

SystemsOf == ToSet(Sde[view].systems)

Named(ref) ==
    {s.id : s \in {t \in SystemsOf :
        IF ref.by = "id" THEN t.id = ref.key
                         ELSE Lower[t.name] = Lower[ref.key]}}

GateHop(x, y) == {<<x, y>>, <<y, x>>} \cap ToSet(Sde[view].gate_pairs) # {}

\* The connections of the request between two systems whose flag is on.
Joining(x, y) ==
    {i \in DOMAIN req.connections :
        LET c == req.connections[i]
        IN  /\ IF c.kind = "bridge" THEN req.use_bridges ELSE req.use_wormholes
            /\ <<x, y>> \in (Named(c.from) \X Named(c.to)) \cup
                            (Named(c.to) \X Named(c.from))}

\* They are one hop, of the kind that the first of them has.
UserHop(kind, x, y) ==
    \E i \in Joining(x, y) : /\ req.connections[i].kind = kind
                             /\ \A j \in Joining(x, y) : i <= j

\* A signature that is still live at t, of a hub that is asked for.
ScoutHop(x, y, ends, t) ==
    \E s \in ToSet(viewScout.thera) \cup ToSet(viewScout.turnur) :
        /\ s.type = "wormhole" /\ s.expires > t /\ {s.out, s.in} = {x, y}
        /\ \/ s.out = Thera /\ req.include_thera
           \/ s.out = Turnur /\ req.include_turnur
           \/ s.out \in {Thera, Turnur} \cap ends

Hop(x, y, ends, t) ==
    \/ GateHop(x, y)
    \/ Joining(x, y) # {}
    \/ ScoutHop(x, y, ends, t)

\* Systems that a route may start or end in but not pass.
Barred(x) ==
    \/ \E r \in ToSet(req.avoid) : x \in Named(r)
    \/ x = Zarzakh /\ ~req.include_zarzakh

\* WithinJumps(ends, t)[k]: the ids within k jumps of `from`.
WithinJumps(ends, t) ==
    LET ids    == {s.id : s \in SystemsOf}
        start  == Named(req.from)
        open(x) == x \in start \/ ~Barred(x)
        within[k \in 0..Cardinality(ids)] ==
            IF k = 0 THEN start
            ELSE LET near    == within[k - 1]
                     passable == {x \in near : open(x)}
                 IN  near \cup {y \in ids \ near :
                                   \E x \in passable : Hop(x, y, ends, t)}
    IN  within

\* The steps of a path are hops of the request, each labelled with what it
\* is: a gate before all, and a connection of the request before a signature.
IsAllowed(path, ends, t) ==
    /\ \A k \in 2..Len(path) - 1 : ~Barred(path[k].system_id)
    /\ \A k \in 2..Len(path) :
          LET x == path[k - 1].system_id y == path[k].system_id
          IN  CASE path[k].via = "stargate" -> GateHop(x, y)
                [] path[k].via = "bridge"   ->
                      ~GateHop(x, y) /\ UserHop("bridge", x, y)
                [] path[k].via = "wormhole" ->
                      /\ ~GateHop(x, y)
                      /\ \/ UserHop("wormhole", x, y)
                         \/ Joining(x, y) = {} /\ ScoutHop(x, y, ends, t)

HandlerTypeOK ==
    /\ clock \in 0..MaxClock
    /\ graph \in Builds /\ view \in Builds
    /\ swaps \in 0..MaxSwaps /\ last_reload_at \in 0..swaps
    /\ pc \in {"idle", "loading", "checking", "routing", "answered"}
    /\ req.route \in {"none", "system", "blops", "range"}
    /\ began \in 0..clock
    /\ failure # NoFailure => pc = "answered" /\ StatusOf(failure.error) >= 400
=============================================================================
