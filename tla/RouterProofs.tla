---------------------------- MODULE RouterProofs ----------------------------
(***************************************************************************)
(* Proofs about the three routes, for any builds, feeds and bodies.        *)
(***************************************************************************)
EXTENDS Router, OverlayProofs

----------------------------------------------------------------------------
(* The inductive invariant.                                                *)

\* A request that was decoded has its fields, of their types.
OverlayFieldsOK(r) ==
    /\ r.avoid \in Seq(Ref) /\ r.connections \in Seq(Connection)
    /\ r.preference \in Preferences
    /\ r.use_wormholes \in BOOLEAN /\ r.use_bridges \in BOOLEAN
    /\ r.include_thera \in BOOLEAN /\ r.include_turnur \in BOOLEAN
    /\ r.include_zarzakh \in BOOLEAN

RequestOK(r) ==
    /\ r.from \in Ref
    /\ r.route = "system" => r.to \in Seq(Ref) /\ OverlayFieldsOK(r)
    /\ r.route = "blops" => /\ r.to \in Ref /\ OverlayFieldsOK(r)
                            /\ r.ship \in Ref \cup {NoShip} /\ r.jdc_level \in Int
    /\ r.route = "range" => r.ship \in Ref /\ r.jdc_level \in Int

\* The service.
LiveInv ==
    /\ clock \in 0..MaxClock
    /\ graph \in Builds
    /\ swaps \in 0..MaxSwaps /\ last_reload_at \in 0..swaps
    /\ IsSnapshot(eve_scout)

\* The request and what its handler loaded.
HandlerInv ==
    /\ view \in Builds /\ IsSnapshot(viewScout)
    /\ began \in 0..clock
    /\ pc \in {"idle", "loading", "checking", "routing", "answered"}
    /\ pc = "idle" => req = NoRequest
    /\ pc # "idle" => req.route \in {"system", "blops", "range"}
    /\ pc # "idle" /\ failure.error # "malformed" => RequestOK(req)
    /\ pc = "routing" => req.route = "system"
    /\ pc # "answered" => failure = NoFailure
    /\ failure.error \in {"none", "malformed", "invalid_param", "unknown_system",
                          "unknown_hull", "cyno_target_highsec",
                          "no_staging_in_range", "staging_unreachable"}
    /\ failure.error = "none" => failure = NoFailure

\* A request for gate routes that was not refused: its header is right, its
\* connections and avoid set are what the header says, and no slot is filled
\* before or beyond its destinations.
Routed == /\ pc \in {"routing", "answered"} /\ failure = NoFailure
          /\ req.route = "system"

SlotFailure == [to : Ref, error : {"unknown_system", "unreachable"}]
SlotRoute   == [to : Ref, jumps : Nat, path : Seq(RouteStep)]

GateInv ==
    /\ results \in Seq(SlotFailure \cup SlotRoute)
    /\ \A i \in DOMAIN results : results[i].to = req.to[i]
    /\ ~Routed => results = << >> /\ avoid = {} /\ connections = << >>
    /\ Routed =>
          /\ ~OutOfBounds /\ AllResolve(G, SharedRefs)
          /\ avoid = AssembleAvoidSet(G, req) \ {From}
          /\ connections = ResolveConnections(G, req)
          /\ Len(results) <= Len(req.to)
          /\ pc = "routing" <=> Len(results) < Len(req.to)

----------------------------------------------------------------------------
(* What references mean in the build that was loaded.                      *)

Raw == Sde[view]

LEMMA ViewFacts ==
    ASSUME view \in Builds
    PROVE  IsParsed(Raw) /\ G = BuildGraph(Raw, view)
BY SdeAssumption DEF Raw, G, GraphOf

(***************************************************************************)
(* A reference names no system or the one that the lookup finds.           *)
(***************************************************************************)
LEMMA NamedIsLookup ==
    ASSUME view \in Builds, NEW ref
    PROVE  LET n == ResolveSystem(G, ref)
           IN  /\ n = Unresolved => Named(ref) = {}
               /\ n # Unresolved => /\ Named(ref) = {SystemAt(G, n).id}
                                    /\ n \in 0..Len(Raw.systems) - 1
                                    /\ n \in Nodes
<1> DEFINE n == ResolveSystem(G, ref)
           systems == Raw.systems
           m == Len(systems)
<1>1. IsParsed(Raw) /\ G = BuildGraph(Raw, view)
    BY ViewFacts
<1>2. /\ m \in Nat /\ DOMAIN systems = 1..m
      /\ \A i \in 1..m : systems[i] \in SystemRow /\ i - 1 \in Nodes
    BY <1>1, ParsedFacts
<1>3. Named(ref) = {systems[i].id : i \in {j \in 1..m : Means(systems, ref, j)}}
    <2>1. SystemsOf = {systems[i] : i \in 1..m}
        BY <1>2 DEF SystemsOf, Raw, ToSet
    <2> QED BY <2>1 DEF Named, Means
<1>4. /\ n = Unresolved \/ (n \in 0..m - 1 /\ Means(systems, ref, n + 1))
      /\ n = Unresolved => \A i \in 1..m : ~Means(systems, ref, i)
    <2> HIDE DEF systems, m
    <2> QED BY <1>1, <1>2, LookupFinds DEF systems, m
<1>5. \A i \in 1..m : Means(systems, ref, i) => n = i - 1
    BY <1>1, LookupIsUnique
<1>6. SystemAt(G, n) = systems[n + 1]
    BY <1>1 DEF SystemAt, BuildGraph
<1> HIDE DEF n, systems, m
<1>7. CASE n = Unresolved
    BY <1>3, <1>4, <1>7 DEF n
<1>8. CASE n # Unresolved
    <2>1. n \in 0..m - 1 /\ n + 1 \in 1..m /\ Means(systems, ref, n + 1)
        BY <1>2, <1>4, <1>8
    <2>2. \A i \in 1..m : Means(systems, ref, i) <=> i = n + 1
        BY <1>2, <1>5, <2>1
    <2>3. Named(ref) = {systems[n + 1].id}
        BY <1>3, <2>1, <2>2
    <2>4. n \in Nodes
        BY <1>2, <2>1
    <2> QED BY <1>6, <1>8, <2>1, <2>3, <2>4 DEF n, systems, m
<1> QED BY <1>7, <1>8

----------------------------------------------------------------------------
(* What the extractor leaves of a body.                                    *)

LEMMA FieldsOfRoutes ==
    /\ DOMAIN OverlayDefaults =
           {"preference", "avoid", "connections", "use_wormholes", "use_bridges",
            "include_thera", "include_turnur", "include_zarzakh"}
    /\ Fields("system") = {"from", "to"} \cup DOMAIN OverlayDefaults
    /\ Fields("blops") =
           {"from", "to", "ship", "jdc_level"} \cup DOMAIN OverlayDefaults
    /\ Fields("range") = {"from", "ship", "jdc_level"}
<1>1. DOMAIN OverlayDefaults =
           {"preference", "avoid", "connections", "use_wormholes", "use_bridges",
            "include_thera", "include_turnur", "include_zarzakh"}
    BY DEF OverlayDefaults
<1>2. DOMAIN << >> = {}
    OBVIOUS
<1>3. Fields("system") = {"from", "to"} \cup DOMAIN OverlayDefaults
    BY DEF Fields, RequestOf, GateRouteRequest
<1>4. Fields("blops") =
           {"from", "to", "ship", "jdc_level"} \cup DOMAIN OverlayDefaults
    BY DEF Fields, RequestOf, BlopsRouteRequest
<1>5. Fields("range") = {"from", "ship", "jdc_level"}
    BY <1>2 DEF Fields, RequestOf, RangeRequest
<1> QED BY <1>1, <1>3, <1>4, <1>5

LEMMA DefaultsAreTyped ==
    ASSUME NEW route \in {"system", "blops"}, NEW f \in DOMAIN OverlayDefaults
    PROVE  OverlayDefaults[f] \in FieldType(route, f)
<1>1. f \in {"preference", "avoid", "connections", "use_wormholes", "use_bridges",
             "include_thera", "include_turnur", "include_zarzakh"}
    BY FieldsOfRoutes
<1>2. << >> \in Seq(Ref) /\ << >> \in Seq(Connection)
    OBVIOUS
<1>3. CASE f \in {"avoid", "connections"}
    <2>1. OverlayDefaults[f] = << >>
        BY <1>3 DEF OverlayDefaults
    <2>2. FieldType(route, f) \in {Seq(Ref), Seq(Connection)}
        BY <1>3 DEF FieldType
    <2> QED BY <1>2, <2>1, <2>2
<1>4. CASE f = "preference"
    BY <1>4 DEF OverlayDefaults, FieldType, Preferences
<1>5. CASE f \notin {"avoid", "connections", "preference"}
    <2>1. OverlayDefaults[f] = FALSE
        BY <1>1, <1>5 DEF OverlayDefaults
    <2>2. FieldType(route, f) = BOOLEAN
        BY <1>1, <1>5 DEF FieldType
    <2> QED BY <2>1, <2>2
<1> QED BY <1>3, <1>4, <1>5

(***************************************************************************)
(* A body that is not refused becomes a request of its route, each field   *)
(* of its type.                                                            *)
(***************************************************************************)
LEMMA DecodedIsOK ==
    ASSUME NEW body \in Bodies, ~Malformed(body)
    PROVE  LET r == Decode(body)
           IN  /\ r.route = body.route /\ r.route \in {"system", "blops", "range"}
               /\ RequestOK(r)
<1> DEFINE r     == Decode(body)
           route == body.route
<1>1. route \in {"system", "blops", "range"}
    BY BodiesAssumption
<1>2. \A f \in Fields(route) \cap DOMAIN body.given :
          body.given[f] \in FieldType(route, f)
    BY BodiesAssumption DEF Malformed
<1>3. RequestOf(route).required \subseteq DOMAIN body.given
    BY DEF Malformed
<1>4. r.route = route
    BY DEF Decode
<1>5. \A f \in Fields(route) : f # "route" /\ r[f] =
          IF f \in DOMAIN body.given THEN body.given[f] ELSE RequestOf(route).optional[f]
    <2>1. \A f \in Fields(route) : f # "route"
        BY <1>1, FieldsOfRoutes
    <2> QED BY <2>1 DEF Decode
<1> HIDE DEF r
<1>6. \A f \in RequestOf(route).required : r[f] \in FieldType(route, f)
    BY <1>2, <1>3, <1>5 DEF Fields
<1>7. ASSUME route \in {"system", "blops"}, NEW f \in DOMAIN OverlayDefaults
      PROVE  r[f] \in FieldType(route, f)
    <2>1. f \in Fields(route) /\ f \notin {"ship", "jdc_level"}
        BY <1>7, FieldsOfRoutes
    <2>2. RequestOf(route).optional[f] = OverlayDefaults[f]
        <3>1. CASE route = "system"
            BY <3>1 DEF RequestOf, GateRouteRequest
        <3>2. CASE route = "blops"
            BY <2>1, <3>2 DEF RequestOf, BlopsRouteRequest
        <3> QED BY <1>7, <3>1, <3>2
    <2>3. OverlayDefaults[f] \in FieldType(route, f)
        BY <1>7, DefaultsAreTyped
    <2> QED BY <1>2, <1>5, <2>1, <2>2, <2>3
<1>8. ASSUME route \in {"system", "blops"} PROVE OverlayFieldsOK(r)
    <2>1. \A f \in {"preference", "avoid", "connections", "use_wormholes",
                    "use_bridges", "include_thera", "include_turnur",
                    "include_zarzakh"} : r[f] \in FieldType(route, f)
        BY <1>7, <1>8, FieldsOfRoutes
    <2>2. r["avoid"] \in Seq(Ref) /\ r["connections"] \in Seq(Connection)
        BY <2>1 DEF FieldType
    <2>3. r["preference"] \in Preferences
        BY <2>1 DEF FieldType
    <2>4. /\ r["use_wormholes"] \in BOOLEAN /\ r["use_bridges"] \in BOOLEAN
          /\ r["include_thera"] \in BOOLEAN /\ r["include_turnur"] \in BOOLEAN
          /\ r["include_zarzakh"] \in BOOLEAN
        BY <2>1 DEF FieldType
    <2> QED BY <2>2, <2>3, <2>4 DEF OverlayFieldsOK
<1>9. r["from"] \in Ref
    <2>1. "from" \in RequestOf(route).required
        BY <1>1 DEF RequestOf, GateRouteRequest, BlopsRouteRequest, RangeRequest
    <2> QED BY <1>6, <2>1 DEF FieldType
<1>10. ASSUME route = "system" PROVE r["to"] \in Seq(Ref)
    <2>1. "to" \in RequestOf(route).required
        BY <1>10 DEF RequestOf, GateRouteRequest
    <2> QED BY <1>6, <1>10, <2>1 DEF FieldType
<1>11. ASSUME route = "blops" PROVE r["to"] \in Ref
    <2>1. "to" \in RequestOf(route).required
        BY <1>11 DEF RequestOf, BlopsRouteRequest
    <2> QED BY <1>6, <1>11, <2>1 DEF FieldType
<1>12. ASSUME route = "range" PROVE r["ship"] \in Ref /\ r["jdc_level"] \in Int
    <2>1. {"ship", "jdc_level"} \subseteq RequestOf(route).required
        BY <1>12 DEF RequestOf, RangeRequest
    <2> QED BY <1>6, <1>12, <2>1 DEF FieldType
<1>13. ASSUME route = "blops"
       PROVE  r["ship"] \in Ref \cup {NoShip} /\ r["jdc_level"] \in Int
    <2>1. {"ship", "jdc_level"} \subseteq Fields(route)
        BY <1>13, FieldsOfRoutes
    <2>2. /\ RequestOf(route).optional["ship"] = NoShip
          /\ RequestOf(route).optional["jdc_level"] = 5
        BY <1>13 DEF RequestOf, BlopsRouteRequest, DEFAULT_JDC_LEVEL
    <2>3. FieldType(route, "ship") = Ref /\ FieldType(route, "jdc_level") = Int
        BY DEF FieldType
    <2>4. 5 \in Int
        OBVIOUS
    <2> QED BY <1>2, <1>5, <2>1, <2>2, <2>3, <2>4
<1> HIDE DEF route
<1> QED BY <1>1, <1>4, <1>8, <1>9, <1>10, <1>11, <1>12, <1>13 DEF RequestOK, r, route

----------------------------------------------------------------------------
(* The request and its snapshots.                                          *)

Errors == {"invalid_param", "unknown_system", "unknown_hull", "cyno_target_highsec",
           "no_staging_in_range", "staging_unreachable"}

\* Steps of a handler after its snapshots are loaded.
Refuses ==
    /\ pc = "checking" /\ pc' = "answered" /\ failure'.error \in Errors
    /\ UNCHANGED <<liveVars, request, snapshots>>

Proceeds ==
    /\ pc \in {"checking", "routing"} /\ pc' \in {"routing", "answered"}
    /\ pc' = "routing" => pc = "routing" \/ req.route = "system"
    /\ UNCHANGED <<liveVars, request, snapshots, failure>>

LEMMA GateSteps ==
    ASSUME GateNext
    PROVE  Refuses \/ Proceeds
<1> USE DEF Reject, Unknown, Errors
<1>1. CASE RejectBounds
    BY <1>1 DEF RejectBounds, Refuses
<1>2. CASE RejectUnknown
    BY <1>2 DEF RejectUnknown, Refuses
<1>3. CASE AcceptHeader
    BY <1>3 DEF AcceptHeader, Checking, Proceeds
<1>4. CASE FillUnknown
    BY <1>4 DEF FillUnknown, Fill, Proceeds
<1>5. CASE FillUnreachable
    BY <1>5 DEF FillUnreachable, Fill, Proceeds
<1>6. CASE FillRoute
    BY <1>6 DEF FillRoute, Fill, Proceeds
<1> QED BY <1>1, <1>2, <1>3, <1>4, <1>5, <1>6 DEF GateNext

LEMMA JumpSteps ==
    ASSUME JumpNext
    PROVE  Refuses \/ Proceeds
<1> USE DEF Refuse, Reject, Unknown, Errors
<1>1. CASE RejectLevel
    BY <1>1 DEF RejectLevel, Refuses
<1>2. CASE RejectHull
    BY <1>2 DEF RejectHull, Refuses
<1>3. CASE RejectEnds
    BY <1>3 DEF RejectEnds, Refuses
<1>4. CASE RejectTarget
    BY <1>4 DEF RejectTarget, Refuses
<1>5. CASE \E hits \in Hits(G, To, EffectiveRange) :
              NoStaging(hits) \/ RejectOverlay(hits) \/ Stage(hits)
    <2>1. PICK hits \in Hits(G, To, EffectiveRange) :
              NoStaging(hits) \/ RejectOverlay(hits) \/ Stage(hits)
        BY <1>5
    <2>2. CASE NoStaging(hits)
        BY <2>2 DEF NoStaging, Refuses
    <2>3. CASE RejectOverlay(hits)
        BY <2>3 DEF RejectOverlay, Refuses
    <2>4. CASE Stage(hits)
        <3>1. PICK settled \in Settled(StagingContext, Candidates(hits)) :
                  IF DOMAIN settled = {}
                  THEN Refuse([error |-> "staging_unreachable"])
                  ELSE Answered(BlopsResponse(StagingContext, settled))
            BY <2>4 DEF Stage
        <3>2. pc = "checking"
            BY <2>4 DEF Stage, EndsKnown, Staging
        <3>3. CASE Refuse([error |-> "staging_unreachable"])
            BY <3>3 DEF Refuses
        <3>4. CASE Answered(BlopsResponse(StagingContext, settled))
            BY <3>2, <3>4 DEF Answered, Proceeds
        <3> QED BY <3>1, <3>3, <3>4
    <2> QED BY <2>1, <2>2, <2>3, <2>4
<1>6. CASE RejectSource
    BY <1>6 DEF RejectSource, Refuses
<1>7. CASE RejectRangeHull
    BY <1>7 DEF RejectRangeHull, Refuses
<1>8. CASE \E hits \in Hits(G, From, EffectiveRange) : ComputeReachable(hits)
    <2>1. PICK hits \in Hits(G, From, EffectiveRange) : ComputeReachable(hits)
        BY <1>8
    <2>2. PICK response : Answered(response)
        BY <2>1 DEF ComputeReachable
    <2>3. pc = "checking"
        BY <2>1 DEF ComputeReachable, Ranging
    <2> QED BY <2>2, <2>3 DEF Answered, Proceeds
<1> QED BY <1>1, <1>2, <1>3, <1>4, <1>5, <1>6, <1>7, <1>8 DEF JumpNext

LEMMA HandlerHolds == Init => LiveInv /\ HandlerInv
<1> SUFFICES ASSUME Init PROVE LiveInv /\ HandlerInv
    OBVIOUS
<1> USE DEF Init, HandlerInit, LiveInit
<1>1. LiveInv
    BY EmptyIsSnapshot, BoundsAssumption DEF LiveInv
<1>2. HandlerInv
    BY EmptyIsSnapshot DEF HandlerInv, NoFailure
<1> QED BY <1>1, <1>2

LEMMA LiveStep ==
    ASSUME LiveInv, [Next]_vars
    PROVE  LiveInv'
<1>1. CASE LiveNext
    <2>1. CASE TimePasses
        BY <2>1, BoundsAssumption DEF TimePasses, LiveInv
    <2>2. ASSUME NEW b \in Builds, StoreGraph(b) PROVE LiveInv'
        BY <2>2, BoundsAssumption DEF StoreGraph, LiveInv
    <2>3. CASE StoreReloadTime
        BY <2>3, BoundsAssumption DEF StoreReloadTime, LiveInv
    <2>4. CASE PollTick
        BY <2>4 DEF PollTick, LiveInv
    <2>5. ASSUME NEW raw \in Feeds, PollAnswered(raw) PROVE LiveInv'
        <3>1. IsSnapshot(eve_scout')
            BY <2>5, FeedsAssumption, PartitionIsSnapshot DEF PollAnswered
        <3> QED BY <2>5, <3>1 DEF PollAnswered, LiveInv
    <2>6. CASE PollFails
        BY <2>6 DEF PollFails, LiveInv
    <2> QED BY <1>1, <2>1, <2>2, <2>3, <2>4, <2>5, <2>6 DEF LiveNext
<1>2. CASE UNCHANGED liveVars
    BY <1>2 DEF liveVars, LiveInv
<1>3. CASE \E body \in Bodies : Request(body)
    BY <1>2, <1>3 DEF Request, RefuseBody, LoadGraph
<1>4. CASE LoadScout
    BY <1>2, <1>4 DEF LoadScout
<1>5. CASE GateNext
    BY <1>2, <1>5, GateSteps DEF Refuses, Proceeds
<1>6. CASE JumpNext
    BY <1>2, <1>6, JumpSteps DEF Refuses, Proceeds
<1>7. CASE UNCHANGED vars
    BY <1>2, <1>7 DEF vars
<1> QED BY <1>1, <1>3, <1>4, <1>5, <1>6, <1>7 DEF Next

LEMMA HandlerStep ==
    ASSUME LiveInv, HandlerInv, [Next]_vars
    PROVE  HandlerInv'
<1>1. CASE LiveNext /\ UNCHANGED handlerVars
    <2>1. clock \in Nat /\ (clock' = clock \/ clock' = clock + 1)
        BY <1>1 DEF LiveNext, TimePasses, StoreGraph, StoreReloadTime, PollTick,
                    PollAnswered, PollFails, LiveInv
    <2>2. began \in 0..clock /\ began' = began
        BY <1>1 DEF handlerVars, request, HandlerInv
    <2>3. began' \in 0..clock'
        BY <2>1, <2>2
    <2> QED BY <1>1, <2>3 DEF handlerVars, request, snapshots, HandlerInv
<1>2. ASSUME NEW body \in Bodies, RefuseBody(body) PROVE HandlerInv'
    <2>1. body.route \in {"system", "blops", "range"}
        BY BodiesAssumption
    <2> QED BY <1>2, <2>1 DEF RefuseBody, HandlerInv, liveVars, snapshots, NoFailure
<1>3. ASSUME NEW body \in Bodies, LoadGraph(body) PROVE HandlerInv'
    <2>1. Decode(body).route \in {"system", "blops", "range"} /\ RequestOK(Decode(body))
        BY <1>3, DecodedIsOK DEF LoadGraph
    <2>2. req' = Decode(body) /\ pc' \in {"checking", "loading"}
        BY <1>3 DEF LoadGraph
    <2>3. RequestOK(req')
        BY <2>1, <2>2
    <2>4. clock \in Nat /\ began' = clock /\ clock' = clock /\ view' \in Builds
        BY <1>3 DEF LoadGraph, LiveInv, liveVars
    <2>5. failure' = NoFailure /\ viewScout' = viewScout
        BY <1>3 DEF LoadGraph, HandlerInv
    <2> HIDE DEF RequestOK
    <2> QED BY <2>1, <2>2, <2>3, <2>4, <2>5 DEF HandlerInv, NoFailure
<1>4. CASE LoadScout
    BY <1>4 DEF LoadScout, LiveInv, HandlerInv, liveVars, request
<1>5. CASE Refuses
    BY <1>5 DEF Refuses, Errors, HandlerInv, liveVars, request, snapshots, NoFailure
<1>6. CASE Proceeds
    BY <1>6 DEF Proceeds, HandlerInv, liveVars, request, snapshots, NoFailure
<1>7. CASE UNCHANGED vars
    BY <1>7 DEF vars, HandlerInv, liveVars, handlerVars, request, snapshots
<1> QED BY <1>1, <1>2, <1>3, <1>4, <1>5, <1>6, <1>7, GateSteps, JumpSteps
        DEF Next, Request

----------------------------------------------------------------------------
(* Nodes and ids.                                                          *)

Size == Len(Raw.systems)

IdsOf(ends) == {IdOf(k) : k \in ends}

LEMMA NodeFacts ==
    ASSUME view \in Builds
    PROVE  /\ Size \in Nat
           /\ \A n \in 0..Size - 1 :
                 /\ n \in Nodes /\ SystemAt(G, n) = Raw.systems[n + 1]
                 /\ SystemAt(G, n) \in SystemRow /\ SystemAt(G, n) \in SystemsOf
                 /\ IdOf(n) \in Nat /\ NodeOf(G, IdOf(n)) = n
           /\ \A s \in SystemsOf : \E n \in 0..Size - 1 : s = SystemAt(G, n)
           /\ \A id : NodeOf(G, id) # Unresolved =>
                 NodeOf(G, id) \in 0..Size - 1 /\ IdOf(NodeOf(G, id)) = id
           /\ \A id : id \in DOMAIN G.id_to_idx <=> NodeOf(G, id) # Unresolved
           /\ \A id \in DOMAIN G.id_to_idx : G.id_to_idx[id] = NodeOf(G, id)
<1>1. IsParsed(Raw) /\ G = BuildGraph(Raw, view)
    BY ViewFacts
<1>2. /\ Size \in Nat /\ DOMAIN Raw.systems = 1..Size
      /\ \A i \in 1..Size : Raw.systems[i] \in SystemRow /\ i - 1 \in Nodes
    BY <1>1, ParsedFacts DEF Size
<1>3. \A n : SystemAt(G, n) = Raw.systems[n + 1]
    BY <1>1 DEF SystemAt, BuildGraph
<1>4. SystemsOf = {Raw.systems[i] : i \in 1..Size}
    BY <1>2 DEF SystemsOf, Raw, ToSet
<1>5. /\ \A id : NodeOf(G, id) # Unresolved =>
            NodeOf(G, id) \in 0..Size - 1 /\ SystemAt(G, NodeOf(G, id)).id = id
      /\ \A i \in 1..Size : NodeOf(G, Raw.systems[i].id) = i - 1
      /\ \A id : id \in DOMAIN G.id_to_idx <=> NodeOf(G, id) # Unresolved
      /\ \A id \in DOMAIN G.id_to_idx : G.id_to_idx[id] = NodeOf(G, id)
    <2> HIDE DEF G, Raw
    <2> QED BY <1>1, NodeOfFacts DEF Size
<1>6. ASSUME NEW n \in 0..Size - 1
      PROVE  /\ n \in Nodes /\ SystemAt(G, n) = Raw.systems[n + 1]
             /\ SystemAt(G, n) \in SystemRow /\ SystemAt(G, n) \in SystemsOf
             /\ IdOf(n) \in Nat /\ NodeOf(G, IdOf(n)) = n
    <2>1. n + 1 \in 1..Size /\ (n + 1) - 1 = n
        BY <1>2
    <2>2. n \in Nodes /\ SystemAt(G, n) \in SystemRow /\ SystemAt(G, n) \in SystemsOf
        BY <1>2, <1>3, <1>4, <2>1
    <2>3. IdOf(n) \in Nat
        BY <2>2 DEF IdOf, SystemRow
    <2>4. NodeOf(G, Raw.systems[n + 1].id) = n
        BY <1>5, <2>1
    <2> QED BY <1>3, <2>2, <2>3, <2>4 DEF IdOf
<1>7. ASSUME NEW s \in SystemsOf PROVE \E n \in 0..Size - 1 : s = SystemAt(G, n)
    <2>1. PICK i \in 1..Size : s = Raw.systems[i]
        BY <1>4
    <2>2. i - 1 \in 0..Size - 1 /\ (i - 1) + 1 = i
        BY <1>2
    <2> QED BY <1>3, <2>1, <2>2
<1> QED BY <1>2, <1>5, <1>6, <1>7 DEF IdOf

(***************************************************************************)
(* A reference means the node it resolves to.                              *)
(***************************************************************************)
LEMMA NamedFacts ==
    ASSUME view \in Builds, NEW ref
    PROVE  /\ ResolveSystem(G, ref) = Unresolved => Named(ref) = {}
           /\ ResolveSystem(G, ref) # Unresolved =>
                 /\ ResolveSystem(G, ref) \in 0..Size - 1
                 /\ Named(ref) = {IdOf(ResolveSystem(G, ref))}
           /\ \A n \in 0..Size - 1 :
                 IdOf(n) \in Named(ref) <=> ResolveSystem(G, ref) = n
<1> DEFINE m == ResolveSystem(G, ref)
<1>1. /\ m = Unresolved => Named(ref) = {}
      /\ m # Unresolved => m \in 0..Size - 1 /\ Named(ref) = {IdOf(m)}
    BY NamedIsLookup DEF IdOf, Size
<1>2. ASSUME NEW n \in 0..Size - 1
      PROVE  IdOf(n) \in Named(ref) <=> m = n
    <2>1. m # Unresolved => (IdOf(n) = IdOf(m) <=> m = n)
        BY <1>1, NodeFacts
    <2>2. n # Unresolved
        BY NodeFacts DEF Unresolved
    <2> HIDE DEF m
    <2> QED BY <1>1, <2>1, <2>2
<1> QED BY <1>1, <1>2

----------------------------------------------------------------------------
(* Edges and hops.                                                         *)

LEMMA GatesAreHops ==
    ASSUME view \in Builds
    PROVE  /\ \A m, n \in 0..Size - 1 :
                 {m, n} \in G.gate_graph <=> GateHop(IdOf(m), IdOf(n))
           /\ \A m, n : {m, n} \in G.gate_graph =>
                 m \in 0..Size - 1 /\ n \in 0..Size - 1
<1>1. IsParsed(Raw) /\ G = BuildGraph(Raw, view)
    BY ViewFacts
<1>2. ASSUME NEW m \in 0..Size - 1, NEW n \in 0..Size - 1
      PROVE  {m, n} \in G.gate_graph <=> GateHop(IdOf(m), IdOf(n))
    <2>1. {m, n} \in G.gate_graph <=> Linked(Raw, IdOf(m), IdOf(n))
        <3> HIDE DEF G, Raw
        <3> QED BY <1>1, GatesAreLinks DEF Size, IdOf
    <2> QED BY <2>1 DEF Linked, GateHop, Raw
<1>3. ASSUME NEW m, NEW n, {m, n} \in G.gate_graph
      PROVE  m \in 0..Size - 1 /\ n \in 0..Size - 1
    <2>1. G.gate_graph = {{G.id_to_idx[p[1]], G.id_to_idx[p[2]]} :
              p \in {q \in ToSet(Raw.gate_pairs) :
                         {q[1], q[2]} \subseteq DOMAIN G.id_to_idx}}
        BY <1>1 DEF BuildGraph, GateGraph
    <2>2. PICK p \in ToSet(Raw.gate_pairs) :
              /\ p[1] \in DOMAIN G.id_to_idx /\ p[2] \in DOMAIN G.id_to_idx
              /\ {m, n} = {G.id_to_idx[p[1]], G.id_to_idx[p[2]]}
        BY <1>3, <2>1
    <2>3. \A id \in DOMAIN G.id_to_idx : G.id_to_idx[id] \in 0..Size - 1
        BY NodeFacts
    <2> QED BY <2>2, <2>3
<1> QED BY <1>2, <1>3

LEMMA ConnectionsAreHops ==
    ASSUME view \in Builds, req.connections \in Seq(Connection),
           NEW m \in 0..Size - 1, NEW n \in 0..Size - 1, m # n
    PROVE  /\ \A i : i \in Joining(IdOf(m), IdOf(n)) <=>
                  /\ i \in 1..Len(req.connections)
                  /\ ConnectionJoins(G, req, i, <<m, n>>)
           /\ \A kind : UserHop(kind, IdOf(m), IdOf(n)) <=>
                  FirstConnection(G, req, <<m, n>>, kind)
<1> DEFINE cs == req.connections
           a(i) == ResolveSystem(G, cs[i].from)
           b(i) == ResolveSystem(G, cs[i].to)
<1>1. DOMAIN cs = 1..Len(cs)
    OBVIOUS
<1>2. ASSUME NEW i \in 1..Len(cs)
      PROVE  /\ IdOf(m) \in Named(cs[i].from) <=> a(i) = m
             /\ IdOf(n) \in Named(cs[i].from) <=> a(i) = n
             /\ IdOf(m) \in Named(cs[i].to) <=> b(i) = m
             /\ IdOf(n) \in Named(cs[i].to) <=> b(i) = n
    BY NamedFacts
<1>3. \A i : i \in Joining(IdOf(m), IdOf(n)) <=>
          /\ i \in 1..Len(cs) /\ Enabled(req, cs[i].kind)
          /\ \/ IdOf(m) \in Named(cs[i].from) /\ IdOf(n) \in Named(cs[i].to)
             \/ IdOf(m) \in Named(cs[i].to) /\ IdOf(n) \in Named(cs[i].from)
    BY <1>1 DEF Joining, Enabled
<1>4. \A i : ConnectionJoins(G, req, i, <<m, n>>) <=>
          /\ Enabled(req, cs[i].kind) /\ a(i) # b(i)
          /\ (a(i) = m /\ b(i) = n) \/ (b(i) = m /\ a(i) = n)
    BY DEF ConnectionJoins, Joins
<1>5. \A i : i \in Joining(IdOf(m), IdOf(n)) <=>
          i \in 1..Len(cs) /\ ConnectionJoins(G, req, i, <<m, n>>)
    <2> HIDE DEF a, b, cs
    <2> QED BY <1>2, <1>3, <1>4
<1>6. ASSUME NEW kind
      PROVE  UserHop(kind, IdOf(m), IdOf(n)) <=> FirstConnection(G, req, <<m, n>>, kind)
    BY <1>5 DEF UserHop, FirstConnection
<1> QED BY <1>5, <1>6

LEMMA SignaturesAreHops ==
    ASSUME view \in Builds, IsSnapshot(viewScout), NEW ends \in SUBSET (0..Size - 1),
           NEW now, NEW m \in 0..Size - 1, NEW n \in 0..Size - 1
    PROVE  LET ids == IdsOf(ends)
               joins == ScoutJoins(G, viewScout, req, ends, now, <<m, n>>)
           IN  /\ joins => ScoutHop(IdOf(m), IdOf(n), ids, now)
               /\ m # n /\ ScoutHop(IdOf(m), IdOf(n), ids, now) => joins
<1> DEFINE ids == IdsOf(ends)
           th  == viewScout.thera
           tu  == viewScout.turnur
           Fits(s) == /\ s.type = "wormhole" /\ s.expires > now
                      /\ {s.out, s.in} = {IdOf(m), IdOf(n)}
<1>1. /\ Len(th) \in Nat /\ ToSet(th) = {th[i] : i \in 1..Len(th)}
      /\ Len(tu) \in Nat /\ ToSet(tu) = {tu[i] : i \in 1..Len(tu)}
    BY DEF IsSnapshot, ToSet
<1>2. /\ \A i \in 1..Len(th) : th[i].type = "wormhole" /\ th[i].out = Thera
      /\ \A i \in 1..Len(tu) : tu[i].type = "wormhole" /\ tu[i].out = Turnur
    BY DEF IsSnapshot
<1>3. \A hub : NodeOf(G, hub) # Unresolved /\ NodeOf(G, hub) \in ends <=> hub \in ids
    <2>1. \A k \in ends : k \in 0..Size - 1
        OBVIOUS
    <2>2. \A k \in ends : NodeOf(G, IdOf(k)) = k /\ k # Unresolved
        BY <2>1, NodeFacts DEF Unresolved
    <2>3. \A hub : NodeOf(G, hub) # Unresolved => IdOf(NodeOf(G, hub)) = hub
        BY NodeFacts
    <2> QED BY <2>2, <2>3 DEF IdsOf
<1>4. ASSUME NEW s, s.type = "wormhole"
      PROVE  /\ SigJoins(G, s, now, <<m, n>>) => Fits(s)
             /\ m # n /\ Fits(s) => SigJoins(G, s, now, <<m, n>>)
    <2> DEFINE a == NodeOf(G, s.out)
               b == NodeOf(G, s.in)
    <2>1. /\ a # Unresolved => a \in 0..Size - 1 /\ IdOf(a) = s.out
          /\ b # Unresolved => b \in 0..Size - 1 /\ IdOf(b) = s.in
          /\ s.out = IdOf(m) => a = m
          /\ s.out = IdOf(n) => a = n
          /\ s.in = IdOf(m) => b = m
          /\ s.in = IdOf(n) => b = n
        BY NodeFacts
    <2>2. m # Unresolved /\ n # Unresolved
        BY NodeFacts DEF Unresolved
    <2>3. SigJoins(G, s, now, <<m, n>>) <=>
              /\ s.expires > now /\ a # Unresolved /\ b # Unresolved /\ a # b
              /\ (a = m /\ b = n) \/ (b = m /\ a = n)
        BY DEF SigJoins, IsLive
    <2> HIDE DEF a, b
    <2> QED BY <1>4, <2>1, <2>2, <2>3
<1>5. ScoutJoins(G, viewScout, req, ends, now, <<m, n>>) <=>
          \/ /\ req.include_thera \/ Thera \in ids
             /\ \E i \in 1..Len(th) : SigJoins(G, th[i], now, <<m, n>>)
          \/ /\ req.include_turnur \/ Turnur \in ids
             /\ \E i \in 1..Len(tu) : SigJoins(G, tu[i], now, <<m, n>>)
    BY <1>3 DEF ScoutJoins, Wanted
<1>6. ScoutHop(IdOf(m), IdOf(n), ids, now) <=>
          \E s \in ToSet(th) \cup ToSet(tu) :
              /\ Fits(s)
              /\ \/ s.out = Thera /\ req.include_thera
                 \/ s.out = Turnur /\ req.include_turnur
                 \/ s.out \in {Thera, Turnur} \cap ids
    BY DEF ScoutHop
<1> HIDE DEF Fits, ids, th, tu
<1>7. ScoutHop(IdOf(m), IdOf(n), ids, now) <=>
          \/ /\ req.include_thera \/ Thera \in ids
             /\ \E i \in 1..Len(th) : Fits(th[i])
          \/ /\ req.include_turnur \/ Turnur \in ids
             /\ \E i \in 1..Len(tu) : Fits(tu[i])
    BY <1>1, <1>2, <1>6, HubsAssumption
<1>8. ScoutJoins(G, viewScout, req, ends, now, <<m, n>>) =>
          ScoutHop(IdOf(m), IdOf(n), ids, now)
    BY <1>2, <1>4, <1>5, <1>7
<1>9. m # n /\ ScoutHop(IdOf(m), IdOf(n), ids, now) =>
          ScoutJoins(G, viewScout, req, ends, now, <<m, n>>)
    BY <1>2, <1>4, <1>5, <1>7
<1> QED BY <1>8, <1>9 DEF ids

(***************************************************************************)
(* The context of a search, when every connection resolves: its edges are  *)
(* the hops that the request allows between two systems, its labels say    *)
(* which they are.                                                         *)
(***************************************************************************)
CanRoute ==
    /\ view \in Builds /\ IsSnapshot(viewScout) /\ OverlayFieldsOK(req)
    /\ AllResolve(G, ConnectionRefs(req))

IsHop(kind, x, y, ids, t) ==
    \/ kind = "stargate" /\ GateHop(x, y)
    \/ kind \in EdgeKinds /\ ~GateHop(x, y) /\ UserHop(kind, x, y)
    \/ /\ kind = "wormhole" /\ ~GateHop(x, y) /\ Joining(x, y) = {}
       /\ ScoutHop(x, y, ids, t)

AllSteps(path, ids, t) ==
    /\ \A k \in 2..Len(path) - 1 : ~Barred(path[k].system_id)
    /\ \A k \in 2..Len(path) :
          IsHop(path[k].via, path[k - 1].system_id, path[k].system_id, ids, t)

LEMMA ContextFacts ==
    ASSUME CanRoute, NEW av, NEW ends \in SUBSET (0..Size - 1)
    PROVE  LET c   == ContextFor(av, ResolveConnections(G, req), ends)
               ids == IdsOf(ends)
           IN  /\ c.avoid = av /\ c.pref = req.preference /\ c.sec = SecOf(G)
               /\ c.gates = G.gate_graph
               /\ \A m, n : HasGateEdge(c, m, n) \/ IsOverlayEdge(c, m, n) =>
                     m \in 0..Size - 1 /\ n \in 0..Size - 1
               /\ \A m, n \in 0..Size - 1 :
                     /\ HasGateEdge(c, m, n) \/ IsOverlayEdge(c, m, n) =>
                           IsHop(StepVia(c, m, n), IdOf(m), IdOf(n), ids, clock)
                     /\ m # n /\ Hop(IdOf(m), IdOf(n), ids, clock) =>
                           HasGateEdge(c, m, n) \/ IsOverlayEdge(c, m, n)
<1> DEFINE c0  == NewContext(G.gate_graph, SecOf(G), av, req.preference)
           c1  == AddOverlayConnections(c0, req, ResolveConnections(G, req))
           c   == ContextFor(av, ResolveConnections(G, req), ends)
           ids == IdsOf(ends)
           cs  == req.connections
<1>1. IsParsed(Raw) /\ G = BuildGraph(Raw, view)
    BY ViewFacts DEF CanRoute
<1>2. HasFields(c0) /\ c0.overlay = << >>
    BY DEF HasFields, NewContext
<1>3. c0.avoid = av /\ c0.pref = req.preference /\ c0.sec = SecOf(G) /\ c0.gates = G.gate_graph
    BY DEF NewContext
<1>4. cs \in Seq(Connection) /\ Len(cs) \in Nat
    BY DEF CanRoute, OverlayFieldsOK
<1>5. c = ApplyScoutOverlay(c1, G, viewScout, req, ends, clock)
    BY DEF ContextFor
<1>6. DOMAIN c0.overlay = {}
    BY <1>2
<1> HIDE DEF c0
<1>7. /\ SameButOverlay(c1, c0)
      /\ \A e \in DOMAIN c1.overlay :
            /\ c1.overlay[e] \in EdgeKinds
            /\ FirstConnection(G, req, e, c1.overlay[e])
      /\ \A i \in 1..Len(cs) : \A e :
            ConnectionJoins(G, req, i, e) => e \in DOMAIN c1.overlay
    BY <1>2, <1>4, <1>6, UserOverlay
<1> HIDE DEF c1
<1>8. HasFields(c1)
    BY <1>7 DEF SameButOverlay
<1>9. /\ SameButOverlay(c, c1)
      /\ \A e \in DOMAIN c.overlay :
            \/ e \in DOMAIN c1.overlay /\ c.overlay[e] = c1.overlay[e]
            \/ ScoutJoins(G, viewScout, req, ends, clock, e) /\ c.overlay[e] = "wormhole"
      /\ \A e \in DOMAIN c1.overlay :
            e \in DOMAIN c.overlay /\ c.overlay[e] = c1.overlay[e]
      /\ \A e : ScoutJoins(G, viewScout, req, ends, clock, e) => e \in DOMAIN c.overlay
    <2>1. IsSnapshot(viewScout)
        BY DEF CanRoute
    <2> HIDE DEF c, G, Raw
    <2> QED BY <1>1, <1>5, <1>8, <2>1, ScoutOverlay
<1> HIDE DEF c
<1>10. /\ c.avoid = av /\ c.pref = req.preference /\ c.sec = SecOf(G)
       /\ c.gates = G.gate_graph
    BY <1>3, <1>7, <1>9 DEF SameButOverlay
<1>11. ASSUME NEW m, NEW n, NEW i \in 1..Len(cs), ConnectionJoins(G, req, i, <<m, n>>)
       PROVE  m \in 0..Size - 1 /\ n \in 0..Size - 1 /\ m # n
    <2>2. /\ {m, n} \subseteq {ResolveSystem(G, cs[i].from), ResolveSystem(G, cs[i].to)}
          /\ m # n
        BY <1>11 DEF ConnectionJoins, Joins
    <2>3. /\ ResolveSystem(G, cs[i].from) # Unresolved
          /\ ResolveSystem(G, cs[i].to) # Unresolved
        BY <1>4, EndsResolve DEF CanRoute, ConnectionRefs
    <2>4. /\ ResolveSystem(G, cs[i].from) \in 0..Size - 1
          /\ ResolveSystem(G, cs[i].to) \in 0..Size - 1
        BY <2>3, NamedFacts DEF CanRoute
    <2> QED BY <2>2, <2>4
<1>12. ASSUME NEW s, NEW m, NEW n, SigJoins(G, s, clock, <<m, n>>)
       PROVE  m \in 0..Size - 1 /\ n \in 0..Size - 1 /\ m # n
    BY <1>12, NodeFacts DEF SigJoins, CanRoute
<1>13. ASSUME NEW m, NEW n, HasGateEdge(c, m, n) \/ IsOverlayEdge(c, m, n)
       PROVE  m \in 0..Size - 1 /\ n \in 0..Size - 1
    <2>1. CASE HasGateEdge(c, m, n)
        BY <1>10, <2>1, GatesAreHops DEF HasGateEdge, CanRoute
    <2>2. CASE <<m, n>> \in DOMAIN c1.overlay
        BY <1>7, <1>11, <2>2 DEF FirstConnection
    <2>3. CASE ScoutJoins(G, viewScout, req, ends, clock, <<m, n>>)
        BY <1>12, <2>3 DEF ScoutJoins
    <2> QED BY <1>9, <1>13, <2>1, <2>2, <2>3 DEF IsOverlayEdge
<1>14. ASSUME NEW m \in 0..Size - 1, NEW n \in 0..Size - 1
       PROVE  /\ HasGateEdge(c, m, n) <=> GateHop(IdOf(m), IdOf(n))
              /\ m # n /\ <<m, n>> \in DOMAIN c1.overlay =>
                    UserHop(c1.overlay[<<m, n>>], IdOf(m), IdOf(n))
              /\ m # n =>
                    (Joining(IdOf(m), IdOf(n)) # {} <=> <<m, n>> \in DOMAIN c1.overlay)
              /\ ScoutJoins(G, viewScout, req, ends, clock, <<m, n>>) =>
                    ScoutHop(IdOf(m), IdOf(n), ids, clock)
              /\ m # n /\ ScoutHop(IdOf(m), IdOf(n), ids, clock) =>
                    ScoutJoins(G, viewScout, req, ends, clock, <<m, n>>)
    <2>1. HasGateEdge(c, m, n) <=> GateHop(IdOf(m), IdOf(n))
        BY <1>10, GatesAreHops DEF HasGateEdge, CanRoute
    <2>2. view \in Builds /\ IsSnapshot(viewScout)
        BY DEF CanRoute
    <2>3. /\ ScoutJoins(G, viewScout, req, ends, clock, <<m, n>>) =>
                ScoutHop(IdOf(m), IdOf(n), ids, clock)
          /\ m # n /\ ScoutHop(IdOf(m), IdOf(n), ids, clock) =>
                ScoutJoins(G, viewScout, req, ends, clock, <<m, n>>)
        BY <2>2, SignaturesAreHops
    <2> HIDE DEF ids
    <2>4. ASSUME m # n
          PROVE  /\ \A i : i \in Joining(IdOf(m), IdOf(n)) <=>
                        i \in 1..Len(cs) /\ ConnectionJoins(G, req, i, <<m, n>>)
                 /\ \A kind : UserHop(kind, IdOf(m), IdOf(n)) <=>
                        FirstConnection(G, req, <<m, n>>, kind)
        BY <1>4, <2>2, <2>4, ConnectionsAreHops
    <2>5. ASSUME m # n
          PROVE  /\ <<m, n>> \in DOMAIN c1.overlay =>
                        UserHop(c1.overlay[<<m, n>>], IdOf(m), IdOf(n))
                 /\ Joining(IdOf(m), IdOf(n)) # {} <=> <<m, n>> \in DOMAIN c1.overlay
        <3>1. ASSUME <<m, n>> \in DOMAIN c1.overlay
              PROVE  /\ UserHop(c1.overlay[<<m, n>>], IdOf(m), IdOf(n))
                     /\ Joining(IdOf(m), IdOf(n)) # {}
            <4>1. FirstConnection(G, req, <<m, n>>, c1.overlay[<<m, n>>])
                BY <1>7, <3>1
            <4>2. UserHop(c1.overlay[<<m, n>>], IdOf(m), IdOf(n))
                BY <2>4, <2>5, <4>1
            <4> QED BY <4>2 DEF UserHop
        <3>2. ASSUME NEW i \in Joining(IdOf(m), IdOf(n))
              PROVE  <<m, n>> \in DOMAIN c1.overlay
            BY <1>7, <2>4, <2>5
        <3> QED BY <3>1, <3>2
    <2> QED BY <2>1, <2>3, <2>5
<1>15. ASSUME NEW m, NEW n, <<m, n>> \in DOMAIN c.overlay PROVE m # n
    <2>1. CASE <<m, n>> \in DOMAIN c1.overlay
        BY <1>7, <1>11, <2>1 DEF FirstConnection
    <2>2. CASE ScoutJoins(G, viewScout, req, ends, clock, <<m, n>>)
        BY <1>12, <2>2 DEF ScoutJoins
    <2> QED BY <1>9, <1>15, <2>1, <2>2
<1> HIDE DEF ids
<1>16. ASSUME NEW m \in 0..Size - 1, NEW n \in 0..Size - 1,
              HasGateEdge(c, m, n) \/ IsOverlayEdge(c, m, n)
       PROVE  IsHop(StepVia(c, m, n), IdOf(m), IdOf(n), ids, clock)
    <2>1. CASE HasGateEdge(c, m, n)
        BY <1>14, <2>1 DEF StepVia, IsHop
    <2>2. CASE ~HasGateEdge(c, m, n)
        <3>1. /\ <<m, n>> \in DOMAIN c.overlay /\ StepVia(c, m, n) = c.overlay[<<m, n>>]
              /\ m # n /\ ~GateHop(IdOf(m), IdOf(n))
            BY <1>14, <1>16, <1>15, <2>2 DEF StepVia, IsOverlayEdge
        <3>2. CASE <<m, n>> \in DOMAIN c1.overlay
            <4>1. c.overlay[<<m, n>>] = c1.overlay[<<m, n>>]
                      /\ c.overlay[<<m, n>>] \in EdgeKinds
                BY <1>7, <1>9, <3>2
            <4>2. UserHop(c.overlay[<<m, n>>], IdOf(m), IdOf(n))
                BY <1>14, <3>1, <3>2, <4>1
            <4> QED BY <3>1, <4>1, <4>2 DEF IsHop
        <3>3. CASE <<m, n>> \notin DOMAIN c1.overlay
            <4>1. /\ ScoutJoins(G, viewScout, req, ends, clock, <<m, n>>)
                  /\ c.overlay[<<m, n>>] = "wormhole"
                BY <1>9, <3>1, <3>3
            <4>2. Joining(IdOf(m), IdOf(n)) = {}
                BY <1>14, <3>1, <3>3
            <4> QED BY <1>14, <3>1, <4>1, <4>2 DEF IsHop
        <3> QED BY <3>2, <3>3
    <2> QED BY <2>1, <2>2
<1>17. ASSUME NEW m \in 0..Size - 1, NEW n \in 0..Size - 1,
              m # n, Hop(IdOf(m), IdOf(n), ids, clock)
       PROVE  HasGateEdge(c, m, n) \/ IsOverlayEdge(c, m, n)
    <2>1. CASE GateHop(IdOf(m), IdOf(n))
        BY <1>14, <2>1
    <2>2. CASE Joining(IdOf(m), IdOf(n)) # {}
        BY <1>9, <1>14, <1>17, <2>2 DEF IsOverlayEdge
    <2>3. CASE ScoutHop(IdOf(m), IdOf(n), ids, clock)
        BY <1>9, <1>14, <1>17, <2>3 DEF IsOverlayEdge
    <2> QED BY <1>17, <2>1, <2>2, <2>3 DEF Hop
<1> QED BY <1>10, <1>13, <1>16, <1>17 DEF c, ids

----------------------------------------------------------------------------
(* Routes.                                                                 *)

(***************************************************************************)
(* The avoid set holds the nodes of the systems that are barred.           *)
(***************************************************************************)
LEMMA AvoidIsBarred ==
    ASSUME view \in Builds, req.avoid \in Seq(Ref)
    PROVE  /\ \A n \in 0..Size - 1 : n \in AssembleAvoidSet(G, req) <=> Barred(IdOf(n))
           /\ AllResolve(G, req.avoid) => AssembleAvoidSet(G, req) \subseteq 0..Size - 1
<1> DEFINE listed == {ResolveSystem(G, r) : r \in ToSet(req.avoid)}
           locked == ~req.include_zarzakh /\ Zarzakh \in DOMAIN G.id_to_idx
<1>1. AssembleAvoidSet(G, req) =
          listed \cup (IF locked THEN {G.id_to_idx[Zarzakh]} ELSE {})
    BY DEF AssembleAvoidSet
<1>2. locked => /\ G.id_to_idx[Zarzakh] \in 0..Size - 1
                /\ IdOf(G.id_to_idx[Zarzakh]) = Zarzakh
    BY NodeFacts
<1>3. ASSUME NEW n \in 0..Size - 1
      PROVE  n \in AssembleAvoidSet(G, req) <=> Barred(IdOf(n))
    <2>1. n \in listed <=> \E r \in ToSet(req.avoid) : IdOf(n) \in Named(r)
        BY NamedFacts
    <2>2. (locked /\ n = G.id_to_idx[Zarzakh]) <=>
              (IdOf(n) = Zarzakh /\ ~req.include_zarzakh)
        <3>1. ASSUME IdOf(n) = Zarzakh
              PROVE  Zarzakh \in DOMAIN G.id_to_idx /\ n = G.id_to_idx[Zarzakh]
            BY <3>1, NodeFacts DEF Unresolved
        <3> QED BY <1>2, <3>1
    <2> HIDE DEF listed, locked
    <2> QED BY <1>1, <2>1, <2>2 DEF Barred
<1>4. ASSUME AllResolve(G, req.avoid)
      PROVE  AssembleAvoidSet(G, req) \subseteq 0..Size - 1
    <2>1. ToSet(req.avoid) = {req.avoid[i] : i \in DOMAIN req.avoid}
        BY DEF ToSet
    <2>2. \A r \in ToSet(req.avoid) : ResolveSystem(G, r) # Unresolved
        BY <1>4, <2>1 DEF AllResolve
    <2>3. listed \subseteq 0..Size - 1
        BY <2>2, NamedFacts
    <2> HIDE DEF listed, locked
    <2> QED BY <1>1, <1>2, <2>3
<1> QED BY <1>3, <1>4

(***************************************************************************)
(* A signature that is live was live before.                               *)
(***************************************************************************)
LEMMA ScoutHopsExpire ==
    ASSUME IsSnapshot(viewScout), NEW later \in Nat, NEW now \in 0..later,
           NEW x, NEW y, NEW ids, ScoutHop(x, y, ids, later)
    PROVE  ScoutHop(x, y, ids, now)
<1>1. ASSUME NEW s \in ToSet(viewScout.thera) \cup ToSet(viewScout.turnur),
             s.expires > later
      PROVE  s.expires > now
    <2>1. s \in RawSignature
        BY DEF IsSnapshot, ToSet
    <2>2. s.expires \in Nat
        BY <2>1 DEF RawSignature
    <2> QED BY <1>1, <2>2
<1> QED BY <1>1 DEF ScoutHop

(***************************************************************************)
(* Steps that are hops of the request are allowed.                         *)
(***************************************************************************)
LEMMA StepsAreAllowed ==
    ASSUME NEW path, NEW ids, NEW t, AllSteps(path, ids, t)
    PROVE  IsAllowed(path, ids, t)
BY DEF AllSteps, IsAllowed, IsHop, EdgeKinds

(***************************************************************************)
(* What a search finds is a route the request allows, when the avoid set   *)
(* of the search lacks no barred system but the ends.                      *)
(***************************************************************************)
Covers(av, t) ==
    \A n \in 0..Size - 1 : n \notin {From, t} /\ Barred(IdOf(n)) => n \in av

LEMMA FoundIsAllowed ==
    ASSUME CanRoute, clock \in Nat, NEW now \in 0..clock,
           NEW ends \in SUBSET (0..Size - 1), From \in 0..Size - 1,
           NEW t \in 0..Size - 1, NEW av,
           Covers(av, t),
           NEW path \in CheapestRoutes(ContextFor(av, ResolveConnections(G, req), ends),
                                       From, t)
    PROVE  LET c     == ContextFor(av, ResolveConnections(G, req), ends)
               steps == BuildSteps(G, c, path)
               ids   == IdsOf(ends)
           IN  /\ Len(path) \in Nat \ {0} /\ path \in Seq(0..Size - 1)
               /\ path[1] = From /\ path[Len(path)] = t
               /\ steps \in Seq(RouteStep) /\ Len(steps) = Len(path)
               /\ \A k \in 1..Len(path) : steps[k].system_id = IdOf(path[k])
               /\ AllSteps(steps, ids, now)
<1> DEFINE c     == ContextFor(av, ResolveConnections(G, req), ends)
           steps == BuildSteps(G, c, path)
           ids   == IdsOf(ends)
           m     == Len(path)
<1>1. /\ c.avoid = av
      /\ \A a, b : HasGateEdge(c, a, b) \/ IsOverlayEdge(c, a, b) =>
            /\ a \in 0..Size - 1 /\ b \in 0..Size - 1
            /\ IsHop(StepVia(c, a, b), IdOf(a), IdOf(b), ids, clock)
    BY ContextFacts
<1>2. steps = [k \in 1..m |->
                 [system_id |-> IdOf(path[k]),
                  via |-> IF k = 1 THEN "start" ELSE StepVia(c, path[k - 1], path[k])]]
    BY DEF BuildSteps, IdOf
<1>3. From \in Nodes
    BY NodeFacts DEF CanRoute
<1> HIDE DEF c, ids
<1>4. /\ m \in Nat \ {0} /\ path \in Seq(Nodes) /\ path[1] = From /\ path[m] = t
      /\ \A k \in 1..m - 1 : path[k + 1] \in Neighbors(c, path[k])
      /\ ~Repeats(path)
    <2>1. path \in CheapestRoutes(c, From, t)
        BY DEF c
    <2>2. IsRoute(c, From, t, path) /\ m \in Nat \ {0} /\ ~Repeats(path)
        BY <1>3, <2>1, CheapestAreRoutes
    <2> QED BY <2>2 DEF IsRoute
<1>5. ASSUME NEW k \in 2..m
      PROVE  /\ path[k] \in 0..Size - 1 /\ path[k] \notin av
             /\ IsHop(StepVia(c, path[k - 1], path[k]), IdOf(path[k - 1]), IdOf(path[k]), ids,
                       clock)
    <2>1. k - 1 \in 1..m - 1 /\ (k - 1) + 1 = k
        BY <1>4
    <2>2. path[k] \in Neighbors(c, path[k - 1])
        BY <1>4, <2>1
    <2> QED BY <1>1, <2>2 DEF Neighbors
<1>6. \A k \in 1..m : path[k] \in 0..Size - 1
    <2>1. \A k \in 1..m : k = 1 \/ k \in 2..m
        BY <1>4
    <2> QED BY <1>4, <1>5, <2>1
<1>7. path \in Seq(0..Size - 1)
    <2>1. path = [k \in 1..m |-> path[k]] /\ m \in Nat
        BY <1>4
    <2> DEFINE N == 0..Size - 1
    <2>2. \A k \in 1..m : path[k] \in N
        BY <1>6
    <2> HIDE DEF m, N
    <2>3. [k \in 1..m |-> path[k]] \in Seq(N)
        BY <2>1, <2>2
    <2> QED BY <2>1, <2>3 DEF N
<1>8. \A k \in 1..m : steps[k].system_id = IdOf(path[k])
    BY <1>2
<1>9. \A k \in 2..m :
          /\ steps[k].via = StepVia(c, path[k - 1], path[k])
          /\ steps[k - 1].system_id = IdOf(path[k - 1])
    <2>1. \A k \in 2..m : k \in 1..m /\ k - 1 \in 1..m /\ k # 1
        BY <1>4
    <2> QED BY <1>2, <1>8, <2>1
<1>10. DOMAIN steps = 1..m
    BY <1>2
<1>11. m \in Nat
    BY <1>4
<1> HIDE DEF steps, m
<1>12. steps \in Seq(RouteStep) /\ Len(steps) = m
    <2>1. ASSUME NEW k \in 1..m PROVE steps[k] \in RouteStep
        <3>1. IdOf(path[k]) \in Nat
            BY <1>6, NodeFacts DEF CanRoute
        <3>2. CASE k = 1
            BY <1>2, <3>1, <3>2 DEF RouteStep
        <3>3. CASE k # 1
            <4>1. k \in 2..m
                BY <1>11, <3>3
            <4>2. StepVia(c, path[k - 1], path[k]) \in {"stargate", "wormhole", "bridge"}
                BY <1>5, <4>1 DEF IsHop, EdgeKinds
            <4> QED BY <1>2, <3>1, <3>3, <4>2 DEF RouteStep
        <3> QED BY <3>2, <3>3
    <2>2. steps = [k \in 1..m |-> steps[k]]
        BY <1>2
    <2> QED BY <1>11, <2>1, <2>2
<1>13. AllSteps(steps, ids, now)
    <2>1. ASSUME NEW k \in 2..m - 1 PROVE ~Barred(steps[k].system_id)
        <3>1. k \in 1..m /\ k \in 2..m /\ 1 \in 1..m /\ m \in 1..m /\ 1 < k /\ k < m
            BY <1>11
        <3>2. path[k] # From /\ path[k] # t
            BY <1>4, <3>1 DEF Repeats, m
        <3>3. path[k] \in 0..Size - 1 /\ path[k] \notin av
            BY <1>5, <3>1
        <3> QED BY <1>8, <3>1, <3>2, <3>3 DEF Covers
    <2>2. ASSUME NEW k \in 2..m
          PROVE  IsHop(steps[k].via, steps[k - 1].system_id, steps[k].system_id, ids, now)
        <3> DEFINE x == steps[k - 1].system_id
                   y == steps[k].system_id
                   via == steps[k].via
        <3>1. k \in 1..m
            BY <1>11
        <3>2. IsHop(via, x, y, ids, clock)
            BY <1>5, <1>8, <1>9, <3>1
        <3> HIDE DEF x, y, via
        <3>3. ScoutHop(x, y, ids, clock) => ScoutHop(x, y, ids, now)
            BY ScoutHopsExpire DEF CanRoute
        <3> QED BY <3>2, <3>3 DEF IsHop, x, y, via
    <2> QED BY <1>12, <2>1, <2>2 DEF AllSteps
<1> QED BY <1>4, <1>7, <1>8, <1>12, <1>13 DEF c, steps, ids, m

----------------------------------------------------------------------------
(* What a request says does not change while it is answered.               *)

LEMMA BuildStays ==
    ASSUME view' = view
    PROVE  G' = G /\ SystemsOf' = SystemsOf
BY DEF G, GraphOf, SystemsOf

LEMMA MeaningStays ==
    ASSUME view' = view, req' = req
    PROVE  /\ From' = From /\ To' = To /\ SharedRefs' = SharedRefs
           /\ OverlayRefs' = OverlayRefs
           /\ \A ref : Named(ref)' = Named(ref)
           /\ \A x, y : GateHop(x, y)' <=> GateHop(x, y)
           /\ \A x : Barred(x)' <=> Barred(x)
           /\ \A x, y : Joining(x, y)' = Joining(x, y)
           /\ \A kind, x, y : UserHop(kind, x, y)' <=> UserHop(kind, x, y)
<1>1. \A ref : Named(ref)' = Named(ref)
    BY BuildStays DEF Named
<1>2. \A x, y : GateHop(x, y)' <=> GateHop(x, y)
    BY DEF GateHop
<1>3. \A x : Barred(x)' <=> Barred(x)
    BY <1>1 DEF Barred
<1>4. ASSUME NEW x, NEW y PROVE Joining(x, y)' = Joining(x, y)
    BY <1>1 DEF Joining
<1>5. ASSUME NEW kind, NEW x, NEW y PROVE UserHop(kind, x, y)' <=> UserHop(kind, x, y)
    BY <1>4 DEF UserHop
<1>6. From' = From /\ To' = To
    BY BuildStays DEF From, To
<1>7. SharedRefs' = SharedRefs /\ OverlayRefs' = OverlayRefs
    BY DEF SharedRefs, OverlayRefs
<1> QED BY <1>1, <1>2, <1>3, <1>4, <1>5, <1>6, <1>7

LEMMA StepsStay ==
    ASSUME view' = view, req' = req, viewScout' = viewScout
    PROVE  \A path, ids, t : AllSteps(path, ids, t)' <=> AllSteps(path, ids, t)
<1>1. \A x, y, ids, t : ScoutHop(x, y, ids, t)' <=> ScoutHop(x, y, ids, t)
    BY DEF ScoutHop
<1>2. \A kind, x, y, ids, t : IsHop(kind, x, y, ids, t)' <=> IsHop(kind, x, y, ids, t)
    BY <1>1, MeaningStays DEF IsHop
<1> QED BY <1>2, MeaningStays DEF AllSteps

----------------------------------------------------------------------------
(* Gate routes.                                                            *)

(***************************************************************************)
(* What it takes for the references of a request to resolve.               *)
(***************************************************************************)
LEMMA HeaderRefs ==
    ASSUME req.from \in Ref, OverlayFieldsOK(req)
    PROVE  /\ SharedRefs \in Seq(Ref) /\ OverlayRefs \in Seq(Ref)
           /\ AllResolve(G, OverlayRefs) <=>
                  AllResolve(G, req.avoid) /\ AllResolve(G, ConnectionRefs(req))
           /\ AllResolve(G, SharedRefs) <=>
                  From # Unresolved /\ AllResolve(G, OverlayRefs)
<1>1. req.avoid \in Seq(Ref) /\ ConnectionRefs(req) \in Seq(Ref)
    BY EndsAreRefs DEF OverlayFieldsOK, ConnectionRefs
<1>2. /\ OverlayRefs \in Seq(Ref)
      /\ AllResolve(G, OverlayRefs) <=>
             AllResolve(G, req.avoid) /\ AllResolve(G, ConnectionRefs(req))
    BY <1>1, AllOfBoth DEF OverlayRefs
<1>3. <<req.from>> \in Seq(Ref)
    OBVIOUS
<1>4. /\ SharedRefs \in Seq(Ref)
      /\ AllResolve(G, SharedRefs) <=>
             AllResolve(G, <<req.from>>) /\ AllResolve(G, OverlayRefs)
    BY <1>2, <1>3, AllOfBoth DEF SharedRefs
<1>5. AllResolve(G, <<req.from>>) <=> From # Unresolved
    BY DEF AllResolve, From
<1> QED BY <1>2, <1>4, <1>5

LEMMA RoutedFacts ==
    ASSUME LiveInv, HandlerInv, GateInv, Routed
    PROVE  /\ CanRoute /\ From \in 0..Size - 1
           /\ AllResolve(G, req.avoid) /\ req.to \in Seq(Ref)
           /\ view \in Builds /\ req.avoid \in Seq(Ref)
<1>1. RequestOK(req) /\ view \in Builds /\ IsSnapshot(viewScout)
    BY DEF HandlerInv, Routed, NoFailure
<1>2. req.from \in Ref /\ OverlayFieldsOK(req) /\ req.to \in Seq(Ref)
    BY <1>1 DEF RequestOK, Routed
<1>3. AllResolve(G, SharedRefs)
    BY DEF GateInv
<1>4. /\ From # Unresolved /\ AllResolve(G, req.avoid)
      /\ AllResolve(G, ConnectionRefs(req))
    BY <1>2, <1>3, HeaderRefs
<1>5. From \in 0..Size - 1
    BY <1>1, <1>4, NamedFacts DEF From
<1> QED BY <1>1, <1>2, <1>4, <1>5 DEF CanRoute, OverlayFieldsOK

(***************************************************************************)
(* A path that a destination's search finds.                               *)
(***************************************************************************)
LEMMA SlotIsAllowed ==
    ASSUME LiveInv, HandlerInv, GateInv, pc = "routing",
           NEW to, to = ResolveSystem(G, NextTo), to # Unresolved,
           NEW path \in CheapestRoutes(ContextTo(to), From, to)
    PROVE  LET steps == BuildSteps(G, ContextTo(to), path)
           IN  /\ [to |-> NextTo, jumps |-> Len(path) - 1, path |-> steps] \in SlotRoute
               /\ Len(steps) = Len(path) /\ Len(path) \in Nat \ {0}
               /\ steps[1].system_id \in Named(req.from)
               /\ steps[Len(steps)].system_id \in Named(NextTo)
               /\ AllSteps(steps, EndsOf(NextTo), began)
<1> DEFINE steps == BuildSteps(G, ContextTo(to), path)
           av    == avoid \ {to}
           ends  == {From, to}
           ids   == IdsOf(ends)
<1>1. Routed
    BY DEF HandlerInv, Routed
<1>2. /\ CanRoute /\ From \in 0..Size - 1 /\ req.to \in Seq(Ref)
      /\ view \in Builds /\ req.avoid \in Seq(Ref)
    BY <1>1, RoutedFacts
<1>3. to \in 0..Size - 1 /\ Named(NextTo) = {IdOf(to)}
    BY <1>2, NamedFacts
<1>4. From # Unresolved
    BY <1>2, NodeFacts DEF Unresolved
<1>5. Named(req.from) = {IdOf(From)}
    BY <1>2, <1>4, NamedFacts DEF From
<1>6. ids = EndsOf(NextTo)
    BY <1>3, <1>5 DEF EndsOf, IdsOf
<1>7. ContextTo(to) = ContextFor(av, ResolveConnections(G, req), ends)
    BY <1>1 DEF ContextTo, GateInv
<1>8. Covers(av, to)
    BY <1>1, <1>2, AvoidIsBarred DEF GateInv, Covers
<1>9. clock \in Nat /\ began \in 0..clock
    BY DEF LiveInv, HandlerInv
<1>10. NextTo \in Ref
    <2>1. Len(results) + 1 \in 1..Len(req.to)
        BY <1>1, <1>2 DEF GateInv
    <2> QED BY <1>2, <2>1 DEF NextTo
<1>11. ends \in SUBSET (0..Size - 1)
    BY <1>2, <1>3
<1> HIDE DEF av, ends
<1> DEFINE c == ContextFor(av, ResolveConnections(G, req), ends)
<1>16. path \in CheapestRoutes(c, From, to) /\ steps = BuildSteps(G, c, path)
    BY <1>7
<1>12. /\ Len(path) \in Nat \ {0} /\ path[1] = From /\ path[Len(path)] = to
       /\ steps \in Seq(RouteStep) /\ Len(steps) = Len(path)
       /\ \A k \in 1..Len(path) : steps[k].system_id = IdOf(path[k])
       /\ AllSteps(steps, ids, began)
    <2> HIDE DEF steps
    <2>1. /\ Len(path) \in Nat \ {0} /\ path[1] = From /\ path[Len(path)] = to
          /\ BuildSteps(G, c, path) \in Seq(RouteStep)
          /\ Len(BuildSteps(G, c, path)) = Len(path)
          /\ \A k \in 1..Len(path) : BuildSteps(G, c, path)[k].system_id = IdOf(path[k])
          /\ AllSteps(BuildSteps(G, c, path), IdsOf(ends), began)
        BY <1>2, <1>3, <1>8, <1>9, <1>11, <1>16, FoundIsAllowed
    <2> QED BY <1>16, <2>1
<1> HIDE DEF steps, ids
<1>13. 1 \in 1..Len(path) /\ Len(path) \in 1..Len(path) /\ Len(path) - 1 \in Nat
    BY <1>12
<1>14. [to |-> NextTo, jumps |-> Len(path) - 1, path |-> steps] \in SlotRoute
    BY <1>10, <1>12, <1>13 DEF SlotRoute
<1>15. /\ steps[1].system_id \in Named(req.from)
       /\ steps[Len(steps)].system_id \in Named(NextTo)
    BY <1>3, <1>5, <1>12, <1>13
<1> QED BY <1>6, <1>12, <1>14, <1>15 DEF steps

LEMMA JumpIsNotGate ==
    ASSUME JumpNext
    PROVE  req.route \in {"blops", "range"}
BY DEF JumpNext, RejectLevel, RejectHull, RejectEnds, RejectTarget, EndsKnown, Staging,
       RejectSource, RejectRangeHull, Ranging

(***************************************************************************)
(* A filled slot.                                                          *)
(***************************************************************************)
LEMMA FillStep ==
    ASSUME LiveInv, HandlerInv, GateInv,
           NEW result \in SlotFailure \cup SlotRoute, result.to = NextTo, Fill(result)
    PROVE  /\ GateInv'
           /\ DOMAIN results' = 1..Len(results) + 1 /\ DOMAIN results = 1..Len(results)
           /\ \A i \in DOMAIN results : i \in DOMAIN results' /\ results'[i] = results[i]
           /\ results'[Len(results) + 1] = result
<1> DEFINE n == Len(results)
<1>1. /\ results \in Seq(SlotFailure \cup SlotRoute)
      /\ \A i \in DOMAIN results : results[i].to = req.to[i]
      /\ Routed /\ pc = "routing"
    BY DEF Fill, HandlerInv, GateInv, Routed
<1>2. /\ ~OutOfBounds /\ AllResolve(G, SharedRefs)
      /\ avoid = AssembleAvoidSet(G, req) \ {From}
      /\ connections = ResolveConnections(G, req)
      /\ n < Len(req.to)
    BY <1>1 DEF GateInv
<1>3. /\ results' = Append(results, result) /\ UNCHANGED <<req, view, failure>>
      /\ pc' = IF Len(results') = Len(req.to) THEN "answered" ELSE "routing"
      /\ avoid' = avoid /\ connections' = connections
    BY DEF Fill, request, snapshots, header
<1>4. /\ results' \in Seq(SlotFailure \cup SlotRoute)
      /\ n \in Nat /\ Len(results') = n + 1 /\ results'[n + 1] = result
      /\ DOMAIN results = 1..n /\ DOMAIN results' = 1..n + 1
      /\ \A i \in 1..n : results'[i] = results[i]
    BY <1>1, <1>3
<1>5. \A i \in DOMAIN results' : results'[i].to = req'.to[i]
    <2>1. \A i \in 1..n + 1 : i = n + 1 \/ i \in 1..n
        BY <1>4
    <2>2. result.to = req.to[n + 1]
        BY DEF NextTo
    <2> QED BY <1>1, <1>3, <1>4, <2>1, <2>2
<1>6. Routed'
    BY <1>1, <1>3 DEF Routed
<1>7. /\ (~OutOfBounds)' /\ AllResolve(G, SharedRefs)'
      /\ avoid' = (AssembleAvoidSet(G, req) \ {From})'
      /\ connections' = ResolveConnections(G, req)'
    <2>1. G' = G /\ From' = From /\ SharedRefs' = SharedRefs
        BY <1>3, BuildStays, MeaningStays
    <2>2. OutOfBounds' <=> OutOfBounds
        BY <1>3 DEF OutOfBounds
    <2> QED BY <1>2, <1>3, <2>1, <2>2
<1>8. req.to \in Seq(Ref) /\ Len(req.to) \in Nat
    BY <1>1, RoutedFacts
<1>9. Len(results') <= Len(req'.to) /\ (pc' = "routing" <=> Len(results') < Len(req'.to))
    BY <1>2, <1>3, <1>4, <1>8
<1>10. GateInv'
    <2> HIDE DEF n
    <2> QED BY <1>4, <1>5, <1>6, <1>7, <1>9 DEF GateInv
<1> QED BY <1>4, <1>10

(***************************************************************************)
(* The steps of a destination.                                             *)
(***************************************************************************)
LEMMA FailuresAreSlots ==
    ASSUME LiveInv, HandlerInv, GateInv, FillUnknown \/ FillUnreachable
    PROVE  \E error \in {"unknown_system", "unreachable"} :
               /\ [to |-> NextTo, error |-> error] \in SlotFailure
               /\ Fill([to |-> NextTo, error |-> error])
<1>1. Routed
    BY DEF FillUnknown, FillUnreachable, HandlerInv, Routed
<1>2. NextTo \in Ref
    <2>1. req.to \in Seq(Ref)
        BY <1>1, RoutedFacts
    <2>2. Len(results) + 1 \in 1..Len(req.to)
        <3>1. Len(results) < Len(req.to)
            BY <1>1 DEF GateInv, FillUnknown, FillUnreachable
        <3> QED BY <2>1, <3>1 DEF GateInv
    <2> QED BY <2>1, <2>2 DEF NextTo
<1>3. CASE FillUnknown
    BY <1>2, <1>3 DEF FillUnknown, SlotFailure
<1>4. CASE FillUnreachable
    BY <1>2, <1>4 DEF FillUnreachable, SlotFailure
<1> QED BY <1>3, <1>4

LEMMA GateHolds == Init => GateInv
<1>1. << >> \in Seq(SlotFailure \cup SlotRoute)
    OBVIOUS
<1> QED BY <1>1 DEF Init, HandlerInit, GateInit, GateInv, Routed

(***************************************************************************)
(* A step that fills no slot leaves the slots alone.                       *)
(***************************************************************************)
LEMMA GateStep ==
    ASSUME LiveInv, HandlerInv, GateInv, [Next]_vars
    PROVE  GateInv'
<1>1. ASSUME UNCHANGED <<req, view, pc, failure>>, UNCHANGED gateVars PROVE GateInv'
    <2>1. G' = G /\ From' = From /\ SharedRefs' = SharedRefs
        BY <1>1, BuildStays, MeaningStays
    <2>2. (OutOfBounds' <=> OutOfBounds) /\ (Routed' <=> Routed)
        BY <1>1 DEF OutOfBounds, Routed
    <2> QED BY <1>1, <2>1, <2>2 DEF GateInv, gateVars, header
<1>2. ASSUME ~Routed, ~Routed', UNCHANGED gateVars PROVE GateInv'
    <2>1. results' = << >> /\ avoid' = {} /\ connections' = << >>
        BY <1>2 DEF GateInv, gateVars, header
    <2>2. << >> \in Seq(SlotFailure \cup SlotRoute)
        OBVIOUS
    <2> QED BY <1>2, <2>1, <2>2 DEF GateInv
<1>3. CASE LiveNext /\ UNCHANGED <<handlerVars, gateVars, answer>>
    BY <1>1, <1>3 DEF handlerVars, request, snapshots
<1>4. ASSUME NEW body \in Bodies, Request(body), UNCHANGED gateVars PROVE GateInv'
    BY <1>2, <1>4 DEF Request, RefuseBody, LoadGraph, Routed, NoFailure
<1>5. CASE LoadScout /\ UNCHANGED <<gateVars, answer>>
    BY <1>2, <1>5 DEF LoadScout, Routed
<1>6. CASE RejectBounds \/ RejectUnknown
    BY <1>2, <1>6 DEF RejectBounds, RejectUnknown, Reject, Unknown, Routed, NoFailure
<1>7. CASE AcceptHeader
    <2>1. /\ pc = "checking" /\ pc' = "routing" /\ req.route = "system"
          /\ UNCHANGED <<req, view, failure, results>>
          /\ ~OutOfBounds /\ AllResolve(G, SharedRefs)
          /\ avoid' = AssembleAvoidSet(G, req) \ {From}
          /\ connections' = ResolveConnections(G, req)
        BY <1>7 DEF AcceptHeader, Checking, request, snapshots
    <2>2. results = << >> /\ failure = NoFailure
        BY <2>1 DEF GateInv, Routed, HandlerInv
    <2>3. G' = G /\ From' = From /\ SharedRefs' = SharedRefs
        BY <2>1, BuildStays, MeaningStays
    <2>4. (OutOfBounds' <=> OutOfBounds) /\ Routed'
        BY <2>1, <2>2 DEF OutOfBounds, Routed
    <2>5. Len(req.to) \in 1..MAX_DESTINATIONS
        BY <2>1 DEF OutOfBounds
    <2>6. results' = << >> /\ Len(results') = 0 /\ DOMAIN results' = {}
        BY <2>1, <2>2
    <2>7. Len(results') <= Len(req'.to) /\ (pc' = "routing" <=> Len(results') < Len(req'.to))
        BY <2>1, <2>5, <2>6
    <2>8. << >> \in Seq(SlotFailure \cup SlotRoute)
        OBVIOUS
    <2> QED BY <2>1, <2>3, <2>4, <2>6, <2>7, <2>8 DEF GateInv
<1>8. CASE FillUnknown \/ FillUnreachable
    BY <1>8, FailuresAreSlots, FillStep
<1>9. CASE FillRoute
    <2> DEFINE to == ResolveSystem(G, NextTo)
    <2>1. PICK path \in CheapestRoutes(ContextTo(to), From, to) :
              /\ to # Unresolved
              /\ Fill([to    |-> NextTo,
                       jumps |-> Len(path) - 1,
                       path  |-> BuildSteps(G, ContextTo(to), path)])
        BY <1>9 DEF FillRoute
    <2>2. pc = "routing"
        BY <1>9 DEF FillRoute
    <2>3. [to    |-> NextTo, jumps |-> Len(path) - 1,
           path  |-> BuildSteps(G, ContextTo(to), path)] \in SlotRoute
        <3> HIDE DEF to
        <3> QED BY <2>1, <2>2, SlotIsAllowed DEF to
    <2> QED BY <2>1, <2>3, FillStep
<1>10. CASE JumpNext /\ UNCHANGED gateVars
    <2>1. req' = req
        BY <1>10, JumpSteps DEF Refuses, Proceeds, request
    <2> QED BY <1>2, <1>10, <2>1, JumpIsNotGate DEF Routed
<1>11. CASE UNCHANGED vars
    BY <1>1, <1>11 DEF vars, handlerVars, request, snapshots
<1> QED BY <1>3, <1>4, <1>5, <1>6, <1>7, <1>8, <1>9, <1>10, <1>11 DEF Next, GateNext

(***************************************************************************)
(* What the header tier decides, in the words of the property.             *)
(***************************************************************************)
LEMMA HeaderIsWrongWhen ==
    ASSUME view \in Builds, RequestOK(req), req.route = "system"
    PROVE  HeaderIsWrong <=> OutOfBounds \/ ~AllResolve(G, SharedRefs)
<1>1. req.from \in Ref /\ OverlayFieldsOK(req) /\ Len(req.to) \in Nat
    BY DEF RequestOK
<1>2. OutOfBounds <=> Len(req.to) = 0 \/ Len(req.to) > MAX_DESTINATIONS
    BY <1>1, DestinationsAssumption DEF OutOfBounds
<1>3. \A ref : Named(ref) = {} <=> ResolveSystem(G, ref) = Unresolved
    BY NamedFacts
<1>4. AllResolve(G, SharedRefs) <=>
          From # Unresolved /\ AllResolve(G, req.avoid) /\ AllResolve(G, ConnectionRefs(req))
    BY <1>1, HeaderRefs
<1>5. AllResolve(G, req.avoid) <=> ~\E r \in ToSet(req.avoid) : Named(r) = {}
    BY <1>3 DEF AllResolve, ToSet
<1>6. AllResolve(G, ConnectionRefs(req)) <=>
          ~\E c \in ToSet(req.connections) : {} \in {Named(c.from), Named(c.to)}
    <2>1. /\ Len(req.connections) \in Nat
          /\ ToSet(req.connections) = {req.connections[i] : i \in 1..Len(req.connections)}
        BY <1>1 DEF OverlayFieldsOK, ToSet
    <2>2. AllResolve(G, ConnectionRefs(req)) <=>
              \A i \in 1..Len(req.connections) :
                  /\ ResolveSystem(G, req.connections[i].from) # Unresolved
                  /\ ResolveSystem(G, req.connections[i].to) # Unresolved
        BY <2>1, EndsResolve DEF ConnectionRefs
    <2>3. \A c : {} \in {Named(c.from), Named(c.to)} <=>
                     \/ ResolveSystem(G, c.from) = Unresolved
                     \/ ResolveSystem(G, c.to) = Unresolved
        BY <1>3
    <2> QED BY <2>1, <2>2, <2>3, ZenonT(40)
<1> QED BY <1>2, <1>3, <1>4, <1>5, <1>6 DEF HeaderIsWrong, From

(***************************************************************************)
(* The reference of a refusal names nothing.                               *)
(***************************************************************************)
LEMMA UnknownNamesNothing ==
    ASSUME view \in Builds, NEW refs \in Seq(Ref), ~AllResolve(G, refs)
    PROVE  Unknown(refs).error = "unknown_system" /\ Named(Unknown(refs).ref) = {}
<1>1. Len(refs) \in Nat /\ DOMAIN refs = 1..Len(refs)
    OBVIOUS
<1>2. PICK i \in 1..Len(refs) : /\ FirstUnknown(G, refs) = refs[i]
                                /\ ResolveSystem(G, refs[i]) = Unresolved
    BY <1>1, FirstUnknownIsUnknown
<1> QED BY <1>2, NamedFacts DEF Unknown

(***************************************************************************)
(* A refusal has its reason: the last part of the invariant for gate       *)
(* routes.                                                                 *)
(***************************************************************************)
ReasonInv ==
    /\ failure.error = "unknown_system" => Named(failure.ref) = {}
    /\ req.route = "system" /\ failure.error \in Errors => HeaderIsWrong

LEMMA ReasonStep ==
    ASSUME LiveInv, HandlerInv, GateInv, ReasonInv, [Next]_vars
    PROVE  ReasonInv'
<1>1. ASSUME UNCHANGED <<req, view, failure>> PROVE ReasonInv'
    <2>1. \A ref : Named(ref)' = Named(ref)
        BY <1>1, MeaningStays
    <2>2. HeaderIsWrong' <=> HeaderIsWrong
        BY <1>1, <2>1 DEF HeaderIsWrong
    <2> QED BY <1>1, <2>1, <2>2 DEF ReasonInv
<1>2. ASSUME failure' = failure, pc # "answered" PROVE ReasonInv'
    BY <1>2 DEF HandlerInv, ReasonInv, NoFailure, Errors
<1>3. CASE LiveNext /\ UNCHANGED <<handlerVars, gateVars, answer>>
    BY <1>1, <1>3 DEF handlerVars, request, snapshots
<1>4. ASSUME NEW body \in Bodies, Request(body) PROVE ReasonInv'
    <2>1. CASE RefuseBody(body)
        BY <2>1 DEF RefuseBody, ReasonInv, Errors
    <2>2. CASE LoadGraph(body)
        BY <1>2, <2>2 DEF LoadGraph
    <2> QED BY <1>4, <2>1, <2>2 DEF Request
<1>5. CASE LoadScout
    BY <1>2, <1>5 DEF LoadScout
<1>6. CASE Proceeds
    BY <1>2, <1>6 DEF Proceeds
<1>7. ASSUME pc = "checking", UNCHANGED <<req, view>>,
             failure'.error = "unknown_system" => Named(failure'.ref) = {},
             req.route = "system" => HeaderIsWrong
      PROVE  ReasonInv'
    <2>1. \A ref : Named(ref)' = Named(ref)
        BY <1>7, MeaningStays
    <2>2. HeaderIsWrong' <=> HeaderIsWrong
        BY <1>7, <2>1 DEF HeaderIsWrong
    <2> QED BY <1>7, <2>1, <2>2 DEF ReasonInv
<1>8. ASSUME NEW refs \in Seq(Ref), pc = "checking", UNCHANGED <<req, view>>,
             ~AllResolve(G, refs), failure' = Unknown(refs),
             req.route = "system" => HeaderIsWrong
      PROVE  ReasonInv'
    <2>1. view \in Builds
        BY DEF HandlerInv
    <2>2. Named(failure'.ref) = {}
        BY <1>8, <2>1, UnknownNamesNothing
    <2> QED BY <1>7, <1>8, <2>2
<1>9. pc = "checking" => RequestOK(req) /\ view \in Builds /\ failure = NoFailure
    BY DEF HandlerInv, NoFailure
<1>10. CASE RejectBounds
    <2>1. pc = "checking" /\ req.route = "system" /\ OutOfBounds /\ UNCHANGED <<req, view>>
          /\ failure' = [error |-> "invalid_param"]
        BY <1>10 DEF RejectBounds, Checking, Reject, request, snapshots
    <2>2. HeaderIsWrong
        BY <1>9, <2>1, HeaderIsWrongWhen
    <2> QED BY <1>7, <2>1, <2>2
<1>11. CASE RejectUnknown
    <2>1. /\ pc = "checking" /\ req.route = "system" /\ UNCHANGED <<req, view>>
          /\ ~AllResolve(G, SharedRefs) /\ failure' = Unknown(SharedRefs)
        BY <1>11 DEF RejectUnknown, Checking, Reject, request, snapshots
    <2>2. HeaderIsWrong
        BY <1>9, <2>1, HeaderIsWrongWhen
    <2>3. SharedRefs \in Seq(Ref)
        BY <1>9, <2>1, HeaderRefs DEF RequestOK
    <2> QED BY <1>8, <2>1, <2>2, <2>3
<1>12. CASE JumpNext /\ Refuses
    <2>1. pc = "checking" /\ UNCHANGED <<req, view>> /\ req.route \in {"blops", "range"}
        BY <1>12, JumpIsNotGate DEF Refuses, request, snapshots
    <2>2. req.from \in Ref /\ RequestOK(req)
        BY <1>9, <2>1 DEF RequestOK
    <2>3. CASE failure'.error # "unknown_system"
        BY <1>7, <2>1, <2>3
    <2>4. ASSUME NEW refs \in Seq(Ref), ~AllResolve(G, refs), failure' = Unknown(refs)
          PROVE  ReasonInv'
        BY <1>8, <2>1, <2>4
    <2>5. CASE RejectEnds
        <3>1. req.to \in Ref
            BY <2>2, <2>5 DEF RejectEnds, Staging, RequestOK
        <3>2. <<req.from, req.to>> \in Seq(Ref)
            BY <2>2, <3>1
        <3> QED BY <2>4, <2>5, <3>2 DEF RejectEnds, Refuse, Reject
    <2>6. CASE RejectSource
        <3>1. <<req.from>> \in Seq(Ref)
            BY <2>2
        <3>2. ~AllResolve(G, <<req.from>>)
            BY <2>6 DEF RejectSource, AllResolve, From
        <3> QED BY <2>4, <2>6, <3>1, <3>2 DEF RejectSource, Refuse, Reject
    <2>7. ASSUME NEW hits, RejectOverlay(hits) PROVE ReasonInv'
        <3>1. req.route = "blops"
            BY <2>7 DEF RejectOverlay, EndsKnown, Staging
        <3>2. OverlayRefs \in Seq(Ref)
            BY <2>2, <3>1, HeaderRefs DEF RequestOK
        <3> QED BY <2>4, <2>7, <3>2 DEF RejectOverlay, Refuse, Reject
    <2>8. \/ failure'.error # "unknown_system" \/ RejectEnds \/ RejectSource
          \/ \E hits : RejectOverlay(hits)
        <3>1. CASE RejectLevel
            BY <3>1 DEF RejectLevel, Refuse, Reject
        <3>2. CASE RejectHull
            BY <3>2 DEF RejectHull, Refuse, Reject
        <3>3. CASE RejectTarget
            BY <3>3 DEF RejectTarget, Refuse, Reject
        <3>4. ASSUME NEW hits, NoStaging(hits) PROVE failure'.error # "unknown_system"
            BY <3>4 DEF NoStaging, Refuse, Reject
        <3>5. ASSUME NEW hits, Stage(hits) PROVE failure'.error # "unknown_system"
            BY <1>9, <2>1, <3>5 DEF Stage, Refuse, Reject, Answered, NoFailure
        <3>6. CASE RejectRangeHull
            BY <3>6 DEF RejectRangeHull, Refuse, Reject
        <3>7. ASSUME NEW hits, ComputeReachable(hits)
              PROVE  failure'.error # "unknown_system"
            BY <1>9, <2>1, <3>7 DEF ComputeReachable, Answered, NoFailure
        <3> QED BY <1>12, <3>1, <3>2, <3>3, <3>4, <3>5, <3>6, <3>7 DEF JumpNext
    <2> QED BY <2>3, <2>5, <2>6, <2>7, <2>8
<1>13. CASE UNCHANGED vars
    BY <1>1, <1>13 DEF vars, handlerVars, request, snapshots
<1>14. CASE AcceptHeader \/ FillUnknown \/ FillUnreachable \/ FillRoute
    BY <1>6, <1>14 DEF AcceptHeader, Checking, FillUnknown, FillUnreachable, FillRoute, Fill,
                Proceeds
<1> QED BY <1>3, <1>4, <1>5, <1>6, <1>10, <1>11, <1>12, <1>13, <1>14, JumpSteps
        DEF Next, GateNext

(***************************************************************************)
(* Every slot with a path holds an allowed one.                            *)
(***************************************************************************)
SlotAllowed(i) ==
    results[i] \in SlotRoute =>
        LET path == results[i].path
        IN  /\ Len(path) = results[i].jumps + 1
            /\ path[1].system_id \in Named(req.from)
            /\ path[Len(path)].system_id \in Named(req.to[i])
            /\ AllSteps(path, EndsOf(req.to[i]), began)

SlotsInv == \A i \in DOMAIN results : SlotAllowed(i)

LEMMA SlotsStep ==
    ASSUME LiveInv, HandlerInv, GateInv, SlotsInv, [Next]_vars
    PROVE  SlotsInv'
<1>1. ASSUME UNCHANGED <<request, snapshots>>,
             NEW i \in DOMAIN results, results'[i] = results[i]
      PROVE  SlotAllowed(i)'
    <2>1. UNCHANGED <<req, began, view, viewScout>>
        BY <1>1 DEF request, snapshots
    <2>2. /\ \A ref : Named(ref)' = Named(ref)
          /\ \A path, ids, t : AllSteps(path, ids, t)' <=> AllSteps(path, ids, t)
        BY <2>1, MeaningStays, StepsStay
    <2>3. \A ref : EndsOf(ref)' = EndsOf(ref)
        BY <2>1, <2>2 DEF EndsOf
    <2>4. SlotAllowed(i)
        BY DEF SlotsInv
    <2> QED BY <1>1, <2>1, <2>2, <2>3, <2>4 DEF SlotAllowed
<1>2. ASSUME UNCHANGED <<request, snapshots>>, results' = results PROVE SlotsInv'
    BY <1>1, <1>2 DEF SlotsInv
<1>3. ASSUME pc # "routing", pc # "answered", results' = results PROVE SlotsInv'
    <2>1. results' = << >>
        BY <1>3 DEF GateInv, Routed
    <2> QED BY <2>1 DEF SlotsInv
<1>4. ASSUME NEW result \in SlotFailure \cup SlotRoute, result.to = NextTo, Fill(result),
             result \in SlotRoute =>
                 /\ Len(result.path) = result.jumps + 1
                 /\ result.path[1].system_id \in Named(req.from)
                 /\ result.path[Len(result.path)].system_id \in Named(NextTo)
                 /\ AllSteps(result.path, EndsOf(NextTo), began)
      PROVE  SlotsInv'
    <2>1. UNCHANGED <<request, snapshots>>
        BY <1>4 DEF Fill
    <2>3. PICK n \in Nat : n = Len(results)
        BY DEF GateInv
    <2>2. /\ DOMAIN results' = 1..n + 1 /\ DOMAIN results = 1..n
          /\ \A i \in DOMAIN results : results'[i] = results[i]
          /\ results'[n + 1] = result
        BY <1>4, <2>3, FillStep
    <2>4. SlotAllowed(n + 1)'
        <3>1. UNCHANGED <<req, began, view, viewScout>>
            BY <2>1 DEF request, snapshots
        <3>2. /\ \A ref : Named(ref)' = Named(ref)
              /\ \A path, ids, t : AllSteps(path, ids, t)' <=> AllSteps(path, ids, t)
            BY <3>1, MeaningStays, StepsStay
        <3>3. \A ref : EndsOf(ref)' = EndsOf(ref)
            BY <3>1, <3>2 DEF EndsOf
        <3>4. NextTo = req.to[n + 1]
            BY <2>3 DEF NextTo
        <3> QED BY <1>4, <2>2, <3>1, <3>2, <3>3, <3>4 DEF SlotAllowed
    <2>5. \A i \in 1..n + 1 : i \in 1..n \/ i = n + 1
        BY <2>3
    <2> QED BY <1>1, <2>1, <2>2, <2>4, <2>5 DEF SlotsInv
<1>5. CASE LiveNext /\ UNCHANGED <<handlerVars, gateVars, answer>>
    BY <1>2, <1>5 DEF handlerVars, gateVars
<1>6. ASSUME NEW body \in Bodies, Request(body), UNCHANGED gateVars PROVE SlotsInv'
    BY <1>3, <1>6 DEF Request, RefuseBody, LoadGraph, gateVars
<1>7. CASE LoadScout /\ UNCHANGED <<gateVars, answer>>
    BY <1>3, <1>7 DEF LoadScout, gateVars
<1>8. CASE RejectBounds \/ RejectUnknown \/ AcceptHeader
    BY <1>3, <1>8 DEF RejectBounds, RejectUnknown, Reject, AcceptHeader, Checking, gateVars
<1>9. CASE FillUnknown \/ FillUnreachable
    <2>1. PICK error \in {"unknown_system", "unreachable"} :
              /\ [to |-> NextTo, error |-> error] \in SlotFailure
              /\ Fill([to |-> NextTo, error |-> error])
        BY <1>9, FailuresAreSlots
    <2>2. [to |-> NextTo, error |-> error] \notin SlotRoute
        BY DEF SlotRoute
    <2> QED BY <1>4, <2>1, <2>2
<1>10. CASE FillRoute
    <2> DEFINE to == ResolveSystem(G, NextTo)
    <2>1. PICK path \in CheapestRoutes(ContextTo(to), From, to) :
              /\ to # Unresolved
              /\ Fill([to    |-> NextTo,
                       jumps |-> Len(path) - 1,
                       path  |-> BuildSteps(G, ContextTo(to), path)])
        BY <1>10 DEF FillRoute
    <2>2. pc = "routing"
        BY <1>10 DEF FillRoute
    <2> DEFINE steps == BuildSteps(G, ContextTo(to), path)
               slot  == [to |-> NextTo, jumps |-> Len(path) - 1, path  |-> steps]
    <2>3. /\ slot \in SlotRoute /\ Len(steps) = Len(path) /\ Len(path) \in Nat \ {0}
          /\ steps[1].system_id \in Named(req.from)
          /\ steps[Len(steps)].system_id \in Named(NextTo)
          /\ AllSteps(steps, EndsOf(NextTo), began)
        <3> HIDE DEF to
        <3> QED BY <2>1, <2>2, SlotIsAllowed DEF to
    <2>4. Fill(slot)
        BY <2>1
    <2> HIDE DEF steps
    <2>5. slot.to = NextTo /\ slot.path = steps /\ slot.jumps = Len(path) - 1
        OBVIOUS
    <2> HIDE DEF slot
    <2> QED BY <1>4, <2>3, <2>4, <2>5
<1>11. CASE JumpNext /\ UNCHANGED gateVars
    BY <1>2, <1>11, JumpSteps DEF Refuses, Proceeds, gateVars
<1>12. CASE UNCHANGED vars
    BY <1>2, <1>12 DEF vars, handlerVars, gateVars
<1> QED BY <1>5, <1>6, <1>7, <1>8, <1>9, <1>10, <1>11, <1>12 DEF Next, GateNext

----------------------------------------------------------------------------
(* The theorems about gate routes.                                         *)

GateSafe == LiveInv /\ HandlerInv /\ GateInv /\ ReasonInv /\ SlotsInv

LEMMA GateIsSafe == Spec => []GateSafe
<1>1. Init => GateSafe
    <2> SUFFICES ASSUME Init PROVE GateSafe
        OBVIOUS
    <2>1. LiveInv /\ HandlerInv /\ GateInv
        BY HandlerHolds, GateHolds
    <2>2. failure = NoFailure /\ results = << >>
        BY DEF Init, HandlerInit, GateInit
    <2>3. ReasonInv /\ SlotsInv
        BY <2>2 DEF ReasonInv, SlotsInv, NoFailure, Errors
    <2> QED BY <2>1, <2>3 DEF GateSafe
<1>2. GateSafe /\ [Next]_vars => GateSafe'
    BY LiveStep, HandlerStep, GateStep, ReasonStep, SlotsStep DEF GateSafe
<1> QED BY <1>1, <1>2, PTL DEF Spec

(***************************************************************************)
(* A returned route is one that the request allows in the build that was   *)
(* loaded, for any map, signatures and body.                               *)
(***************************************************************************)
THEOREM GateRoutesAreAllowed == Spec => []RoutesAreAllowed
<1>1. GateSafe => RoutesAreAllowed
    <2> SUFFICES ASSUME GateSafe, NEW i \in DOMAIN results, Filled(i, "path")
                 PROVE  LET path == results[i].path
                        IN  /\ path[1].system_id \in Named(req.from)
                            /\ path[Len(path)].system_id \in Named(req.to[i])
                            /\ IsAllowed(path, EndsOf(req.to[i]), began)
        BY DEF RoutesAreAllowed
    <2>1. results[i] \in SlotFailure \cup SlotRoute /\ "path" \in DOMAIN results[i]
        BY DEF GateSafe, GateInv, Filled
    <2>2. results[i] \in SlotRoute
        BY <2>1 DEF SlotFailure, SlotRoute
    <2>3. SlotAllowed(i)
        BY DEF GateSafe, SlotsInv
    <2> QED BY <2>2, <2>3, StepsAreAllowed DEF SlotAllowed
<1> QED BY <1>1, GateIsSafe, PTL

(***************************************************************************)
(* The two tiers are separate: a request is refused as a whole exactly     *)
(* when its header is wrong in the build that was loaded, and answered     *)
(* with one slot for each destination otherwise.                           *)
(***************************************************************************)
THEOREM GateTiersAreSeparate == Spec => []TiersAreSeparate
<1>1. GateSafe => TiersAreSeparate
    <2> SUFFICES ASSUME GateSafe, req.route = "system" PROVE TiersAreSeparate
        BY DEF TiersAreSeparate
    <2> USE DEF GateSafe
    <2>1. ASSUME pc \in {"routing", "answered"}, failure.error # "malformed"
          PROVE  HeaderIsWrong <=> failure # NoFailure
        <3>1. view \in Builds /\ RequestOK(req)
            BY <2>1 DEF HandlerInv
        <3>2. CASE failure = NoFailure
            <4>1. ~OutOfBounds /\ AllResolve(G, SharedRefs)
                BY <2>1, <3>2 DEF GateInv, Routed
            <4> QED BY <3>1, <3>2, <4>1, HeaderIsWrongWhen
        <3>3. CASE failure # NoFailure
            <4>1. failure.error \in Errors
                BY <2>1, <3>3 DEF HandlerInv, Errors
            <4> QED BY <3>3, <4>1 DEF ReasonInv
        <3> QED BY <3>2, <3>3
    <2>2. failure # NoFailure => results = << >>
        BY DEF GateInv, Routed
    <2>3. ASSUME pc = "answered", failure = NoFailure PROVE Len(results) = Len(req.to)
        <3>1. Routed
            BY <2>3 DEF Routed
        <3>2. Len(req.to) \in Nat /\ Len(results) \in Nat
            BY <3>1, RoutedFacts DEF GateInv
        <3>3. Len(results) <= Len(req.to) /\ ~(Len(results) < Len(req.to))
            BY <2>3, <3>1 DEF GateInv
        <3> QED BY <3>2, <3>3
    <2>4. \A i \in DOMAIN results : results[i].to = req.to[i]
        BY DEF GateInv
    <2>5. failure.error = "unknown_system" => Named(failure.ref) = {}
        BY DEF ReasonInv
    <2> QED BY <2>1, <2>2, <2>3, <2>4, <2>5 DEF TiersAreSeparate
<1> QED BY <1>1, GateIsSafe, PTL

----------------------------------------------------------------------------
(* What can be reached.                                                    *)

(***************************************************************************)
(* The recursive function of WithinJumps exists.                           *)
(***************************************************************************)
AllIds == {s.id : s \in SystemsOf}

Nearer(ends, t, near) ==
    LET passable == {x \in near : x \in Named(req.from) \/ ~Barred(x)}
    IN  near \cup {y \in AllIds \ near : \E x \in passable : Hop(x, y, ends, t)}

IsReached(ends, t, m, w) ==
    w = [k \in 0..m |-> IF k = 0 THEN Named(req.from) ELSE Nearer(ends, t, w[k - 1])]

LEMMA ReachedExists ==
    ASSUME NEW ends, NEW t, NEW m \in Nat
    PROVE  \E w : IsReached(ends, t, m, w)
<1> DEFINE S == {n \in Nat : \E w : IsReached(ends, t, n, w)}
<1>1. 0 \in S
    <2>1. IsReached(ends, t, 0, [k \in 0..0 |-> Named(req.from)])
        BY DEF IsReached
    <2> QED BY <2>1
<1>2. ASSUME NEW n \in Nat, n \in S PROVE n + 1 \in S
    <2>1. PICK w : IsReached(ends, t, n, w)
        BY <1>2
    <2> DEFINE v == [k \in 0..n + 1 |-> IF k = n + 1 THEN Nearer(ends, t, w[n])
                                        ELSE w[k]]
    <2>2. ASSUME NEW k \in 0..n + 1
          PROVE  v[k] = IF k = 0 THEN Named(req.from) ELSE Nearer(ends, t, v[k - 1])
        <3>1. CASE k = n + 1
            BY <3>1
        <3>2. CASE k # n + 1
            <4>1. k \in 0..n /\ v[k] = w[k]
                BY <3>2
            <4>2. w[k] = IF k = 0 THEN Named(req.from) ELSE Nearer(ends, t, w[k - 1])
                BY <2>1, <4>1 DEF IsReached
            <4>3. k # 0 => v[k - 1] = w[k - 1]
                BY <4>1
            <4> QED BY <4>1, <4>2, <4>3
        <3> QED BY <3>1, <3>2
    <2>3. IsReached(ends, t, n + 1, v)
        BY <2>2 DEF IsReached
    <2>4. \E u : IsReached(ends, t, n + 1, u)
        <3> HIDE DEF v
        <3> QED BY <2>3
    <2> QED BY <2>4
<1> HIDE DEF S
<1>3. m \in S
    BY <1>1, <1>2, SetInduction
<1> QED BY <1>3 DEF S

(***************************************************************************)
(* The systems are finitely many, and WithinJumps is that function.        *)
(***************************************************************************)
LEMMA SystemsAreFinite ==
    ASSUME view \in Builds
    PROVE  /\ IsFiniteSet(AllIds) /\ Cardinality(AllIds) \in Nat
           /\ IsFiniteSet(SystemsOf) /\ Cardinality(SystemsOf) \in Nat
           /\ Cardinality(AllIds) <= Cardinality(SystemsOf)
<1> DEFINE f == [n \in 0..Size - 1 |-> SystemAt(G, n)]
           h == [s \in SystemsOf |-> s.id]
<1>1. IsFiniteSet(0..Size - 1)
    <2>1. 0 \in Int /\ Size - 1 \in Int
        BY NodeFacts
    <2> QED BY <2>1, FS_Interval, SMTT(30)
<1>2. f \in Surjection(0..Size - 1, SystemsOf)
    BY NodeFacts DEF Surjection
<1>3. IsFiniteSet(SystemsOf)
    <2> HIDE DEF f
    <2> QED BY <1>1, <1>2, FS_Surjection
<1>4. h \in Surjection(SystemsOf, AllIds)
    BY DEF Surjection, AllIds
<1>5. IsFiniteSet(AllIds) /\ Cardinality(AllIds) <= Cardinality(SystemsOf)
    <2> HIDE DEF h
    <2> QED BY <1>3, <1>4, FS_Surjection
<1> QED BY <1>3, <1>5, FS_CardinalityType

LEMMA WithinIsReached ==
    ASSUME view \in Builds, NEW ends, NEW t
    PROVE  LET w == WithinJumps(ends, t)
               m == Cardinality(AllIds)
           IN  /\ m \in Nat /\ DOMAIN w = 0..m /\ Cardinality(DOMAIN w) - 1 = m
               /\ IsReached(ends, t, m, w)
<1> DEFINE m == Cardinality(AllIds)
           w == CHOOSE v : IsReached(ends, t, m, v)
<1>1. m \in Nat
    BY SystemsAreFinite
<1>2. IsReached(ends, t, m, w)
    BY <1>1, ReachedExists
<1>3. WithinJumps(ends, t) = w
    BY DEF WithinJumps, IsReached, Nearer, AllIds
<1> HIDE DEF m, w
<1>4. DOMAIN w = 0..m
    BY <1>2 DEF IsReached
<1>5. Cardinality(0..m) = m + 1
    BY <1>1, FS_Interval, SMTT(30)
<1> QED BY <1>1, <1>2, <1>3, <1>4, <1>5 DEF m

\* A system is within k jumps.
Reaches(ends, t, k, id) ==
    \E m \in Nat : \E w : IsReached(ends, t, m, w) /\ k \in 0..m /\ id \in w[k]

LEMMA WithinIsReaches ==
    ASSUME view \in Builds, NEW ends, NEW t,
           NEW k \in DOMAIN WithinJumps(ends, t), NEW id \in WithinJumps(ends, t)[k]
    PROVE  k \in Nat /\ Reaches(ends, t, k, id)
<1> DEFINE w == WithinJumps(ends, t)
           m == Cardinality(AllIds)
<1>1. m \in Nat /\ DOMAIN w = 0..m /\ IsReached(ends, t, m, w)
    BY WithinIsReached
<1>2. k \in DOMAIN w /\ id \in w[k]
    OBVIOUS
<1> HIDE DEF w, m
<1> QED BY <1>1, <1>2 DEF Reaches

LEMMA ReachesIsWithin ==
    ASSUME view \in Builds, NEW ends, NEW t, NEW k \in Nat, NEW id,
           k <= Cardinality(AllIds), Reaches(ends, t, k, id)
    PROVE  k \in DOMAIN WithinJumps(ends, t) /\ id \in WithinJumps(ends, t)[k]
<1> DEFINE w == WithinJumps(ends, t)
           m == Cardinality(AllIds)
<1>1. m \in Nat /\ DOMAIN w = 0..m /\ IsReached(ends, t, m, w)
    BY WithinIsReached
<1>2. PICK n \in Nat : \E v : IsReached(ends, t, n, v) /\ k \in 0..n /\ id \in v[k]
    BY DEF Reaches
<1>3. PICK v : IsReached(ends, t, n, v) /\ k \in 0..n /\ id \in v[k]
    BY <1>2
<1>4. k <= m
    OBVIOUS
<1> HIDE DEF w, m
<1> DEFINE S == {i \in Nat : i <= k => w[i] = v[i]}
<1>5. /\ \A i \in 0..m : w[i] = IF i = 0 THEN Named(req.from) ELSE Nearer(ends, t, w[i - 1])
      /\ \A i \in 0..n : v[i] = IF i = 0 THEN Named(req.from) ELSE Nearer(ends, t, v[i - 1])
    BY <1>1, <1>3 DEF IsReached
<1>6. 0 \in S
    <2>1. w[0] = Named(req.from) /\ v[0] = Named(req.from)
        BY <1>1, <1>5
    <2> QED BY <2>1
<1>7. ASSUME NEW i \in Nat, i \in S PROVE i + 1 \in S
    <2> SUFFICES ASSUME i + 1 <= k PROVE w[i + 1] = v[i + 1]
        OBVIOUS
    <2>1. i + 1 \in 0..m /\ i + 1 \in 0..n /\ i + 1 # 0 /\ (i + 1) - 1 = i /\ i <= k
        BY <1>1, <1>3, <1>4
    <2>2. w[i] = v[i]
        BY <1>7, <2>1
    <2>3. w[i + 1] = Nearer(ends, t, w[i]) /\ v[i + 1] = Nearer(ends, t, v[i])
        BY <1>5, <2>1
    <2> QED BY <2>2, <2>3
<1> HIDE DEF S
<1>8. k \in S
    BY <1>6, <1>7, SetInduction
<1>9. w[k] = v[k]
    BY <1>8 DEF S
<1> QED BY <1>1, <1>3, <1>4, <1>9 DEF w

(***************************************************************************)
(* A system that can be reached, even by the signatures that are live some *)
(* time later, is the end of a path of the search that is as short.        *)
(***************************************************************************)
Spares(av) == \A n \in 0..Size - 1 : n \in av => Barred(IdOf(n)) /\ n # From

ReachedBy(c, n, k) ==
    \E p \in PathsFrom(c, From) : ~Repeats(p) /\ p[Len(p)] = n /\ Len(p) <= k + 1

LEMMA ReachedByPaths ==
    ASSUME CanRoute, clock \in Nat, NEW t \in Nat, clock <= t,
           NEW ends \in SUBSET (0..Size - 1), From \in 0..Size - 1,
           NEW av, Spares(av),
           NEW m \in Nat, NEW w, IsReached(IdsOf(ends), t, m, w),
           NEW k \in 0..m, NEW n \in 0..Size - 1, IdOf(n) \in w[k], n \notin av
    PROVE  ReachedBy(ContextFor(av, ResolveConnections(G, req), ends), n, k)
<1> DEFINE c   == ContextFor(av, ResolveConnections(G, req), ends)
           ids == IdsOf(ends)
           Ok(i) == /\ w[i] \subseteq AllIds
                    /\ \A x \in 0..Size - 1 :
                          IdOf(x) \in w[i] /\ x \notin av => ReachedBy(c, x, i)
           S == {i \in Nat : i <= m => Ok(i)}
<1>1. view \in Builds
    BY DEF CanRoute
<1>2. \A x \in 0..Size - 1 : IdOf(x) \in Named(req.from) <=> x = From
    BY <1>1, NamedFacts DEF From
<1>3. w[0] = Named(req.from) /\ \A i \in 1..m : w[i] = Nearer(ids, t, w[i - 1])
    BY DEF IsReached
<1>4. \A id \in AllIds : \E x \in 0..Size - 1 : id = IdOf(x)
    BY <1>1, NodeFacts DEF AllIds, IdOf
<1>5. \A x \in 0..Size - 1 : x \in Nodes
    BY <1>1, NodeFacts
<1> HIDE DEF c, ids
<1>6. 0 \in S
    <2>1. w[0] \subseteq AllIds
        BY <1>3 DEF Named, AllIds
    <2>2. ReachedBy(c, From, 0)
        <3>1. /\ <<From>> \in PathsFrom(c, From) /\ ~Repeats(<<From>>)
              /\ Len(<<From>>) = 1 /\ <<From>>[1] = From
            BY <1>5, StayingIsAPath
        <3> DEFINE p == <<From>>
        <3> HIDE DEF p
        <3>2. /\ p \in PathsFrom(c, From) /\ ~Repeats(p)
              /\ p[Len(p)] = From /\ Len(p) <= 0 + 1
            BY <3>1 DEF p
        <3> QED BY <3>2 DEF ReachedBy
    <2> QED BY <1>2, <1>3, <2>1, <2>2
<1>7. \A p \in PathsFrom(c, From) : Len(p) \in Nat
    <2>1. \A p \in PathsFrom(c, From) : p \in Seq(Nodes)
        BY ZenonT(30) DEF PathsFrom
    <2>2. \A p \in Seq(Nodes) : Len(p) \in Nat
        OBVIOUS
    <2> QED BY <2>1, <2>2
<1>8. ASSUME NEW i \in Nat, NEW a \in Nat, NEW b \in Nat, a <= i + 1, b <= a + 1
       PROVE  b <= (i + 1) + 1
    BY <1>8
<1>9. ASSUME NEW i \in Nat, i \in S PROVE i + 1 \in S
    <2> SUFFICES ASSUME i + 1 <= m PROVE Ok(i + 1)
        OBVIOUS
    <2>1. Ok(i)
        BY <1>9
    <2>2. w[i + 1] = Nearer(ids, t, w[i])
        <3>1. i + 1 \in 1..m /\ (i + 1) - 1 = i
            OBVIOUS
        <3> QED BY <1>3, <3>1
    <2>3. w[i + 1] \subseteq AllIds
        BY <2>1, <2>2 DEF Nearer
    <2>4. ASSUME NEW x \in 0..Size - 1, IdOf(x) \in w[i + 1], x \notin av
          PROVE  ReachedBy(c, x, i + 1)
        <3>1. CASE IdOf(x) \in w[i]
            <4>1. PICK p \in PathsFrom(c, From) :
                      ~Repeats(p) /\ p[Len(p)] = x /\ Len(p) <= i + 1
                BY <2>1, <2>4, <3>1 DEF ReachedBy
            <4>2. Len(p) \in Nat
                BY <1>7
            <4>3. Len(p) <= (i + 1) + 1
                BY <4>1, <4>2
            <4> QED BY <4>1, <4>3 DEF ReachedBy
        <3>2. CASE IdOf(x) \notin w[i]
            <4>1. PICK id \in w[i] : /\ id \in Named(req.from) \/ ~Barred(id)
                                     /\ Hop(id, IdOf(x), ids, t)
                BY <2>2, <2>4, <3>2 DEF Nearer
            <4>2. PICK a \in 0..Size - 1 : id = IdOf(a)
                BY <1>4, <2>1, <4>1
            <4>3. a \notin av /\ a # x
                BY <1>2, <3>2, <4>1, <4>2 DEF Spares
            <4>4. PICK p \in PathsFrom(c, From) :
                      ~Repeats(p) /\ p[Len(p)] = a /\ Len(p) <= i + 1
                BY <2>1, <4>2, <4>3 DEF ReachedBy
            <4>5. Hop(IdOf(a), IdOf(x), ids, clock)
                <5>1. ScoutHop(id, IdOf(x), ids, t) => ScoutHop(id, IdOf(x), ids, clock)
                    BY ScoutHopsExpire DEF CanRoute
                <5> QED BY <4>1, <4>2, <5>1 DEF Hop
            <4>6. x \in Neighbors(c, a)
                <5>1. c.avoid = av /\ (HasGateEdge(c, a, x) \/ IsOverlayEdge(c, a, x))
                    BY <4>3, <4>5, ContextFacts DEF c, ids
                <5> QED BY <1>5, <2>4, <5>1 DEF Neighbors
            <4>7. PICK q \in PathsFrom(c, From) :
                      ~Repeats(q) /\ q[Len(q)] = x /\ Len(q) <= Len(p) + 1
                BY <4>4, <4>6, SimplePathsExtend
            <4>8. Len(p) \in Nat /\ Len(q) \in Nat
                BY <1>7
            <4>9. Len(q) <= (i + 1) + 1
                <5> HIDE DEF c, ids, Ok
                <5> QED BY <1>8, <4>4, <4>7, <4>8, ZenonT(30)
            <4> QED BY <4>7, <4>9 DEF ReachedBy
        <3> QED BY <3>1, <3>2
    <2> QED BY <2>3, <2>4
<1> HIDE DEF S
<1>10. k \in S
    BY <1>6, <1>9, SetInduction
<1> QED BY <1>10 DEF S, c

(***************************************************************************)
(* Hence the search finds it.                                              *)
(***************************************************************************)
LEMMA ReachedAreFound ==
    ASSUME CanRoute, clock \in Nat, NEW t \in Nat, clock <= t,
           NEW ends \in SUBSET (0..Size - 1), From \in 0..Size - 1,
           NEW av, Spares(av), NEW n \in 0..Size - 1, n \notin av,
           NEW k, Reaches(IdsOf(ends), t, k, IdOf(n))
    PROVE  LET c == ContextFor(av, ResolveConnections(G, req), ends)
           IN  /\ CheapestRoutes(c, From, n) # {}
               /\ \E q \in SimpleRoutes(c, From, n) : Len(q) <= k + 1
<1> DEFINE c == ContextFor(av, ResolveConnections(G, req), ends)
<1>1. From \in Nodes
    BY NodeFacts DEF CanRoute
<1>2. PICK m \in Nat : \E w : /\ IsReached(IdsOf(ends), t, m, w)
                              /\ k \in 0..m /\ IdOf(n) \in w[k]
    BY DEF Reaches
<1>3. PICK w : IsReached(IdsOf(ends), t, m, w) /\ k \in 0..m /\ IdOf(n) \in w[k]
    BY <1>2
<1>4. ReachedBy(c, n, k)
    BY <1>3, ReachedByPaths
<1> HIDE DEF c
<1>5. PICK q \in PathsFrom(c, From) : ~Repeats(q) /\ q[Len(q)] = n /\ Len(q) <= k + 1
    BY <1>4 DEF ReachedBy
<1>6. q \in SimpleRoutes(c, From, n)
    BY <1>1, <1>5, SimpleRoutesAreAll
<1>7. CheapestRoutes(c, From, n) # {}
    BY <1>1, <1>6, CheapestExists
<1> QED BY <1>5, <1>6, <1>7 DEF c

(***************************************************************************)
(* A slot that reports a failure: the destination is unknown, or it is out *)
(* of reach from some moment on, since signatures only expire.             *)
(***************************************************************************)
OutOfReach(ends, to, s) ==
    \A t \in Nat : s <= t =>
        \A k \in Nat : \A id \in Named(to) : ~Reaches(ends, t, k, id)

SlotFailed(i) ==
    results[i] \in SlotFailure =>
        \/ results[i].error = "unknown_system" /\ Named(req.to[i]) = {}
        \/ /\ results[i].error = "unreachable"
           /\ \E s \in 0..clock : OutOfReach(EndsOf(req.to[i]), req.to[i], s)

FailuresInv == \A i \in DOMAIN results : SlotFailed(i)

LEMMA ReachStays ==
    ASSUME view' = view, req' = req, viewScout' = viewScout
    PROVE  /\ \A ends, t, k, id : Reaches(ends, t, k, id)' <=> Reaches(ends, t, k, id)
           /\ \A ends, to, s : OutOfReach(ends, to, s)' <=> OutOfReach(ends, to, s)
<1>1. \A x, y, ids, t : ScoutHop(x, y, ids, t)' <=> ScoutHop(x, y, ids, t)
    BY DEF ScoutHop
<1>2. \A x, y, ids, t : Hop(x, y, ids, t)' <=> Hop(x, y, ids, t)
    BY <1>1, MeaningStays DEF Hop
<1>3. /\ \A ref : Named(ref)' = Named(ref)
      /\ \A x : Barred(x)' <=> Barred(x)
    BY MeaningStays
<1>4. AllIds' = AllIds
    BY BuildStays DEF AllIds
<1>5. \A ends, t, near : Nearer(ends, t, near)' = Nearer(ends, t, near)
    BY <1>2, <1>3, <1>4 DEF Nearer
<1>6. \A ends, t, m, w : IsReached(ends, t, m, w)' <=> IsReached(ends, t, m, w)
    BY <1>3, <1>5 DEF IsReached
<1>7. \A ends, t, k, id : Reaches(ends, t, k, id)' <=> Reaches(ends, t, k, id)
    BY <1>6 DEF Reaches
<1> QED BY <1>3, <1>7 DEF OutOfReach

(***************************************************************************)
(* A destination without a route is out of reach.                          *)
(***************************************************************************)
LEMMA UnreachableIsOutOfReach ==
    ASSUME LiveInv, HandlerInv, GateInv, pc = "routing",
           NEW to, to = ResolveSystem(G, NextTo), to # Unresolved,
           CheapestRoutes(ContextTo(to), From, to) = {}
    PROVE  OutOfReach(EndsOf(NextTo), NextTo, clock)
<1> DEFINE av   == avoid \ {to}
           ends == {From, to}
<1>1. Routed
    BY DEF HandlerInv, Routed
<1>2. /\ CanRoute /\ From \in 0..Size - 1 /\ view \in Builds /\ req.avoid \in Seq(Ref)
    BY <1>1, RoutedFacts
<1>3. to \in 0..Size - 1 /\ Named(NextTo) = {IdOf(to)}
    BY <1>2, NamedFacts
<1>4. From # Unresolved
    BY <1>2, NodeFacts DEF Unresolved
<1>5. Named(req.from) = {IdOf(From)}
    BY <1>2, <1>4, NamedFacts DEF From
<1>6. IdsOf(ends) = EndsOf(NextTo)
    BY <1>3, <1>5 DEF EndsOf, IdsOf
<1>7. ContextTo(to) = ContextFor(av, ResolveConnections(G, req), ends)
    BY <1>1 DEF ContextTo, GateInv
<1>8. Spares(av)
    BY <1>1, <1>2, AvoidIsBarred DEF GateInv, Spares
<1>9. clock \in Nat /\ to \notin av /\ ends \in SUBSET (0..Size - 1)
    BY <1>2, <1>3 DEF LiveInv
<1> HIDE DEF av, ends
<1>10. ASSUME NEW t \in Nat, clock <= t, NEW k \in Nat,
              Reaches(IdsOf(ends), t, k, IdOf(to))
       PROVE  FALSE
    BY <1>2, <1>3, <1>7, <1>8, <1>9, <1>10, ReachedAreFound
<1> QED BY <1>3, <1>6, <1>10 DEF OutOfReach

LEMMA FailuresStep ==
    ASSUME LiveInv, HandlerInv, GateInv, FailuresInv, [Next]_vars
    PROVE  FailuresInv'
<1>1. ASSUME UNCHANGED <<request, snapshots>>, clock <= clock', clock' \in Nat,
             NEW i \in DOMAIN results, results'[i] = results[i]
      PROVE  SlotFailed(i)'
    <2>1. UNCHANGED <<req, view, viewScout>>
        BY <1>1 DEF request, snapshots
    <2>2. /\ \A ref : Named(ref)' = Named(ref)
          /\ \A ends, to, s : OutOfReach(ends, to, s)' <=> OutOfReach(ends, to, s)
        BY <2>1, MeaningStays, ReachStays
    <2>3. \A ref : EndsOf(ref)' = EndsOf(ref)
        BY <2>1, <2>2 DEF EndsOf
    <2>4. SlotFailed(i)
        BY DEF FailuresInv
    <2>5. \A s \in 0..clock : s \in 0..clock'
        BY <1>1 DEF LiveInv
    <2> QED BY <1>1, <2>1, <2>2, <2>3, <2>4, <2>5 DEF SlotFailed
<1>2. ASSUME UNCHANGED <<request, snapshots>>, clock <= clock', clock' \in Nat,
             results' = results
      PROVE  FailuresInv'
    BY <1>1, <1>2 DEF FailuresInv
<1>3. ASSUME pc # "routing", pc # "answered", results' = results PROVE FailuresInv'
    <2>1. results' = << >>
        BY <1>3 DEF GateInv, Routed
    <2> QED BY <2>1 DEF FailuresInv
<1>4. ASSUME NEW result \in SlotFailure \cup SlotRoute, result.to = NextTo, Fill(result),
             result \in SlotFailure =>
                 \/ result.error = "unknown_system" /\ Named(NextTo) = {}
                 \/ /\ result.error = "unreachable"
                    /\ OutOfReach(EndsOf(NextTo), NextTo, clock)
      PROVE  FailuresInv'
    <2>1. UNCHANGED <<request, snapshots>> /\ clock' = clock /\ clock \in Nat
        BY <1>4 DEF Fill, liveVars, LiveInv
    <2>2. clock <= clock' /\ clock' \in Nat /\ clock \in 0..clock
        BY <2>1
    <2>3. PICK n \in Nat : n = Len(results)
        BY DEF GateInv
    <2>4. /\ DOMAIN results' = 1..n + 1 /\ DOMAIN results = 1..n
          /\ \A i \in DOMAIN results : results'[i] = results[i]
          /\ results'[n + 1] = result
        BY <1>4, <2>3, FillStep
    <2>5. SlotFailed(n + 1)'
        <3>1. UNCHANGED <<req, view, viewScout>>
            BY <2>1 DEF request, snapshots
        <3>2. /\ \A ref : Named(ref)' = Named(ref)
              /\ \A ends, to, s : OutOfReach(ends, to, s)' <=> OutOfReach(ends, to, s)
            BY <3>1, MeaningStays, ReachStays
        <3>3. \A ref : EndsOf(ref)' = EndsOf(ref)
            BY <3>1, <3>2 DEF EndsOf
        <3>4. NextTo = req.to[n + 1]
            BY <2>3 DEF NextTo
        <3> QED BY <1>4, <2>1, <2>2, <2>4, <3>1, <3>2, <3>3, <3>4 DEF SlotFailed
    <2>6. \A i \in 1..n + 1 : i \in 1..n \/ i = n + 1
        BY <2>3
    <2> QED BY <1>1, <2>1, <2>2, <2>4, <2>5, <2>6 DEF FailuresInv
<1>5. CASE LiveNext /\ UNCHANGED <<handlerVars, gateVars, answer>>
    <2>1. clock \in Nat /\ (clock' = clock \/ clock' = clock + 1)
        BY <1>5 DEF LiveNext, TimePasses, StoreGraph, StoreReloadTime, PollTick,
                    PollAnswered, PollFails, LiveInv
    <2>2. clock <= clock' /\ clock' \in Nat
        BY <2>1
    <2> QED BY <1>2, <1>5, <2>2 DEF handlerVars, gateVars
<1>6. ASSUME NEW body \in Bodies, Request(body), UNCHANGED gateVars PROVE FailuresInv'
    BY <1>3, <1>6 DEF Request, RefuseBody, LoadGraph, gateVars
<1>7. CASE LoadScout /\ UNCHANGED <<gateVars, answer>>
    BY <1>3, <1>7 DEF LoadScout, gateVars
<1>8. CASE RejectBounds \/ RejectUnknown \/ AcceptHeader
    BY <1>3, <1>8 DEF RejectBounds, RejectUnknown, Reject, AcceptHeader, Checking, gateVars
<1>9. CASE FillUnknown
    <2>1. Named(NextTo) = {}
        <3>1. view \in Builds
            BY DEF HandlerInv
        <3> QED BY <1>9, <3>1, NamedFacts DEF FillUnknown
    <2>2. PICK error \in {"unknown_system", "unreachable"} :
              /\ [to |-> NextTo, error |-> error] \in SlotFailure
              /\ Fill([to |-> NextTo, error |-> error])
        BY <1>9, FailuresAreSlots
    <2>3. [to |-> NextTo, error |-> "unknown_system"] \in SlotFailure
        BY <2>2 DEF SlotFailure
    <2> QED BY <1>4, <1>9, <2>1, <2>3 DEF FillUnknown
<1>10. CASE FillUnreachable
    <2> DEFINE to == ResolveSystem(G, NextTo)
    <2>1. /\ pc = "routing" /\ to # Unresolved
          /\ CheapestRoutes(ContextTo(to), From, to) = {}
          /\ Fill([to |-> NextTo, error |-> "unreachable"])
        BY <1>10 DEF FillUnreachable
    <2>2. OutOfReach(EndsOf(NextTo), NextTo, clock)
        <3> HIDE DEF to
        <3> QED BY <2>1, UnreachableIsOutOfReach DEF to
    <2>3. PICK error \in {"unknown_system", "unreachable"} :
              /\ [to |-> NextTo, error |-> error] \in SlotFailure
              /\ Fill([to |-> NextTo, error |-> error])
        BY <1>10, FailuresAreSlots
    <2>4. [to |-> NextTo, error |-> "unreachable"] \in SlotFailure
        BY <2>3 DEF SlotFailure
    <2> QED BY <1>4, <2>1, <2>2, <2>4
<1>11. CASE FillRoute
    <2> DEFINE to == ResolveSystem(G, NextTo)
    <2>1. PICK path \in CheapestRoutes(ContextTo(to), From, to) :
              /\ to # Unresolved
              /\ Fill([to    |-> NextTo,
                       jumps |-> Len(path) - 1,
                       path  |-> BuildSteps(G, ContextTo(to), path)])
        BY <1>11 DEF FillRoute
    <2>2. pc = "routing"
        BY <1>11 DEF FillRoute
    <2> DEFINE slot  == [to |-> NextTo, jumps |-> Len(path) - 1,
                         path  |-> BuildSteps(G, ContextTo(to), path)]
    <2>3. slot \in SlotRoute
        <3> HIDE DEF to
        <3> QED BY <2>1, <2>2, SlotIsAllowed DEF to
    <2>4. slot.to = NextTo
        OBVIOUS
    <2>5. Fill(slot)
        BY <2>1
    <2> HIDE DEF slot
    <2>6. slot \notin SlotFailure
        BY <2>3 DEF SlotFailure, SlotRoute
    <2> QED BY <1>4, <2>3, <2>4, <2>5, <2>6
<1>12. CASE JumpNext /\ UNCHANGED gateVars
    <2>1. clock' = clock /\ clock \in Nat
        BY <1>12, JumpSteps DEF Refuses, Proceeds, liveVars, LiveInv
    <2>2. clock <= clock' /\ clock' \in Nat
        BY <2>1
    <2> QED BY <1>2, <1>12, <2>2, JumpSteps DEF Refuses, Proceeds, gateVars
<1>13. CASE UNCHANGED vars
    <2>1. clock' = clock /\ clock \in Nat
        BY <1>13 DEF vars, liveVars, LiveInv
    <2>2. clock <= clock' /\ clock' \in Nat
        BY <2>1
    <2> QED BY <1>2, <1>13, <2>2 DEF vars, handlerVars, gateVars
<1> QED BY <1>5, <1>6, <1>7, <1>8, <1>9, <1>10, <1>11, <1>12, <1>13 DEF Next, GateNext

(***************************************************************************)
(* A slot reports a failure only when it has to, for any map, signatures   *)
(* and body, and however late one asks.                                    *)
(***************************************************************************)
THEOREM GateFailuresAreReal == Spec => []FailuresAreReal
<1>1. Init => FailuresInv
    BY DEF Init, GateInit, FailuresInv
<1>2. GateSafe /\ FailuresInv /\ [Next]_vars => FailuresInv'
    BY FailuresStep DEF GateSafe
<1>3. GateSafe /\ FailuresInv => FailuresAreReal
    <2> SUFFICES ASSUME GateSafe, FailuresInv, NEW i \in DOMAIN results, Filled(i, "error")
                 PROVE  LET to     == req.to[i]
                            within == WithinJumps(EndsOf(to), clock)
                        IN  CASE results[i].error = "unknown_system" -> Named(to) = {}
                              [] results[i].error = "unreachable" ->
                                    within[Cardinality(DOMAIN within) - 1] \cap Named(to) = {}
        BY DEF FailuresAreReal
    <2> DEFINE to     == req.to[i]
               within == WithinJumps(EndsOf(to), clock)
    <2>1. results[i] \in SlotFailure
        <3>1. results[i] \in SlotFailure \cup SlotRoute /\ "error" \in DOMAIN results[i]
            BY DEF GateSafe, GateInv, Filled
        <3> QED BY <3>1 DEF SlotFailure, SlotRoute
    <2>2. SlotFailed(i)
        BY DEF FailuresInv
    <2>3. CASE results[i].error = "unknown_system"
        BY <2>1, <2>2, <2>3 DEF SlotFailed
    <2>4. CASE results[i].error = "unreachable"
        <3>1. PICK s \in 0..clock : OutOfReach(EndsOf(to), to, s)
            BY <2>1, <2>2, <2>4 DEF SlotFailed
        <3>2. clock \in Nat /\ s <= clock /\ view \in Builds
            BY DEF GateSafe, LiveInv, HandlerInv
        <3>3. \A k \in DOMAIN within : within[k] \cap Named(to) = {}
            <4>1. \A k \in Nat : \A id \in Named(to) : ~Reaches(EndsOf(to), clock, k, id)
                BY <3>1, <3>2 DEF OutOfReach
            <4>2. \A k \in DOMAIN within : \A id \in within[k] :
                      k \in Nat /\ Reaches(EndsOf(to), clock, k, id)
                BY <3>2, WithinIsReaches
            <4> QED BY <4>1, <4>2
        <3>4. Cardinality(DOMAIN within) - 1 \in DOMAIN within
            <4> DEFINE m == Cardinality(AllIds)
            <4>1. m \in Nat /\ DOMAIN within = 0..m /\ Cardinality(DOMAIN within) - 1 = m
                BY <3>2, WithinIsReached
            <4> HIDE DEF m, within
            <4> QED BY <4>1
        <3> HIDE DEF to, within
        <3>5. within[Cardinality(DOMAIN within) - 1] \cap Named(to) = {}
            BY <3>3, <3>4
        <3> QED BY <2>4, <3>5 DEF to, within
    <2>5. results[i].error \in {"unknown_system", "unreachable"}
        BY <2>1 DEF SlotFailure
    <2> QED BY <2>3, <2>4, <2>5
<1> QED BY <1>1, <1>2, <1>3, GateIsSafe, PTL DEF Spec

----------------------------------------------------------------------------
(* Jump routes: the range.                                                 *)

(***************************************************************************)
(* A request with a range: a ship, or none for staging, and a level.       *)
(***************************************************************************)
HasLevel == /\ view \in Builds /\ req.ship \in Ref \cup {NoShip}
            /\ req.jdc_level \in Int /\ JdcValid

LEMMA HullsOfView ==
    ASSUME view \in Builds
    PROVE  /\ Raw.hulls.hulls \in Seq(HullRow) /\ HullRows = ToSet(Raw.hulls.hulls)
           /\ G.hulls = FromRaw(Raw.hulls)
           /\ \A h \in HullRows : h \in HullRow
           /\ G.hulls.bonus_per_level \in Nat
<1>1. IsParsed(Raw) /\ G = BuildGraph(Raw, view)
    BY ViewFacts
<1>2. /\ Raw.hulls.hulls \in Seq(HullRow)
      /\ Raw.hulls.jdc_bonus_per_level \in Nat \cup {NoBonus}
    BY <1>1 DEF IsParsed
<1>3. HullRows = ToSet(Raw.hulls.hulls)
    BY DEF HullRows, Raw
<1>4. G.hulls = FromRaw(Raw.hulls)
    BY <1>1 DEF BuildGraph
<1>5. \A h \in HullRows : h \in HullRow
    BY <1>2, <1>3 DEF ToSet
<1>6. G.hulls.bonus_per_level \in Nat
    BY <1>2, <1>4 DEF FromRaw
<1> QED BY <1>2, <1>3, <1>4, <1>5, <1>6

(***************************************************************************)
(* The range of a request is that of the row its ship resolves to, or that *)
(* of the Black Ops row with the least, but for rounding.                  *)
(***************************************************************************)
LEMMA RangeIsRows ==
    ASSUME view \in Builds, req.jdc_level \in Int, JdcValid
    PROVE  LET k == 100 + G.hulls.bonus_per_level * req.jdc_level
           IN  /\ k \in Nat
               /\ BaseLy \in Nat => EffectiveRange \in Nat
                                    /\ EffectiveRange \in Around(BaseLy * k)
               /\ \A h \in HullRows : /\ RangeOf(h) = h.base_ly * k
                                      /\ h.base_ly \in Nat /\ RangeOf(h) \in Nat
<1> DEFINE bonus == G.hulls.bonus_per_level
           k     == 100 + bonus * req.jdc_level
<1>1. bonus \in Nat /\ req.jdc_level \in Nat
    BY HullsOfView DEF JdcValid
<1>2. bonus = IF Sde[view].hulls.jdc_bonus_per_level = NoBonus THEN 0
              ELSE Sde[view].hulls.jdc_bonus_per_level
    <2>1. \A raw : FromRaw(raw).bonus_per_level =
                      IF raw.jdc_bonus_per_level = NoBonus
                      THEN 0 ELSE raw.jdc_bonus_per_level
        BY DEF FromRaw
    <2>2. Raw.hulls = Sde[view].hulls
        BY DEF Raw
    <2> QED BY <2>1, <2>2, HullsOfView
<1>3. \A h : RangeOf(h) = h.base_ly * k
    BY <1>2 DEF RangeOf
<1>4. ASSUME BaseLy \in Nat
      PROVE  EffectiveRange \in Nat /\ EffectiveRange \in Around(BaseLy * k)
    <2>1. EffectiveRange = EffectiveLy(BaseLy, bonus, req.jdc_level)
        BY DEF EffectiveRange
    <2> HIDE DEF bonus
    <2> QED BY <1>1, <1>4, <2>1, EffectiveFacts DEF Around
<1> HIDE DEF bonus
<1>5. k \in Nat
    <2>1. \A x \in Nat, y \in Nat : 100 + x * y \in Nat
        OBVIOUS
    <2> QED BY <1>1, <2>1
<1> HIDE DEF k
<1>6. ASSUME NEW h \in HullRows PROVE h.base_ly \in Nat /\ RangeOf(h) \in Nat
    <2>1. h.base_ly \in Nat
        BY HullsOfView DEF HullRow
    <2>2. \A x \in Nat, y \in Nat : x * y \in Nat
        OBVIOUS
    <2> QED BY <1>3, <1>5, <2>1, <2>2
<1> QED BY <1>3, <1>4, <1>5, <1>6 DEF k, bonus

LEMMA RangeFacts ==
    ASSUME HasLevel
    PROVE  /\ HullKnown => EffectiveRange \in Nat /\ EffectiveRange \in RangesMeant
           /\ HullKnown /\ req.ship = NoShip =>
                 /\ \E h \in BlackOps : EffectiveRange \in Around(RangeOf(h))
                 /\ \A h \in BlackOps : EffectiveRange <= RangeOf(h) + 1
           /\ HullKnown /\ req.ship # NoShip =>
                 LET h == ResolveHull(G.hulls, req.ship)
                 IN  /\ h \in HullRow /\ h \in HullsNamed(req.ship)
                     /\ EffectiveRange \in Around(RangeOf(h))
           /\ HullKnown <=> ~NoSuchHull
<1> DEFINE k    == 100 + G.hulls.bonus_per_level * req.jdc_level
           mins == G.hulls.min_base_ly_by_group
<1>1. /\ k \in Nat
      /\ BaseLy \in Nat => EffectiveRange \in Nat /\ EffectiveRange \in Around(BaseLy * k)
      /\ \A h \in HullRows : /\ RangeOf(h) = h.base_ly * k
                             /\ h.base_ly \in Nat /\ RangeOf(h) \in Nat
    BY RangeIsRows DEF HasLevel
<1>2. /\ Raw.hulls.hulls \in Seq(HullRow) /\ HullRows = ToSet(Raw.hulls.hulls)
      /\ G.hulls = FromRaw(Raw.hulls)
    BY HullsOfView DEF HasLevel
<1> HIDE DEF k
<1>3. CASE req.ship = NoShip
    <2>1. /\ BLOPS_GROUP_ID \in DOMAIN mins <=> BlackOps # {}
          /\ BLOPS_GROUP_ID \in DOMAIN mins =>
                /\ \E h \in BlackOps : h.base_ly = mins[BLOPS_GROUP_ID]
                /\ \A h \in BlackOps : mins[BLOPS_GROUP_ID] <= h.base_ly
        BY <1>2, GroupMinimum DEF BlackOps
    <2>2. HullKnown <=> BlackOps # {}
        BY <1>3, <2>1 DEF HullKnown
    <2>3. ASSUME HullKnown
          PROVE  /\ EffectiveRange \in Nat /\ EffectiveRange \in RangesMeant
                 /\ \E h \in BlackOps : EffectiveRange \in Around(RangeOf(h))
                 /\ \A h \in BlackOps : EffectiveRange <= RangeOf(h) + 1
        <3>1. BaseLy = mins[BLOPS_GROUP_ID]
            BY <1>3 DEF BaseLy
        <3>2. PICK h \in BlackOps : h.base_ly = BaseLy
            BY <2>1, <2>2, <2>3, <3>1
        <3>3. BlackOps \subseteq HullRows
            BY DEF BlackOps
        <3>4. /\ BaseLy \in Nat /\ RangeOf(h) = BaseLy * k /\ RangeOf(h) \in Nat
              /\ EffectiveRange \in Nat /\ EffectiveRange \in Around(RangeOf(h))
            BY <1>1, <3>2, <3>3
        <3>5. ASSUME NEW x \in BlackOps PROVE RangeOf(h) <= RangeOf(x) /\ RangeOf(x) \in Nat
            <4>1. BaseLy <= x.base_ly /\ x.base_ly \in Nat
                BY <1>1, <2>1, <2>2, <2>3, <3>1, <3>3
            <4>2. \A a \in Nat, b \in Nat, c \in Nat : a <= b => a * c <= b * c
                OBVIOUS
            <4> QED BY <1>1, <3>3, <3>4, <4>1, <4>2
        <3>6. RangeOf(h) = Min({RangeOf(x) : x \in BlackOps})
            <4> DEFINE T == {RangeOf(x) : x \in BlackOps}
                       ofH == RangeOf(h)
            <4>1. T \subseteq Nat /\ T # {}
                BY <3>2, <3>5
            <4>2. ofH \in T /\ \A y \in T : ofH <= y
                BY <3>5
            <4> HIDE DEF T, ofH
            <4>3. Min(T) \in T /\ \A y \in T : Min(T) <= y
                BY <4>1, LeastIsMin
            <4> DEFINE m == Min(T)
            <4>4. m \in Nat /\ ofH \in Nat /\ m <= ofH /\ ofH <= m
                BY <4>1, <4>2, <4>3
            <4> HIDE DEF m
            <4>5. ofH = m
                BY <4>4
            <4> QED BY <4>5 DEF T, ofH, m
        <3>7. EffectiveRange <= RangeOf(h) + 1
            BY <3>4 DEF Around
        <3>8. ASSUME NEW x \in BlackOps PROVE EffectiveRange <= RangeOf(x) + 1
            BY <3>4, <3>5, <3>7
        <3> QED BY <1>3, <3>4, <3>6, <3>8 DEF RangesMeant
    <2> QED BY <1>3, <2>2, <2>3 DEF NoSuchHull
<1>4. CASE req.ship # NoShip
    <2> DEFINE h == ResolveHull(G.hulls, req.ship)
    <2>1. /\ h # NoHull => h \in HullRows /\ h \in HullRow /\ MeansHull(req.ship, h)
          /\ h = NoHull => \A x \in HullRows : ~MeansHull(req.ship, x)
        BY <1>2, HullFinds
    <2>2. HullsNamed(req.ship) = {x \in HullRows : MeansHull(req.ship, x)}
        BY DEF HullsNamed, MeansHull
    <2>3. HullKnown <=> h # NoHull
        BY <1>4 DEF HullKnown
    <2>4. BaseLy = h.base_ly
        BY <1>4 DEF BaseLy
    <2> HIDE DEF h
    <2>5. ASSUME HullKnown
          PROVE  /\ h \in HullRow /\ h \in HullsNamed(req.ship)
                 /\ EffectiveRange \in Around(RangeOf(h))
                 /\ EffectiveRange \in Nat /\ EffectiveRange \in RangesMeant
        <3>1. h \in HullRow /\ h \in HullsNamed(req.ship) /\ h \in HullRows
            BY <2>1, <2>2, <2>3, <2>5
        <3>2. EffectiveRange \in Around(RangeOf(h)) /\ EffectiveRange \in Nat
            BY <1>1, <2>4, <3>1
        <3>3. EffectiveRange \in RangesMeant
            BY <1>4, <3>1, <3>2 DEF RangesMeant
        <3> QED BY <3>1, <3>2, <3>3
    <2>6. HullKnown <=> HullsNamed(req.ship) # {}
        BY <2>1, <2>2, <2>3
    <2> QED BY <1>4, <2>5, <2>6 DEF h, NoSuchHull
<1> QED BY <1>3, <1>4

(***************************************************************************)
(* What a reference leads to, as a node and as a system.                   *)
(***************************************************************************)
LEMMA ResolvedFacts ==
    ASSUME view \in Builds, NEW ref, NEW n, n = ResolveSystem(G, ref), n # Unresolved
    PROVE  /\ n \in 0..Size - 1 /\ Named(ref) = {IdOf(n)}
           /\ SystemAt(G, n) \in SystemsOf /\ SystemAt(G, n) \in SystemRow
           /\ (CHOOSE s \in SystemsOf : s.id \in Named(ref)) = SystemAt(G, n)
           /\ (CHOOSE s \in SystemsOf : s.id = IdOf(n)) = SystemAt(G, n)
           /\ SystemsNamed(ref) = {SystemAt(G, n)}
<1>1. n \in 0..Size - 1 /\ Named(ref) = {IdOf(n)}
    BY NamedFacts
<1>2. /\ \A m \in 0..Size - 1 : /\ SystemAt(G, m) \in SystemsOf
                                /\ SystemAt(G, m) \in SystemRow
                                /\ NodeOf(G, IdOf(m)) = m
      /\ \A s \in SystemsOf : \E m \in 0..Size - 1 : s = SystemAt(G, m)
    BY NodeFacts
<1>3. ASSUME NEW s \in SystemsOf, s.id = IdOf(n) PROVE s = SystemAt(G, n)
    <2>1. PICK m \in 0..Size - 1 : s = SystemAt(G, m)
        BY <1>2
    <2>2. IdOf(m) = IdOf(n)
        BY <1>3, <2>1 DEF IdOf
    <2>3. m = n
        BY <1>1, <1>2, <2>2
    <2> QED BY <2>1, <2>3
<1>4. SystemAt(G, n).id = IdOf(n)
    BY DEF IdOf
<1>5. SystemsNamed(ref) = {SystemAt(G, n)}
    BY <1>1, <1>2, <1>3, <1>4 DEF SystemsNamed
<1> QED BY <1>1, <1>2, <1>3, <1>4, <1>5

LEMMA SystemOfNode ==
    ASSUME view \in Builds, NEW n \in 0..Size - 1
    PROVE  /\ (CHOOSE s \in SystemsOf : s.id = IdOf(n)) = SystemAt(G, n)
           /\ \A m \in 0..Size - 1 : SystemAt(G, m) = SystemAt(G, n) => m = n
           /\ \A m \in 0..Size - 1 : IdOf(m) = IdOf(n) => m = n
<1>1. /\ NodeOf(G, IdOf(n)) = n /\ \A m \in 0..Size - 1 : NodeOf(G, IdOf(m)) = m
      /\ SystemAt(G, n) \in SystemsOf
      /\ \A s \in SystemsOf : \E m \in 0..Size - 1 : s = SystemAt(G, m)
    BY NodeFacts
<1>2. \A m \in 0..Size - 1 : IdOf(m) = IdOf(n) => m = n
    BY <1>1
<1>3. \A s \in SystemsOf : s.id = IdOf(n) => s = SystemAt(G, n)
    BY <1>1, <1>2 DEF IdOf
<1> QED BY <1>1, <1>2, <1>3 DEF IdOf

(***************************************************************************)
(* Distances are those of the systems.                                     *)
(***************************************************************************)
LEMMA DistanceFacts ==
    ASSUME view \in Builds, NEW n \in 0..Size - 1, NEW c \in 0..Size - 1
    PROVE  /\ Distance2(G, n, c) \in Nat
           /\ Distance2(G, n, c) = Apart2(SystemAt(G, n), SystemAt(G, c))
           /\ Distance2(G, n, c) = Apart2(SystemAt(G, c), SystemAt(G, n))
<1>1. SystemAt(G, n) \in SystemRow /\ SystemAt(G, c) \in SystemRow
    BY NodeFacts
<1>2. \A s, t : Apart2(s, t) = Square(s, t)
    BY DEF Apart2, Square
<1> QED BY <1>1, <1>2, DistanceIsSquare, SquareFacts

(***************************************************************************)
(* A radius query gives systems in K-space that are in range, and all that *)
(* are well in range.                                                      *)
(***************************************************************************)
LEMMA HitsAreNodes ==
    ASSUME view \in Builds, NEW r \in Nat, NEW c \in 0..Size - 1,
           NEW hits \in Hits(G, c, r)
    PROVE  /\ \A n \in hits : /\ n \in 0..Size - 1 /\ SystemAt(G, n).sec # "wormhole"
                              /\ ~Outside(Distance2(G, n, c), r)
           /\ \A n \in 0..Size - 1 :
                 SystemAt(G, n).sec # "wormhole" /\ Inside(Distance2(G, n, c), r) =>
                     n \in hits
<1>1. \A n : n \in G.spatial_index <=>
                 n \in 0..Size - 1 /\ SystemAt(G, n).sec # "wormhole"
    BY ViewFacts, IndexIsKSpace DEF Size
<1>2. \A n \in G.spatial_index : Distance2(G, n, c) \in Nat
    BY <1>1, DistanceFacts
<1>3. /\ \A n \in hits : n \in G.spatial_index /\ ~Outside(Distance2(G, n, c), r)
      /\ \A n \in G.spatial_index : Inside(Distance2(G, n, c), r) => n \in hits
    BY <1>2, HitsAreInRange
<1> QED BY <1>1, <1>3

----------------------------------------------------------------------------
(* Jump routes: staging.                                                   *)

(***************************************************************************)
(* A staging request past the checks of its ends.                          *)
(***************************************************************************)
HasEnds == /\ HasLevel /\ HullKnown /\ req.route = "blops" /\ RequestOK(req)
           /\ IsSnapshot(viewScout) /\ clock \in Nat /\ began \in 0..clock
           /\ From # Unresolved /\ To # Unresolved

LEMMA EndsAreKnown ==
    ASSUME LiveInv, HandlerInv, EndsKnown
    PROVE  HasEnds
<1>1. pc = "checking" /\ req.route = "blops" /\ JdcValid /\ HullKnown
    BY DEF EndsKnown, Staging
<1>2. view \in Builds /\ IsSnapshot(viewScout) /\ RequestOK(req) /\ clock \in Nat
      /\ began \in 0..clock
    BY <1>1 DEF LiveInv, HandlerInv, NoFailure
<1>3. req.ship \in Ref \cup {NoShip} /\ req.jdc_level \in Int
    BY <1>1, <1>2 DEF RequestOK
<1>4. From # Unresolved /\ To # Unresolved
    <2>1. AllResolve(G, <<req.from, req.to>>)
        BY DEF EndsKnown
    <2>2. /\ ResolveSystem(G, <<req.from, req.to>>[1]) # Unresolved
          /\ ResolveSystem(G, <<req.from, req.to>>[2]) # Unresolved
        BY <2>1 DEF AllResolve
    <2> QED BY <2>2 DEF From, To
<1> QED BY <1>1, <1>2, <1>3, <1>4 DEF HasEnds, HasLevel

LEMMA EndsFacts ==
    ASSUME HasEnds
    PROVE  /\ view \in Builds /\ EffectiveRange \in Nat /\ EffectiveRange \in RangesMeant
           /\ From \in 0..Size - 1 /\ To \in 0..Size - 1
           /\ Named(req.from) = {IdOf(From)} /\ Named(req.to) = {IdOf(To)}
           /\ Ends = IdsOf({From, To})
           /\ (CHOOSE s \in SystemsOf : s.id \in Named(req.to)) = SystemAt(G, To)
           /\ SystemsNamed(req.to) = {SystemAt(G, To)}
<1>1. view \in Builds /\ EffectiveRange \in Nat /\ EffectiveRange \in RangesMeant
    BY RangeFacts DEF HasEnds, HasLevel
<1>2. From \in 0..Size - 1 /\ Named(req.from) = {IdOf(From)}
    BY <1>1, ResolvedFacts DEF HasEnds, From
<1>3. /\ To \in 0..Size - 1 /\ Named(req.to) = {IdOf(To)}
      /\ (CHOOSE s \in SystemsOf : s.id \in Named(req.to)) = SystemAt(G, To)
      /\ SystemsNamed(req.to) = {SystemAt(G, To)}
    BY <1>1, ResolvedFacts DEF HasEnds, To
<1>4. Ends = IdsOf({From, To})
    BY <1>2, <1>3 DEF Ends, IdsOf
<1> QED BY <1>1, <1>2, <1>3, <1>4

(***************************************************************************)
(* The systems that may be a stage and those that must be looked at, and   *)
(* those the fleet may stop in.                                            *)
(***************************************************************************)
MayBridge(n) ==
    /\ n \in 0..Size - 1 /\ n # To /\ SystemAt(G, n).sec # "wormhole"
    /\ ~Outside(Distance2(G, n, To), EffectiveRange)

MustBridge(n) ==
    /\ n \in 0..Size - 1 /\ n # To /\ SystemAt(G, n).sec # "wormhole"
    /\ Inside(Distance2(G, n, To), EffectiveRange)

Open(n) == IdOf(n) \in Named(req.from) \/ ~Barred(IdOf(n))

LEMMA StagesAreNodes ==
    ASSUME HasEnds, NEW n \in 0..Size - 1
    PROVE  LET b == SystemAt(G, To)
           IN  /\ MayBridge(n) <=> SystemAt(G, n) \in Stageable(InRange(b, EffectiveRange))
               /\ MustBridge(n) <=>
                     SystemAt(G, n) \in Stageable(WellInRange(b, EffectiveRange))
<1> DEFINE b == SystemAt(G, To)
           r == EffectiveRange
           s == SystemAt(G, n)
<1>1. /\ view \in Builds /\ To \in 0..Size - 1 /\ Named(req.to) = {IdOf(To)}
    BY EndsFacts
<1>2. s \in SystemsOf /\ (s.id \in Named(req.to) <=> n = To)
    BY <1>1, NodeFacts, SystemOfNode DEF IdOf
<1>3. Distance2(G, n, To) = Apart2(b, s)
    BY <1>1, DistanceFacts
<1> HIDE DEF b, r, s
<1>4. /\ s \in Stageable(InRange(b, r)) <=> /\ s \in SystemsOf /\ ~Outside(Apart2(b, s), r)
                                            /\ s.sec # "wormhole" /\ s.id \notin Named(req.to)
      /\ s \in Stageable(WellInRange(b, r)) <=> /\ s \in SystemsOf /\ Inside(Apart2(b, s), r)
                                                /\ s.sec # "wormhole"
                                                /\ s.id \notin Named(req.to)
    BY DEF Stageable, InRange, WellInRange
<1> QED BY <1>2, <1>3, <1>4 DEF MayBridge, MustBridge, b, r, s

LEMMA CandidatesAreStages ==
    ASSUME HasEnds, NEW hits \in Hits(G, To, EffectiveRange)
    PROVE  /\ \A n \in Candidates(hits) : n \in 0..Size - 1 /\ MayBridge(n)
           /\ \A n : MustBridge(n) => n \in Candidates(hits)
<1>1. /\ view \in Builds /\ EffectiveRange \in Nat /\ To \in 0..Size - 1
    BY EndsFacts
<1>2. Candidates(hits) = hits \ {To}
    BY DEF Candidates, StageOk
<1> DEFINE r == EffectiveRange
<1> HIDE DEF r
<1>3. /\ \A n \in hits : /\ n \in 0..Size - 1 /\ SystemAt(G, n).sec # "wormhole"
                         /\ ~Outside(Distance2(G, n, To), r)
      /\ \A n \in 0..Size - 1 :
             SystemAt(G, n).sec # "wormhole" /\ Inside(Distance2(G, n, To), r) => n \in hits
    BY <1>1, HitsAreNodes DEF r
<1> QED BY <1>2, <1>3 DEF MayBridge, MustBridge, r

(***************************************************************************)
(* The recursive function of Settled exists, and each of its results gives *)
(* every candidate that has a route one of its cheapest.                   *)
(***************************************************************************)
Picked(ctx, candidates, before, n) ==
    LET routes == CheapestRoutes(ctx, From, n)
    IN  IF n \notin candidates \/ routes = {} THEN before
        ELSE {[m \in DOMAIN f \cup {n} |-> IF m = n THEN p ELSE f[m]] :
                 f \in before, p \in routes}

IsPicks(ctx, candidates, n, f) ==
    f = [i \in 0..n |-> IF i = 0 THEN {<< >>} ELSE Picked(ctx, candidates, f[i - 1], i - 1)]

LEMMA PicksExist ==
    ASSUME NEW ctx, NEW candidates, NEW m \in Nat
    PROVE  \E f : IsPicks(ctx, candidates, m, f)
<1> DEFINE S == {n \in Nat : \E f : IsPicks(ctx, candidates, n, f)}
<1>1. 0 \in S
    <2>1. IsPicks(ctx, candidates, 0, [i \in 0..0 |-> {<< >>}])
        BY DEF IsPicks
    <2> QED BY <2>1
<1>2. ASSUME NEW n \in Nat, n \in S PROVE n + 1 \in S
    <2>1. PICK f : IsPicks(ctx, candidates, n, f)
        BY <1>2
    <2> DEFINE last == Picked(ctx, candidates, f[n], n)
               g == [i \in 0..n + 1 |-> IF i = n + 1 THEN last ELSE f[i]]
    <2>2. ASSUME NEW i \in 0..n + 1
          PROVE  g[i] = IF i = 0 THEN {<< >>}
                        ELSE Picked(ctx, candidates, g[i - 1], i - 1)
        <3> HIDE DEF last
        <3>1. CASE i = n + 1
            <4>1. g[i] = last /\ g[i - 1] = f[n] /\ i # 0 /\ i - 1 = n
                BY <3>1
            <4> QED BY <4>1 DEF last
        <3>2. CASE i # n + 1
            <4>1. i \in 0..n /\ g[i] = f[i] /\ (i # 0 => g[i - 1] = f[i - 1])
                BY <3>2
            <4>2. f[i] = IF i = 0 THEN {<< >>}
                         ELSE Picked(ctx, candidates, f[i - 1], i - 1)
                BY <2>1, <4>1 DEF IsPicks
            <4> QED BY <4>1, <4>2
        <3> QED BY <3>1, <3>2
    <2>3. IsPicks(ctx, candidates, n + 1, g)
        <3> HIDE DEF last
        <3> QED BY <2>2 DEF IsPicks
    <2> HIDE DEF g
    <2> QED BY <2>3
<1> HIDE DEF S
<1>3. m \in S
    BY <1>1, <1>2, SetInduction
<1> QED BY <1>3 DEF S

\* The picks after the first nodes.
IsPick(ctx, candidates, n, f) ==
    /\ DOMAIN f = {m \in candidates : m < n /\ CheapestRoutes(ctx, From, m) # {}}
    /\ \A m \in DOMAIN f : f[m] \in CheapestRoutes(ctx, From, m)

LEMMA SettledFacts ==
    ASSUME view \in Builds, NEW ctx, NEW candidates \in SUBSET (0..Size - 1),
           NEW settled \in Settled(ctx, candidates)
    PROVE  /\ DOMAIN settled = {m \in candidates : CheapestRoutes(ctx, From, m) # {}}
           /\ \A m \in DOMAIN settled : settled[m] \in CheapestRoutes(ctx, From, m)
<1> DEFINE picks == CHOOSE f : IsPicks(ctx, candidates, Size, f)
           S == {n \in Nat : n <= Size =>
                    \A f \in picks[n] : IsPick(ctx, candidates, n, f)}
<1>1. Size \in Nat
    BY NodeFacts
<1>2. IsPicks(ctx, candidates, Size, picks)
    BY <1>1, PicksExist
<1>3. Len(G.systems) = Size
    BY ViewFacts DEF BuildGraph, Size
<1>4. Settled(ctx, candidates) = picks[Size]
    BY <1>3 DEF Settled, IsPicks, Picked
<1> HIDE DEF picks
<1>5. /\ picks[0] = {<< >>}
      /\ \A i \in 1..Size : picks[i] = Picked(ctx, candidates, picks[i - 1], i - 1)
    <2>1. \A i \in 0..Size : picks[i] =
              IF i = 0 THEN {<< >>} ELSE Picked(ctx, candidates, picks[i - 1], i - 1)
        BY <1>2 DEF IsPicks
    <2>2. 0 \in 0..Size /\ \A i \in 1..Size : i \in 0..Size /\ i # 0
        BY <1>1
    <2> QED BY <2>1, <2>2
<1>6. candidates \subseteq Nat /\ \A m \in candidates : m < Size
    BY <1>1
<1>7. 0 \in S
    <2>1. DOMAIN << >> = {}
        OBVIOUS
    <2>2. {m \in candidates : m < 0 /\ CheapestRoutes(ctx, From, m) # {}} = {}
        <3>1. \A m \in candidates : ~(m < 0)
            BY <1>6
        <3> QED BY <3>1
    <2> QED BY <1>5, <2>1, <2>2 DEF IsPick
<1>8. ASSUME NEW n \in Nat, n \in S PROVE n + 1 \in S
    <2> SUFFICES ASSUME n + 1 <= Size, NEW g \in picks[n + 1]
                 PROVE  IsPick(ctx, candidates, n + 1, g)
        OBVIOUS
    <2> DEFINE routes == CheapestRoutes(ctx, From, n)
    <2>1. \A f \in picks[n] : IsPick(ctx, candidates, n, f)
        BY <1>1, <1>8
    <2>2. picks[n + 1] = Picked(ctx, candidates, picks[n], n)
        <3>1. n + 1 \in 1..Size /\ (n + 1) - 1 = n
            BY <1>1
        <3> QED BY <1>5, <3>1
    <2>3. \A m \in candidates : m < n + 1 <=> m < n \/ m = n
        BY <1>6
    <2>4. CASE n \notin candidates \/ routes = {}
        <3>1. g \in picks[n]
            BY <2>2, <2>4 DEF Picked
        <3>2. IsPick(ctx, candidates, n, g)
            BY <2>1, <3>1
        <3> QED BY <2>3, <2>4, <3>2 DEF IsPick
    <2>5. CASE n \in candidates /\ routes # {}
        <3>1. PICK f \in picks[n], p \in routes :
                  g = [m \in DOMAIN f \cup {n} |-> IF m = n THEN p ELSE f[m]]
            BY <2>2, <2>5 DEF Picked
        <3>2. IsPick(ctx, candidates, n, f)
            BY <2>1
        <3>3. DOMAIN g = DOMAIN f \cup {n}
            BY <3>1
        <3>4. \A m \in DOMAIN g : (m = n /\ g[m] = p) \/ (m \in DOMAIN f /\ g[m] = f[m])
            BY <3>1
        <3>5. DOMAIN g = {m \in candidates : m < n + 1 /\ CheapestRoutes(ctx, From, m) # {}}
            BY <2>3, <2>5, <3>2, <3>3 DEF IsPick
        <3>6. \A m \in DOMAIN g : g[m] \in CheapestRoutes(ctx, From, m)
            BY <3>2, <3>4 DEF IsPick
        <3> QED BY <3>5, <3>6 DEF IsPick
    <2> QED BY <2>4, <2>5
<1>9. Size \in S
    <2> HIDE DEF S
    <2> QED BY <1>1, <1>7, <1>8, SetInduction
<1>10. IsPick(ctx, candidates, Size, settled)
    BY <1>1, <1>4, <1>9
<1> QED BY <1>6, <1>10 DEF IsPick

(***************************************************************************)
(* The ranking is a total order, so that Ranked is defined: by jumps, then *)
(* by distance.                                                            *)
(***************************************************************************)
Less(a, b) == \E i \in 1..4 : a[i] < b[i] /\ \A j \in 1..i - 1 : a[j] = b[j]

LEMMA LessIsLexical ==
    ASSUME NEW a, NEW b
    PROVE  Less(a, b) <=> \/ a[1] < b[1]
                          \/ a[1] = b[1] /\ a[2] < b[2]
                          \/ a[1] = b[1] /\ a[2] = b[2] /\ a[3] < b[3]
                          \/ a[1] = b[1] /\ a[2] = b[2] /\ a[3] = b[3] /\ a[4] < b[4]
<1>1. \A i : i \in 1..4 <=> i = 1 \/ i = 2 \/ i = 3 \/ i = 4
    OBVIOUS
<1>2. /\ \A j : j \in 1..1 - 1 <=> FALSE
      /\ \A j : j \in 1..2 - 1 <=> j = 1
      /\ \A j : j \in 1..3 - 1 <=> j = 1 \/ j = 2
      /\ \A j : j \in 1..4 - 1 <=> j = 1 \/ j = 2 \/ j = 3
    OBVIOUS
<1> DEFINE At(i) == a[i] < b[i] /\ \A j \in 1..i - 1 : a[j] = b[j]
<1>3. At(1) <=> a[1] < b[1]
    BY <1>2
<1>4. At(2) <=> a[1] = b[1] /\ a[2] < b[2]
    BY <1>2
<1>5. At(3) <=> a[1] = b[1] /\ a[2] = b[2] /\ a[3] < b[3]
    BY <1>2
<1>6. At(4) <=> a[1] = b[1] /\ a[2] = b[2] /\ a[3] = b[3] /\ a[4] < b[4]
    BY <1>2
<1>7. Less(a, b) <=> \E i \in 1..4 : At(i)
    BY DEF Less
<1> HIDE DEF At
<1>8. (\E i \in 1..4 : At(i)) <=> At(1) \/ At(2) \/ At(3) \/ At(4)
    BY <1>1
<1> QED BY <1>3, <1>4, <1>5, <1>6, <1>7, <1>8

RankKey(ctx, settled, n) ==
    <<Jumps(settled[n]), Distance2(G, n, To), Cost(ctx, settled[n]), n>>

NoWorse(settled, m, n) ==
    \/ Jumps(settled[m]) < Jumps(settled[n])
    \/ /\ Jumps(settled[m]) = Jumps(settled[n])
       /\ Distance2(G, m, To) <= Distance2(G, n, To)

IsSettled(settled) ==
    /\ DOMAIN settled \subseteq 0..Size - 1
    /\ \A n \in DOMAIN settled : Len(settled[n]) \in Nat \ {0}

LEMMA RankedFacts ==
    ASSUME HasEnds, NEW ctx, NEW settled, IsSettled(settled)
    PROVE  LET order == Ranked(ctx, settled)
           IN  /\ IsFiniteSet(DOMAIN settled)
               /\ order \in SetToSeqs(DOMAIN settled)
               /\ \A i, j \in DOMAIN order :
                     i < j => NoWorse(settled, order[i], order[j])
<1> DEFINE D == DOMAIN settled
           key(n) == RankKey(ctx, settled, n)
           R == {p \in D \X D : Less(key(p[1]), key(p[2]))}
<1>1. view \in Builds /\ To \in 0..Size - 1 /\ EffectiveRange \in Nat
    BY EndsFacts
<1>2. \A n \in 0..Size - 1 : Distance2(G, n, To) \in Nat
    BY <1>1, NodeFacts, DistanceIsSquare, SquareFacts
<1>3. IsFiniteSet(D)
    <2>1. IsFiniteSet(0..Size - 1)
        <3>1. 0 \in Int /\ Size - 1 \in Int
            BY <1>1, NodeFacts
        <3> QED BY <3>1, FS_Interval, SMTT(30)
    <2> QED BY <2>1, FS_Subset DEF IsSettled
<1>4. \A n \in D : /\ key(n)[1] = Jumps(settled[n]) /\ key(n)[2] = Distance2(G, n, To)
                   /\ key(n)[1] \in Nat /\ key(n)[2] \in Nat /\ key(n)[3] \in Nat
                   /\ key(n)[4] = n /\ n \in Nat
    <2> SUFFICES ASSUME NEW n \in D
                 PROVE  /\ key(n)[1] = Jumps(settled[n]) /\ key(n)[2] = Distance2(G, n, To)
                        /\ key(n)[1] \in Nat /\ key(n)[2] \in Nat /\ key(n)[3] \in Nat
                        /\ key(n)[4] = n /\ n \in Nat
        OBVIOUS
    <2>1. n \in 0..Size - 1 /\ Len(settled[n]) \in Nat \ {0}
        BY DEF IsSettled
    <2>2. Jumps(settled[n]) \in Nat
        BY <2>1 DEF Jumps
    <2>3. Cost(ctx, settled[n]) \in Nat
        BY <2>1, CostIsNat
    <2>4. /\ key(n)[1] = Jumps(settled[n]) /\ key(n)[2] = Distance2(G, n, To)
          /\ key(n)[3] = Cost(ctx, settled[n]) /\ key(n)[4] = n
        BY DEF RankKey
    <2> HIDE DEF key
    <2> QED BY <1>2, <2>1, <2>2, <2>3, <2>4
<1>5. \A m, n \in D : <<m, n>> \in R <=> Less(key(m), key(n))
    OBVIOUS
<1>6. Ranked(ctx, settled) = CHOOSE order \in SetToSeqs(D) :
          \A i, j \in DOMAIN order : i < j => Less(key(order[i]), key(order[j]))
    BY DEF Ranked, Less, RankKey
<1> HIDE DEF key, R
<1>7. IsOrder(D, R)
    <2>1. \A x \in D : <<x, x>> \notin R
        BY <1>4, <1>5, LessIsLexical
    <2>2. ASSUME NEW x \in D, NEW y \in D
          PROVE  x = y \/ <<x, y>> \in R \/ <<y, x>> \in R
        <3>1. x = y \/ Less(key(x), key(y)) \/ Less(key(y), key(x))
            <4> DEFINE a == key(x)
                       b == key(y)
            <4>1. /\ a[1] \in Nat /\ a[2] \in Nat /\ a[3] \in Nat
                  /\ b[1] \in Nat /\ b[2] \in Nat /\ b[3] \in Nat
                  /\ a[4] = x /\ b[4] = y /\ x \in Nat /\ y \in Nat
                BY <1>4
            <4> HIDE DEF a, b
            <4>2. x = y \/ Less(a, b) \/ Less(b, a)
                BY <4>1, LessIsLexical
            <4> QED BY <4>2 DEF a, b
        <3> QED BY <1>5, <3>1
    <2>3. ASSUME NEW x \in D, NEW y \in D, NEW z \in D, <<x, y>> \in R, <<y, z>> \in R
          PROVE  <<x, z>> \in R
        <3>1. Less(key(x), key(y)) /\ Less(key(y), key(z))
            BY <1>5, <2>3
        <3>2. Less(key(x), key(z))
            BY <1>4, <3>1, LessIsLexical
        <3> QED BY <1>5, <3>2
    <2> QED BY <2>1, <2>2, <2>3 DEF IsOrder
<1>8. PICK o \in SetToSeqs(D) : \A i, j \in DOMAIN o : i < j => <<o[i], o[j]>> \in R
    <2> HIDE DEF D
    <2> QED BY <1>3, <1>7, SortedExists
<1>9. \A q \in SetToSeqs(D) : \A i \in DOMAIN q : q[i] \in D
    BY DEF SetToSeqs
<1>10. \A i, j \in DOMAIN o : i < j => Less(key(o[i]), key(o[j]))
    BY <1>5, <1>8, <1>9
<1> DEFINE order == Ranked(ctx, settled)
<1>11. /\ order \in SetToSeqs(D)
       /\ \A i, j \in DOMAIN order : i < j => Less(key(order[i]), key(order[j]))
    BY <1>6, <1>8, <1>10
<1> HIDE DEF order
<1>12. ASSUME NEW i \in DOMAIN order, NEW j \in DOMAIN order, i < j
       PROVE  NoWorse(settled, order[i], order[j])
    <2>1. Less(key(order[i]), key(order[j])) /\ order[i] \in D /\ order[j] \in D
        BY <1>9, <1>11, <1>12
    <2> QED BY <1>4, <2>1, LessIsLexical DEF NoWorse
<1> QED BY <1>3, <1>11, <1>12 DEF order

----------------------------------------------------------------------------
(* Jump routes: staging answers.                                           *)

(***************************************************************************)
(* What a staging answer is made of.                                       *)
(***************************************************************************)
\* No stage within reach is missing among some, even by signatures that are
\* live at s or later; under shortest none is nearer than it says.
Complete(stages, jumps, s) ==
    \A t \in Nat : s <= t => \A k \in Nat : \A n :
        (MustBridge(n) \/ n \in stages) /\ Open(n) /\ Reaches(Ends, t, k, IdOf(n)) =>
            n \in stages /\ (req.preference = "shortest" => jumps[n] <= k)

\* The fleet gets to a stage in some jumps, by what was live when it asked.
Reached(n, k) ==
    /\ Open(n) /\ k \in Nat /\ k <= Cardinality(AllIds)
    /\ Reaches(Ends, began, k, IdOf(n))

\* The stages in the order of their ranking, with the jumps to each.
IsRanking(order, jumps) ==
    LET stages == DOMAIN jumps
    IN  /\ stages # {} /\ IsFiniteSet(stages) /\ order \in SetToSeqs(stages)
        /\ \A n \in stages : MayBridge(n) /\ jumps[n] \in Nat /\ Reached(n, jumps[n])
        /\ \A i, j \in DOMAIN order : i < j =>
              \/ jumps[order[i]] < jumps[order[j]]
              \/ /\ jumps[order[i]] = jumps[order[j]]
                 /\ Distance2(G, order[i], To) <= Distance2(G, order[j], To)

\* A gate leg to a stage.
IsLeg(path, n, jumps) ==
    /\ path \in Seq(RouteStep) /\ Len(path) = jumps + 1
    /\ path[1].system_id = IdOf(From) /\ path[Len(path)].system_id = IdOf(n)
    /\ AllSteps(path, Ends, began)

IsStaging(r, order, jumps) ==
    LET star == order[1]
    IN  /\ r.jdc_level = req.jdc_level /\ r.effective_ly = EffectiveRange
        /\ r.defaulted = (req.ship = NoShip)
        /\ Open(star) /\ IsLeg(r.chosen.gate_path, star, jumps[star])
        /\ r.chosen.gate_jumps = jumps[star]
        /\ r.chosen.bridge = [from     |-> SystemNamed(star),
                              to       |-> SystemNamed(To),
                              jump_ly  |-> Round2(Distance2(G, star, To)),
                              in_range |-> TRUE]
        /\ r.alternates =
              IF jumps[star] = 0 THEN << >>
              ELSE [i \in 1..Min({MAX_ALTERNATES, Len(order) - 1}) |->
                       [system     |-> SystemNamed(order[i + 1]),
                        gate_jumps |-> jumps[order[i + 1]],
                        ly_to_b    |-> Round2(Distance2(G, order[i + 1], To))]]

(***************************************************************************)
(* The context of the gate legs.                                           *)
(***************************************************************************)
LEMMA StagingContextFacts ==
    ASSUME HasEnds, AllResolve(G, OverlayRefs)
    PROVE  LET av == AssembleAvoidSet(G, req) \ {From}
           IN  /\ CanRoute /\ clock \in Nat /\ From \in Nodes
               /\ StagingContext = ContextFor(av, ResolveConnections(G, req), {From, To})
               /\ {From, To} \in SUBSET (0..Size - 1)
               /\ Spares(av)
               /\ \A n \in 0..Size - 1 : Covers(av, n)
               /\ \A n \in 0..Size - 1 : Open(n) <=> n \notin av
               /\ StagingContext.pref = req.preference
<1> DEFINE av == AssembleAvoidSet(G, req) \ {From}
<1>1. /\ view \in Builds /\ From \in 0..Size - 1 /\ To \in 0..Size - 1
      /\ Named(req.from) = {IdOf(From)}
    BY EndsFacts
<1>2. /\ req.from \in Ref /\ OverlayFieldsOK(req) /\ IsSnapshot(viewScout)
      /\ req.route = "blops" /\ clock \in Nat
    BY DEF HasEnds, RequestOK
<1>3. CanRoute
    BY <1>1, <1>2, HeaderRefs DEF CanRoute
<1>4. \A n \in 0..Size - 1 : n \in AssembleAvoidSet(G, req) <=> Barred(IdOf(n))
    BY <1>1, <1>2, AvoidIsBarred DEF OverlayFieldsOK
<1>5. Spares(av)
    BY <1>4 DEF Spares
<1>6. \A n \in 0..Size - 1 : Covers(av, n)
    BY <1>4 DEF Covers
<1>7. \A n \in 0..Size - 1 : IdOf(n) \in Named(req.from) <=> n = From
    BY <1>1, SystemOfNode
<1>8. \A n \in 0..Size - 1 : Open(n) <=> n \notin av
    BY <1>4, <1>7 DEF Open
<1>9. {From, To} \in SUBSET (0..Size - 1) /\ From \in Nodes
    BY <1>1, NodeFacts
<1> HIDE DEF av
<1>10. StagingContext = ContextFor(av, ResolveConnections(G, req), {From, To})
    BY DEF StagingContext, av
<1>11. StagingContext.pref = req.preference
    BY <1>3, <1>9, <1>10, ContextFacts
<1> QED BY <1>2, <1>3, <1>5, <1>6, <1>8, <1>9, <1>10, <1>11 DEF av

(***************************************************************************)
(* The settled set holds a cheapest route to each stage it has, and it has *)
(* every stage within reach.                                               *)
(***************************************************************************)
Ways(settled) == [n \in DOMAIN settled |-> Jumps(settled[n])]

LEMMA SettledStages ==
    ASSUME HasEnds, AllResolve(G, OverlayRefs), NEW hits \in Hits(G, To, EffectiveRange),
           NEW settled \in Settled(StagingContext, Candidates(hits))
    PROVE  /\ IsSettled(settled)
           /\ \A n \in DOMAIN settled :
                 /\ MayBridge(n) /\ n \in 0..Size - 1
                 /\ settled[n] \in CheapestRoutes(StagingContext, From, n)
           /\ Complete(DOMAIN settled, Ways(settled), clock)
<1> DEFINE c  == StagingContext
           av == AssembleAvoidSet(G, req) \ {From}
           D  == DOMAIN settled
<1>1. /\ view \in Builds /\ From \in 0..Size - 1 /\ Ends = IdsOf({From, To})
    BY EndsFacts
<1>2. /\ \A n \in Candidates(hits) : n \in 0..Size - 1 /\ MayBridge(n)
      /\ \A n : MustBridge(n) => n \in Candidates(hits)
    BY CandidatesAreStages
<1>3. /\ CanRoute /\ clock \in Nat /\ From \in Nodes
      /\ c = ContextFor(av, ResolveConnections(G, req), {From, To})
      /\ {From, To} \in SUBSET (0..Size - 1)
      /\ Spares(av)
      /\ \A n \in 0..Size - 1 : Open(n) <=> n \notin av
      /\ c.pref = req.preference
    BY StagingContextFacts
<1> HIDE DEF c, av
<1>4. /\ D = {m \in Candidates(hits) : CheapestRoutes(c, From, m) # {}}
      /\ \A m \in D : settled[m] \in CheapestRoutes(c, From, m)
    <2>1. Candidates(hits) \in SUBSET (0..Size - 1)
        BY <1>2
    <2> QED BY <1>1, <2>1, SettledFacts DEF c
<1>5. \A n \in D : n \in 0..Size - 1 /\ MayBridge(n)
    BY <1>2, <1>4
<1>6. \A n \in D : Len(settled[n]) \in Nat \ {0}
    BY <1>3, <1>4, CheapestAreRoutes
<1>7. ASSUME NEW t \in Nat, clock <= t, NEW k \in Nat, NEW n,
             MustBridge(n) \/ n \in D, Open(n), Reaches(Ends, t, k, IdOf(n))
      PROVE  n \in D /\ (req.preference = "shortest" => Ways(settled)[n] <= k)
    <2>1. n \in 0..Size - 1 /\ n \in Candidates(hits) /\ n \notin av
        BY <1>2, <1>3, <1>4, <1>7
    <2>2. /\ CheapestRoutes(c, From, n) # {}
          /\ \E q \in SimpleRoutes(c, From, n) : Len(q) <= k + 1
        BY <1>1, <1>3, <1>7, <2>1, ReachedAreFound
    <2>3. n \in D
        BY <1>4, <2>1, <2>2
    <2>4. ASSUME req.preference = "shortest" PROVE Ways(settled)[n] <= k
        <3>1. PICK q \in SimpleRoutes(c, From, n) : Len(q) <= k + 1
            BY <2>2
        <3>2. Cost(c, settled[n]) <= Cost(c, q)
            BY <1>3, <1>4, <2>3, <3>1, CheapestAreRoutes
        <3>3. Len(q) \in Nat \ {0}
            <4>1. Len(q) \in Nat /\ IsRoute(c, From, n, q)
                BY <1>3, SimpleRoutesAreRoutes
            <4>2. Len(q) > 0
                BY <4>1 DEF IsRoute
            <4> QED BY <4>1, <4>2
        <3>4. Cost(c, q) = Len(q) - 1 /\ Cost(c, settled[n]) = Len(settled[n]) - 1
            BY <1>3, <1>6, <2>3, <2>4, <3>3, ShortestCostsJumps DEF Jumps
        <3>5. Ways(settled)[n] = Len(settled[n]) - 1
            BY <2>3 DEF Ways, Jumps
        <3> QED BY <1>6, <2>3, <3>1, <3>2, <3>3, <3>4, <3>5
    <2> QED BY <2>3, <2>4
<1>8. Complete(D, Ways(settled), clock)
    <2> HIDE DEF D
    <2> QED BY <1>7 DEF Complete
<1> QED BY <1>4, <1>5, <1>6, <1>8 DEF IsSettled, c

(***************************************************************************)
(* The gate leg to a stage is a route that the request allows, so that its *)
(* end was within its jumps when the request came.                         *)
(***************************************************************************)
LEMMA LegFacts ==
    ASSUME HasEnds, AllResolve(G, OverlayRefs), NEW n \in 0..Size - 1,
           NEW path \in CheapestRoutes(StagingContext, From, n)
    PROVE  LET steps == BuildSteps(G, StagingContext, path)
           IN  /\ Open(n) /\ Len(path) \in Nat \ {0} /\ path \in Seq(0..Size - 1)
               /\ ~Repeats(path)
               /\ path[1] = From /\ path[Len(path)] = n
               /\ steps \in Seq(RouteStep) /\ Len(steps) = Len(path)
               /\ \A k \in 1..Len(path) : steps[k].system_id = IdOf(path[k])
               /\ AllSteps(steps, Ends, began)
<1> DEFINE av   == AssembleAvoidSet(G, req) \ {From}
           ends == {From, To}
           d    == ContextFor(av, ResolveConnections(G, req), ends)
<1>1. /\ From \in 0..Size - 1 /\ Ends = IdsOf(ends)
      /\ clock \in Nat /\ began \in 0..clock
    BY EndsFacts DEF HasEnds
<1>2. /\ CanRoute /\ StagingContext = d /\ ends \in SUBSET (0..Size - 1)
      /\ Covers(av, n) /\ (Open(n) <=> n \notin av)
      /\ From \in Nodes
    BY StagingContextFacts
<1>3. Open(From)
    BY EndsFacts DEF Open
<1>4. path \in CheapestRoutes(d, From, n)
    BY <1>2
<1> HIDE DEF av, ends
<1>5. n = From \/ n \notin av
    <2>1. d.avoid = av
        BY <1>2, ContextFacts
    <2> HIDE DEF d
    <2> QED BY <1>2, <1>4, <2>1, RoutesEndOpen
<1>6. ~Repeats(path)
    <2> HIDE DEF d
    <2> QED BY <1>2, <1>4, CheapestAreRoutes
<1>7. /\ Len(path) \in Nat \ {0} /\ path \in Seq(0..Size - 1)
      /\ path[1] = From /\ path[Len(path)] = n
      /\ BuildSteps(G, d, path) \in Seq(RouteStep)
      /\ Len(BuildSteps(G, d, path)) = Len(path)
      /\ \A k \in 1..Len(path) : BuildSteps(G, d, path)[k].system_id = IdOf(path[k])
      /\ AllSteps(BuildSteps(G, d, path), IdsOf(ends), began)
    BY <1>1, <1>2, <1>4, FoundIsAllowed
<1> HIDE DEF d
<1> QED BY <1>1, <1>2, <1>3, <1>5, <1>6, <1>7

LEMMA LegsReach ==
    ASSUME HasEnds, AllResolve(G, OverlayRefs), NEW n \in 0..Size - 1,
           NEW path \in CheapestRoutes(StagingContext, From, n)
    PROVE  Reached(n, Jumps(path))
<1> DEFINE steps == BuildSteps(G, StagingContext, path)
           len   == Len(path)
           m     == Cardinality(AllIds)
<1>1. view \in Builds /\ Named(req.from) = {IdOf(From)}
    BY EndsFacts
<1>2. /\ Open(n) /\ len \in Nat \ {0} /\ path \in Seq(0..Size - 1) /\ ~Repeats(path)
      /\ path[1] = From /\ path[len] = n
      /\ Len(steps) = len
      /\ \A k \in 1..len : steps[k].system_id = IdOf(path[k])
      /\ AllSteps(steps, Ends, began)
    BY LegFacts
<1>3. \A k \in 1..len : path[k] \in 0..Size - 1 /\ IdOf(path[k]) \in AllIds
    <2>1. \A k \in 1..len : path[k] \in 0..Size - 1
        <3>1. \A S : \A p \in Seq(S) : \A k \in 1..Len(p) : p[k] \in S
            OBVIOUS
        <3> QED BY <1>2, <3>1, ZenonT(40)
    <2>2. \A x \in 0..Size - 1 : IdOf(x) \in AllIds
        BY <1>1, NodeFacts DEF AllIds, IdOf
    <2> QED BY <2>1, <2>2
<1>4. m \in Nat /\ IsFiniteSet(AllIds)
    BY <1>1, SystemsAreFinite
<1> HIDE DEF steps, m
<1>5. len <= m
    <2> DEFINE f == [k \in 1..len |-> IdOf(path[k])]
    <2>1. f \in [1..len -> AllIds]
        BY <1>3
    <2>2. ASSUME NEW i \in 1..len, NEW j \in 1..len, f[i] = f[j] PROVE i = j
        <3>1. path[i] = path[j]
            BY <1>1, <1>3, <2>2, SystemOfNode
        <3>2. ~(i < j) /\ ~(j < i)
            BY <1>2, <3>1 DEF Repeats
        <3> QED BY <1>2, <3>2
    <2> HIDE DEF f
    <2>3. f \in Injection(1..len, AllIds)
        BY <2>1, <2>2 DEF Injection, IsInjective
    <2>4. Cardinality(1..len) = len /\ IsFiniteSet(1..len)
        <3>1. \A q \in Nat : Cardinality(1..q) = q /\ IsFiniteSet(1..q)
            BY FS_Interval, SMTT(30)
        <3> QED BY <1>2, <3>1
    <2> QED BY <1>4, <2>3, <2>4, FS_Injection DEF m
<1>6. PICK w : IsReached(Ends, began, m, w)
    BY <1>4, ReachedExists
<1>7. w[0] = Named(req.from) /\ \A i \in 1..m : w[i] = Nearer(Ends, began, w[i - 1])
    BY <1>4, <1>6 DEF IsReached
<1> DEFINE S == {i \in Nat : i < len => IdOf(path[i + 1]) \in w[i]}
<1>8. 0 \in S
    BY <1>1, <1>2, <1>7
<1>9. ASSUME NEW i \in Nat, i \in S PROVE i + 1 \in S
    <2> SUFFICES ASSUME i + 1 < len PROVE IdOf(path[(i + 1) + 1]) \in w[i + 1]
        OBVIOUS
    <2> DEFINE x == IdOf(path[i + 1])
               y == IdOf(path[i + 2])
    <2>1. /\ i + 1 \in 1..len /\ i + 2 \in 2..len /\ i + 2 \in 1..len
          /\ i + 1 \in 1..m /\ (i + 1) - 1 = i /\ (i + 2) - 1 = i + 1
          /\ (i + 1) + 1 = i + 2
        BY <1>2, <1>4, <1>5
    <2>2. x \in w[i]
        BY <1>2, <1>9
    <2>3. x \in Named(req.from) \/ ~Barred(x)
        <3>1. CASE i = 0
            BY <1>1, <1>2, <3>1
        <3>2. CASE i # 0
            <4>1. i + 1 \in 2..len - 1
                BY <1>2, <3>2
            <4> QED BY <1>2, <2>1, <4>1 DEF AllSteps
        <3> QED BY <3>1, <3>2
    <2>4. Hop(x, y, Ends, began)
        <3>1. IsHop(steps[i + 2].via, x, y, Ends, began)
            <4>1. IsHop(steps[i + 2].via, steps[(i + 2) - 1].system_id,
                        steps[i + 2].system_id, Ends, began)
                BY <1>2, <2>1 DEF AllSteps
            <4> QED BY <1>2, <2>1, <4>1
        <3> HIDE DEF x, y
        <3> QED BY <3>1 DEF IsHop, Hop, UserHop
    <2>5. w[i + 1] = Nearer(Ends, began, w[i]) /\ y \in AllIds
        BY <1>3, <1>7, <2>1
    <2> HIDE DEF x, y
    <2>6. y \in w[i + 1]
        BY <2>2, <2>3, <2>4, <2>5 DEF Nearer
    <2> QED BY <2>1, <2>6 DEF y
<1> HIDE DEF S
<1>10. len - 1 \in S
    <2>1. len - 1 \in Nat
        BY <1>2
    <2> QED BY <1>8, <1>9, <2>1, SetInduction
<1>11. IdOf(n) \in w[len - 1]
    <2>1. (len - 1) + 1 = len /\ len - 1 < len
        BY <1>2
    <2> QED BY <1>2, <1>10, <2>1 DEF S
<1>12. len - 1 \in Nat /\ len - 1 <= m /\ len - 1 \in 0..m
    BY <1>2, <1>4, <1>5
<1>13. Reaches(Ends, began, len - 1, IdOf(n))
    BY <1>4, <1>6, <1>11, <1>12 DEF Reaches
<1> QED BY <1>2, <1>12, <1>13 DEF Reached, Jumps, m, len

(***************************************************************************)
(* An answer is made of the ranking of the settled set.                    *)
(***************************************************************************)
LEMMA StagingAnswer ==
    ASSUME HasEnds, AllResolve(G, OverlayRefs), NEW hits \in Hits(G, To, EffectiveRange),
           NEW settled \in Settled(StagingContext, Candidates(hits)),
           DOMAIN settled # {}
    PROVE  \E order, jumps :
               /\ IsRanking(order, jumps)
               /\ IsStaging(BlopsResponse(StagingContext, settled), order, jumps)
               /\ Complete(DOMAIN jumps, jumps, clock)
<1> DEFINE c     == StagingContext
           av    == AssembleAvoidSet(G, req) \ {From}
           D     == DOMAIN settled
           order == Ranked(c, settled)
           jumps == Ways(settled)
           r     == BlopsResponse(c, settled)
<1>1. /\ view \in Builds /\ From \in 0..Size - 1 /\ Ends = IdsOf({From, To})
      /\ clock \in Nat /\ began \in 0..clock
    BY EndsFacts DEF HasEnds
<1>2. /\ CanRoute
      /\ c = ContextFor(av, ResolveConnections(G, req), {From, To})
      /\ {From, To} \in SUBSET (0..Size - 1)
      /\ \A n \in 0..Size - 1 : Covers(av, n)
      /\ \A n \in 0..Size - 1 : Open(n) <=> n \notin av
      /\ From \in Nodes
    BY StagingContextFacts
<1>3. /\ IsSettled(settled)
      /\ \A n \in D : /\ MayBridge(n) /\ n \in 0..Size - 1
                      /\ settled[n] \in CheapestRoutes(c, From, n)
      /\ Complete(D, jumps, clock)
    BY SettledStages
<1>4. /\ IsFiniteSet(D) /\ order \in SetToSeqs(D)
      /\ \A i, j \in DOMAIN order : i < j => NoWorse(settled, order[i], order[j])
    BY <1>3, RankedFacts
<1>5. /\ order \in Seq(D) /\ Len(order) \in Nat \ {0} /\ DOMAIN order = 1..Len(order)
      /\ \A i \in DOMAIN order : order[i] \in D
      /\ Head(order) = order[1] /\ order[1] \in D
    <2> DEFINE n == Cardinality(D)
    <2>1. n \in Nat /\ n # 0
        BY <1>4, FS_CardinalityType, FS_EmptySet
    <2>2. order \in [1..n -> D] /\ order \in Seq(D) /\ Len(order) = n
        BY <1>4, EnumerationFacts
    <2> HIDE DEF n, D, order
    <2> QED BY <2>1, <2>2
<1>6. r = [jdc_level    |-> req.jdc_level,
           effective_ly |-> EffectiveRange,
           defaulted    |-> req.ship = NoShip,
           chosen       |-> Chosen(c, settled[Head(order)]),
           alternates   |-> Fallbacks(order, settled)]
    BY DEF BlopsResponse
<1>7. DOMAIN jumps = D /\ \A n \in D : jumps[n] = Jumps(settled[n])
    BY DEF Ways
<1> HIDE DEF c, av, D, order, jumps, r
<1>8. IsRanking(order, jumps)
    <2>1. ASSUME NEW n \in D PROVE jumps[n] \in Nat /\ Reached(n, jumps[n])
        <3>1. /\ n \in 0..Size - 1 /\ settled[n] \in CheapestRoutes(StagingContext, From, n)
              /\ Len(settled[n]) \in Nat \ {0}
            BY <1>3 DEF IsSettled, D, c
        <3>2. Jumps(settled[n]) \in Nat
            BY <3>1 DEF Jumps
        <3>3. Reached(n, Jumps(settled[n]))
            BY <3>1, LegsReach
        <3> QED BY <1>7, <3>2, <3>3
    <2>2. ASSUME NEW i \in DOMAIN order, NEW j \in DOMAIN order, i < j
          PROVE  \/ jumps[order[i]] < jumps[order[j]]
                 \/ /\ jumps[order[i]] = jumps[order[j]]
                    /\ Distance2(G, order[i], To) <= Distance2(G, order[j], To)
        BY <1>4, <1>5, <1>7, <2>2 DEF NoWorse
    <2> QED BY <1>3, <1>4, <1>7, <2>1, <2>2 DEF IsRanking, D
<1> DEFINE star  == order[1]
           path  == settled[star]
           steps == BuildSteps(G, c, path)
<1>9. /\ star \in 0..Size - 1 /\ path \in CheapestRoutes(c, From, star)
      /\ Len(path) \in Nat \ {0} /\ jumps[star] = Len(path) - 1
    BY <1>3, <1>5, <1>7 DEF IsSettled, Jumps, D
<1>10. path[Len(path)] = star
    <2>1. IsRoute(c, From, star, path)
        BY <1>2, <1>9, CheapestAreRoutes
    <2> QED BY <2>1 DEF IsRoute
<1>11. Open(star)
    BY <1>9, LegFacts DEF c
<1>12. IsLeg(steps, star, jumps[star])
    <2> HIDE DEF star, path
    <2>1. /\ path[1] = From /\ path[Len(path)] = star
          /\ steps \in Seq(RouteStep) /\ Len(steps) = Len(path)
          /\ \A k \in 1..Len(path) : steps[k].system_id = IdOf(path[k])
          /\ AllSteps(steps, Ends, began)
        BY <1>9, LegFacts DEF c
    <2>2. 1 \in 1..Len(path) /\ Len(path) \in 1..Len(path)
        BY <1>9
    <2>3. steps[1].system_id = IdOf(From) /\ steps[Len(path)].system_id = IdOf(star)
        BY <2>1, <2>2
    <2> HIDE DEF steps
    <2> QED BY <1>9, <2>1, <2>3 DEF IsLeg
<1>13. /\ r.jdc_level = req.jdc_level /\ r.effective_ly = EffectiveRange
       /\ r.defaulted = (req.ship = NoShip)
       /\ r.chosen = Chosen(c, path) /\ r.alternates = Fallbacks(order, settled)
    BY <1>5, <1>6
<1>14. /\ r.chosen.gate_jumps = jumps[star] /\ r.chosen.gate_path = steps
       /\ r.chosen.bridge = [from     |-> SystemNamed(star),
                             to       |-> SystemNamed(To),
                             jump_ly  |-> Round2(Distance2(G, star, To)),
                             in_range |-> TRUE]
    <2>1. Last(path) = star
        BY <1>10 DEF Last
    <2>2. Chosen(c, path) =
              [gate_jumps |-> Jumps(path),
               gate_path  |-> steps,
               bridge     |-> [from     |-> SystemNamed(star),
                               to       |-> SystemNamed(To),
                               jump_ly  |-> Round2(Distance2(G, star, To)),
                               in_range |-> TRUE]]
        BY <2>1 DEF Chosen
    <2> QED BY <1>9, <1>13, <2>2 DEF Jumps
<1>15. r.alternates =
           IF jumps[star] = 0 THEN << >>
           ELSE [i \in 1..Min({MAX_ALTERNATES, Len(order) - 1}) |->
                    [system     |-> SystemNamed(order[i + 1]),
                     gate_jumps |-> jumps[order[i + 1]],
                     ly_to_b    |-> Round2(Distance2(G, order[i + 1], To))]]
    <2> DEFINE n == Min({MAX_ALTERNATES, Len(order) - 1})
    <2>1. \A i \in 1..n : i + 1 \in DOMAIN order
        <3> DEFINE T == {MAX_ALTERNATES, Len(order) - 1}
        <3>1. T \subseteq Nat
            BY <1>5, AlternatesAssumption
        <3>2. Len(order) - 1 \in T
            OBVIOUS
        <3> HIDE DEF T
        <3>3. Min(T) \in Nat /\ Min(T) <= Len(order) - 1
            BY <3>1, <3>2, LeastIsMin
        <3>4. n \in Nat /\ n <= Len(order) - 1
            BY <3>3 DEF n, T
        <3> HIDE DEF n
        <3> QED BY <1>5, <3>4
    <2> HIDE DEF n
    <2>2. \A i \in 1..n : jumps[order[i + 1]] = Jumps(settled[order[i + 1]])
        BY <1>5, <1>7, <2>1
    <2>3. jumps[star] = Jumps(settled[Head(order)])
        BY <1>5, <1>7
    <2>4. Fallbacks(order, settled) =
              IF jumps[star] = 0 THEN << >>
              ELSE [i \in 1..n |->
                    [system     |-> SystemNamed(order[i + 1]),
                     gate_jumps |-> jumps[order[i + 1]],
                     ly_to_b    |-> Round2(Distance2(G, order[i + 1], To))]]
        BY <2>2, <2>3 DEF Fallbacks, n
    <2> QED BY <1>13, <2>4 DEF n
<1>16. IsStaging(r, order, jumps)
    <2> HIDE DEF path, steps
    <2> QED BY <1>11, <1>12, <1>13, <1>14, <1>15 DEF IsStaging
<1>17. Complete(DOMAIN jumps, jumps, clock)
    BY <1>3, <1>7
<1> QED BY <1>8, <1>16, <1>17 DEF r, c

----------------------------------------------------------------------------
(* Jump routes: range answers.                                             *)

(***************************************************************************)
(* A range request past its checks, the systems that an answer may hold    *)
(* and those it must, and what the answer is made of.                      *)
(***************************************************************************)
HasSource == /\ HasLevel /\ HullKnown /\ req.route = "range" /\ RequestOK(req)
             /\ From # Unresolved

MayReach(n) ==
    /\ n \in 0..Size - 1 /\ n # From /\ SystemAt(G, n).sec \notin {"wormhole", "highsec"}
    /\ ~Outside(Distance2(G, n, From), EffectiveRange)

MustReach(n) ==
    /\ n \in 0..Size - 1 /\ n # From /\ SystemAt(G, n).sec \notin {"wormhole", "highsec"}
    /\ Inside(Distance2(G, n, From), EffectiveRange)

IsEntry(entry, n) ==
    entry = [system  |-> SystemNamed(n), jump_ly |-> Round2(Distance2(G, n, From))]

HullShown ==
    LET hull == ResolveHull(G.hulls, req.ship)
    IN  [name |-> hull.name, type_id |-> hull.type_id, base_ly |-> hull.base_ly]

IsRange(r, lit, order) ==
    /\ IsFiniteSet(lit) /\ order \in SetToSeqs(lit)
    /\ \A n \in lit : MayReach(n)
    /\ \A n : MustReach(n) => n \in lit
    /\ \A i \in 2..Len(order) :
          Distance2(G, order[i - 1], From) <= Distance2(G, order[i], From)
    /\ r.reachable = [i \in DOMAIN order |-> r.reachable[i]]
    /\ \A i \in DOMAIN order : IsEntry(r.reachable[i], order[i])
    /\ r.summary = Summary(r.reachable) /\ r.source = SystemNamed(From)
    /\ r.jdc_level = req.jdc_level /\ r.effective_ly = EffectiveRange
    /\ r.hull = HullShown

LEMMA SourceIsKnown ==
    ASSUME LiveInv, HandlerInv, Ranging, From # Unresolved, HullKnown
    PROVE  HasSource
<1>1. pc = "checking" /\ req.route = "range" /\ JdcValid
    BY DEF Ranging
<1>2. view \in Builds /\ RequestOK(req)
    BY <1>1 DEF HandlerInv, NoFailure
<1>3. req.ship \in Ref \cup {NoShip} /\ req.jdc_level \in Int
    BY <1>1, <1>2 DEF RequestOK
<1> QED BY <1>1, <1>2, <1>3 DEF HasSource, HasLevel

LEMMA SourceFacts ==
    ASSUME HasSource
    PROVE  /\ view \in Builds /\ EffectiveRange \in Nat
           /\ From \in 0..Size - 1 /\ Named(req.from) = {IdOf(From)}
           /\ (CHOOSE s \in SystemsOf : s.id = IdOf(From)) = SystemAt(G, From)
           /\ SystemAt(G, From) \in SystemsOf
           /\ LET h == ResolveHull(G.hulls, req.ship)
              IN  h \in HullsNamed(req.ship) /\ EffectiveRange \in Around(RangeOf(h))
<1>1. view \in Builds /\ EffectiveRange \in Nat
    BY RangeFacts DEF HasSource, HasLevel
<1>2. /\ From \in 0..Size - 1 /\ Named(req.from) = {IdOf(From)}
      /\ (CHOOSE s \in SystemsOf : s.id = IdOf(From)) = SystemAt(G, From)
      /\ SystemAt(G, From) \in SystemsOf
    BY <1>1, ResolvedFacts DEF HasSource, From
<1>3. req.ship # NoShip
    BY DEF HasSource, RequestOK, Ref, NoShip
<1> QED BY <1>1, <1>2, <1>3, RangeFacts DEF HasSource

LEMMA RangeAnswer ==
    ASSUME HasSource, NEW hits \in Hits(G, From, EffectiveRange),
           NEW list \in RangeAnswers(hits), NEW r,
           r.reachable = list, r.summary = Summary(list),
           r.source = SystemNamed(From), r.effective_ly = EffectiveRange,
           r.jdc_level = req.jdc_level, r.hull = HullShown
    PROVE  \E lit, order : IsRange(r, lit, order)
<1>1. view \in Builds /\ EffectiveRange \in Nat /\ From \in 0..Size - 1
    BY SourceFacts
<1> DEFINE range == EffectiveRange
           lit == Reachable(hits)
<1>2. lit = {n \in hits \ {From} : SystemAt(G, n).sec # "highsec"}
    BY DEF Reachable
<1>3. PICK order \in SetToSeqs(lit) :
          /\ \A i \in 2..Len(order) :
                Distance2(G, order[i - 1], From) <= Distance2(G, order[i], From)
          /\ list = [i \in DOMAIN order |->
                        [system  |-> SystemNamed(order[i]),
                         jump_ly |-> Round2(Distance2(G, order[i], From))]]
    BY DEF RangeAnswers
<1> HIDE DEF range, lit
<1>4. /\ \A n \in hits : /\ n \in 0..Size - 1 /\ SystemAt(G, n).sec # "wormhole"
                         /\ ~Outside(Distance2(G, n, From), range)
      /\ \A n \in 0..Size - 1 :
             SystemAt(G, n).sec # "wormhole" /\ Inside(Distance2(G, n, From), range) =>
                 n \in hits
    BY <1>1, HitsAreNodes DEF range
<1>5. /\ \A n \in lit : MayReach(n)
      /\ \A n : MustReach(n) => n \in lit
    BY <1>2, <1>4 DEF MayReach, MustReach, range
<1>6. IsFiniteSet(lit)
    <2>1. lit \subseteq 0..Size - 1
        BY <1>2, <1>4
    <2>2. IsFiniteSet(0..Size - 1)
        <3>1. 0 \in Int /\ Size - 1 \in Int
            BY <1>1, NodeFacts
        <3> QED BY <3>1, FS_Interval, SMTT(30)
    <2> QED BY <2>1, <2>2, FS_Subset
<1>7. \A i \in DOMAIN order : IsEntry(list[i], order[i])
    BY <1>3 DEF IsEntry
<1>8. list = [i \in DOMAIN order |-> list[i]]
    BY <1>3
<1> QED BY <1>3, <1>5, <1>6, <1>7, <1>8 DEF IsRange

----------------------------------------------------------------------------
(* Jump routes: the invariant.                                             *)

(***************************************************************************)
(* What a request and the build it was given mean for a jump route does    *)
(* not change while it is answered.                                        *)
(***************************************************************************)
JumpFrame == /\ UNCHANGED <<req, view, viewScout, began>>
             /\ clock \in Nat /\ clock' \in Nat /\ clock <= clock'

LEMMA LevelStays ==
    ASSUME JumpFrame
    PROVE  /\ G' = G /\ From' = From /\ To' = To
           /\ EffectiveRange' = EffectiveRange /\ HullKnown' = HullKnown
           /\ JdcValid' = JdcValid /\ HasLevel' = HasLevel
           /\ (HasEnds => HasEnds') /\ (HasSource => HasSource')
           /\ AllResolve(G, OverlayRefs)' = AllResolve(G, OverlayRefs)
           /\ DestOk(To)' = DestOk(To)
<1>1. view' = view /\ req' = req /\ viewScout' = viewScout /\ began' = began
    BY DEF JumpFrame
<1>2. G' = G /\ From' = From /\ To' = To /\ OverlayRefs' = OverlayRefs
    BY <1>1, BuildStays, MeaningStays
<1>3. EffectiveRange' = EffectiveRange
    BY <1>1, <1>2 DEF EffectiveRange, BaseLy
<1>4. HullKnown' = HullKnown
    BY <1>1, <1>2 DEF HullKnown
<1>5. JdcValid' = JdcValid
    BY <1>1 DEF JdcValid
<1>6. HasLevel' = HasLevel
    BY <1>1, <1>5 DEF HasLevel
<1>7. HasEnds => HasEnds'
    <2>1. \A b \in 0..clock : b \in 0..clock'
        BY DEF JumpFrame
    <2>2. RequestOK(req)' = RequestOK(req)
        BY <1>1
    <2>3. IsSnapshot(viewScout)' = IsSnapshot(viewScout)
        BY <1>1
    <2> QED BY <1>1, <1>2, <1>4, <1>6, <2>1, <2>2, <2>3 DEF HasEnds, JumpFrame
<1>8. HasSource => HasSource'
    <2>1. RequestOK(req)' = RequestOK(req)
        BY <1>1
    <2> QED BY <1>1, <1>2, <1>4, <1>6, <2>1 DEF HasSource
<1>9. AllResolve(G, OverlayRefs)' = AllResolve(G, OverlayRefs)
    BY <1>2
<1>10. DestOk(To)' = DestOk(To)
    BY <1>2 DEF DestOk
<1> QED BY <1>2, <1>3, <1>4, <1>5, <1>6, <1>7, <1>8, <1>9, <1>10

LEMMA StagesStay ==
    ASSUME JumpFrame
    PROVE  /\ \A n : /\ IdOf(n)' = IdOf(n) /\ SystemNamed(n)' = SystemNamed(n)
                     /\ MayBridge(n)' = MayBridge(n) /\ MustBridge(n)' = MustBridge(n)
                     /\ MayReach(n)' = MayReach(n) /\ MustReach(n)' = MustReach(n)
                     /\ Open(n)' = Open(n)
           /\ \A n, m : Distance2(G, n, m)' = Distance2(G, n, m)
<1>1. view' = view /\ req' = req /\ G' = G /\ From' = From /\ To' = To
      /\ EffectiveRange' = EffectiveRange /\ Raw' = Raw
    BY LevelStays DEF JumpFrame, Raw
<1>2. Size' = Size
    BY <1>1 DEF Size
<1>3. /\ \A ref : Named(ref)' = Named(ref)
      /\ \A x : Barred(x)' <=> Barred(x)
    BY <1>1, MeaningStays
<1>4. \A n : IdOf(n)' = IdOf(n) /\ SystemNamed(n)' = SystemNamed(n)
    BY <1>1 DEF IdOf, SystemNamed
<1>5. \A n, m : Distance2(G, n, m)' = Distance2(G, n, m)
    BY <1>1
<1>6. \A n : SystemAt(G, n)' = SystemAt(G, n)
    BY <1>1
<1>7. ASSUME NEW n PROVE MayBridge(n)' = MayBridge(n) /\ MustBridge(n)' = MustBridge(n)
    BY <1>1, <1>2, <1>5, <1>6 DEF MayBridge, MustBridge
<1>8. ASSUME NEW n PROVE MayReach(n)' = MayReach(n) /\ MustReach(n)' = MustReach(n)
    BY <1>1, <1>2, <1>5, <1>6 DEF MayReach, MustReach
<1>9. ASSUME NEW n PROVE Open(n)' = Open(n)
    BY <1>1, <1>3, <1>4 DEF Open
<1> QED BY <1>4, <1>5, <1>7, <1>8, <1>9

LEMMA AnswersStay ==
    ASSUME JumpFrame
    PROVE  /\ \A order, jumps : IsRanking(order, jumps) => IsRanking(order, jumps)'
           /\ \A r, order, jumps : IsStaging(r, order, jumps) => IsStaging(r, order, jumps)'
           /\ \A stages, jumps, s : Complete(stages, jumps, s) => Complete(stages, jumps, s)'
           /\ \A r, lit, order : IsRange(r, lit, order) => IsRange(r, lit, order)'
<1>1. /\ view' = view /\ req' = req /\ G' = G /\ From' = From /\ To' = To
      /\ EffectiveRange' = EffectiveRange /\ viewScout' = viewScout /\ began' = began
    BY LevelStays DEF JumpFrame
<1>2. /\ \A n : /\ IdOf(n)' = IdOf(n) /\ SystemNamed(n)' = SystemNamed(n)
                /\ MayBridge(n)' = MayBridge(n) /\ MustBridge(n)' = MustBridge(n)
                /\ MayReach(n)' = MayReach(n) /\ MustReach(n)' = MustReach(n)
                /\ Open(n)' = Open(n)
      /\ \A n, m : Distance2(G, n, m)' = Distance2(G, n, m)
    BY StagesStay
<1>3. Ends' = Ends
    BY <1>1, MeaningStays DEF Ends
<1>4. ASSUME NEW order, NEW jumps, IsRanking(order, jumps) PROVE IsRanking(order, jumps)'
    <2>1. \A n, k : Reached(n, k)' <=> Reached(n, k)
        <3>1. AllIds' = AllIds
            BY <1>1, BuildStays DEF AllIds
        <3>2. \A t, k, id : Reaches(Ends, t, k, id)' <=> Reaches(Ends, t, k, id)
            BY <1>1, <1>3, ReachStays
        <3> QED BY <1>1, <1>2, <3>1, <3>2 DEF Reached
    <2> QED BY <1>1, <1>2, <1>4, <2>1 DEF IsRanking
<1>5. ASSUME NEW path, NEW n, NEW j, IsLeg(path, n, j) PROVE IsLeg(path, n, j)'
    <2>1. AllSteps(path, Ends, began)' <=> AllSteps(path, Ends, began)
        <3>1. \A ids, t : AllSteps(path, ids, t)' <=> AllSteps(path, ids, t)
            BY <1>1, StepsStay
        <3> QED BY <1>1, <1>3, <3>1
    <2> QED BY <1>1, <1>2, <1>5, <2>1 DEF IsLeg
<1>6. ASSUME NEW r, NEW order, NEW jumps, IsStaging(r, order, jumps)
      PROVE  IsStaging(r, order, jumps)'
    BY <1>1, <1>2, <1>5, <1>6 DEF IsStaging
<1>7. ASSUME NEW stages, NEW jumps, NEW s, Complete(stages, jumps, s)
      PROVE  Complete(stages, jumps, s)'
    <2>1. \A t, k, id : Reaches(Ends, t, k, id)' <=> Reaches(Ends, t, k, id)
        BY <1>1, <1>3, ReachStays
    <2> QED BY <1>1, <1>2, <1>7, <2>1 DEF Complete
<1>8. ASSUME NEW r, NEW lit, NEW order, IsRange(r, lit, order)
      PROVE  IsRange(r, lit, order)'
    <2>1. \A entry, n : IsEntry(entry, n)' <=> IsEntry(entry, n)
        BY <1>1, <1>2 DEF IsEntry
    <2>2. /\ IsFiniteSet(lit) /\ order \in SetToSeqs(lit)
          /\ r.reachable = [i \in DOMAIN order |-> r.reachable[i]]
          /\ r.summary = Summary(r.reachable)
        BY <1>8 DEF IsRange
    <2>3. /\ \A n \in lit : MayReach(n)'
          /\ \A n : MustReach(n)' => n \in lit
          /\ \A i \in DOMAIN order : IsEntry(r.reachable[i], order[i])'
        BY <1>2, <1>8, <2>1 DEF IsRange
    <2>4. \A i \in 2..Len(order) :
              Distance2(G', order[i - 1], From') <= Distance2(G', order[i], From')
        BY <1>1, <1>8 DEF IsRange
    <2>5. /\ r.source = SystemNamed(From)' /\ r.effective_ly = EffectiveRange'
          /\ r.jdc_level = req'.jdc_level /\ r.hull = HullShown'
        <3>1. SystemNamed(From)' = SystemNamed(From) /\ HullShown' = HullShown
            BY <1>1 DEF SystemNamed, HullShown
        <3> QED BY <1>1, <1>8, <3>1 DEF IsRange
    <2> QED BY <2>2, <2>3, <2>4, <2>5 DEF IsRange
<1> QED BY <1>4, <1>6, <1>7, <1>8

(***************************************************************************)
(* The invariant for jump routes: an answer is the ranking of what could   *)
(* be reached at some moment of the request, or the systems in range, and  *)
(* a refusal has its reason.                                               *)
(***************************************************************************)
AnswerInv ==
    answer # << >> =>
        pc = "answered" /\ failure = NoFailure /\ req.route \in {"blops", "range"}

StagingInv ==
    Staged => /\ HasEnds /\ DestOk(To) /\ AllResolve(G, OverlayRefs)
              /\ \E s \in 0..clock : \E order, jumps :
                    /\ IsRanking(order, jumps) /\ IsStaging(Response, order, jumps)
                    /\ Complete(DOMAIN jumps, jumps, s)

RangeInv == Ranged => HasSource /\ \E lit, order : IsRange(Response, lit, order)

\* What is known where a failure is reported: what was checked before it, and
\* its reason.
BadLevel(f) == f.error = "invalid_param" /\ ~JdcValid

BadHull(f) ==
    /\ f.error = "unknown_hull" /\ HasLevel /\ ~HullKnown
    /\ req.route = "range" => view \in Builds /\ RequestOK(req) /\ AllResolve(G, EndRefs)

BadEnds(f) ==
    /\ f = Unknown(EndRefs) /\ HasLevel /\ RequestOK(req) /\ ~AllResolve(G, EndRefs)
    /\ req.route = "blops" => HullKnown

BadTarget(f) == f.error = "cyno_target_highsec" /\ HasEnds /\ ~DestOk(To)

NoneNear(f) ==
    /\ f.error = "no_staging_in_range" /\ HasEnds /\ DestOk(To)
    /\ \A n : ~MustBridge(n)

SomeNear == HasEnds /\ DestOk(To) /\ \E n : MayBridge(n)

BadOverlay(f) == f = Unknown(OverlayRefs) /\ SomeNear /\ ~AllResolve(G, OverlayRefs)

NoneReached(f) ==
    /\ f.error = "staging_unreachable" /\ SomeNear /\ AllResolve(G, OverlayRefs)
    /\ \E s \in 0..clock : Complete({}, << >>, s)

Refused(f) ==
    \/ BadLevel(f)
    \/ BadHull(f)
    \/ BadEnds(f)
    \/ BadTarget(f)
    \/ NoneNear(f)
    \/ BadOverlay(f)
    \/ NoneReached(f)

RefusalInv ==
    req.route \in {"blops", "range"} /\ pc = "answered" =>
        answer # << >> \/ failure.error = "malformed" \/ Refused(failure)

JumpInv == AnswerInv /\ StagingInv /\ RangeInv /\ RefusalInv

LEMMA RefusedStays ==
    ASSUME JumpFrame, NEW f, Refused(f)
    PROVE  Refused(f)'
<1>1. /\ JdcValid' = JdcValid /\ HasLevel' = HasLevel /\ HullKnown' = HullKnown
      /\ (HasEnds => HasEnds') /\ DestOk(To)' = DestOk(To)
      /\ AllResolve(G, OverlayRefs)' = AllResolve(G, OverlayRefs)
      /\ G' = G
    BY LevelStays
<1>2. req' = req /\ view' = view /\ \A s \in 0..clock : s \in 0..clock'
    BY DEF JumpFrame
<1>3. EndRefs' = EndRefs /\ OverlayRefs' = OverlayRefs
    BY <1>2 DEF EndRefs, OverlayRefs
<1>4. Unknown(EndRefs)' = Unknown(EndRefs) /\ Unknown(OverlayRefs)' = Unknown(OverlayRefs)
      /\ AllResolve(G, EndRefs)' = AllResolve(G, EndRefs)
    BY <1>1, <1>3 DEF Unknown
<1>5. \A n : MustBridge(n)' = MustBridge(n) /\ MayBridge(n)' = MayBridge(n)
    BY StagesStay
<1>6. \A s : Complete({}, << >>, s) => Complete({}, << >>, s)'
    BY AnswersStay
<1>7. RequestOK(req)' = RequestOK(req)
    BY <1>2
<1>8. SomeNear => SomeNear'
    BY <1>1, <1>5 DEF SomeNear
<1>9. BadLevel(f) => BadLevel(f)'
    BY <1>1 DEF BadLevel
<1>10. BadHull(f) => BadHull(f)'
    BY <1>1, <1>2, <1>4, <1>7 DEF BadHull
<1>11. BadEnds(f) => BadEnds(f)'
    BY <1>1, <1>2, <1>4, <1>7 DEF BadEnds
<1>12. BadTarget(f) => BadTarget(f)'
    BY <1>1 DEF BadTarget
<1>13. NoneNear(f) => NoneNear(f)'
    BY <1>1, <1>5 DEF NoneNear
<1>14. BadOverlay(f) => BadOverlay(f)'
    BY <1>1, <1>4, <1>8 DEF BadOverlay
<1>15. NoneReached(f) => NoneReached(f)'
    <2> SUFFICES ASSUME NoneReached(f) PROVE NoneReached(f)'
        OBVIOUS
    <2>1. PICK s \in 0..clock : Complete({}, << >>, s)
        BY DEF NoneReached
    <2>2. s \in 0..clock' /\ Complete({}, << >>, s)'
        BY <1>2, <1>6, <2>1
    <2> QED BY <1>1, <1>8, <2>2 DEF NoneReached
<1> QED BY <1>9, <1>10, <1>11, <1>12, <1>13, <1>14, <1>15 DEF Refused

LEMMA JumpInvStays ==
    ASSUME JumpInv, JumpFrame, UNCHANGED <<pc, failure, answer>>
    PROVE  JumpInv'
<1>1. /\ req' = req /\ answer' = answer /\ failure' = failure /\ pc' = pc
      /\ \A s \in 0..clock : s \in 0..clock'
    BY DEF JumpFrame
<1>2. AnswerInv'
    BY <1>1 DEF JumpInv, AnswerInv
<1>3. StagingInv'
    <2> SUFFICES ASSUME Staged PROVE StagingInv'
        BY <1>1 DEF StagingInv, Staged
    <2> PICK s \in 0..clock : \E order, jumps :
              /\ IsRanking(order, jumps) /\ IsStaging(Response, order, jumps)
              /\ Complete(DOMAIN jumps, jumps, s)
        BY DEF JumpInv, StagingInv
    <2>1. PICK order, jumps : /\ IsRanking(order, jumps) /\ IsStaging(Response, order, jumps)
                              /\ Complete(DOMAIN jumps, jumps, s)
        OBVIOUS
    <2>2. IsRanking(order, jumps)' /\ Complete(DOMAIN jumps, jumps, s)'
        BY <2>1, AnswersStay
    <2>3. PICK r : r = Response
        OBVIOUS
    <2>4. Response' = r /\ IsStaging(r, order, jumps)'
        BY <1>1, <2>1, <2>3, AnswersStay DEF Response
    <2>5. HasEnds' /\ DestOk(To)' /\ AllResolve(G, OverlayRefs)'
        BY LevelStays DEF JumpInv, StagingInv
    <2> QED BY <1>1, <2>2, <2>4, <2>5 DEF StagingInv
<1>4. RangeInv'
    <2> SUFFICES ASSUME Ranged PROVE RangeInv'
        BY <1>1 DEF RangeInv, Ranged
    <2>1. PICK lit, order : IsRange(Response, lit, order)
        BY DEF JumpInv, RangeInv
    <2>2. PICK r : r = Response
        OBVIOUS
    <2>3. Response' = r /\ IsRange(r, lit, order)'
        BY <1>1, <2>1, <2>2, AnswersStay DEF Response
    <2>4. HasSource'
        BY LevelStays DEF JumpInv, RangeInv
    <2> QED BY <2>3, <2>4 DEF RangeInv
<1>5. RefusalInv'
    <2>1. PICK f : f = failure
        OBVIOUS
    <2>2. Refused(f) => Refused(f)'
        BY RefusedStays
    <2>3. failure' = f
        BY <1>1, <2>1
    <2> QED BY <1>1, <2>1, <2>2, <2>3 DEF JumpInv, RefusalInv
<1> QED BY <1>2, <1>3, <1>4, <1>5 DEF JumpInv

(***************************************************************************)
(* Nothing was answered or refused yet.                                    *)
(***************************************************************************)
LEMMA NothingYet ==
    ASSUME answer' = << >>,
           \/ pc' # "answered"
           \/ failure'.error = "malformed"
           \/ req'.route = "system"
    PROVE  JumpInv'
BY DEF JumpInv, AnswerInv, StagingInv, Staged, RangeInv, Ranged, RefusalInv

LEMMA JumpHolds == Init => JumpInv
BY DEF Init, JumpInit, HandlerInit, NoFailure, JumpInv, AnswerInv, StagingInv, Staged,
       RangeInv, Ranged, RefusalInv

(***************************************************************************)
(* The steps of the jump routes.                                           *)
(***************************************************************************)
LEMMA RefusedStep ==
    ASSUME JumpFrame, answer' = << >>, NEW f, failure' = f, Refused(f)
    PROVE  JumpInv'
<1>1. AnswerInv' /\ StagingInv' /\ RangeInv'
    BY DEF AnswerInv, StagingInv, Staged, RangeInv, Ranged
<1>2. Refused(f)'
    BY RefusedStays
<1>3. RefusalInv'
    BY <1>2 DEF RefusalInv
<1> QED BY <1>1, <1>3 DEF JumpInv

LEMMA JumpStep ==
    ASSUME LiveInv, HandlerInv, JumpInv, JumpNext
    PROVE  JumpInv'
<1>1. ASSUME NEW error, Refuse(error)
      PROVE  /\ pc = "checking" /\ JumpFrame /\ answer' = << >> /\ failure' = error
    <2>1. pc = "checking" /\ answer = << >>
        BY <1>1 DEF Refuse, Reject, JumpInv, AnswerInv
    <2>2. clock \in Nat
        BY DEF LiveInv
    <2> QED BY <1>1, <2>1, <2>2
            DEF Refuse, Reject, JumpFrame, liveVars, request, snapshots
<1>2. ASSUME NEW r, pc = "checking", Answered(r)
      PROVE  /\ JumpFrame /\ answer' = <<r>> /\ pc' = "answered" /\ failure' = NoFailure
             /\ Response' = r
    <2>1. clock \in Nat /\ failure = NoFailure
        BY <1>2 DEF LiveInv, HandlerInv
    <2> QED BY <1>2, <2>1
            DEF Answered, JumpFrame, liveVars, request, snapshots, Response
<1>3. ASSUME NEW f, Refuse(f), Refused(f) PROVE JumpInv'
    BY <1>1, <1>3, RefusedStep
<1>4. ASSUME pc = "checking", req.route \in {"blops", "range"}, JdcValid
      PROVE  HasLevel /\ RequestOK(req) /\ view \in Builds
    <2>1. view \in Builds /\ RequestOK(req)
        BY <1>4 DEF HandlerInv, NoFailure
    <2>2. req.ship \in Ref \cup {NoShip} /\ req.jdc_level \in Int
        BY <1>4, <2>1 DEF RequestOK
    <2> QED BY <1>4, <2>1, <2>2 DEF HasLevel
<1>5. CASE RejectLevel
    <2> DEFINE f == [error |-> "invalid_param"]
    <2>1. Refuse(f) /\ BadLevel(f)
        BY <1>5 DEF RejectLevel, BadLevel
    <2> HIDE DEF f
    <2> QED BY <1>3, <2>1 DEF Refused
<1>6. CASE RejectHull
    <2> DEFINE f == [error |-> "unknown_hull"]
    <2>1. /\ pc = "checking" /\ req.route = "blops" /\ JdcValid
          /\ ~HullKnown /\ Refuse(f) /\ f.error = "unknown_hull"
        BY <1>6 DEF RejectHull, Staging
    <2> HIDE DEF f
    <2>2. BadHull(f)
        BY <1>4, <2>1 DEF BadHull
    <2> QED BY <1>3, <2>1, <2>2 DEF Refused
<1>7. CASE RejectEnds
    <2>1. /\ pc = "checking" /\ req.route = "blops" /\ JdcValid /\ HullKnown
          /\ ~AllResolve(G, <<req.from, req.to>>) /\ Refuse(Unknown(<<req.from, req.to>>))
        BY <1>7 DEF RejectEnds, Staging
    <2>2. EndRefs = <<req.from, req.to>>
        BY <2>1 DEF EndRefs
    <2>3. Refuse(Unknown(EndRefs)) /\ BadEnds(Unknown(EndRefs))
        BY <1>4, <2>1, <2>2 DEF BadEnds
    <2> QED BY <1>3, <2>3 DEF Refused
<1>8. CASE RejectTarget
    <2> DEFINE f == [error |-> "cyno_target_highsec"]
    <2>1. HasEnds /\ ~DestOk(To) /\ Refuse(f) /\ f.error = "cyno_target_highsec"
        BY <1>8, EndsAreKnown DEF RejectTarget
    <2> HIDE DEF f
    <2> QED BY <1>3, <2>1 DEF Refused, BadTarget
<1>9. ASSUME EndsKnown, NEW hits \in Hits(G, To, EffectiveRange),
             NoStaging(hits) \/ RejectOverlay(hits) \/ Stage(hits)
      PROVE  JumpInv'
    <2>1. HasEnds
        BY <1>9, EndsAreKnown
    <2>5. Candidates(hits) # {} => \E n : MayBridge(n)
        BY <2>1, CandidatesAreStages
    <2>2. CASE NoStaging(hits)
        <3>1. \A n : ~MustBridge(n)
            BY <2>1, <2>2, CandidatesAreStages DEF NoStaging
        <3> DEFINE f == [error |-> "no_staging_in_range"]
        <3>2. DestOk(To) /\ Refuse(f) /\ f.error = "no_staging_in_range"
            BY <2>2 DEF NoStaging
        <3> HIDE DEF f
        <3> QED BY <1>3, <2>1, <3>1, <3>2 DEF Refused, NoneNear
    <2>3. CASE RejectOverlay(hits)
        <3>1. /\ DestOk(To) /\ Candidates(hits) # {} /\ ~AllResolve(G, OverlayRefs)
              /\ Refuse(Unknown(OverlayRefs))
            BY <2>3 DEF RejectOverlay
        <3>2. BadOverlay(Unknown(OverlayRefs))
            BY <2>1, <2>5, <3>1 DEF BadOverlay, SomeNear
        <3> QED BY <1>3, <3>1, <3>2 DEF Refused
    <2>4. CASE Stage(hits)
        <3>1. PICK settled \in Settled(StagingContext, Candidates(hits)) :
                  IF DOMAIN settled = {}
                  THEN Refuse([error |-> "staging_unreachable"])
                  ELSE Answered(BlopsResponse(StagingContext, settled))
            BY <2>4 DEF Stage
        <3>2. /\ DestOk(To) /\ AllResolve(G, OverlayRefs) /\ pc = "checking"
              /\ Candidates(hits) # {}
            BY <2>4 DEF Stage, EndsKnown, Staging
        <3>3. CASE DOMAIN settled = {}
            <4>1. Complete(DOMAIN settled, Ways(settled), clock)
                BY <2>1, <3>2, SettledStages
            <4>2. Complete({}, << >>, clock)
                BY <3>3, <4>1 DEF Complete
            <4> DEFINE f == [error |-> "staging_unreachable"]
            <4>3. Refuse(f) /\ f.error = "staging_unreachable"
                BY <3>1, <3>3
            <4> HIDE DEF f
            <4>4. clock \in 0..clock
                BY <2>1 DEF HasEnds
            <4>5. NoneReached(f)
                BY <2>1, <2>5, <3>2, <4>2, <4>3, <4>4 DEF NoneReached, SomeNear
            <4> QED BY <1>3, <4>3, <4>5 DEF Refused
        <3>4. CASE DOMAIN settled # {}
            <4> DEFINE r == BlopsResponse(StagingContext, settled)
            <4>1. PICK order, jumps : /\ IsRanking(order, jumps) /\ IsStaging(r, order, jumps)
                                      /\ Complete(DOMAIN jumps, jumps, clock)
                BY <2>1, <3>2, <3>4, StagingAnswer
            <4>2. PICK x : x = r /\ IsStaging(x, order, jumps) /\ Answered(x)
                BY <3>1, <3>4, <4>1
            <4> HIDE DEF r
            <4>3. /\ JumpFrame /\ answer' = <<x>> /\ pc' = "answered"
                  /\ failure' = NoFailure /\ Response' = x
                BY <1>2, <3>2, <4>2
            <4> PICK s : s = clock
                OBVIOUS
            <4>4. /\ IsRanking(order, jumps)' /\ IsStaging(x, order, jumps)'
                  /\ Complete(DOMAIN jumps, jumps, s)'
                BY <4>1, <4>2, <4>3, AnswersStay
            <4>5. HasEnds' /\ DestOk(To)' /\ AllResolve(G, OverlayRefs)'
                BY <2>1, <3>2, <4>3, LevelStays
            <4>6. s \in 0..clock' /\ req'.route = "blops"
                BY <4>3, <4>5 DEF JumpFrame, HasEnds
            <4>7. StagingInv'
                BY <4>3, <4>4, <4>5, <4>6 DEF StagingInv
            <4> QED BY <4>3, <4>6, <4>7
                    DEF JumpInv, AnswerInv, RangeInv, Ranged, RefusalInv, NoFailure
        <3> QED BY <3>3, <3>4
    <2> QED BY <1>9, <2>2, <2>3, <2>4
<1>10. ASSUME req.route = "range"
       PROVE  EndRefs = <<req.from>> /\ (AllResolve(G, EndRefs) <=> From # Unresolved)
    BY <1>10 DEF EndRefs, AllResolve, From
<1>11. CASE RejectSource
    <2>1. /\ pc = "checking" /\ req.route = "range" /\ JdcValid
          /\ From = Unresolved /\ Refuse(Unknown(<<req.from>>))
        BY <1>11 DEF RejectSource, Ranging
    <2>2. Refuse(Unknown(EndRefs)) /\ BadEnds(Unknown(EndRefs))
        BY <1>4, <1>10, <2>1 DEF BadEnds
    <2> QED BY <1>3, <2>2 DEF Refused
<1>12. CASE RejectRangeHull
    <2> DEFINE f == [error |-> "unknown_hull"]
    <2>1. /\ pc = "checking" /\ req.route = "range" /\ JdcValid /\ ~HullKnown
          /\ From # Unresolved /\ Refuse(f) /\ f.error = "unknown_hull"
        BY <1>12 DEF RejectRangeHull, Ranging
    <2> HIDE DEF f
    <2>2. BadHull(f)
        BY <1>4, <1>10, <2>1 DEF BadHull
    <2> QED BY <1>3, <2>1, <2>2 DEF Refused
<1>13. ASSUME NEW hits \in Hits(G, From, EffectiveRange), ComputeReachable(hits)
       PROVE  JumpInv'
    <2>1. pc = "checking" /\ Ranging /\ From # Unresolved /\ HullKnown
        BY <1>13 DEF ComputeReachable, Ranging
    <2>2. HasSource
        BY <2>1, SourceIsKnown
    <2>3. PICK list \in RangeAnswers(hits) :
              Answered([summary      |-> Summary(list),
                        jdc_level    |-> req.jdc_level,
                        effective_ly |-> EffectiveRange,
                        source       |-> SystemNamed(From),
                        hull         |-> HullShown,
                        reachable    |-> list])
        BY <1>13 DEF ComputeReachable, HullShown
    <2>4. PICK r : /\ Answered(r) /\ r.reachable = list /\ r.summary = Summary(list)
                   /\ r.source = SystemNamed(From) /\ r.effective_ly = EffectiveRange
                   /\ r.jdc_level = req.jdc_level /\ r.hull = HullShown
        BY <2>3
    <2>5. PICK lit, order : IsRange(r, lit, order)
        BY <2>2, <2>4, RangeAnswer
    <2>6. /\ JumpFrame /\ answer' = <<r>> /\ pc' = "answered"
          /\ failure' = NoFailure /\ Response' = r
        BY <1>2, <2>1, <2>4
    <2>7. IsRange(r, lit, order)' /\ HasSource'
        BY <2>2, <2>5, <2>6, AnswersStay, LevelStays
    <2>8. req'.route = "range"
        BY <2>7 DEF HasSource
    <2>9. RangeInv'
        BY <2>6, <2>7 DEF RangeInv
    <2> QED BY <2>6, <2>8, <2>9
            DEF JumpInv, AnswerInv, StagingInv, Staged, RefusalInv, NoFailure
<1> QED BY <1>5, <1>6, <1>7, <1>8, <1>9, <1>11, <1>12, <1>13 DEF JumpNext

LEMMA AnswersStep ==
    ASSUME LiveInv, HandlerInv, JumpInv, [Next]_vars
    PROVE  JumpInv'
<1>1. CASE LiveNext /\ UNCHANGED <<handlerVars, gateVars, answer>>
    <2>1. clock \in Nat /\ (clock' = clock \/ clock' = clock + 1)
        BY <1>1 DEF LiveNext, TimePasses, StoreGraph, StoreReloadTime, PollTick,
                    PollAnswered, PollFails, LiveInv
    <2>2. clock <= clock' /\ clock' \in Nat
        BY <2>1
    <2> QED BY <1>1, <2>1, <2>2, JumpInvStays
            DEF handlerVars, request, snapshots, JumpFrame
<1>2. ASSUME NEW body \in Bodies, Request(body), UNCHANGED answer PROVE JumpInv'
    <2>1. pc = "idle" /\ (pc' # "answered" \/ failure'.error = "malformed")
        BY <1>2 DEF Request, RefuseBody, LoadGraph
    <2> QED BY <1>2, <2>1, NothingYet DEF JumpInv, AnswerInv
<1>3. CASE LoadScout /\ UNCHANGED <<gateVars, answer>>
    <2>1. pc = "loading" /\ pc' = "checking" /\ answer' = answer
        BY <1>3 DEF LoadScout
    <2> QED BY <2>1, NothingYet DEF JumpInv, AnswerInv
<1>4. CASE GateNext /\ UNCHANGED answer
    <2>1. pc \in {"checking", "routing"} /\ req' = req
        BY <1>4, GateSteps DEF Refuses, Proceeds, request
    <2>2. answer' = << >>
        BY <1>4, <2>1 DEF JumpInv, AnswerInv
    <2>3. pc = "routing" \/ Checking
        BY <1>4 DEF GateNext, RejectBounds, RejectUnknown, AcceptHeader,
                    FillUnknown, FillUnreachable, FillRoute
    <2>4. req.route = "system"
        BY <2>3 DEF Checking, HandlerInv
    <2> QED BY <2>1, <2>2, <2>4, NothingYet
<1>5. CASE JumpNext
    BY <1>5, JumpStep
<1>6. CASE UNCHANGED vars
    <2>1. clock' = clock /\ clock \in Nat
        BY <1>6 DEF vars, liveVars, LiveInv
    <2> QED BY <1>6, <2>1, JumpInvStays
            DEF vars, handlerVars, request, snapshots, JumpFrame
<1> QED BY <1>1, <1>2, <1>3, <1>4, <1>5, <1>6 DEF Next

RouterSafe == GateSafe /\ JumpInv

LEMMA RouterIsSafe == Spec => []RouterSafe
<1>1. GateSafe /\ JumpInv /\ [Next]_vars => JumpInv'
    BY AnswersStep DEF GateSafe
<1> QED BY <1>1, JumpHolds, GateIsSafe, PTL DEF Spec, RouterSafe

----------------------------------------------------------------------------
(* Jump routes: what the answers are.                                      *)

(***************************************************************************)
(* A staging answer names its stages by their ids.                         *)
(***************************************************************************)
LEMMA RankingFacts ==
    ASSUME HasEnds, NEW order, NEW jumps, IsRanking(order, jumps)
    PROVE  /\ Len(order) \in Nat \ {0} /\ DOMAIN order = 1..Len(order)
           /\ 1 \in DOMAIN order
           /\ \A i \in DOMAIN order :
                 /\ order[i] \in DOMAIN jumps /\ jumps[order[i]] \in Nat
                 /\ order[i] \in 0..Size - 1 /\ MayBridge(order[i])
           /\ \A i, j \in DOMAIN order : i # j => order[i] # order[j]
           /\ \A n \in DOMAIN jumps : \E i \in DOMAIN order : order[i] = n
<1> DEFINE D == DOMAIN jumps
           n == Cardinality(D)
<1>1. D # {} /\ IsFiniteSet(D) /\ order \in SetToSeqs(D)
    BY DEF IsRanking
<1>2. \A m \in D : MayBridge(m) /\ jumps[m] \in Nat /\ m \in 0..Size - 1
    BY DEF IsRanking, MayBridge
<1> HIDE DEF D
<1>3. n \in Nat \ {0}
    BY <1>1, FS_CardinalityType, FS_EmptySet
<1>4. /\ order \in [1..n -> D] /\ Len(order) = n
      /\ \A i, j \in 1..n : i # j => order[i] # order[j]
      /\ \A x \in D : \E i \in 1..n : order[i] = x
    BY <1>1, EnumerationFacts
<1> HIDE DEF n
<1>5. DOMAIN order = 1..n /\ 1 \in 1..n /\ \A i \in 1..n : order[i] \in D
    BY <1>3, <1>4
<1> QED BY <1>2, <1>3, <1>4, <1>5 DEF D

LEMMA StagingFacts ==
    ASSUME HasEnds, NEW order, NEW jumps, IsRanking(order, jumps),
           NEW r, IsStaging(r, order, jumps)
    PROVE  LET star == order[1]
           IN  /\ star \in 0..Size - 1 /\ MayBridge(star) /\ jumps[star] \in Nat
               /\ Open(star) /\ IsLeg(r.chosen.gate_path, star, jumps[star])
               /\ r.chosen.gate_jumps = jumps[star] /\ r.effective_ly = EffectiveRange
               /\ r.chosen.bridge.from = SystemNamed(star)
               /\ r.chosen.bridge.from.system_id = IdOf(star)
               /\ r.chosen.bridge.to.system_id = IdOf(To)
               /\ r.chosen.bridge.jump_ly = Round2(Distance2(G, star, To))
               /\ (CHOOSE s \in SystemsOf : s.id = r.chosen.bridge.from.system_id)
                     = SystemAt(G, star)
               /\ (CHOOSE s \in SystemsOf : s.id = r.chosen.bridge.to.system_id)
                     = SystemAt(G, To)
<1> DEFINE star == order[1]
<1>1. star \in 0..Size - 1 /\ MayBridge(star) /\ jumps[star] \in Nat
    BY RankingFacts
<1>2. /\ Open(star) /\ IsLeg(r.chosen.gate_path, star, jumps[star])
      /\ r.chosen.gate_jumps = jumps[star] /\ r.effective_ly = EffectiveRange
      /\ r.chosen.bridge = [from     |-> SystemNamed(star),
                            to       |-> SystemNamed(To),
                            jump_ly  |-> Round2(Distance2(G, star, To)),
                            in_range |-> TRUE]
    BY DEF IsStaging
<1> HIDE DEF star
<1>3. SystemNamed(star).system_id = IdOf(star) /\ SystemNamed(To).system_id = IdOf(To)
    BY DEF SystemNamed, IdOf
<1>4. /\ r.chosen.bridge.from = SystemNamed(star)
      /\ r.chosen.bridge.from.system_id = IdOf(star)
      /\ r.chosen.bridge.to.system_id = IdOf(To)
      /\ r.chosen.bridge.jump_ly = Round2(Distance2(G, star, To))
    BY <1>2, <1>3
<1>5. /\ (CHOOSE s \in SystemsOf : s.id = IdOf(star)) = SystemAt(G, star)
      /\ (CHOOSE s \in SystemsOf : s.id = IdOf(To)) = SystemAt(G, To)
    BY <1>1, EndsFacts, SystemOfNode
<1> QED BY <1>1, <1>2, <1>4, <1>5 DEF star

(***************************************************************************)
(* The fleet can do what a staging answer says, for any map, signatures    *)
(* and body.                                                               *)
(***************************************************************************)
THEOREM StagingAnswersAreUsable == Spec => []StagingIsUsable
<1>1. RouterSafe => StagingIsUsable
    <2> SUFFICES ASSUME RouterSafe, Staged
                 PROVE  LET path   == Response.chosen.gate_path
                            bridge == Response.chosen.bridge
                            star   == CHOOSE s \in SystemsOf : s.id = bridge.from.system_id
                            b      == CHOOSE s \in SystemsOf : s.id = bridge.to.system_id
                        IN  /\ path[1].system_id \in Named(req.from)
                            /\ path[Len(path)].system_id = star.id
                            /\ IsAllowed(path, Ends, began)
                            /\ star.id \in Named(req.from) \/ ~Barred(star.id)
                            /\ b.id \in Named(req.to) /\ b.sec # "highsec"
                            /\ star \in Stageable(InRange(b, Response.effective_ly))
        BY DEF StagingIsUsable
    <2>1. HasEnds /\ DestOk(To)
        BY DEF RouterSafe, JumpInv, StagingInv
    <2>2. PICK order, jumps : IsRanking(order, jumps) /\ IsStaging(Response, order, jumps)
        BY DEF RouterSafe, JumpInv, StagingInv
    <2> DEFINE r == Response
               n == order[1]
    <2>3. /\ n \in 0..Size - 1 /\ MayBridge(n) /\ Open(n)
          /\ IsLeg(r.chosen.gate_path, n, jumps[n]) /\ r.effective_ly = EffectiveRange
          /\ (CHOOSE s \in SystemsOf : s.id = r.chosen.bridge.from.system_id)
                = SystemAt(G, n)
          /\ (CHOOSE s \in SystemsOf : s.id = r.chosen.bridge.to.system_id)
                = SystemAt(G, To)
        BY <2>1, <2>2, StagingFacts
    <2>4. /\ view \in Builds /\ EffectiveRange \in Nat /\ To \in 0..Size - 1
          /\ Named(req.from) = {IdOf(From)} /\ Named(req.to) = {IdOf(To)}
        BY <2>1, EndsFacts
    <2> HIDE DEF r, n
    <2>5. SystemAt(G, n).id = IdOf(n) /\ SystemAt(G, To).id = IdOf(To)
        BY DEF IdOf
    <2>6. /\ r.chosen.gate_path[1].system_id \in Named(req.from)
          /\ r.chosen.gate_path[Len(r.chosen.gate_path)].system_id = SystemAt(G, n).id
          /\ IsAllowed(r.chosen.gate_path, Ends, began)
        BY <2>3, <2>4, <2>5, StepsAreAllowed DEF IsLeg
    <2>7. SystemAt(G, n).id \in Named(req.from) \/ ~Barred(SystemAt(G, n).id)
        BY <2>3, <2>5 DEF Open
    <2>8. SystemAt(G, To).id \in Named(req.to) /\ SystemAt(G, To).sec # "highsec"
        BY <2>1, <2>4, <2>5 DEF DestOk
    <2>9. SystemAt(G, n) \in Stageable(InRange(SystemAt(G, To), EffectiveRange))
        BY <2>1, <2>3, StagesAreNodes
    <2> QED BY <2>3, <2>6, <2>7, <2>8, <2>9 DEF r
<1> QED BY <1>1, RouterIsSafe, PTL

(***************************************************************************)
(* Without a ship the range echoed is that of the worst Black Ops hull of  *)
(* the loaded build, and the named ship's otherwise, for any catalog and   *)
(* however the products are rounded.                                       *)
(***************************************************************************)
THEOREM DefaultRangesAreConservative == Spec => []DefaultRangeIsConservative
<1>1. RouterSafe => DefaultRangeIsConservative
    <2> SUFFICES ASSUME RouterSafe, Staged
                 PROVE  LET range == Response.effective_ly
                            given == IF Response.defaulted THEN BlackOps
                                     ELSE HullsNamed(req.ship)
                        IN  /\ \E h \in given : range \in Around(RangeOf(h))
                            /\ Response.defaulted =>
                                  \A h \in BlackOps : range <= RangeOf(h) + 1
        BY DEF DefaultRangeIsConservative
    <2>1. HasLevel /\ HullKnown
        BY DEF RouterSafe, JumpInv, StagingInv, HasEnds
    <2>2. PICK order, jumps : IsStaging(Response, order, jumps)
        BY DEF RouterSafe, JumpInv, StagingInv
    <2>3. /\ Response.effective_ly = EffectiveRange
          /\ Response.defaulted = (req.ship = NoShip)
        BY <2>2 DEF IsStaging
    <2>4. CASE req.ship = NoShip
        BY <2>1, <2>3, <2>4, RangeFacts
    <2>5. CASE req.ship # NoShip
        BY <2>1, <2>3, <2>5, RangeFacts
    <2> QED BY <2>4, <2>5
<1> QED BY <1>1, RouterIsSafe, PTL

(***************************************************************************)
(* What lies within some jumps, and what a complete ranking says of it.    *)
(***************************************************************************)
LEMMA WithinMeans ==
    ASSUME view \in Builds, NEW jumps \in Nat, NEW systems, NEW x \in Within(jumps, systems)
    PROVE  /\ x \in systems /\ (x.id \in Named(req.from) \/ ~Barred(x.id))
           /\ \E k \in 0..jumps : Reaches(Ends, clock, k, x.id)
<1> DEFINE w == WithinJumps(Ends, clock)
           m == Cardinality(AllIds)
           k == IF jumps \in DOMAIN w THEN jumps ELSE Cardinality(DOMAIN w) - 1
<1>1. m \in Nat /\ DOMAIN w = 0..m /\ Cardinality(DOMAIN w) - 1 = m
    BY WithinIsReached
<1>2. x \in systems /\ x.id \in w[k] /\ (x.id \in Named(req.from) \/ ~Barred(x.id))
    BY DEF Within, WithinAt
<1> HIDE DEF m
<1>3. k \in 0..jumps /\ k \in DOMAIN w
    <2> HIDE DEF w
    <2> QED BY <1>1
<1> HIDE DEF k
<1>4. Reaches(Ends, clock, k, x.id)
    BY <1>2, <1>3, WithinIsReaches
<1> QED BY <1>2, <1>3, <1>4

LEMMA CompleteWithin ==
    ASSUME HasEnds, NEW stages, NEW ways, NEW s \in 0..clock, Complete(stages, ways, s),
           \A n \in stages : ways[n] \in Nat,
           NEW systems, systems \subseteq Stageable(WellInRange(SystemAt(G, To), EffectiveRange)),
           NEW jumps \in Nat, NEW x \in Within(jumps, systems)
    PROVE  /\ x \in systems
           /\ \E n \in stages : /\ n \in 0..Size - 1 /\ x = SystemAt(G, n) /\ x.id = IdOf(n)
                                /\ req.preference = "shortest" => ways[n] <= jumps
<1>1. view \in Builds /\ clock \in Nat /\ s <= clock
    BY EndsFacts DEF HasEnds
<1>2. x \in systems /\ (x.id \in Named(req.from) \/ ~Barred(x.id))
    BY <1>1, WithinMeans
<1>3. PICK k \in 0..jumps : Reaches(Ends, clock, k, x.id)
    BY <1>1, WithinMeans
<1>4. x \in SystemsOf
    BY <1>2 DEF Stageable, WellInRange
<1>5. PICK n \in 0..Size - 1 : x = SystemAt(G, n)
    BY <1>1, <1>4, NodeFacts
<1>6. MustBridge(n)
    BY <1>2, <1>5, StagesAreNodes
<1>7. x.id = IdOf(n) /\ Open(n)
    BY <1>2, <1>5 DEF Open, IdOf
<1>8. n \in stages /\ (req.preference = "shortest" => ways[n] <= k)
    BY <1>1, <1>3, <1>6, <1>7 DEF Complete
<1>9. req.preference = "shortest" => ways[n] <= jumps
    BY <1>8
<1> QED BY <1>2, <1>5, <1>7, <1>8, <1>9

LEMMA NoneUnknown ==
    ASSUME view \in Builds, NEW refs
    PROVE  UnknownIn(refs) <=> ~AllResolve(G, refs)
<1>1. ASSUME NEW i \in DOMAIN refs
      PROVE  Named(refs[i]) = {} <=> ResolveSystem(G, refs[i]) = Unresolved
    BY NamedFacts
<1> QED BY <1>1 DEF UnknownIn, AllResolve

(***************************************************************************)
(* The reference that a refusal shows is the first unknown one, also of a  *)
(* list that goes on.                                                      *)
(***************************************************************************)
LEMMA UnknownIsFirst ==
    ASSUME view \in Builds, NEW refs \in Seq(Ref), ~AllResolve(G, refs)
    PROVE  /\ Unknown(refs).error = "unknown_system"
           /\ IsFirstUnknown(Unknown(refs).ref, refs)
<1>1. Len(refs) \in Nat /\ DOMAIN refs = 1..Len(refs)
    OBVIOUS
<1>2. PICK i \in 1..Len(refs) :
          /\ FirstUnknown(G, refs) = refs[i]
          /\ ResolveSystem(G, refs[i]) = Unresolved
          /\ \A j \in 1..i - 1 : ResolveSystem(G, refs[j]) # Unresolved
    BY <1>1, FirstUnknownIsUnknown
<1>3. Named(refs[i]) = {} /\ \A j \in 1..i - 1 : Named(refs[j]) # {}
    BY <1>2, NamedFacts
<1> QED BY <1>1, <1>2, <1>3 DEF Unknown, IsFirstUnknown

LEMMA FirstOfBoth ==
    ASSUME NEW s \in Seq(Ref), NEW t \in Seq(Ref), NEW ref
    PROVE  /\ IsFirstUnknown(ref, s) => IsFirstUnknown(ref, s \o t)
           /\ ~UnknownIn(s) /\ IsFirstUnknown(ref, t) => IsFirstUnknown(ref, s \o t)
<1> DEFINE u == s \o t
           a == Len(s)
           b == Len(t)
<1>1. /\ a \in Nat /\ b \in Nat
      /\ DOMAIN s = 1..a /\ DOMAIN t = 1..b /\ DOMAIN u = 1..a + b
      /\ \A i \in 1..a : u[i] = s[i]
      /\ \A i \in 1..b : u[a + i] = t[i]
    OBVIOUS
<1> HIDE DEF u, a, b
<1>2. ASSUME IsFirstUnknown(ref, s) PROVE IsFirstUnknown(ref, u)
    <2>1. PICK i \in 1..a : /\ ref = s[i] /\ Named(ref) = {}
                            /\ \A j \in 1..i - 1 : Named(s[j]) # {}
        BY <1>1, <1>2 DEF IsFirstUnknown
    <2>2. i \in 1..a + b /\ \A j \in 1..i - 1 : j \in 1..a
        BY <1>1
    <2> QED BY <1>1, <2>1, <2>2 DEF IsFirstUnknown
<1>3. ASSUME ~UnknownIn(s), IsFirstUnknown(ref, t) PROVE IsFirstUnknown(ref, u)
    <2>1. PICK i \in 1..b : /\ ref = t[i] /\ Named(ref) = {}
                            /\ \A j \in 1..i - 1 : Named(t[j]) # {}
        BY <1>1, <1>3 DEF IsFirstUnknown
    <2>2. /\ a + i \in 1..a + b
          /\ \A j \in 1..(a + i) - 1 : j \in 1..a \/ \E k \in 1..i - 1 : k \in 1..b /\ j = a + k
        <3>1. ASSUME NEW j \in 1..(a + i) - 1, j \notin 1..a
              PROVE  j - a \in 1..i - 1 /\ j - a \in 1..b /\ j = a + (j - a)
            BY <1>1, <3>1
        <3> QED BY <1>1, <3>1
    <2>3. \A j \in 1..a : Named(u[j]) # {}
        BY <1>1, <1>3 DEF UnknownIn
    <2>4. \A j \in 1..(a + i) - 1 : Named(u[j]) # {}
        BY <1>1, <2>1, <2>2, <2>3
    <2> QED BY <1>1, <2>1, <2>2, <2>4 DEF IsFirstUnknown
<1> QED BY <1>2, <1>3 DEF u

(***************************************************************************)
(* What is wrong with a request, in its order.                             *)
(***************************************************************************)
LEMMA StagingFaults ==
    ASSUME req.route = "blops"
    PROVE  /\ DOMAIN Faults = 1..4
           /\ Faults[1].error = "invalid_param" /\ (Faults[1].holds <=> ~JdcValid)
           /\ Faults[2].error = "unknown_hull" /\ (Faults[2].holds <=> NoSuchHull)
           /\ Faults[3].error = "unknown_system" /\ (Faults[3].holds <=> UnknownIn(EndRefs))
           /\ Faults[4].error = "cyno_target_highsec"
           /\ Faults[4].holds <=> \A s \in SystemsNamed(req.to) : s.sec = "highsec"
<1> DEFINE high == \A s \in SystemsNamed(req.to) : s.sec = "highsec"
           a == [error |-> "invalid_param",  holds |-> ~JdcValid]
           b == [error |-> "unknown_hull",   holds |-> NoSuchHull]
           c == [error |-> "unknown_system", holds |-> UnknownIn(EndRefs)]
           d == [error |-> "cyno_target_highsec", holds |-> high]
<1>1. Faults = <<a, b, c, d>>
    BY DEF Faults, JdcValid
<1> HIDE DEF high
<1>2. /\ a.error = "invalid_param" /\ (a.holds <=> ~JdcValid)
      /\ b.error = "unknown_hull" /\ (b.holds <=> NoSuchHull)
      /\ c.error = "unknown_system" /\ (c.holds <=> UnknownIn(EndRefs))
      /\ d.error = "cyno_target_highsec" /\ (d.holds <=> high)
    OBVIOUS
<1> HIDE DEF a, b, c, d
<1>3. /\ DOMAIN Faults = 1..4
      /\ Faults[1] = a /\ Faults[2] = b /\ Faults[3] = c /\ Faults[4] = d
    BY <1>1
<1> QED BY <1>2, <1>3 DEF high

LEMMA RangeFaults ==
    ASSUME req.route = "range"
    PROVE  /\ DOMAIN Faults = 1..3
           /\ Faults[1].error = "invalid_param" /\ (Faults[1].holds <=> ~JdcValid)
           /\ Faults[2].error = "unknown_system" /\ (Faults[2].holds <=> UnknownIn(EndRefs))
           /\ Faults[3].error = "unknown_hull" /\ (Faults[3].holds <=> NoSuchHull)
<1> DEFINE a == [error |-> "invalid_param",  holds |-> ~JdcValid]
           b == [error |-> "unknown_system", holds |-> UnknownIn(EndRefs)]
           c == [error |-> "unknown_hull",   holds |-> NoSuchHull]
<1>1. Faults = <<a, b, c>>
    BY DEF Faults, JdcValid
<1>2. /\ a.error = "invalid_param" /\ (a.holds <=> ~JdcValid)
      /\ b.error = "unknown_system" /\ (b.holds <=> UnknownIn(EndRefs))
      /\ c.error = "unknown_hull" /\ (c.holds <=> NoSuchHull)
    OBVIOUS
<1> HIDE DEF a, b, c
<1>3. DOMAIN Faults = 1..3 /\ Faults[1] = a /\ Faults[2] = b /\ Faults[3] = c
    BY <1>1
<1> QED BY <1>2, <1>3

\* A request whose ends are fine, in the words of the properties.
LEMMA EndsMean ==
    ASSUME HasEnds
    PROVE  /\ req.route = "blops" /\ view \in Builds
           /\ B = SystemAt(G, To) /\ EffectiveRange \in RangesMeant
           /\ JdcValid /\ ~NoSuchHull /\ ~UnknownIn(EndRefs)
           /\ DestOk(To) <=> ~\A s \in SystemsNamed(req.to) : s.sec = "highsec"
           /\ EndRefs \in Seq(Ref) /\ OverlayRefs \in Seq(Ref)
           /\ AllResolve(G, OverlayRefs) <=> ~UnknownIn(OverlayRefs)
<1>1. /\ req.route = "blops" /\ HasLevel /\ HullKnown /\ RequestOK(req)
      /\ From # Unresolved /\ To # Unresolved
    BY DEF HasEnds
<1>2. /\ view \in Builds /\ EffectiveRange \in RangesMeant
      /\ (CHOOSE s \in SystemsOf : s.id \in Named(req.to)) = SystemAt(G, To)
      /\ SystemsNamed(req.to) = {SystemAt(G, To)}
    BY EndsFacts
<1>3. JdcValid /\ ~NoSuchHull
    BY <1>1, RangeFacts DEF HasLevel
<1>4. EndRefs = <<req.from, req.to>>
    BY <1>1 DEF EndRefs
<1>5. AllResolve(G, EndRefs)
    BY <1>1, <1>4 DEF AllResolve, From, To
<1>6. req.from \in Ref /\ req.to \in Ref /\ OverlayFieldsOK(req)
    BY <1>1 DEF RequestOK
<1>7. OverlayRefs \in Seq(Ref) /\ EndRefs \in Seq(Ref)
    BY <1>4, <1>6, HeaderRefs
<1>8. DestOk(To) <=> ~\A s \in SystemsNamed(req.to) : s.sec = "highsec"
    BY <1>2 DEF DestOk
<1> QED BY <1>1, <1>2, <1>3, <1>5, <1>7, <1>8, NoneUnknown DEF B

LEMMA StagesMean ==
    ASSUME HasEnds
    PROVE  /\ (\A n : ~MustBridge(n)) => Stageable(WellInRange(B, EffectiveRange)) = {}
           /\ (\E n : MayBridge(n)) => Stageable(InRange(B, EffectiveRange)) # {}
           /\ (\E s \in 0..clock : Complete({}, << >>, s)) =>
                 Within(AnyJumps, Stageable(WellInRange(B, EffectiveRange))) = {}
<1> DEFINE stages == Stageable(WellInRange(B, EffectiveRange))
<1>1. B = SystemAt(G, To) /\ view \in Builds
    BY EndsMean
<1>2. ASSUME \A n : ~MustBridge(n), NEW x \in stages PROVE FALSE
    <2>1. x \in SystemsOf
        BY DEF Stageable, WellInRange
    <2>2. PICK n \in 0..Size - 1 : x = SystemAt(G, n)
        BY <1>1, <2>1, NodeFacts
    <2> QED BY <1>1, <1>2, <2>2, StagesAreNodes
<1>3. ASSUME NEW n, MayBridge(n) PROVE Stageable(InRange(B, EffectiveRange)) # {}
    <2>1. n \in 0..Size - 1
        BY <1>3 DEF MayBridge
    <2> QED BY <1>1, <1>3, <2>1, StagesAreNodes
<1>4. ASSUME NEW s \in 0..clock, Complete({}, << >>, s), NEW x \in Within(AnyJumps, stages)
      PROVE  FALSE
    <2>1. AnyJumps \in Nat /\ stages = Stageable(WellInRange(SystemAt(G, To), EffectiveRange))
        BY <1>1, SystemsAreFinite DEF AnyJumps
    <2> DEFINE none  == << >>
               jumps == AnyJumps
    <2>2. jumps \in Nat /\ x \in Within(jumps, stages) /\ Complete({}, none, s)
        BY <1>4, <2>1
    <2> HIDE DEF none, jumps, stages
    <2> QED BY <2>1, <2>2, CompleteWithin
<1> QED BY <1>2, <1>3, <1>4

(***************************************************************************)
(* A refusal has its reason: a fault that comes first, or what is wrong    *)
(* with a request that has none of them.                                   *)
(***************************************************************************)
AllRefs == IF req.route = "range" THEN EndRefs ELSE EndRefs \o OverlayRefs

FirstFault(i) == Faults[i].holds /\ \A j \in 1..i - 1 : ~Faults[j].holds

LaterReason(f) ==
    LET sure(range)     == Stageable(WellInRange(B, range))
        possible(range) == Stageable(InRange(B, range))
    IN  CASE f.error = "no_staging_in_range" ->
                req.route = "blops" /\ \E range \in RangesMeant : sure(range) = {}
          [] f.error = "unknown_system" ->
                /\ req.route = "blops" /\ UnknownIn(OverlayRefs)
                /\ \E range \in RangesMeant : possible(range) # {}
          [] f.error = "staging_unreachable" ->
                /\ req.route = "blops" /\ ~UnknownIn(OverlayRefs)
                /\ \E range \in RangesMeant :
                      possible(range) # {} /\ Within(AnyJumps, sure(range)) = {}
          [] OTHER ->
                /\ f = NoFailure
                /\ req.route = "blops" => ~UnknownIn(OverlayRefs)

HasReason(f) ==
    /\ \A i \in DOMAIN Faults : FirstFault(i) => f.error = Faults[i].error
    /\ f.error = "unknown_system" => IsFirstUnknown(f.ref, AllRefs)
    /\ (\A i \in DOMAIN Faults : ~Faults[i].holds) => LaterReason(f)

LEMMA FaultIsReason ==
    ASSUME NEW f, NEW n \in Nat, DOMAIN Faults = 1..n, NEW k \in 1..n, FirstFault(k),
           f.error = Faults[k].error,
           f.error = "unknown_system" => IsFirstUnknown(f.ref, AllRefs)
    PROVE  HasReason(f)
<1>1. ASSUME NEW i \in 1..n, FirstFault(i) PROVE i = k
    <2>1. ~(i < k) /\ ~(k < i)
        BY <1>1 DEF FirstFault
    <2> QED BY <2>1
<1>2. Faults[k].holds
    BY DEF FirstFault
<1> QED BY <1>1, <1>2 DEF HasReason

LEMMA NoFaultOfStaging ==
    ASSUME HasEnds, DestOk(To)
    PROVE  \A i \in DOMAIN Faults : ~Faults[i].holds
<1>1. \A i : i \in 1..4 <=> i = 1 \/ i = 2 \/ i = 3 \/ i = 4
    OBVIOUS
<1>2. ~Faults[1].holds /\ ~Faults[2].holds /\ ~Faults[3].holds /\ ~Faults[4].holds
    BY EndsMean, StagingFaults
<1>3. DOMAIN Faults = 1..4
    BY EndsMean, StagingFaults
<1> QED BY <1>1, <1>2, <1>3

LEMMA RefusedHasReason ==
    ASSUME req.route \in {"blops", "range"}, NEW f, Refused(f)
    PROVE  HasReason(f)
<1>1. /\ \A j : j \in 1..1 - 1 <=> FALSE
      /\ \A j : j \in 1..2 - 1 <=> j = 1
      /\ \A j : j \in 1..3 - 1 <=> j = 1 \/ j = 2
      /\ \A j : j \in 1..4 - 1 <=> j = 1 \/ j = 2 \/ j = 3
    OBVIOUS
<1>2. CASE BadLevel(f)
    <2>1. /\ f.error = "invalid_param" /\ FirstFault(1) /\ f.error = Faults[1].error
          /\ DOMAIN Faults = 1..4 \/ DOMAIN Faults = 1..3
        BY <1>1, <1>2, StagingFaults, RangeFaults DEF BadLevel, FirstFault
    <2>2. 1 \in 1..4 /\ 1 \in 1..3 /\ 3 \in Nat /\ 4 \in Nat
        OBVIOUS
    <2> QED BY <2>1, <2>2, FaultIsReason
<1>3. CASE BadHull(f)
    <2>1. /\ f.error = "unknown_hull" /\ HasLevel /\ JdcValid /\ NoSuchHull
          /\ req.route = "range" => ~UnknownIn(EndRefs)
        BY <1>3, RangeFacts, NoneUnknown DEF BadHull, HasLevel
    <2>2. CASE req.route = "blops"
        <3>1. FirstFault(2) /\ f.error = Faults[2].error /\ DOMAIN Faults = 1..4
            BY <1>1, <2>1, <2>2, StagingFaults DEF FirstFault
        <3>2. 2 \in 1..4 /\ 4 \in Nat
            OBVIOUS
        <3> QED BY <2>1, <3>1, <3>2, FaultIsReason
    <2>3. CASE req.route = "range"
        <3>1. FirstFault(3) /\ f.error = Faults[3].error /\ DOMAIN Faults = 1..3
            BY <1>1, <2>1, <2>3, RangeFaults DEF FirstFault
        <3>2. 3 \in 1..3 /\ 3 \in Nat
            OBVIOUS
        <3> QED BY <2>1, <3>1, <3>2, FaultIsReason
    <2> QED BY <2>2, <2>3
<1>4. CASE BadEnds(f)
    <2>1. /\ f = Unknown(EndRefs) /\ HasLevel /\ view \in Builds /\ RequestOK(req)
          /\ ~AllResolve(G, EndRefs) /\ JdcValid
          /\ req.route = "blops" => ~NoSuchHull
        BY <1>4, RangeFacts DEF BadEnds, HasLevel
    <2>2. /\ EndRefs \in Seq(Ref)
          /\ req.route = "blops" => OverlayRefs \in Seq(Ref)
        <3>1. CASE req.route = "blops"
            <4>1. req.from \in Ref /\ req.to \in Ref /\ OverlayFieldsOK(req)
                BY <2>1, <3>1 DEF RequestOK
            <4>2. EndRefs = <<req.from, req.to>>
                BY <3>1 DEF EndRefs
            <4> QED BY <4>1, <4>2, HeaderRefs
        <3>2. CASE req.route = "range"
            <4>1. req.from \in Ref /\ EndRefs = <<req.from>>
                BY <2>1, <3>2 DEF RequestOK, EndRefs
            <4> QED BY <3>2, <4>1
        <3> QED BY <3>1, <3>2
    <2>3. /\ f.error = "unknown_system" /\ IsFirstUnknown(f.ref, EndRefs)
          /\ UnknownIn(EndRefs)
        BY <2>1, <2>2, UnknownIsFirst, NoneUnknown
    <2>4. CASE req.route = "blops"
        <3>1. FirstFault(3) /\ f.error = Faults[3].error /\ DOMAIN Faults = 1..4
            BY <1>1, <2>1, <2>3, <2>4, StagingFaults DEF FirstFault
        <3>2. 3 \in 1..4 /\ 4 \in Nat
            OBVIOUS
        <3>3. IsFirstUnknown(f.ref, AllRefs)
            BY <2>2, <2>3, <2>4, FirstOfBoth DEF AllRefs
        <3> QED BY <3>1, <3>2, <3>3, FaultIsReason
    <2>5. CASE req.route = "range"
        <3>1. FirstFault(2) /\ f.error = Faults[2].error /\ DOMAIN Faults = 1..3
            BY <1>1, <2>1, <2>3, <2>5, RangeFaults DEF FirstFault
        <3>2. 2 \in 1..3 /\ 3 \in Nat
            OBVIOUS
        <3>3. IsFirstUnknown(f.ref, AllRefs)
            BY <2>3, <2>5 DEF AllRefs
        <3> QED BY <3>1, <3>2, <3>3, FaultIsReason
    <2> QED BY <2>4, <2>5
<1>5. CASE BadTarget(f)
    <2>1. f.error = "cyno_target_highsec" /\ HasEnds /\ ~DestOk(To)
        BY <1>5 DEF BadTarget
    <2>2. FirstFault(4) /\ f.error = Faults[4].error /\ DOMAIN Faults = 1..4
        BY <1>1, <2>1, EndsMean, StagingFaults DEF FirstFault
    <2>3. 4 \in 1..4 /\ 4 \in Nat
        OBVIOUS
    <2> QED BY <2>1, <2>2, <2>3, FaultIsReason
<1>6. ASSUME HasEnds, DestOk(To), LaterReason(f),
             f.error = "unknown_system" => IsFirstUnknown(f.ref, AllRefs)
      PROVE  HasReason(f)
    <2>1. \A i \in DOMAIN Faults : ~FirstFault(i)
        BY <1>6, NoFaultOfStaging DEF FirstFault
    <2> QED BY <1>6, <2>1 DEF HasReason
<1>7. CASE NoneNear(f)
    <2>1. f.error = "no_staging_in_range" /\ HasEnds /\ DestOk(To) /\ \A n : ~MustBridge(n)
        BY <1>7 DEF NoneNear
    <2>2. Stageable(WellInRange(B, EffectiveRange)) = {}
        BY <2>1, StagesMean
    <2>3. req.route = "blops" /\ EffectiveRange \in RangesMeant
        BY <2>1, EndsMean
    <2>4. LaterReason(f)
        BY <2>1, <2>2, <2>3 DEF LaterReason
    <2> QED BY <1>6, <2>1, <2>4
<1>8. SomeNear => /\ HasEnds /\ DestOk(To) /\ req.route = "blops"
                  /\ EffectiveRange \in RangesMeant
                  /\ Stageable(InRange(B, EffectiveRange)) # {}
    BY EndsMean, StagesMean DEF SomeNear
<1>9. CASE BadOverlay(f)
    <2>1. f = Unknown(OverlayRefs) /\ SomeNear /\ ~AllResolve(G, OverlayRefs)
        BY <1>9 DEF BadOverlay
    <2>2. /\ view \in Builds /\ EndRefs \in Seq(Ref) /\ OverlayRefs \in Seq(Ref)
          /\ ~UnknownIn(EndRefs) /\ UnknownIn(OverlayRefs)
        BY <1>8, <2>1, EndsMean
    <2>3. f.error = "unknown_system" /\ IsFirstUnknown(f.ref, OverlayRefs)
        BY <2>1, <2>2, UnknownIsFirst
    <2>4. IsFirstUnknown(f.ref, AllRefs)
        BY <1>8, <2>1, <2>2, <2>3, FirstOfBoth DEF AllRefs
    <2>5. LaterReason(f)
        BY <1>8, <2>1, <2>2, <2>3 DEF LaterReason
    <2> QED BY <1>6, <1>8, <2>1, <2>4, <2>5
<1>10. CASE NoneReached(f)
    <2>1. /\ f.error = "staging_unreachable" /\ SomeNear /\ AllResolve(G, OverlayRefs)
          /\ \E s \in 0..clock : Complete({}, << >>, s)
        BY <1>10 DEF NoneReached
    <2>2. ~UnknownIn(OverlayRefs)
        BY <1>8, <2>1, EndsMean
    <2>3. Within(AnyJumps, Stageable(WellInRange(B, EffectiveRange))) = {}
        BY <1>8, <2>1, StagesMean
    <2>4. LaterReason(f)
        BY <1>8, <2>1, <2>2, <2>3 DEF LaterReason
    <2> QED BY <1>6, <1>8, <2>1, <2>4
<1> QED BY <1>2, <1>3, <1>4, <1>5, <1>7, <1>9, <1>10 DEF Refused

(***************************************************************************)
(* An answer has nothing to be refused for.                                *)
(***************************************************************************)
LEMMA AnswerHasReason ==
    ASSUME JumpInv, answer # << >>
    PROVE  HasReason(failure)
<1>1. failure = NoFailure /\ failure.error = "none"
    BY DEF JumpInv, AnswerInv, NoFailure
<1>2. CASE req.route = "blops"
    <2>1. HasEnds /\ DestOk(To) /\ AllResolve(G, OverlayRefs)
        BY <1>2 DEF JumpInv, StagingInv, Staged
    <2>2. ~UnknownIn(OverlayRefs) /\ \A i \in DOMAIN Faults : ~Faults[i].holds
        BY <2>1, EndsMean, NoFaultOfStaging
    <2> QED BY <1>1, <2>2 DEF HasReason, FirstFault, LaterReason
<1>3. CASE req.route = "range"
    <2>1. HasSource
        BY <1>3 DEF JumpInv, RangeInv, Ranged
    <2>2. /\ JdcValid /\ ~NoSuchHull /\ view \in Builds
        BY <2>1, RangeFacts DEF HasSource, HasLevel
    <2>3. AllResolve(G, EndRefs)
        BY <1>3, <2>1 DEF HasSource, EndRefs, AllResolve, From
    <2>4. ~Faults[1].holds /\ ~Faults[2].holds /\ ~Faults[3].holds /\ DOMAIN Faults = 1..3
        BY <1>3, <2>2, <2>3, RangeFaults, NoneUnknown
    <2>5. \A i : i \in 1..3 <=> i = 1 \/ i = 2 \/ i = 3
        OBVIOUS
    <2>6. \A i \in DOMAIN Faults : ~Faults[i].holds
        BY <2>4, <2>5
    <2> QED BY <1>1, <1>3, <2>6 DEF HasReason, FirstFault, LaterReason
<1> QED BY <1>2, <1>3 DEF JumpInv, AnswerInv

(***************************************************************************)
(* A refusal of a jump route has its reason in the build that was loaded,  *)
(* and the reason that comes first, for any map, catalog, signatures and   *)
(* body, and however late one asks; a request with a reason to be refused  *)
(* is never answered.                                                      *)
(***************************************************************************)
THEOREM JumpRefusalsAreReal == Spec => []RefusalsAreReal
<1>1. RouterSafe => RefusalsAreReal
    <2>1. ASSUME RouterSafe, req.route \in {"blops", "range"}, pc = "answered",
                 failure.error # "malformed"
          PROVE  HasReason(failure)
        <3>1. answer # << >> \/ Refused(failure)
            BY <2>1 DEF RouterSafe, JumpInv, RefusalInv
        <3>2. CASE answer # << >>
            BY <2>1, <3>2, AnswerHasReason DEF RouterSafe
        <3>3. CASE Refused(failure)
            <4>1. PICK f : f = failure
                OBVIOUS
            <4> QED BY <2>1, <3>3, <4>1, RefusedHasReason
        <3> QED BY <3>1, <3>2, <3>3
    <2> QED BY <2>1 DEF RefusalsAreReal, HasReason, LaterReason, FirstFault, AllRefs
<1> QED BY <1>1, RouterIsSafe, PTL

(***************************************************************************)
(* The stage of an answer is the best there is: no system in range is      *)
(* nearer by gates, and none as near is closer to the target, for any map, *)
(* signatures and body, and however late one asks.                         *)
(***************************************************************************)
THEOREM StagingAnswersAreNearest == Spec => []StagingIsNearest
<1>1. RouterSafe => StagingIsNearest
    <2> SUFFICES ASSUME RouterSafe, Staged, req.preference = "shortest"
                 PROVE  LET jumps  == Response.chosen.gate_jumps
                            star   == CHOOSE s \in SystemsOf :
                                          s.id = Response.chosen.bridge.from.system_id
                            b      == CHOOSE s \in SystemsOf : s.id \in Named(req.to)
                            stages == Stageable(WellInRange(b, Response.effective_ly))
                        IN  /\ Within(jumps - 1, stages) = {} \/ jumps = 0
                            /\ \A s \in Within(jumps, stages) : Apart2(star, b) <= Apart2(s, b)
        BY DEF StagingIsNearest
    <2> PICK s \in 0..clock : \E order, ways :
              /\ IsRanking(order, ways) /\ IsStaging(Response, order, ways)
              /\ Complete(DOMAIN ways, ways, s)
        BY DEF RouterSafe, JumpInv, StagingInv
    <2>1. HasEnds
        BY DEF RouterSafe, JumpInv, StagingInv
    <2>2. PICK order, ways : /\ IsRanking(order, ways) /\ IsStaging(Response, order, ways)
                             /\ Complete(DOMAIN ways, ways, s)
        OBVIOUS
    <2> DEFINE r == Response
               n == order[1]
               b == SystemAt(G, To)
               stages == Stageable(WellInRange(b, EffectiveRange))
               jumps == ways[n]
    <2>3. /\ n \in 0..Size - 1 /\ jumps \in Nat
          /\ r.chosen.gate_jumps = jumps /\ r.effective_ly = EffectiveRange
          /\ (CHOOSE x \in SystemsOf : x.id = r.chosen.bridge.from.system_id)
                = SystemAt(G, n)
        BY <2>1, <2>2, StagingFacts
    <2>4. /\ view \in Builds /\ To \in 0..Size - 1
          /\ (CHOOSE x \in SystemsOf : x.id \in Named(req.to)) = b
        BY <2>1, EndsFacts
    <2>5. /\ 1 \in DOMAIN order /\ DOMAIN order = 1..Len(order)
          /\ \A i \in DOMAIN order : order[i] \in DOMAIN ways /\ order[i] \in 0..Size - 1
          /\ \A m \in DOMAIN ways : ways[m] \in Nat /\ \E i \in DOMAIN order : order[i] = m
        BY <2>1, <2>2, RankingFacts DEF IsRanking
    <2>6. \A i, j \in DOMAIN order : i < j =>
              \/ ways[order[i]] < ways[order[j]]
              \/ /\ ways[order[i]] = ways[order[j]]
                 /\ Distance2(G, order[i], To) <= Distance2(G, order[j], To)
        BY <2>2 DEF IsRanking
    <2> HIDE DEF r, n, b, stages, jumps
    <2>7. ASSUME NEW k \in Nat, NEW x \in Within(k, stages)
          PROVE  \E m \in DOMAIN ways :
                    /\ x = SystemAt(G, m) /\ m \in 0..Size - 1 /\ ways[m] <= k
                    /\ \/ jumps < ways[m]
                       \/ jumps = ways[m] /\ Distance2(G, n, To) <= Distance2(G, m, To)
        <3>1. stages \subseteq Stageable(WellInRange(SystemAt(G, To), EffectiveRange))
            BY DEF stages, b
        <3>2. PICK m \in DOMAIN ways : m \in 0..Size - 1 /\ x = SystemAt(G, m) /\ ways[m] <= k
            BY <2>1, <2>2, <2>5, <3>1, CompleteWithin
        <3>3. PICK i \in DOMAIN order : order[i] = m
            BY <2>5
        <3>4. CASE i = 1
            <4>1. n = m /\ Distance2(G, m, To) \in Nat
                BY <2>4, <3>2, <3>3, <3>4, DistanceFacts DEF n
            <4> QED BY <3>2, <4>1 DEF jumps
        <3>5. CASE i # 1
            <4>1. 1 < i
                BY <2>5, <3>5
            <4> QED BY <2>5, <2>6, <3>2, <3>3, <4>1 DEF n, jumps
        <3> QED BY <3>4, <3>5
    <2>8. Within(jumps - 1, stages) = {} \/ jumps = 0
        <3> SUFFICES ASSUME jumps # 0, NEW x \in Within(jumps - 1, stages) PROVE FALSE
            OBVIOUS
        <3>1. jumps - 1 \in Nat
            BY <2>3
        <3>2. PICK m \in DOMAIN ways : ways[m] <= jumps - 1 /\ jumps <= ways[m]
            BY <2>3, <2>5, <2>7, <3>1
        <3> QED BY <2>3, <2>5, <3>2
    <2>9. ASSUME NEW x \in Within(jumps, stages)
          PROVE  Apart2(SystemAt(G, n), b) <= Apart2(x, b)
        <3>1. PICK m \in DOMAIN ways :
                  /\ x = SystemAt(G, m) /\ m \in 0..Size - 1 /\ ways[m] <= jumps
                  /\ \/ jumps < ways[m]
                     \/ jumps = ways[m] /\ Distance2(G, n, To) <= Distance2(G, m, To)
            BY <2>3, <2>7
        <3>2. Distance2(G, n, To) <= Distance2(G, m, To)
            BY <2>3, <2>5, <3>1
        <3> QED BY <2>3, <2>4, <3>1, <3>2, DistanceFacts DEF b
    <2> QED BY <2>3, <2>4, <2>8, <2>9 DEF r, stages
<1> QED BY <1>1, RouterIsSafe, PTL

(***************************************************************************)
(* The stage and its fallbacks are the head of the ranking.                *)
(***************************************************************************)
Listed(r) ==
    <<[system |-> r.chosen.bridge.from, gate_jumps |-> r.chosen.gate_jumps]>>
        \o r.alternates

LEMMA ListFacts ==
    ASSUME HasEnds, NEW order, NEW ways, IsRanking(order, ways),
           NEW r, IsStaging(r, order, ways)
    PROVE  \E len \in Nat \ {0} :
               /\ Len(Listed(r)) = len /\ DOMAIN Listed(r) = 1..len
               /\ len <= MAX_ALTERNATES + 1 /\ len <= Len(order)
               /\ ways[order[1]] = 0 => len = 1
               /\ ways[order[1]] # 0 /\ len # MAX_ALTERNATES + 1 => len = Len(order)
               /\ \A i \in 1..len :
                     /\ Listed(r)[i].system.system_id = IdOf(order[i])
                     /\ Listed(r)[i].gate_jumps = ways[order[i]]
<1> DEFINE star  == order[1]
           n     == Min({MAX_ALTERNATES, Len(order) - 1})
           entry(m) == [system     |-> SystemNamed(m),
                        gate_jumps |-> ways[m],
                        ly_to_b    |-> Round2(Distance2(G, m, To))]
           head  == [system |-> r.chosen.bridge.from, gate_jumps |-> r.chosen.gate_jumps]
           rest  == r.alternates
           a     == IF ways[star] = 0 THEN 0 ELSE n
<1>1. Len(order) \in Nat \ {0}
    BY RankingFacts
<1>2. /\ n \in Nat /\ n <= MAX_ALTERNATES /\ n <= Len(order) - 1
      /\ n = MAX_ALTERNATES \/ n = Len(order) - 1
    BY <1>1, AlternatesAssumption, LeastIsMin
<1> HIDE DEF n
<1>3. head.system.system_id = IdOf(star) /\ head.gate_jumps = ways[star]
    BY StagingFacts
<1>4. rest = IF ways[star] = 0 THEN << >> ELSE [i \in 1..n |-> entry(order[i + 1])]
    BY DEF IsStaging, n
<1>5. \A m : entry(m).system.system_id = IdOf(m) /\ entry(m).gate_jumps = ways[m]
    BY DEF SystemNamed, IdOf
<1>6. a \in Nat
    BY <1>2
<1> HIDE DEF entry, head, star
<1> DEFINE T == {entry(order[i + 1]) : i \in 1..a}
<1>7. /\ rest \in Seq(T) /\ Len(rest) = a
      /\ \A i \in 1..a : rest[i] = entry(order[i + 1])
    <2>1. CASE ways[star] = 0
        <3>1. rest = << >> /\ a = 0 /\ << >> \in Seq(T)
            BY <1>4, <2>1
        <3> HIDE DEF rest, a
        <3> QED BY <3>1
    <2>2. CASE ways[star] # 0
        <3>1. a = n /\ rest = [i \in 1..n |-> entry(order[i + 1])]
            BY <1>4, <2>2
        <3> HIDE DEF rest, a
        <3>2. /\ rest = [i \in 1..a |-> entry(order[i + 1])]
              /\ \A i \in 1..a : rest[i] = entry(order[i + 1]) /\ rest[i] \in T
            BY <3>1
        <3> HIDE DEF T
        <3> QED BY <1>6, <3>2
    <2> QED BY <2>1, <2>2
<1>8. Listed(r) = <<head>> \o rest
    BY DEF Listed, head
<1> DEFINE list == Listed(r)
<1> HIDE DEF rest, a, list, T
<1>9. /\ Len(list) = a + 1 /\ DOMAIN list = 1..a + 1
      /\ list[1] = head
      /\ \A i \in 2..a + 1 : list[i] = rest[i - 1]
    BY <1>6, <1>7, <1>8 DEF list
<1>10. ASSUME NEW i \in 1..a + 1
       PROVE  list[i].system.system_id = IdOf(order[i]) /\ list[i].gate_jumps = ways[order[i]]
    <2>1. CASE i = 1
        BY <1>3, <1>9, <2>1 DEF star
    <2>2. CASE i # 1
        <3>1. i \in 2..a + 1 /\ i - 1 \in 1..a /\ (i - 1) + 1 = i
            BY <1>6, <2>2
        <3>2. list[i] = entry(order[i])
            BY <1>7, <1>9, <3>1
        <3> QED BY <1>5, <3>2
    <2> QED BY <2>1, <2>2
<1>11. /\ a + 1 \in Nat \ {0} /\ a + 1 <= MAX_ALTERNATES + 1 /\ a + 1 <= Len(order)
       /\ ways[order[1]] = 0 => a + 1 = 1
       /\ ways[order[1]] # 0 /\ a + 1 # MAX_ALTERNATES + 1 => a + 1 = Len(order)
    BY <1>1, <1>2, <1>6, AlternatesAssumption DEF a, star
<1> QED BY <1>9, <1>10, <1>11 DEF list

(***************************************************************************)
(* An enumeration without repetition is as long as its set is large.       *)
(***************************************************************************)
LEMMA IdsAreDistinct ==
    ASSUME NEW len \in Nat, NEW T, NEW f \in [1..len -> T],
           \A i, j \in 1..len : i # j => f[i] # f[j],
           \A x \in T : \E i \in 1..len : f[i] = x
    PROVE  Cardinality(T) = len
<1>1. IsFiniteSet(1..len) /\ Cardinality(1..len) = len
    BY FS_Interval, SMTT(30)
<1>2. f \in Surjection(1..len, T)
    BY DEF Surjection
<1>3. f \in Injection(1..len, T)
    BY DEF Injection, IsInjective
<1> QED BY <1>1, <1>2, <1>3, FS_Surjection

(***************************************************************************)
(* The fallbacks of an answer are the next best, for any map, signatures   *)
(* and body.                                                               *)
(***************************************************************************)
THEOREM FallbacksAreTheNextBest == Spec => []FallbacksAreNextBest
<1>1. RouterSafe => FallbacksAreNextBest
    <2> SUFFICES ASSUME RouterSafe, Staged PROVE FallbacksAreNextBest
        BY DEF FallbacksAreNextBest
    <2> PICK s \in 0..clock : \E order, ways :
              /\ IsRanking(order, ways) /\ IsStaging(Response, order, ways)
              /\ Complete(DOMAIN ways, ways, s)
        BY DEF RouterSafe, JumpInv, StagingInv
    <2>1. HasEnds
        BY DEF RouterSafe, JumpInv, StagingInv
    <2>2. PICK order, ways : /\ IsRanking(order, ways) /\ IsStaging(Response, order, ways)
                             /\ Complete(DOMAIN ways, ways, s)
        OBVIOUS
    <2> DEFINE r     == Response
               list  == Listed(r)
               at(i) == CHOOSE x \in SystemsOf : x.id = list[i].system.system_id
               b     == SystemAt(G, To)
               near  == Stageable(InRange(b, EffectiveRange))
               well  == Stageable(WellInRange(b, EffectiveRange))
               left  == {x \in Within(AnyJumps, well) : \A i \in DOMAIN list : x # at(i)}
               least == ways[order[1]]
    <2>3. PICK len \in Nat \ {0} :
              /\ Len(list) = len /\ DOMAIN list = 1..len
              /\ len <= MAX_ALTERNATES + 1 /\ len <= Len(order)
              /\ least = 0 => len = 1
              /\ least # 0 /\ len # MAX_ALTERNATES + 1 => len = Len(order)
              /\ \A i \in 1..len :
                    /\ list[i].system.system_id = IdOf(order[i])
                    /\ list[i].gate_jumps = ways[order[i]]
        BY <2>1, <2>2, ListFacts
    <2>4. /\ Len(order) \in Nat \ {0} /\ DOMAIN order = 1..Len(order)
          /\ \A i \in DOMAIN order : order[i] \in 0..Size - 1 /\ ways[order[i]] \in Nat
          /\ \A i, j \in DOMAIN order : i # j => order[i] # order[j]
          /\ \A m \in DOMAIN ways : ways[m] \in Nat /\ \E i \in DOMAIN order : order[i] = m
          /\ \A i \in DOMAIN order : order[i] \in DOMAIN ways
        BY <2>1, <2>2, RankingFacts DEF IsRanking
    <2>5. /\ \A i, j \in DOMAIN order : i < j =>
                \/ ways[order[i]] < ways[order[j]]
                \/ /\ ways[order[i]] = ways[order[j]]
                   /\ Distance2(G, order[i], To) <= Distance2(G, order[j], To)
          /\ \A m \in DOMAIN ways : MayBridge(m) /\ Reached(m, ways[m])
        BY <2>2 DEF IsRanking
    <2>6. /\ view \in Builds /\ To \in 0..Size - 1
          /\ (CHOOSE x \in SystemsOf : x.id \in Named(req.to)) = b
          /\ clock \in Nat /\ s <= clock
        BY <2>1, EndsFacts DEF HasEnds
    <2>7. r.chosen.gate_jumps = least /\ r.effective_ly = EffectiveRange
        BY <2>1, <2>2, StagingFacts
    <2> HIDE DEF r, list, at, b, near, well, left, least
    <2>8. /\ \A i \in 1..len : i \in DOMAIN order
          /\ \A j \in DOMAIN order : len < j => len # Len(order)
        <3> DEFINE m == Len(order)
        <3>1. m \in Nat /\ len <= m /\ DOMAIN order = 1..m
            BY <2>3, <2>4
        <3> HIDE DEF m
        <3>2. /\ \A i \in 1..len : i \in 1..m
              /\ \A j \in 1..m : len < j => len # m
            BY <3>1
        <3> QED BY <3>1, <3>2 DEF m
    <2>9. \A i \in 1..len : at(i) = SystemAt(G, order[i])
        <3> SUFFICES ASSUME NEW i \in 1..len PROVE at(i) = SystemAt(G, order[i])
            OBVIOUS
        <3>1. list[i].system.system_id = IdOf(order[i]) /\ order[i] \in 0..Size - 1
            BY <2>3, <2>4, <2>8
        <3> QED BY <2>6, <3>1, SystemOfNode DEF at
    <2>10. ASSUME NEW i \in 1..len
           PROVE  /\ i \in DOMAIN order /\ order[i] \in 0..Size - 1
                  /\ order[i] \in DOMAIN ways /\ ways[order[i]] \in Nat
                  /\ MayBridge(order[i]) /\ Reached(order[i], ways[order[i]])
                  /\ at(i) = SystemAt(G, order[i])
        <3>1. i \in DOMAIN order
            BY <2>8
        <3>2. order[i] \in 0..Size - 1 /\ order[i] \in DOMAIN ways /\ ways[order[i]] \in Nat
            BY <2>4, <3>1
        <3>3. MayBridge(order[i]) /\ Reached(order[i], ways[order[i]])
            BY <2>5, <3>2
        <3> QED BY <2>9, <3>1, <3>2, <3>3
    <2>11. ASSUME NEW i \in 1..len
           PROVE  /\ at(i) \in near /\ at(i) \in SystemsOf
                  /\ at(i) \in WithinAt(began, ways[order[i]], near)
        <3> DEFINE n == order[i]
                   k == ways[n]
                   w == WithinJumps(Ends, began)
        <3>1. n \in 0..Size - 1 /\ MayBridge(n) /\ Reached(n, k) /\ at(i) = SystemAt(G, n)
            BY <2>10
        <3>2. at(i) \in near /\ at(i) \in SystemsOf
            BY <2>1, <2>6, <3>1, StagesAreNodes, NodeFacts DEF near, b
        <3>3. at(i).id = IdOf(n)
            BY <3>1 DEF IdOf
        <3>4. at(i).id \in Named(req.from) \/ ~Barred(at(i).id)
            BY <3>1, <3>3 DEF Reached, Open
        <3>5. k \in DOMAIN w /\ at(i).id \in w[k]
            BY <2>6, <3>1, <3>3, ReachesIsWithin DEF Reached
        <3> HIDE DEF k, w
        <3>6. at(i) \in WithinAt(began, k, near)
            BY <3>2, <3>4, <3>5 DEF WithinAt, w
        <3> QED BY <3>2, <3>6 DEF k
    <2>12. ASSUME NEW m \in 0..Size - 1
           PROVE  /\ Distance2(G, m, To) = Apart2(SystemAt(G, m), b)
                  /\ Distance2(G, m, To) \in Nat
        BY <2>6, DistanceFacts DEF b
    <2>13. ASSUME NEW i \in 1..len, NEW j \in 1..len, i < j
           PROVE  /\ at(i) # at(j)
                  /\ \/ list[i].gate_jumps < list[j].gate_jumps
                     \/ /\ list[i].gate_jumps = list[j].gate_jumps
                        /\ Apart2(at(i), b) <= Apart2(at(j), b)
        <3>1. /\ order[i] \in 0..Size - 1 /\ order[j] \in 0..Size - 1
              /\ order[i] # order[j]
              /\ at(i) = SystemAt(G, order[i]) /\ at(j) = SystemAt(G, order[j])
              /\ i \in DOMAIN order /\ j \in DOMAIN order
            <4>1. i # j
                BY <2>13
            <4> QED BY <2>4, <2>10, <4>1
        <3>2. at(i) # at(j)
            BY <2>6, <3>1, SystemOfNode
        <3>3. \/ ways[order[i]] < ways[order[j]]
              \/ /\ ways[order[i]] = ways[order[j]]
                 /\ Distance2(G, order[i], To) <= Distance2(G, order[j], To)
            BY <2>5, <2>13, <3>1
        <3>4. /\ list[i].gate_jumps = ways[order[i]] /\ list[j].gate_jumps = ways[order[j]]
            BY <2>3
        <3>5. /\ Distance2(G, order[i], To) = Apart2(at(i), b)
              /\ Distance2(G, order[j], To) = Apart2(at(j), b)
            BY <2>12, <3>1
        <3> QED BY <3>2, <3>3, <3>4, <3>5
    <2>14. /\ left \subseteq Within(AnyJumps, well) /\ left \subseteq well
           /\ AnyJumps \in Nat
           /\ well = Stageable(WellInRange(SystemAt(G, To), EffectiveRange))
        <3>1. AnyJumps \in Nat
            BY <2>6, SystemsAreFinite DEF AnyJumps
        <3>2. \A x \in left : x \in Within(AnyJumps, well) /\ \A i \in DOMAIN list : x # at(i)
            BY DEF left
        <3> QED BY <2>6, <3>1, <3>2, WithinMeans DEF well, b
    <2>15. ASSUME NEW x \in left, NEW m \in DOMAIN ways, x = SystemAt(G, m)
           PROVE  \E j \in DOMAIN order : order[j] = m /\ len < j
        <3>1. PICK j \in DOMAIN order : order[j] = m
            BY <2>4
        <3>2. \A i \in 1..len : x # at(i)
            BY <2>3 DEF left
        <3>3. ~(j \in 1..len)
            BY <2>9, <2>15, <3>1, <3>2
        <3>4. j \in Nat /\ j > 0 /\ len \in Nat
            <4>1. Len(order) \in Nat /\ DOMAIN order = 1..Len(order) /\ len \in Nat
                BY <2>3, <2>4, ZenonT(40)
            <4> QED BY <4>1
        <3>5. len < j
            BY <3>3, <3>4
        <3> QED BY <3>1, <3>5
    <2>16. ASSUME least > 0, left # {} PROVE len = MAX_ALTERNATES + 1
        <3>1. PICK x \in left : x \in Within(AnyJumps, well)
            BY <2>14, <2>16
        <3>2. PICK m \in DOMAIN ways : x = SystemAt(G, m)
            BY <2>1, <2>2, <2>4, <2>14, <3>1, CompleteWithin
        <3>3. PICK j \in DOMAIN order : len < j
            BY <2>15, <3>2
        <3>4. len # Len(order) /\ least # 0
            BY <2>8, <2>16, <3>3
        <3> QED BY <2>3, <3>4
    <2>17. ASSUME NEW i \in 1..len PROVE ways[order[i]] \in Nat /\ least <= ways[order[i]]
        <3>1. 1 \in 1..len /\ (i = 1 \/ 1 < i)
            OBVIOUS
        <3>2. /\ i \in DOMAIN order /\ ways[order[i]] \in Nat
              /\ 1 \in DOMAIN order /\ ways[order[1]] \in Nat
            BY <2>10, <3>1
        <3>3. 1 < i => \/ ways[order[1]] < ways[order[i]]
                       \/ ways[order[1]] = ways[order[i]]
            BY <2>5, <3>2
        <3> QED BY <3>1, <3>2, <3>3 DEF least
    <2>18. ASSUME least > 0, req.preference = "shortest", NEW i \in 1..len,
                  at(i) \in Within(ways[order[i]] - 1, near)
           PROVE  FALSE
        <3> DEFINE n    == order[i]
                   most == ways[n] - 1
        <3>1. ways[n] \in Nat /\ most \in Nat /\ ways[n] = most + 1
            <4>1. least \in Nat /\ ways[n] \in Nat /\ least <= ways[n]
                <5>1. 1 \in 1..len
                    OBVIOUS
                <5> QED BY <2>17, <2>10, <5>1 DEF least
            <4> QED BY <2>18, <4>1
        <3>2. n \in DOMAIN ways /\ at(i) = SystemAt(G, n) /\ at(i).id = IdOf(n)
            BY <2>10 DEF IdOf
        <3>3. at(i) \in Within(most, near)
            BY <2>18
        <3> HIDE DEF n, most
        <3>4. PICK k \in 0..most : Reaches(Ends, clock, k, IdOf(n))
            BY <2>6, <3>1, <3>2, <3>3, WithinMeans
        <3>5. Open(n)
            BY <2>5, <3>2 DEF Reached
        <3>6. k \in Nat /\ k <= most
            BY <3>1
        <3>7. ways[n] <= k
            BY <2>2, <2>6, <2>18, <3>2, <3>4, <3>5, <3>6 DEF Complete
        <3> QED BY <3>1, <3>6, <3>7
    <2> DEFINE last == order[len]
    <2>19. /\ len \in 1..len /\ last \in 0..Size - 1 /\ ways[last] \in Nat
           /\ at(len) = SystemAt(G, last) /\ least <= ways[last]
        <3>1. len \in 1..len
            OBVIOUS
        <3> QED BY <2>17, <2>10, <3>1
    <2>20. ASSUME req.preference = "shortest", NEW k \in Nat, NEW x \in Within(k, left)
           PROVE  \E m \in 0..Size - 1 :
                     /\ x = SystemAt(G, m) /\ ways[m] \in Nat /\ ways[m] <= k
                     /\ \/ ways[last] < ways[m]
                        \/ /\ ways[last] = ways[m]
                           /\ Distance2(G, last, To) <= Distance2(G, m, To)
        <3>1. PICK m \in DOMAIN ways : m \in 0..Size - 1 /\ x = SystemAt(G, m) /\ ways[m] <= k
            BY <2>1, <2>2, <2>4, <2>14, <2>20, CompleteWithin
        <3>2. x \in left
            BY <2>6, WithinMeans
        <3>3. PICK j \in DOMAIN order : order[j] = m /\ len < j
            BY <2>15, <3>1, <3>2
        <3>4. len \in DOMAIN order
            BY <2>8, <2>19
        <3> QED BY <2>4, <2>5, <3>1, <3>3, <3>4
    <2>21. ASSUME least > 0, req.preference = "shortest"
           PROVE  /\ Within(ways[last] - 1, left) = {}
                  /\ \A x \in Within(ways[last], left) : Apart2(at(len), b) <= Apart2(x, b)
        <3>1. ASSUME NEW x \in Within(ways[last] - 1, left) PROVE FALSE
            <4> DEFINE k == ways[last] - 1
            <4>1. k \in Nat /\ ways[last] = k + 1
                <5>1. 1 \in 1..len
                    OBVIOUS
                <5>2. least \in Nat
                    BY <2>10, <5>1 DEF least
                <5> QED BY <2>19, <2>21, <5>2
            <4>2. x \in Within(k, left)
                OBVIOUS
            <4> HIDE DEF k
            <4>3. PICK m \in 0..Size - 1 : /\ ways[m] \in Nat /\ ways[m] <= k
                                           /\ ways[last] <= ways[m]
                BY <2>19, <2>20, <2>21, <4>1, <4>2
            <4> QED BY <4>1, <4>3
        <3>2. ASSUME NEW x \in Within(ways[last], left)
              PROVE  Apart2(at(len), b) <= Apart2(x, b)
            <4>1. PICK m \in 0..Size - 1 :
                      /\ x = SystemAt(G, m)
                      /\ Distance2(G, last, To) <= Distance2(G, m, To)
                BY <2>19, <2>20, <2>21
            <4> QED BY <2>12, <2>19, <4>1
        <3> QED BY <3>1, <3>2
    <2> QED
        <3> DEFINE jumps(i) == list[i].gate_jumps
        <3>1. /\ \A i \in 1..len : jumps(i) = ways[order[i]]
              /\ jumps(1) = least /\ jumps(len) = ways[last] /\ least \in Nat
            <4>1. 1 \in 1..len /\ len \in 1..len
                BY <2>3
            <4> QED BY <2>3, <2>4, <2>8, <4>1 DEF least
        <3>2. \A i \in DOMAIN list : at(i) \in WithinAt(began, jumps(i), near)
            BY <2>3, <2>11, <3>1
        <3>3. \A i, j \in DOMAIN list : i < j =>
                  /\ at(i) # at(j)
                  /\ \/ jumps(i) < jumps(j)
                     \/ /\ jumps(i) = jumps(j)
                        /\ Apart2(at(i), b) <= Apart2(at(j), b)
            BY <2>3, <2>13
        <3>4. /\ Len(list) <= MAX_ALTERNATES + 1
              /\ jumps(1) = 0 => Len(list) = 1
              /\ jumps(1) > 0 /\ left # {} => Len(list) = MAX_ALTERNATES + 1
            BY <2>3, <2>16, <3>1
        <3>5. ASSUME jumps(1) > 0, req.preference = "shortest"
              PROVE  /\ \A i \in DOMAIN list : at(i) \notin Within(jumps(i) - 1, near)
                     /\ Within(jumps(Len(list)) - 1, left) = {}
                     /\ \A x \in Within(jumps(Len(list)), left) :
                           Apart2(at(Len(list)), b) <= Apart2(x, b)
            BY <2>3, <2>18, <2>21, <3>1, <3>5
        <3> HIDE DEF jumps
        <3>6. LET chosen   == r.chosen
                  listed   == list
                  place(i) == CHOOSE x \in SystemsOf : x.id = listed[i].system.system_id
                  count(i) == listed[i].gate_jumps
                  target   == CHOOSE x \in SystemsOf : x.id \in Named(req.to)
                  close    == Stageable(InRange(target, r.effective_ly))
                  rest     == {x \in Within(AnyJumps,
                                            Stageable(WellInRange(target, r.effective_ly))) :
                                  \A i \in DOMAIN listed : x # place(i)}
              IN  /\ target = b /\ close = near /\ rest = left
                  /\ \A i : place(i) = at(i) /\ count(i) = jumps(i)
            <4>1. /\ (CHOOSE x \in SystemsOf : x.id \in Named(req.to)) = b
                  /\ r.effective_ly = EffectiveRange
                BY <2>6, <2>7
            <4>2. \A i : at(i) = CHOOSE x \in SystemsOf : x.id = list[i].system.system_id
                BY DEF at
            <4>3. left = {x \in Within(AnyJumps, well) : \A i \in DOMAIN list : x # at(i)}
                BY DEF left
            <4> QED BY <4>1, <4>2, <4>3, Zenon DEF near, well, jumps
        <3> QED BY <2>6, <2>7, <3>2, <3>3, <3>4, <3>5
                DEF FallbacksAreNextBest, at, near, well, left, jumps, r, list, Listed
<1> QED BY <1>1, RouterIsSafe, PTL

(***************************************************************************)
(* The summary of a list counts it.                                        *)
(***************************************************************************)
LEMMA SummaryFacts ==
    ASSUME NEW n \in Nat, NEW list, DOMAIN list = 1..n, Len(list) = n,
           \A i \in 1..n : list[i].system.sec_class \in {"lowsec", "nullsec"}
    PROVE  LET tally    == Summary(list).by_sec_class
               count(c) == IF c \in DOMAIN tally THEN tally[c] ELSE 0
           IN  /\ Summary(list).reachable_count = n
               /\ DOMAIN tally \subseteq {"lowsec", "nullsec"}
               /\ count("lowsec") + count("nullsec") = n
               /\ list # << >> => Summary(list).farthest_ly = Last(list).jump_ly
<1> DEFINE classes  == {e.system.sec_class : e \in ToSet(list)}
           class(c) == {i \in 1..n : list[i].system.sec_class = c}
           tally    == Summary(list).by_sec_class
           count(c) == IF c \in DOMAIN tally THEN tally[c] ELSE 0
<1>1. \A c : c \in classes <=> \E i \in 1..n : list[i].system.sec_class = c
    BY DEF ToSet
<1>2. /\ Summary(list).reachable_count = n
      /\ list # << >> => Summary(list).farthest_ly = Last(list).jump_ly
      /\ tally = [c \in classes |-> Cardinality(class(c))]
    BY DEF Summary
<1> HIDE DEF classes, tally
<1>3. classes \subseteq {"lowsec", "nullsec"} /\ DOMAIN tally = classes
    BY <1>1, <1>2
<1>4. \A c : count(c) = Cardinality(class(c))
    <2> SUFFICES ASSUME NEW c PROVE count(c) = Cardinality(class(c))
        OBVIOUS
    <2>1. CASE c \in classes
        BY <1>2, <1>3, <2>1
    <2>2. CASE c \notin classes
        <3>1. class(c) = {}
            BY <1>1, <2>2
        <3> HIDE DEF class
        <3> QED BY <1>3, <2>2, <3>1, FS_EmptySet
    <2> QED BY <2>1, <2>2
<1> DEFINE low  == class("lowsec")
           null == class("nullsec")
<1>5. IsFiniteSet(1..n) /\ Cardinality(1..n) = n
    BY FS_Interval, SMTT(30)
<1>6. /\ low \subseteq 1..n /\ null \subseteq 1..n
      /\ low \cup null = 1..n /\ low \cap null = {}
    OBVIOUS
<1> HIDE DEF low, null
<1>7. IsFiniteSet(low) /\ IsFiniteSet(null)
    BY <1>5, <1>6, FS_Subset
<1>8. /\ Cardinality(low) \in Nat /\ Cardinality(null) \in Nat
      /\ Cardinality(low \cap null) = 0
    BY <1>6, <1>7, FS_CardinalityType, FS_EmptySet
<1>9. Cardinality(low) + Cardinality(null) = n
    <2>1. Cardinality(low \cup null)
              = Cardinality(low) + Cardinality(null) - Cardinality(low \cap null)
        BY <1>7, FS_Union
    <2>2. Cardinality(low \cup null) = n
        BY <1>5, <1>6
    <2>3. \A x \in Nat, y \in Nat, z \in Nat : z = 0 /\ n = x + y - z => x + y = n
        OBVIOUS
    <2> QED BY <1>8, <2>1, <2>2, <2>3
<1>10. count("lowsec") + count("nullsec") = n
    BY <1>4, <1>9 DEF low, null
<1> QED BY <1>2, <1>3, <1>10 DEF tally

LEMMA RangeListFacts ==
    ASSUME HasSource, NEW r, NEW lit, NEW order, IsRange(r, lit, order)
    PROVE  LET n    == Cardinality(lit)
               list == r.reachable
           IN  /\ n \in Nat /\ DOMAIN list = 1..n /\ Len(list) = n
               /\ \A i \in 1..n :
                     /\ order[i] \in 0..Size - 1 /\ MayReach(order[i])
                     /\ list[i].system.system_id = IdOf(order[i])
                     /\ list[i].system.sec_class = SystemAt(G, order[i]).sec
                     /\ list[i].system.sec_class \in {"lowsec", "nullsec"}
                     /\ list[i].jump_ly = Round2(Distance2(G, order[i], From))
                     /\ Distance2(G, order[i], From) \in Nat
               /\ \A i, j \in 1..n : i # j => order[i] # order[j]
               /\ \A m : MustReach(m) => \E i \in 1..n : order[i] = m
               /\ \A i \in 2..n :
                     Distance2(G, order[i - 1], From) <= Distance2(G, order[i], From)
<1> DEFINE n    == Cardinality(lit)
           list == r.reachable
<1>1. /\ IsFiniteSet(lit) /\ order \in SetToSeqs(lit)
      /\ \A m \in lit : MayReach(m)
      /\ \A m : MustReach(m) => m \in lit
      /\ \A i \in 2..Len(order) :
            Distance2(G, order[i - 1], From) <= Distance2(G, order[i], From)
      /\ list = [i \in DOMAIN order |-> list[i]]
      /\ \A i \in DOMAIN order : IsEntry(list[i], order[i])
    BY DEF IsRange
<1>2. /\ n \in Nat /\ order \in [1..n -> lit] /\ Len(order) = n
      /\ \A i, j \in 1..n : i # j => order[i] # order[j]
      /\ \A x \in lit : \E i \in 1..n : order[i] = x
    BY <1>1, EnumerationFacts
<1>3. view \in Builds /\ From \in 0..Size - 1
    BY SourceFacts
<1> HIDE DEF n, list
<1>4. DOMAIN list = 1..n /\ Len(list) = n
    <2> DEFINE T == {list[i] : i \in 1..n}
    <2>1. list \in [1..n -> T]
        BY <1>1, <1>2
    <2> HIDE DEF T
    <2>2. list \in Seq(T)
        BY <1>2, <2>1
    <2> QED BY <1>2, <2>1, <2>2
<1>5. ASSUME NEW i \in 1..n
      PROVE  /\ order[i] \in 0..Size - 1 /\ MayReach(order[i])
             /\ list[i].system.system_id = IdOf(order[i])
             /\ list[i].system.sec_class = SystemAt(G, order[i]).sec
             /\ list[i].system.sec_class \in {"lowsec", "nullsec"}
             /\ list[i].jump_ly = Round2(Distance2(G, order[i], From))
             /\ Distance2(G, order[i], From) \in Nat
    <2> DEFINE m == order[i]
    <2>1. MayReach(m) /\ IsEntry(list[i], m)
        BY <1>1, <1>2
    <2> HIDE DEF m
    <2>2. m \in 0..Size - 1 /\ SystemAt(G, m).sec \notin {"wormhole", "highsec"}
        BY <2>1 DEF MayReach
    <2>3. SystemAt(G, m).sec \in {"highsec", "lowsec", "nullsec", "wormhole"}
        <3>1. SystemAt(G, m) \in SystemRow
            BY <1>3, <2>2, NodeFacts
        <3> QED BY <3>1 DEF SystemRow, SecClasses
    <2>4. /\ list[i].system.system_id = IdOf(m)
          /\ list[i].system.sec_class = SystemAt(G, m).sec
          /\ list[i].jump_ly = Round2(Distance2(G, m, From))
        BY <2>1 DEF IsEntry, SystemNamed, IdOf
    <2>5. Distance2(G, m, From) \in Nat
        BY <1>3, <2>2, DistanceFacts
    <2> QED BY <2>1, <2>2, <2>3, <2>4, <2>5 DEF m
<1>6. \A m : MustReach(m) => \E i \in 1..n : order[i] = m
    BY <1>1, <1>2
<1> QED BY <1>1, <1>2, <1>4, <1>5, <1>6 DEF n, list

(***************************************************************************)
(* A range answer is exact, for any map, catalog and body.                 *)
(***************************************************************************)
THEOREM RangeAnswersAreExact == Spec => []RangeIsExact
<1>1. RouterSafe => RangeIsExact
    <2> SUFFICES ASSUME RouterSafe, Ranged PROVE RangeIsExact
        BY DEF RangeIsExact
    <2>1. HasSource
        BY DEF RouterSafe, JumpInv, RangeInv
    <2>2. PICK places, order : IsRange(Response, places, order)
        BY DEF RouterSafe, JumpInv, RangeInv
    <2> DEFINE r     == Response
               list  == r.reachable
               ids   == {list[i].system.system_id : i \in DOMAIN list}
               a     == SystemAt(G, From)
               range == EffectiveRange
               lit(systems) ==
                   {s.id : s \in {t \in systems \ {a} : t.sec \in {"lowsec", "nullsec"}}}
    <2>3. PICK n \in Nat :
              /\ DOMAIN list = 1..n /\ Len(list) = n
              /\ \A i \in 1..n :
                    /\ order[i] \in 0..Size - 1 /\ MayReach(order[i])
                    /\ list[i].system.system_id = IdOf(order[i])
                    /\ list[i].system.sec_class = SystemAt(G, order[i]).sec
                    /\ list[i].system.sec_class \in {"lowsec", "nullsec"}
                    /\ list[i].jump_ly = Round2(Distance2(G, order[i], From))
                    /\ Distance2(G, order[i], From) \in Nat
              /\ \A i, j \in 1..n : i # j => order[i] # order[j]
              /\ \A m : MustReach(m) => \E i \in 1..n : order[i] = m
              /\ \A i \in 2..n :
                    Distance2(G, order[i - 1], From) <= Distance2(G, order[i], From)
        <3> DEFINE n == Cardinality(places)
        <3>1. /\ n \in Nat /\ DOMAIN r.reachable = 1..n /\ Len(r.reachable) = n
              /\ \A i \in 1..n :
                    /\ order[i] \in 0..Size - 1 /\ MayReach(order[i])
                    /\ r.reachable[i].system.system_id = IdOf(order[i])
                    /\ r.reachable[i].system.sec_class = SystemAt(G, order[i]).sec
                    /\ r.reachable[i].system.sec_class \in {"lowsec", "nullsec"}
                    /\ r.reachable[i].jump_ly = Round2(Distance2(G, order[i], From))
                    /\ Distance2(G, order[i], From) \in Nat
              /\ \A i, j \in 1..n : i # j => order[i] # order[j]
              /\ \A m : MustReach(m) => \E i \in 1..n : order[i] = m
              /\ \A i \in 2..n :
                    Distance2(G, order[i - 1], From) <= Distance2(G, order[i], From)
            BY <2>1, <2>2, RangeListFacts
        <3> HIDE DEF n, r
        <3> QED BY <3>1
    <2>4. /\ r.summary = Summary(list) /\ r.source = SystemNamed(From)
          /\ r.effective_ly = range
          /\ r.hull.type_id = ResolveHull(G.hulls, req.ship).type_id
        BY <2>2 DEF IsRange, HullShown
    <2>5. /\ view \in Builds /\ range \in Nat /\ From \in 0..Size - 1
          /\ Named(req.from) = {IdOf(From)}
          /\ (CHOOSE s \in SystemsOf : s.id = IdOf(From)) = a
          /\ \E h \in HullsNamed(req.ship) :
                h.type_id = r.hull.type_id /\ range \in Around(RangeOf(h))
        BY <2>1, <2>4, SourceFacts
    <2>6. (CHOOSE s \in SystemsOf : s.id = r.source.system_id) = a /\ a.id \in Named(req.from)
        <3>1. r.source.system_id = IdOf(From) /\ a.id = IdOf(From)
            BY <2>4 DEF SystemNamed, IdOf
        <3> HIDE DEF a
        <3> QED BY <2>5, <3>1
    <2> HIDE DEF r, list
    <2>7. ids = {IdOf(order[i]) : i \in 1..n}
        <3>1. DOMAIN list = 1..n /\ \A i \in 1..n : list[i].system.system_id = IdOf(order[i])
            BY <2>3
        <3> QED BY <3>1
    <2>8. Cardinality(ids) = n
        <3> DEFINE f == [i \in 1..n |-> IdOf(order[i])]
        <3>1. f \in [1..n -> ids] /\ \A x \in ids : \E i \in 1..n : f[i] = x
            BY <2>7
        <3>2. ASSUME NEW i \in 1..n, NEW j \in 1..n, i # j PROVE f[i] # f[j]
            <4>1. order[i] # order[j] /\ order[i] \in 0..Size - 1 /\ order[j] \in 0..Size - 1
                BY <2>3, <3>2
            <4> QED BY <2>5, <4>1, SystemOfNode
        <3> HIDE DEF f, ids
        <3> QED BY <3>1, <3>2, IdsAreDistinct
    <2>9. lit(WellInRange(a, range)) \subseteq ids
        <3> SUFFICES ASSUME NEW s \in WellInRange(a, range), s # a,
                            s.sec \in {"lowsec", "nullsec"}
                     PROVE  s.id \in ids
            OBVIOUS
        <3>1. s \in SystemsOf /\ Inside(Apart2(a, s), range)
            BY DEF WellInRange
        <3>2. PICK m \in 0..Size - 1 : s = SystemAt(G, m)
            BY <2>5, <3>1, NodeFacts
        <3>3. Distance2(G, m, From) = Apart2(a, s)
            BY <2>5, <3>2, DistanceFacts
        <3>4. MustReach(m)
            BY <3>1, <3>2, <3>3 DEF MustReach
        <3>5. PICK i \in 1..n : order[i] = m
            BY <2>3, <3>4
        <3> QED BY <2>7, <3>2, <3>5 DEF IdOf
    <2>10. ids \subseteq lit(InRange(a, range))
        <3> SUFFICES ASSUME NEW i \in 1..n PROVE IdOf(order[i]) \in lit(InRange(a, range))
            BY <2>7
        <3> DEFINE m == order[i]
                   s == SystemAt(G, m)
        <3>1. m \in 0..Size - 1 /\ MayReach(m) /\ s.sec \in {"lowsec", "nullsec"}
            BY <2>3
        <3>2. s \in SystemsOf /\ (s = a => m = From)
            BY <2>5, <3>1, NodeFacts, SystemOfNode
        <3>3. s # a /\ ~Outside(Apart2(a, s), range)
            <4>1. m # From /\ ~Outside(Distance2(G, m, From), range)
                BY <3>1 DEF MayReach
            <4>2. Distance2(G, m, From) = Apart2(a, s)
                BY <2>5, <3>1, DistanceFacts
            <4> QED BY <3>2, <4>1, <4>2
        <3>4. IdOf(m) = s.id
            BY DEF IdOf
        <3> HIDE DEF s, a
        <3>5. s \in InRange(a, range)
            BY <3>2, <3>3 DEF InRange
        <3> QED BY <3>1, <3>3, <3>4, <3>5
    <2> DEFINE at(i) == CHOOSE s \in SystemsOf : s.id = list[i].system.system_id
    <2>11. ASSUME NEW i \in 1..n
           PROVE  /\ order[i] \in 0..Size - 1 /\ at(i) = SystemAt(G, order[i])
                  /\ Apart2(a, at(i)) = Distance2(G, order[i], From)
        <3>1. order[i] \in 0..Size - 1 /\ list[i].system.system_id = IdOf(order[i])
            BY <2>3
        <3>2. at(i) = SystemAt(G, order[i])
            BY <2>5, <3>1, SystemOfNode
        <3> HIDE DEF at
        <3> QED BY <2>5, <3>1, <3>2, DistanceFacts
    <2>12. ASSUME NEW i \in 2..n PROVE Apart2(a, at(i - 1)) <= Apart2(a, at(i))
        <3>1. i - 1 \in 1..n /\ i \in 1..n
            OBVIOUS
        <3>2. Distance2(G, order[i - 1], From) <= Distance2(G, order[i], From)
            BY <2>3
        <3> HIDE DEF at, a
        <3> QED BY <2>11, <3>1, <3>2
    <2> DEFINE tally    == r.summary.by_sec_class
               count(c) == IF c \in DOMAIN tally THEN tally[c] ELSE 0
    <2>13. /\ r.summary.reachable_count = n
           /\ DOMAIN tally \subseteq {"lowsec", "nullsec"}
           /\ count("lowsec") + count("nullsec") = n
           /\ list # << >> => r.summary.farthest_ly = Last(list).jump_ly
        BY <2>3, <2>4, SummaryFacts
    <2>14. \A i \in 2..Len(list) : Apart2(a, at(i - 1)) <= Apart2(a, at(i))
        BY <2>3, <2>12
    <2> QED BY <2>3, <2>4, <2>5, <2>6, <2>8, <2>9, <2>10, <2>13, <2>14
            DEF RangeIsExact, r, list
<1> QED BY <1>1, RouterIsSafe, PTL

----------------------------------------------------------------------------
(* Types: what is on the wire has the shape that its route promises.       *)

LEMMA SystemsAreShown ==
    ASSUME view \in Builds, NEW n \in 0..Size - 1
    PROVE  SystemNamed(n) \in SystemShape
<1>1. SystemAt(G, n) \in SystemRow
    BY NodeFacts
<1> QED BY <1>1 DEF SystemRow, SecClasses, SystemNamed, SystemShape

LEMMA HandlerIsTyped ==
    ASSUME LiveInv, HandlerInv
    PROVE  HandlerTypeOK
<1>1. req.route \in {"none", "system", "blops", "range"}
    BY DEF HandlerInv, NoRequest
<1>2. failure # NoFailure => pc = "answered" /\ StatusOf(failure.error) >= 400
    <2>1. failure # NoFailure => pc = "answered" /\ failure.error # "none"
        BY DEF HandlerInv
    <2>2. \A e \in {"malformed", "invalid_param", "unknown_system", "unknown_hull",
                    "cyno_target_highsec", "no_staging_in_range",
                    "staging_unreachable"} : StatusOf(e) \in {400, 404, 422}
        BY DEF StatusOf
    <2>3. failure.error # "none" => StatusOf(failure.error) \in {400, 404, 422}
        BY <2>2 DEF HandlerInv
    <2> QED BY <2>1, <2>3
<1> QED BY <1>1, <1>2 DEF HandlerTypeOK, LiveInv, HandlerInv

LEMMA GateIsTyped ==
    ASSUME GateSafe
    PROVE  GateTypeOK
<1>1. \A i \in DOMAIN results : IsGateRouteResult(results[i])
    <2> SUFFICES ASSUME NEW i \in DOMAIN results PROVE IsGateRouteResult(results[i])
        OBVIOUS
    <2>1. results[i] \in SlotFailure \cup SlotRoute /\ SlotAllowed(i)
        <3>1. results \in Seq(SlotFailure \cup SlotRoute)
            BY DEF GateSafe, GateInv
        <3> QED BY <3>1 DEF GateSafe, SlotsInv
    <2> DEFINE x == results[i]
    <2>2. x \in SlotRoute => Len(x.path) = x.jumps + 1
        BY <2>1 DEF SlotAllowed
    <2> HIDE DEF x
    <2>3. CASE x \in SlotFailure
        BY <2>3 DEF SlotFailure, IsGateRouteResult, x
    <2>4. CASE x \in SlotRoute
        BY <2>2, <2>4 DEF SlotRoute, IsGateRouteResult, x
    <2> QED BY <2>1, <2>3, <2>4 DEF x
<1>2. CASE ~Routed
    <2>1. results = << >> /\ avoid = {} /\ connections = << >>
        BY <1>2 DEF GateSafe, GateInv
    <2>2. Len(results) <= MAX_DESTINATIONS
        BY <2>1, DestinationsAssumption
    <2> QED BY <1>1, <2>1, <2>2 DEF GateTypeOK
<1>3. CASE Routed
    <2>1. LiveInv /\ HandlerInv /\ GateInv
        BY DEF GateSafe
    <2>2. /\ CanRoute /\ AllResolve(G, req.avoid) /\ req.to \in Seq(Ref)
          /\ view \in Builds /\ req.avoid \in Seq(Ref)
        BY <1>3, <2>1, RoutedFacts
    <2>3. \A n \in 0..Size - 1 : n \in Nodes
        BY <2>2, NodeFacts
    <2>4. avoid \subseteq Nodes
        <3>1. avoid \subseteq AssembleAvoidSet(G, req)
            BY <1>3, <2>1 DEF GateInv
        <3>2. AssembleAvoidSet(G, req) \subseteq 0..Size - 1
            BY <2>2, AvoidIsBarred
        <3> QED BY <2>3, <3>1, <3>2
    <2>5. ASSUME NEW i \in DOMAIN connections
          PROVE  /\ {connections[i].a, connections[i].b} \subseteq Nodes
                 /\ connections[i].kind \in EdgeKinds
        <3> DEFINE cs == req.connections
        <3>1. connections = ResolveConnections(G, req)
            BY <1>3, <2>1 DEF GateInv
        <3>2. cs \in Seq(Connection) /\ AllResolve(G, ConnectionRefs(req))
            BY <2>2 DEF CanRoute, OverlayFieldsOK
        <3>3. i \in DOMAIN cs /\ connections[i] = [a |-> ResolveSystem(G, cs[i].from),
                                                   b |-> ResolveSystem(G, cs[i].to),
                                                   kind |-> cs[i].kind]
            BY <3>1 DEF ResolveConnections
        <3> HIDE DEF cs
        <3>4. Len(cs) \in Nat /\ i \in 1..Len(cs) /\ cs[i] \in Connection
            BY <3>2, <3>3
        <3>5. AllResolve(G, EndsInOrder(cs))
            BY <3>2 DEF ConnectionRefs, cs
        <3>6. /\ ResolveSystem(G, cs[i].from) # Unresolved
              /\ ResolveSystem(G, cs[i].to) # Unresolved
            BY <3>4, <3>5, EndsResolve
        <3>7. /\ ResolveSystem(G, cs[i].from) \in 0..Size - 1
              /\ ResolveSystem(G, cs[i].to) \in 0..Size - 1
            BY <2>2, <3>6, NamedFacts
        <3>8. cs[i].kind \in EdgeKinds
            BY <3>4 DEF Connection
        <3> QED BY <2>3, <3>3, <3>7, <3>8
    <2>6. Len(results) <= MAX_DESTINATIONS
        <3>1. Len(req.to) \in 1..MAX_DESTINATIONS /\ Len(results) <= Len(req.to)
            BY <1>3, <2>1 DEF GateInv, OutOfBounds
        <3>2. Len(results) \in Nat
            <4>1. results \in Seq(SlotFailure \cup SlotRoute)
                BY <2>1 DEF GateInv
            <4> QED BY <4>1
        <3> QED BY <3>1, <3>2, DestinationsAssumption
    <2> QED BY <1>1, <2>4, <2>5, <2>6 DEF GateTypeOK
<1> QED BY <1>2, <1>3

LEMMA StagingIsTyped ==
    ASSUME HasEnds, NEW order, NEW jumps, IsRanking(order, jumps),
           NEW r, IsStaging(r, order, jumps)
    PROVE  IsBlopsRouteResponse(r)
<1> DEFINE star  == order[1]
           n     == Min({MAX_ALTERNATES, Len(order) - 1})
           entry(m) == [system     |-> SystemNamed(m),
                        gate_jumps |-> jumps[m],
                        ly_to_b    |-> Round2(Distance2(G, m, To))]
<1>1. /\ Len(order) \in Nat \ {0} /\ DOMAIN order = 1..Len(order)
      /\ \A i \in DOMAIN order : /\ order[i] \in 0..Size - 1 /\ jumps[order[i]] \in Nat
    BY RankingFacts
<1>2. view \in Builds /\ EffectiveRange \in Nat /\ To \in 0..Size - 1
    BY EndsFacts
<1>3. ASSUME NEW m \in 0..Size - 1
      PROVE  SystemNamed(m) \in SystemShape /\ Round2(Distance2(G, m, To)) \in Nat
    <2>1. Distance2(G, m, To) \in Nat
        BY <1>2, DistanceFacts
    <2> QED BY <1>2, <2>1, SystemsAreShown, RoundedExists
<1>4. r.jdc_level \in 1..5 /\ r.effective_ly \in Nat /\ r.defaulted \in BOOLEAN
    BY <1>2 DEF IsStaging, HasEnds, HasLevel, JdcValid
<1>5. IsBlopsChosen(r.chosen)
    <2>1. /\ IsLeg(r.chosen.gate_path, star, jumps[star])
          /\ r.chosen.gate_jumps = jumps[star]
          /\ r.chosen.bridge = [from     |-> SystemNamed(star),
                                to       |-> SystemNamed(To),
                                jump_ly  |-> Round2(Distance2(G, star, To)),
                                in_range |-> TRUE]
        BY DEF IsStaging
    <2>2. star \in 0..Size - 1 /\ jumps[star] \in Nat
        BY <1>1
    <2> HIDE DEF star
    <2>3. r.chosen.bridge \in BlopsBridge
        BY <1>2, <1>3, <2>1, <2>2 DEF BlopsBridge
    <2> QED BY <2>1, <2>2, <2>3 DEF IsBlopsChosen, IsLeg
<1>6. r.alternates \in Seq(BlopsCandidate)
    <2>1. n \in Nat /\ n <= Len(order) - 1
        BY <1>1, AlternatesAssumption, LeastIsMin
    <2>2. r.alternates = IF jumps[star] = 0 THEN << >>
                         ELSE [i \in 1..n |-> entry(order[i + 1])]
        BY DEF IsStaging
    <2> HIDE DEF n
    <2>3. \A m \in 0..Size - 1 : jumps[m] \in Nat => entry(m) \in BlopsCandidate
        BY <1>3 DEF BlopsCandidate
    <2> HIDE DEF entry
    <2>4. \A i \in 1..n : i + 1 \in DOMAIN order
        BY <1>1, <2>1
    <2>5. \A i \in 1..n : entry(order[i + 1]) \in BlopsCandidate
        BY <1>1, <2>3, <2>4
    <2>6. [i \in 1..n |-> entry(order[i + 1])] \in Seq(BlopsCandidate)
        BY <2>1, <2>5
    <2>7. << >> \in Seq(BlopsCandidate)
        OBVIOUS
    <2> QED BY <2>2, <2>6, <2>7
<1> QED BY <1>4, <1>5, <1>6 DEF IsBlopsRouteResponse

LEMMA RangeIsTyped ==
    ASSUME HasSource, NEW r, NEW lit, NEW order, IsRange(r, lit, order)
    PROVE  IsRangeResponse(r)
<1> DEFINE list == r.reachable
           n    == Cardinality(lit)
           hull == ResolveHull(G.hulls, req.ship)
<1>1. /\ n \in Nat /\ DOMAIN list = 1..n /\ Len(list) = n
      /\ \A i \in 1..n :
            /\ order[i] \in 0..Size - 1
            /\ list[i].jump_ly = Round2(Distance2(G, order[i], From))
            /\ Distance2(G, order[i], From) \in Nat
    BY RangeListFacts
<1>2. /\ list = [i \in DOMAIN order |-> list[i]]
      /\ \A i \in DOMAIN order : IsEntry(list[i], order[i])
      /\ r.summary = Summary(list) /\ r.source = SystemNamed(From)
      /\ r.jdc_level = req.jdc_level /\ r.effective_ly = EffectiveRange
      /\ r.hull = HullShown
    BY DEF IsRange
<1>3. view \in Builds /\ EffectiveRange \in Nat /\ From \in 0..Size - 1
    BY SourceFacts
<1>4. r.jdc_level \in 1..5 /\ r.effective_ly \in Nat /\ r.source \in SystemShape
    BY <1>2, <1>3, SystemsAreShown DEF HasSource, HasLevel, JdcValid
<1>5. r.hull \in RangeHull
    <2>1. req.ship # NoShip
        BY DEF HasSource, RequestOK, Ref, NoShip
    <2>2. hull \in HullRow
        BY <2>1, RangeFacts DEF HasSource
    <2>3. HullShown = [name |-> hull.name, type_id |-> hull.type_id, base_ly |-> hull.base_ly]
        BY DEF HullShown
    <2> HIDE DEF hull
    <2> QED BY <1>2, <2>2, <2>3 DEF HullRow, RangeHull
<1> HIDE DEF list, n
<1>6. \A i \in 1..n : list[i] \in RangeReachable /\ list[i].jump_ly \in Nat
    <2> SUFFICES ASSUME NEW i \in 1..n
                 PROVE  list[i] \in RangeReachable /\ list[i].jump_ly \in Nat
        OBVIOUS
    <2>1. DOMAIN order = 1..n
        BY <1>1, <1>2
    <2>2. IsEntry(list[i], order[i])
        BY <1>2, <2>1
    <2>3. /\ SystemNamed(order[i]) \in SystemShape
          /\ Round2(Distance2(G, order[i], From)) \in Nat
        BY <1>1, <1>3, SystemsAreShown, RoundedExists
    <2> QED BY <2>2, <2>3 DEF IsEntry, RangeReachable
<1>7. list \in Seq(RangeReachable)
    <2>1. list = [i \in 1..n |-> list[i]]
        BY <1>1, <1>2
    <2>2. [i \in 1..n |-> list[i]] \in Seq(RangeReachable)
        BY <1>1, <1>6
    <2> QED BY <2>1, <2>2
<1>8. IsRangeSummary(Summary(list))
    <2> DEFINE classes  == {e.system.sec_class : e \in ToSet(list)}
               class(c) == {i \in 1..n : list[i].system.sec_class = c}
               tally    == Summary(list).by_sec_class
    <2>1. \A c \in classes : \E i \in 1..n : list[i].system.sec_class = c
        BY <1>1 DEF ToSet
    <2>2. /\ Summary(list).reachable_count = n
          /\ Summary(list).farthest_ly = IF list = << >> THEN 0 ELSE Last(list).jump_ly
          /\ tally = [c \in classes |-> Cardinality(class(c))]
        BY <1>1 DEF Summary
    <2>3. Summary(list).farthest_ly \in Nat
        <3>1. CASE list = << >>
            BY <2>2, <3>1
        <3>2. CASE list # << >>
            <4>1. n # 0
                BY <1>1, <1>7, <3>2
            <4>2. n \in 1..n /\ Last(list) = list[n]
                BY <1>1, <4>1 DEF Last
            <4> QED BY <1>6, <2>2, <3>2, <4>2
        <3> QED BY <3>1, <3>2
    <2> HIDE DEF classes, tally
    <2>4. ASSUME NEW c \in classes PROVE Cardinality(class(c)) \in Nat \ {0}
        <3> DEFINE C == class(c)
        <3>1. C \subseteq 1..n /\ C # {}
            BY <2>1
        <3>2. IsFiniteSet(1..n)
            BY <1>1, FS_Interval, SMTT(30)
        <3> HIDE DEF C
        <3>3. IsFiniteSet(C)
            BY <3>1, <3>2, FS_Subset
        <3>4. Cardinality(C) \in Nat /\ Cardinality(C) # 0
            BY <3>1, <3>3, FS_CardinalityType, FS_EmptySet
        <3> QED BY <3>4 DEF C
    <2> HIDE DEF class
    <2>5. \A c \in DOMAIN tally : tally[c] \in Nat \ {0}
        BY <2>2, <2>4
    <2> QED BY <1>1, <2>2, <2>3, <2>5 DEF IsRangeSummary, tally
<1> QED BY <1>2, <1>4, <1>5, <1>7, <1>8 DEF IsRangeResponse, list

(***************************************************************************)
(* Types: the service keeps its types, and every answer has the shape of   *)
(* its route, for any builds, feeds and bodies.                            *)
(***************************************************************************)
THEOREM AnswersAreWellFormed == Spec => []TypeOK
<1>1. RouterSafe => TypeOK
    <2> SUFFICES ASSUME RouterSafe PROVE TypeOK
        OBVIOUS
    <2>1. GateSafe /\ LiveInv /\ HandlerInv /\ JumpInv
        BY DEF RouterSafe, GateSafe
    <2>2. HandlerTypeOK /\ GateTypeOK
        BY <2>1, HandlerIsTyped, GateIsTyped
    <2>3. answer # << >> => pc = "answered" /\ failure = NoFailure
        BY <2>1 DEF JumpInv, AnswerInv
    <2>4. ASSUME Staged PROVE IsBlopsRouteResponse(Response)
        <3>1. PICK r : r = Response
            OBVIOUS
        <3>2. PICK order, jumps : IsRanking(order, jumps) /\ IsStaging(r, order, jumps)
            BY <2>1, <2>4, <3>1 DEF JumpInv, StagingInv
        <3>3. HasEnds
            BY <2>1, <2>4 DEF JumpInv, StagingInv
        <3> QED BY <3>1, <3>2, <3>3, StagingIsTyped
    <2>5. ASSUME Ranged PROVE IsRangeResponse(Response)
        <3>1. PICK r : r = Response
            OBVIOUS
        <3>2. PICK lit, order : IsRange(r, lit, order)
            BY <2>1, <2>5, <3>1 DEF JumpInv, RangeInv
        <3>3. HasSource
            BY <2>1, <2>5 DEF JumpInv, RangeInv
        <3> QED BY <3>1, <3>2, <3>3, RangeIsTyped
    <2> QED BY <2>2, <2>3, <2>4, <2>5 DEF TypeOK, JumpTypeOK
<1> QED BY <1>1, RouterIsSafe, PTL

----------------------------------------------------------------------------
(* The searches: what the handlers ask for is what a search can do.        *)

(***************************************************************************)
(* The handlers build contexts of the graph they loaded, and no others: of *)
(* a graph that has a system for each node.                                *)
(***************************************************************************)
LEMMA ContextsAreLegal ==
    ASSUME CanRoute, Nodes = 0..Size - 1,
           NEW av \in SUBSET Nodes, NEW ends \in SUBSET (0..Size - 1)
    PROVE  IsContext(ContextFor(av, ResolveConnections(G, req), ends))
<1> DEFINE c0 == NewContext(G.gate_graph, SecOf(G), av, req.preference)
           c1 == AddOverlayConnections(c0, req, ResolveConnections(G, req))
           c  == ContextFor(av, ResolveConnections(G, req), ends)
<1>1. /\ view \in Builds /\ IsSnapshot(viewScout) /\ req.preference \in Preferences
      /\ req.connections \in Seq(Connection)
    BY DEF CanRoute, OverlayFieldsOK
<1>2. HasFields(c0) /\ c0.overlay = << >>
    BY DEF HasFields, NewContext
<1>3. c = ApplyScoutOverlay(c1, G, viewScout, req, ends, clock)
    BY DEF ContextFor
<1>4. Mirrored(c.overlay)
    <2>1. Mirrored(c0.overlay)
        BY <1>2 DEF Mirrored
    <2> HIDE DEF c0
    <2> QED BY <1>1, <1>2, <1>3, <2>1, OverlayMirrored
<1>5. \A e \in DOMAIN c.overlay :
          /\ c.overlay[e] \in EdgeKinds
          /\ \E m, n : e = <<m, n>>
    <2>1. DOMAIN c0.overlay = {}
        BY <1>2
    <2> HIDE DEF c0
    <2>2. /\ SameButOverlay(c1, c0)
          /\ \A e \in DOMAIN c1.overlay :
                /\ c1.overlay[e] \in EdgeKinds
                /\ FirstConnection(G, req, e, c1.overlay[e])
        BY <1>1, <1>2, <2>1, UserOverlay
    <2>3. IsParsed(Raw) /\ G = BuildGraph(Raw, view)
        BY <1>1, ViewFacts
    <2>4. HasFields(c1)
        BY <2>2 DEF SameButOverlay
    <2> HIDE DEF c1
    <2>5. \A e \in DOMAIN c.overlay :
              \/ e \in DOMAIN c1.overlay /\ c.overlay[e] = c1.overlay[e]
              \/ ScoutJoins(G, viewScout, req, ends, clock, e) /\ c.overlay[e] = "wormhole"
        <3> HIDE DEF c, G, Raw
        <3> QED BY <1>1, <1>3, <2>3, <2>4, ScoutOverlay
    <2> HIDE DEF c
    <2>6. ASSUME NEW kind, NEW e, FirstConnection(G, req, e, kind)
          PROVE  \E m, n : e = <<m, n>>
        BY <2>6 DEF FirstConnection, ConnectionJoins, Joins
    <2>7. ASSUME NEW e, ScoutJoins(G, viewScout, req, ends, clock, e)
          PROVE  \E m, n : e = <<m, n>>
        BY <2>7 DEF ScoutJoins, SigJoins
    <2>8. "wormhole" \in EdgeKinds
        BY DEF EdgeKinds
    <2> QED BY <2>2, <2>5, <2>6, <2>7, <2>8
<1> HIDE DEF c, c0, c1
<1>6. /\ c.avoid = av /\ c.pref = req.preference /\ c.sec = SecOf(G)
      /\ c.gates = G.gate_graph
      /\ \A m, n : <<m, n>> \in DOMAIN c.overlay => m \in Nodes /\ n \in Nodes
    BY ContextFacts DEF c, IsOverlayEdge
<1>7. \A g \in c.gates : \E a, b \in Nodes : g = {a, b}
    <2>1. IsParsed(Raw) /\ G = BuildGraph(Raw, view)
        BY <1>1, ViewFacts
    <2>2. G.gate_graph = {{G.id_to_idx[p[1]], G.id_to_idx[p[2]]} :
              p \in {q \in ToSet(Raw.gate_pairs) :
                         {q[1], q[2]} \subseteq DOMAIN G.id_to_idx}}
        BY <2>1 DEF BuildGraph, GateGraph
    <2>3. \A id \in DOMAIN G.id_to_idx : G.id_to_idx[id] \in Nodes
        BY <1>1, NodeFacts
    <2> QED BY <1>6, <2>2, <2>3
<1>8. c.sec \in [Nodes -> SecClasses]
    <2>1. \A n \in Nodes : SystemAt(G, n).sec \in SecClasses
        BY <1>1, NodeFacts DEF SystemRow
    <2> QED BY <1>6, <2>1 DEF SecOf
<1>9. DOMAIN c.overlay \subseteq Nodes \X Nodes
    BY <1>5, <1>6
<1>10. \A a, b \in Nodes :
           <<a, b>> \in DOMAIN c.overlay =>
               /\ <<b, a>> \in DOMAIN c.overlay
               /\ c.overlay[<<a, b>>] = c.overlay[<<b, a>>]
               /\ c.overlay[<<a, b>>] \in EdgeKinds
    BY <1>4, <1>5 DEF Mirrored
<1>11. IsContext(c)
    BY <1>1, <1>6, <1>7, <1>8, <1>9, <1>10 DEF IsContext
<1> QED BY <1>11 DEF c

(***************************************************************************)
(* When a search is due its context is legal and its ends are nodes.       *)
(***************************************************************************)
SearchesAreLegal ==
    Nodes = 0..Size - 1 =>
        /\ pc = "routing" =>
              LET to == ResolveSystem(G, NextTo)
              IN  to # Unresolved => /\ From \in Nodes /\ to \in Nodes
                                     /\ IsContext(ContextTo(to))
        /\ EndsKnown /\ AllResolve(G, OverlayRefs) =>
              From \in Nodes /\ To \in Nodes /\ IsContext(StagingContext)

(***************************************************************************)
(* Every search that a handler runs is one of Dijkstra's, for any map,     *)
(* signatures and body: with what SearchesAreOptimal says of it, the       *)
(* searches of the handlers are those of the code.                         *)
(***************************************************************************)
THEOREM HandlersAskLegalSearches == Spec => []SearchesAreLegal
<1>1. RouterSafe => SearchesAreLegal
    <2> SUFFICES ASSUME RouterSafe, Nodes = 0..Size - 1 PROVE SearchesAreLegal
        BY DEF SearchesAreLegal
    <2>1. LiveInv /\ HandlerInv /\ GateInv
        BY DEF RouterSafe, GateSafe
    <2>2. ASSUME pc = "routing", NEW to, to = ResolveSystem(G, NextTo), to # Unresolved
          PROVE  From \in Nodes /\ to \in Nodes /\ IsContext(ContextTo(to))
        <3>1. Routed
            BY <2>1, <2>2 DEF HandlerInv, Routed
        <3>2. /\ CanRoute /\ From \in 0..Size - 1 /\ AllResolve(G, req.avoid)
              /\ view \in Builds /\ req.avoid \in Seq(Ref)
            BY <2>1, <3>1, RoutedFacts
        <3>3. to \in 0..Size - 1
            BY <2>2, <3>2, NamedFacts
        <3>4. avoid = AssembleAvoidSet(G, req) \ {From}
              /\ connections = ResolveConnections(G, req)
            BY <2>1, <3>1 DEF GateInv
        <3>5. avoid \ {to} \in SUBSET Nodes
            BY <3>2, <3>4, AvoidIsBarred
        <3>6. ContextTo(to) = ContextFor(avoid \ {to}, ResolveConnections(G, req), {From, to})
            BY <3>4 DEF ContextTo
        <3>7. {From, to} \in SUBSET (0..Size - 1)
            BY <3>2, <3>3
        <3>8. IsContext(ContextFor(avoid \ {to}, ResolveConnections(G, req), {From, to}))
            BY <3>2, <3>5, <3>7, ContextsAreLegal
        <3> QED BY <3>2, <3>3, <3>6, <3>8
    <2>3. ASSUME EndsKnown, AllResolve(G, OverlayRefs)
          PROVE  From \in Nodes /\ To \in Nodes /\ IsContext(StagingContext)
        <3>1. HasEnds
            BY <2>1, <2>3, EndsAreKnown
        <3>2. From \in 0..Size - 1 /\ To \in 0..Size - 1 /\ view \in Builds
            BY <3>1, EndsFacts
        <3> DEFINE av == AssembleAvoidSet(G, req) \ {From}
        <3>3. /\ CanRoute /\ {From, To} \in SUBSET (0..Size - 1)
              /\ StagingContext = ContextFor(av, ResolveConnections(G, req), {From, To})
            BY <2>3, <3>1, StagingContextFacts
        <3>4. req.avoid \in Seq(Ref) /\ req.from \in Ref /\ OverlayFieldsOK(req)
            BY <3>1 DEF HasEnds, RequestOK, OverlayFieldsOK
        <3>5. AllResolve(G, req.avoid)
            BY <2>3, <3>4, HeaderRefs
        <3>6. av \in SUBSET Nodes
            BY <3>2, <3>4, <3>5, AvoidIsBarred
        <3> HIDE DEF av
        <3>7. IsContext(ContextFor(av, ResolveConnections(G, req), {From, To}))
            BY <3>3, <3>6, ContextsAreLegal
        <3> QED BY <3>2, <3>3, <3>7
    <2> QED BY <2>2, <2>3 DEF SearchesAreLegal
<1> QED BY <1>1, RouterIsSafe, PTL
=============================================================================
