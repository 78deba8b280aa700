----------------------------- MODULE GateRoute -----------------------------
(***************************************************************************)
(* POST /api/v1/route/system: the handler checks the shared header and     *)
(* then routes one destination after the other, each a step.               *)
(*                                                                         *)
(* A search is represented by what Dijkstra shows of it: some cheapest     *)
(* route, or none.                                                         *)
(***************************************************************************)
EXTENDS Handler

CONSTANT MAX_DESTINATIONS

ASSUME DestinationsAssumption == MAX_DESTINATIONS \in Nat

VARIABLES
    avoid,         \* shared_avoid
    connections,   \* resolved connections[]
    results        \* the result slots filled so far

header   == <<avoid, connections>>
gateVars == <<header, results>>

GateInit ==
    /\ avoid = {}
    /\ connections = << >>
    /\ results = << >>

----------------------------------------------------------------------------
\* The header tier of compute_gate_route.
Checking == pc = "checking" /\ req.route = "system"

OutOfBounds == Len(req.to) \notin 1..MAX_DESTINATIONS

\* from, then avoid[], then connections[].
SharedRefs == <<req.from>> \o OverlayRefs

RejectBounds ==
    /\ Checking /\ OutOfBounds
    /\ Reject([error |-> "invalid_param"])
    /\ UNCHANGED gateVars

RejectUnknown ==
    /\ Checking /\ ~OutOfBounds
    /\ ~AllResolve(G, SharedRefs)
    /\ Reject(Unknown(SharedRefs))
    /\ UNCHANGED gateVars

AcceptHeader ==
    /\ Checking /\ ~OutOfBounds
    /\ AllResolve(G, SharedRefs)
    /\ pc' = "routing"
    /\ avoid' = AssembleAvoidSet(G, req) \ {From}
    /\ connections' = ResolveConnections(G, req)
    /\ UNCHANGED <<liveVars, request, snapshots, failure, results>>

----------------------------------------------------------------------------
\* The destination tier: compute_one for the next slot.
NextTo == req.to[Len(results) + 1]

ContextTo(to) == ContextFor(avoid \ {to}, connections, {From, to})

Fill(result) ==
    /\ pc = "routing"
    /\ results' = Append(results, result)
    /\ pc' = IF Len(results') = Len(req.to) THEN "answered" ELSE "routing"
    /\ UNCHANGED <<liveVars, request, snapshots, failure, header>>

FillUnknown ==
    /\ pc = "routing"
    /\ ResolveSystem(G, NextTo) = Unresolved
    /\ Fill([to |-> NextTo, error |-> "unknown_system"])

FillUnreachable ==
    /\ pc = "routing"
    /\ LET to == ResolveSystem(G, NextTo)
       IN  /\ to # Unresolved
           /\ CheapestRoutes(ContextTo(to), From, to) = {}
    /\ Fill([to |-> NextTo, error |-> "unreachable"])

FillRoute ==
    /\ pc = "routing"
    /\ LET to == ResolveSystem(G, NextTo)
       IN  /\ to # Unresolved
           /\ \E path \in CheapestRoutes(ContextTo(to), From, to) :
                 Fill([to    |-> NextTo,
                       jumps |-> Len(path) - 1,
                       path  |-> BuildSteps(G, ContextTo(to), path)])

GateNext ==
    \/ RejectBounds
    \/ RejectUnknown
    \/ AcceptHeader
    \/ FillUnknown
    \/ FillUnreachable
    \/ FillRoute
----------------------------------------------------------------------------
EndsOf(to) == Named(req.from) \cup Named(to)

Filled(i, field) == i \in DOMAIN results /\ field \in DOMAIN results[i]

GateTypeOK ==
    /\ avoid \subseteq Nodes
    /\ \A i \in DOMAIN connections :
          /\ {connections[i].a, connections[i].b} \subseteq Nodes
          /\ connections[i].kind \in EdgeKinds
    /\ Len(results) <= MAX_DESTINATIONS
    /\ \A i \in DOMAIN results : IsGateRouteResult(results[i])

(***************************************************************************)
(* A returned route is one that the request allows in the build that the   *)
(* handler loaded, whatever was swapped in meanwhile: it joins the right   *)
(* systems, its labels say what each hop is, no hop uses a connection      *)
(* whose flag is off, a hub that was not asked for or a signature expired  *)
(* when the request came, and it passes no avoided system (endpoints are   *)
(* exempt for their own slot only).                                        *)
(***************************************************************************)
RoutesAreAllowed ==
    \A i \in DOMAIN results : Filled(i, "path") =>
        LET path == results[i].path
        IN  /\ path[1].system_id \in Named(req.from)
            /\ path[Len(path)].system_id \in Named(req.to[i])
            /\ IsAllowed(path, EndsOf(req.to[i]), began)

(***************************************************************************)
(* A slot reports a failure only when it has to: "unknown_system" when the *)
(* loaded build has no such system, "unreachable" when there is no allowed *)
(* route, counting only signatures that are live even now.  One bad        *)
(* destination never costs another one its route.                          *)
(***************************************************************************)
FailuresAreReal ==
    \A i \in DOMAIN results : Filled(i, "error") =>
        LET to     == req.to[i]
            within == WithinJumps(EndsOf(to), clock)
        IN  CASE results[i].error = "unknown_system" -> Named(to) = {}
              [] results[i].error = "unreachable" ->
                    within[Cardinality(DOMAIN within) - 1] \cap Named(to) = {}

(***************************************************************************)
(* The two tiers: a request-level error means that the header is wrong in  *)
(* the loaded build, and then no destination was routed; a right header is *)
(* answered with one slot per destination, in order, each with its `to`.   *)
(* Connections are validated whatever the use-flags say.                   *)
(***************************************************************************)
HeaderIsWrong ==
    \/ Len(req.to) = 0 \/ Len(req.to) > MAX_DESTINATIONS
    \/ Named(req.from) = {}
    \/ \E r \in ToSet(req.avoid) : Named(r) = {}
    \/ \E c \in ToSet(req.connections) : {} \in {Named(c.from), Named(c.to)}

TiersAreSeparate ==
    req.route = "system" =>
        /\ pc \in {"routing", "answered"} /\ failure.error # "malformed" =>
              (HeaderIsWrong <=> failure # NoFailure)
        /\ failure # NoFailure => results = << >>
        /\ pc = "answered" /\ failure = NoFailure => Len(results) = Len(req.to)
        /\ \A i \in DOMAIN results : results[i].to = req.to[i]
        /\ failure.error = "unknown_system" => Named(failure.ref) = {}

----------------------------------------------------------------------------
(* What the documentation says and the code does not do.                   *)

(***************************************************************************)
(* gate-routing/spec.md:23-24: the source, overlay and routing policy are  *)
(* resolved once and applied to every destination; so equal destinations   *)
(* of one request are both reached or both not.                            *)
(***************************************************************************)
OverlayResolvedOnce ==
    \A i, j \in DOMAIN results :
        results[i].to = results[j].to => (Filled(i, "path") <=> Filled(j, "path"))
=============================================================================
