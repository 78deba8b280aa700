-------------------------------- MODULE Wire --------------------------------
(***************************************************************************)
(* The HTTP surface: what the JSON extractor makes of a request body, the  *)
(* shapes of the answers and the status of each error.  Pure operators     *)
(* over a body                                                             *)
(*                                                                         *)
(*   route   "system", "blops" or "range"                                  *)
(*   given   a record of the fields the client sent                        *)
(*   wrong   the fields whose JSON value is of another type or variant     *)
(*                                                                         *)
(* A system or a hull is referred to by name or by id; an id that is sent  *)
(* as a string is a name.                                                  *)
(***************************************************************************)
EXTENDS Integers, Sequences

NoShip            == [by |-> "none"]     \* ship: None
DEFAULT_JDC_LEVEL == 5

\* What an optional field is when it is not sent.
OverlayDefaults ==
    [preference |-> "shortest", avoid |-> << >>, connections |-> << >>,
     use_wormholes |-> FALSE, use_bridges |-> FALSE, include_thera |-> FALSE,
     include_turnur |-> FALSE, include_zarzakh |-> FALSE]

GateRouteRequest  == [required |-> {"from", "to"}, optional |-> OverlayDefaults]

BlopsRouteRequest ==
    [required |-> {"from", "to"},
     optional |-> [f \in DOMAIN OverlayDefaults \cup {"ship", "jdc_level"} |->
                      CASE f = "ship"      -> NoShip
                        [] f = "jdc_level" -> DEFAULT_JDC_LEVEL
                        [] OTHER           -> OverlayDefaults[f]]]

RangeRequest == [required |-> {"from", "ship", "jdc_level"}, optional |-> << >>]

RequestOf(route) ==
    CASE route = "system" -> GateRouteRequest
      [] route = "blops"  -> BlopsRouteRequest
      [] route = "range"  -> RangeRequest

Fields(route) == RequestOf(route).required \cup DOMAIN RequestOf(route).optional

\* A field is missing or does not decode; jdc_level is a u8.  Fields of no
\* meaning to the route are ignored.
Malformed(body) ==
    \/ ~(RequestOf(body.route).required \subseteq DOMAIN body.given)
    \/ body.wrong \cap Fields(body.route) # {}
    \/ /\ "jdc_level" \in DOMAIN body.given \cap Fields(body.route)
       /\ body.given.jdc_level \notin 0..255

Decode(body) ==
    [f \in Fields(body.route) \cup {"route"} |->
        IF f = "route" THEN body.route
        ELSE IF f \in DOMAIN body.given THEN body.given[f]
        ELSE RequestOf(body.route).optional[f]]

----------------------------------------------------------------------------
\* AppError::parts: the client's mistakes, and what does not exist.
StatusOf(error) ==
    CASE error = "malformed"       -> 422
      [] error \in {"unknown_system", "unknown_hull", "invalid_param",
                    "cyno_target_highsec"} -> 400
      [] error \in {"unreachable", "no_staging_in_range",
                    "staging_unreachable"} -> 404

\* Shapes of the answers.  Distances are hundredths of a light-year, what the
\* wire's two decimals show; effective_ly is not rounded there and is in
\* ten-thousandths.
SystemShape == [system : STRING, system_id : Nat,
                sec_class : {"highsec", "lowsec", "nullsec", "wormhole"}]

RouteStep == [system_id : Nat, via : {"start", "stargate", "wormhole", "bridge"}]

\* One slot of a fan-out: a route or a failure, flat beside its `to`.
IsGateRouteResult(r) ==
    \/ /\ DOMAIN r = {"to", "jumps", "path"}
       /\ r.path \in Seq(RouteStep) /\ Len(r.path) = r.jumps + 1
    \/ /\ DOMAIN r = {"to", "error"}
       /\ r.error \in {"unknown_system", "unreachable"}

BlopsBridge ==
    [from : SystemShape, to : SystemShape, jump_ly : Nat, in_range : {TRUE}]

BlopsCandidate == [system : SystemShape, gate_jumps : Nat, ly_to_b : Nat]

IsBlopsChosen(c) ==
    /\ c.gate_jumps \in Nat
    /\ c.gate_path \in Seq(RouteStep) /\ Len(c.gate_path) = c.gate_jumps + 1
    /\ c.bridge \in BlopsBridge

IsBlopsRouteResponse(r) ==
    /\ r.jdc_level \in 1..5 /\ r.effective_ly \in Nat /\ r.defaulted \in BOOLEAN
    /\ IsBlopsChosen(r.chosen)
    /\ r.alternates \in Seq(BlopsCandidate)

RangeHull == [name : STRING, type_id : Nat, base_ly : Nat]

RangeReachable == [system : SystemShape, jump_ly : Nat]

IsRangeSummary(s) ==
    /\ s.reachable_count \in Nat /\ s.farthest_ly \in Nat
    /\ \A class \in DOMAIN s.by_sec_class : s.by_sec_class[class] \in Nat \ {0}

IsRangeResponse(r) ==
    /\ IsRangeSummary(r.summary)
    /\ r.jdc_level \in 1..5 /\ r.effective_ly \in Nat
    /\ r.source \in SystemShape /\ r.hull \in RangeHull
    /\ r.reachable \in Seq(RangeReachable)
=============================================================================
