------------------------------- MODULE Router -------------------------------
(***************************************************************************)
(* The service under a request to any of its three routes: build_router    *)
(* gives it to the handler of its path, while the reload task, the poller  *)
(* and the clock go on.  (GET /health is in Health.)                       *)
(***************************************************************************)
EXTENDS GateRoute, JumpRoutes

vars == <<liveVars, handlerVars, gateVars, answer>>

Init == HandlerInit /\ GateInit /\ JumpInit

\* The body reaches the handler of its route, or is refused.
Request(body) == RefuseBody(body) \/ LoadGraph(body)

Next ==
    \/ LiveNext /\ UNCHANGED <<handlerVars, gateVars, answer>>
    \/ \E body \in Bodies : Request(body) /\ UNCHANGED <<gateVars, answer>>
    \/ LoadScout /\ UNCHANGED <<gateVars, answer>>
    \/ GateNext /\ UNCHANGED answer
    \/ JumpNext /\ UNCHANGED gateVars

Spec == Init /\ [][Next]_vars
----------------------------------------------------------------------------
TypeOK == HandlerTypeOK /\ GateTypeOK /\ JumpTypeOK
=============================================================================
