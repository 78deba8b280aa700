----------------------------- MODULE MCDijkstra -----------------------------
(***************************************************************************)
(* Instances of Dijkstra on four systems, 0 to 3: 1 is nullsec, 2 lowsec,  *)
(* the others highsec.                                                     *)
(***************************************************************************)
EXTENDS Dijkstra, TLC

MCNodes == 0..3

MCSec == (0 :> "highsec") @@ (1 :> "nullsec") @@ (2 :> "lowsec")
             @@ (3 :> "highsec")

\* The chain 0-1-2-3 with the gates 0-2, 1-3 and any of them missing.
MCGates == SUBSET {{0, 1}, {1, 2}, {2, 3}, {0, 2}, {1, 3}}

\* Overlays as the services build them: no connection, one across, two that
\* meet, a bridge recorded before a wormhole of the same pair and a self-loop.
NoOverlay == << >>
Across    == AddConnection(NoOverlay, 0, 3, "wormhole")
Meeting   == AddConnection(AddConnection(NoOverlay, 0, 1, "wormhole"),
                           1, 3, "bridge")
Twice     == AddConnection(
                 AddConnection(
                     AddConnection(NoOverlay, 2, 3, "bridge"),
                     3, 2, "wormhole"),
                 2, 2, "wormhole")

ContextsOver(gates, overlays, avoids) ==
    {[NewContext(g, MCSec, a, p) EXCEPT !.overlay = o] :
        g \in gates, o \in overlays, a \in avoids, p \in Preferences}

\* Every graph once.
AllRequests ==
    ContextsOver(MCGates, {NoOverlay, Across, Meeting, Twice}, {{}, {2}})

\* Two graphs, searched one after the other with the same buffers.
SomeRequests ==
    {c \in ContextsOver({{{0, 1}, {1, 2}, {2, 3}}}, {Across}, {{}}) :
        c.pref = "prefer_gates"} \cup
    {c \in ContextsOver({{{0, 1}, {0, 2}}}, {NoOverlay}, {{2}}) : c.pref = "safest"}

\* Every request comes first, some come second.
MCNext ==
    /\ pc = "done" => ctx \in SomeRequests
    /\ Next
    /\ searches' = 2 => ctx' \in SomeRequests
MCSpec == Init /\ [][MCNext]_vars
=============================================================================
