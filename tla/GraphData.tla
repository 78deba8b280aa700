----------------------------- MODULE GraphData -----------------------------
(***************************************************************************)
(* The in-memory map of one SDE build, as the requests see it: the systems *)
(* in node-index order, the two lookups, the gate graph, the spatial index *)
(* and the hulls.  Pure operators over a parsed SDE                        *)
(*                                                                         *)
(*   systems     a sequence of [id, name, sec, coords]                     *)
(*   gate_pairs  a sequence of pairs of ids, lesser id first               *)
(*   hulls       the rows of HullCatalog                                   *)
(*                                                                         *)
(* The system of node index n is element n + 1 of the sequence.            *)
(***************************************************************************)
EXTENDS HullCatalog

Unresolved == -1

\* The node index of the last system with each id, and with each name.
IdToIdx(systems) ==
    LET last == LastBy([i \in DOMAIN systems |-> systems[i].id])
    IN  [id \in DOMAIN last |-> last[id] - 1]

NameToIdx(systems) ==
    LET last == LastBy(LowerNames(systems))
    IN  [name \in DOMAIN last |-> last[name] - 1]

IsWormhole(system) == system.sec = "wormhole"

\* Faulty GateGraph: an unknown end is taken for node 0.
GateGraphUnknownIsFirst(gate_pairs, idx) ==
    LET node(id) == IF id \in DOMAIN idx THEN idx[id] ELSE 0
    IN  {{node(p[1]), node(p[2])} : p \in ToSet(gate_pairs)}

\* A gate with an unknown end is skipped; one edge per pair of systems.
GateGraph(gate_pairs, idx) ==
    {{idx[p[1]], idx[p[2]]} : p \in {q \in ToSet(gate_pairs) :
        {q[1], q[2]} \subseteq DOMAIN idx}}

\* The node indices in the kd-tree: K-space only.
SpatialIndex(systems) ==
    {i - 1 : i \in {k \in DOMAIN systems : ~IsWormhole(systems[k])}}

\* build_graph_data: the map and the hulls of one build in one value.
BuildGraph(raw, build) ==
    [systems       |-> raw.systems,
     id_to_idx     |-> IdToIdx(raw.systems),
     name_to_idx   |-> NameToIdx(raw.systems),
     gate_graph    |-> GateGraph(raw.gate_pairs, IdToIdx(raw.systems)),
     spatial_index |-> SpatialIndex(raw.systems),
     hulls         |-> FromRaw(raw.hulls),
     build_number  |-> build]

\* resolve_system, of a reference [by |-> "id" or "name", key].
ResolveSystem(g, r) ==
    LET index == IF r.by = "id" THEN g.id_to_idx ELSE g.name_to_idx
        key   == IF r.by = "id" THEN r.key ELSE Lower[r.key]
    IN  IF key \in DOMAIN index THEN index[key] ELSE Unresolved

SystemAt(g, n) == g.systems[n + 1]
=============================================================================
