----------------------------- MODULE LiveState -----------------------------
(***************************************************************************)
(* What a running service holds in memory (AppState) and what changes it:  *)
(* the reload task, which stores a graph and then its time, the EVE-Scout  *)
(* poller, and the clock.  Request handlers are in modules of their own    *)
(* and read this state between any two of these steps.                     *)
(*                                                                         *)
(* How the reload task comes by a build is SdeCache's business: here any   *)
(* other build may arrive.  A reload time is represented by the number of  *)
(* the swap it was taken for.                                              *)
(***************************************************************************)
EXTENDS EveScout

CONSTANTS Builds,     \* build numbers of the SDE
          Feeds,      \* answers EVE-Scout may give: sequences of raw rows
          MaxClock,   \* bound of the clock
          MaxSwaps    \* bound on hot swaps

ASSUME BoundsAssumption == MaxClock \in Nat /\ MaxSwaps \in Nat

ASSUME FeedsAssumption == \A raw \in Feeds : raw \in Seq(RawSignature)

VARIABLES
    clock,
    graph,            \* AppState.graph: the build served
    swaps,            \* swaps of the graph so far: identifies its value
    last_reload_at,   \* the swap whose time is stored, 0 for None
    reloadPc,         \* the reload task: "waiting" or "stamp"
    eve_scout,        \* AppState.eve_scout
    pollPc            \* the poller: "waiting" or "fetching"

liveVars == <<clock, graph, swaps, last_reload_at, reloadPc, eve_scout, pollPc>>

\* Faulty LiveInit: the startup load counts as a reload.
LiveInitStamped ==
    /\ clock = 0
    /\ graph \in Builds
    /\ swaps = 0
    /\ last_reload_at = 1
    /\ reloadPc = "waiting"
    /\ eve_scout = EmptySnapshot
    /\ pollPc = "waiting"

\* AppState::new, and the two tasks spawned.
LiveInit ==
    /\ clock = 0
    /\ graph \in Builds
    /\ swaps = 0
    /\ last_reload_at = 0
    /\ reloadPc = "waiting"
    /\ eve_scout = EmptySnapshot
    /\ pollPc = "waiting"

TimePasses ==
    /\ clock < MaxClock
    /\ clock' = clock + 1
    /\ UNCHANGED <<graph, swaps, last_reload_at, reloadPc, eve_scout, pollPc>>

\* RefreshOutcome::Updated: graph.store ...
StoreGraph(b) ==
    /\ reloadPc = "waiting"
    /\ swaps < MaxSwaps
    /\ b # graph
    /\ graph' = b
    /\ swaps' = swaps + 1
    /\ reloadPc' = "stamp"
    /\ UNCHANGED <<clock, last_reload_at, eve_scout, pollPc>>

\* Faulty StoreReloadTime: only the first swap sets the time.
StoreReloadTimeOnce ==
    /\ reloadPc = "stamp"
    /\ last_reload_at' = IF last_reload_at = 0 THEN swaps ELSE last_reload_at
    /\ reloadPc' = "waiting"
    /\ UNCHANGED <<clock, graph, swaps, eve_scout, pollPc>>

\* ... and last_reload_at.store.
StoreReloadTime ==
    /\ reloadPc = "stamp"
    /\ last_reload_at' = swaps
    /\ reloadPc' = "waiting"
    /\ UNCHANGED <<clock, graph, swaps, eve_scout, pollPc>>

PollTick ==
    /\ pollPc = "waiting"
    /\ pollPc' = "fetching"
    /\ UNCHANGED <<clock, graph, swaps, last_reload_at, reloadPc, eve_scout>>

PollAnswered(raw) ==
    /\ pollPc = "fetching"
    /\ eve_scout' = Partition(raw, clock)
    /\ pollPc' = "waiting"
    /\ UNCHANGED <<clock, graph, swaps, last_reload_at, reloadPc>>

\* Faulty PollFails: the snapshot is cleared.
PollFailsClearing ==
    /\ pollPc = "fetching"
    /\ eve_scout' = EmptySnapshot
    /\ pollPc' = "waiting"
    /\ UNCHANGED <<clock, graph, swaps, last_reload_at, reloadPc>>

\* A failed poll keeps the last snapshot.
PollFails ==
    /\ pollPc = "fetching"
    /\ pollPc' = "waiting"
    /\ UNCHANGED <<clock, graph, swaps, last_reload_at, reloadPc, eve_scout>>

LiveNext ==
    \/ TimePasses
    \/ \E b \in Builds : StoreGraph(b)
    \/ StoreReloadTime
    \/ PollTick
    \/ \E raw \in Feeds : PollAnswered(raw)
    \/ PollFails
=============================================================================
