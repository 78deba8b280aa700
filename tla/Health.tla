------------------------------- MODULE Health -------------------------------
(***************************************************************************)
(* GET /health: three loads, one after the other, of state that the reload *)
(* task and the poller store meanwhile.  The counts of systems, edges and  *)
(* hulls belong to the graph and come with its version.                    *)
(***************************************************************************)
EXTENDS LiveState

VARIABLES
    pc,       \* "loadGraph", "loadTime", "loadScout", "answered"
    report    \* the answer so far; `swap` identifies the graph reported

vars == <<liveVars, pc, report>>

EmptyReport ==
    [sde_version |-> 0, swap |-> 0, last_sde_reload_at |-> 0, sig_count |-> 0,
     last_evescout_fetch_at |-> Never]

Init ==
    /\ LiveInit
    /\ pc = "loadGraph"
    /\ report = EmptyReport

LoadGraph ==
    /\ pc = "loadGraph"
    /\ pc' = "loadTime"
    /\ report' = [report EXCEPT !.sde_version = graph, !.swap = swaps]
    /\ UNCHANGED liveVars

LoadTime ==
    /\ pc = "loadTime"
    /\ pc' = "loadScout"
    /\ report' = [report EXCEPT !.last_sde_reload_at = last_reload_at]
    /\ UNCHANGED liveVars

LoadScout ==
    /\ pc = "loadScout"
    /\ pc' = "answered"
    /\ report' = [report EXCEPT !.sig_count = SigCount(eve_scout),
                                !.last_evescout_fetch_at = eve_scout.fetched_at]
    /\ UNCHANGED liveVars

\* Another request comes.
Again ==
    /\ pc = "answered"
    /\ pc' = "loadGraph"
    /\ UNCHANGED <<liveVars, report>>

Next ==
    \/ LiveNext /\ UNCHANGED <<pc, report>>
    \/ LoadGraph \/ LoadTime \/ LoadScout \/ Again

Spec == Init /\ [][Next]_vars
----------------------------------------------------------------------------
TypeOK ==
    /\ clock \in 0..MaxClock
    /\ graph \in Builds
    /\ swaps \in 0..MaxSwaps /\ last_reload_at \in 0..swaps
    /\ reloadPc \in {"waiting", "stamp"} /\ pollPc \in {"waiting", "fetching"}
    /\ eve_scout.fetched_at \in {Never} \cup 0..clock
    /\ pc \in {"loadGraph", "loadTime", "loadScout", "answered"}
    /\ report.sde_version \in Builds \cup {0} /\ report.swap \in 0..swaps
    /\ report.last_sde_reload_at \in 0..swaps

(***************************************************************************)
(* The reload time of an answer is at most one swap behind the build it    *)
(* reports, however many swaps the handler straddles: the task stores the  *)
(* time before it starts on another build, and the handler loads the graph *)
(* before the time.                                                        *)
(***************************************************************************)
ReloadTimeLagsOneSwap ==
    pc \in {"loadScout", "answered"} => report.last_sde_reload_at + 1 >= report.swap

(***************************************************************************)
(* Answers one after another never go back in time, through swaps and      *)
(* through polls that fail (a failed poll keeps the last snapshot).        *)
(***************************************************************************)
AnswersNeverGoBack ==
    [][/\ report'.swap >= report.swap
       /\ report'.last_sde_reload_at >= report.last_sde_reload_at
       /\ report'.last_evescout_fetch_at >= report.last_evescout_fetch_at]_vars

----------------------------------------------------------------------------
(* What the documentation says and the code does not do.                   *)

(***************************************************************************)
(* health-and-openapi/spec.md:15-16: last_sde_reload_at is the time of the *)
(* last hot-reload swap, null until the first one.                         *)
(***************************************************************************)
ReloadTimeIsOfReportedBuild ==
    pc = "answered" => report.last_sde_reload_at = report.swap
=============================================================================
