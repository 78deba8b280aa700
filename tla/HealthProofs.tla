---------------------------- MODULE HealthProofs ----------------------------
(***************************************************************************)
(* Proofs about Health, for every set of builds, every answer of EVE-Scout *)
(* and every bound.                                                        *)
(***************************************************************************)
EXTENDS Health, TLAPS

(***************************************************************************)
(* The inductive invariant.  The task has stored the time of every swap    *)
(* but the one it is at; a snapshot is dated; what the handler has loaded  *)
(* is not newer than what it was loaded from.                              *)
(***************************************************************************)
StampFollowsSwap ==
    /\ reloadPc = "waiting" => last_reload_at = swaps
    /\ reloadPc = "stamp" => last_reload_at = swaps - 1

ReportFollowsState ==
    /\ DOMAIN report = DOMAIN EmptyReport
    /\ report.last_evescout_fetch_at \in Int /\ report.last_evescout_fetch_at >= Never
    /\ report.last_sde_reload_at <= last_reload_at
    /\ report.last_evescout_fetch_at <= eve_scout.fetched_at

IInv ==
    /\ TypeOK
    /\ StampFollowsSwap
    /\ ReportFollowsState
    /\ ReloadTimeLagsOneSwap

\* What an answer of EVE-Scout is turned into is dated now.
LEMMA PartitionIsDated ==
    ASSUME NEW raw, NEW now PROVE Partition(raw, now).fetched_at = now
BY DEF Partition

LEMMA InitEstablishes == Init => IInv
BY BoundsAssumption
   DEF Init, LiveInit, EmptyReport, EmptySnapshot, Never, IInv, TypeOK,
       StampFollowsSwap, ReportFollowsState, ReloadTimeLagsOneSwap

\* The steps of the tasks and the clock.
LEMMA LiveStepPreserves ==
    ASSUME IInv, LiveNext, UNCHANGED <<pc, report>> PROVE IInv'
<1> USE BoundsAssumption DEF Never, EmptyReport
<1>1. CASE TimePasses
  BY <1>1 DEF TimePasses, IInv, TypeOK, StampFollowsSwap, ReportFollowsState,
              ReloadTimeLagsOneSwap
<1>2. CASE \E b \in Builds : StoreGraph(b)
  BY <1>2 DEF StoreGraph, IInv, TypeOK, StampFollowsSwap, ReportFollowsState,
              ReloadTimeLagsOneSwap
<1>3. CASE StoreReloadTime
  BY <1>3 DEF StoreReloadTime, IInv, TypeOK, StampFollowsSwap,
              ReportFollowsState, ReloadTimeLagsOneSwap
<1>4. CASE PollTick
  BY <1>4 DEF PollTick, IInv, TypeOK, StampFollowsSwap, ReportFollowsState,
              ReloadTimeLagsOneSwap
<1>5. CASE \E raw \in Feeds : PollAnswered(raw)
  <2>1. eve_scout'.fetched_at = clock
    BY <1>5, PartitionIsDated DEF PollAnswered
  <2>. QED
    BY <1>5, <2>1 DEF PollAnswered, IInv, TypeOK, StampFollowsSwap,
                      ReportFollowsState, ReloadTimeLagsOneSwap
<1>6. CASE PollFails
  BY <1>6 DEF PollFails, IInv, TypeOK, StampFollowsSwap, ReportFollowsState,
              ReloadTimeLagsOneSwap
<1>. QED  BY <1>1, <1>2, <1>3, <1>4, <1>5, <1>6 DEF LiveNext

LEMMA StepPreserves == IInv /\ [Next]_vars => IInv'
<1>. SUFFICES ASSUME IInv, [Next]_vars PROVE IInv'
  OBVIOUS
<1>. USE DEF Never, EmptyReport
<1>1. CASE LiveNext /\ UNCHANGED <<pc, report>>
  BY <1>1, LiveStepPreserves
<1>2. CASE LoadGraph
  BY <1>2 DEF LoadGraph, liveVars, IInv, TypeOK, StampFollowsSwap,
              ReportFollowsState, ReloadTimeLagsOneSwap
<1>3. CASE LoadTime
  BY <1>3 DEF LoadTime, liveVars, IInv, TypeOK, StampFollowsSwap,
              ReportFollowsState, ReloadTimeLagsOneSwap
<1>4. CASE LoadScout
  BY <1>4 DEF LoadScout, liveVars, IInv, TypeOK, StampFollowsSwap,
              ReportFollowsState, ReloadTimeLagsOneSwap
<1>5. CASE Again
  BY <1>5 DEF Again, liveVars, IInv, TypeOK, StampFollowsSwap,
              ReportFollowsState, ReloadTimeLagsOneSwap
<1>6. CASE UNCHANGED vars
  BY <1>6 DEF vars, liveVars, IInv, TypeOK, StampFollowsSwap,
              ReportFollowsState, ReloadTimeLagsOneSwap
<1>. QED  BY <1>1, <1>2, <1>3, <1>4, <1>5, <1>6 DEF Next

THEOREM Invariance == Spec => []IInv
BY InitEstablishes, StepPreserves, PTL DEF Spec

\* Every variable of the tasks and of the health handler keeps its type.
THEOREM TypeCorrect == Spec => []TypeOK
<1>1. IInv => TypeOK  BY DEF IInv
<1>. QED  BY <1>1, Invariance, PTL

\* However swaps and loads interleave, the reload time of an answer is at
\* most one swap behind the build it reports.
THEOREM ReloadTimeIsRecent == Spec => []ReloadTimeLagsOneSwap
<1>1. IInv => ReloadTimeLagsOneSwap  BY DEF IInv
<1>. QED  BY <1>1, Invariance, PTL

\* Health answers never go back in time, failed polls included.
THEOREM ReportsAdvance == Spec => AnswersNeverGoBack
<1>1. ASSUME IInv, [Next]_vars
      PROVE  /\ report'.swap >= report.swap
             /\ report'.last_sde_reload_at >= report.last_sde_reload_at
             /\ report'.last_evescout_fetch_at >= report.last_evescout_fetch_at
  <2>. USE <1>1 DEF IInv, TypeOK, ReportFollowsState, EmptyReport, Never
  <2>1. CASE UNCHANGED report
    BY <2>1
  <2>2. CASE LoadGraph
    BY <2>2 DEF LoadGraph
  <2>3. CASE LoadTime
    BY <2>3 DEF LoadTime
  <2>4. CASE LoadScout
    BY <2>4 DEF LoadScout
  <2>. QED  BY <2>1, <2>2, <2>3, <2>4 DEF Next, Again, vars
<1>. QED  BY <1>1, Invariance, PTL DEF Spec, AnswersNeverGoBack
=============================================================================
