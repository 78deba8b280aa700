---------------------------- MODULE ServiceProofs ----------------------------
(***************************************************************************)
(* Proofs about Service, for every set of builds, connections and          *)
(* environments.  That the process does what Health allows carries the     *)
(* theorems of HealthProofs over to it.                                    *)
(***************************************************************************)
EXTENDS Service, HealthProofs

(***************************************************************************)
(* Refinement: a step of the process is one of Health, or leaves Health's  *)
(* variables alone.                                                        *)
(***************************************************************************)
LEMMA StepsAreHealths == [ServiceNext]_serviceVars => [Next]_vars
<1>. SUFFICES ASSUME [ServiceNext]_serviceVars PROVE [Next]_vars
  OBVIOUS
<1>1. CASE ReloadTask \/ PollTask \/ Clock
  BY <1>1 DEF ReloadTask, PollTask, Clock, Next, LiveNext
<1>2. CASE Bind \/ BindFails \/ ShutdownSignal \/ Exit
  BY <1>2 DEF Bind, BindFails, ShutdownSignal, Exit
<1>3. CASE HealthAccepted \/ HealthHandled
  BY <1>3 DEF HealthAccepted, HealthHandled, Next
<1>4. CASE \E c \in Connections : Accept(c) \/ BodyRead(c) \/ Leaves(c) \/ Answer(c)
  BY <1>4 DEF Accept, BodyRead, Leaves, Answer, Step
<1>5. CASE \E s \in Signals : Signal(s)
  BY <1>5 DEF Signal
<1>6. CASE UNCHANGED serviceVars
  BY <1>6 DEF serviceVars
<1>. QED  BY <1>1, <1>2, <1>3, <1>4, <1>5, <1>6 DEF ServiceNext

\* The process implements Health.
THEOREM ServiceImplementsHealth == ServiceSpec => ImplementsHealth
<1>1. ServiceInit => Init  BY DEF ServiceInit
<1>. QED  BY <1>1, StepsAreHealths, PTL DEF ServiceSpec, Spec, ImplementsHealth

\* Through startup and drain, the reload time of a health answer is at most
\* one swap behind the build it reports.
THEOREM ServiceReloadTimeIsRecent == ServiceSpec => []ReloadTimeLagsOneSwap
BY ServiceImplementsHealth, ReloadTimeIsRecent, PTL DEF ImplementsHealth

\* The health answers of a process never go back in time.
THEOREM ServiceReportsAdvance == ServiceSpec => AnswersNeverGoBack
BY ServiceImplementsHealth, ReportsAdvance, PTL DEF ImplementsHealth

----------------------------------------------------------------------------
(***************************************************************************)
(* The inductive invariant: what a task that is off would have changed is  *)
(* as it was at the start, and the report has been taken from that.        *)
(***************************************************************************)
TasksAsConfigured ==
    /\ ~Reloads => swaps = 0 /\ last_reload_at = 0 /\ reloadPc = "waiting"
    /\ ~Polls => eve_scout = EmptySnapshot /\ pollPc = "waiting"

ServiceIInv ==
    /\ IInv
    /\ ServiceTypeOK
    /\ TasksAsConfigured
    /\ StopsOnlyForSignals

LEMMA ServiceInitEstablishes == ServiceInit => ServiceIInv
<1>. SUFFICES ASSUME ServiceInit PROVE ServiceIInv
  OBVIOUS
<1>1. IInv  BY InitEstablishes DEF ServiceInit
<1>2. ServiceTypeOK
  BY <1>1, EnvsAssumption DEF ServiceInit, ServiceTypeOK, IInv
<1>3. TasksAsConfigured
  BY DEF ServiceInit, Init, LiveInit, TasksAsConfigured
<1>. QED  BY <1>1, <1>2, <1>3 DEF ServiceInit, ServiceIInv, StopsOnlyForSignals

LEMMA ServiceTypesPreserved ==
    ASSUME ServiceIInv, IInv', [ServiceNext]_serviceVars PROVE ServiceTypeOK'
<1>. USE DEF ServiceIInv, ServiceTypeOK
<1>. TypeOK'  BY DEF IInv
<1>1. CASE ReloadTask \/ PollTask \/ Clock
  BY <1>1 DEF ReloadTask, PollTask, Clock
<1>2. CASE Bind \/ BindFails \/ ShutdownSignal \/ Exit
  BY <1>2 DEF Bind, BindFails, ShutdownSignal, Exit
<1>3. CASE HealthAccepted \/ HealthHandled
  BY <1>3 DEF HealthAccepted, HealthHandled
<1>4. CASE \E c \in Connections : Accept(c) \/ BodyRead(c) \/ Leaves(c) \/ Answer(c)
  BY <1>4 DEF Accept, BodyRead, Leaves, Answer, Step
<1>5. CASE \E s \in Signals : Signal(s)
  BY <1>5 DEF Signal, InService
<1>6. CASE UNCHANGED serviceVars
  BY <1>6 DEF serviceVars
<1>. QED  BY <1>1, <1>2, <1>3, <1>4, <1>5, <1>6 DEF ServiceNext

LEMMA ConfigurationKept ==
    ASSUME ServiceIInv, [ServiceNext]_serviceVars
    PROVE  TasksAsConfigured'
<1>. USE DEF ServiceIInv, TasksAsConfigured, Reloads, Polls
<1>1. CASE ReloadTask
  BY <1>1 DEF ReloadTask, StoreGraph, StoreReloadTime
<1>2. CASE PollTask
  BY <1>2 DEF PollTask, PollTick, PollFails, PollAnswered
<1>3. CASE Clock
  BY <1>3 DEF Clock, TimePasses
<1>4. CASE HealthAccepted \/ HealthHandled
  BY <1>4 DEF HealthAccepted, HealthHandled, Again, LoadGraph, LoadTime,
              LoadScout, liveVars
<1>5. CASE Bind \/ BindFails \/ ShutdownSignal \/ Exit
  BY <1>5 DEF Bind, BindFails, ShutdownSignal, Exit, vars, liveVars
<1>6. CASE \E c \in Connections : Accept(c) \/ BodyRead(c) \/ Leaves(c) \/ Answer(c)
  BY <1>6 DEF Accept, BodyRead, Leaves, Answer, Step, vars, liveVars
<1>7. CASE \E s \in Signals : Signal(s)
  BY <1>7 DEF Signal, vars, liveVars
<1>8. CASE UNCHANGED serviceVars
  BY <1>8 DEF serviceVars, vars, liveVars
<1>. QED  BY <1>1, <1>2, <1>3, <1>4, <1>5, <1>6, <1>7, <1>8 DEF ServiceNext

LEMMA StopsPreserved ==
    ASSUME ServiceIInv, [ServiceNext]_serviceVars
    PROVE  StopsOnlyForSignals'
<1>. USE DEF ServiceIInv, StopsOnlyForSignals
<1>1. CASE ShutdownSignal \/ Exit
  BY <1>1 DEF ShutdownSignal, Exit
<1>2. CASE Bind \/ BindFails
  BY <1>2 DEF Bind, BindFails
<1>3. CASE \E s \in Signals : Signal(s)
  BY <1>3 DEF Signal, InService
<1>4. CASE UNCHANGED <<env, main, signals>>
  BY <1>4
<1>. QED
  BY <1>1, <1>2, <1>3, <1>4
  DEF ServiceNext, serviceVars, ReloadTask, PollTask, Clock,
      HealthAccepted, HealthHandled, Accept, BodyRead, Leaves, Answer, Step

THEOREM ServiceInvariance == ServiceSpec => []ServiceIInv
<1>1. ServiceIInv /\ [ServiceNext]_serviceVars => ServiceIInv'
  <2>. SUFFICES ASSUME ServiceIInv, [ServiceNext]_serviceVars PROVE ServiceIInv'
    OBVIOUS
  <2>1. IInv'  BY StepsAreHealths, StepPreserves DEF ServiceIInv
  <2>. QED
    BY <2>1, ServiceTypesPreserved, ConfigurationKept, StopsPreserved DEF ServiceIInv
<1>. QED  BY <1>1, ServiceInitEstablishes, PTL DEF ServiceSpec

\* Every variable of the process keeps its type.
THEOREM ServiceTypeCorrect == ServiceSpec => []ServiceTypeOK
<1>1. ServiceIInv => ServiceTypeOK  BY DEF ServiceIInv
<1>. QED  BY <1>1, ServiceInvariance, PTL

\* In every environment, what the configuration rules out is not done and
\* not reported.
THEOREM ConfigurationIsObeyed == ServiceSpec => []OnlyConfiguredTasksRun
<1>1. ServiceIInv => OnlyConfiguredTasksRun
  <2>. SUFFICES ASSUME ServiceIInv PROVE OnlyConfiguredTasksRun
    OBVIOUS
  <2>. USE DEF ServiceIInv, TasksAsConfigured
  <2>1. env.sde_dir \/ env.sde_reload = 0 => ~Reloads
    BY DEF Reloads, ParseEnvOr, NotSet, Junk
  <2>2. env.eve_scout = 0 => ~Polls
    BY DEF Polls, ParseEnvOr, NotSet, Junk
  <2>3. /\ report.last_sde_reload_at \in Nat
        /\ report.last_sde_reload_at <= last_reload_at
    BY DEF IInv, TypeOK, ReportFollowsState
  <2>4. /\ report.last_evescout_fetch_at \in Int
        /\ Never <= report.last_evescout_fetch_at
        /\ report.last_evescout_fetch_at <= eve_scout.fetched_at
    BY DEF IInv, ReportFollowsState, Never
  <2>5. EmptySnapshot.fetched_at = Never
    BY DEF EmptySnapshot
  <2>. QED
    BY <2>1, <2>2, <2>3, <2>4, <2>5 DEF OnlyConfiguredTasksRun, Never
<1>. QED  BY <1>1, ServiceInvariance, PTL

\* The service stops accepting only for a signal it listens to, and is killed
\* only by one it does not.
THEOREM StopsForSignals == ServiceSpec => []StopsOnlyForSignals
<1>1. ServiceIInv => StopsOnlyForSignals  BY DEF ServiceIInv
<1>. QED  BY <1>1, ServiceInvariance, PTL
=============================================================================
