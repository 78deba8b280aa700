------------------------------ MODULE Service ------------------------------
(***************************************************************************)
(* The process: main reads its configuration, starts the tasks that it     *)
(* asks for, binds, serves until a signal comes, drains and exits.  The    *)
(* tasks run from before the bind until the process has exited.            *)
(*                                                                         *)
(* One connection at a time asks for the health of the service, as Health  *)
(* has it; the others send route requests, whose handlers are Router's     *)
(* business: here they only take their time.                               *)
(***************************************************************************)
EXTENDS Health

CONSTANTS
    Connections,     \* of clients that send route requests
    Envs             \* environments the process may be started in

\* Values of a number in the environment, beside the naturals.
NotSet == -1
Junk   == -2

OFFLINE_BUILD                   == 0
DEFAULT_SDE_RELOAD_INTERVAL     == 3600
DEFAULT_EVE_SCOUT_INTERVAL      == 600
Signals                         == {"SIGINT", "SIGTERM"}

EnvShape ==
    [sde_dir     : BOOLEAN,                 \* PALU_SDE_DIR is set
     sde_reload  : Nat \cup {NotSet, Junk}, \* PALU_SDE_RELOAD_INTERVAL_SECS
     eve_scout   : Nat \cup {NotSet, Junk}, \* PALU_EVE_SCOUT_INTERVAL_SECS
     installable : SUBSET Signals]          \* handlers that can be installed

ASSUME EnvsAssumption == Envs \subseteq EnvShape

VARIABLES
    env,
    main,        \* "binding", "failed", "serving", "draining", "exited",
                 \* "killed"
    routes,      \* of each connection: "idle", "reading", "handling"
    signals      \* signals that have come (history)

serviceVars == <<vars, env, main, routes, signals>>

ParseEnvOr(raw, default) == IF raw \in {NotSet, Junk} THEN default ELSE raw

\* Faulty Reloads: main forgets the offline mode.
ReloadsAnyway == ParseEnvOr(env.sde_reload, DEFAULT_SDE_RELOAD_INTERVAL) > 0

\* An offline SDE has no manifest to compare with; interval 0 disables.
Reloads ==
    ~env.sde_dir /\ ParseEnvOr(env.sde_reload, DEFAULT_SDE_RELOAD_INTERVAL) > 0

Polls == ParseEnvOr(env.eve_scout, DEFAULT_EVE_SCOUT_INTERVAL) > 0

\* The SDE is loaded, the state made and the tasks are spawned.
ServiceInit ==
    /\ Init
    /\ env \in Envs
    /\ graph = OFFLINE_BUILD <=> env.sde_dir
    /\ main = "binding"
    /\ routes = [c \in Connections |-> "idle"]
    /\ signals = {}

Ended == main \in {"failed", "exited", "killed"}

----------------------------------------------------------------------------
\* The tasks and the clock; nothing waits for them at the end.

ReloadTask ==
    /\ Reloads /\ ~Ended
    /\ StoreReloadTime \/ \E b \in Builds \ {OFFLINE_BUILD} : StoreGraph(b)
    /\ UNCHANGED <<pc, report, env, main, routes, signals>>

PollTask ==
    /\ Polls /\ ~Ended
    /\ PollTick \/ PollFails \/ \E raw \in Feeds : PollAnswered(raw)
    /\ UNCHANGED <<pc, report, env, main, routes, signals>>

Clock ==
    /\ ~Ended
    /\ TimePasses
    /\ UNCHANGED <<pc, report, env, main, routes, signals>>

----------------------------------------------------------------------------
\* main, after the tasks are spawned

\* Faulty Bind: the router is given a state made anew.
BindAnew ==
    /\ main = "binding"
    /\ main' = "serving"
    /\ eve_scout' = EmptySnapshot
    /\ UNCHANGED <<clock, graph, swaps, last_reload_at, reloadPc, pollPc>>
    /\ UNCHANGED <<pc, report, env, routes, signals>>

Bind ==
    /\ main = "binding"
    /\ main' = "serving"
    /\ UNCHANGED <<vars, env, routes, signals>>

BindFails ==
    /\ main = "binding"
    /\ main' = "failed"
    /\ UNCHANGED <<vars, env, routes, signals>>

\* Faulty ShutdownSignal: Ctrl-C alone is listened for.
ShutdownSignalCtrlC ==
    /\ main = "serving"
    /\ "SIGINT" \in env.installable \cap signals
    /\ main' = "draining"
    /\ UNCHANGED <<vars, env, routes, signals>>

\* The future resolves when either signal comes; one whose handler cannot be
\* installed is pending for ever.
ShutdownSignal ==
    /\ main = "serving"
    /\ env.installable \cap signals # {}
    /\ main' = "draining"
    /\ UNCHANGED <<vars, env, routes, signals>>

\* Faulty Exit: nothing is waited for.
ExitAtOnce ==
    /\ main = "draining"
    /\ main' = "exited"
    /\ UNCHANGED <<vars, env, routes, signals>>

\* axum waits for the requests that have been accepted.
Exit ==
    /\ main = "draining"
    /\ \A c \in Connections : routes[c] = "idle"
    /\ pc \notin {"loadTime", "loadScout"}
    /\ main' = "exited"
    /\ UNCHANGED <<vars, env, routes, signals>>

----------------------------------------------------------------------------
\* Requests.  The body of one that has been accepted is read, then its
\* handler runs; a client may also go away or stall.

InService == main \in {"serving", "draining"}

HealthAccepted ==
    /\ main = "serving"
    /\ Again \/ LoadGraph
    /\ UNCHANGED <<env, main, routes, signals>>

HealthHandled ==
    /\ InService
    /\ LoadTime \/ LoadScout
    /\ UNCHANGED <<env, main, routes, signals>>

Step(c, from, to) ==
    /\ routes[c] = from
    /\ routes' = [routes EXCEPT ![c] = to]
    /\ UNCHANGED <<vars, env, main, signals>>

Accept(c)   == main = "serving" /\ Step(c, "idle", "reading")
BodyRead(c) == InService /\ Step(c, "reading", "handling")
Leaves(c)   == InService /\ Step(c, "reading", "idle")
Answer(c)   == InService /\ Step(c, "handling", "idle")

(***************************************************************************)
(* The environment sends a signal; before main listens to it it is not     *)
(* ours.  One whose handler is installed is kept for main, or is of no     *)
(* consequence once the drain has begun.  One whose handler is not has the *)
(* default action, which ends the process, unless it is the first one of   *)
(* a container, which has none.                                            *)
(***************************************************************************)
Signal(s) ==
    /\ InService
    /\ s \notin signals
    /\ signals' = signals \cup {s}
    /\ main' \in IF s \in env.installable THEN {main} ELSE {main, "killed"}
    /\ UNCHANGED <<vars, env, routes>>

ServiceNext ==
    \/ ReloadTask \/ PollTask \/ Clock
    \/ Bind \/ BindFails \/ ShutdownSignal \/ Exit
    \/ HealthAccepted \/ HealthHandled
    \/ \E c \in Connections : Accept(c) \/ BodyRead(c) \/ Leaves(c) \/ Answer(c)
    \/ \E s \in Signals : Signal(s)

ServiceSpec == ServiceInit /\ [][ServiceNext]_serviceVars

(***************************************************************************)
(* The worker threads run whatever can run: handlers, which wait for       *)
(* nothing but the body, and main.  Clients, signals, the tasks and the    *)
(* clock owe nothing.                                                      *)
(***************************************************************************)
ServiceFairness ==
    /\ WF_serviceVars(Bind \/ BindFails)
    /\ WF_serviceVars(ShutdownSignal)
    /\ WF_serviceVars(Exit)
    /\ WF_serviceVars(HealthHandled)
    /\ \A c \in Connections : WF_serviceVars(Answer(c))

FairService == ServiceSpec /\ ServiceFairness
----------------------------------------------------------------------------
ServiceTypeOK ==
    /\ TypeOK
    /\ env \in EnvShape
    /\ main \in {"binding", "failed", "serving", "draining", "exited", "killed"}
    /\ routes \in [Connections -> {"idle", "reading", "handling"}]
    /\ signals \subseteq Signals

(***************************************************************************)
(* What the configuration rules out is not done, and a health answer tells *)
(* of none of it: the build of the start is kept, and no reload time is    *)
(* reported, when the SDE comes from a directory or the interval is 0; and *)
(* with a poll interval of 0 there are no signatures, for anyone.          *)
(***************************************************************************)
OnlyConfiguredTasksRun ==
    /\ env.sde_dir \/ env.sde_reload = 0 =>
          swaps = 0 /\ report.last_sde_reload_at = 0
    /\ env.eve_scout = 0 =>
          eve_scout = EmptySnapshot /\ report.last_evescout_fetch_at = Never

(***************************************************************************)
(* The service stops accepting only for a signal, of a kind whose handler  *)
(* is installed: a handler that cannot be is no request to stop.  It is    *)
(* killed only by a signal of the other kind.                              *)
(***************************************************************************)
StopsOnlyForSignals ==
    /\ main \in {"draining", "exited"} => env.installable \cap signals # {}
    /\ main = "killed" => signals \ env.installable # {}

(***************************************************************************)
(* A request whose body has come is answered, though a signal comes that   *)
(* is listened to, and a health request as well: only a process that is    *)
(* killed leaves them.                                                     *)
(***************************************************************************)
AcceptedAreAnswered ==
    /\ \A c \in Connections :
           routes[c] = "handling" ~> routes[c] = "idle" \/ main = "killed"
    /\ pc = "loadTime" ~> pc = "answered" \/ main = "killed"

(***************************************************************************)
(* A signal whose handler is installed ends the service, unless a client   *)
(* stalls in the middle of its request (there is no deadline for that);    *)
(* one whose handler is not starts no drain, whatever else it does.        *)
(***************************************************************************)
SignalsEndTheService ==
    /\ []StopsOnlyForSignals
    /\ env.installable \cap signals # {} ~>
           \/ main \in {"exited", "killed"}
           \/ \E c \in Connections : routes[c] = "reading"

(***************************************************************************)
(* What the process does is allowed by Health, so all that holds of Health *)
(* holds through startup, a failed bind and the drain.                     *)
(***************************************************************************)
ImplementsHealth == Spec
=============================================================================
