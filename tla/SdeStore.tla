------------------------------ MODULE SdeStore ------------------------------
(***************************************************************************)
(* What the SDE cache and the hot-reload task promise together, without    *)
(* saying how: a durable "current build" that always names a completely    *)
(* stored build, and one served dataset that is replaced as a whole by a   *)
(* usable build that is stored at that moment.  SdeCache is shown to       *)
(* implement this module.                                                  *)
(***************************************************************************)

CONSTANTS Builds,    \* the build numbers the publisher uses
          Usable,    \* the builds whose files parse
          Local,     \* the dataset of a directory given by the operator
          NoBuild    \* absence of a build

VARIABLES complete,  \* builds all of whose files are stored
          current,   \* the build the durable pointer names
          serving    \* the dataset requests are answered from

storeVars == <<complete, current, serving>>

StoreInit ==
    /\ complete \subseteq Builds
    /\ current \in complete \cup {NoBuild}
    /\ serving = NoBuild

\* A build becomes completely stored.
Acquire(b) ==
    /\ complete' = complete \cup {b}
    /\ UNCHANGED <<current, serving>>

\* The durable pointer moves, in one step, to a completely stored build.
Promote(b) ==
    /\ b \in complete
    /\ current' = b
    /\ UNCHANGED <<complete, serving>>

\* Any build but the current one may be removed.
Discard(b) ==
    /\ b # current
    /\ complete' = complete \ {b}
    /\ UNCHANGED <<current, serving>>

\* A usable, completely stored build replaces the served dataset.
Serve(b) ==
    /\ b \in complete \cap Usable
    /\ serving' = b
    /\ UNCHANGED <<complete, current>>

\* A dataset outside the cache is served, from a start.
ServeLocal ==
    /\ serving = NoBuild
    /\ serving' = Local
    /\ UNCHANGED <<complete, current>>

\* The process ends; what is durable stays.
Stop ==
    /\ serving' = NoBuild
    /\ UNCHANGED <<complete, current>>

StoreNext ==
    \/ \E b \in Builds : Acquire(b) \/ Promote(b) \/ Discard(b) \/ Serve(b)
    \/ ServeLocal
    \/ Stop

StoreSpec == StoreInit /\ [][StoreNext]_storeVars
=============================================================================
