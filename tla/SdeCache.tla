------------------------------ MODULE SdeCache ------------------------------
(***************************************************************************)
(* The SDE cache and its two users: the startup load (main, ensure_cache)  *)
(* and the hot-reload task (spawn_sde_reload).  One process works on one   *)
(* cache directory; it can be killed between any two steps and started     *)
(* again, and every request to the publisher and every write can fail.     *)
(*                                                                         *)
(* Abstracted: what a file contains (a build is Broken or it parses),      *)
(* temporary files (a file appears by rename, complete or not at all),     *)
(* release dates, logging.  A read of a file that is present fails only    *)
(* when the build is Broken.                                               *)
(***************************************************************************)
EXTENDS Naturals

CONSTANTS
    Builds,    \* build numbers the publisher may announce
    Files,     \* the files the service needs (FILES)
    Shipped,   \* Shipped[b]: the needed files that the zip of b contains
    Broken,    \* builds with a file that the parser rejects
    NoBuild    \* no build: None, no metadata, nothing loaded

DirBuild == 0  \* the build number reported for PALU_SDE_DIR

Deployments == {"reload", "noReload", "sdeDir"}

ASSUME BuildsAssumption  == Builds \subseteq Nat \ {DirBuild}
ASSUME NoBuildAssumption == NoBuild \notin Builds \cup {DirBuild}
ASSUME ShippedAssumption == Shipped \in [Builds -> SUBSET Files]
ASSUME FilesAssumption   == Files # {}

VARIABLES
    manifest,   \* the build that latest.jsonl announces
    deployment, \* reload interval > 0, interval = 0, or PALU_SDE_DIR set
    present,    \* present[b]: files found in the directory of build b
    pointer,    \* build number in metadata.json
    pc,         \* what the startup load or the reload task does next
    mode,       \* who runs the refresh: a cold start, a warm one, the task
    base,       \* current_build: compared with the manifest, fallback of a start
    target,     \* the build being installed
    todo,       \* zip entries of target still to be extracted
    prunable,   \* build directories still to be visited by the prune
    loaded,     \* the RawSdeData in memory, not yet published
    served,     \* the build of AppState.graph
    stamped     \* last_reload_at: the build whose swap set it

diskVars  == <<present, pointer>>
refresh   == <<mode, base, target, todo, prunable, loaded>>
stateVars == <<served, stamped>>
vars == <<manifest, deployment, diskVars, pc, refresh, stateVars>>

Steps == {"down", "exited", "manifest", "download", "extract", "promote",
          "prune", "load", "loadCached", "build", "stamp", "idle"}

Complete(b) == present[b] = Files
Loadable(b) == Complete(b) /\ b \notin Broken

\* metadata.json counts only when every file of its build exists.
CurrentMetadata ==
    IF pointer # NoBuild /\ Complete(pointer) THEN pointer ELSE NoBuild

----------------------------------------------------------------------------
Init ==
    /\ manifest \in Builds
    /\ deployment \in Deployments
    /\ present = [b \in Builds |-> {}]
    /\ pointer = NoBuild
    /\ pc = "down"
    /\ mode = "cold"
    /\ base = NoBuild
    /\ target = NoBuild
    /\ todo = {}
    /\ prunable = {}
    /\ loaded = NoBuild
    /\ served = NoBuild
    /\ stamped = NoBuild

(***************************************************************************)
(* The publisher announces another build, older ones included.             *)
(***************************************************************************)
Publish(b) ==
    /\ b # manifest
    /\ manifest' = b
    /\ UNCHANGED <<deployment, diskVars, pc, refresh, stateVars>>

(***************************************************************************)
(* Start of the process.                                                   *)
(***************************************************************************)
\* Entry of ensure_cache: a readable complete cache makes the start warm.
Boot ==
    /\ pc \in {"down", "exited"}
    /\ deployment # "sdeDir"
    /\ pc' = "manifest"
    /\ base' = CurrentMetadata
    /\ mode' = IF CurrentMetadata = NoBuild THEN "cold" ELSE "warm"
    /\ UNCHANGED <<manifest, deployment, diskVars, target, todo, prunable,
                   loaded, stateVars>>

\* The cache root cannot be created.
BootFails ==
    /\ pc \in {"down", "exited"}
    /\ deployment # "sdeDir"
    /\ pc' = "exited"
    /\ base' = NoBuild
    /\ mode' = "cold"
    /\ UNCHANGED <<manifest, deployment, diskVars, target, todo, prunable,
                   loaded, stateVars>>

\* PALU_SDE_DIR: the operator's directory, no cache and no manifest.
BootFromDir ==
    /\ pc \in {"down", "exited"}
    /\ deployment = "sdeDir"
    /\ \/ pc' = "build" /\ loaded' = DirBuild
       \/ pc' = "exited" /\ UNCHANGED loaded
    /\ UNCHANGED <<manifest, deployment, diskVars, mode, base, target, todo,
                   prunable, stateVars>>

\* Faulty AfterError: a warm start does not fall back.
AfterErrorNoFallback ==
    CASE mode \in {"cold", "warm"} -> "exited"
      [] mode = "reload" -> "idle"

\* Where an error of check_and_refresh or fetch_and_install leads: a cold
\* start is over, a warm one falls back to the cached build, the task waits.
AfterError ==
    CASE mode = "cold"   -> "exited"
      [] mode = "warm"   -> "loadCached"
      [] mode = "reload" -> "idle"

Fail ==
    /\ pc' = AfterError
    /\ UNCHANGED <<manifest, deployment, diskVars, refresh, stateVars>>

(***************************************************************************)
(* fetch_latest_build and the comparison of check_and_refresh.             *)
(***************************************************************************)
ManifestFails == pc = "manifest" /\ Fail

\* A cold start has no build to compare with.
UpToDate ==
    /\ pc = "manifest"
    /\ mode # "cold"
    /\ manifest = base
    /\ pc' = IF mode = "warm" THEN "loadCached" ELSE "idle"
    /\ UNCHANGED <<manifest, deployment, diskVars, refresh, stateVars>>

\* Faulty NeedsInstall: only a greater build number counts.
NeedsInstallIfNewer ==
    /\ pc = "manifest"
    /\ mode # "cold" => manifest > base
    /\ pc' = "download"
    /\ target' = manifest
    /\ UNCHANGED <<manifest, deployment, diskVars, mode, base, todo, prunable,
                   loaded, stateVars>>

NeedsInstall ==
    /\ pc = "manifest"
    /\ mode = "cold" \/ manifest # base
    /\ pc' = "download"
    /\ target' = manifest
    /\ UNCHANGED <<manifest, deployment, diskVars, mode, base, todo, prunable,
                   loaded, stateVars>>

(***************************************************************************)
(* fetch_and_install.                                                      *)
(***************************************************************************)
Download ==
    /\ pc = "download"
    /\ pc' = "extract"
    /\ todo' = Shipped[target]
    /\ UNCHANGED <<manifest, deployment, diskVars, mode, base, target, prunable,
                   loaded, stateVars>>

DownloadFails == pc = "download" /\ Fail

\* One zip entry is copied to its temporary file and renamed.
ExtractFile(f) ==
    /\ pc = "extract"
    /\ f \in todo
    /\ todo' = todo \ {f}
    /\ present' = [present EXCEPT ![target] = @ \cup {f}]
    /\ UNCHANGED <<manifest, deployment, pointer, pc, mode, base, target,
                   prunable, loaded, stateVars>>

\* A bad archive or a failed write, after any number of entries.
ExtractFails == pc = "extract" /\ Fail

\* Faulty ExtractEnds: no test for files the zip lacks.
ExtractEndsUnchecked ==
    /\ pc = "extract"
    /\ todo = {}
    /\ pc' = "promote"
    /\ UNCHANGED <<manifest, deployment, diskVars, refresh, stateVars>>

\* All entries are read: a needed file that was not among them is an error.
ExtractEnds ==
    /\ pc = "extract"
    /\ todo = {}
    /\ pc' = IF Shipped[target] = Files THEN "promote" ELSE AfterError
    /\ UNCHANGED <<manifest, deployment, diskVars, refresh, stateVars>>

\* write_metadata by rename, then the directory listing of the prune.
WriteMetadata ==
    /\ pc = "promote"
    /\ pc' = "prune"
    /\ pointer' = target
    /\ prunable' = {b \in Builds \ {target} : present[b] # {}}
    /\ UNCHANGED <<manifest, deployment, present, mode, base, target, todo,
                   loaded, stateVars>>

\* Faulty WriteMetadataFails: the error is ignored.
WriteMetadataFailsSilently ==
    /\ pc = "promote"
    /\ pc' = "load"
    /\ UNCHANGED <<manifest, deployment, diskVars, refresh, stateVars>>

WriteMetadataFails == pc = "promote" /\ Fail

\* remove_dir_all of one old build; when it fails some files stay.
PruneBuild(b, left) ==
    /\ pc = "prune"
    /\ b \in prunable
    /\ left \subseteq present[b]
    /\ present' = [present EXCEPT ![b] = left]
    /\ prunable' = prunable \ {b}
    /\ UNCHANGED <<manifest, deployment, pointer, pc, mode, base, target, todo,
                   loaded, stateVars>>

\* Faulty PruneEnds: what cannot be pruned is an error.
PruneEndsStrict ==
    /\ pc = "prune"
    /\ prunable = {}
    /\ pc' = IF \E b \in Builds \ {target} : present[b] # {} THEN AfterError ELSE "load"
    /\ UNCHANGED <<manifest, deployment, diskVars, refresh, stateVars>>

PruneEnds ==
    /\ pc = "prune"
    /\ prunable = {}
    /\ pc' = "load"
    /\ UNCHANGED <<manifest, deployment, diskVars, refresh, stateVars>>

(***************************************************************************)
(* load_build, of the installed build or of the cached one.                *)
(***************************************************************************)
LoadInstalled ==
    /\ pc = "load"
    /\ IF Loadable(target)
       THEN pc' = "build" /\ loaded' = target
       ELSE pc' = AfterError /\ UNCHANGED loaded
    /\ UNCHANGED <<manifest, deployment, diskVars, mode, base, target, todo,
                   prunable, stateVars>>

\* Faulty LoadCached: missing files are not noticed.
LoadCachedUnchecked ==
    /\ pc = "loadCached"
    /\ pc' = "build"
    /\ loaded' = base
    /\ UNCHANGED <<manifest, deployment, diskVars, mode, base, target, todo,
                   prunable, stateVars>>

LoadCached ==
    /\ pc = "loadCached"
    /\ IF Loadable(base)
       THEN pc' = "build" /\ loaded' = base
       ELSE pc' = "exited" /\ UNCHANGED loaded
    /\ UNCHANGED <<manifest, deployment, diskVars, mode, base, target, todo,
                   prunable, stateVars>>

\* Faulty StoreGraph: a start sets the reload time as well.
StoreGraphAlwaysStamps ==
    /\ pc = "build"
    /\ served' = loaded
    /\ pc' = "stamp"
    /\ UNCHANGED <<manifest, deployment, diskVars, refresh, stamped>>

\* Faulty StoreGraph: only the first swap sets the time.
StoreGraphStampsOnce ==
    /\ pc = "build"
    /\ served' = loaded
    /\ pc' = IF mode = "reload" /\ stamped = NoBuild THEN "stamp" ELSE "idle"
    /\ UNCHANGED <<manifest, deployment, diskVars, refresh, stamped>>

(***************************************************************************)
(* build_graph_data, then AppState::new at a start, and for the task       *)
(* graph.store followed by last_reload_at.store.                           *)
(***************************************************************************)
StoreGraph ==
    /\ pc = "build"
    /\ served' = loaded
    /\ pc' = IF mode = "reload" THEN "stamp" ELSE "idle"
    /\ UNCHANGED <<manifest, deployment, diskVars, refresh, stamped>>

StoreReloadTime ==
    /\ pc = "stamp"
    /\ stamped' = served
    /\ pc' = "idle"
    /\ UNCHANGED <<manifest, deployment, diskVars, refresh, served>>

\* The ticker of the reload task; its first tick is skipped.
Tick ==
    /\ pc = "idle"
    /\ deployment = "reload"
    /\ pc' = "manifest"
    /\ mode' = "reload"
    /\ base' = served
    /\ UNCHANGED <<manifest, deployment, diskVars, target, todo, prunable,
                   loaded, stateVars>>

(***************************************************************************)
(* The process is killed or stopped: only the cache directory is left.     *)
(***************************************************************************)
Crash ==
    /\ pc \notin {"down", "exited"}
    /\ pc' = "down"
    /\ mode' = "cold"
    /\ base' = NoBuild
    /\ target' = NoBuild
    /\ todo' = {}
    /\ prunable' = {}
    /\ loaded' = NoBuild
    /\ served' = NoBuild
    /\ stamped' = NoBuild
    /\ UNCHANGED <<manifest, deployment, diskVars>>

Fault ==
    \/ BootFails \/ ManifestFails \/ DownloadFails \/ ExtractFails
    \/ WriteMetadataFails \/ Crash

Refresh ==
    \/ UpToDate \/ NeedsInstall \/ Download
    \/ \E f \in Files : ExtractFile(f)
    \/ ExtractEnds \/ WriteMetadata
    \/ \E b \in Builds : \E left \in SUBSET Files : PruneBuild(b, left)
    \/ PruneEnds \/ LoadInstalled \/ LoadCached
    \/ StoreGraph \/ StoreReloadTime \/ Tick

Next ==
    \/ \E b \in Builds : Publish(b)
    \/ Boot \/ BootFromDir
    \/ Refresh
    \/ Fault

Spec == Init /\ [][Next]_vars

(***************************************************************************)
(* The process is restarted by its supervisor, its own steps are taken,    *)
(* and a request is answered some day: the client sets no timeout, so the  *)
(* last part is an assumption about the network.  Nothing makes a fault    *)
(* or a Publish happen.                                                    *)
(***************************************************************************)
FairSpec == Spec /\ WF_vars(Boot) /\ WF_vars(Refresh)

----------------------------------------------------------------------------
TypeOK ==
    /\ manifest \in Builds
    /\ deployment \in Deployments
    /\ present \in [Builds -> SUBSET Files]
    /\ pointer \in Builds \cup {NoBuild}
    /\ pc \in Steps
    /\ mode \in {"cold", "warm", "reload"}
    /\ base \in Builds \cup {NoBuild, DirBuild}
    /\ target \in Builds \cup {NoBuild}
    /\ todo \in SUBSET Files
    /\ prunable \in SUBSET Builds
    /\ loaded \in Builds \cup {NoBuild, DirBuild}
    /\ served \in Builds \cup {NoBuild, DirBuild}
    /\ stamped \in Builds \cup {NoBuild}

(***************************************************************************)
(* A restart at any moment finds a complete build: whatever was killed,    *)
(* failed or half pruned, metadata.json names a build with all its files   *)
(* (fetch_and_install extracts, then promotes, then prunes the others).    *)
(***************************************************************************)
PointerNamesCompleteBuild == pointer # NoBuild => Complete(pointer)

(***************************************************************************)
(* A start from a good cache ends in an error only after it moved the      *)
(* pointer off that cache: a failed manifest check, download, extraction   *)
(* or metadata write never prevents it (the Err arm of ensure_cache).      *)
(***************************************************************************)
WarmStartFatalOnlyAfterPromotion ==
    pc = "exited" /\ mode = "warm" =>
        base \in Broken \/ pointer \notin {base, NoBuild}

(***************************************************************************)
(* Between refreshes a running managed service and its disk disagree only  *)
(* while the build on disk is one that does not parse; otherwise a restart *)
(* without network serves what was served before (order of                 *)
(* fetch_and_install, load_build and graph.store).                         *)
(***************************************************************************)
DiskAgreesUnlessBroken ==
    pc = "idle" /\ deployment # "sdeDir" =>
        served = pointer \/ pointer \in Broken

(***************************************************************************)
(* last_reload_at is about the graph that is served: between refreshes it  *)
(* is unset or belongs to the last swap, and it is never set for a graph   *)
(* that a start loaded.                                                    *)
(***************************************************************************)
ReloadTimeMatchesGraph ==
    pc \notin {"stamp"} /\ stamped # NoBuild => stamped = served

(***************************************************************************)
(* A hot swap publishes a build that parses, that metadata.json names at   *)
(* that moment and that is stored completely: no request ever sees a graph *)
(* the next start could not load, nor the service without a graph.         *)
(***************************************************************************)
SwapsAreDurable ==
    [][served # NoBuild /\ served' # served /\ ~Crash =>
          served' = pointer /\ Loadable(served')]_vars

\* The detailed machine implements the abstract store.
Store == INSTANCE SdeStore WITH
    Usable   <- Builds \ Broken,
    Local    <- DirBuild,
    complete <- {b \in Builds : Complete(b)},
    current  <- pointer,
    serving  <- served

(***************************************************************************)
(* Refinement: the pointer moves only to complete builds, no complete      *)
(* current build is ever removed, and the served dataset is replaced only  *)
(* as a whole by a stored usable build.                                    *)
(***************************************************************************)
ImplementsStore == Store!StoreSpec

(***************************************************************************)
(* When faults stop and the publisher settles on a build whose zip is      *)
(* whole and parses, a service with hot reload comes to serve that build   *)
(* and stays with it, from any state of the cache directory.               *)
(***************************************************************************)
Good(b) == Shipped[b] = Files /\ b \notin Broken

EventuallyServesLatest ==
    \A b \in Builds :
        (/\ Good(b)
         /\ deployment = "reload"
         /\ <>[](manifest = b)
         /\ <>[][~Fault]_vars) => <>[](served = b)

----------------------------------------------------------------------------
(* What the documentation says and the code does not do.                   *)

(***************************************************************************)
(* cache.rs:290-292 and :352-353: when a start cannot bring a valid cache  *)
(* up to date it serves the cached build, so that this does not prevent    *)
(* startup.                                                                *)
(***************************************************************************)
GoodCacheAlwaysStarts == pc = "exited" /\ mode = "warm" => base \in Broken

(***************************************************************************)
(* tasks.rs:18-19: the served graph is swapped when a newer build appears. *)
(***************************************************************************)
SwapsOnlyToNewer ==
    [][(served \in Builds /\ served' \in Builds) => (served' >= served)]_vars

(***************************************************************************)
(* cache.rs:400: UpToDate means that the cache was already current.        *)
(***************************************************************************)
UpToDateCacheIsCurrent == [][UpToDate => pointer = manifest]_vars
=============================================================================
