--------------------------- MODULE SdeCacheProofs ---------------------------
(***************************************************************************)
(* Proofs about SdeCache for any set of builds, any zip contents and any   *)
(* set of builds that do not parse.                                        *)
(***************************************************************************)
EXTENDS SdeCache, TLAPS

Installing == {"download", "extract", "promote", "prune", "load"}
BeforePromotion == {"manifest", "download", "extract", "promote"}

\* The dataset in hand is the durable one, unless that one does not parse.
Agrees(b) == b = pointer \/ pointer \in Broken

(***************************************************************************)
(* The inductive invariant: what each step of a refresh has established.   *)
(***************************************************************************)
\* The files of the build being installed.
InstallInv ==
    /\ pc \in Installing => target \in Builds
    /\ pc = "extract" => Shipped[target] \ todo \subseteq present[target]
    /\ pc \in {"promote", "prune", "load"} => Complete(target)
    /\ pc \in {"prune", "load"} => pointer = target
    /\ pc = "prune" => target \notin prunable

\* Who runs the refresh, from which build.
ModeInv ==
    /\ mode = "warm" => base \in Builds /\ pointer \in Builds
    /\ mode = "warm" /\ pc \in BeforePromotion => pointer = base
    /\ pc = "loadCached" => mode = "warm"
    /\ pc = "stamp" => mode = "reload"
    /\ pc \in {"down", "exited"} => mode # "reload"
    /\ mode = "reload" => deployment = "reload" /\ served \in Builds
    /\ pc = "idle" /\ deployment # "sdeDir" => served \in Builds
    /\ deployment = "sdeDir" =>
           mode = "cold" /\ pc \in {"down", "exited", "build", "idle"}

\* The dataset that is about to be served.
DataInv ==
    /\ pc = "loadCached" => Agrees(base)
    /\ pc = "build" /\ deployment # "sdeDir" =>
           loaded \in Builds /\ Loadable(loaded) /\ Agrees(loaded)
    /\ pc = "build" /\ deployment = "sdeDir" => loaded = DirBuild
    /\ pc = "build" /\ mode = "reload" => loaded = pointer

\* The dataset that is served.
ServedInv ==
    /\ mode # "reload" /\ pc # "idle" => served = NoBuild
    /\ mode = "reload" /\ pc \in BeforePromotion => Agrees(served)
    /\ pc = "stamp" => served = pointer
    /\ mode # "reload" => stamped = NoBuild

IInv ==
    /\ TypeOK
    /\ PointerNamesCompleteBuild
    /\ InstallInv
    /\ ModeInv
    /\ DataInv
    /\ ServedInv
    /\ DiskAgreesUnlessBroken
    /\ WarmStartFatalOnlyAfterPromotion
    /\ ReloadTimeMatchesGraph
----------------------------------------------------------------------------
(***************************************************************************)
(* An error ends a cold start, sends a warm one to the cached build and    *)
(* leaves the task idle (AfterError spelt out, mode by mode).              *)
(***************************************************************************)
LEMMA AfterErrorByMode ==
    ASSUME TypeOK
    PROVE  /\ mode = "cold" => AfterError = "exited"
           /\ mode = "warm" => AfterError = "loadCached"
           /\ mode = "reload" => AfterError = "idle"
           /\ AfterError \in Steps
BY DEF TypeOK, AfterError, Steps

(***************************************************************************)
(* The initial states, a process that is down over an empty cache          *)
(* directory, satisfy the invariant.                                       *)
(***************************************************************************)
LEMMA InitEstablishesIInv == Init => IInv
BY NoBuildAssumption, BuildsAssumption
DEF Init, IInv, TypeOK, PointerNamesCompleteBuild, InstallInv, ModeInv,
    DataInv, ServedInv, DiskAgreesUnlessBroken,
    WarmStartFatalOnlyAfterPromotion, ReloadTimeMatchesGraph, Steps,
    Deployments, Installing, BeforePromotion

(***************************************************************************)
(* Every step preserves the invariant.  The steps that write the disk or   *)
(* move a dataset are proved conjunct by conjunct.                         *)
(***************************************************************************)
LEMMA NextPreservesIInv == IInv /\ [Next]_vars => IInv'
<1> SUFFICES ASSUME IInv, [Next]_vars PROVE IInv'
    OBVIOUS
<1> USE BuildsAssumption, NoBuildAssumption, AfterErrorByMode
    DEF IInv, TypeOK, PointerNamesCompleteBuild, InstallInv, ModeInv, DataInv,
        ServedInv, DiskAgreesUnlessBroken, WarmStartFatalOnlyAfterPromotion,
        ReloadTimeMatchesGraph, Agrees, Complete, Loadable, Installing,
        BeforePromotion, Steps, DirBuild, diskVars, refresh, stateVars
<1>1. CASE \E b \in Builds : Publish(b)
    BY <1>1 DEF Publish
<1>2. CASE Boot
    <2>1. CASE CurrentMetadata = NoBuild
        <3>1. base' = NoBuild /\ mode' = "cold"
            BY <1>2, <2>1 DEF Boot
        <3> QED BY <1>2, <3>1 DEF Boot
    <2>2. CASE CurrentMetadata # NoBuild
        <3>1. base' = pointer /\ mode' = "warm" /\ pointer \in Builds
            BY <1>2, <2>2 DEF Boot, CurrentMetadata
        <3> QED BY <1>2, <3>1 DEF Boot
    <2> QED BY <2>1, <2>2
<1>3. CASE \E f \in Files : ExtractFile(f)
    <2>1. PICK f \in Files : ExtractFile(f)
        BY <1>3
    <2>2. /\ present' \in [Builds -> SUBSET Files]
          /\ present'[target] = present[target] \cup {f}
          /\ \A b \in Builds \ {target} : present'[b] = present[b]
          /\ \A b \in Builds : present[b] \subseteq present'[b]
        BY <2>1 DEF ExtractFile
    <2>3. TypeOK' /\ PointerNamesCompleteBuild' /\ InstallInv'
        BY <2>1, <2>2 DEF ExtractFile
    <2>4. ModeInv' /\ DataInv' /\ ServedInv' /\ DiskAgreesUnlessBroken'
        BY <2>1 DEF ExtractFile
    <2>5. WarmStartFatalOnlyAfterPromotion' /\ ReloadTimeMatchesGraph'
        BY <2>1 DEF ExtractFile
    <2> QED BY <2>3, <2>4, <2>5
<1>4. CASE WriteMetadata
    <2>1. TypeOK' /\ PointerNamesCompleteBuild' /\ InstallInv'
        BY <1>4 DEF WriteMetadata
    <2>2. ModeInv' /\ DataInv' /\ ServedInv' /\ DiskAgreesUnlessBroken'
        BY <1>4 DEF WriteMetadata
    <2>3. WarmStartFatalOnlyAfterPromotion' /\ ReloadTimeMatchesGraph'
        BY <1>4 DEF WriteMetadata
    <2> QED BY <2>1, <2>2, <2>3
<1>5. CASE \E b \in Builds : \E left \in SUBSET Files : PruneBuild(b, left)
    <2>1. PICK b \in Builds : \E left \in SUBSET Files : PruneBuild(b, left)
        BY <1>5
    <2>2. b # target /\ present'[target] = present[target] /\ pointer = target
        BY <2>1 DEF PruneBuild
    <2>3. TypeOK' /\ PointerNamesCompleteBuild' /\ InstallInv'
        BY <2>1, <2>2 DEF PruneBuild
    <2>4. ModeInv' /\ DataInv' /\ ServedInv' /\ DiskAgreesUnlessBroken'
        BY <2>1 DEF PruneBuild
    <2>5. WarmStartFatalOnlyAfterPromotion' /\ ReloadTimeMatchesGraph'
        BY <2>1 DEF PruneBuild
    <2> QED BY <2>3, <2>4, <2>5
<1>6. CASE LoadInstalled
    <2>1. pointer = target /\ Complete(target)
        BY <1>6 DEF LoadInstalled
    <2>2. CASE Loadable(target)
        BY <1>6, <2>1, <2>2 DEF LoadInstalled
    <2>3. CASE ~Loadable(target)
        <3>1. pointer \in Broken
            BY <2>1, <2>3
        <3> QED BY <1>6, <2>3, <3>1 DEF LoadInstalled
    <2> QED BY <2>2, <2>3
<1>7. CASE LoadCached
    <2>1. mode = "warm" /\ base \in Builds /\ Agrees(base)
        BY <1>7 DEF LoadCached
    <2>2. CASE Loadable(base)
        BY <1>7, <2>1, <2>2 DEF LoadCached
    <2>3. CASE ~Loadable(base)
        <3>1. base \in Broken \/ pointer # base
            BY <2>1, <2>3
        <3> QED BY <1>7, <2>1, <2>3, <3>1 DEF LoadCached
    <2> QED BY <2>2, <2>3
<1>8. CASE StoreGraph
    BY <1>8 DEF StoreGraph
<1>9. CASE ManifestFails
    BY <1>9 DEF ManifestFails, Fail
<1>10. CASE UpToDate
    BY <1>10 DEF UpToDate
<1>11. CASE NeedsInstall
    BY <1>11 DEF NeedsInstall
<1>12. CASE Download
    BY <1>12, ShippedAssumption DEF Download
<1>13. CASE DownloadFails
    BY <1>13 DEF DownloadFails, Fail
<1>14. CASE ExtractFails
    BY <1>14 DEF ExtractFails, Fail
<1>15. CASE ExtractEnds
    BY <1>15, ShippedAssumption DEF ExtractEnds
<1>16. CASE WriteMetadataFails
    BY <1>16 DEF WriteMetadataFails, Fail
<1>17. CASE PruneEnds
    BY <1>17 DEF PruneEnds
<1>18. CASE StoreReloadTime
    BY <1>18 DEF StoreReloadTime
<1>19. CASE Tick
    BY <1>19 DEF Tick
<1>20. CASE Crash
    BY <1>20 DEF Crash
<1>21. CASE BootFromDir
    BY <1>21 DEF BootFromDir
<1>22. CASE UNCHANGED vars
    BY <1>22 DEF vars
<1>23. CASE BootFails
    BY <1>23 DEF BootFails
<1> QED
    BY <1>1, <1>2, <1>3, <1>4, <1>5, <1>6, <1>7, <1>8, <1>9, <1>10, <1>11,
       <1>12, <1>13, <1>14, <1>15, <1>16, <1>17, <1>18, <1>19,
       <1>20, <1>21, <1>22, <1>23
    DEF Next, Refresh, Fault

(***************************************************************************)
(* The inductive invariant holds in every reachable state.                 *)
(***************************************************************************)
THEOREM Invariance == Spec => []IInv
<1>1. Init => IInv
    BY InitEstablishesIInv
<1>2. IInv /\ [Next]_vars => IInv'
    BY NextPreservesIInv
<1> QED BY <1>1, <1>2, PTL DEF Spec

(***************************************************************************)
(* Every variable keeps its type.                                          *)
(***************************************************************************)
THEOREM TypeCorrect == Spec => []TypeOK
<1>1. IInv => TypeOK
    BY DEF IInv
<1> QED BY <1>1, Invariance, PTL

(***************************************************************************)
(* Crash safety of the cache directory: at every moment metadata.json, if  *)
(* it exists, names a build with all its files.                            *)
(***************************************************************************)
THEOREM PointerIsCrashSafe == Spec => []PointerNamesCompleteBuild
<1>1. IInv => PointerNamesCompleteBuild
    BY DEF IInv
<1> QED BY <1>1, Invariance, PTL

(***************************************************************************)
(* A start over a cached build that parses ends in an error only when it   *)
(* has itself moved the pointer to another build.                          *)
(***************************************************************************)
THEOREM WarmStartFallsBack == Spec => []WarmStartFatalOnlyAfterPromotion
<1>1. IInv => WarmStartFatalOnlyAfterPromotion
    BY DEF IInv
<1> QED BY <1>1, Invariance, PTL

(***************************************************************************)
(* Between refreshes disk and memory agree unless the build on disk does   *)
(* not parse.                                                              *)
(***************************************************************************)
THEOREM DiskAndMemoryAgree == Spec => []DiskAgreesUnlessBroken
<1>1. IInv => DiskAgreesUnlessBroken
    BY DEF IInv
<1> QED BY <1>1, Invariance, PTL

(***************************************************************************)
(* The reload time is never that of another graph than the served one.     *)
(***************************************************************************)
THEOREM ReloadTimeIsOfServedGraph == Spec => []ReloadTimeMatchesGraph
<1>1. IInv => ReloadTimeMatchesGraph
    BY DEF IInv
<1> QED BY <1>1, Invariance, PTL
----------------------------------------------------------------------------
(***************************************************************************)
(* The only steps that touch the served dataset are the store of the graph *)
(* and the end of the process.                                             *)
(***************************************************************************)
LEMMA OnlyStoreServes ==
    ASSUME [Next]_vars
    PROVE  served' = served \/ StoreGraph \/ Crash
BY DEF Next, Refresh, Fault, Publish, Boot, BootFails, BootFromDir,
       ManifestFails, UpToDate, NeedsInstall, Download, DownloadFails, ExtractFile,
       ExtractFails, ExtractEnds, WriteMetadata, WriteMetadataFails,
       PruneBuild, PruneEnds, LoadInstalled, LoadCached, StoreReloadTime,
       Tick, Fail, vars, stateVars

(***************************************************************************)
(* The only steps that touch the files are extraction and prune, and the   *)
(* only one that touches the pointer is the metadata write.                *)
(***************************************************************************)
LEMMA OnlyInstallWrites ==
    ASSUME [Next]_vars
    PROVE  /\ \/ present' = present
              \/ \E f \in Files : ExtractFile(f)
              \/ \E b \in Builds : \E left \in SUBSET Files : PruneBuild(b, left)
           /\ pointer' = pointer \/ WriteMetadata
BY DEF Next, Refresh, Fault, Publish, Boot, BootFails, BootFromDir,
       ManifestFails, UpToDate, NeedsInstall, Download, DownloadFails, ExtractFile,
       ExtractFails, ExtractEnds, WriteMetadata, WriteMetadataFails,
       PruneBuild, PruneEnds, LoadInstalled, LoadCached, StoreGraph,
       StoreReloadTime, Tick, Crash, Fail, vars, diskVars

(***************************************************************************)
(* A hot swap publishes what metadata.json names, stored completely and    *)
(* parsed: a swap happens only in reload mode, where the build in hand is  *)
(* the one just promoted.                                                  *)
(***************************************************************************)
THEOREM HotSwapIsDurable == Spec => SwapsAreDurable
<1>1. ASSUME IInv, [Next]_vars, served # NoBuild, served' # served, ~Crash
      PROVE  served' = pointer /\ Loadable(served')
    <2>1. StoreGraph
        BY <1>1, OnlyStoreServes
    <2>2. mode = "reload" /\ pc = "build"
        BY <1>1, <2>1 DEF IInv, ServedInv, StoreGraph
    <2>3. loaded = pointer /\ Loadable(loaded)
        BY <1>1, <2>2 DEF IInv, DataInv, ModeInv
    <2> QED BY <2>1, <2>3 DEF StoreGraph
<1>2. IInv /\ [Next]_vars =>
          [served # NoBuild /\ served' # served /\ ~Crash =>
              served' = pointer /\ Loadable(served')]_vars
    BY <1>1
<1> QED BY <1>2, Invariance, PTL DEF Spec, SwapsAreDurable

(***************************************************************************)
(* Every step of the detailed machine is a step of the abstract store or   *)
(* leaves its three variables alone.                                       *)
(***************************************************************************)
LEMMA StepRefinesStore ==
    ASSUME IInv, [Next]_vars
    PROVE  [Store!StoreNext]_(Store!storeVars)
<1> DEFINE stored == {b \in Builds : Complete(b)}
<1>1. CASE \E f \in Files : ExtractFile(f)
    <2>1. PICK f \in Files : ExtractFile(f)
        BY <1>1
    <2>2. target \in Builds /\ present \in [Builds -> SUBSET Files]
        BY <2>1 DEF IInv, TypeOK, InstallInv, ExtractFile, Installing
    <2>3. /\ present'[target] = present[target] \cup {f}
          /\ \A b \in Builds \ {target} : present'[b] = present[b]
        BY <2>1, <2>2 DEF ExtractFile
    <2>4. stored' = stored \/ stored' = stored \cup {target}
        <3>1. CASE present'[target] = Files
            BY <2>2, <2>3, <3>1 DEF Complete
        <3>2. CASE present'[target] # Files
            BY <2>2, <2>3, <3>2 DEF Complete
        <3> QED BY <3>1, <3>2
    <2>5. pointer' = pointer /\ served' = served
        BY <2>1 DEF ExtractFile, stateVars
    <2> QED BY <2>2, <2>4, <2>5
            DEF Store!StoreNext, Store!Acquire, Store!storeVars
<1>2. CASE \E b \in Builds : \E left \in SUBSET Files : PruneBuild(b, left)
    <2>1. PICK b \in Builds, left \in SUBSET Files : PruneBuild(b, left)
        BY <1>2
    <2>2. b # pointer /\ present \in [Builds -> SUBSET Files]
        BY <2>1 DEF IInv, TypeOK, InstallInv, PruneBuild
    <2>3. /\ present'[b] = left /\ left \subseteq present[b]
          /\ \A c \in Builds \ {b} : present'[c] = present[c]
        BY <2>1, <2>2 DEF PruneBuild
    <2>4. stored' = stored \/ stored' = stored \ {b}
        <3>1. CASE left = Files
            BY <2>2, <2>3, <3>1, ZenonT(40) DEF Complete
        <3>2. CASE left # Files
            BY <2>2, <2>3, <3>2 DEF Complete
        <3> QED BY <3>1, <3>2
    <2>5. pointer' = pointer /\ served' = served
        BY <2>1 DEF PruneBuild, stateVars
    <2> QED BY <2>2, <2>4, <2>5
            DEF Store!StoreNext, Store!Discard, Store!storeVars
<1>3. CASE WriteMetadata
    <2>1. target \in stored
        BY <1>3 DEF IInv, InstallInv, WriteMetadata, Installing
    <2>2. pointer' = target /\ stored' = stored /\ served' = served
        BY <1>3 DEF WriteMetadata, stateVars, Complete
    <2> QED BY <2>1, <2>2 DEF Store!StoreNext, Store!Promote
<1>4. CASE StoreGraph
    <2>1. served' = loaded /\ pointer' = pointer /\ stored' = stored
        BY <1>4 DEF StoreGraph, diskVars, Complete
    <2>2. CASE deployment = "sdeDir"
        <3>1. loaded = DirBuild /\ served = NoBuild
            BY <1>4, <2>2 DEF IInv, ModeInv, DataInv, ServedInv, StoreGraph
        <3> QED BY <2>1, <3>1 DEF Store!StoreNext, Store!ServeLocal
    <2>3. CASE deployment # "sdeDir"
        <3>1. loaded \in stored \cap (Builds \ Broken)
            BY <1>4, <2>3 DEF IInv, DataInv, StoreGraph, Loadable
        <3> QED BY <2>1, <3>1 DEF Store!StoreNext, Store!Serve
    <2> QED BY <2>2, <2>3
<1>5. CASE Crash
    <2>1. served' = NoBuild /\ pointer' = pointer /\ stored' = stored
        BY <1>5 DEF Crash, diskVars, Complete
    <2> QED BY <2>1 DEF Store!StoreNext, Store!Stop
<1>6. CASE present' = present /\ pointer' = pointer /\ served' = served
    BY <1>6 DEF Store!storeVars, Complete
<1>7. WriteMetadata => present' = present
    BY DEF WriteMetadata
<1>8. StoreGraph \/ Crash => present' = present /\ pointer' = pointer
    BY DEF StoreGraph, Crash, diskVars
<1> QED BY <1>1, <1>2, <1>3, <1>4, <1>5, <1>6, OnlyStoreServes,
           OnlyInstallWrites

(***************************************************************************)
(* SdeCache implements SdeStore.                                           *)
(***************************************************************************)
THEOREM CacheImplementsStore == Spec => ImplementsStore
<1>1. Init => Store!StoreInit
    BY DEF Init, Store!StoreInit
<1>2. IInv /\ [Next]_vars => [Store!StoreNext]_(Store!storeVars)
    BY StepRefinesStore
<1> QED BY <1>1, <1>2, Invariance, PTL
        DEF Spec, ImplementsStore, Store!StoreSpec
=============================================================================
