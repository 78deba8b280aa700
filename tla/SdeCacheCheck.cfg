SPECIFICATION FairSpec
CONSTANTS
    f1 = f1
    f2 = f2
    NoBuild = NoBuild
    Builds <- FourBuilds
    Files <- MCFiles
    Shipped <- FourShipped
    Broken <- MCBroken
INVARIANTS
    TypeOK
    PointerNamesCompleteBuild
    WarmStartFatalOnlyAfterPromotion
    DiskAgreesUnlessBroken
    ReloadTimeMatchesGraph
PROPERTIES
    SwapsAreDurable
    ImplementsStore
    EventuallyServesLatest
