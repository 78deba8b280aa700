SPECIFICATION Spec
CONSTANTS
    f1 = f1
    f2 = f2
    NoBuild = NoBuild
    Builds <- ThreeBuilds
    Files <- MCFiles
    Shipped <- ThreeShipped
    Broken <- MCBroken
INVARIANTS
    GoodCacheAlwaysStarts
