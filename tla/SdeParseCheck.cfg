SPECIFICATION Spec
CHECK_DEADLOCK FALSE
CONSTANTS
    Lower <- MCLower
    SystemRows <- MCSystemRows
    GateRows <- MCGateRows
    TypeRows <- MCTypeRows
    DogmaRows <- MCDogmaRows
    MaxLines = 3
    MaxRows = 6
INVARIANTS
    TypeOK
    PairsAreDistinct
    LookupsFindTheSystem
    EdgesAreTheLinks
    ClassesAreAsDisplayed
    HullsAreJumpCapable
