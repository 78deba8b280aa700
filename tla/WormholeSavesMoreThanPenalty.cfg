SPECIFICATION Spec
CHECK_DEADLOCK FALSE
CONSTANTS
    Nodes <- MCNodes
    Requests <- SomeRequests
    MaxSearches = 1
INVARIANTS
    WormholeSavesMoreThanPenalty
