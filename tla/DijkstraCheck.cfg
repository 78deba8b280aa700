SPECIFICATION MCSpec
CHECK_DEADLOCK FALSE
CONSTANTS
    Nodes <- MCNodes
    Requests <- AllRequests
    MaxSearches = 2
INVARIANTS
    TypeOK
    RoutesAreCheapest
    SafestIsSafest
    GatesArePreferred
    SettledAreRelaxed
    PredecessorChainIntact
    PoppedEntriesAreCurrent
    AnswersAreRepeatable
PROPERTIES
    SettledStaySettled
