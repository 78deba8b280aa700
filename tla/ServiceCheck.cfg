SPECIFICATION FairService
CHECK_DEADLOCK FALSE
CONSTANTS
    Thera = 5
    Turnur = 6
    Builds = {0, 1, 2}
    Feeds <- MCFeeds
    MaxClock = 1
    MaxSwaps = 3
    Connections = {c1}
    Envs <- MCEnvs
INVARIANTS
    ServiceTypeOK
    ReloadTimeLagsOneSwap
    OnlyConfiguredTasksRun
PROPERTIES
    AnswersNeverGoBack
    AcceptedAreAnswered
    SignalsEndTheService
    ImplementsHealth
