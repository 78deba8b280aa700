SPECIFICATION ServiceSpec
CHECK_DEADLOCK FALSE
CONSTANTS
    Thera = 5
    Turnur = 6
    Builds = {0, 1, 2}
    Feeds <- MCFeeds
    MaxClock = 1
    MaxSwaps = 3
    Connections = {c1}
    Envs <- MCEnvs
INVARIANT
    ReloadTimeIsOfReportedBuild
