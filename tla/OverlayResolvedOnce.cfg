SPECIFICATION Spec
CHECK_DEADLOCK FALSE
CONSTANTS
    Nodes <- MCNodes
    Lower <- MCLower
    Thera = 5
    Turnur = 4
    Zarzakh = 6
    Builds = {1, 2}
    Sde <- MCSde
    Feeds <- MCFeeds
    MaxClock = 2
    MaxSwaps = 1
    MAX_ALTERNATES = 1
    FallsShort <- MCFallsShort
    Exceeds <- MCExceeds
    MAX_DESTINATIONS = 2
    Bodies <- TwiceBody
INVARIANTS
    OverlayResolvedOnce
