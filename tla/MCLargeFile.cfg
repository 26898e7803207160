SPECIFICATION LargeSpec
CONSTANTS
    Stream = {s1, s2}
    MaxLength = 2
    LevelMin <- LowLevel
    LevelMax = 1
    LevelStart = 1
    RawReprobe = 2
    Streak = 2
    WindowBytes = 2
    Margin = 16
    Spares = {7, 14, 25}
    WireSizes = {1, 2}
INVARIANTS
    LargeTypeOK
    RawRowBounded
    BodiesStayFramed
CHECK_DEADLOCK FALSE
