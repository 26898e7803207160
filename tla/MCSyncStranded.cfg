SPECIFICATION SyncSpec
CONSTANTS
    s1 = s1
    s2 = s2
    f1 = f1
    f2 = f2
    x = x
    NUnits = 2
    QueueCap = 2
    GraceTicks = 1
    IdleTicks = 2
    Streams <- TwoStreams
    Probe = s1
    Handler <- OneRun
    Deaf = {}
    MaxRuns = 1
    MaxDrops = 0
    FilesOf <- OneFileEach
    Extra = {x}
    Lockable = {}
    InitialCopy <- OldCopies
INVARIANT
    PruneSparesSource
CHECK_DEADLOCK FALSE
