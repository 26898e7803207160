SPECIFICATION SyncSpec
CONSTANTS
    s1 = s1
    s2 = s2
    f1 = f1
    f2 = f2
    x = x
    NUnits = 2
    QueueCap = 2
    GraceTicks = 1
    IdleTicks = 2
    Streams <- TwoStreams
    Probe = s1
    Handler <- TwoRuns
    Deaf = {}
    MaxRuns = 2
    MaxDrops = 1
    FilesOf <- OneFileEach
    Extra = {x}
    Lockable = {}
    InitialCopy <- OldCopies
INVARIANT
    RerunKeepsFetched
CHECK_DEADLOCK FALSE
