SPECIFICATION SyncFairSpec
CONSTANTS
    s1 = s1
    s2 = s2
    f1 = f1
    f2 = f2
    x = x
    NUnits = 2
    QueueCap = 1
    GraceTicks = 1
    IdleTicks = 1
    Streams <- TwoStreams
    Probe = s1
    Handler <- OneRun
    Deaf = {}
    MaxRuns = 1
    MaxDrops = 1
    FilesOf <- BundleAndDir
    Extra = {x}
    Lockable = {}
    InitialCopy <- EmptyOrOld
CHECK_DEADLOCK FALSE
PROPERTY
    RunEnds
