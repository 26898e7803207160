SPECIFICATION ClassicFairSpec
CONSTANTS
    a = a
    b = b
    c = c
    File = {a, b, c}
    Large = {b}
    Lockable = {a}
    Unreadable = {b}
    BundleCap = 2
    Configs <- AllConfigs
    FirstSource <- Present
    FirstCopies <- Copies
    MaxChanges = 1
    MaxDrops = 1
    MaxRuns = 2
INVARIANTS
    ClassicTypeOK
    StampNeverHides
    UnchangedFilesMirrored
    PrunedWasGone
    OnceServerDelivered
PROPERTY
    SessionEnds
    ImplementsMirror
CHECK_DEADLOCK FALSE
