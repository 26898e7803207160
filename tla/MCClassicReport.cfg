SPECIFICATION ClassicSpec
CONSTANTS
    a = a
    b = b
    c = c
    File = {a, c}
    Large = {}
    Lockable = {}
    Unreadable = {}
    BundleCap = 2
    Configs <- PlainOnce
    FirstSource <- Present
    FirstCopies <- Copies
    MaxChanges = 0
    MaxDrops = 1
    MaxRuns = 1
INVARIANT
    IncompleteDeletedNothing
CHECK_DEADLOCK FALSE
