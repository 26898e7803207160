SPECIFICATION FairSpec
CONSTANTS
    NUnits = 3
    QueueCap = 2
    Handler = {h1}
    Deaf = {}
    GraceTicks = 1
    IdleTicks = 2
PROPERTY
    ServerReturns
CHECK_DEADLOCK FALSE
