SPECIFICATION FairSpec
CONSTANTS
    NUnits = 4
    QueueCap = 2
    Handler = {h1, h2}
    Deaf = {h2}
    GraceTicks = 2
    IdleTicks = 3
INVARIANTS
    TypeOK
    UnitsConserved
    QueueWithinCap
    NounitMeansAllProduced
    CleanStopMeansDrained
PROPERTIES
    EveryStreamFinishes
    ImplementsWorkPool
\* The server stops for good: a finished run has no step left.
CHECK_DEADLOCK FALSE
