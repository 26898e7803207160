CONSTANTS
    drive = drive
    share = share
    Nobody = Nobody
    Name <- MCName
    Root <- MCRoot
    RootRel <- MCRootRel
    Rel <- MCRel
    Fold <- MCFold
    Opaque <- MCOpaque
    Written <- MCWritten
    FirstKinds <- MCFirstKinds
    FirstDisks <- MCFirstDisks
    SavedTexts <- MCSavedTexts
    Overrides <- MCOverrides
    Address = "10.0.0.5"
    TicksPerSec = 2
    NanosPerTick = 3
    EpochDiffSecs = 4
    MaxEdits = 1
    MaxCuts = 1
    MaxTreeRuns = 2
    MaxStarts = 3
    MaxFaults = 2
    Scenarios <- MCScenarios
SPECIFICATION DeploySpec
INVARIANTS
    DeployTypeOK
    SettingsSurvive
    RunsAsSaved
    FreshCopyWorks
    WalkFollowsRule
    IgnoredFilesKept
    PrunedNotOffered
    CleanIsMirror
    FetchedOnce
    SavedIgnoreHolds
PROPERTIES
    IncompleteHasCause
CHECK_DEADLOCK FALSE
