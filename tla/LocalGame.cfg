SPECIFICATION FairLocalSpec
CONSTANTS
    None = None
    Second = 1
    Modes <- MCModes
    Starts <- MCStarts
    Initial = 1
    Increment = 0
    Paths <- MCPaths
    DiskMayFail = FALSE
    MaxPly = 3
    MaxRevision = 2
    MaxTime = 1
VIEW MCView
INVARIANTS
    MarksFitThePosition
    ClockFollowsTheGame
    ChangesAreOnDisk
PROPERTIES
    TheEngineAnswers
