CONSTANTS
    None = None
    Torn = Torn
    GameIds = {g1}
    Codes = {k1}
    Users = {}
    Second = 1
    MaxConnections = 2
    MaxTime = 2
    MaxPly = 1
    MaxRevision = 1
    TimeControls <- MCTwoMinutes
    MaxInitial = 5
    MaxIncrement = 5
    ReconnectGrace = 1
    FinishedRetention = 1
    IdleRoomTtl = 2
    MaxStarts = 2
    MayStop = FALSE
    Database = "none"
SPECIFICATION PersistenceSpec
CHECK_DEADLOCK FALSE
VIEW MCView
INVARIANTS
    NoTimeLeftMeansOver
