CONSTANTS
    None = None
    Torn = Torn
    GameIds = {g1}
    Codes = {k1}
    Users = {}
    Second = 1
    MaxConnections = 2
    MaxTime = 0
    MaxPly = 0
    MaxRevision = 1
    TimeControls <- MCUntimed
    MaxInitial = 5
    MaxIncrement = 5
    ReconnectGrace = 9
    FinishedRetention = 9
    IdleRoomTtl = 2
    MaxStarts = 2
    MayStop = TRUE
    Database = "reliable"
SPECIFICATION FairPersistenceSpec
CHECK_DEADLOCK FALSE
INVARIANTS
    RecordsAreOnTheirWay
PROPERTIES
    SavedResultsReachHistory
