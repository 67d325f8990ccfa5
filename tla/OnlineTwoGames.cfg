CONSTANTS
    None = None
    GameIds = {1, 2}
    Codes = {1, 2}
    Users = {}
    Second = 1
    MaxConnections = 4
    MaxTime = 0
    MaxPly = 0
    MaxRevision = 9
    TimeControls <- MCUntimed
    MaxInitial = 5
    MaxIncrement = 5
    ReconnectGrace = 9
    FinishedRetention = 9
    IdleRoomTtl = 9
    OutboxCapacity = 2
    MaxRequests = 0
SPECIFICATION FairOnlineSpec
VIEW MCView
ACTION_CONSTRAINT MCInOrder
PROPERTY
    SameSeatIsRestored
