CONSTANTS
    None = None
    GameIds = {g1}
    Codes = {k1}
    Users = {u1}
    Second = 1
    MaxConnections = 2
    MaxTime = 2
    MaxPly = 2
    MaxRevision = 3
    TimeControls <- MCBlitz
    MaxInitial = 5
    MaxIncrement = 5
    ReconnectGrace = 1
    FinishedRetention = 1
    IdleRoomTtl = 2
SPECIFICATION Spec
VIEW MCView
INVARIANTS
    ClockRunsWhileActive
    ClockConservation
PROPERTIES
    ResultIsFinal
    SeatsKeepTheirAccount
