CONSTANTS
    None = None
    GameIds = {g1, g2}
    Codes = {k1, k2}
    Users = {}
    Second = 1
    MaxConnections = 3
    MaxTime = 2
    MaxPly = 1
    MaxRevision = 2
    TimeControls <- MCTwoMinutesOrTooLong
    MaxInitial = 5
    MaxIncrement = 5
    ReconnectGrace = 1
    FinishedRetention = 1
    IdleRoomTtl = 2
SPECIFICATION ViewSpec
VIEW MCView
SYMMETRY MCSymmetry
INVARIANTS
    SeatsMatchMemberships
    PlayersSeeTheGame
PROPERTIES
    OnlyPlayersHear
    ForfeitNeedsAbsence
