SPECIFICATION FairAccountsSpec
CONSTANTS
    None = None
    Users = {alice, bob}
    Computers = {}
    Visitors = {v1, v2}
    Keys = {k1}
    MaxSessions = 1
    IdleLimit = 1
    StartMayFail = TRUE
    FailingCalls <- MCFailingCalls
    MaxTokens = 3
    MaxConnections = 2
    MaxDays = 2
CHECK_DEADLOCK FALSE
INVARIANTS
    IdentityMatchesSession
    SignedOutMeansRevoked
    SavedSessionsAreLive
PROPERTIES
    VisitorSessionsEnd
