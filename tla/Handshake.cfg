CONSTANTS
    i1 = i1
    i2 = i2
    NoId = NoId
    NoHeartbeat = NoHeartbeat
    Ids = {i1, i2}
    HandshakeTimeout = 1
    IdleTimeout = 2
    HeartbeatInterval = 1
    MaxInFlight = 2
SPECIFICATION FairSpec
INVARIANTS AuthenticatedAgree
PROPERTIES StatesOnlyAdvance HandshakeDecided GoodbyeClosesBoth
