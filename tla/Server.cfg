CONSTANTS
    s1 = s1
    s2 = s2
    s3 = s3
    x1 = x1
    x2 = x2
    r1 = r1
    Absent = Absent
    NoId = NoId
    NoHeartbeat = NoHeartbeat
    Sessions = {s1, s2}
    Rooms = {r1}
    Streams = {x1, x2}
    MAX_CONNECTIONS = 1
    HandshakeTimeout = 0
    IdleTimeout = 0
    HeartbeatInterval = 1
    ClientOpcodes = {"Hello", "Ping", "Pong", "Goodbye", "SyncRequest", "Welcome", "Room"}
    Ticking = TRUE
    Embedding = TRUE
SPECIFICATION FairSpec
INVARIANTS TypeOK MapsAgree ConnectionsAreSessions NothingLeftBehind AuthenticatedByHandshake OpenIsReachable
  
CHECK_DEADLOCK FALSE
