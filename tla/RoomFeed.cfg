CONSTANTS
    StreamOf <- Streams
    r1 = r1
    u1 = u1
    t1 = t1
    t2 = t2
    s1 = s1
    s2 = s2
    NoState = NoState
    NoGroup = NoGroup
    Uncached = Uncached
    Free = Free
    Absent = Absent
    Rooms = {r1}
    Users = {u1}
    Sessions = {s1, s2}
    Opcodes = {"AppMessage", "Welcome"}
    Tasks = {t1, t2}
    MAX_EPOCH = 0
    MAX_LOG_INDEX = 3
    MlsOutcomes = {"merge"}
    FaultyStorage = TRUE
    Atomic = FALSE
    Signatures = {TRUE}
    Structures = {TRUE}
    MaxFrames = 2
    MaxRestarts = 0
    LIMIT = 1
SPECIFICATION FairFeedSpec
INVARIANTS CaughtUpHoldsLog
 
CHECK_DEADLOCK FALSE
