CONSTANTS
    r1 = r1
    r2 = r2
    u1 = u1
    u2 = u2
    t1 = t1
    t2 = t2
    NoState = NoState
    NoGroup = NoGroup
    Uncached = Uncached
    Free = Free
    Rooms = {r1}
    Users = {u1, u2}
    Opcodes = {"AppMessage", "Commit"}
    Tasks = {t1, t2}
    MAX_EPOCH = 2
    MAX_LOG_INDEX = 3
    MlsOutcomes = {"merge", "ignore"}
    FaultyStorage = FALSE
    Atomic = TRUE
    Signatures = {TRUE}
    Structures = {TRUE}
    MaxFrames = 3
    MaxRestarts = 0
SPECIFICATION FairSpec
INVARIANTS StoredBeforePublished NoGapsAtRest StateCurrentAtRest
PROPERTIES StoredEpochMonotone NumberedIsPublished
