CONSTANTS
    r1 = r1
    r2 = r2
    u1 = u1
    u2 = u2
    t1 = t1
    t2 = t2
    NoState = NoState
    NoGroup = NoGroup
    Uncached = Uncached
    Free = Free
    Rooms = {r1}
    Users = {u1, u2}
    Opcodes = {"AppMessage", "Commit", "Welcome", "Unknown", "Proposal"}
    Tasks = {t1, t2}
    MAX_EPOCH = 1
    MAX_LOG_INDEX = 2
    MlsOutcomes = {"merge", "evict", "ignore", "fail"}
    FaultyStorage = TRUE
    Atomic = FALSE
    Signatures = {TRUE, FALSE}
    Structures = {TRUE, FALSE}
    MaxFrames = 2
    MaxRestarts = 0
SYMMETRY Symmetry
SPECIFICATION Spec
INVARIANTS LogIsOrderPrefix OnePosition StoredStateNotAhead SyncResponsesCoverLog
PROPERTIES LostIndexBlocksRoom
