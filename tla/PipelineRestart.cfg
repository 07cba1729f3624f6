CONSTANTS
    r1 = r1
    r2 = r2
    u1 = u1
    u2 = u2
    t1 = t1
    t2 = t2
    NoState = NoState
    NoGroup = NoGroup
    Uncached = Uncached
    Free = Free
    Rooms = {r1}
    Users = {u1}
    Opcodes = {"AppMessage", "Commit", "Welcome"}
    Tasks = {t1, t2}
    MAX_EPOCH = 2
    MAX_LOG_INDEX = 3
    MlsOutcomes = {"merge", "fail"}
    FaultyStorage = TRUE
    Atomic = FALSE
    Signatures = {TRUE, FALSE}
    Structures = {TRUE}
    MaxFrames = 3
    MaxRestarts = 1
SPECIFICATION Spec
INVARIANTS PipelineInvariant LogEpochsOrdered
PROPERTIES ImplementsTotalOrder
