CONSTANTS
    KEYS <- Keys
    alice = alice
    bob = bob
    carol = carol
    r1 = r1
    NoRoom = NoRoom
    NoCommit = NoCommit
    Clients = {alice, bob, carol}
    Rooms = {r1}
    Conforming = {alice, bob}
    Creators = {alice}
    Leavers = {alice}
    MAX_SKIP = 1
    MAX_GENERATION = 2
    MAX_COMMITS = 2
    MAX_ADDS = 2
    MAX_MESSAGES = 2
SPECIFICATION Spec
INVARIANTS    SyncDelivers StagedTimesOut
 
CHECK_DEADLOCK FALSE
