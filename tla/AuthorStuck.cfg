CONSTANTS
    KEYS <- Keys
    alice = alice
    bob = bob
    carol = carol
    r1 = r1
    NoRoom = NoRoom
    NoCommit = NoCommit
    Clients = {alice, bob}
    Rooms = {r1}
    Conforming = {alice, bob}
    Creators = {alice}
    Leavers = {}
    MAX_SKIP = 1
    MAX_GENERATION = 2
    MAX_COMMITS = 1
    MAX_ADDS = 2
    MAX_MESSAGES = 0
SPECIFICATION FairSpec
PROPERTIES AuthorCatchesUp
CHECK_DEADLOCK FALSE
