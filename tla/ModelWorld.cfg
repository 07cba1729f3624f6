CONSTANTS
    c1 = c1
    c2 = c2
    c3 = c3
    stranger = stranger
    r1 = r1
    NoRoom = NoRoom
    Clients = {c1, c2, c3}
    Strangers = {stranger}
    Rooms = {r1}
    MaxEpoch = 2
    MaxSent = 2
SYMMETRY Symmetry
SPECIFICATION Spec
INVARIANTS WorldInvariant  MembersGetTheirs
PROPERTIES MemberCanSend
