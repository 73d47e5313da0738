SPECIFICATION Spec
CONSTANTS
    Window = {w1}
    UserId = {u1, u2}
    Name = {ann, bob}
    NodeId = {n1, n2}
    Hours <- OneDay
    Unused = Unused
    Gone = Gone
    Absent = Absent
    Unreadable = Unreadable
    NoRequest = NoRequest
    MaxKeys = 1
SYMMETRY Symmetry
INVARIANTS
    TypeOK
PROPERTIES
    UsersCurrent
    CountsExact
