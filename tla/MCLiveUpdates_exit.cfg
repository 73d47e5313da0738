SPECIFICATION Spec
CONSTANTS
    n1 = n1
    u1 = u1
    u2 = u2
    Absent = Absent
    Page = {p1}
    Machine <- ExitNodes
    UserName <- Names
    NodeId = {n1}
    UserId = {u1}
    FirstNodes <- OneExitNode
    FirstUsers <- OneUser
    NodeChanges <- ApproveExit
    UserChanges <- NoChange
    Mishaps = {}
    QueueCap = 2
    InboxCap = 2
    MaxChanges = 1
INVARIANTS
    ApprovedRoutesAnnounced
