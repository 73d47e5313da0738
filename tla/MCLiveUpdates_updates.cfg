SPECIFICATION FairSpec
CONSTANTS
    n1 = n1
    u1 = u1
    u2 = u2
    Absent = Absent
    Page = {p1}
    Machine <- Machines
    UserName <- Names
    NodeId = {n1}
    UserId = {u1, u2}
    FirstNodes <- OneNode
    FirstUsers <- TwoUsers
    NodeChanges <- AnyChange
    UserChanges <- UserExchange
    Mishaps = {"drop", "reply"}
    QueueCap = 1
    InboxCap = 1
    MaxChanges = 2
INVARIANTS
    TypeOK
    RememberedIsAnnounced
    BroadcastsAreChanges
    UsersDetected
    SettledWindows
PROPERTIES
    PageCatchesUp
    CancelStopsPoller
CHECK_DEADLOCK FALSE
