SPECIFICATION Spec
CONSTANTS
    Handler = {h1, h2}
    NodeId = {n1}
    Route <- ExitAndSubnet
    User <- OneUser
    Name <- OneName
    TagSet <- SomeTags
    FirstNode <- Offering
    Absent = Absent
    NoRoute = NoRoute
    NoRequest = NoRequest
SYMMETRY Symmetry
INVARIANTS
    TypeOK
    OnlyOfferedApproved
    RetryIsSafe
    BadgesFollowActions
PROPERTIES
    Atomic
