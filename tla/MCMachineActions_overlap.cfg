SPECIFICATION Spec
CONSTANTS
    Handler = {h1, h2}
    NodeId = {n1}
    Route <- Subnets
    User <- OneUser
    Name <- OneName
    TagSet <- NoTags
    FirstNode <- Offering
    Absent = Absent
    NoRoute = NoRoute
    NoRequest = NoRequest
SYMMETRY Symmetry
PROPERTIES
    ApprovalKeepsExisting
