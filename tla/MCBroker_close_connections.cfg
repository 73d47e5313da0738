SPECIFICATION FairSpec
CONSTANTS
    Conn = {c1}
    NoConn = NoConn
    BroadcastCap = 1
    ClientCap = 1
    MaxEvents = 1
PROPERTIES
    CloseEndsConnections
CHECK_DEADLOCK FALSE
