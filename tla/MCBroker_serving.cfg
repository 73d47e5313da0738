SPECIFICATION FairSpec
CONSTANTS
    Conn = {c1, c2}
    NoConn = NoConn
    BroadcastCap = 1
    ClientCap = 1
    MaxEvents = 2
INVARIANTS
    TypeOK
    NoPanic
    ChannelsInUse
    RegistryFollowsHandlers
    EventsInOrder
PROPERTIES
    FeedSpec
    GoneIsForgotten
    SubscribeSucceeds
    AcceptedIsDispatched
CHECK_DEADLOCK FALSE
