SPECIFICATION FairSpec
CONSTANTS
    Source = {s1, s2}
    Table = {t1, t2, t3}
    None = None
    MaxRetry = 2
    MaxVersion = 2
    MaxQueue = 2
INVARIANTS
    TypeOK
    OneConnection
    TablesListen
    NeverAbandoned
PROPERTIES
    EventShown
    Reconnects
