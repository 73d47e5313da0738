SPECIFICATION Spec
CONSTANTS
    Source = {s1, s2}
    Table = {t1}
    None = None
    MaxRetry = 1
    MaxVersion = 1
    MaxQueue = 1
SYMMETRY Symmetry
INVARIANTS
    ConnectedTablesListen
