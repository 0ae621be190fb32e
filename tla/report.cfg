CONSTANTS
    Owned <- MCOwned
    PR <- MCPR
    Confs <- MCConfs
    Limits = {0, 1, 2}
    Sinces = {0, 2, 3}
    MaxUpdates = 2
SPECIFICATION Spec
CHECK_DEADLOCK FALSE
INVARIANTS
    TypeOK
    NothingTwice
    ReportComplete
    QueriesSpaced
    PagesEnd
    WholePagesLimit
    AggregationSucceeds
    AggregatesPartition
    AveragesAreNumbers
