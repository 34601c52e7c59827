SPECIFICATION Spec
CONSTANTS
    Requests = {r1}
    Refreshes = {f1}
    Handled <- HandledByDefault
    ATTEMPTS = 3
    CONCURRENCY = 2
    MaxStalled = 1
    MaxJobs = 7
    MaxFaults = 4
INVARIANTS
    TypeOK
    ChainUnforked
    RowTellsOutcome
PROPERTIES
    EveryJobEnds
    RefreshSettles
CHECK_DEADLOCK FALSE
