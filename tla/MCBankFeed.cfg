SPECIFICATION Spec
CONSTANTS
    MaxTransactions = 2
    Syncs = {s1, s2}
    MaxLog = 3
    PAGE = 2
    MaxFaults = 1
INVARIANTS
    TypeOK
    RowsFollowCursor
PROPERTIES
    LoneWebhookCatchesUp
CHECK_DEADLOCK FALSE
