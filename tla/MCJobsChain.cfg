SPECIFICATION Spec
CONSTANTS
    Requests = {r1}
    Refreshes = {f1}
    Handled <- HandledByDefault
    ATTEMPTS = 3
    CONCURRENCY = 2
    MaxStalled = 1
    MaxJobs = 3
    MaxFaults = 0
PROPERTIES
    ChainSettles
CHECK_DEADLOCK FALSE
