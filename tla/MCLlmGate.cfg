SPECIFICATION Spec
CONSTANTS
    Callers = {c1, c2, c3}
    FAILURE_THRESHOLD = 2
    MAX_CONCURRENT = 2
    MAX_PER_MINUTE = 3
    MAX_RETRIES = 1
    Minute = 2
    QueueTimeout = 1
    CallTimeout = 2
    ResetTimeout = 3
    RetryAfter <- RetryAfterValues
INVARIANTS
    TypeOK
    SlotsCounted
    ClosedMeansHealthy
    QueueHoldsWaiting
PROPERTIES
    ServedWhileBusy
