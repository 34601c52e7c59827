SPECIFICATION Spec
CONSTANTS
    Callers = {c1, c2}
    FAILURE_THRESHOLD = 2
    MAX_CONCURRENT = 2
    MAX_PER_MINUTE = 3
    MAX_RETRIES = 1
    Minute = 2
    QueueTimeout = 1
    CallTimeout = 2
    ResetTimeout = 3
    RetryAfter <- RetryAfterValues
PROPERTIES
    OneProbe
