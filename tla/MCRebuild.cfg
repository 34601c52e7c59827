SPECIFICATION Spec
CONSTANTS
    a = a
    b = b
    f = f
    w1 = w1
    w2 = w2
    k1 = k1
    o1 = o1
    o2 = o2
    Rebuilds = {a, b}
    Refreshes = {f}
    Sessions = {w1, w2, k1}
    Pool <- TwoProcesses
    Observations = {o1, o2}
    Found <- Early
    Tags = {x}
    MaxFaults = 1
    Nobody = Nobody
    Abandoned = Abandoned
INVARIANTS
    TypeOK
    LockExcludesProcesses
    AttributionsSurvive
PROPERTIES
    WaitersServed
CHECK_DEADLOCK FALSE
