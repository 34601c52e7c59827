SPECIFICATION Spec
CONSTANTS
    a = a
    b = b
    f = f
    w1 = w1
    w2 = w2
    k1 = k1
    o1 = o1
    o2 = o2
    Rebuilds = {a, b}
    Refreshes = {}
    Sessions = {w1, w2}
    Pool <- OneProcess
    Observations = {o1}
    Found <- Both
    Tags = {x}
    MaxFaults = 0
    Nobody = Nobody
    Abandoned = Abandoned
INVARIANTS
    NoSecondMovement
CHECK_DEADLOCK FALSE
