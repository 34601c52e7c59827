SPECIFICATION Spec
CONSTANTS
    a = a
    b = b
    f = f
    w1 = w1
    w2 = w2
    k1 = k1
    o1 = o1
    o2 = o2
    Rebuilds = {a, b}
    Refreshes = {}
    Sessions = {w1, w2, k1}
    Pool <- Apart
    Observations = {o1}
    Found <- Both
    Tags = {x}
    MaxFaults = 1
    Nobody = Nobody
    Abandoned = Abandoned
PROPERTIES
    NeverLeftWaiting
CHECK_DEADLOCK FALSE
