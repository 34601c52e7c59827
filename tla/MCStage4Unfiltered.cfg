SPECIFICATION Spec
CONSTANTS
    m1 = m1
    m2 = m2
    d1 = d1
    d2 = d2
    r1 = r1
    r2 = r2
    u1 = u1
    Movements = {m1, m2}
    Documents = {d1, d2}
    Cash <- MCCash
    Due <- MCDue
    Suits <- TwoPairs
    Planned <- OnePlanned
    Offers <- AnyDate
    Runs = {r1}
    Requests = {}
    MaxLines = 2
    MaxRebuilds = 0
    MaxFaults = 0
INVARIANTS
    OnlyGroundedApplied
CHECK_DEADLOCK FALSE
