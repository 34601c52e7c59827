SPECIFICATION Spec
CONSTANTS
  r1 = r1
  r2 = r2
  Runs = {r1, r2}
  LockTimeout = 2
  MaxDuration = 2
  CheckedSteps = 6
INVARIANT AtMostOneRunUnlessForced
