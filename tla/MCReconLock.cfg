SPECIFICATION FairSpec
CONSTANTS
  r1 = r1
  r2 = r2
  Runs = {r1, r2}
  LockTimeout = 2
  MaxDuration = 2
  CheckedSteps = 6
INVARIANTS
  TypeOK
  AtMostOneRunInTime
  ActiveRunHoldsLock
PROPERTIES
  Excludes
  LockRecovers
