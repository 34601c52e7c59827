SPECIFICATION EngineSpec
CONSTANTS
  e1 = e1
  e2 = e2
  m1 = m1
  m2 = m2
  a1 = a1
  a2 = a2
  a3 = a3
  r1 = r1
  r2 = r2
  w1 = w1
  w2 = w2
  Invoices = {e1}
  Bills = {}
  Movements = {m1, m2}
  AttrIds = {a1, a2, a3}
  MatchIds = {}
  Requests = {r1}
  MaxAmount = 4
  Amounts = {4}
  NetAmounts <- MCNet
  CashOf <- MCTwoCash
  NoRow = NoRow
  Engines = {w1}
  MovementOrder <- MCTwoMovements
  EventRank <- MCRank
  Candidates <- MCAnyEvent
  DirectLink <- MCNoLink
  Processor = {}
  ReviewThreshold = 1
PROPERTIES
  PlanTakesEffect
