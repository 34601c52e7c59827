SPECIFICATION FairEngineSpec
CONSTANTS
  e1 = e1
  e2 = e2
  m1 = m1
  m2 = m2
  a1 = a1
  a2 = a2
  a3 = a3
  r1 = r1
  r2 = r2
  w1 = w1
  w2 = w2
  Invoices = {}
  Bills = {e1}
  Movements = {m1}
  AttrIds = {a1, a2}
  MatchIds = {}
  Requests = {r1, r2}
  MaxAmount = 6
  Amounts = {3}
  NetAmounts <- MCNet
  CashOf <- MCLargeCash
  NoRow = NoRow
  Engines = {w1}
  MovementOrder <- MCOneMovement
  EventRank <- MCRank
  Candidates <- MCAnyEvent
  DirectLink <- MCLinkToE1
  Processor = {}
  ReviewThreshold = 1
PROPERTIES
  EnginesComplete
