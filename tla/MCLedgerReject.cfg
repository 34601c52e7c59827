SPECIFICATION Spec
CONSTANTS
  i1 = i1
  b1 = b1
  b2 = b2
  m1 = m1
  m2 = m2
  a1 = a1
  a2 = a2
  x1 = x1
  x2 = x2
  r1 = r1
  r2 = r2
  Invoices = {i1}
  Bills = {}
  Movements = {m1}
  AttrIds = {a1, a2}
  MatchIds = {x1}
  Requests = {r1, r2}
  MaxAmount = 5
  Amounts = {3, 5}
  NetAmounts = {2}
  CashOf <- MCCashOf
  NoRow = NoRow
PROPERTIES
  RejectionGivesBack
