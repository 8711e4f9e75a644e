SPECIFICATION FairSpec
CONSTANTS
  web = web
  sim = sim
  c1 = c1
  c2 = c2
  acc = acc
  Threads = {web, sim}
  Conns = {c1, c2}
  ConnOf <- Own
  Accounts = {acc}
  Opening <- MCOpening
  Requests <- Some
  MaxRequests = 4
INVARIANTS NeverBelowZero RowsAreChained OnlyStatusBreaks
PROPERTIES LedgersOnlyGrow EveryRequestEnds
CHECK_DEADLOCK FALSE
