SPECIFICATION FairSpec
CONSTANTS
  NoOrder = NoOrder
  NoStock = NoStock
  Free = Free
  A = A
  s1 = s1
  s2 = s2
  Stocks = {A}
  Sessions = {s1, s2}
  Cancelers = {c1}
  Minn = 1
  MarketPrice = 15
  MaxOrders = 3
  Window = 1
  MaxFaults = 1
  Requests <- GlobalRequests
  Starts <- GlobalStarts
CHECK_DEADLOCK FALSE
INVARIANTS
  IInv
  BookSettled
  Balanced
  Answered
PROPERTY
  Served
