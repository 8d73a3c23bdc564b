SPECIFICATION FairSpec
CONSTANTS
  NoOrder = NoOrder
  NoStock = NoStock
  NoCall = NoCall
  A = A
  p1 = p1
  p2 = p2
  Stocks = {A}
  Minn = 1
  MarketPrice = 15
  MaxOrders = 3
  Pushes = {p1, p2}
  Cancels = {c1}
  Targets = {1, 3}
  Window = 0
  MaxLost = 1
  Requests <- FirstRequests
  Starts <- FirstStarts
CHECK_DEADLOCK FALSE
INVARIANTS
  IInv
  Printed
PROPERTIES
  Atomic
  Told
