SPECIFICATION Spec
CONSTANTS
  NoOrder = NoOrder
  NoStock = NoStock
  NoStream = NoStream
  A = A
  Stocks = {A}
  Sessions = {s1, s2}
  Cancelers = {c1}
  Minn = 1
  MarketPrice = 5
  MaxOrders = 3
  Requests <- SyncRequests
SYMMETRY Symmetry
CHECK_DEADLOCK FALSE
INVARIANTS
  IInv
  BookIsLive
  Accounting
  Uncrossed
  FaultNeedsOverlap
PROPERTIES
  CanceledIsFinal
