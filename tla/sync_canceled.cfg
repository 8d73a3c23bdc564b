SPECIFICATION Spec
CONSTANTS
  NoOrder = NoOrder
  NoStock = NoStock
  NoStream = NoStream
  A = A
  Stocks = {A}
  Sessions = {s1}
  Cancelers = {c1}
  Minn = 1
  MarketPrice = 5
  MaxOrders = 3
  Requests <- SyncRequests
CHECK_DEADLOCK FALSE
INVARIANT CanceledWasOpen
