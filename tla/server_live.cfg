SPECIFICATION FairSpec
CONSTANTS
  NoOrder = NoOrder
  NoStock = NoStock
  A = A
  Stocks = {A}
  Minn = 1
  MarketPrice = 5
  MaxOrders = 4
  MaxCalls = 5
  MaxGone = 1
  Requests <- ServerRequests
  Batches <- ServerBatches
CHECK_DEADLOCK FALSE
PROPERTY
  AllReported
