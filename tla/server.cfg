SPECIFICATION Spec
CONSTANTS
  NoOrder = NoOrder
  NoStock = NoStock
  A = A
  Stocks = {A}
  Minn = 1
  MarketPrice = 5
  MaxOrders = 3
  MaxCalls = 6
  MaxGone = 1
  Requests <- ServerRequests
  Batches <- ServerBatches
CHECK_DEADLOCK FALSE
INVARIANTS
  IInv
  OneListener
  RightStream
  InOrder
  FillsAddUp
  NoneAbandoned
  OverlapNeedsTrade
