SPECIFICATION FairSpec
CONSTANTS
  NoOrder = NoOrder
  NoStock = NoStock
  Free = Free
  A = A
  B = B
  Stocks = {A, B}
  Minn = 1
  MarketPrice = 5
  Threads = {t1, t2}
  MaxOrders = 3
  Requests <- ThreadRequests
PROPERTY
  RequestsComplete
