SPECIFICATION Spec
CONSTANTS
  NoOrder = NoOrder
  NoStock = NoStock
  Free = Free
  A = A
  B = B
  Stocks = {A, B}
  Minn = 1
  MarketPrice = 5
  Threads = {h}
  MaxOrders = 4
  Requests <- ShippedRequests
INVARIANTS
  NoFault
  Uncrossed
  AnswersAgree
PROPERTY
  Atomicity
