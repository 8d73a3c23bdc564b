SPECIFICATION Spec
CONSTANTS
  NoOrder = NoOrder
  NoStock = NoStock
  Free = Free
  A = A
  B = B
  Stocks = {A, B}
  Minn = 1
  MarketPrice = 5
  Threads = {t1, t2, t3}
  MaxOrders = 3
  Requests <- ThreadRequests
SYMMETRY ThreadSymmetry
INVARIANTS
  IInv
  LockInv
  BookIsLive
  Accounting
  CanceledOnce
  FaultOnlyInFlight
PROPERTY
  CanceledIsFinal
