SPECIFICATION FairSpec
CONSTANTS
  NoOrder = NoOrder
  NoStock = NoStock
  A = A
  Stocks = {A}
  Minn = 1
  MarketPrice = 5
  MaxOrders = 3
  MaxCalls = 2
  MaxReports = 2
  MaxGarbage = 1
  Requests <- ClientRequests
  Files <- ClientFiles
  Garbage <- ClientGarbage
CHECK_DEADLOCK FALSE
INVARIANTS
  IInv
  FaultOnlyRaced
  PrintedInOrder
  SentFromFile
PROPERTY
  CallsComplete
