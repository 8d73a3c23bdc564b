-------------------------- MODULE TradingMarketInv --------------------------
(***************************************************************************)
(* The inductive invariant of TradingMarket: its type and safety           *)
(* properties, and what has to be known of the threads' local variables    *)
(* and of the order numbers for each of them to be preserved.              *)
(***************************************************************************)
EXTENDS TradingMarket

\* The thread has a new order, in the table or about to be.
Creator(t) == pc[t] \in {"insert"} \cup Creating \cup Matching

\* The locals a thread uses are initialised, and `sellOrder.orderqty()-cnt`
\* does not wrap around.
LocalsOK ==
  \A t \in Threads :
    /\ pc[t] # "idle" => oid[t] \in OrderId /\ mine[t] \in Order
    /\ pc[t] = "insert" => mine[t].qty > 0
    /\ Scanning(t) => cnt[t] <= mine[t].qty
    /\ pc[t] = "retire" => resting[t] \in OrderId

\* An order number is given to one order only.
Numbering ==
  /\ \A i \in OrderId : placed[i] # NoOrder => i <= id /\ placed[i].qty > 0
  /\ \A t \in Threads : Creator(t) => oid[t] <= id
  /\ \A t, u \in Threads : Creator(t) /\ Creator(u) /\ oid[t] = oid[u] => t = u
  /\ \A t \in Threads : pc[t] = "insert" => placed[oid[t]] = NoOrder

\* The table, the resting sets and the local copies agree on the stock and the
\* side of an order: those it was placed with.
SameStockAndSide ==
  /\ \A i \in OrderId :
       orders[i] # NoOrder =>
         /\ placed[i] # NoOrder
         /\ orders[i].stock = placed[i].stock /\ orders[i].dir = placed[i].dir
  /\ \A t \in Threads :
       pc[t] \notin {"idle", "insert"} =>
         /\ placed[oid[t]] # NoOrder
         /\ mine[t].stock = placed[oid[t]].stock /\ mine[t].dir = placed[oid[t]].dir
  /\ \A s \in Stocks, d \in Side : \A i \in book[s][d] :
       placed[i] # NoOrder /\ placed[i].stock = s /\ placed[i].dir = d

\* What a thread knows of the order it is about to take out or put to rest; and
\* an order that is still being matched is not at rest.
InTransit ==
  \A t \in Threads :
    /\ pc[t] = "retire" =>
         /\ resting[t] \in Opposite(t)
         /\ orders[resting[t]] # NoOrder /\ orders[resting[t]].qty = 0
    /\ pc[t] = "rest" => orders[oid[t]] # NoOrder /\ orders[oid[t]].qty > 0
    /\ pc[t] = "drop" => orders[oid[t]] # NoOrder /\ orders[oid[t]].qty = 0
    /\ pc[t] = "cancelUnbook" => orders[oid[t]] = NoOrder
    /\ Creator(t) => \A s \in Stocks, d \in Side : oid[t] \notin book[s][d]

\* The mutexes of a stock are there once the thread that created the first
\* order of it is through createOrder.
StockListed ==
  \A i \in OrderId :
    placed[i] # NoOrder =>
      \/ placed[i].stock \in listed
      \/ \E t \in Threads : pc[t] \in Creating /\ oid[t] = i

\* How much an order has traded before, during and after its own matching.
Trading ==
  /\ \A i \in OrderId : placed[i] = NoOrder => filled[i] = 0
  /\ \A t \in Threads :
       /\ pc[t] \in Creating \cup {"lockOpp", "select"} => filled[oid[t]] = 0
       /\ pc[t] \in Creating => mine[t].qty = placed[oid[t]].qty
       /\ Scanning(t) => mine[t].qty = placed[oid[t]].qty

\* The copy a cancellation reports from may be older than the latest trades of
\* the order, but not wrong otherwise.
CanceledCopy ==
  \A t \in Threads :
    pc[t] \in Canceling =>
      /\ placed[oid[t]].qty - filled[oid[t]] <= mine[t].qty
      /\ mine[t].qty <= placed[oid[t]].qty

\* A cancelled order is gone, and one thread at most is cancelling it.
CancelOnce ==
  /\ \A i \in OrderId : cancels[i] > 0 => orders[i] = NoOrder /\ placed[i] # NoOrder
  /\ \A t \in Threads : pc[t] = "cancelUnbook" => cancels[oid[t]] = 0
  /\ \A t, u \in Threads :
       pc[t] = "cancelUnbook" /\ pc[u] = "cancelUnbook" /\ oid[t] = oid[u] => t = u

\* An order that disappears while it is in flight has been cancelled.
InFlightGone ==
  \A t \in Threads :
    pc[t] \in Creating \cup Matching /\ orders[oid[t]] = NoOrder =>
      cancels[oid[t]] > 0 \/ BeingCanceled(oid[t])

TypeInv == TypeOK /\ LocalsOK

BookInv ==
  /\ TypeInv
  /\ Numbering
  /\ SameStockAndSide
  /\ LockInv
  /\ InTransit
  /\ BookIsLive
  /\ NoOrphan

IInv ==
  /\ BookInv
  /\ StockListed
  /\ Trading
  /\ Accounting
  /\ CanceledCopy
  /\ CancelOnce
  /\ CanceledOnce
  /\ NoLostOrder
  /\ InFlightGone
  /\ FaultOnlyInFlight

=============================================================================
