--------------------------- MODULE TradingMarket ---------------------------
(***************************************************************************)
(* The TradingMarket class of OrderProcessSystem_async_v_2/market: one     *)
(* order table, a pair of resting sets per stock, and the mutexes that     *)
(* guard them.  Any number of handler threads call processNewOrder and     *)
(* processCancelOrder; the server of this version runs one handler thread  *)
(* (Threads a singleton), the class is written for several.                *)
(*                                                                         *)
(* Every region the code runs under a lock is one action or a run of       *)
(* actions between which the lock is held, so threads interleave exactly   *)
(* at the points where the code holds no common lock.  The code's pairs    *)
(* sellOrders/buyOrders, addOrderToSell/addOrderToBuy, ... are mirror      *)
(* images of each other: one definition stands for both, with the side of  *)
(* the order as its parameter.                                             *)
(*                                                                         *)
(* rw_orders_mutex is held for single table operations only, which are     *)
(* atomic here; rw_stocks_mutex is held across insertStock, whose two      *)
(* halves are actions.                                                     *)
(***************************************************************************)
EXTENDS Orders

CONSTANTS
  Threads,      \* the handler threads that call the market
  Free          \* the owner of an unlocked mutex

ASSUME ThreadsAssumption == Free \notin Threads

VARIABLES
  id,        \* the last order number given out
  orders,    \* orders[i]: the table entry of order i, or NoOrder
  book,      \* book[s][d]: the numbers of the resting orders of a stock and side
  listed,    \* the stocks that have a container and a pair of mutexes
  mutex,     \* mutex[s][d]: the thread that holds the mutex of a resting set
  pc,        \* where each thread is
  oid,       \* local orderID
  mine,      \* local copy of the order being processed
  cnt,       \* local cnt: how much of `mine` this matching has traded
  resting,   \* local id of the resting order the matching has just traded with
  fault      \* how the process died, or "none"

\* What the reports produced so far say; no action reads these.
VARIABLES
  placed,       \* placed[i]: order i as it was accepted
  filled,       \* filled[i]: the sum of fillQty over the FILL reports of i
  leave,        \* leave[i]: leaveQty of the latest ORDER_ACCEPT or FILL report of i
  cancels,      \* cancels[i]: the number of CANCELED reports for i
  cancelLeave   \* cancelLeave[i]: leaveQty of the CANCELED report of i

locals  == <<oid, mine, cnt, resting>>
reports == <<placed, filled, leave, cancels, cancelLeave>>
vars    == <<id, orders, book, listed, mutex, pc, locals, fault, reports>>

-----------------------------------------------------------------------------
(* Helpers *)

Goto(t, l) == pc' = [pc EXCEPT ![t] = l]

\* The set a submission is matched against and the one its rest goes to.
Opposite(t) == book[mine[t].stock][Opp(mine[t].dir)]

Unlocked(t, d) == mutex[mine[t].stock][d] = Free
Lock(t, d)     == mutex' = [mutex EXCEPT ![mine[t].stock][d] = t]
Unlock(t, d)   == mutex' = [mutex EXCEPT ![mine[t].stock][d] = Free]

\* No thread holds rw_stocks_mutex for writing.
StocksReadable == \A u \in Threads : pc[u] # "inserting"

\* Faulty variant: an incompatible entry ends the scan instead of being skipped.
StopsAtFirst(t) ==
  {r \in Opposite(t) : /\ \A q \in Opposite(t) : r <= q
                       /\ orders[r] = NoOrder \/ Compatible(mine[t], orders[r])}

\* The resting order at which the scan of thread t stops next.  The scan goes
\* up the ordered set and skips what is incompatible; an entry that is missing
\* from the order table stops it too.
Stops(t) ==
  {r \in Opposite(t) : orders[r] = NoOrder \/ Compatible(mine[t], orders[r])}

StopsAt(t, r) ==
  /\ cnt[t] < mine[t].qty
  /\ r \in Stops(t)
  /\ \A q \in Stops(t) : r <= q

-----------------------------------------------------------------------------
(* processNewOrder *)

\* An illegal request: an ORDER_REJECT report for the caller and nothing else.
RejectOrder(t, req) ==
  /\ pc[t] = "idle"
  /\ ~CheckRequest(req)
  /\ UNCHANGED vars

\* createOrder under orderID_mutex: the next order number.
TakeNumber(t, req) ==
  /\ pc[t] = "idle"
  /\ CheckRequest(req)
  /\ id < MaxOrders
  /\ id' = id + 1
  /\ oid' = [oid EXCEPT ![t] = id + 1]
  /\ mine' = [mine EXCEPT ![t] = req]
  /\ Goto(t, "insert")
  /\ UNCHANGED <<orders, book, listed, mutex, cnt, resting, fault, reports>>

\* insertOrder.
InsertOrder(t) ==
  /\ pc[t] = "insert"
  /\ orders' = [orders EXCEPT ![oid[t]] = mine[t]]
  /\ placed' = [placed EXCEPT ![oid[t]] = mine[t]]
  /\ Goto(t, "list")
  /\ UNCHANGED <<id, book, listed, mutex, locals, fault,
                 filled, leave, cancels, cancelLeave>>

\* createOrder is over: the ORDER_ACCEPT report, then to the matching.
Accept(t) ==
  /\ leave' = [leave EXCEPT ![oid[t]] = mine[t].qty]
  /\ Goto(t, "lockOpp")
  /\ UNCHANGED <<id, orders, book, mutex, locals, fault,
                 placed, filled, cancels, cancelLeave>>

\* Faulty variant: createOrder takes every stock to be there.
FindAnyStock(t) ==
  /\ pc[t] = "list"
  /\ StocksReadable
  /\ Accept(t)
  /\ UNCHANGED listed

\* existInContainers says yes: nothing to insert.
FindStock(t) ==
  /\ pc[t] = "list"
  /\ StocksReadable
  /\ mine[t].stock \in listed
  /\ Accept(t)
  /\ UNCHANGED listed

\* existInContainers says no: createOrder will call insertStock.
MissStock(t) ==
  /\ pc[t] = "list"
  /\ StocksReadable
  /\ mine[t].stock \notin listed
  /\ Goto(t, "insertStock")
  /\ UNCHANGED <<id, orders, book, listed, mutex, locals, fault, reports>>

\* insertStock takes rw_stocks_mutex and looks again.
BeginInsertStock(t) ==
  /\ pc[t] = "insertStock"
  /\ StocksReadable
  /\ mine[t].stock \notin listed
  /\ Goto(t, "inserting")
  /\ UNCHANGED <<id, orders, book, listed, mutex, locals, fault, reports>>

\* Another thread inserted it since existInContainers.
SkipInsertStock(t) ==
  /\ pc[t] = "insertStock"
  /\ StocksReadable
  /\ mine[t].stock \in listed
  /\ Accept(t)
  /\ UNCHANGED listed

\* The new pair of mutexes and the empty container are in.
EndInsertStock(t) ==
  /\ pc[t] = "inserting"
  /\ listed' = listed \cup {mine[t].stock}
  /\ Accept(t)

\* The opposite set is locked and empty: there is nothing to match.
SkipMatching(t) ==
  /\ pc[t] = "lockOpp"
  /\ StocksReadable
  /\ Unlocked(t, Opp(mine[t].dir))
  /\ Opposite(t) = {}
  /\ Goto(t, "lockOwn")
  /\ UNCHANGED <<id, orders, book, listed, mutex, locals, fault, reports>>

\* The opposite set is locked and not empty: sellOrders or buyOrders follows.
LockOpposite(t) ==
  /\ pc[t] = "lockOpp"
  /\ StocksReadable
  /\ Unlocked(t, Opp(mine[t].dir))
  /\ Opposite(t) # {}
  /\ Lock(t, Opp(mine[t].dir))
  /\ Goto(t, "select")
  /\ UNCHANGED <<id, orders, book, listed, locals, fault, reports>>

\* sellOrders/buyOrders: the local copy of the order, by selectOrder.
SelectOwn(t) ==
  /\ pc[t] = "select"
  /\ orders[oid[t]] # NoOrder
  /\ mine' = [mine EXCEPT ![t] = orders[oid[t]]]
  /\ cnt' = [cnt EXCEPT ![t] = 0]
  /\ Goto(t, "scan")
  /\ UNCHANGED <<id, orders, book, listed, mutex, oid, resting, fault, reports>>

\* One pass of the loop that trades: two FILL reports and alterOrder of the
\* resting order.  The order being matched is altered only after the loop.
Fill(t, r) ==
  /\ pc[t] = "scan"
  /\ StopsAt(t, r)
  /\ orders[r] # NoOrder
  /\ LET n == Least(orders[r].qty, mine[t].qty - cnt[t])
     IN  /\ cnt' = [cnt EXCEPT ![t] = @ + n]
         /\ orders' = [orders EXCEPT ![r].qty = @ - n]
         /\ filled' = [filled EXCEPT ![oid[t]] = @ + n, ![r] = @ + n]
         /\ leave' = [leave EXCEPT ![oid[t]] = mine[t].qty - cnt[t] - n,
                                   ![r] = orders[r].qty - n]
         /\ Goto(t, IF orders[r].qty = n THEN "retire" ELSE "scan")
  /\ resting' = [resting EXCEPT ![t] = r]
  /\ UNCHANGED <<id, book, listed, mutex, oid, mine, fault,
                 placed, cancels, cancelLeave>>

\* Faulty variant: the exhausted order stays in its set.
RetireUnbookless(t) ==
  /\ pc[t] = "retire"
  /\ orders' = [orders EXCEPT ![resting[t]] = NoOrder]
  /\ Goto(t, "scan")
  /\ UNCHANGED <<id, book, listed, mutex, locals, fault, reports>>

\* The resting order is exhausted: out of the set, then out of the table.
Retire(t) ==
  /\ pc[t] = "retire"
  /\ book' = [book EXCEPT ![mine[t].stock][Opp(mine[t].dir)] = @ \ {resting[t]}]
  /\ orders' = [orders EXCEPT ![resting[t]] = NoOrder]
  /\ Goto(t, "scan")
  /\ UNCHANGED <<id, listed, mutex, locals, fault, reports>>

\* Faulty variant: what has been traded is not taken off the order.
EndScanUncounted(t) ==
  /\ pc[t] = "scan"
  /\ ~\E r \in Opposite(t) : StopsAt(t, r)
  /\ orders[oid[t]] # NoOrder
  /\ orders' = [orders EXCEPT ![oid[t]] = [mine[t] EXCEPT !.price = Repriced(mine[t])]]
  /\ Unlock(t, Opp(mine[t].dir))
  /\ Goto(t, "lockOwn")
  /\ UNCHANGED <<id, book, listed, locals, fault, reports>>

\* Faulty variant: a MARKET order keeps its price.
EndScanUnpriced(t) ==
  /\ pc[t] = "scan"
  /\ ~\E r \in Opposite(t) : StopsAt(t, r)
  /\ orders[oid[t]] # NoOrder
  /\ orders' = [orders EXCEPT ![oid[t]] = [mine[t] EXCEPT !.qty = @ - cnt[t]]]
  /\ Unlock(t, Opp(mine[t].dir))
  /\ Goto(t, "lockOwn")
  /\ UNCHANGED <<id, book, listed, locals, fault, reports>>

\* The loop is over: alterOrder of the order itself, and the opposite set is
\* unlocked.  A MARKET order takes the market price here.
EndScan(t) ==
  /\ pc[t] = "scan"
  /\ ~\E r \in Opposite(t) : StopsAt(t, r)
  /\ orders[oid[t]] # NoOrder
  /\ orders' = [orders EXCEPT ![oid[t]] =
                  [mine[t] EXCEPT !.qty = @ - cnt[t],
                                  !.price = Repriced(mine[t])]]
  /\ Unlock(t, Opp(mine[t].dir))
  /\ Goto(t, "lockOwn")
  /\ UNCHANGED <<id, book, listed, locals, fault, reports>>

\* The order's own side is locked and what is left of it is read.
LockOwn(t) ==
  /\ pc[t] = "lockOwn"
  /\ Unlocked(t, mine[t].dir)
  /\ orders[oid[t]] # NoOrder
  /\ Lock(t, mine[t].dir)
  /\ Goto(t, IF orders[oid[t]].qty > 0 THEN "rest" ELSE "drop")
  /\ UNCHANGED <<id, orders, book, listed, locals, fault, reports>>

\* addOrderToSell/addOrderToBuy.
Rest(t) ==
  /\ pc[t] = "rest"
  /\ StocksReadable
  /\ book' = [book EXCEPT ![mine[t].stock][mine[t].dir] = @ \cup {oid[t]}]
  /\ Unlock(t, mine[t].dir)
  /\ Goto(t, "idle")
  /\ UNCHANGED <<id, orders, listed, locals, fault, reports>>

\* Nothing is left of the order: deleteOrder.
Drop(t) ==
  /\ pc[t] = "drop"
  /\ orders' = [orders EXCEPT ![oid[t]] = NoOrder]
  /\ Unlock(t, mine[t].dir)
  /\ Goto(t, "idle")
  /\ UNCHANGED <<id, book, listed, locals, fault, reports>>

\* createOrder, from the new number to the ORDER_ACCEPT report.
CreateOrder(t) ==
  \/ InsertOrder(t)
  \/ FindStock(t) \/ MissStock(t)
  \/ BeginInsertStock(t) \/ SkipInsertStock(t) \/ EndInsertStock(t)

\* sellOrders and buyOrders.
MatchOrder(t) ==
  \/ SelectOwn(t)
  \/ \E r \in OrderId : Fill(t, r)
  \/ Retire(t)
  \/ EndScan(t)

\* processNewOrder, once the request is found legal.
ProcessNewOrder(t) ==
  \/ CreateOrder(t)
  \/ SkipMatching(t) \/ LockOpposite(t) \/ MatchOrder(t)
  \/ LockOwn(t) \/ Rest(t) \/ Drop(t)

-----------------------------------------------------------------------------
(* processCancelOrder and processQueryOrder *)

\* isExistAndGetOrder fails: a CANCEL_REJECT report and nothing else.
RejectCancel(t, i) ==
  /\ pc[t] = "idle"
  /\ orders[i] = NoOrder
  /\ UNCHANGED vars

\* isExistAndGetOrder copies the order before its set is locked.
CancelLookup(t, i) ==
  /\ pc[t] = "idle"
  /\ orders[i] # NoOrder
  /\ oid' = [oid EXCEPT ![t] = i]
  /\ mine' = [mine EXCEPT ![t] = orders[i]]
  /\ Goto(t, "cancelLock")
  /\ UNCHANGED <<id, orders, book, listed, mutex, cnt, resting, fault, reports>>

\* deleteOrder finds that the order is gone: CANCEL_REJECT.
CancelMiss(t) ==
  /\ pc[t] = "cancelLock"
  /\ mine[t].stock \in listed
  /\ Unlocked(t, mine[t].dir)
  /\ orders[oid[t]] = NoOrder
  /\ Goto(t, "idle")
  /\ UNCHANGED <<id, orders, book, listed, mutex, locals, fault, reports>>

\* Faulty variant: the order is not looked up again once its set is locked.
CancelEraseBlind(t) ==
  /\ pc[t] = "cancelLock"
  /\ mine[t].stock \in listed
  /\ Unlocked(t, mine[t].dir)
  /\ orders' = [orders EXCEPT ![oid[t]] = NoOrder]
  /\ Lock(t, mine[t].dir)
  /\ Goto(t, "cancelUnbook")
  /\ UNCHANGED <<id, book, listed, locals, fault, reports>>

\* Faulty variant: the order is looked up but not deleted.
CancelEraseless(t) ==
  /\ pc[t] = "cancelLock"
  /\ mine[t].stock \in listed
  /\ Unlocked(t, mine[t].dir)
  /\ orders[oid[t]] # NoOrder
  /\ Lock(t, mine[t].dir)
  /\ Goto(t, "cancelUnbook")
  /\ UNCHANGED <<id, orders, book, listed, locals, fault, reports>>

\* deleteOrder under the mutex of the order's own side.
CancelErase(t) ==
  /\ pc[t] = "cancelLock"
  /\ mine[t].stock \in listed
  /\ Unlocked(t, mine[t].dir)
  /\ orders[oid[t]] # NoOrder
  /\ orders' = [orders EXCEPT ![oid[t]] = NoOrder]
  /\ Lock(t, mine[t].dir)
  /\ Goto(t, "cancelUnbook")
  /\ UNCHANGED <<id, book, listed, locals, fault, reports>>

\* Faulty variant: the mutex is never given back.
CancelUnbookLocked(t) ==
  /\ pc[t] = "cancelUnbook"
  /\ StocksReadable
  /\ book' = [book EXCEPT ![mine[t].stock][mine[t].dir] = @ \ {oid[t]}]
  /\ cancels' = [cancels EXCEPT ![oid[t]] = @ + 1]
  /\ cancelLeave' = [cancelLeave EXCEPT ![oid[t]] = mine[t].qty]
  /\ Goto(t, "idle")
  /\ UNCHANGED <<id, orders, listed, mutex, locals, fault, placed, filled, leave>>

\* delOrderFromSell/delOrderFromBuy and the CANCELED report, filled in from
\* the copy made by isExistAndGetOrder.
CancelUnbook(t) ==
  /\ pc[t] = "cancelUnbook"
  /\ StocksReadable
  /\ book' = [book EXCEPT ![mine[t].stock][mine[t].dir] = @ \ {oid[t]}]
  /\ cancels' = [cancels EXCEPT ![oid[t]] = @ + 1]
  /\ cancelLeave' = [cancelLeave EXCEPT ![oid[t]] = mine[t].qty]
  /\ Unlock(t, mine[t].dir)
  /\ Goto(t, "idle")
  /\ UNCHANGED <<id, orders, listed, locals, fault, placed, filled, leave>>

ProcessCancelOrder(t) == CancelMiss(t) \/ CancelErase(t) \/ CancelUnbook(t)

\* What processQueryOrder answers: every order of the table, with what is left
\* of it.  It changes nothing.
QueryReport == [i \in {j \in OrderId : orders[j] # NoOrder} |-> orders[i]]

QueryOrders(t) == pc[t] = "idle" /\ UNCHANGED vars

-----------------------------------------------------------------------------
(* The ways the process dies *)

\* The order that the next table lookup by orders.at() of thread t asks for.
LookedUp(t) ==
  CASE pc[t] = "select" -> {oid[t]}
    [] pc[t] = "scan" -> LET next == {r \in Opposite(t) : StopsAt(t, r)}
                         IN  IF next = {} THEN {oid[t]} ELSE next
    [] pc[t] = "lockOwn" /\ Unlocked(t, mine[t].dir) -> {oid[t]}
    [] OTHER -> {}

\* orders.at() throws std::out_of_range; nothing catches it, so the process
\* is terminated.
Throw(t) ==
  /\ \E i \in LookedUp(t) : orders[i] = NoOrder
  /\ fault' = "out_of_range"
  /\ UNCHANGED <<id, orders, book, listed, mutex, pc, locals, reports>>

\* stock_mutex[stockID] is read with no lock; while another thread is inserting
\* into that hash table the read may fail (or, by luck, work: the other actions).
RaceOnStockMutex(t) ==
  /\ pc[t] \in {"lockOpp", "lockOwn", "cancelLock"}
  /\ ~StocksReadable
  /\ fault' = "data_race"
  /\ UNCHANGED <<id, orders, book, listed, mutex, pc, locals, reports>>

\* alterOrder writes an order under the shared lock, so another thread may be
\* reading it: isExistAndGetOrder for a cancellation, getAllOrders for a query.
RaceOnAlter(t) ==
  /\ pc[t] = "idle"
  /\ \E u \in Threads \ {t} :
       pc[u] = "scan" /\ \E i \in LookedUp(u) : orders[i] # NoOrder
  /\ fault' = "data_race"
  /\ UNCHANGED <<id, orders, book, listed, mutex, pc, locals, reports>>

\* A cancellation of an order whose stock has no mutexes yet: operator[] makes
\* up a pair of null pointers and the first of them is locked.
NullMutex(t) ==
  /\ pc[t] = "cancelLock"
  /\ mine[t].stock \notin listed
  /\ fault' = "null_mutex"
  /\ UNCHANGED <<id, orders, book, listed, mutex, pc, locals, reports>>

Terminated == fault # "none" /\ UNCHANGED vars

-----------------------------------------------------------------------------
(* Specification *)

Init ==
  /\ id = 0
  /\ orders = [i \in OrderId |-> NoOrder]
  /\ book = [s \in Stocks |-> [d \in Side |-> {}]]
  /\ listed = {}
  /\ mutex = [s \in Stocks |-> [d \in Side |-> Free]]
  /\ pc = [t \in Threads |-> "idle"]
  /\ oid = [t \in Threads |-> 0]
  /\ mine = [t \in Threads |-> NoOrder]
  /\ cnt = [t \in Threads |-> 0]
  /\ resting = [t \in Threads |-> 0]
  /\ fault = "none"
  /\ placed = [i \in OrderId |-> NoOrder]
  /\ filled = [i \in OrderId |-> 0]
  /\ leave = [i \in OrderId |-> 0]
  /\ cancels = [i \in OrderId |-> 0]
  /\ cancelLeave = [i \in OrderId |-> 0]

\* A request arrives at an idle handler thread.
Arrive(t) ==
  \/ \E req \in Requests : RejectOrder(t, req) \/ TakeNumber(t, req)
  \/ \E i \in OrderId : RejectCancel(t, i) \/ CancelLookup(t, i)
  \/ QueryOrders(t)
  \/ RaceOnAlter(t)

\* A handler thread goes on with the request it has.
Proceed(t) ==
  \/ ProcessNewOrder(t)
  \/ ProcessCancelOrder(t)
  \/ Throw(t) \/ RaceOnStockMutex(t) \/ NullMutex(t)

Next ==
  \/ fault = "none" /\ \E t \in Threads : Arrive(t) \/ Proceed(t)
  \/ Terminated

Spec == Init /\ [][Next]_vars

\* The operating system keeps every thread that can run running.
FairSpec ==
  Spec /\ \A t \in Threads : WF_vars(fault = "none" /\ Proceed(t))

-----------------------------------------------------------------------------
(* Safety *)

\* The program counters at which a thread holds the mutex of the opposite set,
\* the mutex of the order's own set, and has its new order in the table.
HoldsOpposite == {"select", "scan", "retire"}
HoldsOwn      == {"rest", "drop", "cancelUnbook"}
Creating      == {"list", "insertStock", "inserting"}
Matching      == {"lockOpp", "select", "scan", "retire", "lockOwn", "rest", "drop"}
Canceling     == {"cancelLock", "cancelUnbook"}

\* Order i is being processed by the thread that created it.
InFlight(i) == \E t \in Threads : pc[t] \in Creating \cup Matching /\ oid[t] = i

\* Order i is out of the table and its CANCELED report is on its way.
BeingCanceled(i) == \E t \in Threads : pc[t] = "cancelUnbook" /\ oid[t] = i

\* Every variable has its type.
TypeOK ==
  /\ id \in 0 .. MaxOrders
  /\ orders \in [OrderId -> Order \cup {NoOrder}]
  /\ book \in [Stocks -> [Side -> SUBSET OrderId]]
  /\ listed \subseteq Stocks
  /\ mutex \in [Stocks -> [Side -> Threads \cup {Free}]]
  /\ pc \in [Threads -> {"idle", "insert"} \cup Creating \cup Matching \cup Canceling]
  /\ oid \in [Threads -> 0 .. MaxOrders]
  /\ mine \in [Threads -> Order \cup {NoOrder}]
  /\ cnt \in [Threads -> Nat]
  /\ resting \in [Threads -> 0 .. MaxOrders]
  /\ fault \in {"none", "out_of_range", "data_race", "null_mutex"}
  /\ placed \in [OrderId -> Order \cup {NoOrder}]
  /\ filled \in [OrderId -> Nat]
  /\ leave \in [OrderId -> Nat]
  /\ cancels \in [OrderId -> Nat]
  /\ cancelLeave \in [OrderId -> Nat]

\* The mutex of a resting set belongs to exactly the thread that is inside one
\* of the regions processNewOrder and processCancelOrder protect with it: no
\* two threads match against, rest in or cancel from the same set at once.
LockInv ==
  \A t \in Threads, s \in Stocks, d \in Side :
    mutex[s][d] = t <=>
      /\ pc[t] \in HoldsOpposite \cup HoldsOwn
      /\ mine[t].stock = s
      /\ d = IF pc[t] \in HoldsOwn THEN mine[t].dir ELSE Opp(mine[t].dir)

\* Whatever a resting set lists is an order of that stock and side that is in
\* the table with something left of it, but for the one its mutex's holder is
\* taking out: the `at` of a matching loop finds every resting order.
BookIsLive ==
  \A s \in Stocks, d \in Side : \A i \in book[s][d] :
    \/ /\ orders[i] # NoOrder
       /\ orders[i].stock = s /\ orders[i].dir = d
       /\ orders[i].qty > 0 \/ \E t \in Threads : pc[t] = "retire" /\ resting[t] = i
    \/ BeingCanceled(i)

\* Every order in the table is in its resting set or still on its way there: no
\* interleaving of matching, resting and cancelling strands one in the table.
NoOrphan ==
  \A i \in OrderId :
    orders[i] # NoOrder =>
      i \in book[orders[i].stock][orders[i].dir] \/ InFlight(i)

\* An order leaves the table only by being filled completely or cancelled.
NoLostOrder ==
  \A i \in OrderId :
    placed[i] # NoOrder /\ orders[i] = NoOrder =>
      filled[i] = placed[i].qty \/ cancels[i] > 0 \/ BeingCanceled(i)

\* Order i is being matched: what it trades is in `cnt` and not yet in the table.
Scanning(t) == pc[t] \in {"scan", "retire"}

\* The FILL reports of an order never sum to more than it was placed for, the
\* latest leaveQty is what they leave of it, and so is its entry in the table
\* as soon as its own matching is over.
FillsAddUp ==
  \A i \in OrderId :
    placed[i] # NoOrder =>
      /\ filled[i] <= placed[i].qty
      /\ \/ leave[i] = placed[i].qty - filled[i]
         \/ \E t \in Threads : pc[t] \in Creating /\ oid[t] = i
      /\ \A t \in Threads : Scanning(t) /\ oid[t] = i => cnt[t] = filled[i]
      /\ orders[i] # NoOrder =>
           IF \E t \in Threads : Scanning(t) /\ oid[t] = i
           THEN orders[i].qty = placed[i].qty
           ELSE orders[i].qty = placed[i].qty - filled[i]

\* A CANCELED report repeats the copy isExistAndGetOrder made before the set was
\* locked: it may miss the trades in between, but it never says less than what
\* is left of the order, nor more than it was placed for.
CanceledLeave ==
  \A i \in OrderId :
    cancels[i] > 0 =>
      /\ placed[i].qty - filled[i] <= cancelLeave[i]
      /\ cancelLeave[i] <= placed[i].qty

\* The reports of every order agree with its entry in the table.
Accounting == FillsAddUp /\ CanceledLeave

\* Two threads that cancel one order, or one that cancels what another is
\* filling: only one CANCELED report is ever produced for it.
CanceledOnce == \A i \in OrderId : cancels[i] <= 1

\* The only order that `at` fails to find is the thread's own, cancelled by
\* another thread before it came to rest; the only mutexes that are missing are
\* those of a stock that a thread in createOrder has yet to insert; and two
\* threads meet in a table without its lock only while one is in insertStock and
\* the other reads stock_mutex, or one alters an order in a matching loop and the
\* other takes a request that reads it.  So the process never dies of a resting
\* order, nor with a single thread.
FaultOnlyInFlight ==
  /\ fault = "out_of_range" =>
       \E t \in Threads :
         /\ pc[t] \in {"select", "scan", "lockOwn"}
         /\ orders[oid[t]] = NoOrder
         /\ cancels[oid[t]] > 0 \/ BeingCanceled(oid[t])
  /\ fault = "null_mutex" =>
       \E t, u \in Threads :
         /\ t # u
         /\ pc[t] = "cancelLock" /\ pc[u] \in Creating
         /\ oid[t] = oid[u]
  /\ fault = "data_race" =>
       \E t, u \in Threads :
         /\ t # u
         /\ \/ pc[u] = "inserting" /\ pc[t] \in {"lockOpp", "lockOwn", "cancelLock"}
            \/ pc[u] = "scan" /\ pc[t] = "idle"

\* Once an order at rest has been reported CANCELED nothing more of it is sold
\* or bought, and it does not come back.
CanceledIsFinal ==
  [][\A i \in OrderId :
       cancels[i] > 0 /\ ~InFlight(i) =>
         filled'[i] = filled[i] /\ orders'[i] = NoOrder]_vars

-----------------------------------------------------------------------------
(* Safety with one handler thread *)

\* The process never dies: with a single thread no order is in flight when a
\* cancellation arrives and no table is read while it is being changed.
NoFault == fault = "none"

Quiet == \A t \in Threads : pc[t] = "idle"

\* Matching is exhaustive: between requests, two resting orders can trade with
\* each other only if the later one is a MARKET order, whose price is changed
\* after it has been matched.
Uncrossed ==
  Quiet =>
    \A s \in Stocks : \A i \in book[s]["SELL"], j \in book[s]["BUY"] :
      Compatible(orders[i], orders[j]) =>
        orders[IF i < j THEN j ELSE i].kind = "MARKET"

\* A query between requests shows each order with what the last report its
\* client got said is left of it, and never an order that was cancelled or filled;
\* the leaveQty of a CANCELED report is what the FILL reports have left.
AnswersAgree ==
  /\ Quiet =>
       \A i \in DOMAIN QueryReport :
         /\ QueryReport[i].qty = leave[i]
         /\ leave[i] > 0
         /\ cancels[i] = 0
  /\ \A i \in OrderId :
       cancels[i] > 0 => filled[i] + cancelLeave[i] = placed[i].qty

\* A resting MARKET order is priced at the market price, as the comments of
\* sellOrders and buyOrders say.
MarketPriced ==
  \A s \in Stocks, d \in Side : \A i \in book[s][d] :
    orders[i] # NoOrder /\ orders[i].kind = "MARKET" =>
      orders[i].price = MarketPrice

-----------------------------------------------------------------------------
(* Liveness *)

\* A thread that has taken a request finishes it, unless the process dies: no
\* thread waits for ever on the mutexes of the resting sets.
RequestsComplete ==
  \A t \in Threads : pc[t] # "idle" ~> pc[t] = "idle" \/ fault # "none"

=============================================================================
