----------------------------- MODULE SyncMarket -----------------------------
(***************************************************************************)
(* The server of OrderProcessSystem_v_2: OrderServiceImpl, where gRPC runs *)
(* every call in a thread of its own, and the TradingMarket it shares.      *)
(* This market reports trades at once, to the stream of either order, and  *)
(* its hash tables have no lock of their own.                              *)
(*                                                                         *)
(* An action is a region of the code under the locks it takes.  That is    *)
(* one outcome of threads that overlap; where they touch one hash table or *)
(* one stream with no lock in common, the other is that the process dies.  *)
(*                                                                         *)
(* The request and order records, the price test and the repricing are the *)
(* same text in this version as in async_v_2, and are taken from Orders.   *)
(***************************************************************************)
EXTENDS Orders, FiniteSets

CONSTANTS
  Sessions,     \* PushNewOrder calls; each has a thread and a stream
  Cancelers,    \* threads that run PushCancelOrder calls
  NoStream      \* no entry in orderID_stream

Threads == Sessions \cup Cancelers

ASSUME SyncAssumption ==
  /\ Sessions \cap Cancelers = {}
  /\ NoStream \notin Sessions
  /\ NoOrder \notin Request

VARIABLES
  id,        \* the last order number given out
  orders,    \* orders[i]: the table entry of order i, or NoOrder
  book,      \* book[s][d]: the resting orders of a stock and side
  held,      \* the stocks that have a container in sell_buy_containers
  listed,    \* the stocks that have a pair of mutexes in stock_mutex
  streams,   \* streams[i]: orderID_stream, the session that gets the reports of i
  pc,        \* where each thread is
  oid,       \* local orderID
  mine,      \* the request, or the order copied by a cancellation
  cnt,       \* local cnt: how much of the order this matching has traded
  fault      \* how the process died, or "none"

\* What has been reported, and whether threads have overlapped; no action reads
\* these.
VARIABLES
  placed,      \* placed[i]: order i as it was accepted
  filled,      \* filled[i]: the sum of fillQty over the FILL reports of i
  told,        \* told[i]: leaveQty of the latest report written for i
  cancels,     \* cancels[i]: CANCELED reports for i
  overlapped   \* two requests have been under way at once

locals  == <<oid, mine, cnt>>
history == <<placed, filled, told, cancels, overlapped>>
vars    == <<id, orders, book, held, listed, streams, pc, locals, fault, history>>

AnyStock == Stocks \cup {NoStock}

-----------------------------------------------------------------------------
(* Locks, tables and streams *)

\* The mutexes the next step of a thread runs under.
Locks(t) ==
  CASE pc[t] \in {"create", "list"} -> {<<"orderID">>}
    [] pc[t] \in {"lockOpp", "match", "scan"} -> {<<mine[t].stock, Opp(mine[t].dir)>>}
    [] pc[t] = "rest" -> {<<mine[t].stock, mine[t].dir>>}
    [] pc[t] = "lookup" -> {<<"cancel">>}
    [] pc[t] = "erase" -> {<<"cancel">>, <<mine[t].stock, mine[t].dir>>}
    [] OTHER -> {}

\* Those of them it has already.
Held(t) ==
  CASE pc[t] \in {"list", "match", "scan"} -> Locks(t)
    [] pc[t] = "erase" -> {<<"cancel">>}
    [] OTHER -> {}

\* Thread t is at l and gets the locks it needs there.
At(t, l) ==
  /\ fault = "none"
  /\ pc[t] = l
  /\ \A u \in Threads \ {t} : Locks(t) \cap Held(u) = {}

\* The entry that operator[] makes for an order that is not in the table.
Ghost == [client |-> 0, stock |-> NoStock, dir |-> "SELL", kind |-> "LIMIT",
          qty |-> 0, price |-> 0]

Goto(t, l) == pc' = [pc EXCEPT ![t] = l]

\* The call is over or waits for the next request; its locals are gone.
Return(t) ==
  /\ Goto(t, "idle")
  /\ oid' = [oid EXCEPT ![t] = 0]
  /\ mine' = [mine EXCEPT ![t] = Ghost]
  /\ cnt' = [cnt EXCEPT ![t] = 0]

\* The resting order at which the scan of thread t stops next, if any.
Stops(t) ==
  LET fits == {r \in book[mine[t].stock][Opp(mine[t].dir)] :
                 orders[r] # NoOrder /\ Compatible(orders[oid[t]], orders[r])}
  IN  {r \in fits : /\ cnt[t] < orders[oid[t]].qty
                    /\ \A q \in fits : r <= q}

\* The containers: an entry is made for a stock that has none.
Holds(t) == IF mine[t].stock \in held THEN {} ELSE {"containers"}

\* The hash tables the next step of a thread changes, and the streams it writes.
Writes(t) ==
  CASE pc[t] = "create" -> {"orders"}
    [] pc[t] = "list" -> IF mine[t].stock \in listed THEN {} ELSE {"stocks"}
    [] pc[t] = "reject" -> {t}
    [] pc[t] = "stream" -> {"streams", t}
    [] pc[t] = "scan" /\ orders[oid[t]] # NoOrder /\ Stops(t) # {} ->
         {t} \cup {streams[r] : r \in Stops(t)}
    [] pc[t] \in {"match", "rest"} /\ orders[oid[t]] = NoOrder -> {"orders"}
    [] pc[t] = "rest" /\ orders[oid[t]] # NoOrder ->
         IF orders[oid[t]].qty > 0 THEN Holds(t) ELSE {}
    [] pc[t] = "erase" -> {"orders", "streams"} \cup Holds(t)
    [] OTHER -> {}

\* The hash tables it reads.
Reads(t) ==
  CASE pc[t] = "lockOpp" -> {"stocks", "containers"}
    [] pc[t] = "match" -> {"orders", "containers"}
    [] pc[t] = "scan" -> {"orders", "streams"}
    [] pc[t] = "rest" -> {"orders", "stocks", "containers"}
    [] pc[t] = "lookup" -> {"orders"}
    [] pc[t] = "erase" -> {"stocks", "containers"}
    [] OTHER -> {}

-----------------------------------------------------------------------------
(* PushNewOrder and processNewOrder *)

\* checkRequest of this version does not look at the stock.
Legal(req) ==
  /\ req.client > 0
  /\ req.dir \in Side
  /\ req.qty > 0
  /\ req.price > 0
  /\ req.kind \in Kind

Busy(t) == pc[t] \notin {"idle", "ended"}

Entry(i) == IF orders[i] = NoOrder THEN Ghost ELSE orders[i]

Overlap(t) == overlapped' = (overlapped \/ \E u \in Threads \ {t} : Busy(u))

\* stream->Read gets a request; a legal one while the table has room.
Receive(t, req) ==
  /\ At(t, "idle")
  /\ Legal(req) => id + Cardinality({u \in Threads : pc[u] = "create"}) < MaxOrders
  /\ mine' = [mine EXCEPT ![t] = req]
  /\ Goto(t, IF Legal(req) THEN "create" ELSE "reject")
  /\ Overlap(t)
  /\ UNCHANGED <<id, orders, book, held, listed, streams, oid, cnt, fault,
                 placed, filled, told, cancels>>

\* stream->Read fails: PushNewOrder returns, and its stream is gone.
End(t) ==
  /\ At(t, "idle")
  /\ Goto(t, "ended")
  /\ UNCHANGED <<id, orders, book, held, listed, streams, locals, fault, history>>

\* The ORDER_REJECT report is written.
RejectOrder(t) ==
  /\ At(t, "reject")
  /\ Return(t)
  /\ UNCHANGED <<id, orders, book, held, listed, streams, fault, history>>

\* createOrder: the number and the table entry.
CreateOrder(t) ==
  /\ At(t, "create")
  /\ id' = id + 1
  /\ oid' = [oid EXCEPT ![t] = id + 1]
  /\ orders' = [orders EXCEPT ![id + 1] = mine[t]]
  /\ placed' = [placed EXCEPT ![id + 1] = mine[t]]
  /\ Goto(t, "list")
  /\ UNCHANGED <<book, held, listed, streams, mine, cnt, fault,
                 filled, told, cancels, overlapped>>

\* Faulty variant: the test for the stock is inverted, and it gets no mutexes.
ListStockless(t) ==
  /\ At(t, "list")
  /\ listed' = listed \cup {}
  /\ Goto(t, "stream")
  /\ UNCHANGED <<id, orders, book, held, streams, locals, fault, history>>

\* createOrder, still under orderID_mutex: the mutexes of the stock.
ListStock(t) ==
  /\ At(t, "list")
  /\ listed' = listed \cup {mine[t].stock}
  /\ Goto(t, "stream")
  /\ UNCHANGED <<id, orders, book, held, streams, locals, fault, history>>

\* The order's stream is registered and the ORDER_ACCEPT report written.
Accept(t) ==
  /\ At(t, "stream")
  /\ streams' = [streams EXCEPT ![oid[t]] = t]
  /\ told' = [told EXCEPT ![oid[t]] = mine[t].qty]
  /\ Goto(t, "lockOpp")
  /\ UNCHANGED <<id, orders, book, held, listed, locals, fault,
                 placed, filled, cancels, overlapped>>

\* Faulty variant: the set of the order's own side is tested.
LockOwnSide(t) ==
  /\ At(t, "lockOpp")
  /\ Goto(t, IF book[mine[t].stock][mine[t].dir] = {} THEN "rest" ELSE "match")
  /\ UNCHANGED <<id, orders, book, held, listed, streams, locals, fault, history>>

\* The opposite set is locked; matching follows if there is anything in it.
LockOpposite(t) ==
  /\ At(t, "lockOpp")
  /\ Goto(t, IF book[mine[t].stock][Opp(mine[t].dir)] = {} THEN "rest" ELSE "match")
  /\ UNCHANGED <<id, orders, book, held, listed, streams, locals, fault, history>>

\* sellOrders/buyOrders take a reference to the order in the table, where
\* operator[] makes an entry if it has been cancelled.
MatchOrder(t) ==
  /\ At(t, "match")
  /\ orders' = [orders EXCEPT ![oid[t]] = Entry(oid[t])]
  /\ cnt' = [cnt EXCEPT ![t] = 0]
  /\ Goto(t, "scan")
  /\ UNCHANGED <<id, book, held, listed, streams, oid, mine, fault, history>>

\* One pass of the loop that trades: the resting order is altered, both sides
\* are told, and an exhausted order leaves its set but not the table.
Fill(t, r) ==
  /\ At(t, "scan")
  /\ orders[oid[t]] # NoOrder
  /\ r \in Stops(t)
  /\ pc[streams[r]] # "ended"
  /\ LET o == orders[oid[t]]
         n == Least(orders[r].qty, o.qty - cnt[t])
     IN  /\ cnt' = [cnt EXCEPT ![t] = @ + n]
         /\ orders' = [orders EXCEPT ![r].qty = @ - n]
         /\ book' = IF orders[r].qty = n
                    THEN [book EXCEPT ![mine[t].stock][Opp(mine[t].dir)] = @ \ {r}]
                    ELSE book
         /\ filled' = [filled EXCEPT ![oid[t]] = @ + n, ![r] = @ + n]
         /\ told' = [told EXCEPT ![oid[t]] = o.qty - cnt[t] - n,
                                 ![r] = orders[r].qty - n]
  /\ UNCHANGED <<id, held, listed, streams, pc, oid, mine, fault,
                 placed, cancels, overlapped>>

\* Faulty variant: what has been traded is not taken off the order.
EndScanUncounted(t) ==
  /\ At(t, "scan")
  /\ orders[oid[t]] # NoOrder
  /\ Stops(t) = {}
  /\ orders' = [orders EXCEPT ![oid[t]] =
                  [orders[oid[t]] EXCEPT !.price = Repriced(orders[oid[t]])]]
  /\ Goto(t, "rest")
  /\ UNCHANGED <<id, book, held, listed, streams, locals, fault, history>>

\* The loop is over: the order itself is altered through the reference, and the
\* opposite set is unlocked.
EndScan(t) ==
  /\ At(t, "scan")
  /\ orders[oid[t]] # NoOrder
  /\ Stops(t) = {}
  /\ orders' = [orders EXCEPT ![oid[t]] =
                  [orders[oid[t]] EXCEPT !.qty = @ - cnt[t],
                                         !.price = Repriced(orders[oid[t]])]]
  /\ Goto(t, "rest")
  /\ UNCHANGED <<id, book, held, listed, streams, locals, fault, history>>

\* Under the mutex of its own side, what is left of the order comes to rest.
Rest(t) ==
  /\ At(t, "rest")
  /\ orders' = [orders EXCEPT ![oid[t]] = Entry(oid[t])]
  /\ book' = IF Entry(oid[t]).qty > 0
             THEN [book EXCEPT ![mine[t].stock][mine[t].dir] = @ \cup {oid[t]}]
             ELSE book
  /\ held' = IF Entry(oid[t]).qty > 0 THEN held \cup {mine[t].stock} ELSE held
  /\ Return(t)
  /\ UNCHANGED <<id, listed, streams, fault, history>>

ProcessNewOrder(t) ==
  \/ \E req \in Requests : Receive(t, req)
  \/ End(t) \/ RejectOrder(t)
  \/ CreateOrder(t) \/ ListStock(t) \/ Accept(t)
  \/ LockOpposite(t) \/ MatchOrder(t) \/ (\E r \in OrderId : Fill(t, r)) \/ EndScan(t)
  \/ Rest(t)

-----------------------------------------------------------------------------
(* PushCancelOrder and processCancelOrder *)

ReceiveCancel(t, i) ==
  /\ At(t, "idle")
  /\ oid' = [oid EXCEPT ![t] = i]
  /\ Goto(t, "lookup")
  /\ Overlap(t)
  /\ UNCHANGED <<id, orders, book, held, listed, streams, mine, cnt, fault,
                 placed, filled, told, cancels>>

\* Under cancel_mutex: CANCEL_REJECT, with the report as initReport made it.
RejectCancel(t) ==
  /\ At(t, "lookup")
  /\ orders[oid[t]] = NoOrder
  /\ Return(t)
  /\ UNCHANGED <<id, orders, book, held, listed, streams, fault, history>>

\* The order is copied, and cancel_mutex kept.
CopyOrder(t) ==
  /\ At(t, "lookup")
  /\ orders[oid[t]] # NoOrder
  /\ mine' = [mine EXCEPT ![t] = orders[oid[t]]]
  /\ Goto(t, "erase")
  /\ UNCHANGED <<id, orders, book, held, listed, streams, oid, cnt, fault, history>>

\* Faulty variant: the order stays in its set.
EraseOrderListed(t) ==
  /\ At(t, "erase")
  /\ mine[t].stock \in listed
  /\ UNCHANGED book
  /\ held' = held \cup {mine[t].stock}
  /\ orders' = [orders EXCEPT ![oid[t]] = NoOrder]
  /\ streams' = [streams EXCEPT ![oid[t]] = NoStream]
  /\ cancels' = [cancels EXCEPT ![oid[t]] = @ + 1]
  /\ Return(t)
  /\ UNCHANGED <<id, listed, fault, placed, filled, told, overlapped>>

\* Faulty variant: the order stays in the table.
EraseOrderKept(t) ==
  /\ At(t, "erase")
  /\ mine[t].stock \in listed
  /\ book' = [book EXCEPT ![mine[t].stock][mine[t].dir] = @ \ {oid[t]}]
  /\ held' = held \cup {mine[t].stock}
  /\ UNCHANGED orders
  /\ streams' = [streams EXCEPT ![oid[t]] = NoStream]
  /\ cancels' = [cancels EXCEPT ![oid[t]] = @ + 1]
  /\ Return(t)
  /\ UNCHANGED <<id, listed, fault, placed, filled, told, overlapped>>

\* Under cancel_mutex and the mutex of its side the order leaves its set, the table
\* and orderID_stream; CANCELED is reported.  One step stands for the three: no
\* other cancellation can run between them, a matching loop that could meet the
\* order in its set waits for the mutex, and the one thread left that looks it up,
\* its own, may come before, after or at the same table (Race).
EraseOrder(t) ==
  /\ At(t, "erase")
  /\ mine[t].stock \in listed
  /\ book' = [book EXCEPT ![mine[t].stock][mine[t].dir] = @ \ {oid[t]}]
  /\ held' = held \cup {mine[t].stock}
  /\ orders' = [orders EXCEPT ![oid[t]] = NoOrder]
  /\ streams' = [streams EXCEPT ![oid[t]] = NoStream]
  /\ cancels' = [cancels EXCEPT ![oid[t]] = @ + 1]
  /\ Return(t)
  /\ UNCHANGED <<id, listed, fault, placed, filled, told, overlapped>>

ProcessCancelOrder(t) ==
  \/ \E i \in OrderId : ReceiveCancel(t, i)
  \/ RejectCancel(t) \/ CopyOrder(t) \/ EraseOrder(t)

-----------------------------------------------------------------------------
(* The ways the process dies *)

Die(how) ==
  /\ fault' = how
  /\ UNCHANGED <<id, orders, book, held, listed, streams, pc, locals, history>>

\* stock_mutex[stockID] makes up a pair of null pointers.
NullMutex(t) ==
  /\ At(t, "erase")
  /\ mine[t].stock \notin listed
  /\ Die("null_mutex")

\* The order was cancelled while sellOrders/buyOrders keep a reference to it.
DanglingOrder(t) ==
  /\ At(t, "scan")
  /\ orders[oid[t]] = NoOrder
  /\ Die("dangling_order")

\* The call that submitted the resting order has ended.
DanglingStream(t) ==
  /\ At(t, "scan")
  /\ orders[oid[t]] # NoOrder
  /\ \E r \in Stops(t) : pc[streams[r]] = "ended"
  /\ Die("dangling_stream")

\* Two threads at one hash table or stream with no lock in common.
Race(t, u) ==
  /\ At(t, pc[t]) /\ At(u, pc[u])
  /\ Locks(t) \cap Locks(u) = {}
  /\ Writes(t) \cap (Writes(u) \cup Reads(u)) # {}
  /\ Die("race")

Faulty(t) ==
  \/ NullMutex(t) \/ DanglingOrder(t) \/ DanglingStream(t)
  \/ \E u \in Threads \ {t} : Race(t, u)

-----------------------------------------------------------------------------
(* Specification *)

Init ==
  /\ id = 0
  /\ orders = [i \in OrderId |-> NoOrder]
  /\ book = [s \in AnyStock |-> [d \in Side |-> {}]]
  /\ held = {}
  /\ listed = {}
  /\ streams = [i \in OrderId |-> NoStream]
  /\ pc = [t \in Threads |-> "idle"]
  /\ oid = [t \in Threads |-> 0]
  /\ mine = [t \in Threads |-> Ghost]
  /\ cnt = [t \in Threads |-> 0]
  /\ fault = "none"
  /\ placed = [i \in OrderId |-> NoOrder]
  /\ filled = [i \in OrderId |-> 0]
  /\ told = [i \in OrderId |-> 0]
  /\ cancels = [i \in OrderId |-> 0]
  /\ overlapped = FALSE

Next ==
  \/ \E t \in Sessions : ProcessNewOrder(t)
  \/ \E t \in Cancelers : ProcessCancelOrder(t)
  \/ \E t \in Threads : Faulty(t)

Spec == Init /\ [][Next]_vars

-----------------------------------------------------------------------------
(* Properties *)

TypeOK ==
  /\ id \in 0 .. MaxOrders
  /\ orders \in [OrderId -> Request \cup {NoOrder}]
  /\ book \in [AnyStock -> [Side -> SUBSET OrderId]]
  /\ held \subseteq AnyStock /\ listed \subseteq AnyStock
  /\ streams \in [OrderId -> Sessions \cup {NoStream}]
  /\ pc \in [Threads -> {"idle", "ended", "reject", "create", "list", "stream",
                         "lockOpp", "match", "scan", "rest", "lookup", "erase"}]
  /\ oid \in [Threads -> 0 .. MaxOrders]
  /\ mine \in [Threads -> Request]
  /\ cnt \in [Threads -> Nat]
  /\ fault \in {"none", "null_mutex", "dangling_order", "dangling_stream", "race"}
  /\ placed \in [OrderId -> Request \cup {NoOrder}]
  /\ filled \in [OrderId -> Nat] /\ told \in [OrderId -> Nat]
  /\ cancels \in [OrderId -> Nat]
  /\ overlapped \in BOOLEAN

\* Thread t is between createOrder and Rest of order i.
InFlight(t, i) == t \in Sessions /\ oid[t] = i /\ Busy(t) /\ pc[t] \notin {"reject", "create"}

\* The resting sets and the table, which no common lock keeps together, agree: a
\* resting order is in the table, with something left, and has a stream; an order
\* with something left rests or is on its way there.
BookIsLive ==
  /\ \A s \in AnyStock, d \in Side : \A i \in book[s][d] :
       /\ orders[i] # NoOrder
       /\ orders[i].stock = s /\ orders[i].dir = d /\ orders[i].qty > 0
       /\ streams[i] \in Sessions
  /\ \A i \in OrderId :
       orders[i] # NoOrder /\ orders[i].qty > 0 =>
         \/ i \in book[orders[i].stock][orders[i].dir]
         \/ \E t \in Sessions : InFlight(t, i)

\* No order is overfilled, and one that rests or is exhausted has left what it was
\* placed with less its FILL reports, whatever was cancelled beside it.  Both sides
\* of a trade are told of it at once: what the client of a resting order was told
\* last is what is left of it.  And only requests that overlap can make an order be
\* reported CANCELED twice, the second time as the entry operator[] made up.
Accounting ==
  \A i \in OrderId :
    placed[i] # NoOrder =>
      /\ filled[i] <= placed[i].qty
      /\ orders[i] # NoOrder /\ cancels[i] = 0 /\ ~(\E t \in Sessions : InFlight(t, i)) =>
           orders[i].qty = placed[i].qty - filled[i]
      /\ (\E s \in AnyStock, d \in Side : i \in book[s][d]) => told[i] = orders[i].qty
      /\ cancels[i] > 1 => overlapped

\* Requests served one at a time leave no two LIMIT orders resting that could
\* trade, although matching and resting are two locked regions.
Uncrossed ==
  ~overlapped /\ (\A t \in Threads : ~Busy(t)) =>
    \A s \in AnyStock : \A a \in book[s]["SELL"], b \in book[s]["BUY"] :
      orders[a].kind = "LIMIT" /\ orders[b].kind = "LIMIT" =>
        ~Compatible(orders[a], orders[b])

\* As long as no two requests overlap, the process dies only of a client that has
\* left orders behind.
FaultNeedsOverlap == fault \in {"none", "dangling_stream"} \/ overlapped

\* An order that has been reported CANCELED never trades again and is never in a
\* resting set again, even if it was cancelled before it was matched or rested and
\* its own thread goes on with it: what operator[] makes up in its place has
\* nothing to trade or to rest.
CanceledIsFinal ==
  [][\A i \in OrderId :
       cancels[i] > 0 =>
         /\ filled'[i] = filled[i]
         /\ \A s \in AnyStock, d \in Side : i \notin book'[s][d]]_vars

\* CANCELED means that a cancellation succeeded, says the protocol: an order that
\* is reported CANCELED has not been filled already.
CanceledWasOpen ==
  ~overlapped => \A i \in OrderId : cancels[i] > 0 => filled[i] < placed[i].qty

=============================================================================
