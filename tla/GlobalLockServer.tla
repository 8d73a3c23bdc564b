-------------------------- MODULE GlobalLockServer --------------------------
(***************************************************************************)
(* The first version, OrderProcessSystem: a synchronous server with a      *)
(* thread per call and one mutex around each request, and its clients, each *)
(* with a thread that writes the requests of a file and one that prints the *)
(* reports.                                                                *)
(*                                                                         *)
(* Of a trade only the later of its two orders is told, in the one report  *)
(* that answers its request.  What this version calls CURRENT is the type  *)
(* MARKET here, as in the later ones.                                      *)
(*                                                                         *)
(* gRPC's streams are the environment: each direction holds Window messages *)
(* before a Write has to wait, a client may stop reading, and a connection *)
(* may be lost.                                                            *)
(***************************************************************************)
EXTENDS Orders, SequencesExt

CONSTANTS
  Sessions,   \* the calls of PushNewOrder, a client and a server thread each
  Cancelers,  \* the calls of PushCancelOrder
  Starts,     \* the request files clients may be started with, by session
  Window,     \* bound on the messages on their way in one direction
  MaxFaults,  \* bound on the clients that stall or lose their connection
  Free        \* the owner of process_mutex when nobody has it

Threads == Sessions \cup Cancelers

ASSUME GlobalLockAssumption ==
  /\ Free \notin Threads
  /\ Sessions \cap Cancelers = {}
  /\ NoOrder \notin Request
  /\ \A f \in Starts : DOMAIN f = Sessions /\ \A s \in Sessions : f[s] \in Seq(Requests)
  /\ Window \in Nat \ {0}
  /\ MaxFaults \in Nat

VARIABLES
  id,       \* the last order number given out
  orders,   \* orders[i]: the table entry of order i, or NoOrder
  book,     \* book[s][d]: `sell` and `buy`, the resting orders of a stock
  lock,     \* the owner of process_mutex
  pc,       \* where each server thread is
  oid,      \* local orderID
  mine,     \* the request a session works on
  cnt,      \* local cnt: how much of the order has traded
  report    \* the report of the request, once it is made

\* call[s]: the two directions of the stream of session s, and its client.
\*   file     the requests the client was started with
\*   sent     how many of them its writer thread has written
\*   closed   that thread has called WritesDone and returned
\*   taken    how many of the requests the server thread has read
\*   answers  the reports the server thread has written
\*   printed  how many of them the client's main thread has printed
\*   main     where the main thread is
\*   conn     the connection: "up", "stalled" (the client does not read) or "gone"
VARIABLE call

\* What became of an order; no action reads these.
VARIABLES
  placed,     \* placed[i]: order i as it was accepted
  filled,     \* filled[i]: fillQty of the report that answered it
  withdrawn   \* withdrawn[i]: orderQty of the CANCELED report for it

market  == <<id, orders, book>>
locals  == <<oid, mine, cnt, report>>
history == <<placed, filled, withdrawn>>
vars    == <<market, lock, pc, locals, call, history>>

AnyStock == Stocks \cup {NoStock}

-----------------------------------------------------------------------------
(* Requests and reports *)

\* checkRequest of this version does not look at the stock.
Legal(req) ==
  /\ req.client > 0
  /\ req.dir \in Side
  /\ req.qty > 0
  /\ req.price > 0
  /\ req.kind \in Kind

Blank == [client |-> 0, stock |-> NoStock, dir |-> "SELL", kind |-> "LIMIT",
          qty |-> 0, price |-> 0]

Report(stat, i, total, fill, leave) ==
  [stat |-> stat, order |-> i, qty |-> total, fill |-> fill, leave |-> leave]

\* initReport: the answer to a request until there is another.
Rejected(req) == Report("ORDER_REJECT", 0, req.qty, 0, req.qty)

\* The price a SELL order is matched at: a market order asks the market price,
\* when it comes and when it rests.
Ask(o) == IF o.kind = "LIMIT" THEN o.price ELSE MarketPrice

\* SELL order a and BUY order b can trade; they may be of one client.
Crosses(a, b) == Ask(a) - Minn <= b.price

Matches(o, r) == IF o.dir = "SELL" THEN Crosses(o, r) ELSE Crosses(r, o)

-----------------------------------------------------------------------------
(* The server threads of PushNewOrder *)

At(t, l) == pc[t] = l

Goto(t, l) == pc' = [pc EXCEPT ![t] = l]

\* stream->Read gets a request, and checkRequest has a look at it.
ReadRequest(s) ==
  /\ At(s, "read")
  /\ call[s].taken < call[s].sent
  /\ call' = [call EXCEPT ![s].taken = @ + 1]
  /\ LET req == call[s].file[call[s].taken + 1]
     IN  /\ mine' = [mine EXCEPT ![s] = req]
         /\ report' = [report EXCEPT ![s] = Rejected(req)]
         /\ Goto(s, IF Legal(req) THEN "lock" ELSE "write")
  /\ UNCHANGED <<market, lock, oid, cnt, history>>

\* stream->Read fails, past the last request or without a connection, and
\* PushNewOrder returns.
EndRequests(s) ==
  /\ At(s, "read")
  /\ \/ call[s].closed /\ call[s].taken = call[s].sent
     \/ call[s].conn = "gone"
  /\ Goto(s, "returned")
  /\ UNCHANGED <<market, lock, locals, call, history>>

\* process_mutex is locked; createOrder.
CreateOrder(s) ==
  /\ At(s, "lock") /\ lock = Free
  /\ id < MaxOrders
  /\ lock' = s
  /\ id' = id + 1
  /\ orders' = [orders EXCEPT ![id + 1] = mine[s]]
  /\ placed' = [placed EXCEPT ![id + 1] = mine[s]]
  /\ oid' = [oid EXCEPT ![s] = id + 1]
  /\ cnt' = [cnt EXCEPT ![s] = 0]
  /\ Goto(s, "match")
  /\ UNCHANGED <<book, mine, report, call, filled, withdrawn>>

\* Faulty variant: the loop stops at the first order it cannot trade with.
FitsInFront(s) ==
  LET opposite == book[mine[s].stock][Opp(mine[s].dir)]
  IN  {r \in opposite : /\ cnt[s] < mine[s].qty
                        /\ \A q \in opposite : q <= r => Matches(mine[s], orders[q])}

\* The resting orders the loop of processNewOrder still has to trade with.
Fits(s) ==
  {r \in book[mine[s].stock][Opp(mine[s].dir)] :
     cnt[s] < mine[s].qty /\ Matches(mine[s], orders[r])}

\* One pass of the loop that trades, with the earliest order there is.
Fill(s, r) ==
  /\ At(s, "match")
  /\ r \in Fits(s) /\ \A q \in Fits(s) : r <= q
  /\ LET n    == Least(orders[r].qty, mine[s].qty - cnt[s])
         left == orders[r].qty - n
     IN  /\ cnt' = [cnt EXCEPT ![s] = @ + n]
         /\ orders' = [orders EXCEPT ![r] = IF left = 0 THEN NoOrder
                                            ELSE [@ EXCEPT !.qty = left]]
         /\ book' = [book EXCEPT ![mine[s].stock][Opp(mine[s].dir)] =
                       IF left = 0 THEN @ \ {r} ELSE @]
  /\ UNCHANGED <<id, lock, pc, oid, mine, report, call, history>>

\* Faulty variant: what has been traded is not taken off what rests.
RemainderWhole(s) == IF cnt[s] = mine[s].qty THEN NoOrder ELSE mine[s]

\* What becomes of the order's entry when the loop is over.
Remainder(s) ==
  IF cnt[s] = mine[s].qty THEN NoOrder ELSE [mine[s] EXCEPT !.qty = @ - cnt[s]]

\* Faulty variant: the report leaves the trades out.
AnswerOfNone(s) == Report("ORDER_ACCEPT", oid[s], mine[s].qty, 0, mine[s].qty)

\* The answer to an order: that of a purchase is always FILL.
Answer(s) ==
  Report(IF mine[s].dir = "SELL" THEN "ORDER_ACCEPT" ELSE "FILL",
         oid[s], mine[s].qty, cnt[s], mine[s].qty - cnt[s])

\* The loop is over, or there was nothing to match: the order rests with what is
\* left of it or is deleted, the report is made and process_mutex unlocked.
Settle(s) ==
  /\ At(s, "match")
  /\ Fits(s) = {}
  /\ orders' = [orders EXCEPT ![oid[s]] = Remainder(s)]
  /\ book' = [book EXCEPT ![mine[s].stock][mine[s].dir] =
                IF Remainder(s) = NoOrder THEN @ ELSE @ \cup {oid[s]}]
  /\ report' = [report EXCEPT ![s] = Answer(s)]
  /\ filled' = [filled EXCEPT ![oid[s]] = cnt[s]]
  /\ lock' = Free
  /\ Goto(s, "write")
  /\ UNCHANGED <<id, oid, mine, cnt, call, placed, withdrawn>>

\* stream->Write, with process_mutex free: it waits while the client does not
\* read, and what it returns is not looked at.
WriteReport(s) ==
  /\ At(s, "write")
  /\ \/ /\ call[s].conn = "gone"
        /\ UNCHANGED call
     \/ /\ call[s].conn # "gone" /\ Len(call[s].answers) - call[s].printed < Window
        /\ call' = [call EXCEPT ![s].answers = Append(@, report[s])]
  /\ Goto(s, "read")
  /\ UNCHANGED <<market, lock, locals, history>>

PushNewOrder(s) ==
  \/ ReadRequest(s) \/ EndRequests(s)
  \/ CreateOrder(s) \/ (\E r \in OrderId : Fill(s, r)) \/ Settle(s)
  \/ WriteReport(s)

-----------------------------------------------------------------------------
(* The server threads of PushCancelOrder *)

\* A client asks to cancel order i.
ReceiveCancel(c, i) ==
  /\ At(c, "idle")
  /\ oid' = [oid EXCEPT ![c] = i]
  /\ Goto(c, "lock")
  /\ UNCHANGED <<market, lock, mine, cnt, report, call, history>>

\* Faulty variant: the early return leaves process_mutex locked.
CancelMissLocked(c) ==
  /\ At(c, "lock") /\ lock = Free
  /\ orders[oid[c]] = NoOrder
  /\ lock' = c
  /\ report' = [report EXCEPT ![c] = Report("CANCEL_REJECT", oid[c], 0, 0, 0)]
  /\ Goto(c, "returned")
  /\ UNCHANGED <<market, oid, mine, cnt, call, history>>

\* processCancelOrder finds no such order, and unlocks what it has locked.
CancelMiss(c) ==
  /\ At(c, "lock") /\ lock = Free
  /\ orders[oid[c]] = NoOrder
  /\ report' = [report EXCEPT ![c] = Report("CANCEL_REJECT", oid[c], 0, 0, 0)]
  /\ Goto(c, "returned")
  /\ UNCHANGED <<market, lock, oid, mine, cnt, call, history>>

\* It takes the order out of its set and out of the table.
CancelOrder(c) ==
  /\ At(c, "lock") /\ lock = Free
  /\ orders[oid[c]] # NoOrder
  /\ LET i == oid[c]
         o == orders[i]
     IN  /\ book' = [book EXCEPT ![o.stock][o.dir] = @ \ {i}]
         /\ orders' = [orders EXCEPT ![i] = NoOrder]
         /\ report' = [report EXCEPT ![c] = Report("CANCELED", i, o.qty, 0, 0)]
         /\ withdrawn' = [withdrawn EXCEPT ![i] = o.qty]
  /\ Goto(c, "returned")
  /\ UNCHANGED <<id, lock, oid, mine, cnt, call, placed, filled>>

PushCancelOrder(c) ==
  (\E i \in OrderId : ReceiveCancel(c, i)) \/ CancelMiss(c) \/ CancelOrder(c)

-----------------------------------------------------------------------------
(* The clients of PushNewOrder *)

\* The writer thread: stream->Write, which waits while the server does not read.
WriteRequest(s) ==
  /\ ~call[s].closed /\ call[s].conn # "gone"
  /\ call[s].sent < Len(call[s].file) /\ call[s].sent - call[s].taken < Window
  /\ call' = [call EXCEPT ![s].sent = @ + 1]
  /\ UNCHANGED <<market, lock, pc, locals, history>>

\* It has written all there is, or to no avail: stream->WritesDone.
WritesDone(s) ==
  /\ ~call[s].closed
  /\ call[s].sent = Len(call[s].file) \/ call[s].conn = "gone"
  /\ call' = [call EXCEPT ![s].closed = TRUE]
  /\ UNCHANGED <<market, lock, pc, locals, history>>

\* The main thread: stream->Read and printReport.
PrintReport(s) ==
  /\ call[s].main = "reading" /\ call[s].conn # "stalled"
  /\ call[s].printed < Len(call[s].answers)
  /\ call' = [call EXCEPT ![s].printed = @ + 1]
  /\ UNCHANGED <<market, lock, pc, locals, history>>

\* stream->Read fails: the call is over or the connection is lost.
EndReports(s) ==
  /\ call[s].main = "reading" /\ call[s].conn # "stalled"
  /\ \/ At(s, "returned") /\ call[s].printed = Len(call[s].answers)
     \/ call[s].conn = "gone"
  /\ call' = [call EXCEPT ![s].main = "joining"]
  /\ UNCHANGED <<market, lock, pc, locals, history>>

\* writer.join() returns, Finish gets the status, and the client exits.
Finish(s) ==
  /\ call[s].main = "joining" /\ call[s].closed
  /\ call' = [call EXCEPT ![s].main = "exited"]
  /\ UNCHANGED <<market, lock, pc, locals, history>>

ReadReports(s) == PrintReport(s) \/ EndReports(s) \/ Finish(s)

\* A client stops reading, for good, or loses its connection.
Fail(s) ==
  /\ call[s].conn = "up" /\ call[s].main # "exited"
  /\ Cardinality({u \in Sessions : call[u].conn # "up"}) < MaxFaults
  /\ \E c \in {"stalled", "gone"} : call' = [call EXCEPT ![s].conn = c]
  /\ UNCHANGED <<market, lock, pc, locals, history>>

-----------------------------------------------------------------------------
(* Specification *)

Init ==
  /\ id = 0
  /\ orders = [i \in OrderId |-> NoOrder]
  /\ book = [s \in AnyStock |-> [d \in Side |-> {}]]
  /\ lock = Free
  /\ pc = [t \in Threads |-> IF t \in Sessions THEN "read" ELSE "idle"]
  /\ oid = [t \in Threads |-> 0]
  /\ mine = [s \in Sessions |-> Blank]
  /\ cnt = [s \in Sessions |-> 0]
  /\ report = [t \in Threads |-> Rejected(Blank)]
  /\ \E f \in Starts :
       call = [s \in Sessions |->
                 [file |-> f[s], sent |-> 0, closed |-> FALSE, taken |-> 0,
                  answers |-> <<>>, printed |-> 0, main |-> "reading", conn |-> "up"]]
  /\ placed = [i \in OrderId |-> NoOrder]
  /\ filled = [i \in OrderId |-> 0]
  /\ withdrawn = [i \in OrderId |-> 0]

Next ==
  \/ \E s \in Sessions :
       PushNewOrder(s) \/ WriteRequest(s) \/ WritesDone(s) \/ ReadReports(s) \/ Fail(s)
  \/ \E c \in Cancelers : PushCancelOrder(c)

Spec == Init /\ [][Next]_vars

\* Every thread is scheduled.  process_mutex is taken a bounded number of times,
\* so that weak fairness is enough for a thread to get it.
FairSpec ==
  /\ Spec
  /\ \A s \in Sessions :
       /\ WF_vars(PushNewOrder(s))
       /\ WF_vars(WriteRequest(s) \/ WritesDone(s))
       /\ WF_vars(ReadReports(s))
  /\ \A c \in Cancelers : WF_vars(CancelMiss(c) \/ CancelOrder(c))

-----------------------------------------------------------------------------
(* Properties *)

ExecutionReport ==
  [stat : {"ORDER_ACCEPT", "ORDER_REJECT", "FILL", "CANCELED", "CANCEL_REJECT"},
   order : 0 .. MaxOrders, qty : Nat, fill : Nat, leave : Nat]

Call ==
  [file : Seq(Requests), sent : Nat, closed : BOOLEAN, taken : Nat,
   answers : Seq(ExecutionReport), printed : Nat,
   main : {"reading", "joining", "exited"}, conn : {"up", "stalled", "gone"}]

\* What is on its way of a call is what has been written and not yet read.
InWindow(c) ==
  /\ c.taken <= c.sent /\ c.sent <= Len(c.file) /\ c.sent - c.taken <= Window
  /\ c.printed <= Len(c.answers) /\ Len(c.answers) - c.printed <= Window

\* The type invariant: no quantity of an order, a local or a report is ever
\* negative, so no unsigned subtraction of the server wraps around.
TypeOK ==
  /\ id \in 0 .. MaxOrders
  /\ orders \in [OrderId -> Request \cup {NoOrder}]
  /\ book \in [AnyStock -> [Side -> SUBSET OrderId]]
  /\ lock \in Sessions \cup {Free}
  /\ pc \in [Threads -> {"read", "lock", "match", "write", "idle", "returned"}]
  /\ oid \in [Threads -> 0 .. MaxOrders]
  /\ mine \in [Sessions -> Request]
  /\ cnt \in [Sessions -> Nat]
  /\ report \in [Threads -> ExecutionReport]
  /\ call \in [Sessions -> Call] /\ \A s \in Sessions : InWindow(call[s])
  /\ placed \in [OrderId -> Request \cup {NoOrder}]
  /\ filled \in [OrderId -> Nat]
  /\ withdrawn \in [OrderId -> Nat]

\* Every order that rests is in the table, under its stock and side.
BookInTable ==
  \A s \in AnyStock, d \in Side : \A i \in book[s][d] :
    orders[i] # NoOrder /\ orders[i].stock = s /\ orders[i].dir = d /\ orders[i].qty > 0

\* Every order in the table rests, but for that of the thread with process_mutex.
TableInBook ==
  \A i \in OrderId :
    orders[i] # NoOrder =>
      \/ i \in book[orders[i].stock][orders[i].dir]
      \/ \E s \in Sessions : At(s, "match") /\ oid[s] = i /\ lock = s

\* No two resting orders could trade with each other, market orders included.
Uncrossed ==
  \A s \in AnyStock : \A a \in book[s]["SELL"], b \in book[s]["BUY"] :
    ~Crosses(orders[a], orders[b])

\* The loop of processNewOrder, its erasures while it iterates and what it goes
\* past, leaves table and sets in agreement and the book uncrossed.
BookSettled == BookInTable /\ TableInBook /\ Uncrossed

\* How much of order i has traded, with orders before and after it.
Traded(i) ==
  IF placed[i] = NoOrder THEN 0
  ELSE placed[i].qty - withdrawn[i] - (IF orders[i] = NoOrder THEN 0 ELSE orders[i].qty)

\* How much the orders for one side of a stock have traded, and how much of the
\* trades of a stock its orders have been told.
Volume(s, d) ==
  SumFunctionOnSet([i \in OrderId |->
                      IF placed[i] # NoOrder /\ placed[i].stock = s /\ placed[i].dir = d
                      THEN Traded(i) ELSE 0], OrderId)

Told(s) ==
  SumFunctionOnSet([i \in OrderId |->
                      IF placed[i] # NoOrder /\ placed[i].stock = s
                      THEN filled[i] ELSE 0], OrderId)

Even(s) == Volume(s, "SELL") = Volume(s, "BUY") /\ Told(s) = Volume(s, "SELL")

\* Whenever process_mutex is free, as much of a stock has been sold as has been
\* bought, whatever was cancelled in between, and every trade has been reported
\* once, by the later of its two orders.
Balanced ==
  lock = Free =>
    /\ \A s \in AnyStock : Even(s)
    /\ \A i \in OrderId : filled[i] <= Traded(i)

\* Report r answers request req: with an order number if it is legal, and with
\* what was traded and left of that very order.
AnswerTo(r, req) ==
  /\ r.qty = req.qty /\ r.fill + r.leave = r.qty
  /\ r.order = 0 <=> r.stat = "ORDER_REJECT"
  /\ r.order = 0 <=> ~Legal(req)
  /\ r.order # 0 => placed[r.order] = req /\ filled[r.order] = r.fill

\* The reports client s gets answer the requests of its file, one each and in
\* turn, and its orders are numbered in that order.
InTurn(s) ==
  /\ call[s].conn # "gone" =>
       call[s].taken = Len(call[s].answers) + (IF pc[s] \in {"read", "returned"} THEN 0 ELSE 1)
  /\ \A k \in DOMAIN call[s].answers : AnswerTo(call[s].answers[k], call[s].file[k])
  /\ \A j, k \in DOMAIN call[s].answers :
       j < k /\ call[s].answers[k].order # 0 => call[s].answers[j].order < call[s].answers[k].order

\* Whatever other threads do before and after a request has process_mutex, and
\* wherever clients stop reading or are lost, each client gets its own answers.
Answered == \A s \in Sessions : InTurn(s)

-----------------------------------------------------------------------------
(* Liveness *)

\* A client prints what its file brings and exits, and a cancellation is
\* answered, however many other clients have stopped reading: nobody waits with
\* process_mutex locked.
Served ==
  /\ \A s \in Sessions : <>(call[s].main = "exited" \/ call[s].conn = "stalled")
  /\ \A c \in Cancelers : At(c, "lock") ~> At(c, "returned")

=============================================================================
