----------------------------- MODULE FirstAsync -----------------------------
(***************************************************************************)
(* The first asynchronous version, OrderProcessSystem_async, end to end:   *)
(* clients and server, each a thread that takes the events of a completion *)
(* queue and calls Proceed of the object whose operation has completed, and *)
(* the market, which the one server thread has for itself.                 *)
(*                                                                         *)
(* A step completes an operation and runs the Proceed that its event calls, *)
(* to its end.  gRPC is the environment: a Write completes when no more    *)
(* than Window messages are on their way, a Read when there is one, and    *)
(* both fail once the connection of the call is lost.                      *)
(***************************************************************************)
EXTENDS Orders, SequencesExt

CONSTANTS
  Pushes,   \* the calls of PushNewOrder, each made by a client of its own
  Cancels,  \* the calls of PushCancelOrder
  Targets,  \* the order numbers clients ask to cancel
  Starts,   \* the request files clients may be started with, by call
  Window,   \* bound on the messages on their way in one direction
  MaxLost,  \* bound on the connections that are lost
  NoCall    \* the responder of an order that does not exist

Calls == Pushes \cup Cancels

AnyStock == Stocks \cup {NoStock}

ASSUME FirstAsyncAssumption ==
  /\ Pushes \cap Cancels = {}
  /\ NoCall \notin Calls
  /\ NoOrder \notin Request \cup AnyStock
  /\ \A f \in Starts : DOMAIN f = Pushes /\ \A c \in Pushes : f[c] \in Seq(Requests)
  /\ Targets \subseteq Nat
  /\ Window \in Nat
  /\ MaxLost \in Nat

VARIABLES
  id,           \* the last order number given out
  orders,       \* orders[i]: the table entry of order i, or NoOrder
  book,         \* book[s][d]: sell_buy_containers, the resting orders
  responderOf,  \* orderID_responder: the call an order came with
  file,         \* file[c]: requests_ of the client's call
  srv,          \* srv[c]: the CallData object of call c
  cli,          \* cli[c]: the client's object of call c
  up, down,     \* up[c], down[c]: the messages on their way to server and client
  lost,         \* the calls whose connection is lost
  aborted       \* gRPC has aborted the server

market == <<id, orders, book>>
wire   == <<up, down>>
vars   == <<market, responderOf, file, srv, cli, wire, lost, aborted>>

-----------------------------------------------------------------------------
(* The market *)

\* checkRequest of this version does not look at the stock.
Legal(req) ==
  /\ req.client > 0 /\ req.dir \in Side /\ req.kind \in Kind
  /\ req.qty > 0 /\ req.price > 0

Report(stat, i, total, fill, leave) ==
  [stat |-> stat, order |-> i, total |-> total, fill |-> fill, leave |-> leave]

\* A report that nothing has been read into.
BlankReport == Report("ORDER_ACCEPT", 0, 0, 0, 0)

\* One pass of the loop of sellOrders or buyOrders for order i, that came as `o`,
\* with resting order r; `m` is what the passes before have left.
Pass(i, o, m, r) ==
  LET other == m.orders[r]
      n     == Least(other.qty, o.qty - m.cnt)
  IN  IF m.cnt >= o.qty \/ ~Compatible(o, other) THEN m
      ELSE [orders  |-> [m.orders EXCEPT ![r].qty = @ - n],
            cnt     |-> m.cnt + n,
            reports |-> m.reports \o
              <<Report("FILL", i, o.qty, n, o.qty - m.cnt - n),
                Report("FILL", r, other.qty, n, other.qty - n)>>]

\* The outcome of the loop, which goes up the opposite set.
AllPasses(i, o) ==
  LET upTo[r \in 0 .. MaxOrders] ==
        IF r = 0 THEN [orders |-> orders, cnt |-> 0,
                       reports |-> <<Report("ORDER_ACCEPT", i, o.qty, 0, o.qty)>>]
        ELSE IF r \in book[o.stock][Opp(o.dir)] THEN Pass(i, o, upTo[r - 1], r)
        ELSE upTo[r - 1]
  IN  upTo[MaxOrders]

\* Faulty variant: what has been traded is not taken off the order.
RemainderWhole(o, cnt, matched) ==
  [o EXCEPT !.price = IF matched THEN Repriced(o) ELSE @]

\* An order after its trades; sellOrders and buyOrders are only called when there
\* is something to match.
Remainder(o, cnt, matched) ==
  [o EXCEPT !.qty = @ - cnt, !.price = IF matched THEN Repriced(o) ELSE @]

\* processNewOrder accepts request o.  An order that is filled stays in the table.
AcceptOrder(o) ==
  LET i    == id + 1
      m    == AllPasses(i, o)
      rest == Remainder(o, m.cnt, book[o.stock][Opp(o.dir)] # {})
  IN  /\ id < MaxOrders
      /\ id' = i
      /\ orders' = [m.orders EXCEPT ![i] = rest]
      /\ book' = [book EXCEPT ![o.stock][Opp(o.dir)] = {r \in @ : m.orders[r].qty > 0},
                              ![o.stock][o.dir] = IF rest.qty > 0 THEN @ \cup {i} ELSE @]

\* Faulty variant: the order stays in its resting set.
DropFromTable(i) ==
  /\ i \in OrderId /\ orders[i] # NoOrder
  /\ orders' = [orders EXCEPT ![i] = NoOrder]
  /\ UNCHANGED <<id, book>>

\* processCancelOrder finds order i, filled or not.
DropOrder(i) ==
  /\ i \in OrderId /\ orders[i] # NoOrder
  /\ orders' = [orders EXCEPT ![i] = NoOrder]
  /\ book' = [book EXCEPT ![orders[i].stock][orders[i].dir] = @ \ {i}]
  /\ UNCHANGED id

-----------------------------------------------------------------------------
(* The server: CallDataPushNewOrder *)

\* A CallData object: the operation pending with its tag, the call whose
\* responder that writes to, and its reports, of which `next` are written.
Object(o) == [op |-> o, to |-> NoCall, reports |-> <<>>, next |-> 0]

Called(c) == srv[c].op = "none" /\ cli[c].op # "none"

\* The first event: another object listens for calls, a first Read is posted, and
\* the blank request there is has no client and is not processed.
AcceptCall(c) ==
  /\ Called(c)
  /\ srv' = [srv EXCEPT ![c] = Object("read")]
  /\ UNCHANGED <<market, responderOf, file, cli, wire, lost, aborted>>

\* A Read gets request req; the next one is posted before req is processed.
GetRequest(c, req) ==
  /\ srv[c].op = "read" /\ up[c] # <<>>
  /\ req = Head(up[c])
  /\ up' = [up EXCEPT ![c] = Tail(@)]
  /\ UNCHANGED <<file, cli, down, lost, aborted>>

\* A request of no client is read over.
SkipRequest(c) ==
  \E req \in Requests :
    /\ GetRequest(c, req) /\ req.client = 0
    /\ UNCHANGED <<market, responderOf, srv>>

RejectRequest(c) ==
  \E req \in Requests :
    /\ GetRequest(c, req) /\ req.client > 0 /\ ~Legal(req)
    /\ srv' = [srv EXCEPT ![c].reports =
                 Append(@, Report("ORDER_REJECT", 0, req.qty, 0, req.qty))]
    /\ UNCHANGED <<market, responderOf>>

ProcessRequest(c) ==
  \E req \in Requests :
    /\ GetRequest(c, req) /\ req.client > 0 /\ Legal(req)
    /\ AcceptOrder(req)
    /\ srv' = [srv EXCEPT ![c].reports = @ \o AllPasses(id', req).reports]
    /\ responderOf' = [responderOf EXCEPT ![id'] = c]

\* The client has called WritesDone.
Closed(c) == cli[c].op \in {"writesDone", "read", "done"}

\* The event is that of a Read that has failed, which counts as a success from
\* here on, or that of a Write.
MayWrite(c) ==
  \/ srv[c].op = "read" /\ up[c] = <<>> /\ Closed(c)
  \/ srv[c].op = "read" /\ c \in lost
  \/ srv[c].op = "write" /\ (Len(down[srv[c].to]) <= Window \/ srv[c].to \in lost)

\* Faulty variant: every report goes to the call that has made it.
OwnAddressee(c) == c

\* The call whose stream the next report of call c goes to.
Addressee(c) ==
  LET i == srv[c].reports[srv[c].next + 1].order
  IN  IF i = 0 THEN c ELSE responderOf[i]

\* A write of another call to the stream of call d is under way.
Busy(c, d) == \E e \in Pushes \ {c} : srv[e].op = "write" /\ srv[e].to = d

\* The next report is written, with the tag of the call that has made it.
WriteReport(c) ==
  /\ MayWrite(c) /\ srv[c].next < Len(srv[c].reports)
  /\ LET d == Addressee(c)
     IN  /\ ~Busy(c, d)
         /\ srv' = [srv EXCEPT ![c].op = "write", ![c].to = d, ![c].next = @ + 1]
         /\ down' = IF d \in lost THEN down
                    ELSE [down EXCEPT ![d] = Append(@, srv[c].reports[srv[c].next + 1])]
  /\ UNCHANGED <<market, responderOf, file, cli, up, lost, aborted>>

\* A second write to a stream before the event of the first has been taken from the
\* completion queue: until then gRPC counts the first as under way, and a call
\* with too many operations fails an assertion of its library.
Overlap(c) ==
  /\ MayWrite(c) /\ srv[c].next < Len(srv[c].reports)
  /\ Busy(c, Addressee(c))
  /\ aborted' = TRUE
  /\ UNCHANGED <<market, responderOf, file, srv, cli, wire, lost>>

\* All reports are written, or a Write has failed: nothing more is done, Finish
\* being commented out.
StopWriting(c) ==
  /\ \/ MayWrite(c) /\ srv[c].next >= Len(srv[c].reports)
     \/ srv[c].op = "write" /\ srv[c].to \in lost
  /\ srv' = [srv EXCEPT ![c].op = "done"]
  /\ UNCHANGED <<market, responderOf, file, cli, wire, lost, aborted>>

ServeNewOrder(c) ==
  \/ AcceptCall(c)
  \/ SkipRequest(c) \/ RejectRequest(c) \/ ProcessRequest(c)
  \/ WriteReport(c) \/ Overlap(c) \/ StopWriting(c)

-----------------------------------------------------------------------------
(* The server: CallDataPushCancelOrder *)

\* The report goes out with Finish, whose event deletes the object.
Answer(c, report) ==
  /\ srv' = [srv EXCEPT ![c] = Object("done")]
  /\ down' = [down EXCEPT ![c] = IF c \in lost THEN @ ELSE <<report>>]
  /\ UNCHANGED <<responderOf, file, cli, up, lost, aborted>>

CancelOrder(c) ==
  LET i == cli[c].order
  IN  /\ Called(c) /\ DropOrder(i)
      /\ Answer(c, Report("CANCELED", i, orders[i].qty, 0, 0))

CancelNothing(c) ==
  LET i == cli[c].order
  IN  /\ Called(c) /\ (i \in OrderId => orders[i] = NoOrder)
      /\ Answer(c, Report("CANCEL_REJECT", i, 0, 0, 0))
      /\ UNCHANGED market

-----------------------------------------------------------------------------
(* The clients *)

\* Client c leaves its object with operation o pending.
Posts(c, o) == cli' = [cli EXCEPT ![c].op = o]

ClientOnly == UNCHANGED <<market, responderOf, file, srv, lost, aborted>>

\* The command to send a file: the call is started.
PushNewOrder(c) ==
  /\ cli[c].op = "none"
  /\ Posts(c, "start")
  /\ UNCHANGED wire /\ ClientOnly

\* The start of the call or a Write has completed, successfully or not.
Wrote(c) == cli[c].op \in {"start", "write"} /\ (Len(up[c]) <= Window \/ c \in lost)

WriteRequest(c) ==
  /\ Wrote(c) /\ cli[c].counter < Len(file[c])
  /\ cli' = [cli EXCEPT ![c].op = "write", ![c].counter = @ + 1]
  /\ up' = IF c \in lost THEN up
           ELSE [up EXCEPT ![c] = Append(@, file[c][cli[c].counter + 1])]
  /\ UNCHANGED down /\ ClientOnly

WritesDone(c) ==
  /\ Wrote(c) /\ cli[c].counter >= Len(file[c])
  /\ Posts(c, "writesDone")
  /\ UNCHANGED wire /\ ClientOnly

\* WritesDone has completed: a first Read is posted, and report_, which is still
\* blank, is printed.
PrintBlank(c) ==
  /\ cli[c].op = "writesDone"
  /\ cli' = [cli EXCEPT ![c].op = "read", ![c].printed = <<BlankReport>>]
  /\ UNCHANGED wire /\ ClientOnly

\* Faulty variant: the next Read is not posted.
PrintReportLast(c) ==
  /\ cli[c].op = "read" /\ down[c] # <<>>
  /\ cli' = [cli EXCEPT ![c].op = "done", ![c].printed = Append(@, Head(down[c]))]
  /\ down' = [down EXCEPT ![c] = Tail(@)]
  /\ UNCHANGED up /\ ClientOnly

\* A Read gets a report: the next one is posted and the report printed.
PrintReport(c) ==
  /\ cli[c].op = "read" /\ down[c] # <<>>
  /\ cli' = [cli EXCEPT ![c].printed = Append(@, Head(down[c]))]
  /\ down' = [down EXCEPT ![c] = Tail(@)]
  /\ UNCHANGED up /\ ClientOnly

\* WritesDone or a Read fails: nothing more is done.
EndReports(c) ==
  /\ cli[c].op \in {"writesDone", "read"} /\ c \in lost
  /\ Posts(c, "done")
  /\ UNCHANGED wire /\ ClientOnly

\* The command to cancel order i: Finish is posted in the constructor, which
\* goes on to read `status` and to write `callStatus`.
PushCancelOrder(c, i) ==
  /\ cli[c].op = "none"
  /\ cli' = [cli EXCEPT ![c].op = "finish", ![c].order = i, ![c].ctor = "running"]
  /\ UNCHANGED wire /\ ClientOnly

\* The constructor ends, unless the queue's thread has deleted the object.
EndConstructor(c) ==
  /\ cli[c].ctor = "running"
  /\ cli' = [cli EXCEPT ![c].ctor = IF cli[c].op = "done" THEN "use_after_free" ELSE "over"]
  /\ UNCHANGED wire /\ ClientOnly

\* Finish has completed, with a report if the call went well; the object is
\* deleted.
PrintCancel(c) ==
  /\ cli[c].op = "finish"
  /\ \/ down[c] # <<>> /\ cli' = [cli EXCEPT ![c].op = "done", ![c].printed = down[c]]
     \/ c \in lost /\ Posts(c, "done")
  /\ UNCHANGED wire /\ ClientOnly

\* The connection of a call is lost; what is on its way may or may not arrive.
Lose(c) ==
  /\ cli[c].op # "none" /\ c \notin lost
  /\ Cardinality(lost) < MaxLost
  /\ lost' = lost \cup {c}
  /\ UNCHANGED <<market, responderOf, file, srv, cli, wire, aborted>>

-----------------------------------------------------------------------------
(* Specification *)

Init ==
  /\ id = 0
  /\ orders = [i \in OrderId |-> NoOrder]
  /\ book = [s \in AnyStock |-> [d \in Side |-> {}]]
  /\ responderOf = [i \in OrderId |-> NoCall]
  /\ file \in Starts
  /\ srv = [c \in Calls |-> Object("none")]
  /\ cli = [c \in Calls |-> [op |-> "none", counter |-> 0, order |-> 0,
                             ctor |-> "none", printed |-> <<>>]]
  /\ up = [c \in Calls |-> <<>>] /\ down = [c \in Calls |-> <<>>]
  /\ lost = {}
  /\ aborted = FALSE

Server(c) ==
  IF c \in Pushes THEN ServeNewOrder(c) ELSE CancelOrder(c) \/ CancelNothing(c)

Client(c) ==
  \/ c \in Pushes /\ ( \/ WriteRequest(c) \/ WritesDone(c)
                       \/ PrintBlank(c) \/ PrintReport(c) \/ EndReports(c) )
  \/ c \in Cancels /\ (EndConstructor(c) \/ PrintCancel(c))

Command(c) ==
  IF c \in Pushes THEN PushNewOrder(c) ELSE \E i \in Targets : PushCancelOrder(c, i)

Next == ~aborted /\ \E c \in Calls : Server(c) \/ Client(c) \/ Command(c) \/ Lose(c)

Spec == Init /\ [][Next]_vars

\* Each thread takes every event that is in its completion queue, in turn.
FairSpec ==
  Spec /\ \A c \in Calls : WF_vars(~aborted /\ Server(c)) /\ WF_vars(~aborted /\ Client(c))

-----------------------------------------------------------------------------
(* Properties *)

AnyReport ==
  [stat : {"ORDER_ACCEPT", "ORDER_REJECT", "FILL", "CANCELED", "CANCEL_REJECT"},
   order : Nat, total : Nat, fill : Nat, leave : Nat]

ServerObject ==
  [op : {"none", "read", "write", "done"}, to : Calls \cup {NoCall},
   reports : Seq(AnyReport), next : Nat]

ClientObject ==
  [op : {"none", "start", "write", "writesDone", "read", "finish", "done"},
   counter : Nat, order : Targets \cup {0},
   ctor : {"none", "running", "over", "use_after_free"}, printed : Seq(AnyReport)]

TypeOK ==
  /\ id \in 0 .. MaxOrders
  /\ orders \in [OrderId -> Request \cup {NoOrder}]
  /\ book \in [AnyStock -> [Side -> SUBSET OrderId]]
  /\ responderOf \in [OrderId -> Pushes \cup {NoCall}]
  /\ file \in Starts
  /\ srv \in [Calls -> ServerObject]
  /\ \A c \in Calls : srv[c].next <= Len(srv[c].reports)
  /\ cli \in [Calls -> ClientObject]
  /\ up \in [Calls -> Seq(Requests)] /\ down \in [Calls -> Seq(AnyReport)]
  /\ lost \subseteq Calls
  /\ aborted \in BOOLEAN

\* The ORDER_ACCEPT that call c was sent for order i, as a set.
Accepted(c, i) == {r \in ToSet(srv[c].reports) : r.stat = "ORDER_ACCEPT" /\ r.order = i}

\* After the one blank report, a client prints what concerns its own file and
\* nothing twice, whichever call has written it and in whatever order that was,
\* and it is told of no more trades than its order has made.
Printed ==
  \A c \in Pushes :
    LET p    == cli[c].printed
        news == Tail(p)
        told(i) == SumFunctionOnSet([k \in DOMAIN news |->
                     IF news[k].order = i THEN news[k].fill ELSE 0], DOMAIN news)
    IN  p # <<>> =>
          /\ Head(p) = BlankReport
          /\ \A k \in DOMAIN news :
               IF news[k].order = 0 THEN news[k] \in ToSet(srv[c].reports)
               ELSE Accepted(c, news[k].order) # {}
          /\ \A j, k \in DOMAIN news :
               j # k /\ news[j].order # 0 => news[j] # news[k]
          /\ \A i \in OrderId : \A a \in Accepted(c, i) :
               told(i) <= a.total - (IF orders[i] = NoOrder THEN 0 ELSE orders[i].qty)

\* The table without the orders that are filled.
OpenOrders ==
  [i \in OrderId |-> IF orders[i] = NoOrder THEN NoOrder
                     ELSE IF orders[i].qty = 0 THEN NoOrder ELSE orders[i]]

\* The empty stock is one like the others here, and none is illegal.
Abstract == INSTANCE AtomicMarket WITH
              table <- OpenOrders, Stocks <- AnyStock, NoStock <- NoOrder

\* The market of this version is AtomicMarket, although it keeps filled orders in
\* the table, where they can be cancelled, and resting orders in sets of their own.
Atomic == Abstract!Spec

\* The reports for orders of call c that have been made, by any call.
Due(c) ==
  UNION {{srv[d].reports[k] : k \in {j \in DOMAIN srv[d].reports :
            LET i == srv[d].reports[j].order
            IN  IF i = 0 THEN d = c ELSE responderOf[i] = c}} : d \in Pushes}

\* What the server has to say reaches the client's output, though a client reads
\* nothing before it has written its whole file, a call writes nothing before it
\* has read it, and reports for a counterparty wait for the room on its stream;
\* unless a connection is lost or the server aborts.
Told ==
  \A c \in Pushes :
    []<>(\/ Due(c) \subseteq ToSet(cli[c].printed)
         \/ lost # {} \/ aborted)

=============================================================================
