---------------------------- MODULE AsyncServer ----------------------------
(***************************************************************************)
(* The server of OrderProcessSystem_async_v_2: the completion queue loop   *)
(* HandleRpcs and the three CallData state machines it drives, over the    *)
(* market, whose requests are atomic for the one handler thread there is   *)
(* (TradingMarketAtomic).                                                  *)
(*                                                                         *)
(* Each call has at most one gRPC operation pending with its tag.  The     *)
(* environment (gRPC and the clients) completes operations by putting an   *)
(* event into the completion queue; one Proceed per event is one step of   *)
(* the handler.  A client's requests are those of the file it was started  *)
(* with, after which it half-closes the stream.                            *)
(***************************************************************************)
EXTENDS Trades

CONSTANTS
  MaxCalls,   \* bound on the calls, the three that listen included
  MaxGone,    \* bound on the clients that disconnect
  Batches     \* the request files clients start new-order calls with

Calls == 1 .. MaxCalls

ASSUME CallsAssumption ==
  /\ MaxCalls \in Nat
  /\ MaxGone \in Nat
  /\ Batches \subseteq Seq(Requests)

VARIABLES
  id, table,    \* the market
  started,      \* handler threads started by Run
  joining,      \* Run waits in thread_.join()
  made,         \* CallData objects constructed
  call,         \* call[c]: the CallData object
  responderOf,  \* orderID_responder_: the call an order came with, or 0
  peer,         \* peer[c]: the client of the call, "none", "up" or "gone"
  inbox,        \* inbox[c]: the requests the client has yet to get across
  received,     \* received[c]: the reports that reached the client, each as
                \* <<d, k>>, the k-th report of call d
  fault         \* how the process died, or "none"

market  == <<id, table>>
clients == <<peer, inbox, received>>
vars    == <<market, started, joining, made, call, responderOf, clients, fault>>

Market == INSTANCE AtomicMarket

-----------------------------------------------------------------------------
(* CallData objects *)

\* A request buffer nothing has been read into: its clientid is 0.
Blank == [client |-> 0, stock |-> NoStock, dir |-> "SELL", kind |-> "LIMIT",
          qty |-> 0, price |-> 0]

\* A CallData object: the operation pending with its tag, the call whose
\* responder that writes to, and the event of it in the completion queue.
CallData(k, o) ==
  [kind |-> k, status |-> "PROCESS", op |-> o, to |-> 0, event |-> "none",
   created |-> FALSE, writing |-> FALSE, buf |-> Blank, cancel |-> 0,
   reports |-> <<>>, next |-> 0]

Absent == CallData("none", "none")

\* The constructor runs Proceed in state CREATE: the object listens for a call.
Listener(k) == CallData(k, "request")

Ready(c, k) == call[c].kind = k /\ call[c].event # "none"

\* The calls after Proceed of call c has left it as `new` and, as the first
\* event of a call does, made another listener of its kind.
WithListener(c, new) ==
  [call EXCEPT ![c] = new, ![made + 1] = Listener(new.kind)]

Proceeded(c, o) == [call[c] EXCEPT !.op = o, !.event = "none"]

-----------------------------------------------------------------------------
(* Reports *)

Report(stat, i, total, fill, left) ==
  [stat |-> stat, order |-> i, total |-> total, fill |-> fill, leave |-> left]

\* Faulty variant: the counterparty is told that all of its order was traded.
FillsWhole(tab, i, o, t) ==
  LET r == t.with
  IN  <<Report("FILL", i, o.qty, t.qty, t.left),
        Report("FILL", r, tab[r].qty, tab[r].qty, 0)>>

\* The two FILL reports of trade t of order i, in sellOrders/buyOrders: initReport
\* takes the quantity from the order as it is in the table.
Fills(tab, i, o, t) ==
  LET r == t.with
  IN  <<Report("FILL", i, o.qty, t.qty, t.left),
        Report("FILL", r, tab[r].qty, t.qty, tab[r].qty - t.qty)>>

\* The reports processNewOrder adds for request o, accepted as order i.
OrderReports(tab, i, o) ==
  LET trades == Matched(tab, o, Candidates(tab, o)).trades
  IN  <<Report("ORDER_ACCEPT", i, o.qty, 0, o.qty)>>
        \o FlattenSeq([k \in DOMAIN trades |-> Fills(tab, i, o, trades[k])])

-----------------------------------------------------------------------------
(* New-order calls *)

\* Faulty variant: new_responder_created_ is not set.
AcceptUnnoticed(c) ==
  /\ Ready(c, "new") /\ ~call[c].created
  /\ call' = WithListener(c, Proceeded(c, "read"))
  /\ made' = made + 1
  /\ UNCHANGED <<market, started, joining, responderOf, clients, fault>>

\* The first event: the client's call is there.  The request read so far is
\* blank, so it is not processed.
AcceptOrderCall(c) ==
  /\ Ready(c, "new") /\ ~call[c].created
  /\ call' = WithListener(c, [Proceeded(c, "read") EXCEPT !.created = TRUE])
  /\ made' = made + 1
  /\ UNCHANGED <<market, started, joining, responderOf, clients, fault>>

Reading(c) == Ready(c, "new") /\ call[c].created /\ ~call[c].writing

\* A request of no client is read over.
SkipRequest(c) ==
  /\ Reading(c) /\ call[c].event = "ok" /\ call[c].buf.client = 0
  /\ call' = [call EXCEPT ![c] = Proceeded(c, "read")]
  /\ UNCHANGED <<market, started, joining, made, responderOf, clients, fault>>

\* processNewOrder turns the request down: a report without an order number.
RejectRequest(c) ==
  /\ Reading(c) /\ call[c].event = "ok" /\ call[c].buf.client > 0
  /\ ~CheckRequest(call[c].buf)
  /\ LET report == Report("ORDER_REJECT", 0, call[c].buf.qty, 0, call[c].buf.qty)
     IN  call' = [call EXCEPT ![c] = [Proceeded(c, "read") EXCEPT
                                        !.reports = Append(@, report)]]
  /\ UNCHANGED <<market, started, joining, made, responderOf, clients, fault>>

\* processNewOrder accepts it; its reports wait until all requests are read.
ProcessRequest(c) ==
  /\ Reading(c) /\ call[c].event = "ok" /\ call[c].buf.client > 0
  /\ Market!Submit(call[c].buf)
  /\ call' = [call EXCEPT ![c] = [Proceeded(c, "read") EXCEPT
                 !.reports = @ \o OrderReports(table, id', call[c].buf)]]
  /\ responderOf' = [responderOf EXCEPT ![id'] = c]
  /\ UNCHANGED <<started, joining, made, clients, fault>>

\* The call is past its last request (the event that ends the reading counts
\* as a success) and its last write, if any, has succeeded.
WritesOn(c) ==
  /\ Ready(c, "new") /\ call[c].created
  /\ call[c].writing <=> call[c].event = "ok"

\* Faulty variant: every report goes to the call that produced it.
OwnAddressee(c) == c

\* Faulty variant: every report goes to the call of the latest order.
LatestAddressee(c) == IF id = 0 THEN c ELSE responderOf[id]

\* The call whose stream the next report of call c goes to.
Addressee(c) ==
  LET i == call[c].reports[call[c].next + 1].order
  IN  IF i = 0 THEN c ELSE responderOf[i]

\* Another call has written to the stream of call d and the tag of that Write has
\* not been received from the completion queue, before which gRPC allows no other.
Busy(c, d) == \E e \in Calls \ {c} : call[e].op = "write" /\ call[e].to = d

\* Faulty variant: ReportsCounter_ is not counted up.
WriteUncounted(c) ==
  /\ WritesOn(c) /\ call[c].next < Len(call[c].reports)
  /\ ~Busy(c, Addressee(c))
  /\ call' = [call EXCEPT ![c] = [Proceeded(c, "write") EXCEPT
                 !.to = Addressee(c), !.writing = TRUE]]
  /\ UNCHANGED <<market, started, joining, made, responderOf, clients, fault>>

\* Write: a report for an order goes to the call the order came with, with the
\* tag of the call that produced it.
WriteReport(c) ==
  /\ WritesOn(c) /\ call[c].next < Len(call[c].reports)
  /\ ~Busy(c, Addressee(c))
  /\ call' = [call EXCEPT ![c] = [Proceeded(c, "write") EXCEPT
                 !.to = Addressee(c), !.writing = TRUE, !.next = @ + 1]]
  /\ UNCHANGED <<market, started, joining, made, responderOf, clients, fault>>

\* A second Write to a stream before the event of the first has been taken from the
\* completion queue: until then gRPC counts the first as under way, and a call
\* with too many operations fails an assertion of its library.
Overlap(c) ==
  /\ WritesOn(c) /\ call[c].next < Len(call[c].reports)
  /\ Busy(c, Addressee(c))
  /\ fault' = "overlap"
  /\ UNCHANGED <<market, started, joining, made, call, responderOf, clients>>

\* Faulty variant: the last report is never written.
StopWritingEarly(c) ==
  /\ Ready(c, "new") /\ call[c].created
  /\ \/ WritesOn(c) /\ call[c].next + 1 >= Len(call[c].reports)
     \/ call[c].writing /\ call[c].event = "fail"
  /\ call' = [call EXCEPT ![c] = [Proceeded(c, "none") EXCEPT !.writing = TRUE]]
  /\ UNCHANGED <<market, started, joining, made, responderOf, clients, fault>>

\* All reports are written, or a write has failed: Proceed returns without a
\* new operation, Finish and delete being commented out.
StopWriting(c) ==
  /\ Ready(c, "new") /\ call[c].created
  /\ \/ WritesOn(c) /\ ~(call[c].next < Len(call[c].reports))
     \/ call[c].writing /\ call[c].event = "fail"
  /\ call' = [call EXCEPT ![c] = [Proceeded(c, "none") EXCEPT !.writing = TRUE]]
  /\ UNCHANGED <<market, started, joining, made, responderOf, clients, fault>>

ProceedNewOrder(c) ==
  \/ AcceptOrderCall(c)
  \/ SkipRequest(c) \/ RejectRequest(c) \/ ProcessRequest(c)
  \/ WriteReport(c) \/ Overlap(c) \/ StopWriting(c)

-----------------------------------------------------------------------------
(* Cancel and query calls *)

\* The order to cancel is in the market.
CancelOrder(c) ==
  /\ Ready(c, "cancel") /\ call[c].status = "PROCESS"
  /\ call[c].cancel \in OrderId
  /\ Market!Cancel(call[c].cancel)
  /\ LET i == call[c].cancel
         report == Report("CANCELED", i, table[i].qty, 0, table[i].qty)
     IN  call' = WithListener(c, [Proceeded(c, "finish") EXCEPT
                   !.status = "FINISH", !.reports = <<report>>, !.next = 1])
  /\ made' = made + 1
  /\ UNCHANGED <<started, joining, responderOf, clients, fault>>

\* It is not.
CancelNothing(c) ==
  /\ Ready(c, "cancel") /\ call[c].status = "PROCESS"
  /\ call[c].cancel \in OrderId => table[call[c].cancel] = NoOrder
  /\ call' = WithListener(c, [Proceeded(c, "finish") EXCEPT
               !.status = "FINISH", !.next = 1,
               !.reports = <<Report("CANCEL_REJECT", call[c].cancel, 0, 0, 0)>>])
  /\ made' = made + 1
  /\ UNCHANGED <<market, started, joining, responderOf, clients, fault>>

\* One OrderReport for every order in the table, sorted by order number.
Snapshot ==
  FlattenSeq([i \in OrderId |->
    IF table[i] = NoOrder THEN <<>>
    ELSE <<Report("ORDER", i, table[i].qty, 0, table[i].qty)>>])

\* Faulty variant: one report more than there are.
QueryStepBeyond(c, snapshot, k) ==
  IF k > Len(snapshot)
  THEN [Proceeded(c, "finish") EXCEPT !.status = "FINISH", !.reports = snapshot]
  ELSE [Proceeded(c, "write") EXCEPT !.to = c, !.reports = snapshot, !.next = k + 1]

\* What call c does next with `snapshot` to stream and k reports of it written.
QueryStep(c, snapshot, k) ==
  IF k >= Len(snapshot)
  THEN [Proceeded(c, "finish") EXCEPT !.status = "FINISH", !.reports = snapshot]
  ELSE [Proceeded(c, "write") EXCEPT !.to = c, !.reports = snapshot, !.next = k + 1]

\* The first event: the snapshot is taken and its first report written.
AcceptQuery(c) ==
  /\ Ready(c, "query") /\ call[c].status = "PROCESS" /\ ~call[c].created
  /\ call' = WithListener(c, [QueryStep(c, Snapshot, 0) EXCEPT !.created = TRUE])
  /\ made' = made + 1
  /\ UNCHANGED <<market, started, joining, responderOf, clients, fault>>

\* The event of a write, failed or not: the next one follows, or Finish.
StreamQuery(c) ==
  /\ Ready(c, "query") /\ call[c].status = "PROCESS" /\ call[c].created
  /\ call' = [call EXCEPT ![c] = QueryStep(c, call[c].reports, call[c].next)]
  /\ UNCHANGED <<market, started, joining, made, responderOf, clients, fault>>

\* The event of Finish: the object is deleted.
DeleteCall(c) ==
  /\ call[c].event # "none" /\ call[c].status = "FINISH"
  /\ call' = [call EXCEPT ![c] = Absent]
  /\ UNCHANGED <<market, started, joining, made, responderOf, clients, fault>>

ProceedOther(c) ==
  \/ CancelOrder(c) \/ CancelNothing(c)
  \/ AcceptQuery(c) \/ StreamQuery(c)
  \/ DeleteCall(c)

-----------------------------------------------------------------------------
(* The main program *)

\* Run starts a handler thread, which makes a listener of each kind, and joins
\* it before it starts the next.  HandleRpcs never returns.
StartHandler ==
  /\ started < 9 /\ ~joining
  /\ made + 3 <= MaxCalls
  /\ started' = started + 1
  /\ joining' = TRUE
  /\ made' = made + 3
  /\ call' = [call EXCEPT ![made + 1] = Listener("new"),
                          ![made + 2] = Listener("cancel"),
                          ![made + 3] = Listener("query")]
  /\ UNCHANGED <<market, responderOf, clients, fault>>

\* One round of the loop of HandleRpcs.
HandleRpc == \E c \in Calls : ProceedNewOrder(c) \/ ProceedOther(c)

-----------------------------------------------------------------------------
(* gRPC and the clients *)

\* Operation of call c completes.
Complete(c, o) ==
  /\ call[c].op = o /\ call[c].event = "none"
  /\ UNCHANGED <<market, started, joining, made, responderOf, fault>>

\* A client makes a call of the kind that listener c is for.
Connect(c) ==
  /\ Complete(c, "request")
  /\ Cardinality({d \in Calls : peer[d] # "none"}) + 3 < MaxCalls
  /\ peer' = [peer EXCEPT ![c] = "up"]
  /\ IF call[c].kind = "new"
     THEN \E b \in Batches : inbox' = [inbox EXCEPT ![c] = b]
     ELSE UNCHANGED inbox
  /\ \E i \in IF call[c].kind = "cancel" THEN 0 .. MaxOrders ELSE {0} :
       call' = [call EXCEPT ![c].event = "ok", ![c].cancel = i]
  /\ UNCHANGED received

\* A client dies or drops the connection.
Disconnect(c) ==
  /\ peer[c] = "up"
  /\ Cardinality({d \in Calls : peer[d] = "gone"}) < MaxGone
  /\ peer' = [peer EXCEPT ![c] = "gone"]
  /\ UNCHANGED <<market, started, joining, made, call, responderOf, inbox,
                 received, fault>>

\* A Read completes with the next request of the client's file ...
GetRequest(c) ==
  /\ Complete(c, "read")
  /\ inbox[c] # <<>>
  /\ inbox' = [inbox EXCEPT ![c] = Tail(@)]
  /\ call' = [call EXCEPT ![c].event = "ok", ![c].buf = Head(inbox[c])]
  /\ UNCHANGED <<peer, received>>

\* ... or fails: the client has called WritesDone, or it is gone.
EndRequests(c) ==
  /\ Complete(c, "read")
  /\ inbox[c] = <<>> \/ peer[c] = "gone"
  /\ call' = [call EXCEPT ![c].event = "fail"]
  /\ UNCHANGED clients

\* The report that call c is sending has reached client d.
Deliver(c, d) == received' = [received EXCEPT ![d] = Append(@, <<c, call[c].next>>)]

\* A Write completes.
PutReport(c) ==
  /\ Complete(c, "write")
  /\ LET d == call[c].to
     IN  /\ peer[d] = "up" /\ Deliver(c, d)
         /\ call' = [call EXCEPT ![c].event = "ok"]
  /\ UNCHANGED <<peer, inbox>>

\* A Write to a client that is gone fails, unless gRPC has yet to find out.
LoseReport(c) ==
  /\ Complete(c, "write")
  /\ \E d \in Calls : call[c].to = d /\ peer[d] = "gone"
  /\ \E e \in {"ok", "fail"} : call' = [call EXCEPT ![c].event = e]
  /\ UNCHANGED clients

\* A Finish completes; the response of a cancel call travels with it.
EndCall(c) ==
  /\ Complete(c, "finish")
  /\ IF call[c].kind = "cancel" /\ peer[c] = "up"
     THEN Deliver(c, c) ELSE UNCHANGED received
  /\ call' = [call EXCEPT ![c].event = "ok"]
  /\ UNCHANGED <<peer, inbox>>

CompleteOp(c) ==
  GetRequest(c) \/ EndRequests(c) \/ PutReport(c) \/ LoseReport(c) \/ EndCall(c)

-----------------------------------------------------------------------------
(* Specification *)

Init ==
  /\ Market!Init
  /\ started = 0
  /\ joining = FALSE
  /\ made = 0
  /\ call = [c \in Calls |-> Absent]
  /\ responderOf = [i \in OrderId |-> 0]
  /\ peer = [c \in Calls |-> "none"]
  /\ inbox = [c \in Calls |-> <<>>]
  /\ received = [c \in Calls |-> <<>>]
  /\ fault = "none"

Next ==
  /\ fault = "none"
  /\ \/ StartHandler
     \/ HandleRpc
     \/ \E c \in Calls : Connect(c) \/ Disconnect(c) \/ CompleteOp(c)

Spec == Init /\ [][Next]_vars

\* The handler thread and Run are scheduled; an operation of a client that is
\* there completes, and one of a client that is gone fails.
FairSpec ==
  /\ Spec
  /\ WF_vars(StartHandler)
  /\ WF_vars(fault = "none" /\ HandleRpc)
  /\ \A c \in Calls : WF_vars(fault = "none" /\ CompleteOp(c))

-----------------------------------------------------------------------------
(* Safety *)

\* What a report can say.
AnyReport ==
  [stat : {"ORDER_REJECT", "ORDER_ACCEPT", "FILL", "CANCELED", "CANCEL_REJECT", "ORDER"},
   order : Nat, total : Nat, fill : Nat, leave : Nat]

TypeOK ==
  /\ id \in 0 .. MaxOrders
  /\ table \in [OrderId -> Order \cup {NoOrder}]
  /\ started \in 0 .. 9 /\ joining \in BOOLEAN
  /\ made \in 0 .. MaxCalls
  /\ \A c \in Calls :
       /\ call[c].kind \in {"none", "new", "cancel", "query"}
       /\ call[c].status \in {"PROCESS", "FINISH"}
       /\ call[c].op \in {"none", "request", "read", "write", "finish"}
       /\ call[c].event \in {"none", "ok", "fail"}
       /\ call[c].to \in 0 .. MaxCalls
       /\ call[c].op = "write" => call[c].to \in 1 .. made
       /\ call[c].reports \in Seq(AnyReport)
       /\ call[c].next \in 0 .. Len(call[c].reports)
       /\ call[c].buf \in Request
       /\ inbox[c] \in Seq(Requests)
       /\ received[c] \in Seq((1 .. made) \X (Nat \ {0}))
  /\ responderOf \in [OrderId -> 0 .. MaxCalls]
  /\ peer \in [Calls -> {"none", "up", "gone"}]
  /\ fault \in {"none", "overlap"}

\* The reports of the new-order calls, by call and number.
Produced ==
  UNION {{<<c, k>> : k \in DOMAIN call[c].reports} :
           c \in {d \in Calls : call[d].kind = "new"}}

ReportOf(e) == call[e[1]].reports[e[2]]

\* The server always listens for the next call of each kind, once: a call that
\* arrives makes one new listener, however many events it goes through, and Run,
\* which joins the handler thread it has started, never starts another.
OneListener ==
  /\ started <= 1
  /\ \A k \in {"new", "cancel", "query"} :
       Cardinality({c \in Calls : call[c].kind = k /\ call[c].op = "request"}) = started

\* A client gets the reports of its own orders only: the stream a FILL for a
\* counterparty goes to is the one on which that order was accepted.  And
\* orderID_responder_ never makes up a null responder: every report there is has
\* an order whose call is known and has not been deleted.
RightStream ==
  /\ \A c \in Calls : \A e \in ToSet(received[c]) \cap Produced :
       LET i == ReportOf(e).order
       IN  IF i = 0 THEN e[1] = c
           ELSE \E r \in ToSet(call[c].reports) : r.stat = "ORDER_ACCEPT" /\ r.order = i
  /\ \A e \in Produced :
       LET i == ReportOf(e).order
       IN  i # 0 => responderOf[i] # 0 /\ call[responderOf[i]].kind = "new"

\* What a call reports arrives once and in the order in which it happened.
InOrder ==
  \A c \in Calls : \A a, b \in DOMAIN received[c] :
    a < b /\ received[c][a][1] = received[c][b][1] =>
      received[c][a][2] < received[c][b][2]

\* How much of order i has been filled, by the reports of a call and of all calls.
FilledIn(reports, i) ==
  SumFunctionOnSet([k \in DOMAIN reports |->
                      IF reports[k].order = i THEN reports[k].fill ELSE 0], DOMAIN reports)

FilledOf(i) ==
  SumFunctionOnSet([c \in Calls |->
                      IF call[c].kind = "new" THEN FilledIn(call[c].reports, i) ELSE 0], Calls)

\* The FILL reports made for an order and what the table has left of it add up
\* to what its ORDER_ACCEPT said.
FillsAddUp ==
  \A e \in Produced :
    LET i == ReportOf(e).order
    IN  ReportOf(e).stat = "ORDER_ACCEPT" /\ table[i] # NoOrder =>
          table[i].qty + FilledOf(i) = ReportOf(e).total

\* A call stops before all its reports are written only right after a report for
\* a client that is gone: no report to a client that is there ends the chain.
NoneAbandoned ==
  \A c \in Calls :
    call[c].op = "none" /\ call[c].next < Len(call[c].reports) =>
      \E d \in Calls : call[c].to = d /\ peer[d] = "gone"

\* Two Writes to a stream overlap only when two calls are past their requests at once
\* and one of them has come to the FILL report of another call's order.
OverlapNeedsTrade ==
  fault = "overlap" =>
    \E e \in Produced, d \in Calls :
      /\ ReportOf(e).stat = "FILL" /\ responderOf[ReportOf(e).order] # e[1]
      /\ call[e[1]].next \in {e[2] - 1, e[2]}
      /\ d # e[1] /\ (WritesOn(d) \/ call[d].writing)

\* The reports of an order agree on what orderQty is: the total of the order,
\* as the protocol says.
OneTotal ==
  \A e, f \in Produced :
    ReportOf(e).order = ReportOf(f).order /\ ReportOf(e).order # 0 =>
      ReportOf(e).total = ReportOf(f).total

-----------------------------------------------------------------------------
(* Liveness *)

\* Every report that call c has made has reached the client it is for.
Told(c) ==
  \A k \in DOMAIN call[c].reports :
    \E d \in Calls : <<c, k>> \in ToSet(received[d])

\* The calls that the reports of call c are for.
Addressees(c) ==
  IF call[c].kind # "new" THEN {c}
  ELSE {IF r.order = 0 THEN c ELSE responderOf[r.order] : r \in ToSet(call[c].reports)}

\* Every report a call makes reaches the client it is for, be it the call's own or
\* a counterparty, unless one of the clients its reports are for dies or two
\* Writes overlap.  Other clients that die do no harm.
AllReported ==
  \A c \in Calls :
    ~Told(c) ~> Told(c) \/ fault # "none" \/ \E d \in Addressees(c) : peer[d] = "gone"

=============================================================================
