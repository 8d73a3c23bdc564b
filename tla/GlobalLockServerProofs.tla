----------------------- MODULE GlobalLockServerProofs -----------------------
(***************************************************************************)
(* Proofs about GlobalLockServer, for any number of sessions, cancelers,   *)
(* stocks and orders and any request files: that IInv is inductive, and    *)
(* from it the types, the agreement and settlement of the book, and the    *)
(* answers each client gets.  Each lemma about a step has one case per     *)
(* action; FillEffect, CancelFacts, ReadFacts and Quiet... say what an     *)
(* action changes.                                                         *)
(***************************************************************************)
EXTENDS GlobalLockServerInv, SequenceTheorems, DataInduction

USE OrdersAssumption, GlobalLockAssumption

-----------------------------------------------------------------------------
(* Operators *)

\* The quantity of a trade leaves neither order overdrawn.
LEMMA TradeBound ==
  ASSUME NEW a \in Nat, NEW b \in Nat
  PROVE  Least(a, b) \in Nat /\ Least(a, b) <= a /\ Least(a, b) <= b
  BY DEF Least

\* The other side of a side is a side, and another one.
LEMMA OppSide ==
  ASSUME NEW d \in Side
  PROVE  Opp(d) \in Side /\ Opp(d) # d
  BY DEF Side, Opp

\* A request with another quantity is a request, of the same stock and side.
LEMMA Requantified ==
  ASSUME NEW o \in Request, NEW q \in Nat
  PROVE  /\ [o EXCEPT !.qty = q] \in Request
         /\ [o EXCEPT !.qty = q] # NoOrder
         /\ [o EXCEPT !.qty = q].qty = q
         /\ [o EXCEPT !.qty = q].stock = o.stock
         /\ [o EXCEPT !.qty = q].dir = o.dir
         /\ [o EXCEPT !.qty = q].kind = o.kind
         /\ [o EXCEPT !.qty = q].price = o.price
  BY DEF Request

\* Whether two orders cross depends on their types and prices alone.
LEMMA CrossesAlike ==
  ASSUME NEW a, NEW b, NEW c, NEW d,
         a.kind = c.kind, a.price = c.price, b.price = d.price
  PROVE  Crosses(a, b) <=> Crosses(c, d)
  BY DEF Crosses, Ask

\* A report is an ExecutionReport.
LEMMA ReportType ==
  ASSUME NEW stat \in {"ORDER_ACCEPT", "ORDER_REJECT", "FILL", "CANCELED", "CANCEL_REJECT"},
         NEW i \in 0 .. MaxOrders, NEW q \in Nat, NEW f \in Nat, NEW l \in Nat
  PROVE  Report(stat, i, q, f, l) \in ExecutionReport
  BY DEF Report, ExecutionReport

\* A call keeps its type when one of its fields gets another value of its type.
LEMMA CallAlter ==
  ASSUME NEW c \in Call
  PROVE  /\ \A n \in Nat : /\ [c EXCEPT !.sent = n] \in Call
                          /\ [c EXCEPT !.taken = n] \in Call
                          /\ [c EXCEPT !.printed = n] \in Call
         /\ \A b \in BOOLEAN : [c EXCEPT !.closed = b] \in Call
         /\ \A a \in Seq(ExecutionReport) : [c EXCEPT !.answers = a] \in Call
         /\ \A m \in {"reading", "joining", "exited"} : [c EXCEPT !.main = m] \in Call
         /\ \A x \in {"up", "stalled", "gone"} : [c EXCEPT !.conn = x] \in Call
  BY DEF Call

-----------------------------------------------------------------------------
(* Steps *)

\* The steps of the system, one disjunct per way the state can change.
LEMMA StepCases ==
  ASSUME [Next]_vars
  PROVE  \/ \E s \in Sessions :
              \/ ReadRequest(s) \/ EndRequests(s) \/ CreateOrder(s)
              \/ \E r \in OrderId : Fill(s, r)
              \/ Settle(s) \/ WriteReport(s)
              \/ WriteRequest(s) \/ WritesDone(s)
              \/ PrintReport(s) \/ EndReports(s) \/ Finish(s) \/ Fail(s)
         \/ \E c \in Cancelers :
              \/ \E i \in OrderId : ReceiveCancel(c, i)
              \/ CancelMiss(c) \/ CancelOrder(c)
         \/ UNCHANGED vars
  BY DEF Next, PushNewOrder, ReadReports, PushCancelOrder

\* The steps of a client change nothing but its call.
LEMMA ClientSteps ==
  ASSUME NEW s \in Sessions,
         \/ WriteRequest(s) \/ WritesDone(s)
         \/ PrintReport(s) \/ EndReports(s) \/ Finish(s) \/ Fail(s)
  PROVE  UNCHANGED <<market, lock, pc, locals, history>>
  BY DEF WriteRequest, WritesDone, PrintReport, EndReports, Finish, Fail

\* What a session with a request works on.
LEMMA MineType ==
  ASSUME MarketInv, NEW s \in Sessions, pc[s] \in {"lock", "match"}
  PROVE  /\ mine[s] \in Request
         /\ mine[s].stock \in AnyStock /\ mine[s].dir \in Side
         /\ mine[s].qty \in Nat /\ mine[s].qty > 0
         /\ mine[s].price \in Int
         /\ Opp(mine[s].dir) \in Side /\ Opp(mine[s].dir) # mine[s].dir
         /\ cnt[s] \in Nat
<1>1. mine[s] \in Request /\ cnt[s] \in Nat
  BY DEF MarketInv, TypeOK
<1>2. Legal(mine[s])
  BY DEF MarketInv, Matching
<1>3. mine[s].dir \in Side /\ mine[s].qty > 0
  BY <1>2 DEF Legal
<1> QED
  BY <1>1, <1>3, OppSide DEF Request, AnyStock

\* What a pass of the loop trades with, and how much.
LEMMA FillFacts ==
  ASSUME MarketInv, NEW s \in Sessions, NEW r \in OrderId, Fill(s, r)
  PROVE  LET n == Least(orders[r].qty, mine[s].qty - cnt[s])
         IN  /\ r \in book[mine[s].stock][Opp(mine[s].dir)]
             /\ pc[s] = "match" /\ r # id
             /\ orders[r] \in Request /\ orders[r] # NoOrder
             /\ orders[r].stock = mine[s].stock /\ orders[r].dir = Opp(mine[s].dir)
             /\ n \in Nat /\ n <= orders[r].qty /\ n <= mine[s].qty - cnt[s]
             /\ orders[r].qty - n \in Nat
             /\ cnt[s] + n \in Nat /\ cnt[s] + n <= mine[s].qty
<1> DEFINE n == Least(orders[r].qty, mine[s].qty - cnt[s])
<1>1. /\ pc[s] = "match" /\ cnt[s] < mine[s].qty
      /\ r \in book[mine[s].stock][Opp(mine[s].dir)]
  BY DEF Fill, Fits, At
<1>2. /\ mine[s].stock \in AnyStock /\ Opp(mine[s].dir) \in Side
      /\ mine[s].qty \in Nat /\ cnt[s] \in Nat
  BY <1>1, MineType
<1>3. r # id
  BY <1>1, <1>2 DEF MarketInv, Matching
<1>4. /\ orders[r] # NoOrder
      /\ orders[r].stock = mine[s].stock /\ orders[r].dir = Opp(mine[s].dir)
  BY <1>1, <1>2 DEF MarketInv, BookInTable
<1>5. orders[r] \in Request
  BY <1>4 DEF MarketInv, TypeOK
<1>6. orders[r].qty \in Nat
  BY <1>5 DEF Request
<1>7. mine[s].qty - cnt[s] \in Nat
  BY <1>1, <1>2
<1>8. n \in Nat /\ n <= orders[r].qty /\ n <= mine[s].qty - cnt[s]
  BY <1>6, <1>7, TradeBound
<1>9. orders[r].qty - n \in Nat /\ cnt[s] + n \in Nat /\ cnt[s] + n <= mine[s].qty
  BY <1>2, <1>6, <1>8
<1> QED
  BY <1>1, <1>3, <1>4, <1>5, <1>8, <1>9

\* What an order leaves behind when it is settled.
LEMMA RemainderType ==
  ASSUME MarketInv, NEW s \in Sessions, pc[s] = "match"
  PROVE  /\ oid[s] = id /\ id \in OrderId
         /\ mine[s].qty - cnt[s] \in Nat
         /\ Remainder(s) # NoOrder =>
              /\ Remainder(s) \in Request
              /\ Remainder(s).qty = mine[s].qty - cnt[s] /\ Remainder(s).qty > 0
              /\ Remainder(s).stock = mine[s].stock /\ Remainder(s).dir = mine[s].dir
              /\ Remainder(s).kind = mine[s].kind /\ Remainder(s).price = mine[s].price
              /\ cnt[s] < mine[s].qty
<1>1. oid[s] = id /\ id \in OrderId /\ cnt[s] <= mine[s].qty
  BY DEF MarketInv, Matching
<1>2. mine[s] \in Request /\ mine[s].qty \in Nat /\ cnt[s] \in Nat
  BY MineType
<1>3. mine[s].qty - cnt[s] \in Nat
  BY <1>1, <1>2
<1> DEFINE o == mine[s]
           q == o.qty - cnt[s]
<1>4. CASE cnt[s] = mine[s].qty
  BY <1>1, <1>3, <1>4 DEF Remainder
<1>5. CASE cnt[s] # mine[s].qty
  <2>1. Remainder(s) = [o EXCEPT !.qty = q]
    BY <1>2, <1>5 DEF Remainder
  <2>2. o \in Request /\ q \in Nat
    BY <1>2, <1>3
  <2>3. q > 0 /\ cnt[s] < mine[s].qty
    BY <1>1, <1>2, <1>5
  <2>. HIDE DEF o, q
  <2>4. /\ Remainder(s) \in Request
        /\ Remainder(s).qty = q
        /\ Remainder(s).stock = o.stock /\ Remainder(s).dir = o.dir
        /\ Remainder(s).kind = o.kind /\ Remainder(s).price = o.price
    BY <2>1, <2>2, Requantified
  <2> QED
    BY <1>1, <1>3, <2>3, <2>4 DEF o, q
<1> QED
  BY <1>4, <1>5

-----------------------------------------------------------------------------
(* Types *)

\* Appending a report makes the answers one longer.
LEMMA AnswersGrow ==
  ASSUME NEW a \in Seq(ExecutionReport), NEW r \in ExecutionReport
  PROVE  /\ Append(a, r) \in Seq(ExecutionReport)
         /\ Len(Append(a, r)) = Len(a) + 1
         /\ DOMAIN Append(a, r) = 1 .. Len(a) + 1
         /\ \A k \in DOMAIN a : k \in 1 .. Len(a) /\ Append(a, r)[k] = a[k]
         /\ Append(a, r)[Len(a) + 1] = r
  BY AppendProperties, LenProperties

\* Both directions of every stream stay within their windows.
LEMMA CallStep ==
  ASSUME TypeOK, [Next]_vars
  PROVE  call' \in [Sessions -> Call] /\ \A s \in Sessions : InWindow(call'[s])
<1>0. /\ call \in [Sessions -> Call] /\ \A s \in Sessions : InWindow(call[s])
      /\ report \in [Threads -> ExecutionReport]
      /\ \A s \in Sessions : s \in Threads
  BY DEF TypeOK, Threads
<1>1. SUFFICES ASSUME NEW s \in Sessions, call' # call,
                      \/ ReadRequest(s) \/ WriteReport(s)
                      \/ WriteRequest(s) \/ WritesDone(s)
                      \/ PrintReport(s) \/ EndReports(s) \/ Finish(s) \/ Fail(s)
               PROVE  call' \in [Sessions -> Call] /\ \A t \in Sessions : InWindow(call'[t])
  BY <1>0, StepCases DEF EndRequests, CreateOrder, Fill, Settle, ReceiveCancel, CancelMiss,
     CancelOrder, vars
<1> DEFINE c == call[s]
<1>2. /\ c \in Call /\ c.file \in Seq(Requests) /\ Len(c.file) \in Nat
      /\ c.sent \in Nat /\ c.taken \in Nat /\ c.printed \in Nat
      /\ c.answers \in Seq(ExecutionReport) /\ Len(c.answers) \in Nat
      /\ InWindow(c) /\ Window \in Nat
  BY <1>0, LenProperties DEF Call
<1>3. ASSUME NEW d \in Call, InWindow(d), call' = [call EXCEPT ![s] = d]
      PROVE  call' \in [Sessions -> Call] /\ \A t \in Sessions : InWindow(call'[t])
  BY <1>0, <1>3
<1>4. CASE ReadRequest(s)
  <2> DEFINE d == [c EXCEPT !.taken = c.taken + 1]
  <2>1. call' = [call EXCEPT ![s] = d] /\ c.taken < c.sent
    BY <1>4 DEF ReadRequest
  <2>2. c.taken + 1 \in Nat
    BY <1>2
  <2>3. d \in Call
    BY <1>2, <2>2, CallAlter
  <2>4. InWindow(d)
    BY <1>2, <2>1 DEF InWindow, Call
  <2> QED
    BY <1>3, <2>1, <2>3, <2>4
<1>5. CASE WriteReport(s)
  <2> DEFINE a == Append(c.answers, report[s])
             d == [c EXCEPT !.answers = a]
  <2>1. call' = [call EXCEPT ![s] = d] /\ Len(c.answers) - c.printed < Window
    BY <1>1, <1>5 DEF WriteReport
  <2>2. a \in Seq(ExecutionReport) /\ Len(a) = Len(c.answers) + 1
    BY <1>0, <1>2, AnswersGrow
  <2> HIDE DEF a
  <2>3. d \in Call
    BY <1>2, <2>2, CallAlter
  <2>4. InWindow(d)
    BY <1>2, <2>1, <2>2 DEF InWindow, Call
  <2> QED
    BY <1>3, <2>1, <2>3, <2>4
<1>6. CASE WriteRequest(s)
  <2> DEFINE d == [c EXCEPT !.sent = c.sent + 1]
  <2>1. call' = [call EXCEPT ![s] = d] /\ c.sent < Len(c.file) /\ c.sent - c.taken < Window
    BY <1>6 DEF WriteRequest
  <2>2. c.sent + 1 \in Nat
    BY <1>2
  <2>3. d \in Call
    BY <1>2, <2>2, CallAlter
  <2>4. InWindow(d)
    BY <1>2, <2>1 DEF InWindow, Call
  <2> QED
    BY <1>3, <2>1, <2>3, <2>4
<1>7. CASE WritesDone(s)
  <2> DEFINE d == [c EXCEPT !.closed = TRUE]
  <2>1. call' = [call EXCEPT ![s] = d]
    BY <1>7 DEF WritesDone
  <2>2. d \in Call
    BY <1>2, CallAlter
  <2>3. InWindow(d)
    BY <1>2 DEF InWindow, Call
  <2> QED
    BY <1>3, <2>1, <2>2, <2>3
<1>8. CASE PrintReport(s)
  <2> DEFINE d == [c EXCEPT !.printed = c.printed + 1]
  <2>1. call' = [call EXCEPT ![s] = d] /\ c.printed < Len(c.answers)
    BY <1>8 DEF PrintReport
  <2>2. c.printed + 1 \in Nat
    BY <1>2
  <2>3. d \in Call
    BY <1>2, <2>2, CallAlter
  <2>4. InWindow(d)
    BY <1>2, <2>1 DEF InWindow, Call
  <2> QED
    BY <1>3, <2>1, <2>3, <2>4
<1>9. CASE EndReports(s)
  <2> DEFINE d == [c EXCEPT !.main = "joining"]
  <2>1. call' = [call EXCEPT ![s] = d]
    BY <1>9 DEF EndReports
  <2>2. d \in Call
    BY <1>2, CallAlter
  <2>3. InWindow(d)
    BY <1>2 DEF InWindow, Call
  <2> QED
    BY <1>3, <2>1, <2>2, <2>3
<1>10. CASE Finish(s)
  <2> DEFINE d == [c EXCEPT !.main = "exited"]
  <2>1. call' = [call EXCEPT ![s] = d]
    BY <1>10 DEF Finish
  <2>2. d \in Call
    BY <1>2, CallAlter
  <2>3. InWindow(d)
    BY <1>2 DEF InWindow, Call
  <2> QED
    BY <1>3, <2>1, <2>2, <2>3
<1>11. CASE Fail(s)
  <2>1. PICK x \in {"stalled", "gone"} : call' = [call EXCEPT ![s] = [c EXCEPT !.conn = x]]
    BY <1>11 DEF Fail
  <2>2. [c EXCEPT !.conn = x] \in Call
    BY <1>2, CallAlter
  <2>3. InWindow([c EXCEPT !.conn = x])
    BY <1>2 DEF InWindow, Call
  <2> QED
    BY <1>3, <2>1, <2>2, <2>3
<1> QED
  BY <1>1, <1>4, <1>5, <1>6, <1>7, <1>8, <1>9, <1>10, <1>11

\* Every step keeps every variable in its type.
LEMMA TypeStep ==
  ASSUME MarketInv, [Next]_vars
  PROVE  TypeOK'
<1>0. TypeOK /\ \A s \in Sessions : s \in Threads
  BY DEF MarketInv, Threads
<1>1. call' \in [Sessions -> Call] /\ \A s \in Sessions : InWindow(call'[s])
  BY <1>0, CallStep
<1>2. ASSUME NEW s \in Sessions, ReadRequest(s)
      PROVE  TypeOK'
  <2> DEFINE req == call[s].file[call[s].taken + 1]
  <2>1. call[s] \in Call /\ InWindow(call[s]) /\ call[s].taken < call[s].sent
    BY <1>0, <1>2 DEF TypeOK, ReadRequest
  <2>2. call[s].file \in Seq(Requests) /\ call[s].taken + 1 \in 1 .. Len(call[s].file)
    BY <2>1 DEF Call, InWindow
  <2>3. req \in Request
    BY <2>2
  <2>4. req.qty \in Nat
    BY <2>3 DEF Request
  <2>5. Rejected(req) \in ExecutionReport
    BY <2>4, ReportType DEF Rejected
  <2>6. /\ mine' = [mine EXCEPT ![s] = req] /\ report' = [report EXCEPT ![s] = Rejected(req)]
        /\ pc' = [pc EXCEPT ![s] = "lock"] \/ pc' = [pc EXCEPT ![s] = "write"]
        /\ UNCHANGED <<market, lock, oid, cnt, history>>
    BY <1>2 DEF ReadRequest, Goto
  <2> QED
    BY <1>0, <1>1, <2>3, <2>5, <2>6 DEF TypeOK, market, history
<1>3. ASSUME NEW s \in Sessions, EndRequests(s)
      PROVE  TypeOK'
  BY <1>0, <1>1, <1>3 DEF EndRequests, TypeOK, Goto, market, locals, history
<1>4. ASSUME NEW s \in Sessions, CreateOrder(s)
      PROVE  TypeOK'
  <2>1. id + 1 \in OrderId /\ id + 1 \in 0 .. MaxOrders
    BY <1>0, <1>4 DEF CreateOrder, TypeOK, OrderId
  <2> QED
    BY <1>0, <1>1, <1>4, <2>1 DEF CreateOrder, TypeOK, Goto
<1>5. ASSUME NEW s \in Sessions, NEW r \in OrderId, Fill(s, r)
      PROVE  TypeOK'
  <2> DEFINE n    == Least(orders[r].qty, mine[s].qty - cnt[s])
             left == orders[r].qty - n
  <2>1. /\ pc[s] = "match" /\ orders[r] \in Request /\ left \in Nat /\ cnt[s] + n \in Nat
    BY <1>5, FillFacts
  <2>2. [orders[r] EXCEPT !.qty = left] \in Request
    BY <2>1, Requantified
  <2>3. mine[s].stock \in AnyStock /\ Opp(mine[s].dir) \in Side
    BY <2>1, MineType
  <2>4. /\ cnt' = [cnt EXCEPT ![s] = @ + n]
        /\ orders' = [orders EXCEPT ![r] = IF left = 0 THEN NoOrder
                                           ELSE [orders[r] EXCEPT !.qty = left]]
        /\ book' = [book EXCEPT ![mine[s].stock][Opp(mine[s].dir)] =
                       IF left = 0 THEN @ \ {r} ELSE @]
        /\ UNCHANGED <<id, lock, pc, oid, mine, report, call, history>>
    BY <1>0, <1>5 DEF Fill, TypeOK
  <2> HIDE DEF n, left
  <2>5. orders' \in [OrderId -> Request \cup {NoOrder}]
    BY <1>0, <2>2, <2>4 DEF TypeOK
  <2>6. book' \in [AnyStock -> [Side -> SUBSET OrderId]]
    BY <1>0, <2>3, <2>4 DEF TypeOK
  <2>7. cnt' \in [Sessions -> Nat]
    BY <1>0, <2>1, <2>4 DEF TypeOK
  <2> QED
    BY <1>0, <1>1, <2>4, <2>5, <2>6, <2>7 DEF TypeOK, history
<1>6. ASSUME NEW s \in Sessions, Settle(s)
      PROVE  TypeOK'
  <2>1. pc[s] = "match"
    BY <1>6 DEF Settle, At
  <2>2. oid[s] = id /\ id \in OrderId /\ mine[s].qty - cnt[s] \in Nat
        /\ Remainder(s) \in Request \cup {NoOrder}
    BY <2>1, RemainderType
  <2>3. /\ mine[s].qty \in Nat /\ cnt[s] \in Nat
        /\ mine[s].stock \in AnyStock /\ mine[s].dir \in Side
    BY <2>1, MineType
  <2>4. Answer(s) \in ExecutionReport
    BY <2>2, <2>3, ReportType DEF Answer, OrderId
  <2>5. book' \in [AnyStock -> [Side -> SUBSET OrderId]]
    BY <1>0, <1>6, <2>2, <2>3 DEF Settle, TypeOK
  <2>6. /\ orders' = [orders EXCEPT ![id] = Remainder(s)]
        /\ report' = [report EXCEPT ![s] = Answer(s)]
        /\ filled' = [filled EXCEPT ![id] = cnt[s]]
        /\ lock' = Free /\ pc' = [pc EXCEPT ![s] = "write"]
        /\ UNCHANGED <<id, oid, mine, cnt, call, placed, withdrawn>>
    BY <1>6, <2>2 DEF Settle, Goto
  <2> QED
    BY <1>0, <1>1, <2>2, <2>3, <2>4, <2>5, <2>6 DEF TypeOK
<1>7. ASSUME NEW s \in Sessions, WriteReport(s)
      PROVE  TypeOK'
  BY <1>0, <1>1, <1>7 DEF WriteReport, TypeOK, Goto, market, locals, history
<1>8. ASSUME NEW s \in Sessions,
             \/ WriteRequest(s) \/ WritesDone(s)
             \/ PrintReport(s) \/ EndReports(s) \/ Finish(s) \/ Fail(s)
      PROVE  TypeOK'
  BY <1>0, <1>1, <1>8, ClientSteps DEF TypeOK, market, locals, history
<1>9. ASSUME NEW c \in Cancelers, NEW i \in OrderId, ReceiveCancel(c, i)
      PROVE  TypeOK'
  <2>1. i \in 0 .. MaxOrders
    BY DEF OrderId
  <2>2. oid' = [oid EXCEPT ![c] = i] /\ pc' = [pc EXCEPT ![c] = "lock"]
        /\ UNCHANGED <<market, lock, mine, cnt, report, call, history>>
    BY <1>9 DEF ReceiveCancel, Goto
  <2>3. oid' \in [Threads -> 0 .. MaxOrders]
    BY <1>0, <2>1, <2>2 DEF TypeOK
  <2> QED
    BY <1>0, <1>1, <2>2, <2>3 DEF TypeOK, market, history
<1>10. ASSUME NEW c \in Cancelers, CancelMiss(c)
       PROVE  TypeOK'
  <2>1. oid[c] \in 0 .. MaxOrders
    BY <1>0 DEF TypeOK, Threads
  <2>2. Report("CANCEL_REJECT", oid[c], 0, 0, 0) \in ExecutionReport
    BY <2>1, ReportType
  <2> QED
    BY <1>0, <1>1, <1>10, <2>2 DEF CancelMiss, TypeOK, Goto, market, history
<1>11. ASSUME NEW c \in Cancelers, CancelOrder(c)
       PROVE  TypeOK'
  <2> DEFINE i == oid[c]
             o == orders[i]
  <2>1. i \in OrderId /\ i \in 0 .. MaxOrders /\ o # NoOrder
    BY <1>11 DEF CancelOrder, At, MarketInv, Asked, OrderId
  <2>2. o \in Request /\ o.dir \in Side
    BY <1>0, <2>1 DEF TypeOK, MarketInv, Numbered
  <2>3. o.qty \in Nat /\ o.stock \in AnyStock
    BY <2>2 DEF Request, AnyStock
  <2>4. Report("CANCELED", i, o.qty, 0, 0) \in ExecutionReport
    BY <2>1, <2>3, ReportType
  <2>5. /\ book' = [book EXCEPT ![o.stock][o.dir] = @ \ {i}]
        /\ orders' = [orders EXCEPT ![i] = NoOrder]
        /\ report' = [report EXCEPT ![c] = Report("CANCELED", i, o.qty, 0, 0)]
        /\ withdrawn' = [withdrawn EXCEPT ![i] = o.qty]
        /\ pc' = [pc EXCEPT ![c] = "returned"]
        /\ UNCHANGED <<id, lock, oid, mine, cnt, call, placed, filled>>
    BY <1>11 DEF CancelOrder, Goto
  <2>6. book' \in [AnyStock -> [Side -> SUBSET OrderId]]
    BY <1>0, <2>2, <2>3, <2>5 DEF TypeOK
  <2> HIDE DEF i, o
  <2> QED
    BY <1>0, <1>1, <2>3, <2>4, <2>5, <2>6 DEF TypeOK
<1>12. CASE UNCHANGED vars
  BY <1>0, <1>12 DEF TypeOK, vars, market, locals, history
<1> QED
  BY <1>2, <1>3, <1>4, <1>5, <1>6, <1>7, <1>8, <1>9, <1>10, <1>11, <1>12, StepCases

-----------------------------------------------------------------------------
(* The lock and who works on what *)

\* Every step keeps process_mutex with the thread in its region.
LEMMA LockStep ==
  ASSUME MarketInv, [Next]_vars
  PROVE  LockHeld'
<1>0. /\ TypeOK /\ LockHeld
      /\ Free \notin Sessions
      /\ \A s \in Sessions : s \in Threads /\ s \notin Cancelers
  BY DEF MarketInv, Threads
<1>1. ASSUME NEW s \in Sessions, ReadRequest(s)
      PROVE  LockHeld'
  <2>1. /\ pc[s] = "read" /\ lock' = lock
        /\ pc' = [pc EXCEPT ![s] = "lock"] \/ pc' = [pc EXCEPT ![s] = "write"]
    BY <1>1 DEF ReadRequest, At, Goto
  <2> QED
    BY <1>0, <2>1 DEF LockHeld, TypeOK
<1>2. ASSUME NEW s \in Sessions, EndRequests(s)
      PROVE  LockHeld'
  BY <1>0, <1>2 DEF EndRequests, LockHeld, TypeOK, At, Goto
<1>3. ASSUME NEW s \in Sessions, CreateOrder(s)
      PROVE  LockHeld'
  BY <1>0, <1>3 DEF CreateOrder, LockHeld, TypeOK, At, Goto
<1>4. ASSUME NEW s \in Sessions, NEW r \in OrderId, Fill(s, r)
      PROVE  LockHeld'
  BY <1>0, <1>4 DEF Fill, LockHeld
<1>5. ASSUME NEW s \in Sessions, Settle(s)
      PROVE  LockHeld'
  BY <1>0, <1>5 DEF Settle, LockHeld, TypeOK, At, Goto
<1>6. ASSUME NEW s \in Sessions, WriteReport(s)
      PROVE  LockHeld'
  BY <1>0, <1>6 DEF WriteReport, LockHeld, TypeOK, At, Goto
<1>7. ASSUME NEW s \in Sessions,
             \/ WriteRequest(s) \/ WritesDone(s)
             \/ PrintReport(s) \/ EndReports(s) \/ Finish(s) \/ Fail(s)
      PROVE  LockHeld'
  BY <1>0, <1>7, ClientSteps DEF LockHeld
<1>8. ASSUME NEW c \in Cancelers, NEW i \in OrderId, ReceiveCancel(c, i)
      PROVE  LockHeld'
  BY <1>0, <1>8 DEF ReceiveCancel, LockHeld, TypeOK, At, Goto
<1>9. ASSUME NEW c \in Cancelers, CancelMiss(c)
      PROVE  LockHeld'
  BY <1>0, <1>9 DEF CancelMiss, LockHeld, TypeOK, At, Goto
<1>10. ASSUME NEW c \in Cancelers, CancelOrder(c)
       PROVE  LockHeld'
  BY <1>0, <1>10 DEF CancelOrder, LockHeld, TypeOK, At, Goto
<1>11. CASE UNCHANGED vars
  BY <1>0, <1>11 DEF LockHeld, vars
<1> QED
  BY <1>1, <1>2, <1>3, <1>4, <1>5, <1>6, <1>7, <1>8, <1>9, <1>10, <1>11, StepCases

\* While a session is at "match", no other is, and process_mutex is not free.
LEMMA Alone ==
  ASSUME MarketInv, NEW s \in Sessions, pc[s] = "match"
  PROVE  /\ lock = s /\ lock # Free
         /\ \A t \in Sessions : pc[t] = "match" => t = s
  BY DEF MarketInv, LockHeld, Threads

\* With process_mutex free, nobody is at "match".
LEMMA Nobody ==
  ASSUME MarketInv, lock = Free
  PROVE  \A t \in Sessions : pc[t] # "match"
  BY DEF MarketInv, LockHeld, Threads

\* Every step keeps the cancellations to order numbers.
LEMMA AskedStep ==
  ASSUME MarketInv, [Next]_vars
  PROVE  Asked'
<1>0. /\ TypeOK /\ Asked
      /\ \A c \in Cancelers : c \in Threads /\ c \notin Sessions
  BY DEF MarketInv, Threads
<1>1. ASSUME NEW s \in Sessions,
             \/ ReadRequest(s) \/ EndRequests(s) \/ CreateOrder(s)
             \/ Settle(s) \/ WriteReport(s)
      PROVE  Asked'
  <2>1. /\ \A c \in Cancelers : pc'[c] = pc[c] /\ oid'[c] = oid[c]
    BY <1>0, <1>1
       DEF ReadRequest, EndRequests, CreateOrder, Settle, WriteReport, Goto, TypeOK, locals
  <2> QED
    BY <1>0, <2>1 DEF Asked
<1>2. ASSUME NEW s \in Sessions, NEW r \in OrderId, Fill(s, r)
      PROVE  Asked'
  BY <1>0, <1>2 DEF Fill, Asked
<1>3. ASSUME NEW s \in Sessions,
             \/ WriteRequest(s) \/ WritesDone(s)
             \/ PrintReport(s) \/ EndReports(s) \/ Finish(s) \/ Fail(s)
      PROVE  Asked'
  BY <1>0, <1>3, ClientSteps DEF Asked, locals
<1>4. ASSUME NEW c \in Cancelers, NEW i \in OrderId, ReceiveCancel(c, i)
      PROVE  Asked'
  BY <1>0, <1>4 DEF ReceiveCancel, Asked, TypeOK, Goto
<1>5. ASSUME NEW c \in Cancelers, CancelMiss(c) \/ CancelOrder(c)
      PROVE  Asked'
  <2>1. oid' = oid /\ pc' = [pc EXCEPT ![c] = "returned"]
    BY <1>5 DEF CancelMiss, CancelOrder, Goto
  <2> QED
    BY <1>0, <2>1 DEF Asked, TypeOK
<1>6. CASE UNCHANGED vars
  BY <1>0, <1>6 DEF Asked, vars, locals
<1> QED
  BY <1>1, <1>2, <1>3, <1>4, <1>5, <1>6, StepCases

\* The steps that touch neither the market nor a session that has to do with it.
LEMMA QuietSteps ==
  ASSUME MarketInv, NEW s \in Sessions,
         \/ EndRequests(s) \/ WriteReport(s)
         \/ WriteRequest(s) \/ WritesDone(s)
         \/ PrintReport(s) \/ EndReports(s) \/ Finish(s) \/ Fail(s)
  PROVE  /\ UNCHANGED <<market, lock, locals, history>>
         /\ \A t \in Sessions : pc'[t] = pc[t] \/ pc'[t] \in {"read", "returned"}
<1>1. CASE EndRequests(s) \/ WriteReport(s)
  <2>1. /\ pc' = [pc EXCEPT ![s] = "read"] \/ pc' = [pc EXCEPT ![s] = "returned"]
        /\ UNCHANGED <<market, lock, locals, history>>
    BY <1>1 DEF EndRequests, WriteReport, Goto
  <2>2. pc \in [Threads -> {"read", "lock", "match", "write", "idle", "returned"}]
    BY DEF MarketInv, TypeOK
  <2>3. \A t \in Sessions : t \in Threads
    BY DEF Threads
  <2> QED
    BY <2>1, <2>2, <2>3
<1>2. CASE \/ WriteRequest(s) \/ WritesDone(s)
           \/ PrintReport(s) \/ EndReports(s) \/ Finish(s) \/ Fail(s)
  BY <1>2, ClientSteps
<1> QED
  BY <1>1, <1>2

\* A cancellation that is asked for or finds nothing touches no session and
\* nothing of the market.
LEMMA QuietCancels ==
  ASSUME MarketInv, NEW c \in Cancelers,
         (\E i \in OrderId : ReceiveCancel(c, i)) \/ CancelMiss(c)
  PROVE  /\ UNCHANGED <<market, lock, mine, cnt, call, history>>
         /\ \A t \in Sessions : pc'[t] = pc[t] /\ oid'[t] = oid[t] /\ report'[t] = report[t]
<1>1. c \notin Sessions /\ \A t \in Sessions : t \in Threads
  BY DEF Threads
<1> QED
  BY <1>1 DEF ReceiveCancel, CancelMiss, Goto, MarketInv, TypeOK

\* What CancelOrder takes away, and that no session is in the way.
LEMMA CancelFacts ==
  ASSUME MarketInv, NEW c \in Cancelers, CancelOrder(c)
  PROVE  /\ lock = Free /\ \A t \in Sessions : pc[t] # "match"
         /\ oid[c] \in OrderId
         /\ orders[oid[c]] \in Request /\ orders[oid[c]].qty \in Nat
         /\ orders[oid[c]].stock \in AnyStock /\ orders[oid[c]].dir \in Side
         /\ orders' = [orders EXCEPT ![oid[c]] = NoOrder]
         /\ book' = [book EXCEPT ![orders[oid[c]].stock][orders[oid[c]].dir] = @ \ {oid[c]}]
         /\ UNCHANGED <<id, lock, oid, mine, cnt, call, placed, filled>>
         /\ \A t \in Sessions : pc'[t] = pc[t] /\ report'[t] = report[t]
<1>1. /\ lock = Free /\ pc[c] = "lock" /\ orders[oid[c]] # NoOrder
      /\ orders' = [orders EXCEPT ![oid[c]] = NoOrder]
      /\ book' = [book EXCEPT ![orders[oid[c]].stock][orders[oid[c]].dir] = @ \ {oid[c]}]
      /\ UNCHANGED <<id, lock, oid, mine, cnt, call, placed, filled>>
  BY DEF CancelOrder, At
<1>2. oid[c] \in OrderId
  BY <1>1 DEF MarketInv, Asked
<1>3. orders[oid[c]] \in Request /\ orders[oid[c]].dir \in Side
  BY <1>1, <1>2 DEF MarketInv, TypeOK, Numbered
<1>4. orders[oid[c]].qty \in Nat /\ orders[oid[c]].stock \in AnyStock
  BY <1>3 DEF Request, AnyStock
<1>5. c \notin Sessions /\ \A t \in Sessions : t \in Threads
  BY DEF Threads
<1>6. \A t \in Sessions : pc'[t] = pc[t] /\ report'[t] = report[t]
  BY <1>5 DEF CancelOrder, Goto, MarketInv, TypeOK
<1> QED
  BY <1>1, <1>2, <1>3, <1>4, <1>6, Nobody

\* What a pass of the loop trades, and what it leaves of the resting order.
Amount(s, r) == Least(orders[r].qty, mine[s].qty - cnt[s])
Left(s, r)   == orders[r].qty - Amount(s, r)

\* What Fill changes.
LEMMA FillEffect ==
  ASSUME MarketInv, NEW s \in Sessions, NEW r \in OrderId, Fill(s, r)
  PROVE  /\ Amount(s, r) \in Nat /\ Left(s, r) \in Nat
         /\ cnt' = [cnt EXCEPT ![s] = cnt[s] + Amount(s, r)]
         /\ cnt[s] + Amount(s, r) <= mine[s].qty
         /\ orders' = [orders EXCEPT ![r] = IF Left(s, r) = 0 THEN NoOrder
                                            ELSE [orders[r] EXCEPT !.qty = Left(s, r)]]
         /\ book' = [book EXCEPT ![mine[s].stock][Opp(mine[s].dir)] =
                        IF Left(s, r) = 0 THEN @ \ {r} ELSE @]
         /\ UNCHANGED <<id, lock, pc, oid, mine, report, call, history>>
<1>1. Amount(s, r) \in Nat /\ Left(s, r) \in Nat /\ cnt[s] + Amount(s, r) <= mine[s].qty
  BY FillFacts DEF Amount, Left
<1>2. /\ cnt' = [cnt EXCEPT ![s] = cnt[s] + Amount(s, r)]
      /\ orders' = [orders EXCEPT ![r] = IF Left(s, r) = 0 THEN NoOrder
                                         ELSE [orders[r] EXCEPT !.qty = Left(s, r)]]
      /\ book' = [book EXCEPT ![mine[s].stock][Opp(mine[s].dir)] =
                     IF Left(s, r) = 0 THEN @ \ {r} ELSE @]
      /\ UNCHANGED <<id, lock, pc, oid, mine, report, call, history>>
  BY DEF Fill, Amount, Left, MarketInv, TypeOK
<1> QED
  BY <1>1, <1>2

\* Every step keeps the numbers of orders in use at or below id.
LEMMA NumberedStep ==
  ASSUME MarketInv, [Next]_vars
  PROVE  Numbered'
<1>0. /\ Numbered /\ id \in Nat /\ orders \in [OrderId -> Request \cup {NoOrder}]
      /\ OrderId \subseteq Nat
  BY DEF MarketInv, TypeOK, OrderId
<1>1. ASSUME UNCHANGED market
      PROVE  Numbered'
  BY <1>0, <1>1 DEF Numbered, market
<1>2. ASSUME NEW s \in Sessions, CreateOrder(s)
      PROVE  Numbered'
  <2>1. mine[s].dir \in Side
    BY <1>2, MineType DEF CreateOrder, At
  <2>2. id' = id + 1 /\ orders' = [orders EXCEPT ![id + 1] = mine[s]]
    BY <1>2 DEF CreateOrder
  <2> QED
    BY <1>0, <2>1, <2>2 DEF Numbered
<1>3. ASSUME NEW s \in Sessions, NEW r \in OrderId, Fill(s, r)
      PROVE  Numbered'
  <2>1. /\ orders[r] \in Request /\ orders[r] # NoOrder
    BY <1>3, FillFacts
  <2> DEFINE left == Left(s, r)
  <2>2. /\ left \in Nat /\ Amount(s, r) \in Nat
        /\ cnt' = [cnt EXCEPT ![s] = cnt[s] + Amount(s, r)]
        /\ cnt[s] + Amount(s, r) <= mine[s].qty
        /\ orders' = [orders EXCEPT ![r] = IF left = 0 THEN NoOrder
                                           ELSE [orders[r] EXCEPT !.qty = left]]
        /\ book' = [book EXCEPT ![mine[s].stock][Opp(mine[s].dir)] =
                       IF left = 0 THEN @ \ {r} ELSE @]
        /\ UNCHANGED <<id, lock, pc, oid, mine, report, call, history>>
    BY <1>3, FillEffect
  <2> HIDE DEF left
  <2>3. [orders[r] EXCEPT !.qty = left].dir = orders[r].dir
    BY <2>1, Requantified
  <2>4. id' = id
    BY <1>3 DEF Fill
  <2> QED
    BY <1>0, <2>1, <2>2, <2>3, <2>4 DEF Numbered
<1>4. ASSUME NEW s \in Sessions, Settle(s)
      PROVE  Numbered'
  <2>1. pc[s] = "match"
    BY <1>4 DEF Settle, At
  <2>2. id' = id /\ orders' = [orders EXCEPT ![id] = Remainder(s)] /\ id \in OrderId
    BY <1>4, <2>1, RemainderType DEF Settle
  <2>3. Remainder(s) # NoOrder => Remainder(s).dir \in Side
    BY <2>1, RemainderType, MineType
  <2> QED
    BY <1>0, <2>2, <2>3 DEF Numbered
<1>5. ASSUME NEW c \in Cancelers, CancelOrder(c)
      PROVE  Numbered'
  <2>1. id' = id /\ orders' = [orders EXCEPT ![oid[c]] = NoOrder] /\ oid[c] \in OrderId
    BY <1>5, CancelFacts
  <2> QED
    BY <1>0, <2>1 DEF Numbered
<1>6. ASSUME NEW s \in Sessions, ReadRequest(s)
      PROVE  UNCHANGED market
  BY <1>6 DEF ReadRequest
<1>7. CASE UNCHANGED vars
  BY <1>1, <1>7 DEF vars
<1> QED
  BY <1>1, <1>2, <1>3, <1>4, <1>5, <1>6, <1>7, QuietSteps, QuietCancels, StepCases

\* The request ReadRequest reads, and where it leads.
LEMMA ReadFacts ==
  ASSUME MarketInv, NEW s \in Sessions, ReadRequest(s)
  PROVE  \E req \in Request :
           /\ req = call[s].file[call[s].taken + 1]
           /\ mine' = [mine EXCEPT ![s] = req]
           /\ report' = [report EXCEPT ![s] = Rejected(req)]
           /\ call' = [call EXCEPT ![s].taken = @ + 1]
           /\ pc[s] = "read"
           /\ pc' = [pc EXCEPT ![s] = IF Legal(req) THEN "lock" ELSE "write"]
           /\ UNCHANGED <<market, lock, oid, cnt, history>>
<1> DEFINE req == call[s].file[call[s].taken + 1]
<1>1. call[s] \in Call /\ InWindow(call[s]) /\ call[s].taken < call[s].sent
  BY DEF MarketInv, TypeOK, ReadRequest
<1>2. call[s].file \in Seq(Requests) /\ call[s].taken + 1 \in 1 .. Len(call[s].file)
  BY <1>1 DEF Call, InWindow
<1>3. req \in Request
  BY <1>2
<1> QED
  BY <1>3 DEF ReadRequest, Goto, At

\* Every step keeps what locked sessions have made of their requests.
LEMMA MatchingStep ==
  ASSUME MarketInv, [Next]_vars
  PROVE  Matching'
<1>0. /\ TypeOK /\ Matching
      /\ \A s \in Sessions : s \in Threads /\ s \notin Cancelers
  BY DEF MarketInv, Threads
<1>1. ASSUME UNCHANGED <<market, mine, cnt, placed>>,
             \A t \in Sessions : oid'[t] = oid[t],
             \A t \in Sessions : pc'[t] = pc[t] \/ pc'[t] \in {"read", "returned"}
      PROVE  Matching'
  BY <1>0, <1>1 DEF Matching, market
<1>2. ASSUME NEW s \in Sessions, ReadRequest(s)
      PROVE  Matching'
  <2>1. PICK req \in Request :
           /\ mine' = [mine EXCEPT ![s] = req]
           /\ pc' = [pc EXCEPT ![s] = IF Legal(req) THEN "lock" ELSE "write"]
           /\ UNCHANGED <<market, lock, oid, cnt, history>>
    BY <1>2, ReadFacts
  <2> QED
    BY <1>0, <2>1 DEF Matching, market, history, TypeOK
<1>3. ASSUME NEW s \in Sessions, CreateOrder(s)
      PROVE  Matching'
  <2>1. /\ id + 1 \in OrderId /\ id \in Nat /\ pc[s] = "lock" /\ lock = Free
        /\ id' = id + 1 /\ book' = book /\ mine' = mine
        /\ orders' = [orders EXCEPT ![id + 1] = mine[s]]
        /\ placed' = [placed EXCEPT ![id + 1] = mine[s]]
        /\ oid' = [oid EXCEPT ![s] = id + 1]
        /\ cnt' = [cnt EXCEPT ![s] = 0]
        /\ pc' = [pc EXCEPT ![s] = "match"]
    BY <1>0, <1>3 DEF CreateOrder, At, Goto, TypeOK, OrderId
  <2>2. Legal(mine[s]) /\ mine[s].qty \in Nat
    BY <1>0, <2>1, MineType DEF Matching
  <2>3. \A st \in AnyStock, d \in Side : id + 1 \notin book[st][d]
    BY <2>1 DEF MarketInv, BookInTable, Numbered
  <2>4. \A t \in Sessions : pc[t] # "match"
    BY <2>1, Nobody
  <2> QED
    BY <1>0, <2>1, <2>2, <2>3, <2>4 DEF Matching, TypeOK
<1>4. ASSUME NEW s \in Sessions, NEW r \in OrderId, Fill(s, r)
      PROVE  Matching'
  <2>1. /\ pc[s] = "match" /\ r # id
        /\ mine[s].stock \in AnyStock /\ Opp(mine[s].dir) \in Side
        /\ \A t \in Sessions : pc[t] = "match" => t = s
    BY <1>4, FillFacts, MineType, Alone
  <2> DEFINE left == Left(s, r)
  <2>2. /\ left \in Nat /\ Amount(s, r) \in Nat
        /\ cnt' = [cnt EXCEPT ![s] = cnt[s] + Amount(s, r)]
        /\ cnt[s] + Amount(s, r) <= mine[s].qty
        /\ orders' = [orders EXCEPT ![r] = IF left = 0 THEN NoOrder
                                           ELSE [orders[r] EXCEPT !.qty = left]]
        /\ book' = [book EXCEPT ![mine[s].stock][Opp(mine[s].dir)] =
                       IF left = 0 THEN @ \ {r} ELSE @]
        /\ UNCHANGED <<id, lock, pc, oid, mine, report, call, history>>
    BY <1>4, FillEffect
  <2> HIDE DEF left
  <2>3. \A st \in AnyStock, d \in Side : book'[st][d] \subseteq book[st][d]
    BY <1>0, <2>1, <2>2 DEF TypeOK
  <2>4. orders'[id] = orders[id]
    BY <1>0, <2>1, <2>2 DEF TypeOK, Matching
  <2>5. cnt'[s] <= mine[s].qty
    BY <1>0, <2>2 DEF TypeOK
  <2> QED
    BY <1>0, <2>1, <2>2, <2>3, <2>4, <2>5 DEF Matching, history
<1>5. ASSUME NEW s \in Sessions, Settle(s)
      PROVE  Matching'
  <2>1. /\ pc[s] = "match" /\ pc' = [pc EXCEPT ![s] = "write"] /\ mine' = mine
    BY <1>5 DEF Settle, At, Goto
  <2>2. \A t \in Sessions : pc[t] = "match" => t = s
    BY <2>1, Alone
  <2> QED
    BY <1>0, <2>1, <2>2 DEF Matching, TypeOK
<1>6. ASSUME NEW c \in Cancelers, CancelOrder(c)
      PROVE  Matching'
  <2>1. /\ mine' = mine /\ \A t \in Sessions : pc[t] # "match" /\ pc'[t] = pc[t]
    BY <1>6, CancelFacts
  <2> QED
    BY <1>0, <2>1 DEF Matching
<1>7. ASSUME NEW s \in Sessions,
             \/ EndRequests(s) \/ WriteReport(s)
             \/ WriteRequest(s) \/ WritesDone(s)
             \/ PrintReport(s) \/ EndReports(s) \/ Finish(s) \/ Fail(s)
      PROVE  Matching'
  BY <1>1, <1>7, QuietSteps DEF locals, history
<1>8. ASSUME NEW c \in Cancelers, (\E i \in OrderId : ReceiveCancel(c, i)) \/ CancelMiss(c)
      PROVE  Matching'
  BY <1>1, <1>8, QuietCancels DEF history
<1>9. CASE UNCHANGED vars
  BY <1>1, <1>9 DEF vars, locals, history
<1> QED
  BY <1>2, <1>3, <1>4, <1>5, <1>6, <1>7, <1>8, <1>9, StepCases

-----------------------------------------------------------------------------
(* The book *)

\* Every step that leaves the market alone and moves no session into or out of
\* the region of process_mutex keeps the book settled.
LEMMA BookUnchanged ==
  ASSUME MarketInv, UNCHANGED <<market, lock>>,
         \A t \in Sessions : oid'[t] = oid[t] /\ (pc'[t] = "match" <=> pc[t] = "match")
  PROVE  BookInTable' /\ TableInBook' /\ Uncrossed'
<1>1. BookInTable /\ TableInBook /\ Uncrossed
  BY DEF MarketInv
<1>2. BookInTable'
  BY <1>1 DEF BookInTable, market
<1>3. TableInBook'
  BY <1>1 DEF TableInBook, market, At
<1>4. Uncrossed'
  BY <1>1 DEF Uncrossed, market, Crosses, Ask
<1> QED
  BY <1>2, <1>3, <1>4

\* An order that is created does not rest yet.
LEMMA BookCreate ==
  ASSUME MarketInv, NEW s \in Sessions, CreateOrder(s)
  PROVE  BookInTable' /\ TableInBook' /\ Uncrossed'
<1>1. /\ BookInTable /\ TableInBook /\ Uncrossed /\ TypeOK
      /\ s \in Threads
  BY DEF MarketInv, Threads
<1>2. /\ id + 1 \in OrderId /\ id \in Nat /\ lock = Free
      /\ lock' = s /\ book' = book
      /\ orders' = [orders EXCEPT ![id + 1] = mine[s]]
      /\ oid' = [oid EXCEPT ![s] = id + 1]
      /\ pc' = [pc EXCEPT ![s] = "match"]
  BY <1>1 DEF CreateOrder, At, Goto, TypeOK, OrderId
<1>3. \A st \in AnyStock, d \in Side : id + 1 \notin book[st][d]
  BY <1>2 DEF MarketInv, BookInTable, Numbered
<1>4. \A t \in Sessions : pc[t] # "match"
  BY <1>2, Nobody
<1>5. \A st \in AnyStock, d \in Side : \A i \in book[st][d] : i \in OrderId /\ orders'[i] = orders[i]
  BY <1>1, <1>2, <1>3 DEF TypeOK
<1>6. BookInTable'
  BY <1>1, <1>2, <1>5 DEF BookInTable
<1>7. TableInBook'
  <2> SUFFICES ASSUME NEW i \in OrderId, orders'[i] # NoOrder
               PROVE  \/ i \in book'[orders'[i].stock][orders'[i].dir]
                      \/ \E t \in Sessions : pc'[t] = "match" /\ oid'[t] = i /\ lock' = t
    BY DEF TableInBook, At
  <2>1. CASE i = id + 1
    BY <1>1, <1>2, <2>1 DEF TypeOK
  <2>2. CASE i # id + 1
    <3>1. orders'[i] = orders[i]
      BY <1>1, <1>2, <2>2 DEF TypeOK
    <3> QED
      BY <1>1, <1>2, <1>4, <3>1 DEF TableInBook, At
  <2> QED
    BY <2>1, <2>2
<1>8. Uncrossed'
  BY <1>1, <1>2, <1>5 DEF Uncrossed, Crosses, Ask, Side
<1> QED
  BY <1>6, <1>7, <1>8

\* A pass of the loop takes the resting order out of both or of neither, and
\* changes no price.
LEMMA BookFill ==
  ASSUME MarketInv, NEW s \in Sessions, NEW r \in OrderId, Fill(s, r)
  PROVE  BookInTable' /\ TableInBook' /\ Uncrossed'
<1> DEFINE left == Left(s, r)
           st0  == mine[s].stock
           d0   == Opp(mine[s].dir)
<1>1. /\ BookInTable /\ TableInBook /\ Uncrossed
      /\ orders \in [OrderId -> Request \cup {NoOrder}]
      /\ book \in [AnyStock -> [Side -> SUBSET OrderId]]
  BY DEF MarketInv, TypeOK
<1>2. /\ r \in book[st0][d0] /\ orders[r] \in Request /\ orders[r] # NoOrder
      /\ orders[r].stock = st0 /\ orders[r].dir = d0 /\ pc[s] = "match"
  BY FillFacts
<1>3. st0 \in AnyStock /\ d0 \in Side
  BY <1>2, MineType
<1>4. /\ left \in Nat
      /\ orders' = [orders EXCEPT ![r] = IF left = 0 THEN NoOrder
                                         ELSE [orders[r] EXCEPT !.qty = left]]
      /\ book' = [book EXCEPT ![st0][d0] = IF left = 0 THEN @ \ {r} ELSE @]
      /\ UNCHANGED <<lock, pc, oid>>
  BY FillEffect
<1> DEFINE o == [orders[r] EXCEPT !.qty = left]
<1>5. /\ o # NoOrder /\ o.qty = left /\ o.stock = st0 /\ o.dir = d0
      /\ o.kind = orders[r].kind /\ o.price = orders[r].price
  BY <1>2, <1>4, Requantified
<1> HIDE DEF left, st0, d0, o
<1>6. \A i \in OrderId : orders'[i] = IF i = r THEN IF left = 0 THEN NoOrder ELSE o ELSE orders[i]
  BY <1>1, <1>4 DEF o
<1>7. \A st \in AnyStock, d \in Side :
        book'[st][d] = IF st = st0 /\ d = d0 /\ left = 0 THEN book[st][d] \ {r} ELSE book[st][d]
  BY <1>1, <1>3, <1>4
<1>8. BookInTable'
  <2> SUFFICES ASSUME NEW st \in AnyStock, NEW d \in Side, NEW i \in book'[st][d]
               PROVE  /\ orders'[i] # NoOrder /\ orders'[i].stock = st
                      /\ orders'[i].dir = d /\ orders'[i].qty > 0
    BY DEF BookInTable
  <2>0. i \in book[st][d]
    BY <1>7
  <2>1. i \in book[st][d] /\ i \in OrderId
    BY <1>1, <2>0
  <2>2. orders[i] # NoOrder /\ orders[i].stock = st /\ orders[i].dir = d /\ orders[i].qty > 0
    BY <1>1, <2>1 DEF BookInTable
  <2>3. CASE i = r
    <3>1. left # 0
      BY <1>2, <1>7, <2>2, <2>3
    <3> QED
      BY <1>2, <1>4, <1>5, <1>6, <2>1, <2>2, <2>3, <3>1
  <2>4. CASE i # r
    BY <1>6, <2>1, <2>2, <2>4
  <2> QED
    BY <2>3, <2>4
<1>9. TableInBook'
  <2> SUFFICES ASSUME NEW i \in OrderId, orders'[i] # NoOrder
               PROVE  \/ i \in book'[orders'[i].stock][orders'[i].dir]
                      \/ \E t \in Sessions : pc'[t] = "match" /\ oid'[t] = i /\ lock' = t
    BY DEF TableInBook, At
  <2>1. CASE i = r
    <3>1. left # 0 /\ orders'[i] = o
      BY <1>6, <2>1
    <3> QED
      BY <1>2, <1>3, <1>5, <1>7, <2>1, <3>1
  <2>2. CASE i # r
    <3>1. orders'[i] = orders[i]
      BY <1>6, <2>2
    <3>2. orders[i].stock \in AnyStock /\ orders[i].dir \in Side
      BY <1>1, <3>1 DEF Request, AnyStock, MarketInv, Numbered
    <3> QED
      BY <1>1, <1>4, <1>7, <2>2, <3>1, <3>2 DEF TableInBook, At
  <2> QED
    BY <2>1, <2>2
<1>10. Uncrossed'
  <2> SUFFICES ASSUME NEW st \in AnyStock, NEW a \in book'[st]["SELL"], NEW b \in book'[st]["BUY"]
               PROVE  ~Crosses(orders'[a], orders'[b])
    BY DEF Uncrossed, Crosses, Ask
  <2>1. a \in book[st]["SELL"] /\ b \in book[st]["BUY"] /\ a \in OrderId /\ b \in OrderId
    <3>1. \A d \in Side : book'[st][d] \subseteq book[st][d] /\ book[st][d] \subseteq OrderId
      BY <1>1, <1>7
    <3> QED
      BY <3>1 DEF Side
  <2>2. ~Crosses(orders[a], orders[b])
    BY <1>1, <2>1 DEF Uncrossed
  <2>3. orders'[a] # NoOrder /\ orders'[b] # NoOrder
    BY <1>8 DEF BookInTable, Side
  <2>4. /\ orders'[a].kind = orders[a].kind /\ orders'[a].price = orders[a].price
        /\ orders'[b].price = orders[b].price
    BY <1>5, <1>6, <2>1, <2>3
  <2> QED
    BY <2>2, <2>4, CrossesAlike
<1> QED
  BY <1>8, <1>9, <1>10

\* What is left of an order rests against nothing it could have traded with.
LEMMA BookSettle ==
  ASSUME MarketInv, NEW s \in Sessions, Settle(s)
  PROVE  BookInTable' /\ TableInBook' /\ Uncrossed'
<1> DEFINE o   == Remainder(s)
           st0 == mine[s].stock
           d0  == mine[s].dir
<1>1. /\ BookInTable /\ TableInBook /\ Uncrossed
      /\ orders \in [OrderId -> Request \cup {NoOrder}]
      /\ book \in [AnyStock -> [Side -> SUBSET OrderId]]
  BY DEF MarketInv, TypeOK
<1>2. pc[s] = "match" /\ Fits(s) = {}
  BY DEF Settle, At
<1>3. /\ oid[s] = id /\ id \in OrderId
      /\ o # NoOrder =>
           /\ o.qty > 0 /\ o.stock = st0 /\ o.dir = d0
           /\ o.kind = mine[s].kind /\ o.price = mine[s].price
           /\ cnt[s] < mine[s].qty
  BY <1>2, RemainderType
<1>4. st0 \in AnyStock /\ d0 \in Side /\ Opp(d0) \in Side
  BY <1>2, MineType
<1>5. /\ orders' = [orders EXCEPT ![id] = o]
      /\ book' = [book EXCEPT ![st0][d0] = IF o = NoOrder THEN @ ELSE @ \cup {id}]
  BY <1>3 DEF Settle
<1>6. o # NoOrder => \A q \in book[st0][Opp(d0)] : ~Matches(mine[s], orders[q])
  BY <1>2, <1>3 DEF Fits
<1>7. \A st \in AnyStock, d \in Side : id \notin book[st][d]
  BY <1>2 DEF MarketInv, Matching
<1>8. \A t \in Sessions : pc[t] = "match" => oid[t] = id
  BY DEF MarketInv, Matching
<1> HIDE DEF o, st0, d0
<1>9. \A i \in OrderId : orders'[i] = IF i = id THEN o ELSE orders[i]
  BY <1>1, <1>5
<1>10. \A st \in AnyStock, d \in Side :
         book'[st][d] = IF st = st0 /\ d = d0 /\ o # NoOrder THEN book[st][d] \cup {id} ELSE book[st][d]
  BY <1>1, <1>4, <1>5
<1>11. BookInTable'
  <2> SUFFICES ASSUME NEW st \in AnyStock, NEW d \in Side, NEW i \in book'[st][d]
               PROVE  /\ orders'[i] # NoOrder /\ orders'[i].stock = st
                      /\ orders'[i].dir = d /\ orders'[i].qty > 0
    BY DEF BookInTable
  <2>1. CASE i \in book[st][d]
    <3>1. orders[i] # NoOrder /\ orders[i].stock = st /\ orders[i].dir = d /\ orders[i].qty > 0
      BY <1>1, <2>1 DEF BookInTable
    <3>2. i \in OrderId /\ i # id
      BY <1>1, <1>7, <2>1
    <3> QED
      BY <1>9, <3>1, <3>2
  <2>2. CASE i \notin book[st][d]
    <3>1. i = id /\ st = st0 /\ d = d0 /\ o # NoOrder
      BY <1>10, <2>2
    <3> QED
      BY <1>3, <1>9, <3>1
  <2> QED
    BY <2>1, <2>2
<1>12. TableInBook'
  <2> SUFFICES ASSUME NEW i \in OrderId, orders'[i] # NoOrder
               PROVE  i \in book'[orders'[i].stock][orders'[i].dir]
    BY DEF TableInBook
  <2>1. CASE i = id
    <3>1. orders'[i] = o /\ o # NoOrder
      BY <1>9, <2>1
    <3>2. orders'[i].stock = st0 /\ orders'[i].dir = d0
      BY <1>3, <3>1
    <3>3. id \in book'[st0][d0]
      BY <1>4, <1>10, <3>1
    <3> QED
      BY <2>1, <3>2, <3>3
  <2>2. CASE i # id
    <3>1. orders'[i] = orders[i]
      BY <1>9, <2>2
    <3>2. orders[i].stock \in AnyStock /\ orders[i].dir \in Side
      BY <1>1, <3>1 DEF Request, AnyStock, MarketInv, Numbered
    <3>3. i \in book[orders[i].stock][orders[i].dir]
      BY <1>1, <1>8, <2>2, <3>1 DEF TableInBook, At
    <3> QED
      BY <1>10, <3>1, <3>2, <3>3
  <2> QED
    BY <2>1, <2>2
<1>13. Uncrossed'
  <2> SUFFICES ASSUME NEW st \in AnyStock, NEW a \in book'[st]["SELL"], NEW b \in book'[st]["BUY"]
               PROVE  ~Crosses(orders'[a], orders'[b])
    BY DEF Uncrossed, Crosses, Ask
  <2>1. CASE a \in book[st]["SELL"] /\ b \in book[st]["BUY"]
    <3>1. a \in OrderId /\ b \in OrderId /\ a # id /\ b # id
      BY <1>1, <1>7, <2>1 DEF Side
    <3> QED
      BY <1>1, <1>9, <2>1, <3>1 DEF Uncrossed
  <2>2. CASE a \notin book[st]["SELL"]
    <3>1. a = id /\ st = st0 /\ d0 = "SELL" /\ o # NoOrder /\ b \in book[st]["BUY"]
      BY <1>10, <2>2 DEF Side
    <3>2. b \in OrderId /\ b # id
      BY <1>1, <1>7, <3>1 DEF Side
    <3>3. ~Crosses(mine[s], orders[b])
      BY <1>6, <3>1 DEF Matches, Opp, d0
    <3> QED
      BY <1>3, <1>9, <3>1, <3>2, <3>3, CrossesAlike
  <2>3. CASE b \notin book[st]["BUY"]
    <3>1. b = id /\ st = st0 /\ d0 = "BUY" /\ o # NoOrder /\ a \in book[st]["SELL"]
      BY <1>10, <2>3 DEF Side
    <3>2. a \in OrderId /\ a # id
      BY <1>1, <1>7, <3>1 DEF Side
    <3>3. ~Crosses(orders[a], mine[s])
      BY <1>6, <3>1 DEF Matches, Opp, d0
    <3> QED
      BY <1>3, <1>9, <3>1, <3>2, <3>3, CrossesAlike
  <2> QED
    BY <2>1, <2>2, <2>3
<1> QED
  BY <1>11, <1>12, <1>13

\* A cancelled order leaves its set and the table.
LEMMA BookCancel ==
  ASSUME MarketInv, NEW c \in Cancelers, CancelOrder(c)
  PROVE  BookInTable' /\ TableInBook' /\ Uncrossed'
<1> DEFINE i0  == oid[c]
           st0 == orders[i0].stock
           d0  == orders[i0].dir
<1>1. /\ BookInTable /\ TableInBook /\ Uncrossed
      /\ orders \in [OrderId -> Request \cup {NoOrder}]
      /\ book \in [AnyStock -> [Side -> SUBSET OrderId]]
  BY DEF MarketInv, TypeOK
<1>2. /\ i0 \in OrderId /\ st0 \in AnyStock /\ d0 \in Side
      /\ \A t \in Sessions : pc[t] # "match"
      /\ orders' = [orders EXCEPT ![i0] = NoOrder]
      /\ book' = [book EXCEPT ![st0][d0] = @ \ {i0}]
  BY CancelFacts
<1>3. \A st \in AnyStock, d \in Side : i0 \in book[st][d] => st = st0 /\ d = d0
  BY <1>1 DEF BookInTable
<1> HIDE DEF i0, st0, d0
<1>4. \A i \in OrderId : orders'[i] = IF i = i0 THEN NoOrder ELSE orders[i]
  BY <1>1, <1>2
<1>5. \A st \in AnyStock, d \in Side : book'[st][d] = book[st][d] \ {i0}
  BY <1>1, <1>2, <1>3
<1>6. \A st \in AnyStock, d \in Side : \A i \in book'[st][d] :
        i \in book[st][d] /\ i \in OrderId /\ orders'[i] = orders[i]
  BY <1>1, <1>4, <1>5
<1>7. BookInTable'
  BY <1>1, <1>6 DEF BookInTable
<1>8. TableInBook'
  <2> SUFFICES ASSUME NEW i \in OrderId, orders'[i] # NoOrder
               PROVE  i \in book'[orders'[i].stock][orders'[i].dir]
    BY DEF TableInBook
  <2>1. i # i0 /\ orders'[i] = orders[i]
    BY <1>4
  <2>2. orders[i].stock \in AnyStock /\ orders[i].dir \in Side
    BY <1>1, <2>1 DEF Request, AnyStock, MarketInv, Numbered
  <2>3. i \in book[orders[i].stock][orders[i].dir]
    BY <1>1, <1>2, <2>1 DEF TableInBook, At
  <2> QED
    BY <1>5, <2>1, <2>2, <2>3
<1>9. Uncrossed'
  BY <1>1, <1>6 DEF Uncrossed, Crosses, Ask, Side
<1> QED
  BY <1>7, <1>8, <1>9

\* Every step keeps the book settled.
LEMMA BookStep ==
  ASSUME MarketInv, [Next]_vars
  PROVE  BookInTable' /\ TableInBook' /\ Uncrossed'
<1>1. ASSUME NEW s \in Sessions, ReadRequest(s)
      PROVE  BookInTable' /\ TableInBook' /\ Uncrossed'
  <2>1. PICK req \in Request :
           /\ pc[s] = "read" /\ pc' = [pc EXCEPT ![s] = IF Legal(req) THEN "lock" ELSE "write"]
           /\ UNCHANGED <<market, lock, oid, cnt, history>>
    BY <1>1, ReadFacts
  <2>2. pc \in [Threads -> {"read", "lock", "match", "write", "idle", "returned"}]
        /\ \A t \in Sessions : t \in Threads
    BY DEF MarketInv, TypeOK, Threads
  <2> QED
    BY <2>1, <2>2, BookUnchanged
<1>2. ASSUME NEW s \in Sessions,
             \/ EndRequests(s) \/ WriteReport(s)
             \/ WriteRequest(s) \/ WritesDone(s)
             \/ PrintReport(s) \/ EndReports(s) \/ Finish(s) \/ Fail(s)
      PROVE  BookInTable' /\ TableInBook' /\ Uncrossed'
  <2>1. UNCHANGED <<market, lock, oid>>
    BY <1>2, QuietSteps DEF locals
  <2>2. \A t \in Sessions : pc'[t] = "match" <=> pc[t] = "match"
    BY <2>1, LockStep DEF MarketInv, LockHeld
  <2> QED
    BY <2>1, <2>2, BookUnchanged
<1>3. ASSUME NEW c \in Cancelers, (\E i \in OrderId : ReceiveCancel(c, i)) \/ CancelMiss(c)
      PROVE  BookInTable' /\ TableInBook' /\ Uncrossed'
  BY <1>3, QuietCancels, BookUnchanged
<1>4. CASE UNCHANGED vars
  BY <1>4, BookUnchanged DEF vars, locals
<1> QED
  BY <1>1, <1>2, <1>3, <1>4, BookCreate, BookFill, BookSettle, BookCancel, StepCases

-----------------------------------------------------------------------------
(* The answers *)

\* What the step does to the orders that are settled: nothing a report is about.
Frame ==
  \A i \in 0 .. MaxOrders :
    Settled(i) => /\ Settled(i)'
                  /\ i # 0 => placed'[i] = placed[i] /\ filled'[i] = filled[i]

\* No step changes what was accepted or traded of a settled order.
LEMMA FrameStep ==
  ASSUME MarketInv, [Next]_vars
  PROVE  Frame
<1>1. ASSUME UNCHANGED <<id, lock, placed, filled>>
      PROVE  Frame
  BY <1>1 DEF Frame, Settled
<1>2. ASSUME NEW s \in Sessions, CreateOrder(s)
      PROVE  Frame
  <2>1. /\ id \in Nat /\ id' = id + 1 /\ filled' = filled
        /\ placed' = [placed EXCEPT ![id + 1] = mine[s]]
        /\ placed \in [OrderId -> Request \cup {NoOrder}]
    BY <1>2 DEF CreateOrder, MarketInv, TypeOK
  <2>2. \A i \in 0 .. MaxOrders : i # 0 => i \in OrderId
    BY DEF OrderId
  <2> QED
    BY <2>1, <2>2 DEF Frame, Settled
<1>3. ASSUME NEW s \in Sessions, Settle(s)
      PROVE  Frame
  <2>1. pc[s] = "match"
    BY <1>3 DEF Settle, At
  <2>2. /\ id' = id /\ lock' = Free /\ placed' = placed
        /\ filled' = [filled EXCEPT ![id] = cnt[s]]
    BY <1>3, <2>1, RemainderType DEF Settle
  <2>3. lock # Free /\ filled \in [OrderId -> Nat]
    BY <2>1, Alone DEF MarketInv, TypeOK
  <2>4. \A i \in 0 .. MaxOrders : i # 0 => i \in OrderId
    BY DEF OrderId
  <2> QED
    BY <2>2, <2>3, <2>4 DEF Frame, Settled
<1>4. ASSUME NEW s \in Sessions, ReadRequest(s)
      PROVE  Frame
  BY <1>1, <1>4 DEF ReadRequest, market, history
<1>5. ASSUME NEW s \in Sessions, NEW r \in OrderId, Fill(s, r)
      PROVE  Frame
  BY <1>1, <1>5 DEF Fill, history
<1>6. ASSUME NEW s \in Sessions,
             \/ EndRequests(s) \/ WriteReport(s)
             \/ WriteRequest(s) \/ WritesDone(s)
             \/ PrintReport(s) \/ EndReports(s) \/ Finish(s) \/ Fail(s)
      PROVE  Frame
  BY <1>1, <1>6, QuietSteps DEF market, history
<1>7. ASSUME NEW c \in Cancelers, (\E i \in OrderId : ReceiveCancel(c, i)) \/ CancelMiss(c)
      PROVE  Frame
  BY <1>1, <1>7, QuietCancels DEF market, history
<1>8. ASSUME NEW c \in Cancelers, CancelOrder(c)
      PROVE  Frame
  BY <1>1, <1>8, CancelFacts
<1>9. CASE UNCHANGED vars
  BY <1>1, <1>9 DEF vars, market, history
<1> QED
  BY <1>2, <1>3, <1>4, <1>5, <1>6, <1>7, <1>8, <1>9, StepCases

\* The types of a session's call and report.
LEMMA CallType ==
  ASSUME TypeOK, NEW t \in Sessions
  PROVE  /\ call[t].answers \in Seq(ExecutionReport)
         /\ Len(call[t].answers) \in Nat
         /\ DOMAIN call[t].answers = 1 .. Len(call[t].answers)
         /\ \A k \in DOMAIN call[t].answers :
              call[t].answers[k] \in ExecutionReport /\ call[t].answers[k].order \in 0 .. MaxOrders
         /\ call[t].taken \in Nat /\ call[t].file \in Seq(Requests)
         /\ report[t] \in ExecutionReport /\ report[t].order \in 0 .. MaxOrders
<1>1. call[t] \in Call /\ report[t] \in ExecutionReport
  BY DEF TypeOK, Threads
<1>2. /\ call[t].answers \in Seq(ExecutionReport) /\ call[t].taken \in Nat
      /\ call[t].file \in Seq(Requests)
  BY <1>1 DEF Call
<1>3. /\ Len(call[t].answers) \in Nat /\ DOMAIN call[t].answers = 1 .. Len(call[t].answers)
      /\ \A k \in DOMAIN call[t].answers : call[t].answers[k] \in ExecutionReport
  BY <1>2, LenProperties, ElementOfSeq
<1>4. \A r \in ExecutionReport : r.order \in 0 .. MaxOrders
  BY DEF ExecutionReport
<1> QED
  BY <1>1, <1>2, <1>3, <1>4

\* A session whose requests, answers and report stay as they are keeps its part.
LEMMA SessionKept ==
  ASSUME IInv, Frame, NEW t \in Sessions,
         call'[t].answers = call[t].answers, call'[t].file = call[t].file,
         call'[t].taken = call[t].taken,
         call'[t].conn # "gone" => call[t].conn # "gone",
         mine'[t] = mine[t], report'[t] = report[t],
         \/ pc'[t] = pc[t]
         \/ pc[t] = "lock" /\ pc'[t] = "match"
         \/ pc[t] = "read" /\ pc'[t] = "returned"
  PROVE  InTurn(t)' /\ AtWork(t)'
<1>1. InTurn(t) /\ AtWork(t)
  BY DEF IInv, Answered, Working
<1>2. /\ \A k \in DOMAIN call[t].answers : call[t].answers[k].order \in 0 .. MaxOrders
      /\ report[t].order \in 0 .. MaxOrders
  BY CallType DEF IInv, MarketInv
<1>3. \A k \in DOMAIN call[t].answers :
        LET i == call[t].answers[k].order
        IN  /\ Settled(i) /\ Settled(i)'
            /\ i # 0 => placed'[i] = placed[i] /\ filled'[i] = filled[i]
  BY <1>1, <1>2 DEF AtWork, Frame, Settled
<1>4. InTurn(t)'
  <2>1. call'[t].conn # "gone" =>
          call'[t].taken = Len(call'[t].answers)
                           + (IF pc'[t] \in {"read", "returned"} THEN 0 ELSE 1)
    BY <1>1 DEF InTurn
  <2>2. \A k \in DOMAIN call'[t].answers : AnswerTo(call[t].answers[k], call[t].file[k])'
    BY <1>1, <1>3 DEF InTurn, AnswerTo
  <2>3. \A j, k \in DOMAIN call'[t].answers :
          j < k /\ call'[t].answers[k].order # 0
            => call'[t].answers[j].order < call'[t].answers[k].order
    BY <1>1 DEF InTurn
  <2> QED
    BY <2>1, <2>2, <2>3 DEF InTurn
<1>5. pc[t] = "write" =>
        LET i == report[t].order
        IN  /\ Settled(i) /\ Settled(i)'
            /\ i # 0 => placed'[i] = placed[i] /\ filled'[i] = filled[i]
  BY <1>1, <1>2 DEF AtWork, Frame, Settled
<1>6. AtWork(t)'
  BY <1>1, <1>3, <1>5 DEF AtWork, AnswerTo, Settled
<1> QED
  BY <1>4, <1>6

\* The session that reads a request.
LEMMA SessionReads ==
  ASSUME IInv, NEW s \in Sessions, ReadRequest(s)
  PROVE  InTurn(s)' /\ AtWork(s)'
<1> DEFINE n == call[s].taken + 1
<1>1. InTurn(s) /\ AtWork(s) /\ TypeOK /\ MarketInv
  BY DEF IInv, MarketInv, Answered, Working
<1>2. PICK req \in Request :
         /\ req = call[s].file[n]
         /\ mine' = [mine EXCEPT ![s] = req]
         /\ report' = [report EXCEPT ![s] = Rejected(req)]
         /\ call' = [call EXCEPT ![s].taken = @ + 1]
         /\ pc[s] = "read"
         /\ pc' = [pc EXCEPT ![s] = IF Legal(req) THEN "lock" ELSE "write"]
         /\ UNCHANGED <<market, lock, oid, cnt, history>>
  BY <1>1, ReadFacts
<1>3. call[s] \in Call /\ s \in Threads
  BY <1>1 DEF TypeOK, Threads
<1>4. /\ call'[s].taken = n /\ call'[s].answers = call[s].answers
      /\ call'[s].file = call[s].file /\ call'[s].conn = call[s].conn
      /\ mine'[s] = req /\ report'[s] = Rejected(req)
      /\ pc'[s] = IF Legal(req) THEN "lock" ELSE "write"
      /\ UNCHANGED <<id, lock, placed, filled>>
  BY <1>1, <1>2, <1>3 DEF TypeOK, Call, market, history
<1>5. call[s].taken \in Nat /\ Len(call[s].answers) \in Nat /\ req.qty \in Nat
  BY <1>1, CallType DEF Request
<1>6. InTurn(s)'
  <2>1. \A k \in DOMAIN call'[s].answers : AnswerTo(call[s].answers[k], call[s].file[k])'
    BY <1>1, <1>4 DEF InTurn, AnswerTo
  <2>2. call'[s].conn # "gone" => call'[s].taken = Len(call'[s].answers) + 1
    BY <1>1, <1>2, <1>4, <1>5 DEF InTurn
  <2>3. pc'[s] \notin {"read", "returned"}
    BY <1>4
  <2>4. \A j, k \in DOMAIN call'[s].answers :
          j < k /\ call'[s].answers[k].order # 0
            => call'[s].answers[j].order < call'[s].answers[k].order
    BY <1>1, <1>4 DEF InTurn
  <2> QED
    BY <2>1, <2>2, <2>3, <2>4 DEF InTurn
<1>7. Settled(0)
  BY <1>1 DEF Settled, MarketInv, TypeOK, LockHeld, Matching, OrderId
<1>8. AtWork(s)'
  <2>1. pc'[s] = "write" => AnswerTo(report[s], mine[s])' /\ report'[s].order = 0
    BY <1>4, <1>5 DEF AnswerTo, Rejected, Report
  <2> QED
    BY <1>1, <1>2, <1>4, <1>5, <1>7, <2>1 DEF AtWork, Settled
<1> QED
  BY <1>6, <1>8

\* The session that settles its order.
LEMMA SessionSettles ==
  ASSUME IInv, Frame, NEW s \in Sessions, Settle(s)
  PROVE  InTurn(s)' /\ AtWork(s)'
<1>1. InTurn(s) /\ AtWork(s) /\ TypeOK /\ MarketInv
  BY DEF IInv, MarketInv, Answered, Working
<1>2. /\ pc[s] = "match" /\ s \in Threads
  BY DEF Settle, At, Threads
<1>3. /\ oid[s] = id /\ id \in OrderId /\ mine[s].qty - cnt[s] \in Nat
      /\ lock # Free /\ Legal(mine[s]) /\ placed[id] = mine[s]
  BY <1>1, <1>2, RemainderType, Alone DEF MarketInv, Matching
<1>4. mine[s].qty \in Nat /\ cnt[s] \in Nat
  BY <1>1, <1>2, MineType
<1>5. /\ report'[s] = Answer(s) /\ filled'[id] = cnt[s] /\ pc'[s] = "write"
      /\ lock' = Free /\ UNCHANGED <<id, mine, call, placed>>
  BY <1>1, <1>2, <1>3 DEF Settle, Goto, TypeOK
<1>6. /\ Answer(s).order = id /\ Answer(s).qty = mine[s].qty
      /\ Answer(s).fill = cnt[s] /\ Answer(s).leave = mine[s].qty - cnt[s]
      /\ Answer(s).stat # "ORDER_REJECT"
  BY <1>3 DEF Answer, Report
<1>7. id \in Nat /\ id # 0
  BY <1>3 DEF OrderId
<1>8. \A k \in DOMAIN call[s].answers : call[s].answers[k].order \in 0 .. MaxOrders
  BY <1>1, CallType
<1>9. \A k \in DOMAIN call[s].answers :
        LET i == call[s].answers[k].order
        IN  /\ i < id /\ i \in Nat
            /\ i # 0 => placed'[i] = placed[i] /\ filled'[i] = filled[i]
  BY <1>1, <1>3, <1>7, <1>8 DEF AtWork, Frame, Settled
<1>10. InTurn(s)'
  <2>1. \A k \in DOMAIN call'[s].answers : AnswerTo(call[s].answers[k], call[s].file[k])'
    BY <1>1, <1>5, <1>9 DEF InTurn, AnswerTo
  <2> QED
    BY <1>1, <1>2, <1>5, <2>1 DEF InTurn
<1>11. AnswerTo(report[s], mine[s])'
  BY <1>3, <1>4, <1>5, <1>6, <1>7 DEF AnswerTo
<1>12. AtWork(s)'
  BY <1>1, <1>2, <1>5, <1>6, <1>7, <1>9, <1>11 DEF AtWork, Settled
<1> QED
  BY <1>10, <1>12

\* The session that writes its report.
LEMMA SessionWrites ==
  ASSUME IInv, NEW s \in Sessions, WriteReport(s)
  PROVE  InTurn(s)' /\ AtWork(s)'
<1> DEFINE a == call[s].answers
           n == Len(a) + 1
<1>1. InTurn(s) /\ AtWork(s) /\ TypeOK
  BY DEF IInv, MarketInv, Answered, Working
<1>2. s \in Threads /\ pc[s] = "write"
  BY DEF WriteReport, At, Threads
<1>3. pc'[s] = "read" /\ UNCHANGED <<id, lock, placed, filled, mine, report>>
  BY <1>1, <1>2 DEF WriteReport, Goto, TypeOK, market, locals, history
<1>4. /\ a \in Seq(ExecutionReport) /\ Len(a) \in Nat /\ DOMAIN a = 1 .. Len(a)
      /\ report[s] \in ExecutionReport
      /\ \A k \in DOMAIN a : a[k].order \in 0 .. MaxOrders
      /\ report[s].order \in 0 .. MaxOrders
  BY <1>1, CallType
<1>5. CASE call[s].conn = "gone" /\ call' = call
  <2>1. \A k \in DOMAIN a : AnswerTo(a[k], call[s].file[k])'
    BY <1>1, <1>3, <1>5 DEF InTurn, AnswerTo
  <2>2. InTurn(s)'
    BY <1>1, <1>3, <1>5, <2>1 DEF InTurn
  <2>3. AtWork(s)'
    BY <1>1, <1>3, <1>5 DEF AtWork, Settled
  <2> QED
    BY <2>2, <2>3
<1>6. CASE call[s].conn # "gone" /\ call' = [call EXCEPT ![s].answers = Append(@, report[s])]
  <2>1. /\ call'[s].answers = Append(a, report[s])
        /\ call'[s].taken = call[s].taken /\ call'[s].file = call[s].file
    <3>1. call[s] \in Call /\ call'[s] = [call[s] EXCEPT !.answers = Append(@, report[s])]
      BY <1>1, <1>6 DEF TypeOK
    <3> QED
      BY <3>1 DEF Call
  <2>2. /\ Len(call'[s].answers) = n /\ DOMAIN call'[s].answers = 1 .. n
        /\ \A k \in DOMAIN a : k \in 1 .. Len(a) /\ call'[s].answers[k] = a[k]
        /\ call'[s].answers[n] = report[s]
    BY <1>4, <2>1, AnswersGrow
  <2>3. call[s].taken = n
    BY <1>1, <1>2, <1>6 DEF InTurn
  <2>4. mine[s] = call[s].file[n] /\ AnswerTo(report[s], mine[s]) /\ Settled(report[s].order)
    BY <1>1, <1>2, <2>3 DEF AtWork
  <2>5. \A k \in 1 .. n : k = n \/ k \in DOMAIN a
    BY <1>4
  <2>6. \A k \in DOMAIN call'[s].answers : AnswerTo(call[s].answers[k], call[s].file[k])'
    <3> SUFFICES ASSUME NEW k \in 1 .. n
                 PROVE  AnswerTo(call[s].answers[k], call[s].file[k])'
      BY <2>2
    <3>1. CASE k = n
      BY <1>3, <2>1, <2>2, <2>4, <3>1 DEF AnswerTo
    <3>2. CASE k \in DOMAIN a
      <4>1. call'[s].answers[k] = a[k] /\ call'[s].file = call[s].file
        BY <2>1, <2>2, <3>2
      <4>2. AnswerTo(a[k], call[s].file[k])
        BY <1>1, <3>2 DEF InTurn
      <4> QED
        BY <1>3, <4>1, <4>2 DEF AnswerTo
    <3> QED
      BY <2>5, <3>1, <3>2
  <2>7. \A j, k \in DOMAIN call'[s].answers :
          j < k /\ call'[s].answers[k].order # 0
            => call'[s].answers[j].order < call'[s].answers[k].order
    <3> SUFFICES ASSUME NEW j \in 1 .. n, NEW k \in 1 .. n, j < k,
                        call'[s].answers[k].order # 0
                 PROVE  call'[s].answers[j].order < call'[s].answers[k].order
      BY <2>2
    <3>1. j \in DOMAIN a /\ call'[s].answers[j] = a[j]
      BY <1>4, <2>2, <2>5
    <3>2. CASE k = n
      BY <1>1, <1>2, <2>2, <3>1, <3>2 DEF AtWork
    <3>3. CASE k \in DOMAIN a
      BY <1>1, <2>2, <3>1, <3>3 DEF InTurn
    <3> QED
      BY <2>5, <3>2, <3>3
  <2>8. InTurn(s)'
    BY <1>3, <1>4, <2>1, <2>2, <2>3, <2>6, <2>7 DEF InTurn
  <2>9. \A k \in DOMAIN call'[s].answers : Settled(call'[s].answers[k].order)
    BY <1>1, <2>2, <2>4, <2>5 DEF AtWork
  <2>10. AtWork(s)'
    BY <1>3, <2>9 DEF AtWork, Settled
  <2> QED
    BY <2>8, <2>10
<1> QED
  BY <1>5, <1>6 DEF WriteReport

\* Every step of a thread or a client leaves the other sessions as they are.
LEMMA OtherSessions ==
  ASSUME IInv, [Next]_vars, NEW t \in Sessions,
         ~ReadRequest(t), ~Settle(t), ~WriteReport(t)
  PROVE  InTurn(t)' /\ AtWork(t)'
<1> DEFINE Same == /\ call'[t].answers = call[t].answers /\ call'[t].file = call[t].file
                   /\ call'[t].taken = call[t].taken
                   /\ call'[t].conn # "gone" => call[t].conn # "gone"
                   /\ mine'[t] = mine[t] /\ report'[t] = report[t]
                   /\ \/ pc'[t] = pc[t]
                      \/ pc[t] = "lock" /\ pc'[t] = "match"
                      \/ pc[t] = "read" /\ pc'[t] = "returned"
<1>1. /\ MarketInv /\ TypeOK /\ Frame
      /\ call \in [Sessions -> Call] /\ mine \in [Sessions -> Request]
      /\ report \in [Threads -> ExecutionReport]
      /\ pc \in [Threads -> {"read", "lock", "match", "write", "idle", "returned"}]
      /\ t \in Threads
  BY FrameStep DEF IInv, MarketInv, TypeOK, Threads
<1>2. call[t] \in Call
  BY <1>1
<1>3. ASSUME NEW s \in Sessions, ReadRequest(s)
      PROVE  Same
  <2>1. s # t
    BY <1>3
  <2> QED
    BY <1>1, <1>3, <2>1 DEF ReadRequest, Goto
<1>4. ASSUME NEW s \in Sessions, EndRequests(s)
      PROVE  Same
  BY <1>1, <1>4 DEF EndRequests, Goto, At, locals
<1>5. ASSUME NEW s \in Sessions, CreateOrder(s)
      PROVE  Same
  BY <1>1, <1>5 DEF CreateOrder, Goto, At
<1>6. ASSUME NEW s \in Sessions, NEW r \in OrderId, Fill(s, r)
      PROVE  Same
  BY <1>6 DEF Fill
<1>7. ASSUME NEW s \in Sessions, Settle(s)
      PROVE  Same
  <2>1. s # t
    BY <1>7
  <2> QED
    BY <1>1, <1>7, <2>1 DEF Settle, Goto
<1>8. ASSUME NEW s \in Sessions, WriteReport(s)
      PROVE  Same
  <2>1. s # t
    BY <1>8
  <2> QED
    BY <1>1, <1>8, <2>1 DEF WriteReport, Goto, locals
<1>9. ASSUME NEW s \in Sessions,
             \/ WriteRequest(s) \/ WritesDone(s)
             \/ PrintReport(s) \/ EndReports(s) \/ Finish(s) \/ Fail(s)
      PROVE  Same
  <2>1. UNCHANGED <<pc, mine, report>>
    BY <1>9, ClientSteps DEF locals
  <2>2. \/ call' = [call EXCEPT ![s].sent = @ + 1]
        \/ call' = [call EXCEPT ![s].closed = TRUE]
        \/ call' = [call EXCEPT ![s].printed = @ + 1]
        \/ call' = [call EXCEPT ![s].main = "joining"]
        \/ call' = [call EXCEPT ![s].main = "exited"]
        \/ call[s].conn = "up" /\ \E x \in {"stalled", "gone"} : call' = [call EXCEPT ![s].conn = x]
    BY <1>9 DEF WriteRequest, WritesDone, PrintReport, EndReports, Finish, Fail
  <2> DEFINE c == call[t]
  <2>3. \/ call'[t] \in {c, [c EXCEPT !.sent = c.sent + 1], [c EXCEPT !.closed = TRUE],
                       [c EXCEPT !.printed = c.printed + 1],
                       [c EXCEPT !.main = "joining"], [c EXCEPT !.main = "exited"]}
        \/ /\ c.conn = "up"
           /\ call'[t] \in {[c EXCEPT !.conn = "stalled"], [c EXCEPT !.conn = "gone"]}
    <3>1. CASE s = t
      BY <1>1, <2>2, <3>1
    <3>2. CASE s # t
      BY <1>1, <2>2, <3>2
    <3> QED
      BY <3>1, <3>2
  <2>4. /\ call'[t].answers = c.answers /\ call'[t].file = c.file /\ call'[t].taken = c.taken
        /\ call'[t].conn # "gone" => c.conn # "gone"
    BY <1>2, <2>3 DEF Call
  <2> QED
    BY <2>1, <2>4
<1>10. ASSUME NEW c \in Cancelers, (\E i \in OrderId : ReceiveCancel(c, i)) \/ CancelMiss(c)
       PROVE  Same
  BY <1>1, <1>10, QuietCancels
<1>11. ASSUME NEW c \in Cancelers, CancelOrder(c)
       PROVE  Same
  BY <1>1, <1>11, CancelFacts
<1>12. ASSUME UNCHANGED vars
       PROVE  Same
  <2>1. UNCHANGED <<call, mine, report, pc>>
    BY <1>12 DEF vars, locals
  <2> QED
    BY <2>1
<1> HIDE DEF Same
<1>13. Same
  BY <1>3, <1>4, <1>5, <1>6, <1>7, <1>8, <1>9, <1>10, <1>11, <1>12, StepCases
<1> QED
  BY <1>1, <1>13, SessionKept DEF Same

\* Every step keeps every client's answers its own.
LEMMA AnswersStep ==
  ASSUME IInv, [Next]_vars
  PROVE  Answered' /\ Working'
<1>1. Frame
  BY FrameStep DEF IInv
<1> SUFFICES ASSUME NEW t \in Sessions PROVE InTurn(t)' /\ AtWork(t)'
  BY DEF Answered, Working
<1> QED
  BY <1>1, SessionReads, SessionSettles, SessionWrites, OtherSessions

-----------------------------------------------------------------------------
(* What has been traded *)

\* There are finitely many order numbers.
LEMMA OrderIdFinite == IsFiniteSet(OrderId)
BY FS_Interval DEF OrderId

\* A step that leaves every order with its trades leaves the sums as they are; an
\* order without trades may be created.
LEMMA VolumeSame ==
  ASSUME \A i \in OrderId : \/ placed'[i] = placed[i] /\ Traded(i)' = Traded(i)
                            \/ Traded(i) = 0 /\ Traded(i)' = 0
  PROVE  \A st, d : Volume(st, d)' = Volume(st, d)
<1> SUFFICES ASSUME NEW st, NEW d PROVE Volume(st, d)' = Volume(st, d)
  OBVIOUS
<1> DEFINE f == [i \in OrderId |-> IF placed[i] # NoOrder /\ placed[i].stock = st /\ placed[i].dir = d
                                   THEN Traded(i) ELSE 0]
           g == [i \in OrderId |-> IF placed'[i] # NoOrder /\ placed'[i].stock = st /\ placed'[i].dir = d
                                   THEN Traded(i)' ELSE 0]
<1>1. \A i \in OrderId : f[i] = g[i]
  OBVIOUS
<1>2. Volume(st, d) = SumFunctionOnSet(f, OrderId) /\ Volume(st, d)' = SumFunctionOnSet(g, OrderId)
  BY DEF Volume
<1> HIDE DEF f, g
<1>3. SumFunctionOnSet(f, OrderId) = SumFunctionOnSet(g, OrderId)
  BY <1>1, OrderIdFinite, SumSame
<1> QED
  BY <1>2, <1>3

\* The same of what has been told.
LEMMA ToldSame ==
  ASSUME \A i \in OrderId : \/ placed'[i] = placed[i] /\ filled'[i] = filled[i]
                            \/ filled[i] = 0 /\ filled'[i] = 0
  PROVE  \A st : Told(st)' = Told(st)
<1> SUFFICES ASSUME NEW st PROVE Told(st)' = Told(st)
  OBVIOUS
<1> DEFINE f == [i \in OrderId |-> IF placed[i] # NoOrder /\ placed[i].stock = st THEN filled[i] ELSE 0]
           g == [i \in OrderId |-> IF placed'[i] # NoOrder /\ placed'[i].stock = st THEN filled'[i] ELSE 0]
<1>1. \A i \in OrderId : f[i] = g[i]
  OBVIOUS
<1>2. Told(st) = SumFunctionOnSet(f, OrderId) /\ Told(st)' = SumFunctionOnSet(g, OrderId)
  BY DEF Told
<1> HIDE DEF f, g
<1>3. SumFunctionOnSet(f, OrderId) = SumFunctionOnSet(g, OrderId)
  BY <1>1, OrderIdFinite, SumSame
<1> QED
  BY <1>2, <1>3

\* A step that trades n of order y adds n to its side of its stock, and nothing to
\* any other.
LEMMA VolumeUp ==
  ASSUME NEW y \in OrderId, NEW n \in Nat, placed' = placed, placed[y] # NoOrder,
         \A i \in OrderId : Traded(i) \in Nat,
         \A i \in OrderId : i # y => Traded(i)' = Traded(i),
         Traded(y)' = Traded(y) + n
  PROVE  \A st, d :
           /\ st = placed[y].stock /\ d = placed[y].dir => Volume(st, d)' = Volume(st, d) + n
           /\ st # placed[y].stock \/ d # placed[y].dir => Volume(st, d)' = Volume(st, d)
<1> SUFFICES ASSUME NEW st, NEW d
             PROVE  /\ st = placed[y].stock /\ d = placed[y].dir => Volume(st, d)' = Volume(st, d) + n
                    /\ st # placed[y].stock \/ d # placed[y].dir => Volume(st, d)' = Volume(st, d)
  OBVIOUS
<1> DEFINE f == [i \in OrderId |-> IF placed[i] # NoOrder /\ placed[i].stock = st /\ placed[i].dir = d
                                   THEN Traded(i) ELSE 0]
           g == [i \in OrderId |-> IF placed'[i] # NoOrder /\ placed'[i].stock = st /\ placed'[i].dir = d
                                   THEN Traded(i)' ELSE 0]
<1>1. /\ \A i \in OrderId : f[i] \in Nat
      /\ \A i \in OrderId : i # y => g[i] = f[i]
  OBVIOUS
<1>2. Volume(st, d) = SumFunctionOnSet(f, OrderId) /\ Volume(st, d)' = SumFunctionOnSet(g, OrderId)
  BY DEF Volume
<1>3. ASSUME st = placed[y].stock, d = placed[y].dir
      PROVE  Volume(st, d)' = Volume(st, d) + n
  <2>1. f[y] = Traded(y) /\ g[y] = Traded(y)'
    BY <1>3
  <2>2. g[y] = f[y] + n
    BY <2>1
  <2> HIDE DEF f, g
  <2>3. SumFunctionOnSet(g, OrderId) = SumFunctionOnSet(f, OrderId) + n
    BY <1>1, <2>2, OrderIdFinite, SumChange
  <2> QED
    BY <1>2, <2>3
<1>4. ASSUME st # placed[y].stock \/ d # placed[y].dir
      PROVE  Volume(st, d)' = Volume(st, d)
  <2>1. \A i \in OrderId : f[i] = g[i]
    BY <1>1, <1>4
  <2> HIDE DEF f, g
  <2>2. SumFunctionOnSet(f, OrderId) = SumFunctionOnSet(g, OrderId)
    BY <2>1, OrderIdFinite, SumSame
  <2> QED
    BY <1>2, <2>2
<1> QED
  BY <1>3, <1>4

\* A step that reports n traded of order y adds n to what its stock has been told.
LEMMA ToldUp ==
  ASSUME NEW y \in OrderId, NEW n \in Nat, placed' = placed, placed[y] # NoOrder,
         \A i \in OrderId : filled[i] \in Nat,
         \A i \in OrderId : i # y => filled'[i] = filled[i],
         filled'[y] = filled[y] + n
  PROVE  \A st :
           /\ st = placed[y].stock => Told(st)' = Told(st) + n
           /\ st # placed[y].stock => Told(st)' = Told(st)
<1> SUFFICES ASSUME NEW st
             PROVE  /\ st = placed[y].stock => Told(st)' = Told(st) + n
                    /\ st # placed[y].stock => Told(st)' = Told(st)
  OBVIOUS
<1> DEFINE f == [i \in OrderId |-> IF placed[i] # NoOrder /\ placed[i].stock = st THEN filled[i] ELSE 0]
           g == [i \in OrderId |-> IF placed'[i] # NoOrder /\ placed'[i].stock = st THEN filled'[i] ELSE 0]
<1>1. /\ \A i \in OrderId : f[i] \in Nat
      /\ \A i \in OrderId : i # y => g[i] = f[i]
  OBVIOUS
<1>2. Told(st) = SumFunctionOnSet(f, OrderId) /\ Told(st)' = SumFunctionOnSet(g, OrderId)
  BY DEF Told
<1>3. ASSUME st = placed[y].stock
      PROVE  Told(st)' = Told(st) + n
  <2>1. g[y] = f[y] + n
    BY <1>3
  <2> HIDE DEF f, g
  <2>2. SumFunctionOnSet(g, OrderId) = SumFunctionOnSet(f, OrderId) + n
    BY <1>1, <2>1, OrderIdFinite, SumChange
  <2> QED
    BY <1>2, <2>2
<1>4. ASSUME st # placed[y].stock
      PROVE  Told(st)' = Told(st)
  <2>1. \A i \in OrderId : f[i] = g[i]
    BY <1>1, <1>4
  <2> HIDE DEF f, g
  <2>2. SumFunctionOnSet(f, OrderId) = SumFunctionOnSet(g, OrderId)
    BY <2>1, OrderIdFinite, SumSame
  <2> QED
    BY <1>2, <2>2
<1> QED
  BY <1>3, <1>4

\* Sums of trades are natural numbers.
LEMMA SumTypes ==
  ASSUME MarketInv, Recorded
  PROVE  \A st : Told(st) \in Nat /\ \A d : Volume(st, d) \in Nat
<1> SUFFICES ASSUME NEW st, NEW d PROVE Told(st) \in Nat /\ Volume(st, d) \in Nat
  OBVIOUS
<1>1. \A i \in OrderId : Traded(i) \in Nat /\ filled[i] \in Nat
  BY DEF Recorded, MarketInv, TypeOK
<1> DEFINE f == [i \in OrderId |-> IF placed[i] # NoOrder /\ placed[i].stock = st /\ placed[i].dir = d
                                   THEN Traded(i) ELSE 0]
           g == [i \in OrderId |-> IF placed[i] # NoOrder /\ placed[i].stock = st THEN filled[i] ELSE 0]
<1>2. \A i \in OrderId : f[i] \in Nat /\ g[i] \in Nat
  BY <1>1
<1>3. Volume(st, d) = SumFunctionOnSet(f, OrderId) /\ Told(st) = SumFunctionOnSet(g, OrderId)
  BY DEF Volume, Told
<1> HIDE DEF f, g
<1> QED
  BY <1>2, <1>3, OrderIdFinite, SumNat

\* A step that leaves an order, its entry and its withdrawal alone trades none of it.
LEMMA TradedSame ==
  ASSUME NEW i, placed'[i] = placed[i], withdrawn'[i] = withdrawn[i], orders'[i] = orders[i]
  PROVE  Traded(i)' = Traded(i)
  BY DEF Traded

\* Steps that leave the market, the mutex and the history alone.
LEMMA AccountsUnchanged ==
  ASSUME MarketInv, Accounts, UNCHANGED <<market, lock, history>>,
         \A s \in Sessions : (pc[s] = "match" <=> pc'[s] = "match"),
         \A s \in Sessions : pc[s] = "match" => mine'[s] = mine[s] /\ cnt'[s] = cnt[s]
  PROVE  Accounts'
<1>1. /\ UNCHANGED <<id, orders, lock, placed, filled, withdrawn>>
      /\ \A i \in OrderId : Traded(i)' = Traded(i)
  BY TradedSame DEF market, history
<1>2. /\ \A st, d : Volume(st, d)' = Volume(st, d)
      /\ \A st : Told(st)' = Told(st)
  BY <1>1, VolumeSame, ToldSame
<1>3. Recorded'
  BY <1>1 DEF Accounts, Recorded
<1>4. Ledger'
  BY <1>1, <1>2 DEF Accounts, Ledger, Even
<1> QED
  BY <1>3, <1>4 DEF Accounts

\* An order that is created has traded nothing.
LEMMA AccountsCreate ==
  ASSUME MarketInv, Accounts, NEW s \in Sessions, CreateOrder(s)
  PROVE  Accounts'
<1>0. PICK y, m : y = id + 1 /\ m = mine[s]
  OBVIOUS
<1>1. TypeOK /\ Recorded /\ Ledger /\ s \in Threads
  BY DEF MarketInv, Accounts, Threads
<1>2. /\ y \in OrderId /\ id \in Nat /\ lock = Free /\ lock' = s /\ id' = y
      /\ orders' = [orders EXCEPT ![y] = m] /\ placed' = [placed EXCEPT ![y] = m]
      /\ cnt' = [cnt EXCEPT ![s] = 0] /\ mine' = mine
      /\ pc' = [pc EXCEPT ![s] = "match"] /\ pc[s] = "lock"
      /\ filled' = filled /\ withdrawn' = withdrawn
  BY <1>0, <1>1 DEF CreateOrder, At, Goto, TypeOK, OrderId
<1>3. \A t \in Sessions : pc[t] # "match"
  BY <1>2, Nobody
<1>4. /\ m \in Request /\ m # NoOrder /\ m.dir \in Side /\ m.qty \in Nat /\ m.stock \in AnyStock
      /\ Opp(m.dir) \in Side
  BY <1>0, <1>2, MineType DEF Request
<1>5. /\ placed[y] = NoOrder /\ withdrawn[y] = 0 /\ filled[y] = 0
      /\ \A i \in OrderId : i # y => (i > y <=> i > id) /\ i \in Nat
  BY <1>0, <1>1, <1>2 DEF Recorded, OrderId
<1>6. /\ \A i \in OrderId : i # y => orders'[i] = orders[i] /\ placed'[i] = placed[i]
      /\ orders'[y] = m /\ placed'[y] = m /\ y \in Nat
  BY <1>0, <1>1, <1>2 DEF TypeOK
<1>7. /\ \A i \in OrderId : i # y => Traded(i)' = Traded(i)
      /\ Traded(y) = 0 /\ Traded(y)' = 0
  <2>1. Traded(y) = 0
    BY <1>5 DEF Traded
  <2>2. Traded(y)' = 0
    BY <1>2, <1>4, <1>5, <1>6 DEF Traded
  <2> QED
    BY <1>2, <1>6, <2>1, <2>2, TradedSame
<1>8. /\ \A st, d : Volume(st, d)' = Volume(st, d)
      /\ \A st : Told(st)' = Told(st)
  <2>1. \A i \in OrderId : \/ placed'[i] = placed[i] /\ Traded(i)' = Traded(i)
                           \/ Traded(i) = 0 /\ Traded(i)' = 0
    BY <1>6, <1>7
  <2>2. \A i \in OrderId : \/ placed'[i] = placed[i] /\ filled'[i] = filled[i]
                           \/ filled[i] = 0 /\ filled'[i] = 0
    BY <1>2, <1>5, <1>6
  <2> QED
    BY <2>1, <2>2, VolumeSame, ToldSame
<1>9. Recorded'
  <2> SUFFICES ASSUME NEW i \in OrderId
               PROVE  /\ placed'[i] = NoOrder <=> i > id'
                      /\ i > id' => withdrawn'[i] = 0 /\ filled'[i] = 0
                      /\ withdrawn'[i] > 0 => orders'[i] = NoOrder
                      /\ placed'[i] # NoOrder => placed'[i].dir \in Side
                      /\ orders'[i] # NoOrder => /\ placed'[i].stock = orders'[i].stock
                                                 /\ placed'[i].dir = orders'[i].dir
                      /\ Traded(i)' \in Nat /\ filled'[i] <= Traded(i)'
                      /\ i = id' /\ lock' # Free => filled'[i] = 0
    BY DEF Recorded
  <2>1. CASE i = y
    BY <1>2, <1>4, <1>5, <1>6, <1>7, <2>1
  <2>2. CASE i # y
    BY <1>1, <1>2, <1>5, <1>6, <1>7, <2>2 DEF Recorded
  <2> QED
    BY <2>1, <2>2
<1>10. Ledger'
  <2>1. \A st \in AnyStock : Even(st)'
    BY <1>1, <1>2, <1>8 DEF Ledger, Even
  <2>2. /\ Volume(m.stock, Opp(m.dir)) = Volume(m.stock, m.dir)
        /\ Told(m.stock) = Volume(m.stock, m.dir)
    BY <1>1, <1>2, <1>4 DEF Ledger, Even, Side, Opp
  <2>3. Volume(m.stock, m.dir) \in Nat
    BY <1>1, SumTypes
  <2>4. \A t \in Sessions : pc'[t] = "match" => t = s
    BY <1>1, <1>2, <1>3 DEF TypeOK
  <2>5. cnt'[s] = 0 /\ mine'[s] = m /\ lock' # Free
    BY <1>0, <1>1, <1>2 DEF TypeOK
  <2>6. /\ Volume(m.stock, Opp(m.dir))' = Volume(m.stock, m.dir)' + cnt'[s]
        /\ Told(m.stock)' = Volume(m.stock, m.dir)'
    BY <1>8, <2>2, <2>3, <2>5
  <2> QED
    BY <2>1, <2>4, <2>5, <2>6 DEF Ledger
<1> QED
  BY <1>9, <1>10 DEF Accounts

\* A pass of the loop trades as much of the resting order as cnt goes up by.
LEMMA AccountsFill ==
  ASSUME MarketInv, Accounts, NEW s \in Sessions, NEW r \in OrderId, Fill(s, r)
  PROVE  Accounts'
<1> DEFINE n    == Amount(s, r)
           left == Left(s, r)
<1>1. TypeOK /\ Recorded /\ Ledger
  BY DEF MarketInv, Accounts
<1>2. /\ n \in Nat /\ left \in Nat
      /\ cnt' = [cnt EXCEPT ![s] = cnt[s] + n]
      /\ orders' = [orders EXCEPT ![r] = IF left = 0 THEN NoOrder
                                         ELSE [orders[r] EXCEPT !.qty = left]]
      /\ UNCHANGED <<id, lock, pc, mine, placed, filled, withdrawn>>
  BY FillEffect DEF history
<1>3. /\ pc[s] = "match" /\ orders[r] \in Request /\ orders[r] # NoOrder
      /\ orders[r].stock = mine[s].stock /\ orders[r].dir = Opp(mine[s].dir)
  BY FillFacts
<1>4. orders[r].qty \in Nat /\ left = orders[r].qty - n
  BY <1>3 DEF Request, Left
<1>5. /\ mine[s].stock \in AnyStock /\ mine[s].dir \in Side
      /\ Opp(mine[s].dir) \in Side /\ Opp(mine[s].dir) # mine[s].dir /\ cnt[s] \in Nat
  BY <1>3, MineType
<1>6. /\ placed[r] \in Request /\ placed[r] # NoOrder /\ withdrawn[r] \in Nat
      /\ ~(withdrawn[r] > 0)
      /\ placed[r].stock = mine[s].stock /\ placed[r].dir = Opp(mine[s].dir)
  BY <1>1, <1>3 DEF Recorded, TypeOK, Numbered, MarketInv
<1>7. placed[r].qty \in Nat /\ withdrawn[r] = 0
  BY <1>6 DEF Request
<1> HIDE DEF n, left
<1>8. /\ \A i \in OrderId : i # r => orders'[i] = orders[i]
      /\ left = 0 => orders'[r] = NoOrder
      /\ left # 0 => /\ orders'[r] # NoOrder /\ orders'[r].qty = left
                     /\ orders'[r].stock = orders[r].stock /\ orders'[r].dir = orders[r].dir
  BY <1>1, <1>2, <1>3, Requantified DEF TypeOK
<1>9. /\ \A i \in OrderId : i # r => Traded(i)' = Traded(i)
      /\ Traded(r)' = Traded(r) + n
      /\ \A i \in OrderId : Traded(i) \in Nat
  <2>1. Traded(r) = placed[r].qty - withdrawn[r] - orders[r].qty
    BY <1>3, <1>6 DEF Traded
  <2>2. CASE left = 0
    <3>1. Traded(r)' = placed[r].qty - withdrawn[r] - 0
      BY <1>2, <1>6, <1>8, <2>2 DEF Traded
    <3>2. Traded(r)' = Traded(r) + n
      BY <1>2, <1>4, <1>7, <2>1, <2>2, <3>1
    <3> QED
      BY <1>1, <1>2, <1>8, <3>2, TradedSame DEF Recorded
  <2>3. CASE left # 0
    <3>1. Traded(r)' = placed[r].qty - withdrawn[r] - left
      BY <1>2, <1>6, <1>8, <2>3 DEF Traded
    <3>2. n \in Nat /\ left \in Nat
      BY <1>2
    <3>4. Traded(r)' = Traded(r) + n
      BY <1>4, <1>7, <2>1, <3>1, <3>2
    <3> QED
      BY <1>1, <1>2, <1>8, <3>4, TradedSame DEF Recorded
  <2> QED
    BY <2>2, <2>3
<1>10. Recorded'
  <2> SUFFICES ASSUME NEW i \in OrderId
               PROVE  /\ placed'[i] = NoOrder <=> i > id'
                      /\ i > id' => withdrawn'[i] = 0 /\ filled'[i] = 0
                      /\ withdrawn'[i] > 0 => orders'[i] = NoOrder
                      /\ placed'[i] # NoOrder => placed'[i].dir \in Side
                      /\ orders'[i] # NoOrder => /\ placed'[i].stock = orders'[i].stock
                                                 /\ placed'[i].dir = orders'[i].dir
                      /\ Traded(i)' \in Nat /\ filled'[i] <= Traded(i)'
                      /\ i = id' /\ lock' # Free => filled'[i] = 0
    BY DEF Recorded
  <2>1. Traded(i)' \in Nat /\ filled'[i] <= Traded(i)'
    <3>1. Traded(i) \in Nat /\ filled[i] <= Traded(i) /\ filled[i] \in Nat
      BY <1>1 DEF Recorded, TypeOK
    <3>2. Traded(i)' = Traded(i) \/ Traded(i)' = Traded(i) + n
      BY <1>9
    <3> QED
      BY <1>2, <3>1, <3>2
  <2>2. withdrawn'[i] > 0 => orders'[i] = NoOrder
    BY <1>1, <1>2, <1>6, <1>8 DEF Recorded
  <2>3. orders'[i] # NoOrder => placed'[i].stock = orders'[i].stock /\ placed'[i].dir = orders'[i].dir
    BY <1>1, <1>2, <1>3, <1>6, <1>8 DEF Recorded
  <2> QED
    BY <1>1, <1>2, <2>1, <2>2, <2>3 DEF Recorded
<1>11. Ledger'
  <2>1. \A st, d :
          /\ st = mine[s].stock /\ d = Opp(mine[s].dir) => Volume(st, d)' = Volume(st, d) + n
          /\ st # mine[s].stock \/ d # Opp(mine[s].dir) => Volume(st, d)' = Volume(st, d)
    <3>1. placed' = placed
      BY <1>2
    <3> QED
      BY <1>2, <1>6, <1>9, <3>1, VolumeUp
  <2>2. \A st : Told(st)' = Told(st)
    BY <1>2, ToldSame
  <2>3. lock # Free /\ \A t \in Sessions : pc[t] = "match" => t = s
    BY <1>3, Alone
  <2>4. cnt'[s] = cnt[s] + n
    BY <1>1, <1>2 DEF TypeOK
  <2>5. \A st \in AnyStock : st # mine[s].stock => Even(st)'
    BY <1>1, <1>3, <2>1, <2>2 DEF Ledger, Even
  <2> DEFINE st == mine[s].stock
             d  == mine[s].dir
  <2>6. st' = st /\ d' = d
    BY <1>2
  <2>7. /\ Volume(st, Opp(d)) = Volume(st, d) + cnt[s]
        /\ Told(st) = Volume(st, d) /\ Volume(st, d) \in Nat
    BY <1>1, <1>3, SumTypes DEF Ledger
  <2>8. Volume(st, Opp(d))' = Volume(st, Opp(d)) + n /\ Volume(st, d)' = Volume(st, d)
    <3>1. PICK x, y : x = st /\ y = Opp(d)
      OBVIOUS
    <3>2. Volume(x, y)' = Volume(x, y) + n /\ Volume(x, d)' = Volume(x, d)
      <4>1. PICK z : z = d
        OBVIOUS
      <4>2. z # y
        BY <1>5, <3>1, <4>1
      <4>3. Volume(x, z)' = Volume(x, z)
        BY <2>1, <3>1, <4>2
      <4> QED
        BY <2>1, <2>6, <3>1, <4>1, <4>3
    <3>3. Volume(st, Opp(d))' = Volume(x, y)' /\ Volume(st, d)' = Volume(x, d)'
      BY <2>6, <3>1 DEF Opp
    <3> QED
      BY <3>1, <3>2, <3>3
  <2>9. /\ Volume(st, Opp(d))' = Volume(st, d)' + cnt'[s]
        /\ Told(st)' = Volume(st, d)'
    <3>1. Volume(st, Opp(d))' = Volume(st, d)' + cnt'[s]
      BY <1>2, <1>5, <2>4, <2>7, <2>8
    <3>2. Told(st)' = Volume(st, d)'
      <4>1. PICK x : x = st
        OBVIOUS
      <4>2. Told(x)' = Told(x) /\ Told(st)' = Told(x)'
        BY <2>2, <2>6, <4>1
      <4> QED
        BY <2>7, <2>8, <4>1, <4>2
    <3> QED
      BY <3>1, <3>2
  <2>10. UNCHANGED <<lock, pc, mine>>
    BY <1>2
  <2> QED
    BY <2>3, <2>5, <2>9, <2>10 DEF Ledger
<1> QED
  BY <1>10, <1>11 DEF Accounts

\* An order that is settled has traded what its report says.
LEMMA AccountsSettle ==
  ASSUME MarketInv, Accounts, NEW s \in Sessions, Settle(s)
  PROVE  Accounts'
<1> DEFINE n == cnt[s]
           m == mine[s]
           y == id
<1>1. TypeOK /\ Recorded /\ Ledger /\ s \in Threads
  BY DEF MarketInv, Accounts, Threads
<1>2. /\ pc[s] = "match" /\ oid[s] = y /\ y \in OrderId
      /\ orders' = [orders EXCEPT ![y] = Remainder(s)]
      /\ filled' = [filled EXCEPT ![y] = n]
      /\ lock' = Free /\ pc' = [pc EXCEPT ![s] = "write"]
      /\ UNCHANGED <<id, placed, withdrawn>>
  BY RemainderType DEF Settle, At, Goto
<1>3. /\ m \in Request /\ m # NoOrder /\ m.dir \in Side /\ m.qty \in Nat /\ m.stock \in AnyStock
      /\ Opp(m.dir) \in Side /\ Opp(m.dir) # m.dir /\ n \in Nat
  BY <1>2, MineType DEF Request
<1>4. /\ orders[y] = m /\ placed[y] = m /\ n <= m.qty
      /\ lock # Free /\ \A t \in Sessions : pc[t] = "match" => t = s
  BY <1>2, Alone DEF MarketInv, Matching
<1>5. /\ withdrawn[y] = 0 /\ filled[y] = 0
  BY <1>1, <1>2, <1>3, <1>4 DEF Recorded, TypeOK
<1>6. /\ \A i \in OrderId : i # y => orders'[i] = orders[i] /\ filled'[i] = filled[i]
      /\ orders'[y] = Remainder(s) /\ filled'[y] = n
  BY <1>1, <1>2 DEF TypeOK
<1>7. /\ Remainder(s) = NoOrder => n = m.qty
      /\ Remainder(s) # NoOrder =>
           Remainder(s).qty = m.qty - n /\ Remainder(s).stock = m.stock /\ Remainder(s).dir = m.dir
  <2>1. CASE n = m.qty
    BY <2>1 DEF Remainder
  <2>2. CASE n # m.qty
    <3>1. Remainder(s) = [m EXCEPT !.qty = @ - n]
      BY <2>2 DEF Remainder
    <3>2. PICK q : q = m.qty - n
      OBVIOUS
    <3>3. Remainder(s) = [m EXCEPT !.qty = q] /\ q \in Nat
      BY <1>3, <1>4, <3>1, <3>2
    <3> HIDE DEF m
    <3> QED
      BY <1>3, <3>2, <3>3, Requantified
  <2> QED
    BY <2>1, <2>2
<1> HIDE DEF n, m, y
<1>8. /\ \A i \in OrderId : i # y => Traded(i)' = Traded(i)
      /\ Traded(y) = 0 /\ Traded(y)' = n
      /\ \A i \in OrderId : Traded(i) \in Nat
  <2>1. Traded(y) = 0
    BY <1>3, <1>4, <1>5 DEF Traded
  <2>2. CASE Remainder(s) = NoOrder
    <3>1. y' = y
      BY <1>2 DEF y
    <3>2. Traded(y)' = m.qty - 0 - 0
      BY <1>2, <1>3, <1>4, <1>5, <1>6, <2>2, <3>1 DEF Traded
    <3> QED
      BY <1>1, <1>2, <1>3, <1>6, <1>7, <2>1, <2>2, <3>2, TradedSame DEF Recorded
  <2>3. CASE Remainder(s) # NoOrder
    <3>1. y' = y
      BY <1>2 DEF y
    <3>2. Traded(y)' = m.qty - 0 - (m.qty - n)
      BY <1>2, <1>3, <1>4, <1>5, <1>6, <1>7, <2>3, <3>1 DEF Traded
    <3>3. Traded(y)' = n
      BY <1>3, <3>2
    <3> QED
      BY <1>1, <1>2, <1>6, <2>1, <3>3, TradedSame DEF Recorded
  <2> QED
    BY <2>2, <2>3
<1>9. Recorded'
  <2> SUFFICES ASSUME NEW i \in OrderId
               PROVE  /\ placed'[i] = NoOrder <=> i > id'
                      /\ i > id' => withdrawn'[i] = 0 /\ filled'[i] = 0
                      /\ withdrawn'[i] > 0 => orders'[i] = NoOrder
                      /\ placed'[i] # NoOrder => placed'[i].dir \in Side
                      /\ orders'[i] # NoOrder => /\ placed'[i].stock = orders'[i].stock
                                                 /\ placed'[i].dir = orders'[i].dir
                      /\ Traded(i)' \in Nat /\ filled'[i] <= Traded(i)'
                      /\ i = id' /\ lock' # Free => filled'[i] = 0
    BY DEF Recorded
  <2>1. CASE i = y
    <3>1. y' = y /\ ~(y > id)
      BY <1>1, <1>2 DEF y, OrderId, TypeOK
    <3>2. ~(withdrawn'[y] > 0) /\ placed'[y] = m
      BY <1>2, <1>4, <1>5
    <3>3. Traded(i)' = n
      BY <1>8, <2>1, <3>1
    <3>4. orders'[y] # NoOrder => m.stock = orders'[y].stock /\ m.dir = orders'[y].dir
      BY <1>6, <1>7
    <3> QED
      BY <1>2, <1>3, <1>6, <2>1, <3>1, <3>2, <3>3, <3>4
  <2>2. CASE i # y
    BY <1>1, <1>2, <1>6, <1>8, <2>2 DEF Recorded
  <2> QED
    BY <2>1, <2>2
<1>10. Ledger'
  <2> DEFINE st == m.stock
             d  == m.dir
  <2>0. y \in OrderId /\ placed[y] # NoOrder /\ placed[y].stock = st /\ placed[y].dir = d
    BY <1>2, <1>3, <1>4
  <2>1. \A x, z : /\ x = st /\ z = d => Volume(x, z)' = Volume(x, z) + n
                  /\ x # st \/ z # d => Volume(x, z)' = Volume(x, z)
    <3>1. placed' = placed /\ Traded(y)' = Traded(y) + n
      BY <1>2, <1>3, <1>8
    <3>2. \A x, z : /\ x = placed[y].stock /\ z = placed[y].dir => Volume(x, z)' = Volume(x, z) + n
                    /\ x # placed[y].stock \/ z # placed[y].dir => Volume(x, z)' = Volume(x, z)
      <4>1. PICK k : k = y
        OBVIOUS
      <4>2. Traded(k)' = Traded(y)'
        BY <1>2, <4>1 DEF y
      <4>3. \A x, z : /\ x = placed[k].stock /\ z = placed[k].dir => Volume(x, z)' = Volume(x, z) + n
                      /\ x # placed[k].stock \/ z # placed[k].dir => Volume(x, z)' = Volume(x, z)
        BY <1>3, <1>8, <2>0, <3>1, <4>1, <4>2, VolumeUp
      <4> QED
        BY <4>1, <4>3
    <3> QED
      BY <2>0, <3>2
  <2>2. \A x : /\ x = st => Told(x)' = Told(x) + n
               /\ x # st => Told(x)' = Told(x)
    <3>1. placed' = placed /\ filled'[y] = filled[y] + n /\ \A i \in OrderId : filled[i] \in Nat
      BY <1>1, <1>2, <1>3, <1>5, <1>6 DEF TypeOK
    <3>2. \A i \in OrderId : i # y => filled'[i] = filled[i]
      BY <1>3, <1>6
    <3>3. n \in Nat
      BY <1>3, <1>6
    <3>4. \A x : /\ x = placed[y].stock => Told(x)' = Told(x) + n
                 /\ x # placed[y].stock => Told(x)' = Told(x)
      BY <2>0, <3>1, <3>2, <3>3, ToldUp
    <3> QED
      BY <2>0, <3>4
  <2>3. \A t \in Sessions : pc'[t] # "match"
    BY <1>1, <1>2, <1>4 DEF TypeOK
  <2>4. /\ Volume(st, Opp(d)) = Volume(st, d) + n
        /\ Told(st) = Volume(st, d) /\ Volume(st, d) \in Nat
        /\ \A x \in AnyStock : x # st => Even(x)
    BY <1>1, <1>2, SumTypes DEF Ledger, n, m
  <2>5. ASSUME NEW x \in AnyStock PROVE Even(x)'
    <3>1. CASE x # st
      BY <2>1, <2>2, <2>4, <3>1 DEF Even
    <3>2. CASE x = st
      <4>1. PICK z, w : z = d /\ w = Opp(d)
        OBVIOUS
      <4>2. z \in Side /\ w \in Side /\ z # w
        BY <1>3, <4>1
      <4>3. /\ Volume(x, z)' = Volume(x, z) + n /\ Volume(x, w)' = Volume(x, w)
            /\ Told(x)' = Told(x) + n
        BY <2>1, <2>2, <3>2, <4>1, <4>2
      <4>4. /\ Volume(x, w) = Volume(x, z) + n /\ Told(x) = Volume(x, z)
        BY <2>4, <3>2, <4>1
      <4>5. Volume(x, w)' = Volume(x, z)' /\ Told(x)' = Volume(x, z)'
        BY <4>3, <4>4
      <4>6. (z = "SELL" /\ w = "BUY") \/ (z = "BUY" /\ w = "SELL")
        BY <4>2 DEF Side
      <4> QED
        BY <4>5, <4>6 DEF Even
    <3> QED
      BY <3>1, <3>2
  <2> QED
    BY <2>3, <2>5 DEF Ledger
<1> QED
  BY <1>9, <1>10 DEF Accounts

\* What is withdrawn of an order has not traded, and does not trade.
LEMMA AccountsCancel ==
  ASSUME MarketInv, Accounts, NEW c \in Cancelers, CancelOrder(c)
  PROVE  Accounts'
<1>1. TypeOK /\ Recorded /\ Ledger
  BY DEF MarketInv, Accounts
<1>2. PICK y \in OrderId : y = oid[c]
  BY CancelFacts
<1>3. /\ lock = Free /\ \A t \in Sessions : pc[t] # "match" /\ pc'[t] = pc[t]
      /\ orders[y] \in Request /\ orders[y].qty \in Nat
      /\ orders' = [orders EXCEPT ![y] = NoOrder]
      /\ UNCHANGED <<id, lock, placed, filled>>
  BY <1>2, CancelFacts
<1>4. orders[y] # NoOrder /\ withdrawn' = [withdrawn EXCEPT ![y] = orders[y].qty]
  BY <1>2 DEF CancelOrder
<1>5. /\ \A i \in OrderId : i # y => orders'[i] = orders[i] /\ withdrawn'[i] = withdrawn[i]
      /\ orders'[y] = NoOrder /\ withdrawn'[y] = orders[y].qty
  BY <1>1, <1>3, <1>4 DEF TypeOK
<1>6. /\ placed[y] \in Request \cup {NoOrder} /\ withdrawn[y] = 0
      /\ placed[y] # NoOrder => placed[y].qty \in Nat
      /\ ~(y > id)
  BY <1>1, <1>4 DEF TypeOK, Recorded, Request, MarketInv, Numbered
<1>7. \A i \in OrderId : Traded(i)' = Traded(i)
  <2>1. Traded(y)' = Traded(y)
    <3>1. CASE placed[y] = NoOrder
      BY <1>3, <3>1 DEF Traded
    <3>2. CASE placed[y] # NoOrder
      <4>1. Traded(y) = placed[y].qty - 0 - orders[y].qty
        BY <1>4, <1>6, <3>2 DEF Traded
      <4>2. Traded(y)' = placed[y].qty - orders[y].qty - 0
        BY <1>3, <1>5, <3>2 DEF Traded
      <4> QED
        BY <1>3, <1>6, <3>2, <4>1, <4>2
    <3> QED
      BY <3>1, <3>2
  <2> QED
    BY <1>3, <1>5, <2>1, TradedSame
<1>8. Recorded'
  <2> SUFFICES ASSUME NEW i \in OrderId
               PROVE  /\ placed'[i] = NoOrder <=> i > id'
                      /\ i > id' => withdrawn'[i] = 0 /\ filled'[i] = 0
                      /\ withdrawn'[i] > 0 => orders'[i] = NoOrder
                      /\ placed'[i] # NoOrder => placed'[i].dir \in Side
                      /\ orders'[i] # NoOrder => /\ placed'[i].stock = orders'[i].stock
                                                 /\ placed'[i].dir = orders'[i].dir
                      /\ Traded(i)' \in Nat /\ filled'[i] <= Traded(i)'
                      /\ i = id' /\ lock' # Free => filled'[i] = 0
    BY DEF Recorded
  <2>1. CASE i = y
    BY <1>1, <1>3, <1>5, <1>6, <1>7, <2>1 DEF Recorded
  <2>2. CASE i # y
    BY <1>1, <1>3, <1>5, <1>7, <2>2 DEF Recorded
  <2> QED
    BY <2>1, <2>2
<1>9. Ledger'
  <2>1. (\A st, d : Volume(st, d)' = Volume(st, d)) /\ \A st : Told(st)' = Told(st)
    BY <1>3, <1>7, VolumeSame, ToldSame
  <2> QED
    BY <1>1, <1>3, <2>1 DEF Ledger, Even
<1> QED
  BY <1>8, <1>9 DEF Accounts

\* Every step keeps the accounts.
LEMMA AccountsStep ==
  ASSUME MarketInv, Accounts, [Next]_vars
  PROVE  Accounts'
<1>0. /\ TypeOK
      /\ pc \in [Threads -> {"read", "lock", "match", "write", "idle", "returned"}]
      /\ \A t \in Sessions : t \in Threads
  BY DEF MarketInv, TypeOK, Threads
<1>1. ASSUME NEW s \in Sessions, ReadRequest(s)
      PROVE  Accounts'
  <2>1. PICK req \in Request :
           /\ mine' = [mine EXCEPT ![s] = req]
           /\ pc[s] = "read" /\ pc' = [pc EXCEPT ![s] = IF Legal(req) THEN "lock" ELSE "write"]
           /\ UNCHANGED <<market, lock, oid, cnt, history>>
    BY <1>1, ReadFacts
  <2>2. mine \in [Sessions -> Request]
    BY <1>0 DEF TypeOK
  <2>3. \A t \in Sessions : (pc[t] = "match" <=> pc'[t] = "match")
    BY <1>0, <2>1
  <2>4. \A t \in Sessions : pc[t] = "match" => mine'[t] = mine[t] /\ cnt'[t] = cnt[t]
    BY <2>1, <2>2
  <2> QED
    BY <2>1, <2>3, <2>4, AccountsUnchanged
<1>2. ASSUME NEW s \in Sessions,
             \/ EndRequests(s) \/ WriteReport(s)
             \/ WriteRequest(s) \/ WritesDone(s)
             \/ PrintReport(s) \/ EndReports(s) \/ Finish(s) \/ Fail(s)
      PROVE  Accounts'
  <2>1. UNCHANGED <<market, lock, mine, cnt, history>>
    BY <1>2, QuietSteps DEF locals
  <2>2. \A t \in Sessions : pc[t] = "match" <=> pc'[t] = "match"
    BY <2>1, LockStep DEF MarketInv, LockHeld
  <2> QED
    BY <2>1, <2>2, AccountsUnchanged
<1>3. ASSUME NEW c \in Cancelers, (\E i \in OrderId : ReceiveCancel(c, i)) \/ CancelMiss(c)
      PROVE  Accounts'
  BY <1>3, QuietCancels, AccountsUnchanged
<1>4. CASE UNCHANGED vars
  BY <1>4, AccountsUnchanged DEF vars, locals
<1> QED
  BY <1>1, <1>2, <1>3, <1>4, AccountsCreate, AccountsFill, AccountsSettle, AccountsCancel, StepCases

-----------------------------------------------------------------------------
(* Theorems *)

\* The invariant holds of a server that has just started.
LEMMA InitIInv == Init => IInv
<1> SUFFICES ASSUME Init PROVE IInv
  OBVIOUS
<1>1. PICK f \in Starts :
        call = [s \in Sessions |->
                  [file |-> f[s], sent |-> 0, closed |-> FALSE, taken |-> 0,
                   answers |-> <<>>, printed |-> 0, main |-> "reading", conn |-> "up"]]
  BY DEF Init
<1>2. \A s \in Sessions : f[s] \in Seq(Requests) /\ Len(f[s]) \in Nat
  BY LenProperties
<1>3. /\ <<>> \in Seq(ExecutionReport) /\ Len(<<>>) = 0 /\ DOMAIN <<>> = {}
  BY EmptySeq DEF ExecutionReport
<1>4. call \in [Sessions -> Call] /\ \A s \in Sessions : InWindow(call[s])
  BY <1>1, <1>2, <1>3 DEF Call, InWindow
<1>5. Blank \in Request /\ Rejected(Blank) \in ExecutionReport
  BY ReportType DEF Blank, Rejected, Request, Side, Kind
<1>6. TypeOK
  BY <1>4, <1>5 DEF Init, TypeOK
<1>7. LockHeld /\ Numbered /\ Asked /\ Matching
  BY DEF Init, LockHeld, Numbered, Asked, Matching, Threads
<1>8. BookInTable /\ TableInBook /\ Uncrossed
  BY DEF Init, BookInTable, TableInBook, Uncrossed, Side
<1>9. Answered /\ Working
  BY <1>1, <1>3 DEF Init, Answered, InTurn, Working, AtWork, Threads
<1>10. /\ id = 0 /\ OrderId \subseteq Nat \ {0}
       /\ \A i \in OrderId : placed[i] = NoOrder /\ orders[i] = NoOrder /\ filled[i] = 0 /\ withdrawn[i] = 0
  BY DEF Init, OrderId
<1>11. Recorded
  BY <1>10 DEF Recorded, Traded
<1>12. Ledger
  <2> DEFINE zero == [i \in OrderId |-> 0]
  <2>1. /\ \A st, d : Volume(st, d) = SumFunctionOnSet(zero, OrderId)
        /\ \A st : Told(st) = SumFunctionOnSet(zero, OrderId)
    <3>1. ASSUME NEW st, NEW d
          PROVE  Volume(st, d) = SumFunctionOnSet(zero, OrderId)
      <4> DEFINE g == [i \in OrderId |->
                         IF placed[i] # NoOrder /\ placed[i].stock = st /\ placed[i].dir = d
                         THEN Traded(i) ELSE 0]
      <4>1. g = zero
        BY <1>10
      <4>2. Volume(st, d) = SumFunctionOnSet(g, OrderId)
        BY DEF Volume
      <4> HIDE DEF zero, g
      <4> QED
        BY <4>1, <4>2
    <3>2. ASSUME NEW st
          PROVE  Told(st) = SumFunctionOnSet(zero, OrderId)
      <4> DEFINE g == [i \in OrderId |->
                         IF placed[i] # NoOrder /\ placed[i].stock = st THEN filled[i] ELSE 0]
      <4>1. g = zero
        BY <1>10
      <4>2. Told(st) = SumFunctionOnSet(g, OrderId)
        BY DEF Told
      <4> HIDE DEF zero, g
      <4> QED
        BY <4>1, <4>2
    <3> QED
      BY <3>1, <3>2
  <2>2. \A s \in Sessions : pc[s] # "match"
    BY DEF Init, Threads
  <2> QED
    BY <2>1, <2>2 DEF Ledger, Even
<1> QED
  BY <1>6, <1>7, <1>8, <1>9, <1>11, <1>12 DEF IInv, MarketInv, Accounts

\* The invariant is inductive: for any number of sessions, cancelers, stocks and
\* orders, no step of the server, its clients or the network breaks it.
THEOREM GlobalInvariance == Spec => []IInv
<1>1. IInv /\ [Next]_vars => IInv'
  BY TypeStep, LockStep, NumberedStep, AskedStep, MatchingStep, BookStep, AnswersStep,
     AccountsStep DEF IInv, MarketInv
<1> QED
  BY InitIInv, <1>1, PTL DEF Spec

\* No quantity of an order, a local or a report is ever negative, and no stream
\* holds more than its window.
THEOREM GlobalTypes == Spec => []TypeOK
<1>1. IInv => TypeOK
  BY DEF IInv, MarketInv
<1> QED
  BY GlobalInvariance, <1>1, PTL

\* Table and resting sets agree but for the order of the thread that has
\* process_mutex, and no two resting orders could trade with each other.
THEOREM GlobalBook == Spec => []BookSettled
<1>1. IInv => BookSettled
  BY DEF IInv, MarketInv, BookSettled
<1> QED
  BY GlobalInvariance, <1>1, PTL

\* Each client gets one answer per request, in turn, and with what became of
\* that very order.
THEOREM GlobalAnswers == Spec => []Answered
<1>1. IInv => Answered
  BY DEF IInv
<1> QED
  BY GlobalInvariance, <1>1, PTL

\* Whenever process_mutex is free, as much of each stock has been sold as bought,
\* and each trade has been told once: in whatever order sessions, cancellations
\* and lost clients came.
THEOREM GlobalBalance == Spec => []Balanced
<1>1. IInv => Balanced
  BY DEF IInv, Accounts, Recorded, Ledger, Balanced
<1> QED
  BY GlobalInvariance, <1>1, PTL

=============================================================================
