--------------------------- MODULE AsyncServerInv ---------------------------
(***************************************************************************)
(* What AsyncServer keeps invariant: of its calls and streams, whatever    *)
(* the market puts into the reports (ServerInv); and of the reports, the   *)
(* orders they are about and the calls they are for (ReportInv).           *)
(***************************************************************************)
EXTENDS AsyncServer

CallKind == {"new", "cancel", "query"}

\* o is a CallData object, whatever it has been asked and has to report.
IsCall(o) ==
  o \in [kind : CallKind \cup {"none"}, status : {"PROCESS", "FINISH"},
         op : {"none", "request", "read", "write", "finish"}, to : {o.to},
         event : {"none", "ok", "fail"}, created : BOOLEAN, writing : BOOLEAN,
         buf : {o.buf}, cancel : {o.cancel}, reports : {o.reports}, next : Nat]

Shape ==
  /\ call = [c \in Calls |-> call[c]] /\ \A c \in Calls : IsCall(call[c])
  /\ peer \in [Calls -> {"none", "up", "gone"}]
  /\ received \in [Calls -> Seq(Calls \X (Nat \ {0}))]
  /\ made \in 0 .. MaxCalls
  /\ started \in {0, 1} /\ joining \in BOOLEAN /\ (joining <=> started = 1)
  /\ IF started = 0 THEN made = 0 ELSE made >= 3

Reached(c) == \E d \in Calls : \E a \in DOMAIN received[d] : received[d][a][1] = c

\* Numbers above `made` belong to no call yet.
Fresh ==
  \A c \in Calls : c > made => call[c].kind = "none" /\ peer[c] = "none" /\ ~Reached(c)

\* How far a call is: which operations can be pending with it in which state.
Phase(c) ==
  /\ call[c].kind = "none" <=> call[c].op = "none" /\ ~call[c].created
  /\ call[c].op = "none" => call[c].event = "none"
  /\ call[c].op = "request" => ~call[c].writing /\ call[c].next = 0
  /\ call[c].status = "FINISH" <=> call[c].op = "finish"
  /\ call[c].kind = "new" =>
       /\ call[c].created <=> call[c].op # "request"
       /\ call[c].op \in IF call[c].writing THEN {"write", "none"} ELSE {"request", "read"}
  /\ call[c].kind = "cancel" => call[c].op \in {"request", "finish"}
  /\ call[c].kind = "query" =>
       /\ call[c].op \in {"request", "write", "finish"}
       /\ call[c].created <=> call[c].op # "request"

Listens(c) == call[c].op = "request" /\ call[c].event = "none"

\* Every call made has a client, but for the listeners.
Clients == \A c \in Calls : c <= made => (peer[c] = "none" <=> Listens(c))

\* There is one listener of each kind, or one call that has not been accepted yet.
Listening ==
  started = 1 =>
    \A k \in CallKind : \E c \in Calls : \A d \in Calls :
      call[d].kind = k /\ call[d].op = "request" <=> d = c

Connected == {c \in Calls : peer[c] # "none"}

\* There is room for the listener that accepting a call makes.
Room == Connected = {} \/ Cardinality(Connected) + 3 <= MaxCalls

\* What is being sent has not been received, nor anything that comes after it.
Delivered(c) ==
  call[c].kind # "none" =>
    \A d \in Calls : \A a \in DOMAIN received[d] :
      received[d][a][1] = c =>
        /\ received[d][a][2] <= call[c].next
        /\ call[c].event = "none" /\ (call[c].op = "write" \/ call[c].kind = "cancel") =>
             received[d][a][2] < call[c].next

\* A number to deliver is positive.
Counted(c) ==
  call[c].op = "write" \/ (call[c].kind = "cancel" /\ call[c].op = "finish") => call[c].next > 0

\* What call c has written last was for a client that is gone.
ToGone(c) == \E d \in Calls : call[c].to = d /\ peer[d] = "gone"

\* Only a write to a client that is gone fails, or makes a call stop early.
Stopped(c) ==
  \/ call[c].op = "write" /\ call[c].event = "fail"
  \/ call[c].op = "none" /\ call[c].next < Len(call[c].reports)
  => ToGone(c)

CallInv(c) == Phase(c) /\ Delivered(c) /\ Counted(c) /\ Stopped(c)

\* Inductive, whatever is in the table and in the reports.
ServerInv ==
  /\ Shape /\ Fresh /\ Clients /\ Listening /\ Room
  /\ \A c \in Calls : CallInv(c)
  /\ InOrder

-----------------------------------------------------------------------------
(* Reports *)

\* The table has the orders created so far, or some of them.
BookOK ==
  /\ id \in 0 .. MaxOrders
  /\ table \in [OrderId -> Order \cup {NoOrder}]
  /\ \A i \in OrderId : i > id => table[i] = NoOrder
  /\ inbox \in [Calls -> Seq(Requests)]
  /\ fault \in {"none", "overlap"}

\* What a CallData object has been asked, and how much of what it has to report is sent.
Loaded(o) ==
  /\ o.to \in 0 .. MaxCalls
  /\ o.buf \in Request
  /\ o.cancel \in 0 .. MaxOrders
  /\ o.reports \in Seq(AnyReport)
  /\ o.next <= Len(o.reports)

\* The three kinds of report of a new-order call c.
Legit(c, r) ==
  \/ r.stat = "ORDER_REJECT" /\ r.order = 0 /\ r.fill = 0
  \/ r.stat = "ORDER_ACCEPT" /\ r.order \in 1 .. id /\ responderOf[r.order] = c /\ r.fill = 0
  \/ r.stat = "FILL" /\ r.order \in 1 .. id

\* An order belongs to the call that accepted it.
Responders ==
  /\ responderOf \in [OrderId -> 0 .. MaxCalls]
  /\ \A i \in OrderId :
       IF i > id THEN responderOf[i] = 0
       ELSE /\ responderOf[i] \in Calls /\ call[responderOf[i]].kind = "new"
            /\ \E k \in DOMAIN call[responderOf[i]].reports :
                 /\ call[responderOf[i]].reports[k].stat = "ORDER_ACCEPT"
                 /\ call[responderOf[i]].reports[k].order = i

\* The call that report r of call c is for.
MeantFor(c, r) == IF r.order = 0 THEN c ELSE responderOf[r.order]

\* What a call reports ...
Reporting(c) ==
  call[c].kind = "new" => \A k \in DOMAIN call[c].reports : Legit(c, call[c].reports[k])

\* ... and where the report it is sending, if call c is object o, goes.
Sending(c, o) ==
  o.op = "write" =>
    o.to = IF o.kind = "new" THEN MeantFor(c, o.reports[o.next]) ELSE c

\* A client has nothing of a new-order call but what is meant for it.
Got ==
  \A d \in Calls : \A a \in DOMAIN received[d] :
    LET c == received[d][a][1]
    IN  call[c].kind = "new" => d = MeantFor(c, call[c].reports[received[d][a][2]])

\* Inductive together with ServerInv.
ReportInv ==
  /\ BookOK /\ Responders /\ Got
  /\ \A c \in Calls : Loaded(call[c]) /\ Reporting(c) /\ Sending(c, call[c])
  /\ FillsAddUp

\* The inductive invariant.
IInv == ServerInv /\ ReportInv

=============================================================================
