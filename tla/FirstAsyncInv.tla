---------------------------- MODULE FirstAsyncInv ----------------------------
(***************************************************************************)
(* What FirstAsync keeps invariant: what the resting sets, the order table *)
(* and the responders know of each other, how the reports of an order      *)
(* follow one another, and what is on its way to a client or printed.      *)
(***************************************************************************)
EXTENDS FirstAsync

\* A resting set has the orders of its stock and side that are not filled.
Resting ==
  \A s \in AnyStock, d \in Side :
    book[s][d] = {i \in OrderId : /\ orders[i] # NoOrder /\ orders[i].qty > 0
                                  /\ orders[i].stock = s /\ orders[i].dir = d}

\* An order has a number that has been given out and belongs to the call that was
\* told of it.
Numbered(i) ==
  /\ orders[i] # NoOrder => i <= id /\ orders[i].dir \in Side
  /\ IF i > id THEN responderOf[i] = NoCall
     ELSE responderOf[i] \in Pushes /\ Accepted(responderOf[i], i) # {}

\* Report r of an order accepts it, or is of a trade, and does not say that less is
\* left of the order than there is now.
Legit(r) ==
  r.order # 0 =>
    /\ r.order \in 1 .. id
    /\ r.stat = "ORDER_ACCEPT" => r.fill = 0 /\ r.total = r.leave
    /\ orders[r.order] # NoOrder => orders[r.order].qty <= r.leave

\* r is of a trade with what was left of the order at the time of report a, or later.
Later(a, r) == r.fill > 0 /\ r.leave + r.fill <= a.leave

\* Of two reports of an order, one is of a trade later than the other.
InTurn(a, r) == a.order = r.order /\ a.order # 0 => Later(a, r) \/ Later(r, a)

\* A call that has not been accepted reports nothing.
Waiting(c) == srv[c].op = "none" => srv[c].reports = <<>> /\ srv[c].next = 0

Reporting ==
  \A c, d \in Pushes : \A j \in DOMAIN srv[c].reports, k \in DOMAIN srv[d].reports :
    /\ Legit(srv[c].reports[j])
    /\ <<c, j>> # <<d, k>> => InTurn(srv[c].reports[j], srv[d].reports[k])

\* What follows the blank report in the output p of a client.
News(p) == IF p = <<>> THEN <<>> ELSE Tail(p)

\* What has been written to the stream of call c and has not been lost.
Sent(c) == News(cli[c].printed) \o down[c]

\* Report r can be on the stream of call c: it is the call's own or is about an
\* order of it, and is one of those written.
MeantFor(c, r) ==
  IF r.order = 0 THEN \E j \in 1 .. srv[c].next : srv[c].reports[j] = r
  ELSE /\ responderOf[r.order] = c
       /\ \E d \in Pushes : \E j \in 1 .. srv[d].next : srv[d].reports[j] = r

\* Nothing is on a stream that is not meant for it, and no report of an order twice.
Streaming(c) ==
  \A k \in DOMAIN Sent(c) :
    /\ MeantFor(c, Sent(c)[k])
    /\ \A j \in DOMAIN Sent(c) : j # k /\ Sent(c)[k].order # 0 => Sent(c)[j] # Sent(c)[k]

\* The output begins with the blank report, which comes before the first Read.
Printing(c) ==
  /\ cli[c].printed # <<>> => Head(cli[c].printed) = BlankReport
  /\ cli[c].op = "read" => cli[c].printed # <<>>
  /\ cli[c].op \in {"none", "start", "write", "writesDone"} => cli[c].printed = <<>>

\* The inductive invariant.
IInv ==
  /\ TypeOK
  /\ Resting /\ \A i \in OrderId : Numbered(i)
  /\ Reporting
  /\ \A c \in Calls : Waiting(c)
  /\ \A c \in Pushes : Streaming(c) /\ Printing(c)

=============================================================================
