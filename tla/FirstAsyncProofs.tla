-------------------------- MODULE FirstAsyncProofs --------------------------
(***************************************************************************)
(* Proofs about FirstAsync, for any number of clients, files of requests,  *)
(* connections lost and orders: its inductive invariant, what clients      *)
(* print, and that its market is AtomicMarket.  The loop of sellOrders and *)
(* buyOrders is a recursion over the order numbers, as in Trades; what it  *)
(* leaves and reports is proved pass by pass.                              *)
(***************************************************************************)
EXTENDS FirstAsyncInv, TradesProofs

USE OrdersAssumption, FirstAsyncAssumption

-----------------------------------------------------------------------------
(* The matching loop *)

\* Before the first pass.
Begun(i, o, tab) ==
  [orders |-> tab, cnt |-> 0, reports |-> <<Report("ORDER_ACCEPT", i, o.qty, 0, o.qty)>>]

\* H[r] is what the passes for those of the orders `ids` whose number is r at most
\* have left, as AllPasses has it.
Passes(i, o, tab, ids, n, H) ==
  H = [r \in 0 .. n |->
         IF r = 0 THEN Begun(i, o, tab)
         ELSE IF r \in ids THEN Pass(i, o, H[r - 1], r)
         ELSE H[r - 1]]

\* The recursion over the order numbers has a solution.
LEMMA PassesExist ==
  ASSUME NEW i, NEW o, NEW tab, NEW ids, NEW n \in Nat
  PROVE  \E H : Passes(i, o, tab, ids, n, H)
<1>1. PICK T : T = {k \in Nat : \E H : Passes(i, o, tab, ids, k, H)}
  OBVIOUS
<1>2. 0 \in T
  <2>1. PICK H : H = [r \in 0 .. 0 |-> Begun(i, o, tab)]
    OBVIOUS
  <2>2. Passes(i, o, tab, ids, 0, H)
    BY <2>1 DEF Passes
  <2> QED
    BY <1>1, <2>2
<1>3. ASSUME NEW k \in Nat, k \in T
      PROVE  k + 1 \in T
  <2>1. PICK H : Passes(i, o, tab, ids, k, H)
    BY <1>1, <1>3
  <2>2. PICK G : G = [r \in 0 .. k + 1 |->
                        IF r = 0 THEN Begun(i, o, tab)
                        ELSE IF r \in ids THEN Pass(i, o, H[r - 1], r)
                        ELSE H[r - 1]]
    OBVIOUS
  <2>3. ASSUME NEW r \in 0 .. k
        PROVE  G[r] = H[r]
    <3>1. H[r] = IF r = 0 THEN Begun(i, o, tab)
                 ELSE IF r \in ids THEN Pass(i, o, H[r - 1], r) ELSE H[r - 1]
      BY <2>1 DEF Passes
    <3>2. r \in 0 .. k + 1
      OBVIOUS
    <3> QED
      BY <2>2, <3>1, <3>2
  <2>4. \A r \in 0 .. k + 1 : r # 0 => G[r - 1] = H[r - 1]
    BY <2>3
  <2>5. Passes(i, o, tab, ids, k + 1, G)
    BY <2>2, <2>4 DEF Passes
  <2> QED
    BY <1>1, <2>5
<1> QED
  BY <1>1, <1>2, <1>3, NaturalSet

\* AllPasses is where the recursion ends.
LEMMA AllPassesIs ==
  ASSUME NEW i, NEW o
  PROVE  \E H : /\ Passes(i, o, orders, book[o.stock][Opp(o.dir)], MaxOrders, H)
                /\ AllPasses(i, o) = H[MaxOrders]
<1> DEFINE ids == book[o.stock][Opp(o.dir)]
           H == CHOOSE H : H = [r \in 0 .. MaxOrders |->
                  IF r = 0 THEN [orders |-> orders, cnt |-> 0,
                                 reports |-> <<Report("ORDER_ACCEPT", i, o.qty, 0, o.qty)>>]
                  ELSE IF r \in ids THEN Pass(i, o, H[r - 1], r)
                  ELSE H[r - 1]]
<1>1. H = [r \in 0 .. MaxOrders |->
             IF r = 0 THEN [orders |-> orders, cnt |-> 0,
                            reports |-> <<Report("ORDER_ACCEPT", i, o.qty, 0, o.qty)>>]
             ELSE IF r \in ids THEN Pass(i, o, H[r - 1], r)
             ELSE H[r - 1]]
  <2>1. PICK G : Passes(i, o, orders, ids, MaxOrders, G)
    BY PassesExist
  <2> QED
    BY <2>1 DEF Passes, Begun
<1>2. AllPasses(i, o) = H[MaxOrders]
  BY Zenon DEF AllPasses
<1> QED
  BY <1>1, <1>2 DEF Passes, Begun

\* Its steps, from the order that has not met any other.
LEMMA PassesSteps ==
  ASSUME NEW i, NEW o, NEW tab, NEW ids, NEW n \in Nat, NEW H, Passes(i, o, tab, ids, n, H)
  PROVE  /\ H[0] = Begun(i, o, tab)
         /\ \A r \in 1 .. n : r \in ids => H[r] = Pass(i, o, H[r - 1], r)
         /\ \A r \in 1 .. n : r \notin ids => H[r] = H[r - 1]
<1>1. \A r \in 0 .. n : H[r] = IF r = 0 THEN Begun(i, o, tab)
                              ELSE IF r \in ids THEN Pass(i, o, H[r - 1], r) ELSE H[r - 1]
  BY DEF Passes
<1> QED
  BY <1>1

\* What a pass that trades n with order r makes of m: both orders have n less, and
\* there is a report for each.
Traded(i, o, m, r, v, n) ==
  /\ n \in Nat /\ n > 0 /\ n <= m.orders[r].qty /\ n <= o.qty - m.cnt
  /\ n = Least(m.orders[r].qty, o.qty - m.cnt)
  /\ v.cnt = m.cnt + n
  /\ v.orders = [m.orders EXCEPT ![r] = [m.orders[r] EXCEPT !.qty = m.orders[r].qty - n]]
  /\ v.reports = m.reports \o
       <<Report("FILL", i, o.qty, n, o.qty - m.cnt - n),
         Report("FILL", r, m.orders[r].qty, n, m.orders[r].qty - n)>>

\* A pass trades with an order that is not filled, or does nothing.
LEMMA PassFacts ==
  ASSUME NEW i, NEW o, o.qty \in Nat, NEW r, NEW m, m.cnt \in 0 .. o.qty,
         m.orders[r].qty \in Nat, m.orders[r].qty > 0
  PROVE  IF m.cnt >= o.qty \/ ~Compatible(o, m.orders[r]) THEN Pass(i, o, m, r) = m
         ELSE \E n : Traded(i, o, m, r, Pass(i, o, m, r), n)
<1>1. CASE m.cnt >= o.qty \/ ~Compatible(o, m.orders[r])
  BY <1>1 DEF Pass
<1>2. CASE ~(m.cnt >= o.qty \/ ~Compatible(o, m.orders[r]))
  <2>1. PICK n : n = Least(m.orders[r].qty, o.qty - m.cnt)
    OBVIOUS
  <2>2. n \in Nat /\ n > 0 /\ n <= m.orders[r].qty /\ n <= o.qty - m.cnt
    BY <1>2, <2>1 DEF Least
  <2>3. PICK v, told :
          /\ told = m.reports \o
               <<Report("FILL", i, o.qty, n, o.qty - m.cnt - n),
                 Report("FILL", r, m.orders[r].qty, n, m.orders[r].qty - n)>>
          /\ v = [orders |-> [m.orders EXCEPT ![r].qty = @ - n], cnt |-> m.cnt + n, reports |-> told]
    OBVIOUS
  <2>4. Pass(i, o, m, r) = v
    BY <1>2, <2>1, <2>3 DEF Pass
  <2>5. v.orders = [m.orders EXCEPT ![r] = [m.orders[r] EXCEPT !.qty = m.orders[r].qty - n]]
    BY <2>3
  <2>6. v.cnt = m.cnt + n /\ v.reports = told
    BY <2>3
  <2>7. Traded(i, o, m, r, v, n)
    BY <2>1, <2>2, <2>3, <2>5, <2>6 DEF Traded
  <2> QED
    BY <1>2, <2>4, <2>7
<1> QED
  BY <1>1, <1>2

\* Report a that order i, that came as `o`, or one of the orders `ids` of a table
\* up to number r has got by the time the passes have left m.
Made(i, o, tab, ids, r, m, a) ==
  /\ a.order = i \/ (a.order \in ids /\ a.order <= r)
  /\ a.stat = "ORDER_ACCEPT" => a.fill = 0 /\ a.total = a.leave
  /\ a.order = i => o.qty - m.cnt <= a.leave
  /\ a.order \in ids => /\ m.orders[a.order].qty <= a.leave /\ a.fill > 0
                        /\ a.leave + a.fill <= tab[a.order].qty

\* What the passes up to number r have left: of the orders of the table, those they
\* are for have changed in their quantity; and the reports, each order's in turn.
Passed(i, o, tab, ids, r, m) ==
  /\ m.orders \in [OrderId -> Request \cup {NoOrder}]
  /\ m.cnt \in 0 .. o.qty
  /\ \A j \in OrderId : j \notin ids \/ j > r => m.orders[j] = tab[j]
  /\ \A j \in ids :
       /\ m.orders[j] \in Request
       /\ m.orders[j].qty <= tab[j].qty
       /\ m.orders[j].stock = tab[j].stock /\ m.orders[j].dir = tab[j].dir
  /\ m.reports \in Seq(AnyReport)
  /\ m.reports # <<>> /\ m.reports[1] = Report("ORDER_ACCEPT", i, o.qty, 0, o.qty)
  /\ \A k \in 1 .. Len(m.reports) : Made(i, o, tab, ids, r, m, m.reports[k])
  /\ \A j, k \in 1 .. Len(m.reports) :
       j < k /\ m.reports[j].order = m.reports[k].order => Later(m.reports[j], m.reports[k])

\* A request with less of it is a request.
LEMMA LessOfRequest ==
  ASSUME NEW e \in Request, NEW q \in Nat
  PROVE  /\ [e EXCEPT !.qty = q] \in Request
         /\ [e EXCEPT !.qty = q].qty = q
         /\ [e EXCEPT !.qty = q].stock = e.stock /\ [e EXCEPT !.qty = q].dir = e.dir
BY DEF Request

\* A pass that trades keeps that.
LEMMA TradedPassed ==
  ASSUME NEW tab \in [OrderId -> Request \cup {NoOrder}], NEW o, o.qty \in Nat,
         NEW ids \in SUBSET OrderId, \A j \in ids : tab[j] \in Request,
         NEW i \in OrderId \ ids, NEW r \in ids, NEW m, Passed(i, o, tab, ids, r - 1, m),
         NEW v, NEW n, Traded(i, o, m, r, v, n)
  PROVE  Passed(i, o, tab, ids, r, v)
<1>1. PICK e : e = m.orders[r]
  OBVIOUS
<1>2. /\ r \in OrderId /\ r \in Nat /\ i \in Nat /\ i # r /\ e = tab[r] /\ e \in Request
      /\ e.qty \in Nat /\ m.cnt \in Nat /\ m.cnt <= o.qty
  BY <1>1 DEF Passed, OrderId, Request
<1>3. /\ n \in Nat /\ n > 0 /\ n <= e.qty /\ n <= o.qty - m.cnt /\ v.cnt = m.cnt + n
      /\ v.cnt \in 0 .. o.qty
  <2>1. n \in Nat /\ n > 0 /\ n <= e.qty /\ n <= o.qty - m.cnt /\ v.cnt = m.cnt + n
    BY <1>1 DEF Traded
  <2> QED
    BY <1>2, <2>1
<1>4. PICK a, b : /\ a = Report("FILL", i, o.qty, n, o.qty - m.cnt - n)
                  /\ b = Report("FILL", r, e.qty, n, e.qty - n)
  OBVIOUS
<1>5. /\ a \in AnyReport /\ a.stat = "FILL" /\ a.order = i /\ a.fill = n
      /\ a.leave = o.qty - m.cnt - n
  <2>1. PICK left : left = o.qty - m.cnt - n
    OBVIOUS
  <2>2. left \in Nat /\ i \in Nat /\ n \in Nat /\ a = Report("FILL", i, o.qty, n, left)
    BY <1>2, <1>3, <1>4, <2>1
  <2> QED
    BY <2>1, <2>2 DEF Report, AnyReport
<1>6. b \in AnyReport /\ b.stat = "FILL" /\ b.order = r /\ b.fill = n /\ b.leave = e.qty - n
  <2>1. PICK left, q : left = e.qty - n /\ q = e.qty
    OBVIOUS
  <2>2. /\ left \in Nat /\ q \in Nat /\ r \in Nat /\ n \in Nat
        /\ b = Report("FILL", r, q, n, left)
    BY <1>2, <1>3, <1>4, <2>1
  <2> QED
    BY <2>1, <2>2 DEF Report, AnyReport
<1>7. PICK old, len : old = m.reports /\ len = Len(old)
  OBVIOUS
<1>8. /\ old \in Seq(AnyReport) /\ old # <<>> /\ len \in Nat /\ len > 0
      /\ old[1] = Report("ORDER_ACCEPT", i, o.qty, 0, o.qty)
      /\ \A k \in 1 .. len : Made(i, o, tab, ids, r - 1, m, old[k]) /\ old[k] \in AnyReport
      /\ \A j, k \in 1 .. len : j < k /\ old[j].order = old[k].order => Later(old[j], old[k])
  <2>1. old \in Seq(AnyReport) /\ old # <<>>
    BY <1>7 DEF Passed
  <2>2. len \in Nat /\ len > 0 /\ \A k \in 1 .. len : old[k] \in AnyReport
    BY <1>7, <2>1, LenProperties, EmptySeq, ElementOfSeq
  <2> QED
    BY <1>7, <2>1, <2>2 DEF Passed
<1>9. /\ v.reports \in Seq(AnyReport) /\ Len(v.reports) = len + 2
      /\ \A k \in 1 .. len : v.reports[k] = old[k]
      /\ v.reports[len + 1] = a /\ v.reports[len + 2] = b
  <2>1. v.reports = old \o <<a, b>>
    BY <1>1, <1>4, <1>7 DEF Traded
  <2>2. <<a, b>> \in Seq(AnyReport) /\ Len(<<a, b>>) = 2 /\ <<a, b>>[1] = a /\ <<a, b>>[2] = b
    BY <1>5, <1>6
  <2> QED
    BY <1>7, <1>8, <2>1, <2>2, ConcatProperties
<1>10. /\ v.orders \in [OrderId -> Request \cup {NoOrder}]
       /\ v.orders[r] \in Request /\ v.orders[r].qty = e.qty - n
       /\ v.orders[r].stock = e.stock /\ v.orders[r].dir = e.dir
       /\ \A j \in OrderId : j # r => v.orders[j] = m.orders[j]
  <2>1. PICK x : x = [e EXCEPT !.qty = e.qty - n]
    OBVIOUS
  <2>2. x \in Request /\ x.qty = e.qty - n /\ x.stock = e.stock /\ x.dir = e.dir
    <3>1. e.qty - n \in Nat
      BY <1>2, <1>3
    <3> QED
      BY <1>2, <2>1, <3>1, LessOfRequest
  <2>3. v.orders = [m.orders EXCEPT ![r] = x] /\ m.orders \in [OrderId -> Request \cup {NoOrder}]
    BY <1>1, <2>1 DEF Traded, Passed
  <2> QED
    BY <1>2, <2>2, <2>3
<1>11. \A j \in OrderId : j \notin ids \/ j > r => v.orders[j] = tab[j]
  <2>1. \A j \in OrderId : j \notin ids \/ j > r => j # r /\ (j \notin ids \/ j > r - 1)
    BY DEF OrderId
  <2> QED
    BY <1>10, <2>1 DEF Passed
<1>12. \A j \in ids :
         /\ v.orders[j] \in Request
         /\ v.orders[j].qty <= tab[j].qty
         /\ v.orders[j].stock = tab[j].stock /\ v.orders[j].dir = tab[j].dir
  <2> SUFFICES ASSUME NEW j \in ids
               PROVE  /\ v.orders[j] \in Request
                      /\ v.orders[j].qty <= tab[j].qty
                      /\ v.orders[j].stock = tab[j].stock /\ v.orders[j].dir = tab[j].dir
    OBVIOUS
  <2>1. CASE j = r
    BY <1>2, <1>3, <1>10, <2>1
  <2>2. CASE j # r
    BY <1>10, <2>2 DEF Passed
  <2> QED
    BY <2>1, <2>2
<1>13. \A k \in 1 .. len + 2 : Made(i, o, tab, ids, r, v, v.reports[k])
  <2>1. Made(i, o, tab, ids, r, v, a)
    BY <1>2, <1>3, <1>5 DEF Made
  <2>2. Made(i, o, tab, ids, r, v, b)
    BY <1>2, <1>3, <1>6, <1>10 DEF Made
  <2>3. ASSUME NEW k \in 1 .. len
        PROVE  Made(i, o, tab, ids, r, v, old[k])
    <3>1. Made(i, o, tab, ids, r - 1, m, old[k]) /\ old[k] \in AnyReport
      BY <1>8
    <3>2. old[k].leave \in Nat /\ old[k].order \in Nat
      BY <3>1 DEF AnyReport
    <3>3. old[k].order = i \/ (old[k].order \in ids /\ old[k].order <= r /\ old[k].order # r)
      BY <1>2, <3>1, <3>2 DEF Made
    <3>4. old[k].order = i => o.qty - v.cnt <= old[k].leave
      <4>1. old[k].order = i => o.qty - m.cnt <= old[k].leave
        BY <3>1 DEF Made
      <4>2. o.qty \in Nat /\ m.cnt \in Nat /\ v.cnt \in Nat /\ m.cnt <= v.cnt
        BY <1>2, <1>3
      <4>3. PICK before, after : before = o.qty - m.cnt /\ after = o.qty - v.cnt
        OBVIOUS
      <4>4. before \in Int /\ after \in Int /\ after <= before
        BY ONLY <4>2, <4>3
      <4> QED
        BY <3>2, <4>1, <4>3, <4>4
    <3>5. old[k].order \in ids =>
            /\ v.orders[old[k].order].qty <= old[k].leave /\ old[k].fill > 0
            /\ old[k].leave + old[k].fill <= tab[old[k].order].qty
      BY <1>10, <3>1, <3>3 DEF Made
    <3> QED
      BY <3>1, <3>3, <3>4, <3>5 DEF Made
  <2> QED
    BY <1>8, <1>9, <2>1, <2>2, <2>3
<1>14. \A j, k \in 1 .. len + 2 :
         j < k /\ v.reports[j].order = v.reports[k].order => Later(v.reports[j], v.reports[k])
  <2> SUFFICES ASSUME NEW j \in 1 .. len + 2, NEW k \in 1 .. len + 2,
                      j < k, v.reports[j].order = v.reports[k].order
               PROVE  Later(v.reports[j], v.reports[k])
    OBVIOUS
  <2>1. CASE k <= len
    <3>1. j \in 1 .. len /\ k \in 1 .. len /\ v.reports[j] = old[j] /\ v.reports[k] = old[k]
      BY <1>8, <1>9, <2>1
    <3> QED
      BY <1>8, <3>1
  <2>2. CASE k = len + 1
    <3>1. j \in 1 .. len /\ v.reports[j] = old[j] /\ v.reports[k] = a
      BY <1>8, <1>9, <2>2
    <3>2. Made(i, o, tab, ids, r - 1, m, old[j]) /\ old[j].leave \in Nat /\ old[j].order = i
      BY <1>5, <1>8, <3>1 DEF AnyReport
    <3>3. o.qty - m.cnt <= old[j].leave
      BY <3>2 DEF Made
    <3>4. Later(old[j], a)
      BY <1>2, <1>3, <1>5, <3>2, <3>3 DEF Later
    <3> QED
      BY <3>1, <3>4
  <2>3. CASE k = len + 2
    <3>1. v.reports[k] = b /\ v.reports[k].order = r
      BY <1>6, <1>9, <2>3
    <3>2. CASE j = len + 1
      BY <1>2, <1>5, <1>9, <3>1, <3>2
    <3>3. CASE j # len + 1
      <4>1. j \in 1 .. len /\ v.reports[j] = old[j]
        BY <1>8, <1>9, <2>3, <3>3
      <4>2. Made(i, o, tab, ids, r - 1, m, old[j]) /\ old[j].order = r
        BY <1>8, <3>1, <4>1
      <4> QED
        BY <1>2, <4>2 DEF Made
    <3> QED
      BY <3>2, <3>3
  <2> QED
    BY <1>8, <2>1, <2>2, <2>3
<1>15. v.reports # <<>> /\ v.reports[1] = Report("ORDER_ACCEPT", i, o.qty, 0, o.qty)
  BY <1>8, <1>9
<1> QED
  BY <1>3, <1>9, <1>10, <1>11, <1>12, <1>13, <1>14, <1>15 DEF Passed

\* Every pass does.
LEMMA PassedUpTo ==
  ASSUME NEW tab \in [OrderId -> Request \cup {NoOrder}], NEW o, o.qty \in Nat,
         NEW ids \in SUBSET OrderId, \A j \in ids : tab[j] \in Request /\ tab[j].qty > 0,
         NEW i \in OrderId \ ids, NEW H, Passes(i, o, tab, ids, MaxOrders, H)
  PROVE  \A r \in 0 .. MaxOrders : Passed(i, o, tab, ids, r, H[r])
<1>1. PICK T : T = {r \in 0 .. MaxOrders : Passed(i, o, tab, ids, r, H[r])}
  OBVIOUS
<1>2. /\ H[0] = Begun(i, o, tab)
      /\ \A r \in 1 .. MaxOrders : r \in ids => H[r] = Pass(i, o, H[r - 1], r)
      /\ \A r \in 1 .. MaxOrders : r \notin ids => H[r] = H[r - 1]
  BY PassesSteps
<1>3. 0 \in T
  <2>1. PICK a : a = Report("ORDER_ACCEPT", i, o.qty, 0, o.qty)
    OBVIOUS
  <2>2. /\ a \in AnyReport /\ a.stat = "ORDER_ACCEPT" /\ a.order = i
        /\ a.total = o.qty /\ a.fill = 0 /\ a.leave = o.qty
    <3>1. i \in Nat /\ 0 \in Nat
      BY DEF OrderId
    <3> QED
      BY <2>1, <3>1 DEF Report, AnyReport
  <2>3. H[0].orders = tab /\ H[0].cnt = 0 /\ H[0].reports = <<a>>
    BY <1>2, <2>1 DEF Begun
  <2>4. /\ <<a>> \in Seq(AnyReport) /\ <<a>> # <<>> /\ <<a>>[1] = a
        /\ Len(<<a>>) = 1 /\ \A k \in 1 .. 1 : <<a>>[k] = a
    BY <2>2
  <2>5. Made(i, o, tab, ids, 0, H[0], a)
    BY <2>2, <2>3 DEF Made
  <2>6. \A j \in ids : tab[j].qty <= tab[j].qty
    BY DEF Request
  <2>7. Passed(i, o, tab, ids, 0, H[0])
    BY <2>1, <2>3, <2>4, <2>5, <2>6 DEF Passed
  <2> QED
    BY <1>1, <2>7
<1>4. ASSUME NEW r \in 1 .. MaxOrders, r - 1 \in T
      PROVE  r \in T
  <2>1. PICK m, v : m = H[r - 1] /\ v = H[r]
    OBVIOUS
  <2>2. Passed(i, o, tab, ids, r - 1, m) /\ r \in OrderId /\ r \in 0 .. MaxOrders
    BY <1>1, <1>4, <2>1 DEF OrderId
  <2>3. Passed(i, o, tab, ids, r, m)
    <3>1. \A j \in OrderId : j \notin ids \/ j > r => j \notin ids \/ j > r - 1
      BY DEF OrderId
    <3>2. \A j \in OrderId : j \notin ids \/ j > r => m.orders[j] = tab[j]
      BY <2>2, <3>1 DEF Passed
    <3>3. \A k \in 1 .. Len(m.reports) : Made(i, o, tab, ids, r, m, m.reports[k])
      <4>1. \A j \in ids : j <= r - 1 => j <= r
        BY DEF OrderId
      <4> QED
        BY <2>2, <4>1 DEF Passed, Made
    <3> QED
      BY <2>2, <3>2, <3>3 DEF Passed
  <2>4. CASE v = m
    BY <1>1, <2>1, <2>2, <2>3, <2>4
  <2>5. CASE v # m
    <3>1. r \in ids /\ v = Pass(i, o, m, r)
      BY <1>2, <2>1, <2>5
    <3>2. m.orders[r] = tab[r] /\ m.orders[r].qty \in Nat /\ m.orders[r].qty > 0 /\ m.cnt \in 0 .. o.qty
      BY <2>2, <3>1 DEF Passed, Request
    <3>3. PICK n : Traded(i, o, m, r, v, n)
      BY <2>5, <3>1, <3>2, PassFacts
    <3>4. \A j \in ids : tab[j] \in Request
      OBVIOUS
    <3>5. Passed(i, o, tab, ids, r, v)
      BY <2>2, <3>1, <3>3, <3>4, TradedPassed
    <3> QED
      BY <1>1, <2>1, <2>2, <3>5
  <2> QED
    BY <2>4, <2>5
<1>5. \A r \in 0 .. MaxOrders : r \in T
  BY <1>3, <1>4, CountingSet
<1> QED
  BY <1>1, <1>5

\* All passes.
LEMMA AllPassesPassed ==
  ASSUME orders \in [OrderId -> Request \cup {NoOrder}], NEW o, o.qty \in Nat,
         NEW ids \in SUBSET OrderId, ids = book[o.stock][Opp(o.dir)],
         \A j \in ids : orders[j] \in Request /\ orders[j].qty > 0,
         NEW i \in OrderId \ ids
  PROVE  Passed(i, o, orders, ids, MaxOrders, AllPasses(i, o))
<1>1. PICK H : Passes(i, o, orders, ids, MaxOrders, H) /\ AllPasses(i, o) = H[MaxOrders]
  BY AllPassesIs
<1>2. MaxOrders \in 0 .. MaxOrders
  OBVIOUS
<1>3. Passed(i, o, orders, ids, MaxOrders, H[MaxOrders])
  BY <1>1, <1>2, PassedUpTo
<1> QED
  BY <1>1, <1>3

-----------------------------------------------------------------------------
(* The market *)

\* What the market keeps invariant by itself.
MarketOK ==
  /\ id \in 0 .. MaxOrders
  /\ orders \in [OrderId -> Request \cup {NoOrder}]
  /\ book \in [AnyStock -> [Side -> SUBSET OrderId]]
  /\ Resting
  /\ \A j \in OrderId : orders[j] # NoOrder => j <= id /\ orders[j].dir \in Side

\* Order o comes as number i, to trade with the orders ids; the passes leave m and
\* rest of it, which the table has next.
Accepting(o, i, ids, m, rest) ==
  /\ i = id + 1 /\ i \in OrderId /\ orders[i] = NoOrder
  /\ o \in Request /\ o.qty > 0 /\ o.dir \in Side /\ o.stock \in AnyStock
  /\ ids = book[o.stock][Opp(o.dir)] /\ ids \in SUBSET OrderId /\ i \notin ids
  /\ \A j \in ids : orders[j] \in Request /\ orders[j].qty > 0 /\ j <= id
  /\ m = AllPasses(i, o) /\ Passed(i, o, orders, ids, MaxOrders, m)
  /\ rest = Remainder(o, m.cnt, ids # {})
  /\ rest \in Request /\ rest.qty = o.qty - m.cnt /\ rest.stock = o.stock /\ rest.dir = o.dir
  /\ id' = i
  /\ orders' = [m.orders EXCEPT ![i] = rest]
  /\ orders' \in [OrderId -> Request \cup {NoOrder}]
  /\ orders'[i] = rest
  /\ \A j \in OrderId : j # i => orders'[j] = m.orders[j]

\* That is what accepting an order does.
LEMMA AcceptFacts ==
  ASSUME MarketOK, NEW o \in Requests, Legal(o), AcceptOrder(o)
  PROVE  \E i, ids, m, rest : Accepting(o, i, ids, m, rest)
<1>1. PICK i, ids, m, rest :
        /\ i = id + 1 /\ ids = book[o.stock][Opp(o.dir)] /\ m = AllPasses(i, o)
        /\ rest = Remainder(o, m.cnt, ids # {})
  OBVIOUS
<1>2. id' = i /\ orders' = [m.orders EXCEPT ![i] = rest] /\ id < MaxOrders
  BY <1>1 DEF AcceptOrder
<1>3. i \in OrderId /\ orders[i] = NoOrder
  BY <1>1, <1>2 DEF MarketOK, OrderId
<1>4. o \in Request /\ o.qty \in Nat /\ o.qty > 0 /\ o.dir \in Side /\ o.stock \in AnyStock
  BY DEF Legal, Request, AnyStock
<1>5. /\ ids \in SUBSET OrderId
      /\ \A j \in ids : orders[j] \in Request /\ orders[j].qty > 0 /\ j <= id
  <2>1. Opp(o.dir) \in Side
    BY <1>4 DEF Opp, Side
  <2>2. ids = {j \in OrderId : /\ orders[j] # NoOrder /\ orders[j].qty > 0
                               /\ orders[j].stock = o.stock /\ orders[j].dir = Opp(o.dir)}
    BY <1>1, <1>4, <2>1 DEF MarketOK, Resting
  <2> QED
    BY <2>2 DEF MarketOK
<1>6. i \notin ids
  BY <1>1, <1>5 DEF MarketOK
<1>7. Passed(i, o, orders, ids, MaxOrders, m)
  BY <1>1, <1>3, <1>4, <1>5, <1>6, AllPassesPassed DEF MarketOK
<1>8. /\ rest \in Request /\ rest.qty = o.qty - m.cnt
      /\ rest.stock = o.stock /\ rest.dir = o.dir
  <2>1. PICK left, price : /\ left = o.qty - m.cnt
                           /\ price = IF ids # {} THEN Repriced(o) ELSE o.price
    OBVIOUS
  <2>2. m.cnt \in 0 .. o.qty
    BY <1>7 DEF Passed
  <2>3. left \in Nat
    BY <1>4, <2>1, <2>2
  <2>4. price \in Int
    BY <1>4, <2>1 DEF Repriced, Request
  <2>5. rest = [o EXCEPT !.qty = left, !.price = price]
    BY <1>1, <2>1 DEF Remainder
  <2> QED
    BY <1>4, <2>1, <2>3, <2>4, <2>5 DEF Request
<1>9. m.orders \in [OrderId -> Request \cup {NoOrder}]
  BY <1>7 DEF Passed
<1>10. /\ orders' \in [OrderId -> Request \cup {NoOrder}]
       /\ orders'[i] = rest
       /\ \A j \in OrderId : j # i => orders'[j] = m.orders[j]
  BY <1>2, <1>3, <1>8, <1>9
<1>11. Accepting(o, i, ids, m, rest)
  BY <1>1, <1>2, <1>3, <1>4, <1>5, <1>6, <1>7, <1>8, <1>10 DEF Accepting
<1> QED
  BY <1>11

\* Accepting an order keeps the table and the resting sets together.
LEMMA AcceptMarket ==
  ASSUME MarketOK, NEW o \in Requests, Legal(o), AcceptOrder(o)
  PROVE  MarketOK'
<1>1. PICK i, ids, m, rest : Accepting(o, i, ids, m, rest)
  BY AcceptFacts
<1>2. PICK up1, own, c, p : /\ up1 = {r \in ids : m.orders[r].qty > 0}
                            /\ own = IF rest.qty > 0 THEN book[o.stock][o.dir] \cup {i}
                                     ELSE book[o.stock][o.dir]
                            /\ c = o.dir /\ p = Opp(o.dir)
  OBVIOUS
<1>3. /\ o.stock \in AnyStock /\ o.dir \in Side /\ Opp(o.dir) \in Side /\ Opp(o.dir) # o.dir
      /\ ids = book[o.stock][Opp(o.dir)] /\ ids \in SUBSET OrderId /\ i \in OrderId
  BY <1>1 DEF Accepting, Opp, Side
<1>4. book' = [book EXCEPT ![o.stock][Opp(o.dir)] = up1,
                           ![o.stock][o.dir] = IF rest.qty > 0 THEN @ \cup {i} ELSE @]
  <2>1. id' = i /\ ids = book[o.stock][Opp(o.dir)] /\ m = AllPasses(i, o)
        /\ rest = Remainder(o, m.cnt, ids # {}) /\ i = id + 1
    BY <1>1 DEF Accepting
  <2>2. book' = [book EXCEPT ![o.stock][Opp(o.dir)] = {r \in @ : m.orders[r].qty > 0},
                             ![o.stock][o.dir] = IF rest.qty > 0 THEN @ \cup {i} ELSE @]
    BY <2>1 DEF AcceptOrder
  <2>3. o.stock \in AnyStock /\ {r \in ids : m.orders[r].qty > 0} = up1
    BY <1>2, <1>3
  <2> QED
    BY <2>1, <2>2, <2>3 DEF MarketOK
<1>5. /\ book' \in [AnyStock -> [Side -> SUBSET OrderId]]
      /\ \A s \in AnyStock, d \in Side :
           book'[s][d] = IF s = o.stock /\ d = Opp(o.dir) THEN up1
                         ELSE IF s = o.stock /\ d = o.dir /\ rest.qty > 0 THEN book[s][d] \cup {i}
                         ELSE book[s][d]
  <2>1. book' = [book EXCEPT ![o.stock][p] = up1, ![o.stock][c] = own]
    <3>1. c # p
      BY <1>2, <1>3
    <3> QED
      BY <1>2, <1>3, <1>4, <3>1 DEF MarketOK
  <2>2. PICK bk : bk = [book EXCEPT ![o.stock] = [book[o.stock] EXCEPT ![p] = up1, ![c] = own]]
    OBVIOUS
  <2>3. book' = bk
    BY <1>2, <1>3, <2>1, <2>2 DEF MarketOK
  <2>4. up1 \in SUBSET OrderId /\ own \in SUBSET OrderId
    BY <1>2, <1>3 DEF MarketOK
  <2> QED
    BY <1>2, <1>3, <2>2, <2>3, <2>4 DEF MarketOK
<1>6. /\ orders \in [OrderId -> Request \cup {NoOrder}]
      /\ orders' \in [OrderId -> Request \cup {NoOrder}]
      /\ orders'[i] = rest /\ rest \in Request /\ rest.stock = o.stock /\ rest.dir = o.dir
      /\ orders[i] = NoOrder /\ rest.qty \in Nat
      /\ \A j \in OrderId : j # i /\ j \notin ids => orders'[j] = orders[j]
      /\ \A j \in ids : /\ j # i /\ orders'[j] = m.orders[j] /\ m.orders[j] \in Request
                        /\ m.orders[j].stock = orders[j].stock /\ m.orders[j].dir = orders[j].dir
                        /\ orders[j] # NoOrder /\ j <= id
  <2>1. rest.qty \in Nat
    BY <1>1 DEF Accepting, Request
  <2> QED
    BY <1>1, <2>1 DEF Accepting, Passed, MarketOK
<1>7. id' \in 0 .. MaxOrders /\ \A j \in OrderId : orders'[j] # NoOrder => j <= id' /\ orders'[j].dir \in Side
  <2>1. id' = i /\ i = id + 1 /\ id \in Nat
    BY <1>1 DEF Accepting, MarketOK
  <2>2. id' \in 0 .. MaxOrders
    BY <1>3, <2>1 DEF OrderId
  <2>3. ASSUME NEW j \in OrderId, orders'[j] # NoOrder
        PROVE  j <= id' /\ orders'[j].dir \in Side
    <3>1. CASE j = i
      BY <1>3, <1>6, <2>1, <3>1 DEF OrderId
    <3>2. CASE j # i /\ orders[j] # NoOrder
      <4>1. j <= id /\ orders[j].dir \in Side
        BY <3>2 DEF MarketOK
      <4> QED
        BY <1>6, <2>1, <3>2, <4>1 DEF OrderId
    <3> QED
      BY <1>6, <2>3, <3>1, <3>2
  <2> QED
    BY <2>2, <2>3
<1>8. ASSUME NEW s \in AnyStock, NEW d \in Side
      PROVE  book'[s][d] = {j \in OrderId : /\ orders'[j] # NoOrder /\ orders'[j].qty > 0
                                            /\ orders'[j].stock = s /\ orders'[j].dir = d}
  <2>1. book[s][d] = {j \in OrderId : /\ orders[j] # NoOrder /\ orders[j].qty > 0
                                      /\ orders[j].stock = s /\ orders[j].dir = d}
    BY DEF MarketOK, Resting
  <2>2. ids = {j \in OrderId : /\ orders[j] # NoOrder /\ orders[j].qty > 0
                               /\ orders[j].stock = o.stock /\ orders[j].dir = Opp(o.dir)}
    BY <1>3 DEF MarketOK, Resting
  <2>3. ASSUME NEW j \in OrderId
        PROVE  j \in book'[s][d] <=> /\ orders'[j] # NoOrder /\ orders'[j].qty > 0
                                     /\ orders'[j].stock = s /\ orders'[j].dir = d
    <3>0. j \in book[s][d] <=> /\ orders[j] # NoOrder /\ orders[j].qty > 0
                               /\ orders[j].stock = s /\ orders[j].dir = d
      BY <2>1
    <3>00. PICK B, C : /\ B = book[s][d] /\ C = book'[s][d]
                       /\ C = IF s = o.stock /\ d = p THEN up1
                              ELSE IF s = o.stock /\ d = c THEN own ELSE B
      <4>1. s = o.stock /\ d = c => book[s][d] = book[o.stock][o.dir]
        BY <1>2
      <4> QED
        BY <1>2, <1>5, <4>1
    <3>1. CASE j = i
      <4>1. j \notin book[s][d] /\ j \notin ids
        BY <1>6, <3>0, <3>1
      <4> QED
        BY <1>2, <1>3, <1>6, <3>00, <3>1, <4>1
    <3>2. CASE j \in ids
      <4>1. j # i /\ orders[j].stock = o.stock /\ orders[j].dir = Opp(o.dir) /\ orders[j] # NoOrder
        BY <1>6, <2>2, <3>2
      <4>2. /\ orders'[j] # NoOrder /\ orders'[j].stock = o.stock /\ orders'[j].dir = Opp(o.dir)
            /\ orders'[j] = m.orders[j]
        BY <1>6, <3>2, <4>1
      <4>3. j \in book'[s][d] <=> s = o.stock /\ d = Opp(o.dir) /\ j \in up1
        BY <1>2, <1>3, <3>0, <3>00, <4>1
      <4> QED
        BY <1>2, <3>2, <4>2, <4>3
    <3>3. CASE j # i /\ j \notin ids
      <4>1. orders'[j] = orders[j]
        BY <1>6, <3>3
      <4>2. j \in book'[s][d] <=> j \in book[s][d]
        BY <1>2, <1>3, <3>00, <3>3
      <4> QED
        BY <3>0, <4>1, <4>2
    <3> QED
      BY <3>1, <3>2, <3>3
  <2>4. book'[s][d] \subseteq OrderId
    BY <1>5
  <2> QED
    BY <2>3, <2>4
<1> QED
  BY <1>5, <1>6, <1>7, <1>8 DEF MarketOK, Resting

\* So does cancelling one.
LEMMA DropMarket ==
  ASSUME MarketOK, NEW i, DropOrder(i)
  PROVE  MarketOK'
<1>1. PICK s, d : s = orders[i].stock /\ d = orders[i].dir
  OBVIOUS
<1>2. i \in OrderId /\ orders[i] \in Request /\ s \in AnyStock /\ d \in Side /\ id' = id
  BY <1>1 DEF DropOrder, MarketOK, Request, AnyStock
<1>3. /\ orders' \in [OrderId -> Request \cup {NoOrder}] /\ orders'[i] = NoOrder
      /\ \A j \in OrderId : j # i => orders'[j] = orders[j]
  BY <1>2 DEF DropOrder, MarketOK
<1>4. /\ book' \in [AnyStock -> [Side -> SUBSET OrderId]]
      /\ \A t \in AnyStock, e \in Side :
           book'[t][e] = IF t = s /\ e = d THEN book[t][e] \ {i} ELSE book[t][e]
  BY <1>1, <1>2 DEF DropOrder, MarketOK
<1>5. ASSUME NEW t \in AnyStock, NEW e \in Side
      PROVE  book'[t][e] = {j \in OrderId : /\ orders'[j] # NoOrder /\ orders'[j].qty > 0
                                            /\ orders'[j].stock = t /\ orders'[j].dir = e}
  <2>1. book[t][e] = {j \in OrderId : /\ orders[j] # NoOrder /\ orders[j].qty > 0
                                      /\ orders[j].stock = t /\ orders[j].dir = e}
    BY DEF MarketOK, Resting
  <2>2. ASSUME NEW j \in OrderId
        PROVE  j \in book'[t][e] <=> /\ orders'[j] # NoOrder /\ orders'[j].qty > 0
                                     /\ orders'[j].stock = t /\ orders'[j].dir = e
    <3>1. PICK B, C : /\ B = book[t][e] /\ C = book'[t][e]
                      /\ C = IF t = s /\ e = d THEN B \ {i} ELSE B
      BY <1>4
    <3> QED
      BY <1>1, <1>3, <2>1, <3>1
  <2>3. book'[t][e] \subseteq OrderId
    BY <1>4
  <2> QED
    BY <2>2, <2>3
<1>6. \A j \in OrderId : orders'[j] # NoOrder => j <= id' /\ orders'[j].dir \in Side
  BY <1>2, <1>3 DEF MarketOK
<1> QED
  BY <1>2, <1>3, <1>4, <1>5, <1>6 DEF MarketOK, Resting

-----------------------------------------------------------------------------
(* The market as AtomicMarket *)

\* What AtomicMarket has of table entry e: nothing when it is filled.
OpenOf(e) == IF e = NoOrder THEN NoOrder ELSE IF e.qty = 0 THEN NoOrder ELSE e

\* What the passes have left in this market, m, and in AtomicMarket, k.
Reflects(o, m, k) ==
  k.left = o.qty - m.cnt /\ k.tab = [j \in OrderId |-> OpenOf(m.orders[j])]

\* The loop and Matched trade alike.
LEMMA PassesReflect ==
  ASSUME NEW tab \in [OrderId -> Request \cup {NoOrder}], NEW o, o.qty \in Nat,
         NEW ids \in SUBSET OrderId, \A j \in ids : tab[j] \in Request /\ tab[j].qty > 0,
         NEW i \in OrderId \ ids, NEW H, Passes(i, o, tab, ids, MaxOrders, H),
         NEW open, open = [j \in OrderId |-> OpenOf(tab[j])],
         NEW K, UpTo(open, o, ids, MaxOrders, K)
  PROVE  Reflects(o, H[MaxOrders], K[MaxOrders])
<1>1. PICK T : T = {r \in 0 .. MaxOrders : Reflects(o, H[r], K[r])}
  OBVIOUS
<1>2. /\ H[0] = Begun(i, o, tab)
      /\ \A r \in 1 .. MaxOrders : r \in ids => H[r] = Pass(i, o, H[r - 1], r)
      /\ \A r \in 1 .. MaxOrders : r \notin ids => H[r] = H[r - 1]
  BY PassesSteps
<1>3. /\ K[0] = [tab |-> open, left |-> o.qty, trades |-> <<>>]
      /\ \A r \in 1 .. MaxOrders : r \in ids => K[r] = Visit(o, K[r - 1], r)
      /\ \A r \in 1 .. MaxOrders : r \notin ids => K[r] = K[r - 1]
  BY UpToSteps
<1>4. 0 \in T
  <2>1. H[0].orders = tab /\ H[0].cnt = 0 /\ K[0].tab = open /\ K[0].left = o.qty
    BY <1>2, <1>3 DEF Begun
  <2> QED
    BY <1>1, <2>1 DEF Reflects
<1>5. ASSUME NEW r \in 1 .. MaxOrders, r - 1 \in T
      PROVE  r \in T
  <2>1. PICK m, v, k, w : m = H[r - 1] /\ v = H[r] /\ k = K[r - 1] /\ w = K[r]
    OBVIOUS
  <2>2. /\ Passed(i, o, tab, ids, r - 1, m) /\ Reflects(o, m, k)
        /\ r \in OrderId /\ r \in 0 .. MaxOrders /\ r - 1 \in 0 .. MaxOrders
    <3>1. r - 1 \in 0 .. MaxOrders
      OBVIOUS
    <3> QED
      BY <1>1, <1>5, <2>1, <3>1, PassedUpTo DEF OrderId
  <2>3. CASE r \notin ids
    BY <1>1, <1>2, <1>3, <2>1, <2>2, <2>3
  <2>4. CASE r \in ids
    <3>1. PICK e : e = tab[r]
      OBVIOUS
    <3>2. /\ e = m.orders[r] /\ e \in Request /\ e # NoOrder /\ e.qty \in Nat /\ e.qty > 0
          /\ m.cnt \in 0 .. o.qty
      BY <2>2, <2>4, <3>1 DEF Passed, Request
    <3>3. k.tab[r] = e /\ k.left = o.qty - m.cnt
      BY <2>2, <3>2 DEF Reflects, OpenOf
    <3>4. v = Pass(i, o, m, r) /\ w = Visit(o, k, r)
      BY <1>2, <1>3, <2>1, <2>4
    <3>5. CASE m.cnt >= o.qty \/ ~Compatible(o, e)
      <4>1. v = m
        BY <3>2, <3>4, <3>5, PassFacts
      <4>2. w = k
        BY <3>2, <3>3, <3>4, <3>5 DEF Visit
      <4> QED
        BY <1>1, <2>1, <2>2, <4>1, <4>2
    <3>6. CASE ~(m.cnt >= o.qty \/ ~Compatible(o, e))
      <4>1. PICK n : Traded(i, o, m, r, v, n)
        BY <3>2, <3>4, <3>6, PassFacts
      <4>2. PICK x : x = [e EXCEPT !.qty = e.qty - n]
        OBVIOUS
      <4>3. /\ n \in Nat /\ n <= e.qty /\ n = Least(e.qty, k.left)
            /\ v.cnt = m.cnt + n /\ v.orders = [m.orders EXCEPT ![r] = x]
        BY <3>2, <3>3, <4>1, <4>2 DEF Traded
      <4>4. /\ w.left = k.left - n
            /\ w.tab = [k.tab EXCEPT ![r] = IF e.qty = n THEN NoOrder ELSE x]
        BY <3>2, <3>3, <3>4, <3>6, <4>2, <4>3 DEF Visit
      <4>5. x.qty = e.qty - n /\ x # NoOrder
        <5>1. PICK q : q = e.qty - n
          OBVIOUS
        <5>2. q \in Nat /\ x = [e EXCEPT !.qty = q]
          BY <3>2, <4>2, <4>3, <5>1
        <5> QED
          BY <3>2, <5>1, <5>2, LessOfRequest
      <4>6. OpenOf(x) = IF e.qty = n THEN NoOrder ELSE x
        BY <3>2, <4>3, <4>5 DEF OpenOf
      <4>7. w.tab = [j \in OrderId |-> OpenOf(v.orders[j])]
        <5>1. k.tab = [j \in OrderId |-> OpenOf(m.orders[j])]
          BY <2>2 DEF Reflects
        <5>2. v.orders[r] = x /\ \A j \in OrderId : j # r => v.orders[j] = m.orders[j]
          BY <2>2, <4>3 DEF Passed
        <5> QED
          BY <2>2, <4>4, <4>6, <5>1, <5>2
      <4>8. w.left = o.qty - v.cnt
        BY <3>2, <3>3, <4>3, <4>4
      <4> QED
        BY <1>1, <2>1, <2>2, <4>7, <4>8 DEF Reflects
    <3> QED
      BY <3>5, <3>6
  <2> QED
    BY <2>3, <2>4
<1>6. \A r \in 0 .. MaxOrders : r \in T
  BY <1>4, <1>5, CountingSet
<1>7. MaxOrders \in T
  BY <1>6
<1> QED
  BY <1>1, <1>7

\* Accepting an order is submitting it to AtomicMarket.
LEMMA AcceptSubmits ==
  ASSUME MarketOK, NEW o \in Requests, Legal(o), AcceptOrder(o)
  PROVE  id' = id + 1 /\ OpenOrders' = Submitted(OpenOrders, id + 1, o)
<1>1. PICK i, ids, m, rest : Accepting(o, i, ids, m, rest)
  BY AcceptFacts
<1>2. PICK open : open = [j \in OrderId |-> OpenOf(orders[j])]
  OBVIOUS
<1>3. open = OpenOrders
  BY <1>2 DEF OpenOrders, OpenOf
<1>4. ids = Candidates(open, o)
  <2>1. ids = {j \in OrderId : /\ orders[j] # NoOrder /\ orders[j].qty > 0
                               /\ orders[j].stock = o.stock /\ orders[j].dir = Opp(o.dir)}
    <3>1. Opp(o.dir) \in Side
      BY DEF Opp, Side
    <3> QED
      BY <1>1, <3>1 DEF Accepting, MarketOK, Resting
  <2>2. ASSUME NEW j \in OrderId
        PROVE  open[j] = IF orders[j] # NoOrder /\ orders[j].qty > 0 THEN orders[j] ELSE NoOrder
    BY <1>2 DEF OpenOf, MarketOK, Request
  <2>3. Candidates(open, o) = {r \in OrderId : /\ open[r] # NoOrder /\ open[r].stock = o.stock
                                               /\ open[r].dir = Opp(o.dir)}
    BY DEF Candidates
  <2> QED
    BY <2>1, <2>2, <2>3
<1>5. PICK k : k = Matched(open, o, ids)
  OBVIOUS
<1>6. Reflects(o, m, k)
  <2>1. PICK H : Passes(i, o, orders, ids, MaxOrders, H) /\ AllPasses(i, o) = H[MaxOrders]
    BY <1>1, AllPassesIs DEF Accepting
  <2>2. PICK K : UpTo(open, o, ids, MaxOrders, K) /\ Matched(open, o, ids) = K[MaxOrders]
    BY MatchedIs
  <2>3. /\ orders \in [OrderId -> Request \cup {NoOrder}] /\ o.qty \in Nat
        /\ ids \in SUBSET OrderId /\ i \in OrderId \ ids /\ m = AllPasses(i, o)
        /\ \A j \in ids : orders[j] \in Request /\ orders[j].qty > 0
    BY <1>1 DEF Accepting, MarketOK, Request
  <2>4. Reflects(o, H[MaxOrders], K[MaxOrders])
    BY <1>2, <2>1, <2>2, <2>3, PassesReflect
  <2> QED
    BY <1>5, <2>1, <2>2, <2>3, <2>4
<1>7. OpenOf(rest) = Residue(o, k.left, ids # {})
  <2>1. /\ rest = [o EXCEPT !.qty = @ - m.cnt, !.price = IF ids # {} THEN Repriced(o) ELSE @]
        /\ rest.qty = o.qty - m.cnt /\ rest # NoOrder /\ o \in Request
    BY <1>1 DEF Accepting, Remainder
  <2>2. k.left = rest.qty
    BY <1>6, <2>1 DEF Reflects
  <2>3. rest = [o EXCEPT !.qty = k.left, !.price = IF ids # {} THEN Repriced(o) ELSE @]
    BY <2>1, <2>2 DEF Request
  <2> QED
    BY <2>1, <2>2, <2>3 DEF OpenOf, Residue
<1>8. OpenOrders' = [j \in OrderId |-> OpenOf(orders'[j])]
  BY DEF OpenOrders, OpenOf
<1>9. [j \in OrderId |-> OpenOf(orders'[j])] = [k.tab EXCEPT ![i] = Residue(o, k.left, ids # {})]
  <2>1. k.tab = [j \in OrderId |-> OpenOf(m.orders[j])]
    BY <1>6 DEF Reflects
  <2>2. i \in OrderId /\ orders'[i] = rest /\ \A j \in OrderId : j # i => orders'[j] = m.orders[j]
    BY <1>1 DEF Accepting
  <2> QED
    BY <1>7, <2>1, <2>2
<1>10. Submitted(open, i, o) = [k.tab EXCEPT ![i] = Residue(o, k.left, ids # {})]
  BY <1>4, <1>5 DEF Submitted
<1>11. id' = i /\ i = id + 1
  BY <1>1 DEF Accepting
<1> QED
  BY <1>3, <1>8, <1>9, <1>10, <1>11

\* Cancelling an order that is not filled is cancelling it in AtomicMarket, which does
\* not know those that are.
LEMMA DropCancels ==
  ASSUME MarketOK, NEW i, DropOrder(i)
  PROVE  /\ id' = id /\ i \in OrderId
         /\ \/ OpenOrders' = OpenOrders
            \/ /\ OpenOrders[i] # NoOrder
               /\ OpenOrders' = [OpenOrders EXCEPT ![i] = NoOrder]
<1>1. PICK open, next : /\ open = [j \in OrderId |-> OpenOf(orders[j])]
                        /\ next = [j \in OrderId |-> OpenOf(orders'[j])]
  OBVIOUS
<1>2. open = OpenOrders /\ next = OpenOrders'
  BY <1>1 DEF OpenOrders, OpenOf
<1>3. /\ i \in OrderId /\ id' = id /\ orders[i] # NoOrder /\ orders'[i] = NoOrder
      /\ \A j \in OrderId : j # i => orders'[j] = orders[j]
  BY DEF DropOrder, MarketOK
<1>4. next = [open EXCEPT ![i] = NoOrder]
  BY <1>1, <1>3 DEF OpenOf
<1>5. open[i] = NoOrder => next = open
  BY <1>1, <1>3, <1>4
<1> QED
  BY <1>2, <1>3, <1>4, <1>5

\* AtomicMarket matches and checks requests as Trades does for this market, with
\* the empty stock among the others.
LEMMA AbstractIsTrades ==
  /\ Abstract!OrderId = OrderId
  /\ \A req \in Request : Abstract!CheckRequest(req) <=> Legal(req)
  /\ \A tab, i, o : Abstract!Submitted(tab, i, o) = Submitted(tab, i, o)
<1>1. Abstract!OrderId = OrderId
  BY DEF Abstract!OrderId, OrderId
<1>2. ASSUME NEW req \in Request
      PROVE  Abstract!CheckRequest(req) <=> Legal(req)
  <2>1. req.stock # NoOrder
    BY DEF Request, AnyStock
  <2> QED
    BY <2>1 DEF Abstract!CheckRequest, Legal, Abstract!Side, Side, Abstract!Kind, Kind
<1>3. ASSUME NEW tab, NEW i, NEW o
      PROVE  Abstract!Submitted(tab, i, o) = Submitted(tab, i, o)
  BY DEF Abstract!Submitted, Submitted, Abstract!Candidates, Candidates, Abstract!Matched, Matched,
       Abstract!Visit, Visit, Abstract!Residue, Residue, Abstract!OrderId, OrderId, Abstract!Opp, Opp,
       Abstract!Least, Least, Abstract!Compatible, Compatible, Abstract!Repriced, Repriced
<1> QED
  BY <1>1, <1>2, <1>3

-----------------------------------------------------------------------------
(* What most steps leave alone *)

\* The market's part of the inductive invariant.
LEMMA MarketOfIInv == IInv => MarketOK
BY DEF IInv, TypeOK, MarketOK, Numbered

\* An object of the server is replaced.
LEMMA ServerAlter ==
  ASSUME srv \in [Calls -> ServerObject], NEW c \in Calls, NEW x \in ServerObject,
         srv' = [srv EXCEPT ![c] = x]
  PROVE  /\ srv' \in [Calls -> ServerObject] /\ srv'[c] = x
         /\ \A d \in Calls : d # c => srv'[d] = srv[d]
OBVIOUS

\* An object of a client is replaced.
LEMMA ClientAlter ==
  ASSUME cli \in [Calls -> ClientObject], NEW c \in Calls, NEW x \in ClientObject,
         cli' = [cli EXCEPT ![c] = x]
  PROVE  /\ cli' \in [Calls -> ClientObject] /\ cli'[c] = x
         /\ \A d \in Calls : d # c => cli'[d] = cli[d]
OBVIOUS

\* Nothing but operations and what is on its way changes, or an order is cancelled.
LEMMA FrameStep ==
  ASSUME IInv, MarketOK', id' = id,
         \A i \in OrderId : orders'[i] = orders[i] \/ orders'[i] = NoOrder,
         responderOf' = responderOf, file' = file,
         srv' \in [Calls -> ServerObject],
         \A c \in Calls : srv'[c].reports = srv[c].reports /\ srv'[c].next = srv[c].next,
         cli' \in [Calls -> ClientObject],
         up' \in [Calls -> Seq(Requests)], down' \in [Calls -> Seq(AnyReport)],
         lost' \subseteq Calls, aborted' \in BOOLEAN,
         \A c \in Calls : Waiting(c)',
         \A c \in Pushes : Sent(c)' = Sent(c) /\ Printing(c)'
  PROVE  IInv'
<1>1. TypeOK'
  BY DEF IInv, TypeOK, MarketOK
<1>2. Pushes \subseteq Calls
  BY DEF Calls
<1>3. \A c \in Pushes, i \in OrderId : Accepted(c, i)' = Accepted(c, i)
  BY <1>2 DEF Accepted
<1>4. ASSUME NEW i \in OrderId PROVE Numbered(i)'
  BY <1>3 DEF IInv, Numbered, MarketOK
<1>5. ASSUME NEW r, Legit(r) PROVE Legit(r)'
  <2>1. r.order \in 1 .. id => r.order \in OrderId
    BY DEF IInv, TypeOK, OrderId
  <2> QED
    BY <1>5, <2>1 DEF Legit
<1>6. Reporting'
  BY <1>2, <1>5 DEF IInv, Reporting
<1>7. ASSUME NEW c \in Pushes PROVE Streaming(c)'
  <2>1. ASSUME NEW r PROVE MeantFor(c, r)' <=> MeantFor(c, r)
    BY <1>2 DEF MeantFor
  <2> QED
    BY <2>1 DEF IInv, Streaming
<1>8. Resting'
  BY DEF MarketOK
<1> QED
  BY <1>1, <1>4, <1>6, <1>7, <1>8 DEF IInv

\* The market does not change.
LEMMA MarketSame ==
  ASSUME IInv, UNCHANGED market
  PROVE  MarketOK' /\ id' = id /\ \A i \in OrderId : orders'[i] = orders[i] \/ orders'[i] = NoOrder
<1>1. id' = id /\ orders' = orders /\ book' = book
  BY DEF market
<1>2. MarketOK
  BY MarketOfIInv
<1> QED
  BY <1>1, <1>2 DEF MarketOK, Resting

-----------------------------------------------------------------------------
(* Steps of the server that report nothing *)

\* A step of the server that changes the operation of call c, and what it takes
\* off the call's stream, if anything.
LEMMA OperationStep ==
  ASSUME IInv, UNCHANGED <<market, responderOf, file, cli, down, lost>>,
         NEW c \in Pushes, NEW x \in ServerObject,
         x.reports = srv[c].reports, x.next = srv[c].next, x.op # "none" \/ x = srv[c],
         srv' = [srv EXCEPT ![c] = x],
         up' \in [Calls -> Seq(Requests)], aborted' \in BOOLEAN
  PROVE  IInv'
<1>1. MarketOK' /\ id' = id /\ \A i \in OrderId : orders'[i] = orders[i] \/ orders'[i] = NoOrder
  BY MarketSame
<1>2. /\ c \in Calls /\ Pushes \subseteq Calls /\ srv \in [Calls -> ServerObject]
      /\ cli \in [Calls -> ClientObject] /\ down \in [Calls -> Seq(AnyReport)] /\ lost \subseteq Calls
  BY DEF IInv, TypeOK, Calls
<1>3. /\ srv' \in [Calls -> ServerObject] /\ srv'[c] = x
      /\ \A d \in Calls : d # c => srv'[d] = srv[d]
  BY <1>2, ServerAlter
<1>4. /\ cli' = cli /\ down' = down /\ responderOf' = responderOf /\ file' = file /\ lost' = lost
  OBVIOUS
<1>5. \A d \in Calls : srv'[d].reports = srv[d].reports /\ srv'[d].next = srv[d].next
  BY <1>3
<1>6. \A d \in Calls : Waiting(d)'
  BY <1>2, <1>3 DEF IInv, Waiting
<1>7. \A d \in Pushes : Sent(d)' = Sent(d) /\ Printing(d)'
  BY <1>4 DEF IInv, Sent, Printing
<1> QED
  BY <1>1, <1>2, <1>3, <1>4, <1>5, <1>6, <1>7, FrameStep

\* A Read takes the first request off a stream.
LEMMA GetFacts ==
  ASSUME IInv, NEW c \in Pushes, NEW req, GetRequest(c, req)
  PROVE  /\ req \in Requests /\ up' \in [Calls -> Seq(Requests)]
         /\ srv[c].op = "read"
         /\ UNCHANGED <<file, cli, down, lost, aborted>>
<1>1. c \in Calls /\ up \in [Calls -> Seq(Requests)]
  BY DEF IInv, TypeOK, Calls
<1>2. PICK s : s = up[c] /\ s \in Seq(Requests) /\ s # <<>>
  BY <1>1 DEF GetRequest
<1>3. Head(s) \in Requests /\ Tail(s) \in Seq(Requests)
  BY <1>2, HeadTailProperties
<1>4. up' = [up EXCEPT ![c] = Tail(s)] /\ req = Head(s)
  BY <1>1, <1>2 DEF GetRequest
<1>5. up' \in [Calls -> Seq(Requests)]
  BY <1>1, <1>3, <1>4
<1> QED
  BY <1>3, <1>4, <1>5 DEF GetRequest

\* A call is accepted.
LEMMA AcceptCallStep ==
  ASSUME IInv, NEW c \in Pushes, AcceptCall(c)
  PROVE  IInv'
<1>1. PICK x : x = Object("read")
  OBVIOUS
<1>2. srv[c].op = "none" /\ srv[c].reports = <<>> /\ srv[c].next = 0
  BY DEF AcceptCall, Called, IInv, Waiting, Calls
<1>3. x \in ServerObject /\ x.reports = <<>> /\ x.next = 0 /\ x.op # "none"
  BY <1>1 DEF Object, ServerObject
<1>4. srv' = [srv EXCEPT ![c] = x] /\ up' \in [Calls -> Seq(Requests)] /\ aborted' \in BOOLEAN
  BY <1>1 DEF AcceptCall, wire, IInv, TypeOK
<1>5. UNCHANGED <<market, responderOf, file, cli, down, lost>>
  BY DEF AcceptCall, wire
<1> QED
  BY <1>2, <1>3, <1>4, <1>5, OperationStep

\* A request of no client is read over.
LEMMA SkipRequestStep ==
  ASSUME IInv, NEW c \in Pushes, SkipRequest(c)
  PROVE  IInv'
<1>1. PICK req : GetRequest(c, req) /\ UNCHANGED <<market, responderOf, srv>>
  BY DEF SkipRequest
<1>2. PICK x : x = srv[c]
  OBVIOUS
<1>3. /\ x \in ServerObject /\ srv \in [Calls -> ServerObject] /\ c \in Calls /\ aborted \in BOOLEAN
  BY <1>2 DEF IInv, TypeOK, Calls
<1>4. srv' = [srv EXCEPT ![c] = x]
  BY <1>1, <1>2, <1>3
<1>5. up' \in [Calls -> Seq(Requests)] /\ aborted' \in BOOLEAN
  BY <1>1, <1>3, GetFacts
<1>6. UNCHANGED <<market, responderOf, file, cli, down, lost>>
  BY <1>1, GetFacts
<1> QED
  BY <1>2, <1>3, <1>4, <1>5, <1>6, OperationStep

\* gRPC aborts.
LEMMA OverlapStep ==
  ASSUME IInv, NEW c \in Pushes, Overlap(c)
  PROVE  IInv'
<1>1. PICK x : x = srv[c]
  OBVIOUS
<1>2. x \in ServerObject /\ srv \in [Calls -> ServerObject] /\ c \in Calls
  BY <1>1 DEF IInv, TypeOK, Calls
<1>3. srv' = [srv EXCEPT ![c] = x]
  BY <1>1, <1>2 DEF Overlap
<1>4. up' \in [Calls -> Seq(Requests)] /\ aborted' \in BOOLEAN
  BY DEF Overlap, wire, IInv, TypeOK
<1>5. UNCHANGED <<market, responderOf, file, cli, down, lost>>
  BY DEF Overlap, wire
<1> QED
  BY <1>1, <1>2, <1>3, <1>4, <1>5, OperationStep

\* A call writes nothing more.
LEMMA StopWritingStep ==
  ASSUME IInv, NEW c \in Pushes, StopWriting(c)
  PROVE  IInv'
<1>1. PICK x : x = [srv[c] EXCEPT !.op = "done"]
  OBVIOUS
<1>2. srv[c] \in ServerObject /\ srv \in [Calls -> ServerObject] /\ c \in Calls
  BY DEF IInv, TypeOK, Calls
<1>3. x \in ServerObject /\ x.reports = srv[c].reports /\ x.next = srv[c].next /\ x.op # "none"
  BY <1>1, <1>2 DEF ServerObject
<1>4. srv' = [srv EXCEPT ![c] = x]
  BY <1>1, <1>2 DEF StopWriting
<1>5. up' \in [Calls -> Seq(Requests)] /\ aborted' \in BOOLEAN
  BY DEF StopWriting, wire, IInv, TypeOK
<1>6. UNCHANGED <<market, responderOf, file, cli, down, lost>>
  BY DEF StopWriting, wire
<1> QED
  BY <1>3, <1>4, <1>5, <1>6, OperationStep

-----------------------------------------------------------------------------
(* Cancelling *)

\* The report of a cancellation goes to its call, which is not one that prints orders.
LEMMA AnswerStep ==
  ASSUME IInv, MarketOK', id' = id,
         \A i \in OrderId : orders'[i] = orders[i] \/ orders'[i] = NoOrder,
         NEW c \in Cancels, NEW r \in AnyReport, Called(c), Answer(c, r)
  PROVE  IInv'
<1>1. /\ c \in Calls /\ c \notin Pushes /\ Pushes \subseteq Calls
      /\ srv \in [Calls -> ServerObject] /\ cli \in [Calls -> ClientObject]
      /\ down \in [Calls -> Seq(AnyReport)] /\ up \in [Calls -> Seq(Requests)]
      /\ lost \subseteq Calls /\ aborted \in BOOLEAN
      /\ srv[c].reports = <<>> /\ srv[c].next = 0
  BY DEF IInv, TypeOK, Calls, Called, Waiting
<1>2. PICK x : x = Object("done")
  OBVIOUS
<1>3. x \in ServerObject /\ x.reports = <<>> /\ x.next = 0 /\ x.op = "done"
  BY <1>2 DEF Object, ServerObject
<1>4. /\ srv' \in [Calls -> ServerObject] /\ srv'[c] = x
      /\ \A d \in Calls : d # c => srv'[d] = srv[d]
  <2>1. srv' = [srv EXCEPT ![c] = x]
    BY <1>2 DEF Answer
  <2> QED
    BY <1>1, <1>3, <2>1, ServerAlter
<1>5. /\ down' \in [Calls -> Seq(AnyReport)] /\ \A d \in Calls : d # c => down'[d] = down[d]
  BY <1>1 DEF Answer
<1>6. /\ responderOf' = responderOf /\ file' = file /\ cli' = cli /\ up' = up
      /\ lost' = lost /\ aborted' = aborted
  BY DEF Answer
<1>7. \A d \in Calls : srv'[d].reports = srv[d].reports /\ srv'[d].next = srv[d].next
  BY <1>1, <1>3, <1>4
<1>8. \A d \in Calls : Waiting(d)'
  BY <1>3, <1>4 DEF IInv, Waiting
<1>9. ASSUME NEW d \in Pushes
      PROVE  Sent(d)' = Sent(d) /\ Printing(d)'
  <2>1. d \in Calls /\ d # c
    BY <1>1
  <2> QED
    BY <1>5, <1>6, <2>1 DEF IInv, Sent, Printing
<1> QED
  BY <1>1, <1>4, <1>5, <1>6, <1>7, <1>8, <1>9, FrameStep

\* An order is cancelled, filled or not.
LEMMA CancelOrderStep ==
  ASSUME IInv, NEW c \in Cancels, CancelOrder(c)
  PROVE  IInv'
<1>1. PICK i : i = cli[c].order /\ DropOrder(i)
  BY DEF CancelOrder
<1>2. PICK r : r = Report("CANCELED", i, orders[i].qty, 0, 0)
  OBVIOUS
<1>3. MarketOK /\ MarketOK'
  BY <1>1, MarketOfIInv, DropMarket
<1>4. id' = id /\ \A j \in OrderId : orders'[j] = orders[j] \/ orders'[j] = NoOrder
  BY <1>1, <1>3 DEF DropOrder, MarketOK
<1>5. r \in AnyReport
  <2>1. i \in Nat /\ orders[i].qty \in Nat
    <3>1. i \in OrderId /\ orders[i] \in Request
      BY <1>1, <1>3 DEF DropOrder, MarketOK
    <3> QED
      BY <3>1 DEF Request, OrderId
  <2> QED
    BY <1>2, <2>1 DEF Report, AnyReport
<1>6. Called(c) /\ Answer(c, r)
  BY <1>1, <1>2 DEF CancelOrder
<1> QED
  BY <1>3, <1>4, <1>5, <1>6, AnswerStep

\* There is no such order.
LEMMA CancelNothingStep ==
  ASSUME IInv, NEW c \in Cancels, CancelNothing(c)
  PROVE  IInv'
<1>1. PICK r : r = Report("CANCEL_REJECT", cli[c].order, 0, 0, 0)
  OBVIOUS
<1>2. UNCHANGED market /\ Called(c) /\ Answer(c, r)
  BY <1>1 DEF CancelNothing
<1>3. MarketOK' /\ id' = id /\ \A i \in OrderId : orders'[i] = orders[i] \/ orders'[i] = NoOrder
  BY <1>2, MarketSame
<1>4. cli[c].order \in Nat
  <2>1. cli[c] \in ClientObject
    BY DEF IInv, TypeOK, Calls
  <2>2. cli[c].order \in Targets \cup {0}
    BY <2>1 DEF ClientObject
  <2>3. Targets \subseteq Nat /\ 0 \in Nat
    OBVIOUS
  <2> QED
    BY <2>2, <2>3, Zenon
<1>5. r \in AnyReport
  BY <1>1, <1>4 DEF Report, AnyReport
<1> QED
  BY <1>2, <1>3, <1>5, AnswerStep

-----------------------------------------------------------------------------
(* Steps of the clients *)

\* A step of a client: its object becomes x, and what has been sent to it and not
\* lost is the same.
LEMMA ClientStep ==
  ASSUME IInv, UNCHANGED <<market, responderOf, file, srv, aborted>>, lost' \subseteq Calls,
         NEW c \in Calls, NEW x \in ClientObject, cli' = [cli EXCEPT ![c] = x],
         up' \in [Calls -> Seq(Requests)], down' \in [Calls -> Seq(AnyReport)],
         \A d \in Calls : d # c => down'[d] = down[d],
         c \in Pushes =>
           /\ News(x.printed) \o down'[c] = News(cli[c].printed) \o down[c]
           /\ x.printed # <<>> => Head(x.printed) = BlankReport
           /\ x.op = "read" => x.printed # <<>>
           /\ x.op \in {"none", "start", "write", "writesDone"} => x.printed = <<>>
  PROVE  IInv'
<1>1. MarketOK' /\ id' = id /\ \A i \in OrderId : orders'[i] = orders[i] \/ orders'[i] = NoOrder
  BY MarketSame
<1>2. /\ Pushes \subseteq Calls /\ srv \in [Calls -> ServerObject] /\ cli \in [Calls -> ClientObject]
      /\ aborted \in BOOLEAN
  BY DEF IInv, TypeOK, Calls
<1>3. /\ cli' \in [Calls -> ClientObject] /\ cli'[c] = x
      /\ \A d \in Calls : d # c => cli'[d] = cli[d]
  BY <1>2, ClientAlter
<1>4. srv' = srv /\ responderOf' = responderOf /\ file' = file /\ aborted' = aborted
  OBVIOUS
<1>5. \A d \in Calls : Waiting(d)'
  BY <1>4 DEF IInv, Waiting
<1>6. ASSUME NEW d \in Pushes
      PROVE  Sent(d)' = Sent(d) /\ Printing(d)'
  <2>1. CASE d = c
    BY <1>3, <2>1 DEF Sent, Printing
  <2>2. CASE d # c
    BY <1>2, <1>3, <2>2 DEF IInv, Sent, Printing
  <2> QED
    BY <2>1, <2>2
<1> QED
  BY <1>1, <1>2, <1>3, <1>4, <1>5, <1>6, FrameStep

\* A client's next operation is pending.
LEMMA PostsStep ==
  ASSUME IInv, NEW c \in Calls, NEW o, UNCHANGED wire, ClientOnly, Posts(c, o),
         o \in {"none", "start", "write", "writesDone", "read", "finish", "done"},
         c \in Pushes => \/ o \in {"start", "write", "writesDone"} /\ cli[c].printed = <<>>
                         \/ o = "done"
  PROVE  IInv'
<1>1. PICK x : x = [cli[c] EXCEPT !.op = o]
  OBVIOUS
<1>2. cli[c] \in ClientObject /\ cli \in [Calls -> ClientObject]
  BY DEF IInv, TypeOK
<1>3. x \in ClientObject /\ x.printed = cli[c].printed /\ x.op = o
  BY <1>1, <1>2 DEF ClientObject
<1>4. cli' = [cli EXCEPT ![c] = x]
  BY <1>1, <1>2 DEF Posts
<1>5. UNCHANGED <<market, responderOf, file, srv, aborted, lost, up, down>>
  BY DEF ClientOnly, wire
<1>6. /\ up' \in [Calls -> Seq(Requests)] /\ down' \in [Calls -> Seq(AnyReport)] /\ lost' \subseteq Calls
      /\ \A d \in Calls : down'[d] = down[d]
  BY <1>5 DEF IInv, TypeOK
<1>7. c \in Pushes =>
        /\ News(x.printed) \o down'[c] = News(cli[c].printed) \o down[c]
        /\ x.printed # <<>> => Head(x.printed) = BlankReport
        /\ x.op = "read" => x.printed # <<>>
        /\ x.op \in {"none", "start", "write", "writesDone"} => x.printed = <<>>
  BY <1>3, <1>6 DEF IInv, Printing
<1> QED
  BY <1>3, <1>4, <1>5, <1>6, <1>7, ClientStep

\* The call is started, its last request is written, or nothing more is done.
LEMMA PostingSteps ==
  ASSUME IInv, NEW c \in Pushes, PushNewOrder(c) \/ WritesDone(c) \/ EndReports(c)
  PROVE  IInv'
<1>1. c \in Calls /\ Printing(c)
  BY DEF IInv, Calls
<1>2. CASE PushNewOrder(c)
  <2>1. cli[c].printed = <<>>
    BY <1>1, <1>2 DEF PushNewOrder, Printing
  <2> QED
    BY <1>1, <1>2, <2>1, PostsStep DEF PushNewOrder
<1>3. CASE WritesDone(c)
  <2>1. cli[c].printed = <<>>
    BY <1>1, <1>3 DEF WritesDone, Wrote, Printing
  <2> QED
    BY <1>1, <1>3, <2>1, PostsStep DEF WritesDone
<1>4. CASE EndReports(c)
  BY <1>1, <1>4, PostsStep DEF EndReports
<1> QED
  BY <1>2, <1>3, <1>4

\* The client writes its next request.
LEMMA WriteRequestStep ==
  ASSUME IInv, NEW c \in Pushes, WriteRequest(c)
  PROVE  IInv'
<1>1. /\ c \in Calls /\ cli[c] \in ClientObject /\ cli \in [Calls -> ClientObject]
      /\ up \in [Calls -> Seq(Requests)] /\ down \in [Calls -> Seq(AnyReport)]
      /\ lost \subseteq Calls /\ file[c] \in Seq(Requests)
  BY DEF IInv, TypeOK, Calls
<1>2. PICK n : n = cli[c].counter
  OBVIOUS
<1>3. n \in Nat /\ n < Len(file[c]) /\ cli[c].printed = <<>>
  <2>1. cli[c].op \in {"start", "write"}
    BY DEF WriteRequest, Wrote
  <2> QED
    BY <1>1, <1>2, <2>1 DEF WriteRequest, ClientObject, IInv, Printing
<1>4. PICK x : x = [cli[c] EXCEPT !.op = "write", !.counter = n + 1]
  OBVIOUS
<1>5. x \in ClientObject /\ x.printed = <<>> /\ x.op = "write"
  <2>1. n + 1 \in Nat
    BY <1>3
  <2> QED
    BY <1>1, <1>3, <1>4, <2>1 DEF ClientObject
<1>6. cli' = [cli EXCEPT ![c] = x]
  BY <1>1, <1>2, <1>4 DEF WriteRequest
<1>7. up' \in [Calls -> Seq(Requests)]
  <2>1. PICK req : req = file[c][n + 1] /\ req \in Requests
    <3>1. n + 1 \in 1 .. Len(file[c])
      BY <1>1, <1>3, LenProperties
    <3> QED
      BY <1>1, <3>1, ElementOfSeq
  <2>2. up[c] \in Seq(Requests)
    BY <1>1
  <2>3. Append(up[c], req) \in Seq(Requests)
    BY <2>1, <2>2, AppendProperties
  <2>4. up' = up \/ up' = [up EXCEPT ![c] = Append(up[c], req)]
    BY <1>1, <1>2, <2>1 DEF WriteRequest
  <2> QED
    BY <1>1, <2>3, <2>4
<1>8. UNCHANGED <<market, responderOf, file, srv, aborted, lost, down>>
  BY DEF WriteRequest, ClientOnly
<1>9. /\ down' \in [Calls -> Seq(AnyReport)] /\ lost' \subseteq Calls
      /\ \A d \in Calls : down'[d] = down[d]
  BY <1>1, <1>8
<1> QED
  BY <1>1, <1>3, <1>5, <1>6, <1>7, <1>8, <1>9, ClientStep

\* The client prints the blank report.
LEMMA PrintBlankStep ==
  ASSUME IInv, NEW c \in Pushes, PrintBlank(c)
  PROVE  IInv'
<1>1. /\ c \in Calls /\ cli[c] \in ClientObject /\ cli \in [Calls -> ClientObject]
      /\ cli[c].printed = <<>>
  BY DEF IInv, TypeOK, Calls, PrintBlank, Printing
<1>2. PICK p : p = <<BlankReport>>
  OBVIOUS
<1>3. /\ p \in Seq(AnyReport) /\ p # <<>> /\ Head(p) = BlankReport /\ Tail(p) = <<>>
  BY <1>2 DEF BlankReport, Report, AnyReport
<1>4. PICK x : x = [cli[c] EXCEPT !.op = "read", !.printed = p]
  OBVIOUS
<1>5. x \in ClientObject /\ x.printed = p /\ x.op = "read"
  BY <1>1, <1>3, <1>4 DEF ClientObject
<1>6. cli' = [cli EXCEPT ![c] = x]
  BY <1>1, <1>2, <1>4 DEF PrintBlank
<1>7. UNCHANGED <<market, responderOf, file, srv, aborted, lost, up, down>>
  BY DEF PrintBlank, ClientOnly, wire
<1>8. /\ up' \in [Calls -> Seq(Requests)] /\ down' \in [Calls -> Seq(AnyReport)] /\ lost' \subseteq Calls
      /\ \A d \in Calls : down'[d] = down[d]
  BY <1>7 DEF IInv, TypeOK
<1>9. News(x.printed) \o down'[c] = News(cli[c].printed) \o down[c]
  BY <1>1, <1>3, <1>5, <1>8 DEF News
<1> QED
  BY <1>1, <1>3, <1>5, <1>6, <1>7, <1>8, <1>9, ClientStep

\* What is printed is taken off what is on its way.
LEMMA HeadPrinted ==
  ASSUME NEW S, NEW p \in Seq(S), p # <<>>, NEW d \in Seq(S), d # <<>>
  PROVE  /\ Append(p, Head(d)) \in Seq(S) /\ Append(p, Head(d)) # <<>>
         /\ Head(Append(p, Head(d))) = Head(p)
         /\ Tail(Append(p, Head(d))) \o Tail(d) = Tail(p) \o d
<1>1. PICK h, t, q : h = Head(d) /\ t = Tail(d) /\ q = Append(p, h)
  OBVIOUS
<1>2. /\ h \in S /\ t \in Seq(S) /\ Len(t) = Len(d) - 1 /\ Len(d) \in Nat /\ Len(d) > 0
      /\ h = d[1] /\ \A k \in 1 .. Len(t) : t[k] = d[k + 1]
  BY <1>1, HeadTailProperties, LenProperties, EmptySeq
<1>3. /\ q \in Seq(S) /\ q # <<>> /\ Len(q) = Len(p) + 1 /\ Len(p) \in Nat /\ Len(p) > 0
      /\ q[Len(p) + 1] = h /\ \A k \in 1 .. Len(p) : q[k] = p[k]
  BY <1>1, <1>2, AppendProperties, LenProperties, EmptySeq
<1>4. Head(q) = Head(p)
  BY <1>3
<1>5. PICK tq, tp : tq = Tail(q) /\ tp = Tail(p)
  OBVIOUS
<1>6. /\ tq \in Seq(S) /\ Len(tq) = Len(p) /\ \A k \in 1 .. Len(p) : tq[k] = q[k + 1]
      /\ tp \in Seq(S) /\ Len(tp) = Len(p) - 1 /\ \A k \in 1 .. Len(p) - 1 : tp[k] = p[k + 1]
  BY <1>3, <1>5, HeadTailProperties
<1>7. PICK a, b : a = tq \o t /\ b = tp \o d
  OBVIOUS
<1>8. /\ a \in Seq(S) /\ Len(a) = Len(p) + Len(d) - 1
      /\ \A k \in 1 .. Len(a) : a[k] = IF k <= Len(p) THEN tq[k] ELSE t[k - Len(p)]
  BY <1>2, <1>3, <1>6, <1>7, ConcatProperties
<1>9. /\ b \in Seq(S) /\ Len(b) = Len(p) + Len(d) - 1
      /\ \A k \in 1 .. Len(b) : b[k] = IF k <= Len(p) - 1 THEN tp[k] ELSE d[k - (Len(p) - 1)]
  <2>1. /\ b \in Seq(S) /\ Len(b) = Len(tp) + Len(d)
        /\ \A k \in 1 .. Len(tp) + Len(d) : b[k] = IF k <= Len(tp) THEN tp[k] ELSE d[k - Len(tp)]
    <3>1. tp \in Seq(S) /\ d \in Seq(S) /\ b = tp \o d
      BY <1>6, <1>7
    <3> QED
      BY ONLY <3>1, ConcatProperties
  <2>2. Len(tp) = Len(p) - 1 /\ Len(tp) + Len(d) = Len(p) + Len(d) - 1
    BY <1>2, <1>3, <1>6
  <2> QED
    BY <2>1, <2>2
<1>10. ASSUME NEW k \in 1 .. Len(a)
       PROVE  a[k] = b[k]
  <2>1. CASE k <= Len(p) - 1
    <3>1. a[k] = tq[k] /\ b[k] = tp[k]
      BY <1>3, <1>8, <1>9, <2>1
    <3>2. tq[k] = q[k + 1] /\ q[k + 1] = p[k + 1] /\ tp[k] = p[k + 1]
      BY <1>3, <1>6, <2>1
    <3> QED
      BY <3>1, <3>2
  <2>2. CASE k = Len(p)
    <3>1. a[k] = tq[k] /\ b[k] = d[k - (Len(p) - 1)]
      BY <1>3, <1>8, <1>9, <2>2
    <3>2. k - (Len(p) - 1) = 1 /\ tq[k] = q[k + 1] /\ q[k + 1] = h
      BY <1>3, <1>6, <2>2
    <3> QED
      BY <1>2, <3>1, <3>2
  <2>3. CASE k > Len(p)
    <3>1. PICK j : j = k - Len(p)
      OBVIOUS
    <3>2. a[k] = t[j] /\ j \in 1 .. Len(t)
      BY <1>2, <1>3, <1>8, <2>3, <3>1
    <3>3. k - (Len(p) - 1) = j + 1 /\ b[k] = d[k - (Len(p) - 1)]
      BY <1>3, <1>8, <1>9, <2>3, <3>1
    <3> QED
      BY <1>2, <3>2, <3>3
  <2> QED
    BY <1>3, <2>1, <2>2, <2>3
<1>11. a = b
  BY <1>8, <1>9, <1>10, SeqEqual
<1> QED
  BY <1>1, <1>3, <1>4, <1>5, <1>7, <1>11

\* The client prints a report.
LEMMA PrintReportStep ==
  ASSUME IInv, NEW c \in Pushes, PrintReport(c)
  PROVE  IInv'
<1>1. /\ c \in Calls /\ cli[c] \in ClientObject /\ cli \in [Calls -> ClientObject]
      /\ down \in [Calls -> Seq(AnyReport)] /\ cli[c].op = "read" /\ Printing(c)
  BY DEF IInv, TypeOK, Calls, PrintReport
<1>2. PICK p, d : p = cli[c].printed /\ d = down[c]
  OBVIOUS
<1>3. p \in Seq(AnyReport) /\ p # <<>> /\ Head(p) = BlankReport /\ d \in Seq(AnyReport) /\ d # <<>>
  BY <1>1, <1>2 DEF ClientObject, Printing, PrintReport
<1>4. PICK q, t : q = Append(p, Head(d)) /\ t = Tail(d)
  OBVIOUS
<1>5. /\ q \in Seq(AnyReport) /\ q # <<>> /\ Head(q) = BlankReport /\ Tail(q) \o t = Tail(p) \o d
  BY <1>3, <1>4, HeadPrinted
<1>6. t \in Seq(AnyReport)
  BY <1>3, <1>4, HeadTailProperties
<1>7. PICK x : x = [cli[c] EXCEPT !.printed = q]
  OBVIOUS
<1>8. x \in ClientObject /\ x.printed = q /\ x.op = "read"
  BY <1>1, <1>5, <1>7 DEF ClientObject
<1>9. cli' = [cli EXCEPT ![c] = x]
  BY <1>1, <1>2, <1>4, <1>7 DEF PrintReport
<1>10. /\ down' = [down EXCEPT ![c] = t]
       /\ UNCHANGED <<market, responderOf, file, srv, aborted, lost, up>>
  BY <1>1, <1>2, <1>4 DEF PrintReport, ClientOnly
<1>11. /\ up' \in [Calls -> Seq(Requests)] /\ down' \in [Calls -> Seq(AnyReport)] /\ lost' \subseteq Calls
       /\ down'[c] = t /\ \A e \in Calls : e # c => down'[e] = down[e]
  BY <1>1, <1>6, <1>10 DEF IInv, TypeOK
<1>12. News(x.printed) \o down'[c] = News(cli[c].printed) \o down[c]
  BY <1>2, <1>3, <1>5, <1>8, <1>11 DEF News
<1> QED
  BY <1>1, <1>5, <1>8, <1>9, <1>10, <1>11, <1>12, ClientStep

\* The client of a cancellation: its constructor, and its end.
LEMMA CancelClientSteps ==
  ASSUME IInv, NEW c \in Cancels,
         \/ \E i \in Targets : PushCancelOrder(c, i)
         \/ EndConstructor(c)
         \/ PrintCancel(c)
  PROVE  IInv'
<1>1. /\ c \in Calls /\ c \notin Pushes /\ cli[c] \in ClientObject /\ cli \in [Calls -> ClientObject]
      /\ down \in [Calls -> Seq(AnyReport)]
  BY DEF IInv, TypeOK, Calls
<1>2. /\ UNCHANGED <<market, responderOf, file, srv, aborted, lost, up, down>>
  BY DEF PushCancelOrder, EndConstructor, PrintCancel, ClientOnly, wire
<1>3. /\ up' \in [Calls -> Seq(Requests)] /\ down' \in [Calls -> Seq(AnyReport)] /\ lost' \subseteq Calls
      /\ \A d \in Calls : down'[d] = down[d]
  BY <1>2 DEF IInv, TypeOK
<1>4. PICK x : x \in ClientObject /\ cli' = [cli EXCEPT ![c] = x]
  <2>1. CASE \E i \in Targets : PushCancelOrder(c, i)
    <3>1. PICK i \in Targets : PushCancelOrder(c, i)
      BY <2>1
    <3>2. PICK x : x = [cli[c] EXCEPT !.op = "finish", !.order = i, !.ctor = "running"]
      OBVIOUS
    <3>3. x \in ClientObject
      BY <1>1, <3>2 DEF ClientObject
    <3>4. cli' = [cli EXCEPT ![c] = x]
      BY <1>1, <3>1, <3>2 DEF PushCancelOrder
    <3> QED
      BY <3>3, <3>4
  <2>2. CASE EndConstructor(c)
    <3>1. PICK s : s = IF cli[c].op = "done" THEN "use_after_free" ELSE "over"
      OBVIOUS
    <3>2. PICK x : x = [cli[c] EXCEPT !.ctor = s]
      OBVIOUS
    <3>3. x \in ClientObject
      BY <1>1, <3>1, <3>2 DEF ClientObject
    <3>4. cli' = [cli EXCEPT ![c] = x]
      BY <1>1, <2>2, <3>1, <3>2 DEF EndConstructor
    <3> QED
      BY <3>3, <3>4
  <2>3. CASE PrintCancel(c)
    <3>1. PICK p : /\ p \in {down[c], cli[c].printed}
                   /\ cli' = [cli EXCEPT ![c].op = "done", ![c].printed = p]
      <4>1. CASE down[c] # <<>> /\ cli' = [cli EXCEPT ![c].op = "done", ![c].printed = down[c]]
        BY <4>1
      <4>2. CASE Posts(c, "done")
        BY <1>1, <4>2 DEF Posts, ClientObject
      <4> QED
        BY <2>3, <4>1, <4>2 DEF PrintCancel
    <3>2. PICK x : x = [cli[c] EXCEPT !.op = "done", !.printed = p]
      OBVIOUS
    <3>3. p \in Seq(AnyReport)
      BY <1>1, <3>1 DEF ClientObject
    <3>4. x \in ClientObject
      BY <1>1, <3>2, <3>3 DEF ClientObject
    <3>5. cli' = [cli EXCEPT ![c] = x]
      BY <1>1, <3>1, <3>2
    <3> QED
      BY <3>4, <3>5
  <2> QED
    BY <2>1, <2>2, <2>3
<1> QED
  BY <1>1, <1>2, <1>3, <1>4, ClientStep

\* A connection is lost.
LEMMA LoseStep ==
  ASSUME IInv, NEW c \in Calls, Lose(c)
  PROVE  IInv'
<1>1. PICK x : x = cli[c]
  OBVIOUS
<1>2. /\ cli \in [Calls -> ClientObject] /\ down \in [Calls -> Seq(AnyReport)]
      /\ up \in [Calls -> Seq(Requests)] /\ lost \subseteq Calls /\ x \in ClientObject
  BY <1>1 DEF IInv, TypeOK
<1>3. /\ UNCHANGED <<market, responderOf, file, srv, aborted, up, down, cli>>
      /\ lost' = lost \cup {c}
  BY DEF Lose, wire
<1>4. /\ up' \in [Calls -> Seq(Requests)] /\ down' \in [Calls -> Seq(AnyReport)] /\ lost' \subseteq Calls
      /\ down' = down /\ cli' = [cli EXCEPT ![c] = x]
  BY <1>1, <1>2, <1>3
<1>5. c \in Pushes =>
        /\ x.printed # <<>> => Head(x.printed) = BlankReport
        /\ x.op = "read" => x.printed # <<>>
        /\ x.op \in {"none", "start", "write", "writesDone"} => x.printed = <<>>
  BY <1>1 DEF IInv, Printing
<1> QED
  BY <1>1, <1>2, <1>3, <1>4, <1>5, ClientStep

-----------------------------------------------------------------------------
(* Steps of the server that report *)

\* Call c has made the reports ms.  Each belongs to an order there is, and comes in
\* turn with the others; and orders that are new are accepted among them.
LEMMA GrowStep ==
  ASSUME IInv, MarketOK', id <= id', NEW c \in Pushes, NEW ms \in Seq(AnyReport),
         NEW x \in ServerObject, x.reports = srv[c].reports \o ms, x.next = srv[c].next,
         x.op # "none", srv' = [srv EXCEPT ![c] = x],
         UNCHANGED <<file, cli, down, lost, aborted>>, up' \in [Calls -> Seq(Requests)],
         responderOf' \in [OrderId -> Pushes \cup {NoCall}],
         \A i \in OrderId :
           /\ i <= id => responderOf'[i] = responderOf[i]
           /\ i > id' => responderOf'[i] = NoCall
           /\ i > id /\ i <= id' =>
                /\ responderOf'[i] = c
                /\ \E k \in 1 .. Len(ms) : ms[k].stat = "ORDER_ACCEPT" /\ ms[k].order = i,
         \A r \in AnyReport : Legit(r) => Legit(r)',
         \A k \in 1 .. Len(ms) : Legit(ms[k])',
         \A j, k \in 1 .. Len(ms) : j # k => InTurn(ms[j], ms[k]),
         \A r \in AnyReport, k \in 1 .. Len(ms) : Legit(r) => InTurn(r, ms[k])
  PROVE  IInv'
<1>1. /\ c \in Calls /\ Pushes \subseteq Calls /\ srv \in [Calls -> ServerObject]
      /\ cli \in [Calls -> ClientObject] /\ down \in [Calls -> Seq(AnyReport)] /\ lost \subseteq Calls
      /\ aborted \in BOOLEAN /\ file \in Starts /\ id \in Nat
      /\ \A d \in Calls : srv[d].next <= Len(srv[d].reports)
  BY DEF IInv, TypeOK, Calls
<1>2. /\ srv' \in [Calls -> ServerObject] /\ srv'[c] = x
      /\ \A d \in Calls : d # c => srv'[d] = srv[d]
  BY <1>1, ServerAlter
<1>3. PICK old, len, new : old = srv[c].reports /\ len = Len(old) /\ new = Len(ms)
  OBVIOUS
<1>4. /\ len \in Nat /\ new \in Nat /\ x.reports = old \o ms
      /\ x.reports \in Seq(AnyReport) /\ Len(x.reports) = len + new
      /\ DOMAIN x.reports = 1 .. len + new /\ DOMAIN old = 1 .. len
      /\ \A k \in 1 .. len : x.reports[k] = old[k]
      /\ \A k \in 1 .. new : x.reports[len + k] = ms[k]
  <2>1. old \in Seq(AnyReport)
    BY <1>1, <1>3 DEF ServerObject
  <2>2. len \in Nat /\ new \in Nat /\ DOMAIN old = 1 .. len
    BY <1>3, <2>1, LenProperties
  <2>3. /\ x.reports \in Seq(AnyReport) /\ Len(x.reports) = len + new
        /\ \A k \in 1 .. len + new : x.reports[k] = IF k <= len THEN old[k] ELSE ms[k - len]
    BY <1>3, <2>1, ConcatProperties
  <2>4. DOMAIN x.reports = 1 .. len + new
    BY <2>3, LenProperties
  <2>5. ASSUME NEW k \in 1 .. new PROVE x.reports[len + k] = ms[k]
    <3>1. len + k \in 1 .. len + new /\ ~(len + k <= len) /\ (len + k) - len = k
      BY <2>2
    <3> QED
      BY <2>3, <3>1
  <2>6. x.reports = old \o ms
    BY <1>3
  <2> QED
    BY <2>2, <2>3, <2>4, <2>5, <2>6
<1>5. ASSUME NEW d \in Pushes, NEW j \in DOMAIN srv[d].reports
      PROVE  /\ j \in DOMAIN srv'[d].reports /\ srv'[d].reports[j] = srv[d].reports[j]
             /\ srv[d].reports[j] \in AnyReport /\ Legit(srv[d].reports[j])
  <2>1. d \in Calls /\ srv[d].reports \in Seq(AnyReport)
    BY <1>1 DEF ServerObject
  <2>2. srv[d].reports[j] \in AnyReport
    BY <2>1, LenProperties, ElementOfSeq
  <2>3. Legit(srv[d].reports[j])
    BY DEF IInv, Reporting
  <2>4. CASE d = c
    <3>1. srv[d].reports = old /\ srv'[d].reports = x.reports
      BY <1>2, <1>3, <2>4
    <3>2. j \in 1 .. len
      BY <1>4, <3>1
    <3>3. j \in 1 .. len + new
      BY <1>4, <3>2
    <3>4. j \in DOMAIN srv'[d].reports /\ srv'[d].reports[j] = old[j]
      BY <1>4, <3>1, <3>2, <3>3
    <3> QED
      BY <2>2, <2>3, <3>1, <3>4
  <2>5. CASE d # c
    BY <1>2, <2>1, <2>2, <2>3, <2>5
  <2> QED
    BY <2>4, <2>5
<1>6. ASSUME NEW d \in Pushes, NEW j \in DOMAIN srv'[d].reports
      PROVE  \/ j \in DOMAIN srv[d].reports
             \/ d = c /\ \E k \in 1 .. new : j = len + k /\ srv'[d].reports[j] = ms[k]
  <2>1. CASE d = c
    <3>1. j \in 1 .. len + new
      BY <1>2, <1>4, <2>1
    <3>2. CASE j <= len
      BY <1>3, <1>4, <2>1, <3>1, <3>2
    <3>3. CASE j > len
      <4>1. PICK k : k = j - len
        OBVIOUS
      <4>2. k \in 1 .. new /\ j = len + k
        BY <1>4, <3>1, <3>3, <4>1
      <4>3. x.reports[j] = ms[k]
        BY <1>4, <4>2
      <4>4. srv'[d].reports = x.reports
        BY <1>2, <2>1
      <4>5. srv'[d].reports[j] = ms[k]
        BY <4>3, <4>4
      <4> QED
        BY <2>1, <4>2, <4>5
    <3> QED
      BY <1>4, <3>1, <3>2, <3>3
  <2>2. CASE d # c
    BY <1>1, <1>2, <2>2
  <2> QED
    BY <2>1, <2>2
<1>7. TypeOK'
  <2>1. \A d \in Calls : srv'[d].next <= Len(srv'[d].reports)
    <3>1. x.next <= Len(x.reports)
      BY <1>1, <1>3, <1>4 DEF ServerObject
    <3> QED
      BY <1>1, <1>2, <3>1
  <2> QED
    BY <1>1, <1>2, <2>1 DEF TypeOK, MarketOK
<1>8. ASSUME NEW d \in Pushes, NEW i \in OrderId, Accepted(d, i) # {}
      PROVE  Accepted(d, i)' # {}
  <2>1. PICK j \in DOMAIN srv[d].reports :
          srv[d].reports[j].stat = "ORDER_ACCEPT" /\ srv[d].reports[j].order = i
    BY <1>8 DEF Accepted, ToSet
  <2>2. j \in DOMAIN srv'[d].reports /\ srv'[d].reports[j] = srv[d].reports[j]
    BY <1>5
  <2> QED
    BY <2>1, <2>2 DEF Accepted, ToSet
<1>9. ASSUME NEW i \in OrderId PROVE Numbered(i)'
  <2>1. orders'[i] # NoOrder => i <= id' /\ orders'[i].dir \in Side
    BY DEF MarketOK
  <2>2. CASE i > id'
    BY <2>1, <2>2 DEF Numbered
  <2>3. CASE i <= id
    <3>0. i \in Nat /\ id' \in Nat
      BY DEF OrderId, MarketOK
    <3>1. responderOf'[i] = responderOf[i] /\ responderOf[i] \in Pushes /\ Accepted(responderOf[i], i) # {}
          /\ ~(i > id')
      <4>1. ~(i > id) /\ ~(i > id')
        BY <1>1, <2>3, <3>0
      <4>2. Numbered(i)
        BY DEF IInv
      <4>3. responderOf[i] \in Pushes /\ Accepted(responderOf[i], i) # {}
        BY <4>1, <4>2 DEF Numbered
      <4> QED
        BY <2>3, <4>1, <4>3
    <3>2. PICK d \in Pushes : d = responderOf[i]
      BY <3>1
    <3>3. Accepted(d, i)' # {} /\ responderOf'[i] = d
      BY <1>8, <3>1, <3>2
    <3> QED
      BY <2>1, <3>1, <3>3 DEF Numbered
  <2>4. CASE i > id /\ ~(i > id')
    <3>1. i <= id'
      BY <1>1, <2>4 DEF MarketOK, OrderId
    <3>2. PICK k \in 1 .. Len(ms) : ms[k].stat = "ORDER_ACCEPT" /\ ms[k].order = i
      BY <2>4, <3>1
    <3>3. PICK n : n = len + k
      OBVIOUS
    <3>4. n \in DOMAIN srv'[c].reports /\ srv'[c].reports[n] = ms[k]
      <4>1. k \in 1 .. new
        BY <1>3
      <4>2. n \in 1 .. len + new /\ x.reports[n] = ms[k]
        BY <1>4, <3>3, <4>1
      <4> QED
        BY <1>2, <1>4, <4>2
    <3>5. ms[k] \in ToSet(srv'[c].reports)
      BY <3>4 DEF ToSet
    <3>6. Accepted(c, i)' # {}
      BY <3>2, <3>5 DEF Accepted
    <3>7. responderOf'[i] = c
      BY <2>4, <3>1
    <3> QED
      BY <2>1, <2>4, <3>6, <3>7 DEF Numbered
  <2> QED
    BY <1>1, <2>2, <2>3, <2>4 DEF OrderId
<1>10. Reporting'
  <2> SUFFICES ASSUME NEW d \in Pushes, NEW e \in Pushes,
                      NEW j \in DOMAIN srv'[d].reports, NEW k \in DOMAIN srv'[e].reports
               PROVE  /\ Legit(srv[d].reports[j])'
                      /\ <<d, j>> # <<e, k>> => InTurn(srv'[d].reports[j], srv'[e].reports[k])
    BY DEF Reporting
  <2>1. PICK a, b : a = srv'[d].reports[j] /\ b = srv'[e].reports[k]
    OBVIOUS
  <2>2. \/ j \in DOMAIN srv[d].reports /\ a = srv[d].reports[j] /\ a \in AnyReport /\ Legit(a)
        \/ d = c /\ \E p \in 1 .. new : j = len + p /\ a = ms[p]
    BY <1>5, <1>6, <2>1
  <2>3. \/ k \in DOMAIN srv[e].reports /\ b = srv[e].reports[k] /\ b \in AnyReport /\ Legit(b)
        \/ e = c /\ \E p \in 1 .. new : k = len + p /\ b = ms[p]
    BY <1>5, <1>6, <2>1
  <2>4. Legit(a)'
    BY <1>3, <2>2
  <2>5. ASSUME <<d, j>> # <<e, k>>
        PROVE  InTurn(a, b)
    <3>1. CASE /\ j \in DOMAIN srv[d].reports /\ a = srv[d].reports[j]
               /\ k \in DOMAIN srv[e].reports /\ b = srv[e].reports[k]
      BY <2>5, <3>1 DEF IInv, Reporting
    <3>2. CASE a \in AnyReport /\ Legit(a) /\ \E p \in 1 .. new : b = ms[p]
      BY <1>3, <3>2
    <3>3. CASE b \in AnyReport /\ Legit(b) /\ \E p \in 1 .. new : a = ms[p]
      <4>1. InTurn(b, a)
        BY <1>3, <3>3
      <4> QED
        BY <4>1 DEF InTurn
    <3>4. CASE /\ d = c /\ e = c
               /\ \E p \in 1 .. new : j = len + p /\ a = ms[p]
               /\ \E p \in 1 .. new : k = len + p /\ b = ms[p]
      <4>1. PICK p \in 1 .. new, q \in 1 .. new : j = len + p /\ a = ms[p] /\ k = len + q /\ b = ms[q]
        BY <3>4
      <4>2. p # q
        BY <2>5, <3>4, <4>1
      <4> QED
        BY <1>3, <4>1, <4>2
    <3> QED
      BY <2>2, <2>3, <3>1, <3>2, <3>3, <3>4
  <2>6. Legit(srv[d].reports[j])'
    BY <2>1, <2>4 DEF Legit
  <2> QED
    BY <2>1, <2>5, <2>6
<1>11. \A d \in Calls : Waiting(d)'
  BY <1>2 DEF IInv, Waiting
<1>12. ASSUME NEW d \in Pushes PROVE Streaming(d)' /\ Printing(d)'
  <2>1. Sent(d)' = Sent(d) /\ Printing(d)'
    BY DEF Sent, Printing, IInv
  <2>2. ASSUME NEW e \in Pushes, NEW j \in 1 .. srv[e].next
        PROVE  /\ srv'[e].next = srv[e].next /\ srv'[e].reports[j] = srv[e].reports[j]
               /\ Legit(srv[e].reports[j])
    <3>1. e \in Calls /\ srv[e].reports \in Seq(AnyReport) /\ srv[e].next \in Nat
      BY <1>1 DEF ServerObject
    <3>2. Len(srv[e].reports) \in Nat /\ DOMAIN srv[e].reports = 1 .. Len(srv[e].reports)
      BY <3>1, LenProperties
    <3>3. j \in DOMAIN srv[e].reports
      BY <1>1, <3>1, <3>2
    <3>4. srv'[e].reports[j] = srv[e].reports[j] /\ Legit(srv[e].reports[j])
      BY <1>5, <3>3
    <3>5. srv'[e].next = srv[e].next
      BY <1>2, <3>1
    <3> QED
      BY <3>4, <3>5
  <2>3. ASSUME NEW r, MeantFor(d, r)
        PROVE  MeantFor(d, r)'
    <3>1. CASE r.order = 0
      <4>1. PICK j \in 1 .. srv[d].next : srv[d].reports[j] = r
        BY <2>3, <3>1 DEF MeantFor
      <4> QED
        BY <2>2, <3>1, <4>1 DEF MeantFor
    <3>2. CASE r.order # 0
      <4>0. PICK e \in Pushes : \E j \in 1 .. srv[e].next : srv[e].reports[j] = r
        BY <2>3, <3>2 DEF MeantFor
      <4>1. PICK j \in 1 .. srv[e].next : srv[e].reports[j] = r
        BY <4>0
      <4>2. srv'[e].next = srv[e].next /\ srv'[e].reports[j] = r /\ Legit(r)
        BY <2>2, <4>1
      <4>3. r.order \in OrderId /\ r.order <= id
        BY <1>1, <3>2, <4>2 DEF Legit, OrderId, IInv, TypeOK
      <4>4. responderOf'[r.order] = d
        BY <2>3, <3>2, <4>3 DEF MeantFor
      <4> QED
        BY <3>2, <4>1, <4>2, <4>4 DEF MeantFor
    <3> QED
      BY <3>1, <3>2
  <2> QED
    BY <2>1, <2>3 DEF IInv, Streaming
<1>13. Resting'
  BY DEF MarketOK
<1> QED
  BY <1>7, <1>9, <1>10, <1>11, <1>12, <1>13 DEF IInv

\* A request that is not legal is rejected.
LEMMA RejectRequestStep ==
  ASSUME IInv, NEW c \in Pushes, RejectRequest(c)
  PROVE  IInv'
<1>1. PICK req \in Requests :
        /\ GetRequest(c, req)
        /\ srv' = [srv EXCEPT ![c].reports =
                     Append(@, Report("ORDER_REJECT", 0, req.qty, 0, req.qty))]
        /\ UNCHANGED <<market, responderOf>>
  BY DEF RejectRequest
<1>2. PICK r : r = Report("ORDER_REJECT", 0, req.qty, 0, req.qty)
  OBVIOUS
<1>3. r \in AnyReport /\ r.order = 0
  <2>1. req.qty \in Nat
    BY DEF Request
  <2> QED
    BY <1>2, <2>1 DEF Report, AnyReport
<1>4. c \in Calls /\ srv \in [Calls -> ServerObject] /\ srv[c] \in ServerObject
  BY DEF IInv, TypeOK, Calls
<1>5. PICK ms, x, old : /\ ms = <<r>> /\ old = srv[c].reports
                        /\ x = [srv[c] EXCEPT !.reports = old \o <<r>>]
  OBVIOUS
<1>6. old \in Seq(AnyReport)
  BY <1>4, <1>5 DEF ServerObject
<1>7. Append(old, r) = old \o <<r>> /\ Append(old, r) \in Seq(AnyReport)
  BY <1>3, <1>6, AppendIsConcat, AppendProperties
<1>8. x \in ServerObject /\ x.reports = srv[c].reports \o ms /\ x.next = srv[c].next /\ x.op = srv[c].op
  BY <1>4, <1>5, <1>7 DEF ServerObject
<1>9. srv' = [srv EXCEPT ![c] = x]
  BY <1>1, <1>2, <1>4, <1>5, <1>7
<1>10. /\ UNCHANGED <<file, cli, down, lost, aborted>> /\ up' \in [Calls -> Seq(Requests)]
       /\ x.op # "none"
  BY <1>1, <1>8, GetFacts
<1>11. MarketOK' /\ id' = id /\ orders' = orders /\ responderOf' = responderOf
  BY <1>1, MarketSame DEF market
<1>12. ms \in Seq(AnyReport) /\ Len(ms) = 1 /\ ms[1] = r
  BY <1>3, <1>5
<1>13. /\ id \in Nat /\ id <= id' /\ responderOf' \in [OrderId -> Pushes \cup {NoCall}]
       /\ \A i \in OrderId : i \in Nat /\ (i > id => responderOf'[i] = NoCall) /\ Numbered(i)
  BY <1>11 DEF IInv, TypeOK, Numbered, OrderId
<1>14. \A i \in OrderId :
         /\ i <= id => responderOf'[i] = responderOf[i]
         /\ i > id' => responderOf'[i] = NoCall
         /\ i > id /\ i <= id' =>
              /\ responderOf'[i] = c
              /\ \E k \in 1 .. Len(ms) : ms[k].stat = "ORDER_ACCEPT" /\ ms[k].order = i
  BY <1>11, <1>13
<1>15. \A a \in AnyReport : Legit(a) => Legit(a)'
  BY <1>11 DEF Legit
<1>16. \A k \in 1 .. Len(ms) : k = 1 /\ ms[k] = r
  BY <1>12
<1>17. /\ \A k \in 1 .. Len(ms) : Legit(ms[k])'
       /\ \A j, k \in 1 .. Len(ms) : j # k => InTurn(ms[j], ms[k])
       /\ \A a \in AnyReport, k \in 1 .. Len(ms) : Legit(a) => InTurn(a, ms[k])
  BY <1>3, <1>16 DEF Legit, InTurn
<1> QED
  BY <1>8, <1>9, <1>10, <1>11, <1>12, <1>13, <1>14, <1>15, <1>17, GrowStep

\* A legal request is processed.
LEMMA ProcessRequestStep ==
  ASSUME IInv, NEW c \in Pushes, ProcessRequest(c)
  PROVE  IInv'
<1>1. PICK o \in Requests :
        /\ GetRequest(c, o) /\ Legal(o) /\ AcceptOrder(o)
        /\ srv' = [srv EXCEPT ![c].reports = @ \o AllPasses(id', o).reports]
        /\ responderOf' = [responderOf EXCEPT ![id'] = c]
  BY DEF ProcessRequest
<1>2. MarketOK /\ MarketOK'
  BY <1>1, MarketOfIInv, AcceptMarket
<1>3. PICK i, ids, m, rest : Accepting(o, i, ids, m, rest)
  BY <1>1, <1>2, AcceptFacts
<1>4. /\ i = id + 1 /\ id' = i /\ id \in Nat /\ i \in OrderId /\ o.qty \in Nat
      /\ i \notin ids /\ m = AllPasses(i, o) /\ Passed(i, o, orders, ids, MaxOrders, m)
      /\ orders'[i] = rest /\ rest.qty = o.qty - m.cnt
      /\ ids \in SUBSET OrderId
      /\ \A j \in ids : orders[j] \in Request /\ orders[j].qty > 0 /\ j <= id
      /\ \A j \in OrderId : j # i => orders'[j] = m.orders[j]
  <2>1. id \in Nat
    BY <1>2 DEF MarketOK
  <2>2. o.qty \in Nat
    BY <1>3 DEF Accepting, Request
  <2> QED
    BY <1>3, <2>1, <2>2 DEF Accepting
<1>5. PICK ms : ms = m.reports
  OBVIOUS
<1>6. /\ ms \in Seq(AnyReport) /\ ms # <<>> /\ ms[1] = Report("ORDER_ACCEPT", i, o.qty, 0, o.qty)
      /\ \A k \in 1 .. Len(ms) : Made(i, o, orders, ids, MaxOrders, m, ms[k]) /\ ms[k] \in AnyReport
      /\ \A j, k \in 1 .. Len(ms) : j < k /\ ms[j].order = ms[k].order => Later(ms[j], ms[k])
      /\ Len(ms) \in Nat /\ Len(ms) > 0
  BY <1>4, <1>5, ElementOfSeq, EmptySeq, LenProperties DEF Passed
<1>7. c \in Calls /\ srv \in [Calls -> ServerObject] /\ srv[c] \in ServerObject
  BY DEF IInv, TypeOK, Calls
<1>8. PICK x, old, all : /\ old = srv[c].reports /\ all = old \o ms
                         /\ x = [srv[c] EXCEPT !.reports = all]
  OBVIOUS
<1>9. old \in Seq(AnyReport)
  BY <1>7, <1>8 DEF ServerObject
<1>10. all \in Seq(AnyReport)
  BY <1>6, <1>8, <1>9, ConcatProperties
<1>11. x \in ServerObject /\ x.reports = srv[c].reports \o ms /\ x.next = srv[c].next /\ x.op = srv[c].op
  BY <1>7, <1>8, <1>10 DEF ServerObject
<1>12. srv' = [srv EXCEPT ![c] = x]
  BY <1>1, <1>4, <1>5, <1>7, <1>8
<1>13. /\ UNCHANGED <<file, cli, down, lost, aborted>> /\ up' \in [Calls -> Seq(Requests)]
       /\ x.op # "none" /\ id <= id'
  <2>1. srv[c].op = "read" /\ UNCHANGED <<file, cli, down, lost, aborted>>
        /\ up' \in [Calls -> Seq(Requests)]
    BY <1>1, GetFacts
  <2> QED
    BY <1>4, <1>11, <2>1
<1>14. /\ responderOf \in [OrderId -> Pushes \cup {NoCall}] /\ responderOf' = [responderOf EXCEPT ![i] = c]
       /\ responderOf' \in [OrderId -> Pushes \cup {NoCall}]
  BY <1>1, <1>4 DEF IInv, TypeOK
<1>15. ASSUME NEW j \in OrderId
       PROVE  /\ j <= id => responderOf'[j] = responderOf[j]
              /\ j > id' => responderOf'[j] = NoCall
              /\ j > id /\ j <= id' =>
                   /\ responderOf'[j] = c
                   /\ \E k \in 1 .. Len(ms) : ms[k].stat = "ORDER_ACCEPT" /\ ms[k].order = j
  <2>1. j \in Nat
    BY DEF OrderId
  <2>2. j > id => responderOf[j] = NoCall
    BY DEF IInv, Numbered
  <2>3. /\ j <= id => responderOf'[j] = responderOf[j]
        /\ j > id' => responderOf'[j] = NoCall
        /\ j > id /\ j <= id' => j = i /\ responderOf'[j] = c
    BY <1>4, <1>14, <2>1, <2>2
  <2>4. 1 \in 1 .. Len(ms) /\ ms[1].stat = "ORDER_ACCEPT" /\ ms[1].order = i
    BY <1>6 DEF Report
  <2> QED
    BY <2>3, <2>4
<1>16. ASSUME NEW a \in AnyReport, Legit(a)
       PROVE  Legit(a)'
  <2>1. CASE a.order = 0
    BY <2>1 DEF Legit
  <2>2. CASE a.order # 0
    <3>1. /\ a.order \in 1 .. id /\ (a.stat = "ORDER_ACCEPT" => a.fill = 0 /\ a.total = a.leave)
          /\ orders[a.order] # NoOrder => orders[a.order].qty <= a.leave
      BY <1>16, <2>2 DEF Legit
    <3>2. a.order \in OrderId /\ a.order # i /\ a.order \in 1 .. id'
      BY <1>2, <1>4, <3>1 DEF MarketOK, OrderId
    <3>3. orders'[a.order] = m.orders[a.order]
      BY <1>4, <3>2
    <3>4. orders'[a.order] # NoOrder => orders'[a.order].qty <= a.leave
      <4>1. CASE a.order \in ids
        <5>1. /\ m.orders[a.order] \in Request /\ orders[a.order] \in Request
              /\ m.orders[a.order].qty <= orders[a.order].qty /\ orders[a.order] # NoOrder
          BY <1>4, <4>1 DEF Passed
        <5>2. m.orders[a.order].qty \in Nat /\ orders[a.order].qty \in Nat /\ a.leave \in Nat
          BY <5>1 DEF Request, AnyReport
        <5> QED
          BY <3>1, <3>3, <5>1, <5>2
      <4>2. CASE a.order \notin ids
        BY <1>4, <3>1, <3>2, <3>3, <4>2 DEF Passed
      <4> QED
        BY <4>1, <4>2
    <3> QED
      BY <3>1, <3>2, <3>4 DEF Legit
  <2> QED
    BY <2>1, <2>2
<1>17. ASSUME NEW k \in 1 .. Len(ms)
       PROVE  Legit(ms[k])'
  <2>1. PICK a : a = ms[k]
    OBVIOUS
  <2>2. Made(i, o, orders, ids, MaxOrders, m, a)
    BY <1>6, <2>1
  <2>3. a.order \in 1 .. id' /\ (a.stat = "ORDER_ACCEPT" => a.fill = 0 /\ a.total = a.leave)
    <3>1. /\ a.order = i \/ a.order \in ids
          /\ a.stat = "ORDER_ACCEPT" => a.fill = 0 /\ a.total = a.leave
      BY <2>2 DEF Made
    <3>2. a.order \in 1 .. id'
      <4>1. CASE a.order = i
        BY <1>4, <4>1
      <4>2. CASE a.order \in ids
        <5>1. a.order \in OrderId /\ a.order <= id
          BY <1>4, <4>2
        <5> QED
          BY <1>4, <5>1 DEF OrderId
      <4> QED
        BY <3>1, <4>1, <4>2
    <3> QED
      BY <3>1, <3>2
  <2>4. orders'[a.order].qty <= a.leave
    <3>1. CASE a.order = i
      BY <1>4, <2>2, <3>1 DEF Made
    <3>2. CASE a.order \in ids
      BY <1>4, <2>2, <3>2 DEF Made
    <3> QED
      BY <2>2, <3>1, <3>2 DEF Made
  <2>5. Legit(a)'
    BY <2>3, <2>4 DEF Legit
  <2> QED
    BY <2>1, <2>5 DEF Legit
<1>18. ASSUME NEW j \in 1 .. Len(ms), NEW k \in 1 .. Len(ms), j # k
       PROVE  InTurn(ms[j], ms[k])
  <2>1. j < k \/ k < j
    BY <1>18
  <2> QED
    BY <1>6, <2>1 DEF InTurn
<1>19. ASSUME NEW a \in AnyReport, NEW k \in 1 .. Len(ms), Legit(a)
       PROVE  InTurn(a, ms[k])
  <2>1. PICK b : b = ms[k]
    OBVIOUS
  <2>2. Made(i, o, orders, ids, MaxOrders, m, b) /\ b \in AnyReport
    BY <1>6, <2>1
  <2>3. ASSUME a.order = b.order, a.order # 0
        PROVE  Later(a, b)
    <3>1. /\ a.order \in 1 .. id
          /\ orders[a.order] # NoOrder => orders[a.order].qty <= a.leave
      BY <1>19, <2>3 DEF Legit
    <3>2. b.order \in ids
      BY <1>4, <2>2, <2>3, <3>1 DEF Made
    <3>3. b.fill > 0 /\ b.leave + b.fill <= orders[b.order].qty
      BY <2>2, <3>2 DEF Made
    <3>4. orders[b.order] # NoOrder /\ orders[b.order].qty \in Nat
      BY <1>4, <3>2 DEF Request
    <3>5. a.leave \in Nat /\ b.leave \in Nat /\ b.fill \in Nat
      BY <2>2 DEF AnyReport
    <3> QED
      BY <2>3, <3>1, <3>3, <3>4, <3>5 DEF Later
  <2> QED
    BY <2>1, <2>3 DEF InTurn
<1> QED
  BY <1>2, <1>6, <1>11, <1>12, <1>13, <1>14, <1>15, <1>16, <1>17, <1>18, <1>19, GrowStep

-----------------------------------------------------------------------------
(* A report is written *)

\* What has been printed after the blank report is a sequence of reports.
LEMMA NewsType ==
  ASSUME NEW p \in Seq(AnyReport)
  PROVE  News(p) \in Seq(AnyReport)
<1>1. p # <<>> => Tail(p) \in Seq(AnyReport)
  BY HeadTailProperties
<1>2. <<>> \in Seq(AnyReport)
  OBVIOUS
<1> QED
  BY <1>1, <1>2 DEF News

\* What is sent to a client is a sequence of reports.
LEMMA SentType ==
  ASSUME TypeOK, NEW c \in Pushes
  PROVE  /\ cli[c].printed \in Seq(AnyReport) /\ down[c] \in Seq(AnyReport)
         /\ News(cli[c].printed) \in Seq(AnyReport)
         /\ Sent(c) \in Seq(AnyReport)
<1>1. c \in Calls /\ cli[c] \in ClientObject /\ down[c] \in Seq(AnyReport)
  BY DEF TypeOK, Calls
<1>2. cli[c].printed \in Seq(AnyReport)
  BY <1>1 DEF ClientObject
<1>3. News(cli[c].printed) \in Seq(AnyReport)
  BY <1>2, NewsType
<1>4. PICK s, t : s = News(cli[c].printed) /\ t = down[c]
  OBVIOUS
<1>5. s \o t \in Seq(AnyReport)
  BY <1>1, <1>3, <1>4, ConcatProperties
<1> QED
  BY <1>1, <1>2, <1>3, <1>4, <1>5 DEF Sent

\* A report at the end of the second of two sequences is at the end of both.
LEMMA AppendToSecond ==
  ASSUME NEW S, NEW s \in Seq(S), NEW t \in Seq(S), NEW e \in S
  PROVE  s \o Append(t, e) = Append(s \o t, e)
<1>1. s \o t \in Seq(S) /\ <<e>> \in Seq(S)
  BY ConcatProperties
<1>2. Append(t, e) = t \o <<e>> /\ Append(s \o t, e) = (s \o t) \o <<e>>
  BY <1>1, AppendIsConcat
<1>3. (s \o t) \o <<e>> = s \o (t \o <<e>>)
  BY <1>1, ConcatAssociative
<1> QED
  BY <1>2, <1>3

\* The next report r of call c goes to the client d it is for, and is not among
\* what that client has been sent.
LEMMA NextReport ==
  ASSUME IInv, NEW c \in Pushes, srv[c].next < Len(srv[c].reports),
         NEW r, r = srv[c].reports[srv[c].next + 1], NEW d, d = Addressee(c)
  PROVE  /\ r \in AnyReport /\ d \in Pushes
         /\ IF r.order = 0 THEN d = c ELSE responderOf[r.order] = d
         /\ r.order # 0 => \A k \in DOMAIN Sent(d) : Sent(d)[k] # r
<1>1. /\ c \in Calls /\ srv[c].reports \in Seq(AnyReport) /\ srv[c].next \in Nat
      /\ \A e \in Pushes : srv[e].reports \in Seq(AnyReport) /\ srv[e].next \in Nat
                           /\ srv[e].next <= Len(srv[e].reports)
  BY DEF IInv, TypeOK, Calls, ServerObject
<1>2. PICK n : n = srv[c].next + 1
  OBVIOUS
<1>3. n \in DOMAIN srv[c].reports /\ r = srv[c].reports[n] /\ r \in AnyReport
  BY <1>1, <1>2, LenProperties, ElementOfSeq
<1>4. Legit(r)
  BY <1>3 DEF IInv, Reporting
<1>5. d \in Pushes /\ IF r.order = 0 THEN d = c ELSE responderOf[r.order] = d
  <2>1. d = IF r.order = 0 THEN c ELSE responderOf[r.order]
    BY DEF Addressee
  <2>2. CASE r.order = 0
    BY <2>1, <2>2
  <2>3. CASE r.order # 0
    <3>1. r.order \in 1 .. id /\ id \in 0 .. MaxOrders
      BY <1>4, <2>3 DEF Legit, IInv, TypeOK
    <3>2. r.order \in OrderId /\ ~(r.order > id)
      BY <3>1 DEF OrderId
    <3>3. responderOf[r.order] \in Pushes
      BY <3>2 DEF IInv, Numbered
    <3> QED
      BY <2>1, <2>3, <3>3
  <2> QED
    BY <2>2, <2>3
<1>6. ASSUME r.order # 0, NEW k \in DOMAIN Sent(d), Sent(d)[k] = r
      PROVE  FALSE
  <2>1. MeantFor(d, r)
    BY <1>5, <1>6 DEF IInv, Streaming
  <2>2. PICK e \in Pushes : \E j \in 1 .. srv[e].next : srv[e].reports[j] = r
    BY <1>6, <2>1 DEF MeantFor
  <2>3. PICK j \in 1 .. srv[e].next : srv[e].reports[j] = r
    BY <2>2
  <2>4. j \in DOMAIN srv[e].reports
    BY <1>1, <2>3, LenProperties
  <2>5. <<e, j>> # <<c, n>>
    BY <1>1, <1>2, <2>3
  <2>6. InTurn(r, r)
    BY <1>3, <2>3, <2>4, <2>5 DEF IInv, Reporting
  <2>7. r.leave \in Nat /\ r.fill \in Nat
    BY <1>3 DEF AnyReport
  <2> QED
    BY <1>6, <2>6, <2>7 DEF InTurn, Later
<1> QED
  BY <1>3, <1>5, <1>6

\* The next report is written.
LEMMA WriteReportStep ==
  ASSUME IInv, NEW c \in Pushes, WriteReport(c)
  PROVE  IInv'
<1>1. PICK r, d : r = srv[c].reports[srv[c].next + 1] /\ d = Addressee(c)
  OBVIOUS
<1>2. /\ srv[c].next < Len(srv[c].reports)
      /\ srv' = [srv EXCEPT ![c].op = "write", ![c].to = d, ![c].next = @ + 1]
      /\ down' = IF d \in lost THEN down ELSE [down EXCEPT ![d] = Append(@, r)]
      /\ UNCHANGED <<market, responderOf, file, cli, up, lost, aborted>>
  BY <1>1 DEF WriteReport
<1>3. /\ r \in AnyReport /\ d \in Pushes
      /\ IF r.order = 0 THEN d = c ELSE responderOf[r.order] = d
      /\ r.order # 0 => \A k \in DOMAIN Sent(d) : Sent(d)[k] # r
  BY <1>1, <1>2, NextReport
<1>4. /\ c \in Calls /\ d \in Calls /\ Pushes \subseteq Calls /\ srv \in [Calls -> ServerObject]
      /\ srv[c] \in ServerObject /\ cli \in [Calls -> ClientObject]
      /\ down \in [Calls -> Seq(AnyReport)] /\ TypeOK
      /\ \A e \in Calls : srv[e].next <= Len(srv[e].reports)
  BY <1>3 DEF IInv, TypeOK, Calls
<1>5. PICK n, x : n = srv[c].next + 1 /\ x = [srv[c] EXCEPT !.op = "write", !.to = d, !.next = n]
  OBVIOUS
<1>6. n \in Nat /\ n = srv[c].next + 1 /\ n <= Len(srv[c].reports) /\ r = srv[c].reports[n] /\ srv[c].next \in Nat
  <2>1. srv[c].next \in Nat /\ srv[c].reports \in Seq(AnyReport)
    BY <1>4 DEF ServerObject
  <2>2. Len(srv[c].reports) \in Nat
    BY <2>1, LenProperties
  <2> QED
    BY <1>1, <1>2, <1>5, <2>1, <2>2
<1>7. x \in ServerObject /\ x.reports = srv[c].reports /\ x.next = n /\ x.op = "write"
  BY <1>4, <1>5, <1>6 DEF ServerObject
<1>8. srv' = [srv EXCEPT ![c] = x]
  BY <1>2, <1>4, <1>5
<1>9. /\ srv' \in [Calls -> ServerObject] /\ srv'[c] = x
      /\ \A e \in Calls : e # c => srv'[e] = srv[e]
  BY <1>4, <1>7, <1>8, ServerAlter
<1>10. /\ MarketOK' /\ id' = id /\ orders' = orders /\ responderOf' = responderOf
       /\ cli' = cli /\ file' = file /\ up' = up /\ lost' = lost /\ aborted' = aborted
  BY <1>2, MarketSame DEF market
<1>11. \A e \in Calls : srv'[e].reports = srv[e].reports
  BY <1>7, <1>9
<1>12. PICK s : s = Append(down[d], r) /\ s \in Seq(AnyReport)
  BY <1>3, <1>4, AppendProperties
<1>13. /\ down' \in [Calls -> Seq(AnyReport)]
       /\ \A e \in Calls : e # d => down'[e] = down[e]
       /\ down'[d] = down[d] \/ down'[d] = s
  <2>1. down' = down \/ down' = [down EXCEPT ![d] = s]
    BY <1>2, <1>4, <1>12
  <2> QED
    BY <1>4, <1>12, <2>1
<1>14. TypeOK'
  <2>1. \A e \in Calls : srv'[e].next <= Len(srv'[e].reports)
    BY <1>4, <1>6, <1>7, <1>9
  <2> QED
    BY <1>9, <1>10, <1>13, <2>1 DEF IInv, TypeOK, MarketOK
<1>15. ASSUME NEW i \in OrderId PROVE Numbered(i)'
  <2>1. \A e \in Pushes : Accepted(e, i)' = Accepted(e, i)
    BY <1>4, <1>11 DEF Accepted
  <2> QED
    BY <1>10, <2>1 DEF IInv, Numbered
<1>16. Reporting'
  <2>1. ASSUME NEW a, Legit(a) PROVE Legit(a)'
    BY <1>10, <2>1 DEF Legit
  <2> QED
    BY <1>4, <1>11, <2>1 DEF IInv, Reporting
<1>17. \A e \in Calls : Waiting(e)'
  BY <1>4, <1>7, <1>9 DEF IInv, Waiting
<1>18. ASSUME NEW e \in Pushes, NEW j \in 1 .. srv[e].next
       PROVE  j \in 1 .. srv'[e].next
  <2>1. CASE e = c
    <3>1. srv'[e].next = n
      BY <1>7, <1>9, <2>1
    <3> QED
      BY <1>6, <2>1, <3>1
  <2>2. CASE e # c
    BY <1>4, <1>9, <2>2
  <2> QED
    BY <2>1, <2>2
<1>19. ASSUME NEW e \in Pushes, NEW a, MeantFor(e, a)
       PROVE  MeantFor(e, a)'
  <2>1. \A f \in Pushes : \A j \in 1 .. srv[f].next :
          j \in 1 .. srv'[f].next /\ srv'[f].reports[j] = srv[f].reports[j]
    BY <1>4, <1>11, <1>18
  <2>2. CASE a.order = 0
    <3>1. PICK j \in 1 .. srv[e].next : srv[e].reports[j] = a
      BY <1>19, <2>2 DEF MeantFor
    <3> QED
      BY <2>1, <2>2, <3>1 DEF MeantFor
  <2>3. CASE a.order # 0
    <3>1. PICK f \in Pushes : \E j \in 1 .. srv[f].next : srv[f].reports[j] = a
      BY <1>19, <2>3 DEF MeantFor
    <3>2. PICK j \in 1 .. srv[f].next : srv[f].reports[j] = a
      BY <3>1
    <3>3. responderOf'[a.order] = e
      BY <1>10, <1>19, <2>3 DEF MeantFor
    <3> QED
      BY <2>1, <2>3, <3>2, <3>3 DEF MeantFor
  <2> QED
    BY <2>2, <2>3
<1>20. MeantFor(d, r)'
  <2>1. n \in 1 .. srv'[c].next /\ srv'[c].reports[n] = r
    BY <1>4, <1>6, <1>7, <1>9
  <2> QED
    BY <1>3, <1>10, <2>1 DEF MeantFor
<1>21. ASSUME NEW e \in Pushes PROVE Streaming(e)' /\ Printing(e)'
  <2>1. Printing(e)'
    BY <1>10 DEF IInv, Printing
  <2>2. ASSUME NEW k \in DOMAIN Sent(e)
        PROVE  /\ MeantFor(e, Sent(e)[k])
               /\ \A j \in DOMAIN Sent(e) : j # k /\ Sent(e)[k].order # 0 => Sent(e)[j] # Sent(e)[k]
    BY DEF IInv, Streaming
  <2>3. CASE down'[e] = down[e]
    <3>1. Sent(e)' = Sent(e)
      BY <1>10, <2>3 DEF Sent
    <3> QED
      BY <1>19, <2>1, <2>2, <3>1 DEF Streaming
  <2>4. CASE e = d /\ down'[e] = s
    <3>1. PICK p, q, old : p = News(cli[e].printed) /\ q = down[e] /\ old = p \o q
      OBVIOUS
    <3>2. p \in Seq(AnyReport) /\ q \in Seq(AnyReport) /\ old \in Seq(AnyReport) /\ old = Sent(e)
      BY <1>4, <3>1, SentType DEF Sent
    <3>3. p \o Append(q, r) = Append(p \o q, r)
      BY <1>3, <3>2, AppendToSecond
    <3>4. PICK new : new = Append(old, r)
      OBVIOUS
    <3>5. Sent(e)' = new
      BY <1>10, <1>12, <2>4, <3>1, <3>3, <3>4 DEF Sent
    <3>6. /\ new \in Seq(AnyReport) /\ Len(new) = Len(old) + 1 /\ Len(old) \in Nat
          /\ \A k \in 1 .. Len(old) : new[k] = old[k]
          /\ new[Len(old) + 1] = r
          /\ DOMAIN old = 1 .. Len(old) /\ DOMAIN new = 1 .. Len(new)
      BY <1>3, <3>2, <3>4, AppendProperties, LenProperties
    <3>7. ASSUME NEW k \in DOMAIN new
          PROVE  \/ k \in DOMAIN old /\ new[k] = old[k]
                 \/ k = Len(old) + 1 /\ new[k] = r
      <4>1. k \in 1 .. Len(old) + 1
        BY <3>6
      <4>2. CASE k \in 1 .. Len(old)
        BY <3>6, <4>2
      <4>3. CASE k = Len(old) + 1
        BY <3>6, <4>3
      <4> QED
        BY <3>6, <4>1, <4>2, <4>3
    <3>8. ASSUME NEW k \in DOMAIN new
          PROVE  /\ MeantFor(e, new[k])'
                 /\ \A j \in DOMAIN new : j # k /\ new[k].order # 0 => new[j] # new[k]
      <4>1. MeantFor(e, new[k])'
        <5>1. PICK a : a = new[k]
          OBVIOUS
        <5>2. MeantFor(e, a)'
          BY <1>19, <1>20, <2>2, <2>4, <3>2, <3>7, <5>1
        <5> QED
          BY <5>1, <5>2 DEF MeantFor
      <4>2. ASSUME NEW j \in DOMAIN new, j # k, new[k].order # 0, new[j] = new[k]
            PROVE  FALSE
        <5>1. CASE j \in DOMAIN old /\ new[j] = old[j] /\ k \in DOMAIN old /\ new[k] = old[k]
          BY <2>2, <3>2, <4>2, <5>1
        <5>2. CASE j \in DOMAIN old /\ new[j] = old[j] /\ new[k] = r
          BY <1>3, <2>4, <3>2, <4>2, <5>2
        <5>3. CASE k \in DOMAIN old /\ new[k] = old[k] /\ new[j] = r
          BY <1>3, <2>4, <3>2, <4>2, <5>3
        <5> QED
          BY <3>7, <4>2, <5>1, <5>2, <5>3
      <4> QED
        BY <4>1, <4>2
    <3> QED
      BY <2>1, <3>5, <3>8 DEF Streaming
  <2> QED
    BY <1>4, <1>13, <2>3, <2>4
<1>22. Resting'
  BY <1>10 DEF MarketOK
<1> QED
  BY <1>14, <1>15, <1>16, <1>17, <1>21, <1>22 DEF IInv

-----------------------------------------------------------------------------
(* The inductive invariant *)

\* It holds to begin with.
LEMMA InitIInv == Init => IInv
<1> SUFFICES ASSUME Init PROVE IInv
  OBVIOUS
<1>1. /\ Pushes \subseteq Calls
      /\ <<>> \in Seq(AnyReport) /\ <<>> \in Seq(Requests)
  BY DEF Calls
<1>2. /\ \A c \in Calls : srv[c] = Object("none")
      /\ \A c \in Calls : /\ cli[c].op = "none" /\ cli[c].printed = <<>>
                          /\ down[c] = <<>>
  BY DEF Init
<1>3. /\ Object("none") \in ServerObject /\ Object("none").op = "none"
      /\ Object("none").reports = <<>> /\ Object("none").next = 0
  BY <1>1 DEF Object, ServerObject
<1>4. /\ srv \in [Calls -> ServerObject]
      /\ \A c \in Calls : srv[c].reports = <<>> /\ srv[c].next = 0
  BY <1>2, <1>3 DEF Init
<1>5. cli \in [Calls -> ClientObject]
  <2>1. [op |-> "none", counter |-> 0, order |-> 0, ctor |-> "none", printed |-> <<>>] \in ClientObject
    BY <1>1 DEF ClientObject
  <2> QED
    BY <2>1 DEF Init
<1>6. TypeOK
  <2>1. 0 \in 0 .. MaxOrders
    OBVIOUS
  <2>2. \A c \in Calls : srv[c].next <= Len(srv[c].reports)
    BY <1>4
  <2>3. /\ orders \in [OrderId -> Request \cup {NoOrder}]
        /\ book \in [AnyStock -> [Side -> SUBSET OrderId]]
        /\ responderOf \in [OrderId -> Pushes \cup {NoCall}]
    BY DEF Init
  <2>4. up \in [Calls -> Seq(Requests)] /\ down \in [Calls -> Seq(AnyReport)]
    BY <1>1 DEF Init
  <2> QED
    BY <1>4, <1>5, <2>1, <2>2, <2>3, <2>4 DEF Init, TypeOK
<1>7. Resting
  BY DEF Init, Resting
<1>8. \A i \in OrderId : Numbered(i)
  BY DEF Init, Numbered, OrderId
<1>9. Reporting
  BY <1>1, <1>4 DEF Reporting
<1>10. \A c \in Calls : Waiting(c)
  BY <1>4 DEF Waiting
<1>11. ASSUME NEW c \in Pushes PROVE Streaming(c) /\ Printing(c)
  <2>1. cli[c].op = "none" /\ cli[c].printed = <<>> /\ down[c] = <<>>
    BY <1>1, <1>2
  <2>2. Sent(c) = <<>>
    BY <2>1 DEF Sent, News
  <2>3. \A k \in DOMAIN Sent(c) : FALSE
    BY <2>2
  <2> QED
    BY <2>1, <2>3 DEF Streaming, Printing
<1> QED
  BY <1>6, <1>7, <1>8, <1>9, <1>10, <1>11 DEF IInv

\* Steps that change nothing keep it.
LEMMA StutterStep ==
  ASSUME IInv, UNCHANGED vars
  PROVE  IInv'
<1>1. /\ UNCHANGED market /\ responderOf' = responderOf /\ file' = file /\ srv' = srv /\ cli' = cli
      /\ up' = up /\ down' = down /\ lost' = lost /\ aborted' = aborted
  BY DEF vars, wire
<1>2. MarketOK' /\ id' = id /\ \A i \in OrderId : orders'[i] = orders[i] \/ orders'[i] = NoOrder
  BY <1>1, MarketSame
<1>3. \A c \in Pushes : Sent(c)' = Sent(c) /\ Printing(c)'
  BY <1>1 DEF IInv, Sent, Printing
<1>4. \A c \in Calls : Waiting(c)'
  BY <1>1 DEF IInv, Waiting
<1> QED
  BY <1>1, <1>2, <1>3, <1>4, FrameStep DEF IInv, TypeOK

\* Every step keeps it.
LEMMA NextIInv == IInv /\ [Next]_vars => IInv'
<1> SUFFICES ASSUME IInv, [Next]_vars PROVE IInv'
  OBVIOUS
<1>1. CASE UNCHANGED vars
  BY <1>1, StutterStep
<1>2. ASSUME NEW c \in Calls, Server(c)
      PROVE  IInv'
  <2>1. CASE c \in Pushes
    BY <1>2, <2>1, AcceptCallStep, SkipRequestStep, RejectRequestStep, ProcessRequestStep,
       WriteReportStep, OverlapStep, StopWritingStep DEF Server, ServeNewOrder
  <2>2. CASE c \notin Pushes
    <3>1. c \in Cancels /\ (CancelOrder(c) \/ CancelNothing(c))
      BY <1>2, <2>2 DEF Server, Calls
    <3> QED
      BY <3>1, CancelOrderStep, CancelNothingStep
  <2> QED
    BY <2>1, <2>2
<1>3. ASSUME NEW c \in Calls, Client(c)
      PROVE  IInv'
  BY <1>3, WriteRequestStep, PostingSteps, PrintBlankStep, PrintReportStep, CancelClientSteps
     DEF Client
<1>4. ASSUME NEW c \in Calls, Command(c)
      PROVE  IInv'
  <2>1. CASE c \in Pushes
    BY <1>4, <2>1, PostingSteps DEF Command
  <2>2. CASE c \notin Pushes
    <3>1. c \in Cancels /\ \E i \in Targets : PushCancelOrder(c, i)
      BY <1>4, <2>2 DEF Command, Calls
    <3> QED
      BY <3>1, CancelClientSteps
  <2> QED
    BY <2>1, <2>2
<1> QED
  BY <1>1, <1>2, <1>3, <1>4, LoseStep DEF Next

\* The resting sets mirror the table, an order's responder is the call that was told
\* of it, its reports come in turn whichever calls hold them, and what is written to
\* a stream or printed from it is meant for it and comes once.
THEOREM FirstInvariance == Spec => []IInv
<1> QED
  BY InitIInv, NextIInv, PTL DEF Spec

-----------------------------------------------------------------------------
(* The market is AtomicMarket *)

\* A step of this version is one of AtomicMarket, or nothing there.
LEMMA AbstractStep ==
  ASSUME IInv, [Next]_vars
  PROVE  \/ \E req \in Requests : Abstract!Submit(req)
         \/ \E i \in Abstract!OrderId : Abstract!Cancel(i)
         \/ UNCHANGED <<id, OpenOrders>>
<1>1. MarketOK
  BY MarketOfIInv
<1>2. CASE UNCHANGED market
  BY <1>2 DEF market, OpenOrders
<1>3. ASSUME NEW c \in Pushes, ProcessRequest(c)
      PROVE  \E req \in Requests : Abstract!Submit(req)
  <2>1. PICK o \in Requests : Legal(o) /\ AcceptOrder(o)
    BY <1>3 DEF ProcessRequest
  <2>2. id' = id + 1 /\ OpenOrders' = Submitted(OpenOrders, id + 1, o) /\ id < MaxOrders
    BY <1>1, <2>1, AcceptSubmits DEF AcceptOrder
  <2>3. Abstract!CheckRequest(o)
    BY <2>1, AbstractIsTrades
  <2>4. Abstract!Submit(o)
    BY <2>2, <2>3, AbstractIsTrades DEF Abstract!Submit
  <2> QED
    BY <2>4
<1>4. ASSUME NEW c \in Calls, CancelOrder(c)
      PROVE  \/ \E i \in Abstract!OrderId : Abstract!Cancel(i)
             \/ UNCHANGED <<id, OpenOrders>>
  <2>1. PICK i : DropOrder(i)
    BY <1>4 DEF CancelOrder
  <2>2. /\ id' = id /\ i \in Abstract!OrderId
        /\ \/ OpenOrders' = OpenOrders
           \/ /\ OpenOrders[i] # NoOrder
              /\ OpenOrders' = [OpenOrders EXCEPT ![i] = NoOrder]
    BY <1>1, <2>1, DropCancels, AbstractIsTrades
  <2> QED
    BY <2>2 DEF Abstract!Cancel
<1>5. ASSUME NEW c \in Calls, Server(c)
      PROVE  \/ UNCHANGED market
             \/ c \in Pushes /\ ProcessRequest(c)
             \/ CancelOrder(c)
  BY <1>5 DEF Server, ServeNewOrder, AcceptCall, SkipRequest, RejectRequest, WriteReport,
       Overlap, StopWriting, CancelNothing
<1>6. ASSUME NEW c \in Calls, Client(c) \/ Command(c) \/ Lose(c)
      PROVE  UNCHANGED market
  BY <1>6 DEF Client, Command, Lose, ClientOnly, WriteRequest, WritesDone, PrintBlank, PrintReport,
       EndReports, EndConstructor, PrintCancel, PushNewOrder, PushCancelOrder
<1>7. UNCHANGED vars => UNCHANGED market
  BY DEF vars
<1> QED
  BY <1>2, <1>3, <1>4, <1>5, <1>6, <1>7 DEF Next

\* Although filled orders stay in its table, where they can be cancelled, and
\* resting orders are kept apart, by number, the market of this version implements
\* AtomicMarket, for any clients, files, stocks and number of orders.
THEOREM FirstIsAtomic == Spec => Atomic
<1>1. Init => Abstract!Init
  <2> SUFFICES ASSUME Init PROVE Abstract!Init
    OBVIOUS
  <2>1. OpenOrders = [i \in OrderId |-> NoOrder]
    BY DEF Init, OpenOrders
  <2> QED
    BY <2>1, AbstractIsTrades DEF Init, Abstract!Init
<1>2. IInv /\ [Next]_vars => [Abstract!Next]_(Abstract!vars)
  <2> SUFFICES ASSUME IInv, [Next]_vars PROVE [Abstract!Next]_(Abstract!vars)
    OBVIOUS
  <2> QED
    BY AbstractStep DEF Abstract!Next, Abstract!vars
<1> QED
  BY <1>1, <1>2, FirstInvariance, PTL DEF Spec, Atomic, Abstract!Spec

-----------------------------------------------------------------------------
(* What clients print *)

\* Runs of numbers that do not overlap, of lengths f and within a .. b - 1, are no
\* longer together than that is.
LEMMA RunsFit ==
  ASSUME NEW n \in Nat, NEW f, NEW lo, NEW a \in Nat, NEW b \in Nat, a <= b,
         \A k \in 1 .. n : /\ f[k] \in Nat /\ lo[k] \in Nat
                           /\ f[k] > 0 => a <= lo[k] /\ lo[k] + f[k] <= b,
         \A j, k \in 1 .. n : j # k /\ f[j] > 0 /\ f[k] > 0 =>
           lo[j] + f[j] <= lo[k] \/ lo[k] + f[k] <= lo[j]
  PROVE  SumFunctionOnSet(f, 1 .. n) <= b - a
<1> DEFINE Run(k)   == {x \in a .. b - 1 : lo[k] <= x /\ x < lo[k] + f[k]}
           Cover(m) == {x \in a .. b - 1 : \E k \in 1 .. m : x \in Run(k)}
<1>0. ASSUME NEW l \in Int, NEW h \in Int, l <= h + 1
      PROVE  IsFiniteSet(l .. h) /\ Cardinality(l .. h) = h - l + 1
  <2>1. IsFiniteSet(l .. h) /\ Cardinality(l .. h) = IF l > h THEN 0 ELSE h - l + 1
    BY ONLY l \in Int, h \in Int, FS_Interval
  <2> QED
    BY <1>0, <2>1
<1>1. /\ IsFiniteSet(a .. b - 1) /\ Cardinality(a .. b - 1) = b - a
  <2>1. PICK h \in Int : h = b - 1
    OBVIOUS
  <2>2. a \in Int /\ a <= h + 1 /\ b - 1 = h /\ h - a + 1 = b - a
    BY <2>1
  <2>3. IsFiniteSet(a .. h) /\ Cardinality(a .. h) = h - a + 1
    BY ONLY <1>0, <2>2, h \in Int
  <2> QED
    BY ONLY <2>2, <2>3
<1>2. ASSUME NEW k \in 1 .. n
      PROVE  IsFiniteSet(Run(k)) /\ Cardinality(Run(k)) = f[k]
  <2>1. PICK l, h : l = lo[k] /\ h = lo[k] + f[k] - 1
    OBVIOUS
  <2>2. l \in Int /\ h \in Int /\ f[k] \in Nat /\ h = l + f[k] - 1 /\ l <= h + 1
    BY <2>1
  <2>3. Run(k) = l .. h
    <3>1. ASSUME NEW x \in Int
          PROVE  x \in Run(k) <=> l <= x /\ x <= h
      <4>1. /\ a \in Int /\ b \in Int /\ l \in Int /\ h \in Int /\ f[k] \in Nat
            /\ lo[k] = l /\ lo[k] + f[k] = h + 1
            /\ f[k] = 0 \/ (a <= l /\ h + 1 <= b)
        BY <2>1, <2>2
      <4>2. x \in Run(k) <=> a <= x /\ x <= b - 1 /\ l <= x /\ x < h + 1
        BY <4>1
      <4>3. f[k] = 0 => h + 1 = l
        BY <2>2
      <4> HIDE DEF Run
      <4> QED
        BY <4>1, <4>2, <4>3
    <3>2. Run(k) \subseteq Int
      OBVIOUS
    <3> HIDE DEF Run
    <3>3. \A x : x \in Run(k) <=> x \in l .. h
      <4>1. \A x : x \in Run(k) => x \in l .. h
        BY <2>2, <3>1, <3>2
      <4>2. \A x : x \in l .. h => x \in Run(k)
        BY <2>2, <3>1
      <4> QED
        BY <4>1, <4>2
    <3>4. PICK R, I : R = Run(k) /\ I = l .. h
      OBVIOUS
    <3>5. \A x : x \in R <=> x \in I
      BY <3>3, <3>4
    <3>6. R = I
      BY ONLY <3>5
    <3> QED
      BY <3>4, <3>6
  <2>4. IsFiniteSet(l .. h) /\ Cardinality(l .. h) = h - l + 1
    BY <1>0, <2>2
  <2> HIDE DEF Run
  <2> QED
    BY <2>2, <2>3, <2>4
<1>3. PICK T : T = {m \in 0 .. n : /\ IsFiniteSet(Cover(m))
                                   /\ Cardinality(Cover(m)) = SumFunctionOnSet(f, 1 .. m)}
  OBVIOUS
<1>4. 0 \in T
  <2>1. Cover(0) = {} /\ 1 .. 0 = {}
    OBVIOUS
  <2> HIDE DEF Cover
  <2>2. Cardinality(Cover(0)) = 0 /\ IsFiniteSet(Cover(0)) /\ SumFunctionOnSet(f, 1 .. 0) = 0
    BY <2>1, FS_EmptySet, SumEmpty
  <2> QED
    BY <1>3, <2>2
<1>5. ASSUME NEW m \in 1 .. n, m - 1 \in T
      PROVE  m \in T
  <2>1. PICK l : l = m - 1
    OBVIOUS
  <2>2. l \in Nat /\ m = l + 1 /\ l \in 0 .. n /\ \A k \in 1 .. m : k = m \/ k \in 1 .. l
    BY <2>1
  <2>3. IsFiniteSet(Cover(l)) /\ Cardinality(Cover(l)) = SumFunctionOnSet(f, 1 .. l)
    BY <1>3, <1>5, <2>1
  <2>4. Cover(m) = Cover(l) \cup Run(m)
    BY <2>2
  <2>5. Cover(l) \cap Run(m) = {}
    <3> SUFFICES ASSUME NEW x, x \in Cover(l), x \in Run(m) PROVE FALSE
      OBVIOUS
    <3>1. PICK k \in 1 .. l : x \in Run(k)
      OBVIOUS
    <3>2. x \in Int /\ lo[k] <= x /\ x < lo[k] + f[k] /\ lo[m] <= x /\ x < lo[m] + f[m]
      BY <3>1
    <3>3. k \in 1 .. n /\ k # m
      BY <2>2
    <3>4. f[k] \in Nat /\ f[m] \in Nat /\ lo[k] \in Nat /\ lo[m] \in Nat
      BY <3>3
    <3>5. f[k] > 0 /\ f[m] > 0
      BY <3>2, <3>4
    <3>6. lo[m] + f[m] <= lo[k] \/ lo[k] + f[k] <= lo[m]
      BY <3>3, <3>5
    <3> QED
      BY <3>2, <3>4, <3>6
  <2>6. /\ IsFiniteSet(Cover(m)) /\ Cardinality(Cover(m)) = Cardinality(Cover(l)) + f[m]
    <3>1. Cardinality(Cover(l)) \in Nat /\ f[m] \in Nat
      BY <2>3, FS_CardinalityType
    <3> HIDE DEF Cover, Run
    <3>2. /\ IsFiniteSet(Cover(l) \cup Run(m))
          /\ Cardinality(Cover(l) \cup Run(m))
               = Cardinality(Cover(l)) + Cardinality(Run(m)) - Cardinality(Cover(l) \cap Run(m))
      BY <1>2, <2>3, FS_Union
    <3>3. IsFiniteSet(Run(m)) /\ Cardinality(Run(m)) = f[m]
      BY <1>2
    <3>4. Cardinality(Cover(l) \cap Run(m)) = 0
      BY <2>5, FS_EmptySet
    <3>5. Cover(m) = Cover(l) \cup Run(m)
      BY <2>4
    <3> QED
      BY <3>1, <3>2, <3>3, <3>4, <3>5
  <2>7. SumFunctionOnSet(f, 1 .. l + 1) = SumFunctionOnSet(f, 1 .. l) + f[l + 1]
    <3>1. \A k \in 1 .. l + 1 : f[k] \in Nat
      BY <2>2
    <3> QED
      BY <2>2, <3>1, SumNext
  <2> HIDE DEF Cover
  <2> QED
    BY <1>3, <2>2, <2>3, <2>6, <2>7
<1>6. n \in T
  <2>1. \A m \in 0 .. n : m \in T
    BY <1>4, <1>5, CountingSet
  <2> QED
    BY <2>1
<1>7. Cardinality(Cover(n)) <= b - a
  <2>1. Cover(n) \in SUBSET (a .. b - 1)
    OBVIOUS
  <2> HIDE DEF Cover
  <2> QED
    BY <1>1, <2>1, FS_Subset
<1> HIDE DEF Cover
<1> QED
  BY <1>3, <1>6, <1>7

\* What a client prints after the blank report is of what it has been sent.
LEMMA NewsSent ==
  ASSUME IInv, NEW c \in Pushes, cli[c].printed # <<>>, NEW news, news = Tail(cli[c].printed)
  PROVE  /\ news \in Seq(AnyReport)
         /\ \A k \in DOMAIN news : k \in DOMAIN Sent(c) /\ Sent(c)[k] = news[k] /\ news[k] \in AnyReport
<1>1. PICK t : t = down[c]
  OBVIOUS
<1>2. news \in Seq(AnyReport) /\ t \in Seq(AnyReport) /\ Sent(c) = news \o t
  BY <1>1, SentType DEF IInv, Sent, News
<1>3. Sent(c) \in Seq(AnyReport)
  BY SentType DEF IInv
<1>4. PICK s : s = Sent(c)
  OBVIOUS
<1>5. /\ Len(news) \in Nat /\ Len(t) \in Nat /\ DOMAIN news = 1 .. Len(news)
      /\ Len(s) = Len(news) + Len(t) /\ DOMAIN s = 1 .. Len(s)
      /\ \A k \in 1 .. Len(news) + Len(t) : s[k] = IF k <= Len(news) THEN news[k] ELSE t[k - Len(news)]
  BY <1>2, <1>3, <1>4, LenProperties, ConcatProperties
<1>6. ASSUME NEW k \in DOMAIN news
      PROVE  k \in DOMAIN s /\ s[k] = news[k] /\ news[k] \in AnyReport
  <2>1. k \in 1 .. Len(news) /\ k \in 1 .. Len(news) + Len(t)
    BY <1>5
  <2> QED
    BY <1>2, <1>5, <2>1, ElementOfSeq
<1> QED
  BY <1>2, <1>4, <1>6

\* A report of an order that a client has been sent, or was accepted with, is one that
\* some call has.
LEMMA ReportHeld ==
  ASSUME IInv, NEW c \in Pushes, NEW r, r.order # 0, MeantFor(c, r)
  PROVE  \E d \in Pushes : \E j \in DOMAIN srv[d].reports : srv[d].reports[j] = r
<1>1. PICK d \in Pushes : \E j \in 1 .. srv[d].next : srv[d].reports[j] = r
  BY DEF MeantFor
<1>2. PICK j \in 1 .. srv[d].next : srv[d].reports[j] = r
  BY <1>1
<1>3. srv[d].reports \in Seq(AnyReport) /\ srv[d].next \in Nat /\ srv[d].next <= Len(srv[d].reports)
  BY DEF IInv, TypeOK, Calls, ServerObject
<1>4. j \in DOMAIN srv[d].reports
  BY <1>3, LenProperties
<1> QED
  BY <1>2, <1>4

\* Two different reports of an order come in turn, wherever they are.
LEMMA HeldInTurn ==
  ASSUME IInv, NEW a, NEW r, a # r,
         \E c \in Pushes : \E j \in DOMAIN srv[c].reports : srv[c].reports[j] = a,
         \E d \in Pushes : \E k \in DOMAIN srv[d].reports : srv[d].reports[k] = r
  PROVE  Legit(a) /\ Legit(r) /\ InTurn(a, r)
<1>1. PICK c \in Pushes : \E j \in DOMAIN srv[c].reports : srv[c].reports[j] = a
  OBVIOUS
<1>2. PICK j \in DOMAIN srv[c].reports : srv[c].reports[j] = a
  BY <1>1
<1>3. PICK d \in Pushes : \E k \in DOMAIN srv[d].reports : srv[d].reports[k] = r
  OBVIOUS
<1>4. PICK k \in DOMAIN srv[d].reports : srv[d].reports[k] = r
  BY <1>3
<1>5. <<c, j>> # <<d, k>>
  BY <1>2, <1>4
<1> QED
  BY <1>2, <1>4, <1>5 DEF IInv, Reporting

\* The trades a client is told of, for an order of its own, are no more than the
\* order has made.
LEMMA ToldBound ==
  ASSUME IInv, NEW c \in Pushes, cli[c].printed # <<>>, NEW news, news = Tail(cli[c].printed),
         NEW i \in OrderId, NEW a \in Accepted(c, i),
         NEW rem, rem = IF orders[i] = NoOrder THEN 0 ELSE orders[i].qty,
         NEW f, \A k \in DOMAIN news : f[k] = IF news[k].order = i THEN news[k].fill ELSE 0
  PROVE  SumFunctionOnSet(f, DOMAIN news) <= a.total - rem
<1>1. /\ news \in Seq(AnyReport)
      /\ \A k \in DOMAIN news : k \in DOMAIN Sent(c) /\ Sent(c)[k] = news[k] /\ news[k] \in AnyReport
  BY ONLY IInv, c \in Pushes, cli[c].printed # <<>>, news = Tail(cli[c].printed), NewsSent
<1>2. PICK n : n = Len(news)
  OBVIOUS
<1>3. n \in Nat /\ DOMAIN news = 1 .. n
  BY <1>1, <1>2, LenProperties
<1>4. i # 0 /\ a.order = i /\ a.stat = "ORDER_ACCEPT"
  BY DEF OrderId, Accepted
<1>5. \E j \in DOMAIN srv[c].reports : srv[c].reports[j] = a
  BY DEF Accepted, ToSet
<1>6. a \in AnyReport /\ Legit(a)
  <2>1. PICK j \in DOMAIN srv[c].reports : srv[c].reports[j] = a
    BY <1>5
  <2>2. srv[c].reports \in Seq(AnyReport)
    BY DEF IInv, TypeOK, Calls, ServerObject
  <2>3. a \in AnyReport
    BY <2>1, <2>2, LenProperties, ElementOfSeq
  <2> QED
    BY <2>1, <2>3 DEF IInv, Reporting
<1>7. /\ a.fill = 0 /\ a.total = a.leave /\ a.leave \in Nat
      /\ rem \in Nat /\ rem <= a.total
  <2>1. orders[i] = NoOrder \/ orders[i].qty \in Nat
    BY DEF IInv, TypeOK, Request
  <2> QED
    BY <1>4, <1>6, <2>1 DEF Legit, AnyReport
<1>8. ASSUME NEW k \in 1 .. n, f[k] > 0
      PROVE  /\ news[k].order = i /\ f[k] = news[k].fill
             /\ \E d \in Pushes : \E j \in DOMAIN srv[d].reports : srv[d].reports[j] = news[k]
  <2>1. PICK v : v = f[k] /\ v = IF news[k].order = i THEN news[k].fill ELSE 0
    BY <1>3
  <2>2. news[k].order = i /\ f[k] = news[k].fill
    <3>1. CASE news[k].order = i
      BY <2>1, <3>1
    <3>2. CASE news[k].order # i
      <4>1. f[k] = 0
        BY <2>1, <3>2
      <4> QED
        BY <1>8, <4>1
    <3> QED
      BY <3>1, <3>2
  <2>3. MeantFor(c, news[k])
    BY <1>1, <1>3 DEF IInv, Streaming
  <2> QED
    BY <1>4, <2>2, <2>3, ReportHeld
<1>9. PICK lo : lo = [k \in 1 .. n |-> news[k].leave]
  OBVIOUS
<1>10. ASSUME NEW k \in 1 .. n
       PROVE  /\ f[k] \in Nat /\ lo[k] \in Nat
              /\ f[k] > 0 => rem <= lo[k] /\ lo[k] + f[k] <= a.total
  <2>1. PICK r : r = news[k]
    OBVIOUS
  <2>2. r \in AnyReport /\ r.leave \in Nat /\ r.fill \in Nat /\ lo[k] = r.leave
    BY <1>1, <1>3, <1>9, <2>1 DEF AnyReport
  <2>3. f[k] \in Nat
    BY <1>3, <2>1, <2>2
  <2>4. ASSUME f[k] > 0
        PROVE  rem <= lo[k] /\ lo[k] + f[k] <= a.total
    <3>1. /\ r.order = i /\ f[k] = r.fill
          /\ \E d \in Pushes : \E j \in DOMAIN srv[d].reports : srv[d].reports[j] = r
      BY <1>8, <2>1, <2>4
    <3>2. a # r
      BY <1>7, <2>4, <3>1
    <3>3. Legit(r) /\ InTurn(a, r)
      BY <1>5, <3>1, <3>2, HeldInTurn
    <3>4. r.leave + r.fill <= a.leave
      BY <1>4, <1>7, <3>1, <3>3 DEF InTurn, Later
    <3>5. rem <= r.leave
      BY <1>4, <2>2, <3>1, <3>3 DEF Legit
    <3> QED
      BY <1>7, <2>2, <3>1, <3>4, <3>5
  <2> QED
    BY <2>2, <2>3, <2>4
<1>11. ASSUME NEW j \in 1 .. n, NEW k \in 1 .. n, j # k, f[j] > 0, f[k] > 0
       PROVE  lo[j] + f[j] <= lo[k] \/ lo[k] + f[k] <= lo[j]
  <2>1. PICK q, r : q = news[j] /\ r = news[k]
    OBVIOUS
  <2>2. /\ q.order = i /\ f[j] = q.fill /\ lo[j] = q.leave
        /\ \E d \in Pushes : \E p \in DOMAIN srv[d].reports : srv[d].reports[p] = q
    BY <1>8, <1>9, <1>11, <2>1
  <2>3. /\ r.order = i /\ f[k] = r.fill /\ lo[k] = r.leave
        /\ \E d \in Pushes : \E p \in DOMAIN srv[d].reports : srv[d].reports[p] = r
    BY <1>8, <1>9, <1>11, <2>1
  <2>4. q # r
    <3>1. j \in DOMAIN Sent(c) /\ Sent(c)[j] = q /\ k \in DOMAIN Sent(c) /\ Sent(c)[k] = r
      BY <1>1, <1>3, <2>1
    <3>2. r.order # 0
      BY <1>4, <2>3
    <3>3. Streaming(c)
      BY DEF IInv
    <3> QED
      BY <1>11, <3>1, <3>2, <3>3 DEF Streaming
  <2>5. InTurn(q, r)
    BY <2>2, <2>3, <2>4, HeldInTurn
  <2> QED
    BY <1>4, <2>2, <2>3, <2>5 DEF InTurn, Later
<1>12. PICK b : b = a.total
  OBVIOUS
<1>13. SumFunctionOnSet(f, 1 .. n) <= b - rem
  <2>1. b \in Nat /\ rem \in Nat /\ rem <= b
    BY <1>7, <1>12
  <2> QED
    BY <1>3, <1>10, <1>11, <1>12, <2>1, RunsFit
<1> QED
  BY <1>3, <1>12, <1>13

\* That is what the inductive invariant is for.
LEMMA IInvPrints == IInv => Printed
<1> SUFFICES ASSUME IInv, NEW c \in Pushes, cli[c].printed # <<>>, NEW news,
                    news = Tail(cli[c].printed)
             PROVE  /\ Head(cli[c].printed) = BlankReport
                    /\ \A k \in DOMAIN news :
                         IF news[k].order = 0 THEN news[k] \in ToSet(srv[c].reports)
                         ELSE Accepted(c, news[k].order) # {}
                    /\ \A j, k \in DOMAIN news :
                         j # k /\ news[j].order # 0 => news[j] # news[k]
                    /\ \A i \in OrderId : \A a \in Accepted(c, i) :
                         SumFunctionOnSet([k \in DOMAIN news |->
                             IF news[k].order = i THEN news[k].fill ELSE 0], DOMAIN news)
                           <= a.total - (IF orders[i] = NoOrder THEN 0 ELSE orders[i].qty)
  BY DEF Printed
<1>1. Head(cli[c].printed) = BlankReport
  BY DEF IInv, Printing
<1>2. \A k \in DOMAIN news : k \in DOMAIN Sent(c) /\ Sent(c)[k] = news[k] /\ news[k] \in AnyReport
  BY NewsSent
<1>3. ASSUME NEW k \in DOMAIN news
      PROVE  IF news[k].order = 0 THEN news[k] \in ToSet(srv[c].reports)
             ELSE Accepted(c, news[k].order) # {}
  <2>1. PICK r : r = news[k]
    OBVIOUS
  <2>2. MeantFor(c, r)
    BY <1>2, <2>1 DEF IInv, Streaming
  <2>3. CASE r.order = 0
    <3>1. PICK j \in 1 .. srv[c].next : srv[c].reports[j] = r
      BY <2>2, <2>3 DEF MeantFor
    <3>2. srv[c].reports \in Seq(AnyReport) /\ srv[c].next \in Nat /\ srv[c].next <= Len(srv[c].reports)
      BY DEF IInv, TypeOK, Calls, ServerObject
    <3>3. j \in DOMAIN srv[c].reports
      BY <3>2, LenProperties
    <3> QED
      BY <2>1, <2>3, <3>1, <3>3 DEF ToSet
  <2>4. CASE r.order # 0
    <3>1. PICK d \in Pushes : \E j \in DOMAIN srv[d].reports : srv[d].reports[j] = r
      BY <2>2, <2>4, ReportHeld
    <3>2. Legit(r)
      BY <3>1 DEF IInv, Reporting
    <3>3. r.order \in OrderId /\ ~(r.order > id)
      BY <2>4, <3>2 DEF Legit, OrderId, IInv, TypeOK
    <3>4. Accepted(responderOf[r.order], r.order) # {} /\ responderOf[r.order] = c
      BY <2>2, <2>4, <3>3 DEF IInv, Numbered, MeantFor
    <3> QED
      BY <2>1, <2>4, <3>4
  <2> QED
    BY <2>3, <2>4
<1>4. \A j, k \in DOMAIN news : j # k /\ news[j].order # 0 => news[j] # news[k]
  BY <1>2 DEF IInv, Streaming
<1>5. ASSUME NEW i \in OrderId, NEW a \in Accepted(c, i)
      PROVE  SumFunctionOnSet([k \in DOMAIN news |->
                 IF news[k].order = i THEN news[k].fill ELSE 0], DOMAIN news)
               <= a.total - (IF orders[i] = NoOrder THEN 0 ELSE orders[i].qty)
  <2>1. PICK f, rem : /\ f = [k \in DOMAIN news |-> IF news[k].order = i THEN news[k].fill ELSE 0]
                      /\ rem = IF orders[i] = NoOrder THEN 0 ELSE orders[i].qty
    OBVIOUS
  <2>2. SumFunctionOnSet(f, DOMAIN news) <= a.total - rem
    BY <2>1, ToldBound
  <2> QED
    BY <2>1, <2>2
<1> QED
  BY <1>1, <1>3, <1>4, <1>5

\* Whatever connections are lost and whichever calls write its reports, a client
\* prints after the blank report only what concerns its own file, nothing twice, and
\* no more trades of an order than there have been.
THEOREM FirstPrints == Spec => []Printed
<1> QED
  BY FirstInvariance, IInvPrints, PTL

\* Every variable of the first asynchronous version has its type.
THEOREM FirstTypes == Spec => []TypeOK
<1>1. IInv => TypeOK
  BY DEF IInv
<1> QED
  BY <1>1, FirstInvariance, PTL

=============================================================================
