------------------------- MODULE AsyncServerProofs -------------------------
(***************************************************************************)
(* Proofs about AsyncServer, for any number of calls, orders and clients   *)
(* and any request files: that IInv is inductive, and from it that the     *)
(* server always listens, that reports arrive once, in order and on the    *)
(* stream of the order they are about, that they add up, that none is      *)
(* given up while all clients are there, and when writes can overlap.      *)
(*                                                                         *)
(* ServerInv comes first, about the calls: OwnStep is for the steps of a   *)
(* call that has been accepted, AcceptStep for the step that accepts it    *)
(* and makes the next listener.  ReportInv, about the reports, rests on    *)
(* it: FrameStep is for the steps that make no report of a new-order call, *)
(* GrowStep for the two that do.                                           *)
(***************************************************************************)
EXTENDS AsyncServerInv, TradesProofs

-----------------------------------------------------------------------------
(* The reports of a call *)

\* How much the reports of a sequence say that has been filled of an order.
LEMMA FilledTypes ==
  ASSUME NEW s \in Seq(AnyReport), NEW x
  PROVE  /\ Len(s) \in Nat /\ DOMAIN s = 1 .. Len(s) /\ IsFiniteSet(DOMAIN s)
         /\ \A k \in DOMAIN s : s[k] \in AnyReport /\ s[k].fill \in Nat
         /\ FilledIn(s, x) \in Nat
<1>1. Len(s) \in Nat /\ DOMAIN s = 1 .. Len(s)
  BY LenProperties
<1>2. IsFiniteSet(DOMAIN s)
  BY <1>1, FS_Interval
<1>3. \A k \in DOMAIN s : s[k] \in AnyReport
  BY <1>1, ElementOfSeq
<1>4. \A k \in DOMAIN s : s[k].fill \in Nat
  BY <1>3 DEF AnyReport
<1>5. FilledIn(s, x) \in Nat
  <2> DEFINE f == [k \in DOMAIN s |-> IF s[k].order = x THEN s[k].fill ELSE 0]
  <2>1. FilledIn(s, x) = SumFunctionOnSet(f, DOMAIN s)
    BY DEF FilledIn
  <2>2. \A k \in DOMAIN s : f[k] \in Nat
    BY <1>4
  <2> HIDE DEF f
  <2> QED
    BY <1>2, <2>1, <2>2, SumNat
<1> QED
  BY <1>1, <1>2, <1>3, <1>4, <1>5

\* Reports one after the other add up.
LEMMA FilledConcat ==
  ASSUME NEW s \in Seq(AnyReport), NEW t \in Seq(AnyReport), NEW x
  PROVE  /\ s \o t \in Seq(AnyReport)
         /\ FilledIn(s \o t, x) = FilledIn(s, x) + FilledIn(t, x)
<1>1. PICK u : u = s \o t
  OBVIOUS
<1>2. /\ u \in Seq(AnyReport) /\ Len(u) = Len(s) + Len(t)
      /\ \A i \in 1 .. Len(s) : u[i] = s[i]
      /\ \A i \in 1 .. Len(t) : u[Len(s) + i] = t[i]
  <2>1. /\ u \in Seq(AnyReport) /\ Len(u) = Len(s) + Len(t)
        /\ \A i \in 1 .. Len(s) + Len(t) : u[i] = IF i <= Len(s) THEN s[i] ELSE t[i - Len(s)]
    BY <1>1, ConcatProperties
  <2>2. Len(s) \in Nat /\ Len(t) \in Nat
    BY LenProperties
  <2>3. \A i \in 1 .. Len(s) : u[i] = s[i]
    BY <2>1, <2>2
  <2>4. ASSUME NEW i \in 1 .. Len(t) PROVE u[Len(s) + i] = t[i]
    <3>1. PICK j : j = Len(s) + i
      OBVIOUS
    <3>2. j \in 1 .. Len(s) + Len(t) /\ ~(j <= Len(s)) /\ j - Len(s) = i
      BY <2>2, <3>1
    <3>3. u[j] = t[j - Len(s)]
      BY <2>1, <3>2
    <3> QED
      BY <3>1, <3>2, <3>3
  <2> QED
    BY <2>1, <2>3, <2>4
<1>3. /\ Len(s) \in Nat /\ DOMAIN s = 1 .. Len(s)
      /\ Len(t) \in Nat /\ DOMAIN t = 1 .. Len(t)
      /\ DOMAIN u = 1 .. Len(u) /\ \A k \in DOMAIN u : u[k].fill \in Nat
  BY <1>2, FilledTypes
<1> DEFINE f == [k \in DOMAIN u |-> IF u[k].order = x THEN u[k].fill ELSE 0]
           g == [k \in DOMAIN s |-> IF s[k].order = x THEN s[k].fill ELSE 0]
           h == [k \in DOMAIN t |-> IF t[k].order = x THEN t[k].fill ELSE 0]
           m == Len(s)
           n == Len(t)
<1>4. /\ FilledIn(u, x) = SumFunctionOnSet(f, 1 .. m + n)
      /\ FilledIn(s, x) = SumFunctionOnSet(g, 1 .. m)
      /\ FilledIn(t, x) = SumFunctionOnSet(h, 1 .. n)
  BY <1>2, <1>3 DEF FilledIn
<1>5. \A i \in 1 .. m + n : f[i] \in Nat
  BY <1>2, <1>3
<1>6. \A i \in 1 .. m : g[i] = f[i]
  <2>1. \A i \in 1 .. m : i \in DOMAIN u
    BY <1>2, <1>3
  <2> QED
    BY <1>2, <1>3, <2>1
<1>7. \A i \in 1 .. n : h[i] = f[m + i]
  <2>1. \A i \in 1 .. n : m + i \in DOMAIN u
    BY <1>2, <1>3
  <2> QED
    BY <1>2, <1>3, <2>1
<1>8. m \in Nat /\ n \in Nat
  BY <1>3
<1> HIDE DEF f, g, h, m, n
<1>9. SumFunctionOnSet(f, 1 .. m + n) = SumFunctionOnSet(g, 1 .. m) + SumFunctionOnSet(h, 1 .. n)
  BY <1>5, <1>6, <1>7, <1>8, SumConcat
<1> QED
  BY <1>1, <1>2, <1>4, <1>9

\* One report.
LEMMA FilledOne ==
  ASSUME NEW r \in AnyReport, NEW x
  PROVE  /\ <<r>> \in Seq(AnyReport)
         /\ r.order = x => FilledIn(<<r>>, x) = r.fill
         /\ r.order # x => FilledIn(<<r>>, x) = 0
<1> DEFINE f == [k \in DOMAIN <<r>> |-> IF <<r>>[k].order = x THEN <<r>>[k].fill ELSE 0]
<1>1. DOMAIN <<r>> = {1} /\ <<r>>[1] = r
  OBVIOUS
<1>2. FilledIn(<<r>>, x) = SumFunctionOnSet(f, {1})
  BY <1>1 DEF FilledIn
<1>3. f[1] = IF r.order = x THEN r.fill ELSE 0
  BY <1>1
<1>4. f[1] \in Nat
  BY <1>3 DEF AnyReport
<1> HIDE DEF f
<1>5. SumFunctionOnSet(f, {} \cup {1}) = SumFunctionOnSet(f, {}) + f[1]
  BY <1>4, FS_EmptySet, SumWith
<1>6. SumFunctionOnSet(f, {1}) = f[1]
  <2>1. {} \cup {1} = {1} /\ SumFunctionOnSet(f, {}) = 0
    BY SumEmpty
  <2> QED
    BY <1>4, <1>5, <2>1
<1> QED
  BY <1>2, <1>3, <1>6

\* Reports about other orders.
LEMMA FilledNone ==
  ASSUME NEW s \in Seq(AnyReport), NEW x, \A k \in DOMAIN s : s[k].order # x
  PROVE  FilledIn(s, x) = 0
<1> DEFINE f == [k \in DOMAIN s |-> IF s[k].order = x THEN s[k].fill ELSE 0]
<1>1. FilledIn(s, x) = SumFunctionOnSet(f, DOMAIN s) /\ IsFiniteSet(DOMAIN s)
  BY FilledTypes DEF FilledIn
<1>2. \A k \in DOMAIN s : f[k] = 0
  OBVIOUS
<1> HIDE DEF f
<1>3. SumFunctionOnSet(f, DOMAIN s) = 0
  BY <1>1, <1>2, SumZero
<1> QED
  BY <1>1, <1>3

\* The reports of the trades ts of order i, which is `o`.
TradeReports(tab, i, o, ts) ==
  FlattenSeq([k \in DOMAIN ts |-> Fills(tab, i, o, ts[k])])

\* The FILL reports there can be for order i and the orders `ids`.
FillReport(i, ids) == {r \in AnyReport : r.stat = "FILL" /\ r.order \in ids \cup {i}}

\* The two FILL reports of a trade.
LEMMA FillsFacts ==
  ASSUME NEW tab \in [OrderId -> Order \cup {NoOrder}], NEW o, o.qty \in Nat,
         NEW i \in OrderId, NEW ids \in SUBSET OrderId, \A j \in ids : tab[j] \in Order,
         NEW t \in Trade(tab, ids)
  PROVE  \E a, b \in FillReport(i, ids) :
           /\ Fills(tab, i, o, t) = <<a, b>>
           /\ a.order = i /\ a.fill = t.qty /\ b.order = t.with /\ b.fill = t.qty
<1>1. PICK a : a = Report("FILL", i, o.qty, t.qty, t.left)
  OBVIOUS
<1>2. PICK b : b = Report("FILL", t.with, tab[t.with].qty, t.qty, tab[t.with].qty - t.qty)
  OBVIOUS
<1>3. t.with \in ids /\ t.qty \in Nat /\ t.left \in Nat /\ t.qty <= tab[t.with].qty
  BY DEF Trade
<1>4. tab[t.with].qty \in Nat
  BY <1>3 DEF Order
<1>5. tab[t.with].qty - t.qty \in Nat
  BY <1>3, <1>4
<1>6. i \in Nat /\ t.with \in Nat
  <2>1. \A j \in OrderId : j \in Nat
    BY DEF OrderId
  <2> QED
    BY <1>3, <2>1
<1>7. a \in AnyReport /\ a.stat = "FILL" /\ a.order = i /\ a.fill = t.qty
  BY <1>1, <1>3, <1>6 DEF Report, AnyReport
<1>8. b \in AnyReport /\ b.stat = "FILL" /\ b.order = t.with /\ b.fill = t.qty
  <2>1. PICK q, w : q = tab[t.with].qty /\ w = tab[t.with].qty - t.qty
    OBVIOUS
  <2>2. b = Report("FILL", t.with, q, t.qty, w) /\ q \in Nat /\ w \in Nat
    BY <1>2, <1>4, <1>5, <2>1
  <2> QED
    BY <1>3, <1>6, <2>2 DEF Report, AnyReport
<1>9. Fills(tab, i, o, t) = <<a, b>>
  BY <1>1, <1>2 DEF Fills
<1>10. a \in FillReport(i, ids) /\ b \in FillReport(i, ids)
  BY <1>3, <1>7, <1>8 DEF FillReport
<1> QED
  BY <1>7, <1>8, <1>9, <1>10

\* The reports of no trade, of some, and of one more.
LEMMA TradeReportsFacts ==
  ASSUME NEW tab \in [OrderId -> Order \cup {NoOrder}], NEW o, o.qty \in Nat,
         NEW i \in OrderId, NEW ids \in SUBSET OrderId, \A j \in ids : tab[j] \in Order,
         NEW ts \in Seq(Trade(tab, ids))
  PROVE  /\ TradeReports(tab, i, o, <<>>) = <<>>
         /\ TradeReports(tab, i, o, ts) \in Seq(FillReport(i, ids))
         /\ \A t \in Trade(tab, ids) :
              TradeReports(tab, i, o, Append(ts, t))
                = TradeReports(tab, i, o, ts) \o Fills(tab, i, o, t)
<1>1. PICK S : S = FillReport(i, ids)
  OBVIOUS
<1>2. \A t \in Trade(tab, ids) : Fills(tab, i, o, t) \in Seq(S)
  <2> SUFFICES ASSUME NEW t \in Trade(tab, ids) PROVE Fills(tab, i, o, t) \in Seq(S)
    OBVIOUS
  <2>1. PICK a, b \in S : Fills(tab, i, o, t) = <<a, b>>
    BY <1>1, FillsFacts
  <2> QED
    BY <2>1
<1>3. PICK ss : ss = [k \in DOMAIN ts |-> Fills(tab, i, o, ts[k])]
  OBVIOUS
<1>4. Len(ts) \in Nat /\ DOMAIN ts = 1 .. Len(ts) /\ \A k \in 1 .. Len(ts) : ts[k] \in Trade(tab, ids)
  BY LenProperties, ElementOfSeq
<1>5. ss \in Seq(Seq(S)) /\ Len(ss) = Len(ts)
  <2>1. ss \in [1 .. Len(ts) -> Seq(S)]
    BY <1>2, <1>3, <1>4
  <2> QED
    BY <1>4, <2>1
<1>6. TradeReports(tab, i, o, <<>>) = <<>>
  <2>1. [k \in DOMAIN <<>> |-> Fills(tab, i, o, <<>>[k])] = <<>>
    OBVIOUS
  <2> QED
    BY <2>1 DEF TradeReports, FlattenSeq
<1>7. TradeReports(tab, i, o, ts) = FlattenSeq(ss)
  BY <1>3 DEF TradeReports
<1>8. ASSUME NEW t \in Trade(tab, ids)
      PROVE  TradeReports(tab, i, o, Append(ts, t)) = FlattenSeq(ss) \o Fills(tab, i, o, t)
  <2>1. PICK us, f : us = Append(ts, t) /\ f = Fills(tab, i, o, t)
    OBVIOUS
  <2>2. us \in Seq(Trade(tab, ids)) /\ Len(us) = Len(ts) + 1 /\ us[Len(ts) + 1] = t
        /\ \A k \in 1 .. Len(ts) : us[k] = ts[k]
    BY <2>1, AppendProperties
  <2>3. DOMAIN us = 1 .. Len(ts) + 1
    BY <2>2, LenProperties
  <2>4. Append(ss, f) \in Seq(Seq(S)) /\ Len(Append(ss, f)) = Len(ts) + 1
        /\ Append(ss, f)[Len(ts) + 1] = f
        /\ \A k \in 1 .. Len(ts) : Append(ss, f)[k] = ss[k]
    BY <1>2, <1>5, <2>1, AppendProperties
  <2>5. PICK vs : vs = [k \in DOMAIN us |-> Fills(tab, i, o, us[k])]
    OBVIOUS
  <2>6. vs = Append(ss, f)
    <3>1. PICK w, n : w = Append(ss, f) /\ n = Len(ts) + 1
      OBVIOUS
    <3>2. w = [k \in 1 .. n |-> w[k]]
      <4>1. w \in [1 .. Len(w) -> Seq(S)] /\ Len(w) = n
        BY <2>4, <3>1, LenProperties
      <4> QED
        BY <4>1
    <3>3. \A k \in 1 .. n : k \in 1 .. Len(ts) \/ k = n
      BY <1>4, <3>1
    <3>4. \A k \in 1 .. n : vs[k] = w[k]
      BY <1>3, <1>4, <2>1, <2>2, <2>3, <2>4, <2>5, <3>1, <3>3
    <3>5. vs = [k \in 1 .. n |-> vs[k]]
      BY <2>3, <2>5, <3>1
    <3> QED
      BY <3>1, <3>2, <3>4, <3>5
  <2>7. FlattenSeq(vs) = FlattenSeq(ss) \o f
    <3>1. f \in Seq(S)
      BY <1>2, <2>1
    <3> QED
      BY <1>5, <2>6, <3>1, FlattenAppend
  <2>8. TradeReports(tab, i, o, us) = FlattenSeq(vs)
    BY <2>5 DEF TradeReports
  <2> QED
    BY <2>1, <2>7, <2>8
<1>9. FlattenSeq(ss) \in Seq(S)
  BY <1>5, FlattenType
<1> QED
  BY <1>1, <1>6, <1>7, <1>8, <1>9

\* The FILL reports of outcome m say what has gone from `o`, which is order i, and
\* from each of the orders that are left; none is for an order past r.
Accounted(tab, i, o, ids, r, m) ==
  LET R == TradeReports(tab, i, o, m.trades)
  IN  /\ FilledIn(R, i) + m.left = o.qty
      /\ \A j \in ids : j > r => FilledIn(R, j) = 0
      /\ \A j \in ids : m.tab[j] # NoOrder => m.tab[j].qty + FilledIn(R, j) = tab[j].qty

\* So it is all the way through the matching loop.
LEMMA MatchedAccounted ==
  ASSUME NEW tab \in [OrderId -> Order \cup {NoOrder}], NEW o, o.qty \in Nat,
         NEW i \in OrderId, NEW ids \in SUBSET OrderId, \A j \in ids : tab[j] \in Order,
         i \notin ids
  PROVE  Accounted(tab, i, o, ids, MaxOrders, Matched(tab, o, ids))
<1>1. PICK H : UpTo(tab, o, ids, MaxOrders, H) /\ Matched(tab, o, ids) = H[MaxOrders]
  BY MatchedIs
<1>2. \A r \in 0 .. MaxOrders : IsOutcome(tab, o, ids, r, H[r])
  BY <1>1, OutcomeUpTo
<1>3. /\ H[0] = [tab |-> tab, left |-> o.qty, trades |-> <<>>]
      /\ \A r \in 1 .. MaxOrders : r \in ids => H[r] = Visit(o, H[r - 1], r)
      /\ \A r \in 1 .. MaxOrders : r \notin ids => H[r] = H[r - 1]
  BY <1>1, OrdersAssumption, UpToSteps
<1>4. PICK T : T = {r \in 0 .. MaxOrders : Accounted(tab, i, o, ids, r, H[r])}
  OBVIOUS
<1>5. 0 \in T
  <2>1. H[0].tab = tab /\ H[0].left = o.qty /\ H[0].trades = <<>>
    BY <1>3
  <2>2. TradeReports(tab, i, o, <<>>) = <<>>
    BY EmptySeq, TradeReportsFacts
  <2>3. \A x : FilledIn(<<>>, x) = 0
    <3>1. <<>> \in Seq(AnyReport) /\ DOMAIN <<>> = {}
      BY EmptySeq
    <3> QED
      BY <3>1, FilledNone
  <2>4. \A j \in ids : tab[j].qty \in Nat
    BY DEF Order
  <2>5. Accounted(tab, i, o, ids, 0, H[0])
    BY <2>1, <2>2, <2>3, <2>4 DEF Accounted
  <2> QED
    BY <1>4, <2>5, OrdersAssumption
<1>6. ASSUME NEW r \in 1 .. MaxOrders, r - 1 \in T
      PROVE  r \in T
  <2>1. PICK m, v : m = H[r - 1] /\ v = H[r]
    OBVIOUS
  <2>2. /\ Accounted(tab, i, o, ids, r - 1, m) /\ IsOutcome(tab, o, ids, r - 1, m)
        /\ r \in OrderId /\ r \in 0 .. MaxOrders
    BY <1>2, <1>4, <1>6, <2>1 DEF OrderId
  <2>3. \A j \in ids : j > r => j > r - 1 /\ j # r
    BY DEF OrderId
  <2>4. CASE v = m
    <3>1. Accounted(tab, i, o, ids, r, m)
      BY <2>2, <2>3 DEF Accounted
    <3> QED
      BY <1>4, <2>1, <2>2, <2>4, <3>1
  <2>5. CASE v # m
    <3>1. r \in ids /\ v = Visit(o, m, r)
      BY <1>3, <2>1, <2>5
    <3>2. PICK n, e, t : /\ n = Taken(o, m, r) /\ e = m.tab[r]
                         /\ t = [with |-> r, qty |-> n, left |-> v.left]
      OBVIOUS
    <3>3. e = tab[r] /\ e \in Order /\ e # NoOrder
      <4>1. r > r - 1
        OBVIOUS
      <4>2. m.tab[r] = tab[r]
        BY <2>2, <4>1 DEF IsOutcome
      <4> QED
        BY <3>1, <3>2, <4>2, OrdersAssumption
    <3>4. Visited(m, r, v, n)
      <4>1. m.tab \in [OrderId -> Order \cup {NoOrder}] /\ m.left \in Nat
        BY <2>2 DEF IsOutcome
      <4> QED
        BY <2>2, <3>1, <3>2, <3>3, <4>1, VisitFacts
    <3>5. /\ n \in Nat /\ n <= m.left /\ n <= e.qty /\ e.qty \in Nat
          /\ v.left = m.left - n /\ v.left \in Nat /\ m.left \in Nat
          /\ \A j \in OrderId : j # r => v.tab[j] = m.tab[j]
          /\ v.tab[r] # NoOrder => v.tab[r].qty = e.qty - n
          /\ v.trades = Append(m.trades, t)
      BY <2>2, <2>5, <3>2, <3>3, <3>4 DEF Visited, Order, IsOutcome
    <3>6. t \in Trade(tab, ids)
      BY <3>1, <3>2, <3>3, <3>5 DEF Trade
    <3>7. t.with = r /\ t.qty = n
      BY <3>2
    <3>8. PICK R, Q : R = TradeReports(tab, i, o, m.trades) /\ Q = TradeReports(tab, i, o, v.trades)
      OBVIOUS
    <3>9. m.trades \in Seq(Trade(tab, ids))
      BY <2>2 DEF IsOutcome
    <3>10. R \in Seq(FillReport(i, ids)) /\ Q = R \o Fills(tab, i, o, t)
      <4>1. v.trades = Append(m.trades, t)
        BY <3>5
      <4>2. PICK ts : ts = m.trades
        OBVIOUS
      <4>3. /\ TradeReports(tab, i, o, <<>>) = <<>>
            /\ TradeReports(tab, i, o, ts) \in Seq(FillReport(i, ids))
            /\ \A x \in Trade(tab, ids) :
                 TradeReports(tab, i, o, Append(ts, x))
                   = TradeReports(tab, i, o, ts) \o Fills(tab, i, o, x)
        BY <3>9, <4>2, TradeReportsFacts
      <4> QED
        BY <3>6, <3>8, <4>1, <4>2, <4>3
    <3>11. R \in Seq(AnyReport)
      <4>1. FillReport(i, ids) \subseteq AnyReport
        BY DEF FillReport
      <4> QED
        BY <3>10, <4>1
    <3>12. PICK a, b \in AnyReport : /\ Fills(tab, i, o, t) = <<a, b>>
                                     /\ a.order = i /\ a.fill = n /\ b.order = r /\ b.fill = n
      BY <3>6, <3>7, FillsFacts DEF FillReport
    <3>13. Q = R \o (<<a>> \o <<b>>)
      <4>1. <<a, b>> = <<a>> \o <<b>>
        <5>1. PICK p, q, u : p = <<a>> /\ q = <<b>> /\ u = p \o q
          OBVIOUS
        <5>2. /\ p \in Seq(AnyReport) /\ q \in Seq(AnyReport) /\ Len(p) = 1 /\ Len(q) = 1
              /\ p[1] = a /\ q[1] = b
          BY <5>1
        <5>3. /\ u \in Seq(AnyReport) /\ Len(u) = 2 /\ u[1] = a /\ u[2] = b
          BY <5>1, <5>2, ConcatProperties
        <5>4. u = <<a, b>>
          BY <5>3
        <5> QED
          BY <5>1, <5>4
      <4> QED
        BY <3>10, <3>12, <4>1
    <3>14. \A x : FilledIn(Q, x) = FilledIn(R, x) + (FilledIn(<<a>>, x) + FilledIn(<<b>>, x))
      <4>1. <<a>> \in Seq(AnyReport) /\ <<b>> \in Seq(AnyReport)
        OBVIOUS
      <4>2. /\ <<a>> \o <<b>> \in Seq(AnyReport)
            /\ \A x : FilledIn(<<a>> \o <<b>>, x) = FilledIn(<<a>>, x) + FilledIn(<<b>>, x)
        BY <4>1, FilledConcat
      <4>3. \A x : FilledIn(R \o (<<a>> \o <<b>>), x) = FilledIn(R, x) + FilledIn(<<a>> \o <<b>>, x)
        BY <3>11, <4>2, FilledConcat
      <4> QED
        BY <3>13, <4>2, <4>3
    <3>15. \A x : FilledIn(R, x) \in Nat
      BY <3>11, FilledTypes
    <3>16. i # r
      BY <3>1
    <3>17. FilledIn(Q, i) = FilledIn(R, i) + n
      <4>1. FilledIn(<<a>>, i) = n /\ FilledIn(<<b>>, i) = 0
        BY <3>12, <3>16, FilledOne
      <4> QED
        BY <3>5, <3>14, <3>15, <4>1
    <3>18. FilledIn(Q, r) = FilledIn(R, r) + n
      <4>1. FilledIn(<<a>>, r) = 0 /\ FilledIn(<<b>>, r) = n
        BY <3>12, <3>16, FilledOne
      <4> QED
        BY <3>5, <3>14, <3>15, <4>1
    <3>19. \A j \in ids : j # r => FilledIn(Q, j) = FilledIn(R, j)
      <4> SUFFICES ASSUME NEW j \in ids, j # r PROVE FilledIn(Q, j) = FilledIn(R, j)
        OBVIOUS
      <4>1. FilledIn(<<a>>, j) = 0 /\ FilledIn(<<b>>, j) = 0
        BY <3>12, FilledOne
      <4> QED
        BY <3>14, <3>15, <4>1
    <3>20. FilledIn(Q, i) + v.left = o.qty
      <4>1. FilledIn(R, i) + m.left = o.qty
        BY <2>2, <3>8 DEF Accounted
      <4> QED
        BY <3>5, <3>15, <3>17, <4>1
    <3>21. \A j \in ids : j > r => FilledIn(Q, j) = 0
      BY <2>2, <2>3, <3>8, <3>19 DEF Accounted
    <3>22. ASSUME NEW j \in ids, v.tab[j] # NoOrder
           PROVE  v.tab[j].qty + FilledIn(Q, j) = tab[j].qty
      <4>1. CASE j # r
        BY <2>2, <3>5, <3>8, <3>19, <3>22, <4>1 DEF Accounted
      <4>2. CASE j = r
        <5>1. FilledIn(R, r) = 0
          <6>1. r > r - 1
            OBVIOUS
          <6> QED
            BY <2>2, <3>1, <3>8, <6>1 DEF Accounted
        <5>2. FilledIn(Q, r) = n
          BY <3>5, <3>18, <5>1
        <5>3. v.tab[r].qty + n = e.qty
          BY <3>5, <3>22, <4>2
        <5> QED
          BY <3>3, <4>2, <5>2, <5>3
      <4> QED
        BY <4>1, <4>2
    <3>23. Accounted(tab, i, o, ids, r, v)
      BY <3>8, <3>20, <3>21, <3>22 DEF Accounted
    <3> QED
      BY <1>4, <2>1, <2>2, <3>23
  <2> QED
    BY <2>4, <2>5
<1>7. \A r \in 0 .. MaxOrders : r \in T
  BY <1>5, <1>6, OrdersAssumption, CountingSet
<1>8. MaxOrders \in T
  BY <1>7, OrdersAssumption
<1> QED
  BY <1>1, <1>4, <1>8

\* The reports of an accepted request, order i: the acceptance first, then a FILL for
\* each side of each trade; with what the table has left of an order afterwards, they
\* make up what it had before, and for order i, what was asked.
LEMMA OrderReportsFacts ==
  ASSUME NEW tab \in [OrderId -> Order \cup {NoOrder}], NEW o \in Order,
         NEW i \in OrderId, tab[i] = NoOrder,
         NEW new, new = OrderReports(tab, i, o), NEW s, s = Submitted(tab, i, o)
  PROVE  /\ new \in Seq(AnyReport) /\ 1 \in DOMAIN new
         /\ new[1].stat = "ORDER_ACCEPT" /\ new[1].order = i
         /\ new[1].total = o.qty /\ new[1].fill = 0
         /\ \A k \in DOMAIN new : k # 1 =>
              /\ new[k].stat = "FILL" /\ new[k].order \in OrderId
              /\ new[k].order = i \/ tab[new[k].order] # NoOrder
         /\ s \in [OrderId -> Order \cup {NoOrder}]
         /\ s[i] # NoOrder => s[i].qty + FilledIn(new, i) = o.qty
         /\ \A j \in OrderId : j # i /\ s[j] # NoOrder =>
              tab[j] # NoOrder /\ s[j].qty + FilledIn(new, j) = tab[j].qty
<1>1. PICK ids, m : ids = Candidates(tab, o) /\ m = Matched(tab, o, ids)
  OBVIOUS
<1>2. /\ ids \in SUBSET OrderId /\ i \notin ids /\ \A j \in ids : tab[j] \in Order
      /\ IsOutcome(tab, o, ids, MaxOrders, m)
      /\ s \in [OrderId -> Order \cup {NoOrder}]
      /\ \A j \in OrderId : j # i => s[j] = m.tab[j]
      /\ s[i] # NoOrder => s[i].qty = m.left
  BY <1>1, SubmittedFacts
<1>3. o.qty \in Nat
  BY DEF Order
<1>4. Accounted(tab, i, o, ids, MaxOrders, m)
  BY <1>1, <1>2, <1>3, MatchedAccounted
<1>5. PICK R : R = TradeReports(tab, i, o, m.trades)
  OBVIOUS
<1>6. R \in Seq(FillReport(i, ids))
  <2>1. PICK ts : ts = m.trades
    OBVIOUS
  <2>2. ts \in Seq(Trade(tab, ids))
    BY <1>2, <2>1 DEF IsOutcome
  <2>3. TradeReports(tab, i, o, ts) \in Seq(FillReport(i, ids))
    BY <1>2, <1>3, <2>2, TradeReportsFacts
  <2> QED
    BY <1>5, <2>1, <2>3
<1>7. R \in Seq(AnyReport)
  <2>1. FillReport(i, ids) \subseteq AnyReport
    BY DEF FillReport
  <2> QED
    BY <1>6, <2>1
<1>8. PICK a : a = Report("ORDER_ACCEPT", i, o.qty, 0, o.qty)
  OBVIOUS
<1>9. /\ a \in AnyReport /\ a.stat = "ORDER_ACCEPT" /\ a.order = i
      /\ a.total = o.qty /\ a.fill = 0
  <2>1. i \in Nat
    BY DEF OrderId
  <2> QED
    BY <1>3, <1>8, <2>1 DEF Report, AnyReport
<1>10. new = <<a>> \o R
  BY <1>1, <1>5, <1>8 DEF OrderReports, TradeReports
<1>11. <<a>> \in Seq(AnyReport) /\ Len(<<a>>) = 1 /\ <<a>>[1] = a
  BY <1>9
<1>12. /\ new \in Seq(AnyReport) /\ Len(new) = 1 + Len(R) /\ Len(R) \in Nat /\ new[1] = a
       /\ \A k \in 2 .. Len(new) : k - 1 \in 1 .. Len(R) /\ new[k] = R[k - 1]
  <2>1. PICK u : u = <<a>>
    OBVIOUS
  <2>2. u \in Seq(AnyReport) /\ Len(u) = 1 /\ u[1] = a
    BY <1>11, <2>1
  <2>3. Len(R) \in Nat
    BY <1>7, LenProperties
  <2>4. /\ new \in Seq(AnyReport) /\ Len(new) = 1 + Len(R)
        /\ \A k \in 1 .. 1 + Len(R) : new[k] = IF k <= 1 THEN u[k] ELSE R[k - 1]
    BY <1>7, <1>10, <2>1, <2>2, ConcatProperties
  <2> QED
    BY <2>2, <2>3, <2>4
<1>13. DOMAIN new = 1 .. Len(new)
  BY <1>12, LenProperties
<1>14. \A k \in 1 .. Len(R) : R[k] \in FillReport(i, ids)
  BY <1>6, ElementOfSeq
<1>15. \A k \in DOMAIN new : k # 1 => new[k].stat = "FILL" /\ new[k].order \in ids \cup {i}
  <2>1. \A k \in DOMAIN new : k # 1 => k \in 2 .. Len(new)
    BY <1>12, <1>13
  <2>2. \A k \in DOMAIN new : k # 1 => new[k] \in FillReport(i, ids)
    BY <1>12, <1>14, <2>1
  <2> QED
    BY <2>2 DEF FillReport
<1>16. \A x : FilledIn(new, x) = FilledIn(<<a>>, x) + FilledIn(R, x)
  <2>1. PICK u : u = <<a>>
    OBVIOUS
  <2>2. u \in Seq(AnyReport)
    BY <1>11, <2>1
  <2>3. \A x : FilledIn(u \o R, x) = FilledIn(u, x) + FilledIn(R, x)
    BY <1>7, <2>2, FilledConcat
  <2> QED
    BY <1>10, <2>1, <2>3
<1>17. \A x : FilledIn(<<a>>, x) = 0 /\ FilledIn(R, x) \in Nat
  BY <1>7, <1>9, FilledOne, FilledTypes
<1>18. \A x : FilledIn(new, x) = FilledIn(R, x)
  BY <1>16, <1>17
<1>19. s[i] # NoOrder => s[i].qty + FilledIn(new, i) = o.qty
  <2>1. FilledIn(R, i) + m.left = o.qty
    BY <1>4, <1>5 DEF Accounted
  <2>2. m.left \in Nat
    BY <1>2, <1>3 DEF IsOutcome
  <2> QED
    BY <1>2, <1>17, <1>18, <2>1, <2>2
<1>20. ASSUME NEW j \in OrderId, j # i, s[j] # NoOrder
       PROVE  tab[j] # NoOrder /\ s[j].qty + FilledIn(new, j) = tab[j].qty
  <2>1. s[j] = m.tab[j]
    BY <1>2, <1>20
  <2>2. CASE j \in ids
    <3>1. m.tab[j].qty + FilledIn(R, j) = tab[j].qty
      BY <1>4, <1>5, <1>20, <2>1, <2>2 DEF Accounted
    <3>2. tab[j] # NoOrder
      BY <1>2, <2>2, OrdersAssumption
    <3> QED
      BY <1>18, <2>1, <3>1, <3>2
  <2>3. CASE j \notin ids
    <3>1. m.tab[j] = tab[j]
      BY <1>2, <2>3 DEF IsOutcome
    <3>2. FilledIn(R, j) = 0
      <4>1. DOMAIN R = 1 .. Len(R)
        BY <1>7, LenProperties
      <4>2. \A k \in DOMAIN R : R[k].order # j
        BY <1>14, <1>20, <2>3, <4>1 DEF FillReport
      <4> QED
        BY <1>7, <4>2, FilledNone
    <3>3. tab[j].qty \in Nat
      BY <1>20, <2>1, <3>1 DEF Order
    <3> QED
      BY <1>18, <1>20, <2>1, <3>1, <3>2, <3>3
  <2> QED
    BY <2>2, <2>3
<1>21. \A k \in DOMAIN new : k # 1 =>
         /\ new[k].stat = "FILL" /\ new[k].order \in OrderId
         /\ new[k].order = i \/ tab[new[k].order] # NoOrder
  BY <1>2, <1>15, OrdersAssumption
<1>22. 1 \in DOMAIN new
  BY <1>12, <1>13
<1> QED
  BY <1>2, <1>9, <1>12, <1>19, <1>20, <1>21, <1>22

\* The market's operators are those of Trades: what the instance calls its own.
LEMMA MarketSubmitted ==
  ASSUME NEW tab, NEW i, NEW o
  PROVE  Market!Submitted(tab, i, o) = Submitted(tab, i, o)
BY Zenon DEF Market!Submitted, Market!Candidates, Market!Matched, Market!Visit, Market!Residue,
     Market!Compatible, Market!Least, Market!Opp, Market!Repriced, Market!OrderId,
     Submitted, Candidates, Matched, Visit, Residue, Compatible, Least, Opp, Repriced, OrderId

\* Submitting a request to the market.
LEMMA SubmitIs ==
  ASSUME NEW req, Market!Submit(req)
  PROVE  /\ CheckRequest(req) /\ id < MaxOrders /\ id' = id + 1
         /\ table' = Submitted(table, id + 1, req)
<1>1. /\ CheckRequest(req) /\ id < MaxOrders /\ id' = id + 1
  BY DEF Market!Submit, Market!CheckRequest, CheckRequest, Market!Side, Side, Market!Kind, Kind
<1>2. table' = Market!Submitted(table, id + 1, req)
  BY DEF Market!Submit
<1> QED
  BY <1>1, <1>2, MarketSubmitted

\* What a query takes of the market is a sequence of reports.
LEMMA SnapshotType ==
  ASSUME table \in [OrderId -> Order \cup {NoOrder}]
  PROVE  Snapshot \in Seq(AnyReport)
<1>1. PICK ss : ss = [i \in OrderId |->
        IF table[i] = NoOrder THEN <<>>
        ELSE <<Report("ORDER", i, table[i].qty, 0, table[i].qty)>>]
  OBVIOUS
<1>2. ASSUME NEW i \in OrderId
      PROVE  ss[i] \in Seq(AnyReport)
  <2>1. CASE table[i] = NoOrder
    BY <1>1, <2>1
  <2>2. CASE table[i] # NoOrder
    <3>1. PICK q : q = table[i].qty
      OBVIOUS
    <3>2. q \in Nat /\ i \in Nat
      BY <2>2, <3>1 DEF Order, OrderId
    <3>3. Report("ORDER", i, q, 0, q) \in AnyReport
      BY <3>2 DEF Report, AnyReport
    <3>4. ss[i] = <<Report("ORDER", i, q, 0, q)>>
      BY <1>1, <2>2, <3>1
    <3> QED
      BY <3>3, <3>4
  <2> QED
    BY <2>1, <2>2
<1>3. ss \in Seq(Seq(AnyReport))
  <2>1. ss \in [1 .. MaxOrders -> Seq(AnyReport)]
    BY <1>1, <1>2 DEF OrderId
  <2> QED
    BY <2>1, OrdersAssumption, SeqDef
<1>4. Snapshot = FlattenSeq(ss)
  BY <1>1, Zenon DEF Snapshot
<1> QED
  BY <1>3, <1>4, FlattenType

USE OrdersAssumption, CallsAssumption

-----------------------------------------------------------------------------
(* CallData objects *)

\* A CallData object is one when its fields change, and keeps the others.
LEMMA CallAlter ==
  ASSUME NEW o, IsCall(o),
         NEW op \in {"none", "request", "read", "write", "finish"},
         NEW e \in {"none", "ok", "fail"}
  PROVE  /\ IsCall([o EXCEPT !.op = op, !.event = "none"])
         /\ IsCall([o EXCEPT !.event = e])
         /\ IsCall([o EXCEPT !.created = TRUE])
         /\ IsCall([o EXCEPT !.writing = TRUE])
         /\ \A x : IsCall([o EXCEPT !.event = e, !.buf = x])
         /\ \A x : IsCall([o EXCEPT !.event = e, !.cancel = x])
         /\ \A x : IsCall([o EXCEPT !.reports = x])
         /\ \A x : \A n \in Nat : IsCall([o EXCEPT !.to = x, !.writing = TRUE, !.next = n])
         /\ \A x, y : \A n \in Nat : IsCall([o EXCEPT !.to = x, !.reports = y, !.next = n])
         /\ \A x : IsCall([o EXCEPT !.status = "FINISH", !.reports = x])
         /\ \A x : \A n \in Nat :
              IsCall([o EXCEPT !.status = "FINISH", !.reports = x, !.next = n])
<1>1. IsCall([o EXCEPT !.op = op, !.event = "none"])
  <2>1. IsCall([o EXCEPT !.op = op])
    BY DEF IsCall
  <2>2. IsCall([[o EXCEPT !.op = op] EXCEPT !.event = "none"])
    BY <2>1 DEF IsCall
  <2> QED
    BY <2>2
<1>2. IsCall([o EXCEPT !.event = e])
  BY DEF IsCall
<1>3. IsCall([o EXCEPT !.created = TRUE])
  BY DEF IsCall
<1>4. IsCall([o EXCEPT !.writing = TRUE])
  BY DEF IsCall
<1>5. \A x : IsCall([o EXCEPT !.event = e, !.buf = x])
  BY DEF IsCall
<1>6. \A x : IsCall([o EXCEPT !.event = e, !.cancel = x])
  BY DEF IsCall
<1>7. \A x : IsCall([o EXCEPT !.reports = x])
  BY DEF IsCall
<1>8. \A x : \A n \in Nat : IsCall([o EXCEPT !.to = x, !.writing = TRUE, !.next = n])
  BY DEF IsCall
<1>9. \A x, y : \A n \in Nat : IsCall([o EXCEPT !.to = x, !.reports = y, !.next = n])
  BY DEF IsCall
<1>10. \A x : IsCall([o EXCEPT !.status = "FINISH", !.reports = x])
  BY DEF IsCall
<1>11. \A x : \A n \in Nat :
         IsCall([o EXCEPT !.status = "FINISH", !.reports = x, !.next = n])
  BY DEF IsCall
<1> QED
  BY <1>1, <1>2, <1>3, <1>4, <1>5, <1>6, <1>7, <1>8, <1>9, <1>10, <1>11

\* A call after its event has been taken and operation op posted.
LEMMA ProceededFacts ==
  ASSUME Shape, NEW c \in Calls,
         NEW op \in {"none", "request", "read", "write", "finish"}
  PROVE  /\ IsCall(Proceeded(c, op))
         /\ Proceeded(c, op).op = op /\ Proceeded(c, op).event = "none"
         /\ Proceeded(c, op).kind = call[c].kind /\ Proceeded(c, op).status = call[c].status
         /\ Proceeded(c, op).created = call[c].created
         /\ Proceeded(c, op).writing = call[c].writing
         /\ Proceeded(c, op).reports = call[c].reports
         /\ Proceeded(c, op).next = call[c].next
         /\ Proceeded(c, op).to = call[c].to
         /\ Proceeded(c, op).buf = call[c].buf /\ Proceeded(c, op).cancel = call[c].cancel
<1>1. IsCall(call[c])
  BY DEF Shape
<1>2. IsCall(Proceeded(c, op))
  BY <1>1, CallAlter DEF Proceeded
<1> QED
  BY <1>1, <1>2 DEF Proceeded, IsCall

\* What a query does next, whatever its snapshot.
LEMMA QueryFacts ==
  ASSUME Shape, NEW c \in Calls, NEW s, NEW k, k = call[c].next,
         call[c].status = "PROCESS", NEW n, n = QueryStep(c, s, k)
  PROVE  /\ IsCall(n) /\ n.event = "none" /\ n.kind = call[c].kind
         /\ n.created = call[c].created
         /\ n.op \in {"write", "finish"} /\ (n.status = "FINISH" <=> n.op = "finish")
         /\ n.next \in Nat /\ n.next >= k
         /\ n.op = "write" => n.next > k /\ n.next > 0
<1>1. k \in Nat
  BY DEF Shape, IsCall
<1>2. CASE k >= Len(s)
  <2>1. PICK p : p = Proceeded(c, "finish")
    OBVIOUS
  <2>2. n = [p EXCEPT !.status = "FINISH", !.reports = s]
    BY <1>2, <2>1 DEF QueryStep
  <2>3. /\ IsCall(p) /\ p.op = "finish" /\ p.event = "none" /\ p.kind = call[c].kind
        /\ p.created = call[c].created /\ p.next = k
    BY <2>1, ProceededFacts
  <2>4. IsCall(n)
    <3>1. \A x : IsCall([p EXCEPT !.status = "FINISH", !.reports = x])
      BY <2>3, CallAlter
    <3> QED
      BY <2>2, <3>1
  <2>5. /\ n.op = "finish" /\ n.event = "none" /\ n.kind = call[c].kind
        /\ n.created = call[c].created /\ n.next = k /\ n.status = "FINISH"
    BY <2>2, <2>3 DEF IsCall
  <2> QED
    BY <1>1, <2>4, <2>5
<1>3. CASE ~(k >= Len(s))
  <2>1. PICK p : p = Proceeded(c, "write")
    OBVIOUS
  <2>2. n = [p EXCEPT !.to = c, !.reports = s, !.next = k + 1]
    BY <1>3, <2>1 DEF QueryStep
  <2>3. /\ IsCall(p) /\ p.op = "write" /\ p.event = "none" /\ p.kind = call[c].kind
        /\ p.created = call[c].created /\ p.next = k /\ p.status = "PROCESS"
    BY <2>1, ProceededFacts
  <2>4. IsCall(n)
    <3>1. \A x, y : \A i \in Nat : IsCall([p EXCEPT !.to = x, !.reports = y, !.next = i])
      BY <2>3, CallAlter
    <3>2. k + 1 \in Nat
      BY <1>1
    <3>3. IsCall([p EXCEPT !.to = c, !.reports = s, !.next = k + 1])
      BY <3>1, <3>2
    <3> QED
      BY <2>2, <3>3
  <2>5. /\ n.op = "write" /\ n.event = "none" /\ n.kind = call[c].kind
        /\ n.created = call[c].created /\ n.next = k + 1 /\ n.status = "PROCESS"
    BY <2>2, <2>3 DEF IsCall
  <2> QED
    BY <1>1, <2>4, <2>5
<1> QED
  BY <1>2, <1>3

\* The objects the constructors make, and the one that is gone.
LEMMA MadeFacts ==
  /\ \A k \in CallKind :
       /\ IsCall(Listener(k)) /\ Listener(k).kind = k /\ Listener(k).op = "request"
       /\ Listener(k).event = "none" /\ Listener(k).next = 0
       /\ ~Listener(k).created /\ ~Listener(k).writing /\ Listener(k).status = "PROCESS"
  /\ IsCall(Absent) /\ Absent.kind = "none" /\ Absent.op = "none" /\ Absent.event = "none"
  /\ Absent.next = 0 /\ Absent.reports = <<>>
  /\ ~Absent.created /\ ~Absent.writing /\ Absent.status = "PROCESS"
<1>1. ASSUME NEW k \in CallKind
      PROVE  /\ IsCall(Listener(k)) /\ Listener(k).kind = k /\ Listener(k).op = "request"
             /\ Listener(k).event = "none" /\ Listener(k).next = 0
             /\ ~Listener(k).created /\ ~Listener(k).writing
             /\ Listener(k).status = "PROCESS"
  BY DEF Listener, CallData, IsCall, CallKind
<1>2. /\ IsCall(Absent) /\ Absent.kind = "none" /\ Absent.op = "none" /\ Absent.event = "none"
      /\ Absent.next = 0 /\ Absent.reports = <<>>
      /\ ~Absent.created /\ ~Absent.writing /\ Absent.status = "PROCESS"
  BY DEF Absent, CallData, IsCall
<1> QED
  BY <1>1, <1>2

\* What is known of what a client has received.
LEMMA ReceivedFacts ==
  ASSUME Shape, NEW d \in Calls
  PROVE  /\ received[d] \in Seq(Calls \X (Nat \ {0})) /\ Len(received[d]) \in Nat
         /\ DOMAIN received[d] = 1 .. Len(received[d])
         /\ \A a \in DOMAIN received[d] :
              received[d][a][1] \in Calls /\ received[d][a][2] \in Nat /\ received[d][a][2] > 0
<1>1. received[d] \in Seq(Calls \X (Nat \ {0}))
  BY DEF Shape
<1>2. \A a \in DOMAIN received[d] : received[d][a] \in Calls \X (Nat \ {0})
  BY <1>1, ElementOfSeq, LenProperties
<1> QED
  BY <1>1, <1>2, LenProperties

-----------------------------------------------------------------------------
(* Steps about one call *)

\* A step of an accepted call that delivers at most a report of its own.
LEMMA OwnStep ==
  ASSUME ServerInv, NEW c \in Calls, NEW n, IsCall(n),
         call' = [call EXCEPT ![c] = n],
         UNCHANGED <<started, joining, made, peer>>,
         received' \in [Calls -> Seq(Calls \X (Nat \ {0}))],
         \A d \in Calls : \A a \in DOMAIN received'[d] :
           \/ received'[d][a][1] = c
           \/ a \in DOMAIN received[d] /\ received'[d][a] = received[d][a],
         call[c].kind # "none", call[c].op # "request", n.op # "request",
         CallInv(c)', InOrder'
  PROVE  ServerInv'
<1>1. /\ Shape /\ call'[c] = n /\ call' = [d \in Calls |-> call'[d]]
      /\ \A d \in Calls \ {c} : call'[d] = call[d]
  BY DEF ServerInv, Shape
<1>2. Shape'
  BY <1>1 DEF Shape
<1>3. c <= made
  BY DEF ServerInv, Fresh, Shape, Calls
<1>4. \A d \in Calls \ {c} : Reached(d)' => Reached(d)
  BY DEF Reached
<1>5. Fresh'
  <2>1. \A d \in Calls : d > made => d # c
    BY <1>3 DEF Calls, ServerInv, Shape
  <2> QED
    BY <1>1, <1>4, <2>1 DEF ServerInv, Fresh
<1>6. Clients'
  BY <1>1 DEF ServerInv, Clients, Listens
<1>7. Listening'
  <2>1. \A k : \A d \in Calls : call'[d].kind = k /\ call'[d].op = "request"
                            <=> call[d].kind = k /\ call[d].op = "request"
    BY <1>1
  <2>2. SUFFICES ASSUME started = 1, NEW k \in CallKind
                 PROVE  \E l \in Calls : \A d \in Calls :
                          call'[d].kind = k /\ call'[d].op = "request" <=> d = l
    BY DEF Listening
  <2>3. PICK l \in Calls : \A d \in Calls : call[d].kind = k /\ call[d].op = "request" <=> d = l
    BY <2>2 DEF ServerInv, Listening
  <2>4. \A d \in Calls : call'[d].kind = k /\ call'[d].op = "request" <=> d = l
    BY <2>1, <2>3
  <2> QED
    BY <2>4
<1>8. Room'
  BY DEF ServerInv, Room, Connected
<1>9. ASSUME NEW d \in Calls \ {c} PROVE CallInv(d)'
  <2>1. CallInv(d)
    BY DEF ServerInv
  <2>2. Phase(d)' /\ Counted(d)'
    BY <1>1, <2>1 DEF CallInv, Phase, Counted
  <2>3. Delivered(d)'
    <3>1. call'[d] = call[d] /\ Delivered(d)
      BY <1>1, <2>1 DEF CallInv
    <3>2. SUFFICES ASSUME call[d].kind # "none", NEW e \in Calls, NEW a \in DOMAIN received'[e],
                          received'[e][a][1] = d
                   PROVE  /\ received'[e][a][2] <= call[d].next
                          /\ call[d].event = "none"
                               /\ (call[d].op = "write" \/ call[d].kind = "cancel") =>
                             received'[e][a][2] < call[d].next
      BY <3>1 DEF Delivered
    <3>3. a \in DOMAIN received[e] /\ received'[e][a] = received[e][a]
      BY <3>2
    <3> QED
      BY <3>1, <3>2, <3>3 DEF Delivered
  <2>4. Stopped(d)'
    BY <1>1, <2>1 DEF CallInv, Stopped, ToGone
  <2> QED
    BY <2>2, <2>3, <2>4 DEF CallInv
<1> QED
  BY <1>2, <1>5, <1>6, <1>7, <1>8, <1>9 DEF ServerInv

\* A set grows by at most one with an element.
LEMMA OneMore ==
  ASSUME NEW S, IsFiniteSet(S), NEW x
  PROVE  /\ IsFiniteSet(S \cup {x})
         /\ Cardinality(S) \in Nat /\ Cardinality(S \cup {x}) \in Nat
         /\ Cardinality(S \cup {x}) <= Cardinality(S) + 1
<1>1. /\ IsFiniteSet(S \cup {x})
      /\ Cardinality(S) \in Nat /\ Cardinality(S \cup {x}) \in Nat
  BY FS_AddElement, FS_CardinalityType
<1>2. Cardinality(S \cup {x}) = IF x \in S THEN Cardinality(S) ELSE Cardinality(S) + 1
  BY FS_AddElement
<1>3. CASE x \in S
  BY <1>1, <1>2, <1>3
<1>4. CASE x \notin S
  BY <1>1, <1>2, <1>4
<1> QED
  BY <1>3, <1>4

\* While a call waits to be accepted, there is room for another listener: all the
\* calls made, but for at most two that listen, have a client.
LEMMA RoomForListener ==
  ASSUME ServerInv, NEW c \in Calls, call[c].op = "request", call[c].event # "none"
  PROVE  started = 1 /\ made >= 3 /\ made + 1 \in Calls
<1>1. /\ Shape /\ IsCall(call[c]) /\ Phase(c) /\ made \in Nat /\ MaxCalls \in Nat
      /\ \A d \in Calls : IsCall(call[d]) /\ Phase(d)
  BY DEF ServerInv, Shape, CallInv
<1>2. call[c].kind \in CallKind
  BY <1>1 DEF Phase, IsCall
<1>3. c <= made
  BY <1>1, <1>2 DEF ServerInv, Fresh, Calls, CallKind
<1>4. started = 1 /\ made >= 3
  BY <1>1, <1>3 DEF Shape, Calls
<1>5. peer[c] # "none" /\ c \in Connected
  BY <1>3 DEF ServerInv, Clients, Listens, Connected
<1>6. PICK k1, k2 \in CallKind : CallKind = {k1, k2, call[c].kind}
  <2>1. CASE call[c].kind = "new"
    BY <2>1 DEF CallKind
  <2>2. CASE call[c].kind = "cancel"
    BY <2>2 DEF CallKind
  <2>3. CASE call[c].kind = "query"
    BY <2>3 DEF CallKind
  <2> QED
    BY <1>2, <2>1, <2>2, <2>3 DEF CallKind
<1>7. PICK l1 \in Calls : \A d \in Calls : call[d].kind = k1 /\ call[d].op = "request" <=> d = l1
  BY <1>4 DEF ServerInv, Listening
<1>8. PICK l2 \in Calls : \A d \in Calls : call[d].kind = k2 /\ call[d].op = "request" <=> d = l2
  BY <1>4 DEF ServerInv, Listening
<1>9. PICK l \in Calls :
        \A d \in Calls : call[d].kind = call[c].kind /\ call[d].op = "request" <=> d = l
  BY <1>2, <1>4 DEF ServerInv, Listening
<1>10. ASSUME NEW d \in 1 .. made PROVE d \in Connected \cup {l1, l2}
  <2>1. d \in Calls /\ d <= made
    BY <1>1 DEF Calls, Shape
  <2>2. CASE peer[d] # "none"
    BY <2>1, <2>2 DEF Connected
  <2>3. CASE peer[d] = "none"
    <3>1. call[d].op = "request" /\ call[d].event = "none"
      BY <2>1, <2>3 DEF ServerInv, Clients, Listens
    <3>2. call[d].kind \in CallKind
      BY <1>1, <2>1, <3>1 DEF Phase, IsCall
    <3>3. call[d].kind # call[c].kind
      BY <1>9, <2>1, <3>1
    <3> QED
      BY <1>6, <1>7, <1>8, <2>1, <3>1, <3>2, <3>3
  <2> QED
    BY <2>2, <2>3
<1>11. IsFiniteSet(Connected) /\ Cardinality(Connected) \in Nat
  <2>1. IsFiniteSet(Calls) /\ Connected \in SUBSET Calls
    BY <1>1, FS_Interval DEF Calls, Connected
  <2> QED
    BY <2>1, FS_Subset, FS_CardinalityType
<1>12. /\ IsFiniteSet(Connected \cup {l1, l2})
       /\ Cardinality(Connected \cup {l1, l2}) <= Cardinality(Connected) + 2
  <2>1. /\ IsFiniteSet(Connected \cup {l1})
        /\ Cardinality(Connected \cup {l1}) \in Nat
        /\ Cardinality(Connected \cup {l1}) <= Cardinality(Connected) + 1
    BY <1>11, OneMore
  <2>2. /\ IsFiniteSet((Connected \cup {l1}) \cup {l2})
        /\ Cardinality((Connected \cup {l1}) \cup {l2}) <= Cardinality(Connected \cup {l1}) + 1
        /\ Cardinality((Connected \cup {l1}) \cup {l2}) \in Nat
    BY <2>1, OneMore
  <2>3. (Connected \cup {l1}) \cup {l2} = Connected \cup {l1, l2}
    OBVIOUS
  <2>4. Cardinality((Connected \cup {l1}) \cup {l2}) <= Cardinality(Connected) + 2
    BY <1>11, <2>1, <2>2
  <2> QED
    BY <2>2, <2>3, <2>4
<1>13. Cardinality(1 .. made) = made
  <2>1. \A a, b \in Int : Cardinality(a .. b) = IF a > b THEN 0 ELSE b - a + 1
    BY FS_Interval
  <2>2. Cardinality(1 .. made) = made - 1 + 1
    BY <1>1, <1>4, <2>1
  <2> QED
    BY <1>1, <2>2
<1>14. made <= Cardinality(Connected \cup {l1, l2})
  <2>1. (1 .. made) \in SUBSET (Connected \cup {l1, l2})
    BY <1>10
  <2>2. Cardinality(1 .. made) <= Cardinality(Connected \cup {l1, l2})
    BY <1>12, <2>1, FS_Subset
  <2> QED
    BY <1>13, <2>2
<1>15. Cardinality(Connected) + 3 <= MaxCalls
  BY <1>5 DEF ServerInv, Room
<1>16. Cardinality(Connected \cup {l1, l2}) \in Nat
  BY <1>12, FS_CardinalityType
<1>17. made + 1 <= MaxCalls
  BY <1>1, <1>11, <1>12, <1>14, <1>15, <1>16
<1> QED
  BY <1>1, <1>4, <1>17 DEF Calls

\* The call that is accepted is not where the new listener goes.
LEMMA AcceptedCall ==
  ASSUME ServerInv, NEW c \in Calls, call[c].op = "request", call[c].event # "none",
         NEW n, call' = WithListener(c, n)
  PROVE  call'[c] = n
<1>1. Shape /\ Phase(c) /\ c <= made /\ c # made + 1
  BY DEF ServerInv, Fresh, Shape, Calls, CallInv, Phase
<1> QED
  BY <1>1 DEF Shape, WithListener

\* The step that accepts a call and makes the next listener of its kind.
LEMMA AcceptStep ==
  ASSUME ServerInv, NEW c \in Calls, NEW n, IsCall(n),
         call[c].op = "request", call[c].event # "none",
         n.kind = call[c].kind, n.op # "request",
         call' = WithListener(c, n), made' = made + 1,
         UNCHANGED <<started, joining, peer, received>>,
         CallInv(c)'
  PROVE  ServerInv'
<1>1. /\ started = 1 /\ made >= 3 /\ made + 1 \in Calls
      /\ Shape /\ made \in Nat /\ Phase(c) /\ IsCall(call[c])
  BY RoomForListener DEF ServerInv, Shape, CallInv
<1>2. n.kind \in CallKind
  BY <1>1 DEF Phase, IsCall
<1>3. c <= made /\ c # made + 1
  BY <1>1, <1>2 DEF ServerInv, Fresh, Calls, CallKind
<1>4. PICK m \in Calls : m = made + 1
  BY <1>1
<1>5. PICK l : l = Listener(n.kind)
  OBVIOUS
<1>6. /\ IsCall(l) /\ l.kind = n.kind /\ l.op = "request" /\ l.event = "none" /\ l.next = 0
      /\ ~l.created /\ ~l.writing /\ l.status = "PROCESS"
  BY <1>2, <1>5, MadeFacts
<1>7. /\ call' = [d \in Calls |-> call'[d]] /\ call'[c] = n /\ call'[m] = l
      /\ \A d \in Calls \ {c, m} : call'[d] = call[d]
  BY <1>1, <1>3, <1>4, <1>5 DEF Shape, WithListener
<1>8. Shape'
  <2>1. \A d \in Calls : IsCall(call'[d])
    BY <1>1, <1>6, <1>7 DEF Shape
  <2>2. made' \in 0 .. MaxCalls /\ made' >= 3
    BY <1>1 DEF Calls
  <2> QED
    BY <1>1, <1>7, <2>1, <2>2 DEF Shape
<1>9. call[m].kind = "none" /\ peer[m] = "none" /\ ~Reached(m) /\ call[m].op = "none"
  BY <1>1, <1>4 DEF ServerInv, Fresh, CallInv, Phase
<1>10. Fresh'
  <2>1. \A d \in Calls : d > made' => d # c /\ d # m /\ d > made
    BY <1>1, <1>3, <1>4 DEF Calls
  <2>2. \A d \in Calls : Reached(d)' <=> Reached(d)
    BY DEF Reached
  <2> QED
    BY <1>7, <2>1, <2>2 DEF ServerInv, Fresh
<1>11. Clients'
  <2>1. \A d \in Calls : d <= made' => d <= made \/ d = m
    BY <1>1, <1>4 DEF Calls
  <2>2. peer[c] # "none"
    BY <1>3 DEF ServerInv, Clients, Listens
  <2> QED
    BY <1>6, <1>7, <1>9, <2>1, <2>2 DEF ServerInv, Clients, Listens
<1>12. Listening'
  <2>1. SUFFICES ASSUME NEW k \in CallKind
                 PROVE  \E x \in Calls : \A d \in Calls :
                          call'[d].kind = k /\ call'[d].op = "request" <=> d = x
    BY DEF Listening
  <2>2. PICK x \in Calls : \A d \in Calls : call[d].kind = k /\ call[d].op = "request" <=> d = x
    BY <1>1 DEF ServerInv, Listening
  <2>3. CASE k = n.kind
    <3>1. x = c
      BY <2>2, <2>3
    <3>2. \A d \in Calls : call'[d].kind = k /\ call'[d].op = "request" <=> d = m
      BY <1>3, <1>4, <1>6, <1>7, <2>2, <2>3, <3>1
    <3> QED
      BY <3>2
  <2>4. CASE k # n.kind
    <3>1. x # c /\ x # m
      BY <1>9, <2>2, <2>4
    <3>2. \A d \in Calls : call'[d].kind = k /\ call'[d].op = "request" <=> d = x
      BY <1>6, <1>7, <2>2, <2>4, <3>1
    <3> QED
      BY <3>2
  <2> QED
    BY <2>3, <2>4
<1>13. Room' /\ InOrder'
  BY DEF ServerInv, Room, Connected, InOrder
<1>14. CallInv(m)'
  <2>1. Phase(m)'
    BY <1>2, <1>6, <1>7 DEF Phase, CallKind
  <2>2. Delivered(m)'
    BY <1>9 DEF Delivered, Reached
  <2>3. Counted(m)' /\ Stopped(m)'
    BY <1>6, <1>7 DEF Counted, Stopped
  <2> QED
    BY <2>1, <2>2, <2>3 DEF CallInv
<1>15. ASSUME NEW d \in Calls \ {c, m} PROVE CallInv(d)'
  <2>1. CallInv(d)
    BY DEF ServerInv
  <2>2. Phase(d)' /\ Counted(d)' /\ Delivered(d)' /\ Stopped(d)'
    BY <1>7, <2>1 DEF CallInv, Phase, Counted, Delivered, Stopped, ToGone
  <2> QED
    BY <2>2 DEF CallInv
<1> QED
  BY <1>8, <1>10, <1>11, <1>12, <1>13, <1>14, <1>15 DEF ServerInv

-----------------------------------------------------------------------------
(* Run, gRPC and the clients *)

\* A step that touches none of it, as the abort is.
LEMMA QuietStep ==
  ASSUME ServerInv, UNCHANGED <<started, joining, made, call, peer, received>>
  PROVE  ServerInv'
<1>1. Shape' /\ Fresh' /\ Clients' /\ Listening' /\ Room' /\ InOrder'
  BY DEF ServerInv, Shape, Fresh, Reached, Clients, Listens, Listening, Room, Connected, InOrder
<1>2. ASSUME NEW c \in Calls PROVE CallInv(c)'
  BY DEF ServerInv, CallInv, Phase, Delivered, Counted, Stopped, ToGone
<1> QED
  BY <1>1, <1>2 DEF ServerInv

\* The handler thread starts with three listeners, and no other thread ever does.
LEMMA StartStep ==
  ASSUME ServerInv, StartHandler
  PROVE  ServerInv'
<1>1. /\ Shape /\ started = 0 /\ made = 0 /\ started' = 1 /\ joining' = TRUE /\ made' = 3
      /\ 3 <= MaxCalls /\ UNCHANGED <<peer, received>>
  <2>1. Shape /\ started = 0 /\ made = 0
    BY DEF StartHandler, ServerInv, Shape
  <2> QED
    BY <2>1 DEF StartHandler, clients
<1>2. PICK l1 : l1 = Listener("new")
  OBVIOUS
<1>3. PICK l2 : l2 = Listener("cancel")
  OBVIOUS
<1>4. PICK l3 : l3 = Listener("query")
  OBVIOUS
<1>5. /\ l1.kind = "new" /\ l2.kind = "cancel" /\ l3.kind = "query"
      /\ \A l \in {l1, l2, l3} :
           /\ IsCall(l) /\ l.op = "request" /\ l.event = "none" /\ l.next = 0
           /\ ~l.created /\ ~l.writing /\ l.status = "PROCESS"
  BY <1>2, <1>3, <1>4, MadeFacts DEF CallKind
<1>6. /\ call' = [call EXCEPT ![1] = l1, ![2] = l2, ![3] = l3]
      /\ 1 \in Calls /\ 2 \in Calls /\ 3 \in Calls
  BY <1>1, <1>2, <1>3, <1>4 DEF StartHandler, Calls
<1>7. /\ call' = [d \in Calls |-> call'[d]] /\ call'[1] = l1 /\ call'[2] = l2 /\ call'[3] = l3
      /\ \A d \in Calls \ {1, 2, 3} : call'[d] = call[d]
  <2>1. call = [d \in Calls |-> call[d]]
    BY <1>1 DEF Shape
  <2>2. PICK f : f = [call EXCEPT ![1] = l1]
    OBVIOUS
  <2>3. /\ f = [d \in Calls |-> f[d]] /\ f[1] = l1
        /\ \A d \in Calls \ {1} : f[d] = call[d]
    BY <1>6, <2>1, <2>2
  <2>4. PICK g : g = [f EXCEPT ![2] = l2]
    OBVIOUS
  <2>5. /\ g = [d \in Calls |-> g[d]] /\ g[2] = l2
        /\ \A d \in Calls \ {2} : g[d] = f[d]
    BY <1>6, <2>3, <2>4
  <2>6. call' = [g EXCEPT ![3] = l3]
    BY <1>6, <2>2, <2>4
  <2>7. /\ call' = [d \in Calls |-> call'[d]] /\ call'[3] = l3
        /\ \A d \in Calls \ {3} : call'[d] = g[d]
    BY <1>6, <2>5, <2>6
  <2>8. call'[1] = l1
    <3>1. 1 \in Calls \ {2} /\ 1 \in Calls \ {3}
      BY <1>6
    <3>2. g[1] = f[1] /\ call'[1] = g[1]
      BY <2>5, <2>7, <3>1
    <3> QED
      BY <2>3, <3>2
  <2>9. call'[2] = l2
    <3>1. 2 \in Calls \ {3}
      BY <1>6
    <3>2. call'[2] = g[2]
      BY <2>7, <3>1
    <3> QED
      BY <2>5, <3>2
  <2>10. \A d \in Calls \ {1, 2, 3} : call'[d] = call[d]
    BY <2>3, <2>5, <2>7
  <2> QED
    BY <2>7, <2>8, <2>9, <2>10
<1>8. \A d \in Calls : call[d].kind = "none" /\ call[d].op = "none" /\ peer[d] = "none" /\ ~Reached(d)
  <2>1. ASSUME NEW d \in Calls PROVE d > made /\ Phase(d)
    BY <1>1 DEF Calls, ServerInv, CallInv
  <2> QED
    BY <2>1 DEF ServerInv, Fresh, Phase
<1>9. Shape'
  <2>1. \A d \in Calls : IsCall(call'[d])
    BY <1>1, <1>5, <1>7 DEF Shape
  <2>2. made' \in 0 .. MaxCalls /\ made' >= 3
    BY <1>1
  <2> QED
    BY <1>1, <1>7, <2>1, <2>2 DEF Shape
<1>10. Fresh'
  <2>1. \A d \in Calls : d > made' => d # 1 /\ d # 2 /\ d # 3
    BY <1>1 DEF Calls
  <2>2. \A d \in Calls : ~Reached(d)'
    BY <1>1, <1>8 DEF Reached
  <2> QED
    BY <1>1, <1>7, <1>8, <2>1, <2>2 DEF Fresh
<1>11. Clients'
  <2>1. \A d \in Calls : d <= made' => d \in {1, 2, 3}
    BY <1>1 DEF Calls
  <2> QED
    BY <1>1, <1>5, <1>7, <1>8, <2>1 DEF Clients, Listens
<1>12. Listening'
  <2>1. \A d \in Calls : call'[d].kind = "new" /\ call'[d].op = "request" <=> d = 1
    BY <1>5, <1>7, <1>8
  <2>2. \A d \in Calls : call'[d].kind = "cancel" /\ call'[d].op = "request" <=> d = 2
    BY <1>5, <1>7, <1>8
  <2>3. \A d \in Calls : call'[d].kind = "query" /\ call'[d].op = "request" <=> d = 3
    BY <1>5, <1>7, <1>8
  <2>4. ASSUME NEW k \in CallKind
        PROVE  \E x \in Calls : \A d \in Calls :
                 call'[d].kind = k /\ call'[d].op = "request" <=> d = x
    <3>1. CASE k = "new"
      BY <1>6, <2>1, <3>1
    <3>2. CASE k = "cancel"
      BY <1>6, <2>2, <3>2
    <3>3. CASE k = "query"
      BY <1>6, <2>3, <3>3
    <3> QED
      BY <3>1, <3>2, <3>3 DEF CallKind
  <2> QED
    BY <2>4 DEF Listening
<1>13. Room' /\ InOrder'
  BY <1>1, <1>8 DEF ServerInv, Room, Connected, InOrder
<1>14. ASSUME NEW d \in {1, 2, 3} PROVE CallInv(d)'
  <2>1. d \in Calls /\ call'[d] \in {l1, l2, l3} /\ call'[d].kind \in CallKind
    BY <1>5, <1>6, <1>7 DEF CallKind
  <2>2. Phase(d)'
    BY <1>5, <2>1 DEF Phase, CallKind
  <2>3. Delivered(d)'
    BY <1>1, <1>8, <2>1 DEF Delivered, Reached
  <2>4. Counted(d)' /\ Stopped(d)'
    BY <1>5, <2>1 DEF Counted, Stopped
  <2> QED
    BY <2>2, <2>3, <2>4 DEF CallInv
<1>15. ASSUME NEW d \in Calls \ {1, 2, 3} PROVE CallInv(d)'
  <2>1. CallInv(d)
    BY DEF ServerInv
  <2> QED
    BY <1>1, <1>7, <2>1 DEF CallInv, Phase, Counted, Delivered, Stopped, ToGone
<1> QED
  BY <1>9, <1>10, <1>11, <1>12, <1>13, <1>14, <1>15 DEF ServerInv

\* A client comes as long as there is room for it and the next listener.
LEMMA ConnectStep ==
  ASSUME ServerInv, NEW c \in Calls, Connect(c)
  PROVE  ServerInv'
<1>1. /\ Shape /\ IsCall(call[c]) /\ call[c].op = "request" /\ call[c].event = "none"
      /\ UNCHANGED <<started, joining, made, received>> /\ peer' = [peer EXCEPT ![c] = "up"]
      /\ Cardinality(Connected) + 3 < MaxCalls
  BY DEF Connect, Complete, Connected, ServerInv, Shape
<1>2. PICK i : call' = [call EXCEPT ![c].event = "ok", ![c].cancel = i]
  BY DEF Connect
<1>3. PICK n : n = [call[c] EXCEPT !.event = "ok", !.cancel = i]
  OBVIOUS
<1>4. /\ IsCall(n) /\ n.event = "ok" /\ n.kind = call[c].kind /\ n.op = call[c].op
      /\ n.status = call[c].status /\ n.created = call[c].created
      /\ n.writing = call[c].writing /\ n.next = call[c].next
  <2>1. IsCall(n)
    BY <1>1, <1>3, CallAlter
  <2> QED
    BY <1>1, <1>3, <2>1 DEF IsCall
<1>5. /\ call' = [d \in Calls |-> call'[d]] /\ call'[c] = n
      /\ \A d \in Calls \ {c} : call'[d] = call[d]
  BY <1>1, <1>2, <1>3 DEF Shape
<1>6. /\ peer' \in [Calls -> {"none", "up", "gone"}] /\ peer'[c] = "up"
      /\ \A d \in Calls \ {c} : peer'[d] = peer[d]
  BY <1>1 DEF Shape
<1>7. Shape'
  <2>1. \A d \in Calls : IsCall(call'[d])
    BY <1>1, <1>4, <1>5 DEF Shape
  <2> QED
    BY <1>1, <1>5, <1>6, <2>1 DEF Shape
<1>8. Phase(c) /\ Delivered(c) /\ call[c].kind # "none"
  BY <1>1 DEF ServerInv, CallInv, Phase
<1>9. c <= made
  BY <1>1, <1>8 DEF ServerInv, Fresh, Shape, Calls
<1>10. Fresh'
  <2>1. \A d \in Calls : d > made => d # c
    BY <1>1, <1>9 DEF Calls, Shape
  <2>2. \A d \in Calls : Reached(d)' <=> Reached(d)
    BY <1>1 DEF Reached
  <2> QED
    BY <1>1, <1>5, <1>6, <2>1, <2>2 DEF ServerInv, Fresh
<1>11. Clients'
  BY <1>1, <1>4, <1>5, <1>6 DEF ServerInv, Clients, Listens
<1>12. Listening'
  <2>1. \A k : \A d \in Calls : call'[d].kind = k /\ call'[d].op = "request"
                            <=> call[d].kind = k /\ call[d].op = "request"
    BY <1>4, <1>5
  <2>2. SUFFICES ASSUME started = 1, NEW k \in CallKind
                 PROVE  \E l \in Calls : \A d \in Calls :
                          call'[d].kind = k /\ call'[d].op = "request" <=> d = l
    BY <1>1 DEF Listening
  <2>3. PICK l \in Calls : \A d \in Calls : call[d].kind = k /\ call[d].op = "request" <=> d = l
    BY <2>2 DEF ServerInv, Listening
  <2>4. \A d \in Calls : call'[d].kind = k /\ call'[d].op = "request" <=> d = l
    BY <2>1, <2>3
  <2> QED
    BY <2>4
<1>13. Room'
  <2>1. Connected' = Connected \cup {c}
    BY <1>6 DEF Connected
  <2>2. IsFiniteSet(Connected)
    <3>1. IsFiniteSet(Calls) /\ Connected \in SUBSET Calls
      BY FS_Interval DEF Calls, Connected
    <3> QED
      BY <3>1, FS_Subset
  <2>3. /\ Cardinality(Connected) \in Nat /\ Cardinality(Connected \cup {c}) \in Nat
        /\ Cardinality(Connected \cup {c}) <= Cardinality(Connected) + 1
    BY <2>2, OneMore
  <2>4. Cardinality(Connected \cup {c}) + 3 <= MaxCalls
    BY <1>1, <2>3
  <2>5. Cardinality(Connected') + 3 <= MaxCalls
    BY <2>1, <2>4
  <2> QED
    BY <2>5 DEF Room
<1>14. InOrder'
  BY <1>1 DEF ServerInv, InOrder
<1>15. CallInv(c)'
  <2>1. Phase(c)'
    BY <1>1, <1>4, <1>5, <1>8 DEF Phase
  <2>2. Delivered(c)'
    BY <1>1, <1>4, <1>5, <1>8 DEF Delivered
  <2>3. Counted(c)'
    BY <1>1, <1>4, <1>5, <1>8 DEF Counted, Phase
  <2>4. Stopped(c)'
    BY <1>1, <1>4, <1>5 DEF Stopped
  <2> QED
    BY <2>1, <2>2, <2>3, <2>4 DEF CallInv
<1>16. ASSUME NEW d \in Calls \ {c} PROVE CallInv(d)'
  <2>1. CallInv(d)
    BY DEF ServerInv
  <2>2. ToGone(d) => ToGone(d)'
    BY <1>1, <1>5, <1>6, <1>9 DEF ToGone, ServerInv, Clients, Listens
  <2>3. Phase(d)' /\ Counted(d)' /\ Delivered(d)'
    BY <1>1, <1>5, <2>1 DEF CallInv, Phase, Counted, Delivered
  <2>4. Stopped(d)'
    BY <1>5, <2>1, <2>2 DEF CallInv, Stopped
  <2> QED
    BY <2>3, <2>4 DEF CallInv
<1> QED
  BY <1>7, <1>10, <1>11, <1>12, <1>13, <1>14, <1>15, <1>16 DEF ServerInv

\* A client that goes leaves its call as it is.
LEMMA DisconnectStep ==
  ASSUME ServerInv, NEW c \in Calls, Disconnect(c)
  PROVE  ServerInv'
<1>1. /\ Shape /\ UNCHANGED <<started, joining, made, call, received>> /\ peer[c] = "up"
      /\ peer' \in [Calls -> {"none", "up", "gone"}] /\ peer'[c] = "gone"
      /\ \A d \in Calls \ {c} : peer'[d] = peer[d]
  BY DEF Disconnect, ServerInv, Shape
<1>2. \A d \in Calls : peer'[d] = "none" <=> peer[d] = "none"
  BY <1>1
<1>3. Shape' /\ Clients' /\ Listening' /\ InOrder'
  BY <1>1, <1>2 DEF ServerInv, Shape, Clients, Listens, Listening, InOrder
<1>4. Fresh'
  BY <1>1, <1>2 DEF ServerInv, Fresh, Reached
<1>5. Room'
  <2>1. Connected' = Connected
    BY <1>2 DEF Connected
  <2> QED
    BY <2>1 DEF ServerInv, Room
<1>6. \A d \in Calls : ToGone(d) => ToGone(d)'
  BY <1>1 DEF ToGone
<1>7. ASSUME NEW d \in Calls PROVE CallInv(d)'
  <2>1. CallInv(d)
    BY DEF ServerInv
  <2> QED
    BY <1>1, <1>6, <2>1 DEF CallInv, Phase, Counted, Delivered, Stopped
<1> QED
  BY <1>3, <1>4, <1>5, <1>7 DEF ServerInv

-----------------------------------------------------------------------------
(* What the handler does with an event *)

\* A new-order call is accepted.
LEMMA AcceptOrderCallStep ==
  ASSUME ServerInv, NEW c \in Calls, AcceptOrderCall(c)
  PROVE  ServerInv'
<1>1. /\ Shape /\ CallInv(c) /\ call[c].kind = "new" /\ call[c].event # "none"
      /\ ~call[c].created /\ UNCHANGED <<started, joining, peer, received>>
      /\ made' = made + 1
  BY DEF AcceptOrderCall, Ready, ServerInv, clients
<1>2. call[c].op = "request" /\ ~call[c].writing /\ call[c].next = 0 /\ call[c].status = "PROCESS"
  BY <1>1 DEF CallInv, Phase, Shape, IsCall
<1>3. PICK p : p = Proceeded(c, "read")
  OBVIOUS
<1>4. PICK n : n = [p EXCEPT !.created = TRUE]
  OBVIOUS
<1>5. call' = WithListener(c, n)
  BY <1>3, <1>4 DEF AcceptOrderCall
<1>6. /\ IsCall(p) /\ p.op = "read" /\ p.event = "none" /\ p.kind = "new"
      /\ p.status = "PROCESS" /\ ~p.writing /\ p.next = 0
  BY <1>1, <1>2, <1>3, ProceededFacts
<1>7. /\ IsCall(n) /\ n.op = "read" /\ n.event = "none" /\ n.kind = "new"
      /\ n.status = "PROCESS" /\ ~n.writing /\ n.next = 0 /\ n.created
  <2>1. IsCall(n)
    BY <1>4, <1>6, CallAlter
  <2> QED
    BY <1>4, <1>6, <2>1 DEF IsCall
<1>8. call'[c] = n
  BY <1>1, <1>2, <1>5, RoomForListener, AcceptedCall
<1>9. CallInv(c)'
  <2>1. Phase(c)' /\ Counted(c)' /\ Stopped(c)'
    BY <1>7, <1>8 DEF Phase, Counted, Stopped
  <2>2. Delivered(c)'
    BY <1>1, <1>2, <1>7, <1>8 DEF CallInv, Delivered
  <2> QED
    BY <2>1, <2>2 DEF CallInv
<1> QED
  BY <1>1, <1>2, <1>5, <1>7, <1>9, AcceptStep

\* A cancel call is accepted and answered, whatever the answer.
LEMMA CancelStep ==
  ASSUME ServerInv, NEW c \in Calls, NEW x, NEW n, NEW p,
         p = Proceeded(c, "finish"),
         \/ n = [p EXCEPT !.status = "FINISH", !.reports = x, !.next = 1]
         \/ n = [p EXCEPT !.status = "FINISH", !.next = 1, !.reports = x],
         Ready(c, "cancel"), call[c].status = "PROCESS",
         call' = WithListener(c, n), made' = made + 1,
         UNCHANGED <<started, joining, peer, received>>
  PROVE  ServerInv'
<1>1. Shape /\ CallInv(c) /\ call[c].kind = "cancel" /\ call[c].event # "none"
  BY DEF Ready, ServerInv
<1>2. call[c].op = "request" /\ ~call[c].writing /\ call[c].next = 0
  BY <1>1 DEF CallInv, Phase
<1>3. /\ IsCall(p) /\ p.op = "finish" /\ p.event = "none" /\ p.kind = "cancel"
      /\ p.status = "PROCESS" /\ ~p.writing
  BY <1>1, <1>2, ProceededFacts
<1>4. IsCall(n)
  <2>1. CASE n = [p EXCEPT !.status = "FINISH", !.reports = x, !.next = 1]
    BY <1>3, <2>1, CallAlter
  <2>2. CASE n = [p EXCEPT !.status = "FINISH", !.next = 1, !.reports = x]
    <3>1. n = [p EXCEPT !.status = "FINISH", !.reports = x, !.next = 1]
      BY <2>2
    <3> QED
      BY <1>3, <3>1, CallAlter
  <2> QED
    BY <2>1, <2>2
<1>5. /\ n.op = "finish" /\ n.event = "none" /\ n.kind = "cancel"
      /\ n.status = "FINISH" /\ ~n.writing /\ n.next = 1
  BY <1>3 DEF IsCall
<1>6. call'[c] = n
  BY <1>1, <1>2, AcceptedCall
<1>7. CallInv(c)'
  <2>1. Phase(c)' /\ Counted(c)' /\ Stopped(c)'
    BY <1>5, <1>6 DEF Phase, Counted, Stopped
  <2>2. \A d \in Calls : \A a \in DOMAIN received[d] :
          received[d][a][1] = c => received[d][a][2] <= 0 /\ received[d][a][2] \in Nat
    BY <1>1, <1>2, ReceivedFacts DEF CallInv, Delivered
  <2>3. Delivered(c)'
    BY <1>5, <1>6, <2>2 DEF Delivered
  <2> QED
    BY <2>1, <2>3 DEF CallInv
<1> QED
  BY <1>1, <1>2, <1>4, <1>5, <1>7, AcceptStep

\* A query is accepted: its snapshot is streamed from the first report on.
LEMMA AcceptQueryStep ==
  ASSUME ServerInv, NEW c \in Calls, AcceptQuery(c)
  PROVE  ServerInv'
<1>1. /\ Shape /\ CallInv(c) /\ call[c].kind = "query" /\ call[c].event # "none"
      /\ ~call[c].created /\ UNCHANGED <<started, joining, peer, received>>
      /\ made' = made + 1 /\ call[c].status = "PROCESS"
  BY DEF AcceptQuery, Ready, ServerInv, clients
<1>2. call[c].op = "request" /\ ~call[c].writing /\ call[c].next = 0
  BY <1>1 DEF CallInv, Phase
<1>3. PICK q : q = QueryStep(c, Snapshot, 0)
  OBVIOUS
<1>4. PICK n : n = [q EXCEPT !.created = TRUE]
  OBVIOUS
<1>5. call' = WithListener(c, n)
  BY <1>3, <1>4 DEF AcceptQuery
<1>6. /\ IsCall(q) /\ q.event = "none" /\ q.kind = "query"
      /\ q.op \in {"write", "finish"} /\ (q.status = "FINISH" <=> q.op = "finish")
      /\ q.next \in Nat /\ (q.op = "write" => q.next > 0)
  BY <1>1, <1>2, <1>3, QueryFacts
<1>7. /\ IsCall(n) /\ n.event = "none" /\ n.kind = "query" /\ n.created
      /\ n.op \in {"write", "finish"} /\ (n.status = "FINISH" <=> n.op = "finish")
      /\ n.next \in Nat /\ (n.op = "write" => n.next > 0)
  <2>1. IsCall(n)
    BY <1>4, <1>6, CallAlter
  <2> QED
    BY <1>4, <1>6, <2>1 DEF IsCall
<1>8. call'[c] = n
  BY <1>1, <1>2, <1>5, AcceptedCall
<1>9. CallInv(c)'
  <2>1. Phase(c)' /\ Counted(c)' /\ Stopped(c)'
    BY <1>7, <1>8 DEF Phase, Counted, Stopped
  <2>2. \A d \in Calls : \A a \in DOMAIN received[d] :
          received[d][a][1] = c => received[d][a][2] <= 0 /\ received[d][a][2] \in Nat
    BY <1>1, <1>2, ReceivedFacts DEF CallInv, Delivered
  <2>3. Delivered(c)'
    BY <1>1, <1>7, <1>8, <2>2 DEF Delivered
  <2> QED
    BY <2>1, <2>3 DEF CallInv
<1> QED
  BY <1>1, <1>2, <1>5, <1>7, <1>9, AcceptStep

\* A step of an accepted call that delivers nothing.
LEMMA OwnQuiet ==
  ASSUME ServerInv, NEW c \in Calls, NEW n, IsCall(n),
         call' = [call EXCEPT ![c] = n],
         UNCHANGED <<started, joining, made, peer, received>>,
         call[c].kind # "none", call[c].op # "request", n.op # "request",
         CallInv(c)'
  PROVE  ServerInv'
<1>1. InOrder' /\ received' \in [Calls -> Seq(Calls \X (Nat \ {0}))]
  BY DEF ServerInv, InOrder, Shape
<1> QED
  BY <1>1, OwnStep

\* Another request is read: this one has been skipped, rejected or processed.
LEMMA ReadOnStep ==
  ASSUME ServerInv, NEW c \in Calls, Reading(c), NEW n, NEW x,
         \/ n = Proceeded(c, "read")
         \/ n = [Proceeded(c, "read") EXCEPT !.reports = x],
         call' = [call EXCEPT ![c] = n],
         UNCHANGED <<started, joining, made, peer, received>>
  PROVE  ServerInv'
<1>1. /\ Shape /\ CallInv(c) /\ call[c].kind = "new" /\ call[c].created /\ ~call[c].writing
  BY DEF ServerInv, Reading, Ready
<1>2. call[c].op = "read" /\ call[c].status = "PROCESS"
  BY <1>1 DEF CallInv, Phase, Shape, IsCall
<1>3. PICK p : p = Proceeded(c, "read")
  OBVIOUS
<1>4. /\ IsCall(p) /\ p.op = "read" /\ p.event = "none" /\ p.kind = "new" /\ p.created
      /\ p.status = "PROCESS" /\ ~p.writing /\ p.next = call[c].next
  BY <1>1, <1>2, <1>3, ProceededFacts
<1>5. IsCall(n)
  <2>1. \A y : IsCall([p EXCEPT !.reports = y])
    BY <1>4, CallAlter
  <2> QED
    BY <1>3, <1>4, <2>1
<1>6. /\ n.op = "read" /\ n.event = "none" /\ n.kind = "new" /\ n.created
      /\ n.status = "PROCESS" /\ ~n.writing /\ n.next = call[c].next
  BY <1>3, <1>4 DEF IsCall
<1>7. call'[c] = n
  BY <1>1 DEF Shape
<1>8. CallInv(c)'
  <2>1. Phase(c)' /\ Counted(c)' /\ Stopped(c)'
    BY <1>6, <1>7 DEF Phase, Counted, Stopped
  <2>2. Delivered(c)'
    BY <1>1, <1>6, <1>7 DEF CallInv, Delivered
  <2> QED
    BY <2>1, <2>2 DEF CallInv
<1> QED
  BY <1>1, <1>2, <1>5, <1>6, <1>8, OwnQuiet

\* A report is written.
LEMMA WriteReportStep ==
  ASSUME ServerInv, NEW c \in Calls, WriteReport(c)
  PROVE  ServerInv'
<1>1. /\ Shape /\ CallInv(c) /\ call[c].kind = "new" /\ call[c].created
      /\ UNCHANGED <<started, joining, made, peer, received>>
      /\ call[c].next \in Nat
  BY DEF ServerInv, WriteReport, WritesOn, Ready, clients, Shape, IsCall
<1>2. call[c].op # "request" /\ call[c].op # "finish"
  BY <1>1 DEF CallInv, Phase
<1>3. PICK p : p = Proceeded(c, "write")
  OBVIOUS
<1>4. /\ IsCall(p) /\ p.op = "write" /\ p.event = "none" /\ p.kind = "new" /\ p.created
      /\ p.status = call[c].status /\ p.next = call[c].next
  BY <1>1, <1>3, ProceededFacts
<1>5. PICK x : x = Addressee(c)
  OBVIOUS
<1>6. PICK n : n = [p EXCEPT !.to = x, !.writing = TRUE, !.next = p.next + 1]
  OBVIOUS
<1>7. call' = [call EXCEPT ![c] = n]
  BY <1>3, <1>5, <1>6 DEF WriteReport
<1>8. IsCall(n)
  <2>1. p.next + 1 \in Nat
    BY <1>1, <1>4
  <2> QED
    BY <1>4, <1>6, <2>1, CallAlter
<1>9. /\ n.op = "write" /\ n.event = "none" /\ n.kind = "new" /\ n.created /\ n.writing
      /\ n.status # "FINISH" /\ n.next = call[c].next + 1
  <2>1. call[c].status # "FINISH"
    BY <1>1, <1>2 DEF CallInv, Phase
  <2> QED
    BY <1>4, <1>6, <2>1 DEF IsCall
<1>10. call'[c] = n
  BY <1>1, <1>7 DEF Shape
<1>11. CallInv(c)'
  <2>1. Phase(c)'
    BY <1>9, <1>10 DEF Phase
  <2>2. Counted(c)'
    BY <1>1, <1>9, <1>10 DEF Counted
  <2>3. Stopped(c)'
    BY <1>9, <1>10 DEF Stopped
  <2>4. \A d \in Calls : \A a \in DOMAIN received[d] : received[d][a][1] = c =>
          received[d][a][2] <= call[c].next /\ received[d][a][2] \in Nat
    BY <1>1, ReceivedFacts DEF CallInv, Delivered
  <2>5. Delivered(c)'
    BY <1>1, <1>9, <1>10, <2>4 DEF Delivered
  <2> QED
    BY <2>1, <2>2, <2>3, <2>5 DEF CallInv
<1> QED
  BY <1>1, <1>2, <1>7, <1>8, <1>9, <1>11, OwnQuiet

\* A call stops: all is written, or a write has failed.
LEMMA StopWritingStep ==
  ASSUME ServerInv, NEW c \in Calls, StopWriting(c)
  PROVE  ServerInv'
<1>1. /\ Shape /\ CallInv(c) /\ call[c].kind = "new" /\ call[c].created
      /\ call[c].event # "none" /\ UNCHANGED <<started, joining, made, peer, received>>
  BY DEF ServerInv, StopWriting, Ready, clients
<1>2. /\ call[c].op # "request" /\ call[c].op # "finish" /\ call[c].op # "none"
      /\ call[c].status # "FINISH" /\ (call[c].writing => call[c].op = "write")
  BY <1>1 DEF CallInv, Phase
<1>3. \/ ~(call[c].next < Len(call[c].reports))
      \/ ToGone(c)
  BY <1>1, <1>2 DEF StopWriting, CallInv, Stopped
<1>4. PICK p : p = Proceeded(c, "none")
  OBVIOUS
<1>5. /\ IsCall(p) /\ p.op = "none" /\ p.event = "none" /\ p.kind = "new" /\ p.created
      /\ p.status = call[c].status /\ p.next = call[c].next /\ p.reports = call[c].reports
      /\ p.to = call[c].to
  BY <1>1, <1>4, ProceededFacts
<1>6. PICK n : n = [p EXCEPT !.writing = TRUE]
  OBVIOUS
<1>7. call' = [call EXCEPT ![c] = n]
  BY <1>4, <1>6 DEF StopWriting
<1>8. IsCall(n)
  BY <1>5, <1>6, CallAlter
<1>9. /\ n.op = "none" /\ n.event = "none" /\ n.kind = "new" /\ n.created /\ n.writing
      /\ n.status # "FINISH" /\ n.next = call[c].next /\ n.reports = call[c].reports
      /\ n.to = call[c].to
  BY <1>2, <1>5, <1>6 DEF IsCall
<1>10. call'[c] = n
  BY <1>1, <1>7 DEF Shape
<1>11. CallInv(c)'
  <2>1. Phase(c)' /\ Counted(c)'
    BY <1>9, <1>10 DEF Phase, Counted
  <2>2. Stopped(c)'
    BY <1>1, <1>3, <1>9, <1>10 DEF Stopped, ToGone
  <2>3. Delivered(c)'
    BY <1>1, <1>9, <1>10 DEF CallInv, Delivered
  <2> QED
    BY <2>1, <2>2, <2>3 DEF CallInv
<1> QED
  BY <1>1, <1>2, <1>7, <1>8, <1>9, <1>11, OwnQuiet

\* The next report of a query is written, or its Finish follows.
LEMMA StreamQueryStep ==
  ASSUME ServerInv, NEW c \in Calls, StreamQuery(c)
  PROVE  ServerInv'
<1>1. /\ Shape /\ CallInv(c) /\ call[c].kind = "query" /\ call[c].created
      /\ call[c].status = "PROCESS" /\ UNCHANGED <<started, joining, made, peer, received>>
      /\ call[c].next \in Nat
  BY DEF ServerInv, StreamQuery, Ready, clients, Shape, IsCall
<1>2. call[c].op # "request"
  BY <1>1 DEF CallInv, Phase
<1>3. PICK n : n = QueryStep(c, call[c].reports, call[c].next)
  OBVIOUS
<1>4. call' = [call EXCEPT ![c] = n]
  BY <1>3 DEF StreamQuery
<1>5. /\ IsCall(n) /\ n.event = "none" /\ n.kind = "query" /\ n.created
      /\ n.op \in {"write", "finish"} /\ (n.status = "FINISH" <=> n.op = "finish")
      /\ n.next \in Nat /\ n.next >= call[c].next
      /\ n.op = "write" => n.next > call[c].next /\ n.next > 0
  BY <1>1, <1>3, QueryFacts
<1>6. call'[c] = n
  BY <1>1, <1>4 DEF Shape
<1>7. CallInv(c)'
  <2>1. Phase(c)' /\ Counted(c)' /\ Stopped(c)'
    BY <1>5, <1>6 DEF Phase, Counted, Stopped
  <2>2. \A d \in Calls : \A a \in DOMAIN received[d] : received[d][a][1] = c =>
          received[d][a][2] <= call[c].next /\ received[d][a][2] \in Nat
    BY <1>1, ReceivedFacts DEF CallInv, Delivered
  <2>3. Delivered(c)'
    BY <1>1, <1>5, <1>6, <2>2 DEF Delivered
  <2> QED
    BY <2>1, <2>3 DEF CallInv
<1> QED
  BY <1>1, <1>2, <1>4, <1>5, <1>7, OwnQuiet

\* A call that has been finished is deleted.
LEMMA DeleteCallStep ==
  ASSUME ServerInv, NEW c \in Calls, DeleteCall(c)
  PROVE  ServerInv'
<1>1. /\ Shape /\ CallInv(c) /\ call[c].event # "none" /\ call[c].status = "FINISH"
      /\ UNCHANGED <<started, joining, made, peer, received>>
      /\ call' = [call EXCEPT ![c] = Absent]
  BY DEF ServerInv, DeleteCall, clients
<1>2. call[c].op = "finish" /\ call[c].kind # "none"
  BY <1>1 DEF CallInv, Phase
<1>3. PICK n : n = Absent
  OBVIOUS
<1>4. /\ IsCall(n) /\ n.kind = "none" /\ n.op = "none" /\ n.event = "none"
      /\ n.next = 0 /\ n.reports = <<>> /\ ~n.created /\ ~n.writing /\ n.status = "PROCESS"
  BY <1>3, MadeFacts
<1>5. call' = [call EXCEPT ![c] = n] /\ call'[c] = n
  BY <1>1, <1>3 DEF Shape
<1>6. CallInv(c)'
  <2>1. Phase(c)' /\ Counted(c)' /\ Delivered(c)'
    BY <1>4, <1>5 DEF Phase, Counted, Delivered
  <2>2. ~(call'[c].next < Len(call'[c].reports))
    BY <1>4, <1>5, EmptySeq
  <2>3. Stopped(c)'
    BY <1>4, <1>5, <2>2 DEF Stopped
  <2> QED
    BY <2>1, <2>3 DEF CallInv
<1> QED
  BY <1>1, <1>2, <1>4, <1>5, <1>6, OwnQuiet

-----------------------------------------------------------------------------
(* Operations that complete *)

\* What call c delivers comes after all it has delivered so far.
LEMMA DeliverFacts ==
  ASSUME ServerInv, NEW c \in Calls, NEW d, Deliver(c, d),
         call[c].kind # "none", call[c].event = "none",
         call[c].op = "write" \/ (call[c].kind = "cancel" /\ call[c].op = "finish")
  PROVE  /\ received' \in [Calls -> Seq(Calls \X (Nat \ {0}))]
         /\ \A e \in Calls : \A a \in DOMAIN received'[e] :
              \/ received'[e][a][1] = c
              \/ a \in DOMAIN received[e] /\ received'[e][a] = received[e][a]
         /\ \A e \in Calls : \A a \in DOMAIN received'[e] :
              received'[e][a][1] = c => received'[e][a][2] <= call[c].next
         /\ InOrder'
<1>1. Shape /\ InOrder /\ CallInv(c) /\ IsCall(call[c])
  BY DEF ServerInv, Shape
<1>2. call[c].next \in Nat /\ call[c].next > 0
  BY <1>1 DEF CallInv, Counted, IsCall
<1>3. \A e \in Calls : \A a \in DOMAIN received[e] :
        received[e][a][1] = c => received[e][a][2] < call[c].next
  BY <1>1 DEF CallInv, Delivered
<1>4. CASE d \notin Calls
  <2>1. received' = received
    BY <1>1, <1>4 DEF Deliver, Shape
  <2>2. \A e \in Calls : \A a \in DOMAIN received[e] :
          received[e][a][1] = c => received[e][a][2] <= call[c].next
    BY <1>1 DEF CallInv, Delivered
  <2> QED
    BY <1>1, <2>1, <2>2 DEF Shape, InOrder
<1>5. CASE d \in Calls
  <2>1. PICK r : r = received[d]
    OBVIOUS
  <2>2. PICK x : x = <<c, call[c].next>>
    OBVIOUS
  <2>3. PICK q : q = Append(r, x)
    OBVIOUS
  <2>4. received' = [received EXCEPT ![d] = q]
    BY <2>1, <2>2, <2>3 DEF Deliver
  <2>5. /\ x \in Calls \X (Nat \ {0}) /\ x[1] = c /\ x[2] = call[c].next
    BY <1>2, <2>2
  <2>6. r \in Seq(Calls \X (Nat \ {0})) /\ Len(r) \in Nat /\ DOMAIN r = 1 .. Len(r)
    BY <1>1, <1>5, <2>1, ReceivedFacts
  <2>7. /\ q \in Seq(Calls \X (Nat \ {0})) /\ DOMAIN q = 1 .. Len(r) + 1
        /\ q[Len(r) + 1] = x /\ \A a \in 1 .. Len(r) : q[a] = r[a]
    BY <2>3, <2>5, <2>6, AppendProperties, LenProperties
  <2>8. /\ received' \in [Calls -> Seq(Calls \X (Nat \ {0}))] /\ received'[d] = q
        /\ \A e \in Calls \ {d} : received'[e] = received[e]
    BY <1>1, <1>5, <2>4, <2>7 DEF Shape
  <2>9. \A a \in DOMAIN q : \/ a \in DOMAIN r /\ q[a] = r[a]
                            \/ a = Len(r) + 1 /\ q[a] = x
    BY <2>6, <2>7
  <2>10. ASSUME NEW e \in Calls, NEW a \in DOMAIN received'[e]
         PROVE  \/ received'[e][a][1] = c
                \/ a \in DOMAIN received[e] /\ received'[e][a] = received[e][a]
    <3>1. CASE e = d
      BY <2>1, <2>5, <2>8, <2>9, <2>10, <3>1
    <3>2. CASE e # d
      BY <2>8, <2>10, <3>2
    <3> QED
      BY <3>1, <3>2
  <2>11. \A a \in DOMAIN r : r[a][1] = c => r[a][2] < call[c].next /\ r[a][2] \in Nat
    BY <1>1, <1>3, <1>5, <2>1, ReceivedFacts
  <2>12. ASSUME NEW e \in Calls, NEW a \in DOMAIN received'[e], received'[e][a][1] = c
         PROVE  received'[e][a][2] <= call[c].next
    <3>1. CASE e = d
      <4>1. a \in DOMAIN q /\ q[a][1] = c
        BY <2>8, <2>12, <3>1
      <4>2. CASE a \in DOMAIN r /\ q[a] = r[a]
        BY <1>2, <2>8, <2>11, <3>1, <4>1, <4>2
      <4>3. CASE q[a] = x
        BY <1>2, <2>5, <2>8, <3>1, <4>3
      <4> QED
        BY <2>9, <4>1, <4>2, <4>3
    <3>2. CASE e # d
      <4>1. a \in DOMAIN received[e] /\ received[e][a][1] = c
        BY <2>8, <2>12, <3>2
      <4>2. received[e][a][2] < call[c].next /\ received[e][a][2] \in Nat
        BY <1>1, <1>3, <4>1, ReceivedFacts
      <4> QED
        BY <1>2, <2>8, <3>2, <4>2
    <3> QED
      BY <3>1, <3>2
  <2>13. InOrder'
    <3>1. SUFFICES ASSUME NEW e \in Calls, NEW a \in DOMAIN received'[e],
                          NEW b \in DOMAIN received'[e],
                          a < b, received'[e][a][1] = received'[e][b][1]
                   PROVE  received'[e][a][2] < received'[e][b][2]
      BY DEF InOrder
    <3>2. CASE e # d
      <4>1. received'[e] = received[e]
        BY <2>8, <3>2
      <4> QED
        BY <1>1, <3>1, <4>1 DEF InOrder
    <3>3. CASE e = d
      <4>1. /\ a \in DOMAIN q /\ b \in DOMAIN q /\ q[a][1] = q[b][1] /\ a < b
            /\ received'[e] = q
        BY <2>8, <3>1, <3>3
      <4>2. a \in DOMAIN r /\ q[a] = r[a]
        BY <2>6, <2>7, <2>9, <4>1
      <4>3. CASE b \in DOMAIN r /\ q[b] = r[b]
        <5>1. r[a][2] < r[b][2]
          BY <1>1, <1>5, <2>1, <4>1, <4>2, <4>3 DEF InOrder
        <5> QED
          BY <4>1, <4>2, <4>3, <5>1
      <4>4. CASE q[b] = x
        <5>1. r[a][1] = c
          BY <2>5, <4>1, <4>2, <4>4
        <5>2. r[a][2] < call[c].next
          BY <2>11, <4>2, <5>1
        <5> QED
          BY <2>5, <4>1, <4>2, <4>4, <5>2
      <4> QED
        BY <2>9, <4>1, <4>3, <4>4
    <3> QED
      BY <3>2, <3>3
  <2> QED
    BY <2>8, <2>10, <2>12, <2>13
<1> QED
  BY <1>4, <1>5

\* n is call c with an event, and with what has been read.
Completes(c, n) ==
  /\ IsCall(n) /\ n.event \in {"ok", "fail"}
  /\ n.kind = call[c].kind /\ n.status = call[c].status /\ n.op = call[c].op
  /\ n.created = call[c].created /\ n.writing = call[c].writing /\ n.next = call[c].next
  /\ n.to = call[c].to

\* An operation completes: the event goes into the completion queue.
LEMMA EventStep ==
  ASSUME ServerInv, NEW c \in Calls, NEW n, Completes(c, n),
         call' = [call EXCEPT ![c] = n],
         UNCHANGED <<started, joining, made, peer>>,
         received' \in [Calls -> Seq(Calls \X (Nat \ {0}))],
         \A e \in Calls : \A a \in DOMAIN received'[e] :
           \/ received'[e][a][1] = c
           \/ a \in DOMAIN received[e] /\ received'[e][a] = received[e][a],
         \A e \in Calls : \A a \in DOMAIN received'[e] :
           received'[e][a][1] = c => received'[e][a][2] <= call[c].next,
         InOrder',
         call[c].op \in {"read", "write", "finish"},
         n.event = "fail" /\ n.op = "write" => ToGone(c)
  PROVE  ServerInv'
<1>1. Shape /\ CallInv(c)
  BY DEF ServerInv
<1>2. call[c].kind # "none"
  BY <1>1 DEF CallInv, Phase
<1>3. call'[c] = n
  BY <1>1 DEF Shape
<1>4. CallInv(c)'
  <2>1. Phase(c)'
    BY <1>1, <1>3 DEF CallInv, Phase, Completes
  <2>2. Counted(c)'
    BY <1>1, <1>3 DEF CallInv, Counted, Completes
  <2>3. Stopped(c)'
    BY <1>3 DEF Stopped, ToGone, Completes
  <2>4. Delivered(c)'
    BY <1>3 DEF Delivered, Completes
  <2> QED
    BY <2>1, <2>2, <2>3, <2>4 DEF CallInv
<1> QED
  BY <1>2, <1>4, OwnStep DEF Completes

\* What an event adds to a CallData object.
LEMMA EventFacts ==
  ASSUME Shape, NEW c \in Calls, NEW e \in {"ok", "fail"}
  PROVE  /\ Completes(c, [call[c] EXCEPT !.event = e])
         /\ \A x : Completes(c, [call[c] EXCEPT !.event = e, !.buf = x])
<1>1. PICK o : o = call[c]
  OBVIOUS
<1>2. IsCall(o)
  BY <1>1 DEF Shape
<1>3. PICK n : n = [o EXCEPT !.event = e]
  OBVIOUS
<1>4. IsCall(n)
  BY <1>2, <1>3, CallAlter
<1>5. /\ n.event = e /\ n.kind = o.kind /\ n.status = o.status /\ n.op = o.op
      /\ n.created = o.created /\ n.writing = o.writing /\ n.next = o.next /\ n.to = o.to
  BY <1>2, <1>3, <1>4 DEF IsCall
<1>6. ASSUME NEW x PROVE Completes(c, [o EXCEPT !.event = e, !.buf = x])
  <2>1. PICK m : m = [n EXCEPT !.buf = x]
    OBVIOUS
  <2>2. m = [o EXCEPT !.event = e, !.buf = x]
    BY <1>3, <2>1
  <2>3. IsCall(m)
    BY <1>4, <2>1 DEF IsCall
  <2>4. /\ m.event = n.event /\ m.kind = n.kind /\ m.status = n.status /\ m.op = n.op
        /\ m.created = n.created /\ m.writing = n.writing /\ m.next = n.next /\ m.to = n.to
    BY <1>4, <2>1, <2>3 DEF IsCall
  <2>5. Completes(c, m)
    BY <1>1, <1>5, <2>3, <2>4 DEF Completes
  <2> QED
    BY <2>2, <2>5
<1>7. Completes(c, n)
  BY <1>1, <1>4, <1>5 DEF Completes
<1> QED
  BY <1>1, <1>3, <1>6, <1>7

\* A completion that delivers nothing.
LEMMA QuietEvent ==
  ASSUME ServerInv, NEW c \in Calls, NEW n, Completes(c, n),
         call' = [call EXCEPT ![c] = n],
         UNCHANGED <<started, joining, made, peer, received>>,
         call[c].op \in {"read", "write", "finish"},
         n.event = "fail" /\ n.op = "write" => ToGone(c)
  PROVE  ServerInv'
<1>1. /\ Shape /\ received' \in [Calls -> Seq(Calls \X (Nat \ {0}))] /\ InOrder'
      /\ Phase(c) /\ Delivered(c)
  BY DEF ServerInv, Shape, InOrder, CallInv
<1>2. \A d \in Calls : \A a \in DOMAIN received'[d] :
        received'[d][a][1] = c => received'[d][a][2] <= call[c].next
  BY <1>1 DEF Delivered, Phase
<1> QED
  BY <1>1, <1>2, EventStep

\* A completion that delivers a report.
LEMMA DeliverEvent ==
  ASSUME ServerInv, NEW c \in Calls, NEW d, Deliver(c, d),
         call' = [call EXCEPT ![c].event = "ok"],
         UNCHANGED <<started, joining, made, peer>>,
         call[c].event = "none",
         call[c].op = "write" \/ (call[c].kind = "cancel" /\ call[c].op = "finish")
  PROVE  ServerInv'
<1>1. Shape /\ Phase(c)
  BY DEF ServerInv, CallInv
<1>2. call[c].kind # "none"
  BY <1>1 DEF Phase
<1>3. PICK n : n = [call[c] EXCEPT !.event = "ok"]
  OBVIOUS
<1>4. call' = [call EXCEPT ![c] = n]
  BY <1>3
<1>5. Completes(c, n) /\ n.event = "ok"
  <2>1. Completes(c, [call[c] EXCEPT !.event = "ok"])
    BY <1>1, EventFacts
  <2>2. IsCall(call[c])
    BY <1>1 DEF Shape
  <2>3. n.event = "ok"
    BY <1>3, <2>2 DEF IsCall
  <2> QED
    BY <1>3, <2>1, <2>3
<1>6. /\ received' \in [Calls -> Seq(Calls \X (Nat \ {0}))] /\ InOrder'
      /\ \A e \in Calls : \A a \in DOMAIN received'[e] :
              \/ received'[e][a][1] = c
              \/ a \in DOMAIN received[e] /\ received'[e][a] = received[e][a]
      /\ \A e \in Calls : \A a \in DOMAIN received'[e] :
              received'[e][a][1] = c => received'[e][a][2] <= call[c].next
  BY <1>2, DeliverFacts
<1> QED
  BY <1>4, <1>5, <1>6, EventStep

\* The operations that gRPC completes.
LEMMA CompleteStep ==
  ASSUME ServerInv, NEW c \in Calls, CompleteOp(c)
  PROVE  ServerInv'
<1>0. Shape
  BY DEF ServerInv
<1>1. CASE GetRequest(c)
  <2>1. PICK x : x = Head(inbox[c])
    OBVIOUS
  <2>2. PICK n : n = [call[c] EXCEPT !.event = "ok", !.buf = x]
    OBVIOUS
  <2>3. call' = [call EXCEPT ![c] = n]
    BY <1>1, <2>1, <2>2 DEF GetRequest
  <2>4. call[c].op = "read" /\ UNCHANGED <<started, joining, made, peer, received>>
    BY <1>1 DEF GetRequest, Complete
  <2>5. Completes(c, n) /\ n.op = "read"
    <3>1. \A y : Completes(c, [call[c] EXCEPT !.event = "ok", !.buf = y])
      BY <1>0, EventFacts
    <3>2. Completes(c, n)
      BY <2>2, <3>1
    <3> QED
      BY <2>4, <3>2 DEF Completes
  <2> QED
    BY <2>3, <2>4, <2>5, QuietEvent
<1>2. CASE EndRequests(c)
  <2>1. PICK n : n = [call[c] EXCEPT !.event = "fail"]
    OBVIOUS
  <2>2. call' = [call EXCEPT ![c] = n]
    BY <1>2, <2>1 DEF EndRequests
  <2>3. call[c].op = "read" /\ UNCHANGED <<started, joining, made, peer, received>>
    BY <1>2 DEF EndRequests, Complete, clients
  <2>4. Completes(c, n) /\ n.op = "read"
    <3>1. Completes(c, [call[c] EXCEPT !.event = "fail"])
      BY <1>0, EventFacts
    <3>2. Completes(c, n)
      BY <2>1, <3>1
    <3> QED
      BY <2>3, <3>2 DEF Completes
  <2> QED
    BY <2>2, <2>3, <2>4, QuietEvent
<1>3. CASE PutReport(c)
  <2>1. /\ call[c].op = "write" /\ call[c].event = "none" /\ Deliver(c, call[c].to)
        /\ call' = [call EXCEPT ![c].event = "ok"]
        /\ UNCHANGED <<started, joining, made, peer>>
    BY <1>3 DEF PutReport, Complete
  <2> QED
    BY <2>1, DeliverEvent
<1>4. CASE LoseReport(c)
  <2>1. PICK e \in {"ok", "fail"} : call' = [call EXCEPT ![c].event = e]
    BY <1>4 DEF LoseReport
  <2>2. PICK n : n = [call[c] EXCEPT !.event = e]
    OBVIOUS
  <2>3. call' = [call EXCEPT ![c] = n]
    BY <2>1, <2>2
  <2>4. /\ call[c].op = "write" /\ ToGone(c)
        /\ UNCHANGED <<started, joining, made, peer, received>>
    BY <1>4 DEF LoseReport, Complete, ToGone, clients
  <2>5. Completes(c, n)
    <3>1. Completes(c, [call[c] EXCEPT !.event = e])
      BY <1>0, EventFacts
    <3> QED
      BY <2>2, <3>1
  <2> QED
    BY <2>3, <2>4, <2>5, QuietEvent
<1>5. CASE EndCall(c)
  <2>1. /\ call[c].op = "finish" /\ call[c].event = "none"
        /\ call' = [call EXCEPT ![c].event = "ok"]
        /\ UNCHANGED <<started, joining, made, peer>>
        /\ \/ call[c].kind = "cancel" /\ Deliver(c, c)
           \/ UNCHANGED received
    BY <1>5 DEF EndCall, Complete
  <2>2. CASE call[c].kind = "cancel" /\ Deliver(c, c)
    BY <2>1, <2>2, DeliverEvent
  <2>3. CASE UNCHANGED received
    <3>1. PICK n : n = [call[c] EXCEPT !.event = "ok"]
      OBVIOUS
    <3>2. call' = [call EXCEPT ![c] = n]
      BY <2>1, <3>1
    <3>3. Completes(c, n) /\ n.op = "finish"
      <4>1. Completes(c, [call[c] EXCEPT !.event = "ok"])
        BY <1>0, EventFacts
      <4>2. Completes(c, n)
        BY <3>1, <4>1
      <4> QED
        BY <2>1, <4>2 DEF Completes
    <3> QED
      BY <2>1, <2>3, <3>2, <3>3, QuietEvent
  <2> QED
    BY <2>1, <2>2, <2>3
<1> QED
  BY <1>1, <1>2, <1>3, <1>4, <1>5 DEF CompleteOp

\* One round of the handler's loop.
LEMMA HandleStep ==
  ASSUME ServerInv, NEW c \in Calls, ProceedNewOrder(c) \/ ProceedOther(c)
  PROVE  ServerInv'
<1>1. CASE AcceptOrderCall(c)
  BY <1>1, AcceptOrderCallStep
<1>2. CASE SkipRequest(c)
  <2>1. PICK n : n = Proceeded(c, "read")
    OBVIOUS
  <2>2. /\ Reading(c) /\ call' = [call EXCEPT ![c] = n]
        /\ UNCHANGED <<started, joining, made, peer, received>>
    BY <1>2, <2>1 DEF SkipRequest, clients
  <2> QED
    BY <2>1, <2>2, ReadOnStep
<1>3. CASE RejectRequest(c)
  <2>1. PICK x : x = Append(Proceeded(c, "read").reports,
                     Report("ORDER_REJECT", 0, call[c].buf.qty, 0, call[c].buf.qty))
    OBVIOUS
  <2>2. PICK n : n = [Proceeded(c, "read") EXCEPT !.reports = x]
    OBVIOUS
  <2>3. /\ Reading(c) /\ call' = [call EXCEPT ![c] = n]
        /\ UNCHANGED <<started, joining, made, peer, received>>
    BY <1>3, <2>1, <2>2 DEF RejectRequest, clients
  <2> QED
    BY <2>2, <2>3, ReadOnStep
<1>4. CASE ProcessRequest(c)
  <2>1. PICK x : x = Proceeded(c, "read").reports \o OrderReports(table, id', call[c].buf)
    OBVIOUS
  <2>2. PICK n : n = [Proceeded(c, "read") EXCEPT !.reports = x]
    OBVIOUS
  <2>3. /\ Reading(c) /\ call' = [call EXCEPT ![c] = n]
        /\ UNCHANGED <<started, joining, made, peer, received>>
    BY <1>4, <2>1, <2>2 DEF ProcessRequest, clients
  <2> QED
    BY <2>2, <2>3, ReadOnStep
<1>5. CASE WriteReport(c)
  BY <1>5, WriteReportStep
<1>6. CASE Overlap(c)
  BY <1>6, QuietStep DEF Overlap, clients
<1>7. CASE StopWriting(c)
  BY <1>7, StopWritingStep
<1>8. CASE CancelOrder(c)
  <2>1. PICK x : x = <<Report("CANCELED", call[c].cancel, table[call[c].cancel].qty, 0,
                              table[call[c].cancel].qty)>>
    OBVIOUS
  <2>2. PICK p : p = Proceeded(c, "finish")
    OBVIOUS
  <2>3. PICK n : n = [p EXCEPT !.status = "FINISH", !.reports = x, !.next = 1]
    OBVIOUS
  <2>4. /\ Ready(c, "cancel") /\ call[c].status = "PROCESS" /\ made' = made + 1
        /\ call' = WithListener(c, n)
        /\ UNCHANGED <<started, joining, peer, received>>
    BY <1>8, <2>1, <2>2, <2>3 DEF CancelOrder, clients
  <2> QED
    BY <2>2, <2>3, <2>4, CancelStep
<1>9. CASE CancelNothing(c)
  <2>1. PICK x : x = <<Report("CANCEL_REJECT", call[c].cancel, 0, 0, 0)>>
    OBVIOUS
  <2>2. PICK p : p = Proceeded(c, "finish")
    OBVIOUS
  <2>3. PICK n : n = [p EXCEPT !.status = "FINISH", !.next = 1, !.reports = x]
    OBVIOUS
  <2>4. /\ Ready(c, "cancel") /\ call[c].status = "PROCESS" /\ made' = made + 1
        /\ call' = WithListener(c, n)
        /\ UNCHANGED <<started, joining, peer, received>>
    BY <1>9, <2>1, <2>2, <2>3 DEF CancelNothing, clients
  <2> QED
    BY <2>2, <2>3, <2>4, CancelStep
<1>10. CASE AcceptQuery(c)
  BY <1>10, AcceptQueryStep
<1>11. CASE StreamQuery(c)
  BY <1>11, StreamQueryStep
<1>12. CASE DeleteCall(c)
  BY <1>12, DeleteCallStep
<1> QED
  BY <1>1, <1>2, <1>3, <1>4, <1>5, <1>6, <1>7, <1>8, <1>9, <1>10, <1>11, <1>12
  DEF ProceedNewOrder, ProceedOther

-----------------------------------------------------------------------------
(* Steps that make no report of a new-order call *)

\* How such a step may change call c: if it is a new-order call it keeps its reports,
\* and if it becomes one nothing of it has been received.
Moved(c) ==
  /\ Loaded(call'[c]) /\ Sending(c, call'[c])
  /\ \/ call[c].kind = "new" /\ call'[c].kind = "new" /\ call'[c].reports = call[c].reports
     \/ call[c].kind # "new" /\ call'[c].kind # "new"
     \/ call[c].kind # "new" /\ ~Reached(c) /\ call'[c].kind = "new" /\ call'[c].reports = <<>>

\* Such a step leaves what has been filled of an order.
LEMMA FilledOfSame ==
  ASSUME \A c \in Calls : call'[c] = call[c] \/ Moved(c), NEW x
  PROVE  FilledOf(x)' = FilledOf(x)
<1> DEFINE f == [c \in Calls |-> IF call[c].kind = "new" THEN FilledIn(call[c].reports, x) ELSE 0]
           g == [c \in Calls |-> IF call'[c].kind = "new" THEN FilledIn(call'[c].reports, x) ELSE 0]
<1>1. FilledOf(x) = SumFunctionOnSet(f, Calls) /\ FilledOf(x)' = SumFunctionOnSet(g, Calls)
  BY DEF FilledOf
<1>2. ASSUME NEW c \in Calls PROVE g[c] = f[c]
  <2>1. CASE call'[c] = call[c]
    BY <2>1
  <2>2. CASE Moved(c)
    <3>1. FilledIn(<<>>, x) = 0
      <4>1. <<>> \in Seq(AnyReport) /\ DOMAIN <<>> = {}
        BY EmptySeq
      <4> QED
        BY <4>1, FilledNone
    <3> QED
      BY <2>2, <3>1 DEF Moved
  <2> QED
    BY <2>1, <2>2
<1>3. IsFiniteSet(Calls)
  BY FS_Interval DEF Calls
<1> HIDE DEF f, g
<1> QED
  BY <1>1, <1>2, <1>3, SumSame

\* Nor does it disturb anything else about the reports.
LEMMA FrameStep ==
  ASSUME ReportInv, BookOK', Got', UNCHANGED <<id, responderOf>>,
         \A i \in OrderId : table'[i] # NoOrder => table'[i] = table[i],
         \A c \in Calls : call'[c] = call[c] \/ Moved(c)
  PROVE  ReportInv'
<1>1. \A c \in Calls : call[c].kind = "new" =>
        call'[c].kind = "new" /\ call'[c].reports = call[c].reports
  BY DEF Moved
<1>2. \A c \in Calls : call'[c].kind = "new" /\ call'[c].reports # <<>> =>
        call[c].kind = "new" /\ call'[c].reports = call[c].reports
  BY DEF Moved
<1>3. Responders'
  <2>1. ASSUME NEW i \in OrderId, ~(i > id)
        PROVE  /\ responderOf[i] \in Calls /\ call'[responderOf[i]].kind = "new"
               /\ \E k \in DOMAIN call'[responderOf[i]].reports :
                    /\ call'[responderOf[i]].reports[k].stat = "ORDER_ACCEPT"
                    /\ call'[responderOf[i]].reports[k].order = i
    <3>1. /\ responderOf[i] \in Calls /\ call[responderOf[i]].kind = "new"
          /\ \E k \in DOMAIN call[responderOf[i]].reports :
               /\ call[responderOf[i]].reports[k].stat = "ORDER_ACCEPT"
               /\ call[responderOf[i]].reports[k].order = i
      BY <2>1 DEF ReportInv, Responders
    <3> QED
      BY <1>1, <3>1
  <2> QED
    BY <2>1 DEF ReportInv, Responders
<1>4. ASSUME NEW c \in Calls
      PROVE  Loaded(call'[c]) /\ Reporting(c)' /\ Sending(c, call[c])'
  <2>1. Loaded(call'[c]) /\ Sending(c, call'[c])
    BY DEF ReportInv, Moved
  <2>2. Sending(c, call[c])'
    BY <2>1 DEF Sending, MeantFor
  <2>3. Reporting(c)'
    <3> SUFFICES ASSUME call'[c].kind = "new", NEW k \in DOMAIN call'[c].reports,
                        NEW r, r = call'[c].reports[k]
                 PROVE  Legit(c, r)'
      BY DEF Reporting
    <3>1. call'[c].reports # <<>>
      OBVIOUS
    <3>2. Legit(c, r)
      BY <1>2, <3>1 DEF ReportInv, Reporting
    <3> QED
      BY <3>2 DEF Legit
  <2> QED
    BY <2>1, <2>2, <2>3
<1>5. FillsAddUp'
  <2>1. \A x : FilledOf(x)' = FilledOf(x)
    BY FilledOfSame
  <2> SUFFICES ASSUME NEW c \in Calls, call'[c].kind = "new", NEW k \in DOMAIN call'[c].reports,
                      NEW r, r = call'[c].reports[k], r.stat = "ORDER_ACCEPT",
                      table'[r.order] # NoOrder
               PROVE  table'[r.order].qty + FilledOf(r.order) = r.total
    BY <2>1 DEF FillsAddUp, Produced, ReportOf
  <2>2. call'[c].reports # <<>>
    OBVIOUS
  <2>3. call[c].kind = "new" /\ k \in DOMAIN call[c].reports /\ r = call[c].reports[k]
    BY <1>2, <2>2
  <2>4. r.order \in OrderId
    BY <2>3 DEF ReportInv, Reporting, Legit, BookOK, OrderId
  <2>5. table'[r.order] = table[r.order] /\ table[r.order] # NoOrder
    BY <2>4
  <2>6. <<c, k>> \in Produced /\ ReportOf(<<c, k>>) = r
    BY <2>3 DEF Produced, ReportOf
  <2> QED
    BY <2>5, <2>6 DEF ReportInv, FillsAddUp
<1> QED
  BY <1>3, <1>4, <1>5 DEF ReportInv

\* Nothing is received, or a report that is sent where it belongs.
LEMMA GotStep ==
  ASSUME Shape, Got, responderOf' = responderOf,
         \A c \in Calls : call'[c] = call[c] \/ Moved(c),
         \/ received' = received
         \/ \E c, d \in Calls : /\ Deliver(c, d)
                                /\ call'[c].kind = call[c].kind
                                /\ call[c].kind = "new" =>
                                     d = MeantFor(c, call[c].reports[call[c].next])
  PROVE  Got'
<1> SUFFICES ASSUME NEW d \in Calls, NEW a \in DOMAIN received'[d],
                    NEW c, c = received'[d][a][1], call'[c].kind = "new",
                    NEW k, k = received'[d][a][2], NEW r, r = call'[c].reports[k]
             PROVE  d = MeantFor(c, r)'
  BY DEF Got
<1>1. CASE a \in DOMAIN received[d] /\ received'[d][a] = received[d][a]
  <2>1. c \in Calls /\ c = received[d][a][1] /\ k = received[d][a][2]
    BY <1>1, ReceivedFacts
  <2>2. Reached(c)
    BY <1>1, <2>1 DEF Reached
  <2>3. call[c].kind = "new" /\ call'[c].reports = call[c].reports
    BY <2>1, <2>2 DEF Moved
  <2>4. d = MeantFor(c, call[c].reports[k])
    BY <1>1, <2>1, <2>3 DEF Got
  <2>5. r = call[c].reports[k]
    BY <2>3
  <2> QED
    BY <2>4, <2>5 DEF MeantFor
<1>2. CASE ~(a \in DOMAIN received[d] /\ received'[d][a] = received[d][a])
  <2>1. PICK e, f \in Calls : /\ Deliver(e, f)
                              /\ call'[e].kind = call[e].kind
                              /\ call[e].kind = "new" =>
                                   f = MeantFor(e, call[e].reports[call[e].next])
    BY <1>2
  <2>2. received' = [received EXCEPT ![f] = Append(received[f], <<e, call[e].next>>)]
    BY <2>1 DEF Deliver
  <2>3. d = f /\ c = e /\ k = call[e].next
    <3>1. received \in [Calls -> Seq(Calls \X (Nat \ {0}))]
      BY DEF Shape
    <3>2. d = f
      BY <1>2, <2>2, <3>1
    <3>3. received'[d] = Append(received[d], <<e, call[e].next>>)
      BY <2>2, <3>1, <3>2
    <3>4. PICK s, t, x : s = received[d] /\ t = received'[d] /\ x = <<e, call[e].next>>
      OBVIOUS
    <3>5. t = Append(s, x) /\ Len(s) \in Nat /\ DOMAIN s = 1 .. Len(s)
      BY <3>3, <3>4, ReceivedFacts
    <3>6. a \in 1 .. Len(s) + 1 /\ \A j \in 1 .. Len(s) : t[j] = s[j]
      BY <3>4, <3>5
    <3>7. a = Len(s) + 1 /\ t[a] = x
      BY <1>2, <3>4, <3>5, <3>6
    <3> QED
      BY <3>2, <3>4, <3>7
  <2>4. call[e].kind = "new" /\ call'[e].reports = call[e].reports
    BY <2>1, <2>3 DEF Moved
  <2> QED
    BY <2>1, <2>3, <2>4 DEF MeantFor
<1> QED
  BY <1>1, <1>2

\* One call changes, and makes no report if it is a new-order call.
LEMMA OneMoved ==
  ASSUME Shape, NEW c \in Calls, NEW n, call' = [call EXCEPT ![c] = n],
         Loaded(n), Sending(c, n), n.kind = "new" <=> call[c].kind = "new",
         call[c].kind = "new" => n.reports = call[c].reports
  PROVE  /\ \A d \in Calls : call'[d] = call[d] \/ Moved(d)
         /\ call'[c] = n
<1>1. call'[c] = n /\ \A d \in Calls : d # c => call'[d] = call[d]
  BY DEF Shape
<1> QED
  BY <1>1 DEF Moved

\* The objects the constructors make have nothing to report.
LEMMA BlankFacts ==
  /\ \A k : /\ Loaded(Listener(k)) /\ Listener(k).reports = <<>> /\ Listener(k).kind = k
            /\ \A c : Sending(c, Listener(k))
  /\ Loaded(Absent) /\ Absent.kind = "none" /\ \A c : Sending(c, Absent)
<1>1. Blank \in Request
  BY DEF Blank, Request, Side, Kind
<1>2. 0 \in 0 .. MaxCalls /\ 0 \in 0 .. MaxOrders /\ <<>> \in Seq(AnyReport) /\ Len(<<>>) = 0
  OBVIOUS
<1>3. \A k, p : /\ CallData(k, p).to = 0 /\ CallData(k, p).buf = Blank
                /\ CallData(k, p).cancel = 0 /\ CallData(k, p).reports = <<>>
                /\ CallData(k, p).next = 0 /\ CallData(k, p).op = p /\ CallData(k, p).kind = k
  BY DEF CallData
<1>4. \A k, p : Loaded(CallData(k, p))
  <2> SUFFICES ASSUME NEW k, NEW p, NEW o, o = CallData(k, p) PROVE Loaded(o)
    OBVIOUS
  <2>1. o.to = 0 /\ o.buf = Blank /\ o.cancel = 0 /\ o.reports = <<>> /\ o.next = 0
    BY <1>3
  <2>2. Len(o.reports) = 0
    BY <1>2, <2>1
  <2> QED
    BY <1>1, <1>2, <2>1, <2>2 DEF Loaded
<1> QED
  BY <1>3, <1>4 DEF Listener, Absent, Sending

\* A call is accepted, and the next listener made.
LEMMA ListenerMoved ==
  ASSUME ServerInv, NEW c \in Calls, NEW n, call' = WithListener(c, n),
         call[c].op = "request", call[c].event # "none",
         Loaded(n), Sending(c, n), n.kind = "new" <=> call[c].kind = "new",
         call[c].kind = "new" => n.reports = call[c].reports
  PROVE  \A d \in Calls : call'[d] = call[d] \/ Moved(d)
<1>1. Shape /\ made + 1 \in Calls /\ made \in Nat
  BY RoomForListener DEF ServerInv, Shape
<1>2. PICK m \in Calls : m = made + 1
  BY <1>1
<1>3. PICK l : l = Listener(n.kind)
  OBVIOUS
<1>4. call'[c] = n
  BY AcceptedCall
<1>5. m > made
  BY <1>1, <1>2
<1>6. call[m].kind = "none" /\ ~Reached(m)
  BY <1>5 DEF ServerInv, Fresh
<1>7. c # m
  <2>1. Phase(c)
    BY DEF ServerInv, CallInv
  <2> QED
    BY <1>6, <2>1 DEF Phase
<1>8. call' = [call EXCEPT ![c] = n, ![m] = l]
  BY <1>2, <1>3 DEF WithListener
<1>9. call'[m] = l /\ \A d \in Calls : d # c /\ d # m => call'[d] = call[d]
  BY <1>1, <1>7, <1>8 DEF Shape
<1>10. Moved(m)
  BY <1>3, <1>6, <1>9, BlankFacts DEF Moved
<1>11. Moved(c)
  BY <1>4 DEF Moved
<1> QED
  BY <1>9, <1>10, <1>11

\* The book stays as it is when nothing of it is touched.
LEMMA BookSame ==
  ASSUME BookOK, UNCHANGED <<id, table, inbox>>, fault' \in {"none", "overlap"}
  PROVE  BookOK'
BY DEF BookOK

\* A step of one call that neither makes a report of a new-order call nor touches the book.
LEMMA OwnFrame ==
  ASSUME ServerInv, ReportInv, NEW c \in Calls, NEW n,
         \/ call' = [call EXCEPT ![c] = n]
         \/ call' = WithListener(c, n) /\ call[c].op = "request" /\ call[c].event # "none",
         Loaded(n), Sending(c, n), n.kind = "new" <=> call[c].kind = "new",
         call[c].kind = "new" => n.reports = call[c].reports,
         UNCHANGED <<id, table, responderOf, inbox, received>>,
         fault' \in {"none", "overlap"}
  PROVE  ReportInv'
<1>1. Shape /\ BookOK /\ Got
  BY DEF ServerInv, ReportInv
<1>2. \A d \in Calls : call'[d] = call[d] \/ Moved(d)
  BY <1>1, OneMoved, ListenerMoved
<1>3. BookOK'
  BY <1>1, BookSame
<1>4. Got'
  BY <1>1, <1>2, GotStep
<1> QED
  BY <1>2, <1>3, <1>4, FrameStep

\* n has been asked and has to report what o has.
SameLoad(n, o) ==
  /\ n.kind = o.kind /\ n.to = o.to /\ n.buf = o.buf /\ n.cancel = o.cancel
  /\ n.reports = o.reports /\ n.next = o.next

\* Then it is loaded as well.
LEMMA SameLoaded ==
  ASSUME NEW o, NEW n, Loaded(o), SameLoad(n, o)
  PROVE  Loaded(n)
BY DEF Loaded, SameLoad

-----------------------------------------------------------------------------
(* The steps of the handler that make no report of a new-order call *)

\* A request is skipped, a new-order call accepted, or its writing over.
LEMMA ReadOrStopReports ==
  ASSUME ServerInv, ReportInv, NEW c \in Calls,
         AcceptOrderCall(c) \/ SkipRequest(c) \/ StopWriting(c)
  PROVE  ReportInv'
<1>1. Shape /\ Loaded(call[c]) /\ fault \in {"none", "overlap"} /\ CallInv(c)
  BY DEF ServerInv, ReportInv, BookOK
<1>2. ASSUME NEW op \in {"none", "read"}, NEW p, p = Proceeded(c, op)
      PROVE  IsCall(p) /\ SameLoad(p, call[c]) /\ p.op = op
  BY <1>1, <1>2, ProceededFacts DEF SameLoad
<1>3. CASE AcceptOrderCall(c)
  <2>1. PICK p : p = Proceeded(c, "read")
    OBVIOUS
  <2>2. PICK n : n = [p EXCEPT !.created = TRUE]
    OBVIOUS
  <2>3. IsCall(p) /\ SameLoad(p, call[c]) /\ p.op = "read"
    BY <1>2, <2>1
  <2>4. SameLoad(n, p) /\ n.op = "read"
    BY <2>2, <2>3 DEF IsCall, SameLoad
  <2>5. SameLoad(n, call[c])
    BY <2>3, <2>4 DEF SameLoad
  <2>6. /\ call' = WithListener(c, n) /\ call[c].event # "none" /\ ~call[c].created
        /\ call[c].kind = "new"
        /\ UNCHANGED <<id, table, responderOf, inbox, received, fault>>
    BY <1>3, <2>1, <2>2 DEF AcceptOrderCall, Ready, market, clients
  <2>7. call[c].op = "request"
    BY <1>1, <2>6 DEF CallInv, Phase
  <2>8. Loaded(n) /\ Sending(c, n) /\ n.kind = call[c].kind /\ n.reports = call[c].reports
    BY <1>1, <2>4, <2>5, SameLoaded DEF Sending, SameLoad
  <2> QED
    BY <1>1, <2>6, <2>7, <2>8, OwnFrame
<1>4. CASE SkipRequest(c)
  <2>1. PICK n : n = Proceeded(c, "read")
    OBVIOUS
  <2>2. SameLoad(n, call[c]) /\ n.op = "read"
    BY <1>2, <2>1
  <2>3. /\ call' = [call EXCEPT ![c] = n]
        /\ UNCHANGED <<id, table, responderOf, inbox, received, fault>>
    BY <1>4, <2>1 DEF SkipRequest, market, clients
  <2>4. Loaded(n) /\ Sending(c, n) /\ n.kind = call[c].kind /\ n.reports = call[c].reports
    BY <1>1, <2>2, SameLoaded DEF Sending, SameLoad
  <2> QED
    BY <1>1, <2>3, <2>4, OwnFrame
<1>5. CASE StopWriting(c)
  <2>1. PICK p : p = Proceeded(c, "none")
    OBVIOUS
  <2>2. PICK n : n = [p EXCEPT !.writing = TRUE]
    OBVIOUS
  <2>3. IsCall(p) /\ SameLoad(p, call[c]) /\ p.op = "none"
    BY <1>2, <2>1
  <2>4. SameLoad(n, p) /\ n.op = "none"
    BY <2>2, <2>3 DEF IsCall, SameLoad
  <2>5. SameLoad(n, call[c])
    BY <2>3, <2>4 DEF SameLoad
  <2>6. /\ call' = [call EXCEPT ![c] = n]
        /\ UNCHANGED <<id, table, responderOf, inbox, received, fault>>
    BY <1>5, <2>1, <2>2 DEF StopWriting, market, clients
  <2>7. Loaded(n) /\ Sending(c, n) /\ n.kind = call[c].kind /\ n.reports = call[c].reports
    BY <1>1, <2>4, <2>5, SameLoaded DEF Sending, SameLoad
  <2> QED
    BY <1>1, <2>6, <2>7, OwnFrame
<1> QED
  BY <1>3, <1>4, <1>5

\* The call that the next report of a new-order call goes to.
LEMMA AddresseeFacts ==
  ASSUME ReportInv, NEW c \in Calls, call[c].kind = "new", call[c].next \in Nat,
         call[c].next < Len(call[c].reports), NEW k, k = call[c].next + 1
  PROVE  /\ k \in DOMAIN call[c].reports /\ k <= Len(call[c].reports)
         /\ Addressee(c) = MeantFor(c, call[c].reports[k])
         /\ Addressee(c) \in Calls /\ call[Addressee(c)].kind = "new"
<1>1. call[c].reports \in Seq(AnyReport)
  BY DEF ReportInv, Loaded
<1>2. k \in DOMAIN call[c].reports /\ k <= Len(call[c].reports)
  <2>1. Len(call[c].reports) \in Nat /\ DOMAIN call[c].reports = 1 .. Len(call[c].reports)
    BY <1>1, LenProperties
  <2> QED
    BY <2>1
<1>3. PICK r : r = call[c].reports[k]
  OBVIOUS
<1>4. Legit(c, r)
  BY <1>2, <1>3 DEF ReportInv, Reporting
<1>5. Addressee(c) = MeantFor(c, r)
  BY <1>3 DEF Addressee, MeantFor
<1>6. CASE r.order = 0
  BY <1>2, <1>3, <1>5, <1>6 DEF MeantFor
<1>7. CASE r.order # 0
  <2>1. r.order \in 1 .. id
    BY <1>4, <1>7 DEF Legit
  <2>2. r.order \in OrderId /\ ~(r.order > id)
    BY <2>1 DEF ReportInv, BookOK, OrderId
  <2>3. responderOf[r.order] \in Calls /\ call[responderOf[r.order]].kind = "new"
    BY <2>2 DEF ReportInv, Responders
  <2> QED
    BY <1>2, <1>3, <1>5, <1>7, <2>3 DEF MeantFor
<1> QED
  BY <1>6, <1>7

\* A report is written to the stream it is meant for.
LEMMA WriteReports ==
  ASSUME ServerInv, ReportInv, NEW c \in Calls, WriteReport(c)
  PROVE  ReportInv'
<1>1. Shape /\ Loaded(call[c]) /\ fault \in {"none", "overlap"}
  BY DEF ServerInv, ReportInv, BookOK
<1>2. /\ call[c].kind = "new" /\ call[c].next < Len(call[c].reports)
      /\ UNCHANGED <<id, table, responderOf, inbox, received, fault>>
  BY DEF WriteReport, WritesOn, Ready, market, clients
<1>3. PICK p, x, k : p = Proceeded(c, "write") /\ x = Addressee(c) /\ k = call[c].next + 1
  OBVIOUS
<1>4. IsCall(p) /\ SameLoad(p, call[c]) /\ p.op = "write" /\ call[c].next \in Nat
  <2>1. IsCall(call[c])
    BY <1>1 DEF Shape
  <2> QED
    BY <1>1, <1>3, <2>1, ProceededFacts DEF SameLoad, IsCall
<1>5. p.next + 1 = k
  BY <1>3, <1>4 DEF SameLoad
<1>6. PICK n : n = [p EXCEPT !.to = x, !.writing = TRUE, !.next = k]
  OBVIOUS
<1>7. call' = [call EXCEPT ![c] = n]
  BY <1>3, <1>5, <1>6 DEF WriteReport
<1>8. /\ n.kind = "new" /\ n.op = "write" /\ n.to = x /\ n.next = k
      /\ n.buf = call[c].buf /\ n.cancel = call[c].cancel /\ n.reports = call[c].reports
  BY <1>2, <1>4, <1>6 DEF IsCall, SameLoad
<1>9. /\ k <= Len(call[c].reports) /\ x = MeantFor(c, call[c].reports[k]) /\ x \in Calls
  BY <1>2, <1>3, <1>4, AddresseeFacts
<1>10. Loaded(n)
  <2>1. x \in 0 .. MaxCalls
    BY <1>9 DEF Calls
  <2> QED
    BY <1>1, <1>8, <1>9, <2>1 DEF Loaded
<1>11. Sending(c, n)
  BY <1>8, <1>9 DEF Sending
<1> QED
  BY <1>1, <1>2, <1>7, <1>8, <1>10, <1>11, OwnFrame

\* A cancel call is answered; if its order is there, it goes.
LEMMA CancelReports ==
  ASSUME ServerInv, ReportInv, NEW c \in Calls, CancelOrder(c) \/ CancelNothing(c)
  PROVE  ReportInv'
<1>1. Shape /\ Loaded(call[c]) /\ BookOK /\ Got /\ CallInv(c)
  BY DEF ServerInv, ReportInv
<1>2. /\ call[c].kind = "cancel" /\ call[c].event # "none" /\ call[c].status = "PROCESS"
      /\ UNCHANGED <<id, responderOf, inbox, received, fault>>
  BY DEF CancelOrder, CancelNothing, Ready, market, clients, Market!Cancel
<1>3. call[c].op = "request"
  BY <1>1, <1>2 DEF CallInv, Phase
<1>4. PICK p : p = Proceeded(c, "finish")
  OBVIOUS
<1>5. IsCall(p) /\ SameLoad(p, call[c]) /\ p.op = "finish"
  BY <1>1, <1>4, ProceededFacts DEF SameLoad
<1>6. ASSUME NEW r \in AnyReport, NEW n,
             \/ n = [p EXCEPT !.status = "FINISH", !.reports = <<r>>, !.next = 1]
             \/ n = [p EXCEPT !.status = "FINISH", !.next = 1, !.reports = <<r>>]
      PROVE  Loaded(n) /\ Sending(c, n) /\ n.kind = "cancel"
  <2>1. PICK s : s = <<r>>
    OBVIOUS
  <2>2. s \in Seq(AnyReport) /\ Len(s) = 1
    BY <2>1
  <2>3. n = [p EXCEPT !.status = "FINISH", !.reports = s, !.next = 1]
    BY <1>6, <2>1
  <2>4. /\ n.kind = "cancel" /\ n.op = "finish" /\ n.to = p.to /\ n.buf = p.buf
        /\ n.cancel = p.cancel /\ n.reports = s /\ n.next = 1
    BY <1>2, <1>5, <2>3 DEF IsCall, SameLoad
  <2>5. n.to = call[c].to /\ n.buf = call[c].buf /\ n.cancel = call[c].cancel
    BY <1>5, <2>4 DEF SameLoad
  <2>6. n.reports \in Seq(AnyReport) /\ n.next <= Len(n.reports)
    <3>1. n.reports \in Seq(AnyReport) /\ Len(n.reports) = 1
      BY <2>2, <2>4
    <3> QED
      BY <2>4, <3>1
  <2>7. Loaded(n)
    BY <1>1, <2>5, <2>6 DEF Loaded
  <2> QED
    BY <2>4, <2>7 DEF Sending
<1>7. CASE CancelOrder(c)
  <2>1. PICK i, q : i = call[c].cancel /\ q = table[i].qty
    OBVIOUS
  <2>2. i \in OrderId /\ table[i] # NoOrder /\ table' = [table EXCEPT ![i] = NoOrder]
    BY <1>7, <2>1 DEF CancelOrder, Market!Cancel
  <2>3. q \in Nat /\ i \in Nat
    <3>1. table[i] \in Order
      BY <1>1, <2>2 DEF BookOK
    <3> QED
      BY <2>1, <2>2, <3>1 DEF Order, OrderId
  <2>4. PICK r : r = Report("CANCELED", i, q, 0, q)
    OBVIOUS
  <2>5. r \in AnyReport
    BY <2>3, <2>4 DEF Report, AnyReport
  <2>6. PICK n : n = [p EXCEPT !.status = "FINISH", !.reports = <<r>>, !.next = 1]
    OBVIOUS
  <2>7. call' = WithListener(c, n)
    BY <1>4, <1>7, <2>1, <2>4, <2>6 DEF CancelOrder
  <2>8. Loaded(n) /\ Sending(c, n) /\ n.kind = "cancel"
    BY <1>6, <2>5, <2>6
  <2>9. \A d \in Calls : call'[d] = call[d] \/ Moved(d)
    BY <1>2, <1>3, <2>7, <2>8, ListenerMoved
  <2>10. \A j \in OrderId : table'[j] # NoOrder => table'[j] = table[j]
    BY <1>1, <2>2 DEF BookOK
  <2>11. BookOK'
    BY <1>1, <1>2, <2>2 DEF BookOK
  <2>12. Got'
    BY <1>1, <1>2, <2>9, GotStep
  <2> QED
    BY <1>2, <2>9, <2>10, <2>11, <2>12, FrameStep
<1>8. CASE CancelNothing(c)
  <2>1. PICK r : r = Report("CANCEL_REJECT", call[c].cancel, 0, 0, 0)
    OBVIOUS
  <2>2. r \in AnyReport
    <3>1. call[c].cancel \in Nat
      BY <1>1 DEF Loaded
    <3> QED
      BY <2>1, <3>1 DEF Report, AnyReport
  <2>3. PICK n : n = [p EXCEPT !.status = "FINISH", !.next = 1, !.reports = <<r>>]
    OBVIOUS
  <2>4. call' = WithListener(c, n) /\ UNCHANGED table
    BY <1>4, <1>8, <2>1, <2>3 DEF CancelNothing, market
  <2>5. Loaded(n) /\ Sending(c, n) /\ n.kind = "cancel"
    BY <1>6, <2>2, <2>3
  <2>6. fault' \in {"none", "overlap"}
    BY <1>1, <1>2 DEF BookOK
  <2> QED
    BY <1>2, <1>3, <2>4, <2>5, <2>6, OwnFrame
<1> QED
  BY <1>7, <1>8

\* What a query does next, with a sequence of reports to stream.
LEMMA QueryLoaded ==
  ASSUME ServerInv, ReportInv, NEW c \in Calls, NEW s \in Seq(AnyReport), NEW k,
         k = call[c].next, k <= Len(s), call[c].kind = "query", call[c].status = "PROCESS",
         NEW n, n = QueryStep(c, s, k)
  PROVE  IsCall(n) /\ Loaded(n) /\ Sending(c, n) /\ n.kind = call[c].kind
<1>1. /\ Shape /\ Loaded(call[c]) /\ IsCall(call[c])
      /\ k \in Nat /\ Len(s) \in Nat /\ c \in 0 .. MaxCalls
  BY LenProperties DEF ServerInv, ReportInv, Shape, IsCall, Calls
<1>0. IsCall(n) /\ n.kind = call[c].kind
  BY <1>1, QueryFacts
<1>2. CASE k >= Len(s)
  <2>1. PICK p : p = Proceeded(c, "finish")
    OBVIOUS
  <2>2. n = [p EXCEPT !.status = "FINISH", !.reports = s]
    BY <1>2, <2>1 DEF QueryStep
  <2>3. IsCall(p) /\ SameLoad(p, call[c]) /\ p.op = "finish"
    BY <1>1, <2>1, ProceededFacts DEF SameLoad
  <2>4. /\ n.op = "finish" /\ n.to = call[c].to /\ n.buf = call[c].buf
        /\ n.cancel = call[c].cancel /\ n.reports = s /\ n.next = k
    BY <2>2, <2>3 DEF IsCall, SameLoad
  <2> QED
    BY <1>0, <1>1, <2>4 DEF Loaded, Sending
<1>3. CASE ~(k >= Len(s))
  <2>1. PICK p, j : p = Proceeded(c, "write") /\ j = k + 1
    OBVIOUS
  <2>2. n = [p EXCEPT !.to = c, !.reports = s, !.next = j]
    BY <1>3, <2>1 DEF QueryStep
  <2>3. IsCall(p) /\ SameLoad(p, call[c]) /\ p.op = "write"
    BY <1>1, <2>1, ProceededFacts DEF SameLoad
  <2>4. /\ n.op = "write" /\ n.to = c /\ n.buf = call[c].buf
        /\ n.cancel = call[c].cancel /\ n.reports = s /\ n.next = j
    BY <2>2, <2>3 DEF IsCall, SameLoad
  <2>5. j <= Len(s)
    BY <1>1, <1>3, <2>1
  <2>6. Loaded(n)
    BY <1>1, <2>4, <2>5 DEF Loaded
  <2>7. Sending(c, n)
    BY <1>0, <2>4 DEF Sending
  <2> QED
    BY <1>0, <2>6, <2>7
<1> QED
  BY <1>2, <1>3

\* A query takes its snapshot, goes on streaming it, or ends.
LEMMA QueryReports ==
  ASSUME ServerInv, ReportInv, NEW c \in Calls, AcceptQuery(c) \/ StreamQuery(c) \/ DeleteCall(c)
  PROVE  ReportInv'
<1>1. Shape /\ Loaded(call[c]) /\ fault \in {"none", "overlap"} /\ CallInv(c) /\ BookOK
  BY DEF ServerInv, ReportInv, BookOK
<1>2. UNCHANGED <<id, table, responderOf, inbox, received, fault>>
  BY DEF AcceptQuery, StreamQuery, DeleteCall, market, clients
<1>3. CASE AcceptQuery(c)
  <2>1. PICK s : s = Snapshot
    OBVIOUS
  <2>2. s \in Seq(AnyReport) /\ 0 <= Len(s)
    BY <1>1, <2>1, SnapshotType, LenProperties DEF BookOK
  <2>3. PICK q : q = QueryStep(c, s, 0)
    OBVIOUS
  <2>4. PICK n : n = [q EXCEPT !.created = TRUE]
    OBVIOUS
  <2>5. /\ call' = WithListener(c, n) /\ call[c].kind = "query" /\ call[c].event # "none"
        /\ call[c].status = "PROCESS" /\ ~call[c].created
    BY <1>3, <2>1, <2>3, <2>4 DEF AcceptQuery, Ready
  <2>6. call[c].op = "request" /\ call[c].next = 0
    BY <1>1, <2>5 DEF CallInv, Phase
  <2>7. IsCall(q) /\ Loaded(q) /\ Sending(c, q) /\ q.kind = "query"
    BY <2>2, <2>3, <2>5, <2>6, QueryLoaded
  <2>8. SameLoad(n, q) /\ n.op = q.op
    BY <2>4, <2>7 DEF IsCall, SameLoad
  <2>9. Loaded(n) /\ Sending(c, n) /\ n.kind = "query"
    BY <2>7, <2>8, SameLoaded DEF Sending, SameLoad
  <2> QED
    BY <1>1, <1>2, <2>5, <2>6, <2>9, OwnFrame
<1>4. CASE StreamQuery(c)
  <2>1. PICK n : n = QueryStep(c, call[c].reports, call[c].next)
    OBVIOUS
  <2>2. call' = [call EXCEPT ![c] = n] /\ call[c].kind = "query" /\ call[c].status = "PROCESS"
    BY <1>4, <2>1 DEF StreamQuery, Ready
  <2>3. call[c].reports \in Seq(AnyReport) /\ call[c].next <= Len(call[c].reports)
    BY <1>1 DEF Loaded
  <2>4. Loaded(n) /\ Sending(c, n) /\ n.kind = "query"
    BY <2>1, <2>2, <2>3, QueryLoaded
  <2> QED
    BY <1>1, <1>2, <2>2, <2>4, OwnFrame
<1>5. CASE DeleteCall(c)
  <2>1. PICK n : n = Absent
    OBVIOUS
  <2>2. call' = [call EXCEPT ![c] = n] /\ call[c].status = "FINISH"
    BY <1>5, <2>1 DEF DeleteCall
  <2>3. call[c].kind # "new"
    BY <1>1, <2>2 DEF CallInv, Phase
  <2>4. Loaded(n) /\ Sending(c, n) /\ n.kind = "none"
    BY <2>1, BlankFacts
  <2> QED
    BY <1>1, <1>2, <2>2, <2>3, <2>4, OwnFrame
<1> QED
  BY <1>3, <1>4, <1>5

-----------------------------------------------------------------------------
(* The steps of the main program, of gRPC and of the clients *)

\* Run starts the handler: three calls appear that nobody has heard of.
LEMMA StartReports ==
  ASSUME ServerInv, ReportInv, StartHandler
  PROVE  ReportInv'
<1>1. Shape /\ BookOK /\ Got
  BY DEF ServerInv, ReportInv
<1>2. /\ made \in Nat /\ made + 3 <= MaxCalls /\ MaxCalls \in Nat
      /\ UNCHANGED <<id, table, responderOf, inbox, received, fault>>
  BY <1>1 DEF StartHandler, Shape, market, clients
<1>3. PICK m1, m2, m3 \in Calls : m1 = made + 1 /\ m2 = made + 2 /\ m3 = made + 3
  BY <1>2 DEF Calls
<1>4. PICK l1, l2, l3 : l1 = Listener("new") /\ l2 = Listener("cancel") /\ l3 = Listener("query")
  OBVIOUS
<1>5. call' = [call EXCEPT ![m1] = l1, ![m2] = l2, ![m3] = l3]
  BY <1>3, <1>4 DEF StartHandler
<1>6. ASSUME NEW d \in Calls
      PROVE  \/ call'[d] = call[d]
             \/ d > made /\ call'[d] \in {l1, l2, l3}
  <2>1. call = [e \in Calls |-> call[e]]
    BY <1>1 DEF Shape
  <2>2. d # m1 /\ d # m2 /\ d # m3 => call'[d] = call[d]
    BY <1>5, <2>1
  <2>3. d \in {m1, m2, m3} => call'[d] \in {l1, l2, l3}
    BY <1>5, <2>1
  <2>4. d \in {m1, m2, m3} => d > made
    BY <1>2, <1>3
  <2> QED
    BY <2>2, <2>3, <2>4
<1>7. ASSUME NEW d \in Calls, d > made, call'[d] \in {l1, l2, l3} PROVE Moved(d)
  <2>1. call[d].kind = "none" /\ ~Reached(d)
    BY <1>7 DEF ServerInv, Fresh
  <2>2. Loaded(call'[d]) /\ Sending(d, call'[d]) /\ call'[d].reports = <<>>
    BY <1>4, <1>7, BlankFacts
  <2> QED
    BY <2>1, <2>2 DEF Moved
<1>8. \A d \in Calls : call'[d] = call[d] \/ Moved(d)
  BY <1>6, <1>7
<1>9. BookOK'
  BY <1>1, <1>2, BookSame DEF BookOK
<1>10. Got'
  BY <1>1, <1>2, <1>8, GotStep
<1> QED
  BY <1>2, <1>8, <1>9, <1>10, FrameStep

\* A client makes a call.
LEMMA ConnectReports ==
  ASSUME ServerInv, ReportInv, NEW c \in Calls, Connect(c)
  PROVE  ReportInv'
<1>1. Shape /\ BookOK /\ Got /\ Loaded(call[c]) /\ Sending(c, call[c])
  BY DEF ServerInv, ReportInv
<1>2. /\ call[c].op = "request"
      /\ UNCHANGED <<id, table, responderOf, received, fault>>
  BY DEF Connect, Complete, market
<1>3. PICK i : /\ i \in 0 .. MaxOrders
               /\ call' = [call EXCEPT ![c].event = "ok", ![c].cancel = i]
  <2>1. PICK i \in IF call[c].kind = "cancel" THEN 0 .. MaxOrders ELSE {0} :
          call' = [call EXCEPT ![c].event = "ok", ![c].cancel = i]
    BY DEF Connect
  <2>2. i \in 0 .. MaxOrders
    <3>1. 0 \in 0 .. MaxOrders
      BY OrdersAssumption
    <3> QED
      BY <3>1
  <2> QED
    BY <2>1, <2>2
<1>4. PICK n : n = [call[c] EXCEPT !.event = "ok", !.cancel = i]
  OBVIOUS
<1>5. call' = [call EXCEPT ![c] = n]
  BY <1>3, <1>4
<1>6. /\ n.kind = call[c].kind /\ n.op = "request" /\ n.to = call[c].to
      /\ n.buf = call[c].buf /\ n.cancel = i /\ n.reports = call[c].reports
      /\ n.next = call[c].next
  <2>1. PICK o : o = call[c]
    OBVIOUS
  <2>2. IsCall(o) /\ n = [o EXCEPT !.event = "ok", !.cancel = i]
    BY <1>1, <1>4, <2>1 DEF Shape
  <2>3. /\ n.kind = o.kind /\ n.op = o.op /\ n.to = o.to /\ n.buf = o.buf
        /\ n.cancel = i /\ n.reports = o.reports /\ n.next = o.next
    BY <2>2 DEF IsCall
  <2> QED
    BY <1>2, <2>1, <2>3
<1>7. Loaded(n) /\ Sending(c, n)
  BY <1>1, <1>3, <1>6 DEF Loaded, Sending
<1>8. \A d \in Calls : call'[d] = call[d] \/ Moved(d)
  BY <1>1, <1>5, <1>6, <1>7, OneMoved
<1>9. inbox' \in [Calls -> Seq(Requests)]
  <2>1. inbox' = inbox \/ \E b \in Batches : inbox' = [inbox EXCEPT ![c] = b]
    BY DEF Connect
  <2>2. inbox \in [Calls -> Seq(Requests)] /\ Batches \subseteq Seq(Requests)
    BY <1>1, CallsAssumption DEF BookOK
  <2> QED
    BY <2>1, <2>2
<1>10. BookOK'
  BY <1>1, <1>2, <1>9 DEF BookOK
<1>11. Got'
  BY <1>1, <1>2, <1>8, GotStep
<1> QED
  BY <1>2, <1>8, <1>10, <1>11, FrameStep

\* Nothing happens to the calls and to the book.
LEMMA QuietReports ==
  ASSUME ServerInv, ReportInv, UNCHANGED <<id, table, responderOf, call, inbox, received>>,
         fault' \in {"none", "overlap"}
  PROVE  ReportInv'
<1>1. Shape /\ BookOK /\ Got
  BY DEF ServerInv, ReportInv
<1>2. BookOK'
  BY <1>1, BookSame
<1>3. Got'
  BY <1>1, GotStep
<1> QED
  BY <1>2, <1>3, FrameStep

\* What is being sent goes to a call.
LEMMA SendingFacts ==
  ASSUME ReportInv, NEW c \in Calls, call[c].op = "write", call[c].next \in Nat,
         call[c].next > 0
  PROVE  /\ call[c].to \in Calls
         /\ call[c].kind = "new" =>
              call[c].to = MeantFor(c, call[c].reports[call[c].next])
<1>1. Sending(c, call[c]) /\ Loaded(call[c])
  BY DEF ReportInv
<1>2. CASE call[c].kind # "new"
  BY <1>1, <1>2 DEF Sending
<1>3. CASE call[c].kind = "new"
  <2>1. PICK k, r : k = call[c].next /\ r = call[c].reports[k]
    OBVIOUS
  <2>2. k \in DOMAIN call[c].reports
    <3>1. k \in Nat /\ k > 0 /\ k <= Len(call[c].reports)
      BY <1>1, <2>1 DEF Loaded
    <3>2. Len(call[c].reports) \in Nat /\ DOMAIN call[c].reports = 1 .. Len(call[c].reports)
      BY <1>1, LenProperties DEF Loaded
    <3> QED
      BY <3>1, <3>2
  <2>3. Legit(c, r)
    BY <1>3, <2>1, <2>2 DEF ReportInv, Reporting
  <2>4. call[c].to = MeantFor(c, r)
    BY <1>1, <1>3, <2>1 DEF Sending
  <2>5. MeantFor(c, r) \in Calls
    <3>1. CASE r.order = 0
      BY <3>1 DEF MeantFor
    <3>2. CASE r.order # 0
      <4>1. r.order \in 1 .. id
        BY <2>3, <3>2 DEF Legit
      <4>2. r.order \in OrderId /\ ~(r.order > id)
        BY <4>1 DEF ReportInv, BookOK, OrderId
      <4>3. responderOf[r.order] \in Calls
        BY <4>2 DEF ReportInv, Responders
      <4> QED
        BY <3>2, <4>3 DEF MeantFor
    <3> QED
      BY <3>1, <3>2
  <2> QED
    BY <2>1, <2>4, <2>5
<1> QED
  BY <1>2, <1>3

\* An operation completes.
LEMMA CompleteReports ==
  ASSUME ServerInv, ReportInv, NEW c \in Calls, CompleteOp(c)
  PROVE  ReportInv'
<1>1. /\ Shape /\ BookOK /\ Got /\ Loaded(call[c]) /\ Sending(c, call[c]) /\ CallInv(c)
      /\ call[c].next \in Nat
  BY DEF ServerInv, ReportInv, Shape, IsCall
<1>2. call[c].event = "none" /\ UNCHANGED <<id, table, responderOf, fault>>
  BY DEF CompleteOp, GetRequest, EndRequests, PutReport, LoseReport, EndCall, Complete, market
<1>3. fault' \in {"none", "overlap"}
  BY <1>1, <1>2 DEF BookOK
<1>4. ASSUME NEW e, NEW n, n = [call[c] EXCEPT !.event = e], call' = [call EXCEPT ![c] = n]
      PROVE  /\ Loaded(n) /\ Sending(c, n) /\ n.kind = call[c].kind
             /\ n.reports = call[c].reports
             /\ \A d \in Calls : call'[d] = call[d] \/ Moved(d)
             /\ call'[c] = n
  <2>1. SameLoad(n, call[c]) /\ n.op = call[c].op
    <3>1. PICK o : o = call[c]
      OBVIOUS
    <3>2. IsCall(o) /\ n = [o EXCEPT !.event = e]
      BY <1>1, <1>4, <3>1 DEF Shape
    <3>3. SameLoad(n, o) /\ n.op = o.op
      BY <3>2 DEF IsCall, SameLoad
    <3> QED
      BY <3>1, <3>3
  <2>2. Loaded(n) /\ Sending(c, n) /\ n.kind = call[c].kind /\ n.reports = call[c].reports
    BY <1>1, <2>1, SameLoaded DEF Sending, SameLoad
  <2> QED
    BY <1>1, <1>4, <2>2, OneMoved
<1>5. CASE GetRequest(c)
  <2>1. PICK x : x = Head(inbox[c])
    OBVIOUS
  <2>2. PICK n : n = [call[c] EXCEPT !.event = "ok", !.buf = x]
    OBVIOUS
  <2>3. /\ call' = [call EXCEPT ![c] = n] /\ call[c].op = "read" /\ inbox[c] # <<>>
        /\ inbox' = [inbox EXCEPT ![c] = Tail(inbox[c])] /\ received' = received
    BY <1>5, <2>1, <2>2 DEF GetRequest, Complete
  <2>4. inbox \in [Calls -> Seq(Requests)] /\ inbox[c] \in Seq(Requests)
    BY <1>1 DEF BookOK
  <2>5. x \in Request /\ Tail(inbox[c]) \in Seq(Requests)
    <3>1. x \in Requests /\ Tail(inbox[c]) \in Seq(Requests)
      BY <2>1, <2>3, <2>4, HeadTailProperties
    <3> QED
      BY <3>1, OrdersAssumption
  <2>6. /\ n.kind = call[c].kind /\ n.op = "read" /\ n.to = call[c].to
        /\ n.buf = x /\ n.cancel = call[c].cancel /\ n.reports = call[c].reports
        /\ n.next = call[c].next
    <3>1. PICK o : o = call[c]
      OBVIOUS
    <3>2. IsCall(o) /\ n = [o EXCEPT !.event = "ok", !.buf = x]
      BY <1>1, <2>2, <3>1 DEF Shape
    <3>3. /\ n.kind = o.kind /\ n.op = o.op /\ n.to = o.to /\ n.buf = x
          /\ n.cancel = o.cancel /\ n.reports = o.reports /\ n.next = o.next
      BY <3>2 DEF IsCall
    <3> QED
      BY <2>3, <3>1, <3>3
  <2>7. Loaded(n) /\ Sending(c, n)
    BY <1>1, <2>5, <2>6 DEF Loaded, Sending
  <2>8. \A d \in Calls : call'[d] = call[d] \/ Moved(d)
    BY <1>1, <2>3, <2>6, <2>7, OneMoved
  <2>9. inbox' \in [Calls -> Seq(Requests)]
    BY <2>3, <2>4, <2>5
  <2>10. BookOK'
    BY <1>1, <1>2, <2>9 DEF BookOK
  <2>11. Got'
    BY <1>1, <1>2, <2>3, <2>8, GotStep
  <2> QED
    BY <1>2, <2>8, <2>10, <2>11, FrameStep
<1>6. CASE EndRequests(c) \/ LoseReport(c)
  <2>1. PICK e : call' = [call EXCEPT ![c].event = e]
    BY <1>6 DEF EndRequests, LoseReport
  <2>2. PICK n : n = [call[c] EXCEPT !.event = e]
    OBVIOUS
  <2>3. call' = [call EXCEPT ![c] = n]
    BY <2>1, <2>2
  <2>4. UNCHANGED <<inbox, received>>
    BY <1>6 DEF EndRequests, LoseReport, clients
  <2>5. Loaded(n) /\ Sending(c, n) /\ n.kind = call[c].kind /\ n.reports = call[c].reports
    BY <1>4, <2>2, <2>3
  <2> QED
    BY <1>2, <1>3, <2>3, <2>4, <2>5, OwnFrame
<1>7. ASSUME NEW d \in Calls, Deliver(c, d), call' = [call EXCEPT ![c].event = "ok"],
             UNCHANGED inbox,
             call[c].kind = "new" => d = MeantFor(c, call[c].reports[call[c].next])
      PROVE  ReportInv'
  <2>1. PICK n : n = [call[c] EXCEPT !.event = "ok"]
    OBVIOUS
  <2>2. call' = [call EXCEPT ![c] = n]
    BY <1>7, <2>1
  <2>3. /\ \A e \in Calls : call'[e] = call[e] \/ Moved(e)
        /\ call'[c].kind = call[c].kind
    BY <1>4, <2>1, <2>2
  <2>4. BookOK'
    BY <1>1, <1>2, <1>3, <1>7, BookSame
  <2>5. Got'
    BY <1>1, <1>2, <1>7, <2>3, GotStep
  <2> QED
    BY <1>2, <2>3, <2>4, <2>5, FrameStep
<1>8. CASE PutReport(c)
  <2>1. /\ call[c].op = "write" /\ Deliver(c, call[c].to)
        /\ call' = [call EXCEPT ![c].event = "ok"] /\ UNCHANGED inbox
    BY <1>8 DEF PutReport, Complete
  <2>2. call[c].next > 0
    BY <1>1, <2>1 DEF CallInv, Counted
  <2>3. /\ call[c].to \in Calls
        /\ call[c].kind = "new" => call[c].to = MeantFor(c, call[c].reports[call[c].next])
    BY <1>1, <2>1, <2>2, SendingFacts
  <2> QED
    BY <1>7, <2>1, <2>3
<1>9. CASE EndCall(c)
  <2>1. /\ call' = [call EXCEPT ![c].event = "ok"] /\ UNCHANGED inbox
        /\ call[c].op = "finish"
    BY <1>9 DEF EndCall, Complete
  <2>2. CASE call[c].kind = "cancel" /\ peer[c] = "up"
    <3>1. Deliver(c, c) /\ call[c].kind # "new"
      BY <1>9, <2>2 DEF EndCall
    <3> QED
      BY <1>7, <2>1, <3>1
  <2>3. CASE ~(call[c].kind = "cancel" /\ peer[c] = "up")
    <3>1. received' = received
      BY <1>9, <2>3 DEF EndCall
    <3>2. PICK n : n = [call[c] EXCEPT !.event = "ok"]
      OBVIOUS
    <3>3. call' = [call EXCEPT ![c] = n]
      BY <2>1, <3>2
    <3>4. Loaded(n) /\ Sending(c, n) /\ n.kind = call[c].kind /\ n.reports = call[c].reports
      BY <1>4, <3>2, <3>3
    <3> QED
      BY <1>2, <1>3, <2>1, <3>1, <3>3, <3>4, OwnFrame
  <2> QED
    BY <2>2, <2>3
<1> QED
  BY <1>5, <1>6, <1>8, <1>9 DEF CompleteOp

-----------------------------------------------------------------------------
(* The steps that make reports of a new-order call *)

\* The reports `new` have been added to those of call c; the other calls are as they were.
Grown(c, new) ==
  /\ \A d \in Calls : call'[d].kind = call[d].kind /\ Loaded(call'[d])
  /\ \A d \in Calls : d # c => call'[d] = call[d]
  /\ call[c].kind = "new" /\ call'[c].op # "write"
  /\ \A d \in Calls : \A k \in DOMAIN call[d].reports :
       k \in DOMAIN call'[d].reports /\ call'[d].reports[k] = call[d].reports[k]
  /\ \A k \in DOMAIN call'[c].reports :
       \/ k \in DOMAIN call[c].reports /\ call'[c].reports[k] = call[c].reports[k]
       \/ \E j \in DOMAIN new : call'[c].reports[k] = new[j]
  /\ \A j \in DOMAIN new : \E k \in DOMAIN call'[c].reports : call'[c].reports[k] = new[j]
  /\ \A x : /\ FilledOf(x) \in Nat /\ FilledIn(new, x) \in Nat
            /\ FilledOf(x)' = FilledOf(x) + FilledIn(new, x)

\* How much has been filled of an order, with the reports `new` more.
LEMMA FilledOfMore ==
  ASSUME ReportInv, NEW c \in Calls, NEW new \in Seq(AnyReport), NEW x,
         call[c].kind = "new", call'[c].kind = "new",
         call'[c].reports = call[c].reports \o new,
         \A d \in Calls : d # c => call'[d] = call[d]
  PROVE  /\ FilledOf(x) \in Nat /\ FilledIn(new, x) \in Nat
         /\ FilledOf(x)' = FilledOf(x) + FilledIn(new, x)
<1> DEFINE f == [d \in Calls |-> IF call[d].kind = "new" THEN FilledIn(call[d].reports, x) ELSE 0]
           g == [d \in Calls |-> IF call'[d].kind = "new" THEN FilledIn(call'[d].reports, x) ELSE 0]
<1>1. FilledOf(x) = SumFunctionOnSet(f, Calls) /\ FilledOf(x)' = SumFunctionOnSet(g, Calls)
  BY DEF FilledOf
<1>2. PICK n : n = FilledIn(new, x)
  OBVIOUS
<1>3. n \in Nat
  BY <1>2, FilledTypes
<1>4. \A d \in Calls : call[d].reports \in Seq(AnyReport)
  BY DEF ReportInv, Loaded
<1>5. \A d \in Calls : f[d] \in Nat
  BY <1>4, FilledTypes
<1>6. \A d \in Calls : d # c => g[d] = f[d]
  OBVIOUS
<1>7. g[c] = f[c] + n
  <2>1. g[c] = FilledIn(call'[c].reports, x) /\ f[c] = FilledIn(call[c].reports, x)
    OBVIOUS
  <2>2. PICK s : s = call[c].reports
    OBVIOUS
  <2>3. s \in Seq(AnyReport)
    BY <1>4, <2>2
  <2>4. FilledIn(s \o new, x) = FilledIn(s, x) + n
    BY <1>2, <2>3, FilledConcat
  <2> QED
    BY <2>1, <2>2, <2>4
<1>8. IsFiniteSet(Calls)
  BY CallsAssumption, FS_Interval DEF Calls
<1> HIDE DEF f, g
<1>9. SumFunctionOnSet(f, Calls) \in Nat
  BY <1>5, <1>8, SumNat
<1>10. SumFunctionOnSet(g, Calls) = SumFunctionOnSet(f, Calls) + n
  BY <1>3, <1>5, <1>6, <1>7, <1>8, SumChange
<1> QED
  BY <1>1, <1>2, <1>3, <1>9, <1>10

\* So much for what adding reports means.
LEMMA GrownFacts ==
  ASSUME Shape, ReportInv, NEW c \in Calls, NEW new \in Seq(AnyReport), NEW n,
         call' = [call EXCEPT ![c] = n], call[c].kind = "new",
         n.kind = "new", n.op = "read", n.to = call[c].to, n.buf = call[c].buf,
         n.cancel = call[c].cancel, n.next = call[c].next,
         n.reports = call[c].reports \o new
  PROVE  Grown(c, new)
<1>1. call'[c] = n /\ \A d \in Calls : d # c => call'[d] = call[d]
  BY DEF Shape
<1>2. PICK s, t : s = call[c].reports /\ t = call'[c].reports
  OBVIOUS
<1>3. /\ t = s \o new /\ s \in Seq(AnyReport) /\ call[c].next <= Len(s) /\ call[c].next \in Nat
      /\ Loaded(call[c])
  BY <1>1, <1>2 DEF ReportInv, Loaded, Shape, IsCall
<1>4. /\ Len(s) \in Nat /\ Len(new) \in Nat /\ DOMAIN s = 1 .. Len(s)
      /\ DOMAIN new = 1 .. Len(new)
  BY <1>3, LenProperties
<1>5. /\ t \in Seq(AnyReport) /\ Len(t) = Len(s) + Len(new)
      /\ \A k \in 1 .. Len(s) + Len(new) : t[k] = IF k <= Len(s) THEN s[k] ELSE new[k - Len(s)]
  BY <1>3, ConcatProperties
<1>6. DOMAIN t = 1 .. Len(s) + Len(new)
  BY <1>5, LenProperties
<1>7. \A k \in DOMAIN s : k \in DOMAIN t /\ t[k] = s[k]
  BY <1>4, <1>5, <1>6
<1>8. ASSUME NEW k \in DOMAIN t
      PROVE  (k \in DOMAIN s /\ t[k] = s[k]) \/ \E j \in DOMAIN new : t[k] = new[j]
  <2>1. CASE k <= Len(s)
    BY <1>4, <1>5, <1>6, <2>1
  <2>2. CASE ~(k <= Len(s))
    <3>1. k - Len(s) \in 1 .. Len(new)
      BY <1>4, <1>6, <2>2
    <3>2. t[k] = new[k - Len(s)]
      BY <1>5, <1>6, <2>2
    <3> QED
      BY <1>4, <3>1, <3>2
  <2> QED
    BY <2>1, <2>2
<1>9. ASSUME NEW j \in DOMAIN new
      PROVE  \E k \in DOMAIN t : t[k] = new[j]
  <2>1. PICK k : k = Len(s) + j
    OBVIOUS
  <2>2. k \in 1 .. Len(s) + Len(new) /\ ~(k <= Len(s)) /\ k - Len(s) = j
    BY <1>4, <2>1
  <2>3. t[k] = new[k - Len(s)]
    BY <1>5, <2>2
  <2> QED
    BY <1>6, <2>2, <2>3
<1>10. Loaded(call'[c])
  <2>1. call[c].next <= Len(t)
    BY <1>3, <1>4, <1>5
  <2>2. n.reports = t /\ t \in Seq(AnyReport)
    BY <1>1, <1>2, <1>5
  <2> QED
    BY <1>1, <1>3, <2>1, <2>2 DEF Loaded
<1>11. \A d \in Calls : call'[d].kind = call[d].kind /\ Loaded(call'[d])
  BY <1>1, <1>10 DEF ReportInv
<1>12. \A x : /\ FilledOf(x) \in Nat /\ FilledIn(new, x) \in Nat
              /\ FilledOf(x)' = FilledOf(x) + FilledIn(new, x)
  BY <1>1, FilledOfMore
<1>13. \A d \in Calls : \A k \in DOMAIN call[d].reports :
        k \in DOMAIN call'[d].reports /\ call'[d].reports[k] = call[d].reports[k]
  BY <1>1, <1>2, <1>7
<1>14. \A k \in DOMAIN call'[c].reports :
         \/ k \in DOMAIN call[c].reports /\ call'[c].reports[k] = call[c].reports[k]
         \/ \E j \in DOMAIN new : call'[c].reports[k] = new[j]
  BY <1>2, <1>8
<1>15. \A j \in DOMAIN new : \E k \in DOMAIN call'[c].reports : call'[c].reports[k] = new[j]
  BY <1>2, <1>9
<1>16. call'[c].op # "write"
  BY <1>1
<1> QED
  BY <1>1, <1>11, <1>12, <1>13, <1>14, <1>15, <1>16 DEF Grown

\* A report is for the same call as before.
LEMMA MeantSame ==
  ASSUME ReportInv, NEW c \in Calls, call[c].kind = "new", NEW k \in DOMAIN call[c].reports,
         NEW r, r = call[c].reports[k], id' >= id, id' \in Nat,
         \A j \in 1 .. id : responderOf'[j] = responderOf[j]
  PROVE  MeantFor(c, r)' = MeantFor(c, r) /\ Legit(c, r)'
<1>1. Legit(c, r)
  BY DEF ReportInv, Reporting
<1>2. id \in Nat /\ (r.order \in 1 .. id => r.order \in 1 .. id')
  BY DEF ReportInv, BookOK
<1>3. r.order = 0 \/ r.order \in 1 .. id
  BY <1>1 DEF Legit
<1> QED
  BY <1>1, <1>2, <1>3 DEF Legit, MeantFor

\* Making reports keeps the invariant, if what there is now of orders and of fills is right.
LEMMA GrowStep ==
  ASSUME ServerInv, ReportInv, NEW c \in Calls, NEW new, Grown(c, new),
         BookOK', Responders', FillsAddUp', id' >= id, id' \in Nat,
         \A j \in 1 .. id : responderOf'[j] = responderOf[j],
         \A r : (\E k \in DOMAIN new : r = new[k]) => Legit(c, r)',
         received' = received
  PROVE  ReportInv'
<1>1. ASSUME NEW d \in Calls, call[d].kind = "new" PROVE Reporting(d)'
  <2> SUFFICES ASSUME NEW k \in DOMAIN call'[d].reports, NEW r, r = call'[d].reports[k]
               PROVE  Legit(d, r)'
    BY DEF Reporting
  <2>1. CASE k \in DOMAIN call[d].reports /\ call'[d].reports[k] = call[d].reports[k]
    BY <1>1, <2>1, MeantSame
  <2>2. CASE ~(k \in DOMAIN call[d].reports /\ call'[d].reports[k] = call[d].reports[k])
    <3>1. d = c
      BY <2>2 DEF Grown
    <3>2. \E j \in DOMAIN new : r = new[j]
      BY <2>2, <3>1 DEF Grown
    <3> QED
      BY <3>1, <3>2
  <2> QED
    BY <2>1, <2>2
<1>2. ASSUME NEW d \in Calls, d # c PROVE Sending(d, call[d])'
  <2>1. call'[d] = call[d]
    BY <1>2 DEF Grown
  <2>2. Sending(d, call[d])
    BY DEF ReportInv
  <2>3. CASE call[d].kind = "new" /\ call[d].op = "write"
    <3>1. PICK k, r : k = call[d].next /\ r = call[d].reports[k]
      OBVIOUS
    <3>2. k \in DOMAIN call[d].reports
      <4>1. k \in Nat /\ k > 0 /\ k <= Len(call[d].reports) /\ call[d].reports \in Seq(AnyReport)
        BY <2>3, <3>1 DEF ServerInv, CallInv, Counted, Shape, IsCall, ReportInv, Loaded
      <4>2. Len(call[d].reports) \in Nat /\ DOMAIN call[d].reports = 1 .. Len(call[d].reports)
        BY <4>1, LenProperties
      <4> QED
        BY <4>1, <4>2
    <3>3. MeantFor(d, r)' = MeantFor(d, r)
      BY <2>3, <3>1, <3>2, MeantSame
    <3>4. call[d].to = MeantFor(d, r)
      BY <2>2, <2>3, <3>1 DEF Sending
    <3>5. call'[d].to = MeantFor(d, r)' /\ r = call'[d].reports[call'[d].next]
      BY <2>1, <3>1, <3>3, <3>4
    <3> QED
      BY <2>1, <2>3, <3>5 DEF Sending, MeantFor
  <2>4. CASE ~(call[d].kind = "new" /\ call[d].op = "write")
    BY <2>1, <2>2, <2>4 DEF Sending
  <2> QED
    BY <2>3, <2>4
<1>3. Sending(c, call[c])'
  BY DEF Grown, Sending
<1>4. Got'
  <2> SUFFICES ASSUME NEW d \in Calls, NEW a \in DOMAIN received[d],
                      NEW e, e = received[d][a][1], call'[e].kind = "new",
                      NEW k, k = received[d][a][2], NEW r, r = call'[e].reports[k]
               PROVE  d = MeantFor(e, r)'
    BY DEF Got
  <2>1. Shape
    BY DEF ServerInv
  <2>2. e \in Calls /\ k \in Nat /\ k > 0
    BY <2>1, ReceivedFacts
  <2>3. call[e].kind = "new"
    BY <2>2 DEF Grown
  <2>4. k <= call[e].next
    BY <2>2, <2>3 DEF ServerInv, CallInv, Delivered
  <2>5. k \in DOMAIN call[e].reports
    <3>1. /\ call[e].next \in Nat /\ call[e].next <= Len(call[e].reports)
          /\ call[e].reports \in Seq(AnyReport)
      BY <2>1, <2>2 DEF Shape, IsCall, ReportInv, Loaded
    <3>2. Len(call[e].reports) \in Nat /\ DOMAIN call[e].reports = 1 .. Len(call[e].reports)
      BY <3>1, LenProperties
    <3> QED
      BY <2>2, <2>4, <3>1, <3>2
  <2>6. r = call[e].reports[k]
    BY <2>2, <2>5 DEF Grown
  <2>7. d = MeantFor(e, r)
    BY <2>3, <2>6 DEF ReportInv, Got
  <2>8. MeantFor(e, r)' = MeantFor(e, r)
    BY <2>2, <2>3, <2>5, <2>6, MeantSame
  <2> QED
    BY <2>7, <2>8
<1>5. \A d \in Calls : Loaded(call'[d]) /\ (call'[d].kind = "new" => call[d].kind = "new")
  BY DEF Grown
<1>6. \A d \in Calls : Reporting(d)'
  BY <1>1, <1>5 DEF Reporting
<1>7. \A d \in Calls : Sending(d, call[d])'
  BY <1>2, <1>3
<1> QED
  BY <1>4, <1>5, <1>6, <1>7 DEF ReportInv

\* A request is turned down.
LEMMA RejectReports ==
  ASSUME ServerInv, ReportInv, NEW c \in Calls, RejectRequest(c)
  PROVE  ReportInv'
<1>1. Shape /\ BookOK /\ Responders /\ FillsAddUp /\ Loaded(call[c])
  BY DEF ServerInv, ReportInv
<1>2. /\ call[c].kind = "new"
      /\ UNCHANGED <<id, table, responderOf, inbox, received, fault>>
  BY DEF RejectRequest, Reading, Ready, market, clients
<1>3. PICK q, r : q = call[c].buf.qty /\ r = Report("ORDER_REJECT", 0, q, 0, q)
  OBVIOUS
<1>4. r \in AnyReport /\ r.stat = "ORDER_REJECT" /\ r.order = 0 /\ r.fill = 0
  <2>1. q \in Nat
    BY <1>1, <1>3 DEF Loaded, Request
  <2> QED
    BY <1>3, <2>1 DEF Report, AnyReport
<1>5. PICK new : new = <<r>>
  OBVIOUS
<1>6. new \in Seq(AnyReport) /\ DOMAIN new = {1} /\ new[1] = r
  BY <1>4, <1>5
<1>7. PICK p : p = Proceeded(c, "read")
  OBVIOUS
<1>8. IsCall(p) /\ SameLoad(p, call[c]) /\ p.op = "read"
  BY <1>1, <1>7, ProceededFacts DEF SameLoad
<1>9. PICK s : s = call[c].reports \o new
  OBVIOUS
<1>10. PICK n : n = [p EXCEPT !.reports = s]
  OBVIOUS
<1>11. call' = [call EXCEPT ![c] = n]
  <2>1. call' = [call EXCEPT ![c] = [p EXCEPT !.reports = Append(p.reports, r)]]
    BY <1>3, <1>7 DEF RejectRequest
  <2>2. Append(p.reports, r) = s
    <3>1. p.reports = call[c].reports /\ call[c].reports \in Seq(AnyReport)
      BY <1>1, <1>8 DEF SameLoad, Loaded
    <3>2. PICK u : u = call[c].reports
      OBVIOUS
    <3>3. Append(u, r) = u \o <<r>>
      BY <1>4, <3>1, <3>2
    <3> QED
      BY <1>5, <1>9, <3>1, <3>2, <3>3
  <2> QED
    BY <1>10, <2>1, <2>2
<1>12. /\ n.kind = "new" /\ n.op = "read" /\ n.to = call[c].to /\ n.buf = call[c].buf
       /\ n.cancel = call[c].cancel /\ n.next = call[c].next
       /\ n.reports = call[c].reports \o new
  BY <1>2, <1>8, <1>9, <1>10 DEF IsCall, SameLoad
<1>13. Grown(c, new)
  BY <1>1, <1>2, <1>6, <1>11, <1>12, GrownFacts
<1>14. BookOK' /\ id' >= id /\ id' \in Nat
  BY <1>1, <1>2 DEF BookOK
<1>15. Responders'
  <2> SUFFICES ASSUME NEW i \in OrderId, ~(i > id)
               PROVE  /\ responderOf[i] \in Calls /\ call'[responderOf[i]].kind = "new"
                      /\ \E k \in DOMAIN call'[responderOf[i]].reports :
                           /\ call'[responderOf[i]].reports[k].stat = "ORDER_ACCEPT"
                           /\ call'[responderOf[i]].reports[k].order = i
    BY <1>1, <1>2 DEF Responders
  <2>1. PICK d : d = responderOf[i]
    OBVIOUS
  <2>2. /\ d \in Calls /\ call[d].kind = "new"
        /\ \E k \in DOMAIN call[d].reports :
             /\ call[d].reports[k].stat = "ORDER_ACCEPT"
             /\ call[d].reports[k].order = i
    BY <1>1, <2>1 DEF Responders
  <2> QED
    BY <1>13, <2>1, <2>2 DEF Grown
<1>16. \A k \in DOMAIN new : Legit(c, new[k])
  BY <1>4, <1>6 DEF Legit
<1>17. \A x : (\E k \in DOMAIN new : x = new[k]) => Legit(c, x)'
  BY <1>2, <1>16 DEF Legit
<1>18. FillsAddUp'
  <2>1. \A i \in OrderId : FilledIn(new, i) = 0 /\ FilledOf(i)' = FilledOf(i) /\ i # 0
    <3> SUFFICES ASSUME NEW i \in OrderId PROVE FilledIn(new, i) = 0 /\ FilledOf(i)' = FilledOf(i)
      BY DEF OrderId
    <3>1. FilledIn(<<r>>, i) = 0
      BY <1>4, FilledOne DEF OrderId
    <3>2. FilledOf(i) \in Nat /\ FilledOf(i)' = FilledOf(i) + 0
      BY <1>5, <1>13, <3>1 DEF Grown
    <3> QED
      BY <1>5, <3>1, <3>2
  <2> SUFFICES ASSUME NEW d \in Calls, call'[d].kind = "new", NEW k \in DOMAIN call'[d].reports,
                      NEW x, x = call'[d].reports[k], x.stat = "ORDER_ACCEPT",
                      table[x.order] # NoOrder
               PROVE  table[x.order].qty + FilledOf(x.order)' = x.total
    BY <1>2 DEF FillsAddUp, Produced, ReportOf
  <2>2. k \in DOMAIN call[d].reports /\ call'[d].reports[k] = call[d].reports[k]
    BY <1>4, <1>6, <1>13 DEF Grown
  <2>3. call[d].kind = "new" /\ x = call[d].reports[k]
    BY <1>13, <2>2 DEF Grown
  <2>4. x.order \in OrderId
    <3>1. Legit(d, x)
      BY <2>2, <2>3 DEF ReportInv, Reporting
    <3>2. x.order \in 1 .. id /\ id \in 0 .. MaxOrders
      BY <1>1, <3>1 DEF Legit, BookOK
    <3> QED
      BY <3>2, OrdersAssumption DEF OrderId
  <2>5. <<d, k>> \in Produced /\ ReportOf(<<d, k>>) = x
    BY <2>2, <2>3 DEF Produced, ReportOf
  <2>6. table[x.order].qty + FilledOf(x.order) = x.total
    BY <1>1, <2>5 DEF FillsAddUp
  <2> QED
    BY <2>1, <2>4, <2>6
<1> QED
  BY <1>2, <1>13, <1>14, <1>15, <1>17, <1>18, GrowStep

\* A request is accepted: it trades, and both sides are told.
LEMMA ProcessReports ==
  ASSUME ServerInv, ReportInv, NEW c \in Calls, ProcessRequest(c)
  PROVE  ReportInv'
<1>1. Shape /\ BookOK /\ Responders /\ FillsAddUp /\ Loaded(call[c])
  BY DEF ServerInv, ReportInv
<1>2. call[c].kind = "new" /\ UNCHANGED <<inbox, received, fault>>
  BY DEF ProcessRequest, Reading, Ready, clients
<1>3. PICK o, i : o = call[c].buf /\ i = id + 1
  OBVIOUS
<1>4. /\ CheckRequest(o) /\ id < MaxOrders /\ id' = i /\ table' = Submitted(table, i, o)
  <2>1. Market!Submit(o)
    BY <1>3 DEF ProcessRequest
  <2> QED
    BY <1>3, <2>1, SubmitIs
<1>5. /\ o \in Order /\ i \in OrderId /\ i \in Nat /\ id \in Nat /\ i = id + 1
      /\ i <= MaxOrders /\ table[i] = NoOrder
      /\ table \in [OrderId -> Order \cup {NoOrder}]
  <2>1. o \in Order
    BY <1>1, <1>3, <1>4, AcceptedOrder DEF Loaded
  <2>2. id \in Nat /\ i \in Nat /\ i > id /\ i <= MaxOrders /\ i >= 1
    BY <1>1, <1>3, <1>4, OrdersAssumption DEF BookOK
  <2>3. i \in OrderId
    BY <2>2, OrdersAssumption DEF OrderId
  <2> QED
    BY <1>1, <1>3, <2>1, <2>2, <2>3 DEF BookOK
<1>6. PICK new, s : new = OrderReports(table, i, o) /\ s = Submitted(table, i, o)
  OBVIOUS
<1>7. /\ new \in Seq(AnyReport) /\ 1 \in DOMAIN new
      /\ new[1].stat = "ORDER_ACCEPT" /\ new[1].order = i
      /\ new[1].total = o.qty /\ new[1].fill = 0
      /\ \A k \in DOMAIN new : k # 1 =>
           /\ new[k].stat = "FILL" /\ new[k].order \in OrderId
           /\ new[k].order = i \/ table[new[k].order] # NoOrder
      /\ s \in [OrderId -> Order \cup {NoOrder}]
      /\ s[i] # NoOrder => s[i].qty + FilledIn(new, i) = o.qty
      /\ \A j \in OrderId : j # i /\ s[j] # NoOrder =>
           table[j] # NoOrder /\ s[j].qty + FilledIn(new, j) = table[j].qty
  BY <1>5, <1>6, OrderReportsFacts
<1>8. PICK p : p = Proceeded(c, "read")
  OBVIOUS
<1>9. IsCall(p) /\ SameLoad(p, call[c]) /\ p.op = "read"
  BY <1>1, <1>8, ProceededFacts DEF SameLoad
<1>10. PICK w : w = call[c].reports \o new
  OBVIOUS
<1>11. PICK n : n = [p EXCEPT !.reports = w]
  OBVIOUS
<1>12. /\ call' = [call EXCEPT ![c] = n]
       /\ responderOf' = [responderOf EXCEPT ![i] = c]
  <2>1. p.reports \o new = w
    BY <1>9, <1>10 DEF SameLoad
  <2>2. call' = [call EXCEPT ![c] = [p EXCEPT !.reports = p.reports \o new]]
    BY <1>3, <1>4, <1>6, <1>8 DEF ProcessRequest
  <2> QED
    BY <1>4, <1>11, <2>1, <2>2 DEF ProcessRequest
<1>13. /\ n.kind = "new" /\ n.op = "read" /\ n.to = call[c].to /\ n.buf = call[c].buf
       /\ n.cancel = call[c].cancel /\ n.next = call[c].next
       /\ n.reports = call[c].reports \o new
  BY <1>2, <1>9, <1>10, <1>11 DEF IsCall, SameLoad
<1>14. Grown(c, new)
  BY <1>1, <1>2, <1>7, <1>12, <1>13, GrownFacts
<1>15. table' = s
  BY <1>4, <1>6
<1>16. \A j \in OrderId : j > i => s[j] = NoOrder
  <2> SUFFICES ASSUME NEW j \in OrderId, j > i, s[j] # NoOrder PROVE FALSE
    OBVIOUS
  <2>1. j \in Nat /\ j # i /\ j > id
    BY <1>5 DEF OrderId
  <2>2. table[j] = NoOrder
    BY <1>1, <2>1 DEF BookOK
  <2> QED
    BY <1>7, <2>1, <2>2
<1>17. BookOK' /\ id' >= id /\ id' \in Nat
  <2>1. id' \in 0 .. MaxOrders /\ id' >= id /\ id' \in Nat
    BY <1>4, <1>5, OrdersAssumption
  <2>2. \A j \in OrderId : j > id' => table'[j] = NoOrder
    BY <1>4, <1>15, <1>16
  <2>3. table' \in [OrderId -> Order \cup {NoOrder}]
    BY <1>7, <1>15
  <2> QED
    BY <1>1, <1>2, <2>1, <2>2, <2>3 DEF BookOK
<1>18. /\ responderOf' \in [OrderId -> 0 .. MaxCalls] /\ responderOf'[i] = c
       /\ \A j \in OrderId : j # i => responderOf'[j] = responderOf[j]
  <2>1. c \in 0 .. MaxCalls /\ responderOf \in [OrderId -> 0 .. MaxCalls]
    BY <1>1 DEF Calls, Responders
  <2> QED
    BY <1>5, <1>12, <2>1
<1>19. \A j \in 1 .. id : responderOf'[j] = responderOf[j]
  <2> SUFFICES ASSUME NEW j \in 1 .. id PROVE j \in OrderId /\ j # i
    BY <1>18
  <2> QED
    BY <1>5, OrdersAssumption DEF OrderId
<1>20. Responders'
  <2>1. ASSUME NEW j \in OrderId, ~(j > i)
        PROVE  /\ responderOf'[j] \in Calls /\ call'[responderOf'[j]].kind = "new"
               /\ \E k \in DOMAIN call'[responderOf'[j]].reports :
                    /\ call'[responderOf'[j]].reports[k].stat = "ORDER_ACCEPT"
                    /\ call'[responderOf'[j]].reports[k].order = j
    <3>1. CASE j = i
      <4>1. PICK k \in DOMAIN call'[c].reports : call'[c].reports[k] = new[1]
        BY <1>7, <1>14 DEF Grown
      <4>2. call'[c].kind = "new"
        BY <1>14 DEF Grown
      <4> QED
        BY <1>7, <1>18, <3>1, <4>1, <4>2
    <3>2. CASE j # i
      <4>1. ~(j > id) /\ responderOf'[j] = responderOf[j]
        BY <1>5, <1>18, <2>1, <3>2 DEF OrderId
      <4>2. PICK d : d = responderOf[j]
        OBVIOUS
      <4>3. /\ d \in Calls /\ call[d].kind = "new"
            /\ \E k \in DOMAIN call[d].reports :
                 /\ call[d].reports[k].stat = "ORDER_ACCEPT"
                 /\ call[d].reports[k].order = j
        BY <1>1, <4>1, <4>2 DEF Responders
      <4>4. /\ call'[d].kind = "new"
            /\ \E k \in DOMAIN call'[d].reports :
                 /\ call'[d].reports[k].stat = "ORDER_ACCEPT"
                 /\ call'[d].reports[k].order = j
        BY <1>14, <4>3 DEF Grown
      <4> QED
        BY <4>1, <4>2, <4>3, <4>4
    <3> QED
      BY <3>1, <3>2
  <2>2. \A j \in OrderId : j > i => responderOf'[j] = 0
    <3> SUFFICES ASSUME NEW j \in OrderId, j > i PROVE responderOf'[j] = 0
      OBVIOUS
    <3>1. j > id /\ j # i
      BY <1>5 DEF OrderId
    <3>2. responderOf[j] = 0
      BY <1>1, <3>1 DEF Responders
    <3> QED
      BY <1>18, <3>1, <3>2
  <2> QED
    BY <1>4, <1>18, <2>1, <2>2 DEF Responders
<1>21. \A r : (\E k \in DOMAIN new : r = new[k]) => Legit(c, r)'
  <2> SUFFICES ASSUME NEW k \in DOMAIN new, NEW r, r = new[k] PROVE Legit(c, r)'
    OBVIOUS
  <2>1. CASE k = 1
    <3>1. r.stat = "ORDER_ACCEPT" /\ r.order = i /\ r.fill = 0
      BY <1>7, <2>1
    <3>2. r.order \in 1 .. id' /\ responderOf'[r.order] = c
      BY <1>4, <1>5, <1>18, <3>1
    <3> QED
      BY <3>1, <3>2 DEF Legit
  <2>2. CASE k # 1
    <3>1. r.stat = "FILL" /\ r.order \in OrderId /\ (r.order = i \/ table[r.order] # NoOrder)
      BY <1>7, <2>2
    <3>2. r.order \in 1 .. i
      <4>1. r.order \in Nat /\ r.order >= 1
        BY <3>1, OrdersAssumption DEF OrderId
      <4>2. r.order = i \/ ~(r.order > id)
        BY <1>1, <3>1 DEF BookOK
      <4> QED
        BY <1>5, <4>1, <4>2
    <3> QED
      BY <1>4, <3>1, <3>2 DEF Legit
  <2> QED
    BY <2>1, <2>2
<1>22. FilledOf(i) = 0
  <2> DEFINE f == [d \in Calls |-> IF call[d].kind = "new" THEN FilledIn(call[d].reports, i) ELSE 0]
  <2>1. FilledOf(i) = SumFunctionOnSet(f, Calls)
    BY DEF FilledOf
  <2>2. ASSUME NEW d \in Calls PROVE f[d] = 0
    <3>1. CASE call[d].kind = "new"
      <4>1. ASSUME NEW k \in DOMAIN call[d].reports PROVE call[d].reports[k].order # i
        <5>1. PICK r : r = call[d].reports[k]
          OBVIOUS
        <5>2. Legit(d, r)
          BY <3>1, <5>1 DEF ReportInv, Reporting
        <5>3. r.order = 0 \/ r.order \in 1 .. id
          BY <5>2 DEF Legit
        <5> QED
          BY <1>5, <5>1, <5>3
      <4>2. call[d].reports \in Seq(AnyReport)
        BY DEF ReportInv, Loaded
      <4>3. FilledIn(call[d].reports, i) = 0
        BY <4>1, <4>2, FilledNone
      <4> QED
        BY <3>1, <4>3
    <3>2. CASE call[d].kind # "new"
      BY <3>2
    <3> QED
      BY <3>1, <3>2
  <2>3. IsFiniteSet(Calls)
    BY CallsAssumption, FS_Interval DEF Calls
  <2> HIDE DEF f
  <2> QED
    BY <2>1, <2>2, <2>3, SumZero
<1>23. FillsAddUp'
  <2> SUFFICES ASSUME NEW d \in Calls, call'[d].kind = "new", NEW k \in DOMAIN call'[d].reports,
                      NEW x, x = call'[d].reports[k], x.stat = "ORDER_ACCEPT",
                      s[x.order] # NoOrder
               PROVE  s[x.order].qty + FilledOf(x.order)' = x.total
    BY <1>15 DEF FillsAddUp, Produced, ReportOf
  <2>1. \A y : /\ FilledOf(y) \in Nat /\ FilledIn(new, y) \in Nat
               /\ FilledOf(y)' = FilledOf(y) + FilledIn(new, y)
    BY <1>14 DEF Grown
  <2>2. CASE k \in DOMAIN call[d].reports /\ call'[d].reports[k] = call[d].reports[k]
    <3>1. call[d].kind = "new" /\ x = call[d].reports[k]
      BY <1>14, <2>2 DEF Grown
    <3>2. Legit(d, x)
      BY <2>2, <3>1 DEF ReportInv, Reporting
    <3>3. PICK j : j = x.order
      OBVIOUS
    <3>4. j \in 1 .. id
      BY <3>2, <3>3 DEF Legit
    <3>5. j \in OrderId /\ j # i
      BY <1>5, <3>4, OrdersAssumption DEF OrderId
    <3>6. table[j] # NoOrder /\ s[j].qty + FilledIn(new, j) = table[j].qty
      BY <1>7, <3>3, <3>5
    <3>7. <<d, k>> \in Produced /\ ReportOf(<<d, k>>) = x
      BY <2>2, <3>1 DEF Produced, ReportOf
    <3>8. table[j].qty + FilledOf(j) = x.total
      BY <1>1, <3>3, <3>6, <3>7 DEF FillsAddUp
    <3>9. s[j].qty \in Nat
      <4>1. s[j] \in Order
        BY <1>7, <3>3, <3>5
      <4> QED
        BY <4>1 DEF Order
    <3>10. /\ FilledOf(j) \in Nat /\ FilledIn(new, j) \in Nat
           /\ FilledOf(j)' = FilledOf(j) + FilledIn(new, j)
      BY <2>1
    <3>11. s[j].qty + FilledOf(j)' = x.total
      BY <3>6, <3>8, <3>9, <3>10
    <3> QED
      BY <3>3, <3>11
  <2>3. CASE ~(k \in DOMAIN call[d].reports /\ call'[d].reports[k] = call[d].reports[k])
    <3>1. d = c
      BY <1>14, <2>3 DEF Grown
    <3>2. PICK j \in DOMAIN new : x = new[j]
      BY <1>14, <2>3, <3>1 DEF Grown
    <3>3. j = 1
      BY <1>7, <3>2
    <3>4. x.order = i /\ x.total = o.qty
      BY <1>7, <3>2, <3>3
    <3>5. s[i].qty + FilledIn(new, i) = o.qty
      BY <1>7, <3>4
    <3>6. FilledOf(i)' = FilledIn(new, i)
      BY <1>22, <2>1
    <3> QED
      BY <3>4, <3>5, <3>6
  <2> QED
    BY <2>2, <2>3
<1> QED
  BY <1>14, <1>17, <1>19, <1>20, <1>21, <1>23, <1>2, GrowStep

\* gRPC aborts the process.
LEMMA OverlapReports ==
  ASSUME ServerInv, ReportInv, NEW c \in Calls, Overlap(c)
  PROVE  ReportInv'
<1>1. /\ UNCHANGED <<id, table, responderOf, call, inbox, received>>
      /\ fault' \in {"none", "overlap"}
  BY DEF Overlap, market, clients
<1> QED
  BY <1>1, QuietReports

\* Before Run has started the handler there is nothing to report.
LEMMA ReportInit == Init => ReportInv
<1> SUFFICES ASSUME Init PROVE ReportInv
  OBVIOUS
<1>1. /\ id = 0 /\ table = [i \in OrderId |-> NoOrder] /\ call = [c \in Calls |-> Absent]
      /\ responderOf = [i \in OrderId |-> 0] /\ inbox = [c \in Calls |-> <<>>]
      /\ received = [c \in Calls |-> <<>>] /\ fault = "none"
  <2>1. id = 0 /\ table = [i \in OrderId |-> NoOrder]
    BY DEF Init, Market!Init, Market!OrderId, OrderId
  <2> QED
    BY <2>1 DEF Init
<1>2. \A c \in Calls : call[c].kind = "none" /\ Loaded(call[c]) /\ Sending(c, call[c])
  BY <1>1, BlankFacts
<1>3. \A i \in OrderId : i > id
  BY <1>1 DEF OrderId
<1>4. BookOK
  <2>1. id \in 0 .. MaxOrders
    BY <1>1, OrdersAssumption
  <2>2. inbox \in [Calls -> Seq(Requests)]
    BY <1>1
  <2> QED
    BY <1>1, <2>1, <2>2 DEF BookOK
<1>5. Responders
  BY <1>1, <1>3, CallsAssumption DEF Responders
<1>6. Got
  BY <1>1 DEF Got
<1>7. \A c \in Calls : Reporting(c)
  BY <1>2 DEF Reporting
<1>8. FillsAddUp
  <2>1. Produced = {}
    BY <1>2 DEF Produced
  <2> QED
    BY <2>1 DEF FillsAddUp
<1> QED
  BY <1>2, <1>4, <1>5, <1>6, <1>7, <1>8 DEF ReportInv

\* Every step keeps what there is of reports in order.
LEMMA ReportStep ==
  ASSUME ServerInv, ReportInv, [Next]_vars
  PROVE  ReportInv'
<1>1. CASE StartHandler
  BY <1>1, StartReports
<1>2. CASE HandleRpc
  <2>1. PICK c \in Calls : ProceedNewOrder(c) \/ ProceedOther(c)
    BY <1>2 DEF HandleRpc
  <2>2. CASE ProceedNewOrder(c)
    BY <2>2, ReadOrStopReports, RejectReports, ProcessReports, WriteReports, OverlapReports
       DEF ProceedNewOrder
  <2>3. CASE ProceedOther(c)
    BY <2>3, CancelReports, QueryReports DEF ProceedOther
  <2> QED
    BY <2>1, <2>2, <2>3
<1>3. ASSUME NEW c \in Calls, Connect(c) \/ Disconnect(c) \/ CompleteOp(c)
      PROVE  ReportInv'
  <2>1. CASE Connect(c)
    BY <2>1, ConnectReports
  <2>2. CASE Disconnect(c)
    <3>1. /\ UNCHANGED <<id, table, responderOf, call, inbox, received>>
          /\ fault' \in {"none", "overlap"}
      BY <2>2 DEF Disconnect, market, ReportInv, BookOK
    <3> QED
      BY <3>1, QuietReports
  <2>3. CASE CompleteOp(c)
    BY <2>3, CompleteReports
  <2> QED
    BY <1>3, <2>1, <2>2, <2>3
<1>4. CASE UNCHANGED vars
  <2>1. /\ UNCHANGED <<id, table, responderOf, call, inbox, received>>
        /\ fault' \in {"none", "overlap"}
    BY <1>4 DEF vars, market, clients, ReportInv, BookOK
  <2> QED
    BY <2>1, QuietReports
<1> QED
  BY <1>1, <1>2, <1>3, <1>4 DEF Next

-----------------------------------------------------------------------------
(* The server *)

\* Before Run has started the handler there are no calls.
LEMMA ServerInit == Init => ServerInv
<1> SUFFICES ASSUME Init PROVE ServerInv
  OBVIOUS
<1>1. /\ started = 0 /\ joining = FALSE /\ made = 0
      /\ call = [c \in Calls |-> Absent] /\ peer = [c \in Calls |-> "none"]
      /\ received = [c \in Calls |-> <<>>]
  BY DEF Init
<1>2. \A c \in Calls : /\ IsCall(call[c]) /\ call[c].kind = "none" /\ call[c].op = "none"
                       /\ call[c].event = "none" /\ call[c].next = 0 /\ call[c].reports = <<>>
                       /\ ~call[c].created /\ ~call[c].writing /\ call[c].status = "PROCESS"
                       /\ peer[c] = "none" /\ received[c] = <<>> /\ DOMAIN received[c] = {}
  BY <1>1, MadeFacts
<1>3. Shape
  <2>1. received \in [Calls -> Seq(Calls \X (Nat \ {0}))]
    BY <1>1
  <2>2. call = [c \in Calls |-> call[c]]
    BY <1>1
  <2>3. joining \in BOOLEAN /\ (joining <=> started = 1)
    <3>1. joining \in BOOLEAN /\ ~joining
      BY <1>1, Zenon
    <3>2. started # 1
      BY <1>1
    <3> QED
      BY <3>1, <3>2
  <2>4. started \in {0, 1} /\ peer \in [Calls -> {"none", "up", "gone"}] /\ made \in 0 .. MaxCalls
    BY <1>1
  <2> QED
    BY <1>1, <1>2, <2>1, <2>2, <2>3, <2>4 DEF Shape
<1>4. Fresh /\ Clients /\ Listening /\ Room /\ InOrder
  BY <1>1, <1>2 DEF Fresh, Reached, Clients, Calls, Listening, Room, Connected, InOrder
<1>5. ASSUME NEW c \in Calls PROVE CallInv(c)
  <2>1. ~(call[c].next < Len(call[c].reports))
    BY <1>2, EmptySeq
  <2> QED
    BY <1>2, <2>1 DEF CallInv, Phase, Delivered, Counted, Stopped
<1> QED
  BY <1>3, <1>4, <1>5 DEF ServerInv

\* Every step keeps the calls and the streams in order.
LEMMA ServerStep ==
  ASSUME ServerInv, [Next]_vars
  PROVE  ServerInv'
<1>1. CASE StartHandler
  BY <1>1, StartStep
<1>2. CASE HandleRpc
  BY <1>2, HandleStep DEF HandleRpc
<1>3. ASSUME NEW c \in Calls, Connect(c) \/ Disconnect(c) \/ CompleteOp(c)
      PROVE  ServerInv'
  BY <1>3, ConnectStep, DisconnectStep, CompleteStep
<1>4. CASE UNCHANGED vars
  BY <1>4, QuietStep DEF vars, clients
<1> QED
  BY <1>1, <1>2, <1>3, <1>4 DEF Next

\* ServerInv is invariant: how the handler drives its calls does not depend on
\* what the market puts into the reports.
THEOREM ServerInvariance == Spec => []ServerInv
<1>1. ServerInv /\ [Next]_vars => ServerInv'
  BY ServerStep
<1> QED
  BY <1>1, ServerInit, PTL DEF Spec

\* The server listens for the next call of each kind, exactly once, from the
\* moment Run has started its handler (the constructors in Proceed, one each
\* time a call is accepted).
THEOREM ServerListens == Spec => []OneListener
<1>1. ServerInv => OneListener
  <2> SUFFICES ASSUME ServerInv, NEW k \in {"new", "cancel", "query"}
               PROVE  Cardinality({c \in Calls : call[c].kind = k /\ call[c].op = "request"})
                        = started
    BY DEF OneListener, ServerInv, Shape
  <2>1. Shape /\ (started = 0 \/ started = 1)
    BY DEF ServerInv, Shape
  <2>2. CASE started = 0
    <3>1. \A c \in Calls : c > made /\ call[c].kind = "none"
      BY <2>1, <2>2 DEF Shape, Calls, ServerInv, Fresh
    <3>2. {c \in Calls : call[c].kind = k /\ call[c].op = "request"} = {}
      BY <3>1
    <3>3. Cardinality({}) = 0
      BY FS_EmptySet
    <3> QED
      BY <2>2, <3>2, <3>3, Zenon
  <2>3. CASE started = 1
    <3>1. PICK x \in Calls : \A d \in Calls : call[d].kind = k /\ call[d].op = "request" <=> d = x
      BY <2>3 DEF ServerInv, Listening, CallKind
    <3>2. {c \in Calls : call[c].kind = k /\ call[c].op = "request"} = {x}
      BY <3>1
    <3>3. Cardinality({x}) = 1
      BY FS_Singleton
    <3> QED
      BY <2>3, <3>2, <3>3, Zenon
  <2> QED
    BY <2>1, <2>2, <2>3
<1> QED
  BY <1>1, ServerInvariance, PTL

\* What a call reports reaches a client once and in order, however the calls
\* are interleaved and whichever of them writes to a stream.
THEOREM ServerInOrder == Spec => []InOrder
<1>1. ServerInv => InOrder
  BY DEF ServerInv
<1> QED
  BY <1>1, ServerInvariance, PTL

\* Proceed leaves no report unwritten unless the write before it has failed,
\* which takes that write to have been for a client that is gone.
THEOREM ServerAbandonsNone == Spec => []NoneAbandoned
<1>1. ServerInv => NoneAbandoned
  BY DEF ServerInv, CallInv, Stopped, ToGone, NoneAbandoned
<1> QED
  BY <1>1, ServerInvariance, PTL

\* IInv is invariant: besides the calls, every report that processNewOrder makes, the
\* order and the responder it is filed under, and the stream it is written to.
THEOREM ReportInvariance == Spec => []IInv
<1>1. IInv /\ [Next]_vars => IInv'
  BY ServerStep, ReportStep DEF IInv
<1>2. Init => IInv
  BY ServerInit, ReportInit DEF IInv
<1> QED
  BY <1>1, <1>2, PTL DEF Spec

\* A report that is being written goes to a call that has been made.
LEMMA WritesToMade ==
  ASSUME IInv, NEW c \in Calls, call[c].op = "write"
  PROVE  call[c].to \in 1 .. made
<1>1. /\ Shape /\ Fresh /\ Phase(c) /\ Counted(c) /\ BookOK /\ Responders
      /\ Loaded(call[c]) /\ Reporting(c) /\ Sending(c, call[c]) /\ IsCall(call[c])
  BY DEF IInv, ServerInv, CallInv, ReportInv, Shape
<1>2. \A d \in Calls : call[d].kind # "none" => d \in 1 .. made
  BY <1>1 DEF Fresh, Calls, Shape
<1>3. call[c].kind # "none"
  BY <1>1 DEF Phase
<1>4. CASE call[c].kind # "new"
  BY <1>1, <1>2, <1>3, <1>4 DEF Sending
<1>5. CASE call[c].kind = "new"
  <2>1. PICK r : r = call[c].reports[call[c].next]
    OBVIOUS
  <2>2. call[c].next \in DOMAIN call[c].reports
    <3>1. call[c].next \in Nat /\ call[c].next > 0 /\ call[c].next <= Len(call[c].reports)
      BY <1>1 DEF Counted, Loaded, IsCall
    <3>2. DOMAIN call[c].reports = 1 .. Len(call[c].reports) /\ Len(call[c].reports) \in Nat
      BY <1>1, LenProperties DEF Loaded
    <3> QED
      BY <3>1, <3>2
  <2>3. Legit(c, r)
    BY <1>1, <1>5, <2>1, <2>2 DEF Reporting
  <2>4. call[c].to = MeantFor(c, r)
    BY <1>1, <1>5, <2>1 DEF Sending
  <2>5. CASE r.order = 0
    BY <1>2, <1>3, <2>4, <2>5 DEF MeantFor
  <2>6. CASE r.order # 0
    <3>1. r.order \in OrderId /\ ~(r.order > id)
      BY <1>1, <2>3, <2>6 DEF Legit, BookOK, OrderId
    <3>2. PICK d : d = responderOf[r.order]
      OBVIOUS
    <3>3. d \in Calls /\ call[d].kind = "new"
      BY <1>1, <3>1, <3>2 DEF Responders
    <3> QED
      BY <1>2, <2>4, <2>6, <3>2, <3>3 DEF MeantFor
  <2> QED
    BY <2>5, <2>6
<1> QED
  BY <1>4, <1>5

\* A client has received the reports of calls that have been made.
LEMMA ReceivedOfMade ==
  ASSUME IInv, NEW c \in Calls
  PROVE  received[c] \in Seq((1 .. made) \X (Nat \ {0}))
<1>1. Shape /\ Fresh
  BY DEF IInv, ServerInv
<1>2. PICK s : s = received[c]
  OBVIOUS
<1>3. s \in Seq(Calls \X (Nat \ {0}))
  BY <1>1, <1>2 DEF Shape
<1>4. ASSUME NEW a \in 1 .. Len(s) PROVE s[a] \in (1 .. made) \X (Nat \ {0})
  <2>1. s[a] \in Calls \X (Nat \ {0}) /\ a \in DOMAIN s
    BY <1>3, LenProperties, ElementOfSeq
  <2>2. PICK d \in Calls, k \in Nat \ {0} : s[a] = <<d, k>>
    BY <2>1
  <2>3. Reached(d)
    BY <1>2, <2>1, <2>2 DEF Reached
  <2>4. d \in 1 .. made
    BY <1>1, <2>3 DEF Fresh, Calls, Shape
  <2> QED
    BY <2>2, <2>4
<1>5. s \in [1 .. Len(s) -> (1 .. made) \X (Nat \ {0})] /\ Len(s) \in Nat
  <2>1. s \in [1 .. Len(s) -> Calls \X (Nat \ {0})] /\ Len(s) \in Nat
    BY <1>3, LenProperties
  <2> QED
    BY <1>4, <2>1
<1> QED
  BY <1>2, <1>5, SeqDef

\* The state of the server stays within its types: no report counter runs past the
\* reports, every report is one the protocol can carry, and none is sent to, or has
\* come from, a call that does not exist.
THEOREM ServerTypes == Spec => []TypeOK
<1>1. IInv => TypeOK
  <2> SUFFICES ASSUME IInv PROVE TypeOK
    OBVIOUS
  <2>1. Shape /\ BookOK /\ Responders /\ \A c \in Calls : Loaded(call[c])
    BY DEF IInv, ServerInv, ReportInv
  <2>2. started \in 0 .. 9 /\ joining \in BOOLEAN
    BY <2>1 DEF Shape
  <2>3. ASSUME NEW c \in Calls
        PROVE  /\ call[c].kind \in {"none", "new", "cancel", "query"}
               /\ call[c].status \in {"PROCESS", "FINISH"}
               /\ call[c].op \in {"none", "request", "read", "write", "finish"}
               /\ call[c].event \in {"none", "ok", "fail"}
               /\ call[c].to \in 0 .. MaxCalls
               /\ call[c].op = "write" => call[c].to \in 1 .. made
               /\ call[c].reports \in Seq(AnyReport)
               /\ call[c].next \in 0 .. Len(call[c].reports)
               /\ call[c].buf \in Request
               /\ inbox[c] \in Seq(Requests)
               /\ received[c] \in Seq((1 .. made) \X (Nat \ {0}))
    <3>1. IsCall(call[c]) /\ Loaded(call[c])
      BY <2>1 DEF Shape
    <3>2. /\ call[c].kind \in {"none", "new", "cancel", "query"}
          /\ call[c].status \in {"PROCESS", "FINISH"}
          /\ call[c].op \in {"none", "request", "read", "write", "finish"}
          /\ call[c].event \in {"none", "ok", "fail"}
          /\ call[c].next \in Nat
      BY <3>1 DEF IsCall, CallKind
    <3>3. call[c].next \in 0 .. Len(call[c].reports)
      <4>1. Len(call[c].reports) \in Nat /\ call[c].next <= Len(call[c].reports)
        BY <3>1, LenProperties DEF Loaded
      <4> QED
        BY <3>2, <4>1
    <3>4. inbox[c] \in Seq(Requests)
      BY <2>1 DEF BookOK
    <3> QED
      BY <3>1, <3>2, <3>3, <3>4, WritesToMade, ReceivedOfMade DEF Loaded
  <2> QED
    BY <2>1, <2>2, <2>3 DEF TypeOK, BookOK, Responders, Shape
<1> QED
  BY <1>1, ReportInvariance, PTL

\* A client gets the reports of its own orders only, a FILL for a counterparty on the
\* stream that order was accepted on; and there is a responder for every report
\* (processNewOrder files it in orderID_responder_ before anyone can trade with it).
THEOREM ServerRightStream == Spec => []RightStream
<1>1. IInv => RightStream
  <2> SUFFICES ASSUME IInv PROVE RightStream
    OBVIOUS
  <2>0. Shape /\ BookOK /\ Responders /\ Got /\ \A c \in Calls : Reporting(c)
    BY DEF IInv, ServerInv, ReportInv
  <2>1. ASSUME NEW e \in Produced, NEW i, i = ReportOf(e).order
        PROVE  /\ e[1] \in Calls /\ call[e[1]].kind = "new"
               /\ i # 0 => /\ responderOf[i] \in Calls /\ call[responderOf[i]].kind = "new"
                           /\ \E r \in ToSet(call[responderOf[i]].reports) :
                                r.stat = "ORDER_ACCEPT" /\ r.order = i
    <3>1. PICK d \in Calls : /\ call[d].kind = "new"
                             /\ \E k \in DOMAIN call[d].reports : e = <<d, k>>
      BY DEF Produced
    <3>2. PICK k \in DOMAIN call[d].reports : e = <<d, k>>
      BY <3>1
    <3>3. e[1] = d /\ i = call[d].reports[k].order
      BY <2>1, <3>2 DEF ReportOf
    <3>4. PICK r : r = call[d].reports[k]
      OBVIOUS
    <3>5. Legit(d, r)
      BY <2>0, <3>1, <3>4 DEF Reporting
    <3>6. ASSUME i # 0
          PROVE  /\ responderOf[i] \in Calls /\ call[responderOf[i]].kind = "new"
                 /\ \E x \in ToSet(call[responderOf[i]].reports) :
                      x.stat = "ORDER_ACCEPT" /\ x.order = i
      <4>1. i \in 1 .. id
        BY <3>3, <3>4, <3>5, <3>6 DEF Legit
      <4>2. i \in OrderId /\ ~(i > id)
        BY <2>0, <4>1, OrdersAssumption DEF BookOK, OrderId
      <4>3. PICK c : c = responderOf[i]
        OBVIOUS
      <4>4. /\ c \in Calls /\ call[c].kind = "new"
            /\ \E a \in DOMAIN call[c].reports :
                 /\ call[c].reports[a].stat = "ORDER_ACCEPT"
                 /\ call[c].reports[a].order = i
        BY <2>0, <4>2, <4>3 DEF Responders
      <4>5. \E x \in ToSet(call[c].reports) : x.stat = "ORDER_ACCEPT" /\ x.order = i
        BY <4>4 DEF ToSet
      <4> QED
        BY <4>3, <4>4, <4>5
    <3> QED
      BY <3>1, <3>3, <3>6
  <2>2. ASSUME NEW c \in Calls, NEW e \in ToSet(received[c]) \cap Produced,
               NEW i, i = ReportOf(e).order
        PROVE  IF i = 0 THEN e[1] = c
               ELSE \E r \in ToSet(call[c].reports) : r.stat = "ORDER_ACCEPT" /\ r.order = i
    <3>1. PICK a \in DOMAIN received[c] : e = received[c][a]
      BY DEF ToSet
    <3>2. PICK d, r : d = e[1] /\ r = ReportOf(e)
      OBVIOUS
    <3>3. d \in Calls /\ call[d].kind = "new"
      BY <2>1, <3>2
    <3>4. c = MeantFor(d, r)
      BY <2>0, <3>1, <3>2, <3>3 DEF Got, ReportOf
    <3> QED
      BY <2>1, <2>2, <3>2, <3>4 DEF MeantFor
  <2>3. \A e \in Produced : ReportOf(e).order # 0 =>
          /\ responderOf[ReportOf(e).order] # 0
          /\ call[responderOf[ReportOf(e).order]].kind = "new"
    <3> SUFFICES ASSUME NEW e \in Produced, NEW i, i = ReportOf(e).order, i # 0
                 PROVE  responderOf[i] # 0 /\ call[responderOf[i]].kind = "new"
      OBVIOUS
    <3>1. responderOf[i] \in Calls /\ call[responderOf[i]].kind = "new"
      BY <2>1
    <3> QED
      BY <3>1 DEF Calls
  <2> QED
    BY <2>2, <2>3 DEF RightStream
<1> QED
  BY <1>1, ReportInvariance, PTL

\* What the FILL reports say has been traded of an order and what is left of it in the
\* table make up what the order was accepted for, whoever it traded with.
THEOREM ServerFillsAddUp == Spec => []FillsAddUp
<1>1. IInv => FillsAddUp
  BY DEF IInv, ReportInv
<1> QED
  BY <1>1, ReportInvariance, PTL

\* A write that finds the stream busy: one of the two writers is at the FILL report of
\* the other's order.
LEMMA OverlapStep ==
  ASSUME IInv, NEW c \in Calls, Overlap(c)
  PROVE  OverlapNeedsTrade'
<1>1. Shape /\ BookOK /\ \A d \in Calls : Loaded(call[d]) /\ Reporting(d) /\ IsCall(call[d])
  BY DEF IInv, ServerInv, ReportInv, Shape
<1>2. /\ WritesOn(c) /\ call[c].kind = "new" /\ call[c].next < Len(call[c].reports)
      /\ call' = call /\ responderOf' = responderOf
  BY DEF Overlap, WritesOn, Ready
<1>3. PICK b \in Calls : b # c /\ call[b].op = "write" /\ call[b].to = Addressee(c)
  BY DEF Overlap, Busy
<1>4. PICK k, r : k = call[c].next + 1 /\ r = call[c].reports[k]
  OBVIOUS
<1>5. /\ k \in DOMAIN call[c].reports /\ Addressee(c) = MeantFor(c, r)
      /\ Addressee(c) \in Calls /\ call[Addressee(c)].kind = "new"
      /\ call[c].next \in Nat /\ call[c].next = k - 1
  <2>1. call[c].next \in Nat
    BY <1>1 DEF IsCall
  <2> QED
    BY <1>2, <1>4, <2>1, AddresseeFacts DEF IInv
<1>6. Legit(c, r)
  BY <1>1, <1>2, <1>4, <1>5 DEF Reporting
<1>7. call[b].kind = "new" /\ call[b].writing
  <2>1. Phase(b) /\ Sending(b, call[b])
    BY DEF IInv, ServerInv, ReportInv, CallInv
  <2>2. call[b].kind # "new" => call[b].to = b
    BY <1>3, <2>1 DEF Sending
  <2>3. call[b].kind = "new"
    BY <1>3, <1>5, <2>2
  <2> QED
    BY <1>3, <2>1, <2>3 DEF Phase
<1>8. \A x, y, d : /\ <<x, y>> \in Produced
                   /\ ReportOf(<<x, y>>).stat = "FILL"
                   /\ responderOf[ReportOf(<<x, y>>).order] # x
                   /\ call[x].next \in {y - 1, y}
                   /\ d \in Calls /\ d # x /\ (WritesOn(d) \/ call[d].writing)
                   => OverlapNeedsTrade'
  <2> SUFFICES ASSUME NEW x, NEW y, NEW d, <<x, y>> \in Produced,
                      ReportOf(<<x, y>>).stat = "FILL",
                      responderOf[ReportOf(<<x, y>>).order] # x,
                      call[x].next \in {y - 1, y},
                      d \in Calls, d # x, WritesOn(d) \/ call[d].writing
               PROVE  OverlapNeedsTrade'
    OBVIOUS
  <2>1. PICK e : e = <<x, y>>
    OBVIOUS
  <2>2. e \in Produced' /\ ReportOf(e)' = ReportOf(e) /\ e[1] = x /\ e[2] = y
    BY <1>2, <2>1 DEF Produced, ReportOf
  <2>3. WritesOn(d)' = WritesOn(d)
    BY <1>2 DEF WritesOn, Ready
  <2> QED
    BY <1>2, <2>1, <2>2, <2>3 DEF OverlapNeedsTrade
<1>9. \A x \in Calls : \A y : call[x].kind = "new" /\ y \in DOMAIN call[x].reports =>
        <<x, y>> \in Produced /\ ReportOf(<<x, y>>) = call[x].reports[y]
  BY DEF Produced, ReportOf
<1>10. CASE Addressee(c) # c
  <2>1. r.order # 0 /\ responderOf[r.order] # c
    BY <1>5, <1>10 DEF MeantFor
  <2>2. r.stat = "FILL"
    BY <1>6, <2>1 DEF Legit
  <2>3. <<c, k>> \in Produced /\ ReportOf(<<c, k>>) = r
    BY <1>2, <1>4, <1>5, <1>9
  <2> QED
    BY <1>3, <1>5, <1>7, <1>8, <2>1, <2>2, <2>3
<1>11. CASE Addressee(c) = c
  <2>1. PICK j, q : j = call[b].next /\ q = call[b].reports[j]
    OBVIOUS
  <2>2. j \in Nat /\ j > 0 /\ j <= Len(call[b].reports)
    BY <1>1, <1>3, <2>1 DEF IsCall, Loaded, IInv, ServerInv, CallInv, Counted
  <2>3. j \in DOMAIN call[b].reports
    <3>1. Len(call[b].reports) \in Nat /\ DOMAIN call[b].reports = 1 .. Len(call[b].reports)
      BY <1>1, LenProperties DEF Loaded
    <3> QED
      BY <2>2, <3>1
  <2>4. Legit(b, q)
    BY <1>1, <1>7, <2>1, <2>3 DEF Reporting
  <2>5. c = MeantFor(b, q)
    <3>1. Sending(b, call[b])
      BY DEF IInv, ReportInv
    <3> QED
      BY <1>3, <1>7, <1>11, <2>1, <3>1 DEF Sending
  <2>6. q.order # 0 /\ responderOf[q.order] # b
    BY <1>3, <2>5 DEF MeantFor
  <2>7. q.stat = "FILL"
    BY <2>4, <2>6 DEF Legit
  <2>8. <<b, j>> \in Produced /\ ReportOf(<<b, j>>) = q
    BY <1>7, <1>9, <2>1, <2>3
  <2> QED
    BY <1>2, <1>3, <1>8, <2>1, <2>6, <2>7, <2>8
<1> QED
  BY <1>10, <1>11

\* gRPC aborts the server only when two calls write at once and one of them has come to
\* the FILL report of an order of the other (Proceed writes to the counterparty's stream
\* with its own tag, and looks at no write of the counterparty's).
THEOREM ServerOverlapNeedsTrade == Spec => []OverlapNeedsTrade
<1>1. IInv /\ OverlapNeedsTrade /\ [Next]_vars => OverlapNeedsTrade'
  <2> SUFFICES ASSUME IInv, OverlapNeedsTrade, [Next]_vars PROVE OverlapNeedsTrade'
    OBVIOUS
  <2>1. CASE UNCHANGED vars
    BY <2>1 DEF vars, OverlapNeedsTrade, Produced, ReportOf, WritesOn, Ready
  <2>2. CASE \E c \in Calls : Overlap(c)
    BY <2>2, OverlapStep
  <2>3. CASE fault = "none" /\ fault' = fault
    BY <2>3 DEF OverlapNeedsTrade
  <2>4. \/ UNCHANGED vars
        \/ \E c \in Calls : Overlap(c)
        \/ fault = "none" /\ fault' = fault
    BY DEF Next, StartHandler, HandleRpc, ProceedNewOrder, AcceptOrderCall, SkipRequest,
       RejectRequest, ProcessRequest, WriteReport, StopWriting, ProceedOther, CancelOrder,
       CancelNothing, AcceptQuery, StreamQuery, DeleteCall, Connect, Disconnect, CompleteOp,
       GetRequest, EndRequests, PutReport, LoseReport, EndCall, Complete
  <2> QED
    BY <2>1, <2>2, <2>3, <2>4
<1>2. Init => OverlapNeedsTrade
  BY DEF Init, OverlapNeedsTrade
<1> QED
  BY <1>1, <1>2, ReportInvariance, PTL DEF Spec

=============================================================================
