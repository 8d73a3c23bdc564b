---------------------------- MODULE TradesProofs ----------------------------
(***************************************************************************)
(* Lemmas about Trades: what matching leaves of a table and of an order,   *)
(* and which trades it makes.  Matched is a recursion over the order       *)
(* numbers; MatchedIs gives its steps, for inductions over them.           *)
(***************************************************************************)
EXTENDS Trades, SequenceTheorems, DataInduction

USE OrdersAssumption

-----------------------------------------------------------------------------
(* Flattening a sequence of sequences *)

\* H[i] is what the first i sequences of ss add up to, as FlattenSeq has it.
Flattened(ss, n, H) ==
  H = [i \in 1 .. n |-> IF i = 1 THEN ss[i] ELSE H[i - 1] \o ss[i]]

\* The recursion that flattens has a solution.
LEMMA FlattenedExists ==
  ASSUME NEW ss, NEW n \in Nat
  PROVE  \E H : Flattened(ss, n, H)
<1>1. PICK T : T = {k \in Nat : \E H : Flattened(ss, k, H)}
  OBVIOUS
<1>2. 0 \in T
  <2>1. PICK H : H = [i \in 1 .. 0 |-> <<>>]
    OBVIOUS
  <2>2. Flattened(ss, 0, H)
    BY <2>1 DEF Flattened
  <2> QED
    BY <1>1, <2>2
<1>3. ASSUME NEW k \in Nat, k \in T
      PROVE  k + 1 \in T
  <2>1. PICK H : Flattened(ss, k, H)
    BY <1>1, <1>3
  <2>2. PICK G : G = [i \in 1 .. k + 1 |-> IF i = 1 THEN ss[i] ELSE H[i - 1] \o ss[i]]
    OBVIOUS
  <2>3. ASSUME NEW i \in 1 .. k
        PROVE  G[i] = H[i]
    <3>1. H[i] = IF i = 1 THEN ss[i] ELSE H[i - 1] \o ss[i]
      BY <2>1 DEF Flattened
    <3>2. i \in 1 .. k + 1
      OBVIOUS
    <3> QED
      BY <2>2, <3>1, <3>2
  <2>4. \A i \in 1 .. k + 1 : i # 1 => G[i - 1] = H[i - 1]
    BY <2>3
  <2>5. Flattened(ss, k + 1, G)
    BY <2>2, <2>4 DEF Flattened
  <2> QED
    BY <1>1, <2>5
<1> QED
  BY <1>1, <1>2, <1>3, NaturalSet

\* The operator of the community module computes it.
LEMMA FlattenIs ==
  ASSUME NEW ss, Len(ss) \in Nat, Len(ss) # 0
  PROVE  \E H : Flattened(ss, Len(ss), H) /\ FlattenSeq(ss) = H[Len(ss)]
<1> DEFINE H == CHOOSE H : H = [i \in 1 .. Len(ss) |->
                                 IF i = 1 THEN ss[i] ELSE H[i - 1] \o ss[i]]
<1>1. H = [i \in 1 .. Len(ss) |-> IF i = 1 THEN ss[i] ELSE H[i - 1] \o ss[i]]
  <2>1. PICK G : Flattened(ss, Len(ss), G)
    BY FlattenedExists
  <2> QED
    BY <2>1 DEF Flattened
<1>2. FlattenSeq(ss) = H[Len(ss)]
  BY Zenon DEF FlattenSeq
<1> QED
  BY <1>1, <1>2 DEF Flattened

\* Flattening makes a sequence of the elements.
LEMMA FlattenType ==
  ASSUME NEW S, NEW ss \in Seq(Seq(S))
  PROVE  FlattenSeq(ss) \in Seq(S)
<1>1. Len(ss) \in Nat /\ \A i \in 1 .. Len(ss) : ss[i] \in Seq(S)
  BY LenProperties, ElementOfSeq
<1>2. CASE Len(ss) = 0
  <2>1. ss = <<>>
    BY <1>2, EmptySeq
  <2> QED
    BY <1>2, <2>1 DEF FlattenSeq
<1>3. CASE Len(ss) # 0
  <2>1. PICK H : Flattened(ss, Len(ss), H) /\ FlattenSeq(ss) = H[Len(ss)]
    BY <1>1, <1>3, FlattenIs
  <2>2. PICK T : T = {n \in Nat : n + 1 \in 1 .. Len(ss) => H[n + 1] \in Seq(S)}
    OBVIOUS
  <2>3. 0 \in T
    BY <1>1, <2>1, <2>2 DEF Flattened
  <2>4. ASSUME NEW n \in Nat, n \in T
        PROVE  n + 1 \in T
    <3> SUFFICES ASSUME (n + 1) + 1 \in 1 .. Len(ss) PROVE H[(n + 1) + 1] \in Seq(S)
      BY <2>2
    <3>1. PICK i, j : i = n + 1 /\ j = i + 1
      OBVIOUS
    <3>2. i \in 1 .. Len(ss) /\ j \in 1 .. Len(ss) /\ j # 1 /\ j - 1 = i
      BY <1>1, <3>1
    <3>3. H[i] \in Seq(S) /\ ss[j] \in Seq(S)
      BY <1>1, <2>2, <2>4, <3>1, <3>2
    <3>4. H[j] = H[i] \o ss[j]
      BY <2>1, <3>2 DEF Flattened
    <3> QED
      BY <3>1, <3>3, <3>4, ConcatProperties
  <2>5. Nat \subseteq T
    BY <2>3, <2>4, NaturalSet
  <2>6. PICK k \in Nat : k + 1 = Len(ss)
    <3>1. Len(ss) - 1 \in Nat /\ (Len(ss) - 1) + 1 = Len(ss)
      BY <1>1, <1>3
    <3> QED
      BY <3>1
  <2>7. k \in T /\ Len(ss) \in 1 .. Len(ss)
    BY <1>1, <1>3, <2>5
  <2>8. H[Len(ss)] \in Seq(S)
    BY <2>2, <2>6, <2>7
  <2> QED
    BY <2>1, <2>8
<1> QED
  BY <1>2, <1>3

\* One more sequence comes last.
LEMMA FlattenAppend ==
  ASSUME NEW S, NEW ss \in Seq(Seq(S)), NEW s \in Seq(S)
  PROVE  FlattenSeq(Append(ss, s)) = FlattenSeq(ss) \o s
<1> DEFINE n == Len(ss)
<1>1. n \in Nat /\ \A i \in 1 .. n : ss[i] \in Seq(S)
  BY LenProperties, ElementOfSeq
<1>2. PICK tt : tt = Append(ss, s)
  OBVIOUS
<1>3. Len(tt) = n + 1 /\ tt[n + 1] = s /\ \A i \in 1 .. n : tt[i] = ss[i]
  BY <1>2, AppendProperties
<1>4. PICK H : Flattened(tt, n + 1, H) /\ FlattenSeq(tt) = H[n + 1]
  <2>1. Len(tt) \in Nat /\ Len(tt) # 0
    BY <1>1, <1>3
  <2> QED
    BY <1>3, <2>1, FlattenIs
<1> HIDE DEF n
<1>5. CASE n = 0
  <2>1. ss = <<>>
    BY <1>5, EmptySeq DEF n
  <2>2. FlattenSeq(ss) = <<>>
    BY <2>1 DEF FlattenSeq
  <2>3. H[n + 1] = s
    BY <1>3, <1>4, <1>5 DEF Flattened
  <2>4. <<>> \o s = s
    BY ConcatEmptySeq
  <2> QED
    BY <1>2, <1>4, <2>2, <2>3, <2>4
<1>6. CASE n # 0
  <2>1. PICK G : Flattened(ss, n, G) /\ FlattenSeq(ss) = G[n]
    BY <1>1, <1>6, FlattenIs DEF n
  <2>2. PICK T : T = {k \in Nat : k + 1 \in 1 .. n => H[k + 1] = G[k + 1]}
    OBVIOUS
  <2>3. 0 \in T
    BY <1>1, <1>3, <1>4, <2>1, <2>2 DEF Flattened
  <2>4. ASSUME NEW k \in Nat, k \in T
        PROVE  k + 1 \in T
    <3> SUFFICES ASSUME (k + 1) + 1 \in 1 .. n PROVE H[(k + 1) + 1] = G[(k + 1) + 1]
      BY <2>2
    <3>1. PICK i, j : i = k + 1 /\ j = i + 1
      OBVIOUS
    <3>2. i \in 1 .. n /\ j \in 1 .. n /\ j \in 1 .. n + 1 /\ j # 1 /\ j - 1 = i
      BY <1>1, <3>1
    <3>3. H[i] = G[i] /\ tt[j] = ss[j]
      BY <1>3, <2>2, <2>4, <3>1, <3>2
    <3>4. H[j] = H[i] \o tt[j]
      BY <1>4, <3>2 DEF Flattened
    <3>5. G[j] = G[i] \o ss[j]
      BY <2>1, <3>2 DEF Flattened
    <3> QED
      BY <3>1, <3>3, <3>4, <3>5
  <2>5. Nat \subseteq T
    BY <2>3, <2>4, NaturalSet
  <2>6. H[n] = G[n]
    <3>1. n - 1 \in Nat /\ (n - 1) + 1 = n /\ n \in 1 .. n
      BY <1>1, <1>6
    <3>2. PICK k \in Nat : k + 1 = n
      BY <3>1
    <3>3. k \in T
      BY <2>5
    <3> QED
      BY <2>2, <3>1, <3>2, <3>3
  <2>7. H[n + 1] = H[n] \o s
    <3>1. n + 1 \in 1 .. n + 1 /\ n + 1 # 1 /\ (n + 1) - 1 = n
      BY <1>1, <1>6
    <3>2. H[n + 1] = H[(n + 1) - 1] \o tt[n + 1]
      BY <1>4, <3>1 DEF Flattened
    <3> QED
      BY <1>3, <3>1, <3>2
  <2> QED
    BY <1>2, <1>4, <2>1, <2>6, <2>7
<1> QED
  BY <1>5, <1>6

-----------------------------------------------------------------------------
(* Matching *)

\* H[r] is the outcome of matching `o` against those of the orders `ids` whose
\* number is r at most, as Matched has it.
UpTo(tab, o, ids, n, H) ==
  H = [r \in 0 .. n |->
         IF r = 0 THEN [tab |-> tab, left |-> o.qty, trades |-> <<>>]
         ELSE IF r \in ids THEN Visit(o, H[r - 1], r)
         ELSE H[r - 1]]

\* The recursion over the order numbers has a solution.
LEMMA UpToExists ==
  ASSUME NEW tab, NEW o, NEW ids, NEW n \in Nat
  PROVE  \E H : UpTo(tab, o, ids, n, H)
<1>1. PICK T : T = {k \in Nat : \E H : UpTo(tab, o, ids, k, H)}
  OBVIOUS
<1>2. 0 \in T
  <2>1. PICK H : H = [r \in 0 .. 0 |-> [tab |-> tab, left |-> o.qty, trades |-> <<>>]]
    OBVIOUS
  <2>2. UpTo(tab, o, ids, 0, H)
    BY <2>1 DEF UpTo
  <2> QED
    BY <1>1, <2>2
<1>3. ASSUME NEW k \in Nat, k \in T
      PROVE  k + 1 \in T
  <2>1. PICK H : UpTo(tab, o, ids, k, H)
    BY <1>1, <1>3
  <2>2. PICK G : G = [r \in 0 .. k + 1 |->
                        IF r = 0 THEN [tab |-> tab, left |-> o.qty, trades |-> <<>>]
                        ELSE IF r \in ids THEN Visit(o, H[r - 1], r)
                        ELSE H[r - 1]]
    OBVIOUS
  <2>3. ASSUME NEW r \in 0 .. k
        PROVE  G[r] = H[r]
    <3>1. H[r] = IF r = 0 THEN [tab |-> tab, left |-> o.qty, trades |-> <<>>]
                 ELSE IF r \in ids THEN Visit(o, H[r - 1], r) ELSE H[r - 1]
      BY <2>1 DEF UpTo
    <3>2. r \in 0 .. k + 1
      OBVIOUS
    <3> QED
      BY <2>2, <3>1, <3>2
  <2>4. \A r \in 0 .. k + 1 : r # 0 => G[r - 1] = H[r - 1]
    BY <2>3
  <2>5. UpTo(tab, o, ids, k + 1, G)
    BY <2>2, <2>4 DEF UpTo
  <2> QED
    BY <1>1, <2>5
<1> QED
  BY <1>1, <1>2, <1>3, NaturalSet

\* Matched is where the recursion ends.
LEMMA MatchedIs ==
  ASSUME NEW tab, NEW o, NEW ids
  PROVE  \E H : UpTo(tab, o, ids, MaxOrders, H) /\ Matched(tab, o, ids) = H[MaxOrders]
<1> DEFINE H == CHOOSE H : H = [r \in 0 .. MaxOrders |->
                  IF r = 0 THEN [tab |-> tab, left |-> o.qty, trades |-> <<>>]
                  ELSE IF r \in ids THEN Visit(o, H[r - 1], r)
                  ELSE H[r - 1]]
<1>1. H = [r \in 0 .. MaxOrders |->
             IF r = 0 THEN [tab |-> tab, left |-> o.qty, trades |-> <<>>]
             ELSE IF r \in ids THEN Visit(o, H[r - 1], r)
             ELSE H[r - 1]]
  <2>1. PICK G : UpTo(tab, o, ids, MaxOrders, G)
    BY UpToExists
  <2> QED
    BY <2>1 DEF UpTo
<1>2. Matched(tab, o, ids) = H[MaxOrders]
  BY Zenon DEF Matched
<1> QED
  BY <1>1, <1>2 DEF UpTo

\* Its steps, from the order that has not met any other.
LEMMA UpToSteps ==
  ASSUME NEW tab, NEW o, NEW ids, NEW n \in Nat, NEW H, UpTo(tab, o, ids, n, H)
  PROVE  /\ H[0] = [tab |-> tab, left |-> o.qty, trades |-> <<>>]
         /\ \A r \in 1 .. n : r \in ids => H[r] = Visit(o, H[r - 1], r)
         /\ \A r \in 1 .. n : r \notin ids => H[r] = H[r - 1]
<1>1. \A r \in 0 .. n : H[r] = IF r = 0 THEN [tab |-> tab, left |-> o.qty, trades |-> <<>>]
                              ELSE IF r \in ids THEN Visit(o, H[r - 1], r) ELSE H[r - 1]
  BY DEF UpTo
<1> QED
  BY <1>1

\* The quantity an order gets to trade with the order it visits.
Taken(o, m, r) ==
  IF m.left = 0 \/ ~Compatible(o, m.tab[r]) THEN 0 ELSE Least(m.tab[r].qty, m.left)

\* The trades there can be with the orders `ids` of a table.
Trade(tab, ids) ==
  {t \in [with : ids, qty : Nat, left : Nat] : t.qty <= tab[t.with].qty}

\* What a visit to order r makes of m: a trade of n is made or not, of what both
\* have left, and nothing but the quantity of order r changes in the table.
Visited(m, r, v, n) ==
  LET e == m.tab[r]
  IN
    /\ n \in Nat /\ n <= m.left /\ n <= e.qty
    /\ v.left = m.left - n /\ v.left \in Nat
    /\ v.tab \in [OrderId -> Order \cup {NoOrder}]
    /\ \A j \in OrderId : j # r => v.tab[j] = m.tab[j]
    /\ v.tab[r] # NoOrder => /\ v.tab[r] \in Order /\ v.tab[r].qty = e.qty - n
                             /\ v.tab[r].stock = e.stock /\ v.tab[r].dir = e.dir
                             /\ v.tab[r].client = e.client
                             /\ v.tab[r].price = e.price /\ v.tab[r].kind = e.kind
    /\ \/ v = m /\ n = 0
       \/ v.trades = Append(m.trades, [with |-> r, qty |-> n, left |-> v.left])

\* Visiting an order of the table does that.
LEMMA VisitFacts ==
  ASSUME NEW o, NEW r \in OrderId, NEW m,
         m.tab \in [OrderId -> Order \cup {NoOrder}], m.left \in Nat, m.tab[r] \in Order
  PROVE  Visited(m, r, Visit(o, m, r), Taken(o, m, r))
<1> PICK e, v, n : e = m.tab[r] /\ v = Visit(o, m, r) /\ n = Taken(o, m, r)
  OBVIOUS
<1> SUFFICES
      /\ n \in Nat /\ n <= m.left /\ n <= e.qty
      /\ v.left = m.left - n /\ v.left \in Nat
      /\ v.tab \in [OrderId -> Order \cup {NoOrder}]
      /\ \A j \in OrderId : j # r => v.tab[j] = m.tab[j]
      /\ v.tab[r] # NoOrder => /\ v.tab[r] \in Order /\ v.tab[r].qty = e.qty - n
                               /\ v.tab[r].stock = e.stock /\ v.tab[r].dir = e.dir
                               /\ v.tab[r].client = e.client
                               /\ v.tab[r].price = e.price /\ v.tab[r].kind = e.kind
      /\ \/ v = m /\ n = 0
         \/ v.trades = Append(m.trades, [with |-> r, qty |-> n, left |-> v.left])
  BY DEF Visited
<1>1. e.qty \in Nat /\ e # NoOrder
  BY DEF Order
<1>2. CASE m.left = 0 \/ ~Compatible(o, e)
  <2>1. v = m /\ n = 0
    BY <1>2 DEF Visit, Taken
  <2> QED
    BY <1>1, <2>1
<1>3. CASE ~(m.left = 0 \/ ~Compatible(o, e))
  <2>1. n = Least(e.qty, m.left) /\ n \in Nat /\ n <= m.left /\ n <= e.qty
    BY <1>1, <1>3 DEF Taken, Least
  <2>2. PICK x : x = IF e.qty = n THEN NoOrder ELSE [e EXCEPT !.qty = e.qty - n]
    OBVIOUS
  <2>3. v = [tab |-> [m.tab EXCEPT ![r] = x], left |-> m.left - n,
             trades |-> Append(m.trades, [with |-> r, qty |-> n, left |-> m.left - n])]
    BY <1>3, <2>1, <2>2 DEF Visit
  <2>4. x # NoOrder => /\ x \in Order /\ x.qty = e.qty - n
                       /\ x.stock = e.stock /\ x.dir = e.dir
                       /\ x.client = e.client /\ x.price = e.price /\ x.kind = e.kind
    <3>1. PICK q : q = e.qty - n
      OBVIOUS
    <3>2. q \in Nat
      BY <1>1, <2>1, <3>1
    <3>3. x # NoOrder => x = [e EXCEPT !.qty = q]
      BY <2>2, <3>1
    <3> QED
      BY <3>1, <3>2, <3>3 DEF Order
  <2>5. v.tab = [m.tab EXCEPT ![r] = x] /\ v.left = m.left - n
        /\ v.trades = Append(m.trades, [with |-> r, qty |-> n, left |-> v.left])
    BY <2>3
  <2>6. v.tab \in [OrderId -> Order \cup {NoOrder}]
    BY <2>4, <2>5
  <2>7. v.tab[r] = x /\ \A j \in OrderId : j # r => v.tab[j] = m.tab[j]
    BY <2>5
  <2>8. v.left \in Nat
    BY <2>1, <2>5
  <2> QED
    BY <2>1, <2>4, <2>5, <2>6, <2>7, <2>8
<1> QED
  BY <1>2, <1>3

\* m is an outcome of matching `o` against those of `ids` whose number is r at most.
IsOutcome(tab, o, ids, r, m) ==
  /\ m.tab \in [OrderId -> Order \cup {NoOrder}]
  /\ \A j \in OrderId : j \notin ids \/ j > r => m.tab[j] = tab[j]
  /\ \A j \in ids : m.tab[j] # NoOrder =>
       m.tab[j].stock = tab[j].stock /\ m.tab[j].dir = tab[j].dir
  /\ m.left \in 0 .. o.qty
  /\ m.trades \in Seq(Trade(tab, ids))

\* Matching changes the orders it visits only, in their quantity only, and leaves
\* no more than it was given; each trade is with one of them, of what it has at most.
LEMMA OutcomeUpTo ==
  ASSUME NEW tab \in [OrderId -> Order \cup {NoOrder}], NEW o, o.qty \in Nat,
         NEW ids \in SUBSET OrderId, \A j \in ids : tab[j] \in Order,
         NEW H, UpTo(tab, o, ids, MaxOrders, H)
  PROVE  \A r \in 0 .. MaxOrders : IsOutcome(tab, o, ids, r, H[r])
<1>1. PICK T : T = {r \in 0 .. MaxOrders : IsOutcome(tab, o, ids, r, H[r])}
  OBVIOUS
<1>2. /\ H[0] = [tab |-> tab, left |-> o.qty, trades |-> <<>>]
      /\ \A r \in 1 .. MaxOrders : r \in ids => H[r] = Visit(o, H[r - 1], r)
      /\ \A r \in 1 .. MaxOrders : r \notin ids => H[r] = H[r - 1]
  BY UpToSteps
<1>3. 0 \in T
  <2>1. H[0].tab = tab /\ H[0].left = o.qty /\ H[0].trades = <<>>
    BY <1>2
  <2>2. o.qty \in 0 .. o.qty /\ 0 \in 0 .. MaxOrders
    OBVIOUS
  <2>3. IsOutcome(tab, o, ids, 0, H[0])
    BY <2>1, <2>2 DEF IsOutcome
  <2> QED
    BY <1>1, <2>2, <2>3
<1>4. ASSUME NEW r \in 1 .. MaxOrders, r - 1 \in T
      PROVE  r \in T
  <2>1. PICK m, v : m = H[r - 1] /\ v = H[r]
    OBVIOUS
  <2>2. IsOutcome(tab, o, ids, r - 1, m) /\ r \in OrderId
    BY <1>1, <1>4, <2>1 DEF OrderId
  <2>3. CASE r \notin ids
    <3>1. v = m
      BY <1>2, <2>1, <2>3
    <3>2. \A j \in OrderId : j \notin ids \/ j > r => j \notin ids \/ j > r - 1
      BY DEF OrderId
    <3>3. \A j \in OrderId : j \notin ids \/ j > r => m.tab[j] = tab[j]
      BY <2>2, <3>2 DEF IsOutcome
    <3>4. IsOutcome(tab, o, ids, r, m)
      BY <2>2, <3>3 DEF IsOutcome
    <3>5. r \in 0 .. MaxOrders
      OBVIOUS
    <3> QED
      BY <1>1, <2>1, <3>1, <3>4, <3>5
  <2>4. CASE r \in ids
    <3>1. PICK e, n : e = m.tab[r] /\ n = Taken(o, m, r)
      OBVIOUS
    <3>2. e = tab[r] /\ e \in Order
      BY <2>2, <2>4, <3>1 DEF IsOutcome
    <3>3. v = Visit(o, m, r)
      BY <1>2, <2>1, <2>4
    <3>4. m.tab \in [OrderId -> Order \cup {NoOrder}] /\ m.left \in Nat /\ m.left <= o.qty
      BY <2>2 DEF IsOutcome
    <3>5. /\ n \in Nat /\ n <= m.left /\ n <= e.qty
          /\ v.left = m.left - n /\ v.left \in Nat
          /\ v.tab \in [OrderId -> Order \cup {NoOrder}]
          /\ \A j \in OrderId : j # r => v.tab[j] = m.tab[j]
          /\ v.tab[r] # NoOrder => v.tab[r].stock = e.stock /\ v.tab[r].dir = e.dir
          /\ \/ v = m /\ n = 0
             \/ v.trades = Append(m.trades, [with |-> r, qty |-> n, left |-> v.left])
      <4>1. r \in OrderId
        BY <2>2
      <4>2. e = m.tab[r] /\ n = Taken(o, m, r) /\ e \in Order
        BY <3>1, <3>2
      <4>3. Visited(m, r, v, n)
        BY <3>3, <3>4, <4>1, <4>2, VisitFacts
      <4> QED
        BY <4>2, <4>3 DEF Visited
    <3>6. v.left \in 0 .. o.qty
      BY <3>4, <3>5
    <3>7. v.trades \in Seq(Trade(tab, ids))
      <4>1. m.trades \in Seq(Trade(tab, ids))
        BY <2>2 DEF IsOutcome
      <4>2. [with |-> r, qty |-> n, left |-> v.left] \in Trade(tab, ids)
        BY <2>4, <3>2, <3>5 DEF Trade
      <4>3. Append(m.trades, [with |-> r, qty |-> n, left |-> v.left]) \in Seq(Trade(tab, ids))
        BY <4>1, <4>2, AppendProperties
      <4> QED
        BY <3>5, <4>1, <4>3
    <3>8. \A j \in OrderId : j \notin ids \/ j > r => v.tab[j] = tab[j]
      <4>1. \A j \in OrderId : j \notin ids \/ j > r => j # r /\ (j \notin ids \/ j > r - 1)
        BY <2>4 DEF OrderId
      <4> QED
        BY <2>2, <3>5, <4>1 DEF IsOutcome
    <3>9. \A j \in ids : v.tab[j] # NoOrder =>
            v.tab[j].stock = tab[j].stock /\ v.tab[j].dir = tab[j].dir
      BY <2>2, <3>2, <3>5 DEF IsOutcome
    <3>10. IsOutcome(tab, o, ids, r, v)
      BY <3>5, <3>6, <3>7, <3>8, <3>9 DEF IsOutcome
    <3> QED
      BY <1>1, <2>1, <3>10
  <2> QED
    BY <2>3, <2>4
<1>5. \A r \in 0 .. MaxOrders : r \in T
  BY <1>3, <1>4, CountingSet
<1> QED
  BY <1>1, <1>5

\* Matching as a whole.
LEMMA MatchedOutcome ==
  ASSUME NEW tab \in [OrderId -> Order \cup {NoOrder}], NEW o, o.qty \in Nat,
         NEW ids \in SUBSET OrderId, \A j \in ids : tab[j] \in Order
  PROVE  IsOutcome(tab, o, ids, MaxOrders, Matched(tab, o, ids))
<1>1. PICK H : UpTo(tab, o, ids, MaxOrders, H) /\ Matched(tab, o, ids) = H[MaxOrders]
  BY MatchedIs
<1>2. MaxOrders \in 0 .. MaxOrders
  OBVIOUS
<1>3. IsOutcome(tab, o, ids, MaxOrders, H[MaxOrders])
  BY <1>1, <1>2, OutcomeUpTo
<1> QED
  BY <1>1, <1>3

\* A request that is accepted is an order.
LEMMA AcceptedOrder ==
  ASSUME NEW o \in Request, CheckRequest(o)
  PROVE  o \in Order /\ o.qty > 0
BY DEF CheckRequest, Request, Order

\* What rests of an order is an order.
LEMMA ResidueType ==
  ASSUME NEW o \in Order, NEW left \in Nat, NEW visited \in BOOLEAN
  PROVE  /\ Residue(o, left, visited) \in Order \cup {NoOrder}
         /\ Residue(o, left, visited) # NoOrder =>
              /\ Residue(o, left, visited).qty = left
              /\ Residue(o, left, visited).stock = o.stock
              /\ Residue(o, left, visited).dir = o.dir
<1>1. CASE left = 0
  BY <1>1 DEF Residue
<1>2. CASE left # 0
  <2>1. PICK p : p = IF visited THEN Repriced(o) ELSE o.price
    OBVIOUS
  <2>2. Residue(o, left, visited) = [o EXCEPT !.qty = left, !.price = p]
    BY <1>2, <2>1 DEF Residue
  <2>3. p \in Int
    BY <2>1 DEF Repriced, Order
  <2> QED
    BY <2>2, <2>3 DEF Order
<1> QED
  BY <1>1, <1>2

\* Submitting an order makes a table of orders; nothing but its number and the
\* orders it can be matched against is touched.
LEMMA SubmittedFacts ==
  ASSUME NEW tab \in [OrderId -> Order \cup {NoOrder}], NEW o \in Order,
         NEW i \in OrderId, tab[i] = NoOrder,
         NEW ids, ids = Candidates(tab, o), NEW m, m = Matched(tab, o, ids),
         NEW s, s = Submitted(tab, i, o)
  PROVE  /\ ids \in SUBSET OrderId /\ i \notin ids /\ \A j \in ids : tab[j] \in Order
         /\ IsOutcome(tab, o, ids, MaxOrders, m)
         /\ s \in [OrderId -> Order \cup {NoOrder}]
         /\ \A j \in OrderId : j # i => s[j] = m.tab[j]
         /\ s[i] # NoOrder => /\ s[i].qty = m.left
                              /\ s[i].stock = o.stock /\ s[i].dir = o.dir
<1>1. ids \in SUBSET OrderId /\ i \notin ids /\ \A j \in ids : tab[j] \in Order
  BY DEF Candidates
<1>2. IsOutcome(tab, o, ids, MaxOrders, m)
  <2>1. o.qty \in Nat
    BY DEF Order
  <2> QED
    BY <1>1, <2>1, MatchedOutcome
<1>3. m.left \in Nat /\ m.tab \in [OrderId -> Order \cup {NoOrder}]
  BY <1>2 DEF IsOutcome, Order
<1>4. PICK x : x = Residue(o, m.left, ids # {})
  OBVIOUS
<1>5. /\ x \in Order \cup {NoOrder}
      /\ x # NoOrder => x.qty = m.left /\ x.stock = o.stock /\ x.dir = o.dir
  <2>1. (ids # {}) \in BOOLEAN
    OBVIOUS
  <2> QED
    BY <1>3, <1>4, <2>1, ResidueType
<1>6. s = [m.tab EXCEPT ![i] = x]
  BY <1>4 DEF Submitted
<1>7. /\ s \in [OrderId -> Order \cup {NoOrder}] /\ s[i] = x
      /\ \A j \in OrderId : j # i => s[j] = m.tab[j]
  BY <1>3, <1>5, <1>6
<1> QED
  BY <1>1, <1>2, <1>5, <1>7

-----------------------------------------------------------------------------
(* Matching in two parts *)

\* Two outcomes leave as much of the order, and the same of the orders J.
Alike(m1, m2, J) == m1.left = m2.left /\ \A j \in J : m1.tab[j] = m2.tab[j]

\* Two orders ask for the same price and are of the same client and side.
SameOffer(o, p) == o.client = p.client /\ o.dir = p.dir /\ o.price = p.price

\* A visit to one order, by orders that make the same offer, from outcomes that
\* are alike.
LEMMA VisitAlike ==
  ASSUME NEW o, NEW p, SameOffer(o, p), NEW J \in SUBSET OrderId, NEW r \in J,
         NEW m1, NEW m2, Alike(m1, m2, J),
         m1.tab \in [OrderId -> Order \cup {NoOrder}],
         m2.tab \in [OrderId -> Order \cup {NoOrder}]
  PROVE  Alike(Visit(o, m1, r), Visit(p, m2, r), J)
<1> PICK e, n, x : /\ e = m1.tab[r] /\ n = Least(e.qty, m1.left)
                   /\ x = IF e.qty = n THEN NoOrder ELSE [e EXCEPT !.qty = e.qty - n]
  OBVIOUS
<1>1. e = m2.tab[r] /\ n = Least(e.qty, m2.left) /\ m2.left = m1.left
  BY DEF Alike
<1>2. Compatible(o, e) <=> Compatible(p, e)
  BY DEF SameOffer, Compatible
<1>3. CASE m1.left = 0 \/ ~Compatible(o, e)
  <2>1. Visit(o, m1, r) = m1 /\ Visit(p, m2, r) = m2
    BY <1>1, <1>2, <1>3 DEF Visit
  <2> QED
    BY <2>1
<1>4. CASE ~(m1.left = 0 \/ ~Compatible(o, e))
  <2>1. /\ Visit(o, m1, r).tab = [m1.tab EXCEPT ![r] = x]
        /\ Visit(o, m1, r).left = m1.left - n
    BY <1>4 DEF Visit
  <2>2. /\ Visit(p, m2, r).tab = [m2.tab EXCEPT ![r] = x]
        /\ Visit(p, m2, r).left = m2.left - n
    BY <1>1, <1>2, <1>4 DEF Visit
  <2>3. r \in OrderId
    OBVIOUS
  <2> QED
    BY <1>1, <2>1, <2>2, <2>3 DEF Alike
<1> QED
  BY <1>3, <1>4

\* Two matchings that are alike after order k, and have the same orders before
\* them from there on, stay alike.
LEMMA StayAlike ==
  ASSUME NEW o, NEW p, SameOffer(o, p), NEW J \in SUBSET OrderId,
         NEW tab1 \in [OrderId -> Order \cup {NoOrder}], o.qty \in Nat,
         NEW ids1 \in SUBSET OrderId, \A j \in ids1 : tab1[j] \in Order,
         NEW H1, UpTo(tab1, o, ids1, MaxOrders, H1),
         NEW tab2 \in [OrderId -> Order \cup {NoOrder}], p.qty \in Nat,
         NEW ids2 \in SUBSET OrderId, \A j \in ids2 : tab2[j] \in Order,
         NEW H2, UpTo(tab2, p, ids2, MaxOrders, H2),
         NEW k \in 0 .. MaxOrders, Alike(H1[k], H2[k], J),
         \A r \in k + 1 .. MaxOrders : r \in ids1 <=> r \in ids2,
         \A r \in k + 1 .. MaxOrders : r \in ids1 => r \in J
  PROVE  Alike(H1[MaxOrders], H2[MaxOrders], J)
<1>5. /\ H1[0] = [tab |-> tab1, left |-> o.qty, trades |-> <<>>]
      /\ \A r \in 1 .. MaxOrders : r \in ids1 => H1[r] = Visit(o, H1[r - 1], r)
      /\ \A r \in 1 .. MaxOrders : r \notin ids1 => H1[r] = H1[r - 1]
  BY UpToSteps
<1>6. /\ H2[0] = [tab |-> tab2, left |-> p.qty, trades |-> <<>>]
      /\ \A r \in 1 .. MaxOrders : r \in ids2 => H2[r] = Visit(p, H2[r - 1], r)
      /\ \A r \in 1 .. MaxOrders : r \notin ids2 => H2[r] = H2[r - 1]
  BY UpToSteps
<1>1. PICK T : T = {r \in 0 .. MaxOrders : r < k \/ Alike(H1[r], H2[r], J)}
  OBVIOUS
<1>2. 0 \in T
  <2>1. 0 < k \/ 0 = k
    OBVIOUS
  <2> QED
    BY <1>1, <2>1
<1>3. ASSUME NEW r \in 1 .. MaxOrders, r - 1 \in T
      PROVE  r \in T
  <2>1. CASE r < k
    BY <1>1, <2>1
  <2>2. CASE r = k
    BY <1>1, <2>2
  <2>3. CASE r > k
    <3>1. r \in k + 1 .. MaxOrders /\ r - 1 \in 0 .. MaxOrders /\ ~(r - 1 < k)
      BY <2>3
    <3>2. PICK m1, m2 : m1 = H1[r - 1] /\ m2 = H2[r - 1]
      OBVIOUS
    <3>3. Alike(m1, m2, J)
      BY <1>1, <1>3, <3>1, <3>2
    <3>4. CASE r \notin ids1
      <4>1. H1[r] = m1 /\ H2[r] = m2
        BY <1>5, <1>6, <3>1, <3>2, <3>4
      <4> QED
        BY <1>1, <3>3, <4>1
    <3>5. CASE r \in ids1
      <4>1. H1[r] = Visit(o, m1, r) /\ H2[r] = Visit(p, m2, r) /\ r \in J
        BY <1>5, <1>6, <3>1, <3>2, <3>5
      <4>2. /\ m1.tab \in [OrderId -> Order \cup {NoOrder}]
            /\ m2.tab \in [OrderId -> Order \cup {NoOrder}]
        BY <3>1, <3>2, OutcomeUpTo DEF IsOutcome
      <4>3. Alike(Visit(o, m1, r), Visit(p, m2, r), J)
        BY <3>3, <4>1, <4>2, VisitAlike
      <4> QED
        BY <1>1, <4>1, <4>3
    <3> QED
      BY <3>4, <3>5
  <2> QED
    BY <2>1, <2>2, <2>3
<1>4. \A r \in 0 .. MaxOrders : r \in T
  BY <1>2, <1>3, CountingSet
<1>7. MaxOrders \in 0 .. MaxOrders /\ ~(MaxOrders < k)
  OBVIOUS
<1> QED
  BY <1>1, <1>4, <1>7

\* An order passes over what it cannot trade with.
LEMMA PassedOver ==
  ASSUME NEW tab, NEW o, NEW ids, NEW H, UpTo(tab, o, ids, MaxOrders, H),
         NEW k \in 0 .. MaxOrders,
         \A r \in 1 .. k : r \in ids => o.qty = 0 \/ ~Compatible(o, tab[r])
  PROVE  H[k].tab = tab /\ H[k].left = o.qty
<1>5. /\ H[0] = [tab |-> tab, left |-> o.qty, trades |-> <<>>]
      /\ \A r \in 1 .. MaxOrders : r \in ids => H[r] = Visit(o, H[r - 1], r)
      /\ \A r \in 1 .. MaxOrders : r \notin ids => H[r] = H[r - 1]
  BY UpToSteps
<1>1. PICK T : T = {r \in 0 .. k : H[r].tab = tab /\ H[r].left = o.qty}
  OBVIOUS
<1>2. 0 \in T
  BY <1>1, <1>5
<1>3. ASSUME NEW r \in 1 .. k, r - 1 \in T
      PROVE  r \in T
  <2>1. PICK m : m = H[r - 1]
    OBVIOUS
  <2>2. m.tab = tab /\ m.left = o.qty
    BY <1>1, <1>3, <2>1
  <2>3. r \in 1 .. MaxOrders
    OBVIOUS
  <2>4. H[r] = m
    <3>1. CASE r \in ids
      BY <2>1, <2>2, <2>3, <3>1, <1>5 DEF Visit
    <3>2. CASE r \notin ids
      BY <2>1, <2>3, <3>2, <1>5
    <3> QED
      BY <3>1, <3>2
  <2> QED
    BY <1>1, <2>2, <2>4
<1>4. \A r \in 0 .. k : r \in T
  BY <1>2, <1>3, CountingSet
<1> QED
  BY <1>1, <1>4

\* An order that can trade with none of its candidates changes nothing.
LEMMA MatchedNone ==
  ASSUME NEW tab, NEW o, NEW ids \in SUBSET OrderId,
         \A r \in ids : o.qty = 0 \/ ~Compatible(o, tab[r])
  PROVE  Matched(tab, o, ids).tab = tab /\ Matched(tab, o, ids).left = o.qty
<1>1. PICK H : UpTo(tab, o, ids, MaxOrders, H) /\ Matched(tab, o, ids) = H[MaxOrders]
  BY MatchedIs
<1>2. MaxOrders \in 0 .. MaxOrders
  OBVIOUS
<1> QED
  BY <1>1, <1>2, PassedOver

\* Only the candidates of a table count.
LEMMA MatchedAlike ==
  ASSUME NEW tab1 \in [OrderId -> Order \cup {NoOrder}],
         NEW tab2 \in [OrderId -> Order \cup {NoOrder}], NEW o, o.qty \in Nat,
         NEW ids \in SUBSET OrderId, \A j \in ids : tab1[j] \in Order /\ tab1[j] = tab2[j]
  PROVE  Alike(Matched(tab1, o, ids), Matched(tab2, o, ids), ids)
<1>1. PICK H1 : UpTo(tab1, o, ids, MaxOrders, H1) /\ Matched(tab1, o, ids) = H1[MaxOrders]
  BY MatchedIs
<1>2. PICK H2 : UpTo(tab2, o, ids, MaxOrders, H2) /\ Matched(tab2, o, ids) = H2[MaxOrders]
  BY MatchedIs
<1>3. Alike(H1[0], H2[0], ids) /\ 0 \in 0 .. MaxOrders
  <2>1. 0 \in 0 .. MaxOrders /\ \A r \in 1 .. 0 : FALSE
    OBVIOUS
  <2>2. H1[0].tab = tab1 /\ H1[0].left = o.qty
    BY <1>1, <2>1, PassedOver
  <2>3. H2[0].tab = tab2 /\ H2[0].left = o.qty
    BY <1>2, <2>1, PassedOver
  <2> QED
    BY <2>1, <2>2, <2>3 DEF Alike
<1>4. SameOffer(o, o) /\ \A j \in ids : tab2[j] \in Order
  BY DEF SameOffer
<1> QED
  BY <1>1, <1>2, <1>3, <1>4, StayAlike

\* A first trade and then the rest: what matching has done once the earliest order
\* that `o` can trade with has traded, with what is left of `o`.
LEMMA MatchedFirst ==
  ASSUME NEW tab \in [OrderId -> Order \cup {NoOrder}], NEW o \in Order, o.qty > 0,
         NEW ids \in SUBSET OrderId, \A j \in ids : tab[j] \in Order,
         NEW r \in ids, Compatible(o, tab[r]),
         \A q \in ids : q < r => ~Compatible(o, tab[q]),
         NEW n, n = Least(tab[r].qty, o.qty),
         NEW p, p = [o EXCEPT !.qty = o.qty - n],
         NEW after, after = [tab EXCEPT ![r] = IF tab[r].qty = n THEN NoOrder
                                               ELSE [tab[r] EXCEPT !.qty = tab[r].qty - n]],
         NEW next, next = ids \ (IF tab[r].qty = n THEN {r} ELSE {})
  PROVE  Alike(Matched(tab, o, ids), Matched(after, p, next), OrderId)
<1> PICK e : e = tab[r]
  OBVIOUS
<1>1. e \in Order /\ e.qty \in Nat /\ o.qty \in Nat /\ r \in OrderId /\ Compatible(o, e)
  BY DEF Order
<1>2. n \in Nat /\ n <= e.qty /\ n <= o.qty /\ (n = e.qty \/ n = o.qty)
  BY <1>1 DEF Least
<1>3. /\ p.qty = o.qty - n /\ p.qty \in Nat
      /\ SameOffer(o, p)
  <2>1. PICK q : q = o.qty - n
    OBVIOUS
  <2>2. p = [o EXCEPT !.qty = q] /\ q \in Nat
    BY <1>1, <1>2, <2>1
  <2> QED
    BY <2>1, <2>2 DEF SameOffer, Order
<1>4. /\ after \in [OrderId -> Order \cup {NoOrder}]
      /\ \A j \in OrderId : j # r => after[j] = tab[j]
      /\ e.qty # n => after[r] \in Order
  <2>1. PICK q : q = e.qty - n
    OBVIOUS
  <2>2. [e EXCEPT !.qty = q] \in Order
    BY <1>1, <1>2, <2>1 DEF Order
  <2>3. after = [tab EXCEPT ![r] = IF e.qty = n THEN NoOrder ELSE [e EXCEPT !.qty = q]]
    BY <2>1
  <2> QED
    BY <1>1, <2>2, <2>3
<1>5. next \in SUBSET OrderId /\ \A j \in next : after[j] \in Order
  BY <1>1, <1>4
<1>6. PICK H1 : UpTo(tab, o, ids, MaxOrders, H1) /\ Matched(tab, o, ids) = H1[MaxOrders]
  BY MatchedIs
<1>7. PICK H2 : UpTo(after, p, next, MaxOrders, H2) /\ Matched(after, p, next) = H2[MaxOrders]
  BY MatchedIs
<1>8. r \in 1 .. MaxOrders /\ r - 1 \in 0 .. MaxOrders /\ r \in 0 .. MaxOrders
  BY <1>1 DEF OrderId
<1>9. H1[r].tab = after /\ H1[r].left = o.qty - n
  <2>1. \A q \in 1 .. r - 1 : q < r
    BY <1>8
  <2>2. \A q \in 1 .. r - 1 : q \in ids => o.qty = 0 \/ ~Compatible(o, tab[q])
    BY <2>1
  <2>3. PICK m : m = H1[r - 1]
    OBVIOUS
  <2>4. m.tab = tab /\ m.left = o.qty
    BY <1>6, <1>8, <2>2, <2>3, PassedOver
  <2>5. H1[r] = Visit(o, m, r)
    <3>1. /\ H1[0] = [tab |-> tab, left |-> o.qty, trades |-> <<>>]
          /\ \A q \in 1 .. MaxOrders : q \in ids => H1[q] = Visit(o, H1[q - 1], q)
          /\ \A q \in 1 .. MaxOrders : q \notin ids => H1[q] = H1[q - 1]
      BY <1>6, UpToSteps
    <3> QED
      BY <1>8, <2>3, <3>1
  <2>6. m.tab[r] = e /\ Least(e.qty, m.left) = n /\ ~(m.left = 0 \/ ~Compatible(o, e))
    BY <1>1, <2>4
  <2>7. /\ Visit(o, m, r).left = m.left - n
        /\ Visit(o, m, r).tab = [m.tab EXCEPT ![r] = IF e.qty = n THEN NoOrder
                                                     ELSE [e EXCEPT !.qty = e.qty - n]]
    BY <2>6 DEF Visit
  <2> QED
    BY <2>4, <2>5, <2>7
<1>10. H2[r].tab = after /\ H2[r].left = o.qty - n
  <2>1. ASSUME NEW q \in 1 .. r, q \in next
        PROVE  p.qty = 0 \/ ~Compatible(p, after[q])
    <3>1. CASE q = r
      <4>1. n = o.qty
        BY <1>2, <2>1, <3>1
      <4> QED
        BY <1>1, <1>3, <4>1
    <3>2. CASE q # r
      <4>1. q < r /\ q \in ids
        BY <1>8, <2>1, <3>2
      <4>2. after[q] = tab[q] /\ ~Compatible(o, tab[q])
        BY <1>4, <3>2, <4>1
      <4> QED
        BY <1>3, <4>2 DEF SameOffer, Compatible
    <3> QED
      BY <3>1, <3>2
  <2>2. \A q \in 1 .. r : q \in next => p.qty = 0 \/ ~Compatible(p, after[q])
    BY <2>1
  <2>3. H2[r].tab = after /\ H2[r].left = p.qty
    <3>1. UpTo(after, p, next, MaxOrders, H2) /\ r \in 0 .. MaxOrders
      BY <1>7, <1>8
    <3> QED
      BY ONLY <2>2, <3>1, PassedOver
  <2> QED
    BY <1>3, <2>3
<1>11. Alike(H1[r], H2[r], OrderId)
  BY <1>9, <1>10 DEF Alike
<1>12. /\ \A q \in r + 1 .. MaxOrders : q \in ids <=> q \in next
       /\ \A q \in r + 1 .. MaxOrders : q \in ids => q \in OrderId
  BY <1>8
<1>13. Alike(H1[MaxOrders], H2[MaxOrders], OrderId)
  <2>1. UpTo(tab, o, ids, MaxOrders, H1) /\ UpTo(after, p, next, MaxOrders, H2)
    BY <1>6, <1>7
  <2>2. /\ OrderId \in SUBSET OrderId /\ r \in 0 .. MaxOrders
        /\ o.qty \in Nat /\ p.qty \in Nat /\ SameOffer(o, p)
    BY <1>1, <1>3, <1>8
  <2>3. /\ tab \in [OrderId -> Order \cup {NoOrder}]
        /\ ids \in SUBSET OrderId /\ \A j \in ids : tab[j] \in Order
    OBVIOUS
  <2>4. /\ after \in [OrderId -> Order \cup {NoOrder}]
        /\ next \in SUBSET OrderId /\ \A j \in next : after[j] \in Order
    BY <1>4, <1>5
  <2> QED
    BY ONLY <1>11, <1>12, <2>1, <2>2, <2>3, <2>4, StayAlike
<1> QED
  BY <1>6, <1>7, <1>13

-----------------------------------------------------------------------------
(* The elements of a set in some order *)

\* A finite set can be put into a sequence.
LEMMA SetToSeqType ==
  ASSUME NEW S, IsFiniteSet(S)
  PROVE  SetToSeq(S) \in Seq(S)
<1>1. PICK n \in Nat : n = Cardinality(S)
  BY FS_CardinalityType
<1>2. ExistsBijection(1 .. n, S)
  BY <1>1, FS_CardinalityType
<1>3. \E f \in [1 .. n -> S] : IsInjective(f)
  BY <1>2 DEF ExistsBijection, Bijection, Injection, Surjection, IsInjective
<1>4. PICK s : s = SetToSeq(S)
  OBVIOUS
<1>5. s \in [1 .. n -> S]
  BY <1>1, <1>3, <1>4 DEF SetToSeq
<1> QED
  BY <1>1, <1>4, <1>5

=============================================================================
