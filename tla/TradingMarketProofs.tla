------------------------ MODULE TradingMarketProofs ------------------------
(***************************************************************************)
(* Proofs about TradingMarket, for any number of threads, stocks, orders   *)
(* and requests.  First BookInv, which is inductive by itself and says     *)
(* what threads, mutexes, resting sets and order table know of each other; *)
(* on top of it the rest of the inductive invariant, about quantities,     *)
(* reports and cancellations; then the theorems about the specification.   *)
(* Each lemma about a step has one case per action.  The last parts are    *)
(* about a single thread: it never dies, leaves no crossed book, and       *)
(* implements AtomicMarket.                                                *)
(***************************************************************************)
EXTENDS TradingMarketInv, TradingMarketAtomic, TradesProofs

USE OrdersAssumption, ThreadsAssumption

-----------------------------------------------------------------------------
(* Operators *)

\* A legal request is an order.
LEMMA LegalIsOrder ==
  ASSUME NEW req \in Requests, CheckRequest(req)
  PROVE  req \in Order /\ req.qty > 0
<1>1. req \in Request
  OBVIOUS
<1>2. req.client \in Nat \ {0} /\ req.stock \in Stocks
  BY <1>1 DEF Request, CheckRequest
<1> QED
  BY <1>1, <1>2 DEF Request, Order, CheckRequest

\* Trading or repricing an order leaves it an order of its stock and side.
LEMMA AlteredIsOrder ==
  ASSUME NEW o \in Order, NEW q \in Nat, NEW p \in Int
  PROVE  /\ [o EXCEPT !.qty = q] \in Order
         /\ [o EXCEPT !.qty = q, !.price = p] \in Order
  BY DEF Order

\* The other side of a side is a side, and back.
LEMMA OppSide ==
  ASSUME NEW d \in Side
  PROVE  Opp(d) \in Side /\ Opp(d) # d /\ Opp(Opp(d)) = d
  BY DEF Side, Opp

\* The quantity of a trade leaves neither order overdrawn.
LEMMA TradeBound ==
  ASSUME NEW a \in Nat, NEW b \in Nat
  PROVE  Least(a, b) \in Nat /\ Least(a, b) <= a /\ Least(a, b) <= b
  BY DEF Least

\* Whatever price an order keeps is a price.
LEMMA RepricedIsPrice ==
  ASSUME NEW o \in Order
  PROVE  Repriced(o) \in Int
  BY DEF Order, Repriced

-----------------------------------------------------------------------------
(* Types *)

\* What the locals of a thread that has a request are.
LEMMA MineType ==
  ASSUME TypeInv, NEW t \in Threads, pc[t] # "idle"
  PROVE  /\ oid[t] \in OrderId
         /\ mine[t] \in Order
         /\ mine[t].stock \in Stocks
         /\ mine[t].dir \in Side /\ Opp(mine[t].dir) \in Side
         /\ mine[t].qty \in Nat
<1>1. oid[t] \in OrderId /\ mine[t] \in Order
  BY DEF TypeInv, LocalsOK
<1>2. mine[t].stock \in Stocks /\ mine[t].dir \in Side /\ mine[t].qty \in Nat
  BY <1>1 DEF Order
<1> QED
  BY <1>1, <1>2, OppSide

\* The initial values have their types.
LEMMA TypeInit == Init => TypeInv
<1> SUFFICES ASSUME Init PROVE TypeInv
  OBVIOUS
<1>1. TypeOK
  BY DEF Init, TypeOK, OrderId, Side
<1>2. LocalsOK
  BY DEF Init, LocalsOK, Scanning
<1> QED
  BY <1>1, <1>2 DEF TypeInv

\* The four ways to die change nothing but `fault`.
LEMMA Died ==
  ASSUME NEW t \in Threads,
         Throw(t) \/ RaceOnStockMutex(t) \/ RaceOnAlter(t) \/ NullMutex(t)
  PROVE  /\ fault' \in {"out_of_range", "data_race", "null_mutex"}
         /\ UNCHANGED <<id, orders, book, listed, mutex, pc, oid, mine, cnt, resting,
                        placed, filled, leave, cancels, cancelLeave>>
<1>1. CASE Throw(t)
  BY <1>1 DEF Throw, locals, reports
<1>2. CASE RaceOnStockMutex(t)
  BY <1>2 DEF RaceOnStockMutex, locals, reports
<1>3. CASE RaceOnAlter(t)
  BY <1>3 DEF RaceOnAlter, locals, reports
<1>4. CASE NullMutex(t)
  BY <1>4 DEF NullMutex, locals, reports
<1> QED
  BY <1>1, <1>2, <1>3, <1>4

\* The steps of the system, one disjunct per way the state can change.
LEMMA StepCases ==
  ASSUME [Next]_vars
  PROVE  \/ \E t \in Threads :
              \/ \E req \in Requests : TakeNumber(t, req)
              \/ \E i \in OrderId : CancelLookup(t, i)
              \/ \E r \in OrderId : Fill(t, r)
              \/ InsertOrder(t) \/ FindStock(t) \/ MissStock(t)
              \/ BeginInsertStock(t) \/ SkipInsertStock(t) \/ EndInsertStock(t)
              \/ SkipMatching(t) \/ LockOpposite(t) \/ SelectOwn(t)
              \/ Retire(t) \/ EndScan(t)
              \/ LockOwn(t) \/ Rest(t) \/ Drop(t)
              \/ CancelMiss(t) \/ CancelErase(t) \/ CancelUnbook(t)
              \/ Throw(t) \/ RaceOnStockMutex(t) \/ RaceOnAlter(t) \/ NullMutex(t)
         \/ UNCHANGED vars
  BY DEF Next, Arrive, Proceed, ProcessNewOrder, CreateOrder, MatchOrder,
         ProcessCancelOrder, RejectOrder, RejectCancel, QueryOrders, Terminated

\* Every step keeps every variable in its type.
LEMMA TypeOKStep == TypeInv /\ [Next]_vars => TypeOK'
<1> SUFFICES ASSUME TypeInv, [Next]_vars PROVE TypeOK'
  OBVIOUS
<1>0. /\ id \in 0 .. MaxOrders
      /\ orders \in [OrderId -> Order \cup {NoOrder}]
      /\ book \in [Stocks -> [Side -> SUBSET OrderId]]
      /\ listed \subseteq Stocks
      /\ mutex \in [Stocks -> [Side -> Threads \cup {Free}]]
      /\ pc \in [Threads -> {"idle", "insert"} \cup Creating \cup Matching \cup Canceling]
      /\ oid \in [Threads -> 0 .. MaxOrders]
      /\ mine \in [Threads -> Order \cup {NoOrder}]
      /\ cnt \in [Threads -> Nat]
      /\ resting \in [Threads -> 0 .. MaxOrders]
      /\ fault \in {"none", "out_of_range", "data_race", "null_mutex"}
      /\ placed \in [OrderId -> Order \cup {NoOrder}]
      /\ filled \in [OrderId -> Nat]
      /\ leave \in [OrderId -> Nat]
      /\ cancels \in [OrderId -> Nat]
      /\ cancelLeave \in [OrderId -> Nat]
      /\ LocalsOK
      /\ TypeInv
  BY DEF TypeInv, TypeOK
<1> USE DEF TypeOK, LocalsOK, Scanning, Creating, Matching, Canceling
<1>1. ASSUME NEW t \in Threads, NEW req \in Requests, TakeNumber(t, req)
      PROVE  TypeOK'
  <2>1. id + 1 \in 0 .. MaxOrders /\ req \in Order
    BY <1>0, <1>1, LegalIsOrder DEF TakeNumber
  <2>2. /\ id' = id + 1
        /\ oid' = [oid EXCEPT ![t] = id + 1]
        /\ mine' = [mine EXCEPT ![t] = req]
        /\ pc' = [pc EXCEPT ![t] = "insert"]
        /\ UNCHANGED <<orders, book, listed, mutex, cnt, resting, fault,
                       placed, filled, leave, cancels, cancelLeave>>
    BY <1>1 DEF TakeNumber, Goto, reports
  <2>3. oid' \in [Threads -> 0 .. MaxOrders]
    BY <1>0, <2>1, <2>2
  <2>4. mine' \in [Threads -> Order \cup {NoOrder}]
    BY <1>0, <2>1, <2>2
  <2> QED
    BY <1>0, <2>1, <2>2, <2>3, <2>4
<1>2. ASSUME NEW t \in Threads, InsertOrder(t)
      PROVE  TypeOK'
  BY <1>0, <1>2 DEF InsertOrder, Goto, locals
<1>3. ASSUME NEW t \in Threads, FindStock(t)
      PROVE  TypeOK'
  BY <1>0, <1>3, MineType DEF FindStock, Accept, Goto, locals
<1>4. ASSUME NEW t \in Threads, MissStock(t)
      PROVE  TypeOK'
  BY <1>0, <1>4 DEF MissStock, Goto, locals, reports
<1>5. ASSUME NEW t \in Threads, BeginInsertStock(t)
      PROVE  TypeOK'
  BY <1>0, <1>5 DEF BeginInsertStock, Goto, locals, reports
<1>6. ASSUME NEW t \in Threads, SkipInsertStock(t)
      PROVE  TypeOK'
  BY <1>0, <1>6, MineType DEF SkipInsertStock, Accept, Goto, locals
<1>7. ASSUME NEW t \in Threads, EndInsertStock(t)
      PROVE  TypeOK'
  BY <1>0, <1>7, MineType DEF EndInsertStock, Accept, Goto, locals
<1>8. ASSUME NEW t \in Threads, SkipMatching(t)
      PROVE  TypeOK'
  BY <1>0, <1>8 DEF SkipMatching, Goto, locals, reports
<1>9. ASSUME NEW t \in Threads, LockOpposite(t)
      PROVE  TypeOK'
  BY <1>0, <1>9, MineType DEF LockOpposite, Unlocked, Lock, Goto, locals, reports
<1>10. ASSUME NEW t \in Threads, SelectOwn(t)
       PROVE  TypeOK'
  BY <1>0, <1>10, MineType DEF SelectOwn, Goto, reports
<1>11. ASSUME NEW t \in Threads, NEW r \in OrderId, Fill(t, r)
       PROVE  TypeOK'
  <2> DEFINE n == Least(orders[r].qty, mine[t].qty - cnt[t])
             q == mine[t].qty - cnt[t] - n
             z == orders[r].qty - n
  <2>1. /\ oid[t] \in OrderId /\ mine[t].qty \in Nat
        /\ orders[r] \in Order /\ orders[r].qty \in Nat
        /\ cnt[t] \in Nat /\ mine[t].qty - cnt[t] \in Nat
    BY <1>0, <1>11, MineType DEF Fill, StopsAt, Order
  <2>2. n \in Nat /\ q \in Nat /\ z \in Nat
    <3>1. n \in Nat /\ n <= orders[r].qty /\ n <= mine[t].qty - cnt[t]
      BY <2>1, TradeBound
    <3> QED
      BY <2>1, <3>1
  <2>3. /\ orders' = [orders EXCEPT ![r].qty = z]
        /\ cnt' = [cnt EXCEPT ![t] = @ + n]
        /\ filled' = [filled EXCEPT ![oid[t]] = @ + n, ![r] = @ + n]
        /\ leave' = [leave EXCEPT ![oid[t]] = q, ![r] = z]
    BY <1>11 DEF Fill
  <2> HIDE DEF n, q, z
  <2>4. orders' \in [OrderId -> Order \cup {NoOrder}]
    <3>1. [orders[r] EXCEPT !.qty = z] \in Order
      BY <2>1, <2>2, AlteredIsOrder
    <3> QED
      BY <1>0, <2>3, <3>1
  <2>5. filled' \in [OrderId -> Nat] /\ leave' \in [OrderId -> Nat]
    <3>1. filled \in [OrderId -> Nat] /\ leave \in [OrderId -> Nat]
      BY <1>0
    <3>2. leave' \in [OrderId -> Nat]
      BY <2>1, <2>2, <2>3, <3>1
    <3>3. \A i \in OrderId : filled'[i] \in Nat
      BY <2>1, <2>2, <2>3, <3>1
    <3>4. filled' \in [OrderId -> Nat]
      BY <2>3, <3>1, <3>3
    <3> QED
      BY <3>2, <3>4
  <2>6. cnt' \in [Threads -> Nat] /\ resting' \in [Threads -> 0 .. MaxOrders]
    <3>1. cnt \in [Threads -> Nat] /\ resting \in [Threads -> 0 .. MaxOrders]
      BY <1>0
    <3>2. cnt' \in [Threads -> Nat]
      BY <2>2, <2>3, <3>1
    <3>3. resting' = [resting EXCEPT ![t] = r]
      BY <1>11 DEF Fill
    <3>4. r \in 0 .. MaxOrders
      BY DEF OrderId
    <3> QED
      BY <3>1, <3>2, <3>3, <3>4
  <2> QED
    BY <1>0, <1>11, <2>4, <2>5, <2>6 DEF Fill, Goto
<1>12. ASSUME NEW t \in Threads, Retire(t)
       PROVE  TypeOK'
  BY <1>0, <1>12, MineType DEF Retire, Goto, locals, reports
<1>13. ASSUME NEW t \in Threads, EndScan(t)
       PROVE  TypeOK'
  <2>1. /\ oid[t] \in OrderId /\ mine[t] \in Order /\ mine[t].qty \in Nat
        /\ mine[t].stock \in Stocks /\ Opp(mine[t].dir) \in Side
        /\ mine[t].qty - cnt[t] \in Nat
    BY <1>0, <1>13, MineType DEF EndScan
  <2>2. [mine[t] EXCEPT !.qty = mine[t].qty - cnt[t], !.price = Repriced(mine[t])] \in Order
    BY <2>1, RepricedIsPrice, AlteredIsOrder
  <2>3. orders' \in [OrderId -> Order \cup {NoOrder}]
    BY <1>0, <1>13, <2>2 DEF EndScan
  <2>4. mutex' \in [Stocks -> [Side -> Threads \cup {Free}]]
    BY <1>0, <1>13, <2>1 DEF EndScan, Unlock
  <2> QED
    BY <1>0, <1>13, <2>3, <2>4 DEF EndScan, Goto, locals, reports
<1>14. ASSUME NEW t \in Threads, LockOwn(t)
       PROVE  TypeOK'
  BY <1>0, <1>14, MineType DEF LockOwn, Unlocked, Lock, Goto, locals, reports
<1>15. ASSUME NEW t \in Threads, Rest(t)
       PROVE  TypeOK'
  BY <1>0, <1>15, MineType DEF Rest, Unlock, Goto, locals, reports
<1>16. ASSUME NEW t \in Threads, Drop(t)
       PROVE  TypeOK'
  BY <1>0, <1>16, MineType DEF Drop, Unlock, Goto, locals, reports
<1>17. ASSUME NEW t \in Threads, NEW i \in OrderId, CancelLookup(t, i)
       PROVE  TypeOK'
  BY <1>0, <1>17 DEF CancelLookup, Goto, reports, OrderId
<1>18. ASSUME NEW t \in Threads, CancelMiss(t)
       PROVE  TypeOK'
  BY <1>0, <1>18 DEF CancelMiss, Goto, locals, reports
<1>19. ASSUME NEW t \in Threads, CancelErase(t)
       PROVE  TypeOK'
  BY <1>0, <1>19, MineType DEF CancelErase, Unlocked, Lock, Goto, locals, reports
<1>20. ASSUME NEW t \in Threads, CancelUnbook(t)
       PROVE  TypeOK'
  BY <1>0, <1>20, MineType DEF CancelUnbook, Unlock, Goto, locals
<1>21. ASSUME NEW t \in Threads,
              Throw(t) \/ RaceOnStockMutex(t) \/ RaceOnAlter(t) \/ NullMutex(t)
       PROVE  TypeOK'
  BY <1>0, <1>21, Died
<1>22. CASE UNCHANGED vars
  BY <1>0, <1>22 DEF vars, locals, reports
<1> QED
  BY StepCases, <1>1, <1>2, <1>3, <1>4, <1>5, <1>6, <1>7, <1>8, <1>9, <1>10,
     <1>11, <1>12, <1>13, <1>14, <1>15, <1>16, <1>17, <1>18, <1>19, <1>20, <1>21, <1>22

\* Every step keeps the locals a thread goes on to use initialised and in range.
LEMMA LocalsOKStep == TypeInv /\ [Next]_vars => LocalsOK'
<1> SUFFICES ASSUME TypeInv, [Next]_vars PROVE LocalsOK'
  OBVIOUS
<1>0. /\ id \in 0 .. MaxOrders
      /\ pc \in [Threads -> {"idle", "insert"} \cup Creating \cup Matching \cup Canceling]
      /\ oid \in [Threads -> 0 .. MaxOrders]
      /\ mine \in [Threads -> Order \cup {NoOrder}]
      /\ cnt \in [Threads -> Nat]
      /\ resting \in [Threads -> 0 .. MaxOrders]
      /\ orders \in [OrderId -> Order \cup {NoOrder}]
      /\ LocalsOK
      /\ TypeInv
  BY DEF TypeInv, TypeOK
<1> USE DEF LocalsOK, Scanning, Creating, Matching, Canceling
<1>1. ASSUME NEW t \in Threads, NEW req \in Requests, TakeNumber(t, req)
      PROVE  LocalsOK'
  BY <1>0, <1>1, LegalIsOrder DEF TakeNumber, Goto, reports, OrderId
<1>2. ASSUME NEW t \in Threads, InsertOrder(t)
      PROVE  LocalsOK'
  BY <1>0, <1>2 DEF InsertOrder, Goto, locals
<1>3. ASSUME NEW t \in Threads, FindStock(t)
      PROVE  LocalsOK'
  BY <1>0, <1>3 DEF FindStock, Accept, Goto, locals
<1>4. ASSUME NEW t \in Threads, MissStock(t)
      PROVE  LocalsOK'
  BY <1>0, <1>4 DEF MissStock, Goto, locals, reports
<1>5. ASSUME NEW t \in Threads, BeginInsertStock(t)
      PROVE  LocalsOK'
  BY <1>0, <1>5 DEF BeginInsertStock, Goto, locals, reports
<1>6. ASSUME NEW t \in Threads, SkipInsertStock(t)
      PROVE  LocalsOK'
  BY <1>0, <1>6 DEF SkipInsertStock, Accept, Goto, locals
<1>7. ASSUME NEW t \in Threads, EndInsertStock(t)
      PROVE  LocalsOK'
  BY <1>0, <1>7 DEF EndInsertStock, Accept, Goto, locals
<1>8. ASSUME NEW t \in Threads, SkipMatching(t)
      PROVE  LocalsOK'
  BY <1>0, <1>8 DEF SkipMatching, Goto, locals, reports
<1>9. ASSUME NEW t \in Threads, LockOpposite(t)
      PROVE  LocalsOK'
  BY <1>0, <1>9, MineType DEF LockOpposite, Unlocked, Lock, Goto, locals, reports
<1>10. ASSUME NEW t \in Threads, SelectOwn(t)
       PROVE  LocalsOK'
  BY <1>0, <1>10, MineType DEF SelectOwn, Goto, reports, Order
<1>11. ASSUME NEW t \in Threads, NEW r \in OrderId, Fill(t, r)
       PROVE  LocalsOK'
  <2>1. /\ mine[t].qty \in Nat /\ orders[r] \in Order /\ orders[r].qty \in Nat
        /\ cnt[t] \in Nat /\ mine[t].qty - cnt[t] \in Nat
    BY <1>0, <1>11, MineType DEF Fill, StopsAt, Order
  <2> DEFINE n == Least(orders[r].qty, mine[t].qty - cnt[t])
  <2>2. n \in Nat /\ n <= orders[r].qty /\ n <= mine[t].qty - cnt[t]
    BY <2>1, TradeBound
  <2>3. cnt'[t] = cnt[t] + n /\ cnt'[t] <= mine[t].qty
    BY <1>0, <1>11, <2>1, <2>2 DEF Fill
  <2> QED
    BY <1>0, <1>11, <2>3 DEF Fill, Goto
<1>12. ASSUME NEW t \in Threads, Retire(t)
       PROVE  LocalsOK'
  BY <1>0, <1>12, MineType DEF Retire, Goto, locals, reports
<1>13. ASSUME NEW t \in Threads, EndScan(t)
       PROVE  LocalsOK'
  BY <1>0, <1>13, MineType DEF EndScan, Unlock, Goto, locals, reports
<1>14. ASSUME NEW t \in Threads, LockOwn(t)
       PROVE  LocalsOK'
  BY <1>0, <1>14, MineType DEF LockOwn, Unlocked, Lock, Goto, locals, reports
<1>15. ASSUME NEW t \in Threads, Rest(t)
       PROVE  LocalsOK'
  BY <1>0, <1>15, MineType DEF Rest, Unlock, Goto, locals, reports
<1>16. ASSUME NEW t \in Threads, Drop(t)
       PROVE  LocalsOK'
  BY <1>0, <1>16, MineType DEF Drop, Unlock, Goto, locals, reports
<1>17. ASSUME NEW t \in Threads, NEW i \in OrderId, CancelLookup(t, i)
       PROVE  LocalsOK'
  BY <1>0, <1>17 DEF CancelLookup, Goto, reports
<1>18. ASSUME NEW t \in Threads, CancelMiss(t)
       PROVE  LocalsOK'
  BY <1>0, <1>18 DEF CancelMiss, Goto, locals, reports
<1>19. ASSUME NEW t \in Threads, CancelErase(t)
       PROVE  LocalsOK'
  BY <1>0, <1>19, MineType DEF CancelErase, Unlocked, Lock, Goto, locals, reports
<1>20. ASSUME NEW t \in Threads, CancelUnbook(t)
       PROVE  LocalsOK'
  BY <1>0, <1>20, MineType DEF CancelUnbook, Unlock, Goto, locals
<1>21. ASSUME NEW t \in Threads,
              Throw(t) \/ RaceOnStockMutex(t) \/ RaceOnAlter(t) \/ NullMutex(t)
       PROVE  LocalsOK'
  BY <1>0, <1>21, Died
<1>22. CASE UNCHANGED vars
  BY <1>0, <1>22 DEF vars, locals, reports
<1> QED
  BY StepCases, <1>1, <1>2, <1>3, <1>4, <1>5, <1>6, <1>7, <1>8, <1>9, <1>10,
     <1>11, <1>12, <1>13, <1>14, <1>15, <1>16, <1>17, <1>18, <1>19, <1>20, <1>21, <1>22

\* Types and locals together.
LEMMA TypeStep == TypeInv /\ [Next]_vars => TypeInv'
  BY TypeOKStep, LocalsOKStep DEF TypeInv

\* The table's entry and the local copy of a thread's order are of one stock and side.
LEMMA SameOwn ==
  ASSUME BookInv, NEW t \in Threads, pc[t] \notin {"idle", "insert"},
         orders[oid[t]] # NoOrder
  PROVE  orders[oid[t]].stock = mine[t].stock /\ orders[oid[t]].dir = mine[t].dir
  BY MineType DEF BookInv, SameStockAndSide

\* Every step keeps the mutexes with the threads inside their regions.
LEMMA LockStep == BookInv /\ [Next]_vars => LockInv'
<1> SUFFICES ASSUME BookInv, [Next]_vars PROVE LockInv'
  OBVIOUS
<1>0. /\ mutex \in [Stocks -> [Side -> Threads \cup {Free}]]
      /\ pc \in [Threads -> {"idle", "insert"} \cup Creating \cup Matching \cup Canceling]
      /\ mine \in [Threads -> Order \cup {NoOrder}]
      /\ LockInv
      /\ TypeInv
  BY DEF BookInv, TypeInv, TypeOK
<1> USE DEF LockInv, HoldsOpposite, HoldsOwn, Creating, Matching, Canceling
<1>1. ASSUME NEW t \in Threads, NEW req \in Requests, TakeNumber(t, req)
      PROVE  LockInv'
  BY <1>0, <1>1 DEF TakeNumber, Goto, reports
<1>2. ASSUME NEW t \in Threads, InsertOrder(t)
      PROVE  LockInv'
  BY <1>0, <1>2 DEF InsertOrder, Goto, locals
<1>3. ASSUME NEW t \in Threads, FindStock(t)
      PROVE  LockInv'
  BY <1>0, <1>3 DEF FindStock, Accept, Goto, locals
<1>4. ASSUME NEW t \in Threads, MissStock(t)
      PROVE  LockInv'
  BY <1>0, <1>4 DEF MissStock, Goto, locals, reports
<1>5. ASSUME NEW t \in Threads, BeginInsertStock(t)
      PROVE  LockInv'
  BY <1>0, <1>5 DEF BeginInsertStock, Goto, locals, reports
<1>6. ASSUME NEW t \in Threads, SkipInsertStock(t)
      PROVE  LockInv'
  BY <1>0, <1>6 DEF SkipInsertStock, Accept, Goto, locals
<1>7. ASSUME NEW t \in Threads, EndInsertStock(t)
      PROVE  LockInv'
  BY <1>0, <1>7 DEF EndInsertStock, Accept, Goto, locals
<1>8. ASSUME NEW t \in Threads, SkipMatching(t)
      PROVE  LockInv'
  BY <1>0, <1>8 DEF SkipMatching, Goto, locals, reports
<1>9. ASSUME NEW t \in Threads, LockOpposite(t)
      PROVE  LockInv'
  BY <1>0, <1>9, MineType DEF LockOpposite, Unlocked, Lock, Goto, locals, reports
<1>10. ASSUME NEW t \in Threads, SelectOwn(t)
       PROVE  LockInv'
  BY <1>0, <1>10, MineType, SameOwn DEF SelectOwn, Goto, reports
<1>11. ASSUME NEW t \in Threads, NEW r \in OrderId, Fill(t, r)
       PROVE  LockInv'
  BY <1>0, <1>11 DEF Fill, Goto
<1>12. ASSUME NEW t \in Threads, Retire(t)
       PROVE  LockInv'
  BY <1>0, <1>12, MineType DEF Retire, Goto, locals, reports
<1>13. ASSUME NEW t \in Threads, EndScan(t)
       PROVE  LockInv'
  BY <1>0, <1>13, MineType DEF EndScan, Unlock, Goto, locals, reports
<1>14. ASSUME NEW t \in Threads, LockOwn(t)
       PROVE  LockInv'
  BY <1>0, <1>14, MineType DEF LockOwn, Unlocked, Lock, Goto, locals, reports
<1>15. ASSUME NEW t \in Threads, Rest(t)
       PROVE  LockInv'
  BY <1>0, <1>15, MineType DEF Rest, Unlock, Goto, locals, reports
<1>16. ASSUME NEW t \in Threads, Drop(t)
       PROVE  LockInv'
  BY <1>0, <1>16, MineType DEF Drop, Unlock, Goto, locals, reports
<1>17. ASSUME NEW t \in Threads, NEW i \in OrderId, CancelLookup(t, i)
       PROVE  LockInv'
  BY <1>0, <1>17 DEF CancelLookup, Goto, reports
<1>18. ASSUME NEW t \in Threads, CancelMiss(t)
       PROVE  LockInv'
  BY <1>0, <1>18 DEF CancelMiss, Goto, locals, reports
<1>19. ASSUME NEW t \in Threads, CancelErase(t)
       PROVE  LockInv'
  BY <1>0, <1>19, MineType DEF CancelErase, Unlocked, Lock, Goto, locals, reports
<1>20. ASSUME NEW t \in Threads, CancelUnbook(t)
       PROVE  LockInv'
  BY <1>0, <1>20, MineType DEF CancelUnbook, Unlock, Goto, locals
<1>21. ASSUME NEW t \in Threads,
              Throw(t) \/ RaceOnStockMutex(t) \/ RaceOnAlter(t) \/ NullMutex(t)
       PROVE  LockInv'
  BY <1>0, <1>21, Died
<1>22. CASE UNCHANGED vars
  BY <1>0, <1>22 DEF vars, locals, reports
<1> QED
  BY StepCases, <1>1, <1>2, <1>3, <1>4, <1>5, <1>6, <1>7, <1>8, <1>9, <1>10,
     <1>11, <1>12, <1>13, <1>14, <1>15, <1>16, <1>17, <1>18, <1>19, <1>20, <1>21, <1>22

\* Every step keeps order numbers unique: orderID_mutex hands each out once.
LEMMA NumberingStep == BookInv /\ [Next]_vars => Numbering'
<1> SUFFICES ASSUME BookInv, [Next]_vars PROVE Numbering'
  OBVIOUS
<1>0. /\ id \in 0 .. MaxOrders
      /\ pc \in [Threads -> {"idle", "insert"} \cup Creating \cup Matching \cup Canceling]
      /\ oid \in [Threads -> 0 .. MaxOrders]
      /\ placed \in [OrderId -> Order \cup {NoOrder}]
      /\ Numbering
      /\ LocalsOK
  BY DEF BookInv, TypeInv, TypeOK
<1> USE DEF Creator, Numbering, OrderId, Creating, Matching, Canceling
<1>1. ASSUME NEW t \in Threads, NEW req \in Requests, TakeNumber(t, req)
      PROVE  Numbering'
  BY <1>0, <1>1 DEF TakeNumber, Goto, reports
<1>2. ASSUME NEW t \in Threads, InsertOrder(t)
      PROVE  Numbering'
  BY <1>0, <1>2, MineType DEF InsertOrder, Goto, locals, LocalsOK, Order
<1>3. ASSUME NEW t \in Threads, FindStock(t)
      PROVE  Numbering'
  BY <1>0, <1>3 DEF FindStock, Accept, Goto, locals
<1>4. ASSUME NEW t \in Threads, MissStock(t)
      PROVE  Numbering'
  BY <1>0, <1>4 DEF MissStock, Goto, locals, reports
<1>5. ASSUME NEW t \in Threads, BeginInsertStock(t)
      PROVE  Numbering'
  BY <1>0, <1>5 DEF BeginInsertStock, Goto, locals, reports
<1>6. ASSUME NEW t \in Threads, SkipInsertStock(t)
      PROVE  Numbering'
  BY <1>0, <1>6 DEF SkipInsertStock, Accept, Goto, locals
<1>7. ASSUME NEW t \in Threads, EndInsertStock(t)
      PROVE  Numbering'
  BY <1>0, <1>7 DEF EndInsertStock, Accept, Goto, locals
<1>8. ASSUME NEW t \in Threads, SkipMatching(t)
      PROVE  Numbering'
  BY <1>0, <1>8 DEF SkipMatching, Goto, locals, reports
<1>9. ASSUME NEW t \in Threads, LockOpposite(t)
      PROVE  Numbering'
  BY <1>0, <1>9 DEF LockOpposite, Unlocked, Lock, Goto, locals, reports
<1>10. ASSUME NEW t \in Threads, SelectOwn(t)
       PROVE  Numbering'
  BY <1>0, <1>10 DEF SelectOwn, Goto, reports
<1>11. ASSUME NEW t \in Threads, NEW r \in OrderId, Fill(t, r)
       PROVE  Numbering'
  BY <1>0, <1>11 DEF Fill, Goto
<1>12. ASSUME NEW t \in Threads, Retire(t)
       PROVE  Numbering'
  BY <1>0, <1>12 DEF Retire, Goto, locals, reports
<1>13. ASSUME NEW t \in Threads, EndScan(t)
       PROVE  Numbering'
  BY <1>0, <1>13 DEF EndScan, Unlock, Goto, locals, reports
<1>14. ASSUME NEW t \in Threads, LockOwn(t)
       PROVE  Numbering'
  BY <1>0, <1>14 DEF LockOwn, Unlocked, Lock, Goto, locals, reports
<1>15. ASSUME NEW t \in Threads, Rest(t)
       PROVE  Numbering'
  BY <1>0, <1>15 DEF Rest, Unlock, Goto, locals, reports
<1>16. ASSUME NEW t \in Threads, Drop(t)
       PROVE  Numbering'
  BY <1>0, <1>16 DEF Drop, Unlock, Goto, locals, reports
<1>17. ASSUME NEW t \in Threads, NEW i \in OrderId, CancelLookup(t, i)
       PROVE  Numbering'
  BY <1>0, <1>17 DEF CancelLookup, Goto, reports
<1>18. ASSUME NEW t \in Threads, CancelMiss(t)
       PROVE  Numbering'
  BY <1>0, <1>18 DEF CancelMiss, Goto, locals, reports
<1>19. ASSUME NEW t \in Threads, CancelErase(t)
       PROVE  Numbering'
  BY <1>0, <1>19 DEF CancelErase, Unlocked, Lock, Goto, locals, reports
<1>20. ASSUME NEW t \in Threads, CancelUnbook(t)
       PROVE  Numbering'
  BY <1>0, <1>20 DEF CancelUnbook, Unlock, Goto, locals
<1>21. ASSUME NEW t \in Threads,
              Throw(t) \/ RaceOnStockMutex(t) \/ RaceOnAlter(t) \/ NullMutex(t)
       PROVE  Numbering'
  BY <1>0, <1>21, Died
<1>22. CASE UNCHANGED vars
  BY <1>0, <1>22 DEF vars, locals, reports
<1> QED
  BY StepCases, <1>1, <1>2, <1>3, <1>4, <1>5, <1>6, <1>7, <1>8, <1>9, <1>10,
     <1>11, <1>12, <1>13, <1>14, <1>15, <1>16, <1>17, <1>18, <1>19, <1>20, <1>21, <1>22

\* No step changes the stock or the side of an order.
LEMMA SameStockAndSideStep == BookInv /\ [Next]_vars => SameStockAndSide'
<1> SUFFICES ASSUME BookInv, [Next]_vars PROVE SameStockAndSide'
  OBVIOUS
<1>0. /\ pc \in [Threads -> {"idle", "insert"} \cup Creating \cup Matching \cup Canceling]
      /\ oid \in [Threads -> 0 .. MaxOrders]
      /\ orders \in [OrderId -> Order \cup {NoOrder}]
      /\ placed \in [OrderId -> Order \cup {NoOrder}]
      /\ mine \in [Threads -> Order \cup {NoOrder}]
      /\ book \in [Stocks -> [Side -> SUBSET OrderId]]
      /\ TypeInv
      /\ Numbering
      /\ SameStockAndSide
  BY DEF BookInv, TypeInv, TypeOK
<1> USE DEF SameStockAndSide, Creator, Numbering, Creating, Matching, Canceling
<1>1. ASSUME NEW t \in Threads, NEW req \in Requests, TakeNumber(t, req)
      PROVE  SameStockAndSide'
  BY <1>0, <1>1 DEF TakeNumber, Goto, reports
<1>2. ASSUME NEW t \in Threads, InsertOrder(t)
      PROVE  SameStockAndSide'
  BY <1>0, <1>2, MineType DEF InsertOrder, Goto, locals
<1>3. ASSUME NEW t \in Threads, FindStock(t)
      PROVE  SameStockAndSide'
  BY <1>0, <1>3 DEF FindStock, Accept, Goto, locals
<1>4. ASSUME NEW t \in Threads, MissStock(t)
      PROVE  SameStockAndSide'
  BY <1>0, <1>4 DEF MissStock, Goto, locals, reports
<1>5. ASSUME NEW t \in Threads, BeginInsertStock(t)
      PROVE  SameStockAndSide'
  BY <1>0, <1>5 DEF BeginInsertStock, Goto, locals, reports
<1>6. ASSUME NEW t \in Threads, SkipInsertStock(t)
      PROVE  SameStockAndSide'
  BY <1>0, <1>6 DEF SkipInsertStock, Accept, Goto, locals
<1>7. ASSUME NEW t \in Threads, EndInsertStock(t)
      PROVE  SameStockAndSide'
  BY <1>0, <1>7 DEF EndInsertStock, Accept, Goto, locals
<1>8. ASSUME NEW t \in Threads, SkipMatching(t)
      PROVE  SameStockAndSide'
  BY <1>0, <1>8 DEF SkipMatching, Goto, locals, reports
<1>9. ASSUME NEW t \in Threads, LockOpposite(t)
      PROVE  SameStockAndSide'
  BY <1>0, <1>9, MineType DEF LockOpposite, Unlocked, Lock, Goto, locals, reports
<1>10. ASSUME NEW t \in Threads, SelectOwn(t)
       PROVE  SameStockAndSide'
  BY <1>0, <1>10, MineType DEF SelectOwn, Goto, reports
<1>11. ASSUME NEW t \in Threads, NEW r \in OrderId, Fill(t, r)
       PROVE  SameStockAndSide'
  BY <1>0, <1>11, MineType DEF Fill, Goto
<1>12. ASSUME NEW t \in Threads, Retire(t)
       PROVE  SameStockAndSide'
  BY <1>0, <1>12, MineType DEF Retire, Goto, locals, reports
<1>13. ASSUME NEW t \in Threads, EndScan(t)
       PROVE  SameStockAndSide'
  BY <1>0, <1>13, MineType DEF EndScan, Unlock, Goto, locals, reports
<1>14. ASSUME NEW t \in Threads, LockOwn(t)
       PROVE  SameStockAndSide'
  BY <1>0, <1>14, MineType DEF LockOwn, Unlocked, Lock, Goto, locals, reports
<1>15. ASSUME NEW t \in Threads, Rest(t)
       PROVE  SameStockAndSide'
  BY <1>0, <1>15, MineType DEF Rest, Unlock, Goto, locals, reports
<1>16. ASSUME NEW t \in Threads, Drop(t)
       PROVE  SameStockAndSide'
  BY <1>0, <1>16, MineType DEF Drop, Unlock, Goto, locals, reports
<1>17. ASSUME NEW t \in Threads, NEW i \in OrderId, CancelLookup(t, i)
       PROVE  SameStockAndSide'
  BY <1>0, <1>17 DEF CancelLookup, Goto, reports
<1>18. ASSUME NEW t \in Threads, CancelMiss(t)
       PROVE  SameStockAndSide'
  BY <1>0, <1>18 DEF CancelMiss, Goto, locals, reports
<1>19. ASSUME NEW t \in Threads, CancelErase(t)
       PROVE  SameStockAndSide'
  BY <1>0, <1>19, MineType DEF CancelErase, Unlocked, Lock, Goto, locals, reports
<1>20. ASSUME NEW t \in Threads, CancelUnbook(t)
       PROVE  SameStockAndSide'
  BY <1>0, <1>20, MineType DEF CancelUnbook, Unlock, Goto, locals
<1>21. ASSUME NEW t \in Threads,
              Throw(t) \/ RaceOnStockMutex(t) \/ RaceOnAlter(t) \/ NullMutex(t)
       PROVE  SameStockAndSide'
  BY <1>0, <1>21, Died
<1>22. CASE UNCHANGED vars
  BY <1>0, <1>22 DEF vars, locals, reports
<1> QED
  BY StepCases, <1>1, <1>2, <1>3, <1>4, <1>5, <1>6, <1>7, <1>8, <1>9, <1>10,
     <1>11, <1>12, <1>13, <1>14, <1>15, <1>16, <1>17, <1>18, <1>19, <1>20, <1>21, <1>22

\* The mutex a thread holds.
LEMMA Held ==
  ASSUME BookInv, NEW t \in Threads
  PROVE  /\ pc[t] \in HoldsOpposite => mutex[mine[t].stock][Opp(mine[t].dir)] = t
         /\ pc[t] \in HoldsOwn => mutex[mine[t].stock][mine[t].dir] = t
<1>1. CASE pc[t] \in HoldsOpposite \cup HoldsOwn
  <2>1. pc[t] # "idle"
    BY <1>1 DEF HoldsOpposite, HoldsOwn
  <2> QED
    BY <2>1, <1>1, MineType DEF BookInv, LockInv, HoldsOpposite, HoldsOwn
<1> QED
  BY <1>1

\* The elements of the set a thread is matching against were placed as orders
\* of that stock and of the other side.
LEMMA OppositePlaced ==
  ASSUME BookInv, NEW t \in Threads, pc[t] # "idle", NEW r \in Opposite(t)
  PROVE  /\ r \in OrderId
         /\ placed[r] # NoOrder
         /\ placed[r].stock = mine[t].stock /\ placed[r].dir = Opp(mine[t].dir)
<1>1. mine[t].stock \in Stocks /\ Opp(mine[t].dir) \in Side
  BY MineType DEF BookInv
<1> QED
  BY <1>1 DEF BookInv, SameStockAndSide, Opposite, TypeInv, TypeOK

\* Only the thread that holds the mutex of a set takes an order out of it.
LEMMA RestingIsMine ==
  ASSUME BookInv, NEW t \in Threads, NEW u \in Threads,
         pc[t] \in HoldsOpposite, pc[u] = "retire", resting[u] \in Opposite(t)
  PROVE  u = t
<1>1. pc[t] # "idle" /\ pc[u] # "idle" /\ pc[u] \in HoldsOpposite
  BY DEF HoldsOpposite
<1>2. resting[u] \in Opposite(u)
  BY DEF BookInv, InTransit
<1>3. mine[t].stock = mine[u].stock /\ Opp(mine[t].dir) = Opp(mine[u].dir)
  BY <1>1, <1>2, OppositePlaced
<1> QED
  BY <1>1, <1>3, Held

\* An order that is still being matched is in no resting set.
LEMMA NotAtRest ==
  ASSUME BookInv, NEW t \in Threads, NEW u \in Threads, pc[t] # "idle", Creator(u)
  PROVE  oid[u] \notin Opposite(t)
<1>1. mine[t].stock \in Stocks /\ Opp(mine[t].dir) \in Side
  BY MineType DEF BookInv
<1> QED
  BY <1>1 DEF BookInv, InTransit, Opposite

\* While a thread is about to take an order out of its set, or to put it there
\* or drop it, no other thread can get the mutex to cancel it.
LEMMA CancelExcluded ==
  ASSUME BookInv, NEW t \in Threads, NEW u \in Threads,
         pc[t] = "cancelLock", Unlocked(t, mine[t].dir)
  PROVE  /\ ~(pc[u] = "retire" /\ resting[u] = oid[t])
         /\ ~(pc[u] \in {"rest", "drop"} /\ oid[u] = oid[t])
<1>1. /\ placed[oid[t]] # NoOrder
      /\ mine[t].stock = placed[oid[t]].stock /\ mine[t].dir = placed[oid[t]].dir
  BY DEF BookInv, SameStockAndSide
<1>2. mutex[mine[t].stock][mine[t].dir] \notin Threads
  BY DEF Unlocked
<1>3. ASSUME pc[u] = "retire", resting[u] = oid[t]
      PROVE  FALSE
  <2>1. resting[u] \in Opposite(u)
    BY <1>3 DEF BookInv, InTransit
  <2>2. mine[u].stock = mine[t].stock /\ Opp(mine[u].dir) = mine[t].dir
    BY <1>1, <1>3, <2>1, OppositePlaced
  <2> QED
    BY <1>2, <1>3, <2>2, Held DEF HoldsOpposite
<1>4. ASSUME pc[u] \in {"rest", "drop"}, oid[u] = oid[t]
      PROVE  FALSE
  <2>1. mine[u].stock = mine[t].stock /\ mine[u].dir = mine[t].dir
    BY <1>1, <1>4 DEF BookInv, SameStockAndSide
  <2> QED
    BY <1>2, <1>4, <2>1, Held DEF HoldsOwn
<1> QED
  BY <1>3, <1>4

\* What a trade changes.
LEMMA FillEffect ==
  ASSUME BookInv, NEW t \in Threads, NEW r \in OrderId, Fill(t, r)
  PROVE  /\ pc[t] = "scan" /\ r \in Opposite(t) /\ r # oid[t] /\ oid[t] \in OrderId
         /\ orders[r] \in Order /\ orders[r] # NoOrder
         /\ orders[r].qty \in Nat /\ mine[t].qty \in Nat /\ cnt[t] \in Nat
         /\ resting' = [resting EXCEPT ![t] = r]
         /\ UNCHANGED <<id, book, listed, mutex, oid, mine, fault,
                        placed, cancels, cancelLeave>>
         /\ \E n \in Nat :
              /\ n <= orders[r].qty /\ cnt[t] + n <= mine[t].qty
              /\ orders'[r] \in Order
              /\ orders'[r].qty = orders[r].qty - n
              /\ orders'[r].stock = orders[r].stock /\ orders'[r].dir = orders[r].dir
              /\ \A i \in OrderId : i # r => orders'[i] = orders[i]
              /\ cnt' = [cnt EXCEPT ![t] = cnt[t] + n]
              /\ filled'[r] = filled[r] + n /\ filled'[oid[t]] = filled[oid[t]] + n
              /\ \A i \in OrderId \ {r, oid[t]} : filled'[i] = filled[i]
              /\ leave'[r] = orders[r].qty - n
              /\ leave'[oid[t]] = mine[t].qty - cnt[t] - n
              /\ \A i \in OrderId \ {r, oid[t]} : leave'[i] = leave[i]
              /\ pc' = [pc EXCEPT ![t] = IF orders'[r].qty = 0 THEN "retire" ELSE "scan"]
<1>0. /\ orders \in [OrderId -> Order \cup {NoOrder}]
      /\ filled \in [OrderId -> Nat]
      /\ leave \in [OrderId -> Nat]
      /\ cnt \in [Threads -> Nat]
      /\ TypeInv
  BY DEF BookInv, TypeInv, TypeOK
<1>1. /\ pc[t] = "scan" /\ r \in Opposite(t) /\ orders[r] # NoOrder
      /\ oid[t] \in OrderId /\ mine[t].qty \in Nat /\ cnt[t] \in Nat
      /\ cnt[t] < mine[t].qty
      /\ orders[r] \in Order /\ orders[r].qty \in Nat
  BY <1>0, MineType DEF Fill, StopsAt, Stops, Order
<1>2. r # oid[t]
  BY <1>1, NotAtRest DEF Creator, Matching
<1> DEFINE n == Least(orders[r].qty, mine[t].qty - cnt[t])
           z == orders[r].qty - n
           q == mine[t].qty - cnt[t] - n
<1>3. n \in Nat /\ n <= orders[r].qty /\ n <= mine[t].qty - cnt[t]
  <2>1. mine[t].qty - cnt[t] \in Nat
    BY <1>1
  <2> QED
    BY <1>1, <2>1, TradeBound
<1>4. n \in Nat /\ z \in Nat /\ q \in Nat /\ cnt[t] + n <= mine[t].qty
  BY <1>1, <1>3
<1>5. /\ orders' = [orders EXCEPT ![r].qty = z]
      /\ cnt' = [cnt EXCEPT ![t] = @ + n]
      /\ filled' = [filled EXCEPT ![oid[t]] = @ + n, ![r] = @ + n]
      /\ leave' = [leave EXCEPT ![oid[t]] = q, ![r] = z]
      /\ resting' = [resting EXCEPT ![t] = r]
      /\ UNCHANGED <<id, book, listed, mutex, oid, mine, fault,
                     placed, cancels, cancelLeave>>
      /\ pc' = [pc EXCEPT ![t] = IF orders[r].qty = n THEN "retire" ELSE "scan"]
  BY DEF Fill, Goto
<1>6. /\ orders'[r] = [orders[r] EXCEPT !.qty = z]
      /\ \A i \in OrderId : i # r => orders'[i] = orders[i]
  BY <1>0, <1>5
<1>7. /\ orders'[r] \in Order /\ orders'[r].qty = z
      /\ orders'[r].stock = orders[r].stock /\ orders'[r].dir = orders[r].dir
  BY <1>1, <1>4, <1>6 DEF Order
<1>8. pc' = [pc EXCEPT ![t] = IF orders'[r].qty = 0 THEN "retire" ELSE "scan"]
  <2>1. (orders'[r].qty = 0) = (orders[r].qty = n)
    BY <1>1, <1>3, <1>7
  <2> QED
    BY <1>5, <2>1
<1>9. /\ filled'[r] = filled[r] + n /\ filled'[oid[t]] = filled[oid[t]] + n
      /\ \A i \in OrderId \ {r, oid[t]} : filled'[i] = filled[i]
  BY <1>0, <1>1, <1>2, <1>5
<1>10. /\ leave'[r] = z /\ leave'[oid[t]] = q
       /\ \A i \in OrderId \ {r, oid[t]} : leave'[i] = leave[i]
  BY <1>0, <1>1, <1>2, <1>5
<1> HIDE DEF n, z, q
<1>11. z = orders[r].qty - n /\ q = mine[t].qty - cnt[t] - n
  BY DEF z, q
<1>12. n <= orders[r].qty /\ cnt[t] + n <= mine[t].qty
  BY <1>3, <1>4
<1> QED
  BY <1>1, <1>2, <1>4, <1>5, <1>6, <1>7, <1>8, <1>9, <1>10, <1>11, <1>12

\* Every step keeps what a thread knows of the order it is about to move.
LEMMA InTransitStep == BookInv /\ [Next]_vars => InTransit'
<1> SUFFICES ASSUME BookInv, [Next]_vars PROVE InTransit'
  OBVIOUS
<1>0. /\ pc \in [Threads -> {"idle", "insert"} \cup Creating \cup Matching \cup Canceling]
      /\ oid \in [Threads -> 0 .. MaxOrders]
      /\ orders \in [OrderId -> Order \cup {NoOrder}]
      /\ placed \in [OrderId -> Order \cup {NoOrder}]
      /\ mine \in [Threads -> Order \cup {NoOrder}]
      /\ book \in [Stocks -> [Side -> SUBSET OrderId]]
      /\ resting \in [Threads -> 0 .. MaxOrders]
      /\ id \in 0 .. MaxOrders
      /\ TypeInv
      /\ LocalsOK
      /\ InTransit
      /\ Numbering
      /\ SameStockAndSide
      /\ BookInv
  BY DEF BookInv, TypeInv, TypeOK
<1> USE DEF InTransit, Creator, Creating, Matching, Canceling
<1>1. ASSUME NEW t \in Threads, NEW req \in Requests, TakeNumber(t, req)
      PROVE  InTransit'
  BY <1>0, <1>1
     DEF TakeNumber, Goto, reports, Numbering, SameStockAndSide, Opposite, OrderId
<1>2. ASSUME NEW t \in Threads, InsertOrder(t)
      PROVE  InTransit'
  BY <1>0, <1>2
     DEF InsertOrder, Goto, locals, Numbering, SameStockAndSide, Opposite, LocalsOK
<1>3. ASSUME NEW t \in Threads, FindStock(t)
      PROVE  InTransit'
  BY <1>0, <1>3 DEF FindStock, Accept, Goto, locals, Opposite
<1>4. ASSUME NEW t \in Threads, MissStock(t)
      PROVE  InTransit'
  BY <1>0, <1>4 DEF MissStock, Goto, locals, reports, Opposite
<1>5. ASSUME NEW t \in Threads, BeginInsertStock(t)
      PROVE  InTransit'
  BY <1>0, <1>5 DEF BeginInsertStock, Goto, locals, reports, Opposite
<1>6. ASSUME NEW t \in Threads, SkipInsertStock(t)
      PROVE  InTransit'
  BY <1>0, <1>6 DEF SkipInsertStock, Accept, Goto, locals, Opposite
<1>7. ASSUME NEW t \in Threads, EndInsertStock(t)
      PROVE  InTransit'
  BY <1>0, <1>7 DEF EndInsertStock, Accept, Goto, locals, Opposite
<1>8. ASSUME NEW t \in Threads, SkipMatching(t)
      PROVE  InTransit'
  BY <1>0, <1>8 DEF SkipMatching, Goto, locals, reports, Opposite
<1>9. ASSUME NEW t \in Threads, LockOpposite(t)
      PROVE  InTransit'
  BY <1>0, <1>9, MineType
     DEF LockOpposite, Unlocked, Lock, Goto, locals, reports, Opposite
<1>10. ASSUME NEW t \in Threads, SelectOwn(t)
       PROVE  InTransit'
  BY <1>0, <1>10, MineType DEF SelectOwn, Goto, reports, Opposite
<1>11. ASSUME NEW t \in Threads, NEW r \in OrderId, Fill(t, r)
       PROVE  InTransit'
  <2>1. PICK n \in Nat :
          /\ n <= orders[r].qty
          /\ orders'[r] \in Order /\ orders'[r].qty = orders[r].qty - n
          /\ orders'[r].stock = orders[r].stock /\ orders'[r].dir = orders[r].dir
          /\ \A i \in OrderId : i # r => orders'[i] = orders[i]
          /\ pc' = [pc EXCEPT ![t] = IF orders'[r].qty = 0 THEN "retire" ELSE "scan"]
    BY <1>0, <1>11, FillEffect
  <2>2. /\ pc[t] = "scan" /\ r \in Opposite(t) /\ orders[r] # NoOrder
        /\ orders[r].qty \in Nat
        /\ resting' = [resting EXCEPT ![t] = r]
        /\ UNCHANGED <<book, oid, mine>>
    BY <1>0, <1>11, FillEffect
  <2>3. ASSUME NEW u \in Threads, pc[u] = "retire"
        PROVE  resting[u] # r
    BY <1>0, <2>2, <2>3, RestingIsMine DEF HoldsOpposite
  <2>4. ASSUME NEW u \in Threads, Creator(u)
        PROVE  oid[u] # r
    BY <1>0, <2>2, <2>4, NotAtRest
  <2>5. orders'[r] # NoOrder
    BY <2>1
  <2>6. /\ pc'[t] = "retire" => orders'[r].qty = 0
        /\ pc'[t] \in {"scan", "retire"}
        /\ \A u \in Threads : u # t => pc'[u] = pc[u] /\ resting'[u] = resting[u]
        /\ resting'[t] = r
    BY <1>0, <2>1, <2>2
  <2>7. \A u \in Threads : Opposite(u)' = Opposite(u)
    BY <2>2 DEF Opposite
  <2>8. oid[t] \in OrderId /\ \A u \in Threads : pc[u] # "idle" => oid[u] \in OrderId
    BY <1>0, <2>2 DEF TypeInv, LocalsOK
  <2>9. \A u \in Threads : pc[u] = "retire" => resting[u] \in OrderId
    BY <1>0 DEF TypeInv, LocalsOK
  <2> QED
    BY <1>0, <2>1, <2>2, <2>3, <2>4, <2>5, <2>6, <2>7, <2>8, <2>9
<1>12. ASSUME NEW t \in Threads, Retire(t)
       PROVE  InTransit'
  BY <1>0, <1>12, MineType, RestingIsMine, NotAtRest
     DEF Retire, Goto, locals, reports, Opposite, HoldsOpposite, LocalsOK
<1>13. ASSUME NEW t \in Threads, EndScan(t)
       PROVE  InTransit'
  BY <1>0, <1>13, MineType, NotAtRest
     DEF EndScan, Unlock, Goto, locals, reports, Opposite, Numbering, LocalsOK, Order
<1>14. ASSUME NEW t \in Threads, LockOwn(t)
       PROVE  InTransit'
  BY <1>0, <1>14, MineType
     DEF LockOwn, Unlocked, Lock, Goto, locals, reports, Opposite, Order
<1>15. ASSUME NEW t \in Threads, Rest(t)
       PROVE  InTransit'
  BY <1>0, <1>15, MineType
     DEF Rest, Unlock, Goto, locals, reports, Opposite, Numbering
<1>16. ASSUME NEW t \in Threads, Drop(t)
       PROVE  InTransit'
  BY <1>0, <1>16, MineType, NotAtRest
     DEF Drop, Unlock, Goto, locals, reports, Opposite, Numbering, LocalsOK
<1>17. ASSUME NEW t \in Threads, NEW i \in OrderId, CancelLookup(t, i)
       PROVE  InTransit'
  BY <1>0, <1>17 DEF CancelLookup, Goto, reports, Opposite
<1>18. ASSUME NEW t \in Threads, CancelMiss(t)
       PROVE  InTransit'
  BY <1>0, <1>18 DEF CancelMiss, Goto, locals, reports, Opposite
<1>19. ASSUME NEW t \in Threads, CancelErase(t)
       PROVE  InTransit'
  BY <1>0, <1>19, MineType, CancelExcluded
     DEF CancelErase, Unlocked, Lock, Goto, locals, reports, Opposite, LocalsOK
<1>20. ASSUME NEW t \in Threads, CancelUnbook(t)
       PROVE  InTransit'
  BY <1>0, <1>20, MineType
     DEF CancelUnbook, Unlock, Goto, locals, Opposite, LocalsOK
<1>21. ASSUME NEW t \in Threads,
              Throw(t) \/ RaceOnStockMutex(t) \/ RaceOnAlter(t) \/ NullMutex(t)
       PROVE  InTransit'
  BY <1>0, <1>21, Died DEF Opposite
<1>22. CASE UNCHANGED vars
  BY <1>0, <1>22 DEF vars, locals, reports, Opposite
<1> QED
  BY StepCases, <1>1, <1>2, <1>3, <1>4, <1>5, <1>6, <1>7, <1>8, <1>9, <1>10,
     <1>11, <1>12, <1>13, <1>14, <1>15, <1>16, <1>17, <1>18, <1>19, <1>20, <1>21, <1>22

\* Every step keeps the resting sets free of orders that are not in the table.
LEMMA BookIsLiveStep == BookInv /\ [Next]_vars => BookIsLive'
<1> SUFFICES ASSUME BookInv, [Next]_vars PROVE BookIsLive'
  OBVIOUS
<1>0. /\ pc \in [Threads -> {"idle", "insert"} \cup Creating \cup Matching \cup Canceling]
      /\ oid \in [Threads -> 0 .. MaxOrders]
      /\ orders \in [OrderId -> Order \cup {NoOrder}]
      /\ placed \in [OrderId -> Order \cup {NoOrder}]
      /\ mine \in [Threads -> Order \cup {NoOrder}]
      /\ book \in [Stocks -> [Side -> SUBSET OrderId]]
      /\ resting \in [Threads -> 0 .. MaxOrders]
      /\ TypeInv
      /\ InTransit
      /\ Numbering
      /\ SameStockAndSide
      /\ BookIsLive
      /\ BookInv
  BY DEF BookInv, TypeInv, TypeOK
<1> USE DEF BookIsLive, BeingCanceled, Creating, Matching, Canceling
<1>1. ASSUME NEW t \in Threads, NEW req \in Requests, TakeNumber(t, req)
      PROVE  BookIsLive'
  BY <1>0, <1>1 DEF TakeNumber, Goto, reports
<1>2. ASSUME NEW t \in Threads, InsertOrder(t)
      PROVE  BookIsLive'
  BY <1>0, <1>2, MineType
     DEF InsertOrder, Goto, locals, Numbering, SameStockAndSide, InTransit, Creator
<1>3. ASSUME NEW t \in Threads, FindStock(t)
      PROVE  BookIsLive'
  BY <1>0, <1>3 DEF FindStock, Accept, Goto, locals
<1>4. ASSUME NEW t \in Threads, MissStock(t)
      PROVE  BookIsLive'
  BY <1>0, <1>4 DEF MissStock, Goto, locals, reports
<1>5. ASSUME NEW t \in Threads, BeginInsertStock(t)
      PROVE  BookIsLive'
  BY <1>0, <1>5 DEF BeginInsertStock, Goto, locals, reports
<1>6. ASSUME NEW t \in Threads, SkipInsertStock(t)
      PROVE  BookIsLive'
  BY <1>0, <1>6 DEF SkipInsertStock, Accept, Goto, locals
<1>7. ASSUME NEW t \in Threads, EndInsertStock(t)
      PROVE  BookIsLive'
  BY <1>0, <1>7 DEF EndInsertStock, Accept, Goto, locals
<1>8. ASSUME NEW t \in Threads, SkipMatching(t)
      PROVE  BookIsLive'
  BY <1>0, <1>8 DEF SkipMatching, Goto, locals, reports
<1>9. ASSUME NEW t \in Threads, LockOpposite(t)
      PROVE  BookIsLive'
  BY <1>0, <1>9, MineType DEF LockOpposite, Unlocked, Lock, Goto, locals, reports
<1>10. ASSUME NEW t \in Threads, SelectOwn(t)
       PROVE  BookIsLive'
  BY <1>0, <1>10, MineType DEF SelectOwn, Goto, reports
<1>11. ASSUME NEW t \in Threads, NEW r \in OrderId, Fill(t, r)
       PROVE  BookIsLive'
  <2>1. PICK n \in Nat :
          /\ n <= orders[r].qty
          /\ orders'[r] \in Order /\ orders'[r].qty = orders[r].qty - n
          /\ orders'[r].stock = orders[r].stock /\ orders'[r].dir = orders[r].dir
          /\ \A i \in OrderId : i # r => orders'[i] = orders[i]
          /\ pc' = [pc EXCEPT ![t] = IF orders'[r].qty = 0 THEN "retire" ELSE "scan"]
    BY <1>0, <1>11, FillEffect
  <2>2. /\ pc[t] = "scan" /\ r \in Opposite(t) /\ orders[r] # NoOrder
        /\ orders[r].qty \in Nat
        /\ resting' = [resting EXCEPT ![t] = r]
        /\ UNCHANGED <<book, oid, mine>>
    BY <1>0, <1>11, FillEffect
  <2>3. ASSUME NEW s \in Stocks, NEW d \in Side, r \in book[s][d]
        PROVE  orders[r].stock = s /\ orders[r].dir = d
    BY <1>0, <2>2, <2>3 DEF BookIsLive, BeingCanceled, InTransit
  <2>4. ASSUME NEW u \in Threads, pc[u] = "retire"
        PROVE  pc'[u] = "retire" /\ resting'[u] = resting[u]
    BY <1>0, <2>1, <2>2, <2>4
  <2>5. orders'[r].qty > 0 \/ (pc'[t] = "retire" /\ resting'[t] = r)
    BY <1>0, <2>1, <2>2
  <2>6. \A i \in OrderId : BeingCanceled(i) => BeingCanceled(i)'
    BY <1>0, <2>1, <2>2 DEF BeingCanceled
  <2>7. orders'[r] # NoOrder
    BY <2>1
  <2>8. ASSUME NEW s \in Stocks, NEW d \in Side, NEW i \in book[s][d], i # r
        PROVE  \/ /\ orders'[i] # NoOrder
                  /\ orders'[i].stock = s /\ orders'[i].dir = d
                  /\ \/ orders'[i].qty > 0
                     \/ \E u \in Threads : pc'[u] = "retire" /\ resting'[u] = i
               \/ BeingCanceled(i)'
    <3>1. orders'[i] = orders[i] /\ i \in OrderId
      BY <1>0, <2>1, <2>8
    <3>2. CASE BeingCanceled(i)
      BY <2>6, <3>1, <3>2
    <3>3. CASE ~BeingCanceled(i)
      <4>1. /\ orders[i] # NoOrder /\ orders[i].stock = s /\ orders[i].dir = d
            /\ orders[i].qty > 0 \/ \E u \in Threads : pc[u] = "retire" /\ resting[u] = i
        BY <1>0, <2>8, <3>3
      <4> QED
        BY <2>4, <3>1, <4>1
    <3> QED
      BY <3>2, <3>3
  <2> QED
    BY <1>0, <2>1, <2>2, <2>3, <2>5, <2>7, <2>8 DEF BookIsLive
<1>12. ASSUME NEW t \in Threads, Retire(t)
       PROVE  BookIsLive'
  BY <1>0, <1>12, MineType
     DEF Retire, Goto, locals, reports, InTransit, SameStockAndSide, Opposite
<1>13. ASSUME NEW t \in Threads, EndScan(t)
       PROVE  BookIsLive'
  BY <1>0, <1>13, MineType
     DEF EndScan, Unlock, Goto, locals, reports, InTransit, Creator
<1>14. ASSUME NEW t \in Threads, LockOwn(t)
       PROVE  BookIsLive'
  BY <1>0, <1>14, MineType DEF LockOwn, Unlocked, Lock, Goto, locals, reports
<1>15. ASSUME NEW t \in Threads, Rest(t)
       PROVE  BookIsLive'
  <2>1. /\ pc[t] = "rest" /\ pc' = [pc EXCEPT ![t] = "idle"]
        /\ UNCHANGED <<orders, oid, resting>>
    BY <1>15 DEF Rest, Goto, locals
  <2>2. /\ orders[oid[t]] # NoOrder /\ orders[oid[t]].qty > 0
        /\ orders[oid[t]].stock = mine[t].stock /\ orders[oid[t]].dir = mine[t].dir
    BY <1>0, <2>1, SameOwn DEF InTransit
  <2>3. ASSUME NEW s \in Stocks, NEW d \in Side, NEW i \in book'[s][d]
        PROVE  i \in book[s][d] \/ (i = oid[t] /\ s = mine[t].stock /\ d = mine[t].dir)
    BY <1>0, <1>15, <2>1, MineType DEF Rest
  <2>4. \A u \in Threads : pc[u] \in {"retire", "cancelUnbook"} => pc'[u] = pc[u]
    BY <1>0, <2>1
  <2> QED
    BY <1>0, <2>1, <2>2, <2>3, <2>4
<1>16. ASSUME NEW t \in Threads, Drop(t)
       PROVE  BookIsLive'
  BY <1>0, <1>16, MineType
     DEF Drop, Unlock, Goto, locals, reports, InTransit, Creator
<1>17. ASSUME NEW t \in Threads, NEW i \in OrderId, CancelLookup(t, i)
       PROVE  BookIsLive'
  BY <1>0, <1>17 DEF CancelLookup, Goto, reports
<1>18. ASSUME NEW t \in Threads, CancelMiss(t)
       PROVE  BookIsLive'
  BY <1>0, <1>18 DEF CancelMiss, Goto, locals, reports
<1>19. ASSUME NEW t \in Threads, CancelErase(t)
       PROVE  BookIsLive'
  BY <1>0, <1>19, MineType DEF CancelErase, Unlocked, Lock, Goto, locals, reports
<1>20. ASSUME NEW t \in Threads, CancelUnbook(t)
       PROVE  BookIsLive'
  BY <1>0, <1>20, MineType
     DEF CancelUnbook, Unlock, Goto, locals, InTransit, SameStockAndSide
<1>21. ASSUME NEW t \in Threads,
              Throw(t) \/ RaceOnStockMutex(t) \/ RaceOnAlter(t) \/ NullMutex(t)
       PROVE  BookIsLive'
  BY <1>0, <1>21, Died
<1>22. CASE UNCHANGED vars
  BY <1>0, <1>22 DEF vars, locals, reports
<1> QED
  BY StepCases, <1>1, <1>2, <1>3, <1>4, <1>5, <1>6, <1>7, <1>8, <1>9, <1>10,
     <1>11, <1>12, <1>13, <1>14, <1>15, <1>16, <1>17, <1>18, <1>19, <1>20, <1>21, <1>22

\* No step strands an order in the table outside its resting set.
LEMMA NoOrphanStep == BookInv /\ [Next]_vars => NoOrphan'
<1> SUFFICES ASSUME BookInv, [Next]_vars PROVE NoOrphan'
  OBVIOUS
<1>0. /\ pc \in [Threads -> {"idle", "insert"} \cup Creating \cup Matching \cup Canceling]
      /\ oid \in [Threads -> 0 .. MaxOrders]
      /\ orders \in [OrderId -> Order \cup {NoOrder}]
      /\ placed \in [OrderId -> Order \cup {NoOrder}]
      /\ mine \in [Threads -> Order \cup {NoOrder}]
      /\ book \in [Stocks -> [Side -> SUBSET OrderId]]
      /\ resting \in [Threads -> 0 .. MaxOrders]
      /\ TypeInv
      /\ InTransit
      /\ Numbering
      /\ SameStockAndSide
      /\ NoOrphan
      /\ BookInv
  BY DEF BookInv, TypeInv, TypeOK
<1> USE DEF NoOrphan, InFlight, Creating, Matching, Canceling
<1>1. ASSUME NEW t \in Threads, NEW req \in Requests, TakeNumber(t, req)
      PROVE  NoOrphan'
  BY <1>0, <1>1 DEF TakeNumber, Goto, reports
<1>2. ASSUME NEW t \in Threads, InsertOrder(t)
      PROVE  NoOrphan'
  BY <1>0, <1>2 DEF InsertOrder, Goto, locals
<1>3. ASSUME NEW t \in Threads, FindStock(t)
      PROVE  NoOrphan'
  BY <1>0, <1>3 DEF FindStock, Accept, Goto, locals
<1>4. ASSUME NEW t \in Threads, MissStock(t)
      PROVE  NoOrphan'
  BY <1>0, <1>4 DEF MissStock, Goto, locals, reports
<1>5. ASSUME NEW t \in Threads, BeginInsertStock(t)
      PROVE  NoOrphan'
  BY <1>0, <1>5 DEF BeginInsertStock, Goto, locals, reports
<1>6. ASSUME NEW t \in Threads, SkipInsertStock(t)
      PROVE  NoOrphan'
  BY <1>0, <1>6 DEF SkipInsertStock, Accept, Goto, locals
<1>7. ASSUME NEW t \in Threads, EndInsertStock(t)
      PROVE  NoOrphan'
  BY <1>0, <1>7 DEF EndInsertStock, Accept, Goto, locals
<1>8. ASSUME NEW t \in Threads, SkipMatching(t)
      PROVE  NoOrphan'
  BY <1>0, <1>8 DEF SkipMatching, Goto, locals, reports
<1>9. ASSUME NEW t \in Threads, LockOpposite(t)
      PROVE  NoOrphan'
  BY <1>0, <1>9, MineType DEF LockOpposite, Unlocked, Lock, Goto, locals, reports
<1>10. ASSUME NEW t \in Threads, SelectOwn(t)
       PROVE  NoOrphan'
  BY <1>0, <1>10, MineType DEF SelectOwn, Goto, reports
<1>11. ASSUME NEW t \in Threads, NEW r \in OrderId, Fill(t, r)
       PROVE  NoOrphan'
  <2>1. PICK n \in Nat :
          /\ n <= orders[r].qty
          /\ orders'[r] \in Order /\ orders'[r].qty = orders[r].qty - n
          /\ orders'[r].stock = orders[r].stock /\ orders'[r].dir = orders[r].dir
          /\ \A i \in OrderId : i # r => orders'[i] = orders[i]
          /\ pc' = [pc EXCEPT ![t] = IF orders'[r].qty = 0 THEN "retire" ELSE "scan"]
    BY <1>0, <1>11, FillEffect
  <2>2. /\ pc[t] = "scan" /\ r \in Opposite(t) /\ orders[r] # NoOrder
        /\ orders[r].qty \in Nat
        /\ resting' = [resting EXCEPT ![t] = r]
        /\ UNCHANGED <<book, oid, mine>>
    BY <1>0, <1>11, FillEffect
  <2>3. \A u \in Threads : u # t => pc'[u] = pc[u]
    BY <1>0, <2>1
  <2>4. pc'[t] \in {"scan", "retire"}
    BY <1>0, <2>1
  <2>5. \A i \in OrderId : InFlight(i) => InFlight(i)'
    BY <2>2, <2>3, <2>4
  <2>6. \A i \in OrderId :
          orders'[i] # NoOrder =>
            /\ orders[i] # NoOrder
            /\ orders'[i].stock = orders[i].stock /\ orders'[i].dir = orders[i].dir
    BY <2>1, <2>2
  <2> QED
    BY <1>0, <2>2, <2>5, <2>6 DEF NoOrphan
<1>12. ASSUME NEW t \in Threads, Retire(t)
       PROVE  NoOrphan'
  BY <1>0, <1>12, MineType
     DEF Retire, Goto, locals, reports, InTransit, SameStockAndSide, Opposite
<1>13. ASSUME NEW t \in Threads, EndScan(t)
       PROVE  NoOrphan'
  BY <1>0, <1>13, MineType, SameOwn
     DEF EndScan, Unlock, Goto, locals, reports, Order
<1>14. ASSUME NEW t \in Threads, LockOwn(t)
       PROVE  NoOrphan'
  BY <1>0, <1>14, MineType DEF LockOwn, Unlocked, Lock, Goto, locals, reports
<1>15. ASSUME NEW t \in Threads, Rest(t)
       PROVE  NoOrphan'
  BY <1>0, <1>15, MineType, SameOwn
     DEF Rest, Unlock, Goto, locals, reports, InTransit
<1>16. ASSUME NEW t \in Threads, Drop(t)
       PROVE  NoOrphan'
  BY <1>0, <1>16, MineType DEF Drop, Unlock, Goto, locals, reports, InTransit
<1>17. ASSUME NEW t \in Threads, NEW i \in OrderId, CancelLookup(t, i)
       PROVE  NoOrphan'
  BY <1>0, <1>17 DEF CancelLookup, Goto, reports
<1>18. ASSUME NEW t \in Threads, CancelMiss(t)
       PROVE  NoOrphan'
  BY <1>0, <1>18 DEF CancelMiss, Goto, locals, reports
<1>19. ASSUME NEW t \in Threads, CancelErase(t)
       PROVE  NoOrphan'
  BY <1>0, <1>19, MineType DEF CancelErase, Unlocked, Lock, Goto, locals, reports
<1>20. ASSUME NEW t \in Threads, CancelUnbook(t)
       PROVE  NoOrphan'
  BY <1>0, <1>20, MineType DEF CancelUnbook, Unlock, Goto, locals, InTransit
<1>21. ASSUME NEW t \in Threads,
              Throw(t) \/ RaceOnStockMutex(t) \/ RaceOnAlter(t) \/ NullMutex(t)
       PROVE  NoOrphan'
  BY <1>0, <1>21, Died
<1>22. CASE UNCHANGED vars
  BY <1>0, <1>22 DEF vars, locals, reports
<1> QED
  BY StepCases, <1>1, <1>2, <1>3, <1>4, <1>5, <1>6, <1>7, <1>8, <1>9, <1>10,
     <1>11, <1>12, <1>13, <1>14, <1>15, <1>16, <1>17, <1>18, <1>19, <1>20, <1>21, <1>22

\* The part of the invariant about tables, sets and mutexes is inductive by itself.
LEMMA BookStep == BookInv /\ [Next]_vars => BookInv'
<1>1. BookInv /\ [Next]_vars => TypeInv'
  BY TypeStep DEF BookInv
<1> QED
  BY <1>1, NumberingStep, SameStockAndSideStep, LockStep, InTransitStep, BookIsLiveStep,
     NoOrphanStep DEF BookInv

-----------------------------------------------------------------------------
(* Quantities, reports and cancellations *)

\* A matching loop finds every resting order in the table.
LEMMA RestingIsFound ==
  ASSUME BookInv, NEW t \in Threads, pc[t] \in {"select", "scan"}, NEW r \in Opposite(t)
  PROVE  orders[r] # NoOrder
<1>1. pc[t] # "idle" /\ pc[t] \in HoldsOpposite
  BY DEF HoldsOpposite
<1>2. SUFFICES ASSUME BeingCanceled(r) PROVE FALSE
  <2>1. mine[t].stock \in Stocks /\ Opp(mine[t].dir) \in Side
    BY <1>1, MineType DEF BookInv
  <2> QED
    BY <1>2, <2>1 DEF BookInv, BookIsLive, Opposite
<1>3. PICK u \in Threads : pc[u] = "cancelUnbook" /\ oid[u] = r
  BY <1>2 DEF BeingCanceled
<1>4. mine[u].stock = mine[t].stock /\ mine[u].dir = Opp(mine[t].dir)
  BY <1>1, <1>3, OppositePlaced DEF BookInv, SameStockAndSide
<1>5. mutex[mine[t].stock][Opp(mine[t].dir)] = t /\ mutex[mine[u].stock][mine[u].dir] = u
  BY <1>1, <1>3, Held DEF HoldsOwn
<1> QED
  BY <1>1, <1>3, <1>4, <1>5

\* Every step keeps the mutexes of the stocks of placed orders in place.
LEMMA StockListedStep == IInv /\ [Next]_vars => StockListed'
<1> SUFFICES ASSUME IInv, [Next]_vars PROVE StockListed'
  OBVIOUS
<1>0. /\ pc \in [Threads -> {"idle", "insert"} \cup Creating \cup Matching \cup Canceling]
      /\ oid \in [Threads -> 0 .. MaxOrders]
      /\ placed \in [OrderId -> Order \cup {NoOrder}]
      /\ mine \in [Threads -> Order \cup {NoOrder}]
      /\ listed \subseteq Stocks
      /\ TypeInv
      /\ BookInv
      /\ Numbering
      /\ SameStockAndSide
      /\ StockListed
  BY DEF IInv, BookInv, TypeInv, TypeOK
<1> USE DEF StockListed, SameStockAndSide, Creating, Matching, Canceling
<1>1. ASSUME NEW t \in Threads, NEW req \in Requests, TakeNumber(t, req)
      PROVE  StockListed'
  BY <1>0, <1>1 DEF TakeNumber, Goto, reports
<1>2. ASSUME NEW t \in Threads, InsertOrder(t)
      PROVE  StockListed'
  BY <1>0, <1>2 DEF InsertOrder, Goto, locals
<1>3. ASSUME NEW t \in Threads, FindStock(t)
      PROVE  StockListed'
  BY <1>0, <1>3, MineType DEF FindStock, Accept, Goto, locals
<1>4. ASSUME NEW t \in Threads, MissStock(t)
      PROVE  StockListed'
  BY <1>0, <1>4 DEF MissStock, Goto, locals, reports
<1>5. ASSUME NEW t \in Threads, BeginInsertStock(t)
      PROVE  StockListed'
  BY <1>0, <1>5 DEF BeginInsertStock, Goto, locals, reports
<1>6. ASSUME NEW t \in Threads, SkipInsertStock(t)
      PROVE  StockListed'
  BY <1>0, <1>6, MineType DEF SkipInsertStock, Accept, Goto, locals
<1>7. ASSUME NEW t \in Threads, EndInsertStock(t)
      PROVE  StockListed'
  BY <1>0, <1>7, MineType DEF EndInsertStock, Accept, Goto, locals
<1>8. ASSUME NEW t \in Threads, SkipMatching(t)
      PROVE  StockListed'
  BY <1>0, <1>8 DEF SkipMatching, Goto, locals, reports
<1>9. ASSUME NEW t \in Threads, LockOpposite(t)
      PROVE  StockListed'
  BY <1>0, <1>9, MineType DEF LockOpposite, Unlocked, Lock, Goto, locals, reports
<1>10. ASSUME NEW t \in Threads, SelectOwn(t)
       PROVE  StockListed'
  BY <1>0, <1>10, MineType DEF SelectOwn, Goto, reports
<1>11. ASSUME NEW t \in Threads, NEW r \in OrderId, Fill(t, r)
       PROVE  StockListed'
  <2>1. PICK n \in Nat :
          /\ n <= orders[r].qty /\ cnt[t] + n <= mine[t].qty
          /\ orders'[r] \in Order /\ orders'[r].qty = orders[r].qty - n
          /\ \A i \in OrderId : i # r => orders'[i] = orders[i]
          /\ cnt' = [cnt EXCEPT ![t] = cnt[t] + n]
          /\ filled'[r] = filled[r] + n /\ filled'[oid[t]] = filled[oid[t]] + n
          /\ \A i \in OrderId \ {r, oid[t]} : filled'[i] = filled[i]
          /\ leave'[r] = orders[r].qty - n
          /\ leave'[oid[t]] = mine[t].qty - cnt[t] - n
          /\ \A i \in OrderId \ {r, oid[t]} : leave'[i] = leave[i]
          /\ pc' = [pc EXCEPT ![t] = IF orders'[r].qty = 0 THEN "retire" ELSE "scan"]
    BY <1>0, <1>11, FillEffect
  <2>2. /\ pc[t] = "scan" /\ r \in Opposite(t) /\ r # oid[t] /\ oid[t] \in OrderId
        /\ orders[r] # NoOrder /\ orders[r].qty \in Nat
        /\ mine[t].qty \in Nat /\ cnt[t] \in Nat
        /\ UNCHANGED <<id, listed, oid, mine, placed, cancels>>
    BY <1>0, <1>11, FillEffect
  <2>3. ASSUME NEW u \in Threads, Creator(u)
        PROVE  oid[u] # r
    BY <1>0, <2>2, <2>3, NotAtRest
  <2>4. placed[r] # NoOrder /\ placed[oid[t]] # NoOrder
    BY <1>0, <2>2, OppositePlaced DEF SameStockAndSide
  <2>5. \A u \in Threads : u # t => pc'[u] = pc[u] /\ cnt'[u] = cnt[u]
    BY <1>0, <2>1
  <2>6. pc'[t] \in {"scan", "retire"}
    BY <1>0, <2>1
  <2> QED
    BY <1>0, <2>2, <2>5
<1>12. ASSUME NEW t \in Threads, Retire(t)
       PROVE  StockListed'
  BY <1>0, <1>12, MineType DEF Retire, Goto, locals, reports
<1>13. ASSUME NEW t \in Threads, EndScan(t)
       PROVE  StockListed'
  BY <1>0, <1>13, MineType DEF EndScan, Unlock, Goto, locals, reports
<1>14. ASSUME NEW t \in Threads, LockOwn(t)
       PROVE  StockListed'
  BY <1>0, <1>14, MineType DEF LockOwn, Unlocked, Lock, Goto, locals, reports
<1>15. ASSUME NEW t \in Threads, Rest(t)
       PROVE  StockListed'
  BY <1>0, <1>15, MineType DEF Rest, Unlock, Goto, locals, reports
<1>16. ASSUME NEW t \in Threads, Drop(t)
       PROVE  StockListed'
  BY <1>0, <1>16, MineType DEF Drop, Unlock, Goto, locals, reports
<1>17. ASSUME NEW t \in Threads, NEW i \in OrderId, CancelLookup(t, i)
       PROVE  StockListed'
  BY <1>0, <1>17 DEF CancelLookup, Goto, reports
<1>18. ASSUME NEW t \in Threads, CancelMiss(t)
       PROVE  StockListed'
  BY <1>0, <1>18 DEF CancelMiss, Goto, locals, reports
<1>19. ASSUME NEW t \in Threads, CancelErase(t)
       PROVE  StockListed'
  BY <1>0, <1>19, MineType DEF CancelErase, Unlocked, Lock, Goto, locals, reports
<1>20. ASSUME NEW t \in Threads, CancelUnbook(t)
       PROVE  StockListed'
  BY <1>0, <1>20, MineType DEF CancelUnbook, Unlock, Goto, locals
<1>21. ASSUME NEW t \in Threads,
              Throw(t) \/ RaceOnStockMutex(t) \/ RaceOnAlter(t) \/ NullMutex(t)
       PROVE  StockListed'
  BY <1>0, <1>21, Died
<1>22. CASE UNCHANGED vars
  BY <1>0, <1>22 DEF vars, locals, reports
<1> QED
  BY StepCases, <1>1, <1>2, <1>3, <1>4, <1>5, <1>6, <1>7, <1>8, <1>9, <1>10,
     <1>11, <1>12, <1>13, <1>14, <1>15, <1>16, <1>17, <1>18, <1>19, <1>20, <1>21, <1>22

\* Every step keeps what is known of the quantity a matching has traded.
LEMMA TradingStep == IInv /\ [Next]_vars => Trading'
<1> SUFFICES ASSUME IInv, [Next]_vars PROVE Trading'
  OBVIOUS
<1>0. /\ pc \in [Threads -> {"idle", "insert"} \cup Creating \cup Matching \cup Canceling]
      /\ oid \in [Threads -> 0 .. MaxOrders]
      /\ placed \in [OrderId -> Order \cup {NoOrder}]
      /\ mine \in [Threads -> Order \cup {NoOrder}]
      /\ filled \in [OrderId -> Nat]
      /\ cnt \in [Threads -> Nat]
      /\ orders \in [OrderId -> Order \cup {NoOrder}]
      /\ TypeInv
      /\ BookInv
      /\ Numbering
      /\ SameStockAndSide
      /\ Trading
      /\ FillsAddUp
  BY DEF IInv, BookInv, TypeInv, TypeOK, Accounting
<1> USE DEF Trading, Scanning, Creator, Creating, Matching, Canceling
<1>1. ASSUME NEW t \in Threads, NEW req \in Requests, TakeNumber(t, req)
      PROVE  Trading'
  BY <1>0, <1>1 DEF TakeNumber, Goto, reports
<1>2. ASSUME NEW t \in Threads, InsertOrder(t)
      PROVE  Trading'
  BY <1>0, <1>2, MineType DEF InsertOrder, Goto, locals, Numbering
<1>3. ASSUME NEW t \in Threads, FindStock(t)
      PROVE  Trading'
  BY <1>0, <1>3 DEF FindStock, Accept, Goto, locals
<1>4. ASSUME NEW t \in Threads, MissStock(t)
      PROVE  Trading'
  BY <1>0, <1>4 DEF MissStock, Goto, locals, reports
<1>5. ASSUME NEW t \in Threads, BeginInsertStock(t)
      PROVE  Trading'
  BY <1>0, <1>5 DEF BeginInsertStock, Goto, locals, reports
<1>6. ASSUME NEW t \in Threads, SkipInsertStock(t)
      PROVE  Trading'
  BY <1>0, <1>6 DEF SkipInsertStock, Accept, Goto, locals
<1>7. ASSUME NEW t \in Threads, EndInsertStock(t)
      PROVE  Trading'
  BY <1>0, <1>7 DEF EndInsertStock, Accept, Goto, locals
<1>8. ASSUME NEW t \in Threads, SkipMatching(t)
      PROVE  Trading'
  BY <1>0, <1>8 DEF SkipMatching, Goto, locals, reports
<1>9. ASSUME NEW t \in Threads, LockOpposite(t)
      PROVE  Trading'
  BY <1>0, <1>9, MineType DEF LockOpposite, Unlocked, Lock, Goto, locals, reports
<1>10. ASSUME NEW t \in Threads, SelectOwn(t)
       PROVE  Trading'
  BY <1>0, <1>10, MineType
     DEF SelectOwn, Goto, reports, FillsAddUp, Numbering, SameStockAndSide, Order
<1>11. ASSUME NEW t \in Threads, NEW r \in OrderId, Fill(t, r)
       PROVE  Trading'
  <2>1. PICK n \in Nat :
          /\ n <= orders[r].qty /\ cnt[t] + n <= mine[t].qty
          /\ orders'[r] \in Order /\ orders'[r].qty = orders[r].qty - n
          /\ \A i \in OrderId : i # r => orders'[i] = orders[i]
          /\ cnt' = [cnt EXCEPT ![t] = cnt[t] + n]
          /\ filled'[r] = filled[r] + n /\ filled'[oid[t]] = filled[oid[t]] + n
          /\ \A i \in OrderId \ {r, oid[t]} : filled'[i] = filled[i]
          /\ leave'[r] = orders[r].qty - n
          /\ leave'[oid[t]] = mine[t].qty - cnt[t] - n
          /\ \A i \in OrderId \ {r, oid[t]} : leave'[i] = leave[i]
          /\ pc' = [pc EXCEPT ![t] = IF orders'[r].qty = 0 THEN "retire" ELSE "scan"]
    BY <1>0, <1>11, FillEffect
  <2>2. /\ pc[t] = "scan" /\ r \in Opposite(t) /\ r # oid[t] /\ oid[t] \in OrderId
        /\ orders[r] # NoOrder /\ orders[r].qty \in Nat
        /\ mine[t].qty \in Nat /\ cnt[t] \in Nat
        /\ UNCHANGED <<id, listed, oid, mine, placed, cancels>>
    BY <1>0, <1>11, FillEffect
  <2>3. ASSUME NEW u \in Threads, Creator(u)
        PROVE  oid[u] # r
    BY <1>0, <2>2, <2>3, NotAtRest
  <2>4. placed[r] # NoOrder /\ placed[oid[t]] # NoOrder
    BY <1>0, <2>2, OppositePlaced DEF SameStockAndSide
  <2>5. \A u \in Threads : u # t => pc'[u] = pc[u] /\ cnt'[u] = cnt[u]
    BY <1>0, <2>1
  <2>6. pc'[t] \in {"scan", "retire"}
    BY <1>0, <2>1
  <2> QED
    BY <1>0, <2>1, <2>2, <2>3, <2>4, <2>5, <2>6 DEF Numbering, TypeInv, LocalsOK
<1>12. ASSUME NEW t \in Threads, Retire(t)
       PROVE  Trading'
  BY <1>0, <1>12, MineType DEF Retire, Goto, locals, reports
<1>13. ASSUME NEW t \in Threads, EndScan(t)
       PROVE  Trading'
  BY <1>0, <1>13, MineType DEF EndScan, Unlock, Goto, locals, reports
<1>14. ASSUME NEW t \in Threads, LockOwn(t)
       PROVE  Trading'
  BY <1>0, <1>14, MineType DEF LockOwn, Unlocked, Lock, Goto, locals, reports
<1>15. ASSUME NEW t \in Threads, Rest(t)
       PROVE  Trading'
  BY <1>0, <1>15, MineType DEF Rest, Unlock, Goto, locals, reports
<1>16. ASSUME NEW t \in Threads, Drop(t)
       PROVE  Trading'
  BY <1>0, <1>16, MineType DEF Drop, Unlock, Goto, locals, reports
<1>17. ASSUME NEW t \in Threads, NEW i \in OrderId, CancelLookup(t, i)
       PROVE  Trading'
  BY <1>0, <1>17 DEF CancelLookup, Goto, reports
<1>18. ASSUME NEW t \in Threads, CancelMiss(t)
       PROVE  Trading'
  BY <1>0, <1>18 DEF CancelMiss, Goto, locals, reports
<1>19. ASSUME NEW t \in Threads, CancelErase(t)
       PROVE  Trading'
  BY <1>0, <1>19, MineType DEF CancelErase, Unlocked, Lock, Goto, locals, reports
<1>20. ASSUME NEW t \in Threads, CancelUnbook(t)
       PROVE  Trading'
  BY <1>0, <1>20, MineType DEF CancelUnbook, Unlock, Goto, locals
<1>21. ASSUME NEW t \in Threads,
              Throw(t) \/ RaceOnStockMutex(t) \/ RaceOnAlter(t) \/ NullMutex(t)
       PROVE  Trading'
  BY <1>0, <1>21, Died
<1>22. CASE UNCHANGED vars
  BY <1>0, <1>22 DEF vars, locals, reports
<1> QED
  BY StepCases, <1>1, <1>2, <1>3, <1>4, <1>5, <1>6, <1>7, <1>8, <1>9, <1>10,
     <1>11, <1>12, <1>13, <1>14, <1>15, <1>16, <1>17, <1>18, <1>19, <1>20, <1>21, <1>22

\* What the end of a matching loop changes in the table.
LEMMA EndScanEffect ==
  ASSUME BookInv, NEW t \in Threads, EndScan(t)
  PROVE  /\ orders'[oid[t]] # NoOrder
         /\ orders'[oid[t]].qty = mine[t].qty - cnt[t]
         /\ \A i \in OrderId : i # oid[t] => orders'[i] = orders[i]
<1>1. /\ oid[t] \in OrderId /\ mine[t] \in Order
      /\ orders \in [OrderId -> Order \cup {NoOrder}]
  BY MineType DEF EndScan, BookInv, TypeInv, TypeOK
<1>2. mine[t].qty - cnt[t] \in Nat
  BY <1>1 DEF EndScan, BookInv, TypeInv, TypeOK, LocalsOK, Scanning, Order
<1> DEFINE o == [mine[t] EXCEPT !.qty = mine[t].qty - cnt[t], !.price = Repriced(mine[t])]
<1>3. o \in Order
  BY <1>1, <1>2, RepricedIsPrice, AlteredIsOrder
<1>4. o.qty = mine[t].qty - cnt[t]
  BY <1>1 DEF Order
<1>5. orders'[oid[t]] = o /\ \A i \in OrderId : i # oid[t] => orders'[i] = orders[i]
  BY <1>1 DEF EndScan
<1> HIDE DEF o
<1> QED
  BY <1>3, <1>4, <1>5

\* Every step keeps reports, local counts and table entries in agreement.
LEMMA FillsAddUpStep == IInv /\ [Next]_vars => FillsAddUp'
<1> SUFFICES ASSUME IInv, [Next]_vars PROVE FillsAddUp'
  OBVIOUS
<1>0. /\ pc \in [Threads -> {"idle", "insert"} \cup Creating \cup Matching \cup Canceling]
      /\ oid \in [Threads -> 0 .. MaxOrders]
      /\ placed \in [OrderId -> Order \cup {NoOrder}]
      /\ mine \in [Threads -> Order \cup {NoOrder}]
      /\ filled \in [OrderId -> Nat]
      /\ leave \in [OrderId -> Nat]
      /\ cnt \in [Threads -> Nat]
      /\ orders \in [OrderId -> Order \cup {NoOrder}]
      /\ TypeInv
      /\ BookInv
      /\ Numbering
      /\ SameStockAndSide
      /\ InTransit
      /\ Trading
      /\ FillsAddUp
  BY DEF IInv, BookInv, TypeInv, TypeOK, Accounting
<1> USE DEF FillsAddUp, Scanning, Creator, Creating, Matching, Canceling
<1>1. ASSUME NEW t \in Threads, NEW req \in Requests, TakeNumber(t, req)
      PROVE  FillsAddUp'
  BY <1>0, <1>1 DEF TakeNumber, Goto, reports
<1>2. ASSUME NEW t \in Threads, InsertOrder(t)
      PROVE  FillsAddUp'
  BY <1>0, <1>2, MineType DEF InsertOrder, Goto, locals, Numbering, Trading, Order
<1>3. ASSUME NEW t \in Threads, FindStock(t)
      PROVE  FillsAddUp'
  BY <1>0, <1>3, MineType
     DEF FindStock, Accept, Goto, locals, Numbering, Trading, Order
<1>4. ASSUME NEW t \in Threads, MissStock(t)
      PROVE  FillsAddUp'
  BY <1>0, <1>4 DEF MissStock, Goto, locals, reports
<1>5. ASSUME NEW t \in Threads, BeginInsertStock(t)
      PROVE  FillsAddUp'
  BY <1>0, <1>5 DEF BeginInsertStock, Goto, locals, reports
<1>6. ASSUME NEW t \in Threads, SkipInsertStock(t)
      PROVE  FillsAddUp'
  BY <1>0, <1>6, MineType
     DEF SkipInsertStock, Accept, Goto, locals, Numbering, Trading, Order
<1>7. ASSUME NEW t \in Threads, EndInsertStock(t)
      PROVE  FillsAddUp'
  BY <1>0, <1>7, MineType
     DEF EndInsertStock, Accept, Goto, locals, Numbering, Trading, Order
<1>8. ASSUME NEW t \in Threads, SkipMatching(t)
      PROVE  FillsAddUp'
  BY <1>0, <1>8 DEF SkipMatching, Goto, locals, reports
<1>9. ASSUME NEW t \in Threads, LockOpposite(t)
      PROVE  FillsAddUp'
  BY <1>0, <1>9, MineType DEF LockOpposite, Unlocked, Lock, Goto, locals, reports
<1>10. ASSUME NEW t \in Threads, SelectOwn(t)
       PROVE  FillsAddUp'
  <2>1. /\ pc[t] = "select" /\ pc' = [pc EXCEPT ![t] = "scan"]
        /\ cnt' = [cnt EXCEPT ![t] = 0]
        /\ UNCHANGED <<orders, oid, placed, filled, leave>>
    BY <1>10 DEF SelectOwn, Goto, reports
  <2>2. filled[oid[t]] = 0
    BY <1>0, <2>1 DEF Trading
  <2>3. \A u \in Threads : Scanning(u) => oid[u] # oid[t]
    BY <1>0, <2>1 DEF Numbering
  <2>4. \A u \in Threads : u # t => (Scanning(u)' <=> Scanning(u)) /\ cnt'[u] = cnt[u]
    BY <1>0, <2>1
  <2>5. Scanning(t)' /\ cnt'[t] = 0 /\ ~Scanning(t)
    BY <1>0, <2>1
  <2>6. \A u \in Threads : pc[u] \in Creating <=> pc'[u] \in Creating
    BY <1>0, <2>1
  <2>7. ASSUME NEW i \in OrderId, placed[i] # NoOrder, i = oid[t]
        PROVE  orders[i] # NoOrder => orders[i].qty = placed[i].qty
    BY <1>0, <2>2, <2>3, <2>7 DEF Order
  <2> HIDE DEF Scanning
  <2> QED
    BY <1>0, <2>1, <2>2, <2>3, <2>4, <2>5, <2>6, <2>7
<1>11. ASSUME NEW t \in Threads, NEW r \in OrderId, Fill(t, r)
       PROVE  FillsAddUp'
  <2>1. PICK n \in Nat :
          /\ n <= orders[r].qty /\ cnt[t] + n <= mine[t].qty
          /\ orders'[r] \in Order /\ orders'[r].qty = orders[r].qty - n
          /\ \A i \in OrderId : i # r => orders'[i] = orders[i]
          /\ cnt' = [cnt EXCEPT ![t] = cnt[t] + n]
          /\ filled'[r] = filled[r] + n /\ filled'[oid[t]] = filled[oid[t]] + n
          /\ \A i \in OrderId \ {r, oid[t]} : filled'[i] = filled[i]
          /\ leave'[r] = orders[r].qty - n
          /\ leave'[oid[t]] = mine[t].qty - cnt[t] - n
          /\ \A i \in OrderId \ {r, oid[t]} : leave'[i] = leave[i]
          /\ pc' = [pc EXCEPT ![t] = IF orders'[r].qty = 0 THEN "retire" ELSE "scan"]
    BY <1>0, <1>11, FillEffect
  <2>2. /\ pc[t] = "scan" /\ r \in Opposite(t) /\ r # oid[t] /\ oid[t] \in OrderId
        /\ orders[r] # NoOrder /\ orders[r].qty \in Nat
        /\ mine[t].qty \in Nat /\ cnt[t] \in Nat
        /\ UNCHANGED <<id, listed, oid, mine, placed, cancels>>
    BY <1>0, <1>11, FillEffect
  <2>3. ASSUME NEW u \in Threads, Creator(u)
        PROVE  oid[u] # r
    BY <1>0, <2>2, <2>3, NotAtRest
  <2>4. placed[r] # NoOrder /\ placed[oid[t]] # NoOrder
    BY <1>0, <2>2, OppositePlaced DEF SameStockAndSide
  <2>5. \A u \in Threads : u # t => pc'[u] = pc[u] /\ cnt'[u] = cnt[u]
    BY <1>0, <2>1
  <2>6. pc'[t] \in {"scan", "retire"}
    BY <1>0, <2>1
  <2>7. mine[t].qty = placed[oid[t]].qty /\ cnt[t] = filled[oid[t]]
    BY <1>0, <2>2, <2>4 DEF Trading
  <2>8. ASSUME NEW u \in Threads, Creator(u), oid[u] = oid[t]
        PROVE  u = t
    BY <1>0, <2>2, <2>8 DEF Numbering
  <2>9. ASSUME NEW i \in OrderId, placed'[i] # NoOrder
        PROVE  /\ filled'[i] <= placed'[i].qty
               /\ \/ leave'[i] = placed'[i].qty - filled'[i]
                  \/ \E u \in Threads : pc'[u] \in Creating /\ oid'[u] = i
               /\ \A u \in Threads : Scanning(u)' /\ oid'[u] = i => cnt'[u] = filled'[i]
               /\ orders'[i] # NoOrder =>
                    IF \E u \in Threads : Scanning(u)' /\ oid'[u] = i
                    THEN orders'[i].qty = placed'[i].qty
                    ELSE orders'[i].qty = placed'[i].qty - filled'[i]
    <3>1. CASE i = r
      <4>1. orders[r].qty = placed[r].qty - filled[r]
        BY <1>0, <2>2, <2>3, <2>4
      <4> QED
        BY <1>0, <2>1, <2>2, <2>3, <2>4, <2>5, <2>6, <3>1, <4>1 DEF Order
    <3>2. CASE i = oid[t]
      <4>1. placed[i].qty \in Nat /\ filled[i] \in Nat
        BY <1>0, <2>2, <2>4, <3>2 DEF Order
      <4>2. filled'[i] = cnt'[t] /\ filled'[i] <= placed[i].qty
        BY <1>0, <2>1, <2>2, <2>7, <3>2
      <4>3. leave'[i] = placed[i].qty - filled'[i]
        BY <2>1, <2>2, <2>7, <3>2, <4>1
      <4>4. \A u \in Threads : Scanning(u)' /\ oid[u] = i => u = t
        BY <2>5, <2>8, <3>2
      <4>5. Scanning(t)' /\ orders'[i] = orders[i]
        BY <2>1, <2>2, <2>6, <3>2
      <4>6. orders[i] # NoOrder => orders[i].qty = placed[i].qty
        BY <1>0, <2>2, <2>4, <3>2
      <4> QED
        BY <2>2, <3>2, <4>2, <4>3, <4>4, <4>5, <4>6
    <3>3. CASE i # r /\ i # oid[t]
      BY <1>0, <2>1, <2>2, <2>5, <2>6, <2>9, <3>3
    <3> QED
      BY <3>1, <3>2, <3>3
  <2> QED
    BY <2>9
<1>12. ASSUME NEW t \in Threads, Retire(t)
       PROVE  FillsAddUp'
  BY <1>0, <1>12, MineType, NotAtRest DEF Retire, Goto, locals, reports, InTransit
<1>13. ASSUME NEW t \in Threads, EndScan(t)
       PROVE  FillsAddUp'
  BY <1>0, <1>13, MineType
     DEF EndScan, Unlock, Goto, locals, reports, Numbering, Trading, Order
<1>14. ASSUME NEW t \in Threads, LockOwn(t)
       PROVE  FillsAddUp'
  BY <1>0, <1>14, MineType DEF LockOwn, Unlocked, Lock, Goto, locals, reports
<1>15. ASSUME NEW t \in Threads, Rest(t)
       PROVE  FillsAddUp'
  BY <1>0, <1>15, MineType DEF Rest, Unlock, Goto, locals, reports
<1>16. ASSUME NEW t \in Threads, Drop(t)
       PROVE  FillsAddUp'
  BY <1>0, <1>16, MineType DEF Drop, Unlock, Goto, locals, reports
<1>17. ASSUME NEW t \in Threads, NEW i \in OrderId, CancelLookup(t, i)
       PROVE  FillsAddUp'
  BY <1>0, <1>17 DEF CancelLookup, Goto, reports
<1>18. ASSUME NEW t \in Threads, CancelMiss(t)
       PROVE  FillsAddUp'
  BY <1>0, <1>18 DEF CancelMiss, Goto, locals, reports
<1>19. ASSUME NEW t \in Threads, CancelErase(t)
       PROVE  FillsAddUp'
  BY <1>0, <1>19, MineType DEF CancelErase, Unlocked, Lock, Goto, locals, reports
<1>20. ASSUME NEW t \in Threads, CancelUnbook(t)
       PROVE  FillsAddUp'
  BY <1>0, <1>20, MineType DEF CancelUnbook, Unlock, Goto, locals
<1>21. ASSUME NEW t \in Threads,
              Throw(t) \/ RaceOnStockMutex(t) \/ RaceOnAlter(t) \/ NullMutex(t)
       PROVE  FillsAddUp'
  BY <1>0, <1>21, Died
<1>22. CASE UNCHANGED vars
  BY <1>0, <1>22 DEF vars, locals, reports
<1> QED
  BY StepCases, <1>1, <1>2, <1>3, <1>4, <1>5, <1>6, <1>7, <1>8, <1>9, <1>10,
     <1>11, <1>12, <1>13, <1>14, <1>15, <1>16, <1>17, <1>18, <1>19, <1>20, <1>21, <1>22

\* Every step keeps the copies of cancelling threads, and the CANCELED reports
\* filled in from them, no lower than what is left of the order.
LEMMA CanceledCopyStep == IInv /\ [Next]_vars => (CanceledCopy /\ CanceledLeave)'
<1> SUFFICES ASSUME IInv, [Next]_vars PROVE (CanceledCopy /\ CanceledLeave)'
  OBVIOUS
<1>0. /\ BookInv /\ TypeInv /\ CancelOnce /\ CanceledCopy /\ CanceledLeave
      /\ pc \in [Threads -> {"idle", "insert"} \cup Creating \cup Matching \cup Canceling]
      /\ oid \in [Threads -> 0 .. MaxOrders]
      /\ mine \in [Threads -> Order \cup {NoOrder}]
      /\ orders \in [OrderId -> Order \cup {NoOrder}]
      /\ placed \in [OrderId -> Order \cup {NoOrder}]
      /\ filled \in [OrderId -> Nat]
      /\ cancels \in [OrderId -> Nat]
      /\ cancelLeave \in [OrderId -> Nat]
  BY DEF IInv, BookInv, TypeInv, TypeOK, Accounting
<1>1. ASSUME NEW t \in Threads, NEW i \in OrderId, CancelLookup(t, i)
      PROVE  /\ placed'[oid'[t]].qty - filled'[oid'[t]] <= mine'[t].qty
             /\ mine'[t].qty <= placed'[oid'[t]].qty
             /\ UNCHANGED <<filled, placed, cancels, cancelLeave>>
  <2>1. /\ UNCHANGED <<filled, placed, cancels, cancelLeave>>
        /\ mine'[t] = orders[i] /\ oid'[t] = i /\ orders[i] # NoOrder
    BY <1>0, <1>1 DEF CancelLookup, reports
  <2>2. placed[i] # NoOrder
    BY <1>0, <2>1 DEF BookInv, SameStockAndSide
  <2>3. orders[i].qty \in {placed[i].qty, placed[i].qty - filled[i]}
    BY <2>1, <2>2 DEF IInv, Accounting, FillsAddUp
  <2>4. placed[i].qty \in Nat /\ filled[i] \in Nat
    BY <1>0, <2>2 DEF Order
  <2> QED
    BY <2>1, <2>3, <2>4
<1>2. ASSUME NEW t \in Threads, CancelUnbook(t)
      PROVE  /\ pc'[t] = "idle"
             /\ UNCHANGED <<filled, placed>>
             /\ \A i \in OrderId : cancels'[i] > 0 =>
                  /\ placed[i].qty - filled[i] <= cancelLeave'[i]
                  /\ cancelLeave'[i] <= placed[i].qty
  <2>1. /\ UNCHANGED <<filled, placed>> /\ pc[t] = "cancelUnbook" /\ pc'[t] = "idle"
        /\ cancelLeave' = [cancelLeave EXCEPT ![oid[t]] = mine[t].qty]
        /\ \A i \in OrderId : i # oid[t] => cancels'[i] = cancels[i]
    BY <1>0, <1>2 DEF CancelUnbook, Goto
  <2>2. /\ placed[oid[t]].qty - filled[oid[t]] <= mine[t].qty
        /\ mine[t].qty <= placed[oid[t]].qty
    BY <1>0, <2>1 DEF CanceledCopy, Canceling
  <2>3. \A i \in OrderId : cancelLeave'[i] = IF i = oid[t] THEN mine[t].qty ELSE cancelLeave[i]
    BY <1>0, <2>1
  <2> QED
    BY <1>0, <2>1, <2>2, <2>3 DEF CanceledLeave
<1>3. ASSUME NEW t \in Threads, InsertOrder(t)
      PROVE  /\ pc'[t] \notin Canceling
             /\ UNCHANGED <<filled, oid, mine, cancels, cancelLeave>>
             /\ \A u \in Threads : pc[u] \in Canceling => placed'[oid[u]] = placed[oid[u]]
             /\ \A i \in OrderId : cancels[i] > 0 => placed'[i] = placed[i]
  <2>1. /\ UNCHANGED <<filled, oid, mine, cancels, cancelLeave>> /\ pc[t] = "insert"
        /\ placed' = [placed EXCEPT ![oid[t]] = mine[t]] /\ pc'[t] = "list"
    BY <1>0, <1>3 DEF InsertOrder, Goto, locals
  <2>2. placed[oid[t]] = NoOrder
    BY <1>0, <2>1 DEF BookInv, Numbering
  <2>3. \A u \in Threads : pc[u] \in Canceling => placed[oid[u]] # NoOrder
    BY <1>0 DEF BookInv, SameStockAndSide, Canceling
  <2>4. \A i \in OrderId : cancels[i] > 0 => placed[i] # NoOrder
    BY <1>0 DEF CancelOnce
  <2> QED
    BY <1>0, <2>1, <2>2, <2>3, <2>4 DEF Canceling
<1>4. ASSUME NEW t \in Threads, NEW r \in OrderId, Fill(t, r)
      PROVE  /\ pc'[t] \notin Canceling
             /\ UNCHANGED <<placed, oid, mine, cancels, cancelLeave>>
             /\ \A i \in OrderId : filled'[i] \in Nat /\ filled[i] <= filled'[i]
  BY <1>0, <1>4, FillEffect DEF Canceling
<1> DEFINE Same == /\ UNCHANGED <<filled, placed, cancels, cancelLeave>>
                   /\ \A u \in Threads : pc'[u] \in Canceling =>
                        pc[u] \in Canceling /\ oid'[u] = oid[u] /\ mine'[u] = mine[u]
<1>5. ASSUME NEW t \in Threads, NEW req \in Requests, TakeNumber(t, req)
      PROVE  Same
  BY <1>0, <1>5 DEF TakeNumber, Goto, reports, Canceling
<1>6. ASSUME NEW t \in Threads,
             \/ FindStock(t) \/ MissStock(t) \/ BeginInsertStock(t)
             \/ SkipInsertStock(t) \/ EndInsertStock(t)
      PROVE  Same
  BY <1>0, <1>6 DEF FindStock, MissStock, BeginInsertStock, SkipInsertStock, EndInsertStock,
         Accept, Goto, locals, reports, Canceling
<1>7. ASSUME NEW t \in Threads,
             \/ SkipMatching(t) \/ LockOpposite(t) \/ SelectOwn(t) \/ Retire(t) \/ EndScan(t)
             \/ LockOwn(t) \/ Rest(t) \/ Drop(t)
      PROVE  Same
  BY <1>0, <1>7 DEF SkipMatching, LockOpposite, SelectOwn, Retire, EndScan, LockOwn, Rest, Drop,
         Goto, locals, reports, Canceling
<1>8. ASSUME NEW t \in Threads, CancelMiss(t) \/ CancelErase(t)
      PROVE  Same
  BY <1>0, <1>8 DEF CancelMiss, CancelErase, Goto, reports, locals, Canceling
<1>9. ASSUME NEW t \in Threads,
             Throw(t) \/ RaceOnStockMutex(t) \/ RaceOnAlter(t) \/ NullMutex(t)
      PROVE  Same
  BY <1>9, Died
<1>10. ASSUME Same PROVE (CanceledCopy /\ CanceledLeave)'
  BY <1>0, <1>10 DEF CanceledCopy, CanceledLeave
<1>11. ASSUME NEW t \in Threads, NEW i \in OrderId, CancelLookup(t, i)
       PROVE  (CanceledCopy /\ CanceledLeave)'
  BY <1>0, <1>1, <1>11 DEF CancelLookup, Goto, CanceledCopy, CanceledLeave
<1>12. ASSUME NEW t \in Threads, CancelUnbook(t)
       PROVE  (CanceledCopy /\ CanceledLeave)'
  BY <1>0, <1>2, <1>12 DEF CancelUnbook, Goto, locals, CanceledCopy, CanceledLeave, Canceling
<1>13. ASSUME NEW t \in Threads, InsertOrder(t)
       PROVE  (CanceledCopy /\ CanceledLeave)'
  <2>1. \A u \in Threads : pc'[u] \in Canceling => pc[u] \in Canceling
    BY <1>0, <1>3, <1>13 DEF InsertOrder, Goto
  <2>2. UNCHANGED <<filled, oid, mine, cancels, cancelLeave>>
    BY <1>3, <1>13
  <2>3. /\ \A u \in Threads : pc[u] \in Canceling => placed'[oid[u]] = placed[oid[u]]
        /\ \A i \in OrderId : cancels[i] > 0 => placed'[i] = placed[i]
    BY <1>3, <1>13
  <2>4. CanceledCopy'
    BY <1>0, <2>1, <2>2, <2>3 DEF CanceledCopy
  <2>5. CanceledLeave'
    BY <1>0, <2>2, <2>3 DEF CanceledLeave
  <2> QED
    BY <2>4, <2>5
<1>14. ASSUME NEW t \in Threads, NEW r \in OrderId, Fill(t, r)
       PROVE  (CanceledCopy /\ CanceledLeave)'
  <2>1. \A u \in Threads : pc'[u] \in Canceling => pc[u] \in Canceling
    BY <1>0, <1>4, <1>14 DEF Fill, Goto
  <2>2. \A u \in Threads : pc[u] \in Canceling =>
          /\ oid[u] \in OrderId /\ placed[oid[u]] \in Order /\ mine[u] \in Order
    BY <1>0, MineType DEF BookInv, SameStockAndSide, Canceling
  <2>3. \A i \in OrderId : cancels[i] > 0 => placed[i] \in Order
    BY <1>0 DEF CancelOnce
  <2>4. CanceledCopy'
    <3> SUFFICES ASSUME NEW u \in Threads, pc'[u] \in Canceling
                 PROVE  /\ placed[oid[u]].qty - filled'[oid[u]] <= mine[u].qty
                        /\ mine[u].qty <= placed[oid[u]].qty
      BY <1>4, <1>14 DEF CanceledCopy
    <3>1. /\ placed[oid[u]].qty - filled[oid[u]] <= mine[u].qty
          /\ mine[u].qty <= placed[oid[u]].qty
      BY <1>0, <2>1 DEF CanceledCopy
    <3>2. /\ placed[oid[u]].qty \in Nat /\ mine[u].qty \in Nat
          /\ filled[oid[u]] \in Nat /\ filled'[oid[u]] \in Nat
          /\ filled[oid[u]] <= filled'[oid[u]]
      BY <1>0, <1>4, <1>14, <2>1, <2>2 DEF Order
    <3> QED
      BY <3>1, <3>2
  <2>5. CanceledLeave'
    <3> SUFFICES ASSUME NEW i \in OrderId, cancels[i] > 0
                 PROVE  /\ placed[i].qty - filled'[i] <= cancelLeave[i]
                        /\ cancelLeave[i] <= placed[i].qty
      BY <1>4, <1>14 DEF CanceledLeave
    <3>1. /\ placed[i].qty - filled[i] <= cancelLeave[i]
          /\ cancelLeave[i] <= placed[i].qty
      BY <1>0 DEF CanceledLeave
    <3>2. /\ placed[i].qty \in Nat /\ cancelLeave[i] \in Nat
          /\ filled[i] \in Nat /\ filled'[i] \in Nat /\ filled[i] <= filled'[i]
      BY <1>0, <1>4, <1>14, <2>3 DEF Order
    <3> QED
      BY <3>1, <3>2
  <2> QED
    BY <2>4, <2>5
<1>15. CASE UNCHANGED vars
  BY <1>0, <1>15 DEF vars, locals, reports, CanceledCopy, CanceledLeave
<1> HIDE DEF Same
<1> QED
  BY StepCases, <1>5, <1>6, <1>7, <1>8, <1>9, <1>10, <1>11, <1>12, <1>13, <1>14, <1>15

\* Every step keeps a cancelled order gone and its cancellation exclusive.
LEMMA CancelOnceStep == IInv /\ [Next]_vars => CancelOnce'
<1> SUFFICES ASSUME IInv, [Next]_vars PROVE CancelOnce'
  OBVIOUS
<1>0. /\ pc \in [Threads -> {"idle", "insert"} \cup Creating \cup Matching \cup Canceling]
      /\ oid \in [Threads -> 0 .. MaxOrders]
      /\ placed \in [OrderId -> Order \cup {NoOrder}]
      /\ cancels \in [OrderId -> Nat]
      /\ orders \in [OrderId -> Order \cup {NoOrder}]
      /\ TypeInv
      /\ BookInv
      /\ Numbering
      /\ SameStockAndSide
      /\ InTransit
      /\ CancelOnce
  BY DEF IInv, BookInv, TypeInv, TypeOK
<1> USE DEF CancelOnce, Creating, Matching, Canceling
<1>1. ASSUME NEW t \in Threads, NEW req \in Requests, TakeNumber(t, req)
      PROVE  CancelOnce'
  BY <1>0, <1>1 DEF TakeNumber, Goto, reports
<1>2. ASSUME NEW t \in Threads, InsertOrder(t)
      PROVE  CancelOnce'
  BY <1>0, <1>2 DEF InsertOrder, Goto, locals, Numbering
<1>3. ASSUME NEW t \in Threads, FindStock(t)
      PROVE  CancelOnce'
  BY <1>0, <1>3 DEF FindStock, Accept, Goto, locals
<1>4. ASSUME NEW t \in Threads, MissStock(t)
      PROVE  CancelOnce'
  BY <1>0, <1>4 DEF MissStock, Goto, locals, reports
<1>5. ASSUME NEW t \in Threads, BeginInsertStock(t)
      PROVE  CancelOnce'
  BY <1>0, <1>5 DEF BeginInsertStock, Goto, locals, reports
<1>6. ASSUME NEW t \in Threads, SkipInsertStock(t)
      PROVE  CancelOnce'
  BY <1>0, <1>6 DEF SkipInsertStock, Accept, Goto, locals
<1>7. ASSUME NEW t \in Threads, EndInsertStock(t)
      PROVE  CancelOnce'
  BY <1>0, <1>7 DEF EndInsertStock, Accept, Goto, locals
<1>8. ASSUME NEW t \in Threads, SkipMatching(t)
      PROVE  CancelOnce'
  BY <1>0, <1>8 DEF SkipMatching, Goto, locals, reports
<1>9. ASSUME NEW t \in Threads, LockOpposite(t)
      PROVE  CancelOnce'
  BY <1>0, <1>9, MineType DEF LockOpposite, Unlocked, Lock, Goto, locals, reports
<1>10. ASSUME NEW t \in Threads, SelectOwn(t)
       PROVE  CancelOnce'
  BY <1>0, <1>10, MineType DEF SelectOwn, Goto, reports
<1>11. ASSUME NEW t \in Threads, NEW r \in OrderId, Fill(t, r)
       PROVE  CancelOnce'
  <2>1. PICK n \in Nat :
          /\ n <= orders[r].qty /\ cnt[t] + n <= mine[t].qty
          /\ orders'[r] \in Order /\ orders'[r].qty = orders[r].qty - n
          /\ \A i \in OrderId : i # r => orders'[i] = orders[i]
          /\ cnt' = [cnt EXCEPT ![t] = cnt[t] + n]
          /\ filled'[r] = filled[r] + n /\ filled'[oid[t]] = filled[oid[t]] + n
          /\ \A i \in OrderId \ {r, oid[t]} : filled'[i] = filled[i]
          /\ leave'[r] = orders[r].qty - n
          /\ leave'[oid[t]] = mine[t].qty - cnt[t] - n
          /\ \A i \in OrderId \ {r, oid[t]} : leave'[i] = leave[i]
          /\ pc' = [pc EXCEPT ![t] = IF orders'[r].qty = 0 THEN "retire" ELSE "scan"]
    BY <1>0, <1>11, FillEffect
  <2>2. /\ pc[t] = "scan" /\ r \in Opposite(t) /\ r # oid[t] /\ oid[t] \in OrderId
        /\ orders[r] # NoOrder /\ orders[r].qty \in Nat
        /\ mine[t].qty \in Nat /\ cnt[t] \in Nat
        /\ UNCHANGED <<id, listed, oid, mine, placed, cancels>>
    BY <1>0, <1>11, FillEffect
  <2>3. ASSUME NEW u \in Threads, Creator(u)
        PROVE  oid[u] # r
    BY <1>0, <2>2, <2>3, NotAtRest
  <2>4. placed[r] # NoOrder /\ placed[oid[t]] # NoOrder
    BY <1>0, <2>2, OppositePlaced DEF SameStockAndSide
  <2>5. \A u \in Threads : u # t => pc'[u] = pc[u] /\ cnt'[u] = cnt[u]
    BY <1>0, <2>1
  <2>6. pc'[t] \in {"scan", "retire"}
    BY <1>0, <2>1
  <2> QED
    BY <1>0, <2>1, <2>2, <2>5, <2>6
<1>12. ASSUME NEW t \in Threads, Retire(t)
       PROVE  CancelOnce'
  BY <1>0, <1>12, MineType DEF Retire, Goto, locals, reports
<1>13. ASSUME NEW t \in Threads, EndScan(t)
       PROVE  CancelOnce'
  BY <1>0, <1>13, MineType DEF EndScan, Unlock, Goto, locals, reports
<1>14. ASSUME NEW t \in Threads, LockOwn(t)
       PROVE  CancelOnce'
  BY <1>0, <1>14, MineType DEF LockOwn, Unlocked, Lock, Goto, locals, reports
<1>15. ASSUME NEW t \in Threads, Rest(t)
       PROVE  CancelOnce'
  BY <1>0, <1>15, MineType DEF Rest, Unlock, Goto, locals, reports
<1>16. ASSUME NEW t \in Threads, Drop(t)
       PROVE  CancelOnce'
  BY <1>0, <1>16, MineType DEF Drop, Unlock, Goto, locals, reports
<1>17. ASSUME NEW t \in Threads, NEW i \in OrderId, CancelLookup(t, i)
       PROVE  CancelOnce'
  BY <1>0, <1>17 DEF CancelLookup, Goto, reports
<1>18. ASSUME NEW t \in Threads, CancelMiss(t)
       PROVE  CancelOnce'
  BY <1>0, <1>18 DEF CancelMiss, Goto, locals, reports
<1>19. ASSUME NEW t \in Threads, CancelErase(t)
       PROVE  CancelOnce'
  BY <1>0, <1>19, MineType
     DEF CancelErase, Unlocked, Lock, Goto, locals, reports, InTransit, SameStockAndSide
<1>20. ASSUME NEW t \in Threads, CancelUnbook(t)
       PROVE  CancelOnce'
  BY <1>0, <1>20, MineType
     DEF CancelUnbook, Unlock, Goto, locals, InTransit, SameStockAndSide
<1>21. ASSUME NEW t \in Threads,
              Throw(t) \/ RaceOnStockMutex(t) \/ RaceOnAlter(t) \/ NullMutex(t)
       PROVE  CancelOnce'
  BY <1>0, <1>21, Died
<1>22. CASE UNCHANGED vars
  BY <1>0, <1>22 DEF vars, locals, reports
<1> QED
  BY StepCases, <1>1, <1>2, <1>3, <1>4, <1>5, <1>6, <1>7, <1>8, <1>9, <1>10,
     <1>11, <1>12, <1>13, <1>14, <1>15, <1>16, <1>17, <1>18, <1>19, <1>20, <1>21, <1>22

\* No step reports CANCELED a second time.
LEMMA CanceledOnceStep == IInv /\ [Next]_vars => CanceledOnce'
<1> SUFFICES ASSUME IInv, [Next]_vars PROVE CanceledOnce'
  OBVIOUS
<1>0. /\ pc \in [Threads -> {"idle", "insert"} \cup Creating \cup Matching \cup Canceling]
      /\ oid \in [Threads -> 0 .. MaxOrders]
      /\ cancels \in [OrderId -> Nat]
      /\ TypeInv
      /\ BookInv
      /\ CancelOnce
      /\ CanceledOnce
  BY DEF IInv, BookInv, TypeInv, TypeOK
<1> USE DEF CanceledOnce, CancelOnce, Creating, Matching, Canceling
<1>1. ASSUME NEW t \in Threads, NEW req \in Requests, TakeNumber(t, req)
      PROVE  CanceledOnce'
  BY <1>0, <1>1 DEF TakeNumber, Goto, reports
<1>2. ASSUME NEW t \in Threads, InsertOrder(t)
      PROVE  CanceledOnce'
  BY <1>0, <1>2 DEF InsertOrder, Goto, locals
<1>3. ASSUME NEW t \in Threads, FindStock(t)
      PROVE  CanceledOnce'
  BY <1>0, <1>3 DEF FindStock, Accept, Goto, locals
<1>4. ASSUME NEW t \in Threads, MissStock(t)
      PROVE  CanceledOnce'
  BY <1>0, <1>4 DEF MissStock, Goto, locals, reports
<1>5. ASSUME NEW t \in Threads, BeginInsertStock(t)
      PROVE  CanceledOnce'
  BY <1>0, <1>5 DEF BeginInsertStock, Goto, locals, reports
<1>6. ASSUME NEW t \in Threads, SkipInsertStock(t)
      PROVE  CanceledOnce'
  BY <1>0, <1>6 DEF SkipInsertStock, Accept, Goto, locals
<1>7. ASSUME NEW t \in Threads, EndInsertStock(t)
      PROVE  CanceledOnce'
  BY <1>0, <1>7 DEF EndInsertStock, Accept, Goto, locals
<1>8. ASSUME NEW t \in Threads, SkipMatching(t)
      PROVE  CanceledOnce'
  BY <1>0, <1>8 DEF SkipMatching, Goto, locals, reports
<1>9. ASSUME NEW t \in Threads, LockOpposite(t)
      PROVE  CanceledOnce'
  BY <1>0, <1>9 DEF LockOpposite, Unlocked, Lock, Goto, locals, reports
<1>10. ASSUME NEW t \in Threads, SelectOwn(t)
       PROVE  CanceledOnce'
  BY <1>0, <1>10 DEF SelectOwn, Goto, reports
<1>11. ASSUME NEW t \in Threads, NEW r \in OrderId, Fill(t, r)
       PROVE  CanceledOnce'
  BY <1>0, <1>11, FillEffect
<1>12. ASSUME NEW t \in Threads, Retire(t)
       PROVE  CanceledOnce'
  BY <1>0, <1>12 DEF Retire, Goto, locals, reports
<1>13. ASSUME NEW t \in Threads, EndScan(t)
       PROVE  CanceledOnce'
  BY <1>0, <1>13 DEF EndScan, Unlock, Goto, locals, reports
<1>14. ASSUME NEW t \in Threads, LockOwn(t)
       PROVE  CanceledOnce'
  BY <1>0, <1>14 DEF LockOwn, Unlocked, Lock, Goto, locals, reports
<1>15. ASSUME NEW t \in Threads, Rest(t)
       PROVE  CanceledOnce'
  BY <1>0, <1>15 DEF Rest, Unlock, Goto, locals, reports
<1>16. ASSUME NEW t \in Threads, Drop(t)
       PROVE  CanceledOnce'
  BY <1>0, <1>16 DEF Drop, Unlock, Goto, locals, reports
<1>17. ASSUME NEW t \in Threads, NEW i \in OrderId, CancelLookup(t, i)
       PROVE  CanceledOnce'
  BY <1>0, <1>17 DEF CancelLookup, Goto, reports
<1>18. ASSUME NEW t \in Threads, CancelMiss(t)
       PROVE  CanceledOnce'
  BY <1>0, <1>18 DEF CancelMiss, Goto, locals, reports
<1>19. ASSUME NEW t \in Threads, CancelErase(t)
       PROVE  CanceledOnce'
  BY <1>0, <1>19 DEF CancelErase, Unlocked, Lock, Goto, locals, reports
<1>20. ASSUME NEW t \in Threads, CancelUnbook(t)
       PROVE  CanceledOnce'
  BY <1>0, <1>20, MineType DEF CancelUnbook, Unlock, Goto, locals
<1>21. ASSUME NEW t \in Threads,
              Throw(t) \/ RaceOnStockMutex(t) \/ RaceOnAlter(t) \/ NullMutex(t)
       PROVE  CanceledOnce'
  BY <1>0, <1>21, Died
<1>22. CASE UNCHANGED vars
  BY <1>0, <1>22 DEF vars, locals, reports
<1> QED
  BY StepCases, <1>1, <1>2, <1>3, <1>4, <1>5, <1>6, <1>7, <1>8, <1>9, <1>10,
     <1>11, <1>12, <1>13, <1>14, <1>15, <1>16, <1>17, <1>18, <1>19, <1>20, <1>21, <1>22

\* No step takes an order out of the table that is neither filled nor cancelled.
LEMMA NoLostOrderStep == IInv /\ [Next]_vars => NoLostOrder'
<1> SUFFICES ASSUME IInv, [Next]_vars PROVE NoLostOrder'
  OBVIOUS
<1>0. /\ pc \in [Threads -> {"idle", "insert"} \cup Creating \cup Matching \cup Canceling]
      /\ oid \in [Threads -> 0 .. MaxOrders]
      /\ placed \in [OrderId -> Order \cup {NoOrder}]
      /\ cancels \in [OrderId -> Nat]
      /\ orders \in [OrderId -> Order \cup {NoOrder}]
      /\ filled \in [OrderId -> Nat]
      /\ resting \in [Threads -> 0 .. MaxOrders]
      /\ TypeInv
      /\ BookInv
      /\ Numbering
      /\ SameStockAndSide
      /\ InTransit
      /\ Trading
      /\ FillsAddUp
      /\ NoLostOrder
  BY DEF IInv, BookInv, TypeInv, TypeOK, Accounting
<1> USE DEF NoLostOrder, BeingCanceled, Creating, Matching, Canceling
<1>1. ASSUME NEW t \in Threads, NEW req \in Requests, TakeNumber(t, req)
      PROVE  NoLostOrder'
  BY <1>0, <1>1 DEF TakeNumber, Goto, reports
<1>2. ASSUME NEW t \in Threads, InsertOrder(t)
      PROVE  NoLostOrder'
  BY <1>0, <1>2 DEF InsertOrder, Goto, locals
<1>3. ASSUME NEW t \in Threads, FindStock(t)
      PROVE  NoLostOrder'
  BY <1>0, <1>3 DEF FindStock, Accept, Goto, locals
<1>4. ASSUME NEW t \in Threads, MissStock(t)
      PROVE  NoLostOrder'
  BY <1>0, <1>4 DEF MissStock, Goto, locals, reports
<1>5. ASSUME NEW t \in Threads, BeginInsertStock(t)
      PROVE  NoLostOrder'
  BY <1>0, <1>5 DEF BeginInsertStock, Goto, locals, reports
<1>6. ASSUME NEW t \in Threads, SkipInsertStock(t)
      PROVE  NoLostOrder'
  BY <1>0, <1>6 DEF SkipInsertStock, Accept, Goto, locals
<1>7. ASSUME NEW t \in Threads, EndInsertStock(t)
      PROVE  NoLostOrder'
  BY <1>0, <1>7 DEF EndInsertStock, Accept, Goto, locals
<1>8. ASSUME NEW t \in Threads, SkipMatching(t)
      PROVE  NoLostOrder'
  BY <1>0, <1>8 DEF SkipMatching, Goto, locals, reports
<1>9. ASSUME NEW t \in Threads, LockOpposite(t)
      PROVE  NoLostOrder'
  BY <1>0, <1>9, MineType DEF LockOpposite, Unlocked, Lock, Goto, locals, reports
<1>10. ASSUME NEW t \in Threads, SelectOwn(t)
       PROVE  NoLostOrder'
  BY <1>0, <1>10, MineType DEF SelectOwn, Goto, reports
<1>11. ASSUME NEW t \in Threads, NEW r \in OrderId, Fill(t, r)
       PROVE  NoLostOrder'
  <2>1. PICK n \in Nat :
          /\ n <= orders[r].qty /\ cnt[t] + n <= mine[t].qty
          /\ orders'[r] \in Order /\ orders'[r].qty = orders[r].qty - n
          /\ \A i \in OrderId : i # r => orders'[i] = orders[i]
          /\ cnt' = [cnt EXCEPT ![t] = cnt[t] + n]
          /\ filled'[r] = filled[r] + n /\ filled'[oid[t]] = filled[oid[t]] + n
          /\ \A i \in OrderId \ {r, oid[t]} : filled'[i] = filled[i]
          /\ leave'[r] = orders[r].qty - n
          /\ leave'[oid[t]] = mine[t].qty - cnt[t] - n
          /\ \A i \in OrderId \ {r, oid[t]} : leave'[i] = leave[i]
          /\ pc' = [pc EXCEPT ![t] = IF orders'[r].qty = 0 THEN "retire" ELSE "scan"]
    BY <1>0, <1>11, FillEffect
  <2>2. /\ pc[t] = "scan" /\ r \in Opposite(t) /\ r # oid[t] /\ oid[t] \in OrderId
        /\ orders[r] # NoOrder /\ orders[r].qty \in Nat
        /\ mine[t].qty \in Nat /\ cnt[t] \in Nat
        /\ UNCHANGED <<id, listed, oid, mine, placed, cancels>>
    BY <1>0, <1>11, FillEffect
  <2>3. ASSUME NEW u \in Threads, Creator(u)
        PROVE  oid[u] # r
    BY <1>0, <2>2, <2>3, NotAtRest
  <2>4. placed[r] # NoOrder /\ placed[oid[t]] # NoOrder
    BY <1>0, <2>2, OppositePlaced DEF SameStockAndSide
  <2>5. \A u \in Threads : u # t => pc'[u] = pc[u] /\ cnt'[u] = cnt[u]
    BY <1>0, <2>1
  <2>6. pc'[t] \in {"scan", "retire"}
    BY <1>0, <2>1
  <2>7. filled[oid[t]] < placed[oid[t]].qty
    BY <1>0, <1>11, <2>2, <2>4 DEF Fill, StopsAt, Trading, FillsAddUp, Scanning
  <2> QED
    BY <1>0, <2>1, <2>2, <2>4, <2>5, <2>7
<1>12. ASSUME NEW t \in Threads, Retire(t)
       PROVE  NoLostOrder'
  <2>1. /\ pc[t] = "retire" /\ pc' = [pc EXCEPT ![t] = "scan"]
        /\ orders' = [orders EXCEPT ![resting[t]] = NoOrder]
        /\ UNCHANGED <<oid, placed, cancels, filled>>
    BY <1>12 DEF Retire, Goto, locals, reports
  <2>2. /\ resting[t] \in Opposite(t) /\ resting[t] \in OrderId
        /\ orders[resting[t]] # NoOrder /\ orders[resting[t]].qty = 0
        /\ placed[resting[t]] # NoOrder
    BY <1>0, <2>1 DEF InTransit, SameStockAndSide, TypeInv, LocalsOK
  <2>3. \A u \in Threads : Creator(u) => oid[u] # resting[t]
    BY <1>0, <2>1, <2>2, NotAtRest
  <2>4. orders[resting[t]].qty = placed[resting[t]].qty - filled[resting[t]]
    BY <1>0, <2>2, <2>3 DEF FillsAddUp, Scanning, Creator
  <2>5. filled[resting[t]] = placed[resting[t]].qty
    <3>1. filled[resting[t]] \in Nat /\ placed[resting[t]] \in Order
      BY <1>0, <2>2
    <3>2. placed[resting[t]].qty \in Nat
      BY <3>1 DEF Order
    <3>3. 0 = placed[resting[t]].qty - filled[resting[t]]
      BY <2>2, <2>4
    <3> QED
      BY <3>1, <3>2, <3>3
  <2> QED
    BY <1>0, <2>1, <2>2, <2>5
<1>13. ASSUME NEW t \in Threads, EndScan(t)
       PROVE  NoLostOrder'
  <2>1. /\ pc[t] = "scan" /\ orders[oid[t]] # NoOrder /\ oid[t] \in OrderId
        /\ pc' = [pc EXCEPT ![t] = "lockOwn"]
        /\ UNCHANGED <<oid, placed, cancels, filled>>
    BY <1>0, <1>13, MineType DEF EndScan, Goto, locals, reports
  <2>2. \A i \in OrderId : orders'[i] = NoOrder => orders[i] = NoOrder
    BY <1>0, <1>13, <2>1, EndScanEffect
  <2> QED
    BY <1>0, <2>1, <2>2
<1>14. ASSUME NEW t \in Threads, LockOwn(t)
       PROVE  NoLostOrder'
  BY <1>0, <1>14, MineType DEF LockOwn, Unlocked, Lock, Goto, locals, reports
<1>15. ASSUME NEW t \in Threads, Rest(t)
       PROVE  NoLostOrder'
  BY <1>0, <1>15, MineType DEF Rest, Unlock, Goto, locals, reports
<1>16. ASSUME NEW t \in Threads, Drop(t)
       PROVE  NoLostOrder'
  BY <1>0, <1>16, MineType
     DEF Drop, Unlock, Goto, locals, reports, InTransit, FillsAddUp, Scanning, Creator, Numbering, Order
<1>17. ASSUME NEW t \in Threads, NEW i \in OrderId, CancelLookup(t, i)
       PROVE  NoLostOrder'
  BY <1>0, <1>17 DEF CancelLookup, Goto, reports
<1>18. ASSUME NEW t \in Threads, CancelMiss(t)
       PROVE  NoLostOrder'
  BY <1>0, <1>18 DEF CancelMiss, Goto, locals, reports
<1>19. ASSUME NEW t \in Threads, CancelErase(t)
       PROVE  NoLostOrder'
  BY <1>0, <1>19, MineType DEF CancelErase, Unlocked, Lock, Goto, locals, reports
<1>20. ASSUME NEW t \in Threads, CancelUnbook(t)
       PROVE  NoLostOrder'
  BY <1>0, <1>20, MineType DEF CancelUnbook, Unlock, Goto, locals
<1>21. ASSUME NEW t \in Threads,
              Throw(t) \/ RaceOnStockMutex(t) \/ RaceOnAlter(t) \/ NullMutex(t)
       PROVE  NoLostOrder'
  BY <1>0, <1>21, Died
<1>22. CASE UNCHANGED vars
  BY <1>0, <1>22 DEF vars, locals, reports
<1> QED
  BY StepCases, <1>1, <1>2, <1>3, <1>4, <1>5, <1>6, <1>7, <1>8, <1>9, <1>10,
     <1>11, <1>12, <1>13, <1>14, <1>15, <1>16, <1>17, <1>18, <1>19, <1>20, <1>21, <1>22

\* An order can disappear in flight only by a cancellation.
LEMMA InFlightGoneStep == IInv /\ [Next]_vars => InFlightGone'
<1> SUFFICES ASSUME IInv, [Next]_vars PROVE InFlightGone'
  OBVIOUS
<1>0. /\ pc \in [Threads -> {"idle", "insert"} \cup Creating \cup Matching \cup Canceling]
      /\ oid \in [Threads -> 0 .. MaxOrders]
      /\ placed \in [OrderId -> Order \cup {NoOrder}]
      /\ cancels \in [OrderId -> Nat]
      /\ orders \in [OrderId -> Order \cup {NoOrder}]
      /\ resting \in [Threads -> 0 .. MaxOrders]
      /\ TypeInv
      /\ BookInv
      /\ Numbering
      /\ SameStockAndSide
      /\ InTransit
      /\ InFlightGone
  BY DEF IInv, BookInv, TypeInv, TypeOK
<1> USE DEF InFlightGone, BeingCanceled, Creator, Creating, Matching, Canceling
<1>1. ASSUME NEW t \in Threads, NEW req \in Requests, TakeNumber(t, req)
      PROVE  InFlightGone'
  BY <1>0, <1>1 DEF TakeNumber, Goto, reports
<1>2. ASSUME NEW t \in Threads, InsertOrder(t)
      PROVE  InFlightGone'
  BY <1>0, <1>2, MineType DEF InsertOrder, Goto, locals, Numbering
<1>3. ASSUME NEW t \in Threads, FindStock(t)
      PROVE  InFlightGone'
  BY <1>0, <1>3 DEF FindStock, Accept, Goto, locals
<1>4. ASSUME NEW t \in Threads, MissStock(t)
      PROVE  InFlightGone'
  BY <1>0, <1>4 DEF MissStock, Goto, locals, reports
<1>5. ASSUME NEW t \in Threads, BeginInsertStock(t)
      PROVE  InFlightGone'
  BY <1>0, <1>5 DEF BeginInsertStock, Goto, locals, reports
<1>6. ASSUME NEW t \in Threads, SkipInsertStock(t)
      PROVE  InFlightGone'
  BY <1>0, <1>6 DEF SkipInsertStock, Accept, Goto, locals
<1>7. ASSUME NEW t \in Threads, EndInsertStock(t)
      PROVE  InFlightGone'
  BY <1>0, <1>7 DEF EndInsertStock, Accept, Goto, locals
<1>8. ASSUME NEW t \in Threads, SkipMatching(t)
      PROVE  InFlightGone'
  BY <1>0, <1>8 DEF SkipMatching, Goto, locals, reports
<1>9. ASSUME NEW t \in Threads, LockOpposite(t)
      PROVE  InFlightGone'
  BY <1>0, <1>9, MineType DEF LockOpposite, Unlocked, Lock, Goto, locals, reports
<1>10. ASSUME NEW t \in Threads, SelectOwn(t)
       PROVE  InFlightGone'
  BY <1>0, <1>10, MineType DEF SelectOwn, Goto, reports
<1>11. ASSUME NEW t \in Threads, NEW r \in OrderId, Fill(t, r)
       PROVE  InFlightGone'
  <2>1. PICK n \in Nat :
          /\ n <= orders[r].qty /\ cnt[t] + n <= mine[t].qty
          /\ orders'[r] \in Order /\ orders'[r].qty = orders[r].qty - n
          /\ \A i \in OrderId : i # r => orders'[i] = orders[i]
          /\ cnt' = [cnt EXCEPT ![t] = cnt[t] + n]
          /\ filled'[r] = filled[r] + n /\ filled'[oid[t]] = filled[oid[t]] + n
          /\ \A i \in OrderId \ {r, oid[t]} : filled'[i] = filled[i]
          /\ leave'[r] = orders[r].qty - n
          /\ leave'[oid[t]] = mine[t].qty - cnt[t] - n
          /\ \A i \in OrderId \ {r, oid[t]} : leave'[i] = leave[i]
          /\ pc' = [pc EXCEPT ![t] = IF orders'[r].qty = 0 THEN "retire" ELSE "scan"]
    BY <1>0, <1>11, FillEffect
  <2>2. /\ pc[t] = "scan" /\ r \in Opposite(t) /\ r # oid[t] /\ oid[t] \in OrderId
        /\ orders[r] # NoOrder /\ orders[r].qty \in Nat
        /\ mine[t].qty \in Nat /\ cnt[t] \in Nat
        /\ UNCHANGED <<id, listed, oid, mine, placed, cancels>>
    BY <1>0, <1>11, FillEffect
  <2>3. ASSUME NEW u \in Threads, Creator(u)
        PROVE  oid[u] # r
    BY <1>0, <2>2, <2>3, NotAtRest
  <2>4. placed[r] # NoOrder /\ placed[oid[t]] # NoOrder
    BY <1>0, <2>2, OppositePlaced DEF SameStockAndSide
  <2>5. \A u \in Threads : u # t => pc'[u] = pc[u] /\ cnt'[u] = cnt[u]
    BY <1>0, <2>1
  <2>6. pc'[t] \in {"scan", "retire"}
    BY <1>0, <2>1
  <2> QED
    BY <1>0, <2>1, <2>2, <2>3, <2>5, <2>6 DEF TypeInv, LocalsOK
<1>12. ASSUME NEW t \in Threads, Retire(t)
       PROVE  InFlightGone'
  BY <1>0, <1>12, MineType, NotAtRest DEF Retire, Goto, locals, reports, InTransit
<1>13. ASSUME NEW t \in Threads, EndScan(t)
       PROVE  InFlightGone'
  <2>1. /\ pc[t] = "scan" /\ orders[oid[t]] # NoOrder /\ oid[t] \in OrderId
        /\ pc' = [pc EXCEPT ![t] = "lockOwn"]
        /\ UNCHANGED <<oid, placed, cancels, filled>>
    BY <1>0, <1>13, MineType DEF EndScan, Goto, locals, reports
  <2>2. \A i \in OrderId : orders'[i] = NoOrder => orders[i] = NoOrder
    BY <1>0, <1>13, <2>1, EndScanEffect
  <2> QED
    BY <1>0, <2>1, <2>2 DEF TypeInv, LocalsOK
<1>14. ASSUME NEW t \in Threads, LockOwn(t)
       PROVE  InFlightGone'
  BY <1>0, <1>14, MineType DEF LockOwn, Unlocked, Lock, Goto, locals, reports
<1>15. ASSUME NEW t \in Threads, Rest(t)
       PROVE  InFlightGone'
  BY <1>0, <1>15, MineType DEF Rest, Unlock, Goto, locals, reports
<1>16. ASSUME NEW t \in Threads, Drop(t)
       PROVE  InFlightGone'
  BY <1>0, <1>16, MineType DEF Drop, Unlock, Goto, locals, reports, Numbering
<1>17. ASSUME NEW t \in Threads, NEW i \in OrderId, CancelLookup(t, i)
       PROVE  InFlightGone'
  BY <1>0, <1>17 DEF CancelLookup, Goto, reports
<1>18. ASSUME NEW t \in Threads, CancelMiss(t)
       PROVE  InFlightGone'
  BY <1>0, <1>18 DEF CancelMiss, Goto, locals, reports
<1>19. ASSUME NEW t \in Threads, CancelErase(t)
       PROVE  InFlightGone'
  BY <1>0, <1>19, MineType DEF CancelErase, Unlocked, Lock, Goto, locals, reports
<1>20. ASSUME NEW t \in Threads, CancelUnbook(t)
       PROVE  InFlightGone'
  BY <1>0, <1>20, MineType DEF CancelUnbook, Unlock, Goto, locals
<1>21. ASSUME NEW t \in Threads,
              Throw(t) \/ RaceOnStockMutex(t) \/ RaceOnAlter(t) \/ NullMutex(t)
       PROVE  InFlightGone'
  BY <1>0, <1>21, Died
<1>22. CASE UNCHANGED vars
  BY <1>0, <1>22 DEF vars, locals, reports
<1> QED
  BY StepCases, <1>1, <1>2, <1>3, <1>4, <1>5, <1>6, <1>7, <1>8, <1>9, <1>10,
     <1>11, <1>12, <1>13, <1>14, <1>15, <1>16, <1>17, <1>18, <1>19, <1>20, <1>21, <1>22

\* The process dies only while fault is "none", and only in these steps.
LEMMA FaultCases ==
  ASSUME [Next]_vars, fault' # fault
  PROVE  \E t \in Threads : Throw(t) \/ RaceOnStockMutex(t) \/ RaceOnAlter(t) \/ NullMutex(t)
<1>1. ASSUME NEW t \in Threads, ProcessNewOrder(t) \/ ProcessCancelOrder(t) \/ QueryOrders(t)
      PROVE  fault' = fault
  <2>1. CASE CreateOrder(t)
    BY <2>1 DEF CreateOrder, InsertOrder, FindStock, MissStock, BeginInsertStock,
         SkipInsertStock, EndInsertStock, Accept
  <2>2. CASE MatchOrder(t)
    BY <2>2 DEF MatchOrder, SelectOwn, Fill, Retire, EndScan
  <2>3. CASE SkipMatching(t) \/ LockOpposite(t) \/ LockOwn(t) \/ Rest(t) \/ Drop(t)
    BY <2>3 DEF SkipMatching, LockOpposite, LockOwn, Rest, Drop
  <2>4. CASE ProcessCancelOrder(t)
    BY <2>4 DEF ProcessCancelOrder, CancelMiss, CancelErase, CancelUnbook
  <2>5. CASE QueryOrders(t)
    BY <2>5 DEF QueryOrders, vars
  <2> QED
    BY <1>1, <2>1, <2>2, <2>3, <2>4, <2>5 DEF ProcessNewOrder
<1>2. ASSUME NEW t \in Threads, NEW req \in Requests, RejectOrder(t, req) \/ TakeNumber(t, req)
      PROVE  fault' = fault
  BY <1>2 DEF RejectOrder, TakeNumber, vars
<1>3. ASSUME NEW t \in Threads, NEW i \in OrderId, RejectCancel(t, i) \/ CancelLookup(t, i)
      PROVE  fault' = fault
  BY <1>3 DEF RejectCancel, CancelLookup, vars
<1>4. CASE UNCHANGED vars
  BY <1>4 DEF vars
<1> QED
  BY <1>1, <1>2, <1>3, <1>4 DEF Next, Arrive, Proceed, Terminated

\* An order that a thread in flight looks up and does not find was cancelled,
\* and a stock without mutexes is one whose first order is still in createOrder.
LEMMA FaultStep == IInv /\ [Next]_vars => FaultOnlyInFlight'
<1> SUFFICES ASSUME IInv, [Next]_vars PROVE FaultOnlyInFlight'
  OBVIOUS
<1>0. BookInv /\ TypeInv /\ InFlightGone /\ StockListed /\ FaultOnlyInFlight /\ SameStockAndSide
  BY DEF IInv, BookInv
<1>1. CASE UNCHANGED vars
  BY <1>0, <1>1 DEF FaultOnlyInFlight, BeingCanceled, vars, locals, reports
<1>2. CASE fault' = "none"
  BY <1>2 DEF FaultOnlyInFlight
<1>3. ASSUME NEW t \in Threads,
             Throw(t) \/ RaceOnStockMutex(t) \/ RaceOnAlter(t) \/ NullMutex(t)
      PROVE  FaultOnlyInFlight'
  <2>1. UNCHANGED <<orders, pc, oid, cancels>>
    BY <1>3, Died
  <2>2. CASE Throw(t)
    <3>1. PICK i \in LookedUp(t) : orders[i] = NoOrder
      BY <2>2 DEF Throw
    <3>2. pc[t] \in {"select", "scan", "lockOwn"} /\ orders[oid[t]] = NoOrder
      <4>1. CASE pc[t] = "scan"
        <5>1. \A r \in Opposite(t) : orders[r] # NoOrder
          BY <1>0, <4>1, RestingIsFound
        <5> QED
          BY <3>1, <4>1, <5>1 DEF LookedUp
      <4>2. CASE pc[t] # "scan"
        BY <3>1, <4>2 DEF LookedUp
      <4> QED
        BY <4>1, <4>2
    <3>3. cancels[oid[t]] > 0 \/ BeingCanceled(oid[t])
      BY <1>0, <3>2 DEF InFlightGone, Matching
    <3>4. fault' = "out_of_range"
      BY <2>2 DEF Throw
    <3> QED
      BY <2>1, <3>2, <3>3, <3>4 DEF FaultOnlyInFlight, BeingCanceled
  <2>3. CASE RaceOnStockMutex(t) \/ RaceOnAlter(t)
    <3>1. fault' = "data_race"
      BY <2>3 DEF RaceOnStockMutex, RaceOnAlter
    <3>2. PICK u \in Threads :
            /\ t # u
            /\ \/ pc[u] = "inserting" /\ pc[t] \in {"lockOpp", "lockOwn", "cancelLock"}
               \/ pc[u] = "scan" /\ pc[t] = "idle"
      BY <2>3 DEF RaceOnStockMutex, RaceOnAlter, StocksReadable
    <3> QED
      BY <2>1, <3>1, <3>2 DEF FaultOnlyInFlight
  <2>4. CASE NullMutex(t)
    <3>1. pc[t] = "cancelLock" /\ mine[t].stock \notin listed /\ fault' = "null_mutex"
      BY <2>4 DEF NullMutex
    <3>2. /\ oid[t] \in OrderId /\ placed[oid[t]] # NoOrder
          /\ placed[oid[t]].stock = mine[t].stock
      BY <1>0, <3>1, MineType DEF SameStockAndSide
    <3>3. PICK u \in Threads : pc[u] \in Creating /\ oid[u] = oid[t]
      BY <1>0, <3>1, <3>2 DEF StockListed
    <3>4. t # u
      BY <3>1, <3>3 DEF Creating
    <3> QED
      BY <2>1, <3>1, <3>3, <3>4 DEF FaultOnlyInFlight
  <2> QED
    BY <1>3, <2>2, <2>3, <2>4
<1>4. CASE fault = "none" /\ fault' # "none"
  BY <1>3, <1>4, FaultCases
<1> QED
  BY <1>1, <1>2, <1>4 DEF Next, Terminated

-----------------------------------------------------------------------------
(* Theorems *)

\* The invariant holds before the first request.
LEMMA InvInit == Init => IInv
<1> SUFFICES ASSUME Init PROVE IInv
  OBVIOUS
<1>1. /\ \A i \in OrderId : /\ orders[i] = NoOrder /\ placed[i] = NoOrder
                            /\ filled[i] = 0 /\ cancels[i] = 0
      /\ \A t \in Threads : pc[t] = "idle"
      /\ \A s \in Stocks, d \in Side : book[s][d] = {} /\ mutex[s][d] = Free
      /\ fault = "none"
  BY DEF Init
<1>2. TypeInv
  BY TypeInit
<1>3. Numbering /\ SameStockAndSide /\ InTransit
  BY <1>1 DEF Numbering, SameStockAndSide, InTransit, Creator, Creating, Matching
<1>4. LockInv /\ BookIsLive /\ NoOrphan
  BY <1>1 DEF LockInv, HoldsOpposite, HoldsOwn, BookIsLive, NoOrphan
<1>5. StockListed /\ Trading /\ Accounting /\ CanceledCopy
  BY <1>1 DEF StockListed, Trading, Scanning, Creating, Canceling, Accounting, FillsAddUp,
       CanceledLeave, CanceledCopy
<1>6. CancelOnce /\ CanceledOnce /\ NoLostOrder /\ InFlightGone
  BY <1>1 DEF CancelOnce, CanceledOnce, NoLostOrder, InFlightGone, Creating, Matching
<1>7. FaultOnlyInFlight
  BY <1>1 DEF FaultOnlyInFlight
<1> QED
  BY <1>2, <1>3, <1>4, <1>5, <1>6, <1>7 DEF IInv, BookInv

\* The invariant is inductive: each of its parts is preserved by every step.
LEMMA InvStep == IInv /\ [Next]_vars => IInv'
<1>1. IInv /\ [Next]_vars => BookInv'
  BY BookStep DEF IInv
<1> QED
  BY <1>1, StockListedStep, TradingStep, FillsAddUpStep, CanceledCopyStep, CancelOnceStep,
     CanceledOnceStep, NoLostOrderStep, InFlightGoneStep, FaultStep DEF IInv, Accounting

\* IInv is an inductive invariant: whatever the threads do, every part of it holds.
THEOREM Invariance == Spec => []IInv
<1>1. Init => IInv
  BY InvInit
<1>2. IInv /\ [Next]_vars => IInv'
  BY InvStep
<1> QED
  BY <1>1, <1>2, PTL DEF Spec

\* Every variable always has its type: no quantity wraps around.
THEOREM TypeCorrect == Spec => []TypeOK
<1>1. IInv => TypeOK
  BY DEF IInv, BookInv, TypeInv
<1> QED
  BY <1>1, Invariance, PTL

\* The mutex of a resting set belongs to the thread inside its region.
THEOREM MutualExclusion == Spec => []LockInv
<1>1. IInv => LockInv
  BY DEF IInv, BookInv
<1> QED
  BY <1>1, Invariance, PTL

\* The resting sets list only live orders of their stock and side, and every
\* live order is in its set or on its way there.
THEOREM BooksMatchTable == Spec => [](BookIsLive /\ NoOrphan)
<1>1. IInv => BookIsLive /\ NoOrphan
  BY DEF IInv, BookInv
<1> QED
  BY <1>1, Invariance, PTL

\* No order is lost or overfilled, and leaveQty is what its fills leave of it.
THEOREM OrdersAccountedFor == Spec => [](NoLostOrder /\ Accounting)
<1>1. IInv => NoLostOrder /\ Accounting
  BY DEF IInv
<1> QED
  BY <1>1, Invariance, PTL

\* An order is reported CANCELED once at most.
THEOREM OneCancellation == Spec => []CanceledOnce
<1>1. IInv => CanceledOnce
  BY DEF IInv
<1> QED
  BY <1>1, Invariance, PTL

\* `at` fails, and null mutexes are locked, only for orders in flight.
THEOREM FaultsAreInFlight == Spec => []FaultOnlyInFlight
<1>1. IInv => FaultOnlyInFlight
  BY DEF IInv
<1> QED
  BY <1>1, Invariance, PTL

\* A cancelled order that is not in flight is neither traded nor brought back.
LEMMA CanceledStep ==
  ASSUME IInv, [Next]_vars, NEW i \in OrderId, cancels[i] > 0, ~InFlight(i)
  PROVE  filled'[i] = filled[i] /\ orders'[i] = NoOrder
<1>0. /\ BookInv /\ TypeInv /\ Numbering
      /\ orders[i] = NoOrder /\ placed[i] # NoOrder
      /\ orders \in [OrderId -> Order \cup {NoOrder}]
  BY DEF IInv, BookInv, TypeInv, TypeOK, CancelOnce
<1>1. ASSUME NEW t \in Threads, NEW req \in Requests, TakeNumber(t, req)
      PROVE  UNCHANGED <<orders, filled>>
  BY <1>1 DEF TakeNumber, reports
<1>2. ASSUME NEW t \in Threads, InsertOrder(t)
      PROVE  filled'[i] = filled[i] /\ orders'[i] = NoOrder
  <2>1. oid[t] # i
    BY <1>0, <1>2 DEF InsertOrder, Numbering
  <2> QED
    BY <1>0, <1>2, <2>1 DEF InsertOrder
<1>3. ASSUME NEW t \in Threads,
             \/ FindStock(t) \/ MissStock(t) \/ BeginInsertStock(t)
             \/ SkipInsertStock(t) \/ EndInsertStock(t)
      PROVE  UNCHANGED <<orders, filled>>
  BY <1>3 DEF FindStock, MissStock, BeginInsertStock, SkipInsertStock, EndInsertStock,
              Accept, reports
<1>4. ASSUME NEW t \in Threads,
             SkipMatching(t) \/ LockOpposite(t) \/ SelectOwn(t) \/ LockOwn(t) \/ Rest(t)
      PROVE  UNCHANGED <<orders, filled>>
  BY <1>4 DEF SkipMatching, LockOpposite, SelectOwn, LockOwn, Rest, reports
<1>5. ASSUME NEW t \in Threads, NEW r \in OrderId, Fill(t, r)
      PROVE  filled'[i] = filled[i] /\ orders'[i] = NoOrder
  <2>1. pc[t] = "scan" /\ orders[r] # NoOrder
    BY <1>0, <1>5, FillEffect
  <2>2. i # oid[t] /\ i # r
    BY <1>0, <2>1 DEF InFlight, Matching
  <2> QED
    BY <1>0, <1>5, <2>2, FillEffect
<1>6. ASSUME NEW t \in Threads, Retire(t) \/ Drop(t) \/ CancelErase(t)
      PROVE  filled'[i] = filled[i] /\ orders'[i] = NoOrder
  BY <1>0, <1>6 DEF Retire, Drop, CancelErase, reports
<1>7. ASSUME NEW t \in Threads, EndScan(t)
      PROVE  filled'[i] = filled[i] /\ orders'[i] = NoOrder
  <2>1. i # oid[t]
    BY <1>7 DEF EndScan, InFlight, Matching
  <2>2. filled' = filled
    BY <1>7 DEF EndScan, reports
  <2> QED
    BY <1>0, <1>7, <2>1, <2>2, EndScanEffect
<1>8. ASSUME NEW t \in Threads, NEW j \in OrderId, CancelLookup(t, j)
      PROVE  UNCHANGED <<orders, filled>>
  BY <1>8 DEF CancelLookup, reports
<1>9. ASSUME NEW t \in Threads, CancelMiss(t) \/ CancelUnbook(t)
      PROVE  UNCHANGED <<orders, filled>>
  BY <1>9 DEF CancelMiss, CancelUnbook, reports
<1>10. ASSUME NEW t \in Threads,
              Throw(t) \/ RaceOnStockMutex(t) \/ RaceOnAlter(t) \/ NullMutex(t)
       PROVE  UNCHANGED <<orders, filled>>
  BY <1>10, Died
<1>11. CASE UNCHANGED vars
  BY <1>0, <1>11 DEF vars, reports
<1> QED
  BY StepCases, <1>0, <1>1, <1>2, <1>3, <1>4, <1>5, <1>6, <1>7, <1>8, <1>9, <1>10, <1>11

\* CANCELED is final for every order that had come to rest.
THEOREM CancellationIsFinal == Spec => CanceledIsFinal
<1>1. IInv /\ [Next]_vars =>
        [\A i \in OrderId :
           cancels[i] > 0 /\ ~InFlight(i) =>
             filled'[i] = filled[i] /\ orders'[i] = NoOrder]_vars
  BY CanceledStep
<1> QED
  BY <1>1, Invariance, PTL DEF Spec, CanceledIsFinal

-----------------------------------------------------------------------------
(* One handler thread *)

\* With one thread, the order in flight has not been cancelled.
Alone ==
  /\ fault = "none"
  /\ \A t \in Threads : pc[t] \in {"insert"} \cup Creating \cup Matching => cancels[oid[t]] = 0

\* With one thread nothing cancels the order in flight, so no lookup fails.
LEMMA AloneStep ==
  ASSUME \A t, u \in Threads : t = u
  PROVE  IInv /\ Alone /\ [Next]_vars => Alone'
<1> SUFFICES ASSUME IInv, Alone, [Next]_vars PROVE Alone'
  OBVIOUS
<1>0. /\ BookInv /\ TypeInv /\ InFlightGone /\ StockListed /\ Numbering /\ CancelOnce
      /\ pc \in [Threads -> {"idle", "insert"} \cup Creating \cup Matching \cup Canceling]
      /\ oid \in [Threads -> 0 .. MaxOrders]
      /\ cancels \in [OrderId -> Nat]
  BY DEF IInv, BookInv, TypeInv, TypeOK
<1>1. ASSUME NEW t \in Threads,
             Throw(t) \/ RaceOnStockMutex(t) \/ RaceOnAlter(t) \/ NullMutex(t)
      PROVE  FALSE
  <2>1. ~RaceOnStockMutex(t) /\ ~RaceOnAlter(t)
    BY DEF RaceOnStockMutex, RaceOnAlter, StocksReadable
  <2>2. ASSUME Throw(t)
        PROVE  FALSE
    <3>1. fault' = "out_of_range"
      BY <2>2 DEF Throw
    <3>2. PICK u \in Threads :
            /\ pc'[u] \in {"select", "scan", "lockOwn"}
            /\ cancels'[oid'[u]] > 0 \/ BeingCanceled(oid[u])'
      BY <3>1, FaultStep DEF FaultOnlyInFlight, BeingCanceled
    <3>3. UNCHANGED <<pc, oid, cancels>>
      BY <1>1, Died
    <3>4. cancels[oid[u]] = 0
      BY <3>2, <3>3 DEF Alone, Matching
    <3>5. PICK v \in Threads : pc[v] = "cancelUnbook"
      BY <3>2, <3>3, <3>4 DEF BeingCanceled
    <3> QED
      BY <3>2, <3>3, <3>5
  <2>3. ASSUME NullMutex(t)
        PROVE  FALSE
    <3>1. fault' = "null_mutex"
      BY <2>3 DEF NullMutex
    <3> QED
      BY <3>1, FaultStep DEF FaultOnlyInFlight
  <2> QED
    BY <1>1, <2>1, <2>2, <2>3
<1>2. fault' = "none"
  BY <1>1, FaultCases DEF Alone
<1>3. ASSUME NEW t \in Threads, pc'[t] \in {"insert"} \cup Creating \cup Matching
      PROVE  cancels'[oid'[t]] = 0
  <2>1. ASSUME NEW req \in Requests, TakeNumber(t, req)
        PROVE  cancels'[oid'[t]] = 0
    <3>1. oid'[t] = id + 1 /\ id + 1 \in OrderId /\ cancels' = cancels
      BY <1>0, <2>1 DEF TakeNumber, reports, OrderId, TypeInv, TypeOK
    <3>2. placed[id + 1] = NoOrder
      BY <3>1 DEF IInv, BookInv, TypeInv, TypeOK, Numbering
    <3> QED
      BY <1>0, <3>1, <3>2 DEF CancelOnce
  <2>2. ASSUME NEW r \in OrderId, Fill(t, r)
        PROVE  cancels'[oid'[t]] = 0
    BY <1>0, <2>2, FillEffect DEF Alone, Matching
  <2>3. ASSUME \/ InsertOrder(t) \/ FindStock(t) \/ MissStock(t)
               \/ BeginInsertStock(t) \/ SkipInsertStock(t) \/ EndInsertStock(t)
        PROVE  cancels'[oid'[t]] = 0
    BY <2>3 DEF Alone, Creating, Matching, InsertOrder, FindStock, MissStock,
         BeginInsertStock, SkipInsertStock, EndInsertStock, Accept, locals, reports
  <2>4. ASSUME \/ SkipMatching(t) \/ LockOpposite(t) \/ SelectOwn(t)
               \/ Retire(t) \/ EndScan(t) \/ LockOwn(t)
        PROVE  cancels'[oid'[t]] = 0
    BY <2>4 DEF Alone, Creating, Matching, SkipMatching, LockOpposite, SelectOwn,
         Retire, EndScan, LockOwn, locals, reports
  <2>5. ASSUME Rest(t) \/ Drop(t) \/ CancelMiss(t) \/ CancelUnbook(t)
        PROVE  FALSE
    BY <1>0, <1>3, <2>5 DEF Rest, Drop, CancelMiss, CancelUnbook, Goto, Creating, Matching
  <2>6. ASSUME CancelErase(t) \/ \E i \in OrderId : CancelLookup(t, i)
        PROVE  FALSE
    BY <1>0, <1>3, <2>6 DEF CancelErase, CancelLookup, Goto, Creating, Matching
  <2>7. CASE UNCHANGED vars
    BY <1>3, <2>7 DEF Alone, vars, locals, reports
  <2> QED
    BY StepCases, <1>1, <2>1, <2>2, <2>3, <2>4, <2>5, <2>6, <2>7
<1> QED
  BY <1>2, <1>3 DEF Alone

\* With a single handler thread the process never dies of a lookup, of a missing
\* mutex or of a data race.
THEOREM SingleThreadNeverDies ==
  ASSUME \A t, u \in Threads : t = u
  PROVE  Spec => []NoFault
<1>1. Init => Alone
  BY DEF Init, Alone, Creating, Matching
<1>2. IInv /\ Alone /\ [Next]_vars => Alone'
  BY AloneStep
<1>3. Alone => NoFault
  BY DEF Alone, NoFault
<1> QED
  BY <1>1, <1>2, <1>3, Invariance, PTL DEF Spec

\* Order i, if it is a LIMIT order, cannot trade with order r.
Apart(i, r) ==
  orders[i] # NoOrder /\ orders[r] # NoOrder /\ orders[i].kind = "LIMIT" =>
    ~Compatible(orders[i], orders[r])

\* With one thread: no order at rest can trade with an earlier one, nor the order
\* in flight, once it has been matched, with those of the opposite set.
Settled ==
  /\ \A s \in Stocks, d \in Side : \A i \in book[s][d], r \in book[s][Opp(d)] :
       r < i => Apart(i, r)
  /\ \A t \in Threads : Creator(t) => oid[t] = id
  /\ \A t \in Threads :
       pc[t] \in {"lockOwn", "rest"} /\ orders[oid[t]] # NoOrder /\ orders[oid[t]].qty > 0 =>
         \A r \in Opposite(t) : Apart(oid[t], r)

\* The price test does not depend on which of the two orders is the later one.
LEMMA CompatibleBothWays ==
  ASSUME NEW a \in Order, NEW r \in Order, r.dir = Opp(a.dir)
  PROVE  Compatible(a, r) <=> Compatible(r, a)
BY DEF Compatible, Opp, Order, Side

\* What an order can trade with is not changed by a step.
SameTerms(i) ==
  orders'[i] # NoOrder =>
    /\ orders[i] # NoOrder
    /\ orders'[i].client = orders[i].client /\ orders'[i].dir = orders[i].dir
    /\ orders'[i].kind = orders[i].kind /\ orders'[i].price = orders[i].price

\* Two orders that keep their terms stay apart.
LEMMA ApartFrame ==
  ASSUME NEW i \in OrderId, NEW r \in OrderId, Apart(i, r), SameTerms(i), SameTerms(r)
  PROVE  Apart(i, r)'
BY DEF Apart, SameTerms, Compatible

\* A trade changes no more than a quantity of the order traded with.
LEMMA FillTerms ==
  ASSUME TypeInv, NEW t \in Threads, NEW r \in OrderId, Fill(t, r), NEW i \in OrderId
  PROVE  SameTerms(i)
<1>1. orders \in [OrderId -> Order \cup {NoOrder}] /\ orders[r] # NoOrder
  BY DEF TypeInv, TypeOK, Fill
<1>2. PICK n : orders' = [orders EXCEPT ![r] = [orders[r] EXCEPT !.qty = n]]
  BY DEF Fill
<1> QED
  BY <1>1, <1>2 DEF SameTerms, Order

\* The terms of resting orders never change, whatever a thread does.
LEMMA RestingTerms ==
  ASSUME IInv, [Next]_vars, NEW s \in Stocks, NEW d \in Side, NEW i \in book[s][d]
  PROVE  SameTerms(i)
<1>0. /\ BookInv /\ TypeInv /\ i \in OrderId
      /\ orders \in [OrderId -> Order \cup {NoOrder}]
  BY DEF IInv, BookInv, TypeInv, TypeOK
<1>1. ASSUME NEW t \in Threads, InsertOrder(t) \/ EndScan(t)
      PROVE  SameTerms(i)
  <2>1. Creator(t)
    BY <1>1 DEF InsertOrder, EndScan, Creator, Matching
  <2>2. oid[t] # i
    BY <2>1, <1>0 DEF BookInv, InTransit
  <2>3. PICK o : orders' = [orders EXCEPT ![oid[t]] = o]
    BY <1>1 DEF InsertOrder, EndScan
  <2> QED
    BY <1>0, <2>2, <2>3 DEF SameTerms
<1>2. ASSUME NEW t \in Threads, Retire(t) \/ Drop(t) \/ CancelErase(t)
      PROVE  SameTerms(i)
  BY <1>0, <1>2 DEF Retire, Drop, CancelErase, SameTerms
<1>3. ASSUME NEW t \in Threads, NEW r \in OrderId, Fill(t, r)
      PROVE  SameTerms(i)
  BY <1>0, <1>3, FillTerms
<1>4. ASSUME NEW t \in Threads, NEW req \in Requests, TakeNumber(t, req)
      PROVE  orders' = orders
  BY <1>4 DEF TakeNumber
<1>5. ASSUME NEW t \in Threads, NEW j \in OrderId, CancelLookup(t, j)
      PROVE  orders' = orders
  BY <1>5 DEF CancelLookup
<1>6. ASSUME NEW t \in Threads,
             \/ FindStock(t) \/ MissStock(t) \/ BeginInsertStock(t)
             \/ SkipInsertStock(t) \/ EndInsertStock(t)
      PROVE  orders' = orders
  BY <1>6 DEF FindStock, MissStock, BeginInsertStock, SkipInsertStock, EndInsertStock, Accept
<1>7. ASSUME NEW t \in Threads,
             \/ SkipMatching(t) \/ LockOpposite(t) \/ SelectOwn(t) \/ LockOwn(t) \/ Rest(t)
             \/ CancelMiss(t) \/ CancelUnbook(t)
      PROVE  orders' = orders
  BY <1>7 DEF SkipMatching, LockOpposite, SelectOwn, LockOwn, Rest, CancelMiss, CancelUnbook
<1>8. ASSUME NEW t \in Threads,
             Throw(t) \/ RaceOnStockMutex(t) \/ RaceOnAlter(t) \/ NullMutex(t)
      PROVE  orders' = orders
  BY <1>8, Died
<1>9. CASE UNCHANGED vars
  BY <1>9 DEF vars, SameTerms
<1>10. ASSUME orders' = orders PROVE SameTerms(i)
  BY <1>10 DEF SameTerms
<1> QED
  BY StepCases, <1>1, <1>2, <1>3, <1>4, <1>5, <1>6, <1>7, <1>8, <1>9, <1>10

\* A matching that is over has left nothing in the opposite set to trade with.
LEMMA ScanIsOver ==
  ASSUME IInv, NEW t \in Threads, EndScan(t), cnt[t] < mine[t].qty, NEW r \in Opposite(t)
  PROVE  orders[r] \in Order /\ ~Compatible(mine[t], orders[r])
<1>1. BookInv /\ TypeInv /\ pc[t] = "scan" /\ mine[t] \in Order
  BY MineType DEF IInv, BookInv, EndScan
<1>2. Opposite(t) \subseteq OrderId
  BY <1>1, OppositePlaced
<1>3. orders[r] \in Order /\ orders[r] # NoOrder
  BY <1>1, <1>2, RestingIsFound DEF TypeInv, TypeOK
<1>4. SUFFICES ASSUME Compatible(mine[t], orders[r]) PROVE FALSE
  BY <1>3
<1>5. r \in Stops(t) /\ Stops(t) \subseteq Nat
  BY <1>2, <1>4 DEF Stops, OrderId
<1>6. PICK q \in Stops(t) : \A p \in Stops(t) : q <= p
  BY <1>5, LeastNatural
<1>7. StopsAt(t, q) /\ q \in Opposite(t)
  BY <1>6 DEF StopsAt, Stops
<1> QED
  BY <1>7 DEF EndScan

\* With one thread, no step lets two resting orders trade that were apart.
LEMMA SettledStep ==
  ASSUME \A t, u \in Threads : t = u
  PROVE  IInv /\ Settled /\ [Next]_vars => Settled'
<1> SUFFICES ASSUME IInv, Settled, [Next]_vars PROVE Settled'
  OBVIOUS
<1>0. /\ BookInv /\ TypeInv /\ Numbering /\ InTransit
      /\ pc \in [Threads -> {"idle", "insert"} \cup Creating \cup Matching \cup Canceling]
      /\ oid \in [Threads -> 0 .. MaxOrders]
      /\ orders \in [OrderId -> Order \cup {NoOrder}]
      /\ book \in [Stocks -> [Side -> SUBSET OrderId]]
      /\ id \in Nat
  BY DEF IInv, BookInv, TypeInv, TypeOK
<1>1. ASSUME NEW t \in Threads, Creator(t)'
      PROVE  oid'[t] = id'
  <2>1. ASSUME NEW req \in Requests, TakeNumber(t, req)
        PROVE  oid'[t] = id'
    BY <1>0, <2>1 DEF TakeNumber
  <2>2. ASSUME NEW r \in OrderId, Fill(t, r)
        PROVE  oid'[t] = id'
    BY <1>0, <2>2, FillEffect DEF Settled, Creator, Matching
  <2>3. ASSUME \/ InsertOrder(t) \/ FindStock(t) \/ MissStock(t)
               \/ BeginInsertStock(t) \/ SkipInsertStock(t) \/ EndInsertStock(t)
        PROVE  oid'[t] = id'
    BY <2>3 DEF Settled, Creator, Creating, Matching, InsertOrder, FindStock, MissStock,
         BeginInsertStock, SkipInsertStock, EndInsertStock, Accept, locals, reports
  <2>4. ASSUME \/ SkipMatching(t) \/ LockOpposite(t) \/ SelectOwn(t)
               \/ Retire(t) \/ EndScan(t) \/ LockOwn(t)
        PROVE  oid'[t] = id'
    BY <2>4 DEF Settled, Creator, Creating, Matching, SkipMatching, LockOpposite, SelectOwn,
         Retire, EndScan, LockOwn, locals, reports
  <2>5. ASSUME Rest(t) \/ Drop(t) \/ CancelMiss(t) \/ CancelUnbook(t)
        PROVE  FALSE
    BY <1>0, <1>1, <2>5 DEF Rest, Drop, CancelMiss, CancelUnbook, Goto, Creator, Creating, Matching
  <2>6. ASSUME CancelErase(t) \/ \E i \in OrderId : CancelLookup(t, i)
        PROVE  FALSE
    BY <1>0, <1>1, <2>6 DEF CancelErase, CancelLookup, Goto, Creator, Creating, Matching
  <2>7. ASSUME Throw(t) \/ RaceOnStockMutex(t) \/ RaceOnAlter(t) \/ NullMutex(t)
        PROVE  oid'[t] = id'
    BY <1>1, <2>7, Died DEF Settled, Creator
  <2>8. CASE UNCHANGED vars
    BY <1>1, <2>8 DEF Settled, Creator, vars, locals, reports
  <2> QED
    BY StepCases, <2>1, <2>2, <2>3, <2>4, <2>5, <2>6, <2>7, <2>8
<1>2. ASSUME NEW s \in Stocks, NEW d \in Side
      PROVE  \/ book'[s][d] \subseteq book[s][d]
             \/ \E t \in Threads :
                  Rest(t) /\ s = mine[t].stock /\ d = mine[t].dir /\ book'[s][d] = book[s][d] \cup {oid[t]}
  <2>1. ASSUME NEW t \in Threads, Rest(t)
        PROVE  \/ book'[s][d] \subseteq book[s][d]
               \/ /\ s = mine[t].stock /\ d = mine[t].dir
                  /\ book'[s][d] = book[s][d] \cup {oid[t]}
    BY <1>0, <2>1 DEF Rest
  <2>2. ASSUME NEW t \in Threads, Retire(t) \/ CancelUnbook(t)
        PROVE  book'[s][d] \subseteq book[s][d]
    BY <1>0, <2>2 DEF Retire, CancelUnbook
  <2>3. ASSUME NEW t \in Threads, NEW req \in Requests, TakeNumber(t, req)
        PROVE  book' = book
    BY <2>3 DEF TakeNumber
  <2>4. ASSUME NEW t \in Threads, NEW j \in OrderId, CancelLookup(t, j) \/ Fill(t, j)
        PROVE  book' = book
    BY <2>4 DEF CancelLookup, Fill
  <2>5. ASSUME NEW t \in Threads,
               \/ InsertOrder(t) \/ FindStock(t) \/ MissStock(t) \/ BeginInsertStock(t)
               \/ SkipInsertStock(t) \/ EndInsertStock(t)
        PROVE  book' = book
    BY <2>5 DEF InsertOrder, FindStock, MissStock, BeginInsertStock, SkipInsertStock,
         EndInsertStock, Accept
  <2>6. ASSUME NEW t \in Threads,
               \/ SkipMatching(t) \/ LockOpposite(t) \/ SelectOwn(t) \/ EndScan(t)
               \/ LockOwn(t) \/ Drop(t) \/ CancelMiss(t) \/ CancelErase(t)
        PROVE  book' = book
    BY <2>6 DEF SkipMatching, LockOpposite, SelectOwn, EndScan, LockOwn, Drop, CancelMiss,
         CancelErase
  <2>7. ASSUME NEW t \in Threads,
               Throw(t) \/ RaceOnStockMutex(t) \/ RaceOnAlter(t) \/ NullMutex(t)
        PROVE  book' = book
    BY <2>7, Died
  <2>8. CASE UNCHANGED vars
    BY <2>8 DEF vars
  <2> QED
    BY StepCases, <2>1, <2>2, <2>3, <2>4, <2>5, <2>6, <2>7, <2>8
<1>3. ASSUME NEW s \in Stocks, NEW d \in Side, NEW i \in book[s][d], NEW r \in book[s][Opp(d)],
             r < i
      PROVE  Apart(i, r)'
  <2>1. i \in OrderId /\ r \in OrderId /\ Opp(d) \in Side
    BY <1>0, OppSide
  <2>2. SameTerms(i) /\ SameTerms(r) /\ Apart(i, r)
    BY <1>3, <2>1, RestingTerms DEF Settled
  <2> QED
    BY <2>1, <2>2, ApartFrame
<1>4. ASSUME NEW t \in Threads, Rest(t), NEW r \in Opposite(t)
      PROVE  Apart(oid[t], r)'
  <2>1. pc[t] = "rest" /\ orders' = orders /\ oid' = oid
    BY <1>4 DEF Rest, locals
  <2>2. orders[oid[t]] # NoOrder /\ orders[oid[t]].qty > 0
    BY <1>0, <2>1 DEF InTransit
  <2>3. Apart(oid[t], r)
    BY <2>1, <2>2 DEF Settled
  <2> QED
    BY <2>1, <2>3 DEF Apart
<1>5. ASSUME NEW s \in Stocks, NEW d \in Side, NEW i \in book'[s][d], NEW r \in book'[s][Opp(d)],
             r < i
      PROVE  Apart(i, r)'
  <2>0. Opp(d) \in Side /\ Opp(d) # d /\ Opp(Opp(d)) = d
    BY DEF Opp, Side
  <2>1. ASSUME NEW j \in book[s][d] \cup book[s][Opp(d)]
        PROVE  j \in OrderId /\ j <= id
    BY <1>0, <2>0 DEF BookInv, SameStockAndSide, Numbering
  <2>2. ASSUME NEW t \in Threads, Rest(t), s = mine[t].stock, Opp(d) = mine[t].dir, r = oid[t]
        PROVE  FALSE
    <3>1. oid[t] = id
      BY <2>2 DEF Settled, Rest, Creator, Matching
    <3>2. i \notin book[s][d]
      BY <1>0, <1>5, <2>1, <2>2, <3>1 DEF OrderId
    <3>3. PICK u \in Threads : d = mine[u].dir
      BY <1>2, <1>5, <3>2
    <3> QED
      BY <2>0, <2>2, <3>3
  <2>3. r \in book[s][Opp(d)]
    BY <1>2, <1>5, <2>0, <2>2
  <2>4. CASE i \in book[s][d]
    BY <1>3, <1>5, <2>3, <2>4
  <2>5. ASSUME NEW t \in Threads, Rest(t), s = mine[t].stock, d = mine[t].dir, i = oid[t]
        PROVE  Apart(i, r)'
    <3>1. oid' = oid
      BY <2>5 DEF Rest, locals
    <3> QED
      BY <1>4, <2>3, <2>5, <3>1 DEF Opposite
  <2> QED
    BY <1>2, <1>5, <2>4, <2>5
<1>6. ASSUME NEW t \in Threads, pc'[t] \in {"lockOwn", "rest"},
             orders'[oid'[t]] # NoOrder, orders'[oid'[t]].qty > 0, NEW r \in Opposite(t)'
      PROVE  Apart(oid[t], r)'
  <2>1. CASE SkipMatching(t)
    BY <1>6, <2>1 DEF SkipMatching, Opposite, locals
  <2>2. CASE EndScan(t)
    <3>1. /\ UNCHANGED <<book, oid, mine>> /\ pc[t] = "scan" /\ r \in Opposite(t)
      BY <1>6, <2>2 DEF EndScan, Opposite, locals
    <3>2. mine[t] \in Order /\ oid[t] \in OrderId /\ cnt[t] \in Nat
      BY <1>0, <3>1, MineType DEF TypeInv, TypeOK
    <3>3. r \in OrderId /\ r # oid[t]
      BY <1>0, <3>1, OppositePlaced, NotAtRest DEF Creator, Matching
    <3>4. orders' = [orders EXCEPT ![oid[t]] =
                       [mine[t] EXCEPT !.qty = @ - cnt[t], !.price = Repriced(mine[t])]]
      BY <2>2 DEF EndScan
    <3>5. PICK q, p : q = mine[t].qty - cnt[t] /\ p = Repriced(mine[t])
      OBVIOUS
    <3>6. /\ orders'[oid[t]] = [mine[t] EXCEPT !.qty = q, !.price = p]
          /\ orders'[r] = orders[r]
      BY <1>0, <3>2, <3>3, <3>4, <3>5
    <3>7. cnt[t] < mine[t].qty
      <4>1. orders'[oid[t]].qty = q
        BY <3>2, <3>6 DEF Order
      <4> QED
        BY <1>6, <3>1, <3>2, <3>5, <4>1 DEF Order
    <3>8. orders[r] \in Order /\ ~Compatible(mine[t], orders[r])
      BY <2>2, <3>1, <3>7, ScanIsOver
    <3>9. ASSUME orders'[oid[t]].kind = "LIMIT"
          PROVE  ~Compatible(orders'[oid[t]], orders'[r])
      <4>1. mine[t].kind = "LIMIT"
        BY <3>2, <3>6, <3>9 DEF Order
      <4>2. p = mine[t].price
        BY <3>5, <4>1 DEF Repriced
      <4>3. /\ orders'[oid[t]].client = mine[t].client /\ orders'[oid[t]].dir = mine[t].dir
            /\ orders'[oid[t]].price = mine[t].price
        BY <3>2, <3>6, <4>2 DEF Order
      <4> QED
        BY <3>6, <3>8, <4>3 DEF Compatible
    <3> QED
      BY <3>1, <3>9 DEF Apart
  <2>3. CASE LockOwn(t)
    <3>1. UNCHANGED <<orders, book, oid, mine>> /\ pc[t] = "lockOwn"
      BY <2>3 DEF LockOwn, locals
    <3> QED
      BY <1>6, <3>1 DEF Settled, Apart, Opposite
  <2>4. ASSUME NEW req \in Requests, TakeNumber(t, req)
        PROVE  FALSE
    BY <1>0, <1>6, <2>4 DEF TakeNumber, Goto
  <2>5. ASSUME NEW q \in OrderId, Fill(t, q)
        PROVE  FALSE
    BY <1>0, <1>6, <2>5, FillEffect
  <2>6. ASSUME NEW q \in OrderId, CancelLookup(t, q)
        PROVE  FALSE
    BY <1>0, <1>6, <2>6 DEF CancelLookup, Goto
  <2>7. ASSUME \/ InsertOrder(t) \/ FindStock(t) \/ MissStock(t)
               \/ BeginInsertStock(t) \/ SkipInsertStock(t) \/ EndInsertStock(t)
        PROVE  FALSE
    BY <1>0, <1>6, <2>7 DEF InsertOrder, FindStock, MissStock,
         BeginInsertStock, SkipInsertStock, EndInsertStock, Accept, Goto
  <2>8. ASSUME \/ LockOpposite(t) \/ SelectOwn(t) \/ Retire(t) \/ Rest(t) \/ Drop(t)
               \/ CancelMiss(t) \/ CancelErase(t) \/ CancelUnbook(t)
        PROVE  FALSE
    BY <1>0, <1>6, <2>8 DEF LockOpposite, SelectOwn, Retire, Rest, Drop, CancelMiss,
         CancelErase, CancelUnbook, Goto
  <2>9. ASSUME UNCHANGED <<orders, book, pc, oid, mine>>
        PROVE  Apart(oid[t], r)'
    BY <1>6, <2>9 DEF Settled, Apart, Opposite
  <2>10. ASSUME Throw(t) \/ RaceOnStockMutex(t) \/ RaceOnAlter(t) \/ NullMutex(t)
         PROVE  UNCHANGED <<orders, book, pc, oid, mine>>
    BY <2>10, Died
  <2>11. CASE UNCHANGED vars
    BY <2>9, <2>11 DEF vars, locals
  <2> QED
    BY StepCases, <2>1, <2>2, <2>3, <2>4, <2>5, <2>6, <2>7, <2>8, <2>9, <2>10, <2>11
<1> QED
  BY <1>1, <1>5, <1>6 DEF Settled

\* With one thread: what a CANCELED report says is left of an order and what its
\* FILL reports say it has traded are all of it, also while it is on its way.
LastWord ==
  /\ \A t \in Threads :
       pc[t] \in Canceling => mine[t].qty + filled[oid[t]] = placed[oid[t]].qty
  /\ \A i \in OrderId :
       cancels[i] > 0 => filled[i] + cancelLeave[i] = placed[i].qty

\* With one thread, nothing is traded between the look-up of an order and the
\* report of its cancellation, nor after that.
LEMMA LastWordStep ==
  ASSUME \A t, u \in Threads : t = u
  PROVE  IInv /\ Alone /\ LastWord /\ [Next]_vars => LastWord'
<1> SUFFICES ASSUME IInv, Alone, LastWord, [Next]_vars PROVE LastWord'
  OBVIOUS
<1>0. /\ BookInv /\ TypeInv /\ CancelOnce
      /\ pc \in [Threads -> {"idle", "insert"} \cup Creating \cup Matching \cup Canceling]
      /\ oid \in [Threads -> 0 .. MaxOrders]
      /\ mine \in [Threads -> Order \cup {NoOrder}]
      /\ orders \in [OrderId -> Order \cup {NoOrder}]
      /\ placed \in [OrderId -> Order \cup {NoOrder}]
      /\ filled \in [OrderId -> Nat]
      /\ cancels \in [OrderId -> Nat]
      /\ cancelLeave \in [OrderId -> Nat]
  BY DEF IInv, BookInv, TypeInv, TypeOK
<1>1. ASSUME NEW t \in Threads, NEW i \in OrderId, CancelLookup(t, i)
      PROVE  /\ mine'[t].qty + filled'[oid'[t]] = placed'[oid'[t]].qty
             /\ UNCHANGED <<filled, placed, cancels, cancelLeave>>
  <2>1. /\ UNCHANGED <<filled, placed, cancels, cancelLeave>>
        /\ mine'[t] = orders[i] /\ oid'[t] = i /\ pc[t] = "idle" /\ orders[i] # NoOrder
    BY <1>0, <1>1 DEF CancelLookup, reports
  <2>2. placed[i] # NoOrder
    BY <1>0, <2>1 DEF BookInv, SameStockAndSide
  <2>3. ~\E u \in Threads : Scanning(u) /\ oid[u] = i
    BY <2>1 DEF Scanning
  <2>4. orders[i].qty = placed[i].qty - filled[i]
    BY <2>1, <2>2, <2>3 DEF IInv, Accounting, FillsAddUp
  <2>5. orders[i].qty \in Nat /\ placed[i].qty \in Nat /\ filled[i] \in Nat
    BY <1>0, <2>1, <2>2 DEF Order
  <2> QED
    BY <2>1, <2>4, <2>5
<1>2. ASSUME NEW t \in Threads, CancelUnbook(t)
      PROVE  /\ pc'[t] = "idle"
             /\ \A i \in OrderId : cancels'[i] > 0 => filled'[i] + cancelLeave'[i] = placed'[i].qty
  <2>1. /\ UNCHANGED <<filled, placed>> /\ pc[t] = "cancelUnbook" /\ pc'[t] = "idle"
        /\ cancelLeave' = [cancelLeave EXCEPT ![oid[t]] = mine[t].qty]
        /\ \A i \in OrderId : i # oid[t] => cancels'[i] = cancels[i]
    BY <1>0, <1>2 DEF CancelUnbook, Goto
  <2>2. mine[t].qty + filled[oid[t]] = placed[oid[t]].qty /\ oid[t] \in OrderId /\ mine[t] \in Order
    BY <1>0, <2>1, MineType DEF LastWord, Canceling
  <2>3. cancelLeave'[oid[t]] = mine[t].qty /\ mine[t].qty \in Nat /\ filled[oid[t]] \in Nat
    BY <1>0, <2>1, <2>2 DEF Order
  <2>4. filled[oid[t]] + cancelLeave'[oid[t]] = placed[oid[t]].qty
    BY <2>2, <2>3
  <2>5. \A i \in OrderId : i # oid[t] => cancelLeave'[i] = cancelLeave[i]
    BY <1>0, <2>1
  <2> QED
    BY <2>1, <2>4, <2>5 DEF LastWord
<1>3. ASSUME NEW t \in Threads, \/ InsertOrder(t) \/ \E r \in OrderId : Fill(t, r)
      PROVE  pc'[t] \notin Canceling
  <2>1. CASE InsertOrder(t)
    BY <1>0, <2>1 DEF InsertOrder, Goto, Canceling
  <2>2. ASSUME NEW r \in OrderId, Fill(t, r)
        PROVE  pc'[t] \notin Canceling
    BY <1>0, <2>2, FillEffect DEF Canceling
  <2> QED
    BY <1>3, <2>1, <2>2
<1>4. ASSUME NEW t \in Threads, InsertOrder(t), NEW i \in OrderId, cancels'[i] > 0
      PROVE  filled'[i] + cancelLeave'[i] = placed'[i].qty
  <2>1. UNCHANGED <<filled, cancels, cancelLeave>> /\ placed' = [placed EXCEPT ![oid[t]] = mine[t]]
        /\ pc[t] = "insert"
    BY <1>4 DEF InsertOrder
  <2>2. oid[t] # i
    BY <1>0, <1>4, <2>1 DEF BookInv, Numbering, CancelOnce
  <2> QED
    BY <1>0, <1>4, <2>1, <2>2 DEF LastWord
<1>5. ASSUME NEW t \in Threads, NEW r \in OrderId, Fill(t, r), NEW i \in OrderId, cancels'[i] > 0
      PROVE  filled'[i] + cancelLeave'[i] = placed'[i].qty
  <2>1. /\ UNCHANGED <<placed, cancels, cancelLeave>> /\ pc[t] = "scan" /\ orders[r] # NoOrder
    BY <1>0, <1>5, FillEffect
  <2>2. ~InFlight(i)
    BY <1>5, <2>1 DEF Alone, InFlight
  <2>3. filled'[i] = filled[i]
    BY <1>5, <2>1, <2>2, CanceledStep
  <2> QED
    BY <1>5, <2>1, <2>3 DEF LastWord
<1> DEFINE Same(t) == /\ UNCHANGED <<filled, placed, cancels, cancelLeave>>
                      /\ pc'[t] \in Canceling =>
                           pc[t] \in Canceling /\ oid'[t] = oid[t] /\ mine'[t] = mine[t]
<1>6. ASSUME NEW t \in Threads, NEW req \in Requests, TakeNumber(t, req)
      PROVE  Same(t)
  BY <1>0, <1>6 DEF TakeNumber, Goto, reports, Canceling
<1>7. ASSUME NEW t \in Threads,
             \/ FindStock(t) \/ MissStock(t) \/ BeginInsertStock(t)
             \/ SkipInsertStock(t) \/ EndInsertStock(t)
      PROVE  Same(t)
  BY <1>0, <1>7 DEF FindStock, MissStock, BeginInsertStock, SkipInsertStock, EndInsertStock,
         Accept, Goto, reports, Canceling
<1>8. ASSUME NEW t \in Threads,
             \/ SkipMatching(t) \/ LockOpposite(t) \/ SelectOwn(t) \/ Retire(t) \/ EndScan(t)
             \/ LockOwn(t) \/ Rest(t) \/ Drop(t)
      PROVE  Same(t)
  BY <1>0, <1>8 DEF SkipMatching, LockOpposite, SelectOwn, Retire, EndScan, LockOwn, Rest, Drop,
         Goto, reports, Canceling
<1>9. ASSUME NEW t \in Threads, CancelMiss(t) \/ CancelErase(t)
      PROVE  Same(t)
  BY <1>0, <1>9 DEF CancelMiss, CancelErase, Goto, reports, locals, Canceling
<1>10. ASSUME NEW t \in Threads,
              Throw(t) \/ RaceOnStockMutex(t) \/ RaceOnAlter(t) \/ NullMutex(t)
       PROVE  Same(t)
  BY <1>10, Died
<1>11. ASSUME NEW t \in Threads, UNCHANGED vars PROVE Same(t)
  BY <1>11 DEF vars, locals, reports
<1>12. ASSUME NEW t \in Threads, Same(t)
       PROVE  LastWord'
  BY <1>12 DEF LastWord
<1>13. ASSUME NEW t \in Threads, NEW i \in OrderId, CancelLookup(t, i)
       PROVE  LastWord'
  BY <1>1, <1>13 DEF LastWord
<1>14. ASSUME NEW t \in Threads, CancelUnbook(t)
       PROVE  LastWord'
  BY <1>2, <1>14 DEF LastWord, Canceling
<1>15. ASSUME NEW t \in Threads, InsertOrder(t) \/ \E r \in OrderId : Fill(t, r)
       PROVE  LastWord'
  BY <1>3, <1>4, <1>5, <1>15 DEF LastWord
<1>16. CASE UNCHANGED vars
  BY <1>16 DEF vars, locals, reports, LastWord
<1> HIDE DEF Same
<1> QED
  BY StepCases, <1>6, <1>7, <1>8, <1>9, <1>10, <1>12, <1>13, <1>14, <1>15, <1>16

\* With a single handler thread, matching is exhaustive: between requests no two
\* resting orders can trade, but for a MARKET order that was priced after it had
\* been matched.
THEOREM SingleThreadUncrosses ==
  ASSUME \A t, u \in Threads : t = u
  PROVE  Spec => []Uncrossed
<1>1. Init => Settled
  BY OppSide DEF Init, Settled, Creator, Creating, Matching
<1>2. IInv /\ Settled /\ [Next]_vars => Settled'
  BY SettledStep
<1>3. IInv /\ Settled => Uncrossed
  <2> SUFFICES ASSUME IInv, Settled, Quiet, NEW s \in Stocks,
                      NEW i \in book[s]["SELL"], NEW j \in book[s]["BUY"],
                      Compatible(orders[i], orders[j])
               PROVE  orders[IF i < j THEN j ELSE i].kind = "MARKET"
    BY DEF Uncrossed
  <2>1. /\ BookIsLive /\ orders \in [OrderId -> Order \cup {NoOrder}]
        /\ book \in [Stocks -> [Side -> SUBSET OrderId]]
        /\ "SELL" \in Side /\ "BUY" \in Side /\ Opp("SELL") = "BUY" /\ Opp("BUY") = "SELL"
    BY DEF IInv, BookInv, TypeInv, TypeOK, Side, Opp
  <2>2. i \in OrderId /\ j \in OrderId
    BY <2>1
  <2>3. /\ orders[i] \in Order /\ orders[i] # NoOrder /\ orders[i].dir = "SELL"
        /\ orders[j] \in Order /\ orders[j] # NoOrder /\ orders[j].dir = "BUY"
    BY <2>1, <2>2 DEF BookIsLive, BeingCanceled, Quiet
  <2>4. i # j
    BY <2>3
  <2>5. Compatible(orders[j], orders[i])
    BY <2>1, <2>3, CompatibleBothWays
  <2>6. CASE i < j
    BY <2>1, <2>3, <2>5, <2>6 DEF Settled, Apart, Order, Kind
  <2>7. CASE j < i
    <3>1. ~(i < j)
      BY <2>2, <2>7 DEF OrderId
    <3> QED
      BY <2>1, <2>3, <2>7, <3>1 DEF Settled, Apart, Order, Kind
  <2> QED
    BY <2>2, <2>4, <2>6, <2>7 DEF OrderId
<1> QED
  BY <1>1, <1>2, <1>3, Invariance, PTL DEF Spec

\* With a single handler thread, what clients are told agrees: a query shows each
\* order with what the latest report left of it, and none that is filled or
\* cancelled; a CANCELED report leaves what the FILL reports have left.
THEOREM SingleThreadAgrees ==
  ASSUME \A t, u \in Threads : t = u
  PROVE  Spec => []AnswersAgree
<1>1. Init => Alone /\ LastWord
  BY DEF Init, Alone, LastWord, Creating, Matching, Canceling
<1>2. IInv /\ Alone /\ LastWord /\ [Next]_vars => Alone' /\ LastWord'
  BY AloneStep, LastWordStep
<1>3. IInv /\ LastWord => AnswersAgree
  <2> SUFFICES ASSUME IInv, LastWord, Quiet, NEW i \in OrderId, orders[i] # NoOrder
               PROVE  orders[i].qty = leave[i] /\ leave[i] > 0 /\ cancels[i] = 0
    BY DEF AnswersAgree, QueryReport, LastWord
  <2>1. /\ BookInv /\ BookIsLive /\ NoOrphan /\ SameStockAndSide /\ CancelOnce /\ FillsAddUp
        /\ orders \in [OrderId -> Order \cup {NoOrder}]
        /\ cancels \in [OrderId -> Nat]
    BY DEF IInv, BookInv, TypeInv, TypeOK, Accounting
  <2>2. placed[i] # NoOrder /\ orders[i] \in Order
    BY <2>1 DEF SameStockAndSide
  <2>3. orders[i].qty = placed[i].qty - filled[i] /\ leave[i] = placed[i].qty - filled[i]
    BY <2>1, <2>2 DEF FillsAddUp, Quiet, Scanning, Creating
  <2>4. i \in book[orders[i].stock][orders[i].dir]
    BY <2>1 DEF NoOrphan, InFlight, Quiet, Creating, Matching
  <2>5. orders[i].stock \in Stocks /\ orders[i].dir \in Side
    BY <2>2 DEF Order
  <2>6. orders[i].qty > 0
    BY <2>1, <2>4, <2>5 DEF BookIsLive, BeingCanceled, Quiet
  <2>7. cancels[i] = 0
    BY <2>1 DEF CancelOnce
  <2> QED
    BY <2>3, <2>6, <2>7
<1> QED
  BY <1>1, <1>2, <1>3, Invariance, PTL DEF Spec

-----------------------------------------------------------------------------
(* One handler thread: every request is atomic *)

\* The order in flight is in the table as it is in the locals, until it is matched;
\* and it is matched only when there is something to match it with.
Own ==
  \A t \in Threads :
    /\ pc[t] \in Creating \cup {"lockOpp", "select"} =>
         orders[oid[t]] = mine[t] /\ mine[t].qty > 0
    /\ pc[t] = "select" => Opposite(t) # {}

\* With one thread nothing happens to the order in flight before it is matched.
LEMMA OwnStep ==
  ASSUME \A t, u \in Threads : t = u
  PROVE  IInv /\ Own /\ [Next]_vars => Own'
<1> SUFFICES ASSUME IInv, Own, [Next]_vars, NEW t \in Threads PROVE
      /\ pc'[t] \in Creating \cup {"lockOpp", "select"} =>
           orders'[oid'[t]] = mine'[t] /\ mine'[t].qty > 0
      /\ pc'[t] = "select" => Opposite(t)' # {}
  BY DEF Own
<1>0. /\ BookInv /\ TypeInv /\ \A u \in Threads : u = t
      /\ pc \in [Threads -> {"idle", "insert"} \cup Creating \cup Matching \cup Canceling]
      /\ oid \in [Threads -> 0 .. MaxOrders]
      /\ mine \in [Threads -> Order \cup {NoOrder}]
      /\ orders \in [OrderId -> Order \cup {NoOrder}]
      /\ pc[t] \in Creating \cup {"lockOpp", "select"} =>
           orders[oid[t]] = mine[t] /\ mine[t].qty > 0
      /\ pc[t] = "select" => Opposite(t) # {}
  BY DEF IInv, BookInv, TypeInv, TypeOK, Own
<1>1. CASE UNCHANGED <<orders, book, pc, oid, mine>>
  BY <1>0, <1>1 DEF Opposite
<1>2. ASSUME pc'[t] \notin {"lockOpp", "select"} \cup Creating
      PROVE  /\ pc'[t] \notin Creating \cup {"lockOpp", "select"}
             /\ pc'[t] # "select"
  BY <1>2
<1>3. CASE InsertOrder(t)
  <2>1. /\ oid[t] \in OrderId /\ mine[t].qty > 0
    BY <1>0, <1>3 DEF InsertOrder, TypeInv, LocalsOK
  <2> QED
    BY <1>0, <1>3, <2>1 DEF InsertOrder, Goto, locals
<1>4. CASE \/ FindStock(t) \/ MissStock(t)
           \/ BeginInsertStock(t) \/ SkipInsertStock(t) \/ EndInsertStock(t)
  <2>1. pc[t] \in Creating /\ pc'[t] # "select" /\ UNCHANGED <<orders, oid, mine>>
    BY <1>0, <1>4 DEF FindStock, MissStock, BeginInsertStock, SkipInsertStock,
         EndInsertStock, Accept, Goto, locals, Creating
  <2> QED
    BY <1>0, <2>1
<1>5. CASE LockOpposite(t)
  <2>1. /\ pc[t] = "lockOpp" /\ Opposite(t) # {}
        /\ UNCHANGED <<orders, book, oid, mine>>
    BY <1>5 DEF LockOpposite, locals
  <2> QED
    BY <1>0, <2>1 DEF Opposite
<1>6. ASSUME NEW req \in Requests, TakeNumber(t, req)
      PROVE  pc'[t] = "insert"
  BY <1>0, <1>6 DEF TakeNumber, Goto
<1>7. ASSUME NEW i \in OrderId, CancelLookup(t, i)
      PROVE  pc'[t] = "cancelLock"
  BY <1>0, <1>7 DEF CancelLookup, Goto
<1>8. ASSUME NEW r \in OrderId, Fill(t, r)
      PROVE  pc'[t] \in {"scan", "retire"}
  BY <1>0, <1>8 DEF Fill, Goto
<1>9. ASSUME \/ SkipMatching(t) \/ SelectOwn(t) \/ Retire(t) \/ EndScan(t) \/ LockOwn(t)
             \/ Rest(t) \/ Drop(t) \/ CancelMiss(t) \/ CancelErase(t) \/ CancelUnbook(t)
      PROVE  pc'[t] \in {"lockOwn", "scan", "rest", "drop", "idle", "cancelUnbook"}
  BY <1>0, <1>9 DEF SkipMatching, SelectOwn, Retire, EndScan, LockOwn, Rest, Drop,
       CancelMiss, CancelErase, CancelUnbook, Goto
<1>10. ASSUME \/ Throw(t) \/ RaceOnStockMutex(t) \/ RaceOnAlter(t) \/ NullMutex(t)
       PROVE  UNCHANGED <<orders, book, pc, oid, mine>>
  BY <1>10, Died
<1>11. ASSUME pc'[t] \in {"insert", "cancelLock", "scan", "retire", "lockOwn", "rest",
                          "drop", "idle", "cancelUnbook"}
       PROVE  pc'[t] \notin {"lockOpp", "select"} \cup Creating
  BY <1>11 DEF Creating
<1>12. ASSUME UNCHANGED vars
       PROVE  UNCHANGED <<orders, book, pc, oid, mine>>
  BY <1>12 DEF vars, locals
<1> QED
  BY <1>0, <1>1, <1>2, <1>3, <1>4, <1>5, <1>6, <1>7, <1>8, <1>9, <1>10, <1>11, <1>12, StepCases

\* What the outcome of a thread's request is, by where the thread is.
LEMMA OutcomeIs ==
  ASSUME NEW t \in Threads
  PROVE  /\ pc[t] = "idle" => Outcome(t) = orders
         /\ pc[t] \in {"insert", "lockOpp", "select"} \cup Creating =>
              Outcome(t) = Submitted([orders EXCEPT ![oid[t]] = NoOrder], oid[t], mine[t])
         /\ pc[t] \in {"scan", "retire"} => Outcome(t) = AfterLoop(t)
         /\ pc[t] \in {"lockOwn", "rest", "drop"} =>
              Outcome(t) = [orders EXCEPT ![oid[t]] = IF @.qty = 0 THEN NoOrder ELSE @]
         /\ pc[t] \in Canceling => Outcome(t) = [orders EXCEPT ![oid[t]] = NoOrder]
BY DEF Outcome, Creating, Canceling

\* And after a step.
LEMMA NextOutcomeIs ==
  ASSUME NEW t \in Threads
  PROVE  /\ pc'[t] = "idle" => Outcome(t)' = orders'
         /\ pc'[t] \in {"insert", "lockOpp", "select"} \cup Creating =>
              Outcome(t)' = Submitted([orders' EXCEPT ![oid'[t]] = NoOrder], oid'[t], mine'[t])
         /\ pc'[t] \in {"scan", "retire"} => Outcome(t)' = AfterLoop(t)'
         /\ pc'[t] \in {"lockOwn", "rest", "drop"} =>
              Outcome(t)' = [orders' EXCEPT ![oid'[t]] = IF @.qty = 0 THEN NoOrder ELSE @]
         /\ pc'[t] \in Canceling => Outcome(t)' = [orders' EXCEPT ![oid'[t]] = NoOrder]
BY DEF Outcome, Creating, Canceling

\* With one thread, the candidates of the order in flight are the opposite set.
LEMMA CandidatesAreOpposite ==
  ASSUME BookInv, NEW t \in Threads, \A u \in Threads : u = t,
         pc[t] \in {"lockOpp", "select"},
         NEW tab, tab = [orders EXCEPT ![oid[t]] = NoOrder]
  PROVE  /\ Candidates(tab, mine[t]) = Opposite(t)
         /\ Opposite(t) \in SUBSET OrderId /\ oid[t] \notin Opposite(t)
         /\ \A r \in Opposite(t) : orders[r] \in Order /\ tab[r] = orders[r]
<1>0. /\ TypeInv /\ NoOrphan /\ BookIsLive
      /\ orders \in [OrderId -> Order \cup {NoOrder}] /\ oid[t] \in OrderId
      /\ pc[t] # "idle"
  BY MineType DEF BookInv, TypeInv, TypeOK
<1>1. /\ tab[oid[t]] = NoOrder
      /\ \A r \in OrderId : r # oid[t] => tab[r] = orders[r]
  BY <1>0
<1>2. Opposite(t) \in SUBSET OrderId /\ oid[t] \notin Opposite(t)
  <2>1. Creator(t)
    BY DEF Creator, Matching
  <2> QED
    BY <1>0, <2>1, OppositePlaced, NotAtRest
<1>3. ASSUME NEW r \in Opposite(t)
      PROVE  orders[r] \in Order /\ orders[r].stock = mine[t].stock
             /\ orders[r].dir = Opp(mine[t].dir)
  <2>1. mine[t].stock \in Stocks /\ Opp(mine[t].dir) \in Side
    BY <1>0, MineType
  <2>2. ~BeingCanceled(r)
    BY DEF BeingCanceled
  <2>3. orders[r] # NoOrder /\ orders[r].stock = mine[t].stock
        /\ orders[r].dir = Opp(mine[t].dir)
    BY <1>0, <1>3, <2>1, <2>2 DEF BookIsLive, Opposite
  <2> QED
    BY <1>0, <1>2, <2>3
<1>4. ASSUME NEW r \in OrderId, tab[r] # NoOrder, tab[r].stock = mine[t].stock,
             tab[r].dir = Opp(mine[t].dir)
      PROVE  r \in Opposite(t)
  <2>1. r # oid[t] /\ tab[r] = orders[r]
    BY <1>1, <1>4
  <2>2. ~InFlight(r)
    BY <2>1 DEF InFlight
  <2> QED
    BY <1>0, <1>4, <2>1, <2>2 DEF NoOrphan, Opposite
<1>5. \A r \in Opposite(t) : tab[r] = orders[r] /\ tab[r] # NoOrder
  BY <1>1, <1>2, <1>3
<1>6. Candidates(tab, mine[t]) = Opposite(t)
  BY <1>2, <1>3, <1>4, <1>5 DEF Candidates
<1> QED
  BY <1>2, <1>3, <1>5, <1>6

\* There is nothing to match the order with: it rests as it is.
LEMMA SkipMatchingOutcome ==
  ASSUME BookInv, Own, NEW t \in Threads, \A u \in Threads : u = t, SkipMatching(t)
  PROVE  Outcome(t)' = Outcome(t)
<1>0. /\ pc \in [Threads -> {"idle", "insert"} \cup Creating \cup Matching \cup Canceling]
      /\ orders \in [OrderId -> Order \cup {NoOrder}]
      /\ pc[t] = "lockOpp" /\ Opposite(t) = {} /\ UNCHANGED <<orders, oid, mine>>
      /\ oid[t] \in OrderId /\ mine[t] \in Order
      /\ orders[oid[t]] = mine[t] /\ mine[t].qty > 0
  BY MineType DEF BookInv, TypeInv, TypeOK, SkipMatching, locals, Own
<1>1. pc'[t] = "lockOwn"
  BY <1>0 DEF SkipMatching, Goto
<1> DEFINE tab == [orders EXCEPT ![oid[t]] = NoOrder]
           m == Matched(tab, mine[t], {})
<1>2. Outcome(t) = Submitted(tab, oid[t], mine[t])
  BY <1>0, OutcomeIs
<1>3. Candidates(tab, mine[t]) = {}
  BY <1>0, CandidatesAreOpposite
<1>4. m.tab = tab /\ m.left = mine[t].qty
  BY MatchedNone
<1>5. Outcome(t) = [m.tab EXCEPT ![oid[t]] = Residue(mine[t], m.left, FALSE)]
  <2> HIDE DEF tab
  <2> QED
    BY <1>2, <1>3 DEF Submitted
<1>6. Residue(mine[t], mine[t].qty, FALSE) = mine[t]
  <2>1. PICK o : o = mine[t]
    OBVIOUS
  <2>2. o \in Order /\ o.qty # 0
    BY <1>0, <2>1 DEF Order
  <2>3. Residue(o, o.qty, FALSE) = [o EXCEPT !.qty = o.qty, !.price = o.price]
    BY <2>2 DEF Residue
  <2> QED
    BY <2>1, <2>2, <2>3 DEF Order
<1>7. Outcome(t) = [tab EXCEPT ![oid[t]] = mine[t]]
  <2> HIDE DEF tab, m
  <2> QED
    BY <1>4, <1>5, <1>6
<1>8. Outcome(t) = orders
  BY <1>0, <1>7
<1>9. Outcome(t)' = [orders EXCEPT ![oid[t]] = IF @.qty = 0 THEN NoOrder ELSE @]
  BY <1>0, <1>1, NextOutcomeIs
<1> QED
  BY <1>0, <1>8, <1>9

\* The order enters the matching loop as it was asked for.
LEMMA SelectOwnOutcome ==
  ASSUME BookInv, Own, NEW t \in Threads, \A u \in Threads : u = t, SelectOwn(t)
  PROVE  Outcome(t)' = Outcome(t)
<1>0. /\ pc \in [Threads -> {"idle", "insert"} \cup Creating \cup Matching \cup Canceling]
      /\ orders \in [OrderId -> Order \cup {NoOrder}]
      /\ mine \in [Threads -> Order \cup {NoOrder}] /\ cnt \in [Threads -> Nat]
      /\ pc[t] = "select" /\ Opposite(t) # {} /\ UNCHANGED <<orders, oid, book>>
      /\ oid[t] \in OrderId /\ mine[t] \in Order /\ mine[t].qty \in Nat
      /\ orders[oid[t]] = mine[t]
  BY MineType DEF BookInv, TypeInv, TypeOK, SelectOwn, Own
<1>1. pc'[t] = "scan" /\ mine'[t] = mine[t] /\ cnt'[t] = 0
  BY <1>0 DEF SelectOwn, Goto
<1> PICK tab, o, ids : tab = [orders EXCEPT ![oid[t]] = NoOrder] /\ o = mine[t]
                       /\ ids = Opposite(t)
  OBVIOUS
<1>2. /\ Candidates(tab, o) = ids /\ ids \in SUBSET OrderId /\ oid[t] \notin ids
      /\ \A r \in ids : orders[r] \in Order /\ tab[r] = orders[r]
  BY <1>0, CandidatesAreOpposite
<1> PICK m, n : m = Matched(tab, o, ids) /\ n = Matched(orders, o, ids)
  OBVIOUS
<1>3. /\ tab \in [OrderId -> Order \cup {NoOrder}] /\ o \in Order /\ o.qty \in Nat
      /\ \A r \in OrderId : r # oid[t] => tab[r] = orders[r]
  BY <1>0
<1>4. IsOutcome(tab, o, ids, MaxOrders, m) /\ IsOutcome(orders, o, ids, MaxOrders, n)
  BY <1>0, <1>2, <1>3, MatchedOutcome
<1>5. Alike(n, m, ids)
  BY <1>0, <1>2, <1>3, MatchedAlike
<1>6. /\ m.tab \in [OrderId -> Order \cup {NoOrder}]
      /\ n.tab \in [OrderId -> Order \cup {NoOrder}]
      /\ \A r \in OrderId : r # oid[t] => m.tab[r] = n.tab[r]
      /\ m.left = n.left
  <2>1. ASSUME NEW r \in OrderId, r # oid[t], r \notin ids
        PROVE  m.tab[r] = n.tab[r]
    <3>1. m.tab[r] = tab[r] /\ n.tab[r] = orders[r]
      BY <1>4, <2>1 DEF IsOutcome
    <3> QED
      BY <1>3, <2>1, <3>1
  <2> QED
    BY <1>4, <1>5, <2>1 DEF IsOutcome, Alike
<1>7. Outcome(t) = [m.tab EXCEPT ![oid[t]] = Residue(o, m.left, TRUE)]
  <2>1. Outcome(t) = Submitted(tab, oid[t], o)
    BY <1>0, OutcomeIs
  <2>2. (ids # {}) = TRUE
    BY <1>0
  <2> QED
    BY <1>2, <2>1, <2>2 DEF Submitted
<1>8. Outcome(t)' = [n.tab EXCEPT ![oid[t]] = Residue(o, n.left, TRUE)]
  <2>1. Outcome(t)' = AfterLoop(t)'
    BY <1>1, NextOutcomeIs
  <2>2. ToVisit(t)' = ids
    BY <1>0, <1>1 DEF ToVisit, Opposite
  <2>3. [mine'[t] EXCEPT !.qty = @ - cnt'[t]] = o
    BY <1>0, <1>1 DEF Order
  <2>4. AfterLoop(t)' = [n.tab EXCEPT ![oid[t]] = Residue(o, n.left, TRUE)]
    BY <1>0, <1>1, <2>2, <2>3 DEF AfterLoop
  <2> QED
    BY <2>1, <2>4
<1>9. PICK f, g, i, x : /\ f = m.tab /\ g = n.tab /\ i = oid[t]
                        /\ x = Residue(o, m.left, TRUE)
  OBVIOUS
<1>10. [f EXCEPT ![i] = x] = [g EXCEPT ![i] = x]
  BY <1>6, <1>9
<1> QED
  BY <1>6, <1>7, <1>8, <1>9, <1>10

\* What a matching loop has before it: orders to trade with, all in the table.
LEMMA LoopFacts ==
  ASSUME BookInv, NEW t \in Threads, pc[t] = "scan"
  PROVE  /\ orders \in [OrderId -> Order \cup {NoOrder}]
         /\ oid[t] \in OrderId /\ mine[t] \in Order /\ mine[t].qty \in Nat
         /\ cnt[t] \in Nat /\ cnt[t] <= mine[t].qty
         /\ Opposite(t) \in SUBSET OrderId
         /\ \A r \in Opposite(t) : orders[r] \in Order
<1>1. /\ orders \in [OrderId -> Order \cup {NoOrder}] /\ cnt[t] \in Nat
      /\ cnt[t] <= mine[t].qty
  BY DEF BookInv, TypeInv, TypeOK, LocalsOK, Scanning
<1>2. Opposite(t) \in SUBSET OrderId
  BY OppositePlaced
<1>3. \A r \in Opposite(t) : orders[r] \in Order
  BY <1>1, <1>2, RestingIsFound
<1> QED
  BY <1>1, <1>2, <1>3, MineType DEF BookInv

\* A trade is the first of those that the loop has before it.
LEMMA FillOutcome ==
  ASSUME BookInv, NEW t \in Threads, NEW r \in OrderId, Fill(t, r)
  PROVE  Outcome(t)' = Outcome(t)
<1>0. /\ pc \in [Threads -> {"idle", "insert"} \cup Creating \cup Matching \cup Canceling]
      /\ cnt \in [Threads -> Nat] /\ resting \in [Threads -> 0 .. MaxOrders]
      /\ pc[t] = "scan" /\ UNCHANGED <<oid, mine, book>>
  BY DEF BookInv, TypeInv, TypeOK, Fill
<1> PICK e, q, i : e = orders[r] /\ q = mine[t].qty - cnt[t] /\ i = oid[t]
  OBVIOUS
<1> PICK n : n = Least(e.qty, q)
  OBVIOUS
<1> PICK o, ids : o = [mine[t] EXCEPT !.qty = q] /\ ids = Opposite(t)
  OBVIOUS
<1>1. /\ orders \in [OrderId -> Order \cup {NoOrder}] /\ i \in OrderId
      /\ mine[t] \in Order /\ mine[t].qty \in Nat /\ cnt[t] \in Nat /\ q \in Nat
      /\ ids \in SUBSET OrderId /\ \A j \in ids : orders[j] \in Order
  BY <1>0, LoopFacts
<1>2. /\ o \in Order /\ o.qty = q /\ SameOffer(mine[t], o)
  BY <1>1 DEF Order, SameOffer
<1>3. /\ q > 0 /\ r \in ids /\ Compatible(o, e)
      /\ \A j \in ids : j < r => ~Compatible(o, orders[j])
  <2>1. /\ r \in Stops(t) /\ \A j \in Stops(t) : r <= j
        /\ cnt[t] < mine[t].qty
    BY DEF Fill, StopsAt
  <2>2. \A x : Compatible(mine[t], x) <=> Compatible(o, x)
    BY <1>2 DEF SameOffer, Compatible
  <2>3. r \in ids /\ Compatible(o, e)
    BY <2>1, <2>2 DEF Stops, Fill
  <2>4. ASSUME NEW j \in ids, j < r, Compatible(o, orders[j])
        PROVE  FALSE
    <3>1. j \in Stops(t)
      BY <2>2, <2>4 DEF Stops
    <3>2. j \in Nat /\ r \in Nat
      BY <1>1 DEF OrderId
    <3> QED
      BY <2>1, <2>4, <3>1, <3>2
  <2> QED
    BY <1>1, <2>1, <2>3, <2>4
<1>4. /\ orders' = [orders EXCEPT ![r] = [e EXCEPT !.qty = e.qty - n]]
      /\ cnt'[t] = cnt[t] + n /\ resting'[t] = r
      /\ pc'[t] = IF e.qty = n THEN "retire" ELSE "scan"
  BY <1>0 DEF Fill, Goto
<1>5. e \in Order /\ e.qty \in Nat /\ n \in Nat /\ n <= q
  BY <1>1, <1>3 DEF Order, Least
<1> PICK p, after, next :
      /\ p = [o EXCEPT !.qty = o.qty - n]
      /\ after = [orders EXCEPT ![r] = IF e.qty = n THEN NoOrder
                                       ELSE [e EXCEPT !.qty = e.qty - n]]
      /\ next = ids \ (IF e.qty = n THEN {r} ELSE {})
  OBVIOUS
<1> PICK m1, m2 : m1 = Matched(orders, o, ids) /\ m2 = Matched(after, p, next)
  OBVIOUS
<1>6. Alike(m1, m2, OrderId)
  <2>1. /\ orders \in [OrderId -> Order \cup {NoOrder}] /\ o \in Order /\ o.qty > 0
        /\ ids \in SUBSET OrderId /\ \A j \in ids : orders[j] \in Order
        /\ r \in ids /\ Compatible(o, orders[r])
        /\ \A j \in ids : j < r => ~Compatible(o, orders[j])
    BY <1>1, <1>2, <1>3
  <2>2. /\ n = Least(orders[r].qty, o.qty)
        /\ p = [o EXCEPT !.qty = o.qty - n]
        /\ after = [orders EXCEPT ![r] = IF orders[r].qty = n THEN NoOrder
                                         ELSE [orders[r] EXCEPT !.qty = orders[r].qty - n]]
        /\ next = ids \ (IF orders[r].qty = n THEN {r} ELSE {})
    BY <1>2
  <2>3. Alike(Matched(orders, o, ids), Matched(after, p, next), OrderId)
    BY ONLY <2>1, <2>2, MatchedFirst
  <2> QED
    BY <2>3
<1>7. p = [mine[t] EXCEPT !.qty = mine[t].qty - (cnt[t] + n)]
  <2>1. q - n = mine[t].qty - (cnt[t] + n)
    BY <1>1, <1>5
  <2>2. p = [o EXCEPT !.qty = q - n]
    BY <1>2
  <2> QED
    BY <1>1, <2>1, <2>2 DEF Order
<1>8. Residue(o, m1.left, TRUE) = Residue(p, m2.left, TRUE)
  <2>1. m1.left = m2.left
    BY <1>6 DEF Alike
  <2>2. PICK x : x = o.qty - n
    OBVIOUS
  <2>3. p = [o EXCEPT !.qty = x] /\ Repriced(p) = Repriced(o)
    BY <1>2, <2>2 DEF Order, Repriced
  <2> QED
    BY <1>2, <2>1, <2>3 DEF Residue, Order
<1>9. m1.tab = m2.tab
  <2>1. m1.tab \in [OrderId -> Order \cup {NoOrder}]
    BY <1>1, <1>2, MatchedOutcome DEF IsOutcome
  <2>2. /\ after \in [OrderId -> Order \cup {NoOrder}] /\ p.qty \in Nat
        /\ next \in SUBSET OrderId /\ \A j \in next : after[j] \in Order
    <3>1. PICK x, y : x = o.qty - n /\ y = e.qty - n
      OBVIOUS
    <3>2. x \in Nat /\ y \in Nat /\ y >= 0
      BY <1>1, <1>2, <1>5, <3>1 DEF Least
    <3>3. [o EXCEPT !.qty = x].qty = x /\ [e EXCEPT !.qty = y] \in Order
      BY <1>2, <1>5, <3>2 DEF Order
    <3> QED
      BY <1>1, <3>1, <3>2, <3>3
  <2>3. m2.tab \in [OrderId -> Order \cup {NoOrder}]
    <3>1. IsOutcome(after, p, next, MaxOrders, Matched(after, p, next))
      BY ONLY <2>2, MatchedOutcome
    <3> QED
      BY <3>1 DEF IsOutcome
  <2>4. \A j \in OrderId : m1.tab[j] = m2.tab[j]
    BY <1>6 DEF Alike
  <2>5. PICK f, g : f = m1.tab /\ g = m2.tab
    OBVIOUS
  <2>6. /\ f \in [OrderId -> Order \cup {NoOrder}] /\ g \in [OrderId -> Order \cup {NoOrder}]
        /\ \A j \in OrderId : f[j] = g[j]
    BY <2>1, <2>3, <2>4, <2>5
  <2>7. f = g
    BY ONLY <2>6
  <2> QED
    BY <2>5, <2>7
<1>10. Outcome(t) = [m1.tab EXCEPT ![i] = Residue(o, m1.left, TRUE)]
  <2>1. Outcome(t) = AfterLoop(t)
    BY <1>0, OutcomeIs
  <2>2. ToVisit(t) = ids
    BY <1>0 DEF ToVisit
  <2> QED
    BY <1>0, <2>1, <2>2 DEF AfterLoop
<1>11. Outcome(t)' = [m2.tab EXCEPT ![i] = Residue(p, m2.left, TRUE)]
  <2>1. Outcome(t)' = AfterLoop(t)'
    BY <1>4, NextOutcomeIs
  <2>2. ToVisit(t)' = next
    BY <1>0, <1>4 DEF ToVisit, Opposite
  <2>3. (IF pc'[t] = "retire" THEN [orders' EXCEPT ![resting'[t]] = NoOrder] ELSE orders') = after
    BY <1>1, <1>4
  <2>4. [mine'[t] EXCEPT !.qty = @ - cnt'[t]] = p
    BY <1>0, <1>4, <1>7
  <2>5. AfterLoop(t)' = [m2.tab EXCEPT ![i] = Residue(p, m2.left, TRUE)]
    BY <1>0, <2>2, <2>3, <2>4 DEF AfterLoop
  <2> QED
    BY <2>1, <2>5
<1> QED
  BY <1>8, <1>9, <1>10, <1>11

\* An exhausted order is not visited again.
LEMMA RetireOutcome ==
  ASSUME BookInv, NEW t \in Threads, Retire(t)
  PROVE  Outcome(t)' = Outcome(t)
<1>0. /\ pc \in [Threads -> {"idle", "insert"} \cup Creating \cup Matching \cup Canceling]
      /\ book \in [Stocks -> [Side -> SUBSET OrderId]]
      /\ pc[t] = "retire" /\ UNCHANGED <<oid, mine, cnt, resting>>
      /\ mine[t].stock \in Stocks /\ Opp(mine[t].dir) \in Side
  BY MineType DEF BookInv, TypeInv, TypeOK, Retire, locals
<1>1. pc'[t] = "scan" /\ orders' = [orders EXCEPT ![resting[t]] = NoOrder]
  BY <1>0 DEF Retire, Goto
<1>2. ToVisit(t)' = ToVisit(t)
  <2>1. Opposite(t)' = Opposite(t) \ {resting[t]}
    BY <1>0 DEF Retire, Opposite
  <2> QED
    BY <1>0, <1>1, <2>1 DEF ToVisit
<1>3. AfterLoop(t)' = AfterLoop(t)
  BY <1>0, <1>1, <1>2 DEF AfterLoop
<1>4. Outcome(t) = AfterLoop(t)
  BY <1>0, OutcomeIs
<1>5. Outcome(t)' = AfterLoop(t)'
  BY <1>1, NextOutcomeIs
<1> QED
  BY <1>3, <1>4, <1>5

\* The loop ends when there is nothing left to trade, or nobody to trade with.
LEMMA EndScanOutcome ==
  ASSUME BookInv, NEW t \in Threads, EndScan(t)
  PROVE  Outcome(t)' = Outcome(t)
<1>0. /\ pc \in [Threads -> {"idle", "insert"} \cup Creating \cup Matching \cup Canceling]
      /\ pc[t] = "scan" /\ UNCHANGED <<oid, mine>>
  BY DEF BookInv, TypeInv, TypeOK, EndScan, locals
<1> PICK q, i, ids : q = mine[t].qty - cnt[t] /\ i = oid[t] /\ ids = Opposite(t)
  OBVIOUS
<1> PICK o : o = [mine[t] EXCEPT !.qty = q]
  OBVIOUS
<1>1. /\ orders \in [OrderId -> Order \cup {NoOrder}] /\ i \in OrderId
      /\ mine[t] \in Order /\ mine[t].qty \in Nat /\ cnt[t] \in Nat /\ q \in Nat
      /\ ids \in SUBSET OrderId /\ \A j \in ids : orders[j] \in Order
  BY <1>0, LoopFacts
<1>2. o \in Order /\ o.qty = q /\ SameOffer(mine[t], o)
  BY <1>1 DEF Order, SameOffer
<1>3. ASSUME NEW r \in ids, Compatible(o, orders[r]), q # 0
      PROVE  FALSE
  <2>1. r \in Stops(t) /\ Stops(t) \in SUBSET Nat
    BY <1>1, <1>2, <1>3 DEF Stops, SameOffer, Compatible, OrderId
  <2>2. PICK s \in Stops(t) : \A j \in Stops(t) : s <= j
    BY <2>1, LeastNatural
  <2>3. StopsAt(t, s) /\ s \in Opposite(t)
    BY <1>1, <1>3, <2>2 DEF StopsAt, Stops
  <2> QED
    BY <2>3 DEF EndScan
<1> PICK m : m = Matched(orders, o, ids)
  OBVIOUS
<1>4. m.tab = orders /\ m.left = q
  <2>1. \A r \in ids : o.qty = 0 \/ ~Compatible(o, orders[r])
    BY <1>2, <1>3
  <2>2. ids \in SUBSET OrderId
    BY <1>1
  <2>3. Matched(orders, o, ids).tab = orders /\ Matched(orders, o, ids).left = o.qty
    BY ONLY <2>1, <2>2, MatchedNone
  <2> QED
    BY <1>2, <2>3
<1>5. Outcome(t) = [orders EXCEPT ![i] = Residue(o, q, TRUE)]
  <2>1. Outcome(t) = AfterLoop(t)
    BY <1>0, OutcomeIs
  <2>2. ToVisit(t) = ids
    BY <1>0 DEF ToVisit
  <2> QED
    BY <1>0, <1>4, <2>1, <2>2 DEF AfterLoop
<1>6. pc'[t] = "lockOwn"
  BY <1>0 DEF EndScan, Goto
<1> PICK x : x = [mine[t] EXCEPT !.qty = q, !.price = Repriced(mine[t])]
  OBVIOUS
<1>7. orders' = [orders EXCEPT ![i] = x] /\ x.qty = q
  BY <1>1 DEF EndScan, Order
<1>8. Outcome(t)' = [orders EXCEPT ![i] = IF q = 0 THEN NoOrder ELSE x]
  <2>1. Outcome(t)' = [orders' EXCEPT ![i] = IF @.qty = 0 THEN NoOrder ELSE @]
    BY <1>0, <1>6, NextOutcomeIs
  <2> QED
    BY <1>1, <1>7, <2>1
<1>9. Residue(o, q, TRUE) = IF q = 0 THEN NoOrder ELSE x
  <2>1. Repriced(o) = Repriced(mine[t])
    BY <1>1 DEF Repriced, Order
  <2>2. [o EXCEPT !.qty = q, !.price = Repriced(mine[t])] = x
    BY <1>1 DEF Order
  <2> QED
    BY <2>1, <2>2 DEF Residue
<1> QED
  BY <1>5, <1>8, <1>9

\* What a step of the one thread is to AtomicMarket: a submission when it takes a
\* number, a cancellation when it finds the order, and nothing otherwise.
LEMMA AtomicStep ==
  ASSUME IInv, Own, [Next]_vars, NEW t \in Threads, \A u \in Threads : u = t
  PROVE  \/ \E req \in Requests :
              /\ CheckRequest(req) /\ id < MaxOrders /\ id' = id + 1
              /\ Outcome(t)' = Submitted(Outcome(t), id + 1, req)
         \/ \E i \in OrderId :
              /\ Outcome(t)[i] # NoOrder /\ id' = id
              /\ Outcome(t)' = [Outcome(t) EXCEPT ![i] = NoOrder]
         \/ id' = id /\ Outcome(t)' = Outcome(t)
<1>0. /\ BookInv /\ TypeInv /\ Numbering /\ SameStockAndSide /\ InTransit
      /\ pc \in [Threads -> {"idle", "insert"} \cup Creating \cup Matching \cup Canceling]
      /\ oid \in [Threads -> 0 .. MaxOrders] /\ id \in 0 .. MaxOrders
      /\ mine \in [Threads -> Order \cup {NoOrder}]
      /\ orders \in [OrderId -> Order \cup {NoOrder}]
      /\ pc[t] # "idle" => oid[t] \in OrderId
  BY DEF IInv, BookInv, TypeInv, TypeOK, LocalsOK
<1>1. ASSUME UNCHANGED <<orders, book, pc, oid, mine, cnt, resting>>
      PROVE  Outcome(t)' = Outcome(t)
  BY <1>1 DEF Outcome, AfterLoop, ToVisit, Opposite
<1>2. ASSUME NEW req \in Requests, TakeNumber(t, req)
      PROVE  /\ CheckRequest(req) /\ id < MaxOrders /\ id' = id + 1
             /\ Outcome(t)' = Submitted(Outcome(t), id + 1, req)
  <2>1. /\ pc[t] = "idle" /\ pc'[t] = "insert" /\ oid'[t] = id + 1 /\ mine'[t] = req
        /\ orders' = orders /\ CheckRequest(req) /\ id < MaxOrders /\ id' = id + 1
    BY <1>0, <1>2 DEF TakeNumber, Goto
  <2>2. id + 1 \in OrderId /\ ~(id + 1 <= id)
    BY <1>0, <2>1 DEF OrderId
  <2>3. orders[id + 1] = NoOrder
    BY <1>0, <2>2 DEF Numbering, SameStockAndSide
  <2>4. [orders EXCEPT ![id + 1] = NoOrder] = orders
    BY <1>0, <2>2, <2>3
  <2>5. Outcome(t) = orders
    BY <2>1, OutcomeIs
  <2>6. Outcome(t)' = Submitted([orders' EXCEPT ![oid'[t]] = NoOrder], oid'[t], mine'[t])
    BY <2>1, NextOutcomeIs
  <2> QED
    BY <2>1, <2>4, <2>5, <2>6
<1>3. ASSUME NEW i \in OrderId, CancelLookup(t, i)
      PROVE  /\ Outcome(t)[i] # NoOrder /\ id' = id
             /\ Outcome(t)' = [Outcome(t) EXCEPT ![i] = NoOrder]
  <2>1. /\ pc[t] = "idle" /\ pc'[t] \in Canceling /\ oid'[t] = i /\ orders' = orders
        /\ orders[i] # NoOrder /\ id' = id
    BY <1>0, <1>3 DEF CancelLookup, Goto, Canceling
  <2> QED
    BY <2>1, OutcomeIs, NextOutcomeIs
<1>4. ASSUME InsertOrder(t)
      PROVE  Outcome(t)' = Outcome(t)
  <2>1. /\ pc[t] = "insert" /\ pc'[t] \in Creating /\ UNCHANGED <<oid, mine>>
        /\ orders' = [orders EXCEPT ![oid[t]] = mine[t]]
    BY <1>0, <1>4 DEF InsertOrder, Goto, locals, Creating
  <2>2. [orders' EXCEPT ![oid[t]] = NoOrder] = [orders EXCEPT ![oid[t]] = NoOrder]
    BY <1>0, <2>1
  <2>3. Outcome(t) = Submitted([orders EXCEPT ![oid[t]] = NoOrder], oid[t], mine[t])
    BY <2>1, OutcomeIs
  <2>4. Outcome(t)' = Submitted([orders' EXCEPT ![oid'[t]] = NoOrder], oid'[t], mine'[t])
    BY <2>1, NextOutcomeIs
  <2> QED
    BY <2>1, <2>2, <2>3, <2>4
<1>5. ASSUME \/ FindStock(t) \/ MissStock(t) \/ BeginInsertStock(t) \/ SkipInsertStock(t)
             \/ EndInsertStock(t) \/ LockOpposite(t)
      PROVE  Outcome(t)' = Outcome(t)
  <2>1. /\ pc[t] \in Creating \cup {"lockOpp"}
        /\ pc'[t] \in Creating \cup {"lockOpp", "select"}
        /\ UNCHANGED <<orders, oid, mine>>
    BY <1>0, <1>5 DEF FindStock, MissStock, BeginInsertStock, SkipInsertStock,
         EndInsertStock, LockOpposite, Accept, Goto, locals, Creating
  <2>2. Outcome(t) = Submitted([orders EXCEPT ![oid[t]] = NoOrder], oid[t], mine[t])
    BY <2>1, OutcomeIs
  <2>3. Outcome(t)' = Submitted([orders' EXCEPT ![oid'[t]] = NoOrder], oid'[t], mine'[t])
    BY <2>1, NextOutcomeIs
  <2> QED
    BY <2>1, <2>2, <2>3
<1>6. ASSUME NEW r \in OrderId, Fill(t, r)
      PROVE  Outcome(t)' = Outcome(t)
  BY <1>0, <1>6, FillOutcome
<1>7. ASSUME SkipMatching(t) \/ SelectOwn(t) \/ Retire(t) \/ EndScan(t)
      PROVE  Outcome(t)' = Outcome(t)
  BY <1>0, <1>7, SkipMatchingOutcome, SelectOwnOutcome, RetireOutcome, EndScanOutcome
<1>8. ASSUME LockOwn(t)
      PROVE  Outcome(t)' = Outcome(t)
  <2>1. /\ pc[t] = "lockOwn" /\ pc'[t] \in {"rest", "drop"} /\ UNCHANGED <<orders, oid>>
    BY <1>0, <1>8 DEF LockOwn, Goto, locals
  <2>2. Outcome(t) = [orders EXCEPT ![oid[t]] = IF @.qty = 0 THEN NoOrder ELSE @]
    BY <2>1, OutcomeIs
  <2>3. Outcome(t)' = [orders' EXCEPT ![oid'[t]] = IF @.qty = 0 THEN NoOrder ELSE @]
    BY <2>1, NextOutcomeIs
  <2> QED
    BY <2>1, <2>2, <2>3
<1>9. ASSUME Rest(t) \/ Drop(t)
      PROVE  Outcome(t)' = Outcome(t)
  <2>1. Outcome(t) = [orders EXCEPT ![oid[t]] = IF @.qty = 0 THEN NoOrder ELSE @]
    BY <1>9, OutcomeIs DEF Rest, Drop
  <2>2. Outcome(t)' = orders'
    BY <1>0, <1>9, NextOutcomeIs DEF Rest, Drop, Goto
  <2>3. CASE Rest(t)
    BY <1>0, <2>1, <2>2, <2>3 DEF Rest, InTransit
  <2>4. CASE Drop(t)
    BY <1>0, <2>1, <2>2, <2>4 DEF Drop, InTransit
  <2> QED
    BY <1>9, <2>3, <2>4
<1>10. ASSUME CancelMiss(t) \/ CancelErase(t) \/ CancelUnbook(t)
       PROVE  Outcome(t)' = Outcome(t)
  <2>1. Outcome(t) = [orders EXCEPT ![oid[t]] = NoOrder]
    BY <1>10, OutcomeIs DEF CancelMiss, CancelErase, CancelUnbook, Canceling
  <2>2. CASE CancelMiss(t) \/ CancelUnbook(t)
    <3>1. pc'[t] = "idle" /\ orders[oid[t]] = NoOrder /\ orders' = orders
      BY <1>0, <2>2 DEF CancelMiss, CancelUnbook, Goto, InTransit
    <3>2. Outcome(t)' = orders'
      BY <3>1, NextOutcomeIs
    <3> QED
      BY <1>0, <2>1, <3>1, <3>2
  <2>3. CASE CancelErase(t)
    <3>1. /\ pc'[t] \in Canceling /\ oid' = oid /\ orders' = [orders EXCEPT ![oid[t]] = NoOrder]
      BY <1>0, <2>3 DEF CancelErase, Goto, locals, Canceling
    <3>2. Outcome(t)' = [orders' EXCEPT ![oid'[t]] = NoOrder]
      BY <3>1, NextOutcomeIs
    <3> QED
      BY <1>0, <2>1, <3>1, <3>2
  <2> QED
    BY <1>10, <2>2, <2>3
<1>11. ASSUME \/ Throw(t) \/ RaceOnStockMutex(t) \/ RaceOnAlter(t) \/ NullMutex(t)
       PROVE  Outcome(t)' = Outcome(t) /\ id' = id
  <2>1. UNCHANGED <<id, orders, book, pc, oid, mine, cnt, resting>>
    BY <1>11, Died
  <2> QED
    BY <1>1, <2>1
<1>12. ASSUME UNCHANGED vars
       PROVE  Outcome(t)' = Outcome(t) /\ id' = id
  BY <1>1, <1>12 DEF vars, locals
<1>13. ASSUME NEW r \in OrderId, Fill(t, r)
       PROVE  id' = id
  BY <1>13 DEF Fill
<1>14. ASSUME \/ InsertOrder(t) \/ FindStock(t) \/ MissStock(t) \/ BeginInsertStock(t)
              \/ SkipInsertStock(t) \/ EndInsertStock(t) \/ SkipMatching(t)
              \/ LockOpposite(t) \/ SelectOwn(t) \/ Retire(t) \/ EndScan(t) \/ LockOwn(t)
              \/ Rest(t) \/ Drop(t) \/ CancelMiss(t) \/ CancelErase(t) \/ CancelUnbook(t)
       PROVE  id' = id
  BY <1>14 DEF InsertOrder, FindStock, MissStock, BeginInsertStock, SkipInsertStock,
       EndInsertStock, Accept, SkipMatching, LockOpposite, SelectOwn, Retire, EndScan,
       LockOwn, Rest, Drop, CancelMiss, CancelErase, CancelUnbook
<1> QED
  BY <1>2, <1>3, <1>4, <1>5, <1>6, <1>7, <1>8, <1>9, <1>10, <1>11, <1>12, <1>13, <1>14,
     StepCases

\* AtomicMarket matches and checks requests as Trades does for this market.
LEMMA SameTrades ==
  /\ Atomic!OrderId = OrderId
  /\ \A req : Atomic!CheckRequest(req) <=> CheckRequest(req)
  /\ \A tab, i, o : Atomic!Submitted(tab, i, o) = Submitted(tab, i, o)
<1>1. Atomic!OrderId = OrderId
  BY DEF Atomic!OrderId, OrderId
<1>2. ASSUME NEW req
      PROVE  Atomic!CheckRequest(req) <=> CheckRequest(req)
  BY DEF Atomic!CheckRequest, CheckRequest, Atomic!Side, Side, Atomic!Kind, Kind
<1>3. ASSUME NEW tab, NEW i, NEW o
      PROVE  Atomic!Submitted(tab, i, o) = Submitted(tab, i, o)
  BY DEF Atomic!Submitted, Submitted, Atomic!Candidates, Candidates, Atomic!Matched, Matched,
       Atomic!Visit, Visit, Atomic!Residue, Residue, Atomic!OrderId, OrderId, Atomic!Opp, Opp,
       Atomic!Least, Least, Atomic!Compatible, Compatible, Atomic!Repriced, Repriced
<1> QED
  BY <1>1, <1>2, <1>3

\* With one handler thread every request takes effect at one instant: TradingMarket
\* implements AtomicMarket, for any stocks, requests and number of orders.
THEOREM SingleThreadIsAtomic ==
  ASSUME NEW t, Threads = {t}
  PROVE  Spec => Atomicity
<1>1. Handler = t
  BY DEF Handler
<1>2. \A u, v \in Threads : u = v
  OBVIOUS
<1>3. Init => Own /\ Atomic!Init
  <2> SUFFICES ASSUME Init PROVE Own /\ Atomic!Init
    OBVIOUS
  <2>1. Own
    BY DEF Init, Own, Creating
  <2>2. Outcome(Handler) = orders
    BY <1>1, OutcomeIs DEF Init
  <2> QED
    BY <2>1, <2>2, SameTrades DEF Init, Atomic!Init
<1>4. IInv /\ Own /\ [Next]_vars => Own'
  BY <1>2, OwnStep
<1>5. IInv /\ Own /\ [Next]_vars => [Atomic!Next]_(Atomic!vars)
  <2> SUFFICES ASSUME IInv, Own, [Next]_vars PROVE [Atomic!Next]_(Atomic!vars)
    OBVIOUS
  <2>1. \/ \E req \in Requests : Atomic!Submit(req)
        \/ \E i \in Atomic!OrderId : Atomic!Cancel(i)
        \/ UNCHANGED <<id, Outcome(Handler)>>
    BY <1>1, <1>2, AtomicStep, SameTrades DEF Atomic!Submit, Atomic!Cancel
  <2> QED
    BY <2>1 DEF Atomic!Next, Atomic!vars
<1> QED
  BY <1>3, <1>4, <1>5, Invariance, PTL DEF Spec, Atomicity, Atomic!Spec

=============================================================================
