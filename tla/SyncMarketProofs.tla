-------------------------- MODULE SyncMarketProofs --------------------------
(***************************************************************************)
(* Proofs about SyncMarket, for any number of sessions and cancelling      *)
(* threads, any requests and any number of orders: that IInv is inductive, *)
(* and from it the properties of the run.                                  *)
(***************************************************************************)
EXTENDS SyncMarketInv, DataInduction

USE OrdersAssumption, SyncAssumption

-----------------------------------------------------------------------------
(* Requests, entries and threads *)

\* The entry operator[] makes is a record like a request.
LEMMA GhostFacts == Ghost \in Request /\ Ghost # NoOrder
BY DEF Ghost, Request, Side, Kind

\* The other side.
LEMMA OppFacts ==
  /\ \A d \in Side : Opp(d) \in Side /\ Opp(d) # d /\ Opp(Opp(d)) = d
  /\ Side = {"SELL", "BUY"} /\ Opp("SELL") = "BUY" /\ Opp("BUY") = "SELL"
BY DEF Side, Opp

\* The entry of an order, there or made up.
LEMMA EntryFacts ==
  ASSUME TypeOK, NEW i \in OrderId
  PROVE  /\ Entry(i) \in Request /\ Entry(i) # NoOrder
         /\ orders[i] # NoOrder => Entry(i) = orders[i]
         /\ orders[i] = NoOrder => Entry(i).qty = 0 /\ Entry(i).dir \in Side
<1>1. orders[i] \in Request \cup {NoOrder}
  BY DEF TypeOK
<1> QED
  BY <1>1, GhostFacts DEF Entry, Ghost, Side

\* What passing the locks of a step says.
LEMMA AtFacts ==
  ASSUME NEW t \in Threads, NEW l, At(t, l)
  PROVE  fault = "none" /\ pc[t] = l
BY DEF At

\* Sessions and cancelling threads are different threads.
LEMMA ThreadFacts ==
  /\ \A t \in Sessions : t \in Threads /\ t \notin Cancelers
  /\ \A t \in Cancelers : t \in Threads /\ t \notin Sessions
BY DEF Threads

\* Init: nothing has been created and nobody is busy.
LEMMA InitIInv == Init => IInv
<1> SUFFICES ASSUME Init PROVE IInv
  OBVIOUS
<1>1. TypeOK
  <2>1. book \in [AnyStock -> [Side -> SUBSET OrderId]]
    BY DEF Init
  <2>2. /\ id \in 0 .. MaxOrders
        /\ orders \in [OrderId -> Request \cup {NoOrder}]
        /\ placed \in [OrderId -> Request \cup {NoOrder}]
        /\ streams \in [OrderId -> Sessions \cup {NoStream}]
    BY DEF Init
  <2>3. /\ oid \in [Threads -> 0 .. MaxOrders]
        /\ mine \in [Threads -> Request]
        /\ cnt \in [Threads -> Nat]
    BY GhostFacts DEF Init
  <2> QED
    BY <2>1, <2>2, <2>3 DEF Init, TypeOK
<1>2. Roles /\ Flights /\ Erasing
  BY ThreadFacts DEF Init, Roles, Flights, Erasing, Flying
<1>3. Room
  <2>1. Creators = {}
    BY DEF Init, Creators
  <2> QED
    BY <2>1, FS_EmptySet DEF Init, Room
<1>4. \A i \in OrderId : Numbered(i) /\ Left(i) /\ Canceled(i)
  BY DEF Init, Numbered, Left, Canceled, OrderId
<1>5. Booked
  BY DEF Init, Booked
<1>6. \A t \in Sessions : Flying(t) => Matching(t, oid[t])
  BY ThreadFacts DEF Init, Flying
<1>7. Alone
  BY ThreadFacts, OppFacts DEF Init, Alone, OneBusy, Busy, Mutexes, AllApart, Apart
<1> QED
  BY <1>1, <1>2, <1>3, <1>4, <1>5, <1>6, <1>7 DEF IInv


-----------------------------------------------------------------------------
(* Steps of a thread that has no order under way *)

\* The thread that moves; the others stay where they are.
Moved(t) ==
  /\ pc' \in [Threads -> {"idle", "ended", "reject", "create", "list", "stream",
                          "lockOpp", "match", "scan", "rest", "lookup", "erase"}]
  /\ oid' \in [Threads -> 0 .. MaxOrders]
  /\ mine' \in [Threads -> Request]
  /\ cnt' \in [Threads -> Nat]
  /\ \A u \in Threads \ {t} :
       pc'[u] = pc[u] /\ oid'[u] = oid[u] /\ mine'[u] = mine[u] /\ cnt'[u] = cnt[u]

\* A thread that is not flying before and after its step leaves the orders alone:
\* what is known of them stays.
LEMMA GroundStep ==
  ASSUME IInv, NEW t \in Threads, Moved(t), ~Flying(t), ~Flying(t)',
         UNCHANGED <<id, orders, book, held, listed, streams, fault, placed, filled, told, cancels>>,
         overlapped' \in BOOLEAN, overlapped => overlapped',
         ~overlapped' /\ Busy(t)' => Busy(t) \/ \A u \in Threads \ {t} : ~Busy(u)
  PROVE  /\ TypeOK' /\ Booked' /\ Flights' /\ Alone'
         /\ \A i \in OrderId : Numbered(i)' /\ Left(i)' /\ Canceled(i)'
         /\ \A u \in Sessions : Flying(u)' => Matching(u, oid[u])'
<1>1. \A u \in Sessions : /\ Flying(u)' <=> Flying(u)
                          /\ Flying(u) => u # t
                          /\ Flying(u) => oid'[u] = oid[u] /\ mine'[u] = mine[u]
                                          /\ pc'[u] = pc[u] /\ cnt'[u] = cnt[u]
  BY ThreadFacts DEF Moved, Flying
<1>2. \A i \in OrderId : Flies(i)' <=> Flies(i)
  BY <1>1 DEF Flies
<1>3. \A i \in OrderId : Numbered(i)' /\ Left(i)' /\ Canceled(i)'
  <2> SUFFICES ASSUME NEW i \in OrderId PROVE Numbered(i)' /\ Left(i)' /\ Canceled(i)'
    OBVIOUS
  <2>1. Numbered(i) /\ Left(i) /\ Canceled(i)
    BY DEF IInv
  <2>2. Numbered(i)'
    BY <2>1 DEF Numbered
  <2>3. Left(i)'
    BY <1>2, <2>1 DEF Left
  <2>4. Canceled(i)'
    BY <1>2, <2>1 DEF Canceled
  <2> QED
    BY <2>2, <2>3, <2>4
<1>4. Booked'
  <2>1. Booked /\ book \in [AnyStock -> [Side -> SUBSET OrderId]]
    BY DEF IInv, TypeOK
  <2> QED
    BY <1>2, <2>1 DEF Booked
<1>5. Flights'
  <2>1. Flights
    BY DEF IInv
  <2> QED
    BY <1>1, <2>1 DEF Flights
<1>6. \A u \in Sessions : Flying(u)' => Matching(u, oid[u])'
  <2> SUFFICES ASSUME NEW u \in Sessions, Flying(u)' PROVE Matching(u, oid[u])'
    OBVIOUS
  <2>1. Matching(u, oid[u])
    BY <1>1 DEF IInv
  <2> QED
    BY <1>1, <2>1 DEF Matching
<1>7. TypeOK'
  <2>1. TypeOK
    BY DEF IInv
  <2> QED
    BY <2>1 DEF TypeOK, Moved
<1>8. Alone'
  <2> SUFFICES ASSUME ~overlapped'
               PROVE  /\ OneBusy' /\ Mutexes' /\ AllApart'
                      /\ fault' \in {"none", "dangling_stream"}
    BY DEF Alone
  <2>1. OneBusy /\ Mutexes /\ AllApart /\ fault \in {"none", "dangling_stream"}
    BY DEF IInv, Alone
  <2>2. OneBusy'
    BY <2>1 DEF OneBusy, Busy, Moved
  <2>3. Mutexes'
    BY <1>1, <2>1 DEF Mutexes, Flying
  <2>4. AllApart'
    <3>1. \A s \in AnyStock : Apart(book[s]["SELL"], book[s]["BUY"])'
      BY <2>1 DEF AllApart, Apart
    <3>2. ASSUME NEW u \in Sessions,
                 (pc[u] = "rest" /\ orders[oid[u]] # NoOrder /\ orders[oid[u]].qty > 0)'
          PROVE  Apart({oid[u]}, book[mine[u].stock][Opp(mine[u].dir)])'
      <4>1. Flying(u)'
        BY <3>2 DEF Flying
      <4>2. pc[u] = "rest" /\ oid'[u] = oid[u] /\ mine'[u] = mine[u]
        BY <1>1, <3>2, <4>1
      <4> QED
        BY <2>1, <3>2, <4>2 DEF AllApart, Apart
    <3> QED
      BY <3>1, <3>2 DEF AllApart
  <2> QED
    BY <2>1, <2>2, <2>3, <2>4
<1> QED
  BY <1>3, <1>4, <1>5, <1>6, <1>7, <1>8

\* The threads other than t that create or erase keep doing so.
LEMMA OthersFacts ==
  ASSUME IInv, NEW t \in Threads, Moved(t)
  PROVE  /\ pc[t] # "create" /\ pc'[t] # "create" => Creators' = Creators
         /\ t \in Sessions => (Erasing' <=> \A u \in Cancelers : pc[u] = "erase" =>
              /\ orders'[oid[u]] # NoOrder
              /\ mine[u].stock = orders'[oid[u]].stock /\ mine[u].dir = orders'[oid[u]].dir)
         /\ t \in Sessions /\ pc'[t] \notin {"lookup", "erase"} =>
              ((pc'[t] = "create" => Legal(mine[t])') => Roles')
         /\ t \in Cancelers /\ pc'[t] \in {"idle", "lookup", "erase"} =>
              ((pc'[t] # "idle" => oid'[t] \in OrderId) => Roles')
<1>1. Roles /\ Erasing
  BY DEF IInv
<1>2. pc[t] # "create" /\ pc'[t] # "create" => Creators' = Creators
  BY DEF Creators, Moved
<1>3. t \in Sessions => (Erasing' <=> \A u \in Cancelers : pc[u] = "erase" =>
        /\ orders'[oid[u]] # NoOrder
        /\ mine[u].stock = orders'[oid[u]].stock /\ mine[u].dir = orders'[oid[u]].dir)
  BY <1>1, ThreadFacts DEF Erasing, Moved
<1>4. t \in Sessions /\ pc'[t] \notin {"lookup", "erase"} =>
        ((pc'[t] = "create" => Legal(mine[t])') => Roles')
  BY <1>1, ThreadFacts DEF Roles, Moved, Legal
<1>5. t \in Cancelers /\ pc'[t] \in {"idle", "lookup", "erase"} =>
        ((pc'[t] # "idle" => oid'[t] \in OrderId) => Roles')
  BY <1>1, ThreadFacts DEF Roles, Moved, Legal
<1> QED
  BY <1>2, <1>3, <1>4, <1>5

\* A request is read, legal or not.
LEMMA ReceiveStep ==
  ASSUME IInv, NEW t \in Sessions, NEW req \in Requests, Receive(t, req)
  PROVE  IInv'
<1>0. TypeOK /\ t \in Threads /\ req \in Request
  BY ThreadFacts DEF IInv
<1>1. /\ pc[t] = "idle" /\ pc' = [pc EXCEPT ![t] = IF Legal(req) THEN "create" ELSE "reject"]
      /\ mine' = [mine EXCEPT ![t] = req] /\ oid' = oid /\ cnt' = cnt
      /\ UNCHANGED <<id, orders, book, held, listed, streams, fault, placed, filled, told, cancels>>
      /\ overlapped' = (overlapped \/ \E u \in Threads \ {t} : Busy(u))
  BY <1>0, AtFacts DEF Receive, Goto, Overlap
<1>2. Moved(t) /\ pc'[t] = IF Legal(req) THEN "create" ELSE "reject"
  BY <1>0, <1>1 DEF TypeOK, Moved
<1>3. /\ TypeOK' /\ Booked' /\ Flights' /\ Alone'
      /\ \A i \in OrderId : Numbered(i)' /\ Left(i)' /\ Canceled(i)'
      /\ \A u \in Sessions : Flying(u)' => Matching(u, oid[u])'
  <2>1. ~Flying(t) /\ ~Flying(t)'
    BY <1>1, <1>2 DEF Flying
  <2>2. overlapped' \in BOOLEAN /\ (overlapped => overlapped')
    BY <1>0, <1>1 DEF TypeOK
  <2>3. ~overlapped' => \A u \in Threads \ {t} : ~Busy(u)
    BY <1>1
  <2> QED
    BY <1>0, <1>1, <1>2, <2>1, <2>2, <2>3, GroundStep
<1>4. Roles'
  BY <1>0, <1>1, <1>2, OthersFacts DEF TypeOK, Legal
<1>5. Erasing'
  <2>1. Erasing
    BY DEF IInv
  <2> QED
    BY <1>0, <1>1, <1>2, <2>1, OthersFacts DEF Erasing
<1>6. Room'
  <2>1. Room
    BY DEF IInv
  <2>2. CASE Legal(req)
    <3>1. id + Cardinality(Creators) < MaxOrders
      BY <2>2 DEF Receive, Creators
    <3>2. Creators' = Creators \cup {t} /\ t \notin Creators
      BY <1>0, <1>1, <1>2, <2>2 DEF Creators, Moved
    <3>3. IsFiniteSet(Creators') /\ Cardinality(Creators') = Cardinality(Creators) + 1
      BY <2>1, <3>2, FS_AddElement DEF Room
    <3>4. Cardinality(Creators) \in Nat
      BY <2>1, FS_CardinalityType DEF Room
    <3> QED
      BY <1>0, <1>1, <2>1, <3>1, <3>3, <3>4 DEF Room, TypeOK
  <2>3. CASE ~Legal(req)
    <3>1. Creators' = Creators
      BY <1>0, <1>1, <1>2, <2>3, OthersFacts
    <3> QED
      BY <1>1, <2>1, <3>1 DEF Room
  <2> QED
    BY <2>2, <2>3
<1> QED
  BY <1>3, <1>4, <1>5, <1>6 DEF IInv

\* Of a step that leaves Creators and id alone: there is still room.
LEMMA RoomKept == IInv /\ id' = id /\ Creators' = Creators => Room'
BY DEF IInv, Room

\* The locals are gone when a call returns.
LEMMA ReturnFacts ==
  ASSUME IInv, NEW t \in Threads, Return(t)
  PROVE  Moved(t) /\ pc'[t] = "idle" /\ pc' = [pc EXCEPT ![t] = "idle"]
<1>1. TypeOK
  BY DEF IInv
<1>2. /\ pc' = [pc EXCEPT ![t] = "idle"] /\ oid' = [oid EXCEPT ![t] = 0]
      /\ mine' = [mine EXCEPT ![t] = Ghost] /\ cnt' = [cnt EXCEPT ![t] = 0]
  BY DEF Return, Goto
<1> QED
  BY <1>1, <1>2, GhostFacts DEF TypeOK, Moved

\* A call ends between two requests.
LEMMA EndStep ==
  ASSUME IInv, NEW t \in Sessions, End(t)
  PROVE  IInv'
<1>0. TypeOK /\ t \in Threads
  BY ThreadFacts DEF IInv
<1>1. /\ pc[t] = "idle" /\ pc' = [pc EXCEPT ![t] = "ended"]
      /\ mine' = mine /\ oid' = oid /\ cnt' = cnt
      /\ UNCHANGED <<id, orders, book, held, listed, streams, fault, placed, filled, told, cancels>>
      /\ overlapped' = overlapped
  BY <1>0, AtFacts DEF End, Goto, locals, history
<1>2. Moved(t) /\ pc'[t] = "ended"
  BY <1>0, <1>1 DEF TypeOK, Moved
<1>3. /\ TypeOK' /\ Booked' /\ Flights' /\ Alone'
      /\ \A i \in OrderId : Numbered(i)' /\ Left(i)' /\ Canceled(i)'
      /\ \A u \in Sessions : Flying(u)' => Matching(u, oid[u])'
  <2>1. ~Flying(t) /\ ~Flying(t)' /\ ~Busy(t)'
    BY <1>1, <1>2 DEF Flying, Busy
  <2>2. overlapped' \in BOOLEAN
    BY <1>0, <1>1 DEF TypeOK
  <2> QED
    BY <1>0, <1>1, <1>2, <2>1, <2>2, GroundStep
<1>4. Roles'
  BY <1>0, <1>2, OthersFacts
<1>5. Erasing'
  <2>1. Erasing
    BY DEF IInv
  <2> QED
    BY <1>0, <1>1, <1>2, <2>1, OthersFacts DEF Erasing
<1>6. Room'
  BY <1>0, <1>1, <1>2, OthersFacts, RoomKept
<1> QED
  BY <1>3, <1>4, <1>5, <1>6 DEF IInv

\* An illegal request is rejected.
LEMMA RejectOrderStep ==
  ASSUME IInv, NEW t \in Sessions, RejectOrder(t)
  PROVE  IInv'
<1>0. TypeOK /\ t \in Threads
  BY ThreadFacts DEF IInv
<1>1. /\ pc[t] = "reject" /\ Return(t)
      /\ UNCHANGED <<id, orders, book, held, listed, streams, fault, placed, filled, told, cancels>>
      /\ overlapped' = overlapped
  BY <1>0, AtFacts DEF RejectOrder, history
<1>2. Moved(t) /\ pc'[t] = "idle"
  BY <1>0, <1>1, ReturnFacts
<1>3. /\ TypeOK' /\ Booked' /\ Flights' /\ Alone'
      /\ \A i \in OrderId : Numbered(i)' /\ Left(i)' /\ Canceled(i)'
      /\ \A u \in Sessions : Flying(u)' => Matching(u, oid[u])'
  <2>1. ~Flying(t) /\ ~Flying(t)' /\ ~Busy(t)'
    BY <1>1, <1>2 DEF Flying, Busy
  <2>2. overlapped' \in BOOLEAN
    BY <1>0, <1>1 DEF TypeOK
  <2> QED
    BY <1>0, <1>1, <1>2, <2>1, <2>2, GroundStep
<1>4. Roles'
  BY <1>0, <1>2, OthersFacts
<1>5. Erasing'
  <2>1. Erasing
    BY DEF IInv
  <2> QED
    BY <1>0, <1>1, <1>2, <2>1, OthersFacts DEF Erasing
<1>6. Room'
  BY <1>0, <1>1, <1>2, OthersFacts, RoomKept
<1> QED
  BY <1>3, <1>4, <1>5, <1>6 DEF IInv

\* A cancellation arrives.
LEMMA ReceiveCancelStep ==
  ASSUME IInv, NEW t \in Cancelers, NEW i \in OrderId, ReceiveCancel(t, i)
  PROVE  IInv'
<1>0. TypeOK /\ t \in Threads /\ t \notin Sessions
  BY ThreadFacts DEF IInv
<1>1. /\ pc[t] = "idle" /\ pc' = [pc EXCEPT ![t] = "lookup"]
      /\ oid' = [oid EXCEPT ![t] = i] /\ mine' = mine /\ cnt' = cnt
      /\ UNCHANGED <<id, orders, book, held, listed, streams, fault, placed, filled, told, cancels>>
      /\ overlapped' = (overlapped \/ \E u \in Threads \ {t} : Busy(u))
  BY <1>0, AtFacts DEF ReceiveCancel, Goto, Overlap
<1>2. Moved(t) /\ pc'[t] = "lookup" /\ oid'[t] = i
  BY <1>0, <1>1 DEF TypeOK, Moved, OrderId
<1>3. /\ TypeOK' /\ Booked' /\ Flights' /\ Alone'
      /\ \A j \in OrderId : Numbered(j)' /\ Left(j)' /\ Canceled(j)'
      /\ \A u \in Sessions : Flying(u)' => Matching(u, oid[u])'
  <2>1. ~Flying(t) /\ ~Flying(t)'
    BY <1>0, <1>1, <1>2 DEF Flying
  <2>2. overlapped' \in BOOLEAN /\ (overlapped => overlapped')
    BY <1>0, <1>1 DEF TypeOK
  <2>3. ~overlapped' => \A u \in Threads \ {t} : ~Busy(u)
    BY <1>1
  <2> QED
    BY <1>0, <1>1, <1>2, <2>1, <2>2, <2>3, GroundStep
<1>4. Roles'
  BY <1>0, <1>1, <1>2, OthersFacts
<1>5. Erasing'
  <2>1. Erasing
    BY DEF IInv
  <2> QED
    BY <1>0, <1>1, <1>2, <2>1, ThreadFacts DEF Erasing, Moved
<1>6. Room'
  BY <1>0, <1>1, <1>2, OthersFacts, RoomKept
<1> QED
  BY <1>3, <1>4, <1>5, <1>6 DEF IInv

\* There is no such order.
LEMMA RejectCancelStep ==
  ASSUME IInv, NEW t \in Cancelers, RejectCancel(t)
  PROVE  IInv'
<1>0. TypeOK /\ t \in Threads /\ t \notin Sessions
  BY ThreadFacts DEF IInv
<1>1. /\ pc[t] = "lookup" /\ Return(t)
      /\ UNCHANGED <<id, orders, book, held, listed, streams, fault, placed, filled, told, cancels>>
      /\ overlapped' = overlapped
  BY <1>0, AtFacts DEF RejectCancel, history
<1>2. Moved(t) /\ pc'[t] = "idle"
  BY <1>0, <1>1, ReturnFacts
<1>3. /\ TypeOK' /\ Booked' /\ Flights' /\ Alone'
      /\ \A i \in OrderId : Numbered(i)' /\ Left(i)' /\ Canceled(i)'
      /\ \A u \in Sessions : Flying(u)' => Matching(u, oid[u])'
  <2>1. ~Flying(t) /\ ~Flying(t)' /\ ~Busy(t)'
    BY <1>0, <1>1, <1>2 DEF Flying, Busy
  <2>2. overlapped' \in BOOLEAN
    BY <1>0, <1>1 DEF TypeOK
  <2> QED
    BY <1>0, <1>1, <1>2, <2>1, <2>2, GroundStep
<1>4. Roles'
  BY <1>0, <1>2, OthersFacts
<1>5. Erasing'
  <2>1. Erasing
    BY DEF IInv
  <2> QED
    BY <1>0, <1>1, <1>2, <2>1, ThreadFacts DEF Erasing, Moved
<1>6. Room'
  BY <1>0, <1>1, <1>2, OthersFacts, RoomKept
<1> QED
  BY <1>3, <1>4, <1>5, <1>6 DEF IInv

\* An order is copied by the one thread that holds cancel_mutex.
LEMMA CopyOrderStep ==
  ASSUME IInv, NEW t \in Cancelers, CopyOrder(t)
  PROVE  IInv'
<1>0. TypeOK /\ t \in Threads /\ t \notin Sessions /\ Roles
  BY ThreadFacts DEF IInv
<1>1. /\ pc[t] = "lookup" /\ pc' = [pc EXCEPT ![t] = "erase"]
      /\ orders[oid[t]] # NoOrder
      /\ mine' = [mine EXCEPT ![t] = orders[oid[t]]] /\ oid' = oid /\ cnt' = cnt
      /\ UNCHANGED <<id, orders, book, held, listed, streams, fault, placed, filled, told, cancels>>
      /\ overlapped' = overlapped
  BY <1>0, AtFacts DEF CopyOrder, Goto, history
<1>2. oid[t] \in OrderId /\ orders[oid[t]] \in Request
  BY <1>0, <1>1 DEF TypeOK, Roles
<1>3. Moved(t) /\ pc'[t] = "erase" /\ mine'[t] = orders[oid[t]]
  BY <1>0, <1>1, <1>2 DEF TypeOK, Moved
<1>4. /\ TypeOK' /\ Booked' /\ Flights' /\ Alone'
      /\ \A i \in OrderId : Numbered(i)' /\ Left(i)' /\ Canceled(i)'
      /\ \A u \in Sessions : Flying(u)' => Matching(u, oid[u])'
  <2>1. ~Flying(t) /\ ~Flying(t)' /\ Busy(t)
    BY <1>0, <1>1, <1>3 DEF Flying, Busy
  <2>2. overlapped' \in BOOLEAN
    BY <1>0, <1>1 DEF TypeOK
  <2> QED
    BY <1>0, <1>1, <1>3, <2>1, <2>2, GroundStep
<1>5. Roles'
  BY <1>0, <1>1, <1>2, <1>3, OthersFacts
<1>6. \A u \in Cancelers : pc[u] # "erase"
  <2> SUFFICES ASSUME NEW u \in Cancelers, pc[u] = "erase" PROVE FALSE
    OBVIOUS
  <2>1. u \in Threads \ {t}
    BY <1>1, ThreadFacts
  <2>2. Locks(t) \cap Held(u) = {}
    BY <2>1 DEF CopyOrder, At
  <2>3. Locks(t) = {<<"cancel">>}
    BY <1>1 DEF Locks
  <2>4. Held(u) = {<<"cancel">>}
    BY DEF Held
  <2> QED
    BY <2>2, <2>3, <2>4
<1>7. Erasing'
  BY <1>0, <1>1, <1>3, <1>6, ThreadFacts DEF Erasing, Moved
<1>8. Room'
  BY <1>0, <1>1, <1>3, OthersFacts, RoomKept
<1> QED
  BY <1>4, <1>5, <1>7, <1>8 DEF IInv

-----------------------------------------------------------------------------
(* Steps of a thread with its own order *)

\* What is known of the order a thread has under way.
LEMMA FlightFacts ==
  ASSUME IInv, NEW t \in Sessions, Flying(t), NEW i, i = oid[t]
  PROVE  /\ t \in Threads /\ i \in OrderId /\ i <= id /\ Flies(i)
         /\ mine[t] = placed[i] /\ mine[t] \in Request /\ Legal(mine[t])
         /\ Numbered(i) /\ Left(i) /\ Canceled(i) /\ Matching(t, i)
         /\ \A u \in Sessions : Flying(u) /\ oid[u] = i => u = t
         /\ \A s \in AnyStock, d \in Side : i \notin book[s][d]
         /\ mine[t].stock \in AnyStock /\ mine[t].dir \in Side
         /\ orders[i] \in Request \cup {NoOrder}
<1>1. /\ t \in Threads /\ i \in OrderId /\ i <= id /\ Flies(i) /\ mine[t] = placed[i]
      /\ \A u \in Sessions : Flying(u) /\ oid[u] = i => u = t
  BY ThreadFacts DEF IInv, TypeOK, Flights, Flies, OrderId
<1>2. Numbered(i) /\ Left(i) /\ Canceled(i) /\ Matching(t, i)
  BY <1>1 DEF IInv
<1>3. mine[t] \in Request /\ Legal(mine[t]) /\ orders[i] \in Request \cup {NoOrder}
  BY <1>1, <1>2 DEF IInv, TypeOK, Numbered
<1>4. mine[t].stock \in AnyStock /\ mine[t].dir \in Side
  BY <1>3 DEF Legal, Request, AnyStock
<1>5. \A s \in AnyStock, d \in Side : i \notin book[s][d]
  BY <1>1 DEF IInv, Booked
<1> QED
  BY <1>1, <1>2, <1>3, <1>4, <1>5

\* A step that touches the entry, the stream and the reports of the thread's own
\* order, which stays under way.
LEMMA OwnStep ==
  ASSUME IInv, NEW t \in Sessions, Moved(t), Flying(t), Flying(t)', TypeOK',
         NEW i, i = oid[t], oid'[t] = i, mine'[t] = mine[t],
         UNCHANGED <<id, book, fault, placed, filled, cancels, overlapped>>,
         \A j \in OrderId \ {i} :
           orders'[j] = orders[j] /\ streams'[j] = streams[j] /\ told'[j] = told[j],
         orders'[i] # NoOrder => orders'[i].dir \in Side,
         orders[i] # NoOrder =>
           /\ orders'[i] # NoOrder
           /\ orders'[i].stock = orders[i].stock /\ orders'[i].dir = orders[i].dir,
         cancels[i] > 0 /\ orders'[i] # NoOrder => orders'[i].qty = 0,
         Matching(t, i)',
         listed \subseteq listed', pc'[t] # "list", pc[t] = "list" => mine[t].stock \in listed',
         pc'[t] = "rest" /\ orders'[i] # NoOrder /\ orders'[i].qty > 0 =>
           \A r \in book[mine[t].stock][Opp(mine[t].dir)] :
             orders'[i].kind = "LIMIT" /\ orders[r].kind = "LIMIT" =>
               ~Compatible(orders'[i], orders[r])
  PROVE  IInv'
<1>1. /\ t \in Threads /\ i \in OrderId /\ i <= id /\ Flies(i)
      /\ Numbered(i) /\ Left(i) /\ Canceled(i) /\ mine[t] = placed[i]
      /\ \A u \in Sessions : Flying(u) /\ oid[u] = i => u = t
      /\ \A s \in AnyStock, d \in Side : i \notin book[s][d]
      /\ mine[t].stock \in AnyStock /\ mine[t].dir \in Side
  BY FlightFacts
<1>2. \A u \in Sessions : /\ Flying(u)' <=> Flying(u)
                          /\ oid'[u] = oid[u] /\ mine'[u] = mine[u]
                          /\ u # t => pc'[u] = pc[u] /\ cnt'[u] = cnt[u]
  BY <1>1, ThreadFacts DEF Moved, Flying
<1>3. \A j : Flies(j)' <=> Flies(j)
  BY <1>2 DEF Flies
<1>4. Roles'
  <2>1. pc'[t] \notin {"create", "lookup", "erase"}
    BY DEF Flying
  <2> QED
    BY <1>1, <2>1, OthersFacts
<1>5. Room'
  <2>1. pc'[t] # "create" /\ pc[t] # "create"
    BY DEF Flying
  <2> QED
    BY <1>1, <2>1, OthersFacts, RoomKept
<1>6. Flights'
  BY <1>1, <1>2 DEF IInv, Flights
<1>7. Erasing'
  <2> SUFFICES ASSUME NEW u \in Cancelers, pc[u] = "erase"
               PROVE  /\ orders'[oid[u]] # NoOrder
                      /\ mine[u].stock = orders'[oid[u]].stock
                      /\ mine[u].dir = orders'[oid[u]].dir
    BY <1>1, OthersFacts
  <2>1. /\ orders[oid[u]] # NoOrder /\ oid[u] \in OrderId
        /\ mine[u].stock = orders[oid[u]].stock /\ mine[u].dir = orders[oid[u]].dir
    BY DEF IInv, Erasing, Roles
  <2> QED
    BY <2>1
<1>8. \A j \in OrderId : Numbered(j)' /\ Left(j)' /\ Canceled(j)'
  <2> SUFFICES ASSUME NEW j \in OrderId PROVE Numbered(j)' /\ Left(j)' /\ Canceled(j)'
    OBVIOUS
  <2>1. Numbered(j) /\ Left(j) /\ Canceled(j)
    BY DEF IInv
  <2>2. CASE j # i
    <3>1. orders'[j] = orders[j]
      BY <2>2
    <3>2. Numbered(j)'
      BY <2>1, <3>1 DEF Numbered
    <3>3. Left(j)'
      BY <1>3, <2>1, <3>1 DEF Left
    <3>4. Canceled(j)'
      BY <1>3, <2>1, <3>1 DEF Canceled
    <3> QED
      BY <3>2, <3>3, <3>4
  <2>3. CASE j = i
    <3>1. Numbered(i)'
      BY <1>1 DEF Numbered, IInv, TypeOK, OrderId
    <3>2. Left(i)'
      BY <1>1, <1>3 DEF Left
    <3>3. Canceled(i)'
      BY <1>1, <1>3 DEF Canceled
    <3> QED
      BY <2>3, <3>1, <3>2, <3>3
  <2> QED
    BY <2>2, <2>3
<1>9. Booked'
  <2> SUFFICES ASSUME NEW s \in AnyStock, NEW d \in Side, NEW j \in book[s][d]
               PROVE  /\ orders'[j] # NoOrder
                      /\ orders'[j].stock = s /\ orders'[j].dir = d /\ orders'[j].qty > 0
                      /\ streams'[j] \in Sessions /\ told'[j] = orders'[j].qty
                      /\ cancels[j] = 0 /\ ~Flies(j)'
    BY DEF Booked
  <2>1. j # i /\ j \in OrderId
    BY <1>1 DEF IInv, TypeOK
  <2> QED
    BY <1>3, <2>1 DEF IInv, Booked
<1>10. \A u \in Sessions : Flying(u)' => Matching(u, oid[u])'
  <2> SUFFICES ASSUME NEW u \in Sessions, Flying(u)', u # t PROVE Matching(u, oid[u])'
    BY <1>2
  <2>1. Matching(u, oid[u]) /\ oid[u] # i /\ oid[u] \in OrderId
    BY <1>1, <1>2, FlightFacts
  <2> QED
    BY <1>2, <2>1 DEF Matching
<1>11. Alone'
  <2> SUFFICES ASSUME ~overlapped
               PROVE  /\ OneBusy' /\ Mutexes' /\ AllApart'
                      /\ fault \in {"none", "dangling_stream"}
    BY DEF Alone
  <2>1. OneBusy /\ Mutexes /\ AllApart /\ fault \in {"none", "dangling_stream"}
    BY DEF IInv, Alone
  <2>2. OneBusy'
    BY <1>1, <2>1 DEF OneBusy, Busy, Moved, Flying
  <2>3. \A u \in Sessions : Flying(u) => u = t
    BY <1>1, <2>1, ThreadFacts DEF OneBusy, Busy, Flying
  <2>4. cancels[i] = 0 /\ orders[i] # NoOrder /\ orders[i].stock = mine[t].stock
    BY <1>1 DEF Canceled, Numbered, IInv, TypeOK
  <2>5. Mutexes'
    <3> SUFFICES ASSUME NEW j \in OrderId, orders'[j] # NoOrder
                 PROVE  orders'[j].stock \in listed'
      BY DEF Mutexes
    <3>1. orders[j] # NoOrder /\ orders'[j].stock = orders[j].stock
      BY <2>4
    <3>2. orders[j].stock \in listed \/ (pc[t] = "list" /\ j = i)
      BY <2>1, <2>3, <3>1 DEF Mutexes, Flying
    <3> QED
      BY <2>4, <3>1, <3>2
  <2>6. AllApart'
    <3>1. \A s \in AnyStock : Apart(book[s]["SELL"], book[s]["BUY"])'
      <4> SUFFICES ASSUME NEW s \in AnyStock, NEW a \in book[s]["SELL"], NEW b \in book[s]["BUY"],
                          orders'[a].kind = "LIMIT", orders'[b].kind = "LIMIT"
                   PROVE  ~Compatible(orders'[a], orders'[b])
        BY DEF Apart
      <4>1. a \in OrderId \ {i} /\ b \in OrderId \ {i}
        BY <1>1, OppFacts DEF IInv, TypeOK
      <4> QED
        BY <2>1, <4>1 DEF AllApart, Apart
    <3>2. ASSUME NEW u \in Sessions,
                 (pc[u] = "rest" /\ orders[oid[u]] # NoOrder /\ orders[oid[u]].qty > 0)'
          PROVE  Apart({oid[u]}, book[mine[u].stock][Opp(mine[u].dir)])'
      <4>1. u = t
        BY <1>2, <2>3, <3>2 DEF Flying
      <4>2. \A r \in book[mine[t].stock][Opp(mine[t].dir)] : orders'[r] = orders[r]
        BY <1>1, OppFacts DEF IInv, TypeOK
      <4> QED
        BY <1>2, <3>2, <4>1, <4>2 DEF Apart
    <3> QED
      BY <3>1, <3>2 DEF AllApart
  <2> QED
    BY <2>1, <2>2, <2>5, <2>6
<1> QED
  BY <1>4, <1>5, <1>6, <1>7, <1>8, <1>9, <1>10, <1>11 DEF IInv

\* A step that only moves the program counter of a thread.
LEMMA GotoFacts ==
  ASSUME IInv, NEW t \in Threads,
         NEW l \in {"idle", "ended", "reject", "create", "list", "stream",
                    "lockOpp", "match", "scan", "rest", "lookup", "erase"},
         Goto(t, l), UNCHANGED locals
  PROVE  Moved(t) /\ pc'[t] = l /\ oid' = oid /\ mine' = mine /\ cnt' = cnt
<1>1. TypeOK /\ pc' = [pc EXCEPT ![t] = l] /\ oid' = oid /\ mine' = mine /\ cnt' = cnt
  BY DEF IInv, Goto, locals
<1> QED
  BY <1>1 DEF TypeOK, Moved

\* The stock of a new order gets its mutexes.
LEMMA ListStockStep ==
  ASSUME IInv, NEW t \in Sessions, ListStock(t)
  PROVE  IInv'
<1>0. TypeOK /\ t \in Threads
  BY ThreadFacts DEF IInv
<1>1. /\ pc[t] = "list" /\ listed' = listed \cup {mine[t].stock}
      /\ UNCHANGED <<id, orders, book, held, streams, fault, placed, filled, told, cancels, overlapped>>
      /\ Goto(t, "stream") /\ UNCHANGED locals
  BY <1>0, AtFacts DEF ListStock, history
<1>2. Moved(t) /\ pc'[t] = "stream" /\ oid' = oid /\ mine' = mine /\ cnt' = cnt
  BY <1>0, <1>1, GotoFacts
<1>3. PICK i : i = oid[t]
  OBVIOUS
<1>4. Flying(t) /\ Flying(t)'
  BY <1>1, <1>2 DEF Flying
<1>5. /\ i \in OrderId /\ Numbered(i) /\ Canceled(i) /\ Matching(t, i)
      /\ mine[t].stock \in AnyStock /\ mine[t] = placed[i]
  BY <1>3, <1>4, FlightFacts
<1>6. TypeOK'
  BY <1>0, <1>1, <1>2, <1>5 DEF TypeOK, Moved
<1>7. Matching(t, i)'
  BY <1>1, <1>2, <1>5 DEF Matching
<1>8. orders[i] # NoOrder => orders[i].dir \in Side
  BY <1>5 DEF Numbered
<1>9. cancels[i] > 0 /\ orders[i] # NoOrder => orders[i].qty = 0
  BY <1>5 DEF Canceled
<1> QED
  BY <1>1, <1>2, <1>3, <1>4, <1>6, <1>7, <1>8, <1>9, OwnStep

\* A new order gets its stream, and its client the ORDER_ACCEPT report.
LEMMA AcceptStep ==
  ASSUME IInv, NEW t \in Sessions, Accept(t)
  PROVE  IInv'
<1>0. TypeOK /\ t \in Threads
  BY ThreadFacts DEF IInv
<1>1. /\ pc[t] = "stream" /\ streams' = [streams EXCEPT ![oid[t]] = t]
      /\ told' = [told EXCEPT ![oid[t]] = mine[t].qty]
      /\ UNCHANGED <<id, orders, book, held, listed, fault, placed, filled, cancels, overlapped>>
      /\ Goto(t, "lockOpp") /\ UNCHANGED locals
  BY <1>0, AtFacts DEF Accept
<1>2. Moved(t) /\ pc'[t] = "lockOpp" /\ oid' = oid /\ mine' = mine /\ cnt' = cnt
  BY <1>0, <1>1, GotoFacts
<1>3. PICK i : i = oid[t]
  OBVIOUS
<1>4. Flying(t) /\ Flying(t)'
  BY <1>1, <1>2 DEF Flying
<1>5. /\ i \in OrderId /\ Numbered(i) /\ Canceled(i) /\ Matching(t, i) /\ i <= id
      /\ mine[t].stock \in AnyStock /\ mine[t] = placed[i] /\ mine[t] \in Request
  BY <1>3, <1>4, FlightFacts
<1>6. mine[t].qty \in Nat
  BY <1>5 DEF Request
<1>7. TypeOK'
  BY <1>0, <1>1, <1>2, <1>3, <1>5, <1>6 DEF TypeOK, Moved
<1>8. /\ streams'[i] = t /\ told'[i] = mine[t].qty
      /\ \A j \in OrderId \ {i} : streams'[j] = streams[j] /\ told'[j] = told[j]
  BY <1>0, <1>1, <1>3, <1>5 DEF TypeOK
<1>9. Matching(t, i)'
  BY <1>1, <1>2, <1>5, <1>6, <1>8 DEF Matching
<1>10. orders[i] # NoOrder => orders[i].dir \in Side
  BY <1>5 DEF Numbered
<1>11. cancels[i] > 0 /\ orders[i] # NoOrder => orders[i].qty = 0
  BY <1>5 DEF Canceled
<1> QED
  BY <1>1, <1>2, <1>3, <1>4, <1>7, <1>8, <1>9, <1>10, <1>11, OwnStep

\* The opposite set is looked at: if it is empty the order is apart from it.
LEMMA LockOppositeStep ==
  ASSUME IInv, NEW t \in Sessions, LockOpposite(t)
  PROVE  IInv'
<1>0. TypeOK /\ t \in Threads
  BY ThreadFacts DEF IInv
<1>1. PICK l \in {"rest", "match"} :
        /\ l = IF book[mine[t].stock][Opp(mine[t].dir)] = {} THEN "rest" ELSE "match"
        /\ Goto(t, l)
  BY DEF LockOpposite
<1>2. /\ pc[t] = "lockOpp" /\ UNCHANGED locals
      /\ UNCHANGED <<id, orders, book, held, listed, streams, fault,
                     placed, filled, told, cancels, overlapped>>
  BY <1>0, AtFacts DEF LockOpposite, history
<1>3. Moved(t) /\ pc'[t] = l /\ oid' = oid /\ mine' = mine /\ cnt' = cnt
  BY <1>0, <1>1, <1>2, GotoFacts
<1>4. PICK i : i = oid[t]
  OBVIOUS
<1>5. Flying(t) /\ Flying(t)'
  BY <1>2, <1>3 DEF Flying
<1>6. /\ i \in OrderId /\ Numbered(i) /\ Canceled(i) /\ Matching(t, i) /\ i <= id
      /\ mine[t] = placed[i] /\ mine[t] \in Request
  BY <1>4, <1>5, FlightFacts
<1>7. TypeOK'
  BY <1>0, <1>2, <1>3 DEF TypeOK, Moved
<1>8. mine[t].qty \in Nat
  BY <1>6 DEF Request
<1>9. Matching(t, i)'
  BY <1>2, <1>3, <1>6, <1>8 DEF Matching
<1>10. orders[i] # NoOrder => orders[i].dir \in Side
  BY <1>6 DEF Numbered
<1>11. cancels[i] > 0 /\ orders[i] # NoOrder => orders[i].qty = 0
  BY <1>6 DEF Canceled
<1>12. l = "rest" => book[mine[t].stock][Opp(mine[t].dir)] = {}
  BY <1>1
<1> QED
  BY <1>2, <1>3, <1>4, <1>5, <1>7, <1>9, <1>10, <1>11, <1>12, OwnStep

\* Matching starts with a reference to the order, or to an entry made for it.
LEMMA MatchOrderStep ==
  ASSUME IInv, NEW t \in Sessions, MatchOrder(t)
  PROVE  IInv'
<1>0. TypeOK /\ t \in Threads
  BY ThreadFacts DEF IInv
<1>1. /\ pc[t] = "match" /\ pc' = [pc EXCEPT ![t] = "scan"]
      /\ orders' = [orders EXCEPT ![oid[t]] = Entry(oid[t])]
      /\ cnt' = [cnt EXCEPT ![t] = 0] /\ oid' = oid /\ mine' = mine
      /\ UNCHANGED <<id, book, held, listed, streams, fault,
                     placed, filled, told, cancels, overlapped>>
  BY <1>0, AtFacts DEF MatchOrder, history, Goto
<1>2. Moved(t) /\ pc'[t] = "scan" /\ cnt'[t] = 0
  BY <1>0, <1>1 DEF TypeOK, Moved
<1>3. PICK i : i = oid[t]
  OBVIOUS
<1>4. Flying(t) /\ Flying(t)'
  BY <1>1, <1>2 DEF Flying
<1>5. /\ i \in OrderId /\ Numbered(i) /\ Canceled(i) /\ Matching(t, i) /\ i <= id
      /\ mine[t] = placed[i] /\ mine[t] \in Request
  BY <1>3, <1>4, FlightFacts
<1>6. PICK e \in Request : /\ e = Entry(i) /\ e # NoOrder
                           /\ orders[i] # NoOrder => e = orders[i]
                           /\ orders[i] = NoOrder => e.qty = 0 /\ e.dir \in Side
  BY <1>0, <1>5, EntryFacts
<1>7. orders' \in [OrderId -> Request \cup {NoOrder}] /\ orders'[i] = e
      /\ \A j \in OrderId \ {i} : orders'[j] = orders[j]
  BY <1>0, <1>1, <1>3, <1>5, <1>6 DEF TypeOK
<1>8. TypeOK'
  BY <1>0, <1>1, <1>2, <1>7 DEF TypeOK, Moved
<1>9. e.qty \in Nat
  BY <1>6 DEF Request
<1>10. cancels[i] = 0 => orders[i] # NoOrder
  BY <1>5 DEF Numbered
<1>11. Matching(t, i)'
  BY <1>1, <1>2, <1>5, <1>6, <1>7, <1>9, <1>10 DEF Matching
<1>12. e.dir \in Side
  BY <1>5, <1>6 DEF Numbered
<1>13. cancels[i] > 0 => e.qty = 0
  BY <1>5, <1>6 DEF Canceled
<1> QED
  BY <1>1, <1>2, <1>3, <1>4, <1>6, <1>7, <1>8, <1>11, <1>12, <1>13, OwnStep

\* Where a scan that can still trade does not stop, nothing fits.
LEMMA NothingFits ==
  ASSUME IInv, NEW t \in Sessions, Flying(t), Stops(t) = {}, orders[oid[t]] # NoOrder,
         cnt[t] < orders[oid[t]].qty,
         NEW r \in book[mine[t].stock][Opp(mine[t].dir)]
  PROVE  ~Compatible(orders[oid[t]], orders[r])
<1> DEFINE fits == {q \in book[mine[t].stock][Opp(mine[t].dir)] :
                      orders[q] # NoOrder /\ Compatible(orders[oid[t]], orders[q])}
<1>1. mine[t].stock \in AnyStock /\ Opp(mine[t].dir) \in Side
  BY FlightFacts, OppFacts
<1>2. orders[r] # NoOrder /\ fits \subseteq OrderId
  BY <1>1 DEF IInv, TypeOK, Booked
<1>3. Stops(t) = {q \in fits : cnt[t] < orders[oid[t]].qty /\ \A p \in fits : q <= p}
  BY DEF Stops
<1> HIDE DEF fits
<1>4. ASSUME fits # {} PROVE FALSE
  <2>1. fits \subseteq Nat
    BY <1>2 DEF OrderId
  <2>2. PICK q \in fits : \A p \in fits : q <= p
    BY <1>4, <2>1, LeastNatural
  <2> QED
    BY <1>3, <2>2
<1> QED
  BY <1>2, <1>4 DEF fits

\* Which orders can trade does not depend on their quantities.
LEMMA CompatibleFacts ==
  ASSUME NEW a, NEW b, NEW r, a.client = b.client, a.dir = b.dir, a.price = b.price
  PROVE  /\ Compatible(a, r) <=> Compatible(b, r)
         /\ a.dir \in Side /\ r.dir \in Side /\ a.dir # r.dir =>
              (Compatible(r, a) <=> Compatible(r, b)) /\ (Compatible(a, r) <=> Compatible(r, a))
BY DEF Compatible, Side

\* The loop is over: the order has left what was placed less what it traded.
LEMMA EndScanStep ==
  ASSUME IInv, NEW t \in Sessions, EndScan(t)
  PROVE  IInv'
<1>0. TypeOK /\ t \in Threads
  BY ThreadFacts DEF IInv
<1>1. /\ pc[t] = "scan" /\ Stops(t) = {} /\ orders[oid[t]] # NoOrder
      /\ orders' = [orders EXCEPT ![oid[t]] =
                      [orders[oid[t]] EXCEPT !.qty = @ - cnt[t],
                                             !.price = Repriced(orders[oid[t]])]]
      /\ Goto(t, "rest") /\ UNCHANGED locals
      /\ UNCHANGED <<id, book, held, listed, streams, fault,
                     placed, filled, told, cancels, overlapped>>
  BY <1>0, AtFacts DEF EndScan, history
<1>2. Moved(t) /\ pc'[t] = "rest" /\ oid' = oid /\ mine' = mine /\ cnt' = cnt
  BY <1>0, <1>1, GotoFacts
<1>3. PICK i : i = oid[t]
  OBVIOUS
<1>4. Flying(t) /\ Flying(t)'
  BY <1>1, <1>2 DEF Flying
<1>5. /\ i \in OrderId /\ Numbered(i) /\ Canceled(i) /\ Matching(t, i) /\ i <= id
      /\ mine[t] = placed[i] /\ mine[t] \in Request /\ orders[i] \in Request
  BY <1>1, <1>3, <1>4, FlightFacts
<1>6. /\ cnt[t] \in Nat /\ orders[i].qty \in Nat /\ cnt[t] <= orders[i].qty
      /\ Repriced(orders[i]) \in Int /\ mine[t].qty \in Nat /\ filled[i] \in Nat
  BY <1>0, <1>1, <1>3, <1>5 DEF Matching, TypeOK, Repriced, Request
<1>7. PICK e : e = [orders[i] EXCEPT !.qty = orders[i].qty - cnt[t],
                                     !.price = Repriced(orders[i])]
  OBVIOUS
<1>8. /\ e \in Request /\ e # NoOrder
      /\ e.qty = orders[i].qty - cnt[t] /\ e.price = Repriced(orders[i])
      /\ e.client = orders[i].client /\ e.stock = orders[i].stock
      /\ e.dir = orders[i].dir /\ e.kind = orders[i].kind
  <2>1. PICK n \in Nat : n = orders[i].qty - cnt[t]
    BY <1>6
  <2>2. PICK p \in Int : p = Repriced(orders[i])
    BY <1>6
  <2>3. PICK o \in Request : o = orders[i]
    BY <1>5
  <2>4. e = [o EXCEPT !.qty = n, !.price = p]
    BY <1>7, <2>1, <2>2, <2>3
  <2>5. /\ e \in Request /\ e.qty = n /\ e.price = p
        /\ e.client = o.client /\ e.stock = o.stock /\ e.dir = o.dir /\ e.kind = o.kind
    BY <2>4 DEF Request
  <2> QED
    BY <2>1, <2>2, <2>3, <2>5
<1>14. orders' \in [OrderId -> Request \cup {NoOrder}] /\ orders'[i] = e
      /\ \A j \in OrderId \ {i} : orders'[j] = orders[j]
  <2>1. orders' = [orders EXCEPT ![i] = e]
    BY <1>1, <1>3, <1>7
  <2> QED
    BY <1>0, <1>5, <1>8, <2>1 DEF TypeOK
<1>9. TypeOK'
  BY <1>0, <1>1, <1>2, <1>14 DEF TypeOK, Moved
<1>10. Matching(t, i)'
  BY <1>1, <1>2, <1>5, <1>6, <1>8, <1>14 DEF Matching
<1>11. e.dir \in Side
  BY <1>1, <1>3, <1>5, <1>8 DEF Numbered
<1>12. cancels[i] > 0 => e.qty = 0
  BY <1>1, <1>3, <1>5, <1>6, <1>8 DEF Canceled
<1>13. ASSUME e.qty > 0, NEW r \in book[mine[t].stock][Opp(mine[t].dir)], e.kind = "LIMIT"
       PROVE  ~Compatible(e, orders[r])
  <2>1. ~Compatible(orders[i], orders[r])
    BY <1>1, <1>3, <1>4, <1>6, <1>8, <1>13, NothingFits
  <2>2. e.price = orders[i].price
    BY <1>8, <1>13 DEF Repriced
  <2> QED
    BY <1>8, <2>1, <2>2, CompatibleFacts
<1>15. /\ orders'[i] # NoOrder => orders'[i].dir \in Side
       /\ orders[i] # NoOrder =>
            /\ orders'[i] # NoOrder
            /\ orders'[i].stock = orders[i].stock /\ orders'[i].dir = orders[i].dir
       /\ cancels[i] > 0 /\ orders'[i] # NoOrder => orders'[i].qty = 0
  BY <1>8, <1>11, <1>12, <1>14
<1>16. orders'[i].qty > 0 =>
         \A r \in book[mine[t].stock][Opp(mine[t].dir)] :
             orders'[i].kind = "LIMIT" /\ orders[r].kind = "LIMIT" =>
               ~Compatible(orders'[i], orders[r])
  BY <1>13, <1>14
<1> QED
  BY <1>1, <1>2, <1>3, <1>4, <1>9, <1>10, <1>14, <1>15, <1>16, OwnStep

\* The resting order at which a scan stops, and how much is traded there.
LEMMA FillFacts ==
  ASSUME IInv, NEW t \in Sessions, pc[t] = "scan", NEW i, i = oid[t], orders[i] # NoOrder,
         NEW r \in Stops(t), NEW n, n = Least(orders[r].qty, orders[i].qty - cnt[t])
  PROVE  /\ r \in book[mine[t].stock][Opp(mine[t].dir)] /\ r \in OrderId /\ r # i
         /\ mine[t].stock \in AnyStock /\ Opp(mine[t].dir) \in Side
         /\ orders[r] \in Request /\ orders[r] # NoOrder
         /\ orders[r].stock = mine[t].stock /\ orders[r].dir = Opp(mine[t].dir)
         /\ told[r] = orders[r].qty /\ cancels[r] = 0 /\ ~Flies(r) /\ r <= id
         /\ orders[r].qty = placed[r].qty - filled[r] /\ filled[r] <= placed[r].qty
         /\ cancels[i] = 0 /\ orders[i].qty = placed[i].qty /\ filled[i] = cnt[t]
         /\ n \in Nat /\ n > 0 /\ n <= orders[r].qty /\ n <= orders[i].qty - cnt[t]
         /\ placed[r].qty \in Nat /\ placed[i].qty \in Nat /\ cnt[t] \in Nat
<1>1. Flying(t)
  BY DEF Flying
<1>2. /\ i \in OrderId /\ Canceled(i) /\ Matching(t, i) /\ Numbered(i) /\ i <= id
      /\ mine[t].stock \in AnyStock /\ Opp(mine[t].dir) \in Side
      /\ orders[i] \in Request
      /\ \A s \in AnyStock, d \in Side : i \notin book[s][d]
  BY <1>1, FlightFacts, OppFacts
<1>3. r \in book[mine[t].stock][Opp(mine[t].dir)] /\ cnt[t] < orders[i].qty
  BY DEF Stops
<1>4. r \in OrderId /\ orders[r] \in Request \cup {NoOrder}
  <2>1. /\ book \in [AnyStock -> [Side -> SUBSET OrderId]]
        /\ orders \in [OrderId -> Request \cup {NoOrder}]
    BY DEF IInv, TypeOK
  <2> QED
    BY <1>2, <1>3, <2>1
<1>5. /\ orders[r] # NoOrder /\ orders[r].qty > 0
      /\ orders[r].stock = mine[t].stock /\ orders[r].dir = Opp(mine[t].dir)
      /\ told[r] = orders[r].qty /\ cancels[r] = 0 /\ ~Flies(r)
  BY <1>2, <1>3 DEF IInv, Booked
<1>6. r <= id /\ placed[r] \in Request
  BY <1>4, <1>5 DEF IInv, TypeOK, Numbered, OrderId
<1>7. orders[r].qty = placed[r].qty - filled[r] /\ filled[r] <= placed[r].qty
  BY <1>4, <1>5, <1>6 DEF IInv, Left
<1>8. cnt[t] \in Nat /\ orders[r].qty \in Nat /\ orders[i].qty \in Nat
  BY <1>1, <1>2, <1>4, <1>5, FlightFacts DEF IInv, TypeOK, Request
<1>9. cancels[i] = 0
  BY <1>2, <1>3, <1>8 DEF Canceled, IInv, TypeOK
<1>10. orders[i].qty = placed[i].qty /\ filled[i] = cnt[t]
  BY <1>2, <1>9 DEF Matching
<1>11. n \in Nat /\ n > 0 /\ n <= orders[r].qty /\ n <= orders[i].qty - cnt[t]
  BY <1>3, <1>5, <1>8 DEF Least
<1>12. placed[r].qty \in Nat /\ placed[i].qty \in Nat
  BY <1>2, <1>6, <1>8, <1>10 DEF Request
<1> QED
  BY <1>2, <1>3, <1>4, <1>5, <1>6, <1>7, <1>8, <1>9, <1>10, <1>11, <1>12

\* What a trade changes.
LEMMA FillEffect ==
  ASSUME IInv, NEW t \in Sessions, NEW r \in OrderId, Fill(t, r), NEW i, i = oid[t],
         NEW n, n = Least(orders[r].qty, orders[i].qty - cnt[t])
  PROVE  /\ pc[t] = "scan" /\ orders[i] # NoOrder /\ r \in Stops(t) /\ fault = "none"
         /\ UNCHANGED <<id, held, listed, streams, pc, oid, mine, fault,
                        placed, cancels, overlapped>>
         /\ cnt' = [cnt EXCEPT ![t] = cnt[t] + n]
         /\ orders' \in [OrderId -> Request \cup {NoOrder}]
         /\ \A j \in OrderId \ {r} : orders'[j] = orders[j]
         /\ orders'[r] \in Request /\ orders'[r] # NoOrder /\ orders'[r].qty = orders[r].qty - n
         /\ orders'[r].client = orders[r].client /\ orders'[r].stock = orders[r].stock
         /\ orders'[r].dir = orders[r].dir /\ orders'[r].kind = orders[r].kind
         /\ orders'[r].price = orders[r].price
         /\ book' = IF orders[r].qty = n
                    THEN [book EXCEPT ![mine[t].stock][Opp(mine[t].dir)] = @ \ {r}]
                    ELSE book
         /\ filled' \in [OrderId -> Nat] /\ told' \in [OrderId -> Nat]
         /\ filled'[i] = filled[i] + n /\ filled'[r] = filled[r] + n
         /\ told'[i] = orders[i].qty - cnt[t] - n /\ told'[r] = orders[r].qty - n
         /\ \A j \in OrderId \ {i, r} : filled'[j] = filled[j] /\ told'[j] = told[j]
<1>1. /\ pc[t] = "scan" /\ orders[i] # NoOrder /\ r \in Stops(t) /\ fault = "none"
      /\ UNCHANGED <<id, held, listed, streams, pc, oid, mine, fault, placed, cancels, overlapped>>
  BY ThreadFacts, AtFacts DEF Fill
<1>2. /\ cnt' = [cnt EXCEPT ![t] = cnt[t] + n]
      /\ orders' = [orders EXCEPT ![r].qty = @ - n]
      /\ book' = IF orders[r].qty = n
                 THEN [book EXCEPT ![mine[t].stock][Opp(mine[t].dir)] = @ \ {r}]
                 ELSE book
      /\ filled' = [filled EXCEPT ![i] = @ + n, ![r] = @ + n]
      /\ told' = [told EXCEPT ![i] = orders[i].qty - cnt[t] - n, ![r] = orders[r].qty - n]
  BY DEF Fill
<1>3. /\ r # i /\ orders[r] \in Request /\ i \in OrderId /\ t \in Threads
      /\ n \in Nat /\ n <= orders[r].qty /\ n <= orders[i].qty - cnt[t]
      /\ orders[i].qty \in Nat /\ orders[r].qty \in Nat /\ cnt[t] \in Nat
  <2>1. Flying(t)
    BY <1>1 DEF Flying
  <2> QED
    BY <1>1, <2>1, FillFacts, FlightFacts DEF Request
<1>4. PICK x \in Nat : x = orders[r].qty - n
  BY <1>3
<1>5. PICK y \in Nat : y = orders[i].qty - cnt[t] - n
  BY <1>3
<1>6. PICK o \in Request : o = orders[r]
  BY <1>3
<1>7. PICK e : e = [o EXCEPT !.qty = x]
  OBVIOUS
<1>8. /\ e \in Request /\ e # NoOrder /\ e.qty = x /\ e.price = o.price /\ e.client = o.client
      /\ e.stock = o.stock /\ e.dir = o.dir /\ e.kind = o.kind
  BY <1>7 DEF Request
<1>9. orders' = [orders EXCEPT ![r] = e]
  BY <1>2, <1>4, <1>6, <1>7
<1>10. orders' \in [OrderId -> Request \cup {NoOrder}] /\ orders'[r] = e
       /\ \A j \in OrderId \ {r} : orders'[j] = orders[j]
  BY <1>8, <1>9 DEF IInv, TypeOK
<1>11. /\ filled' \in [OrderId -> Nat]
       /\ filled'[i] = filled[i] + n /\ filled'[r] = filled[r] + n
       /\ \A j \in OrderId \ {i, r} : filled'[j] = filled[j]
  <2>1. filled \in [OrderId -> Nat]
    BY DEF IInv, TypeOK
  <2>2. PICK f : f = [filled EXCEPT ![i] = filled[i] + n]
    OBVIOUS
  <2>3. f \in [OrderId -> Nat]
    BY <1>3, <2>1, <2>2
  <2>4. filled' = [f EXCEPT ![r] = f[r] + n]
    BY <1>2, <1>3, <2>1, <2>2
  <2> QED
    BY <1>3, <2>1, <2>2, <2>3, <2>4
<1>12. /\ told' \in [OrderId -> Nat] /\ told'[i] = y /\ told'[r] = x
       /\ \A j \in OrderId \ {i, r} : told'[j] = told[j]
  <2>1. told \in [OrderId -> Nat]
    BY DEF IInv, TypeOK
  <2>2. told' = [told EXCEPT ![i] = y, ![r] = x]
    BY <1>2, <1>4, <1>5
  <2> QED
    BY <1>3, <2>1, <2>2
<1> QED
  BY <1>1, <1>2, <1>4, <1>5, <1>6, <1>8, <1>10, <1>11, <1>12

\* A trade: both orders keep what was placed less what was filled, and one that is
\* exhausted leaves its set.
LEMMA FillStep ==
  ASSUME IInv, NEW t \in Sessions, NEW r \in OrderId, Fill(t, r)
  PROVE  IInv'
<1>0. TypeOK /\ t \in Threads
  BY ThreadFacts DEF IInv
<1>1. PICK i : i = oid[t]
  OBVIOUS
<1>2. PICK n : n = Least(orders[r].qty, orders[i].qty - cnt[t])
  OBVIOUS
<1>3. /\ pc[t] = "scan" /\ orders[i] # NoOrder /\ r \in Stops(t)
      /\ UNCHANGED <<id, held, listed, streams, pc, oid, mine, fault,
                     placed, cancels, overlapped>>
      /\ cnt' = [cnt EXCEPT ![t] = cnt[t] + n]
      /\ orders' \in [OrderId -> Request \cup {NoOrder}]
      /\ \A j \in OrderId \ {r} : orders'[j] = orders[j]
      /\ orders'[r] \in Request /\ orders'[r] # NoOrder /\ orders'[r].qty = orders[r].qty - n
      /\ orders'[r].client = orders[r].client /\ orders'[r].stock = orders[r].stock
      /\ orders'[r].dir = orders[r].dir /\ orders'[r].kind = orders[r].kind
      /\ orders'[r].price = orders[r].price
      /\ book' = IF orders[r].qty = n
                 THEN [book EXCEPT ![mine[t].stock][Opp(mine[t].dir)] = @ \ {r}]
                 ELSE book
      /\ filled' \in [OrderId -> Nat] /\ told' \in [OrderId -> Nat]
      /\ filled'[i] = filled[i] + n /\ filled'[r] = filled[r] + n
      /\ told'[i] = orders[i].qty - cnt[t] - n /\ told'[r] = orders[r].qty - n
      /\ \A j \in OrderId \ {i, r} : filled'[j] = filled[j] /\ told'[j] = told[j]
  BY <1>1, <1>2, FillEffect
<1>4. /\ r \in book[mine[t].stock][Opp(mine[t].dir)] /\ r # i
      /\ mine[t].stock \in AnyStock /\ Opp(mine[t].dir) \in Side
      /\ orders[r] \in Request /\ orders[r] # NoOrder
      /\ orders[r].stock = mine[t].stock /\ orders[r].dir = Opp(mine[t].dir)
      /\ told[r] = orders[r].qty /\ cancels[r] = 0 /\ ~Flies(r) /\ r <= id
      /\ orders[r].qty = placed[r].qty - filled[r] /\ filled[r] <= placed[r].qty
      /\ cancels[i] = 0 /\ orders[i].qty = placed[i].qty /\ filled[i] = cnt[t]
      /\ n \in Nat /\ n > 0 /\ n <= orders[r].qty /\ n <= orders[i].qty - cnt[t]
      /\ placed[r].qty \in Nat /\ placed[i].qty \in Nat /\ cnt[t] \in Nat
  BY <1>1, <1>2, <1>3, FillFacts
<1>5. /\ Flying(t) /\ i \in OrderId /\ Flies(i) /\ i <= id
      /\ \A u \in Sessions : Flying(u) /\ oid[u] = i => u = t
      /\ Numbered(i) /\ Numbered(r) /\ Left(i) /\ Matching(t, i)
  BY <1>1, <1>3, FlightFacts DEF Flying, IInv
<1>6. /\ cnt'[t] = cnt[t] + n /\ \A u \in Threads \ {t} : cnt'[u] = cnt[u]
      /\ cnt' \in [Threads -> Nat]
  BY <1>0, <1>3, <1>4 DEF TypeOK
<1>7. /\ book' \in [AnyStock -> [Side -> SUBSET OrderId]]
      /\ \A s \in AnyStock, d \in Side : book'[s][d] \subseteq book[s][d]
      /\ \A s \in AnyStock, d \in Side : \A j \in book[s][d] \ {r} : j \in book'[s][d]
      /\ \A s \in AnyStock, d \in Side : r \in book'[s][d] => orders[r].qty # n
      /\ orders[r].qty # n => book' = book
  <2>1. book \in [AnyStock -> [Side -> SUBSET OrderId]]
    BY <1>0 DEF TypeOK
  <2>2. CASE orders[r].qty # n
    BY <1>3, <2>1, <2>2
  <2>3. CASE orders[r].qty = n
    <3>1. PICK m : m = [book[mine[t].stock] EXCEPT ![Opp(mine[t].dir)] = @ \ {r}]
      OBVIOUS
    <3>2. /\ m \in [Side -> SUBSET OrderId]
          /\ m[Opp(mine[t].dir)] = book[mine[t].stock][Opp(mine[t].dir)] \ {r}
          /\ \A d \in Side \ {Opp(mine[t].dir)} : m[d] = book[mine[t].stock][d]
      BY <1>4, <2>1, <3>1
    <3>3. book' = [book EXCEPT ![mine[t].stock] = m]
      BY <1>3, <2>3, <3>1
    <3>4. \A s \in AnyStock, d \in Side :
            r \in book[s][d] => s = mine[t].stock /\ d = Opp(mine[t].dir)
      BY <1>4 DEF IInv, Booked
    <3> QED
      BY <1>4, <2>1, <2>3, <3>2, <3>3, <3>4
  <2> QED
    BY <2>2, <2>3
<1>8. TypeOK'
  BY <1>0, <1>3, <1>6, <1>7 DEF TypeOK
<1>9. \A u \in Sessions : Flying(u)' <=> Flying(u)
  BY <1>3 DEF Flying
<1>10. \A j : Flies(j)' <=> Flies(j)
  BY <1>3, <1>9 DEF Flies
<1>11. Roles' /\ Room'
  BY <1>3 DEF IInv, Roles, Legal, Room, Creators
<1>12. Flights'
  BY <1>3, <1>9 DEF IInv, Flights
<1>13. \A j \in OrderId : /\ orders'[j] = NoOrder <=> orders[j] = NoOrder
                          /\ orders[j] # NoOrder =>
                               /\ orders'[j].stock = orders[j].stock
                               /\ orders'[j].dir = orders[j].dir
                               /\ orders'[j].client = orders[j].client
                               /\ orders'[j].kind = orders[j].kind
                               /\ orders'[j].price = orders[j].price
  BY <1>3, <1>4
<1>14. Erasing'
  <2> SUFFICES ASSUME NEW u \in Cancelers, pc[u] = "erase"
               PROVE  /\ orders'[oid[u]] # NoOrder
                      /\ mine[u].stock = orders'[oid[u]].stock
                      /\ mine[u].dir = orders'[oid[u]].dir
                      /\ \A v \in Cancelers : pc[v] = "erase" => v = u
    BY <1>3 DEF Erasing
  <2>1. /\ orders[oid[u]] # NoOrder /\ oid[u] \in OrderId
        /\ mine[u].stock = orders[oid[u]].stock /\ mine[u].dir = orders[oid[u]].dir
        /\ \A v \in Cancelers : pc[v] = "erase" => v = u
    BY DEF IInv, Erasing, Roles
  <2> QED
    BY <1>13, <2>1
<1>15. \A j \in OrderId : Numbered(j)'
  <2> SUFFICES ASSUME NEW j \in OrderId PROVE Numbered(j)'
    OBVIOUS
  <2>1. Numbered(j)
    BY DEF IInv
  <2>2. j > id => filled'[j] = filled[j]
    BY <1>0, <1>3, <1>4, <1>5 DEF TypeOK, OrderId
  <2> QED
    BY <1>3, <1>13, <2>1, <2>2 DEF Numbered, Legal
<1>16. \A j \in OrderId : Left(j)' /\ Canceled(j)'
  <2> SUFFICES ASSUME NEW j \in OrderId PROVE Left(j)' /\ Canceled(j)'
    OBVIOUS
  <2>1. Left(j) /\ Canceled(j)
    BY DEF IInv
  <2>2. CASE j \notin {i, r}
    <3>1. orders[j] # NoOrder => orders[j].stock \in AnyStock
      BY <1>0 DEF TypeOK, Request, AnyStock
    <3>2. orders[j] # NoOrder => orders[j].dir \in Side
      BY DEF IInv, Numbered
    <3>3. Left(j)'
      BY <1>3, <1>7, <1>10, <2>1, <2>2, <3>1, <3>2 DEF Left
    <3>4. Canceled(j)'
      BY <1>3, <1>10, <2>1, <2>2 DEF Canceled
    <3> QED
      BY <3>3, <3>4
  <2>3. CASE j = i
    <3>1. filled'[i] <= placed[i].qty
      BY <1>3, <1>4
    <3> QED
      BY <1>3, <1>4, <1>5, <1>10, <2>1, <2>3, <3>1 DEF Left, Canceled
  <2>4. CASE j = r
    <3>1. filled'[r] <= placed[r].qty /\ orders'[r].qty = placed[r].qty - filled'[r]
      <4>1. filled[r] \in Nat
        BY <1>0 DEF TypeOK
      <4> QED
        BY <1>3, <1>4, <4>1
    <3>2. orders'[r].qty > 0 => r \in book'[orders'[r].stock][orders'[r].dir]
      <4>1. orders'[r].qty > 0 => orders[r].qty # n
        BY <1>3, <1>4
      <4> QED
        BY <1>3, <1>4, <1>7, <4>1
    <3> QED
      BY <1>3, <1>4, <1>10, <2>1, <2>4, <3>1, <3>2 DEF Left, Canceled
  <2> QED
    BY <2>2, <2>3, <2>4
<1>17. Booked'
  <2> SUFFICES ASSUME NEW s \in AnyStock, NEW d \in Side, NEW j \in book'[s][d]
               PROVE  /\ orders'[j] # NoOrder
                      /\ orders'[j].stock = s /\ orders'[j].dir = d /\ orders'[j].qty > 0
                      /\ streams[j] \in Sessions /\ told'[j] = orders'[j].qty
                      /\ cancels[j] = 0 /\ ~Flies(j)'
    BY <1>3 DEF Booked
  <2>1. j \in book[s][d] /\ j \in OrderId
    BY <1>7
  <2>2. /\ orders[j] # NoOrder
        /\ orders[j].stock = s /\ orders[j].dir = d /\ orders[j].qty > 0
        /\ streams[j] \in Sessions /\ told[j] = orders[j].qty
        /\ cancels[j] = 0 /\ ~Flies(j)
    BY <2>1 DEF IInv, Booked
  <2>3. j # i
    BY <1>5, <2>2
  <2>4. CASE j # r
    BY <1>3, <1>10, <2>1, <2>2, <2>3, <2>4
  <2>5. CASE j = r
    <3>1. orders[r].qty # n /\ orders[r].qty \in Nat
      BY <1>4, <1>7, <2>5 DEF Request
    <3>2. orders'[r].qty > 0
      BY <1>3, <1>4, <3>1
    <3> QED
      BY <1>3, <1>10, <2>2, <2>5, <3>2
  <2> QED
    BY <2>4, <2>5
<1>18. \A u \in Sessions : Flying(u)' => Matching(u, oid[u])'
  <2> SUFFICES ASSUME NEW u \in Sessions, Flying(u) PROVE Matching(u, oid[u])'
    BY <1>9
  <2>1. CASE u = t
    <3>1. filled'[i] = cnt'[t] /\ cnt'[t] <= orders'[i].qty /\ told'[i] = placed[i].qty - filled'[i]
      BY <1>3, <1>4, <1>5, <1>6
    <3> QED
      BY <1>1, <1>3, <1>4, <1>5, <1>6, <2>1, <3>1 DEF Matching
  <2>2. CASE u # t
    <3>1. /\ Matching(u, oid[u]) /\ oid[u] \in OrderId /\ Flies(oid[u]) /\ u \in Threads
          /\ oid[u] # i /\ oid[u] # r
      BY <1>4, <1>5, <2>2, FlightFacts
    <3> QED
      BY <1>3, <1>6, <2>2, <3>1 DEF Matching
  <2> QED
    BY <2>1, <2>2
<1>19. Alone'
  <2> SUFFICES ASSUME ~overlapped
               PROVE  /\ OneBusy' /\ Mutexes' /\ AllApart'
                      /\ fault \in {"none", "dangling_stream"}
    BY <1>3 DEF Alone
  <2>1. OneBusy /\ Mutexes /\ AllApart /\ fault \in {"none", "dangling_stream"}
    BY DEF IInv, Alone
  <2>2. OneBusy'
    BY <1>3, <2>1 DEF OneBusy, Busy
  <2>3. Mutexes'
    BY <1>3, <1>13, <2>1 DEF Mutexes
  <2>4. \A s \in AnyStock : Apart(book[s]["SELL"], book[s]["BUY"])'
    <3> SUFFICES ASSUME NEW s \in AnyStock, NEW a \in book'[s]["SELL"], NEW b \in book'[s]["BUY"],
                        orders'[a].kind = "LIMIT", orders'[b].kind = "LIMIT"
                 PROVE  ~Compatible(orders'[a], orders'[b])
      BY DEF Apart
    <3>1. a \in book[s]["SELL"] /\ b \in book[s]["BUY"] /\ a \in OrderId /\ b \in OrderId
      BY <1>7, OppFacts
    <3>2. orders[a] # NoOrder /\ orders[b] # NoOrder
      BY <3>1, OppFacts DEF IInv, Booked
    <3>3. ~Compatible(orders[a], orders[b])
      BY <1>13, <2>1, <3>1, <3>2 DEF AllApart, Apart
    <3> QED
      BY <1>13, <3>1, <3>2, <3>3 DEF Compatible
  <2>5. \A u \in Sessions : pc[u] # "rest"
    BY <1>0, <1>3, <2>1, ThreadFacts DEF OneBusy, Busy
  <2> QED
    BY <1>3, <2>1, <2>2, <2>3, <2>4, <2>5 DEF AllApart
<1> QED
  BY <1>8, <1>11, <1>12, <1>14, <1>15, <1>16, <1>17, <1>18, <1>19 DEF IInv

\* An order gets its number and its entry.
LEMMA CreateOrderStep ==
  ASSUME IInv, NEW t \in Sessions, CreateOrder(t)
  PROVE  IInv'
<1>0. TypeOK /\ t \in Threads /\ Roles /\ Room
  BY ThreadFacts DEF IInv
<1>1. /\ pc[t] = "create" /\ pc' = [pc EXCEPT ![t] = "list"]
      /\ id' = id + 1 /\ oid' = [oid EXCEPT ![t] = id + 1]
      /\ orders' = [orders EXCEPT ![id + 1] = mine[t]]
      /\ placed' = [placed EXCEPT ![id + 1] = mine[t]]
      /\ UNCHANGED <<book, held, listed, streams, mine, cnt, fault,
                     filled, told, cancels, overlapped>>
  BY <1>0, AtFacts DEF CreateOrder, Goto
<1>2. id + 1 \in OrderId /\ id \in Nat
  <2>1. Cardinality(Creators) \in Nat /\ t \in Creators
    BY <1>0, <1>1, FS_CardinalityType DEF Room, Creators
  <2>2. Cardinality(Creators) # 0
    BY <1>0, <2>1, FS_EmptySet DEF Room
  <2> QED
    BY <1>0, <2>1, <2>2 DEF Room, TypeOK, OrderId
<1>3. PICK i \in OrderId : i = id + 1
  BY <1>2
<1>4. /\ mine[t] \in Request /\ mine[t] # NoOrder /\ Legal(mine[t])
      /\ mine[t].dir \in Side /\ mine[t].qty \in Nat
  BY <1>0, <1>1 DEF TypeOK, Roles, Legal, Request
<1>5. Moved(t) /\ pc'[t] = "list" /\ oid'[t] = i
  BY <1>0, <1>1, <1>3 DEF TypeOK, Moved, OrderId
<1>6. /\ orders' \in [OrderId -> Request \cup {NoOrder}] /\ orders'[i] = mine[t]
      /\ placed' \in [OrderId -> Request \cup {NoOrder}] /\ placed'[i] = mine[t]
      /\ \A j \in OrderId \ {i} : orders'[j] = orders[j] /\ placed'[j] = placed[j]
  BY <1>0, <1>1, <1>3, <1>4 DEF TypeOK
<1>7. TypeOK'
  BY <1>0, <1>1, <1>3, <1>5, <1>6 DEF TypeOK, Moved, OrderId
<1>8. /\ orders[i] = NoOrder /\ filled[i] = 0 /\ cancels[i] = 0
      /\ \A s \in AnyStock, d \in Side : i \notin book[s][d]
  BY <1>2, <1>3 DEF IInv, Numbered, Booked
<1>9. \A u \in Sessions : /\ Flying(u) => oid[u] \in OrderId /\ oid[u] # i
                          /\ Flying(u) <=> Flying(u)' /\ u # t
                          /\ u # t => oid'[u] = oid[u] /\ pc'[u] = pc[u] /\ cnt'[u] = cnt[u]
  <2>1. \A u \in Sessions : Flying(u) => oid[u] \in OrderId /\ oid[u] # i
    BY <1>2, <1>3, FlightFacts
  <2>2. ~Flying(t) /\ Flying(t)'
    BY <1>1, <1>5 DEF Flying
  <2>3. \A u \in Sessions \ {t} : oid'[u] = oid[u] /\ pc'[u] = pc[u] /\ cnt'[u] = cnt[u]
    BY <1>5, ThreadFacts DEF Moved
  <2>4. \A u \in Sessions : Flying(u) <=> Flying(u)' /\ u # t
    BY <2>2, <2>3 DEF Flying
  <2> QED
    BY <2>1, <2>3, <2>4
<1>10. Flies(i)' /\ ~Flies(i) /\ \A j \in OrderId \ {i} : Flies(j)' <=> Flies(j)
  BY <1>1, <1>5, <1>9 DEF Flies, Flying
<1>11. Roles'
  BY <1>0, <1>5, OthersFacts
<1>12. Room'
  <2>1. Creators' = Creators \ {t} /\ t \in Creators
    BY <1>0, <1>1, <1>5 DEF Creators, Moved
  <2>2. IsFiniteSet(Creators') /\ Cardinality(Creators') = Cardinality(Creators) - 1
    BY <1>0, <2>1, FS_RemoveElement DEF Room
  <2>3. Cardinality(Creators) \in Nat
    BY <1>0, FS_CardinalityType DEF Room
  <2> QED
    BY <1>0, <1>1, <1>2, <2>2, <2>3 DEF Room
<1>13. Flights'
  <2> SUFFICES ASSUME NEW u \in Sessions, Flying(u)'
               PROVE  /\ oid'[u] \in 1 .. id' /\ mine'[u] = placed'[oid'[u]]
                      /\ \A v \in Sessions : Flying(v)' /\ oid'[v] = oid'[u] => v = u
    BY DEF Flights
  <2>1. CASE u = t
    BY <1>1, <1>2, <1>3, <1>5, <1>6, <1>9, <2>1 DEF Flying
  <2>2. CASE u # t
    <3>1. Flying(u) /\ oid'[u] = oid[u] /\ oid[u] # i /\ oid[u] \in OrderId
      BY <1>5, <2>2, ThreadFacts, <1>9 DEF Moved, Flying
    <3>2. /\ oid[u] \in 1 .. id /\ mine[u] = placed[oid[u]]
          /\ \A v \in Sessions : Flying(v) /\ oid[v] = oid[u] => v = u
      BY <3>1 DEF IInv, Flights
    <3>3. \A v \in Sessions : Flying(v)' /\ oid'[v] = oid'[u] => Flying(v) /\ oid[v] = oid[u]
      BY <1>5, <3>1, ThreadFacts DEF Moved, Flying
    <3> QED
      BY <1>1, <1>2, <1>6, <3>1, <3>2, <3>3
  <2> QED
    BY <2>1, <2>2

<1>14. Erasing'
  <2> SUFFICES ASSUME NEW u \in Cancelers, pc[u] = "erase"
               PROVE  /\ orders'[oid[u]] # NoOrder
                      /\ mine[u].stock = orders'[oid[u]].stock
                      /\ mine[u].dir = orders'[oid[u]].dir
    BY <1>0, <1>5, OthersFacts
  <2>1. /\ orders[oid[u]] # NoOrder /\ oid[u] \in OrderId
        /\ mine[u].stock = orders[oid[u]].stock /\ mine[u].dir = orders[oid[u]].dir
    BY DEF IInv, Erasing, Roles
  <2> QED
    BY <1>6, <1>8, <2>1
<1>15. \A j \in OrderId : Numbered(j)' /\ Left(j)' /\ Canceled(j)'
  <2> SUFFICES ASSUME NEW j \in OrderId PROVE Numbered(j)' /\ Left(j)' /\ Canceled(j)'
    OBVIOUS
  <2>1. Numbered(j) /\ Left(j) /\ Canceled(j) /\ (j # i => (j <= id <=> j <= id'))
    BY <1>1, <1>2, <1>3 DEF IInv, OrderId
  <2>2. CASE j # i
    <3>1. Numbered(j)'
      BY <1>1, <1>2, <1>6, <2>1, <2>2 DEF Numbered, Legal, OrderId
    <3>2. Left(j)'
      BY <1>1, <1>2, <1>6, <1>10, <2>1, <2>2 DEF Left
    <3>3. Canceled(j)'
      BY <1>1, <1>6, <1>10, <2>1, <2>2 DEF Canceled
    <3> QED
      BY <3>1, <3>2, <3>3
  <2>3. CASE j = i
    <3>1. Numbered(i)'
      BY <1>1, <1>3, <1>4, <1>6 DEF Numbered, Legal, OrderId
    <3>2. Left(i)'
      BY <1>1, <1>4, <1>6, <1>8, <1>10 DEF Left
    <3>3. Canceled(i)'
      BY <1>1, <1>8 DEF Canceled
    <3> QED
      BY <2>3, <3>1, <3>2, <3>3
  <2> QED
    BY <2>2, <2>3
<1>16. Booked'
  <2> SUFFICES ASSUME NEW s \in AnyStock, NEW d \in Side, NEW j \in book[s][d]
               PROVE  /\ orders'[j] # NoOrder
                      /\ orders'[j].stock = s /\ orders'[j].dir = d /\ orders'[j].qty > 0
                      /\ streams[j] \in Sessions /\ told[j] = orders'[j].qty
                      /\ cancels[j] = 0 /\ ~Flies(j)'
    BY <1>1 DEF Booked
  <2>1. j # i /\ j \in OrderId
    BY <1>0, <1>8 DEF TypeOK
  <2> QED
    BY <1>6, <1>10, <2>1 DEF IInv, Booked
<1>17. \A u \in Sessions : Flying(u)' => Matching(u, oid[u])'
  <2> SUFFICES ASSUME NEW u \in Sessions, Flying(u)' PROVE Matching(u, oid[u])'
    OBVIOUS
  <2>1. CASE u = t
    <3>1. Matching(t, i)'
      BY <1>1, <1>5, <1>6, <1>8 DEF Matching
    <3> QED
      BY <1>5, <2>1, <3>1
  <2>2. CASE u # t
    <3>1. Flying(u) /\ oid'[u] = oid[u] /\ oid[u] # i /\ oid[u] \in OrderId
          /\ pc'[u] = pc[u] /\ cnt'[u] = cnt[u]
      BY <1>9, <2>2
    <3>2. Matching(u, oid[u])
      BY <3>1, FlightFacts
    <3> QED
      BY <1>1, <1>6, <3>1, <3>2 DEF Matching
  <2> QED
    BY <2>1, <2>2
<1>18. Alone'
  <2> SUFFICES ASSUME ~overlapped
               PROVE  /\ OneBusy' /\ Mutexes' /\ AllApart'
                      /\ fault \in {"none", "dangling_stream"}
    BY <1>1 DEF Alone
  <2>1. OneBusy /\ Mutexes /\ AllApart /\ fault \in {"none", "dangling_stream"}
    BY DEF IInv, Alone
  <2>2. OneBusy'
    BY <1>0, <1>1, <1>5, <2>1 DEF OneBusy, Busy, Moved
  <2>3. \A u \in Threads : Busy(u) => u = t
    BY <1>0, <1>1, <2>1 DEF OneBusy, Busy
  <2>4. Mutexes'
    <3> SUFFICES ASSUME NEW j \in OrderId, orders'[j] # NoOrder, j # i
                 PROVE  orders'[j].stock \in listed'
      BY <1>5 DEF Mutexes
    <3> QED
      BY <1>1, <1>6, <2>1, <2>3, ThreadFacts DEF Mutexes, Busy
  <2>5. \A s \in AnyStock : Apart(book[s]["SELL"], book[s]["BUY"])'
    <3> SUFFICES ASSUME NEW s \in AnyStock, NEW a \in book[s]["SELL"], NEW b \in book[s]["BUY"],
                        orders'[a].kind = "LIMIT", orders'[b].kind = "LIMIT"
                 PROVE  ~Compatible(orders'[a], orders'[b])
      BY <1>1 DEF Apart
    <3>1. a \in OrderId \ {i} /\ b \in OrderId \ {i}
      BY <1>0, <1>8, OppFacts DEF TypeOK
    <3> QED
      BY <1>6, <2>1, <3>1 DEF AllApart, Apart
  <2>6. \A u \in Sessions : pc'[u] # "rest"
    BY <1>5, <2>3, ThreadFacts DEF Busy, Moved
  <2> QED
    BY <1>1, <2>1, <2>2, <2>4, <2>5, <2>6 DEF AllApart
<1> QED
  BY <1>7, <1>11, <1>12, <1>13, <1>14, <1>15, <1>16, <1>17, <1>18 DEF IInv

\* What is left of an order comes to rest.
LEMMA RestStep ==
  ASSUME IInv, NEW t \in Sessions, Rest(t)
  PROVE  IInv'
<1>0. TypeOK /\ t \in Threads
  BY ThreadFacts DEF IInv
<1>1. PICK i : i = oid[t]
  OBVIOUS
<1>2. /\ pc[t] = "rest" /\ Return(t)
      /\ orders' = [orders EXCEPT ![i] = Entry(i)]
      /\ book' = IF Entry(i).qty > 0
                 THEN [book EXCEPT ![mine[t].stock][mine[t].dir] = @ \cup {i}]
                 ELSE book
      /\ held' = IF Entry(i).qty > 0 THEN held \cup {mine[t].stock} ELSE held
      /\ UNCHANGED <<id, listed, streams, fault, placed, filled, told, cancels, overlapped>>
  BY <1>0, <1>1, AtFacts DEF Rest, history
<1>3. Moved(t) /\ pc'[t] = "idle"
  BY <1>0, <1>2, ReturnFacts
<1>4. Flying(t) /\ ~Flying(t)'
  BY <1>2, <1>3 DEF Flying
<1>5. /\ i \in OrderId /\ i <= id /\ Flies(i)
      /\ mine[t] = placed[i] /\ mine[t] \in Request
      /\ Numbered(i) /\ Left(i) /\ Canceled(i) /\ Matching(t, i)
      /\ \A u \in Sessions : Flying(u) /\ oid[u] = i => u = t
      /\ \A s \in AnyStock, d \in Side : i \notin book[s][d]
      /\ mine[t].stock \in AnyStock /\ mine[t].dir \in Side
  BY <1>1, <1>4, FlightFacts
<1>6. PICK e \in Request : /\ e = Entry(i) /\ e # NoOrder
                           /\ orders[i] # NoOrder => e = orders[i]
                           /\ orders[i] = NoOrder => e.qty = 0 /\ e.dir \in Side
  BY <1>0, <1>5, EntryFacts
<1>7. e.qty \in Nat
  BY <1>6 DEF Request
<1>8. orders' \in [OrderId -> Request \cup {NoOrder}] /\ orders'[i] = e
      /\ \A j \in OrderId \ {i} : orders'[j] = orders[j]
  BY <1>0, <1>2, <1>5, <1>6 DEF TypeOK
<1>9. e.qty > 0 => cancels[i] = 0 /\ orders[i] # NoOrder /\ orders[i] = e
  BY <1>0, <1>5, <1>6, <1>7 DEF Canceled, TypeOK
<1>10. /\ book' \in [AnyStock -> [Side -> SUBSET OrderId]]
       /\ \A s \in AnyStock, d \in Side : \A j :
            j \in book'[s][d] <=>
              \/ j \in book[s][d]
              \/ j = i /\ e.qty > 0 /\ s = mine[t].stock /\ d = mine[t].dir
  <2>1. book \in [AnyStock -> [Side -> SUBSET OrderId]]
    BY <1>0 DEF TypeOK
  <2>2. CASE ~(e.qty > 0)
    BY <1>2, <1>6, <2>1, <2>2
  <2>3. CASE e.qty > 0
    <3>1. PICK m : m = [book[mine[t].stock] EXCEPT ![mine[t].dir] = @ \cup {i}]
      OBVIOUS
    <3>2. /\ m \in [Side -> SUBSET OrderId]
          /\ m[mine[t].dir] = book[mine[t].stock][mine[t].dir] \cup {i}
          /\ \A d \in Side \ {mine[t].dir} : m[d] = book[mine[t].stock][d]
      BY <1>5, <2>1, <3>1
    <3>3. book' = [book EXCEPT ![mine[t].stock] = m]
      BY <1>2, <1>6, <2>3, <3>1
    <3>4. book' \in [AnyStock -> [Side -> SUBSET OrderId]]
      BY <2>1, <3>2, <3>3
    <3>5. /\ book'[mine[t].stock] = m
          /\ \A s \in AnyStock \ {mine[t].stock} : book'[s] = book[s]
      BY <1>5, <2>1, <3>3
    <3> QED
      BY <2>3, <3>2, <3>4, <3>5
  <2> QED
    BY <2>2, <2>3
<1>11. held' \subseteq AnyStock
  BY <1>0, <1>2, <1>5 DEF TypeOK
<1>12. TypeOK'
  BY <1>0, <1>2, <1>3, <1>8, <1>10, <1>11 DEF TypeOK, Moved
<1>13. \A u \in Sessions :
         /\ u # t => oid'[u] = oid[u] /\ mine'[u] = mine[u] /\ pc'[u] = pc[u] /\ cnt'[u] = cnt[u]
         /\ Flying(u)' <=> Flying(u) /\ u # t
  <2>1. \A u \in Sessions \ {t} :
          oid'[u] = oid[u] /\ mine'[u] = mine[u] /\ pc'[u] = pc[u] /\ cnt'[u] = cnt[u]
    BY <1>3, ThreadFacts DEF Moved
  <2>2. \A u \in Sessions : Flying(u)' <=> Flying(u) /\ u # t
    BY <1>4, <2>1 DEF Flying
  <2> QED
    BY <2>1, <2>2
<1>14. ~Flies(i)' /\ \A j \in OrderId \ {i} : Flies(j)' <=> Flies(j)
  BY <1>1, <1>5, <1>13 DEF Flies
<1>15. Roles' /\ Room'
  <2>1. Roles'
    BY <1>0, <1>3, OthersFacts
  <2>2. Creators' = Creators
    BY <1>0, <1>2, <1>3, OthersFacts
  <2> QED
    BY <1>2, <2>1, <2>2, RoomKept
<1>16. Flights'
  BY <1>2, <1>13 DEF IInv, Flights
<1>17. Erasing'
  <2> SUFFICES ASSUME NEW u \in Cancelers, pc[u] = "erase"
               PROVE  /\ orders'[oid[u]] # NoOrder
                      /\ mine[u].stock = orders'[oid[u]].stock
                      /\ mine[u].dir = orders'[oid[u]].dir
    BY <1>0, <1>3, OthersFacts
  <2>1. /\ orders[oid[u]] # NoOrder /\ oid[u] \in OrderId
        /\ mine[u].stock = orders[oid[u]].stock /\ mine[u].dir = orders[oid[u]].dir
    BY DEF IInv, Erasing, Roles
  <2> QED
    BY <1>6, <1>8, <2>1
<1>18. orders'[i].qty > 0 => i \in book'[orders'[i].stock][orders'[i].dir]
  <2> SUFFICES ASSUME e.qty > 0 PROVE i \in book'[e.stock][e.dir]
    BY <1>8
  <2>1. e.stock = mine[t].stock /\ e.dir = mine[t].dir
    BY <1>5, <1>9 DEF Numbered
  <2> QED
    BY <1>5, <1>10, <2>1
<1>19. \A j \in OrderId : Numbered(j)' /\ Left(j)' /\ Canceled(j)'
  <2> SUFFICES ASSUME NEW j \in OrderId PROVE Numbered(j)' /\ Left(j)' /\ Canceled(j)'
    OBVIOUS
  <2>1. Numbered(j) /\ Left(j) /\ Canceled(j)
    BY DEF IInv
  <2>2. CASE j # i
    <3>1. orders[j] # NoOrder => orders[j].stock \in AnyStock
      BY <1>0 DEF TypeOK, Request, AnyStock
    <3>2. Numbered(j)'
      BY <1>2, <1>8, <2>1, <2>2 DEF Numbered, Legal
    <3>3. Left(j)'
      BY <1>2, <1>8, <1>10, <1>14, <2>1, <2>2, <3>1 DEF Left, Numbered
    <3>4. Canceled(j)'
      BY <1>2, <1>8, <1>14, <2>1, <2>2 DEF Canceled
    <3> QED
      BY <3>2, <3>3, <3>4
  <2>3. CASE j = i
    <3>1. Numbered(i)'
      BY <1>0, <1>2, <1>5, <1>6, <1>8, <2>1, <2>3 DEF Numbered, Legal, TypeOK, OrderId
    <3>2. cancels[i] = 0 => e.qty = placed[i].qty - filled[i]
      BY <1>2, <1>5, <1>6 DEF Matching, Numbered
    <3>3. Left(i)'
      BY <1>2, <1>5, <1>8, <1>14, <1>18, <3>2 DEF Left
    <3>4. Canceled(i)'
      BY <1>2, <1>5, <1>6, <1>8, <1>14 DEF Canceled
    <3> QED
      BY <2>3, <3>1, <3>3, <3>4
  <2> QED
    BY <2>2, <2>3
<1>20. Booked'
  <2> SUFFICES ASSUME NEW s \in AnyStock, NEW d \in Side, NEW j \in book'[s][d]
               PROVE  /\ orders'[j] # NoOrder
                      /\ orders'[j].stock = s /\ orders'[j].dir = d /\ orders'[j].qty > 0
                      /\ streams[j] \in Sessions /\ told[j] = orders'[j].qty
                      /\ cancels[j] = 0 /\ ~Flies(j)'
    BY <1>2 DEF Booked
  <2>1. CASE j \in book[s][d]
    <3>1. j # i /\ j \in OrderId
      BY <1>0, <1>5, <2>1 DEF TypeOK
    <3> QED
      BY <1>8, <1>14, <2>1, <3>1 DEF IInv, Booked
  <2>2. CASE j \notin book[s][d]
    <3>1. j = i /\ e.qty > 0 /\ s = mine[t].stock /\ d = mine[t].dir
      BY <1>10, <2>2
    <3>2. e.stock = s /\ e.dir = d /\ cancels[i] = 0
      BY <1>5, <1>9, <3>1 DEF Numbered
    <3>3. streams[i] = t /\ told[i] = e.qty
      BY <1>2, <1>5, <1>9, <3>1 DEF Matching
    <3> QED
      BY <1>6, <1>8, <1>14, <3>1, <3>2, <3>3
  <2> QED
    BY <2>1, <2>2
<1>21. \A u \in Sessions : Flying(u)' => Matching(u, oid[u])'
  <2> SUFFICES ASSUME NEW u \in Sessions, Flying(u)' PROVE Matching(u, oid[u])'
    OBVIOUS
  <2>1. /\ Flying(u) /\ oid'[u] = oid[u] /\ oid[u] # i /\ oid[u] \in OrderId
        /\ pc'[u] = pc[u] /\ cnt'[u] = cnt[u] /\ Matching(u, oid[u])
    BY <1>5, <1>13, FlightFacts
  <2> QED
    BY <1>2, <1>8, <2>1 DEF Matching
<1>22. Alone'
  <2> SUFFICES ASSUME ~overlapped
               PROVE  /\ OneBusy' /\ Mutexes' /\ AllApart'
                      /\ fault \in {"none", "dangling_stream"}
    BY <1>2 DEF Alone
  <2>1. OneBusy /\ Mutexes /\ AllApart /\ fault \in {"none", "dangling_stream"}
    BY DEF IInv, Alone
  <2>2. \A u \in Threads : Busy(u) => u = t
    BY <1>0, <1>2, <2>1 DEF OneBusy, Busy
  <2>3. \A u \in Threads : ~Busy(u)'
    BY <1>3, <2>2 DEF Busy, Moved
  <2>4. OneBusy'
    BY <2>3 DEF OneBusy
  <2>5. cancels[i] = 0 /\ orders[i] # NoOrder /\ orders[i] = e
    BY <1>0, <1>5, <1>6 DEF Canceled, Numbered, TypeOK
  <2>6. Mutexes'
    <3> SUFFICES ASSUME NEW j \in OrderId, orders'[j] # NoOrder
                 PROVE  orders'[j].stock \in listed'
      BY DEF Mutexes
    <3>1. orders'[j] = orders[j]
      BY <1>8, <2>5
    <3> QED
      BY <1>2, <2>1, <2>2, <3>1, ThreadFacts DEF Mutexes, Busy
  <2>7. \A j \in OrderId : orders'[j] = orders[j]
    BY <1>8, <2>5
  <2>8. e.qty > 0 => Apart({i}, book[mine[t].stock][Opp(mine[t].dir)])
    BY <1>1, <1>2, <2>1, <2>5 DEF AllApart
  <2>9. \A s \in AnyStock : Apart(book[s]["SELL"], book[s]["BUY"])'
    <3> SUFFICES ASSUME NEW s \in AnyStock, NEW a \in book'[s]["SELL"], NEW b \in book'[s]["BUY"],
                        orders[a].kind = "LIMIT", orders[b].kind = "LIMIT"
                 PROVE  ~Compatible(orders[a], orders[b])
      BY <1>12, <2>7, OppFacts DEF Apart, TypeOK
    <3>1. a \in OrderId /\ b \in OrderId
      BY <1>10, OppFacts
    <3>2. orders[a].dir = "SELL" /\ orders[b].dir = "BUY"
      BY <1>20, <2>7, <3>1, OppFacts DEF Booked
    <3>3. CASE a \in book[s]["SELL"] /\ b \in book[s]["BUY"]
      BY <2>1, <3>3 DEF AllApart, Apart
    <3>4. CASE a \notin book[s]["SELL"]
      <4>1. a = i /\ e.qty > 0 /\ s = mine[t].stock /\ mine[t].dir = "SELL" /\ b # i
        BY <1>10, <3>2, <3>4, OppFacts
      <4>2. b \in book[mine[t].stock][Opp(mine[t].dir)]
        BY <1>10, <4>1, OppFacts
      <4> QED
        BY <2>8, <4>1, <4>2 DEF Apart
    <3>5. CASE b \notin book[s]["BUY"]
      <4>1. b = i /\ e.qty > 0 /\ s = mine[t].stock /\ mine[t].dir = "BUY" /\ a # i
        BY <1>10, <3>2, <3>5, OppFacts
      <4>2. a \in book[mine[t].stock][Opp(mine[t].dir)]
        BY <1>10, <4>1, OppFacts
      <4>3. ~Compatible(orders[b], orders[a])
        BY <2>8, <4>1, <4>2 DEF Apart
      <4> QED
        BY <3>2, <4>3 DEF Compatible
    <3> QED
      BY <3>3, <3>4, <3>5
  <2>10. \A u \in Sessions : pc'[u] # "rest"
    BY <2>3, ThreadFacts DEF Busy
  <2> QED
    BY <1>2, <2>1, <2>4, <2>6, <2>9, <2>10 DEF AllApart
<1> QED
  BY <1>12, <1>15, <1>16, <1>17, <1>19, <1>20, <1>21, <1>22 DEF IInv

-----------------------------------------------------------------------------
(* Cancellation, and the ways to die *)

\* A cancelled order is in no set, and not in the table.
LEMMA EraseOrderStep ==
  ASSUME IInv, NEW t \in Cancelers, EraseOrder(t)
  PROVE  IInv'
<1>0. TypeOK /\ t \in Threads /\ t \notin Sessions /\ Roles /\ Erasing
  BY ThreadFacts DEF IInv
<1>1. PICK i : i = oid[t]
  OBVIOUS
<1>2. /\ pc[t] = "erase" /\ Return(t)
      /\ book' = [book EXCEPT ![mine[t].stock][mine[t].dir] = @ \ {i}]
      /\ held' = held \cup {mine[t].stock}
      /\ orders' = [orders EXCEPT ![i] = NoOrder]
      /\ streams' = [streams EXCEPT ![i] = NoStream]
      /\ cancels' = [cancels EXCEPT ![i] = @ + 1]
      /\ UNCHANGED <<id, listed, fault, placed, filled, told, overlapped>>
  BY <1>0, <1>1, AtFacts DEF EraseOrder
<1>3. Moved(t) /\ pc'[t] = "idle"
  BY <1>0, <1>2, ReturnFacts
<1>4. /\ i \in OrderId /\ orders[i] # NoOrder /\ orders[i] \in Request
      /\ mine[t].stock = orders[i].stock /\ mine[t].dir = orders[i].dir
      /\ mine[t].stock \in AnyStock
      /\ \A u \in Cancelers : pc[u] = "erase" => u = t
  BY <1>0, <1>1, <1>2 DEF Roles, Erasing, TypeOK, Request, AnyStock
<1>5. Numbered(i) /\ Left(i) /\ Canceled(i) /\ mine[t].dir \in Side /\ i <= id
  BY <1>4 DEF IInv, Numbered, TypeOK, OrderId
<1>6. /\ orders' \in [OrderId -> Request \cup {NoOrder}] /\ orders'[i] = NoOrder
      /\ streams' \in [OrderId -> Sessions \cup {NoStream}]
      /\ cancels' \in [OrderId -> Nat] /\ cancels'[i] = cancels[i] + 1
      /\ cancels[i] \in Nat
      /\ \A j \in OrderId \ {i} :
           orders'[j] = orders[j] /\ streams'[j] = streams[j] /\ cancels'[j] = cancels[j]
  BY <1>0, <1>2, <1>4 DEF TypeOK
<1>7. /\ book' \in [AnyStock -> [Side -> SUBSET OrderId]]
      /\ \A s \in AnyStock, d \in Side : \A j :
           j \in book'[s][d] <=> j \in book[s][d] /\ j # i
  <2>1. book \in [AnyStock -> [Side -> SUBSET OrderId]]
    BY <1>0 DEF TypeOK
  <2>2. PICK m : m = [book[mine[t].stock] EXCEPT ![mine[t].dir] = @ \ {i}]
    OBVIOUS
  <2>3. /\ m \in [Side -> SUBSET OrderId]
        /\ m[mine[t].dir] = book[mine[t].stock][mine[t].dir] \ {i}
        /\ \A d \in Side \ {mine[t].dir} : m[d] = book[mine[t].stock][d]
    BY <1>4, <1>5, <2>1, <2>2
  <2>4. book' = [book EXCEPT ![mine[t].stock] = m]
    BY <1>2, <2>2
  <2>5. book' \in [AnyStock -> [Side -> SUBSET OrderId]]
    BY <2>1, <2>3, <2>4
  <2>6. /\ book'[mine[t].stock] = m
        /\ \A s \in AnyStock \ {mine[t].stock} : book'[s] = book[s]
    BY <1>4, <2>1, <2>4
  <2>7. \A s \in AnyStock, d \in Side :
          i \in book[s][d] => s = mine[t].stock /\ d = mine[t].dir
    BY <1>4 DEF IInv, Booked
  <2> QED
    BY <2>3, <2>5, <2>6, <2>7
<1>8. held' \subseteq AnyStock
  BY <1>0, <1>2, <1>4 DEF TypeOK
<1>9. TypeOK'
  BY <1>0, <1>2, <1>3, <1>6, <1>7, <1>8 DEF TypeOK, Moved
<1>10. \A u \in Sessions :
         /\ oid'[u] = oid[u] /\ mine'[u] = mine[u] /\ pc'[u] = pc[u] /\ cnt'[u] = cnt[u]
         /\ Flying(u)' <=> Flying(u)
  <2>1. \A u \in Sessions :
          oid'[u] = oid[u] /\ mine'[u] = mine[u] /\ pc'[u] = pc[u] /\ cnt'[u] = cnt[u]
    BY <1>0, <1>3, ThreadFacts DEF Moved
  <2> QED
    BY <2>1 DEF Flying
<1>11. \A j \in OrderId : Flies(j)' <=> Flies(j)
  BY <1>10 DEF Flies
<1>12. Roles' /\ Room'
  <2>1. Roles'
    BY <1>0, <1>3, OthersFacts
  <2>2. Creators' = Creators
    BY <1>0, <1>2, <1>3, OthersFacts
  <2> QED
    BY <1>2, <2>1, <2>2, RoomKept
<1>13. Flights'
  BY <1>2, <1>10 DEF IInv, Flights
<1>14. Erasing'
  BY <1>3, <1>4, ThreadFacts DEF Erasing, Moved
<1>15. \A u \in Sessions : ~(Flying(u) /\ OneBusy)
  <2> SUFFICES ASSUME NEW u \in Sessions, Flying(u), OneBusy PROVE FALSE
    OBVIOUS
  <2>1. Busy(u) /\ Busy(t) /\ u \in Threads /\ u # t
    BY <1>0, <1>2, ThreadFacts DEF Flying, Busy
  <2> QED
    BY <1>0, <2>1 DEF OneBusy
<1>16. \A j \in OrderId : Numbered(j)' /\ Left(j)' /\ Canceled(j)'
  <2> SUFFICES ASSUME NEW j \in OrderId PROVE Numbered(j)' /\ Left(j)' /\ Canceled(j)'
    OBVIOUS
  <2>1. Numbered(j) /\ Left(j) /\ Canceled(j)
    BY DEF IInv
  <2>2. CASE j # i
    <3>1. orders[j] # NoOrder => orders[j].stock \in AnyStock
      BY <1>0 DEF TypeOK, Request, AnyStock
    <3>2. Numbered(j)'
      BY <1>2, <1>6, <2>1, <2>2 DEF Numbered, Legal
    <3>3. Left(j)'
      BY <1>2, <1>6, <1>7, <1>11, <2>1, <2>2, <3>1 DEF Left, Numbered
    <3>4. Canceled(j)'
      BY <1>2, <1>6, <1>11, <2>1, <2>2 DEF Canceled
    <3> QED
      BY <3>2, <3>3, <3>4
  <2>3. CASE j = i
    <3>1. Numbered(i)'
      BY <1>2, <1>4, <1>5, <1>6, <2>1, <2>3 DEF Numbered, Legal, IInv, TypeOK
    <3>2. Left(i)'
      BY <1>2, <1>5, <1>6 DEF Left
    <3>3. Canceled(i)'
      <4>1. cancels[i] > 0 => overlapped
        BY <1>4, <1>5 DEF Canceled
      <4>2. Flies(i) => overlapped
        BY <1>15 DEF Flies, IInv, Alone
      <4> QED
        BY <1>2, <1>4, <1>6, <1>11, <4>1, <4>2 DEF Canceled
    <3> QED
      BY <2>3, <3>1, <3>2, <3>3
  <2> QED
    BY <2>2, <2>3
<1>17. Booked'
  <2> SUFFICES ASSUME NEW s \in AnyStock, NEW d \in Side, NEW j \in book'[s][d]
               PROVE  /\ orders'[j] # NoOrder
                      /\ orders'[j].stock = s /\ orders'[j].dir = d /\ orders'[j].qty > 0
                      /\ streams'[j] \in Sessions /\ told[j] = orders'[j].qty
                      /\ cancels'[j] = 0 /\ ~Flies(j)'
    BY <1>2 DEF Booked
  <2>1. j # i /\ j \in book[s][d] /\ j \in OrderId
    BY <1>0, <1>7 DEF TypeOK
  <2> QED
    BY <1>6, <1>11, <2>1 DEF IInv, Booked
<1>18. \A u \in Sessions : Flying(u)' => Matching(u, oid[u])'
  <2> SUFFICES ASSUME NEW u \in Sessions, Flying(u) PROVE Matching(u, oid[u])'
    BY <1>10
  <2>1. Matching(u, oid[u]) /\ oid[u] \in OrderId
    BY FlightFacts
  <2>2. CASE oid[u] # i
    BY <1>2, <1>6, <1>10, <2>1, <2>2 DEF Matching
  <2>3. CASE oid[u] = i
    BY <1>6, <1>10, <2>3 DEF Matching
  <2> QED
    BY <2>2, <2>3
<1>19. Alone'
  <2> SUFFICES ASSUME ~overlapped
               PROVE  /\ OneBusy' /\ Mutexes' /\ AllApart'
                      /\ fault \in {"none", "dangling_stream"}
    BY <1>2 DEF Alone
  <2>1. OneBusy /\ Mutexes /\ AllApart /\ fault \in {"none", "dangling_stream"}
    BY DEF IInv, Alone
  <2>2. OneBusy'
    BY <1>3, <2>1 DEF OneBusy, Busy, Moved
  <2>3. \A u \in Sessions : ~Flying(u) /\ pc[u] # "list" /\ pc[u] # "rest"
    BY <1>15, <2>1 DEF Flying
  <2>4. Mutexes'
    BY <1>2, <1>6, <2>1, <2>3 DEF Mutexes
  <2>5. \A s \in AnyStock : Apart(book[s]["SELL"], book[s]["BUY"])'
    <3> SUFFICES ASSUME NEW s \in AnyStock, NEW a \in book'[s]["SELL"], NEW b \in book'[s]["BUY"],
                        orders'[a].kind = "LIMIT", orders'[b].kind = "LIMIT"
                 PROVE  ~Compatible(orders'[a], orders'[b])
      BY DEF Apart
    <3>1. /\ a \in book[s]["SELL"] /\ b \in book[s]["BUY"]
          /\ a \in OrderId \ {i} /\ b \in OrderId \ {i}
      BY <1>7, OppFacts
    <3> QED
      BY <1>6, <2>1, <3>1 DEF AllApart, Apart
  <2>6. \A u \in Sessions : pc'[u] # "rest"
    BY <1>10, <2>3
  <2> QED
    BY <2>1, <2>2, <2>4, <2>5, <2>6 DEF AllApart
<1> QED
  BY <1>9, <1>12, <1>13, <1>14, <1>16, <1>17, <1>18, <1>19 DEF IInv

\* The process can die of anything once requests have overlapped; before, only of
\* a client that has gone.
LEMMA DieStep ==
  ASSUME IInv, NEW how \in {"null_mutex", "dangling_order", "dangling_stream", "race"},
         Die(how), overlapped \/ how = "dangling_stream"
  PROVE  IInv'
<1>1. /\ fault' = how
      /\ UNCHANGED <<id, orders, book, held, listed, streams, pc, oid, mine, cnt>>
      /\ UNCHANGED <<placed, filled, told, cancels, overlapped>>
  BY DEF Die, locals, history
<1>2. TypeOK'
  BY <1>1 DEF IInv, TypeOK
<1>3. Roles' /\ Room' /\ Flights' /\ Erasing' /\ Booked'
  BY <1>1 DEF IInv, Roles, Room, Creators, Flights, Erasing, Booked, Flying, Flies, Legal
<1>4. \A i \in OrderId : Numbered(i)' /\ Left(i)' /\ Canceled(i)'
  BY <1>1 DEF IInv, Numbered, Left, Canceled, Flies, Flying, Legal
<1>5. \A t \in Sessions : Flying(t)' => Matching(t, oid[t])'
  BY <1>1 DEF IInv, Matching, Flying
<1>6. Alone'
  BY <1>1 DEF IInv, Alone, OneBusy, Busy, Mutexes, AllApart, Apart
<1> QED
  BY <1>2, <1>3, <1>4, <1>5, <1>6 DEF IInv

\* Only threads that are busy touch tables and streams.
LEMMA IdleTouchesNothing ==
  ASSUME NEW t \in Threads, ~Busy(t)
  PROVE  Writes(t) = {} /\ Reads(t) = {}
BY DEF Busy, Writes, Reads

\* A death that is not for want of a client takes requests that overlap.
LEMMA FaultyStep ==
  ASSUME IInv, NEW t \in Threads, Faulty(t)
  PROVE  IInv'
<1>0. TypeOK
  BY DEF IInv
<1>1. CASE NullMutex(t)
  <2>1. pc[t] = "erase" /\ mine[t].stock \notin listed /\ Die("null_mutex")
    BY <1>1, AtFacts DEF NullMutex
  <2>2. t \in Cancelers
    BY <2>1 DEF IInv, Roles, Threads
  <2>3. /\ oid[t] \in OrderId /\ orders[oid[t]] # NoOrder
        /\ mine[t].stock = orders[oid[t]].stock
    BY <2>1, <2>2 DEF IInv, Roles, Erasing
  <2>4. ASSUME ~overlapped PROVE FALSE
    <3>1. OneBusy /\ Mutexes
      BY <2>4 DEF IInv, Alone
    <3>2. PICK u \in Sessions : pc[u] = "list"
      BY <2>1, <2>3, <3>1 DEF Mutexes
    <3> QED
      BY <2>1, <2>2, <3>1, <3>2, ThreadFacts DEF OneBusy, Busy
  <2> QED
    BY <2>1, <2>4, DieStep
<1>2. CASE DanglingOrder(t)
  <2>1. pc[t] = "scan" /\ orders[oid[t]] = NoOrder /\ Die("dangling_order")
    BY <1>2, AtFacts DEF DanglingOrder
  <2>2. t \in Sessions
    BY <2>1 DEF IInv, Roles, Threads
  <2>3. PICK i : i = oid[t]
    OBVIOUS
  <2>4. Flying(t)
    BY <2>1, <2>2 DEF Flying
  <2>5. i \in OrderId /\ i <= id /\ Flies(i) /\ Numbered(i) /\ Canceled(i) /\ cancels[i] \in Nat
    BY <1>0, <2>2, <2>3, <2>4, FlightFacts DEF TypeOK
  <2>6. overlapped
    BY <2>1, <2>3, <2>5 DEF Numbered, Canceled
  <2> QED
    BY <2>1, <2>6, DieStep
<1>3. CASE DanglingStream(t)
  BY <1>3, DieStep DEF DanglingStream
<1>4. ASSUME NEW u \in Threads \ {t}, Race(t, u)
      PROVE  IInv'
  <2>1. Writes(t) # {} /\ (Writes(u) # {} \/ Reads(u) # {}) /\ Die("race")
    BY <1>4 DEF Race
  <2>2. Busy(t) /\ Busy(u)
    BY <2>1, IdleTouchesNothing
  <2>3. overlapped
    BY <2>2 DEF IInv, Alone, OneBusy
  <2> QED
    BY <2>1, <2>3, DieStep
<1> QED
  BY <1>1, <1>2, <1>3, <1>4 DEF Faulty

-----------------------------------------------------------------------------
(* Theorems *)

\* IInv survives every step of the server.
LEMMA IInvStep == IInv /\ [Next]_vars => IInv'
<1> SUFFICES ASSUME IInv, [Next]_vars PROVE IInv'
  OBVIOUS
<1>1. ASSUME NEW t \in Sessions, ProcessNewOrder(t)
      PROVE  IInv'
  <2>1. ASSUME NEW req \in Requests, Receive(t, req) PROVE IInv'
    BY <2>1, ReceiveStep
  <2>2. CASE End(t)
    BY <2>2, EndStep
  <2>3. CASE RejectOrder(t)
    BY <2>3, RejectOrderStep
  <2>4. CASE CreateOrder(t)
    BY <2>4, CreateOrderStep
  <2>5. CASE ListStock(t)
    BY <2>5, ListStockStep
  <2>6. CASE Accept(t)
    BY <2>6, AcceptStep
  <2>7. CASE LockOpposite(t)
    BY <2>7, LockOppositeStep
  <2>8. CASE MatchOrder(t)
    BY <2>8, MatchOrderStep
  <2>9. ASSUME NEW r \in OrderId, Fill(t, r) PROVE IInv'
    BY <2>9, FillStep
  <2>10. CASE EndScan(t)
    BY <2>10, EndScanStep
  <2>11. CASE Rest(t)
    BY <2>11, RestStep
  <2> QED
    BY <1>1, <2>1, <2>2, <2>3, <2>4, <2>5, <2>6, <2>7, <2>8, <2>9, <2>10, <2>11
       DEF ProcessNewOrder
<1>2. ASSUME NEW t \in Cancelers, ProcessCancelOrder(t)
      PROVE  IInv'
  BY <1>2, ReceiveCancelStep, RejectCancelStep, CopyOrderStep, EraseOrderStep
     DEF ProcessCancelOrder
<1>3. ASSUME NEW t \in Threads, Faulty(t)
      PROVE  IInv'
  BY <1>3, FaultyStep
<1>4. CASE UNCHANGED vars
  <2>1. /\ UNCHANGED <<id, orders, book, held, listed, streams, pc, oid, mine, cnt, fault>>
        /\ UNCHANGED <<placed, filled, told, cancels, overlapped>>
    BY <1>4 DEF vars, locals, history
  <2>2. TypeOK'
    BY <2>1 DEF IInv, TypeOK
  <2>3. Roles' /\ Room' /\ Flights' /\ Erasing' /\ Booked'
    BY <2>1 DEF IInv, Roles, Room, Creators, Flights, Erasing, Booked, Flying, Flies, Legal
  <2>4. \A i \in OrderId : Numbered(i)' /\ Left(i)' /\ Canceled(i)'
    BY <2>1 DEF IInv, Numbered, Left, Canceled, Flies, Flying, Legal
  <2>5. \A t \in Sessions : Flying(t)' => Matching(t, oid[t])'
    BY <2>1 DEF IInv, Matching, Flying
  <2>6. Alone'
    BY <2>1 DEF IInv, Alone, OneBusy, Busy, Mutexes, AllApart, Apart
  <2> QED
    BY <2>2, <2>3, <2>4, <2>5, <2>6 DEF IInv
<1> QED
  BY <1>1, <1>2, <1>3, <1>4 DEF Next

\* The inductive invariant holds of the server, whatever overlaps and whatever is
\* cancelled: the properties below follow from it.
THEOREM Invariance == Spec => []IInv
<1>1. Init => IInv
  BY InitIInv
<1>2. IInv /\ [Next]_vars => IInv'
  BY IInvStep
<1> QED
  BY <1>1, <1>2, PTL DEF Spec

\* A thread flies an order exactly if the order is in flight.
LEMMA FliesInFlight ==
  ASSUME IInv, NEW i \in OrderId
  PROVE  Flies(i) <=> \E t \in Sessions : InFlight(t, i)
BY ThreadFacts DEF IInv, TypeOK, Roles, Flies, Flying, InFlight, Busy

\* Every variable keeps its type: in particular no quantity drops below zero, and
\* no number is given out beyond the table.
THEOREM TypeCorrectness == Spec => []TypeOK
<1>1. IInv => TypeOK
  BY DEF IInv
<1> QED
  BY <1>1, Invariance, PTL

\* The resting sets and the order table agree, although no lock covers both.
THEOREM BookLiveness == Spec => []BookIsLive
<1>1. IInv => BookIsLive
  <2> SUFFICES ASSUME IInv PROVE BookIsLive
    OBVIOUS
  <2>1. ASSUME NEW s \in AnyStock, NEW d \in Side, NEW i \in book[s][d]
        PROVE  /\ orders[i] # NoOrder
               /\ orders[i].stock = s /\ orders[i].dir = d /\ orders[i].qty > 0
               /\ streams[i] \in Sessions
    BY DEF IInv, Booked
  <2>2. ASSUME NEW i \in OrderId, orders[i] # NoOrder, orders[i].qty > 0
        PROVE  \/ i \in book[orders[i].stock][orders[i].dir]
               \/ \E t \in Sessions : InFlight(t, i)
    BY <2>2, FliesInFlight DEF IInv, Left
  <2> QED
    BY <2>1, <2>2 DEF BookIsLive
<1> QED
  BY <1>1, Invariance, PTL

\* What is left of an order is what was placed less its FILL reports, clients are
\* told so at once, and only overlapping requests can cancel an order twice.
THEOREM Accounts == Spec => []Accounting
<1>1. IInv => Accounting
  <2> SUFFICES ASSUME IInv, NEW i \in OrderId, placed[i] # NoOrder
               PROVE  /\ filled[i] <= placed[i].qty
                      /\ orders[i] # NoOrder /\ cancels[i] = 0 /\ ~(\E t \in Sessions : InFlight(t, i)) =>
                           orders[i].qty = placed[i].qty - filled[i]
                      /\ (\E s \in AnyStock, d \in Side : i \in book[s][d]) => told[i] = orders[i].qty
                      /\ cancels[i] > 1 => overlapped
    BY DEF Accounting
  <2>1. i <= id /\ Left(i) /\ Canceled(i)
    BY DEF IInv, TypeOK, Numbered, OrderId
  <2>2. (\E s \in AnyStock, d \in Side : i \in book[s][d]) => told[i] = orders[i].qty
    BY DEF IInv, Booked
  <2> QED
    BY <2>1, <2>2, FliesInFlight DEF Left, Canceled
<1> QED
  BY <1>1, Invariance, PTL

\* Requests served one at a time leave no two LIMIT orders resting that could trade.
THEOREM Uncrossing == Spec => []Uncrossed
<1>1. IInv => Uncrossed
  BY DEF IInv, Alone, AllApart, Apart, Uncrossed
<1> QED
  BY <1>1, Invariance, PTL

\* Without overlapping requests the process dies only of a client that has left.
THEOREM FaultsOverlap == Spec => []FaultNeedsOverlap
<1>1. IInv => FaultNeedsOverlap
  BY DEF IInv, Alone, FaultNeedsOverlap
<1> QED
  BY <1>1, Invariance, PTL

\* A cancelled order has no part in a trade.
LEMMA FillCanceled ==
  ASSUME IInv, NEW t \in Sessions, NEW r \in OrderId, Fill(t, r),
         NEW j \in OrderId, cancels[j] > 0
  PROVE  filled'[j] = filled[j]
<1>1. PICK i : i = oid[t]
  OBVIOUS
<1>2. PICK n : n = Least(orders[r].qty, orders[i].qty - cnt[t])
  OBVIOUS
<1>3. /\ pc[t] = "scan" /\ orders[i] # NoOrder /\ r \in Stops(t)
      /\ filled' = [filled EXCEPT ![i] = @ + n, ![r] = @ + n]
  BY <1>1, <1>2, AtFacts, ThreadFacts DEF Fill
<1>4. \A k \in OrderId \ {i, r} : filled'[k] = filled[k]
  BY <1>3 DEF IInv, TypeOK
<1>5. cancels[i] = 0 /\ cancels[r] = 0
  BY <1>1, <1>2, <1>3, FillFacts
<1> QED
  BY <1>4, <1>5

\* No step takes back a CANCELED report.
LEMMA CancelsStay ==
  ASSUME IInv, Next, NEW j \in OrderId, cancels[j] > 0
  PROVE  cancels'[j] > 0
<1>1. ASSUME NEW t \in Cancelers, EraseOrder(t)
      PROVE  cancels'[j] > 0
  BY <1>1 DEF EraseOrder, IInv, TypeOK
<1>2. ASSUME NEW t \in Sessions, ProcessNewOrder(t)
      PROVE  UNCHANGED cancels
  BY <1>2 DEF ProcessNewOrder, Receive, End, RejectOrder, CreateOrder, ListStock, Accept,
         LockOpposite, MatchOrder, Fill, EndScan, Rest, history
<1>3. ASSUME NEW t \in Cancelers, ProcessCancelOrder(t)
      PROVE  EraseOrder(t) \/ UNCHANGED cancels
  BY <1>3 DEF ProcessCancelOrder, ReceiveCancel, RejectCancel, CopyOrder, history
<1>4. ASSUME NEW t \in Threads, Faulty(t)
      PROVE  UNCHANGED cancels
  BY <1>4 DEF Faulty, NullMutex, DanglingOrder, DanglingStream, Race, Die, history
<1> QED
  BY <1>1, <1>2, <1>3, <1>4 DEF Next

\* An order that has been reported CANCELED never trades and never rests again.
THEOREM CancelFinality == Spec => CanceledIsFinal
<1>1. IInv /\ [Next]_vars =>
        [\A i \in OrderId :
           cancels[i] > 0 =>
             /\ filled'[i] = filled[i]
             /\ \A s \in AnyStock, d \in Side : i \notin book'[s][d]]_vars
  <2> SUFFICES ASSUME IInv, Next, NEW j \in OrderId, cancels[j] > 0
               PROVE  /\ filled'[j] = filled[j]
                      /\ \A s \in AnyStock, d \in Side : j \notin book'[s][d]
    OBVIOUS
  <2>1. ASSUME NEW t \in Sessions, NEW r \in OrderId, Fill(t, r)
        PROVE  filled'[j] = filled[j]
    BY <2>1, FillCanceled
  <2>2. (\E t \in Sessions, r \in OrderId : Fill(t, r)) \/ UNCHANGED filled
    <3>1. ASSUME NEW t \in Sessions, ProcessNewOrder(t)
          PROVE  (\E r \in OrderId : Fill(t, r)) \/ UNCHANGED filled
      BY <3>1 DEF ProcessNewOrder, Receive, End, RejectOrder, CreateOrder, ListStock,
           Accept, LockOpposite, MatchOrder, EndScan, Rest, history
    <3>2. ASSUME NEW t \in Cancelers, ProcessCancelOrder(t)
          PROVE  UNCHANGED filled
      BY <3>2 DEF ProcessCancelOrder, ReceiveCancel, RejectCancel, CopyOrder, EraseOrder, history
    <3>3. ASSUME NEW t \in Threads, Faulty(t)
          PROVE  UNCHANGED filled
      BY <3>3 DEF Faulty, NullMutex, DanglingOrder, DanglingStream, Race, Die, history
    <3> QED
      BY <3>1, <3>2, <3>3 DEF Next
  <2>3. Booked'
    BY IInvStep DEF IInv
  <2>4. cancels'[j] # 0
    BY CancelsStay
  <2>5. \A s \in AnyStock, d \in Side : j \notin book'[s][d]
    BY <2>3, <2>4 DEF Booked
  <2> QED
    BY <2>1, <2>2, <2>5
<1> QED
  BY <1>1, Invariance, PTL DEF Spec, CanceledIsFinal

=============================================================================
