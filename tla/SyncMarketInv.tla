--------------------------- MODULE SyncMarketInv ---------------------------
(***************************************************************************)
(* What SyncMarket keeps invariant: what each order's entry, its reports   *)
(* and the thread that matches it have to do with one another, and what    *)
(* holds besides as long as no two requests have overlapped.               *)
(***************************************************************************)
EXTENDS SyncMarket

-----------------------------------------------------------------------------
(* Threads *)

\* Thread t has created order oid[t] and not rested it yet.
Flying(t) == t \in Sessions /\ pc[t] \in {"list", "stream", "lockOpp", "match", "scan", "rest"}

Flies(i) == \E t \in Sessions : Flying(t) /\ oid[t] = i

Roles ==
  /\ \A t \in Sessions :
       /\ pc[t] \notin {"lookup", "erase"}
       /\ pc[t] = "create" => Legal(mine[t])
  /\ \A t \in Cancelers :
       /\ pc[t] \in {"idle", "lookup", "erase"}
       /\ pc[t] # "idle" => oid[t] \in OrderId

Creators == {t \in Threads : pc[t] = "create"}

\* There is a number left for each order about to be created.
Room == IsFiniteSet(Creators) /\ id + Cardinality(Creators) <= MaxOrders

\* An order is matched and rested by one thread, which knows it as it was placed.
Flights ==
  \A t \in Sessions : Flying(t) =>
    /\ oid[t] \in 1 .. id
    /\ mine[t] = placed[oid[t]]
    /\ \A u \in Sessions : Flying(u) /\ oid[u] = oid[t] => u = t

\* cancel_mutex: one thread at a time erases an order, and what it has copied says
\* where the order is.
Erasing ==
  \A t \in Cancelers : pc[t] = "erase" =>
    /\ orders[oid[t]] # NoOrder
    /\ mine[t].stock = orders[oid[t]].stock /\ mine[t].dir = orders[oid[t]].dir
    /\ \A u \in Cancelers : pc[u] = "erase" => u = t

-----------------------------------------------------------------------------
(* Orders *)

\* Numbers above id are unused; an order below is in the table unless cancelled.
Numbered(i) ==
  /\ i > id => /\ orders[i] = NoOrder /\ placed[i] = NoOrder
               /\ filled[i] = 0 /\ cancels[i] = 0
  /\ i <= id => placed[i] # NoOrder /\ Legal(placed[i])
  /\ orders[i] # NoOrder => orders[i].dir \in Side
  /\ i <= id /\ cancels[i] = 0 =>
       /\ orders[i] # NoOrder
       /\ orders[i].stock = placed[i].stock /\ orders[i].dir = placed[i].dir

Booked ==
  \A s \in AnyStock, d \in Side : \A i \in book[s][d] :
    /\ orders[i] # NoOrder
    /\ orders[i].stock = s /\ orders[i].dir = d /\ orders[i].qty > 0
    /\ streams[i] \in Sessions /\ told[i] = orders[i].qty
    /\ cancels[i] = 0 /\ ~Flies(i)

\* What is left of an order that is not being matched.
Left(i) ==
  /\ orders[i] # NoOrder /\ orders[i].qty > 0 =>
       Flies(i) \/ i \in book[orders[i].stock][orders[i].dir]
  /\ i <= id => filled[i] <= placed[i].qty
  /\ i <= id /\ cancels[i] = 0 /\ ~Flies(i) => orders[i].qty = placed[i].qty - filled[i]

\* A cancelled order that is in the table again is the entry operator[] made up.
Canceled(i) ==
  /\ cancels[i] > 0 /\ orders[i] # NoOrder => orders[i].qty = 0 /\ overlapped
  /\ cancels[i] > 1 => overlapped
  /\ cancels[i] > 0 /\ Flies(i) => overlapped

\* What is left of order i while thread t matches it.
Matching(t, i) ==
  /\ pc[t] = "scan" /\ orders[i] # NoOrder => cnt[t] <= orders[i].qty
  /\ cancels[i] = 0 =>
       /\ pc[t] # "rest" => orders[i].qty = placed[i].qty
       /\ pc[t] \in {"list", "stream", "lockOpp", "match"} => filled[i] = 0
       /\ pc[t] = "scan" => filled[i] = cnt[t]
       /\ pc[t] = "rest" => orders[i].qty = placed[i].qty - filled[i]
       /\ pc[t] \in {"lockOpp", "match", "scan", "rest"} =>
            streams[i] = t /\ told[i] = placed[i].qty - filled[i]

-----------------------------------------------------------------------------
(* Requests one at a time *)

OneBusy == \A t, u \in Threads : Busy(t) /\ Busy(u) => t = u

\* Every stock in the table has its mutexes, but for the one about to get them.
Mutexes ==
  \A i \in OrderId : orders[i] # NoOrder =>
    orders[i].stock \in listed \/ \E t \in Sessions : pc[t] = "list" /\ oid[t] = i

\* No two LIMIT orders of these sets, of opposite sides, can trade.
Apart(own, others) ==
  \A a \in own, b \in others :
    orders[a].kind = "LIMIT" /\ orders[b].kind = "LIMIT" => ~Compatible(orders[a], orders[b])

\* The resting orders are apart, and an order about to rest is apart from those
\* of the other side.
AllApart ==
  /\ \A s \in AnyStock : Apart(book[s]["SELL"], book[s]["BUY"])
  /\ \A t \in Sessions : pc[t] = "rest" /\ orders[oid[t]] # NoOrder /\ orders[oid[t]].qty > 0 =>
       Apart({oid[t]}, book[mine[t].stock][Opp(mine[t].dir)])

Alone == ~overlapped => OneBusy /\ Mutexes /\ AllApart /\ fault \in {"none", "dangling_stream"}

\* The inductive invariant.
IInv ==
  /\ TypeOK
  /\ Roles /\ Room /\ Flights /\ Erasing
  /\ \A i \in OrderId : Numbered(i) /\ Left(i) /\ Canceled(i)
  /\ Booked
  /\ \A t \in Sessions : Flying(t) => Matching(t, oid[t])
  /\ Alone

=============================================================================
