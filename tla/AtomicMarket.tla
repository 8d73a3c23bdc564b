---------------------------- MODULE AtomicMarket ----------------------------
(***************************************************************************)
(* What the market promises its clients: each request takes effect at one  *)
(* instant.  A new order trades and what is left of it rests; a cancelled  *)
(* order is gone.  There are no threads, mutexes or sets of resting orders: *)
(* every order in the table rests.                                         *)
(***************************************************************************)
EXTENDS Trades

VARIABLES
  id,      \* the last order number given out
  table    \* table[i]: order i with what is left of it, or NoOrder

vars == <<id, table>>

Init == id = 0 /\ table = [i \in OrderId |-> NoOrder]

Submit(req) ==
  /\ CheckRequest(req)
  /\ id < MaxOrders
  /\ id' = id + 1
  /\ table' = Submitted(table, id + 1, req)

Cancel(i) ==
  /\ table[i] # NoOrder
  /\ table' = [table EXCEPT ![i] = NoOrder]
  /\ UNCHANGED id

Next ==
  \/ \E req \in Requests : Submit(req)
  \/ \E i \in OrderId : Cancel(i)

Spec == Init /\ [][Next]_vars

=============================================================================
