------------------------------- MODULE Orders -------------------------------
(***************************************************************************)
(* The orders of OrderProcessSystem_async_v_2: what a request can carry,   *)
(* which requests are legal, and which two orders can trade.               *)
(*                                                                         *)
(* Prices are integers in units of MINN/Minn, so MINN keeps its meaning as *)
(* a tolerance of the price test; times and messages are left out.         *)
(***************************************************************************)
EXTENDS Integers

CONSTANTS
  Stocks,       \* the legal (non-empty) stock identifiers
  NoStock,      \* the empty stock identifier
  Requests,     \* the NewOrderRequests that may arrive, legal or not
  MaxOrders,    \* bound on the orders created
  Minn,         \* MINN, the tolerance of the price test
  MarketPrice,  \* the member `market`, the price given to MARKET orders
  NoOrder       \* no entry in the order table

Side    == {"SELL", "BUY"}
Kind    == {"LIMIT", "MARKET"}
OrderId == 1 .. MaxOrders

\* A request as the protocol can carry it: proto3 enums are open, so a
\* direction or a type may be none of the declared ones.
Request == [client : Nat, stock : Stocks \cup {NoStock},
            dir : Side \cup {"OTHER"}, kind : Kind \cup {"OTHER"},
            qty : Nat, price : Int]

\* A request the market has accepted; qty is what is left of it.
Order   == [client : Nat \ {0}, stock : Stocks, dir : Side, kind : Kind,
            qty : Nat, price : Int]

ASSUME OrdersAssumption ==
  /\ MaxOrders \in Nat
  /\ Minn \in Nat
  /\ MarketPrice \in Int
  /\ NoStock \notin Stocks
  /\ NoOrder \notin Order
  /\ Requests \subseteq Request

Opp(d) == IF d = "SELL" THEN "BUY" ELSE "SELL"

\* Faulty variant: the trade does not stop at what the resting order has left.
LeastOfOne(a, b) == b

Least(a, b) == IF a <= b THEN a ELSE b

\* checkRequest: which requests processNewOrder accepts.
CheckRequest(req) ==
  /\ req.client > 0
  /\ req.stock # NoStock
  /\ req.dir \in Side
  /\ req.qty > 0
  /\ req.price > 0
  /\ req.kind \in Kind

\* The two tests of the matching loops: not two orders of one client, and the
\* seller asks no more than the buyer bids, up to Minn.
Compatible(a, r) ==
  /\ a.client # r.client
  /\ LET ask == IF a.dir = "SELL" THEN a.price ELSE r.price
         bid == IF a.dir = "SELL" THEN r.price ELSE a.price
     IN  ask - Minn <= bid

\* The price an order keeps once it has been through sellOrders or buyOrders.
Repriced(o) == IF o.kind = "MARKET" THEN MarketPrice ELSE o.price

=============================================================================
