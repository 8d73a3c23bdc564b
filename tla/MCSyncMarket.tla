---------------------------- MODULE MCSyncMarket ----------------------------
(* A small instance of SyncMarket for TLC. *)
EXTENDS SyncMarketInv, TLC

CONSTANT A   \* a stock

Buy(c, q)  == [client |-> c, stock |-> A, dir |-> "BUY", kind |-> "LIMIT",
               qty |-> q, price |-> 20]
Sell(c, q) == [Buy(c, q) EXCEPT !.dir = "SELL"]

\* Two orders that trade, one for which the price is too high, one for the empty
\* stock, which is legal here, and one that is not legal.
SyncRequests ==
  {Buy(1, 2), Sell(2, 1), [Sell(2, 1) EXCEPT !.price = 30],
   [Sell(1, 1) EXCEPT !.stock = NoStock], Buy(0, 1)}

Symmetry == Permutations(Sessions)

=============================================================================
