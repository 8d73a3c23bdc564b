-------------------------- MODULE MCTradingMarket --------------------------
(* Small instances of TradingMarket for TLC. *)
EXTENDS TradingMarketAtomic, TradingMarketInv

CONSTANTS A, B   \* two stocks

LimitOrder(c, s, d, q, p) ==
  [client |-> c, stock |-> s, dir |-> d, kind |-> "LIMIT", qty |-> q, price |-> p]

MarketOrder(c, s, d, q, p) == [LimitOrder(c, s, d, q, p) EXCEPT !.kind = "MARKET"]

\* Requests the market turns away: one per test of checkRequest.
Illegal ==
  {LimitOrder(0, A, "BUY", 1, 20), LimitOrder(1, NoStock, "BUY", 1, 20),
   LimitOrder(1, A, "OTHER", 1, 20), LimitOrder(1, A, "BUY", 0, 20),
   LimitOrder(1, A, "BUY", 1, 0),
   [LimitOrder(1, A, "BUY", 1, 20) EXCEPT !.kind = "OTHER"]}

\* A sale that takes two purchases to fill, purchases of the same client and of
\* another within MINN of the asked price, and an order of a second stock.
ThreadRequests ==
  {LimitOrder(1, A, "SELL", 2, 20), LimitOrder(2, A, "BUY", 1, 19),
   LimitOrder(1, A, "BUY", 2, 20), LimitOrder(2, B, "BUY", 1, 20),
   LimitOrder(0, A, "BUY", 1, 20)}

\* Both kinds, both sides, prices that match exactly, within MINN and not at all.
ShippedRequests ==
  {LimitOrder(1, A, "SELL", 2, 20), LimitOrder(2, A, "SELL", 1, 21),
   LimitOrder(2, A, "BUY", 1, 19), LimitOrder(1, A, "BUY", 2, 20),
   LimitOrder(2, A, "BUY", 3, 10),
   MarketOrder(1, A, "SELL", 1, 30), MarketOrder(2, A, "BUY", 2, 20),
   LimitOrder(2, B, "BUY", 1, 20)} \cup Illegal

\* The threads are interchangeable: nothing that is checked of several threads
\* singles one out.
ThreadSymmetry == Permutations(Threads)
=============================================================================
