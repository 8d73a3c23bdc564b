---------------------------- MODULE MCFirstAsync ----------------------------
(* A small instance of FirstAsync for TLC. *)
EXTENDS FirstAsyncInv

CONSTANTS A, p1, p2   \* the stock and the new-order calls

Buy(c, q, p)  == [client |-> c, stock |-> A, dir |-> "BUY", kind |-> "LIMIT",
                  qty |-> q, price |-> p]
Sell(c, q, p) == [Buy(c, q, p) EXCEPT !.dir = "SELL"]

\* A sale that takes two purchases to fill, the second a market order, which may
\* find nothing and keep its price; a purchase that passes over a sale it cannot
\* pay for to one that it can; and a file of a request that is read over, one that
\* is rejected and one of the empty stock.
FirstStarts ==
  {p1 :> <<Sell(1, 2, 20)>> @@
     p2 :> <<Buy(2, 1, 20), [Buy(2, 1, 30) EXCEPT !.kind = "MARKET"]>>,
   p1 :> <<Sell(1, 1, 30), Sell(1, 1, 20)>> @@ p2 :> <<Buy(2, 1, 20)>>,
   p1 :> <<Buy(0, 1, 20), Buy(1, 0, 20), [Buy(1, 1, 20) EXCEPT !.stock = NoStock]>> @@
     p2 :> <<>>}

FirstRequests == UNION {ToSet(f[c]) : f \in FirstStarts, c \in Pushes}

=============================================================================
