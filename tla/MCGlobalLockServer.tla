------------------------- MODULE MCGlobalLockServer -------------------------
(* A small instance of GlobalLockServer for TLC. *)
EXTENDS GlobalLockServerInv

CONSTANTS A, s1, s2   \* the stock and the sessions

Buy(c, q, p)  == [client |-> c, stock |-> A, dir |-> "BUY", kind |-> "LIMIT",
                  qty |-> q, price |-> p]
Sell(c, q, p) == [Buy(c, q, p) EXCEPT !.dir = "SELL"]
Market(o)     == [o EXCEPT !.kind = "MARKET"]

\* A purchase that is out of reach before one that is not, against a sale at
\* the market's price; and a request that is rejected before a sale of
\* the empty stock.
GlobalStarts ==
  {s1 :> <<Buy(1, 1, 10), Buy(1, 3, 20)>> @@
     s2 :> <<Market(Sell(2, 2, 30))>>,
   s1 :> <<Buy(0, 1, 20), [Sell(1, 1, 20) EXCEPT !.stock = NoStock]>> @@
     s2 :> <<>>}

GlobalRequests == UNION {ToSet(f[s]) : f \in GlobalStarts, s \in Sessions}

=============================================================================
