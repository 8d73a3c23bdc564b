--------------------------- MODULE MCAsyncServer ---------------------------
(* A small instance of AsyncServer for TLC. *)
EXTENDS AsyncServerInv

CONSTANT A   \* the stock

Buy(c, q)  == [client |-> c, stock |-> A, dir |-> "BUY", kind |-> "LIMIT",
               qty |-> q, price |-> 20]
Sell(c, q) == [Buy(c, q) EXCEPT !.dir = "SELL"]

\* A sale that takes two purchases to fill, and a file with a request without a
\* client, which is read over, and one that is rejected.
ServerBatches ==
  {<<Sell(1, 2)>>, <<Buy(0, 1), Buy(2, 0), Buy(2, 1)>>}

ServerRequests == UNION {ToSet(b) : b \in ServerBatches}

=============================================================================
