--------------------------- MODULE MCAsyncClient ---------------------------
(* A small instance of AsyncClient for TLC. *)
EXTENDS AsyncClientInv

CONSTANT A   \* the stock

Buy(c, q)   == [client |-> c, stock |-> A, dir |-> "BUY", kind |-> "LIMIT",
                qty |-> q, price |-> 20]
Unset(c, q) == [Buy(c, q) EXCEPT !.stock = NoStock, !.kind = "MARKET"]

\* A file that holds what it says, one that holds fewer orders than that, one that
\* breaks off in its second order, one in its first after the stock, one that only
\* says how many it holds, and one that cannot be read.
ClientFiles ==
  {[readable |-> TRUE, num |-> 2, lines |-> <<Buy(1, 1), Buy(1, 2)>>,
    got |-> 0, part |-> NoPart],
   [readable |-> TRUE, num |-> 3, lines |-> <<Buy(1, 2), Buy(1, 1)>>,
    got |-> 0, part |-> NoPart],
   [readable |-> TRUE, num |-> 2, lines |-> <<Buy(1, 1)>>, got |-> 5, part |-> Buy(2, 3)],
   [readable |-> TRUE, num |-> 1, lines |-> <<>>, got |-> 4, part |-> Buy(2, 3)],
   [readable |-> TRUE, num |-> 1, lines |-> <<>>, got |-> 0, part |-> NoPart],
   NoFile}

ClientGarbage == {Unset(0, 0), Unset(7, 7)}

ClientRequests == UNION {ToSet(f.lines) : f \in ClientFiles} \cup ClientGarbage

=============================================================================
