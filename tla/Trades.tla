------------------------------- MODULE Trades -------------------------------
(***************************************************************************)
(* How a new order trades with the orders of a table: earliest first, with *)
(* those it is compatible with, until nothing is left of it; what is left  *)
(* rests.  These are operators on any table, whoever keeps it.             *)
(***************************************************************************)
EXTENDS Orders, SequencesExt

\* The orders of a table that order `o` can be matched against.
Candidates(tab, o) ==
  {r \in OrderId : tab[r] # NoOrder /\ tab[r].stock = o.stock /\ tab[r].dir = Opp(o.dir)}

\* Order `o`, with m.left of it left, gets to order r of table m.tab.
Visit(o, m, r) ==
  LET e == m.tab[r]
      n == Least(e.qty, m.left)
  IN  IF m.left = 0 \/ ~Compatible(o, e) THEN m
      ELSE [tab |-> [m.tab EXCEPT ![r] = IF e.qty = n THEN NoOrder
                                         ELSE [e EXCEPT !.qty = e.qty - n]],
            left |-> m.left - n,
            trades |-> Append(m.trades, [with |-> r, qty |-> n, left |-> m.left - n])]

\* The outcome of matching `o` against the orders `ids` of a table: the table that
\* is left, what is left of `o`, and the trades that were made, in turn.
Matched(tab, o, ids) ==
  LET upTo[r \in 0 .. MaxOrders] ==
        IF r = 0 THEN [tab |-> tab, left |-> o.qty, trades |-> <<>>]
        ELSE IF r \in ids THEN Visit(o, upTo[r - 1], r)
        ELSE upTo[r - 1]
  IN  upTo[MaxOrders]

\* What comes to rest of order `o` when `left` of it has not traded; it has
\* been through the matching loop, and takes its price, if there were candidates.
Residue(o, left, visited) ==
  IF left = 0 THEN NoOrder
  ELSE [o EXCEPT !.qty = left, !.price = IF visited THEN Repriced(o) ELSE @]

\* The table after order `o` has been submitted as number i.
Submitted(tab, i, o) ==
  LET ids == Candidates(tab, o)
      m   == Matched(tab, o, ids)
  IN  [m.tab EXCEPT ![i] = Residue(o, m.left, ids # {})]

=============================================================================
