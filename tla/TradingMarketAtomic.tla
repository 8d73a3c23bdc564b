------------------------- MODULE TradingMarketAtomic -------------------------
(***************************************************************************)
(* With one handler thread, TradingMarket implements AtomicMarket.         *)
(*                                                                         *)
(* A request takes effect when its thread takes it up (TakeNumber,         *)
(* CancelLookup): what the thread does from then on is determined, so the  *)
(* abstract table is the table as it will be when the thread is idle again.*)
(***************************************************************************)
EXTENDS TradingMarket, Trades

\* The orders a matching loop that is under way has yet to visit: those of the
\* opposite set, less the one that is about to leave it.
ToVisit(t) == Opposite(t) \ (IF pc[t] = "retire" THEN {resting[t]} ELSE {})

\* The table at the end of a matching loop that thread t is in.
AfterLoop(t) ==
  LET tab == IF pc[t] = "retire" THEN [orders EXCEPT ![resting[t]] = NoOrder]
             ELSE orders
      o   == [mine[t] EXCEPT !.qty = @ - cnt[t]]
      m   == Matched(tab, o, ToVisit(t))
  IN  [m.tab EXCEPT ![oid[t]] = Residue(o, m.left, TRUE)]

\* The table when thread t will have finished the request it is at.
Outcome(t) ==
  CASE pc[t] = "idle" -> orders
    [] pc[t] \in {"insert", "lockOpp", "select"} \cup Creating ->
         Submitted([orders EXCEPT ![oid[t]] = NoOrder], oid[t], mine[t])
    [] pc[t] \in {"scan", "retire"} -> AfterLoop(t)
    [] pc[t] \in {"lockOwn", "rest", "drop"} ->
         [orders EXCEPT ![oid[t]] = IF @.qty = 0 THEN NoOrder ELSE @]
    [] pc[t] \in Canceling -> [orders EXCEPT ![oid[t]] = NoOrder]

\* The only thread.
Handler == CHOOSE t \in Threads : TRUE

Atomic == INSTANCE AtomicMarket WITH table <- Outcome(Handler)

\* Every request is atomic: the steps by which a submission numbers, inserts,
\* matches and rests an order, and those by which a cancellation erases and
\* unlists one, add up to one step of AtomicMarket.
Atomicity == Atomic!Spec

=============================================================================
