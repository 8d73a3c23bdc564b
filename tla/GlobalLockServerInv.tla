------------------------ MODULE GlobalLockServerInv -------------------------
(***************************************************************************)
(* The inductive invariant of GlobalLockServer.                            *)
(***************************************************************************)
EXTENDS GlobalLockServer

\* process_mutex belongs to the thread in the region it protects.
LockHeld == \A s \in Sessions : lock = s <=> pc[s] = "match"

\* Orders in the table have a side, and no number above id is in use.
Numbered ==
  \A i \in OrderId :
    /\ orders[i] # NoOrder => orders[i].dir \in Side
    /\ i > id => orders[i] = NoOrder

\* What a cancellation asks for is an order number.
Asked == \A c \in Cancelers : pc[c] = "lock" => oid[c] \in OrderId

\* A thread that locks has a legal request; one that has locked has made an
\* order of it, which does not rest yet, and trades no more than it asks for.
Matching ==
  \A s \in Sessions :
    /\ pc[s] \in {"lock", "match"} => Legal(mine[s])
    /\ pc[s] = "match" =>
         /\ oid[s] = id /\ id \in OrderId
         /\ orders[id] = mine[s] /\ placed[id] = mine[s]
         /\ cnt[s] <= mine[s].qty
         /\ \A st \in AnyStock, d \in Side : id \notin book[st][d]

\* What holds of the market.
MarketInv ==
  /\ TypeOK /\ LockHeld /\ Numbered /\ Asked /\ Matching
  /\ BookInTable /\ TableInBook /\ Uncrossed

\* An order number that no thread is working on.
Settled(i) == i <= id /\ (lock # Free => i # id)

\* Where a thread is with the request it has taken, and what its report says.
AtWork(s) ==
  /\ pc[s] \in {"lock", "match", "write"} =>
       /\ call[s].taken > 0 /\ mine[s] = call[s].file[call[s].taken]
  /\ pc[s] = "write" =>
       /\ AnswerTo(report[s], mine[s]) /\ Settled(report[s].order)
       /\ report[s].order # 0 =>
            \A k \in DOMAIN call[s].answers : call[s].answers[k].order < report[s].order
  /\ \A k \in DOMAIN call[s].answers : Settled(call[s].answers[k].order)

Working == \A s \in Sessions : AtWork(s)

\* What has become of each order: no more of it is told or withdrawn than there
\* was, and an entry of the table is of the stock and side that were accepted.
Recorded ==
  \A i \in OrderId :
    /\ placed[i] = NoOrder <=> i > id
    /\ i > id => withdrawn[i] = 0 /\ filled[i] = 0
    /\ withdrawn[i] > 0 => orders[i] = NoOrder
    /\ placed[i] # NoOrder => placed[i].dir \in Side
    /\ orders[i] # NoOrder => placed[i].stock = orders[i].stock /\ placed[i].dir = orders[i].dir
    /\ Traded(i) \in Nat /\ filled[i] <= Traded(i)
    /\ i = id /\ lock # Free => filled[i] = 0

\* Only the stock of the order that is being matched is not even, by what the
\* order has traded so far: its entry and its report do not have that yet.
Ledger ==
  /\ lock = Free => \A st \in AnyStock : Even(st)
  /\ \A s \in Sessions : pc[s] = "match" =>
       /\ \A st \in AnyStock : st # mine[s].stock => Even(st)
       /\ Volume(mine[s].stock, Opp(mine[s].dir)) = Volume(mine[s].stock, mine[s].dir) + cnt[s]
       /\ Told(mine[s].stock) = Volume(mine[s].stock, mine[s].dir)

Accounts == Recorded /\ Ledger

\* The inductive invariant: what holds of the market, what each client has got,
\* where each thread is in between, and what has been traded.
IInv == MarketInv /\ Answered /\ Working /\ Accounts

=============================================================================
