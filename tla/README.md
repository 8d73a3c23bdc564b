# Verification of Order_Process_System

TLA+ models of the order processing system in `src/`, model-checked with TLC on
small instances, and proofs checked with TLAPS. Paths below are relative to
`src/`; `a2/` stands for `OrderProcessSystem_async_v_2/`.

## The system

The repository holds four generations of one program: a server that keeps an
order book and clients that submit, cancel and query orders over gRPC.

| generation | server | market |
|---|---|---|
| `OrderProcessSystem` | synchronous, a gRPC thread per call | inside the server, one lock around a request |
| `OrderProcessSystem_v_2` | synchronous, writes both sides' fills to their streams | a class, a mutex per stock and side, no lock on the hash tables |
| `OrderProcessSystem_async` | one completion-queue loop | as v_2, reports returned to the caller |
| `OrderProcessSystem_async_v_2` | one completion-queue loop, with queries | hash tables under reader-writer locks |

The last one is the program as it stands and is modelled in most detail.

### Components and their state

- **Requests and orders** (`a2/helper/helper.cc`, `a2/proto`). `checkRequest`
  decides which requests are legal; two orders can trade if they are of
  different clients and the asked price is at most the bid plus `MINN`.
- **TradingMarket** (`a2/market`). State: the counter `id`, the table `orders`,
  a pair of ordered sets of order numbers per stock, a pair of mutexes per
  stock, and reader-writer locks on the two hash tables. Operations:
  `processNewOrder` (check, number, insert, list the stock, match against the
  opposite set, rest), `processCancelOrder`, `processQueryOrder`. Hard: the
  regions are locked one after the other, so an order is visible in the table
  before it has been matched; a cancellation works on a copy; a filled order
  leaves the set and the table in two steps.
- **Asynchronous server** (`a2/async_server`). State: one `CallData` object per
  call, a state machine driven by the completion queue, and the map from orders
  to the streams they came on. Hard: reports are written after the last request
  has been read, one write started by the completion of the one before, some of
  them to the streams of other calls; clients disconnect.
- **Asynchronous client** (`a2/async_client`). The main thread makes calls while
  a second thread runs the completion queue over them. Hard: constructors start
  a call before they have finished initialising it.
- **First synchronous server and client** (`OrderProcessSystem`). State: `id`,
  `orders`, the sets `sell` and `buy`, one `process_mutex`. A thread per call
  reads a request, processes it under the mutex and writes one report; the
  client has a thread that writes and one that prints. Hard: the loop that
  matches erases from the set it iterates over and goes on past orders it
  cannot trade with; both ends block on a full stream.
- **Synchronous server of v_2** (`OrderProcessSystem_v_2`). The market has a mutex
  per stock and side and none on its hash tables, which now hold the streams
  too. Hard: every one of those tables is raced for; filled orders stay.
- **First asynchronous version** (`OrderProcessSystem_async`). Server and client
  are completion-queue loops over objects with a `Proceed`. Hard: reports for
  another call's order are written to its stream, out of any turn; a client
  reads only after it has written everything, a call writes only after it has
  read everything.
- Generated code, printing helpers, build files: no behaviour of interest.

### What makes each correct

- market: no order is lost, duplicated, overfilled or traded after it was
  cancelled; sets and table agree; the reports sent to clients add up; no thread
  dies or waits for ever; with one thread, each request is atomic.
- server: it always listens for the next call; every report is written once, to
  the stream of the order's owner, in order; no report is forgotten unless a
  client is gone.
- client: every request of a file is sent, nothing else becomes an order but the
  leftovers of a file that breaks off, every report is printed once, no object is
  used before it is initialised or after it is deleted.
- first synchronous version: every request is answered, in turn, by what became
  of it; trades balance; a client that stops reading holds up nobody else.
- first asynchronous version: a report gets through both loops to the output of
  the one client it concerns, once.

`PROJECT.json` lists the hazards behind these properties, each at its line.

## Modules

| module | what it is |
|---|---|
| `Orders` | requests, orders, `CheckRequest`, `Compatible`, `Repriced` |
| `TradingMarket` | the class, for any number of handler threads |
| `TradingMarketInv` | its inductive invariant |
| `TradingMarketProofs` | the proofs, for any number of threads and for one |
| `Trades`, `TradesProofs` | matching as an operator on tables, and lemmas about it |
| `AtomicMarket` | the abstract market: a request is one step on one table |
| `TradingMarketAtomic` | the refinement mapping from `TradingMarket` to it |
| `AsyncServer` | the completion-queue loop and its state machines, over `AtomicMarket` |
| `AsyncServerInv`, `AsyncServerProofs` | its inductive invariant and the proofs |
| `AsyncClient` | the client's two threads, its call objects and its file reader |
| `AsyncClientInv`, `AsyncClientProofs` | its inductive invariant and the proofs |
| `SyncMarket` | the server and the market of v_2, a thread per call |
| `SyncMarketInv`, `SyncMarketProofs` | its inductive invariant and the proofs |
| `GlobalLockServer` | the first synchronous version, its server and its clients |
| `GlobalLockServerInv`, `GlobalLockServerProofs` | its inductive invariant and the proofs |
| `FirstAsync` | the first asynchronous version, both loops and its market, which implements `AtomicMarket` |
| `FirstAsyncInv`, `FirstAsyncProofs` | its inductive invariant and the proofs |
| `DataInduction` | induction over numbers and finite sets, and sums, for the proofs |
| `MCTradingMarket`, `MCAsyncServer`, `MCAsyncClient`, `MCSyncMarket`, `MCGlobalLockServer`, `MCFirstAsync` | instances for TLC |

`Orders` is under every module. `Trades` says what matching makes of a table;
`AtomicMarket` and the reports of `AsyncServer` are built from it. `AtomicMarket` is what `TradingMarket` and the
market of `FirstAsync` implement, and what `AsyncServer` stands on.

### TradingMarket

The variables `id`, `orders`, `book` (the resting sets), `listed` (the stocks in
`sell_buy_containers` and `stock_mutex`) and `mutex` are the members of the
class. `pc`, `oid`, `mine`, `cnt` and `resting` are the locals of a thread:
`orderID`, the local copy `order`/`sellOrder`/`buyOrder`, `cnt`, and the order
just traded with. `fault` says how the process died. `placed`, `filled`,
`leave`, `cancels` and `cancelLeave` record what the reports said; no action
reads them.

The code's mirror images (`sellOrders`/`buyOrders`, `.first`/`.second`) are one
definition with the side as a parameter. Actions end where a lock is released or
taken, so threads interleave where the code lets them:

    processNewOrder     RejectOrder | TakeNumber, InsertOrder,
                        FindStock | MissStock, (BeginInsertStock, EndInsertStock | SkipInsertStock),
                        SkipMatching | LockOpposite, SelectOwn, (Fill, Retire)*, EndScan,
                        LockOwn, Rest | Drop
    processCancelOrder  RejectCancel | CancelLookup, CancelMiss | (CancelErase, CancelUnbook)
    processQueryOrder   QueryOrders (answers QueryReport)

The ways to die are actions too: `Throw` (`orders.at` of an order that is gone),
`RaceOnStockMutex` and `RaceOnAlter` (the data races of the unlocked
`stock_mutex[...]` and of `alterOrder` under a shared lock; the outcome in which
nothing bad happens is the ordinary action), `NullMutex` (`operator[]` makes up
null mutexes). `FaultOnlyInFlight` says which threads must have met for each of
them.

A CANCELED report repeats the copy of the order that `processCancelOrder` made
before it locked the set. With one thread its `leaveQty` is right (`AnswersAgree`);
with several it may miss trades made meanwhile, and `Accounting` says that this
is all that can be wrong with it: it lies between what is left of the order and
what it was placed for.

Left out: prices of fills, times, error texts. Prices are integers in units of
`MINN`. Order numbers and quantities are natural numbers; the proofs show that
no subtraction goes below zero, so the 32-bit quantities never wrap around.

### AsyncServer

One step per `Proceed`. `call[c]` is the CallData object with its one pending
operation and that operation's event; `received[c]` is what has reached the
client, each report named by the call that made it and its index there. A
client sends the requests of its file and half-closes, as `a2/async_client`
does, or disconnects. A query takes its reports from the table in one step,
sorted by order number (`Snapshot`). Requests to the market are atomic, which the run
`market_shipped` shows of a single handler thread. gRPC is an environment: reads
and writes complete at any time after they are started; a write to a client that
is gone fails, or succeeds to no effect. A write to a stream on which another
call's write is pending makes gRPC abort the process (`Overlap`). Pending means
that its event has not been taken from the completion queue, not only that the
bytes are not out: the API wants the tag of a write received before the next
one, and the library keeps the operation's place in the call until then. The same
holds of `FirstAsync`.

A failed write ends the chain of the call that made it. That harm is in the code;
`NoneAbandoned` and `AllReported` say how far it goes: a chain ends early only
right after a report for a client that is gone, and reports are lost only if they
are made by a call that has made one for such a client.

### AsyncClient

`call[c]` is the call object of a command: the members of the class, what the
server will stream back (`reports`, a number of reports; report k is the k-th of
the stream), the report in the read buffer and the operation that is pending.
The main thread makes an object and starts its call in one step. What the
constructor still assigns after that is in `todo` and takes a step each, so the
completion queue thread can run `Proceed` in between: on a null responder, to
delete the object, or to set a state that the constructor then overwrites. These
races are in the code. `raced` records them, and `FaultOnlyRaced` says that
nothing else kills the client.

A request file is what can be got out of it: whether there is anything to read,
the number it starts with, the complete orders that follow, and the first `got`
fields of one it breaks off in (`part`). Variables that `fin >> ...` does not fill
keep their value: those of the order before (`ReadPart`), or, in the first order,
uninitialised ones, drawn from `Garbage`. In `Garbage` the strings are empty, as a
`std::string` always is, and so the stock is empty, the type not LIMIT and the
direction not SELL. So a file that ends inside its first order, after the stock,
sends an order with a quantity and a price that nobody wrote, and one that ends
inside a later order sends a mixture of two. `SentFromFile` says that these are
the only ways in which something that is not in the file becomes a legal order.

gRPC fills `report_` when the thread that runs the queue takes the event of the
Read, and the same thread prints it right after that, so posting the next Read
first does no harm; that is why `ReadAndPrint` is one step. Every report the client gets has a
client number above 0, because the server reads over requests without one; so
the test `clientid()>0` before printing is whether a report has been read.

### SyncMarket

One thread per call, as gRPC runs a synchronous service: `Sessions` are
PushNewOrder calls with their streams, `Cancelers` run PushCancelOrder calls one
after the other. `Locks` and `Held` say under which mutexes a thread's next step
runs and which it has already, and stand for all the `lock_guard`s. `Fill`
writes both FILL reports, as the code does inside the loop; `told` is the last
`leaveQty` written for an order.

The hash tables have no locks of their own. Where two threads are at one table
or one stream, one of them to change it, without a mutex in common (`Writes`,
`Reads`), the outcomes are the two orders of their steps and the death of the
process (`Race`). Also deadly: the reference to an order that a cancellation has
erased, the stream of a call that has ended, and the null mutexes `operator[]`
makes up. `EraseOrder` takes an order out of its set, the table and
`orderID_stream` in one step: the erasing thread has `cancel_mutex` and the mutex
of the order's side all along, so the only other thread that can look the order up
in between is the one that created it, and it finds there what it would find
before or after the step, or races. `Ghost` is the empty order it makes up. Legal requests are received
while the table has room (`MaxOrders`).

### GlobalLockServer

A session is a call of `PushNewOrder` with both of its ends. The server thread
runs `ReadRequest | EndRequests`, then for a legal request `CreateOrder`, `Fill`
for each pass that trades, `Settle`, and in any case `WriteReport`. The variable
`lock` is `process_mutex`: it is taken in `CreateOrder` and given back in
`Settle`. The read, the write and `checkRequest` are outside it, as in the code.
`PushCancelOrder` is one step under the mutex, because nothing in it waits.

The client's writer thread runs `WriteRequest` and `WritesDone`, its main thread
`PrintReport`, `EndReports` and `Finish`, which waits for the writer as `join`
does. `call[s]` holds the two directions of the stream as the counters of what
each end has written and read; a direction takes `Window` messages, after which
a write waits. A client may stall for ever or lose its connection (`Fail`).

Three things differ from the later versions, and are modelled as they are: the
empty stock is legal; orders of one client trade with each other; and only the
later order of a trade is told of it, in the one report that answers it, which
for a purchase is FILL even if nothing traded (`server.cc:218`). CURRENT is
`MARKET` here.

### FirstAsync

`srv[c]` is the server's `CallData` object of call c and `cli[c]` the client's,
each with its pending operation; `up[c]` and `down[c]` are the messages on their
way. A step completes one operation and runs the `Proceed` its event leads to,
to its end: each end has one thread for its loop, so nothing comes between. The
exception is the constructor of the cancelling client, which runs in the main
thread and goes on to use members after it has posted `Finish`
(`EndConstructor`).

The market is one operator, `AcceptOrder`, whose recursion (`AllPasses`) goes
through the opposite set in order. `Atomic` says that it implements `AtomicMarket`: filled orders,
which this version keeps in the table, map to none. They can still be cancelled,
which changes nothing of the abstract market.

Each client makes one call. Two calls of one client share only its queue, which
is taken one event at a time anyway. The client prints a report before the
first one is read (`PrintBlank`): a blank ORDER_ACCEPT.

## Runs

| run | instance | what it shows |
|---|---|---|
| `market_shipped` | 1 thread, 4 orders, 14 requests, 2 stocks | the market as shipped never dies, leaves no crossed book (MARKET orders excepted), agrees with its reports, and implements `AtomicMarket` |
| `market_threads` | 3 threads (symmetric), 3 orders, 5 requests | the inductive invariant and the safety properties it implies, over all interleavings |
| `market_live` | 2 threads, 3 orders | every request taken up is finished |
| `server` | 3 client calls, 1 disconnection, 3 orders | the inductive invariant, of calls and of reports; listeners, streams, order and completeness of reports, when gRPC aborts |
| `server_live` | 2 client calls, 4 orders | every report reaches its client |
| `client` | 2 commands, 6 kinds of file, 2 reports | the inductive invariant; requests are sent as filed or made of what a file leaves behind, reports printed in order, faults only in raced constructors; queries and cancellations end, connected or not |
| `sync` | 2 sessions (symmetric), 1 canceler, 3 orders | the inductive invariant; table, sets, reports and streams agree; faults need overlap or a client that left |
| `global` | 2 calls with their clients, 1 canceler, 3 orders, streams of 1 message, 1 client stalls or is lost | the inductive invariant; the book stays uncrossed and trades balance; each request gets its own answer, in turn; nobody waits for a stalled client |
| `first` | 2 files, 1 cancellation, 3 orders, 1 connection lost | the inductive invariant; the market implements `AtomicMarket`; each report reaches the output of the right client, once |
| `market_priced` | violated | a MARKET order may rest at the price of its request |
| `server_total` | violated | `orderQty` of a FILL is not the total of the order |
| `sync_canceled` | violated | a filled order is reported CANCELED |

Why the bounds are enough. Three threads are one to match, one to be matched
against and one to cancel either, all in flight at once. Three orders are the
fewest with which one order trades twice and another passes it. The requests
hold a sale that needs two purchases, an order of the same client, one priced
within `MINN`, one of a second stock and each kind of illegal request. In the
server, three calls are a resting order's call and two calls whose trades with
it are written at the same time; the file with a request of no client, a
rejected one and an accepted one takes every branch of the reading half. In the
server `MaxOrders` is at least the number of legal requests that can be sent
wherever liveness is checked, so that the bound never blocks a call.
`MaxGone` bounds disconnections.

In the client, calls share nothing but the queue thread, so two of them show all
interference there is; the files are a good one, one that holds fewer orders than
it says, one that breaks off in its second order and one in its first, one that
only says how many it holds, and one that cannot be read. In `sync`, two submissions and a cancellation, with `cancel_mutex` serialising
cancellations, are all that can meet at one order; three orders let a purchase
of two be filled by two sales or pass over one it cannot pay for; one request has
the empty stock, which this version
takes for legal and for which a made-up order can find a mutex. MARKET orders
are left to `market_shipped`: their repricing is the same there.

In `global`, two calls and a cancellation are one thread in the region of the
mutex and two that wait for it; the files bring a purchase that a sale has to go
past, one it trades with in part, a sale at the market's price, an illegal
request and one of the empty stock. A stream of one message makes every write
wait that can. In `first`, a sale takes two purchases of another call to fill,
so each call writes to the other's stream, and a purchase goes past a sale it
cannot pay for; `Window` 0 makes a write complete
only when its message has been read, which is the longest that an operation can
be pending. One fault is enough in both: calls only meet in the market and, in
`first`, on each other's streams.

Deadlock is not checked in the client and in `sync`, which stop when the bounded
number of commands is given, the sessions have ended or the process has died; nor
in the servers, which stop when the bounded number of clients is served. In the
market an idle thread can always take a query, so it is `RequestsComplete`, not
the deadlock check, that excludes threads that wait for each other.

Fairness. `FairSpec` of the market gives each thread weak fairness: the operating
system runs a thread that can run. That is enough because the bounded number of
orders bounds the competition for a mutex; starvation under unbounded load is
not excluded. `FairSpec` of the server assumes that the handler thread takes
events from its queue and that an operation with a live client completes.
`FairSpec` of the client assumes that both threads run and that operations
complete, except a Read for which the server has nothing. `FairSpec` of
`GlobalLockServer` gives weak fairness to each server thread and to the two
threads of each client; `process_mutex` is taken once per request of a finite
file, so weak fairness is enough for a waiting thread to get it. `FairSpec` of
`FirstAsync` assumes that a completion queue hands out every event and that its
loop takes it. Arrivals, commands, stalls and disconnections are not fair.

### What is violated

- `MarketPriced`: `market.cc:203` says a MARKET order takes the market price, but
  it is done by the matching loops, which are skipped when the opposite set is
  empty.
- `OneTotal`: the protocol calls `orderQty` the total of the order; FILL reports
  of a resting order carry what was left of it.
- `CanceledWasOpen`: the protocol calls CANCELED a cancellation that succeeded; in
  v_2 a filled order stays in the table, and cancelling it is reported CANCELED.

With several threads the market also fails `NoFault`, `Uncrossed` and
`AnswersAgree`, which is why these are checked with one thread, as the server
has; `FaultOnlyInFlight` says exactly which failures several threads can cause.

Seen while modelling, and kept in the models: `Run` of the server joins the first
of its handler threads, which never returns, so that there is never a second one;
the first server calls every accepted purchase FILL; the first asynchronous
client prints a blank report first.

## Proofs

TLAPS checks every proof for any value of the constants that satisfies the
modules' assumptions: any number of threads, stocks and orders, and any requests.
Nothing is assumed beyond `OrdersAssumption`, `ThreadsAssumption`,
`SyncAssumption`, `GlobalLockAssumption`, `CallsAssumption`, `ClientAssumption` and
`FirstAsyncAssumption`, which TLC evaluates on the instances. They say that the
made-up values (`NoOrder`, `NoCall`, `Free`, `NoStock`) are not among the real
ones, that bounds are natural numbers, and that files are what a request file can
hold; and, in `ClientAssumption`, two facts of C++: a file that cannot be opened
gives nothing, and in the variables that are never read (`Garbage`) the strings
are empty, so that only the numbers are arbitrary.

### DataInduction and TradesProofs

The library's induction theorems have an operator as a parameter, which the
provers cannot instantiate. `DataInduction` states induction for a set of values
instead (`CountingSet`: a set of numbers that has 0 and the successor of each
below a bound has them all; `FiniteSetSet` and
`SubsetsSet` for finite sets and their subsets), which is first-order: a proof
names the set of values for which its claim holds. What that cannot give is a
recursive function; that one exists is proved by induction first (`SumsExist`).
The sums of the community modules (`SumFunctionOnSet`) then get the lemmas a
ledger needs: `SumWithout`, `SumChange`, `SumConcat`, `SumZero`.

`TradesProofs` does the same for the recursion of `Matched`: `UpToSteps` unfolds
it, `OutcomeUpTo` says at each order number what the table, the remainder and
the trades are (no order is made or grows, each trade is with a candidate and of
no more than both sides had), and `SubmittedFacts` what that makes of a table.
Matching also comes apart: only the candidates of a table count (`MatchedAlike`),
an order that can trade with none of them changes nothing (`MatchedNone`), and a
first trade followed by the matching of what is left is the whole
(`MatchedFirst`).

### TradingMarket

`TradingMarketProofs` proves that `TradingMarket` keeps `IInv` (`Invariance`), and
from it type correctness, mutual exclusion of the regions on a resting set,
agreement of sets and table, the accounting of quantities, at-most-once
cancellation, and that only orders in flight and threads that meet in a table can
make the process fail; from
`IInv` and one more step argument, that cancellation of a resting order is final
(`CancellationIsFinal`). Its last part proves of a single thread that the process never dies (`SingleThreadNeverDies`), that it leaves no crossed book
(`SingleThreadUncrosses`), that queries and cancellations agree with the
reports (`SingleThreadAgrees`), and that it implements `AtomicMarket`
(`SingleThreadIsAtomic`).

Why the invariant is what it is. `BookIsLive` and `NoOrphan` are not inductive by
themselves: that an order leaves set and table together depends on who holds
which mutex (`LockInv`), on what the holder has in its locals (`InTransit`), on
the copies having the stock and side of the table (`SameStockAndSide`), and on
no two threads creating the same order (`Numbering`). These form `BookInv`,
inductive by itself. On top of it, `Accounting` needs to know what a matching has
traded so far (`Trading`) and how old the copy of a cancellation can be
(`CanceledCopy`), `CanceledOnce` that a
cancelled order is gone and its canceller alone (`CancelOnce`),
`FaultOnlyInFlight` that an order in flight disappears only by cancellation
(`InFlightGone`) and that mutexes exist for every stock out of `createOrder`
(`StockListed`). Each lemma about a step has one case per action.

With one thread (`Alone`), `Uncrossed` needs that no LIMIT order at rest can trade
with an earlier order of the opposite set, and that the order in flight, once it
has been matched and has something left, can trade with none of them (`Settled`):
what a scan has passed over it could not trade with, a resting order keeps its
terms, and its price test reads the same from both sides (`CompatibleBothWays`).
`AnswersAgree` needs that from the look-up of a cancellation to its report, and
ever after, what the report says is left and what was filled are the whole order
(`LastWord`): with one thread nothing is traded in between.

For the refinement the abstract table is the table as the request in hand will
leave it (`Outcome`), so a request is the abstract step when the thread takes it
up, and every later step must leave `Outcome` as it is. For the steps of the
matching loop that is what the lemmas about `Matched` say: entering the loop is
`MatchedAlike`, a trade is `MatchedFirst`, and the end of the loop is
`MatchedNone`. `BookIsLive` and `NoOrphan` make the opposite set the set of
candidates, and `Own` says that the order in flight is still the one that was
asked for.

### GlobalLockServer

`GlobalLockServerProofs` proves `IInv` inductive (`GlobalInvariance`) and from it
type correctness, `BookSettled`, `Answered` and `Balanced`, for any number of
sessions and cancelers, with clients that stall and connections that are lost.

`MarketInv` is inductive by itself. The book parts (`BookInTable`, `TableInBook`,
`Uncrossed`) need to know that the thread between `CreateOrder` and `Settle` has
the mutex to itself (`LockHeld`) and that its order is the newest, in the table,
in no set, and has traded no more than it asks for (`Matching`). `Uncrossed` is
kept by `Settle` because nothing fits any more: an order that was passed over
does not match, or there is nothing left to rest.

`Answered` follows a request from the file to the report. `AtWork` says that the
request a thread works on is the one it has read last, and that a report waiting
to be written answers it. Reports quote the history of their order; that no
later step changes it is the point of `Settled`: only the thread with the mutex
writes to the history, and only for order `id`, which no report mentions yet.
`FrameStep` and the lemmas after it carry `Answered` and `Working` over the steps of other
threads; one lemma per action does its own thread.

`Balanced` is about sums over all orders: of each stock, as much is sold as
bought. It fails in the middle of a matching, where the resting orders have
traded and the entry of the new one does not say so yet. `Ledger` says by how
much: only the stock being matched is uneven, by `cnt`. A `Fill` changes one
term of a sum and `cnt` by as much; `Settle` puts `cnt` where it belongs;
a cancellation moves what was left of an order from the table to `withdrawn`
(`Recorded`).

### SyncMarket

`SyncMarketProofs` proves `IInv` of v_2's market inductive (`Invariance`), and from
it type correctness, `BookIsLive`, `Accounting`, `Uncrossed`, `FaultNeedsOverlap`
and `CanceledIsFinal`, for any number of calls.

Here most of what is wanted holds only as long as no two requests have
overlapped, but the invariant has to last beyond that: no subtraction may go
below zero even after a race. So it has two parts. What always holds: an order
is matched by one thread (`Flights`), erased by one (`Erasing`), listed only while
its entry, its stream and its last report agree (`Booked`), and never filled
beyond its size (`Left`, `Matching`). What holds until something overlaps
(`Alone`): one busy thread, mutexes for every stock in the table, and no two
LIMIT orders that could trade, which the loop establishes although it erases
from the set it walks over. `CanceledIsFinal` is unconditional: an order that has
been reported CANCELED has no part in a trade again and is in no resting set again,
since all that `operator[]` can make up in its place is empty (`Canceled`).

### AsyncServer

`AsyncServerProofs` proves `IInv` inductive, in two parts, and from it all the
safety properties of the run, for any number of calls, orders and clients.
`ServerInv` (`ServerInvariance`) says nothing of the table and of what reports
contain: how calls are driven does not depend on it, so `OneListener`, `InOrder`
and `NoneAbandoned` hold whatever the market answers. `ReportInv`
(`ReportInvariance`) is about the reports, and gives `RightStream`, `FillsAddUp`
and `OverlapNeedsTrade`.

`Phase` ties the fields of a CallData object to the operation it has pending;
`Listening` has one unaccepted call of each kind at any time. `InOrder` follows
from `Delivered`: what a call has sent so far is numbered below what it is
sending, and only the event of a write starts the next one. `NoneAbandoned`
follows from `Stopped`: the write that failed, or after which a call has stopped, was
to a client that is gone (`ToGone`), and clients that are gone stay gone. A step is about one call: `OwnStep` is for a call that has
been accepted, `AcceptStep` for its acceptance. The latter has to show that the
number of the new listener is within the bound, which is a count: of all calls
made, at most the other two listeners have no client (`RoomForListener`).

`ReportInv` ties a report to its order, the order to its responder and the write
to both. `Legit` is what a report of a new-order call can be: of no order, an
acceptance filed under that very call, or a FILL of an order that exists.
`Responders` has each order belong to the call that accepted it, for ever, so the
call a report is meant for (`MeantFor`) never changes; `Sending` and `Got` say that
reports are under way and received where they are meant for. A step that makes
no report of a new-order call keeps all of this (`FrameStep`); the two that do
only add some (`GrowStep`). That the additions balance is a statement about the
recursion of `Matched`: its FILL reports say, at each order number, what has gone
from the new order and from each resting one (`MatchedAccounted`). `FilledOf`, a
sum of sums, grows by exactly that (`FilledOfMore`), and by all of it for the new
order, which no report mentioned before.

For `OverlapNeedsTrade`, a busy stream has two writers. If the second is not
writing to its own, its report is another call's FILL; if it is, the first's is,
because a query writes only to itself and an acceptance is for its own call.

### AsyncClient

`AsyncClientProofs` proves `IInv` inductive (`ClientInvariance`), and from it type
correctness, `FaultOnlyRaced`, `PrintedInOrder` and `SentFromFile`, for any number
of commands, any files and any number of reports.

The faults need two steps in the wrong order: the queue's thread handles an event
of a call that is still `UnderConstruction`, which is when the call becomes
`raced`. Of any other call `Phase` knows that it has its responder (`Assigned`)
and at which operation it is, so it is never finished twice. `Caught` keeps what is
printed one behind the buffer while a Read has brought something that has not
been printed; `Sent` keeps the counter at the number of requests written, and
every request read at a line of the file or at what a failed read leaves behind
(`FromFile`): the variables as the last complete order, the broken one or nobody
has set them.

### FirstAsync

`FirstAsyncProofs` proves `IInv` inductive (`FirstInvariance`), and from it type
correctness, `Printed` and that the market implements `AtomicMarket`
(`FirstIsAtomic`), for any number of clients, files, cancellations and lost
connections.

The loop of `sellOrders` and `buyOrders` is a recursion over the order numbers
(`AllPasses`), and what it does is proved pass by pass (`PassedUpTo`): no quantity
grows or changes its terms, and the reports it makes begin with the ORDER_ACCEPT
and come in turn for each order. `PassesReflect` runs it beside the recursion of
`Matched` in `Trades`: what one leaves of the table, without the orders that are
filled, is what the other leaves. Together with `Resting`, that the resting sets
are those of the table's orders that are not filled, this makes a `ProcessRequest`
a `Submit` of `AtomicMarket` (`AcceptSubmits`); a cancellation is a `Cancel`, or
nothing if the order was filled (`DropCancels`).

`Printed` is about reports that several calls hold and write in no fixed order.
What keeps them apart is `InTurn`: of two reports of one order, whichever calls
hold them, one is of a trade with what the other has left. So no two are alike,
a report that is about to be written cannot be on the stream already
(`NextReport`), and the trades that a client is told of, in whatever order, are
runs of numbers between what is left of its order and what it was accepted for
that do not overlap: together they are no more than that (`RunsFit`, `ToldBound`).
`Numbered` says that an order's responder is the call that was told of it, and
never changes; `Streaming` that what has been written and not lost is `MeantFor`
its client. New reports come in turn with all that there are because none says
that less is left than there is (`Legit`); `GrowStep` shows that for the two steps
that make reports, `FrameStep` carries the invariant over all the others that
make none.

### Only model-checked

- Liveness (`RequestsComplete`, `AllReported`, `CallsComplete`, `Served`, `Told`):
  fairness and ENABLED are beyond the prover.

Every invariant, action property and refinement that a passing run checks is
proved.

## Plan

Done: every generation's server and market, the clients of three, the refinement
of two markets to `AtomicMarket`, checked and proved, and the proofs above. What
could still be added:

- `SyncMarket` against `AtomicMarket`, for as long as no two requests overlap.

## Not modelled

- The client of v_2 is that of the first version with `WritesDone` commented out:
  its call never ends and `join` never returns. `GlobalLockServer` without
  `WritesDone` would say no more than that.
- The reader of request files of the first versions is the one of `a2/`, which
  `AsyncClient` models. Their models start from the requests it returns.
- The client of the first `PushCancelOrder` makes one blocking call.
- The mutexes of the market in `OrderProcessSystem_async`: its only thread never
  finds one locked.
- Start-up and shutdown, printing helpers, time stamps, error texts, generated
  protocol code, the gRPC library (modelled only as the environment), build
  files and sample requests.
