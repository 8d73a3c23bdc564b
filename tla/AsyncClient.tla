---------------------------- MODULE AsyncClient ----------------------------
(***************************************************************************)
(* The client of OrderProcessSystem_async_v_2: the main thread, which reads *)
(* commands and constructs a call object for each, and the thread that runs *)
(* the completion queue and calls Proceed of the object whose operation has *)
(* completed.  A constructor starts its call before it returns, so the      *)
(* other thread may run Proceed while the constructor still assigns members:*)
(* its assignments after the start are steps of their own.                  *)
(*                                                                          *)
(* gRPC and the server are the environment: operations complete in any      *)
(* order and fail once the connection is lost.                              *)
(***************************************************************************)
EXTENDS Orders, SequencesExt

CONSTANTS
  MaxCalls,    \* bound on the commands given
  MaxReports,  \* bound on the reports the server has for a call
  Files,       \* request files: what they announce and what they hold
  MaxGarbage,  \* bound on the value of an uninitialised requestNum
  Garbage      \* requests made of uninitialised variables

Calls == 1 .. MaxCalls

\* A request file: whether there is anything to read in it, the number it starts
\* with (0 if that is not a number), the complete orders that follow, and how many
\* fields of the next one, `part`, are read before the file ends or a field is no
\* number, which is then read as 0.
File == [readable : BOOLEAN, num : Nat, lines : Seq(Request),
         got : 0 .. 5, part : Request]

NoPart == [client |-> 0, stock |-> NoStock, dir |-> "BUY", kind |-> "MARKET",
           qty |-> 0, price |-> 0]

NoFile == [readable |-> FALSE, num |-> 0, lines |-> <<>>, got |-> 0, part |-> NoPart]

\* type, direction and stockID are std::strings, so that they are empty and not
\* garbage; an empty type is no "LIMIT" and an empty direction no "SELL".
ASSUME ClientAssumption ==
  /\ MaxCalls \in Nat
  /\ MaxReports \in Nat \ {0}
  /\ MaxGarbage \in Nat
  /\ Files \subseteq File
  /\ \A f \in Files : ~f.readable => f.lines = <<>> /\ f.got = 0
  /\ \A r \in Garbage :
       r \in Request /\ r.stock = NoStock /\ r.kind = "MARKET" /\ r.dir = "BUY"

VARIABLES
  made,      \* call objects constructed or under construction
  todo,      \* what the constructor of call `made` has left to do
  call,      \* call[c]: the call object
  up,        \* the connection to the server
  written,   \* written[c]: requests passed to Write
  printed,   \* printed[c]: the reports printed, by number
  raced,     \* raced[c]: Proceed has been run during the constructor of c
  fault      \* how the process died, or "none"

vars == <<made, todo, call, up, written, printed, raced, fault>>

-----------------------------------------------------------------------------
(* Request files *)

\* The variables when the file has ended, `old` being what they held after its
\* last complete order: the fields of `part` are read in this order.
ReadPart(f, old) ==
  [kind   |-> IF f.got >= 1 THEN f.part.kind   ELSE old.kind,
   dir    |-> IF f.got >= 2 THEN f.part.dir    ELSE old.dir,
   client |-> IF f.got >= 3 THEN f.part.client ELSE old.client,
   stock  |-> IF f.got >= 4 THEN f.part.stock  ELSE old.stock,
   qty    |-> IF f.got >= 5 THEN f.part.qty    ELSE old.qty,
   price  |-> old.price]

\* Faulty variant: past its end the file is read again from the beginning.
ReadLineAgain(f, i, garbage) ==
  IF f.lines = <<>> THEN ReadPart(f, garbage) ELSE f.lines[((i - 1) % Len(f.lines)) + 1]

\* What `fin >> ...` does not get keeps its value: past the end of the file the
\* variables hold what was read last, and what was never read is uninitialised.
ReadLine(f, i, garbage) ==
  IF i <= Len(f.lines) THEN f.lines[i]
  ELSE ReadPart(f, IF f.lines = <<>> THEN garbage ELSE Last(f.lines))

\* The requests read from a file that says it holds n.
ReadNewOrderRequest(f, n, garbage) == [i \in 1 .. n |-> ReadLine(f, i, garbage)]

\* The value of requestNum: uninitialised if there is nothing to read.
RequestNums(f) == IF f.readable THEN {f.num} ELSE 0 .. MaxGarbage

-----------------------------------------------------------------------------
(* Call objects *)

\* A call of kind k with operation op started.  `reports` is what the server will
\* stream back, `buf` the report read last (0 for none), `event` the completion
\* of op that waits in the queue.
Object(k, f, reqs, reports, op) ==
  [kind |-> k, file |-> f, requests |-> reqs, reports |-> reports, op |-> op, event |-> "none",
   status |-> "PROCESS", responder |-> k # "query", writing |-> k = "new",
   finished |-> FALSE, buf |-> 0, counter |-> 0]

Absent == Object("none", NoFile, <<>>, 0, "none")

\* Call c with operation o started.
Started(c, o) == [call[c] EXCEPT !.op = o, !.event = "none"]

Alive(c) == call[c].kind # "none"

\* The event of call c of kind k is taken from the completion queue.
Event(c, k) ==
  /\ fault = "none"
  /\ call[c].kind = k /\ call[c].event # "none"
  /\ raced' = [raced EXCEPT ![c] = @ \/ (c = made /\ todo # <<>>)]

Die(how) ==
  /\ fault' = how
  /\ UNCHANGED <<made, todo, call, up, written, printed>>

-----------------------------------------------------------------------------
(* The main thread *)

\* The thread is in no constructor and may read another command.
AtPrompt == fault = "none" /\ todo = <<>> /\ made < MaxCalls

\* A command: the object is made and its call started with its tag.
Command(object, rest) ==
  /\ made' = made + 1
  /\ todo' = rest
  /\ call' = [call EXCEPT ![made + 1] = object]
  /\ UNCHANGED <<up, written, printed, raced, fault>>

\* The constructor of a new-order call; n is the number of reports the server
\* will have for it.  Its last assignment, to callStatus, changes nothing.
PushNewOrder ==
  /\ AtPrompt
  /\ \E f \in Files, g \in Garbage, n \in 0 .. MaxReports : \E num \in RequestNums(f) :
       Command(Object("new", f, ReadNewOrderRequest(f, num, g), n, "start"), <<>>)

\* The constructor of a cancel call: the responder is there, Finish is posted,
\* and callStatus is assigned afterwards.
PushCancelOrder ==
  /\ AtPrompt
  /\ Command(Object("cancel", NoFile, <<>>, 1, "finish"), <<"callStatus">>)

\* The constructor of a query call: AsyncPushQueryOrder starts the call, its
\* result is assigned to responder, and then callStatus.
PushQueryOrder ==
  /\ AtPrompt
  /\ \E n \in 0 .. MaxReports :
       Command(Object("query", NoFile, <<>>, n, "start"), <<"responder", "callStatus">>)

\* The next assignment of the constructor.
Assign ==
  /\ fault = "none"
  /\ todo # <<>> /\ Alive(made)
  /\ call' = IF Head(todo) = "responder"
             THEN [call EXCEPT ![made].responder = TRUE]
             ELSE [call EXCEPT ![made].status = "PROCESS"]
  /\ todo' = Tail(todo)
  /\ UNCHANGED <<made, up, written, printed, raced, fault>>

\* The object has already been deleted.
AssignDeleted ==
  /\ fault = "none"
  /\ todo # <<>> /\ ~Alive(made)
  /\ UNCHANGED raced /\ Die("use_after_free")

Main == PushNewOrder \/ PushCancelOrder \/ PushQueryOrder \/ Assign \/ AssignDeleted

-----------------------------------------------------------------------------
(* The completion queue thread *)

\* Faulty variant: the counter is advanced twice.
WriteRequestTwice(c) ==
  /\ Event(c, "new") /\ call[c].writing
  /\ call[c].counter < Len(call[c].requests)
  /\ call' = [call EXCEPT ![c] = [Started(c, "write") EXCEPT !.counter = @ + 2]]
  /\ written' = [written EXCEPT ![c] = Append(@, call[c].requests[call[c].counter + 1])]
  /\ UNCHANGED <<made, todo, up, printed, fault>>

\* AsyncClientCallPushNewOrder::Proceed while requests are left, whatever became
\* of the operation before.
WriteRequest(c) ==
  /\ Event(c, "new") /\ call[c].writing
  /\ call[c].counter < Len(call[c].requests)
  /\ call' = [call EXCEPT ![c] = [Started(c, "write") EXCEPT !.counter = @ + 1]]
  /\ written' = [written EXCEPT ![c] = Append(@, call[c].requests[call[c].counter + 1])]
  /\ UNCHANGED <<made, todo, up, printed, fault>>

\* Faulty variant: writing_mode_ is not cleared.
WritesDoneAgain(c) ==
  /\ Event(c, "new") /\ call[c].writing
  /\ call[c].counter >= Len(call[c].requests)
  /\ call' = [call EXCEPT ![c] = Started(c, "writesDone")]
  /\ UNCHANGED <<made, todo, up, written, printed, fault>>

\* All requests are written: WritesDone, and reading begins with its event.
WritesDone(c) ==
  /\ Event(c, "new") /\ call[c].writing
  /\ call[c].counter >= Len(call[c].requests)
  /\ call' = [call EXCEPT ![c] = [Started(c, "writesDone") EXCEPT !.writing = FALSE]]
  /\ UNCHANGED <<made, todo, up, written, printed, fault>>

\* The next Read is posted into report_ and the report read before it, if any, is
\* printed.  Both are one step: the message of that Read gets into report_ when its
\* event is taken from the queue, which this same thread does.
ReadAndPrint(c) ==
  /\ call' = [call EXCEPT ![c] = Started(c, "read")]
  /\ printed' = IF call[c].buf = 0 THEN printed
                ELSE [printed EXCEPT ![c] = Append(@, call[c].buf)]
  /\ UNCHANGED <<made, todo, up, written, fault>>

ReadReport(c) ==
  /\ Event(c, "new") /\ ~call[c].writing
  /\ call[c].event = "ok"
  /\ ReadAndPrint(c)

\* A failed Read: nothing more is done, Finish and delete being commented out.
EndReports(c) ==
  /\ Event(c, "new") /\ ~call[c].writing
  /\ call[c].event = "fail"
  /\ call' = [call EXCEPT ![c] = Started(c, "none")]
  /\ UNCHANGED <<made, todo, up, written, printed, fault>>

\* AsyncClientCallPushCancelOrder::Proceed: print, if the call succeeded, and
\* delete the object.
PrintCancel(c) ==
  /\ Event(c, "cancel")
  /\ printed' = IF call[c].buf = 0 THEN printed ELSE [printed EXCEPT ![c] = <<1>>]
  /\ call' = [call EXCEPT ![c] = Absent]
  /\ UNCHANGED <<made, todo, up, written, fault>>

\* AsyncClientCallPushQueryOrder::Proceed.
ReadOrder(c) ==
  /\ Event(c, "query") /\ call[c].status = "PROCESS" /\ call[c].responder
  /\ call[c].event = "ok"
  /\ ReadAndPrint(c)

\* Faulty variants: the state is not changed; the report read last is printed
\* once more.
FinishQueryUnmarked(c) ==
  /\ Event(c, "query") /\ call[c].status = "PROCESS" /\ call[c].responder
  /\ call[c].event = "fail" /\ ~call[c].finished
  /\ call' = [call EXCEPT ![c] = [Started(c, "finish") EXCEPT !.finished = TRUE]]
  /\ UNCHANGED <<made, todo, up, written, printed, fault>>

FinishQueryPrinting(c) ==
  /\ Event(c, "query") /\ call[c].status = "PROCESS" /\ call[c].responder
  /\ call[c].event = "fail" /\ ~call[c].finished
  /\ call' = [call EXCEPT ![c] = [Started(c, "finish") EXCEPT
                                    !.status = "FINISH", !.finished = TRUE]]
  /\ printed' = [printed EXCEPT ![c] = IF call[c].buf = 0 THEN @ ELSE Append(@, call[c].buf)]
  /\ UNCHANGED <<made, todo, up, written, fault>>

FinishQuery(c) ==
  /\ Event(c, "query") /\ call[c].status = "PROCESS" /\ call[c].responder
  /\ call[c].event = "fail" /\ ~call[c].finished
  /\ call' = [call EXCEPT ![c] = [Started(c, "finish") EXCEPT
                                    !.status = "FINISH", !.finished = TRUE]]
  /\ UNCHANGED <<made, todo, up, written, printed, fault>>

\* A second Finish of the call: gRPC aborts.
FinishAgain(c) ==
  /\ Event(c, "query") /\ call[c].status = "PROCESS" /\ call[c].responder
  /\ call[c].event = "fail" /\ call[c].finished
  /\ Die("finish_twice")

\* responder is not assigned yet.
NullResponder(c) ==
  /\ Event(c, "query") /\ call[c].status = "PROCESS" /\ ~call[c].responder
  /\ Die("null_responder")

DeleteQuery(c) ==
  /\ Event(c, "query") /\ call[c].status = "FINISH"
  /\ call' = [call EXCEPT ![c] = Absent]
  /\ UNCHANGED <<made, todo, up, written, printed, fault>>

Proceed(c) ==
  \/ WriteRequest(c) \/ WritesDone(c) \/ ReadReport(c) \/ EndReports(c)
  \/ PrintCancel(c)
  \/ ReadOrder(c) \/ FinishQuery(c) \/ FinishAgain(c) \/ NullResponder(c) \/ DeleteQuery(c)

-----------------------------------------------------------------------------
(* gRPC and the server *)

Complete(c, new) ==
  /\ fault = "none" /\ call[c].event = "none"
  /\ call' = [call EXCEPT ![c] = new]
  /\ UNCHANGED <<made, todo, up, written, printed, raced, fault>>

\* The start of a call, a Write or a WritesDone completes.
CompleteWrite(c) ==
  /\ call[c].op \in {"start", "write", "writesDone"}
  /\ Complete(c, [call[c] EXCEPT !.event = IF up THEN "ok" ELSE "fail"])

\* A Read gets the next report.
CompleteRead(c) ==
  /\ call[c].op = "read" /\ up /\ ~call[c].finished
  /\ call[c].buf < call[c].reports
  /\ Complete(c, [call[c] EXCEPT !.event = "ok", !.buf = @ + 1])

\* A Read fails: the connection is lost, or the server has streamed all there is
\* for a query.  A new-order call is never finished by the server.
FailRead(c) ==
  /\ call[c].op = "read"
  /\ \/ ~up \/ call[c].finished
     \/ call[c].kind = "query" /\ call[c].buf = call[c].reports
  /\ Complete(c, [call[c] EXCEPT !.event = "fail"])

\* A client's Finish always succeeds; the status it brings may not be OK, and
\* only with an OK status is there a report.
CompleteFinish(c) ==
  /\ call[c].op = "finish"
  /\ Complete(c, [call[c] EXCEPT !.event = "ok",
                                 !.buf = IF call[c].kind = "cancel" /\ up THEN 1 ELSE @])

CompleteOp(c) ==
  CompleteWrite(c) \/ CompleteRead(c) \/ FailRead(c) \/ CompleteFinish(c)

\* The server dies or the connection is lost.
LoseConnection ==
  /\ fault = "none" /\ up
  /\ up' = FALSE
  /\ UNCHANGED <<made, todo, call, written, printed, raced, fault>>

-----------------------------------------------------------------------------
(* Specification *)

Init ==
  /\ made = 0
  /\ todo = <<>>
  /\ call = [c \in Calls |-> Absent]
  /\ up = TRUE
  /\ written = [c \in Calls |-> <<>>]
  /\ printed = [c \in Calls |-> <<>>]
  /\ raced = [c \in Calls |-> FALSE]
  /\ fault = "none"

Next ==
  \/ Main
  \/ \E c \in Calls : Proceed(c) \/ CompleteOp(c)
  \/ LoseConnection

Spec == Init /\ [][Next]_vars

\* Both threads are scheduled, and operations complete.
FairSpec ==
  /\ Spec
  /\ WF_vars(Assign)
  /\ \A c \in Calls : WF_vars(Proceed(c)) /\ WF_vars(CompleteOp(c))

-----------------------------------------------------------------------------
(* Properties *)

\* Request req is made of what was read last from file f.
FromLeftovers(f, req) ==
  IF f.lines = <<>> THEN f.got >= 4 /\ req.stock = f.part.stock
  ELSE /\ \A x \in DOMAIN req : req[x] \in {Last(f.lines)[x], f.part[x]}
       /\ f.got = 0 => req = Last(f.lines)

CallObject ==
  [kind : {"none", "new", "cancel", "query"}, file : File, requests : Seq(Request),
   reports : 0 .. MaxReports, op : {"none", "start", "write", "writesDone", "read", "finish"},
   event : {"none", "ok", "fail"}, status : {"PROCESS", "FINISH"}, responder : BOOLEAN,
   writing : BOOLEAN, finished : BOOLEAN, buf : 0 .. MaxReports, counter : Nat]

TypeOK ==
  /\ made \in 0 .. MaxCalls
  /\ todo \in {<<>>, <<"callStatus">>, <<"responder", "callStatus">>}
  /\ call \in [Calls -> CallObject]
  /\ \A c \in Calls :
       call[c].counter <= Len(call[c].requests) /\ call[c].buf <= call[c].reports
  /\ up \in BOOLEAN
  /\ written \in [Calls -> Seq(Request)]
  /\ printed \in [Calls -> Seq(1 .. MaxReports)]
  /\ raced \in [Calls -> BOOLEAN]
  /\ fault \in {"none", "use_after_free", "null_responder", "finish_twice"}

\* The client dies only of a call an event of which was handled while its
\* constructor was still running: of the newest one when a member is used before
\* it is assigned or after the object is deleted, of a query that is finished
\* already when Finish is called twice.
FaultOnlyRaced ==
  /\ fault \in {"use_after_free", "null_responder"} => made \in Calls /\ raced[made]
  /\ fault = "finish_twice" =>
       \E c \in Calls : raced[c] /\ call[c].kind = "query" /\ call[c].finished

\* The reports of a call are printed in the order of its stream, each once and
\* none left out, although the next Read is posted into the same buffer before
\* the report is printed.  A query that Proceed has overtaken may print twice.
PrintedInOrder ==
  \A c \in Calls :
    ~raced[c] => \A k \in DOMAIN printed[c] : printed[c][k] = k

\* What is sent for a file is what it holds, line by line.  A legal order sent
\* beyond its last line is made of that line and of the order the file breaks off
\* in; it repeats that line if the file ends after it.  Uninitialised variables
\* become an order only if the file breaks off in its first order, after the stock.
SentFromFile ==
  \A c \in Calls : \A k \in DOMAIN written[c] :
    LET f   == call[c].file
        req == written[c][k]
    IN  IF k <= Len(f.lines) THEN req = f.lines[k]
        ELSE CheckRequest(req) => FromLeftovers(f, req)

\* A call's requests are all written and its reports printed, unless the
\* connection is lost or the process dies; and a query or a cancellation is over in
\* the end, whatever becomes of the connection.
CallsComplete ==
  \A c \in Calls :
    /\ call[c].kind = "new" ~>
         \/ /\ written[c] = call[c].requests
            /\ Len(printed[c]) = call[c].reports
         \/ ~up \/ fault # "none"
    /\ call[c].kind \in {"query", "cancel"} ~> ~Alive(c) \/ fault # "none"

=============================================================================
