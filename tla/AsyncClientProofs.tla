------------------------- MODULE AsyncClientProofs -------------------------
(***************************************************************************)
(* Proofs about AsyncClient, for any number of calls and reports and any   *)
(* request files: that IInv is inductive, and from it the types, what can  *)
(* kill the client, what it prints and what it sends.                      *)
(*                                                                         *)
(* A step is about one call; Good says what it does to that call, and      *)
(* leaves the others alone.                                                *)
(***************************************************************************)
EXTENDS AsyncClientInv, SequenceTheorems, TLAPS

USE OrdersAssumption, ClientAssumption

-----------------------------------------------------------------------------
(* Call objects *)

\* What is known of the fields of a call object and its sequences.
LEMMA CallFacts ==
  ASSUME TypeOK, NEW c \in Calls
  PROVE  /\ call[c] \in CallObject
         /\ call[c].requests \in Seq(Request) /\ Len(call[c].requests) \in Nat
         /\ \A k \in 1 .. Len(call[c].requests) : call[c].requests[k] \in Request
         /\ call[c].counter \in Nat /\ call[c].counter <= Len(call[c].requests)
         /\ call[c].buf \in 0 .. MaxReports /\ call[c].reports \in 0 .. MaxReports
         /\ call[c].buf <= call[c].reports
         /\ written[c] \in Seq(Request) /\ Len(written[c]) \in Nat
         /\ printed[c] \in Seq(1 .. MaxReports) /\ Len(printed[c]) \in Nat
         /\ DOMAIN printed[c] = 1 .. Len(printed[c])
         /\ raced[c] \in BOOLEAN
<1>1. /\ call[c] \in CallObject /\ call[c].counter <= Len(call[c].requests)
      /\ call[c].buf <= call[c].reports
      /\ written[c] \in Seq(Request) /\ printed[c] \in Seq(1 .. MaxReports)
      /\ raced[c] \in BOOLEAN
  BY DEF TypeOK
<1>2. /\ call[c].requests \in Seq(Request) /\ call[c].counter \in Nat
      /\ call[c].buf \in 0 .. MaxReports /\ call[c].reports \in 0 .. MaxReports
  BY <1>1 DEF CallObject
<1> QED
  BY <1>1, <1>2, LenProperties, ElementOfSeq

\* A call object keeps its type when one of its fields gets a value of its type.
LEMMA ObjectAlter ==
  ASSUME NEW o \in CallObject,
         NEW op \in {"none", "start", "write", "writesDone", "read", "finish"},
         NEW e \in {"none", "ok", "fail"}
  PROVE  /\ [o EXCEPT !.op = op, !.event = "none"] \in CallObject
         /\ [o EXCEPT !.event = e] \in CallObject
         /\ [o EXCEPT !.writing = FALSE] \in CallObject
         /\ [o EXCEPT !.status = "PROCESS"] \in CallObject
         /\ [o EXCEPT !.status = "FINISH", !.finished = TRUE] \in CallObject
         /\ [o EXCEPT !.responder = TRUE] \in CallObject
         /\ \A n \in Nat : [o EXCEPT !.counter = n] \in CallObject
         /\ \A n \in 0 .. MaxReports : [o EXCEPT !.event = e, !.buf = n] \in CallObject
<1>1. [o EXCEPT !.op = op, !.event = "none"] \in CallObject
  <2>1. [o EXCEPT !.op = op] \in CallObject
    BY DEF CallObject
  <2>2. [[o EXCEPT !.op = op] EXCEPT !.event = "none"] \in CallObject
    BY <2>1 DEF CallObject
  <2> QED
    BY <2>2
<1>2. [o EXCEPT !.event = e] \in CallObject
  BY DEF CallObject
<1>3. [o EXCEPT !.writing = FALSE] \in CallObject
  BY DEF CallObject
<1>4. [o EXCEPT !.status = "PROCESS"] \in CallObject
  BY DEF CallObject
<1>5. [o EXCEPT !.status = "FINISH", !.finished = TRUE] \in CallObject
  BY DEF CallObject
<1>6. [o EXCEPT !.responder = TRUE] \in CallObject
  BY DEF CallObject
<1>7. \A n \in Nat : [o EXCEPT !.counter = n] \in CallObject
  BY DEF CallObject
<1>8. \A n \in 0 .. MaxReports : [o EXCEPT !.event = e, !.buf = n] \in CallObject
  BY DEF CallObject
<1> QED
  BY <1>1, <1>2, <1>3, <1>4, <1>5, <1>6, <1>7, <1>8

\* A call with an operation started is otherwise what it was.
LEMMA StartedFacts ==
  ASSUME TypeOK, NEW c \in Calls,
         NEW op \in {"none", "start", "write", "writesDone", "read", "finish"}
  PROVE  /\ Started(c, op) \in CallObject
         /\ Started(c, op).op = op /\ Started(c, op).event = "none"
         /\ Started(c, op).kind = call[c].kind /\ Started(c, op).file = call[c].file
         /\ Started(c, op).requests = call[c].requests
         /\ Started(c, op).reports = call[c].reports
         /\ Started(c, op).status = call[c].status
         /\ Started(c, op).responder = call[c].responder
         /\ Started(c, op).writing = call[c].writing
         /\ Started(c, op).finished = call[c].finished
         /\ Started(c, op).buf = call[c].buf
         /\ Started(c, op).counter = call[c].counter
<1>1. call[c] \in CallObject
  BY DEF TypeOK
<1>2. Started(c, op) \in CallObject
  BY <1>1, ObjectAlter DEF Started
<1> QED
  BY <1>1, <1>2 DEF Started, CallObject

\* A file that does not end in an order.
LEMMA NoPartType == NoPart \in Request
  BY DEF NoPart, Request, Side, Kind

\* A deleted or unmade object.
LEMMA AbsentFacts ==
  /\ Absent \in CallObject
  /\ Absent.kind = "none" /\ Absent.op = "none" /\ Absent.event = "none" /\ Absent.responder
  /\ Absent.counter = 0 /\ Len(Absent.requests) = 0 /\ Absent.buf = 0 /\ Absent.reports = 0
<1>1. <<>> \in Seq(Request) /\ Len(<<>>) = 0
  OBVIOUS
<1>2. NoFile \in File
  BY <1>1, NoPartType DEF NoFile, File
<1>3. /\ Absent.kind = "none" /\ Absent.op = "none" /\ Absent.event = "none"
      /\ Absent.responder
      /\ Absent.counter = 0 /\ Absent.requests = <<>> /\ Absent.buf = 0 /\ Absent.reports = 0
  BY DEF Absent, Object
<1>4. Absent \in CallObject
  BY <1>1, <1>2 DEF Absent, Object, CallObject
<1> QED
  BY <1>1, <1>3, <1>4

\* What is added at the end of a sequence, and what was there before.
LEMMA AppendFacts ==
  ASSUME NEW S, NEW s \in Seq(S), NEW x \in S
  PROVE  /\ Append(s, x) \in Seq(S)
         /\ Len(Append(s, x)) = Len(s) + 1
         /\ \A k \in 1 .. Len(s) : Append(s, x)[k] = s[k]
         /\ Append(s, x)[Len(s) + 1] = x
         /\ DOMAIN Append(s, x) = 1 .. Len(s) + 1
  BY AppendProperties, LenProperties

-----------------------------------------------------------------------------
(* Steps about one call *)

\* What a step about call c, which is not being made, does.
Good(c) ==
  /\ made' = made /\ todo' = todo /\ fault' = fault /\ fault = "none"
  /\ TypeOK'
  /\ \A d \in Calls \ {c} :
       /\ call'[d] = call[d] /\ raced'[d] = raced[d]
       /\ written'[d] = written[d] /\ printed'[d] = printed[d]
  /\ call[c].kind # "none"
  /\ call[c].responder => call'[c].responder
  /\ raced[c] => raced'[c]
  /\ c = made /\ todo # <<>> =>
       raced'[c] \/ (call'[c].kind = call[c].kind /\ call'[c].op = call[c].op)
  /\ CallInv(c)'

\* The types after such a step.
LEMMA GoodTypes ==
  ASSUME TypeOK, NEW c \in Calls, NEW o \in CallObject,
         call' = [call EXCEPT ![c] = o],
         o.counter <= Len(o.requests), o.buf <= o.reports,
         UNCHANGED <<made, todo, up, fault>>,
         written' \in [Calls -> Seq(Request)],
         printed' \in [Calls -> Seq(1 .. MaxReports)],
         raced' \in [Calls -> BOOLEAN]
  PROVE  TypeOK' /\ call'[c] = o /\ \A d \in Calls \ {c} : call'[d] = call[d]
<1>1. call \in [Calls -> CallObject]
  BY DEF TypeOK
<1>2. /\ call' \in [Calls -> CallObject] /\ call'[c] = o
      /\ \A d \in Calls \ {c} : call'[d] = call[d]
  BY <1>1
<1>3. \A d \in Calls :
          call'[d].counter <= Len(call'[d].requests) /\ call'[d].buf <= call'[d].reports
  BY <1>2 DEF TypeOK
<1> QED
  BY <1>2, <1>3 DEF TypeOK

\* What the completion queue's thread does to `raced`.
LEMMA EventRaces ==
  ASSUME TypeOK, NEW c \in Calls, NEW k, Event(c, k)
  PROVE  /\ raced' \in [Calls -> BOOLEAN]
         /\ (raced'[c] <=> raced[c] \/ (c = made /\ todo # <<>>))
         /\ \A d \in Calls \ {c} : raced'[d] = raced[d]
         /\ call[c].kind = k /\ call[c].event # "none" /\ fault = "none"
  BY DEF Event, TypeOK

\* What no step changes of a call object until it is deleted.
Keeps(c) ==
  /\ call'[c].kind = call[c].kind /\ call'[c].file = call[c].file
  /\ call'[c].requests = call[c].requests /\ call'[c].reports = call[c].reports
  /\ call'[c].responder = call[c].responder

\* A call that keeps its counter and what it has written keeps Sent.
LEMMA SentKept ==
  ASSUME NEW c \in Calls, Sent(c), Keeps(c),
         call'[c].counter = call[c].counter, written'[c] = written[c]
  PROVE  Sent(c)'
<1>1. \A k : FromFile(c, k) => FromFile(c, k)'
  BY DEF FromFile, Keeps
<1> QED
  BY <1>1 DEF Sent, Keeps

\* What writing a request changes of a call.
LEMMA WriteRequestEffect ==
  ASSUME TypeOK, NEW c \in Calls, WriteRequest(c)
  PROVE  /\ TypeOK' /\ Keeps(c)
         /\ \A d \in Calls \ {c} : call'[d] = call[d] /\ written'[d] = written[d]
         /\ call[c].writing /\ call[c].counter < Len(call[c].requests)
         /\ call'[c].op = "write" /\ call'[c].event = "none" /\ call'[c].writing
         /\ call'[c].buf = call[c].buf /\ call'[c].counter = call[c].counter + 1
         /\ written'[c] = Append(written[c], call[c].requests[call[c].counter + 1])
         /\ call[c].requests[call[c].counter + 1] \in Request
         /\ Event(c, "new") /\ UNCHANGED <<made, todo, up, printed, fault>>
<1>1. /\ Event(c, "new")
      /\ call[c].writing /\ call[c].counter < Len(call[c].requests)
      /\ call' = [call EXCEPT ![c] = [Started(c, "write") EXCEPT !.counter = @ + 1]]
      /\ written' = [written EXCEPT ![c] = Append(@, call[c].requests[call[c].counter + 1])]
      /\ UNCHANGED <<made, todo, up, printed, fault>>
  BY DEF WriteRequest
<1>2. call[c].counter + 1 \in Nat /\ call[c].requests[call[c].counter + 1] \in Request
  <2>1. /\ call[c].counter \in Nat /\ Len(call[c].requests) \in Nat
        /\ \A k \in 1 .. Len(call[c].requests) : call[c].requests[k] \in Request
    BY CallFacts
  <2>2. call[c].counter + 1 \in 1 .. Len(call[c].requests)
    BY <1>1, <2>1
  <2> QED
    BY <2>1, <2>2
<1>3. PICK n \in Nat : n = call[c].counter + 1
  BY <1>2
<1>4. PICK o \in CallObject : o = [Started(c, "write") EXCEPT !.counter = n]
  BY StartedFacts, ObjectAlter
<1>5. /\ o.kind = call[c].kind /\ o.requests = call[c].requests /\ o.op = "write"
      /\ o.event = "none" /\ o.counter = n /\ o.buf = call[c].buf
      /\ o.responder = call[c].responder /\ o.writing = call[c].writing
      /\ o.file = call[c].file /\ o.reports = call[c].reports
  BY <1>4, StartedFacts DEF CallObject
<1>6. call' = [call EXCEPT ![c] = o]
  BY <1>1, <1>3, <1>4, StartedFacts
<1>7. /\ written' \in [Calls -> Seq(Request)]
      /\ written'[c] = Append(written[c], call[c].requests[call[c].counter + 1])
      /\ \A d \in Calls \ {c} : written'[d] = written[d]
  BY <1>1, <1>2, AppendFacts DEF TypeOK
<1>8. o.counter <= Len(o.requests) /\ o.buf <= o.reports
  BY <1>1, <1>3, <1>5, CallFacts
<1>9. TypeOK' /\ call'[c] = o /\ \A d \in Calls \ {c} : call'[d] = call[d]
  <2>1. printed' \in [Calls -> Seq(1 .. MaxReports)] /\ raced' \in [Calls -> BOOLEAN]
    BY <1>1, EventRaces DEF TypeOK
  <2> QED
    BY <1>1, <1>6, <1>7, <1>8, <2>1, GoodTypes
<1> QED
  BY <1>1, <1>2, <1>3, <1>5, <1>7, <1>9 DEF Keeps

\* The next request is written: the line of the file the counter has come to.
LEMMA GoodWriteRequest ==
  ASSUME IInv, NEW c \in Calls, WriteRequest(c)
  PROVE  Good(c)
<1>1. TypeOK /\ Phase(c) /\ Caught(c) /\ Sent(c)
  BY DEF IInv, CallInv
<1>2. /\ TypeOK' /\ Keeps(c)
      /\ \A d \in Calls \ {c} : call'[d] = call[d] /\ written'[d] = written[d]
      /\ call[c].writing /\ call[c].counter < Len(call[c].requests)
      /\ call'[c].op = "write" /\ call'[c].event = "none" /\ call'[c].writing
      /\ call'[c].buf = call[c].buf /\ call'[c].counter = call[c].counter + 1
      /\ written'[c] = Append(written[c], call[c].requests[call[c].counter + 1])
      /\ call[c].requests[call[c].counter + 1] \in Request
      /\ UNCHANGED <<made, todo, up, printed, fault>>
  BY <1>1, WriteRequestEffect
<1>3. /\ (raced'[c] <=> raced[c] \/ (c = made /\ todo # <<>>))
      /\ \A d \in Calls \ {c} : raced'[d] = raced[d]
      /\ call[c].kind = "new" /\ fault = "none"
  BY <1>1, WriteRequestEffect, EventRaces
<1>4. Phase(c)'
  BY <1>2, <1>3 DEF Phase, Keeps
<1>5. Caught(c)'
  <2>1. CASE raced'[c]
    BY <2>1 DEF Caught
  <2>2. CASE ~raced'[c]
    BY <1>1, <1>2, <1>3, <2>2, CallFacts DEF Caught, Phase, Keeps
  <2> QED
    BY <2>1, <2>2
<1>6. Sent(c)'
  <2>1. /\ Len(written[c]) = call[c].counter
        /\ \A k \in 1 .. call[c].counter : written[c][k] = call[c].requests[k]
        /\ \A k \in 1 .. Len(call[c].requests) : FromFile(c, k)
    BY <1>1, <1>3 DEF Sent
  <2>2. \A k \in 1 .. Len(call'[c].requests) : FromFile(c, k)'
    BY <1>2, <2>1 DEF FromFile, Keeps
  <2>3. /\ Len(written'[c]) = call'[c].counter
        /\ \A k \in 1 .. call'[c].counter : written'[c][k] = call'[c].requests[k]
    BY SMTT(30), <1>1, <1>2, <2>1, CallFacts, AppendFacts DEF Keeps
  <2> QED
    BY <1>2, <1>3, <2>2, <2>3 DEF Sent, Keeps
<1>7. CallInv(c)'
  BY <1>4, <1>5, <1>6 DEF CallInv
<1> QED
  BY <1>2, <1>3, <1>7 DEF Good, Keeps

\* All requests are written; nothing has been read yet.
LEMMA GoodWritesDone ==
  ASSUME IInv, NEW c \in Calls, WritesDone(c)
  PROVE  Good(c)
<1>1. /\ TypeOK /\ Phase(c) /\ Caught(c) /\ Sent(c)
      /\ Event(c, "new") /\ call[c].writing
      /\ call' = [call EXCEPT ![c] = [Started(c, "writesDone") EXCEPT !.writing = FALSE]]
      /\ UNCHANGED <<made, todo, up, written, printed, fault>>
  BY DEF WritesDone, IInv, CallInv
<1>2. PICK o \in CallObject : o = [Started(c, "writesDone") EXCEPT !.writing = FALSE]
  BY <1>1, StartedFacts, ObjectAlter
<1>3. /\ o.kind = call[c].kind /\ o.requests = call[c].requests /\ o.op = "writesDone"
      /\ o.event = "none" /\ o.counter = call[c].counter /\ o.buf = call[c].buf
      /\ o.responder = call[c].responder /\ ~o.writing
      /\ o.file = call[c].file /\ o.reports = call[c].reports
  BY <1>1, <1>2, StartedFacts DEF CallObject
<1>4. call' = [call EXCEPT ![c] = o] /\ o.counter <= Len(o.requests) /\ o.buf <= o.reports
  BY <1>1, <1>2, <1>3, CallFacts
<1>5. /\ raced' \in [Calls -> BOOLEAN]
      /\ (raced'[c] <=> raced[c] \/ (c = made /\ todo # <<>>))
      /\ \A d \in Calls \ {c} : raced'[d] = raced[d]
      /\ call[c].kind = "new" /\ fault = "none"
  BY <1>1, EventRaces
<1>6. /\ UNCHANGED <<made, todo, up, written, printed, fault>>
      /\ written' \in [Calls -> Seq(Request)] /\ printed' \in [Calls -> Seq(1 .. MaxReports)]
  BY <1>1 DEF TypeOK
<1>7. TypeOK' /\ call'[c] = o /\ \A d \in Calls \ {c} : call'[d] = call[d]
  BY <1>1, <1>4, <1>5, <1>6, GoodTypes
<1>8. Keeps(c) /\ Sent(c)'
  BY <1>1, <1>3, <1>6, <1>7, SentKept DEF Keeps
<1>9. Phase(c)'
  BY <1>3, <1>5, <1>7 DEF Phase
<1>10. Caught(c)'
  BY <1>1, <1>3, <1>5, <1>6, <1>7, CallFacts DEF Caught, Phase
<1>11. CallInv(c)'
  BY <1>8, <1>9, <1>10 DEF CallInv
<1> QED
  BY <1>3, <1>5, <1>6, <1>7, <1>11 DEF Good

\* A Read that follows an event posts the next one and prints what there is.
LEMMA GoodReadAndPrint ==
  ASSUME IInv, NEW c \in Calls, NEW k \in {"new", "query"}, Event(c, k), ReadAndPrint(c),
         call[c].event = "ok",
         k = "new" => ~call[c].writing, k = "query" => call[c].status = "PROCESS"
  PROVE  Good(c)
<1>1. /\ TypeOK /\ Phase(c) /\ Caught(c) /\ Sent(c)
      /\ call' = [call EXCEPT ![c] = Started(c, "read")]
      /\ UNCHANGED <<made, todo, up, written, fault>>
  BY DEF ReadAndPrint, IInv, CallInv
<1>2. PICK o \in CallObject : o = Started(c, "read")
  BY <1>1, StartedFacts
<1>3. /\ o.kind = call[c].kind /\ o.requests = call[c].requests /\ o.op = "read"
      /\ o.event = "none" /\ o.counter = call[c].counter /\ o.buf = call[c].buf
      /\ o.responder = call[c].responder /\ o.writing = call[c].writing
      /\ o.file = call[c].file /\ o.reports = call[c].reports
      /\ o.status = call[c].status /\ o.finished = call[c].finished
  BY <1>1, <1>2, StartedFacts
<1>4. call' = [call EXCEPT ![c] = o] /\ o.counter <= Len(o.requests) /\ o.buf <= o.reports
  BY <1>1, <1>2, <1>3, CallFacts
<1>5. /\ raced' \in [Calls -> BOOLEAN]
      /\ (raced'[c] <=> raced[c] \/ (c = made /\ todo # <<>>))
      /\ \A d \in Calls \ {c} : raced'[d] = raced[d]
      /\ call[c].kind = k /\ fault = "none"
  BY <1>1, EventRaces
<1>6. /\ printed' \in [Calls -> Seq(1 .. MaxReports)]
      /\ printed'[c] = IF call[c].buf = 0 THEN printed[c] ELSE Append(printed[c], call[c].buf)
      /\ \A d \in Calls \ {c} : printed'[d] = printed[d]
  <2>1. CASE call[c].buf = 0
    BY <1>1, <2>1 DEF TypeOK, ReadAndPrint
  <2>2. CASE call[c].buf # 0
    <3>1. call[c].buf \in 1 .. MaxReports
      BY <1>1, <2>2, CallFacts
    <3>2. printed' = [printed EXCEPT ![c] = Append(@, call[c].buf)]
      BY <2>2 DEF ReadAndPrint
    <3> QED
      BY <1>1, <2>2, <3>1, <3>2, AppendFacts DEF TypeOK
  <2> QED
    BY <2>1, <2>2
<1>7. TypeOK' /\ call'[c] = o /\ \A d \in Calls \ {c} : call'[d] = call[d]
  <2>1. written' \in [Calls -> Seq(Request)]
    BY <1>1 DEF TypeOK
  <2> QED
    BY ZenonT(30), <1>1, <1>4, <1>5, <1>6, <2>1, GoodTypes
<1>8. UNCHANGED <<made, todo, up, written, fault>>
  BY <1>1
<1>9. Keeps(c) /\ Sent(c)'
  BY <1>1, <1>3, <1>7, <1>8, SentKept DEF Keeps
<1>10. Phase(c)'
  BY <1>1, <1>3, <1>5, <1>7 DEF Phase
<1>11. Caught(c)'
  <2>1. CASE raced'[c]
    BY <2>1 DEF Caught
  <2>2. CASE ~raced'[c] /\ call[c].buf = 0
    <3>1. ~raced[c] /\ Len(printed[c]) \in Nat
      BY <1>1, <1>5, <2>2, CallFacts
    <3>2. /\ \A n \in DOMAIN printed[c] : printed[c][n] = n
          /\ call[c].op = "read" => 0 = Len(printed[c]) + 1
          /\ call[c].op # "read" => 0 = Len(printed[c]) + 0
      BY <1>1, <1>5, <2>2, <3>1 DEF Caught
    <3>3. Len(printed[c]) = 0
      BY <3>1, <3>2
    <3>4. /\ Len(printed'[c]) = call[c].buf /\ call[c].buf \in Nat
          /\ \A n \in DOMAIN printed'[c] : printed'[c][n] = n
      BY <1>6, <2>2, <3>2, <3>3
    <3> QED
      BY <1>3, <1>7, <3>4 DEF Caught
  <2>3. CASE ~raced'[c] /\ call[c].buf # 0
    <3>1. call[c].op = "read"
      BY <1>1, <1>5, <2>3 DEF Caught, Phase
    <3>2. call[c].buf = Len(printed[c]) + 1 /\ \A n \in DOMAIN printed[c] : printed[c][n] = n
      BY <1>1, <1>5, <2>3, <3>1 DEF Caught
    <3>3. call[c].buf \in 1 .. MaxReports /\ printed[c] \in Seq(1 .. MaxReports)
      BY <1>1, <2>3, CallFacts
    <3>4. /\ Len(printed'[c]) = call[c].buf
          /\ \A n \in DOMAIN printed'[c] : printed'[c][n] = n
      BY <1>1, <1>6, <2>3, <3>2, <3>3, AppendFacts, CallFacts
    <3> QED
      BY <1>3, <1>7, <3>3, <3>4 DEF Caught
  <2> QED
    BY <2>1, <2>2, <2>3
<1>12. CallInv(c)'
  BY <1>9, <1>10, <1>11 DEF CallInv
<1> QED
  BY <1>3, <1>5, <1>6, <1>7, <1>8, <1>12 DEF Good

\* A failed Read ends a new-order call with all that was read printed.
LEMMA GoodEndReports ==
  ASSUME IInv, NEW c \in Calls, EndReports(c)
  PROVE  Good(c)
<1>1. /\ TypeOK /\ Phase(c) /\ Caught(c) /\ Sent(c)
      /\ Event(c, "new") /\ ~call[c].writing /\ call[c].event = "fail"
      /\ call' = [call EXCEPT ![c] = Started(c, "none")]
      /\ UNCHANGED <<made, todo, up, written, printed, fault>>
  BY DEF EndReports, IInv, CallInv
<1>2. PICK o \in CallObject : o = Started(c, "none")
  BY <1>1, StartedFacts
<1>3. /\ o.kind = call[c].kind /\ o.requests = call[c].requests /\ o.op = "none"
      /\ o.event = "none" /\ o.counter = call[c].counter /\ o.buf = call[c].buf
      /\ o.responder = call[c].responder /\ o.writing = call[c].writing
      /\ o.file = call[c].file /\ o.reports = call[c].reports
  BY <1>1, <1>2, StartedFacts
<1>4. call' = [call EXCEPT ![c] = o] /\ o.counter <= Len(o.requests) /\ o.buf <= o.reports
  BY <1>1, <1>2, <1>3, CallFacts
<1>5. /\ raced' \in [Calls -> BOOLEAN]
      /\ (raced'[c] <=> raced[c] \/ (c = made /\ todo # <<>>))
      /\ \A d \in Calls \ {c} : raced'[d] = raced[d]
      /\ call[c].kind = "new" /\ fault = "none"
  BY <1>1, EventRaces
<1>6. /\ UNCHANGED <<made, todo, up, written, printed, fault>>
      /\ written' \in [Calls -> Seq(Request)] /\ printed' \in [Calls -> Seq(1 .. MaxReports)]
  BY <1>1 DEF TypeOK
<1>7. TypeOK' /\ call'[c] = o /\ \A d \in Calls \ {c} : call'[d] = call[d]
  BY <1>1, <1>4, <1>5, <1>6, GoodTypes
<1>8. Keeps(c) /\ Sent(c)'
  BY <1>1, <1>3, <1>6, <1>7, SentKept DEF Keeps
<1>9. Phase(c)'
  BY <1>1, <1>3, <1>5, <1>7 DEF Phase
<1>10. Caught(c)'
  BY <1>1, <1>3, <1>5, <1>6, <1>7, CallFacts DEF Caught, Phase
<1>11. CallInv(c)'
  BY <1>8, <1>9, <1>10 DEF CallInv
<1> QED
  BY <1>3, <1>5, <1>6, <1>7, <1>11 DEF Good

\* A failed Read makes a query finish, in state FINISH from then on.
LEMMA GoodFinishQuery ==
  ASSUME IInv, NEW c \in Calls, FinishQuery(c)
  PROVE  Good(c)
<1>1. /\ TypeOK /\ Phase(c) /\ Caught(c) /\ Sent(c)
      /\ Event(c, "query") /\ call[c].event = "fail"
      /\ call' = [call EXCEPT ![c] = [Started(c, "finish") EXCEPT
                                        !.status = "FINISH", !.finished = TRUE]]
      /\ UNCHANGED <<made, todo, up, written, printed, fault>>
  BY DEF FinishQuery, IInv, CallInv
<1>2. PICK o \in CallObject :
        o = [Started(c, "finish") EXCEPT !.status = "FINISH", !.finished = TRUE]
  BY <1>1, StartedFacts, ObjectAlter
<1>3. /\ o.kind = call[c].kind /\ o.requests = call[c].requests /\ o.op = "finish"
      /\ o.event = "none" /\ o.counter = call[c].counter /\ o.buf = call[c].buf
      /\ o.responder = call[c].responder /\ o.status = "FINISH"
      /\ o.file = call[c].file /\ o.reports = call[c].reports
  BY <1>1, <1>2, StartedFacts DEF CallObject
<1>4. call' = [call EXCEPT ![c] = o] /\ o.counter <= Len(o.requests) /\ o.buf <= o.reports
  BY <1>1, <1>2, <1>3, CallFacts
<1>5. /\ raced' \in [Calls -> BOOLEAN]
      /\ (raced'[c] <=> raced[c] \/ (c = made /\ todo # <<>>))
      /\ \A d \in Calls \ {c} : raced'[d] = raced[d]
      /\ call[c].kind = "query" /\ fault = "none"
  BY <1>1, EventRaces
<1>6. /\ UNCHANGED <<made, todo, up, written, printed, fault>>
      /\ written' \in [Calls -> Seq(Request)] /\ printed' \in [Calls -> Seq(1 .. MaxReports)]
  BY <1>1 DEF TypeOK
<1>7. TypeOK' /\ call'[c] = o /\ \A d \in Calls \ {c} : call'[d] = call[d]
  BY <1>1, <1>4, <1>5, <1>6, GoodTypes
<1>8. Keeps(c) /\ Sent(c)'
  BY <1>1, <1>3, <1>6, <1>7, SentKept DEF Keeps
<1>9. Phase(c)'
  BY <1>3, <1>5, <1>7 DEF Phase
<1>10. Caught(c)'
  BY <1>1, <1>3, <1>5, <1>6, <1>7, CallFacts DEF Caught
<1>11. CallInv(c)'
  BY <1>8, <1>9, <1>10 DEF CallInv
<1> QED
  BY <1>3, <1>5, <1>6, <1>7, <1>11 DEF Good

\* A cancellation prints at most its one report; both it and a query that has
\* finished delete their object.
LEMMA GoodDelete ==
  ASSUME IInv, NEW c \in Calls, PrintCancel(c) \/ DeleteQuery(c)
  PROVE  Good(c)
<1>1. PICK k \in {"cancel", "query"} : Event(c, k) /\ (k = "query" => printed' = printed)
  BY DEF PrintCancel, DeleteQuery
<1>2. /\ TypeOK /\ Caught(c) /\ Sent(c)
      /\ call' = [call EXCEPT ![c] = Absent]
      /\ UNCHANGED <<made, todo, up, written, fault>>
      /\ printed' = printed \/ printed' = [printed EXCEPT ![c] = <<1>>]
  BY DEF PrintCancel, DeleteQuery, IInv, CallInv
<1>3. <<1>> \in Seq(1 .. MaxReports) /\ \A n \in DOMAIN <<1>> : <<1>>[n] = n
  OBVIOUS
<1>4. /\ raced' \in [Calls -> BOOLEAN]
      /\ (raced'[c] <=> raced[c] \/ (c = made /\ todo # <<>>))
      /\ \A d \in Calls \ {c} : raced'[d] = raced[d]
      /\ call[c].kind = k /\ fault = "none"
  BY <1>1, <1>2, EventRaces
<1>5. /\ written' \in [Calls -> Seq(Request)] /\ printed' \in [Calls -> Seq(1 .. MaxReports)]
      /\ \A d \in Calls \ {c} : printed'[d] = printed[d]
      /\ printed'[c] = printed[c] \/ printed'[c] = <<1>>
  BY <1>2, <1>3 DEF TypeOK
<1>6. TypeOK' /\ call'[c] = Absent /\ \A d \in Calls \ {c} : call'[d] = call[d]
  <2>1. /\ Absent \in CallObject /\ Absent.counter <= Len(Absent.requests)
        /\ Absent.buf <= Absent.reports
    BY AbsentFacts
  <2> QED
    BY <1>2, <1>4, <1>5, <2>1, GoodTypes
<1>7. CallInv(c)'
  <2>1. Phase(c)'
    BY <1>6, AbsentFacts DEF Phase
  <2>2. Caught(c)'
    BY <1>2, <1>3, <1>4, <1>5, <1>6, AbsentFacts DEF Caught
  <2>3. Sent(c)'
    BY <1>2, <1>4, <1>6, AbsentFacts DEF Sent
  <2> QED
    BY <2>1, <2>2, <2>3 DEF CallInv
<1> QED
  BY <1>2, <1>4, <1>5, <1>6, <1>7, AbsentFacts DEF Good

\* An operation completes: its event waits in the queue, with a report if it has
\* brought one.
LEMMA GoodComplete ==
  ASSUME IInv, NEW c \in Calls, CompleteOp(c)
  PROVE  Good(c)
<1>1. PICK e \in {"ok", "fail"}, b \in 0 .. MaxReports :
        /\ Complete(c, [call[c] EXCEPT !.event = e, !.buf = b])
        /\ call[c].op # "none" /\ b <= call[c].reports
        /\ IF call[c].op = "read" /\ e = "ok" THEN b = call[c].buf + 1
           ELSE call[c].kind = "cancel" \/ b = call[c].buf
  <2>1. /\ TypeOK /\ call[c] \in CallObject /\ call[c].buf \in 0 .. MaxReports
        /\ call[c].reports \in 0 .. MaxReports /\ call[c].buf <= call[c].reports
        /\ call[c].kind = "cancel" => call[c].reports = 1
    BY CallFacts DEF IInv, CallInv, Phase
  <2>2. \A e \in {"ok", "fail"} :
          [call[c] EXCEPT !.event = e] = [call[c] EXCEPT !.event = e, !.buf = call[c].buf]
    BY <2>1 DEF CallObject
  <2>3. CASE CompleteWrite(c)
    BY <2>1, <2>2, <2>3 DEF CompleteWrite
  <2>4. CASE CompleteRead(c)
    <3>1. call[c].buf + 1 \in 0 .. MaxReports /\ call[c].buf + 1 <= call[c].reports
      BY <2>1, <2>4 DEF CompleteRead
    <3> QED
      BY <2>4, <3>1 DEF CompleteRead
  <2>5. CASE FailRead(c)
    BY <2>1, <2>2, <2>5 DEF FailRead
  <2>6. CASE CompleteFinish(c)
    <3>1. CASE call[c].kind = "cancel" /\ up
      <4>1. Complete(c, [call[c] EXCEPT !.event = "ok", !.buf = 1])
        BY <2>6, <3>1 DEF CompleteFinish
      <4>2. /\ 1 \in 0 .. MaxReports /\ call[c].op = "finish"
            /\ 1 <= call[c].reports
        BY <2>1, <2>6, <3>1 DEF CompleteFinish
      <4> QED
        BY <3>1, <4>1, <4>2
    <3>2. CASE ~(call[c].kind = "cancel" /\ up)
      <4>1. Complete(c, [call[c] EXCEPT !.event = "ok", !.buf = call[c].buf])
        BY <2>1, <2>6, <3>2 DEF CompleteFinish, CallObject
      <4> QED
        BY <2>1, <2>6, <3>2, <4>1 DEF CompleteFinish
    <3> QED
      BY <3>1, <3>2
  <2> QED
    BY <2>3, <2>4, <2>5, <2>6 DEF CompleteOp
<1>2. /\ TypeOK /\ Phase(c) /\ Caught(c) /\ Sent(c)
      /\ call' = [call EXCEPT ![c] = [call[c] EXCEPT !.event = e, !.buf = b]]
      /\ UNCHANGED <<made, todo, up, written, printed, raced, fault>>
      /\ call[c].event = "none" /\ fault = "none"
  BY <1>1 DEF Complete, IInv, CallInv
<1>3. PICK o \in CallObject : o = [call[c] EXCEPT !.event = e, !.buf = b]
  BY <1>2, CallFacts, ObjectAlter
<1>4. /\ o.kind = call[c].kind /\ o.requests = call[c].requests /\ o.op = call[c].op
      /\ o.event = e /\ o.counter = call[c].counter /\ o.buf = b
      /\ o.responder = call[c].responder /\ o.writing = call[c].writing
      /\ o.file = call[c].file /\ o.reports = call[c].reports
      /\ o.status = call[c].status /\ o.finished = call[c].finished
  BY <1>2, <1>3, CallFacts DEF CallObject
<1>5. call' = [call EXCEPT ![c] = o] /\ o.counter <= Len(o.requests) /\ o.buf <= o.reports
  BY <1>1, <1>2, <1>3, <1>4, CallFacts
<1>6. /\ UNCHANGED <<made, todo, up, written, printed, raced, fault>>
      /\ written' \in [Calls -> Seq(Request)] /\ printed' \in [Calls -> Seq(1 .. MaxReports)]
      /\ raced' \in [Calls -> BOOLEAN]
  BY <1>2 DEF TypeOK
<1>7. TypeOK' /\ call'[c] = o /\ \A d \in Calls \ {c} : call'[d] = call[d]
  BY <1>2, <1>5, <1>6, GoodTypes
<1>8. Keeps(c) /\ Sent(c)'
  BY <1>2, <1>4, <1>6, <1>7, SentKept DEF Keeps
<1>9. Phase(c)'
  BY <1>1, <1>2, <1>4, <1>6, <1>7 DEF Phase
<1>10. Caught(c)'
  BY <1>1, <1>2, <1>4, <1>6, <1>7, CallFacts DEF Caught, Phase
<1>11. CallInv(c)' /\ call[c].kind # "none"
  BY <1>1, <1>2, <1>8, <1>9, <1>10 DEF CallInv, Phase
<1> QED
  BY <1>2, <1>4, <1>6, <1>7, <1>11 DEF Good

\* What one call does leaves the invariant of all as it is.
LEMMA GoodStep ==
  ASSUME IInv, NEW c \in Calls, Good(c)
  PROVE  IInv'
<1>1. /\ made' = made /\ todo' = todo /\ fault' = fault /\ TypeOK /\ TypeOK'
      /\ \A d \in Calls \ {c} :
           /\ call'[d] = call[d] /\ raced'[d] = raced[d]
           /\ written'[d] = written[d] /\ printed'[d] = printed[d]
  BY DEF Good, IInv
<1>2. Fresh'
  <2>1. Fresh /\ made \in Nat /\ call[c].kind # "none" /\ c \in Nat
    BY <1>1 DEF IInv, Good, Calls, TypeOK
  <2>2. c <= made
    BY <2>1 DEF Fresh
  <2>3. SUFFICES ASSUME NEW d \in Calls, d > made
                 PROVE  call'[d].kind = "none" /\ written'[d] = <<>> /\ printed'[d] = <<>>
    BY <1>1 DEF Fresh
  <2>4. d # c
    BY <2>1, <2>2, <2>3
  <2> QED
    BY <1>1, <2>1, <2>3, <2>4 DEF Fresh
<1>3. UnderConstruction'
  BY <1>1 DEF IInv, UnderConstruction, Good
<1>4. Assigned'
  BY <1>1 DEF IInv, Assigned, Good
<1>5. \A d \in Calls : CallInv(d)'
  <2>1. ASSUME NEW d \in Calls \ {c} PROVE CallInv(d)'
    <3>1. CallInv(d)
      BY DEF IInv
    <3>2. Phase(d)' /\ Caught(d)'
      BY <1>1, <3>1 DEF CallInv, Phase, Caught
    <3>3. Keeps(d) /\ Sent(d)'
      BY <1>1, <3>1, SentKept DEF CallInv, Keeps
    <3> QED
      BY <3>2, <3>3 DEF CallInv
  <2> QED
    BY <2>1 DEF Good
<1>6. FaultOnlyRaced'
  BY <1>1 DEF IInv, FaultOnlyRaced, Good
<1> QED
  BY <1>1, <1>2, <1>3, <1>4, <1>5, <1>6 DEF IInv

-----------------------------------------------------------------------------
(* The main thread *)

\* A new object is made for the first number that is free; what it keeps of the
\* other calls is their invariant.
LEMMA CommandStep ==
  ASSUME IInv, NEW o \in CallObject, NEW rest, AtPrompt, Command(o, rest),
         rest \in {<<>>, <<"callStatus">>, <<"responder", "callStatus">>},
         o.counter = 0, o.buf = 0, o.event = "none", ~o.finished,
         \/ o.kind = "new" /\ o.op = "start" /\ o.writing /\ rest = <<>>
         \/ o.kind = "cancel" /\ o.op = "finish" /\ o.reports = 1
         \/ o.kind = "query" /\ o.op = "start",
         o.responder \/ rest = <<"responder", "callStatus">>,
         o.kind = "new" => \A k \in 1 .. Len(o.requests) :
           IF k <= Len(o.file.lines) THEN o.requests[k] = o.file.lines[k]
           ELSE CheckRequest(o.requests[k]) => FromLeftovers(o.file, o.requests[k])
  PROVE  IInv'
<1>1. /\ TypeOK /\ todo = <<>> /\ made' = made + 1 /\ todo' = rest
      /\ call' = [call EXCEPT ![made + 1] = o]
      /\ UNCHANGED <<up, written, printed, raced, fault>>
      /\ made + 1 \in Calls /\ made \in Nat /\ fault = "none"
  <2>1. /\ TypeOK /\ fault = "none" /\ todo = <<>> /\ made < MaxCalls
    BY DEF IInv, AtPrompt
  <2>2. made \in Nat /\ made + 1 \in Calls
    BY <2>1 DEF TypeOK, Calls
  <2> QED
    BY <2>1, <2>2 DEF Command
<1>2. PICK c \in Calls : c = made + 1
  BY <1>1
<1>3. /\ call' \in [Calls -> CallObject] /\ call'[c] = o
      /\ \A d \in Calls \ {c} : call'[d] = call[d]
      /\ UNCHANGED <<up, written, printed, raced, fault>>
  BY <1>1, <1>2 DEF TypeOK
<1>4. /\ written[c] = <<>> /\ printed[c] = <<>>
      /\ \A d \in Calls : call[d].responder
  BY <1>1, <1>2 DEF IInv, Fresh, Assigned, Calls
<1>5. o.requests \in Seq(Request) /\ Len(o.requests) \in Nat /\ o.reports \in Nat
  BY LenProperties DEF CallObject
<1>6. TypeOK'
  <2>1. \A d \in Calls :
          call'[d].counter <= Len(call'[d].requests) /\ call'[d].buf <= call'[d].reports
    BY <1>1, <1>3, <1>5 DEF TypeOK
  <2>2. made' \in 0 .. MaxCalls
    BY <1>1, <1>2 DEF Calls
  <2> QED
    BY <1>1, <1>3, <2>1, <2>2 DEF TypeOK
<1>7. Fresh'
  BY <1>1, <1>2, <1>3 DEF IInv, Fresh, Calls
<1>8. UnderConstruction'
  BY <1>1, <1>2, <1>3 DEF UnderConstruction
<1>9. Assigned'
  BY <1>1, <1>2, <1>3, <1>4 DEF Assigned
<1>10. CallInv(c)'
  <2>1. Phase(c)'
    BY <1>3 DEF Phase
  <2>2. Caught(c)'
    <3>1. Len(printed'[c]) = 0 /\ \A k \in DOMAIN printed'[c] : printed'[c][k] = k
      BY <1>3, <1>4
    <3> QED
      BY <1>3, <3>1 DEF Caught
  <2>3. Sent(c)'
    BY <1>3, <1>4 DEF Sent, FromFile
  <2> QED
    BY <2>1, <2>2, <2>3 DEF CallInv
<1>11. ASSUME NEW d \in Calls \ {c} PROVE CallInv(d)'
  <2>1. CallInv(d)
    BY DEF IInv
  <2>2. Phase(d)' /\ Caught(d)'
    BY <1>3, <2>1 DEF CallInv, Phase, Caught
  <2>3. Keeps(d) /\ Sent(d)'
    BY <1>3, <2>1, SentKept DEF CallInv, Keeps
  <2> QED
    BY <2>2, <2>3 DEF CallInv
<1>12. FaultOnlyRaced'
  BY <1>1 DEF FaultOnlyRaced
<1> QED
  BY <1>6, <1>7, <1>8, <1>9, <1>10, <1>11, <1>12 DEF IInv

\* The variables hold a request in which each field is of the order the file
\* breaks off in or what it was before.
LEMMA ReadPartFacts ==
  ASSUME NEW f, f.part \in Request, f.got \in 0 .. 5, NEW old \in Request
  PROVE  /\ ReadPart(f, old) \in Request
         /\ \A x \in DOMAIN ReadPart(f, old) : ReadPart(f, old)[x] \in {old[x], f.part[x]}
         /\ f.got = 0 => ReadPart(f, old) = old
<1>1. ReadPart(f, old) \in Request
  BY DEF ReadPart, Request
<1>2. \A x \in DOMAIN ReadPart(f, old) : ReadPart(f, old)[x] \in {old[x], f.part[x]}
  BY DEF ReadPart, Request
<1>3. f.got = 0 => ReadPart(f, old) = old
  BY DEF ReadPart, Request
<1> QED
  BY <1>1, <1>2, <1>3

\* What ReadNewOrderRequest gets out of a file: its lines, and beyond them what
\* was read last or what cannot be a legal request.
LEMMA RequestsFromFile ==
  ASSUME NEW f \in Files, NEW g \in Garbage, NEW n \in Nat
  PROVE  LET reqs == ReadNewOrderRequest(f, n, g)
         IN  /\ reqs \in Seq(Request)
             /\ \A k \in 1 .. Len(reqs) :
                  IF k <= Len(f.lines) THEN reqs[k] = f.lines[k]
                  ELSE CheckRequest(reqs[k]) => FromLeftovers(f, reqs[k])
<1>1. /\ f.lines \in Seq(Request) /\ f.part \in Request /\ f.got \in 0 .. 5
      /\ g \in Request /\ g.stock = NoStock
  BY DEF File
<1>2. /\ Len(f.lines) \in Nat
      /\ \A i \in 1 .. Len(f.lines) : f.lines[i] \in Request
      /\ f.lines # <<>> => Last(f.lines) \in Request
  BY <1>1, LenProperties, ElementOfSeq, EmptySeq DEF Last
<1>3. ASSUME NEW i \in 1 .. n
      PROVE  /\ ReadLine(f, i, g) \in Request
             /\ IF i <= Len(f.lines) THEN ReadLine(f, i, g) = f.lines[i]
                ELSE CheckRequest(ReadLine(f, i, g)) => FromLeftovers(f, ReadLine(f, i, g))
  <2>1. CASE i <= Len(f.lines)
    BY <1>2, <2>1 DEF ReadLine
  <2>2. CASE ~(i <= Len(f.lines)) /\ f.lines = <<>>
    <3>1. ReadLine(f, i, g) = ReadPart(f, g)
      BY <2>2 DEF ReadLine
    <3>2. ReadPart(f, g) \in Request
      BY <1>1, ReadPartFacts
    <3>3. CheckRequest(ReadPart(f, g)) => f.got >= 4 /\ ReadPart(f, g).stock = f.part.stock
      BY <1>1 DEF ReadPart, CheckRequest
    <3> QED
      BY <2>2, <3>1, <3>2, <3>3 DEF FromLeftovers
  <2>3. CASE ~(i <= Len(f.lines)) /\ f.lines # <<>>
    <3>1. ReadLine(f, i, g) = ReadPart(f, Last(f.lines))
      BY <2>3 DEF ReadLine
    <3> QED
      BY <1>1, <1>2, <2>3, <3>1, ReadPartFacts DEF FromLeftovers
  <2> QED
    BY <2>1, <2>2, <2>3
<1>4. ReadNewOrderRequest(f, n, g) = [i \in 1 .. n |-> ReadLine(f, i, g)]
  BY DEF ReadNewOrderRequest
<1>5. /\ ReadNewOrderRequest(f, n, g) \in Seq(Request)
      /\ Len(ReadNewOrderRequest(f, n, g)) = n
      /\ \A i \in 1 .. n : ReadNewOrderRequest(f, n, g)[i] = ReadLine(f, i, g)
  <2>1. /\ ReadNewOrderRequest(f, n, g) \in [1 .. n -> Request]
        /\ \A i \in 1 .. n : ReadNewOrderRequest(f, n, g)[i] = ReadLine(f, i, g)
    BY <1>3, <1>4
  <2>2. ReadNewOrderRequest(f, n, g) \in Seq(Request)
    BY <2>1, SeqDef
  <2> QED
    BY <2>1, <2>2, LenProperties
<1> QED
  BY <1>3, <1>5

\* The three commands.
LEMMA CommandsStep ==
  ASSUME IInv, PushNewOrder \/ PushCancelOrder \/ PushQueryOrder
  PROVE  IInv'
<1>0. AtPrompt
  BY DEF PushNewOrder, PushCancelOrder, PushQueryOrder
<1>1. /\ NoFile \in File /\ <<>> \in Seq(Request) /\ 1 \in 0 .. MaxReports
  BY NoPartType DEF NoFile, File
<1>2. CASE PushNewOrder
  <2>0. PICK f \in Files, g \in Garbage, n \in 0 .. MaxReports : \E num \in RequestNums(f) :
          Command(Object("new", f, ReadNewOrderRequest(f, num, g), n, "start"), <<>>)
    BY <1>2 DEF PushNewOrder
  <2>1. PICK num \in RequestNums(f) :
          Command(Object("new", f, ReadNewOrderRequest(f, num, g), n, "start"), <<>>)
    BY <2>0
  <2>2. num \in Nat /\ f \in File
    BY DEF RequestNums, File
  <2>3. PICK reqs \in Seq(Request) :
          /\ reqs = ReadNewOrderRequest(f, num, g)
          /\ \A k \in 1 .. Len(reqs) :
               IF k <= Len(f.lines) THEN reqs[k] = f.lines[k]
               ELSE CheckRequest(reqs[k]) => FromLeftovers(f, reqs[k])
    BY <2>2, RequestsFromFile
  <2>4. PICK o : o = Object("new", f, reqs, n, "start")
    OBVIOUS
  <2>5. /\ o.kind = "new" /\ o.op = "start" /\ o.writing /\ o.responder /\ ~o.finished
        /\ o.counter = 0 /\ o.buf = 0 /\ o.event = "none"
        /\ o.requests = reqs /\ o.file = f
    BY <2>4 DEF Object
  <2>6. o \in CallObject
    BY <2>2, <2>4 DEF Object, CallObject
  <2>7. Command(o, <<>>)
    BY <2>1, <2>3, <2>4
  <2> QED
    BY <1>0, <2>3, <2>5, <2>6, <2>7, CommandStep
<1>3. CASE PushCancelOrder
  <2>1. PICK o : o = Object("cancel", NoFile, <<>>, 1, "finish")
    OBVIOUS
  <2>2. /\ o.kind = "cancel" /\ o.op = "finish" /\ o.responder /\ ~o.finished
        /\ o.reports = 1
        /\ o.counter = 0 /\ o.buf = 0 /\ o.event = "none"
    BY <2>1 DEF Object
  <2>3. o \in CallObject
    BY <1>1, <2>1 DEF Object, CallObject
  <2>4. Command(o, <<"callStatus">>)
    BY <1>3, <2>1 DEF PushCancelOrder
  <2> QED
    BY <1>0, <2>2, <2>3, <2>4, CommandStep
<1>4. CASE PushQueryOrder
  <2>1. PICK n \in 0 .. MaxReports :
          Command(Object("query", NoFile, <<>>, n, "start"), <<"responder", "callStatus">>)
    BY <1>4 DEF PushQueryOrder
  <2>2. PICK o : o = Object("query", NoFile, <<>>, n, "start")
    OBVIOUS
  <2>3. /\ o.kind = "query" /\ o.op = "start" /\ ~o.finished
        /\ o.counter = 0 /\ o.buf = 0 /\ o.event = "none"
    BY <2>2 DEF Object
  <2>4. o \in CallObject
    BY <1>1, <2>2 DEF Object, CallObject
  <2>5. Command(o, <<"responder", "callStatus">>)
    BY <2>1, <2>2
  <2> QED
    BY <1>0, <2>3, <2>4, <2>5, CommandStep
<1> QED
  BY <1>2, <1>3, <1>4

\* The constructor goes on with the object it has started.
LEMMA AssignStep ==
  ASSUME IInv, Assign
  PROVE  IInv'
<1>1. /\ TypeOK /\ todo # <<>> /\ todo' = Tail(todo)
      /\ call' = IF Head(todo) = "responder"
                 THEN [call EXCEPT ![made].responder = TRUE]
                 ELSE [call EXCEPT ![made].status = "PROCESS"]
      /\ UNCHANGED <<made, up, written, printed, raced, fault>>
      /\ made \in Calls /\ call[made] \in CallObject /\ fault = "none"
  BY CallFacts DEF IInv, Assign, UnderConstruction
<1>2. PICK o \in CallObject :
        o = IF Head(todo) = "responder" THEN [call[made] EXCEPT !.responder = TRUE]
            ELSE [call[made] EXCEPT !.status = "PROCESS"]
  BY <1>1, ObjectAlter
<1>3. /\ o.kind = call[made].kind /\ o.op = call[made].op /\ o.event = call[made].event
      /\ o.requests = call[made].requests /\ o.file = call[made].file
      /\ o.reports = call[made].reports /\ o.counter = call[made].counter
      /\ o.buf = call[made].buf /\ o.writing = call[made].writing
      /\ o.finished = call[made].finished
      /\ o.responder \/ (Head(todo) # "responder" /\ ~call[made].responder)
  <2>1. CASE Head(todo) = "responder"
    BY <1>1, <1>2, <2>1 DEF CallObject
  <2>2. CASE Head(todo) # "responder"
    BY <1>1, <1>2, <2>2 DEF CallObject
  <2> QED
    BY <2>1, <2>2
<1>4. /\ call' \in [Calls -> CallObject] /\ call'[made] = o
      /\ \A d \in Calls \ {made} : call'[d] = call[d]
  BY <1>1, <1>2 DEF TypeOK
<1>5. \/ todo = <<"callStatus">> /\ todo' = <<>> /\ Head(todo) # "responder"
      \/ todo = <<"responder", "callStatus">> /\ todo' = <<"callStatus">>
           /\ Head(todo) = "responder"
  <2>1. todo = <<"callStatus">> \/ todo = <<"responder", "callStatus">>
    BY <1>1 DEF TypeOK
  <2>2. Tail(<<"callStatus">>) = <<>> /\ Head(<<"callStatus">>) = "callStatus"
    OBVIOUS
  <2>3. /\ Tail(<<"responder", "callStatus">>) = <<"callStatus">>
        /\ Head(<<"responder", "callStatus">>) = "responder"
    OBVIOUS
  <2> QED
    BY <1>1, <2>1, <2>2, <2>3
<1>6. TypeOK'
  <2>1. \A d \in Calls :
          call'[d].counter <= Len(call'[d].requests) /\ call'[d].buf <= call'[d].reports
    BY <1>1, <1>3, <1>4 DEF TypeOK
  <2> QED
    BY <1>1, <1>4, <1>5, <2>1 DEF TypeOK
<1>7. Fresh'
  BY <1>1, <1>3, <1>4 DEF IInv, Fresh
<1>8. UnderConstruction'
  BY <1>1, <1>3, <1>4 DEF IInv, UnderConstruction
<1>9. Assigned'
  <2>1. \A d \in Calls : call'[d].responder
    BY <1>3, <1>4, <1>5 DEF IInv, Assigned
  <2> QED
    BY <2>1 DEF Assigned
<1>10. CallInv(made)'
  <2>1. Phase(made) /\ Caught(made) /\ Sent(made) /\ made' = made
    BY <1>1 DEF IInv, CallInv
  <2>2. call[made].kind = "query" /\ ~raced[made] => call[made].op = "start"
    BY <1>1 DEF IInv, UnderConstruction
  <2>3. Phase(made)'
    BY <1>1, <1>3, <1>4, <2>1, <2>2 DEF Phase
  <2>4. Caught(made)'
    <3>1. /\ call'[made].kind = call[made].kind /\ call'[made].op = call[made].op
          /\ call'[made].event = call[made].event /\ call'[made].buf = call[made].buf
          /\ printed'[made] = printed[made] /\ raced'[made] = raced[made] /\ made' = made
      BY <1>1, <1>3, <1>4
    <3> QED
      BY ZenonT(30), <2>1, <3>1 DEF Caught
  <2>6. Sent(made)'
    <3>1. \A k : FromFile(made, k) => FromFile(made, k)'
      BY <1>3, <1>4, <2>1 DEF FromFile
    <3> QED
      BY <1>1, <1>3, <1>4, <2>1, <3>1 DEF Sent
  <2> QED
    BY <2>3, <2>4, <2>6 DEF CallInv
<1>11. ASSUME NEW d \in Calls \ {made} PROVE CallInv(d)'
  <2>1. CallInv(d)
    BY DEF IInv
  <2>2. Phase(d)' /\ Caught(d)'
    BY <1>1, <1>4, <2>1 DEF CallInv, Phase, Caught
  <2>3. Keeps(d) /\ Sent(d)'
    BY <1>1, <1>4, <2>1, SentKept DEF CallInv, Keeps
  <2> QED
    BY <2>2, <2>3 DEF CallInv
<1>12. FaultOnlyRaced'
  BY <1>1 DEF FaultOnlyRaced
<1> QED
  BY <1>1, <1>6, <1>7, <1>8, <1>9, <1>10, <1>11, <1>12 DEF IInv

-----------------------------------------------------------------------------
(* Theorems *)

\* The ways to die: each needs a constructor that has been overtaken.
LEMMA DieStep ==
  ASSUME IInv,
         AssignDeleted \/ \E c \in Calls : FinishAgain(c) \/ NullResponder(c)
  PROVE  IInv'
<1>1. /\ UNCHANGED <<made, todo, call, up, written, printed>>
      /\ fault' \in {"use_after_free", "finish_twice", "null_responder"}
  BY DEF AssignDeleted, FinishAgain, NullResponder, Die
<1>2. /\ raced' \in [Calls -> BOOLEAN]
      /\ \A c \in Calls : raced[c] => raced'[c]
      /\ \/ fault' \in {"use_after_free", "null_responder"} /\ made \in Calls /\ raced'[made]
         \/ /\ fault' = "finish_twice"
            /\ \E c \in Calls : raced'[c] /\ call[c].kind = "query" /\ call[c].finished
  <2>1. CASE AssignDeleted
    BY <2>1 DEF AssignDeleted, Die, IInv, TypeOK, UnderConstruction, Alive
  <2>2. ASSUME NEW c \in Calls, FinishAgain(c) 
        PROVE  /\ raced' \in [Calls -> BOOLEAN] /\ raced'[c]
               /\ \A d \in Calls : raced[d] => raced'[d]
               /\ fault' = "finish_twice" /\ call[c].kind = "query" /\ call[c].finished
    <3>1. /\ fault' = "finish_twice"
          /\ Event(c, "query") /\ call[c].finished /\ call[c].status = "PROCESS"
          /\ TypeOK /\ Phase(c)
      BY <2>2 DEF FinishAgain, Die, IInv, CallInv
    <3>2. call[c].kind = "query" /\ raced[c]
      BY <3>1, EventRaces DEF Phase
    <3> QED
      BY <3>1, <3>2, EventRaces
  <2>3. ASSUME NEW c \in Calls, NullResponder(c) 
        PROVE  /\ raced' \in [Calls -> BOOLEAN] /\ raced'[c]
               /\ \A d \in Calls : raced[d] => raced'[d]
               /\ fault' = "null_responder" /\ c = made
    <3>1. Event(c, "query") /\ ~call[c].responder /\ TypeOK /\ fault' = "null_responder"
      BY <2>3 DEF NullResponder, Die, IInv
    <3>2. c = made /\ todo # <<>>
      BY <3>1 DEF IInv, Assigned
    <3> QED
      BY <3>1, <3>2, EventRaces
  <2> QED
    BY <2>1, <2>2, <2>3
<1>3. TypeOK'
  BY <1>1, <1>2 DEF IInv, TypeOK
<1>4. Fresh' /\ UnderConstruction' /\ Assigned'
  BY <1>1, <1>2 DEF IInv, Fresh, UnderConstruction, Assigned
<1>5. ASSUME NEW d \in Calls PROVE CallInv(d)'
  <2>1. CallInv(d)
    BY DEF IInv
  <2>2. Phase(d)' /\ Caught(d)'
    BY <1>1, <1>2, <2>1 DEF CallInv, Phase, Caught
  <2>3. Keeps(d) /\ Sent(d)'
    BY <1>1, <2>1, SentKept DEF CallInv, Keeps
  <2> QED
    BY <2>2, <2>3 DEF CallInv
<1>6. FaultOnlyRaced'
  BY <1>1, <1>2 DEF FaultOnlyRaced
<1> QED
  BY <1>3, <1>4, <1>5, <1>6 DEF IInv

\* A lost connection changes nothing the invariant is about.
LEMMA QuietStep ==
  ASSUME IInv, LoseConnection \/ UNCHANGED vars
  PROVE  IInv'
<1>1. UNCHANGED <<made, todo, call, written, printed, raced, fault>> /\ up' \in BOOLEAN
  BY DEF LoseConnection, vars, IInv, TypeOK
<1>2. TypeOK' /\ Fresh' /\ UnderConstruction' /\ Assigned' /\ FaultOnlyRaced'
  BY <1>1 DEF IInv, TypeOK, Fresh, UnderConstruction, Assigned, FaultOnlyRaced
<1>3. ASSUME NEW d \in Calls PROVE CallInv(d)'
  BY <1>1 DEF IInv, CallInv, Phase, Caught, Sent, FromFile
<1> QED
  BY <1>2, <1>3 DEF IInv

\* Each step of either thread is one of the above.
LEMMA NextStep ==
  ASSUME IInv, [Next]_vars
  PROVE  IInv'
<1>1. ASSUME NEW c \in Calls, Proceed(c) PROVE IInv'
  <2>1. ASSUME ReadReport(c) \/ ReadOrder(c) PROVE Good(c)
    <3>1. CASE ReadReport(c)
      BY <3>1, GoodReadAndPrint DEF ReadReport
    <3>2. CASE ReadOrder(c)
      BY <3>2, GoodReadAndPrint DEF ReadOrder
    <3> QED
      BY <2>1, <3>1, <3>2
  <2> QED
    BY <1>1, <2>1, GoodWriteRequest, GoodWritesDone, GoodEndReports, GoodFinishQuery,
       GoodDelete, GoodStep, DieStep DEF Proceed
<1>2. ASSUME NEW c \in Calls, CompleteOp(c) PROVE IInv'
  BY <1>2, GoodComplete, GoodStep
<1>3. CASE Main
  BY <1>3, CommandsStep, AssignStep, DieStep DEF Main
<1>4. CASE LoseConnection \/ UNCHANGED vars
  BY <1>4, QuietStep
<1> QED
  BY <1>1, <1>2, <1>3, <1>4 DEF Next

\* The invariant holds of a client that has just started.
LEMMA InitIInv == Init => IInv
<1> SUFFICES ASSUME Init PROVE IInv
  OBVIOUS
<1>1. <<>> \in Seq(Request) /\ <<>> \in Seq(1 .. MaxReports) /\ Len(<<>>) = 0
  OBVIOUS
<1>2. TypeOK
  BY <1>1, AbsentFacts DEF Init, TypeOK
<1>3. Fresh /\ UnderConstruction /\ Assigned /\ FaultOnlyRaced
  BY AbsentFacts DEF Init, Fresh, UnderConstruction, Assigned, FaultOnlyRaced
<1>4. ASSUME NEW c \in Calls PROVE CallInv(c)
  BY AbsentFacts DEF Init, CallInv, Phase, Caught, Sent
<1> QED
  BY <1>2, <1>3, <1>4 DEF IInv

\* The invariant is inductive: for any number of calls and reports and any files,
\* no step of the two threads, the server or the network breaks it.
THEOREM ClientInvariance == Spec => []IInv
<1>1. IInv /\ [Next]_vars => IInv'
  BY NextStep
<1> QED
  BY InitIInv, <1>1, PTL DEF Spec

\* Every variable always has its type: in particular, the counter of a call never
\* passes the number of requests made for it, and never are more reports read than
\* the server has for it.
THEOREM ClientTypes == Spec => []TypeOK
<1>1. IInv => TypeOK
  BY DEF IInv
<1> QED
  BY ClientInvariance, <1>1, PTL

\* No object is used before its members are assigned or after it is deleted, and no
\* call is finished twice, unless the queue's thread has overtaken the constructor
\* of that very call.
THEOREM ClientFaults == Spec => []FaultOnlyRaced
<1>1. IInv => FaultOnlyRaced
  BY DEF IInv
<1> QED
  BY ClientInvariance, <1>1, PTL

\* Reports are printed in the order of their stream, each once and none left out.
THEOREM ClientPrints == Spec => []PrintedInOrder
<1>1. IInv => PrintedInOrder
  BY DEF IInv, CallInv, Caught, PrintedInOrder
<1> QED
  BY ClientInvariance, <1>1, PTL

\* What is sent for a file is what it holds; what is legal beyond it is made of the
\* order read last and the one the file breaks off in, or, if that is its first,
\* names the stock it gave.
THEOREM ClientSends == Spec => []SentFromFile
<1>1. ASSUME IInv PROVE SentFromFile
  <2>1. SUFFICES ASSUME NEW c \in Calls, NEW k \in DOMAIN written[c]
                 PROVE  LET f   == call[c].file
                            req == written[c][k]
                        IN  IF k <= Len(f.lines) THEN req = f.lines[k]
                            ELSE CheckRequest(req) => FromLeftovers(f, req)
    BY DEF SentFromFile
  <2>2. /\ TypeOK /\ Sent(c) /\ k \in 1 .. Len(written[c])
        /\ call[c].counter <= Len(call[c].requests)
        /\ Len(call[c].requests) \in Nat /\ Len(written[c]) \in Nat
    BY <1>1, CallFacts, LenProperties DEF IInv, CallInv
  <2>3. call[c].kind = "new"
    BY <2>2 DEF Sent
  <2>4. written[c][k] = call[c].requests[k] /\ FromFile(c, k)
    BY <2>2, <2>3 DEF Sent
  <2> QED
    BY <2>4 DEF FromFile
<1> QED
  BY ClientInvariance, <1>1, PTL

=============================================================================
