--------------------------- MODULE AsyncClientInv ---------------------------
(***************************************************************************)
(* The inductive invariant of AsyncClient.                                 *)
(***************************************************************************)
EXTENDS AsyncClient

\* Numbers above `made` belong to no call yet.
Fresh ==
  \A c \in Calls :
    c > made => call[c].kind = "none" /\ written[c] = <<>> /\ printed[c] = <<>>

\* While a constructor runs, its object is as the start of the call has left it,
\* unless the queue's thread has overtaken it.
UnderConstruction ==
  todo # <<>> =>
    /\ made \in Calls
    /\ \/ raced[made]
       \/ call[made].kind = "cancel"
       \/ call[made].kind = "query" /\ call[made].op = "start"

\* A query without its responder is one whose constructor has yet to assign it.
Assigned ==
  \A c \in Calls : ~call[c].responder => c = made /\ todo = <<"responder", "callStatus">>

\* How far a call is: which operations can be pending with it.
Phase(c) ==
  /\ call[c].kind = "none" => call[c].op = "none"
  /\ call[c].kind = "new" =>
       IF call[c].writing THEN call[c].op \in {"start", "write"}
       ELSE call[c].op \in {"writesDone", "read", "none"}
  /\ call[c].kind = "cancel" => call[c].op = "finish" /\ call[c].reports = 1
  /\ call[c].kind = "query" /\ ~raced[c] =>
       IF call[c].op = "finish" THEN call[c].status = "FINISH"
       ELSE call[c].op \in {"start", "read"} /\ ~call[c].finished
  /\ call[c].op = "none" => call[c].event = "none"

\* What is printed is what has been read, but for a report that a Read has just
\* brought; nothing is read before the first Read.
Caught(c) ==
  ~raced[c] =>
    /\ \A k \in DOMAIN printed[c] : printed[c][k] = k
    /\ call[c].kind \in {"new", "query"} =>
         /\ call[c].buf = Len(printed[c]) +
              (IF call[c].op = "read" /\ call[c].event = "ok" THEN 1 ELSE 0)
         /\ call[c].op \in {"start", "write", "writesDone"} => call[c].buf = 0

\* Request k of a call is line k of its file, or what is left in the variables
\* when there is no such line.
FromFile(c, k) ==
  LET f   == call[c].file
      req == call[c].requests[k]
  IN  IF k <= Len(f.lines) THEN req = f.lines[k]
      ELSE CheckRequest(req) => FromLeftovers(f, req)

\* What is sent is what was read from the file, as far as the counter says.
Sent(c) ==
  IF call[c].kind = "new"
  THEN /\ Len(written[c]) = call[c].counter
       /\ \A k \in 1 .. call[c].counter : written[c][k] = call[c].requests[k]
       /\ \A k \in 1 .. Len(call[c].requests) : FromFile(c, k)
  ELSE written[c] = <<>>

CallInv(c) == Phase(c) /\ Caught(c) /\ Sent(c)

\* The inductive invariant.
IInv ==
  /\ TypeOK /\ Fresh /\ UnderConstruction /\ Assigned
  /\ \A c \in Calls : CallInv(c)
  /\ FaultOnlyRaced

=============================================================================
