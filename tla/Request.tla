------------------------------ MODULE Request ------------------------------
(***************************************************************************)
(* One request through the program: the checks of AbstractServer on HTTP   *)
(* and JSON, the handler of the method with the fields it reads, and the   *)
(* catch around it.  No state is kept here; module Process has the threads *)
(* that do this.                                                           *)
(*                                                                         *)
(* A field of the JSON body is abstracted to what the code tells apart:    *)
(* asString() of a missing one is the empty string and of a list or an     *)
(* object an exception.                                                    *)
(***************************************************************************)
EXTENDS Integers

Missing    == "missing"
Structured == "structured"

\* What std::stoi(asString()) makes of a number that is none; the numbers of
\* the model are not negative.
NoNumber   == -1    \* std::invalid_argument
OutOfRange == -2    \* std::out_of_range
NotAString == -3    \* asString() throws

ServerMethods == {"Locks.CreateSemaphore", "Locks.DeleteSemaphore",
                  "Locks.DecrementSemaphore", "Locks.IncrementSemaphore",
                  "Locks.Dump", "Locks.Probe"}
ClientMethods == {"Client.Probe"}
BothMethods   == {"Maintenance.Hello", "Maintenance.Heartbeat"}

RequestType ==
  [http : {"POST", "other"}, ctype : {"application/json", "other", Missing},
   path : {"/v1", "other"},
   \* What Json::Reader makes of it: an exception, of one that nests deeper than its
   \* stack goes, a refusal, or a value.
   body : {"too deep", "unparsable", "object", "list"},
   method : ServerMethods \cup ClientMethods \cup BothMethods \cup {"other"},
   params : {"list", "other"},                  \* params[0] exists or may be made
   uuid : {"known", "unknown", Missing, Structured},
   owner : {"alive", "dead", Missing, Structured},   \* what CheckClient finds
   cur : Int, min : Int, max : Int,
   initiator : {"ip:port", "no colon", Missing, Structured}]

\* What a handler comes to.  An answer is HTTP 403 with plain text, or JSON with
\* or without an error; "undefined" and "throws" are not answered by the handler,
\* and "waits" is decrement().
Outcomes == {"text", "error", "ok", "undefined", "throws", "waits"}

-----------------------------------------------------------------------------
(* AbstractServer *)

\* in_operator answers 403 itself, before any handler, also where the parser refuses.
TurnedAway(r) == \/ r.http # "POST"
                 \/ r.ctype # "application/json"
                 \/ r.path # "/v1"
                 \/ r.body = "unparsable"

\* Mutant: no catch around the handler.
CaughtNot(outcome) == outcome

\* operatorO_parseJson: an exception of the handler is answered with 403.
Caught(outcome) == IF outcome = "throws" THEN "text" ELSE outcome

-----------------------------------------------------------------------------
(* The handlers; live says whether the semaphore that is "known" exists. *)

Readable(r, fields) == r.params = "list" /\ Structured \notin fields

\* The numbers are read in this order, and the first bad one decides.
FirstBad(r) ==
  IF r.cur < 0 THEN r.cur ELSE IF r.min < 0 THEN r.min ELSE IF r.max < 0 THEN r.max ELSE 0

\* Mutant: the bounds are not compared.
CreateUnchecked(r) ==
  IF r.params # "list" \/ FirstBad(r) = NotAString THEN "throws"
  ELSE IF FirstBad(r) < 0 THEN "error" ELSE "ok"

Create(r) ==
  IF r.params # "list" \/ FirstBad(r) = NotAString THEN "throws"
  ELSE IF FirstBad(r) < 0 \/ r.cur = r.min \/ r.min > r.max THEN "error" ELSE "ok"

Delete(r, live) ==
  IF ~Readable(r, {r.uuid}) THEN "throws"
  ELSE IF r.uuid = "known" /\ live THEN "ok" ELSE "error"

\* Owner, semaphore and client are in order, and the call comes to the Semaphore.
Admitted(r, live) == r.uuid = "known" /\ live /\ r.owner = "alive"

Decrement(r, live) ==
  IF ~Readable(r, {r.uuid, r.owner}) THEN "throws"
  ELSE IF Admitted(r, live) THEN "waits" ELSE "error"

Increment(r, live) ==
  IF ~Readable(r, {r.uuid, r.owner}) THEN "throws"
  ELSE IF Admitted(r, live) THEN "ok" ELSE "error"

\* find() of an unknown UUID is the end() of a map that is gone, and used.
LocksProbe(r, live) ==
  IF ~Readable(r, {r.uuid, r.initiator}) THEN "throws"
  ELSE IF r.uuid = "known" /\ live THEN "ok" ELSE "undefined"

\* Server::operatorO_parseJson_in
ServerHandler(r, live) ==
  IF r.body # "object" THEN "throws" ELSE
  CASE r.method = "Maintenance.Hello"        -> IF r.params = "list" THEN "ok" ELSE "throws"
    [] r.method = "Locks.CreateSemaphore"    -> Create(r)
    [] r.method = "Locks.DeleteSemaphore"    -> Delete(r, live)
    [] r.method = "Locks.DecrementSemaphore" -> Decrement(r, live)
    [] r.method = "Locks.IncrementSemaphore" -> Increment(r, live)
    [] r.method \in {"Locks.Dump", "Maintenance.Heartbeat"} -> "ok"
    [] r.method = "Locks.Probe"              -> LocksProbe(r, live)
    [] OTHER                                 -> "error"

\* split(): the words of an InitiatorAddr.
Words(initiator) == CASE initiator = "ip:port"  -> 2
                      [] initiator = "no colon" -> 1
                      [] initiator = Missing    -> 0

\* ClientServer::operatorO_parseJson_in.  compareAddressesEqual notices that the
\* address has not two words and reads the second all the same; with two words,
\* every branch answers with an error.
ClientHandler(r) ==
  IF r.body # "object" THEN "throws" ELSE
  CASE r.method = "Maintenance.Hello" -> IF r.params = "list" THEN "ok" ELSE "throws"
    [] r.method = "Maintenance.Heartbeat" -> "ok"
    [] r.method = "Client.Probe"      ->
         IF ~Readable(r, {r.initiator}) THEN "throws"
         ELSE IF Words(r.initiator) >= 2 THEN "error" ELSE "undefined"
    [] OTHER                          -> "error"

\* The whole of a request, up to decrement() or the answer.  The parser runs before
\* the try of operatorO_parseJson, and what it throws is not caught.
Served(r, isServer, live) ==
  IF TurnedAway(r) THEN "text"
  ELSE IF r.body = "too deep" THEN "throws"
  ELSE Caught(IF isServer THEN ServerHandler(r, live) ELSE ClientHandler(r))

=============================================================================
