------------------------------- MODULE Client -------------------------------
(***************************************************************************)
(* Class Client and its console (client.cpp, clientconsole.cpp): one       *)
(* thread reads commands and makes one blocking call at a time.  `value'   *)
(* is what the client believes about each semaphore: down by one for every *)
(* Decrement answered with the UUID, up by one for every Increment; minus  *)
(* value is the number of units it believes it holds.                      *)
(***************************************************************************)
EXTENDS Network

CONSTANTS MaxHeld,    \* bound: units of one semaphore a client asks for
          MaxExtra,   \* bound: Increments it makes beyond its Decrements
          MaxLost,    \* bound: answers it misses about one semaphore, P and V each
          Commands    \* the commands its user types, "quit" among them or not

ASSUME ClientAssumption ==
  /\ MaxHeld \in Nat /\ MaxExtra \in Nat /\ MaxLost \in Nat
  /\ Commands \subseteq Methods \cup {"quit"}

VARIABLES value,     \* SemaphoreInfo::value
          polling,   \* the semaphores whose status is "Polling Decrement"
          exiting    \* how far SafeExit is

\* History variables: how many P and V calls of each client address went to the
\* server and will never be known to be answered, for the client threw or died.
\* No action depends on them, but for their bound.
VARIABLES lostP, lostV

clientVars == <<value, polling, exiting, lostP, lostV>>

NotExiting == [on |-> FALSE, todo |-> {}, at |-> NoUUID, left |-> 0]

ClientTypeOK ==
  /\ value \in [Owners -> [UUIDs -> Int]]
  /\ polling \in [Owners -> SUBSET UUIDs]
  /\ exiting \in [Owners -> [on : BOOLEAN, todo : SUBSET UUIDs,
                             at : UUIDs \cup {NoUUID}, left : Nat]]
  /\ lostP \in [Owners -> [UUIDs -> Nat]]
  /\ lostV \in [Owners -> [UUIDs -> Nat]]

Fresh == [u \in UUIDs |-> 0]

ClientInit == /\ value = [o \in Owners |-> Fresh]
              /\ polling = [o \in Owners |-> {}]
              /\ exiting = [o \in Owners |-> NotExiting]
              /\ lostP = [o \in Owners |-> Fresh]
              /\ lostV = [o \in Owners |-> Fresh]

\* Units of u that client o believes it holds.
Believed(o, u) == IF up[o] /\ value[o][u] < 0 THEN -value[o][u] ELSE 0

AwaitedCall(o) == call[<<o, conn[o]>>]

\* Client o awaits the answer to a call of method m about u.
Awaits(o, m, u) == /\ conn[o] # 0
                   /\ AwaitedCall(o).method = m
                   /\ AwaitedCall(o).uuid = u

\* The answer o awaits will never be read.
Lose(o) ==
  LET add(f, m) == [f EXCEPT ![o] = [u \in UUIDs |->
                      IF Awaits(o, m, u) THEN f[o][u] + 1 ELSE f[o][u]]]
  IN /\ lostP' = add(lostP, "Decrement") /\ lostV' = add(lostV, "Increment")
     /\ \A u \in UUIDs : lostP'[o][u] <= MaxLost /\ lostV'[o][u] <= MaxLost

FreeSlots(o) == {i \in Slots : call[<<o, i>>].pc = "free"}

\* Sends a request and awaits its answer in the least free slot.
Send(o, m, u) ==
  /\ conn[o] = 0
  /\ \E i \in FreeSlots(o) :
       /\ \A j \in FreeSlots(o) : i <= j
       /\ call' = [call EXCEPT ![<<o, i>>] = [pc |-> "sent", method |-> m, uuid |-> u]]
       /\ conn' = [conn EXCEPT ![o] = i]
  /\ polling' = [polling EXCEPT ![o] = CASE m = "Decrement" -> @ \cup {u}
                                         [] m = "Increment" -> @ \ {u}
                                         [] OTHER -> @]
  /\ UNCHANGED <<up, value, lostP, lostV>>

-----------------------------------------------------------------------------
(* The console. *)

AtPrompt(o) == up[o] /\ conn[o] = 0 /\ ~exiting[o].on

\* The user types a command about semaphore u.
Command(o, m, u) ==
  /\ AtPrompt(o)
  /\ m \in Commands
  /\ m \in {"Create", "Dump"} <=> u = NoUUID
  /\ m = "Decrement" => value[o][u] > -MaxHeld
  /\ m = "Increment" => value[o][u] < MaxExtra
  /\ Send(o, m, u)
  /\ UNCHANGED exiting

\* Mutant: a Decrement counts even when the server refused it.
CountedRefused(v, m, r) ==
  CASE m = "Decrement"             -> v - 1
    [] m = "Increment" /\ r = "ok" -> v + 1
    [] OTHER                       -> v

\* Mutant: an Increment counts even when the server refused it.
CountedGiven(v, m, r) ==
  CASE m = "Decrement" /\ r = "ok" -> v - 1
    [] m = "Increment"             -> v + 1
    [] OTHER                       -> v

\* What an answer does to value.
Counted(v, m, r) ==
  CASE m = "Decrement" /\ r = "ok" -> v - 1
    [] m = "Increment" /\ r = "ok" -> v + 1
    [] OTHER                       -> v

\* Mutant: only an answer that counts resets the status.
GetAnswerSticks(o) ==
  /\ up[o] /\ conn[o] # 0
  /\ AwaitedCall(o).pc \in Answers
  /\ LET m == AwaitedCall(o).method
         u == AwaitedCall(o).uuid
     IN IF m \in {"Decrement", "Increment"} /\ AwaitedCall(o).pc = "ok"
        THEN /\ value' = [value EXCEPT ![o][u] = Counted(@, m, "ok")]
             /\ polling' = [polling EXCEPT ![o] = @ \ {u}]
        ELSE UNCHANGED <<value, polling>>
  /\ Abandon(o)
  /\ UNCHANGED <<up, exiting, lostP, lostV>>

\* The answer arrives, and the console goes on.
GetAnswer(o) ==
  /\ up[o] /\ conn[o] # 0
  /\ AwaitedCall(o).pc \in Answers
  /\ LET m == AwaitedCall(o).method
         u == AwaitedCall(o).uuid
     IN IF m \in {"Decrement", "Increment"}
        THEN /\ value' = [value EXCEPT ![o][u] = Counted(@, m, AwaitedCall(o).pc)]
             /\ polling' = [polling EXCEPT ![o] = @ \ {u}]
        ELSE UNCHANGED <<value, polling>>
  /\ Abandon(o)
  /\ UNCHANGED <<up, exiting, lostP, lostV>>

\* The call throws, and ClientConsole::run catches: what the client knows stays
\* as it was, its status included, a SafeExit in progress is over with the client
\* still running, and the request goes on in the server if that is alive.
CallThrows(o) ==
  /\ up[o] /\ conn[o] # 0
  /\ \/ AwaitedCall(o).pc = "free"     \* the server died
     \/ "broken" \in Faults[o]
     \/ "timeout" \in Faults[o] /\ AwaitedCall(o).method # "Decrement"
  /\ Lose(o)
  /\ Abandon(o)
  /\ exiting' = [exiting EXCEPT ![o] = NotExiting]
  /\ UNCHANGED <<up, value, polling>>

-----------------------------------------------------------------------------
(* SafeExit. *)

Quit(o) ==
  /\ AtPrompt(o)
  /\ "quit" \in Commands
  /\ exiting' = [exiting EXCEPT ![o] = [NotExiting EXCEPT !.on = TRUE, !.todo = UUIDs]]
  /\ UNCHANGED <<netVars, value, polling, lostP, lostV>>

\* Mutant: as many increments as value is away from zero, on either side.
DebtSigned(v) == -v

\* Mutant: i < -1 for i < 0.
DebtOffByOne(v) == IF v < -1 THEN -v - 1 ELSE 0

\* for ( i = value; i < 0; ++i )
Debt(v) == IF v < 0 THEN -v ELSE 0

\* The next semaphore of the map; value is read once, before its increments.
ExitNext(o, u) ==
  /\ exiting[o].on /\ conn[o] = 0
  /\ exiting[o].left = 0 /\ u \in exiting[o].todo
  /\ exiting' = [exiting EXCEPT ![o] = [exiting[o] EXCEPT !.todo = @ \ {u}, !.at = u,
                                                          !.left = Debt(value[o][u])]]
  /\ UNCHANGED <<netVars, value, polling, lostP, lostV>>

ExitSend(o) ==
  /\ exiting[o].on /\ exiting[o].left > 0
  /\ Send(o, "Increment", exiting[o].at)
  /\ exiting' = [exiting EXCEPT ![o].left = @ - 1]

\* SafeExit returns and the console raises SIGINT, which ends the process.
ExitDone(o) ==
  /\ exiting[o].on /\ conn[o] = 0
  /\ exiting[o].left = 0 /\ exiting[o].todo = {}
  /\ up' = [up EXCEPT ![o] = FALSE]
  /\ value' = [value EXCEPT ![o] = Fresh]
  /\ polling' = [polling EXCEPT ![o] = {}]
  /\ exiting' = [exiting EXCEPT ![o] = NotExiting]
  /\ UNCHANGED <<conn, call, lostP, lostV>>

-----------------------------------------------------------------------------
(* Failures. *)

Crash(o) ==
  /\ \/ "crash" \in Faults[o]
     \/ "idle crash" \in Faults[o] /\ conn[o] = 0
  /\ up[o]
  /\ up' = [up EXCEPT ![o] = FALSE]
  /\ Lose(o)
  /\ Abandon(o)
  /\ value' = [value EXCEPT ![o] = Fresh]
  /\ polling' = [polling EXCEPT ![o] = {}]
  /\ exiting' = [exiting EXCEPT ![o] = NotExiting]

\* A new process at the address of one that is gone, which knows nothing.
Restart(o) ==
  /\ "restart" \in Faults[o]
  /\ ~up[o]
  /\ up' = [up EXCEPT ![o] = TRUE]
  /\ UNCHANGED <<conn, call, clientVars>>

ClientStep(o) ==
  \/ \E m \in Methods, u \in UUIDs \cup {NoUUID} : Command(o, m, u)
  \/ GetAnswer(o) \/ CallThrows(o)
  \/ Quit(o) \/ (\E u \in UUIDs : ExitNext(o, u)) \/ ExitSend(o) \/ ExitDone(o)
  \/ Crash(o) \/ Restart(o)

ClientNext == \E o \in Owners : ClientStep(o)

\* A client reads its answers and sees its SafeExit through.
ClientFairness ==
  \A o \in Owners :
    /\ WF_<<clientVars, netVars>>(GetAnswer(o))
    /\ WF_<<clientVars, netVars>>(\/ \E u \in UUIDs : ExitNext(o, u)
                                  \/ ExitSend(o) \/ ExitDone(o))
=============================================================================
