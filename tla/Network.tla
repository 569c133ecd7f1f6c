------------------------------ MODULE Network ------------------------------
(***************************************************************************)
(* The HTTP calls between the client processes and the server: what        *)
(* Client::sendToServer (client.cpp) opens, what a thread of the server's  *)
(* pool works on and answers, and what happens to a call whose client went *)
(* away.  The cpp-netlib server that carries them is external: it queues   *)
(* requests without limit, and a handler keeps its thread to the end.      *)
(*                                                                         *)
(* A call is named by its client and a slot.  A client awaits at most one, *)
(* having one console thread, but calls it gave up, or that an earlier     *)
(* process at the same address made, go on in the server.                  *)
(***************************************************************************)
EXTENDS Integers, FiniteSets

CONSTANTS Owners,      \* client addresses ip:port
          UUIDs,       \* what getUuidStr() may return
          NoUUID,
          SlotsPerOwner,  \* bound: calls of one client at the server at once
          Faults       \* of each client, what may go wrong in an instance

FaultKinds == {"crash",    \* a client process dies
               "idle crash",  \* it dies, but not while a call is on its way
               "restart",  \* it comes back at the same address
               "timeout",  \* a call with a timeout is given up
               "broken",   \* the connection of a call breaks, whichever it is
               "loss"}     \* a heartbeat of a live client goes unanswered

ASSUME NetworkAssumption ==
  /\ IsFiniteSet(Owners) /\ IsFiniteSet(UUIDs)
  /\ NoUUID \notin UUIDs
  /\ SlotsPerOwner \in Nat \ {0}
  /\ Faults \in [Owners -> SUBSET FaultKinds]

Slots  == 1..SlotsPerOwner
Calls  == Owners \X Slots

\* The methods of the protocol that concern semaphores.
Methods == {"Create", "Delete", "Decrement", "Increment", "Dump"}

VARIABLES up,    \* which client processes run
          conn,  \* the slot of the call a client awaits, 0 when there is none
          call   \* what has become of each call

netVars == <<up, conn, call>>

InServer == {"lock",      \* in a handler, before semsmutex
             "check",     \* has semsmutex, inside CheckClient
             "enter",     \* semsmutex released, before decrement()
             "waiting",   \* inside decrement(), on the condition variable
             "dangling"}  \* inside decrement() of a Semaphore destroyed meanwhile

CallStates == InServer \cup {"free",    \* no such call
                             "sent",    \* no thread has taken it yet
                             "ok",      \* answered with the UUID
                             "error"}   \* answered with an error

Answers == {"ok", "error"}

FreeCall == [pc |-> "free", method |-> "none", uuid |-> NoUUID]

\* Threads of the pool that have a handler to finish.
BusyCalls == {c \in Calls : call[c].pc \in InServer}

\* Calls inside decrement() of u, past CheckClient and not yet granted.
WaitingOn(u) == {c \in Calls : call[c].pc = "waiting" /\ call[c].uuid = u}

Awaited(c) == conn[c[1]] = c[2]

NetTypeOK ==
  /\ up \in [Owners -> BOOLEAN]
  /\ conn \in [Owners -> {0} \cup Slots]
  /\ call \in [Calls -> [pc : CallStates,
                         method : Methods \cup {"none"},
                         uuid : UUIDs \cup {NoUUID}]]

NetInit == /\ up = [o \in Owners |-> TRUE]
           /\ conn = [o \in Owners |-> 0]
           /\ call = [c \in Calls |-> FreeCall]

\* The handler of c returns: the answer reaches a client that still awaits it,
\* and is thrown away otherwise.  f is call with its other changes.
AnswerIn(f, c, r, u) ==
  [f EXCEPT ![c] = IF Awaited(c) THEN [f[c] EXCEPT !.pc = r, !.uuid = u]
                                 ELSE FreeCall]

Answer(c, r) == call' = AnswerIn(call, c, r, call[c].uuid)

At(c, state) == call' = [call EXCEPT ![c].pc = state]

\* Client o stops waiting for its call, which goes on in the server; an answer
\* already on its way is lost.
Abandon(o) ==
  /\ conn' = [conn EXCEPT ![o] = 0]
  /\ call' = [c \in Calls |->
                IF c[1] = o /\ Awaited(c) /\ call[c].pc \in Answers
                THEN FreeCall ELSE call[c]]
=============================================================================
