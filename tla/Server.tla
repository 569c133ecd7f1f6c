------------------------------- MODULE Server -------------------------------
(***************************************************************************)
(* Class Server (server.cpp, server.hpp): the handlers of the Locks.*      *)
(* methods, run by the threads of the HTTP server's pool, and the main     *)
(* thread with its heartbeat scan.                                         *)
(*                                                                         *)
(* Every handler but the wait in decrement() runs under semsmutex, which   *)
(* is kept during the call back to the client (CheckClient).  A semaphore  *)
(* is taken here in the whole steps module Semaphore justifies: decrement()*)
(* holds mutex_ from its push_back to its wait or its --cur, so nothing    *)
(* that needs mutex_ falls in between; a waiting call may find the loop    *)
(* condition false whenever it is false.                                   *)
(***************************************************************************)
EXTENDS Network

CONSTANTS NumThreads,  \* threads of the pool
          Params,      \* bound: the [cur, min, max] a Create may carry
          HBWrap,      \* ohbcount counts modulo this: 256, an unsigned char
          Main,        \* the main thread, as an owner of semsmutex
          Nobody,      \* semsmutex is not locked
          NoOwner

ASSUME ServerAssumption ==
  /\ NumThreads \in Nat \ {0}
  /\ Params \subseteq [cur : Int, min : Int, max : Int]
  /\ HBWrap \in Nat /\ HBWrap > 3
  /\ Main \notin Calls /\ Nobody \notin Calls \cup {Main}
  /\ NoOwner \notin Owners

VARIABLES sems,       \* what each UUID stands for
          semsmutex,  \* who has it: a call, Main, or Nobody
          hb,         \* the heartbeat scan of the main thread
          ohbcount,   \* failed heartbeats of each owner; 0 when not in the map
          aborted,    \* the process died of undefined behaviour
          missed      \* history: heartbeats each owner failed, those beyond 3 not counted

serverVars == <<sems, semsmutex, hb, ohbcount, aborted, missed>>

\* A Semaphore; initial is a history variable, CurrentVal at its creation.
SemaphoreType == [state : {"live"}, cur : Int, min : Int, max : Int,
                  owners : [Owners -> Nat], initial : Int]
NotCreated == [state |-> "not created"]
Deleted    == [state |-> "deleted"]

Live == {u \in UUIDs : sems[u].state = "live"}

ListedAt(u) == {o \in Owners : sems[u].owners[o] > 0}

SleepHB == [pc |-> "sleep", todo |-> {}, o |-> NoOwner,
            left |-> {}, at |-> NoUUID, k |-> 0]

ServerTypeOK ==
  /\ sems \in [UUIDs -> SemaphoreType \cup {NotCreated, Deleted}]
  /\ semsmutex \in Calls \cup {Main, Nobody}
  /\ hb \in [pc : {"sleep", "scan", "disconnect", "increments"},
             todo : SUBSET Owners, o : Owners \cup {NoOwner},
             left : SUBSET UUIDs, at : UUIDs \cup {NoUUID}, k : Nat]
  /\ ohbcount \in [Owners -> 0..(HBWrap - 1)]
  /\ aborted \in BOOLEAN
  /\ missed \in [Owners -> 0..3]

ServerInit == /\ sems = [u \in UUIDs |-> NotCreated]
              /\ semsmutex = Nobody
              /\ hb = SleepHB
              /\ ohbcount = [o \in Owners |-> 0]
              /\ aborted = FALSE
              /\ missed = [o \in Owners |-> 0]

\* What CheckClient(o) may say: a dead client never answers; a live one does,
\* unless its answer takes longer than the timeout of 3 s.
CheckClient(o) == IF ~up[o] THEN {FALSE}
                  ELSE IF "loss" \in Faults[o] THEN BOOLEAN ELSE {TRUE}

-----------------------------------------------------------------------------
(* class Semaphore, in the steps the handlers see. *)

\* Mutant: the early return for an owner that is not listed is left out.
IncrementedUnlisted(s, o) ==
  [s EXCEPT !.owners[o] = IF @ = 0 THEN 0 ELSE @ - 1,
            !.cur = IF @ < s.max THEN @ + 1 ELSE s.max]

\* increment(o): nothing for an owner that is not listed.
Incremented(s, o) ==
  IF s.owners[o] = 0 THEN s
  ELSE [s EXCEPT !.owners[o] = @ - 1,
                 !.cur = IF @ < s.max THEN @ + 1 ELSE s.max]

\* Mutant: the owner is put on the list only when its unit is free at once.
ListedIfFree(s, o) ==
  IF s.cur <= s.min THEN s ELSE [s EXCEPT !.owners[o] = @ + 1]

\* decrement(o), its beginning: the owner is listed whether it waits or not.
Listed(s, o) == [s EXCEPT !.owners[o] = @ + 1]

\* Mutant: cur < min for cur <= min.
MustWaitStrict(s) == s.cur < s.min

MustWait(s) == s.cur <= s.min

\* Mutant: a call leaves the loop and does not take its unit.
GrantedFree(s) == s

Granted(s) == [s EXCEPT !.cur = @ - 1]

-----------------------------------------------------------------------------
(* The handlers. *)

\* A thread of the pool takes a request, if one is free.
Accept(c) ==
  /\ call[c].pc = "sent"
  /\ Cardinality(BusyCalls) < NumThreads
  /\ At(c, "lock")
  /\ UNCHANGED <<serverVars, up, conn>>

\* Bound: no UUID is left for another semaphore.
UUIDsUsedUp == \A u \in UUIDs : sems[u] # NotCreated

\* CreateSemaphore refuses CurrentVal = MinVal and MinVal > MaxVal, and takes a
\* UUID no semaphore has or had.
Create(c) ==
  /\ call[c].pc = "lock" /\ call[c].method = "Create"
  /\ semsmutex = Nobody
  /\ \E p \in Params :
       IF p.cur = p.min \/ p.min > p.max \/ UUIDsUsedUp
       THEN Answer(c, "error") /\ UNCHANGED sems
       ELSE \E u \in UUIDs :
              /\ sems[u] = NotCreated
              /\ sems' = [sems EXCEPT ![u] =
                            [state |-> "live", cur |-> p.cur, min |-> p.min,
                             max |-> p.max, owners |-> [o \in Owners |-> 0],
                             initial |-> p.cur]]
              /\ call' = AnswerIn(call, c, "ok", u)
  /\ UNCHANGED <<semsmutex, hb, ohbcount, aborted, missed, up, conn>>

\* DeleteSemaphore destroys the object under the calls inside its decrement().
Delete(c) ==
  LET u == call[c].uuid
      orphaned == [d \in Calls |->
                     IF call[d].uuid = u /\ call[d].pc \in {"enter", "waiting"}
                     THEN [call[d] EXCEPT !.pc = "dangling"] ELSE call[d]]
  IN /\ call[c].pc = "lock" /\ call[c].method = "Delete"
     /\ semsmutex = Nobody
     /\ IF u \notin Live
        THEN Answer(c, "error") /\ UNCHANGED sems
        ELSE /\ sems' = [sems EXCEPT ![u] = Deleted]
             /\ call' = AnswerIn(orphaned, c, "ok", u)
     /\ UNCHANGED <<semsmutex, hb, ohbcount, aborted, missed, up, conn>>

\* Dump copies every semaphore under semsmutex and changes none.
Dump(c) ==
  /\ call[c].pc = "lock" /\ call[c].method = "Dump"
  /\ semsmutex = Nobody
  /\ Answer(c, "ok")
  /\ UNCHANGED <<serverVars, up, conn>>

\* Mutant: the lookup does not wait for semsmutex.
LookUpUnlocked(c) ==
  /\ call[c].pc = "lock" /\ call[c].method \in {"Decrement", "Increment"}
  /\ IF call[c].uuid \notin Live
     THEN Answer(c, "error")
     ELSE At(c, "check")
  /\ UNCHANGED <<serverVars, up, conn>>

\* Decrement and Increment lock semsmutex and look the semaphore up ...
LookUp(c) ==
  /\ call[c].pc = "lock" /\ call[c].method \in {"Decrement", "Increment"}
  /\ semsmutex = Nobody
  /\ IF call[c].uuid \notin Live
     THEN Answer(c, "error") /\ UNCHANGED semsmutex
     ELSE At(c, "check") /\ semsmutex' = c
  /\ UNCHANGED <<sems, hb, ohbcount, aborted, missed, up, conn>>

\* ... keep it while they call the client back; one that does not answer gets
\* an error ...
CheckFails(c) ==
  /\ call[c].pc = "check"
  /\ FALSE \in CheckClient(c[1])
  /\ Answer(c, "error")
  /\ semsmutex' = Nobody
  /\ UNCHANGED <<sems, hb, ohbcount, aborted, missed, up, conn>>

\* Mutant: semsmutex is kept during the long polling.
CheckDecrementKeeps(c) ==
  /\ call[c].pc = "check" /\ call[c].method = "Decrement"
  /\ TRUE \in CheckClient(c[1])
  /\ At(c, "enter")
  /\ UNCHANGED <<serverVars, up, conn>>

\* ... after which Decrement unlocks it, the "long polling" being still ahead ...
CheckDecrement(c) ==
  /\ call[c].pc = "check" /\ call[c].method = "Decrement"
  /\ TRUE \in CheckClient(c[1])
  /\ At(c, "enter")
  /\ semsmutex' = Nobody
  /\ UNCHANGED <<sems, hb, ohbcount, aborted, missed, up, conn>>

\* ... and Increment increments under it, and reports success even to an owner
\* that was not listed.
CheckIncrement(c) ==
  /\ call[c].pc = "check" /\ call[c].method = "Increment"
  /\ TRUE \in CheckClient(c[1])
  /\ sems' = [sems EXCEPT ![call[c].uuid] = Incremented(@, c[1])]
  /\ Answer(c, "ok")
  /\ semsmutex' = Nobody
  /\ UNCHANGED <<hb, ohbcount, aborted, missed, up, conn>>

\* decrement(): lists the owner, then waits or takes a unit.
Enter(c) ==
  LET u == call[c].uuid
      s == Listed(sems[u], c[1])
  IN /\ call[c].pc = "enter"
     /\ IF MustWait(s)
        THEN sems' = [sems EXCEPT ![u] = s] /\ At(c, "waiting")
        ELSE sems' = [sems EXCEPT ![u] = Granted(s)] /\ Answer(c, "ok")
     /\ UNCHANGED <<semsmutex, hb, ohbcount, aborted, missed, up, conn>>

\* decrement(): a waiting call, whichever it is, leaves the loop.
Wake(c) ==
  LET u == call[c].uuid
  IN /\ call[c].pc = "waiting"
     /\ ~MustWait(sems[u])
     /\ sems' = [sems EXCEPT ![u] = Granted(@)]
     /\ Answer(c, "ok")
     /\ UNCHANGED <<semsmutex, hb, ohbcount, aborted, missed, up, conn>>

\* Undefined behaviour of a call whose Semaphore is gone: it hangs, it returns
\* as if granted, or the process dies with everything it knows.
DanglingReturn(c) ==
  /\ call[c].pc = "dangling"
  /\ Answer(c, "ok")
  /\ UNCHANGED <<serverVars, up, conn>>

DanglingAbort(c) ==
  /\ call[c].pc = "dangling"
  /\ aborted' = TRUE
  /\ sems' = [u \in UUIDs |-> Deleted]
  /\ semsmutex' = Nobody
  /\ hb' = SleepHB
  /\ ohbcount' = [o \in Owners |-> 0]
  /\ missed' = [o \in Owners |-> 0]
  /\ call' = [d \in Calls |-> IF call[d].pc \in Answers THEN call[d] ELSE FreeCall]
  /\ UNCHANGED <<up, conn>>

HandlerStep(c) ==
  \/ Accept(c) \/ Create(c) \/ Delete(c) \/ Dump(c) \/ LookUp(c)
  \/ CheckFails(c) \/ CheckDecrement(c) \/ CheckIncrement(c)
  \/ Enter(c) \/ Wake(c) \/ DanglingReturn(c) \/ DanglingAbort(c)

-----------------------------------------------------------------------------
(* The heartbeat of the main thread: Server::run every fifth second. *)

\* getAllOwners(): a copy under semsmutex, out of date as soon as it is made.
ScanStart ==
  LET listed == UNION {ListedAt(u) : u \in Live}
  IN /\ hb.pc = "sleep"
     /\ semsmutex = Nobody
     /\ hb' = IF listed = {} THEN hb ELSE [hb EXCEPT !.pc = "scan", !.todo = listed]
     /\ UNCHANGED <<sems, semsmutex, ohbcount, aborted, missed, netVars>>

\* The scan goes on after owner o, or is over.
Scanned(h, o) == IF h.todo \ {o} = {} THEN SleepHB
                 ELSE [SleepHB EXCEPT !.pc = "scan", !.todo = h.todo \ {o}]

\* Mutant: a count that cannot get past 2.
OneMoreNarrow(n) == (n + 1) % 3

\* ++ohbcount[o], an unsigned char.
OneMore(n) == (n + 1) % HBWrap

TooMany(n) == n >= 3

ScanAlive(o) ==
  /\ hb.pc = "scan" /\ o \in hb.todo
  /\ TRUE \in CheckClient(o)
  /\ hb' = Scanned(hb, o)
  /\ UNCHANGED <<sems, semsmutex, ohbcount, aborted, missed, netVars>>

\* The count is not reset by a success, nor after a disconnect.
ScanDead(o) ==
  /\ hb.pc = "scan" /\ o \in hb.todo
  /\ FALSE \in CheckClient(o)
  /\ ohbcount' = [ohbcount EXCEPT ![o] = OneMore(@)]
  /\ hb' = IF TooMany(OneMore(ohbcount[o]))
           THEN [hb EXCEPT !.pc = "disconnect", !.o = o] ELSE Scanned(hb, o)
  /\ missed' = [missed EXCEPT ![o] = IF @ < 3 THEN @ + 1 ELSE 3]
  /\ UNCHANGED <<sems, semsmutex, aborted, netVars>>

\* DisconnectClient(o) locks semsmutex, ...
DisconnectLock ==
  /\ hb.pc = "disconnect"
  /\ semsmutex = Nobody
  /\ semsmutex' = Main
  /\ hb' = [hb EXCEPT !.pc = "increments", !.left = Live]
  /\ UNCHANGED <<sems, ohbcount, aborted, missed, netVars>>

\* Mutant: semsmutex is let go of once the owners are copied.
DisconnectCopyUnlocks(u) ==
  /\ hb.pc = "increments" /\ hb.k = 0 /\ u \in hb.left
  /\ hb' = [hb EXCEPT !.left = @ \ {u}, !.at = u, !.k = sems[u].owners[hb.o]]
  /\ semsmutex' = Nobody
  /\ UNCHANGED <<sems, ohbcount, aborted, missed, netVars>>

\* ... copies the owners of one semaphore after the other, ...
DisconnectCopy(u) ==
  /\ hb.pc = "increments" /\ hb.k = 0 /\ u \in hb.left
  /\ hb' = [hb EXCEPT !.left = @ \ {u}, !.at = u, !.k = sems[u].owners[hb.o]]
  /\ UNCHANGED <<sems, semsmutex, ohbcount, aborted, missed, netVars>>

\* ... calls increment(o) once per entry in the copy, ...
DisconnectIncrement ==
  /\ hb.pc = "increments" /\ hb.k > 0
  /\ sems' = [sems EXCEPT ![hb.at] = Incremented(@, hb.o)]
  /\ hb' = [hb EXCEPT !.k = @ - 1]
  /\ UNCHANGED <<semsmutex, ohbcount, aborted, missed, netVars>>

\* ... and unlocks semsmutex.
DisconnectDone ==
  /\ hb.pc = "increments" /\ hb.k = 0 /\ hb.left = {}
  /\ semsmutex' = Nobody
  /\ hb' = Scanned(hb, hb.o)
  /\ UNCHANGED <<sems, ohbcount, aborted, missed, netVars>>

HeartbeatStep ==
  \/ ScanStart
  \/ \E o \in Owners : ScanAlive(o) \/ ScanDead(o)
  \/ DisconnectLock
  \/ \E u \in UUIDs : DisconnectCopy(u)
  \/ DisconnectIncrement \/ DisconnectDone

\* A dead server refuses connections, and the call throws in the client.
Refuse(c) ==
  /\ call[c].pc = "sent"
  /\ call' = [call EXCEPT ![c] = FreeCall]
  /\ UNCHANGED <<serverVars, up, conn>>

ServerNext == IF aborted THEN \E c \in Calls : Refuse(c)
              ELSE HeartbeatStep \/ \E c \in Calls : HandlerStep(c)

-----------------------------------------------------------------------------
(* Fairness.  The queue of the HTTP server is served in order and a thread   *)
(* blocked on semsmutex gets it in the end; one of the calls a semaphore has *)
(* units for is granted (module Semaphore shows it), not each of them.       *)

HandlerFairness ==
  /\ \A c \in Calls : /\ SF_<<serverVars, netVars>>(Accept(c))
                      /\ SF_<<serverVars, netVars>>(Create(c) \/ Delete(c) \/ Dump(c) \/ LookUp(c))
                      /\ WF_<<serverVars, netVars>>(CheckFails(c) \/ CheckDecrement(c)
                                                   \/ CheckIncrement(c) \/ Enter(c))
  /\ \A u \in UUIDs :
       WF_<<serverVars, netVars>>(\E c \in Calls : call[c].uuid = u /\ Wake(c))

HeartbeatFairness ==
  /\ SF_<<serverVars, netVars>>(ScanStart)
  /\ SF_<<serverVars, netVars>>(DisconnectLock)
  /\ WF_<<serverVars, netVars>>(
       \/ \E o \in Owners : ScanAlive(o) \/ ScanDead(o)
       \/ \E u \in UUIDs : DisconnectCopy(u)
       \/ DisconnectIncrement \/ DisconnectDone)
=============================================================================
