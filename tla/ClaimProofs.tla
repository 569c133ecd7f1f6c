---------------------------- MODULE ClaimProofs ----------------------------
(***************************************************************************)
(* What the clients may believe, for every number of clients, calls,       *)
(* threads and semaphores, and whatever fails: how far what a client       *)
(* counts on and what is in its name in the server may be apart, for the   *)
(* calls whose answers it never got and the heartbeats it missed.          *)
(***************************************************************************)
EXTENDS UnitProofs

-----------------------------------------------------------------------------
(* The handlers, as the clients see them. *)

CallOnly(c) == \A d \in Calls \ {c} : call'[d] = call[d]

SameRequest(c) == /\ call'[c].method = call[c].method
                  /\ call[c].method # "Create" => call'[c].uuid = call[c].uuid

Ended(c, r) == \/ Awaited(c) /\ call'[c].pc = r /\ SameRequest(c)
               \/ ~Awaited(c) /\ call'[c] = FreeCall

\* A step that changes no semaphore; a call about one that lives gets an error
\* only when its client does not answer CheckClient.
Moves(c) ==
  /\ UNCHANGED sems /\ CallOnly(c)
  /\ call[c].pc \in {"sent", "lock", "check", "dangling"}
  /\ \/ ~Awaited(c) /\ call'[c] = FreeCall
     \/ SameRequest(c) /\ call[c].pc = "sent" /\ call'[c].pc = "lock"
     \/ SameRequest(c) /\ call[c].pc = "lock" /\ call'[c].pc = "check"
     \/ /\ SameRequest(c) /\ call[c].method = "Decrement"
        /\ call[c].pc = "check" /\ call'[c].pc = "enter"
     \/ /\ Awaited(c) /\ SameRequest(c) /\ call'[c].pc \in Answers
        /\ \/ call[c].method \notin {"Decrement", "Increment"} \/ call[c].uuid \notin Live
           \/ call'[c].pc = "error" /\ FALSE \in CheckClient(c[1])

Creates(c) ==
  /\ CallOnly(c) /\ call[c].pc = "lock" /\ call[c].method = "Create" /\ Ended(c, "ok")
  /\ \E u \in UUIDs : /\ sems[u] = NotCreated
                      /\ \A v \in UUIDs \ {u} : sems'[v] = sems[v]
                      /\ sems'[u].owners = [o \in Owners |-> 0]

Deletes(c) ==
  /\ call[c].pc = "lock" /\ call[c].method = "Delete" /\ Ended(c, "ok")
  /\ \E u \in UUIDs :
       /\ u \notin Live'
       /\ \A v \in UUIDs \ {u} : sems'[v] = sems[v]
       /\ \A d \in Calls \ {c} :
            \/ call'[d] = call[d]
            \/ /\ call[d].uuid = u /\ call[d].pc \in {"enter", "waiting"}
               /\ call'[d].pc = "dangling" /\ call'[d].uuid = u
               /\ call'[d].method = call[d].method

Increments(c) ==
  /\ CallOnly(c) /\ call[c].pc = "check" /\ call[c].method = "Increment" /\ Ended(c, "ok")
  /\ \E u \in UUIDs : /\ u = call[c].uuid /\ u \in Live
                      /\ \A v \in UUIDs \ {u} : sems'[v] = sems[v]
                      /\ sems'[u] = Incremented(sems[u], c[1])

Enters(c) ==
  /\ CallOnly(c) /\ call[c].pc = "enter" /\ call[c].method = "Decrement"
  /\ (SameRequest(c) /\ call'[c].pc = "waiting") \/ Ended(c, "ok")
  /\ \E u \in UUIDs : /\ u = call[c].uuid /\ u \in Live
                      /\ \A v \in UUIDs \ {u} : sems'[v] = sems[v]
                      /\ sems'[u].owners = [sems[u].owners EXCEPT ![c[1]] = @ + 1]

Wakes(c) ==
  /\ CallOnly(c) /\ call[c].pc = "waiting" /\ call[c].method = "Decrement" /\ Ended(c, "ok")
  /\ \E u \in UUIDs : /\ u = call[c].uuid /\ u \in Live
                      /\ \A v \in UUIDs \ {u} : sems'[v] = sems[v]
                      /\ sems'[u].owners = sems[u].owners

Aborts == aborted' /\ Live' = {}

HandlerEffect(c) ==
  \/ Moves(c) \/ Creates(c) \/ Deletes(c) \/ Increments(c) \/ Enters(c) \/ Wakes(c)
  \/ Aborts

LEMMA HandlerEffects ==
  ASSUME ServerInv, NEW c \in Calls, HandlerStep(c)
  PROVE  HandlerEffect(c) /\ UNCHANGED <<up, conn>>
<1>1. /\ call \in [Calls -> CallType]
      /\ sems \in [UUIDs -> SemaphoreType \cup {NotCreated, Deleted}]
      /\ call[c].uuid \in UUIDs \cup {NoUUID} /\ c[1] \in Owners
  BY NetType, CallPair DEF ServerInv, TypeOK, ServerTypeOK, CallType
<1>2. /\ {"lock", "check", "enter", "waiting"} \subseteq CallStates
      /\ {"ok", "error"} = Answers
  BY DEF CallStates, InServer, Answers
<1>3. CallSound(c)
  BY DEF ServerInv, CallInv
<1>4. UNCHANGED <<up, conn>>
  BY DEF HandlerStep, Accept, Create, Delete, Dump, LookUp, CheckFails, CheckDecrement,
         CheckIncrement, Enter, Wake, DanglingReturn, DanglingAbort, serverVars
<1> HIDE DEF CallStates, Answers
<1>5. ASSUME NEW r \in Answers, Answer(c, r) PROVE Ended(c, r) /\ CallOnly(c)
  BY <1>1, <1>5, AnswerCall DEF Ended, SameRequest, CallOnly
<1>6. ASSUME NEW s \in CallStates, At(c, s)
      PROVE  call'[c].pc = s /\ SameRequest(c) /\ CallOnly(c)
  BY <1>1, <1>6, AtCall DEF SameRequest, CallOnly
\* An answer of a step that changes no semaphore.
<1>7. ASSUME NEW r \in Answers, Answer(c, r), UNCHANGED sems,
             call[c].pc \in {"sent", "lock", "check", "dangling"},
             \/ call[c].method \notin {"Decrement", "Increment"} \/ call[c].uuid \notin Live
             \/ r = "error" /\ FALSE \in CheckClient(c[1])
      PROVE  Moves(c)
  BY <1>5, <1>7 DEF Ended, Moves
<1>8. CASE Accept(c)
  BY <1>2, <1>6, <1>8 DEF Accept, serverVars, HandlerEffect, Moves
<1>9. CASE Create(c)
  <2>1. CASE Answer(c, "error") /\ UNCHANGED sems
    BY <1>2, <1>7, <1>9, <2>1 DEF Create, HandlerEffect
  <2>2. ASSUME NEW p \in Params, NEW u \in UUIDs, sems[u] = NotCreated,
               sems' = [sems EXCEPT ![u] =
                          [state |-> "live", cur |-> p.cur, min |-> p.min,
                           max |-> p.max, owners |-> [o \in Owners |-> 0],
                           initial |-> p.cur]],
               call' = AnswerIn(call, c, "ok", u)
        PROVE  Creates(c)
    <3>1. u \in UUIDs \cup {NoUUID} /\ call[c].pc = "lock" /\ call[c].method = "Create"
      BY <1>9 DEF Create
    <3>2. CallOnly(c) /\ Ended(c, "ok")
      BY <1>1, <1>2, <2>2, <3>1, AnswerNext DEF CallOnly, Ended, SameRequest
    <3>3. /\ \A v \in UUIDs \ {u} : sems'[v] = sems[v]
          /\ sems'[u].owners = [o \in Owners |-> 0]
      BY <1>1, <2>2
    <3> QED BY <2>2, <3>1, <3>2, <3>3 DEF Creates
  <2> QED BY <1>4, <1>9, <2>1, <2>2 DEF Create, HandlerEffect
<1>10. CASE Delete(c)
  <2> PICK u : u = call[c].uuid
    OBVIOUS
  <2> DEFINE orphaned == [d \in Calls |->
                            IF call[d].uuid = u /\ call[d].pc \in {"enter", "waiting"}
                            THEN [call[d] EXCEPT !.pc = "dangling"] ELSE call[d]]
  <2>1. call[c].pc = "lock" /\ call[c].method = "Delete"
    BY <1>10 DEF Delete
  <2>2. CASE Answer(c, "error") /\ UNCHANGED sems
    BY <1>2, <1>4, <1>7, <2>1, <2>2 DEF HandlerEffect
  <2>3. CASE u \in Live /\ sems' = [sems EXCEPT ![u] = Deleted]
             /\ call' = AnswerIn(orphaned, c, "ok", u)
    <3>1. orphaned \in [Calls -> CallType] /\ u \in UUIDs
      BY <1>1, <2>3 DEF Live, CallType, CallStates, InServer
    <3>2. orphaned[c].method = call[c].method
      BY <2>1
    <3>3. \A d \in Calls :
            \/ orphaned[d] = call[d]
            \/ /\ call[d].uuid = u /\ call[d].pc \in {"enter", "waiting"}
               /\ orphaned[d].pc = "dangling" /\ orphaned[d].uuid = u
               /\ orphaned[d].method = call[d].method
      BY <1>1 DEF CallType
    <3>4. call' = AnswerIn(orphaned, c, "ok", u)
      BY <2>3
    <3> HIDE DEF orphaned
    <3>5. /\ \A d \in Calls \ {c} : call'[d] = orphaned[d]
          /\ \/ /\ Awaited(c) /\ call'[c].pc = "ok"
                /\ call'[c].method = orphaned[c].method /\ call'[c].uuid = u
             \/ ~Awaited(c) /\ call'[c] = FreeCall
      BY <1>1, <1>2, <3>1, <3>4, AnswerNext
    <3>6. Ended(c, "ok")
      BY <3>2, <3>5 DEF Ended, SameRequest
    <3>7. u \notin Live' /\ \A v \in UUIDs \ {u} : sems'[v] = sems[v]
      <4>1. sems'[u] = Deleted /\ Deleted.state = "deleted"
        BY <1>1, <2>3, <3>1 DEF Deleted
      <4> QED BY <1>1, <2>3, <4>1 DEF Live
    <3>8. Deletes(c)
      BY <2>1, <3>1, <3>3, <3>5, <3>6, <3>7 DEF Deletes
    <3> QED BY <1>4, <3>8 DEF HandlerEffect
  <2> QED BY <1>10, <2>2, <2>3 DEF Delete
<1>11. CASE Dump(c)
  BY <1>2, <1>7, <1>11 DEF Dump, serverVars, HandlerEffect
<1>12. CASE LookUp(c)
  <2>1. CASE Answer(c, "error") /\ call[c].uuid \notin Live
    BY <1>2, <1>7, <1>12, <2>1 DEF LookUp, HandlerEffect
  <2>2. CASE At(c, "check")
    BY <1>2, <1>6, <1>12, <2>2 DEF LookUp, HandlerEffect, Moves
  <2> QED BY <1>12, <2>1, <2>2 DEF LookUp
<1>13. CASE CheckFails(c)
  BY <1>2, <1>7, <1>13 DEF CheckFails, HandlerEffect
<1>14. CASE CheckDecrement(c)
  BY <1>2, <1>6, <1>14 DEF CheckDecrement, HandlerEffect, Moves
<1>15. ASSUME call[c].uuid \in Live
       PROVE  call[c].uuid \in UUIDs /\ sems[call[c].uuid] \in SemaphoreType
  BY <1>1, <1>15, SemCases DEF Live
<1>16. CASE CheckIncrement(c)
  <2>1. call[c].pc = "check" /\ call[c].method = "Increment" /\ call[c].uuid \in Live
    BY <1>3, <1>16 DEF CheckIncrement, CallSound
  <2>2. PICK u \in UUIDs : u = call[c].uuid /\ u \in Live
    BY <1>15, <2>1
  <2>3. sems' = [sems EXCEPT ![u] = Incremented(sems[u], c[1])]
    BY <1>16, <2>2 DEF CheckIncrement
  <2>4. sems'[u] = Incremented(sems[u], c[1]) /\ \A v \in UUIDs \ {u} : sems'[v] = sems[v]
    BY <1>1, <2>3
  <2>5. Ended(c, "ok") /\ CallOnly(c)
    BY <1>2, <1>5, <1>16 DEF CheckIncrement
  <2>6. Increments(c)
    BY <2>1, <2>2, <2>4, <2>5 DEF Increments
  <2> QED BY <1>4, <2>6 DEF HandlerEffect
<1>17. CASE Enter(c)
  <2>1. call[c].pc = "enter" /\ call[c].method = "Decrement" /\ call[c].uuid \in Live
    BY <1>3, <1>17 DEF Enter, CallSound
  <2>2. PICK u \in UUIDs : u = call[c].uuid /\ u \in Live
    BY <1>15, <2>1
  <2> DEFINE s == Listed(sems[u], c[1])
  <2>3. /\ s.owners = [sems[u].owners EXCEPT ![c[1]] = @ + 1]
        /\ Granted(s).owners = s.owners
    BY <1>1, <1>15, <2>2, SemSteps
  <2>4. \/ sems' = [sems EXCEPT ![u] = s] /\ At(c, "waiting")
        \/ sems' = [sems EXCEPT ![u] = Granted(s)] /\ Answer(c, "ok")
    BY <1>17, <2>2 DEF Enter
  <2> HIDE DEF s
  <2>5. CallOnly(c) /\ ((SameRequest(c) /\ call'[c].pc = "waiting") \/ Ended(c, "ok"))
    BY <1>2, <1>5, <1>6, <2>4
  <2>6. /\ sems'[u].owners = [sems[u].owners EXCEPT ![c[1]] = @ + 1]
        /\ \A v \in UUIDs \ {u} : sems'[v] = sems[v]
    BY <1>1, <2>3, <2>4
  <2>7. Enters(c)
    BY <2>1, <2>2, <2>5, <2>6 DEF Enters
  <2> QED BY <1>4, <2>7 DEF HandlerEffect
<1>18. CASE Wake(c)
  <2>1. call[c].pc = "waiting" /\ call[c].method = "Decrement" /\ call[c].uuid \in Live
    BY <1>3, <1>18 DEF Wake, CallSound
  <2>2. PICK u \in UUIDs : u = call[c].uuid /\ u \in Live
    BY <1>15, <2>1
  <2>3. Granted(sems[u]).owners = sems[u].owners
    BY <1>1, <1>15, <2>2, SemSteps
  <2>4. sems' = [sems EXCEPT ![u] = Granted(sems[u])]
    BY <1>18, <2>2 DEF Wake
  <2>5. sems'[u].owners = sems[u].owners /\ \A v \in UUIDs \ {u} : sems'[v] = sems[v]
    BY <1>1, <2>3, <2>4
  <2>6. Ended(c, "ok") /\ CallOnly(c)
    BY <1>2, <1>5, <1>18 DEF Wake
  <2>7. Wakes(c)
    BY <2>1, <2>2, <2>5, <2>6 DEF Wakes
  <2> QED BY <1>4, <2>7 DEF HandlerEffect
<1>19. CASE DanglingReturn(c)
  <2>1. /\ call[c].pc = "dangling" /\ Answer(c, "ok") /\ UNCHANGED sems
        /\ sems[call[c].uuid] = Deleted
    BY <1>3, <1>19 DEF DanglingReturn, serverVars, CallSound
  <2>2. call[c].uuid \notin Live
    BY <2>1 DEF Live, Deleted
  <2> QED BY <1>4, <1>2, <1>7, <2>1, <2>2 DEF HandlerEffect
<1>20. CASE DanglingAbort(c)
  <2>1. aborted' /\ \A u \in UUIDs : sems'[u].state = "deleted"
    BY <1>20 DEF DanglingAbort, Deleted
  <2> QED BY <1>4, <2>1 DEF HandlerEffect, Aborts, Live
<1>21. HandlerEffect(c)
  BY <1>8, <1>9, <1>10, <1>11, <1>12, <1>13, <1>14, <1>16, <1>17, <1>18, <1>19, <1>20
     DEF HandlerStep
<1> QED BY <1>4, <1>21

\* A call that is awaited goes on until it is answered, as what it was.
LEMMA AwaitedKept ==
  ASSUME NEW c \in Calls, HandlerEffect(c), ~aborted', NEW d \in Calls, Awaited(d),
         call[d].pc # "free"
  PROVE  /\ call'[d].pc # "free" /\ call'[d].method = call[d].method
         /\ call[d].method # "Create" => call'[d].uuid = call[d].uuid
<1>1. CASE d = c
  <2>1. CASE Ended(c, "ok")
    BY <1>1, <2>1 DEF Ended, SameRequest
  <2>2. CASE SameRequest(c) /\ call'[c].pc # "free"
    BY <1>1, <2>2 DEF SameRequest
  <2>3. CASE Moves(c)
    BY <1>1, <2>3 DEF Moves, SameRequest, Answers
  <2>4. CASE ~Moves(c)
    <3>1. Ended(c, "ok") \/ (SameRequest(c) /\ call'[c].pc # "free")
      BY <2>4 DEF HandlerEffect, Creates, Deletes, Increments, Enters, Wakes, Aborts
    <3> QED BY <2>1, <2>2, <3>1
  <2> QED BY <2>3, <2>4
<1>2. CASE d # c
  BY <1>2 DEF HandlerEffect, Moves, Creates, Deletes, Increments, Enters, Wakes, Aborts,
              CallOnly
<1> QED BY <1>1, <1>2

\* The heartbeat and a dead server's refusals change no call a client waits for and
\* is not told of.
LEMMA ServerCases ==
  ASSUME ServerInv, ServerNext
  PROVE  /\ UNCHANGED <<up, conn>>
         /\ \/ aborted' /\ Live' = {}
            \/ \E c \in Calls : ~aborted /\ ~aborted' /\ HandlerStep(c) /\ HandlerEffect(c)
            \/ ~aborted /\ ~aborted' /\ HeartbeatStep /\ UNCHANGED call
<1>1. CASE aborted
  <2>1. PICK c \in Calls : Refuse(c)
    BY <1>1 DEF ServerNext
  <2>2. UNCHANGED <<sems, aborted, up, conn>>
    BY <2>1 DEF Refuse, serverVars
  <2>3. Live = {}
    BY <1>1 DEF ServerInv, AbortInv, Live, Deleted
  <2> QED BY <1>1, <2>2, <2>3 DEF Live
<1>2. CASE ~aborted /\ HeartbeatStep
  <2>1. UNCHANGED <<call, up, conn, aborted>>
    BY <1>2 DEF HeartbeatStep, ScanStart, ScanAlive, ScanDead, DisconnectLock,
                DisconnectCopy, DisconnectIncrement, DisconnectDone, netVars
  <2> QED BY <1>2, <2>1
<1>3. ASSUME ~aborted, NEW c \in Calls, HandlerStep(c)
      PROVE  /\ UNCHANGED <<up, conn>>
             /\ \/ aborted' /\ Live' = {}
                \/ ~aborted' /\ HandlerEffect(c)
  <2>1. HandlerEffect(c) /\ UNCHANGED <<up, conn>>
    BY <1>3, HandlerEffects
  <2>2. aborted' => Live' = {}
    <3>1. CASE DanglingAbort(c)
      BY <3>1 DEF DanglingAbort, Live, Deleted
    <3>2. CASE ~DanglingAbort(c)
      BY <1>3, <3>2 DEF HandlerStep, Accept, Create, Delete, Dump, LookUp, CheckFails,
             CheckDecrement, CheckIncrement, Enter, Wake, DanglingReturn, serverVars
    <3> QED BY <3>1, <3>2
  <2>3. aborted' \/ ~aborted'
    OBVIOUS
  <2> QED BY <2>1, <2>2, <2>3
<1> QED BY <1>1, <1>2, <1>3 DEF ServerNext

-----------------------------------------------------------------------------
(* Calls a client lost sight of. *)

One(b) == IF b THEN 1 ELSE 0

\* A call that has not come to its semaphore yet.
Pending == {"sent", "lock", "check", "enter"}

\* The server makes no calls, and takes no call for another.
LEMMA CallsServed ==
  ASSUME ServerInv, ServerNext, ~aborted', NEW d \in Calls, call'[d].pc # "free"
  PROVE  /\ call[d].pc # "free" /\ call'[d].method = call[d].method
         /\ call[d].method # "Create" => call'[d].uuid = call[d].uuid
         /\ call'[d].pc \in Pending => call[d].pc \in Pending
<1> DEFINE Same == /\ call[d].pc # "free" /\ call'[d].method = call[d].method
                   /\ call[d].method # "Create" => call'[d].uuid = call[d].uuid
                   /\ call'[d].pc \in Pending => call[d].pc \in Pending
<1>1. ASSUME NEW c \in Calls, HandlerEffect(c) PROVE Same
  <2>1. CASE d # c
    <3>1. \/ call'[d] = call[d]
          \/ /\ call[d].pc # "free" /\ call'[d].pc = "dangling"
             /\ call'[d].uuid = call[d].uuid /\ call'[d].method = call[d].method
      BY <1>1, <2>1 DEF HandlerEffect, Moves, Creates, Deletes, Increments, Enters, Wakes,
                        Aborts, CallOnly
    <3> QED BY <3>1 DEF Pending
  <2>2. CASE d = c
    <3>1. FreeCall.pc = "free"
      BY DEF FreeCall
    <3>2. CASE Ended(c, "ok") /\ call[c].pc # "free"
      BY <2>2, <3>1, <3>2 DEF Ended, SameRequest, Pending
    <3>3. CASE Moves(c)
      BY <2>2, <3>1, <3>3 DEF Moves, SameRequest, Pending, Answers
    <3>4. CASE Enters(c)
      BY <2>2, <3>1, <3>4 DEF Enters, Ended, SameRequest, Pending
    <3> QED BY <1>1, <3>2, <3>3, <3>4 DEF HandlerEffect, Creates, Deletes, Increments, Wakes,
                                      Aborts
  <2> QED BY <2>1, <2>2
<1> QED BY <1>1, ServerCases

\* Lose counts the call that is awaited, and nothing else.
LEMMA LoseAdds ==
  ASSUME ClientTypeOK, NEW o \in Owners, Lose(o)
  PROVE  /\ \A u \in UUIDs : /\ lostP'[o][u] = lostP[o][u] + One(Asked(o, u))
                             /\ lostV'[o][u] = lostV[o][u] + One(Releasing(o, u))
         /\ \A p \in Owners \ {o} : lostP'[p] = lostP[p] /\ lostV'[p] = lostV[p]
<1>1. lostP \in [Owners -> [UUIDs -> Nat]] /\ lostV \in [Owners -> [UUIDs -> Nat]]
  BY DEF ClientTypeOK
<1>2. \A u \in UUIDs : /\ Asked(o, u) <=> Awaits(o, "Decrement", u)
                       /\ Releasing(o, u) <=> Awaits(o, "Increment", u)
  BY DEF Asked, Releasing
<1>3. /\ lostP' = [lostP EXCEPT ![o] = [u \in UUIDs |->
                     IF Awaits(o, "Decrement", u) THEN lostP[o][u] + 1 ELSE lostP[o][u]]]
      /\ lostV' = [lostV EXCEPT ![o] = [u \in UUIDs |->
                     IF Awaits(o, "Increment", u) THEN lostV[o][u] + 1 ELSE lostV[o][u]]]
  BY DEF Lose
<1>4. /\ lostP'[o] = [u \in UUIDs |->
                     IF Awaits(o, "Decrement", u) THEN lostP[o][u] + 1 ELSE lostP[o][u]]
      /\ lostV'[o] = [u \in UUIDs |->
                     IF Awaits(o, "Increment", u) THEN lostV[o][u] + 1 ELSE lostV[o][u]]
      /\ \A p \in Owners \ {o} : lostP'[p] = lostP[p] /\ lostV'[p] = lostV[p]
  BY <1>1, <1>3
<1> HIDE DEF Awaits
<1> QED BY <1>1, <1>2, <1>4 DEF One

\* No other step counts a call.
LEMMA LostSame ==
  ASSUME NEW o \in Owners, ClientStep(o), ~CallThrows(o), ~Crash(o)
  PROVE  UNCHANGED <<lostP, lostV>>
BY DEF ClientStep, Command, Send, GetAnswer, Quit, ExitNext, ExitSend, ExitDone, Restart,
       clientVars

-----------------------------------------------------------------------------
(* What a client shows as its status. *)

\* A client waits only for calls the server has, unless the server is gone.
ConnInv == ~aborted => \A o \in Owners : conn[o] # 0 => AwaitedCall(o).pc # "free"

\* A Decrement its client does not wait for is one that it lost sight of.
LateInv ==
  ~aborted => \A d \in Calls :
                call[d].pc # "free" /\ call[d].method = "Decrement" /\ ~Awaited(d)
                  => lostP[d[1]][call[d].uuid] > 0

StatusInv ==
  ~aborted => \A o \in Owners, u \in UUIDs :
                lostP[o][u] = 0 => (u \in polling[o] <=> Asked(o, u))

PollInv == ConnInv /\ LateInv /\ StatusInv

\* The call a client waits for.
LEMMA AwaitedIs ==
  ASSUME ServerInv, NEW o \in Owners, conn[o] # 0
  PROVE  /\ conn[o] \in Slots /\ <<o, conn[o]>> \in Calls /\ Awaited(<<o, conn[o]>>)
         /\ AwaitedCall(o) = call[<<o, conn[o]>>] /\ AwaitedCall(o) \in CallType
<1>1. conn[o] \in Slots
  BY DEF ServerInv, TypeOK, NetTypeOK
<1>2. <<o, conn[o]>> \in Calls
  BY <1>1 DEF Calls
<1> QED BY <1>1, <1>2, NetType DEF Awaited, AwaitedCall, ServerInv, TypeOK

LEMMA PollByServer ==
  ASSUME ServerInv, PollInv, ServerNext, UNCHANGED clientVars, ~aborted'
  PROVE  PollInv'
<1>1. UNCHANGED <<conn, polling, lostP>> /\ ~aborted
  BY ServerCases DEF clientVars, ServerNext, Refuse, serverVars
<1>2. ASSUME NEW o \in Owners, conn[o] # 0
      PROVE  /\ AwaitedCall(o)'.pc # "free"
             /\ AwaitedCall(o)'.method = AwaitedCall(o).method
             /\ AwaitedCall(o).method = "Decrement" =>
                  AwaitedCall(o)'.uuid = AwaitedCall(o).uuid
  <2>1. PICK d \in Calls : d = <<o, conn[o]>> /\ Awaited(d) /\ AwaitedCall(o) = call[d]
    BY <1>2, AwaitedIs
  <2>2. AwaitedCall(o)' = call'[d]
    BY <1>1, <2>1 DEF AwaitedCall
  <2>3. call[d].pc # "free"
    BY <1>1, <1>2, <2>1 DEF PollInv, ConnInv
  <2>4. CASE \E c \in Calls : HandlerEffect(c)
    BY <2>1, <2>2, <2>3, <2>4, AwaitedKept
  <2>5. CASE UNCHANGED call
    BY <2>1, <2>2, <2>3, <2>5
  <2> QED BY <2>4, <2>5, ServerCases
<1>3. ConnInv'
  BY <1>1, <1>2 DEF ConnInv
<1>4. StatusInv'
  <2>1. \A o \in Owners, u \in UUIDs : Asked(o, u)' <=> Asked(o, u)
    BY <1>1, <1>2 DEF Asked, Awaits
  <2> QED BY <1>1, <2>1 DEF PollInv, StatusInv
<1>5. LateInv'
  <2> SUFFICES ASSUME NEW d \in Calls, call'[d].pc # "free", call'[d].method = "Decrement",
                      ~Awaited(d)'
               PROVE  lostP'[d[1]][call'[d].uuid] > 0
    BY DEF LateInv
  <2>1. ~Awaited(d)
    BY <1>1 DEF Awaited
  <2>2. call[d].pc # "free" /\ call[d].method = "Decrement" /\ call'[d].uuid = call[d].uuid
    BY CallsServed
  <2> QED BY <1>1, <2>1, <2>2 DEF PollInv, LateInv
<1> QED BY <1>3, <1>4, <1>5 DEF PollInv

LEMMA PollByClient ==
  ASSUME ServerInv, PollInv, NEW o \in Owners, ClientStep(o), UNCHANGED serverVars, ~aborted
  PROVE  PollInv'
<1>1. CallsByClient(o) /\ aborted' = aborted
  BY ClientEffect DEF ServerInv, serverVars
<1>2. /\ conn \in [Owners -> {0} \cup Slots] /\ call \in [Calls -> CallType]
      /\ polling \in [Owners -> SUBSET UUIDs] /\ 0 \notin Slots /\ ClientTypeOK
      /\ \A u \in UUIDs : lostP[o][u] \in Nat
  BY NetType DEF ServerInv, TypeOK, ClientTypeOK, Slots
<1>3. /\ conn[o] # 0 => AwaitedCall(o).pc # "free"
      /\ \A u \in UUIDs : lostP[o][u] = 0 => (u \in polling[o] <=> Asked(o, u))
      /\ \A d \in Calls :
           d[1] = o /\ call[d].pc # "free" /\ call[d].method = "Decrement" /\ ~Awaited(d)
             => lostP[o][call[d].uuid] > 0
  BY <1>1 DEF PollInv, ConnInv, StatusInv, LateInv
\* What the client has to see to.
<1> DEFINE Conn == conn'[o] # 0 => AwaitedCall(o)'.pc # "free"
           Status == \A u \in UUIDs :
                       lostP'[o][u] = 0 => (u \in polling'[o] <=> Asked(o, u)')
           Lates == \A d \in Calls :
                      d[1] = o /\ call'[d].pc # "free" /\ call'[d].method = "Decrement"
                        /\ ~Awaited(d)' => lostP'[o][call'[d].uuid] > 0
<1>4. \A d \in Calls : d[1] \in Owners /\ d[2] \in Slots /\ d = <<d[1], d[2]>>
  BY CallPair
<1>5. conn[o] = 0 => \A u \in UUIDs : ~Asked(o, u)
  BY DEF Asked, Awaits
<1>6. conn'[o] = 0 => \A u \in UUIDs : ~Asked(o, u)'
  BY DEF Asked, Awaits
<1>7. ASSUME Abandon(o)
      PROVE  /\ conn'[o] = 0
             /\ \A d \in Calls : call'[d].pc # "free" =>
                  call'[d] = call[d] /\ ~(d[1] = o /\ Awaited(d) /\ call[d].pc \in Answers)
  BY <1>2, <1>7, AbandonCall, FreeType
<1>8. ASSUME NEW m \in Methods, NEW u \in UUIDs \cup {NoUUID}, Send(o, m, u)
      PROVE  Conn /\ Status /\ Lates
  <2>1. PICK i \in Slots : Opened(o, m, u, i)
    BY <1>2, <1>8, SendCall, Zenon
  <2>2. conn[o] = 0 /\ conn'[o] = i /\ i # 0 /\ lostP' = lostP
    BY <1>2, <1>8, <2>1 DEF Opened, Send
  <2>3. AwaitedCall(o)' = [pc |-> "sent", method |-> m, uuid |-> u]
    BY <2>1, <2>2 DEF Opened, AwaitedCall
  <2>4. \A v \in UUIDs : Asked(o, v)' <=> m = "Decrement" /\ v = u
    BY <2>2, <2>3 DEF Asked, Awaits
  <2>5. polling'[o] = CASE m = "Decrement" -> polling[o] \cup {u}
                        [] m = "Increment" -> polling[o] \ {u}
                        [] OTHER -> polling[o]
    BY <1>2, <1>8 DEF Send
  <2>6. Status
    <3> SUFFICES ASSUME NEW v \in UUIDs, lostP[o][v] = 0
                 PROVE  v \in polling'[o] <=> m = "Decrement" /\ v = u
      BY <2>2, <2>4
    <3>1. v \notin polling[o]
      BY <1>3, <1>5, <2>2
    <3>2. CASE m = "Decrement"
      BY <2>5, <3>1, <3>2
    <3>3. CASE m = "Increment"
      BY <2>5, <3>1, <3>3
    <3>4. CASE m # "Decrement" /\ m # "Increment"
      BY <2>5, <3>1, <3>4
    <3> QED BY <3>2, <3>3, <3>4
  <2>7. ASSUME NEW d \in Calls, d[1] = o, ~Awaited(d)' PROVE call'[d] = call[d] /\ ~Awaited(d)
    BY <1>2, <1>4, <2>1, <2>2, <2>7 DEF Opened, Awaited
  <2>8. Lates
    BY <1>3, <2>2, <2>7
  <2> QED BY <2>3, <2>6, <2>8
<1>9. ASSUME GetAnswer(o)
      PROVE  Conn /\ Status /\ Lates
  <2>1. conn[o] # 0 /\ conn'[o] = 0 /\ lostP' = lostP /\ AwaitedCall(o).pc \in Answers
    BY <1>7, <1>9 DEF GetAnswer
  <2>2. polling'[o] = IF AwaitedCall(o).method \in {"Decrement", "Increment"}
                      THEN polling[o] \ {AwaitedCall(o).uuid} ELSE polling[o]
    BY <1>2, <1>9 DEF GetAnswer
  <2>3. \A u \in UUIDs : Asked(o, u) <=> /\ AwaitedCall(o).method = "Decrement"
                                         /\ AwaitedCall(o).uuid = u
    BY <2>1 DEF Asked, Awaits
  <2>4. Status
    BY <1>3, <1>6, <2>1, <2>2, <2>3
  <2>5. Lates
    <3> SUFFICES ASSUME NEW d \in Calls, d[1] = o, call'[d].pc # "free",
                        call'[d].method = "Decrement"
                 PROVE  lostP'[o][call'[d].uuid] > 0
      OBVIOUS
    <3>1. call'[d] = call[d]
      BY <1>7, <1>9, FreeType DEF GetAnswer
    <3>2. ~Awaited(d)
      <4> SUFFICES ASSUME Awaited(d) PROVE FALSE
        OBVIOUS
      <4>1. call[d].pc \in Answers
        BY <1>4, <2>1 DEF Awaited, AwaitedCall
      <4> QED BY <1>7, <1>9, <3>1, <4>1, FreeType DEF GetAnswer
    <3> QED BY <1>3, <2>1, <3>1, <3>2
  <2> QED BY <2>1, <2>4, <2>5
<1>10. ASSUME CallThrows(o) \/ Crash(o)
      PROVE  Conn /\ Status /\ Lates
  <2>1. Abandon(o) /\ Lose(o) /\ (polling'[o] = polling[o] \/ polling'[o] = {})
    BY <1>2, <1>10 DEF CallThrows, Crash
  <2>2. /\ conn'[o] = 0
        /\ \A u \in UUIDs : lostP'[o][u] = lostP[o][u] + One(Asked(o, u))
    BY <1>2, <1>7, <2>1, LoseAdds
  <2>3. Status
    <3> SUFFICES ASSUME NEW u \in UUIDs, lostP'[o][u] = 0 PROVE u \notin polling'[o]
      BY <1>6, <2>2
    <3>1. lostP[o][u] = 0 /\ ~Asked(o, u)
      BY <1>2, <2>2 DEF One
    <3> QED BY <1>3, <2>1, <3>1
  <2>4. Lates
    <3> SUFFICES ASSUME NEW d \in Calls, d[1] = o, call'[d].pc # "free",
                        call'[d].method = "Decrement"
                 PROVE  lostP'[o][call'[d].uuid] > 0
      OBVIOUS
    <3>1. call'[d] = call[d]
      BY <1>7, <2>1, FreeType
    <3>2. call[d].uuid \in UUIDs
      BY <3>1 DEF ServerInv, CallInv, CallSound
    <3>3. CASE Awaited(d)
      <4>1. conn[o] # 0 /\ AwaitedCall(o) = call[d]
        BY <1>2, <1>4, <3>3 DEF Awaited, AwaitedCall
      <4>2. Asked(o, call[d].uuid)
        BY <3>1, <4>1 DEF Asked, Awaits
      <4> QED BY <1>2, <2>2, <3>1, <3>2, <4>2 DEF One
    <3>4. CASE ~Awaited(d)
      <4>1. lostP[o][call[d].uuid] > 0
        BY <1>3, <3>1, <3>4
      <4> QED BY <1>2, <2>2, <3>1, <3>2, <4>1 DEF One
    <3> QED BY <3>3, <3>4
  <2> QED BY <2>2, <2>3, <2>4
<1>11. ASSUME UNCHANGED <<conn, call, polling, lostP>>
      PROVE  Conn /\ Status /\ Lates
  <2>1. \A u \in UUIDs : Asked(o, u)' <=> Asked(o, u)
    BY <1>11 DEF Asked, Awaits, AwaitedCall
  <2> QED BY <1>3, <1>11, <2>1 DEF AwaitedCall, Awaited
<1>12. ASSUME ExitDone(o)
      PROVE  Conn /\ Status /\ Lates
  <2>1. conn'[o] = 0 /\ polling'[o] = {} /\ UNCHANGED <<conn, call, lostP>>
    BY <1>2, <1>12 DEF ExitDone
  <2> QED BY <1>3, <1>5, <1>6, <2>1 DEF Awaited
<1>13. ASSUME Quit(o) \/ (\E u \in UUIDs : ExitNext(o, u)) \/ Restart(o)
      PROVE  Conn /\ Status /\ Lates
  BY <1>11, <1>13 DEF Quit, ExitNext, Restart, netVars, clientVars
<1>14. ASSUME ExitSend(o)
      PROVE  Conn /\ Status /\ Lates
  <2>1. exiting[o].at \in UUIDs /\ "Increment" \in Methods
    BY <1>14 DEF ExitSend, ServerInv, ExitAtInv, Methods
  <2> QED BY <1>8, <1>14, <2>1 DEF ExitSend
<1>15. ASSUME NEW m \in Methods, NEW u \in UUIDs \cup {NoUUID}, Command(o, m, u)
      PROVE  Conn /\ Status /\ Lates
  BY <1>8, <1>15 DEF Command
<1>16. Conn /\ Status /\ Lates
  <2> HIDE DEF Conn, Status, Lates
  <2> QED BY <1>9, <1>10, <1>12, <1>13, <1>14, <1>15 DEF ClientStep
\* The other clients.
<1>17. ASSUME NEW p \in Owners, p # o
       PROVE  conn'[p] = conn[p] /\ polling'[p] = polling[p] /\ lostP'[p] = lostP[p]
  <2>1. conn'[p] = conn[p]
    BY <1>1, <1>17 DEF CallsByClient
  <2>2. UNCHANGED polling \/ \E s : polling' = [polling EXCEPT ![o] = s]
    BY DEF ClientStep, Command, Send, GetAnswer, CallThrows, Quit, ExitNext, ExitSend,
           ExitDone, Crash, Restart, clientVars
  <2>3. lostP'[p] = lostP[p]
    <3>1. CASE CallThrows(o) \/ Crash(o)
      BY <1>2, <1>17, <3>1, LoseAdds DEF CallThrows, Crash
    <3> QED BY <3>1, LostSame
  <2> QED BY <1>2, <1>17, <2>1, <2>2, <2>3
<1>18. \A d \in Calls : d[1] # o => call'[d] = call[d]
  BY <1>1 DEF CallsByClient
<1>19. ASSUME NEW p \in Owners, p # o
       PROVE  /\ conn[p] # 0 => AwaitedCall(p)' = AwaitedCall(p)
              /\ \A u \in UUIDs : Asked(p, u)' <=> Asked(p, u)
  <2>1. conn[p] # 0 => <<p, conn[p]>> \in Calls
    BY AwaitedIs
  <2>2. conn[p] # 0 => AwaitedCall(p)' = AwaitedCall(p)
    BY <1>17, <1>18, <1>19, <2>1 DEF AwaitedCall
  <2> QED BY <1>17, <1>19, <2>2 DEF Asked, Awaits
<1>20. ConnInv'
  BY <1>1, <1>16, <1>17, <1>19 DEF PollInv, ConnInv
<1>21. StatusInv'
  BY <1>1, <1>16, <1>17, <1>19 DEF PollInv, StatusInv
<1>22. LateInv'
  <2> SUFFICES ASSUME NEW d \in Calls, call'[d].pc # "free", call'[d].method = "Decrement",
                      ~Awaited(d)'
               PROVE  lostP'[d[1]][call'[d].uuid] > 0
    BY DEF LateInv
  <2>1. CASE d[1] = o
    BY <1>16, <2>1
  <2>2. CASE d[1] # o
    BY <1>1, <1>4, <1>17, <1>18, <2>2 DEF PollInv, LateInv, Awaited
  <2> QED BY <2>1, <2>2
<1> QED BY <1>20, <1>21, <1>22 DEF PollInv

LEMMA PollSafe == Spec => []PollInv
<1>1. Init => PollInv
  <2> SUFFICES ASSUME Init PROVE PollInv
    OBVIOUS
  <2>1. \A d \in Calls : call[d].pc = "free"
    BY FreeType DEF Init, NetInit
  <2>2. \A o \in Owners : conn[o] = 0 /\ polling[o] = {}
    BY DEF Init, NetInit, ClientInit
  <2> QED BY <2>1, <2>2 DEF PollInv, ConnInv, StatusInv, LateInv, Asked, Awaits
<1>2. ServerInv /\ PollInv /\ [Next]_vars => PollInv'
  <2> SUFFICES ASSUME ServerInv, PollInv, [Next]_vars PROVE PollInv'
    OBVIOUS
  <2>1. CASE aborted'
    BY <2>1 DEF PollInv, ConnInv, StatusInv, LateInv
  <2>2. CASE ~aborted' /\ ServerNext /\ UNCHANGED clientVars
    BY <2>2, PollByServer
  <2>3. ASSUME ~aborted', NEW o \in Owners, ClientStep(o), UNCHANGED serverVars
        PROVE  PollInv'
    BY <2>3, PollByClient DEF serverVars
  <2>4. CASE UNCHANGED vars
    BY <2>4 DEF vars, netVars, serverVars, clientVars, PollInv, ConnInv, StatusInv, LateInv,
                Asked, Awaits, AwaitedCall, Awaited
  <2> QED BY <2>1, <2>2, <2>3, <2>4 DEF Next, ClientNext
<1> QED BY <1>1, <1>2, ServerSafe, PTL DEF Spec

\* The status that a probe trusts is right: a client is shown as polling exactly while
\* it waits for the answer of its Decrement, and no other call of it waits for a unit,
\* until a Decrement of it about that semaphore throws.
THEOREM StatusIsRight == Spec => []PollingIsWaiting
<1>1. ServerInv /\ PollInv => PollingIsWaiting
  <2> SUFFICES ASSUME ServerInv, PollInv, ~aborted, NEW o \in Owners, NEW u \in UUIDs,
                      lostP[o][u] = 0
               PROVE  /\ u \in polling[o] <=> Asked(o, u)
                      /\ \A c \in WaitingOn(u) : c[1] = o => u \in polling[o]
    BY DEF PollingIsWaiting
  <2>1. u \in polling[o] <=> Asked(o, u)
    BY DEF PollInv, StatusInv
  <2>2. ASSUME NEW c \in WaitingOn(u), c[1] = o PROVE Asked(o, u)
    <3>1. c \in Calls /\ call[c].pc = "waiting" /\ call[c].uuid = u
      BY DEF WaitingOn
    <3>2. call[c].method = "Decrement"
      BY <3>1 DEF ServerInv, CallInv, CallSound
    <3>3. Awaited(c)
      BY <2>2, <3>1, <3>2 DEF PollInv, LateInv, ServerInv, TypeOK, ClientTypeOK
    <3>4. c[2] \in Slots /\ c = <<o, c[2]>> /\ 0 \notin Slots
      BY <2>2, <3>1, CallPair DEF Slots
    <3>5. conn[o] # 0 /\ AwaitedCall(o) = call[c]
      BY <2>2, <3>3, <3>4 DEF Awaited, AwaitedCall
    <3> QED BY <3>1, <3>2, <3>5 DEF Asked, Awaits
  <2> QED BY <2>1, <2>2
<1> QED BY <1>1, ServerSafe, PollSafe, PTL

-----------------------------------------------------------------------------
(* What a client believes, and what is in its name.                         *)

\* o has not heard yet that its Decrement put it on the list of u ...
Entered(o, u) == Asked(o, u) /\ AwaitedCall(o).pc \in {"waiting", "ok"}

\* ... nor that its Increment took it off, ...
Returned(o, u) == Releasing(o, u) /\ AwaitedCall(o).pc = "ok"

\* ... or its Increment is still on its way.
Returning(o, u) == Releasing(o, u) /\ AwaitedCall(o).pc \in {"sent", "lock", "check"}

\* The entries of o in the owner list of u, as o could work them out if it knew of
\* the answers it has yet to read.
Balance(o, u) == One(Entered(o, u)) - One(Returned(o, u)) - value[o][u]

Less(n) == IF n = 0 THEN 0 ELSE n - 1

\* A semaphore that was never created is unknown to all clients.
ValueInv == \A u \in UUIDs : sems[u] = NotCreated => \A o \in Owners : value[o][u] = 0

LEMMA NeverUncreated ==
  ASSUME ServerInv, ServerNext, NEW u \in UUIDs, sems[u] # NotCreated
  PROVE  sems'[u] # NotCreated
<1>1. sems \in [UUIDs -> SemaphoreType \cup {NotCreated, Deleted}]
  BY DEF ServerInv, TypeOK, ServerTypeOK
<1>2. ASSUME UNCHANGED sems PROVE sems'[u] # NotCreated
  BY <1>2
<1>3. \A t : t.state \in {"live", "deleted"} => t # NotCreated
  <2>1. NotCreated.state = "not created"
    BY DEF NotCreated
  <2> QED BY <2>1
<1>4. ASSUME NEW v \in Live, NEW t \in SemaphoreType, sems' = [sems EXCEPT ![v] = t]
      PROVE  sems'[u] # NotCreated
  BY <1>1, <1>4, LiveKept
<1>5. CASE HeartbeatStep
  <2>1. CASE DisconnectIncrement
    <3>1. /\ hb.at \in Live /\ hb.o \in Owners
          /\ sems' = [sems EXCEPT ![hb.at] = Incremented(sems[hb.at], hb.o)]
      BY <2>1 DEF DisconnectIncrement, ServerInv, ScanInv, CopyStillListed
    <3>2. hb.at \in UUIDs /\ sems[hb.at] \in SemaphoreType
      BY <1>1, <3>1, SemCases DEF Live
    <3> QED BY <1>4, <3>1, <3>2, SemIncrement
  <2>2. CASE UNCHANGED sems
    BY <1>2, <2>2
  <2> QED BY <1>5, <2>1, <2>2 DEF HeartbeatStep, ScanStart, ScanAlive, ScanDead,
             DisconnectLock, DisconnectCopy, DisconnectDone
<1>6. ASSUME NEW c \in Calls, HandlerStep(c)
      PROVE  sems'[u] # NotCreated
  <2>1. c[1] \in Owners /\ CallSound(c)
    BY CallPair DEF ServerInv, CallInv
  <2>2. call[c].uuid \in Live => call[c].uuid \in UUIDs /\ sems[call[c].uuid] \in SemaphoreType
    BY <1>1, SemCases DEF Live
  <2>3. CASE Create(c)
    <3>1. ASSUME NEW p \in Params, NEW v \in UUIDs, sems[v] = NotCreated,
                 sems' = [sems EXCEPT ![v] =
                            [state |-> "live", cur |-> p.cur, min |-> p.min,
                             max |-> p.max, owners |-> [o \in Owners |-> 0],
                             initial |-> p.cur]]
          PROVE  sems'[u] # NotCreated
      BY <1>1, <3>1
    <3> QED BY <1>2, <2>3, <3>1 DEF Create
  <2>4. CASE Delete(c)
    <3>1. Deleted.state = "deleted"
      BY DEF Deleted
    <3>2. UNCHANGED sems \/ sems' = [sems EXCEPT ![call[c].uuid] = Deleted]
      BY <2>4 DEF Delete
    <3> QED BY <1>1, <1>3, <3>1, <3>2
  <2>5. CASE CheckIncrement(c)
    <3>1. /\ call[c].uuid \in Live
          /\ sems' = [sems EXCEPT ![call[c].uuid] = Incremented(sems[call[c].uuid], c[1])]
      BY <2>1, <2>5 DEF CheckIncrement, CallSound
    <3> QED BY <1>4, <2>1, <2>2, <3>1, SemIncrement
  <2>6. CASE Enter(c)
    <3> DEFINE s == Listed(sems[call[c].uuid], c[1])
    <3>1. call[c].uuid \in Live
      BY <2>1, <2>6 DEF Enter, CallSound
    <3>2. s \in SemaphoreType /\ Granted(s) \in SemaphoreType
      BY <2>1, <2>2, <3>1, SemSteps
    <3>3. \/ sems' = [sems EXCEPT ![call[c].uuid] = s]
          \/ sems' = [sems EXCEPT ![call[c].uuid] = Granted(s)]
      BY <2>6 DEF Enter
    <3> HIDE DEF s
    <3> QED BY <1>4, <3>1, <3>2, <3>3
  <2>7. CASE Wake(c)
    <3>1. /\ call[c].uuid \in Live
          /\ sems' = [sems EXCEPT ![call[c].uuid] = Granted(sems[call[c].uuid])]
      BY <2>1, <2>7 DEF Wake, CallSound
    <3> QED BY <1>4, <2>1, <2>2, <3>1, SemSteps
  <2>8. CASE DanglingAbort(c)
    BY <1>3, <2>8 DEF DanglingAbort, Deleted
  <2>9. CASE UNCHANGED sems
    BY <1>2, <2>9
  <2> QED BY <1>6, <2>3, <2>4, <2>5, <2>6, <2>7, <2>8, <2>9
          DEF HandlerStep, Accept, Dump, LookUp, CheckFails, CheckDecrement,
              DanglingReturn, serverVars
<1> QED BY <1>2, <1>5, <1>6 DEF ServerNext, Refuse, serverVars

\* What an answer does to what its client believes of u.
LEMMA AnswerValue ==
  ASSUME ServerInv, NEW o \in Owners, NEW u \in UUIDs, GetAnswer(o)
  PROVE  /\ conn[o] # 0 /\ conn'[o] = 0 /\ AwaitedCall(o).pc \in Answers
         /\ \A p \in Owners \ {o} : value'[p] = value[p]
         /\ value'[o][u] = IF AwaitedCall(o).pc = "ok" /\ AwaitedCall(o).uuid = u
                           THEN CASE AwaitedCall(o).method = "Decrement" -> value[o][u] - 1
                                  [] AwaitedCall(o).method = "Increment" -> value[o][u] + 1
                                  [] OTHER -> value[o][u]
                           ELSE value[o][u]
         /\ \A d \in Calls : d[1] = o /\ d[2] = conn[o] => call'[d] = FreeCall
<1>1. /\ conn \in [Owners -> {0} \cup Slots] /\ call \in [Calls -> CallType]
      /\ value \in [Owners -> [UUIDs -> Int]]
  BY NetType DEF ServerInv, TypeOK, ClientTypeOK
<1>2. conn[o] # 0 /\ AwaitedCall(o).pc \in Answers /\ Abandon(o)
  BY DEF GetAnswer
<1>3. conn'[o] = 0
  BY <1>1, <1>2, AbandonCall
<1>4. ASSUME NEW d \in Calls, d[1] = o, d[2] = conn[o] PROVE call'[d] = FreeCall
  <2>1. Awaited(d) /\ d = <<o, conn[o]>>
    BY <1>4, CallPair DEF Awaited
  <2>2. call[d].pc \in Answers
    BY <1>2, <2>1 DEF AwaitedCall
  <2> QED BY <1>1, <1>2, <1>4, <2>1, <2>2, AbandonCall
<1>5. CASE AwaitedCall(o).method \in {"Decrement", "Increment"}
  <2> DEFINE m == AwaitedCall(o).method
             w == AwaitedCall(o).uuid
             n == Counted(value[o][w], m, AwaitedCall(o).pc)
  <2>1. w \in UUIDs
    <3>1. <<o, conn[o]>> \in Calls /\ AwaitedCall(o) = call[<<o, conn[o]>>]
      BY <1>2, AwaitedIs
    <3> QED BY <1>5, <3>1 DEF ServerInv, CallInv, CallSound
  <2>2. value' = [value EXCEPT ![o] = [value[o] EXCEPT ![w] = n]]
    BY <1>1, <1>5 DEF GetAnswer
  <2> HIDE DEF n
  <2>3. /\ \A p \in Owners \ {o} : value'[p] = value[p]
        /\ value'[o][u] = IF u = w THEN n ELSE value[o][u]
    BY <1>1, <2>1, <2>2
  <2>4. w = u => n = IF AwaitedCall(o).pc = "ok"
                     THEN CASE AwaitedCall(o).method = "Decrement" -> value[o][u] - 1
                            [] AwaitedCall(o).method = "Increment" -> value[o][u] + 1
                            [] OTHER -> value[o][u]
                     ELSE value[o][u]
    BY <1>5 DEF n, Counted
  <2> QED BY <1>2, <1>3, <1>4, <2>3, <2>4
<1>6. CASE AwaitedCall(o).method \notin {"Decrement", "Increment"}
  <2>1. value' = value
    BY <1>6 DEF GetAnswer
  <2> QED BY <1>2, <1>3, <1>4, <1>6, <2>1
<1> QED BY <1>5, <1>6

\* Nothing but an answer, an end and a new beginning changes what a client believes.
LEMMA ValueSame ==
  ASSUME NEW o \in Owners, ClientStep(o), ~GetAnswer(o), ~Crash(o), ~ExitDone(o)
  PROVE  UNCHANGED value
BY DEF ClientStep, Command, Send, CallThrows, Quit, ExitNext, ExitSend, Restart, clientVars

LEMMA ValueStep ==
  ASSUME ServerInv, ValueInv, [Next]_vars
  PROVE  ValueInv'
<1> SUFFICES ASSUME NEW u \in UUIDs, sems'[u] = NotCreated, NEW p \in Owners
             PROVE  value'[p][u] = 0
  BY DEF ValueInv
<1>1. value \in [Owners -> [UUIDs -> Int]]
  BY DEF ServerInv, TypeOK, ClientTypeOK
<1>2. ASSUME UNCHANGED value, sems[u] = NotCreated PROVE value'[p][u] = 0
  BY <1>2 DEF ValueInv
<1>3. CASE ServerNext /\ UNCHANGED clientVars
  BY <1>2, <1>3, NeverUncreated DEF clientVars
<1>4. ASSUME NEW o \in Owners, ClientStep(o), UNCHANGED serverVars
      PROVE  value'[p][u] = 0
  <2>1. sems[u] = NotCreated
    BY <1>4 DEF serverVars
  <2>2. CASE GetAnswer(o)
    <3>1. /\ conn[o] # 0
          /\ \A q \in Owners \ {o} : value'[q] = value[q]
          /\ AwaitedCall(o).uuid # u \/ AwaitedCall(o).pc # "ok" => value'[o][u] = value[o][u]
          /\ AwaitedCall(o).method \notin {"Decrement", "Increment"} =>
               value'[o][u] = value[o][u]
      BY <2>2, AnswerValue
    <3>2. \/ AwaitedCall(o).uuid # u \/ AwaitedCall(o).pc # "ok"
          \/ AwaitedCall(o).method \notin {"Decrement", "Increment"}
      <4>1. <<o, conn[o]>> \in Calls /\ AwaitedCall(o) = call[<<o, conn[o]>>]
        BY <3>1, AwaitedIs
      <4> QED BY <2>1, <4>1 DEF ServerInv, CallInv, CallSound
    <3> QED BY <2>1, <3>1, <3>2 DEF ValueInv
  <2>3. CASE Crash(o) \/ ExitDone(o)
    <3>1. value' = [value EXCEPT ![o] = Fresh]
      BY <2>3 DEF Crash, ExitDone
    <3> QED BY <1>1, <2>1, <3>1 DEF ValueInv, Fresh
  <2>4. CASE ~GetAnswer(o) /\ ~Crash(o) /\ ~ExitDone(o)
    BY <1>2, <1>4, <2>1, <2>4, ValueSame
  <2> QED BY <2>2, <2>3, <2>4
<1>5. CASE UNCHANGED vars
  BY <1>2, <1>5 DEF vars, serverVars, clientVars
<1> QED BY <1>3, <1>4, <1>5 DEF Next, ClientNext

\* A client's view of u stays as it is while its call does.
LEMMA SameView ==
  ASSUME NEW o \in Owners, NEW u \in UUIDs, conn'[o] = conn[o], value'[o] = value[o],
         conn[o] # 0 => AwaitedCall(o)' = AwaitedCall(o)
  PROVE  /\ (Entered(o, u)' <=> Entered(o, u)) /\ (Returned(o, u)' <=> Returned(o, u))
         /\ (Returning(o, u)' <=> Returning(o, u)) /\ (Releasing(o, u)' <=> Releasing(o, u))
         /\ Balance(o, u)' = Balance(o, u)
<1>1. (Entered(o, u)' <=> Entered(o, u)) /\ (Releasing(o, u)' <=> Releasing(o, u))
  BY DEF Entered, Asked, Awaits, Releasing
<1>2. (Returned(o, u)' <=> Returned(o, u)) /\ (Returning(o, u)' <=> Returning(o, u))
  BY DEF Returned, Returning, Releasing, Awaits
<1>3. One(Entered(o, u))' = One(Entered(o, u)) /\ One(Returned(o, u))' = One(Returned(o, u))
  BY <1>1, <1>2 DEF One
<1> QED BY <1>1, <1>2, <1>3 DEF Balance

\* A client that waits for nothing has asked for nothing.
LEMMA NoView ==
  ASSUME NEW o \in Owners, NEW u \in UUIDs
  PROVE  /\ conn[o] = 0 => /\ ~Entered(o, u) /\ ~Returned(o, u) /\ ~Returning(o, u)
                           /\ ~Releasing(o, u) /\ Balance(o, u) = 0 - value[o][u]
         /\ conn'[o] = 0 => /\ ~Entered(o, u)' /\ ~Returned(o, u)' /\ ~Returning(o, u)'
                            /\ ~Releasing(o, u)' /\ Balance(o, u)' = 0 - value'[o][u]
<1>1. conn[o] = 0 => ~Entered(o, u) /\ ~Releasing(o, u)
  BY DEF Entered, Asked, Awaits, Releasing
<1>2. conn'[o] = 0 => ~Entered(o, u)' /\ ~Releasing(o, u)'
  BY DEF Entered, Asked, Awaits, Releasing
<1> QED BY <1>1, <1>2 DEF Returned, Returning, Balance, One

\* A step of the server as client o sees it, o being alone with u.
Unmoved(o, u) == /\ (Entered(o, u)' <=> Entered(o, u)) /\ (Returned(o, u)' <=> Returned(o, u))
                 /\ (Returning(o, u)' <=> Returning(o, u))

\* The calls o lost sight of that have not come to u yet.
Late(o, u, m) == {d \in Calls : /\ d[1] = o /\ ~Awaited(d) /\ call[d].pc \in Pending
                               /\ call[d].method = m /\ call[d].uuid = u}

\* One of them is done with.
LateServed(o, u, m) == \E d \in Late(o, u, m) : d \notin Late(o, u, m)'

AccountStep(o, u) ==
  \/ Unmoved(o, u) /\ sems'[u].owners[o] = sems[u].owners[o]
\* its Increment fails in CheckClient,
  \/ /\ Returning(o, u) /\ FALSE \in CheckClient(o) /\ ~Returning(o, u)'
     /\ (Entered(o, u)' <=> Entered(o, u)) /\ (Returned(o, u)' <=> Returned(o, u))
     /\ sems'[u].owners[o] = sems[u].owners[o]
\* its Decrement is listed,
  \/ /\ Asked(o, u)
     /\ ~Entered(o, u) /\ Entered(o, u)' /\ ~Returned(o, u) /\ ~Returned(o, u)'
     /\ ~Returning(o, u) /\ ~Returning(o, u)'
     /\ sems'[u].owners[o] = sems[u].owners[o] + 1
\* its Increment is done,
  \/ /\ Returning(o, u) /\ ~Returning(o, u)' /\ ~Returned(o, u) /\ Returned(o, u)'
     /\ ~Entered(o, u) /\ ~Entered(o, u)'
     /\ sems'[u].owners[o] = Less(sems[u].owners[o])
\* an Increment or a Decrement is done that it waits for no more,
  \/ /\ Unmoved(o, u) /\ sems'[u].owners[o] = Less(sems[u].owners[o])
     /\ LateServed(o, u, "Increment")
  \/ /\ Unmoved(o, u) /\ sems'[u].owners[o] = sems[u].owners[o] + 1
     /\ LateServed(o, u, "Decrement")
\* or the heartbeat takes an entry away.
  \/ /\ Unmoved(o, u) /\ sems'[u].owners[o] = Less(sems[u].owners[o])
     /\ hb.pc = "increments" /\ hb.o = o

LEMMA LessIncrement ==
  ASSUME NEW s \in SemaphoreType, NEW o \in Owners, NEW p \in Owners
  PROVE  Incremented(s, o).owners[p] = IF p = o THEN Less(s.owners[p]) ELSE s.owners[p]
<1>1. s.owners \in [Owners -> Nat]
  BY DEF SemaphoreType
<1>2. CASE s.owners[o] = 0
  <2>1. Incremented(s, o).owners = s.owners
    BY <1>2 DEF Incremented
  <2> QED BY <1>2, <2>1 DEF Less
<1>3. CASE s.owners[o] # 0
  <2>1. Incremented(s, o).owners = [s.owners EXCEPT ![o] = @ - 1]
    BY <1>3, SemIncrement
  <2> QED BY <1>1, <1>3, <2>1 DEF Less
<1> QED BY <1>2, <1>3

LEMMA AccountByHandler ==
  ASSUME ServerInv, NEW c \in Calls, HandlerEffect(c), UNCHANGED <<up, conn>>, ~aborted',
         UNCHANGED clientVars, NEW o \in Owners, NEW u \in Live, u \in Live'
  PROVE  AccountStep(o, u)
<1>1. /\ u \in UUIDs /\ sems[u] \in SemaphoreType /\ sems[u].owners \in [Owners -> Nat]
      /\ sems[u].owners[o] \in Nat
  BY CountTypes
<1>2. c[1] \in Owners /\ conn'[o] = conn[o] /\ value'[o] = value[o]
  BY CallPair DEF clientVars
\* c is not the call that o waits for.
<1>3. CASE conn[o] = 0 \/ c # <<o, conn[o]>>
  <2>1. c[1] = o => ~Awaited(c)
    <3>1. c[2] \in Slots /\ c = <<c[1], c[2]>> /\ 0 \notin Slots
      BY CallPair DEF Slots
    <3> QED BY <1>3, <3>1 DEF Awaited
  <2>2. CASE Deletes(c)
    <3>1. PICK v \in UUIDs :
            /\ v \notin Live'
            /\ \A w \in UUIDs \ {v} : sems'[w] = sems[w]
            /\ \A d \in Calls \ {c} :
                 \/ call'[d] = call[d]
                 \/ /\ call[d].uuid = v /\ call'[d].uuid = v
      BY <2>2 DEF Deletes
    <3>2. sems'[u] = sems[u] /\ u # v
      BY <1>1, <3>1
    <3>3. CASE conn[o] = 0
      <4>1. Unmoved(o, u)
        BY <1>1, <1>2, <3>3, SameView DEF Unmoved
      <4> QED BY <3>2, <4>1 DEF AccountStep
    <3>4. CASE conn[o] # 0
      <4>1. PICK d \in Calls : d = <<o, conn[o]>> /\ AwaitedCall(o) = call[d]
        BY <3>4, AwaitedIs
      <4>2. AwaitedCall(o)' = call'[d]
        BY <1>2, <4>1 DEF AwaitedCall
      <4>3. \/ AwaitedCall(o)' = AwaitedCall(o)
            \/ AwaitedCall(o).uuid # u /\ AwaitedCall(o)'.uuid # u
        BY <1>3, <3>1, <3>2, <3>4, <4>1, <4>2
      <4>4. CASE AwaitedCall(o)' = AwaitedCall(o)
        BY <1>1, <1>2, <3>2, <4>4, SameView DEF Unmoved, AccountStep
      <4>5. CASE AwaitedCall(o).uuid # u /\ AwaitedCall(o)'.uuid # u
        <5>1. /\ ~Entered(o, u) /\ ~Entered(o, u)'
              /\ ~Releasing(o, u) /\ ~Releasing(o, u)'
          BY <4>5 DEF Entered, Asked, Awaits, Releasing
        <5>2. Unmoved(o, u)
          BY <5>1 DEF Unmoved, Returned, Returning
        <5> QED BY <3>2, <5>2 DEF AccountStep
      <4> QED BY <4>3, <4>4, <4>5
    <3> QED BY <3>3, <3>4
  <2>3. CASE ~Deletes(c)
    <3>1. CallOnly(c)
      BY <2>3 DEF HandlerEffect, Moves, Creates, Increments, Enters, Wakes, Aborts
    <3>2. conn[o] # 0 => AwaitedCall(o)' = AwaitedCall(o)
      <4> SUFFICES ASSUME conn[o] # 0 PROVE AwaitedCall(o)' = AwaitedCall(o)
        OBVIOUS
      <4>1. PICK d \in Calls : d = <<o, conn[o]>> /\ AwaitedCall(o) = call[d]
        BY AwaitedIs
      <4>2. AwaitedCall(o)' = call'[d]
        BY <1>2, <4>1 DEF AwaitedCall
      <4> QED BY <1>3, <3>1, <4>1, <4>2 DEF CallOnly
    <3>3. Unmoved(o, u)
      BY <1>1, <1>2, <3>2, SameView DEF Unmoved
    <3>4. CASE Moves(c) \/ Creates(c) \/ Wakes(c)
      <4>1. sems'[u].owners = sems[u].owners
        <5>1. sems[u] # NotCreated
          BY <1>1, SemCases DEF ServerInv, TypeOK, ServerTypeOK
        <5> QED BY <1>1, <3>4, <5>1 DEF Moves, Creates, Wakes
      <4> QED BY <3>3, <4>1 DEF AccountStep
    <3>5. CASE Increments(c)
      <4>1. PICK v \in UUIDs : /\ v = call[c].uuid /\ v \in Live
                               /\ \A w \in UUIDs \ {v} : sems'[w] = sems[w]
                               /\ sems'[v] = Incremented(sems[v], c[1])
        BY <3>5 DEF Increments
      <4>2. CASE u = v
        <5>1. sems'[u].owners[o] = IF o = c[1] THEN Less(sems[u].owners[o])
                                   ELSE sems[u].owners[o]
          BY <1>1, <1>2, <4>1, <4>2, LessIncrement
        <5>2. ASSUME c[1] = o PROVE LateServed(o, u, "Increment")
          <6>1. call[c].pc = "check" /\ call[c].method = "Increment" /\ call[c].uuid = u
            BY <3>5, <4>1, <4>2 DEF Increments
          <6>2. c \in Late(o, u, "Increment")
            BY <2>1, <5>2, <6>1 DEF Late, Pending
          <6>3. call'[c].pc \notin Pending
            BY <3>5, FreeType DEF Increments, Ended, Pending
          <6>4. c \notin Late(o, u, "Increment")'
            BY <6>3 DEF Late
          <6> QED BY <6>2, <6>4 DEF LateServed
        <5> QED BY <3>3, <5>1, <5>2 DEF AccountStep
      <4>3. CASE u # v
        BY <1>1, <3>3, <4>1, <4>3 DEF AccountStep
      <4> QED BY <4>2, <4>3
    <3>6. CASE Enters(c)
      <4>1. PICK v \in UUIDs : /\ v = call[c].uuid /\ v \in Live
                               /\ \A w \in UUIDs \ {v} : sems'[w] = sems[w]
                               /\ sems'[v].owners = [sems[v].owners EXCEPT ![c[1]] = @ + 1]
        BY <3>6 DEF Enters
      <4>2. CASE u = v
        <5>1. sems'[u].owners[o] = IF o = c[1] THEN sems[u].owners[o] + 1
                                   ELSE sems[u].owners[o]
          BY <1>1, <1>2, <4>1, <4>2
        <5>2. ASSUME c[1] = o PROVE LateServed(o, u, "Decrement")
          <6>1. call[c].pc = "enter" /\ call[c].method = "Decrement" /\ call[c].uuid = u
            BY <3>6, <4>1, <4>2 DEF Enters
          <6>2. c \in Late(o, u, "Decrement")
            BY <2>1, <5>2, <6>1 DEF Late, Pending
          <6>3. call'[c].pc \notin Pending
            BY <3>6, FreeType DEF Enters, Ended, Pending
          <6>4. c \notin Late(o, u, "Decrement")'
            BY <6>3 DEF Late
          <6> QED BY <6>2, <6>4 DEF LateServed
        <5> QED BY <3>3, <5>1, <5>2 DEF AccountStep
      <4>3. CASE u # v
        BY <1>1, <3>3, <4>1, <4>3 DEF AccountStep
      <4> QED BY <4>2, <4>3
    <3> QED BY <2>3, <3>4, <3>5, <3>6 DEF HandlerEffect, Aborts
  <2> QED BY <2>2, <2>3
\* c is the call that o waits for.
<1>4. CASE conn[o] # 0 /\ c = <<o, conn[o]>>
  <2>1. Awaited(c) /\ AwaitedCall(o) = call[c] /\ AwaitedCall(o)' = call'[c] /\ c[1] = o
    BY <1>2, <1>4 DEF AwaitedCall, Awaited
  <2>2. /\ Entered(o, u) <=> /\ call[c].method = "Decrement" /\ call[c].uuid = u
                           /\ call[c].pc \in {"waiting", "ok"}
        /\ Releasing(o, u) <=> call[c].method = "Increment" /\ call[c].uuid = u
        /\ Entered(o, u)' <=> /\ call'[c].method = "Decrement" /\ call'[c].uuid = u
                            /\ call'[c].pc \in {"waiting", "ok"}
        /\ Releasing(o, u)' <=> call'[c].method = "Increment" /\ call'[c].uuid = u
    BY <1>2, <1>4, <2>1 DEF Entered, Asked, Awaits, Releasing
  <2>3. /\ Returned(o, u) <=> Releasing(o, u) /\ call[c].pc = "ok"
        /\ Returned(o, u)' <=> Releasing(o, u)' /\ call'[c].pc = "ok"
        /\ Returning(o, u) <=> Releasing(o, u) /\ call[c].pc \in {"sent", "lock", "check"}
        /\ Returning(o, u)' <=> Releasing(o, u)' /\ call'[c].pc \in {"sent", "lock", "check"}
    BY <2>1 DEF Returned, Returning
  <2>4. CASE Moves(c)
    <3>1. sems'[u].owners[o] = sems[u].owners[o]
      BY <2>4 DEF Moves
    <3>2. SameRequest(c)
      BY <2>1, <2>4 DEF Moves
    <3>3. CASE /\ call[c].pc \in {"sent", "lock", "check"}
               /\ call'[c].pc \in {"lock", "check", "enter"}
               /\ call'[c].pc = "enter" => call[c].method = "Decrement"
      BY <2>2, <2>3, <3>1, <3>2, <3>3 DEF SameRequest, Unmoved, AccountStep
    <3>4. CASE /\ call'[c].pc \in Answers
               /\ call[c].method \notin {"Decrement", "Increment"} \/ call[c].uuid \notin Live
      <4>1. \/ call[c].method \notin {"Decrement", "Increment"}
            \/ call[c].uuid # u /\ (call[c].method # "Create" => call'[c].uuid # u)
        BY <3>2, <3>4 DEF SameRequest
      <4> QED BY <2>2, <2>3, <3>1, <3>2, <4>1 DEF SameRequest, Unmoved, AccountStep
    <3>5. CASE call'[c].pc = "error" /\ FALSE \in CheckClient(c[1])
      <4>1. call[c].pc \in {"sent", "lock", "check", "dangling"}
        BY <2>4 DEF Moves
      <4>2. ~Entered(o, u) /\ ~Entered(o, u)' /\ ~Returned(o, u) /\ ~Returned(o, u)'
            /\ ~Returning(o, u)'
        BY <2>2, <2>3, <3>5, <4>1
      <4> QED BY <2>1, <3>1, <3>5, <4>2 DEF Unmoved, AccountStep
    <3> QED BY <2>1, <2>4, <3>3, <3>4, <3>5 DEF Moves
  <2>5. ASSUME Ended(c, "ok") PROVE call'[c].pc = "ok" /\ SameRequest(c)
    BY <2>1, <2>5 DEF Ended
  <2>6. CASE Creates(c)
    <3>1. sems'[u].owners[o] = sems[u].owners[o]
      <4>1. sems[u] # NotCreated
        BY <1>1, SemCases DEF ServerInv, TypeOK, ServerTypeOK
      <4> QED BY <1>1, <2>6, <4>1 DEF Creates
    <3>2. call[c].method = "Create" /\ call'[c].method = "Create"
      BY <2>5, <2>6 DEF Creates, SameRequest
    <3> QED BY <2>2, <2>3, <3>1, <3>2 DEF Unmoved, AccountStep
  <2>7. CASE Deletes(c)
    <3>1. sems'[u].owners[o] = sems[u].owners[o]
      BY <1>1, <2>7 DEF Deletes
    <3>2. call[c].method = "Delete" /\ call'[c].method = "Delete"
      BY <2>5, <2>7 DEF Deletes, SameRequest
    <3> QED BY <2>2, <2>3, <3>1, <3>2 DEF Unmoved, AccountStep
  <2>8. CASE Increments(c)
    <3>1. call[c].pc = "check" /\ call[c].method = "Increment" /\ call'[c].pc = "ok"
          /\ call'[c].method = "Increment" /\ call'[c].uuid = call[c].uuid
      BY <2>5, <2>8 DEF Increments, SameRequest
    <3>2. CASE u = call[c].uuid
      <4>1. sems'[u] = Incremented(sems[u], o)
        BY <2>1, <2>8, <3>2 DEF Increments
      <4>2. sems'[u].owners[o] = Less(sems[u].owners[o])
        BY <1>1, <4>1, LessIncrement
      <4> QED BY <2>2, <2>3, <3>1, <3>2, <4>2 DEF AccountStep
    <3>3. CASE u # call[c].uuid
      <4>1. sems'[u] = sems[u]
        BY <1>1, <2>8, <3>3 DEF Increments
      <4> QED BY <2>2, <2>3, <3>1, <3>3, <4>1 DEF Unmoved, AccountStep
    <3> QED BY <3>2, <3>3
  <2>9. CASE Enters(c)
    <3>1. call[c].pc = "enter" /\ call[c].method = "Decrement"
          /\ call'[c].pc \in {"waiting", "ok"}
          /\ call'[c].method = "Decrement" /\ call'[c].uuid = call[c].uuid
      BY <2>5, <2>9 DEF Enters, SameRequest
    <3>2. CASE u = call[c].uuid
      <4>1. sems'[u].owners = [sems[u].owners EXCEPT ![o] = @ + 1]
        BY <2>1, <2>9, <3>2 DEF Enters
      <4>2. sems'[u].owners[o] = sems[u].owners[o] + 1
        BY <1>1, <4>1
      <4>3. Asked(o, u)
        BY <1>4, <2>1, <3>1, <3>2 DEF Asked, Awaits
      <4>4. /\ ~Entered(o, u) /\ Entered(o, u)' /\ ~Returned(o, u) /\ ~Returned(o, u)'
            /\ ~Returning(o, u) /\ ~Returning(o, u)'
        BY <2>2, <2>3, <3>1, <3>2
      <4> QED BY <4>2, <4>3, <4>4 DEF AccountStep
    <3>3. CASE u # call[c].uuid
      <4>1. sems'[u] = sems[u]
        BY <1>1, <2>9, <3>3 DEF Enters
      <4> QED BY <2>2, <2>3, <3>1, <3>3, <4>1 DEF Unmoved, AccountStep
    <3> QED BY <3>2, <3>3
  <2>10. CASE Wakes(c)
    <3>1. call[c].pc = "waiting" /\ call[c].method = "Decrement" /\ call'[c].pc = "ok"
          /\ call'[c].method = "Decrement" /\ call'[c].uuid = call[c].uuid
      BY <2>5, <2>10 DEF Wakes, SameRequest
    <3>2. sems'[u].owners = sems[u].owners
      BY <1>1, <2>10 DEF Wakes
    <3> QED BY <2>2, <2>3, <3>1, <3>2 DEF Unmoved, AccountStep
  <2> QED BY <2>4, <2>6, <2>7, <2>8, <2>9, <2>10 DEF HandlerEffect, Aborts
<1> QED BY <1>3, <1>4

LEMMA AccountByServer ==
  ASSUME ServerInv, ServerNext, UNCHANGED clientVars, ~aborted',
         NEW o \in Owners, NEW u \in Live, u \in Live'
  PROVE  AccountStep(o, u)
<1>1. /\ u \in UUIDs /\ sems[u] \in SemaphoreType /\ sems[u].owners \in [Owners -> Nat]
      /\ sems \in [UUIDs -> SemaphoreType \cup {NotCreated, Deleted}]
  BY CountTypes DEF ServerInv, TypeOK, ServerTypeOK
<1>2. UNCHANGED <<up, conn>>
  BY ServerCases
<1>3. ASSUME NEW c \in Calls, HandlerEffect(c) PROVE AccountStep(o, u)
  BY <1>2, <1>3, AccountByHandler
<1>4. CASE HeartbeatStep /\ UNCHANGED call
  <2>1. conn'[o] = conn[o] /\ value'[o] = value[o]
    BY <1>2 DEF clientVars
  <2>2. AwaitedCall(o)' = AwaitedCall(o)
    BY <1>2, <1>4 DEF AwaitedCall
  <2>3. Unmoved(o, u)
    BY <1>1, <2>1, <2>2, SameView DEF Unmoved
  <2>4. CASE UNCHANGED sems
    BY <2>3, <2>4 DEF AccountStep
  <2>5. CASE DisconnectIncrement
    <3>1. PICK v \in Live, p \in Owners : v = hb.at /\ p = hb.o
      BY <2>5 DEF DisconnectIncrement, ServerInv, ScanInv, CopyStillListed
    <3>2. sems' = [sems EXCEPT ![v] = Incremented(sems[v], p)] /\ hb.pc = "increments"
      BY <2>5, <3>1 DEF DisconnectIncrement
    <3>3. CASE v = u
      <4>1. sems'[u].owners[o] = IF o = p THEN Less(sems[u].owners[o])
                                 ELSE sems[u].owners[o]
        <5>1. sems'[u] = Incremented(sems[u], p)
          BY <1>1, <3>2, <3>3
        <5> QED BY <1>1, <5>1, LessIncrement
      <4> QED BY <2>3, <3>1, <3>2, <4>1 DEF AccountStep
    <3>4. CASE v # u
      <4>1. sems'[u] = sems[u]
        BY <1>1, <3>2, <3>4
      <4> QED BY <2>3, <4>1 DEF AccountStep
    <3> QED BY <3>3, <3>4
  <2> QED BY <1>4, <2>4, <2>5 DEF HeartbeatStep, ScanStart, ScanAlive, ScanDead,
             DisconnectLock, DisconnectCopy, DisconnectDone
<1> QED BY <1>3, <1>4, ServerCases

\* A new semaphore has no owner, no call and no client that knows it.
LEMMA NewAccount ==
  ASSUME ServerInv, ValueInv, ServerNext, UNCHANGED clientVars, ~aborted',
         NEW o \in Owners, NEW u \in Live', u \notin Live
  PROVE  /\ ~Entered(o, u)' /\ ~Returned(o, u)' /\ value'[o][u] = 0
         /\ sems'[u].owners[o] = 0
<1>1. sems \in [UUIDs -> SemaphoreType \cup {NotCreated, Deleted}] /\ u \in UUIDs
  BY DEF ServerInv, TypeOK, ServerTypeOK, Live
<1>2. UNCHANGED <<up, conn>>
  BY ServerCases
<1>3. ASSUME NEW w \in UUIDs, sems'[w] = sems[w] PROVE w # u
  BY <1>3 DEF Live
<1>4. ~UNCHANGED sems
  BY <1>1, <1>3
<1>5. ASSUME NEW c \in Calls, HandlerEffect(c) PROVE Creates(c) /\ sems[u] = NotCreated
                                                     /\ sems'[u].owners[o] = 0
  <2>1. CASE Creates(c)
    BY <1>1, <1>3, <2>1 DEF Creates
  <2>2. CASE Deletes(c)
    BY <1>1, <1>3, <2>2 DEF Deletes
  <2>3. ~Increments(c)
    BY <1>1, <1>3 DEF Increments
  <2>4. ~Enters(c)
    BY <1>1, <1>3 DEF Enters
  <2>5. ~Wakes(c)
    BY <1>1, <1>3 DEF Wakes
  <2> QED BY <1>4, <1>5, <2>1, <2>2, <2>3, <2>4, <2>5 DEF HandlerEffect, Moves, Aborts
<1>6. ~HeartbeatStep
  <2>1. SUFFICES ASSUME DisconnectIncrement PROVE FALSE
    BY <1>4 DEF HeartbeatStep, ScanStart, ScanAlive, ScanDead,
             DisconnectLock, DisconnectCopy, DisconnectDone
  <2>2. PICK v \in Live, p \in Owners : v = hb.at /\ p = hb.o
    BY <2>1 DEF DisconnectIncrement, ServerInv, ScanInv, CopyStillListed
  <2>3. sems' = [sems EXCEPT ![v] = Incremented(sems[v], p)] /\ hb.pc = "increments"
    BY <2>1, <2>2 DEF DisconnectIncrement
  <2> QED BY <1>1, <1>3, <2>3
<1>7. PICK c \in Calls : Creates(c) /\ sems[u] = NotCreated /\ sems'[u].owners[o] = 0
  BY <1>5, <1>6, ServerCases
<1>8. value'[o][u] = 0
  BY <1>1, <1>7 DEF ValueInv, clientVars
<1>9. CASE conn[o] = 0
  BY <1>1, <1>2, <1>7, <1>8, <1>9, NoView
<1>10. CASE conn[o] # 0
  <2>1. PICK d \in Calls : d = <<o, conn[o]>> /\ Awaited(d) /\ AwaitedCall(o) = call[d]
    BY <1>10, AwaitedIs
  <2>2. AwaitedCall(o)' = call'[d]
    BY <1>2, <2>1 DEF AwaitedCall
  <2>3. CASE d = c
    <3>1. call'[d].method = "Create"
      BY <1>7, <2>1, <2>3 DEF Creates, Ended, SameRequest
    <3> QED BY <1>7, <1>8, <2>2, <3>1 DEF Entered, Asked, Awaits, Returned, Releasing
  <2>4. CASE d # c
    <3>1. call'[d] = call[d]
      BY <1>7, <2>4 DEF Creates, CallOnly
    <3>2. ~(/\ call[d].method \in {"Decrement", "Increment"} /\ call[d].uuid = u
            /\ call[d].pc \in {"waiting", "ok"})
      BY <1>7, <1>1, SemCases DEF ServerInv, CallInv, CallSound
    <3> QED BY <1>7, <1>8, <2>2, <3>1, <3>2 DEF Entered, Asked, Awaits, Returned, Releasing
  <2> QED BY <2>3, <2>4
<1> QED BY <1>9, <1>10

\* What one client does is nothing to another.
LEMMA OtherClient ==
  ASSUME ServerInv, NEW p \in Owners, ClientStep(p), NEW o \in Owners \ {p}
  PROVE  /\ conn'[o] = conn[o] /\ value'[o] = value[o] /\ exiting'[o] = exiting[o]
         /\ up'[o] = up[o]
         /\ conn[o] # 0 => AwaitedCall(o)' = AwaitedCall(o)
<1>1. CallsByClient(p)
  BY ClientEffect DEF ServerInv
<1>2. /\ value \in [Owners -> [UUIDs -> Int]] /\ DOMAIN exiting = Owners
      /\ up \in [Owners -> BOOLEAN]
  BY NetType DEF ServerInv, TypeOK, ClientTypeOK
<1>3. conn'[o] = conn[o]
  BY <1>1 DEF CallsByClient
<1>4. ASSUME conn[o] # 0 PROVE AwaitedCall(o)' = AwaitedCall(o)
  <2>1. PICK d \in Calls : d = <<o, conn[o]>> /\ AwaitedCall(o) = call[d]
    BY <1>4, AwaitedIs
  <2>2. d[1] = o
    BY <2>1
  <2>3. call'[d] = call[d]
    BY <1>1, <2>2 DEF CallsByClient
  <2> QED BY <1>3, <2>1, <2>3 DEF AwaitedCall
<1>5. value'[o] = value[o]
  <2>1. CASE GetAnswer(p)
    <3>1. \/ UNCHANGED value
          \/ \E f : value' = [value EXCEPT ![p] = f]
      BY <2>1 DEF GetAnswer
    <3> QED BY <1>2, <3>1
  <2>2. CASE Crash(p) \/ ExitDone(p)
    <3>1. value' = [value EXCEPT ![p] = Fresh]
      BY <2>2 DEF Crash, ExitDone
    <3> QED BY <1>2, <3>1
  <2> QED BY <2>1, <2>2, ValueSame
<1>6. exiting'[o] = exiting[o]
  <2>1. UNCHANGED exiting \/ \E f : exiting' = [exiting EXCEPT ![p] = f]
    BY DEF ClientStep, Command, GetAnswer, CallThrows, Quit, ExitNext, ExitSend, ExitDone,
           Crash, Restart, clientVars
  <2> QED BY <1>2, <2>1
<1>7. up'[o] = up[o]
  <2>1. CASE Crash(p) \/ ExitDone(p) \/ Restart(p)
    BY <1>2, <2>1 DEF Crash, ExitDone, Restart
  <2>2. CASE UNCHANGED up
    BY <2>2
  <2> QED BY <2>1, <2>2 DEF ClientStep, Command, Send, GetAnswer, CallThrows, Quit, ExitNext,
             ExitSend, netVars
<1> QED BY <1>3, <1>4, <1>5, <1>6, <1>7

-----------------------------------------------------------------------------
(* What became of the calls a client lost sight of. *)

\* How many of o's calls about u were given up, ...
Lost(o, u, m) == IF m = "Decrement" THEN lostP[o][u] ELSE lostV[o][u]

\* ... and how many of them have come to u, or never will.
Settled(o, u, m) == Lost(o, u, m) - Cardinality(Late(o, u, m))

PV == {"Decrement", "Increment"}

LEMMA LateFinite ==
  ASSUME NEW o \in Owners, NEW u \in UUIDs, NEW m \in PV
  PROVE  /\ IsFiniteSet(Late(o, u, m)) /\ Cardinality(Late(o, u, m)) \in Nat
         /\ IsFiniteSet(Late(o, u, m)') /\ Cardinality(Late(o, u, m)') \in Nat
<1>1. Late(o, u, m) \subseteq Calls /\ Late(o, u, m)' \subseteq Calls
  BY DEF Late
<1>2. IsFiniteSet(Late(o, u, m)) /\ IsFiniteSet(Late(o, u, m)')
  BY <1>1, CallsFinite, FS_Subset
<1> QED BY <1>2, FS_CardinalityType

LEMMA SettledTypes ==
  ASSUME ServerInv, NEW o \in Owners, NEW u \in UUIDs, NEW m \in PV
  PROVE  Lost(o, u, m) \in Nat /\ Settled(o, u, m) \in Int
<1>1. Lost(o, u, m) \in Nat
  BY DEF ServerInv, TypeOK, ClientTypeOK, Lost
<1> QED BY <1>1, LateFinite DEF Settled

LEMMA SettledSame ==
  ASSUME NEW o \in Owners, NEW u \in UUIDs, NEW m \in PV, Late(o, u, m)' = Late(o, u, m),
         lostP'[o] = lostP[o], lostV'[o] = lostV[o]
  PROVE  Settled(o, u, m)' = Settled(o, u, m)
<1>1. Lost(o, u, m)' = Lost(o, u, m)
  BY DEF Lost
<1> QED BY <1>1 DEF Settled

\* Only a call that throws and a death give a call up.
LEMMA SettledKept ==
  ASSUME ServerInv, NEW p \in Owners, ClientStep(p), NEW o \in Owners, NEW u \in UUIDs,
         NEW m \in PV, p = o => ~CallThrows(o) /\ ~Crash(o)
  PROVE  Settled(o, u, m)' = Settled(o, u, m)
<1>1. /\ conn \in [Owners -> {0} \cup Slots] /\ call \in [Calls -> CallType] /\ 0 \notin Slots
      /\ ClientTypeOK /\ CallsByClient(p)
  BY NetType, ClientEffect DEF ServerInv, TypeOK, Slots
<1>2. lostP'[o] = lostP[o] /\ lostV'[o] = lostV[o]
  <2>1. CASE CallThrows(p) \/ Crash(p)
    BY <1>1, <2>1, LoseAdds DEF CallThrows, Crash
  <2> QED BY <2>1, LostSame
<1>3. \A d \in Calls : d[1] \in Owners /\ d[2] \in Slots /\ d = <<d[1], d[2]>>
  BY CallPair
<1>4. ASSUME \A d \in Calls : d[1] = o => (d \in Late(o, u, m)' <=> d \in Late(o, u, m))
      PROVE  Settled(o, u, m)' = Settled(o, u, m)
  <2>1. Late(o, u, m)' = Late(o, u, m)
    BY <1>4 DEF Late
  <2> QED BY <1>2, <2>1, SettledSame
<1>5. CASE p # o
  <2>1. conn'[o] = conn[o] /\ \A d \in Calls : d[1] = o => call'[d] = call[d]
    BY <1>1, <1>5 DEF CallsByClient
  <2> QED BY <1>4, <2>1 DEF Late, Awaited
<1>6. CASE UNCHANGED <<conn, call>>
  BY <1>4, <1>6 DEF Late, Awaited
<1>7. CASE GetAnswer(o)
  <2>1. /\ conn'[o] = 0 /\ AwaitedCall(o).pc \in Answers
        /\ \A d \in Calls : d[1] = o =>
             \/ call'[d] = call[d]
             \/ call'[d] = FreeCall /\ call[d].pc \in Answers
    BY <1>1, <1>7, AbandonCall DEF GetAnswer
  <2>2. \A d \in Calls : d[1] = o /\ Awaited(d) => call[d].pc \in Answers
    BY <1>3, <2>1 DEF Awaited, AwaitedCall
  <2>3. \A d \in Calls : d[1] = o => ~Awaited(d)'
    BY <1>1, <1>3, <2>1 DEF Awaited
  <2>4. FreeCall.pc \notin Pending /\ Answers \cap Pending = {}
    BY DEF FreeCall, Pending, Answers
  <2> QED BY <1>4, <2>1, <2>2, <2>3, <2>4 DEF Late
<1>8. ASSUME NEW n \in Methods, NEW v \in UUIDs \cup {NoUUID}, Send(o, n, v)
      PROVE  Settled(o, u, m)' = Settled(o, u, m)
  <2>1. PICK i \in Slots : Opened(o, n, v, i)
    BY <1>1, <1>8, SendCall, Zenon
  <2>2. conn[o] = 0 /\ conn'[o] = i /\ i # 0 /\ call[<<o, i>>].pc = "free"
    BY <1>1, <2>1 DEF Opened
  <2>3. ASSUME NEW d \in Calls, d[1] = o, d # <<o, i>>
        PROVE  call'[d] = call[d] /\ ~Awaited(d) /\ ~Awaited(d)'
    BY <1>1, <1>3, <2>1, <2>2, <2>3 DEF Opened, Awaited
  <2>4. <<o, i>> \notin Late(o, u, m) /\ <<o, i>> \notin Late(o, u, m)'
    BY <2>2 DEF Late, Pending, Awaited
  <2> QED BY <1>4, <2>3, <2>4 DEF Late
<1>9. CASE ExitSend(o)
  <2>1. exiting[o].at \in UUIDs /\ "Increment" \in Methods
    BY <1>9 DEF ExitSend, ServerInv, ExitAtInv, Methods
  <2> QED BY <1>8, <1>9, <2>1 DEF ExitSend
<1>10. CASE \E n \in Methods, v \in UUIDs \cup {NoUUID} : Command(o, n, v)
  BY <1>8, <1>10 DEF Command
<1>11. CASE Quit(o) \/ (\E v \in UUIDs : ExitNext(o, v)) \/ Restart(o) \/ ExitDone(o)
  BY <1>6, <1>11 DEF Quit, ExitNext, Restart, ExitDone, netVars
<1> QED BY <1>5, <1>7, <1>9, <1>10, <1>11 DEF ClientStep

\* A call that is given up is settled at once if it had come to its semaphore.
LEMMA SettledThrown ==
  ASSUME ServerInv, NEW o \in Owners, Abandon(o), Lose(o), NEW u \in UUIDs, NEW m \in PV
  PROVE  Settled(o, u, m)' = Settled(o, u, m)
                               + One(Awaits(o, m, u) /\ AwaitedCall(o).pc \notin Pending)
<1>1. /\ conn \in [Owners -> {0} \cup Slots] /\ call \in [Calls -> CallType] /\ 0 \notin Slots
      /\ ClientTypeOK
  BY NetType DEF ServerInv, TypeOK, Slots
<1>2. \A d \in Calls : d[1] \in Owners /\ d[2] \in Slots /\ d = <<d[1], d[2]>>
  BY CallPair
<1>3. Lost(o, u, m)' = Lost(o, u, m) + One(Awaits(o, m, u)) /\ Lost(o, u, m) \in Nat
  <2>1. /\ lostP'[o][u] = lostP[o][u] + One(Asked(o, u))
        /\ lostV'[o][u] = lostV[o][u] + One(Releasing(o, u))
    BY <1>1, LoseAdds
  <2>2. CASE m = "Decrement"
    BY <2>1, <2>2, SettledTypes DEF Lost, Asked
  <2>3. CASE m = "Increment"
    BY <2>1, <2>3, SettledTypes DEF Lost, Releasing
  <2> QED BY <2>2, <2>3 DEF PV
<1>4. /\ conn'[o] = 0
      /\ \A d \in Calls : d[1] = o =>
           /\ ~Awaited(d)'
           /\ IF Awaited(d) /\ call[d].pc \in Answers THEN call'[d] = FreeCall
              ELSE call'[d] = call[d]
  BY <1>1, <1>2, AbandonCall DEF Awaited
<1>5. FreeCall.pc \notin Pending /\ Answers \cap Pending = {}
  BY DEF FreeCall, Pending, Answers
<1>6. \A d \in Late(o, u, m) : d \in Late(o, u, m)'
  BY <1>4, <1>5 DEF Late
<1>7. \A d \in Late(o, u, m)' \ Late(o, u, m) :
        /\ d \in Calls /\ d[1] = o /\ Awaited(d) /\ call[d].pc \in Pending
        /\ call[d].method = m /\ call[d].uuid = u
  BY <1>4, <1>5 DEF Late
<1>8. \A d \in Calls : d[1] = o /\ Awaited(d) => d = <<o, conn[o]>> /\ conn[o] # 0
                                                   /\ call[d] = AwaitedCall(o)
  BY <1>1, <1>2 DEF Awaited, AwaitedCall
<1>9. /\ IsFiniteSet(Late(o, u, m)) /\ Cardinality(Late(o, u, m)) \in Nat
      /\ Cardinality(Late(o, u, m)') \in Nat
  BY LateFinite
<1>10. CASE Awaits(o, m, u) /\ AwaitedCall(o).pc \in Pending
  <2>1. PICK d \in Calls : d = <<o, conn[o]>> /\ Awaited(d) /\ AwaitedCall(o) = call[d]
    BY <1>10, AwaitedIs DEF Awaits
  <2>2. d[1] = o
    BY <2>1
  <2>3. d \notin Late(o, u, m) /\ d \in Late(o, u, m)'
    BY <1>4, <1>5, <1>10, <2>1, <2>2 DEF Late, Awaits
  <2>4. Late(o, u, m)' = Late(o, u, m) \cup {d}
    BY <1>6, <1>7, <1>8, <2>1, <2>3
  <2>5. Cardinality(Late(o, u, m)') = Cardinality(Late(o, u, m)) + 1
    BY <1>9, <2>3, <2>4, FS_AddElement
  <2> QED BY <1>3, <1>9, <1>10, <2>5 DEF Settled, One
<1>11. CASE ~(Awaits(o, m, u) /\ AwaitedCall(o).pc \in Pending)
  <2>1. Late(o, u, m)' = Late(o, u, m)
    BY <1>6, <1>7, <1>8, <1>11 DEF Awaits
  <2> QED BY <1>3, <1>9, <1>11, <2>1 DEF Settled, One
<1> QED BY <1>10, <1>11

\* The server settles what it serves.
LEMMA SettledByServer ==
  ASSUME ServerInv, ServerNext, UNCHANGED clientVars, ~aborted',
         NEW o \in Owners, NEW u \in UUIDs, NEW m \in PV
  PROVE  /\ Settled(o, u, m)' \in Int /\ Settled(o, u, m)' >= Settled(o, u, m)
         /\ LateServed(o, u, m) => Settled(o, u, m)' >= Settled(o, u, m) + 1
<1>1. conn' = conn /\ Lost(o, u, m)' = Lost(o, u, m) /\ Lost(o, u, m) \in Nat
  BY ServerCases, SettledTypes DEF clientVars, Lost
<1>2. Late(o, u, m)' \subseteq Late(o, u, m)
  <2> SUFFICES ASSUME NEW d \in Calls, d \in Late(o, u, m)' PROVE d \in Late(o, u, m)
    BY DEF Late
  <2>1. /\ d[1] = o /\ ~Awaited(d)' /\ call'[d].pc \in Pending
        /\ call'[d].method = m /\ call'[d].uuid = u
    BY DEF Late
  <2>2. call'[d].pc # "free" /\ m # "Create"
    BY <2>1 DEF Pending, PV
  <2>3. call[d].method = m /\ call[d].uuid = u /\ call[d].pc \in Pending
    BY <2>1, <2>2, CallsServed
  <2> QED BY <1>1, <2>1, <2>3 DEF Late, Awaited
<1>3. /\ IsFiniteSet(Late(o, u, m)) /\ Cardinality(Late(o, u, m)) \in Nat
      /\ Cardinality(Late(o, u, m)') \in Nat
  BY LateFinite
<1>4. Cardinality(Late(o, u, m)') <= Cardinality(Late(o, u, m))
  BY <1>2, <1>3, FS_Subset
<1>5. ASSUME LateServed(o, u, m)
      PROVE  Cardinality(Late(o, u, m)') <= Cardinality(Late(o, u, m)) - 1
  <2>1. PICK d \in Late(o, u, m) : d \notin Late(o, u, m)'
    BY <1>5 DEF LateServed
  <2>2. Late(o, u, m)' \subseteq Late(o, u, m) \ {d}
    BY <1>2, <2>1
  <2>3. /\ IsFiniteSet(Late(o, u, m) \ {d})
        /\ Cardinality(Late(o, u, m) \ {d}) = Cardinality(Late(o, u, m)) - 1
    BY <1>3, <2>1, FS_RemoveElement
  <2>4. Cardinality(Late(o, u, m)') <= Cardinality(Late(o, u, m) \ {d})
    BY <2>2, <2>3, FS_Subset
  <2> QED BY <2>3, <2>4
<1> QED BY <1>1, <1>3, <1>4, <1>5 DEF Settled

LEMMA SettledStep ==
  ASSUME ServerInv, [Next]_vars, ~aborted', NEW o \in Owners, NEW u \in UUIDs, NEW m \in PV
  PROVE  Settled(o, u, m)' \in Int /\ Settled(o, u, m)' >= Settled(o, u, m)
<1>1. Settled(o, u, m) \in Int
  BY SettledTypes
<1>2. CASE ServerNext /\ UNCHANGED clientVars
  BY <1>2, SettledByServer
<1>3. ASSUME NEW p \in Owners, ClientStep(p)
      PROVE  Settled(o, u, m)' \in Int /\ Settled(o, u, m)' >= Settled(o, u, m)
  <2>1. CASE p = o /\ (CallThrows(o) \/ Crash(o))
    <3>1. Abandon(o) /\ Lose(o)
      BY <2>1 DEF CallThrows, Crash
    <3>2. One(Awaits(o, m, u) /\ AwaitedCall(o).pc \notin Pending) \in {0, 1}
      BY DEF One
    <3> QED BY <1>1, <3>1, <3>2, SettledThrown
  <2>2. CASE ~(p = o /\ (CallThrows(o) \/ Crash(o)))
    BY <1>1, <1>3, <2>2, SettledKept
  <2> QED BY <2>1, <2>2
<1>4. CASE UNCHANGED vars
  <2>1. Late(o, u, m)' = Late(o, u, m) /\ UNCHANGED <<lostP, lostV>>
    BY <1>4 DEF vars, netVars, clientVars, Late, Awaited
  <2> QED BY <1>1, <2>1, SettledSame
<1> QED BY <1>2, <1>3, <1>4 DEF Next, ClientNext

\* A late call is one that was given up.
PendInv == ~aborted => \A o \in Owners, u \in UUIDs, m \in PV : Settled(o, u, m) >= 0

LEMMA PendStep ==
  ASSUME ServerInv, PendInv, [Next]_vars
  PROVE  PendInv'
<1> SUFFICES ASSUME ~aborted', NEW o \in Owners, NEW u \in UUIDs, NEW m \in PV
             PROVE  Settled(o, u, m)' >= 0
  BY DEF PendInv, PV
<1>1. ~aborted
  BY DEF Next, ServerNext, Refuse, serverVars, vars
<1>2. Settled(o, u, m) >= 0
  BY <1>1 DEF PendInv
<1> QED BY <1>2, SettledStep, SettledTypes

LEMMA PendBegins == Init => PendInv
<1> SUFFICES ASSUME Init, NEW o \in Owners, NEW u \in UUIDs, NEW m \in PV
             PROVE  Settled(o, u, m) >= 0
  BY DEF PendInv
<1>1. \A d \in Calls : call[d].pc = "free"
  BY FreeType DEF Init, NetInit
<1>2. Late(o, u, m) = {}
  BY <1>1 DEF Late, Pending
<1>3. Cardinality(Late(o, u, m)) = 0
  BY <1>2, FS_EmptySet
<1>4. lostP[o][u] = 0 /\ lostV[o][u] = 0
  BY DEF Init, ClientInit, Fresh
<1> QED BY <1>3, <1>4 DEF Settled, Lost

-----------------------------------------------------------------------------
(* The entries in a client's name, and those it could work out. *)

\* A call about u that o gave up turns out to have come to it.
Settles(o, u, m) == Settled(o, u, m)' >= Settled(o, u, m) + 1

\* A client's balance stays as it is, but for what it gives up and for its death.
LEMMA BalanceByClient ==
  ASSUME ServerInv, NEW p \in Owners, ClientStep(p), NEW o \in Owners, NEW u \in UUIDs
  PROVE  \/ Balance(o, u)' = Balance(o, u)
         \/ Balance(o, u)' = Balance(o, u) - 1 /\ Settles(o, u, "Decrement")
         \/ Balance(o, u)' = Balance(o, u) + 1 /\ Settles(o, u, "Increment")
         \/ Balance(o, u)' = 0 /\ ~up'[o]
<1>1. CallsByClient(p)
  BY ClientEffect DEF ServerInv
<1>2. /\ conn \in [Owners -> {0} \cup Slots] /\ call \in [Calls -> CallType]
      /\ value \in [Owners -> [UUIDs -> Int]] /\ up \in [Owners -> BOOLEAN]
      /\ value[o][u] \in Int
  BY NetType DEF ServerInv, TypeOK, ClientTypeOK
<1>3. CASE p # o
  BY <1>3, OtherClient, SameView
<1>4. CASE p = o
  <2>1. CASE GetAnswer(o)
    <3>1. /\ conn[o] # 0 /\ conn'[o] = 0 /\ AwaitedCall(o).pc \in Answers
          /\ value'[o][u] = IF AwaitedCall(o).pc = "ok" /\ AwaitedCall(o).uuid = u
                            THEN CASE AwaitedCall(o).method = "Decrement" -> value[o][u] - 1
                                   [] AwaitedCall(o).method = "Increment" -> value[o][u] + 1
                                   [] OTHER -> value[o][u]
                            ELSE value[o][u]
      BY <2>1, AnswerValue
    <3>2. Balance(o, u)' = 0 - value'[o][u]
      BY <3>1, NoView
    <3>3. /\ Entered(o, u) <=> /\ AwaitedCall(o).pc = "ok" /\ AwaitedCall(o).uuid = u
                             /\ AwaitedCall(o).method = "Decrement"
          /\ Returned(o, u) <=> /\ AwaitedCall(o).pc = "ok" /\ AwaitedCall(o).uuid = u
                                /\ AwaitedCall(o).method = "Increment"
      BY <3>1 DEF Entered, Asked, Awaits, Returned, Releasing, Answers
    <3>4. value[o][u] \in Int
      BY <1>2
    <3>5. CASE Entered(o, u)
      <4>1. ~Returned(o, u) /\ value'[o][u] = value[o][u] - 1
        BY <3>1, <3>3, <3>5
      <4> QED BY <3>2, <3>4, <3>5, <4>1 DEF Balance, One
    <3>6. CASE Returned(o, u)
      <4>1. ~Entered(o, u) /\ value'[o][u] = value[o][u] + 1
        BY <3>1, <3>3, <3>6
      <4> QED BY <3>2, <3>4, <3>6, <4>1 DEF Balance, One
    <3>7. CASE ~Entered(o, u) /\ ~Returned(o, u)
      <4>1. value'[o][u] = value[o][u]
        BY <3>1, <3>3, <3>7
      <4> QED BY <3>2, <3>4, <3>7, <4>1 DEF Balance, One
    <3> QED BY <3>5, <3>6, <3>7
  <2>2. CASE CallThrows(o)
    <3>1. /\ Abandon(o) /\ Lose(o) /\ conn'[o] = 0 /\ value' = value
      BY <1>2, <2>2, AbandonCall DEF CallThrows
    <3>2. Balance(o, u)' = 0 - value[o][u]
      BY <3>1, NoView
    <3>3. CASE Entered(o, u)
      <4>1. Awaits(o, "Decrement", u) /\ AwaitedCall(o).pc \notin Pending
        BY <3>3 DEF Entered, Asked, Pending
      <4>2. Settled(o, u, "Decrement")' = Settled(o, u, "Decrement") + 1
        BY <3>1, <4>1, SettledThrown DEF PV, One
      <4>3. Settles(o, u, "Decrement")
        BY <4>2, SettledTypes DEF Settles, PV
      <4>4. ~Returned(o, u)
        BY <4>1 DEF Awaits, Returned, Releasing
      <4>5. Balance(o, u)' = Balance(o, u) - 1
        BY <1>2, <3>2, <3>3, <4>4 DEF Balance, One
      <4> QED BY <4>3, <4>5
    <3>4. CASE Returned(o, u)
      <4>1. Awaits(o, "Increment", u) /\ AwaitedCall(o).pc \notin Pending
        BY <3>4 DEF Returned, Releasing, Pending
      <4>2. Settled(o, u, "Increment")' = Settled(o, u, "Increment") + 1
        BY <3>1, <4>1, SettledThrown DEF PV, One
      <4>3. Settles(o, u, "Increment")
        BY <4>2, SettledTypes DEF Settles, PV
      <4>4. ~Entered(o, u)
        BY <4>1 DEF Awaits, Entered, Asked
      <4>5. Balance(o, u)' = Balance(o, u) + 1
        BY <1>2, <3>2, <3>4, <4>4 DEF Balance, One
      <4> QED BY <4>3, <4>5
    <3>5. CASE ~Entered(o, u) /\ ~Returned(o, u)
      BY <1>2, <3>2, <3>5 DEF Balance, One
    <3> QED BY <3>3, <3>4, <3>5
  <2>3. ASSUME NEW m \in Methods, NEW v \in UUIDs \cup {NoUUID}, Send(o, m, v)
        PROVE  Balance(o, u)' = Balance(o, u)
    <3>1. PICK i \in Slots : Opened(o, m, v, i)
      BY <1>2, <2>3, SendCall, Zenon
    <3>2. conn[o] = 0 /\ conn'[o] = i /\ value' = value
      BY <1>2, <2>3, <3>1 DEF Opened, Send
    <3>3. AwaitedCall(o)'.pc = "sent"
      BY <3>1, <3>2 DEF Opened, AwaitedCall
    <3>4. ~Entered(o, u)' /\ ~Returned(o, u)'
      BY <3>3 DEF Entered, Asked, Awaits, Returned
    <3>5. Balance(o, u) = 0 - value[o][u]
      BY <3>2, NoView
    <3> QED BY <1>2, <3>2, <3>4, <3>5 DEF Balance, One
  <2>4. CASE ExitSend(o)
    <3>1. exiting[o].at \in UUIDs /\ "Increment" \in Methods
      BY <2>4 DEF ExitSend, ServerInv, ExitAtInv, Methods
    <3> QED BY <2>3, <2>4, <3>1 DEF ExitSend
  <2>5. CASE Quit(o) \/ (\E v \in UUIDs : ExitNext(o, v)) \/ Restart(o)
    <3>1. UNCHANGED <<conn, call, value>>
      BY <2>5 DEF Quit, ExitNext, Restart, netVars, clientVars
    <3>2. conn'[o] = conn[o] /\ value'[o] = value[o] /\ AwaitedCall(o)' = AwaitedCall(o)
      BY <3>1 DEF AwaitedCall
    <3> QED BY <3>2, SameView
  <2>6. CASE Crash(o) \/ ExitDone(o)
    <3>1. conn'[o] = 0
      BY <1>2, <2>6, AbandonCall DEF Crash, ExitDone
    <3>2. value'[o] = Fresh /\ ~up'[o]
      BY <1>2, <2>6 DEF Crash, ExitDone
    <3>3. value'[o][u] = 0
      BY <3>2 DEF Fresh
    <3>4. Balance(o, u)' = 0
      BY <3>1, <3>3, NoView
    <3> QED BY <3>2, <3>4
  <2>7. CASE \E m \in Methods, v \in UUIDs \cup {NoUUID} : Command(o, m, v)
    BY <2>3, <2>7 DEF Command
  <2> HIDE DEF Balance, Settles
  <2> QED BY <1>4, <2>1, <2>2, <2>4, <2>5, <2>6, <2>7 DEF ClientStep
<1> QED BY <1>3, <1>4

\* The entries of o in the owner list of u and its balance change together, but for the
\* calls it gave up, for what the heartbeat does and for its death.
BalanceMoves(o, u) ==
  \/ Balance(o, u)' = Balance(o, u) /\ sems'[u].owners[o] = sems[u].owners[o]
  \/ Balance(o, u)' = Balance(o, u) + 1 /\ sems'[u].owners[o] = sems[u].owners[o] + 1
  \/ Balance(o, u)' = Balance(o, u) - 1 /\ sems'[u].owners[o] = Less(sems[u].owners[o])
  \/ /\ Balance(o, u)' = Balance(o, u) /\ sems'[u].owners[o] = Less(sems[u].owners[o])
     /\ Settles(o, u, "Increment") \/ (hb.pc = "increments" /\ hb.o = o)
  \/ /\ Balance(o, u)' = Balance(o, u) /\ sems'[u].owners[o] = sems[u].owners[o] + 1
     /\ Settles(o, u, "Decrement")
  \/ /\ Balance(o, u)' = Balance(o, u) - 1 /\ sems'[u].owners[o] = sems[u].owners[o]
     /\ Settles(o, u, "Decrement")
  \/ /\ Balance(o, u)' = Balance(o, u) + 1 /\ sems'[u].owners[o] = sems[u].owners[o]
     /\ Settles(o, u, "Increment")
  \/ Balance(o, u)' = 0 /\ ~up'[o] /\ sems'[u].owners[o] = sems[u].owners[o]

LEMMA BalanceStep ==
  ASSUME ServerInv, ValueInv, [Next]_vars, ~aborted', NEW o \in Owners, NEW u \in Live'
  PROVE  /\ u \in Live => BalanceMoves(o, u)
         /\ u \notin Live => Balance(o, u)' = 0 /\ sems'[u].owners[o] = 0
<1>1. u \in UUIDs /\ value \in [Owners -> [UUIDs -> Int]] /\ value[o][u] \in Int
  BY DEF Live, ServerInv, TypeOK, ClientTypeOK
<1>2. CASE ServerNext /\ UNCHANGED clientVars
  <2>1. ASSUME u \notin Live PROVE Balance(o, u)' = 0 /\ sems'[u].owners[o] = 0
    BY <1>2, <2>1, NewAccount DEF Balance, One
  <2>2. ASSUME u \in Live PROVE BalanceMoves(o, u)
    <3>1. AccountStep(o, u)
      BY <1>2, <2>2, AccountByServer
    <3>2. value'[o][u] = value[o][u]
      BY <1>2 DEF clientVars
    <3>3. Unmoved(o, u) => Balance(o, u)' = Balance(o, u)
      BY <1>1, <3>2 DEF Unmoved, Balance, One
    <3>4. /\ ~Entered(o, u) /\ Entered(o, u)' /\ ~Returned(o, u) /\ ~Returned(o, u)'
            => Balance(o, u)' = Balance(o, u) + 1
      BY <1>1, <3>2 DEF Balance, One
    <3>5. /\ ~Entered(o, u) /\ ~Entered(o, u)' /\ ~Returned(o, u) /\ Returned(o, u)'
            => Balance(o, u)' = Balance(o, u) - 1
      BY <1>1, <3>2 DEF Balance, One
    <3>6. (Entered(o, u)' <=> Entered(o, u)) /\ (Returned(o, u)' <=> Returned(o, u))
            => Balance(o, u)' = Balance(o, u)
      BY <1>1, <3>2 DEF Balance, One
    <3>7. \A m \in PV : LateServed(o, u, m) => Settles(o, u, m)
      BY <1>1, <1>2, SettledByServer DEF Settles
    <3>8. /\ LateServed(o, u, "Increment") => Settles(o, u, "Increment")
          /\ LateServed(o, u, "Decrement") => Settles(o, u, "Decrement")
      BY <3>7 DEF PV
    <3> HIDE DEF Balance
    <3> QED BY <3>1, <3>3, <3>4, <3>5, <3>6, <3>8 DEF AccountStep, BalanceMoves
  <2> QED BY <2>1, <2>2
<1>3. ASSUME NEW p \in Owners, ClientStep(p), UNCHANGED serverVars
      PROVE  u \in Live /\ BalanceMoves(o, u)
  <2>1. u \in Live /\ UNCHANGED sems
    BY <1>3 DEF serverVars, Live
  <2> QED BY <1>1, <1>3, <2>1, BalanceByClient DEF BalanceMoves
<1>4. CASE UNCHANGED vars
  <2>1. u \in Live /\ UNCHANGED <<sems, conn, call, value>>
    BY <1>4 DEF vars, netVars, serverVars, clientVars, Live
  <2>2. conn'[o] = conn[o] /\ value'[o] = value[o] /\ AwaitedCall(o)' = AwaitedCall(o)
    BY <2>1 DEF AwaitedCall
  <2>3. Balance(o, u)' = Balance(o, u)
    BY <1>1, <2>2, SameView
  <2> QED BY <2>1, <2>3 DEF BalanceMoves
<1> QED BY <1>2, <1>3, <1>4 DEF Next, ClientNext

\* What every proof about the clients rests on.
AccountInv == ServerInv /\ ConnInv /\ ValueInv /\ PendInv

LEMMA AccountSafe == Spec => []AccountInv
<1>1. Init => ValueInv
  BY DEF Init, ClientInit, ValueInv, Fresh
<1>2. ServerInv /\ ValueInv /\ [Next]_vars => ValueInv'
  BY ValueStep
<1>3. ServerInv /\ PendInv /\ [Next]_vars => PendInv'
  BY PendStep
<1>4. ServerInv /\ PollInv /\ ValueInv /\ PendInv => AccountInv
  BY DEF AccountInv, PollInv
<1> QED BY <1>1, <1>2, <1>3, <1>4, PendBegins, ServerSafe, PollSafe, PTL DEF Spec

LEMMA BalanceTypes ==
  ASSUME ServerInv, NEW o \in Owners
  PROVE  /\ \A u \in UUIDs : value[o][u] \in Int /\ Balance(o, u) \in Int
         /\ \A u \in Live : sems[u].owners[o] \in Nat
<1>1. value \in [Owners -> [UUIDs -> Int]]
  BY DEF ServerInv, TypeOK, ClientTypeOK
<1>2. \A u \in UUIDs : value[o][u] \in Int /\ Balance(o, u) \in Int
  BY <1>1 DEF Balance, One
<1> QED BY <1>2, CountTypes

LEMMA StillRunning == ServerInv /\ [Next]_vars /\ ~aborted' => ~aborted
<1>1. ServerNext /\ ~aborted' => ~aborted
  BY DEF ServerNext, Refuse, serverVars
<1> QED BY <1>1 DEF Next, vars, serverVars

-----------------------------------------------------------------------------
(* Heartbeats a client failed. *)

\* The heartbeat is about to take back what o has.
Taking(o) == hb.pc \in {"disconnect", "increments"} /\ hb.o = o

\* It turns against a client that failed three times, and not before.
MissedInv ==
  \A o \in Owners : /\ missed[o] < 3 => ohbcount[o] = missed[o]
                    /\ Taking(o) => missed[o] = 3

LEMMA CountsOn == ASSUME NEW n \in 0..2 PROVE OneMore(n) = n + 1
<1>1. HBWrap \in Nat /\ HBWrap > 3
  BY ServerAssumption
<1>2. n + 1 \in 0..(HBWrap - 1)
  BY <1>1
<1> QED BY <1>1, <1>2 DEF OneMore

LEMMA MissedStep ==
  ASSUME ServerInv, MissedInv, [Next]_vars, NEW o \in Owners
  PROVE  /\ missed'[o] < 3 => ohbcount'[o] = missed'[o]
         /\ Taking(o)' => missed'[o] = 3
         /\ ~aborted' => missed[o] <= missed'[o]
<1>1. /\ ServerTypeOK /\ missed \in [Owners -> 0..3] /\ DOMAIN ohbcount = Owners
  BY DEF ServerInv, TypeOK, ServerTypeOK
<1>2. missed[o] < 3 => ohbcount[o] = missed[o]
  BY DEF MissedInv
<1>3. Taking(o) => missed[o] = 3
  BY DEF MissedInv
<1>4. ASSUME UNCHANGED <<ohbcount, missed>>, Taking(o)' => Taking(o)
      PROVE  /\ missed'[o] < 3 => ohbcount'[o] = missed'[o]
             /\ Taking(o)' => missed'[o] = 3
             /\ missed[o] <= missed'[o]
  BY <1>1, <1>2, <1>3, <1>4
<1>5. \A h, p : Scanned(h, p).pc \in {"sleep", "scan"}
  BY DEF Scanned, SleepHB
<1>6. CASE HeartbeatStep
  <2>1. CASE ScanStart
    <3>1. hb' = hb \/ hb'.pc = "scan"
      BY <1>1, <2>1 DEF ScanStart, ServerTypeOK
    <3>2. UNCHANGED <<ohbcount, missed>>
      BY <2>1 DEF ScanStart
    <3> QED BY <1>4, <3>1, <3>2 DEF Taking
  <2>2. ASSUME NEW p \in Owners, ScanDead(p)
        PROVE  /\ missed'[o] < 3 => ohbcount'[o] = missed'[o]
               /\ Taking(o)' => missed'[o] = 3
               /\ missed[o] <= missed'[o]
    <3>1. /\ missed'[o] = IF o # p THEN missed[o] ELSE IF missed[p] < 3 THEN missed[p] + 1 ELSE 3
          /\ ohbcount'[o] = IF o # p THEN ohbcount[o] ELSE OneMore(ohbcount[p])
      BY <1>1, <2>2 DEF ScanDead
    <3>2. \/ hb' = Scanned(hb, p) /\ ~TooMany(OneMore(ohbcount[p]))
          \/ hb' = [hb EXCEPT !.pc = "disconnect", !.o = p] /\ TooMany(OneMore(ohbcount[p]))
      BY <2>2 DEF ScanDead
    <3>3. Taking(o)' => p = o /\ TooMany(OneMore(ohbcount[p]))
      BY <1>1, <1>5, <3>2 DEF Taking, ServerTypeOK
    <3>4. CASE p # o
      BY <1>1, <1>2, <3>1, <3>3, <3>4
    <3>5. CASE p = o /\ missed[o] = 3
      BY <1>1, <3>1, <3>5
    <3>6. CASE p = o /\ missed[o] < 3
      <4>1. missed[o] \in 0..2 /\ ohbcount[o] = missed[o]
        BY <1>1, <1>2, <3>6
      <4>2. OneMore(ohbcount[o]) = missed[o] + 1
        BY <4>1, CountsOn
      <4> QED BY <3>1, <3>3, <3>6, <4>1, <4>2 DEF TooMany
    <3> QED BY <1>1, <3>4, <3>5, <3>6
  <2>3. CASE DisconnectLock \/ DisconnectIncrement \/ \E u \in UUIDs : DisconnectCopy(u)
    <3>1. hb'.o = hb.o /\ hb.pc \in {"disconnect", "increments"}
      BY <1>1, <2>3 DEF DisconnectLock, DisconnectIncrement, DisconnectCopy, ServerTypeOK
    <3>2. UNCHANGED <<ohbcount, missed>>
      BY <2>3 DEF DisconnectLock, DisconnectIncrement, DisconnectCopy
    <3> QED BY <1>4, <3>1, <3>2 DEF Taking
  <2>4. CASE DisconnectDone \/ \E p \in Owners : ScanAlive(p)
    <3>1. hb'.pc \in {"sleep", "scan"} /\ UNCHANGED <<ohbcount, missed>>
      BY <1>5, <2>4 DEF DisconnectDone, ScanAlive
    <3> QED BY <1>4, <3>1 DEF Taking
  <2> QED BY <1>6, <2>1, <2>2, <2>3, <2>4 DEF HeartbeatStep
<1>7. ASSUME NEW c \in Calls, HandlerStep(c)
      PROVE  /\ missed'[o] < 3 => ohbcount'[o] = missed'[o]
             /\ Taking(o)' => missed'[o] = 3
             /\ ~aborted' => missed[o] <= missed'[o]
  <2>1. CASE DanglingAbort(c)
    <3>1. aborted' /\ hb'.pc = "sleep" /\ missed'[o] = 0 /\ ohbcount'[o] = 0
      BY <2>1 DEF DanglingAbort, SleepHB
    <3> QED BY <3>1 DEF Taking
  <2>2. CASE ~DanglingAbort(c)
    <3>1. UNCHANGED <<hb, ohbcount, missed>>
      BY <1>7, <2>2 DEF HandlerStep, Accept, Create, Delete, Dump, LookUp, CheckFails,
         CheckDecrement, CheckIncrement, Enter, Wake, DanglingReturn, serverVars
    <3> QED BY <1>4, <3>1 DEF Taking
  <2> QED BY <2>1, <2>2
<1>8. CASE UNCHANGED serverVars
  BY <1>4, <1>8 DEF serverVars, Taking
<1> QED BY <1>6, <1>7, <1>8 DEF Next, ServerNext, Refuse, vars

LEMMA MissedSafe == Spec => []MissedInv
<1>1. Init => MissedInv
  BY DEF Init, ServerInit, MissedInv, Taking, SleepHB
<1>2. ServerInv /\ MissedInv /\ [Next]_vars => MissedInv'
  <2> SUFFICES ASSUME ServerInv, MissedInv, [Next]_vars, NEW o \in Owners
               PROVE  /\ missed'[o] < 3 => ohbcount'[o] = missed'[o]
                      /\ Taking(o)' => missed'[o] = 3
    BY DEF MissedInv
  <2> QED BY MissedStep
<1> QED BY <1>1, <1>2, ServerSafe, PTL DEF Spec

-----------------------------------------------------------------------------
(* Units that are counted on. *)

\* A client that did not fail three heartbeats has the entries it could work out, but
\* for Increments it gave up.
LowInv ==
  ~aborted =>
    \A o \in Owners : missed[o] < 3 =>
      \A u \in Live : Balance(o, u) <= sems[u].owners[o] + Settled(o, u, "Increment")

LEMMA LowStep ==
  ASSUME AccountInv, AccountInv', MissedInv, LowInv, [Next]_vars
  PROVE  LowInv'
<1> SUFFICES ASSUME ~aborted', NEW o \in Owners, missed'[o] < 3, NEW u \in Live'
             PROVE  Balance(o, u)' <= sems'[u].owners[o] + Settled(o, u, "Increment")'
  BY DEF LowInv
<1>1. ServerInv /\ ValueInv /\ ServerInv' /\ ~aborted
  BY StillRunning DEF AccountInv
<1>2. missed[o] < 3 /\ ~Taking(o)
  <2>1. missed[o] \in 0..3 /\ missed'[o] \in 0..3
    BY <1>1 DEF ServerInv, TypeOK, ServerTypeOK
  <2>2. missed[o] <= missed'[o]
    BY <1>1, MissedStep
  <2> QED BY <2>1, <2>2 DEF MissedInv
<1>3. u \in UUIDs /\ "Increment" \in PV
  BY DEF Live, PV
<1>4. /\ Settled(o, u, "Increment") \in Int /\ Settled(o, u, "Increment")' \in Int
      /\ Settled(o, u, "Increment")' >= Settled(o, u, "Increment")
      /\ Settled(o, u, "Increment")' >= 0
  <2>1. Settled(o, u, "Increment")' >= 0
    BY <1>3 DEF AccountInv, PendInv
  <2> QED BY <1>1, <1>3, <2>1, SettledStep, SettledTypes
<1>5. /\ u \in Live => BalanceMoves(o, u)
      /\ u \notin Live => Balance(o, u)' = 0 /\ sems'[u].owners[o] = 0
  BY <1>1, BalanceStep
<1>6. CASE u \in Live
  <2>1. Balance(o, u) <= sems[u].owners[o] + Settled(o, u, "Increment")
    BY <1>1, <1>2, <1>6 DEF LowInv
  <2>2. ~(hb.pc = "increments" /\ hb.o = o)
    BY <1>2 DEF Taking
  <2>3. Balance(o, u) \in Int /\ sems[u].owners[o] \in Nat
    BY <1>1, <1>3, <1>6, BalanceTypes
  <2>4. \/ /\ Balance(o, u)' \in {0, Balance(o, u) - 1, Balance(o, u)}
           /\ sems'[u].owners[o] \in {sems[u].owners[o], sems[u].owners[o] + 1}
        \/ /\ Balance(o, u)' = Balance(o, u) + 1
           /\ sems'[u].owners[o] = sems[u].owners[o] + 1
        \/ /\ Balance(o, u)' = Balance(o, u) - 1
           /\ sems'[u].owners[o] = Less(sems[u].owners[o])
        \/ /\ Balance(o, u)' = Balance(o, u)
           /\ sems'[u].owners[o] = Less(sems[u].owners[o])
           /\ Settled(o, u, "Increment")' >= Settled(o, u, "Increment") + 1
        \/ /\ Balance(o, u)' = Balance(o, u) + 1
           /\ sems'[u].owners[o] = sems[u].owners[o]
           /\ Settled(o, u, "Increment")' >= Settled(o, u, "Increment") + 1
    BY <1>5, <1>6, <2>2 DEF BalanceMoves, Settles
  <2> QED BY <1>4, <2>1, <2>3, <2>4 DEF Less
<1>7. CASE u \notin Live
  BY <1>4, <1>5, <1>7
<1> QED BY <1>6, <1>7

LEMMA LowSafe == Spec => []LowInv
<1>1. Init => LowInv
  BY NothingLives DEF LowInv
<1>2. AccountInv /\ AccountInv' /\ MissedInv /\ LowInv /\ [Next]_vars => LowInv'
  BY LowStep
<1> QED BY <1>1, <1>2, AccountSafe, MissedSafe, PTL DEF Spec

\* What a client believes and may count on, from what it could work out.
LEMMA ClaimedIs ==
  ASSUME ServerInv, NEW o \in Owners, NEW u \in UUIDs
  PROVE  /\ Claimed(o, u) \in Nat /\ Believed(o, u) \in Nat
         /\ ~up[o] => Claimed(o, u) = 0
         /\ Claimed(o, u) > 0 => Claimed(o, u) + One(Entered(o, u)) <= Balance(o, u)
         /\ Balance(o, u) <= Believed(o, u) + One(Entered(o, u)) \/ ~up[o]
<1>1. value[o][u] \in Int
  BY BalanceTypes
<1>2. Returned(o, u) => Releasing(o, u)
  BY DEF Returned
<1>3. /\ Believed(o, u) \in Nat
      /\ ~up[o] => Believed(o, u) = 0
      /\ up[o] => Believed(o, u) >= 0 - value[o][u]
      /\ Believed(o, u) > 0 => Believed(o, u) = 0 - value[o][u]
  BY <1>1 DEF Believed
<1>4. Claimed(o, u) = IF Believed(o, u) > 0 /\ Releasing(o, u) THEN Believed(o, u) - 1
                      ELSE Believed(o, u)
  BY <1>3 DEF Claimed
<1>5. Balance(o, u) = One(Entered(o, u)) - One(Returned(o, u)) - value[o][u]
  BY DEF Balance
<1>6. One(Entered(o, u)) \in {0, 1} /\ One(Returned(o, u)) = (IF Returned(o, u) THEN 1 ELSE 0)
  BY DEF One
<1>7. Claimed(o, u) \in Nat /\ (~up[o] => Claimed(o, u) = 0)
  BY <1>3, <1>4
<1>8. Claimed(o, u) > 0 => Claimed(o, u) + One(Entered(o, u)) <= Balance(o, u)
  BY <1>1, <1>2, <1>3, <1>4, <1>5, <1>6
<1>9. Balance(o, u) <= Believed(o, u) + One(Entered(o, u)) \/ ~up[o]
  BY <1>1, <1>3, <1>5, <1>6
<1> QED BY <1>3, <1>7, <1>8, <1>9

\* What is settled was lost.
LEMMA SettledLost ==
  ASSUME ServerInv, NEW o \in Owners, NEW u \in UUIDs
  PROVE  /\ lostP[o][u] \in Nat /\ lostV[o][u] \in Nat
         /\ Settled(o, u, "Decrement") \in Int /\ Settled(o, u, "Increment") \in Int
         /\ Settled(o, u, "Decrement") <= lostP[o][u]
         /\ Settled(o, u, "Increment") <= lostV[o][u]
<1>1. "Decrement" \in PV /\ "Increment" \in PV
  BY DEF PV
<1>2. \A m \in PV : /\ Lost(o, u, m) \in Nat /\ Settled(o, u, m) \in Int
                    /\ Cardinality(Late(o, u, m)) \in Nat
                    /\ Settled(o, u, m) = Lost(o, u, m) - Cardinality(Late(o, u, m))
  BY SettledTypes, LateFinite DEF Settled
<1>3. Lost(o, u, "Decrement") = lostP[o][u] /\ Lost(o, u, "Increment") = lostV[o][u]
  BY DEF Lost
<1>4. Settled(o, u, "Decrement") <= Lost(o, u, "Decrement")
  BY <1>1, <1>2
<1>5. Settled(o, u, "Increment") <= Lost(o, u, "Increment")
  BY <1>1, <1>2
<1> QED BY <1>1, <1>2, <1>3, <1>4, <1>5

\* A unit that a client counts on is in its name in the server, whatever the other
\* clients do or fail to do, until it fails its third heartbeat, but for the Increments
\* whose answers it missed.
THEOREM CountedOnIsListed == Spec => []BelievedListed
<1>1. AccountInv /\ LowInv => BelievedListed
  <2> SUFFICES ASSUME AccountInv, LowInv, NEW u \in Live, NEW o \in Owners, missed[o] < 3
               PROVE  Claimed(o, u) <= sems[u].owners[o] + lostV[o][u]
    BY DEF BelievedListed
  <2>1. ServerInv /\ u \in UUIDs
    BY DEF AccountInv, Live
  <2>2. /\ Claimed(o, u) \in Nat /\ Balance(o, u) \in Int /\ sems[u].owners[o] \in Nat
        /\ lostV[o][u] \in Nat /\ Settled(o, u, "Increment") \in Int
        /\ Settled(o, u, "Increment") <= lostV[o][u]
    BY <2>1, ClaimedIs, BalanceTypes, SettledLost
  <2>3. ~aborted
    BY <2>1 DEF ServerInv, AbortInv, Live, Deleted
  <2>4. CASE Claimed(o, u) = 0
    BY <2>2, <2>4
  <2>5. CASE Claimed(o, u) > 0
    <3>1. Claimed(o, u) + One(Entered(o, u)) <= Balance(o, u)
      BY <2>1, <2>5, ClaimedIs
    <3>2. Balance(o, u) <= sems[u].owners[o] + Settled(o, u, "Increment")
      BY <2>3 DEF LowInv
    <3>3. One(Entered(o, u)) \in {0, 1}
      BY DEF One
    <3> QED BY <2>2, <3>1, <3>2, <3>3
  <2> QED BY <2>2, <2>4, <2>5
<1> QED BY <1>1, AccountSafe, LowSafe, PTL

-----------------------------------------------------------------------------
(* Clients that give back no more than they got. *)

\* What o still means to give back of u in its SafeExit.
Owing(o, u) == IF exiting[o].on /\ exiting[o].at = u THEN exiting[o].left ELSE 0

\* No client gives back, or is about to, more than it was granted.
SurplusInv ==
  ~aborted =>
    \A o \in Owners, u \in UUIDs :
      Owing(o, u) + value[o][u] + One(Releasing(o, u)) <= 0

LEMMA SurplusTypes ==
  ASSUME ServerInv, NEW o \in Owners, NEW u \in UUIDs
  PROVE  value[o][u] \in Int /\ Owing(o, u) \in Nat /\ One(Releasing(o, u)) \in {0, 1}
BY DEF ServerInv, TypeOK, ClientTypeOK, Owing, One

LEMMA SurplusByServer ==
  ASSUME AccountInv, SurplusInv, ServerNext, UNCHANGED clientVars, ~aborted'
  PROVE  SurplusInv'
<1>1. ServerInv /\ ConnInv
  BY DEF AccountInv
<1>2. ~aborted /\ conn' = conn /\ value' = value /\ exiting' = exiting
  BY <1>1, ServerCases DEF clientVars, ServerNext, Refuse, serverVars
<1>3. ASSUME NEW o \in Owners, NEW u \in UUIDs, Releasing(o, u)' PROVE Releasing(o, u)
  <2>1. conn[o] # 0
    BY <1>2, <1>3 DEF Releasing, Awaits
  <2>2. PICK d \in Calls : d = <<o, conn[o]>> /\ Awaited(d) /\ AwaitedCall(o) = call[d]
    BY <1>1, <2>1, AwaitedIs
  <2>3. AwaitedCall(o)' = call'[d]
    BY <1>2, <2>2 DEF AwaitedCall
  <2>4. call[d].pc # "free"
    BY <1>1, <1>2, <2>1, <2>2 DEF ConnInv
  <2>5. call'[d].method = "Increment" /\ call'[d].uuid = u
    BY <1>3, <2>3 DEF Releasing, Awaits
  <2>6. \/ call'[d] = call[d]
        \/ /\ call'[d].method = call[d].method
           /\ call[d].method # "Create" => call'[d].uuid = call[d].uuid
    BY <1>1, <2>2, <2>4, AwaitedKept, ServerCases
  <2> QED BY <2>1, <2>2, <2>5, <2>6 DEF Releasing, Awaits
<1>4. ASSUME NEW o \in Owners, NEW u \in UUIDs
      PROVE  (Owing(o, u) + value[o][u] + One(Releasing(o, u)))' <= 0
  <2>1. Owing(o, u) + value[o][u] + One(Releasing(o, u)) <= 0
    BY <1>2 DEF SurplusInv
  <2>2. Owing(o, u)' = Owing(o, u) /\ value'[o][u] = value[o][u]
    BY <1>2 DEF Owing
  <2>3. One(Releasing(o, u))' \in {0, 1} /\ One(Releasing(o, u))' <= One(Releasing(o, u))
    BY <1>3 DEF One
  <2>4. value[o][u] \in Int /\ Owing(o, u) \in Nat /\ One(Releasing(o, u)) \in {0, 1}
    BY <1>1, SurplusTypes
  <2> QED BY <2>1, <2>2, <2>3, <2>4
<1> QED BY <1>4 DEF SurplusInv

LEMMA SurplusByClient ==
  ASSUME MaxExtra = 0, AccountInv, SurplusInv, NEW p \in Owners, ClientStep(p),
         UNCHANGED serverVars, ~aborted'
  PROVE  SurplusInv'
<1> SUFFICES ASSUME NEW o \in Owners, NEW u \in UUIDs
             PROVE  (Owing(o, u) + value[o][u] + One(Releasing(o, u)))' <= 0
  BY DEF SurplusInv
<1>1. ServerInv /\ ConnInv /\ ~aborted
  BY DEF AccountInv, serverVars
<1>2. /\ conn \in [Owners -> {0} \cup Slots] /\ call \in [Calls -> CallType]
      /\ value \in [Owners -> [UUIDs -> Int]] /\ ClientTypeOK
  BY <1>1, NetType DEF ServerInv, TypeOK, ClientTypeOK
<1>3. Owing(o, u) + value[o][u] + One(Releasing(o, u)) <= 0
  BY <1>1 DEF SurplusInv
<1>4. value[o][u] \in Int /\ Owing(o, u) \in Nat /\ One(Releasing(o, u)) \in {0, 1}
  BY <1>1, SurplusTypes
<1>5. /\ conn[o] = 0 => One(Releasing(o, u)) = 0
      /\ conn'[o] = 0 => One(Releasing(o, u))' = 0
  BY DEF Releasing, Awaits, One
<1>6. CASE p # o
  <2>1. Releasing(o, u)' <=> Releasing(o, u)
    BY <1>1, <1>6, OtherClient DEF Releasing, Awaits
  <2>2. Owing(o, u)' = Owing(o, u) /\ value'[o][u] = value[o][u]
    BY <1>1, <1>6, OtherClient DEF Owing
  <2> QED BY <1>3, <1>4, <2>1, <2>2 DEF One
<1>7. CASE GetAnswer(o)
  <2>1. /\ conn[o] # 0 /\ conn'[o] = 0
        /\ value'[o][u] = IF AwaitedCall(o).pc = "ok" /\ AwaitedCall(o).uuid = u
                          THEN CASE AwaitedCall(o).method = "Decrement" -> value[o][u] - 1
                                 [] AwaitedCall(o).method = "Increment" -> value[o][u] + 1
                                 [] OTHER -> value[o][u]
                          ELSE value[o][u]
    BY <1>1, <1>7, AnswerValue
  <2>2. /\ value'[o][u] \in Int
        /\ value'[o][u] <= value[o][u] + One(Releasing(o, u))
    <3>1. CASE Releasing(o, u)
      BY <1>4, <2>1, <3>1 DEF One
    <3>2. CASE ~Releasing(o, u)
      <4>1. ~(AwaitedCall(o).uuid = u /\ AwaitedCall(o).method = "Increment")
        BY <2>1, <3>2 DEF Releasing, Awaits
      <4> QED BY <1>4, <2>1, <3>2, <4>1 DEF One
    <3> QED BY <3>1, <3>2
  <2>3. Owing(o, u)' = Owing(o, u)
    BY <1>7 DEF GetAnswer, Owing
  <2> QED BY <1>3, <1>4, <1>5, <2>1, <2>2, <2>3
<1>8. CASE CallThrows(o)
  <2>1. conn'[o] = 0 /\ value' = value /\ exiting'[o] = NotExiting
    BY <1>2, <1>8, AbandonCall DEF CallThrows, ClientTypeOK
  <2>2. Owing(o, u)' = 0
    BY <2>1 DEF Owing, NotExiting
  <2> QED BY <1>3, <1>4, <1>5, <2>1, <2>2
<1>9. CASE Crash(o) \/ ExitDone(o)
  <2>1. conn'[o] = 0
    BY <1>2, <1>9, AbandonCall DEF Crash, ExitDone
  <2>2. value'[o] = Fresh /\ exiting'[o] = NotExiting
    BY <1>2, <1>9 DEF Crash, ExitDone, ClientTypeOK
  <2>3. value'[o][u] = 0 /\ exiting'[o] = NotExiting
    BY <2>2 DEF Fresh
  <2>4. Owing(o, u)' = 0
    BY <2>3 DEF Owing, NotExiting
  <2> QED BY <1>5, <2>1, <2>3, <2>4
<1>10. CASE Quit(o)
  <2>1. UNCHANGED <<conn, call, value>> /\ conn[o] = 0
    BY <1>10 DEF Quit, netVars, AtPrompt
  <2>2. exiting'[o].left = 0
    BY <1>2, <1>10 DEF Quit, ClientTypeOK, NotExiting
  <2>3. Owing(o, u)' = 0
    BY <2>2 DEF Owing
  <2> QED BY <1>3, <1>4, <1>5, <2>1, <2>3
<1>11. ASSUME NEW v \in UUIDs, ExitNext(o, v)
       PROVE  (Owing(o, u) + value[o][u] + One(Releasing(o, u)))' <= 0
  <2>1. UNCHANGED <<conn, call, value>> /\ conn[o] = 0
    BY <1>11 DEF ExitNext, netVars
  <2>2. exiting'[o].at = v /\ exiting'[o].left = Debt(value[o][v])
    BY <1>2, <1>11 DEF ExitNext, ClientTypeOK
  <2>3. Owing(o, u)' \in Nat /\ Owing(o, u)' <= 0 - value[o][u]
    <3>1. value[o][u] <= 0
      BY <1>3, <1>4
    <3>2. Owing(o, u)' = 0 \/ Owing(o, u)' = Debt(value[o][u])
      BY <2>2 DEF Owing
    <3> QED BY <1>4, <3>1, <3>2 DEF Debt
  <2> QED BY <1>4, <1>5, <2>1, <2>3
<1>12. ASSUME NEW m \in Methods, NEW v \in UUIDs \cup {NoUUID}, Send(o, m, v)
       PROVE  /\ conn[o] = 0 /\ value' = value
              /\ Releasing(o, u)' <=> m = "Increment" /\ v = u
  <2>1. PICK i \in Slots : Opened(o, m, v, i)
    BY <1>2, <1>12, SendCall, Zenon
  <2>2. conn[o] = 0 /\ conn'[o] = i /\ value' = value /\ i # 0
    BY <1>2, <1>12, <2>1 DEF Opened, Send, Slots
  <2>3. AwaitedCall(o)' = [pc |-> "sent", method |-> m, uuid |-> v]
    BY <2>1, <2>2 DEF Opened, AwaitedCall
  <2> QED BY <2>2, <2>3 DEF Releasing, Awaits
<1>13. ASSUME NEW m \in Methods, NEW v \in UUIDs \cup {NoUUID}, Command(o, m, v)
       PROVE  (Owing(o, u) + value[o][u] + One(Releasing(o, u)))' <= 0
  <2>1. /\ conn[o] = 0 /\ value' = value
        /\ Releasing(o, u)' <=> m = "Increment" /\ v = u
    BY <1>12, <1>13 DEF Command
  <2>2. Owing(o, u)' = 0 /\ (m = "Increment" => value[o][v] < 0)
    BY <1>13 DEF Command, AtPrompt, Owing
  <2> QED BY <1>3, <1>4, <1>5, <2>1, <2>2 DEF One
<1>14. CASE ExitSend(o)
  <2>1. exiting[o].at \in UUIDs /\ "Increment" \in Methods
    BY <1>1, <1>14 DEF ExitSend, ServerInv, ExitAtInv, Methods
  <2>2. /\ conn[o] = 0 /\ value' = value
        /\ Releasing(o, u)' <=> exiting[o].at = u
    BY <1>12, <1>14, <2>1 DEF ExitSend
  <2>3. /\ exiting[o].on /\ exiting[o].left \in Nat
        /\ exiting'[o].on /\ exiting'[o].at = exiting[o].at
        /\ exiting'[o].left = exiting[o].left - 1
    BY <1>2, <1>14 DEF ExitSend, ClientTypeOK
  <2> QED BY <1>3, <1>4, <1>5, <2>2, <2>3 DEF Owing, One
<1>15. CASE Restart(o)
  <2>1. UNCHANGED <<conn, call, value, exiting>>
    BY <1>15 DEF Restart, clientVars
  <2> QED BY <1>3, <2>1 DEF Owing, Releasing, Awaits, AwaitedCall
<1> QED BY <1>6, <1>7, <1>8, <1>9, <1>10, <1>11, <1>13, <1>14, <1>15 DEF ClientStep

LEMMA SurplusSafe == ASSUME MaxExtra = 0 PROVE Spec => []SurplusInv
<1>1. Init => SurplusInv
  <2> SUFFICES ASSUME Init, NEW o \in Owners, NEW u \in UUIDs
               PROVE  Owing(o, u) + value[o][u] + One(Releasing(o, u)) <= 0
    BY DEF SurplusInv
  <2>1. value[o][u] = 0 /\ ~Releasing(o, u) /\ Owing(o, u) = 0
    BY DEF Init, NetInit, ClientInit, Fresh, NotExiting, Releasing, Awaits, Owing
  <2> QED BY <2>1 DEF One
<1>2. AccountInv /\ SurplusInv /\ [Next]_vars => SurplusInv'
  <2> SUFFICES ASSUME AccountInv, SurplusInv, [Next]_vars PROVE SurplusInv'
    OBVIOUS
  <2>1. CASE aborted'
    BY <2>1 DEF SurplusInv
  <2>2. CASE UNCHANGED vars
    BY <2>2 DEF vars, netVars, serverVars, clientVars, SurplusInv, Owing, Releasing, Awaits,
                AwaitedCall
  <2> QED BY <2>1, <2>2, SurplusByServer, SurplusByClient DEF Next, ClientNext
<1> QED BY <1>1, <1>2, AccountSafe, PTL DEF Spec

\* Nothing is in the name of a client that is alive and was never restarted that it could
\* not work out, but for Decrements it gave up.
KnownInv ==
  ~aborted =>
    \A o \in Owners : up[o] /\ "restart" \notin Faults[o] =>
      \A u \in Live : sems[u].owners[o] <= Balance(o, u) + Settled(o, u, "Decrement")

\* Nobody comes back who does not restart.
LEMMA UpBefore ==
  ASSUME ServerInv, [Next]_vars, NEW o \in Owners, "restart" \notin Faults[o], up'[o]
  PROVE  up[o]
<1>1. up \in [Owners -> BOOLEAN]
  BY NetType DEF ServerInv, TypeOK
<1>2. CASE UNCHANGED up
  BY <1>2
<1>3. ASSUME NEW p \in Owners, ClientStep(p) PROVE up[o]
  <2>1. CASE Crash(p) \/ ExitDone(p)
    BY <1>1, <2>1 DEF Crash, ExitDone
  <2>2. CASE Restart(p)
    BY <1>1, <2>2 DEF Restart
  <2> QED BY <1>2, <1>3, <2>1, <2>2 DEF ClientStep, Command, Send, GetAnswer, CallThrows,
             Quit, ExitNext, ExitSend, netVars
<1> QED BY <1>2, <1>3, ServerCases DEF Next, ClientNext, vars, netVars

LEMMA KnownStep ==
  ASSUME AccountInv, AccountInv', SurplusInv', KnownInv, [Next]_vars
  PROVE  KnownInv'
<1> SUFFICES ASSUME ~aborted', NEW o \in Owners, up'[o], "restart" \notin Faults[o],
                    NEW u \in Live'
             PROVE  sems'[u].owners[o] <= Balance(o, u)' + Settled(o, u, "Decrement")'
  BY DEF KnownInv
<1>1. ServerInv /\ ValueInv /\ ServerInv' /\ ~aborted
  BY StillRunning DEF AccountInv
<1>2. up[o]
  BY <1>1, UpBefore
<1>3. u \in UUIDs /\ "Decrement" \in PV
  BY DEF Live, PV
<1>4. /\ Settled(o, u, "Decrement") \in Int /\ Settled(o, u, "Decrement")' \in Int
      /\ Settled(o, u, "Decrement")' >= Settled(o, u, "Decrement")
      /\ Settled(o, u, "Decrement")' >= 0
  <2>1. Settled(o, u, "Decrement")' >= 0
    BY <1>3 DEF AccountInv, PendInv
  <2> QED BY <1>1, <1>3, <2>1, SettledStep, SettledTypes
<1>5. /\ u \in Live => BalanceMoves(o, u)
      /\ u \notin Live => Balance(o, u)' = 0 /\ sems'[u].owners[o] = 0
  BY <1>1, BalanceStep
<1>6. CASE u \in Live
  <2>1. sems[u].owners[o] <= Balance(o, u) + Settled(o, u, "Decrement")
    BY <1>1, <1>2, <1>6 DEF KnownInv
  <2>2. Balance(o, u) \in Int /\ sems[u].owners[o] \in Nat
    BY <1>1, <1>3, <1>6, BalanceTypes
  <2>3. Balance(o, u)' >= 0
    <3>1. (Owing(o, u) + value[o][u] + One(Releasing(o, u)))' <= 0
      BY <1>3 DEF SurplusInv
    <3>2. /\ value'[o][u] \in Int /\ Owing(o, u)' \in Nat
          /\ One(Releasing(o, u))' \in {0, 1}
      BY <1>1, <1>3 DEF ServerInv, TypeOK, ClientTypeOK, Owing, One
    <3>3. Returned(o, u)' => Releasing(o, u)'
      BY DEF Returned
    <3>4. One(Returned(o, u))' <= One(Releasing(o, u))' /\ One(Returned(o, u))' \in {0, 1}
          /\ One(Entered(o, u))' \in {0, 1}
      BY <3>3 DEF One
    <3> QED BY <3>1, <3>2, <3>4 DEF Balance
  <2> QED BY <1>4, <1>5, <1>6, <2>1, <2>2, <2>3 DEF BalanceMoves, Less, Settles
<1>7. CASE u \notin Live
  BY <1>4, <1>5, <1>7
<1> QED BY <1>6, <1>7

LEMMA KnownSafe == ASSUME MaxExtra = 0 PROVE Spec => []KnownInv
<1>1. Init => KnownInv
  BY NothingLives DEF KnownInv
<1>2. AccountInv /\ AccountInv' /\ SurplusInv' /\ KnownInv /\ [Next]_vars => KnownInv'
  BY KnownStep
<1>3. Spec => []SurplusInv
  BY SurplusSafe
<1> QED BY <1>1, <1>2, <1>3, AccountSafe, PTL DEF Spec

\* Nothing is in the name of a living client that it does not know of, but for what it
\* asks for and for Decrements whose answers it missed, as long as its user gives back
\* no more than was granted.
THEOREM ListedIsKnown == ASSUME MaxExtra = 0 PROVE Spec => []ListedBelieved
<1>1. AccountInv /\ KnownInv => ListedBelieved
  <2> SUFFICES ASSUME AccountInv, KnownInv, NEW u \in Live, NEW o \in Owners,
                      up[o], "restart" \notin Faults[o]
               PROVE  sems[u].owners[o] <= Believed(o, u) + (IF Asked(o, u) THEN 1 ELSE 0)
                                             + lostP[o][u]
    BY DEF ListedBelieved
  <2>1. ServerInv /\ u \in UUIDs
    BY DEF AccountInv, Live
  <2>2. ~aborted
    BY <2>1 DEF ServerInv, AbortInv, Live, Deleted
  <2>3. /\ sems[u].owners[o] \in Nat /\ Balance(o, u) \in Int /\ Believed(o, u) \in Nat
        /\ Balance(o, u) <= Believed(o, u) + One(Entered(o, u))
        /\ lostP[o][u] \in Nat /\ Settled(o, u, "Decrement") \in Int
        /\ Settled(o, u, "Decrement") <= lostP[o][u]
    BY <2>1, BalanceTypes, ClaimedIs, SettledLost
  <2>4. sems[u].owners[o] <= Balance(o, u) + Settled(o, u, "Decrement")
    BY <2>2 DEF KnownInv
  <2>5. One(Entered(o, u)) \in {0, 1} /\ (One(Entered(o, u)) = 1 => Asked(o, u))
    BY DEF One, Entered
  <2>6. CASE Asked(o, u)
    BY <2>3, <2>4, <2>5, <2>6
  <2>7. CASE ~Asked(o, u)
    BY <2>3, <2>4, <2>5, <2>7
  <2> QED BY <2>6, <2>7
<1>2. Spec => []KnownInv
  BY KnownSafe
<1> QED BY <1>1, <1>2, AccountSafe, PTL

-----------------------------------------------------------------------------
(* SafeExit. *)

\* What may still be in the name of a client that means to give it back: what it has
\* not sent, what is on its way, and Decrements it gave up.
Due(o, u) == Owing(o, u) + One(Returning(o, u)) + Settled(o, u, "Decrement")

LEMMA DueTypes ==
  ASSUME ServerInv, NEW o \in Owners, NEW u \in UUIDs
  PROVE  /\ Owing(o, u) \in Nat /\ One(Returning(o, u)) \in {0, 1}
         /\ Settled(o, u, "Decrement") \in Int /\ Due(o, u) \in Int
<1>1. Owing(o, u) \in Nat /\ Settled(o, u, "Decrement") \in Int
  BY SurplusTypes, SettledLost
<1>2. One(Returning(o, u)) \in {0, 1}
  BY DEF One
<1> QED BY <1>1, <1>2 DEF Due

\* A client in its SafeExit has no more left of the semaphores it is through with than
\* is due, and waits for nothing but that.
ExitInv ==
  ~aborted =>
    \A o \in Punctual : exiting[o].on =>
      /\ up[o]
      /\ conn[o] # 0 => /\ AwaitedCall(o).method = "Increment"
                        /\ AwaitedCall(o).uuid = exiting[o].at
      /\ \A u \in Live \ exiting[o].todo :
           sems[u].owners[o] <= Due(o, u)

LEMMA ExitByServer ==
  ASSUME AccountInv, AccountInv', ServerNext, UNCHANGED clientVars, ~aborted',
         NEW o \in Punctual, exiting[o].on, up[o],
         conn[o] # 0 => /\ AwaitedCall(o).method = "Increment"
                        /\ AwaitedCall(o).uuid = exiting[o].at,
         \A u \in Live \ exiting[o].todo :
           sems[u].owners[o] <= Due(o, u)
  PROVE  /\ conn'[o] # 0 => /\ AwaitedCall(o)'.method = "Increment"
                            /\ AwaitedCall(o)'.uuid = exiting[o].at
         /\ \A u \in Live' \ exiting[o].todo :
              sems'[u].owners[o] <= Due(o, u)'
<1>1. ServerInv /\ ConnInv /\ ValueInv
  BY DEF AccountInv
<1>2. /\ ~aborted /\ UNCHANGED <<up, conn, value, exiting>>
  BY <1>1, ServerCases DEF clientVars, ServerNext, Refuse, serverVars
<1>3. o \in Owners /\ "loss" \notin Faults[o] /\ "restart" \notin Faults[o]
  BY DEF Punctual
<1>4. ASSUME conn'[o] # 0
      PROVE  AwaitedCall(o)'.method = "Increment" /\ AwaitedCall(o)'.uuid = exiting[o].at
  <2>1. PICK d \in Calls : d = <<o, conn[o]>> /\ Awaited(d) /\ AwaitedCall(o) = call[d]
    BY <1>1, <1>2, <1>3, <1>4, AwaitedIs
  <2>2. AwaitedCall(o)' = call'[d]
    BY <1>2, <2>1 DEF AwaitedCall
  <2>3. call[d].pc # "free"
    BY <1>1, <1>2, <1>3, <1>4, <2>1 DEF ConnInv
  <2>4. \/ call'[d] = call[d]
        \/ /\ call'[d].method = call[d].method
           /\ call[d].method # "Create" => call'[d].uuid = call[d].uuid
    BY <1>1, <2>1, <2>3, AwaitedKept, ServerCases
  <2> QED BY <1>2, <1>4, <2>1, <2>2, <2>4
<1>5. ASSUME NEW u \in Live', u \notin exiting[o].todo
      PROVE  sems'[u].owners[o] <= Due(o, u)'
  <2>1. u \in UUIDs /\ "Decrement" \in PV
    BY DEF Live, PV
  <2>2. Owing(o, u)' = Owing(o, u)
    BY <1>2 DEF Owing
  <2>3. /\ Owing(o, u) \in Nat /\ One(Returning(o, u)) \in {0, 1}
        /\ Settled(o, u, "Decrement") \in Int
    BY <1>1, <1>3, <2>1, DueTypes
  <2>4. One(Returning(o, u))' \in {0, 1}
    BY DEF One
  <2>5. /\ Settled(o, u, "Decrement")' \in Int
        /\ Settled(o, u, "Decrement")' >= Settled(o, u, "Decrement")
        /\ LateServed(o, u, "Decrement") =>
             Settled(o, u, "Decrement")' >= Settled(o, u, "Decrement") + 1
    BY <1>1, <1>3, <2>1, SettledByServer
  <2>6. Settled(o, u, "Decrement")' >= 0
    BY <1>3, <2>1 DEF AccountInv, PendInv
  <2>7. Due(o, u)' = Owing(o, u)' + One(Returning(o, u))' + Settled(o, u, "Decrement")'
    BY DEF Due
  <2>8. CASE u \notin Live
    <3>1. sems'[u].owners[o] = 0
      BY <1>1, <1>3, <2>8, NewAccount
    <3> QED BY <2>2, <2>3, <2>4, <2>5, <2>6, <2>7, <3>1
  <2>9. CASE u \in Live
    <3>1. AccountStep(o, u)
      BY <1>1, <1>3, <2>9, AccountByServer
    <3>2. FALSE \notin CheckClient(o)
      BY <1>3 DEF CheckClient
    <3>3. ~Asked(o, u)
      BY DEF Asked, Awaits
    <3>4. sems[u].owners[o] <= Due(o, u) /\ sems[u].owners[o] \in Nat
      BY <1>1, <1>3, <1>5, <2>9, BalanceTypes
    <3>5. \/ (Returning(o, u)' <=> Returning(o, u)) /\ sems'[u].owners[o] = sems[u].owners[o]
          \/ /\ Returning(o, u)' <=> Returning(o, u)
             /\ sems'[u].owners[o] = Less(sems[u].owners[o])
          \/ /\ Returning(o, u)' <=> Returning(o, u)
             /\ sems'[u].owners[o] = sems[u].owners[o] + 1
             /\ LateServed(o, u, "Decrement")
          \/ /\ Returning(o, u) /\ ~Returning(o, u)'
             /\ sems'[u].owners[o] = Less(sems[u].owners[o])
      BY <3>1, <3>2, <3>3 DEF AccountStep, Unmoved
    <3>6. /\ (Returning(o, u)' <=> Returning(o, u)) =>
                One(Returning(o, u))' = One(Returning(o, u))
          /\ ~Returning(o, u)' => One(Returning(o, u))' = 0
          /\ Less(sems[u].owners[o]) = (IF sems[u].owners[o] = 0 THEN 0
                                        ELSE sems[u].owners[o] - 1)
      BY DEF One, Less
    <3>7. sems[u].owners[o] <= Owing(o, u) + One(Returning(o, u)) + Settled(o, u, "Decrement")
      BY <3>4 DEF Due
    <3> QED BY <2>2, <2>3, <2>4, <2>5, <2>6, <2>7, <3>4, <3>5, <3>6, <3>7
  <2> QED BY <2>8, <2>9
<1> QED BY <1>4, <1>5

LEMMA ExitByClient ==
  ASSUME AccountInv, KnownInv, ExitInv, NEW p \in Owners, ClientStep(p),
         UNCHANGED serverVars, ~aborted'
  PROVE  ExitInv'
<1> SUFFICES ASSUME NEW o \in Punctual, exiting'[o].on
             PROVE  /\ up'[o]
                    /\ conn'[o] # 0 => /\ AwaitedCall(o)'.method = "Increment"
                                       /\ AwaitedCall(o)'.uuid = exiting'[o].at
                    /\ \A u \in Live \ exiting'[o].todo :
                         sems[u].owners[o] <= Due(o, u)'
  BY DEF ExitInv, serverVars, Live, Punctual
<1>1. ServerInv /\ ConnInv /\ ~aborted
  BY DEF AccountInv, serverVars
<1>2. /\ conn \in [Owners -> {0} \cup Slots] /\ call \in [Calls -> CallType]
      /\ value \in [Owners -> [UUIDs -> Int]] /\ up \in [Owners -> BOOLEAN]
      /\ ClientTypeOK /\ DOMAIN exiting = Owners
  BY <1>1, NetType DEF ServerInv, TypeOK, ClientTypeOK
<1>3. o \in Owners /\ "restart" \notin Faults[o]
  BY DEF Punctual
<1>4. exiting[o].on =>
        /\ up[o]
        /\ conn[o] # 0 => /\ AwaitedCall(o).method = "Increment"
                          /\ AwaitedCall(o).uuid = exiting[o].at
        /\ \A u \in Live \ exiting[o].todo :
             sems[u].owners[o] <= Due(o, u)
  BY <1>1 DEF ExitInv
<1>5. ASSUME NEW u \in Live
      PROVE  /\ u \in UUIDs /\ sems[u].owners[o] \in Nat /\ value[o][u] \in Int
             /\ Owing(o, u) \in Nat
  BY <1>1, <1>3, BalanceTypes, SurplusTypes DEF Live
<1>6. CASE p # o
  <2>1. /\ conn'[o] = conn[o] /\ up'[o] = up[o] /\ exiting'[o] = exiting[o]
        /\ conn[o] # 0 => AwaitedCall(o)' = AwaitedCall(o)
    BY <1>1, <1>3, <1>6, OtherClient
  <2>2. ASSUME NEW u \in Live PROVE Due(o, u)' = Due(o, u)
    <3>1. (Returning(o, u)' <=> Returning(o, u)) /\ Owing(o, u)' = Owing(o, u)
      BY <2>1 DEF Returning, Releasing, Awaits, Owing
    <3>2. Settled(o, u, "Decrement")' = Settled(o, u, "Decrement")
      BY <1>1, <1>3, <1>5, <1>6, SettledKept DEF PV
    <3> QED BY <3>1, <3>2 DEF Due, One
  <2> QED BY <1>4, <2>1, <2>2
\* What o does to what it gave up, if it neither throws nor dies.
<1>7. ASSUME NEW u \in Live, ~CallThrows(o), ~Crash(o), p = o
      PROVE  Settled(o, u, "Decrement")' = Settled(o, u, "Decrement")
  BY <1>1, <1>3, <1>5, <1>7, SettledKept DEF PV
<1>8. ~CallThrows(o) /\ ~Crash(o) /\ ~ExitDone(o)
  <2>1. exiting' # [exiting EXCEPT ![o] = NotExiting]
    BY <1>2, <1>3 DEF NotExiting
  <2> QED BY <2>1 DEF CallThrows, Crash, ExitDone
<1>9. CASE GetAnswer(o) /\ p = o
  <2>1. /\ conn[o] # 0 /\ conn'[o] = 0 /\ AwaitedCall(o).pc \in Answers
        /\ UNCHANGED <<up, exiting>>
    BY <1>2, <1>3, <1>9, AbandonCall DEF GetAnswer
  <2>2. ASSUME NEW u \in Live PROVE Due(o, u)' = Due(o, u)
    <3>1. ~Returning(o, u) /\ ~Returning(o, u)' /\ Owing(o, u)' = Owing(o, u)
      BY <2>1 DEF Returning, Releasing, Awaits, Owing, Answers
    <3> QED BY <1>9, <1>8, <1>7, <3>1 DEF Due, One
  <2> QED BY <1>4, <2>1, <2>2
<1>10. CASE Quit(o)
  <2>1. UNCHANGED <<up, conn>> /\ up[o] /\ conn[o] = 0 /\ exiting'[o].todo = UUIDs
    BY <1>2, <1>3, <1>10 DEF Quit, netVars, AtPrompt, ClientTypeOK, NotExiting
  <2> QED BY <2>1 DEF Live
<1>11. ASSUME NEW v \in UUIDs, ExitNext(o, v), p = o
       PROVE  /\ up'[o] /\ conn'[o] = 0
              /\ \A u \in Live \ exiting'[o].todo :
                   sems[u].owners[o] <= Due(o, u)'
  <2>1. /\ UNCHANGED <<up, conn, call, value>> /\ conn[o] = 0
        /\ exiting[o].on /\ exiting[o].left = 0
    BY <1>11 DEF ExitNext, netVars
  <2>2. /\ exiting'[o].at = v /\ exiting'[o].left = Debt(value[o][v]) /\ exiting'[o].on
        /\ exiting'[o].todo = exiting[o].todo \ {v}
    BY <1>2, <1>3, <1>11 DEF ExitNext, ClientTypeOK
  <2>3. ASSUME NEW u \in Live, u \notin exiting'[o].todo
        PROVE  sems[u].owners[o] <= Due(o, u)'
    <3>1. ~Returning(o, u) /\ ~Returning(o, u)' /\ Balance(o, u) = 0 - value[o][u]
      BY <1>3, <1>5, <2>1, NoView
    <3>2. Settled(o, u, "Decrement")' = Settled(o, u, "Decrement")
      BY <1>8, <1>11, <1>7
    <3>3. Settled(o, u, "Decrement") \in Int
      BY <1>1, <1>3, <1>5, DueTypes
    <3>4. /\ Due(o, u) = Owing(o, u) + Settled(o, u, "Decrement")
          /\ Due(o, u)' = Owing(o, u)' + Settled(o, u, "Decrement")
      <4>1. /\ Owing(o, u) \in Nat
            /\ Owing(o, u)' \in Nat
        BY <1>2, <1>3, <1>5, <2>2 DEF Owing, Debt
      <4> QED BY <3>1, <3>2, <3>3, <4>1 DEF Due, One
    <3>5. CASE u = v
      <4>1. sems[u].owners[o] <= 0 - value[o][u] + Settled(o, u, "Decrement")
        BY <1>1, <1>3, <1>4, <2>1, <3>1 DEF KnownInv
      <4>2. Owing(o, u)' = Debt(value[o][u])
        BY <2>2, <3>5 DEF Owing
      <4> QED BY <1>5, <3>3, <3>4, <4>1, <4>2 DEF Debt
    <3>6. CASE u # v
      <4>1. sems[u].owners[o] <= Due(o, u)
        BY <1>4, <2>1, <2>2, <2>3, <3>6
      <4>2. Owing(o, u) = 0 /\ Owing(o, u)' = 0
        BY <2>1, <2>2, <3>6 DEF Owing
      <4> QED BY <3>4, <4>1, <4>2
    <3> QED BY <3>5, <3>6
  <2> QED BY <1>4, <2>1, <2>3
<1>12. CASE ExitSend(o) /\ p = o
  <2>1. exiting[o].at \in UUIDs /\ exiting[o].left > 0 /\ exiting[o].on
    BY <1>1, <1>3, <1>12 DEF ExitSend, ServerInv, ExitAtInv
  <2>2. PICK i \in Slots : Opened(o, "Increment", exiting[o].at, i)
    <3>1. Send(o, "Increment", exiting[o].at) /\ "Increment" \in Methods
      BY <1>12 DEF ExitSend, Methods
    <3> QED BY <1>2, <1>3, <2>1, <3>1, SendCall, Zenon
  <2>3. conn[o] = 0 /\ conn'[o] = i /\ up' = up /\ i # 0
    BY <1>2, <1>3, <1>12, <2>2 DEF Opened, ExitSend, Send, Slots
  <2>4. AwaitedCall(o)' = [pc |-> "sent", method |-> "Increment", uuid |-> exiting[o].at]
    BY <2>2, <2>3 DEF Opened, AwaitedCall
  <2>5. /\ exiting[o].left \in Nat /\ exiting'[o].at = exiting[o].at /\ exiting'[o].on
        /\ exiting'[o].left = exiting[o].left - 1 /\ exiting'[o].todo = exiting[o].todo
    BY <1>2, <1>3, <1>12 DEF ExitSend, ClientTypeOK
  <2>6. ASSUME NEW u \in Live, u \notin exiting[o].todo
        PROVE  sems[u].owners[o] <= Due(o, u)'
    <3>1. ~Returning(o, u) /\ (Returning(o, u)' <=> exiting[o].at = u)
      BY <2>3, <2>4 DEF Returning, Releasing, Awaits
    <3>2. sems[u].owners[o] <= Due(o, u)
      BY <1>4, <2>1, <2>6
    <3>3. Settled(o, u, "Decrement")' = Settled(o, u, "Decrement")
      BY <1>8, <1>12, <1>7
    <3>4. Settled(o, u, "Decrement") \in Int
      BY <1>1, <1>3, <1>5, DueTypes
    <3>5. Owing(o, u)' + One(Returning(o, u))' = Owing(o, u) + One(Returning(o, u))
      BY <1>5, <2>1, <2>5, <3>1 DEF Owing, One
    <3>6. /\ Owing(o, u) \in Nat /\ Owing(o, u)' \in Nat
          /\ One(Returning(o, u)) \in {0, 1} /\ One(Returning(o, u))' \in {0, 1}
      BY <1>5, <2>1, <2>5 DEF Owing, One
    <3> QED BY <3>2, <3>3, <3>4, <3>5, <3>6 DEF Due
  <2> QED BY <1>4, <2>1, <2>3, <2>4, <2>5, <2>6
<1>13. CASE Restart(o)
  BY <1>4, <1>13 DEF Restart, clientVars
<1>14. ASSUME NEW m \in Methods, NEW u \in UUIDs \cup {NoUUID} PROVE ~Command(o, m, u)
  BY DEF Command, AtPrompt
<1>15. CASE p = o
  BY <1>9, <1>8, <1>10, <1>11, <1>12, <1>13, <1>14, <1>15 DEF ClientStep
<1> QED BY <1>6, <1>15

LEMMA ExitSafe == ASSUME MaxExtra = 0 PROVE Spec => []ExitInv
<1>1. Init => ExitInv
  BY DEF Init, ClientInit, NotExiting, ExitInv, Punctual
<1>2. AccountInv /\ AccountInv' /\ KnownInv /\ ExitInv /\ [Next]_vars => ExitInv'
  <2> SUFFICES ASSUME AccountInv, AccountInv', KnownInv, ExitInv, [Next]_vars PROVE ExitInv'
    OBVIOUS
  <2>1. CASE aborted'
    BY <2>1 DEF ExitInv
  <2>2. CASE ServerNext /\ UNCHANGED clientVars /\ ~aborted'
    <3>1. UNCHANGED <<up, exiting>> /\ ~aborted
      BY <2>2, ServerCases DEF clientVars, AccountInv, ServerNext, Refuse, serverVars
    <3> SUFFICES ASSUME NEW o \in Punctual, exiting[o].on
                 PROVE  /\ up[o]
                        /\ conn'[o] # 0 => /\ AwaitedCall(o)'.method = "Increment"
                                           /\ AwaitedCall(o)'.uuid = exiting[o].at
                        /\ \A u \in Live' \ exiting[o].todo :
                             sems'[u].owners[o] <= Due(o, u)'
      BY <3>1 DEF ExitInv, Punctual
    <3>2. /\ up[o]
          /\ conn[o] # 0 => /\ AwaitedCall(o).method = "Increment"
                            /\ AwaitedCall(o).uuid = exiting[o].at
          /\ \A u \in Live \ exiting[o].todo :
               sems[u].owners[o] <= Due(o, u)
      BY <3>1 DEF ExitInv
    <3> QED BY <2>2, <3>2, ExitByServer
  <2>3. CASE UNCHANGED vars
    <3>1. UNCHANGED <<up, conn, call, sems, exiting, aborted, lostP, lostV>>
      BY <2>3 DEF vars, netVars, serverVars, clientVars
    <3>2. ASSUME NEW o \in Owners, NEW u \in UUIDs
          PROVE  Settled(o, u, "Decrement")' = Settled(o, u, "Decrement")
      BY <3>1, SettledSame DEF PV, Late, Awaited
    <3>3. \A o \in Owners, u \in UUIDs : Due(o, u)' = Due(o, u)
      BY <3>1, <3>2 DEF Due, Owing, Returning, Releasing, Awaits, AwaitedCall
    <3> QED BY <3>1, <3>3 DEF ExitInv, AwaitedCall, Live, Punctual
  <2> QED BY <2>1, <2>2, <2>3, ExitByClient DEF Next, ClientNext
<1>3. Spec => []KnownInv
  BY KnownSafe
<1> QED BY <1>1, <1>2, <1>3, AccountSafe, PTL DEF Spec

\* A punctual client whose SafeExit went through leaves no unit behind but those of
\* Decrements whose answers it missed, as long as its user gives back no more than was
\* granted.
THEOREM ExitLeavesNothing == ASSUME MaxExtra = 0 PROVE Spec => ExitReleases
<1>1. AccountInv /\ ExitInv =>
        [\A o \in Punctual : ExitDone(o) =>
           \A u \in Live : sems[u].owners[o] <= lostP[o][u]]_vars
  <2> SUFFICES ASSUME AccountInv, ExitInv, NEW o \in Punctual, ExitDone(o), NEW u \in Live
               PROVE  sems[u].owners[o] <= lostP[o][u]
    OBVIOUS
  <2>1. ServerInv /\ o \in Owners /\ u \in UUIDs
    BY DEF AccountInv, Punctual, Live
  <2>2. ~aborted
    BY <2>1 DEF ServerInv, AbortInv, Live, Deleted
  <2>3. exiting[o].on /\ conn[o] = 0 /\ exiting[o].left = 0 /\ exiting[o].todo = {}
    BY DEF ExitDone
  <2>4. sems[u].owners[o] <= Due(o, u)
    BY <2>2, <2>3 DEF ExitInv
  <2>5. Owing(o, u) = 0 /\ ~Returning(o, u)
    BY <2>3 DEF Owing, Returning, Releasing, Awaits
  <2>6. /\ sems[u].owners[o] \in Nat /\ lostP[o][u] \in Nat
        /\ Settled(o, u, "Decrement") \in Int /\ Settled(o, u, "Decrement") <= lostP[o][u]
    BY <2>1, BalanceTypes, SettledLost
  <2>7. Due(o, u) = Settled(o, u, "Decrement")
    BY <2>5, <2>6 DEF Due, One
  <2> QED BY <2>4, <2>6, <2>7
<1>2. Spec => []ExitInv
  BY ExitSafe
<1> QED BY <1>1, <1>2, AccountSafe, PTL DEF ExitReleases
=============================================================================
