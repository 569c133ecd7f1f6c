---------------------------- MODULE SystemProofs ----------------------------
(***************************************************************************)
(* What the server and its clients guarantee for every number of clients,  *)
(* calls, threads and semaphores and whatever may fail: semsmutex does its *)
(* work, each semaphore of the server is an abstract semaphore with an     *)
(* owner list, and no unit appears from nowhere.                           *)
(***************************************************************************)
EXTENDS System, FiniteSetTheorems, TLAPS

CallType == [pc : CallStates, method : Methods \cup {"none"}, uuid : UUIDs \cup {NoUUID}]

\* semsmutex belongs to the handler that calls its client back, or to the main
\* thread inside DisconnectClient.
SemsmutexInv ==
  /\ \A c \in Calls : semsmutex = c <=> call[c].pc = "check"
  /\ semsmutex = Main <=> hb.pc = "increments"

\* What a handler has found out about its semaphore is still so: nobody deletes it
\* but under semsmutex, and who does tells the calls inside decrement().
CallSound(c) ==
  /\ call[c].pc # "free" => call[c].method \in Methods
  /\ call[c].method \in {"Delete", "Decrement", "Increment"} => call[c].uuid \in UUIDs
  /\ call[c].pc = "check" =>
       call[c].method \in {"Decrement", "Increment"} /\ call[c].uuid \in Live
  /\ call[c].pc \in {"enter", "waiting"} =>
       call[c].method = "Decrement" /\ call[c].uuid \in Live
  /\ call[c].pc = "dangling" =>
       call[c].method = "Decrement" /\ sems[call[c].uuid] = Deleted
  /\ call[c].pc = "ok" /\ call[c].method \in {"Decrement", "Increment"} =>
       sems[call[c].uuid] # NotCreated
  /\ call[c].pc \in Answers => Awaited(c)

CallInv == \A c \in Calls : CallSound(c)

\* The same of the main thread: the semaphores it has yet to visit live, and so
\* do the entries it has copied.
ScanInv ==
  /\ hb.pc \in {"disconnect", "increments"} => hb.o \in Owners
  /\ hb.pc # "increments" => hb.k = 0
  /\ hb.pc = "increments" => hb.left \subseteq Live
  /\ CopyStillListed

\* A process that died knows no semaphore any more.
AbortInv == aborted => \A u \in UUIDs : sems[u] = Deleted

\* SafeExit increments in the name of a semaphore it has come to.
ExitAtInv == \A o \in Owners : exiting[o].left > 0 => exiting[o].at \in UUIDs

ServerInv == /\ TypeOK /\ SemsmutexInv /\ CallInv /\ ScanInv /\ AbortInv
             /\ ExitAtInv

-----------------------------------------------------------------------------
(* The operators of modules Network and Server. *)

LEMMA FreeType == FreeCall \in CallType /\ FreeCall.pc = "free" /\ FreeCall.method = "none"
BY DEF FreeCall, CallType, CallStates, InServer, Methods

\* A call is a client and a slot.
LEMMA CallPair ==
  ASSUME NEW c \in Calls
  PROVE  c[1] \in Owners /\ c[2] \in Slots /\ c = <<c[1], c[2]>>
BY DEF Calls

\* A call moves on in its handler, and no other call does.
LEMMA AtCall ==
  ASSUME call \in [Calls -> CallType], NEW c \in Calls, NEW state \in CallStates, At(c, state)
  PROVE  /\ call' \in [Calls -> CallType]
         /\ call'[c].pc = state
         /\ call'[c].method = call[c].method /\ call'[c].uuid = call[c].uuid
         /\ \A d \in Calls \ {c} : call'[d] = call[d]
BY DEF At, CallType

\* An answer reaches a client that awaits it and leaves no trace of any other call.
LEMMA AnswerInCall ==
  ASSUME NEW f \in [Calls -> CallType], NEW c \in Calls, NEW r \in Answers,
         NEW u \in UUIDs \cup {NoUUID}
  PROVE  /\ AnswerIn(f, c, r, u) \in [Calls -> CallType]
         /\ Awaited(c) => /\ AnswerIn(f, c, r, u)[c].pc = r
                          /\ AnswerIn(f, c, r, u)[c].method = f[c].method
                          /\ AnswerIn(f, c, r, u)[c].uuid = u
         /\ ~Awaited(c) => AnswerIn(f, c, r, u)[c] = FreeCall
         /\ \A d \in Calls \ {c} : AnswerIn(f, c, r, u)[d] = f[d]
BY FreeType DEF AnswerIn, CallType, CallStates, Answers

LEMMA AnswerNext ==
  ASSUME NEW f \in [Calls -> CallType], NEW c \in Calls, NEW r \in Answers,
         NEW u \in UUIDs \cup {NoUUID}, call' = AnswerIn(f, c, r, u)
  PROVE  /\ call' \in [Calls -> CallType]
         /\ \/ /\ Awaited(c) /\ call'[c].pc = r
               /\ call'[c].method = f[c].method /\ call'[c].uuid = u
            \/ ~Awaited(c) /\ call'[c] = FreeCall
         /\ \A d \in Calls \ {c} : call'[d] = f[d]
BY AnswerInCall

LEMMA AnswerCall ==
  ASSUME call \in [Calls -> CallType], NEW c \in Calls, NEW r \in Answers, Answer(c, r)
  PROVE  /\ call' \in [Calls -> CallType]
         /\ Awaited(c) => /\ call'[c].pc = r
                          /\ call'[c].method = call[c].method
                          /\ call'[c].uuid = call[c].uuid
         /\ ~Awaited(c) => call'[c] = FreeCall
         /\ \A d \in Calls \ {c} : call'[d] = call[d]
<1>1. call[c].uuid \in UUIDs \cup {NoUUID}
  BY DEF CallType
<1> QED BY <1>1, AnswerInCall DEF Answer

\* A client that stops waiting loses the answer that was on its way.
LEMMA AbandonCall ==
  ASSUME call \in [Calls -> CallType], conn \in [Owners -> {0} \cup Slots],
         NEW o \in Owners, Abandon(o)
  PROVE  /\ call' \in [Calls -> CallType]
         /\ conn' = [conn EXCEPT ![o] = 0] /\ conn' \in [Owners -> {0} \cup Slots]
         /\ \A d \in Calls :
              IF d[1] = o /\ Awaited(d) /\ call[d].pc \in Answers
              THEN call'[d] = FreeCall ELSE call'[d] = call[d]
BY FreeType DEF Abandon

\* A client sends its request in a slot that is free.
Opened(o, m, u, i) ==
  /\ call[<<o, i>>].pc = "free" /\ conn[o] = 0
  /\ call' \in [Calls -> CallType]
  /\ call'[<<o, i>>] = [pc |-> "sent", method |-> m, uuid |-> u]
  /\ \A d \in Calls \ {<<o, i>>} : call'[d] = call[d]
  /\ conn' = [conn EXCEPT ![o] = i] /\ conn' \in [Owners -> {0} \cup Slots]

LEMMA SendCall ==
  ASSUME call \in [Calls -> CallType], conn \in [Owners -> {0} \cup Slots],
         NEW o \in Owners, NEW m \in Methods, NEW u \in UUIDs \cup {NoUUID}, Send(o, m, u)
  PROVE  \E i \in Slots : Opened(o, m, u, i)
<1>1. PICK i \in FreeSlots(o) :
        /\ call' = [call EXCEPT ![<<o, i>>] = [pc |-> "sent", method |-> m, uuid |-> u]]
        /\ conn' = [conn EXCEPT ![o] = i]
  BY DEF Send
<1>2. i \in Slots /\ call[<<o, i>>].pc = "free" /\ <<o, i>> \in Calls
  BY DEF FreeSlots, Calls
<1>3. [pc |-> "sent", method |-> m, uuid |-> u] \in CallType
  BY DEF CallType, CallStates, InServer
<1> QED BY <1>1, <1>2, <1>3 DEF Send, Opened

\* A UUID stands for a semaphore, for none yet, or for none any more.
LEMMA SemCases ==
  ASSUME sems \in [UUIDs -> SemaphoreType \cup {NotCreated, Deleted}], NEW u \in UUIDs
  PROVE  /\ u \in Live <=> sems[u] \in SemaphoreType
         /\ u \in Live <=> sems[u] # NotCreated /\ sems[u] # Deleted
         /\ NotCreated # Deleted
<1>1. \A s \in SemaphoreType : s.state = "live"
  BY DEF SemaphoreType
<1>2. NotCreated.state = "not created" /\ Deleted.state = "deleted"
  BY DEF NotCreated, Deleted
<1>3. sems[u] \in SemaphoreType \cup {NotCreated, Deleted}
  OBVIOUS
<1>4. u \in Live <=> sems[u].state = "live"
  BY DEF Live
<1> QED BY <1>1, <1>2, <1>3, <1>4

\* What decrement() and increment() do to one semaphore.
LEMMA SemSteps ==
  ASSUME NEW s \in SemaphoreType, NEW o \in Owners
  PROVE  /\ Listed(s, o) \in SemaphoreType
         /\ Listed(s, o).owners = [s.owners EXCEPT ![o] = @ + 1]
         /\ Listed(s, o).cur = s.cur /\ Listed(s, o).min = s.min
         /\ Listed(s, o).max = s.max /\ Listed(s, o).initial = s.initial
         /\ Granted(s) \in SemaphoreType
         /\ Granted(s).owners = s.owners
         /\ Granted(s).cur = s.cur - 1 /\ Granted(s).min = s.min
         /\ Granted(s).max = s.max /\ Granted(s).initial = s.initial
BY DEF SemaphoreType, Listed, Granted

LEMMA SemIncrement ==
  ASSUME NEW s \in SemaphoreType, NEW o \in Owners
  PROVE  /\ Incremented(s, o) \in SemaphoreType
         /\ s.owners[o] = 0 => Incremented(s, o) = s
         /\ s.owners[o] # 0 =>
              /\ s.owners[o] > 0
              /\ Incremented(s, o).owners = [s.owners EXCEPT ![o] = @ - 1]
              /\ Incremented(s, o).cur = IF s.cur < s.max THEN s.cur + 1 ELSE s.max
         /\ Incremented(s, o).min = s.min
         /\ Incremented(s, o).max = s.max /\ Incremented(s, o).initial = s.initial
<1>1. s.owners[o] \in Nat /\ s.cur \in Int /\ s.max \in Int
  BY DEF SemaphoreType
<1>2. CASE s.owners[o] = 0
  BY <1>2 DEF Incremented
<1>3. CASE s.owners[o] # 0
  <2> DEFINE f == [s.owners EXCEPT ![o] = @ - 1]
             n == IF s.cur < s.max THEN s.cur + 1 ELSE s.max
             t == [s EXCEPT !.owners = f, !.cur = n]
  <2>1. f \in [Owners -> Nat] /\ n \in Int /\ s.owners[o] > 0
    BY <1>1, <1>3 DEF SemaphoreType
  <2>2. Incremented(s, o) = t
    BY <1>3 DEF Incremented
  <2> HIDE DEF f, n
  <2>3. /\ t \in SemaphoreType /\ t.owners = f /\ t.cur = n
        /\ t.min = s.min /\ t.max = s.max /\ t.initial = s.initial
    BY <2>1 DEF SemaphoreType
  <2> QED BY <1>3, <2>1, <2>2, <2>3 DEF f, n
<1> QED BY <1>2, <1>3

-----------------------------------------------------------------------------
(* Types. *)

LEMMA NetType == NetTypeOK <=> /\ up \in [Owners -> BOOLEAN]
                               /\ conn \in [Owners -> {0} \cup Slots]
                               /\ call \in [Calls -> CallType]
BY DEF NetTypeOK, CallType

LEMMA ServerStart ==
  /\ 0 \in 0..(HBWrap - 1) /\ 0 \in 0..3
  /\ SleepHB \in [pc : {"sleep", "scan", "disconnect", "increments"},
                 todo : SUBSET Owners, o : Owners \cup {NoOwner},
                 left : SUBSET UUIDs, at : UUIDs \cup {NoUUID}, k : Nat]
<1>1. 0 \in 0..(HBWrap - 1)
  BY ServerAssumption
<1> QED BY <1>1 DEF SleepHB

LEMMA TypeInit == Init => TypeOK
<1> SUFFICES ASSUME Init PROVE TypeOK
  OBVIOUS
<1>1. NetTypeOK
  BY FreeType, NetType DEF Init, NetInit
<1>2. ServerTypeOK
  BY ServerStart DEF Init, ServerInit, ServerTypeOK
<1>3. ClientTypeOK
  BY DEF Init, ClientInit, ClientTypeOK, Fresh, NotExiting
<1> QED BY <1>1, <1>2, <1>3 DEF TypeOK

LEMMA HandlerType ==
  ASSUME TypeOK, CallInv, NEW c \in Calls, HandlerStep(c)
  PROVE  NetTypeOK' /\ ServerTypeOK'
<1>1. /\ up \in [Owners -> BOOLEAN] /\ conn \in [Owners -> {0} \cup Slots]
      /\ call \in [Calls -> CallType]
  BY NetType DEF TypeOK
<1>2. ServerTypeOK
  BY DEF TypeOK
<1>3. UNCHANGED <<up, conn>>
  BY DEF HandlerStep, Accept, Create, Delete, Dump, LookUp, CheckFails, CheckDecrement,
         CheckIncrement, Enter, Wake, DanglingReturn, DanglingAbort, serverVars
<1>4. /\ {"lock", "check", "enter", "waiting"} \subseteq CallStates
      /\ {"ok", "error"} = Answers
      /\ call[c].uuid \in UUIDs \cup {NoUUID} /\ c[1] \in Owners
  BY <1>1, CallPair DEF CallStates, InServer, Answers, CallType
<1> HIDE DEF CallStates, Answers
<1>5. ASSUME call' \in [Calls -> CallType], ServerTypeOK' PROVE NetTypeOK' /\ ServerTypeOK'
  BY <1>1, <1>3, <1>5 DEF NetTypeOK, CallType
<1>6. CASE Accept(c)
  BY <1>1, <1>2, <1>4, <1>5, <1>6, AtCall DEF Accept, serverVars, ServerTypeOK
<1>7. CASE Create(c)
  <2>1. CASE Answer(c, "error") /\ UNCHANGED sems
    BY <1>1, <1>2, <1>4, <1>5, <1>7, <2>1, AnswerCall DEF Create, ServerTypeOK
  <2>2. ASSUME NEW p \in Params, NEW u \in UUIDs,
               sems' = [sems EXCEPT ![u] =
                          [state |-> "live", cur |-> p.cur, min |-> p.min,
                           max |-> p.max, owners |-> [o \in Owners |-> 0],
                           initial |-> p.cur]],
               call' = AnswerIn(call, c, "ok", u)
        PROVE  NetTypeOK' /\ ServerTypeOK'
    <3>1. call' \in [Calls -> CallType]
      BY <1>1, <1>4, <2>2, AnswerInCall
    <3>2. [state |-> "live", cur |-> p.cur, min |-> p.min, max |-> p.max,
           owners |-> [o \in Owners |-> 0], initial |-> p.cur] \in SemaphoreType
      <4>1. p.cur \in Int /\ p.min \in Int /\ p.max \in Int
        BY ServerAssumption
      <4> QED BY <4>1 DEF SemaphoreType
    <3>3. ServerTypeOK'
      BY <1>2, <1>7, <2>2, <3>2 DEF Create, ServerTypeOK
    <3> QED BY <1>5, <3>1, <3>3
  <2> QED BY <1>7, <2>1, <2>2 DEF Create
<1>8. CASE Delete(c)
  <2> DEFINE u == call[c].uuid
             orphaned == [d \in Calls |->
                            IF call[d].uuid = u /\ call[d].pc \in {"enter", "waiting"}
                            THEN [call[d] EXCEPT !.pc = "dangling"] ELSE call[d]]
  <2>1. CASE Answer(c, "error") /\ UNCHANGED sems
    BY <1>1, <1>2, <1>4, <1>5, <1>8, <2>1, AnswerCall DEF Delete, ServerTypeOK
  <2>2. CASE sems' = [sems EXCEPT ![u] = Deleted] /\ call' = AnswerIn(orphaned, c, "ok", u)
    <3>1. orphaned \in [Calls -> CallType]
      BY <1>1 DEF CallType, CallStates, InServer
    <3>2. call' \in [Calls -> CallType]
      BY <1>4, <2>2, <3>1, AnswerInCall
    <3>3. ServerTypeOK'
      BY <1>2, <1>8, <2>2 DEF Delete, ServerTypeOK
    <3> QED BY <1>5, <3>2, <3>3
  <2> QED BY <1>8, <2>1, <2>2 DEF Delete
<1>9. CASE Dump(c)
  BY <1>1, <1>2, <1>4, <1>5, <1>9, AnswerCall DEF Dump, serverVars, ServerTypeOK
<1>10. CASE LookUp(c)
  <2>1. call' \in [Calls -> CallType]
    BY <1>1, <1>4, <1>10, AnswerCall, AtCall DEF LookUp
  <2> QED BY <1>2, <1>5, <1>10, <2>1 DEF LookUp, ServerTypeOK
<1>11. CASE CheckFails(c)
  BY <1>1, <1>2, <1>4, <1>5, <1>11, AnswerCall DEF CheckFails, ServerTypeOK
<1>12. CASE CheckDecrement(c)
  BY <1>1, <1>2, <1>4, <1>5, <1>12, AtCall DEF CheckDecrement, ServerTypeOK
<1>13. ASSUME NEW u \in Live, NEW t \in SemaphoreType, sems' = [sems EXCEPT ![u] = t],
              UNCHANGED <<hb, ohbcount, aborted, missed>>, semsmutex' \in {semsmutex, Nobody}
       PROVE  ServerTypeOK'
  BY <1>2, <1>13 DEF ServerTypeOK
<1>14. ASSUME call[c].uuid \in Live
       PROVE  sems[call[c].uuid] \in SemaphoreType
  BY <1>2, <1>14, SemCases DEF ServerTypeOK, Live
<1>15. CASE CheckIncrement(c)
  <2>1. call[c].uuid \in Live
    BY <1>15 DEF CheckIncrement, CallInv, CallSound
  <2>2. Incremented(sems[call[c].uuid], c[1]) \in SemaphoreType
    BY <1>4, <1>14, <2>1, SemIncrement
  <2>3. sems' = [sems EXCEPT ![call[c].uuid] = Incremented(sems[call[c].uuid], c[1])]
    BY <1>15 DEF CheckIncrement
  <2>4. ServerTypeOK'
    BY <1>13, <1>15, <2>1, <2>2, <2>3 DEF CheckIncrement
  <2>5. call' \in [Calls -> CallType]
    BY <1>1, <1>4, <1>15, AnswerCall DEF CheckIncrement
  <2> QED BY <1>5, <2>4, <2>5
<1>16. CASE Enter(c)
  <2> DEFINE u == call[c].uuid
             s == Listed(sems[u], c[1])
  <2>1. u \in Live
    BY <1>16 DEF Enter, CallInv, CallSound
  <2>2. s \in SemaphoreType /\ Granted(s) \in SemaphoreType
    BY <1>4, <1>14, <2>1, SemSteps
  <2>3. \/ sems' = [sems EXCEPT ![u] = s] /\ At(c, "waiting")
        \/ sems' = [sems EXCEPT ![u] = Granted(s)] /\ Answer(c, "ok")
    BY <1>16 DEF Enter
  <2>4. ServerTypeOK'
    BY <1>13, <1>16, <2>1, <2>2, <2>3 DEF Enter
  <2>5. call' \in [Calls -> CallType]
    BY <1>1, <1>4, <2>3, AnswerCall, AtCall
  <2> QED BY <1>5, <2>4, <2>5
<1>17. CASE Wake(c)
  <2>1. call[c].uuid \in Live
    BY <1>17 DEF Wake, CallInv, CallSound
  <2>2. Granted(sems[call[c].uuid]) \in SemaphoreType
    BY <1>4, <1>14, <2>1, SemSteps
  <2>3. sems' = [sems EXCEPT ![call[c].uuid] = Granted(sems[call[c].uuid])]
    BY <1>17 DEF Wake
  <2>4. ServerTypeOK'
    BY <1>13, <1>17, <2>1, <2>2, <2>3 DEF Wake
  <2>5. call' \in [Calls -> CallType]
    BY <1>1, <1>4, <1>17, AnswerCall DEF Wake
  <2> QED BY <1>5, <2>4, <2>5
<1>18. CASE DanglingReturn(c)
  BY <1>1, <1>2, <1>4, <1>5, <1>18, AnswerCall DEF DanglingReturn, serverVars, ServerTypeOK
<1>19. CASE DanglingAbort(c)
  <2>1. call' \in [Calls -> CallType]
    BY <1>1, <1>19, FreeType DEF DanglingAbort
  <2>2. ServerTypeOK'
    BY <1>2, <1>19, ServerStart DEF DanglingAbort, ServerTypeOK
  <2> QED BY <1>5, <2>1, <2>2
<1> QED
  BY <1>6, <1>7, <1>8, <1>9, <1>10, <1>11, <1>12, <1>15, <1>16, <1>17, <1>18, <1>19
     DEF HandlerStep

LEMMA HeartbeatType ==
  ASSUME TypeOK, ScanInv, HeartbeatStep
  PROVE  NetTypeOK' /\ ServerTypeOK'
<1>1. ServerTypeOK /\ NetTypeOK
  BY DEF TypeOK
<1>2. UNCHANGED netVars
  BY DEF HeartbeatStep, ScanStart, ScanAlive, ScanDead, DisconnectLock, DisconnectCopy,
         DisconnectIncrement, DisconnectDone
<1>3. NetTypeOK'
  BY <1>1, <1>2 DEF NetTypeOK, netVars
<1> DEFINE HB == [pc : {"sleep", "scan", "disconnect", "increments"},
                  todo : SUBSET Owners, o : Owners \cup {NoOwner},
                  left : SUBSET UUIDs, at : UUIDs \cup {NoUUID}, k : Nat]
<1>4. SleepHB \in HB /\ hb \in HB
  BY <1>1, ServerStart DEF ServerTypeOK
<1>5. \A o \in Owners : Scanned(hb, o) \in HB
  BY <1>4 DEF Scanned, SleepHB
<1>6. CASE ScanStart
  <2> DEFINE listed == UNION {ListedAt(u) : u \in Live}
  <2>1. listed \in SUBSET Owners
    BY DEF ListedAt
  <2>2. hb' \in HB
    BY <1>4, <1>6, <2>1 DEF ScanStart
  <2> QED BY <1>1, <1>3, <1>6, <2>2 DEF ScanStart, ServerTypeOK
<1>7. ASSUME NEW o \in Owners, ScanAlive(o)
      PROVE  ServerTypeOK'
  BY <1>1, <1>5, <1>7 DEF ScanAlive, ServerTypeOK
<1>8. ASSUME NEW o \in Owners, ScanDead(o)
      PROVE  ServerTypeOK'
  <2>1. hb' = Scanned(hb, o) \/ hb' = [hb EXCEPT !.pc = "disconnect", !.o = o]
    BY <1>8 DEF ScanDead
  <2>2. hb' \in HB
    BY <1>4, <1>5, <2>1
  <2>3. OneMore(ohbcount[o]) \in 0..(HBWrap - 1)
    <3>1. ohbcount[o] \in Nat /\ HBWrap \in Nat \ {0}
      BY <1>1, ServerAssumption DEF ServerTypeOK
    <3> QED BY <3>1 DEF OneMore
  <2>4. ohbcount' = [ohbcount EXCEPT ![o] = OneMore(ohbcount[o])]
    BY <1>8 DEF ScanDead
  <2>5. ohbcount' \in [Owners -> 0..(HBWrap - 1)]
    BY <1>1, <2>3, <2>4 DEF ServerTypeOK
  <2>6. missed' = [missed EXCEPT ![o] = IF missed[o] < 3 THEN missed[o] + 1 ELSE 3]
    BY <1>1, <1>8 DEF ScanDead, ServerTypeOK
  <2>7. missed' \in [Owners -> 0..3]
    BY <1>1, <2>6 DEF ServerTypeOK
  <2> QED BY <1>1, <1>8, <2>2, <2>5, <2>7 DEF ScanDead, ServerTypeOK
<1>9. CASE DisconnectLock
  <2>1. Live \in SUBSET UUIDs
    BY DEF Live
  <2>2. hb' \in HB
    BY <1>4, <1>9, <2>1 DEF DisconnectLock
  <2> QED BY <1>1, <1>3, <1>9, <2>2 DEF DisconnectLock, ServerTypeOK
<1>10. ASSUME NEW u \in UUIDs, DisconnectCopy(u)
       PROVE  ServerTypeOK'
  <2>1. u \in Live /\ hb.o \in Owners
    BY <1>10 DEF DisconnectCopy, ScanInv
  <2>2. sems[u].owners[hb.o] \in Nat
    BY <1>1, <2>1, SemCases DEF ServerTypeOK, SemaphoreType
  <2> DEFINE k == sems[u].owners[hb.o]
  <2>3. hb' = [hb EXCEPT !.left = @ \ {u}, !.at = u, !.k = k]
    BY <1>10 DEF DisconnectCopy
  <2> HIDE DEF k
  <2>4. hb' \in HB
    BY <1>4, <2>2, <2>3 DEF k
  <2> QED BY <1>1, <1>10, <2>4 DEF DisconnectCopy, ServerTypeOK
<1>11. CASE DisconnectIncrement
  <2>1. hb.at \in Live /\ hb.o \in Owners /\ hb.k > 0
    BY <1>11 DEF DisconnectIncrement, ScanInv, CopyStillListed
  <2>2. Incremented(sems[hb.at], hb.o) \in SemaphoreType /\ hb.at \in UUIDs
    BY <1>1, <2>1, SemCases, SemIncrement DEF ServerTypeOK, Live
  <2>3. sems' = [sems EXCEPT ![hb.at] = Incremented(sems[hb.at], hb.o)]
    BY <1>11 DEF DisconnectIncrement
  <2>4. hb' = [hb EXCEPT !.k = hb.k - 1]
    BY <1>11 DEF DisconnectIncrement
  <2>5. hb' \in HB
    BY <1>4, <2>1, <2>4
  <2>6. sems' \in [UUIDs -> SemaphoreType \cup {NotCreated, Deleted}]
    BY <1>1, <2>2, <2>3 DEF ServerTypeOK
  <2> QED BY <1>1, <1>3, <1>11, <2>5, <2>6 DEF DisconnectIncrement, ServerTypeOK
<1>12. CASE DisconnectDone
  <2>1. hb.o \in Owners
    BY <1>12 DEF DisconnectDone, ScanInv
  <2> QED BY <1>1, <1>3, <1>5, <1>12, <2>1 DEF DisconnectDone, ServerTypeOK
<1> QED
  BY <1>3, <1>6, <1>7, <1>8, <1>9, <1>10, <1>11, <1>12 DEF HeartbeatStep

\* What a client does to the calls: it opens one of its own, throws an answer away
\* that it has read or will not read, or leaves them.
CallsByClient(o) ==
  /\ call' \in [Calls -> CallType]
  /\ conn' \in [Owners -> {0} \cup Slots]
  /\ \A p \in Owners \ {o} : conn'[p] = conn[p]
  /\ \A d \in Calls :
       \/ call'[d] = call[d] /\ (call[d].pc \in Answers => conn'[d[1]] = conn[d[1]])
       \/ d[1] = o /\ call[d].pc \in Answers /\ call'[d] = FreeCall
       \/ /\ d[1] = o /\ call[d].pc = "free"
          /\ call'[d].pc = "sent" /\ call'[d].method \in Methods
          /\ call'[d].method \in {"Delete", "Decrement", "Increment"} =>
               call'[d].uuid \in UUIDs

LEMMA AbandonByClient ==
  ASSUME TypeOK, CallInv, NEW o \in Owners, Abandon(o)
  PROVE  CallsByClient(o)
<1>1. conn \in [Owners -> {0} \cup Slots] /\ call \in [Calls -> CallType]
  BY NetType DEF TypeOK
<1>2. /\ call' \in [Calls -> CallType]
      /\ conn' = [conn EXCEPT ![o] = 0] /\ conn' \in [Owners -> {0} \cup Slots]
      /\ \A d \in Calls :
           IF d[1] = o /\ Awaited(d) /\ call[d].pc \in Answers
           THEN call'[d] = FreeCall ELSE call'[d] = call[d]
  BY <1>1, AbandonCall
<1>3. \A d \in Calls : call[d].pc \in Answers => Awaited(d)
  BY DEF CallInv, CallSound
<1>4. \A d \in Calls : d[1] \in Owners
  BY CallPair
<1> QED BY <1>1, <1>2, <1>3, <1>4 DEF CallsByClient

LEMMA SendByClient ==
  ASSUME TypeOK, CallInv, NEW o \in Owners, NEW m \in Methods, NEW u \in UUIDs \cup {NoUUID},
         m \in {"Delete", "Decrement", "Increment"} => u \in UUIDs, Send(o, m, u)
  PROVE  CallsByClient(o)
<1>1. conn \in [Owners -> {0} \cup Slots] /\ call \in [Calls -> CallType]
  BY NetType DEF TypeOK
<1>2. PICK i \in Slots : Opened(o, m, u, i)
  BY <1>1, SendCall, Zenon
<1>3. ASSUME NEW d \in Calls, d # <<o, i>>, call[d].pc \in Answers
      PROVE  conn'[d[1]] = conn[d[1]]
  <2>1. Awaited(d) /\ d[1] \in Owners /\ d[2] \in Slots
    BY <1>3, CallPair DEF CallInv, CallSound
  <2>2. 0 \notin Slots
    BY DEF Slots
  <2>3. d[1] # o
    BY <1>2, <2>1, <2>2 DEF Awaited, Opened
  <2> QED BY <1>1, <1>2, <2>1, <2>3 DEF Opened
<1>4. ASSUME NEW d \in Calls, d = <<o, i>>
      PROVE  /\ d[1] = o /\ call[d].pc = "free"
             /\ call'[d].pc = "sent" /\ call'[d].method \in Methods
             /\ call'[d].method \in {"Delete", "Decrement", "Increment"} =>
                  call'[d].uuid \in UUIDs
  BY <1>2, <1>4 DEF Opened
<1> QED BY <1>1, <1>2, <1>3, <1>4 DEF CallsByClient, Opened

\* Every step of a client is a step on its own calls only, and keeps the types.
LEMMA ClientEffect ==
  ASSUME TypeOK, CallInv, ExitAtInv, NEW o \in Owners, ClientStep(o)
  PROVE  CallsByClient(o)
<1>1. conn \in [Owners -> {0} \cup Slots] /\ call \in [Calls -> CallType]
  BY NetType DEF TypeOK
<1>2. CASE UNCHANGED <<conn, call>>
  BY <1>1, <1>2 DEF CallsByClient
<1>3. ASSUME NEW m \in Methods, NEW u \in UUIDs \cup {NoUUID}, Command(o, m, u)
      PROVE  CallsByClient(o)
  <2>1. m \in {"Delete", "Decrement", "Increment"} => u \in UUIDs
    BY <1>3 DEF Command
  <2>2. Send(o, m, u)
    BY <1>3 DEF Command
  <2> QED BY <2>1, <2>2, SendByClient
<1>4. CASE ExitSend(o)
  <2>1. exiting[o].at \in UUIDs
    BY <1>4 DEF ExitSend, ExitAtInv
  <2>2. "Increment" \in Methods
    BY DEF Methods
  <2> QED BY <1>4, <2>1, <2>2, SendByClient DEF ExitSend
<1>5. CASE GetAnswer(o) \/ CallThrows(o) \/ Crash(o)
  <2>1. Abandon(o)
    BY <1>5 DEF GetAnswer, CallThrows, Crash
  <2> QED BY <2>1, AbandonByClient
<1>6. CASE Quit(o) \/ (\E u \in UUIDs : ExitNext(o, u)) \/ ExitDone(o) \/ Restart(o)
  BY <1>2, <1>6 DEF Quit, ExitNext, ExitDone, Restart, netVars
<1> QED BY <1>3, <1>4, <1>5, <1>6 DEF ClientStep

LEMMA LostTypes ==
  ASSUME ClientTypeOK, NEW o \in Owners, ClientStep(o)
  PROVE  lostP' \in [Owners -> [UUIDs -> Nat]] /\ lostV' \in [Owners -> [UUIDs -> Nat]]
<1>1. lostP \in [Owners -> [UUIDs -> Nat]] /\ lostV \in [Owners -> [UUIDs -> Nat]]
  BY DEF ClientTypeOK
<1>2. CASE Lose(o)
  BY <1>1, <1>2 DEF Lose
<1>3. CASE UNCHANGED <<lostP, lostV>>
  BY <1>1, <1>3
<1> QED BY <1>2, <1>3 DEF ClientStep, Command, Send, GetAnswer, CallThrows, Quit, ExitNext,
           ExitSend, ExitDone, Crash, Restart, clientVars

LEMMA ClientTypes ==
  ASSUME TypeOK, CallInv, ExitAtInv, NEW o \in Owners, ClientStep(o)
  PROVE  NetTypeOK' /\ ClientTypeOK' /\ ExitAtInv'
<1>1. lostP' \in [Owners -> [UUIDs -> Nat]] /\ lostV' \in [Owners -> [UUIDs -> Nat]]
  BY LostTypes DEF TypeOK
<1>2. call' \in [Calls -> CallType] /\ conn' \in [Owners -> {0} \cup Slots]
  BY ClientEffect DEF CallsByClient
<1>3. ClientTypeOK /\ NetTypeOK
  BY DEF TypeOK
<1>4. ASSUME up' \in [Owners -> BOOLEAN] PROVE NetTypeOK'
  BY <1>2, <1>4 DEF NetTypeOK, CallType
<1>5. up \in [Owners -> BOOLEAN]
  BY <1>3 DEF NetTypeOK
<1>6. /\ value \in [Owners -> [UUIDs -> Int]] /\ polling \in [Owners -> SUBSET UUIDs]
      /\ exiting \in [Owners -> [on : BOOLEAN, todo : SUBSET UUIDs,
                                at : UUIDs \cup {NoUUID}, left : Nat]]
  BY <1>3 DEF ClientTypeOK
<1>7. /\ NotExiting \in [on : BOOLEAN, todo : SUBSET UUIDs,
                        at : UUIDs \cup {NoUUID}, left : Nat]
      /\ NotExiting.left = 0 /\ Fresh \in [UUIDs -> Int]
      /\ TRUE \in BOOLEAN /\ FALSE \in BOOLEAN
  BY DEF NotExiting, Fresh
\* A step of a client that is to make no Increment of its own.
<1>8. ASSUME NEW e \in [on : BOOLEAN, todo : SUBSET UUIDs,
                         at : UUIDs \cup {NoUUID}, left : Nat],
              e.left = 0, exiting' = [exiting EXCEPT ![o] = e],
              value' \in [Owners -> [UUIDs -> Int]], polling' \in [Owners -> SUBSET UUIDs]
       PROVE  ClientTypeOK' /\ ExitAtInv'
  <2>1. /\ exiting' \in [Owners -> [on : BOOLEAN, todo : SUBSET UUIDs,
                                    at : UUIDs \cup {NoUUID}, left : Nat]]
        /\ exiting'[o] = e /\ \A p \in Owners \ {o} : exiting'[p] = exiting[p]
    BY <1>6, <1>8
  <2> QED BY <1>1, <1>6, <1>8, <2>1 DEF ClientTypeOK, ExitAtInv
<1>9. ASSUME NEW u \in UUIDs \cup {NoUUID}, NEW m \in Methods, Send(o, m, u),
             m \in {"Delete", "Decrement", "Increment"} => u \in UUIDs
      PROVE  UNCHANGED <<up, value>> /\ polling' \in [Owners -> SUBSET UUIDs]
  BY <1>6, <1>9 DEF Send
<1>10. ASSUME NEW m \in Methods, NEW u \in UUIDs \cup {NoUUID}, Command(o, m, u)
      PROVE  NetTypeOK' /\ ClientTypeOK' /\ ExitAtInv'
  <2>1. m \in {"Delete", "Decrement", "Increment"} => u \in UUIDs
    BY <1>10 DEF Command
  <2>2. Send(o, m, u) /\ UNCHANGED exiting
    BY <1>10 DEF Command
  <2>3. UNCHANGED <<up, value>> /\ polling' \in [Owners -> SUBSET UUIDs]
    BY <1>9, <2>1, <2>2
  <2> QED BY <1>3, <1>4, <1>5, <2>2, <2>3, <1>1 DEF ClientTypeOK, ExitAtInv
<1>11. CASE GetAnswer(o)
  <2>1. value' \in [Owners -> [UUIDs -> Int]] /\ polling' \in [Owners -> SUBSET UUIDs]
    <3> DEFINE m == AwaitedCall(o).method
               u == AwaitedCall(o).uuid
    <3>1. CASE m \in {"Decrement", "Increment"}
      <4>1. value' = [value EXCEPT ![o] =
                        [value[o] EXCEPT ![u] = Counted(value[o][u], m, AwaitedCall(o).pc)]]
        BY <3>1, <1>6, <1>11 DEF GetAnswer
      <4>2. u \in UUIDs
        <5>1. <<o, conn[o]>> \in Calls
          BY <1>3, <1>11 DEF GetAnswer, Calls, NetTypeOK
        <5> QED BY <3>1, <5>1 DEF AwaitedCall, CallInv, CallSound
      <4>3. Counted(value[o][u], m, AwaitedCall(o).pc) \in Int
        BY <1>6, <4>2 DEF Counted
      <4>4. polling' = [polling EXCEPT ![o] = @ \ {u}]
        BY <1>11, <3>1 DEF GetAnswer
      <4> QED BY <1>6, <4>1, <4>2, <4>3, <4>4
    <3>2. CASE m \notin {"Decrement", "Increment"}
      BY <1>6, <1>11, <3>2 DEF GetAnswer
    <3> QED BY <3>1, <3>2
  <2> QED BY <1>3, <1>4, <1>5, <1>6, <1>11, <2>1, <1>1 DEF GetAnswer, ClientTypeOK, ExitAtInv
<1>12. CASE CallThrows(o)
  BY <1>4, <1>5, <1>6, <1>7, <1>12, <1>8 DEF CallThrows
<1>13. CASE Quit(o)
  <2> DEFINE e == [NotExiting EXCEPT !.on = TRUE, !.todo = UUIDs]
  <2>1. e \in [on : BOOLEAN, todo : SUBSET UUIDs, at : UUIDs \cup {NoUUID}, left : Nat]
        /\ e.left = 0
    BY DEF NotExiting
  <2>2. exiting' = [exiting EXCEPT ![o] = e] /\ UNCHANGED <<up, value, polling>>
    BY <1>13 DEF Quit, netVars
  <2> HIDE DEF e
  <2> QED BY <1>4, <1>5, <1>6, <1>8, <2>1, <2>2
<1>14. ASSUME NEW u \in UUIDs, ExitNext(o, u)
       PROVE  NetTypeOK' /\ ClientTypeOK' /\ ExitAtInv'
  <2> DEFINE e == [exiting[o] EXCEPT !.todo = @ \ {u}, !.at = u,
                                     !.left = Debt(value[o][u])]
  <2>1. Debt(value[o][u]) \in Nat
    <3>1. value[o][u] \in Int
      BY <1>6
    <3> QED BY <3>1 DEF Debt
  <2>2. e \in [on : BOOLEAN, todo : SUBSET UUIDs, at : UUIDs \cup {NoUUID}, left : Nat]
        /\ e.at = u
    BY <1>6, <2>1
  <2>3. exiting' = [exiting EXCEPT ![o] = e]
    BY <1>6, <1>14, Zenon DEF ExitNext
  <2>4. UNCHANGED <<up, value, polling>>
    BY <1>14 DEF ExitNext, netVars
  <2> HIDE DEF e
  <2> QED BY <1>4, <1>5, <1>6, <2>2, <2>3, <2>4, <1>1 DEF ClientTypeOK, ExitAtInv
<1>15. CASE ExitSend(o)
  <2>1. exiting[o].at \in UUIDs /\ exiting[o].left > 0 /\ exiting[o].left \in Nat
    BY <1>6, <1>15 DEF ExitSend, ExitAtInv
  <2>2. UNCHANGED <<up, value>> /\ polling' \in [Owners -> SUBSET UUIDs]
    BY <1>9, <1>15, <2>1 DEF ExitSend, Methods
  <2>3. exiting' = [exiting EXCEPT ![o] = [exiting[o] EXCEPT !.left = exiting[o].left - 1]]
    BY <1>6, <1>15 DEF ExitSend
  <2>4. /\ [exiting[o] EXCEPT !.left = exiting[o].left - 1]
             \in [on : BOOLEAN, todo : SUBSET UUIDs, at : UUIDs \cup {NoUUID}, left : Nat]
        /\ [exiting[o] EXCEPT !.left = exiting[o].left - 1].at = exiting[o].at
    BY <1>6, <2>1
  <2> QED BY <1>4, <1>5, <1>6, <2>1, <2>2, <2>3, <2>4, <1>1 DEF ClientTypeOK, ExitAtInv
<1>16. CASE ExitDone(o) \/ Crash(o)
  <2>1. /\ up' = [up EXCEPT ![o] = FALSE] /\ value' = [value EXCEPT ![o] = Fresh]
        /\ polling' = [polling EXCEPT ![o] = {}]
        /\ exiting' = [exiting EXCEPT ![o] = NotExiting]
    BY <1>16 DEF ExitDone, Crash
  <2>2. /\ up' \in [Owners -> BOOLEAN] /\ value' \in [Owners -> [UUIDs -> Int]]
        /\ polling' \in [Owners -> SUBSET UUIDs]
    BY <1>5, <1>6, <1>7, <2>1
  <2> QED BY <1>4, <1>7, <1>8, <2>1, <2>2
<1>17. CASE Restart(o)
  <2>1. up' = [up EXCEPT ![o] = TRUE] /\ UNCHANGED <<value, polling, exiting>>
    BY <1>17 DEF Restart, clientVars
  <2> QED BY <1>4, <1>5, <1>6, <1>7, <2>1, <1>1 DEF ClientTypeOK, ExitAtInv
<1> QED BY <1>10, <1>11, <1>12, <1>13, <1>14, <1>15, <1>16, <1>17 DEF ClientStep

-----------------------------------------------------------------------------
(* semsmutex and what is known under it. *)

\* A call that nothing happens to keeps what it knows while its semaphore keeps
\* its state.
LEMMA CallKept ==
  ASSUME call \in [Calls -> CallType], NEW d \in Calls, CallSound(d), call'[d] = call[d],
         call[d].pc \in Answers => conn'[d[1]] = conn[d[1]],
         \A u \in UUIDs : /\ sems[u] # NotCreated => sems'[u] # NotCreated
                          /\ sems[u] = Deleted => sems'[u] = Deleted,
         call[d].pc \in {"check", "enter", "waiting"} /\ call[d].uuid \in Live
           => call[d].uuid \in Live'
  PROVE  CallSound(d)'
BY DEF CallSound, Awaited, Answers

\* A semaphore that changes goes on living, and no other is touched.
LEMMA LiveKept ==
  ASSUME sems \in [UUIDs -> SemaphoreType \cup {NotCreated, Deleted}],
         NEW u \in Live, NEW t \in SemaphoreType, sems' = [sems EXCEPT ![u] = t]
  PROVE  /\ Live' = Live
         /\ \A v \in UUIDs : /\ sems[v] = NotCreated <=> sems'[v] = NotCreated
                             /\ sems[v] = Deleted <=> sems'[v] = Deleted
<1>1. u \in UUIDs /\ sems[u].state = "live"
  BY DEF Live
<1>2. t.state = "live" /\ t # NotCreated /\ t # Deleted
  <2>1. t.state = "live"
    BY DEF SemaphoreType
  <2>2. NotCreated.state = "not created" /\ Deleted.state = "deleted"
    BY DEF NotCreated, Deleted
  <2> QED BY <2>1, <2>2
<1>3. sems[u] # NotCreated /\ sems[u] # Deleted
  BY <1>1, SemCases
<1>4. \A v \in UUIDs : sems'[v] = IF v = u THEN t ELSE sems[v]
  BY <1>1
<1> QED BY <1>1, <1>2, <1>3, <1>4 DEF Live

LEMMA ClientKeeps ==
  ASSUME ServerInv, NEW o \in Owners, ClientStep(o), UNCHANGED serverVars
  PROVE  SemsmutexInv' /\ CallInv' /\ ScanInv' /\ AbortInv'
<1>1. CallsByClient(o)
  BY ClientEffect DEF ServerInv
<1>2. /\ UNCHANGED <<sems, semsmutex, hb, aborted>>
      /\ call \in [Calls -> CallType]
  BY NetType DEF ServerInv, TypeOK, serverVars
<1>3. Live' = Live
  BY <1>2 DEF Live
<1>4. SemsmutexInv'
  <2>1. \A c \in Calls : call'[c].pc = "check" <=> call[c].pc = "check"
    BY <1>1, FreeType DEF CallsByClient, Answers
  <2> QED BY <1>2, <2>1 DEF ServerInv, SemsmutexInv
<1>5. ASSUME NEW d \in Calls PROVE CallSound(d)'
  <2>1. CallSound(d)
    BY DEF ServerInv, CallInv
  <2>2. CASE call'[d] = call[d] /\ (call[d].pc \in Answers => conn'[d[1]] = conn[d[1]])
    BY <1>2, <1>3, <2>1, <2>2, CallKept
  <2>3. CASE call'[d] = FreeCall
    BY <2>3, FreeType DEF CallSound, Answers
  <2>4. CASE /\ call'[d].pc = "sent" /\ call'[d].method \in Methods
             /\ call'[d].method \in {"Delete", "Decrement", "Increment"} =>
                  call'[d].uuid \in UUIDs
    BY <2>4 DEF CallSound, Answers
  <2> QED BY <1>1, <2>2, <2>3, <2>4 DEF CallsByClient
<1>6. ScanInv'
  BY <1>2, <1>3 DEF ServerInv, ScanInv, CopyStillListed
<1>7. AbortInv'
  BY <1>2 DEF ServerInv, AbortInv
<1> QED BY <1>4, <1>5, <1>6, <1>7 DEF CallInv

LEMMA HandlerMutex ==
  ASSUME ServerInv, NEW c \in Calls, HandlerStep(c)
  PROVE  SemsmutexInv'
<1>1. /\ call \in [Calls -> CallType] /\ sems \in [UUIDs -> SemaphoreType \cup {NotCreated, Deleted}]
      /\ call[c].uuid \in UUIDs \cup {NoUUID}
  BY NetType DEF ServerInv, TypeOK, ServerTypeOK, CallType
<1>2. /\ {"lock", "check", "enter", "waiting"} \subseteq CallStates
      /\ {"ok", "error"} = Answers
  BY DEF CallStates, InServer, Answers
<1> HIDE DEF CallStates, Answers
<1>3. /\ \A d \in Calls : semsmutex = d <=> call[d].pc = "check"
      /\ semsmutex = Main <=> hb.pc = "increments"
      /\ Main \notin Calls /\ Nobody \notin Calls /\ Nobody # Main
  BY ServerAssumption DEF ServerInv, SemsmutexInv
<1>4. ASSUME NEW r \in Answers, Answer(c, r)
      PROVE  /\ call'[c].pc # "check"
             /\ \A d \in Calls \ {c} : call'[d] = call[d]
  <2>1. call'[c].pc = r \/ call'[c] = FreeCall
    BY <1>1, <1>4, AnswerCall
  <2> QED BY <1>1, <1>2, <1>4, <2>1, AnswerCall, FreeType
\* semsmutex is left to whoever has it, and no call enters or leaves CheckClient.
<1>5. ASSUME UNCHANGED <<semsmutex, hb>>,
             \A d \in Calls : call'[d].pc = "check" <=> call[d].pc = "check"
      PROVE  SemsmutexInv'
  BY <1>3, <1>5 DEF SemsmutexInv
\* c leaves CheckClient and releases semsmutex.
<1>6. ASSUME call[c].pc = "check", call'[c].pc # "check", semsmutex' = Nobody, hb' = hb,
             \A d \in Calls \ {c} : call'[d] = call[d]
      PROVE  SemsmutexInv'
  BY <1>3, <1>6 DEF SemsmutexInv
<1>7. CASE Accept(c)
  BY <1>1, <1>2, <1>5, <1>7, AtCall DEF Accept, serverVars
<1>8. CASE Create(c)
  <2>1. CASE Answer(c, "error")
    BY <1>1, <1>2, <1>4, <1>5, <1>8, <2>1 DEF Create
  <2>2. ASSUME NEW u \in UUIDs, call' = AnswerIn(call, c, "ok", u)
        PROVE  SemsmutexInv'
    <3>1. call'[c].pc = "ok" \/ call'[c] = FreeCall
      BY <1>1, <1>2, <2>2, AnswerNext
    <3>2. \A d \in Calls \ {c} : call'[d] = call[d]
      BY <1>1, <1>2, <2>2, AnswerNext
    <3> QED BY <1>5, <1>8, <3>1, <3>2, FreeType DEF Create
  <2> QED BY <1>8, <2>1, <2>2 DEF Create
<1>9. CASE Delete(c)
  <2> DEFINE u == call[c].uuid
             orphaned == [d \in Calls |->
                            IF call[d].uuid = u /\ call[d].pc \in {"enter", "waiting"}
                            THEN [call[d] EXCEPT !.pc = "dangling"] ELSE call[d]]
  <2>1. CASE Answer(c, "error")
    BY <1>1, <1>2, <1>4, <1>5, <1>9, <2>1 DEF Delete
  <2>2. CASE call' = AnswerIn(orphaned, c, "ok", u)
    <3>1. orphaned \in [Calls -> CallType]
      BY <1>1 DEF CallType, CallStates, InServer
    <3>2. \A d \in Calls : orphaned[d].pc = "check" <=> call[d].pc = "check"
      BY <1>1 DEF CallType
    <3>3. call'[c].pc = "ok" \/ call'[c] = FreeCall
      BY <1>1, <1>2, <2>2, <3>1, AnswerNext
    <3>4. \A d \in Calls \ {c} : call'[d] = orphaned[d]
      BY <1>1, <1>2, <2>2, <3>1, AnswerNext
    <3> QED BY <1>5, <1>9, <3>2, <3>3, <3>4, FreeType DEF Delete
  <2> QED BY <1>9, <2>1, <2>2 DEF Delete
<1>10. CASE Dump(c)
  BY <1>2, <1>4, <1>5, <1>10 DEF Dump, serverVars
<1>11. CASE LookUp(c)
  <2>1. CASE Answer(c, "error") /\ UNCHANGED semsmutex
    BY <1>2, <1>4, <1>5, <1>11, <2>1 DEF LookUp
  <2>2. CASE At(c, "check") /\ semsmutex' = c
    <3>1. call'[c].pc = "check" /\ \A d \in Calls \ {c} : call'[d] = call[d]
      BY <1>1, <1>2, <2>2, AtCall
    <3> QED BY <1>3, <1>11, <2>2, <3>1 DEF LookUp, SemsmutexInv
  <2> QED BY <1>11, <2>1, <2>2 DEF LookUp
<1>12. CASE CheckFails(c)
  BY <1>2, <1>4, <1>6, <1>12 DEF CheckFails
<1>13. CASE CheckDecrement(c)
  BY <1>1, <1>2, <1>6, <1>13, AtCall DEF CheckDecrement
<1>14. CASE CheckIncrement(c)
  BY <1>2, <1>4, <1>6, <1>14 DEF CheckIncrement
<1>15. CASE Enter(c)
  <2>1. At(c, "waiting") \/ Answer(c, "ok")
    BY <1>15 DEF Enter
  <2>2. call'[c].pc # "check" /\ \A d \in Calls \ {c} : call'[d] = call[d]
    BY <1>1, <1>2, <1>4, <2>1, AtCall
  <2> QED BY <1>5, <1>15, <2>2 DEF Enter
<1>16. CASE Wake(c)
  BY <1>2, <1>4, <1>5, <1>16 DEF Wake
<1>17. CASE DanglingReturn(c)
  BY <1>2, <1>4, <1>5, <1>17 DEF DanglingReturn, serverVars
<1>18. CASE DanglingAbort(c)
  <2>1. \A d \in Calls : call'[d].pc # "check"
    BY <1>2, <1>18, FreeType DEF DanglingAbort
  <2>2. semsmutex' = Nobody /\ hb'.pc = "sleep"
    BY <1>18 DEF DanglingAbort, SleepHB
  <2> QED BY <1>3, <2>1, <2>2 DEF SemsmutexInv
<1> QED
  BY <1>7, <1>8, <1>9, <1>10, <1>11, <1>12, <1>13, <1>14, <1>15, <1>16, <1>17, <1>18
     DEF HandlerStep

\* The handler that ends leaves an answer that says what the server knows, or none.
LEMMA AnswerSound ==
  ASSUME call \in [Calls -> CallType], conn' = conn, NEW c \in Calls, NEW r \in Answers,
         \/ call'[c] = FreeCall
         \/ /\ Awaited(c) /\ call'[c].pc = r /\ call'[c].method \in Methods
            /\ call'[c].method \in {"Delete", "Decrement", "Increment"} =>
                 call'[c].uuid \in UUIDs
            /\ r = "ok" /\ call'[c].method \in {"Decrement", "Increment"} =>
                 sems'[call'[c].uuid] # NotCreated
  PROVE  CallSound(c)'
BY FreeType DEF CallSound, Answers, Awaited

LEMMA HandlerCalls ==
  ASSUME ServerInv, NEW c \in Calls, HandlerStep(c)
  PROVE  CallInv'
<1>1. /\ call \in [Calls -> CallType]
      /\ sems \in [UUIDs -> SemaphoreType \cup {NotCreated, Deleted}]
      /\ call[c].uuid \in UUIDs \cup {NoUUID} /\ c[1] \in Owners
  BY NetType, CallPair DEF ServerInv, TypeOK, ServerTypeOK, CallType
<1>2. /\ {"lock", "check", "enter", "waiting"} \subseteq CallStates
      /\ {"ok", "error"} = Answers
  BY DEF CallStates, InServer, Answers
<1>3. \A d \in Calls : CallSound(d)
  BY DEF ServerInv, CallInv
<1>4. conn' = conn
  BY DEF HandlerStep, Accept, Create, Delete, Dump, LookUp, CheckFails, CheckDecrement,
         CheckIncrement, Enter, Wake, DanglingReturn, DanglingAbort, serverVars
<1>5. call[c].pc # "free" =>
        /\ call[c].method \in Methods
        /\ call[c].method \in {"Delete", "Decrement", "Increment"} => call[c].uuid \in UUIDs
  BY <1>3 DEF CallSound
<1> DEFINE Steady_ == \A u \in UUIDs : /\ sems[u] # NotCreated => sems'[u] # NotCreated
                                       /\ sems[u] = Deleted => sems'[u] = Deleted
                                       /\ u \in Live => u \in Live'
\* The other calls are sound as long as every semaphore keeps its state.
<1>6. ASSUME Steady_, \A d \in Calls \ {c} : call'[d] = call[d], CallSound(c)'
      PROVE  CallInv'
  <2>1. ASSUME NEW d \in Calls, d # c PROVE CallSound(d)'
    <3>1. call[d].pc \in {"check", "enter", "waiting"} /\ call[d].uuid \in Live
            => call[d].uuid \in Live'
      BY <1>6 DEF Live
    <3> QED BY <1>1, <1>3, <1>4, <1>6, <2>1, <3>1, CallKept
  <2> QED BY <1>6, <2>1 DEF CallInv
<1>7. UNCHANGED sems => Steady_
  BY DEF Live
<1>8. ASSUME NEW u \in Live, NEW t \in SemaphoreType, sems' = [sems EXCEPT ![u] = t]
      PROVE  Steady_
  BY <1>1, <1>8, LiveKept
<1> HIDE DEF Steady_, CallStates, Answers
\* An error, and an answer that is the UUID of a semaphore.
<1>9. ASSUME Answer(c, "error"), call[c].pc # "free"
      PROVE  /\ \A d \in Calls \ {c} : call'[d] = call[d]
             /\ CallSound(c)'
  BY <1>1, <1>2, <1>4, <1>5, <1>9, AnswerCall, AnswerSound
<1>10. ASSUME Answer(c, "ok"), call[c].pc # "free",
              call[c].method \in {"Decrement", "Increment"} => sems'[call[c].uuid] # NotCreated
       PROVE  /\ \A d \in Calls \ {c} : call'[d] = call[d]
              /\ CallSound(c)'
  BY <1>1, <1>2, <1>4, <1>5, <1>10, AnswerCall, AnswerSound
<1>11. CASE Accept(c)
  <2>1. UNCHANGED sems /\ call'[c].pc = "lock" /\ call'[c].method = call[c].method
        /\ call'[c].uuid = call[c].uuid /\ \A d \in Calls \ {c} : call'[d] = call[d]
    BY <1>1, <1>2, <1>11, AtCall DEF Accept, serverVars
  <2>2. CallSound(c)'
    BY <1>5, <1>11, <2>1 DEF Accept, CallSound, Answers
  <2> QED BY <1>6, <1>7, <2>1, <2>2
<1>12. CASE Create(c)
  <2>1. CASE Answer(c, "error") /\ UNCHANGED sems
    BY <1>6, <1>7, <1>9, <1>12, <2>1 DEF Create
  <2>2. ASSUME NEW p \in Params, NEW u \in UUIDs, sems[u] = NotCreated,
               sems' = [sems EXCEPT ![u] =
                          [state |-> "live", cur |-> p.cur, min |-> p.min,
                           max |-> p.max, owners |-> [o \in Owners |-> 0],
                           initial |-> p.cur]],
               call' = AnswerIn(call, c, "ok", u)
        PROVE  CallInv'
    <3>1. /\ \A d \in Calls \ {c} : call'[d] = call[d]
          /\ \/ Awaited(c) /\ call'[c].pc = "ok" /\ call'[c].method = "Create"
             \/ call'[c] = FreeCall
      <4>1. u \in UUIDs \cup {NoUUID} /\ call[c].method = "Create"
        BY <1>12 DEF Create
      <4> QED BY <1>1, <1>2, <2>2, <4>1, AnswerNext
    <3>2. CallSound(c)'
      BY <1>1, <1>2, <1>4, <3>1, AnswerSound DEF Methods
    <3>3. \A v \in UUIDs \ {u} : sems'[v] = sems[v]
      BY <2>2
    <3>4. u \notin Live /\ sems[u] # Deleted
      BY <1>1, <2>2, SemCases
    <3>5. sems'[u].state = "live"
      BY <1>1, <2>2
    <3>6. sems'[u] # NotCreated
      <4>1. NotCreated.state = "not created"
        BY DEF NotCreated
      <4> QED BY <3>5, <4>1
    <3>7. Steady_
      BY <3>3, <3>4, <3>5, <3>6, <2>2 DEF Live, Steady_
    <3> QED BY <1>6, <3>1, <3>2, <3>7
  <2> QED BY <1>12, <2>1, <2>2 DEF Create
<1>13. CASE Delete(c)
  <2> DEFINE u == call[c].uuid
             orphaned == [d \in Calls |->
                            IF call[d].uuid = u /\ call[d].pc \in {"enter", "waiting"}
                            THEN [call[d] EXCEPT !.pc = "dangling"] ELSE call[d]]
  <2>1. CASE Answer(c, "error") /\ UNCHANGED sems
    BY <1>6, <1>7, <1>9, <1>13, <2>1 DEF Delete
  <2>2. CASE u \in Live /\ sems' = [sems EXCEPT ![u] = Deleted]
             /\ call' = AnswerIn(orphaned, c, "ok", u)
    <3>1. /\ call[c].pc = "lock" /\ call[c].method = "Delete" /\ u \in UUIDs
          /\ semsmutex = Nobody /\ Nobody \notin Calls
      BY <1>5, <1>13, ServerAssumption DEF Delete
    <3>2. orphaned \in [Calls -> CallType]
      BY <1>1 DEF CallType, CallStates, InServer
    <3>3. /\ \A d \in Calls \ {c} : call'[d] = orphaned[d]
          /\ \/ Awaited(c) /\ call'[c].pc = "ok" /\ call'[c].method = "Delete"
                /\ call'[c].uuid = u
             \/ call'[c] = FreeCall
      <4>1. orphaned[c].method = "Delete"
        BY <3>1
      <4>2. call' = AnswerIn(orphaned, c, "ok", u)
        BY <2>2
      <4> HIDE DEF orphaned
      <4>3. /\ \A d \in Calls \ {c} : call'[d] = orphaned[d]
            /\ \/ /\ Awaited(c) /\ call'[c].pc = "ok"
                  /\ call'[c].method = orphaned[c].method /\ call'[c].uuid = u
               \/ ~Awaited(c) /\ call'[c] = FreeCall
        BY <1>1, <1>2, <3>2, <4>2, AnswerNext
      <4> QED BY <4>1, <4>3
    <3>4. CallSound(c)'
      BY <1>1, <1>2, <1>4, <3>1, <3>3, AnswerSound DEF Methods
    <3>5. /\ \A v \in UUIDs \ {u} : sems'[v] = sems[v]
          /\ sems'[u] = Deleted /\ sems[u] # NotCreated /\ Deleted # NotCreated
      BY <1>1, <2>2, <3>1, SemCases
    <3>6. \A v \in UUIDs : /\ sems[v] # NotCreated => sems'[v] # NotCreated
                           /\ sems[v] = Deleted => sems'[v] = Deleted
      BY <3>5
    <3>7. \A v \in UUIDs \ {u} : v \in Live => v \in Live'
      BY <3>5 DEF Live
    <3>8. ASSUME NEW d \in Calls, d # c PROVE CallSound(d)'
      <4>1. CASE call[d].uuid = u /\ call[d].pc \in {"enter", "waiting"}
        <5>1. call'[d] = [call[d] EXCEPT !.pc = "dangling"]
          BY <3>3, <3>8, <4>1
        <5>2. /\ call'[d].pc = "dangling" /\ call'[d].method = call[d].method
              /\ call'[d].uuid = u
          BY <1>1, <4>1, <5>1 DEF CallType
        <5>3. call[d].method = "Decrement"
          BY <1>3, <4>1 DEF CallSound
        <5> QED BY <3>1, <3>5, <5>2, <5>3 DEF CallSound, Answers, Methods
      <4>2. CASE ~(call[d].uuid = u /\ call[d].pc \in {"enter", "waiting"})
        <5>1. call'[d] = call[d]
          BY <3>3, <3>8, <4>2
        <5>2. call[d].pc # "check"
          BY <3>1 DEF ServerInv, SemsmutexInv
        <5>3. call[d].pc \in {"check", "enter", "waiting"} /\ call[d].uuid \in Live
                => call[d].uuid \in Live'
          BY <3>7, <4>2, <5>2 DEF Live
        <5> QED BY <1>1, <1>3, <1>4, <3>6, <5>1, <5>3, CallKept
      <4> QED BY <4>1, <4>2
    <3> QED BY <3>4, <3>8 DEF CallInv
  <2> QED BY <1>13, <2>1, <2>2 DEF Delete
<1>14. CASE Dump(c)
  <2>1. UNCHANGED sems /\ Answer(c, "ok") /\ call[c].pc # "free"
        /\ call[c].method \notin {"Decrement", "Increment"}
    BY <1>14 DEF Dump, serverVars
  <2> QED BY <1>6, <1>7, <1>10, <2>1
<1>15. CASE LookUp(c)
  <2>1. UNCHANGED sems /\ call[c].pc # "free"
    BY <1>15 DEF LookUp
  <2>2. CASE Answer(c, "error")
    BY <1>6, <1>7, <1>9, <2>1, <2>2
  <2>3. CASE At(c, "check") /\ call[c].uuid \in Live
    <3>1. /\ call'[c].pc = "check" /\ call'[c].method = call[c].method
          /\ call'[c].uuid = call[c].uuid /\ \A d \in Calls \ {c} : call'[d] = call[d]
      BY <1>1, <1>2, <2>3, AtCall
    <3>2. CallSound(c)'
      BY <1>5, <1>15, <2>1, <2>3, <3>1 DEF LookUp, CallSound, Answers, Live
    <3> QED BY <1>6, <1>7, <2>1, <3>1, <3>2
  <2> QED BY <1>15, <2>2, <2>3 DEF LookUp
<1>16. CASE CheckFails(c)
  <2>1. UNCHANGED sems /\ call[c].pc # "free" /\ Answer(c, "error")
    BY <1>16 DEF CheckFails
  <2> QED BY <1>6, <1>7, <1>9, <2>1
<1>17. CASE CheckDecrement(c)
  <2>1. UNCHANGED sems /\ call[c].pc = "check" /\ call[c].method = "Decrement"
        /\ call[c].uuid \in Live /\ At(c, "enter")
    BY <1>3, <1>17 DEF CheckDecrement, CallSound
  <2>2. /\ call'[c].pc = "enter" /\ call'[c].method = call[c].method
        /\ call'[c].uuid = call[c].uuid /\ \A d \in Calls \ {c} : call'[d] = call[d]
    BY <1>1, <1>2, <2>1, AtCall
  <2>3. CallSound(c)'
    BY <1>5, <2>1, <2>2 DEF CallSound, Answers, Live
  <2> QED BY <1>6, <1>7, <2>1, <2>2, <2>3
<1>18. ASSUME call[c].uuid \in Live
       PROVE  call[c].uuid \in UUIDs /\ sems[call[c].uuid] \in SemaphoreType
  BY <1>1, <1>18, SemCases DEF Live
<1>19. ASSUME NEW t \in SemaphoreType, call[c].uuid \in Live,
              sems' = [sems EXCEPT ![call[c].uuid] = t]
       PROVE  sems'[call[c].uuid] # NotCreated /\ Live' = Live
  BY <1>1, <1>18, <1>19, LiveKept, SemCases
<1>20. CASE CheckIncrement(c)
  <2>1. /\ call[c].uuid \in Live /\ call[c].pc # "free" /\ Answer(c, "ok")
        /\ sems' = [sems EXCEPT ![call[c].uuid] = Incremented(sems[call[c].uuid], c[1])]
    BY <1>3, <1>20 DEF CheckIncrement, CallSound
  <2>2. Incremented(sems[call[c].uuid], c[1]) \in SemaphoreType
    BY <1>1, <1>18, <2>1, SemIncrement
  <2>3. Steady_ /\ sems'[call[c].uuid] # NotCreated
    BY <1>8, <1>19, <2>1, <2>2
  <2> QED BY <1>6, <1>10, <2>1, <2>3
<1>21. CASE Enter(c)
  <2> DEFINE u == call[c].uuid
             s == Listed(sems[u], c[1])
  <2>1. /\ u \in Live /\ call[c].pc # "free" /\ call[c].method = "Decrement"
    BY <1>3, <1>21 DEF Enter, CallSound
  <2>2. s \in SemaphoreType /\ Granted(s) \in SemaphoreType
    BY <1>1, <1>18, <2>1, SemSteps
  <2> HIDE DEF s
  <2>3. CASE sems' = [sems EXCEPT ![u] = s] /\ At(c, "waiting")
    <3>1. /\ call'[c].pc = "waiting" /\ call'[c].method = call[c].method
          /\ call'[c].uuid = call[c].uuid /\ \A d \in Calls \ {c} : call'[d] = call[d]
      BY <1>1, <1>2, <2>3, AtCall
    <3>2. Steady_ /\ sems'[u] # NotCreated /\ Live' = Live
      BY <1>8, <1>19, <2>1, <2>2, <2>3
    <3>3. CallSound(c)'
      BY <1>5, <2>1, <3>1, <3>2 DEF CallSound, Answers
    <3> QED BY <1>6, <3>1, <3>2, <3>3
  <2>4. CASE sems' = [sems EXCEPT ![u] = Granted(s)] /\ Answer(c, "ok")
    <3>1. Steady_ /\ sems'[u] # NotCreated
      BY <1>8, <1>19, <2>1, <2>2, <2>4
    <3> QED BY <1>6, <1>10, <2>1, <2>4, <3>1
  <2> QED BY <1>21, <2>3, <2>4 DEF Enter, s
<1>22. CASE Wake(c)
  <2>1. /\ call[c].uuid \in Live /\ call[c].pc # "free" /\ Answer(c, "ok")
        /\ sems' = [sems EXCEPT ![call[c].uuid] = Granted(sems[call[c].uuid])]
    BY <1>3, <1>22 DEF Wake, CallSound
  <2>2. Granted(sems[call[c].uuid]) \in SemaphoreType
    BY <1>1, <1>18, <2>1, SemSteps
  <2>3. Steady_ /\ sems'[call[c].uuid] # NotCreated
    BY <1>8, <1>19, <2>1, <2>2
  <2> QED BY <1>6, <1>10, <2>1, <2>3
<1>23. CASE DanglingReturn(c)
  <2>1. /\ UNCHANGED sems /\ call[c].pc # "free" /\ Answer(c, "ok")
        /\ sems[call[c].uuid] = Deleted
    BY <1>3, <1>23 DEF DanglingReturn, serverVars, CallSound
  <2>2. Deleted # NotCreated
    BY DEF Deleted, NotCreated
  <2> QED BY <1>6, <1>7, <1>10, <2>1, <2>2
<1>24. CASE DanglingAbort(c)
  <2>1. ASSUME NEW d \in Calls PROVE CallSound(d)'
    <3>1. CASE call[d].pc \in Answers
      <4>1. call'[d] = call[d]
        BY <1>24, <3>1 DEF DanglingAbort
      <4>2. \A u \in UUIDs : sems'[u] = Deleted /\ Deleted # NotCreated
        BY <1>24 DEF DanglingAbort, Deleted, NotCreated
      <4>3. call[d].pc \notin {"check", "enter", "waiting"}
        BY <3>1 DEF Answers
      <4> QED BY <1>1, <1>3, <1>4, <4>1, <4>2, <4>3, CallKept
    <3>2. CASE call[d].pc \notin Answers
      <4>1. call'[d] = FreeCall
        BY <1>24, <3>2 DEF DanglingAbort
      <4> QED BY <1>1, <1>2, <1>4, <4>1, AnswerSound
    <3> QED BY <3>1, <3>2
  <2> QED BY <2>1 DEF CallInv
<1> QED
  BY <1>11, <1>12, <1>13, <1>14, <1>15, <1>16, <1>17, <1>20, <1>21, <1>22, <1>23, <1>24
     DEF HandlerStep

LEMMA HandlerScan ==
  ASSUME ServerInv, NEW c \in Calls, HandlerStep(c)
  PROVE  ScanInv'
<1>1. /\ call \in [Calls -> CallType]
      /\ sems \in [UUIDs -> SemaphoreType \cup {NotCreated, Deleted}]
      /\ c[1] \in Owners
  BY NetType, CallPair DEF ServerInv, TypeOK, ServerTypeOK
<1>2. CallSound(c) /\ ScanInv /\ Main # Nobody
  BY ServerAssumption DEF ServerInv, CallInv
<1>3. hb.pc = "increments" => semsmutex = Main
  BY DEF ServerInv, SemsmutexInv
<1>4. semsmutex # Main => hb.pc # "increments" /\ hb.k = 0
  BY <1>2, <1>3 DEF ScanInv
<1>5. CASE semsmutex # Main /\ hb' = hb
  BY <1>2, <1>4, <1>5 DEF ScanInv, CopyStillListed
<1>6. ASSUME hb' = hb, UNCHANGED sems PROVE ScanInv'
  BY <1>2, <1>6 DEF ScanInv, CopyStillListed, Live
<1>7. ASSUME hb' = hb, NEW u \in Live, NEW t \in SemaphoreType, sems' = [sems EXCEPT ![u] = t],
             \A o \in Owners : t.owners[o] >= sems[u].owners[o]
      PROVE  ScanInv'
  <2>1. Live' = Live
    BY <1>1, <1>7, LiveKept
  <2>2. \A v \in Live : v \in UUIDs /\ sems'[v] = IF v = u THEN t ELSE sems[v]
    BY <1>1, <1>7 DEF Live
  <2>3. ASSUME hb.k > 0
        PROVE  hb.at \in Live /\ hb.k <= sems'[hb.at].owners[hb.o]
    <3>1. hb.at \in Live /\ hb.k <= sems[hb.at].owners[hb.o] /\ hb.o \in Owners
      BY <1>2, <2>3 DEF ScanInv, CopyStillListed
    <3>2. /\ sems[hb.at].owners[hb.o] \in Nat /\ hb.k \in Nat
      BY <1>1, <3>1, SemCases DEF ServerInv, TypeOK, ServerTypeOK, SemaphoreType, Live
    <3>3. t.owners[hb.o] \in Nat
      BY <3>1 DEF SemaphoreType
    <3>4. sems'[hb.at].owners[hb.o] >= sems[hb.at].owners[hb.o]
      BY <1>7, <2>2, <3>1, <3>2
    <3>5. sems'[hb.at].owners[hb.o] \in Nat
      BY <2>2, <3>1, <3>2, <3>3
    <3> QED BY <3>1, <3>2, <3>4, <3>5
  <2> QED BY <1>2, <1>7, <2>1, <2>3 DEF ScanInv, CopyStillListed
<1>8. CASE Create(c) \/ Delete(c) \/ LookUp(c)
  <2>1. semsmutex = Nobody /\ hb' = hb
    BY <1>8 DEF Create, Delete, LookUp
  <2> QED BY <1>2, <1>5, <2>1
<1>9. CASE CheckFails(c) \/ CheckDecrement(c) \/ CheckIncrement(c)
  <2>1. call[c].pc = "check" /\ hb' = hb
    BY <1>9 DEF CheckFails, CheckDecrement, CheckIncrement
  <2>2. semsmutex = c /\ Main \notin Calls
    BY <2>1, ServerAssumption DEF ServerInv, SemsmutexInv
  <2> QED BY <1>5, <2>1, <2>2
<1>10. CASE Accept(c) \/ Dump(c) \/ DanglingReturn(c)
  <2>1. UNCHANGED <<hb, sems>>
    BY <1>10 DEF Accept, Dump, DanglingReturn, serverVars
  <2> QED BY <1>6, <2>1
<1>11. ASSUME call[c].uuid \in Live
       PROVE  sems[call[c].uuid] \in SemaphoreType
  BY <1>1, <1>11, SemCases DEF Live
<1>12. CASE Enter(c)
  <2> DEFINE u == call[c].uuid
             s == Listed(sems[u], c[1])
  <2>1. u \in Live /\ hb' = hb
    BY <1>2, <1>12 DEF Enter, CallSound
  <2>2. /\ s \in SemaphoreType /\ Granted(s) \in SemaphoreType
        /\ s.owners = [sems[u].owners EXCEPT ![c[1]] = @ + 1]
        /\ Granted(s).owners = s.owners
    BY <1>1, <1>11, <2>1, SemSteps
  <2>3. sems' = [sems EXCEPT ![u] = s] \/ sems' = [sems EXCEPT ![u] = Granted(s)]
    BY <1>12 DEF Enter
  <2>4. sems[u].owners \in [Owners -> Nat]
    BY <1>11, <2>1 DEF SemaphoreType
  <2> HIDE DEF s
  <2>5. \A o \in Owners : s.owners[o] >= sems[u].owners[o]
    BY <2>2, <2>4
  <2> QED BY <1>7, <2>1, <2>2, <2>3, <2>5
<1>13. CASE Wake(c)
  <2>1. call[c].uuid \in Live /\ hb' = hb
    BY <1>2, <1>13 DEF Wake, CallSound
  <2>2. /\ Granted(sems[call[c].uuid]) \in SemaphoreType
        /\ Granted(sems[call[c].uuid]).owners = sems[call[c].uuid].owners
    BY <1>1, <1>11, <2>1, SemSteps
  <2>3. sems' = [sems EXCEPT ![call[c].uuid] = Granted(sems[call[c].uuid])]
    BY <1>13 DEF Wake
  <2>4. sems[call[c].uuid].owners \in [Owners -> Nat]
    BY <1>11, <2>1 DEF SemaphoreType
  <2>5. \A o \in Owners : sems[call[c].uuid].owners[o] >= sems[call[c].uuid].owners[o]
    BY <2>4
  <2> QED BY <1>7, <2>1, <2>2, <2>3, <2>5
<1>14. CASE DanglingAbort(c)
  <2>1. hb' = SleepHB
    BY <1>14 DEF DanglingAbort
  <2> QED BY <2>1 DEF ScanInv, CopyStillListed, SleepHB
<1> QED BY <1>8, <1>9, <1>10, <1>12, <1>13, <1>14 DEF HandlerStep

LEMMA HandlerKeeps ==
  ASSUME ServerInv, NEW c \in Calls, HandlerStep(c), ~aborted, UNCHANGED clientVars
  PROVE  ServerInv'
<1>1. AbortInv'
  <2>1. CASE DanglingAbort(c)
    BY <2>1 DEF DanglingAbort, AbortInv
  <2>2. CASE ~DanglingAbort(c)
    <3>1. aborted' = aborted
      BY <2>2 DEF HandlerStep, Accept, Create, Delete, Dump, LookUp, CheckFails,
                  CheckDecrement, CheckIncrement, Enter, Wake, DanglingReturn, serverVars
    <3> QED BY <3>1 DEF AbortInv
  <2> QED BY <2>1, <2>2
<1>2. ClientTypeOK' /\ ExitAtInv'
  BY DEF ServerInv, TypeOK, ClientTypeOK, ExitAtInv, clientVars
<1>3. NetTypeOK' /\ ServerTypeOK'
  BY HandlerType DEF ServerInv
<1> QED
  BY <1>1, <1>2, <1>3, HandlerMutex, HandlerCalls, HandlerScan DEF ServerInv, TypeOK

LEMMA HeartbeatKeeps ==
  ASSUME ServerInv, HeartbeatStep, ~aborted, UNCHANGED clientVars
  PROVE  ServerInv'
<1>1. /\ call \in [Calls -> CallType] /\ hb.k \in Nat
      /\ sems \in [UUIDs -> SemaphoreType \cup {NotCreated, Deleted}]
  BY NetType DEF ServerInv, TypeOK, ServerTypeOK
<1>2. UNCHANGED <<call, conn, aborted>>
  BY DEF HeartbeatStep, ScanStart, ScanAlive, ScanDead, DisconnectLock, DisconnectCopy,
         DisconnectIncrement, DisconnectDone, netVars
<1>3. ScanInv /\ CallInv /\ SemsmutexInv
  BY DEF ServerInv
<1>4. Main # Nobody /\ Main \notin Calls /\ Nobody \notin Calls
  BY ServerAssumption
<1>5. \A o \in Owners : Scanned(hb, o).pc # "increments" /\ Scanned(hb, o).k = 0
                        /\ Scanned(hb, o).pc # "disconnect"
  BY DEF Scanned, SleepHB
<1>6. SemsmutexInv' /\ CallInv' /\ ScanInv'
  <2>1. UNCHANGED sems => CallInv'
    BY <1>2, <1>3 DEF CallInv, CallSound, Awaited, Live
\* The steps outside DisconnectClient.
  <2>2. ASSUME UNCHANGED <<sems, semsmutex>>, hb.pc # "increments", hb'.pc # "increments",
               hb'.k = 0, hb'.pc = "disconnect" => hb'.o \in Owners
        PROVE  SemsmutexInv' /\ CallInv' /\ ScanInv'
    BY <1>2, <1>3, <2>1, <2>2 DEF SemsmutexInv, ScanInv, CopyStillListed
  <2>3. CASE ScanStart
    <3>1. hb'.pc \in {"sleep", "scan"} /\ hb'.k = hb.k
      BY <1>1, <2>3 DEF ScanStart, ServerInv, TypeOK, ServerTypeOK
    <3> QED BY <1>3, <2>2, <2>3, <3>1 DEF ScanStart, ScanInv
  <2>4. ASSUME NEW o \in Owners, ScanAlive(o)
        PROVE  SemsmutexInv' /\ CallInv' /\ ScanInv'
    BY <1>5, <2>2, <2>4 DEF ScanAlive
  <2>5. ASSUME NEW o \in Owners, ScanDead(o)
        PROVE  SemsmutexInv' /\ CallInv' /\ ScanInv'
    <3>1. hb' = Scanned(hb, o) \/ hb' = [hb EXCEPT !.pc = "disconnect", !.o = o]
      BY <2>5 DEF ScanDead
    <3>2. hb.k = 0
      BY <1>3, <2>5 DEF ScanInv, ScanDead
    <3>3. [hb EXCEPT !.pc = "disconnect", !.o = o].pc = "disconnect"
          /\ [hb EXCEPT !.pc = "disconnect", !.o = o].o = o
          /\ [hb EXCEPT !.pc = "disconnect", !.o = o].k = hb.k
      BY DEF ServerInv, TypeOK, ServerTypeOK
    <3>4. hb'.pc # "increments" /\ hb'.k = 0 /\ (hb'.pc = "disconnect" => hb'.o \in Owners)
      BY <1>5, <3>1, <3>2, <3>3
    <3> QED BY <2>2, <2>5, <3>4 DEF ScanDead
  <2>6. CASE DisconnectLock
    <3>1. hb'.pc = "increments" /\ hb'.left = Live /\ hb'.k = hb.k /\ hb'.o = hb.o
      BY <2>6 DEF DisconnectLock, ServerInv, TypeOK, ServerTypeOK
    <3>2. \A c \in Calls : call[c].pc # "check"
      BY <1>3, <1>4, <2>6 DEF DisconnectLock, SemsmutexInv
    <3>3. SemsmutexInv'
      BY <1>2, <1>4, <2>6, <3>1, <3>2 DEF DisconnectLock, SemsmutexInv
    <3>4. ScanInv'
      BY <1>3, <2>6, <3>1 DEF DisconnectLock, ScanInv, CopyStillListed, Live
    <3> QED BY <2>1, <2>6, <3>3, <3>4 DEF DisconnectLock
  <2>7. ASSUME NEW u \in UUIDs, DisconnectCopy(u)
        PROVE  SemsmutexInv' /\ CallInv' /\ ScanInv'
    <3>1. /\ hb'.pc = "increments" /\ hb'.left = hb.left \ {u} /\ hb'.at = u
          /\ hb'.k = sems[u].owners[hb.o] /\ hb'.o = hb.o
      BY <2>7 DEF DisconnectCopy, ServerInv, TypeOK, ServerTypeOK
    <3>2. /\ u \in Live /\ hb.pc = "increments" /\ hb.o \in Owners
      BY <1>3, <2>7 DEF DisconnectCopy, ScanInv
    <3>3. sems[u].owners[hb.o] \in Nat
      BY <1>1, <3>2, SemCases DEF SemaphoreType
    <3>4. SemsmutexInv'
      BY <1>2, <1>3, <2>7, <3>1, <3>2 DEF DisconnectCopy, SemsmutexInv
    <3>5. ScanInv'
      BY <1>3, <2>7, <3>1, <3>2, <3>3 DEF DisconnectCopy, ScanInv, CopyStillListed, Live
    <3> QED BY <2>1, <2>7, <3>4, <3>5 DEF DisconnectCopy
  <2>8. CASE DisconnectIncrement
    <3> DEFINE u == hb.at
               t == Incremented(sems[u], hb.o)
    <3>1. /\ hb'.pc = "increments" /\ hb.pc = "increments" /\ hb'.left = hb.left
          /\ hb'.at = u /\ hb'.k = hb.k - 1 /\ hb'.o = hb.o
      BY <2>8 DEF DisconnectIncrement, ServerInv, TypeOK, ServerTypeOK
    <3>2. hb.k > 0 /\ u \in Live /\ u \in UUIDs /\ hb.o \in Owners
          /\ hb.k <= sems[u].owners[hb.o]
      BY <1>3, <2>8 DEF DisconnectIncrement, ScanInv, CopyStillListed, Live
    <3>3. sems[u] \in SemaphoreType
      BY <1>1, <3>2, SemCases
    <3>4. sems[u].owners \in [Owners -> Nat]
      BY <3>3 DEF SemaphoreType
    <3>5. sems[u].owners[hb.o] \in Nat
      BY <3>2, <3>4
    <3>6. sems[u].owners[hb.o] # 0
      BY <1>1, <3>2, <3>5
    <3>7. t \in SemaphoreType /\ t.owners = [sems[u].owners EXCEPT ![hb.o] = @ - 1]
      BY <3>2, <3>3, <3>6, SemIncrement
    <3>8. sems' = [sems EXCEPT ![u] = t]
      BY <2>8 DEF DisconnectIncrement
    <3> HIDE DEF t
    <3>9. Live' = Live /\ \A v \in UUIDs : /\ sems[v] = NotCreated <=> sems'[v] = NotCreated
                                           /\ sems[v] = Deleted <=> sems'[v] = Deleted
      BY <1>1, <3>2, <3>7, <3>8, LiveKept
    <3>10. SemsmutexInv'
      BY <1>2, <1>3, <2>8, <3>1 DEF DisconnectIncrement, SemsmutexInv
    <3>11. CallInv'
      BY <1>1, <1>2, <1>3, <3>9, CallKept DEF CallInv
    <3>12. sems'[u].owners[hb.o] = sems[u].owners[hb.o] - 1
      BY <1>1, <3>2, <3>4, <3>7, <3>8
    <3>13. hb.k - 1 <= sems'[u].owners[hb.o]
      BY <1>1, <3>2, <3>5, <3>12
    <3>14. ScanInv'
      BY <1>3, <3>1, <3>2, <3>9, <3>13 DEF ScanInv, CopyStillListed
    <3> QED BY <3>10, <3>11, <3>14
  <2>9. CASE DisconnectDone
    <3>1. hb.o \in Owners /\ hb' = Scanned(hb, hb.o)
      BY <1>3, <2>9 DEF DisconnectDone, ScanInv
    <3>2. hb'.pc # "increments" /\ hb'.pc # "disconnect" /\ hb'.k = 0
      BY <1>5, <3>1
    <3>3. \A c \in Calls : call[c].pc # "check"
      BY <1>3, <1>4, <2>9 DEF DisconnectDone, SemsmutexInv
    <3>4. SemsmutexInv'
      BY <1>2, <1>4, <2>9, <3>2, <3>3 DEF DisconnectDone, SemsmutexInv
    <3>5. ScanInv'
      BY <2>9, <3>2 DEF DisconnectDone, ScanInv, CopyStillListed
    <3> QED BY <2>1, <2>9, <3>4, <3>5 DEF DisconnectDone
  <2> QED BY <2>3, <2>4, <2>5, <2>6, <2>7, <2>8, <2>9 DEF HeartbeatStep
<1>7. ClientTypeOK' /\ ExitAtInv' /\ AbortInv'
  BY <1>2 DEF ServerInv, TypeOK, ClientTypeOK, ExitAtInv, clientVars, AbortInv
<1>8. NetTypeOK' /\ ServerTypeOK'
  BY HeartbeatType DEF ServerInv
<1> QED BY <1>6, <1>7, <1>8 DEF ServerInv, TypeOK

LEMMA RefuseKeeps ==
  ASSUME ServerInv, NEW c \in Calls, Refuse(c), UNCHANGED clientVars
  PROVE  ServerInv'
<1>1. /\ call \in [Calls -> CallType] /\ call[c].pc = "sent"
      /\ call' = [call EXCEPT ![c] = FreeCall]
      /\ UNCHANGED <<sems, semsmutex, hb, ohbcount, aborted, missed, up, conn, clientVars>>
  BY NetType DEF ServerInv, TypeOK, Refuse, serverVars
<1>2. call'[c] = FreeCall /\ \A d \in Calls \ {c} : call'[d] = call[d]
  BY <1>1
<1>3. TypeOK'
  BY <1>1, FreeType DEF ServerInv, TypeOK, NetTypeOK, ServerTypeOK, ClientTypeOK, CallType,
                       clientVars
<1>4. SemsmutexInv'
  BY <1>1, <1>2, FreeType DEF ServerInv, SemsmutexInv
<1>5. Live' = Live
  BY <1>1 DEF Live
<1>6. ASSUME NEW d \in Calls PROVE CallSound(d)'
  <2>1. CallSound(d)
    BY DEF ServerInv, CallInv
  <2>2. CASE d = c
    BY <1>2, <2>2, FreeType DEF CallSound, Answers
  <2>3. CASE d # c
    BY <1>1, <1>2, <1>5, <2>1, <2>3, CallKept
  <2> QED BY <2>2, <2>3
<1>7. ScanInv' /\ AbortInv' /\ ExitAtInv'
  BY <1>1, <1>5 DEF ServerInv, ScanInv, CopyStillListed, AbortInv, ExitAtInv, clientVars
<1> QED BY <1>3, <1>4, <1>6, <1>7 DEF ServerInv, CallInv

LEMMA ServerInit_ == Init => ServerInv
<1> SUFFICES ASSUME Init PROVE ServerInv
  OBVIOUS
<1>1. /\ \A c \in Calls : call[c] = FreeCall
      /\ semsmutex = Nobody /\ hb = SleepHB /\ aborted = FALSE
      /\ \A o \in Owners : exiting[o] = NotExiting
  BY DEF Init, NetInit, ServerInit, ClientInit
<1>2. SemsmutexInv
  BY <1>1, FreeType, ServerAssumption DEF SemsmutexInv, SleepHB
<1>3. CallInv
  BY <1>1, FreeType DEF CallInv, CallSound, Answers
<1>4. ScanInv /\ AbortInv /\ ExitAtInv
  BY <1>1 DEF ScanInv, CopyStillListed, SleepHB, AbortInv, ExitAtInv, NotExiting
<1> QED BY <1>2, <1>3, <1>4, TypeInit DEF ServerInv

LEMMA ServerStep == ServerInv /\ [Next]_vars => ServerInv'
<1> SUFFICES ASSUME ServerInv, [Next]_vars PROVE ServerInv'
  OBVIOUS
<1>1. ASSUME NEW o \in Owners, ClientStep(o), UNCHANGED serverVars
      PROVE  ServerInv'
  <2>1. SemsmutexInv' /\ CallInv' /\ ScanInv' /\ AbortInv'
    BY <1>1, ClientKeeps
  <2>2. NetTypeOK' /\ ClientTypeOK' /\ ExitAtInv'
    BY <1>1, ClientTypes DEF ServerInv
  <2>3. ServerTypeOK'
    BY <1>1 DEF ServerInv, TypeOK, ServerTypeOK, serverVars
  <2> QED BY <2>1, <2>2, <2>3 DEF ServerInv, TypeOK
<1>2. CASE ServerNext /\ UNCHANGED clientVars
  BY <1>2, HandlerKeeps, HeartbeatKeeps, RefuseKeeps DEF ServerNext
<1>3. CASE UNCHANGED vars
  BY <1>3 DEF vars, netVars, serverVars, clientVars, ServerInv, TypeOK, NetTypeOK,
              ServerTypeOK, ClientTypeOK, SemsmutexInv, CallInv, CallSound, Awaited, ScanInv,
              CopyStillListed, AbortInv, ExitAtInv, Live
<1> QED BY <1>1, <1>2, <1>3 DEF Next, ClientNext

LEMMA ServerSafe == Spec => []ServerInv
BY ServerInit_, ServerStep, PTL DEF Spec

\* Every variable of the server, the network and the clients keeps its range.
THEOREM TypeCorrect == Spec => []TypeOK
<1>1. ServerInv => TypeOK
  BY DEF ServerInv
<1> QED BY <1>1, ServerSafe, PTL

\* DisconnectClient increments only for entries that are still there, on semaphores
\* that still are: what it copied under semsmutex stays so until it unlocks it.
THEOREM CopyStays == Spec => []CopyStillListed
<1>1. ServerInv => CopyStillListed
  BY DEF ServerInv, ScanInv
<1> QED BY <1>1, ServerSafe, PTL
=============================================================================
