----------------------------- MODULE UnitProofs -----------------------------
(***************************************************************************)
(* The semaphores of the server, for every number of clients, calls,       *)
(* threads and semaphores and whatever may fail: each is an abstract       *)
(* semaphore with an owner list (module OwnedSemaphore), and from what     *)
(* that module alone promises, no unit appears from nowhere.               *)
(***************************************************************************)
EXTENDS SystemProofs

\* increment(o) is about to be called: by the handler of an Increment of o, or by
\* the main thread in DisconnectClient(o).
GivesBack(o) == \/ \E c \in Calls : c[1] = o /\ call[c].pc = "check"
                \/ hb.pc = "increments" /\ hb.o = o

\* The steps of the abstract semaphore, and who gives back.
OwnedStep(u) == \/ \E c \in Calls : \/ OS(u)!Request(c) \/ OS(u)!Grant(c)
                                    \/ OS(u)!GrantAtOnce(c)
                \/ \E o \in Owners : OS(u)!GiveBack(o) /\ GivesBack(o)

\* What a step may do to one semaphore: what the abstract one may do, and to its
\* history variable nothing; it is new with a unit for each of CurrentVal.
SemaphoreStep(u) ==
  /\ u \in Live /\ u \in Live' =>
       /\ sems'[u].initial = sems[u].initial
       /\ OwnedStep(u) \/ UNCHANGED OS(u)!osvars
  /\ u \notin Live /\ u \in Live' =>
       /\ sems'[u].initial = sems'[u].cur
       /\ sems'[u].min <= sems'[u].max
       /\ OS(u)!OSInit'

LEMMA OwnedSteps == \A u \in UUIDs : OwnedStep(u) => OS(u)!OSNext
BY DEF OwnedStep, OS!OSNext

\* The step of another semaphore, or of none.
LEMMA StepElsewhere ==
  ASSUME NEW u \in UUIDs, sems'[u] = sems[u], WaitingOn(u)' = WaitingOn(u)
  PROVE  SemaphoreStep(u)
BY DEF SemaphoreStep, OS!osvars, Live

LEMMA SameWaiting ==
  ASSUME call \in [Calls -> CallType], call' \in [Calls -> CallType], NEW u \in UUIDs,
         \A d \in Calls : (call'[d].pc = "waiting" /\ call'[d].uuid = u)
                            <=> (call[d].pc = "waiting" /\ call[d].uuid = u)
  PROVE  WaitingOn(u)' = WaitingOn(u)
BY DEF WaitingOn

LEMMA QuietSteps ==
  ASSUME call \in [Calls -> CallType], call' \in [Calls -> CallType], UNCHANGED sems,
         \A d \in Calls : \/ call'[d] = call[d]
                          \/ call'[d].pc # "waiting" /\ call[d].pc # "waiting"
  PROVE  \A u \in UUIDs : SemaphoreStep(u)
<1>1. ASSUME NEW u \in UUIDs, NEW d \in Calls
      PROVE  (call'[d].pc = "waiting" /\ call'[d].uuid = u)
               <=> (call[d].pc = "waiting" /\ call[d].uuid = u)
  OBVIOUS
<1>2. \A u \in UUIDs : WaitingOn(u)' = WaitingOn(u)
  BY <1>1, SameWaiting
<1> QED BY <1>2, StepElsewhere

\* increment(o), from a handler or from the main thread.
LEMMA IncrementStep ==
  ASSUME sems \in [UUIDs -> SemaphoreType \cup {NotCreated, Deleted}],
         NEW u \in Live, NEW o \in Owners, GivesBack(o),
         sems' = [sems EXCEPT ![u] = Incremented(sems[u], o)],
         \A v \in UUIDs : WaitingOn(v)' = WaitingOn(v)
  PROVE  \A v \in UUIDs : SemaphoreStep(v)
<1>1. u \in UUIDs /\ sems[u] \in SemaphoreType
  BY SemCases DEF Live
<1>2. ASSUME NEW v \in UUIDs, v # u PROVE SemaphoreStep(v)
  <2>1. sems'[v] = sems[v]
    BY <1>2
  <2> QED BY <2>1, StepElsewhere
<1>3. SemaphoreStep(u)
  <2>1. CASE sems[u].owners[o] = 0
    <3>1. Incremented(sems[u], o) = sems[u]
      BY <2>1 DEF Incremented
    <3>2. sems'[u] = sems[u]
      BY <1>1, <3>1
    <3> QED BY <1>1, <3>2, StepElsewhere
  <2>2. CASE sems[u].owners[o] # 0
    <3> DEFINE t == Incremented(sems[u], o)
    <3>1. /\ sems[u].owners[o] > 0
          /\ t.owners = [sems[u].owners EXCEPT ![o] = @ - 1]
          /\ t.cur = IF sems[u].cur < sems[u].max THEN sems[u].cur + 1 ELSE sems[u].max
          /\ t.min = sems[u].min /\ t.max = sems[u].max /\ t.initial = sems[u].initial
      BY <1>1, <2>2, SemIncrement
    <3>2. sems'[u] = t
      BY <1>1
    <3> HIDE DEF t
    <3>3. OS(u)!GiveBack(o)
      BY <1>1, <3>1, <3>2 DEF OS!GiveBack
    <3>4. OwnedStep(u)
      BY <3>3 DEF OwnedStep
    <3> QED BY <3>1, <3>2, <3>4 DEF SemaphoreStep
  <2> QED BY <2>1, <2>2
<1> QED BY <1>2, <1>3

LEMMA HandlerSteps ==
  ASSUME ServerInv, ServerInv', NEW c \in Calls, HandlerStep(c)
  PROVE  \A u \in UUIDs : SemaphoreStep(u)
<1>1. /\ call \in [Calls -> CallType] /\ call' \in [Calls -> CallType]
      /\ sems \in [UUIDs -> SemaphoreType \cup {NotCreated, Deleted}]
      /\ call[c].uuid \in UUIDs \cup {NoUUID} /\ c[1] \in Owners
  BY NetType, CallPair DEF ServerInv, TypeOK, ServerTypeOK, CallType, NetTypeOK
<1>2. /\ {"lock", "check", "enter", "waiting"} \subseteq CallStates
      /\ {"ok", "error"} = Answers
  BY DEF CallStates, InServer, Answers
<1>3. CallSound(c) /\ \A d \in Calls : CallSound(d) /\ CallSound(d)'
  BY DEF ServerInv, CallInv
<1> HIDE DEF CallStates, Answers
<1>4. ASSUME NEW r \in Answers, Answer(c, r)
      PROVE  call'[c].pc # "waiting" /\ \A d \in Calls \ {c} : call'[d] = call[d]
  <2>1. call'[c].pc = r \/ call'[c] = FreeCall
    BY <1>1, <1>4, AnswerCall
  <2> QED BY <1>1, <1>2, <1>4, <2>1, AnswerCall, FreeType
<1>5. ASSUME UNCHANGED sems, call[c].pc # "waiting", call'[c].pc # "waiting",
             \A d \in Calls \ {c} : call'[d] = call[d]
      PROVE  \A u \in UUIDs : SemaphoreStep(u)
  BY <1>1, <1>5, QuietSteps
<1>6. CASE Accept(c)
  <2>1. call'[c].pc # "waiting" /\ \A d \in Calls \ {c} : call'[d] = call[d]
    BY <1>1, <1>2, <1>6, AtCall DEF Accept
  <2> QED BY <1>5, <1>6, <2>1 DEF Accept, serverVars
<1>7. CASE Create(c)
  <2>1. CASE Answer(c, "error") /\ UNCHANGED sems
    BY <1>2, <1>4, <1>5, <1>7, <2>1 DEF Create
  <2>2. ASSUME NEW p \in Params, ~(p.cur = p.min \/ p.min > p.max \/ UUIDsUsedUp),
               NEW u \in UUIDs, sems[u] = NotCreated,
               sems' = [sems EXCEPT ![u] =
                          [state |-> "live", cur |-> p.cur, min |-> p.min,
                           max |-> p.max, owners |-> [o \in Owners |-> 0],
                           initial |-> p.cur]],
               call' = AnswerIn(call, c, "ok", u)
        PROVE  \A v \in UUIDs : SemaphoreStep(v)
    <3>1. /\ \A d \in Calls \ {c} : call'[d] = call[d]
          /\ call'[c].pc # "waiting" /\ call[c].pc # "waiting"
      <4>1. u \in UUIDs \cup {NoUUID} /\ call[c].pc = "lock"
        BY <1>7 DEF Create
      <4>2. call'[c].pc = "ok" \/ call'[c] = FreeCall
        BY <1>1, <1>2, <2>2, <4>1, AnswerNext
      <4> QED BY <1>1, <1>2, <2>2, <4>1, <4>2, AnswerNext, FreeType
    <3>2. \A v \in UUIDs : WaitingOn(v)' = WaitingOn(v)
      <4>1. ASSUME NEW v \in UUIDs, NEW d \in Calls
            PROVE  (call'[d].pc = "waiting" /\ call'[d].uuid = v)
                     <=> (call[d].pc = "waiting" /\ call[d].uuid = v)
        BY <3>1
      <4> QED BY <1>1, <4>1, SameWaiting
    <3>3. ASSUME NEW v \in UUIDs, v # u PROVE SemaphoreStep(v)
      <4>1. sems'[v] = sems[v]
        BY <2>2, <3>3
      <4> QED BY <3>2, <4>1, StepElsewhere
    <3>4. SemaphoreStep(u)
      <4>1. u \notin Live
        BY <1>1, <2>2, SemCases
      <4>2. WaitingOn(u) = {}
        BY <1>3, <4>1 DEF WaitingOn, CallSound
      <4>3. /\ sems'[u].initial = sems'[u].cur /\ sems'[u].min <= sems'[u].max
            /\ sems'[u].owners = [o \in Owners |-> 0]
        <5>1. p.min \in Int /\ p.max \in Int
          BY ServerAssumption
        <5> QED BY <1>1, <2>2, <5>1
      <4>4. OS(u)!OSInit'
        BY <3>2, <4>2, <4>3 DEF OS!OSInit
      <4> QED BY <4>1, <4>3, <4>4 DEF SemaphoreStep
    <3> QED BY <3>3, <3>4
  <2> QED BY <1>7, <2>1, <2>2 DEF Create
<1>8. CASE Delete(c)
  <2> PICK u : u = call[c].uuid
    OBVIOUS
  <2> DEFINE orphaned == [d \in Calls |->
                            IF call[d].uuid = u /\ call[d].pc \in {"enter", "waiting"}
                            THEN [call[d] EXCEPT !.pc = "dangling"] ELSE call[d]]
  <2>1. CASE Answer(c, "error") /\ UNCHANGED sems
    BY <1>2, <1>4, <1>5, <1>8, <2>1 DEF Delete
  <2>2. CASE u \in Live /\ sems' = [sems EXCEPT ![u] = Deleted]
             /\ call' = AnswerIn(orphaned, c, "ok", u)
    <3>1. orphaned \in [Calls -> CallType] /\ call[c].pc = "lock" /\ u \in UUIDs
      BY <1>1, <1>8, <2>2 DEF Delete, Live, CallType, CallStates, InServer
    <3>2. /\ \A d \in Calls \ {c} : call'[d] = orphaned[d]
          /\ call'[c].pc # "waiting"
      <4>1. call'[c].pc = "ok" \/ call'[c] = FreeCall
        BY <1>1, <1>2, <2>2, <3>1, AnswerNext
      <4> QED BY <1>1, <1>2, <2>2, <3>1, <4>1, AnswerNext, FreeType
    <3>3. ASSUME NEW v \in UUIDs, v # u PROVE SemaphoreStep(v)
      <4>1. sems'[v] = sems[v]
        BY <2>2, <3>3
      <4>2. ASSUME NEW d \in Calls
            PROVE  (call'[d].pc = "waiting" /\ call'[d].uuid = v)
                     <=> (call[d].pc = "waiting" /\ call[d].uuid = v)
        <5>1. CASE d = c
          BY <3>1, <3>2, <5>1
        <5>2. CASE d # c /\ call[d].uuid = u /\ call[d].pc \in {"enter", "waiting"}
          <6>1. call'[d] = [call[d] EXCEPT !.pc = "dangling"]
            BY <3>2, <5>2
          <6>2. call'[d].pc = "dangling"
            BY <1>1, <6>1 DEF CallType
          <6> QED BY <3>3, <5>2, <6>2
        <5>3. CASE d # c /\ ~(call[d].uuid = u /\ call[d].pc \in {"enter", "waiting"})
          BY <3>2, <5>3
        <5> QED BY <5>1, <5>2, <5>3
      <4> QED BY <1>1, <4>1, <4>2, SameWaiting, StepElsewhere
    <3>4. u \notin Live'
      <4>1. sems'[u] = Deleted
        BY <1>1, <2>2, <3>1
      <4> QED BY <4>1 DEF Live, Deleted
    <3> QED BY <3>3, <3>4 DEF SemaphoreStep
  <2> QED BY <1>8, <2>1, <2>2 DEF Delete
<1>9. CASE Dump(c)
  BY <1>2, <1>4, <1>5, <1>9 DEF Dump, serverVars
<1>10. CASE LookUp(c)
  <2>1. Answer(c, "error") \/ At(c, "check")
    BY <1>10 DEF LookUp
  <2>2. call'[c].pc # "waiting" /\ \A d \in Calls \ {c} : call'[d] = call[d]
    BY <1>1, <1>2, <1>4, <2>1, AtCall
  <2> QED BY <1>5, <1>10, <2>2 DEF LookUp
<1>11. CASE CheckFails(c)
  BY <1>2, <1>4, <1>5, <1>11 DEF CheckFails
<1>12. CASE CheckDecrement(c)
  <2>1. call'[c].pc # "waiting" /\ \A d \in Calls \ {c} : call'[d] = call[d]
    BY <1>1, <1>2, <1>12, AtCall DEF CheckDecrement
  <2> QED BY <1>5, <1>12, <2>1 DEF CheckDecrement
<1>13. CASE CheckIncrement(c)
  <2>1. /\ call[c].uuid \in Live /\ call[c].pc # "waiting" /\ Answer(c, "ok")
        /\ sems' = [sems EXCEPT ![call[c].uuid] = Incremented(sems[call[c].uuid], c[1])]
    BY <1>3, <1>13 DEF CheckIncrement, CallSound
  <2>2. \A v \in UUIDs : WaitingOn(v)' = WaitingOn(v)
    <3>1. ASSUME NEW v \in UUIDs, NEW d \in Calls
          PROVE  (call'[d].pc = "waiting" /\ call'[d].uuid = v)
                   <=> (call[d].pc = "waiting" /\ call[d].uuid = v)
      BY <1>2, <1>4, <2>1
    <3> QED BY <1>1, <3>1, SameWaiting
  <2>3. GivesBack(c[1])
    BY <1>13 DEF CheckIncrement, GivesBack
  <2> QED BY <1>1, <2>1, <2>2, <2>3, IncrementStep
<1>14. ASSUME call[c].uuid \in Live
       PROVE  call[c].uuid \in UUIDs /\ sems[call[c].uuid] \in SemaphoreType
  BY <1>1, <1>14, SemCases DEF Live
\* The steps of c inside decrement().
<1>15. ASSUME NEW u \in UUIDs, NEW t \in SemaphoreType,
              sems' = [sems EXCEPT ![u] = t],
              \A d \in Calls \ {c} : call'[d] = call[d],
              call[c].uuid = u, call'[c].pc = "waiting" => call'[c].uuid = u,
              SemaphoreStep(u)
       PROVE  \A v \in UUIDs : SemaphoreStep(v)
  <2>1. ASSUME NEW v \in UUIDs, v # u PROVE SemaphoreStep(v)
    <3>1. sems'[v] = sems[v]
      BY <1>15, <2>1
    <3>2. ASSUME NEW d \in Calls
          PROVE  (call'[d].pc = "waiting" /\ call'[d].uuid = v)
                   <=> (call[d].pc = "waiting" /\ call[d].uuid = v)
      BY <1>15, <2>1
    <3> QED BY <1>1, <3>1, <3>2, SameWaiting, StepElsewhere
  <2> QED BY <1>15, <2>1
<1>16. CASE Enter(c)
  <2> PICK u \in UUIDs : u = call[c].uuid /\ u \in Live
    BY <1>3, <1>14, <1>16 DEF Enter, CallSound
  <2> DEFINE s == Listed(sems[u], c[1])
  <2>1. u \in Live /\ call[c].pc = "enter" /\ u \in UUIDs /\ sems[u] \in SemaphoreType
    BY <1>14, <1>16 DEF Enter
  <2>2. /\ s \in SemaphoreType /\ Granted(s) \in SemaphoreType
        /\ s.owners = [sems[u].owners EXCEPT ![c[1]] = @ + 1]
        /\ s.cur = sems[u].cur /\ s.min = sems[u].min /\ s.max = sems[u].max
        /\ s.initial = sems[u].initial
        /\ Granted(s).owners = s.owners /\ Granted(s).cur = s.cur - 1
        /\ Granted(s).min = s.min /\ Granted(s).max = s.max
        /\ Granted(s).initial = s.initial
    BY <1>1, <2>1, SemSteps
  <2>3. sems[u].cur \in Int /\ sems[u].min \in Int
    BY <2>1 DEF SemaphoreType
  <2>4. MustWait(s) <=> sems[u].cur <= sems[u].min
    BY <2>2 DEF MustWait
  <2>5. c \notin WaitingOn(u)
    BY <2>1 DEF WaitingOn
  <2> HIDE DEF s
  <2>6. CASE sems' = [sems EXCEPT ![u] = s] /\ At(c, "waiting")
    <3>1. /\ call'[c].pc = "waiting" /\ call'[c].uuid = u
          /\ \A d \in Calls \ {c} : call'[d] = call[d]
      BY <1>1, <1>2, <2>6, AtCall
    <3>2. WaitingOn(u)' = WaitingOn(u) \cup {c}
      BY <3>1 DEF WaitingOn
    <3>3. sems'[u] = s
      BY <1>1, <2>1, <2>6
    <3>4. OS(u)!Request(c)
      BY <2>2, <2>5, <3>2, <3>3 DEF OS!Request, OS!ListAs
    <3>5. OwnedStep(u)
      BY <3>4 DEF OwnedStep
    <3>6. SemaphoreStep(u)
      BY <2>1, <2>2, <3>3, <3>5 DEF SemaphoreStep
    <3> QED BY <1>15, <2>1, <2>2, <2>6, <3>1, <3>6
  <2>7. CASE ~MustWait(s) /\ sems' = [sems EXCEPT ![u] = Granted(s)] /\ Answer(c, "ok")
    <3>1. /\ call'[c].pc # "waiting" /\ \A d \in Calls \ {c} : call'[d] = call[d]
      BY <1>2, <1>4, <2>7
    <3>2. WaitingOn(u)' = WaitingOn(u)
      BY <2>1, <3>1 DEF WaitingOn
    <3>3. sems'[u] = Granted(s)
      BY <1>1, <2>1, <2>7
    <3>4. sems[u].cur > sems[u].min
      BY <2>3, <2>4, <2>7
    <3>5. OS(u)!GrantAtOnce(c)
      BY <2>2, <2>5, <3>2, <3>3, <3>4 DEF OS!GrantAtOnce, OS!ListAs, OS!TakeUnit
    <3>6. OwnedStep(u)
      BY <3>5 DEF OwnedStep
    <3>7. SemaphoreStep(u)
      BY <2>1, <2>2, <3>3, <3>6 DEF SemaphoreStep
    <3> QED BY <1>15, <2>1, <2>2, <2>7, <3>1, <3>7
  <2> QED BY <1>16, <2>6, <2>7 DEF Enter, s
<1>17. CASE Wake(c)
  <2> PICK u \in UUIDs : u = call[c].uuid /\ u \in Live
    BY <1>3, <1>14, <1>17 DEF Wake, CallSound
  <2> DEFINE s == Granted(sems[u])
  <2>1. u \in Live /\ call[c].pc = "waiting" /\ u \in UUIDs /\ sems[u] \in SemaphoreType
    BY <1>14, <1>17 DEF Wake
  <2>2. /\ s \in SemaphoreType
        /\ s.owners = sems[u].owners /\ s.cur = sems[u].cur - 1
        /\ s.min = sems[u].min /\ s.max = sems[u].max /\ s.initial = sems[u].initial
    BY <1>1, <2>1, SemSteps
  <2>3. sems[u].cur > sems[u].min
    <3>1. sems[u].cur \in Int /\ sems[u].min \in Int
      BY <2>1 DEF SemaphoreType
    <3> QED BY <1>17, <3>1 DEF Wake, MustWait
  <2>4. sems' = [sems EXCEPT ![u] = s] /\ Answer(c, "ok")
    BY <1>17 DEF Wake
  <2> HIDE DEF s
  <2>5. /\ call'[c].pc # "waiting" /\ \A d \in Calls \ {c} : call'[d] = call[d]
    BY <1>2, <1>4, <2>4
  <2>6. WaitingOn(u)' = WaitingOn(u) \ {c} /\ c \in WaitingOn(u)
    BY <2>1, <2>5 DEF WaitingOn
  <2>7. sems'[u] = s
    BY <1>1, <2>1, <2>4
  <2>8. OS(u)!Grant(c)
    BY <2>2, <2>3, <2>6, <2>7 DEF OS!Grant, OS!TakeUnit
  <2>9. OwnedStep(u)
    BY <2>8 DEF OwnedStep
  <2>10. SemaphoreStep(u)
    BY <2>1, <2>2, <2>7, <2>9 DEF SemaphoreStep
  <2> QED BY <1>15, <2>1, <2>2, <2>4, <2>5, <2>10
<1>18. CASE DanglingReturn(c)
  BY <1>2, <1>4, <1>5, <1>18 DEF DanglingReturn, serverVars
<1>19. CASE DanglingAbort(c)
  <2>1. \A u \in UUIDs : u \notin Live'
    BY <1>19 DEF DanglingAbort, Live, Deleted
  <2> QED BY <2>1 DEF SemaphoreStep
<1> QED
  BY <1>6, <1>7, <1>8, <1>9, <1>10, <1>11, <1>12, <1>13, <1>16, <1>17, <1>18, <1>19
     DEF HandlerStep

LEMMA HeartbeatSteps ==
  ASSUME ServerInv, HeartbeatStep
  PROVE  \A u \in UUIDs : SemaphoreStep(u)
<1>1. UNCHANGED call /\ sems \in [UUIDs -> SemaphoreType \cup {NotCreated, Deleted}]
  BY DEF HeartbeatStep, ScanStart, ScanAlive, ScanDead, DisconnectLock, DisconnectCopy,
         DisconnectIncrement, DisconnectDone, netVars, ServerInv, TypeOK, ServerTypeOK
<1>2. \A u \in UUIDs : WaitingOn(u)' = WaitingOn(u)
  BY <1>1 DEF WaitingOn
<1>3. CASE UNCHANGED sems
  BY <1>2, <1>3, StepElsewhere
<1>4. CASE DisconnectIncrement
  <2>1. hb.at \in Live /\ hb.o \in Owners
    BY <1>4 DEF DisconnectIncrement, ServerInv, ScanInv, CopyStillListed
  <2>2. sems' = [sems EXCEPT ![hb.at] = Incremented(sems[hb.at], hb.o)]
    BY <1>4 DEF DisconnectIncrement
  <2>3. GivesBack(hb.o)
    BY <1>4 DEF DisconnectIncrement, GivesBack
  <2> QED BY <1>1, <1>2, <2>1, <2>2, <2>3, IncrementStep
<1> QED
  BY <1>3, <1>4 DEF HeartbeatStep, ScanStart, ScanAlive, ScanDead, DisconnectLock,
                    DisconnectCopy, DisconnectDone

LEMMA SystemSteps == ServerInv /\ [Next]_vars => \A u \in UUIDs : SemaphoreStep(u)
<1> SUFFICES ASSUME ServerInv, [Next]_vars PROVE \A u \in UUIDs : SemaphoreStep(u)
  OBVIOUS
<1>1. ServerInv'
  BY ServerStep
<1>2. call \in [Calls -> CallType] /\ call' \in [Calls -> CallType]
  BY <1>1, NetType DEF ServerInv, TypeOK, NetTypeOK, CallType
<1>3. ASSUME NEW o \in Owners, ClientStep(o), UNCHANGED serverVars
      PROVE  \A u \in UUIDs : SemaphoreStep(u)
  <2>1. CallsByClient(o)
    BY <1>3, ClientEffect DEF ServerInv
  <2>2. \A d \in Calls : \/ call'[d] = call[d]
                         \/ call'[d].pc # "waiting" /\ call[d].pc # "waiting"
    BY <2>1, FreeType DEF CallsByClient, Answers
  <2>3. UNCHANGED sems
    BY <1>3 DEF serverVars
  <2> QED BY <1>2, <2>2, <2>3, QuietSteps
<1>4. ASSUME NEW c \in Calls, Refuse(c)
      PROVE  \A u \in UUIDs : SemaphoreStep(u)
  <2>1. UNCHANGED sems /\ call[c].pc = "sent" /\ call' = [call EXCEPT ![c] = FreeCall]
    BY <1>4 DEF Refuse, serverVars
  <2>2. \A d \in Calls : \/ call'[d] = call[d]
                         \/ call'[d].pc # "waiting" /\ call[d].pc # "waiting"
    BY <1>2, <2>1, FreeType
  <2> QED BY <1>2, <2>1, <2>2, QuietSteps
<1>5. CASE ServerNext
  BY <1>1, <1>4, <1>5, HandlerSteps, HeartbeatSteps DEF ServerNext
<1>6. CASE UNCHANGED vars
  BY <1>2, <1>6, QuietSteps DEF vars, netVars, serverVars
<1> QED BY <1>3, <1>5, <1>6 DEF Next, ClientNext

\* Each semaphore of the server is an abstract semaphore with an owner list, under
\* the handlers, the heartbeat and every failure of the clients.
THEOREM SemaphoresAreOwned == Spec => SemaphoresImplement
<1>1. ServerInv /\ [Next]_vars =>
        [\A u \in UUIDs :
           /\ u \in Live /\ u \in Live' => UNCHANGED OS(u)!osvars \/ OS(u)!OSNext
           /\ u \notin Live /\ u \in Live' => OS(u)!OSInit']_vars
  BY SystemSteps, OwnedSteps DEF SemaphoreStep
<1> QED BY <1>1, ServerSafe, PTL DEF Spec, SemaphoresImplement

-----------------------------------------------------------------------------
(* Counting entries and calls. *)

LEMMA PairOf ==
  ASSUME NEW f \in [Owners -> Nat], NEW p
  PROVE  p \in Pairs(f) <=> \E o \in Owners : \E i \in 1..f[o] : p = <<o, i>>
BY DEF Pairs

LEMMA PairsFinite ==
  ASSUME NEW f \in [Owners -> Nat]
  PROVE  IsFiniteSet(Pairs(f)) /\ Cardinality(Pairs(f)) \in Nat
<1> DEFINE block == [o \in Owners |-> {o} \X (1..f[o])]
           T == {{o} \X (1..f[o]) : o \in Owners}
<1>1. block \in Surjection(Owners, T)
  BY DEF Surjection
<1>2. IsFiniteSet(T)
  BY <1>1, NetworkAssumption, FS_Surjection
<1>3. ASSUME NEW o \in Owners PROVE IsFiniteSet({o} \X (1..f[o]))
  <2>1. IsFiniteSet(1..f[o])
    <3>1. f[o] \in Int /\ 1 \in Int
      OBVIOUS
    <3> QED BY <3>1, FS_Interval
  <2> QED BY <2>1, FS_Singleton, FS_Product
<1>4. IsFiniteSet(UNION T)
  BY <1>2, <1>3, FS_UNION
<1> QED BY <1>4, FS_CardinalityType DEF Pairs

LEMMA PairsEmpty == Pairs([o \in Owners |-> 0]) = {}
BY DEF Pairs

LEMMA PairsMore ==
  ASSUME NEW f \in [Owners -> Nat], NEW o \in Owners,
         NEW g \in [Owners -> Nat], g = [f EXCEPT ![o] = @ + 1]
  PROVE  Pairs(g) = Pairs(f) \cup {<<o, f[o] + 1>>} /\ <<o, f[o] + 1>> \notin Pairs(f)
<1>1. f[o] \in Nat /\ g[o] = f[o] + 1 /\ \A q \in Owners \ {o} : g[q] = f[q]
  OBVIOUS
<1>2. 1..(f[o] + 1) = 1..f[o] \cup {f[o] + 1} /\ f[o] + 1 \notin 1..f[o]
  BY <1>1
<1>3. ASSUME NEW p PROVE p \in Pairs(g) <=> p \in Pairs(f) \cup {<<o, f[o] + 1>>}
  <2>1. ASSUME NEW q \in Owners, NEW i \in 1..g[q], p = <<q, i>>
        PROVE  p \in Pairs(f) \cup {<<o, f[o] + 1>>}
    <3>1. CASE q = o /\ i = f[o] + 1
      BY <2>1, <3>1
    <3>2. CASE i \in 1..f[q]
      BY <2>1, <3>2, PairOf
    <3> QED BY <1>1, <1>2, <2>1, <3>1, <3>2
  <2>2. ASSUME NEW q \in Owners, NEW i \in 1..f[q], p = <<q, i>>
        PROVE  p \in Pairs(g)
    <3>1. i \in 1..g[q]
      BY <1>1, <1>2
    <3> QED BY <2>2, <3>1, PairOf
  <2>3. <<o, f[o] + 1>> \in Pairs(g)
    <3>1. f[o] + 1 \in 1..g[o]
      BY <1>1, <1>2
    <3> QED BY <3>1, PairOf
  <2>4. p \in Pairs(g) <=> \E q \in Owners : \E i \in 1..g[q] : p = <<q, i>>
    BY PairOf
  <2>5. p \in Pairs(f) <=> \E q \in Owners : \E i \in 1..f[q] : p = <<q, i>>
    BY PairOf
  <2> QED BY <2>1, <2>2, <2>3, <2>4, <2>5
<1>4. <<o, f[o] + 1>> \notin Pairs(f)
  <2>1. ASSUME NEW q \in Owners, NEW i \in 1..f[q], <<o, f[o] + 1>> = <<q, i>> PROVE FALSE
    BY <1>2, <2>1
  <2> QED BY <2>1, PairOf
<1> QED BY <1>3, <1>4

LEMMA PairsFewer ==
  ASSUME NEW f \in [Owners -> Nat], NEW o \in Owners, f[o] > 0,
         NEW g \in [Owners -> Nat], g = [f EXCEPT ![o] = @ - 1]
  PROVE  Pairs(g) = Pairs(f) \ {<<o, f[o]>>} /\ <<o, f[o]>> \in Pairs(f)
<1>1. f[o] \in Nat /\ g[o] = f[o] - 1
  OBVIOUS
<1>2. f[o] = g[o] + 1
  BY <1>1
<1>3. f = [g EXCEPT ![o] = f[o]]
  OBVIOUS
<1>4. Pairs(f) = Pairs(g) \cup {<<o, g[o] + 1>>} /\ <<o, g[o] + 1>> \notin Pairs(g)
  BY <1>2, <1>3, PairsMore
<1> QED BY <1>2, <1>4

LEMMA CallsFinite == IsFiniteSet(Calls)
<1>1. IsFiniteSet(Slots)
  BY NetworkAssumption, FS_Interval DEF Slots
<1> QED BY <1>1, NetworkAssumption, FS_Product DEF Calls

LEMMA WaitingCount ==
  ASSUME NEW u \in UUIDs
  PROVE  IsFiniteSet(WaitingOn(u)) /\ Cardinality(WaitingOn(u)) \in Nat
<1>1. WaitingOn(u) \subseteq Calls
  BY DEF WaitingOn
<1> QED BY <1>1, CallsFinite, FS_Subset, FS_CardinalityType

LEMMA WaitingJoins ==
  ASSUME NEW u \in UUIDs, NEW c \in Calls, c \notin WaitingOn(u),
         WaitingOn(u)' = WaitingOn(u) \cup {c}
  PROVE  Cardinality(WaitingOn(u)') = Cardinality(WaitingOn(u)) + 1
BY WaitingCount, FS_AddElement

LEMMA WaitingLeaves ==
  ASSUME NEW u \in UUIDs, NEW c \in WaitingOn(u), WaitingOn(u)' = WaitingOn(u) \ {c}
  PROVE  Cardinality(WaitingOn(u)') = Cardinality(WaitingOn(u)) - 1
BY WaitingCount, FS_RemoveElement

\* The owner list grows and shrinks by one entry.
LEMMA EntriesGrow ==
  ASSUME NEW u \in UUIDs, NEW o \in Owners, sems[u].owners \in [Owners -> Nat],
         sems'[u].owners \in [Owners -> Nat],
         sems'[u].owners = [sems[u].owners EXCEPT ![o] = @ + 1]
  PROVE  Cardinality(Entries(u)') = Cardinality(Entries(u)) + 1
<1> DEFINE f == sems[u].owners
           g == sems'[u].owners
<1>1. Pairs(g) = Pairs(f) \cup {<<o, f[o] + 1>>} /\ <<o, f[o] + 1>> \notin Pairs(f)
  BY PairsMore
<1>2. Entries(u) = Pairs(f) /\ Entries(u)' = Pairs(g)
  BY DEF Entries, Pairs
<1>3. IsFiniteSet(Pairs(f))
  BY PairsFinite
<1> HIDE DEF f, g
<1>4. Cardinality(Pairs(g)) = Cardinality(Pairs(f)) + 1
  BY <1>1, <1>3, FS_AddElement
<1> QED BY <1>2, <1>4

LEMMA EntriesShrink ==
  ASSUME NEW u \in UUIDs, NEW o \in Owners, sems[u].owners \in [Owners -> Nat],
         sems'[u].owners \in [Owners -> Nat], sems[u].owners[o] > 0,
         sems'[u].owners = [sems[u].owners EXCEPT ![o] = @ - 1]
  PROVE  Cardinality(Entries(u)') = Cardinality(Entries(u)) - 1
<1> DEFINE f == sems[u].owners
           g == sems'[u].owners
<1>1. Pairs(g) = Pairs(f) \ {<<o, f[o]>>} /\ <<o, f[o]>> \in Pairs(f)
  BY PairsFewer
<1>2. Entries(u) = Pairs(f) /\ Entries(u)' = Pairs(g)
  BY DEF Entries, Pairs
<1>3. IsFiniteSet(Pairs(f))
  BY PairsFinite
<1> HIDE DEF f, g
<1>4. Cardinality(Pairs(g)) = Cardinality(Pairs(f)) - 1
  BY <1>1, <1>3, FS_RemoveElement
<1> QED BY <1>2, <1>4

\* What a step of one semaphore does to the three counts.
LEMMA CountsStep ==
  ASSUME ServerInv, ServerInv', NEW u \in UUIDs, SemaphoreStep(u), u \in Live'
  PROVE  /\ u \in Live =>
              \/ UNCHANGED <<sems[u].cur, Cardinality(Entries(u)), Cardinality(WaitingOn(u))>>
              \/ /\ sems'[u].cur = sems[u].cur
                 /\ Cardinality(Entries(u)') = Cardinality(Entries(u)) + 1
                 /\ Cardinality(WaitingOn(u)') = Cardinality(WaitingOn(u)) + 1
              \/ /\ sems[u].cur > sems[u].min /\ sems'[u].cur = sems[u].cur - 1
                 /\ Cardinality(Entries(u)') = Cardinality(Entries(u))
                 /\ Cardinality(WaitingOn(u)') = Cardinality(WaitingOn(u)) - 1
              \/ /\ sems[u].cur > sems[u].min /\ sems'[u].cur = sems[u].cur - 1
                 /\ Cardinality(Entries(u)') = Cardinality(Entries(u)) + 1
                 /\ Cardinality(WaitingOn(u)') = Cardinality(WaitingOn(u))
              \/ /\ sems'[u].cur = IF sems[u].cur < sems[u].max
                                   THEN sems[u].cur + 1 ELSE sems[u].max
                 /\ Cardinality(Entries(u)') = Cardinality(Entries(u)) - 1
                 /\ Cardinality(WaitingOn(u)') = Cardinality(WaitingOn(u))
                 /\ \E o \in Owners : GivesBack(o) /\ sems[u].owners[o] > 0
         /\ u \in Live => /\ sems'[u].initial = sems[u].initial
                          /\ sems'[u].min = sems[u].min /\ sems'[u].max = sems[u].max
         /\ u \notin Live => /\ sems'[u].cur = sems'[u].initial
                             /\ sems'[u].min <= sems'[u].max
                             /\ Cardinality(Entries(u)') = 0
                             /\ Cardinality(WaitingOn(u)') = 0
<1>1. /\ u \in Live => sems[u].owners \in [Owners -> Nat]
      /\ sems'[u].owners \in [Owners -> Nat]
  <2>1. u \in Live => sems[u] \in SemaphoreType
    BY SemCases DEF ServerInv, TypeOK, ServerTypeOK
  <2>2. sems'[u] \in SemaphoreType
    <3>1. sems'[u] \in SemaphoreType \cup {NotCreated, Deleted} /\ sems'[u].state = "live"
      BY DEF ServerInv, TypeOK, ServerTypeOK, Live
    <3>2. NotCreated.state = "not created" /\ Deleted.state = "deleted"
      BY DEF NotCreated, Deleted
    <3> QED BY <3>1, <3>2
  <2> QED BY <2>1, <2>2 DEF SemaphoreType
<1>2. CASE u \notin Live
  <2>1. /\ sems'[u].cur = sems'[u].initial /\ sems'[u].min <= sems'[u].max
        /\ WaitingOn(u)' = {} /\ sems'[u].owners = [o \in Owners |-> 0]
    BY <1>2 DEF SemaphoreStep, OS!OSInit
  <2>2. Entries(u)' = {}
    BY <2>1, PairsEmpty DEF Entries
  <2> QED BY <1>2, <2>1, <2>2, FS_EmptySet
<1>3. CASE u \in Live
  <2>1. sems'[u].initial = sems[u].initial /\ (OwnedStep(u) \/ UNCHANGED OS(u)!osvars)
    BY <1>3 DEF SemaphoreStep
  <2>2. CASE UNCHANGED OS(u)!osvars
    <3>1. /\ sems'[u].cur = sems[u].cur /\ sems'[u].min = sems[u].min
          /\ sems'[u].max = sems[u].max /\ sems'[u].owners = sems[u].owners
          /\ WaitingOn(u)' = WaitingOn(u)
      BY <2>2 DEF OS!osvars
    <3>2. Entries(u)' = Entries(u)
      BY <3>1 DEF Entries, Pairs
    <3> QED BY <1>3, <2>1, <3>1, <3>2
  <2>3. ASSUME NEW c \in Calls, OS(u)!Request(c)
        PROVE  /\ sems'[u].cur = sems[u].cur
               /\ sems'[u].min = sems[u].min /\ sems'[u].max = sems[u].max
               /\ Cardinality(Entries(u)') = Cardinality(Entries(u)) + 1
               /\ Cardinality(WaitingOn(u)') = Cardinality(WaitingOn(u)) + 1
    <3>1. /\ c \notin WaitingOn(u) /\ WaitingOn(u)' = WaitingOn(u) \cup {c}
          /\ sems'[u].owners = [sems[u].owners EXCEPT ![c[1]] = @ + 1]
          /\ sems'[u].cur = sems[u].cur /\ sems'[u].min = sems[u].min
          /\ sems'[u].max = sems[u].max
      BY <2>3 DEF OS!Request, OS!ListAs
    <3>2. c[1] \in Owners
      BY CallPair
    <3>3. Cardinality(Entries(u)') = Cardinality(Entries(u)) + 1
      BY <1>1, <1>3, <3>1, <3>2, EntriesGrow
    <3> QED BY <3>1, <3>3, WaitingJoins
  <2>4. ASSUME NEW c \in Calls, OS(u)!Grant(c)
        PROVE  /\ sems[u].cur > sems[u].min /\ sems'[u].cur = sems[u].cur - 1
               /\ sems'[u].min = sems[u].min /\ sems'[u].max = sems[u].max
               /\ Cardinality(Entries(u)') = Cardinality(Entries(u))
               /\ Cardinality(WaitingOn(u)') = Cardinality(WaitingOn(u)) - 1
    <3>1. /\ c \in WaitingOn(u) /\ WaitingOn(u)' = WaitingOn(u) \ {c}
          /\ sems'[u].owners = sems[u].owners
          /\ sems[u].cur > sems[u].min /\ sems'[u].cur = sems[u].cur - 1
          /\ sems'[u].min = sems[u].min /\ sems'[u].max = sems[u].max
      BY <2>4 DEF OS!Grant, OS!TakeUnit
    <3>2. Entries(u)' = Entries(u)
      BY <3>1 DEF Entries, Pairs
    <3> QED BY <3>1, <3>2, WaitingLeaves
  <2>5. ASSUME NEW c \in Calls, OS(u)!GrantAtOnce(c)
        PROVE  /\ sems[u].cur > sems[u].min /\ sems'[u].cur = sems[u].cur - 1
               /\ sems'[u].min = sems[u].min /\ sems'[u].max = sems[u].max
               /\ Cardinality(Entries(u)') = Cardinality(Entries(u)) + 1
               /\ Cardinality(WaitingOn(u)') = Cardinality(WaitingOn(u))
    <3>1. /\ WaitingOn(u)' = WaitingOn(u)
          /\ sems'[u].owners = [sems[u].owners EXCEPT ![c[1]] = @ + 1]
          /\ sems[u].cur > sems[u].min /\ sems'[u].cur = sems[u].cur - 1
          /\ sems'[u].min = sems[u].min /\ sems'[u].max = sems[u].max
      BY <2>5 DEF OS!GrantAtOnce, OS!ListAs, OS!TakeUnit
    <3>2. c[1] \in Owners
      BY CallPair
    <3>3. Cardinality(Entries(u)') = Cardinality(Entries(u)) + 1
      BY <1>1, <1>3, <3>1, <3>2, EntriesGrow
    <3> QED BY <3>1, <3>3
  <2>6. ASSUME NEW o \in Owners, OS(u)!GiveBack(o), GivesBack(o)
        PROVE  /\ sems'[u].cur = IF sems[u].cur < sems[u].max
                                 THEN sems[u].cur + 1 ELSE sems[u].max
               /\ sems'[u].min = sems[u].min /\ sems'[u].max = sems[u].max
               /\ Cardinality(Entries(u)') = Cardinality(Entries(u)) - 1
               /\ Cardinality(WaitingOn(u)') = Cardinality(WaitingOn(u))
               /\ sems[u].owners[o] > 0
    <3>1. /\ WaitingOn(u)' = WaitingOn(u) /\ sems[u].owners[o] > 0
          /\ sems'[u].owners = [sems[u].owners EXCEPT ![o] = @ - 1]
          /\ sems'[u].cur = IF sems[u].cur < sems[u].max
                            THEN sems[u].cur + 1 ELSE sems[u].max
          /\ sems'[u].min = sems[u].min /\ sems'[u].max = sems[u].max
      BY <2>6 DEF OS!GiveBack
    <3>2. Cardinality(Entries(u)') = Cardinality(Entries(u)) - 1
      BY <1>1, <1>3, <3>1, EntriesShrink
    <3> QED BY <3>1, <3>2
  <2>7. CASE \E c \in Calls : OS(u)!Request(c)
    BY <1>3, <2>1, <2>3, <2>7
  <2>8. CASE \E c \in Calls : OS(u)!Grant(c)
    BY <1>3, <2>1, <2>4, <2>8
  <2>9. CASE \E c \in Calls : OS(u)!GrantAtOnce(c)
    BY <1>3, <2>1, <2>5, <2>9
  <2>10. CASE \E o \in Owners : OS(u)!GiveBack(o) /\ GivesBack(o)
    BY <1>3, <2>1, <2>6, <2>10
  <2> QED BY <2>1, <2>2, <2>7, <2>8, <2>9, <2>10 DEF OwnedStep
<1> QED BY <1>2, <1>3

\* The counts of a living semaphore are numbers.
LEMMA CountTypes ==
  ASSUME ServerInv, NEW u \in Live
  PROVE  /\ u \in UUIDs /\ sems[u] \in SemaphoreType
         /\ sems[u].cur \in Int /\ sems[u].min \in Int /\ sems[u].max \in Int
         /\ sems[u].initial \in Int /\ sems[u].owners \in [Owners -> Nat]
         /\ Cardinality(Entries(u)) \in Nat /\ Cardinality(WaitingOn(u)) \in Nat
<1>1. u \in UUIDs /\ sems[u] \in SemaphoreType
  BY SemCases DEF ServerInv, TypeOK, ServerTypeOK, Live
<1>2. sems[u].owners \in [Owners -> Nat]
  BY <1>1 DEF SemaphoreType
<1>3. Cardinality(Entries(u)) \in Nat
  BY <1>2, PairsFinite DEF Entries
<1> QED BY <1>1, <1>2, <1>3, WaitingCount DEF SemaphoreType

LEMMA CountTypesNext ==
  ASSUME ServerInv', NEW u \in Live'
  PROVE  /\ u \in UUIDs /\ sems'[u].cur \in Int /\ sems'[u].initial \in Int
         /\ sems'[u].min \in Int /\ sems'[u].max \in Int
         /\ sems'[u].owners \in [Owners -> Nat]
         /\ Cardinality(Entries(u)') \in Nat /\ Cardinality(WaitingOn(u)') \in Nat
<1>1. u \in UUIDs /\ sems'[u].state = "live"
  BY DEF Live
<1>2. sems'[u] \in SemaphoreType
  <2>1. sems'[u] \in SemaphoreType \cup {NotCreated, Deleted}
    BY <1>1 DEF ServerInv, TypeOK, ServerTypeOK
  <2>2. NotCreated.state = "not created" /\ Deleted.state = "deleted"
    BY DEF NotCreated, Deleted
  <2> QED BY <1>1, <2>1, <2>2
<1>3. sems'[u].owners \in [Owners -> Nat]
  BY <1>2 DEF SemaphoreType
<1>4. Cardinality(Entries(u)') \in Nat
  BY <1>3, PairsFinite DEF Entries
<1>5. WaitingOn(u)' \subseteq Calls
  BY DEF WaitingOn
<1>6. Cardinality(WaitingOn(u)') \in Nat
  BY <1>5, CallsFinite, FS_Subset, FS_CardinalityType
<1> QED BY <1>1, <1>2, <1>3, <1>4, <1>6 DEF SemaphoreType

-----------------------------------------------------------------------------
(* No unit appears from nowhere. *)

\* The counter of a living semaphore stays in the interval its creation fixed, and
\* CreateSemaphore let only intervals through.
CounterInv ==
  \A u \in Live : /\ sems[u].min <= sems[u].max
                  /\ sems[u].cur >= sems[u].min \/ sems[u].cur >= sems[u].initial

LEMMA CounterStep ==
  ASSUME ServerInv, ServerInv', CounterInv, [Next]_vars
  PROVE  CounterInv'
<1> SUFFICES ASSUME NEW u \in Live'
             PROVE  /\ sems'[u].min <= sems'[u].max
                    /\ sems'[u].cur >= sems'[u].min \/ sems'[u].cur >= sems'[u].initial
  BY DEF CounterInv
<1>1. u \in UUIDs /\ sems'[u].cur \in Int /\ sems'[u].initial \in Int /\ sems'[u].min \in Int
  BY CountTypesNext
<1>2. SemaphoreStep(u)
  BY <1>1, SystemSteps
<1>3. CASE u \notin Live
  BY <1>1, <1>2, <1>3, CountsStep
<1>4. CASE u \in Live
  <2>1. /\ sems[u].cur \in Int /\ sems[u].min \in Int /\ sems[u].max \in Int
        /\ sems[u].initial \in Int
    BY <1>4, CountTypes
  <2>2. /\ sems[u].min <= sems[u].max
        /\ sems[u].cur >= sems[u].min \/ sems[u].cur >= sems[u].initial
    BY <1>4 DEF CounterInv
  <2>3. /\ sems'[u].initial = sems[u].initial
        /\ sems'[u].min = sems[u].min /\ sems'[u].max = sems[u].max
    BY <1>1, <1>2, <1>4, CountsStep
  <2>4. \/ sems'[u].cur = sems[u].cur
        \/ sems[u].cur > sems[u].min /\ sems'[u].cur = sems[u].cur - 1
        \/ sems'[u].cur = IF sems[u].cur < sems[u].max THEN sems[u].cur + 1 ELSE sems[u].max
    BY <1>1, <1>2, <1>4, CountsStep
  <2> QED BY <2>1, <2>2, <2>3, <2>4
<1> QED BY <1>3, <1>4

LEMMA UnitsStep ==
  ASSUME ServerInv, ServerInv', UnitsBounded, [Next]_vars
  PROVE  UnitsBounded'
<1> SUFFICES ASSUME NEW u \in Live'
             PROVE  sems'[u].cur + Cardinality(Entries(u)')
                      <= sems'[u].initial + Cardinality(WaitingOn(u)')
  BY DEF UnitsBounded
<1>1. /\ u \in UUIDs /\ sems'[u].cur \in Int /\ sems'[u].initial \in Int
      /\ Cardinality(Entries(u)') \in Nat /\ Cardinality(WaitingOn(u)') \in Nat
  BY CountTypesNext
<1>2. SemaphoreStep(u)
  BY <1>1, SystemSteps
<1>3. CASE u \notin Live
  BY <1>1, <1>2, <1>3, CountsStep
<1>4. CASE u \in Live
  <2>1. /\ sems[u].cur \in Int /\ sems[u].max \in Int /\ sems[u].initial \in Int
        /\ Cardinality(Entries(u)) \in Nat /\ Cardinality(WaitingOn(u)) \in Nat
    BY <1>4, CountTypes
  <2>2. sems[u].cur + Cardinality(Entries(u)) <= sems[u].initial + Cardinality(WaitingOn(u))
    BY <1>4 DEF UnitsBounded
  <2>3. sems'[u].initial = sems[u].initial
    BY <1>1, <1>2, <1>4, CountsStep
  <2> DEFINE e == Cardinality(Entries(u))
             w == Cardinality(WaitingOn(u))
             f == Cardinality(Entries(u)')
             x == Cardinality(WaitingOn(u)')
  <2>4. \/ sems'[u].cur = sems[u].cur /\ f = e /\ x = w
        \/ sems'[u].cur = sems[u].cur /\ f = e + 1 /\ x = w + 1
        \/ sems'[u].cur = sems[u].cur - 1 /\ f = e /\ x = w - 1
        \/ sems'[u].cur = sems[u].cur - 1 /\ f = e + 1 /\ x = w
        \/ /\ sems'[u].cur = IF sems[u].cur < sems[u].max
                             THEN sems[u].cur + 1 ELSE sems[u].max
           /\ f = e - 1 /\ x = w
    BY <1>1, <1>2, <1>4, CountsStep
  <2> HIDE DEF e, w, f, x
  <2>5. e \in Nat /\ w \in Nat /\ f \in Nat /\ x \in Nat /\ sems[u].cur + e <= sems[u].initial + w
    BY <1>1, <2>1, <2>2 DEF e, w, f, x
  <2>6. sems'[u].cur + f <= sems'[u].initial + x
    BY <2>1, <2>3, <2>4, <2>5
  <2> QED BY <2>6 DEF f, x
<1> QED BY <1>3, <1>4

LEMMA NothingLives == Init => Live = {}
<1>1. NotCreated.state = "not created"
  BY DEF NotCreated
<1> QED BY <1>1 DEF Init, ServerInit, Live

\* Whatever fails, no unit of a semaphore appears from nowhere: cur and the owner
\* list never say more than CurrentVal and the calls that wait.
THEOREM NoUnitFromNowhere == Spec => []UnitsBounded
<1>1. Init => UnitsBounded
  BY NothingLives DEF UnitsBounded
<1>2. ServerInv /\ ServerInv' /\ UnitsBounded /\ [Next]_vars => UnitsBounded'
  BY UnitsStep
<1> QED BY <1>1, <1>2, ServerSafe, PTL DEF Spec

\* The counter of a semaphore is never taken below its lower bound.
LEMMA CounterSafe == Spec => []CounterInv
<1>1. Init => CounterInv
  BY NothingLives DEF CounterInv
<1>2. ServerInv /\ ServerInv' /\ CounterInv /\ [Next]_vars => CounterInv'
  BY CounterStep
<1> QED BY <1>1, <1>2, ServerSafe, PTL DEF Spec
=============================================================================
