-------------------------- MODULE ExclusionProofs --------------------------
(***************************************************************************)
(* What the semaphores are for.  As long as no client fails in the middle  *)
(* of a call, no unit is lost and the living clients together never count  *)
(* on more units than a semaphore has, for every number of clients, calls, *)
(* threads and semaphores.  Module MCSystem shows what becomes of both     *)
(* when clients die while they wait.                                       *)
(***************************************************************************)
EXTENDS ClaimProofs

\* Clients may die, but not while a call of theirs is on its way.
Calm == \A o \in Owners : Faults[o] \subseteq {"idle crash"}

\* Client o waits for every call it made.
WaitsForAll(o) == \A d \in Calls : d[1] = o /\ call[d].pc # "free" => Awaited(d)

\* The calls the server has are those its clients wait for, no living client failed a
\* heartbeat, and a call that waits for a unit is in the owner list already.
CalmInv ==
  ~aborted =>
    \A o \in Owners :
      /\ WaitsForAll(o)
      /\ ~up[o] => conn[o] = 0
      /\ exiting[o].on => up[o]
      /\ up[o] => missed[o] = 0
      /\ \A u \in UUIDs : lostP[o][u] = 0 /\ lostV[o][u] = 0
      /\ \A u \in Live : Entered(o, u) => sems[u].owners[o] > 0

\* A client that lives gives up no call.
LEMMA WaitingKept ==
  ASSUME Calm, ServerInv, ConnInv, [Next]_vars, ~aborted', NEW o \in Owners, up[o], up'[o],
         NEW d \in Calls, d[1] = o, call'[d].pc # "free", call[d].pc # "free" => Awaited(d)
  PROVE  Awaited(d)'
<1>1. /\ conn \in [Owners -> {0} \cup Slots] /\ call \in [Calls -> CallType]
      /\ up \in [Owners -> BOOLEAN] /\ d[2] \in Slots /\ 0 \notin Slots /\ d = <<o, d[2]>>
  BY NetType, CallPair DEF ServerInv, TypeOK, Slots
<1>2. CASE ServerNext
  BY <1>2, ServerCases, CallsServed DEF Awaited
<1>3. CASE UNCHANGED <<conn, call>>
  BY <1>3 DEF Awaited
<1>4. ASSUME NEW p \in Owners, ClientStep(p), UNCHANGED serverVars PROVE Awaited(d)'
  <2>1. CASE p # o
    <3>1. CallsByClient(p)
      BY <1>4, ClientEffect DEF ServerInv
    <3>2. call'[d] = call[d] /\ conn'[o] = conn[o]
      BY <2>1, <3>1 DEF CallsByClient
    <3> QED BY <3>2 DEF Awaited
  <2>2. ASSUME NEW m \in Methods, NEW v \in UUIDs \cup {NoUUID}, Send(o, m, v)
        PROVE  Awaited(d)'
    <3>1. PICK i \in Slots : Opened(o, m, v, i)
      BY <1>1, <2>2, SendCall, Zenon
    <3>2. conn[o] = 0 /\ conn'[o] = i /\ (d # <<o, i>> => call'[d] = call[d])
      BY <1>1, <3>1 DEF Opened
    <3>3. ~Awaited(d)
      BY <1>1, <3>2 DEF Awaited
    <3> QED BY <1>1, <3>2, <3>3 DEF Awaited
  <2>3. ASSUME Abandon(o) PROVE call'[d] = call[d] /\ Awaited(d) /\ d = <<o, conn[o]>>
    <3>1. call'[d] = call[d]
      BY <1>1, <2>3, AbandonCall, FreeType
    <3> QED BY <1>1, <3>1 DEF Awaited
  <2>4. ~GetAnswer(o)
    <3> SUFFICES ASSUME GetAnswer(o) PROVE FALSE
      OBVIOUS
    <3>1. call'[d] = call[d] /\ d = <<o, conn[o]>>
      BY <2>3 DEF GetAnswer
    <3>2. conn[o] # 0 /\ AwaitedCall(o).pc \in Answers /\ AwaitedCall(o) = call[d] /\ Awaited(d)
      BY <2>3, <3>1 DEF GetAnswer, AwaitedCall
    <3>3. call'[d] = FreeCall
      BY <1>1, <3>2, AbandonCall DEF GetAnswer
    <3> QED BY <3>3, FreeType
  <2>5. ~CallThrows(o)
    <3> SUFFICES ASSUME CallThrows(o) PROVE FALSE
      OBVIOUS
    <3>1. "broken" \notin Faults[o] /\ "timeout" \notin Faults[o]
      BY DEF Calm
    <3>2. ~aborted /\ conn[o] # 0 /\ AwaitedCall(o).pc = "free"
      BY <1>4, <3>1 DEF CallThrows, serverVars
    <3> QED BY <3>2 DEF ConnInv
  <2>6. CASE Quit(o) \/ (\E u \in UUIDs : ExitNext(o, u)) \/ Restart(o)
    BY <1>3, <2>6 DEF Quit, ExitNext, Restart, netVars
  <2>7. ~Crash(o) /\ ~ExitDone(o)
    BY <1>1 DEF Crash, ExitDone
  <2>8. CASE ExitSend(o)
    <3>1. exiting[o].at \in UUIDs /\ "Increment" \in Methods
      BY <2>8 DEF ExitSend, ServerInv, ExitAtInv, Methods
    <3> QED BY <2>2, <2>8, <3>1 DEF ExitSend
  <2>9. CASE \E m \in Methods, v \in UUIDs \cup {NoUUID} : Command(o, m, v)
    BY <2>2, <2>9 DEF Command
  <2> QED BY <1>4, <2>1, <2>4, <2>5, <2>6, <2>7, <2>8, <2>9 DEF ClientStep
<1> QED BY <1>2, <1>3, <1>4 DEF Next, ClientNext, vars, netVars

\* A client that waits for all its calls has none that comes late.
LEMMA NothingLate ==
  ASSUME NEW o \in Owners, WaitsForAll(o), NEW u, NEW m
  PROVE  ~LateServed(o, u, m)
<1>1. Late(o, u, m) = {}
  BY DEF Late, WaitsForAll, Pending
<1> QED BY <1>1 DEF LateServed

\* The heartbeat turns only against clients that are gone.
LEMMA NoneTaken ==
  ASSUME ServerInv, MissedInv, CalmInv, ~aborted, NEW o \in Owners, up[o]
  PROVE  ~Taking(o) /\ missed[o] = 0
<1>1. missed[o] = 0
  BY DEF CalmInv
<1> QED BY <1>1 DEF MissedInv

LEMMA EnteredStep ==
  ASSUME Calm, AccountInv, MissedInv, CalmInv, [Next]_vars, ~aborted',
         NEW o \in Owners, NEW u \in Live', Entered(o, u)'
  PROVE  sems'[u].owners[o] > 0
<1>1. ServerInv /\ ConnInv /\ ValueInv /\ ~aborted
  BY StillRunning DEF AccountInv
<1>2. /\ WaitsForAll(o)
      /\ ~up[o] => conn[o] = 0
      /\ \A v \in Live : Entered(o, v) => sems[v].owners[o] > 0
  BY <1>1 DEF CalmInv
<1>3. u \in UUIDs /\ (u \in Live => sems[u].owners[o] \in Nat)
  BY <1>1, BalanceTypes DEF Live
<1>4. CASE ServerNext /\ UNCHANGED clientVars
  <2>1. conn'[o] = conn[o] /\ conn[o] # 0
    BY <1>1, <1>4, ServerCases DEF Entered, Asked, Awaits
  <2>2. u \in Live
    BY <1>1, <1>4, NewAccount
  <2>3. ~Taking(o)
    BY <1>1, <1>2, <2>1, NoneTaken
  <2>4. ~LateServed(o, u, "Increment")
    BY <1>2, NothingLate
  <2>5. AccountStep(o, u)
    BY <1>1, <1>4, <2>2, AccountByServer
  <2>6. sems[u].owners[o] \in Nat /\ (Entered(o, u) => sems[u].owners[o] > 0)
    BY <1>2, <1>3, <2>2
  <2>7. ~(hb.pc = "increments" /\ hb.o = o)
    BY <2>3 DEF Taking
  <2>8. \/ Entered(o, u) /\ sems'[u].owners[o] = sems[u].owners[o]
        \/ sems'[u].owners[o] = sems[u].owners[o] + 1
    BY <2>4, <2>5, <2>7 DEF AccountStep, Unmoved
  <2> QED BY <2>6, <2>8
<1>5. ASSUME NEW p \in Owners, ClientStep(p), UNCHANGED serverVars
      PROVE  Entered(o, u) /\ UNCHANGED sems /\ u \in Live
  <2>1. conn \in [Owners -> {0} \cup Slots] /\ call \in [Calls -> CallType]
    BY <1>1, NetType DEF ServerInv, TypeOK
  <2>2. UNCHANGED sems /\ u \in Live
    BY <1>5 DEF serverVars, Live
  <2>3. conn'[o] # 0 /\ AwaitedCall(o)'.pc # "sent"
    BY DEF Entered, Asked, Awaits
  <2>4. ASSUME NEW m \in Methods, NEW v \in UUIDs \cup {NoUUID}, Send(o, m, v) PROVE FALSE
    <3>1. PICK i \in Slots : Opened(o, m, v, i)
      BY <2>1, <2>4, SendCall, Zenon
    <3>2. conn'[o] = i
      BY <2>1, <3>1 DEF Opened
    <3> QED BY <2>3, <3>1, <3>2 DEF Opened, AwaitedCall
  <2>5. CASE p # o
    BY <1>1, <1>5, <2>2, <2>5, OtherClient DEF Entered, Asked, Awaits
  <2>6. CASE UNCHANGED <<conn, call>>
    BY <2>2, <2>6 DEF Entered, Asked, Awaits, AwaitedCall
  <2>7. ~Abandon(o)
    BY <2>1, <2>3, AbandonCall
  <2>8. ~ExitSend(o)
    <3> SUFFICES ASSUME ExitSend(o) PROVE FALSE
      OBVIOUS
    <3>1. exiting[o].at \in UUIDs /\ "Increment" \in Methods
      BY <1>1 DEF ExitSend, ServerInv, ExitAtInv, Methods
    <3> QED BY <2>4, <3>1 DEF ExitSend
  <2>9. ASSUME NEW m \in Methods, NEW v \in UUIDs \cup {NoUUID} PROVE ~Command(o, m, v)
    BY <2>4 DEF Command
  <2> QED BY <1>5, <2>5, <2>6, <2>7, <2>8, <2>9 DEF ClientStep, GetAnswer, CallThrows, Quit,
             ExitNext, ExitDone, Crash, Restart, netVars
<1>6. CASE UNCHANGED vars
  BY <1>2, <1>6 DEF vars, netVars, serverVars, clientVars, Entered, Asked, Awaits,
     AwaitedCall, Live
<1> QED BY <1>2, <1>4, <1>5, <1>6 DEF Next, ClientNext

LEMMA CalmStep ==
  ASSUME Calm, AccountInv, MissedInv, CalmInv, [Next]_vars
  PROVE  CalmInv'
<1> SUFFICES ASSUME ~aborted', NEW o \in Owners
             PROVE  /\ WaitsForAll(o)'
                    /\ ~up'[o] => conn'[o] = 0
                    /\ exiting'[o].on => up'[o]
                    /\ up'[o] => missed'[o] = 0
                    /\ \A u \in UUIDs : lostP'[o][u] = 0 /\ lostV'[o][u] = 0
                    /\ \A u \in Live' : Entered(o, u)' => sems'[u].owners[o] > 0
  BY DEF CalmInv
<1>1. ServerInv /\ ConnInv /\ ValueInv /\ ~aborted
  BY StillRunning DEF AccountInv
<1>2. /\ conn \in [Owners -> {0} \cup Slots] /\ call \in [Calls -> CallType]
      /\ up \in [Owners -> BOOLEAN] /\ DOMAIN exiting = Owners /\ 0 \notin Slots
  BY <1>1, NetType DEF ServerInv, TypeOK, ClientTypeOK, Slots
<1>3. /\ WaitsForAll(o)
      /\ ~up[o] => conn[o] = 0
      /\ exiting[o].on => up[o]
  BY <1>1 DEF CalmInv
<1>4. Faults[o] \subseteq {"idle crash"} /\ "restart" \notin Faults[o]
  BY DEF Calm
\* A step that leaves the client without calls.
<1>5. ASSUME conn[o] = 0, conn'[o] = 0,
             \A d \in Calls : d[1] = o => call'[d].pc = "free" \/ call[d].pc # "free"
      PROVE  WaitsForAll(o)'
  <2>1. ASSUME NEW d \in Calls, d[1] = o PROVE call[d].pc = "free"
    BY <1>2, <1>3, <1>5, <2>1, CallPair DEF WaitsForAll, Awaited
  <2> QED BY <1>5, <2>1 DEF WaitsForAll
<1>6. ASSUME up'[o] PROVE WaitsForAll(o)'
  <2> SUFFICES ASSUME NEW d \in Calls, d[1] = o, call'[d].pc # "free" PROVE Awaited(d)'
    BY DEF WaitsForAll
  <2>1. up[o]
    BY <1>1, <1>4, <1>6, UpBefore
  <2> QED BY <1>1, <1>3, <1>6, <2>1, WaitingKept DEF WaitsForAll
<1>7. ASSUME up'[o] PROVE missed'[o] = 0
  <2>1. up[o] /\ missed[o] = 0 /\ missed \in [Owners -> 0..3]
    BY <1>1, <1>4, <1>7, UpBefore DEF CalmInv, ServerInv, TypeOK, ServerTypeOK
  <2>2. CASE UNCHANGED missed
    BY <2>1, <2>2
  <2>3. ASSUME NEW p \in Owners, ScanDead(p) PROVE missed'[o] = 0
    <3>1. p # o
      BY <1>4, <2>1, <2>3 DEF ScanDead, CheckClient, Calm
    <3> QED BY <2>1, <2>3, <3>1 DEF ScanDead
  <2>4. ASSUME NEW c \in Calls, DanglingAbort(c) PROVE missed'[o] = 0
    BY <2>4 DEF DanglingAbort
  <2> QED BY <2>2, <2>3, <2>4 DEF Next, ServerNext, HeartbeatStep, HandlerStep, Refuse, Accept,
     Create, Delete, Dump, LookUp, CheckFails, CheckDecrement, CheckIncrement, Enter, Wake,
     DanglingReturn, ScanStart, ScanAlive, DisconnectLock, DisconnectCopy,
     DisconnectIncrement, DisconnectDone, serverVars, vars
<1>8. ASSUME NEW u \in UUIDs PROVE lostP'[o][u] = 0 /\ lostV'[o][u] = 0
  <2>1. lostP[o][u] = 0 /\ lostV[o][u] = 0 /\ ClientTypeOK
    BY <1>1 DEF CalmInv, ServerInv, TypeOK
  <2>2. CASE UNCHANGED <<lostP, lostV>>
    BY <2>1, <2>2
  <2>3. ASSUME NEW p \in Owners, Lose(p), p = o => conn[o] = 0
        PROVE  lostP'[o][u] = 0 /\ lostV'[o][u] = 0
    <3>1. p = o => ~Asked(o, u) /\ ~Releasing(o, u)
      BY <2>3 DEF Asked, Releasing, Awaits
    <3> QED BY <2>1, <2>3, <3>1, LoseAdds DEF One
  <2>4. ASSUME NEW p \in Owners, ClientStep(p), UNCHANGED serverVars
        PROVE  lostP'[o][u] = 0 /\ lostV'[o][u] = 0
    <3>1. ~CallThrows(p)
      BY <1>1, <2>4 DEF CallThrows, ConnInv, Calm, AccountInv
    <3>2. CASE Crash(p)
      BY <1>2, <2>3, <3>2 DEF Crash, Calm
    <3>3. CASE ~Crash(p)
      BY <2>2, <2>4, <3>1, <3>3, LostSame
    <3> QED BY <3>2, <3>3
  <2> QED BY <2>2, <2>4 DEF Next, ClientNext, clientVars, vars
<1>9. CASE ServerNext /\ UNCHANGED clientVars
  <2>1. UNCHANGED <<up, conn, exiting>>
    BY <1>1, <1>9, ServerCases DEF clientVars
  <2>2. CASE ~up[o]
    <3>1. conn[o] = 0 /\ conn'[o] = 0
      BY <1>3, <2>1, <2>2
    <3>2. \A d \in Calls : call'[d].pc = "free" \/ call[d].pc # "free"
      BY <1>1, <1>9, CallsServed
    <3> QED BY <1>3, <1>5, <2>1, <3>1, <3>2, <1>7, <1>8, EnteredStep
  <2>3. CASE up[o]
    BY <1>3, <1>6, <2>1, <2>3, <1>7, <1>8, EnteredStep
  <2> QED BY <2>2, <2>3
<1>10. ASSUME NEW p \in Owners, ClientStep(p), UNCHANGED serverVars
      PROVE  /\ WaitsForAll(o)'
             /\ ~up'[o] => conn'[o] = 0
             /\ exiting'[o].on => up'[o]
  <2>1. CASE p # o
    <3>1. /\ conn'[o] = conn[o] /\ exiting'[o] = exiting[o] /\ up'[o] = up[o]
      BY <1>1, <1>10, <2>1, OtherClient
    <3>2. CASE ~up[o]
      <4>1. CallsByClient(p)
        BY <1>1, <1>10, ClientEffect DEF ServerInv
      <4>2. \A d \in Calls : d[1] = o => call'[d] = call[d]
        BY <2>1, <4>1 DEF CallsByClient
      <4>3. \A d \in Calls : d[1] = o => call'[d].pc = "free" \/ call[d].pc # "free"
        BY <4>2
      <4> QED BY <1>3, <1>5, <3>1, <3>2, <4>3
    <3>3. CASE up[o]
      BY <1>3, <1>6, <3>1, <3>3
    <3> QED BY <3>2, <3>3
  <2>2. CASE Crash(o)
    <3>1. conn[o] = 0 /\ conn'[o] = 0 /\ exiting'[o] = NotExiting
      BY <1>2, <1>4, <2>2, AbandonCall DEF Crash
    <3>2. \A d \in Calls : call'[d] = FreeCall \/ call'[d] = call[d]
      BY <1>2, <2>2, AbandonCall DEF Crash
    <3>3. \A d \in Calls : call'[d].pc = "free" \/ call[d].pc # "free"
      BY <3>2, FreeType
    <3> QED BY <1>5, <3>1, <3>3 DEF NotExiting
  <2>3. CASE ExitDone(o)
    <3>1. conn[o] = 0 /\ conn' = conn /\ exiting'[o] = NotExiting /\ call' = call
      BY <1>2, <2>3 DEF ExitDone
    <3>2. \A d \in Calls : call'[d].pc = "free" \/ call[d].pc # "free"
      BY <3>1
    <3> QED BY <1>5, <3>1, <3>2 DEF NotExiting
  <2>4. ~Restart(o)
    BY <1>4 DEF Restart
  <2>5. CASE ~Crash(o) /\ ~ExitDone(o) /\ p = o
    <3>1. up'[o] = up[o]
      BY <1>10, <2>4, <2>5 DEF ClientStep, Command, Send, GetAnswer, CallThrows, Quit,
         ExitNext, ExitSend, netVars
    <3>2. up[o]
      BY <1>3, <1>10, <2>4, <2>5 DEF ClientStep, Command, AtPrompt, GetAnswer, CallThrows,
         Quit, ExitNext, ExitSend
    <3> QED BY <1>6, <3>1, <3>2
  <2> QED BY <1>10, <2>1, <2>2, <2>3, <2>5
<1>11. CASE UNCHANGED vars
  BY <1>3, <1>11, <1>7, <1>8, EnteredStep DEF vars, netVars, clientVars, WaitsForAll, Awaited
<1> QED BY <1>9, <1>10, <1>11, <1>7, <1>8, EnteredStep DEF Next, ClientNext

LEMMA CalmSafe == ASSUME Calm PROVE Spec => []CalmInv
<1>1. Init => CalmInv
  <2> SUFFICES ASSUME Init, NEW o \in Owners
               PROVE  /\ WaitsForAll(o)
                      /\ ~up[o] => conn[o] = 0
                      /\ exiting[o].on => up[o]
                      /\ up[o] => missed[o] = 0
                      /\ \A u \in UUIDs : lostP[o][u] = 0 /\ lostV[o][u] = 0
                      /\ \A u \in Live : Entered(o, u) => sems[u].owners[o] > 0
    BY DEF CalmInv
  <2>1. Live = {}
    BY NothingLives
  <2>2. \A d \in Calls : call[d].pc = "free"
    BY FreeType DEF Init, NetInit
  <2> QED BY <2>1, <2>2 DEF Init, NetInit, ServerInit, ClientInit, NotExiting,
                            Fresh, WaitsForAll
<1>2. AccountInv /\ MissedInv /\ CalmInv /\ [Next]_vars => CalmInv'
  BY CalmStep
<1> QED BY <1>1, <1>2, AccountSafe, MissedSafe, PTL DEF Spec

-----------------------------------------------------------------------------
(* Counting the calls that wait and the units that are claimed. *)

LEMMA DifferenceCount ==
  ASSUME NEW S, IsFiniteSet(S), NEW T, T \subseteq S
  PROVE  /\ IsFiniteSet(T) /\ IsFiniteSet(S \ T)
         /\ Cardinality(T) \in Nat /\ Cardinality(S \ T) \in Nat
         /\ Cardinality(S \ T) = Cardinality(S) - Cardinality(T)
<1>1. IsFiniteSet(T) /\ IsFiniteSet(S \ T)
  BY FS_Subset
<1>2. /\ Cardinality(T) \in Nat /\ Cardinality(S \ T) \in Nat
      /\ Cardinality(S) \in Nat
  BY <1>1, FS_CardinalityType
<1>3. T \cup (S \ T) = S /\ T \cap (S \ T) = {}
  OBVIOUS
<1>4. Cardinality(T \cup (S \ T)) =
        Cardinality(T) + Cardinality(S \ T) - Cardinality(T \cap (S \ T))
  BY <1>1, FS_Union
<1>5. Cardinality(T \cap (S \ T)) = 0
  BY <1>3, FS_EmptySet
<1>6. Cardinality(T \cup (S \ T)) = Cardinality(S)
  BY <1>3
<1> QED BY <1>1, <1>2, <1>4, <1>5, <1>6

\* Calls of as many clients wait as there are calls, each of them with an entry.
LEMMA WaitingFit ==
  ASSUME ServerInv, CalmInv, ~aborted, NEW u \in Live, NEW S, IsFiniteSet(S),
         \A o \in Owners : Entered(o, u) => <<o, sems[u].owners[o]>> \in S
  PROVE  Cardinality(WaitingOn(u)) <= Cardinality(S)
<1> DEFINE entry == [c \in WaitingOn(u) |-> <<c[1], sems[u].owners[c[1]]>>]
<1>1. ASSUME NEW c \in WaitingOn(u)
      PROVE  c[1] \in Owners /\ Entered(c[1], u) /\ c = <<c[1], conn[c[1]]>>
  <2>1. c \in Calls /\ call[c].pc = "waiting" /\ call[c].uuid = u
    BY DEF WaitingOn
  <2>2. c[1] \in Owners /\ c[2] \in Slots /\ c = <<c[1], c[2]>> /\ 0 \notin Slots
    BY <2>1, CallPair DEF Slots
  <2>3. Awaited(c)
    BY <2>1, <2>2 DEF CalmInv, WaitsForAll
  <2>4. conn[c[1]] # 0 /\ AwaitedCall(c[1]) = call[c]
    BY <2>2, <2>3 DEF Awaited, AwaitedCall
  <2>5. call[c].method = "Decrement"
    BY <2>1 DEF ServerInv, CallInv, CallSound
  <2> QED BY <2>1, <2>2, <2>3, <2>4, <2>5 DEF Entered, Asked, Awaits, Awaited
<1>2. entry \in [WaitingOn(u) -> S]
  BY <1>1
<1>3. ASSUME NEW c \in WaitingOn(u), NEW d \in WaitingOn(u), entry[c] = entry[d]
      PROVE  c = d
  BY <1>1, <1>3
<1>4. entry \in Injection(WaitingOn(u), S)
  BY <1>2, <1>3 DEF Injection, IsInjective
<1> QED BY <1>4, FS_Injection

\* An owner list holds an entry for each of the units an owner has.
LEMMA EntryOf ==
  ASSUME ServerInv, NEW u \in Live, NEW o \in Owners, sems[u].owners[o] > 0
  PROVE  <<o, sems[u].owners[o]>> \in Entries(u)
<1>1. sems[u].owners \in [Owners -> Nat]
  BY CountTypes
<1>2. sems[u].owners[o] \in 1..sems[u].owners[o]
  BY <1>1
<1> QED BY <1>1, <1>2, PairOf DEF Entries

-----------------------------------------------------------------------------
(* No unit is lost. *)

\* Nobody who gives back waits, so one entry at least is no waiting call's.
LEMMA GiverHolds ==
  ASSUME ServerInv, MissedInv, CalmInv, ~aborted, NEW u \in Live, NEW o \in Owners,
         GivesBack(o), sems[u].owners[o] > 0
  PROVE  Cardinality(WaitingOn(u)) + 1 <= Cardinality(Entries(u))
<1>1. ~Entered(o, u)
  <2> SUFFICES ASSUME Entered(o, u) PROVE FALSE
    OBVIOUS
  <2>1. conn[o] # 0 /\ AwaitedCall(o).pc \in {"waiting", "ok"} /\ up[o]
    BY DEF Entered, Asked, Awaits, CalmInv
  <2>2. ~(hb.pc = "increments" /\ hb.o = o)
    BY <2>1, NoneTaken DEF Taking
  <2>3. PICK c \in Calls : c[1] = o /\ call[c].pc = "check"
    BY <2>2 DEF GivesBack
  <2>4. Awaited(c) /\ c = <<c[1], c[2]>>
    BY <2>3, CallPair DEF CalmInv, WaitsForAll
  <2>5. AwaitedCall(o) = call[c]
    BY <2>3, <2>4 DEF Awaited, AwaitedCall
  <2> QED BY <2>1, <2>3, <2>5
<1> DEFINE e == <<o, sems[u].owners[o]>>
           S == Entries(u) \ {e}
<1>2. e \in Entries(u) /\ IsFiniteSet(Entries(u))
  BY EntryOf, CountTypes, PairsFinite DEF Entries
<1>3. IsFiniteSet(S) /\ Cardinality(S) = Cardinality(Entries(u)) - 1
  BY <1>2, FS_RemoveElement
<1>4. ASSUME NEW p \in Owners, Entered(p, u) PROVE <<p, sems[u].owners[p]>> \in S
  <2>1. p # o /\ sems[u].owners[p] > 0
    BY <1>1, <1>4 DEF CalmInv
  <2>2. <<p, sems[u].owners[p]>> \in Entries(u)
    BY <2>1, EntryOf
  <2> QED BY <2>1, <2>2
<1> HIDE DEF S
<1>5. Cardinality(WaitingOn(u)) <= Cardinality(S)
  BY <1>3, <1>4, WaitingFit
<1>6. Cardinality(WaitingOn(u)) \in Nat /\ Cardinality(Entries(u)) \in Nat
  BY CountTypes
<1> QED BY <1>3, <1>5, <1>6

LEMMA AccountedStep ==
  ASSUME ServerInv, ServerInv', MissedInv, CalmInv, UnitsAccounted, [Next]_vars
  PROVE  UnitsAccounted'
<1> SUFFICES ASSUME NEW u \in Live', sems'[u].initial <= sems'[u].max
             PROVE  sems'[u].cur + Cardinality(Entries(u)')
                      = sems'[u].initial + Cardinality(WaitingOn(u)')
  BY DEF UnitsAccounted
<1>1. /\ u \in UUIDs /\ sems'[u].cur \in Int /\ sems'[u].initial \in Int
      /\ sems'[u].max \in Int
      /\ Cardinality(Entries(u)') \in Nat /\ Cardinality(WaitingOn(u)') \in Nat
  BY CountTypesNext
<1>2. SemaphoreStep(u)
  BY <1>1, SystemSteps
<1>3. CASE u \notin Live
  BY <1>1, <1>2, <1>3, CountsStep
<1>4. CASE u \in Live
  <2>1. /\ sems[u].cur \in Int /\ sems[u].initial \in Int /\ sems[u].max \in Int
        /\ Cardinality(Entries(u)) \in Nat /\ Cardinality(WaitingOn(u)) \in Nat
    BY <1>4, CountTypes
  <2>2. sems'[u].initial = sems[u].initial /\ sems'[u].max = sems[u].max
    BY <1>1, <1>2, <1>4, CountsStep
  <2>3. sems[u].cur + Cardinality(Entries(u))
          = sems[u].initial + Cardinality(WaitingOn(u))
    BY <1>4, <2>2 DEF UnitsAccounted
  <2>4. ~aborted
    BY <1>4 DEF ServerInv, AbortInv, Live, Deleted
  <2>5. (\E o \in Owners : GivesBack(o) /\ sems[u].owners[o] > 0)
          => sems[u].cur < sems[u].max
    <3> SUFFICES ASSUME NEW o \in Owners, GivesBack(o), sems[u].owners[o] > 0
                 PROVE  sems[u].cur < sems[u].max
      OBVIOUS
    <3>1. Cardinality(WaitingOn(u)) + 1 <= Cardinality(Entries(u))
      BY <1>4, <2>4, GiverHolds
    <3> QED BY <2>1, <2>2, <2>3, <3>1
  <2> QED BY <1>1, <1>2, <1>4, <2>1, <2>2, <2>3, <2>5, CountsStep
<1> QED BY <1>3, <1>4

\* As long as no client fails in the middle of a call, the units on offer and the
\* entries of the owner list always add up to CurrentVal and the calls that wait.
THEOREM NoUnitIsLost == ASSUME Calm PROVE Spec => []UnitsAccounted
<1>1. Init => UnitsAccounted
  BY NothingLives DEF UnitsAccounted
<1>2. ServerInv /\ ServerInv' /\ MissedInv /\ CalmInv /\ UnitsAccounted /\ [Next]_vars
        => UnitsAccounted'
  BY AccountedStep
<1>3. Spec => []CalmInv
  BY CalmSafe
<1> QED BY <1>1, <1>2, <1>3, ServerSafe, MissedSafe, PTL DEF Spec

-----------------------------------------------------------------------------
(* Exclusion. *)

\* Units that are counted on and calls that wait have entries of their own.
LEMMA ClaimsFit ==
  ASSUME ServerInv, LowInv, CalmInv, ~aborted, NEW u \in Live
  PROVE  /\ Cardinality(Claims(u)) \in Nat
         /\ Cardinality(Claims(u)) + Cardinality(WaitingOn(u)) <= Cardinality(Entries(u))
<1> DEFINE f == [o \in Owners |-> Claimed(o, u)]
           g == sems[u].owners
<1>1. u \in UUIDs /\ g \in [Owners -> Nat]
  BY CountTypes
<1>2. f \in [Owners -> Nat] /\ \A o \in Owners : f[o] = Claimed(o, u)
  BY <1>1, ClaimedIs
<1>3. ASSUME NEW o \in Owners
      PROVE  /\ f[o] <= g[o]
             /\ Entered(o, u) => f[o] < g[o]
  <2>1. Claimed(o, u) \in Nat /\ Balance(o, u) \in Int /\ g[o] \in Nat
    BY <1>1, ClaimedIs, BalanceTypes
  <2>2. Entered(o, u) => g[o] > 0
    BY DEF CalmInv
  <2>3. CASE Claimed(o, u) = 0
    BY <1>2, <2>1, <2>2, <2>3
  <2>4. CASE Claimed(o, u) > 0
    <3>1. up[o] /\ Claimed(o, u) + One(Entered(o, u)) <= Balance(o, u)
      BY <1>1, <2>4, ClaimedIs
    <3>2. missed[o] < 3 /\ lostV[o][u] = 0
      BY <1>1, <3>1 DEF CalmInv
    <3>3. Balance(o, u) <= g[o] + Settled(o, u, "Increment")
      BY <3>2 DEF LowInv
    <3>4. Settled(o, u, "Increment") \in Int /\ Settled(o, u, "Increment") <= 0
      BY <1>1, <3>2, SettledLost
    <3> QED BY <1>2, <2>1, <3>1, <3>3, <3>4 DEF One
  <2> QED BY <2>1, <2>3, <2>4
<1>4. Claims(u) = Pairs(f) /\ Entries(u) = Pairs(g)
  BY DEF Claims, Entries
<1> HIDE DEF f, g
<1>5. IsFiniteSet(Pairs(f)) /\ IsFiniteSet(Pairs(g))
  BY <1>1, <1>2, PairsFinite
<1>6. Pairs(f) \subseteq Pairs(g)
  <2> SUFFICES ASSUME NEW p \in Pairs(f) PROVE p \in Pairs(g)
    OBVIOUS
  <2>1. PICK o \in Owners : \E i \in 1..f[o] : p = <<o, i>>
    BY <1>2, PairOf
  <2>2. PICK i \in 1..f[o] : p = <<o, i>>
    BY <2>1
  <2>3. i \in 1..g[o]
    BY <1>1, <1>2, <1>3
  <2> QED BY <1>1, <2>2, <2>3, PairOf
<1>7. ASSUME NEW o \in Owners, Entered(o, u)
      PROVE  <<o, sems[u].owners[o]>> \in Pairs(g) \ Pairs(f)
  <2>1. g[o] > 0 /\ f[o] < g[o] /\ f[o] \in Nat /\ g[o] \in Nat
    BY <1>1, <1>2, <1>3, <1>7
  <2>2. g[o] \in 1..g[o] /\ g[o] \notin 1..f[o]
    BY <2>1
  <2>3. <<o, g[o]>> \in Pairs(g)
    BY <1>1, <2>2, PairOf
  <2>4. <<o, g[o]>> \notin Pairs(f)
    <3> SUFFICES ASSUME <<o, g[o]>> \in Pairs(f) PROVE FALSE
      OBVIOUS
    <3>1. PICK q \in Owners : \E i \in 1..f[q] : <<o, g[o]>> = <<q, i>>
      BY <1>2, PairOf
    <3> QED BY <2>2, <3>1
  <2> QED BY <2>3, <2>4 DEF g
<1>8. /\ IsFiniteSet(Pairs(g) \ Pairs(f)) /\ Cardinality(Pairs(f)) \in Nat
      /\ Cardinality(Pairs(g) \ Pairs(f)) = Cardinality(Pairs(g)) - Cardinality(Pairs(f))
  BY <1>5, <1>6, DifferenceCount
<1>9. Cardinality(WaitingOn(u)) <= Cardinality(Pairs(g) \ Pairs(f))
  BY <1>7, <1>8, WaitingFit
<1>10. Cardinality(WaitingOn(u)) \in Nat /\ Cardinality(Pairs(g)) \in Nat
  BY <1>4, CountTypes
<1> QED BY <1>4, <1>8, <1>9, <1>10

\* As long as no client fails in the middle of a call, the clients that are alive count
\* together on at most as many units as the semaphore has: with one unit, a mutex.
THEOREM MutualExclusion == ASSUME Calm PROVE Spec => []LiveExclusion
<1>1. ServerInv /\ LowInv /\ CalmInv /\ UnitsBounded /\ CounterInv => LiveExclusion
  <2> SUFFICES ASSUME ServerInv, LowInv, CalmInv, UnitsBounded, CounterInv, NEW u \in Live
               PROVE  Cardinality(Claims(u)) <= Units(u)
    BY DEF LiveExclusion
  <2>1. ~aborted
    BY DEF ServerInv, AbortInv, Live, Deleted
  <2>2. /\ Cardinality(Claims(u)) \in Nat
        /\ Cardinality(Claims(u)) + Cardinality(WaitingOn(u)) <= Cardinality(Entries(u))
    BY <2>1, ClaimsFit
  <2>3. /\ sems[u].cur \in Int /\ sems[u].min \in Int /\ sems[u].initial \in Int
        /\ Cardinality(Entries(u)) \in Nat /\ Cardinality(WaitingOn(u)) \in Nat
    BY CountTypes
  <2>4. sems[u].cur + Cardinality(Entries(u))
          <= sems[u].initial + Cardinality(WaitingOn(u))
    BY DEF UnitsBounded
  <2>5. sems[u].cur >= sems[u].min \/ sems[u].cur >= sems[u].initial
    BY DEF CounterInv
  <2> QED BY <2>2, <2>3, <2>4, <2>5 DEF Units
<1>2. Spec => []CalmInv
  BY CalmSafe
<1> QED BY <1>1, <1>2, ServerSafe, LowSafe, NoUnitFromNowhere, CounterSafe, PTL
=============================================================================
