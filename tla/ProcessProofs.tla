--------------------------- MODULE ProcessProofs ---------------------------
(***************************************************************************)
(* What module Process guarantees for every command line, every request,   *)
(* every number of threads and of signals.  The inductive invariant says   *)
(* where the main thread can be with what of the service, the pool and the *)
(* handlers of SIGINT; the properties of module Process follow from it.    *)
(***************************************************************************)
EXTENDS Process, FiniteSetTheorems, TLAPS

\* Where main is once its loop is over, and while it runs it.
Leaving      == {"close", "join", "delete", "return"}
ServerPlaces == {"loop", "scan"}
ClientPlaces == {"prompt", "call", "SafeExit", "raise", "test"}

NoSignal == \A i \in Handlers : handler[i] = "none"
Lone(i)  == handler[i] # "none" /\ \A j \in Handlers \ {i} : handler[j] = "none"

\* The loops are left by a stop(), and a stop() is called by a handler that has
\* put its watchdog in quittingthread.
StopInv ==
  /\ at \in Leaving => stopped
  /\ stopped => joinable
  /\ \A i \in Handlers : handler[i] \in {"stop", "stop console", "done"} => joinable

\* Main publishes the service, runs the loop of its kind, and deletes the service.
PlaceInv ==
  /\ at = "start" => ~isServer /\ NoSignal
  /\ at \in ServerPlaces => isServer
  /\ at \in ClientPlaces => ~isServer
  /\ at \in {"start", "construct"} => \A t \in Threads : pool[t] = NoThread
  /\ service = "null" <=> at \in {"start", "construct", "publish"}
  /\ service = "deleted" <=> at = "return"
  /\ stopped => service # "null"

\* From the stop of the HTTP server on no thread waits for a request, and main
\* only passes its join when none is left.
DrainInv ==
  /\ closed <=> at \in {"join", "delete", "return"}
  /\ closed => \A t \in Threads : pool[t] # Idle
  /\ at \in {"delete", "return"} => \A t \in Threads : pool[t] \in {NoThread, Done}

\* What one handler alone can have done so far, and what quit does before it
\* raises SIGINT: a client only leaves its loop when its console is stopped too,
\* which is the last thing a handler does or, after quit, what main waits for.
HandlerInv ==
  /\ isServer => \A i \in Handlers : handler[i] # "stop console"
  /\ isServer => handler[Raised] = "none"
  /\ handler[Raised] \notin {"none", "done"} => at = "raise"
  /\ handler[Raised] # "none" => consoleStopped
  /\ at \in Leaving /\ ~isServer => consoleStopped
  /\ NoSignal => ~stopped /\ ~consoleStopped
  /\ \A i \in Handlers : Lone(i) =>
       /\ stopped => handler[i] \in {"stop console", "done"}
       /\ consoleStopped /\ i # Raised => handler[i] = "done"
       /\ i = Raised => at \in {"raise", "test"} \cup Leaving

\* A line counted as late was read before the console was stopped as well, and
\* the prompt does not come back.
LateInv ==
  /\ stopped /\ ~isServer => consoleStopped \/ \E i \in Handlers : handler[i] = "stop console"
  /\ late > 0 => stopped /\ consoleStopped /\ at # "prompt"
  /\ late <= 1

\* What waits in decrement() is a P that a server admitted.
WaitInv ==
  \A t \in Threads : pool[t].pc = "waiting" =>
    /\ isServer /\ sem # "none"
    /\ pool[t].r.method = "Locks.DecrementSemaphore" /\ pool[t].r.uuid = "known"

-----------------------------------------------------------------------------
(* The states of a thread of the pool. *)

\* A state of the pool is told by its pc.
LEMMA PoolCases ==
  ASSUME NEW s \in PoolStates
  PROVE  /\ s.pc \in {"none", "idle", "done", "handling", "waiting", "answering"}
         /\ s.pc = "none" <=> s = NoThread
         /\ s.pc = "idle" <=> s = Idle
         /\ s.pc = "done" <=> s = Done
         /\ s.pc = "answering" <=> s = Answering
         /\ s.pc \in {"handling", "waiting"} => s.r \in Requests
BY DEF PoolStates, NoThread, Idle, Done, Handling, InDecrement, Answering

\* The states a thread moves to.
LEMMA PoolTakes ==
  ASSUME NEW r \in Requests
  PROVE  /\ Handling(r) \in PoolStates /\ InDecrement(r) \in PoolStates
         /\ Handling(r).pc = "handling" /\ Handling(r).r = r
         /\ InDecrement(r).pc = "waiting" /\ InDecrement(r).r = r
BY DEF PoolStates, Handling, InDecrement

LEMMA PoolStill == /\ NoThread.pc = "none" /\ Idle.pc = "idle" /\ Done.pc = "done"
                   /\ Answering.pc = "answering"
                   /\ {NoThread, Idle, Done, Answering} \subseteq PoolStates
BY DEF PoolStates, NoThread, Idle, Done, Answering

-----------------------------------------------------------------------------
(* Types. *)

LEMMA TypeInit == Init => TypeOK
<1> SUFFICES ASSUME Init PROVE TypeOK
  OBVIOUS
<1>1. late \in 0..MaxLate /\ threads \in Int \ {Unset}
  BY ProcessAssumption DEF Init, Unset
<1>2. pool \in [Threads -> PoolStates]
  BY PoolStill DEF Init
<1> QED BY <1>1, <1>2 DEF Init, TypeOK, Places, Ends

LEMMA EndsType ==
  ASSUME TypeOK, NEW how \in Ends, Ends_(how)
  PROVE  TypeOK'
BY DEF Ends_, TypeOK, mainVars, signalVars, poolVars

LEMMA ExitType ==
  ASSUME TypeOK, NEW how \in Ends, Exit(how)
  PROVE  TypeOK'
BY EndsType DEF Exit, Ends

LEMMA TypeMain == TypeOK /\ MainStep => TypeOK'
<1> SUFFICES ASSUME TypeOK, MainStep PROVE TypeOK'
  OBVIOUS
<1> USE DEF mainVars, signalVars, poolVars, Places
<1>1. ASSUME NEW c \in CommandLines, Start(c) PROVE TypeOK'
  <2>1. CASE Refused(c)
    BY <1>1, <2>1, ExitType DEF Start, Ends
  <2>2. CASE ~Refused(c)
    <3>1. c.threads \in Int
      BY ProcessAssumption DEF CommandLineType
    <3> QED BY <1>1, <2>2, <3>1 DEF Start, TypeOK
  <2> QED BY <2>1, <2>2
<1>2. CASE StartPool
  <2>1. CASE threads < 0 /\ ~isServer
    BY <1>2, <2>1, ExitType, EndsType DEF StartPool, Ends
  <2>2. CASE ~(threads < 0 /\ ~isServer)
    BY <1>2, <2>2, PoolStill DEF StartPool, TypeOK
  <2> QED BY <2>1, <2>2
<1>3. CASE Publish
  BY <1>3 DEF Publish, TypeOK
<1>4. CASE Loop \/ ScanEnds \/ CallEnds \/ SafeExitThrows \/ RaiseEnds \/ Test \/ Join
  BY <1>4 DEF Loop, ScanEnds, CallEnds, SafeExitThrows, RaiseEnds, Test, Join, Go, TypeOK
<1>5. CASE ReadLine
  <2>1. late \in 0..MaxLate /\ MaxLate \in Nat
    BY ProcessAssumption DEF TypeOK
  <2>2. late' \in 0..MaxLate
    BY <1>5, <2>1 DEF ReadLine
  <2> QED BY <1>5, <2>2 DEF ReadLine, TypeOK
<1>6. CASE SafeExitEnds
  BY <1>6 DEF SafeExitEnds, Go, TypeOK
<1>7. CASE Close
  BY <1>7, PoolStill DEF Close, Go, TypeOK
<1>8. CASE DeleteService
  BY <1>8 DEF DeleteService, Go, TypeOK
<1>9. CASE Return
  BY <1>9, ExitType DEF Return, Ends
<1> QED
  BY <1>1, <1>2, <1>3, <1>4, <1>5, <1>6, <1>7, <1>8, <1>9 DEF MainStep

LEMMA TypePool == TypeOK /\ PoolStep => TypeOK'
<1> SUFFICES ASSUME TypeOK, NEW t \in Threads,
                    (\E r \in Requests : Receive(t, r)) \/ Handle(t) \/ Granted(t) \/ Answer(t)
             PROVE  TypeOK'
  BY DEF PoolStep
<1> USE DEF mainVars, signalVars
<1>1. pool[t] \in PoolStates
  BY DEF TypeOK
<1>2. ASSUME NEW s \in PoolStates, Thread(t, s) PROVE pool' \in [Threads -> PoolStates]
  BY <1>2 DEF Thread, TypeOK
<1>3. ASSUME NEW r \in Requests, Receive(t, r) PROVE TypeOK'
  <2>1. pool' \in [Threads -> PoolStates]
    BY <1>2, <1>3, PoolTakes DEF Receive
  <2> QED BY <1>3, <2>1 DEF Receive, TypeOK
<1>4. CASE Handle(t)
  <2>1. pool[t].r \in Requests
    BY <1>1, <1>4, PoolCases DEF Handle
  <2>2. /\ pool' \in [Threads -> PoolStates]
        /\ sem' \in {"none", "live", "deleted"}
        /\ ended' \in {ended, "aborted"}
    <3> DEFINE outcome == Served(pool[t].r, isServer, sem = "live")
    <3>2. SemAfter(pool[t].r) \in {"none", "live", "deleted"}
      BY DEF SemAfter, TypeOK
    <3>3. CASE Thread(t, InDecrement(pool[t].r)) /\ UNCHANGED <<sem, ended>>
      BY <1>2, <2>1, <3>3, PoolTakes DEF TypeOK
    <3>4. CASE /\ outcome \in {"text", "error", "ok"}
               /\ Thread(t, Answering)
               /\ sem' = IF isServer /\ outcome = "ok" THEN SemAfter(pool[t].r) ELSE sem
               /\ UNCHANGED ended
      BY <1>2, <3>2, <3>4, PoolStill DEF TypeOK
    <3>5. CASE ended' = "aborted" /\ UNCHANGED <<pool, sem>>
      BY <3>5 DEF TypeOK
    <3>6. CASE Thread(t, Answering) /\ UNCHANGED <<sem, ended>>
      BY <1>2, <3>6, PoolStill DEF TypeOK
    <3> QED BY <1>4, <3>3, <3>4, <3>5, <3>6 DEF Handle
  <2> QED BY <1>4, <2>2 DEF Handle, TypeOK, Ends
<1>5. CASE Granted(t)
  <2>1. pool[t].r \in Requests
    BY <1>1, <1>5, PoolCases DEF Granted
  <2>2. CASE sem = "deleted" /\ Ends_("aborted")
    BY <2>2, EndsType DEF Ends
  <2>3. CASE /\ Thread(t, Answering)
             /\ UNCHANGED <<at, mainVars, signalVars, closed, sem, ended>>
    <3>1. pool' \in [Threads -> PoolStates]
      BY <1>2, <2>3, PoolStill
    <3> QED BY <2>3, <3>1 DEF TypeOK
  <2> QED BY <1>5, <2>2, <2>3 DEF Granted
<1>6. CASE Answer(t)
  <2>1. pool' \in [Threads -> PoolStates]
    BY <1>2, <1>6, PoolStill DEF Answer
  <2> QED BY <1>6, <2>1 DEF Answer, TypeOK
<1> QED BY <1>3, <1>4, <1>5, <1>6

LEMMA TypeSignal == TypeOK /\ SignalStep => TypeOK'
<1> SUFFICES ASSUME TypeOK, SignalStep PROVE TypeOK'
  OBVIOUS
<1> USE DEF mainVars, poolVars
<1>1. ASSUME NEW i \in Handlers, Signal(i) PROVE TypeOK'
  BY <1>1, EndsType DEF Signal, TypeOK, Ends
<1>2. ASSUME NEW i \in Handlers, HandlerCheck(i) PROVE TypeOK'
  <2>1. CASE joinable
    BY <1>2, <2>1, EndsType DEF HandlerCheck, Ends
  <2>2. CASE ~joinable
    <3>1. watchdogs \in Nat
      BY DEF TypeOK
    <3>2. watchdogs' \in Nat
      BY <1>2, <2>2, <3>1 DEF HandlerCheck
    <3> QED BY <1>2, <2>2, <3>2 DEF HandlerCheck, TypeOK
  <2> QED BY <2>1, <2>2
<1>3. ASSUME NEW i \in Handlers, HandlerAssign(i) PROVE TypeOK'
  BY <1>3, EndsType DEF HandlerAssign, TypeOK, Ends
<1>4. ASSUME NEW i \in Handlers, HandlerStop(i) PROVE TypeOK'
  BY <1>4, EndsType DEF HandlerStop, TypeOK, Ends
<1>5. ASSUME NEW i \in Handlers, HandlerStopConsole(i) PROVE TypeOK'
  BY <1>5 DEF HandlerStopConsole, TypeOK
<1>6. CASE Watchdog
  BY <1>6, ExitType DEF Watchdog, Ends
<1> QED
  BY <1>1, <1>2, <1>3, <1>4, <1>5, <1>6 DEF SignalStep, HandlerStep

LEMMA TypeStep == TypeOK /\ [Next]_vars => TypeOK'
<1>1. TypeOK /\ UNCHANGED vars => TypeOK'
  BY DEF TypeOK, vars, mainVars, signalVars, poolVars
<1> QED BY <1>1, TypeMain, TypePool, TypeSignal DEF Next, Over

\* The variables of a process stay in their ranges.
THEOREM TypeCorrect == Spec => []TypeOK
BY TypeInit, TypeStep, PTL DEF Spec

-----------------------------------------------------------------------------
(* Control. *)

ControlInv == StopInv /\ PlaceInv /\ DrainInv /\ HandlerInv /\ LateInv
ProcessInv == TypeOK /\ ControlInv /\ WaitInv

LEMMA RaisedHandler == Raised \in Handlers /\ \A i \in 1..MaxSignals : i # Raised
BY DEF Raised, Handlers

LEMMA ControlInit == Init => ControlInv /\ WaitInv
BY RaisedHandler, PoolStill
   DEF Init, ControlInv, StopInv, PlaceInv, DrainInv, HandlerInv, LateInv, WaitInv,
       Leaving, ServerPlaces, ClientPlaces, NoSignal, Lone

LEMMA ControlStill ==
  ASSUME ProcessInv, UNCHANGED <<at, mainVars, signalVars, poolVars>>
  PROVE  ControlInv' /\ WaitInv'
BY DEF ProcessInv, ControlInv, StopInv, PlaceInv, DrainInv, HandlerInv, LateInv, WaitInv,
       NoSignal, Lone, mainVars, signalVars, poolVars

LEMMA ControlEnds ==
  ASSUME ProcessInv, NEW how, Ends_(how) \/ Exit(how)
  PROVE  ControlInv' /\ WaitInv'
BY ControlStill DEF Exit, Ends_

LEMMA ControlMain == ProcessInv /\ MainStep => ControlInv' /\ WaitInv'
<1> SUFFICES ASSUME ProcessInv, MainStep PROVE ControlInv' /\ WaitInv'
  OBVIOUS
<1>1. StopInv /\ PlaceInv /\ DrainInv /\ HandlerInv /\ LateInv /\ WaitInv
  BY DEF ProcessInv, ControlInv
<1>2. /\ stopped \in BOOLEAN /\ consoleStopped \in BOOLEAN /\ late \in 0..MaxLate
      /\ handler \in [Handlers -> {"none", "check", "assign", "stop",
                                  "stop console", "done"}]
      /\ pool \in [Threads -> PoolStates]
  BY DEF ProcessInv, TypeOK
<1> USE <1>1, RaisedHandler
    DEF mainVars, signalVars, poolVars,
        Leaving, ServerPlaces, ClientPlaces, NoSignal, Lone
<1>3. ASSUME NEW c \in CommandLines, Start(c) PROVE ControlInv' /\ WaitInv'
  <2>1. CASE Refused(c)
    BY <1>3, <2>1, ControlEnds DEF Start
  <2>2. CASE ~Refused(c)
    <3>1. /\ at = "start" /\ at' = "construct"
          /\ UNCHANGED <<service, late, signalVars, poolVars>>
      BY <1>3, <2>2 DEF Start
    <3>2. StopInv' /\ PlaceInv' /\ DrainInv' /\ WaitInv'
      BY <3>1, PoolStill DEF StopInv, PlaceInv, DrainInv, WaitInv
    <3>3. HandlerInv'
      BY <3>1 DEF HandlerInv, PlaceInv
    <3>4. LateInv'
      BY <3>1 DEF LateInv, PlaceInv, HandlerInv
    <3> QED BY <3>2, <3>3, <3>4 DEF ControlInv
  <2> QED BY <2>1, <2>2
<1>4. CASE StartPool
  <2>1. CASE threads < 0 /\ ~isServer
    BY <1>4, <2>1, ControlEnds DEF StartPool
  <2>2. CASE ~(threads < 0 /\ ~isServer)
    <3>1. StopInv' /\ PlaceInv' /\ DrainInv' /\ WaitInv'
      BY <1>4, <2>2, PoolStill DEF StartPool, StopInv, PlaceInv, DrainInv, WaitInv
    <3>2. HandlerInv'
      BY <1>4, <2>2 DEF StartPool, HandlerInv
    <3>3. LateInv'
      BY <1>4, <2>2, PoolStill DEF StartPool, LateInv
    <3> QED BY <3>1, <3>2, <3>3 DEF ControlInv
  <2> QED BY <2>1, <2>2
<1>5. CASE Publish
  <2>1. StopInv' /\ PlaceInv' /\ DrainInv' /\ WaitInv'
    BY <1>5 DEF Publish, StopInv, PlaceInv, DrainInv, WaitInv
  <2>2. HandlerInv'
    BY <1>5 DEF Publish, HandlerInv
  <2>3. LateInv'
    BY <1>5 DEF Publish, LateInv, PlaceInv
  <2> QED BY <2>1, <2>2, <2>3 DEF ControlInv
<1>6. CASE Loop
  <2>1. StopInv' /\ PlaceInv' /\ DrainInv' /\ WaitInv'
    BY <1>6 DEF Loop, Go, StopInv, PlaceInv, DrainInv, WaitInv
  <2>2. HandlerInv'
    BY <1>6 DEF Loop, Go, HandlerInv, PlaceInv
  <2>3. LateInv'
    BY <1>6 DEF Loop, Go, LateInv
  <2> QED BY <2>1, <2>2, <2>3 DEF ControlInv
<1>7. CASE ScanEnds
  <2>1. StopInv' /\ PlaceInv' /\ DrainInv' /\ WaitInv'
    BY <1>7 DEF ScanEnds, Go, StopInv, PlaceInv, DrainInv, WaitInv
  <2>2. HandlerInv'
    BY <1>7 DEF ScanEnds, Go, HandlerInv
  <2>3. LateInv'
    BY <1>7 DEF ScanEnds, Go, LateInv
  <2> QED BY <2>1, <2>2, <2>3 DEF ControlInv
<1>8. CASE ReadLine
  <2>1. StopInv' /\ PlaceInv' /\ DrainInv' /\ WaitInv'
    BY <1>8, <1>2 DEF ReadLine, StopReturned, StopInv, PlaceInv, DrainInv, WaitInv
  <2>2. HandlerInv'
    BY <1>8, <1>2 DEF ReadLine, StopReturned, HandlerInv
  <2>3. LateInv'
    <3>1. at = "prompt" /\ at' # "prompt" /\ UNCHANGED <<isServer, signalVars>>
      BY <1>8 DEF ReadLine
    <3>2. ~(late > 0)
      BY <3>1 DEF LateInv
    <3>3. late \in Nat
      <4>1. late \in 0..MaxLate /\ MaxLate \in Nat
        BY <1>2, ProcessAssumption
      <4> QED BY <4>1
    <3>4. late' \in {0, 1} /\ (late' = 1 => StopReturned)
      BY <1>8, <3>2, <3>3 DEF ReadLine
    <3>5. StopReturned => stopped /\ consoleStopped
      BY <3>1 DEF StopReturned, LateInv, PlaceInv
    <3>6. late' > 0 => late' = 1
      BY <3>4
    <3>7. stopped' /\ ~isServer' =>
            consoleStopped' \/ \E i \in Handlers : handler'[i] = "stop console"
      BY <3>1 DEF LateInv
    <3>8. late' <= 1
      BY <3>4
    <3>9. late' > 0 => stopped' /\ consoleStopped' /\ at' # "prompt"
      BY <3>1, <3>4, <3>5, <3>6
    <3> QED BY <3>7, <3>8, <3>9 DEF LateInv
  <2> QED BY <2>1, <2>2, <2>3 DEF ControlInv
<1>9. CASE CallEnds
  <2>1. StopInv' /\ PlaceInv' /\ DrainInv' /\ WaitInv'
    BY <1>9 DEF CallEnds, Go, StopInv, PlaceInv, DrainInv, WaitInv
  <2>2. HandlerInv'
    BY <1>9 DEF CallEnds, Go, HandlerInv
  <2>3. LateInv'
    BY <1>9 DEF CallEnds, Go, LateInv
  <2> QED BY <2>1, <2>2, <2>3 DEF ControlInv
<1>10. CASE SafeExitThrows
  <2>1. StopInv' /\ PlaceInv' /\ DrainInv' /\ WaitInv'
    BY <1>10 DEF SafeExitThrows, Go, StopInv, PlaceInv, DrainInv, WaitInv
  <2>2. HandlerInv'
    BY <1>10 DEF SafeExitThrows, Go, HandlerInv
  <2>3. LateInv'
    BY <1>10 DEF SafeExitThrows, Go, LateInv
  <2> QED BY <2>1, <2>2, <2>3 DEF ControlInv
<1>11. CASE SafeExitEnds
  <2>1. StopInv' /\ PlaceInv' /\ DrainInv' /\ WaitInv'
    BY <1>11, <1>2 DEF SafeExitEnds, Go, StopInv, PlaceInv, DrainInv, WaitInv
  <2>2. HandlerInv'
    BY <1>11, <1>2 DEF SafeExitEnds, Go, HandlerInv, PlaceInv
  <2>3. LateInv'
    BY <1>11, <1>2 DEF SafeExitEnds, Go, LateInv
  <2> QED BY <2>1, <2>2, <2>3 DEF ControlInv
<1>12. CASE RaiseEnds
  <2>1. StopInv' /\ PlaceInv' /\ DrainInv' /\ WaitInv'
    BY <1>12 DEF RaiseEnds, Go, StopInv, PlaceInv, DrainInv, WaitInv
  <2>2. HandlerInv'
    BY <1>12 DEF RaiseEnds, Go, HandlerInv
  <2>3. LateInv'
    BY <1>12 DEF RaiseEnds, Go, LateInv
  <2> QED BY <2>1, <2>2, <2>3 DEF ControlInv
<1>13. CASE Test
  <2>1. StopInv' /\ PlaceInv' /\ DrainInv' /\ WaitInv'
    BY <1>13 DEF Test, Go, StopInv, PlaceInv, DrainInv, WaitInv
  <2>2. HandlerInv'
    BY <1>13 DEF Test, Go, HandlerInv
  <2>3. LateInv'
    BY <1>13 DEF Test, Go, LateInv
  <2> QED BY <2>1, <2>2, <2>3 DEF ControlInv
<1>14. CASE Close
  <2>1. StopInv' /\ PlaceInv' /\ DrainInv' /\ WaitInv'
    BY <1>14, <1>2, PoolStill DEF Close, Go, StopInv, PlaceInv, DrainInv, WaitInv
  <2>2. HandlerInv'
    BY <1>14, <1>2, PoolStill DEF Close, Go, HandlerInv
  <2>3. LateInv'
    BY <1>14, <1>2, PoolStill DEF Close, Go, LateInv
  <2> QED BY <2>1, <2>2, <2>3 DEF ControlInv
<1>15. CASE Join
  <2>1. StopInv' /\ PlaceInv' /\ DrainInv' /\ WaitInv'
    BY <1>15 DEF Join, Go, StopInv, PlaceInv, DrainInv, WaitInv
  <2>2. HandlerInv'
    BY <1>15 DEF Join, Go, HandlerInv
  <2>3. LateInv'
    BY <1>15 DEF Join, Go, LateInv
  <2> QED BY <2>1, <2>2, <2>3 DEF ControlInv
<1>16. CASE DeleteService
  <2>1. StopInv' /\ PlaceInv' /\ DrainInv' /\ WaitInv'
    BY <1>16 DEF DeleteService, Go, StopInv, PlaceInv, DrainInv, WaitInv
  <2>2. HandlerInv'
    BY <1>16 DEF DeleteService, Go, HandlerInv
  <2>3. LateInv'
    BY <1>16 DEF DeleteService, Go, LateInv
  <2> QED BY <2>1, <2>2, <2>3 DEF ControlInv
<1>17. CASE Return
  BY <1>17, ControlEnds DEF Return
<1> QED
  BY <1>3, <1>4, <1>5, <1>6, <1>7, <1>8, <1>9, <1>10, <1>11, <1>12, <1>13, <1>14, <1>15,
     <1>16, <1>17
     DEF MainStep

LEMMA ControlSignal == ProcessInv /\ SignalStep => ControlInv' /\ WaitInv'
<1> SUFFICES ASSUME ProcessInv, SignalStep PROVE ControlInv' /\ WaitInv'
  OBVIOUS
<1>1. StopInv /\ PlaceInv /\ DrainInv /\ HandlerInv /\ LateInv /\ WaitInv
  BY DEF ProcessInv, ControlInv
<1>2. /\ stopped \in BOOLEAN /\ consoleStopped \in BOOLEAN
      /\ service \in {"null", "exists", "deleted"}
      /\ handler \in [Handlers -> {"none", "check", "assign", "stop",
                                  "stop console", "done"}]
  BY DEF ProcessInv, TypeOK
<1> USE <1>1, <1>2, RaisedHandler
    DEF mainVars, signalVars, poolVars,
        Leaving, ServerPlaces, ClientPlaces, NoSignal, Lone
<1>3. ASSUME NEW i \in Handlers, Signal(i) PROVE ControlInv' /\ WaitInv'
  <2>1. CASE at = "start"
    BY <1>3, <2>1, ControlEnds DEF Signal
  <2>2. CASE at # "start"
    <3>1. StopInv' /\ PlaceInv' /\ DrainInv' /\ WaitInv'
      BY <1>3, <2>2 DEF Signal, StopInv, PlaceInv, DrainInv, WaitInv
    <3>2. HandlerInv'
      BY <1>3, <2>2 DEF Signal, HandlerInv
    <3>3. LateInv'
      BY <1>3, <2>2 DEF Signal, LateInv
    <3> QED BY <3>1, <3>2, <3>3 DEF ControlInv
  <2> QED BY <2>1, <2>2
<1>4. ASSUME NEW i \in Handlers, HandlerCheck(i) PROVE ControlInv' /\ WaitInv'
  <2>1. CASE joinable
    BY <1>4, <2>1, ControlEnds DEF HandlerCheck
  <2>2. CASE ~joinable
    <3>1. StopInv' /\ PlaceInv' /\ DrainInv' /\ WaitInv'
      BY <1>4, <2>2 DEF HandlerCheck, StopInv, PlaceInv, DrainInv, WaitInv
    <3>2. HandlerInv'
      BY <1>4, <2>2 DEF HandlerCheck, HandlerInv
    <3>3. LateInv'
      BY <1>4, <2>2 DEF HandlerCheck, LateInv
    <3> QED BY <3>1, <3>2, <3>3 DEF ControlInv
  <2> QED BY <2>1, <2>2
<1>5. ASSUME NEW i \in Handlers, HandlerAssign(i) PROVE ControlInv' /\ WaitInv'
  <2>1. CASE Ends_("aborted")
    BY <2>1, ControlEnds
  <2>2. CASE /\ joinable' = TRUE
             /\ handler' = [handler EXCEPT ![i] = "stop"]
             /\ UNCHANGED <<at, mainVars, stopped, consoleStopped, watchdogs, poolVars, ended>>
    <3>1. handler[i] = "assign"
      BY <1>5 DEF HandlerAssign
    <3>2. StopInv' /\ PlaceInv' /\ DrainInv' /\ WaitInv'
      BY <2>2, <3>1 DEF StopInv, PlaceInv, DrainInv, WaitInv
    <3>3. HandlerInv'
      BY <2>2, <3>1 DEF HandlerInv
    <3>4. LateInv'
      BY <2>2, <3>1 DEF LateInv
    <3> QED BY <3>2, <3>3, <3>4 DEF ControlInv
  <2> QED BY <1>5, <2>1, <2>2 DEF HandlerAssign
<1>6. ASSUME NEW i \in Handlers, HandlerStop(i) PROVE ControlInv' /\ WaitInv'
  <2>1. CASE Ends_("aborted")
    BY <2>1, ControlEnds
  <2>2. CASE /\ handler' = [handler EXCEPT ![i] = IF service = "null" \/ isServer
                                                   THEN "done" ELSE "stop console"]
             /\ stopped' = (stopped \/ service = "exists")
             /\ UNCHANGED <<at, mainVars, consoleStopped, joinable, watchdogs, poolVars, ended>>
    <3>1. handler[i] = "stop"
      BY <1>6 DEF HandlerStop
    <3>2. StopInv' /\ PlaceInv' /\ DrainInv' /\ WaitInv'
      BY <2>2, <3>1 DEF StopInv, PlaceInv, DrainInv, WaitInv
    <3>3. HandlerInv'
      BY <2>2, <3>1 DEF HandlerInv
    <3>4. LateInv'
      BY <2>2, <3>1 DEF LateInv
    <3> QED BY <3>2, <3>3, <3>4 DEF ControlInv
  <2> QED BY <1>6, <2>1, <2>2 DEF HandlerStop
<1>7. ASSUME NEW i \in Handlers, HandlerStopConsole(i) PROVE ControlInv' /\ WaitInv'
  <2>1. StopInv' /\ PlaceInv' /\ DrainInv' /\ WaitInv'
    BY <1>7 DEF HandlerStopConsole, StopInv, PlaceInv, DrainInv, WaitInv
  <2>2. HandlerInv'
    BY <1>7 DEF HandlerStopConsole, HandlerInv
  <2>3. LateInv'
    BY <1>7 DEF HandlerStopConsole, LateInv
  <2> QED BY <2>1, <2>2, <2>3 DEF ControlInv
<1>8. CASE Watchdog
  BY <1>8, ControlEnds DEF Watchdog
<1> QED
  BY <1>3, <1>4, <1>5, <1>6, <1>7, <1>8 DEF SignalStep, HandlerStep

-----------------------------------------------------------------------------
(* What module Request makes of a request, for every request. *)

\* Only an admitted P waits.
LEMMA ServedWaits ==
  ASSUME NEW r \in RequestType, NEW srv \in BOOLEAN, NEW live \in BOOLEAN,
         Served(r, srv, live) = "waits"
  PROVE  /\ srv /\ live
         /\ r.method = "Locks.DecrementSemaphore" /\ r.uuid = "known"
BY DEF Served, Caught, ServerHandler, ClientHandler, Create, Delete, Decrement, Increment,
       LocksProbe, Admitted

\* No exception leaves the thread's function but the parser's.
LEMMA ServedCatches ==
  ASSUME NEW r \in RequestType, NEW srv \in BOOLEAN, NEW live \in BOOLEAN,
         Served(r, srv, live) = "throws"
  PROVE  r.body = "too deep" /\ ~TurnedAway(r)
BY DEF Served, Caught

\* Only the two probes are answered with undefined behaviour.
LEMMA ServedUndefined ==
  ASSUME NEW r \in RequestType, NEW srv \in BOOLEAN, NEW live \in BOOLEAN,
         Served(r, srv, live) = "undefined"
  PROVE  \/ srv /\ r.method = "Locks.Probe" /\ ~(r.uuid = "known" /\ live)
         \/ ~srv /\ r.method = "Client.Probe" /\ r.initiator \in {"no colon", Missing}
<1>1. Words("ip:port") = 2
  BY DEF Words, Missing
<1>2. r.initiator \in {"ip:port", "no colon", Missing, Structured}
  BY DEF RequestType
<1>3. CASE srv
  BY <1>3 DEF Served, Caught, ServerHandler, Create, Delete, Decrement, Increment,
              LocksProbe, Readable
<1>4. CASE ~srv
  <2>1. ClientHandler(r) = "undefined"
    BY <1>4 DEF Served, Caught
  <2>2. r.method = "Client.Probe" /\ ~(Words(r.initiator) >= 2) /\ r.initiator # Structured
    BY <2>1 DEF ClientHandler, Readable
  <2>3. r.initiator # "ip:port"
    BY <1>1, <2>2
  <2> QED BY <1>2, <1>4, <2>2, <2>3
<1> QED BY <1>3, <1>4

\* An answer "ok" to a Create is for bounds in order, and one to a Delete for a
\* semaphore that exists.
LEMMA ServedSound ==
  ASSUME NEW r \in RequestType, NEW live \in BOOLEAN,
         Served(r, TRUE, live) = "ok"
  PROVE  /\ ~TurnedAway(r)
         /\ r.method = "Locks.CreateSemaphore" =>
              r.min <= r.max /\ r.cur # r.min /\ {r.cur, r.min, r.max} \subseteq Nat
         /\ r.method = "Locks.DeleteSemaphore" => r.uuid = "known"
<1>1. ~TurnedAway(r) /\ ServerHandler(r, live) = "ok" /\ r.body = "object"
  BY DEF Served, Caught, ServerHandler
<1>2. ASSUME r.method = "Locks.CreateSemaphore"
      PROVE  r.min <= r.max /\ r.cur # r.min /\ {r.cur, r.min, r.max} \subseteq Nat
  <2>1. Create(r) = "ok"
    BY <1>1, <1>2 DEF ServerHandler
  <2>2. ~(FirstBad(r) < 0) /\ r.cur # r.min /\ ~(r.min > r.max)
    BY <2>1 DEF Create
  <2>3. r.cur \in Int /\ r.min \in Int /\ r.max \in Int
    BY DEF RequestType
  <2> QED BY <2>2, <2>3 DEF FirstBad
<1>3. ASSUME r.method = "Locks.DeleteSemaphore" PROVE r.uuid = "known"
  BY <1>1, <1>3 DEF ServerHandler, Delete
<1> QED BY <1>1, <1>2, <1>3

-----------------------------------------------------------------------------
(* The pool, and the whole invariant. *)

\* What thread t may do to itself and to the semaphore.
PoolMove(t) ==
  /\ UNCHANGED <<at, mainVars, signalVars, closed>>
  /\ pool' = [pool EXCEPT ![t] = pool'[t]]
  /\ pool'[t] # pool[t] => pool[t] \notin {NoThread, Done}
  /\ pool[t] = Idle /\ pool'[t] # Idle => ~closed
  /\ pool'[t] = Idle => ~closed \/ pool[t] = Idle
  /\ sem = "deleted" => sem' = "deleted"
  /\ sem # "none" => sem' # "none"
  /\ pool'[t].pc = "waiting" /\ pool'[t] # pool[t] =>
       /\ isServer /\ sem # "none"
       /\ pool'[t].r.method = "Locks.DecrementSemaphore" /\ pool'[t].r.uuid = "known"

\* The outcomes of Handle(t).
Waits(t)      == /\ Served(pool[t].r, isServer, sem = "live") = "waits"
                 /\ Thread(t, InDecrement(pool[t].r)) /\ UNCHANGED <<sem, ended>>
Replies(t)    == LET outcome == Served(pool[t].r, isServer, sem = "live")
                 IN /\ outcome \in {"text", "error", "ok"}
                    /\ Thread(t, Answering)
                    /\ sem' = IF isServer /\ outcome = "ok" THEN SemAfter(pool[t].r) ELSE sem
                    /\ UNCHANGED ended
Aborts(t)     == /\ Served(pool[t].r, isServer, sem = "live") \in {"throws", "undefined"}
                 /\ ended' = "aborted" /\ UNCHANGED <<pool, sem>>
Strays(t)     == /\ Served(pool[t].r, isServer, sem = "live") = "undefined"
                 /\ Thread(t, Answering) /\ UNCHANGED <<sem, ended>>

LEMMA HandleCases ==
  ASSUME TypeOK, NEW t \in Threads, Handle(t)
  PROVE  /\ pool[t].pc = "handling" /\ pool[t].r \in Requests
         /\ pool[t].r \in RequestType /\ isServer \in BOOLEAN
         /\ UNCHANGED <<at, mainVars, signalVars, closed>>
         /\ Waits(t) \/ Replies(t) \/ Aborts(t) \/ Strays(t)
<1>1. pool[t].pc = "handling" /\ pool[t].r \in Requests
  BY PoolCases DEF Handle, TypeOK
<1>2. pool[t].r \in RequestType /\ isServer \in BOOLEAN
  BY <1>1, ProcessAssumption DEF TypeOK
<1>3. Waits(t) \/ Replies(t) \/ Aborts(t) \/ Strays(t)
  BY Zenon DEF Handle, Waits, Replies, Aborts, Strays
<1> QED BY <1>1, <1>2, <1>3 DEF Handle

ThreadStep(t) == (\E r \in Requests : Receive(t, r)) \/ Handle(t) \/ Granted(t) \/ Answer(t)

\* Every step of a thread is such a move.
LEMMA ThreadMoves ==
  ASSUME TypeOK, WaitInv, NEW t \in Threads, ThreadStep(t)
  PROVE  PoolMove(t)
<1> USE DEF PoolMove, mainVars, signalVars
<1>1. pool[t] \in PoolStates /\ pool \in [Threads -> PoolStates] /\ isServer \in BOOLEAN
  BY DEF TypeOK
<1>2. pool[t].pc \in {"handling", "waiting", "answering"} =>
        pool[t] \notin {NoThread, Done, Idle}
  BY <1>1, PoolStill
<1>3. ASSUME NEW s \in PoolStates, Thread(t, s)
      PROVE  pool' = [pool EXCEPT ![t] = pool'[t]] /\ pool'[t] = s
  BY <1>1, <1>3 DEF Thread
<1>4. ASSUME NEW r \in Requests, Receive(t, r) PROVE PoolMove(t)
  <2>1. pool' = [pool EXCEPT ![t] = pool'[t]] /\ pool'[t] = Handling(r)
    BY <1>3, <1>4, PoolTakes DEF Receive
  <2>2. pool'[t].pc = "handling"
    BY <2>1, PoolTakes
  <2> QED BY <1>4, <2>1, <2>2, PoolStill DEF Receive
<1>5. CASE Handle(t)
  <2> DEFINE r == pool[t].r
  <2>1. /\ pool[t].pc = "handling" /\ r \in Requests /\ r \in RequestType
        /\ UNCHANGED <<at, mainVars, signalVars, closed>>
        /\ pool[t] \notin {NoThread, Done, Idle}
    BY <1>2, <1>5, HandleCases
  <2>2. CASE Waits(t)
    <3>1. pool' = [pool EXCEPT ![t] = pool'[t]] /\ pool'[t] = InDecrement(r)
      BY <1>3, <2>1, <2>2, PoolTakes DEF Waits
    <3>2. pool'[t].pc = "waiting" /\ pool'[t].r = r
      BY <2>1, <3>1, PoolTakes
    <3>3. isServer /\ sem = "live" /\ r.method = "Locks.DecrementSemaphore" /\ r.uuid = "known"
      BY <1>1, <2>1, <2>2, ServedWaits DEF Waits
    <3> QED BY <2>1, <2>2, <3>1, <3>2, <3>3, PoolStill DEF Waits
  <2>3. CASE Replies(t)
    <3>1. pool' = [pool EXCEPT ![t] = pool'[t]] /\ pool'[t] = Answering
      BY <1>3, <2>3, PoolStill DEF Replies
    <3>2. /\ sem = "deleted" => sem' = "deleted"
          /\ sem # "none" => sem' # "none"
      BY <2>3 DEF Replies, SemAfter
    <3> QED BY <2>1, <3>1, <3>2, PoolStill
  <2>4. CASE Aborts(t)
    BY <1>1, <2>1, <2>4 DEF Aborts
  <2>5. CASE Strays(t)
    <3>1. pool' = [pool EXCEPT ![t] = pool'[t]] /\ pool'[t] = Answering
      BY <1>3, <2>5, PoolStill DEF Strays
    <3> QED BY <2>1, <2>5, <3>1, PoolStill DEF Strays
  <2> QED BY <1>5, <2>2, <2>3, <2>4, <2>5, HandleCases
<1>6. CASE Granted(t)
  <2>1. CASE Ends_("aborted")
    BY <1>1, <2>1 DEF Ends_, poolVars
  <2>2. CASE /\ Thread(t, Answering)
             /\ UNCHANGED <<at, mainVars, signalVars, closed, sem, ended>>
    <3>1. pool' = [pool EXCEPT ![t] = pool'[t]] /\ pool'[t] = Answering
      BY <1>3, <2>2, PoolStill
    <3> QED BY <1>2, <1>6, <2>2, <3>1, PoolStill DEF Granted
  <2> QED BY <1>6, <2>1, <2>2 DEF Granted
<1>7. CASE Answer(t)
  <2>1. pool' = [pool EXCEPT ![t] = pool'[t]] /\ pool'[t] = IF closed THEN Done ELSE Idle
    BY <1>3, <1>7, PoolStill DEF Answer
  <2> QED BY <1>2, <1>7, <2>1, PoolStill DEF Answer
<1> QED BY <1>4, <1>5, <1>6, <1>7 DEF ThreadStep

LEMMA ControlPool == ProcessInv /\ PoolStep => ControlInv' /\ WaitInv'
<1> SUFFICES ASSUME ProcessInv, NEW t \in Threads, ThreadStep(t)
             PROVE  ControlInv' /\ WaitInv'
  BY DEF PoolStep, ThreadStep
<1>1. PoolMove(t)
  BY ThreadMoves DEF ProcessInv
<1>2. pool \in [Threads -> PoolStates]
  BY DEF ProcessInv, TypeOK
<1>3. \A u \in Threads \ {t} : pool'[u] = pool[u]
  BY <1>1, <1>2 DEF PoolMove
<1> USE <1>1, <1>3 DEF ProcessInv, ControlInv, PoolMove, mainVars, signalVars
<1>4. StopInv' /\ HandlerInv' /\ LateInv'
  BY DEF StopInv, HandlerInv, LateInv, NoSignal, Lone
<1>5. PlaceInv'
  BY DEF PlaceInv, NoSignal
<1>6. DrainInv'
  BY DEF DrainInv
<1>7. WaitInv'
  BY DEF WaitInv
<1> QED BY <1>4, <1>5, <1>6, <1>7

LEMMA ProcessStep == ProcessInv /\ [Next]_vars => ProcessInv'
<1>1. ProcessInv /\ UNCHANGED vars => ControlInv' /\ WaitInv'
  BY ControlStill DEF vars
<1> QED
  BY <1>1, TypeStep, ControlMain, ControlPool, ControlSignal DEF Next, Over, ProcessInv

THEOREM ProcessSafe == Spec => []ProcessInv
<1>1. Init => ProcessInv
  BY TypeInit, ControlInit DEF ProcessInv
<1> QED BY <1>1, ProcessStep, PTL DEF Spec

-----------------------------------------------------------------------------
(* The properties. *)

\* main returns 0 at no command line and after no sequence of signals: on the way
\* to its return a handler has left a thread in quittingthread.
THEOREM NoCleanEnd == Spec => []NeverStatusZero
<1>1. Init => NeverStatusZero
  BY DEF Init, NeverStatusZero
<1>2. ProcessInv /\ NeverStatusZero /\ [Next]_vars => NeverStatusZero'
  <2> SUFFICES ASSUME ProcessInv, NeverStatusZero, [Next]_vars PROVE NeverStatusZero'
    OBVIOUS
  <2> USE DEF NeverStatusZero
  <2>1. CASE MainStep
    <3>1. at = "return" => joinable
      BY DEF ProcessInv, ControlInv, StopInv, Leaving
    <3>2. ended' \in {ended, "aborted", "status 1"}
      BY <2>1, <3>1
         DEF MainStep, Start, StartPool, Publish, Loop, ScanEnds, ReadLine, CallEnds,
             SafeExitThrows, SafeExitEnds, RaiseEnds, Test, Close, Join, DeleteService,
             Return, Exit, Ends_
    <3> QED BY <3>2
  <2>2. CASE PoolStep
    BY <2>2 DEF PoolStep, Receive, Handle, Granted, Answer, Ends_
  <2>3. CASE SignalStep
    BY <2>3 DEF SignalStep, Signal, HandlerStep, HandlerCheck, HandlerAssign, HandlerStop,
                HandlerStopConsole, Watchdog, Exit, Ends_
  <2>4. CASE UNCHANGED vars
    BY <2>4 DEF vars
  <2> QED BY <2>1, <2>2, <2>3, <2>4 DEF Next, Over
<1> QED BY <1>1, <1>2, ProcessSafe, PTL DEF Spec

\* A client whose stop() has returned takes at most one more line, for every
\* interleaving of main, quit and any number of handlers.
THEOREM StopIsHeeded == Spec => []StopHeeded
<1>1. ProcessInv => StopHeeded
  BY DEF ProcessInv, ControlInv, LateInv, StopHeeded
<1> QED BY <1>1, ProcessSafe, PTL

\* The service is deleted when no thread of the pool and no lone handler is in it.
THEOREM DeletedWhenUnused == Spec => []DeletedUnused
<1>1. ProcessInv => DeletedUnused
  <2> SUFFICES ASSUME ProcessInv, service = "deleted" PROVE DeletedUnused
    BY DEF DeletedUnused
  <2>1. at = "return" /\ stopped /\ (isServer \/ consoleStopped)
    BY DEF ProcessInv, ControlInv, PlaceInv, StopInv, HandlerInv, Leaving
  <2>2. Busy = {}
    BY <2>1, PoolStill DEF ProcessInv, ControlInv, DrainInv, Busy
  <2>3. ASSUME Cardinality({i \in Handlers : handler[i] # "none"}) = 1, NEW i \in Handlers
        PROVE  handler[i] \in {"none", "done"}
    <3>1. PICK k : {j \in Handlers : handler[j] # "none"} = {k}
      <4> DEFINE Begun == {j \in Handlers : handler[j] # "none"}
      <4>1. IsFiniteSet(Handlers)
        <5>1. IsFiniteSet(1..MaxSignals)
          BY ProcessAssumption, FS_Interval
        <5>2. IsFiniteSet({Raised})
          BY FS_Singleton
        <5> QED BY <5>1, <5>2, FS_Union DEF Handlers
      <4>2. IsFiniteSet(Begun)
        BY <4>1, FS_Subset
      <4>3. \E k : Begun = {k}
        BY <2>3, <4>2, FS_Singleton
      <4> QED BY <4>3
    <3>2. k \in Handlers /\ Lone(k)
      BY <3>1 DEF Lone
    <3>3. handler[k] \in {"stop console", "done"}
      BY <2>1, <3>2 DEF ProcessInv, ControlInv, HandlerInv
    <3>4. handler[k] = "done"
      <4>1. CASE k = Raised
        BY <2>1, <3>3, <4>1 DEF ProcessInv, ControlInv, HandlerInv
      <4>2. CASE k # Raised
        BY <2>1, <3>2, <3>3, <4>2 DEF ProcessInv, ControlInv, HandlerInv
      <4> QED BY <4>1, <4>2
    <3> QED BY <3>1, <3>4
  <2> QED BY <2>2, <2>3 DEF DeletedUnused
<1> QED BY <1>1, ProcessSafe, PTL

\* A request ends the process in the four ways named only, whatever is in it.
THEOREM RequestsAreHarmless == Spec => RequestsHarmless
<1> DEFINE Harm ==
      \E t \in Threads :
         \/ /\ pool[t].pc = "handling"
            /\ pool[t].r.body = "too deep" /\ ~TurnedAway(pool[t].r)
         \/ /\ isServer /\ pool[t].pc = "handling" /\ pool[t].r.method = "Locks.Probe"
            /\ ~(pool[t].r.uuid = "known" /\ sem = "live")
         \/ /\ ~isServer /\ pool[t].pc = "handling" /\ pool[t].r.method = "Client.Probe"
            /\ pool[t].r.initiator \in {"no colon", Missing}
         \/ isServer /\ pool[t].pc = "waiting" /\ sem = "deleted"
<1>1. ProcessInv => (PoolStep /\ ended' # ended => Harm)
  <2> SUFFICES ASSUME ProcessInv, ended' # ended, NEW t \in Threads, ThreadStep(t)
               PROVE  Harm
    BY DEF PoolStep, ThreadStep
  <2>1. CASE Handle(t)
    <3>1. Aborts(t)
      BY <2>1, HandleCases DEF ProcessInv, Waits, Replies, Strays
    <3>2. pool[t].pc = "handling" /\ pool[t].r \in RequestType /\ isServer \in BOOLEAN
      BY <2>1, HandleCases DEF ProcessInv
    <3>3. Served(pool[t].r, isServer, sem = "live") \in {"throws", "undefined"}
      BY <3>1 DEF Aborts
    <3> QED BY <3>2, <3>3, ServedCatches, ServedUndefined
  <2>2. CASE Granted(t)
    <3>1. pool[t].pc = "waiting" /\ sem = "deleted"
      BY <2>2 DEF Granted
    <3> QED BY <3>1 DEF ProcessInv, WaitInv
  <2> QED BY <2>1, <2>2 DEF ThreadStep, Receive, Answer
<1>2. ProcessInv /\ [Next]_vars => [PoolStep /\ ended' # ended => Harm]_vars
  BY <1>1
<1> QED BY <1>2, ProcessSafe, PTL DEF Spec, RequestsHarmless

\* The semaphore comes with a Create in order and goes with a Delete of it, never
\* with any other request.
THEOREM SoundRequestsCount == Spec => OnlySoundRequestsCount
<1> DEFINE Sound ==
      \E t \in Threads :
         /\ pool[t].pc = "handling" /\ pool'[t] # pool[t]
         /\ isServer /\ ~TurnedAway(pool[t].r)
         /\ LET r == pool[t].r
            IN IF sem' = "live"
               THEN r.min <= r.max /\ r.cur # r.min /\ {r.cur, r.min, r.max} \subseteq Nat
               ELSE r.method = "Locks.DeleteSemaphore" /\ r.uuid = "known"
<1>1. ProcessInv /\ [Next]_vars => (sem' # sem => Sound)
  <2> SUFFICES ASSUME ProcessInv, [Next]_vars, sem' # sem PROVE Sound
    OBVIOUS
  <2>1. PICK t \in Threads : Handle(t)
    BY DEF Next, Over, vars, poolVars, MainStep, Start, StartPool, Publish, Loop, ScanEnds,
           ReadLine, CallEnds, SafeExitThrows, SafeExitEnds, RaiseEnds, Test, Close, Join,
           DeleteService, Return, Exit, Ends_, Go, SignalStep, Signal, HandlerStep,
           HandlerCheck, HandlerAssign, HandlerStop, HandlerStopConsole, Watchdog,
           PoolStep, Receive, Granted, Answer
  <2> DEFINE r == pool[t].r
             outcome == Served(r, isServer, sem = "live")
  <2>2. /\ pool[t].pc = "handling" /\ r \in Requests /\ r \in RequestType
        /\ isServer \in BOOLEAN /\ Replies(t)
    BY <2>1, HandleCases DEF ProcessInv, Waits, Aborts, Strays
  <2>3. isServer /\ outcome = "ok" /\ sem' = SemAfter(r)
    BY <2>2 DEF Replies
  <2>4. pool'[t] # pool[t]
    <3>1. pool'[t] = Answering
      BY <2>2 DEF Replies, Thread, ProcessInv, TypeOK
    <3> QED BY <2>2, <3>1, PoolStill
  <2>5. (sem = "live") \in BOOLEAN /\ Served(r, TRUE, sem = "live") = "ok"
    BY <2>3
  <2>6. /\ ~TurnedAway(r)
        /\ r.method = "Locks.CreateSemaphore" =>
             r.min <= r.max /\ r.cur # r.min /\ {r.cur, r.min, r.max} \subseteq Nat
        /\ r.method = "Locks.DeleteSemaphore" => r.uuid = "known"
    BY <2>2, <2>5, ServedSound
  <2>7. \/ r.method = "Locks.CreateSemaphore" /\ sem' = "live"
        \/ r.method = "Locks.DeleteSemaphore" /\ sem' = "deleted"
    BY <2>3 DEF SemAfter
  <2> QED BY <2>2, <2>3, <2>4, <2>6, <2>7
<1>2. ProcessInv /\ [Next]_vars => [sem' # sem => Sound]_vars
  BY <1>1
<1> QED BY <1>2, ProcessSafe, PTL DEF Spec, OnlySoundRequestsCount
=============================================================================
