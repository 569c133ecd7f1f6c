------------------------------ MODULE Process ------------------------------
(***************************************************************************)
(* One process of the program, server or client, from its command line to  *)
(* its end (main.cpp): the main thread with its loop, the pool of threads  *)
(* that serve requests (module Request), SIGINT with its handler, and the  *)
(* watchdog the handler starts.                                            *)
(*                                                                         *)
(* A handler of SIGINT is a thread of control of its own here: it runs on  *)
(* whichever thread the system chose, and a second SIGINT on another.      *)
(***************************************************************************)
EXTENDS Request, FiniteSets

CONSTANTS CommandLines,  \* bound: the ways the program is started
          Requests,      \* bound: what the pool is asked
          MaxThreads,    \* bound: threads an instance can have
          MaxSignals,    \* bound: SIGINTs from outside
          MaxLate        \* bound: lines counted after a stop

Unset == -1000           \* an option that is not given

\* The options of process_command_line that decide anything; unclear is a
\* command line program_options refuses, such as -t, which is short for two
\* options.
CommandLineType == [unclear : BOOLEAN, help : BOOLEAN,
                    type : {"client", "server", "other", Missing},
                    serverurl : BOOLEAN, threads : Int]

ASSUME ProcessAssumption ==
  /\ CommandLines \subseteq CommandLineType
  /\ Requests \subseteq RequestType
  /\ MaxThreads \in Nat /\ MaxSignals \in Nat /\ MaxLate \in Nat

Threads  == 1..MaxThreads
Raised   == 0                    \* the SIGINT a client's quit raises
Handlers == {Raised} \cup 1..MaxSignals

VARIABLES at,        \* where the main thread is
          isServer,  \* config.is_server
          threads,   \* config.threadsnum
          service,   \* the object behind the pointer `service'
          stopped,   \* its _stop
          consoleStopped,  \* _stop of a client's console
          late,      \* lines a client's console took after the stop
          pool,      \* what each thread of the pool does
          closed,    \* the HTTP server is stopped
          sem,       \* the semaphore the requests know
          handler,   \* how far each handler of SIGINT is
          joinable,  \* quittingthread is a thread that nobody joined
          watchdogs, \* threads in waitSecThenExit
          ended      \* how the process ended

mainVars   == <<isServer, threads, service, late>>
signalVars == <<stopped, consoleStopped, handler, joinable, watchdogs>>
poolVars   == <<pool, closed, sem>>
vars == <<at, mainVars, signalVars, poolVars, ended>>

Places == {"start", "construct", "publish",            \* main
           "loop", "scan",                             \* Server::run
           "prompt", "call", "SafeExit", "raise", "test",  \* Client::run
           "close", "join", "delete", "return"}        \* both

NoThread == [pc |-> "none"]
Idle     == [pc |-> "idle"]
Done     == [pc |-> "done"]
Handling(r) == [pc |-> "handling", r |-> r]
InDecrement(r) == [pc |-> "waiting", r |-> r]
Answering == [pc |-> "answering"]

PoolStates == {NoThread, Idle, Done, Answering}
                \cup {Handling(r) : r \in Requests} \cup {InDecrement(r) : r \in Requests}

Ends == {"no", "killed", "status 0", "status 1", "aborted"}

TypeOK == /\ at \in Places
          /\ isServer \in BOOLEAN /\ threads \in Int \ {Unset}
          /\ service \in {"null", "exists", "deleted"}
          /\ stopped \in BOOLEAN /\ consoleStopped \in BOOLEAN
          /\ late \in 0..MaxLate
          /\ pool \in [Threads -> PoolStates]
          /\ closed \in BOOLEAN /\ sem \in {"none", "live", "deleted"}
          /\ handler \in [Handlers -> {"none", "check", "assign", "stop",
                                       "stop console", "done"}]
          /\ joinable \in BOOLEAN /\ watchdogs \in Nat
          /\ ended \in Ends

Init == /\ at = "start"
        /\ isServer = FALSE /\ threads = 4
        /\ service = "null"
        /\ stopped = FALSE /\ consoleStopped = FALSE
        /\ late = 0
        /\ pool = [t \in Threads |-> NoThread]
        /\ closed = FALSE /\ sem = "none"
        /\ handler = [i \in Handlers |-> "none"]
        /\ joinable = FALSE /\ watchdogs = 0
        /\ ended = "no"

Running == ended = "no"
Busy    == {t \in Threads : pool[t].pc \in {"handling", "waiting", "answering"}}

Go(from, to) == at = from /\ at' = to
Ends_(how)   == ended' = how /\ UNCHANGED <<at, mainVars, signalVars, poolVars>>

\* The destructor of the static quittingthread, at the end of every process that
\* gets as far as its destructors, does not forgive a thread nobody joined.
Exit(status) == Ends_(IF joinable THEN "aborted" ELSE status)

-----------------------------------------------------------------------------
(* main, up to run() *)

Refused(c) == \/ c.unclear \/ c.help
              \/ c.type \notin {"client", "server"}
              \/ c.type = "client" /\ ~c.serverurl

\* Mutant: the default of an option that is not given is lost.
StartUnset(c) ==
  /\ at = "start"
  /\ IF Refused(c) THEN Exit("status 1")
     ELSE /\ at' = "construct"
          /\ isServer' = (c.type = "server")
          /\ threads' = c.threads
          /\ UNCHANGED <<service, late, signalVars, poolVars, ended>>

\* process_command_line, and the handler of SIGINT installed.
Start(c) ==
  /\ at = "start"
  /\ IF Refused(c) THEN Exit("status 1")
     ELSE /\ at' = "construct"
          /\ isServer' = (c.type = "server")
          /\ threads' = IF c.threads = Unset THEN threads ELSE c.threads
          /\ UNCHANGED <<service, late, signalVars, poolVars, ended>>

\* The constructors start the pool.  A negative number of threads is none to a
\* Server, and more than the system has to a Client, which takes it unsigned: its
\* constructor throws, and leaves the threads started so far in a server that is
\* gone.
StartPool ==
  /\ at = "construct"
  /\ IF threads < 0 /\ ~isServer THEN Exit("status 1") \/ Ends_("aborted")
     ELSE /\ at' = "publish"
          /\ pool' = [t \in Threads |-> IF t <= threads THEN Idle ELSE NoThread]
          /\ UNCHANGED <<mainVars, signalVars, closed, sem, ended>>

\* Only now does a handler of SIGINT find the service.
Publish ==
  /\ at = "publish"
  /\ service' = "exists"
  /\ at' = IF isServer THEN "loop" ELSE "prompt"
  /\ UNCHANGED <<isServer, threads, late, signalVars, poolVars, ended>>

-----------------------------------------------------------------------------
(* Server::run *)

Loop == /\ Go("loop", IF stopped THEN "close" ELSE "scan")
        /\ UNCHANGED <<mainVars, signalVars, poolVars, ended>>

ScanEnds == /\ Go("scan", "loop")
            /\ UNCHANGED <<mainVars, signalVars, poolVars, ended>>

-----------------------------------------------------------------------------
(* Client::run and the console *)

\* A stop() has begun, and none is half done.
StopReturned == stopped /\ \A i \in Handlers : handler[i] \notin {"stop", "stop console"}

\* A line is read, also after a SIGINT: the read goes on where it was.
ReadLine ==
  /\ at = "prompt"
  /\ at' \in {"call", "SafeExit", "test"}
  /\ late' = IF StopReturned /\ late < MaxLate THEN late + 1 ELSE late
  /\ UNCHANGED <<isServer, threads, service, signalVars, poolVars, ended>>

\* A call is answered or throws, and one_run is over.
CallEnds == /\ Go("call", "test")
            /\ UNCHANGED <<mainVars, signalVars, poolVars, ended>>

\* An exception leaves SafeExit and one_run, and the quit is forgotten.
SafeExitThrows == /\ Go("SafeExit", "test")
                  /\ UNCHANGED <<mainVars, signalVars, poolVars, ended>>

SafeExitEnds ==
  /\ Go("SafeExit", "raise")
  /\ consoleStopped' = TRUE
  /\ handler' = [handler EXCEPT ![Raised] = "check"]
  /\ UNCHANGED <<mainVars, stopped, joinable, watchdogs, poolVars, ended>>

\* raise() returns when its handler does.
RaiseEnds == /\ Go("raise", "test")
             /\ handler[Raised] = "done"
             /\ UNCHANGED <<mainVars, signalVars, poolVars, ended>>

\* The loops of ClientConsole::run and, around it, Client::run.
Test == /\ at = "test"
        /\ ~consoleStopped \/ stopped
        /\ at' = IF consoleStopped THEN "close" ELSE "prompt"
        /\ UNCHANGED <<mainVars, signalVars, poolVars, ended>>

-----------------------------------------------------------------------------
(* After the loop *)

\* stop() of the HTTP server: idle threads return, busy ones finish their request.
Close ==
  /\ Go("close", "join")
  /\ closed' = TRUE
  /\ pool' = [t \in Threads |-> IF pool[t] = Idle THEN Done ELSE pool[t]]
  /\ UNCHANGED <<mainVars, signalVars, sem, ended>>

\* Mutant: the threads are not joined.
JoinNobody == Go("join", "delete") /\ UNCHANGED <<mainVars, signalVars, poolVars, ended>>

Join == /\ Go("join", "delete")
        /\ \A t \in Threads : pool[t] \in {NoThread, Done}
        /\ UNCHANGED <<mainVars, signalVars, poolVars, ended>>

DeleteService == /\ Go("delete", "return")
                 /\ service' = "deleted"
                 /\ UNCHANGED <<isServer, threads, late, signalVars, poolVars, ended>>

Return == at = "return" /\ Exit("status 0")

MainStep ==
  \/ \E c \in CommandLines : Start(c)
  \/ StartPool \/ Publish \/ Loop \/ ScanEnds
  \/ ReadLine \/ CallEnds \/ SafeExitThrows \/ SafeExitEnds \/ RaiseEnds \/ Test
  \/ Close \/ Join \/ DeleteService \/ Return

-----------------------------------------------------------------------------
(* The pool *)

Thread(t, s) == pool' = [pool EXCEPT ![t] = s]

Receive(t, r) ==
  /\ pool[t] = Idle /\ ~closed
  /\ Thread(t, Handling(r))
  /\ UNCHANGED <<at, mainVars, signalVars, closed, sem, ended>>

\* What a server's answer "ok" did to the semaphore the requests know; created
\* later, another one would have another UUID.
SemAfter(r) ==
  CASE r.method = "Locks.CreateSemaphore" /\ sem = "none" -> "live"
    [] r.method = "Locks.DeleteSemaphore"                  -> "deleted"
    [] OTHER                                               -> sem

\* The handler, up to decrement() or its answer.
Handle(t) ==
  /\ pool[t].pc = "handling"
  /\ LET r == pool[t].r
         outcome == Served(r, isServer, sem = "live")
     IN \/ /\ outcome = "waits"
           /\ Thread(t, InDecrement(r)) /\ UNCHANGED <<sem, ended>>
        \/ /\ outcome \in {"text", "error", "ok"}
           /\ Thread(t, Answering)
           /\ sem' = IF isServer /\ outcome = "ok" THEN SemAfter(r) ELSE sem
           /\ UNCHANGED ended
        \/ /\ outcome \in {"throws", "undefined"}     \* out of the thread's function
           /\ ended' = "aborted" /\ UNCHANGED <<pool, sem>>
        \/ /\ outcome = "undefined"
           /\ Thread(t, Answering) /\ UNCHANGED <<sem, ended>>
  /\ UNCHANGED <<at, mainVars, signalVars, closed>>

\* decrement() returns, once there is a unit (module Semaphore says when).  It may
\* also return, or fail, when its semaphore was deleted since.
Granted(t) ==
  /\ pool[t].pc = "waiting"
  /\ \/ /\ Thread(t, Answering)
        /\ UNCHANGED <<at, mainVars, signalVars, closed, sem, ended>>
     \/ sem = "deleted" /\ Ends_("aborted")

Answer(t) ==
  /\ pool[t].pc = "answering"
  /\ Thread(t, IF closed THEN Done ELSE Idle)
  /\ UNCHANGED <<at, mainVars, signalVars, closed, sem, ended>>

PoolStep == \E t \in Threads :
  (\E r \in Requests : Receive(t, r)) \/ Handle(t) \/ Granted(t) \/ Answer(t)

-----------------------------------------------------------------------------
(* SIGINT *)

\* From a user; before signal() was called it kills.
Signal(i) ==
  /\ handler[i] = "none" /\ i # Raised
  /\ IF at = "start" THEN Ends_("killed")
     ELSE /\ handler' = [handler EXCEPT ![i] = "check"]
          /\ UNCHANGED <<at, mainVars, stopped, consoleStopped, joinable, watchdogs,
                         poolVars, ended>>

\* Mutant: no watchdog is started.
HandlerNoWatchdog(i) ==
  /\ handler[i] = "check"
  /\ IF joinable THEN Ends_("aborted")
     ELSE /\ handler' = [handler EXCEPT ![i] = "assign"]
          /\ UNCHANGED <<at, mainVars, stopped, consoleStopped, joinable, watchdogs,
                         poolVars, ended>>

\* The watchdog is started, and the assignment to quittingthread terminates the
\* process if that is joinable already ...
HandlerCheck(i) ==
  /\ handler[i] = "check"
  /\ IF joinable THEN Ends_("aborted")
     ELSE /\ handler' = [handler EXCEPT ![i] = "assign"]
          /\ watchdogs' = watchdogs + 1
          /\ UNCHANGED <<at, mainVars, stopped, consoleStopped, joinable, poolVars, ended>>

\* Mutant: the thread is detached.
HandlerDetach(i) ==
  /\ handler[i] = "assign"
  /\ handler' = [handler EXCEPT ![i] = "stop"]
  /\ UNCHANGED <<at, mainVars, stopped, consoleStopped, joinable, watchdogs, poolVars, ended>>

\* ... or puts the thread there.  Two handlers may both have seen it free: a race.
HandlerAssign(i) ==
  /\ handler[i] = "assign"
  /\ \/ joinable /\ Ends_("aborted")
     \/ /\ joinable' = TRUE
        /\ handler' = [handler EXCEPT ![i] = "stop"]
        /\ UNCHANGED <<at, mainVars, stopped, consoleStopped, watchdogs, poolVars, ended>>

\* Mutant: a client's stop() forgets its console.
HandlerStopOuter(i) ==
  /\ handler[i] = "stop"
  /\ handler' = [handler EXCEPT ![i] = "done"]
  /\ stopped' = (stopped \/ service = "exists")
  /\ UNCHANGED <<at, mainVars, consoleStopped, joinable, watchdogs, poolVars, ended>>

\* service->stop(), if main has got that far.  After main has deleted the service
\* the pointer is not null either, and what happens is undefined.
HandlerStop(i) ==
  /\ handler[i] = "stop"
  /\ \/ /\ handler' = [handler EXCEPT ![i] = IF service = "null" \/ isServer
                                              THEN "done" ELSE "stop console"]
        /\ stopped' = (stopped \/ service = "exists")
        /\ UNCHANGED <<at, mainVars, consoleStopped, joinable, watchdogs, poolVars, ended>>
     \/ service = "deleted" /\ Ends_("aborted")

\* Client::stop goes on with its console.
HandlerStopConsole(i) ==
  /\ handler[i] = "stop console"
  /\ handler' = [handler EXCEPT ![i] = "done"]
  /\ consoleStopped' = TRUE
  /\ UNCHANGED <<at, mainVars, stopped, joinable, watchdogs, poolVars, ended>>

\* waitSecThenExit: five seconds, and exit(1).
Watchdog == watchdogs > 0 /\ Exit("status 1")

HandlerStep(i) == \/ HandlerCheck(i) \/ HandlerAssign(i)
                  \/ HandlerStop(i) \/ HandlerStopConsole(i)

SignalStep == \/ \E i \in Handlers : Signal(i) \/ HandlerStep(i)
              \/ Watchdog

-----------------------------------------------------------------------------
Over == ~Running /\ UNCHANGED vars

Next == \/ Running /\ (MainStep \/ PoolStep \/ SignalStep)
        \/ Over

\* Time passes, and a handler of SIGINT that has begun goes on.  (It allocates and
\* prints, which is not allowed in a handler: that it does not interrupt either of
\* the two is assumed.)
Fairness == /\ WF_vars(Running /\ Watchdog)
            /\ \A i \in Handlers : WF_vars(Running /\ HandlerStep(i))

Spec     == Init /\ [][Next]_vars
FairSpec == Spec /\ Fairness

-----------------------------------------------------------------------------
\* The service is deleted under nobody's feet: no thread of the pool is inside a
\* handler of it, and a lone SIGINT, from outside or from quit, is not in its
\* stop(), on whichever thread it came.
DeletedUnused ==
  service = "deleted" =>
    /\ Busy = {}
    /\ Cardinality({i \in Handlers : handler[i] # "none"}) = 1 =>
         \A i \in Handlers : handler[i] \in {"none", "done"}

\* A process that got a SIGINT is over some time later, whatever its threads wait
\* for, and whether or not it had a service to stop yet.
SignalEnds == (\E i \in Handlers : handler[i] # "none") ~> ~Running

\* There is no clean end: main only comes to its return by a SIGINT, which leaves
\* in quittingthread a thread that nobody joins.
NeverStatusZero == ended # "status 0"

\* A client whose stop() has returned takes at most one more line from its user.
StopHeeded == late <= 1

\* Requests end a process in four ways only: a body the parser throws at, a
\* Locks.Probe of a semaphore that does not exist, a Client.Probe of an address
\* without a port, and a Locks.DecrementSemaphore whose semaphore is deleted while
\* it waits.
RequestsHarmless ==
  [][PoolStep /\ ended' # ended =>
       \E t \in Threads :
         \/ /\ pool[t].pc = "handling"
            /\ pool[t].r.body = "too deep" /\ ~TurnedAway(pool[t].r)
         \/ /\ isServer /\ pool[t].pc = "handling" /\ pool[t].r.method = "Locks.Probe"
            /\ ~(pool[t].r.uuid = "known" /\ sem = "live")
         \/ /\ ~isServer /\ pool[t].pc = "handling" /\ pool[t].r.method = "Client.Probe"
            /\ pool[t].r.initiator \in {"no colon", Missing}
         \/ isServer /\ pool[t].pc = "waiting" /\ sem = "deleted"]_vars

\* The semaphore the requests know comes and goes only with a request that is in
\* order: never with one turned away, and not with bounds it could not have.
OnlySoundRequestsCount ==
  [][sem' # sem =>
       \E t \in Threads :
         /\ pool[t].pc = "handling" /\ pool'[t] # pool[t]
         /\ isServer /\ ~TurnedAway(pool[t].r)
         /\ LET r == pool[t].r
            IN IF sem' = "live"
               THEN r.min <= r.max /\ r.cur # r.min /\ {r.cur, r.min, r.max} \subseteq Nat
               ELSE r.method = "Locks.DeleteSemaphore" /\ r.uuid = "known"]_vars
=============================================================================
