----------------------------- MODULE Semaphore -----------------------------
(***************************************************************************)
(* One object of class Semaphore (semaphore.cpp, semaphore.hpp) and the    *)
(* threads that call it.  A step is one critical section of varsmutex_, so *)
(* decrement() is four steps during which the thread keeps mutex_, and     *)
(* increment() and try_decrement() are one.                                *)
(*                                                                         *)
(* A session is one call of decrement() together with the unit that call   *)
(* obtained: pc follows the thread inside the call, is "holding" once the  *)
(* call has returned, and is "idle" again when the unit is given back by   *)
(* an increment() in the name of the same owner.  `owners' is a            *)
(* std::vector in the code; its users look for an element, remove one or   *)
(* list the distinct ones, never at the order, so it is a count per owner. *)
(***************************************************************************)
EXTENDS Integers, FiniteSets

CONSTANTS Sessions,                    \* P calls that may be going on at once
          Owners,                      \* client addresses ip:port
          OwnerOf,                     \* the address a session's calls carry
          CurrentVal, MinVal, MaxVal,  \* as given to the constructor
          NoThread                     \* mutex_ is not locked

\* What Locks.CreateSemaphore lets through to the constructor.
ASSUME SemaphoreAssumption ==
  /\ IsFiniteSet(Sessions)
  /\ NoThread \notin Sessions
  /\ OwnerOf \in [Sessions -> Owners]
  /\ CurrentVal \in Int /\ MinVal \in Int /\ MaxVal \in Int
  /\ CurrentVal # MinVal
  /\ MinVal <= MaxVal

VARIABLES cur,      \* SemaphoreData::cur
          owners,   \* SemaphoreData::owners, how often each owner is in it
          mutex,    \* the thread that has mutex_, or NoThread
          pc        \* where each session is

vars == <<cur, owners, mutex, pc>>

PCs == {"idle",      \* outside
        "test",      \* has mutex_, about to evaluate cur <= min
        "block",     \* has mutex_, the condition was true: about to wait
        "take",      \* has mutex_, the condition was false: about to --cur
        "waiting",   \* inside condition_.wait, mutex_ released
        "notified",  \* woken, needs mutex_ to leave condition_.wait
        "holding"}   \* decrement() returned

InCall  == {s \in Sessions : pc[s] \notin {"idle", "holding"}}
Holding == {s \in Sessions : pc[s] = "holding"}
Waiting == {s \in Sessions : pc[s] = "waiting"}
Awake   == {s \in Sessions : pc[s] \in {"notified", "test", "take"}}
Busy(o) == {s \in Sessions : pc[s] # "idle" /\ OwnerOf[s] = o}

Init == /\ cur = CurrentVal
        /\ owners = [o \in Owners |-> 0]
        /\ mutex = NoThread
        /\ pc = [s \in Sessions |-> "idle"]

-----------------------------------------------------------------------------
(* decrement() *)

\* Mutant: the lock of mutex_ at the head of decrement() is left out.
EnterNoLock(s) ==
  /\ pc[s] = "idle"
  /\ owners' = [owners EXCEPT ![OwnerOf[s]] = @ + 1]
  /\ pc' = [pc EXCEPT ![s] = "test"]
  /\ UNCHANGED <<cur, mutex>>

\* Locks mutex_ and puts the caller among the owners, before it has a unit.
Enter(s) ==
  /\ pc[s] = "idle"
  /\ mutex = NoThread
  /\ mutex' = s
  /\ owners' = [owners EXCEPT ![OwnerOf[s]] = @ + 1]
  /\ pc' = [pc EXCEPT ![s] = "test"]
  /\ UNCHANGED cur

\* Mutant: cur < min for cur <= min.
TestOffByOne(s) ==
  /\ pc[s] = "test"
  /\ pc' = [pc EXCEPT ![s] = IF cur < MinVal THEN "block" ELSE "take"]
  /\ UNCHANGED <<cur, owners, mutex>>

\* The loop condition, evaluated under varsmutex_ and acted on after it.
Test(s) ==
  /\ pc[s] = "test"
  /\ pc' = [pc EXCEPT ![s] = IF cur <= MinVal THEN "block" ELSE "take"]
  /\ UNCHANGED <<cur, owners, mutex>>

\* condition_.wait: releases mutex_ and sleeps in one indivisible step.
Block(s) ==
  /\ pc[s] = "block"
  /\ mutex' = NoThread
  /\ pc' = [pc EXCEPT ![s] = "waiting"]
  /\ UNCHANGED <<cur, owners>>

\* A condition variable may wake a thread nobody notified.
SpuriousWakeup(s) ==
  /\ pc[s] = "waiting"
  /\ pc' = [pc EXCEPT ![s] = "notified"]
  /\ UNCHANGED <<cur, owners, mutex>>

\* Mutant: if for while, a woken thread does not look at cur again.
ReacquireNoLoop(s) ==
  /\ pc[s] = "notified"
  /\ mutex = NoThread
  /\ mutex' = s
  /\ pc' = [pc EXCEPT ![s] = "take"]
  /\ UNCHANGED <<cur, owners>>

\* condition_.wait returns with mutex_ locked, and the loop starts over.
Reacquire(s) ==
  /\ pc[s] = "notified"
  /\ mutex = NoThread
  /\ mutex' = s
  /\ pc' = [pc EXCEPT ![s] = "test"]
  /\ UNCHANGED <<cur, owners>>

\* --cur, then the return unlocks mutex_.
Take(s) ==
  /\ pc[s] = "take"
  /\ cur' = cur - 1
  /\ mutex' = NoThread
  /\ pc' = [pc EXCEPT ![s] = "holding"]
  /\ UNCHANGED owners

\* try_decrement(): one critical section; a refusal changes nothing.
TryDecrement(s) ==
  /\ pc[s] = "idle"
  /\ mutex = NoThread
  /\ cur > MinVal
  /\ owners' = [owners EXCEPT ![OwnerOf[s]] = @ + 1]
  /\ cur' = cur - 1
  /\ pc' = [pc EXCEPT ![s] = "holding"]
  /\ UNCHANGED mutex

-----------------------------------------------------------------------------
(* increment() *)

\* Mutant: the unit is not put back.
RaisedNot(c) == c

\* Mutant: neither bound check against max.
RaisedUnchecked(c) == c + 1

\* Both ifs on cur and max: up by one, and never left above max.
Raised(c) == IF c < MaxVal THEN c + 1 ELSE MaxVal

\* Mutant: increment() forgets to notify.
NotifyNobody(pcs) == pc' = pcs

\* condition_.notify_one: any one of the threads in the wait, if there is one.
NotifyOne(pcs) ==
  IF Waiting = {} THEN pc' = pcs
  ELSE \E w \in Waiting : pc' = [pcs EXCEPT ![w] = "notified"]

\* Mutant: the entry of the owner is found but not erased.
IncrementNoErase(o, pcs) ==
  /\ mutex = NoThread
  /\ IF owners[o] = 0
     THEN pc' = pcs /\ UNCHANGED <<cur, owners>>
     ELSE /\ cur' = Raised(cur)
          /\ NotifyOne(pcs)
          /\ UNCHANGED owners
  /\ UNCHANGED mutex

\* Mutant: the early return for an owner that is not listed is left out.
IncrementUnlisted(o, pcs) ==
  /\ mutex = NoThread
  /\ owners' = [owners EXCEPT ![o] = @ - 1]
  /\ cur' = Raised(cur)
  /\ NotifyOne(pcs)
  /\ UNCHANGED mutex

\* increment(o), all of it under both mutexes; pcs is pc as the caller leaves it.
Increment(o, pcs) ==
  /\ mutex = NoThread
  /\ IF owners[o] = 0
     THEN pc' = pcs /\ UNCHANGED <<cur, owners>>
     ELSE /\ owners' = [owners EXCEPT ![o] = @ - 1]
          /\ cur' = Raised(cur)
          /\ NotifyOne(pcs)
  /\ UNCHANGED mutex

\* The unit of a session is given back, by its client or by DisconnectClient.
Release(s) ==
  /\ pc[s] = "holding"
  /\ Increment(OwnerOf[s], [pc EXCEPT ![s] = "idle"])

\* increment(o) while o holds no unit: a client's extra V, or DisconnectClient
\* of an owner that is listed because it is still waiting in decrement().
StrayIncrement(o) ==
  /\ \A s \in Holding : OwnerOf[s] # o
  /\ Increment(o, pc)

-----------------------------------------------------------------------------
SessionStep(s) ==
  \/ Enter(s) \/ Test(s) \/ Block(s) \/ SpuriousWakeup(s) \/ Reacquire(s)
  \/ Take(s) \/ TryDecrement(s) \/ Release(s)

\* Callers that give back a unit only after they obtained it ...
Next == \E s \in Sessions : SessionStep(s)

\* ... and callers of any kind, which is what the class itself admits.
AnyNext == Next \/ \E o \in Owners : StrayIncrement(o)

\* A thread inside a call is scheduled, and gets a mutex_ that stays free.
Fairness == \A s \in Sessions :
              WF_vars(Test(s) \/ Block(s) \/ Take(s) \/ Reacquire(s))

Spec     == Init /\ [][Next]_vars
AnySpec  == Init /\ [][AnyNext]_vars
FairSpec == AnySpec /\ Fairness

-----------------------------------------------------------------------------
(* Properties of AnySpec, whatever the callers do. *)

\* Every variable stays in its range; in particular no count of owner entries
\* goes below zero, so increment() never erases past the end of the vector.
TypeOK == /\ cur \in Int
          /\ owners \in [Owners -> Nat]
          /\ mutex \in Sessions \cup {NoThread}
          /\ pc \in [Sessions -> PCs]

\* A decision taken on cur inside one varsmutex_ section of decrement() is
\* still right when it is acted on after varsmutex_ was released.
DecisionStillHolds ==
  \A s \in Sessions : /\ pc[s] = "take"  => cur > MinVal
                      /\ pc[s] = "block" => cur <= MinVal

\* No sequence of calls moves cur out of the interval its creation fixed:
\* not below MinVal (or CurrentVal, when created lower), not above MaxVal
\* (or CurrentVal, when created higher: clamping only lowers it).
CurInRange ==
  /\ cur >= MinVal \/ cur >= CurrentVal
  /\ cur <= MaxVal \/ cur <= CurrentVal

\* An owner is never listed more often than it has calls going on or units:
\* what the heartbeat finds in owners belongs to somebody.
EntriesJustified == \A o \in Owners : owners[o] <= Cardinality(Busy(o))

\* While units are free and a thread sleeps, at least as many threads are on
\* their way to look at cur as there are free units: one notify per increment
\* is enough, with threads barging in and with spurious wakeups.
NoLostWakeup == Waiting = {} \/ cur - MinVal <= Cardinality(Awake)

\* The same as progress: if from some time on a unit is free and a call is
\* waiting for one, units go on being granted.
GrantDue == cur > MinVal /\ InCall # {}
Granted  == \E s \in Sessions : Take(s) \/ TryDecrement(s)
Progress == []<>(~GrantDue) \/ []<><<Granted>>_vars

OS == INSTANCE OwnedSemaphore
        WITH Callers <- Sessions, min <- MinVal, max <- MaxVal, waiting <- InCall

\* Whatever the callers do, the monitor implements the abstract semaphore with
\* an owner list: a unit is granted only while one is on offer, and exactly an
\* increment() that takes an entry away puts one on offer.
ImplementsOwned == OS!OSSpec

-----------------------------------------------------------------------------
(* Properties of Spec, for callers that give back only what they hold. *)

Capacity == IF CurrentVal > MinVal THEN CurrentVal - MinVal ELSE 0

\* At most CurrentVal - MinVal sessions hold a unit at once.
Exclusion == Cardinality(Holding) <= Capacity

\* Created within its bounds, a semaphore loses no unit: those on offer and
\* those held always add up to CurrentVal, so the check against MaxVal in
\* increment() never drops one.
NoUnitLost == CurrentVal <= MaxVal => cur + Cardinality(Holding) = CurrentVal

\* The owner list is exact: an owner is in it once per call or unit of its own.
EntriesExact == \A o \in Owners : owners[o] = Cardinality(Busy(o))

CS == INSTANCE CountingSemaphore WITH holders <- Holding, waiters <- InCall

\* The monitor implements the abstract counting semaphore.
Implements == CS!CSSpec
=============================================================================
