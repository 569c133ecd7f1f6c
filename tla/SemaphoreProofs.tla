-------------------------- MODULE SemaphoreProofs --------------------------
(***************************************************************************)
(* What module Semaphore guarantees for every set of sessions and owners   *)
(* and every CurrentVal, MinVal and MaxVal that Locks.CreateSemaphore      *)
(* accepts.  First the monitor under callers of any kind (AnySpec), then   *)
(* under callers that give back only what they hold (Spec).                *)
(***************************************************************************)
EXTENDS Semaphore, FiniteSetTheorems, TLAPS

\* mutex_ belongs to exactly the session that is between locking it and
\* releasing it: the fact under which cur cannot change between two
\* varsmutex_ sections of one decrement().
MutexExact ==
  \A s \in Sessions : mutex = s <=> pc[s] \in {"test", "block", "take"}

\* The inductive invariant of one monitor: the loop's decision survives
\* because mutex_ is held, and cur stays in range because it does.
MonitorInv == TypeOK /\ MutexExact /\ DecisionStillHolds /\ CurInRange

-----------------------------------------------------------------------------
(* Sets of sessions, and the counts the properties are about. *)

LEMMA Counted ==
  ASSUME NEW S \in SUBSET Sessions
  PROVE  IsFiniteSet(S) /\ Cardinality(S) \in Nat
BY SemaphoreAssumption, FS_Subset, FS_CardinalityType

\* The cardinality of a set of sessions that one session joins or leaves.
LEMMA CountJoin ==
  ASSUME NEW S \in SUBSET Sessions, NEW s \in Sessions, s \notin S
  PROVE  Cardinality(S \cup {s}) = Cardinality(S) + 1
BY Counted, FS_AddElement

LEMMA CountLeave ==
  ASSUME NEW S \in SUBSET Sessions, NEW s \in S
  PROVE  Cardinality(S \ {s}) = Cardinality(S) - 1
BY Counted, FS_RemoveElement

LEMMA CountEmpty == Cardinality({}) = 0
BY FS_EmptySet

\* increment() leaves cur where it was, one higher, or lowered to max.
LEMMA RaisedBounds ==
  ASSUME NEW c \in Int
  PROVE  /\ Raised(c) \in Int
         /\ Raised(c) <= c + 1
         /\ Raised(c) <= MaxVal
         /\ c < MaxVal => Raised(c) = c + 1
         /\ Raised(c) >= c \/ Raised(c) = MaxVal
BY SemaphoreAssumption DEF Raised

\* What notify_one() may do to the sessions of pcs.
LEMMA NotifyCases ==
  ASSUME NEW pcs \in [Sessions -> PCs], NotifyOne(pcs)
  PROVE  \/ Waiting = {} /\ pc' = pcs
         \/ \E w \in Waiting : pc' = [pcs EXCEPT ![w] = "notified"]
BY Zenon DEF NotifyOne

-----------------------------------------------------------------------------
(* The monitor under callers of any kind. *)

LEMMA MonitorInit == Init => MonitorInv
BY SemaphoreAssumption
   DEF Init, MonitorInv, TypeOK, PCs, MutexExact, DecisionStillHolds, CurInRange

\* Any increment() made while mutex_ is free, whoever calls it, preserves the
\* monitor: no session is between its test and its --cur.
LEMMA IncrementMonitor ==
  ASSUME MonitorInv, NEW o \in Owners, NEW pcs \in [Sessions -> PCs],
         \A s \in Sessions : pcs[s] = pc[s] \/ (pc[s] = "holding" /\ pcs[s] = "idle"),
         Increment(o, pcs)
  PROVE  MonitorInv'
<1> USE SemaphoreAssumption DEF MonitorInv, PCs
<1>1. mutex = NoThread /\ mutex' = mutex
  BY DEF Increment
<1>2. pc' \in [Sessions -> PCs]
      /\ \A s \in Sessions : \/ pc'[s] = pc[s]
                             \/ pc[s] = "holding" /\ pc'[s] = "idle"
                             \/ pc[s] = "waiting" /\ pc'[s] = "notified"
  <2>1. CASE owners[o] = 0
    BY <2>1 DEF Increment
  <2>2. CASE owners[o] # 0
    <3>1. NotifyOne(pcs)
      BY <2>2 DEF Increment
    <3>2. CASE pc' = pcs
      BY <3>2
    <3>3. CASE \E w \in Waiting : pc' = [pcs EXCEPT ![w] = "notified"]
      BY <3>3 DEF Waiting
    <3> QED BY <3>1, <3>2, <3>3, NotifyCases
  <2> QED BY <2>1, <2>2
<1>3. /\ owners' \in [Owners -> Nat]
      /\ cur' = cur \/ cur' = Raised(cur)
  BY DEF Increment, TypeOK
<1>4. TypeOK'
  BY <1>1, <1>2, <1>3, RaisedBounds DEF TypeOK
<1>5. MutexExact' /\ DecisionStillHolds'
  BY <1>1, <1>2 DEF MutexExact, DecisionStillHolds
<1>6. CurInRange'
  BY <1>3, RaisedBounds DEF CurInRange, TypeOK
<1> QED BY <1>4, <1>5, <1>6

LEMMA MonitorStep == MonitorInv /\ [AnyNext]_vars => MonitorInv'
<1> SUFFICES ASSUME MonitorInv, [AnyNext]_vars PROVE MonitorInv'
  OBVIOUS
<1> USE SemaphoreAssumption DEF MonitorInv, PCs
<1>1. ASSUME NEW s \in Sessions, Enter(s) PROVE MonitorInv'
  BY <1>1 DEF Enter, TypeOK, MutexExact, DecisionStillHolds, CurInRange
<1>2. ASSUME NEW s \in Sessions, Test(s) PROVE MonitorInv'
  BY <1>2 DEF Test, TypeOK, MutexExact, DecisionStillHolds, CurInRange
<1>3. ASSUME NEW s \in Sessions, Block(s) PROVE MonitorInv'
  BY <1>3 DEF Block, TypeOK, MutexExact, DecisionStillHolds, CurInRange
<1>4. ASSUME NEW s \in Sessions, SpuriousWakeup(s) PROVE MonitorInv'
  BY <1>4 DEF SpuriousWakeup, TypeOK, MutexExact, DecisionStillHolds, CurInRange
<1>5. ASSUME NEW s \in Sessions, Reacquire(s) PROVE MonitorInv'
  BY <1>5 DEF Reacquire, TypeOK, MutexExact, DecisionStillHolds, CurInRange
<1>6. ASSUME NEW s \in Sessions, Take(s) PROVE MonitorInv'
  BY <1>6 DEF Take, TypeOK, MutexExact, DecisionStillHolds, CurInRange
<1>7. ASSUME NEW s \in Sessions, TryDecrement(s) PROVE MonitorInv'
  BY <1>7 DEF TryDecrement, TypeOK, MutexExact, DecisionStillHolds, CurInRange
<1>8. ASSUME NEW s \in Sessions, Release(s) PROVE MonitorInv'
  <2>1. [pc EXCEPT ![s] = "idle"] \in [Sessions -> PCs] /\ OwnerOf[s] \in Owners
    BY DEF TypeOK
  <2> QED BY <1>8, <2>1, IncrementMonitor DEF Release, TypeOK
<1>9. ASSUME NEW o \in Owners, StrayIncrement(o) PROVE MonitorInv'
  BY <1>9, IncrementMonitor DEF StrayIncrement, TypeOK
<1>10. CASE UNCHANGED vars
  BY <1>10 DEF vars, TypeOK, MutexExact, DecisionStillHolds, CurInRange
<1> QED
  BY <1>1, <1>2, <1>3, <1>4, <1>5, <1>6, <1>7, <1>8, <1>9, <1>10
     DEF AnyNext, Next, SessionStep

\* The four state facts of the monitor, for every caller: its variables keep
\* their types, and ...
THEOREM MonitorSafe == AnySpec => []MonitorInv
BY MonitorInit, MonitorStep, PTL DEF AnySpec

THEOREM TypeCorrect == AnySpec => []TypeOK
BY MonitorSafe, PTL DEF MonitorInv

\* ... what decrement() decides about cur still holds when it acts on it, and
THEOREM DecisionsHold == AnySpec => []DecisionStillHolds
BY MonitorSafe, PTL DEF MonitorInv

\* ... cur stays between the bounds its creation fixed.
THEOREM CurStaysInRange == AnySpec => []CurInRange
BY MonitorSafe, PTL DEF MonitorInv

-----------------------------------------------------------------------------
(* No wakeup is lost. *)

\* Counting an increment(): it wakes one sleeper, if there is one, and offers
\* at most one unit more.
LEMMA IncrementWakes ==
  ASSUME MonitorInv, NoLostWakeup, NEW o \in Owners,
         NEW pcs \in [Sessions -> PCs],
         \A s \in Sessions : pcs[s] = pc[s] \/ (pc[s] = "holding" /\ pcs[s] = "idle"),
         Increment(o, pcs)
  PROVE  NoLostWakeup'
<1> USE DEF PCs
<1>1. pc \in [Sessions -> PCs] /\ cur \in Int
  BY DEF MonitorInv, TypeOK
<1>2. CASE owners[o] = 0
  <2>1. Waiting' = Waiting /\ Awake' = Awake /\ cur' = cur
    BY <1>2 DEF Increment, Waiting, Awake
  <2> QED BY <2>1 DEF NoLostWakeup
<1>3. CASE owners[o] # 0 /\ Waiting = {}
  <2>1. pc' = pcs
    BY <1>3, Zenon DEF Increment, NotifyOne
  <2>2. Waiting' = {}
    BY <1>3, <2>1 DEF Waiting
  <2> QED BY <2>2 DEF NoLostWakeup
<1>4. CASE owners[o] # 0 /\ Waiting # {}
  <2>1. PICK w \in Waiting : pc' = [pcs EXCEPT ![w] = "notified"]
    BY <1>4, Zenon DEF Increment, NotifyOne
  <2>2. w \in Sessions /\ pc[w] = "waiting" /\ w \notin Awake
    BY DEF Waiting, Awake
  <2>3. Awake' = Awake \cup {w}
    BY <2>1, <2>2 DEF Awake
  <2>4. Cardinality(Awake') = Cardinality(Awake) + 1 /\ Cardinality(Awake) \in Nat
    BY <2>2, <2>3, CountJoin, Counted DEF Awake
  <2>5. cur \in Int /\ cur' = Raised(cur)
    BY <1>4 DEF Increment, MonitorInv, TypeOK
  <2>6. cur' <= cur + 1 /\ cur' \in Int
    BY <2>5, RaisedBounds
  <2>7. cur - MinVal <= Cardinality(Awake)
    BY <1>4 DEF NoLostWakeup
  <2> QED BY <2>4, <2>5, <2>6, <2>7, SemaphoreAssumption DEF NoLostWakeup
<1> QED BY <1>2, <1>3, <1>4

LEMMA WakeupStep ==
  MonitorInv /\ NoLostWakeup /\ [AnyNext]_vars => NoLostWakeup'
<1> SUFFICES ASSUME MonitorInv, NoLostWakeup, [AnyNext]_vars PROVE NoLostWakeup'
  OBVIOUS
<1> USE SemaphoreAssumption DEF PCs
<1>0. /\ pc \in [Sessions -> PCs] /\ cur \in Int
      /\ IsFiniteSet(Awake) /\ Cardinality(Awake) \in Nat
      /\ IsFiniteSet(Awake') /\ Cardinality(Awake') \in Nat
  BY Counted DEF MonitorInv, TypeOK, Awake
<1>1. ASSUME NEW s \in Sessions, Enter(s) PROVE NoLostWakeup'
  <2>1. s \notin Awake /\ Awake' = Awake \cup {s} /\ Waiting' = Waiting /\ cur' = cur
    BY <1>0, <1>1 DEF Enter, Awake, Waiting
  <2>2. Cardinality(Awake') = Cardinality(Awake) + 1
    BY <2>1, CountJoin DEF Awake
  <2> QED BY <1>0, <2>1, <2>2 DEF NoLostWakeup
<1>2. ASSUME NEW s \in Sessions, Test(s) PROVE NoLostWakeup'
  <2>1. Waiting' = Waiting /\ cur' = cur
    BY <1>0, <1>2 DEF Test, Waiting
  <2>2. CASE cur <= MinVal
    BY <1>0, <2>1, <2>2 DEF NoLostWakeup
  <2>3. CASE cur > MinVal
    <3>1. Awake' = Awake
      BY <1>0, <1>2, <2>3 DEF Test, Awake
    <3> QED BY <2>1, <3>1 DEF NoLostWakeup
  <2> QED BY <1>0, <2>2, <2>3
<1>3. ASSUME NEW s \in Sessions, Block(s) PROVE NoLostWakeup'
  <2>1. cur' = cur /\ cur <= MinVal
    BY <1>3 DEF Block, MonitorInv, DecisionStillHolds
  <2> QED BY <1>0, <2>1 DEF NoLostWakeup
<1>4. ASSUME NEW s \in Sessions, SpuriousWakeup(s) PROVE NoLostWakeup'
  <2>1. s \notin Awake /\ Awake' = Awake \cup {s} /\ cur' = cur /\ s \in Waiting
    BY <1>0, <1>4 DEF SpuriousWakeup, Awake, Waiting
  <2>2. Cardinality(Awake') = Cardinality(Awake) + 1
    BY <2>1, CountJoin DEF Awake
  <2> QED BY <1>0, <2>1, <2>2 DEF NoLostWakeup
<1>5. ASSUME NEW s \in Sessions, Reacquire(s) PROVE NoLostWakeup'
  <2>1. Awake' = Awake /\ Waiting' = Waiting /\ cur' = cur
    BY <1>0, <1>5 DEF Reacquire, Awake, Waiting
  <2> QED BY <2>1 DEF NoLostWakeup
<1>6. ASSUME NEW s \in Sessions, Take(s) PROVE NoLostWakeup'
  <2>1. s \in Awake /\ Awake' = Awake \ {s} /\ Waiting' = Waiting /\ cur' = cur - 1
    BY <1>0, <1>6 DEF Take, Awake, Waiting
  <2>2. Cardinality(Awake') = Cardinality(Awake) - 1
    BY <2>1, CountLeave DEF Awake
  <2> QED BY <1>0, <2>1, <2>2 DEF NoLostWakeup
<1>7. ASSUME NEW s \in Sessions, TryDecrement(s) PROVE NoLostWakeup'
  <2>1. Awake' = Awake /\ Waiting' = Waiting /\ cur' = cur - 1
    BY <1>0, <1>7 DEF TryDecrement, Awake, Waiting
  <2> QED BY <1>0, <2>1 DEF NoLostWakeup
<1>8. ASSUME NEW s \in Sessions, Release(s) PROVE NoLostWakeup'
  <2>1. [pc EXCEPT ![s] = "idle"] \in [Sessions -> PCs] /\ OwnerOf[s] \in Owners
    BY <1>0
  <2> QED BY <1>0, <1>8, <2>1, IncrementWakes DEF Release
<1>9. ASSUME NEW o \in Owners, StrayIncrement(o) PROVE NoLostWakeup'
  BY <1>0, <1>9, IncrementWakes DEF StrayIncrement
<1>10. CASE UNCHANGED vars
  BY <1>10 DEF vars, NoLostWakeup, Waiting, Awake
<1> QED
  BY <1>1, <1>2, <1>3, <1>4, <1>5, <1>6, <1>7, <1>8, <1>9, <1>10
     DEF AnyNext, Next, SessionStep

\* One notify_one() per increment() is enough, for any number of sessions:
\* a thread sleeps while units are free only if as many threads are awake.
THEOREM WakeupsNotLost == AnySpec => []NoLostWakeup
<1>1. Init => NoLostWakeup
  BY DEF Init, NoLostWakeup, Waiting
<1> QED BY <1>1, WakeupStep, MonitorSafe, PTL DEF AnySpec

-----------------------------------------------------------------------------
(* What the owner list says about the calls. *)

\* Busy(o) only looks at which sessions are idle.
LEMMA BusySame ==
  ASSUME \A s \in Sessions : pc'[s] = "idle" <=> pc[s] = "idle",
         NEW o \in Owners
  PROVE  Busy(o)' = Busy(o)
BY DEF Busy

\* A session enters decrement(), or passes try_decrement().
LEMMA BusyJoin ==
  ASSUME NEW s \in Sessions, pc[s] = "idle", TypeOK,
         NEW v \in PCs \ {"idle"}, pc' = [pc EXCEPT ![s] = v]
  PROVE  \A o \in Owners :
            Cardinality(Busy(o)') =
               IF o = OwnerOf[s] THEN Cardinality(Busy(o)) + 1
                                 ELSE Cardinality(Busy(o))
<1> SUFFICES ASSUME NEW o \in Owners
             PROVE  Cardinality(Busy(o)') =
                      IF o = OwnerOf[s] THEN Cardinality(Busy(o)) + 1
                                        ELSE Cardinality(Busy(o))
  OBVIOUS
<1>1. CASE o = OwnerOf[s]
  <2>1. s \notin Busy(o) /\ Busy(o)' = Busy(o) \cup {s}
    BY <1>1 DEF Busy, TypeOK
  <2> QED BY <1>1, <2>1, CountJoin DEF Busy
<1>2. CASE o # OwnerOf[s]
  <2>1. Busy(o)' = Busy(o)
    BY <1>2 DEF Busy, TypeOK
  <2> QED BY <1>2, <2>1
<1> QED BY <1>1, <1>2

\* An increment() takes away one entry of o, or finds none.
LEMMA IncrementEntries ==
  ASSUME TypeOK, NEW o \in Owners, NEW pcs \in [Sessions -> PCs],
         Increment(o, pcs)
  PROVE  /\ \A p \in Owners : owners'[p] = IF p = o /\ owners[o] # 0
                                           THEN owners[o] - 1 ELSE owners[p]
         /\ \A s \in Sessions : \/ pc'[s] = pcs[s]
                                \/ pc[s] = "waiting" /\ pc'[s] = "notified"
<1>1. CASE owners[o] = 0
  BY <1>1 DEF Increment
<1>2. CASE owners[o] # 0
  <2>1. NotifyOne(pcs) /\ owners' = [owners EXCEPT ![o] = @ - 1]
    BY <1>2 DEF Increment
  <2>2. CASE pc' = pcs
    BY <1>2, <2>1, <2>2 DEF TypeOK
  <2>3. CASE \E w \in Waiting : pc' = [pcs EXCEPT ![w] = "notified"]
    BY <1>2, <2>1, <2>3 DEF Waiting, TypeOK
  <2> QED BY <2>1, <2>2, <2>3, NotifyCases
<1> QED BY <1>1, <1>2

\* A release empties the session and gives up one entry of its owner.
LEMMA ReleaseEntries ==
  ASSUME TypeOK, NEW s \in Sessions, Release(s)
  PROVE  /\ \A p \in Owners : owners'[p] = IF p = OwnerOf[s] /\ owners[p] # 0
                                           THEN owners[p] - 1 ELSE owners[p]
         /\ \A p \in Owners :
              Cardinality(Busy(p)') = IF p = OwnerOf[s]
                                      THEN Cardinality(Busy(p)) - 1
                                      ELSE Cardinality(Busy(p))
         /\ \A p \in Owners : Cardinality(Busy(p)) \in Nat
<1> DEFINE pcs == [pc EXCEPT ![s] = "idle"]
<1>1. /\ pcs \in [Sessions -> PCs] /\ OwnerOf[s] \in Owners
      /\ pc[s] = "holding" /\ Increment(OwnerOf[s], pcs)
  BY SemaphoreAssumption DEF TypeOK, PCs, Release
<1>2. \A t \in Sessions : \/ pc'[t] = pcs[t]
                          \/ pc[t] = "waiting" /\ pc'[t] = "notified"
  BY <1>1, IncrementEntries
<1>3. pc'[s] = "idle" /\ \A t \in Sessions \ {s} : pc'[t] = "idle" <=> pc[t] = "idle"
  BY <1>1, <1>2 DEF TypeOK
<1>4. ASSUME NEW p \in Owners
      PROVE  Cardinality(Busy(p)') = IF p = OwnerOf[s] THEN Cardinality(Busy(p)) - 1
                                     ELSE Cardinality(Busy(p))
  <2>1. CASE p = OwnerOf[s]
    <3>1. s \in Busy(p) /\ Busy(p)' = Busy(p) \ {s}
      BY <1>1, <1>3, <2>1 DEF Busy
    <3> QED BY <2>1, <3>1, CountLeave DEF Busy
  <2>2. CASE p # OwnerOf[s]
    <3>1. Busy(p)' = Busy(p)
      BY <1>1, <1>3, <2>2 DEF Busy
    <3> QED BY <2>2, <3>1
  <2> QED BY <2>1, <2>2
<1>5. ASSUME NEW p \in Owners PROVE Cardinality(Busy(p)) \in Nat
  BY Counted DEF Busy
<1> QED BY <1>1, <1>4, <1>5, IncrementEntries

LEMMA EntriesStep ==
  MonitorInv /\ EntriesJustified /\ [AnyNext]_vars => EntriesJustified'
<1> SUFFICES ASSUME MonitorInv, EntriesJustified, [AnyNext]_vars
             PROVE  EntriesJustified'
  OBVIOUS
<1> USE SemaphoreAssumption
<1>0. /\ TypeOK /\ owners \in [Owners -> Nat] /\ pc \in [Sessions -> PCs]
      /\ \A o \in Owners : Cardinality(Busy(o)) \in Nat
      /\ \A o \in Owners : owners[o] <= Cardinality(Busy(o))
  BY Counted DEF MonitorInv, TypeOK, Busy, EntriesJustified
<1>1. ASSUME NEW s \in Sessions, Enter(s) \/ TryDecrement(s) PROVE EntriesJustified'
  <2>1. PICK v \in PCs \ {"idle"} : pc[s] = "idle" /\ pc' = [pc EXCEPT ![s] = v]
    BY <1>1 DEF Enter, TryDecrement, PCs
  <2>2. owners' = [owners EXCEPT ![OwnerOf[s]] = @ + 1]
    BY <1>1 DEF Enter, TryDecrement
  <2>3. \A o \in Owners : Cardinality(Busy(o)') =
           IF o = OwnerOf[s] THEN Cardinality(Busy(o)) + 1 ELSE Cardinality(Busy(o))
    BY <1>0, <2>1, BusyJoin
  <2>4. ASSUME NEW o \in Owners PROVE owners'[o] <= Cardinality(Busy(o)')
    BY <1>0, <2>2, <2>3
  <2> QED BY <2>4 DEF EntriesJustified
<1>2. ASSUME NEW s \in Sessions,
             Test(s) \/ Block(s) \/ SpuriousWakeup(s) \/ Reacquire(s) \/ Take(s)
      PROVE  EntriesJustified'
  <2>1. owners' = owners /\ \A t \in Sessions : pc'[t] = "idle" <=> pc[t] = "idle"
    BY <1>0, <1>2 DEF Test, Block, SpuriousWakeup, Reacquire, Take, PCs
  <2>2. \A o \in Owners : Busy(o)' = Busy(o)
    BY <2>1, BusySame
  <2> QED BY <1>0, <2>1, <2>2 DEF EntriesJustified
<1>3. ASSUME NEW s \in Sessions, Release(s) PROVE EntriesJustified'
  <2>1. ASSUME NEW o \in Owners
        PROVE  /\ owners'[o] = IF o = OwnerOf[s] /\ owners[o] # 0
                               THEN owners[o] - 1 ELSE owners[o]
               /\ Cardinality(Busy(o)') = IF o = OwnerOf[s]
                                          THEN Cardinality(Busy(o)) - 1
                                          ELSE Cardinality(Busy(o))
    BY <1>0, <1>3, ReleaseEntries
  <2>2. OwnerOf[s] \in Owners /\ Cardinality(Busy(OwnerOf[s])') \in Nat
    BY Counted DEF Busy
  <2>3. ASSUME NEW o \in Owners PROVE owners'[o] <= Cardinality(Busy(o)')
    BY <1>0, <2>1, <2>2
  <2> QED BY <2>3 DEF EntriesJustified
<1>4. ASSUME NEW o \in Owners, StrayIncrement(o) PROVE EntriesJustified'
  <2>1. Increment(o, pc)
    BY <1>4 DEF StrayIncrement
  <2>2. \A p \in Owners : owners'[p] <= owners[p] /\ owners'[p] \in Int
    BY <1>0, <2>1, IncrementEntries
  <2>3. \A t \in Sessions : pc'[t] = "idle" <=> pc[t] = "idle"
    BY <1>0, <2>1, IncrementEntries
  <2>4. \A p \in Owners : Busy(p)' = Busy(p)
    BY <2>3, BusySame
  <2> QED BY <1>0, <2>2, <2>4 DEF EntriesJustified
<1>5. CASE UNCHANGED vars
  BY <1>0, <1>5, BusySame DEF vars, EntriesJustified
<1> QED
  BY <1>1, <1>2, <1>3, <1>4, <1>5 DEF AnyNext, Next, SessionStep

\* Nobody stays in the owner list without a call or a unit of its own, so the
\* heartbeat never examines, and never disconnects, an owner for nothing.
THEOREM EntriesAreJustified == AnySpec => []EntriesJustified
<1>1. Init => EntriesJustified
  BY Counted DEF Init, EntriesJustified, Busy
<1> QED BY <1>1, EntriesStep, MonitorSafe, PTL DEF AnySpec

-----------------------------------------------------------------------------
(* Callers that give back only what they hold. *)

\* No unit is made up, whatever MaxVal cuts off: what is on offer and what is
\* held never exceed what the semaphore was created with.
UnitsConserved == cur + Cardinality(Holding) <= CurrentVal

\* Conservation carries Exclusion, NoUnitLost carries nothing away, and the
\* exact owner list is what keeps a release from being taken for a stray one.
DisciplineInv == MonitorInv /\ EntriesExact /\ UnitsConserved /\ NoUnitLost

LEMMA DisciplineInit == Init => DisciplineInv
<1> SUFFICES ASSUME Init PROVE DisciplineInv
  OBVIOUS
<1>1. Holding = {} /\ \A o \in Owners : Busy(o) = {}
  BY DEF Init, Holding, Busy
<1>2. EntriesExact /\ UnitsConserved /\ NoUnitLost
  BY <1>1, CountEmpty, SemaphoreAssumption
     DEF Init, EntriesExact, UnitsConserved, NoUnitLost
<1> QED BY <1>2, MonitorInit DEF DisciplineInv

LEMMA EntriesExactStep ==
  ASSUME MonitorInv, EntriesExact, [Next]_vars
  PROVE  EntriesExact'
<1> USE SemaphoreAssumption
<1>0. /\ TypeOK /\ owners \in [Owners -> Nat] /\ pc \in [Sessions -> PCs]
      /\ \A o \in Owners : owners[o] = Cardinality(Busy(o))
  BY DEF MonitorInv, TypeOK, EntriesExact
<1>1. ASSUME NEW s \in Sessions, Enter(s) \/ TryDecrement(s) PROVE EntriesExact'
  <2>1. PICK v \in PCs \ {"idle"} : pc[s] = "idle" /\ pc' = [pc EXCEPT ![s] = v]
    BY <1>1 DEF Enter, TryDecrement, PCs
  <2>2. owners' = [owners EXCEPT ![OwnerOf[s]] = @ + 1]
    BY <1>1 DEF Enter, TryDecrement
  <2>3. \A o \in Owners : Cardinality(Busy(o)') =
           IF o = OwnerOf[s] THEN Cardinality(Busy(o)) + 1 ELSE Cardinality(Busy(o))
    BY <1>0, <2>1, BusyJoin
  <2>4. ASSUME NEW o \in Owners PROVE owners'[o] = Cardinality(Busy(o)')
    BY <1>0, <2>2, <2>3
  <2> QED BY <2>4 DEF EntriesExact
<1>2. ASSUME NEW s \in Sessions,
             Test(s) \/ Block(s) \/ SpuriousWakeup(s) \/ Reacquire(s) \/ Take(s)
      PROVE  EntriesExact'
  <2>1. owners' = owners /\ \A t \in Sessions : pc'[t] = "idle" <=> pc[t] = "idle"
    BY <1>0, <1>2 DEF Test, Block, SpuriousWakeup, Reacquire, Take, PCs
  <2>2. \A o \in Owners : Busy(o)' = Busy(o)
    BY <2>1, BusySame
  <2> QED BY <1>0, <2>1, <2>2 DEF EntriesExact
<1>3. ASSUME NEW s \in Sessions, Release(s) PROVE EntriesExact'
  <2>1. ASSUME NEW o \in Owners
        PROVE  /\ owners'[o] = IF o = OwnerOf[s] /\ owners[o] # 0
                               THEN owners[o] - 1 ELSE owners[o]
               /\ Cardinality(Busy(o)') = IF o = OwnerOf[s]
                                          THEN Cardinality(Busy(o)) - 1
                                          ELSE Cardinality(Busy(o))
    BY <1>0, <1>3, ReleaseEntries
  <2>2. OwnerOf[s] \in Owners /\ Cardinality(Busy(OwnerOf[s])') \in Nat
    BY Counted DEF Busy
  <2>3. ASSUME NEW o \in Owners PROVE owners'[o] = Cardinality(Busy(o)')
    BY <1>0, <2>1, <2>2
  <2> QED BY <2>3 DEF EntriesExact
<1>4. CASE UNCHANGED vars
  BY <1>0, <1>4, BusySame DEF vars, EntriesExact
<1> QED
  BY <1>1, <1>2, <1>3, <1>4 DEF Next, SessionStep

\* What a release does to the units: its session is listed, so the unit is
\* really put back, unless max cuts it off.
LEMMA ReleaseUnits ==
  ASSUME MonitorInv, EntriesExact, NEW s \in Sessions, Release(s)
  PROVE  /\ s \in Holding
         /\ Holding' = Holding \ {s}
         /\ InCall' = InCall
         /\ cur' = Raised(cur)
<1> DEFINE pcs == [pc EXCEPT ![s] = "idle"]
<1>1. /\ TypeOK /\ pcs \in [Sessions -> PCs] /\ OwnerOf[s] \in Owners
      /\ pc[s] = "holding" /\ Increment(OwnerOf[s], pcs)
  BY SemaphoreAssumption DEF MonitorInv, TypeOK, PCs, Release
<1>2. s \in Busy(OwnerOf[s])
  BY <1>1 DEF Busy
<1>3. Cardinality(Busy(OwnerOf[s])) # 0
  <2>1. Cardinality(Busy(OwnerOf[s]) \ {s}) = Cardinality(Busy(OwnerOf[s])) - 1
    BY <1>2, CountLeave DEF Busy
  <2>2. Cardinality(Busy(OwnerOf[s]) \ {s}) \in Nat
    BY Counted DEF Busy
  <2> QED BY <2>1, <2>2
<1>4. owners[OwnerOf[s]] # 0
  BY <1>1, <1>3 DEF EntriesExact
<1>5. cur' = Raised(cur)
  BY <1>1, <1>4 DEF Increment
<1>6. \A t \in Sessions : \/ pc'[t] = pcs[t]
                          \/ pc[t] = "waiting" /\ pc'[t] = "notified"
  BY <1>1, IncrementEntries
<1>7. Holding' = Holding \ {s} /\ InCall' = InCall
  BY <1>1, <1>6 DEF Holding, InCall, TypeOK
<1> QED BY <1>1, <1>5, <1>7 DEF Holding

LEMMA UnitsStep ==
  ASSUME DisciplineInv, [Next]_vars
  PROVE  UnitsConserved' /\ NoUnitLost'
<1> USE SemaphoreAssumption
<1>0. /\ cur \in Int /\ pc \in [Sessions -> PCs]
      /\ Cardinality(Holding) \in Nat /\ Cardinality(Holding') \in Nat
      /\ cur + Cardinality(Holding) <= CurrentVal
      /\ CurrentVal <= MaxVal => cur + Cardinality(Holding) = CurrentVal
  BY Counted DEF DisciplineInv, MonitorInv, TypeOK, Holding,
                 UnitsConserved, NoUnitLost
<1>1. ASSUME NEW s \in Sessions, Take(s) \/ TryDecrement(s)
      PROVE  UnitsConserved' /\ NoUnitLost'
  <2>1. s \notin Holding /\ Holding' = Holding \cup {s} /\ cur' = cur - 1
    BY <1>0, <1>1 DEF Take, TryDecrement, Holding
  <2>2. Cardinality(Holding') = Cardinality(Holding) + 1
    BY <2>1, CountJoin DEF Holding
  <2> QED BY <1>0, <2>1, <2>2 DEF UnitsConserved, NoUnitLost
<1>2. ASSUME NEW s \in Sessions, Release(s)
      PROVE  UnitsConserved' /\ NoUnitLost'
  <2>1. s \in Holding /\ Holding' = Holding \ {s} /\ cur' = Raised(cur)
    BY <1>2, ReleaseUnits DEF DisciplineInv
  <2>2. Cardinality(Holding') = Cardinality(Holding) - 1
    BY <2>1, CountLeave DEF Holding
  <2>3. /\ cur' \in Int /\ cur' <= cur + 1
        /\ cur < MaxVal => cur' = cur + 1
    BY <1>0, <2>1, RaisedBounds
  <2> QED BY <1>0, <2>2, <2>3 DEF UnitsConserved, NoUnitLost
<1>3. ASSUME NEW s \in Sessions,
             Enter(s) \/ Test(s) \/ Block(s) \/ SpuriousWakeup(s) \/ Reacquire(s)
      PROVE  UnitsConserved' /\ NoUnitLost'
  <2>1. Holding' = Holding /\ cur' = cur
    BY <1>0, <1>3 DEF Enter, Test, Block, SpuriousWakeup, Reacquire, Holding
  <2> QED BY <1>0, <2>1 DEF UnitsConserved, NoUnitLost
<1>4. CASE UNCHANGED vars
  BY <1>0, <1>4 DEF vars, Holding, UnitsConserved, NoUnitLost
<1> QED
  BY <1>1, <1>2, <1>3, <1>4 DEF Next, SessionStep

THEOREM DisciplineSafe == Spec => []DisciplineInv
<1>1. DisciplineInv /\ [Next]_vars => DisciplineInv'
  <2> SUFFICES ASSUME DisciplineInv, [Next]_vars PROVE DisciplineInv'
    OBVIOUS
  <2>1. MonitorInv'
    BY MonitorStep DEF DisciplineInv, AnyNext
  <2> QED BY <2>1, EntriesExactStep, UnitsStep DEF DisciplineInv
<1> QED BY <1>1, DisciplineInit, PTL DEF Spec

\* A disciplined state never has more holders than Capacity.
LEMMA ConservedExcludes == ASSUME DisciplineInv PROVE Exclusion
<1>1. cur \in Int /\ Cardinality(Holding) \in Nat
  BY Counted DEF DisciplineInv, MonitorInv, TypeOK, Holding
<1> QED BY <1>1, SemaphoreAssumption
        DEF DisciplineInv, MonitorInv, CurInRange, UnitsConserved, Exclusion, Capacity

\* Mutual exclusion: at most CurrentVal - MinVal sessions hold a unit at once.
THEOREM MutualExclusion == Spec => []Exclusion
BY DisciplineSafe, ConservedExcludes, PTL

\* A semaphore created within its bounds never loses a unit.
THEOREM UnitsNotLost == Spec => []NoUnitLost
BY DisciplineSafe, PTL DEF DisciplineInv

\* The owner list says exactly who waits and who holds.
THEOREM EntriesAreExact == Spec => []EntriesExact
BY DisciplineSafe, PTL DEF DisciplineInv

-----------------------------------------------------------------------------
(* The monitor implements the abstract semaphore. *)

\* The instance of module CountingSemaphore has a Cardinality of its own.
LEMMA SameCardinality == CS!Cardinality(Holding) = Cardinality(Holding)
BY DEF CS!Cardinality, Cardinality

LEMMA RefineStep ==
  ASSUME DisciplineInv, [Next]_vars
  PROVE  [CS!CSNext]_(CS!csvars)
<1> USE SemaphoreAssumption
<1>0. /\ cur \in Int /\ pc \in [Sessions -> PCs] /\ Cardinality(Holding) \in Nat
      /\ cur + Cardinality(Holding) <= CurrentVal
      /\ MonitorInv /\ EntriesExact
  BY Counted DEF DisciplineInv, MonitorInv, TypeOK, Holding, UnitsConserved
<1>1. ASSUME NEW s \in Sessions, Enter(s) PROVE CS!Request(s)
  BY <1>0, <1>1 DEF Enter, Holding, InCall, CS!Request
<1>2. ASSUME NEW s \in Sessions,
             Test(s) \/ Block(s) \/ SpuriousWakeup(s) \/ Reacquire(s)
      PROVE  UNCHANGED CS!csvars
  BY <1>0, <1>2
     DEF Test, Block, SpuriousWakeup, Reacquire, Holding, InCall, CS!csvars
<1>3. ASSUME cur > MinVal PROVE CS!Free
  BY <1>0, <1>3, SameCardinality DEF CS!Free, Capacity
<1>4. ASSUME NEW s \in Sessions, Take(s) PROVE CS!Grant(s)
  <2>1. cur > MinVal
    BY <1>0, <1>4 DEF Take, MonitorInv, DecisionStillHolds
  <2>2. /\ s \in InCall /\ InCall' = InCall \ {s}
        /\ Holding' = Holding \cup {s}
    BY <1>0, <1>4 DEF Take, Holding, InCall
  <2> QED BY <1>3, <2>1, <2>2 DEF CS!Grant
<1>5. ASSUME NEW s \in Sessions, TryDecrement(s) PROVE CS!TryGrant(s)
  <2>1. /\ s \notin Holding \cup InCall /\ InCall' = InCall
        /\ Holding' = Holding \cup {s} /\ cur > MinVal
    BY <1>0, <1>5 DEF TryDecrement, Holding, InCall
  <2> QED BY <1>3, <2>1 DEF CS!TryGrant
<1>6. ASSUME NEW s \in Sessions, Release(s) PROVE CS!GiveBack(s)
  BY <1>0, <1>6, ReleaseUnits DEF CS!GiveBack
<1>7. CASE UNCHANGED vars
  BY <1>7 DEF vars, Holding, InCall, CS!csvars
<1> QED
  BY <1>1, <1>2, <1>4, <1>5, <1>6, <1>7 DEF Next, SessionStep, CS!CSNext

\* increment(), decrement() and try_decrement(), with their two mutexes, their
\* condition variable and their owner list, implement P and V.
THEOREM Refinement == Spec => Implements
<1>1. Init => CS!CSInit
  BY DEF Init, Holding, InCall, CS!CSInit
<1> QED BY <1>1, RefineStep, DisciplineSafe, PTL
        DEF Spec, Implements, CS!CSSpec
-----------------------------------------------------------------------------
(* Under callers of any kind, the abstract semaphore with an owner list. *)

\* increment(o) by a session or owner that is inside no call of its own: one
\* entry against one unit, or nothing at all.
LEMMA IncrementOwned ==
  ASSUME MonitorInv,
         NEW o \in Owners, NEW pcs \in [Sessions -> PCs],
         \A s \in Sessions : pcs[s] = pc[s] \/ (pc[s] = "holding" /\ pcs[s] = "idle"),
         Increment(o, pcs)
  PROVE  OS!GiveBack(o) \/ UNCHANGED OS!osvars
<1>0. /\ pc \in [Sessions -> PCs] /\ owners \in [Owners -> Nat]
  BY DEF MonitorInv, TypeOK
<1>1. ASSUME pc' = pcs PROVE InCall' = InCall
  BY <1>0, <1>1 DEF InCall
<1>2. CASE owners[o] = 0
  <2>1. pc' = pcs /\ UNCHANGED <<cur, owners>>
    BY <1>2 DEF Increment
  <2> QED BY <1>1, <2>1 DEF OS!osvars
<1>3. CASE owners[o] # 0
  <2>1. /\ owners' = [owners EXCEPT ![o] = @ - 1]
        /\ cur' = Raised(cur) /\ NotifyOne(pcs)
    BY <1>3 DEF Increment
  <2>2. InCall' = InCall
    <3>1. CASE pc' = pcs
      BY <1>1, <3>1
    <3>2. ASSUME NEW w \in Waiting, pc' = [pcs EXCEPT ![w] = "notified"]
          PROVE  InCall' = InCall
      <4>1. w \in Sessions /\ pc[w] = "waiting"
        BY DEF Waiting
      <4> QED BY <1>0, <3>2, <4>1 DEF InCall
    <3> QED BY <2>1, <3>1, <3>2, NotifyCases
  <2>3. owners[o] > 0
    BY <1>0, <1>3
  <2>4. cur' = IF cur < MaxVal THEN cur + 1 ELSE MaxVal
    BY <2>1 DEF Raised
  <2> QED BY <2>1, <2>2, <2>3, <2>4 DEF OS!GiveBack
<1> QED BY <1>2, <1>3

LEMMA OwnedStep ==
  ASSUME MonitorInv, [AnyNext]_vars
  PROVE  [OS!OSNext]_(OS!osvars)
<1>0. /\ pc \in [Sessions -> PCs] /\ owners \in [Owners -> Nat]
      /\ OwnerOf \in [Sessions -> Owners] /\ DecisionStillHolds
  BY SemaphoreAssumption DEF MonitorInv, TypeOK
<1>1. ASSUME NEW s \in Sessions, Enter(s) PROVE OS!Request(s)
  <2>1. s \notin InCall /\ InCall' = InCall \cup {s}
    BY <1>0, <1>1 DEF Enter, InCall
  <2> QED BY <1>1, <2>1 DEF Enter, OS!Request, OS!ListAs
<1>2. ASSUME NEW s \in Sessions,
             Test(s) \/ Block(s) \/ SpuriousWakeup(s) \/ Reacquire(s)
      PROVE  UNCHANGED OS!osvars
  BY <1>0, <1>2
     DEF Test, Block, SpuriousWakeup, Reacquire, InCall, OS!osvars
<1>3. ASSUME NEW s \in Sessions, Take(s) PROVE OS!Grant(s)
  <2>1. s \in InCall /\ InCall' = InCall \ {s} /\ cur > MinVal
    BY <1>0, <1>3 DEF Take, InCall, DecisionStillHolds
  <2> QED BY <1>3, <2>1 DEF Take, OS!Grant, OS!TakeUnit
<1>4. ASSUME NEW s \in Sessions, TryDecrement(s) PROVE OS!GrantAtOnce(s)
  <2>1. s \notin InCall /\ InCall' = InCall
    BY <1>0, <1>4 DEF TryDecrement, InCall
  <2> QED BY <1>4, <2>1
          DEF TryDecrement, OS!GrantAtOnce, OS!TakeUnit, OS!ListAs
<1>5. ASSUME NEW s \in Sessions, Release(s)
      PROVE  OS!GiveBack(OwnerOf[s]) \/ UNCHANGED OS!osvars
  <2> DEFINE pcs == [pc EXCEPT ![s] = "idle"]
  <2>1. pcs \in [Sessions -> PCs]
    BY <1>0 DEF PCs
  <2>2. \A t \in Sessions :
          pcs[t] = pc[t] \/ (pc[t] = "holding" /\ pcs[t] = "idle")
    BY <1>0, <1>5 DEF Release
  <2>3. Increment(OwnerOf[s], pcs) /\ OwnerOf[s] \in Owners
    BY <1>0, <1>5 DEF Release
  <2> HIDE DEF pcs
  <2> QED BY <2>1, <2>2, <2>3, IncrementOwned
<1>6. ASSUME NEW o \in Owners, StrayIncrement(o)
      PROVE  OS!GiveBack(o) \/ UNCHANGED OS!osvars
  BY <1>0, <1>6, IncrementOwned DEF StrayIncrement
<1>7. CASE UNCHANGED vars
  BY <1>7 DEF vars, InCall, OS!osvars
<1> QED
  BY <1>0, <1>1, <1>2, <1>3, <1>4, <1>5, <1>6, <1>7
     DEF AnyNext, Next, SessionStep, OS!OSNext

\* Called in any order by anybody, the class implements the semaphore with an
\* owner list that OwnedSemaphore describes.
THEOREM OwnedRefinement == AnySpec => ImplementsOwned
<1>1. Init => OS!OSInit
  BY DEF Init, InCall, OS!OSInit
<1> QED BY <1>1, OwnedStep, MonitorSafe, PTL
        DEF AnySpec, ImplementsOwned, OS!OSSpec
=============================================================================
