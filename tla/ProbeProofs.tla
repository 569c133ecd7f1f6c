---------------------------- MODULE ProbeProofs ----------------------------
(***************************************************************************)
(* What module Probe guarantees for any clients, semaphores and addresses, *)
(* whatever compareAddressesEqual makes of two of them.                    *)
(***************************************************************************)
EXTENDS Probe, TLAPS

\* A probe stays one when its stage and what is left of its list change.
LEMMA ProbeKept ==
  ASSUME NEW p \in ProbeType
  PROVE  /\ [p EXCEPT !.stage = "sending", !.todo = Copied(p)] \in ProbeType
         /\ \A x \in Clients : [p EXCEPT !.todo = @ \ {x}] \in ProbeType
BY DEF ProbeType, Copied, Listed

\* A probe a client passes on has its fields in range.
LEMMA PassedOnType ==
  ASSUME NEW x \in Clients, NEW i \in Addresses
  PROVE  PassedOn(x, i) \subseteq ProbeType
BY DEF PassedOn, ProbeType

LEMMA TypeStep == TypeOK /\ [Next]_vars => TypeOK'
<1> SUFFICES ASSUME TypeOK, [Next]_vars PROVE TypeOK'
  OBVIOUS
<1> USE ProbeAssumption
<1>1. ASSUME NEW x \in Clients, NEW s \in Sems,
             Decrement(x, s) \/ Grant(x, s) \/ Increment(x, s)
      PROVE  TypeOK'
  BY <1>1 DEF TypeOK, Decrement, Grant, Increment
<1>2. ASSUME NEW x \in Clients, NEW i \in Initiators, NEW r \in Returns,
             NEW s \in Sems, AskProbe(x, i, r, s)
      PROVE  TypeOK'
  BY <1>2 DEF TypeOK, AskProbe, ProbeType
<1>3. ASSUME NEW p \in probes, CopyOwners(p) PROVE TypeOK'
  BY <1>3, ProbeKept DEF TypeOK, CopyOwners
<1>4. ASSUME NEW p \in probes, NEW x \in Clients, ClientProbe(p, x) PROVE TypeOK'
  <2>1. p \in ProbeType /\ p.initiator \in Addresses
    BY DEF TypeOK, ProbeType
  <2>2. probes' \subseteq ProbeType
    <3>1. [p EXCEPT !.todo = @ \ {x}] \in ProbeType
      BY <2>1, ProbeKept
    <3>2. PassedOn(x, p.initiator) \subseteq ProbeType
      BY <2>1, PassedOnType
    <3> QED BY <1>4, <3>1, <3>2 DEF TypeOK, ClientProbe
  <2> QED BY <1>4, <2>2 DEF TypeOK, ClientProbe, Report
<1>5. ASSUME NEW p \in probes, EndProbe(p) PROVE TypeOK'
  BY <1>5 DEF TypeOK, EndProbe
<1>6. ASSUME NEW p \in probes, NEW x \in Clients, ClientGone(p, x) PROVE TypeOK'
  <2>1. p \in ProbeType
    BY DEF TypeOK
  <2>2. [p EXCEPT !.todo = @ \ {x}] \in ProbeType
    BY <2>1, ProbeKept
  <2> QED BY <1>6, <2>2 DEF TypeOK, ClientGone
<1>7. ASSUME NEW x \in Clients, Die(x) PROVE TypeOK'
  BY <1>7 DEF Die, TypeOK
<1>8. CASE UNCHANGED vars
  BY <1>8 DEF vars, TypeOK
<1> QED
  BY <1>1, <1>2, <1>3, <1>4, <1>5, <1>6, <1>7, <1>8 DEF Next, ProbeStep

\* Every variable of module Probe stays in its range.
THEOREM ProbeTypeCorrect == Spec => []TypeOK
<1>1. Init => TypeOK
  BY DEF Init, TypeOK
<1> QED BY <1>1, TypeStep, PTL DEF Spec

\* No call gets two clients out of each other's way: both wait, and who waits does
\* nothing with the semaphore he has.
LEMMA EmbraceKept ==
  ASSUME TypeOK, [Next]_vars, NEW x \in Clients, NEW y \in Clients, Embraced(x, y)
  PROVE  waits'[x] = waits[x] /\ waits'[y] = waits[y] /\ Embraced(x, y)'
<1>1. /\ waits[x] # Nobody /\ waits[y] # Nobody /\ x # y
      /\ holder[waits[x]] = y /\ holder[waits[y]] = x
      /\ Nobody \notin Clients /\ waits \in [Clients -> Sems \cup {Nobody}]
      /\ holder \in [Sems -> Clients \cup {Nobody}]
  BY ProbeAssumption DEF TypeOK, Embraced, WaitsFor
<1>2. CASE UNCHANGED <<holder, waits>>
  BY <1>1, <1>2 DEF Embraced, WaitsFor
<1>3. ASSUME NEW z \in Clients, NEW s \in Sems, Decrement(z, s)
      PROVE  waits'[x] = waits[x] /\ waits'[y] = waits[y] /\ Embraced(x, y)'
  BY <1>1, <1>3 DEF Decrement, Idle, Embraced, WaitsFor
<1>4. ASSUME NEW z \in Clients, NEW s \in Sems, Grant(z, s)
      PROVE  waits'[x] = waits[x] /\ waits'[y] = waits[y] /\ Embraced(x, y)'
  BY <1>1, <1>4 DEF Grant, Embraced, WaitsFor
<1>5. ASSUME NEW z \in Clients, NEW s \in Sems, Increment(z, s)
      PROVE  waits'[x] = waits[x] /\ waits'[y] = waits[y] /\ Embraced(x, y)'
  BY <1>1, <1>5 DEF Increment, Idle, Embraced, WaitsFor
<1> QED BY <1>2, <1>3, <1>4, <1>5 DEF Next, vars, AskProbe, ProbeStep, CopyOwners,
           EndProbe, ClientProbe, ClientGone, Die

\* What is left to show of one step: the probe goes on, or one of the two has
\* reported or is gone.
Pursued(x, y) == \/ \E q \in probes' : Pursues(q, x, y)'
                 \/ deadlock'[x] \/ deadlock'[y] \/ {x, y} \cap dead' # {}

\* A probe that is let be goes on.
LEMMA LetBe ==
  ASSUME NEW x, NEW y, NEW p \in probes, Pursues(p, x, y), p \in probes',
         waits'[x] = waits[x], waits'[y] = waits[y]
  PROVE  Pursued(x, y)
BY DEF Pursues, Pursued

\* The handler copies the owners: two of them block each other, and only one can be
\* left out.
LEMMA CopyPursues ==
  ASSUME TypeOK, NEW x \in Clients, NEW y \in Clients, Embraced(x, y),
         waits'[x] = waits[x], waits'[y] = waits[y],
         NEW p \in probes, Pursues(p, x, y), CopyOwners(p)
  PROVE  Pursued(x, y)
<1> DEFINE q == [p EXCEPT !.stage = "sending", !.todo = Copied(p)]
<1>1. p \in ProbeType /\ q \in probes'
  BY DEF TypeOK, CopyOwners
<1>2. q.sem = p.sem /\ q.todo = Copied(p)
  BY <1>1 DEF ProbeType
<1> HIDE DEF q
<1>3. {x, y} \subseteq Listed(p.sem) /\ x # y
  BY DEF Pursues, Embraced, WaitsFor, Listed
<1>4. {x, y} \cap Copied(p) # {}
  BY <1>3 DEF Copied
<1> QED BY <1>1, <1>2, <1>4 DEF Pursued, Pursues

\* A client takes the probe: it reports, or passes it on to what it waits for.
LEMMA ClientPursues ==
  ASSUME TypeOK, NEW x \in Clients, NEW y \in Clients, Embraced(x, y),
         waits'[x] = waits[x], waits'[y] = waits[y],
         NEW p \in probes, Pursues(p, x, y), NEW z \in Clients, ClientProbe(p, z)
  PROVE  Pursued(x, y)
<1> DEFINE q == [p EXCEPT !.todo = @ \ {z}]
<1>1. p \in ProbeType /\ q \in probes' /\ p.stage = "sending"
  BY DEF TypeOK, ClientProbe
<1>2. q.sem = p.sem /\ q.todo = p.todo \ {z}
  BY <1>1 DEF ProbeType
<1> HIDE DEF q
<1>3. CASE z \notin {x, y}
  BY <1>1, <1>2, <1>3 DEF Pursued, Pursues
<1>4. CASE z \in {x, y} /\ compareAddressesEqual(p.initiator, AddressOf[z])
  <2> DEFINE n == [initiator |-> p.initiator, ret |-> z, sem |-> waits[z],
                   by |-> Nobody, stage |-> "sent", todo |-> {}]
  <2>1. waits[z] \in Sems
    BY <1>4 DEF TypeOK, Embraced, WaitsFor
  <2>2. n \in PassedOn(z, p.initiator)
    BY <2>1 DEF PassedOn
  <2>3. n \in probes'
    BY <1>4, <2>2 DEF ClientProbe
  <2>4. n.sem = waits[z] /\ n.stage = "sent"
    OBVIOUS
  <2> HIDE DEF n
  <2> QED BY <1>4, <2>3, <2>4 DEF Pursued, Pursues
<1>5. CASE z \in {x, y} /\ ~compareAddressesEqual(p.initiator, AddressOf[z])
  BY <1>5 DEF TypeOK, ClientProbe, Report, Pursued
<1> QED BY <1>3, <1>4, <1>5

\* A client that is gone is passed over.
LEMMA GonePursues ==
  ASSUME TypeOK, NEW x \in Clients, NEW y \in Clients,
         waits'[x] = waits[x], waits'[y] = waits[y],
         NEW p \in probes, Pursues(p, x, y), NEW z \in Clients, ClientGone(p, z)
  PROVE  Pursued(x, y)
<1> DEFINE q == [p EXCEPT !.todo = @ \ {z}]
<1>1. p \in ProbeType /\ q \in probes' /\ p.stage = "sending" /\ z \in dead'
  BY DEF TypeOK, ClientGone
<1>2. q.sem = p.sem /\ q.todo = p.todo \ {z}
  BY <1>1 DEF ProbeType
<1> HIDE DEF q
<1> QED BY <1>1, <1>2 DEF Pursued, Pursues

LEMMA PursuedStep ==
  ASSUME TypeOK, [Next]_vars, NEW x \in Clients, NEW y \in Clients, Embraced(x, y),
         NEW p \in probes, Pursues(p, x, y)
  PROVE  Pursued(x, y)
<1>1. waits'[x] = waits[x] /\ waits'[y] = waits[y]
  BY EmbraceKept
<1>2. CASE p \in probes'
  BY <1>1, <1>2, LetBe
<1>3. ~EndProbe(p)
  BY DEF EndProbe, Pursues
<1>4. CASE p \notin probes'
  <2>1. CopyOwners(p) \/ \E z \in Clients : ClientProbe(p, z) \/ ClientGone(p, z)
    BY <1>3, <1>4 DEF Next, vars, Decrement, Grant, Increment, Die, AskProbe, ProbeStep,
       CopyOwners, EndProbe, ClientProbe, ClientGone
  <2> QED BY <1>1, <2>1, CopyPursues, ClientPursues, GonePursues
<1> QED BY <1>2, <1>4

\* Clients that block each other do so for good, and a probe about them is not
\* dropped before one of them reports it or dies, for any clients, semaphores and
\* addresses and however these compare.
THEOREM DeadlockIsPursued == Spec => DeadlockPursued
<1>1. TypeOK /\ [Next]_vars
        => [\A x, y \in Clients :
              Embraced(x, y) /\ (\E p \in probes : Pursues(p, x, y))
                => Embraced(x, y)' /\ Pursued(x, y)]_vars
  BY EmbraceKept, PursuedStep
<1>2. TypeOK /\ [Next]_vars
        => [\A x, y \in Clients :
              Embraced(x, y) /\ (\E p \in probes : Pursues(p, x, y))
                => /\ Embraced(x, y)'
                   /\ \/ \E q \in probes' : Pursues(q, x, y)'
                      \/ deadlock'[x] \/ deadlock'[y] \/ {x, y} \cap dead' # {}]_vars
  BY <1>1 DEF Pursued
<1> QED BY <1>2, ProbeTypeCorrect, PTL DEF Spec, DeadlockPursued
=============================================================================
