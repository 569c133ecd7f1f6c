------------------------------- MODULE Probe -------------------------------
(***************************************************************************)
(* Deadlock detection by probes.  A user asks the server for a Locks.Probe *)
(* of one semaphore; the server sends a Client.Probe to every listed owner *)
(* of it but the one the request names (server.cpp), one after the other   *)
(* and from the same thread; a client that gets one either passes it on to *)
(* the semaphores it waits for or reports a deadlock (clientserver.cpp,    *)
(* client.cpp).                                                            *)
(*                                                                         *)
(* The semaphores are binary here and the calls about them are one step    *)
(* each (module System has their detail): what a probe reads is who is     *)
(* listed at a semaphore, its holder and those that wait for it, and which *)
(* semaphore a client waits for.                                           *)
(***************************************************************************)
EXTENDS Integers, FiniteSets

CONSTANTS Clients,
          Sems,
          AddressOf,   \* listenip and listenport of each client
          Initiators,  \* bound: addresses a user puts into a Locks.Probe
          Returns,     \* bound: clients whose address he puts there to be left out
          Askers,      \* bound: the clients whose users ask for probes
          Users,       \* bound: the clients whose users ask for units
          Mortals,     \* bound: the clients that may die
          Nobody

AnyIP  == "0.0.0.0"   \* the literal of compareAddressesEqual
NoPort == -1          \* std::stoi throws

Addresses == [ip : STRING, port : Int]

ASSUME ProbeAssumption ==
  /\ IsFiniteSet(Clients) /\ IsFiniteSet(Sems)
  /\ AddressOf \in [Clients -> Addresses]
  /\ \A x, y \in Clients : AddressOf[x] = AddressOf[y] => x = y
  /\ Initiators \subseteq Addresses
  /\ Returns \cup Askers \cup Users \cup Mortals \subseteq Clients
  /\ Nobody \notin Clients \cup Sems

VARIABLES holder,    \* who has each semaphore
          waits,     \* the semaphore a P call of each client waits for
          asking,    \* clients with a Locks.Probe of theirs at the server
          probes,    \* Locks.Probe calls at the server
          deadlock,  \* Client::deadlock
          dead       \* clients that are gone; their calls are still at the server

vars == <<holder, waits, asking, probes, deadlock, dead>>

\* initiator and ret are InitiatorAddr and ReturnAddr; by is the client whose
\* console awaits the answer, or Nobody for a probe that was passed on; todo
\* is what is left of the copied owner list.
ProbeType == [initiator : Addresses, ret : Clients, sem : Sems,
              by : Clients \cup {Nobody}, stage : {"sent", "sending"},
              todo : SUBSET Clients]

TypeOK == /\ holder \in [Sems -> Clients \cup {Nobody}]
          /\ waits \in [Clients -> Sems \cup {Nobody}]
          /\ asking \subseteq Clients
          /\ probes \subseteq ProbeType
          /\ deadlock \in [Clients -> BOOLEAN]
          /\ dead \subseteq Clients

Init == /\ holder = [s \in Sems |-> Nobody]
        /\ waits = [x \in Clients |-> Nobody]
        /\ asking = {}
        /\ probes = {}
        /\ deadlock = [x \in Clients |-> FALSE]
        /\ dead = {}

\* Mutant: an entry with an empty owner is listed.
ListedNobody(s) == {holder[s]} \cup {x \in Clients : waits[x] = s}

\* The owner list of s: decrement() lists a client before it waits.
Listed(s) == {x \in Clients : holder[s] = x \/ waits[x] = s}

Idle(x) == waits[x] = Nobody /\ x \notin asking /\ x \notin dead

-----------------------------------------------------------------------------
(* What the clients do with the semaphores. *)

Decrement(x, s) == /\ x \in Users /\ Idle(x)
                   /\ waits' = [waits EXCEPT ![x] = s]
                   /\ UNCHANGED <<holder, asking, probes, deadlock, dead>>

Grant(x, s) == /\ waits[x] = s /\ holder[s] = Nobody
               /\ holder' = [holder EXCEPT ![s] = x]
               /\ waits' = [waits EXCEPT ![x] = Nobody]
               /\ UNCHANGED <<asking, probes, deadlock, dead>>

Increment(x, s) == /\ Idle(x) /\ holder[s] = x
                   /\ holder' = [holder EXCEPT ![s] = Nobody]
                   /\ UNCHANGED <<waits, asking, probes, deadlock, dead>>

\* A client dies, and is listed until the heartbeat takes it out (module System).
Die(x) == /\ x \in Mortals \ dead
          /\ dead' = dead \cup {x}
          /\ UNCHANGED <<holder, waits, asking, probes, deadlock>>

-----------------------------------------------------------------------------
(* The probes. *)

\* The user of x types Locks.Probe i r s: the code lets him choose all three.
AskProbe(x, i, r, s) ==
  /\ x \in Askers /\ Idle(x)
  /\ probes' = probes \cup {[initiator |-> i, ret |-> r, sem |-> s, by |-> x,
                             stage |-> "sent", todo |-> {}]}
  /\ asking' = asking \cup {x}
  /\ UNCHANGED <<holder, waits, deadlock, dead>>

\* Mutant: who waits is not taken for an owner.
CopiedHolder(p) == {x \in Clients : holder[p.sem] = x} \ {p.ret}

\* The owners without duplicates and without ReturnAddr.
Copied(p) == Listed(p.sem) \ {p.ret}

\* The handler of Locks.Probe copies the owners and lets go of semsmutex.
CopyOwners(p) ==
  /\ p \in probes /\ p.stage = "sent"
  /\ probes' = (probes \ {p}) \cup {[p EXCEPT !.stage = "sending", !.todo = Copied(p)]}
  /\ UNCHANGED <<holder, waits, asking, deadlock, dead>>

\* Mutant: only malformed ports make a difference.
compareAddressesAll(i, m) == i.port # NoPort /\ m.port # NoPort

\* ClientServer::compareAddressesEqual, test by test.
compareAddressesEqual(i, m) ==
  /\ i.port # NoPort
  /\ m.port # NoPort
  /\ m.ip = AnyIP
  /\ i.ip = AnyIP
  /\ m.ip # i.ip
  /\ i.port = m.port

\* SendLocksToAllServersWhenClientProbe: a Locks.Probe for every semaphore
\* whose status is "Polling Decrement", each from a thread of its own.
PassedOn(x, i) ==
  {[initiator |-> i, ret |-> x, sem |-> s, by |-> Nobody, stage |-> "sent",
    todo |-> {}] : s \in {s \in Sems : waits[x] = s}}

Report(x) == deadlock' = [deadlock EXCEPT ![x] = TRUE]

\* Client.Probe at client x: it passes the probe on if its address and the
\* initiator's compare equal, and reports a deadlock otherwise.
ClientProbe(p, x) ==
  LET rest == (probes \ {p}) \cup {[p EXCEPT !.todo = @ \ {x}]}
  IN /\ p \in probes /\ p.stage = "sending" /\ x \in p.todo \ dead
     /\ IF compareAddressesEqual(p.initiator, AddressOf[x])
        THEN probes' = rest \cup PassedOn(x, p.initiator) /\ UNCHANGED deadlock
        ELSE probes' = rest /\ Report(x)
     /\ UNCHANGED <<holder, waits, asking, dead>>

\* Mutant: the exception is caught around the loop.
ClientGoneEnds(p, x) ==
  /\ p \in probes /\ p.stage = "sending" /\ x \in p.todo \cap dead
  /\ probes' = (probes \ {p}) \cup {[p EXCEPT !.todo = {}]}
  /\ UNCHANGED <<holder, waits, asking, deadlock, dead>>

\* The call of a client that is gone throws; the handler goes on with the next.
ClientGone(p, x) ==
  /\ p \in probes /\ p.stage = "sending" /\ x \in p.todo \cap dead
  /\ probes' = (probes \ {p}) \cup {[p EXCEPT !.todo = @ \ {x}]}
  /\ UNCHANGED <<holder, waits, asking, deadlock, dead>>

\* The handler has been through the list and answers.
EndProbe(p) ==
  /\ p \in probes /\ p.stage = "sending" /\ p.todo = {}
  /\ probes' = probes \ {p}
  /\ asking' = asking \ {p.by}
  /\ UNCHANGED <<holder, waits, deadlock, dead>>

ProbeStep(p) == \/ CopyOwners(p) \/ EndProbe(p)
                \/ \E x \in Clients : ClientProbe(p, x) \/ ClientGone(p, x)

Next ==
  \/ \E x \in Clients, s \in Sems : Decrement(x, s) \/ Grant(x, s) \/ Increment(x, s)
  \/ \E x \in Clients : Die(x)
  \/ \E x \in Clients, i \in Initiators, r \in Returns, s \in Sems : AskProbe(x, i, r, s)
  \/ \E p \in probes : ProbeStep(p)

\* A handler of the server's pool, and the client's it calls, get on.
Fairness == WF_vars(\E p \in probes : ProbeStep(p))

Spec     == Init /\ [][Next]_vars
FairSpec == Spec /\ Fairness

-----------------------------------------------------------------------------
\* x waits for a semaphore y has.
WaitsFor(x, y) == waits[x] # Nobody /\ holder[waits[x]] = y

\* Two clients that each wait for what the other holds.
Embraced(x, y) == x # y /\ WaitsFor(x, y) /\ WaitsFor(y, x)

\* Probes come to an end: the handlers never send each other round a cycle of
\* waiting clients without end.
ProbesDrain == []<>(probes = {})

\* A deadlock of two that somebody asks about is reported by one of them, if both
\* live to see it, whichever the request leaves out and whoever is gone and still
\* listed: the one that waits is listed as well as the one that holds.
DeadlockTold ==
  \A x, y \in Clients :
    (Embraced(x, y) /\ \E p \in probes : p.stage = "sent" /\ p.sem = waits[x])
      ~> (deadlock[x] \/ deadlock[y] \/ {x, y} \cap dead # {})

\* A probe that is still to come to one of x and y, whose semaphores wait crosswise.
Pursues(p, x, y) == /\ p.sem \in {waits[x], waits[y]}
                    /\ p.stage = "sent" \/ {x, y} \cap p.todo # {}

\* Two that block each other do so for good, and what was asked about them is never
\* dropped before one of them reports it or dies: not by the copy of the owners,
\* which leaves ReturnAddr out, not by a call that throws, and not by a client that
\* passes the probe on instead of reporting.
DeadlockPursued ==
  [][\A x, y \in Clients :
       Embraced(x, y) /\ (\E p \in probes : Pursues(p, x, y))
         => /\ Embraced(x, y)'
            /\ \/ \E q \in probes' : Pursues(q, x, y)'
               \/ deadlock'[x] \/ deadlock'[y] \/ {x, y} \cap dead' # {}]_vars

\* A client reports a deadlock only when the probe it got is its own.
AlarmOnlyToInitiator ==
  [][\A x \in Clients : deadlock'[x] # deadlock[x] =>
       \E p \in probes : p.initiator = AddressOf[x]]_vars
=============================================================================
