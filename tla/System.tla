------------------------------- MODULE System -------------------------------
(***************************************************************************)
(* The server and its clients: what the semaphores of one server mean to   *)
(* the processes that use them, through calls that take time, clients that *)
(* die, restart or answer late, and a pool with few threads.               *)
(***************************************************************************)
EXTENDS Server, Client

vars == <<netVars, serverVars, clientVars>>

Init == NetInit /\ ServerInit /\ ClientInit

Next == \/ ServerNext /\ UNCHANGED clientVars
        \/ ClientNext /\ UNCHANGED serverVars

Spec     == Init /\ [][Next]_vars
FairSpec == /\ Spec
            /\ HandlerFairness /\ HeartbeatFairness /\ ClientFairness

-----------------------------------------------------------------------------
\* Every variable of the three modules stays in its range.
TypeOK == NetTypeOK /\ ServerTypeOK /\ ClientTypeOK

\* A count of each owner, as a set of that many pairs for each.
Pairs(f) == UNION {{o} \X (1..f[o]) : o \in Owners}

\* The owner list of u.
Entries(u) == Pairs(sems[u].owners)

\* Client o has asked for a unit of u, or for one to be taken back.
Asked(o, u)     == Awaits(o, "Decrement", u)
Releasing(o, u) == Awaits(o, "Increment", u)

\* Units of u that client o counts on: those it believes it holds, but for one
\* it is giving back.
Claimed(o, u) == Believed(o, u) -
                   (IF Believed(o, u) > 0 /\ Releasing(o, u) THEN 1 ELSE 0)

Claims(u) == Pairs([o \in Owners |-> Claimed(o, u)])

Units(u) == IF sems[u].initial > sems[u].min
            THEN sems[u].initial - sems[u].min ELSE 0

\* Whatever fails, no unit of a semaphore appears from nowhere: the units on
\* offer and the entries of the owner list never exceed what it was created
\* with and the calls that wait for a unit.
UnitsBounded ==
  \A u \in Live :
    sems[u].cur + Cardinality(Entries(u))
      <= sems[u].initial + Cardinality(WaitingOn(u))

\* Nor does one disappear, as long as nothing fails and it was created within
\* its bounds.
UnitsAccounted ==
  \A u \in Live :
    sems[u].initial <= sems[u].max =>
      sems[u].cur + Cardinality(Entries(u))
        = sems[u].initial + Cardinality(WaitingOn(u))

\* The clients that are alive count together on at most as many units as the
\* semaphore has.
LiveExclusion == \A u \in Live : Cardinality(Claims(u)) <= Units(u)

\* A unit a client counts on is in its name in the server, but for one entry at
\* most for each Increment whose answer it missed.  It takes three failed
\* heartbeats to void this: neither one or two of them, nor a P or V the server
\* refused, nor whatever the other clients do or fail to do takes a unit away
\* from its holder.
BelievedListed ==
  \A u \in Live, o \in Owners :
    missed[o] < 3 => Claimed(o, u) <= sems[u].owners[o] + lostV[o][u]

\* Nothing is in the name of a living client that it does not know of, but for
\* the call it waits for and one unit at most for each Decrement whose answer
\* it missed: Increments that were given up and done, done late, refused or
\* acknowledged for nothing, and units the heartbeat took from it, leave it
\* with too few entries and never with too many.
ListedBelieved ==
  \A u \in Live, o \in Owners :
    up[o] /\ "restart" \notin Faults[o] =>
      sems[u].owners[o] <= Believed(o, u) + (IF Asked(o, u) THEN 1 ELSE 0)
                             + lostP[o][u]

\* The status "Polling Decrement", which a Client.Probe would follow, says where
\* the client waits, and no call waits in the server behind it: until a P about
\* that semaphore throws, which leaves the one behind and maybe the other, or
\* the server is gone.
PollingIsWaiting ==
  ~aborted =>
    \A o \in Owners, u \in UUIDs :
      lostP[o][u] = 0 =>
        /\ u \in polling[o] <=> Asked(o, u)
        /\ \A c \in WaitingOn(u) : c[1] = o => u \in polling[o]

\* The owners DisconnectClient copied are still listed when it increments in
\* their name: nothing that takes an entry away runs beside it.
CopyStillListed ==
  hb.k > 0 => hb.at \in Live /\ hb.k <= sems[hb.at].owners[hb.o]

OS(u) == INSTANCE OwnedSemaphore
           WITH Callers <- Calls, OwnerOf <- [c \in Calls |-> c[1]],
                cur <- sems[u].cur, min <- sems[u].min, max <- sems[u].max,
                owners <- sems[u].owners, waiting <- WaitingOn(u)

\* Each semaphore of the server is an abstract semaphore with an owner list
\* from its Create to its Delete: handlers that lock late, answers nobody waits
\* for, the heartbeat's increments and dying clients add no other change to it,
\* and none of them changes two things at once.
SemaphoresImplement ==
  [][\A u \in UUIDs :
       /\ u \in Live /\ u \in Live' => UNCHANGED OS(u)!osvars \/ OS(u)!OSNext
       /\ u \notin Live /\ u \in Live' => OS(u)!OSInit']_vars

\* A client that is gone does not stay in an owner list.
DeadReclaimed ==
  \A o \in Owners : []<>(up[o] \/ \A u \in Live : o \notin ListedAt(u))

\* A unit given back reaches the semaphore: the Increment of a client gets a
\* thread of the pool, and semsmutex, and its answer.
ReleaseServed ==
  \A c \in Calls : (call[c].pc = "sent" /\ call[c].method = "Increment")
                     ~> call[c].pc \notin {"sent", "lock", "check"}

\* Waiting calls for a semaphore that a client had a unit of when it died, with
\* no call of its own on the way.
Heirs == {c \in Calls : \E u \in Live, o \in Owners :
            /\ c \in WaitingOn(u)
            /\ ~up[o] /\ o \in ListedAt(u)
            /\ \A i \in Slots : call[<<o, i>>].pc = "free"}

\* The unit of a client that died holding it goes on to the call that waits for
\* it: the heartbeat does in the end what the dead client did not.
UnitInherited == \A c \in Calls : c \in Heirs ~> call[c].pc # "waiting"

\* A quit comes to its end, whatever the other clients are doing.
ExitEnds == \A o \in Owners : exiting[o].on ~> ~exiting[o].on

\* Clients whose answers to heartbeats are always in time.
Punctual == {o \in Owners : Faults[o] \cap {"loss", "restart"} = {}}

\* A punctual client whose SafeExit went through leaves no unit behind but those
\* of Decrements whose answers it missed: Increments it gave up and the server
\* did, or does later, without the client counting them, make it no unit too few
\* to give back.
ExitReleases ==
  [][\A o \in Punctual : ExitDone(o) =>
       \A u \in Live : sems[u].owners[o] <= lostP[o][u]]_vars
=============================================================================
