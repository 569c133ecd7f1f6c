# A specification of SR_srv_semaforow

SR_srv_semaforow is a semaphore server. Clients create and delete counting
semaphores over HTTP and JSON, take units of them with P
(`Locks.DecrementSemaphore`, which waits as long as it takes) and give them back
with V (`Locks.IncrementSemaphore`). The server takes back the units of clients
that no longer answer, and probes sent from client to client are meant to find
deadlocks. This directory holds a TLA+ model of it, the configurations TLC
checks it with, and proofs checked by TLAPS. `PROJECT.json` maps every
definition to the lines it models.

## The system's parts

| Part | State | Operations | Talks to |
|---|---|---|---|
| `Semaphore` (semaphore.cpp) | `cur`, `min`, `max`, `owners`; `mutex_`, `varsmutex_`, `condition_` | `increment`, `decrement`, `try_decrement`, getters | called by handler threads and by the main thread |
| `Server` (server.cpp) | `sems` under `semsmutex`; a pool of threads (4 by default) | the `Locks.*` handlers | calls `Semaphore`; calls clients back (`CheckClient`, `Client.Probe`) |
| Heartbeat (server.cpp) | `ohbcount`, main thread only | `HeartbeatScan` every fifth second, `DisconnectClient` | calls clients; increments semaphores in their name |
| `Client` (client.cpp) | `sems`: `value` and `status` per UUID; `deadlock` | `Send_*`, `SafeExit` | calls the server, one blocking call at a time |
| `ClientConsole` (clientconsole.cpp) | none | one command line at a time; quit | calls `Client` |
| `ClientServer` (clientserver.cpp) | none | `Maintenance.Heartbeat`, `Client.Probe` | called by the server, on threads of its own |
| `AbstractServer`, helpers | none | checks on a request, JSON, UUIDs | between HTTP and the handlers |
| `main`, `Servicable` | `service`, `_stop`, `quittingthread` | start, SIGINT, stop, join, delete | everything |
| bash client (bash-implementation/) | a state file under `flock` | the same commands from a shell | the server |

What is hard in it:

- *Two mutexes per semaphore.* `varsmutex_` is released between a test of `cur`
  and what is done about it; `mutex_` alone keeps the answer true, and
  `notify_one` alone keeps waiting threads from sleeping for ever.
- *The owner list does two jobs.* `decrement` lists an owner before it has a
  unit, so that the heartbeat can wake it; but what is listed is also what the
  heartbeat takes back.
- *A wait occupies a thread.* Long polling keeps a thread of a small pool, and
  `semsmutex` is held across a call back to the client.
- *Deletion under a waiter.* `DecrementSemaphore` uses an iterator after the
  lock that protects it is gone.
- *The client keeps its own account*, `value`, which `SafeExit` trusts, and
  calls may be done and not counted (a timeout, or a connection that breaks with
  the server alive), or counted and not done (an acknowledged Increment of an
  owner that is not listed).
- *Processes die* at any point of any call, and one that comes back at the same
  address is the same owner to the server.
- *Probes* follow waits that change while they travel.
- *SIGINT* comes on any thread, before there is a service, during its `stop()` or
  after it is deleted, and a quit raises one of its own. Pool threads are joined
  although one may wait for a unit for ever; a watchdog is the way out.
- *Requests* arrive with anything in them, and an exception in a handler is an
  exception in a thread of the pool; one of the JSON parser is outside every catch.

What would make each part correct, whether it is or not:

- the semaphore: mutual exclusion, no unit lost or made, no lost wake-up, an
  owner list that says who has what;
- the server: what a living client was granted is in its name and stays its own;
  every V is served; nothing is left in the name of the dead;
- the heartbeat: it takes back what the dead had, once, and nothing else;
- the client: `value` agrees with the server; a clean exit leaves nothing taken;
- the probes: every deadlock asked about is reported, only those are, no probe
  about one is dropped, and probes end;
- the process: it ends when told to, and deletes nothing that is in use; no
  request ends it.

## The modules

| Module | What it models |
|---|---|
| `CountingSemaphore` | the promise: P and V on a bounded number of units, with no mutex and no list |
| `OwnedSemaphore` | the promise to callers of any kind: `cur`, the owner list and the waiting calls, changed by whole requests |
| `Semaphore` | the class: each `varsmutex_` section is a step, so `decrement` is `Enter`, `Test`, then `Block`, `Reacquire`, `Test` ... or `Take` |
| `Network` | HTTP calls between clients and server: sent, in a handler, answered, given up |
| `Server` | the handlers, the pool, `semsmutex`, the heartbeat |
| `Client` | the console's commands and answers, `value`, `SafeExit`, crash, restart, timeout, broken connection |
| `System` | `Server` and `Client` over `Network`, and the properties that relate them |
| `Probe` | `Locks.Probe` and `Client.Probe` over an abstraction of who has and who waits for what |
| `Request` | one HTTP request: the checks, the parser, the handler and its fields, the answer; operators only |
| `Process` | one process from its command line to its end: main, the pool that serves `Request`s, SIGINT, the watchdog |
| `SemaphoreProofs`, `ProbeProofs`, `ProcessProofs` | theorems about the module of that name |
| `SystemProofs` | theorems about `System`: types, `semsmutex`, the calls, the scan; what the next three start from |
| `UnitProofs` | each semaphore of the server implements `OwnedSemaphore`, and what that says of its units |
| `ClaimProofs` | what a client believes against what is in its name: status, `value`, `SafeExit` |
| `ExclusionProofs` | conservation and exclusion across the whole system |
| `MCSemaphore`, `MCSystem`, `MCProbe`, `MCProcess` | the values of the small instances |

**Semaphore.** `owners` is a bag as a function from owners to counts: the code
looks for an element, removes one or lists the distinct ones, and never uses the
order. A *session* is one `decrement` call and the unit it obtains. `Spec` has
callers that give back only what they hold; `AnySpec` adds `StrayIncrement`,
an `increment` by an owner that has nothing, or that is only waiting, which is
what surplus V calls and the heartbeat do.

**OwnedSemaphore.** `CountingSemaphore` promises something to callers that give
back only what they hold. `OwnedSemaphore` is what is left for callers of any
kind: a request lists its owner once, a grant takes one unit and needs one, and
a unit goes back only with an entry of its owner. Both levels implement it: the
monitor step by step (`ImplementsOwned`), and each semaphore of the server
(`SemaphoresImplement`). The two are separate results: that `Server` may take a
semaphore in whole steps because `Semaphore` implements the same abstraction is
the argument of this README, and no formal composition of the two levels.

**Server.** Here a semaphore is taken in whole steps: `decrement` keeps `mutex_`
from its `push_back` to its wait or its `--cur`, and everything else needs
`mutex_`, so `Enter` and `Wake` are one step each. `Wake` needs no notification:
that a waiting call can be granted whenever a unit is free is what `NoLostWakeup`
and `Progress` of `Semaphore` say. A call keeps its pool thread from `Accept` to
its answer. `LookUp` takes `semsmutex`; `CheckFails`, `CheckDecrement` and
`CheckIncrement` are the outcomes of the call back made under it. `Delete` turns
calls inside `decrement` into *dangling* ones, whose undefined behaviour is one
of three: they return as if granted, the process dies, or they hang.
`DisconnectClient` is a lock, one copy of the owners per semaphore, one step per
increment, and an unlock. `ohbcount` is never reset, as in the code.

**Client.** `value` goes down on a P answered with the UUID and up on a V
answered with it, acknowledged whether or not the server did anything. `SafeExit`
reads `value` once per semaphore and sends that many V calls. A call throws when the server is gone, when its
connection breaks, which can happen to any call and with the server alive, or at
its 5 s timeout, which a Decrement has not. The console catches the exception:
the command or the exit in progress is over, `value` and the status
"Polling Decrement" stay as they were, and the request goes on in a server that
lives. The history variables `lostP` and `lostV` count, per client and semaphore,
the P and V calls whose answers are never read, and `missed` of `Server` counts
the heartbeats a client failed, up to three. The properties are stated with them;
no action depends on them but for `MaxLost`, the bound of the first two. The raw `send`
commands, which go round `value`, are left out; so is the case of two requests of
one client in flight by choice, as the console waits for its answer (calls given
up or left behind by a dead process do go on at the server).

**Request and Process.** A field of a request is what the code tells apart: a
known UUID, an unknown one, a missing one (the empty string to `asString`) or a
list or object (an exception); a body that is not an object is an exception too.
A handler comes to plain text, an error, a success, a wait, an exception or
undefined behaviour. An exception of a handler is caught and answered. What the
parser throws at a body that nests deeper than its stack goes is not: `Served`
comes to "throws", and the process ends. `Process` runs them on its
pool; the one semaphore the requests know is there or not, and units are
`Semaphore`'s matter, so a waiting call may be granted at any time or never. A
handler of SIGINT is a thread of control of its own, in four steps: the
watchdog with the test of `quittingthread`, the assignment, `stop()`, and the
second half of `Client::stop()`. Handler 0 is the one quit raises, for which main
waits. The static `quittingthread` is never joined, so its destructor turns
every exit after a SIGINT into an abort (`Exit`). Undefined behaviour (an
unknown UUID in `Locks.Probe`, an address without a port in `Client.Probe`, a
semaphore deleted under a wait, `stop()` of a deleted service, a client of -1
threads) is an end of the process or any other outcome. A listening port that is
taken already, which ends the process when its pool starts, is left out.

**Probe.** The handlers' sends are sequential in the code and one step per
recipient here. A client that is dead stays listed, and the exception of its
call is caught inside the loop (`ClientGone`). `compareAddressesEqual` is
translated test by test.

## The runs

| Run | Instance | What it shows |
|---|---|---|
| `SemaphoreAny` | 4 sessions, 2 owners, created with 2 units above MaxVal 1 | decisions stay valid, `cur` in range, entries have a cause, no lost wake-up, progress, refinement of `OwnedSemaphore`; stray increments included |
| `SemaphoreDisciplined` | 4 sessions, 2 owners, 2 units | exclusion, conservation, exact owner list, refinement of `CountingSemaphore` |
| `SystemSound` | 2 clients that may die between two calls, all commands with Delete and quit, semaphores within, above and below their bounds | conservation, exclusion between clients, belief agrees with the server, the copy `DisconnectClient` works on stays true beside a Delete, every semaphore is an `OwnedSemaphore` |
| `SystemExit` | 2 clients that quit, 2 calls of each at the server; the calls of one break or time out, the other misses heartbeats | the server has no entry its client does not know of but for P calls it lost, the status says where a client waits until a P throws, `SafeExit` leaves nothing but what lost P calls took |
| `SystemFaulty` | 2 clients, one that dies, restarts, loses calls and misses heartbeats, 2 calls of each at the server | what either counts on is listed but for V calls it lost, until it misses three heartbeats; the copy of the owners stays true; no unit appears; refinement |
| `SystemLive` | 2 clients that may quit, one may die and the other miss heartbeats, 2 threads, fairness | the dead are cleared out, their unit goes to the call that waits for it, every V is served, every quit ends, also one whose Increments are refused |
| `ProcessEnds` | 6 command lines, 17 requests, 2 pool threads, 2 SIGINTs and that of quit, fairness | the process ends, deletes nothing in use and never ends cleanly; only four kinds of request can end it |
| `ProbeTold` | 4 clients (one only asks, one may die and stay listed), 2 semaphores, 1 initiator on all interfaces, fairness | deadlocks of two living clients are reported, no step drops a probe about one before, and probes end |
| `WaiterDies` | 3 clients that may die, 1 unit | *violation* of `LiveExclusion` |
| `PoolExhausted` | 3 clients, 2 threads, fairness | *violation* of `ReleaseServed` |
| `ExitAfterExtra` | 2 clients, one surplus Increment | *violation* of `ExitReleases` |
| `FalseAlarm` | 4 clients, 1 initiator | *violation* of `AlarmOnlyToInitiator` |

The four violations are disagreements between the code and what it says of
itself:

1. *WaiterDies.* The comment in `decrement` (semaphore.cpp:77-80) says that it
   does not matter which thread an increment for a dead owner lets out of the
   wait. When the dead owner was itself waiting, it does: the increment is worth
   a unit that nobody had taken, and two living clients hold the only one.
2. *PoolExhausted.* The global mutex is unlocked during long polling, as
   server.cpp:209 says, but the pool thread is not free: with as many waiting P
   calls as threads (4 by default) nothing is served, the V that would end the
   wait included.
3. *ExitAfterExtra.* A V that the semaphore ignored is acknowledged and raises
   `value`, so a later `SafeExit`, which announces that it increments all
   decremented semaphores (client.cpp:275), leaves one taken.
4. *FalseAlarm.* `compareAddressesEqual` is never true and its branches are
   exchanged with respect to the comments (clientserver.cpp:80-85): every
   recipient of a probe reports a deadlock, and none passes it on, although a
   client that waits MUST send a `Locks.Probe` (clientserver.cpp:80-81). So a
   cycle of more than two is never followed; no property claims it is.

What holds is stated with that in mind:

- `LiveExclusion` when clients die only between two calls;
- `BelievedListed` until a client has missed three heartbeats, which need not be
  in a row as `ohbcount` is never reset, and up to `lostV` entries: a V that was
  given up is done and not counted;
- `ListedBelieved` up to `lostP` entries, of clients that were not restarted: a P
  whose connection broke may be granted to a client that does not know;
- `PollingIsWaiting` until a P about that semaphore throws, which leaves the
  status behind for a later probe to follow, and may leave the wait behind too;
- `ExitReleases` without surplus increments, up to `lostP` entries, and of clients
  that are always in time (`Punctual`: an Increment refused after a missed call
  back is taken for done by `SafeExit`);
- `ReleaseServed` with a thread per client, `UnitInherited` with one waiting call;
- `DeadlockTold` says that alarms are raised, not that each is right, and like
  `DeadlockPursued` it is about cycles of two.

Three losses of units are not stated as properties, as nothing but the upper bound
`UnitsBounded` holds of them: the unit the clamp in `increment` drops when `cur` is
above `max`, the unit a dead waiter's own thread takes, and the units taken from a
client that came back between the failed call and `DisconnectClient`. Nor is the
account of a P or V typed without a UUID (client.cpp:158), which is counted under
the empty name and touches no semaphore.

### Bounds

`SlotsPerOwner`, `Params`, `MaxHeld`, `MaxExtra`, `MaxLost`, `Commands`, `Faults`,
`Initiators`, `Returns`, `Askers`, `Users`, `Mortals`, `CommandLines`,
`Requests`, `MaxThreads`, `MaxSignals`, `MaxLate` and the sizes of the sets are
the bounds; each is a constant that its module names as such. `UUIDsUsedUp`
answers a Create with an error when the instance has no UUID left.

Three clients are the least at which a third takes what a dead waiter's
increment put on offer; four, in `ProbeTold`, the least at which there is a
deadlock, a dead waiter on the same list and a user who is free to ask. Two
sessions per owner are the least at which the owner list holds one owner twice;
two slots the least at which an old call of a client is in the server beside a
new one. Two SIGINTs are the least that race for `quittingthread`, and two
threads the least at which one request deletes the semaphore another waits for;
the default of 4 threads is cut to `MaxThreads`. The requests of `ProcessEnds`
are in order but for one thing at a time.

One lost P and one lost V per client and semaphore (`MaxLost`) are the least that
make the terms `lostP` and `lostV` of the properties count; the theorems hold for
any number.

`HBWrap`, where the failure count wraps, is 256 in the code and 5 in the
instances, 4 in `SystemExit` and `SystemLive`: above the threshold of 3, so the count passes the threshold, wraps
below it and passes it again. The model's callers may hold one unit of a
semaphore, two in `SystemSound`. Symmetry in the clients is used only in runs
without liveness.

### Fairness

- `Semaphore`: a thread inside a call goes on, and gets a `mutex_` that stays
  free (weak fairness per session). No fairness for new calls or for giving back.
- `Server`: requests are served in order and a thread blocked on `semsmutex`
  gets it in the end although others take it in between (strong fairness of
  `Accept`, of the locking step of each handler and of the scan). `std::mutex`
  promises less on paper; this is what threads that hold it for a bounded time
  see on a preemptive scheduler. A waiting P is granted if its semaphore goes on
  having units: some waiting call, not each.
- The heartbeat loop of `Server::run` never ends by itself, so its steps are fair.
- `Client`: it reads its answers and sees `SafeExit` through. Users type what
  they like, when they like: no fairness of commands, failures or restarts.
- `Probe`: the handlers of probes go on.
- `Process`: time passes for the watchdog, and a handler of SIGINT that has begun
  goes on. The second is an assumption: it prints and allocates, which a handler
  must not, and could wait for a lock of the thread it interrupted. Nothing is
  assumed of main, the pool or the user.

Deadlock is checked except where the system may really stop: in `SystemSound`
and `ExitAfterExtra` every client may have quit or wait for units that nobody
holds any more, and in the `Probe` runs clients may block each other for ever,
which is the subject.

## What is proved

In `SemaphoreProofs`, for any number of sessions and owners and any values that
`CreateSemaphore` lets through:

- `TypeCorrect`, `DecisionsHold`, `CurStaysInRange`, `EntriesAreJustified` and
  `WakeupsNotLost`, for callers of any kind (`AnySpec`). The inductive invariant
  `MonitorInv` joins the type invariant with the discipline of `mutex_`: the one
  thread in `test`, `block` or `take` is the one that has it. From that, a
  decision on `cur` can be undone by nobody else, and `cur` does not fall below
  the bound a `Take` was decided on; the clamp in `increment` bounds it above.
  `NoLostWakeup` is inductive beside it, by counting: an increment that adds a
  free unit while a thread sleeps also adds an awake thread, and a thread that
  goes to sleep saw no free unit. `EntriesJustified` is inductive beside the
  type invariant.
- `MutualExclusion`, `UnitsNotLost` and `EntriesAreExact`, for callers that give
  back only what they hold (`Spec`). `EntriesExact` makes every `Release` find its
  entry; conservation of `cur` plus the held units follows, and exclusion from it.
- `Refinement`: `Spec` implements `CountingSemaphore`, with the sessions in
  `holding` as holders and those inside a call as waiters. `Take` maps to `Grant`,
  `Enter` to `Request`, `TryDecrement` to `TryGrant`, `Release` to `GiveBack`, and
  the rest to stuttering; exclusion of the state *after* the step gives the guard
  `Free` of the state before it.
- `OwnedRefinement`: `AnySpec` implements `OwnedSemaphore`, whoever calls. `Enter`
  maps to `Request`, `Take` to `Grant` with the decision of `DecisionStillHolds` as
  its guard, `TryDecrement` to `GrantAtOnce`, each increment to `GiveBack`, of which
  a call without an entry is a stutter.

In `ProbeProofs`, for any clients, semaphores and addresses: the type invariant
and `DeadlockIsPursued`, the safety half of `DeadlockTold`. No call gets two
clients that block each other out of each other's way (`EmbraceKept`), so both
stay in the owner lists. The copy of the owners leaves out only one client, and
the other is still to be told (`CopyPursues`); a client that is told reports, or
passes the probe on to what it waits for (`ClientPursues`); a dead client is
passed over and no more (`GonePursues`). Nothing is assumed of
`compareAddressesEqual`: the theorem would survive its repair. The assumptions are
the named `ASSUME`s of each module, which TLC evaluates in every run.

In `ProcessProofs`, for any command line, pool, requests and number of SIGINTs.
`TypeOK` and the properties say too little to be inductive: nothing in
`DeletedUnused` tells where main has to be. `ProcessInv` adds

- `StopInv` and `PlaceInv`: main leaves its loop only after a stop, a stop only
  comes from a handler that has assigned `quittingthread`, and `service` is null,
  a pointer or deleted by the place main is at;
- `DrainInv`: after the HTTP server is stopped no thread is idle, and past the
  join every thread is done. `DeletedWhenUnused` follows. So does `NoCleanEnd`,
  with `stopped => joinable`: main returns only with a thread to abort on;
- `HandlerInv`, `LateInv`: what a handler that is alone can have done, that the
  handler of quit runs only while main is at its `raise`, and that a second line
  is read only by a console that has not seen its stop (`StopIsHeeded`);
- `WaitInv`: only an admitted P of the known semaphore waits.

`RequestsAreHarmless` and `SoundRequestsCount` go through the operators of
`Request`, case by case of what a field may be.

About `System`, each module rests on the one before, for any clients, faults,
calls per client, pool threads, semaphores and bounds:

1. *`SystemProofs`.* `ServerInv` joins the types with who has `semsmutex` (the
   one call in its call back, or the main thread in `DisconnectClient`), with what
   a call has found out and relies on (a P inside `decrement` has a semaphore that
   lives; only a P is dangling), and with what the scan has still to do.
   `CopyStays` needs all of it: every other removal of an owner is made under
   `semsmutex`, so what `DisconnectClient` copied is still there when it
   increments.
2. *`UnitProofs`.* `SemaphoreStep`: between its Create and its Delete a semaphore
   makes only steps of `OwnedSemaphore`, and it is new with its initial units
   (`SemaphoresAreOwned`). What follows is then said of these four kinds of step
   and not of every action of the system: each of them keeps `cur` and the entries
   within `CurrentVal` and the waiting calls (`NoUnitFromNowhere`), and `cur` above
   the lower of `min` and its start (`CounterInv`).
3. *`ClaimProofs`.* `StatusIsRight` needs `ConnInv`, that a client waits only for
   calls the server still has, and `LateInv`, that a Decrement its client does not
   wait for is one it lost. For `value`, the client's account is corrected by the
   answers it has not read yet: `Balance` is what it believes, plus a P that is
   listed, minus a V that is done. `AccountStep` shows that balance and owner list
   move together, except for calls that were given up and are done late, and for
   what the heartbeat takes back. Calls given up less those that are still late are
   the `Settled` ones, and there are never fewer than none (`PendInv`). `MissedInv`
   says that the failure count agrees with `missed` below three, and that the
   heartbeat is at work only against who failed three. From there:
   `LowInv` (balance at most what is listed and the settled V calls) gives
   `CountedOnIsListed`; `SurplusInv` (no client means to give back more than it was
   granted) and `KnownInv` (what is listed at most the balance and the settled P
   calls) give `ListedIsKnown`; `ExitInv` (of the semaphores `SafeExit` is through
   with, at most what is `Due` is listed: what it still owes or is giving back, and
   the settled P calls) gives `ExitLeavesNothing`.
4. *`ExclusionProofs`.* `CalmInv`: the server has no call but those its clients
   wait for, a client waits for one at a time, and the living have lost no call and
   missed no heartbeat. Who gives back then has an entry
   that is not that of a wait, so more is listed than waits, `cur` is below `max`
   and the clamp in `increment` swallows nothing: `NoUnitIsLost`. For
   `MutualExclusion`, what the living count on and the waiting calls are entries of
   their own, so the former are at most `CurrentVal - cur`, and with `CounterInv` at
   most `CurrentVal - MinVal`.

Two hypotheses are added to the assumptions of the modules, and both are needed:
the run in brackets refutes `ExitReleases`, or `LiveExclusion`, without them.

- `MaxExtra = 0`, in `ListedIsKnown` and `ExitLeavesNothing`: users give back no
  more than they were granted (`ExitAfterExtra`).
- `Calm`, in `NoUnitIsLost` and `MutualExclusion`: clients may die, any number of
  them, but between two calls; no call times out or breaks, and no call back is
  missed (`WaiterDies`).

Proving changed the model in two places: a request whose body is JSON but no object
throws on its first field, which the first version did not say; and the copies of
units, once indexed by natural numbers, are a set of pairs that is counted.

Only model-checked, as liveness under fairness is outside what the installed
provers can do: `Progress` of `Semaphore`; `DeadReclaimed`, `ReleaseServed`,
`UnitInherited` and `ExitEnds` of `System`; `SignalEnds` of `Process`;
`ProbesDrain` and `DeadlockTold` of `Probe`. Every safety property that a passing
run checks, invariant, action property or refinement, has a theorem.

## What is not modelled, and the plan

| Order | Part | What is to be stated |
|---|---|---|
| 1 | what a lost unit means | how many units can be lost or too many: a bound by the waiting calls of the dead, without `Calm` |
| 2 | `SafeExit` under surplus | what `ExitReleases` leaves when `MaxExtra > 0`: no more than the extra Increments |

The bash client is not modelled: it cannot work as it is. Its P and V send
`owner` where the server reads `Owner` and get an error; `_sr_lock` truncates the
state file before it has the lock and then reads it inside a function, where its
declarations are local and gone at the return; `_sr_unlock` closes another
descriptor than the one locked. A model would be one of bash's scoping rules.

Left out for good: the text of JSON and HTTP, UUID generation (a fresh value
from a finite set), logging, Docker and make files, the bash server stubs, and
cpp-netlib itself, which `Network` models by how the code uses it.
