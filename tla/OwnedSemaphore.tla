--------------------------- MODULE OwnedSemaphore ---------------------------
(***************************************************************************)
(* What class Semaphore promises to callers that need not be disciplined:  *)
(* whoever calls, the unit a P gets was on offer, the owner list grows by  *)
(* one with each P from the moment it is asked for, and shrinks by one     *)
(* with each V that puts a unit on offer; a V of an owner that is not      *)
(* listed does nothing.  There are no mutexes and no wake-ups here.        *)
(*                                                                         *)
(* Module Semaphore implements it with its monitor, and module System      *)
(* shows that each semaphore of the server behaves so under the handlers,  *)
(* the heartbeat and the failures of clients: it is what joins the two.    *)
(***************************************************************************)
EXTENDS Integers

CONSTANTS Callers,   \* P calls that may wait at once
          Owners,
          OwnerOf    \* in whose name each of them is made

VARIABLES cur, min, max,  \* min and max never change
          owners,         \* how often each owner is listed
          waiting         \* the calls whose P has not returned

osvars == <<cur, min, max, owners, waiting>>

OSInit == waiting = {} /\ owners = [o \in Owners |-> 0]

ListAs(o) == owners' = [owners EXCEPT ![o] = @ + 1]

TakeUnit == cur > min /\ cur' = cur - 1

Request(c) == /\ c \notin waiting
              /\ waiting' = waiting \cup {c}
              /\ ListAs(OwnerOf[c])
              /\ UNCHANGED <<cur, min, max>>

Grant(c) == /\ c \in waiting
            /\ waiting' = waiting \ {c}
            /\ TakeUnit
            /\ UNCHANGED <<owners, min, max>>

\* A P that returns without having waited.
GrantAtOnce(c) == /\ c \notin waiting
                  /\ TakeUnit
                  /\ ListAs(OwnerOf[c])
                  /\ UNCHANGED <<waiting, min, max>>

GiveBack(o) == /\ owners[o] > 0
               /\ owners' = [owners EXCEPT ![o] = @ - 1]
               /\ cur' = IF cur < max THEN cur + 1 ELSE max
               /\ UNCHANGED <<waiting, min, max>>

OSNext == \/ \E c \in Callers : Request(c) \/ Grant(c) \/ GrantAtOnce(c)
          \/ \E o \in Owners : GiveBack(o)

OSSpec == OSInit /\ [][OSNext]_osvars
=============================================================================
