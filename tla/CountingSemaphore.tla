------------------------- MODULE CountingSemaphore -------------------------
(***************************************************************************)
(* What a caller of the P and V operations may rely on: at most Capacity   *)
(* sessions hold a unit at the same time, a unit is handed only to a       *)
(* session that asked for one, and only its holder gives it back.  There   *)
(* is no mutex, no condition variable and no list of owners here; module   *)
(* Semaphore is shown to implement this one.                               *)
(***************************************************************************)
EXTENDS Integers, FiniteSets

CONSTANTS Sessions,   \* one P call and the unit it obtains
          Capacity    \* units that can be out at once

VARIABLES holders,    \* sessions that have a unit
          waiters     \* sessions whose P has not returned

csvars == <<holders, waiters>>

Free == Cardinality(holders) < Capacity

CSInit == holders = {} /\ waiters = {}

Request(s) == /\ s \notin holders \cup waiters
              /\ waiters' = waiters \cup {s}
              /\ UNCHANGED holders

Grant(s) == /\ s \in waiters
            /\ Free
            /\ holders' = holders \cup {s}
            /\ waiters' = waiters \ {s}

TryGrant(s) == /\ s \notin holders \cup waiters
               /\ Free
               /\ holders' = holders \cup {s}
               /\ UNCHANGED waiters

GiveBack(s) == /\ s \in holders
               /\ holders' = holders \ {s}
               /\ UNCHANGED waiters

CSNext == \E s \in Sessions :
             Request(s) \/ Grant(s) \/ TryGrant(s) \/ GiveBack(s)

CSSpec == CSInit /\ [][CSNext]_csvars
=============================================================================
