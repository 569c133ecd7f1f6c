------------------------------ MODULE MCSystem ------------------------------
(* System on small instances: the parameters of the semaphores.             *)
EXTENDS System, TLC

CONSTANTS a, b, c, sem

\* One unit.
Binary   == {[cur |-> 1, min |-> 0, max |-> 1]}
\* Two units; created above its max; created below its min; refused.
Mixed    == {[cur |-> 2, min |-> 0, max |-> 2], [cur |-> 2, min |-> 0, max |-> 1],
             [cur |-> 0, min |-> 1, max |-> 2], [cur |-> 0, min |-> 0, max |-> 1]}

ThreeOwners == {a, b, c}
TwoOwners   == {a, b}
OneUUID     == {sem}

NoFaults   == [o \in Owners |-> {}]
AllCrash   == [o \in Owners |-> {"crash"}]
AllDieIdle == [o \in Owners |-> {"idle crash"}]
\* Client a dies; b misses heartbeats.
OneDies    == [o \in Owners |-> IF o = a THEN {"crash"} ELSE {"loss"}]
\* The calls of a time out or break; b misses heartbeats.
Impatient  == [o \in Owners |-> IF o = a THEN {"timeout", "broken"} ELSE {"loss"}]
\* Client a fails in every way.
OneFaulty  == [o \in Owners |-> IF o = a THEN FaultKinds \ {"idle crash"} ELSE {}]
OwnerSymmetry == Permutations(Owners)
=============================================================================
