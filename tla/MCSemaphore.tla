---------------------------- MODULE MCSemaphore ----------------------------
(* Semaphore on small instances: sessions of two owners, one of which has   *)
(* several sessions (a client whose earlier call is still in the server).   *)
EXTENDS Semaphore, TLC

CONSTANTS s1, s2, s3, s4, a, b

MCSessions == {s1, s2, s3, s4}
MCOwners   == {a, b}
MCOwnerOf  == s1 :> a @@ s2 :> a @@ s3 :> b @@ s4 :> b

MCSymmetry == Permutations({s1, s2}) \cup Permutations({s3, s4})
=============================================================================
