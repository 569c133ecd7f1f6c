------------------------------ MODULE MCProbe ------------------------------
(* Probe with clients that block each other and a fourth that asks.         *)
EXTENDS Probe, TLC

CONSTANTS a, b, c, d, s, t

MCClients == {a, b, c, d}
MCSems    == {s, t}
Local(port)  == [ip |-> "127.0.0.1", port |-> port]
MCAddressOf  == a :> Local(7891) @@ b :> Local(7892) @@ c :> [ip |-> AnyIP, port |-> 7893]
                  @@ d :> Local(7894)

\* The address of a client that listens on every interface; that of another one.
MCInitiators   == {[ip |-> AnyIP, port |-> 7893]}
MCOneInitiator == {Local(7891)}
MCReturns    == {a, d}
MCAskers     == {d}
MCUsers      == {a, b, c}
MCMortals    == {c}
=============================================================================
