----------------------------- MODULE MCProcess -----------------------------
(* Process on small instances: ways to start it, and requests in which one   *)
(* thing at a time is not in order.                                          *)
EXTENDS Process

Usual == [unclear |-> FALSE, help |-> FALSE, type |-> "server",
          serverurl |-> TRUE, threads |-> Unset]

MCCommandLines ==
  {Usual,
   [Usual EXCEPT !.threads = -1],                        \* a server of no threads
   [Usual EXCEPT !.type = "client", !.threads = 1],
   [Usual EXCEPT !.type = "client", !.threads = -1],     \* a client of too many
   [Usual EXCEPT !.type = "client", !.serverurl = FALSE],
   [Usual EXCEPT !.unclear = TRUE]}

InOrder(method) ==
  [http |-> "POST", ctype |-> "application/json", path |-> "/v1", body |-> "object",
   method |-> method, params |-> "list", uuid |-> "known", owner |-> "alive",
   cur |-> 1, min |-> 0, max |-> 1, initiator |-> "ip:port"]

Creates == LET c == InOrder("Locks.CreateSemaphore")
           IN {c, [c EXCEPT !.min = 2, !.max = 1], [c EXCEPT !.cur = OutOfRange],
               [c EXCEPT !.min = NotAString]}

Decrements == LET d == InOrder("Locks.DecrementSemaphore")
              IN {d, [d EXCEPT !.owner = Missing], [d EXCEPT !.uuid = Missing]}

Increments == LET i == InOrder("Locks.IncrementSemaphore")
              IN {i, [i EXCEPT !.owner = "dead"], [i EXCEPT !.http = "other"],
                  [i EXCEPT !.body = "list"], [i EXCEPT !.body = "too deep"],
                  [i EXCEPT !.body = "too deep", !.ctype = Missing]}

Probes == LET p == InOrder("Client.Probe")
          IN {p, [p EXCEPT !.initiator = "no colon"],
              [InOrder("Locks.Probe") EXCEPT !.uuid = "unknown"]}

MCRequests == Creates \cup Decrements \cup Increments \cup Probes
                \cup {InOrder("Locks.DeleteSemaphore"),
                      [InOrder("Maintenance.Hello") EXCEPT !.body = "list"]}
=============================================================================
