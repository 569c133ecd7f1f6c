\* Clients that lose calls, quit or miss heartbeats; two calls of each.
SPECIFICATION Spec
CONSTANTS
  a = a
  b = b
  c = c
  sem = sem
  NoUUID = NoUUID
  NoOwner = NoOwner
  Main = Main
  Nobody = Nobody
  Owners <- TwoOwners
  UUIDs <- OneUUID
  SlotsPerOwner = 2
  Faults <- Impatient
  NumThreads = 3
  Params <- Binary
  HBWrap = 4
  MaxHeld = 1
  MaxExtra = 0
  MaxLost = 1
  Commands = {"Create", "Decrement", "Increment", "quit"}
INVARIANTS
  ListedBelieved
  PollingIsWaiting
PROPERTIES
  ExitReleases
