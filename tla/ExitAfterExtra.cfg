\* A client that made one Increment too many.
SPECIFICATION Spec
CONSTANTS
  a = a
  b = b
  c = c
  sem = sem
  NoUUID = NoUUID
  NoOwner = NoOwner
  Main = Main
  Nobody = Nobody
  Owners <- TwoOwners
  UUIDs <- OneUUID
  SlotsPerOwner = 1
  Faults <- NoFaults
  NumThreads = 2
  Params <- Binary
  HBWrap = 5
  MaxHeld = 1
  MaxExtra = 1
  MaxLost = 1
  Commands = {"Create", "Decrement", "Increment", "quit"}
CHECK_DEADLOCK FALSE
PROPERTIES
  ExitReleases
