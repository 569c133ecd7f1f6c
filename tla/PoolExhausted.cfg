\* More clients than threads in the pool.
SPECIFICATION FairSpec
CONSTANTS
  a = a
  b = b
  c = c
  sem = sem
  NoUUID = NoUUID
  NoOwner = NoOwner
  Main = Main
  Nobody = Nobody
  Owners <- ThreeOwners
  UUIDs <- OneUUID
  SlotsPerOwner = 1
  Faults <- NoFaults
  NumThreads = 2
  Params <- Binary
  HBWrap = 5
  MaxHeld = 1
  MaxExtra = 0
  MaxLost = 1
  Commands = {"Create", "Decrement", "Increment"}
PROPERTIES
  ReleaseServed
