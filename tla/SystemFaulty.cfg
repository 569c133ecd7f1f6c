\* One client dies, comes back, loses calls and misses heartbeats.
SPECIFICATION Spec
CONSTANTS
  a = a
  b = b
  c = c
  sem = sem
  NoUUID = NoUUID
  NoOwner = NoOwner
  Main = Main
  Nobody = Nobody
  Owners <- TwoOwners
  UUIDs <- OneUUID
  SlotsPerOwner = 2
  Faults <- OneFaulty
  NumThreads = 3
  Params <- Binary
  HBWrap = 5
  MaxHeld = 1
  MaxExtra = 0
  MaxLost = 1
  Commands = {"Create", "Decrement", "Increment"}
INVARIANTS
  UnitsBounded
  BelievedListed
  CopyStillListed
PROPERTIES
  SemaphoresImplement
