\* Clients die between two calls; every command, and semaphores of every kind.
SPECIFICATION Spec
CONSTANTS
  a = a
  b = b
  c = c
  sem = sem
  NoUUID = NoUUID
  NoOwner = NoOwner
  Main = Main
  Nobody = Nobody
  Owners <- TwoOwners
  UUIDs <- OneUUID
  SlotsPerOwner = 1
  Faults <- AllDieIdle
  NumThreads = 2
  Params <- Mixed
  HBWrap = 5
  MaxHeld = 2
  MaxExtra = 1
  MaxLost = 1
  Commands = {"Create", "Delete", "Decrement", "Increment", "Dump", "quit"}
SYMMETRY OwnerSymmetry
CHECK_DEADLOCK FALSE
INVARIANTS
  TypeOK
  UnitsAccounted
  LiveExclusion
  BelievedListed
  CopyStillListed
PROPERTIES
  SemaphoresImplement
