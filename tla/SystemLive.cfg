\* One client dies in the middle of whatever it does, the other misses heartbeats.
SPECIFICATION FairSpec
CONSTANTS
  a = a
  b = b
  c = c
  sem = sem
  NoUUID = NoUUID
  NoOwner = NoOwner
  Main = Main
  Nobody = Nobody
  Owners <- TwoOwners
  UUIDs <- OneUUID
  SlotsPerOwner = 1
  Faults <- OneDies
  NumThreads = 2
  Params <- Binary
  HBWrap = 4
  MaxHeld = 1
  MaxExtra = 0
  MaxLost = 1
  Commands = {"Create", "Decrement", "Increment", "quit"}
PROPERTIES
  DeadReclaimed
  ReleaseServed
  UnitInherited
  ExitEnds
