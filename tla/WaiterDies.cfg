\* Clients die: one that waits costs another its exclusive unit.
SPECIFICATION Spec
CONSTANTS
  a = a
  b = b
  c = c
  sem = sem
  NoUUID = NoUUID
  NoOwner = NoOwner
  Main = Main
  Nobody = Nobody
  Owners <- ThreeOwners
  UUIDs <- OneUUID
  SlotsPerOwner = 1
  Faults <- AllCrash
  NumThreads = 3
  Params <- Binary
  HBWrap = 5
  MaxHeld = 1
  MaxExtra = 0
  MaxLost = 1
  Commands = {"Create", "Decrement", "Increment"}
SYMMETRY OwnerSymmetry
INVARIANTS
  LiveExclusion
