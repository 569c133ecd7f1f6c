\* A semaphore created above its MaxVal, called in every order, with waiting calls that go on.
SPECIFICATION FairSpec
CONSTANTS
  s1 = s1
  s2 = s2
  s3 = s3
  s4 = s4
  a = a
  b = b
  NoThread = NoThread
  Sessions <- MCSessions
  Owners <- MCOwners
  OwnerOf <- MCOwnerOf
  CurrentVal = 2
  MinVal = 0
  MaxVal = 1
INVARIANTS
  TypeOK
  DecisionStillHolds
  CurInRange
  EntriesJustified
  NoLostWakeup
PROPERTY
  Progress
  ImplementsOwned
