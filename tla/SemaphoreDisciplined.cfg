\* A semaphore of two units whose callers give back only what they hold.
SPECIFICATION Spec
CONSTANTS
  s1 = s1
  s2 = s2
  s3 = s3
  s4 = s4
  a = a
  b = b
  NoThread = NoThread
  Sessions <- MCSessions
  Owners <- MCOwners
  OwnerOf <- MCOwnerOf
  CurrentVal = 2
  MinVal = 0
  MaxVal = 2
INVARIANTS
  Exclusion
  NoUnitLost
  EntriesExact
PROPERTY
  Implements
