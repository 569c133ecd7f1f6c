\* Who is told of a deadlock, and that probes end.
SPECIFICATION FairSpec
CONSTANTS
  a = a
  b = b
  c = c
  d = d
  s = s
  t = t
  Nobody = Nobody
  Clients <- MCClients
  Sems <- MCSems
  AddressOf <- MCAddressOf
  Initiators <- MCInitiators
  Returns <- MCReturns
  Askers <- MCAskers
  Users <- MCUsers
  Mortals <- MCMortals
CHECK_DEADLOCK FALSE
INVARIANTS
  TypeOK
PROPERTIES
  ProbesDrain
  DeadlockTold
  
