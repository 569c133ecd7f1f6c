\* Who reports a deadlock.
SPECIFICATION Spec
CONSTANTS
  a = a
  b = b
  c = c
  d = d
  s = s
  t = t
  Nobody = Nobody
  Clients <- MCClients
  Sems <- MCSems
  AddressOf <- MCAddressOf
  Initiators <- MCOneInitiator
  Returns <- MCReturns
  Askers <- MCAskers
  Users <- MCUsers
  Mortals <- MCMortals
CHECK_DEADLOCK FALSE
PROPERTIES
  AlarmOnlyToInitiator
