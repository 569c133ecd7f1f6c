\* A server or a client, two threads, two SIGINTs beside the one quit raises.
SPECIFICATION FairSpec
CONSTANTS
  CommandLines <- MCCommandLines
  Requests <- MCRequests
  MaxThreads = 2
  MaxSignals = 2
  MaxLate = 2
INVARIANTS
  TypeOK
  DeletedUnused
  NeverStatusZero
  StopHeeded
PROPERTIES
  SignalEnds
  RequestsHarmless
  OnlySoundRequestsCount
