SPECIFICATION FairSpec
CONSTANTS
  Node = {n1, n2}
  MaxConnections = 3
  MaxRequests = 3
  MaxBoot = 2
  MaxDepartures = 1
CHECK_DEADLOCK FALSE
INVARIANTS
  TransportTypeOK
  RegistryHoldsHandledSockets
  NothingElseIsLostInPeace
  ProcessesSurviveInPeace
  CountCoversRegistry
PROPERTIES
  ImplementsNetwork
  StoppedServesNobody
  ClosureIsNoticed
