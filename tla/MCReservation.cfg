SPECIFICATION FairSpec
CONSTANTS
  Backends <- MCBackends
  Clients <- MCClients
  MaxConcurrent <- MCMaxConcurrent
  DefaultMaxConcurrent = 1
INVARIANTS
  TypeOK
  CounterIsHolders
  LimitRespected
PROPERTIES
  ImplementsSemaphore
  LockFree
