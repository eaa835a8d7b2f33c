SPECIFICATION FairSpec
CONSTANTS
  Backends <- MCBackends
  UnhealthyAfter = 3
  HealthyAfter = 2
  CounterMax = 3
  TransitionRange = 4
INVARIANTS
  TypeOK
  TransitionsMatchFlag
PROPERTIES
  ImplementsWindow
  FlagFollowsBackend
  ShutdownCompletes
