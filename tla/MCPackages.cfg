SPECIFICATION Spec
CONSTANTS
  CacheHitWeight = 10
  QueueDepthWeight = 5
  EvictionRiskWeight = 3
  MaxBackends = 3
  RequestBlocks = 2
  Backends = {"b1", "b2"}
  Namespaces = {"chat:m1", "chat:m2"}
  Blocks = {"x", "y", "z"}
  Prompts <- MCPrompts
  Capacity <- MCCapacity
  MaxClock = 2
  MaxSequence = 9
  BlockSize = 3
  MaxMessages = 2
  TreeBackends = {"b1", "b2"}
  Hashes = {1, 2, 3}
  Paths <- MCPaths
  MaxEvict = 2
  MaxTreeTime = 2
  ModelBackends = {"b1"}
  Capacities = {0, 2, 3}
  Sent <- MCSent
  MaxInserts = 4
  MaxModelTime = 2
INVARIANTS
  TypeOK
  DirectorySound
  RankingsAgree
  MatchIsCommonText
PROPERTIES
  ImplementsLru
  UnusedPackagesSound
CHECK_DEADLOCK FALSE
