SPECIFICATION Spec
CONSTANTS
  Backends <- MCBackends
  Namespaces <- MCNamespaces
  Blocks <- MCBlocks
  Prompts <- MCPrompts
  Capacity <- MCCapacity
  Requests <- MCRequests
  Streaming <- MCStreaming
  NamespaceOf <- MCNamespaceOf
  PromptOf <- MCPromptOf
  Limit <- MCLimit
  Flaky = {}
  Statuses = {200, 500}
  CacheHitWeight = 10
  QueueDepthWeight = 5
  EvictionRiskWeight = 3
INVARIANTS
  SnapshotPlausible
  NoPhantomAffinity
PROPERTIES
  ImplementsSemaphore
CHECK_DEADLOCK FALSE
