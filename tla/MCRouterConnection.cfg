SPECIFICATION Spec
CONSTANTS
  Backends <- MCBackends
  Namespaces <- MCNamespaces
  Blocks <- MCBlocks
  Prompts <- MCPrompts
  Capacity <- MCCapacity
  Requests <- MCTwoRequests
  Streaming <- MCStreaming
  NamespaceOf <- MCNamespaceOf
  PromptOf <- MCPromptOf
  Limit <- MCLimit
  Flaky <- MCBackends
  Statuses = {200, 500}
  CacheHitWeight = 10
  QueueDepthWeight = 5
  EvictionRiskWeight = 3
INVARIANTS
  ConnectionFailureIs502
