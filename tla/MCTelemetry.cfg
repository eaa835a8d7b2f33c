SPECIFICATION Spec
CONSTANTS
  Requests <- MCRequests
  Failed = {"r1", "r2"}
  Streaming = {"r2", "r3"}
  CacheHits = {"r3"}
  Capacity = 2
  Readers = {"s"}
INVARIANTS
  TypeOK
  RecentIsNewest
  IdsFollowRealTime
  SummaryBracketed
PROPERTIES
  ImplementsLog
CHECK_DEADLOCK FALSE
