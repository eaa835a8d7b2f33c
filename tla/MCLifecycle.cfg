SPECIFICATION FairSpec
CONSTANTS
  Requests <- MCRequests
INVARIANTS
  TypeOK
  SuccessIsClean
PROPERTIES
  ProcessEnds
CHECK_DEADLOCK FALSE
