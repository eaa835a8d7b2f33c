SPECIFICATION Spec
CONSTANTS
  Requests <- MCRequests
INVARIANTS
  InFlightAreDrained
CHECK_DEADLOCK FALSE
