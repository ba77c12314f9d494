CONSTANTS
  PoolWords = 40
  HdrWords = 4
  Requests <- MCRequests
SPECIFICATION Spec
INVARIANT
  CleanPoolIsWhole
CHECK_DEADLOCK FALSE
