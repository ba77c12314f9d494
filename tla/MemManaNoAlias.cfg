CONSTANTS
  PoolWords = 40
  HdrWords = 4
  Requests <- MCRequests
SPECIFICATION Spec
INVARIANT
  MallocNoAlias
CHECK_DEADLOCK FALSE
