CONSTANTS
  PoolWords = 40
  HdrWords = 4
  Requests <- MCRequests
SPECIFICATION Spec
INVARIANTS
  TypeOK
  UncarvedSound
  UncarvedListSound
  UncarvedRecovers
  CleanIffNothingLive
PROPERTY
  LiveHeadersKept
CHECK_DEADLOCK FALSE
