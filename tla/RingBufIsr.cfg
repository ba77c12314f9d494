CONSTANTS
  Size = 4
  WordMod = 16
  Setups <- MCSafeSetups
  MaxReq = 3
  MaxBytes = 8
SPECIFICATION LiveSpec
INVARIANTS
  TypeOK
  CountHolds
PROPERTIES
  ImplementsFifo
  Delivered
CHECK_DEADLOCK FALSE
