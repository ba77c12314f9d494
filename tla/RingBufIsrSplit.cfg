CONSTANTS
  Size = 4
  WordMod = 16
  Setups <- MCSplitSetups
  MaxReq = 3
  MaxBytes = 8
SPECIFICATION Spec
INVARIANTS
  CountHolds
CHECK_DEADLOCK FALSE
