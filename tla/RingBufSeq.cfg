CONSTANTS
  Size = 4
  WordMod = 16
  Byte = {0, 1}
  MaxReq = 4
SPECIFICATION RingSpec
INVARIANT
  SeqLensUsable
