CONSTANTS
  BufferSize = 2
  WordMod = 6
  Letters = {"a"}
  Garbage = {"g"}
  FirstIdx = {0}
  MaxInput = 2
SPECIFICATION Spec
PROPERTIES
  EscapeIgnored
CHECK_DEADLOCK FALSE
