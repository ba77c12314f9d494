CONSTANTS
  BufferSize = 2
  WordMod = 6
  Letters = {"a"}
  Garbage = {"g"}
  FirstIdx = {0, 1, 2, 3, 4, 5}
  MaxInput = 2
  TxSize = 3
  MaxLen = 4
  MaxSent = 7
  NumMod = 256
  LongMod = 30000
  Typed <- MCTyped
  MaxText = 5
  Texts <- MCTexts
  Descs <- MCDescs
  MaxLine = 6
  help = help
  c1 = c1
  c2 = c2
  c3 = c3
  Commands <- MCCommands
  Builtins <- MCBuiltins
  Buckets = {0, 1}
  Hash <- MCHash
  Nodes = {n1, n2}
  NULL = null
  Ok = ok
  NoMem = nomem
  NotFound = notfound
  MaxRejected = 1
SPECIFICATION PartsSpec
INVARIANTS
  TypeOK
  PartsTypeOK
  NothingLost
  NeverRepeated
  NumsRight
  DoublesRight
  ArgsAreTokens
  LeavesLineAtEmptyQuotes
  MemoryReturned
  HelpComplete
PROPERTIES
  ActsAsTerminal
  CursorStaysInside
  ExcessIsBrief
  StrReturns
CHECK_DEADLOCK FALSE
