CONSTANTS
  Size = 4
  WordMod = 16
  Byte = {0, 1}
  MaxReq = 4
  k1 = k1
  k2 = k2
  k3 = k3
  k4 = k4
  i1 = i1
  i2 = i2
  Keys <- MCKeys
  Values = {1, 2}
  Buckets = {0, 1}
  Hash <- MCHash
  Nodes = {i1, i2}
  NULL = NULL
  Ok = Ok
  NoMem = NoMem
  NotFound = NotFound
  Bits = 4
  MaxNums = {3, 4, 9}
  BitmapValues = {0, 1, 2, 3, 4, 5, 6, 7, 8, 9, 11, 12}
  Garbage <- MCGarbage
  n1 = n1
  n2 = n2
  n3 = n3
  ListNodes = {h, n1, n2, n3}
  First = h
  NoNode = null
  MaxVisits = 6
SYMMETRY MCSymmetry
SPECIFICATION Spec
INVARIANT
  KeepsUpToMax
CHECK_DEADLOCK FALSE
