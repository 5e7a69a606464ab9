SPECIFICATION SpecMove
CONSTANTS
  a = a
  b = b
  c = c
  a1 = a1
  b1 = b1
  c1 = c1
  k1 = k1
  k2 = k2
  k3 = k3
  k4 = k4
  k5 = k5
  v1 = v1
  v2 = v2
  v3 = v3
  v4 = v4
  v5 = v5
  None = None
  Node = {a1, b1, c1}
  Proc = {a, b, c}
  Slot <- MCSlot
  NumSlots = 4
  Rank <- MCRank
  Home <- MCHome
  FirstId <- MCFirstId
  Starts <- MCStarts
  Key = {k1, k2, k3, k4, k5}
  KeySlot <- MCKeySlot
  Value = {v1, v2, v3, v4, v5}
  Odd = {v5}
  Stored <- MCStored
  MaxList = 4
PROPERTY KeysKept
