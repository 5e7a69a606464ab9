SPECIFICATION Spec
CONSTANTS
  Byte <- MCByte
  Zero <- MCZero
  Capacity = 3
  DefaultCap = 2
  MaxSent = 7
  MaxPiece = 3
INVARIANT NoByteLost
PROPERTY IsByteStream
