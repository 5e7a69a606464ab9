SPECIFICATION LiveSpec
CONSTANTS
  Client = {c, d}
  Key = {k}
  Ref = {1, 2, 3, 4}
  None = None
  TTL <- MCTTL
  Picks = 1
  Target = 1
  MaxTime = 2
INVARIANT CountExact
PROPERTIES NoEarlyExpiry ExpiredGone
