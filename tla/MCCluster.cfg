SPECIFICATION Spec
CONSTANTS
  a = a
  b = b
  r = r
  q = q
  a1 = a1
  b1 = b1
  b2 = b2
  r1 = r1
  q1 = q1
  s1 = s1
  None = None
  Node = {a1, b1, b2, r1, q1}
  Proc = {a, b, r, q}
  Slot = {s1}
  Rank <- MCRank
  Home <- MCHome
  FirstId <- MCFirstId
  Starts <- MCStarts
INVARIANTS TypeInv OwnerHasBit ClaimsOnlyServed VotesOnce
