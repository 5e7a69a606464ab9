SPECIFICATION Spec
CONSTANTS
  a = a
  b = b
  w1 = w1
  w2 = w2
  k1 = k1
  k2 = k2
  Node = {a, b}
  Writer = {w1, w2}
  Attach <- MCAttach
  ShardOrder <- MCShardOrder
  ChanCap = 1
  Budgets <- MCBudgets
  MaxLoops = 2
  MaxConns = 2
INVARIANTS ReplicaConverges AtMostOneLate
PROPERTIES SessionEnds Follows
CHECK_DEADLOCK FALSE
