SPECIFICATION Spec
CONSTANTS
  c1 = c1
  c2 = c2
  s1 = s1
  s2 = s2
  k1 = k1
  k2 = k2
  Client = {c1, c2}
  Saver = {s1, s2}
  ShardOrder <- MCShardOrder
  Garbage = Garbage
  Policies = {"always", "everysec"}
  Budgets <- MCBudgets
INVARIANTS SnapshotWhole RecoversLog AnsweredLogged RestartFaithful
SYMMETRY Symmetric
CHECK_DEADLOCK FALSE
