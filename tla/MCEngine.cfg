SPECIFICATION Spec
CONSTANTS
  k1 = k1
  k2 = k2
  Client = {c, d}
  c = c
  d = d
  Obj = {o1, o2}
  o1 = o1
  o2 = o2
  NoSession = NoSession
  Key = {k1, k2}
  Op <- MCOp
  Configs <- MCConfigs
  MaxWrites = 2
  MaxQueue = 1
  MaxShared = 1
SYMMETRY Connections
INVARIANTS WatchedCountExact NoStaleCommit Journalled
