SPECIFICATION SpecS
CONSTANTS
  Client = {c1, c2}
  Group = {g}
  Consumer = {w1, w2}
  MaxMillis = 1
  SeqLimit = 2
  IdArgs <- MCIdArgs
  MaxLens <- MCMaxLens
  Scenarios <- MCScenarios
  Member = {0, 1, 2}
  Score = {1, 2}
  MaxLevel = 3
  MaxRestored = 2
INVARIANTS IdsIncrease RangesAgree DeliveredOnce PelAgrees RestartKeeps DollarOnlyNew RanksAgree
PROPERTY ReadsEnd
CHECK_DEADLOCK FALSE
