SPECIFICATION Spec
CONSTANTS
  i1 = i1  i2 = i2  i3 = i3  n1 = n1
  Ids = {i1, i2, i3}
  Nodes = {n1}
  Times <- MCTimes
  Window = 1
  NonceMax = 2
  HistoryMax = 4
SYMMETRY IdsAlike
INVARIANTS
  ReplayNeedsFlood
  RegistrationsExpire
  MemoryIsRecent
