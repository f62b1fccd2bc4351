SPECIFICATION Spec
CONSTANTS
  NSlabs = 3
  Index = {k1, k2, k3}
  CacheMax = 2
  KeepWarmEmpty = 1
  MaxCand = 2
  MaxCompact = 2
  MaxUnwritten = 1
SYMMETRY Symmetry
INVARIANTS ObjectsKept
