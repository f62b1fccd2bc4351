SPECIFICATION Spec
CONSTANTS
  Threads = {t1, t2}
  NRegions = 2
  MaxLen = 2
  RCACHE = 1
  MaxGen = 2
  None = None
SYMMETRY Symmetry
INVARIANTS
  
  RegistryIsMapped
