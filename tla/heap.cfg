SPECIFICATION FairSpec
CONSTANTS
  Threads = {t1, t2}
  Pools = {p1, p2}
  Chunks = {c1}
  SlabsPerChunk = 3
  NSlots = 2
  CacheMax = 2
  KeepWarmEmpty = 1
  NoThread = NoThread
  NoPool = NoPool
  NoChunk = NoChunk
INVARIANTS
  TypeOK
  SlotExclusive
  OutIsBacked
  ListsAreExact
  CountersAgree
  DrainedPoolOwnsNothing
PROPERTIES
  HeaderStable
  AllocatorSpec
  LockReleased
