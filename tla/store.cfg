SPECIFICATION FairSpec
CONSTANTS
  Threads = {t1, t2}
  Bg = Bg
  Chunks = {c1, c2}
  WARM_LOW = 1
  WARM_HIGH = 1
  NPages = 4
  DescPages = 1
  QDepth = 1
  WaitFails = FALSE
  NoChunk = NoChunk
  NoPool = NoPool
INVARIANTS
  RegistryMatchesMappings
  ChunkInOnePlace
  WarmPoolBounded
  SyncChunksAreClean
PROPERTIES
  HeldPagesKept
  SupplySpec
  DisposedComesBack
