SPECIFICATION CallsSpec
CONSTANTS
  SizeT = 64
  ALIGNMENT = 1
  Header = 2
  PAGE_SIZE = 4
  CHUNK_SIZE = 8
  SpaceEnd = 40
  Sizes = {0, 1, 2, 7}
  Alignments = {1, 3, 16}
  MaxObjects = 2
  MaxForeign = 1
  MovesAligned = TRUE
  None = None
  sc_to_size <- ClassSizes
  NSmall = 1
  Counts = {1, 10}
INVARIANTS
  OwnerFound
  RegistryClean
  HeldExactly
  RequestMet
  ContentsKept
