SPECIFICATION Spec
CONSTANTS
  SizeT = 256
  ALIGNMENT = 1
  Header = 2
  PAGE_SIZE = 4
  CHUNK_SIZE = 8
  SpaceEnd = 32
  Sizes = {1, 3, 7}
  Alignments = {1}
  MaxObjects = 2
  MaxForeign = 0
  MovesAligned = FALSE
  None = None
INVARIANTS
  OwnerFound
