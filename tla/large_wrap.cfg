SPECIFICATION Spec
CONSTANTS
  SizeT = 256
  ALIGNMENT = 1
  Header = 2
  PAGE_SIZE = 4
  CHUNK_SIZE = 8
  SpaceEnd = 32
  Sizes = {1, 7, 255}
  Alignments = {1}
  MaxObjects = 2
  MaxForeign = 0
  MovesAligned = TRUE
  None = None
INVARIANTS
  RequestFits
