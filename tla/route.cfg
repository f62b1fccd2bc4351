SPECIFICATION RouteSpec
CONSTANTS
  Threads = {t1, t2}
  ra1 = ra1
  ra2 = ra2
  ra3 = ra3
  ra4 = ra4
  Sites = {ra1, ra2, ra3, ra4}
  Null = Null
  Cap = 3
  NParts = 2
  bucket <- MCBucket
  NoThread = NoThread
  SizeT = 1073741824
INVARIANTS
  EntriesUnique
  PartitionStable
  FirstSitesApart
  SmallestFit
  CarvingRight
PROPERTIES
  LookupReturns
