SPECIFICATION Spec
CONSTANTS
  CacheSz = 3
  HashSz = 2
  FlushLen = 2
  FillLen = 2
  VLen = 4
  Data = {d0, d1}
  NoData = NoData
  MaxCount = 2
  BadSets <- MCBadSets
  Writes <- MCWrites
  Disks <- MCDisks
INVARIANTS CacheCoherent
PROPERTIES IntactReadCurrent WriteBack
CHECK_DEADLOCK FALSE
CONSTRAINT RingIntact
VIEW StateView
SYMMETRY DataSymmetry
