SPECIFICATION Spec
CONSTANTS
  Size = 44
  MinLen = 16
  MapBits = 4
  MaxBlocks = 12
  OldMaps <- MCOldMaps
  Lengths = {3, 16, 23}
  MaxParts = {1, 3}
  MaxCalls = 4
CHECK_DEADLOCK FALSE
INVARIANTS MapSound VolumesFit
PROPERTIES NumbersKept OthersKept
