SPECIFICATION Spec
CONSTANTS
  File = {a, b}
  NBlocks = 2
  Clump = 2
  IOErrors = FALSE
  CrashInClose = FALSE
INVARIANTS TypeOK InUseMarked FreeCountRight NoSharing CleanMeansConsistent VolumeInv
PROPERTIES MarkedBeforeChange
SYMMETRY FileSymmetry
