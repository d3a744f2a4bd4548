SPECIFICATION Spec
CONSTANTS
  File = {a, b}
  NBlocks = 2
  Clump = 2
  IOErrors = FALSE
  CrashInClose = TRUE
INVARIANTS InUseMarked
SYMMETRY FileSymmetry
