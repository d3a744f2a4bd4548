SPECIFICATION Spec
CONSTANTS
  File = {a, b}
  NBlocks = 2
  Clump = 2
  IOErrors = TRUE
  CrashInClose = FALSE
INVARIANTS Accounting
CONSTRAINTS NotLost FewDirty
SYMMETRY FileSymmetry
