SPECIFICATION Spec
CONSTANTS
  NBlocks = 4
  Width = 2
  Clump = 2
  Faults = {"insert"}
  MaxWrite = 1
  MaxOthers = 1
INVARIANTS ExtentsSound HandleUsable
PROPERTIES ImplementsMap
CHECK_DEADLOCK FALSE
VIEW StateView
