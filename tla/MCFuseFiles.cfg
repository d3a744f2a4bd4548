SPECIFICATION Spec
CONSTANTS
  upper = upper
  Folder = {top}
  Name = {sys, lower, hid1}
  Fold <- MCFold
  Allowed = {}
  Given = {sys, lower}
  Hidden = {hid1}
  System = sys
  Block = {b1, b2}
  Val = {one}
  Fd = {f1, f2}
  NoFd = NoFd
  Clump = 2
  MaxLen = 2
  MaxRsrc = 1
  MaxId = 2
SYMMETRY Alike
CHECK_DEADLOCK FALSE
INVARIANTS HandlesSound FilesAsSeen SpaceSound
PROPERTIES ReadOnlyKept
