\* the catalog: the root directory's records stay, calls reserve nodes
SPECIFICATION Spec
CONSTANTS
  Key = {1, 2, 3, 4, 5, 6, 7}
  Pinned <- MCRoot
  LeafCap = 3
  IndexCap = 2
  Nodes0 = 3
  MapBits = 6
  Grow = {6}
  MaxNodes = 15
  RenameFree = 1
INVARIANTS TreeSound
PROPERTIES IsKeySet
VIEW StateView
