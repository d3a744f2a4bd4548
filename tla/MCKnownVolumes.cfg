SPECIFICATION Spec
CONSTANTS
  Process = {p, q}
  Source = {s1}
  Medium = {m1, m2}
  Empty = Empty
  Label = {apple, pear}
  Dir = {d, e}
  Given = {d}
  Root = Root
  MaxRuns = 3
  Tolerated = {}
SYMMETRY Alike
CONSTRAINT Behaved
CHECK_DEADLOCK FALSE
INVARIANTS ListSound
PROPERTIES RightVolume MapKept
