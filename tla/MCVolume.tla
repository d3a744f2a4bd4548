------------------------------ MODULE MCVolume ------------------------------
EXTENDS Volume, TLC
FileSymmetry == Permutations(File)
\* bound: behaviours are followed until changes are lost
NotLost == ~lost
\* bound: the cache is at most so many blocks ahead of the medium
MaxDirty == 2
FewDirty ==
  LET dirty == DirtyBlocks(store, disk)
  IN  Cardinality({x \in {"mdb", "vbm"} : dirty[x]}) + Cardinality(dirty.cat) <= MaxDirty
=============================================================================
