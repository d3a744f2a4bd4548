---------------------------- MODULE MCBlockCache ----------------------------
EXTENDS BlockCache
MCBadSets == {{}, {2}}
NoBadSets == {{}}
\* two neighbouring blocks are written, so that one flush transfers both
MCWrites == {1, 2} \X Data
\* all blocks start equal
MCDisks == {[n \in Block |-> x] : x \in Data}
DataSymmetry == Permutations(Data)
\* answer is only an output: no action reads it
StateView == <<using, c, disk>>
=============================================================================
