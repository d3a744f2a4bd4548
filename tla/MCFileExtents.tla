--------------------------- MODULE MCFileExtents ---------------------------
EXTENDS FileExtents
\* reply is only an output: no action reads it
StateView == <<pc, h, stored, tree, vbm, free, others, todo>>
=============================================================================
