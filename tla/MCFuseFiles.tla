---------------------------- MODULE MCFuseFiles ----------------------------
(* FuseFiles on small volumes.                                             *)
EXTENDS FuseFiles, TLC

CONSTANT upper

\* "upper" is System in other case
MCFold == [n \in Name |-> IF n = upper THEN System ELSE n]

Alike == Permutations(Block) \cup Permutations(Fd) \cup Permutations(Folder)
=============================================================================
