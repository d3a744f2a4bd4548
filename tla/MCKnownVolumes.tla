--------------------------- MODULE MCKnownVolumes ---------------------------
(* KnownVolumes with few sources and media.                                *)
EXTENDS KnownVolumes, TLC

CONSTANT Tolerated   \* breaches after which a run goes on

Alike == Permutations(Process) \cup Permutations(Source) \cup Permutations(Medium)
           \cup Permutations(Label)

Behaved == breach \subseteq Tolerated
=============================================================================
