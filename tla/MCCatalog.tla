----------------------------- MODULE MCCatalog -----------------------------
(* Catalog on a volume as hfs_format leaves it, and on one that another     *)
(* system has written, with a file that has a thread record.                *)
EXTENDS Catalog

CONSTANTS nameA, nameB, nameC, nameV, foldA, foldB, foldV

\* nameB is nameA in other case
MCFold == [n \in Name |-> CASE n \in {nameA, nameB} -> foldA
                            [] n = nameC -> foldB
                            [] n = nameV -> foldV]

Relative(steps) == [abs |-> FALSE, steps |-> steps]

MCPaths ==
  {Relative(<<n>>) : n \in {nameA, nameB, nameC}}
  \cup {Relative(<<m, n>>) : m \in {nameA}, n \in {nameA, nameC}}
  \cup {Relative(<<Up>>), Relative(<<Up, nameC>>), Relative(<< >>)}
  \cup {Relative(<<nameA, Up, Up>>)}
  \cup {[abs |-> TRUE, steps |-> <<nameV>>], [abs |-> TRUE, steps |-> <<nameC>>]}

Threaded(id) == File(id, RootDir, nameC)
Outer == [Dir(FirstId, RootDir, nameA) EXCEPT !.val = 1]
Inner == Dir(FirstId + 1, FirstId, nameA)

Old(es, ts, files, dirs) ==
  [ent |-> {[Dir(RootDir, RootPar, Vol) EXCEPT !.val = Cardinality({e \in es : e.par = RootDir})]}
           \cup es,
   thr |-> Formatted.thr \cup {Thread(e) : e \in ts},
   next |-> FirstId + Cardinality(es),
   files |-> files, dirs |-> dirs,
   rootFiles |-> Cardinality({e \in es : ~e.dir /\ e.par = RootDir}),
   rootDirs |-> Cardinality({e \in es : e.dir /\ e.par = RootDir})]

MCOldVolumes ==
  {Formatted,
   Old({Threaded(FirstId)}, {Threaded(FirstId)}, 1, 0),
   Old({Outer, Inner, Threaded(FirstId + 2)}, {Outer, Inner, Threaded(FirstId + 2)}, 1, 2)}
=============================================================================
