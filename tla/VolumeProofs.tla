---------------------------- MODULE VolumeProofs ----------------------------
(***************************************************************************)
(* Theorems of module Volume, for every set of files, every size of the    *)
(* volume and every clump size.                                            *)
(***************************************************************************)
EXTENDS Volume, FiniteSetTheorems, TLAPS

-----------------------------------------------------------------------------
(***************************************************************************)
(* The bitmap and the free count.                                          *)
(***************************************************************************)
\* Sets of allocation blocks are finite.
LEMMA BlocksFinite ==
  ASSUME NEW v \in SUBSET ABN
  PROVE  IsFiniteSet(v) /\ Cardinality(v) \in Nat
<1>1. IsFiniteSet(ABN)
  BY FS_Interval, VolumeAssumption DEF ABN
<1> QED
  BY <1>1, FS_Subset, FS_CardinalityType

\* The number of free blocks is a natural number.
LEMMA FreeInType ==
  ASSUME NEW v
  PROVE  FreeIn(v) \in Nat
BY BlocksFinite DEF FreeIn

\* Marking a free run lowers the number of free blocks by its length.
LEMMA FreeAfterAlloc ==
  ASSUME NEW v, NEW s \in SUBSET (ABN \ v)
  PROVE  FreeIn(v \cup s) = FreeIn(v) - Cardinality(s)
<1>1. IsFiniteSet(ABN \ v)
  BY BlocksFinite
<1>2. Cardinality((ABN \ v) \ s) = Cardinality(ABN \ v) - Cardinality((ABN \ v) \cap s)
  BY <1>1, FS_Difference, BlocksFinite
<1>3. (ABN \ v) \cap s = s /\ ABN \ (v \cup s) = (ABN \ v) \ s
  OBVIOUS
<1> QED
  BY <1>2, <1>3 DEF FreeIn

\* Clearing blocks that are marked raises it by their number.
LEMMA FreeAfterFree ==
  ASSUME NEW v \in SUBSET ABN, NEW s \in SUBSET v
  PROVE  FreeIn(v \ s) = FreeIn(v) + Cardinality(s)
<1>1. (v \ s) \cup s = v /\ s \in SUBSET (ABN \ (v \ s))
  OBVIOUS
<1>2. FreeIn(v) = FreeIn(v \ s) - Cardinality(s)
  BY <1>1, FreeAfterAlloc
<1>3. FreeIn(v \ s) \in Nat /\ Cardinality(s) \in Nat
  BY FreeInType, BlocksFinite
<1> QED
  BY <1>2, <1>3

\* A set covers what the catalog refers to iff it covers every record's blocks.
LEMMA RefsCovered ==
  ASSUME NEW cat, NEW v
  PROVE  Refs(cat) \subseteq v <=> \A f \in File : cat[f].ext \subseteq v
BY DEF Refs

\* InUseMarked, file by file.
LEMMA OwnMarked ==
  ASSUME InUseMarked, Mounted, ~shared, NEW f \in File
  PROVE  Own(f) \subseteq mem.vbm
BY DEF InUseMarked, Live

LEMMA OwnMarkedNext ==
  ASSUME ~shared' => \A f \in File : Own(f)' \subseteq mem'.vbm
  PROVE  InUseMarked'
BY DEF InUseMarked, Live

\* A step after which no file has blocks it did not have keeps files disjoint.
LEMMA OwnShrinks ==
  ASSUME NoSharing, shared' = shared, \A f \in File : Own(f)' \subseteq Own(f)
  PROVE  NoSharing'
BY DEF NoSharing

-----------------------------------------------------------------------------
(***************************************************************************)
(* Types.                                                                  *)
(***************************************************************************)
\* v_allocblocks keeps the type of the MDB and the bitmap in memory.
LEMMA AllocType ==
  ASSUME NEW m \in Memory, NEW s \in SUBSET ABN
  PROVE  AllocBlocks(m, s) \in Memory
<1>1. m.free - Cardinality(s) \in Int
  BY BlocksFinite DEF Memory
<1> QED
  BY <1>1 DEF AllocBlocks, Memory

\* So does v_freeblocks.
LEMMA FreeType ==
  ASSUME NEW m \in Memory, NEW s \in SUBSET ABN
  PROVE  FreeBlocks(m, s) \in Memory
<1>1. m.free + Cardinality(s) \in Int
  BY BlocksFinite DEF Memory
<1> QED
  BY <1>1 DEF FreeBlocks, Memory

\* What a volume that is not mounted has in memory is well typed.
LEMMA DefaultsType ==
  NoMem \in Memory /\ NoQueue \in Queue /\ Closed \in Handle /\ NoRec \in Record
BY DEF Memory, Queue, Handle, Record, NoMem, NoQueue, Closed, NoRec

\* What b_flush collects is well typed.
LEMMA DirtyBlocksType ==
  ASSUME NEW s, NEW d
  PROVE  DirtyBlocks(s, d) \in Queue
BY DEF DirtyBlocks, Queue

\* The contents of the volume's blocks keep their type when one is replaced.
LEMMA ImageType ==
  ASSUME NEW s \in Image
  PROVE  /\ \A d \in Image : /\ [s EXCEPT !.mdb = d.mdb] \in Image
                             /\ [s EXCEPT !.vbm = d.vbm] \in Image
                             /\ \A f \in File : [s EXCEPT !.cat[f] = d.cat[f]] \in Image
         /\ \A f \in File, r \in Record : [s EXCEPT !.cat[f] = r] \in Image
         /\ \A f \in File, e \in SUBSET ABN : [s EXCEPT !.cat[f].ext = e] \in Image
BY DEF Image, Record

\* Storing the records of the open files changes no file's blocks.
LEMMA RecordedFields ==
  ASSUME TypeOK, NEW f \in File
  PROVE  /\ Recorded(store.cat, handle)[f] \in Record
         /\ handle[f].open => Recorded(store.cat, handle)[f].ext = handle[f].ext
         /\ ~handle[f].open \/ handle[f].ext = store.cat[f].ext
              => Recorded(store.cat, handle)[f] = store.cat[f]
BY DEF Recorded, TypeOK, Image, Record, Handle

LEMMA RecordedType ==
  ASSUME TypeOK
  PROVE  Recorded(store.cat, handle) \in [File -> Record]
BY RecordedFields DEF Recorded

LEMMA InitType == Init => TypeOK
<1>1. NBlocks \in Int
  BY VolumeAssumption
<1>2. ASSUME Init PROVE disk \in Image
  BY <1>1, <1>2, DefaultsType DEF Init, Image
<1> QED
  BY <1>2, DefaultsType DEF Init, TypeOK

\* A call that fails half way keeps the types.
LEMMA FailedCallType == TypeOK /\ FailedCall => TypeOK'
<1> SUFFICES ASSUME TypeOK, FailedCall PROVE TypeOK'
  OBVIOUS
<1> USE DEF TypeOK
<1>1. CASE VDirtyFails
  BY <1>1 DEF VDirtyFails, Memory
<1>2. ASSUME NEW f \in File, CloseUnstored(f) \/ DeleteFails(f) PROVE TypeOK'
  <2>1. /\ handle[f].ext \in SUBSET ABN /\ store.cat[f].ext \in SUBSET ABN
    BY DEF Handle, Image, Record
  <2>2. mem' \in Memory /\ handle' \in [File -> Handle]
    BY <1>2, <2>1, FreeType, DefaultsType DEF CloseUnstored, DeleteFails
  <2>3. lost' \in BOOLEAN
    BY <1>2 DEF CloseUnstored, DeleteFails
  <2> QED
    BY <1>2, <2>2, <2>3 DEF CloseUnstored, DeleteFails, ChangeFails
<1>3. ASSUME NEW f \in File, NEW inserted \in BOOLEAN, CreateFails(f, inserted)
      PROVE  TypeOK'
  <2>1. store' \in Image /\ mem' \in Memory
    BY <1>3, ImageType DEF CreateFails, Record, Memory
  <2> QED
    BY <1>3, <2>1 DEF CreateFails, ChangeFails
<1>4. ASSUME NEW f \in File, NEW s \in FreeRuns(mem), NEW used \in SUBSET s \ {{}},
             WriteUnstored(f, s, used)
      PROVE  TypeOK'
  <2>1. s \in SUBSET ABN /\ used \in SUBSET ABN
    BY DEF FreeRuns
  <2>2. handle' \in [File -> Handle] /\ mem' \in Memory
    BY <1>4, <2>1, AllocType DEF WriteUnstored, Extended, Handle
  <2> QED
    BY <1>4, <2>2 DEF WriteUnstored, ChangeFails
<1>5. ASSUME NEW f \in File, NEW keep \in SUBSET handle[f].need, TruncateUnstored(f, keep)
      PROVE  TypeOK'
  <2>1. handle' \in [File -> Handle]
    BY <1>5 DEF TruncateUnstored, Handle
  <2> QED
    BY <1>5, <2>1 DEF TruncateUnstored, ChangeFails
<1>6. ASSUME NEW umount \in BOOLEAN, NEW bitmap \in BOOLEAN
      PROVE  MemAtStop(umount, bitmap) \in Memory /\ BitmapAtStop(bitmap) \in SUBSET ABN
  BY DEF MemAtStop, BitmapAtStop, Memory, Image
<1>7. ASSUME NEW stored \in SUBSET File, NEW bitmap \in BOOLEAN,
             VFlushFails(stored, bitmap)
      PROVE  TypeOK'
  <2>1. [f \in File |-> IF f \in stored THEN Recorded(store.cat, handle)[f]
                        ELSE store.cat[f]] \in [File -> Record]
    BY RecordedFields DEF Image
  <2>2. mem' \in Memory /\ store' \in Image
    BY <1>6, <1>7, <2>1 DEF VFlushFails, Image
  <2> QED
    BY <1>7, <2>2 DEF VFlushFails, FlushFails
<1>8. ASSUME NEW bitmap \in BOOLEAN, VCloseFails(bitmap) PROVE TypeOK'
  <2>1. mem' \in Memory /\ store' \in Image
    BY <1>6, <1>8 DEF VCloseFails, Image
  <2> QED
    BY <1>8, <2>1, DirtyBlocksType DEF VCloseFails, FlushFails, StartFlush
<1> QED
  BY <1>1, <1>2, <1>3, <1>4, <1>5, <1>7, <1>8, Zenon DEF FailedCall

LEMMA NextType == TypeOK /\ [Next]_vars => TypeOK'
<1> SUFFICES ASSUME TypeOK, [Next]_vars PROVE TypeOK'
  OBVIOUS
<1> USE DEF TypeOK
<1>1. ASSUME NEW ro \in BOOLEAN, Mount(ro) PROVE TypeOK'
  <2>1. FreeIn(store.vbm \cup Refs(store.cat)) \in Int /\ Refs(store.cat) \subseteq ABN
    BY FreeInType DEF Image, Record, Refs
  <2> QED
    BY <1>1, <2>1 DEF Mount, Scavenged, Loaded, Image, Memory
<1>2. ASSUME NEW ok \in BOOLEAN, FlushMdb(ok) PROVE TypeOK'
  BY <1>2, ImageType DEF FlushMdb, Written, Queue
<1>3. ASSUME NEW ok \in BOOLEAN, FlushVbm(ok) PROVE TypeOK'
  BY <1>3, ImageType DEF FlushVbm, Written, Queue
<1>4. ASSUME NEW f \in File, NEW ok \in BOOLEAN, FlushCat(f, ok) PROVE TypeOK'
  BY <1>4, ImageType DEF FlushCat, Written, Queue
<1>5. CASE FlushDone
  <2>1. lost' \in BOOLEAN /\ shared' \in BOOLEAN
    BY <1>5, Zenon DEF FlushDone, LoseCache, Shares
  <2>2. mem' \in Memory /\ store' \in Image
    BY <1>5, DefaultsType DEF FlushDone, LoseCache
  <2>3. pc' \in {"down", "idle", "marked"} /\ failed' = FALSE
    BY <1>5 DEF FlushDone, Flushing
  <2> QED
    BY <1>5, <2>1, <2>2, <2>3 DEF FlushDone
<1>6. CASE Evict
  <2>1. CASE disk' = [disk EXCEPT !.mdb = store.mdb]
    BY <1>6, <2>1, ImageType DEF Evict
  <2>2. CASE disk' = [disk EXCEPT !.vbm = store.vbm]
    BY <1>6, <2>2, ImageType DEF Evict
  <2>3. ASSUME NEW f \in File, disk' = [disk EXCEPT !.cat[f] = store.cat[f]]
        PROVE  TypeOK'
    BY <1>6, <2>3, ImageType DEF Evict
  <2> QED
    BY <1>6, <2>1, <2>2, <2>3 DEF Evict
<1>7. CASE VDirty
  <2>1. mem' \in Memory
    BY <1>7 DEF VDirty, Memory
  <2>2. store' \in Image
    BY <1>7, <2>1 DEF VDirty, Image, Memory, Mdb
  <2> QED
    BY <1>7, <2>1, <2>2, DirtyBlocksType DEF VDirty, StartFlush
<1>8. ASSUME NEW f \in File, Create(f) PROVE TypeOK'
  <2>1. store' \in Image /\ handle' \in [File -> Handle] /\ mem' \in Memory
    BY <1>8, ImageType DEF Create, Record, Handle, Memory
  <2> QED
    BY <1>8, <2>1 DEF Create, Change
<1>9. ASSUME NEW f \in File, Open(f) PROVE TypeOK'
  BY <1>9 DEF Open, Image, Record, Handle
<1>10. ASSUME NEW f \in File, Delete(f) PROVE TypeOK'
  <2>1. store.cat[f].ext \in SUBSET ABN
    BY DEF Image, Record
  <2>2. mem' \in Memory /\ store' \in Image
    BY <1>10, <2>1, FreeType, ImageType, DefaultsType DEF Delete, Memory
  <2> QED
    BY <1>10, <2>2 DEF Delete, Change
<1>11. ASSUME NEW f \in File, CloseChanged(f) PROVE TypeOK'
  <2>1. handle[f].ext \in SUBSET ABN /\ handle[f].need \in SUBSET ABN
    BY DEF Handle
  <2>2. mem' \in Memory /\ store' \in Image /\ handle' \in [File -> Handle]
    BY <1>11, <2>1, FreeType, ImageType, DefaultsType DEF CloseChanged
  <2> QED
    BY <1>11, <2>2 DEF CloseChanged, Change
<1>19. ASSUME NEW f \in File, SetFork(f) PROVE TypeOK'
  <2>1. handle[f].ext \in SUBSET ABN /\ handle[f].need \in SUBSET ABN
    BY DEF Handle
  <2>2. mem' \in Memory /\ handle' \in [File -> Handle]
    BY <1>19, <2>1, FreeType DEF SetFork, Handle
  <2> QED
    BY <1>19, <2>2 DEF SetFork, Change
<1>12. ASSUME NEW f \in File, CloseSettled(f) PROVE TypeOK'
  BY <1>12, DefaultsType DEF CloseSettled
<1>13. ASSUME NEW f \in File, NEW s \in FreeRuns(mem), NEW used \in SUBSET s \ {{}},
              NEW ok \in BOOLEAN, Write(f, s, used, ok)
       PROVE  TypeOK'
  <2>1. s \in SUBSET ABN /\ used \in SUBSET ABN
    BY DEF FreeRuns
  <2>2. handle' \in [File -> Handle] /\ mem' \in Memory
    BY <1>13, <2>1, AllocType DEF Write, Extended, Handle
  <2>3. store' \in Image
    BY <1>13, <2>2, ImageType DEF Write, Handle
  <2> QED
    BY <1>13, <2>2, <2>3 DEF Write, Change
<1>14. ASSUME NEW f \in File, NEW keep \in SUBSET handle[f].need, Truncate(f, keep)
       PROVE  TypeOK'
  <2>1. handle[f].ext \in SUBSET ABN /\ keep \in SUBSET ABN
    BY DEF Handle
  <2>2. store' \in Image
    BY <1>14, <2>1, ImageType DEF Truncate
  <2>3. handle' \in [File -> Handle]
    BY <1>14, <2>1 DEF Truncate, Handle
  <2> QED
    BY <1>14, <2>2, <2>3 DEF Truncate, Change
<1>15. CASE VFlush
  <2>1. mem' \in Memory /\ store' \in Image
    BY <1>15, RecordedType DEF VFlush, FlushVol, Mdb, Memory, Image
  <2> QED
    BY <1>15, <2>1, DirtyBlocksType DEF VFlush, StartFlush
<1>16. CASE VClose
  <2>1. mem' \in Memory /\ store' \in Image
    <3>1. CASE mem.ro
      BY <1>16, <3>1, DefaultsType DEF VClose
    <3>2. CASE ~mem.ro
      <4> DEFINE m == IF ~mem.umounted
                      THEN [mem EXCEPT !.umounted = TRUE, !.updMdb = TRUE] ELSE mem
      <4>1. m \in Memory
        BY DEF Memory
      <4>2. /\ mem' = [m EXCEPT !.updVbm = FALSE, !.updMdb = FALSE]
            /\ store' = [store EXCEPT !.vbm = IF m.updVbm THEN m.vbm ELSE @,
                                      !.mdb = IF m.updMdb THEN Mdb(m) ELSE @,
                                      !.cat = Recorded(@, handle)]
        BY <1>16, <3>2 DEF VClose, FlushVol
      <4> HIDE DEF m
      <4> QED
        BY <4>1, <4>2, RecordedType DEF Memory, Image, Mdb
    <3> QED
      BY <3>1, <3>2
  <2>2. queue' \in Queue /\ failed' \in BOOLEAN
    BY <1>16, DirtyBlocksType DEF VClose, StartFlush
  <2> QED
    BY <1>16, <2>1, <2>2 DEF VClose
<1>17. CASE Crash
  <2>1. lost' \in BOOLEAN /\ shared' \in BOOLEAN
    BY <1>17, Zenon DEF Crash, LoseCache, Shares
  <2> QED
    BY <1>17, <2>1, DefaultsType DEF Crash, LoseCache
<1>18. CASE UNCHANGED vars
  BY <1>18 DEF vars
<1>20. CASE FailedCall
  BY <1>20, FailedCallType
<1> QED
  BY <1>1, <1>2, <1>3, <1>4, <1>5, <1>6, <1>7, <1>8, <1>9, <1>10, <1>11, <1>12,
     <1>13, <1>14, <1>15, <1>16, <1>17, <1>18, <1>19, <1>20, Zenon DEF Next

\* Every reachable state has its type, whatever writes fail and wherever a
\* crash comes.
THEOREM TypeCorrect == Spec => []TypeOK
BY InitType, NextType, PTL DEF Spec


-----------------------------------------------------------------------------
(***************************************************************************)
(* Safety, when no write of the medium fails and v_close runs to its end.  *)
(* One lemma for each action; the type of the new state is NextType's.     *)
(***************************************************************************)
FaultFree == ~IOErrors /\ ~CrashInClose

\* An MDB consists of its two fields.
LEMMA MdbFields ==
  ASSUME NEW s \in Image
  PROVE  s.mdb = [umounted |-> s.mdb.umounted, free |-> s.mdb.free]
BY DEF Image

\* A freshly formatted volume satisfies the invariant.
LEMMA InitInv == Init => VolumeInv
<1> SUFFICES ASSUME Init PROVE VolumeInv
  OBVIOUS
<1>1. TypeOK
  BY InitType
<1>2. Refs(disk.cat) = {}
  BY DEF Init, NoRec, Refs
<1>3. FreeIn({}) = NBlocks
  BY FS_Interval, VolumeAssumption DEF FreeIn, ABN
<1>4. NoSharing
  BY DEF Init, NoSharing, Own, NoRec, Closed
<1>5. CleanMeansConsistent
  BY <1>2, <1>3 DEF Init, CleanMeansConsistent, Consistent
<1>6. HandlesSound /\ CacheEmpty
  BY DEF Init, HandlesSound, CacheEmpty, Closed
<1> QED
  BY <1>1, <1>4, <1>5, <1>6
  DEF Init, VolumeInv, FlagsRight, UntouchedWhileUmounted, MarkedInUse,
      ClosingSound, InUseMarked, FreeCountRight, Mounted

\* v_mount: from a clean medium what it loads is right, and from another one
\* the scavenge makes it right.
LEMMA MountInv ==
  ASSUME VolumeInv, NEW ro \in BOOLEAN, Mount(ro), TypeOK'
  PROVE  VolumeInv'
<1> USE DEF VolumeInv, Mount
<1>1. \A f \in File : Own(f)' = store.cat[f].ext /\ Own(f) = store.cat[f].ext
  BY DEF CacheEmpty, Own
<1>2. store = disk /\ pc' = "idle"
  BY DEF CacheEmpty
<1>3. store.mdb = [umounted |-> store.mdb.umounted, free |-> store.mdb.free]
  BY MdbFields DEF TypeOK
<1>4. CASE ~store.mdb.umounted /\ ~ro
  <2>1. mem' = Scavenged(store)
    BY <1>4
  <2>2. \A f \in File : store.cat[f].ext \subseteq mem'.vbm
    BY <2>1 DEF Scavenged, Refs
  <2>3. InUseMarked'
    BY <1>1, <2>2, OwnMarkedNext
  <2>4. FreeCountRight' /\ UntouchedWhileUmounted' /\ NoSharing'
    BY <1>1, <2>1, OwnShrinks
    DEF FreeCountRight, UntouchedWhileUmounted, Scavenged, Mounted
  <2>5. FlagsRight'
    <3>1. mem'.updMdb = (store.mdb.free # mem'.free)
      BY <2>1 DEF Scavenged
    <3>2. store.mdb.free = mem'.free => store.mdb = Mdb(mem')
      <4>1. store.mdb.umounted = FALSE
        BY <1>4 DEF TypeOK, Image
      <4>2. mem'.umounted = FALSE
        BY <2>1 DEF Scavenged
      <4> QED
        BY <1>3, <4>1, <4>2 DEF Mdb
    <3>3. mem'.updVbm
      BY <2>1 DEF Scavenged
    <3> QED
      BY <3>1, <3>2, <3>3 DEF FlagsRight
  <2>6. MarkedInUse'
    BY <1>2, <1>4, <2>1 DEF MarkedInUse, Scavenged
  <2>7. CacheEmpty'
    BY <1>2 DEF CacheEmpty
  <2> QED
    BY <2>3, <2>4, <2>5, <2>6, <2>7
    DEF HandlesSound, ClosingSound, CleanMeansConsistent
<1>5. CASE store.mdb.umounted \/ ro
  <2>1. mem' = Loaded(store, ro)
    BY <1>5
  <2>2. ~ro /\ ~shared => Consistent(store)
    BY <1>2, <1>5 DEF CleanMeansConsistent
  <2>3. InUseMarked'
    <3>1. ~ro /\ ~shared => \A f \in File : Own(f)' \subseteq mem'.vbm
      BY <1>1, <2>1, <2>2 DEF Refs, Consistent, Loaded
    <3>2. ro => ~Mounted'
      BY <2>1 DEF Loaded, Mounted
    <3> QED
      BY <3>1, <3>2, OwnMarkedNext DEF InUseMarked
  <2>4. FreeCountRight' /\ NoSharing'
    BY <1>1, <2>1, <2>2, OwnShrinks DEF FreeCountRight, Consistent, Loaded, Mounted
  <2>5. FlagsRight' /\ UntouchedWhileUmounted'
    BY <1>2, <1>3, <2>1
    DEF CacheEmpty, FlagsRight, UntouchedWhileUmounted, Loaded, Mdb, Mounted
  <2>6. MarkedInUse'
    BY <1>2, <1>5, <2>1 DEF MarkedInUse, Loaded, Mounted
  <2>7. CacheEmpty'
    BY <1>2 DEF CacheEmpty
  <2> QED
    BY <2>3, <2>4, <2>5, <2>6, <2>7
    DEF HandlesSound, ClosingSound, CleanMeansConsistent
<1> QED
  BY <1>4, <1>5

\* What every write of a block does: the medium takes over something from the
\* cache, and a block leaves the queue only when it is on the medium.
CatchUp ==
  /\ pc # "down" /\ UNCHANGED <<pc, mem, handle, store, shared>>
  /\ disk'.mdb \in {disk.mdb, store.mdb}
  /\ disk'.vbm \in {disk.vbm, store.vbm}
  /\ \A f \in File : disk'.cat[f] \in {disk.cat[f], store.cat[f]}
  /\ queue'.mdb = queue.mdb \/ disk'.mdb = store.mdb
  /\ queue'.vbm = queue.vbm \/ disk'.vbm = store.vbm
  /\ \A f \in File : (f \in queue'.cat <=> f \in queue.cat) \/ disk'.cat[f] = store.cat[f]

LEMMA FlushCatchesUp ==
  ASSUME TypeOK, FaultFree,
         \/ \E ok \in BOOLEAN : FlushMdb(ok) \/ FlushVbm(ok)
         \/ \E f \in File, ok \in BOOLEAN : FlushCat(f, ok)
         \/ Evict
  PROVE  CatchUp
<1> USE DEF TypeOK, FaultFree, Written, Flushing, Image, Queue, CatchUp
<1>1. ASSUME NEW ok \in BOOLEAN, FlushMdb(ok) PROVE CatchUp
  BY <1>1 DEF FlushMdb
<1>2. ASSUME NEW ok \in BOOLEAN, FlushVbm(ok) PROVE CatchUp
  BY <1>2 DEF FlushVbm
<1>3. ASSUME NEW f \in File, NEW ok \in BOOLEAN, FlushCat(f, ok) PROVE CatchUp
  BY <1>3 DEF FlushCat
<1>4. CASE Evict
  <2>1. CASE disk' = [disk EXCEPT !.mdb = store.mdb]
    BY <1>4, <2>1 DEF Evict
  <2>2. CASE disk' = [disk EXCEPT !.vbm = store.vbm]
    BY <1>4, <2>2 DEF Evict
  <2>3. ASSUME NEW f \in File, disk' = [disk EXCEPT !.cat[f] = store.cat[f]]
        PROVE  CatchUp
    BY <1>4, <2>3 DEF Evict
  <2> QED
    BY <1>4, <2>1, <2>2, <2>3 DEF Evict
<1> QED
  BY <1>1, <1>2, <1>3, <1>4

\* Images with the same records are the same.
LEMMA SameCat ==
  ASSUME NEW s \in Image, NEW d \in Image, \A f \in File : s.cat[f] = d.cat[f]
  PROVE  s.cat = d.cat
BY DEF Image

\* A block that reaches the medium never makes it look clean too early.
LEMMA CatchUpInv ==
  ASSUME VolumeInv, CatchUp, TypeOK'
  PROVE  VolumeInv'
<1> USE DEF VolumeInv, CatchUp
<1>1. store = disk => disk' = disk
  BY SameCat DEF TypeOK, Image
<1>2. HandlesSound' /\ FlagsRight' /\ InUseMarked' /\ FreeCountRight' /\ NoSharing'
  BY DEF HandlesSound, FlagsRight, InUseMarked, FreeCountRight, NoSharing, Live, Own, Mounted
<1>3. CacheEmpty' /\ UntouchedWhileUmounted'
  BY <1>1 DEF CacheEmpty, UntouchedWhileUmounted, Mounted
<1>4. store.cat = disk.cat => disk'.cat = disk.cat
  BY SameCat DEF TypeOK
<1>5. MarkedInUse'
  BY <1>4 DEF MarkedInUse, Mounted
<1>6. ClosingSound'
  BY DEF ClosingSound
<1>7. CleanMeansConsistent'
  <2>1. SUFFICES ASSUME pc # "closing", disk'.mdb.umounted, ~shared
                 PROVE  Consistent(disk')
    BY DEF CleanMeansConsistent
  <2>2. CASE mem.ro \/ mem.umounted
    <3>1. disk' = disk
      BY <1>1, <2>1, <2>2 DEF CacheEmpty, UntouchedWhileUmounted, Mounted
    <3> QED
      BY <2>1, <3>1 DEF CleanMeansConsistent
  <2>3. CASE ~mem.ro /\ ~mem.umounted
    <3>1. disk'.mdb = disk.mdb /\ disk'.vbm = disk.vbm /\ disk'.cat = disk.cat
      BY <1>4, <2>1, <2>3 DEF MarkedInUse, Mounted
    <3> QED
      BY <2>1, <3>1 DEF CleanMeansConsistent, Consistent
  <2> QED
    BY <2>2, <2>3
<1> QED
  BY <1>2, <1>3, <1>5, <1>6, <1>7

\* While the medium says "unmounted", no write changes anything else on it.
LEMMA CatchUpUnmarked ==
  ASSUME VolumeInv, CatchUp, TypeOK', pc # "closing", disk.mdb.umounted
  PROVE  disk'.vbm = disk.vbm /\ disk'.cat = disk.cat
<1> USE DEF VolumeInv, CatchUp
<1>1. CASE mem.ro \/ mem.umounted
  <2>1. store = disk
    BY <1>1 DEF CacheEmpty, UntouchedWhileUmounted, Mounted
  <2> QED
    BY <2>1, SameCat DEF TypeOK
<1>2. CASE ~mem.ro /\ ~mem.umounted
  <2>1. store.vbm = disk.vbm /\ store.cat = disk.cat
    BY <1>2 DEF MarkedInUse, Mounted
  <2> QED
    BY <2>1, SameCat DEF TypeOK
<1> QED
  BY <1>1, <1>2

\* The caller goes on after its b_flush; after v_close's the medium holds all
\* that the cache held.
LEMMA FlushDoneInv ==
  ASSUME VolumeInv, FlushDone, TypeOK'
  PROVE  VolumeInv'
<1> USE DEF VolumeInv, FlushDone, Flushing
<1>1. ~queue.mdb /\ ~queue.vbm /\ queue.cat = {}
  BY DEF NoQueue
<1>2. CASE pc = "closing"
  <2>1. store = disk
    BY <1>1, <1>2, SameCat DEF ClosingSound, TypeOK, Image
  <2>2. pc' = "down" /\ store' = disk /\ disk' = disk /\ handle' = handle
    BY <1>2 DEF LoseCache
  <2>3. ~shared' => ~shared
    BY <1>2 DEF LoseCache
  <2>4. CleanMeansConsistent'
    BY <1>2, <2>1, <2>2, <2>3 DEF CleanMeansConsistent, ClosingSound
  <2>5. NoSharing'
    BY <2>1, <2>2, <2>3 DEF NoSharing, Own
  <2> QED
    BY <2>2, <2>4, <2>5
    DEF HandlesSound, CacheEmpty, FlagsRight, UntouchedWhileUmounted, MarkedInUse,
        ClosingSound, InUseMarked, FreeCountRight, Mounted
<1>3. CASE pc # "closing"
  <2>1. pc' \in {"idle", "marked"} /\ (pc = "syncing" => pc' = "idle")
    BY <1>3
  <2>2. UNCHANGED <<mem, handle, store, disk, shared>>
    BY <1>3
  <2> QED
    BY <1>1, <1>3, <2>1, <2>2
    DEF HandlesSound, CacheEmpty, FlagsRight, UntouchedWhileUmounted, MarkedInUse,
        ClosingSound, InUseMarked, FreeCountRight, NoSharing, CleanMeansConsistent, Live,
        Own, Mounted
<1> QED
  BY <1>2, <1>3

\* v_dirty: the cache gets an MDB that says "in use", and the flush begins.
LEMMA VDirtyInv ==
  ASSUME VolumeInv, VDirty, TypeOK'
  PROVE  VolumeInv'
<1> USE DEF VolumeInv, VDirty
<1>1. store = disk /\ ~mem.updMdb /\ ~mem.updVbm
  BY DEF UntouchedWhileUmounted, Mounted
<1>2. mem'.umounted = FALSE /\ mem'.free = mem.free /\ mem'.vbm = mem.vbm /\ ~mem'.ro
      /\ mem'.updVbm = mem.updVbm
  BY DEF TypeOK, Memory
<1>3. store'.mdb = Mdb(mem') /\ store'.vbm = store.vbm /\ store'.cat = store.cat
  BY DEF TypeOK, Image
<1>4. HandlesSound' /\ CacheEmpty' /\ UntouchedWhileUmounted' /\ ClosingSound'
  BY <1>2 DEF HandlesSound, CacheEmpty, UntouchedWhileUmounted, ClosingSound
<1>5. FlagsRight'
  BY <1>2, <1>3 DEF FlagsRight, Mounted
<1>6. InUseMarked' /\ FreeCountRight' /\ NoSharing'
  BY <1>2, <1>3 DEF InUseMarked, FreeCountRight, NoSharing, Live, Own, Mounted
<1>7. CleanMeansConsistent'
  BY DEF CleanMeansConsistent
<1>8. MarkedInUse'
  <2>1. ~store'.mdb.umounted
    BY <1>2, <1>3 DEF Mdb
  <2>2. disk.mdb.umounted => queue'.mdb
    BY <2>1 DEF StartFlush, DirtyBlocks
  <2> QED
    BY <1>1, <1>3, <2>1, <2>2 DEF MarkedInUse
<1> QED
  BY <1>4, <1>5, <1>6, <1>7, <1>8

\* A changing call works on a medium that says "in use".
LEMMA ChangeMarked ==
  ASSUME VolumeInv, Change
  PROVE  /\ Mounted /\ pc \in {"idle", "marked"} /\ ~mem.umounted
         /\ ~store.mdb.umounted /\ ~disk.mdb.umounted
BY DEF VolumeInv, Change, Marked, Mounted, MarkedInUse, UntouchedWhileUmounted

\* What such a call leaves to be shown: it does not touch the medium, so only
\* the memory, the open files and the catalog in the cache matter.
LEMMA ChangeInv ==
  ASSUME VolumeInv, Change, TypeOK',
         ~mem'.ro, ~mem'.umounted, store'.mdb = store.mdb,
         HandlesSound', FlagsRight', InUseMarked', FreeCountRight', NoSharing'
  PROVE  VolumeInv'
<1>1. pc' = "idle" /\ UNCHANGED <<disk, shared>>
  BY DEF Change
<1>2. CleanMeansConsistent'
  BY <1>1, ChangeMarked DEF CleanMeansConsistent
<1>3. MarkedInUse' /\ CacheEmpty' /\ UntouchedWhileUmounted' /\ ClosingSound'
  BY <1>1, ChangeMarked
  DEF MarkedInUse, CacheEmpty, UntouchedWhileUmounted, ClosingSound, Mounted
<1> QED
  BY <1>2, <1>3 DEF VolumeInv

LEMMA CreateInv ==
  ASSUME VolumeInv, NEW f \in File, Create(f), TypeOK'
  PROVE  VolumeInv'
<1> USE DEF VolumeInv, Create
<1>1. /\ mem'.vbm = mem.vbm /\ mem'.free = mem.free /\ mem'.ro = mem.ro
      /\ mem'.umounted = mem.umounted /\ mem'.updMdb /\ mem'.updVbm = mem.updVbm
  BY DEF TypeOK, Memory
<1>2. store'.mdb = store.mdb /\ store'.vbm = store.vbm
  BY DEF TypeOK, Image
<1>3. \A g \in File : Own(g)' \subseteq Own(g)
  BY DEF TypeOK, Image, Record, Handle, Own
<1>4. HandlesSound'
  BY DEF HandlesSound, TypeOK, Handle
<1>5. FlagsRight' /\ FreeCountRight'
  BY <1>1, <1>2, ChangeMarked DEF FlagsRight, FreeCountRight, Change, Mounted
<1>6. NoSharing'
  BY <1>3, OwnShrinks DEF Change
<1>7. InUseMarked'
  BY <1>1, <1>3, ChangeMarked, OwnMarked, OwnMarkedNext DEF Change
<1> QED
  BY <1>1, <1>2, <1>4, <1>5, <1>6, <1>7, ChangeMarked, ChangeInv DEF Mounted

LEMMA OpenInv ==
  ASSUME VolumeInv, NEW f \in File, Open(f), TypeOK'
  PROVE  VolumeInv'
<1> USE DEF VolumeInv, Open
<1>1. \A g \in File : Own(g)' = Own(g)
  BY DEF TypeOK, Handle, Own
<1>2. HandlesSound'
  BY DEF HandlesSound, TypeOK, Handle
<1>3. NoSharing'
  BY <1>1, OwnShrinks
<1>4. InUseMarked'
  BY <1>1 DEF InUseMarked, Live, Mounted
<1>5. UntouchedWhileUmounted'
  BY DEF UntouchedWhileUmounted, Mounted, TypeOK, Handle
<1> QED
  BY <1>2, <1>3, <1>4, <1>5
  DEF CacheEmpty, FlagsRight, MarkedInUse, ClosingSound, FreeCountRight,
      CleanMeansConsistent, Mounted

\* What f_alloc adds to a file was nobody's.
LEMMA WriteInv ==
  ASSUME VolumeInv, NEW f \in File, NEW s \in FreeRuns(mem), NEW used \in SUBSET s \ {{}},
         NEW ok \in BOOLEAN, Write(f, s, used, ok), TypeOK'
  PROVE  VolumeInv'
<1> USE DEF VolumeInv, Write, Extended
<1>1. s \in SUBSET (ABN \ mem.vbm)
  BY DEF FreeRuns
<1>2. /\ mem'.vbm = mem.vbm \cup s /\ mem'.free = mem.free - Cardinality(s)
      /\ mem'.ro = mem.ro /\ mem'.umounted = mem.umounted
      /\ mem'.updMdb /\ mem'.updVbm
  BY DEF TypeOK, Memory, AllocBlocks
<1>3. store'.mdb = store.mdb /\ store'.vbm = store.vbm
  BY DEF TypeOK, Image
<1>4. /\ handle'[f].ext = handle[f].ext \cup s
      /\ handle'[f].open = handle[f].open
      /\ handle'[f].need \subseteq handle[f].need \cup s
      /\ \A g \in File \ {f} : handle'[g] = handle[g]
  BY DEF TypeOK, Handle
<1>5. \A g \in File \ {f} : store'.cat[g] = store.cat[g]
  BY DEF TypeOK, Image
<1>6. Own(f)' = Own(f) \cup s /\ \A g \in File \ {f} : Own(g)' = Own(g)
  <2>1. Own(f)' = Own(f) \cup s
    BY <1>4 DEF Own
  <2>2. ASSUME NEW g \in File \ {f} PROVE Own(g)' = Own(g)
    <3>1. handle'[g] = handle[g] /\ store'.cat[g] = store.cat[g]
      BY <1>4, <1>5
    <3> HIDE DEF Write, Extended, VolumeInv
    <3> QED
      BY <3>1, Zenon DEF Own
  <2> QED
    BY <2>1, <2>2
<1>7. HandlesSound'
  BY <1>4 DEF HandlesSound
<1>8. FlagsRight'
  BY <1>2 DEF FlagsRight
<1>9. FreeCountRight'
  BY <1>1, <1>2, FreeAfterAlloc, ChangeMarked DEF FreeCountRight, Change, Mounted
<1>10. ~shared => \A g \in File : Own(g) \subseteq mem.vbm
  BY ChangeMarked, OwnMarked
<1>11. NoSharing'
  BY <1>1, <1>6, <1>10 DEF NoSharing, Change
<1>12. InUseMarked'
  BY <1>2, <1>6, <1>10, OwnMarkedNext DEF Change
<1> QED
  BY <1>2, <1>3, <1>7, <1>8, <1>9, <1>11, <1>12, ChangeMarked, ChangeInv DEF Mounted

LEMMA TruncateInv ==
  ASSUME VolumeInv, NEW f \in File, NEW keep \in SUBSET handle[f].need,
         Truncate(f, keep), TypeOK'
  PROVE  VolumeInv'
<1> USE DEF VolumeInv, Truncate
<1>1. store'.mdb = store.mdb /\ store'.vbm = store.vbm
  BY DEF TypeOK, Image
<1>2. /\ handle'[f].ext = handle[f].ext /\ handle'[f].open = handle[f].open
      /\ handle'[f].need = keep
      /\ \A g \in File \ {f} : handle'[g] = handle[g]
  BY DEF TypeOK, Handle
<1>3. \A g \in File \ {f} : store'.cat[g] = store.cat[g]
  BY DEF TypeOK, Image
<1>4. \A g \in File : Own(g)' = Own(g)
  BY <1>2, <1>3 DEF Own
<1>5. HandlesSound'
  BY <1>2 DEF HandlesSound
<1>6. FlagsRight' /\ FreeCountRight'
  BY <1>1, ChangeMarked DEF FlagsRight, FreeCountRight, Change, Mounted
<1>7. NoSharing'
  BY <1>4, OwnShrinks DEF Change
<1>8. InUseMarked'
  BY <1>4, ChangeMarked, OwnMarked, OwnMarkedNext DEF Change
<1> QED
  BY <1>1, <1>5, <1>6, <1>7, <1>8, ChangeMarked, ChangeInv DEF Mounted

\* A file gives back some of its blocks: v_freeblocks clears their bits, and
\* these are no other file's.
LEMMA GiveBackInv ==
  ASSUME VolumeInv, Change, TypeOK', NEW f \in File, NEW gone \in SUBSET Own(f),
         NEW m, m = FreeBlocks(mem, gone),
         mem'.vbm = m.vbm, mem'.free = m.free, mem'.ro = m.ro, mem'.umounted = m.umounted,
         mem'.updVbm = m.updVbm, mem'.updMdb \/ mem'.updMdb = m.updMdb,
         store'.mdb = store.mdb, store'.vbm = store.vbm, HandlesSound',
         Own(f)' = Own(f) \ gone, \A g \in File \ {f} : Own(g)' = Own(g)
  PROVE  VolumeInv'
<1> USE DEF VolumeInv
<1>1. Mounted /\ shared' = shared
  BY ChangeMarked DEF Change
<1>2. /\ m.vbm = mem.vbm \ gone /\ m.ro = mem.ro /\ m.umounted = mem.umounted
      /\ m.updVbm \/ store.vbm = m.vbm
      /\ m.updMdb \/ store.mdb = Mdb(m)
  BY <1>1 DEF FreeBlocks, TypeOK, Memory, FlagsRight
<1>3. FlagsRight'
  BY <1>2 DEF FlagsRight, Mdb
<1>4. NoSharing'
  BY <1>1, OwnShrinks
<1>5. FreeCountRight' /\ InUseMarked'
  <2>1. CASE shared
    BY <1>1, <2>1 DEF FreeCountRight, InUseMarked
  <2>2. CASE ~shared
    <3>1. \A g \in File : Own(g) \subseteq mem.vbm
      BY <1>1, <2>2, OwnMarked
    <3>2. \A g \in File : Own(g)' \cap gone = {}
      BY <2>2 DEF NoSharing
    <3>3. \A g \in File : Own(g)' \subseteq mem'.vbm
      BY <1>2, <3>1, <3>2
    <3>4. FreeIn(mem.vbm \ gone) = FreeIn(mem.vbm) + Cardinality(gone)
      BY <3>1, FreeAfterFree DEF TypeOK, Memory
    <3>5. mem.free = FreeIn(mem.vbm)
      BY <1>1, <2>2 DEF FreeCountRight
    <3>6. m.free = FreeIn(m.vbm)
      BY <1>2, <3>4, <3>5 DEF FreeBlocks, TypeOK, Memory
    <3> QED
      BY <3>3, <3>6, OwnMarkedNext DEF FreeCountRight
  <2> QED
    BY <2>1, <2>2
<1> QED
  BY <1>2, <1>3, <1>4, <1>5, ChangeMarked, ChangeInv DEF Mounted

LEMMA SetForkInv ==
  ASSUME VolumeInv, NEW f \in File, SetFork(f), TypeOK'
  PROVE  VolumeInv'
<1> USE DEF VolumeInv, SetFork
<1> DEFINE gone == handle[f].ext \ handle[f].need
<1>1. /\ handle'[f].ext = handle[f].ext \cap handle[f].need
      /\ handle'[f].need = handle[f].need /\ handle'[f].open = handle[f].open
      /\ \A g \in File \ {f} : handle'[g] = handle[g]
  BY DEF TypeOK, Handle
<1>2. HandlesSound'
  BY <1>1 DEF HandlesSound
<1>3. gone \in SUBSET Own(f)
  BY DEF Own
<1>4. Own(f)' = Own(f) \ gone /\ \A g \in File \ {f} : Own(g)' = Own(g)
  BY <1>1 DEF Own
<1> QED
  BY <1>2, <1>3, <1>4, GiveBackInv

LEMMA CloseChangedInv ==
  ASSUME VolumeInv, NEW f \in File, CloseChanged(f), TypeOK'
  PROVE  VolumeInv'
<1> USE DEF VolumeInv, CloseChanged
<1> DEFINE gone == handle[f].ext \ handle[f].need
<1>1. store'.mdb = store.mdb /\ store'.vbm = store.vbm
  BY DEF TypeOK, Image
<1>2. handle'[f] = Closed /\ \A g \in File \ {f} : handle'[g] = handle[g]
  BY DEF TypeOK
<1>3. /\ store'.cat[f].ext = handle[f].need
      /\ \A g \in File \ {f} : store'.cat[g] = store.cat[g]
  BY DEF TypeOK, Image, Record
<1>4. HandlesSound'
  BY <1>2 DEF HandlesSound, Closed
<1>5. gone \in SUBSET Own(f)
  BY DEF Own
<1>6. Own(f)' = Own(f) \ gone /\ \A g \in File \ {f} : Own(g)' = Own(g)
  BY <1>2, <1>3 DEF Own, Closed, HandlesSound
<1> QED
  BY <1>1, <1>4, <1>5, <1>6, GiveBackInv

LEMMA CloseSettledInv ==
  ASSUME VolumeInv, NEW f \in File, CloseSettled(f), TypeOK'
  PROVE  VolumeInv'
<1> USE DEF VolumeInv, CloseSettled
<1>1. handle'[f] = Closed /\ \A g \in File \ {f} : handle'[g] = handle[g]
  BY DEF TypeOK
<1>2. HandlesSound'
  BY <1>1 DEF HandlesSound, Closed
<1>3. \A g \in File : Own(g)' = Own(g)
  BY <1>1 DEF Own, Settled, Closed
<1>4. NoSharing' /\ InUseMarked'
  BY <1>3, OwnShrinks DEF InUseMarked, Live, Mounted
<1>5. UntouchedWhileUmounted' /\ CacheEmpty' /\ ClosingSound'
  BY <1>1 DEF UntouchedWhileUmounted, CacheEmpty, ClosingSound, Mounted, Closed
<1> QED
  BY <1>2, <1>4, <1>5
  DEF FlagsRight, MarkedInUse, FreeCountRight, CleanMeansConsistent, Mounted

LEMMA DeleteInv ==
  ASSUME VolumeInv, NEW f \in File, Delete(f), TypeOK'
  PROVE  VolumeInv'
<1> USE DEF VolumeInv, Delete
<1> DEFINE gone == store.cat[f].ext
           m    == FreeBlocks(mem, gone)
<1>1. store'.mdb = store.mdb /\ store'.vbm = store.vbm
  BY DEF TypeOK, Image
<1>2. store'.cat[f].ext = {} /\ \A g \in File \ {f} : store'.cat[g] = store.cat[g]
  BY DEF TypeOK, Image, NoRec
<1>3. gone \in SUBSET Own(f) /\ Own(f)' = Own(f) \ gone
  BY <1>2 DEF Own
<1>4. \A g \in File \ {f} : Own(g)' = Own(g)
  BY <1>2 DEF Own
<1>5. m \in Memory
  BY FreeType DEF TypeOK, Image, Record
<1>6. /\ mem'.vbm = m.vbm /\ mem'.free = m.free /\ mem'.ro = m.ro
      /\ mem'.umounted = m.umounted /\ mem'.updMdb /\ mem'.updVbm = m.updVbm
  BY <1>5 DEF Memory
<1>7. HandlesSound'
  BY DEF HandlesSound
<1> QED
  BY <1>1, <1>3, <1>4, <1>6, <1>7, GiveBackInv

\* What flushvol does to memory and cache.
LEMMA FlushVolFields ==
  ASSUME TypeOK, NEW umount \in BOOLEAN, FlushVol(umount)
  PROVE  /\ mem'.vbm = mem.vbm /\ mem'.free = mem.free /\ mem'.ro = mem.ro
         /\ mem'.umounted = (umount \/ mem.umounted)
         /\ store'.vbm = (IF mem.updVbm THEN mem.vbm ELSE store.vbm)
         /\ \/ store'.mdb = Mdb(mem')
            \/ ~mem.updMdb /\ mem'.umounted = mem.umounted /\ store'.mdb = store.mdb
         /\ store'.cat = Recorded(store.cat, handle)
         /\ ~mem'.updMdb /\ ~mem'.updVbm
<1> DEFINE m == IF umount /\ ~mem.umounted
                THEN [mem EXCEPT !.umounted = TRUE, !.updMdb = TRUE] ELSE mem
<1>1. m \in Memory
  BY DEF TypeOK, Memory
<1>2. /\ m.vbm = mem.vbm /\ m.free = mem.free /\ m.ro = mem.ro /\ m.updVbm = mem.updVbm
      /\ m.umounted = (umount \/ mem.umounted)
      /\ m.updMdb \/ (m.updMdb = mem.updMdb /\ m.umounted = mem.umounted)
  BY DEF TypeOK, Memory
<1>3. /\ mem' = [m EXCEPT !.updVbm = FALSE, !.updMdb = FALSE]
      /\ store' = [store EXCEPT !.vbm = IF m.updVbm THEN m.vbm ELSE @,
                                !.mdb = IF m.updMdb THEN Mdb(m) ELSE @,
                                !.cat = Recorded(@, handle)]
  BY DEF FlushVol
<1> HIDE DEF m
<1>4. /\ mem'.vbm = m.vbm /\ mem'.free = m.free /\ mem'.ro = m.ro
      /\ mem'.umounted = m.umounted /\ ~mem'.updMdb /\ ~mem'.updVbm
  BY <1>1, <1>3 DEF Memory
<1>5. /\ store'.vbm = (IF m.updVbm THEN m.vbm ELSE store.vbm)
      /\ store'.mdb = (IF m.updMdb THEN Mdb(m) ELSE store.mdb)
      /\ store'.cat = Recorded(store.cat, handle)
  BY <1>3 DEF TypeOK, Image
<1>6. m.updMdb => store'.mdb = Mdb(mem')
  BY <1>4, <1>5 DEF Mdb
<1>7. ~m.updMdb => ~mem.updMdb /\ mem'.umounted = mem.umounted /\ store'.mdb = store.mdb
  BY <1>2, <1>4, <1>5
<1> QED
  BY <1>2, <1>4, <1>5, <1>6, <1>7

\* After flushvol the cache holds the bitmap and the MDB of the memory.
LEMMA FlushVolStore ==
  ASSUME TypeOK, FlagsRight, Mounted, NEW umount \in BOOLEAN, FlushVol(umount)
  PROVE  /\ mem'.vbm = mem.vbm /\ mem'.free = mem.free /\ mem'.ro = mem.ro
         /\ mem'.umounted = (umount \/ mem.umounted)
         /\ store'.vbm = mem'.vbm /\ store'.mdb = Mdb(mem')
         /\ store'.cat = Recorded(store.cat, handle)
         /\ ~mem'.updMdb /\ ~mem'.updVbm
BY FlushVolFields DEF FlagsRight, Mdb

\* Neither does flushvol.
LEMMA FlushVolOwn ==
  ASSUME TypeOK, store'.cat = Recorded(store.cat, handle), handle' = handle, NEW f \in File
  PROVE  Own(f)' = Own(f)
BY RecordedFields DEF Own

LEMMA VFlushInv ==
  ASSUME VolumeInv, VFlush, TypeOK'
  PROVE  VolumeInv'
<1> USE DEF VFlush
<1>1. Mounted
  BY DEF Mounted
<1>2. /\ mem'.vbm = mem.vbm /\ mem'.free = mem.free /\ mem'.ro = mem.ro
      /\ mem'.umounted = mem.umounted
      /\ store'.vbm = mem'.vbm /\ store'.mdb = Mdb(mem')
      /\ store'.cat = Recorded(store.cat, handle)
      /\ ~mem'.updMdb /\ ~mem'.updVbm
  BY <1>1, FlushVolStore DEF VolumeInv, TypeOK, Memory
<1>3. \A f \in File : Own(f)' = Own(f)
  BY <1>2, FlushVolOwn DEF VolumeInv
<1> USE DEF VolumeInv
<1>4. HandlesSound' /\ CacheEmpty' /\ FlagsRight' /\ ClosingSound'
  BY <1>2 DEF HandlesSound, CacheEmpty, FlagsRight, ClosingSound, Mounted
<1>5. InUseMarked' /\ FreeCountRight' /\ NoSharing' /\ CleanMeansConsistent'
  BY <1>1, <1>2, <1>3, OwnShrinks
  DEF InUseMarked, Live, FreeCountRight, CleanMeansConsistent, Mounted
<1>6. CASE mem.umounted
  <2>1. store = disk /\ store'.mdb = store.mdb /\ store'.vbm = store.vbm
    BY <1>1, <1>2, <1>6 DEF UntouchedWhileUmounted, FlagsRight, Mdb
  <2>2. \A f \in File : store'.cat[f] = store.cat[f]
    <3>1. ASSUME NEW f \in File PROVE ~handle[f].open \/ handle[f].ext = store.cat[f].ext
      BY <1>1, <1>6 DEF UntouchedWhileUmounted
    <3> QED
      BY <1>2, <3>1, RecordedFields
  <2>3. store' = disk
    BY <2>1, <2>2, SameCat DEF TypeOK, Image
  <2> QED
    BY <1>1, <1>2, <1>4, <1>5, <1>6, <2>2, <2>3 DEF UntouchedWhileUmounted, MarkedInUse
<1>7. CASE ~mem.umounted
  <2>1. ~store'.mdb.umounted
    BY <1>2, <1>7 DEF Mdb
  <2>2. MarkedInUse' /\ UntouchedWhileUmounted'
    BY <1>1, <1>2, <1>7, <2>1 DEF MarkedInUse, UntouchedWhileUmounted, Mounted
  <2> QED
    BY <1>4, <1>5, <2>2
<1> QED
  BY <1>6, <1>7

\* v_close begins with a cache that holds a consistent volume.
LEMMA VCloseInv ==
  ASSUME VolumeInv, VClose, TypeOK'
  PROVE  VolumeInv'
<1> USE DEF VClose
<1>1. CASE mem.ro
  BY <1>1
  DEF VolumeInv, HandlesSound, CacheEmpty, FlagsRight, UntouchedWhileUmounted, MarkedInUse,
      ClosingSound, InUseMarked, FreeCountRight, NoSharing, CleanMeansConsistent, Live, Own,
      Mounted
<1>2. CASE ~mem.ro
  <2>1. Mounted
    BY <1>2 DEF Mounted
  <2>2. /\ mem'.vbm = mem.vbm /\ mem'.free = mem.free /\ ~mem'.ro /\ mem'.umounted
        /\ store'.vbm = mem'.vbm /\ store'.mdb = Mdb(mem')
        /\ store'.cat = Recorded(store.cat, handle)
    BY <1>2, <2>1, FlushVolStore DEF VolumeInv
  <2>3. /\ pc' = "closing" /\ UNCHANGED <<handle, disk, shared>>
        /\ queue' = DirtyBlocks(store', disk)
    BY <1>2 DEF StartFlush
  <2>4. \A f \in File : Own(f)' = Own(f) /\ Own(f)' = store'.cat[f].ext
    BY <2>2, <2>3, FlushVolOwn DEF VolumeInv, Own
  <2> USE DEF VolumeInv
  <2>5. HandlesSound' /\ CacheEmpty' /\ FlagsRight' /\ UntouchedWhileUmounted' /\ MarkedInUse'
    BY <2>2, <2>3
    DEF HandlesSound, CacheEmpty, FlagsRight, UntouchedWhileUmounted, MarkedInUse, Mounted
  <2>6. InUseMarked' /\ FreeCountRight' /\ NoSharing' /\ CleanMeansConsistent'
    BY <2>1, <2>2, <2>3, <2>4, OwnShrinks
    DEF InUseMarked, Live, FreeCountRight, CleanMeansConsistent
  <2>7. ~shared => Consistent(store')
    <3>1. ~shared => \A f \in File : store'.cat[f].ext \subseteq store'.vbm
      BY <2>1, <2>2, <2>4, OwnMarked
    <3>2. ~shared => Refs(store'.cat) \subseteq store'.vbm
      BY <3>1, RefsCovered, Zenon
    <3> QED
      BY <2>1, <2>2, <3>2 DEF FreeCountRight, Consistent, Mdb
  <2>8. ClosingSound'
    <3>1. store'.mdb.umounted
      BY <2>2 DEF Mdb
    <3>2. /\ queue'.mdb \/ disk.mdb = store'.mdb
          /\ queue'.vbm \/ disk.vbm = store'.vbm
          /\ \A f \in File : f \in queue'.cat \/ disk.cat[f] = store'.cat[f]
      BY <2>3 DEF DirtyBlocks
    <3> QED
      BY <2>2, <2>3, <2>7, <3>1, <3>2 DEF ClosingSound
  <2> QED
    BY <2>5, <2>6, <2>8
<1> QED
  BY <1>1, <1>2

\* What a crash leaves on the medium is consistent or marked "in use".
LEMMA CrashInv ==
  ASSUME VolumeInv, FaultFree, Crash, TypeOK'
  PROVE  VolumeInv'
<1> USE DEF VolumeInv, Crash, LoseCache
<1>1. \A f \in File : handle'[f] = Closed
  OBVIOUS
<1>2. pc' = "down" /\ store' = disk /\ disk' = disk /\ pc # "closing"
  BY DEF FaultFree
<1>3. HandlesSound' /\ CacheEmpty'
  BY <1>1, <1>2 DEF HandlesSound, CacheEmpty, Closed
<1>4. CleanMeansConsistent'
  BY <1>2 DEF CleanMeansConsistent
<1>5. NoSharing'
  BY <1>1, <1>2 DEF NoSharing, Own, Shares, Closed
<1> QED
  BY <1>2, <1>3, <1>4, <1>5
  DEF FlagsRight, UntouchedWhileUmounted, MarkedInUse, ClosingSound, InUseMarked,
      FreeCountRight, Mounted

\* A call fails half way only if a bucket could not be written.
LEMMA FailedCallNeedsErrors == FailedCall => IOErrors
BY DEF FailedCall, VDirtyFails, ChangeFails, FlushFails, CloseUnstored, DeleteFails,
       CreateFails, WriteUnstored, TruncateUnstored, VFlushFails, VCloseFails

LEMMA NextInv == VolumeInv /\ FaultFree /\ [Next]_vars => VolumeInv'
<1> SUFFICES ASSUME VolumeInv, FaultFree, [Next]_vars PROVE VolumeInv'
  OBVIOUS
<1>1. TypeOK'
  BY NextType DEF VolumeInv
<1>2. CASE \E ro \in BOOLEAN : Mount(ro)
  BY <1>1, <1>2, MountInv
<1>3. CASE \/ \E ok \in BOOLEAN : FlushMdb(ok) \/ FlushVbm(ok)
           \/ \E f \in File, ok \in BOOLEAN : FlushCat(f, ok)
           \/ Evict
  BY <1>1, <1>3, FlushCatchesUp, CatchUpInv DEF VolumeInv
<1>4. CASE FlushDone \/ VDirty \/ VFlush \/ VClose \/ Crash
  BY <1>1, <1>4, FlushDoneInv, VDirtyInv, VFlushInv, VCloseInv, CrashInv
<1>5. ASSUME NEW f \in File,
             Create(f) \/ Open(f) \/ Delete(f) \/ SetFork(f) \/ CloseChanged(f) \/ CloseSettled(f)
      PROVE  VolumeInv'
  BY <1>1, <1>5, CreateInv, OpenInv, DeleteInv, SetForkInv, CloseChangedInv, CloseSettledInv
<1>6. ASSUME NEW f \in File, NEW s \in FreeRuns(mem), NEW used \in SUBSET s \ {{}},
             NEW ok \in BOOLEAN, Write(f, s, used, ok)
      PROVE  VolumeInv'
  BY <1>1, <1>6, WriteInv
<1>7. ASSUME NEW f \in File, NEW keep \in SUBSET handle[f].need, Truncate(f, keep)
      PROVE  VolumeInv'
  BY <1>1, <1>7, TruncateInv
<1>8. CASE UNCHANGED vars
  BY <1>8
  DEF VolumeInv, TypeOK, HandlesSound, CacheEmpty, FlagsRight, UntouchedWhileUmounted,
      MarkedInUse, ClosingSound, InUseMarked, FreeCountRight, NoSharing,
      CleanMeansConsistent, Live, Own, Mounted, vars
<1>9. ~FailedCall
  BY FailedCallNeedsErrors DEF FaultFree
<1> QED
  BY <1>2, <1>3, <1>4, <1>5, <1>6, <1>7, <1>8, <1>9, Zenon DEF Next

\* Only the writes of single blocks change the medium.
LEMMA NextDisk == ASSUME TypeOK, FaultFree, Next PROVE CatchUp \/ disk' = disk
<1>1. CASE \/ \E ok \in BOOLEAN : FlushMdb(ok) \/ FlushVbm(ok)
           \/ \E f \in File, ok \in BOOLEAN : FlushCat(f, ok)
           \/ Evict
  BY <1>1, FlushCatchesUp
<1>2. CASE \/ \E ro \in BOOLEAN : Mount(ro)
           \/ FlushDone \/ VDirty \/ VFlush \/ VClose \/ Crash
  BY <1>2 DEF Mount, FlushDone, VDirty, VFlush, VClose, Crash
<1>3. ASSUME NEW f \in File,
             Create(f) \/ Open(f) \/ Delete(f) \/ SetFork(f) \/ CloseChanged(f) \/ CloseSettled(f)
      PROVE  disk' = disk
  BY <1>3 DEF Create, Open, Delete, SetFork, CloseChanged, CloseSettled, Change
<1>4. ASSUME NEW f \in File, NEW s \in FreeRuns(mem), NEW used \in SUBSET s \ {{}},
             NEW ok \in BOOLEAN, Write(f, s, used, ok)
      PROVE  disk' = disk
  BY <1>4 DEF Write, Change
<1>5. ASSUME NEW f \in File, NEW keep \in SUBSET handle[f].need, Truncate(f, keep)
      PROVE  disk' = disk
  BY <1>5 DEF Truncate, Change
<1>6. ~FailedCall
  BY FailedCallNeedsErrors DEF FaultFree
<1> QED
  BY <1>1, <1>2, <1>3, <1>4, <1>5, <1>6, Zenon DEF Next

-----------------------------------------------------------------------------
(***************************************************************************)
(* The account of the space, whatever writes and calls fail, until changes *)
(* are lost.  That the medium may be behind the cache does not matter for  *)
(* it: only a b_finish that could not write everything and a crash make    *)
(* the library read the medium again.                                      *)
(***************************************************************************)
\* No two files have a common block.
Apart == \A f, g \in File : f # g => Own(f) \cap Own(g) = {}

\* What of the space flushvol would not write again is in the cache already.
FreeFlagsRight ==
  Mounted => /\ mem.updVbm \/ store.vbm = mem.vbm
             /\ mem.updMdb \/ store.mdb.free = mem.free

\* The blocks of the volume as the library reads them agree with each other.
StoreExact == store.vbm = Refs(store.cat) /\ store.mdb.free = FreeIn(store.vbm)

\* A name without a file has no blocks and is not open.
DeadHoldNothing ==
  \A f \in File : ~store.cat[f].live => store.cat[f].ext = {} /\ ~handle[f].open

\* What accounts for all space until changes are lost, in every phase of a mount.
Accounted ==
  /\ HandlesSound /\ FreeFlagsRight /\ Apart
  /\ pc # "down" /\ mem.ro => pc = "idle"
  /\ pc \in {"down", "closing"} => \A f \in File : ~handle[f].open
  /\ DeadHoldNothing
  /\ ~Mounted => StoreExact
  /\ Mounted => mem.vbm = Live /\ mem.free = FreeIn(mem.vbm)

AccountedInv == TypeOK /\ (~lost => Accounted)

\* A freshly formatted volume is accounted for.
LEMMA InitAccounted == Init => AccountedInv
<1> SUFFICES ASSUME Init PROVE AccountedInv
  OBVIOUS
<1>1. TypeOK
  BY InitType
<1>2. Refs(store.cat) = {}
  BY DEF Init, NoRec, Refs
<1>3. FreeIn({}) = NBlocks
  BY FS_Interval, VolumeAssumption DEF FreeIn, ABN
<1>4. Apart
  BY DEF Init, Apart, Own, NoRec, Closed
<1>5. HandlesSound
  BY DEF Init, HandlesSound, Closed
<1>6. StoreExact
  BY <1>2, <1>3 DEF Init, StoreExact
<1>7. DeadHoldNothing /\ \A f \in File : ~handle[f].open
  BY DEF Init, DeadHoldNothing, NoRec, Closed
<1> QED
  BY <1>1, <1>4, <1>5, <1>6, <1>7 DEF Init, AccountedInv, Accounted, FreeFlagsRight, Mounted

\* Without open files the blocks in use are those of the catalog.
LEMMA ClosedLive ==
  ASSUME \A f \in File : ~handle[f].open
  PROVE  Live = Refs(store.cat)
BY DEF Live, Refs, Own

\* A step after which every file has the blocks it had.
LEMMA SameOwn ==
  ASSUME \A f \in File : Own(f)' = Own(f)
  PROVE  Live' = Live /\ (Apart => Apart')
BY DEF Live, Apart

\* A file gets blocks that were nobody's.
LEMMA GrownOwn ==
  ASSUME NEW f \in File, NEW s, s \cap Live = {}, Own(f)' = Own(f) \cup s,
         \A g \in File \ {f} : Own(g)' = Own(g)
  PROVE  Live' = Live \cup s /\ (Apart => Apart')
<1>1. Live' = Live \cup s
  BY DEF Live
<1>2. \A g \in File : Own(g) \cap s = {}
  BY DEF Live
<1> QED
  BY <1>1, <1>2 DEF Apart

\* A file gives up some of its blocks.
LEMMA ShrunkOwn ==
  ASSUME Apart, NEW f \in File, NEW s \in SUBSET Own(f), Own(f)' = Own(f) \ s,
         \A g \in File \ {f} : Own(g)' = Own(g)
  PROVE  Live' = Live \ s /\ s \subseteq Live /\ Apart'
<1>1. \A g \in File \ {f} : Own(g) \cap s = {}
  BY DEF Apart
<1>2. s \subseteq Live
  BY DEF Live
<1>3. Live' = Live \ s
  BY <1>1 DEF Live
<1>4. Apart'
  BY DEF Apart
<1> QED
  BY <1>2, <1>3, <1>4

\* What v_mount loads is exact, and what it scavenges stays so.
LEMMA MountAccounted ==
  ASSUME TypeOK, Accounted, NEW ro \in BOOLEAN, Mount(ro)
  PROVE  Accounted'
<1> USE DEF Mount
<1>1. \A f \in File : ~handle[f].open
  BY DEF Accounted
<1>2. StoreExact /\ Live = Refs(store.cat)
  BY <1>1, ClosedLive DEF Accounted, Mounted
<1>3. UNCHANGED <<handle, store>> /\ pc' = "idle"
  OBVIOUS
<1>4. Live' = Live /\ Apart'
  BY <1>3, SameOwn DEF Accounted, Own
<1>5. HandlesSound' /\ DeadHoldNothing'
  BY <1>3 DEF Accounted, HandlesSound, DeadHoldNothing
<1>6. StoreExact'
  BY <1>2, <1>3 DEF StoreExact
<1>7. store.mdb = [umounted |-> store.mdb.umounted, free |-> store.mdb.free]
  BY MdbFields DEF TypeOK
<1>8. mem'.vbm = Live' /\ mem'.free = FreeIn(mem'.vbm) /\ FreeFlagsRight'
  <2>1. CASE ~store.mdb.umounted /\ ~ro
    <3>1. mem' = Scavenged(store)
      BY <2>1
    <3>2. mem'.vbm = Live' /\ mem'.free = FreeIn(mem'.vbm)
      BY <1>2, <1>4, <3>1 DEF Scavenged, StoreExact
    <3>3. mem'.updMdb = (store.mdb.free # mem'.free) /\ mem'.updVbm
      BY <3>1 DEF Scavenged
    <3>4. store.mdb.umounted = FALSE /\ mem'.umounted = FALSE
      BY <2>1, <3>1 DEF TypeOK, Image, Scavenged
    <3>5. store.mdb.free = mem'.free => store.mdb = Mdb(mem')
      BY <1>7, <3>4 DEF Mdb
    <3> QED
      BY <1>3, <3>2, <3>3, <3>5 DEF FreeFlagsRight, Mdb
  <2>2. CASE store.mdb.umounted \/ ro
    <3>1. mem' = Loaded(store, ro)
      BY <2>2
    <3>2. mem'.vbm = Live' /\ mem'.free = FreeIn(mem'.vbm)
      BY <1>2, <1>4, <3>1 DEF Loaded, StoreExact
    <3>3. store.vbm = mem'.vbm /\ store.mdb = Mdb(mem')
      BY <1>7, <3>1 DEF Loaded, Mdb
    <3> QED
      BY <1>3, <3>2, <3>3 DEF FreeFlagsRight, Mdb
  <2> QED
    BY <2>1, <2>2
<1> QED
  BY <1>3, <1>4, <1>5, <1>6, <1>8 DEF Accounted, Mounted

\* What reaches the medium does not matter until the cache is gone.
LEMMA DiskAccounted ==
  ASSUME Accounted, UNCHANGED <<pc, mem, handle, store>>
  PROVE  Accounted'
BY DEF Accounted, HandlesSound, FreeFlagsRight, Apart, DeadHoldNothing, StoreExact, Mounted,
    Live, Own

\* The end of a b_flush: after v_close's, all is on the medium or changes are lost.
LEMMA FlushDoneAccounted ==
  ASSUME TypeOK, Accounted, FlushDone, ~lost'
  PROVE  Accounted'
<1> USE DEF FlushDone, Flushing
<1>1. CASE pc = "closing"
  <2>1. /\ store = disk /\ store' = store /\ handle' = handle /\ pc' = "down"
        /\ ~mem.updMdb /\ ~mem.updVbm
    BY <1>1 DEF LoseCache
  <2>2. Mounted /\ \A f \in File : ~handle[f].open
    BY <1>1 DEF Accounted, Mounted
  <2>3. store.vbm = mem.vbm /\ store.mdb.free = mem.free
    BY <2>1, <2>2 DEF Accounted, FreeFlagsRight
  <2>4. store.vbm = Refs(store.cat)
    BY <2>2, <2>3, ClosedLive DEF Accounted
  <2>5. store.mdb.free = FreeIn(store.vbm)
    BY <2>2, <2>3 DEF Accounted
  <2>6. StoreExact'
    BY <2>1, <2>4, <2>5 DEF StoreExact
  <2>7. Apart' /\ HandlesSound' /\ DeadHoldNothing'
    BY <2>1, SameOwn DEF Accounted, Own, HandlesSound, DeadHoldNothing
  <2> QED
    BY <2>1, <2>2, <2>6, <2>7 DEF Accounted, Mounted, FreeFlagsRight
<1>2. CASE pc # "closing"
  <2>1. UNCHANGED <<mem, handle, store>> /\ pc' \in {"idle", "marked"} /\ Mounted /\ Mounted'
    BY <1>2 DEF Accounted, Mounted
  <2>2. Live' = Live /\ Apart' /\ HandlesSound' /\ DeadHoldNothing'
    BY <2>1, SameOwn DEF Accounted, Own, HandlesSound, DeadHoldNothing
  <2>3. FreeFlagsRight'
    BY <2>1 DEF Accounted, FreeFlagsRight
  <2> QED
    BY <2>1, <2>2, <2>3 DEF Accounted, Mounted
<1> QED
  BY <1>1, <1>2

\* v_dirty changes no more than the "unmounted" bit.
LEMMA VDirtyAccounted ==
  ASSUME TypeOK, Accounted, VDirty
  PROVE  Accounted'
<1> USE DEF VDirty
<1>1. mem'.free = mem.free /\ mem'.vbm = mem.vbm /\ ~mem'.ro /\ mem'.updVbm = mem.updVbm
  BY DEF TypeOK, Memory
<1>2. store'.mdb = Mdb(mem') /\ store'.vbm = store.vbm /\ store'.cat = store.cat
  BY DEF TypeOK, Image
<1>3. Mounted /\ Mounted' /\ pc' = "dirtying" /\ handle' = handle
  BY <1>1 DEF Mounted
<1>4. Live' = Live /\ Apart' /\ HandlesSound' /\ DeadHoldNothing'
  BY <1>2, <1>3, SameOwn DEF Accounted, Own, HandlesSound, DeadHoldNothing
<1>5. FreeFlagsRight'
  BY <1>1, <1>2, <1>3 DEF Accounted, FreeFlagsRight, Mdb
<1> QED
  BY <1>1, <1>3, <1>4, <1>5 DEF Accounted, Mounted

\* What a changing call finds and leaves behind, whether or not it fails.
Changing == Marked /\ ~mem.ro /\ pc' = "idle"

LEMMA ChangesAreChanging == Change \/ ChangeFails => Changing
BY DEF Change, ChangeFails, Changing

\* A changing call needs a volume mounted for writing, and leaves it mounted.
LEMMA ChangeAccounted ==
  ASSUME Accounted, Changing, ~mem'.ro,
         HandlesSound', FreeFlagsRight', Apart', DeadHoldNothing',
         mem'.vbm = Live', mem'.free = FreeIn(mem'.vbm)
  PROVE  Accounted'
BY DEF Accounted, Changing, Mounted

\* What such a call finds.
LEMMA ChangeMounted ==
  ASSUME Accounted, Changing
  PROVE  /\ Mounted /\ Apart /\ HandlesSound /\ DeadHoldNothing
         /\ mem.vbm = Live /\ mem.free = FreeIn(mem.vbm)
         /\ mem.updVbm \/ store.vbm = mem.vbm
         /\ mem.updMdb \/ store.mdb.free = mem.free
BY DEF Accounted, Changing, Marked, Mounted, FreeFlagsRight

\* A call that leaves memory and cache as they are.
LEMMA StillAccounted ==
  ASSUME Accounted, Changing, UNCHANGED <<mem, handle, store>>
  PROVE  Accounted'
<1>1. /\ Mounted /\ Apart /\ HandlesSound /\ DeadHoldNothing
      /\ mem.vbm = Live /\ mem.free = FreeIn(mem.vbm)
  BY ChangeMounted
<1>2. Live' = Live /\ Apart'
  BY <1>1, SameOwn DEF Own
<1>3. HandlesSound' /\ DeadHoldNothing' /\ FreeFlagsRight'
  BY <1>1, ChangeMounted DEF HandlesSound, DeadHoldNothing, FreeFlagsRight
<1> QED
  BY <1>1, <1>2, <1>3, ChangeAccounted DEF Mounted

LEMMA CreateAccounted ==
  ASSUME TypeOK, Accounted, NEW f \in File, Create(f)
  PROVE  Accounted'
<1> USE DEF Create
<1>0. Changing
  BY ChangesAreChanging
<1>1. /\ mem'.vbm = mem.vbm /\ mem'.free = mem.free /\ mem'.ro = mem.ro
      /\ mem'.updMdb /\ mem'.updVbm = mem.updVbm
  BY DEF TypeOK, Memory
<1>2. /\ store'.vbm = store.vbm /\ store'.cat[f] = [live |-> TRUE, ext |-> {}]
      /\ \A g \in File \ {f} : store'.cat[g] = store.cat[g]
  BY DEF TypeOK, Image
<1>3. /\ handle'[f] = [open |-> TRUE, ext |-> {}, need |-> {}]
      /\ \A g \in File \ {f} : handle'[g] = handle[g]
  BY DEF TypeOK
<1>4. HandlesSound' /\ DeadHoldNothing'
  BY <1>0, <1>2, <1>3, ChangeMounted DEF HandlesSound, DeadHoldNothing
<1>5. FreeFlagsRight'
  BY <1>0, <1>1, <1>2, ChangeMounted DEF FreeFlagsRight
<1>6. Own(f) = {} /\ Own(f)' = {}
  BY <1>0, <1>3, ChangeMounted DEF Own, DeadHoldNothing
<1>8. ASSUME NEW g \in File \ {f} PROVE Own(g)' = Own(g)
  <2>1. handle'[g] = handle[g] /\ store'.cat[g] = store.cat[g]
    BY <1>2, <1>3
  <2> HIDE DEF Create
  <2> QED
    BY <2>1, Zenon DEF Own
<1>7. \A g \in File : Own(g)' = Own(g)
  BY <1>6, <1>8
<1> QED
  BY <1>0, <1>1, <1>4, <1>5, <1>7, SameOwn, ChangeMounted, ChangeAccounted DEF Mounted

LEMMA OpenAccounted ==
  ASSUME TypeOK, Accounted, NEW f \in File, Open(f)
  PROVE  Accounted'
<1> USE DEF Open
<1>1. /\ handle'[f].open /\ handle'[f].ext = store.cat[f].ext
      /\ handle'[f].need = store.cat[f].ext
      /\ \A g \in File \ {f} : handle'[g] = handle[g]
  BY DEF TypeOK
<1>2. HandlesSound' /\ DeadHoldNothing'
  BY <1>1 DEF Accounted, HandlesSound, DeadHoldNothing
<1>3. \A g \in File : Own(g)' = Own(g)
  BY <1>1 DEF Own
<1>4. Live' = Live /\ Apart'
  BY <1>3, SameOwn DEF Accounted
<1> QED
  BY <1>2, <1>4 DEF Accounted, FreeFlagsRight, Mounted, StoreExact

LEMMA CloseSettledAccounted ==
  ASSUME TypeOK, Accounted, NEW f \in File, CloseSettled(f)
  PROVE  Accounted'
<1> USE DEF CloseSettled
<1>1. handle'[f] = Closed /\ \A g \in File \ {f} : handle'[g] = handle[g]
  BY DEF TypeOK
<1>2. HandlesSound' /\ DeadHoldNothing'
  BY <1>1 DEF Accounted, HandlesSound, DeadHoldNothing, Closed
<1>3. \A g \in File : Own(g)' = Own(g)
  BY <1>1 DEF Own, Settled, Closed
<1>4. Live' = Live /\ Apart'
  BY <1>3, SameOwn DEF Accounted
<1> QED
  BY <1>2, <1>4 DEF Accounted, FreeFlagsRight, Mounted, StoreExact

\* An open file gets a free run, whether or not its record is stored.
LEMMA GrowAccounted ==
  ASSUME TypeOK, Accounted, Changing, NEW f \in File, handle[f].open,
         NEW s \in FreeRuns(mem), NEW used \in SUBSET s, NEW ok \in BOOLEAN,
         mem' = AllocBlocks(mem, s),
         handle' = [handle EXCEPT ![f] = Extended(@, s, used, ok)],
         store' = store \/ store' = [store EXCEPT !.cat[f].ext = handle'[f].ext]
  PROVE  Accounted'
<1> USE DEF Extended
<1>1. s \in SUBSET (ABN \ mem.vbm)
  BY DEF FreeRuns
<1>2. /\ mem'.vbm = mem.vbm \cup s /\ mem'.free = mem.free - Cardinality(s)
      /\ mem'.ro = mem.ro /\ mem'.updMdb /\ mem'.updVbm
  BY DEF TypeOK, Memory, AllocBlocks
<1>3. /\ handle'[f].ext = handle[f].ext \cup s
      /\ handle'[f].open = handle[f].open
      /\ handle'[f].need \subseteq handle[f].need \cup s
      /\ \A g \in File \ {f} : handle'[g] = handle[g]
  BY DEF TypeOK, Handle
<1>4. /\ store'.cat[f].live = store.cat[f].live
      /\ \A g \in File \ {f} : store'.cat[g] = store.cat[g]
  BY DEF TypeOK, Image, Record
<1>5. HandlesSound'
  BY <1>3, ChangeMounted DEF HandlesSound
<1>6. DeadHoldNothing'
  BY <1>3, <1>4, ChangeMounted DEF DeadHoldNothing
<1>7. FreeFlagsRight'
  BY <1>2 DEF FreeFlagsRight
<1>8. Own(f)' = Own(f) \cup s
  BY <1>3 DEF Own
<1>9. ASSUME NEW g \in File \ {f} PROVE Own(g)' = Own(g)
  <2>1. handle'[g] = handle[g] /\ store'.cat[g] = store.cat[g]
    BY <1>3, <1>4
  <2> HIDE DEF Extended
  <2> QED
    BY <2>1 DEF Own
<1>10. mem.vbm = Live /\ mem.free = FreeIn(mem.vbm) /\ Mounted /\ Apart
  BY ChangeMounted
<1>11. Live' = Live \cup s /\ Apart'
  BY <1>1, <1>8, <1>9, <1>10, GrownOwn
<1>12. mem'.free = FreeIn(mem'.vbm)
  BY <1>1, <1>2, <1>10, FreeAfterAlloc
<1> QED
  BY <1>2, <1>5, <1>6, <1>7, <1>10, <1>11, <1>12, ChangeAccounted DEF Mounted

LEMMA WriteAccounted ==
  ASSUME TypeOK, Accounted, NEW f \in File, NEW s \in FreeRuns(mem),
         NEW used \in SUBSET s \ {{}}, NEW ok \in BOOLEAN,
         Write(f, s, used, ok) \/ WriteUnstored(f, s, used)
  PROVE  Accounted'
<1>1. Changing
  BY ChangesAreChanging DEF Write, WriteUnstored
<1>2. CASE Write(f, s, used, ok)
  BY <1>1, <1>2, GrowAccounted DEF Write
<1>3. CASE WriteUnstored(f, s, used)
  BY <1>1, <1>3, GrowAccounted DEF WriteUnstored
<1> QED
  BY <1>2, <1>3

LEMMA TruncateAccounted ==
  ASSUME TypeOK, Accounted, NEW f \in File, NEW keep \in SUBSET handle[f].need,
         Truncate(f, keep) \/ TruncateUnstored(f, keep)
  PROVE  Accounted'
<1> USE DEF Truncate, TruncateUnstored
<1>0. Changing
  BY ChangesAreChanging
<1>1. store'.mdb = store.mdb /\ store'.vbm = store.vbm
  BY DEF TypeOK, Image
<1>2. /\ handle'[f].ext = handle[f].ext /\ handle'[f].open = handle[f].open
      /\ handle'[f].need = keep
      /\ \A g \in File \ {f} : handle'[g] = handle[g]
  BY DEF TypeOK, Handle
<1>3. /\ store'.cat[f].live = store.cat[f].live
      /\ \A g \in File \ {f} : store'.cat[g] = store.cat[g]
  BY DEF TypeOK, Image, Record
<1>4. \A g \in File : Own(g)' = Own(g)
  BY <1>2, <1>3 DEF Own
<1>5. HandlesSound' /\ DeadHoldNothing'
  BY <1>0, <1>2, <1>3, ChangeMounted DEF HandlesSound, DeadHoldNothing
<1>6. FreeFlagsRight'
  BY <1>0, <1>1, ChangeMounted DEF FreeFlagsRight
<1> QED
  BY <1>0, <1>4, <1>5, <1>6, SameOwn, ChangeMounted, ChangeAccounted DEF Mounted

\* A file gives back some of its blocks, which are no other file's.
LEMMA GiveBackAccounted ==
  ASSUME TypeOK, Accounted, Changing, NEW f \in File, NEW gone \in SUBSET Own(f),
         NEW m, m = FreeBlocks(mem, gone),
         mem'.vbm = m.vbm, mem'.free = m.free, mem'.ro = m.ro,
         mem'.updVbm = m.updVbm, mem'.updMdb \/ mem'.updMdb = m.updMdb,
         store'.mdb = store.mdb, store'.vbm = store.vbm, HandlesSound', DeadHoldNothing',
         Own(f)' = Own(f) \ gone, \A g \in File \ {f} : Own(g)' = Own(g)
  PROVE  Accounted'
<1>1. mem.vbm = Live /\ mem.free = FreeIn(mem.vbm) /\ Mounted /\ Apart
  BY ChangeMounted
<1>2. Live' = Live \ gone /\ gone \subseteq Live /\ Apart'
  BY <1>1, ShrunkOwn
<1>3. /\ m.vbm = mem.vbm \ gone /\ m.ro = mem.ro
      /\ m.updVbm \/ store.vbm = m.vbm
      /\ m.updMdb \/ store.mdb.free = m.free
  BY <1>1, ChangeMounted DEF FreeBlocks, TypeOK, Memory
<1>4. FreeFlagsRight'
  BY <1>3 DEF FreeFlagsRight
<1>5. FreeIn(mem.vbm \ gone) = FreeIn(mem.vbm) + Cardinality(gone)
  BY <1>1, <1>2, FreeAfterFree DEF TypeOK, Memory
<1>6. m.free = FreeIn(m.vbm)
  BY <1>1, <1>3, <1>5 DEF FreeBlocks, TypeOK, Memory
<1> QED
  BY <1>1, <1>2, <1>3, <1>4, <1>6, ChangeAccounted DEF Mounted

LEMMA SetForkAccounted ==
  ASSUME TypeOK, Accounted, NEW f \in File, SetFork(f)
  PROVE  Accounted'
<1> USE DEF SetFork
<1>0. Changing
  BY ChangesAreChanging
<1> DEFINE gone == handle[f].ext \ handle[f].need
<1>1. /\ handle'[f].ext = handle[f].ext \cap handle[f].need
      /\ handle'[f].need = handle[f].need /\ handle'[f].open = handle[f].open
      /\ \A g \in File \ {f} : handle'[g] = handle[g]
  BY DEF TypeOK, Handle
<1>2. HandlesSound' /\ DeadHoldNothing'
  BY <1>0, <1>1, ChangeMounted DEF HandlesSound, DeadHoldNothing
<1>3. gone \in SUBSET Own(f)
  BY DEF Own
<1>4. Own(f)' = Own(f) \ gone /\ \A g \in File \ {f} : Own(g)' = Own(g)
  BY <1>1 DEF Own
<1> QED
  BY <1>0, <1>2, <1>3, <1>4, GiveBackAccounted

LEMMA CloseChangedAccounted ==
  ASSUME TypeOK, Accounted, NEW f \in File,
         CloseChanged(f) \/ (CloseUnstored(f) /\ ~lost')
  PROVE  Accounted'
<1> USE DEF CloseChanged, CloseUnstored
<1>0. Changing
  BY ChangesAreChanging
<1> DEFINE gone == handle[f].ext \ handle[f].need
<1>1. store'.mdb = store.mdb /\ store'.vbm = store.vbm
  BY DEF TypeOK, Image
<1>2. handle'[f] = Closed /\ \A g \in File \ {f} : handle'[g] = handle[g]
  BY DEF TypeOK
<1>3. /\ store'.cat[f].ext = handle[f].need /\ store'.cat[f].live = store.cat[f].live
      /\ \A g \in File \ {f} : store'.cat[g] = store.cat[g]
  <2>1. CASE CloseChanged(f)
    BY <2>1 DEF TypeOK, Image, Record
  <2>2. CASE CloseUnstored(f) /\ ~lost'
    BY <2>2
  <2> QED
    BY <2>1, <2>2
<1>4. HandlesSound' /\ DeadHoldNothing'
  BY <1>0, <1>2, <1>3, ChangeMounted DEF HandlesSound, DeadHoldNothing, Closed
<1>5. gone \in SUBSET Own(f)
  BY DEF Own
<1>6. Own(f)' = Own(f) \ gone /\ \A g \in File \ {f} : Own(g)' = Own(g)
  BY <1>0, <1>2, <1>3, ChangeMounted DEF Own, Closed, HandlesSound
<1> QED
  BY <1>0, <1>1, <1>4, <1>5, <1>6, GiveBackAccounted

LEMMA DeleteAccounted ==
  ASSUME TypeOK, Accounted, NEW f \in File, Delete(f)
  PROVE  Accounted'
<1> USE DEF Delete
<1>0. Changing
  BY ChangesAreChanging
<1> DEFINE gone == store.cat[f].ext
           m    == FreeBlocks(mem, gone)
<1>1. store'.mdb = store.mdb /\ store'.vbm = store.vbm
  BY DEF TypeOK, Image
<1>2. store'.cat[f].ext = {} /\ \A g \in File \ {f} : store'.cat[g] = store.cat[g]
  BY DEF TypeOK, Image, NoRec
<1>3. gone \in SUBSET Own(f) /\ Own(f)' = Own(f) \ gone
  BY <1>2 DEF Own
<1>4. \A g \in File \ {f} : Own(g)' = Own(g)
  BY <1>2 DEF Own
<1>5. m \in Memory
  BY FreeType DEF TypeOK, Image, Record
<1>6. /\ mem'.vbm = m.vbm /\ mem'.free = m.free /\ mem'.ro = m.ro
      /\ mem'.updMdb /\ mem'.updVbm = m.updVbm
  BY <1>5 DEF Memory
<1>7. HandlesSound' /\ DeadHoldNothing'
  BY <1>0, <1>2, ChangeMounted DEF HandlesSound, DeadHoldNothing
<1> QED
  BY <1>0, <1>1, <1>3, <1>4, <1>6, <1>7, GiveBackAccounted

\* flushvol leaves memory and cache exact, and agreeing.
LEMMA FlushVolAccounted ==
  ASSUME TypeOK, Accounted, Mounted, handle' = handle, NEW umount \in BOOLEAN,
         FlushVol(umount)
  PROVE  /\ Live' = Live /\ HandlesSound' /\ FreeFlagsRight' /\ Apart' /\ DeadHoldNothing'
         /\ mem'.vbm = Live' /\ mem'.free = FreeIn(mem'.vbm) /\ mem'.ro = mem.ro
<1>1. /\ mem'.vbm = mem.vbm /\ mem'.free = mem.free /\ mem'.ro = mem.ro
      /\ store'.vbm = mem'.vbm /\ store'.mdb.free = mem'.free
      /\ store'.cat = Recorded(store.cat, handle)
  BY FlushVolFields DEF Accounted, FreeFlagsRight, Mdb
<1>2. \A f \in File : Own(f)' = Own(f)
  BY <1>1, FlushVolOwn
<1>3. Live' = Live /\ Apart'
  BY <1>2, SameOwn DEF Accounted
<1>4. FreeFlagsRight' /\ HandlesSound'
  BY <1>1 DEF Accounted, FreeFlagsRight, HandlesSound
<1>5. DeadHoldNothing'
  <2>1. ASSUME NEW f \in File, ~store'.cat[f].live
        PROVE  store'.cat[f].ext = {} /\ ~handle'[f].open
    <3>1. store'.cat[f].live = store.cat[f].live
      BY <1>1 DEF Recorded, TypeOK, Image, Record
    <3>2. store.cat[f].ext = {} /\ ~handle[f].open
      BY <2>1, <3>1 DEF Accounted, DeadHoldNothing
    <3>3. store'.cat[f] = store.cat[f]
      BY <1>1, <3>2 DEF Recorded
    <3> QED
      BY <3>2, <3>3
  <2> QED
    BY <2>1 DEF DeadHoldNothing
<1> QED
  BY <1>1, <1>3, <1>4, <1>5 DEF Accounted

LEMMA VFlushAccounted ==
  ASSUME TypeOK, Accounted, VFlush
  PROVE  Accounted'
<1>1. Mounted /\ handle' = handle /\ FlushVol(FALSE) /\ pc' = "syncing"
  BY DEF VFlush, Mounted
<1>2. /\ Live' = Live /\ HandlesSound' /\ FreeFlagsRight' /\ Apart' /\ DeadHoldNothing'
      /\ mem'.vbm = Live' /\ mem'.free = FreeIn(mem'.vbm) /\ mem'.ro = mem.ro
  BY <1>1, FlushVolAccounted
<1> QED
  BY <1>1, <1>2 DEF Accounted, Mounted

LEMMA VCloseAccounted ==
  ASSUME TypeOK, Accounted, VClose
  PROVE  Accounted'
<1> USE DEF VClose
<1>1. CASE mem.ro
  <2>1. pc' = "down" /\ UNCHANGED <<handle, store>> /\ \A f \in File : ~handle[f].open
    BY <1>1
  <2>2. StoreExact'
    BY <1>1, <2>1 DEF Accounted, Mounted, StoreExact
  <2>3. Apart' /\ HandlesSound' /\ DeadHoldNothing'
    BY <2>1, SameOwn DEF Accounted, Own, HandlesSound, DeadHoldNothing
  <2> QED
    BY <2>1, <2>2, <2>3 DEF Accounted, FreeFlagsRight, Mounted
<1>2. CASE ~mem.ro
  <2>1. Mounted /\ handle' = handle /\ FlushVol(TRUE) /\ pc' = "closing"
    BY <1>2 DEF Mounted
  <2>2. \A f \in File : ~handle'[f].open
    BY <1>2
  <2>3. /\ Live' = Live /\ HandlesSound' /\ FreeFlagsRight' /\ Apart' /\ DeadHoldNothing'
        /\ mem'.vbm = Live' /\ mem'.free = FreeIn(mem'.vbm) /\ mem'.ro = mem.ro
    BY <2>1, FlushVolAccounted
  <2> HIDE DEF VClose
  <2> QED
    BY <1>2, <2>1, <2>2, <2>3 DEF Accounted, Mounted
<1> QED
  BY <1>1, <1>2

\* v_dirty without its MDB stored clears a bit that says nothing about space.
LEMMA VDirtyFailsAccounted ==
  ASSUME TypeOK, Accounted, VDirtyFails
  PROVE  Accounted'
<1> USE DEF VDirtyFails
<1>1. /\ mem'.free = mem.free /\ mem'.vbm = mem.vbm /\ mem'.ro = mem.ro
      /\ mem'.updVbm = mem.updVbm /\ mem'.updMdb = mem.updMdb
  BY DEF TypeOK, Memory
<1>2. UNCHANGED <<pc, handle, store>> /\ pc = "idle" /\ ~mem.ro
  OBVIOUS
<1> HIDE DEF VDirtyFails
<1>3. \A f \in File : Own(f)' = Own(f)
  BY <1>2 DEF Own
<1>4. Live' = Live /\ Apart'
  BY <1>3, SameOwn DEF Accounted
<1> QED
  BY <1>1, <1>2, <1>4
  DEF Accounted, HandlesSound, FreeFlagsRight, DeadHoldNothing, Mounted

\* A failed hfs_create may leave a record, but one without blocks.
LEMMA CreateFailsAccounted ==
  ASSUME TypeOK, Accounted, NEW f \in File, NEW inserted \in BOOLEAN,
         CreateFails(f, inserted)
  PROVE  Accounted'
<1> USE DEF CreateFails
<1>1. Changing
  BY ChangesAreChanging
<1>2. /\ mem'.vbm = mem.vbm /\ mem'.free = mem.free /\ mem'.ro = mem.ro
      /\ mem'.updMdb /\ mem'.updVbm = mem.updVbm
  BY DEF TypeOK, Memory
<1>3. Own(f) = {} /\ ~handle[f].open /\ store.cat[f].ext = {}
  BY <1>1, ChangeMounted DEF Own, DeadHoldNothing
<1>4. /\ store'.vbm = store.vbm /\ store'.cat[f].ext = {} /\ handle' = handle
      /\ \A g \in File \ {f} : store'.cat[g] = store.cat[g]
  BY <1>3 DEF TypeOK, Image
<1> HIDE DEF CreateFails
<1>5. HandlesSound' /\ DeadHoldNothing'
  BY <1>1, <1>3, <1>4, ChangeMounted DEF HandlesSound, DeadHoldNothing
<1>6. FreeFlagsRight'
  BY <1>1, <1>2, <1>4, ChangeMounted DEF FreeFlagsRight
<1>7. \A g \in File : Own(g)' = Own(g)
  BY <1>3, <1>4 DEF Own
<1> QED
  BY <1>1, <1>2, <1>5, <1>6, <1>7, SameOwn, ChangeMounted, ChangeAccounted DEF Mounted

\* A failed hfs_delete that had nothing to free changes nothing.
LEMMA DeleteFailsAccounted ==
  ASSUME TypeOK, Accounted, NEW f \in File, DeleteFails(f), ~lost'
  PROVE  Accounted'
<1>1. Changing /\ store.cat[f].ext = {}
  BY ChangesAreChanging DEF DeleteFails
<1>2. UNCHANGED <<mem, handle, store>>
  BY <1>1 DEF DeleteFails, FreeBlocks
<1> QED
  BY <1>1, <1>2, StillAccounted

\* What a flushvol that stops early does to memory and cache.
LEMMA StopFields ==
  ASSUME TypeOK, NEW umount \in BOOLEAN, NEW bitmap \in BOOLEAN,
         mem' = MemAtStop(umount, bitmap), store'.vbm = BitmapAtStop(bitmap)
  PROVE  /\ mem'.vbm = mem.vbm /\ mem'.free = mem.free /\ mem'.ro = mem.ro
         /\ mem'.updMdb \/ mem'.updMdb = mem.updMdb
         /\ (mem.updVbm \/ store.vbm = mem.vbm) => (mem'.updVbm \/ store'.vbm = mem'.vbm)
<1>1. CASE bitmap
  <2>1. /\ mem'.vbm = mem.vbm /\ mem'.free = mem.free /\ mem'.ro = mem.ro
        /\ mem'.updMdb /\ ~mem'.updVbm
    BY <1>1 DEF TypeOK, Memory, MemAtStop
  <2>2. store'.vbm = IF mem.updVbm THEN mem.vbm ELSE store.vbm
    BY <1>1 DEF BitmapAtStop
  <2> QED
    BY <2>1, <2>2
<1>2. CASE ~bitmap
  BY <1>2 DEF MemAtStop, BitmapAtStop
<1> QED
  BY <1>1, <1>2

\* A hfs_flush that fails has stored the blocks of some files, or changed nothing.
LEMMA VFlushFailsAccounted ==
  ASSUME TypeOK, Accounted, NEW stored \in SUBSET File, NEW bitmap \in BOOLEAN,
         VFlushFails(stored, bitmap)
  PROVE  Accounted'
<1>1. Mounted /\ pc = "idle" /\ pc' = pc /\ handle' = handle /\ ~mem.ro
  BY DEF VFlushFails, FlushFails, Mounted
<1>2. mem' = MemAtStop(FALSE, bitmap)
  BY DEF VFlushFails
<1>3. /\ store'.vbm = BitmapAtStop(bitmap) /\ store'.mdb = store.mdb
      /\ \A f \in File : \/ store'.cat[f] = store.cat[f]
                         \/ store'.cat[f] = Recorded(store.cat, handle)[f]
  BY DEF VFlushFails, TypeOK, Image
<1>4. /\ mem'.vbm = mem.vbm /\ mem'.free = mem.free /\ mem'.ro = mem.ro
      /\ mem'.updMdb \/ mem'.updMdb = mem.updMdb
      /\ (mem.updVbm \/ store.vbm = mem.vbm) => (mem'.updVbm \/ store'.vbm = mem'.vbm)
  BY <1>2, <1>3, StopFields
<1>5. FreeFlagsRight'
  BY <1>1, <1>3, <1>4 DEF Accounted, FreeFlagsRight
<1>6. \A f \in File : /\ Recorded(store.cat, handle)[f].live = store.cat[f].live
                      /\ ~handle[f].open => Recorded(store.cat, handle)[f] = store.cat[f]
  BY DEF Recorded, TypeOK, Image, Record
<1>7. \A f \in File : Own(f)' = Own(f)
  BY <1>1, <1>3, <1>6 DEF Own
<1>8. Live' = Live /\ Apart'
  BY <1>7, SameOwn DEF Accounted
<1>9. HandlesSound' /\ DeadHoldNothing'
  BY <1>1, <1>3, <1>6 DEF Accounted, HandlesSound, DeadHoldNothing
<1> QED
  BY <1>1, <1>4, <1>5, <1>8, <1>9 DEF Accounted, Mounted

\* A v_close whose flushvol fails leaves the rest to b_finish.
LEMMA VCloseFailsAccounted ==
  ASSUME TypeOK, Accounted, NEW bitmap \in BOOLEAN, VCloseFails(bitmap)
  PROVE  Accounted'
<1>1. /\ Mounted /\ pc = "idle" /\ pc' = "closing" /\ handle' = handle /\ ~mem.ro
      /\ \A f \in File : ~handle[f].open
  BY DEF VCloseFails, FlushFails, Mounted
<1>2. mem' = MemAtStop(TRUE, bitmap)
  BY DEF VCloseFails
<1>3. store'.vbm = BitmapAtStop(bitmap) /\ store'.mdb = store.mdb /\ store'.cat = store.cat
  BY DEF VCloseFails, TypeOK, Image
<1>4. /\ mem'.vbm = mem.vbm /\ mem'.free = mem.free /\ mem'.ro = mem.ro
      /\ mem'.updMdb \/ mem'.updMdb = mem.updMdb
      /\ (mem.updVbm \/ store.vbm = mem.vbm) => (mem'.updVbm \/ store'.vbm = mem'.vbm)
  BY <1>2, <1>3, StopFields
<1>5. FreeFlagsRight'
  BY <1>1, <1>3, <1>4 DEF Accounted, FreeFlagsRight
<1>6. \A f \in File : Own(f)' = Own(f)
  BY <1>1, <1>3 DEF Own
<1>7. Live' = Live /\ Apart'
  BY <1>6, SameOwn DEF Accounted
<1>8. HandlesSound' /\ DeadHoldNothing'
  BY <1>1, <1>3 DEF Accounted, HandlesSound, DeadHoldNothing
<1> QED
  BY <1>1, <1>4, <1>5, <1>7, <1>8 DEF Accounted, Mounted

\* A call that fails half way keeps the account, unless it has lost changes.
LEMMA FailedCallAccounted ==
  ASSUME TypeOK, Accounted, FailedCall, ~lost'
  PROVE  Accounted'
<1>1. CASE VDirtyFails
  BY <1>1, VDirtyFailsAccounted
<1>2. ASSUME NEW f \in File, CloseUnstored(f) \/ DeleteFails(f) PROVE Accounted'
  BY <1>2, CloseChangedAccounted, DeleteFailsAccounted
<1>3. ASSUME NEW f \in File, NEW inserted \in BOOLEAN, CreateFails(f, inserted)
      PROVE  Accounted'
  BY <1>3, CreateFailsAccounted
<1>4. ASSUME NEW f \in File, NEW s \in FreeRuns(mem), NEW used \in SUBSET s \ {{}},
             WriteUnstored(f, s, used)
      PROVE  Accounted'
  BY <1>4, WriteAccounted
<1>5. ASSUME NEW f \in File, NEW keep \in SUBSET handle[f].need, TruncateUnstored(f, keep)
      PROVE  Accounted'
  BY <1>5, TruncateAccounted
<1>6. ASSUME NEW stored \in SUBSET File, NEW bitmap \in BOOLEAN,
             VFlushFails(stored, bitmap)
      PROVE  Accounted'
  BY <1>6, VFlushFailsAccounted
<1>7. ASSUME NEW bitmap \in BOOLEAN, VCloseFails(bitmap) PROVE Accounted'
  BY <1>7, VCloseFailsAccounted
<1> QED
  BY <1>1, <1>2, <1>3, <1>4, <1>5, <1>6, <1>7, Zenon DEF FailedCall

\* Every step keeps the account until changes are lost.
LEMMA NextAccounted == AccountedInv /\ [Next]_vars => AccountedInv'
<1> SUFFICES ASSUME AccountedInv, [Next]_vars, ~lost' PROVE Accounted'
  BY NextType DEF AccountedInv
<1>1. CASE Crash
  BY <1>1 DEF Crash, LoseCache
<1>2. CASE FlushDone
  <2>1. ~lost
    BY <1>2 DEF FlushDone, LoseCache
  <2> QED
    BY <1>2, <2>1, FlushDoneAccounted DEF AccountedInv
<1>3. CASE VDirty \/ VFlush \/ VClose
  <2>1. ~lost
    BY <1>3 DEF VDirty, VFlush, VClose
  <2> QED
    BY <1>3, <2>1, VDirtyAccounted, VFlushAccounted, VCloseAccounted DEF AccountedInv
<1>4. ASSUME NEW ro \in BOOLEAN, Mount(ro) PROVE Accounted'
  <2>1. ~lost
    BY <1>4 DEF Mount
  <2> QED
    BY <1>4, <2>1, MountAccounted DEF AccountedInv
<1>5. CASE \/ \E ok \in BOOLEAN : FlushMdb(ok) \/ FlushVbm(ok)
           \/ \E f \in File, ok \in BOOLEAN : FlushCat(f, ok)
           \/ Evict \/ UNCHANGED vars
  <2>1. ~lost /\ UNCHANGED <<pc, mem, handle, store>>
    BY <1>5 DEF FlushMdb, FlushVbm, FlushCat, Evict, vars
  <2> QED
    BY <2>1, DiskAccounted DEF AccountedInv
<1>6. ASSUME NEW f \in File,
             Create(f) \/ Open(f) \/ Delete(f) \/ SetFork(f) \/ CloseChanged(f) \/ CloseSettled(f)
      PROVE  Accounted'
  <2>1. ~lost
    BY <1>6 DEF Create, Open, Delete, SetFork, CloseChanged, CloseSettled, Change
  <2> QED
    BY <1>6, <2>1, CreateAccounted, OpenAccounted, DeleteAccounted, SetForkAccounted,
       CloseChangedAccounted, CloseSettledAccounted DEF AccountedInv
<1>7. ASSUME NEW f \in File, NEW s \in FreeRuns(mem), NEW used \in SUBSET s \ {{}},
             NEW ok \in BOOLEAN, Write(f, s, used, ok)
      PROVE  Accounted'
  <2>1. ~lost
    BY <1>7 DEF Write, Change
  <2> QED
    BY <1>7, <2>1, WriteAccounted DEF AccountedInv
<1>8. ASSUME NEW f \in File, NEW keep \in SUBSET handle[f].need, Truncate(f, keep)
      PROVE  Accounted'
  <2>1. ~lost
    BY <1>8 DEF Truncate, Change
  <2> QED
    BY <1>8, <2>1, TruncateAccounted DEF AccountedInv
<1>9. CASE FailedCall
  <2>1. lost' \in BOOLEAN /\ lost \in BOOLEAN /\ (lost => lost')
    BY <1>9 DEF AccountedInv, TypeOK, FailedCall, VDirtyFails, ChangeFails, FlushFails,
       CloseUnstored, DeleteFails, CreateFails, WriteUnstored, TruncateUnstored,
       VFlushFails, VCloseFails
  <2> QED
    BY <1>9, <2>1, FailedCallAccounted DEF AccountedInv
<1> QED
  BY <1>1, <1>2, <1>3, <1>4, <1>5, <1>6, <1>7, <1>8, <1>9, Zenon DEF Next

-----------------------------------------------------------------------------
(***************************************************************************)
(* The theorems.                                                           *)
(***************************************************************************)
\* The inductive invariant holds in every reachable state: the properties below
\* and what it takes to keep them, among it that whatever differs between
\* memory and medium is named by an update flag or a dirty block (volume.c:117).
THEOREM Invariance == ASSUME FaultFree PROVE Spec => []VolumeInv
<1>1. VolumeInv /\ [Next]_vars => VolumeInv'
  BY NextInv
<1> QED
  BY <1>1, InitInv, PTL DEF Spec

\* No block in use is ever free for v_allocblocks, however many mounts,
\* scavenges and crashes there were.
THEOREM BlocksInUseStayMarked == ASSUME FaultFree PROVE Spec => []InUseMarked
BY Invariance, PTL DEF VolumeInv

\* The free count in memory agrees with the bitmap.
THEOREM FreeCountStaysRight == ASSUME FaultFree PROVE Spec => []FreeCountRight
BY Invariance, PTL DEF VolumeInv

\* No block is ever handed to two files.
THEOREM FilesStayDisjoint == ASSUME FaultFree PROVE Spec => []NoSharing
BY Invariance, PTL DEF VolumeInv

\* A medium that says "unmounted" may be trusted without a scavenge.
THEOREM CleanMediumIsConsistent == ASSUME FaultFree PROVE Spec => []CleanMeansConsistent
BY Invariance, PTL DEF VolumeInv

\* The medium says "in use" before anything else on it changes.
THEOREM MediumMarkedFirst == ASSUME FaultFree PROVE Spec => MarkedBeforeChange
<1> DEFINE Good == pc # "closing" /\ <<disk.vbm, disk.cat>>' # <<disk.vbm, disk.cat>>
                     => ~disk.mdb.umounted
<1>1. ASSUME VolumeInv, FaultFree, Next PROVE Good
  <2>1. CASE CatchUp
    BY <1>1, <2>1, CatchUpUnmarked, NextType DEF VolumeInv
  <2>2. CASE disk' = disk
    BY <2>2
  <2> QED
    BY <1>1, <2>1, <2>2, NextDisk DEF VolumeInv
<1> QED
  BY <1>1, Invariance, PTL DEF Spec, MarkedBeforeChange

\* Space is accounted for exactly, whatever writes of the medium and whatever
\* calls fail, until a crash, an unmount that could not write everything, or a
\* hfs_close or hfs_delete that failed half way has lost changes.
THEOREM SpaceStaysAccounted == Spec => []Accounting
<1>1. AccountedInv => Accounting
  BY DEF AccountedInv, Accounted, Accounting, Apart
<1> QED
  BY <1>1, InitAccounted, NextAccounted, PTL DEF Spec
=============================================================================
