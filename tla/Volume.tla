------------------------------- MODULE Volume -------------------------------
(***************************************************************************)
(* A mounted HFS volume, its bitmap and its catalog, over the write-back   *)
(* cache, with crashes (libhfs/volume.c, file.c, hfs.c).                   *)
(*                                                                         *)
(* The blocks of the volume that matter are the Master Directory Block     *)
(* (its "unmounted" bit and its free-block count), the volume bitmap, and  *)
(* for each file the catalog node that holds its record.  "store" is what  *)
(* the library reads, the cache over the medium; "disk" is the medium;     *)
(* they differ in the blocks that are dirty.  "mem" is what the library    *)
(* keeps outside the cache: the MDB and the bitmap of a mounted volume,    *)
(* written to their blocks by flushvol.  "handle" holds the open files.    *)
(*                                                                         *)
(* Which free run v_allocblocks picks is the subject of AllocSearch; here  *)
(* it is any free run that is not longer than the request.  The extents of *)
(* a file are those of its catalog record; what overflow records add to    *)
(* f_addextent and f_trunc is the subject of FileExtents.                  *)
(***************************************************************************)
EXTENDS Integers, FiniteSets

CONSTANTS
  File,          \* names under which files are created and deleted
  NBlocks,       \* drNmAlBlks
  Clump,         \* longest run that f_alloc requests, in allocation blocks
  IOErrors,      \* scenario: writes of the medium may fail
  CrashInClose   \* scenario: a crash may come while v_close flushes

ASSUME VolumeAssumption ==
  /\ NBlocks \in Nat \ {0} /\ Clump \in Nat \ {0}
  /\ IOErrors \in BOOLEAN /\ CrashInClose \in BOOLEAN

ABN == 0..NBlocks - 1

VARIABLES
  pc,       \* "down": not mounted; "idle": mounted, between calls; "dirtying",
            \* "syncing", "closing": in the b_flush of v_dirty, v_flush, v_close;
            \* "marked": in a call whose v_dirty has succeeded
  mem,      \* MDB fields and bitmap in memory, and the HFS_VOL_UPDATE flags
  handle,   \* open files: extents in memory, and those below the logical end
  store,    \* contents of the volume's blocks as the library reads them
  disk,     \* contents of the volume's blocks on the medium
  queue,    \* blocks the running b_flush has still to write
  failed,   \* a write of the running b_flush has failed
  lost,     \* history: a crash, an unmount that could not write, or a close or
            \* deletion that failed half way has dropped changes
  shared    \* history: one of these has left two files with a common block

vars == <<pc, mem, handle, store, disk, queue, failed, lost, shared>>

NoRec   == [live |-> FALSE, ext |-> {}]
Closed  == [open |-> FALSE, ext |-> {}, need |-> {}]
NoMem   == [ro |-> FALSE, umounted |-> FALSE, free |-> 0, vbm |-> {},
            updMdb |-> FALSE, updVbm |-> FALSE]
NoQueue == [mdb |-> FALSE, vbm |-> FALSE, cat |-> {}]

Record == [live : BOOLEAN, ext : SUBSET ABN]
Image  == [mdb : [umounted : BOOLEAN, free : Int], vbm : SUBSET ABN,
           cat : [File -> Record]]
Memory == [ro : BOOLEAN, umounted : BOOLEAN, free : Int, vbm : SUBSET ABN,
           updMdb : BOOLEAN, updVbm : BOOLEAN]
Handle == [open : BOOLEAN, ext : SUBSET ABN, need : SUBSET ABN]
Queue  == [mdb : BOOLEAN, vbm : BOOLEAN, cat : SUBSET File]

\* every block that a catalog record refers to
Refs(cat) == UNION {cat[f].ext : f \in File}

\* the blocks of a file: those of an open one are in its handle
Own(f) == IF handle[f].open THEN handle[f].ext ELSE store.cat[f].ext

\* every block in use
Live == UNION {Own(f) : f \in File}

Shares(cat) == \E f, g \in File : f # g /\ cat[f].ext \cap cat[g].ext # {}

FreeIn(vbm) == Cardinality(ABN \ vbm)

\* what b_flush has to write
DirtyBlocks(s, d) == [mdb |-> s.mdb # d.mdb, vbm |-> s.vbm # d.vbm,
                      cat |-> {f \in File : s.cat[f] # d.cat[f]}]

\* a freshly formatted, cleanly unmounted volume without files
Init ==
  /\ pc = "down" /\ mem = NoMem /\ handle = [f \in File |-> Closed]
  /\ disk = [mdb |-> [umounted |-> TRUE, free |-> NBlocks], vbm |-> {},
             cat |-> [f \in File |-> NoRec]]
  /\ store = disk
  /\ queue = NoQueue /\ failed = FALSE /\ lost = FALSE /\ shared = FALSE

-----------------------------------------------------------------------------
(***************************************************************************)
(* Mounting.  v_mount loads the MDB and the bitmap; a volume that was not  *)
(* unmounted is scavenged: the blocks of every catalog record are marked   *)
(* in the bitmap and the free blocks are counted again.  v_dirty, called   *)
(* by v_scavenge, writes an MDB that says "in use", as the medium does.    *)
(***************************************************************************)
\* broken variants: the scavenge trusts the bitmap, or forgets to have its
\* results written
ScavengedUnmarked(s) ==
  [ro |-> FALSE, umounted |-> FALSE, free |-> FreeIn(s.vbm), vbm |-> s.vbm,
   updMdb |-> TRUE, updVbm |-> TRUE]

ScavengedUnsaved(s) ==
  LET vbm == s.vbm \cup Refs(s.cat)
  IN  [ro |-> FALSE, umounted |-> FALSE, free |-> FreeIn(vbm), vbm |-> vbm,
       updMdb |-> FALSE, updVbm |-> FALSE]

Scavenged(s) ==
  LET vbm == s.vbm \cup Refs(s.cat)
  IN  [ro |-> FALSE, umounted |-> FALSE, free |-> FreeIn(vbm), vbm |-> vbm,
       updMdb |-> s.mdb.free # FreeIn(vbm), updVbm |-> TRUE]

Loaded(s, ro) ==
  [ro |-> ro, umounted |-> s.mdb.umounted, free |-> s.mdb.free, vbm |-> s.vbm,
   updMdb |-> FALSE, updVbm |-> FALSE]

Mount(ro) ==
  /\ pc = "down"
  /\ pc' = "idle"
  /\ mem' = IF ~store.mdb.umounted /\ ~ro THEN Scavenged(store)
            ELSE Loaded(store, ro)
  /\ UNCHANGED <<handle, store, disk, queue, failed, lost, shared>>

-----------------------------------------------------------------------------
(***************************************************************************)
(* b_flush: the dirty blocks are written in ascending order of their       *)
(* numbers, the MDB first, then the bitmap, then the allocation blocks.    *)
(* A block whose write fails stays dirty and the flush goes on.            *)
(***************************************************************************)
StartFlush(s, d) == queue' = DirtyBlocks(s, d) /\ failed' = FALSE

Flushing == pc \in {"dirtying", "syncing", "closing"}

Written(ok) == IF ok THEN UNCHANGED failed ELSE IOErrors /\ failed' = TRUE

FlushMdb(ok) ==
  /\ Flushing /\ queue.mdb
  /\ Written(ok)
  /\ queue' = [queue EXCEPT !.mdb = FALSE]
  /\ disk' = IF ok THEN [disk EXCEPT !.mdb = store.mdb] ELSE disk
  /\ UNCHANGED <<pc, mem, handle, store, lost, shared>>

FlushVbm(ok) ==
  /\ Flushing /\ ~queue.mdb /\ queue.vbm
  /\ Written(ok)
  /\ queue' = [queue EXCEPT !.vbm = FALSE]
  /\ disk' = IF ok THEN [disk EXCEPT !.vbm = store.vbm] ELSE disk
  /\ UNCHANGED <<pc, mem, handle, store, lost, shared>>

FlushCat(f, ok) ==
  /\ Flushing /\ ~queue.mdb /\ ~queue.vbm /\ f \in queue.cat
  /\ Written(ok)
  /\ queue' = [queue EXCEPT !.cat = @ \ {f}]
  /\ disk' = IF ok THEN [disk EXCEPT !.cat[f] = store.cat[f]] ELSE disk
  /\ UNCHANGED <<pc, mem, handle, store, lost, shared>>

\* the cache is gone; what it had not written is lost
LoseCache(changes) ==
  /\ store' = disk /\ mem' = NoMem
  /\ lost' = (lost \/ changes)
  /\ shared' = (shared \/ Shares(disk.cat))

\* the caller goes on; v_close frees the cache whatever became of the flush
FlushDone ==
  /\ Flushing /\ queue = NoQueue
  /\ pc' = CASE pc = "dirtying" -> IF failed THEN "idle" ELSE "marked"
             [] pc = "syncing"  -> "idle"
             [] pc = "closing"  -> "down"
  /\ failed' = FALSE
  /\ IF pc = "closing" THEN LoseCache(store # disk \/ mem.updMdb \/ mem.updVbm)
     ELSE UNCHANGED <<store, mem, lost, shared>>
  /\ UNCHANGED <<handle, disk, queue>>

\* a bucket that is reused reaches the medium at any time; if it cannot be
\* written, the b_readlb or b_writelb that wanted it fails (see FailedCall)
Evict ==
  /\ pc # "down" /\ ~mem.ro
  /\ \/ disk' = [disk EXCEPT !.mdb = store.mdb]
     \/ disk' = [disk EXCEPT !.vbm = store.vbm]
     \/ \E f \in File : disk' = [disk EXCEPT !.cat[f] = store.cat[f]]
  /\ UNCHANGED <<pc, mem, handle, store, queue, failed, lost, shared>>

-----------------------------------------------------------------------------
(***************************************************************************)
(* v_dirty, the first thing a changing call does while the MDB in memory   *)
(* still says "unmounted": the bit is cleared, the MDB written to its      *)
(* block, and the cache flushed.                                           *)
(***************************************************************************)
Mdb(m) == [umounted |-> m.umounted, free |-> m.free]

\* broken variant: the MDB is not flushed before the caller goes on
VDirtyUnflushed ==
  /\ pc = "idle" /\ ~mem.ro /\ mem.umounted
  /\ pc' = "marked"
  /\ mem' = [mem EXCEPT !.umounted = FALSE, !.updMdb = FALSE]
  /\ store' = [store EXCEPT !.mdb = Mdb(mem')]
  /\ UNCHANGED <<handle, disk, queue, failed, lost, shared>>

VDirty ==
  /\ pc = "idle" /\ ~mem.ro /\ mem.umounted
  /\ pc' = "dirtying"
  /\ mem' = [mem EXCEPT !.umounted = FALSE, !.updMdb = FALSE]
  /\ store' = [store EXCEPT !.mdb = Mdb(mem')]
  /\ StartFlush(store', disk)
  /\ UNCHANGED <<handle, disk, lost, shared>>

\* the rest of a changing call, once v_dirty has nothing (more) to do
Marked == pc = "marked" \/ (pc = "idle" /\ ~mem.umounted)

Change ==
  /\ Marked /\ ~mem.ro
  /\ pc' = "idle"
  /\ UNCHANGED <<disk, queue, failed, lost, shared>>

\* hfs_create: a catalog record without extents, and an open handle
Create(f) ==
  /\ Change
  /\ ~store.cat[f].live
  /\ store' = [store EXCEPT !.cat[f] = [live |-> TRUE, ext |-> {}]]
  /\ handle' = [handle EXCEPT ![f] = [open |-> TRUE, ext |-> {}, need |-> {}]]
  /\ mem' = [mem EXCEPT !.updMdb = TRUE]

\* hfs_open: the handle copies the catalog record
Open(f) ==
  /\ pc = "idle" /\ store.cat[f].live /\ ~handle[f].open
  /\ handle' = [handle EXCEPT ![f] = [open |-> TRUE, ext |-> store.cat[f].ext,
                                      need |-> store.cat[f].ext]]
  /\ UNCHANGED <<pc, mem, store, disk, queue, failed, lost, shared>>

\* broken variant: the bit past the end of the bitmap is taken for a block
FreeRunsPastEnd(m) ==
  {s \in SUBSET (0..NBlocks \ m.vbm) : s # {} /\ Cardinality(s) <= Clump}

\* v_allocblocks: the runs it may return, given the free count it believes
FreeRuns(m) ==
  {s \in SUBSET (ABN \ m.vbm) :
     /\ s # {} /\ Cardinality(s) <= Clump
     /\ \E i \in ABN, j \in ABN : s = i..j}

\* broken variant: the bits of the run are not set
AllocBlocksUnmarked(m, s) ==
  [m EXCEPT !.free = @ - Cardinality(s), !.updMdb = TRUE, !.updVbm = TRUE]

AllocBlocks(m, s) ==
  [m EXCEPT !.free = @ - Cardinality(s), !.vbm = @ \cup s,
            !.updMdb = TRUE, !.updVbm = TRUE]

\* broken variant: the free count stays as it was
FreeBlocksUncounted(m, s) ==
  IF s = {} THEN m
  ELSE [m EXCEPT !.vbm = @ \ s, !.updMdb = TRUE, !.updVbm = TRUE]

\* v_freeblocks
FreeBlocks(m, s) ==
  IF s = {} THEN m
  ELSE [m EXCEPT !.free = @ + Cardinality(s), !.vbm = @ \ s,
                 !.updMdb = TRUE, !.updVbm = TRUE]

\* broken variant: a run whose data cannot be written is forgotten
ExtendedIfWritten(h, s, used, ok) ==
  IF ok THEN [h EXCEPT !.ext = @ \cup s, !.need = @ \cup used] ELSE h

\* f_alloc adds the run to the extents; the logical end follows the data
Extended(h, s, used, ok) ==
  [h EXCEPT !.ext = @ \cup s, !.need = IF ok THEN @ \cup used ELSE @]

\* hfs_write beyond the physical end: f_alloc extends the file by the run s,
\* of which the data reaches "used"; f_flush then stores the record, unless
\* the data could not be written
Write(f, s, used, ok) ==
  /\ Change
  /\ handle[f].open /\ s \in FreeRuns(mem)
  /\ mem.free # 0 /\ Cardinality(s) <= mem.free
  /\ ok \/ IOErrors
  /\ mem' = AllocBlocks(mem, s)
  /\ handle' = [handle EXCEPT ![f] = Extended(@, s, used, ok)]
  /\ store' = IF ok THEN [store EXCEPT !.cat[f].ext = handle'[f].ext] ELSE store

\* hfs_truncate: only the logical length changes; the record is stored
Truncate(f, keep) ==
  /\ Change
  /\ handle[f].open /\ keep \subseteq handle[f].need /\ keep # handle[f].need
  /\ handle' = [handle EXCEPT ![f].need = keep]
  /\ store' = [store EXCEPT !.cat[f].ext = handle[f].ext]
  /\ UNCHANGED mem

\* hfs_setfork, with which FuseHFS begins every read and write: f_trunc frees
\* the blocks past the logical end; the record is stored later
SetFork(f) ==
  /\ Change
  /\ handle[f].open /\ handle[f].ext # handle[f].need
  /\ mem' = FreeBlocks(mem, handle[f].ext \ handle[f].need)
  /\ handle' = [handle EXCEPT ![f].ext = @ \cap handle[f].need]
  /\ UNCHANGED store

\* nothing has changed since the record was stored
Settled(f) == handle[f].ext = handle[f].need /\ handle[f].ext = store.cat[f].ext

\* hfs_close: f_trunc frees the blocks past the logical end, f_flush stores
\* the record; a handle without changes only goes away
CloseChanged(f) ==
  /\ Change
  /\ handle[f].open /\ ~Settled(f)
  /\ mem' = FreeBlocks(mem, handle[f].ext \ handle[f].need)
  /\ store' = [store EXCEPT !.cat[f].ext = handle[f].need]
  /\ handle' = [handle EXCEPT ![f] = Closed]

CloseSettled(f) ==
  /\ pc = "idle" /\ handle[f].open /\ Settled(f)
  /\ handle' = [handle EXCEPT ![f] = Closed]
  /\ UNCHANGED <<pc, mem, store, disk, queue, failed, lost, shared>>

\* hfs_delete of a file that is not open (libfuse renames an open one)
Delete(f) ==
  /\ Change
  /\ store.cat[f].live /\ ~handle[f].open
  /\ mem' = [FreeBlocks(mem, store.cat[f].ext) EXCEPT !.updMdb = TRUE]
  /\ store' = [store EXCEPT !.cat[f] = NoRec]
  /\ UNCHANGED handle

-----------------------------------------------------------------------------
(***************************************************************************)
(* hfs_flush and hfs_umount first store the records of the open files.     *)
(* flushvol: the bitmap and the MDB go from memory to their blocks; at an  *)
(* unmount the MDB gets its "unmounted" bit back.                          *)
(***************************************************************************)
Recorded(cat, h) ==
  [f \in File |-> IF h[f].open THEN [cat[f] EXCEPT !.ext = h[f].ext] ELSE cat[f]]

\* broken variant: the bitmap is not written
FlushVolNoBitmap(umount) ==
  LET m == IF umount THEN [mem EXCEPT !.umounted = TRUE, !.updMdb = TRUE] ELSE mem
  IN  /\ store' = [store EXCEPT !.mdb = IF m.updMdb THEN Mdb(m) ELSE @,
                                !.cat = Recorded(@, handle)]
      /\ mem' = [m EXCEPT !.updVbm = FALSE, !.updMdb = FALSE]

FlushVol(umount) ==
  LET m == IF umount /\ ~mem.umounted
           THEN [mem EXCEPT !.umounted = TRUE, !.updMdb = TRUE] ELSE mem
  IN  /\ store' = [store EXCEPT !.vbm = IF m.updVbm THEN m.vbm ELSE @,
                                !.mdb = IF m.updMdb THEN Mdb(m) ELSE @,
                                !.cat = Recorded(@, handle)]
      /\ mem' = [m EXCEPT !.updVbm = FALSE, !.updMdb = FALSE]

\* hfs_flush with v_flush
VFlush ==
  /\ pc = "idle" /\ ~mem.ro
  /\ pc' = "syncing"
  /\ FlushVol(FALSE)
  /\ StartFlush(store', disk)
  /\ UNCHANGED <<handle, disk, lost, shared>>

\* v_close, called by hfs_umount after it has closed every file
VClose ==
  /\ pc = "idle" /\ \A f \in File : ~handle[f].open
  /\ IF mem.ro
     THEN /\ pc' = "down" /\ mem' = NoMem
          /\ UNCHANGED <<store, queue, failed>>
     ELSE /\ pc' = "closing"
          /\ FlushVol(TRUE)
          /\ StartFlush(store', disk)
  /\ UNCHANGED <<handle, disk, lost, shared>>

-----------------------------------------------------------------------------
(***************************************************************************)
(* Calls that fail half way (scenario IOErrors).  A call needs buckets for *)
(* the blocks it reads and writes; b_readlb and b_writelb fail when a      *)
(* dirty bucket that is to be reused cannot be written, and the call ends  *)
(* there.  What it has done before stays done.                             *)
(***************************************************************************)
ChangeFails ==
  /\ IOErrors /\ Marked /\ ~mem.ro
  /\ pc' = "idle"
  /\ UNCHANGED <<disk, queue, failed, shared>>

\* v_writemdb fails in v_dirty, so the caller fails; the bit in memory is clear
VDirtyFails ==
  /\ IOErrors /\ pc = "idle" /\ ~mem.ro /\ mem.umounted
  /\ mem' = [mem EXCEPT !.umounted = FALSE]
  /\ UNCHANGED <<pc, handle, store, disk, queue, failed, lost, shared>>

\* hfs_create: bt_insert fails, or v_adjvalence after the record is inserted
CreateFails(f, inserted) ==
  /\ ChangeFails
  /\ ~store.cat[f].live
  /\ mem' = [mem EXCEPT !.updMdb = TRUE]
  /\ store' = IF inserted THEN [store EXCEPT !.cat[f] = [live |-> TRUE, ext |-> {}]]
              ELSE store
  /\ UNCHANGED <<handle, lost>>

\* hfs_write: the data is in its blocks, but f_flush, whose result nobody looks
\* at, cannot store the record; the handle keeps it
WriteUnstored(f, s, used) ==
  /\ ChangeFails
  /\ handle[f].open /\ s \in FreeRuns(mem)
  /\ mem.free # 0 /\ Cardinality(s) <= mem.free
  /\ mem' = AllocBlocks(mem, s)
  /\ handle' = [handle EXCEPT ![f] = Extended(@, s, used, TRUE)]
  /\ UNCHANGED <<store, lost>>

\* hfs_truncate: likewise
TruncateUnstored(f, keep) ==
  /\ ChangeFails
  /\ handle[f].open /\ keep \subseteq handle[f].need /\ keep # handle[f].need
  /\ handle' = [handle EXCEPT ![f].need = keep]
  /\ UNCHANGED <<mem, store, lost>>

\* hfs_close: f_trunc has freed blocks, f_flush cannot store the record, and the
\* handle is freed all the same; the record keeps what it said before
CloseUnstored(f) ==
  /\ ChangeFails
  /\ handle[f].open /\ ~Settled(f)
  /\ mem' = FreeBlocks(mem, handle[f].ext \ handle[f].need)
  /\ handle' = [handle EXCEPT ![f] = Closed]
  /\ lost' = (lost \/ store.cat[f].ext # handle[f].need)
  /\ UNCHANGED store

\* hfs_delete: f_trunc has freed the blocks of both forks, bt_delete fails, and
\* the record still refers to them; with nothing to free, nothing is lost
DeleteFails(f) ==
  /\ ChangeFails
  /\ store.cat[f].live /\ ~handle[f].open
  /\ mem' = FreeBlocks(mem, store.cat[f].ext)
  /\ lost' = (lost \/ store.cat[f].ext # {})
  /\ UNCHANGED <<store, handle>>

\* flushvol up to the block that it cannot write: the MDB, or one before the
\* bitmap; the flags of what is not written stay, and so does the "unmounted"
\* bit, in memory
BitmapAtStop(bitmap) == IF bitmap /\ mem.updVbm THEN mem.vbm ELSE store.vbm

MemAtStop(umount, bitmap) ==
  IF bitmap THEN [mem EXCEPT !.updVbm = FALSE, !.umounted = umount, !.updMdb = TRUE]
  ELSE mem

FlushFails ==
  /\ IOErrors /\ pc = "idle" /\ ~mem.ro /\ ~mem.umounted
  /\ UNCHANGED <<handle, disk, lost, shared>>

\* hfs_flush: the records of the files in "stored" are written before it fails
VFlushFails(stored, bitmap) ==
  /\ FlushFails
  /\ bitmap => stored = File /\ mem.updMdb
  /\ mem' = MemAtStop(FALSE, bitmap)
  /\ store' = [store EXCEPT !.vbm = BitmapAtStop(bitmap),
                            !.cat = [f \in File |-> IF f \in stored
                                       THEN Recorded(store.cat, handle)[f]
                                       ELSE store.cat[f]]]
  /\ UNCHANGED <<pc, queue, failed>>

\* v_close: b_finish writes what there is all the same
VCloseFails(bitmap) ==
  /\ FlushFails /\ \A f \in File : ~handle[f].open
  /\ pc' = "closing"
  /\ mem' = MemAtStop(TRUE, bitmap)
  /\ store' = [store EXCEPT !.vbm = BitmapAtStop(bitmap)]
  /\ StartFlush(store', disk)

FailedCall ==
  \/ VDirtyFails
  \/ \E f \in File : CloseUnstored(f) \/ DeleteFails(f)
  \/ \E f \in File, inserted \in BOOLEAN : CreateFails(f, inserted)
  \/ \E f \in File : \E s \in FreeRuns(mem) : \E used \in SUBSET s \ {{}} :
       WriteUnstored(f, s, used)
  \/ \E f \in File : \E keep \in SUBSET handle[f].need : TruncateUnstored(f, keep)
  \/ \E stored \in SUBSET File, bitmap \in BOOLEAN : VFlushFails(stored, bitmap)
  \/ \E bitmap \in BOOLEAN : VCloseFails(bitmap)

-----------------------------------------------------------------------------
\* the process or the machine stops; what is only in memory is lost
Crash ==
  /\ pc # "down" /\ (pc = "closing" => CrashInClose)
  /\ pc' = "down" /\ handle' = [f \in File |-> Closed]
  /\ queue' = NoQueue /\ failed' = FALSE
  /\ LoseCache(TRUE)
  /\ UNCHANGED disk

Next ==
  \/ \E ro \in BOOLEAN : Mount(ro)
  \/ \E ok \in BOOLEAN : FlushMdb(ok) \/ FlushVbm(ok)
  \/ \E f \in File, ok \in BOOLEAN : FlushCat(f, ok)
  \/ FlushDone \/ Evict \/ VDirty
  \/ \E f \in File : \/ Create(f) \/ Open(f) \/ Delete(f)
                     \/ SetFork(f) \/ CloseChanged(f) \/ CloseSettled(f)
  \/ \E f \in File : \E s \in FreeRuns(mem) : \E used \in SUBSET s \ {{}} :
       \E ok \in BOOLEAN : Write(f, s, used, ok)
  \/ \E f \in File : \E keep \in SUBSET handle[f].need : Truncate(f, keep)
  \/ VFlush \/ VClose \/ Crash \/ FailedCall

Spec == Init /\ [][Next]_vars

-----------------------------------------------------------------------------
TypeOK ==
  /\ pc \in {"down", "idle", "dirtying", "syncing", "closing", "marked"}
  /\ mem \in Memory /\ handle \in [File -> Handle]
  /\ store \in Image /\ disk \in Image /\ queue \in Queue
  /\ failed \in BOOLEAN /\ lost \in BOOLEAN /\ shared \in BOOLEAN

Mounted == pc # "down" /\ ~mem.ro

Consistent(image) ==
  Refs(image.cat) \subseteq image.vbm /\ image.mdb.free = FreeIn(image.vbm)

\* While the volume is mounted for writing, every block that a file refers to
\* is marked in the bitmap in memory, so v_allocblocks can never hand out a
\* block in use (volume.c:1045 "safeguard blocks in the volume bitmap"), as
\* long as no crash has left two files with a common block.
InUseMarked ==
  Mounted /\ ~shared => Live \subseteq mem.vbm

\* ... and the free count in the MDB agrees with the bitmap.
FreeCountRight ==
  Mounted /\ ~shared => mem.free = FreeIn(mem.vbm)

\* No two files ever come to hold the same block.
NoSharing ==
  ~shared => \A f, g \in File :
     f # g => Own(f) \cap Own(g) = {}

\* A medium that says "unmounted" is consistent: its bitmap covers its
\* catalog and its free count is right, so the next mount may skip the scavenge.
\* (While v_close flushes, the MDB is ahead of the rest: see CrashInClose.)
CleanMeansConsistent ==
  pc # "closing" /\ disk.mdb.umounted /\ ~shared =>
    Consistent(disk)

\* Space is accounted for exactly: the bitmap marks the blocks of the files and
\* no others, each block is one file's, and the free count agrees.  So it is
\* whatever writes of the medium and whatever calls have failed, until changes
\* are lost: by a crash, by an unmount that could not write everything, or by a
\* hfs_close or hfs_delete that has freed blocks which the stored record still
\* lists.
Accounting ==
  Mounted /\ ~lost =>
    /\ mem.vbm = Live
    /\ \A f, g \in File : f # g => Own(f) \cap Own(g) = {}
    /\ mem.free = FreeIn(mem.vbm)

\* Before anything else changes on the medium, the medium is marked "in use"
\* (volume.c:461 "ensure the volume is marked "in use" before we make
\* changes").
MarkedBeforeChange ==
  [][pc # "closing" /\ <<disk.vbm, disk.cat>>' # <<disk.vbm, disk.cat>>
       => ~disk.mdb.umounted]_vars
-----------------------------------------------------------------------------
(***************************************************************************)
(* The inductive invariant behind these properties when no write fails and *)
(* v_close is not interrupted: how memory, cache and medium stand to each  *)
(* other in every phase of a mount.                                        *)
(***************************************************************************)
\* an open file's extents contain its logical end; a closed one has none
HandlesSound ==
  \A f \in File : /\ handle[f].need \subseteq handle[f].ext
                  /\ ~handle[f].open => handle[f].ext = {}

\* without a mount, and under a read-only one, the cache holds no changes
CacheEmpty ==
  /\ pc = "down" => store = disk /\ \A f \in File : ~handle[f].open
  /\ pc # "down" /\ mem.ro => pc = "idle" /\ store = disk

\* what flushvol would not write again is in the cache already
FlagsRight ==
  Mounted => /\ mem.updVbm \/ store.vbm = mem.vbm
             /\ mem.updMdb \/ store.mdb = Mdb(mem)

\* a volume whose MDB in memory says "unmounted" has not been changed
UntouchedWhileUmounted ==
  Mounted /\ pc # "closing" /\ mem.umounted =>
    /\ pc \in {"idle", "syncing"} /\ store = disk /\ ~mem.updMdb /\ ~mem.updVbm
    /\ \A f \in File : handle[f].open => handle[f].ext = store.cat[f].ext

\* otherwise the medium says "in use", except while v_dirty is saying so
MarkedInUse ==
  Mounted /\ pc # "closing" /\ ~mem.umounted =>
    /\ ~store.mdb.umounted
    /\ disk.mdb.umounted => /\ pc = "dirtying" /\ queue.mdb
                            /\ store.vbm = disk.vbm /\ store.cat = disk.cat

\* v_close flushes a consistent volume, and what it has still to write is queued
ClosingSound ==
  pc = "closing" =>
    /\ ~mem.ro /\ store.mdb.umounted /\ \A f \in File : ~handle[f].open
    /\ ~shared => Consistent(store)
    /\ queue.mdb \/ disk.mdb = store.mdb
    /\ queue.vbm \/ disk.vbm = store.vbm
    /\ \A f \in File : f \in queue.cat \/ disk.cat[f] = store.cat[f]

VolumeInv ==
  /\ TypeOK /\ HandlesSound /\ CacheEmpty /\ FlagsRight
  /\ UntouchedWhileUmounted /\ MarkedInUse /\ ClosingSound
  /\ InUseMarked /\ FreeCountRight /\ NoSharing /\ CleanMeansConsistent
=============================================================================
