# A TLA+ model of FuseHFS and libhfs

FuseHFS lets macOS read and write HFS ("Mac OS Standard") volumes. It is a FUSE
file system (`fusefs_hfs.c`) on top of `hfsutils-3.2.6/libhfs`, a
single-threaded C library that keeps the structures of one or more volumes. The
repository also has the commands of hfsutils (`hmount`, `hcopy`, ...), which use
the same library. This directory holds TLA+ modules for the parts where the data
can be damaged without a test noticing, TLC configurations that check them on
small instances, and TLAPS proofs. Paths below without a directory are in
`hfsutils-3.2.6/libhfs`.

## 1. The system

| part | code | state | operations | called by |
|---|---|---|---|---|
| block cache | `block.c` | 128 buckets, a ring, a hash table | `b_init`, `b_readlb`, `b_writelb`, `b_flush`, `b_finish` | everything below |
| volume | `volume.c`, `low.c` | MDB, bitmap and update flags in memory; "unmounted" bit on the medium | `v_mount`, `v_scavenge`, `v_dirty`, `v_flush`, `v_close` | `hfs.c` |
| allocation | `volume.c` | bitmap, `drFreeBks`, `drAllocPtr` | `v_allocblocks`, `v_freeblocks` | extents, B-trees |
| extents | `file.c` | per open file: catalog record, one extent record, its first block | `f_doblock`, `f_alloc`, `f_addextent`, `f_trunc`, `f_flush` | `hfs.c`, B-trees |
| B*-trees | `btree.c`, `node.c` | nodes of the catalog and the extents overflow file | `bt_search`, `bt_insert`, `bt_delete`, `bt_space` | catalog, extents |
| catalog | `volume.c`, `hfs.c`, `record.c` | file, directory and thread records, valences | `v_resolve`, `hfs_create`, `hfs_mkdir`, `hfs_rename`, `hfs_delete` | FUSE |
| FUSE operations | `fusefs_hfs.c` | handles in `fi->fh`, the volume name | the FUSE callbacks | the kernel |
| media | `medium.c`, `low.c`, `hfs.c` | driver record, partition map, boot blocks | `hfs_zero`, `hfs_mkpart`, `hfs_nparts`, `hfs_format` | `hformat`, Tcl, probing |
| known volumes | `hfsutils-3.2.6/hcwd.c`, `hfsutil.c`, `h*.c` | the file `.hcwd`: volumes, their paths, working directories, the current one | `hmount`, `humount`, `hvol`, `hcd`, `hformat`, ... | shells |
| hcopy | `hcopy.c`, `copyin.c`, `copyout.c`, `binhex.c`, `crc.c`, `charset.c` | buffers of the encoder and decoder | copy in, copy out, in five modes | shells |
| start-up | `main.c`, `util.c`, `log.c` | options | `main`, probing | the system |

A file-system call becomes a few libhfs calls. A libhfs call changes records in
the two B-trees and extent lists in memory; blocks are read and written through
the cache; MDB and bitmap stay in memory until `flushvol` writes them to their
blocks, again through the cache. Nothing is logged or ordered: a dirty block
reaches the medium when its bucket is reused or when `b_flush` runs, and
`b_flush` writes in ascending order of block numbers. The only protection
against a crash is the bit `HFS_ATRB_UMOUNTED` in the MDB: `v_dirty` clears it
on the medium before the first change, `v_close` sets it, and a mount that finds
it cleared runs `v_scavenge`.

FuseHFS runs FUSE with one thread and the library has no callbacks, so there is
no interleaving of library calls within a process. The hfsutils commands are
processes that run side by side on `.hcwd` and on media. What makes the code hard is:

- **crashes** between any two transfers, when memory, cache and medium disagree;
- **failure of one step of several**: a transfer of 16 blocks, a flush, a B-tree
  change in the middle of `f_addextent` or `f_trunc`;
- **state cached in several places**: a block in cache and on the medium, a
  catalog record in a handle and in the tree, an extent record in a handle and
  in the overflow tree, MDB and bitmap in memory and in their blocks;
- **long sequences of legal calls** that wear a structure down (the ring of the
  cache, the trees);
- **handles shared by name**: libfuse knows files by path, libhfs by number, and
  descriptors and extended attributes share one `hfsfile` with one selected fork;
- **commands side by side** on a file that nothing guards, media that are exchanged
  between two commands, a kill at any point;
- **wrap-around and ends** in the allocation search and in unsigned lengths.

What makes each part correct:

- cache: a read returns what was written last; a flush that reports success has
  stored everything; a failed transfer loses nothing;
- volume: every block in use is marked, the free count is right, a medium that
  says "unmounted" is consistent, and it says "in use" before anything changes;
- allocation: a grant is free, as long as requested if possible, the search ends;
- extents: a fork is a sequence of distinct blocks, found wherever the handle's
  cached record stands, and space is given back exactly once;
- B-trees: a search finds exactly the inserted and not deleted records, and the
  node map marks exactly the reachable nodes;
- catalog: each record has its thread and parent, valences count children;
- FUSE: what a user reads in either fork is what was written there, and no block is
  lost or shared;
- media: partitions are disjoint and keep their numbers wherever a change of the
  map stops, and a volume fits its partition;
- known volumes: `.hcwd` says what the commands reported, and a command changes
  the volume and the directory its user chose;
- hcopy: what a format writes it reads back, and damage is noticed.

## 2. Modules

| module | models | status |
|---|---|---|
| `BlockCache` | `block.c` | whole |
| `BlockStore` | abstract: what the cache promises | whole |
| `BlockCacheProofs` | theorems about `BlockCache` | proved |
| `Volume` | mount, unmount, MDB, bitmap, catalog records over the cache, crashes | partly |
| `VolumeProofs` | theorems about `Volume` | proved |
| `AllocSearch` | `v_allocblocks`, `v_freeblocks` | whole |
| `AllocSearchProofs` | theorems about `AllocSearch` | proved |
| `BlockPool` | abstract: what allocation promises | whole |
| `FileExtents` | `file.c` and the file calls of `hfs.c` for one file | partly |
| `FileExtentsProofs` | theorems about `FileExtents` | proved |
| `ForkMap` | abstract: forks as sequences of blocks | whole |
| `BTree` | `btree.c`, `node.c`, and the calls that change a tree | partly |
| `KeySet` | abstract: what a tree promises | whole |
| `CatalogTree` | the catalog as a value: paths, and the changes each call makes, step by step | whole |
| `Catalog` | the calls of `hfs.c` and `volume.c` that change the catalog, over `CatalogTree` | whole |
| `CatalogProofs` | theorems about `Catalog` | proved |
| `DirTree` | abstract: a tree of directories | whole |
| `FuseFiles` | `fusefs_hfs.c` for files, with what libfuse does, over open files of libhfs | partly |
| `FuseFilesProofs` | theorems about `FuseFiles` | proved |
| `Media` | `medium.c` and the calls that partition and format | whole |
| `MediaProofs` | theorems about `Media`: types, layouts, the partition map | proved |
| `KnownVolumes` | the commands of hfsutils, `.hcwd`, locks, and media in drives | partly |
| `KnownVolumesProofs` | theorems about `KnownVolumes` | proved |
| `BinHex` | `binhex.c`, `crc.c` as functions | whole |
| `Transfer` | hcopy: formats, modes, destinations, over `BinHex` | whole |
| `MC*` | definitions for TLC: constants, symmetry, views, constraints | |

Definitions commented "broken variant" belong to no specification. Each is a
plausible mistake in the definition that follows it, kept to test that the
properties would notice it.

### BlockCache

One action per call of `block.c`. `c` is the `bcache`: `inuse` and `dirty` are
the flags, `cnext`, `cprev` and `tail` the ring, `hash` the hash chains as
sequences. The ring's pointers are assigned one by one in the order of the C
code (`CPlace`, `Hit`), because the ring can be damaged. `GetBucket` is
`getbucket` with hit, read-ahead (`ReadAhead`), fill and placing; `Reuse` is
`reuse`, which flushes the buckets near a dirty one. A call meets a set `bad`
of blocks that the medium refuses while it runs; `SameTransfer` groups blocks
into the transfers that `flushchain` and `fillchain` form, and a transfer with
a bad block fails as a whole after writing the blocks before it. A block is one
value; the "same contents" test of `b_writelb` is kept.

`BlockStore` is what the callers may rely on: blocks as the library reads them
(`store`), blocks on the medium, and the last answer. `BlockCache` implements
it with `store` the cached contents over the medium (property `WriteBack`).
It promises nothing of what a read returns; `IntactReadCurrent` does, for calls
that start with an intact ring, and `ReadCurrent` does not hold in general.

### Volume

`store` is what the library reads (cache over medium), `disk` the medium, `mem`
the MDB and bitmap in memory with their update flags, `handle` the open files.
The blocks are the MDB, the bitmap, and one catalog node per file. `Evict`
writes any dirty block at any time, as a reused bucket does; a flush writes its
queue in ascending order, MDB, bitmap, catalog, one action per block
(`FlushMdb`, `FlushVbm`, `FlushCat`), so that a crash may come in between and a
write may fail. A changing call is `VDirty` plus flush while the bit is still
set, then the call's own action (guard `Change`). File sizes are sets: `ext` is
the file's blocks, `need` those below the logical end. Read-only mounts are
modelled; scavenging is part of `Mount`, as the code has no other call in between.

With `IOErrors` a call may also end half way (`FailedCall`): a bucket that it needs is dirty
and cannot be written, so `b_readlb` or `b_writelb` fails, and with it the B-tree step, the
`f_flush` or the `flushvol` in progress. `VDirtyFails`, `CreateFails`, `WriteUnstored`,
`TruncateUnstored`, `CloseUnstored`, `DeleteFails`, `VFlushFails` and `VCloseFails` say what each
call has done by then: `hfs_close` has freed blocks and frees the handle although the record could
not be stored, `hfs_delete` has freed the blocks of a record that stays, `flushvol` keeps the update
flags of what it has not written.

`lost` and `shared` are history variables: whether changes have been dropped (by a crash, by an
unmount that could not write everything, or by a close or a deletion as above), and whether the
medium has been left with two files that have a common block. The latter happens with
this design: a block freed by one file and taken by another is in two catalog
records on the medium if the second reached it and the first did not, and
`v_scavenge` only ever sets bits. The safety properties are stated up to that.

### AllocSearch

The loop of `v_allocblocks`, one action per round (`Scan`); the inner loops are
`CHOOSE` of the place where they stop. `spare` is the bit past the end of the
bitmap, which the code reads when `drAllocPtr = drNmAlBlks`. `BlockPool`
promises a free run of the requested length, or the longest there is.

### FileExtents

One file with two forks, `Width` descriptors in a record (3 in HFS), the
catalog record in the handle (`h.rec`) and on the volume (`stored`), the copy of
one extent record with its first block (`h.ext`, `h.fabn`), and the overflow
records as a map (`tree`). `Locate` is the loop shared by `f_addextent` and
`f_trunc`; `DoBlock`, `AddExtent`, `Trunc` and `Flush` are the functions of
`file.c` of these names; actions are the calls of `hfs.c`. `hfs_write` is a loop
over blocks: `Write` begins it, `WriteInside`, `WriteBeyond` and `WriteNoSpace`
are its rounds. `luck` says which B-tree operations of a call fail; the constant
`Faults` says which may. `OthersTake` and `OthersGive` let other files use the
space. One logical block is one allocation block (`lpa` = 1). `Wrap` stands for
2^32, at which `dlen` wraps.

`ForkMap` is the promise: block n of a fork is the n-th of its sequence.

### BTree

`t` is one tree: the contents of its allocated nodes (`nodes`; a node that the
bitmap has free cannot be read, `bt_getnode` refuses), the map nodes, and the
fields of the header record. A node has its height (1 for a leaf), its records,
and its links. A record is a key and, in an index node, a child. `Cap` stands
for the bytes of a node: records of the extents file and index records have one
size, so counting them is exact there; catalog leaves are simplified.

An insertion is `Path` (the nodes `n_search` leads to, first child if the key
comes before all others) and a fold of `InsertLevel` over it, leaf first, that
carries the record to be inserted into the level above, as the recursion of
`insertx` does on its way back; then `Grown`, the new root. `Split` computes the
halves from `Mark`, the code's running count of what still belongs to the left
node. A deletion is a fold of `DeleteLevel`, which carries what has become of
the child's record: gone with its node, rekeyed, or the same; then `Lowered`.
A failure in the middle (`b*-tree full`) keeps what the levels below have stored.
`Spaced` is `bt_space`, including the new map nodes.

The actions are the calls that change a catalog or an extents file: a
reservation with one insertion (`hfs_create`, `hfs_write`), with two
(`v_mkdir`), or with none; a deletion; a search; and `hfs_rename`, a deletion
and an insertion without a reservation, which `RenameFree` makes a step only if
the nodes are there. `Pinned` are the records of the root directory: a catalog
never loses them, an extents file has none. That
difference decides whether a new key can come before all others, and whether a
tree can become empty.

`KeySet` is the promise, a set of keys. The mapping takes the keys in the
leaves, so that an answer of `bt_search`, which goes by the index nodes, is
compared with what the leaves hold.

### CatalogTree, Catalog, DirTree

A catalog `c` is a set of directory and file records (`ent`), a set of thread
records (`thr`), `drNxtCNID`, and the four counts of the MDB. `Resolve` is
`v_resolve`: a path is a sequence of names and `Up`, absolute or relative, and
the answer is a record, or the place where one could be made. `Fold` says which
names compare equal (`d_relstring`).

A call is checked as a whole and then makes its changes one after the other:
`CreateSteps`, `MkdirSteps`, `RmdirSteps`, `DeleteSteps` and `RenameSteps` are
the changes in the order of the C code, `Ready` says whether the record a change
needs is there, `Apply` makes it. In `Catalog` a call begins (`Begin`), its
steps follow (`Step`), and any of them may fail (`Fault`: no nodes, an I/O error),
which ends the call and leaves what it has done; `harm` counts such calls. A
step whose record is missing fails by itself (`Fail`). Nothing undoes anything, as in the code.
The history variable `astray` says that the path of the running call was reported
absent though its last name is there: it has climbed above the root with colons
after that name (`:a:::`), and `v_resolve` leaves in `*parid` and `fname` what it met last.

`DirTree` is the promise: a set of objects with number, parent and name that
calls make, remove or move one at a time, never into themselves. The mapping
takes the catalog as it will be when the running call has ended, so that a call
is one step, at the moment when its checks have succeeded.

### FuseFiles

`vol` is the mounted volume: records with their path, open files (`hfsfile`: a
copy of the record, the path at opening, the selected fork, the dirty flag, the
reference count), bitmap, free count and data. `fds` are libfuse's descriptors,
with their paths. The first half are the library's functions on such a volume
(`SetFork`, `Trunc`, `Flush`, `Open`, `Close`, `Write`, `Seek`, `Truncate`,
`Delete`), each with everything it does inside: `hfs_setfork` trims the fork it
leaves, `hfs_close` trims and flushes, `f_flush` stores under the old path. The
actions are the callbacks as compositions of these. libfuse's hiding of files
that are unlinked while open (a rename to a hidden name, a deletion at the last
release) is modelled from how `fusefs_hfs.c` relies on it.

`view` is what the user has made of the files. `breach` records what the program
does not take (section 4); `Allowed` says which of it this user does. All checks
are for a user who does none. Nothing is assumed about what the program does then. The names that libfuse gives to hidden files are its own: users
create no name that a lookup would take for one of them (`HiddenApart`; case does
not count there).

### Media

`blk` is what the blocks of the medium hold: a driver record, a map entry, part of
a volume, or nothing. A call computes its writes in the order of the code and
`Write` makes them one by one; `Stop` ends it between any two, for an error, a
signal or a crash. `Read` and `Entries` are the search of `m_findpmentry` with its
way of ending. `Layout` is the arithmetic of `hfs_format`. A medium starts blank or
with the map of another system, which may have free space before a partition.

### KnownVolumes

Processes run commands: `pc` is where each stands between its calls that others
can notice (reading `.hcwd`, probing for partitions, formatting, opening the
medium, working on it, truncating `.hcwd`, flushing it). A medium that is open is locked as
`os_open` locks it; drives are changed while nothing is open in them. A volume has
a name, an identity (`born`, the creation date), directories, and a file in some
of them: enough to see which volume and which directory a command acts on.
`meant` is what the commands that ended have told their users. `hcwd_init` enters each line it
reads with `addent`, which sets `dirty` (`hcwd.c:70`), so every command that has read a list with
something in it writes it back, `hls` and a failed `hcd` too (`Saves`, `Save`); only one that has
read an empty list and entered nothing ends without writing. `breach` names what
the design does not take; each such case is reached by TLC and recorded as a hazard. Its "race" is
a process that writes a copy back while the file is no more what it has read, or while another
process is writing it.

### BinHex, Transfer

`BinHex` has the encoder (run lengths, six-bit characters, lines, checksums) and
the decoder, both as functions over states with the same fields as the static
variables of `binhex.c`. It uses RECURSIVE operators and no theorem reaches it.
`Transfer` has the copies: `opensrc`, `opendst`, the four formats both ways, the
automatic mode, room on the volume, a command with one or two files and a
destination that may be a directory. Between two commands a UNIX file may be cut,
altered, or have its lines changed by mail. `origin` is what a UNIX file was
written from. Sizes are small: `Block` stands for 128, `Buf` for a buffer,
`MaxLine` for 64, `MaxRun` for 255.

## 3. Runs

| run | checks | shows |
|---|---|---|
| `MCBlockCache.cfg` | `CacheCoherent` `IntactReadCurrent` `WriteBack` | with an intact ring the cache is right under any failing transfers and implements `BlockStore` |
| `MCVolume.cfg` | `TypeOK` `InUseMarked` `FreeCountRight` `NoSharing` `CleanMeansConsistent` `VolumeInv` `MarkedBeforeChange` | consistency through crashes; the invariant of the proofs |
| `MCVolumeIOErrors.cfg` | `Accounting` | no block leaks, and none is freed while in use or given to two files, when writes and calls fail |
| `MCVolumeCrashInClose.cfg` | `InUseMarked`, refuted | an unmount is not safe against a crash |
| `AllocSearch.cfg` | `LongestRun` `NextFit` `SearchEnds` | the search is right from any bitmap and pointer |
| `MCFileExtents.cfg` | `ExtentsSound` `HandleUsable` `ImplementsMap` | a file implements `ForkMap`, also when `bt_insert` fails in the middle of an extension |
| `MCBTree.cfg` | `TreeSound` `IsKeySet` | a catalog's tree implements `KeySet`; reserved insertions never fail |
| `MCCatalog.cfg` | `RecordsSound` `ThreadsExact` `CountsSound` `ChecksSuffice` `IsDirTree` | calls keep a tree with exact threads and counts; a failed call does bounded harm |
| `MCFuseFiles.cfg` | `HandlesSound` `FilesAsSeen` `SpaceSound` `ReadOnlyKept` | both forks are what users wrote, through shared handles, hidden files and fork switches |
| `MCMedia.cfg` | `MapSound` `VolumesFit` `NumbersKept` `OthersKept` | the map is sound wherever a call stops; a volume fits |
| `MCKnownVolumes.cfg` | `ListSound` `RightVolume` `MapKept` | commands act on the volume their user chose |
| `MCTransfer.cfg` | `StateSound` `ReadsBack` `SuccessIsWhole` `OnlyItsTarget` | formats fit each other, damage is noticed |

Some properties are conjunctions that belong together: `CacheCoherent` is `TypeOK`,
`DirtyFindable` and `CleanAgrees`; `ExtentsSound` is `TypeOK`, `RecordsSound` and
`SpaceAccounted`; `HandleUsable` is `EveryBlockFound` and `CanBeExtended`; `TreeSound`
is `TypeOK`, `ChainSorted`, `NodesAccounted` and `IndexExact`; `CountsSound` is
`CountsExact` and `CountsNear`; `RecordsSound` of `Catalog`, `HandlesSound` of
`FuseFiles`, `ListSound`, `StateSound` and `MapSound` are the type invariants of
their modules with `NumbersAndKeysUnique`, `RefsExact`, `Remembered`, `AutoAgrees`,
and `PartitionsDisjoint` and `NothingLost`.

Bounds and why they are enough:

- *BlockCache*: 3 buckets for 4 blocks, transfers and read-ahead of 2, 2 hash
  slots: buckets are reused, chains have collisions, a reuse flushes a
  neighbour, read-ahead meets cached blocks, the end of the volume and failure.
  Use counts stop at 2, the least value that makes `cplace` walk and `getbucket`
  swap. The view drops the last answer; data values are symmetric. The
  constraint `RingIntact` confines the run to intact rings; what `CacheCoherent` and
  `WriteBack` say of damaged ones is proved in `BlockCacheProofs`.
- *Volume*: 2 files and 2 blocks, runs of up to 2: enough for one file to take
  what the other gave up, for a partial run, a full volume, and every order of
  the four blocks written. Files are symmetric. The run with I/O errors stops
  where changes are lost, as its property is about the time before, and goes on only from
  states with at most two dirty blocks (`FewDirty`); the theorem has no such bound.
- *AllocSearch*: 6 blocks, requests to 4: every bitmap and pointer, with up to
  three separate runs, requests longer than any run and exact fits.
- *FileExtents*: 4 blocks and records of 2 give a fork up to two records with
  joined and separate extents, and a record of the other fork; any insertion
  into the overflow file may fail. The view
  drops the last reply, which decides nothing.
- *BTree*: 7 keys, two of them pinned, leaves of 3 and index nodes of 2 give
  three levels, splits and joins at each, joins across parents, and a root that
  grows and goes; 3 nodes at first, extensions of 6 and 6 bits in a map node
  make every extension bring a map node. An index node of 2 is full again after
  a split, harder on the reservation than any real one; leaves of 2 as well
  would be too hard (two insertions could then use a node more than is
  reserved). A rename is a step only where it finds nodes. The view drops the last answer.
- *Catalog*: three numbers can be given out, names with two that differ in case,
  paths of up to three steps with `Up`, one that goes astray, three volumes to begin with, one of them with
  nested directories and a file with a thread. That is enough to move a directory
  below another, into itself and out again, and to remove the working directory.
  One call may fail half way, and all that can follow is explored.
- *FuseFiles*: one folder with a name that is "System", one other and one hidden
  name, two descriptors, two blocks of data, files of up to two: enough for two
  descriptors of one file, a file that takes what another gave up, a full volume,
  a hidden file next to a new one, and a trim that the last crash has lost.
- *Media*: 44 blocks with volumes of 16 and more, maps of 2 and 4 entries, 4 calls:
  a map is zeroed, two partitions are made and one is formatted, or three are made
  and the third takes exactly the rest. The widths of bitmap and count are scaled
  down with the medium (4 bits to a block, fewer than 12 allocation blocks), so that
  both limits are met.
- *KnownVolumes*: two processes, one drive, two media, two names, two
  directories, three commands, all of them from any medium with or without a map.
  Three commands are enough to make a volume known, go to a directory and act, or for two
  to overlap while a third has prepared the list. The constraint `Behaved` ends a
  behaviour at its first breach. Everything alike is symmetric.
- *Transfer*: a document with both forks, with runs at and above the limit, with
  the mark 0x90 alone, in runs and at the end, and a text with characters that
  Latin-1 has and has not; a UNIX text; no room, room for a part, and enough; two
  commands, one harm between them.

Deadlock is checked for `Volume`, `AllocSearch`, `BTree` and `Catalog`. The other models stop only
at a bound (`MaxCount`) or where no call is possible, and say `CHECK_DEADLOCK
FALSE`.

Fairness: only `AllocSearch` needs any. `WF_vars(Scan \/ Take)` says that a call
that has begun goes on, which a single-threaded loop without waiting does.
The other modules state safety only: nothing in libhfs happens by itself.

## 4. Disagreements between code and comments

One run ends in a violation on purpose: `MCVolumeCrashInClose`. `v_close` writes
the MDB with its unmounted bit first (`flushvol` sets it before the one flush,
which sorts by block number). A crash before bitmap and catalog follow leaves a
volume that is taken for clean.

The following properties state what a comment or a manual says, and TLC refutes
them in the modules as they are, with the configuration of the component changed
as told here. No configuration of this directory states them.

1. `BlockCache!ReadCurrent`, without `CONSTRAINT RingIntact`, `BadSets <- NoBadSets`:
   `cplace` (block.c:436) walks from the head of the ring to the first bucket used
   once and moves a bucket before it, and does not notice when the two are the
   same. The bucket is then linked to itself; a later read-ahead takes it for two
   blocks and `b_readlb` returns the wrong one.
2. `Volume!MarkedBeforeChange`, with `IOErrors = TRUE`: `v_dirty` clears the bit in
   memory before it writes it; if that fails, the next call believes the medium is
   marked.
3. `FileExtents!OnlyUnneeded`, with `Faults = {"put"}` and `Width = 1`: `f_trunc`
   gives blocks back before it stores the record that listed them; if storing
   fails, they are given back twice.
4. `BTree!SearchFinds`, with `Pinned <- MCNone`, `LeafCap = 2`, `IndexCap = 3`: a key
   below all others goes into the first child; if that is split, `insertx`
   (btree.c:433) corrects the record of the left half and then inserts that of the
   right half at `rnum + 1`, which is 0: before it. The records of the right half
   are in the leaf chain, and no search finds them. An extents file meets this, a
   catalog cannot.
5. `FuseFiles!CaseMayChange`, with `Allowed = {"case"}` and `lower` equal to another
   name in `Fold`: a rename that changes only the case of a name finds the source
   as its own destination and deletes it (`fusefs_hfs.c:339`); CHANGES of hfsutils:
   "Files and directories may now be renamed with a mere change of case."
6. `FuseFiles!CloseFlushes`, with `Allowed = {"moved"}`: an open file that is renamed
   is flushed under its old path, which fails, and what was written since is lost
   at the close (`file.c:508`); libhfs.txt says that `hfs_close` flushes all pending changes.
7. `KnownVolumes!ForceNeeded`, with `Tolerated = {"busy"}`: `hfs_nparts` answers -1 also
   for a medium that another command has locked, and `hformat`, when the lock is
   gone, erases the partition map without `-f`.
8. `Catalog!ChecksSuffice` without `~astray`: for a path like `:a:::`, which climbs above the
   root after it has named something, `v_resolve` (volume.c:829) goes to `done` with `found`
   0 and the parent and name of `a` in `*parid` and `fname`, as if `a` could be created.
   `hfs_rename` to such a path deletes the record of its source, then fails because the key is
   taken (btree.c:407, "b*-tree record already exists"), and the source is lost;
   `hfs_create` and `hfs_mkdir` use up a number and fail.

Three more are within reach of `BTree` with other constants: with `Pinned` empty
and `IndexCap = LeafCap = 2`, a tree whose root has one record and whose only leaf
loses its only record is freed while `bthRoot` still names it (`bt_delete` lowers a
tree by one level per deletion); with `Grow` below the need, `bt_space` succeeds
and the insertion it was called for fails after it has stored a split; with
`RenameFree = 0`, `hfs_rename` deletes a record and finds no node to insert it again.

What users do that `FuseFiles` records as a breach: renaming by case ("case"),
writing to an open file after a rename or an unlinking ("moved"), writing beyond
the end ("beyond", `hfs_seek` clamps), lengthening by truncation ("longer"),
truncating while the resource fork is selected ("fork"), Finder information for an
open file ("info"), a resource fork on a full volume ("full"), and deleting a file
that is open under another case ("deleted").

HFS_OPT_2048 (`hfs.c:1652`) aligns allocation blocks within the medium only if the
volume starts at a multiple of 4 blocks, while libhfs.txt promises it for all;
`VolumesFit` states it for these.

`PROJECT.json` lists the main hazards of the code, those that no property covers with
the reason. Further ones, smaller or outside of what the modules reach:

- `dirVal` has 16 bits: with 65536 children it is 0 again and `hfs_rmdir` takes the
  directory for empty (`hfs.c:1216`); `CountsExact` is stated modulo `ValenceMod`;
- `hfs_rename` deletes the old record before it inserts the new one (`hfs.c:1438`);
- `hfs_close` frees a handle whose flush has failed, and `hfs_delete` frees the blocks of a file
  before it deletes the record (`hfs.c:1070`, `hfs.c:1281`): `Volume` has both, and `Accounting`
  ends with them (`lost`), because the blocks are free while a record still lists them;
- `b_finish` frees the cache though its flush has failed (`block.c:361`);
- an altered `.hcwd`: names with tabs or line ends, a kill between its truncation and
  the flush (`hcwd.c:190`; breach "killed");
- `copyin` deletes the old destination before it has read the source
  (`copyin.c:408`); names that differ in blanks, slashes, `-` or `_` only become one
  UNIX name (`copyout.c:459`); a TEXT file's resource fork is not copied in the
  automatic mode (`hcopy.c:160`); `automode_unix` reads before the start of a short
  path (`hcopy.c:74`);
- `hfs_zero` stopped in the middle shows entries of the old map under the new one
  (`medium.c:74`), and computes with a wrapped length if it is asked for as many
  entries as the medium has blocks (`medium.c:125`);
- a volume with fewer than 128 allocation blocks has clump sizes of 0 for its trees,
  which then cannot grow (`hfs.c:1665`).

## 5. Proofs

`VolumeProofs` proves, for any set of files, any number of blocks and any clump
size:

- `TypeCorrect`: `Spec => []TypeOK`, with every failure allowed;
- under `FaultFree == ~IOErrors /\ ~CrashInClose`: `Invariance`, the inductive
  invariant, and from it `BlocksInUseStayMarked`,
  `FreeCountStaysRight`, `FilesStayDisjoint`, `CleanMediumIsConsistent`
  (invariants) and `MediumMarkedFirst` (the action property).

Without it, with failing writes and calls and with a crash at any time, `SpaceStaysAccounted` proves
`Spec => []Accounting`. Its invariant, `AccountedInv`, is about memory
and what the cache holds or the next mount reads (`StoreExact`); like the property it promises nothing
after changes are `lost`. Of the update flags it needs only what concerns space
(`FreeFlagsRight`): a `v_dirty` that fails leaves the MDB in the cache with the old "unmounted" bit and no
flag for it. `FailedCallAccounted` goes through the calls that fail half way; `lost` is what
`CloseUnstored` and `DeleteFails` set if blocks were freed that the stored record lists.

`FaultFree` is needed for the others: section 4 shows it for each of its parts.
Crashes at any other time are included.

The inductive invariant is `VolumeInv`, checked by TLC in `MCVolume`. The four
safety invariants speak of memory and of the medium, and are not inductive: what
a mount finds on the medium depends on what the last session had flushed. The
strengthening says how memory, cache and medium stand to each other in each
phase: `FlagsRight` (what has no update flag is in the cache already),
`UntouchedWhileUmounted` (while memory says "unmounted", nothing has changed),
`MarkedInUse` (otherwise the medium says "in use", except while `v_dirty` is
writing it), `ClosingSound` (what `v_close` flushes is consistent and what it
has not written is queued), `CacheEmpty` and `HandlesSound`. One lemma per
action shows that it preserves these parts, with lemmas on the free count (a
marked run lowers it by its length) and on disjointness; `Invariance` combines
them, and each theorem follows from it by PTL.

`BlockCacheProofs` proves for any numbers of buckets, hash slots and blocks, any lengths of
transfers, any medium, and any blocks that fail during any call:

- `CoherentCache`: `Spec => []CacheCoherent`;
- `ImplementsStore`: `Spec => WriteBack`, the refinement of `BlockStore` (about writes, flushes and
  their failures; `BlockStore` leaves open what a read returns);
- `IntactRingReads`: `Spec => IntactReadCurrent`.

The first two say nothing of the ring: they hold also after `cplace` has damaged it
(section 4), when a bucket may be met twice on one walk. Only what a read
returns depends on it. `CacheInv` adds to the property what makes it inductive (`Good`): a hash chain
lists a bucket once (`Listed`), a block has at most one bucket in use in its chain (`Unique`), a dirty
bucket is in the chain of its block, and a clean one there holds what the medium
holds. Of each part of a call the lemmas say that it is `Settled`: the cache is `Good` again,
no block has other contents for the library, and the medium changed towards
those contents only. This carries over from part to part (`SettledTwice`) and is the refinement.
Between the parts less is true: the buckets that a read-ahead has claimed are `Lined` up (meant for
consecutive blocks that no other bucket holds, and out of use), after the transfer they are `Calm`, and
`hplace` puts them into their chains one by one (`Placing`). `IntactRingReads` needs that the way back
along an intact ring meets the tail after `CacheSz` buckets and not before (`Circle`); that follows
from meeting all buckets (`AllMeansCircle`, by counting). The loops of the model are
recursive functions: `Solution` gives one a solution, and `Along` carries an invariant along it.

`CatalogProofs` proves for any names and classes of names, any volumes to begin with that
are `Intact`, any paths, and any failure half way through any call:

- `RecordsStaySound`: `Spec => []RecordsSound`;
- `CountsStayNear`: `Spec => []CountsNear`;
- `ThreadsStayExact`, `ChecksAreEnough`, `CountsStaySound`: `Spec /\ []Countable` implies
  `[]ThreadsExact`, `[]ChecksSuffice` and `[]CountsSound`;
- `CatalogIsTree`: `Spec /\ []Countable => IsDirTree`, the refinement of `DirTree`.

`Countable` says that no directory holds 2^16 objects. It is needed: `hfs_rmdir` takes a
directory for empty if its valence is 0, and a valence has 16 bits. The walk of `v_resolve` is a
recursive function, for which lemma `Solution` gives a solution, and `ResolveSound` what it can return.

`RecordsInv` adds to `RecordsSound` what the running call has still to do (`Pending`): at most one
record comes, and if one comes its number is new, just to be taken, or that of the record which goes
before it. All other steps are `Tame`: they leave each object under its number and key.

`ProgressInv` says, while no call has failed, that the steps that are left lead to an intact catalog
(`Success`), or the path went astray and the call will meet a record in its way (`Blocked`), or the
working directory is gone and the call will look for its thread in vain (`Doomed`). That a call that has
made its checks is in one of the three is shown per call (`CreateGoes`, ..., `RenameGoes`);
`...Succeeds` follow the steps with what the catalog still owes to its counts (`Debt`, `Owing`): a
record that comes or goes makes a debt to the valence of its directory and to the MDB, and
`v_adjvalence` pays it. A rename makes two, in either order of payment.

`CatalogIsTree` follows: `DirTree` sees the catalog in which the rest of the steps ends (`Finished`,
by `After`), so all of a call happens to it where the call begins. `GoesWhere` says that this is one
intact catalog (`Success`) or none (the call will fail, and the tree counts as broken), and
`OneChange`, shown per call, that it differs by the one object that `DirTree` allows. Later steps are
stutters. For a rename, the walk up to the root that did not meet the source is the way that
`DirTree` asks for (`AboveAvoids`): each directory on it is found by its thread, its
parent is on it too, and it ends at the root.

`NearInv` is about `CountsNear`: `Gap`, by how much a count of the MDB is ahead of the records, and
what the remaining steps will add to it (`Adds`), are together at most `harm`; a call adds 0 in all
(`CreateAdds`, ..., `RenameAdds`), and never more than one at a time, so that a call that ends half way
adds at most one to the difference.

`FileExtentsProofs` proves for any sizes of the volume, of a record (`Width` descriptors) and of
extents, any clumps, and any calls, under `Scenario`:

- `ExtentsAlwaysSound`: `Spec => []ExtentsSound`;
- `HandleAlwaysUsable`: `Spec => []HandleUsable`;
- `ExtentsImplementMap`: `Spec => ImplementsMap`, the refinement of `ForkMap`;
- `OnlyOwnBlocksFreed`: `Spec => OnlyUnneeded`, which no run states (section 4, item 3).

`Scenario` says that at most the insertion of an overflow record fails, and that the volume has
fewer than `Wrap` blocks (`drNmAlBlks` has 16 bits, the numbers that wrap around have 32). That the other
calls succeed is needed for the last theorem, as section 4 shows for `"put"`, and the others
have been checked for insertions only.

The properties are about `Chain(k)`, a walk over the records of fork `k` by recursion. The invariant `IInv`
says instead, for a sequence of blocks, how the records fit it: `Tiled` says that each record
describes a stretch of the sequence, that the next one begins at the block where it ends, and that
only the last may have empty descriptors. `ChainIs` shows that the walk then gives this very sequence.
What a call does to a fork can thus be told by the sequence that its records fit afterwards: with
the run behind it (`Grown`), or cut at its logical end (`Trimmed`); if an insertion fails, it is as it was
(`NotGrown`). `Space` keeps account of bitmap and free count: the blocks of the two forks and of other files
are apart and are all that is marked. Of the open file `IInv` says that the handle's copy is the
record of the selected fork that begins at `fabn` (`AtRecord`), or that `fabn` is the end of the fork,
where the insertion of a record has failed (`Lost`). Every block is found from either; only the first
can be extended.

The loops (over records in `f_doblock`, over descriptors in `f_addextent` and in the release of
`f_trunc`) are recursive functions; `Solution` gives one a solution, `Along` carries an invariant
along it, and `...StepKeeps` is the lemma for one round. `DoBlockFinds`, `AddFound` and `TruncTrims` say what
each function does to any fork that is `Tiled`. One lemma per action (`CreateKeeps`, ..., `OthersKeep`)
concludes `IInv'` and the step of `ForkMap`, and the theorems follow.

`AllocSearchProofs` proves for a volume of any size, any bitmap, pointer and
request (`NBlocks` and `MaxRequest` are only assumed to be positive):

- `SearchImplementsPool`: `Spec => LongestRun`, the refinement of `BlockPool`;
- `SearchTakesFirst`: `Spec => NextFit`.

The argument is `SearchInv`: `Counted` (the free count is the number of free
bits), `FoundSound` (what has been found so far can be taken, and no run of
that length lies nearer to the start), `NoneLonger` (of the runs the search has
passed none is longer) and `Longest` (when it ends it has passed all). The inner
loops stop at the first bit of their kind; that there is one rests on lemma
`Least`, from the well-foundedness of `<` on `Nat`.

`MediaProofs` proves, for media of any size with any well-formed old map and any calls, under
`RealSizes` (4096 bits in a block, fewer than 65536 allocation blocks, volumes of
at least 400 blocks, as in the code):

- `LayoutsFit`: `Spec => []VolumesFit`, the areas that `hfs_format` lays out;
- `TypeCorrect`: `Spec => []TypeOK`, with the number of allocation blocks in 16 bits.

TLC checks the same formulas with smaller numbers, so that the limits are met
on a small medium; the theorem is what says that they hold for the code's own. `MediaInv`
gives the types of blocks and of pending writes, and says that a volume being
formatted has the layout of some length that was accepted; `LayoutsFit` is then
integer arithmetic (`Division`, `RoundsUp`, `LayoutFits`).

It goes on to the partition map:

- `MapStaysSound`: `RealSizes` implies `Spec => []MapSound`;
- `NumbersStay`: `Spec => NumbersKept`;
- `OthersStay`: `Spec => OthersKept`.

The old maps are those that `WellFormed` admits: entries that agree on their count,
partitions apart and on the medium, and the map's own partition at block 1 and long enough. None of
the three properties is inductive: between two writes of `m_mkpart` the entry of the rest is
missing and the counts differ. `MapInv` says for some length `L` of the map that
the entries in its `L` blocks are `Placed` (apart, on the medium, with counts of at most `L`,
so that no search leaves the map) and, where `hfs_zero` made it, `Ordered` (the map
first, the free space last, counts that fall from one entry to the next: a search then never skips what
the last write has hidden). For a running call it also says which writes are left: `Cut`, `Rest`
and `Counting` are the three stages of `m_mkpart`, `Formatting` keeps the pending blocks
of `hfs_format` inside its volume and away from the map, `Clearing` is `hfs_zero`. After a call that was
completed the map is `Whole`. There is one lemma per stage (`CutWrites`, `RestWrites`,
`CountWrites`, ...), and the three theorems follow from `MapInv` alone.

`KnownVolumesProofs` proves for any number of processes, drives, media, volume
names and directories:

- `ListStaysSound`: `Spec => []ListSound`;
- `CommandsActOnTheirVolume`: `Spec => RightVolume`;
- `MapsStay`: `Spec => MapKept`.

Like the properties, they speak of behaviours without a breach. `KnownInv` has a part
`Own` for each process: what it holds (`Shape`), that the medium it has open stays in
its drive (`Holding`), that its copy of the list differs from what it has read by
what it is going to report (`Tells`), that the volume it has open is the current one
of that copy (`Chosen`), and that `hformat` knows of a partition map that is there
(`Looked`). `FileSound` says that `.hcwd` is what was reported, or that one process is
writing exactly that. The lemmas `...Table` say what a command does to the list,
the lemmas `...Own` that the process that takes the step keeps `Own`, and
`OthersOwn` that the others do, because locks keep them off their media.

`FuseFilesProofs` proves for any numbers of folders, names, descriptors and blocks, and
any lengths of files:

- `HandlesCounted`: `Spec => [](breach = {} => HandlesSound)`;
- `FilesAsMade`, `BlocksOwnedOnce`: `FilesAsSeen` and `SpaceSound` as invariants, both
  without a breach;
- `ReadingKeepsVolume`: `Spec => ReadOnlyKept`, with breaches too.

The properties quantify over files as they are read, through the open copy if there is
one, and no single call keeps them: `f_trunc` makes the copy differ from the record, and a
callback on a path holds a reference that no descriptor accounts for. The invariant `FuseInv` says while
nothing is breached: the volume is `Sound` (the catalog has a number and a path once; each
open file is backed by a record that equals its copy unless the copy is dirty;
these forks, `Lives`, own the blocks in use, each once; on a writable volume only the
selected fork of an open file may have blocks behind its end, which is what lets
`hfs_close` trim one fork and not two), no open file that has moved has changes
to be stored, the volume `Shows` the view, and the handles `Counts` the descriptors.

Each function of libhfs has a lemma of its own on any sound volume: it `Keeps` what is
seen (`TruncKeeps`, `SetForkKeeps`, `FlushKeeps`, `OpenKeeps`, `CloseKeeps`), or `Changes` one
fork of one file to the contents that its user expects (`WroteChanges`, `CutChanges`), which
`f_flush` then stores (`Done`) or cannot store because the record has moved (`Torn`). `Torn` is a
breach that shows after the call, also if the handle is closed in between (`Tears`): so a
step without a breach has `Done` what it was for (`DoneAndClosed`). One lemma per callback
composes these (`WriteTidy`, `ReleaseTidy`, ...), over the handle that it shares or
opens. `HiddenApart` is used where the last release of a hidden file deletes what is
found under its name. `ReadingKeepsVolume` has an invariant of its own, `ReadInv`: on such a
volume no descriptor has a hidden path, so that no release deletes.

Only model-checked: liveness (`SearchEnds`); `TreeSound` and `IsKeySet` of `BTree`, whose loops fold
an operator along the path of a key, for trees of any height; and everything about `Transfer`, as
`BinHex` encodes with bitwise operators and recursive ones, which the provers do not take.

## 6. Not modelled

- record packing, integers (`record.c`, `data.c`): fixed layouts without state;
- attributes of files (`hattrib`, `hfs_setattr` but for Finder information), `statfs`,
  times;
- bad blocks given to `hfs_format`;
- `main.c`, `log.c`, `util.c`: start-up;
- `tclhfs.c`, `glob.c`, `hls` printing: one library call each, or no state of their own;
- `hfsck`, `librsrc`: not part of the mounted file system, unfinished;
- the alternate MDB, volume attributes;
- what a transfer that fails inside a B-tree call leaves of the tree (`Volume` only ends the
  call there), and how its header and map are stored;
- threads: there is one.

## 7. Plan

1. Compositions: extents over the allocation search; extents of a B-tree's own
   file, with a crash before the MDB is written.
2. Proofs: the node map of `BTree` (`NodesAccounted`).
