----------------------------- MODULE FuseFiles -----------------------------
(***************************************************************************)
(* Files through FuseHFS (fusefs_hfs.c): the callbacks that libfuse calls  *)
(* one at a time (main.c passes -s), on the open files of libhfs (hfs.c,   *)
(* file.c).                                                                *)
(*                                                                         *)
(* libhfs keeps for each open file a copy of the file's catalog record and *)
(* works on that copy; f_flush stores it under the directory and name that *)
(* the file had when it was opened.  libfuse knows its descriptors by the  *)
(* path they were opened under, and renames a file that is unlinked while  *)
(* it is open under just that path ("hides" it) until its last release.    *)
(*                                                                         *)
(* A unit of data is an allocation block.  Directories do not change here  *)
(* (module Catalog); which free blocks v_allocblocks picks is left open    *)
(* (AllocSearch), and extents are sequences of blocks (FileExtents).       *)
(***************************************************************************)
EXTENDS Integers, FiniteSets, SequencesExt

CONSTANTS
  Folder,   \* directories
  Name,     \* names of files
  Fold,     \* the class of names that compare equal
  Allowed,  \* what this user does of the things that breach names
  Given,    \* bound: names that users give; they look up all
  Hidden,   \* names that libfuse gives to unlinked files
  System,   \* the name "System"
  Block, Val,
  Fd, NoFd,
  Clump,    \* f_alloc gets up to so many blocks
  MaxLen,   \* MAX_FILE_SIZE
  MaxRsrc,  \* bound: units of a resource fork
  MaxId     \* bound: files ever created

ASSUME FuseAssumption ==
  /\ Hidden \subseteq Name /\ Given \subseteq Name \ Hidden /\ System \in Name /\ DOMAIN Fold = Name
  /\ IsFiniteSet(Block) /\ IsFiniteSet(Fd) /\ Clump \in Nat \ {0}
  /\ MaxLen \in Nat \ {0} /\ MaxRsrc \in Nat /\ MaxId \in Nat \ {0}

\* libfuse has its names for itself: no other name looks up a hidden file
ASSUME HiddenApart ==
  \A x \in Hidden, y \in Name : Fold[x] = Fold[y] => x = y

VARIABLES
  vol,       \* the mounted volume: catalog records, open files, bitmap, data
  fds,       \* libfuse's open descriptors
  readonly,  \* _readonly, and HFS_VOL_READONLY
  view,      \* history: the files as their user has made them
  breach     \* history: what the user has done that the program cannot take

vars == <<vol, fds, readonly, view, breach>>

Path == [dir : Folder, name : Name]

ASSUME NoFdAssumption == NoFd \notin [id : 1..MaxId, path : Path]

UserPath == {p \in Path : p.name \notin Hidden}
NewPath == {p \in Path : p.name \in Given}

NoFork == [len |-> 0, blocks |-> << >>]
NewCat(id) == [id |-> id, data |-> NoFork, rsrc |-> NoFork, info |-> "plain"]

Same(p, q) == p.dir = q.dir /\ Fold[p.name] = Fold[q.name]

\* v_catsearch: the record that path p leads to
At(v, p) == {e \in v.rec : Same(e.at, p)}

Opened(v, id) == {h \in v.files : h.cat.id = id}

\* f_getptrs: the current fork of an open file
Fork(h) == IF h.fork = "data" THEN h.cat.data ELSE h.cat.rsrc

\* h with its current fork changed, and so with a record that has to be stored
WithFork(h, f) ==
  [h EXCEPT !.dirty = TRUE,
            !.cat = IF h.fork = "data" THEN [@ EXCEPT !.data = f] ELSE [@ EXCEPT !.rsrc = f]]

-----------------------------------------------------------------------------
(***************************************************************************)
(* libhfs on one open file h.  v is the volume, and the result the volume  *)
(* afterwards.                                                             *)
(***************************************************************************)
Become(v, h, new) == [v EXCEPT !.files = (@ \ {h}) \cup {new}]

Freed(v, bs) ==
  [v EXCEPT !.used = @ \ Range(bs), !.freeBks = @ + Len(bs)]

\* f_trunc: blocks behind the end of the current fork are freed
Excess(h) == SubSeq(Fork(h).blocks, Fork(h).len + 1, Len(Fork(h).blocks))

Trimmed(h) ==
  WithFork(h, [Fork(h) EXCEPT !.blocks = SubSeq(@, 1, Len(@) - Len(Excess(h)))])

\* broken variant: a volume mounted for reading is trimmed too
TruncAlways(v, h) ==
  IF Excess(h) = << >> THEN v ELSE Freed(Become(v, h, Trimmed(h)), Excess(h))

Trunc(v, h) ==
  IF readonly \/ Excess(h) = << >> THEN v
  ELSE Freed(Become(v, h, Trimmed(h)), Excess(h))

AfterTrunc(h) == IF readonly \/ Excess(h) = << >> THEN h ELSE Trimmed(h)

\* broken variant: the blocks behind the end stay
SetForkOnly(v, h, fork) == Become(v, h, [h EXCEPT !.fork = fork])

\* hfs_setfork
SetFork(v, h, fork) ==
  Become(Trunc(v, h), AfterTrunc(h), [AfterTrunc(h) EXCEPT !.fork = fork])

\* f_flush; it fails if the record is gone
Flush(v, h) ==
  IF readonly \/ ~h.dirty \/ At(v, h.at) = {} THEN v
  ELSE LET e == CHOOSE x \in At(v, h.at) : TRUE
       IN  Become([v EXCEPT !.rec = (@ \ {e}) \cup {[e EXCEPT !.cat = h.cat]}],
                  h, [h EXCEPT !.dirty = FALSE])

\* hfs_open: a file that is open already is shared
Open(v, e) ==
  IF Opened(v, e.cat.id) = {}
  THEN [v EXCEPT !.files = @ \cup
          {[cat |-> e.cat, at |-> e.at, fork |-> "data", dirty |-> FALSE, refs |-> 1]}]
  ELSE LET h == CHOOSE x \in Opened(v, e.cat.id) : TRUE
       IN  Become(v, h, [h EXCEPT !.refs = @ + 1])

\* broken variant: closing does not count
CloseAll(v, h) ==
  LET w == Flush(Trunc(v, h), AfterTrunc(h))
  IN  [w EXCEPT !.files = {x \in @ : x.cat.id # h.cat.id}]

\* hfs_close
Close(v, h) ==
  IF h.refs > 1 THEN Become(v, h, [h EXCEPT !.refs = @ - 1])
  ELSE LET w == Flush(Trunc(v, h), AfterTrunc(h))
       IN  [w EXCEPT !.files = {x \in @ : x.cat.id # h.cat.id}]

\* what f_alloc may add: nothing if no block is free
Allocs(v) ==
  LET free == Block \ v.used
  IN  IF free = {} THEN {<< >>}
      ELSE {bs \in UNION {[1..n -> free] : n \in 1..Clump} : IsInjective(bs)}

Wrote(h, pos, bs) ==
  WithFork(h, [len |-> IF Fork(h).len > pos THEN Fork(h).len ELSE pos + 1,
               blocks |-> Fork(h).blocks \o bs])

\* hfs_seek: not beyond the end
Seek(h, offset) == IF offset > Fork(h).len THEN Fork(h).len ELSE offset

\* hfs_write of one unit at pos; bs is what f_alloc adds if pos is not allocated
Write(v, h, pos, x, bs) ==
  IF pos < Len(Fork(h).blocks)
  THEN Flush(Become([v EXCEPT !.disk[Fork(h).blocks[pos + 1]] = x],
                    h, Wrote(h, pos, << >>)), Wrote(h, pos, << >>))
  ELSE IF bs = << >> THEN Become(v, h, [h EXCEPT !.dirty = TRUE])
  ELSE Flush(Become([v EXCEPT !.disk[bs[1]] = x, !.used = @ \cup Range(bs),
                              !.freeBks = @ - Len(bs)],
                    h, Wrote(h, pos, bs)), Wrote(h, pos, bs))

Cut(h, n) == WithFork(h, [Fork(h) EXCEPT !.len = n])

\* hfs_truncate: a fork does not get longer
Truncate(v, h, n) ==
  IF Fork(h).len > n THEN Flush(Become(v, h, Cut(h, n)), Cut(h, n)) ELSE Flush(v, h)

\* broken variant: the resource fork keeps its blocks
DeleteData(v, e) ==
  Freed([v EXCEPT !.rec = @ \ {e}], e.cat.data.blocks)

\* hfs_delete: both forks, by the record
Delete(v, e) ==
  Freed([v EXCEPT !.rec = @ \ {e}], e.cat.data.blocks \o e.cat.rsrc.blocks)

\* hfs_rename of a file to a path that is free
Moved(v, e, q) == [v EXCEPT !.rec = (@ \ {e}) \cup {[e EXCEPT !.at = q]}]

\* hfs_vsetattr, when a System file gets a place or a type
Bless(v, p) ==
  IF \E e \in At(v, p) : e.cat.info = "system" /\ e.at.name = System
  THEN [v EXCEPT !.blessed = p.dir] ELSE v

-----------------------------------------------------------------------------
(***************************************************************************)
(* What the user expects, and what the program cannot take.                *)
(***************************************************************************)
Hole == "hole"
Padded(s, n) == s \o [i \in 1..(n - Len(s)) |-> Hole]
Put(s, offset, x) == [Padded(s, IF offset < Len(s) THEN Len(s) ELSE offset + 1)
                        EXCEPT ![offset + 1] = x]
CutTo(s, n) == IF n < Len(s) THEN SubSeq(s, 1, n) ELSE Padded(s, n)

Seen(id) == CHOOSE w \in view : w.id = id
Sees(w) == view' = (view \ {Seen(w.id)}) \cup {w}

\* h lies no more where f_flush will look for it
Stale(v, h) == ~\E e \in At(v, h.at) : e.cat.id = h.cat.id

\* an open file that has been renamed, or hidden, has changes to be stored,
\* or has been stored over the record of another
MovedAndChanged(v) ==
  \/ \E h \in v.files : Stale(v, h) /\ (h.dirty \/ Excess(h) # << >>)
  \/ \E e, f \in v.rec : e # f /\ e.cat.id = f.cat.id

\* a record is deleted while its file is open (under another path)
DeletedOpen ==
  \E h \in vol'.files :
    /\ \E e \in vol.rec : e.cat.id = h.cat.id
    /\ ~\E e \in vol'.rec : e.cat.id = h.cat.id

If(name, condition) == {x \in {name} : condition}

Breach(also) ==
  /\ also \subseteq Allowed
  /\ breach' = breach \cup also \cup If("moved", MovedAndChanged(vol'))
                              \cup If("deleted", DeletedOpen)
  /\ breach' \subseteq Allowed

-----------------------------------------------------------------------------
(***************************************************************************)
(* The callbacks.                                                          *)
(***************************************************************************)
NewFile(v, p) ==
  [v EXCEPT !.rec = @ \cup {[at |-> p, cat |-> NewCat(v.next)]}, !.next = @ + 1]

NewView(p) ==
  view' = view \cup {[id |-> vol.next, path |-> p, data |-> << >>, rsrc |-> << >>,
                      info |-> "plain"]}

MayCreate(p) == ~readonly /\ At(vol, p) = {} /\ vol.next <= MaxId

\* hfs_create, hfs_close, and for FuseHFS_create hfs_open
FuseHFS_mknod(p) ==
  /\ MayCreate(p)
  /\ vol' = NewFile(vol, p)
  /\ NewView(p) /\ Breach({})
  /\ UNCHANGED <<fds, readonly>>

FuseHFS_create(d, p) ==
  /\ MayCreate(p) /\ fds[d] = NoFd
  /\ \E v \in {NewFile(vol, p)} : \E e \in At(v, p) :
       vol' = Open(v, e) /\ fds' = [fds EXCEPT ![d] = [id |-> e.cat.id, path |-> p]]
  /\ NewView(p) /\ Breach({})
  /\ UNCHANGED readonly

FuseHFS_open(d, p) ==
  /\ fds[d] = NoFd
  /\ \E e \in At(vol, p) :
       vol' = Open(vol, e) /\ fds' = [fds EXCEPT ![d] = [id |-> e.cat.id, path |-> p]]
  /\ Breach({})
  /\ UNCHANGED <<readonly, view>>

Handles(v, d) == IF fds[d] = NoFd THEN {} ELSE Opened(v, fds[d].id)

FuseHFS_read(d) ==
  /\ \E h \in Handles(vol, d) : vol' = SetFork(vol, h, "data")
  /\ Breach({})
  /\ UNCHANGED <<fds, readonly, view>>

FuseHFS_write(d, offset, x) ==
  /\ ~readonly /\ offset + 1 <= MaxLen
  /\ \E h \in Handles(vol, d) : \E v \in {SetFork(vol, h, "data")} :
     \E g \in Opened(v, h.cat.id) : \E bs \in Allocs(v) :
       /\ vol' = Write(v, g, Seek(g, offset), x, bs)
       /\ \E w \in {Seen(h.cat.id)} :
            IF bs = << >> /\ Seek(g, offset) = Len(Fork(g).blocks)
            THEN UNCHANGED view
            ELSE Sees([w EXCEPT !.data = Put(@, offset, x)])
       /\ Breach(If("beyond", offset > Fork(g).len))
  /\ UNCHANGED <<fds, readonly>>

SeesCut(id, n) == \E w \in {Seen(id)} : Sees([w EXCEPT !.data = CutTo(@, n)])

CutBreach(h, n) ==
  Breach(If("longer", n > Len(Seen(h.cat.id).data)) \cup If("fork", h.fork = "rsrc"))

FuseHFS_ftruncate(d, n) ==
  /\ ~readonly
  /\ \E h \in Handles(vol, d) :
       vol' = Truncate(vol, h, n) /\ SeesCut(h.cat.id, n) /\ CutBreach(h, n)
  /\ UNCHANGED <<fds, readonly>>

FuseHFS_truncate(p, n) ==
  /\ ~readonly
  /\ \E e \in At(vol, p) : \E v \in {Open(vol, e)} : \E h \in Opened(v, e.cat.id) :
     \E w \in {Truncate(v, h, n)} : \E g \in Opened(w, e.cat.id) :
       vol' = Close(w, g) /\ SeesCut(e.cat.id, n) /\ CutBreach(h, n)
  /\ UNCHANGED <<fds, readonly>>

\* FuseHFS_release; at the last release libfuse unlinks a hidden file
LastOf(d) == \A f \in Fd \ {d} : fds[f] = NoFd \/ fds[f].path # fds[d].path

FuseHFS_release(d) ==
  /\ \E h \in Handles(vol, d) : \E v \in {SetFork(vol, h, "data")} :
     \E g \in Opened(v, h.cat.id) : \E w \in {Close(v, g)} :
       IF fds[d].path.name \in Hidden /\ LastOf(d)
       THEN /\ \E gone \in {At(w, fds[d].path)} :
                 vol' = IF gone = {} THEN w ELSE Delete(w, CHOOSE e \in gone : TRUE)
            /\ view' = {x \in view : x.path # fds[d].path}
       ELSE vol' = w /\ UNCHANGED view
  /\ fds' = [fds EXCEPT ![d] = NoFd]
  /\ Breach({})
  /\ UNCHANGED readonly

IsOpen(p) == \E d \in Fd : fds[d] # NoFd /\ fds[d].path = p

Renamed(p, q) ==
  [d \in Fd |-> IF fds[d] # NoFd /\ fds[d].path = p THEN [fds[d] EXCEPT !.path = q]
                ELSE fds[d]]

ViewMoved(ws, p, q) ==
  {IF Same(w.path, p) THEN [w EXCEPT !.path = q] ELSE w : w \in ws}

Hiding(p) == {q \in Path : q.dir = p.dir /\ q.name \in Hidden /\ At(vol, q) = {}}

\* a file that is open under p is hidden instead
FuseHFS_unlink(p) ==
  /\ ~readonly
  /\ \E e \in At(vol, p) :
       \/ /\ IsOpen(p)
          /\ \E q \in Hiding(p) : vol' = Moved(vol, e, q) /\ fds' = Renamed(p, q)
                                  /\ view' = ViewMoved(view, p, q)
       \/ /\ ~IsOpen(p)
          /\ vol' = Delete(vol, e) /\ view' = {w \in view : w.id # e.cat.id}
          /\ UNCHANGED fds
  /\ Breach({})
  /\ UNCHANGED readonly

\* FuseHFS_rename onto a path that libfuse need not hide: a file there is
\* deleted first, whichever file it is
FuseHFS_rename(p, q) ==
  /\ ~readonly /\ p # q /\ ~IsOpen(q)
  /\ At(vol, p) # {}
  /\ \E v \in {IF At(vol, q) = {} THEN vol ELSE Delete(vol, CHOOSE e \in At(vol, q) : TRUE)} :
       IF At(v, p) = {} THEN vol' = v /\ UNCHANGED fds
       ELSE \E e \in At(v, p) : vol' = Bless(Moved(v, e, q), q) /\ fds' = Renamed(p, q)
  /\ view' = ViewMoved({w \in view : Same(w.path, p) \/ ~Same(w.path, q)}, p, q)
  /\ Breach(If("case", Same(p, q)))
  /\ UNCHANGED readonly

\* the Finder information goes to the record, never to an open file
SetFinder(v, e, info) ==
  [v EXCEPT !.rec = (@ \ {e}) \cup {[e EXCEPT !.cat.info = info]}]

FuseHFS_setxattr_finder(p, info) ==
  /\ ~readonly
  /\ \E e \in At(vol, p) :
       /\ vol' = Bless(SetFinder(vol, e, info), p)
       /\ \E w \in {Seen(e.cat.id)} : Sees([w EXCEPT !.info = info])
       /\ Breach(If("info", Opened(vol, e.cat.id) # {}))
  /\ UNCHANGED <<fds, readonly>>

\* the resource fork is read, written and removed on a handle of its own, or
\* on the one that the file is open with, and stays selected there
RsrcOf(v, e) ==
  {SetFork(w, h, "rsrc") : w \in {Open(v, e)}, h \in Opened(Open(v, e), e.cat.id)}

FuseHFS_getxattr_rsrc(p) ==
  /\ \E e \in At(vol, p) :
       /\ e.cat.rsrc.len > 0
       /\ \E v \in RsrcOf(vol, e) : \E h \in Opened(v, e.cat.id) : vol' = Close(v, h)
  /\ Breach({})
  /\ UNCHANGED <<fds, readonly, view>>

\* the result of hfs_write is not looked at
FuseHFS_setxattr_rsrc(p, offset, x) ==
  /\ ~readonly
  /\ \E e \in At(vol, p) : \E v \in RsrcOf(vol, e) : \E h \in Opened(v, e.cat.id) :
     \E bs \in Allocs(v) : \E w \in {Write(v, h, Seek(h, offset), x, bs)} :
       /\ \E g \in Opened(w, e.cat.id) : vol' = Close(w, g)
       /\ \E s \in {Seen(e.cat.id)} : Sees([s EXCEPT !.rsrc = Put(@, offset, x)])
       /\ Breach(If("beyond", offset > Fork(h).len)
                 \cup If("full", bs = << >> /\ Seek(h, offset) = Len(Fork(h).blocks)))
  /\ UNCHANGED <<fds, readonly>>

FuseHFS_removexattr_rsrc(p) ==
  /\ ~readonly
  /\ \E e \in At(vol, p) : \E v \in RsrcOf(vol, e) : \E h \in Opened(v, e.cat.id) :
     \E w \in {Truncate(v, h, 0)} : \E g \in Opened(w, e.cat.id) :
       vol' = Close(w, g)
       /\ \E s \in {Seen(e.cat.id)} : Sees([s EXCEPT !.rsrc = << >>])
  /\ Breach({})
  /\ UNCHANGED <<fds, readonly>>

\* the volume as hfs_mount finds it: new, or with a file whose last trim a
\* crash has lost
Mounted(rec, used) ==
  [rec |-> rec, files |-> {}, used |-> used, freeBks |-> Cardinality(Block \ used),
   disk |-> [b \in Block |-> Hole], next |-> Cardinality(rec) + 1, blessed |-> 0]

Untrimmed(p, b, c) ==
  [at |-> p, cat |-> [NewCat(1) EXCEPT !.data = [len |-> 1, blocks |-> <<b, c>>]]]

Init ==
  /\ \/ vol = Mounted({}, {}) /\ view = {} /\ readonly = FALSE
     \/ \E p \in NewPath, b \in Block : \E c \in Block \ {b} :
          /\ vol = Mounted({Untrimmed(p, b, c)}, {b, c})
          /\ view = {[id |-> 1, path |-> p, data |-> <<Hole>>, rsrc |-> << >>,
                      info |-> "plain"]}
          /\ readonly \in BOOLEAN
  /\ fds = [d \in Fd |-> NoFd]
  /\ breach = {}

OnPath(p) ==
  \/ FuseHFS_unlink(p)
  \/ FuseHFS_getxattr_rsrc(p) \/ FuseHFS_removexattr_rsrc(p)
  \/ \E n \in 0..MaxLen : FuseHFS_truncate(p, n)
  \/ \E q \in NewPath : FuseHFS_rename(p, q)
  \/ \E info \in {"plain", "system"} : FuseHFS_setxattr_finder(p, info)
  \/ \E offset \in 0..(MaxRsrc - 1), x \in Val : FuseHFS_setxattr_rsrc(p, offset, x)

OnFd(d) ==
  \/ \E p \in NewPath : FuseHFS_create(d, p)
  \/ \E p \in UserPath : FuseHFS_open(d, p)
  \/ FuseHFS_read(d) \/ FuseHFS_release(d)
  \/ \E n \in 0..MaxLen : FuseHFS_ftruncate(d, n)
  \/ \E offset \in 0..MaxLen, x \in Val : FuseHFS_write(d, offset, x)

Next ==
  \/ \E p \in NewPath : FuseHFS_mknod(p)
  \/ \E p \in UserPath : OnPath(p)
  \/ \E d \in Fd : OnFd(d)

Spec == Init /\ [][Next]_vars

-----------------------------------------------------------------------------
(***************************************************************************)
(* Properties.                                                             *)
(***************************************************************************)
ForkType == [len : 0..(MaxLen + MaxRsrc), blocks : UNION {[1..n -> Block] : n \in 0..Cardinality(Block)}]
CatType == [id : 1..MaxId, data : ForkType, rsrc : ForkType, info : {"plain", "system"}]

\* Every variable holds what its C counterpart can hold; a fork never claims
\* more data than it has blocks for (f_trunc would fail with EIO).
TypeOK ==
  /\ \A e \in vol.rec : e.at \in Path /\ e.cat \in CatType
  /\ \A h \in vol.files :
       /\ h.at \in Path /\ h.cat \in CatType /\ h.fork \in {"data", "rsrc"}
       /\ h.dirty \in BOOLEAN /\ h.refs \in Nat \ {0}
       /\ h.cat.data.len <= Len(h.cat.data.blocks)
       /\ h.cat.rsrc.len <= Len(h.cat.rsrc.blocks)
  /\ vol.used \subseteq Block /\ vol.freeBks \in Int
  /\ \A d \in Fd : fds[d] = NoFd \/ (fds[d].id \in 1..MaxId /\ fds[d].path \in Path)
  /\ readonly \in BOOLEAN

\* Each descriptor that libfuse holds leads to an open file of libhfs, and a
\* file is closed with its last descriptor and not before, although the
\* extended attributes open and close the same hfsfile in between.
RefsExact ==
  /\ \A d \in Fd : fds[d] # NoFd => Handles(vol, d) # {}
  /\ \A h \in vol.files :
       h.refs = Cardinality({d \in Fd : fds[d] # NoFd /\ fds[d].id = h.cat.id})

\* The table of handles is well formed and counts the descriptors, whichever
\* calls have opened, renamed, deleted and closed the file in between.
HandlesSound == TypeOK /\ RefsExact

\* what a file holds: its open copy decides, if there is one
Live(e) == IF Opened(vol, e.cat.id) = {} THEN e.cat
           ELSE (CHOOSE h \in Opened(vol, e.cat.id) : TRUE).cat

Contents(f) == [i \in 1..f.len |-> vol.disk[f.blocks[i]]]

AsSeen ==
  /\ Cardinality(vol.rec) = Cardinality(view)
  /\ \A w \in view : \E e \in vol.rec :
       /\ e.at = w.path /\ e.cat.id = w.id
       /\ Contents(Live(e).data) = w.data
       /\ Contents(Live(e).rsrc) = w.rsrc
       /\ e.cat.info = w.info
       /\ e.cat.data.len = Len(w.data) \/ \E h \in Opened(vol, w.id) : h.dirty
       /\ e.cat.rsrc.len = Len(w.rsrc) \/ \E h \in Opened(vol, w.id) : h.dirty

\* Files are what their user has made them, by path and by descriptor and in
\* both forks: no write lands in another file, no trim takes what is read
\* later, no shared handle loses an update.  This holds for a user who does
\* none of the things that breach names.
FilesAsSeen == breach = {} => AsSeen

Cats == {Live(e) : e \in vol.rec} \cup {h.cat : h \in vol.files}
Owned(c) == c.data.blocks \o c.rsrc.blocks

\* Every block that the bitmap has in use belongs to one fork, once, and
\* drFreeBks counts the others: f_trunc, hfs_delete and the unlinking of a
\* hidden file free what is theirs, and free it once.
SpaceSound ==
  breach = {} =>
    /\ \A c \in Cats : IsInjective(Owned(c))
    /\ \A c, k \in Cats : c.id # k.id => Range(Owned(c)) \cap Range(Owned(k)) = {}
    /\ vol.used = UNION {Range(Owned(c)) : c \in Cats}
    /\ vol.freeBks = Cardinality(Block \ vol.used)

\* A volume that is mounted for reading does not change: opening, reading and
\* closing neither trim a fork nor store a record.
ReadOnlyKept == [][readonly => UNCHANGED <<vol.rec, vol.used, vol.freeBks, vol.disk>>]_vars

\* CHANGES (1.13b): files may be renamed with a mere change of case.
\* The code does not keep this (README, section 4).
CaseMayChange == breach \subseteq {"case"} => AsSeen

\* libhfs.txt: hfs_close flushes all pending changes to the file, one that has
\* been renamed while it was open as well.  The code does not keep this (README, section 4).
CloseFlushes == breach \subseteq {"moved"} /\ vol.files = {} => AsSeen
=============================================================================
