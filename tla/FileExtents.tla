---------------------------- MODULE FileExtents ----------------------------
(***************************************************************************)
(* The extents of one file (libhfs/file.c): which allocation blocks its    *)
(* two forks consist of.                                                   *)
(*                                                                         *)
(* A fork's first extent record is part of the file's catalog record; the  *)
(* others are records of the extents overflow file, found by the number of *)
(* the first block they describe.  An open file keeps a copy of its        *)
(* catalog record ("rec") and of one extent record of the selected fork    *)
(* ("ext", the one that begins at block "fabn"), the last it worked with.  *)
(* Overflow records are changed at once, the catalog record is stored by   *)
(* f_flush.                                                                *)
(*                                                                         *)
(* A logical block is as long as an allocation block (lpa = 1), so lengths *)
(* count blocks.  The overflow file is a map; its B-tree is another part   *)
(* of the library.                                                         *)
(***************************************************************************)
EXTENDS Integers, SequencesExt

CONSTANTS
  NBlocks,   \* drNmAlBlks
  Width,     \* extent descriptors in a record; 3 in HFS
  Clump,     \* longest run that f_alloc requests
  Faults,    \* scenario: what may fail
  MaxWrite,  \* bound: blocks written by one hfs_write
  MaxOthers  \* bound: blocks of other files

ASSUME ExtentsAssumption ==
  /\ NBlocks \in Nat \ {0} /\ Width \in Nat \ {0} /\ Clump \in Nat \ {0}
  /\ Faults \subseteq {"search", "insert", "put", "flush"} /\ MaxWrite \in Nat \ {0}
  /\ MaxOthers \in Nat

Fork == {"data", "rsrc"}
ABN  == 0..NBlocks - 1

VARIABLES
  pc,      \* "absent", "closed", "idle" (open), "writing" (in hfs_write's loop)
  h,       \* the open file: fork, ext, fabn, rec, update flag
  stored,  \* the catalog record on the volume
  tree,    \* the file's records in the overflow file, by fork and first block
  vbm,     \* volume bitmap
  free,    \* drFreeBks
  others,  \* blocks of other files
  todo,    \* position and blocks left of the running hfs_write
  reply    \* the block that the last access went to

vars == <<pc, h, stored, tree, vbm, free, others, todo, reply>>

NoExtent == [at |-> 0, len |-> 0]
Empty    == [i \in 1..Width |-> NoExtent]
NewForks == [k \in Fork |-> [ext |-> Empty, py |-> 0, lg |-> 0]]
NoFile   == [fork |-> "data", ext |-> Empty, fabn |-> 0, rec |-> NewForks, upd |-> FALSE]
NoBlock  == -1
Quiet    == [fork |-> "none", num |-> 0, abn |-> NoBlock]
NoTodo   == [pos |-> 0, count |-> 0]

Extent == [at : ABN, len : 0..NBlocks]
Forks  == [Fork -> [ext : [1..Width -> Extent], py : 0..NBlocks, lg : 0..NBlocks]]

\* every way a call may meet failures: how many of its searches of the
\* overflow file succeed, and which changes of the B-trees do
AllWell == [searches |-> NBlocks + 2, insert |-> TRUE, put |-> TRUE, flush |-> TRUE]

Luck ==
  {AllWell}
    \cup {[AllWell EXCEPT !.searches = n] : n \in IF "search" \in Faults THEN 0..1 ELSE {}}
    \cup IF "insert" \in Faults THEN {[AllWell EXCEPT !.insert = FALSE]} ELSE {}
    \cup IF "put" \in Faults THEN {[AllWell EXCEPT !.put = FALSE]} ELSE {}
    \cup IF "flush" \in Faults THEN {[AllWell EXCEPT !.flush = FALSE]} ELSE {}

Init ==
  /\ pc = "absent" /\ h = NoFile /\ stored = NewForks
  /\ tree = [k \in Fork |-> << >>]
  /\ vbm = {} /\ free = NBlocks /\ others = {}
  /\ todo = NoTodo /\ reply = Quiet

-----------------------------------------------------------------------------
(***************************************************************************)
(* Extent records.                                                         *)
(***************************************************************************)
\* the number of blocks before and after each descriptor of a record that
\* begins at block "start"
Ends(ext, start) ==
  LET end[i \in 0..Width] == IF i = 0 THEN start ELSE end[i - 1] + ext[i].len
  IN  end

\* the first descriptor that reaches block "end", or is empty; 0 if there is none
Stop(ext, start, end) ==
  LET s == {i \in 1..Width : Ends(ext, start)[i] >= end \/ ext[i].len = 0}
  IN  IF s = {} THEN 0 ELSE Min(s)

Run(x) == x.at..x.at + x.len - 1

\* the blocks that an extent record describes, in order
Blocks(ext) ==
  LET upto[i \in 0..Width] ==
        IF i = 0 THEN << >>
        ELSE upto[i - 1] \o [j \in 1..ext[i].len |-> ext[i].at + j - 1]
  IN  upto[Width]

\* v_extsearch: the overflow record that begins at block n, if it can be read
Finds(t, n, searches) == n \in DOMAIN t /\ searches > 0

\* The loop with which f_addextent and f_trunc look for the descriptor that
\* ends at (for f_trunc: at or past) block "end", from the record at hand on.
\* "i" is 0 when the loop is not entered.
LocateIn(p, t, end, i, s) ==
  IF ~p.more THEN p
  ELSE IF i # 0
       THEN [p EXCEPT !.i = i, !.start = s[i], !.more = FALSE, !.ok = s[i] >= end]
  ELSE IF Finds(t, s[Width], p.left)
       THEN [p EXCEPT !.ext = t[s[Width]], !.fabn = s[Width], !.start = s[Width],
                      !.searched = TRUE, !.left = @ - 1]
  ELSE [p EXCEPT !.ok = FALSE, !.more = FALSE]

Locate(f, t, end, luck) ==
  LET at[n \in 0..NBlocks + 1] ==
        IF n = 0
        THEN [ext |-> f.ext, fabn |-> f.fabn, start |-> f.fabn, i |-> 0, ok |-> TRUE,
              searched |-> FALSE, left |-> luck.searches, more |-> f.fabn < end]
        ELSE LET p == at[n - 1]
             IN  LocateIn(p, t, end, Stop(p.ext, p.start, end), Ends(p.ext, p.start))
  IN  at[NBlocks + 1]

\* v_putextrec, or the insertion of a record: x begins at block n
PutRecord(t, n, x) == [m \in DOMAIN t \cup {n} |-> IF m = n THEN x ELSE t[m]]

-----------------------------------------------------------------------------
(***************************************************************************)
(* f_doblock: the block that block "num" of the selected fork is in, and   *)
(* the record it was found in.                                             *)
(***************************************************************************)
\* broken variant: f_doblock only ever goes forward
NeverRewinds(f, num) == FALSE

\* f_doblock goes back to the first record for a block before the one at hand
Rewinds(f, num) == num < f.fabn

DoBlock(f, t, num, luck) ==
  LET first == Rewinds(f, num)
      at[n \in 0..NBlocks + 1] ==
        IF n = 0
        THEN [ext |-> IF first THEN f.rec[f.fork].ext ELSE f.ext,
              fabn |-> IF first THEN 0 ELSE f.fabn,
              left |-> luck.searches, more |-> TRUE, abn |-> NoBlock]
        ELSE LET p == at[n - 1]
                 s == Ends(p.ext, p.fabn)
                 hit == {i \in 1..Width : num < s[i]}
             IN  IF ~p.more THEN p
                 ELSE IF hit # {}
                      THEN [p EXCEPT !.more = FALSE,
                                     !.abn = p.ext[Min(hit)].at + num - s[Min(hit) - 1]]
                 ELSE IF Finds(t, s[Width], p.left)
                      THEN [p EXCEPT !.ext = t[s[Width]], !.fabn = s[Width],
                                     !.left = @ - 1]
                 ELSE [p EXCEPT !.more = FALSE]
      p == at[NBlocks + 1]
  IN  [f |-> [f EXCEPT !.ext = p.ext, !.fabn = p.fabn], abn |-> p.abn]

(***************************************************************************)
(* f_addextent: the run joins the last extent, or becomes a new one, in    *)
(* the last record or in a new one.  The copy at hand is changed first; it *)
(* stays changed when the record cannot be stored.                         *)
(***************************************************************************)
\* broken variant: the run need only lie behind the extent
JoinsBehind(x, run) == x.at + x.len <= run.at

Joins(x, run) == x.at + x.len = run.at

Extended(f, t, run, luck, p) ==
  LET fork  == f.rec[f.fork]
      joins == p.i # 0 /\ Joins(p.ext[p.i], run)
      fits  == joins \/ p.i < Width
      ext   == IF joins THEN [p.ext EXCEPT ![p.i].len = @ + run.len]
               ELSE IF fits THEN [p.ext EXCEPT ![p.i + 1] = run]
               ELSE [Empty EXCEPT ![1] = run]
      fabn  == IF fits THEN p.fabn ELSE p.start
      ok    == IF ~fits THEN luck.insert
               ELSE fabn = 0 \/ (luck.put /\ (p.searched \/ Finds(t, fabn, p.left)))
      found == p.ok /\ p.start = fork.py
      g     == [f EXCEPT !.ext = IF found THEN ext ELSE p.ext,
                         !.fabn = IF found THEN fabn ELSE p.fabn]
  IN  IF ~(found /\ ok) THEN [ok |-> FALSE, f |-> g, t |-> t]
      ELSE [ok |-> TRUE,
            f  |-> [g EXCEPT !.rec[f.fork].ext = IF fabn = 0 THEN ext ELSE @,
                             !.rec[f.fork].py  = @ + run.len,
                             !.upd = TRUE],
            t  |-> IF fabn = 0 THEN t ELSE PutRecord(t, fabn, ext)]

AddExtent(f, t, run, luck) ==
  Extended(f, t, run, luck, Locate(f, t, f.rec[f.fork].py, luck))

-----------------------------------------------------------------------------
(***************************************************************************)
(* f_trunc: the blocks past the logical end are given back, descriptor by  *)
(* descriptor and record by record; a record that becomes empty is deleted.*)
(* dlen is unsigned: Wrap stands for 2^32.                                 *)
(***************************************************************************)
Wrap == 65536

\* v_freeblocks
FreeExtent(v, x) == [vbm |-> v.vbm \ Run(x), free |-> v.free + x.len]

\* release the descriptors after the i-th of a record while dlen is not 0
Release(p) ==
  LET at[j \in 0..Width] ==
        IF j = 0 THEN p
        ELSE LET q == at[j - 1]
                 x == p.ext[j]
             IN  IF j <= p.i \/ q.dlen = 0 \/ ~q.ok THEN q
                 ELSE IF x.len = 0 \/ x.len > q.dlen
                      THEN [q EXCEPT !.ok = FALSE, !.start = @ + x.len]
                 ELSE [q EXCEPT !.dlen = @ - x.len, !.start = @ + x.len,
                                !.ext[j] = NoExtent, !.vol = FreeExtent(@, x)]
  IN  at[Width]

KeepsRecord(ext) == ext[1].len # 0

\* store or delete the record at hand
Store(p, luck) ==
  LET here == p.searched \/ Finds(p.t, p.fabn, p.left)
  IN  IF ~p.ok THEN p
      ELSE IF p.fabn = 0 THEN [p EXCEPT !.first = p.ext]
      ELSE IF ~here \/ ~luck.put THEN [p EXCEPT !.ok = FALSE]
      ELSE IF KeepsRecord(p.ext)
           THEN [p EXCEPT !.t = PutRecord(@, p.fabn, p.ext), !.searched = TRUE]
      ELSE [p EXCEPT !.t = [n \in DOMAIN @ \ {p.fabn} |-> @[n]], !.searched = FALSE]

\* blocks that the fork keeps
Kept(fork) == fork.lg

\* the record at hand, as the loop found it, cut at the logical end
Cut(p, fork, t, v) ==
  LET over == p.start - Kept(fork)
      x    == p.ext[p.i]
      cut  == [at |-> x.at + x.len - over, len |-> over]
  IN  [ok |-> TRUE, fabn |-> p.fabn, start |-> p.start, i |-> p.i,
       searched |-> p.searched, left |-> p.left, first |-> fork.ext, t |-> t,
       ext  |-> IF over > 0 THEN [p.ext EXCEPT ![p.i].len = @ - over] ELSE p.ext,
       dlen |-> (fork.py - Kept(fork) - over) % Wrap,
       vol  |-> IF over > 0 THEN FreeExtent(v, cut) ELSE v]

\* the record after the one that was released and stored
NextRecord(s) ==
  IF s.dlen = 0 \/ ~s.ok THEN s
  ELSE IF Finds(s.t, s.start, s.left)
       THEN [s EXCEPT !.ext = s.t[s.start], !.fabn = s.start, !.searched = TRUE,
                      !.left = @ - 1, !.i = 0]
  ELSE [s EXCEPT !.ok = FALSE]

ReleaseRecords(begun, luck) ==
  LET round[n \in 0..NBlocks + 2] ==
        IF n = 0 THEN begun
        ELSE IF n > 1 /\ (round[n - 1].dlen = 0 \/ ~round[n - 1].ok) THEN round[n - 1]
        ELSE NextRecord(Store(Release(round[n - 1]), luck))
  IN  round[NBlocks + 2]

Truncated(f, z) ==
  [ok |-> z.ok,
   f  |-> [f EXCEPT !.ext = z.ext, !.fabn = z.fabn, !.upd = TRUE,
                    !.rec[f.fork].ext = z.first, !.rec[f.fork].py = Kept(f.rec[f.fork])],
   t  |-> z.t, vol |-> z.vol]

TruncAt(f, t, v, p, luck) ==
  IF p.ok THEN Truncated(f, ReleaseRecords(Cut(p, f.rec[f.fork], t, v), luck))
  ELSE [ok |-> FALSE, f |-> [f EXCEPT !.ext = p.ext, !.fabn = p.fabn],
        t |-> t, vol |-> v]

Trunc(f, t, v, luck) ==
  LET fork == f.rec[f.fork]
      end  == Kept(fork)
      g    == IF f.fabn >= end THEN [f EXCEPT !.fabn = 0, !.ext = fork.ext] ELSE f
  IN  IF end >= fork.py THEN [ok |-> end = fork.py, f |-> f, t |-> t, vol |-> v]
      ELSE TruncAt(g, t, v, Locate(g, t, end, luck), luck)

Vol == [vbm |-> vbm, free |-> free]

\* f_selectfork
SelectFork(f, k) == [f EXCEPT !.fork = k, !.ext = f.rec[k].ext, !.fabn = 0]

\* f_flush
Flushed(f, luck) == IF f.upd /\ luck.flush THEN f.rec ELSE stored

Flush(f, luck) ==
  /\ h' = IF luck.flush THEN [f EXCEPT !.upd = FALSE] ELSE f
  /\ stored' = Flushed(f, luck)

-----------------------------------------------------------------------------
(***************************************************************************)
(* The calls.                                                              *)
(***************************************************************************)
\* hfs_create; its handle is open
Create ==
  /\ pc = "absent" /\ pc' = "idle"
  /\ h' = NoFile /\ stored' = NewForks /\ reply' = Quiet
  /\ UNCHANGED <<tree, vbm, free, others, todo>>

\* hfs_open
Open ==
  /\ pc = "closed" /\ pc' = "idle"
  /\ h' = SelectFork([NoFile EXCEPT !.rec = stored], "data") /\ reply' = Quiet
  /\ UNCHANGED <<stored, tree, vbm, free, others, todo>>

Access(num, d) ==
  reply' = IF d.abn = NoBlock THEN Quiet
           ELSE [fork |-> h.fork, num |-> num, abn |-> d.abn]

\* hfs_read of one block
Read(num, luck) ==
  /\ pc = "idle" /\ num < h.rec[h.fork].lg
  /\ \E d \in {DoBlock(h, tree[h.fork], num, luck)} : h' = d.f /\ Access(num, d)
  /\ UNCHANGED <<pc, stored, tree, vbm, free, others, todo>>

\* hfs_write of "count" blocks; hfs_seek keeps the position within the file
Write(pos, count) ==
  /\ pc = "idle" /\ pos <= h.rec[h.fork].lg
  /\ pc' = "writing" /\ todo' = [pos |-> pos, count |-> count]
  /\ h' = [h EXCEPT !.upd = TRUE] /\ reply' = Quiet
  /\ UNCHANGED <<stored, tree, vbm, free, others>>

\* a block that was allocated already, or has just been, is written; the last
\* one is followed by f_flush
PutBlock(f, t, luck) ==
  \E d \in {DoBlock(f, t, todo.pos, luck)} :
    LET g    == [d.f EXCEPT !.rec[f.fork].lg = IF todo.pos < @ THEN @ ELSE todo.pos + 1]
        last == todo.count = 1
    IN  /\ Access(todo.pos, d)
        /\ IF d.abn = NoBlock \/ last
           THEN pc' = "idle" /\ todo' = NoTodo
           ELSE pc' = pc /\ todo' = [pos |-> todo.pos + 1, count |-> todo.count - 1]
        /\ IF d.abn = NoBlock THEN h' = d.f /\ UNCHANGED stored
           ELSE IF last THEN Flush(g, luck)
           ELSE h' = g /\ UNCHANGED stored

WriteInside(luck) ==
  /\ pc = "writing" /\ todo.pos < h.rec[h.fork].py
  /\ PutBlock(h, tree[h.fork], luck)
  /\ UNCHANGED <<tree, vbm, free, others>>

GiveUp == pc' = "idle" /\ todo' = NoTodo /\ reply' = Quiet /\ UNCHANGED stored

\* what v_allocblocks may return
Runs == {r \in [at : ABN, len : 1..Clump] : r.at + r.len <= NBlocks}

\* broken variant: a run that could not be added stays allocated
NotUndone(run) == [vbm |-> vbm \cup Run(run), free |-> free - run.len]

\* f_alloc frees the run again that could not be added
Undone(run) == Vol

\* f_alloc: the run that v_allocblocks found is added
WriteBeyond(run, luck) ==
  /\ pc = "writing" /\ todo.pos >= h.rec[h.fork].py
  /\ Run(run) \cap vbm = {}
  /\ \E a \in {AddExtent(h, tree[h.fork], run, luck)} :
       IF a.ok
       THEN /\ tree' = [tree EXCEPT ![h.fork] = a.t]
            /\ vbm' = vbm \cup Run(run) /\ free' = free - run.len
            /\ PutBlock(a.f, a.t, luck)
       ELSE /\ h' = a.f /\ GiveUp
            /\ vbm' = Undone(run).vbm /\ free' = Undone(run).free
            /\ UNCHANGED tree
  /\ UNCHANGED others

\* bt_space or v_allocblocks finds no room
WriteNoSpace ==
  /\ pc = "writing" /\ todo.pos >= h.rec[h.fork].py /\ (free = 0 \/ "insert" \in Faults)
  /\ GiveUp
  /\ UNCHANGED <<h, tree, vbm, free, others>>

\* hfs_truncate
Truncate(len, luck) ==
  LET shorter == len < h.rec[h.fork].lg
  IN  /\ pc = "idle" /\ len <= h.rec[h.fork].lg
      /\ Flush(IF shorter THEN [h EXCEPT !.rec[h.fork].lg = len, !.upd = TRUE] ELSE h,
               luck)
      /\ reply' = Quiet
      /\ UNCHANGED <<pc, tree, vbm, free, others, todo>>

\* hfs_setfork
SetFork(k, luck) ==
  /\ pc = "idle"
  /\ \E c \in {Trunc(h, tree[h.fork], Vol, luck)} :
       /\ h' = SelectFork(c.f, k) /\ tree' = [tree EXCEPT ![h.fork] = c.t]
       /\ vbm' = c.vol.vbm /\ free' = c.vol.free
  /\ reply' = Quiet
  /\ UNCHANGED <<pc, stored, others, todo>>

\* hfs_close: what f_trunc could not finish is not flushed
Close(luck) ==
  /\ pc = "idle" /\ pc' = "closed"
  /\ \E c \in {Trunc(h, tree[h.fork], Vol, luck)} :
       /\ tree' = [tree EXCEPT ![h.fork] = c.t]
       /\ stored' = IF c.ok THEN Flushed(c.f, luck) ELSE stored
       /\ vbm' = c.vol.vbm /\ free' = c.vol.free
  /\ h' = NoFile /\ reply' = Quiet
  /\ UNCHANGED <<others, todo>>

\* hfs_delete: both forks are truncated to nothing, the record is deleted
Delete(luck) ==
  LET none == [k \in Fork |-> [stored[k] EXCEPT !.lg = 0]]
      f    == SelectFork([NoFile EXCEPT !.rec = none], "data")
  IN  /\ pc = "closed"
      /\ \E c \in {Trunc(f, tree["data"], Vol, luck)} :
         \E d \in {IF c.ok THEN Trunc(SelectFork(c.f, "rsrc"), tree["rsrc"], c.vol, luck)
                    ELSE [c EXCEPT !.t = tree["rsrc"]]} :
           /\ pc' = IF d.ok THEN "absent" ELSE pc
           /\ stored' = IF d.ok THEN NewForks ELSE stored
           /\ tree' = [data |-> c.t, rsrc |-> d.t]
           /\ vbm' = d.vol.vbm /\ free' = d.vol.free
      /\ reply' = Quiet
      /\ UNCHANGED <<h, others, todo>>

\* other files take and give back blocks, between two calls
OthersTake(b) ==
  /\ pc # "writing" /\ b \notin vbm /\ Cardinality(others) < MaxOthers
  /\ vbm' = vbm \cup {b} /\ free' = free - 1 /\ others' = others \cup {b}
  /\ reply' = Quiet
  /\ UNCHANGED <<pc, h, stored, tree, todo>>

OthersGive(b) ==
  /\ pc # "writing" /\ b \in others
  /\ vbm' = vbm \ {b} /\ free' = free + 1 /\ others' = others \ {b}
  /\ reply' = Quiet
  /\ UNCHANGED <<pc, h, stored, tree, todo>>

Next ==
  \/ Create \/ Open \/ WriteNoSpace
  \/ \E luck \in Luck :
       \/ \E num \in 0..h.rec[h.fork].lg - 1 : Read(num, luck)
       \/ \E len \in 0..h.rec[h.fork].lg : Truncate(len, luck)
       \/ \E k \in Fork : SetFork(k, luck)
       \/ WriteInside(luck) \/ Close(luck) \/ Delete(luck)
       \/ \E run \in Runs : WriteBeyond(run, luck)
  \/ \E pos \in 0..h.rec[h.fork].lg, count \in 1..MaxWrite : Write(pos, count)
  \/ \E b \in ABN : OthersTake(b) \/ OthersGive(b)

Spec == Init /\ [][Next]_vars

-----------------------------------------------------------------------------
TypeOK ==
  /\ pc \in {"absent", "closed", "idle", "writing"}
  /\ h \in [fork : Fork, ext : [1..Width -> Extent], fabn : 0..NBlocks,
            rec : Forks, upd : BOOLEAN]
  /\ stored \in Forks
  /\ \A k \in Fork : /\ DOMAIN tree[k] \subseteq 1..NBlocks
                     /\ \A n \in DOMAIN tree[k] : tree[k][n] \in [1..Width -> Extent]
  /\ vbm \subseteq ABN /\ free \in 0..NBlocks /\ others \subseteq vbm
  /\ todo \in [pos : 0..NBlocks, count : 0..MaxWrite]

\* the catalog record that counts: the open file's, else the stored one
Current == IF pc \in {"idle", "writing"} THEN h.rec ELSE stored

\* a fork's blocks as its records give them
Chain(k) ==
  LET at[n \in 0..NBlocks] ==
        IF n = 0 THEN Blocks(Current[k].ext)
        ELSE LET s == at[n - 1]
             IN  IF Len(s) \in DOMAIN tree[k] THEN s \o Blocks(tree[k][Len(s)]) ELSE s
  IN  at[NBlocks]

\* The records of a fork describe as many blocks as its physical length says,
\* all of them different, and there is no overflow record that is not reached
\* from the one before it (file.c:227 "file extents exceed file physical
\* length", file.c:233 "empty file extent" are never seen).
RecordsSound ==
  \A k \in Fork :
    LET c == Chain(k)
    IN  /\ Len(c) = Current[k].py /\ Current[k].lg <= Current[k].py
        /\ IsInjective(c)
        /\ \A n \in DOMAIN tree[k] :
             LET b == Blocks(tree[k][n])
             IN  tree[k][n][1].len > 0 /\ SubSeq(c, n + 1, n + Len(b)) = b

\* The volume's bitmap marks the blocks of this file and the other files, no
\* block is in two of them, and the free count agrees.
SpaceAccounted ==
  LET data == ToSet(Chain("data"))
      rsrc == ToSet(Chain("rsrc"))
  IN  /\ vbm = others \cup data \cup rsrc
      /\ data \cap rsrc = {} /\ others \cap (data \cup rsrc) = {}
      /\ free = NBlocks - Cardinality(vbm)

\* The records of both forks, the bitmap and the free count fit each other,
\* whichever extension, truncation or change of forks came last.
ExtentsSound == TypeOK /\ RecordsSound /\ SpaceAccounted

\* Wherever the handle's copy of an extent record stands, f_doblock finds every
\* block of the fork, and it is the right one.
EveryBlockFound ==
  pc \in {"idle", "writing"} =>
    LET c == Chain(h.fork)
    IN  \A n \in DOMAIN c : DoBlock(h, tree[h.fork], n - 1, AllWell).abn = c[n]

\* Wherever it stands, the fork can be extended by any free run, unless an
\* insertion has failed and "fabn" names a record that does not exist.
CanBeExtended ==
  pc = "writing" /\ h.fabn \in {0} \cup DOMAIN tree[h.fork] =>
    \A run \in Runs : Run(run) \cap vbm = {} => AddExtent(h, tree[h.fork], run, AllWell).ok

\* The handle can go on from wherever the last call has left it.
HandleUsable == EveryBlockFound /\ CanBeExtended

\* The file implements two plain sequences of blocks, however often the
\* handle's copy of an extent record has moved.
Map == INSTANCE ForkMap WITH
  blocks <- [k \in Fork |-> Chain(k)],
  size   <- [k \in Fork |-> Current[k].lg],
  used   <- vbm,
  NoBlock <- NoBlock

ImplementsMap == Map!Spec

\* f_trunc only ever gives back blocks of this file beyond its logical end
\* (file.c:347 "release allocation blocks unneeded by a file").  The code
\* does not keep this when storing a record fails (README, section 4).
OnlyUnneeded ==
  [][others' \subseteq vbm']_vars
=============================================================================
