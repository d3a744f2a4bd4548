---------------------------- MODULE CatalogTree ----------------------------
(***************************************************************************)
(* The records of an HFS catalog and what the calls of libhfs do to them   *)
(* (libhfs/volume.c, hfs.c), as operators without state of their own.      *)
(*                                                                         *)
(* A catalog c has                                                         *)
(*   ent   file and directory records: the key (par, name), the number of  *)
(*         the object, and for a directory its valence;                    *)
(*   thr   thread records, which lead from a number back to a key: every   *)
(*         directory has one, a file may;                                  *)
(*   next, files, dirs, rootFiles, rootDirs: fields of the MDB.            *)
(* Keys compare without regard to case (d_relstring); Fold names the class *)
(* of a name.  A path is a starting directory and a sequence of names and  *)
(* of Up, one for each colon too many; "typed" is what follows its last    *)
(* colon.  The B*-tree holds what it is given (module BTree).              *)
(***************************************************************************)
EXTENDS Integers, FiniteSets, SequencesExt

CONSTANTS
  Name,   \* names of objects
  Fold,   \* the class of names that compare equal
  Vol,    \* the name of the volume
  Up,     \* the step to the parent in a path
  NoName  \* no name

ASSUME NameAssumption ==
  /\ DOMAIN Fold = Name /\ Vol \in Name /\ Up \notin Name /\ NoName \notin Name

RootPar == 1    \* HFS_CNID_ROOTPAR
RootDir == 2    \* HFS_CNID_ROOTDIR
FirstId == 16   \* "first CNID not reserved by Apple"
ValenceMod == 65536   \* dirVal has 16 bits

Same(m, n) == Fold[m] = Fold[n]

File(id, par, name) == [id |-> id, par |-> par, name |-> name, dir |-> FALSE, val |-> 0]
Dir(id, par, name)  == [id |-> id, par |-> par, name |-> name, dir |-> TRUE, val |-> 0]
Thread(e) == [id |-> e.id, par |-> e.par, name |-> e.name, dir |-> e.dir]

NoEnt == [id |-> 0, par |-> 0, name |-> NoName, dir |-> FALSE, val |-> 0]

\* hfs_format: the root directory alone, which drDirCnt does not count
Formatted ==
  [ent |-> {Dir(RootDir, RootPar, Vol)}, thr |-> {Thread(Dir(RootDir, RootPar, Vol))},
   next |-> FirstId, files |-> 0, dirs |-> 0, rootFiles |-> 0, rootDirs |-> 0]

\* v_catsearch, v_getdthread, v_getfthread: at most one record
Found(c, par, name) == {e \in c.ent : e.par = par /\ Same(e.name, name)}
Threads(c, id) == {t \in c.thr : t.id = id}

\* the record that a directory's thread leads to
ByThread(c, id) == UNION {Found(c, t.par, t.name) : t \in Threads(c, id)}

Children(c, id) == {e \in c.ent : e.par = id}
DirIds(c) == {e.id : e \in {x \in c.ent : x.dir}}

-----------------------------------------------------------------------------
(***************************************************************************)
(* v_resolve.  st is one step of its loop: the directory it has come to,   *)
(* and what *parid, fname and *data hold by then.                          *)
(***************************************************************************)
Resolved(how, e, par, name) == [how |-> how, ent |-> e, par |-> par, name |-> name]

\* a path that ends at a directory without naming it
Itself(c, st) ==
  IF ByThread(c, st.at) # {}
  THEN LET e == CHOOSE x \in ByThread(c, st.at) : TRUE
       IN  Resolved("found", e, e.par, e.name)
  ELSE Resolved("absent", NoEnt, st.par, st.name)

At(id, par, name) == [how |-> "at", at |-> id, par |-> par, name |-> name]

\* one more step; "last" if nothing follows
Taken(c, st, s, last) ==
  IF st.how # "at" THEN st
  ELSE IF s = Up THEN
    LET ts == Threads(c, st.at)
    IN  IF ts = {} THEN Resolved("absent", NoEnt, st.par, st.name)
        ELSE At((CHOOSE t \in ts : TRUE).par, st.par, st.name)
  ELSE LET es == Found(c, st.at, s)
           e  == CHOOSE x \in es : TRUE
       IN  IF es = {} THEN Resolved("absent", NoEnt, IF last THEN st.at ELSE 0, s)
           ELSE IF last THEN Resolved("found", e, st.at, e.name)
           ELSE IF e.dir THEN At(e.id, st.at, e.name)
           ELSE Resolved("error", NoEnt, st.at, e.name)

Resolve(c, cwd, path) ==
  LET n == Len(path.steps)
      st[i \in 0..n] == IF i = 0 THEN At(IF path.abs THEN RootPar ELSE cwd, 0, NoName)
                        ELSE Taken(c, st[i - 1], path.steps[i], i = n)
  IN  IF st[n].how = "at" THEN Itself(c, st[n]) ELSE st[n]

\* what follows the last colon
Typed(path) ==
  IF \/ path.steps = << >> \/ Last(path.steps) = Up
     \/ path.abs /\ Len(path.steps) = 1
  THEN NoName ELSE Last(path.steps)

-----------------------------------------------------------------------------
(***************************************************************************)
(* The steps that the changing calls are made of.  A step that is not      *)
(* ready fails; nothing undoes the steps before it.                        *)
(***************************************************************************)
TakeId           == [do |-> "id"]
AddEnt(e)        == [do |-> "insert", ent |-> e]
DropEnt(e)        == [do |-> "remove", ent |-> e]
AddThread(t)  == [do |-> "insertThread", thr |-> t]
DropThread(id) == [do |-> "removeThread", id |-> id]
PutThread(t)     == [do |-> "putThread", thr |-> t]
Count(dir, par, adj) == [do |-> "count", dir |-> dir, par |-> par, adj |-> adj]
Valence(par, adj)    == [do |-> "valence", par |-> par, adj |-> adj]

Ready(c, s) ==
  CASE s.do \in {"id", "count"}  -> TRUE
    [] s.do = "insert"       -> Found(c, s.ent.par, s.ent.name) = {}
    [] s.do = "remove"       -> Found(c, s.ent.par, s.ent.name) # {}
    [] s.do = "insertThread" -> Threads(c, s.thr.id) = {}
    [] s.do = "removeThread" -> Threads(c, s.id) # {}
    [] s.do = "putThread"    -> Threads(c, s.thr.id) # {}
    [] s.do = "valence"      -> \E e \in ByThread(c, s.par) : e.dir

Only(x, yes) == IF yes THEN x ELSE 0

\* the first half of v_adjvalence: fields of the MDB
Counted(c, s) ==
  [c EXCEPT
    !.dirs      = @ + Only(s.adj, s.dir),
    !.files     = @ + Only(s.adj, ~s.dir),
    !.rootDirs  = @ + Only(s.adj, s.dir /\ s.par = RootDir),
    !.rootFiles = @ + Only(s.adj, ~s.dir /\ s.par = RootDir)]

\* the second half: the record of the parent directory
Valenced(c, s) ==
  LET ps == ByThread(c, s.par)
  IN  [c EXCEPT !.ent = (@ \ ps) \cup {[e EXCEPT !.val = (@ + s.adj) % ValenceMod] : e \in ps}]

Apply(c, s) ==
  CASE s.do = "id"           -> [c EXCEPT !.next = @ + 1]
    [] s.do = "insert"       -> [c EXCEPT !.ent = @ \cup {s.ent}]
    [] s.do = "remove"       -> [c EXCEPT !.ent = @ \ Found(c, s.ent.par, s.ent.name)]
    [] s.do = "insertThread" -> [c EXCEPT !.thr = @ \cup {s.thr}]
    [] s.do = "removeThread" -> [c EXCEPT !.thr = @ \ Threads(c, s.id)]
    [] s.do = "putThread"    -> [c EXCEPT !.thr = (@ \ Threads(c, s.thr.id)) \cup {s.thr}]
    [] s.do = "count"        -> Counted(c, s)
    [] s.do = "valence"      -> Valenced(c, s)

\* v_adjvalence
Adjust(dir, par, adj) == <<Count(dir, par, adj)>> \o
  IF par = RootPar THEN << >> ELSE <<Valence(par, adj)>>

\* what the steps make of c, one after the other; empty if one is not ready
After(c, steps) ==
  LET n == Len(steps)
      cs[i \in 0..n] ==
        IF i = 0 THEN {c} ELSE {Apply(k, steps[i]) : k \in {x \in cs[i - 1] : Ready(x, steps[i])}}
  IN  cs[n]

-----------------------------------------------------------------------------
(***************************************************************************)
(* The calls of hfs.c: the steps of each, or none if it is refused.        *)
(***************************************************************************)
Refused == << >>

MayCreate(r) == r.how = "absent" /\ r.par \notin {0, RootPar}

\* broken variant: the number is read but not used up
CreateStepsNoId(c, r) ==
  IF MayCreate(r)
  THEN <<AddEnt(File(c.next, r.par, r.name))>> \o Adjust(FALSE, r.par, 1)
  ELSE Refused

\* hfs_create
CreateSteps(c, r) ==
  IF MayCreate(r)
  THEN <<TakeId, AddEnt(File(c.next, r.par, r.name))>> \o Adjust(FALSE, r.par, 1)
  ELSE Refused

\* broken variant: the thread record is forgotten
MkdirStepsThreadless(c, r) ==
  IF MayCreate(r)
  THEN <<TakeId, AddEnt(Dir(c.next, r.par, r.name))>> \o Adjust(TRUE, r.par, 1)
  ELSE Refused

\* hfs_mkdir, v_mkdir
MkdirSteps(c, r) ==
  IF MayCreate(r)
  THEN LET e == Dir(c.next, r.par, r.name)
       IN  <<TakeId, AddEnt(e), AddThread(Thread(e))>> \o Adjust(TRUE, r.par, 1)
  ELSE Refused

\* hfs_rmdir
RmdirSteps(r) ==
  IF r.how = "found" /\ r.ent.dir /\ r.ent.val = 0 /\ r.par # RootPar
  THEN <<DropEnt(r.ent), DropThread(r.ent.id)>> \o Adjust(TRUE, r.par, -1)
  ELSE Refused

\* hfs_delete; what it does to the blocks is in FileExtents and FuseFiles
DeleteSteps(c, r) ==
  IF r.how = "found" /\ ~r.ent.dir /\ r.par # RootPar
  THEN <<DropEnt(r.ent)>> \o Adjust(FALSE, r.par, -1)
       \o IF Threads(c, r.ent.id) = {} THEN << >> ELSE <<DropThread(r.ent.id)>>
  ELSE Refused

\* where hfs_rename is to put the source: into the destination if that is
\* another directory
Target(c, src, dst) ==
  IF dst.how = "found" /\ dst.ent.dir /\ dst.ent.id # src.ent.id
  THEN [par |-> dst.ent.id, name |-> src.name,
        taken |-> Found(c, dst.ent.id, src.name) # {}]
  ELSE [par |-> dst.par, name |-> dst.name, taken |-> dst.how = "found"]

\* the directories that the threads lead through, from id up to the root
Above(c, id) ==
  LET Up1(s) == {t.par : t \in {x \in c.thr : x.id \in s \ {RootDir}}}
      up[i \in 0..Cardinality(c.thr)] ==
        IF i = 0 THEN {id} ELSE up[i - 1] \cup Up1(up[i - 1])
  IN  up[Cardinality(c.thr)]

\* broken variant: only the destination itself is looked at
MayMoveShallow(c, src, par) ==
  /\ par # RootPar
  /\ src.ent.dir => src.ent.id # RootDir /\ src.ent.id # par

\* no move above the root, none of the root, none of a directory into itself
MayMove(c, src, par) ==
  /\ par # RootPar
  /\ src.ent.dir => /\ src.ent.id # RootDir
                    /\ src.ent.id \notin Above(c, par)
                    /\ RootDir \in Above(c, par)

\* broken variant: the valences stay as they are
MovedSameCount(c, src, e) ==
  <<DropEnt(src.ent), AddEnt(e)>> \o IF e.dir THEN <<PutThread(Thread(e))>> ELSE << >>

\* the steps that make the source the record e
Moved(c, src, e) ==
  <<DropEnt(src.ent), AddEnt(e)>>
  \o (IF e.dir \/ Threads(c, e.id) # {} THEN <<PutThread(Thread(e))>> ELSE << >>)
  \o (IF e.par = src.par THEN << >>
      ELSE Adjust(e.dir, src.par, -1) \o Adjust(e.dir, e.par, 1))

\* hfs_rename
RenameSteps(c, src, dst, typed) ==
  LET at     == Target(c, src, dst)
      name   == IF at.taken /\ typed # NoName THEN typed ELSE at.name
      moving == src.par # at.par
  IN  IF \/ src.how # "found" \/ dst.how = "error" \/ dst.par = 0
         \/ at.taken /\ ~moving /\ src.name = name
         \/ at.taken /\ (moving \/ ~Same(src.name, name))
         \/ moving /\ ~MayMove(c, src, at.par)
      THEN Refused
      ELSE Moved(c, src, [src.ent EXCEPT !.par = at.par, !.name = name])
=============================================================================
