------------------------------ MODULE Catalog ------------------------------
(***************************************************************************)
(* The catalog of a mounted volume under the calls of libhfs that read and *)
(* change directories (hfs.c), made by one client.                         *)
(*                                                                         *)
(* A changing call is begun with its checks, which may refuse it; then its *)
(* steps follow, one insertion, deletion or update of a record each.  Any  *)
(* of them may fail: a transfer fails, or there is no room in the tree.    *)
(* libhfs then returns at once and takes nothing back.                     *)
(***************************************************************************)
EXTENDS CatalogTree

CONSTANTS
  Paths,       \* paths that the client uses
  OldVolumes,  \* volumes that may be mounted at first
  MaxId,       \* bound: drNxtCNID
  MaxHarm      \* bound: calls that end half way (FewHarms)

Ent == [id : Nat, par : Nat, name : Name, dir : BOOLEAN, val : 0..(ValenceMod - 1)]
Thr == [id : Nat, par : Nat, name : Name, dir : BOOLEAN]

Volume == [ent : SUBSET Ent, thr : SUBSET Thr, next : Nat,
           files : Int, dirs : Int, rootFiles : Int, rootDirs : Int]

-----------------------------------------------------------------------------
(***************************************************************************)
(* What makes a catalog v a sound one.                                     *)
(***************************************************************************)
\* no number that could still be given out, none twice, and no key twice
Unique(v) ==
  /\ \A e \in v.ent : e.id < v.next
  /\ \A e, f \in v.ent :
       e.id = f.id \/ (e.par = f.par /\ Fold[e.name] = Fold[f.name]) => e = f

\* threads say where the directories are, and where a file that has one is
ThreadsAgree(v) ==
  /\ {t \in v.thr : t.dir} = {Thread(e) : e \in {x \in v.ent : x.dir}}
  /\ \A t \in v.thr : t \in {Thread(e) : e \in v.ent}

\* valences and the fields of the MDB; drDirCnt leaves the root out
CountsAgree(v) ==
  /\ \A e \in v.ent :
       e.dir => e.val = Cardinality(Children(v, e.id)) % ValenceMod
  /\ v.dirs = Cardinality({e \in v.ent : e.dir}) - 1
  /\ v.files = Cardinality({e \in v.ent : ~e.dir})
  /\ v.rootDirs = Cardinality({e \in Children(v, RootDir) : e.dir})
  /\ v.rootFiles = Cardinality({e \in Children(v, RootDir) : ~e.dir})

\* all but the root lie in a directory
Rooted(v) ==
  /\ RootDir \in DirIds(v)
  /\ \A e \in v.ent :
       /\ e.id >= RootDir
       /\ IF e.id = RootDir THEN e.par = RootPar ELSE e.par \in DirIds(v)

Intact(v) ==
  /\ v \in Volume /\ IsFiniteSet(v.ent)
  /\ Unique(v) /\ ThreadsAgree(v) /\ CountsAgree(v) /\ Rooted(v)

ASSUME CatalogAssumption ==
  /\ MaxId \in Nat /\ MaxHarm \in Nat
  /\ \A p \in Paths : p.abs \in BOOLEAN /\ p.steps \in Seq(Name \cup {Up})
  /\ \A v \in OldVolumes : Intact(v)

-----------------------------------------------------------------------------
VARIABLES
  c,      \* the catalog
  cwd,    \* vol->cwd
  todo,   \* steps that the running call has still to take
  harm,   \* history: calls that have ended half way
  astray  \* history: the last call was led astray by its path

vars == <<c, cwd, todo, harm, astray>>

Init ==
  /\ c \in OldVolumes
  /\ cwd = RootDir /\ todo = << >> /\ harm = 0 /\ astray = FALSE

\* A path that leaves the tree above the root after it has named something is
\* "absent" under the parent and the name that v_resolve met last, and these
\* are there.
Stray(r) == r.how = "absent" /\ r.par # 0 /\ Found(c, r.par, r.name) # {}

Begin(steps, r) ==
  /\ todo = << >> /\ steps # Refused
  /\ todo' = steps /\ astray' = Stray(r)
  /\ UNCHANGED <<c, cwd, harm>>

Look(path) == Resolve(c, cwd, path)

\* calls on what a path leads to; "typed" follows the last colon of dst
Create(r) == c.next < MaxId /\ Begin(CreateSteps(c, r), r)
Mkdir(r)  == c.next < MaxId /\ Begin(MkdirSteps(c, r), r)
Rmdir(r)  == Begin(RmdirSteps(r), r)
Delete(r) == Begin(DeleteSteps(c, r), r)
Rename(src, dst, typed) == Begin(RenameSteps(c, src, dst, typed), dst)

Chdir(r) ==
  /\ todo = << >>
  /\ r.how = "found" /\ r.ent.dir
  /\ cwd' = r.ent.id
  /\ UNCHANGED <<c, todo, harm, astray>>

\* the running call fails and returns
Fail ==
  /\ todo' = << >> /\ harm' = harm + 1
  /\ UNCHANGED c

\* one step of the running call; a step that is not ready fails
Step ==
  /\ todo # << >>
  /\ IF Ready(c, Head(todo))
     THEN c' = Apply(c, Head(todo)) /\ todo' = Tail(todo) /\ UNCHANGED harm
     ELSE Fail
  /\ UNCHANGED <<cwd, astray>>

\* a step fails for a reason outside the catalog
Fault == todo # << >> /\ Fail /\ UNCHANGED <<cwd, astray>>

\* hfs_setcwd: any number that has a thread record of a directory
SetCwd(id) ==
  /\ todo = << >>
  /\ \E t \in Threads(c, id) : t.dir
  /\ cwd' = id
  /\ UNCHANGED <<c, todo, harm, astray>>

Call(r) == Create(r) \/ Mkdir(r) \/ Rmdir(r) \/ Delete(r) \/ Chdir(r)

\* the calls are made one after the other
NewCall ==
  /\ todo = << >>
  /\ \/ \E p \in Paths : \E r \in {Look(p)} : Call(r)
     \/ \E p \in Paths : \E src \in {Look(p)} :
          /\ src.how = "found"
          /\ \E q \in Paths : Rename(src, Look(q), Typed(q))
     \/ \E id \in RootDir..MaxId : SetCwd(id)

Next == NewCall \/ Step \/ Fault

Spec == Init /\ [][Next]_vars

-----------------------------------------------------------------------------
\* bound (a state constraint): after so many failures nothing is explored
FewHarms == harm <= MaxHarm

-----------------------------------------------------------------------------
(***************************************************************************)
(* Properties.                                                             *)
(***************************************************************************)
\* Every variable holds what its C counterpart can hold.
TypeOK ==
  /\ c \in Volume
  /\ cwd \in Nat /\ harm \in Nat /\ astray \in BOOLEAN
  /\ \A i \in 1..Len(todo) : "do" \in DOMAIN todo[i]

AtRest == todo = << >> /\ harm = 0

\* Numbers and keys stay unique whatever fails: no record has a number that
\* drNxtCNID could still give out, no two have the same, and no two that
\* compare equal lie in one directory (hfs_create, v_mkdir, hfs_rename).
NumbersAndKeysUnique == Unique(c)

\* However calls fail half way, the catalog holds well-formed records, each
\* object once under its number and once under its key.
RecordsSound == TypeOK /\ NumbersAndKeysUnique

\* Between calls, if none has failed, the threads say exactly where the
\* directories are, and a file's thread, if it has one, where the file is:
\* relative paths, v_adjvalence and the walk of hfs_rename rest on it.
ThreadsExact == AtRest => ThreadsAgree(c)

\* Between calls, if none has failed, every valence is the number of records
\* in the directory (hfs_rmdir trusts it), and the MDB counts right:
\* all directories but the root, as hfs_format leaves it.
CountsExact == AtRest => CountsAgree(c)

Near(n, m) == n - m <= harm /\ m - n <= harm

\* Nothing undoes the steps before a failure, but each call that fails half
\* way leaves the counts of the MDB off by at most one.  (Valences can come
\* to differ by more: a thread that hfs_rename has not updated lets later
\* calls adjust another directory that has taken the old key.)
CountsNear ==
  todo = << >> =>
    /\ Near(c.dirs, Cardinality({e \in c.ent : e.dir}) - 1)
    /\ Near(c.files, Cardinality({e \in c.ent : ~e.dir}))

\* What the counts are worth after calls that ended well, and after others.
CountsSound == CountsExact /\ CountsNear

\* The checks at the start of a call suffice: as long as no call has failed,
\* the working directory exists, and no path leaves the tree above the root
\* after it has named something, no step finds a record missing, or one in its
\* way.  (hfs_rmdir does remove a working directory; after that a relative path
\* makes hfs_create insert a record whose parent is gone.  A stray path makes
\* hfs_rename delete the source and find the destination in its way.)
ChecksSuffice ==
  harm = 0 /\ todo # << >> /\ cwd \in DirIds(c) /\ ~astray => Ready(c, Head(todo))

Finished == After(c, todo)

\* Each call that does not fail is one change of a tree of directories, which
\* takes place when the call has made its checks.
Tree == INSTANCE DirTree WITH
  Root   <- RootDir,
  obj    <- {Thread(e) : e \in UNION {k.ent : k \in Finished}},
  next   <- c.next + IF todo # << >> /\ Head(todo) = TakeId THEN 1 ELSE 0,
  broken <- harm > 0 \/ Finished = {}

IsDirTree == Tree!Spec
=============================================================================
