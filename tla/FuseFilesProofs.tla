-------------------------- MODULE FuseFilesProofs --------------------------
(***************************************************************************)
(* Proofs about module FuseFiles.                                          *)
(*                                                                         *)
(* The inductive invariant, FuseInv, speaks of histories in which nobody   *)
(* has done what the program cannot take (breach = {}).  It says what      *)
(* libhfs relies on: the forks of all files, as their open copies or else  *)
(* their records have them, own the blocks in use, each once (Sound); what *)
(* is read through those forks is what users have made (Shows); and the    *)
(* handles count the descriptors (Counts).                                 *)
(*                                                                         *)
(* Each call of libhfs is shown, by itself, to keep what is seen (Keeps),  *)
(* to make just the change that it is for (Makes), or to leave an open     *)
(* file with a change that f_flush could not store (Torn); a callback is a *)
(* sequence of such calls.                                                 *)
(***************************************************************************)
EXTENDS FuseFiles, FiniteSetTheorems, SequenceTheorems, TLAPS

\* The forks, catalog records, open files and volumes that there may be.
AFork == [len : 0..MaxLen + MaxRsrc, blocks : Seq(Block)]
ACat == [id : 1..MaxId, data : AFork, rsrc : AFork, info : {"plain", "system"}]
ARecord == [at : Path, cat : ACat]
AnOpenFile ==
  [at : Path, cat : ACat, fork : {"data", "rsrc"}, dirty : BOOLEAN, refs : Nat \ {0}]
AVolume ==
  [rec : SUBSET ARecord, files : SUBSET AnOpenFile, used : SUBSET Block, freeBks : Int,
   disk : [Block -> Val \cup {Hole}], next : Nat \ {0}, blessed : Folder \cup {0}]
AView ==
  [id : 1..MaxId, path : Path, data : Seq(Val \cup {Hole}), rsrc : Seq(Val \cup {Hole}),
   info : {"plain", "system"}]
ADescriptor == [id : 1..MaxId, path : Path]

\* A fork with all its blocks, each once.
Whole(f) == f.len <= Len(f.blocks) /\ IsInjective(f.blocks)
NoExcess(f) == f.len = Len(f.blocks)

\* A file with two forks that share no block, and its blocks.
Sane(k) == Whole(k.data) /\ Whole(k.rsrc) /\ Range(k.data.blocks) \cap Range(k.rsrc.blocks) = {}
BlocksOf(k) == Range(k.data.blocks) \cup Range(k.rsrc.blocks)

\* The fork that is not selected.
Other(h) == IF h.fork = "data" THEN h.cat.rsrc ELSE h.cat.data

\* What the files are: the open copy of one that is open, the record of others.
Closed(v) == {e \in v.rec : Opened(v, e.cat.id) = {}}
Lives(v) == {h.cat : h \in v.files} \cup {e.cat : e \in Closed(v)}

\* The record of an open file.
Backs(e, h) == e.cat.id = h.cat.id /\ e.cat.info = h.cat.info /\ (h.dirty \/ e.cat = h.cat)

Records(v) ==
  /\ IsFiniteSet(v.rec) /\ v.next <= MaxId + 1
  /\ \A e \in v.rec : e.cat.id < v.next /\ Sane(e.cat)
  /\ \A e, f \in v.rec : Same(e.at, f.at) \/ e.cat.id = f.cat.id => e = f

Handled(v, ro) ==
  /\ \A h, g \in v.files : h.cat.id = g.cat.id => h = g
  /\ \A h \in v.files : Sane(h.cat) /\ \E e \in v.rec : Backs(e, h)
  /\ ro => \A h \in v.files : ~h.dirty
  /\ ~ro => /\ \A h \in v.files : NoExcess(Other(h))
            /\ \A e \in Closed(v) : NoExcess(e.cat.rsrc)

Space(v) ==
  /\ \A j, k \in Lives(v) : j # k => BlocksOf(j) \cap BlocksOf(k) = {}
  /\ v.used = UNION {BlocksOf(k) : k \in Lives(v)}
  /\ v.freeBks = Cardinality(Block \ v.used)

Sound(v, ro) == v \in AVolume /\ Records(v) /\ Handled(v, ro) /\ Space(v)

\* What the users see.
Shown(d, f) == [i \in 1..f.len |-> d[f.blocks[i]]]
Matches(d, k, w) == k.id = w.id /\ Shown(d, k.data) = w.data /\ Shown(d, k.rsrc) = w.rsrc
Named(v, w) == \E e \in v.rec : e.at = w.path /\ e.cat.id = w.id /\ e.cat.info = w.info
Shows(v, ws) ==
  /\ ws \subseteq AView
  /\ \A w \in ws : Named(v, w) /\ \E k \in Lives(v) : Matches(v.disk, k, w)
  /\ \A e \in v.rec : \E w \in ws : w.id = e.cat.id
  /\ \A w, x \in ws : w.id = x.id => w = x

\* How often file i is open, by the handles and by the descriptors.
RefsOf(v, i) ==
  IF Opened(v, i) = {} THEN 0 ELSE (CHOOSE h \in Opened(v, i) : TRUE).refs
Holding(f, i) == {d \in Fd : f[d] # NoFd /\ f[d].id = i}
Counts(v, f) == \A i \in Nat : RefsOf(v, i) = Cardinality(Holding(f, i))

\* What an action may rely on, and what it has to show, while nobody has done
\* what the program cannot take.
Tidy ==
  /\ Sound(vol, readonly) /\ ~MovedAndChanged(vol)
  /\ Shows(vol, view) /\ Counts(vol, fds)

TidyNext == Sound(vol', readonly) /\ Shows(vol', view') /\ Counts(vol', fds')

FdsInv == fds \in [Fd -> {NoFd} \cup ADescriptor]

\* The inductive invariant.
FuseInv == breach = {} => Tidy /\ FdsInv

\* On a volume mounted for reading no file is hidden.
Shape(v) ==
  v = [rec |-> v.rec, files |-> v.files, used |-> v.used, freeBks |-> v.freeBks,
       disk |-> v.disk, next |-> v.next, blessed |-> v.blessed]
ReadInv ==
  /\ readonly \in BOOLEAN
  /\ fds = [d \in Fd |-> fds[d]]
  /\ readonly => /\ Shape(vol)
                 /\ \A d \in Fd : fds[d] # NoFd => fds[d].path.name \notin Hidden

-----------------------------------------------------------------------------
(***************************************************************************)
(* Sequences of blocks.                                                    *)
(***************************************************************************)
\* A sequence without repetitions is as long as it has elements.
LEMMA InjectiveCount ==
  ASSUME NEW S, NEW s \in Seq(S), IsInjective(s)
  PROVE  IsFiniteSet(Range(s)) /\ Cardinality(Range(s)) = Len(s)
<1>1. s \in [1..Len(s) -> S] /\ Len(s) \in Nat /\ DOMAIN s = 1..Len(s)
  BY LenProperties
<1>2. s \in Bijection(1..Len(s), Range(s))
  BY <1>1 DEF Bijection, Injection, Surjection, Range, IsInjective
<1>3. ExistsBijection(1..Len(s), Range(s))
  BY <1>2 DEF ExistsBijection
<1>4. IsFiniteSet(1..Len(s)) /\ Cardinality(1..Len(s)) = Len(s)
  <2> DEFINE n == Len(s)
  <2>1. n \in Nat
    BY <1>1
  <2> HIDE DEF n
  <2>2. IsFiniteSet(1..n) /\ Cardinality(1..n) = IF 1 > n THEN 0 ELSE n - 1 + 1
    BY <2>1, FS_Interval
  <2>3. Cardinality(1..n) = n
    BY <2>1, <2>2
  <2> QED
    BY <2>2, <2>3 DEF n
<1> QED
  BY <1>3, <1>4, FS_Bijection

\* When two sequences together have no repetitions.
LEMMA InjectiveConcat ==
  ASSUME NEW S, NEW s \in Seq(S), NEW t \in Seq(S)
  PROVE  /\ Range(s \o t) = Range(s) \cup Range(t)
         /\ IsInjective(s \o t) <=>
              IsInjective(s) /\ IsInjective(t) /\ Range(s) \cap Range(t) = {}
<1> DEFINE u == s \o t
           m == Len(s)
           n == Len(t)
<1>1. /\ m \in Nat /\ DOMAIN s = 1..m /\ n \in Nat /\ DOMAIN t = 1..n
  BY LenProperties
<1>2. /\ u \in Seq(S) /\ Len(u) = m + n
      /\ \A i \in 1..m + n : u[i] = IF i <= m THEN s[i] ELSE t[i - m]
  BY ConcatProperties
<1>3. DOMAIN u = 1..m + n
  BY <1>2, LenProperties
<1> HIDE DEF u, m, n
<1>4. /\ \A i \in 1..m : i \in 1..m + n /\ u[i] = s[i]
      /\ \A i \in 1..n : m + i \in 1..m + n /\ u[m + i] = t[i]
  BY <1>1, <1>2
<1>5. ASSUME IsInjective(u)
      PROVE  IsInjective(s) /\ IsInjective(t) /\ Range(s) \cap Range(t) = {}
  <2>1. IsInjective(s)
    BY <1>1, <1>3, <1>4, <1>5 DEF IsInjective
  <2>2. IsInjective(t)
    <3>1. ASSUME NEW i \in 1..n, NEW j \in 1..n, t[i] = t[j] PROVE i = j
      <4>1. m + i = m + j
        BY <1>3, <1>4, <1>5, <3>1 DEF IsInjective
      <4> QED
        BY <1>1, <4>1
    <3> QED
      BY <1>1, <3>1 DEF IsInjective
  <2>3. ASSUME NEW i \in 1..m, NEW j \in 1..n, s[i] = t[j] PROVE FALSE
    <3>1. i = m + j
      BY <1>3, <1>4, <1>5, <2>3 DEF IsInjective
    <3> QED
      BY <1>1, <3>1
  <2> QED
    BY <1>1, <2>1, <2>2, <2>3 DEF Range
<1>6. ASSUME IsInjective(s), IsInjective(t), Range(s) \cap Range(t) = {}
      PROVE  IsInjective(u)
  <2>1. ASSUME NEW i \in 1..m, NEW j \in 1..n PROVE s[i] # t[j]
    BY <1>1, <1>6 DEF Range
  <2>2. ASSUME NEW i \in 1..m + n, NEW j \in 1..m + n, u[i] = u[j] PROVE i = j
    <3>1. CASE i <= m /\ j <= m
      <4>1. i \in 1..m /\ j \in 1..m /\ s[i] = s[j]
        BY <1>1, <1>2, <2>2, <3>1
      <4> QED
        BY <1>1, <1>6, <4>1 DEF IsInjective
    <3>2. CASE i > m /\ j > m
      <4>1. i - m \in 1..n /\ j - m \in 1..n /\ t[i - m] = t[j - m]
        BY <1>1, <1>2, <2>2, <3>2
      <4>2. i - m = j - m
        BY <1>1, <1>6, <4>1 DEF IsInjective
      <4> QED
        BY <1>1, <4>2
    <3>3. CASE i <= m /\ j > m
      <4>1. i \in 1..m /\ j - m \in 1..n /\ u[j] = t[j - m] /\ u[i] = s[i]
        BY <1>1, <1>2, <3>3
      <4> QED
        BY <2>1, <2>2, <4>1
    <3>4. CASE i > m /\ j <= m
      <4>1. j \in 1..m /\ i - m \in 1..n /\ u[i] = t[i - m] /\ u[j] = s[j]
        BY <1>1, <1>2, <3>4
      <4> QED
        BY <2>1, <2>2, <4>1
    <3> QED
      BY <1>1, <3>1, <3>2, <3>3, <3>4
  <2> QED
    BY <1>3, <2>2 DEF IsInjective
<1>7. Range(u) = Range(s) \cup Range(t)
  BY RangeConcatenation DEF u
<1> QED
  BY <1>5, <1>6, <1>7 DEF u

\* A sequence that is cut in two.
LEMMA CutInTwo ==
  ASSUME NEW S, NEW s \in Seq(S), NEW n \in 0..Len(s), IsInjective(s)
  PROVE  LET a == SubSeq(s, 1, n)
             b == SubSeq(s, n + 1, Len(s))
         IN  /\ a \in Seq(S) /\ b \in Seq(S) /\ Len(a) = n /\ Len(b) = Len(s) - n
             /\ IsInjective(a) /\ IsInjective(b)
             /\ Range(a) \cap Range(b) = {} /\ Range(a) \cup Range(b) = Range(s)
             /\ \A i \in 1..n : a[i] = s[i]
<1> DEFINE a == SubSeq(s, 1, n)
           b == SubSeq(s, n + 1, Len(s))
<1>1. /\ Len(s) \in Nat /\ n \in Nat /\ n <= Len(s) /\ \A i \in 1..Len(s) : s[i] \in S
  BY LenProperties
<1>2. a \in Seq(S) /\ Len(a) = n /\ \A i \in 1..n : a[i] = s[i]
  <2>1. \A i \in 1..n : s[i] \in S
    BY <1>1
  <2>2. /\ SubSeq(s, 1, n) \in Seq(S)
        /\ Len(SubSeq(s, 1, n)) = IF 1 <= n THEN n - 1 + 1 ELSE 0
        /\ \A i \in 1..n - 1 + 1 : SubSeq(s, 1, n)[i] = s[1 + i - 1]
    BY <1>1, <2>1, SubSeqProperties
  <2>3. \A i \in 1..n : 1 + i - 1 = i /\ i \in 1..n - 1 + 1
    BY <1>1
  <2> QED
    BY <1>1, <2>2, <2>3
<1>3. b \in Seq(S) /\ Len(b) = Len(s) - n
  <2>1. \A i \in n + 1..Len(s) : s[i] \in S
    BY <1>1
  <2>2. /\ SubSeq(s, n + 1, Len(s)) \in Seq(S)
        /\ Len(SubSeq(s, n + 1, Len(s))) = IF n + 1 <= Len(s) THEN Len(s) - (n + 1) + 1 ELSE 0
    BY <1>1, <2>1, SubSeqProperties
  <2> QED
    BY <1>1, <2>2
<1>4. a \o b = s
  <2>1. 1 \in 1..Len(s) + 1 /\ n \in 1 - 1..Len(s) /\ Len(s) \in n..Len(s)
    BY <1>1
  <2>2. a \o b = SubSeq(s, 1, Len(s))
    BY <2>1, ConcatAdjacentSubSeq
  <2> QED
    BY <2>2, SubSeqFull
<1> HIDE DEF a, b
<1>5. /\ IsInjective(a) /\ IsInjective(b)
      /\ Range(a) \cap Range(b) = {} /\ Range(a) \cup Range(b) = Range(s)
  BY <1>2, <1>3, <1>4, InjectiveConcat
<1> QED
  BY <1>2, <1>3, <1>5 DEF a, b

\* The count of free blocks when blocks are given back or taken.
LEMMA FreeCount ==
  ASSUME NEW used \in SUBSET Block, NEW f \in SUBSET Block
  PROVE  /\ Cardinality(Block \ used) \in Nat
         /\ f \subseteq used =>
              Cardinality(Block \ (used \ f)) = Cardinality(Block \ used) + Cardinality(f)
         /\ f \cap used = {} =>
              Cardinality(Block \ (used \cup f)) = Cardinality(Block \ used) - Cardinality(f)
<1>1. IsFiniteSet(Block \ used) /\ IsFiniteSet(f) /\ IsFiniteSet(Block \ (used \cup f))
  BY FuseAssumption, FS_Subset
<1>2. /\ Cardinality(Block \ used) \in Nat /\ Cardinality(f) \in Nat
      /\ Cardinality(Block \ (used \cup f)) \in Nat
  BY <1>1, FS_CardinalityType
<1>3. ASSUME f \subseteq used
      PROVE  Cardinality(Block \ (used \ f)) = Cardinality(Block \ used) + Cardinality(f)
  <2>1. Block \ (used \ f) = (Block \ used) \cup f /\ (Block \ used) \cap f = {}
    BY <1>3
  <2>2. Cardinality((Block \ used) \cup f) =
          Cardinality(Block \ used) + Cardinality(f) - Cardinality((Block \ used) \cap f)
    BY <1>1, FS_Union
  <2>3. Cardinality({}) = 0
    BY FS_EmptySet
  <2>4. Cardinality(Block \ (used \ f)) = Cardinality(Block \ used) + Cardinality(f) - 0
    BY <2>1, <2>2, <2>3
  <2> QED
    BY <1>2, <2>4
<1>4. ASSUME f \cap used = {}
      PROVE  Cardinality(Block \ (used \cup f)) = Cardinality(Block \ used) - Cardinality(f)
  <2> DEFINE rest == Block \ (used \cup f)
  <2>1. Block \ used = rest \cup f /\ rest \cap f = {}
    BY <1>4
  <2>2. Cardinality(rest \cup f) = Cardinality(rest) + Cardinality(f) - Cardinality(rest \cap f)
    BY <1>1, FS_Union
  <2>3. Cardinality({}) = 0
    BY FS_EmptySet
  <2> HIDE DEF rest
  <2>4. Cardinality(Block \ used) = Cardinality(rest) + Cardinality(f) - 0
    BY <2>1, <2>2, <2>3
  <2>5. Cardinality(rest) \in Nat
    BY <1>2 DEF rest
  <2>6. Cardinality(rest) = Cardinality(Block \ used) - Cardinality(f)
    BY <1>2, <2>4, <2>5
  <2> QED
    BY <2>6 DEF rest
<1> QED
  BY <1>2, <1>3, <1>4

-----------------------------------------------------------------------------
(***************************************************************************)
(* Open files and their forks.                                             *)
(***************************************************************************)
\* The fields of an open file whose current fork has been changed.
LEMMA ForkChanged ==
  ASSUME NEW h \in AnOpenFile, NEW f \in AFork
  PROVE  LET g == WithFork(h, f)
         IN  /\ g \in AnOpenFile /\ g.dirty /\ g.at = h.at /\ g.refs = h.refs /\ g.fork = h.fork
             /\ g.cat.id = h.cat.id /\ g.cat.info = h.cat.info
             /\ Fork(g) = f /\ Other(g) = Other(h)
<1>1. CASE h.fork = "data"
  <2> DEFINE k == [h.cat EXCEPT !.data = f]
  <2>1. k \in ACat /\ k.id = h.cat.id /\ k.info = h.cat.info /\ k.data = f /\ k.rsrc = h.cat.rsrc
    BY DEF AnOpenFile, ACat
  <2>2. WithFork(h, f) = [h EXCEPT !.dirty = TRUE, !.cat = k]
    BY <1>1 DEF WithFork
  <2> HIDE DEF k
  <2> QED
    BY <1>1, <2>1, <2>2 DEF AnOpenFile, Fork, Other
<1>2. CASE h.fork = "rsrc"
  <2> DEFINE k == [h.cat EXCEPT !.rsrc = f]
  <2>1. k \in ACat /\ k.id = h.cat.id /\ k.info = h.cat.info /\ k.rsrc = f /\ k.data = h.cat.data
    BY DEF AnOpenFile, ACat
  <2>2. WithFork(h, f) = [h EXCEPT !.dirty = TRUE, !.cat = k]
    BY <1>2 DEF WithFork
  <2> HIDE DEF k
  <2> QED
    BY <1>2, <2>1, <2>2 DEF AnOpenFile, Fork, Other
<1> QED
  BY <1>1, <1>2 DEF AnOpenFile

\* The two forks by which one is selected.
LEMMA ForkTypes ==
  ASSUME NEW h \in AnOpenFile
  PROVE  /\ Fork(h) \in AFork /\ Other(h) \in AFork /\ h.cat \in ACat
         /\ \A f \in {Fork(h), Other(h)} :
              f.len \in Nat /\ f.blocks \in Seq(Block) /\ Range(f.blocks) \subseteq Block
  BY RangeOfSeq, FuseAssumption DEF AnOpenFile, ACat, AFork, Fork, Other

\* The two forks of an open file, by which of them is selected.
LEMMA ForkSane ==
  ASSUME NEW h \in AnOpenFile
  PROVE  /\ Sane(h.cat) <=> /\ Whole(Fork(h)) /\ Whole(Other(h))
                            /\ Range(Fork(h).blocks) \cap Range(Other(h).blocks) = {}
         /\ BlocksOf(h.cat) = Range(Fork(h).blocks) \cup Range(Other(h).blocks)
         /\ \A d, x : x.data = Shown(d, h.cat.data) /\ x.rsrc = Shown(d, h.cat.rsrc)
              <=> IF h.fork = "data" THEN x.data = Shown(d, Fork(h)) /\ x.rsrc = Shown(d, Other(h))
                                     ELSE x.rsrc = Shown(d, Fork(h)) /\ x.data = Shown(d, Other(h))
<1>1. CASE h.fork = "data"
  BY <1>1 DEF Sane, BlocksOf, Fork, Other
<1>2. CASE h.fork # "data"
  BY <1>2 DEF Sane, BlocksOf, Fork, Other
<1> QED
  BY <1>1, <1>2

\* The fields of a volume.
LEMMA VolumeFields ==
  ASSUME NEW v \in AVolume
  PROVE  /\ v.rec \subseteq ARecord /\ v.files \subseteq AnOpenFile /\ v.used \subseteq Block
         /\ v.freeBks \in Int /\ v.disk \in [Block -> Val \cup {Hole}] /\ v.next \in Nat \ {0}
         /\ \A e \in v.rec : e.at \in Path /\ e.cat \in ACat
         /\ \A h \in v.files : h.at \in Path /\ h.cat \in ACat /\ h.refs \in Nat \ {0}
  BY DEF AVolume, ARecord, AnOpenFile

\* The file that an open one is.
LEMMA OpenedIs ==
  ASSUME NEW v, \A h, g \in v.files : h.cat.id = g.cat.id => h = g, NEW h \in v.files
  PROVE  Opened(v, h.cat.id) = {h}
  BY DEF Opened

\* Files have different numbers, and blocks in use.
LEMMA LivesAre ==
  ASSUME NEW v, NEW ro, Sound(v, ro)
  PROVE  /\ \A k \in Lives(v) : k \in ACat /\ Sane(k) /\ BlocksOf(k) \subseteq v.used
         /\ \A j, k \in Lives(v) : j.id = k.id => j = k
         /\ \A h \in v.files : h.cat \in Lives(v)
         /\ \A e \in Closed(v) : e \in v.rec /\ e.cat \in Lives(v)
<1>1. \A k \in Lives(v) : (\E h \in v.files : k = h.cat) \/ \E e \in Closed(v) : k = e.cat
  BY DEF Lives
<1>2. \A h \in v.files : h.cat \in ACat /\ Sane(h.cat)
  BY VolumeFields DEF Sound, Handled
<1>3. \A e \in Closed(v) : e \in v.rec /\ e.cat \in ACat /\ Sane(e.cat)
  BY VolumeFields DEF Sound, Records, Closed
<1>4. \A e \in Closed(v), h \in v.files : e.cat.id # h.cat.id
  BY DEF Closed, Opened
<1>5. \A j, k \in Lives(v) : j.id = k.id => j = k
  <2>1. \A e, f \in Closed(v) : e.cat.id = f.cat.id => e = f
    BY <1>3 DEF Sound, Records
  <2>2. \A h, g \in v.files : h.cat.id = g.cat.id => h = g
    BY DEF Sound, Handled
  <2> QED
    BY <1>1, <1>4, <2>1, <2>2
<1>6. \A k \in Lives(v) : BlocksOf(k) \subseteq v.used
  BY DEF Sound, Space
<1> QED
  BY <1>1, <1>2, <1>3, <1>5, <1>6 DEF Lives

-----------------------------------------------------------------------------
(***************************************************************************)
(* One open file for another.                                              *)
(***************************************************************************)
\* w is v with the open file h replaced by g, which is the same file.
Swapped(v, w, h, g) ==
  /\ w \in AVolume /\ g \in AnOpenFile /\ h \in v.files
  /\ w.rec = v.rec /\ w.next = v.next /\ w.files = (v.files \ {h}) \cup {g}
  /\ g.cat.id = h.cat.id /\ g.cat.info = h.cat.info

\* A call that puts g for the open file h changes the forks of that file only.
LEMMA SwapLives ==
  ASSUME NEW v, NEW ro, Sound(v, ro), NEW w, NEW h, NEW g, Swapped(v, w, h, g)
  PROVE  /\ Closed(w) = Closed(v)
         /\ Lives(w) = (Lives(v) \ {h.cat}) \cup {g.cat}
         /\ \A i : Opened(w, i) = IF i = h.cat.id THEN {g} ELSE Opened(v, i)
<1>1. \A f \in v.files \ {h} : f.cat.id # h.cat.id
  BY DEF Sound, Handled, Swapped
<1>2. \A i : Opened(w, i) = IF i = h.cat.id THEN {g} ELSE Opened(v, i)
  BY <1>1 DEF Opened, Swapped
<1>3. Closed(w) = Closed(v)
  <2>1. \A e \in v.rec : Opened(w, e.cat.id) = {} <=> Opened(v, e.cat.id) = {}
    BY <1>2 DEF Opened, Swapped
  <2> QED
    BY <2>1 DEF Closed, Swapped
<1>4. \A e \in Closed(v) : e.cat # h.cat
  BY DEF Closed, Opened, Swapped
<1>5. \A f \in v.files \ {h} : f.cat # h.cat
  BY <1>1
<1>6. Lives(w) = (Lives(v) \ {h.cat}) \cup {g.cat}
  BY <1>3, <1>4, <1>5 DEF Lives, Swapped
<1> QED
  BY <1>2, <1>3, <1>6

\* What keeps the volume sound when an open file changes.
Fits(v, w, ro, h, g) ==
  /\ Sane(g.cat) /\ (g.dirty \/ (~h.dirty /\ g.cat = h.cat))
  /\ ro => ~g.dirty
  /\ ~ro => NoExcess(Other(g))
  /\ w.used = (v.used \ BlocksOf(h.cat)) \cup BlocksOf(g.cat)
  /\ BlocksOf(g.cat) \cap (v.used \ BlocksOf(h.cat)) = {}
  /\ w.freeBks = Cardinality(Block \ w.used)

\* It keeps the volume sound if the blocks that g gains were free, and those it
\* gives up have been freed.
LEMMA SwapSound ==
  ASSUME NEW v, NEW ro, Sound(v, ro), NEW w, NEW h, NEW g,
         Swapped(v, w, h, g), Fits(v, w, ro, h, g)
  PROVE  Sound(w, ro)
<1>1. Records(w)
  BY DEF Sound, Records, Swapped
<1>2. Handled(w, ro)
  <2>1. \A f, k \in w.files : f.cat.id = k.cat.id => f = k
    BY DEF Sound, Handled, Swapped
  <2>2. \E e \in w.rec : Backs(e, g)
    <3>1. PICK e \in v.rec : Backs(e, h)
      BY DEF Sound, Handled, Swapped
    <3> QED
      BY <3>1 DEF Backs, Swapped, Fits
  <2>3. \A f \in w.files : Sane(f.cat) /\ \E e \in w.rec : Backs(e, f)
    BY <2>2 DEF Sound, Handled, Swapped, Fits
  <2>4. ro => \A f \in w.files : ~f.dirty
    BY DEF Sound, Handled, Swapped, Fits
  <2>5. ~ro => /\ \A f \in w.files : NoExcess(Other(f))
               /\ \A e \in Closed(w) : NoExcess(e.cat.rsrc)
    BY SwapLives DEF Sound, Handled, Swapped, Fits
  <2> QED
    BY <2>1, <2>3, <2>4, <2>5 DEF Handled
<1>3. Space(w)
  <2> DEFINE L == Lives(v) \ {h.cat}
  <2>1. Lives(w) = L \cup {g.cat} /\ Lives(v) = L \cup {h.cat} /\ h.cat \notin L
    BY SwapLives, LivesAre DEF Swapped
  <2>2. \A k \in L : BlocksOf(k) \cap BlocksOf(h.cat) = {}
    BY <2>1, LivesAre DEF Sound, Space, Swapped
  <2>3. \A j, k \in L : j # k => BlocksOf(j) \cap BlocksOf(k) = {}
    BY DEF Sound, Space
  <2>4. \A b : b \in v.used <=> b \in BlocksOf(h.cat) \/ \E k \in L : b \in BlocksOf(k)
    <3>1. \A b : b \in v.used <=> \E k \in Lives(v) : b \in BlocksOf(k)
      BY DEF Sound, Space
    <3> QED
      BY <2>1, <3>1
  <2>5. \A b : b \in v.used \ BlocksOf(h.cat) <=> \E k \in L : b \in BlocksOf(k)
    BY <2>2, <2>4
  <2>6. w.used = UNION {BlocksOf(k) : k \in Lives(w)}
    <3>1. \A b : b \in w.used <=> b \in BlocksOf(g.cat) \/ \E k \in L : b \in BlocksOf(k)
      BY <2>5 DEF Fits
    <3>2. \A b : b \in w.used <=> \E k \in Lives(w) : b \in BlocksOf(k)
      BY <2>1, <3>1
    <3> HIDE DEF L
    <3> QED
      BY <3>2
  <2>7. \A k \in L : BlocksOf(k) \cap BlocksOf(g.cat) = {}
    BY <2>5 DEF Fits
  <2>8. \A j, k \in Lives(w) : j # k => BlocksOf(j) \cap BlocksOf(k) = {}
    BY <2>1, <2>3, <2>7
  <2> QED
    BY <2>6, <2>8 DEF Space, Fits
<1> QED
  BY <1>1, <1>2, <1>3 DEF Sound, Swapped

\* And what the users see of it.
LEMMA SwapShows ==
  ASSUME NEW v, NEW ro, Sound(v, ro), NEW w, NEW h, NEW g, Swapped(v, w, h, g),
         \A b \in v.used \ BlocksOf(h.cat) : w.disk[b] = v.disk[b],
         NEW ws, Shows(v, ws), NEW x \in ws, x.id = h.cat.id,
         NEW y \in AView, y.id = x.id, y.path = x.path, y.info = x.info,
         Matches(w.disk, g.cat, y)
  PROVE  Shows(w, (ws \ {x}) \cup {y})
<1>1. Lives(w) = (Lives(v) \ {h.cat}) \cup {g.cat}
  BY SwapLives
<1>2. (ws \ {x}) \cup {y} \subseteq AView
  BY DEF Shows
<1>3. Named(w, y)
  BY DEF Shows, Named, Swapped
<1>4. \A u \in ws : Named(w, u)
  BY DEF Shows, Named, Swapped
<1>5. ASSUME NEW u \in ws, u # x PROVE \E k \in Lives(w) : Matches(w.disk, k, u)
  <2>1. PICK k \in Lives(v) : Matches(v.disk, k, u)
    BY DEF Shows
  <2>2. k.id # h.cat.id /\ k # h.cat
    BY <1>5, <2>1 DEF Shows, Matches
  <2>3. k \in ACat /\ Sane(k) /\ BlocksOf(k) \subseteq v.used /\ BlocksOf(k) \cap BlocksOf(h.cat) = {}
    BY <2>2, LivesAre DEF Sound, Space, Swapped
  <2>4. \A f \in {k.data, k.rsrc} : Shown(w.disk, f) = Shown(v.disk, f)
    <3>1. ASSUME NEW f \in {k.data, k.rsrc}, NEW i \in 1..f.len
          PROVE  w.disk[f.blocks[i]] = v.disk[f.blocks[i]]
      <4>1. f.blocks \in Seq(Block) /\ f.len \in Nat /\ f.len <= Len(f.blocks)
        BY <2>3, FuseAssumption DEF ACat, AFork, Sane, Whole
      <4>2. i \in DOMAIN f.blocks
        BY <4>1, LenProperties
      <4>3. f.blocks[i] \in BlocksOf(k)
        BY <4>2 DEF BlocksOf, Range
      <4> QED
        BY <2>3, <4>3
    <3> QED
      BY <3>1 DEF Shown
  <2>5. Matches(w.disk, k, u)
    BY <2>1, <2>4 DEF Matches
  <2> QED
    BY <1>1, <2>2, <2>5
<1>6. \A e \in w.rec : \E u \in (ws \ {x}) \cup {y} : u.id = e.cat.id
  BY DEF Shows, Swapped
<1>7. \A u, z \in (ws \ {x}) \cup {y} : u.id = z.id => u = z
  BY DEF Shows
<1> QED
  BY <1>1, <1>2, <1>3, <1>4, <1>5, <1>6, <1>7 DEF Shows

\* The name by which the users know a file.
LEMMA SeenOne ==
  ASSUME NEW v, NEW ws, Shows(v, ws), NEW e \in v.rec
  PROVE  \E x \in ws : x.id = e.cat.id /\ (CHOOSE w \in ws : w.id = e.cat.id) = x
<1>1. PICK x \in ws : x.id = e.cat.id
  BY DEF Shows
<1>2. \A w \in ws : w.id = e.cat.id => w = x
  BY <1>1 DEF Shows
<1> QED
  BY <1>1, <1>2

\* The file that a user knows by a number has the contents of the forks with it.
LEMMA SeenMatches ==
  ASSUME NEW v, NEW ro, Sound(v, ro), NEW ws, Shows(v, ws), NEW k \in Lives(v), NEW x \in ws,
         x.id = k.id
  PROVE  Matches(v.disk, k, x)
<1>1. PICK j \in Lives(v) : Matches(v.disk, j, x)
  BY DEF Shows
<1>2. j = k
  BY <1>1, LivesAre DEF Matches
<1> QED
  BY <1>1, <1>2

\* A change of an open file that shows the same.
LEMMA SwapSameShows ==
  ASSUME NEW v, NEW ro, Sound(v, ro), NEW w, NEW h, NEW g, Swapped(v, w, h, g),
         \A b \in v.used \ BlocksOf(h.cat) : w.disk[b] = v.disk[b],
         Shown(w.disk, g.cat.data) = Shown(v.disk, h.cat.data),
         Shown(w.disk, g.cat.rsrc) = Shown(v.disk, h.cat.rsrc),
         NEW ws, Shows(v, ws)
  PROVE  Shows(w, ws)
<1>1. PICK e \in v.rec : e.cat.id = h.cat.id
  BY DEF Sound, Handled, Backs, Swapped
<1>2. PICK x \in ws : x.id = e.cat.id
  BY SeenOne
<1>3. Matches(v.disk, h.cat, x)
  BY <1>1, <1>2, LivesAre, SeenMatches DEF Swapped
<1>4. Matches(w.disk, g.cat, x) /\ x \in AView
  BY <1>1, <1>2, <1>3 DEF Matches, Swapped, Shows
<1>5. Shows(w, (ws \ {x}) \cup {x})
  BY <1>1, <1>2, <1>4, SwapShows
<1> QED
  BY <1>2, <1>5

-----------------------------------------------------------------------------
(***************************************************************************)
(* f_trunc.                                                                *)
(***************************************************************************)
\* The names and numbers that the catalog has.
NamesOf(v) == {<<e.at, e.cat.id>> : e \in v.rec}

\* Sound again, and nobody sees a difference.
Keeps(v, w) ==
  /\ Sound(w, readonly) /\ NamesOf(w) = NamesOf(v) /\ w.next = v.next
  /\ \A ws : Shows(v, ws) => Shows(w, ws)

\* Whether an open file is where it was opened depends on the names.
LEMMA StaleByNames ==
  ASSUME NEW v, NEW w, NamesOf(w) = NamesOf(v), NEW h, NEW g, g.at = h.at, g.cat.id = h.cat.id
  PROVE  Stale(w, g) <=> Stale(v, h)
<1>1. \A u, f : Stale(u, f) <=> ~\E n \in NamesOf(u) : Same(n[1], f.at) /\ n[2] = f.cat.id
  <2> TAKE u, f
  <2>1. \A e \in u.rec : <<e.at, e.cat.id>> \in NamesOf(u)
    BY DEF NamesOf
  <2>2. \A n \in NamesOf(u) : \E e \in u.rec : n[1] = e.at /\ n[2] = e.cat.id
    BY DEF NamesOf
  <2>3. Stale(u, f) <=> ~\E e \in u.rec : Same(e.at, f.at) /\ e.cat.id = f.cat.id
    BY DEF Stale, At
  <2>4. ASSUME NEW e \in u.rec, Same(e.at, f.at), e.cat.id = f.cat.id
        PROVE  \E n \in NamesOf(u) : Same(n[1], f.at) /\ n[2] = f.cat.id
    <3> DEFINE n == <<e.at, e.cat.id>>
    <3>1. n \in NamesOf(u) /\ n[1] = e.at /\ n[2] = e.cat.id
      BY <2>1
    <3> HIDE DEF n
    <3> QED
      BY <2>4, <3>1
  <2>5. ASSUME NEW n \in NamesOf(u), Same(n[1], f.at), n[2] = f.cat.id
        PROVE  \E e \in u.rec : Same(e.at, f.at) /\ e.cat.id = f.cat.id
    <3>1. PICK e \in u.rec : n[1] = e.at /\ n[2] = e.cat.id
      BY <2>2
    <3> QED
      BY <2>5, <3>1
  <2> QED
    BY <2>3, <2>4, <2>5
<1>2. \A p : Same(p, g.at) <=> Same(p, h.at)
  OBVIOUS
<1> QED
  BY <1>1, <1>2

\* An open file that becomes another one.
LEMMA BecomeSwaps ==
  ASSUME NEW v \in AVolume, NEW h \in v.files, NEW g \in AnOpenFile,
         g.cat.id = h.cat.id, g.cat.info = h.cat.info
  PROVE  LET w == Become(v, h, g)
         IN  /\ Swapped(v, w, h, g)
             /\ w.used = v.used /\ w.freeBks = v.freeBks /\ w.disk = v.disk
<1> DEFINE F == (v.files \ {h}) \cup {g}
<1>1. F \subseteq AnOpenFile
  BY VolumeFields
<1>2. Become(v, h, g) = [v EXCEPT !.files = F]
  BY DEF Become
<1> HIDE DEF F
<1>3. /\ Become(v, h, g) \in AVolume /\ Become(v, h, g).files = F
      /\ Become(v, h, g).rec = v.rec /\ Become(v, h, g).next = v.next
      /\ Become(v, h, g).used = v.used /\ Become(v, h, g).freeBks = v.freeBks
      /\ Become(v, h, g).disk = v.disk
  BY <1>1, <1>2 DEF AVolume
<1> QED
  BY <1>3 DEF Swapped, F

\* Blocks that are given back.
LEMMA FreedFields ==
  ASSUME NEW v \in AVolume, NEW s \in Seq(Block)
  PROVE  LET w == Freed(v, s)
         IN  /\ w \in AVolume /\ w.used = v.used \ Range(s) /\ w.freeBks = v.freeBks + Len(s)
             /\ w.rec = v.rec /\ w.files = v.files /\ w.disk = v.disk /\ w.next = v.next
<1>1. Len(s) \in Nat
  BY LenProperties
<1>2. Freed(v, s) = [v EXCEPT !.used = v.used \ Range(s), !.freeBks = v.freeBks + Len(s)]
  BY DEF Freed
<1> DEFINE U == v.used \ Range(s)
           N == v.freeBks + Len(s)
<1>3. U \subseteq Block /\ N \in Int
  BY <1>1, VolumeFields
<1>4. Freed(v, s) = [v EXCEPT !.used = U, !.freeBks = N]
  BY <1>2
<1> HIDE DEF U, N
<1>5. /\ Freed(v, s) \in AVolume /\ Freed(v, s).used = U /\ Freed(v, s).freeBks = N
      /\ Freed(v, s).rec = v.rec /\ Freed(v, s).files = v.files /\ Freed(v, s).disk = v.disk
      /\ Freed(v, s).next = v.next
  BY <1>3, <1>4 DEF AVolume
<1> QED
  BY <1>5 DEF U, N

\* A fork that is trimmed keeps what is read of it.
LEMMA TrimmedIs ==
  ASSUME NEW h \in AnOpenFile, Sane(h.cat)
  PROVE  LET g == Trimmed(h)
             x == Excess(h)
         IN  /\ g \in AnOpenFile /\ g.dirty /\ g.at = h.at /\ g.refs = h.refs /\ g.fork = h.fork
             /\ g.cat.id = h.cat.id /\ g.cat.info = h.cat.info
             /\ Sane(g.cat) /\ NoExcess(Fork(g)) /\ Other(g) = Other(h)
             /\ x \in Seq(Block) /\ IsInjective(x)
             /\ Range(x) \cap BlocksOf(g.cat) = {} /\ Range(x) \cup BlocksOf(g.cat) = BlocksOf(h.cat)
             /\ \A d : Shown(d, g.cat.data) = Shown(d, h.cat.data)
                    /\ Shown(d, g.cat.rsrc) = Shown(d, h.cat.rsrc)
             /\ x = << >> <=> NoExcess(Fork(h))
<1> DEFINE f == Fork(h)
           n == f.len
           s == f.blocks
           a == SubSeq(s, 1, n)
           x == Excess(h)
           k == [f EXCEPT !.blocks = a]
           g == Trimmed(h)
<1>1. /\ f \in AFork /\ s \in Seq(Block) /\ Len(s) \in Nat /\ n \in Nat /\ n <= Len(s)
      /\ IsInjective(s) /\ n \in 0..Len(s)
  BY ForkTypes, ForkSane, LenProperties DEF Whole
<1>2. x = SubSeq(s, n + 1, Len(s))
  BY DEF Excess
<1>3. /\ a \in Seq(Block) /\ x \in Seq(Block) /\ Len(a) = n /\ Len(x) = Len(s) - n
      /\ IsInjective(a) /\ IsInjective(x)
      /\ Range(a) \cap Range(x) = {} /\ Range(a) \cup Range(x) = Range(s)
      /\ \A i \in 1..n : a[i] = s[i]
  <2> HIDE DEF f, n, s, x
  <2>1. s \in Seq(Block) /\ n \in 0..Len(s) /\ IsInjective(s)
    BY <1>1
  <2> QED
    BY <2>1, <1>2, CutInTwo
<1>4. Len(s) - Len(x) = n
  BY <1>1, <1>3
<1>5. k \in AFork /\ k.len = n /\ k.blocks = a
  BY <1>1, <1>3 DEF AFork
<1>6. g = WithFork(h, k)
  BY <1>4 DEF Trimmed
<1> HIDE DEF k, g
<1>7. /\ g \in AnOpenFile /\ g.dirty /\ g.at = h.at /\ g.refs = h.refs /\ g.fork = h.fork
      /\ g.cat.id = h.cat.id /\ g.cat.info = h.cat.info
      /\ Fork(g) = k /\ Other(g) = Other(h)
  BY <1>5, <1>6, ForkChanged
<1>8. x = << >> <=> n = Len(s)
  <2>1. x # << >> => Len(x) \in Nat \ {0}
    BY <1>3, EmptySeq
  <2>2. x = << >> => Len(x) = 0
    BY EmptySeq
  <2> QED
    BY <1>1, <1>3, <2>1, <2>2
<1>9. \A d : Shown(d, k) = Shown(d, f)
  <2>1. \A i \in 1..n : k.blocks[i] = f.blocks[i]
    BY <1>3, <1>5
  <2> HIDE DEF n
  <2>2. k.len = f.len
    BY <1>5 DEF n
  <2> QED
    BY <2>1, <2>2 DEF Shown, n
<1>10. /\ Whole(Fork(h)) /\ Whole(Other(h)) /\ Range(s) \cap Range(Other(h).blocks) = {}
       /\ BlocksOf(h.cat) = Range(s) \cup Range(Other(h).blocks)
  BY ForkSane
<1>11. Whole(k) /\ NoExcess(k)
  BY <1>1, <1>3, <1>5 DEF Whole, NoExcess
<1>12. /\ Sane(g.cat) <=> /\ Whole(k) /\ Whole(Other(h)) /\ Range(a) \cap Range(Other(h).blocks) = {}
       /\ BlocksOf(g.cat) = Range(a) \cup Range(Other(h).blocks)
  BY <1>5, <1>7, ForkSane
<1>13. Sane(g.cat)
  BY <1>3, <1>10, <1>11, <1>12
<1>14. Range(x) \cap BlocksOf(g.cat) = {} /\ Range(x) \cup BlocksOf(g.cat) = BlocksOf(h.cat)
  BY <1>3, <1>10, <1>12
<1>15. \A d : Shown(d, g.cat.data) = Shown(d, h.cat.data) /\ Shown(d, g.cat.rsrc) = Shown(d, h.cat.rsrc)
  <2>1. CASE h.fork = "data"
    BY <1>7, <1>9, <2>1 DEF Fork, Other
  <2>2. CASE h.fork # "data"
    BY <1>7, <1>9, <2>2 DEF Fork, Other
  <2> QED
    BY <2>1, <2>2
<1>16. x = << >> <=> NoExcess(Fork(h))
  BY <1>8 DEF NoExcess
<1> QED
  BY <1>3, <1>7, <1>11, <1>13, <1>14, <1>15, <1>16 DEF g

-----------------------------------------------------------------------------
(***************************************************************************)
(* Calls that keep what is seen: f_trunc, hfs_setfork, f_flush.            *)
(***************************************************************************)
\* A swap of an open file for one that shows the same.
LEMMA SwapKeeps ==
  ASSUME NEW v, Sound(v, readonly), NEW w, NEW h, NEW g,
         Swapped(v, w, h, g), Fits(v, w, readonly, h, g), w.disk = v.disk,
         Shown(v.disk, g.cat.data) = Shown(v.disk, h.cat.data),
         Shown(v.disk, g.cat.rsrc) = Shown(v.disk, h.cat.rsrc)
  PROVE  Keeps(v, w)
<1>1. Sound(w, readonly)
  BY SwapSound
<1>2. \A ws : Shows(v, ws) => Shows(w, ws)
  BY SwapSameShows
<1>3. NamesOf(w) = NamesOf(v) /\ w.next = v.next
  BY DEF NamesOf, Swapped
<1> QED
  BY <1>1, <1>2, <1>3 DEF Keeps

\* Keeps is reflexive
LEMMA KeepsSelf ==
  ASSUME NEW v, Sound(v, readonly)
  PROVE  Keeps(v, v)
  BY DEF Keeps

\* and transitive: calls that keep what is seen follow each other.
LEMMA KeepsTwice ==
  ASSUME NEW u, NEW v, NEW w, Keeps(u, v), Keeps(v, w)
  PROVE  Keeps(u, w)
  BY DEF Keeps

\* A swap that leaves blocks and flags alone.
LEMMA BecomeSame ==
  ASSUME NEW v, Sound(v, readonly), NEW h \in v.files, NEW g \in AnOpenFile,
         g.cat = h.cat, g.dirty = h.dirty, ~readonly => NoExcess(Other(g))
  PROVE  Keeps(v, Become(v, h, g)) /\ Swapped(v, Become(v, h, g), h, g)
<1> DEFINE w == Become(v, h, g)
<1>1. /\ Swapped(v, w, h, g) /\ w.used = v.used /\ w.freeBks = v.freeBks /\ w.disk = v.disk
  BY BecomeSwaps DEF Sound
<1> HIDE DEF w
<1>2. BlocksOf(h.cat) \subseteq v.used /\ Sane(h.cat)
  BY LivesAre DEF Sound, Handled
<1>3. v.freeBks = Cardinality(Block \ v.used) /\ (readonly => ~h.dirty)
  BY DEF Sound, Space, Handled
<1>4. Fits(v, w, readonly, h, g)
  BY <1>1, <1>2, <1>3 DEF Fits
<1>5. Keeps(v, w)
  BY <1>1, <1>4, SwapKeeps
<1> QED
  BY <1>1, <1>5 DEF w

\* f_trunc frees what nobody reads.
LEMMA TruncKeeps ==
  ASSUME NEW v, Sound(v, readonly), NEW h \in v.files
  PROVE  LET w == Trunc(v, h)
             g == AfterTrunc(h)
         IN  /\ Keeps(v, w) /\ Swapped(v, w, h, g)
             /\ g.at = h.at /\ g.refs = h.refs /\ g.fork = h.fork
             /\ g = h \/ (g.dirty /\ ~readonly /\ Excess(h) # << >>)
             /\ ~readonly => NoExcess(g.cat.data) /\ NoExcess(g.cat.rsrc)
<1>1. /\ v \in AVolume /\ h \in AnOpenFile /\ Sane(h.cat)
      /\ ~readonly => NoExcess(Other(h))
  BY VolumeFields DEF Sound, Handled
<1>2. \A f \in AnOpenFile : NoExcess(Fork(f)) /\ NoExcess(Other(f))
                              => NoExcess(f.cat.data) /\ NoExcess(f.cat.rsrc)
  BY DEF AnOpenFile, Fork, Other
<1>3. CASE readonly \/ Excess(h) = << >>
  <2>1. Trunc(v, h) = v /\ AfterTrunc(h) = h
    BY <1>3 DEF Trunc, AfterTrunc
  <2>2. Swapped(v, v, h, h)
    BY <1>1 DEF Swapped
  <2>3. ~readonly => NoExcess(Fork(h))
    BY <1>1, <1>3, TrimmedIs
  <2> QED
    BY <1>1, <1>2, <2>1, <2>2, <2>3, KeepsSelf
<1>4. CASE ~(readonly \/ Excess(h) = << >>)
  <2> DEFINE g == Trimmed(h)
             x == Excess(h)
             u == Become(v, h, g)
             w == Freed(u, x)
  <2>1. Trunc(v, h) = w /\ AfterTrunc(h) = g
    BY <1>4 DEF Trunc, AfterTrunc
  <2>2. /\ g \in AnOpenFile /\ g.dirty /\ g.at = h.at /\ g.refs = h.refs /\ g.fork = h.fork
        /\ g.cat.id = h.cat.id /\ g.cat.info = h.cat.info
        /\ Sane(g.cat) /\ NoExcess(Fork(g)) /\ Other(g) = Other(h)
        /\ x \in Seq(Block) /\ IsInjective(x)
        /\ Range(x) \cap BlocksOf(g.cat) = {} /\ Range(x) \cup BlocksOf(g.cat) = BlocksOf(h.cat)
        /\ Shown(v.disk, g.cat.data) = Shown(v.disk, h.cat.data)
        /\ Shown(v.disk, g.cat.rsrc) = Shown(v.disk, h.cat.rsrc)
    BY <1>1, TrimmedIs
  <2> HIDE DEF g, x
  <2>3. /\ Swapped(v, u, h, g) /\ u.used = v.used /\ u.freeBks = v.freeBks /\ u.disk = v.disk
    BY <1>1, <2>2, BecomeSwaps
  <2> HIDE DEF u
  <2>4. u \in AVolume
    BY <2>3 DEF Swapped
  <2>5. /\ w \in AVolume /\ w.used = u.used \ Range(x) /\ w.freeBks = u.freeBks + Len(x)
        /\ w.rec = u.rec /\ w.files = u.files /\ w.disk = u.disk /\ w.next = u.next
    BY <2>2, <2>4, FreedFields
  <2> HIDE DEF w
  <2>6. Swapped(v, w, h, g)
    BY <2>3, <2>5 DEF Swapped
  <2>7. BlocksOf(h.cat) \subseteq v.used /\ v.used \subseteq Block
    BY <1>1, LivesAre, VolumeFields
  <2>8. w.used = (v.used \ BlocksOf(h.cat)) \cup BlocksOf(g.cat)
    BY <2>2, <2>3, <2>5, <2>7
  <2>9. BlocksOf(g.cat) \cap (v.used \ BlocksOf(h.cat)) = {}
    BY <2>2
  <2>10. w.freeBks = Cardinality(Block \ w.used)
    <3>1. Range(x) \subseteq v.used /\ Cardinality(Range(x)) = Len(x)
      BY <2>2, <2>7, InjectiveCount
    <3>2. Cardinality(Block \ (v.used \ Range(x))) = Cardinality(Block \ v.used) + Cardinality(Range(x))
      BY <2>7, <3>1, FreeCount
    <3>3. v.freeBks = Cardinality(Block \ v.used)
      BY DEF Sound, Space
    <3> QED
      BY <2>3, <2>5, <3>1, <3>2, <3>3
  <2>11. Fits(v, w, readonly, h, g)
    BY <1>1, <1>4, <2>2, <2>8, <2>9, <2>10 DEF Fits
  <2>12. Keeps(v, w)
    BY <2>2, <2>3, <2>5, <2>6, <2>11, SwapKeeps
  <2>13. NoExcess(g.cat.data) /\ NoExcess(g.cat.rsrc)
    BY <1>1, <1>2, <1>4, <2>2
  <2> QED
    BY <1>4, <2>1, <2>2, <2>6, <2>12, <2>13 DEF x
<1> QED
  BY <1>3, <1>4

\* Two swaps of the same file are one.
LEMMA SwapTwice ==
  ASSUME NEW u, NEW v, NEW w, NEW h, NEW g, NEW f, Sound(u, readonly),
         Swapped(u, v, h, g), Swapped(v, w, g, f)
  PROVE  Swapped(u, w, h, f)
<1>1. g \notin u.files \ {h}
  BY DEF Sound, Handled, Swapped
<1>2. w.files = (u.files \ {h}) \cup {f}
  BY <1>1 DEF Swapped
<1> QED
  BY <1>2 DEF Swapped

\* hfs_setfork
LEMMA SetForkKeeps ==
  ASSUME NEW v, Sound(v, readonly), NEW h \in v.files, NEW fork \in {"data", "rsrc"}
  PROVE  LET w == SetFork(v, h, fork)
         IN  /\ Keeps(v, w)
             /\ \E g : /\ Swapped(v, w, h, g) /\ g.fork = fork /\ g.at = h.at /\ g.refs = h.refs
                       /\ g.dirty => h.dirty \/ (~readonly /\ Excess(h) # << >>)
                       /\ readonly \/ (NoExcess(g.cat.data) /\ NoExcess(g.cat.rsrc))
<1> DEFINE u == Trunc(v, h)
           t == AfterTrunc(h)
           g == [t EXCEPT !.fork = fork]
           w == Become(u, t, g)
<1>1. /\ Keeps(v, u) /\ Swapped(v, u, h, t)
      /\ t.at = h.at /\ t.refs = h.refs /\ t.fork = h.fork
      /\ t = h \/ (t.dirty /\ ~readonly /\ Excess(h) # << >>)
      /\ ~readonly => NoExcess(t.cat.data) /\ NoExcess(t.cat.rsrc)
  BY TruncKeeps
<1>2. SetFork(v, h, fork) = w
  BY DEF SetFork
<1> HIDE DEF u, t
<1>3. t \in AnOpenFile /\ t \in u.files /\ Sound(u, readonly)
  BY <1>1 DEF Swapped, Keeps
<1>4. /\ g \in AnOpenFile /\ g.cat = t.cat /\ g.dirty = t.dirty /\ g.fork = fork
      /\ g.at = t.at /\ g.refs = t.refs
  BY <1>3 DEF AnOpenFile
<1> HIDE DEF g
<1>5. ~readonly => NoExcess(Other(g))
  BY <1>1, <1>4 DEF Other
<1>6. Keeps(u, w) /\ Swapped(u, w, t, g)
  BY <1>3, <1>4, <1>5, BecomeSame
<1> HIDE DEF w
<1>7. Keeps(v, w) /\ Swapped(v, w, h, g)
  BY <1>1, <1>6, KeepsTwice, SwapTwice
<1> QED
  BY <1>1, <1>2, <1>4, <1>7

-----------------------------------------------------------------------------
\* The record that f_flush finds is that of the file.
LEMMA OwnRecord ==
  ASSUME NEW v, NEW ro, Sound(v, ro), NEW h \in v.files, ~Stale(v, h)
  PROVE  \E e \in v.rec : /\ At(v, h.at) = {e} /\ (CHOOSE x \in At(v, h.at) : TRUE) = e
                          /\ Backs(e, h)
<1>1. PICK e \in At(v, h.at) : e.cat.id = h.cat.id
  BY DEF Stale
<1>2. e \in v.rec /\ At(v, h.at) = {e}
  BY <1>1 DEF Sound, Records, At, Same
<1>3. Backs(e, h)
  BY <1>1, <1>2 DEF Sound, Handled, Records, Backs
<1> QED
  BY <1>2, <1>3

\* What a file that is stored becomes.
Clean(h) == [h EXCEPT !.dirty = FALSE]

\* f_flush puts the record of the open file where its own record is.
LEMMA FlushKeeps ==
  ASSUME NEW v, Sound(v, readonly), NEW h \in v.files, ~Stale(v, h) \/ ~h.dirty
  PROVE  LET w == Flush(v, h)
         IN  /\ Keeps(v, w)
             /\ w.files = (v.files \ {h}) \cup {Clean(h)}
             /\ \E e \in w.rec : e.cat.id = h.cat.id /\ e.cat = h.cat
             /\ w \in AVolume /\ Closed(w) = Closed(v)
             /\ Clean(h) \in AnOpenFile /\ ~Clean(h).dirty /\ Clean(h).cat = h.cat
             /\ Clean(h).at = h.at /\ Clean(h).refs = h.refs /\ Clean(h).fork = h.fork
<1>1. v \in AVolume /\ h \in AnOpenFile
  BY VolumeFields DEF Sound
<1>2. /\ Clean(h) \in AnOpenFile /\ ~Clean(h).dirty /\ Clean(h).cat = h.cat
      /\ Clean(h).at = h.at /\ Clean(h).refs = h.refs /\ Clean(h).fork = h.fork
  BY <1>1 DEF Clean, AnOpenFile
<1>3. ~h.dirty => Clean(h) = h
  BY <1>1 DEF Clean, AnOpenFile
<1>4. CASE ~h.dirty
  <2>1. Flush(v, h) = v
    BY <1>4 DEF Flush
  <2>2. \E e \in v.rec : e.cat.id = h.cat.id /\ e.cat = h.cat
    BY <1>4 DEF Sound, Handled, Backs
  <2> QED
    BY <1>1, <1>2, <1>3, <1>4, <2>1, <2>2, KeepsSelf
<1>5. CASE h.dirty
  <2>1. ~readonly
    BY <1>5 DEF Sound, Handled
  <2>2. PICK e \in v.rec : /\ At(v, h.at) = {e} /\ (CHOOSE x \in At(v, h.at) : TRUE) = e
                           /\ Backs(e, h)
    BY <1>5, OwnRecord
  <2> DEFINE g == Clean(h)
             f == [e EXCEPT !.cat = h.cat]
             R == (v.rec \ {e}) \cup {f}
             u == [v EXCEPT !.rec = R]
             w == Become(u, h, g)
  <2>3. Flush(v, h) = w
    BY <1>5, <2>1, <2>2 DEF Flush, Clean
  <2>4. e \in ARecord /\ h.cat \in ACat /\ v.rec \subseteq ARecord
    BY <1>1, VolumeFields
  <2>5. f \in ARecord /\ f.at = e.at /\ f.cat = h.cat
    BY <2>4 DEF ARecord
  <2> HIDE DEF f, g
  <2>6. R \subseteq ARecord
    BY <2>4, <2>5
  <2>7. /\ u \in AVolume /\ u.rec = R /\ u.files = v.files /\ u.used = v.used
        /\ u.freeBks = v.freeBks /\ u.disk = v.disk /\ u.next = v.next
    <3> HIDE DEF R
    <3> QED
      BY <1>1, <2>6 DEF AVolume
  <2> HIDE DEF u
  <2>8. /\ Swapped(u, w, h, g) /\ w.used = v.used /\ w.freeBks = v.freeBks /\ w.disk = v.disk
    BY <1>2, <2>7, BecomeSwaps DEF g
  <2> HIDE DEF w
  <2>9. /\ w \in AVolume /\ w.rec = R /\ w.next = v.next /\ w.files = (v.files \ {h}) \cup {g}
        /\ g \in AnOpenFile
    BY <2>7, <2>8 DEF Swapped
  <2>10. /\ e.cat.id = h.cat.id /\ e.cat.info = h.cat.info /\ f \in w.rec
         /\ g.cat = h.cat /\ ~g.dirty /\ g.fork = h.fork
    BY <1>2, <2>2, <2>9 DEF Backs, g
  <2>11. \A i : Opened(w, i) = {} <=> Opened(v, i) = {}
    BY <2>9, <2>10 DEF Opened
  <2>12. Opened(v, e.cat.id) # {}
    BY <2>10 DEF Opened
  <2>13. Closed(w) = Closed(v)
    BY <2>5, <2>9, <2>10, <2>11, <2>12 DEF Closed
  <2>14. Lives(w) = Lives(v)
    BY <2>9, <2>10, <2>13 DEF Lives
  <2>15. Sane(h.cat)
    BY DEF Sound, Handled
  <2>16. Records(w)
    <3>1. IsFiniteSet(w.rec)
      <4>1. IsFiniteSet(v.rec \ {e})
        BY FS_RemoveElement DEF Sound, Records
      <4>2. IsFiniteSet((v.rec \ {e}) \cup {f})
        BY <4>1, FS_AddElement
      <4> QED
        BY <2>9, <4>2
    <3>2. \A x \in w.rec : x.cat.id < w.next /\ Sane(x.cat)
      BY <2>5, <2>9, <2>10, <2>15 DEF Sound, Records
    <3>3. \A x, y \in w.rec : Same(x.at, y.at) \/ x.cat.id = y.cat.id => x = y
      <4>1. \A x, y \in v.rec : Same(x.at, y.at) \/ x.cat.id = y.cat.id => x = y
        BY DEF Sound, Records
      <4>2. ASSUME NEW y \in v.rec \ {e}
            PROVE  ~Same(f.at, y.at) /\ ~Same(y.at, f.at) /\ f.cat.id # y.cat.id
        <5>1. ~Same(e.at, y.at) /\ ~Same(y.at, e.at) /\ e.cat.id # y.cat.id
          BY <4>1
        <5> QED
          BY <2>5, <2>10, <5>1
      <4>3. \A x \in w.rec : x = f \/ x \in v.rec \ {e}
        BY <2>9
      <4> HIDE DEF R
      <4> QED
        BY <4>1, <4>2, <4>3
    <3> QED
      BY <2>9, <3>1, <3>2, <3>3 DEF Sound, Records
  <2>17. Handled(w, readonly)
    <3>1. \A x, y \in w.files : x.cat.id = y.cat.id => x = y
      BY <2>9, <2>10 DEF Sound, Handled
    <3>2. \A x \in v.files \ {h} : \E y \in w.rec : Backs(y, x)
      <4>1. ASSUME NEW x \in v.files \ {h} PROVE \E y \in w.rec : Backs(y, x)
        <5>1. PICK y \in v.rec : Backs(y, x)
          BY <4>1 DEF Sound, Handled
        <5>2. x.cat.id # h.cat.id
          BY <4>1 DEF Sound, Handled
        <5>3. y # e
          BY <5>1, <5>2, <2>10 DEF Backs
        <5> QED
          BY <2>9, <5>1, <5>3
      <4> QED
        BY <4>1
    <3>3. Backs(f, g)
      BY <2>5, <2>10 DEF Backs
    <3>4. \A x \in w.files : Sane(x.cat) /\ \E y \in w.rec : Backs(y, x)
      BY <2>9, <2>10, <2>15, <3>2, <3>3 DEF Sound, Handled
    <3>5. /\ \A x \in w.files : NoExcess(Other(x))
          /\ \A x \in Closed(w) : NoExcess(x.cat.rsrc)
      BY <2>1, <2>9, <2>10, <2>13 DEF Sound, Handled, Other
    <3> QED
      BY <2>1, <3>1, <3>4, <3>5 DEF Handled
  <2>18. Space(w)
    BY <2>8, <2>14 DEF Sound, Space
  <2>19. Sound(w, readonly)
    BY <2>9, <2>16, <2>17, <2>18 DEF Sound
  <2>20. NamesOf(w) = NamesOf(v)
    BY <2>5, <2>9, <2>10 DEF NamesOf
  <2>21. ASSUME NEW ws, Shows(v, ws) PROVE Shows(w, ws)
    <3>1. \A x \in ws : Named(w, x)
      BY <2>5, <2>9, <2>10, <2>21 DEF Shows, Named
    <3>2. \A y \in w.rec : \E x \in ws : x.id = y.cat.id
      BY <2>5, <2>9, <2>10, <2>21 DEF Shows
    <3> QED
      BY <2>8, <2>14, <2>21, <3>1, <3>2 DEF Shows
  <2>22. Keeps(v, w)
    BY <2>9, <2>19, <2>20, <2>21 DEF Keeps
  <2>23. \E y \in w.rec : y.cat.id = h.cat.id /\ y.cat = h.cat
    BY <2>5, <2>10
  <2> QED
    BY <1>2, <2>3, <2>9, <2>13, <2>22, <2>23 DEF g
<1> QED
  BY <1>1, <1>4, <1>5 DEF AnOpenFile

-----------------------------------------------------------------------------
(***************************************************************************)
(* hfs_open and hfs_close.                                                 *)
(***************************************************************************)
\* How often a file is open.
LEMMA RefsAre ==
  ASSUME NEW v, \A h, g \in v.files : h.cat.id = g.cat.id => h = g
  PROVE  /\ \A h \in v.files : RefsOf(v, h.cat.id) = h.refs
         /\ \A i : Opened(v, i) = {} => RefsOf(v, i) = 0
         /\ \A i : (\A h \in v.files : h.cat.id # i) => Opened(v, i) = {}
<1>1. ASSUME NEW h \in v.files PROVE RefsOf(v, h.cat.id) = h.refs
  <2>1. Opened(v, h.cat.id) = {h}
    BY OpenedIs
  <2>2. (CHOOSE x \in {h} : TRUE) = h
    OBVIOUS
  <2> QED
    BY <2>1, <2>2 DEF RefsOf
<1>2. \A i : Opened(v, i) = {} => RefsOf(v, i) = 0
  BY DEF RefsOf
<1>3. \A i : (\A h \in v.files : h.cat.id # i) => Opened(v, i) = {}
  BY DEF Opened
<1> QED
  BY <1>1, <1>2, <1>3

\* The numbers of references when a file is swapped.
LEMMA SwapRefs ==
  ASSUME NEW v, NEW ro, Sound(v, ro), NEW w, NEW h, NEW g, Swapped(v, w, h, g)
  PROVE  \A i : RefsOf(w, i) = IF i = h.cat.id THEN g.refs ELSE RefsOf(v, i)
<1> TAKE i
<1>1. Opened(w, i) = IF i = h.cat.id THEN {g} ELSE Opened(v, i)
  BY SwapLives
<1>2. CASE i = h.cat.id
  <2>1. (CHOOSE x \in {g} : TRUE) = g
    OBVIOUS
  <2> QED
    BY <1>1, <1>2, <2>1 DEF RefsOf
<1>3. CASE i # h.cat.id
  BY <1>1, <1>3 DEF RefsOf
<1> QED
  BY <1>2, <1>3

\* hfs_open of a file that is closed.
Fresh(e) == [cat |-> e.cat, at |-> e.at, fork |-> "data", dirty |-> FALSE, refs |-> 1]

\* hfs_open of a file that is not open makes an hfsfile of its own.
LEMMA OpenFresh ==
  ASSUME NEW v, Sound(v, readonly), NEW e \in v.rec, Opened(v, e.cat.id) = {}
  PROVE  LET w == Open(v, e)
         IN  /\ Keeps(v, w) /\ w.rec = v.rec /\ w.files = v.files \cup {Fresh(e)}
             /\ Opened(w, e.cat.id) = {Fresh(e)}
             /\ \A i : RefsOf(w, i) = IF i = e.cat.id THEN 1 ELSE RefsOf(v, i)
<1> DEFINE h == Fresh(e)
           w == Open(v, e)
           F == v.files \cup {h}
<1>1. v \in AVolume /\ e.at \in Path /\ e.cat \in ACat
  BY VolumeFields DEF Sound
<1>2. /\ h \in AnOpenFile /\ h.cat = e.cat /\ h.at = e.at /\ ~h.dirty /\ h.fork = "data"
      /\ h.refs = 1 /\ Other(h) = e.cat.rsrc
  BY <1>1 DEF Fresh, AnOpenFile, Other
<1>3. w = [v EXCEPT !.files = F]
  BY DEF Open, Fresh
<1> HIDE DEF h
<1>4. F \subseteq AnOpenFile
  BY <1>1, <1>2, VolumeFields
<1>5. /\ w \in AVolume /\ w.rec = v.rec /\ w.files = F /\ w.used = v.used
      /\ w.freeBks = v.freeBks /\ w.disk = v.disk /\ w.next = v.next
  <2> HIDE DEF F
  <2> QED
    BY <1>1, <1>3, <1>4 DEF AVolume
<1> HIDE DEF w
<1>6. \A i : Opened(w, i) = IF i = e.cat.id THEN {h} ELSE Opened(v, i)
  BY <1>2, <1>5 DEF Opened
<1>7. Closed(w) = Closed(v) \ {e} /\ e \in Closed(v)
  <2>1. \A f \in v.rec : f.cat.id = e.cat.id => f = e
    BY DEF Sound, Records
  <2> QED
    BY <1>5, <1>6, <2>1 DEF Closed
<1>8. Lives(w) = Lives(v)
  BY <1>2, <1>5, <1>7 DEF Lives
<1>9. Records(w)
  BY <1>5 DEF Sound, Records
<1>10. Handled(w, readonly)
  <2>1. \A f \in v.files : f.cat.id # e.cat.id
    BY DEF Opened
  <2>2. \A f, g \in w.files : f.cat.id = g.cat.id => f = g
    BY <1>2, <1>5, <2>1 DEF Sound, Handled
  <2>3. Sane(h.cat) /\ Backs(e, h)
    BY <1>2 DEF Sound, Records, Backs
  <2>4. \A f \in w.files : Sane(f.cat) /\ \E x \in w.rec : Backs(x, f)
    BY <1>5, <2>3 DEF Sound, Handled
  <2>5. readonly => \A f \in w.files : ~f.dirty
    BY <1>2, <1>5 DEF Sound, Handled
  <2>6. ~readonly => NoExcess(Other(h))
    BY <1>2, <1>7 DEF Sound, Handled
  <2>7. ~readonly => /\ \A f \in w.files : NoExcess(Other(f))
                     /\ \A x \in Closed(w) : NoExcess(x.cat.rsrc)
    BY <1>5, <1>7, <2>6 DEF Sound, Handled
  <2> QED
    BY <2>2, <2>4, <2>5, <2>7 DEF Handled
<1>11. Space(w)
  BY <1>5, <1>8 DEF Sound, Space
<1>12. \A ws : Shows(v, ws) => Shows(w, ws)
  BY <1>5, <1>8 DEF Shows, Named
<1>13. Keeps(v, w)
  BY <1>5, <1>9, <1>10, <1>11, <1>12 DEF Keeps, Sound, NamesOf
<1>14. \A i : RefsOf(w, i) = IF i = e.cat.id THEN 1 ELSE RefsOf(v, i)
  <2> TAKE i
  <2>1. (CHOOSE x \in {h} : TRUE) = h
    OBVIOUS
  <2>2. CASE i = e.cat.id
    BY <1>2, <1>6, <2>1, <2>2 DEF RefsOf
  <2>3. CASE i # e.cat.id
    <3>1. Opened(w, i) = Opened(v, i)
      BY <1>6, <2>3
    <3>2. RefsOf(w, i) = RefsOf(v, i)
      BY ONLY <3>1 DEF RefsOf
    <3> QED
      BY <2>3, <3>2
  <2> QED
    BY <2>2, <2>3
<1>15. Opened(w, e.cat.id) = {h}
  BY <1>6
<1> QED
  BY <1>5, <1>13, <1>14, <1>15 DEF w, h

\* A file with more or fewer references.
Refs(h, n) == [h EXCEPT !.refs = n]

\* hfs_open and hfs_close of a file that is open elsewhere only count.
LEMMA RefsKeep ==
  ASSUME NEW v, Sound(v, readonly), NEW h \in v.files, NEW n \in Nat \ {0}
  PROVE  LET g == Refs(h, n)
             w == Become(v, h, g)
         IN  /\ Keeps(v, w) /\ Swapped(v, w, h, g) /\ g \in AnOpenFile
             /\ g.cat = h.cat /\ g.at = h.at /\ g.fork = h.fork /\ g.dirty = h.dirty /\ g.refs = n
             /\ \A i : RefsOf(w, i) = IF i = h.cat.id THEN n ELSE RefsOf(v, i)
<1> DEFINE g == Refs(h, n)
           w == Become(v, h, g)
<1>1. h \in AnOpenFile
  BY VolumeFields DEF Sound
<1>2. /\ g \in AnOpenFile /\ g.cat = h.cat /\ g.at = h.at /\ g.fork = h.fork
      /\ g.dirty = h.dirty /\ g.refs = n
  BY <1>1 DEF Refs, AnOpenFile
<1> HIDE DEF g
<1>3. ~readonly => NoExcess(Other(g))
  BY <1>2 DEF Sound, Handled, Other
<1>4. Keeps(v, w) /\ Swapped(v, w, h, g)
  BY <1>2, <1>3, BecomeSame
<1> HIDE DEF w
<1>5. \A i : RefsOf(w, i) = IF i = h.cat.id THEN g.refs ELSE RefsOf(v, i)
  BY <1>4, SwapRefs
<1> QED
  BY <1>2, <1>4, <1>5 DEF g, w

\* A file that has moved is as its record says, and a second user has it open.
Ready(v, h) ==
  /\ h \in v.files
  /\ Stale(v, h) => /\ ~h.dirty /\ h.refs > 1
                    /\ readonly \/ (NoExcess(h.cat.data) /\ NoExcess(h.cat.rsrc))

\* hfs_open
LEMMA OpenKeeps ==
  ASSUME NEW v, Sound(v, readonly), ~MovedAndChanged(v), NEW e \in v.rec
  PROVE  LET w == Open(v, e)
         IN  /\ Keeps(v, w)
             /\ \A i : RefsOf(w, i) = RefsOf(v, i) + IF i = e.cat.id THEN 1 ELSE 0
             /\ \E h : Opened(w, e.cat.id) = {h} /\ h.cat.id = e.cat.id /\ Ready(w, h)
<1> DEFINE w == Open(v, e)
<1>1. \A g, h \in v.files : g.cat.id = h.cat.id => g = h
  BY DEF Sound, Handled
<1>a. \A i : RefsOf(v, i) \in Nat
  <2> TAKE i
  <2>1. CASE Opened(v, i) = {}
    BY <2>1, <1>1, RefsAre
  <2>2. CASE Opened(v, i) # {}
    <3>1. PICK h \in v.files : h.cat.id = i
      BY <2>2 DEF Opened
    <3>2. h.refs \in Nat
      BY VolumeFields DEF Sound
    <3> QED
      BY <1>1, <3>1, <3>2, RefsAre
  <2> QED
    BY <2>1, <2>2
<1>2. CASE Opened(v, e.cat.id) = {}
  <2> DEFINE h == Fresh(e)
  <2>1. /\ Keeps(v, w) /\ w.rec = v.rec /\ w.files = v.files \cup {h}
        /\ Opened(w, e.cat.id) = {h}
        /\ \A i : RefsOf(w, i) = IF i = e.cat.id THEN 1 ELSE RefsOf(v, i)
    BY <1>2, OpenFresh
  <2>2. RefsOf(v, e.cat.id) = 0
    BY <1>1, <1>2, RefsAre
  <2>3. h.cat.id = e.cat.id /\ h.at = e.at
    BY DEF Fresh
  <2>4. ~Stale(w, h)
    BY <2>1, <2>3 DEF Stale, At, Same
  <2> HIDE DEF w, h
  <2>5. \A i : RefsOf(w, i) = RefsOf(v, i) + IF i = e.cat.id THEN 1 ELSE 0
    BY <1>a, <2>1, <2>2
  <2> QED
    BY <2>1, <2>3, <2>4, <2>5 DEF w, Ready
<1>3. CASE Opened(v, e.cat.id) # {}
  <2>1. PICK h \in v.files : h.cat.id = e.cat.id
    BY <1>3 DEF Opened
  <2>2. Opened(v, e.cat.id) = {h} /\ (CHOOSE x \in {h} : TRUE) = h
    BY <1>1, <2>1, OpenedIs
  <2>3. h \in AnOpenFile /\ h.refs \in Nat \ {0}
    BY VolumeFields DEF Sound
  <2> DEFINE n == h.refs + 1
             g == Refs(h, n)
  <2>4. w = Become(v, h, g)
    BY <2>2 DEF Open, Refs
  <2>5. n \in Nat \ {0}
    BY <2>3
  <2>6. /\ Keeps(v, w) /\ Swapped(v, w, h, g) /\ g \in AnOpenFile
        /\ g.cat = h.cat /\ g.at = h.at /\ g.fork = h.fork /\ g.dirty = h.dirty /\ g.refs = n
        /\ \A i : RefsOf(w, i) = IF i = h.cat.id THEN n ELSE RefsOf(v, i)
    <3> HIDE DEF n
    <3> QED
      BY <2>4, <2>5, RefsKeep
  <2>7. RefsOf(v, e.cat.id) = h.refs
    BY <1>1, <2>1, RefsAre
  <2> HIDE DEF w, g
  <2>8. \A i : RefsOf(w, i) = RefsOf(v, i) + IF i = e.cat.id THEN 1 ELSE 0
    BY <1>a, <2>1, <2>6, <2>7
  <2>9. Opened(w, e.cat.id) = {g}
    BY <2>1, <2>6, SwapLives
  <2>10. Stale(w, g) <=> Stale(v, h)
    BY <2>6, StaleByNames DEF Keeps
  <2>11. ASSUME Stale(v, h) PROVE ~h.dirty /\ Excess(h) = << >>
    BY <2>11 DEF MovedAndChanged
  <2>12. Sane(h.cat) /\ (~readonly => NoExcess(Other(h)))
    BY DEF Sound, Handled
  <2>13. Stale(v, h) => NoExcess(Fork(h))
    BY <2>3, <2>11, <2>12, TrimmedIs
  <2>14. Stale(v, h) => readonly \/ (NoExcess(h.cat.data) /\ NoExcess(h.cat.rsrc))
    BY <2>12, <2>13 DEF Fork, Other
  <2>15. g.refs > 1
    BY <2>3, <2>6
  <2>16. Ready(w, g)
    BY <2>6, <2>10, <2>11, <2>14, <2>15 DEF Ready, Swapped
  <2> QED
    BY <2>1, <2>6, <2>8, <2>9, <2>16 DEF w
<1> QED
  BY <1>2, <1>3

\* A file that may be closed: where it was opened its record still is, or
\* nothing has to be stored.
Closable(v, h) ==
  Stale(v, h) => ~h.dirty /\ (readonly \/ (NoExcess(h.cat.data) /\ NoExcess(h.cat.rsrc)))

\* The numbers of references are natural.
LEMMA RefsNat ==
  ASSUME NEW v, NEW ro, Sound(v, ro)
  PROVE  \A i : RefsOf(v, i) \in Nat
<1>1. \A g, h \in v.files : g.cat.id = h.cat.id => g = h
  BY DEF Sound, Handled
<1> TAKE i
<1>2. CASE Opened(v, i) = {}
  BY <1>1, <1>2, RefsAre
<1>3. CASE Opened(v, i) # {}
  <2>1. PICK h \in v.files : h.cat.id = i
    BY <1>3 DEF Opened
  <2>2. h.refs \in Nat
    BY VolumeFields DEF Sound
  <2> QED
    BY <1>1, <2>1, <2>2, RefsAre
<1> QED
  BY <1>2, <1>3

\* In w the open file h of v is g, with the given fork selected.
Selected(v, w, h, g, fork) ==
  /\ Opened(w, h.cat.id) = {g} /\ g \in w.files /\ g.cat.id = h.cat.id
  /\ g.fork = fork /\ g.refs = h.refs
  /\ Closable(w, g) /\ (Stale(w, g) <=> Stale(v, h))

\* hfs_setfork on a file that may be closed.
LEMMA SetForkReady ==
  ASSUME NEW v, Sound(v, readonly), NEW h \in v.files, Closable(v, h),
         NEW fork \in {"data", "rsrc"}
  PROVE  LET w == SetFork(v, h, fork)
         IN  /\ Keeps(v, w)
             /\ \E g : Selected(v, w, h, g, fork)
             /\ \A i : RefsOf(w, i) = RefsOf(v, i)
<1> DEFINE w == SetFork(v, h, fork)
<1>1. Keeps(v, w)
  BY SetForkKeeps
<1>2. PICK g : /\ Swapped(v, w, h, g) /\ g.fork = fork /\ g.at = h.at /\ g.refs = h.refs
               /\ g.dirty => h.dirty \/ (~readonly /\ Excess(h) # << >>)
               /\ readonly \/ (NoExcess(g.cat.data) /\ NoExcess(g.cat.rsrc))
  BY SetForkKeeps
<1> HIDE DEF w
<1>3. Opened(w, h.cat.id) = {g}
  BY <1>2, SwapLives
<1>4. Stale(w, g) <=> Stale(v, h)
  BY <1>1, <1>2, StaleByNames DEF Keeps, Swapped
<1>5. h \in AnOpenFile /\ Sane(h.cat)
  BY VolumeFields DEF Sound, Handled
<1>6. (NoExcess(h.cat.data) /\ NoExcess(h.cat.rsrc)) => Excess(h) = << >>
  <2>1. (NoExcess(h.cat.data) /\ NoExcess(h.cat.rsrc)) => NoExcess(Fork(h))
    BY DEF Fork
  <2> QED
    BY <1>5, <2>1, TrimmedIs
<1>7. Closable(w, g)
  BY <1>2, <1>4, <1>6 DEF Closable
<1>8. \A i : RefsOf(w, i) = RefsOf(v, i)
  <2>1. RefsOf(v, h.cat.id) = h.refs
    BY RefsAre DEF Sound, Handled
  <2> QED
    BY <1>2, <2>1, SwapRefs
<1>9. Selected(v, w, h, g, fork)
  BY <1>2, <1>3, <1>4, <1>7 DEF Selected, Swapped
<1> QED
  BY <1>1, <1>8, <1>9 DEF w

\* An open file that has been stored may be forgotten.
LEMMA DropKeeps ==
  ASSUME NEW v, Sound(v, readonly), NEW h \in v.files, ~h.dirty,
         readonly \/ NoExcess(h.cat.rsrc)
  PROVE  LET w == [v EXCEPT !.files = {x \in @ : x.cat.id # h.cat.id}]
         IN  /\ Keeps(v, w) /\ w.rec = v.rec /\ w.files = v.files \ {h}
             /\ \A i : RefsOf(w, i) = IF i = h.cat.id THEN 0 ELSE RefsOf(v, i)
<1> DEFINE F == v.files \ {h}
           w == [v EXCEPT !.files = {x \in @ : x.cat.id # h.cat.id}]
<1>1. v \in AVolume /\ \A g, f \in v.files : g.cat.id = f.cat.id => g = f
  BY DEF Sound, Handled
<1>2. {x \in v.files : x.cat.id # h.cat.id} = F
  BY <1>1
<1>3. w = [v EXCEPT !.files = F]
  BY <1>2
<1> HIDE DEF w
<1>4. F \subseteq AnOpenFile
  BY <1>1, VolumeFields
<1>5. /\ w \in AVolume /\ w.rec = v.rec /\ w.files = F /\ w.used = v.used
      /\ w.freeBks = v.freeBks /\ w.disk = v.disk /\ w.next = v.next
  <2> HIDE DEF F
  <2> QED
    BY <1>1, <1>3, <1>4 DEF AVolume
<1>6. \A i : Opened(w, i) = IF i = h.cat.id THEN {} ELSE Opened(v, i)
  BY <1>1, <1>5 DEF Opened
<1>7. PICK e \in v.rec : e.cat = h.cat
  BY DEF Sound, Handled, Backs
<1>8. Closed(w) = Closed(v) \cup {e}
  <2>1. \A f \in v.rec : f.cat.id = e.cat.id => f = e
    BY DEF Sound, Records
  <2> QED
    BY <1>5, <1>6, <1>7, <2>1 DEF Closed
<1>9. Lives(w) = Lives(v)
  BY <1>5, <1>7, <1>8 DEF Lives
<1>10. Handled(w, readonly)
  <2>1. \A f \in w.files : Sane(f.cat) /\ \E x \in w.rec : Backs(x, f)
    BY <1>5 DEF Sound, Handled
  <2>2. ~readonly => NoExcess(e.cat.rsrc)
    BY <1>7
  <2>3. \A f, g \in w.files : f.cat.id = g.cat.id => f = g
    BY <1>1, <1>5
  <2>4. /\ readonly => \A f \in w.files : ~f.dirty
        /\ ~readonly => /\ \A f \in w.files : NoExcess(Other(f))
                        /\ \A x \in Closed(w) : NoExcess(x.cat.rsrc)
    BY <1>5, <1>8, <2>2 DEF Sound, Handled
  <2> QED
    BY <2>1, <2>3, <2>4 DEF Handled
<1>11. Sound(w, readonly)
  BY <1>5, <1>9, <1>10 DEF Sound, Records, Space
<1>12. \A ws : Shows(v, ws) => Shows(w, ws)
  BY <1>5, <1>9 DEF Shows, Named
<1>13. Keeps(v, w)
  BY <1>5, <1>11, <1>12 DEF Keeps, NamesOf
<1>14. ASSUME NEW i PROVE RefsOf(w, i) = IF i = h.cat.id THEN 0 ELSE RefsOf(v, i)
  <2>1. CASE i = h.cat.id
    BY <1>6, <2>1 DEF RefsOf
  <2>2. CASE i # h.cat.id
    <3>1. Opened(w, i) = Opened(v, i)
      BY <1>6, <2>2
    <3>2. RefsOf(w, i) = RefsOf(v, i)
      BY ONLY <3>1 DEF RefsOf
    <3> QED
      BY <2>2, <3>2
  <2> QED
    BY <2>1, <2>2
<1> QED
  BY <1>5, <1>13, <1>14 DEF w

\* hfs_close
LEMMA CloseKeeps ==
  ASSUME NEW v, Sound(v, readonly), NEW h \in v.files, h.refs > 1 \/ Closable(v, h)
  PROVE  LET w == Close(v, h)
         IN  /\ Keeps(v, w)
             /\ \A i : RefsOf(w, i) = RefsOf(v, i) - IF i = h.cat.id THEN 1 ELSE 0
             /\ \A f \in w.files : \E g \in v.files : g.cat.id = f.cat.id
<1> DEFINE w == Close(v, h)
<1>1. h \in AnOpenFile /\ h.refs \in Nat \ {0} /\ Sane(h.cat)
  BY VolumeFields DEF Sound, Handled
<1>2. \A i : RefsOf(v, i) \in Nat
  BY RefsNat
<1>3. RefsOf(v, h.cat.id) = h.refs
  BY RefsAre DEF Sound, Handled
<1>4. CASE h.refs > 1
  <2> DEFINE n == h.refs - 1
             g == Refs(h, n)
  <2>1. w = Become(v, h, g)
    BY <1>4 DEF Close, Refs
  <2>2. n \in Nat \ {0}
    BY <1>1, <1>4
  <2>3. /\ Keeps(v, w) /\ Swapped(v, w, h, g) /\ g.cat = h.cat
        /\ \A i : RefsOf(w, i) = IF i = h.cat.id THEN n ELSE RefsOf(v, i)
    <3> HIDE DEF n
    <3> QED
      BY <2>1, <2>2, RefsKeep
  <2> HIDE DEF w, g
  <2>4. \A i : RefsOf(w, i) = RefsOf(v, i) - IF i = h.cat.id THEN 1 ELSE 0
    BY <1>1, <1>2, <1>3, <2>3
  <2>5. \A f \in w.files : \E x \in v.files : x.cat.id = f.cat.id
    BY <2>3 DEF Swapped
  <2> QED
    BY <2>3, <2>4, <2>5 DEF w
<1>5. CASE ~(h.refs > 1)
  <2> DEFINE u == Trunc(v, h)
             t == AfterTrunc(h)
             f == Flush(u, t)
  <2>1. h.refs = 1 /\ Closable(v, h)
    BY <1>1, <1>5
  <2>2. /\ Keeps(v, u) /\ Swapped(v, u, h, t)
        /\ t.at = h.at /\ t.refs = h.refs /\ t.fork = h.fork
        /\ t = h \/ (t.dirty /\ ~readonly /\ Excess(h) # << >>)
        /\ ~readonly => NoExcess(t.cat.data) /\ NoExcess(t.cat.rsrc)
    BY TruncKeeps
  <2>3. w = [f EXCEPT !.files = {x \in @ : x.cat.id # h.cat.id}]
    BY <2>1 DEF Close
  <2> HIDE DEF u, t
  <2>4. Sound(u, readonly) /\ t \in u.files /\ t \in AnOpenFile /\ t.cat.id = h.cat.id
    BY <2>2 DEF Keeps, Swapped
  <2>5. Stale(u, t) <=> Stale(v, h)
    BY <2>2, <2>4, StaleByNames DEF Keeps
  <2>6. ~Stale(u, t) \/ ~t.dirty
    <3>1. (NoExcess(h.cat.data) /\ NoExcess(h.cat.rsrc)) => NoExcess(Fork(h))
      BY DEF Fork
    <3>2. NoExcess(Fork(h)) => Excess(h) = << >>
      BY <1>1, TrimmedIs
    <3> QED
      BY <2>1, <2>2, <2>5, <3>1, <3>2 DEF Closable
  <2>7. /\ Keeps(u, f) /\ f.files = (u.files \ {t}) \cup {Clean(t)}
        /\ ~Clean(t).dirty /\ Clean(t).cat = t.cat /\ Clean(t).refs = t.refs
    BY <2>4, <2>6, FlushKeeps
  <2> DEFINE k == Clean(t)
  <2> HIDE DEF f, k
  <2>8. /\ Sound(f, readonly) /\ k \in f.files /\ ~k.dirty /\ k.cat = t.cat
        /\ k.cat.id = h.cat.id /\ k.refs = h.refs
        /\ readonly \/ NoExcess(k.cat.rsrc)
    BY <2>2, <2>4, <2>7 DEF Keeps, k
  <2>9. w = [f EXCEPT !.files = {x \in @ : x.cat.id # k.cat.id}]
    BY <2>3, <2>8
  <2> HIDE DEF w
  <2>10. /\ Keeps(f, w) /\ w.files = f.files \ {k}
         /\ \A i : RefsOf(w, i) = IF i = k.cat.id THEN 0 ELSE RefsOf(f, i)
    BY <2>8, <2>9, DropKeeps
  <2>11. Keeps(v, w)
    BY <2>2, <2>7, <2>10, KeepsTwice
  <2>12. f.files \ {k} = v.files \ {h}
    <3>1. k \notin u.files \ {t}
      BY <2>4, <2>8 DEF Sound, Handled
    <3>2. t \notin v.files \ {h}
      BY <2>2 DEF Sound, Handled, Swapped
    <3> QED
      BY <2>2, <2>7, <3>1, <3>2 DEF Swapped, k
  <2>13. ASSUME NEW i, i # h.cat.id PROVE RefsOf(w, i) = RefsOf(v, i)
    <3>1. Opened(w, i) = Opened(v, i)
      BY <2>10, <2>12, <2>13 DEF Opened
    <3> QED
      BY ONLY <3>1 DEF RefsOf
  <2>14. RefsOf(w, h.cat.id) = 0
    BY <2>8, <2>10
  <2>15. \A i : RefsOf(w, i) = RefsOf(v, i) - IF i = h.cat.id THEN 1 ELSE 0
    BY <1>2, <1>3, <2>1, <2>13, <2>14
  <2> QED
    BY <2>10, <2>11, <2>12, <2>15 DEF w
<1> QED
  BY <1>4, <1>5

-----------------------------------------------------------------------------
(***************************************************************************)
(* What is read of a fork.                                                 *)
(***************************************************************************)
Data == Val \cup {Hole}

\* What is read of a fork is a sequence.
LEMMA ShownIs ==
  ASSUME NEW d \in [Block -> Data], NEW f \in AFork, f.len <= Len(f.blocks)
  PROVE  /\ Shown(d, f) \in Seq(Data) /\ Len(Shown(d, f)) = f.len
         /\ \A i \in 1..f.len : Shown(d, f)[i] = d[f.blocks[i]] /\ f.blocks[i] \in Range(f.blocks)
<1> DEFINE n == f.len
<1>1. n \in Nat /\ f.blocks \in Seq(Block) /\ n <= Len(f.blocks)
  BY FuseAssumption DEF AFork
<1>2. \A i \in 1..n : i \in 1..Len(f.blocks)
  BY <1>1, LenProperties
<1>3. DOMAIN f.blocks = 1..Len(f.blocks) /\ \A i \in 1..Len(f.blocks) : f.blocks[i] \in Block
  BY <1>1, LenProperties
<1>4. \A i \in 1..n : f.blocks[i] \in Block /\ f.blocks[i] \in Range(f.blocks)
  BY <1>2, <1>3 DEF Range
<1>5. Shown(d, f) = [i \in 1..n |-> d[f.blocks[i]]]
  BY DEF Shown
<1> HIDE DEF n
<1>6. Shown(d, f) \in [1..n -> Data]
  BY <1>4, <1>5
<1>7. Shown(d, f) \in Seq(Data) /\ Len(Shown(d, f)) = n
  BY <1>1, <1>6, SeqDef, LenProperties
<1> QED
  BY <1>4, <1>5, <1>7 DEF n

\* Padded appends holes.
LEMMA PaddedIs ==
  ASSUME NEW s \in Seq(Data), NEW n \in Nat, n >= Len(s)
  PROVE  /\ Padded(s, n) \in Seq(Data) /\ Len(Padded(s, n)) = n
         /\ \A i \in 1..Len(s) : Padded(s, n)[i] = s[i]
<1> DEFINE m == n - Len(s)
           t == [i \in 1..m |-> Hole]
<1>1. Len(s) \in Nat /\ m \in Nat
  BY LenProperties
<1>2. Padded(s, n) = s \o t
  BY DEF Padded
<1>3. t \in Seq(Data) /\ Len(t) = m
  <2> HIDE DEF m
  <2>1. t \in [1..m -> Data]
    BY DEF Data
  <2> QED
    BY <1>1, <2>1, SeqDef, LenProperties
<1> HIDE DEF t
<1>4. /\ s \o t \in Seq(Data) /\ Len(s \o t) = Len(s) + Len(t)
      /\ \A i \in 1..Len(s) + Len(t) : (s \o t)[i] = IF i <= Len(s) THEN s[i] ELSE t[i - Len(s)]
  BY <1>3, ConcatProperties
<1>5. Len(s) + Len(t) = n
  BY <1>1, <1>3
<1>6. \A i \in 1..Len(s) : i \in 1..n /\ i <= Len(s)
  BY <1>1
<1> QED
  BY <1>2, <1>4, <1>5, <1>6

\* A write at or before the end.
LEMMA PutIs ==
  ASSUME NEW s \in Seq(Data), NEW n \in 0..Len(s), NEW x \in Data
  PROVE  /\ Put(s, n, x) \in Seq(Data)
         /\ Len(Put(s, n, x)) = IF Len(s) > n THEN Len(s) ELSE n + 1
         /\ \A i \in 1..Len(Put(s, n, x)) : Put(s, n, x)[i] = IF i = n + 1 THEN x ELSE s[i]
<1> DEFINE m == IF Len(s) > n THEN Len(s) ELSE n + 1
           p == Padded(s, m)
<1>1. Len(s) \in Nat /\ n \in Nat /\ n <= Len(s) /\ m \in Nat /\ m >= Len(s) /\ n + 1 \in 1..m
  BY LenProperties
<1>2. Put(s, n, x) = [p EXCEPT ![n + 1] = x]
  <2>1. (IF n < Len(s) THEN Len(s) ELSE n + 1) = m
    BY <1>1
  <2> QED
    BY <2>1 DEF Put
<1> HIDE DEF m
<1>3. p \in Seq(Data) /\ Len(p) = m /\ \A i \in 1..Len(s) : p[i] = s[i]
  BY <1>1, PaddedIs
<1> HIDE DEF p
<1>4. /\ [p EXCEPT ![n + 1] = x] \in Seq(Data) /\ Len([p EXCEPT ![n + 1] = x]) = Len(p)
      /\ \A j \in 1..Len(p) : [p EXCEPT ![n + 1] = x][j] = IF j = n + 1 THEN x ELSE p[j]
  <2>1. n + 1 \in 1..Len(p)
    BY <1>1, <1>3
  <2> QED
    BY <1>3, <2>1, ExceptSeq
<1>5. \A i \in 1..m : i # n + 1 => i \in 1..Len(s)
  BY <1>1 DEF m
<1> QED
  BY <1>2, <1>3, <1>4, <1>5 DEF m

\* A cut at or before the end.
LEMMA CutToIs ==
  ASSUME NEW s \in Seq(Data), NEW n \in 0..Len(s)
  PROVE  /\ CutTo(s, n) \in Seq(Data) /\ Len(CutTo(s, n)) = n
         /\ \A i \in 1..n : CutTo(s, n)[i] = s[i]
<1>1. Len(s) \in Nat /\ n \in Nat /\ n <= Len(s) /\ \A i \in 1..Len(s) : s[i] \in Data
  BY LenProperties
<1>2. CASE n < Len(s)
  <2>1. \A i \in 1..n : s[i] \in Data
    BY <1>1
  <2>2. /\ SubSeq(s, 1, n) \in Seq(Data)
        /\ Len(SubSeq(s, 1, n)) = IF 1 <= n THEN n - 1 + 1 ELSE 0
        /\ \A i \in 1..n - 1 + 1 : SubSeq(s, 1, n)[i] = s[1 + i - 1]
    BY <1>1, <2>1, SubSeqProperties
  <2>3. \A i \in 1..n : 1 + i - 1 = i /\ i \in 1..n - 1 + 1
    BY <1>1
  <2>4. Len(SubSeq(s, 1, n)) = n /\ \A i \in 1..n : SubSeq(s, 1, n)[i] = s[i]
    BY <1>1, <2>2, <2>3
  <2>5. CutTo(s, n) = SubSeq(s, 1, n)
    BY <1>2 DEF CutTo
  <2> QED
    BY <2>2, <2>4, <2>5
<1>3. CASE n = Len(s)
  <2>1. CutTo(s, n) = Padded(s, n)
    BY <1>1, <1>3 DEF CutTo
  <2> QED
    BY <1>1, <1>3, <2>1, PaddedIs
<1> QED
  BY <1>1, <1>2, <1>3

\* What the users see after a write to a fork, and after a cut.
After(s, fork, t) == IF fork = "data" THEN [s EXCEPT !.data = t] ELSE [s EXCEPT !.rsrc = t]
SeenFork(s, fork) == IF fork = "data" THEN s.data ELSE s.rsrc

\* Only the fork that was changed is seen to differ.
LEMMA AfterIs ==
  ASSUME NEW s \in AView, NEW fork \in {"data", "rsrc"}, NEW t \in Seq(Data)
  PROVE  LET y == After(s, fork, t)
         IN  /\ y \in AView /\ y.id = s.id /\ y.path = s.path /\ y.info = s.info
             /\ fork = "data" => y.data = t /\ y.rsrc = s.rsrc
             /\ fork # "data" => y.rsrc = t /\ y.data = s.data
  BY DEF After, AView, Data

\* A swap that changes what is read of the current fork.
LEMMA SwapChanges ==
  ASSUME NEW v, Sound(v, readonly), NEW w, NEW h, NEW g, Swapped(v, w, h, g),
         g.fork = h.fork, Sane(g.cat),
         \A b \in v.used \ BlocksOf(h.cat) : w.disk[b] = v.disk[b],
         Shown(w.disk, Other(g)) = Shown(v.disk, Other(h)),
         Shown(w.disk, Fork(g)) \in Seq(Data),
         NEW ws, Shows(v, ws), NEW s \in ws, s.id = h.cat.id
  PROVE  Shows(w, (ws \ {s}) \cup {After(s, h.fork, Shown(w.disk, Fork(g)))})
<1> DEFINE t == Shown(w.disk, Fork(g))
           y == After(s, h.fork, t)
<1>1. s \in AView /\ h.fork \in {"data", "rsrc"} /\ t \in Seq(Data)
  BY VolumeFields DEF Shows, Swapped, AnOpenFile, Sound
<1>2. /\ y \in AView /\ y.id = s.id /\ y.path = s.path /\ y.info = s.info
      /\ h.fork = "data" => y.data = t /\ y.rsrc = s.rsrc
      /\ h.fork # "data" => y.rsrc = t /\ y.data = s.data
  <2> HIDE DEF t
  <2> QED
    BY <1>1, AfterIs
<1>3. Matches(v.disk, h.cat, s)
  BY LivesAre, SeenMatches DEF Swapped
<1> HIDE DEF y
<1>4. Matches(w.disk, g.cat, y)
  <2>1. CASE h.fork = "data"
    BY <1>2, <1>3, <2>1 DEF Matches, Fork, Other, Swapped
  <2>2. CASE h.fork # "data"
    BY <1>2, <1>3, <2>2 DEF Matches, Fork, Other, Swapped
  <2> QED
    BY <2>1, <2>2
<1>5. Shows(w, (ws \ {s}) \cup {y})
  BY <1>2, <1>4, SwapShows
<1> QED
  BY <1>5 DEF y

-----------------------------------------------------------------------------
(***************************************************************************)
(* hfs_write and hfs_truncate.                                             *)
(***************************************************************************)
\* How a file h changes to g in volumes v and w: new contents t of its fork,
\* which are to be stored.
Changes(v, w, h, g, t) ==
  /\ Sound(w, readonly) /\ Swapped(v, w, h, g) /\ g.dirty
  /\ g.at = h.at /\ g.refs = h.refs /\ g.fork = h.fork
  /\ \A ws : \A s \in ws : Shows(v, ws) /\ s.id = h.cat.id
               => Shows(w, (ws \ {s}) \cup {After(s, h.fork, t)})

\* hfs_write has put x at pos into the fork, with blocks b behind the others.
LEMMA WroteChanges ==
  ASSUME NEW v, Sound(v, readonly), ~readonly, NEW h \in v.files, NEW u,
         NEW pos \in Nat, pos <= Fork(h).len, pos + 1 <= MaxLen + MaxRsrc, NEW x \in Val,
         NEW b \in Seq(Block), IsInjective(b), Range(b) \cap v.used = {},
         pos < Len(Fork(h).blocks) + Len(b),
         Swapped(v, u, h, Wrote(h, pos, b)),
         u.disk = [v.disk EXCEPT ![(Fork(h).blocks \o b)[pos + 1]] = x],
         u.used = v.used \cup Range(b), u.freeBks = v.freeBks - Len(b)
  PROVE  Changes(v, u, h, Wrote(h, pos, b), Put(Shown(v.disk, Fork(h)), pos, x))
<1> DEFINE f == Fork(h)
           o == Other(h)
           g == Wrote(h, pos, b)
           len == IF f.len > pos THEN f.len ELSE pos + 1
           t == f.blocks \o b
           k == [len |-> len, blocks |-> t]
           old == Shown(v.disk, f)
           new == Shown(u.disk, k)
           c == t[pos + 1]
<1>1. /\ v \in AVolume /\ h \in AnOpenFile /\ Sane(h.cat) /\ BlocksOf(h.cat) \subseteq v.used
      /\ NoExcess(o) /\ v.used \subseteq Block /\ v.disk \in [Block -> Data]
      /\ v.freeBks = Cardinality(Block \ v.used)
  BY LivesAre, VolumeFields DEF Sound, Handled, Space, Data
<1>2. /\ f \in AFork /\ o \in AFork /\ f.len \in Nat /\ f.blocks \in Seq(Block)
      /\ f.len \in 0..MaxLen + MaxRsrc /\ o.blocks \in Seq(Block)
  BY <1>1, ForkTypes DEF AFork
<1>3. /\ f.len <= Len(f.blocks) /\ IsInjective(f.blocks) /\ Whole(o)
      /\ Range(f.blocks) \cap Range(o.blocks) = {}
      /\ BlocksOf(h.cat) = Range(f.blocks) \cup Range(o.blocks)
  BY <1>1, ForkSane DEF Whole
<1>4. Len(f.blocks) \in Nat /\ Len(b) \in Nat /\ Range(b) \subseteq Block
  BY <1>2, LenProperties, RangeOfSeq
<1>5. /\ t \in Seq(Block) /\ Len(t) = Len(f.blocks) + Len(b)
      /\ \A i \in 1..Len(f.blocks) + Len(b) :
           t[i] = IF i <= Len(f.blocks) THEN f.blocks[i] ELSE b[i - Len(f.blocks)]
  BY <1>2, ConcatProperties
<1>6. Range(t) = Range(f.blocks) \cup Range(b) /\ IsInjective(t)
  BY <1>1, <1>2, <1>3, InjectiveConcat
<1>7. len \in 0..MaxLen + MaxRsrc /\ len <= Len(t) /\ len \in Nat /\ pos + 1 \in 1..len /\ f.len <= len
  BY <1>2, <1>3, <1>4, <1>5, FuseAssumption
<1> HIDE DEF t, len
<1>8. k \in AFork /\ k.len = len /\ k.blocks = t
  BY <1>5, <1>7 DEF AFork
<1>9. g = WithFork(h, k)
  BY DEF Wrote, t, len
<1> HIDE DEF k, g
<1>10. /\ g \in AnOpenFile /\ g.dirty /\ g.at = h.at /\ g.refs = h.refs /\ g.fork = h.fork
       /\ g.cat.id = h.cat.id /\ g.cat.info = h.cat.info
       /\ Fork(g) = k /\ Other(g) = o
  BY <1>1, <1>8, <1>9, ForkChanged
<1>11. Whole(k)
  BY <1>6, <1>7, <1>8 DEF Whole
<1>12. /\ Sane(g.cat) <=> Whole(k) /\ Whole(o) /\ Range(t) \cap Range(o.blocks) = {}
       /\ BlocksOf(g.cat) = Range(t) \cup Range(o.blocks)
  BY <1>8, <1>10, ForkSane
<1>13. Sane(g.cat) /\ BlocksOf(g.cat) = BlocksOf(h.cat) \cup Range(b)
  BY <1>1, <1>3, <1>6, <1>11, <1>12
<1>14. u.freeBks = Cardinality(Block \ u.used)
  <2>1. Cardinality(Range(b)) = Len(b)
    BY InjectiveCount
  <2>2. Cardinality(Block \ (v.used \cup Range(b))) = Cardinality(Block \ v.used) - Cardinality(Range(b))
    BY <1>1, <1>4, FreeCount
  <2> QED
    BY <1>1, <2>1, <2>2
<1>15. Fits(v, u, readonly, h, g)
  BY <1>1, <1>10, <1>13, <1>14 DEF Fits
<1>16. Swapped(v, u, h, g)
  BY DEF g
<1>17. Sound(u, readonly)
  BY <1>15, <1>16, SwapSound
<1>18. c \in Range(t) /\ c \in Block /\ pos + 1 \in DOMAIN t
  BY <1>5, <1>7, LenProperties DEF Range
<1>19. /\ \A j \in Block : u.disk[j] = IF j = c THEN x ELSE v.disk[j]
       /\ u.disk \in [Block -> Data]
  <2>1. u.disk = [v.disk EXCEPT ![c] = x] /\ x \in Data
    BY DEF Data, t
  <2> HIDE DEF c
  <2> QED
    BY <1>1, <1>18, <2>1
<1>20. \A j \in v.used \ BlocksOf(h.cat) : u.disk[j] = v.disk[j]
  BY <1>1, <1>3, <1>6, <1>18, <1>19
<1>21. Shown(u.disk, o) = Shown(v.disk, o)
  <2>1. o.len <= Len(o.blocks)
    BY <1>3 DEF Whole
  <2>2. \A i \in 1..o.len : o.blocks[i] \in Range(o.blocks) /\ o.blocks[i] \in Block
    BY <1>1, <1>2, <2>1, ShownIs, RangeOfSeq
  <2>3. c \notin Range(o.blocks)
    BY <1>1, <1>3, <1>6, <1>18
  <2>4. \A i \in 1..o.len : u.disk[o.blocks[i]] = v.disk[o.blocks[i]]
    BY <1>19, <2>2, <2>3
  <2> QED
    BY <2>4 DEF Shown
<1>22. /\ old \in Seq(Data) /\ Len(old) = f.len
       /\ \A i \in 1..f.len : old[i] = v.disk[f.blocks[i]] /\ f.blocks[i] \in Range(f.blocks)
  BY <1>1, <1>2, <1>3, ShownIs
<1>23. /\ new \in Seq(Data) /\ Len(new) = len
       /\ \A i \in 1..len : new[i] = u.disk[t[i]] /\ t[i] \in Range(t)
  <2>1. k.len <= Len(k.blocks)
    BY <1>7, <1>8
  <2>2. /\ Shown(u.disk, k) \in Seq(Data) /\ Len(Shown(u.disk, k)) = k.len
        /\ \A i \in 1..k.len : Shown(u.disk, k)[i] = u.disk[k.blocks[i]]
                               /\ k.blocks[i] \in Range(k.blocks)
    BY <1>8, <1>19, <2>1, ShownIs
  <2> QED
    BY <1>8, <2>2
<1> DEFINE put == Put(old, pos, x)
<1> HIDE DEF old, new, c
<1>24. /\ put \in Seq(Data) /\ Len(put) = len
       /\ \A i \in 1..len : put[i] = IF i = pos + 1 THEN x ELSE old[i]
  <2>1. pos \in 0..Len(old) /\ x \in Data
    BY <1>2, <1>22 DEF Data
  <2>2. /\ put \in Seq(Data) /\ Len(put) = IF Len(old) > pos THEN Len(old) ELSE pos + 1
        /\ \A i \in 1..Len(put) : put[i] = IF i = pos + 1 THEN x ELSE old[i]
    BY <1>22, <2>1, PutIs
  <2> QED
    <3>1. Len(put) = len
      BY <1>22, <2>2 DEF len
    <3> HIDE DEF put
    <3> QED
      BY <2>2, <3>1
<1> HIDE DEF put
<1>25. ASSUME NEW i \in 1..len PROVE new[i] = put[i]
  <2>1. i \in DOMAIN t /\ t[i] \in Block
    BY <1>5, <1>7, LenProperties
  <2>2. CASE i = pos + 1
    BY <1>19, <1>23, <1>24, <2>1, <2>2 DEF c
  <2>3. CASE i # pos + 1
    <3>1. t[i] # c
      BY <1>6, <1>18, <2>1, <2>3 DEF IsInjective, c
    <3>2. i \in 1..f.len /\ i <= Len(f.blocks) /\ i \in 1..Len(f.blocks) + Len(b)
      <4>1. i \in Nat \ {0} /\ i <= len
        BY <1>7
      <4>2. i <= f.len
        BY <1>2, <4>1, <2>3 DEF len
      <4> QED
        BY <1>2, <1>3, <1>4, <4>1, <4>2
    <3>3. t[i] = f.blocks[i]
      BY <1>5, <3>2
    <3> QED
      <4>1. new[i] = v.disk[t[i]]
        BY <1>19, <1>23, <2>1, <3>1
      <4>2. put[i] = old[i] /\ old[i] = v.disk[f.blocks[i]]
        BY <1>22, <1>24, <2>3, <3>2
      <4> QED
        BY <3>3, <4>1, <4>2
  <2> QED
    BY <2>2, <2>3
<1>26. new = put
  BY <1>23, <1>24, <1>25, SeqEqual
<1>27. ASSUME NEW ws, NEW s \in ws, Shows(v, ws), s.id = h.cat.id
       PROVE  Shows(u, (ws \ {s}) \cup {After(s, h.fork, put)})
  <2>1. Shown(u.disk, Fork(g)) = put
    BY <1>10, <1>26 DEF new
  <2>2. Shown(u.disk, Other(g)) = Shown(v.disk, Other(h))
    BY <1>10, <1>21
  <2> QED
    BY <1>10, <1>13, <1>16, <1>20, <1>24, <1>27, <2>1, <2>2, SwapChanges
<1> QED
  BY <1>10, <1>16, <1>17, <1>27 DEF Changes, g, put, old

\* hfs_truncate has cut the fork.
LEMMA CutChanges ==
  ASSUME NEW v, Sound(v, readonly), ~readonly, NEW h \in v.files,
         NEW n \in Nat, n <= Fork(h).len
  PROVE  Changes(v, Become(v, h, Cut(h, n)), h, Cut(h, n), CutTo(Shown(v.disk, Fork(h)), n))
<1> DEFINE f == Fork(h)
           o == Other(h)
           g == Cut(h, n)
           k == [f EXCEPT !.len = n]
           u == Become(v, h, g)
           old == Shown(v.disk, f)
           new == Shown(v.disk, k)
<1>1. /\ v \in AVolume /\ h \in AnOpenFile /\ Sane(h.cat) /\ BlocksOf(h.cat) \subseteq v.used
      /\ NoExcess(o) /\ v.disk \in [Block -> Data]
      /\ v.freeBks = Cardinality(Block \ v.used)
  BY LivesAre, VolumeFields DEF Sound, Handled, Space, Data
<1>2. /\ f \in AFork /\ f.len \in Nat /\ f.len \in 0..MaxLen + MaxRsrc /\ f.blocks \in Seq(Block)
  BY <1>1, ForkTypes DEF AFork
<1>3. /\ Whole(f) /\ Whole(o) /\ Range(f.blocks) \cap Range(o.blocks) = {}
      /\ BlocksOf(h.cat) = Range(f.blocks) \cup Range(o.blocks)
  BY <1>1, ForkSane
<1>4. Len(f.blocks) \in Nat
  BY <1>2, LenProperties
<1>5. k \in AFork /\ k.len = n /\ k.blocks = f.blocks
  BY <1>2, FuseAssumption DEF AFork
<1>6. g = WithFork(h, k)
  BY DEF Cut
<1> HIDE DEF k, g
<1>7. /\ g \in AnOpenFile /\ g.dirty /\ g.at = h.at /\ g.refs = h.refs /\ g.fork = h.fork
      /\ g.cat.id = h.cat.id /\ g.cat.info = h.cat.info
      /\ Fork(g) = k /\ Other(g) = o
  BY <1>1, <1>5, <1>6, ForkChanged
<1>8. Whole(k)
  BY <1>2, <1>3, <1>4, <1>5 DEF Whole
<1>9. Sane(g.cat) /\ BlocksOf(g.cat) = BlocksOf(h.cat)
  BY <1>3, <1>5, <1>7, <1>8, ForkSane
<1>10. Swapped(v, u, h, g) /\ u.used = v.used /\ u.freeBks = v.freeBks /\ u.disk = v.disk
  BY <1>1, <1>7, BecomeSwaps
<1> HIDE DEF u
<1>11. Fits(v, u, readonly, h, g)
  BY <1>1, <1>7, <1>9, <1>10 DEF Fits
<1>12. Sound(u, readonly)
  BY <1>10, <1>11, SwapSound
<1>13. /\ old \in Seq(Data) /\ Len(old) = f.len
       /\ \A i \in 1..f.len : old[i] = v.disk[f.blocks[i]]
  BY <1>1, <1>2, <1>3, ShownIs DEF Whole
<1>14. /\ new \in Seq(Data) /\ Len(new) = n
       /\ \A i \in 1..n : new[i] = v.disk[f.blocks[i]]
  BY <1>1, <1>5, <1>8, ShownIs DEF Whole
<1> DEFINE cut == CutTo(old, n)
<1> HIDE DEF old, new
<1>15. cut \in Seq(Data) /\ Len(cut) = n /\ \A i \in 1..n : cut[i] = old[i]
  <2>1. n \in 0..Len(old)
    BY <1>2, <1>13
  <2> QED
    BY <1>13, <2>1, CutToIs
<1> HIDE DEF cut
<1>16. \A i \in 1..n : i \in 1..f.len
  BY <1>2
<1>17. new = cut
  BY <1>13, <1>14, <1>15, <1>16, SeqEqual
<1>18. ASSUME NEW ws, NEW s \in ws, Shows(v, ws), s.id = h.cat.id
       PROVE  Shows(u, (ws \ {s}) \cup {After(s, h.fork, cut)})
  <2>1. Shown(u.disk, Fork(g)) = cut
    BY <1>7, <1>10, <1>17 DEF new
  <2>2. Shown(u.disk, Other(g)) = Shown(v.disk, Other(h))
    BY <1>7, <1>10
  <2> QED
    BY <1>7, <1>9, <1>10, <1>15, <1>18, <2>1, <2>2, SwapChanges
<1> QED
  BY <1>7, <1>10, <1>12, <1>18 DEF Changes, g, cut, old, u

\* File i has new contents t in a fork; nothing else has changed for anybody.
Makes(v, w, i, fork, t) ==
  /\ Sound(w, readonly) /\ NamesOf(w) = NamesOf(v) /\ w.next = v.next
  /\ \A ws : \A s \in ws : Shows(v, ws) /\ s.id = i
               => Shows(w, (ws \ {s}) \cup {After(s, fork, t)})

\* A change that comes between calls which keep what is seen is the change of
\* them all.
LEMMA MakesAmong ==
  ASSUME NEW u, NEW v, NEW w, NEW x, NEW i, NEW fork, NEW t,
         Keeps(u, v), Makes(v, w, i, fork, t), Keeps(w, x)
  PROVE  Makes(u, x, i, fork, t)
  BY DEF Keeps, Makes

\* A changed file that still lies where it was opened is stored.
LEMMA Stores ==
  ASSUME NEW v, Sound(v, readonly), NEW u, NEW h, NEW g, NEW t, Changes(v, u, h, g, t), ~Stale(v, h)
  PROVE  LET w == Flush(u, g)
         IN  /\ Makes(v, w, h.cat.id, h.fork, t)
             /\ \E k \in w.files : Opened(w, h.cat.id) = {k} /\ k.cat.id = h.cat.id
                                   /\ k.refs = h.refs /\ Closable(w, k)
             /\ \A i : RefsOf(w, i) = RefsOf(v, i)
<1> DEFINE w == Flush(u, g)
           k == Clean(g)
<1>1. /\ Sound(u, readonly) /\ Swapped(v, u, h, g) /\ g \in u.files /\ g \in AnOpenFile
      /\ g.at = h.at /\ g.refs = h.refs /\ g.cat.id = h.cat.id /\ h \in v.files
  BY DEF Changes, Swapped
<1>2. NamesOf(u) = NamesOf(v) /\ u.next = v.next
  BY <1>1 DEF Swapped, NamesOf
<1>3. ~Stale(u, g)
  BY <1>1, <1>2, StaleByNames
<1>4. /\ Keeps(u, w) /\ w.files = (u.files \ {g}) \cup {k} /\ ~k.dirty /\ k.cat = g.cat
      /\ k.refs = g.refs
  BY <1>1, <1>3, FlushKeeps
<1> HIDE DEF w, k
<1>5. Makes(v, w, h.cat.id, h.fork, t)
  BY <1>2, <1>4 DEF Makes, Keeps, Changes
<1>6. \A i : Opened(w, i) = IF i = h.cat.id THEN {k} ELSE Opened(v, i)
  <2>1. \A f \in v.files \ {h} : f.cat.id # h.cat.id
    BY <1>1 DEF Sound, Handled
  <2>2. w.files = (v.files \ {h}) \cup {k}
    <3>1. g \notin v.files \ {h}
      BY <1>1, <2>1
    <3> QED
      BY <1>1, <1>4, <3>1 DEF Swapped
  <2> QED
    BY <1>1, <1>4, <2>1, <2>2 DEF Opened
<1>7. \A i : RefsOf(w, i) = RefsOf(v, i)
  <2> TAKE i
  <2>1. CASE i = h.cat.id
    <3>1. RefsOf(v, i) = h.refs
      BY <1>1, <2>1, RefsAre DEF Sound, Handled
    <3>2. (CHOOSE x \in {k} : TRUE) = k
      OBVIOUS
    <3>3. RefsOf(w, i) = k.refs
      BY <1>6, <2>1, <3>2 DEF RefsOf
    <3> QED
      BY <1>1, <1>4, <3>1, <3>3
  <2>2. CASE i # h.cat.id
    <3>1. Opened(w, i) = Opened(v, i)
      BY <1>6, <2>2
    <3> QED
      BY ONLY <3>1 DEF RefsOf
  <2> QED
    BY <2>1, <2>2
<1>8. k \in w.files /\ Opened(w, h.cat.id) = {k} /\ k.cat.id = h.cat.id /\ k.refs = h.refs
  BY <1>1, <1>4, <1>6
<1>9. Closable(w, k)
  <2>1. \E e \in w.rec : e.cat = k.cat
    BY <1>1, <1>3, <1>4, FlushKeeps DEF w
  <2>2. k.at = g.at
    BY <1>1, <1>3, FlushKeeps DEF k
  <2>3. ~Stale(w, k)
    BY <1>1, <1>3, <1>4, <2>2, StaleByNames DEF Keeps
  <2> QED
    BY <2>3 DEF Closable
<1> QED
  BY <1>5, <1>7, <1>8, <1>9 DEF w

\* One that has moved is not, or is stored over another file: the breach shows,
\* also when the file has a second user and one reference is given back.
LEMMA Tears ==
  ASSUME NEW u, Sound(u, readonly), NEW g \in u.files, g.dirty, Stale(u, g)
  PROVE  LET w == Flush(u, g)
         IN  /\ MovedAndChanged(w)
             /\ \E k : /\ Opened(w, g.cat.id) = {k} /\ k.refs = g.refs
                       /\ g.refs > 1 => MovedAndChanged(Close(w, k))
<1> DEFINE w == Flush(u, g)
<1>1. u \in AVolume /\ g \in AnOpenFile /\ ~readonly
  BY VolumeFields DEF Sound, Handled
<1>2. \A x, y \in u.files : x.cat.id = y.cat.id => x = y
  BY DEF Sound, Handled
<1>3. CASE At(u, g.at) = {}
  <2> DEFINE k == Refs(g, g.refs - 1)
             c == Become(u, g, k)
  <2>1. w = u
    BY <1>3 DEF Flush
  <2>2. MovedAndChanged(u)
    BY DEF MovedAndChanged
  <2>3. Opened(u, g.cat.id) = {g}
    BY <1>2, OpenedIs
  <2>4. g.refs > 1 => Close(u, g) = c
    BY DEF Close, Refs
  <2>5. k.at = g.at /\ k.cat = g.cat /\ k.dirty = g.dirty
    BY <1>1 DEF Refs, AnOpenFile
  <2> HIDE DEF k
  <2>6. k \in c.files /\ c.rec = u.rec
    BY <1>1 DEF Become, AVolume
  <2> HIDE DEF c
  <2>7. Stale(c, k)
    BY <2>5, <2>6 DEF Stale, At
  <2>8. MovedAndChanged(c)
    BY <2>5, <2>6, <2>7 DEF MovedAndChanged
  <2> QED
    BY <2>1, <2>2, <2>3, <2>4, <2>8
<1>4. CASE At(u, g.at) # {}
  <2>1. PICK e : e \in At(u, g.at) /\ (CHOOSE x \in At(u, g.at) : TRUE) = e
    BY <1>4
  <2> DEFINE f == [e EXCEPT !.cat = g.cat]
             R == (u.rec \ {e}) \cup {f}
             m == [u EXCEPT !.rec = R]
             k == Clean(g)
             b == Become(m, g, k)
             j == Refs(k, k.refs - 1)
             c == Become(b, k, j)
  <2>2. w = b
    BY <1>1, <1>4, <2>1 DEF Flush, Clean
  <2>3. PICK o \in u.rec : o.cat.id = g.cat.id
    BY DEF Sound, Handled, Backs
  <2>4. e \in u.rec /\ e.cat.id # g.cat.id /\ o # e
    BY <2>1, <2>3 DEF Stale, At
  <2>5. e \in ARecord /\ g.cat \in ACat
    BY <1>1, <2>4, VolumeFields
  <2>6. f.at = e.at /\ f.cat = g.cat
    BY <2>5 DEF ARecord
  <2>7. o.at # e.at
    BY <2>3, <2>4 DEF Sound, Records, Same
  <2>8. f # o /\ f.cat.id = o.cat.id
    BY <2>3, <2>6, <2>7
  <2> HIDE DEF f
  <2>9. k.at = g.at /\ k.cat = g.cat /\ k.refs = g.refs /\ k \in AnOpenFile
    BY <1>1 DEF Clean, AnOpenFile
  <2> HIDE DEF k
  <2>10. b.rec = R /\ b.files = (u.files \ {g}) \cup {k}
    <3> HIDE DEF R
    <3> QED
      BY <1>1 DEF Become, AVolume
  <2>11. c.rec = b.rec
    <3>1. c = [b EXCEPT !.files = (b.files \ {k}) \cup {j}]
      BY DEF Become
    <3>2. b = [[u EXCEPT !.rec = R] EXCEPT !.files = (u.files \ {g}) \cup {k}]
      <4> HIDE DEF R
      <4> QED
        BY <1>1 DEF Become, AVolume
    <3> HIDE DEF R, b, c, j
    <3>3. c.rec = b.rec
      BY <1>1, <3>1, <3>2 DEF AVolume
    <3> QED
      BY <3>3
  <2>12. k.refs > 1 => Close(b, k) = c
    <3> HIDE DEF b
    <3> QED
      BY DEF Close, Refs
  <2> HIDE DEF b, c
  <2>13. \A x \in {b, c} : MovedAndChanged(x)
    BY <2>4, <2>8, <2>10, <2>11 DEF MovedAndChanged
  <2>14. Opened(b, g.cat.id) = {k}
    BY <1>2, <2>9, <2>10 DEF Opened
  <2> HIDE DEF w
  <2>15. MovedAndChanged(w)
    BY <2>2, <2>13
  <2>16. Opened(w, g.cat.id) = {k} /\ k.refs = g.refs
    BY <2>2, <2>9, <2>14
  <2>17. g.refs > 1 => MovedAndChanged(Close(w, k))
    BY <2>2, <2>9, <2>12, <2>13
  <2> QED
    BY <2>15, <2>16, <2>17 DEF w
<1> QED
  BY <1>3, <1>4

\* The sequences that f_alloc may add.
LEMMA AllocsAre ==
  ASSUME NEW v, NEW bs \in Allocs(v), v.used \subseteq Block
  PROVE  /\ bs \in Seq(Block) /\ IsInjective(bs) /\ Range(bs) \cap v.used = {}
         /\ bs # << >> => Len(bs) \in Nat \ {0} /\ bs[1] \in Block \ v.used
<1> DEFINE free == Block \ v.used
<1>1. CASE bs = << >>
  BY <1>1, EmptySeq DEF IsInjective, Range
<1>2. CASE bs # << >>
  <2>1. PICK n \in 1..Clump : bs \in [1..n -> free] /\ IsInjective(bs)
    BY <1>2 DEF Allocs
  <2>2. n \in Nat /\ n > 0
    BY FuseAssumption
  <2>3. bs \in Seq(free) /\ Len(bs) = n
    BY <2>1, <2>2, SeqDef, LenProperties
  <2>4. bs \in Seq(Block) /\ Range(bs) \subseteq free
    BY <2>3, SeqMonotonic, RangeOfSeq
  <2> QED
    BY <2>1, <2>2, <2>3, <2>4
<1> QED
  BY <1>1, <1>2

\* No block for the unit that is to be written.
Full(h, pos, bs) == bs = << >> /\ pos = Len(Fork(h).blocks)

\* hfs_write
LEMMA WriteDoes ==
  ASSUME NEW v, Sound(v, readonly), ~readonly, NEW h \in v.files,
         NEW pos \in Nat, pos <= Fork(h).len, pos + 1 <= MaxLen + MaxRsrc, NEW x \in Val,
         NEW bs \in Allocs(v), ~Full(h, pos, bs)
  PROVE  \E u, g : /\ Changes(v, u, h, g, Put(Shown(v.disk, Fork(h)), pos, x))
                   /\ Write(v, h, pos, x, bs) = Flush(u, g)
<1> DEFINE s == Fork(h).blocks
<1>1. /\ v \in AVolume /\ h \in AnOpenFile /\ Sane(h.cat) /\ v.used \subseteq Block
      /\ v.disk \in [Block -> Data] /\ v.freeBks \in Int
  BY VolumeFields DEF Sound, Handled, Data
<1>2. s \in Seq(Block) /\ Len(s) \in Nat /\ Fork(h).len <= Len(s) /\ Fork(h).len \in Nat
  BY <1>1, ForkTypes, ForkSane, LenProperties DEF Whole
<1>3. x \in Data
  BY DEF Data
<1>4. CASE pos < Len(s)
  <2> DEFINE c == s[pos + 1]
             D == [v.disk EXCEPT ![c] = x]
             m == [v EXCEPT !.disk = D]
             g == Wrote(h, pos, << >>)
             u == Become(m, h, g)
  <2>1. Write(v, h, pos, x, bs) = Flush(u, g)
    BY <1>4 DEF Write
  <2>2. c \in Block
    <3>1. pos + 1 \in 1..Len(s)
      BY <1>2, <1>4
    <3> QED
      BY <1>2, <3>1, LenProperties
  <2>3. s \o << >> = s
    BY <1>2, ConcatEmptySeq
  <2> HIDE DEF s
  <2>4. D \in [Block -> Data]
    BY <1>1, <1>3
  <2> HIDE DEF c
  <2>5. /\ m \in AVolume /\ m.rec = v.rec /\ m.files = v.files /\ m.used = v.used
        /\ m.freeBks = v.freeBks /\ m.disk = D /\ m.next = v.next
    <3> HIDE DEF D
    <3> QED
      BY <1>1, <2>4 DEF AVolume, Data
  <2> HIDE DEF m
  <2>6. Range(<< >>) = {} /\ << >> \in Seq(Block) /\ Len(<< >>) = 0 /\ IsInjective(<< >>)
    BY EmptySeq DEF Range, IsInjective
  <2>7. /\ g \in AnOpenFile /\ g.cat.id = h.cat.id /\ g.cat.info = h.cat.info
    <3>1. [len |-> IF Fork(h).len > pos THEN Fork(h).len ELSE pos + 1, blocks |-> s] \in AFork
      BY <1>2, FuseAssumption, <1>1, ForkTypes DEF AFork
    <3> QED
      BY <1>1, <2>3, <3>1, ForkChanged DEF Wrote, s
  <2> HIDE DEF g
  <2>8. /\ Swapped(m, u, h, g) /\ u.used = v.used /\ u.freeBks = v.freeBks /\ u.disk = D
    BY <2>5, <2>7, BecomeSwaps
  <2> HIDE DEF u, D
  <2>9. Swapped(v, u, h, g)
    BY <2>5, <2>8 DEF Swapped
  <2>10. u.used = v.used \cup Range(<< >>) /\ u.freeBks = v.freeBks - Len(<< >>)
    BY <1>1, <2>6, <2>8
  <2>11. /\ u.disk = [v.disk EXCEPT ![(Fork(h).blocks \o << >>)[pos + 1]] = x]
         /\ pos < Len(Fork(h).blocks) + Len(<< >>)
    BY <1>2, <1>4, <2>3, <2>6, <2>8 DEF D, s, c
  <2>12. Range(<< >>) \cap v.used = {}
    BY <2>6
  <2>13. Changes(v, u, h, g, Put(Shown(v.disk, Fork(h)), pos, x))
    BY <2>6, <2>9, <2>10, <2>11, <2>12, WroteChanges DEF g
  <2> QED
    BY <2>1, <2>13
<1>5. CASE ~(pos < Len(s))
  <2>1. pos = Len(s) /\ pos + 1 = Len(s) + 1
    BY <1>2, <1>5
  <2>2. bs # << >>
    BY <2>1 DEF Full
  <2>3. /\ bs \in Seq(Block) /\ IsInjective(bs) /\ Range(bs) \cap v.used = {}
        /\ Len(bs) \in Nat \ {0} /\ bs[1] \in Block \ v.used
    BY <1>1, <2>2, AllocsAre
  <2> DEFINE c == bs[1]
             D == [v.disk EXCEPT ![c] = x]
             U == v.used \cup Range(bs)
             N == v.freeBks - Len(bs)
             m == [v EXCEPT !.disk = D, !.used = U, !.freeBks = N]
             g == Wrote(h, pos, bs)
             u == Become(m, h, g)
  <2>4. Write(v, h, pos, x, bs) = Flush(u, g)
    BY <1>5, <2>2 DEF Write
  <2>5. U \subseteq Block /\ N \in Int
    BY <1>1, <2>3, RangeOfSeq
  <2>6. D \in [Block -> Data]
    BY <1>1, <1>3
  <2>7. /\ m \in AVolume /\ m.rec = v.rec /\ m.files = v.files /\ m.used = U
        /\ m.freeBks = N /\ m.disk = D /\ m.next = v.next
    <3> HIDE DEF D, U, N
    <3> QED
      BY <1>1, <2>5, <2>6 DEF AVolume, Data
  <2> HIDE DEF m
  <2>8. /\ s \o bs \in Seq(Block) /\ (s \o bs)[pos + 1] = c
    <3>1. /\ s \o bs \in Seq(Block)
          /\ \A i \in 1..Len(s) + Len(bs) : (s \o bs)[i] = IF i <= Len(s) THEN s[i] ELSE bs[i - Len(s)]
      BY <1>2, <2>3, ConcatProperties
    <3>2. /\ pos + 1 \in 1..Len(s) + Len(bs) /\ ~(pos + 1 <= Len(s)) /\ pos + 1 - Len(s) = 1
      BY <1>2, <2>1, <2>3
    <3> HIDE DEF s
    <3> QED
      BY <3>1, <3>2
  <2>9. /\ g \in AnOpenFile /\ g.cat.id = h.cat.id /\ g.cat.info = h.cat.info
    <3>1. [len |-> IF Fork(h).len > pos THEN Fork(h).len ELSE pos + 1, blocks |-> s \o bs] \in AFork
      BY <1>2, <2>8, FuseAssumption, <1>1, ForkTypes DEF AFork
    <3> QED
      BY <1>1, <3>1, ForkChanged DEF Wrote
  <2> HIDE DEF g
  <2>10. /\ Swapped(m, u, h, g) /\ u.used = U /\ u.freeBks = N /\ u.disk = D
    BY <2>7, <2>9, BecomeSwaps
  <2> HIDE DEF u, D
  <2>11. Swapped(v, u, h, g)
    BY <2>5, <2>7, <2>10 DEF Swapped
  <2>12. /\ u.disk = [v.disk EXCEPT ![(Fork(h).blocks \o bs)[pos + 1]] = x]
         /\ pos < Len(Fork(h).blocks) + Len(bs)
    BY <1>2, <2>1, <2>3, <2>8, <2>10 DEF D
  <2>13. Changes(v, u, h, g, Put(Shown(v.disk, Fork(h)), pos, x))
    BY <2>3, <2>10, <2>11, <2>12, WroteChanges DEF g
  <2> QED
    BY <2>4, <2>13
<1> QED
  BY <1>4, <1>5

\* A write for which there is no block only marks the file as changed.
LEMMA FullWrite ==
  ASSUME NEW v, Sound(v, readonly), ~readonly, NEW h \in v.files, NEW pos, NEW x, NEW bs,
         Full(h, pos, bs)
  PROVE  LET w == Write(v, h, pos, x, bs)
         IN  /\ Keeps(v, w)
             /\ \E g : Swapped(v, w, h, g) /\ g.dirty /\ g.at = h.at /\ g.refs = h.refs
             /\ \A i : RefsOf(w, i) = RefsOf(v, i)
<1> DEFINE g == [h EXCEPT !.dirty = TRUE]
           w == Become(v, h, g)
<1>1. /\ v \in AVolume /\ h \in AnOpenFile /\ Sane(h.cat) /\ BlocksOf(h.cat) \subseteq v.used
      /\ NoExcess(Other(h)) /\ v.freeBks = Cardinality(Block \ v.used)
  BY LivesAre, VolumeFields DEF Sound, Handled, Space
<1>2. Write(v, h, pos, x, bs) = w
  <2>1. Len(Fork(h).blocks) \in Nat
    BY <1>1, ForkTypes, LenProperties
  <2>2. ~(pos < Len(Fork(h).blocks)) /\ bs = << >>
    BY <2>1 DEF Full
  <2> QED
    BY <2>2 DEF Write
<1>3. /\ g \in AnOpenFile /\ g.cat = h.cat /\ g.dirty /\ g.at = h.at /\ g.refs = h.refs
      /\ g.fork = h.fork
  BY <1>1 DEF AnOpenFile
<1> HIDE DEF g
<1>4. Swapped(v, w, h, g) /\ w.used = v.used /\ w.freeBks = v.freeBks /\ w.disk = v.disk
  BY <1>1, <1>3, BecomeSwaps
<1> HIDE DEF w
<1>5. Fits(v, w, readonly, h, g)
  BY <1>1, <1>3, <1>4 DEF Fits, Other
<1>6. Keeps(v, w)
  BY <1>3, <1>4, <1>5, SwapKeeps
<1>7. RefsOf(v, h.cat.id) = h.refs
  BY RefsAre DEF Sound, Handled
<1>8. \A i : RefsOf(w, i) = RefsOf(v, i)
  BY <1>3, <1>4, <1>7, SwapRefs
<1> QED
  BY <1>2, <1>3, <1>4, <1>6, <1>8

\* hfs_truncate to a length that the fork has or exceeds
LEMMA TruncateDoes ==
  ASSUME NEW v, Sound(v, readonly), ~readonly, NEW h \in v.files,
         NEW n \in Nat, n < Fork(h).len
  PROVE  \E u, g : /\ Changes(v, u, h, g, CutTo(Shown(v.disk, Fork(h)), n))
                   /\ Truncate(v, h, n) = Flush(u, g)
<1> DEFINE g == Cut(h, n)
           u == Become(v, h, g)
<1>1. h \in AnOpenFile /\ Fork(h).len \in Nat
  BY VolumeFields, ForkTypes DEF Sound
<1>2. n <= Fork(h).len /\ Fork(h).len > n
  BY <1>1
<1>3. Truncate(v, h, n) = Flush(u, g)
  BY <1>2 DEF Truncate
<1>4. Changes(v, u, h, g, CutTo(Shown(v.disk, Fork(h)), n))
  BY <1>2, CutChanges
<1> QED
  BY <1>3, <1>4

-----------------------------------------------------------------------------
(***************************************************************************)
(* Records: hfs_create, hfs_delete, hfs_rename, hfs_vsetattr.              *)
(***************************************************************************)
\* The open files are the same ones, as often.
LEMMA SameFiles ==
  ASSUME NEW v, NEW w, w.files = v.files
  PROVE  /\ \A i : Opened(w, i) = Opened(v, i)
         /\ \A i : RefsOf(w, i) = RefsOf(v, i)
<1>1. \A i : Opened(w, i) = Opened(v, i)
  BY DEF Opened
<1>2. ASSUME NEW i PROVE RefsOf(w, i) = RefsOf(v, i)
  <2>1. Opened(w, i) = Opened(v, i)
    BY <1>1
  <2> QED
    BY ONLY <2>1 DEF RefsOf
<1> QED
  BY <1>1, <1>2

\* The record that hfs_create makes, and what the user sees of it.
Born(v, p) == [at |-> p, cat |-> NewCat(v.next)]
Empty(v, p) == [id |-> v.next, path |-> p, data |-> << >>, rsrc |-> << >>, info |-> "plain"]

\* hfs_create: a record with an unused number, and no blocks.
LEMMA BornIs ==
  ASSUME NEW v \in AVolume, NEW p \in Path, v.next <= MaxId
  PROVE  LET e == Born(v, p)
             w == NewFile(v, p)
         IN  /\ e \in ARecord /\ e.at = p /\ e.cat.id = v.next /\ e.cat.info = "plain"
             /\ Sane(e.cat) /\ BlocksOf(e.cat) = {}
             /\ NoExcess(e.cat.data) /\ NoExcess(e.cat.rsrc)
             /\ \A d : Shown(d, e.cat.data) = << >> /\ Shown(d, e.cat.rsrc) = << >>
             /\ w \in AVolume /\ w.rec = v.rec \cup {e} /\ w.files = v.files /\ w.used = v.used
             /\ w.freeBks = v.freeBks /\ w.disk = v.disk /\ w.next = v.next + 1
<1> DEFINE e == Born(v, p)
           w == NewFile(v, p)
<1>1. NoFork.len = 0 /\ NoFork.blocks = << >>
  BY DEF NoFork
<1>2. NoFork \in AFork
  <2>1. 0 \in 0..MaxLen + MaxRsrc
    BY FuseAssumption
  <2> QED
    BY <2>1 DEF NoFork, AFork
<1>3. /\ e.at = p /\ e.cat.id = v.next /\ e.cat.info = "plain"
      /\ e.cat.data = NoFork /\ e.cat.rsrc = NoFork
  BY DEF Born, NewCat
<1>4. e \in ARecord
  <2>1. v.next \in 1..MaxId
    BY VolumeFields, FuseAssumption
  <2>2. NewCat(v.next) \in ACat
    BY <1>2, <2>1 DEF NewCat, ACat
  <2> QED
    BY <2>2 DEF Born, ARecord
<1>5. IsInjective(<< >>) /\ Range(<< >>) = {} /\ Len(<< >>) = 0
  BY DEF IsInjective, Range
<1>6. Sane(e.cat) /\ BlocksOf(e.cat) = {} /\ NoExcess(e.cat.data) /\ NoExcess(e.cat.rsrc)
  BY <1>1, <1>3, <1>5 DEF Sane, BlocksOf, NoExcess, Whole
<1>7. \A d : Shown(d, NoFork) = << >>
  BY <1>1 DEF Shown
<1>8. w = [v EXCEPT !.rec = v.rec \cup {e}, !.next = v.next + 1]
  BY DEF NewFile, Born
<1> HIDE DEF e, w
<1>9. v.rec \cup {e} \subseteq ARecord /\ v.next + 1 \in Nat \ {0}
  BY <1>4, VolumeFields
<1>10. /\ w \in AVolume /\ w.rec = v.rec \cup {e} /\ w.files = v.files /\ w.used = v.used
       /\ w.freeBks = v.freeBks /\ w.disk = v.disk /\ w.next = v.next + 1
  <2> DEFINE r == v.rec \cup {e}
             n == v.next + 1
  <2>1. w = [v EXCEPT !.rec = r, !.next = n] /\ r \subseteq ARecord /\ n \in Nat \ {0}
    BY <1>8, <1>9
  <2> HIDE DEF r, n
  <2>2. /\ w \in AVolume /\ w.rec = r /\ w.files = v.files /\ w.used = v.used
        /\ w.freeBks = v.freeBks /\ w.disk = v.disk /\ w.next = n
    BY <2>1 DEF AVolume
  <2> QED
    BY <2>2 DEF r, n
<1> QED
  BY <1>3, <1>4, <1>6, <1>7, <1>10 DEF e, w

\* hfs_create
LEMMA NewFileKeeps ==
  ASSUME NEW v, Sound(v, readonly), NEW p \in Path, At(v, p) = {}, v.next <= MaxId
  PROVE  LET w == NewFile(v, p)
             e == Born(v, p)
         IN  /\ Sound(w, readonly) /\ e \in w.rec /\ At(w, p) = {e} /\ w.files = v.files
             /\ ~MovedAndChanged(v) => ~MovedAndChanged(w)
             /\ \A ws : Shows(v, ws) => Shows(w, ws \cup {Empty(v, p)})
<1> DEFINE w == NewFile(v, p)
           e == Born(v, p)
           x == Empty(v, p)
<1>1. /\ e \in ARecord /\ e.at = p /\ e.cat.id = v.next /\ e.cat.info = "plain"
      /\ Sane(e.cat) /\ BlocksOf(e.cat) = {}
      /\ NoExcess(e.cat.data) /\ NoExcess(e.cat.rsrc)
      /\ \A d : Shown(d, e.cat.data) = << >> /\ Shown(d, e.cat.rsrc) = << >>
      /\ w \in AVolume /\ w.rec = v.rec \cup {e} /\ w.files = v.files /\ w.used = v.used
      /\ w.freeBks = v.freeBks /\ w.disk = v.disk /\ w.next = v.next + 1
  BY BornIs DEF Sound
<1>2. /\ x.id = v.next /\ x.path = p /\ x.data = << >> /\ x.rsrc = << >> /\ x.info = "plain"
      /\ x \in AView
  <2>1. v.next \in 1..MaxId
    BY VolumeFields, FuseAssumption DEF Sound
  <2>2. << >> \in Seq(Val \cup {Hole})
    OBVIOUS
  <2> QED
    BY <2>1, <2>2 DEF Empty, AView
<1> HIDE DEF w, e, x
<1>3. v.next \in Nat /\ \A f \in v.rec : f.cat.id \in Nat /\ f.cat.id < v.next
  <2>1. \A f \in v.rec : f.cat \in ACat
    BY VolumeFields DEF Sound
  <2> QED
    BY <2>1, VolumeFields, FuseAssumption DEF Sound, Records, ACat
<1>4. \A f \in v.rec : ~Same(f.at, p) /\ ~Same(p, f.at) /\ f.cat.id # v.next
  BY <1>3 DEF At, Same
<1>5. Records(w)
  <2>1. IsFiniteSet(w.rec)
    <3>1. IsFiniteSet(v.rec)
      BY DEF Sound, Records
    <3> QED
      BY <1>1, <3>1, FS_AddElement
  <2>2. w.next <= MaxId + 1
    BY <1>1, <1>3, FuseAssumption
  <2>3. \A f \in w.rec : f.cat.id < w.next /\ Sane(f.cat)
    BY <1>1, <1>3 DEF Sound, Records
  <2>4. \A f, g \in w.rec : Same(f.at, g.at) \/ f.cat.id = g.cat.id => f = g
    BY <1>1, <1>4 DEF Sound, Records
  <2> QED
    BY <2>1, <2>2, <2>3, <2>4 DEF Records
<1>6. \A i : Opened(w, i) = Opened(v, i)
  BY <1>1, SameFiles
<1>7. Opened(v, v.next) = {}
  <2>1. \A h \in v.files : \E f \in v.rec : f.cat.id = h.cat.id
    BY DEF Sound, Handled, Backs
  <2> QED
    BY <1>4, <2>1 DEF Opened
<1>8. Closed(w) = Closed(v) \cup {e}
  BY <1>1, <1>6, <1>7 DEF Closed
<1>9. Lives(w) = Lives(v) \cup {e.cat}
  BY <1>1, <1>8 DEF Lives
<1>10. Handled(w, readonly)
  <2>1. \A h \in w.files : Sane(h.cat) /\ \E f \in w.rec : Backs(f, h)
    BY <1>1 DEF Sound, Handled
  <2> QED
    BY <1>1, <1>8, <2>1 DEF Sound, Handled
<1>11. Space(w)
  <2>1. \A j, k \in Lives(w) : j # k => BlocksOf(j) \cap BlocksOf(k) = {}
    BY <1>1, <1>9 DEF Sound, Space
  <2>2. w.used = UNION {BlocksOf(k) : k \in Lives(w)}
    <3>1. \A b : b \in v.used <=> \E k \in Lives(v) : b \in BlocksOf(k)
      BY DEF Sound, Space
    <3>2. \A b : b \in w.used <=> \E k \in Lives(w) : b \in BlocksOf(k)
      BY <1>1, <1>9, <3>1
    <3> QED
      BY <3>2
  <2> QED
    BY <1>1, <2>1, <2>2 DEF Sound, Space
<1>12. Sound(w, readonly)
  BY <1>1, <1>5, <1>10, <1>11 DEF Sound
<1>13. At(w, p) = {e}
  <2>1. Same(p, p)
    BY DEF Same
  <2> QED
    BY <1>1, <1>4, <2>1 DEF At
<1>14. ASSUME ~MovedAndChanged(v) PROVE ~MovedAndChanged(w)
  <2>1. \A h \in w.files : Stale(w, h) => Stale(v, h)
    BY <1>1 DEF Stale, At
  <2>2. \A f, g \in w.rec : f.cat.id = g.cat.id => f = g
    BY <1>5 DEF Records
  <2> QED
    BY <1>1, <1>14, <2>1, <2>2 DEF MovedAndChanged
<1>15. ASSUME NEW ws, Shows(v, ws) PROVE Shows(w, ws \cup {x})
  <2>1. \A y \in ws : \E f \in v.rec : f.cat.id = y.id
    BY <1>15 DEF Shows, Named
  <2>2. \A y \in ws : y.id # x.id
    BY <1>2, <1>4, <2>1
  <2>3. Matches(w.disk, e.cat, x)
    BY <1>1, <1>2 DEF Matches
  <2>4. Named(w, x)
    BY <1>1, <1>2 DEF Named
  <2>5. \A y \in ws : Named(w, y) /\ \E k \in Lives(w) : Matches(w.disk, k, y)
    BY <1>1, <1>9, <1>15 DEF Shows, Named
  <2>6. \A f \in w.rec : \E y \in ws \cup {x} : y.id = f.cat.id
    BY <1>1, <1>2, <1>15 DEF Shows
  <2>7. \A y, z \in ws \cup {x} : y.id = z.id => y = z
    BY <1>15, <2>2 DEF Shows
  <2>8. ws \cup {x} \subseteq AView
    BY <1>2, <1>15 DEF Shows
  <2>9. \A y \in ws \cup {x} : Named(w, y) /\ \E k \in Lives(w) : Matches(w.disk, k, y)
    BY <1>9, <2>3, <2>4, <2>5
  <2> QED
    BY <2>6, <2>7, <2>8, <2>9 DEF Shows
<1>16. e \in w.rec /\ w.files = v.files
  BY <1>1
<1> QED
  BY <1>12, <1>13, <1>14, <1>15, <1>16 DEF w, e, x

\* Only the records change.
LEMMA RecordsChange ==
  ASSUME NEW v \in AVolume, NEW R \in SUBSET ARecord
  PROVE  LET w == [v EXCEPT !.rec = R]
         IN  /\ w \in AVolume /\ w.rec = R /\ w.files = v.files /\ w.used = v.used
             /\ w.freeBks = v.freeBks /\ w.disk = v.disk /\ w.next = v.next
  BY DEF AVolume

\* hfs_delete of a file that is not open.
LEMMA DeleteKeeps ==
  ASSUME NEW v, Sound(v, readonly), NEW e \in Closed(v)
  PROVE  LET w == Delete(v, e)
         IN  /\ Sound(w, readonly) /\ w.rec = v.rec \ {e} /\ w.files = v.files
             /\ \A q : At(w, q) = At(v, q) \ {e}
             /\ ~MovedAndChanged(v) => ~MovedAndChanged(w)
             /\ \A ws : Shows(v, ws) => Shows(w, {x \in ws : x.id # e.cat.id})
<1> DEFINE k == e.cat
           s == k.data.blocks \o k.rsrc.blocks
           R == v.rec \ {e}
           u == [v EXCEPT !.rec = R]
           w == Delete(v, e)
<1>1. e \in v.rec /\ Opened(v, k.id) = {} /\ k \in Lives(v) /\ k \in ACat /\ Sane(k)
  BY LivesAre DEF Closed
<1>2. v \in AVolume
  BY DEF Sound
<1>3. k.data.blocks \in Seq(Block) /\ k.rsrc.blocks \in Seq(Block)
  BY <1>1 DEF ACat, AFork
<1>4. s \in Seq(Block) /\ IsInjective(s) /\ Range(s) = BlocksOf(k)
  <2>1. IsInjective(k.data.blocks) /\ IsInjective(k.rsrc.blocks)
        /\ Range(k.data.blocks) \cap Range(k.rsrc.blocks) = {}
    BY <1>1 DEF Sane, Whole
  <2> QED
    BY <1>3, <2>1, InjectiveConcat DEF BlocksOf
<1>5. R \in SUBSET ARecord
  BY <1>2, VolumeFields
<1>6. w = Freed(u, s)
  BY DEF Delete
<1>7. Cardinality(BlocksOf(k)) = Len(s)
  BY <1>4, InjectiveCount
<1> HIDE DEF s, u, w
<1>8. /\ u \in AVolume /\ u.rec = R /\ u.files = v.files /\ u.used = v.used
      /\ u.freeBks = v.freeBks /\ u.disk = v.disk /\ u.next = v.next
  BY <1>2, <1>5, RecordsChange DEF u
<1>9. /\ w \in AVolume /\ w.rec = R /\ w.files = v.files /\ w.used = v.used \ BlocksOf(k)
      /\ w.freeBks = v.freeBks + Len(s) /\ w.disk = v.disk /\ w.next = v.next
  BY <1>4, <1>6, <1>8, FreedFields
<1>10. \A f \in v.rec : f.cat.id = k.id => f = e
  BY <1>1 DEF Sound, Records
<1>11. Records(w)
  <2>1. IsFiniteSet(w.rec)
    <3>1. IsFiniteSet(v.rec)
      BY DEF Sound, Records
    <3> QED
      BY <1>9, <3>1, FS_Subset
  <2> QED
    BY <1>9, <2>1 DEF Sound, Records
<1>12. \A i : Opened(w, i) = Opened(v, i)
  BY <1>9, SameFiles
<1>13. Closed(w) = Closed(v) \ {e}
  BY <1>9, <1>12 DEF Closed
<1>14. Lives(w) = Lives(v) \ {k}
  <2>1. \A h \in v.files : h.cat # k
    BY <1>1 DEF Opened
  <2>2. \A f \in Closed(v) \ {e} : f.cat # k
    BY <1>10 DEF Closed
  <2> QED
    BY <1>9, <1>13, <2>1, <2>2 DEF Lives
<1>15. Handled(w, readonly)
  <2>1. \A h \in v.files : h.cat.id # k.id
    BY <1>1 DEF Opened
  <2>2. \A h \in w.files : \E f \in w.rec : Backs(f, h)
    <3> TAKE h \in w.files
    <3>1. PICK f \in v.rec : Backs(f, h)
      BY <1>9 DEF Sound, Handled
    <3>2. f # e
      BY <1>9, <2>1, <3>1 DEF Backs
    <3> QED
      BY <1>9, <3>1, <3>2
  <2> QED
    BY <1>9, <1>13, <2>2 DEF Sound, Handled
<1>16. Space(w)
  <2>1. \A i, j \in Lives(v) : i # j => BlocksOf(i) \cap BlocksOf(j) = {}
    BY DEF Sound, Space
  <2>2. \A b : b \in v.used <=> \E j \in Lives(v) : b \in BlocksOf(j)
    BY DEF Sound, Space
  <2>3. \A b : b \in w.used <=> \E j \in Lives(w) : b \in BlocksOf(j)
    BY <1>1, <1>9, <1>14, <2>1, <2>2
  <2>4. w.used = UNION {BlocksOf(j) : j \in Lives(w)}
    BY <2>3
  <2>5. w.freeBks = Cardinality(Block \ w.used)
    <3>1. BlocksOf(k) \subseteq v.used /\ v.used \in SUBSET Block
      BY <1>1, <1>2, LivesAre, VolumeFields
    <3>2. Cardinality(Block \ (v.used \ BlocksOf(k)))
            = Cardinality(Block \ v.used) + Cardinality(BlocksOf(k))
      BY <3>1, FreeCount
    <3> QED
      BY <1>7, <1>9, <3>2 DEF Sound, Space
  <2> QED
    BY <1>14, <2>1, <2>4, <2>5 DEF Space
<1>17. Sound(w, readonly)
  BY <1>9, <1>11, <1>15, <1>16 DEF Sound
<1>18. \A q : At(w, q) = At(v, q) \ {e}
  BY <1>9 DEF At
<1>19. ASSUME ~MovedAndChanged(v) PROVE ~MovedAndChanged(w)
  <2>1. \A h \in w.files : Stale(w, h) => Stale(v, h)
    <3>1. \A h \in w.files : h.cat.id # k.id
      BY <1>1, <1>9 DEF Opened
    <3> QED
      BY <1>18, <3>1 DEF Stale
  <2>2. \A f, g \in w.rec : f.cat.id = g.cat.id => f = g
    BY <1>11 DEF Records
  <2> QED
    BY <1>9, <1>19, <2>1, <2>2 DEF MovedAndChanged
<1>20. ASSUME NEW ws, Shows(v, ws) PROVE Shows(w, {x \in ws : x.id # k.id})
  <2> DEFINE xs == {x \in ws : x.id # k.id}
  <2>1. \A x \in xs : Named(w, x) /\ \E j \in Lives(w) : Matches(w.disk, j, x)
    <3> TAKE x \in xs
    <3>1. Named(w, x)
      BY <1>9, <1>20 DEF Shows, Named
    <3>2. PICK j \in Lives(v) : Matches(v.disk, j, x)
      BY <1>20 DEF Shows
    <3> QED
      BY <1>9, <1>14, <3>1, <3>2 DEF Matches
  <2>2. \A f \in w.rec : \E x \in xs : x.id = f.cat.id
    <3>1. \A f \in w.rec : f.cat.id # k.id
      BY <1>9, <1>10
    <3> QED
      BY <1>9, <1>20, <3>1 DEF Shows
  <2>3. xs \subseteq AView /\ \A x, y \in xs : x.id = y.id => x = y
    BY <1>20 DEF Shows
  <2> HIDE DEF xs
  <2>4. Shows(w, xs)
    BY <2>1, <2>2, <2>3 DEF Shows
  <2> QED
    BY <2>4 DEF xs
<1> QED
  BY <1>9, <1>17, <1>18, <1>19, <1>20 DEF w

\* One record replaced by another of the same file.
Rerecorded(v, w, e, f) ==
  /\ e \in v.rec /\ f \in ARecord /\ f.cat.id = e.cat.id
  /\ w \in AVolume /\ w.rec = (v.rec \ {e}) \cup {f} /\ w.files = v.files /\ w.used = v.used
  /\ w.freeBks = v.freeBks /\ w.disk = v.disk /\ w.next = v.next
  /\ f.cat.data = e.cat.data /\ f.cat.rsrc = e.cat.rsrc
  /\ f.cat.info = e.cat.info \/ Opened(v, e.cat.id) = {}
  /\ \A g \in v.rec \ {e} : ~Same(g.at, f.at)

\* It keeps the volume sound, and what is seen, with the new path and Finder
\* information.
LEMMA RerecordedKeeps ==
  ASSUME NEW v, Sound(v, readonly), NEW w, NEW e, NEW f, Rerecorded(v, w, e, f)
  PROVE  /\ Sound(w, readonly)
         /\ \A ws : \A x \in ws : Shows(v, ws) /\ x.id = e.cat.id
              => \A y \in AView : y.id = x.id /\ y.path = f.at /\ y.info = f.cat.info
                                  /\ y.data = x.data /\ y.rsrc = x.rsrc
                   => Shows(w, (ws \ {x}) \cup {y})
<1>1. /\ e \in v.rec /\ f \in ARecord /\ f.cat.id = e.cat.id
      /\ w \in AVolume /\ w.rec = (v.rec \ {e}) \cup {f} /\ w.files = v.files /\ w.used = v.used
      /\ w.freeBks = v.freeBks /\ w.disk = v.disk /\ w.next = v.next
      /\ f.cat.data = e.cat.data /\ f.cat.rsrc = e.cat.rsrc
      /\ f.cat.info = e.cat.info \/ Opened(v, e.cat.id) = {}
      /\ \A g \in v.rec \ {e} : ~Same(g.at, f.at)
  BY DEF Rerecorded
<1>2. \A i : Opened(w, i) = Opened(v, i)
  BY <1>1, SameFiles
<1>3. e.cat \in ACat /\ f.cat \in ACat
  BY <1>1, VolumeFields DEF Sound, ARecord
<1>4. Opened(v, e.cat.id) # {} => f.cat = e.cat
  BY <1>1, <1>3 DEF ACat
<1>5. BlocksOf(f.cat) = BlocksOf(e.cat) /\ (Sane(f.cat) <=> Sane(e.cat))
  BY <1>1 DEF BlocksOf, Sane
<1>6. \A g \in v.rec \ {e} : g.cat.id # f.cat.id /\ ~Same(f.at, g.at)
  BY <1>1 DEF Sound, Records, Same
<1>7. Records(w)
  <2>1. IsFiniteSet(w.rec)
    <3>1. IsFiniteSet(v.rec)
      BY DEF Sound, Records
    <3>2. IsFiniteSet(v.rec \ {e})
      BY <3>1, FS_Subset
    <3> QED
      BY <1>1, <3>2, FS_AddElement
  <2>2. \A g \in w.rec : g.cat.id < w.next /\ Sane(g.cat)
    BY <1>1, <1>5 DEF Sound, Records
  <2>3. \A g, j \in w.rec : Same(g.at, j.at) \/ g.cat.id = j.cat.id => g = j
    BY <1>1, <1>6 DEF Sound, Records
  <2> QED
    BY <1>1, <2>1, <2>2, <2>3 DEF Sound, Records
<1>8. CASE Opened(v, e.cat.id) # {}
  <2>1. f.cat = e.cat
    BY <1>4, <1>8
  <2>2. Closed(w) = Closed(v)
    <3>1. e \notin Closed(v) /\ \A g \in v.rec \ {e} : g \in Closed(v) => g # f
      BY <1>6, <1>8 DEF Closed
    <3>2. \A g : g \in Closed(w) <=> g \in Closed(v)
      BY <1>1, <1>2, <1>8, <3>1 DEF Closed
    <3> QED
      BY <3>2
  <2>3. Lives(w) = Lives(v)
    BY <1>1, <2>2 DEF Lives
  <2>4. Handled(w, readonly)
    <3>1. \A h \in w.files : \E g \in w.rec : Backs(g, h)
      <4> TAKE h \in w.files
      <4>1. PICK g \in v.rec : Backs(g, h)
        BY <1>1 DEF Sound, Handled
      <4>2. Backs(f, h) <=> Backs(e, h)
        BY <2>1 DEF Backs
      <4> QED
        BY <1>1, <4>1, <4>2
    <3> QED
      BY <1>1, <2>2, <3>1 DEF Sound, Handled
  <2>5. Space(w)
    BY <1>1, <2>3 DEF Sound, Space
  <2>6. Sound(w, readonly)
    BY <1>1, <1>7, <2>4, <2>5 DEF Sound
  <2>7. ASSUME NEW ws, NEW x \in ws, Shows(v, ws), x.id = e.cat.id, NEW y \in AView,
               y.id = x.id, y.path = f.at, y.info = f.cat.info,
               y.data = x.data, y.rsrc = x.rsrc
        PROVE  \E j \in Lives(w) : Matches(w.disk, j, y)
    BY <1>1, <2>3, <2>7 DEF Shows, Matches
  <2>8. ASSUME NEW ws, NEW x \in ws, Shows(v, ws), x.id = e.cat.id, NEW y \in AView,
               y.id = x.id, y.path = f.at, y.info = f.cat.info,
               y.data = x.data, y.rsrc = x.rsrc
        PROVE  Shows(w, (ws \ {x}) \cup {y})
    <3>1. \A z \in ws \ {x} : z.id # e.cat.id
      BY <2>8 DEF Shows
    <3>2. \A z \in ws \ {x} : Named(w, z) /\ \E j \in Lives(w) : Matches(w.disk, j, z)
      BY <1>1, <2>3, <2>8, <3>1 DEF Shows, Named
    <3>3. Named(w, y)
      BY <1>1, <2>8 DEF Named
    <3>4. \A g \in w.rec : \E z \in (ws \ {x}) \cup {y} : z.id = g.cat.id
      BY <1>1, <2>8 DEF Shows
    <3>5. \A z \in (ws \ {x}) \cup {y} : Named(w, z) /\ \E j \in Lives(w) : Matches(w.disk, j, z)
      BY <2>7, <2>8, <3>2, <3>3
    <3>6. (ws \ {x}) \cup {y} \subseteq AView
          /\ \A z, a \in (ws \ {x}) \cup {y} : z.id = a.id => z = a
      BY <2>8, <3>1 DEF Shows
    <3> QED
      BY <3>4, <3>5, <3>6 DEF Shows
  <2> QED
    BY <2>6, <2>8
<1>9. CASE Opened(v, e.cat.id) = {}
  <2>1. Closed(w) = (Closed(v) \ {e}) \cup {f}
    BY <1>1, <1>2, <1>9 DEF Closed
  <2>2. \A h \in v.files : h.cat.id # e.cat.id
    BY <1>9 DEF Opened
  <2>3. e \in Closed(v) /\ e.cat \in Lives(v)
    BY <1>1, <1>9 DEF Closed, Lives
  <2>4. Lives(w) = (Lives(v) \ {e.cat}) \cup {f.cat}
    <3>1. \A g \in Closed(v) \ {e} : g.cat # e.cat
      BY <1>1, <1>6 DEF Closed
    <3> QED
      BY <1>1, <2>1, <2>2, <3>1 DEF Lives
  <2>5. Handled(w, readonly)
    <3>1. \A h \in w.files : \E g \in w.rec : Backs(g, h)
      <4> TAKE h \in w.files
      <4>1. PICK g \in v.rec : Backs(g, h)
        BY <1>1 DEF Sound, Handled
      <4>2. g # e
        BY <1>1, <2>2, <4>1 DEF Backs
      <4> QED
        BY <1>1, <4>1, <4>2
    <3>2. ~readonly => NoExcess(f.cat.rsrc)
      BY <1>1, <2>3 DEF Sound, Handled
    <3> QED
      BY <1>1, <2>1, <3>1, <3>2 DEF Sound, Handled
  <2>6. Space(w)
    <3>1. \A i, j \in Lives(v) : i # j => BlocksOf(i) \cap BlocksOf(j) = {}
      BY DEF Sound, Space
    <3>2. \A i, j \in Lives(w) : i # j => BlocksOf(i) \cap BlocksOf(j) = {}
      BY <1>5, <2>3, <2>4, <3>1
    <3>3. \A b : b \in v.used <=> \E j \in Lives(v) : b \in BlocksOf(j)
      BY DEF Sound, Space
    <3>4. \A b : b \in w.used <=> \E j \in Lives(w) : b \in BlocksOf(j)
      BY <1>1, <1>5, <2>3, <2>4, <3>3
    <3>5. w.used = UNION {BlocksOf(j) : j \in Lives(w)}
      BY <3>4
    <3> QED
      BY <1>1, <3>2, <3>5 DEF Sound, Space
  <2>7. Sound(w, readonly)
    BY <1>1, <1>7, <2>5, <2>6 DEF Sound
  <2>8. ASSUME NEW ws, NEW x \in ws, Shows(v, ws), x.id = e.cat.id, NEW y \in AView,
               y.id = x.id, y.path = f.at, y.info = f.cat.info,
               y.data = x.data, y.rsrc = x.rsrc
        PROVE  Shows(w, (ws \ {x}) \cup {y})
    <3>1. \A z \in ws \ {x} : z.id # e.cat.id
      BY <2>8 DEF Shows
    <3>2. \A z \in ws \ {x} : Named(w, z) /\ \E j \in Lives(w) : Matches(w.disk, j, z)
      <4> TAKE z \in ws \ {x}
      <4>1. Named(w, z)
        BY <1>1, <2>8, <3>1 DEF Shows, Named
      <4>2. PICK j \in Lives(v) : Matches(v.disk, j, z)
        BY <2>8 DEF Shows
      <4>3. j # e.cat
        BY <3>1, <4>2 DEF Matches
      <4> QED
        BY <1>1, <2>4, <4>1, <4>2, <4>3
    <3>3. Named(w, y)
      BY <1>1, <2>8 DEF Named
    <3>4. Matches(w.disk, f.cat, y)
      <4>1. Matches(v.disk, e.cat, x)
        BY <2>3, <2>8, SeenMatches
      <4> QED
        BY <1>1, <2>8, <4>1 DEF Matches
    <3>5. \A g \in w.rec : \E z \in (ws \ {x}) \cup {y} : z.id = g.cat.id
      BY <1>1, <2>8 DEF Shows
    <3>6. \A z \in (ws \ {x}) \cup {y} : Named(w, z) /\ \E j \in Lives(w) : Matches(w.disk, j, z)
      BY <2>4, <3>2, <3>3, <3>4
    <3>7. (ws \ {x}) \cup {y} \subseteq AView
          /\ \A z, a \in (ws \ {x}) \cup {y} : z.id = a.id => z = a
      BY <2>8, <3>1 DEF Shows
    <3> QED
      BY <3>5, <3>6, <3>7 DEF Shows
  <2> QED
    BY <2>7, <2>8
<1> QED
  BY <1>8, <1>9

\* Blessing a folder changes no file.
LEMMA BlessKeeps ==
  ASSUME NEW v, Sound(v, readonly), NEW p \in Path
  PROVE  LET w == Bless(v, p)
         IN  /\ Sound(w, readonly) /\ w.rec = v.rec /\ w.files = v.files
             /\ \A ws : Shows(v, ws) => Shows(w, ws)
<1> DEFINE w == Bless(v, p)
<1>1. CASE w = v
  BY <1>1
<1>2. CASE w = [v EXCEPT !.blessed = p.dir]
  <2>1. p.dir \in Folder \cup {0}
    BY DEF Path
  <2>2. /\ w \in AVolume /\ w.rec = v.rec /\ w.files = v.files /\ w.used = v.used
        /\ w.freeBks = v.freeBks /\ w.disk = v.disk /\ w.next = v.next
    <3> DEFINE b == p.dir
    <3>1. b \in Folder \cup {0} /\ w = [v EXCEPT !.blessed = b] /\ v \in AVolume
      BY <1>2, <2>1 DEF Sound
    <3> HIDE DEF b, w
    <3> QED
      BY <3>1 DEF AVolume
  <2> HIDE DEF w
  <2>3. \A i : Opened(w, i) = Opened(v, i)
    BY <2>2, SameFiles
  <2>4. Closed(w) = Closed(v)
    BY <2>2, <2>3 DEF Closed
  <2>5. Lives(w) = Lives(v)
    BY <2>2, <2>4 DEF Lives
  <2>6. Sound(w, readonly)
    <3>1. Records(w)
      BY <2>2 DEF Sound, Records
    <3>2. Handled(w, readonly)
      BY <2>2, <2>4 DEF Sound, Handled
    <3>3. Space(w)
      BY <2>2, <2>5 DEF Sound, Space
    <3> QED
      BY <2>2, <3>1, <3>2, <3>3 DEF Sound
  <2>7. \A ws : Shows(v, ws) => Shows(w, ws)
    BY <2>2, <2>5 DEF Shows, Named
  <2> QED
    BY <2>2, <2>6, <2>7 DEF w
<1> QED
  BY <1>1, <1>2 DEF Bless

\* One path leads to one record; what the user sees there is what leads there.
LEMMA OnePath ==
  ASSUME NEW v, NEW ro, Sound(v, ro), NEW p, NEW e \in At(v, p)
  PROVE  /\ e \in v.rec /\ At(v, p) = {e} /\ (CHOOSE x \in At(v, p) : TRUE) = e
         /\ \A ws : Shows(v, ws) => \A x \in ws : Same(x.path, p) <=> x.id = e.cat.id
<1>1. e \in v.rec /\ Same(e.at, p)
  BY DEF At
<1>2. \A f, g \in v.rec : Same(f.at, g.at) \/ f.cat.id = g.cat.id => f = g
  BY DEF Sound, Records
<1>3. \A q, r : Same(q, p) /\ Same(r, p) => Same(q, r)
  BY DEF Same
<1>4. At(v, p) = {e}
  BY <1>1, <1>2, <1>3 DEF At
<1>5. (CHOOSE x \in At(v, p) : TRUE) = e
  BY <1>4
<1>6. ASSUME NEW ws, Shows(v, ws), NEW x \in ws PROVE Same(x.path, p) <=> x.id = e.cat.id
  <2>1. PICK f \in v.rec : f.at = x.path /\ f.cat.id = x.id
    BY <1>6 DEF Shows, Named
  <2> QED
    BY <1>1, <1>2, <1>3, <2>1
<1> QED
  BY <1>1, <1>4, <1>5, <1>6

\* hfs_rename of a file to a path that is free.
LEMMA MovedKeeps ==
  ASSUME NEW v, Sound(v, readonly), NEW p \in Path, NEW e \in At(v, p), NEW q \in Path,
         At(v, q) = {}
  PROVE  LET w == Moved(v, e, q)
         IN  /\ Sound(w, readonly) /\ w.files = v.files
             /\ \A ws : Shows(v, ws) => Shows(w, ViewMoved(ws, p, q))
<1> DEFINE f == [e EXCEPT !.at = q]
           R == (v.rec \ {e}) \cup {f}
           w == Moved(v, e, q)
<1>1. v \in AVolume /\ e \in v.rec /\ e \in ARecord
  BY VolumeFields DEF Sound, At
<1>2. f \in ARecord /\ f.at = q /\ f.cat = e.cat
  BY <1>1 DEF ARecord
<1>3. w = [v EXCEPT !.rec = R]
  BY DEF Moved
<1> HIDE DEF f, w
<1>4. R \in SUBSET ARecord
  BY <1>1, <1>2, VolumeFields
<1>5. \A g \in v.rec : ~Same(g.at, q)
  BY DEF At
<1>6. Rerecorded(v, w, e, f)
  <2>1. /\ w \in AVolume /\ w.rec = R /\ w.files = v.files /\ w.used = v.used
        /\ w.freeBks = v.freeBks /\ w.disk = v.disk /\ w.next = v.next
    BY <1>1, <1>3, <1>4, RecordsChange
  <2> QED
    BY <1>1, <1>2, <1>5, <2>1 DEF Rerecorded
<1>7. ASSUME NEW ws, Shows(v, ws) PROVE Shows(w, ViewMoved(ws, p, q))
  <2>1. PICK x \in ws : x.id = e.cat.id
    BY <1>1, <1>7 DEF Shows
  <2> DEFINE y == [x EXCEPT !.path = q]
  <2>2. x \in AView /\ \A z \in ws : z.id = x.id => z = x
    BY <1>7, <2>1 DEF Shows
  <2>3. /\ y \in AView /\ y.id = x.id /\ y.path = q /\ y.info = x.info
        /\ y.data = x.data /\ y.rsrc = x.rsrc
    BY <2>2 DEF AView
  <2>4. x.info = f.cat.info
    <3>1. PICK g \in v.rec : g.cat.id = x.id /\ g.cat.info = x.info
      BY <1>7 DEF Shows, Named
    <3>2. g = e
      BY <1>1, <2>1, <3>1 DEF Sound, Records
    <3> QED
      BY <1>2, <3>1, <3>2
  <2>5. \A z \in ws : Same(z.path, p) <=> z = x
    BY <1>7, <2>1, <2>2, OnePath
  <2>6. ViewMoved(ws, p, q) = (ws \ {x}) \cup {y}
    BY <2>1, <2>5 DEF ViewMoved
  <2> HIDE DEF y
  <2> QED
    BY <1>2, <1>6, <1>7, <2>1, <2>3, <2>4, <2>6, RerecordedKeeps
<1> QED
  BY <1>6, <1>7, RerecordedKeeps DEF Rerecorded, w

\* hfs_setattr of a file that is not open.
LEMMA FinderKeeps ==
  ASSUME NEW v, Sound(v, readonly), NEW e \in Closed(v), NEW info \in {"plain", "system"}
  PROVE  LET w == SetFinder(v, e, info)
         IN  /\ Sound(w, readonly) /\ w.files = v.files
             /\ \A ws : \A x \in ws : Shows(v, ws) /\ x.id = e.cat.id
                  => Shows(w, (ws \ {x}) \cup {[x EXCEPT !.info = info]})
<1> DEFINE f == [e EXCEPT !.cat.info = info]
           R == (v.rec \ {e}) \cup {f}
           w == SetFinder(v, e, info)
<1>1. v \in AVolume /\ e \in v.rec /\ e \in ARecord /\ Opened(v, e.cat.id) = {}
  BY VolumeFields DEF Sound, Closed
<1>2. /\ f \in ARecord /\ f.at = e.at /\ f.cat.info = info /\ f.cat.id = e.cat.id
      /\ f.cat.data = e.cat.data /\ f.cat.rsrc = e.cat.rsrc
  <2>1. e.cat \in ACat
    BY <1>1, VolumeFields
  <2> QED
    BY <1>1, <2>1 DEF ARecord, ACat
<1>3. w = [v EXCEPT !.rec = R]
  BY DEF SetFinder
<1> HIDE DEF f, w
<1>4. R \in SUBSET ARecord
  BY <1>1, <1>2, VolumeFields
<1>5. \A g \in v.rec \ {e} : ~Same(g.at, f.at)
  BY <1>1, <1>2 DEF Sound, Records
<1>6. Rerecorded(v, w, e, f)
  <2>1. /\ w \in AVolume /\ w.rec = R /\ w.files = v.files /\ w.used = v.used
        /\ w.freeBks = v.freeBks /\ w.disk = v.disk /\ w.next = v.next
    BY <1>1, <1>3, <1>4, RecordsChange
  <2> QED
    BY <1>1, <1>2, <1>5, <2>1 DEF Rerecorded
<1>7. ASSUME NEW ws, NEW x \in ws, Shows(v, ws), x.id = e.cat.id
      PROVE  Shows(w, (ws \ {x}) \cup {[x EXCEPT !.info = info]})
  <2> DEFINE y == [x EXCEPT !.info = info]
  <2>1. x \in AView
    BY <1>7 DEF Shows
  <2>2. /\ y \in AView /\ y.id = x.id /\ y.path = x.path /\ y.info = info
        /\ y.data = x.data /\ y.rsrc = x.rsrc
    BY <2>1 DEF AView
  <2>3. x.path = f.at
    <3>1. PICK g \in v.rec : g.at = x.path /\ g.cat.id = x.id
      BY <1>7 DEF Shows, Named
    <3>2. g = e
      BY <1>1, <1>7, <3>1 DEF Sound, Records
    <3> QED
      BY <1>2, <3>1, <3>2
  <2> HIDE DEF y
  <2>4. Shows(w, (ws \ {x}) \cup {y})
    BY <1>2, <1>6, <1>7, <2>2, <2>3, RerecordedKeeps
  <2> QED
    BY <2>4 DEF y
<1> QED
  BY <1>6, <1>7, RerecordedKeeps DEF Rerecorded, w

-----------------------------------------------------------------------------
(***************************************************************************)
(* A change, done or torn.                                                 *)
(***************************************************************************)
\* hfs_write or hfs_truncate on h: the file is stored with t in the fork,
\* under the handle k;
Done(v, w, h, k, t) ==
  /\ Makes(v, w, h.cat.id, h.fork, t)
  /\ k \in w.files /\ Opened(w, h.cat.id) = {k} /\ k.cat.id = h.cat.id
  /\ k.refs = h.refs /\ Closable(w, k)
  /\ \A i : RefsOf(w, i) = RefsOf(v, i)

\* or it has been moved and changed.
Torn(v, w, h, k) ==
  /\ Stale(v, h) /\ Opened(w, h.cat.id) = {k}
  /\ MovedAndChanged(w)
  /\ h.refs > 1 => MovedAndChanged(Close(w, k))

\* f_flush after a change either stores it, or finds that the record has moved.
LEMMA DoneOrTorn ==
  ASSUME NEW v, Sound(v, readonly), NEW u, NEW h, NEW g, NEW t, Changes(v, u, h, g, t)
  PROVE  LET w == Flush(u, g)
         IN  \E k : Done(v, w, h, k, t) \/ Torn(v, w, h, k)
<1> DEFINE w == Flush(u, g)
<1>1. CASE ~Stale(v, h)
  <2>1. h \in v.files
    BY DEF Changes, Swapped
  <2>2. /\ Makes(v, w, h.cat.id, h.fork, t)
        /\ \E k \in w.files : Opened(w, h.cat.id) = {k} /\ k.cat.id = h.cat.id
                              /\ k.refs = h.refs /\ Closable(w, k)
        /\ \A i : RefsOf(w, i) = RefsOf(v, i)
    BY <1>1, <2>1, Stores
  <2> HIDE DEF w
  <2>3. \E k : Done(v, w, h, k, t)
    BY <2>2 DEF Done
  <2> QED
    BY <2>3 DEF w
<1>2. CASE Stale(v, h)
  <2>1. /\ Sound(u, readonly) /\ g \in u.files /\ g.dirty /\ g.refs = h.refs
        /\ g.cat.id = h.cat.id /\ g.at = h.at /\ u.rec = v.rec
    BY DEF Changes, Swapped
  <2>2. Stale(u, g)
    BY <1>2, <2>1 DEF Stale, At
  <2>3. /\ MovedAndChanged(w)
        /\ \E k : /\ Opened(w, g.cat.id) = {k} /\ k.refs = g.refs
                  /\ g.refs > 1 => MovedAndChanged(Close(w, k))
    BY <2>1, <2>2, Tears
  <2> HIDE DEF w
  <2>4. \E k : Torn(v, w, h, k)
    BY <1>2, <2>1, <2>3 DEF Torn
  <2> QED
    BY <2>4 DEF w
<1> QED
  BY <1>1, <1>2

\* hfs_write of a unit for which there is room.
LEMMA WriteEither ==
  ASSUME NEW v, Sound(v, readonly), ~readonly, NEW h \in v.files,
         NEW pos \in Nat, pos <= Fork(h).len, pos + 1 <= MaxLen + MaxRsrc, NEW x \in Val,
         NEW bs \in Allocs(v), ~Full(h, pos, bs)
  PROVE  LET w == Write(v, h, pos, x, bs)
             t == Put(Shown(v.disk, Fork(h)), pos, x)
         IN  \E k : Done(v, w, h, k, t) \/ Torn(v, w, h, k)
<1> DEFINE t == Put(Shown(v.disk, Fork(h)), pos, x)
           w == Write(v, h, pos, x, bs)
<1>1. PICK u, g : Changes(v, u, h, g, t) /\ w = Flush(u, g)
  BY WriteDoes
<1> HIDE DEF t, w
<1>2. \E k : Done(v, w, h, k, t) \/ Torn(v, w, h, k)
  BY <1>1, DoneOrTorn
<1> QED
  BY <1>2 DEF t, w

\* A fork that is cut to its own length stays what it is.
LEMMA CutNothing ==
  ASSUME NEW v, Sound(v, readonly), NEW h \in v.files, NEW ws, Shows(v, ws),
         NEW s \in ws, s.id = h.cat.id
  PROVE  LET q == Shown(v.disk, Fork(h))
         IN  /\ q \in Seq(Data) /\ Len(q) = Fork(h).len
             /\ CutTo(q, Len(q)) = q /\ SeenFork(s, h.fork) = q /\ After(s, h.fork, q) = s
<1> DEFINE q == Shown(v.disk, Fork(h))
<1>1. /\ h \in AnOpenFile /\ h.cat \in Lives(v) /\ Sane(h.cat) /\ s \in AView
      /\ v.disk \in [Block -> Data]
  BY VolumeFields, LivesAre DEF Sound, Shows, Data
<1>2. Fork(h) \in AFork /\ Fork(h).len <= Len(Fork(h).blocks) /\ Fork(h).len \in Nat
  BY <1>1, ForkTypes, ForkSane DEF Whole
<1>3. q \in Seq(Data) /\ Len(q) = Fork(h).len
  BY <1>1, <1>2, ShownIs
<1>4. SeenFork(s, h.fork) = q
  <2>1. Matches(v.disk, h.cat, s)
    BY <1>1, SeenMatches
  <2> QED
    BY <2>1 DEF Matches, SeenFork, Fork
<1> HIDE DEF q
<1>5. CutTo(q, Len(q)) = q
  <2>1. Len(q) \in 0..Len(q)
    BY <1>2, <1>3
  <2>2. /\ CutTo(q, Len(q)) \in Seq(Data) /\ Len(CutTo(q, Len(q))) = Len(q)
        /\ \A i \in 1..Len(q) : CutTo(q, Len(q))[i] = q[i]
    BY <1>3, <2>1, CutToIs
  <2> QED
    BY <1>3, <2>2
<1>6. After(s, h.fork, q) = s
  BY <1>1, <1>4 DEF After, SeenFork, AView
<1> QED
  BY <1>3, <1>4, <1>5, <1>6 DEF q

\* f_flush of a file that may be closed.
LEMMA FlushReady ==
  ASSUME NEW v, Sound(v, readonly), NEW h \in v.files, Closable(v, h)
  PROVE  LET w == Flush(v, h)
             k == Clean(h)
         IN  /\ Keeps(v, w) /\ k \in w.files /\ Opened(w, h.cat.id) = {k}
             /\ k.cat.id = h.cat.id /\ k.refs = h.refs /\ Closable(w, k)
             /\ \A i : RefsOf(w, i) = RefsOf(v, i)
<1> DEFINE w == Flush(v, h)
           k == Clean(h)
<1>1. /\ Keeps(v, w) /\ w.files = (v.files \ {h}) \cup {k} /\ ~k.dirty /\ k.cat = h.cat
      /\ k.at = h.at /\ k.refs = h.refs
  BY FlushKeeps DEF Closable
<1> HIDE DEF w, k
<1>2. \A f \in v.files \ {h} : f.cat.id # h.cat.id
  BY DEF Sound, Handled
<1>3. \A i : Opened(w, i) = IF i = h.cat.id THEN {k} ELSE Opened(v, i)
  BY <1>1, <1>2 DEF Opened
<1>4. Stale(w, k) <=> Stale(v, h)
  BY <1>1, StaleByNames DEF Keeps
<1>5. Closable(w, k)
  BY <1>1, <1>4 DEF Closable
<1>6. \A i : RefsOf(w, i) = RefsOf(v, i)
  <2> TAKE i
  <2>1. CASE i = h.cat.id
    <3>1. RefsOf(v, i) = h.refs
      BY <2>1, RefsAre DEF Sound, Handled
    <3>2. (CHOOSE x \in {k} : TRUE) = k
      OBVIOUS
    <3>3. RefsOf(w, i) = k.refs
      BY <1>3, <2>1, <3>2 DEF RefsOf
    <3> QED
      BY <1>1, <3>1, <3>3
  <2>2. CASE i # h.cat.id
    <3>1. Opened(w, i) = Opened(v, i)
      BY <1>3, <2>2
    <3> QED
      BY ONLY <3>1 DEF RefsOf
  <2> QED
    BY <2>1, <2>2
<1> QED
  BY <1>1, <1>3, <1>5, <1>6 DEF w, k

\* hfs_truncate to a length that the fork has.
LEMMA TruncateEither ==
  ASSUME NEW v, Sound(v, readonly), ~readonly, NEW h \in v.files, Closable(v, h),
         NEW n \in Nat, n <= Fork(h).len
  PROVE  LET w == Truncate(v, h, n)
             t == CutTo(Shown(v.disk, Fork(h)), n)
         IN  \E k : Done(v, w, h, k, t) \/ Torn(v, w, h, k)
<1> DEFINE q == Shown(v.disk, Fork(h))
           t == CutTo(q, n)
           w == Truncate(v, h, n)
<1>1. Fork(h).len \in Nat
  BY ForkTypes, VolumeFields DEF Sound
<1>2. CASE n < Fork(h).len
  <2>1. PICK u, g : Changes(v, u, h, g, t) /\ w = Flush(u, g)
    BY <1>2, TruncateDoes
  <2> HIDE DEF t, w
  <2>2. \E k : Done(v, w, h, k, t) \/ Torn(v, w, h, k)
    BY <2>1, DoneOrTorn
  <2> QED
    BY <2>2 DEF t, w
<1>3. CASE n = Fork(h).len
  <2>1. w = Flush(v, h)
    BY <1>1, <1>3 DEF Truncate
  <2> DEFINE k == Clean(h)
  <2>2. /\ Keeps(v, w) /\ k \in w.files /\ Opened(w, h.cat.id) = {k}
        /\ k.cat.id = h.cat.id /\ k.refs = h.refs /\ Closable(w, k)
        /\ \A i : RefsOf(w, i) = RefsOf(v, i)
    BY <2>1, FlushReady
  <2> HIDE DEF w, k
  <2>3. ASSUME NEW ws, NEW s \in ws, Shows(v, ws), s.id = h.cat.id
        PROVE  Shows(w, (ws \ {s}) \cup {After(s, h.fork, t)})
    <3>1. Len(q) = n /\ CutTo(q, Len(q)) = q /\ After(s, h.fork, q) = s
      BY <1>3, <2>3, CutNothing
    <3>2. t = q
      BY <3>1
    <3> HIDE DEF t, q
    <3>3. (ws \ {s}) \cup {After(s, h.fork, t)} = ws
      BY <2>3, <3>1, <3>2
    <3> QED
      BY <2>2, <2>3, <3>3 DEF Keeps
  <2> HIDE DEF t
  <2>4. Makes(v, w, h.cat.id, h.fork, t)
    BY <2>2, <2>3 DEF Keeps, Makes
  <2>5. Done(v, w, h, k, t)
    BY <2>2, <2>4 DEF Done
  <2> QED
    BY <2>5 DEF w, t
<1> QED
  BY <1>1, <1>2, <1>3

\* A step that keeps breach empty has done nothing of the kind.
LEMMA BreachMeans ==
  ASSUME NEW also, Breach(also), breach' = {}
  PROVE  breach = {} /\ also = {} /\ ~MovedAndChanged(vol') /\ ~DeletedOpen
<1>1. /\ breach = {} /\ also = {} /\ If("moved", MovedAndChanged(vol')) = {}
      /\ If("deleted", DeletedOpen) = {}
  BY DEF Breach
<1>2. \A name : If(name, TRUE) = {name} /\ If(name, FALSE) = {}
  BY DEF If
<1>3. CASE MovedAndChanged(vol')
  BY <1>1, <1>3 DEF If
<1>4. CASE DeletedOpen
  BY <1>1, <1>4 DEF If
<1> QED
  BY <1>1, <1>3, <1>4

\* What is not breached has not been done.
LEMMA IfNot ==
  ASSUME NEW name, NEW c, If(name, c) = {}
  PROVE  ~c
  BY DEF If

\* An open file whose record has moved is stored already.
LEMMA TidyClosable ==
  ASSUME NEW v, Sound(v, readonly), ~MovedAndChanged(v), NEW h \in v.files
  PROVE  Closable(v, h)
<1>1. h \in AnOpenFile /\ Sane(h.cat)
  BY VolumeFields DEF Sound, Handled
<1>2. SUFFICES ASSUME Stale(v, h), ~readonly
               PROVE  NoExcess(h.cat.data) /\ NoExcess(h.cat.rsrc)
  BY DEF Closable, MovedAndChanged
<1>3. Excess(h) = << >>
  BY <1>2 DEF MovedAndChanged
<1>4. NoExcess(Fork(h)) /\ NoExcess(Other(h))
  BY <1>1, <1>2, <1>3, TrimmedIs DEF Sound, Handled
<1> QED
  BY <1>4 DEF Fork, Other

\* A handle that is ready may be closed; one whose record has moved is not the
\* last.
LEMMA ReadyCloses ==
  ASSUME NEW v, NEW h, Ready(v, h)
  PROVE  Closable(v, h) /\ h \in v.files /\ (Stale(v, h) => h.refs > 1)
  BY DEF Ready, Closable

\* The fork of a handle that the resource fork's attribute is opened with.
LEMMA RsrcReady ==
  ASSUME NEW u, Sound(u, readonly), ~MovedAndChanged(u), NEW e \in u.rec, NEW v \in RsrcOf(u, e)
  PROVE  /\ Keeps(u, v)
         /\ \A i : RefsOf(v, i) = RefsOf(u, i) + IF i = e.cat.id THEN 1 ELSE 0
         /\ \E h : Opened(v, e.cat.id) = {h} /\ h.cat.id = e.cat.id /\ h.fork = "rsrc"
                   /\ Ready(v, h)
<1> DEFINE w == Open(u, e)
           i == e.cat.id
<1>1. /\ Keeps(u, w)
      /\ \A j : RefsOf(w, j) = RefsOf(u, j) + IF j = i THEN 1 ELSE 0
      /\ \E h : Opened(w, i) = {h} /\ h.cat.id = i /\ Ready(w, h)
  BY OpenKeeps
<1>2. PICK h : Opened(w, i) = {h} /\ h.cat.id = i /\ Ready(w, h)
  BY <1>1
<1>3. v = SetFork(w, h, "rsrc")
  BY <1>2 DEF RsrcOf
<1> HIDE DEF w
<1>4. Sound(w, readonly) /\ h \in w.files /\ Closable(w, h) /\ (Stale(w, h) => h.refs > 1)
  BY <1>1, <1>2, ReadyCloses DEF Keeps
<1>5. /\ Keeps(w, v)
      /\ \E g : Selected(w, v, h, g, "rsrc")
      /\ \A j : RefsOf(v, j) = RefsOf(w, j)
  <2> DEFINE fork == "rsrc"
  <2>1. fork \in {"data", "rsrc"} /\ v = SetFork(w, h, fork)
    BY <1>3
  <2> HIDE DEF fork
  <2> DEFINE x == SetFork(w, h, fork)
  <2>2. /\ Keeps(w, x)
        /\ \E g : Selected(w, x, h, g, fork)
        /\ \A j : RefsOf(x, j) = RefsOf(w, j)
    BY <1>4, <2>1, SetForkReady
  <2> HIDE DEF x
  <2>3. x = v
    BY <2>1 DEF x
  <2> QED
    BY <2>2, <2>3 DEF fork
<1>6. PICK g : /\ Opened(v, i) = {g} /\ g \in v.files /\ g.cat.id = i
               /\ g.fork = "rsrc" /\ g.refs = h.refs
               /\ Closable(v, g) /\ (Stale(v, g) <=> Stale(w, h))
  BY <1>2, <1>5 DEF Selected
<1>7. Ready(v, g)
  BY <1>4, <1>6 DEF Ready, Closable
<1>8. Keeps(u, v)
  BY <1>1, <1>5, KeepsTwice
<1>9. ASSUME NEW j PROVE RefsOf(v, j) = RefsOf(u, j) + IF j = e.cat.id THEN 1 ELSE 0
  <2>1. RefsOf(v, j) = RefsOf(w, j)
    BY <1>5
  <2>2. RefsOf(w, j) = RefsOf(u, j) + IF j = e.cat.id THEN 1 ELSE 0
    BY <1>1
  <2> QED
    BY <2>1, <2>2
<1>10. \E x : Opened(v, e.cat.id) = {x} /\ x.cat.id = e.cat.id /\ x.fork = "rsrc" /\ Ready(v, x)
  BY <1>6, <1>7
<1> QED
  BY <1>8, <1>9, <1>10

\* One more reference to file i.
OneUp(u, v, i) == \A j : RefsOf(v, j) = RefsOf(u, j) + IF j = i THEN 1 ELSE 0

\* A temporary reference: opened before, closed after a change of the file.
LEMMA DoneAndClosed ==
  ASSUME NEW u, NEW v, NEW w, NEW h, NEW k, NEW t, NEW x,
         Sound(u, readonly), Keeps(u, v), OneUp(u, v, h.cat.id),
         Ready(v, h), Done(v, w, h, k, t) \/ Torn(v, w, h, k), x = Close(w, k),
         ~MovedAndChanged(x)
  PROVE  Makes(u, x, h.cat.id, h.fork, t) /\ \A i : RefsOf(x, i) = RefsOf(u, i)
<1>1. Done(v, w, h, k, t)
  BY ReadyCloses DEF Torn
<1>2. Sound(w, readonly) /\ k \in w.files /\ Closable(w, k) /\ k.cat.id = h.cat.id
  BY <1>1 DEF Done, Makes
<1>3. /\ Keeps(w, x)
      /\ \A i : RefsOf(x, i) = RefsOf(w, i) - IF i = k.cat.id THEN 1 ELSE 0
  BY <1>2, CloseKeeps
<1>4. Makes(u, x, h.cat.id, h.fork, t)
  BY <1>1, <1>3, MakesAmong DEF Done
<1>5. ASSUME NEW i PROVE RefsOf(x, i) = RefsOf(u, i)
  <2>1. RefsOf(u, i) \in Nat
    BY RefsNat
  <2>2. /\ RefsOf(v, i) = RefsOf(u, i) + IF i = h.cat.id THEN 1 ELSE 0
        /\ RefsOf(w, i) = RefsOf(v, i)
        /\ RefsOf(x, i) = RefsOf(w, i) - IF i = h.cat.id THEN 1 ELSE 0
    BY <1>1, <1>2, <1>3 DEF Done, OneUp
  <2> QED
    BY <2>1, <2>2
<1> QED
  BY <1>4, <1>5

\* The descriptors of a file when one more is opened, closed or renamed.
LEMMA HoldingIs ==
  ASSUME NEW f \in [Fd -> {NoFd} \cup ADescriptor], NEW i
  PROVE  IsFiniteSet(Holding(f, i)) /\ Cardinality(Holding(f, i)) \in Nat
<1>1. IsFiniteSet(Fd) /\ Holding(f, i) \subseteq Fd
  BY FuseAssumption DEF Holding
<1>2. IsFiniteSet(Holding(f, i))
  BY <1>1, FS_Subset
<1> QED
  BY <1>2, FS_CardinalityType

\* A descriptor more holds its file once more
LEMMA OneMore ==
  ASSUME NEW f \in [Fd -> {NoFd} \cup ADescriptor], NEW d \in Fd, f[d] = NoFd,
         NEW r \in ADescriptor, NEW g, g[d] = r, \A c \in Fd \ {d} : g[c] = f[c], NEW j
  PROVE  Cardinality(Holding(g, j)) = Cardinality(Holding(f, j)) + IF j = r.id THEN 1 ELSE 0
<1>0. r # NoFd
  BY NoFdAssumption DEF ADescriptor
<1>1. CASE j = r.id
  <2> DEFINE H == Holding(f, j)
  <2>1. Holding(g, j) = H \cup {d} /\ d \notin H
    BY <1>0, <1>1 DEF Holding
  <2>2. IsFiniteSet(H) /\ Cardinality(H) \in Nat
    BY HoldingIs
  <2> HIDE DEF H
  <2>3. Cardinality(H \cup {d}) = Cardinality(H) + 1
    BY <2>1, <2>2, FS_AddElement
  <2> QED
    BY <1>1, <2>1, <2>3 DEF H
<1>2. CASE j # r.id
  <2>1. Holding(g, j) = Holding(f, j)
    BY <1>0, <1>2 DEF Holding
  <2> QED
    BY <1>2, <2>1, HoldingIs
<1> QED
  BY <1>1, <1>2

\* and one less, once less.
LEMMA OneLess ==
  ASSUME NEW f \in [Fd -> {NoFd} \cup ADescriptor], NEW d \in Fd, f[d] # NoFd
  PROVE  LET g == [f EXCEPT ![d] = NoFd]
         IN  /\ g \in [Fd -> {NoFd} \cup ADescriptor]
             /\ \A j : Cardinality(Holding(g, j))
                         = Cardinality(Holding(f, j)) - IF j = f[d].id THEN 1 ELSE 0
<1> DEFINE g == [f EXCEPT ![d] = NoFd]
<1>1. g \in [Fd -> {NoFd} \cup ADescriptor]
  OBVIOUS
<1>2. ASSUME NEW j
      PROVE  Cardinality(Holding(g, j)) = Cardinality(Holding(f, j)) - IF j = f[d].id THEN 1 ELSE 0
  <2>1. CASE j = f[d].id
    <3> DEFINE H == Holding(f, j)
    <3>1. Holding(g, j) = H \ {d} /\ d \in H
      BY <2>1 DEF Holding
    <3>2. IsFiniteSet(H) /\ Cardinality(H) \in Nat
      BY HoldingIs
    <3> HIDE DEF g, H
    <3>3. Cardinality(H \ {d}) = Cardinality(H) - 1
      BY <3>1, <3>2, FS_RemoveElement
    <3> QED
      BY <2>1, <3>1, <3>3 DEF H
  <2>2. CASE j # f[d].id
    <3>1. Holding(g, j) = Holding(f, j)
      BY <2>2 DEF Holding
    <3> HIDE DEF g
    <3> QED
      BY <2>2, <3>1, HoldingIs
  <2> QED
    BY <2>1, <2>2
<1> QED
  BY <1>1, <1>2

\* Renaming the path of a descriptor leaves it with its file.
LEMMA RenamedHolds ==
  ASSUME FdsInv, NEW p \in Path, NEW q \in Path
  PROVE  /\ Renamed(p, q) \in [Fd -> {NoFd} \cup ADescriptor]
         /\ \A j : Holding(Renamed(p, q), j) = Holding(fds, j)
<1>1. NoFd \notin ADescriptor
  BY NoFdAssumption DEF ADescriptor
<1>2. fds \in [Fd -> {NoFd} \cup ADescriptor]
  BY DEF FdsInv
<1>3. \A d \in Fd : fds[d] # NoFd =>
        LET r == [fds[d] EXCEPT !.path = q]
        IN  r \in ADescriptor /\ r.id = fds[d].id /\ r.path = q
  BY <1>2 DEF ADescriptor
<1>4. \A d \in Fd : /\ Renamed(p, q)[d] \in {NoFd} \cup ADescriptor
                    /\ Renamed(p, q)[d] = NoFd <=> fds[d] = NoFd
                    /\ fds[d] # NoFd => Renamed(p, q)[d].id = fds[d].id
  BY <1>1, <1>2, <1>3 DEF Renamed
<1>5. Renamed(p, q) \in [Fd -> {NoFd} \cup ADescriptor]
  BY <1>4 DEF Renamed
<1>6. \A j : Holding(Renamed(p, q), j) = Holding(fds, j)
  BY <1>4 DEF Holding
<1> QED
  BY <1>5, <1>6

\* A file whose record goes is not open.
LEMMA NotOpen ==
  ASSUME ~DeletedOpen, NEW i, \E e \in vol.rec : e.cat.id = i,
         ~\E e \in vol'.rec : e.cat.id = i, NEW w, vol'.files = w.files
  PROVE  Opened(w, i) = {}
  BY DEF DeletedOpen, Opened

-----------------------------------------------------------------------------
(***************************************************************************)
(* The callbacks.                                                          *)
(***************************************************************************)
\* Nobody's references have changed, and no descriptor.
LEMMA CountsStay ==
  ASSUME Counts(vol, fds), \A i : RefsOf(vol', i) = RefsOf(vol, i),
         \A i : Holding(fds', i) = Holding(fds, i)
  PROVE  Counts(vol', fds')
  BY DEF Counts

\* hfs_open under a new descriptor counts one up
LEMMA CountsUp ==
  ASSUME Counts(vol, fds), FdsInv, NEW d \in Fd, fds[d] = NoFd, NEW i \in 1..MaxId, NEW p \in Path,
         fds' = [fds EXCEPT ![d] = [id |-> i, path |-> p]],
         \A j : RefsOf(vol', j) = RefsOf(vol, j) + IF j = i THEN 1 ELSE 0
  PROVE  Counts(vol', fds')
<1> DEFINE r == [id |-> i, path |-> p]
<1>1. fds \in [Fd -> {NoFd} \cup ADescriptor] /\ r \in ADescriptor /\ r.id = i
  BY DEF FdsInv, ADescriptor
<1> HIDE DEF r
<1>2. ASSUME NEW j
      PROVE  Cardinality(Holding(fds', j))
               = Cardinality(Holding(fds, j)) + IF j = i THEN 1 ELSE 0
  <2>1. fds'[d] = r /\ \A c \in Fd \ {d} : fds'[c] = fds[c]
    BY <1>1 DEF r
  <2>2. fds[d] = NoFd /\ d \in Fd
    OBVIOUS
  <2>3. Cardinality(Holding(fds', j)) = Cardinality(Holding(fds, j)) + IF j = r.id THEN 1 ELSE 0
    BY ONLY <1>1, <2>1, <2>2, OneMore
  <2> QED
    BY <1>1, <2>3
<1> SUFFICES ASSUME NEW j \in Nat
             PROVE  RefsOf(vol', j) = Cardinality(Holding(fds', j))
  BY DEF Counts
<1>3. RefsOf(vol, j) = Cardinality(Holding(fds, j))
  BY DEF Counts
<1>4. /\ RefsOf(vol', j) = RefsOf(vol, j) + IF j = i THEN 1 ELSE 0
      /\ Cardinality(Holding(fds', j)) = Cardinality(Holding(fds, j)) + IF j = i THEN 1 ELSE 0
  BY <1>2
<1> QED
  BY <1>3, <1>4

\* and hfs_close at its release one down.
LEMMA CountsDown ==
  ASSUME Counts(vol, fds), FdsInv, NEW d \in Fd, fds[d] # NoFd,
         fds' = [fds EXCEPT ![d] = NoFd],
         \A j : RefsOf(vol', j) = RefsOf(vol, j) - IF j = fds[d].id THEN 1 ELSE 0
  PROVE  Counts(vol', fds')
<1>1. fds \in [Fd -> {NoFd} \cup ADescriptor]
  BY DEF FdsInv
<1>2. \A j : Cardinality(Holding(fds', j))
               = Cardinality(Holding(fds, j)) - IF j = fds[d].id THEN 1 ELSE 0
  BY <1>1, OneLess
<1> SUFFICES ASSUME NEW j \in Nat
             PROVE  RefsOf(vol', j) = Cardinality(Holding(fds', j))
  BY DEF Counts
<1>3. RefsOf(vol, j) = Cardinality(Holding(fds, j))
  BY DEF Counts
<1>4. /\ RefsOf(vol', j) = RefsOf(vol, j) - IF j = fds[d].id THEN 1 ELSE 0
      /\ Cardinality(Holding(fds', j))
           = Cardinality(Holding(fds, j)) - IF j = fds[d].id THEN 1 ELSE 0
  BY <1>2
<1> QED
  BY <1>3, <1>4

\* FuseHFS_mknod creates a file that is closed.
LEMMA MknodTidy ==
  ASSUME Tidy, NEW p \in NewPath, FuseHFS_mknod(p)
  PROVE  TidyNext
<1>1. /\ Sound(vol, readonly) /\ Shows(vol, view) /\ p \in Path
      /\ At(vol, p) = {} /\ vol.next <= MaxId
  BY DEF Tidy, NewPath, FuseHFS_mknod, MayCreate
<1>2. vol' = NewFile(vol, p) /\ view' = view \cup {Empty(vol, p)} /\ fds' = fds
  BY DEF FuseHFS_mknod, NewView, Empty
<1>3. Sound(vol', readonly) /\ vol'.files = vol.files /\ Shows(vol', view')
  BY <1>1, <1>2, NewFileKeeps
<1>4. \A i : RefsOf(vol', i) = RefsOf(vol, i)
  BY <1>3, SameFiles
<1>5. Counts(vol', fds')
  BY <1>2, <1>4, CountsStay DEF Tidy
<1> QED
  BY <1>3, <1>5 DEF TidyNext

\* FuseHFS_create creates a file and opens it, at the path it was created under.
LEMMA CreateTidy ==
  ASSUME Tidy, FdsInv, NEW d \in Fd, NEW p \in NewPath, FuseHFS_create(d, p)
  PROVE  TidyNext
<1> DEFINE v == NewFile(vol, p)
           e == Born(vol, p)
<1>1. /\ Sound(vol, readonly) /\ Shows(vol, view) /\ p \in Path /\ ~MovedAndChanged(vol)
      /\ At(vol, p) = {} /\ vol.next <= MaxId /\ fds[d] = NoFd
  BY DEF Tidy, NewPath, FuseHFS_create, MayCreate
<1>2. /\ Sound(v, readonly) /\ e \in v.rec /\ At(v, p) = {e} /\ v.files = vol.files
      /\ ~MovedAndChanged(v) /\ Shows(v, view \cup {Empty(vol, p)})
  BY <1>1, NewFileKeeps
<1>3. view' = view \cup {Empty(vol, p)}
  BY DEF FuseHFS_create, NewView, Empty
<1>4. PICK x \in At(v, p) :
        vol' = Open(v, x) /\ fds' = [fds EXCEPT ![d] = [id |-> x.cat.id, path |-> p]]
  BY DEF FuseHFS_create
<1>5. x = e /\ e.cat.id \in 1..MaxId
  <2>1. e.cat \in ACat
    BY <1>2, VolumeFields DEF Sound
  <2> HIDE DEF e
  <2> QED
    BY <1>2, <1>4, <2>1 DEF ACat
<1> HIDE DEF v, e
<1>6. /\ Keeps(v, vol')
      /\ \A i : RefsOf(vol', i) = RefsOf(v, i) + IF i = e.cat.id THEN 1 ELSE 0
  BY <1>2, <1>4, <1>5, OpenKeeps
<1>7. \A i : RefsOf(v, i) = RefsOf(vol, i)
  BY <1>2, SameFiles
<1>8. Counts(vol', fds')
  <2>1. \A i : RefsOf(vol', i) = RefsOf(vol, i) + IF i = e.cat.id THEN 1 ELSE 0
    BY <1>6, <1>7
  <2> QED
    BY <1>1, <1>4, <1>5, <2>1, CountsUp DEF Tidy
<1> QED
  BY <1>2, <1>3, <1>6, <1>8 DEF TidyNext, Keeps

\* FuseHFS_open opens a file, once more if it is open already.
LEMMA OpenTidy ==
  ASSUME Tidy, FdsInv, NEW d \in Fd, NEW p \in Path, FuseHFS_open(d, p)
  PROVE  TidyNext
<1>1. Sound(vol, readonly) /\ Shows(vol, view) /\ ~MovedAndChanged(vol) /\ fds[d] = NoFd
  BY DEF Tidy, FuseHFS_open
<1>2. PICK e \in At(vol, p) :
        vol' = Open(vol, e) /\ fds' = [fds EXCEPT ![d] = [id |-> e.cat.id, path |-> p]]
  BY DEF FuseHFS_open
<1>3. e \in vol.rec
  BY DEF At
<1>4. e.cat.id \in 1..MaxId
  <2>1. e.cat \in ACat
    BY <1>1, <1>3, VolumeFields DEF Sound
  <2> QED
    BY <2>1 DEF ACat
<1>5. /\ Keeps(vol, vol')
      /\ \A i : RefsOf(vol', i) = RefsOf(vol, i) + IF i = e.cat.id THEN 1 ELSE 0
  BY <1>1, <1>2, <1>3, OpenKeeps
<1>6. Counts(vol', fds')
  BY <1>1, <1>2, <1>4, <1>5, CountsUp DEF Tidy
<1>7. view' = view
  BY DEF FuseHFS_open
<1> QED
  BY <1>1, <1>5, <1>6, <1>7 DEF TidyNext, Keeps

\* A handle of a descriptor.
LEMMA HandleIs ==
  ASSUME Tidy, NEW d \in Fd, NEW h \in Handles(vol, d)
  PROVE  /\ fds[d] # NoFd /\ h \in vol.files /\ h.cat.id = fds[d].id
         /\ Closable(vol, h) /\ h \in AnOpenFile
<1>1. fds[d] # NoFd /\ h \in vol.files /\ h.cat.id = fds[d].id
  BY DEF Handles, Opened
<1> QED
  BY <1>1, TidyClosable, VolumeFields DEF Tidy, Sound

\* FuseHFS_read selects the data fork, for which the other is trimmed.
LEMMA ReadTidy ==
  ASSUME Tidy, NEW d \in Fd, FuseHFS_read(d)
  PROVE  TidyNext
<1>1. Sound(vol, readonly) /\ Shows(vol, view)
  BY DEF Tidy
<1>2. PICK h \in Handles(vol, d) : vol' = SetFork(vol, h, "data")
  BY DEF FuseHFS_read
<1> DEFINE fork == "data"
<1>3. h \in vol.files /\ Closable(vol, h) /\ fork \in {"data", "rsrc"} /\ vol' = SetFork(vol, h, fork)
  BY <1>2, HandleIs
<1> HIDE DEF fork
<1>4. Keeps(vol, vol') /\ \A i : RefsOf(vol', i) = RefsOf(vol, i)
  BY <1>1, <1>3, SetForkReady
<1>5. view' = view /\ fds' = fds
  BY DEF FuseHFS_read
<1>6. Counts(vol', fds')
  BY <1>4, <1>5, CountsStay DEF Tidy
<1> QED
  BY <1>1, <1>4, <1>5, <1>6 DEF TidyNext, Keeps

\* What the user has of a file.
LEMMA SeenIs ==
  ASSUME Tidy, NEW i, (\E e \in vol.rec : e.cat.id = i) \/ (\E h \in vol.files : h.cat.id = i)
  PROVE  \E s \in view : s.id = i /\ Seen(i) = s
<1>1. PICK e \in vol.rec : e.cat.id = i
  BY DEF Tidy, Sound, Handled, Backs
<1>2. PICK s \in view : s.id = e.cat.id /\ (CHOOSE w \in view : w.id = e.cat.id) = s
  BY SeenOne DEF Tidy
<1>3. Seen(i) = s
  BY <1>1, <1>2 DEF Seen
<1> QED
  BY <1>1, <1>2, <1>3

\* The user sees what an operation on one fork of a file has made.
LEMMA SeesAfter ==
  ASSUME Tidy, NEW s \in view, Seen(s.id) = s, NEW fork \in {"data", "rsrc"}, NEW t \in Seq(Data),
         NEW y, y = After(s, fork, t), Sees(y), Makes(vol, vol', s.id, fork, t)
  PROVE  Sound(vol', readonly) /\ Shows(vol', view')
<1>1. s \in AView /\ Shows(vol, view)
  BY DEF Tidy, Shows
<1>2. y.id = s.id
  BY <1>1, AfterIs
<1>3. view' = (view \ {s}) \cup {After(s, fork, t)}
  BY <1>2 DEF Sees
<1> QED
  BY <1>1, <1>3 DEF Makes

\* FuseHFS_write: the data lands in the file of the descriptor and in no other,
\* in blocks that were free or its own.
LEMMA WriteTidy ==
  ASSUME Tidy, NEW d \in Fd, NEW offset \in 0..MaxLen, NEW x \in Val,
         FuseHFS_write(d, offset, x), breach' = {}
  PROVE  TidyNext
<1>1. Sound(vol, readonly) /\ Shows(vol, view) /\ ~readonly /\ fds' = fds /\ offset + 1 <= MaxLen
  BY DEF Tidy, FuseHFS_write
<1> DEFINE fork == "data"
           V(h) == SetFork(vol, h, fork)
<1>2. PICK h \in Handles(vol, d) : \E g \in Opened(V(h), h.cat.id) : \E bs \in Allocs(V(h)) :
        /\ vol' = Write(V(h), g, Seek(g, offset), x, bs)
        /\ IF bs = << >> /\ Seek(g, offset) = Len(Fork(g).blocks)
           THEN view' = view
           ELSE Sees([Seen(h.cat.id) EXCEPT !.data = Put(@, offset, x)])
        /\ Breach(If("beyond", offset > Fork(g).len))
  BY DEF FuseHFS_write
<1> DEFINE v == V(h)
           i == h.cat.id
<1>3. h \in vol.files /\ Closable(vol, h) /\ fork \in {"data", "rsrc"} /\ v = SetFork(vol, h, fork)
  BY <1>2, HandleIs
<1>4. PICK k \in Opened(v, i) : \E bs \in Allocs(v) :
        /\ vol' = Write(v, k, Seek(k, offset), x, bs)
        /\ IF bs = << >> /\ Seek(k, offset) = Len(Fork(k).blocks)
           THEN view' = view
           ELSE Sees([Seen(i) EXCEPT !.data = Put(@, offset, x)])
        /\ Breach(If("beyond", offset > Fork(k).len))
  BY <1>2
<1> HIDE DEF fork, v
<1>5. PICK bs \in Allocs(v) :
        /\ vol' = Write(v, k, Seek(k, offset), x, bs)
        /\ IF bs = << >> /\ Seek(k, offset) = Len(Fork(k).blocks)
           THEN view' = view
           ELSE Sees([Seen(i) EXCEPT !.data = Put(@, offset, x)])
        /\ Breach(If("beyond", offset > Fork(k).len))
  BY <1>4
<1>6. Keeps(vol, v) /\ \A j : RefsOf(v, j) = RefsOf(vol, j)
  BY <1>1, <1>3, SetForkReady
<1>7. PICK g : Selected(vol, v, h, g, fork)
  BY <1>1, <1>3, SetForkReady
<1>8. k = g /\ k \in v.files /\ k.cat.id = i /\ k.fork = fork /\ Closable(v, k)
  BY <1>7 DEF Selected
<1>9. ~MovedAndChanged(vol') /\ ~(offset > Fork(k).len)
  BY <1>5, BreachMeans, IfNot
<1>10. Sound(v, readonly) /\ Shows(v, view) /\ v.files \subseteq AnOpenFile
  BY <1>1, <1>6, VolumeFields DEF Keeps, Sound
<1>11. Fork(k).len \in Nat
  BY <1>8, <1>10, ForkTypes
<1>12. Seek(k, offset) = offset /\ offset \in Nat /\ offset <= Fork(k).len
  BY <1>9, <1>11 DEF Seek
<1>13. PICK s \in view : s.id = i /\ Seen(i) = s
  BY <1>3, SeenIs
<1>14. CASE Full(k, offset, bs)
  <2>1. view' = view /\ vol' = Write(v, k, offset, x, bs)
    BY <1>5, <1>12, <1>14 DEF Full
  <2>2. Keeps(v, vol') /\ \A j : RefsOf(vol', j) = RefsOf(v, j)
    BY <1>1, <1>8, <1>10, <1>14, <2>1, FullWrite
  <2>3. Counts(vol', fds')
    BY <1>1, <1>6, <2>2, CountsStay DEF Tidy
  <2> QED
    BY <1>10, <2>1, <2>2, <2>3 DEF TidyNext, Keeps
<1>15. CASE ~Full(k, offset, bs)
  <2> DEFINE q == Shown(v.disk, Fork(k))
             t == Put(q, offset, x)
  <2>1. vol' = Write(v, k, offset, x, bs) /\ Sees([Seen(i) EXCEPT !.data = Put(@, offset, x)])
    BY <1>5, <1>12, <1>15 DEF Full
  <2>2. offset + 1 <= MaxLen + MaxRsrc
    BY <1>1, FuseAssumption
  <2>3. PICK m : Done(v, vol', k, m, t) \/ Torn(v, vol', k, m)
    BY <1>1, <1>8, <1>10, <1>12, <1>15, <2>1, <2>2, WriteEither
  <2>4. q \in Seq(Data) /\ Len(q) = Fork(k).len /\ SeenFork(s, fork) = q
    BY <1>8, <1>10, <1>13, CutNothing
  <2>5. t \in Seq(Data)
    <3>1. offset \in 0..Len(q) /\ x \in Data
      BY <1>12, <2>4 DEF Data
    <3> HIDE DEF q
    <3> QED
      BY <2>4, <3>1, PutIs
  <2>6. s.data = q
    BY <2>4 DEF SeenFork, fork
  <2> HIDE DEF q
  <2>7. Sees(After(s, fork, t))
    BY <1>13, <2>1, <2>6 DEF After, fork
  <2> HIDE DEF t
  <2>8. Done(v, vol', k, m, t)
    BY <1>9, <2>3 DEF Torn
  <2>9. Makes(vol, vol', i, fork, t)
    <3>1. Sound(vol', readonly)
      BY <2>8 DEF Done, Makes
    <3> QED
      BY <1>6, <1>8, <2>8, <3>1, KeepsSelf, MakesAmong DEF Done
  <2>10. Sound(vol', readonly) /\ Shows(vol', view')
    BY <1>3, <1>13, <2>5, <2>7, <2>9, SeesAfter
  <2>11. Counts(vol', fds')
    BY <1>1, <1>6, <2>8, CountsStay DEF Tidy, Done
  <2> QED
    BY <2>10, <2>11 DEF TidyNext
<1> QED
  BY <1>14, <1>15

\* A user who truncates what the program can truncate.
LEMMA CutAllowed ==
  ASSUME NEW h \in AnOpenFile, NEW n, CutBreach(h, n), breach' = {}
  PROVE  /\ ~MovedAndChanged(vol') /\ h.fork = "data"
         /\ ~(n > Len(Seen(h.cat.id).data))
<1>1. /\ ~MovedAndChanged(vol')
      /\ If("longer", n > Len(Seen(h.cat.id).data)) \cup If("fork", h.fork = "rsrc") = {}
  BY BreachMeans DEF CutBreach
<1>2. /\ If("longer", n > Len(Seen(h.cat.id).data)) = {}
      /\ If("fork", h.fork = "rsrc") = {}
  BY <1>1
<1>3. h.fork # "rsrc" /\ h.fork \in {"data", "rsrc"}
  BY <1>2, IfNot DEF AnOpenFile
<1> QED
  BY <1>1, <1>2, <1>3, IfNot

\* What the user sees of a file that is cut.
LEMMA CutSeen ==
  ASSUME NEW v, Sound(v, readonly), NEW h \in v.files, NEW ws, Shows(v, ws),
         NEW s \in ws, s.id = h.cat.id, NEW n \in Nat, n <= Len(SeenFork(s, h.fork))
  PROVE  /\ n <= Fork(h).len /\ SeenFork(s, h.fork) = Shown(v.disk, Fork(h))
         /\ CutTo(Shown(v.disk, Fork(h)), n) \in Seq(Data)
         /\ Len(CutTo(Shown(v.disk, Fork(h)), n)) = n
<1> DEFINE q == Shown(v.disk, Fork(h))
<1>1. q \in Seq(Data) /\ Len(q) = Fork(h).len /\ SeenFork(s, h.fork) = q
  BY CutNothing
<1> HIDE DEF q
<1>2. n \in 0..Len(q)
  BY <1>1
<1>3. CutTo(q, n) \in Seq(Data) /\ Len(CutTo(q, n)) = n
  BY <1>1, <1>2, CutToIs
<1> QED
  BY <1>1, <1>2, <1>3 DEF q

\* FuseHFS_ftruncate cuts the file of the descriptor.
LEMMA FtruncateTidy ==
  ASSUME Tidy, NEW d \in Fd, NEW n \in 0..MaxLen, FuseHFS_ftruncate(d, n), breach' = {}
  PROVE  TidyNext
<1>1. Sound(vol, readonly) /\ Shows(vol, view) /\ ~readonly /\ fds' = fds /\ n \in Nat
  BY FuseAssumption DEF Tidy, FuseHFS_ftruncate
<1>2. PICK h \in Handles(vol, d) :
        vol' = Truncate(vol, h, n) /\ SeesCut(h.cat.id, n) /\ CutBreach(h, n)
  BY DEF FuseHFS_ftruncate
<1> DEFINE i == h.cat.id
           q == Shown(vol.disk, Fork(h))
           t == CutTo(q, n)
<1>3. h \in vol.files /\ Closable(vol, h) /\ h \in AnOpenFile
  BY <1>2, HandleIs
<1>4. PICK s \in view : s.id = i /\ Seen(i) = s
  BY <1>3, SeenIs
<1>5. ~MovedAndChanged(vol') /\ h.fork = "data" /\ ~(n > Len(s.data))
  BY <1>2, <1>3, <1>4, CutAllowed
<1>6. SeenFork(s, h.fork) = s.data
  BY <1>5 DEF SeenFork
<1>7. s.data \in Seq(Data)
  BY <1>1, <1>4 DEF Shows, AView, Data
<1>8. n <= Len(s.data)
  BY <1>1, <1>5, <1>7
<1>9. n <= Fork(h).len /\ s.data = q /\ t \in Seq(Data)
  BY <1>1, <1>3, <1>4, <1>6, <1>8, CutSeen
<1>10. Sees([Seen(i) EXCEPT !.data = CutTo(@, n)])
  BY <1>2 DEF SeesCut
<1>11. PICK m : Done(vol, vol', h, m, t) \/ Torn(vol, vol', h, m)
  BY <1>1, <1>2, <1>3, <1>9, TruncateEither
<1> HIDE DEF q
<1>12. Sees(After(s, h.fork, t))
  BY <1>4, <1>5, <1>9, <1>10 DEF After
<1> HIDE DEF t
<1>13. Done(vol, vol', h, m, t)
  BY <1>5, <1>11 DEF Torn
<1>14. Sound(vol', readonly) /\ Shows(vol', view')
  <2>1. h.fork \in {"data", "rsrc"} /\ Makes(vol, vol', s.id, h.fork, t) /\ Seen(s.id) = s
    BY <1>4, <1>5, <1>13 DEF Done
  <2> QED
    BY <1>9, <1>12, <2>1, SeesAfter
<1>15. Counts(vol', fds')
  BY <1>1, <1>13, CountsStay DEF Tidy, Done
<1> QED
  BY <1>14, <1>15 DEF TidyNext

\* hfs_open, hfs_truncate and hfs_close of a file that lies there.
LEMMA CutOnOpen ==
  ASSUME Tidy, ~readonly, NEW v, Keeps(vol, v), NEW h, NEW i,
         Opened(v, i) = {h}, h.cat.id = i, Ready(v, h),
         \A j : RefsOf(v, j) = RefsOf(vol, j) + IF j = i THEN 1 ELSE 0,
         NEW s \in view, s.id = i, Seen(i) = s,
         NEW n \in Nat, n <= Len(SeenFork(s, h.fork)),
         NEW g \in Opened(Truncate(v, h, n), i), vol' = Close(Truncate(v, h, n), g),
         ~MovedAndChanged(vol'), NEW y, y = After(s, h.fork, CutTo(SeenFork(s, h.fork), n)),
         Sees(y), fds' = fds
  PROVE  TidyNext
<1> DEFINE q == Shown(v.disk, Fork(h))
           t == CutTo(q, n)
           w == Truncate(v, h, n)
<1>1. Sound(vol, readonly) /\ Sound(v, readonly) /\ Shows(v, view)
  BY DEF Tidy, Keeps
<1>2. h \in v.files /\ Closable(v, h) /\ h \in AnOpenFile
  BY <1>1, ReadyCloses, VolumeFields DEF Sound
<1>3. n <= Fork(h).len /\ SeenFork(s, h.fork) = q /\ t \in Seq(Data)
  BY <1>1, <1>2, CutSeen
<1>4. PICK k : Done(v, w, h, k, t) \/ Torn(v, w, h, k)
  BY <1>1, <1>2, <1>3, TruncateEither
<1> HIDE DEF q
<1>5. y = After(s, h.fork, t)
  BY <1>3
<1> HIDE DEF t
<1>6. g = k /\ vol' = Close(w, k)
  BY <1>4 DEF Done, Torn
<1> HIDE DEF w
<1>7. Makes(vol, vol', h.cat.id, h.fork, t) /\ \A j : RefsOf(vol', j) = RefsOf(vol, j)
  <2>1. OneUp(vol, v, h.cat.id)
    BY DEF OneUp
  <2>2. Keeps(vol, v) /\ Ready(v, h) /\ ~MovedAndChanged(vol')
    OBVIOUS
  <2> QED
    BY ONLY <1>1, <1>4, <1>6, <2>1, <2>2, DoneAndClosed
<1>8. Sound(vol', readonly) /\ Shows(vol', view')
  <2>1. h.fork \in {"data", "rsrc"}
    BY <1>2 DEF AnOpenFile
  <2> QED
    BY <1>3, <1>5, <1>7, <2>1, SeesAfter
<1>9. Counts(vol', fds')
  BY <1>7, CountsStay DEF Tidy
<1> QED
  BY <1>8, <1>9 DEF TidyNext

\* FuseHFS_truncate cuts the file at a path, on a handle that is then closed.
LEMMA TruncateTidy ==
  ASSUME Tidy, NEW p \in Path, NEW n \in 0..MaxLen, FuseHFS_truncate(p, n), breach' = {}
  PROVE  TidyNext
<1>1. Sound(vol, readonly) /\ ~MovedAndChanged(vol) /\ ~readonly /\ fds' = fds /\ n \in Nat
  BY FuseAssumption DEF Tidy, FuseHFS_truncate
<1>2. PICK e \in At(vol, p) : \E h \in Opened(Open(vol, e), e.cat.id) :
        \E g \in Opened(Truncate(Open(vol, e), h, n), e.cat.id) :
           /\ vol' = Close(Truncate(Open(vol, e), h, n), g)
           /\ SeesCut(e.cat.id, n) /\ CutBreach(h, n)
  BY DEF FuseHFS_truncate
<1> DEFINE v == Open(vol, e)
           i == e.cat.id
<1>3. e \in vol.rec
  BY DEF At
<1>4. /\ Keeps(vol, v)
      /\ \A j : RefsOf(v, j) = RefsOf(vol, j) + IF j = i THEN 1 ELSE 0
      /\ \E h : Opened(v, i) = {h} /\ h.cat.id = i /\ Ready(v, h)
  BY <1>1, <1>3, OpenKeeps
<1>5. PICK h : Opened(v, i) = {h} /\ h.cat.id = i /\ Ready(v, h)
  BY <1>4
<1> HIDE DEF v
<1>6. PICK g \in Opened(Truncate(v, h, n), i) :
        vol' = Close(Truncate(v, h, n), g) /\ SeesCut(i, n) /\ CutBreach(h, n)
  BY <1>2, <1>5 DEF v
<1>7. PICK s \in view : s.id = i /\ Seen(i) = s
  BY <1>3, SeenIs
<1>8. h \in AnOpenFile
  BY <1>4, <1>5, VolumeFields DEF Ready, Keeps, Sound
<1>9. ~MovedAndChanged(vol') /\ h.fork = "data" /\ ~(n > Len(s.data))
  BY <1>5, <1>6, <1>7, <1>8, CutAllowed
<1>10. SeenFork(s, h.fork) = s.data /\ n <= Len(s.data)
  <2>1. s.data \in Seq(Data)
    BY <1>7 DEF Tidy, Shows, AView, Data
  <2> QED
    BY <1>1, <1>9, <2>1 DEF SeenFork
<1> DEFINE y == After(s, h.fork, CutTo(SeenFork(s, h.fork), n))
<1>11. y = [s EXCEPT !.data = CutTo(@, n)]
  BY <1>9, <1>10 DEF After
<1>12. Sees(y)
  BY <1>6, <1>7, <1>11 DEF SeesCut
<1>13. n <= Len(SeenFork(s, h.fork))
  BY <1>10
<1> HIDE DEF y, i
<1>14. y = After(s, h.fork, CutTo(SeenFork(s, h.fork), n))
  BY DEF y
<1> QED
  BY <1>1, <1>4, <1>5, <1>6, <1>7, <1>9, <1>12, <1>13, <1>14, CutOnOpen

\* Reading the resource fork as an attribute opens and closes the file, and
\* leaves the counts as they were.
LEMMA GetRsrcTidy ==
  ASSUME Tidy, NEW p \in Path, FuseHFS_getxattr_rsrc(p)
  PROVE  TidyNext
<1>1. Sound(vol, readonly) /\ Shows(vol, view) /\ ~MovedAndChanged(vol) /\ fds' = fds /\ view' = view
  BY DEF Tidy, FuseHFS_getxattr_rsrc
<1>2. PICK e \in At(vol, p) :
        \E v \in RsrcOf(vol, e) : \E h \in Opened(v, e.cat.id) : vol' = Close(v, h)
  BY DEF FuseHFS_getxattr_rsrc
<1>3. PICK v \in RsrcOf(vol, e) : \E h \in Opened(v, e.cat.id) : vol' = Close(v, h)
  BY <1>2
<1>4. e \in vol.rec
  BY DEF At
<1>5. /\ Keeps(vol, v)
      /\ \A j : RefsOf(v, j) = RefsOf(vol, j) + IF j = e.cat.id THEN 1 ELSE 0
      /\ \E h : Opened(v, e.cat.id) = {h} /\ h.cat.id = e.cat.id /\ h.fork = "rsrc"
                /\ Ready(v, h)
  BY <1>1, <1>4, RsrcReady
<1>6. PICK h : /\ Opened(v, e.cat.id) = {h} /\ h.cat.id = e.cat.id /\ Ready(v, h)
               /\ vol' = Close(v, h)
  BY <1>3, <1>5
<1>7. Sound(v, readonly) /\ h \in v.files /\ Closable(v, h)
  BY <1>5, <1>6, ReadyCloses DEF Keeps
<1>8. /\ Keeps(v, vol')
      /\ \A j : RefsOf(vol', j) = RefsOf(v, j) - IF j = h.cat.id THEN 1 ELSE 0
  BY <1>6, <1>7, CloseKeeps
<1>9. \A j : RefsOf(vol', j) = RefsOf(vol, j)
  <2> TAKE j
  <2>1. RefsOf(vol, j) \in Nat
    BY <1>1, RefsNat
  <2>2. RefsOf(v, j) = RefsOf(vol, j) + IF j = e.cat.id THEN 1 ELSE 0
    BY <1>5
  <2>3. RefsOf(vol', j) = RefsOf(v, j) - IF j = e.cat.id THEN 1 ELSE 0
    BY <1>6, <1>8
  <2> QED
    BY <2>1, <2>2, <2>3
<1>10. Counts(vol', fds')
  BY <1>1, <1>9, CountsStay DEF Tidy
<1>11. Sound(vol', readonly) /\ Shows(vol', view')
  BY <1>1, <1>5, <1>8 DEF Keeps
<1> QED
  BY <1>10, <1>11 DEF TidyNext

\* Removing the attribute empties the resource fork.
LEMMA RemoveRsrcTidy ==
  ASSUME Tidy, NEW p \in Path, FuseHFS_removexattr_rsrc(p), breach' = {}
  PROVE  TidyNext
<1>1. Sound(vol, readonly) /\ ~MovedAndChanged(vol) /\ ~readonly /\ fds' = fds
  BY DEF Tidy, FuseHFS_removexattr_rsrc
<1>2. PICK e \in At(vol, p) : \E v \in RsrcOf(vol, e) : \E h \in Opened(v, e.cat.id) :
        \E g \in Opened(Truncate(v, h, 0), e.cat.id) :
           vol' = Close(Truncate(v, h, 0), g) /\ Sees([Seen(e.cat.id) EXCEPT !.rsrc = << >>])
  BY DEF FuseHFS_removexattr_rsrc
<1>3. PICK v \in RsrcOf(vol, e) : \E h \in Opened(v, e.cat.id) :
        \E g \in Opened(Truncate(v, h, 0), e.cat.id) :
           vol' = Close(Truncate(v, h, 0), g) /\ Sees([Seen(e.cat.id) EXCEPT !.rsrc = << >>])
  BY <1>2
<1> DEFINE i == e.cat.id
<1>4. e \in vol.rec
  BY DEF At
<1>5. /\ Keeps(vol, v)
      /\ \A j : RefsOf(v, j) = RefsOf(vol, j) + IF j = i THEN 1 ELSE 0
      /\ \E h : Opened(v, i) = {h} /\ h.cat.id = i /\ h.fork = "rsrc" /\ Ready(v, h)
  BY <1>1, <1>4, RsrcReady
<1>6. PICK h : Opened(v, i) = {h} /\ h.cat.id = i /\ h.fork = "rsrc" /\ Ready(v, h)
  BY <1>5
<1>7. PICK g \in Opened(Truncate(v, h, 0), i) :
        vol' = Close(Truncate(v, h, 0), g) /\ Sees([Seen(i) EXCEPT !.rsrc = << >>])
  BY <1>3, <1>6
<1>8. PICK s \in view : s.id = i /\ Seen(i) = s
  BY <1>4, SeenIs
<1>9. SeenFork(s, h.fork) = s.rsrc /\ s.rsrc \in Seq(Data)
  BY <1>6, <1>8 DEF Tidy, Shows, AView, Data, SeenFork
<1>10. CutTo(s.rsrc, 0) = << >>
  <2>1. 0 \in 0..Len(s.rsrc)
    BY <1>9
  <2>2. CutTo(s.rsrc, 0) \in Seq(Data) /\ Len(CutTo(s.rsrc, 0)) = 0
    BY <1>9, <2>1, CutToIs
  <2> QED
    BY <2>2
<1> DEFINE n == 0
           y == After(s, h.fork, CutTo(SeenFork(s, h.fork), n))
<1>11. y = [s EXCEPT !.rsrc = << >>]
  BY <1>6, <1>9, <1>10 DEF After
<1>12. Sees(y)
  BY <1>7, <1>8, <1>11
<1>13. n \in Nat /\ n <= Len(SeenFork(s, h.fork))
  BY <1>9
<1>14. g \in Opened(Truncate(v, h, n), i) /\ vol' = Close(Truncate(v, h, n), g)
  BY <1>7
<1>15. ~MovedAndChanged(vol')
  <2>1. Breach({})
    BY DEF FuseHFS_removexattr_rsrc
  <2> QED
    BY <2>1, BreachMeans
<1> HIDE DEF y, i, n
<1>16. y = After(s, h.fork, CutTo(SeenFork(s, h.fork), n))
  BY DEF y
<1> QED
  BY <1>1, <1>5, <1>6, <1>8, <1>12, <1>13, <1>14, <1>15, <1>16, CutOnOpen

\* Writing it changes the resource fork and leaves the data fork.
LEMMA SetRsrcTidy ==
  ASSUME Tidy, NEW p \in Path, NEW offset \in 0..MaxRsrc - 1, NEW x \in Val,
         FuseHFS_setxattr_rsrc(p, offset, x), breach' = {}
  PROVE  TidyNext
<1>1. Sound(vol, readonly) /\ ~MovedAndChanged(vol) /\ ~readonly /\ fds' = fds
  BY DEF Tidy, FuseHFS_setxattr_rsrc
<1>2. PICK e \in At(vol, p) : \E v \in RsrcOf(vol, e) : \E h \in Opened(v, e.cat.id) :
        \E bs \in Allocs(v) :
        \E g \in Opened(Write(v, h, Seek(h, offset), x, bs), e.cat.id) :
           /\ vol' = Close(Write(v, h, Seek(h, offset), x, bs), g)
           /\ Sees([Seen(e.cat.id) EXCEPT !.rsrc = Put(@, offset, x)])
           /\ Breach(If("beyond", offset > Fork(h).len)
                     \cup If("full", bs = << >> /\ Seek(h, offset) = Len(Fork(h).blocks)))
  BY DEF FuseHFS_setxattr_rsrc
<1>3. PICK v \in RsrcOf(vol, e) : \E h \in Opened(v, e.cat.id) :
        \E bs \in Allocs(v) :
        \E g \in Opened(Write(v, h, Seek(h, offset), x, bs), e.cat.id) :
           /\ vol' = Close(Write(v, h, Seek(h, offset), x, bs), g)
           /\ Sees([Seen(e.cat.id) EXCEPT !.rsrc = Put(@, offset, x)])
           /\ Breach(If("beyond", offset > Fork(h).len)
                     \cup If("full", bs = << >> /\ Seek(h, offset) = Len(Fork(h).blocks)))
  BY <1>2
<1> DEFINE i == e.cat.id
<1>4. e \in vol.rec
  BY DEF At
<1>5. /\ Keeps(vol, v)
      /\ \A j : RefsOf(v, j) = RefsOf(vol, j) + IF j = i THEN 1 ELSE 0
      /\ \E h : Opened(v, i) = {h} /\ h.cat.id = i /\ h.fork = "rsrc" /\ Ready(v, h)
  BY <1>1, <1>4, RsrcReady
<1>6. PICK h : Opened(v, i) = {h} /\ h.cat.id = i /\ h.fork = "rsrc" /\ Ready(v, h)
  BY <1>5
<1>7. PICK bs \in Allocs(v) : \E g \in Opened(Write(v, h, Seek(h, offset), x, bs), i) :
           /\ vol' = Close(Write(v, h, Seek(h, offset), x, bs), g)
           /\ Sees([Seen(i) EXCEPT !.rsrc = Put(@, offset, x)])
           /\ Breach(If("beyond", offset > Fork(h).len)
                     \cup If("full", bs = << >> /\ Seek(h, offset) = Len(Fork(h).blocks)))
  BY <1>3, <1>6
<1>8. PICK s \in view : s.id = i /\ Seen(i) = s
  BY <1>4, SeenIs
<1>9. /\ ~MovedAndChanged(vol')
      /\ If("beyond", offset > Fork(h).len) = {}
      /\ If("full", bs = << >> /\ Seek(h, offset) = Len(Fork(h).blocks)) = {}
  <2>1. /\ ~MovedAndChanged(vol')
        /\ If("beyond", offset > Fork(h).len)
             \cup If("full", bs = << >> /\ Seek(h, offset) = Len(Fork(h).blocks)) = {}
    BY <1>7, BreachMeans
  <2> QED
    BY <2>1
<1>10. ~(offset > Fork(h).len) /\ ~(bs = << >> /\ Seek(h, offset) = Len(Fork(h).blocks))
  BY <1>9, IfNot
<1>11. Sound(v, readonly) /\ Shows(v, view) /\ h \in v.files /\ h \in AnOpenFile
  BY <1>5, <1>6, ReadyCloses, VolumeFields DEF Tidy, Keeps, Sound
<1>12. Fork(h).len \in Nat
  BY <1>11, ForkTypes
<1>13. /\ Seek(h, offset) = offset /\ offset \in Nat /\ offset <= Fork(h).len
       /\ offset + 1 <= MaxLen + MaxRsrc
  BY <1>10, <1>12, FuseAssumption DEF Seek
<1>14. ~Full(h, offset, bs)
  BY <1>10, <1>13 DEF Full
<1> DEFINE w == Write(v, h, offset, x, bs)
           q == Shown(v.disk, Fork(h))
           t == Put(q, offset, x)
<1>15. PICK k : Done(v, w, h, k, t) \/ Torn(v, w, h, k)
  BY <1>1, <1>11, <1>13, <1>14, WriteEither
<1>16. q \in Seq(Data) /\ Len(q) = Fork(h).len /\ SeenFork(s, h.fork) = q
  BY <1>6, <1>8, <1>11, CutNothing
<1>17. t \in Seq(Data)
  <2>1. offset \in 0..Len(q) /\ x \in Data
    BY <1>13, <1>16 DEF Data
  <2> HIDE DEF q
  <2> QED
    BY <1>16, <2>1, PutIs
<1>18. s.rsrc = q
  BY <1>6, <1>16 DEF SeenFork
<1> HIDE DEF q
<1>19. Sees(After(s, h.fork, t))
  BY <1>6, <1>7, <1>8, <1>18 DEF After
<1> HIDE DEF t
<1>20. \E g \in Opened(w, i) : vol' = Close(w, g)
  BY <1>7, <1>13
<1> HIDE DEF w
<1>21. vol' = Close(w, k)
  BY <1>6, <1>15, <1>20 DEF Done, Torn
<1>22. OneUp(vol, v, h.cat.id)
  BY <1>5, <1>6 DEF OneUp
<1>23. Makes(vol, vol', h.cat.id, h.fork, t) /\ \A j : RefsOf(vol', j) = RefsOf(vol, j)
  <2>1. Sound(vol, readonly) /\ Keeps(vol, v) /\ Ready(v, h) /\ ~MovedAndChanged(vol')
    BY <1>1, <1>5, <1>6, <1>9
  <2> QED
    BY ONLY <1>15, <1>21, <1>22, <2>1, DoneAndClosed
<1>24. Sound(vol', readonly) /\ Shows(vol', view')
  <2>1. h.fork \in {"data", "rsrc"} /\ Makes(vol, vol', s.id, h.fork, t) /\ Seen(s.id) = s
    BY <1>6, <1>8, <1>23
  <2> QED
    BY <1>17, <1>19, <2>1, SeesAfter
<1>25. Counts(vol', fds')
  BY <1>1, <1>23, CountsStay DEF Tidy
<1> QED
  BY <1>24, <1>25 DEF TidyNext

\* The Finder information goes to the record of a file that is not open.
LEMMA FinderTidy ==
  ASSUME Tidy, NEW p \in Path, NEW info \in {"plain", "system"},
         FuseHFS_setxattr_finder(p, info), breach' = {}
  PROVE  TidyNext
<1>1. Sound(vol, readonly) /\ Shows(vol, view) /\ fds' = fds
  BY DEF Tidy, FuseHFS_setxattr_finder
<1>2. PICK e \in At(vol, p) :
        /\ vol' = Bless(SetFinder(vol, e, info), p)
        /\ Sees([Seen(e.cat.id) EXCEPT !.info = info])
        /\ Breach(If("info", Opened(vol, e.cat.id) # {}))
  BY DEF FuseHFS_setxattr_finder
<1> DEFINE u == SetFinder(vol, e, info)
<1>3. If("info", Opened(vol, e.cat.id) # {}) = {}
  BY <1>2, BreachMeans
<1>4. ~(Opened(vol, e.cat.id) # {})
  BY <1>3, IfNot
<1>5. e \in vol.rec /\ e \in Closed(vol)
  BY <1>4 DEF At, Closed
<1>6. /\ Sound(u, readonly) /\ u.files = vol.files
      /\ \A ws : \A x \in ws : Shows(vol, ws) /\ x.id = e.cat.id
           => Shows(u, (ws \ {x}) \cup {[x EXCEPT !.info = info]})
  BY <1>1, <1>5, FinderKeeps
<1>7. PICK s \in view : s.id = e.cat.id /\ Seen(e.cat.id) = s
  BY <1>5, SeenIs
<1> DEFINE y == [s EXCEPT !.info = info]
<1>8. y.id = s.id
  BY <1>1, <1>7 DEF Shows, AView
<1>9. Shows(u, (view \ {s}) \cup {y})
  BY <1>1, <1>6, <1>7
<1>10. Sees(y)
  BY <1>2, <1>7
<1> HIDE DEF y, u
<1>11. view' = (view \ {s}) \cup {y}
  BY <1>7, <1>8, <1>10 DEF Sees
<1>12. /\ Sound(Bless(u, p), readonly) /\ Bless(u, p).files = u.files
       /\ \A ws : Shows(u, ws) => Shows(Bless(u, p), ws)
  BY <1>6, BlessKeeps
<1>13. vol' = Bless(u, p)
  BY <1>2 DEF u
<1>14. Sound(vol', readonly) /\ vol'.files = vol.files /\ Shows(vol', view')
  BY <1>6, <1>9, <1>11, <1>12, <1>13
<1>15. \A j : RefsOf(vol', j) = RefsOf(vol, j)
  BY <1>14, SameFiles
<1>16. Counts(vol', fds')
  BY <1>1, <1>15, CountsStay DEF Tidy
<1> QED
  BY <1>14, <1>16 DEF TidyNext

\* FuseHFS_unlink deletes the blocks of a file that is not open, and hides one
\* that is.
LEMMA UnlinkTidy ==
  ASSUME Tidy, FdsInv, NEW p \in Path, FuseHFS_unlink(p), breach' = {}
  PROVE  TidyNext
<1>1. Sound(vol, readonly) /\ Shows(vol, view)
  BY DEF Tidy
<1>2. PICK e \in At(vol, p) :
       \/ \E q \in Hiding(p) : vol' = Moved(vol, e, q) /\ fds' = Renamed(p, q)
                               /\ view' = ViewMoved(view, p, q)
       \/ /\ vol' = Delete(vol, e) /\ view' = {w \in view : w.id # e.cat.id}
          /\ fds' = fds
  BY DEF FuseHFS_unlink
<1>3. ~DeletedOpen
  <2>1. Breach({})
    BY DEF FuseHFS_unlink
  <2> QED
    BY <2>1, BreachMeans
<1>4. CASE \E q \in Hiding(p) : vol' = Moved(vol, e, q) /\ fds' = Renamed(p, q)
                                /\ view' = ViewMoved(view, p, q)
  <2>1. PICK q \in Hiding(p) : vol' = Moved(vol, e, q) /\ fds' = Renamed(p, q)
                               /\ view' = ViewMoved(view, p, q)
    BY <1>4
  <2>2. q \in Path /\ At(vol, q) = {}
    BY DEF Hiding
  <2>3. /\ Sound(vol', readonly) /\ vol'.files = vol.files
        /\ \A ws : Shows(vol, ws) => Shows(vol', ViewMoved(ws, p, q))
    BY <1>1, <2>1, <2>2, MovedKeeps
  <2>4. \A j : RefsOf(vol', j) = RefsOf(vol, j)
    BY <2>3, SameFiles
  <2>5. \A j : Holding(fds', j) = Holding(fds, j)
    BY <2>1, <2>2, RenamedHolds
  <2>6. Counts(vol', fds')
    BY <2>4, <2>5, CountsStay DEF Tidy
  <2> QED
    BY <1>1, <2>1, <2>3, <2>6 DEF TidyNext
<1>5. CASE /\ vol' = Delete(vol, e) /\ view' = {w \in view : w.id # e.cat.id}
           /\ fds' = fds
  <2>1. e \in vol.rec
    BY DEF At
  <2>2. vol'.files = vol.files /\ vol'.rec = vol.rec \ {e}
    <3>1. vol \in AVolume
      BY <1>1 DEF Sound
    <3> QED
      BY <1>5, <3>1 DEF Delete, Freed, AVolume
  <2>3. ~\E f \in vol'.rec : f.cat.id = e.cat.id
    BY <1>1, <2>1, <2>2 DEF Sound, Records
  <2>4. e \in Closed(vol)
    <3>1. Opened(vol, e.cat.id) = {}
      BY <1>3, <2>1, <2>2, <2>3, NotOpen
    <3> QED
      BY <2>1, <3>1 DEF Closed
  <2>5. Sound(vol', readonly) /\ Shows(vol', view')
    BY <1>1, <1>5, <2>4, DeleteKeeps
  <2>6. \A j : RefsOf(vol', j) = RefsOf(vol, j)
    BY <2>2, SameFiles
  <2>7. Counts(vol', fds')
    BY <1>5, <2>6, CountsStay DEF Tidy
  <2> QED
    BY <2>5, <2>7 DEF TidyNext
<1> QED
  BY <1>2, <1>4, <1>5

\* FuseHFS_release counts one down, and with the last deletes a hidden file.
LEMMA ReleaseTidy ==
  ASSUME Tidy, FdsInv, NEW d \in Fd, FuseHFS_release(d), breach' = {}
  PROVE  TidyNext
<1>1. Sound(vol, readonly) /\ Shows(vol, view) /\ fds' = [fds EXCEPT ![d] = NoFd]
  BY DEF Tidy, FuseHFS_release
<1> DEFINE fork == "data"
           p == fds[d].path
           hidden == p.name \in Hidden /\ LastOf(d)
           Goes(w) == \E gone \in {At(w, p)} :
                         vol' = IF gone = {} THEN w ELSE Delete(w, CHOOSE e \in gone : TRUE)
<1>2. PICK h \in Handles(vol, d) : \E v \in {SetFork(vol, h, "data")} :
        \E g \in Opened(v, h.cat.id) : \E w \in {Close(v, g)} :
           IF hidden THEN Goes(w) /\ view' = {x \in view : x.path # p}
           ELSE vol' = w /\ view' = view
  BY DEF FuseHFS_release
<1> DEFINE v == SetFork(vol, h, fork)
           i == h.cat.id
<1>3. h \in vol.files /\ Closable(vol, h) /\ fork \in {"data", "rsrc"} /\ v = SetFork(vol, h, fork)
      /\ fds[d] # NoFd /\ i = fds[d].id
  BY <1>2, HandleIs
<1> HIDE DEF Goes, hidden
<1>4. PICK g \in Opened(v, i) : \E w \in {Close(v, g)} :
           IF hidden THEN Goes(w) /\ view' = {x \in view : x.path # p}
           ELSE vol' = w /\ view' = view
  BY <1>2
<1> DEFINE w == Close(v, g)
<1>5. IF hidden THEN /\ vol' = IF At(w, p) = {} THEN w
                                ELSE Delete(w, CHOOSE e \in At(w, p) : TRUE)
                     /\ view' = {x \in view : x.path # p}
      ELSE vol' = w /\ view' = view
  <2> HIDE DEF v, p
  <2>1. IF hidden THEN Goes(w) /\ view' = {x \in view : x.path # p}
        ELSE vol' = w /\ view' = view
    BY <1>4
  <2> QED
    BY <2>1 DEF Goes
<1> USE DEF hidden
<1> HIDE DEF fork, v
<1>6. Keeps(vol, v) /\ \A j : RefsOf(v, j) = RefsOf(vol, j)
  BY <1>1, <1>3, SetForkReady
<1>7. PICK k : Selected(vol, v, h, k, fork)
  BY <1>1, <1>3, SetForkReady
<1>8. g = k /\ g \in v.files /\ g.cat.id = i /\ Closable(v, g) /\ Sound(v, readonly)
  BY <1>4, <1>6, <1>7 DEF Selected, Keeps
<1>9. /\ Keeps(v, w)
      /\ \A j : RefsOf(w, j) = RefsOf(v, j) - IF j = g.cat.id THEN 1 ELSE 0
  BY <1>8, CloseKeeps
<1> HIDE DEF w
<1>10. Keeps(vol, w)
  BY <1>6, <1>9, KeepsTwice
<1>11. \A j : RefsOf(w, j) = RefsOf(vol, j) - IF j = i THEN 1 ELSE 0
  BY <1>6, <1>8, <1>9
<1>12. Sound(w, readonly) /\ Shows(w, view) /\ NamesOf(w) = NamesOf(vol)
  BY <1>1, <1>10 DEF Keeps
<1>13. ASSUME vol'.files = w.files PROVE Counts(vol', fds')
  <2>1. \A j : RefsOf(vol', j) = RefsOf(w, j)
    BY <1>13, SameFiles
  <2>2. \A j : RefsOf(vol', j) = RefsOf(vol, j) - IF j = fds[d].id THEN 1 ELSE 0
    BY <1>3, <1>11, <2>1
  <2> QED
    BY <1>1, <1>3, <2>2, CountsDown DEF Tidy
<1>14. CASE ~hidden
  <2>1. vol' = w /\ view' = view
    BY <1>5, <1>14
  <2> QED
    BY <1>12, <1>13, <2>1 DEF TidyNext
<1>15. CASE hidden /\ At(w, p) = {}
  <2>1. vol' = w /\ view' = {x \in view : x.path # p}
    BY <1>5, <1>15
  <2>2. \A x \in view : x.path # p
    <3>1. \A x \in view : \E e \in w.rec : e.at = x.path
      BY <1>12 DEF Shows, Named
    <3> QED
      BY <1>15, <3>1 DEF At, Same
  <2>3. view' = view
    BY <2>1, <2>2
  <2> QED
    BY <1>12, <1>13, <2>1, <2>3 DEF TidyNext
<1>16. CASE hidden /\ At(w, p) # {}
  <2>1. PICK e : e \in At(w, p)
    BY <1>16
  <2>2. /\ e \in w.rec /\ (CHOOSE x \in At(w, p) : TRUE) = e
        /\ \A x \in view : Same(x.path, p) <=> x.id = e.cat.id
    BY <1>12, <2>1, OnePath
  <2>3. vol' = Delete(w, e) /\ view' = {x \in view : x.path # p}
    BY <1>5, <1>16, <2>2
  <2>4. vol'.files = w.files /\ vol'.rec = w.rec \ {e}
    <3>1. w \in AVolume
      BY <1>12 DEF Sound
    <3> QED
      BY <2>3, <3>1 DEF Delete, Freed, AVolume
  <2>5. e \in Closed(w)
    <3>1. \E f \in vol.rec : f.cat.id = e.cat.id
      <4>1. <<e.at, e.cat.id>> \in NamesOf(w)
        BY <2>2 DEF NamesOf
      <4> QED
        BY <1>12, <4>1 DEF NamesOf
    <3>2. ~\E f \in vol'.rec : f.cat.id = e.cat.id
      BY <1>12, <2>2, <2>4 DEF Sound, Records
    <3>3. ~DeletedOpen
      <4>1. Breach({})
        BY DEF FuseHFS_release
      <4> QED
        BY <4>1, BreachMeans
    <3>4. Opened(w, e.cat.id) = {}
      BY <2>4, <3>1, <3>2, <3>3, NotOpen
    <3> QED
      BY <2>2, <3>4 DEF Closed
  <2>6. \A x \in view : x.path # p <=> x.id # e.cat.id
    <3>1. p \in Path /\ p.name \in Hidden
      BY <1>3, <1>16 DEF FdsInv, ADescriptor
    <3>2. \A x \in view : Same(x.path, p) <=> x.path = p
      <4> TAKE x \in view
      <4>1. x.path \in Path
        BY <1>1 DEF Shows, AView
      <4>2. ASSUME Same(x.path, p) PROVE x.path = p
        <5>1. x.path.dir = p.dir /\ Fold[p.name] = Fold[x.path.name] /\ x.path.name \in Name
          BY <4>1, <4>2 DEF Same, Path
        <5>2. x.path.name = p.name
          BY <3>1, <5>1, HiddenApart
        <5> HIDE DEF p
        <5> QED
          BY <3>1, <4>1, <5>1, <5>2 DEF Path
      <4> QED
        BY <4>2 DEF Same
    <3> QED
      BY <2>2, <3>2
  <2>7. view' = {x \in view : x.id # e.cat.id}
    BY <2>3, <2>6
  <2>8. Sound(vol', readonly) /\ Shows(vol', view')
    BY <1>12, <2>3, <2>5, <2>7, DeleteKeeps
  <2> QED
    BY <1>13, <2>4, <2>8 DEF TidyNext
<1> QED
  BY <1>14, <1>15, <1>16

\* What hfs_delete, hfs_rename and a blessing leave alone, on any volume.
LEMMA DeletedFields ==
  ASSUME NEW v \in AVolume, NEW e \in v.rec
  PROVE  LET w == Delete(v, e)
         IN  w \in AVolume /\ w.rec = v.rec \ {e} /\ w.files = v.files
<1> DEFINE R == v.rec \ {e}
           u == [v EXCEPT !.rec = R]
           s == e.cat.data.blocks \o e.cat.rsrc.blocks
<1>1. R \in SUBSET ARecord
  BY VolumeFields
<1>2. u \in AVolume /\ u.rec = R /\ u.files = v.files
  BY <1>1, RecordsChange
<1>3. s \in Seq(Block)
  <2>1. e.cat \in ACat
    BY VolumeFields
  <2> QED
    BY <2>1 DEF ACat, AFork
<1>4. Delete(v, e) = Freed(u, s)
  BY DEF Delete
<1> HIDE DEF u, s
<1> QED
  BY <1>2, <1>3, <1>4, FreedFields

\* and a rename keeps the numbers.
LEMMA MovedFields ==
  ASSUME NEW v \in AVolume, NEW e \in v.rec, NEW q \in Path
  PROVE  LET w == Bless(Moved(v, e, q), q)
         IN  /\ w.files = v.files
             /\ \A f \in w.rec : \E g \in v.rec : g.cat.id = f.cat.id
<1> DEFINE f == [e EXCEPT !.at = q]
           R == (v.rec \ {e}) \cup {f}
           u == [v EXCEPT !.rec = R]
           w == Bless(Moved(v, e, q), q)
<1>1. e \in ARecord /\ v.rec \subseteq ARecord
  BY VolumeFields
<1>2. f \in ARecord /\ f.cat = e.cat
  BY <1>1 DEF ARecord
<1>3. Moved(v, e, q) = u
  BY DEF Moved
<1> HIDE DEF f
<1>4. R \in SUBSET ARecord
  BY <1>1, <1>2
<1>5. u \in AVolume /\ u.rec = R /\ u.files = v.files
  BY <1>4, RecordsChange
<1>6. w = u \/ w = [u EXCEPT !.blessed = q.dir]
  BY <1>3 DEF Bless
<1> HIDE DEF u, w
<1>7. w.rec = R /\ w.files = v.files
  BY <1>5, <1>6 DEF AVolume
<1>8. \A g \in R : \E k \in v.rec : k.cat.id = g.cat.id
  BY <1>2
<1> QED
  BY <1>7, <1>8 DEF w

\* hfs_rename to a path that is free now, and what follows it.
LEMMA MoveAndBless ==
  ASSUME NEW v, Sound(v, readonly), NEW p \in Path, NEW e \in At(v, p), NEW q \in Path,
         At(v, q) = {}, NEW ws, Shows(v, ws)
  PROVE  LET w == Bless(Moved(v, e, q), q)
         IN  /\ Sound(w, readonly) /\ w.files = v.files /\ Shows(w, ViewMoved(ws, p, q))
<1> DEFINE u == Moved(v, e, q)
           w == Bless(u, q)
<1>1. /\ Sound(u, readonly) /\ u.files = v.files /\ Shows(u, ViewMoved(ws, p, q))
  BY MovedKeeps
<1> HIDE DEF u
<1>2. /\ Sound(w, readonly) /\ w.rec = u.rec /\ w.files = u.files
      /\ Shows(w, ViewMoved(ws, p, q))
  BY <1>1, BlessKeeps
<1> QED
  BY <1>1, <1>2 DEF u

\* FuseHFS_rename moves a file, over one that is then deleted.
LEMMA RenameTidy ==
  ASSUME Tidy, FdsInv, NEW p \in Path, NEW q \in Path, FuseHFS_rename(p, q), breach' = {}
  PROVE  TidyNext
<1> DEFINE V == IF At(vol, q) = {} THEN vol ELSE Delete(vol, CHOOSE e \in At(vol, q) : TRUE)
           ws == {w \in view : Same(w.path, p) \/ ~Same(w.path, q)}
<1>1. /\ Sound(vol, readonly) /\ Shows(vol, view) /\ At(vol, p) # {}
      /\ view' = ViewMoved(ws, p, q)
  BY DEF Tidy, FuseHFS_rename
<1>2. ~DeletedOpen /\ If("case", Same(p, q)) = {}
  <2>1. Breach(If("case", Same(p, q)))
    BY DEF FuseHFS_rename
  <2> QED
    BY <2>1, BreachMeans
<1>3. ~Same(p, q)
  BY <1>2, IfNot
<1>4. IF At(V, p) = {} THEN vol' = V /\ fds' = fds
      ELSE \E e \in At(V, p) : vol' = Bless(Moved(V, e, q), q) /\ fds' = Renamed(p, q)
  BY DEF FuseHFS_rename
<1>5. PICK m : m \in At(vol, p)
  BY <1>1
<1>6. \A f \in vol.rec : Same(f.at, p) => ~Same(f.at, q)
  BY <1>3 DEF Same
<1> DEFINE Cleared == /\ Sound(V, readonly) /\ Shows(V, ws) /\ V.files = vol.files
                     /\ At(V, q) = {} /\ At(V, p) # {}
<1>7. \A x \in view : Same(x.path, p) => ~Same(x.path, q)
  BY <1>3 DEF Same
<1>8. CASE At(vol, q) = {}
  <2>1. \A x \in view : ~Same(x.path, q)
    <3>1. \A x \in view : \E f \in vol.rec : f.at = x.path
      BY <1>1 DEF Shows, Named
    <3> QED
      BY <1>8, <3>1 DEF At
  <2>2. ws = view /\ V = vol
    BY <1>8, <2>1
  <2>3. Cleared
    BY <1>1, <1>8, <2>2
  <2> QED
    <3> HIDE DEF V, ws
    <3>1. PICK e \in At(V, p) : vol' = Bless(Moved(V, e, q), q) /\ fds' = Renamed(p, q)
      BY <1>4, <2>3
    <3>2. Sound(vol', readonly) /\ vol'.files = V.files /\ Shows(vol', view')
      BY <1>1, <2>3, <3>1, MoveAndBless
    <3>3. \A j : RefsOf(vol', j) = RefsOf(vol, j)
      BY <2>3, <3>2, SameFiles
    <3>4. \A j : Holding(fds', j) = Holding(fds, j)
      BY <3>1, RenamedHolds
    <3>5. Counts(vol', fds')
      BY <3>3, <3>4, CountsStay DEF Tidy
    <3> QED
      BY <3>2, <3>5 DEF TidyNext
<1>9. CASE At(vol, q) # {}
  <2>1. PICK c : c \in At(vol, q)
    BY <1>9
  <2>2. /\ c \in vol.rec /\ At(vol, q) = {c} /\ (CHOOSE x \in At(vol, q) : TRUE) = c
        /\ \A x \in view : Same(x.path, q) <=> x.id = c.cat.id
    BY <1>1, <2>1, OnePath
  <2>3. V = Delete(vol, c)
    BY <1>9, <2>2
  <2> DEFINE v == Delete(vol, c)
             xs == {x \in view : x.id # c.cat.id}
  <2>4. v.files = vol.files /\ v.rec = vol.rec \ {c}
    <3>1. vol \in AVolume
      BY <1>1 DEF Sound
    <3> QED
      BY <3>1 DEF Delete, Freed, AVolume
  <2>5. ws = xs
    BY <1>7, <2>2
  <2> HIDE DEF v, V, ws, xs
  <2>6. V = v
    BY <2>3 DEF v
  <2>7. m \in At(v, p)
    <3>1. m \in vol.rec /\ Same(m.at, p) /\ m # c
      BY <1>5, <1>6, <2>1 DEF At
    <3> QED
      BY <2>4, <3>1 DEF At
  <2>8. PICK e \in At(v, p) : vol' = Bless(Moved(v, e, q), q) /\ fds' = Renamed(p, q)
    BY <1>4, <2>6, <2>7
  <2>9. \A i : Opened(v, i) = Opened(vol, i)
    BY <2>4, SameFiles
  <2>10. vol'.files = vol.files /\ ~\E f \in vol'.rec : f.cat.id = c.cat.id
    <3>1. v \in AVolume /\ e \in v.rec
      <4>1. vol \in AVolume
        BY <1>1 DEF Sound
      <4> QED
        BY <2>2, <2>8, <4>1, DeletedFields DEF v, At
    <3>2. vol'.files = v.files /\ \A f \in vol'.rec : \E g \in v.rec : g.cat.id = f.cat.id
      BY <2>8, <3>1, MovedFields
    <3>3. \A k \in v.rec : k.cat.id # c.cat.id
      BY <1>1, <2>2, <2>4 DEF Sound, Records
    <3> QED
      BY <2>4, <3>2, <3>3
  <2>11. c \in Closed(vol)
    <3>1. Opened(vol, c.cat.id) = {}
      BY <1>2, <2>2, <2>10, NotOpen
    <3> QED
      BY <2>2, <3>1 DEF Closed
  <2>12. /\ Sound(v, readonly) /\ \A r : At(v, r) = At(vol, r) \ {c}
         /\ Shows(v, xs)
    BY <1>1, <2>11, DeleteKeeps DEF v, xs
  <2>13. At(v, q) = {}
    BY <2>2, <2>12
  <2>14. Sound(vol', readonly) /\ Shows(vol', view')
    BY <1>1, <2>5, <2>8, <2>12, <2>13, MoveAndBless
  <2>15. \A j : RefsOf(vol', j) = RefsOf(vol, j)
    BY <2>10, SameFiles
  <2>16. \A j : Holding(fds', j) = Holding(fds, j)
    BY <2>8, RenamedHolds
  <2>17. Counts(vol', fds')
    BY <2>15, <2>16, CountsStay DEF Tidy
  <2> QED
    BY <2>14, <2>17 DEF TidyNext
<1> QED
  BY <1>8, <1>9

\* Every callback says what it has done that the program cannot take, and the
\* volume stays mounted as it is.
LEMMA AllBreach ==
  ASSUME Next
  PROVE  (\E also : Breach(also)) /\ readonly' = readonly
<1>1. ASSUME NEW p, FuseHFS_mknod(p) PROVE (\E also : Breach(also)) /\ readonly' = readonly
  BY <1>1 DEF FuseHFS_mknod
<1>2. ASSUME NEW d, NEW p, FuseHFS_create(d, p)
      PROVE  (\E also : Breach(also)) /\ readonly' = readonly
  BY <1>2 DEF FuseHFS_create
<1>3. ASSUME NEW d, NEW p, FuseHFS_open(d, p)
      PROVE  (\E also : Breach(also)) /\ readonly' = readonly
  BY <1>3 DEF FuseHFS_open
<1>4. ASSUME NEW d, FuseHFS_read(d) PROVE (\E also : Breach(also)) /\ readonly' = readonly
  BY <1>4 DEF FuseHFS_read
<1>5. ASSUME NEW d, NEW offset, NEW x, FuseHFS_write(d, offset, x)
      PROVE  (\E also : Breach(also)) /\ readonly' = readonly
  <2>1. PICK h \in Handles(vol, d) : \E v \in {SetFork(vol, h, "data")} :
          \E g \in Opened(v, h.cat.id) : Breach(If("beyond", offset > Fork(g).len))
    BY <1>5 DEF FuseHFS_write
  <2>2. readonly' = readonly
    BY <1>5 DEF FuseHFS_write
  <2> QED
    BY <2>1, <2>2
<1>6. ASSUME NEW d, NEW n, FuseHFS_ftruncate(d, n)
      PROVE  (\E also : Breach(also)) /\ readonly' = readonly
  BY <1>6 DEF FuseHFS_ftruncate, CutBreach
<1>7. ASSUME NEW p, NEW n, FuseHFS_truncate(p, n)
      PROVE  (\E also : Breach(also)) /\ readonly' = readonly
  BY <1>7 DEF FuseHFS_truncate, CutBreach
<1>8. ASSUME NEW d, FuseHFS_release(d) PROVE (\E also : Breach(also)) /\ readonly' = readonly
  BY <1>8 DEF FuseHFS_release
<1>9. ASSUME NEW p, FuseHFS_unlink(p) PROVE (\E also : Breach(also)) /\ readonly' = readonly
  BY <1>9 DEF FuseHFS_unlink
<1>10. ASSUME NEW p, NEW q, FuseHFS_rename(p, q)
       PROVE  (\E also : Breach(also)) /\ readonly' = readonly
  BY <1>10 DEF FuseHFS_rename
<1>11. ASSUME NEW p, NEW info, FuseHFS_setxattr_finder(p, info)
       PROVE  (\E also : Breach(also)) /\ readonly' = readonly
  BY <1>11 DEF FuseHFS_setxattr_finder
<1>12. ASSUME NEW p, FuseHFS_getxattr_rsrc(p)
       PROVE  (\E also : Breach(also)) /\ readonly' = readonly
  BY <1>12 DEF FuseHFS_getxattr_rsrc
<1>13. ASSUME NEW p, NEW offset, NEW x, FuseHFS_setxattr_rsrc(p, offset, x)
       PROVE  (\E also : Breach(also)) /\ readonly' = readonly
  BY <1>13 DEF FuseHFS_setxattr_rsrc
<1>14. ASSUME NEW p, FuseHFS_removexattr_rsrc(p)
       PROVE  (\E also : Breach(also)) /\ readonly' = readonly
  BY <1>14 DEF FuseHFS_removexattr_rsrc
<1> QED
  BY <1>1, <1>2, <1>3, <1>4, <1>5, <1>6, <1>7, <1>8, <1>9, <1>10, <1>11, <1>12, <1>13, <1>14
     DEF Next, OnPath, OnFd

\* The descriptors stay what they are, whichever path they are known by.
LEMMA FdsStay ==
  ASSUME Tidy, FdsInv, Next
  PROVE  FdsInv'
<1> USE DEF FdsInv
<1>1. \A e \in vol.rec : e.cat.id \in 1..MaxId
  <2>1. \A e \in vol.rec : e.cat \in ACat
    BY VolumeFields DEF Tidy, Sound
  <2> QED
    BY <2>1 DEF ACat
<1>2. ASSUME NEW d \in Fd, NEW p \in Path, NEW i \in 1..MaxId,
             fds' = [fds EXCEPT ![d] = [id |-> i, path |-> p]]
      PROVE  FdsInv'
  <2>1. [id |-> i, path |-> p] \in ADescriptor
    BY DEF ADescriptor
  <2> QED
    BY <1>2, <2>1
<1>3. ASSUME NEW d \in Fd, NEW p \in NewPath, FuseHFS_create(d, p) PROVE FdsInv'
  <2> DEFINE v == NewFile(vol, p)
  <2>1. p \in Path /\ At(vol, p) = {} /\ vol.next <= MaxId
    BY <1>3 DEF NewPath, FuseHFS_create, MayCreate
  <2>2. Sound(v, readonly) /\ At(v, p) \subseteq v.rec
    BY <2>1, NewFileKeeps DEF Tidy, At
  <2>3. PICK e \in At(v, p) : fds' = [fds EXCEPT ![d] = [id |-> e.cat.id, path |-> p]]
    BY <1>3 DEF FuseHFS_create
  <2> HIDE DEF v
  <2>4. e.cat \in ACat
    BY <2>2, <2>3, VolumeFields DEF Sound
  <2>5. e.cat.id \in 1..MaxId
    BY <2>4 DEF ACat
  <2> QED
    BY <1>2, <2>1, <2>3, <2>5
<1>4. ASSUME NEW d \in Fd, NEW p \in Path, FuseHFS_open(d, p) PROVE FdsInv'
  <2>1. PICK e \in At(vol, p) : fds' = [fds EXCEPT ![d] = [id |-> e.cat.id, path |-> p]]
    BY <1>4 DEF FuseHFS_open
  <2>2. e.cat.id \in 1..MaxId
    BY <1>1 DEF At
  <2> QED
    BY <1>2, <2>1, <2>2
<1>5. ASSUME NEW d \in Fd, FuseHFS_release(d) PROVE FdsInv'
  BY <1>5 DEF FuseHFS_release
<1>6. ASSUME NEW p \in Path, NEW q \in Path, fds' = Renamed(p, q) \/ fds' = fds PROVE FdsInv'
  BY <1>6, RenamedHolds
<1>7. ASSUME NEW p \in Path, FuseHFS_unlink(p) PROVE FdsInv'
  <2>1. fds' = fds \/ \E q \in Path : fds' = Renamed(p, q)
    BY <1>7 DEF FuseHFS_unlink, Hiding
  <2> QED
    BY <1>6, <2>1
<1>8. ASSUME NEW p \in Path, NEW q \in Path, FuseHFS_rename(p, q) PROVE FdsInv'
  <2>1. fds' = fds \/ fds' = Renamed(p, q)
    <3> DEFINE V == IF At(vol, q) = {} THEN vol ELSE Delete(vol, CHOOSE e \in At(vol, q) : TRUE)
    <3>1. IF At(V, p) = {} THEN vol' = V /\ fds' = fds
          ELSE \E e \in At(V, p) : vol' = Bless(Moved(V, e, q), q) /\ fds' = Renamed(p, q)
      BY <1>8 DEF FuseHFS_rename
    <3> HIDE DEF V
    <3> QED
      BY <3>1
  <2> QED
    BY <1>6, <2>1
<1>9. ASSUME fds' = fds PROVE FdsInv'
  BY <1>9
<1>10. ASSUME NEW p \in NewPath, FuseHFS_mknod(p) PROVE fds' = fds
  BY <1>10 DEF FuseHFS_mknod
<1>11. ASSUME NEW p, \/ FuseHFS_getxattr_rsrc(p) \/ FuseHFS_removexattr_rsrc(p)
                     \/ \E n : FuseHFS_truncate(p, n)
                     \/ \E info : FuseHFS_setxattr_finder(p, info)
                     \/ \E offset, x : FuseHFS_setxattr_rsrc(p, offset, x)
       PROVE  fds' = fds
  BY <1>11 DEF FuseHFS_getxattr_rsrc, FuseHFS_removexattr_rsrc, FuseHFS_truncate,
               FuseHFS_setxattr_finder, FuseHFS_setxattr_rsrc
<1>12. ASSUME NEW d, \/ FuseHFS_read(d) \/ \E n : FuseHFS_ftruncate(d, n)
                     \/ \E offset, x : FuseHFS_write(d, offset, x)
       PROVE  fds' = fds
  BY <1>12 DEF FuseHFS_read, FuseHFS_ftruncate, FuseHFS_write
<1>13. UserPath \subseteq Path /\ NewPath \subseteq Path
  BY DEF UserPath, NewPath
<1>14. ASSUME NEW p \in UserPath, OnPath(p) PROVE FdsInv'
  BY <1>7, <1>8, <1>9, <1>11, <1>13, <1>14 DEF OnPath
<1>15. ASSUME NEW d \in Fd, OnFd(d) PROVE FdsInv'
  BY <1>3, <1>4, <1>5, <1>9, <1>12, <1>13, <1>15 DEF OnFd
<1> QED
  BY <1>9, <1>10, <1>14, <1>15 DEF Next

-----------------------------------------------------------------------------
(***************************************************************************)
(* The invariant.                                                          *)
(***************************************************************************)
\* hfs_mount has no file open and knows no folder as blessed.
LEMMA MountedIs ==
  ASSUME NEW R \in SUBSET ARecord, NEW U \in SUBSET Block, NEW v, v = Mounted(R, U),
         Cardinality(R) \in Nat
  PROVE  /\ v \in AVolume
         /\ v.rec = R /\ v.files = {} /\ v.used = U /\ v.next = Cardinality(R) + 1
         /\ v.freeBks = Cardinality(Block \ U) /\ v.disk = [b \in Block |-> Hole]
         /\ \A i : Opened(v, i) = {}
         /\ Closed(v) = R /\ Lives(v) = {e.cat : e \in R}
<1> DEFINE n == Cardinality(R)
           D == [b \in Block |-> Hole]
           z == Cardinality(Block \ U)
<1>1. z \in Nat
  BY FreeCount
<1>2. D \in [Block -> Val \cup {Hole}]
  OBVIOUS
<1>3. n \in Nat
  OBVIOUS
<1>4. v = [rec |-> R, files |-> {}, used |-> U, freeBks |-> z, disk |-> D, next |-> n + 1,
           blessed |-> 0]
  BY DEF Mounted
<1> HIDE DEF n, D, z
<1>5. v \in AVolume
  BY <1>1, <1>2, <1>3, <1>4 DEF AVolume
<1>6. /\ v.rec = R /\ v.files = {} /\ v.used = U /\ v.next = n + 1 /\ v.freeBks = z /\ v.disk = D
  BY <1>4
<1>7. \A i : Opened(v, i) = {}
  BY <1>6 DEF Opened
<1>8. Closed(v) = R
  BY <1>6, <1>7 DEF Closed
<1>9. Lives(v) = {e.cat : e \in R}
  BY <1>6, <1>8 DEF Lives
<1> QED
  BY <1>5, <1>6, <1>7, <1>8, <1>9 DEF n, D, z

\* hfs_mount of a volume that is new,
LEMMA NewVolume ==
  ASSUME vol = Mounted({}, {}), view = {}, readonly = FALSE, fds = [d \in Fd |-> NoFd]
  PROVE  Tidy /\ FdsInv
<1> DEFINE R == {}
           U == {}
<1>1. IsFiniteSet(R) /\ Cardinality(R) = 0
  BY FS_EmptySet
<1>2. IsFiniteSet(Block) /\ MaxId \in Nat \ {0}
  BY FuseAssumption
<1>3. R \in SUBSET ARecord /\ U \in SUBSET Block /\ vol = Mounted(R, U)
  OBVIOUS
<1>4. R = {} /\ U = {}
  OBVIOUS
<1> HIDE DEF R, U
<1>5. /\ vol \in AVolume
      /\ vol.rec = R /\ vol.files = {} /\ vol.used = U /\ vol.next = 1
      /\ vol.freeBks = Cardinality(Block \ U) /\ vol.disk = [b \in Block |-> Hole]
      /\ \A i : Opened(vol, i) = {}
      /\ Closed(vol) = R /\ Lives(vol) = {e.cat : e \in R}
  <2>1. Cardinality(R) \in Nat
    BY <1>1
  <2>2. /\ vol \in AVolume
        /\ vol.rec = R /\ vol.files = {} /\ vol.used = U /\ vol.next = Cardinality(R) + 1
        /\ vol.freeBks = Cardinality(Block \ U) /\ vol.disk = [b \in Block |-> Hole]
        /\ \A i : Opened(vol, i) = {}
        /\ Closed(vol) = R /\ Lives(vol) = {e.cat : e \in R}
    BY ONLY <1>3, <2>1, MountedIs
  <2> QED
    BY <1>1, <2>2
<1>6. Records(vol)
  BY <1>1, <1>2, <1>4, <1>5 DEF Records
<1>7. Closed(vol) = {} /\ Lives(vol) = {}
  BY <1>4, <1>5
<1>8. Handled(vol, readonly)
  BY <1>5, <1>7 DEF Handled
<1>9. Space(vol)
  BY <1>4, <1>5, <1>7 DEF Space
<1>10. ~MovedAndChanged(vol)
  BY <1>4, <1>5 DEF MovedAndChanged
<1>11. Shows(vol, view)
  BY <1>4, <1>5 DEF Shows
<1>12. FdsInv /\ \A i : Holding(fds, i) = {}
  BY DEF FdsInv, Holding
<1>13. Counts(vol, fds)
  <2>1. Cardinality({}) = 0
    BY FS_EmptySet
  <2> QED
    BY <1>5, <1>12, <2>1 DEF Counts, RefsOf
<1> QED
  BY <1>5, <1>6, <1>8, <1>9, <1>10, <1>11, <1>12, <1>13 DEF Tidy, Sound

\* and of one with a file that a crash has left untrimmed.
LEMMA UntrimmedVolume ==
  ASSUME NEW p \in NewPath, NEW b \in Block, NEW c \in Block \ {b},
         vol = Mounted({Untrimmed(p, b, c)}, {b, c}),
         view = {[id |-> 1, path |-> p, data |-> <<Hole>>, rsrc |-> << >>, info |-> "plain"]},
         readonly \in BOOLEAN, fds = [d \in Fd |-> NoFd]
  PROVE  Tidy /\ FdsInv
<1> DEFINE e == Untrimmed(p, b, c)
           x == [id |-> 1, path |-> p, data |-> <<Hole>>, rsrc |-> << >>, info |-> "plain"]
           D == [len |-> 1, blocks |-> <<b, c>>]
<1>1. IsFiniteSet(Block) /\ MaxId \in Nat \ {0} /\ MaxLen \in Nat \ {0} /\ MaxRsrc \in Nat
  BY FuseAssumption
<1>2. p \in Path
  BY DEF NewPath
<1>3. /\ e.at = p /\ e.cat.id = 1 /\ e.cat.data = D /\ e.cat.rsrc = NoFork
      /\ e.cat.info = "plain"
  BY DEF Untrimmed, NewCat
<1>4. D \in AFork /\ NoFork \in AFork
  <2>1. 1 \in 0..MaxLen + MaxRsrc /\ 0 \in 0..MaxLen + MaxRsrc
    BY <1>1
  <2>2. <<b, c>> \in Seq(Block) /\ << >> \in Seq(Block)
    OBVIOUS
  <2> QED
    BY <2>1, <2>2 DEF AFork, NoFork
<1>5. e \in ARecord
  <2>1. 1 \in 1..MaxId
    BY <1>1
  <2>2. [NewCat(1) EXCEPT !.data = D] \in ACat
    <3> HIDE DEF D
    <3> QED
      BY <1>4, <2>1 DEF NewCat, ACat
  <2> QED
    BY <1>2, <2>2 DEF Untrimmed, ARecord
<1>6. Range(<<b, c>>) = {b, c} /\ IsInjective(<<b, c>>) /\ Range(<< >>) = {} /\ IsInjective(<< >>)
  <2>1. DOMAIN <<b, c>> = {1, 2} /\ <<b, c>>[1] = b /\ <<b, c>>[2] = c /\ DOMAIN << >> = {}
    OBVIOUS
  <2> QED
    BY <2>1 DEF Range, IsInjective
<1>7. D.len = 1 /\ D.blocks = <<b, c>> /\ NoFork.len = 0 /\ NoFork.blocks = << >>
  BY DEF NoFork
<1>8. /\ Sane(e.cat) /\ BlocksOf(e.cat) = {b, c} /\ NoExcess(e.cat.rsrc)
  BY <1>3, <1>6, <1>7 DEF Sane, Whole, BlocksOf, NoExcess
<1>9. \A d : d = [a \in Block |-> Hole] => Shown(d, e.cat.data) = <<Hole>> /\ Shown(d, e.cat.rsrc) = << >>
  <2> SUFFICES ASSUME NEW d, d = [a \in Block |-> Hole]
               PROVE  Shown(d, D) = <<Hole>> /\ Shown(d, NoFork) = << >>
    BY <1>3
  <2>1. Shown(d, NoFork) = << >>
    BY <1>7 DEF Shown
  <2>2. Shown(d, D) = [i \in 1..1 |-> d[<<b, c>>[i]]]
    BY <1>7 DEF Shown
  <2>3. \A i \in 1..1 : d[<<b, c>>[i]] = Hole
    OBVIOUS
  <2>4. Shown(d, D) = [i \in 1..1 |-> Hole]
    BY <2>2, <2>3
  <2>5. [i \in 1..1 |-> Hole] = <<Hole>>
    OBVIOUS
  <2> QED
    BY <2>1, <2>4, <2>5
<1>10. /\ x.id = 1 /\ x.path = p /\ x.data = <<Hole>> /\ x.rsrc = << >> /\ x.info = "plain"
       /\ x \in AView
  <2>1. 1 \in 1..MaxId
    BY <1>1
  <2>2. <<Hole>> \in Seq(Val \cup {Hole}) /\ << >> \in Seq(Val \cup {Hole})
    OBVIOUS
  <2> QED
    BY <1>2, <2>1, <2>2 DEF AView
<1>11. view = {x}
  OBVIOUS
<1> DEFINE R == {e}
           U == {b, c}
<1>12. /\ vol = Mounted(R, U) /\ R \in SUBSET ARecord /\ U \in SUBSET Block
       /\ BlocksOf(e.cat) = U
  BY <1>5, <1>8
<1>13. IsFiniteSet(R) /\ Cardinality(R) = 1
  BY FS_Singleton
<1> HIDE DEF e, x, D, U
<1>14. \A f : f \in R <=> f = e
  OBVIOUS
<1> HIDE DEF R
<1>15. /\ vol \in AVolume /\ vol.rec = R /\ vol.files = {} /\ vol.used = U /\ vol.next = 2
       /\ vol.freeBks = Cardinality(Block \ U) /\ vol.disk = [a \in Block |-> Hole]
       /\ \A i : Opened(vol, i) = {}
       /\ Closed(vol) = R /\ Lives(vol) = {f.cat : f \in R}
  <2>1. Cardinality(R) \in Nat /\ Cardinality(R) + 1 = 2
    BY <1>13
  <2> QED
    BY ONLY <1>12, <2>1, MountedIs
<1>16. Lives(vol) = {e.cat}
  BY ONLY <1>14, <1>15
<1>17. Records(vol)
  <2>1. 1 < 2 /\ 2 <= MaxId + 1
    BY <1>1
  <2>2. \A f \in vol.rec : f = e
    BY ONLY <1>14, <1>15
  <2> QED
    BY ONLY <1>3, <1>8, <1>13, <1>15, <2>1, <2>2 DEF Records
<1>18. Handled(vol, readonly)
  BY ONLY <1>8, <1>14, <1>15 DEF Handled
<1>19. Space(vol)
  <2>1. \A j, k \in Lives(vol) : j = k
    BY ONLY <1>16
  <2>2. UNION {BlocksOf(k) : k \in Lives(vol)} = BlocksOf(e.cat)
    BY ONLY <1>16
  <2> QED
    BY ONLY <1>12, <1>15, <2>1, <2>2 DEF Space
<1>20. ~MovedAndChanged(vol)
  BY ONLY <1>14, <1>15 DEF MovedAndChanged
<1>21. Matches(vol.disk, e.cat, x)
  BY <1>3, <1>9, <1>10, <1>15 DEF Matches
<1>22. Shows(vol, view)
  <2>1. Named(vol, x)
    BY ONLY <1>3, <1>10, <1>14, <1>15 DEF Named
  <2>2. \A w \in view : Named(vol, w) /\ \E k \in Lives(vol) : Matches(vol.disk, k, w)
    BY ONLY <1>11, <1>16, <1>21, <2>1
  <2>3. \A f \in vol.rec : \E w \in view : w.id = f.cat.id
    BY ONLY <1>3, <1>10, <1>11, <1>14, <1>15
  <2> QED
    BY ONLY <1>10, <1>11, <2>2, <2>3 DEF Shows
<1>23. FdsInv /\ \A i : Holding(fds, i) = {}
  BY DEF FdsInv, Holding
<1>24. Counts(vol, fds)
  <2>1. Cardinality({}) = 0
    BY FS_EmptySet
  <2> QED
    BY ONLY <1>15, <1>23, <2>1 DEF Counts, RefsOf
<1> QED
  BY ONLY <1>15, <1>17, <1>18, <1>19, <1>20, <1>22, <1>23, <1>24 DEF Tidy, Sound

\* The invariant holds after hfs_mount,
LEMMA InitTidy ==
  ASSUME Init
  PROVE  FuseInv
<1>1. Tidy /\ FdsInv
  <2>1. CASE vol = Mounted({}, {}) /\ view = {} /\ readonly = FALSE
    BY <2>1, NewVolume DEF Init
  <2>2. CASE \E p \in NewPath, b \in Block : \E c \in Block \ {b} :
               /\ vol = Mounted({Untrimmed(p, b, c)}, {b, c})
               /\ view = {[id |-> 1, path |-> p, data |-> <<Hole>>, rsrc |-> << >>,
                           info |-> "plain"]}
               /\ readonly \in BOOLEAN
    BY <2>2, UntrimmedVolume DEF Init
  <2> QED
    BY <2>1, <2>2 DEF Init
<1> QED
  BY <1>1 DEF FuseInv

\* Every callback keeps what it relies on.
LEMMA NextTidy ==
  ASSUME Tidy, FdsInv, Next, breach' = {}
  PROVE  TidyNext
<1>1. UserPath \subseteq Path /\ NewPath \subseteq Path
  BY DEF UserPath, NewPath
<1>2. ASSUME NEW p \in NewPath, FuseHFS_mknod(p) PROVE TidyNext
  BY <1>2, MknodTidy
<1>3. ASSUME NEW p \in Path, OnPath(p) PROVE TidyNext
  BY <1>1, <1>3, UnlinkTidy, GetRsrcTidy, RemoveRsrcTidy, TruncateTidy, RenameTidy, FinderTidy,
     SetRsrcTidy DEF OnPath
<1>4. ASSUME NEW d \in Fd, OnFd(d) PROVE TidyNext
  BY <1>1, <1>4, CreateTidy, OpenTidy, ReadTidy, ReleaseTidy, FtruncateTidy, WriteTidy DEF OnFd
<1> QED
  BY <1>1, <1>2, <1>3, <1>4 DEF Next

\* and every callback keeps it.
LEMMA StepTidy ==
  ASSUME FuseInv, [Next]_vars
  PROVE  FuseInv'
<1>1. CASE UNCHANGED vars
  <2>1. Tidy' <=> Tidy
    BY <1>1 DEF vars, Tidy
  <2>2. FdsInv' <=> FdsInv
    BY <1>1 DEF vars, FdsInv
  <2>3. breach' = breach
    BY <1>1 DEF vars
  <2> QED
    BY <2>1, <2>2, <2>3 DEF FuseInv
<1>2. CASE Next
  <2> SUFFICES ASSUME breach' = {} PROVE Tidy' /\ FdsInv'
    BY DEF FuseInv
  <2>1. breach = {} /\ ~MovedAndChanged(vol') /\ readonly' = readonly
    BY <1>2, AllBreach, BreachMeans
  <2>2. Tidy /\ FdsInv
    BY <2>1 DEF FuseInv
  <2>3. TidyNext
    BY <1>2, <2>2, NextTidy
  <2>4. FdsInv'
    BY <1>2, <2>2, FdsStay
  <2>5. Tidy'
    BY <2>1, <2>3 DEF Tidy, TidyNext
  <2> QED
    BY <2>4, <2>5
<1> QED
  BY <1>1, <1>2

\* While nobody has done what the program cannot take, the volume is sound, what
\* is read of it is what users have made, and the handles of libhfs count the
\* descriptors of libfuse.
THEOREM FilesSound == Spec => []FuseInv
<1>1. Init => FuseInv
  BY InitTidy
<1>2. FuseInv /\ [Next]_vars => FuseInv'
  BY StepTidy
<1> QED
  BY <1>1, <1>2, PTL DEF Spec

-----------------------------------------------------------------------------
(***************************************************************************)
(* The properties.                                                         *)
(***************************************************************************)
\* What a file holds is one of the sets of forks that there are.
LEMMA LiveIs ==
  ASSUME Tidy, NEW e \in vol.rec
  PROVE  /\ Live(e) \in Lives(vol) /\ Live(e).id = e.cat.id
         /\ Opened(vol, e.cat.id) = {} => Live(e) = e.cat
         /\ \A h \in Opened(vol, e.cat.id) : Live(e) = h.cat /\ Backs(e, h)
<1>1. Sound(vol, readonly) /\ Handled(vol, readonly) /\ Records(vol)
  BY DEF Tidy, Sound
<1>2. CASE Opened(vol, e.cat.id) = {}
  <2>1. Live(e) = e.cat
    BY <1>2 DEF Live
  <2>2. e \in Closed(vol)
    BY <1>2 DEF Closed
  <2> QED
    BY <1>1, <1>2, <2>1, <2>2, LivesAre
<1>3. ASSUME NEW h \in Opened(vol, e.cat.id)
      PROVE  Live(e) = h.cat /\ h.cat.id = e.cat.id /\ Backs(e, h) /\ h.cat \in Lives(vol)
  <2>1. h \in vol.files /\ h.cat.id = e.cat.id
    BY <1>3 DEF Opened
  <2>2. Opened(vol, e.cat.id) = {h}
    BY <1>1, <2>1, OpenedIs DEF Handled
  <2>3. (CHOOSE x \in Opened(vol, e.cat.id) : TRUE) = h
    BY <2>2
  <2>4. Live(e) = h.cat
    BY <2>2, <2>3 DEF Live
  <2>5. PICK f \in vol.rec : Backs(f, h)
    BY <1>1, <2>1 DEF Handled
  <2>6. f = e
    BY <1>1, <2>1, <2>5 DEF Backs, Records
  <2> QED
    BY <1>1, <2>1, <2>4, <2>5, <2>6, LivesAre
<1> QED
  BY <1>2, <1>3

\* The files that the blocks are counted for are these.
LEMMA CatsAre ==
  ASSUME Tidy
  PROVE  Cats = Lives(vol)
<1>1. \A e \in vol.rec : Live(e) \in Lives(vol)
  BY LiveIs
<1>2. \A e \in Closed(vol) : e \in vol.rec /\ Live(e) = e.cat
  BY LiveIs DEF Closed
<1> QED
  BY <1>1, <1>2 DEF Cats, Lives

\* Each block that is in use belongs to one file, once.
LEMMA TidySpace ==
  ASSUME Tidy
  PROVE  SpaceSound
<1>1. Sound(vol, readonly) /\ Space(vol) /\ Cats = Lives(vol)
  BY CatsAre DEF Tidy, Sound
<1>2. ASSUME NEW c \in Lives(vol)
      PROVE  Range(Owned(c)) = BlocksOf(c) /\ IsInjective(Owned(c))
  <2>1. c \in ACat /\ Sane(c)
    BY <1>1, LivesAre
  <2>2. c.data.blocks \in Seq(Block) /\ c.rsrc.blocks \in Seq(Block)
    BY <2>1 DEF ACat, AFork
  <2> QED
    BY <2>1, <2>2, InjectiveConcat DEF Owned, BlocksOf, Sane, Whole
<1>3. \A c, k \in Cats : c.id # k.id => Range(Owned(c)) \cap Range(Owned(k)) = {}
  BY <1>1, <1>2 DEF Space
<1>4. vol.used = UNION {Range(Owned(c)) : c \in Cats}
  <2>1. \A x : x \in UNION {Range(Owned(c)) : c \in Lives(vol)}
               <=> x \in UNION {BlocksOf(k) : k \in Lives(vol)}
    BY <1>2
  <2>2. UNION {Range(Owned(c)) : c \in Lives(vol)} = UNION {BlocksOf(k) : k \in Lives(vol)}
    BY <2>1
  <2> QED
    BY <1>1, <2>2 DEF Space
<1> QED
  BY <1>1, <1>2, <1>3, <1>4 DEF SpaceSound, Space

\* What is read of a file is what its user has made.
LEMMA TidyReads ==
  ASSUME Tidy, NEW w \in view
  PROVE  \E e \in vol.rec :
           /\ e.at = w.path /\ e.cat.id = w.id /\ e.cat.info = w.info
           /\ Contents(Live(e).data) = w.data /\ Contents(Live(e).rsrc) = w.rsrc
           /\ e.cat.data.len = Len(w.data) \/ \E h \in Opened(vol, w.id) : h.dirty
           /\ e.cat.rsrc.len = Len(w.rsrc) \/ \E h \in Opened(vol, w.id) : h.dirty
<1>1. Sound(vol, readonly) /\ Shows(vol, view)
  BY DEF Tidy
<1>2. PICK e \in vol.rec : e.at = w.path /\ e.cat.id = w.id /\ e.cat.info = w.info
  BY <1>1 DEF Shows, Named
<1> DEFINE k == Live(e)
<1>3. k \in Lives(vol) /\ k.id = w.id
  BY <1>2, LiveIs
<1>4. Matches(vol.disk, k, w)
  BY <1>1, <1>3, SeenMatches
<1>5. Contents(k.data) = w.data /\ Contents(k.rsrc) = w.rsrc
  BY <1>4 DEF Contents, Shown, Matches
<1>6. k.data.len = Len(w.data) /\ k.rsrc.len = Len(w.rsrc)
  <2>1. k \in ACat /\ Sane(k)
    BY <1>1, <1>3, LivesAre
  <2>2. /\ k.data \in AFork /\ k.rsrc \in AFork
        /\ k.data.len <= Len(k.data.blocks) /\ k.rsrc.len <= Len(k.rsrc.blocks)
    BY <2>1 DEF ACat, Sane, Whole
  <2>3. vol.disk \in [Block -> Data]
    BY <1>1 DEF Sound, AVolume, Data
  <2>4. Len(Shown(vol.disk, k.data)) = k.data.len /\ Len(Shown(vol.disk, k.rsrc)) = k.rsrc.len
    BY <2>2, <2>3, ShownIs
  <2> QED
    BY <1>4, <2>4 DEF Matches
<1>7. e.cat = k \/ \E h \in Opened(vol, w.id) : h.dirty
  <2>1. CASE Opened(vol, e.cat.id) = {}
    BY <2>1, LiveIs
  <2>2. ASSUME NEW h \in Opened(vol, e.cat.id) PROVE e.cat = k \/ h.dirty
    BY <2>2, LiveIs DEF Backs
  <2> QED
    BY <1>2, <2>1, <2>2
<1> HIDE DEF k
<1> QED
  BY <1>2, <1>5, <1>6, <1>7 DEF k

\* There are as many files as their users have made.
LEMMA TidyMany ==
  ASSUME Tidy
  PROVE  Cardinality(vol.rec) = Cardinality(view)
<1>1. Records(vol) /\ Shows(vol, view)
  BY DEF Tidy, Sound
<1> DEFINE f == [e \in vol.rec |-> CHOOSE w \in view : w.id = e.cat.id]
<1>2. \A e \in vol.rec : f[e] \in view /\ f[e].id = e.cat.id
  BY <1>1 DEF Shows
<1>3. f \in [vol.rec -> view]
  BY <1>2
<1>4. \A e, g \in vol.rec : f[e] = f[g] => e = g
  <2> HIDE DEF f
  <2> QED
    BY <1>1, <1>2 DEF Records
<1>5. \A w \in view : \E e \in vol.rec : f[e] = w
  <2> HIDE DEF f
  <2> QED
    BY <1>1, <1>2 DEF Shows, Named
<1> HIDE DEF f
<1>6. f \in Bijection(vol.rec, view)
  BY <1>3, <1>4, <1>5 DEF Bijection, Injection, Surjection, IsInjective
<1>7. IsFiniteSet(vol.rec)
  BY <1>1 DEF Records
<1> QED
  BY <1>6, <1>7, FS_Bijection DEF ExistsBijection

\* Files are what their user has made them.
LEMMA TidySeen ==
  ASSUME Tidy
  PROVE  AsSeen
  BY TidyReads, TidyMany DEF AsSeen

\* A fork has no more blocks than there are.
LEMMA ForkFits ==
  ASSUME NEW f \in AFork, IsInjective(f.blocks)
  PROVE  f \in ForkType
<1> DEFINE s == f.blocks
           N == Cardinality(Block)
<1>1. s \in Seq(Block) /\ f.len \in 0..MaxLen + MaxRsrc
      /\ f = [len |-> f.len, blocks |-> f.blocks]
  BY DEF AFork
<1>2. Range(s) \subseteq Block /\ Cardinality(Range(s)) = Len(s)
  BY <1>1, InjectiveCount, RangeOfSeq
<1>3. N \in Nat /\ Cardinality(Range(s)) <= N
  BY <1>2, FuseAssumption, FS_Subset, FS_CardinalityType
<1>4. Len(s) \in 0..N /\ s \in [1..Len(s) -> Block]
  BY <1>1, <1>2, <1>3
<1>5. s \in UNION {[1..n -> Block] : n \in 0..N}
  BY <1>4
<1> HIDE DEF s, N
<1> QED
  BY <1>1, <1>5 DEF ForkType, s, N

\* Neither has a catalog record.
LEMMA CatFits ==
  ASSUME NEW k \in ACat, Sane(k)
  PROVE  k \in CatType
<1>1. k.data \in ForkType /\ k.rsrc \in ForkType
  BY ForkFits DEF ACat, Sane, Whole
<1> QED
  BY <1>1 DEF ACat, CatType

\* The handles count the descriptors.
LEMMA TidyHandles ==
  ASSUME Tidy, FdsInv, readonly \in BOOLEAN
  PROVE  HandlesSound
<1>1. Sound(vol, readonly) /\ vol \in AVolume /\ Records(vol) /\ Handled(vol, readonly)
      /\ Counts(vol, fds)
  BY DEF Tidy, Sound
<1>2. \A e \in vol.rec : e.at \in Path /\ e.cat \in CatType
  BY <1>1, VolumeFields, CatFits DEF Records
<1>3. ASSUME NEW h \in vol.files
      PROVE  /\ h.at \in Path /\ h.cat \in CatType /\ h.fork \in {"data", "rsrc"}
             /\ h.dirty \in BOOLEAN /\ h.refs \in Nat \ {0}
             /\ h.cat.data.len <= Len(h.cat.data.blocks)
             /\ h.cat.rsrc.len <= Len(h.cat.rsrc.blocks)
  <2>1. h \in AnOpenFile /\ Sane(h.cat)
    BY <1>1, VolumeFields DEF Handled
  <2>2. h.cat \in ACat
    BY <2>1 DEF AnOpenFile
  <2>3. h.cat \in CatType
    BY <2>1, <2>2, CatFits
  <2> QED
    BY <2>1, <2>3 DEF AnOpenFile, Sane, Whole
<1>4. \A d \in Fd : fds[d] = NoFd \/ (fds[d].id \in 1..MaxId /\ fds[d].path \in Path)
  BY DEF FdsInv, ADescriptor
<1>5. TypeOK
  BY <1>1, <1>2, <1>3, <1>4, VolumeFields DEF TypeOK
<1>6. ASSUME NEW d \in Fd, fds[d] # NoFd
      PROVE  Handles(vol, d) # {}
  <2> DEFINE i == fds[d].id
             H == Holding(fds, i)
  <2>1. i \in Nat
    BY <1>4, <1>6
  <2>2. d \in H /\ IsFiniteSet(H)
    BY <1>6, HoldingIs DEF Holding, FdsInv
  <2>3. Cardinality(H) # 0
    BY <2>2, FS_EmptySet
  <2> HIDE DEF H
  <2>4. RefsOf(vol, i) = Cardinality(H)
    BY <1>1, <2>1 DEF Counts, H
  <2> QED
    BY <1>6, <2>3, <2>4 DEF RefsOf, Handles
<1>7. ASSUME NEW h \in vol.files
      PROVE  h.refs = Cardinality({d \in Fd : fds[d] # NoFd /\ fds[d].id = h.cat.id})
  <2>1. h.cat.id \in Nat
    BY <1>1, VolumeFields DEF ACat
  <2>2. RefsOf(vol, h.cat.id) = h.refs
    BY <1>1, RefsAre DEF Handled
  <2> QED
    BY <1>1, <2>1, <2>2 DEF Counts, Holding
<1> QED
  BY <1>5, <1>6, <1>7 DEF HandlesSound, RefsExact

-----------------------------------------------------------------------------
(***************************************************************************)
(* Volumes mounted for reading.                                            *)
(***************************************************************************)
\* Nothing but the table of handles changes.
Quiet(v, w) ==
  Shape(w) /\ w.rec = v.rec /\ w.used = v.used /\ w.freeBks = v.freeBks /\ w.disk = v.disk

\* An hfsfile changes nothing else.
LEMMA FilesOnly ==
  ASSUME NEW v, Shape(v), NEW F
  PROVE  Quiet(v, [v EXCEPT !.files = F])
<1>1. [v EXCEPT !.files = F]
        = [rec |-> v.rec, files |-> F, used |-> v.used, freeBks |-> v.freeBks,
           disk |-> v.disk, next |-> v.next, blessed |-> v.blessed]
  BY DEF Shape
<1> DEFINE w == [v EXCEPT !.files = F]
<1>2. /\ w.rec = v.rec /\ w.files = F /\ w.used = v.used /\ w.freeBks = v.freeBks
      /\ w.disk = v.disk /\ w.next = v.next /\ w.blessed = v.blessed
  BY <1>1
<1>3. w = [rec |-> w.rec, files |-> w.files, used |-> w.used, freeBks |-> w.freeBks,
           disk |-> w.disk, next |-> w.next, blessed |-> w.blessed]
  BY <1>1, <1>2
<1> QED
  BY <1>2, <1>3 DEF Quiet, Shape

\* A volume mounted for reading is neither trimmed nor stored to.
LEMMA QuietCalls ==
  ASSUME readonly, NEW v, Shape(v), NEW h
  PROVE  /\ \A fork : Quiet(v, SetFork(v, h, fork))
         /\ Quiet(v, Close(v, h))
         /\ \A e : Quiet(v, Open(v, e))
<1>1. \A g : Quiet(v, Become(v, h, g))
  BY FilesOnly DEF Become
<1>2. Trunc(v, h) = v /\ AfterTrunc(h) = h /\ Flush(v, h) = v
  BY DEF Trunc, AfterTrunc, Flush
<1>3. \A fork : Quiet(v, SetFork(v, h, fork))
  BY <1>1, <1>2 DEF SetFork
<1>4. Quiet(v, Close(v, h))
  <2>1. CASE h.refs > 1
    BY <1>1, <2>1 DEF Close
  <2>2. CASE ~(h.refs > 1)
    <3>1. Close(v, h) = [v EXCEPT !.files = {x \in @ : x.cat.id # h.cat.id}]
      BY <1>2, <2>2 DEF Close
    <3> QED
      BY <3>1, FilesOnly
  <2> QED
    BY <2>1, <2>2
<1>5. ASSUME NEW e PROVE Quiet(v, Open(v, e))
  <2>1. CASE Opened(v, e.cat.id) = {}
    BY <2>1, FilesOnly DEF Open
  <2>2. CASE Opened(v, e.cat.id) # {}
    BY <2>2, FilesOnly DEF Open, Become
  <2> QED
    BY <2>1, <2>2
<1> QED
  BY <1>3, <1>4, <1>5

\* Quiet calls follow each other.
LEMMA QuietTwice ==
  ASSUME NEW u, NEW v, NEW w, Quiet(u, v), Quiet(v, w)
  PROVE  Quiet(u, w)
  BY DEF Quiet

\* What each callback does to a volume mounted for reading.
LEMMA QuietStep ==
  ASSUME ReadInv, readonly, Next
  PROVE  /\ Quiet(vol, vol')
         /\ \A d \in Fd : fds'[d] # NoFd => fds'[d].path.name \notin Hidden
<1>1. Shape(vol) /\ fds = [d \in Fd |-> fds[d]]
      /\ \A d \in Fd : fds[d] # NoFd => fds[d].path.name \notin Hidden
  BY DEF ReadInv
<1>2. ASSUME NEW d \in Fd, NEW p \in UserPath, FuseHFS_open(d, p)
      PROVE  /\ Quiet(vol, vol')
             /\ \A c \in Fd : fds'[c] # NoFd => fds'[c].path.name \notin Hidden
  <2>1. PICK e \in At(vol, p) :
          vol' = Open(vol, e) /\ fds' = [fds EXCEPT ![d] = [id |-> e.cat.id, path |-> p]]
    BY <1>2 DEF FuseHFS_open
  <2>2. fds'[d].path = p /\ \A c \in Fd \ {d} : fds'[c] = fds[c]
    BY <1>1, <2>1
  <2>3. p.name \notin Hidden
    BY DEF UserPath
  <2> QED
    BY <1>1, <2>1, <2>2, <2>3, QuietCalls
<1>3. ASSUME NEW d \in Fd, FuseHFS_read(d)
      PROVE  Quiet(vol, vol') /\ fds' = fds
  BY <1>1, <1>3, QuietCalls DEF FuseHFS_read
<1>4. ASSUME NEW d \in Fd, FuseHFS_release(d)
      PROVE  /\ Quiet(vol, vol')
             /\ \A c \in Fd : fds'[c] # NoFd => fds'[c].path.name \notin Hidden
  <2>1. PICK h \in Handles(vol, d) : \E v \in {SetFork(vol, h, "data")} :
          \E g \in Opened(v, h.cat.id) : \E w \in {Close(v, g)} :
            IF fds[d].path.name \in Hidden /\ LastOf(d)
            THEN /\ \E gone \in {At(w, fds[d].path)} :
                      vol' = IF gone = {} THEN w ELSE Delete(w, CHOOSE e \in gone : TRUE)
                 /\ view' = {x \in view : x.path # fds[d].path}
            ELSE vol' = w /\ UNCHANGED view
    BY <1>4 DEF FuseHFS_release
  <2>2. fds[d] # NoFd
    BY <2>1 DEF Handles
  <2>3. fds[d].path.name \notin Hidden
    BY <1>1, <2>2
  <2> DEFINE v == SetFork(vol, h, "data")
  <2>4. \E u \in {v} : \E g : \E w \in {Close(u, g)} : vol' = w
    BY <2>1, <2>3
  <2>5. \E g : vol' = Close(v, g)
    <3> HIDE DEF v
    <3> QED
      BY <2>4
  <2>6. Quiet(vol, v)
    BY <1>1, QuietCalls
  <2>7. Shape(v)
    BY <2>6 DEF Quiet
  <2> HIDE DEF v
  <2>8. Quiet(vol, vol')
    BY <2>5, <2>7, <2>6, QuietCalls, QuietTwice
  <2>9. fds' = [fds EXCEPT ![d] = NoFd]
    BY <1>4 DEF FuseHFS_release
  <2>10. fds'[d] = NoFd /\ \A c \in Fd \ {d} : fds'[c] = fds[c]
    BY <1>1, <2>9
  <2> QED
    BY <1>1, <2>8, <2>10
<1>5. ASSUME NEW p \in UserPath, FuseHFS_getxattr_rsrc(p)
      PROVE  Quiet(vol, vol') /\ fds' = fds
  <2>1. PICK e \in At(vol, p) :
          \E v \in RsrcOf(vol, e) : \E h \in Opened(v, e.cat.id) : vol' = Close(v, h)
    BY <1>5 DEF FuseHFS_getxattr_rsrc
  <2>2. PICK v \in RsrcOf(vol, e) : \E h : vol' = Close(v, h)
    BY <2>1
  <2> DEFINE u == Open(vol, e)
  <2>3. \E g : v = SetFork(u, g, "rsrc")
    BY <2>2 DEF RsrcOf
  <2>4. Quiet(vol, u) /\ Shape(u)
    BY <1>1, QuietCalls DEF Quiet
  <2> HIDE DEF u
  <2>5. Quiet(u, v)
    BY <2>4, <2>3, QuietCalls
  <2>6. Quiet(vol, v) /\ Shape(v)
    BY <2>4, <2>5, QuietTwice DEF Quiet
  <2>7. Quiet(vol, vol')
    BY <2>2, <2>6, QuietCalls, QuietTwice
  <2>8. UNCHANGED <<fds, readonly, view>>
    BY <1>5 DEF FuseHFS_getxattr_rsrc
  <2> QED
    BY <2>7, <2>8
<1>6. ASSUME NEW p \in NewPath PROVE ~FuseHFS_mknod(p) /\ \A d \in Fd : ~FuseHFS_create(d, p)
  BY DEF FuseHFS_mknod, FuseHFS_create, MayCreate
<1>7. ASSUME NEW p \in UserPath, OnPath(p) PROVE FuseHFS_getxattr_rsrc(p)
  BY <1>7 DEF OnPath, FuseHFS_unlink, FuseHFS_removexattr_rsrc, FuseHFS_truncate, FuseHFS_rename,
     FuseHFS_setxattr_finder, FuseHFS_setxattr_rsrc
<1>8. ASSUME NEW d \in Fd, OnFd(d)
      PROVE  FuseHFS_read(d) \/ FuseHFS_release(d) \/ \E p \in UserPath : FuseHFS_open(d, p)
  BY <1>6, <1>8 DEF OnFd, FuseHFS_ftruncate, FuseHFS_write
<1>9. CASE \E p \in UserPath : OnPath(p)
  BY <1>1, <1>5, <1>7, <1>9
<1>10. ASSUME NEW d \in Fd, OnFd(d)
       PROVE  /\ Quiet(vol, vol')
              /\ \A c \in Fd : fds'[c] # NoFd => fds'[c].path.name \notin Hidden
  BY <1>1, <1>2, <1>3, <1>4, <1>8, <1>10
<1> QED
  BY <1>6, <1>9, <1>10 DEF Next

\* The table of descriptors stays one.
LEMMA FdsTable ==
  ASSUME Next, fds = [d \in Fd |-> fds[d]]
  PROVE  fds' = [d \in Fd |-> fds'[d]]
<1>1. \A p, q : Renamed(p, q) = [d \in Fd |-> Renamed(p, q)[d]]
  BY DEF Renamed
<1>2. ASSUME NEW d \in Fd, NEW x, fds' = [fds EXCEPT ![d] = x] PROVE fds' = [c \in Fd |-> fds'[c]]
  BY <1>2
<1>3. ASSUME NEW p \in NewPath, FuseHFS_mknod(p) PROVE fds' = [d \in Fd |-> fds'[d]]
  BY <1>3 DEF FuseHFS_mknod
<1>4. ASSUME NEW p \in UserPath, OnPath(p) PROVE fds' = fds \/ \E q, r : fds' = Renamed(q, r)
  BY <1>4 DEF OnPath, FuseHFS_unlink, FuseHFS_getxattr_rsrc, FuseHFS_removexattr_rsrc,
     FuseHFS_truncate, FuseHFS_rename, FuseHFS_setxattr_finder, FuseHFS_setxattr_rsrc
<1>5. ASSUME NEW d \in Fd, OnFd(d) PROVE fds' = fds \/ \E x : fds' = [fds EXCEPT ![d] = x]
  BY <1>5 DEF OnFd, FuseHFS_create, FuseHFS_open, FuseHFS_read, FuseHFS_release,
     FuseHFS_ftruncate, FuseHFS_write
<1>6. ASSUME NEW p \in UserPath, OnPath(p) PROVE fds' = [d \in Fd |-> fds'[d]]
  BY <1>1, <1>4, <1>6
<1>7. ASSUME NEW d \in Fd, OnFd(d) PROVE fds' = [c \in Fd |-> fds'[c]]
  BY <1>2, <1>5, <1>7
<1> QED
  BY <1>3, <1>6, <1>7 DEF Next

\* Nothing is hidden on a volume mounted for reading (FuseHFS_unlink returns
\* EPERM), so that FuseHFS_release there has nothing to delete.
THEOREM ReadSound == Spec => []ReadInv
<1>1. Init => ReadInv
  <2> SUFFICES ASSUME Init PROVE ReadInv
    OBVIOUS
  <2>1. readonly \in BOOLEAN /\ fds = [d \in Fd |-> NoFd] /\ \E R, U : vol = Mounted(R, U)
    BY DEF Init
  <2>2. Shape(vol)
    BY <2>1 DEF Shape, Mounted
  <2> QED
    BY <2>1, <2>2 DEF ReadInv
<1>2. ReadInv /\ [Next]_vars => ReadInv'
  <2> SUFFICES ASSUME ReadInv, [Next]_vars PROVE ReadInv'
    OBVIOUS
  <2>1. CASE UNCHANGED vars
    BY <2>1 DEF vars, ReadInv, Shape
  <2>2. CASE Next
    <3>1. readonly' = readonly
      BY <2>2, AllBreach
    <3>2. fds' = [d \in Fd |-> fds'[d]]
      BY <2>2, FdsTable DEF ReadInv
    <3>3. readonly => /\ Quiet(vol, vol')
                      /\ \A d \in Fd : fds'[d] # NoFd => fds'[d].path.name \notin Hidden
      BY <2>2, QuietStep
    <3> QED
      BY <3>1, <3>2, <3>3 DEF ReadInv, Quiet
  <2> QED
    BY <2>1, <2>2
<1> QED
  BY <1>1, <1>2, PTL DEF Spec

\* hfs_open and hfs_close count: until a breach, each descriptor of libfuse has
\* an hfsfile, and its refs is the number of them, whatever the callbacks in
\* between opened, renamed, deleted or closed.
THEOREM HandlesCounted == Spec => [](breach = {} => HandlesSound)
<1>1. FuseInv /\ ReadInv => (breach = {} => HandlesSound)
  BY TidyHandles DEF FuseInv, ReadInv
<1> QED
  BY <1>1, FilesSound, ReadSound, PTL

\* Until a breach, what FuseHFS_read and the resource fork's attribute return is
\* what was written last: f_trunc, f_flush and hfs_setfork on a shared hfsfile neither
\* lose an update nor take one file's data for another's.
THEOREM FilesAsMade == Spec => []FilesAsSeen
<1>1. FuseInv => FilesAsSeen
  BY TidySeen DEF FuseInv, FilesAsSeen
<1> QED
  BY <1>1, FilesSound, PTL

\* Until a breach, f_alloc, f_trunc and hfs_delete agree with the bitmap: a block
\* in use belongs to one fork, once, and drFreeBks counts the free ones.
THEOREM BlocksOwnedOnce == Spec => []SpaceSound
<1>1. FuseInv => SpaceSound
  BY TidySpace DEF FuseInv, SpaceSound
<1> QED
  BY <1>1, FilesSound, PTL

\* On a volume mounted for reading, the callbacks change neither the catalog nor
\* the bitmap nor the data.
THEOREM ReadingKeepsVolume == Spec => ReadOnlyKept
<1>1. ReadInv /\ [Next]_vars
      => [readonly => UNCHANGED <<vol.rec, vol.used, vol.freeBks, vol.disk>>]_vars
  BY QuietStep DEF Quiet
<1> QED
  BY <1>1, ReadSound, PTL DEF Spec, ReadOnlyKept
=============================================================================
