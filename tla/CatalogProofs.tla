--------------------------- MODULE CatalogProofs ---------------------------
(***************************************************************************)
(* Proofs about Catalog.                                                   *)
(*                                                                         *)
(* RecordsSound: whatever fails, a step finds its record under its number  *)
(* and its key, and inserts one only under a number and a key that are     *)
(* free.                                                                   *)
(*                                                                         *)
(* ThreadsExact, CountsExact, ChecksSuffice: after its checks a call has   *)
(* steps that lead to a sound catalog (Success), unless its path went      *)
(* astray (Blocked) or the working directory is gone (Doomed).  On the way *)
(* the catalog owes to its counts what the rest of the steps will pay.     *)
(*                                                                         *)
(* CountsNear: what a count lacks, and what the rest of the call will add  *)
(* to it, are together within the number of calls that have failed.        *)
(*                                                                         *)
(* CatalogIsTree: in a sound catalog the steps of a call lead to one       *)
(* sound catalog or nowhere (GoesWhere), and change the objects once       *)
(* (OneChange): a call is one step of the tree.  A directory is moved only *)
(* where Above gives a way to the root that avoids it (AboveAvoids).       *)
(***************************************************************************)
EXTENDS Catalog, FiniteSetTheorems, SequenceTheorems, NaturalsInduction,
  WellFoundedInduction, TLAPS

-----------------------------------------------------------------------------
(* Recursion and paths. *)

\* A set of natural numbers that has an element has a least one.
LEMMA Least ==
  ASSUME NEW S \in SUBSET Nat, S # {}
  PROVE  \E x \in S : \A y \in S : x <= y
<1>1. \E R : IsWellFoundedOn(R, Nat) /\ \A x, y \in Nat : y < x => <<y, x>> \in R
  <2> DEFINE R == OpToRel(<, Nat)
  <2>1. IsWellFoundedOn(R, Nat)
    BY NatLessThanWellFounded, Zenon
  <2>2. \A x, y \in Nat : y < x => <<y, x>> \in R
    BY DEF OpToRel
  <2> QED
    BY <2>1, <2>2, Zenon
<1>2. PICK R : IsWellFoundedOn(R, Nat) /\ \A x, y \in Nat : y < x => <<y, x>> \in R
  BY <1>1
<1>3. \E x \in S : \A y \in S : <<y, x>> \notin R
  BY <1>2, WFMin, Zenon
<1>4. PICK x \in S : \A y \in S : <<y, x>> \notin R
  BY <1>3
<1>5. ASSUME NEW y \in S PROVE x <= y
  <2>1. x \in Nat /\ y \in Nat /\ ~ (y < x)
    BY <1>2, <1>4
  <2> QED
    BY <2>1
<1> QED
  BY <1>4, <1>5

\* A recursion over 0..n with values in S, and what it is to solve it.
Recursive(S, n, F, a) == n \in Nat /\ F \in [S \X (1..n) -> S] /\ a \in S

Solves(S, n, F, a, f) ==
  f \in [0..n -> S] /\ f[0] = a /\ \A i \in 1..n : f[i] = F[<<f[i - 1], i>>]

\* A recursion that is well typed has a solution.
LEMMA Solution ==
  ASSUME NEW S, NEW n, NEW F, NEW a, Recursive(S, n, F, a)
  PROVE  \E f : Solves(S, n, F, a, f)
<1>a. n \in Nat /\ F \in [S \X (1..n) -> S] /\ a \in S
  BY DEF Recursive
<1> DEFINE Upto(m) == \E f \in [0..m -> S] :
                        f[0] = a /\ \A i \in 1..m : f[i] = F[<<f[i - 1], i>>]
           Bad == {m \in 0..n : ~Upto(m)}
<1>0. Bad \in SUBSET Nat /\ \A m \in 0..n : m \in Bad <=> ~ Upto(m)
  <2> HIDE DEF Upto
  <2> QED
    BY <1>a
<1>1. SUFFICES ASSUME Bad # {} PROVE FALSE
  <2>1. n \in 0..n
    BY <1>a
  <2>2. Upto(n)
    <3> HIDE DEF Upto, Bad
    <3> QED
      BY <2>1, <1>0, <1>1
  <2> QED
    BY <2>2 DEF Solves
<1> HIDE DEF Bad
<1>2. PICK m \in Bad : \A k \in Bad : m <= k
  BY <1>0, <1>1, Least
<1>3. CASE m = 0
  <2> DEFINE g == [i \in 0..m |-> a]
  <2>1. g \in [0..m -> S] /\ g[0] = a /\ 1..m = {}
    BY <1>a, <1>3
  <2>2. Upto(m)
    <3> HIDE DEF g
    <3> QED
      BY <2>1
  <2>3. m \in Bad /\ m \in 0..n
    BY <1>0, <1>2 DEF Bad
  <2> HIDE DEF Upto
  <2> QED
    BY <2>2, <2>3, <1>0
<1>4. CASE m # 0
  <2>1. m - 1 \in 0..n /\ m \in 1..n /\ Upto(m - 1)
    <3>1. m \in 0..n /\ m \in Nat /\ m - 1 \in 0..n /\ m \in 1..n
      <4>1. m \in 0..n
        BY <1>0, <1>2 DEF Bad
      <4> QED
        BY <4>1, <1>4, <1>a
    <3>2. m - 1 \notin Bad
      BY <1>0, <1>2, <3>1
    <3> QED
      BY <1>0, <3>1, <3>2
  <2>2. PICK f \in [0..m - 1 -> S] : f[0] = a /\ \A i \in 1..m - 1 : f[i] = F[<<f[i - 1], i>>]
    BY <2>1
  <2> DEFINE g == [i \in 0..m |-> IF i = m THEN F[<<f[m - 1], m>>] ELSE f[i]]
  <2>3. F[<<f[m - 1], m>>] \in S
    <3>1. <<f[m - 1], m>> \in S \X (1..n)
      BY <2>1, <2>2, <1>a
    <3> QED
      BY <3>1, <1>a
  <2>4. g \in [0..m -> S]
    BY <2>1, <2>2, <2>3
  <2>5. g[0] = a
    BY <2>1, <2>2, <1>4
  <2>6. ASSUME NEW i \in 1..m PROVE g[i] = F[<<g[i - 1], i>>]
    <3>1. CASE i = m
      <4>1. g[i] = F[<<f[m - 1], m>>] /\ g[i - 1] = f[m - 1]
        BY <3>1, <2>1
      <4> HIDE DEF g
      <4> QED
        BY <3>1, <4>1
    <3>2. CASE i # m
      <4>1. i \in 1..m - 1 /\ i - 1 \in 0..m /\ i - 1 # m /\ i \in 0..m
        BY <3>2, <2>1
      <4>2. g[i] = f[i] /\ g[i - 1] = f[i - 1]
        BY <4>1, <3>2
      <4>3. f[i] = F[<<f[i - 1], i>>]
        BY <4>1, <2>2
      <4> HIDE DEF g
      <4> QED
        BY <4>2, <4>3
    <3> QED
      BY <3>1, <3>2
  <2>7. Upto(m)
    <3> HIDE DEF g
    <3> QED
      BY <2>4, <2>5, <2>6
  <2>8. m \in Bad /\ m \in 0..n
    BY <1>0, <1>2 DEF Bad
  <2> HIDE DEF Upto
  <2> QED
    BY <2>7, <2>8, <1>0
<1> QED
  BY <1>3, <1>4

\* Where a walk from w can come to in k.
Closed(k, D, w) ==
  /\ D \subseteq Nat /\ RootPar \in D /\ w \in D
  /\ \A e \in k.ent : e.dir => e.id \in D
  /\ \A t \in k.thr : t.par \in D

Sound(k, D, r) ==
  /\ r.how \in {"found", "absent", "error"}
  /\ r.how = "found" => r.ent \in k.ent /\ r.par = r.ent.par /\ r.name = r.ent.name
  /\ r.how = "absent" => r.par = 0 \/ (r.par \in D /\ r.name \in Name)

States(k, D) ==
  {At(i, p, m) : i \in D, p \in D, m \in Name}
  \cup {At(i, 0, NoName) : i \in D}
  \cup {Resolved("found", e, e.par, e.name) : e \in k.ent}
  \cup {Resolved("absent", NoEnt, p, m) : p \in D, m \in Name}
  \cup {Resolved("absent", NoEnt, 0, m) : m \in Name \cup {NoName}}
  \cup {Resolved("error", NoEnt, p, m) : p \in D, m \in Name}

\* the last state is a result, or it stands at a directory
LEMMA StateShape ==
  ASSUME NEW k, NEW D, NEW s \in States(k, D)
  PROVE  \/ /\ s.how = "at" /\ s.at \in D
            /\ (s.par = 0 /\ s.name = NoName) \/ (s.par \in D /\ s.name \in Name)
         \/ Sound(k, D, s) /\ s.how # "at"
<1>1. CASE \E i \in D, p \in D, m \in Name : s = At(i, p, m)
  BY <1>1 DEF At
<1>2. CASE \E i \in D : s = At(i, 0, NoName)
  BY <1>2 DEF At
<1>3. CASE \E e \in k.ent : s = Resolved("found", e, e.par, e.name)
  BY <1>3 DEF Resolved, Sound
<1>4. CASE \E p \in D, m \in Name : s = Resolved("absent", NoEnt, p, m)
  BY <1>4 DEF Resolved, Sound
<1>5. CASE \E m \in Name \cup {NoName} : s = Resolved("absent", NoEnt, 0, m)
  BY <1>5 DEF Resolved, Sound
<1>6. CASE \E p \in D, m \in Name : s = Resolved("error", NoEnt, p, m)
  BY <1>6 DEF Resolved, Sound
<1> QED
  BY <1>1, <1>2, <1>3, <1>4, <1>5, <1>6 DEF States

\* Each element of a path leads from such a state to another.
LEMMA TakenState ==
  ASSUME NEW k \in Volume, NEW D, NEW w, Closed(k, D, w), NEW s \in States(k, D),
         NEW x \in Name \cup {Up}, NEW last \in BOOLEAN
  PROVE  Taken(k, s, x, last) \in States(k, D)
<1>1. CASE s.how # "at"
  BY <1>1 DEF Taken
<1>2. CASE s.how = "at"
  <2>1. s.at \in D /\ ((s.par = 0 /\ s.name = NoName) \/ (s.par \in D /\ s.name \in Name))
    BY <1>2, StateShape
  <2>2. CASE x = Up
    <3>1. CASE Threads(k, s.at) = {}
      <4>1. Taken(k, s, x, last) = Resolved("absent", NoEnt, s.par, s.name)
        BY <1>2, <2>2, <3>1 DEF Taken
      <4> QED
        BY <2>1, <4>1 DEF States
    <3>2. CASE Threads(k, s.at) # {}
      <4> DEFINE t == CHOOSE y \in Threads(k, s.at) : TRUE
      <4>1. Taken(k, s, x, last) = At(t.par, s.par, s.name)
        BY <1>2, <2>2, <3>2 DEF Taken
      <4>2. t \in k.thr
        BY <3>2 DEF Threads
      <4>3. t.par \in D
        BY <4>2 DEF Closed
      <4> HIDE DEF t
      <4> QED
        BY <2>1, <4>1, <4>3 DEF States
    <3> QED
      BY <3>1, <3>2
  <2>3. CASE x # Up
    <3>1. CASE Found(k, s.at, x) = {}
      <4>1. Taken(k, s, x, last) = Resolved("absent", NoEnt, IF last THEN s.at ELSE 0, x)
        BY <1>2, <2>3, <3>1 DEF Taken
      <4>2. CASE last
        BY <2>1, <2>3, <4>1, <4>2 DEF States
      <4>3. CASE ~ last
        BY <2>1, <2>3, <4>1, <4>3 DEF States
      <4> QED
        BY <4>2, <4>3
    <3>2. CASE Found(k, s.at, x) # {}
      <4> DEFINE e == CHOOSE y \in Found(k, s.at, x) : TRUE
      <4>1. Taken(k, s, x, last) =
              IF last THEN Resolved("found", e, s.at, e.name)
              ELSE IF e.dir THEN At(e.id, s.at, e.name)
              ELSE Resolved("error", NoEnt, s.at, e.name)
        BY <1>2, <2>3, <3>2 DEF Taken
      <4>2. e \in k.ent /\ e.par = s.at
        BY <3>2 DEF Found
      <4>3. e.name \in Name
        BY <4>2 DEF Volume, Ent
      <4> HIDE DEF e
      <4>4. CASE last
        BY <4>1, <4>2, <4>4 DEF States
      <4>5. CASE ~ last /\ e.dir
        <5>1. e.id \in D
          BY <4>2, <4>5 DEF Closed
        <5> QED
          BY <2>1, <4>1, <4>3, <4>5, <5>1 DEF States
      <4>6. CASE ~ last /\ ~ e.dir
        BY <2>1, <4>1, <4>3, <4>6 DEF States
      <4> QED
        BY <4>4, <4>5, <4>6
    <3> QED
      BY <3>1, <3>2
  <2> QED
    BY <2>2, <2>3
<1> QED
  BY <1>1, <1>2

\* A path that names no object leads to the directory itself.
LEMMA ItselfSound ==
  ASSUME NEW k, NEW D, NEW s, s.par = 0 \/ (s.par \in D /\ s.name \in Name)
  PROVE  Sound(k, D, Itself(k, s))
<1>1. CASE ByThread(k, s.at) = {}
  BY <1>1 DEF Itself, Resolved, Sound
<1>2. CASE ByThread(k, s.at) # {}
  <2> DEFINE e == CHOOSE x \in ByThread(k, s.at) : TRUE
  <2>1. e \in ByThread(k, s.at)
    BY <1>2
  <2>2. e \in k.ent
    BY <2>1 DEF ByThread, Found
  <2>3. Itself(k, s) = Resolved("found", e, e.par, e.name)
    BY <1>2 DEF Itself
  <2> HIDE DEF e
  <2> QED
    BY <2>2, <2>3 DEF Resolved, Sound
<1> QED
  BY <1>1, <1>2

\* What v_resolve returns is a record of the catalog under its own key, or
\* a parent that it has come to and a name.
LEMMA ResolveSound ==
  ASSUME NEW k \in Volume, NEW D, NEW w, Closed(k, D, w),
         NEW path, path.abs \in BOOLEAN, path.steps \in Seq(Name \cup {Up})
  PROVE  Sound(k, D, Resolve(k, w, path))
<1> DEFINE n == Len(path.steps)
           a == At(IF path.abs THEN RootPar ELSE w, 0, NoName)
           S == States(k, D)
           st == CHOOSE f : f = [i \in 0..n |->
                   IF i = 0 THEN At(IF path.abs THEN RootPar ELSE w, 0, NoName)
                   ELSE Taken(k, f[i - 1], path.steps[i], i = n)]
           F == [x \in S \X (1..n) |-> Taken(k, x[1], path.steps[x[2]], x[2] = n)]
<1>1. Resolve(k, w, path) = IF st[n].how = "at" THEN Itself(k, st[n]) ELSE st[n]
  BY DEF Resolve
<1>2. n \in Nat /\ \A i \in 1..n : path.steps[i] \in Name \cup {Up}
  BY ElementOfSeq, LenProperties
<1>3. a \in S
  <2>1. (IF path.abs THEN RootPar ELSE w) \in D
    BY DEF Closed
  <2> QED
    BY <2>1 DEF States
<1>4. F \in [S \X (1..n) -> S]
  <2>1. ASSUME NEW x \in S \X (1..n)
        PROVE  Taken(k, x[1], path.steps[x[2]], x[2] = n) \in S
    BY <1>2, TakenState
  <2> QED
    BY <2>1
<1>5. \E f : Solves(S, n, F, a, f)
  <2>1. Recursive(S, n, F, a)
    <3> HIDE DEF F, S, a, n
    <3> QED
      BY <1>2, <1>3, <1>4 DEF Recursive
  <2> HIDE DEF F, S, a, n
  <2> QED
    BY <2>1, Solution, Zenon
<1>6. PICK f : f \in [0..n -> S] /\ f[0] = a /\ \A i \in 1..n : f[i] = F[<<f[i - 1], i>>]
  <2> HIDE DEF F, S, a, n
  <2> QED
    BY <1>5 DEF Solves
<1>7. \A i \in 1..n : f[i] = Taken(k, f[i - 1], path.steps[i], i = n)
  <2> SUFFICES ASSUME NEW i \in 1..n
               PROVE  f[i] = Taken(k, f[i - 1], path.steps[i], i = n)
    OBVIOUS
  <2>1. f[i] = F[<<f[i - 1], i>>] /\ i - 1 \in 0..n
    <3> HIDE DEF F, S
    <3> QED
      BY <1>2, <1>6
  <2>2. <<f[i - 1], i>> \in S \X (1..n)
    <3> HIDE DEF S
    <3> QED
      BY <1>6, <2>1
  <2> QED
    BY <2>1, <2>2
<1>8. f = [i \in 0..n |->
             IF i = 0 THEN At(IF path.abs THEN RootPar ELSE w, 0, NoName)
             ELSE Taken(k, f[i - 1], path.steps[i], i = n)]
  <2> HIDE DEF S, F
  <2> QED
    BY <1>2, <1>6, <1>7
<1> HIDE DEF F, S
<1>9. st = [i \in 0..n |->
             IF i = 0 THEN At(IF path.abs THEN RootPar ELSE w, 0, NoName)
             ELSE Taken(k, st[i - 1], path.steps[i], i = n)]
  BY <1>8
<1> HIDE DEF st, n
<1>10. \A i \in 0..n : st[i] \in S
  <2> DEFINE Bad == {i \in 0..n : st[i] \notin S}
  <2> SUFFICES ASSUME Bad # {} PROVE FALSE
    OBVIOUS
  <2>1. PICK i \in Bad : \A j \in Bad : i <= j
    <3>1. Bad \in SUBSET Nat
      BY <1>2
    <3> HIDE DEF Bad
    <3> QED
      BY <3>1, Least
  <2>2. i \in 0..n /\ i \in Nat /\ st[i] \notin S
    BY <1>2
  <2>3. CASE i = 0
    BY <1>3, <1>9, <2>2, <2>3
  <2>4. CASE i # 0
    <3>1. i - 1 \in 0..n /\ i \in 1..n /\ i - 1 \notin Bad
      BY <1>2, <2>1, <2>2, <2>4
    <3>2. st[i - 1] \in S
      BY <3>1
    <3>3. st[i] = Taken(k, st[i - 1], path.steps[i], i = n)
      BY <1>9, <2>2, <2>4
    <3>4. st[i] \in S
      <4>1. path.steps[i] \in Name \cup {Up} /\ (i = n) \in BOOLEAN
        BY <1>2, <3>1
      <4>2. Taken(k, st[i - 1], path.steps[i], i = n) \in S
        <5> DEFINE x == st[i - 1]
                   y == path.steps[i]
                   z == (i = n)
        <5>1. x \in States(k, D) /\ y \in Name \cup {Up} /\ z \in BOOLEAN
          BY <3>2, <4>1 DEF S
        <5> HIDE DEF x, y, z
        <5>2. Taken(k, x, y, z) \in States(k, D)
          BY <5>1, TakenState, Zenon
        <5> QED
          BY <5>2 DEF S, x, y, z
      <4> QED
        BY <3>3, <4>2
    <3> QED
      BY <2>2, <3>4
  <2> QED
    BY <2>3, <2>4
<1>11. st[n] \in S
  BY <1>2, <1>10
<1>12. CASE st[n].how = "at"
  <2>1. Resolve(k, w, path) = Itself(k, st[n])
    BY <1>1, <1>12
  <2>2. st[n].par = 0 \/ (st[n].par \in D /\ st[n].name \in Name)
    BY <1>11, <1>12, StateShape DEF S
  <2> QED
    BY <2>1, <2>2, ItselfSound
<1>13. CASE st[n].how # "at"
  BY <1>1, <1>11, <1>13, StateShape DEF S
<1> QED
  BY <1>12, <1>13

-----------------------------------------------------------------------------
(* Steps. *)

\* The steps that calls are made of; the tame ones leave the records that
\* there are, and drNxtCNID, alone.
Id       == [do : {"id"}]
Ins      == [do : {"insert"}, ent : Ent]
Rem      == [do : {"remove"}, ent : Ent]
InsT     == [do : {"insertThread"}, thr : Thr]
RemT     == [do : {"removeThread"}, id : Nat]
PutT     == [do : {"putThread"}, thr : Thr]
Cnt      == [do : {"count"}, dir : BOOLEAN, par : Nat, adj : {-1, 1}]
Val      == [do : {"valence"}, par : Nat, adj : {-1, 1}]
Tame     == InsT \cup RemT \cup PutT \cup Cnt \cup Val
Task     == Id \cup Ins \cup Rem \cup Tame

\* Taking a number is a step.
LEMMA TakeIdTask == TakeId \in Task
  BY DEF TakeId, Task, Id

\* So is an insertion, and a deletion, of a record.
LEMMA EntTask ==
  ASSUME NEW e \in Ent
  PROVE  AddEnt(e) \in Task /\ DropEnt(e) \in Task
  BY DEF AddEnt, DropEnt, Task, Ins, Rem

\* Steps on threads leave the records as they are (Tame).
LEMMA ThreadTask ==
  ASSUME NEW e \in Ent
  PROVE  /\ Thread(e) \in Thr
         /\ AddThread(Thread(e)) \in Tame
         /\ PutThread(Thread(e)) \in Tame
         /\ DropThread(e.id) \in Tame
<1>1. Thread(e) \in Thr
  BY DEF Thread, Thr, Ent
<1>2. e.id \in Nat
  BY DEF Ent
<1>3. ASSUME NEW t \in Thr PROVE AddThread(t) \in InsT /\ PutThread(t) \in PutT
  BY DEF AddThread, PutThread, InsT, PutT
<1>4. DropThread(e.id) \in RemT
  BY <1>2 DEF DropThread, RemT
<1> QED
  BY <1>1, <1>3, <1>4 DEF Tame

\* So do the steps of v_adjvalence, but for the valence itself.
LEMMA AdjustTask ==
  ASSUME NEW dir \in BOOLEAN, NEW par \in Nat, NEW adj \in {-1, 1}
  PROVE  /\ Count(dir, par, adj) \in Tame
         /\ Valence(par, adj) \in Tame
         /\ Adjust(dir, par, adj) \in Seq(Tame)
<1>1. Count(dir, par, adj) \in Cnt
  BY DEF Count, Cnt
<1>2. Valence(par, adj) \in Val
  BY DEF Valence, Val
<1>3. Count(dir, par, adj) \in Tame /\ Valence(par, adj) \in Tame
  BY <1>1, <1>2 DEF Tame
<1>4. ASSUME NEW x \in Tame PROVE <<x>> \in Seq(Tame) /\ << >> \in Seq(Tame)
  OBVIOUS
<1>5. CASE par = RootPar
  <2>1. Adjust(dir, par, adj) = <<Count(dir, par, adj)>> \o << >>
    BY <1>5 DEF Adjust
  <2> QED
    BY <1>3, <1>4, <2>1, ConcatProperties
<1>6. CASE par # RootPar
  <2>1. Adjust(dir, par, adj) = <<Count(dir, par, adj)>> \o <<Valence(par, adj)>>
    BY <1>6 DEF Adjust
  <2> QED
    BY <1>3, <1>4, <2>1, ConcatProperties
<1> QED
  BY <1>3, <1>5, <1>6

\* What Apply makes of a volume, step by step.
LEMMA AppliedId ==
  ASSUME NEW k \in Volume
  PROVE  Apply(k, TakeId) = [k EXCEPT !.next = @ + 1] /\ Ready(k, TakeId)
  BY DEF Apply, TakeId, Ready

\* What insertion and deletion of a record do, and when they can.
LEMMA AppliedEnt ==
  ASSUME NEW k \in Volume, NEW e \in Ent
  PROVE  /\ Apply(k, AddEnt(e)) = [k EXCEPT !.ent = @ \cup {e}]
         /\ Ready(k, AddEnt(e)) <=> Found(k, e.par, e.name) = {}
         /\ Apply(k, DropEnt(e)) = [k EXCEPT !.ent = @ \ Found(k, e.par, e.name)]
         /\ Ready(k, DropEnt(e)) <=> Found(k, e.par, e.name) # {}
  BY DEF Apply, AddEnt, DropEnt, Ready

\* What the three steps on threads do, and when they can.
LEMMA AppliedThread ==
  ASSUME NEW k \in Volume, NEW t, NEW id
  PROVE  /\ Apply(k, AddThread(t)) = [k EXCEPT !.thr = @ \cup {t}]
         /\ Ready(k, AddThread(t)) <=> Threads(k, t.id) = {}
         /\ Apply(k, PutThread(t)) = [k EXCEPT !.thr = (@ \ Threads(k, t.id)) \cup {t}]
         /\ Ready(k, PutThread(t)) <=> Threads(k, t.id) # {}
         /\ Apply(k, DropThread(id)) = [k EXCEPT !.thr = @ \ Threads(k, id)]
         /\ Ready(k, DropThread(id)) <=> Threads(k, id) # {}
  BY DEF Apply, AddThread, PutThread, DropThread, Ready

\* What the two steps of v_adjvalence do, and when they can.
LEMMA AppliedAdjust ==
  ASSUME NEW k \in Volume, NEW dir, NEW par, NEW adj
  PROVE  /\ Apply(k, Count(dir, par, adj)) = Counted(k, Count(dir, par, adj))
         /\ Ready(k, Count(dir, par, adj))
         /\ Apply(k, Valence(par, adj)) = Valenced(k, Valence(par, adj))
         /\ Ready(k, Valence(par, adj)) <=> \E e \in ByThread(k, par) : e.dir
  BY DEF Apply, Count, Valence, Ready

\* Sequences of steps are joined in any grouping.
LEMMA Regroup ==
  ASSUME NEW f \in Seq(Task), NEW u \in Seq(Task), NEW v \in Seq(Task)
  PROVE  (f \o u) \o v = f \o (u \o v)
BY ConcatAssociative

-----------------------------------------------------------------------------
(* What steps leave as it is. *)

\* The record of a volume with new fields.
LEMMA VolumeParts ==
  ASSUME NEW k \in Volume, NEW es \in SUBSET Ent, NEW ts \in SUBSET Thr
  PROVE  /\ [k EXCEPT !.next = @ + 1] \in Volume
         /\ [k EXCEPT !.ent = es] \in Volume
         /\ [k EXCEPT !.thr = ts] \in Volume
  BY DEF Volume

\* Counting an object changes the fields of the MDB and nothing else.
LEMMA CountedTyped ==
  ASSUME NEW k \in Volume, NEW s \in Cnt
  PROVE  /\ Counted(k, s) \in Volume
         /\ Counted(k, s).ent = k.ent
         /\ Counted(k, s).thr = k.thr
         /\ Counted(k, s).next = k.next
<1>1. \A yes \in BOOLEAN : Only(s.adj, yes) \in Int
  BY DEF Only, Cnt
<1>2. s.dir \in BOOLEAN /\ (~ s.dir) \in BOOLEAN
  BY DEF Cnt
<1>3. /\ (s.dir /\ s.par = RootDir) \in BOOLEAN
      /\ (~ s.dir /\ s.par = RootDir) \in BOOLEAN
  BY <1>2
<1> DEFINE a == Only(s.adj, s.dir)
           b == Only(s.adj, ~s.dir)
           x == Only(s.adj, s.dir /\ s.par = RootDir)
           y == Only(s.adj, ~s.dir /\ s.par = RootDir)
<1>4. a \in Int /\ b \in Int /\ x \in Int /\ y \in Int
  BY <1>1, <1>2, <1>3
<1>5. Counted(k, s) = [k EXCEPT !.dirs = @ + a, !.files = @ + b,
                                !.rootDirs = @ + x, !.rootFiles = @ + y]
  BY DEF Counted
<1> HIDE DEF a, b, x, y
<1>6. /\ k.dirs + a \in Int /\ k.files + b \in Int
      /\ k.rootDirs + x \in Int /\ k.rootFiles + y \in Int
  BY <1>4 DEF Volume
<1> DEFINE A == k.dirs + a
           B == k.files + b
           X == k.rootDirs + x
           Y == k.rootFiles + y
<1>8. A \in Int /\ B \in Int /\ X \in Int /\ Y \in Int
  BY <1>6
<1> DEFINE k1 == [k EXCEPT !.dirs = A]
           k2 == [k1 EXCEPT !.files = B]
           k3 == [k2 EXCEPT !.rootDirs = X]
           k4 == [k3 EXCEPT !.rootFiles = Y]
<1> HIDE DEF A, B, X, Y
<1>9. k1 \in Volume /\ k1.ent = k.ent /\ k1.thr = k.thr /\ k1.next = k.next
      /\ k1.files = k.files /\ k1.rootDirs = k.rootDirs /\ k1.rootFiles = k.rootFiles
  BY <1>8 DEF Volume
<1> HIDE DEF k1
<1>10. k2 \in Volume /\ k2.ent = k1.ent /\ k2.thr = k1.thr /\ k2.next = k1.next
      /\ k2.rootDirs = k1.rootDirs /\ k2.rootFiles = k1.rootFiles
  BY <1>8, <1>9 DEF Volume
<1> HIDE DEF k2
<1>11. k3 \in Volume /\ k3.ent = k2.ent /\ k3.thr = k2.thr /\ k3.next = k2.next
      /\ k3.rootFiles = k2.rootFiles
  BY <1>8, <1>10 DEF Volume
<1> HIDE DEF k3
<1>12. k4 \in Volume /\ k4.ent = k3.ent /\ k4.thr = k3.thr /\ k4.next = k3.next
  BY <1>8, <1>11 DEF Volume
<1>13. Counted(k, s) = k4
  BY <1>5, <1>9, <1>10, <1>11 DEF A, B, X, Y, k1, k2, k3
<1> HIDE DEF k4
<1> QED
  BY <1>9, <1>10, <1>11, <1>12, <1>13

\* v_adjvalence puts a directory's record back with another valence.
Bumped(e, adj) == [e EXCEPT !.val = (@ + adj) % ValenceMod]

\* A valence is 16 bits wide, and the rest of the record stays.
LEMMA BumpedTyped ==
  ASSUME NEW e \in Ent, NEW adj \in Int
  PROVE  /\ Bumped(e, adj) \in Ent
         /\ Bumped(e, adj).id = e.id /\ Bumped(e, adj).par = e.par
         /\ Bumped(e, adj).name = e.name /\ Bumped(e, adj).dir = e.dir
         /\ Bumped(e, adj).val = (e.val + adj) % ValenceMod
<1> DEFINE v == (e.val + adj) % ValenceMod
<1>1. v \in 0..(ValenceMod - 1)
  <2>1. ValenceMod \in Nat /\ ValenceMod > 0
    BY DEF ValenceMod
  <2>2. e.val \in 0..(ValenceMod - 1)
    BY DEF Ent
  <2> DEFINE y == e.val + adj
  <2>3. y \in Int
    BY <2>1, <2>2
  <2> HIDE DEF y
  <2>4. y % ValenceMod \in 0..(ValenceMod - 1)
    BY <2>1, <2>3
  <2> QED
    BY <2>4 DEF y
<1>2. Bumped(e, adj) = [e EXCEPT !.val = v]
  BY DEF Bumped
<1>3. Bumped(e, adj).val = v
  BY <1>2 DEF Ent
<1> HIDE DEF v
<1>4. [e EXCEPT !.val = v] \in Ent
  BY <1>1 DEF Ent
<1>5. /\ [e EXCEPT !.val = v].id = e.id /\ [e EXCEPT !.val = v].par = e.par
      /\ [e EXCEPT !.val = v].name = e.name /\ [e EXCEPT !.val = v].dir = e.dir
  BY DEF Ent
<1> QED
  BY <1>2, <1>3, <1>4, <1>5 DEF v

\* Adjusting a valence replaces the record that the thread leads to.
LEMMA ValencedTyped ==
  ASSUME NEW k \in Volume, NEW s \in Val
  PROVE  /\ Valenced(k, s) \in Volume
         /\ Valenced(k, s).ent = (k.ent \ ByThread(k, s.par))
                                 \cup {Bumped(e, s.adj) : e \in ByThread(k, s.par)}
         /\ Valenced(k, s) = [k EXCEPT !.ent = (k.ent \ ByThread(k, s.par))
                                 \cup {Bumped(e, s.adj) : e \in ByThread(k, s.par)}]
<1>1. s.adj \in Int
  BY DEF Val
<1>2. ByThread(k, s.par) \subseteq k.ent
  BY DEF ByThread, Found
<1>3. k.ent \subseteq Ent
  BY DEF Volume
<1>4. {Bumped(e, s.adj) : e \in ByThread(k, s.par)} \subseteq Ent
  BY <1>1, <1>2, <1>3, BumpedTyped
<1>5. Valenced(k, s) = [k EXCEPT !.ent = (k.ent \ ByThread(k, s.par))
                                 \cup {Bumped(e, s.adj) : e \in ByThread(k, s.par)}]
  BY DEF Valenced, Bumped
<1> DEFINE es == (k.ent \ ByThread(k, s.par))
                 \cup {Bumped(e, s.adj) : e \in ByThread(k, s.par)}
<1>6. es \in SUBSET Ent
  BY <1>3, <1>4
<1>7. Valenced(k, s) = [k EXCEPT !.ent = es]
  BY <1>5
<1>8. Valenced(k, s) \in Volume /\ Valenced(k, s).ent = es
  <2> HIDE DEF es
  <2> QED
    BY <1>6, <1>7 DEF Volume
<1> QED
  BY <1>5, <1>8

\* The tame steps leave drNxtCNID and the numbers and keys of the records.
SameRecords(k, l) ==
  /\ l \in Volume /\ l.next = k.next
  /\ \E f \in [k.ent -> l.ent] :
       /\ \A e \in k.ent : Thread(f[e]) = Thread(e)
       /\ \A x \in l.ent : \E e \in k.ent : x = f[e]

\* A catalog with the same records has the same records.
LEMMA SameRecordsIfSame ==
  ASSUME NEW k \in Volume, NEW l \in Volume, l.next = k.next, l.ent = k.ent
  PROVE  SameRecords(k, l)
<1> DEFINE f == [e \in k.ent |-> e]
<1>1. f \in [k.ent -> l.ent]
  OBVIOUS
<1>2. \A e \in k.ent : f[e] = e
  OBVIOUS
<1> HIDE DEF f
<1> QED
  BY <1>1, <1>2 DEF SameRecords

\* A record whose valence is adjusted is still the same object.
LEMMA ValencedSame ==
  ASSUME NEW k \in Volume, NEW s \in Val
  PROVE  SameRecords(k, Valenced(k, s))
<1> DEFINE P == ByThread(k, s.par)
           l == Valenced(k, s)
           f == [e \in k.ent |-> IF e \in P THEN Bumped(e, s.adj) ELSE e]
<1>1. P \subseteq k.ent
  BY DEF ByThread, Found
<1>2. l \in Volume /\ l.ent = (k.ent \ P) \cup {Bumped(e, s.adj) : e \in P}
  BY ValencedTyped
<1>3. l.next = k.next
  BY ValencedTyped DEF Volume
<1>4. s.adj \in Int /\ k.ent \subseteq Ent
  BY DEF Val, Volume
<1> HIDE DEF P, l
<1>5. f \in [k.ent -> l.ent]
  BY <1>1, <1>2
<1>6. \A e \in k.ent : f[e] = IF e \in P THEN Bumped(e, s.adj) ELSE e
  OBVIOUS
<1> HIDE DEF f
<1>7. \A e \in k.ent : Thread(f[e]) = Thread(e)
  <2> SUFFICES ASSUME NEW e \in k.ent PROVE Thread(f[e]) = Thread(e)
    OBVIOUS
  <2>1. CASE e \in P
    <3>1. f[e] = Bumped(e, s.adj)
      BY <1>6, <2>1
    <3> QED
      BY <1>4, <3>1, BumpedTyped DEF Thread
  <2>2. CASE e \notin P
    BY <1>6, <2>2
  <2> QED
    BY <2>1, <2>2
<1>8. \A x \in l.ent : \E e \in k.ent : x = f[e]
  <2> SUFFICES ASSUME NEW x \in l.ent PROVE \E e \in k.ent : x = f[e]
    OBVIOUS
  <2>1. CASE x \in k.ent \ P
    BY <1>6, <2>1
  <2>2. CASE \E e \in P : x = Bumped(e, s.adj)
    BY <1>1, <1>6, <2>2
  <2> QED
    BY <1>2, <2>1, <2>2
<1> QED
  BY <1>2, <1>3, <1>5, <1>7, <1>8 DEF SameRecords, l

\* Tame steps leave every object under its number and its key.
LEMMA TameSame ==
  ASSUME NEW k \in Volume, NEW s \in Tame
  PROVE  SameRecords(k, Apply(k, s))
<1> DEFINE l == Apply(k, s)
<1>1. SUFFICES SameRecords(k, l)
  OBVIOUS
<1>2. k.thr \subseteq Thr
  BY DEF Volume
<1>3. CASE s \in InsT
  <2>1. l = [k EXCEPT !.thr = k.thr \cup {s.thr}] /\ s.thr \in Thr
    BY <1>3 DEF Apply, InsT
  <2>2. k.thr \cup {s.thr} \in SUBSET Thr
    BY <1>2, <2>1
  <2> HIDE DEF l
  <2>3. l \in Volume
    BY <2>1, <2>2 DEF Volume
  <2> QED
    BY <2>1, <2>3, SameRecordsIfSame DEF Volume
<1>4. CASE s \in RemT
  <2>1. l = [k EXCEPT !.thr = k.thr \ Threads(k, s.id)]
    BY <1>4 DEF Apply, RemT
  <2>2. k.thr \ Threads(k, s.id) \in SUBSET Thr
    BY <1>2
  <2> HIDE DEF l
  <2>3. l \in Volume
    BY <2>1, <2>2 DEF Volume
  <2> QED
    BY <2>1, <2>3, SameRecordsIfSame DEF Volume
<1>5. CASE s \in PutT
  <2>1. l = [k EXCEPT !.thr = (k.thr \ Threads(k, s.thr.id)) \cup {s.thr}] /\ s.thr \in Thr
    BY <1>5 DEF Apply, PutT
  <2>2. (k.thr \ Threads(k, s.thr.id)) \cup {s.thr} \in SUBSET Thr
    BY <1>2, <2>1
  <2> HIDE DEF l
  <2>3. l \in Volume
    BY <2>1, <2>2 DEF Volume
  <2> QED
    BY <2>1, <2>3, SameRecordsIfSame DEF Volume
<1>6. CASE s \in Cnt
  <2>1. l = Counted(k, s)
    BY <1>6 DEF Apply, Cnt
  <2> HIDE DEF l
  <2> QED
    BY <1>6, <2>1, CountedTyped, SameRecordsIfSame
<1>7. CASE s \in Val
  <2>1. l = Valenced(k, s)
    BY <1>7 DEF Apply, Val
  <2> HIDE DEF l
  <2> QED
    BY <1>7, <2>1, ValencedSame
<1> QED
  BY <1>3, <1>4, <1>5, <1>6, <1>7 DEF Tame

\* Whatever leaves the objects as they are leaves numbers and keys unique.
LEMMA SameUnique ==
  ASSUME NEW k, k.ent \subseteq Ent, Unique(k), NEW l, SameRecords(k, l)
  PROVE  Unique(l)
<1>1. PICK f \in [k.ent -> l.ent] :
        /\ \A e \in k.ent : Thread(f[e]) = Thread(e)
        /\ \A x \in l.ent : \E e \in k.ent : x = f[e]
  BY DEF SameRecords
<1>2. \A e \in k.ent : /\ f[e].id = e.id /\ f[e].par = e.par /\ f[e].name = e.name
  BY <1>1 DEF Thread
<1>3. l.next = k.next
  BY DEF SameRecords
<1>4. ASSUME NEW x \in l.ent PROVE x.id < l.next
  BY <1>1, <1>2, <1>3 DEF Unique
<1>5. ASSUME NEW x \in l.ent, NEW y \in l.ent,
             x.id = y.id \/ (x.par = y.par /\ Fold[x.name] = Fold[y.name])
      PROVE  x = y
  <2>1. PICK e \in k.ent : x = f[e]
    BY <1>1
  <2>2. PICK g \in k.ent : y = f[g]
    BY <1>1
  <2>3. e.id = g.id \/ (e.par = g.par /\ Fold[e.name] = Fold[g.name])
    BY <1>2, <1>5, <2>1, <2>2
  <2>4. e = g
    BY <2>3 DEF Unique
  <2> QED
    BY <2>1, <2>2, <2>4
<1> QED
  BY <1>4, <1>5 DEF Unique

-----------------------------------------------------------------------------
(* The records during a call. *)

\* A number that has been taken and belongs to no record.
Fresh(k, e) == e.id < k.next /\ \A x \in k.ent : x.id # e.id

\* What is left of a call: at most one record is to be removed and at most one
\* to be inserted, these first; the record inserted has a fresh number, the
\* next one, or that of the record removed.
Pending(k, p) ==
  \/ p \in Seq(Tame)
  \/ \E e \in Ent, t \in Seq(Tame) : p = <<AddEnt(e)>> \o t /\ Fresh(k, e)
  \/ \E e \in Ent, t \in Seq(Tame) : p = <<TakeId, AddEnt(e)>> \o t /\ e.id = k.next
  \/ \E e \in k.ent, t \in Seq(Tame) : p = <<DropEnt(e)>> \o t
  \/ \E e \in k.ent, f \in Ent, t \in Seq(Tame) :
       p = <<DropEnt(e), AddEnt(f)>> \o t /\ f.id = e.id

\* Tame steps are steps.
LEMMA TamePart ==
  /\ Tame \subseteq Task
  /\ \A t \in Seq(Tame) : t \in Seq(Task)
  BY DEF Task

\* The first step of a sequence that one step begins.
LEMMA OneMore ==
  ASSUME NEW S, NEW x \in S, NEW t \in Seq(S)
  PROVE  /\ <<x>> \o t \in Seq(S) /\ <<x>> \o t # << >>
         /\ Head(<<x>> \o t) = x /\ Tail(<<x>> \o t) = t
  OBVIOUS

\* The first step of a sequence that two steps begin.
LEMMA TwoMore ==
  ASSUME NEW S, NEW x \in S, NEW y \in S, NEW t \in Seq(S)
  PROVE  /\ <<x, y>> \o t \in Seq(S) /\ <<x, y>> \o t # << >>
         /\ Head(<<x, y>> \o t) = x /\ Tail(<<x, y>> \o t) = <<y>> \o t
  OBVIOUS

\* What is pending is a sequence of steps.
LEMMA PendingTyped ==
  ASSUME NEW k \in Volume, NEW p, Pending(k, p)
  PROVE  p \in Seq(Task)
<1>1. k.ent \subseteq Ent
  BY DEF Volume
<1>2. ASSUME NEW e \in Ent, NEW t \in Seq(Tame)
      PROVE  /\ <<AddEnt(e)>> \o t \in Seq(Task)
             /\ <<DropEnt(e)>> \o t \in Seq(Task)
             /\ <<TakeId, AddEnt(e)>> \o t \in Seq(Task)
  <2>1. t \in Seq(Task)
    BY TamePart
  <2>2. AddEnt(e) \in Task /\ DropEnt(e) \in Task /\ TakeId \in Task
    BY EntTask, TakeIdTask
  <2> HIDE DEF Tame, Task
  <2> QED
    BY <2>1, <2>2, OneMore, TwoMore
<1>3. ASSUME NEW e \in Ent, NEW f \in Ent, NEW t \in Seq(Tame)
      PROVE  <<DropEnt(e), AddEnt(f)>> \o t \in Seq(Task)
  <2>1. t \in Seq(Task)
    BY TamePart
  <2>2. DropEnt(e) \in Task /\ AddEnt(f) \in Task
    BY EntTask
  <2> QED
    BY <2>1, <2>2, TwoMore
<1>4. p \in Seq(Tame) => p \in Seq(Task)
  BY TamePart
<1> QED
  BY <1>1, <1>2, <1>3, <1>4 DEF Pending

\* "remove" takes away just the record it is given.
LEMMA FoundIsIt ==
  ASSUME NEW k, Unique(k), NEW e \in k.ent
  PROVE  Found(k, e.par, e.name) = {e}
<1>1. e \in Found(k, e.par, e.name)
  BY DEF Found, Same
<1>2. \A x \in Found(k, e.par, e.name) : x = e
  BY DEF Found, Same, Unique
<1> QED
  BY <1>1, <1>2

\* A record with a new number and a new key leaves both unique.
LEMMA AddedUnique ==
  ASSUME NEW k \in Volume, Unique(k), NEW e \in Ent, Fresh(k, e),
         Found(k, e.par, e.name) = {}
  PROVE  /\ [k EXCEPT !.ent = @ \cup {e}] \in Volume
         /\ Unique([k EXCEPT !.ent = @ \cup {e}])
<1> DEFINE es == k.ent \cup {e}
           l == [k EXCEPT !.ent = es]
<1>1. es \in SUBSET Ent
  BY DEF Volume
<1>2. l \in Volume
  BY <1>1, VolumeParts
<1>3. l.ent = es /\ l.next = k.next
  BY DEF Volume
<1>4. [k EXCEPT !.ent = @ \cup {e}] = l
  OBVIOUS
<1>5. ASSUME NEW x \in es PROVE x.id < k.next
  BY DEF Unique, Fresh
<1>6. ASSUME NEW x \in k.ent
      PROVE  x.id # e.id /\ ~ (x.par = e.par /\ Fold[x.name] = Fold[e.name])
  <2>1. x \notin Found(k, e.par, e.name)
    OBVIOUS
  <2> QED
    BY <2>1 DEF Fresh, Found, Same
<1>7. ASSUME NEW x \in es, NEW y \in es,
             x.id = y.id \/ (x.par = y.par /\ Fold[x.name] = Fold[y.name])
      PROVE  x = y
  <2>1. CASE x \in k.ent /\ y \in k.ent
    BY <1>7, <2>1 DEF Unique
  <2>2. CASE x = e \/ y = e
    BY <1>6, <1>7, <2>2
  <2> QED
    BY <2>1, <2>2
<1>8. Unique(l)
  <2> HIDE DEF es, l
  <2> QED
    BY <1>3, <1>5, <1>7 DEF Unique
<1> QED
  BY <1>2, <1>4, <1>8

\* When a record is gone its number is free for another.
LEMMA RemovedUnique ==
  ASSUME NEW k \in Volume, Unique(k), NEW e \in k.ent
  PROVE  /\ [k EXCEPT !.ent = @ \ {e}] \in Volume
         /\ Unique([k EXCEPT !.ent = @ \ {e}])
         /\ \A f \in Ent : f.id = e.id => Fresh([k EXCEPT !.ent = @ \ {e}], f)
<1> DEFINE es == k.ent \ {e}
           l == [k EXCEPT !.ent = es]
<1>1. es \in SUBSET Ent
  BY DEF Volume
<1>2. l \in Volume
  BY <1>1, VolumeParts
<1>3. l.ent = es /\ l.next = k.next
  BY DEF Volume
<1>4. [k EXCEPT !.ent = @ \ {e}] = l
  OBVIOUS
<1>5. \A x \in es : x.id # e.id /\ x \in k.ent
  BY DEF Unique
<1>6. e.id < k.next
  BY DEF Unique
<1> HIDE DEF es, l
<1>7. Unique(l)
  BY <1>3, <1>5 DEF Unique
<1>8. \A f \in Ent : f.id = e.id => Fresh(l, f)
  BY <1>3, <1>5, <1>6 DEF Fresh
<1> QED
  BY <1>2, <1>4, <1>7, <1>8

\* A number that is taken from drNxtCNID is free for a new record.
LEMMA IdTaken ==
  ASSUME NEW k \in Volume, Unique(k)
  PROVE  /\ [k EXCEPT !.next = @ + 1] \in Volume
         /\ Unique([k EXCEPT !.next = @ + 1])
         /\ \A e \in Ent : e.id = k.next => Fresh([k EXCEPT !.next = @ + 1], e)
<1> DEFINE l == [k EXCEPT !.next = @ + 1]
<1>1. l \in Volume
  BY VolumeParts
<1>2. l.ent = k.ent /\ l.next = k.next + 1 /\ k.next \in Nat
  BY DEF Volume
<1>3. \A x \in k.ent : x.id < k.next /\ x.id \in Nat
  BY DEF Unique, Volume, Ent
<1> HIDE DEF l
<1>4. Unique(l)
  BY <1>2, <1>3 DEF Unique
<1>5. \A e \in Ent : e.id = k.next => Fresh(l, e)
  BY <1>2, <1>3 DEF Fresh
<1> QED
  BY <1>1, <1>4, <1>5 DEF l

\* A step of a running call leaves the records sound, and the rest pending.
LEMMA StepPending ==
  ASSUME NEW k \in Volume, Unique(k), NEW p, Pending(k, p), p # << >>,
         Ready(k, Head(p))
  PROVE  /\ Apply(k, Head(p)) \in Volume
         /\ Unique(Apply(k, Head(p)))
         /\ Pending(Apply(k, Head(p)), Tail(p))
<1> DEFINE l == Apply(k, Head(p))
<1>0. k.ent \subseteq Ent
  BY DEF Volume
<1>1. CASE p \in Seq(Tame)
  <2>1. Head(p) \in Tame /\ Tail(p) \in Seq(Tame)
    BY <1>1, HeadTailProperties
  <2>2. SameRecords(k, l)
    BY <2>1, TameSame
  <2>3. Unique(l) /\ l \in Volume
    <3> HIDE DEF l
    <3> QED
      BY <1>0, <2>2, SameUnique DEF SameRecords
  <2> QED
    BY <2>1, <2>3 DEF Pending
<1>2. ASSUME NEW e \in Ent, NEW t \in Seq(Tame), p = <<AddEnt(e)>> \o t, Fresh(k, e)
      PROVE  l \in Volume /\ Unique(l) /\ Pending(l, Tail(p))
  <2>1. t \in Seq(Task) /\ AddEnt(e) \in Task
    BY TamePart, EntTask
  <2>2. Head(p) = AddEnt(e) /\ Tail(p) = t
    BY <1>2, <2>1, OneMore
  <2>3. l = [k EXCEPT !.ent = @ \cup {e}] /\ Found(k, e.par, e.name) = {}
    BY <2>2, AppliedEnt
  <2> HIDE DEF l
  <2> QED
    BY <1>2, <2>2, <2>3, AddedUnique DEF Pending
<1>3. ASSUME NEW e \in Ent, NEW t \in Seq(Tame), p = <<TakeId, AddEnt(e)>> \o t,
             e.id = k.next
      PROVE  l \in Volume /\ Unique(l) /\ Pending(l, Tail(p))
  <2>1. t \in Seq(Task) /\ AddEnt(e) \in Task /\ TakeId \in Task
    BY TamePart, EntTask, TakeIdTask
  <2>2. Head(p) = TakeId /\ Tail(p) = <<AddEnt(e)>> \o t
    BY <1>3, <2>1, TwoMore
  <2>3. l = [k EXCEPT !.next = @ + 1]
    BY <2>2, AppliedId
  <2>4. l \in Volume /\ Unique(l) /\ Fresh(l, e)
    BY <1>3, <2>3, IdTaken
  <2> HIDE DEF l
  <2> QED
    BY <2>2, <2>4 DEF Pending
<1>4. ASSUME NEW e \in k.ent, NEW t \in Seq(Tame), p = <<DropEnt(e)>> \o t
      PROVE  l \in Volume /\ Unique(l) /\ Pending(l, Tail(p))
  <2>1. t \in Seq(Task) /\ DropEnt(e) \in Task /\ e \in Ent
    BY <1>0, TamePart, EntTask
  <2>2. Head(p) = DropEnt(e) /\ Tail(p) = t
    BY <1>4, <2>1, OneMore
  <2>3. l = [k EXCEPT !.ent = @ \ {e}]
    BY <2>1, <2>2, AppliedEnt, FoundIsIt
  <2>4. l \in Volume /\ Unique(l)
    BY <2>3, RemovedUnique
  <2> HIDE DEF l
  <2> QED
    BY <2>2, <2>4 DEF Pending
<1>5. ASSUME NEW e \in k.ent, NEW f \in Ent, NEW t \in Seq(Tame),
             p = <<DropEnt(e), AddEnt(f)>> \o t, f.id = e.id
      PROVE  l \in Volume /\ Unique(l) /\ Pending(l, Tail(p))
  <2>1. t \in Seq(Task) /\ DropEnt(e) \in Task /\ AddEnt(f) \in Task /\ e \in Ent
    BY <1>0, TamePart, EntTask
  <2>2. Head(p) = DropEnt(e) /\ Tail(p) = <<AddEnt(f)>> \o t
    BY <1>5, <2>1, TwoMore
  <2>3. l = [k EXCEPT !.ent = @ \ {e}]
    BY <2>1, <2>2, AppliedEnt, FoundIsIt
  <2>4. l \in Volume /\ Unique(l) /\ Fresh(l, f)
    BY <1>5, <2>3, RemovedUnique
  <2> HIDE DEF l
  <2> QED
    BY <2>2, <2>4 DEF Pending
<1> HIDE DEF l
<1> QED
  BY <1>1, <1>2, <1>3, <1>4, <1>5 DEF Pending, l

-----------------------------------------------------------------------------
(* The calls and the records. *)

\* What hfs_create does is pending when its checks are made.
LEMMA CreatePending ==
  ASSUME NEW k \in Volume, NEW r, Sound(k, Nat, r)
  PROVE  Pending(k, CreateSteps(k, r))
<1>1. CASE MayCreate(r)
  <2> DEFINE e == File(k.next, r.par, r.name)
             t == Adjust(FALSE, r.par, 1)
  <2>1. r.par \in Nat /\ r.name \in Name /\ k.next \in Nat
    BY <1>1 DEF MayCreate, Sound, Volume
  <2>2. e \in Ent /\ e.id = k.next
    BY <2>1 DEF File, Ent, ValenceMod
  <2>3. t \in Seq(Tame)
    BY <2>1, AdjustTask
  <2>4. CreateSteps(k, r) = <<TakeId, AddEnt(e)>> \o t
    BY <1>1 DEF CreateSteps
  <2> HIDE DEF e, t
  <2> QED
    BY <2>2, <2>3, <2>4 DEF Pending
<1>2. CASE ~ MayCreate(r)
  <2>1. CreateSteps(k, r) = << >>
    BY <1>2 DEF CreateSteps, Refused
  <2> QED
    BY <2>1 DEF Pending
<1> QED
  BY <1>1, <1>2

\* What hfs_mkdir does is.
LEMMA MkdirPending ==
  ASSUME NEW k \in Volume, NEW r, Sound(k, Nat, r)
  PROVE  Pending(k, MkdirSteps(k, r))
<1>1. CASE MayCreate(r)
  <2> DEFINE e == Dir(k.next, r.par, r.name)
             x == AddThread(Thread(e))
             t == Adjust(TRUE, r.par, 1)
  <2>1. r.par \in Nat /\ r.name \in Name /\ k.next \in Nat
    BY <1>1 DEF MayCreate, Sound, Volume
  <2>2. e \in Ent /\ e.id = k.next
    BY <2>1 DEF Dir, Ent, ValenceMod
  <2>3. t \in Seq(Tame)
    BY <2>1, AdjustTask
  <2>4. x \in Tame
    BY <2>2, ThreadTask
  <2>5. MkdirSteps(k, r) = <<TakeId, AddEnt(e), x>> \o t
    BY <1>1 DEF MkdirSteps
  <2> DEFINE y == AddEnt(e)
  <2>6. TakeId \in Task /\ y \in Task /\ x \in Task /\ t \in Seq(Task)
    BY <2>2, <2>3, <2>4, TakeIdTask, EntTask, TamePart
  <2> HIDE DEF e, t, x, y
  <2>7. <<TakeId, y, x>> \o t = <<TakeId, y>> \o (<<x>> \o t)
    BY <2>6
  <2>8. <<x>> \o t \in Seq(Tame)
    BY <2>3, <2>4, OneMore
  <2> QED
    BY <2>2, <2>5, <2>7, <2>8 DEF Pending, y
<1>2. CASE ~ MayCreate(r)
  <2>1. MkdirSteps(k, r) = << >>
    BY <1>2 DEF MkdirSteps, Refused
  <2> QED
    BY <2>1 DEF Pending
<1> QED
  BY <1>1, <1>2

\* What hfs_rmdir does is.
LEMMA RmdirPending ==
  ASSUME NEW k \in Volume, NEW r, Sound(k, Nat, r)
  PROVE  Pending(k, RmdirSteps(r))
<1>1. CASE r.how = "found" /\ r.ent.dir /\ r.ent.val = 0 /\ r.par # RootPar
  <2> DEFINE e == r.ent
             x == DropThread(e.id)
             z == DropEnt(e)
             t == Adjust(TRUE, r.par, -1)
  <2>1. e \in k.ent /\ e \in Ent /\ r.par \in Nat
    BY <1>1 DEF Sound, Volume, Ent
  <2>3. t \in Seq(Tame) /\ x \in Tame
    BY <2>1, AdjustTask, ThreadTask
  <2>5. RmdirSteps(r) = <<z, x>> \o t
    BY <1>1 DEF RmdirSteps
  <2>6. z \in Task /\ x \in Task /\ t \in Seq(Task)
    BY <2>1, <2>3, EntTask, TamePart
  <2> HIDE DEF t, x, z, e
  <2>7. <<z, x>> \o t = <<z>> \o (<<x>> \o t)
    BY <2>6
  <2>8. <<x>> \o t \in Seq(Tame)
    BY <2>3, OneMore
  <2> QED
    BY <2>1, <2>5, <2>7, <2>8 DEF Pending, z
<1>2. CASE ~ (r.how = "found" /\ r.ent.dir /\ r.ent.val = 0 /\ r.par # RootPar)
  <2>1. RmdirSteps(r) = << >>
    BY <1>2 DEF RmdirSteps, Refused
  <2> QED
    BY <2>1 DEF Pending
<1> QED
  BY <1>1, <1>2

\* hfs_delete: the thread goes last
LEMMA DeletePending ==
  ASSUME NEW k \in Volume, NEW r, Sound(k, Nat, r)
  PROVE  Pending(k, DeleteSteps(k, r))
<1>1. CASE r.how = "found" /\ ~r.ent.dir /\ r.par # RootPar
  <2> DEFINE e == r.ent
             z == DropEnt(e)
             t == Adjust(FALSE, r.par, -1)
             u == IF Threads(k, e.id) = {} THEN << >> ELSE <<DropThread(e.id)>>
  <2>1. e \in k.ent /\ e \in Ent /\ r.par \in Nat
    BY <1>1 DEF Sound, Volume, Ent
  <2>2. t \in Seq(Tame) /\ DropThread(e.id) \in Tame
    BY <2>1, AdjustTask, ThreadTask
  <2>3. u \in Seq(Tame)
    BY <2>2
  <2>4. z \in Task /\ t \in Seq(Task) /\ u \in Seq(Task)
    <3>1. z \in Task
      BY <2>1, EntTask
    <3> HIDE DEF t, u
    <3> QED
      BY <3>1, <2>2, <2>3, TamePart
  <2>5. DeleteSteps(k, r) = <<z>> \o t \o u
    BY <1>1 DEF DeleteSteps
  <2> HIDE DEF t, u, z, e
  <2>6. (<<z>> \o t) \o u = <<z>> \o (t \o u)
    <3>1. <<z>> \in Seq(Task)
      BY <2>4
    <3> QED
      BY <3>1, <2>4, Regroup
  <2>7. t \o u \in Seq(Tame)
    BY <2>2, <2>3, ConcatProperties
  <2> QED
    BY <2>1, <2>5, <2>6, <2>7 DEF Pending, z
<1>2. CASE ~ (r.how = "found" /\ ~r.ent.dir /\ r.par # RootPar)
  <2>1. DeleteSteps(k, r) = << >>
    BY <1>2 DEF DeleteSteps, Refused
  <2> QED
    BY <2>1 DEF Pending
<1> QED
  BY <1>1, <1>2

\* What follows the last colon of a path is a name or nothing.
LEMMA TypedName ==
  ASSUME NEW path, path.abs \in BOOLEAN, path.steps \in Seq(Name \cup {Up})
  PROVE  Typed(path) \in Name \cup {NoName}
<1>1. CASE Typed(path) = NoName
  BY <1>1
<1>2. CASE Typed(path) # NoName
  <2>1. Typed(path) = Last(path.steps) /\ path.steps # << >> /\ Last(path.steps) # Up
    BY <1>2 DEF Typed
  <2>2. Len(path.steps) \in 1..Len(path.steps)
    BY <2>1
  <2>3. Last(path.steps) = path.steps[Len(path.steps)]
    BY DEF Last
  <2> QED
    BY <2>1, <2>2, <2>3, ElementOfSeq
<1> QED
  BY <1>1, <1>2

\* The second half of Moved: the thread, and the valences of the parents.
MovedRest(k, src, e) ==
  (IF e.dir \/ Threads(k, e.id) # {} THEN <<PutThread(Thread(e))>> ELSE << >>)
  \o (IF e.par = src.par THEN << >>
      ELSE Adjust(e.dir, src.par, -1) \o Adjust(e.dir, e.par, 1))

\* A move is a deletion, an insertion, and steps that are tame.
LEMMA MovedSplit ==
  ASSUME NEW k, NEW src, src.ent \in Ent, src.par \in Nat, NEW e \in Ent
  PROVE  /\ Moved(k, src, e) = <<DropEnt(src.ent), AddEnt(e)>> \o MovedRest(k, src, e)
         /\ MovedRest(k, src, e) \in Seq(Tame)
<1> DEFINE a == <<DropEnt(src.ent), AddEnt(e)>>
           b == IF e.dir \/ Threads(k, e.id) # {} THEN <<PutThread(Thread(e))>> ELSE << >>
           d == IF e.par = src.par THEN << >>
                ELSE Adjust(e.dir, src.par, -1) \o Adjust(e.dir, e.par, 1)
<1>1. e.par \in Nat /\ e.dir \in BOOLEAN
  BY DEF Ent
<1>2. PutThread(Thread(e)) \in Tame
  BY ThreadTask
<1>3. b \in Seq(Tame)
  BY <1>2
<1>4. Adjust(e.dir, src.par, -1) \in Seq(Tame) /\ Adjust(e.dir, e.par, 1) \in Seq(Tame)
  BY <1>1, AdjustTask
<1>5. d \in Seq(Tame)
  <2>1. Adjust(e.dir, src.par, -1) \o Adjust(e.dir, e.par, 1) \in Seq(Tame)
    BY <1>4, ConcatProperties
  <2> QED
    BY <2>1
<1>6. a \in Seq(Task)
  BY EntTask
<1>7. Moved(k, src, e) = a \o b \o d /\ MovedRest(k, src, e) = b \o d
  BY DEF Moved, MovedRest
<1> HIDE DEF a, b, d
<1>8. b \in Seq(Task) /\ d \in Seq(Task)
  BY <1>3, <1>5, TamePart
<1>9. (a \o b) \o d = a \o (b \o d)
  BY <1>6, <1>8, Regroup
<1>10. b \o d \in Seq(Tame)
  BY <1>3, <1>5, ConcatProperties
<1> QED
  BY <1>7, <1>9, <1>10 DEF a

\* What hfs_rename makes of the source.
NewName(k, src, dst, typed) ==
  IF Target(k, src, dst).taken /\ typed # NoName THEN typed ELSE Target(k, src, dst).name

Renamed(k, src, dst, typed) ==
  [src.ent EXCEPT !.par = Target(k, src, dst).par, !.name = NewName(k, src, dst, typed)]

RenameRefused(k, src, dst, typed) ==
  \/ src.how # "found" \/ dst.how = "error" \/ dst.par = 0
  \/ /\ Target(k, src, dst).taken /\ src.par = Target(k, src, dst).par
     /\ src.name = NewName(k, src, dst, typed)
  \/ /\ Target(k, src, dst).taken
     /\ \/ src.par # Target(k, src, dst).par
        \/ ~Same(src.name, NewName(k, src, dst, typed))
  \/ src.par # Target(k, src, dst).par /\ ~MayMove(k, src, Target(k, src, dst).par)

\* A rename is refused, does nothing, or moves the record.
LEMMA RenameParts ==
  ASSUME NEW k, NEW src, NEW dst, NEW typed
  PROVE  /\ RenameRefused(k, src, dst, typed) => RenameSteps(k, src, dst, typed) = << >>
         /\ ~ RenameRefused(k, src, dst, typed) =>
              RenameSteps(k, src, dst, typed) = Moved(k, src, Renamed(k, src, dst, typed))
  BY Zenon DEF RenameRefused, RenameSteps, Refused, Renamed, NewName

\* What is moved keeps all but its parent and its name.
LEMMA RenamedTyped ==
  ASSUME NEW k \in Volume, NEW src, NEW dst, Sound(k, Nat, src), Sound(k, Nat, dst),
         NEW typed \in Name \cup {NoName}, ~ RenameRefused(k, src, dst, typed)
  PROVE  /\ src.ent \in k.ent /\ src.ent \in Ent
         /\ src.par = src.ent.par /\ src.name = src.ent.name
         /\ NewName(k, src, dst, typed) \in Name
         /\ Target(k, src, dst).par \in Nat
         /\ LET e == Renamed(k, src, dst, typed)
            IN  /\ e \in Ent
                /\ e.id = src.ent.id /\ e.dir = src.ent.dir /\ e.val = src.ent.val
                /\ e.par = Target(k, src, dst).par
                /\ e.name = NewName(k, src, dst, typed)
<1>1. src.how = "found" /\ dst.how # "error" /\ dst.par # 0
  BY DEF RenameRefused
<1>2. src.ent \in k.ent /\ src.ent \in Ent /\ src.par = src.ent.par /\ src.name = src.ent.name
  BY <1>1 DEF Sound, Volume
<1>3. src.name \in Name
  BY <1>2 DEF Ent
<1>4. dst.how = "found" => dst.ent \in Ent /\ dst.par = dst.ent.par /\ dst.name = dst.ent.name
  BY DEF Sound, Volume
<1>5. dst.par \in Nat /\ dst.name \in Name
  BY <1>1, <1>4 DEF Sound, Ent
<1>6. Target(k, src, dst).par \in Nat /\ Target(k, src, dst).name \in Name
  <2>1. CASE dst.how = "found" /\ dst.ent.dir /\ dst.ent.id # src.ent.id
    BY <1>3, <1>4, <2>1 DEF Target, Ent
  <2>2. CASE ~ (dst.how = "found" /\ dst.ent.dir /\ dst.ent.id # src.ent.id)
    BY <1>5, <2>2 DEF Target
  <2> QED
    BY <2>1, <2>2
<1>7. NewName(k, src, dst, typed) \in Name
  BY <1>6 DEF NewName
<1> DEFINE p == Target(k, src, dst).par
           m == NewName(k, src, dst, typed)
<1>8. Renamed(k, src, dst, typed) = [src.ent EXCEPT !.par = p, !.name = m]
  BY DEF Renamed
<1>9. p \in Nat /\ m \in Name
  BY <1>6, <1>7
<1> HIDE DEF p, m
<1> DEFINE e == [src.ent EXCEPT !.par = p, !.name = m]
<1>10. e \in Ent
  BY <1>2, <1>9 DEF Ent
<1>11. e.id = src.ent.id /\ e.dir = src.ent.dir /\ e.val = src.ent.val /\ e.par = p /\ e.name = m
  BY <1>2 DEF Ent
<1> QED
  BY <1>2, <1>8, <1>9, <1>10, <1>11 DEF p, m

\* What hfs_rename does is pending when its checks are made.
LEMMA RenamePending ==
  ASSUME NEW k \in Volume, NEW src, NEW dst, Sound(k, Nat, src), Sound(k, Nat, dst),
         NEW typed \in Name \cup {NoName}
  PROVE  Pending(k, RenameSteps(k, src, dst, typed))
<1>1. CASE RenameRefused(k, src, dst, typed)
  <2>1. RenameSteps(k, src, dst, typed) = << >>
    BY <1>1, RenameParts
  <2> QED
    BY <2>1 DEF Pending
<1>2. CASE ~ RenameRefused(k, src, dst, typed)
  <2> DEFINE e == Renamed(k, src, dst, typed)
  <2>1. RenameSteps(k, src, dst, typed) = Moved(k, src, e)
    BY <1>2, RenameParts
  <2>2. src.ent \in k.ent /\ src.ent \in Ent /\ e \in Ent /\ e.id = src.ent.id
    BY <1>2, RenamedTyped
  <2>3. src.par \in Nat
    BY <1>2, RenamedTyped DEF Ent
  <2> HIDE DEF e
  <2>4. /\ Moved(k, src, e) = <<DropEnt(src.ent), AddEnt(e)>> \o MovedRest(k, src, e)
        /\ MovedRest(k, src, e) \in Seq(Tame)
    BY <2>2, <2>3, MovedSplit
  <2> QED
    BY <2>1, <2>2, <2>4 DEF Pending
<1> QED
  BY <1>1, <1>2

-----------------------------------------------------------------------------
(* The records stay sound. *)

RecordsInv ==
  /\ c \in Volume /\ Unique(c)
  /\ cwd \in Nat /\ harm \in Nat /\ astray \in BOOLEAN
  /\ Pending(c, todo)

\* The invariant gives the property.
LEMMA RecordsInvGives ==
  ASSUME RecordsInv
  PROVE  RecordsSound
<1>1. todo \in Seq(Task)
  BY PendingTyped DEF RecordsInv
<1>2. ASSUME NEW s \in Task PROVE "do" \in DOMAIN s
  BY DEF Task, Id, Ins, Rem, Tame, InsT, RemT, PutT, Cnt, Val
<1>3. \A i \in 1..Len(todo) : "do" \in DOMAIN todo[i]
  BY <1>1, <1>2, ElementOfSeq
<1> QED
  BY <1>3 DEF RecordsInv, RecordsSound, TypeOK, NumbersAndKeysUnique

\* It holds of every volume that may be mounted.
LEMMA RecordsInit == Init => RecordsInv
<1>1. ASSUME NEW v \in OldVolumes PROVE v \in Volume /\ Unique(v)
  BY CatalogAssumption DEF Intact
<1>2. << >> \in Seq(Tame)
  OBVIOUS
<1> SUFFICES ASSUME Init PROVE RecordsInv
  OBVIOUS
<1>3. c \in Volume /\ Unique(c)
  BY <1>1 DEF Init
<1>4. cwd \in Nat /\ harm \in Nat /\ astray \in BOOLEAN
  BY DEF Init, RootDir
<1>5. Pending(c, todo)
  BY <1>2 DEF Init, Pending
<1> QED
  BY <1>3, <1>4, <1>5 DEF RecordsInv

\* A path leads to a record that is there, or to no record.
LEMMA LookSound ==
  ASSUME RecordsInv, NEW p \in Paths
  PROVE  Sound(c, Nat, Look(p)) /\ Typed(p) \in Name \cup {NoName}
<1>1. p.abs \in BOOLEAN /\ p.steps \in Seq(Name \cup {Up})
  BY CatalogAssumption
<1>2. Closed(c, Nat, cwd)
  BY DEF Closed, RecordsInv, Volume, Ent, Thr, RootPar
<1> QED
  BY <1>1, <1>2, ResolveSound, TypedName DEF Look, RecordsInv

\* A call that begins leaves it true if its steps are pending.
LEMMA RecordsBegin ==
  ASSUME RecordsInv, NEW steps, NEW r, Pending(c, steps), Begin(steps, r)
  PROVE  RecordsInv'
<1>1. astray' \in BOOLEAN
  BY DEF Begin, Stray
<1> QED
  BY <1>1 DEF Begin, RecordsInv

\* No step breaks it.
LEMMA RecordsNext ==
  ASSUME RecordsInv, [Next]_vars
  PROVE  RecordsInv'
<1>1. ASSUME NEW p \in Paths, Call(Look(p)) PROVE RecordsInv'
  <2> DEFINE r == Look(p)
  <2>0. Sound(c, Nat, r) /\ c \in Volume
    BY LookSound DEF RecordsInv
  <2> HIDE DEF r
  <2>1. CASE Create(r)
    BY <2>0, <2>1, CreatePending, RecordsBegin DEF Create
  <2>2. CASE Mkdir(r)
    BY <2>0, <2>2, MkdirPending, RecordsBegin DEF Mkdir
  <2>3. CASE Rmdir(r)
    BY <2>0, <2>3, RmdirPending, RecordsBegin DEF Rmdir
  <2>4. CASE Delete(r)
    BY <2>0, <2>4, DeletePending, RecordsBegin DEF Delete
  <2>5. CASE Chdir(r)
    <3>1. cwd' = r.ent.id /\ r.ent \in c.ent
      BY <2>0, <2>5 DEF Chdir, Sound
    <3>2. cwd' \in Nat
      BY <2>0, <3>1 DEF Volume, Ent
    <3> QED
      BY <2>5, <3>2 DEF Chdir, RecordsInv
  <2> QED
    BY <1>1, <2>1, <2>2, <2>3, <2>4, <2>5 DEF Call, r
<1>2. ASSUME NEW p \in Paths, NEW q \in Paths, Rename(Look(p), Look(q), Typed(q))
      PROVE  RecordsInv'
  <2> DEFINE a == Look(p)
             b == Look(q)
             t == Typed(q)
  <2>1. Sound(c, Nat, a) /\ Sound(c, Nat, b) /\ t \in Name \cup {NoName} /\ c \in Volume
    BY LookSound DEF RecordsInv
  <2> HIDE DEF a, b, t
  <2>2. Pending(c, RenameSteps(c, a, b, t))
    BY <2>1, RenamePending
  <2> QED
    BY <1>2, <2>2, RecordsBegin DEF Rename, a, b, t
<1>3. ASSUME NEW id \in RootDir..MaxId, SetCwd(id) PROVE RecordsInv'
  <2>1. id \in Nat
    BY CatalogAssumption DEF RootDir
  <2> QED
    BY <1>3, <2>1 DEF SetCwd, RecordsInv
<1>4. CASE Step
  <2>1. CASE Ready(c, Head(todo))
    <3>1. c' = Apply(c, Head(todo)) /\ todo' = Tail(todo)
          /\ UNCHANGED <<harm, cwd, astray>> /\ todo # << >>
      BY <1>4, <2>1 DEF Step
    <3>2. /\ Apply(c, Head(todo)) \in Volume /\ Unique(Apply(c, Head(todo)))
          /\ Pending(Apply(c, Head(todo)), Tail(todo))
      BY <2>1, <3>1, StepPending DEF RecordsInv
    <3>3. c' \in Volume /\ Unique(c') /\ Pending(c', todo')
      BY <3>1, <3>2
    <3> QED
      BY <3>1, <3>3 DEF RecordsInv
  <2>2. CASE ~ Ready(c, Head(todo))
    <3>1. c' = c /\ todo' = << >> /\ harm' = harm + 1 /\ UNCHANGED <<cwd, astray>>
      BY <1>4, <2>2 DEF Step, Fail
    <3>2. << >> \in Seq(Tame)
      OBVIOUS
    <3> QED
      BY <3>1, <3>2 DEF RecordsInv, Pending
  <2> QED
    BY <2>1, <2>2
<1>5. CASE Fault
  <2>1. << >> \in Seq(Tame)
    OBVIOUS
  <2> QED
    BY <1>5, <2>1 DEF Fault, Fail, RecordsInv, Pending
<1>6. CASE UNCHANGED vars
  BY <1>6 DEF vars, RecordsInv
<1> QED
  BY <1>1, <1>2, <1>3, <1>4, <1>5, <1>6 DEF Next, NewCall

\* However calls fail half way, no record has a number that drNxtCNID could
\* still give out, no two have one number, and no two in a directory compare
\* equal (hfs_create, v_mkdir, hfs_rename).
THEOREM RecordsStaySound == Spec => []RecordsSound
<1>1. Init => RecordsInv
  BY RecordsInit
<1>2. RecordsInv /\ [Next]_vars => RecordsInv'
  BY RecordsNext
<1>3. RecordsInv => RecordsSound
  BY RecordsInvGives
<1> QED
  BY <1>1, <1>2, <1>3, PTL DEF Spec

-----------------------------------------------------------------------------
(* Runs: steps that lead from one catalog to another. *)

\* f leads from k to d by the steps p, each of which is ready in its turn.
Leads(f, k, p, d) ==
  /\ f \in [0..Len(p) -> Volume] /\ f[0] = k /\ f[Len(p)] = d
  /\ \A i \in 1..Len(p) : Ready(f[i - 1], p[i]) /\ f[i] = Apply(f[i - 1], p[i])

Runs(k, p, d) == \E f : Leads(f, k, p, d)

\* Nothing leads from a catalog to itself only.
LEMMA RunsNone ==
  ASSUME NEW k \in Volume, NEW d
  PROVE  Runs(k, << >>, d) <=> d = k
<1>1. ASSUME Runs(k, << >>, d) PROVE d = k
  BY <1>1 DEF Runs, Leads
<1>2. Runs(k, << >>, k)
  <2> DEFINE f == [i \in 0..0 |-> k]
  <2>1. f \in [0..0 -> Volume] /\ f[0] = k /\ Len(<< >>) = 0 /\ 1..0 = {}
    OBVIOUS
  <2>2. Leads(f, k, << >>, k)
    <3> HIDE DEF f
    <3> QED
      BY <2>1 DEF Leads
  <2> QED
    BY <2>2 DEF Runs
<1> QED
  BY <1>1, <1>2

\* One step that is ready leads to what it makes.
LEMMA RunsOne ==
  ASSUME NEW k \in Volume, NEW s, NEW d \in Volume, Ready(k, s), d = Apply(k, s)
  PROVE  Runs(k, <<s>>, d)
<1> DEFINE f == [i \in 0..1 |-> IF i = 0 THEN k ELSE d]
<1>1. f \in [0..1 -> Volume] /\ f[0] = k /\ f[1] = d
  OBVIOUS
<1>2. Len(<<s>>) = 1 /\ <<s>>[1] = s /\ 1..1 = {1} /\ 1 - 1 = 0
  OBVIOUS
<1> HIDE DEF f
<1>3. \A i \in 1..Len(<<s>>) : Ready(f[i - 1], <<s>>[i]) /\ f[i] = Apply(f[i - 1], <<s>>[i])
  <2> SUFFICES ASSUME NEW i \in 1..Len(<<s>>)
               PROVE  Ready(f[i - 1], <<s>>[i]) /\ f[i] = Apply(f[i - 1], <<s>>[i])
    OBVIOUS
  <2>1. i = 1 /\ i - 1 = 0
    BY <1>2
  <2> QED
    BY <1>1, <1>2, <2>1
<1>4. Leads(f, k, <<s>>, d)
  BY <1>1, <1>2, <1>3 DEF Leads
<1> QED
  BY <1>4 DEF Runs

\* One run after another is a run.
LEMMA RunsCat ==
  ASSUME NEW k, NEW m, NEW d, NEW p \in Seq(Task), NEW q \in Seq(Task),
         Runs(k, p, m), Runs(m, q, d)
  PROVE  Runs(k, p \o q, d)
<1>1. PICK f : Leads(f, k, p, m)
  BY DEF Runs
<1>2. PICK g : Leads(g, m, q, d)
  BY DEF Runs
<1> DEFINE a == Len(p)
           b == Len(q)
           h == [i \in 0..a + b |-> IF i <= a THEN f[i] ELSE g[i - a]]
<1>3. /\ a \in Nat /\ b \in Nat /\ Len(p \o q) = a + b
      /\ \A i \in 1..a + b : (p \o q)[i] = IF i <= a THEN p[i] ELSE q[i - a]
  BY ConcatProperties, LenProperties
<1>4. /\ f \in [0..a -> Volume] /\ f[0] = k /\ f[a] = m
      /\ \A i \in 1..a : Ready(f[i - 1], p[i]) /\ f[i] = Apply(f[i - 1], p[i])
  BY <1>1 DEF Leads
<1>5. /\ g \in [0..b -> Volume] /\ g[0] = m /\ g[b] = d
      /\ \A i \in 1..b : Ready(g[i - 1], q[i]) /\ g[i] = Apply(g[i - 1], q[i])
  BY <1>2 DEF Leads
<1> HIDE DEF a, b
<1>6. h \in [0..a + b -> Volume]
  <2> SUFFICES ASSUME NEW i \in 0..a + b
               PROVE  (IF i <= a THEN f[i] ELSE g[i - a]) \in Volume
    OBVIOUS
  <2>1. CASE i <= a
    <3>1. i \in 0..a
      BY <1>3, <2>1
    <3> QED
      BY <1>4, <2>1, <3>1
  <2>2. CASE ~ (i <= a)
    <3>1. i - a \in 0..b
      BY <1>3, <2>2
    <3> QED
      BY <1>5, <2>2, <3>1
  <2> QED
    BY <2>1, <2>2
<1>7. \A i \in 0..a : h[i] = f[i]
  BY <1>3
<1>8. \A i \in 0..b : h[a + i] = g[i]
  <2> SUFFICES ASSUME NEW i \in 0..b PROVE h[a + i] = g[i]
    OBVIOUS
  <2>1. a + i \in 0..a + b /\ (a + i) - a = i /\ (a + i <= a <=> i = 0) /\ a + 0 = a
    BY <1>3
  <2>2. CASE i = 0
    <3>1. h[a] = f[a]
      BY <1>3, <1>7
    <3> QED
      BY <1>4, <1>5, <2>1, <2>2, <3>1
  <2>3. CASE i # 0
    BY <2>1, <2>3
  <2> QED
    BY <2>2, <2>3
<1> HIDE DEF h
<1>9. h[0] = k /\ h[a + b] = d
  BY <1>3, <1>4, <1>5, <1>7, <1>8
<1>10. ASSUME NEW i \in 1..a + b
       PROVE  Ready(h[i - 1], (p \o q)[i]) /\ h[i] = Apply(h[i - 1], (p \o q)[i])
  <2>1. CASE i <= a
    <3>1. i \in 1..a /\ i \in 0..a /\ i - 1 \in 0..a
      BY <1>3, <2>1
    <3>2. (p \o q)[i] = p[i] /\ h[i] = f[i] /\ h[i - 1] = f[i - 1]
      BY <1>3, <1>7, <2>1, <3>1
    <3> QED
      BY <1>4, <3>1, <3>2
  <2>2. CASE ~ (i <= a)
    <3> DEFINE j == i - a
    <3>1. j \in 1..b /\ j \in 0..b /\ j - 1 \in 0..b /\ i = a + j /\ i - 1 = a + (j - 1)
      BY <1>3, <2>2
    <3> HIDE DEF j
    <3>2. (p \o q)[i] = q[j]
      BY <1>3, <2>2 DEF j
    <3>3. h[i] = g[j] /\ h[i - 1] = g[j - 1]
      BY <1>8, <3>1
    <3> QED
      BY <1>5, <3>1, <3>2, <3>3
  <2> QED
    BY <2>1, <2>2
<1>11. Leads(h, k, p \o q, d)
  BY <1>3, <1>6, <1>9, <1>10 DEF Leads
<1> QED
  BY <1>11 DEF Runs

\* A run that is not empty begins with a step that is ready.
LEMMA RunsStep ==
  ASSUME NEW k, NEW p \in Seq(Task), p # << >>, NEW d, Runs(k, p, d)
  PROVE  /\ Ready(k, Head(p))
         /\ Runs(Apply(k, Head(p)), Tail(p), d)
<1>1. PICK f : Leads(f, k, p, d)
  BY DEF Runs
<1> DEFINE n == Len(p)
           g == [i \in 0..n - 1 |-> f[i + 1]]
<1>2. /\ n \in Nat /\ n >= 1 /\ Head(p) = p[1] /\ Tail(p) \in Seq(Task)
      /\ Len(Tail(p)) = n - 1 /\ \A i \in 1..n - 1 : Tail(p)[i] = p[i + 1]
  BY HeadTailProperties, EmptySeq
<1>3. /\ f \in [0..n -> Volume] /\ f[0] = k /\ f[n] = d
      /\ \A i \in 1..n : Ready(f[i - 1], p[i]) /\ f[i] = Apply(f[i - 1], p[i])
  BY <1>1 DEF Leads
<1> HIDE DEF n
<1>4. Ready(k, Head(p)) /\ f[1] = Apply(k, Head(p))
  <2>1. 1 \in 1..n /\ 1 - 1 = 0
    BY <1>2
  <2> QED
    BY <1>2, <1>3, <2>1
<1>5. g \in [0..n - 1 -> Volume]
  <2>1. \A i \in 0..n - 1 : i + 1 \in 0..n
    BY <1>2
  <2> QED
    BY <1>3, <2>1
<1>6. \A i \in 0..n - 1 : g[i] = f[i + 1]
  OBVIOUS
<1> HIDE DEF g
<1>7. g[0] = Apply(k, Head(p)) /\ g[n - 1] = d
  <2>1. 0 \in 0..n - 1 /\ n - 1 \in 0..n - 1 /\ 0 + 1 = 1 /\ (n - 1) + 1 = n
    BY <1>2
  <2> QED
    BY <1>3, <1>4, <1>6, <2>1
<1>8. ASSUME NEW i \in 1..n - 1
      PROVE  Ready(g[i - 1], Tail(p)[i]) /\ g[i] = Apply(g[i - 1], Tail(p)[i])
  <2>1. i \in 0..n - 1 /\ i - 1 \in 0..n - 1 /\ i + 1 \in 1..n
        /\ (i - 1) + 1 = i /\ (i + 1) - 1 = i
    BY <1>2
  <2>2. g[i] = f[i + 1] /\ g[i - 1] = f[i] /\ Tail(p)[i] = p[i + 1]
    BY <1>2, <1>6, <2>1
  <2> QED
    BY <1>3, <2>1, <2>2
<1>9. Leads(g, Apply(k, Head(p)), Tail(p), d)
  BY <1>2, <1>5, <1>7, <1>8 DEF Leads
<1> QED
  BY <1>4, <1>9 DEF Runs

-----------------------------------------------------------------------------
(* Counts, and what is owed to them. *)

\* A set grows by one, or not at all, when its base grows by one.
LEMMA CardGrow ==
  ASSUME NEW E, IsFiniteSet(E), NEW e, e \notin E, NEW A \in SUBSET E,
         NEW B \in SUBSET (E \cup {e}), \A x \in E : x \in A <=> x \in B
  PROVE  /\ Cardinality(A) \in Nat /\ Cardinality(B) \in Nat
         /\ Cardinality(B) = IF e \in B THEN Cardinality(A) + 1 ELSE Cardinality(A)
<1>1. IsFiniteSet(A)
  BY FS_Subset
<1>2. Cardinality(A) \in Nat
  BY <1>1, FS_CardinalityType
<1>3. CASE e \in B
  <2>1. B = A \cup {e} /\ e \notin A
    BY <1>3
  <2>2. Cardinality(B) = Cardinality(A) + 1
    BY <1>1, <2>1, FS_AddElement
  <2> QED
    BY <1>2, <1>3, <2>2
<1>4. CASE e \notin B
  <2>1. B = A
    BY <1>4
  <2> QED
    BY <1>2, <1>4, <2>1
<1> QED
  BY <1>3, <1>4

\* A set keeps its size when one element takes the place of another.
LEMMA CardSwap ==
  ASSUME NEW E, IsFiniteSet(E), NEW p \in E, NEW q, q \notin E \ {p}, NEW A \in SUBSET E,
         NEW B \in SUBSET ((E \ {p}) \cup {q}),
         \A x \in E \ {p} : x \in A <=> x \in B, p \in A <=> q \in B
  PROVE  Cardinality(A) \in Nat /\ Cardinality(B) = Cardinality(A)
<1> DEFINE G == E \ {p}
           C == A \ {p}
<1>1. IsFiniteSet(G) /\ p \notin G /\ q \notin G /\ E = G \cup {p} /\ C \in SUBSET G
  BY FS_RemoveElement
<1>2. \A x \in G : (x \in C <=> x \in A) /\ (x \in C <=> x \in B)
  OBVIOUS
<1>3. A \in SUBSET (G \cup {p}) /\ B \in SUBSET (G \cup {q})
  OBVIOUS
<1> HIDE DEF G, C
<1>4. /\ Cardinality(A) \in Nat
      /\ Cardinality(A) = IF p \in A THEN Cardinality(C) + 1 ELSE Cardinality(C)
  BY <1>1, <1>2, <1>3, CardGrow
<1>5. Cardinality(B) = IF q \in B THEN Cardinality(C) + 1 ELSE Cardinality(C)
  BY <1>1, <1>2, <1>3, CardGrow
<1> QED
  BY <1>4, <1>5

\* Adjusting modulo 2^16 is adjusting, modulo 2^16.
LEMMA ModShift ==
  ASSUME NEW x \in Int, NEW a \in Int
  PROVE  ((x % ValenceMod) + a) % ValenceMod = (x + a) % ValenceMod
<1>1. ((x % 65536) + a) % 65536 = (x + a) % 65536
  OBVIOUS
<1> QED
  BY <1>1 DEF ValenceMod

-----------------------------------------------------------------------------
\* What a call that has not ended owes to the counts: children not yet in the
\* valence of a directory (v), records not yet in the counts of the MDB (t),
\* and those of the root not yet in its counts (r), by kind.
Debt == [v : [Nat -> Int], t : [BOOLEAN -> Int], r : [BOOLEAN -> Int]]

NoDebt == [v |-> [n \in Nat |-> 0], t |-> [b \in BOOLEAN |-> 0], r |-> [b \in BOOLEAN |-> 0]]

Due(D, dir, par, a) ==
  [v |-> [D.v EXCEPT ![par] = @ + a],
   t |-> [D.t EXCEPT ![dir] = @ + a],
   r |-> IF par = RootDir THEN [D.r EXCEPT ![dir] = @ + a] ELSE D.r]

Of(k, b) == {e \in k.ent : e.dir = b}
RootOf(k, b) == {e \in k.ent : e.par = RootDir /\ e.dir = b}
Total(k, b) == IF b THEN k.dirs + 1 ELSE k.files
RootTotal(k, b) == IF b THEN k.rootDirs ELSE k.rootFiles

Worth(k, D, e) == e.dir => e.val = (Cardinality(Children(k, e.id)) - D.v[e.id]) % ValenceMod

Owing(k, D) ==
  /\ D \in Debt
  /\ \A e \in k.ent : Worth(k, D, e)
  /\ \A b \in BOOLEAN : /\ Total(k, b) + D.t[b] = Cardinality(Of(k, b))
                        /\ RootTotal(k, b) + D.r[b] = Cardinality(RootOf(k, b))

\* Debts stay debts.
LEMMA DebtTyped ==
  /\ NoDebt \in Debt
  /\ \A D \in Debt, dir \in BOOLEAN, par \in Nat, a \in Int : Due(D, dir, par, a) \in Debt
  BY DEF Debt, NoDebt, Due

\* The values of a debt F that differs from D by what is due.
IsDue(F, D, dir, par, a) ==
  /\ F \in Debt
  /\ \A n \in Nat : F.v[n] = IF n = par THEN D.v[n] + a ELSE D.v[n]
  /\ \A b \in BOOLEAN : F.t[b] = IF b = dir THEN D.t[b] + a ELSE D.t[b]
  /\ \A b \in BOOLEAN : F.r[b] = IF b = dir /\ par = RootDir THEN D.r[b] + a ELSE D.r[b]
  /\ D.v \in [Nat -> Int] /\ D.t \in [BOOLEAN -> Int] /\ D.r \in [BOOLEAN -> Int]

\* What is due after an object has come or gone.
LEMMA DueValues ==
  ASSUME NEW D \in Debt, NEW dir \in BOOLEAN, NEW par \in Nat, NEW a \in Int
  PROVE  IsDue(Due(D, dir, par, a), D, dir, par, a)
<1>1. D.v \in [Nat -> Int] /\ D.t \in [BOOLEAN -> Int] /\ D.r \in [BOOLEAN -> Int]
  BY DEF Debt
<1>2. \A n \in Nat : Due(D, dir, par, a).v[n] = IF n = par THEN D.v[n] + a ELSE D.v[n]
  BY <1>1 DEF Due
<1>3. \A b \in BOOLEAN : Due(D, dir, par, a).t[b] = IF b = dir THEN D.t[b] + a ELSE D.t[b]
  BY <1>1 DEF Due
<1>4. \A b \in BOOLEAN : Due(D, dir, par, a).r[b] =
              IF b = dir /\ par = RootDir THEN D.r[b] + a ELSE D.r[b]
  <2>1. CASE par = RootDir
    BY <1>1, <2>1 DEF Due
  <2>2. CASE par # RootDir
    BY <1>1, <2>2 DEF Due
  <2> QED
    BY <2>1, <2>2
<1> QED
  BY <1>1, <1>2, <1>3, <1>4, DebtTyped DEF IsDue

\* Two debts of the same amounts are one.
LEMMA DebtEqual ==
  ASSUME NEW D \in Debt, NEW F \in Debt, \A n \in Nat : D.v[n] = F.v[n],
         \A b \in BOOLEAN : D.t[b] = F.t[b] /\ D.r[b] = F.r[b]
  PROVE  D = F
<1>1. /\ D.v \in [Nat -> Int] /\ D.t \in [BOOLEAN -> Int] /\ D.r \in [BOOLEAN -> Int]
      /\ F.v \in [Nat -> Int] /\ F.t \in [BOOLEAN -> Int] /\ F.r \in [BOOLEAN -> Int]
  BY DEF Debt
<1>2. D.v = F.v /\ D.t = F.t /\ D.r = F.r
  BY <1>1
<1>3. D = [v |-> D.v, t |-> D.t, r |-> D.r] /\ F = [v |-> F.v, t |-> F.t, r |-> F.r]
  BY DEF Debt
<1> QED
  BY <1>2, <1>3

\* What is due is paid by its opposite.
LEMMA DuePaid ==
  ASSUME NEW D \in Debt, NEW dir \in BOOLEAN, NEW par \in Nat, NEW a \in Int
  PROVE  Due(Due(D, dir, par, a), dir, par, -a) = D
<1> DEFINE F == Due(D, dir, par, a)
           m == -a
           G == Due(F, dir, par, m)
<1>1. m \in Int
  OBVIOUS
<1>2. IsDue(F, D, dir, par, a)
  BY DueValues
<1>3. F \in Debt
  BY <1>2 DEF IsDue
<1> HIDE DEF m, F
<1>4. IsDue(G, F, dir, par, m)
  BY <1>1, <1>3, DueValues
<1> HIDE DEF G
<1>5. G \in Debt
  BY <1>4 DEF IsDue
<1>6. \A n \in Nat : G.v[n] = D.v[n]
  BY <1>2, <1>4 DEF IsDue, m
<1>7. \A b \in BOOLEAN : G.t[b] = D.t[b] /\ G.r[b] = D.r[b]
  <2> SUFFICES ASSUME NEW b \in BOOLEAN PROVE G.t[b] = D.t[b] /\ G.r[b] = D.r[b]
    OBVIOUS
  <2>1. D.t[b] \in Int /\ D.r[b] \in Int
    BY <1>2 DEF IsDue
  <2> QED
    BY <2>1, <1>2, <1>4 DEF IsDue, m
<1>8. G = D
  BY <1>5, <1>6, <1>7, DebtEqual
<1> QED
  BY <1>8 DEF F, G, m

\* The order in which debts arise is of no account.
LEMMA DueSwap ==
  ASSUME NEW D \in Debt, NEW dir \in BOOLEAN, NEW p \in Nat, NEW a \in Int,
         NEW q \in Nat, NEW b \in Int
  PROVE  Due(Due(D, dir, p, a), dir, q, b) = Due(Due(D, dir, q, b), dir, p, a)
<1> DEFINE F == Due(D, dir, p, a)
           G == Due(F, dir, q, b)
           H == Due(D, dir, q, b)
           J == Due(H, dir, p, a)
<1>1. IsDue(F, D, dir, p, a) /\ IsDue(H, D, dir, q, b)
  BY DueValues
<1> HIDE DEF F, H
<1>2. F \in Debt /\ H \in Debt
  BY <1>1 DEF IsDue
<1>3. IsDue(G, F, dir, q, b) /\ IsDue(J, H, dir, p, a)
  BY <1>2, DueValues
<1> HIDE DEF G, J
<1>4. G \in Debt /\ J \in Debt
  BY <1>3 DEF IsDue
<1>5. ASSUME NEW n \in Nat PROVE G.v[n] = J.v[n]
  <2>1. D.v[n] \in Int
    BY <1>1 DEF IsDue
  <2>2. /\ F.v[n] = IF n = p THEN D.v[n] + a ELSE D.v[n]
        /\ H.v[n] = IF n = q THEN D.v[n] + b ELSE D.v[n]
        /\ G.v[n] = IF n = q THEN F.v[n] + b ELSE F.v[n]
        /\ J.v[n] = IF n = p THEN H.v[n] + a ELSE H.v[n]
    BY <1>1, <1>3 DEF IsDue
  <2> QED
    BY <2>1, <2>2
<1>6. ASSUME NEW x \in BOOLEAN PROVE G.t[x] = J.t[x] /\ G.r[x] = J.r[x]
  <2>1. D.t[x] \in Int /\ D.r[x] \in Int
    BY <1>1 DEF IsDue
  <2>2. /\ F.t[x] = IF x = dir THEN D.t[x] + a ELSE D.t[x]
        /\ F.r[x] = IF x = dir /\ p = RootDir THEN D.r[x] + a ELSE D.r[x]
        /\ H.t[x] = IF x = dir THEN D.t[x] + b ELSE D.t[x]
        /\ H.r[x] = IF x = dir /\ q = RootDir THEN D.r[x] + b ELSE D.r[x]
    BY <1>1 DEF IsDue
  <2>3. /\ G.t[x] = IF x = dir THEN F.t[x] + b ELSE F.t[x]
        /\ G.r[x] = IF x = dir /\ q = RootDir THEN F.r[x] + b ELSE F.r[x]
        /\ J.t[x] = IF x = dir THEN H.t[x] + a ELSE H.t[x]
        /\ J.r[x] = IF x = dir /\ p = RootDir THEN H.r[x] + a ELSE H.r[x]
    BY <1>3 DEF IsDue
  <2> QED
    BY <2>1, <2>2, <2>3
<1>7. G = J
  BY <1>4, <1>5, <1>6, DebtEqual
<1> QED
  BY <1>7 DEF F, G, H, J

\* The counts agree when nothing is owed.
LEMMA CountsDebt ==
  ASSUME NEW k \in Volume, IsFiniteSet(k.ent)
  PROVE  CountsAgree(k) <=> Owing(k, NoDebt)
<1>1. /\ {e \in k.ent : e.dir} = Of(k, TRUE)
      /\ {e \in k.ent : ~e.dir} = Of(k, FALSE)
      /\ {e \in Children(k, RootDir) : e.dir} = RootOf(k, TRUE)
      /\ {e \in Children(k, RootDir) : ~e.dir} = RootOf(k, FALSE)
  BY DEF Of, RootOf, Children, Volume, Ent
<1>2. \A e \in k.ent : e.id \in Nat
  BY DEF Volume, Ent
<1>3. ASSUME NEW e \in k.ent
      PROVE  (Cardinality(Children(k, e.id)) - NoDebt.v[e.id]) = Cardinality(Children(k, e.id))
  <2>1. NoDebt.v[e.id] = 0
    BY <1>2 DEF NoDebt
  <2>2. Cardinality(Children(k, e.id)) \in Nat
    <3>1. IsFiniteSet(Children(k, e.id))
      BY FS_Subset DEF Children
    <3> QED
      BY <3>1, FS_CardinalityType
  <2> QED
    BY <2>1, <2>2
<1>4. NoDebt.t[TRUE] = 0 /\ NoDebt.t[FALSE] = 0 /\ NoDebt.r[TRUE] = 0 /\ NoDebt.r[FALSE] = 0
  BY DEF NoDebt
<1>5. /\ Cardinality(Of(k, TRUE)) \in Nat /\ Cardinality(Of(k, FALSE)) \in Nat
      /\ Cardinality(RootOf(k, TRUE)) \in Nat /\ Cardinality(RootOf(k, FALSE)) \in Nat
  <2>1. \A b \in BOOLEAN : IsFiniteSet(Of(k, b)) /\ IsFiniteSet(RootOf(k, b))
    BY FS_Subset DEF Of, RootOf
  <2> QED
    BY <2>1, FS_CardinalityType
<1>6. k.dirs \in Int /\ k.files \in Int /\ k.rootDirs \in Int /\ k.rootFiles \in Int
  BY DEF Volume
<1>7. (\A e \in k.ent : e.dir => e.val = Cardinality(Children(k, e.id)) % ValenceMod)
      <=> \A e \in k.ent : Worth(k, NoDebt, e)
  BY <1>3 DEF Worth
<1>8. (/\ k.dirs = Cardinality(Of(k, TRUE)) - 1
       /\ k.files = Cardinality(Of(k, FALSE))
       /\ k.rootDirs = Cardinality(RootOf(k, TRUE))
       /\ k.rootFiles = Cardinality(RootOf(k, FALSE)))
      <=> \A b \in BOOLEAN : /\ Total(k, b) + NoDebt.t[b] = Cardinality(Of(k, b))
                             /\ RootTotal(k, b) + NoDebt.r[b] = Cardinality(RootOf(k, b))
  <2>1. Total(k, TRUE) = k.dirs + 1 /\ Total(k, FALSE) = k.files
        /\ RootTotal(k, TRUE) = k.rootDirs /\ RootTotal(k, FALSE) = k.rootFiles
    BY DEF Total, RootTotal
  <2>2. (\A b \in BOOLEAN : /\ Total(k, b) + NoDebt.t[b] = Cardinality(Of(k, b))
                            /\ RootTotal(k, b) + NoDebt.r[b] = Cardinality(RootOf(k, b)))
        <=> /\ Total(k, TRUE) + NoDebt.t[TRUE] = Cardinality(Of(k, TRUE))
            /\ RootTotal(k, TRUE) + NoDebt.r[TRUE] = Cardinality(RootOf(k, TRUE))
            /\ Total(k, FALSE) + NoDebt.t[FALSE] = Cardinality(Of(k, FALSE))
            /\ RootTotal(k, FALSE) + NoDebt.r[FALSE] = Cardinality(RootOf(k, FALSE))
    OBVIOUS
  <2> DEFINE a == Cardinality(Of(k, TRUE))
             b == Cardinality(Of(k, FALSE))
             x == Cardinality(RootOf(k, TRUE))
             y == Cardinality(RootOf(k, FALSE))
  <2>3. a \in Nat /\ b \in Nat /\ x \in Nat /\ y \in Nat
    BY <1>5, Zenon
  <2> HIDE DEF a, b, x, y
  <2>4. (k.dirs = a - 1 <=> (k.dirs + 1) + 0 = a) /\ (k.files = b <=> k.files + 0 = b)
        /\ (k.rootDirs = x <=> k.rootDirs + 0 = x) /\ (k.rootFiles = y <=> k.rootFiles + 0 = y)
    BY <1>6, <2>3
  <2> QED
    BY <1>4, <2>1, <2>2, <2>4 DEF a, b, x, y
<1> QED
  BY <1>1, <1>7, <1>8, DebtTyped DEF CountsAgree, Owing

\* l has one record more than k, and the same fields of the MDB.
Grown(k, l, e) ==
  /\ e \in Ent /\ e \notin k.ent /\ IsFiniteSet(k.ent) /\ l.ent = k.ent \cup {e}
  /\ k.ent \subseteq Ent
  /\ l.dirs = k.dirs /\ l.files = k.files
  /\ l.rootDirs = k.rootDirs /\ l.rootFiles = k.rootFiles
  /\ k.dirs \in Int /\ k.files \in Int /\ k.rootDirs \in Int /\ k.rootFiles \in Int

One(yes) == IF yes THEN 1 ELSE 0

\* What one record more does to every count.
LEMMA GrownCards ==
  ASSUME NEW k, NEW l, NEW e, Grown(k, l, e)
  PROVE  /\ \A n \in Nat :
              /\ Cardinality(Children(k, n)) \in Nat
              /\ Cardinality(Children(l, n)) = Cardinality(Children(k, n)) + One(e.par = n)
         /\ \A b \in BOOLEAN :
              /\ Cardinality(Of(k, b)) \in Nat /\ Cardinality(RootOf(k, b)) \in Nat
              /\ Cardinality(Of(l, b)) = Cardinality(Of(k, b)) + One(e.dir = b)
              /\ Cardinality(RootOf(l, b)) =
                   Cardinality(RootOf(k, b)) + One(e.par = RootDir /\ e.dir = b)
<1>0. e \notin k.ent /\ IsFiniteSet(k.ent) /\ l.ent = k.ent \cup {e}
  BY DEF Grown
<1>1. ASSUME NEW n \in Nat
      PROVE  /\ Cardinality(Children(k, n)) \in Nat
             /\ Cardinality(Children(l, n)) = Cardinality(Children(k, n)) + One(e.par = n)
  <2> DEFINE A == Children(k, n)
             B == Children(l, n)
  <2>1. A \in SUBSET k.ent /\ B \in SUBSET (k.ent \cup {e})
        /\ (\A x \in k.ent : x \in A <=> x \in B) /\ (e \in B <=> e.par = n)
    BY <1>0 DEF Children
  <2> HIDE DEF A, B
  <2>2. Cardinality(A) \in Nat
        /\ Cardinality(B) = IF e \in B THEN Cardinality(A) + 1 ELSE Cardinality(A)
    BY <1>0, <2>1, CardGrow
  <2>3. Cardinality(B) = Cardinality(A) + One(e.par = n)
    BY <2>1, <2>2 DEF One
  <2> QED
    BY <2>2, <2>3 DEF A, B
<1>2. ASSUME NEW b \in BOOLEAN
      PROVE  /\ Cardinality(Of(k, b)) \in Nat
             /\ Cardinality(Of(l, b)) = Cardinality(Of(k, b)) + One(e.dir = b)
  <2> DEFINE A == Of(k, b)
             B == Of(l, b)
  <2>1. A \in SUBSET k.ent /\ B \in SUBSET (k.ent \cup {e})
        /\ (\A x \in k.ent : x \in A <=> x \in B) /\ (e \in B <=> e.dir = b)
    BY <1>0 DEF Of
  <2> HIDE DEF A, B
  <2>2. Cardinality(A) \in Nat
        /\ Cardinality(B) = IF e \in B THEN Cardinality(A) + 1 ELSE Cardinality(A)
    BY <1>0, <2>1, CardGrow
  <2>3. Cardinality(B) = Cardinality(A) + One(e.dir = b)
    BY <2>1, <2>2 DEF One
  <2> QED
    BY <2>2, <2>3 DEF A, B
<1>3. ASSUME NEW b \in BOOLEAN
      PROVE  /\ Cardinality(RootOf(k, b)) \in Nat
             /\ Cardinality(RootOf(l, b)) =
                  Cardinality(RootOf(k, b)) + One(e.par = RootDir /\ e.dir = b)
  <2> DEFINE A == RootOf(k, b)
             B == RootOf(l, b)
  <2>1. A \in SUBSET k.ent /\ B \in SUBSET (k.ent \cup {e})
        /\ (\A x \in k.ent : x \in A <=> x \in B)
        /\ (e \in B <=> e.par = RootDir /\ e.dir = b)
    BY <1>0 DEF RootOf
  <2> HIDE DEF A, B
  <2>2. Cardinality(A) \in Nat
        /\ Cardinality(B) = IF e \in B THEN Cardinality(A) + 1 ELSE Cardinality(A)
    BY <1>0, <2>1, CardGrow
  <2>3. Cardinality(B) = Cardinality(A) + One(e.par = RootDir /\ e.dir = b)
    BY <2>1, <2>2 DEF One
  <2> QED
    BY <2>2, <2>3 DEF A, B
<1> QED
  BY <1>1, <1>2, <1>3

\* A record that comes is due to the counts of its directory and of the MDB.
LEMMA EnterDebt ==
  ASSUME NEW k, NEW l, NEW e, Grown(k, l, e), NEW D, Owing(k, D), Worth(k, D, e)
  PROVE  Owing(l, Due(D, e.dir, e.par, 1))
<1> DEFINE F == Due(D, e.dir, e.par, 1)
<1>1. e.dir \in BOOLEAN /\ e.par \in Nat /\ e \in Ent /\ k.ent \subseteq Ent
      /\ l.ent = k.ent \cup {e}
  BY DEF Grown, Ent
<1>2. IsDue(F, D, e.dir, e.par, 1)
  BY <1>1, DueValues DEF Owing
<1> HIDE DEF F
<1>3. ASSUME NEW x \in l.ent PROVE Worth(l, F, x)
  <2>1. x.id \in Nat /\ Worth(k, D, x)
    BY <1>1 DEF Ent, Owing
  <2>2. Cardinality(Children(k, x.id)) \in Nat
        /\ Cardinality(Children(l, x.id)) = Cardinality(Children(k, x.id)) + One(e.par = x.id)
    BY <2>1, GrownCards
  <2>3. F.v[x.id] = D.v[x.id] + One(e.par = x.id) /\ D.v[x.id] \in Int
    BY <1>2, <2>1 DEF IsDue, One
  <2>4. One(e.par = x.id) \in Int
    BY DEF One
  <2>5. Cardinality(Children(l, x.id)) - F.v[x.id] = Cardinality(Children(k, x.id)) - D.v[x.id]
    BY <2>2, <2>3, <2>4
  <2> QED
    BY <2>1, <2>5 DEF Worth
<1>4. ASSUME NEW b \in BOOLEAN
      PROVE  /\ Total(l, b) + F.t[b] = Cardinality(Of(l, b))
             /\ RootTotal(l, b) + F.r[b] = Cardinality(RootOf(l, b))
  <2>1. Total(l, b) = Total(k, b) /\ RootTotal(l, b) = RootTotal(k, b)
        /\ Total(k, b) \in Int /\ RootTotal(k, b) \in Int
    BY DEF Total, RootTotal, Grown
  <2>2. Total(k, b) + D.t[b] = Cardinality(Of(k, b))
        /\ RootTotal(k, b) + D.r[b] = Cardinality(RootOf(k, b))
    BY DEF Owing
  <2>3. F.t[b] = D.t[b] + One(e.dir = b) /\ D.t[b] \in Int
    BY <1>2 DEF IsDue, One
  <2>4. F.r[b] = D.r[b] + One(e.par = RootDir /\ e.dir = b) /\ D.r[b] \in Int
    BY <1>2 DEF IsDue, One
  <2>5. Cardinality(Of(l, b)) = Cardinality(Of(k, b)) + One(e.dir = b)
        /\ Cardinality(RootOf(l, b)) =
             Cardinality(RootOf(k, b)) + One(e.par = RootDir /\ e.dir = b)
    BY GrownCards
  <2>6. One(e.dir = b) \in Int /\ One(e.par = RootDir /\ e.dir = b) \in Int
    BY DEF One
  <2> QED
    BY <2>1, <2>2, <2>3, <2>4, <2>5, <2>6
<1> QED
  BY <1>2, <1>3, <1>4 DEF Owing, IsDue, F

\* Arithmetic of LeaveDebt.
LEMMA PayBack ==
  ASSUME NEW p \in Int, NEW q \in Int, NEW o \in Int, NEW x \in Int, NEW f,
         p + q = x + o, f = q - o
  PROVE  p + f = x
  OBVIOUS

\* A record that goes is due to the counts with the opposite sign.
LEMMA LeaveDebt ==
  ASSUME NEW k, NEW l, NEW e, Grown(k, l, e), NEW D, Owing(l, D)
  PROVE  /\ Owing(k, Due(D, e.dir, e.par, -1))
         /\ Worth(k, Due(D, e.dir, e.par, -1), e)
<1> DEFINE m == -1
           F == Due(D, e.dir, e.par, m)
<1>1. e.dir \in BOOLEAN /\ e.par \in Nat /\ e \in Ent /\ k.ent \subseteq Ent
      /\ l.ent = k.ent \cup {e} /\ m \in Int
  BY DEF Grown, Ent
<1> HIDE DEF m
<1>2. IsDue(F, D, e.dir, e.par, m)
  BY <1>1, DueValues DEF Owing
<1> HIDE DEF F
<1>3. ASSUME NEW x \in l.ent PROVE Worth(k, F, x)
  <2>1. x.id \in Nat /\ Worth(l, D, x)
    BY <1>1 DEF Ent, Owing
  <2>2. Cardinality(Children(k, x.id)) \in Nat
        /\ Cardinality(Children(l, x.id)) = Cardinality(Children(k, x.id)) + One(e.par = x.id)
    BY <2>1, GrownCards
  <2>3. F.v[x.id] = D.v[x.id] - One(e.par = x.id) /\ D.v[x.id] \in Int
    BY <1>2, <2>1 DEF IsDue, One, m
  <2>4. One(e.par = x.id) \in Int
    BY DEF One
  <2>5. Cardinality(Children(k, x.id)) - F.v[x.id] = Cardinality(Children(l, x.id)) - D.v[x.id]
    BY <2>2, <2>3, <2>4
  <2> QED
    BY <2>1, <2>5 DEF Worth
<1>4. ASSUME NEW b \in BOOLEAN
      PROVE  /\ Total(k, b) + F.t[b] = Cardinality(Of(k, b))
             /\ RootTotal(k, b) + F.r[b] = Cardinality(RootOf(k, b))
  <2>1. Total(l, b) = Total(k, b) /\ RootTotal(l, b) = RootTotal(k, b)
        /\ Total(k, b) \in Int /\ RootTotal(k, b) \in Int
    BY DEF Total, RootTotal, Grown
  <2>2. Total(l, b) + D.t[b] = Cardinality(Of(l, b))
        /\ RootTotal(l, b) + D.r[b] = Cardinality(RootOf(l, b))
    BY DEF Owing
  <2>3. F.t[b] = D.t[b] - One(e.dir = b) /\ D.t[b] \in Int
    BY <1>2 DEF IsDue, One, m
  <2>4. F.r[b] = D.r[b] - One(e.par = RootDir /\ e.dir = b) /\ D.r[b] \in Int
    BY <1>2 DEF IsDue, One, m
  <2>5. Cardinality(Of(l, b)) = Cardinality(Of(k, b)) + One(e.dir = b)
        /\ Cardinality(Of(k, b)) \in Nat /\ Cardinality(RootOf(k, b)) \in Nat
        /\ Cardinality(RootOf(l, b)) =
             Cardinality(RootOf(k, b)) + One(e.par = RootDir /\ e.dir = b)
    BY GrownCards
  <2>6. One(e.dir = b) \in Int /\ One(e.par = RootDir /\ e.dir = b) \in Int
    BY DEF One
  <2> QED
    <3> DEFINE o == One(e.dir = b)
               u == One(e.par = RootDir /\ e.dir = b)
               x == Cardinality(Of(k, b))
               y == Cardinality(RootOf(k, b))
    <3>1. o \in Int /\ u \in Int /\ x \in Int /\ y \in Int
      BY <2>5, <2>6
    <3>2. /\ Total(k, b) + D.t[b] = x + o /\ F.t[b] = D.t[b] - o
          /\ RootTotal(k, b) + D.r[b] = y + u /\ F.r[b] = D.r[b] - u
      BY <2>1, <2>2, <2>3, <2>4, <2>5
    <3> HIDE DEF o, u, x, y
    <3>3. Total(k, b) + F.t[b] = x
      BY <2>1, <2>3, <3>1, <3>2, PayBack
    <3>4. RootTotal(k, b) + F.r[b] = y
      BY <2>1, <2>4, <3>1, <3>2, PayBack
    <3> QED
      BY <3>3, <3>4 DEF x, y
<1>5. Owing(k, F)
  BY <1>1, <1>2, <1>3, <1>4 DEF Owing, IsDue
<1> QED
  BY <1>1, <1>3, <1>5 DEF F, m

\* p is a directory that its one thread leads to.
Led(k, p) == p \in k.ent /\ p.dir /\ Threads(k, p.id) = {Thread(p)}

\* The thread of a directory leads to it alone.
LEMMA ByThreadIsIt ==
  ASSUME NEW k, Unique(k), NEW p, Led(k, p)
  PROVE  ByThread(k, p.id) = {p}
<1>1. Found(k, p.par, p.name) = {p}
  BY FoundIsIt DEF Led
<1>2. Thread(p).par = p.par /\ Thread(p).name = p.name
  BY DEF Thread
<1>3. ByThread(k, p.id) = UNION {Found(k, t.par, t.name) : t \in {Thread(p)}}
  BY DEF ByThread, Led
<1> QED
  BY <1>1, <1>2, <1>3

\* What v_adjvalence makes of k.
Adjusted(k, l, p, dir, adj) ==
  /\ l \in Volume
  /\ l.ent = (k.ent \ {p}) \cup {Bumped(p, adj)}
  /\ l.thr = k.thr /\ l.next = k.next
  /\ \A b \in BOOLEAN :
       /\ Total(l, b) = IF b = dir THEN Total(k, b) + adj ELSE Total(k, b)
       /\ RootTotal(l, b) = IF b = dir /\ p.id = RootDir THEN RootTotal(k, b) + adj
                            ELSE RootTotal(k, b)

CountedBy(k, m, dir, par, adj) ==
  /\ m \in Volume /\ m.ent = k.ent /\ m.thr = k.thr /\ m.next = k.next
  /\ \A b \in BOOLEAN :
       /\ Total(m, b) = IF b = dir THEN Total(k, b) + adj ELSE Total(k, b)
       /\ RootTotal(m, b) = IF b = dir /\ par = RootDir
                            THEN RootTotal(k, b) + adj ELSE RootTotal(k, b)

\* What counting an object does to every field of the MDB.
LEMMA CountedTotals ==
  ASSUME NEW k \in Volume, NEW dir \in BOOLEAN, NEW par \in Nat, NEW adj \in {-1, 1}
  PROVE  CountedBy(k, Counted(k, Count(dir, par, adj)), dir, par, adj)
<1> DEFINE s == Count(dir, par, adj)
           m == Counted(k, s)
<1>1. s \in Cnt /\ s.dir = dir /\ s.par = par /\ s.adj = adj
  BY DEF Count, Cnt
<1> HIDE DEF s
<1>2. m \in Volume /\ m.ent = k.ent /\ m.thr = k.thr /\ m.next = k.next
  BY <1>1, CountedTyped
<1>3. /\ m.dirs = k.dirs + Only(adj, dir)
      /\ m.files = k.files + Only(adj, ~dir)
      /\ m.rootDirs = k.rootDirs + Only(adj, dir /\ par = RootDir)
      /\ m.rootFiles = k.rootFiles + Only(adj, ~dir /\ par = RootDir)
  BY <1>1 DEF Counted, Volume
<1> HIDE DEF m
<1>4. k.dirs \in Int /\ k.files \in Int /\ k.rootDirs \in Int /\ k.rootFiles \in Int /\ adj \in Int
  BY DEF Volume
<1> SUFFICES CountedBy(k, m, dir, par, adj)
  BY DEF m, s
<1>5. CASE dir
  <2>1. /\ m.dirs = k.dirs + adj /\ m.files = k.files
        /\ m.rootDirs = (IF par = RootDir THEN k.rootDirs + adj ELSE k.rootDirs)
        /\ m.rootFiles = k.rootFiles
    BY <1>3, <1>4, <1>5 DEF Only
  <2>2. (k.dirs + adj) + 1 = (k.dirs + 1) + adj
    BY <1>4
  <2>3. ASSUME NEW b \in BOOLEAN
        PROVE  Total(m, b) = IF b = dir THEN Total(k, b) + adj ELSE Total(k, b)
    <3>1. CASE b
      BY <1>5, <2>1, <2>2, <3>1 DEF Total
    <3>2. CASE ~ b
      BY <1>5, <2>1, <3>2 DEF Total
    <3> QED
      BY <3>1, <3>2
  <2>4. ASSUME NEW b \in BOOLEAN
        PROVE  RootTotal(m, b) = IF b = dir /\ par = RootDir
                                 THEN RootTotal(k, b) + adj ELSE RootTotal(k, b)
    BY <1>5, <2>1 DEF RootTotal
  <2> QED
    BY <1>2, <2>3, <2>4 DEF CountedBy
<1>6. CASE ~ dir
  <2>1. /\ m.dirs = k.dirs /\ m.files = k.files + adj
        /\ m.rootDirs = k.rootDirs
        /\ m.rootFiles = (IF par = RootDir THEN k.rootFiles + adj ELSE k.rootFiles)
    BY <1>3, <1>4, <1>6 DEF Only
  <2> QED
    BY <1>2, <1>6, <2>1 DEF CountedBy, Total, RootTotal
<1> QED
  BY <1>5, <1>6

\* v_adjvalence succeeds if the thread leads to the directory.
LEMMA AdjustReaches ==
  ASSUME NEW k \in Volume, Unique(k), NEW p, Led(k, p), p.id # RootPar,
         NEW dir \in BOOLEAN, NEW adj \in {-1, 1}
  PROVE  \E l : Runs(k, Adjust(dir, p.id, adj), l) /\ Adjusted(k, l, p, dir, adj)
<1> DEFINE s == Count(dir, p.id, adj)
           t == Valence(p.id, adj)
           m == Counted(k, s)
           l == Valenced(m, t)
<1>1. p \in k.ent /\ p \in Ent /\ p.id \in Nat /\ p.dir
  BY DEF Led, Volume, Ent
<1>2. /\ m \in Volume /\ m.ent = k.ent /\ m.thr = k.thr /\ m.next = k.next
      /\ \A b \in BOOLEAN :
           /\ Total(m, b) = IF b = dir THEN Total(k, b) + adj ELSE Total(k, b)
           /\ RootTotal(m, b) = IF b = dir /\ p.id = RootDir
                                THEN RootTotal(k, b) + adj ELSE RootTotal(k, b)
  <2>1. CountedBy(k, m, dir, p.id, adj)
    BY <1>1, CountedTotals
  <2> QED
    BY <2>1 DEF CountedBy
<1>3. s \in Task /\ t \in Task /\ t \in Val
  <2>1. s \in Task /\ t \in Task
    BY <1>1, AdjustTask, TamePart
  <2>2. t \in Val
    BY <1>1 DEF Valence, Val
  <2> QED
    BY <2>1, <2>2
<1>4. Ready(k, s) /\ m = Apply(k, s)
  BY AppliedAdjust
<1>5. Ready(m, t) <=> \E e \in ByThread(m, p.id) : e.dir
  BY <1>2, AppliedAdjust
<1>6. l = Apply(m, t)
  BY <1>2, AppliedAdjust
<1>7. t.par = p.id /\ t.adj = adj
  BY DEF Valence
<1> HIDE DEF s, t, m
<1>8. ByThread(m, p.id) = {p}
  <2>1. Unique(m)
    BY <1>2 DEF Unique
  <2>2. Led(m, p)
    BY <1>2 DEF Led, Threads
  <2> QED
    BY <2>1, <2>2, ByThreadIsIt
<1>9. /\ l \in Volume
      /\ l.ent = (k.ent \ {p}) \cup {Bumped(p, adj)}
      /\ l = [m EXCEPT !.ent = (k.ent \ {p}) \cup {Bumped(p, adj)}]
  <2>1. {Bumped(e, adj) : e \in {p}} = {Bumped(p, adj)}
    OBVIOUS
  <2>2. /\ l \in Volume
        /\ l.ent = (m.ent \ ByThread(m, t.par)) \cup {Bumped(e, t.adj) : e \in ByThread(m, t.par)}
        /\ l = [m EXCEPT !.ent = (m.ent \ ByThread(m, t.par))
                                 \cup {Bumped(e, t.adj) : e \in ByThread(m, t.par)}]
    BY <1>2, <1>3, ValencedTyped
  <2> QED
    BY <1>2, <1>7, <1>8, <2>1, <2>2
<1>10. l.thr = k.thr /\ l.next = k.next /\ l.dirs = m.dirs /\ l.files = m.files
       /\ l.rootDirs = m.rootDirs /\ l.rootFiles = m.rootFiles
  BY <1>2, <1>9 DEF Volume
<1> HIDE DEF l
<1>11. Adjusted(k, l, p, dir, adj)
  <2>1. \A b \in BOOLEAN : Total(l, b) = Total(m, b) /\ RootTotal(l, b) = RootTotal(m, b)
    BY <1>10 DEF Total, RootTotal
  <2> QED
    BY <1>2, <1>9, <1>10, <2>1 DEF Adjusted
<1>12. Runs(k, <<s>> \o <<t>>, l)
  <2>1. Runs(k, <<s>>, m)
    BY <1>2, <1>4, RunsOne
  <2>2. Runs(m, <<t>>, l)
    BY <1>1, <1>2, <1>5, <1>6, <1>8, <1>9, RunsOne
  <2>3. <<s>> \in Seq(Task) /\ <<t>> \in Seq(Task)
    BY <1>3
  <2> QED
    BY <2>1, <2>2, <2>3, RunsCat
<1>13. Adjust(dir, p.id, adj) = <<s>> \o <<t>>
  BY DEF Adjust, s, t
<1> QED
  BY <1>11, <1>12, <1>13

\* The same records but for valences.
LEMMA AdjustedSame ==
  ASSUME NEW k \in Volume, Unique(k), NEW p, Led(k, p), NEW dir \in BOOLEAN,
         NEW adj \in {-1, 1}, NEW l, Adjusted(k, l, p, dir, adj)
  PROVE  SameRecords(k, l)
<1> DEFINE f == [e \in k.ent |-> IF e = p THEN Bumped(p, adj) ELSE e]
<1>1. l \in Volume /\ l.ent = (k.ent \ {p}) \cup {Bumped(p, adj)} /\ l.next = k.next
  BY DEF Adjusted
<1>2. p \in k.ent /\ p \in Ent /\ adj \in Int
  BY DEF Led, Volume
<1>3. Thread(Bumped(p, adj)) = Thread(p)
  BY <1>2, BumpedTyped DEF Thread
<1>4. f \in [k.ent -> l.ent]
  BY <1>1
<1>5. \A e \in k.ent : f[e] = IF e = p THEN Bumped(p, adj) ELSE e
  OBVIOUS
<1> HIDE DEF f
<1>6. \A e \in k.ent : Thread(f[e]) = Thread(e)
  BY <1>3, <1>5
<1>7. \A x \in l.ent : \E e \in k.ent : x = f[e]
  BY <1>1, <1>2, <1>5
<1> QED
  BY <1>1, <1>4, <1>6, <1>7 DEF SameRecords

\* v_adjvalence pays a debt.
LEMMA AdjustDebt ==
  ASSUME NEW k \in Volume, IsFiniteSet(k.ent), Unique(k), NEW p, Led(k, p),
         NEW dir \in BOOLEAN, NEW adj \in {-1, 1}, NEW l, Adjusted(k, l, p, dir, adj),
         NEW D, Owing(k, D)
  PROVE  IsFiniteSet(l.ent) /\ Owing(l, Due(D, dir, p.id, -adj))
<1> DEFINE q == Bumped(p, adj)
           m == -adj
           F == Due(D, dir, p.id, m)
<1>1. p \in k.ent /\ p \in Ent /\ adj \in Int /\ m \in Int /\ p.id \in Nat /\ p.dir
  BY DEF Led, Volume, Ent
<1>2. /\ q \in Ent /\ q.id = p.id /\ q.par = p.par /\ q.dir = p.dir
  BY <1>1, BumpedTyped
<1>3. l.ent = (k.ent \ {p}) \cup {q} /\ k.ent \subseteq Ent
  BY DEF Adjusted, Volume
<1>4. q \notin k.ent \ {p}
  BY <1>1, <1>2 DEF Unique
<1> HIDE DEF m
<1>5. IsDue(F, D, dir, p.id, m)
  BY <1>1, DueValues DEF Owing
<1> HIDE DEF F, q
<1>6. IsFiniteSet(l.ent)
  <2>1. IsFiniteSet(k.ent \ {p})
    BY FS_RemoveElement
  <2> QED
    BY <1>3, <2>1, FS_AddElement
<1>7. ASSUME NEW n \in Nat
      PROVE  /\ Cardinality(Children(k, n)) \in Nat
             /\ Cardinality(Children(l, n)) = Cardinality(Children(k, n))
  <2> DEFINE A == Children(k, n)
             B == Children(l, n)
  <2>1. A \in SUBSET k.ent /\ B \in SUBSET ((k.ent \ {p}) \cup {q})
        /\ (\A x \in k.ent \ {p} : x \in A <=> x \in B) /\ (p \in A <=> q \in B)
    BY <1>1, <1>2, <1>3 DEF Children
  <2> HIDE DEF A, B
  <2>2. Cardinality(A) \in Nat /\ Cardinality(B) = Cardinality(A)
    BY <1>1, <1>4, <2>1, CardSwap
  <2> QED
    BY <2>2 DEF A, B
<1>8. ASSUME NEW b \in BOOLEAN
      PROVE  /\ Cardinality(Of(k, b)) \in Nat
             /\ Cardinality(Of(l, b)) = Cardinality(Of(k, b))
  <2> DEFINE A == Of(k, b)
             B == Of(l, b)
  <2>1. A \in SUBSET k.ent /\ B \in SUBSET ((k.ent \ {p}) \cup {q})
        /\ (\A x \in k.ent \ {p} : x \in A <=> x \in B) /\ (p \in A <=> q \in B)
    BY <1>1, <1>2, <1>3 DEF Of
  <2> HIDE DEF A, B
  <2>2. Cardinality(A) \in Nat /\ Cardinality(B) = Cardinality(A)
    BY <1>1, <1>4, <2>1, CardSwap
  <2> QED
    BY <2>2 DEF A, B
<1>9. ASSUME NEW b \in BOOLEAN
      PROVE  /\ Cardinality(RootOf(k, b)) \in Nat
             /\ Cardinality(RootOf(l, b)) = Cardinality(RootOf(k, b))
  <2> DEFINE A == RootOf(k, b)
             B == RootOf(l, b)
  <2>1. A \in SUBSET k.ent /\ B \in SUBSET ((k.ent \ {p}) \cup {q})
        /\ (\A x \in k.ent \ {p} : x \in A <=> x \in B) /\ (p \in A <=> q \in B)
    BY <1>1, <1>2, <1>3 DEF RootOf
  <2> HIDE DEF A, B
  <2>2. Cardinality(A) \in Nat /\ Cardinality(B) = Cardinality(A)
    BY <1>1, <1>4, <2>1, CardSwap
  <2> QED
    BY <2>2 DEF A, B
<1>10. Worth(l, F, q)
  <2> DEFINE x == Cardinality(Children(k, p.id)) - D.v[p.id]
             y == Cardinality(Children(l, p.id)) - F.v[p.id]
  <2>1. p.val = x % ValenceMod
    BY <1>1 DEF Owing, Worth
  <2>2. D.v[p.id] \in Int /\ F.v[p.id] = D.v[p.id] + m
    BY <1>1, <1>5 DEF IsDue
  <2>3. Cardinality(Children(k, p.id)) \in Int
        /\ Cardinality(Children(l, p.id)) = Cardinality(Children(k, p.id))
    BY <1>1, <1>7
  <2>4. x \in Int /\ y \in Int /\ y = x + adj
    BY <1>1, <2>2, <2>3 DEF m
  <2> HIDE DEF x, y
  <2>5. q.val = y % ValenceMod
    <3>1. q.val = (p.val + adj) % ValenceMod
      BY <1>1, BumpedTyped DEF q
    <3>2. (p.val + adj) % ValenceMod = ((x % ValenceMod) + adj) % ValenceMod
      BY <2>1
    <3>3. ((x % ValenceMod) + adj) % ValenceMod = (x + adj) % ValenceMod
      BY <1>1, <2>4, ModShift
    <3>4. (x + adj) % ValenceMod = y % ValenceMod
      BY <2>4
    <3> QED
      BY <3>1, <3>2, <3>3, <3>4
  <2> QED
    BY <1>2, <2>5 DEF Worth, y
<1>11. ASSUME NEW x \in l.ent PROVE Worth(l, F, x)
  <2>1. CASE x = q
    BY <1>10, <2>1
  <2>2. CASE x # q
    <3>1. x \in k.ent /\ x # p /\ x.id \in Nat
      BY <1>3, <2>2 DEF Ent
    <3>2. x.id # p.id
      BY <1>1, <3>1 DEF Unique
    <3>3. F.v[x.id] = D.v[x.id]
      BY <1>5, <3>1, <3>2 DEF IsDue
    <3>4. Cardinality(Children(l, x.id)) = Cardinality(Children(k, x.id))
      BY <1>7, <3>1
    <3> QED
      BY <3>1, <3>3, <3>4 DEF Owing, Worth
  <2> QED
    BY <2>1, <2>2
<1>12. ASSUME NEW b \in BOOLEAN
       PROVE  /\ Total(l, b) + F.t[b] = Cardinality(Of(l, b))
              /\ RootTotal(l, b) + F.r[b] = Cardinality(RootOf(l, b))
  <2>1. Total(k, b) \in Int /\ RootTotal(k, b) \in Int
    BY DEF Total, RootTotal, Volume
  <2>2. Total(k, b) + D.t[b] = Cardinality(Of(k, b))
        /\ RootTotal(k, b) + D.r[b] = Cardinality(RootOf(k, b))
    BY DEF Owing
  <2>3. D.t[b] \in Int /\ D.r[b] \in Int
        /\ F.t[b] = (IF b = dir THEN D.t[b] + m ELSE D.t[b])
        /\ F.r[b] = (IF b = dir /\ p.id = RootDir THEN D.r[b] + m ELSE D.r[b])
    BY <1>5 DEF IsDue
  <2>4. /\ Total(l, b) = IF b = dir THEN Total(k, b) + adj ELSE Total(k, b)
        /\ RootTotal(l, b) = IF b = dir /\ p.id = RootDir THEN RootTotal(k, b) + adj
                             ELSE RootTotal(k, b)
    BY DEF Adjusted
  <2>5. Total(l, b) + F.t[b] = Total(k, b) + D.t[b]
    BY <1>1, <2>1, <2>3, <2>4 DEF m
  <2>6. RootTotal(l, b) + F.r[b] = RootTotal(k, b) + D.r[b]
    BY <1>1, <2>1, <2>3, <2>4 DEF m
  <2> QED
    BY <1>8, <1>9, <2>2, <2>5, <2>6
<1>13. Owing(l, F)
  BY <1>5, <1>11, <1>12 DEF Owing, IsDue
<1> QED
  BY <1>6, <1>13 DEF F, m

\* A catalog whose records are sound and whose counts are right but for D.
Base(k, D) == k \in Volume /\ IsFiniteSet(k.ent) /\ Unique(k) /\ Owing(k, D)

\* A directory that is gone has a number that no object will have, unless it
\* is a directory that is there.
CwdFits(k, w) == w < k.next /\ \A e \in k.ent : e.id = w => e.dir

\* A sound catalog is one that owes nothing.
LEMMA IntactBase ==
  ASSUME NEW k
  PROVE  Intact(k) <=> Base(k, NoDebt) /\ ThreadsAgree(k) /\ Rooted(k)
  BY CountsDebt DEF Intact, Base

\* The same objects and threads: directories, agreement and root stay.
LEMMA SameGood ==
  ASSUME NEW k \in Volume, NEW l, SameRecords(k, l), l.thr = k.thr
  PROVE  /\ DirIds(l) = DirIds(k)
         /\ ThreadsAgree(k) => ThreadsAgree(l)
         /\ Rooted(k) => Rooted(l)
         /\ \A w \in Nat : CwdFits(k, w) => CwdFits(l, w)
<1>1. PICK f \in [k.ent -> l.ent] :
        /\ \A e \in k.ent : Thread(f[e]) = Thread(e)
        /\ \A x \in l.ent : \E e \in k.ent : x = f[e]
  BY DEF SameRecords
<1>2. \A e \in k.ent : /\ f[e] \in l.ent /\ Thread(f[e]) = Thread(e)
                       /\ f[e].id = e.id /\ f[e].par = e.par /\ f[e].dir = e.dir
  BY <1>1 DEF Thread
<1>3. l.next = k.next
  BY DEF SameRecords
<1>4. DirIds(l) = DirIds(k)
  <2>1. ASSUME NEW x \in l.ent, x.dir PROVE x.id \in DirIds(k)
    BY <1>1, <1>2, <2>1 DEF DirIds
  <2>2. ASSUME NEW e \in k.ent, e.dir PROVE e.id \in DirIds(l)
    BY <1>2, <2>2 DEF DirIds
  <2> QED
    BY <2>1, <2>2 DEF DirIds
<1>5. {Thread(e) : e \in {x \in l.ent : x.dir}} = {Thread(e) : e \in {x \in k.ent : x.dir}}
  <2>1. ASSUME NEW x \in l.ent, x.dir
        PROVE  \E e \in k.ent : e.dir /\ Thread(x) = Thread(e)
    BY <1>1, <1>2, <2>1
  <2>2. ASSUME NEW e \in k.ent, e.dir
        PROVE  \E x \in l.ent : x.dir /\ Thread(e) = Thread(x)
    BY <1>2, <2>2
  <2> QED
    BY <2>1, <2>2
<1>6. {Thread(e) : e \in l.ent} = {Thread(e) : e \in k.ent}
  <2>1. ASSUME NEW x \in l.ent PROVE \E e \in k.ent : Thread(x) = Thread(e)
    BY <1>1, <1>2
  <2>2. ASSUME NEW e \in k.ent PROVE \E x \in l.ent : Thread(e) = Thread(x)
    BY <1>2
  <2> QED
    BY <2>1, <2>2
<1>7. ThreadsAgree(k) => ThreadsAgree(l)
  BY <1>5, <1>6 DEF ThreadsAgree
<1>8. Rooted(k) => Rooted(l)
  BY <1>1, <1>2, <1>4 DEF Rooted
<1>9. \A w \in Nat : CwdFits(k, w) => CwdFits(l, w)
  BY <1>1, <1>2, <1>3 DEF CwdFits
<1> QED
  BY <1>4, <1>7, <1>8, <1>9

\* In a catalog whose threads agree every directory is where its thread says.
LEMMA LedIfAgree ==
  ASSUME NEW k, Unique(k), ThreadsAgree(k), NEW n \in DirIds(k)
  PROVE  \E p : Led(k, p) /\ p.id = n
<1>1. PICK p \in k.ent : p.dir /\ p.id = n
  BY DEF DirIds
<1>2. Thread(p) \in k.thr
  BY <1>1 DEF ThreadsAgree
<1>3. ASSUME NEW t \in k.thr, t.id = n PROVE t = Thread(p)
  <2>1. PICK e \in k.ent : t = Thread(e)
    BY DEF ThreadsAgree
  <2>2. e.id = p.id
    BY <1>1, <1>3, <2>1 DEF Thread
  <2>3. e = p
    BY <1>1, <2>2 DEF Unique
  <2> QED
    BY <2>1, <2>3
<1>4. Thread(p).id = n
  BY <1>1 DEF Thread
<1>5. Threads(k, n) = {Thread(p)}
  BY <1>2, <1>3, <1>4 DEF Threads
<1> QED
  BY <1>1, <1>5 DEF Led

\* A directory that its thread leads to is still led to.
LEMMA LedKept ==
  ASSUME NEW k, NEW l, SameRecords(k, l), l.thr = k.thr, NEW p, Led(k, p)
  PROVE  \E q : Led(l, q) /\ q.id = p.id
<1>1. PICK f \in [k.ent -> l.ent] : \A e \in k.ent : Thread(f[e]) = Thread(e)
  BY DEF SameRecords
<1>2. p \in k.ent /\ p.dir /\ Threads(k, p.id) = {Thread(p)}
  BY DEF Led
<1>3. f[p] \in l.ent /\ Thread(f[p]) = Thread(p)
  BY <1>1, <1>2
<1>4. f[p].id = p.id /\ f[p].dir
  BY <1>2, <1>3 DEF Thread
<1>5. Threads(l, p.id) = Threads(k, p.id)
  BY DEF Threads
<1> QED
  BY <1>2, <1>3, <1>4, <1>5 DEF Led

\* v_adjvalence pays what is due.
LEMMA AdjustBase ==
  ASSUME NEW k, NEW D, Base(k, D), NEW p, Led(k, p), p.id # RootPar,
         NEW dir \in BOOLEAN, NEW adj \in {-1, 1}
  PROVE  \E l : /\ Runs(k, Adjust(dir, p.id, adj), l)
                /\ Base(l, Due(D, dir, p.id, -adj))
                /\ SameRecords(k, l) /\ l.thr = k.thr
<1>1. k \in Volume /\ IsFiniteSet(k.ent) /\ Unique(k) /\ Owing(k, D) /\ k.ent \subseteq Ent
  BY DEF Base, Volume
<1>2. PICK l : Runs(k, Adjust(dir, p.id, adj), l) /\ Adjusted(k, l, p, dir, adj)
  BY <1>1, AdjustReaches
<1>3. SameRecords(k, l)
  BY <1>1, <1>2, AdjustedSame
<1>4. Unique(l)
  BY <1>1, <1>3, SameUnique
<1>5. IsFiniteSet(l.ent) /\ Owing(l, Due(D, dir, p.id, -adj))
  BY <1>1, <1>2, AdjustDebt
<1>6. l \in Volume /\ l.thr = k.thr
  BY <1>2 DEF Adjusted
<1> QED
  BY <1>2, <1>3, <1>4, <1>5, <1>6 DEF Base

\* The same catalog with other threads.
LEMMA ThreadsBase ==
  ASSUME NEW k, NEW D, Base(k, D), NEW ts \in SUBSET Thr
  PROVE  LET l == [k EXCEPT !.thr = ts]
         IN  /\ Base(l, D) /\ l.thr = ts /\ l.ent = k.ent /\ l.next = k.next
             /\ SameRecords(k, l) /\ (Rooted(k) => Rooted(l))
<1> DEFINE l == [k EXCEPT !.thr = ts]
<1>1. l \in Volume
  BY VolumeParts DEF Base
<1>2. /\ l.thr = ts /\ l.ent = k.ent /\ l.next = k.next /\ l.dirs = k.dirs
      /\ l.files = k.files /\ l.rootDirs = k.rootDirs /\ l.rootFiles = k.rootFiles
  BY DEF Base, Volume
<1> HIDE DEF l
<1>3. SameRecords(k, l)
  BY <1>1, <1>2, SameRecordsIfSame DEF Base
<1>4. Unique(l)
  BY <1>2 DEF Base, Unique
<1>5. Owing(l, D)
  BY <1>2 DEF Base, Owing, Worth, Children, Of, RootOf, Total, RootTotal
<1>6. IsFiniteSet(l.ent)
  BY <1>2 DEF Base
<1>7. Rooted(k) => Rooted(l)
  BY <1>2 DEF Rooted, DirIds
<1> QED
  BY <1>1, <1>2, <1>3, <1>4, <1>5, <1>6, <1>7 DEF Base, l

\* A record goes.
LEMMA RemoveBase ==
  ASSUME NEW k, NEW D, Base(k, D), NEW e \in k.ent
  PROVE  \E l : /\ Runs(k, <<DropEnt(e)>>, l)
                /\ Base(l, Due(D, e.dir, e.par, -1)) /\ Worth(l, Due(D, e.dir, e.par, -1), e)
                /\ l.ent = k.ent \ {e} /\ l.thr = k.thr /\ l.next = k.next
                /\ \A f \in Ent : f.id = e.id => Fresh(l, f)
<1> DEFINE l == [k EXCEPT !.ent = @ \ {e}]
<1>1. k \in Volume /\ Unique(k) /\ IsFiniteSet(k.ent) /\ Owing(k, D) /\ e \in Ent
      /\ k.ent \subseteq Ent
  BY DEF Base, Volume
<1>2. l \in Volume /\ Unique(l) /\ \A f \in Ent : f.id = e.id => Fresh(l, f)
  BY <1>1, RemovedUnique
<1>3. /\ l.ent = k.ent \ {e} /\ l.thr = k.thr /\ l.next = k.next /\ l.dirs = k.dirs
      /\ l.files = k.files /\ l.rootDirs = k.rootDirs /\ l.rootFiles = k.rootFiles
  BY <1>1 DEF Volume
<1>4. l = Apply(k, DropEnt(e)) /\ Ready(k, DropEnt(e))
  <2>1. Found(k, e.par, e.name) = {e}
    BY <1>1, FoundIsIt
  <2>2. /\ Apply(k, DropEnt(e)) = [k EXCEPT !.ent = @ \ Found(k, e.par, e.name)]
        /\ Ready(k, DropEnt(e)) <=> Found(k, e.par, e.name) # {}
    BY <1>1, AppliedEnt
  <2> QED
    BY <2>1, <2>2
<1> HIDE DEF l
<1>5. Runs(k, <<DropEnt(e)>>, l)
  BY <1>1, <1>2, <1>4, RunsOne
<1>6. IsFiniteSet(l.ent)
  BY <1>1, <1>3, FS_RemoveElement
<1>7. Grown(l, k, e)
  BY <1>1, <1>2, <1>3, <1>6 DEF Grown, Volume
<1>8. Owing(l, Due(D, e.dir, e.par, -1)) /\ Worth(l, Due(D, e.dir, e.par, -1), e)
  BY <1>1, <1>7, LeaveDebt
<1> QED
  BY <1>2, <1>3, <1>5, <1>6, <1>8 DEF Base

\* A record comes.
LEMMA InsertBase ==
  ASSUME NEW k, NEW D, Base(k, D), NEW e \in Ent, Fresh(k, e), Worth(k, D, e),
         Found(k, e.par, e.name) = {}
  PROVE  \E l : /\ Runs(k, <<AddEnt(e)>>, l)
                /\ Base(l, Due(D, e.dir, e.par, 1))
                /\ l.ent = k.ent \cup {e} /\ l.thr = k.thr /\ l.next = k.next
<1> DEFINE l == [k EXCEPT !.ent = @ \cup {e}]
<1>1. k \in Volume /\ Unique(k) /\ IsFiniteSet(k.ent) /\ Owing(k, D) /\ k.ent \subseteq Ent
  BY DEF Base, Volume
<1>2. l \in Volume /\ Unique(l)
  BY <1>1, AddedUnique
<1>3. /\ l.ent = k.ent \cup {e} /\ l.thr = k.thr /\ l.next = k.next /\ l.dirs = k.dirs
      /\ l.files = k.files /\ l.rootDirs = k.rootDirs /\ l.rootFiles = k.rootFiles
  BY <1>1 DEF Volume
<1>4. l = Apply(k, AddEnt(e)) /\ Ready(k, AddEnt(e))
  BY <1>1, AppliedEnt
<1> HIDE DEF l
<1>5. Runs(k, <<AddEnt(e)>>, l)
  BY <1>1, <1>2, <1>4, RunsOne
<1>6. IsFiniteSet(l.ent)
  BY <1>1, <1>3, FS_AddElement
<1>7. e \notin k.ent
  BY DEF Fresh
<1>8. Grown(k, l, e)
  BY <1>1, <1>2, <1>3, <1>7 DEF Grown, Volume
<1>9. Owing(l, Due(D, e.dir, e.par, 1))
  BY <1>1, <1>8, EnterDebt
<1> QED
  BY <1>2, <1>3, <1>5, <1>6, <1>9 DEF Base

-----------------------------------------------------------------------------
(* Parts of the calls. *)

\* The steps lead from k to a sound catalog.
Success(k, steps, w) ==
  \E d : Runs(k, steps, d) /\ Intact(d) /\ CwdFits(d, w)

\* Two one-element sequences make a pair.
LEMMA Pair ==
  ASSUME NEW S, NEW x \in S, NEW y \in S
  PROVE  <<x>> \o <<y>> = <<x, y>>
<1> DEFINE a == <<x>> \o <<y>>
           b == <<x, y>>
<1>1. /\ a \in Seq(S) /\ Len(a) = 2 /\ a[1] = x /\ a[2] = y
      /\ b \in Seq(S) /\ Len(b) = 2 /\ b[1] = x /\ b[2] = y
  OBVIOUS
<1>2. \A i \in 1..Len(a) : i = 1 \/ i = 2
  BY <1>1
<1> HIDE DEF a, b
<1>3. \A i \in 1..Len(a) : a[i] = b[i]
  BY <1>1, <1>2
<1> QED
  BY <1>1, <1>3, SeqEqual DEF a, b

\* A pair and one element make three.
LEMMA Triple ==
  ASSUME NEW S, NEW x \in S, NEW y \in S, NEW z \in S
  PROVE  <<x, y>> \o <<z>> = <<x, y, z>>
<1> DEFINE a == <<x, y>> \o <<z>>
           b == <<x, y, z>>
<1>1. /\ a \in Seq(S) /\ Len(a) = 3 /\ a[1] = x /\ a[2] = y /\ a[3] = z
      /\ b \in Seq(S) /\ Len(b) = 3 /\ b[1] = x /\ b[2] = y /\ b[3] = z
  OBVIOUS
<1>2. \A i \in 1..Len(a) : i = 1 \/ i = 2 \/ i = 3
  BY <1>1
<1> HIDE DEF a, b
<1>3. \A i \in 1..Len(a) : a[i] = b[i]
  BY <1>1, <1>2
<1> QED
  BY <1>1, <1>3, SeqEqual DEF a, b

\* Two steps, one after the other.
LEMMA PairRuns ==
  ASSUME NEW x \in Task, NEW y \in Task, NEW k, NEW m, NEW d,
         Runs(k, <<x>>, m), Runs(m, <<y>>, d)
  PROVE  Runs(k, <<x, y>>, d)
<1>1. <<x>> \in Seq(Task) /\ <<y>> \in Seq(Task)
  OBVIOUS
<1>2. <<x>> \o <<y>> = <<x, y>>
  BY Pair
<1> QED
  BY <1>1, <1>2, RunsCat

\* TakeId and the insertion of a record with the number taken
LEMMA EnterRuns ==
  ASSUME NEW k, Intact(k), NEW e \in Ent, e.id = k.next, e.val = 0, e.par \in DirIds(k),
         Found(k, e.par, e.name) = {}, NEW w \in Nat, CwdFits(k, w)
  PROVE  \E l : /\ Runs(k, <<TakeId, AddEnt(e)>>, l)
                /\ Base(l, Due(NoDebt, e.dir, e.par, 1)) /\ Rooted(l) /\ CwdFits(l, w)
                /\ l.ent = k.ent \cup {e} /\ l.thr = k.thr
<1> DEFINE m == [k EXCEPT !.next = @ + 1]
<1>1. k \in Volume /\ Unique(k) /\ IsFiniteSet(k.ent) /\ Owing(k, NoDebt) /\ Rooted(k)
      /\ ThreadsAgree(k)
  BY IntactBase DEF Base
<1>2. m \in Volume /\ Unique(m) /\ Fresh(m, e)
  BY <1>1, IdTaken
<1>3. /\ m.ent = k.ent /\ m.thr = k.thr /\ m.next = k.next + 1 /\ m.dirs = k.dirs
      /\ m.files = k.files /\ m.rootDirs = k.rootDirs /\ m.rootFiles = k.rootFiles
  BY <1>1 DEF Volume
<1>4. Runs(k, <<TakeId>>, m)
  BY <1>1, <1>2, AppliedId, RunsOne
<1> HIDE DEF m
<1>5. Owing(m, NoDebt)
  BY <1>1, <1>3 DEF Owing, Worth, Children, Of, RootOf, Total, RootTotal
<1>6. Base(m, NoDebt)
  BY <1>1, <1>2, <1>3, <1>5 DEF Base
<1>7. \A x \in k.ent : x.id < k.next /\ x.id \in Nat /\ x.par < k.next
  <2>1. \A x \in k.ent : x.id < k.next /\ x.id \in Nat
    BY <1>1 DEF Unique, Volume, Ent
  <2>2. RootDir < k.next /\ k.next \in Nat
    BY <1>1, <2>1 DEF Rooted, DirIds, Volume
  <2>3. \A n \in DirIds(k) : n < k.next
    BY <2>1 DEF DirIds
  <2> QED
    BY <1>1, <2>1, <2>2, <2>3 DEF Rooted, RootPar, RootDir
<1>8. Worth(m, NoDebt, e)
  <2>1. Children(m, e.id) = {}
    BY <1>3, <1>7 DEF Children, Volume, Ent
  <2>2. Cardinality(Children(m, e.id)) = 0
    BY <2>1, FS_EmptySet
  <2>3. NoDebt.v[e.id] = 0
    BY DEF NoDebt, Ent
  <2>4. (0 - 0) % ValenceMod = 0
    BY DEF ValenceMod
  <2> QED
    BY <2>2, <2>3, <2>4 DEF Worth
<1>9. Found(m, e.par, e.name) = {}
  BY <1>3 DEF Found
<1>10. PICK l : /\ Runs(m, <<AddEnt(e)>>, l)
                /\ Base(l, Due(NoDebt, e.dir, e.par, 1))
                /\ l.ent = m.ent \cup {e} /\ l.thr = m.thr /\ l.next = m.next
  BY <1>2, <1>6, <1>8, <1>9, InsertBase
<1>11. Runs(k, <<TakeId, AddEnt(e)>>, l)
  BY <1>4, <1>10, TakeIdTask, EntTask, PairRuns
<1>12. DirIds(k) \subseteq DirIds(l)
  BY <1>3, <1>10 DEF DirIds
<1>13. e.id > RootDir
  BY <1>1, <1>7 DEF Rooted, DirIds, RootDir, Volume
<1>14. Rooted(l)
  <2>1. RootDir \in DirIds(l)
    BY <1>1, <1>12 DEF Rooted
  <2>2. ASSUME NEW x \in k.ent
        PROVE  /\ x.id >= RootDir
               /\ IF x.id = RootDir THEN x.par = RootPar ELSE x.par \in DirIds(l)
    BY <1>1, <1>12 DEF Rooted
  <2>3. /\ e.id >= RootDir
        /\ IF e.id = RootDir THEN e.par = RootPar ELSE e.par \in DirIds(l)
    BY <1>12, <1>13 DEF Ent, RootDir
  <2> QED
    BY <1>3, <1>10, <2>1, <2>2, <2>3 DEF Rooted
<1>15. CwdFits(l, w)
  BY <1>1, <1>3, <1>10 DEF CwdFits, Volume
<1> QED
  BY <1>3, <1>10, <1>11, <1>14, <1>15

\* One v_adjvalence at the end pays what is left.
LEMMA AdjustEnds ==
  ASSUME NEW k, NEW dir \in BOOLEAN, NEW n \in Nat, NEW a \in {-1, 1},
         Base(k, Due(NoDebt, dir, n, a)), NEW p, Led(k, p), p.id = n, n # RootPar
  PROVE  \E d : /\ Runs(k, Adjust(dir, n, a), d) /\ Base(d, NoDebt)
                /\ SameRecords(k, d) /\ d.thr = k.thr
<1>1. PICK d : /\ Runs(k, Adjust(dir, n, a), d)
               /\ Base(d, Due(Due(NoDebt, dir, n, a), dir, n, -a))
               /\ SameRecords(k, d) /\ d.thr = k.thr
  BY AdjustBase
<1>2. Due(Due(NoDebt, dir, n, a), dir, n, -a) = NoDebt
  <2>1. NoDebt \in Debt /\ a \in Int
    BY DebtTyped
  <2> QED
    BY <2>1, DuePaid
<1> QED
  BY <1>1, <1>2

-----------------------------------------------------------------------------
(* The calls in a sound catalog. *)

\* A record as hfs_create and hfs_mkdir make it.
IsNew(e, id, par, name, dir) ==
  e \in Ent /\ e.id = id /\ e.val = 0 /\ e.par = par /\ e.name = name /\ (e.dir <=> dir)

\* Records as hfs_create and hfs_mkdir make them.
LEMMA NewEnt ==
  ASSUME NEW id \in Nat, NEW par \in Nat, NEW name \in Name
  PROVE  /\ IsNew(File(id, par, name), id, par, name, FALSE)
         /\ IsNew(Dir(id, par, name), id, par, name, TRUE)
  BY DEF File, Dir, Ent, ValenceMod, IsNew

\* hfs_create in a sound catalog leads to a sound one.
LEMMA CreateSucceeds ==
  ASSUME NEW k, Intact(k), NEW par \in DirIds(k), NEW name \in Name,
         Found(k, par, name) = {}, NEW w \in Nat, CwdFits(k, w)
  PROVE  Success(k, <<TakeId, AddEnt(File(k.next, par, name))>> \o Adjust(FALSE, par, 1), w)
<1> DEFINE e == File(k.next, par, name)
<1>1. k \in Volume /\ Unique(k) /\ ThreadsAgree(k) /\ Rooted(k)
  BY DEF Intact
<1>2. par \in Nat /\ par # RootPar
  BY <1>1 DEF DirIds, Rooted, Volume, Ent, RootPar, RootDir
<1>3. e \in Ent /\ e.id = k.next /\ e.val = 0 /\ e.par = par /\ e.name = name /\ e.dir = FALSE
  <2>1. k.next \in Nat
    BY <1>1 DEF Volume
  <2> DEFINE n == k.next
  <2> HIDE DEF n
  <2>2. n \in Nat
    BY <2>1 DEF n
  <2>3. e = File(n, par, name)
    BY DEF e, n
  <2>4. IsNew(File(n, par, name), n, par, name, FALSE)
    BY <1>2, <2>2, NewEnt
  <2> HIDE DEF e
  <2>5. IsNew(e, n, par, name, FALSE)
    BY <2>3, <2>4
  <2> QED
    BY <2>5 DEF n, IsNew
<1> HIDE DEF e
<1>4. PICK l : /\ Runs(k, <<TakeId, AddEnt(e)>>, l)
               /\ Base(l, Due(NoDebt, FALSE, par, 1)) /\ Rooted(l) /\ CwdFits(l, w)
               /\ l.ent = k.ent \cup {e} /\ l.thr = k.thr
  <2>1. e.par \in DirIds(k) /\ Found(k, e.par, e.name) = {}
    BY <1>3
  <2>2. \E l : /\ Runs(k, <<TakeId, AddEnt(e)>>, l)
               /\ Base(l, Due(NoDebt, e.dir, e.par, 1)) /\ Rooted(l) /\ CwdFits(l, w)
               /\ l.ent = k.ent \cup {e} /\ l.thr = k.thr
    BY <1>3, <2>1, EnterRuns
  <2>3. Due(NoDebt, e.dir, e.par, 1) = Due(NoDebt, FALSE, par, 1)
    BY <1>3
  <2> QED
    BY <2>2, <2>3
<1>5. ThreadsAgree(l)
  <2>1. {x \in l.ent : x.dir} = {x \in k.ent : x.dir}
    BY <1>3, <1>4
  <2> QED
    BY <1>1, <1>4, <2>1 DEF ThreadsAgree
<1>6. par \in DirIds(l)
  BY <1>4 DEF DirIds
<1>7. PICK p : Led(l, p) /\ p.id = par
  BY <1>4, <1>5, <1>6, LedIfAgree DEF Base
<1>8. PICK d : /\ Runs(l, Adjust(FALSE, par, 1), d) /\ Base(d, NoDebt)
               /\ SameRecords(l, d) /\ d.thr = l.thr
  BY <1>2, <1>4, <1>7, AdjustEnds
<1>9. Intact(d) /\ CwdFits(d, w)
  BY <1>4, <1>5, <1>8, SameGood, IntactBase DEF Base
<1>10. Adjust(FALSE, par, 1) \in Seq(Task)
  BY <1>2, AdjustTask, TamePart
<1>11. <<TakeId, AddEnt(e)>> \in Seq(Task)
  BY <1>3, TakeIdTask, EntTask
<1>12. Runs(k, <<TakeId, AddEnt(e)>> \o Adjust(FALSE, par, 1), d)
  BY <1>4, <1>8, <1>10, <1>11, RunsCat
<1> QED
  BY <1>9, <1>12 DEF Success, e

\* hfs_mkdir in a sound catalog leads to a sound one.
LEMMA MkdirSucceeds ==
  ASSUME NEW k, Intact(k), NEW par \in DirIds(k), NEW name \in Name,
         Found(k, par, name) = {}, NEW w \in Nat, CwdFits(k, w),
         NEW e, e = Dir(k.next, par, name)
  PROVE  Success(k, <<TakeId, AddEnt(e), AddThread(Thread(e))>> \o Adjust(TRUE, par, 1), w)
<1>1. k \in Volume /\ Unique(k) /\ ThreadsAgree(k) /\ Rooted(k)
  BY DEF Intact
<1>2. par \in Nat /\ par # RootPar
  BY <1>1 DEF DirIds, Rooted, Volume, Ent, RootPar, RootDir
<1>3. e \in Ent /\ e.id = k.next /\ e.val = 0 /\ e.par = par /\ e.name = name /\ e.dir = TRUE
  <2>1. k.next \in Nat
    BY <1>1 DEF Volume
  <2> DEFINE n == k.next
  <2> HIDE DEF n
  <2>2. n \in Nat
    BY <2>1 DEF n
  <2>3. e = Dir(n, par, name)
    BY DEF n
  <2>4. IsNew(Dir(n, par, name), n, par, name, TRUE)
    BY <1>2, <2>2, NewEnt
  <2>5. IsNew(e, n, par, name, TRUE)
    BY <2>3, <2>4
  <2> QED
    BY <2>5 DEF n, IsNew
<1>4. PICK l : /\ Runs(k, <<TakeId, AddEnt(e)>>, l)
               /\ Base(l, Due(NoDebt, TRUE, par, 1)) /\ Rooted(l) /\ CwdFits(l, w)
               /\ l.ent = k.ent \cup {e} /\ l.thr = k.thr
  <2>1. e.par \in DirIds(k) /\ Found(k, e.par, e.name) = {}
    BY <1>3
  <2>2. \E l : /\ Runs(k, <<TakeId, AddEnt(e)>>, l)
               /\ Base(l, Due(NoDebt, e.dir, e.par, 1)) /\ Rooted(l) /\ CwdFits(l, w)
               /\ l.ent = k.ent \cup {e} /\ l.thr = k.thr
    BY <1>3, <2>1, EnterRuns
  <2>3. Due(NoDebt, e.dir, e.par, 1) = Due(NoDebt, TRUE, par, 1)
    BY <1>3
  <2> QED
    BY <2>2, <2>3
<1> DEFINE t == Thread(e)
           ts == l.thr \cup {t}
           m == [l EXCEPT !.thr = ts]
<1>5. t \in Thr /\ t.id = e.id /\ t.dir
  BY <1>3, ThreadTask DEF Thread
<1>6. l \in Volume /\ ts \in SUBSET Thr
  BY <1>4, <1>5 DEF Base, Volume
<1>7. m = Apply(l, AddThread(t)) /\ (Ready(l, AddThread(t)) <=> Threads(l, t.id) = {})
  BY <1>6, AppliedThread
<1>8. Threads(l, t.id) = {}
  <2>1. ASSUME NEW x \in k.thr PROVE x.id < k.next
    BY <1>1 DEF ThreadsAgree, Unique, Thread
  <2> QED
    BY <1>1, <1>3, <1>4, <1>5, <2>1 DEF Threads, Volume
<1> HIDE DEF ts, t
<1>9. /\ Base(m, Due(NoDebt, TRUE, par, 1)) /\ m.thr = ts /\ m.ent = l.ent /\ m.next = l.next
      /\ SameRecords(l, m) /\ Rooted(m)
  BY <1>4, <1>6, ThreadsBase
<1> HIDE DEF m
<1>10. ThreadsAgree(m)
  <2>1. {x \in m.ent : x.dir} = {x \in k.ent : x.dir} \cup {e}
    BY <1>3, <1>4, <1>9
  <2>2. {x \in m.thr : x.dir} = {x \in k.thr : x.dir} \cup {t}
    BY <1>4, <1>5, <1>9 DEF ts
  <2>3. {Thread(x) : x \in {y \in k.ent : y.dir} \cup {e}}
        = {Thread(x) : x \in {y \in k.ent : y.dir}} \cup {t}
    BY DEF t
  <2>4. {x \in m.thr : x.dir} = {Thread(x) : x \in {y \in m.ent : y.dir}}
    BY <1>1, <2>1, <2>2, <2>3 DEF ThreadsAgree
  <2>5. \A x \in m.thr : x \in {Thread(y) : y \in m.ent}
    <3>1. ASSUME NEW x \in k.thr PROVE x \in {Thread(y) : y \in m.ent}
      BY <1>1, <1>4, <1>9 DEF ThreadsAgree
    <3>2. t \in {Thread(y) : y \in m.ent}
      BY <1>4, <1>9 DEF t
    <3> QED
      BY <1>4, <1>9, <3>1, <3>2 DEF ts
  <2> QED
    BY <2>4, <2>5 DEF ThreadsAgree
<1>11. par \in DirIds(m) /\ CwdFits(m, w)
  BY <1>4, <1>9 DEF DirIds, CwdFits
<1>12. PICK p : Led(m, p) /\ p.id = par
  BY <1>9, <1>10, <1>11, LedIfAgree DEF Base
<1>13. PICK d : /\ Runs(m, Adjust(TRUE, par, 1), d) /\ Base(d, NoDebt)
                /\ SameRecords(m, d) /\ d.thr = m.thr
  BY <1>2, <1>9, <1>12, AdjustEnds
<1>14. Intact(d) /\ CwdFits(d, w)
  BY <1>9, <1>10, <1>11, <1>13, SameGood, IntactBase DEF Base
<1>15. Runs(l, <<AddThread(t)>>, m)
  BY <1>6, <1>7, <1>8, <1>9, RunsOne DEF Base
<1> DEFINE a == <<TakeId, AddEnt(e)>>
           b == <<AddThread(t)>>
           v == Adjust(TRUE, par, 1)
<1>16. a \in Seq(Task) /\ b \in Seq(Task) /\ v \in Seq(Task)
  <2>1. v \in Seq(Task)
    BY <1>2, AdjustTask, TamePart
  <2>2. AddEnt(e) \in Task /\ TakeId \in Task
    BY <1>3, TakeIdTask, EntTask
  <2>3. AddThread(t) \in Task
    BY <1>3, ThreadTask, TamePart DEF t
  <2>4. a \in Seq(Task) /\ b \in Seq(Task)
    BY <2>2, <2>3
  <2> QED
    BY <2>1, <2>4
<1>17. Runs(k, (a \o b) \o v, d)
  <2>1. a \o b \in Seq(Task)
    BY <1>16, ConcatProperties
  <2>2. Runs(k, a \o b, m)
    BY <1>4, <1>15, <1>16, RunsCat
  <2> QED
    BY <1>13, <1>16, <2>1, <2>2, RunsCat
<1>18. a \o b = <<TakeId, AddEnt(e), AddThread(t)>>
  <2>1. AddEnt(e) \in Task /\ TakeId \in Task /\ AddThread(t) \in Task
    BY <1>3, TakeIdTask, EntTask, ThreadTask, TamePart DEF t
  <2> DEFINE x == AddEnt(e)
             y == AddThread(t)
  <2> HIDE DEF x, y
  <2>2. <<TakeId, x>> \o <<y>> = <<TakeId, x, y>>
    BY <2>1, Triple DEF x, y
  <2> QED
    BY <2>2 DEF x, y
<1> QED
  BY <1>14, <1>17, <1>18 DEF Success, t

\* In a sound catalog the parent of an object that may be removed is there.
LEMMA ParentThere ==
  ASSUME NEW k, k \in Volume, Unique(k), Rooted(k), NEW e \in k.ent,
         e.par # RootPar \/ ~e.dir
  PROVE  /\ e.id # RootDir /\ e.par \in DirIds(k) /\ e.par \in Nat /\ e.par # RootPar
         /\ e \in Ent
<1>1. e \in Ent
  BY DEF Volume
<1>2. e.id # RootDir
  <2>1. CASE e.dir
    BY <2>1 DEF Rooted
  <2>2. CASE ~e.dir
    BY <2>2 DEF Rooted, DirIds, Unique
  <2> QED
    BY <2>1, <2>2
<1>3. e.par \in DirIds(k)
  BY <1>2 DEF Rooted
<1>4. e.par # RootPar
  BY <1>3 DEF DirIds, Rooted, RootPar, RootDir, Volume, Ent
<1> QED
  BY <1>1, <1>2, <1>3, <1>4 DEF Ent

\* When an object goes with its thread the others still agree.
LEMMA ThreadsLeave ==
  ASSUME NEW k, Unique(k), ThreadsAgree(k), NEW e \in k.ent, NEW m,
         m.ent = k.ent \ {e}, m.thr = k.thr \ Threads(k, e.id)
  PROVE  ThreadsAgree(m)
<1>1. ASSUME NEW x \in k.ent, x # e PROVE Thread(x) \notin Threads(k, e.id)
  BY <1>1 DEF Threads, Thread, Unique
<1>2. ASSUME NEW t \in m.thr PROVE t \in {Thread(x) : x \in m.ent}
  <2>1. PICK x \in k.ent : t = Thread(x)
    BY DEF ThreadsAgree
  <2>2. x # e
    BY <2>1 DEF Threads, Thread
  <2> QED
    BY <2>1, <2>2
<1>3. ASSUME NEW x \in m.ent, x.dir PROVE Thread(x) \in m.thr /\ Thread(x).dir
  <2>1. Thread(x) \in k.thr /\ Thread(x).dir
    BY <1>3 DEF ThreadsAgree, Thread
  <2> QED
    BY <1>1, <2>1
<1>4. ASSUME NEW t \in m.thr, t.dir PROVE t \in {Thread(x) : x \in {y \in m.ent : y.dir}}
  <2>1. PICK x \in m.ent : t = Thread(x)
    BY <1>2
  <2>2. x.dir
    BY <1>4, <2>1 DEF Thread
  <2> QED
    BY <2>1, <2>2
<1>5. {t \in m.thr : t.dir} = {Thread(x) : x \in {y \in m.ent : y.dir}}
  BY <1>3, <1>4
<1> QED
  BY <1>2, <1>5 DEF ThreadsAgree

\* An object has no thread but its own; a directory has it.
LEMMA OwnThreads ==
  ASSUME NEW k, Unique(k), ThreadsAgree(k), NEW e \in k.ent
  PROVE  /\ Threads(k, e.id) \subseteq {Thread(e)}
         /\ e.dir => Threads(k, e.id) = {Thread(e)}
<1>1. Threads(k, e.id) \subseteq {Thread(e)}
  <2> SUFFICES ASSUME NEW t \in Threads(k, e.id) PROVE t = Thread(e)
    OBVIOUS
  <2>1. PICK x \in k.ent : t = Thread(x)
    BY DEF ThreadsAgree, Threads
  <2>2. x.id = e.id
    BY <2>1 DEF Threads, Thread
  <2> QED
    BY <2>1, <2>2 DEF Unique
<1>2. e.dir => Thread(e) \in Threads(k, e.id)
  BY DEF ThreadsAgree, Threads, Thread
<1> QED
  BY <1>1, <1>2

\* One thread record taken away.
LEMMA DropRuns ==
  ASSUME NEW k, NEW D, Base(k, D), NEW n \in Nat, Threads(k, n) # {}
  PROVE  \E l : /\ Runs(k, <<DropThread(n)>>, l) /\ Base(l, D)
                /\ l.thr = k.thr \ Threads(k, n) /\ l.ent = k.ent /\ l.next = k.next
                /\ SameRecords(k, l) /\ (Rooted(k) => Rooted(l))
<1> DEFINE ts == k.thr \ Threads(k, n)
           l == [k EXCEPT !.thr = ts]
<1>1. k \in Volume /\ ts \in SUBSET Thr
  BY DEF Base, Volume
<1>2. l = Apply(k, DropThread(n)) /\ Ready(k, DropThread(n))
  BY <1>1, AppliedThread
<1> HIDE DEF ts
<1>3. /\ Base(l, D) /\ l.thr = ts /\ l.ent = k.ent /\ l.next = k.next
      /\ SameRecords(k, l) /\ (Rooted(k) => Rooted(l))
  BY <1>1, ThreadsBase
<1> HIDE DEF l
<1>4. Runs(k, <<DropThread(n)>>, l)
  BY <1>1, <1>2, <1>3, RunsOne DEF Base
<1> QED
  BY <1>3, <1>4 DEF ts

\* hfs_rmdir of an empty directory leads to a sound catalog.
LEMMA RmdirSucceeds ==
  ASSUME NEW k, Intact(k), NEW e \in k.ent, e.dir = TRUE, e.par # RootPar,
         Children(k, e.id) = {}, NEW w \in Nat, CwdFits(k, w)
  PROVE  Success(k, <<DropEnt(e), DropThread(e.id)>> \o Adjust(TRUE, e.par, -1), w)
<1>1. /\ k \in Volume /\ Unique(k) /\ ThreadsAgree(k) /\ Rooted(k) /\ Base(k, NoDebt)
  BY IntactBase DEF Intact
<1>2. /\ e.id # RootDir /\ e.par \in DirIds(k) /\ e.par \in Nat /\ e.par # RootPar
      /\ e \in Ent /\ e.id \in Nat
  BY <1>1, ParentThere DEF Ent
<1>3. PICK l : /\ Runs(k, <<DropEnt(e)>>, l)
               /\ Base(l, Due(NoDebt, e.dir, e.par, -1))
               /\ l.ent = k.ent \ {e} /\ l.thr = k.thr /\ l.next = k.next
  BY <1>1, RemoveBase
<1> DEFINE D == Due(NoDebt, TRUE, e.par, -1)
<1>4. Base(l, D)
  BY <1>3
<1>5. Threads(l, e.id) = Threads(k, e.id) /\ Threads(l, e.id) # {}
  BY <1>1, <1>3, OwnThreads DEF Threads
<1> HIDE DEF D
<1>6. PICK m : /\ Runs(l, <<DropThread(e.id)>>, m) /\ Base(m, D)
               /\ m.thr = l.thr \ Threads(l, e.id) /\ m.ent = l.ent /\ m.next = l.next
  BY <1>2, <1>4, <1>5, DropRuns
<1>7. ThreadsAgree(m)
  BY <1>1, <1>3, <1>5, <1>6, ThreadsLeave
<1>8. \A x \in m.ent : x.par # e.id
  BY <1>3, <1>6 DEF Children
<1>9. ASSUME NEW n \in DirIds(k), n # e.id PROVE n \in DirIds(m)
  BY <1>3, <1>6, <1>9 DEF DirIds
<1>10. Rooted(m)
  <2>1. RootDir \in DirIds(m)
    BY <1>1, <1>2, <1>9 DEF Rooted
  <2>2. ASSUME NEW x \in m.ent
        PROVE  /\ x.id >= RootDir
               /\ IF x.id = RootDir THEN x.par = RootPar ELSE x.par \in DirIds(m)
    BY <1>1, <1>3, <1>6, <1>8, <1>9 DEF Rooted
  <2> QED
    BY <2>1, <2>2 DEF Rooted
<1>11. e.par # e.id
  BY DEF Children
<1>12. e.par \in DirIds(m) /\ CwdFits(m, w)
  BY <1>2, <1>3, <1>6, <1>9, <1>11 DEF CwdFits
<1>13. PICK p : Led(m, p) /\ p.id = e.par
  BY <1>6, <1>7, <1>12, LedIfAgree DEF Base
<1>14. PICK d : /\ Runs(m, Adjust(TRUE, e.par, -1), d) /\ Base(d, NoDebt)
                /\ SameRecords(m, d) /\ d.thr = m.thr
  BY <1>2, <1>6, <1>13, AdjustEnds DEF D
<1>15. Intact(d) /\ CwdFits(d, w)
  BY <1>6, <1>7, <1>10, <1>12, <1>14, SameGood, IntactBase DEF Base
<1>16. DropEnt(e) \in Task /\ DropThread(e.id) \in Task /\ Adjust(TRUE, e.par, -1) \in Seq(Task)
  BY <1>2, EntTask, ThreadTask, AdjustTask, TamePart
<1>17. Runs(k, <<DropEnt(e), DropThread(e.id)>>, m)
  BY <1>3, <1>6, <1>16, PairRuns
<1>18. <<DropEnt(e), DropThread(e.id)>> \in Seq(Task)
  BY <1>16
<1>19. Runs(k, <<DropEnt(e), DropThread(e.id)>> \o Adjust(TRUE, e.par, -1), d)
  BY <1>14, <1>16, <1>17, <1>18, RunsCat
<1> QED
  BY <1>15, <1>19 DEF Success

\* hfs_delete of a file, with or without a thread, leads to a sound catalog.
LEMMA DeleteSucceeds ==
  ASSUME NEW k, Intact(k), NEW e \in k.ent, ~e.dir, NEW w \in Nat, CwdFits(k, w),
         NEW u, u = IF Threads(k, e.id) = {} THEN << >> ELSE <<DropThread(e.id)>>
  PROVE  Success(k, (<<DropEnt(e)>> \o Adjust(FALSE, e.par, -1)) \o u, w)
<1>1. /\ k \in Volume /\ Unique(k) /\ ThreadsAgree(k) /\ Rooted(k) /\ Base(k, NoDebt)
  BY IntactBase DEF Intact
<1>2. /\ e.id # RootDir /\ e.par \in DirIds(k) /\ e.par \in Nat /\ e.par # RootPar
      /\ e \in Ent /\ e.id \in Nat
  BY <1>1, ParentThere DEF Ent
<1>3. PICK l : /\ Runs(k, <<DropEnt(e)>>, l)
               /\ Base(l, Due(NoDebt, e.dir, e.par, -1))
               /\ l.ent = k.ent \ {e} /\ l.thr = k.thr /\ l.next = k.next
  BY <1>1, RemoveBase
<1> DEFINE D == Due(NoDebt, FALSE, e.par, -1)
<1>4. Base(l, D)
  <2>1. e.dir = FALSE
    BY <1>2 DEF Ent
  <2> QED
    BY <1>3, <2>1
<1>5. PICK p : Led(l, p) /\ p.id = e.par
  <2>1. PICK p : Led(k, p) /\ p.id = e.par
    BY <1>1, <1>2, LedIfAgree
  <2>2. Led(l, p)
    BY <1>3, <2>1 DEF Led, Threads
  <2> QED
    BY <2>1, <2>2
<1> HIDE DEF D
<1>6. PICK m : /\ Runs(l, Adjust(FALSE, e.par, -1), m) /\ Base(m, NoDebt)
               /\ SameRecords(l, m) /\ m.thr = l.thr
  BY <1>2, <1>4, <1>5, AdjustEnds DEF D
<1>7. DirIds(l) = DirIds(k)
  BY <1>3 DEF DirIds
<1>8. Rooted(l) /\ CwdFits(l, w)
  BY <1>1, <1>3, <1>7 DEF Rooted, CwdFits
<1>9. Rooted(m) /\ CwdFits(m, w) /\ m \in Volume
  BY <1>4, <1>6, <1>8, SameGood DEF Base
<1> DEFINE ts == k.thr \ Threads(k, e.id)
           n == [l EXCEPT !.thr = ts]
<1>10. n.ent = l.ent /\ n.thr = ts /\ n.next = l.next /\ n \in Volume
  <2>1. ts \in SUBSET Thr
    BY <1>1 DEF Volume
  <2> QED
    BY <1>4, <2>1, ThreadsBase DEF Base
<1> HIDE DEF n
<1>11. ThreadsAgree(n)
  BY <1>1, <1>3, <1>10, ThreadsLeave
<1> HIDE DEF ts
<1>12. ASSUME NEW d, Base(d, NoDebt), d.thr = ts, d.ent = m.ent, d.next = m.next
       PROVE  Intact(d) /\ CwdFits(d, w)
  <2>1. SameRecords(n, d)
    <3>1. PICK f \in [l.ent -> m.ent] :
            /\ \A x \in l.ent : Thread(f[x]) = Thread(x)
            /\ \A y \in m.ent : \E x \in l.ent : y = f[x]
      BY <1>6 DEF SameRecords
    <3>2. d \in Volume /\ d.next = n.next
      BY <1>6, <1>10, <1>12 DEF SameRecords, Base
    <3>3. /\ f \in [n.ent -> d.ent]
          /\ \A x \in n.ent : Thread(f[x]) = Thread(x)
          /\ \A y \in d.ent : \E x \in n.ent : y = f[x]
      BY <1>10, <1>12, <3>1
    <3> QED
      BY <3>2, <3>3 DEF SameRecords
  <2>2. ThreadsAgree(d)
    BY <1>10, <1>11, <1>12, <2>1, SameGood
  <2>3. Rooted(d) /\ CwdFits(d, w)
    BY <1>9, <1>12 DEF Rooted, CwdFits, DirIds
  <2> QED
    BY <1>12, <2>2, <2>3, IntactBase
<1>13. DropEnt(e) \in Task /\ DropThread(e.id) \in Task /\ Adjust(FALSE, e.par, -1) \in Seq(Task)
  BY <1>2, EntTask, ThreadTask, AdjustTask, TamePart
<1>14. <<DropEnt(e)>> \in Seq(Task) /\ <<DropThread(e.id)>> \in Seq(Task) /\ << >> \in Seq(Task)
  BY <1>13
<1> DEFINE v == <<DropEnt(e)>> \o Adjust(FALSE, e.par, -1)
<1>15. Runs(k, v, m) /\ v \in Seq(Task)
  BY <1>3, <1>6, <1>13, <1>14, RunsCat, ConcatProperties
<1> HIDE DEF v
<1>16. CASE Threads(k, e.id) = {}
  <2>1. v \o u = v
    BY <1>15, <1>16
  <2>2. m.thr = ts
    BY <1>3, <1>6, <1>16 DEF ts
  <2> QED
    BY <1>6, <1>12, <1>15, <2>1, <2>2 DEF Success, v
<1>17. CASE Threads(k, e.id) # {}
  <2>1. Threads(m, e.id) = Threads(k, e.id)
    BY <1>3, <1>6 DEF Threads
  <2>2. PICK d : /\ Runs(m, <<DropThread(e.id)>>, d) /\ Base(d, NoDebt)
                 /\ d.thr = m.thr \ Threads(m, e.id) /\ d.ent = m.ent /\ d.next = m.next
    BY <1>2, <1>6, <1>17, <2>1, DropRuns
  <2>3. d.thr = ts
    BY <1>3, <1>6, <2>1, <2>2 DEF ts
  <2>4. Runs(k, v \o u, d)
    BY <1>14, <1>15, <1>17, <2>2, RunsCat
  <2> QED
    BY <1>12, <2>2, <2>3, <2>4 DEF Success, v
<1> QED
  BY <1>16, <1>17

\* The thread of a record that has moved follows it.
LEMMA ThreadsMove ==
  ASSUME NEW k, Unique(k), ThreadsAgree(k), NEW s \in k.ent, NEW e,
         e.id = s.id, e.dir = s.dir, NEW m, m.ent = (k.ent \ {s}) \cup {e},
         m.thr = (k.thr \ Threads(k, s.id)) \cup {Thread(e)}
  PROVE  ThreadsAgree(m)
<1>1. ASSUME NEW x \in k.ent, x # s PROVE Thread(x) \notin Threads(k, s.id)
  BY <1>1 DEF Threads, Thread, Unique
<1>2. ASSUME NEW t \in m.thr PROVE t \in {Thread(x) : x \in m.ent}
  <2>1. CASE t = Thread(e)
    BY <2>1
  <2>2. CASE t \in k.thr \ Threads(k, s.id)
    <3>1. PICK x \in k.ent : t = Thread(x)
      BY <2>2 DEF ThreadsAgree
    <3>2. x # s
      BY <2>2, <3>1 DEF Threads, Thread
    <3> QED
      BY <3>1, <3>2
  <2> QED
    BY <2>1, <2>2
<1>3. ASSUME NEW x \in m.ent, x.dir PROVE Thread(x) \in m.thr /\ Thread(x).dir
  <2>1. CASE x = e
    BY <1>3, <2>1 DEF Thread
  <2>2. CASE x \in k.ent \ {s}
    <3>1. Thread(x) \in k.thr /\ Thread(x).dir
      BY <1>3, <2>2 DEF ThreadsAgree, Thread
    <3> QED
      BY <1>1, <2>2, <3>1
  <2> QED
    BY <2>1, <2>2
<1>4. ASSUME NEW t \in m.thr, t.dir PROVE t \in {Thread(x) : x \in {y \in m.ent : y.dir}}
  <2>1. PICK x \in m.ent : t = Thread(x)
    BY <1>2
  <2>2. x.dir
    BY <1>4, <2>1 DEF Thread
  <2> QED
    BY <2>1, <2>2
<1>5. {t \in m.thr : t.dir} = {Thread(x) : x \in {y \in m.ent : y.dir}}
  BY <1>3, <1>4
<1> QED
  BY <1>2, <1>5 DEF ThreadsAgree

\* A file without a thread moves without one.
LEMMA NoThreadMoves ==
  ASSUME NEW k, Unique(k), ThreadsAgree(k), NEW s \in k.ent, NEW e,
         ~s.dir, ~e.dir, Threads(k, s.id) = {}, NEW m, m.ent = (k.ent \ {s}) \cup {e},
         m.thr = k.thr
  PROVE  ThreadsAgree(m)
<1>1. Thread(s) \notin k.thr
  BY DEF Threads, Thread
<1>2. ASSUME NEW t \in m.thr PROVE t \in {Thread(x) : x \in m.ent}
  <2>1. PICK x \in k.ent : t = Thread(x)
    BY DEF ThreadsAgree
  <2> QED
    BY <1>1, <2>1
<1>3. {x \in m.ent : x.dir} = {x \in k.ent : x.dir}
  OBVIOUS
<1> QED
  BY <1>2, <1>3 DEF ThreadsAgree

\* One thread record written anew.
LEMMA PutRuns ==
  ASSUME NEW k, NEW D, Base(k, D), NEW t \in Thr, Threads(k, t.id) # {}
  PROVE  \E l : /\ Runs(k, <<PutThread(t)>>, l) /\ Base(l, D)
                /\ l.thr = (k.thr \ Threads(k, t.id)) \cup {t} /\ l.ent = k.ent
                /\ l.next = k.next /\ SameRecords(k, l) /\ (Rooted(k) => Rooted(l))
<1> DEFINE ts == (k.thr \ Threads(k, t.id)) \cup {t}
           l == [k EXCEPT !.thr = ts]
<1>1. k \in Volume /\ ts \in SUBSET Thr
  BY DEF Base, Volume
<1>2. l = Apply(k, PutThread(t)) /\ Ready(k, PutThread(t))
  BY <1>1, AppliedThread
<1> HIDE DEF ts
<1>3. /\ Base(l, D) /\ l.thr = ts /\ l.ent = k.ent /\ l.next = k.next
      /\ SameRecords(k, l) /\ (Rooted(k) => Rooted(l))
  BY <1>1, ThreadsBase
<1> HIDE DEF l
<1>4. Runs(k, <<PutThread(t)>>, l)
  BY <1>1, <1>2, <1>3, RunsOne DEF Base
<1> QED
  BY <1>3, <1>4 DEF ts

\* Arithmetic for adjustments by -1.
LEMMA MinusOne ==
  ASSUME NEW m, m = -1
  PROVE  m \in Int /\ m \in {-1, 1} /\ -m = 1
<1>1. m \in Int /\ m \in {-1, 1} /\ m + 1 = 0
  OBVIOUS
<1>2. ASSUME NEW n \in Int, n + 1 = 0 PROVE -n = 1
  BY <1>2
<1> QED
  BY <1>1, <1>2

\* What hfs_rename owes after it has moved the record, and how it pays.
LEMMA MoveDebt ==
  ASSUME NEW dir \in BOOLEAN, NEW p \in Nat, NEW q \in Nat
  PROVE  /\ p = q => Due(Due(NoDebt, dir, p, -1), dir, q, 1) = NoDebt
         /\ Due(Due(Due(NoDebt, dir, p, -1), dir, q, 1), dir, p, 1) = Due(NoDebt, dir, q, 1)
<1> DEFINE m == -1
<1>0. m = -1
  BY DEF m
<1> HIDE DEF m
<1>1. m \in Int /\ 1 = -m /\ 1 \in Int
  <2>1. m \in Int /\ 1 = -m
    BY <1>0, MinusOne, Zenon
  <2> QED
    BY <2>1
<1>2. NoDebt \in Debt /\ Due(NoDebt, dir, q, 1) \in Debt
  BY <1>1, DebtTyped
<1>3. Due(Due(NoDebt, dir, p, m), dir, p, -m) = NoDebt
  BY <1>1, <1>2, DuePaid
<1>4. Due(Due(NoDebt, dir, p, m), dir, q, 1) = Due(Due(NoDebt, dir, q, 1), dir, p, m)
  BY <1>1, <1>2, DueSwap
<1>5. Due(Due(Due(NoDebt, dir, q, 1), dir, p, m), dir, p, -m) = Due(NoDebt, dir, q, 1)
  BY <1>1, <1>2, DuePaid
<1>6. p = q => Due(Due(NoDebt, dir, p, m), dir, q, 1) = NoDebt
  BY <1>1, <1>3
<1>7. Due(Due(Due(NoDebt, dir, p, m), dir, q, 1), dir, p, 1) = Due(NoDebt, dir, q, 1)
  BY <1>1, <1>4, <1>5
<1> QED
  BY <1>6, <1>7 DEF m

\* The two v_adjvalence at the end of a move.
LEMMA MoveEnds ==
  ASSUME NEW k, NEW dir \in BOOLEAN, NEW p \in DirIds(k), NEW q \in DirIds(k),
         Base(k, Due(Due(NoDebt, dir, p, -1), dir, q, 1)), ThreadsAgree(k), Rooted(k)
  PROVE  \E d : /\ Runs(k, Adjust(dir, p, -1) \o Adjust(dir, q, 1), d) /\ Base(d, NoDebt)
                /\ SameRecords(k, d) /\ d.thr = k.thr
<1>1. p \in Nat /\ q \in Nat /\ p # RootPar /\ q # RootPar
  BY DEF DirIds, Rooted, Volume, Ent, RootPar, RootDir, Base
<1> DEFINE D == Due(Due(NoDebt, dir, p, -1), dir, q, 1)
           m == -1
<1>2. Base(k, D) /\ k \in Volume
  BY DEF Base
<1>3. Due(D, dir, p, 1) = Due(NoDebt, dir, q, 1)
  BY <1>1, MoveDebt
<1> HIDE DEF D
<1>0. m = -1
  BY DEF m
<1> HIDE DEF m
<1>4. m \in {-1, 1} /\ -m = 1
  BY <1>0, MinusOne, Zenon
<1>5. PICK x : Led(k, x) /\ x.id = p
  BY <1>2, LedIfAgree DEF Base
<1>6. PICK l : /\ Runs(k, Adjust(dir, x.id, m), l) /\ Base(l, Due(D, dir, x.id, -m))
               /\ SameRecords(k, l) /\ l.thr = k.thr
  BY <1>1, <1>2, <1>4, <1>5, AdjustBase
<1>7. Base(l, Due(NoDebt, dir, q, 1)) /\ Runs(k, Adjust(dir, p, m), l)
  BY <1>3, <1>4, <1>5, <1>6
<1>8. DirIds(l) = DirIds(k) /\ ThreadsAgree(l)
  BY <1>2, <1>6, SameGood
<1>9. PICK y : Led(l, y) /\ y.id = q
  BY <1>7, <1>8, LedIfAgree DEF Base
<1>10. PICK d : /\ Runs(l, Adjust(dir, q, 1), d) /\ Base(d, NoDebt)
                /\ SameRecords(l, d) /\ d.thr = l.thr
  BY <1>1, <1>7, <1>9, AdjustEnds
<1>11. Adjust(dir, p, m) \in Seq(Task) /\ Adjust(dir, q, 1) \in Seq(Task)
  BY <1>1, <1>4, AdjustTask, TamePart
<1>12. Runs(k, Adjust(dir, p, m) \o Adjust(dir, q, 1), d)
  BY <1>7, <1>10, <1>11, RunsCat
<1>13. SameRecords(k, d)
  <2>1. PICK f \in [k.ent -> l.ent] :
          /\ \A e \in k.ent : Thread(f[e]) = Thread(e)
          /\ \A z \in l.ent : \E e \in k.ent : z = f[e]
    BY <1>6 DEF SameRecords
  <2>2. PICK g \in [l.ent -> d.ent] :
          /\ \A e \in l.ent : Thread(g[e]) = Thread(e)
          /\ \A z \in d.ent : \E e \in l.ent : z = g[e]
    BY <1>10 DEF SameRecords
  <2> DEFINE h == [e \in k.ent |-> g[f[e]]]
  <2>3. /\ h \in [k.ent -> d.ent]
        /\ \A e \in k.ent : h[e] = g[f[e]] /\ f[e] \in l.ent
    BY <2>1, <2>2
  <2> HIDE DEF h
  <2>4. \A e \in k.ent : Thread(h[e]) = Thread(e)
    BY <2>1, <2>2, <2>3
  <2>5. \A z \in d.ent : \E e \in k.ent : z = h[e]
    BY <2>1, <2>2, <2>3
  <2>6. d \in Volume /\ d.next = k.next
    BY <1>6, <1>10 DEF SameRecords
  <2> QED
    BY <2>3, <2>4, <2>5, <2>6 DEF SameRecords
<1> QED
  BY <1>6, <1>10, <1>12, <1>13 DEF m

\* hfs_rename in a sound catalog leads to a sound one.
LEMMA RenameSucceeds ==
  ASSUME NEW k, Intact(k), NEW src, src.ent \in k.ent, src.par = src.ent.par,
         NEW e \in Ent, e.id = src.ent.id, e.dir = src.ent.dir, e.val = src.ent.val,
         Found(k, e.par, e.name) \subseteq {src.ent},
         e.par = src.par \/ (e.par \in DirIds(k) /\ src.ent.id # RootDir),
         NEW w \in Nat, CwdFits(k, w)
  PROVE  Success(k, Moved(k, src, e), w)
<1> DEFINE s == src.ent
<1>1. /\ k \in Volume /\ Unique(k) /\ ThreadsAgree(k) /\ Rooted(k) /\ Base(k, NoDebt)
  BY IntactBase DEF Intact
<1>2. s \in k.ent /\ s \in Ent /\ s.id = e.id /\ e.id \in Nat /\ s.dir = e.dir
      /\ e.dir \in BOOLEAN /\ s.par = src.par /\ s.par \in Nat /\ e.par \in Nat
  BY <1>1 DEF Volume, Ent
<1>3. Found(k, e.par, e.name) \subseteq {s} /\ e.val = s.val
  OBVIOUS
<1>4. e.par = s.par \/ (e.par \in DirIds(k) /\ e.id # RootDir)
  OBVIOUS
<1> HIDE DEF s
<1>5. PICK l : /\ Runs(k, <<DropEnt(s)>>, l)
               /\ Base(l, Due(NoDebt, s.dir, s.par, -1))
               /\ Worth(l, Due(NoDebt, s.dir, s.par, -1), s)
               /\ l.ent = k.ent \ {s} /\ l.thr = k.thr /\ l.next = k.next
               /\ \A f \in Ent : f.id = s.id => Fresh(l, f)
  BY <1>1, <1>2, RemoveBase
<1> DEFINE D == Due(NoDebt, e.dir, s.par, -1)
<1>6. Base(l, D) /\ Worth(l, D, s)
  BY <1>2, <1>5
<1> HIDE DEF D
<1>7. Worth(l, D, e)
  BY <1>2, <1>3, <1>6 DEF Worth
<1>8. Found(l, e.par, e.name) = {} /\ Fresh(l, e)
  BY <1>2, <1>3, <1>5 DEF Found
<1> DEFINE F == Due(D, e.dir, e.par, 1)
<1>9. PICK m : /\ Runs(l, <<AddEnt(e)>>, m) /\ Base(m, F)
               /\ m.ent = l.ent \cup {e} /\ m.thr = l.thr /\ m.next = l.next
  BY <1>6, <1>7, <1>8, InsertBase
<1> HIDE DEF F
<1>10. m.ent = (k.ent \ {s}) \cup {e} /\ m.thr = k.thr /\ m.next = k.next
  BY <1>5, <1>9
<1>11. DirIds(m) = DirIds(k)
  BY <1>2, <1>10 DEF DirIds
<1>12. Rooted(m) /\ CwdFits(m, w)
  <2>1. RootDir \in DirIds(m)
    BY <1>1, <1>11 DEF Rooted
  <2>2. ASSUME NEW x \in k.ent
        PROVE  /\ x.id >= RootDir
               /\ IF x.id = RootDir THEN x.par = RootPar ELSE x.par \in DirIds(m)
    BY <1>1, <1>11 DEF Rooted
  <2>3. /\ e.id >= RootDir
        /\ IF e.id = RootDir THEN e.par = RootPar ELSE e.par \in DirIds(m)
    BY <1>2, <1>4, <1>11, <2>2
  <2>4. Rooted(m)
    BY <1>10, <2>1, <2>2, <2>3 DEF Rooted
  <2>5. CwdFits(m, w)
    BY <1>2, <1>10 DEF CwdFits
  <2> QED
    BY <2>4, <2>5
<1> DEFINE b == IF e.dir \/ Threads(k, e.id) # {} THEN <<PutThread(Thread(e))>> ELSE << >>
<1>13. /\ DropEnt(s) \in Task /\ AddEnt(e) \in Task /\ PutThread(Thread(e)) \in Task
       /\ Thread(e) \in Thr /\ Thread(e).id = e.id
       /\ <<DropEnt(s), AddEnt(e)>> \in Seq(Task) /\ b \in Seq(Task)
  <2>1. DropEnt(s) \in Task /\ AddEnt(e) \in Task /\ PutThread(Thread(e)) \in Task
    BY <1>2, EntTask, ThreadTask, TamePart
  <2>2. Thread(e) \in Thr /\ Thread(e).id = e.id
    BY ThreadTask DEF Thread
  <2>3. <<DropEnt(s), AddEnt(e)>> \in Seq(Task) /\ <<PutThread(Thread(e))>> \in Seq(Task)
        /\ << >> \in Seq(Task)
    BY <2>1
  <2> QED
    BY <2>1, <2>2, <2>3
<1>14. PICK n : /\ Runs(m, b, n) /\ Base(n, F) /\ ThreadsAgree(n) /\ Rooted(n)
                /\ n.ent = m.ent /\ n.next = m.next
  <2>1. CASE e.dir \/ Threads(k, e.id) # {}
    <3>1. Threads(k, s.id) # {} /\ Threads(k, s.id) = Threads(m, Thread(e).id)
      BY <1>1, <1>2, <1>10, <1>13, <2>1, OwnThreads DEF Threads
    <3>2. PICK n : /\ Runs(m, <<PutThread(Thread(e))>>, n) /\ Base(n, F)
                   /\ n.thr = (m.thr \ Threads(m, Thread(e).id)) \cup {Thread(e)}
                   /\ n.ent = m.ent /\ n.next = m.next /\ (Rooted(m) => Rooted(n))
      BY <1>9, <1>13, <3>1, PutRuns
    <3>3. ThreadsAgree(n)
      BY <1>1, <1>2, <1>10, <3>1, <3>2, ThreadsMove
    <3> QED
      BY <1>12, <2>1, <3>2, <3>3
  <2>2. CASE ~(e.dir \/ Threads(k, e.id) # {})
    <3>1. ThreadsAgree(m)
      BY <1>1, <1>2, <1>10, <2>2, NoThreadMoves
    <3>2. Runs(m, b, m)
      BY <1>9, <2>2, RunsNone DEF Base
    <3> QED
      BY <1>9, <1>12, <3>1, <3>2
  <2> QED
    BY <2>1, <2>2
<1> HIDE DEF b
<1> DEFINE a == <<DropEnt(s), AddEnt(e)>>
           q == IF e.par = src.par THEN << >>
                ELSE Adjust(e.dir, src.par, -1) \o Adjust(e.dir, e.par, 1)
<1>15. Runs(k, a, m)
  BY <1>5, <1>9, <1>13, PairRuns
<1>16. a \in Seq(Task)
  BY <1>13
<1> HIDE DEF a
<1>17. Runs(k, a \o b, n) /\ a \o b \in Seq(Task)
  BY <1>13, <1>14, <1>15, <1>16, RunsCat, ConcatProperties
<1>18. n \in Volume /\ CwdFits(n, w)
  BY <1>12, <1>14 DEF Base, CwdFits
<1>19. q \in Seq(Task) /\ \E d : Runs(n, q, d) /\ Intact(d) /\ CwdFits(d, w)
  <2>1. CASE e.par = src.par
    <3>1. F = NoDebt
      BY <1>2, <2>1, MoveDebt DEF F, D
    <3>2. Intact(n)
      BY <1>14, <3>1, IntactBase
    <3>3. q = << >> /\ << >> \in Seq(Task)
      BY <2>1
    <3>4. Runs(n, << >>, n)
      BY <1>18, RunsNone
    <3> QED
      BY <1>18, <3>2, <3>3, <3>4
  <2>2. CASE e.par # src.par
    <3>1. DirIds(n) = DirIds(k)
      BY <1>11, <1>14 DEF DirIds
    <3>2. e.par \in DirIds(k) /\ s.par \in DirIds(k)
      BY <1>1, <1>2, <1>4, <2>2 DEF Rooted
    <3>3. Base(n, Due(Due(NoDebt, e.dir, s.par, -1), e.dir, e.par, 1))
      BY <1>14 DEF F, D
    <3>4. PICK d : /\ Runs(n, Adjust(e.dir, s.par, -1) \o Adjust(e.dir, e.par, 1), d)
                   /\ Base(d, NoDebt) /\ SameRecords(n, d) /\ d.thr = n.thr
      BY <1>2, <1>14, <3>1, <3>2, <3>3, MoveEnds
    <3>5. Intact(d) /\ CwdFits(d, w)
      BY <1>14, <1>18, <3>4, SameGood, IntactBase
    <3>6. q = Adjust(e.dir, s.par, -1) \o Adjust(e.dir, e.par, 1)
      BY <1>2, <2>2
    <3>7. Adjust(e.dir, s.par, -1) \in Seq(Task) /\ Adjust(e.dir, e.par, 1) \in Seq(Task)
      BY <1>2, AdjustTask, TamePart
    <3> QED
      BY <3>4, <3>5, <3>6, <3>7, ConcatProperties
  <2> QED
    BY <2>1, <2>2
<1>20. Moved(k, src, e) = (a \o b) \o q
  BY <1>2 DEF Moved, a, b, s
<1> HIDE DEF q
<1>21. PICK d : Runs(n, q, d) /\ Intact(d) /\ CwdFits(d, w)
  BY <1>19
<1>22. Runs(k, (a \o b) \o q, d)
  BY <1>17, <1>19, <1>21, RunsCat
<1> QED
  BY <1>20, <1>21, <1>22 DEF Success

-----------------------------------------------------------------------------
(* Calls that do not succeed. *)

\* The first step on the way to a sound catalog is ready.
LEMMA SuccessStep ==
  ASSUME NEW k, NEW p \in Seq(Task), p # << >>, NEW w, Success(k, p, w)
  PROVE  Ready(k, Head(p)) /\ Success(Apply(k, Head(p)), Tail(p), w)
<1>1. PICK d : Runs(k, p, d) /\ Intact(d) /\ CwdFits(d, w)
  BY DEF Success
<1>2. Ready(k, Head(p)) /\ Runs(Apply(k, Head(p)), Tail(p), d)
  BY <1>1, RunsStep
<1> QED
  BY <1>1, <1>2 DEF Success

\* When nothing is left to do the catalog is sound.
LEMMA SuccessEnd ==
  ASSUME NEW k \in Volume, NEW w
  PROVE  Success(k, << >>, w) <=> Intact(k) /\ CwdFits(k, w)
<1>1. \A d : Runs(k, << >>, d) <=> d = k
  BY RunsNone
<1> QED
  BY <1>1 DEF Success

-----------------------------------------------------------------------------
\* The running call has a record in the way of the one it is to insert, and
\* will come to it.
Blocked(k, p) ==
  \E e \in Ent, t \in Seq(Task) : \E f \in Found(k, e.par, e.name) :
    \/ p = <<AddEnt(e)>> \o t
    \/ p = <<TakeId, AddEnt(e)>> \o t
    \/ \E s \in Ent : /\ p = <<DropEnt(s), AddEnt(e)>> \o t
                      /\ f \notin Found(k, s.par, s.name)

\* A call that is blocked has something left to do.
LEMMA BlockedSome ==
  ASSUME NEW k, NEW p, Blocked(k, p)
  PROVE  p # << >>
<1>1. PICK e \in Ent, t \in Seq(Task) : \E f \in Found(k, e.par, e.name) :
         \/ p = <<AddEnt(e)>> \o t
         \/ p = <<TakeId, AddEnt(e)>> \o t
         \/ \E s \in Ent : p = <<DropEnt(s), AddEnt(e)>> \o t
  BY DEF Blocked
<1>2. TakeId \in Task /\ \A x \in Ent : AddEnt(x) \in Task /\ DropEnt(x) \in Task
  BY TakeIdTask, EntTask
<1>3. CASE p = <<AddEnt(e)>> \o t
  BY <1>2, <1>3, OneMore
<1>4. CASE p = <<TakeId, AddEnt(e)>> \o t
  BY <1>2, <1>4, TwoMore
<1>5. CASE \E s \in Ent : p = <<DropEnt(s), AddEnt(e)>> \o t
  BY <1>2, <1>5, TwoMore
<1> QED
  BY <1>1, <1>3, <1>4, <1>5

\* A call that is blocked stays blocked, whatever step it takes.
LEMMA BlockedStep ==
  ASSUME NEW k \in Volume, NEW p, Blocked(k, p), Ready(k, Head(p))
  PROVE  Blocked(Apply(k, Head(p)), Tail(p))
<1>1. PICK e \in Ent, t \in Seq(Task) : \E f \in Found(k, e.par, e.name) :
         \/ p = <<AddEnt(e)>> \o t
         \/ p = <<TakeId, AddEnt(e)>> \o t
         \/ \E s \in Ent : /\ p = <<DropEnt(s), AddEnt(e)>> \o t
                           /\ f \notin Found(k, s.par, s.name)
  BY DEF Blocked
<1>2. PICK f \in Found(k, e.par, e.name) :
         \/ p = <<AddEnt(e)>> \o t
         \/ p = <<TakeId, AddEnt(e)>> \o t
         \/ \E s \in Ent : /\ p = <<DropEnt(s), AddEnt(e)>> \o t
                           /\ f \notin Found(k, s.par, s.name)
  BY <1>1
<1>3. TakeId \in Task /\ \A x \in Ent : AddEnt(x) \in Task /\ DropEnt(x) \in Task
  BY TakeIdTask, EntTask
<1> DEFINE l == Apply(k, Head(p))
<1>4. ASSUME Tail(p) = <<AddEnt(e)>> \o t, f \in Found(l, e.par, e.name)
      PROVE  Blocked(l, Tail(p))
  BY <1>4 DEF Blocked
<1>5. CASE p = <<AddEnt(e)>> \o t
  <2>1. Head(p) = AddEnt(e)
    BY <1>3, <1>5, OneMore
  <2>2. Found(k, e.par, e.name) = {}
    BY <2>1, AppliedEnt
  <2> QED
    BY <2>2
<1>6. CASE p = <<TakeId, AddEnt(e)>> \o t
  <2>1. Head(p) = TakeId /\ Tail(p) = <<AddEnt(e)>> \o t
    BY <1>3, <1>6, TwoMore
  <2>2. l.ent = k.ent
    BY <2>1, AppliedId DEF Volume
  <2> HIDE DEF l
  <2>3. f \in Found(l, e.par, e.name)
    BY <2>2 DEF Found
  <2> QED
    BY <1>4, <2>1, <2>3 DEF l
<1>7. CASE \E s \in Ent : /\ p = <<DropEnt(s), AddEnt(e)>> \o t
                          /\ f \notin Found(k, s.par, s.name)
  <2>1. PICK s \in Ent : /\ p = <<DropEnt(s), AddEnt(e)>> \o t
                         /\ f \notin Found(k, s.par, s.name)
    BY <1>7
  <2>2. Head(p) = DropEnt(s) /\ Tail(p) = <<AddEnt(e)>> \o t
    BY <1>3, <2>1, TwoMore
  <2>3. l = [k EXCEPT !.ent = @ \ Found(k, s.par, s.name)]
    BY <2>2, AppliedEnt
  <2>4. l.ent = k.ent \ Found(k, s.par, s.name)
    BY <2>3 DEF Volume
  <2> HIDE DEF l
  <2>5. f \in Found(l, e.par, e.name)
    BY <2>1, <2>4 DEF Found
  <2> QED
    BY <1>4, <2>2, <2>5 DEF l
<1> QED
  BY <1>2, <1>5, <1>6, <1>7

-----------------------------------------------------------------------------
\* The running call ends at the valence of a directory that is gone.
Harmless(s, w) ==
  /\ s \in Ins => s.ent.id # w
  /\ s \in InsT \cup PutT => s.thr.id # w

Doomed(k, p, w) ==
  /\ p \in Seq(Task) /\ p # << >> /\ p[Len(p)] = Valence(w, 1)
  /\ Threads(k, w) = {} /\ w \notin DirIds(k)
  /\ \A i \in 1..Len(p) : Harmless(p[i], w)

\* A directory that is gone stays gone under harmless steps.
LEMMA StaysGone ==
  ASSUME NEW k \in Volume, NEW s \in Task, NEW w, Harmless(s, w),
         Threads(k, w) = {}, w \notin DirIds(k)
  PROVE  Threads(Apply(k, s), w) = {} /\ w \notin DirIds(Apply(k, s))
<1> DEFINE l == Apply(k, s)
<1> SUFFICES Threads(l, w) = {} /\ w \notin DirIds(l)
  OBVIOUS
<1>1. ASSUME l.thr \subseteq k.thr PROVE Threads(l, w) = {}
  BY <1>1 DEF Threads
<1>2. ASSUME l.ent \subseteq k.ent PROVE w \notin DirIds(l)
  BY <1>2 DEF DirIds
<1>3. CASE s \in Id
  <2>1. l = [k EXCEPT !.next = @ + 1]
    BY <1>3 DEF Id, Apply
  <2>2. l.thr = k.thr /\ l.ent = k.ent
    BY <2>1 DEF Volume
  <2> QED
    BY <1>1, <1>2, <2>2
<1>4. CASE s \in Ins
  <2>1. l = [k EXCEPT !.ent = @ \cup {s.ent}] /\ s.ent.id # w
    BY <1>4 DEF Ins, Apply, Harmless
  <2>2. l.thr = k.thr /\ l.ent = k.ent \cup {s.ent}
    BY <2>1 DEF Volume
  <2> HIDE DEF l
  <2> QED
    BY <1>1, <2>1, <2>2 DEF DirIds
<1>5. CASE s \in Rem
  <2>1. l = [k EXCEPT !.ent = @ \ Found(k, s.ent.par, s.ent.name)]
    BY <1>5 DEF Rem, Apply
  <2>2. l.thr = k.thr /\ l.ent \subseteq k.ent
    BY <2>1 DEF Volume
  <2> QED
    BY <1>1, <1>2, <2>2
<1>6. CASE s \in Tame
  <2>1. SameRecords(k, l)
    BY <1>6, TameSame
  <2>2. w \notin DirIds(l)
    <3> HIDE DEF l
    <3>1. PICK f \in [k.ent -> l.ent] :
            /\ \A e \in k.ent : Thread(f[e]) = Thread(e)
            /\ \A x \in l.ent : \E e \in k.ent : x = f[e]
      BY <2>1 DEF SameRecords
    <3>2. ASSUME NEW x \in l.ent, x.dir PROVE x.id # w
      <4>1. PICK e \in k.ent : x = f[e]
        BY <3>1
      <4>2. e.id = x.id /\ e.dir = x.dir
        BY <3>1, <4>1 DEF Thread
      <4> QED
        BY <3>2, <4>2 DEF DirIds
    <3> QED
      BY <3>2 DEF DirIds
  <2>3. CASE s \in InsT
    <3>1. l = [k EXCEPT !.thr = @ \cup {s.thr}] /\ s.thr.id # w
      BY <2>3 DEF InsT, Apply, Harmless
    <3>2. l.thr = k.thr \cup {s.thr}
      BY <3>1 DEF Volume
    <3> HIDE DEF l
    <3> QED
      BY <2>2, <3>1, <3>2 DEF Threads
  <2>4. CASE s \in RemT
    <3>1. l = [k EXCEPT !.thr = @ \ Threads(k, s.id)]
      BY <2>4 DEF RemT, Apply
    <3>2. l.thr \subseteq k.thr
      BY <3>1 DEF Volume
    <3> QED
      BY <1>1, <2>2, <3>2
  <2>5. CASE s \in PutT
    <3>1. l = [k EXCEPT !.thr = (@ \ Threads(k, s.thr.id)) \cup {s.thr}] /\ s.thr.id # w
      BY <2>5 DEF PutT, Apply, Harmless
    <3>2. l.thr \subseteq k.thr \cup {s.thr}
      BY <3>1 DEF Volume
    <3> HIDE DEF l
    <3> QED
      BY <2>2, <3>1, <3>2 DEF Threads
  <2>6. CASE s \in Cnt
    <3>1. l = Counted(k, s)
      BY <2>6 DEF Cnt, Apply
    <3>2. l.thr = k.thr
      BY <2>6, <3>1, CountedTyped
    <3> QED
      BY <1>1, <2>2, <3>2
  <2>7. CASE s \in Val
    <3>1. l = Valenced(k, s)
      BY <2>7 DEF Val, Apply
    <3>2. l.thr = k.thr
      BY <3>1 DEF Valenced, Volume
    <3> QED
      BY <1>1, <2>2, <3>2
  <2> QED
    BY <1>6, <2>3, <2>4, <2>5, <2>6, <2>7 DEF Tame
<1> QED
  BY <1>3, <1>4, <1>5, <1>6 DEF Task

\* A call that is doomed stays doomed, whatever step it takes.
LEMMA DoomedStep ==
  ASSUME NEW k \in Volume, NEW p, NEW w, Doomed(k, p, w), Ready(k, Head(p))
  PROVE  Doomed(Apply(k, Head(p)), Tail(p), w)
<1> DEFINE n == Len(p)
           q == Tail(p)
<1>1. /\ p \in Seq(Task) /\ n \in Nat /\ n >= 1 /\ Head(p) = p[1] /\ Head(p) \in Task
      /\ q \in Seq(Task) /\ Len(q) = n - 1 /\ \A i \in 1..n - 1 : q[i] = p[i + 1]
  BY DEF Doomed
<1>2. n # 1
  <2>1. SUFFICES ASSUME n = 1 PROVE FALSE
    OBVIOUS
  <2>2. Head(p) = Valence(w, 1)
    BY <1>1, <2>1 DEF Doomed
  <2>3. ByThread(k, w) = {}
    BY DEF Doomed, ByThread
  <2> QED
    BY <2>2, <2>3, AppliedAdjust
<1>3. Harmless(Head(p), w)
  BY <1>1 DEF Doomed
<1>4. Threads(Apply(k, Head(p)), w) = {} /\ w \notin DirIds(Apply(k, Head(p)))
  BY <1>1, <1>3, StaysGone DEF Doomed
<1>5. q # << >> /\ q[Len(q)] = Valence(w, 1)
  BY <1>1, <1>2 DEF Doomed
<1>6. \A i \in 1..Len(q) : Harmless(q[i], w)
  <2> SUFFICES ASSUME NEW i \in 1..Len(q) PROVE Harmless(q[i], w)
    OBVIOUS
  <2>1. q[i] = p[i + 1] /\ i + 1 \in 1..Len(p)
    BY <1>1
  <2> QED
    BY <2>1 DEF Doomed
<1> QED
  BY <1>1, <1>4, <1>5, <1>6 DEF Doomed

-----------------------------------------------------------------------------
(* What the checks of the calls give. *)

Meek(a, w) == a \in Seq(Task) /\ \A i \in 1..Len(a) : Harmless(a[i], w)

\* Nothing is meek.
LEMMA MeekNone ==
  ASSUME NEW w
  PROVE  Meek(<< >>, w)
<1>1. << >> \in Seq(Task) /\ 1..Len(<< >>) = {}
  OBVIOUS
<1> QED
  BY <1>1 DEF Meek

\* One harmless step is meek.
LEMMA MeekOne ==
  ASSUME NEW s \in Task, NEW w, Harmless(s, w)
  PROVE  Meek(<<s>>, w)
<1>1. <<s>> \in Seq(Task) /\ Len(<<s>>) = 1 /\ <<s>>[1] = s /\ 1..1 = {1}
  OBVIOUS
<1> DEFINE a == <<s>>
<1> HIDE DEF a
<1>2. a \in Seq(Task) /\ 1..Len(a) = {1} /\ a[1] = s
  BY <1>1 DEF a
<1>3. Meek(a, w)
  BY <1>2 DEF Meek
<1> QED
  BY <1>3 DEF a

\* One meek part after another is meek.
LEMMA MeekCat ==
  ASSUME NEW a, NEW b, NEW w, Meek(a, w), Meek(b, w)
  PROVE  Meek(a \o b, w)
<1>1. a \in Seq(Task) /\ b \in Seq(Task)
  BY DEF Meek
<1> DEFINE q == a \o b
<1>2. /\ q \in Seq(Task) /\ Len(q) = Len(a) + Len(b) /\ Len(a) \in Nat /\ Len(b) \in Nat
      /\ \A i \in 1..Len(q) : q[i] = IF i <= Len(a) THEN a[i] ELSE b[i - Len(a)]
  BY <1>1, ConcatProperties, LenProperties
<1> HIDE DEF q
<1>3. ASSUME NEW i \in 1..Len(q) PROVE Harmless(q[i], w)
  <2>1. CASE i <= Len(a)
    <3>1. q[i] = a[i] /\ i \in 1..Len(a)
      BY <1>2, <2>1
    <3> QED
      BY <3>1 DEF Meek
  <2>2. CASE ~(i <= Len(a))
    <3>1. q[i] = b[i - Len(a)] /\ i - Len(a) \in 1..Len(b)
      BY <1>2, <2>2
    <3> QED
      BY <3>1 DEF Meek
  <2> QED
    BY <2>1, <2>2
<1>4. Meek(q, w)
  BY <1>2, <1>3 DEF Meek
<1> QED
  BY <1>4 DEF q

\* v_adjvalence is meek.
LEMMA MeekAdjust ==
  ASSUME NEW dir \in BOOLEAN, NEW par \in Nat, NEW adj \in {-1, 1}, NEW w
  PROVE  Meek(Adjust(dir, par, adj), w)
<1>1. Count(dir, par, adj) \in Task /\ Valence(par, adj) \in Task
  BY AdjustTask, TamePart
<1>2. Harmless(Count(dir, par, adj), w) /\ Harmless(Valence(par, adj), w)
  BY DEF Harmless, Count, Valence, Ins, InsT, PutT
<1>3. Meek(<<Count(dir, par, adj)>>, w) /\ Meek(<<Valence(par, adj)>>, w)
  BY <1>1, <1>2, MeekOne
<1> QED
  BY <1>3, MeekNone, MeekCat DEF Adjust

\* A call that comes to adjust a directory that is gone.
LEMMA EndsDoomed ==
  ASSUME NEW k, NEW a, NEW dir \in BOOLEAN, NEW w \in Nat, w # RootPar, Meek(a, w),
         Threads(k, w) = {}, w \notin DirIds(k)
  PROVE  Doomed(k, a \o Adjust(dir, w, 1), w)
<1> DEFINE x == Count(dir, w, 1)
           y == Valence(w, 1)
           z == <<x>>
           b == <<y>>
           f == a \o z
           q == f \o b
<1>1. x \in Task /\ y \in Task /\ Adjust(dir, w, 1) = z \o b
  BY AdjustTask, TamePart DEF Adjust
<1>2. Harmless(x, w) /\ Harmless(y, w)
  BY DEF Harmless, Count, Valence, Ins, InsT, PutT
<1>3. y = Valence(w, 1)
  BY DEF y
<1> HIDE DEF x, y
<1>4. Meek(z, w) /\ Meek(b, w) /\ a \in Seq(Task) /\ z \in Seq(Task) /\ b \in Seq(Task)
      /\ Len(b) = 1 /\ b[1] = y
  BY <1>1, <1>2, MeekOne DEF Meek
<1> HIDE DEF b, z
<1>5. a \o Adjust(dir, w, 1) = q
  <2>1. (a \o z) \o b = a \o (z \o b)
    BY <1>4, Regroup
  <2>2. Adjust(dir, w, 1) = z \o b
    BY <1>1
  <2> QED
    BY <2>1, <2>2
<1>6. Meek(f, w) /\ f \in Seq(Task)
  BY <1>4, MeekCat DEF Meek
<1> HIDE DEF f
<1>7. Meek(q, w)
  BY <1>4, <1>6, MeekCat
<1>8. /\ q \in Seq(Task) /\ Len(q) = Len(f) + 1 /\ Len(f) \in Nat
      /\ q[Len(f) + 1] = b[1]
  <2>1. Len(f) \in Nat
    BY <1>6, LenProperties
  <2>2. /\ q \in Seq(Task) /\ Len(q) = Len(f) + Len(b)
        /\ \A i \in 1..Len(q) : q[i] = IF i <= Len(f) THEN f[i] ELSE b[i - Len(f)]
    BY <1>4, <1>6, ConcatProperties
  <2> HIDE DEF q
  <2>3. Len(f) + 1 \in 1..Len(q) /\ ~(Len(f) + 1 <= Len(f)) /\ Len(f) + 1 - Len(f) = 1
    BY <1>4, <2>1, <2>2
  <2> QED
    BY <1>4, <2>1, <2>2, <2>3
<1>9. q[Len(q)] = y /\ q # << >>
  BY <1>4, <1>8
<1> HIDE DEF q
<1>10. Doomed(k, q, w)
  BY <1>3, <1>7, <1>8, <1>9 DEF Doomed, Meek
<1> QED
  BY <1>5, <1>10

-----------------------------------------------------------------------------
\* Where a walk can come to in a sound catalog.
Walk(k, w) == DirIds(k) \cup {RootPar, w}

\* A path leads only to directories and to the working directory.
LEMMA WalkClosed ==
  ASSUME NEW k, Intact(k), NEW w \in Nat
  PROVE  Closed(k, Walk(k, w), w)
<1>1. k \in Volume /\ ThreadsAgree(k) /\ Rooted(k)
  BY DEF Intact
<1>2. \A e \in k.ent : e.par \in Walk(k, w)
  BY <1>1 DEF Rooted, Walk
<1>3. \A t \in k.thr : t.par \in Walk(k, w)
  BY <1>1, <1>2 DEF ThreadsAgree, Thread
<1>4. Walk(k, w) \subseteq Nat
  BY <1>1 DEF Walk, DirIds, RootPar, Volume, Ent
<1>5. \A e \in k.ent : e.dir => e.id \in Walk(k, w)
  BY DEF Walk, DirIds
<1> QED
  BY <1>3, <1>4, <1>5 DEF Closed, Walk

\* A working directory that is gone has left nothing.
LEMMA CwdGone ==
  ASSUME NEW k, Intact(k), NEW w, CwdFits(k, w), w \notin DirIds(k)
  PROVE  Threads(k, w) = {} /\ \A e \in k.ent : e.id # w
<1>1. \A e \in k.ent : e.id # w
  BY DEF CwdFits, DirIds
<1>2. ASSUME NEW t \in k.thr PROVE t.id # w
  <2>1. PICK e \in k.ent : t = Thread(e)
    BY DEF Intact, ThreadsAgree
  <2> QED
    BY <1>1, <2>1 DEF Thread
<1> QED
  BY <1>1, <1>2 DEF Threads

StrayIn(k, r) == r.how = "absent" /\ r.par # 0 /\ Found(k, r.par, r.name) # {}

Goes(k, p, w, r) == Success(k, p, w) \/ (StrayIn(k, r) /\ Blocked(k, p)) \/ Doomed(k, p, w)

\* What hfs_create and hfs_mkdir know when they begin.
LEMMA MayCreateMeans ==
  ASSUME NEW k, Intact(k), NEW w \in Nat, NEW r, Sound(k, Walk(k, w), r), MayCreate(r)
  PROVE  /\ r.how = "absent" /\ r.par \in Nat /\ r.par # 0 /\ r.par # RootPar
         /\ r.name \in Name /\ r.par \in DirIds(k) \cup {w} /\ k.next \in Nat
<1>1. r.how = "absent" /\ r.par # 0 /\ r.par # RootPar
  BY DEF MayCreate
<1>2. r.par \in Walk(k, w) /\ r.name \in Name
  BY <1>1 DEF Sound
<1>3. r.par \in DirIds(k) \cup {w}
  BY <1>1, <1>2 DEF Walk
<1>4. r.par \in Nat
  BY <1>2, WalkClosed DEF Closed
<1>5. k.next \in Nat
  BY DEF Intact, Volume
<1> QED
  BY <1>1, <1>2, <1>3, <1>4, <1>5

\* hfs_create succeeds, is blocked by a stray path, or is doomed.
LEMMA CreateGoes ==
  ASSUME NEW k, Intact(k), NEW w \in Nat, CwdFits(k, w), NEW r,
         Sound(k, Walk(k, w), r), CreateSteps(k, r) # Refused
  PROVE  Goes(k, CreateSteps(k, r), w, r)
<1> DEFINE e == File(k.next, r.par, r.name)
           t == Adjust(FALSE, r.par, 1)
<1>0. MayCreate(r)
  BY DEF CreateSteps
<1>1. /\ r.how = "absent" /\ r.par \in Nat /\ r.par # 0 /\ r.par # RootPar
      /\ r.name \in Name /\ r.par \in DirIds(k) \cup {w} /\ k.next \in Nat
  BY <1>0, MayCreateMeans
<1>2. CreateSteps(k, r) = <<TakeId, AddEnt(e)>> \o t
  BY <1>0 DEF CreateSteps
<1>3. IsNew(e, k.next, r.par, r.name, FALSE)
  BY <1>1, NewEnt
<1>4. t \in Seq(Task)
  BY <1>1, AdjustTask, TamePart
<1>5. CASE Found(k, r.par, r.name) # {}
  <2>1. e \in Ent /\ e.par = r.par /\ e.name = r.name
    BY <1>3 DEF IsNew
  <2> HIDE DEF e, t
  <2>2. Blocked(k, <<TakeId, AddEnt(e)>> \o t)
    BY <1>4, <1>5, <2>1 DEF Blocked
  <2> QED
    BY <1>1, <1>2, <1>5, <2>2 DEF Goes, StrayIn
<1>6. CASE Found(k, r.par, r.name) = {} /\ r.par \in DirIds(k)
  BY <1>1, <1>2, <1>6, CreateSucceeds DEF Goes
<1>7. CASE r.par = w /\ w \notin DirIds(k)
  <2>1. e \in Ent /\ e.id = k.next /\ e.id # w
    BY <1>1, <1>3 DEF IsNew, CwdFits
  <2> HIDE DEF e
  <2>2. TakeId \in Task /\ AddEnt(e) \in Task
    BY <2>1, TakeIdTask, EntTask
  <2>3. Harmless(TakeId, w) /\ Harmless(AddEnt(e), w)
    BY <2>1 DEF Harmless, TakeId, AddEnt, Ins, InsT, PutT
  <2>4. Meek(<<TakeId>> \o <<AddEnt(e)>>, w)
    BY <2>2, <2>3, MeekOne, MeekCat
  <2>5. <<TakeId>> \o <<AddEnt(e)>> = <<TakeId, AddEnt(e)>>
    BY <2>2, Pair
  <2>6. Threads(k, w) = {}
    BY <1>7, CwdGone
  <2>7. Doomed(k, <<TakeId, AddEnt(e)>> \o Adjust(FALSE, w, 1), w)
    BY <1>1, <1>7, <2>4, <2>5, <2>6, EndsDoomed
  <2> QED
    BY <1>2, <1>7, <2>7 DEF Goes
<1> QED
  BY <1>1, <1>5, <1>6, <1>7

\* So does hfs_mkdir.
LEMMA MkdirGoes ==
  ASSUME NEW k, Intact(k), NEW w \in Nat, CwdFits(k, w), NEW r,
         Sound(k, Walk(k, w), r), MkdirSteps(k, r) # Refused
  PROVE  Goes(k, MkdirSteps(k, r), w, r)
<1> DEFINE e == Dir(k.next, r.par, r.name)
           x == AddThread(Thread(e))
           t == Adjust(TRUE, r.par, 1)
<1>0. MayCreate(r)
  BY DEF MkdirSteps
<1>1. /\ r.how = "absent" /\ r.par \in Nat /\ r.par # 0 /\ r.par # RootPar
      /\ r.name \in Name /\ r.par \in DirIds(k) \cup {w} /\ k.next \in Nat
  BY <1>0, MayCreateMeans
<1>2. MkdirSteps(k, r) = <<TakeId, AddEnt(e), x>> \o t
  BY <1>0 DEF MkdirSteps
<1>3. IsNew(e, k.next, r.par, r.name, TRUE)
  BY <1>1, NewEnt
<1>4. t \in Seq(Task)
  BY <1>1, AdjustTask, TamePart
<1>5. e \in Ent /\ e.par = r.par /\ e.name = r.name /\ e.id = k.next
  BY <1>3 DEF IsNew
<1>6. e = Dir(k.next, r.par, r.name)
  OBVIOUS
<1> HIDE DEF e
<1>7. TakeId \in Task /\ AddEnt(e) \in Task /\ x \in Task
  BY <1>5, TakeIdTask, EntTask, ThreadTask, TamePart
<1>8. <<TakeId, AddEnt(e)>> \o <<x>> = <<TakeId, AddEnt(e), x>>
  BY <1>7, Triple
<1>9. CASE Found(k, r.par, r.name) # {}
  <2> DEFINE a == <<TakeId, AddEnt(e)>>
             b == <<x>>
  <2>1. a \in Seq(Task) /\ b \in Seq(Task)
    BY <1>7
  <2>2. b \o t \in Seq(Task)
    BY <1>4, <2>1, ConcatProperties
  <2> HIDE DEF t, a, b
  <2>3. (a \o b) \o t = a \o (b \o t)
    BY <1>4, <2>1, Regroup
  <2> HIDE DEF x
  <2>4. \A q \in Seq(Task) : Blocked(k, <<TakeId, AddEnt(e)>> \o q)
    BY <1>5, <1>9 DEF Blocked
  <2>5. Blocked(k, a \o (b \o t))
    BY <2>2, <2>4 DEF a
  <2>6. MkdirSteps(k, r) = a \o (b \o t)
    BY <1>2, <1>8, <2>3 DEF a, b
  <2> QED
    BY <1>1, <1>9, <2>5, <2>6 DEF Goes, StrayIn
<1>10. CASE Found(k, r.par, r.name) = {} /\ r.par \in DirIds(k)
  <2>1. Success(k, <<TakeId, AddEnt(e), AddThread(Thread(e))>> \o Adjust(TRUE, r.par, 1), w)
    BY <1>1, <1>6, <1>10, MkdirSucceeds
  <2> QED
    BY <1>2, <2>1 DEF Goes
<1>11. CASE r.par = w /\ w \notin DirIds(k)
  <2>1. e.id # w
    BY <1>1, <1>5 DEF CwdFits
  <2>2. Harmless(TakeId, w) /\ Harmless(AddEnt(e), w)
    BY <2>1 DEF Harmless, TakeId, AddEnt, Ins, InsT, PutT
  <2>3. Harmless(x, w)
    BY <2>1 DEF Harmless, AddThread, Thread, Ins, InsT, PutT
  <2>4. Meek((<<TakeId>> \o <<AddEnt(e)>>) \o <<x>>, w)
    BY <1>7, <2>2, <2>3, MeekOne, MeekCat
  <2>5. <<TakeId>> \o <<AddEnt(e)>> = <<TakeId, AddEnt(e)>>
    BY <1>7, Pair
  <2>6. Threads(k, w) = {}
    BY <1>11, CwdGone
  <2>7. Meek(<<TakeId, AddEnt(e), x>>, w)
    BY <1>8, <2>4, <2>5
  <2> HIDE DEF x
  <2>8. Doomed(k, <<TakeId, AddEnt(e), x>> \o Adjust(TRUE, w, 1), w)
    BY <1>1, <1>11, <2>6, <2>7, EndsDoomed
  <2> QED
    BY <1>2, <1>11, <2>8 DEF Goes
<1> QED
  BY <1>1, <1>9, <1>10, <1>11

\* No directory holds as many objects as its valence can count.
FewChildren(k) == \A e \in k.ent : e.dir => Cardinality(Children(k, e.id)) < ValenceMod

\* A result that is sound for some directories is sound for more.
LEMMA SoundWider ==
  ASSUME NEW k, NEW D, NEW E, D \subseteq E, NEW r, Sound(k, D, r)
  PROVE  Sound(k, E, r)
  BY DEF Sound

\* A valence of 0 means an empty directory, if none is very large.
LEMMA NoChildren ==
  ASSUME NEW k, Intact(k), FewChildren(k), NEW e \in k.ent, e.dir, e.val = 0
  PROVE  Children(k, e.id) = {}
<1> DEFINE C == Children(k, e.id)
           n == Cardinality(C)
<1>1. IsFiniteSet(C)
  BY FS_Subset DEF Intact, Children
<1>2. n \in Nat /\ (n = 0 <=> C = {})
  BY <1>1, FS_CardinalityType, FS_EmptySet
<1>3. e.val = n % ValenceMod
  BY DEF Intact, CountsAgree
<1>4. n < ValenceMod
  BY DEF FewChildren
<1> HIDE DEF n, C
<1>5. n = 0
  <2>1. n % ValenceMod = n
    BY <1>2, <1>4 DEF ValenceMod
  <2> QED
    BY <1>3, <2>1
<1> QED
  BY <1>2, <1>5 DEF C

\* hfs_rmdir succeeds.
LEMMA RmdirGoes ==
  ASSUME NEW k, Intact(k), FewChildren(k), NEW w \in Nat, CwdFits(k, w), NEW r,
         NEW D, Sound(k, D, r), RmdirSteps(r) # Refused
  PROVE  Goes(k, RmdirSteps(r), w, r)
<1> DEFINE e == r.ent
<1>1. r.how = "found" /\ e.dir /\ e.val = 0 /\ r.par # RootPar
  BY DEF RmdirSteps
<1>2. e \in k.ent /\ r.par = e.par
  BY <1>1 DEF Sound
<1>3. RmdirSteps(r) = <<DropEnt(e), DropThread(e.id)>> \o Adjust(TRUE, e.par, -1)
  BY <1>1, <1>2 DEF RmdirSteps
<1> HIDE DEF e
<1>4. Children(k, e.id) = {}
  BY <1>1, <1>2, NoChildren
<1>5. e.dir = TRUE
  BY <1>1, <1>2 DEF Intact, Volume, Ent
<1>6. Success(k, <<DropEnt(e), DropThread(e.id)>> \o Adjust(TRUE, e.par, -1), w)
  BY <1>1, <1>2, <1>4, <1>5, RmdirSucceeds
<1> QED
  BY <1>3, <1>6 DEF Goes

\* hfs_delete succeeds.
LEMMA DeleteGoes ==
  ASSUME NEW k, Intact(k), NEW w \in Nat, CwdFits(k, w), NEW r,
         NEW D, Sound(k, D, r), DeleteSteps(k, r) # Refused
  PROVE  Goes(k, DeleteSteps(k, r), w, r)
<1> DEFINE e == r.ent
           u == IF Threads(k, e.id) = {} THEN << >> ELSE <<DropThread(e.id)>>
<1>1. r.how = "found" /\ ~e.dir
  BY DEF DeleteSteps
<1>2. e \in k.ent /\ r.par = e.par
  BY <1>1 DEF Sound
<1>3. DeleteSteps(k, r) = (<<DropEnt(e)>> \o Adjust(FALSE, e.par, -1)) \o u
  BY <1>1, <1>2 DEF DeleteSteps
<1>4. u = IF Threads(k, e.id) = {} THEN << >> ELSE <<DropThread(e.id)>>
  OBVIOUS
<1> HIDE DEF e, u
<1>5. Success(k, (<<DropEnt(e)>> \o Adjust(FALSE, e.par, -1)) \o u, w)
  BY <1>1, <1>2, <1>4, DeleteSucceeds
<1> QED
  BY <1>3, <1>5 DEF Goes

\* hfs_rename succeeds, is blocked by a stray path, or is doomed.
LEMMA RenameGoes ==
  ASSUME NEW k, Intact(k), NEW w \in Nat, CwdFits(k, w), NEW src, NEW dst,
         Sound(k, Walk(k, w), src), Sound(k, Walk(k, w), dst),
         NEW typed \in Name \cup {NoName}, RenameSteps(k, src, dst, typed) # Refused
  PROVE  Goes(k, RenameSteps(k, src, dst, typed), w, dst)
<1> DEFINE e == Renamed(k, src, dst, typed)
           s == src.ent
           at == Target(k, src, dst)
           name == NewName(k, src, dst, typed)
<1>1. ~RenameRefused(k, src, dst, typed) /\ RenameSteps(k, src, dst, typed) = Moved(k, src, e)
  BY RenameParts DEF Refused
<1>2. k \in Volume /\ Unique(k) /\ Rooted(k) /\ ThreadsAgree(k)
  BY DEF Intact
<1>3. Sound(k, Nat, src) /\ Sound(k, Nat, dst)
  BY WalkClosed, SoundWider DEF Closed
<1>4. /\ s \in k.ent /\ s \in Ent /\ src.par = s.par /\ src.name = s.name
      /\ name \in Name /\ at.par \in Nat
      /\ e \in Ent /\ e.id = s.id /\ e.dir = s.dir /\ e.val = s.val
      /\ e.par = at.par /\ e.name = name
  BY <1>1, <1>2, <1>3, RenamedTyped
<1>5. /\ src.how = "found" /\ dst.how \in {"found", "absent"} /\ dst.par # 0
      /\ at.taken => /\ src.par = at.par /\ Same(src.name, name)
      /\ src.par # at.par => MayMove(k, src, at.par)
      /\ ~at.taken => name = at.name
  BY <1>1 DEF RenameRefused, Sound, NewName
<1>6. \/ /\ dst.how = "found" /\ dst.ent \in k.ent /\ dst.ent.dir
         /\ at.par = dst.ent.id /\ at.name = src.name
         /\ at.taken <=> Found(k, dst.ent.id, src.name) # {}
      \/ /\ dst.how = "found" /\ dst.ent \in k.ent /\ at.par = dst.ent.par /\ at.taken
      \/ /\ dst.how = "absent" /\ at.par = dst.par /\ at.name = dst.name /\ ~at.taken
         /\ dst.par \in Walk(k, w)
  <2>1. dst.how = "found" => dst.ent \in k.ent /\ dst.par = dst.ent.par
    BY DEF Sound
  <2>2. dst.how = "absent" => dst.par \in Walk(k, w)
    BY <1>5 DEF Sound
  <2>3. CASE dst.how = "found" /\ dst.ent.dir /\ dst.ent.id # src.ent.id
    BY <2>1, <2>3 DEF Target
  <2>4. CASE dst.how = "found" /\ ~(dst.ent.dir /\ dst.ent.id # src.ent.id)
    BY <2>1, <2>4 DEF Target
  <2>5. CASE dst.how = "absent"
    BY <2>2, <2>5 DEF Target
  <2> QED
    BY <1>5, <2>3, <2>4, <2>5
<1> HIDE DEF e, s, at, name
<1>7. Found(k, s.par, s.name) = {s}
  BY <1>2, <1>4, FoundIsIt
<1>8. \/ e.par = s.par
      \/ s.id # RootDir /\ e.par # RootPar /\ e.par \in DirIds(k) \cup {w}
  <2> SUFFICES ASSUME e.par # s.par
               PROVE  s.id # RootDir /\ e.par # RootPar /\ e.par \in DirIds(k) \cup {w}
    OBVIOUS
  <2>1. MayMove(k, src, at.par)
    BY <1>4, <1>5
  <2>2. at.par # RootPar /\ (s.dir => s.id # RootDir)
    BY <2>1 DEF MayMove, s
  <2>3. ~s.dir => s.id # RootDir
    BY <1>2, <1>4 DEF Rooted, DirIds, Unique
  <2>4. \A x \in k.ent : x.par \in DirIds(k) \cup {RootPar}
    BY <1>2 DEF Rooted
  <2>5. at.par \in DirIds(k) \cup {RootPar, w}
    BY <1>6, <2>4 DEF DirIds, Walk
  <2> QED
    BY <1>4, <2>2, <2>3, <2>5
<1>9. Found(k, e.par, e.name) \subseteq {s} \/ StrayIn(k, dst)
  <2>1. CASE at.taken
    <3>1. e.par = s.par /\ Same(s.name, e.name)
      BY <1>4, <1>5, <2>1
    <3>2. Found(k, e.par, e.name) = Found(k, s.par, s.name)
      BY <3>1 DEF Found, Same
    <3> QED
      BY <1>7, <3>2
  <2>2. CASE ~at.taken
    <3>1. e.par = at.par /\ e.name = at.name
      BY <1>4, <1>5, <2>2
    <3>2. CASE dst.how = "found"
      BY <1>6, <2>2, <3>1, <3>2
    <3>3. CASE dst.how = "absent"
      BY <1>5, <1>6, <2>2, <3>1, <3>3 DEF StrayIn
    <3> QED
      BY <1>5, <3>2, <3>3
  <2> QED
    BY <2>1, <2>2
<1>10. CASE ~(Found(k, e.par, e.name) \subseteq {s})
  <2>1. PICK f \in Found(k, e.par, e.name) : f # s
    BY <1>10
  <2>2. f \notin Found(k, s.par, s.name)
    BY <1>7, <2>1
  <2> DEFINE t == MovedRest(k, src, e)
  <2>3. Moved(k, src, e) = <<DropEnt(s), AddEnt(e)>> \o t /\ t \in Seq(Task)
    BY <1>4, MovedSplit, TamePart DEF s, Ent
  <2> HIDE DEF t
  <2>4. Blocked(k, <<DropEnt(s), AddEnt(e)>> \o t)
    BY <1>4, <2>1, <2>2, <2>3 DEF Blocked
  <2> QED
    BY <1>1, <1>9, <1>10, <2>3, <2>4 DEF Goes, e
<1>11. CASE Found(k, e.par, e.name) \subseteq {s} /\ (e.par = s.par \/ e.par \in DirIds(k))
  <2>1. e.par = src.par \/ (e.par \in DirIds(k) /\ src.ent.id # RootDir)
    BY <1>4, <1>8, <1>11 DEF s
  <2>2. /\ src.ent \in k.ent /\ src.par = src.ent.par /\ e \in Ent /\ e.id = src.ent.id
        /\ e.dir = src.ent.dir /\ e.val = src.ent.val
        /\ Found(k, e.par, e.name) \subseteq {src.ent}
    BY <1>4, <1>11 DEF s
  <2>3. Success(k, Moved(k, src, e), w)
    BY <2>1, <2>2, RenameSucceeds
  <2> QED
    BY <1>1, <2>3 DEF Goes, e
<1>12. CASE e.par # s.par /\ e.par = w /\ w \notin DirIds(k)
  <2> DEFINE x == DropEnt(s)
             y == AddEnt(e)
             z == PutThread(Thread(e))
             a == <<x, y>>
             b == IF e.dir \/ Threads(k, e.id) # {} THEN <<z>> ELSE << >>
             u == Adjust(e.dir, src.par, -1)
             v == Adjust(e.dir, e.par, 1)
  <2>1. Threads(k, w) = {} /\ e.id # w
    BY <1>4, <1>12, CwdGone
  <2>2. x \in Task /\ y \in Task /\ z \in Task
    BY <1>4, EntTask, ThreadTask, TamePart
  <2>3. Harmless(x, w) /\ Harmless(y, w) /\ Harmless(z, w)
    <3>1. Harmless(x, w)
      BY DEF Harmless, DropEnt, Ins, InsT, PutT
    <3>2. Harmless(y, w)
      BY <2>1 DEF Harmless, AddEnt, Ins, InsT, PutT
    <3>3. Harmless(z, w)
      BY <2>1 DEF Harmless, PutThread, Thread, Ins, InsT, PutT
    <3> QED
      BY <3>1, <3>2, <3>3
  <2> HIDE DEF x, y, z
  <2>4. <<x>> \o <<y>> = a
    BY <2>2, Pair
  <2>5. Meek(a, w)
    BY <2>2, <2>3, <2>4, MeekOne, MeekCat
  <2>6. Meek(b, w)
    BY <2>2, <2>3, MeekOne, MeekNone
  <2>7. Meek(u, w) /\ Meek(v, w)
    BY <1>4, MeekAdjust DEF Ent
  <2>8. Moved(k, src, e) = (a \o b) \o (u \o v)
    BY <1>4, <1>12 DEF Moved, s, x, y, z
  <2>9. v = Adjust(e.dir, w, 1) /\ e.dir \in BOOLEAN /\ w # RootPar
    BY <1>4, <1>8, <1>12 DEF Ent
  <2> HIDE DEF a, b, u, v
  <2>10. a \in Seq(Task) /\ b \in Seq(Task) /\ u \in Seq(Task) /\ v \in Seq(Task)
    BY <2>5, <2>6, <2>7 DEF Meek
  <2>11. (a \o b) \o (u \o v) = ((a \o b) \o u) \o v
    <3> DEFINE f == a \o b
    <3>1. f \in Seq(Task)
      BY <2>10, ConcatProperties
    <3> HIDE DEF f
    <3>2. (f \o u) \o v = f \o (u \o v)
      BY <2>10, <3>1, Regroup
    <3> QED
      BY <3>2 DEF f
  <2>12. Meek((a \o b) \o u, w)
    BY <2>5, <2>6, <2>7, MeekCat
  <2>13. Doomed(k, ((a \o b) \o u) \o v, w)
    BY <1>12, <2>1, <2>9, <2>12, EndsDoomed
  <2> QED
    BY <1>1, <2>8, <2>11, <2>13 DEF Goes, e
<1> QED
  BY <1>8, <1>10, <1>11, <1>12

-----------------------------------------------------------------------------
(* The checks suffice. *)

\* Assumed of the volume: no directory holds 2^16 objects.
Countable == FewChildren(c)

ProgressInv ==
  /\ RecordsInv
  /\ harm = 0 => \/ Success(c, todo, cwd)
                 \/ astray /\ Blocked(c, todo)
                 \/ Doomed(c, todo, cwd)

\* Between calls, if none has failed, the catalog is sound.
LEMMA AtRestIntact ==
  ASSUME ProgressInv, harm = 0, todo = << >>
  PROVE  Intact(c) /\ CwdFits(c, cwd)
<1>1. ~Blocked(c, todo) /\ ~Doomed(c, todo, cwd)
  BY BlockedSome DEF Doomed
<1>2. Success(c, << >>, cwd) /\ c \in Volume
  BY <1>1 DEF ProgressInv, RecordsInv
<1> QED
  BY <1>2, SuccessEnd

\* The invariant holds of every volume that may be mounted.
LEMMA ProgressInit == Init => ProgressInv
<1> SUFFICES ASSUME Init PROVE ProgressInv
  OBVIOUS
<1>1. RecordsInv
  BY RecordsInit
<1>2. Intact(c) /\ c \in Volume /\ cwd = RootDir /\ todo = << >>
  BY CatalogAssumption DEF Init, Intact
<1>3. PICK e \in c.ent : e.dir /\ e.id = RootDir
  BY <1>2 DEF Intact, Rooted, DirIds
<1>4. CwdFits(c, cwd)
  BY <1>2, <1>3 DEF CwdFits, Intact, Unique
<1>5. Success(c, << >>, cwd)
  BY <1>2, <1>4, SuccessEnd
<1> QED
  BY <1>1, <1>2, <1>5 DEF ProgressInv

\* A call that begins leaves it true if the call goes as it should.
LEMMA ProgressBegin ==
  ASSUME ProgressInv, NEW steps, NEW r, Begin(steps, r), RecordsInv',
         harm = 0 => Goes(c, steps, cwd, r)
  PROVE  ProgressInv'
<1>1. todo' = steps /\ astray' = Stray(r) /\ c' = c /\ cwd' = cwd /\ harm' = harm
  BY DEF Begin
<1>2. Stray(r) <=> StrayIn(c, r)
  BY DEF Stray, StrayIn
<1>3. ASSUME harm' = 0
      PROVE  \/ Success(c', todo', cwd')
             \/ astray' /\ Blocked(c', todo')
             \/ Doomed(c', todo', cwd')
  <2>1. Goes(c, steps, cwd, r)
    BY <1>1, <1>3
  <2>2. \/ Success(c, steps, cwd)
        \/ Stray(r) /\ Blocked(c, steps)
        \/ Doomed(c, steps, cwd)
    BY <1>2, <2>1 DEF Goes
  <2> QED
    BY <1>1, <2>2
<1> QED
  BY <1>3 DEF ProgressInv

\* Between calls a path leads where the directories are.
LEMMA LookWalks ==
  ASSUME ProgressInv, harm = 0, todo = << >>, NEW p \in Paths
  PROVE  Sound(c, Walk(c, cwd), Look(p)) /\ Typed(p) \in Name \cup {NoName}
<1>1. p.abs \in BOOLEAN /\ p.steps \in Seq(Name \cup {Up})
  BY CatalogAssumption
<1>2. c \in Volume /\ cwd \in Nat
  BY DEF ProgressInv, RecordsInv
<1>3. Closed(c, Walk(c, cwd), cwd)
  BY <1>2, AtRestIntact, WalkClosed
<1> QED
  BY <1>1, <1>2, <1>3, ResolveSound, TypedName DEF Look

\* A change of the working directory leaves it true.
LEMMA ProgressCwd ==
  ASSUME ProgressInv, RecordsInv', UNCHANGED <<c, todo, harm, astray>>, todo = << >>,
         harm = 0 => \E e \in c.ent : e.dir /\ e.id = cwd'
  PROVE  ProgressInv'
<1>1. ASSUME harm = 0 PROVE Success(c, << >>, cwd')
  <2>1. Intact(c) /\ c \in Volume
    BY <1>1, AtRestIntact DEF Intact
  <2>2. PICK e \in c.ent : e.dir /\ e.id = cwd'
    BY <1>1
  <2> DEFINE w == cwd'
  <2> HIDE DEF w
  <2>3. e.id = w
    BY <2>2 DEF w
  <2>4. CwdFits(c, w)
    BY <2>1, <2>2, <2>3 DEF CwdFits, Intact, Unique
  <2>5. Success(c, << >>, w)
    BY <2>1, <2>4, SuccessEnd
  <2> QED
    BY <2>5 DEF w
<1> QED
  BY <1>1 DEF ProgressInv

\* No step breaks it.
LEMMA ProgressNext ==
  ASSUME ProgressInv, Countable, [Next]_vars
  PROVE  ProgressInv'
<1>0. RecordsInv' /\ RecordsInv
  BY RecordsNext DEF ProgressInv
<1>c. c \in Volume /\ cwd \in Nat /\ harm \in Nat /\ todo \in Seq(Task)
  BY <1>0, PendingTyped DEF RecordsInv
<1>d. ASSUME harm = 0, todo = << >> PROVE Intact(c) /\ CwdFits(c, cwd) /\ FewChildren(c)
  BY <1>d, AtRestIntact DEF Countable
<1>1. ASSUME NEW p \in Paths, Call(Look(p)), todo = << >> PROVE ProgressInv'
  <2> DEFINE r == Look(p)
  <2>0. harm = 0 => Sound(c, Walk(c, cwd), r)
    BY <1>1, LookWalks
  <2>s. Sound(c, Nat, r)
    BY <1>0, LookSound
  <2> HIDE DEF r
  <2>1. CASE Create(r)
    <3>1. Begin(CreateSteps(c, r), r) /\ CreateSteps(c, r) # Refused
      BY <2>1 DEF Create, Begin
    <3>2. harm = 0 => Goes(c, CreateSteps(c, r), cwd, r)
      BY <1>1, <1>c, <1>d, <2>0, <3>1, CreateGoes
    <3> QED
      BY <1>0, <3>1, <3>2, ProgressBegin
  <2>2. CASE Mkdir(r)
    <3>1. Begin(MkdirSteps(c, r), r) /\ MkdirSteps(c, r) # Refused
      BY <2>2 DEF Mkdir, Begin
    <3>2. harm = 0 => Goes(c, MkdirSteps(c, r), cwd, r)
      BY <1>1, <1>c, <1>d, <2>0, <3>1, MkdirGoes
    <3> QED
      BY <1>0, <3>1, <3>2, ProgressBegin
  <2>3. CASE Rmdir(r)
    <3>1. Begin(RmdirSteps(r), r) /\ RmdirSteps(r) # Refused
      BY <2>3 DEF Rmdir, Begin
    <3>2. harm = 0 => Goes(c, RmdirSteps(r), cwd, r)
      BY <1>1, <1>c, <1>d, <2>0, <3>1, RmdirGoes
    <3> QED
      BY <1>0, <3>1, <3>2, ProgressBegin
  <2>4. CASE Delete(r)
    <3>1. Begin(DeleteSteps(c, r), r) /\ DeleteSteps(c, r) # Refused
      BY <2>4 DEF Delete, Begin
    <3>2. harm = 0 => Goes(c, DeleteSteps(c, r), cwd, r)
      BY <1>1, <1>c, <1>d, <2>0, <3>1, DeleteGoes
    <3> QED
      BY <1>0, <3>1, <3>2, ProgressBegin
  <2>5. CASE Chdir(r)
    <3>1. /\ cwd' = r.ent.id /\ r.ent \in c.ent /\ r.ent.dir
          /\ UNCHANGED <<c, todo, harm, astray>>
      BY <2>5, <2>s DEF Chdir, Sound
    <3> QED
      BY <1>0, <1>1, <3>1, ProgressCwd
  <2> QED
    BY <1>1, <2>1, <2>2, <2>3, <2>4, <2>5 DEF Call, r
<1>2. ASSUME NEW p \in Paths, NEW q \in Paths, Rename(Look(p), Look(q), Typed(q)),
             todo = << >>
      PROVE  ProgressInv'
  <2> DEFINE a == Look(p)
             b == Look(q)
             t == Typed(q)
  <2>1. harm = 0 => /\ Sound(c, Walk(c, cwd), a) /\ Sound(c, Walk(c, cwd), b)
                    /\ t \in Name \cup {NoName}
    BY <1>2, LookWalks
  <2>2. Begin(RenameSteps(c, a, b, t), b)
    BY <1>2 DEF Rename
  <2> HIDE DEF a, b, t
  <2>3. RenameSteps(c, a, b, t) # Refused
    BY <2>2 DEF Begin
  <2>4. harm = 0 => Goes(c, RenameSteps(c, a, b, t), cwd, b)
    BY <1>2, <1>c, <1>d, <2>1, <2>3, RenameGoes
  <2> QED
    BY <1>0, <2>2, <2>4, ProgressBegin
<1>3. ASSUME NEW id \in RootDir..MaxId, SetCwd(id) PROVE ProgressInv'
  <2>1. /\ cwd' = id /\ todo = << >> /\ UNCHANGED <<c, todo, harm, astray>>
        /\ \E t \in Threads(c, id) : t.dir
    BY <1>3 DEF SetCwd
  <2>2. ASSUME harm = 0 PROVE \E e \in c.ent : e.dir /\ e.id = id
    <3>1. PICK t \in c.thr : t.dir /\ t.id = id
      BY <2>1 DEF Threads
    <3>2. PICK e \in c.ent : t = Thread(e)
      BY <1>d, <2>1, <2>2 DEF Intact, ThreadsAgree
    <3> QED
      BY <3>1, <3>2 DEF Thread
  <2> QED
    BY <1>0, <2>1, <2>2, ProgressCwd
<1>4. CASE Step
  <2>0. todo # << >> /\ UNCHANGED <<cwd, astray>>
    BY <1>4 DEF Step
  <2>1. CASE Ready(c, Head(todo))
    <3>1. c' = Apply(c, Head(todo)) /\ todo' = Tail(todo) /\ harm' = harm
      BY <1>4, <2>1 DEF Step
    <3> DEFINE l == Apply(c, Head(todo))
               t == Tail(todo)
    <3>2. Success(c, todo, cwd) => Success(l, t, cwd)
      BY <1>c, <2>0, SuccessStep
    <3>3. Blocked(c, todo) => Blocked(l, t)
      BY <1>c, <2>1, BlockedStep
    <3>4. Doomed(c, todo, cwd) => Doomed(l, t, cwd)
      BY <1>c, <2>1, DoomedStep
    <3>5. c' = l /\ todo' = t
      BY <3>1
    <3> HIDE DEF l, t
    <3>6. Success(c, todo, cwd) => Success(c', todo', cwd')
      BY <2>0, <3>2, <3>5
    <3>7. Blocked(c, todo) => Blocked(c', todo')
      BY <3>3, <3>5
    <3>8. Doomed(c, todo, cwd) => Doomed(c', todo', cwd')
      BY <2>0, <3>4, <3>5
    <3> QED
      BY <1>0, <2>0, <3>1, <3>6, <3>7, <3>8 DEF ProgressInv
  <2>2. CASE ~ Ready(c, Head(todo))
    <3>1. harm' = harm + 1
      BY <1>4, <2>2 DEF Step, Fail
    <3> QED
      BY <1>0, <1>c, <3>1 DEF ProgressInv
  <2> QED
    BY <2>1, <2>2
<1>5. CASE Fault
  <2>1. harm' = harm + 1
    BY <1>5 DEF Fault, Fail
  <2> QED
    BY <1>0, <1>c, <2>1 DEF ProgressInv
<1>6. CASE UNCHANGED vars
  <2>1. UNCHANGED <<c, cwd, todo, harm, astray>>
    BY <1>6 DEF vars
  <2> QED
    BY <1>0, <2>1 DEF ProgressInv
<1> QED
  BY <1>1, <1>2, <1>3, <1>4, <1>5, <1>6 DEF Next, NewCall

\* The invariant gives the properties.
LEMMA ProgressGives ==
  ASSUME ProgressInv
  PROVE  ThreadsExact /\ CountsExact /\ ChecksSuffice
<1>1. AtRest => Intact(c)
  BY AtRestIntact DEF AtRest
<1>2. ThreadsExact /\ CountsExact
  BY <1>1 DEF ThreadsExact, CountsExact, Intact
<1>3. ASSUME harm = 0, todo # << >>, cwd \in DirIds(c), ~astray
      PROVE  Ready(c, Head(todo))
  <2>1. Success(c, todo, cwd)
    BY <1>3 DEF ProgressInv, Doomed
  <2>2. todo \in Seq(Task)
    BY PendingTyped DEF ProgressInv, RecordsInv
  <2> QED
    BY <1>3, <2>1, <2>2, SuccessStep
<1> QED
  BY <1>2, <1>3 DEF ChecksSuffice

\* The invariant holds as long as no directory has 2^16 objects.
LEMMA ProgressStays == Spec /\ []Countable => []ProgressInv
<1>1. Init => ProgressInv
  BY ProgressInit
<1>2. ProgressInv /\ Countable /\ [Next]_vars => ProgressInv'
  BY ProgressNext
<1> QED
  BY <1>1, <1>2, PTL DEF Spec

\* Between calls, if none has failed, the threads say exactly where the
\* directories are and where a file that has one is.  (The valence that
\* hfs_rmdir trusts has 16 bits: with 2^16 objects in a directory it is 0.)
THEOREM ThreadsStayExact == Spec /\ []Countable => []ThreadsExact
<1>1. Spec /\ []Countable => []ProgressInv
  BY ProgressStays
<1>2. ProgressInv => ThreadsExact
  BY ProgressGives
<1> QED
  BY <1>1, <1>2, PTL

\* Once a call has made its checks no step finds a record missing or in its
\* way, as long as no call has failed, the working directory exists and the
\* path does not go astray.
THEOREM ChecksAreEnough == Spec /\ []Countable => []ChecksSuffice
<1>1. Spec /\ []Countable => []ProgressInv
  BY ProgressStays
<1>2. ProgressInv => ChecksSuffice
  BY ProgressGives
<1> QED
  BY <1>1, <1>2, PTL

-----------------------------------------------------------------------------
(* How far the counts of the MDB are from the records. *)

\* What a step adds to a count of the MDB, less what it adds to the records.
Eff(s, b) ==
  IF s \in Cnt THEN IF s.dir = b THEN s.adj ELSE 0
  ELSE IF s \in Ins THEN IF s.ent.dir = b THEN -1 ELSE 0
  ELSE IF s \in Rem THEN IF s.ent.dir = b THEN 1 ELSE 0
  ELSE 0

\* g says of every part that is left of p what it will add; never more than
\* one at a time.
Tells(g, p, b, x, y) ==
  /\ g \in [0..Len(p) -> -1..1] /\ g[0] = x /\ g[Len(p)] = y
  /\ \A i \in 1..Len(p) : g[i - 1] = g[i] + Eff(p[i], b)

Adds(p, b, x, y) == \E g : Tells(g, p, b, x, y)

\* Nothing adds nothing.
LEMMA AddsNone ==
  ASSUME NEW b, NEW x \in -1..1, NEW y
  PROVE  Adds(<< >>, b, x, y) <=> x = y
<1>1. ASSUME Adds(<< >>, b, x, y) PROVE x = y
  BY <1>1 DEF Adds, Tells
<1>2. Adds(<< >>, b, x, x)
  <2> DEFINE g == [i \in 0..0 |-> x]
  <2>1. g \in [0..0 -> -1..1] /\ g[0] = x /\ Len(<< >>) = 0 /\ 1..0 = {}
    OBVIOUS
  <2>2. Tells(g, << >>, b, x, x)
    <3> HIDE DEF g
    <3> QED
      BY <2>1 DEF Tells
  <2> QED
    BY <2>2 DEF Adds
<1> QED
  BY <1>1, <1>2

\* One step adds its effect.
LEMMA AddsOne ==
  ASSUME NEW s, NEW b, NEW x \in -1..1, NEW y \in -1..1, x = y + Eff(s, b)
  PROVE  Adds(<<s>>, b, x, y)
<1> DEFINE g == [i \in 0..1 |-> IF i = 0 THEN x ELSE y]
<1>1. g \in [0..1 -> -1..1] /\ g[0] = x /\ g[1] = y
  OBVIOUS
<1>2. Len(<<s>>) = 1 /\ <<s>>[1] = s /\ 1..1 = {1} /\ 1 - 1 = 0
  OBVIOUS
<1> HIDE DEF g
<1>3. \A i \in 1..Len(<<s>>) : g[i - 1] = g[i] + Eff(<<s>>[i], b)
  <2> SUFFICES ASSUME NEW i \in 1..Len(<<s>>)
               PROVE  g[i - 1] = g[i] + Eff(<<s>>[i], b)
    OBVIOUS
  <2>1. i = 1 /\ i - 1 = 0
    BY <1>2
  <2> QED
    BY <1>1, <1>2, <2>1
<1>4. Tells(g, <<s>>, b, x, y)
  BY <1>1, <1>2, <1>3 DEF Tells
<1> QED
  BY <1>4 DEF Adds

\* What one part and another add.
LEMMA AddsCat ==
  ASSUME NEW bb, NEW x, NEW y, NEW z, NEW p \in Seq(Task), NEW q \in Seq(Task),
         Adds(p, bb, x, y), Adds(q, bb, y, z)
  PROVE  Adds(p \o q, bb, x, z)
<1>1. PICK f : Tells(f, p, bb, x, y)
  BY DEF Adds
<1>2. PICK g : Tells(g, q, bb, y, z)
  BY DEF Adds
<1> DEFINE a == Len(p)
           b == Len(q)
           I == -1..1
           h == [i \in 0..a + b |-> IF i <= a THEN f[i] ELSE g[i - a]]
<1>3. /\ a \in Nat /\ b \in Nat /\ Len(p \o q) = a + b
      /\ \A i \in 1..a + b : (p \o q)[i] = IF i <= a THEN p[i] ELSE q[i - a]
  BY ConcatProperties, LenProperties
<1>4. /\ f \in [0..a -> I] /\ f[0] = x /\ f[a] = y
      /\ \A i \in 1..a : f[i - 1] = f[i] + Eff(p[i], bb)
  BY <1>1 DEF Tells
<1>5. /\ g \in [0..b -> I] /\ g[0] = y /\ g[b] = z
      /\ \A i \in 1..b : g[i - 1] = g[i] + Eff(q[i], bb)
  BY <1>2 DEF Tells
<1> HIDE DEF a, b, I
<1>6. h \in [0..a + b -> I]
  <2> SUFFICES ASSUME NEW i \in 0..a + b
               PROVE  (IF i <= a THEN f[i] ELSE g[i - a]) \in I
    OBVIOUS
  <2>1. CASE i <= a
    <3>1. i \in 0..a
      BY <1>3, <2>1
    <3> QED
      BY <1>4, <2>1, <3>1
  <2>2. CASE ~ (i <= a)
    <3>1. i - a \in 0..b
      BY <1>3, <2>2
    <3> QED
      BY <1>5, <2>2, <3>1
  <2> QED
    BY <2>1, <2>2
<1>7. \A i \in 0..a : h[i] = f[i]
  BY <1>3
<1>8. \A i \in 0..b : h[a + i] = g[i]
  <2> SUFFICES ASSUME NEW i \in 0..b PROVE h[a + i] = g[i]
    OBVIOUS
  <2>1. a + i \in 0..a + b /\ (a + i) - a = i /\ (a + i <= a <=> i = 0) /\ a + 0 = a
    BY <1>3
  <2>2. CASE i = 0
    <3>1. h[a] = f[a]
      BY <1>3, <1>7
    <3> QED
      BY <1>4, <1>5, <2>1, <2>2, <3>1
  <2>3. CASE i # 0
    BY <2>1, <2>3
  <2> QED
    BY <2>2, <2>3
<1> HIDE DEF h
<1>9. h[0] = x /\ h[a + b] = z
  BY <1>3, <1>4, <1>5, <1>7, <1>8
<1>10. ASSUME NEW i \in 1..a + b
       PROVE  h[i - 1] = h[i] + Eff((p \o q)[i], bb)
  <2>1. CASE i <= a
    <3>1. i \in 1..a /\ i \in 0..a /\ i - 1 \in 0..a
      BY <1>3, <2>1
    <3>2. (p \o q)[i] = p[i] /\ h[i] = f[i] /\ h[i - 1] = f[i - 1]
      BY <1>3, <1>7, <2>1, <3>1
    <3> QED
      BY <1>4, <3>1, <3>2
  <2>2. CASE ~ (i <= a)
    <3> DEFINE j == i - a
    <3>1. j \in 1..b /\ j \in 0..b /\ j - 1 \in 0..b /\ i = a + j /\ i - 1 = a + (j - 1)
      BY <1>3, <2>2
    <3> HIDE DEF j
    <3>2. (p \o q)[i] = q[j]
      BY <1>3, <2>2 DEF j
    <3>3. h[i] = g[j] /\ h[i - 1] = g[j - 1]
      BY <1>8, <3>1
    <3> QED
      BY <1>5, <3>1, <3>2, <3>3
  <2> QED
    BY <2>1, <2>2
<1>11. Tells(h, p \o q, bb, x, z)
  BY <1>3, <1>6, <1>9, <1>10 DEF Tells, I
<1> QED
  BY <1>11 DEF Adds

\* What is left after the first step.
LEMMA AddsStep ==
  ASSUME NEW b, NEW x, NEW y, NEW p \in Seq(Task), p # << >>, Adds(p, b, x, y)
  PROVE  \E z \in -1..1 : /\ x \in -1..1 /\ x = z + Eff(Head(p), b)
                          /\ Adds(Tail(p), b, z, y)
<1>1. PICK f : Tells(f, p, b, x, y)
  BY DEF Adds
<1> DEFINE n == Len(p)
           I == -1..1
           g == [i \in 0..n - 1 |-> f[i + 1]]
<1>2. /\ n \in Nat /\ n >= 1 /\ Head(p) = p[1] /\ Tail(p) \in Seq(Task)
      /\ Len(Tail(p)) = n - 1 /\ \A i \in 1..n - 1 : Tail(p)[i] = p[i + 1]
  BY HeadTailProperties, EmptySeq
<1>3. /\ f \in [0..n -> I] /\ f[0] = x /\ f[n] = y
      /\ \A i \in 1..n : f[i - 1] = f[i] + Eff(p[i], b)
  BY <1>1 DEF Tells
<1> HIDE DEF n, I
<1>4. x = f[1] + Eff(Head(p), b) /\ f[1] \in I /\ x \in I
  <2>1. 1 \in 1..n /\ 1 - 1 = 0 /\ 1 \in 0..n /\ 0 \in 0..n
    BY <1>2
  <2> QED
    BY <1>2, <1>3, <2>1
<1>5. g \in [0..n - 1 -> I]
  <2>1. \A i \in 0..n - 1 : i + 1 \in 0..n
    BY <1>2
  <2> QED
    BY <1>3, <2>1
<1>6. \A i \in 0..n - 1 : g[i] = f[i + 1]
  OBVIOUS
<1> HIDE DEF g
<1>7. g[0] = f[1] /\ g[n - 1] = y
  <2>1. 0 \in 0..n - 1 /\ n - 1 \in 0..n - 1 /\ 0 + 1 = 1 /\ (n - 1) + 1 = n
    BY <1>2
  <2> QED
    BY <1>3, <1>6, <2>1
<1>8. ASSUME NEW i \in 1..n - 1
      PROVE  g[i - 1] = g[i] + Eff(Tail(p)[i], b)
  <2>1. i \in 0..n - 1 /\ i - 1 \in 0..n - 1 /\ i + 1 \in 1..n
        /\ (i - 1) + 1 = i /\ (i + 1) - 1 = i
    BY <1>2
  <2>2. g[i] = f[i + 1] /\ g[i - 1] = f[i] /\ Tail(p)[i] = p[i + 1]
    BY <1>2, <1>6, <2>1
  <2> QED
    BY <1>3, <2>1, <2>2
<1>9. Tells(g, Tail(p), b, f[1], y)
  BY <1>2, <1>5, <1>7, <1>8 DEF Tells, I
<1> QED
  BY <1>4, <1>9 DEF Adds, I

-----------------------------------------------------------------------------
\* The parts of the calls, and what they add.
W(dir, b, a) == IF dir = b THEN a ELSE 0

\* Taking a number adds nothing.
LEMMA EffId ==
  ASSUME NEW b
  PROVE  Eff(TakeId, b) = 0
  BY DEF Eff, TakeId, Cnt, Ins, Rem

\* A record that comes puts the count one behind, one that goes one ahead.
LEMMA EffEnt ==
  ASSUME NEW b, NEW e \in Ent
  PROVE  Eff(AddEnt(e), b) = W(e.dir, b, -1) /\ Eff(DropEnt(e), b) = W(e.dir, b, 1)
<1>1. AddEnt(e) \in Ins /\ AddEnt(e) \notin Cnt /\ AddEnt(e).ent = e
  BY DEF AddEnt, Ins, Cnt
<1>2. DropEnt(e) \in Rem /\ DropEnt(e) \notin Cnt /\ DropEnt(e) \notin Ins
      /\ DropEnt(e).ent = e
  BY DEF DropEnt, Ins, Cnt, Rem
<1> QED
  BY <1>1, <1>2 DEF Eff, W

\* Neither do threads and valences.
LEMMA EffRest ==
  ASSUME NEW b, NEW s \in InsT \cup RemT \cup PutT \cup Val
  PROVE  Eff(s, b) = 0
<1>1. s \notin Cnt /\ s \notin Ins /\ s \notin Rem
  BY DEF InsT, RemT, PutT, Val, Cnt, Ins, Rem
<1> QED
  BY <1>1 DEF Eff

\* Counting an object adds what it says.
LEMMA EffCount ==
  ASSUME NEW b, NEW s \in Cnt
  PROVE  Eff(s, b) = W(s.dir, b, s.adj)
  BY DEF Eff, W

\* v_adjvalence adds to one count.
LEMMA AddsAdjust ==
  ASSUME NEW b, NEW dir \in BOOLEAN, NEW par \in Nat, NEW adj \in {-1, 1},
         NEW x \in -1..1, NEW y \in -1..1, x = y + W(dir, b, adj)
  PROVE  Adds(Adjust(dir, par, adj), b, x, y)
<1> DEFINE s == Count(dir, par, adj)
           t == Valence(par, adj)
<1>1. s \in Cnt /\ s.dir = dir /\ s.adj = adj
  BY DEF Count, Cnt
<1>2. t \in Val
  BY DEF Valence, Val
<1>3. s \in Task /\ t \in Task
  BY AdjustTask, TamePart
<1>4. Adjust(dir, par, adj) = <<s>> \o (IF par = RootPar THEN << >> ELSE <<t>>)
  BY DEF Adjust
<1> HIDE DEF s, t
<1>5. Eff(s, b) = W(dir, b, adj) /\ Eff(t, b) = 0
  BY <1>1, <1>2, EffCount, EffRest
<1>6. Adds(<<s>>, b, x, y)
  BY <1>5, AddsOne
<1>7. y + 0 = y
  OBVIOUS
<1>8. Adds(<<t>>, b, y, y)
  BY <1>5, <1>7, AddsOne
<1>9. Adds(<< >>, b, y, y)
  BY AddsNone
<1>10. <<s>> \in Seq(Task) /\ <<t>> \in Seq(Task) /\ << >> \in Seq(Task)
  BY <1>3
<1> QED
  BY <1>4, <1>6, <1>8, <1>9, <1>10, AddsCat

\* Two steps.
LEMMA AddsPair ==
  ASSUME NEW s \in Task, NEW t \in Task, NEW b, NEW x \in -1..1, NEW y \in -1..1,
         NEW z \in -1..1, x = y + Eff(s, b), y = z + Eff(t, b)
  PROVE  Adds(<<s, t>>, b, x, z)
<1>1. Adds(<<s>>, b, x, y) /\ Adds(<<t>>, b, y, z)
  BY AddsOne
<1>2. <<s>> \in Seq(Task) /\ <<t>> \in Seq(Task)
  OBVIOUS
<1>3. <<s>> \o <<t>> = <<s, t>>
  BY Pair
<1> QED
  BY <1>1, <1>2, <1>3, AddsCat

\* Arithmetic of what an object weighs in a count.
LEMMA WValues ==
  ASSUME NEW dir, NEW b
  PROVE  /\ W(dir, b, 1) \in -1..1 /\ W(dir, b, -1) \in -1..1 /\ 0 \in -1..1 /\ 0 = 0 + 0
         /\ W(dir, b, 1) = W(dir, b, 1) + 0 /\ W(dir, b, -1) = W(dir, b, -1) + 0
         /\ 0 = W(dir, b, 1) + W(dir, b, -1) /\ 0 = W(dir, b, -1) + W(dir, b, 1)
         /\ W(dir, b, 1) = 0 + W(dir, b, 1) /\ W(dir, b, -1) = 0 + W(dir, b, -1)
  BY DEF W

\* hfs_create leaves the counts as right as they were.
LEMMA CreateAdds ==
  ASSUME NEW k \in Volume, NEW r, Sound(k, Nat, r), CreateSteps(k, r) # Refused, NEW b
  PROVE  Adds(CreateSteps(k, r), b, 0, 0)
<1> DEFINE e == File(k.next, r.par, r.name)
           u == W(FALSE, b, 1)
<1>1. MayCreate(r)
  BY DEF CreateSteps
<1>2. r.par \in Nat /\ r.name \in Name /\ k.next \in Nat
  BY <1>1 DEF MayCreate, Sound, Volume
<1>3. e \in Ent /\ (e.dir <=> FALSE)
  BY <1>2, NewEnt DEF IsNew
<1>4. CreateSteps(k, r) = <<TakeId, AddEnt(e)>> \o Adjust(FALSE, r.par, 1)
  BY <1>1 DEF CreateSteps
<1> HIDE DEF e
<1>5. e.dir = FALSE
  BY <1>3 DEF Ent
<1>6. Eff(TakeId, b) = 0 /\ Eff(AddEnt(e), b) = W(FALSE, b, -1)
  BY <1>3, <1>5, EffId, EffEnt
<1>7. TakeId \in Task /\ AddEnt(e) \in Task /\ Adjust(FALSE, r.par, 1) \in Seq(Task)
  BY <1>2, <1>3, TakeIdTask, EntTask, AdjustTask, TamePart
<1>8. u \in -1..1 /\ 0 \in -1..1 /\ 0 = 0 + 0 /\ 0 = u + W(FALSE, b, -1) /\ u = 0 + u
  BY WValues
<1>9. u = W(FALSE, b, 1)
  OBVIOUS
<1> HIDE DEF u
<1>10. Adds(<<TakeId, AddEnt(e)>>, b, 0, u)
  BY <1>6, <1>7, <1>8, AddsPair
<1>11. Adds(Adjust(FALSE, r.par, 1), b, u, 0)
  BY <1>2, <1>8, <1>9, AddsAdjust
<1>12. <<TakeId, AddEnt(e)>> \in Seq(Task)
  BY <1>7
<1> QED
  BY <1>4, <1>7, <1>10, <1>11, <1>12, AddsCat

\* So does hfs_mkdir.
LEMMA MkdirAdds ==
  ASSUME NEW k \in Volume, NEW r, Sound(k, Nat, r), MkdirSteps(k, r) # Refused, NEW b
  PROVE  Adds(MkdirSteps(k, r), b, 0, 0)
<1> DEFINE e == Dir(k.next, r.par, r.name)
           x == AddThread(Thread(e))
           u == W(TRUE, b, 1)
<1>1. MayCreate(r)
  BY DEF MkdirSteps
<1>2. r.par \in Nat /\ r.name \in Name /\ k.next \in Nat
  BY <1>1 DEF MayCreate, Sound, Volume
<1>3. e \in Ent /\ (e.dir <=> TRUE)
  BY <1>2, NewEnt DEF IsNew
<1>4. MkdirSteps(k, r) = <<TakeId, AddEnt(e), x>> \o Adjust(TRUE, r.par, 1)
  BY <1>1 DEF MkdirSteps
<1> HIDE DEF e
<1>5. e.dir = TRUE
  BY <1>3 DEF Ent
<1>6. Eff(TakeId, b) = 0 /\ Eff(AddEnt(e), b) = W(TRUE, b, -1)
  BY <1>3, <1>5, EffId, EffEnt
<1>7. TakeId \in Task /\ AddEnt(e) \in Task /\ Adjust(TRUE, r.par, 1) \in Seq(Task) /\ x \in Task
  BY <1>2, <1>3, TakeIdTask, EntTask, AdjustTask, ThreadTask, TamePart
<1>8. u \in -1..1 /\ 0 \in -1..1 /\ 0 = 0 + 0 /\ 0 = u + W(TRUE, b, -1) /\ u = 0 + u /\ u = u + 0
  BY WValues
<1>9. u = W(TRUE, b, 1)
  OBVIOUS
<1>x. Eff(x, b) = 0
  <2>1. x \in InsT
    BY <1>3, ThreadTask DEF AddThread, InsT
  <2> QED
    BY <2>1, EffRest
<1> HIDE DEF u, x
<1>10. Adds(<<TakeId, AddEnt(e)>>, b, 0, u)
  BY <1>6, <1>7, <1>8, AddsPair
<1>11. Adds(Adjust(TRUE, r.par, 1), b, u, 0)
  BY <1>2, <1>8, <1>9, AddsAdjust
<1>12. <<TakeId, AddEnt(e)>> \in Seq(Task) /\ <<x>> \in Seq(Task)
  BY <1>7
<1>13. Adds(<<x>>, b, u, u)
  BY <1>8, <1>x, AddsOne
<1>14. <<TakeId, AddEnt(e)>> \o <<x>> = <<TakeId, AddEnt(e), x>>
  BY <1>7, Triple
<1>15. Adds(<<TakeId, AddEnt(e), x>>, b, 0, u)
  BY <1>10, <1>12, <1>13, <1>14, AddsCat
<1>16. <<TakeId, AddEnt(e), x>> \in Seq(Task)
  BY <1>7
<1> QED
  BY <1>4, <1>7, <1>11, <1>15, <1>16, AddsCat

\* So does hfs_rmdir.
LEMMA RmdirAdds ==
  ASSUME NEW k \in Volume, NEW r, Sound(k, Nat, r), RmdirSteps(r) # Refused, NEW b
  PROVE  Adds(RmdirSteps(r), b, 0, 0)
<1> DEFINE e == r.ent
           x == DropThread(e.id)
           v == W(TRUE, b, -1)
<1>1. r.how = "found" /\ e.dir
  BY DEF RmdirSteps
<1>2. e \in Ent /\ r.par \in Nat /\ RmdirSteps(r) = <<DropEnt(e), x>> \o Adjust(TRUE, r.par, -1)
  BY <1>1 DEF Sound, Volume, Ent, RmdirSteps
<1>x. Eff(x, b) = 0
  <2>1. x \in RemT
    BY <1>2 DEF DropThread, RemT, Ent
  <2> QED
    BY <2>1, EffRest
<1>3. e.dir = TRUE
  BY <1>1, <1>2 DEF Ent
<1>4. v \in -1..1 /\ 0 \in -1..1 /\ 0 = v + W(TRUE, b, 1) /\ v = v + 0 /\ v = 0 + v
  BY WValues
<1>5. v = W(TRUE, b, -1)
  OBVIOUS
<1> HIDE DEF e
<1>6. DropEnt(e) \in Task /\ x \in Task /\ Adjust(TRUE, r.par, -1) \in Seq(Task)
  BY <1>2, EntTask, AdjustTask, ThreadTask, TamePart
<1>7. Eff(DropEnt(e), b) = W(TRUE, b, 1)
  BY <1>2, <1>3, EffEnt
<1> HIDE DEF x, v
<1>8. Adds(<<DropEnt(e), x>>, b, 0, v)
  BY <1>4, <1>6, <1>7, <1>x, AddsPair
<1>9. Adds(Adjust(TRUE, r.par, -1), b, v, 0)
  BY <1>2, <1>4, <1>5, AddsAdjust
<1>10. <<DropEnt(e), x>> \in Seq(Task)
  BY <1>6
<1> QED
  BY <1>2, <1>6, <1>8, <1>9, <1>10, AddsCat

\* So does hfs_delete.
LEMMA DeleteAdds ==
  ASSUME NEW k \in Volume, NEW r, Sound(k, Nat, r), DeleteSteps(k, r) # Refused, NEW b
  PROVE  Adds(DeleteSteps(k, r), b, 0, 0)
<1> DEFINE e == r.ent
           x == DropThread(e.id)
           u == IF Threads(k, e.id) = {} THEN << >> ELSE <<x>>
           t == Adjust(FALSE, r.par, -1)
           v == W(FALSE, b, -1)
<1>1. r.how = "found" /\ ~e.dir
  BY DEF DeleteSteps
<1>2. e \in Ent /\ r.par \in Nat /\ DeleteSteps(k, r) = (<<DropEnt(e)>> \o t) \o u
  BY <1>1 DEF Sound, Volume, Ent, DeleteSteps
<1>x. Eff(x, b) = 0
  <2>1. x \in RemT
    BY <1>2 DEF DropThread, RemT, Ent
  <2> QED
    BY <2>1, EffRest
<1>3. e.dir = FALSE
  BY <1>1, <1>2 DEF Ent
<1>4. v \in -1..1 /\ 0 \in -1..1 /\ 0 = v + W(FALSE, b, 1) /\ v = 0 + v /\ 0 = 0 + 0
  BY WValues
<1>5. v = W(FALSE, b, -1)
  OBVIOUS
<1> HIDE DEF e
<1>6. DropEnt(e) \in Task /\ x \in Task /\ t \in Seq(Task)
  BY <1>2, EntTask, AdjustTask, ThreadTask, TamePart
<1>7. Eff(DropEnt(e), b) = W(FALSE, b, 1)
  BY <1>2, <1>3, EffEnt
<1> HIDE DEF x, v
<1>8. Adds(<<DropEnt(e)>>, b, 0, v)
  BY <1>4, <1>6, <1>7, AddsOne
<1>9. Adds(t, b, v, 0)
  BY <1>2, <1>4, <1>5, AddsAdjust
<1>10. Adds(u, b, 0, 0) /\ u \in Seq(Task)
  <2>1. Adds(<<x>>, b, 0, 0) /\ Adds(<< >>, b, 0, 0)
    BY <1>4, <1>x, AddsOne, AddsNone
  <2>2. <<x>> \in Seq(Task) /\ << >> \in Seq(Task)
    BY <1>6
  <2> QED
    BY <2>1, <2>2
<1>11. <<DropEnt(e)>> \in Seq(Task)
  BY <1>6
<1> HIDE DEF u, t
<1>12. Adds(<<DropEnt(e)>> \o t, b, 0, 0) /\ <<DropEnt(e)>> \o t \in Seq(Task)
  BY <1>6, <1>8, <1>9, <1>11, AddsCat, ConcatProperties
<1> QED
  BY <1>2, <1>10, <1>12, AddsCat

\* So does a move, wherever the object comes to lie.
LEMMA MovedAdds ==
  ASSUME NEW k, NEW src, src.ent \in Ent, src.par \in Nat, NEW e \in Ent,
         e.dir = src.ent.dir, NEW b
  PROVE  Adds(Moved(k, src, e), b, 0, 0)
<1> DEFINE s == src.ent
           x == DropEnt(s)
           y == AddEnt(e)
           z == PutThread(Thread(e))
           a == <<x, y>>
           p == IF e.dir \/ Threads(k, e.id) # {} THEN <<z>> ELSE << >>
           f == Adjust(e.dir, src.par, -1)
           g == Adjust(e.dir, e.par, 1)
           q == IF e.par = src.par THEN << >> ELSE f \o g
           u == W(e.dir, b, 1)
           v == W(e.dir, b, -1)
<1>1. Moved(k, src, e) = (a \o p) \o q
  BY DEF Moved
<1>2. s \in Ent /\ e.dir = s.dir /\ e.dir \in BOOLEAN /\ e.par \in Nat
  BY DEF Ent
<1>3. x \in Task /\ y \in Task /\ z \in Task /\ f \in Seq(Task) /\ g \in Seq(Task)
  BY <1>2, EntTask, AdjustTask, ThreadTask, TamePart
<1>4. Eff(x, b) = u /\ Eff(y, b) = v
  BY <1>2, EffEnt
<1>5. Eff(z, b) = 0
  <2>1. z \in PutT
    BY ThreadTask DEF PutThread, PutT
  <2> QED
    BY <2>1, EffRest
<1>6. /\ u \in -1..1 /\ v \in -1..1 /\ 0 \in -1..1 /\ 0 = v + u /\ 0 = u + v /\ u = 0 + u
      /\ v = 0 + v /\ 0 = 0 + 0
  BY WValues
<1>7. u = W(e.dir, b, 1) /\ v = W(e.dir, b, -1)
  OBVIOUS
<1> HIDE DEF u, v, x, y, z, s
<1>8. Adds(a, b, 0, 0)
  BY <1>3, <1>4, <1>6, AddsPair
<1>9. Adds(p, b, 0, 0) /\ p \in Seq(Task)
  <2>1. Adds(<<z>>, b, 0, 0) /\ Adds(<< >>, b, 0, 0)
    BY <1>5, <1>6, AddsOne, AddsNone
  <2>2. <<z>> \in Seq(Task) /\ << >> \in Seq(Task)
    BY <1>3
  <2> QED
    BY <2>1, <2>2
<1>10. Adds(f, b, 0, u)
  <2>1. 0 = u + W(e.dir, b, -1)
    BY <1>6, <1>7
  <2> QED
    BY <1>2, <1>6, <2>1, AddsAdjust
<1>11. Adds(g, b, u, 0)
  BY <1>2, <1>6, <1>7, AddsAdjust
<1> HIDE DEF f, g
<1>12. Adds(f \o g, b, 0, 0) /\ f \o g \in Seq(Task)
  BY <1>3, <1>10, <1>11, AddsCat, ConcatProperties
<1>13. Adds(q, b, 0, 0) /\ q \in Seq(Task)
  <2>1. Adds(<< >>, b, 0, 0) /\ << >> \in Seq(Task)
    BY <1>6, AddsNone
  <2> QED
    BY <1>12, <2>1
<1>14. a \in Seq(Task)
  BY <1>3
<1> HIDE DEF a, p, q
<1>15. Adds(a \o p, b, 0, 0) /\ a \o p \in Seq(Task)
  BY <1>8, <1>9, <1>14, AddsCat, ConcatProperties
<1> QED
  BY <1>1, <1>13, <1>15, AddsCat

\* So does hfs_rename.
LEMMA RenameAdds ==
  ASSUME NEW k \in Volume, NEW src, NEW dst, Sound(k, Nat, src), Sound(k, Nat, dst),
         NEW typed \in Name \cup {NoName}, RenameSteps(k, src, dst, typed) # Refused, NEW b
  PROVE  Adds(RenameSteps(k, src, dst, typed), b, 0, 0)
<1> DEFINE e == Renamed(k, src, dst, typed)
<1>1. ~RenameRefused(k, src, dst, typed) /\ RenameSteps(k, src, dst, typed) = Moved(k, src, e)
  BY RenameParts DEF Refused
<1>2. src.ent \in Ent /\ src.par = src.ent.par /\ e \in Ent /\ e.dir = src.ent.dir
  BY <1>1, RenamedTyped
<1>3. src.par \in Nat
  BY <1>2 DEF Ent
<1> HIDE DEF e
<1>4. Adds(Moved(k, src, e), b, 0, 0)
  BY <1>2, <1>3, MovedAdds
<1> QED
  BY <1>1, <1>4

\* How far the MDB is from the number of records of a kind.
Gap(k, b) == Total(k, b) - Cardinality(Of(k, b))

\* The difference is a number.
LEMMA GapTyped ==
  ASSUME NEW k \in Volume, IsFiniteSet(k.ent), NEW b \in BOOLEAN
  PROVE  /\ Total(k, b) \in Int /\ IsFiniteSet(Of(k, b))
         /\ Cardinality(Of(k, b)) \in Nat /\ Gap(k, b) \in Int
<1>1. Total(k, b) \in Int
  BY DEF Total, Volume
<1>2. IsFiniteSet(Of(k, b)) /\ Cardinality(Of(k, b)) \in Nat
  BY FS_Subset, FS_CardinalityType DEF Of
<1> QED
  BY <1>1, <1>2 DEF Gap

\* The same objects are as many of each kind.
LEMMA SameCards ==
  ASSUME NEW k \in Volume, Unique(k), IsFiniteSet(k.ent), NEW l, SameRecords(k, l),
         NEW b \in BOOLEAN
  PROVE  IsFiniteSet(l.ent) /\ Cardinality(Of(l, b)) = Cardinality(Of(k, b))
<1>1. PICK f \in [k.ent -> l.ent] :
        /\ \A e \in k.ent : Thread(f[e]) = Thread(e)
        /\ \A x \in l.ent : \E e \in k.ent : x = f[e]
  BY DEF SameRecords
<1>2. \A e \in k.ent : f[e] \in l.ent /\ f[e].id = e.id /\ f[e].dir = e.dir
  BY <1>1 DEF Thread
<1>3. \A e, g \in k.ent : f[e] = f[g] => e = g
  BY <1>2 DEF Unique
<1>4. IsFiniteSet(l.ent)
  <2>1. f \in Surjection(k.ent, l.ent)
    BY <1>1 DEF Surjection
  <2> QED
    BY <2>1, FS_Surjection
<1> DEFINE S == Of(k, b)
           T == Of(l, b)
           h == [e \in S |-> f[e]]
<1>5. S \subseteq k.ent /\ IsFiniteSet(S)
  BY GapTyped DEF Of
<1>6. h \in [S -> T]
  BY <1>1, <1>2 DEF Of
<1>7. \A e \in S : h[e] = f[e]
  OBVIOUS
<1>8. \A x \in T : \E e \in S : h[e] = x
  <2> SUFFICES ASSUME NEW x \in T PROVE \E e \in S : h[e] = x
    OBVIOUS
  <2>1. x \in l.ent /\ x.dir = b
    BY DEF Of
  <2>2. PICK e \in k.ent : x = f[e]
    BY <1>1, <2>1
  <2>3. e \in S
    BY <1>2, <2>1, <2>2 DEF Of
  <2> QED
    BY <2>2, <2>3
<1> HIDE DEF S, T, h
<1>9. h \in Injection(S, T)
  <2>1. \A x, y \in S : h[x] = h[y] => x = y
    BY <1>3, <1>5, <1>7
  <2> QED
    BY <1>6, <2>1 DEF Injection, IsInjective
<1>10. h \in Surjection(S, T)
  BY <1>6, <1>8 DEF Surjection
<1>11. ExistsBijection(S, T)
  BY <1>9, <1>10 DEF Bijection, ExistsBijection
<1>12. Cardinality(T) = Cardinality(S)
  BY <1>5, <1>11, FS_Bijection
<1> QED
  BY <1>4, <1>12 DEF S, T

\* Steps on threads and valences leave the fields of the MDB.
LEMMA TotalsKept ==
  ASSUME NEW k \in Volume, NEW s \in InsT \cup RemT \cup PutT \cup Val, NEW b
  PROVE  Total(Apply(k, s), b) = Total(k, b)
<1> DEFINE l == Apply(k, s)
<1>1. l.dirs = k.dirs /\ l.files = k.files
  <2>1. CASE s \in InsT
    <3>1. l = [k EXCEPT !.thr = @ \cup {s.thr}]
      BY <2>1 DEF InsT, Apply
    <3> QED
      BY <3>1 DEF Volume
  <2>2. CASE s \in RemT
    <3>1. l = [k EXCEPT !.thr = @ \ Threads(k, s.id)]
      BY <2>2 DEF RemT, Apply
    <3> QED
      BY <3>1 DEF Volume
  <2>3. CASE s \in PutT
    <3>1. l = [k EXCEPT !.thr = (@ \ Threads(k, s.thr.id)) \cup {s.thr}]
      BY <2>3 DEF PutT, Apply
    <3> QED
      BY <3>1 DEF Volume
  <2>4. CASE s \in Val
    <3>1. l = Valenced(k, s)
      BY <2>4 DEF Val, Apply
    <3>2. \E es : l = [k EXCEPT !.ent = es]
      BY <2>4, <3>1, ValencedTyped
    <3> QED
      BY <3>2 DEF Volume
  <2> QED
    BY <2>1, <2>2, <2>3, <2>4
<1> HIDE DEF l
<1> SUFFICES Total(l, b) = Total(k, b)
  BY DEF l
<1> QED
  BY <1>1 DEF Total

\* A tame step changes the difference by its effect.
LEMMA GapTame ==
  ASSUME NEW k \in Volume, Unique(k), IsFiniteSet(k.ent), NEW s \in Tame, NEW b \in BOOLEAN
  PROVE  IsFiniteSet(Apply(k, s).ent) /\ Gap(Apply(k, s), b) = Gap(k, b) + Eff(s, b)
<1> DEFINE l == Apply(k, s)
<1>1. SameRecords(k, l)
  BY TameSame
<1>2. IsFiniteSet(l.ent) /\ Cardinality(Of(l, b)) = Cardinality(Of(k, b))
  <2> HIDE DEF l
  <2> QED
    BY <1>1, SameCards
<1>3. Total(l, b) = Total(k, b) + Eff(s, b) /\ Eff(s, b) \in Int
  <2>0. Total(k, b) \in Int
    BY GapTyped
  <2>1. CASE s \in InsT \cup RemT \cup PutT \cup Val
    <3>1. Total(l, b) = Total(k, b) /\ Eff(s, b) = 0
      BY <2>1, TotalsKept, EffRest
    <3> HIDE DEF l
    <3> QED
      BY <2>0, <3>1
  <2>2. CASE s \in Cnt
    <3>1. s = Count(s.dir, s.par, s.adj) /\ s.dir \in BOOLEAN /\ s.par \in Nat
          /\ s.adj \in {-1, 1}
      BY <2>2 DEF Cnt, Count
    <3>2. l = Counted(k, s)
      BY <2>2 DEF Cnt, Apply
    <3>3. CountedBy(k, Counted(k, Count(s.dir, s.par, s.adj)), s.dir, s.par, s.adj)
      BY <3>1, CountedTotals
    <3>4. CountedBy(k, l, s.dir, s.par, s.adj)
      BY <3>1, <3>2, <3>3
    <3>5. Eff(s, b) = W(s.dir, b, s.adj)
      BY <2>2, EffCount
    <3> HIDE DEF l
    <3>6. Total(l, b) = IF b = s.dir THEN Total(k, b) + s.adj ELSE Total(k, b)
      BY <3>4 DEF CountedBy
    <3> QED
      BY <2>0, <3>1, <3>5, <3>6 DEF W
  <2> QED
    BY <2>1, <2>2 DEF Tame
<1>4. Total(k, b) \in Int /\ Cardinality(Of(k, b)) \in Nat
  BY GapTyped
<1> DEFINE x == Total(k, b)
           y == Cardinality(Of(k, b))
           z == Eff(s, b)
<1> HIDE DEF l
<1>5. Gap(l, b) = (x + z) - y /\ Gap(k, b) = x - y
  BY <1>2, <1>3 DEF Gap
<1>6. x \in Int /\ y \in Int /\ z \in Int
  BY <1>3, <1>4
<1> HIDE DEF x, y, z
<1>7. Gap(l, b) = Gap(k, b) + z
  BY <1>5, <1>6
<1> QED
  BY <1>2, <1>7 DEF l, z

\* One record more puts the count one behind.
LEMMA GapGrown ==
  ASSUME NEW k, NEW l, NEW e, Grown(k, l, e), NEW b \in BOOLEAN, k \in Volume
  PROVE  Gap(l, b) = Gap(k, b) + W(e.dir, b, -1) /\ IsFiniteSet(l.ent)
<1>1. Cardinality(Of(l, b)) = Cardinality(Of(k, b)) + One(e.dir = b)
      /\ Cardinality(Of(k, b)) \in Nat
  BY GrownCards
<1>2. Total(l, b) = Total(k, b) /\ Total(k, b) \in Int
  BY DEF Grown, Total
<1>3. IsFiniteSet(l.ent)
  BY FS_AddElement DEF Grown
<1> DEFINE x == Total(k, b)
           y == Cardinality(Of(k, b))
           o == One(e.dir = b)
           w == W(e.dir, b, -1)
<1>4. Gap(l, b) = x - (y + o) /\ Gap(k, b) = x - y
  BY <1>1, <1>2 DEF Gap
<1>5. x \in Int /\ y \in Int /\ ((o = 0 /\ w = 0) \/ (o = 1 /\ w = -1))
  BY <1>1, <1>2 DEF One, W
<1> HIDE DEF x, y, o, w
<1>6. Gap(l, b) = Gap(k, b) + w
  BY <1>4, <1>5
<1> QED
  BY <1>3, <1>6 DEF w

\* Every step of a running call changes the difference by its effect.
LEMMA GapStep ==
  ASSUME NEW k \in Volume, Unique(k), IsFiniteSet(k.ent), NEW p, Pending(k, p), p # << >>,
         Ready(k, Head(p)), NEW b \in BOOLEAN
  PROVE  /\ IsFiniteSet(Apply(k, Head(p)).ent)
         /\ Gap(Apply(k, Head(p)), b) = Gap(k, b) + Eff(Head(p), b)
<1> DEFINE l == Apply(k, Head(p))
           s == Head(p)
<1>0. k.ent \subseteq Ent
  BY DEF Volume
<1>1. CASE p \in Seq(Tame)
  <2>1. s \in Tame
    BY <1>1, HeadTailProperties
  <2> QED
    BY <2>1, GapTame
<1>2. ASSUME NEW e \in Ent, s = AddEnt(e)
      PROVE  IsFiniteSet(l.ent) /\ Gap(l, b) = Gap(k, b) + Eff(s, b)
  <2>1. l = [k EXCEPT !.ent = @ \cup {e}] /\ Found(k, e.par, e.name) = {}
    BY <1>2, AppliedEnt
  <2>2. e \notin k.ent
    BY <2>1 DEF Found, Same
  <2>3. Eff(s, b) = W(e.dir, b, -1)
    BY <1>2, EffEnt
  <2> HIDE DEF l
  <2>4. /\ l.ent = k.ent \cup {e} /\ l.dirs = k.dirs /\ l.files = k.files
        /\ l.rootDirs = k.rootDirs /\ l.rootFiles = k.rootFiles
    BY <2>1 DEF Volume
  <2>5. Grown(k, l, e)
    BY <2>2, <2>4 DEF Grown, Volume
  <2> QED
    BY <2>3, <2>5, GapGrown
<1>3. ASSUME NEW e \in k.ent, s = DropEnt(e)
      PROVE  IsFiniteSet(l.ent) /\ Gap(l, b) = Gap(k, b) + Eff(s, b)
  <2>1. e \in Ent
    BY <1>0
  <2>2. l = [k EXCEPT !.ent = @ \ {e}]
    BY <1>3, <2>1, AppliedEnt, FoundIsIt
  <2>3. Eff(s, b) = W(e.dir, b, 1)
    BY <1>3, <2>1, EffEnt
  <2>4. l \in Volume
    BY <2>2, RemovedUnique
  <2> HIDE DEF l
  <2>5. /\ l.ent = k.ent \ {e} /\ l.dirs = k.dirs /\ l.files = k.files
        /\ l.rootDirs = k.rootDirs /\ l.rootFiles = k.rootFiles
    BY <2>2 DEF Volume
  <2>6. IsFiniteSet(l.ent)
    BY <2>5, FS_RemoveElement
  <2>7. Grown(l, k, e)
    BY <2>1, <2>4, <2>5, <2>6 DEF Grown, Volume
  <2>8. Gap(k, b) = Gap(l, b) + W(e.dir, b, -1)
    BY <2>4, <2>7, GapGrown
  <2>9. Gap(l, b) \in Int
    BY <2>4, <2>6, GapTyped
  <2> DEFINE u == W(e.dir, b, 1)
             v == W(e.dir, b, -1)
  <2>10. 0 = u + v /\ u \in Int /\ v \in Int
    BY DEF W
  <2> HIDE DEF u, v
  <2>11. Gap(l, b) = Gap(k, b) + u
    BY <2>8, <2>9, <2>10 DEF v
  <2> QED
    BY <2>3, <2>6, <2>11 DEF u
<1>4. ASSUME s = TakeId
      PROVE  IsFiniteSet(l.ent) /\ Gap(l, b) = Gap(k, b) + Eff(s, b)
  <2>1. l = [k EXCEPT !.next = @ + 1] /\ Eff(s, b) = 0
    BY <1>4, AppliedId, EffId
  <2>2. l.ent = k.ent /\ l.dirs = k.dirs /\ l.files = k.files
    BY <2>1 DEF Volume
  <2>3. Gap(k, b) \in Int
    BY GapTyped
  <2> HIDE DEF l
  <2>4. Gap(l, b) = Gap(k, b)
    BY <2>2 DEF Gap, Total, Of
  <2> QED
    BY <2>1, <2>2, <2>3, <2>4
<1>5. TakeId \in Task /\ (\A e \in Ent : AddEnt(e) \in Task /\ DropEnt(e) \in Task)
      /\ \A t \in Seq(Tame) : t \in Seq(Task)
  BY TakeIdTask, EntTask, TamePart
<1>6. ASSUME NEW e \in Ent, NEW t \in Seq(Tame), p = <<AddEnt(e)>> \o t
      PROVE  s = AddEnt(e)
  BY <1>5, <1>6, OneMore
<1>7. ASSUME NEW e \in Ent, NEW t \in Seq(Tame), p = <<TakeId, AddEnt(e)>> \o t
      PROVE  s = TakeId
  BY <1>5, <1>7, TwoMore
<1>8. ASSUME NEW e \in k.ent, NEW t \in Seq(Tame), p = <<DropEnt(e)>> \o t
      PROVE  s = DropEnt(e)
  <2>1. e \in Ent
    BY <1>0
  <2> QED
    BY <1>5, <1>8, <2>1, OneMore
<1>9. ASSUME NEW e \in k.ent, NEW f \in Ent, NEW t \in Seq(Tame),
             p = <<DropEnt(e), AddEnt(f)>> \o t
      PROVE  s = DropEnt(e)
  <2>1. e \in Ent
    BY <1>0
  <2> QED
    BY <1>5, <1>9, <2>1, TwoMore
<1> HIDE DEF l, s
<1>10. IsFiniteSet(l.ent) /\ Gap(l, b) = Gap(k, b) + Eff(s, b)
  <2>1. CASE \E e \in Ent, t \in Seq(Tame) : p = <<AddEnt(e)>> \o t /\ Fresh(k, e)
    BY <1>2, <1>6, <2>1
  <2>2. CASE \E e \in Ent, t \in Seq(Tame) : p = <<TakeId, AddEnt(e)>> \o t /\ e.id = k.next
    BY <1>4, <1>7, <2>2
  <2>3. CASE \E e \in k.ent, t \in Seq(Tame) : p = <<DropEnt(e)>> \o t
    BY <1>3, <1>8, <2>3
  <2>4. CASE \E e \in k.ent, f \in Ent, t \in Seq(Tame) :
               p = <<DropEnt(e), AddEnt(f)>> \o t /\ f.id = e.id
    BY <1>3, <1>9, <2>4
  <2>5. CASE p \in Seq(Tame)
    BY <1>1, <2>5 DEF l, s
  <2> QED
    BY <2>1, <2>2, <2>3, <2>4, <2>5 DEF Pending
<1> QED
  BY <1>10 DEF l, s

\* With what is left of p the count comes to within h of the records.
NearWith(k, p, h, b) ==
  \E x \in -1..1 : Adds(p, b, x, 0) /\ Gap(k, b) + x <= h /\ 0 - h <= Gap(k, b) + x

NearInv ==
  /\ RecordsInv
  /\ IsFiniteSet(c.ent)
  /\ \A b \in BOOLEAN : NearWith(c, todo, harm, b)

\* With nothing left the count itself is within h.
LEMMA NearEnd ==
  ASSUME NEW k, NEW h \in Nat, NEW b, Gap(k, b) \in Int
  PROVE  NearWith(k, << >>, h, b) <=> Gap(k, b) <= h /\ 0 - h <= Gap(k, b)
<1> DEFINE g == Gap(k, b)
<1> HIDE DEF g
<1>1. ASSUME NearWith(k, << >>, h, b) PROVE g <= h /\ 0 - h <= g
  <2>1. PICK x \in -1..1 : Adds(<< >>, b, x, 0) /\ g + x <= h /\ 0 - h <= g + x
    BY <1>1 DEF NearWith, g
  <2>2. x = 0
    BY <2>1, AddsNone
  <2>3. g + 0 = g
    BY DEF g
  <2> QED
    BY <2>1, <2>2, <2>3
<1>2. ASSUME g <= h, 0 - h <= g PROVE NearWith(k, << >>, h, b)
  <2>1. g + 0 = g /\ 0 \in -1..1
    BY DEF g
  <2>2. Adds(<< >>, b, 0, 0)
    BY <2>1, AddsNone
  <2> QED
    BY <1>2, <2>1, <2>2 DEF NearWith, g
<1> QED
  BY <1>1, <1>2 DEF g

\* A call that begins adds nothing in all.
LEMMA NearStart ==
  ASSUME NEW k, NEW h \in Nat, NEW b, Gap(k, b) \in Int, NEW p, Adds(p, b, 0, 0),
         NearWith(k, << >>, h, b)
  PROVE  NearWith(k, p, h, b)
<1> DEFINE g == Gap(k, b)
<1>1. g <= h /\ 0 - h <= g /\ g + 0 = g /\ 0 \in -1..1
  BY NearEnd
<1> HIDE DEF g
<1> QED
  BY <1>1 DEF NearWith, g

\* A call that ends half way adds at most one to the difference.
LEMMA NearFail ==
  ASSUME NEW k, NEW h \in Nat, NEW b, Gap(k, b) \in Int, NEW p, NearWith(k, p, h, b)
  PROVE  NearWith(k, << >>, h + 1, b)
<1> DEFINE g == Gap(k, b)
<1>1. g \in Int
  OBVIOUS
<1> HIDE DEF g
<1>2. PICK x \in -1..1 : g + x <= h /\ 0 - h <= g + x
  BY DEF NearWith, g
<1>3. g <= h + 1 /\ 0 - (h + 1) <= g
  BY <1>1, <1>2
<1> QED
  BY <1>3, NearEnd DEF g

\* A step of a running call brings the count to where it should be.
LEMMA NearStep ==
  ASSUME NEW k \in Volume, Unique(k), IsFiniteSet(k.ent), NEW p, Pending(k, p), p # << >>,
         Ready(k, Head(p)), NEW b \in BOOLEAN, NEW h \in Nat, NearWith(k, p, h, b)
  PROVE  NearWith(Apply(k, Head(p)), Tail(p), h, b)
<1>1. p \in Seq(Task)
  BY PendingTyped
<1>2. PICK x \in -1..1 : Adds(p, b, x, 0) /\ Gap(k, b) + x <= h /\ 0 - h <= Gap(k, b) + x
  BY DEF NearWith
<1>3. PICK z \in -1..1 : x = z + Eff(Head(p), b) /\ Adds(Tail(p), b, z, 0)
  BY <1>1, <1>2, AddsStep
<1>4. Gap(Apply(k, Head(p)), b) = Gap(k, b) + Eff(Head(p), b) /\ Gap(k, b) \in Int
  BY GapStep, GapTyped
<1>5. Eff(Head(p), b) \in Int
  <2> DEFINE s == Head(p)
  <2>1. s \in Task
    BY <1>1, HeadTailProperties
  <2> HIDE DEF s
  <2>2. s \in Cnt => s.adj \in Int
    BY DEF Cnt
  <2> QED
    BY <2>2 DEF Eff, s
<1> DEFINE g == Gap(k, b)
           l == Gap(Apply(k, Head(p)), b)
           e == Eff(Head(p), b)
<1>6. g \in Int /\ e \in Int /\ l = g + e /\ x = z + e /\ g + x <= h /\ 0 - h <= g + x
  BY <1>2, <1>3, <1>4, <1>5
<1> HIDE DEF g, l, e
<1>7. l + z <= h /\ 0 - h <= l + z
  BY <1>6
<1> QED
  BY <1>3, <1>7 DEF NearWith, l

\* The invariant holds of every volume that may be mounted.
LEMMA NearInit == Init => NearInv
<1> SUFFICES ASSUME Init PROVE NearInv
  OBVIOUS
<1>1. RecordsInv
  BY RecordsInit
<1>2. c \in Volume /\ IsFiniteSet(c.ent) /\ CountsAgree(c) /\ todo = << >> /\ harm = 0
  BY CatalogAssumption DEF Init, Intact
<1>3. ASSUME NEW b \in BOOLEAN PROVE NearWith(c, todo, harm, b)
  <2>1. Gap(c, b) \in Int
    BY <1>2, GapTyped
  <2>2. Gap(c, b) = 0
    <3>1. {e \in c.ent : e.dir} = Of(c, TRUE) /\ {e \in c.ent : ~e.dir} = Of(c, FALSE)
      BY <1>2 DEF Of, Volume, Ent
    <3>2. /\ c.dirs = Cardinality(Of(c, TRUE)) - 1
          /\ c.files = Cardinality(Of(c, FALSE))
      BY <1>2, <3>1 DEF CountsAgree
    <3>3. Cardinality(Of(c, TRUE)) \in Nat /\ Cardinality(Of(c, FALSE)) \in Nat
      BY <1>2, GapTyped
    <3> DEFINE m == Cardinality(Of(c, TRUE))
               n == Cardinality(Of(c, FALSE))
    <3> HIDE DEF m, n
    <3>4. m \in Nat /\ n \in Nat /\ c.dirs = m - 1 /\ c.files = n
      BY <3>2, <3>3 DEF m, n
    <3>5. Gap(c, TRUE) = (c.dirs + 1) - m /\ Gap(c, FALSE) = c.files - n
      BY DEF Gap, Total, m, n
    <3>7. ((m - 1) + 1) - m = 0 /\ n - n = 0
      BY <3>4
    <3>6. Gap(c, TRUE) = 0 /\ Gap(c, FALSE) = 0
      <4>1. c.dirs + 1 = (m - 1) + 1
        BY <3>4
      <4> QED
        BY <3>4, <3>5, <3>7, <4>1
    <3> QED
      BY <3>6
  <2>3. 0 <= 0 /\ 0 - 0 <= 0 /\ 0 \in Nat
    OBVIOUS
  <2> QED
    BY <1>2, <2>1, <2>2, <2>3, NearEnd
<1> QED
  BY <1>1, <1>2, <1>3 DEF NearInv

\* A call that begins leaves it true.
LEMMA NearBegin ==
  ASSUME NearInv, NEW steps, NEW r, Begin(steps, r), RecordsInv',
         \A b \in BOOLEAN : Adds(steps, b, 0, 0)
  PROVE  NearInv'
<1>1. todo = << >> /\ todo' = steps /\ c' = c /\ harm' = harm
  BY DEF Begin
<1>2. c \in Volume /\ IsFiniteSet(c.ent) /\ harm \in Nat
  BY DEF NearInv, RecordsInv
<1>3. ASSUME NEW b \in BOOLEAN PROVE NearWith(c, steps, harm, b)
  <2>1. Gap(c, b) \in Int /\ NearWith(c, << >>, harm, b)
    BY <1>1, <1>2, GapTyped DEF NearInv
  <2> QED
    BY <1>2, <2>1, NearStart
<1> QED
  BY <1>1, <1>2, <1>3 DEF NearInv

\* A call that fails leaves it true.
LEMMA NearFailed ==
  ASSUME NearInv, Fail, RecordsInv'
  PROVE  NearInv'
<1>1. c' = c /\ todo' = << >> /\ harm' = harm + 1
  BY DEF Fail
<1>2. c \in Volume /\ IsFiniteSet(c.ent) /\ harm \in Nat
  BY DEF NearInv, RecordsInv
<1>3. ASSUME NEW b \in BOOLEAN PROVE NearWith(c, << >>, harm + 1, b)
  <2>1. Gap(c, b) \in Int /\ NearWith(c, todo, harm, b)
    BY <1>2, GapTyped DEF NearInv
  <2> QED
    BY <1>2, <2>1, NearFail
<1> QED
  BY <1>1, <1>2, <1>3 DEF NearInv

\* No step breaks it.
LEMMA NearNext ==
  ASSUME NearInv, [Next]_vars
  PROVE  NearInv'
<1>0. RecordsInv' /\ RecordsInv
  BY RecordsNext DEF NearInv
<1>c. c \in Volume /\ Unique(c) /\ harm \in Nat /\ Pending(c, todo) /\ IsFiniteSet(c.ent)
  BY DEF NearInv, RecordsInv
<1>s. ASSUME UNCHANGED <<c, todo, harm>> PROVE NearInv'
  BY <1>0, <1>s DEF NearInv
<1>1. ASSUME NEW p \in Paths, Call(Look(p)) PROVE NearInv'
  <2> DEFINE r == Look(p)
  <2>0. Sound(c, Nat, r)
    BY <1>0, LookSound
  <2> HIDE DEF r
  <2>1. CASE Create(r)
    <3>1. Begin(CreateSteps(c, r), r) /\ CreateSteps(c, r) # Refused
      BY <2>1 DEF Create, Begin
    <3> QED
      BY <1>0, <1>c, <2>0, <3>1, CreateAdds, NearBegin
  <2>2. CASE Mkdir(r)
    <3>1. Begin(MkdirSteps(c, r), r) /\ MkdirSteps(c, r) # Refused
      BY <2>2 DEF Mkdir, Begin
    <3> QED
      BY <1>0, <1>c, <2>0, <3>1, MkdirAdds, NearBegin
  <2>3. CASE Rmdir(r)
    <3>1. Begin(RmdirSteps(r), r) /\ RmdirSteps(r) # Refused
      BY <2>3 DEF Rmdir, Begin
    <3> QED
      BY <1>0, <1>c, <2>0, <3>1, RmdirAdds, NearBegin
  <2>4. CASE Delete(r)
    <3>1. Begin(DeleteSteps(c, r), r) /\ DeleteSteps(c, r) # Refused
      BY <2>4 DEF Delete, Begin
    <3> QED
      BY <1>0, <1>c, <2>0, <3>1, DeleteAdds, NearBegin
  <2>5. CASE Chdir(r)
    BY <1>s, <2>5 DEF Chdir
  <2> QED
    BY <1>1, <2>1, <2>2, <2>3, <2>4, <2>5 DEF Call, r
<1>2. ASSUME NEW p \in Paths, NEW q \in Paths, Rename(Look(p), Look(q), Typed(q))
      PROVE  NearInv'
  <2> DEFINE a == Look(p)
             d == Look(q)
             t == Typed(q)
  <2>1. Sound(c, Nat, a) /\ Sound(c, Nat, d) /\ t \in Name \cup {NoName}
    BY <1>0, LookSound
  <2>2. Begin(RenameSteps(c, a, d, t), d)
    BY <1>2 DEF Rename
  <2> HIDE DEF a, d, t
  <2>3. RenameSteps(c, a, d, t) # Refused
    BY <2>2 DEF Begin
  <2>4. \A b \in BOOLEAN : Adds(RenameSteps(c, a, d, t), b, 0, 0)
    BY <1>c, <2>1, <2>3, RenameAdds
  <2> QED
    BY <1>0, <2>2, <2>4, NearBegin
<1>3. ASSUME NEW id \in RootDir..MaxId, SetCwd(id) PROVE NearInv'
  BY <1>s, <1>3 DEF SetCwd
<1>4. CASE Step
  <2>1. CASE Ready(c, Head(todo))
    <3>1. c' = Apply(c, Head(todo)) /\ todo' = Tail(todo) /\ harm' = harm /\ todo # << >>
      BY <1>4, <2>1 DEF Step
    <3> DEFINE l == Apply(c, Head(todo))
               t == Tail(todo)
    <3>2. IsFiniteSet(l.ent)
      BY <1>c, <2>1, <3>1, GapStep
    <3>3. \A b \in BOOLEAN : NearWith(l, t, harm, b)
      BY <1>c, <2>1, <3>1, NearStep DEF NearInv
    <3>4. c' = l /\ todo' = t
      BY <3>1
    <3> HIDE DEF l, t
    <3> QED
      BY <1>0, <3>1, <3>2, <3>3, <3>4 DEF NearInv
  <2>2. CASE ~ Ready(c, Head(todo))
    <3>1. Fail
      BY <1>4, <2>2 DEF Step
    <3> QED
      BY <1>0, <3>1, NearFailed
  <2> QED
    BY <2>1, <2>2
<1>5. CASE Fault
  BY <1>0, <1>5, NearFailed DEF Fault
<1>6. CASE UNCHANGED vars
  BY <1>s, <1>6 DEF vars
<1> QED
  BY <1>1, <1>2, <1>3, <1>4, <1>5, <1>6 DEF Next, NewCall

\* The invariant gives the property.
LEMMA NearGives ==
  ASSUME NearInv
  PROVE  CountsNear
<1> SUFFICES ASSUME todo = << >>
             PROVE  /\ Near(c.dirs, Cardinality({e \in c.ent : e.dir}) - 1)
                    /\ Near(c.files, Cardinality({e \in c.ent : ~e.dir}))
  BY DEF CountsNear
<1>1. c \in Volume /\ IsFiniteSet(c.ent) /\ harm \in Nat
  BY DEF NearInv, RecordsInv
<1>2. {e \in c.ent : e.dir} = Of(c, TRUE) /\ {e \in c.ent : ~e.dir} = Of(c, FALSE)
  BY <1>1 DEF Of, Volume, Ent
<1> DEFINE d == Cardinality(Of(c, TRUE))
           f == Cardinality(Of(c, FALSE))
<1>3. d \in Nat /\ f \in Nat /\ c.dirs \in Int /\ c.files \in Int
  BY <1>1, GapTyped DEF Volume
<1>4. Gap(c, TRUE) = (c.dirs + 1) - d /\ Gap(c, FALSE) = c.files - f
  BY DEF Gap, Total
<1>5. \A b \in BOOLEAN : Gap(c, b) <= harm /\ 0 - harm <= Gap(c, b)
  BY <1>1, GapTyped, NearEnd DEF NearInv
<1> DEFINE x == c.dirs
           y == c.files
           h == harm
<1> HIDE DEF d, f, x, y, h
<1>8. h \in Nat /\ x \in Int /\ y \in Int /\ d \in Nat /\ f \in Nat
  BY <1>1, <1>3 DEF h, x, y
<1>9. /\ (x + 1) - d <= h /\ 0 - h <= (x + 1) - d
      /\ y - f <= h /\ 0 - h <= y - f
  BY <1>4, <1>5 DEF h, x, y
<1>10. /\ x - (d - 1) <= h /\ (d - 1) - x <= h /\ y - f <= h /\ f - y <= h
  BY <1>8, <1>9
<1>6. Near(c.dirs, d - 1)
  BY <1>10 DEF Near, x, h
<1>7. Near(c.files, f)
  BY <1>10 DEF Near, y, h
<1> QED
  BY <1>2, <1>6, <1>7 DEF d, f

\* Each call that fails half way leaves drDirCnt and drFilCnt off by at most one.
THEOREM CountsStayNear == Spec => []CountsNear
<1>1. Init => NearInv
  BY NearInit
<1>2. NearInv /\ [Next]_vars => NearInv'
  BY NearNext
<1>3. NearInv => CountsNear
  BY NearGives
<1> QED
  BY <1>1, <1>2, <1>3, PTL DEF Spec

\* Between calls the counts of the MDB are off by at most the number of calls
\* that have failed; if none has, they and every valence are right.
THEOREM CountsStaySound == Spec /\ []Countable => []CountsSound
<1>1. Spec => []CountsNear
  BY CountsStayNear
<1>2. Spec /\ []Countable => []ProgressInv
  BY ProgressStays
<1>3. ProgressInv => CountsExact
  BY ProgressGives
<1>4. CountsExact /\ CountsNear => CountsSound
  BY DEF CountsSound
<1> QED
  BY <1>1, <1>2, <1>3, <1>4, PTL

-----------------------------------------------------------------------------
(* What is left of a call, and what it makes of the catalog. *)

\* A step makes a volume of a volume.
LEMMA AppliedTyped ==
  ASSUME NEW k \in Volume, NEW s \in Task
  PROVE  Apply(k, s) \in Volume
<1> DEFINE l == Apply(k, s)
<1>1. CASE s \in Id
  BY <1>1, VolumeParts DEF Id, Apply
<1>2. CASE s \in Ins
  <2>1. l = [k EXCEPT !.ent = k.ent \cup {s.ent}] /\ s.ent \in Ent
    BY <1>2 DEF Ins, Apply
  <2>2. k.ent \cup {s.ent} \in SUBSET Ent
    BY <2>1 DEF Volume
  <2> HIDE DEF l
  <2> QED
    BY <2>1, <2>2 DEF Volume, l
<1>3. CASE s \in Rem
  <2>1. l = [k EXCEPT !.ent = k.ent \ Found(k, s.ent.par, s.ent.name)]
    BY <1>3 DEF Rem, Apply
  <2>2. k.ent \ Found(k, s.ent.par, s.ent.name) \in SUBSET Ent
    BY DEF Volume
  <2> HIDE DEF l
  <2> QED
    BY <2>1, <2>2 DEF Volume, l
<1>4. CASE s \in Tame
  BY <1>4, TameSame DEF SameRecords
<1> QED
  BY <1>1, <1>2, <1>3, <1>4 DEF Task

\* What one step makes of each of the catalogs ks, if it is ready.
Stepped(ks, s) == {Apply(k, s) : k \in {x \in ks : Ready(x, s)}}

\* st holds what the first steps of p make of k.
Trace(st, k, p) ==
  /\ st \in [0..Len(p) -> SUBSET Volume] /\ st[0] = {k}
  /\ \A i \in 1..Len(p) : st[i] = Stepped(st[i - 1], p[i])

\* After is the end of such a trace.
LEMMA AfterTrace ==
  ASSUME NEW k \in Volume, NEW p \in Seq(Task)
  PROVE  \E st : Trace(st, k, p) /\ After(k, p) = st[Len(p)]
<1> DEFINE n == Len(p)
           a == {k}
           S == SUBSET Volume
           cs == CHOOSE f : f = [i \in 0..n |->
                   IF i = 0 THEN {k}
                   ELSE {Apply(x, p[i]) : x \in {y \in f[i - 1] : Ready(y, p[i])}}]
           F == [x \in S \X (1..n) |-> Stepped(x[1], p[x[2]])]
<1>1. After(k, p) = cs[n]
  BY DEF After
<1>2. n \in Nat /\ \A i \in 1..n : p[i] \in Task
  BY ElementOfSeq, LenProperties
<1>3. a \in S
  OBVIOUS
<1>4. F \in [S \X (1..n) -> S]
  <2>1. ASSUME NEW x \in S \X (1..n)
        PROVE  Stepped(x[1], p[x[2]]) \in S
    <3>1. p[x[2]] \in Task /\ x[1] \subseteq Volume
      BY <1>2
    <3> QED
      BY <3>1, AppliedTyped DEF Stepped
  <2> QED
    BY <2>1
<1>5. \E f : Solves(S, n, F, a, f)
  <2>1. Recursive(S, n, F, a)
    <3> HIDE DEF F, S, a, n
    <3> QED
      BY <1>2, <1>3, <1>4 DEF Recursive
  <2> HIDE DEF F, S, a, n
  <2> QED
    BY <2>1, Solution, Zenon
<1>6. PICK f : f \in [0..n -> S] /\ f[0] = a /\ \A i \in 1..n : f[i] = F[<<f[i - 1], i>>]
  <2> HIDE DEF F, S, a, n
  <2> QED
    BY <1>5 DEF Solves
<1>7. \A i \in 1..n : f[i] = Stepped(f[i - 1], p[i])
  <2> SUFFICES ASSUME NEW i \in 1..n
               PROVE  f[i] = Stepped(f[i - 1], p[i])
    OBVIOUS
  <2>1. f[i] = F[<<f[i - 1], i>>] /\ i - 1 \in 0..n
    <3> HIDE DEF F, S
    <3> QED
      BY <1>2, <1>6
  <2>2. <<f[i - 1], i>> \in S \X (1..n)
    <3> HIDE DEF S
    <3> QED
      BY <1>6, <2>1
  <2> QED
    BY <2>1, <2>2
<1>8. f = [i \in 0..n |->
             IF i = 0 THEN {k}
             ELSE {Apply(x, p[i]) : x \in {y \in f[i - 1] : Ready(y, p[i])}}]
  <2> HIDE DEF S, F
  <2> QED
    BY <1>2, <1>6, <1>7 DEF Stepped
<1> HIDE DEF F
<1>9. cs = [i \in 0..n |->
             IF i = 0 THEN {k}
             ELSE {Apply(x, p[i]) : x \in {y \in cs[i - 1] : Ready(y, p[i])}}]
  BY <1>8
<1> HIDE DEF cs
<1>10. cs[0] = {k} /\ \A i \in 1..n : cs[i] = Stepped(cs[i - 1], p[i])
  <2>1. cs[0] = {k}
    BY <1>2, <1>9
  <2>2. ASSUME NEW i \in 1..n PROVE cs[i] = Stepped(cs[i - 1], p[i])
    <3>1. i \in 0..n /\ i # 0
      BY <1>2
    <3> QED
      BY <1>9, <3>1 DEF Stepped
  <2> QED
    BY <2>1, <2>2
<1>11. \A i \in 0..n : cs[i] = f[i]
  <2> DEFINE Bad == {i \in 0..n : cs[i] # f[i]}
  <2> SUFFICES ASSUME Bad # {} PROVE FALSE
    OBVIOUS
  <2>1. PICK i \in Bad : \A j \in Bad : i <= j
    <3>1. Bad \in SUBSET Nat
      BY <1>2
    <3> HIDE DEF Bad
    <3> QED
      BY <3>1, Least
  <2>2. i \in 0..n /\ i \in Nat /\ cs[i] # f[i]
    BY <1>2
  <2>3. i # 0
    BY <1>6, <1>10, <2>2
  <2>4. i - 1 \in 0..n /\ i \in 1..n /\ i - 1 \notin Bad
    BY <1>2, <2>1, <2>2, <2>3
  <2>5. cs[i - 1] = f[i - 1]
    BY <2>4
  <2> QED
    BY <1>7, <1>10, <2>2, <2>4, <2>5
<1>12. Trace(f, k, p)
  BY <1>6, <1>7 DEF Trace
<1>13. cs[n] = f[n]
  BY <1>2, <1>11
<1> QED
  BY <1>1, <1>12, <1>13

\* A prefix of a trace is what the first steps lead to.
Reached(k, p, i, x) ==
  \E f \in [0..i -> Volume] :
    /\ f[0] = k /\ f[i] = x
    /\ \A j \in 1..i : Ready(f[j - 1], p[j]) /\ f[j] = Apply(f[j - 1], p[j])

\* One step more.
LEMMA ReachedMore ==
  ASSUME NEW k, NEW p, NEW i \in Nat, i # 0, NEW x, NEW y \in Volume,
         Reached(k, p, i - 1, x), Ready(x, p[i]), y = Apply(x, p[i])
  PROVE  Reached(k, p, i, y)
<1>1. PICK f \in [0..i - 1 -> Volume] :
         /\ f[0] = k /\ f[i - 1] = x
         /\ \A j \in 1..i - 1 : Ready(f[j - 1], p[j]) /\ f[j] = Apply(f[j - 1], p[j])
  BY DEF Reached
<1> DEFINE g == [j \in 0..i |-> IF j = i THEN y ELSE f[j]]
<1>2. g \in [0..i -> Volume] /\ g[0] = k /\ g[i] = y /\ \A j \in 0..i - 1 : g[j] = f[j]
  BY <1>1
<1> HIDE DEF g
<1>3. ASSUME NEW j \in 1..i PROVE Ready(g[j - 1], p[j]) /\ g[j] = Apply(g[j - 1], p[j])
  <2>1. CASE j = i
    <3>1. i - 1 \in 0..i - 1
      OBVIOUS
    <3>2. g[j - 1] = x /\ g[j] = y
      BY <1>1, <1>2, <2>1, <3>1
    <3> QED
      BY <2>1, <3>2
  <2>2. CASE j # i
    <3>1. j \in 1..i - 1 /\ j \in 0..i - 1 /\ j - 1 \in 0..i - 1
      BY <2>2
    <3> QED
      BY <1>1, <1>2, <3>1
  <2> QED
    BY <2>1, <2>2
<1> QED
  BY <1>2, <1>3 DEF Reached

\* After holds just the catalogs that the steps lead to.
LEMMA AfterRuns ==
  ASSUME NEW k \in Volume, NEW p \in Seq(Task), NEW d
  PROVE  d \in After(k, p) <=> Runs(k, p, d)
<1> DEFINE n == Len(p)
<1>1. PICK st : Trace(st, k, p) /\ After(k, p) = st[n]
  BY AfterTrace
<1>2. n \in Nat
  BY LenProperties
<1>3. /\ st \in [0..n -> SUBSET Volume] /\ st[0] = {k}
      /\ \A i \in 1..n : st[i] = Stepped(st[i - 1], p[i])
  BY <1>1 DEF Trace
<1>4. n = Len(p)
  OBVIOUS
<1> HIDE DEF n
<1>5. ASSUME Runs(k, p, d) PROVE d \in After(k, p)
  <2>1. PICK f : Leads(f, k, p, d)
    BY <1>5 DEF Runs
  <2>2. /\ f \in [0..n -> Volume] /\ f[0] = k /\ f[n] = d
        /\ \A i \in 1..n : Ready(f[i - 1], p[i]) /\ f[i] = Apply(f[i - 1], p[i])
    BY <1>4, <2>1 DEF Leads
  <2> DEFINE Bad == {i \in 0..n : f[i] \notin st[i]}
  <2>3. Bad = {}
    <3> SUFFICES ASSUME Bad # {} PROVE FALSE
      OBVIOUS
    <3>1. PICK i \in Bad : \A j \in Bad : i <= j
      <4>1. Bad \in SUBSET Nat
        BY <1>2
      <4> HIDE DEF Bad
      <4> QED
        BY <4>1, Least
    <3>2. i \in 0..n /\ i \in Nat /\ f[i] \notin st[i]
      BY <1>2
    <3>3. i # 0
      BY <1>3, <2>2, <3>2
    <3>4. i - 1 \in 0..n /\ i \in 1..n /\ i - 1 \notin Bad
      BY <1>2, <3>1, <3>2, <3>3
    <3>5. f[i - 1] \in st[i - 1]
      BY <3>4
    <3>6. f[i] \in Stepped(st[i - 1], p[i])
      BY <2>2, <3>4, <3>5 DEF Stepped
    <3> QED
      BY <1>3, <3>2, <3>4, <3>6
  <2> QED
    BY <1>1, <1>2, <2>2, <2>3
<1>6. ASSUME d \in After(k, p) PROVE Runs(k, p, d)
  <2> DEFINE Bad == {i \in 0..n : \E x \in st[i] : ~Reached(k, p, i, x)}
  <2>1. Bad = {}
    <3> SUFFICES ASSUME Bad # {} PROVE FALSE
      OBVIOUS
    <3>1. PICK i \in Bad : \A j \in Bad : i <= j
      <4>1. Bad \in SUBSET Nat
        BY <1>2
      <4> HIDE DEF Bad
      <4> QED
        BY <4>1, Least
    <3>2. PICK x \in st[i] : ~Reached(k, p, i, x)
      OBVIOUS
    <3>3. i \in 0..n /\ i \in Nat
      BY <1>2
    <3>4. CASE i = 0
      <4> DEFINE f == [j \in 0..0 |-> k]
      <4>1. x = k
        BY <1>3, <3>2, <3>4
      <4>2. f \in [0..0 -> Volume] /\ f[0] = k /\ 1..0 = {}
        OBVIOUS
      <4> HIDE DEF f
      <4>3. Reached(k, p, 0, k)
        BY <4>2 DEF Reached
      <4> QED
        BY <3>2, <3>4, <4>1, <4>3
    <3>5. CASE i # 0
      <4>1. i - 1 \in 0..n /\ i \in 1..n /\ i - 1 \notin Bad
        BY <1>2, <3>1, <3>3, <3>5
      <4>2. \A y \in st[i - 1] : Reached(k, p, i - 1, y)
        BY <4>1
      <4>3. PICK y \in st[i - 1] : Ready(y, p[i]) /\ x = Apply(y, p[i])
        BY <1>3, <3>2, <4>1 DEF Stepped
      <4>4. x \in Volume
        BY <1>3, <3>2, <3>3
      <4>5. Reached(k, p, i - 1, y)
        BY <4>2
      <4>6. Reached(k, p, i, x)
        BY ONLY <3>3, <3>5, <4>3, <4>4, <4>5, ReachedMore
      <4> QED
        BY <3>2, <4>6
    <3> QED
      BY <3>4, <3>5
  <2>2. d \in st[n] /\ n \in 0..n
    BY <1>1, <1>2, <1>6
  <2>3. Reached(k, p, n, d)
    BY <2>1, <2>2
  <2>4. Leads(CHOOSE f : Leads(f, k, p, d), k, p, d)
    BY <1>4, <2>3 DEF Reached, Leads
  <2> QED
    BY <2>4 DEF Runs
<1> QED
  BY <1>5, <1>6

\* A run that is not empty takes its first step and then runs on.
LEMMA RunsFirst ==
  ASSUME NEW k \in Volume, NEW p \in Seq(Task), p # << >>, NEW d
  PROVE  Runs(k, p, d) <=> Ready(k, Head(p)) /\ Runs(Apply(k, Head(p)), Tail(p), d)
<1> DEFINE s == Head(p)
           q == Tail(p)
           l == Apply(k, s)
<1>1. s \in Task /\ q \in Seq(Task) /\ p = <<s>> \o q
  <2>1. s \in Task /\ q \in Seq(Task) /\ Len(p) \in Nat /\ Len(p) # 0
        /\ s = p[1] /\ Len(q) = Len(p) - 1 /\ \A i \in 1..Len(q) : q[i] = p[i + 1]
    BY HeadTailProperties, EmptySeq, LenProperties
  <2> QED
    BY <2>1
<1>2. l \in Volume
  BY <1>1, AppliedTyped
<1>3. ASSUME Ready(k, s), Runs(l, q, d) PROVE Runs(k, p, d)
  <2>1. l = Apply(k, s)
    OBVIOUS
  <2> HIDE DEF s, q, l
  <2>2. Runs(k, <<s>>, l)
    BY <1>2, <1>3, <2>1, RunsOne
  <2>3. <<s>> \in Seq(Task)
    BY <1>1
  <2>4. Runs(k, <<s>> \o q, d)
    BY <1>1, <1>3, <2>2, <2>3, RunsCat
  <2> QED
    BY <1>1, <2>4
<1> QED
  BY <1>3, RunsStep

\* The same steps lead to the same catalog.
LEMMA RunsSame ==
  ASSUME NEW k, NEW p \in Seq(Task), NEW d, NEW b, Runs(k, p, d), Runs(k, p, b)
  PROVE  d = b
<1> DEFINE n == Len(p)
<1>1. PICK f : Leads(f, k, p, d)
  BY DEF Runs
<1>2. PICK g : Leads(g, k, p, b)
  BY DEF Runs
<1>3. /\ n \in Nat /\ f[0] = k /\ f[n] = d /\ g[0] = k /\ g[n] = b
      /\ \A i \in 1..n : f[i] = Apply(f[i - 1], p[i]) /\ g[i] = Apply(g[i - 1], p[i])
  BY <1>1, <1>2, LenProperties DEF Leads
<1> DEFINE Bad == {i \in 0..n : f[i] # g[i]}
<1> HIDE DEF n
<1>4. Bad = {}
  <2> SUFFICES ASSUME Bad # {} PROVE FALSE
    OBVIOUS
  <2>1. PICK i \in Bad : \A j \in Bad : i <= j
    <3>1. Bad \in SUBSET Nat
      BY <1>3
    <3> HIDE DEF Bad
    <3> QED
      BY <3>1, Least
  <2>2. i \in 0..n /\ i \in Nat /\ f[i] # g[i]
    BY <1>3
  <2>3. i # 0
    BY <1>3, <2>2
  <2>4. i - 1 \in 0..n /\ i \in 1..n /\ i - 1 \notin Bad
    BY <1>3, <2>1, <2>2, <2>3
  <2> QED
    BY <1>3, <2>2, <2>4
<1> QED
  BY <1>3, <1>4

\* The objects of a catalog: what its records are, valences left out.
Objs(k) == {Thread(e) : e \in k.ent}

\* Tame steps leave the objects as they are.
LEMMA SameObjs ==
  ASSUME NEW k, NEW l, SameRecords(k, l)
  PROVE  Objs(l) = Objs(k) /\ l.next = k.next
<1>1. PICK f \in [k.ent -> l.ent] :
        /\ \A e \in k.ent : Thread(f[e]) = Thread(e)
        /\ \A x \in l.ent : \E e \in k.ent : x = f[e]
  BY DEF SameRecords
<1>2. \A e \in k.ent : f[e] \in l.ent
  BY <1>1
<1> QED
  BY <1>1, <1>2 DEF Objs, SameRecords

\* So does a run of them.
LEMMA TameRuns ==
  ASSUME NEW k \in Volume, NEW p \in Seq(Tame), NEW d, Runs(k, p, d)
  PROVE  Objs(d) = Objs(k)
<1> DEFINE n == Len(p)
<1>1. PICK f : Leads(f, k, p, d)
  BY DEF Runs
<1>2. /\ n \in Nat /\ f \in [0..n -> Volume] /\ f[0] = k /\ f[n] = d
      /\ \A i \in 1..n : p[i] \in Tame /\ f[i] = Apply(f[i - 1], p[i])
  BY <1>1, LenProperties, ElementOfSeq DEF Leads
<1> DEFINE Bad == {i \in 0..n : Objs(f[i]) # Objs(k)}
<1> HIDE DEF n
<1>3. Bad = {}
  <2> SUFFICES ASSUME Bad # {} PROVE FALSE
    OBVIOUS
  <2>1. PICK i \in Bad : \A j \in Bad : i <= j
    <3>1. Bad \in SUBSET Nat
      BY <1>2
    <3> HIDE DEF Bad
    <3> QED
      BY <3>1, Least
  <2>2. i \in 0..n /\ i \in Nat /\ Objs(f[i]) # Objs(k)
    BY <1>2
  <2>3. i # 0
    BY <1>2, <2>2
  <2>4. i - 1 \in 0..n /\ i \in 1..n /\ i - 1 \notin Bad
    BY <1>2, <2>1, <2>2, <2>3
  <2>5. Objs(f[i - 1]) = Objs(k) /\ f[i - 1] \in Volume
    BY <1>2, <2>4
  <2>6. SameRecords(f[i - 1], Apply(f[i - 1], p[i]))
    BY <1>2, <2>4, <2>5, TameSame
  <2>7. Objs(f[i]) = Objs(f[i - 1])
    BY <1>2, <2>4, <2>6, SameObjs
  <2> QED
    BY <2>2, <2>5, <2>7
<1> QED
  BY <1>2, <1>3

\* A call that is stuck: one way or the other it will meet a step that is not
\* ready.
Stuck(k, p, w) == Blocked(k, p) \/ Doomed(k, p, w)

\* A blocked call is a sequence of steps.
LEMMA BlockedTyped ==
  ASSUME NEW k, NEW p, Blocked(k, p)
  PROVE  p \in Seq(Task)
<1>1. PICK e \in Ent, t \in Seq(Task) : \E f \in Found(k, e.par, e.name) :
         \/ p = <<AddEnt(e)>> \o t
         \/ p = <<TakeId, AddEnt(e)>> \o t
         \/ \E s \in Ent : p = <<DropEnt(s), AddEnt(e)>> \o t
  BY DEF Blocked
<1>2. TakeId \in Task /\ \A x \in Ent : AddEnt(x) \in Task /\ DropEnt(x) \in Task
  BY TakeIdTask, EntTask
<1>3. CASE p = <<AddEnt(e)>> \o t
  BY <1>2, <1>3, OneMore
<1>4. CASE p = <<TakeId, AddEnt(e)>> \o t
  BY <1>2, <1>4, TwoMore
<1>5. CASE \E s \in Ent : p = <<DropEnt(s), AddEnt(e)>> \o t
  BY <1>2, <1>5, TwoMore
<1> QED
  BY <1>1, <1>3, <1>4, <1>5

\* A stuck call leads nowhere.
LEMMA StuckNowhere ==
  ASSUME NEW w, NEW k \in Volume, NEW p, Stuck(k, p, w), NEW d
  PROVE  ~Runs(k, p, d)
<1> DEFINE Lost(n) == \E l \in Volume, q \in Seq(Task) :
                        Len(q) = n /\ Stuck(l, q, w) /\ Runs(l, q, d)
           S == {n \in Nat : Lost(n)}
<1>1. SUFFICES ASSUME Runs(k, p, d) PROVE FALSE
  OBVIOUS
<1>2. p \in Seq(Task) /\ Len(p) \in Nat
  BY BlockedTyped, LenProperties DEF Stuck, Doomed
<1>3. Lost(Len(p))
  BY <1>1, <1>2
<1> HIDE DEF Lost
<1>4. Len(p) \in S
  BY <1>2, <1>3
<1>5. PICK n \in S : \A m \in S : n <= m
  <2>1. S \in SUBSET Nat /\ S # {}
    BY <1>4
  <2> HIDE DEF S
  <2> QED
    BY <2>1, Least
<1>6. PICK l \in Volume, q \in Seq(Task) :
         Len(q) = n /\ Stuck(l, q, w) /\ Runs(l, q, d)
  BY <1>5 DEF Lost
<1>7. q # << >>
  BY <1>6, BlockedSome DEF Stuck, Doomed
<1>8. Ready(l, Head(q)) /\ Runs(Apply(l, Head(q)), Tail(q), d)
  BY <1>6, <1>7, RunsFirst
<1>9. Stuck(Apply(l, Head(q)), Tail(q), w)
  BY <1>6, <1>8, BlockedStep, DoomedStep DEF Stuck
<1>10. /\ Head(q) \in Task /\ Tail(q) \in Seq(Task) /\ Len(Tail(q)) = n - 1 /\ n - 1 \in Nat
  BY <1>6, <1>7, HeadTailProperties, EmptySeq, LenProperties
<1>11. Apply(l, Head(q)) \in Volume
  BY <1>10, AppliedTyped
<1>12. Lost(n - 1)
  BY <1>8, <1>9, <1>10, <1>11 DEF Lost
<1>13. n - 1 \in S
  BY <1>10, <1>12
<1> QED
  BY <1>5, <1>10, <1>13

\* What is known when a call begins: it ends in a sound catalog, or nowhere.
LEMMA GoesWhere ==
  ASSUME NEW k \in Volume, NEW p \in Seq(Task), NEW w, NEW r, Goes(k, p, w, r)
  PROVE  \/ After(k, p) = {}
         \/ \E d : After(k, p) = {d} /\ Runs(k, p, d) /\ Intact(d) /\ CwdFits(d, w)
<1>1. CASE Success(k, p, w)
  <2>1. PICK d : Runs(k, p, d) /\ Intact(d) /\ CwdFits(d, w)
    BY <1>1 DEF Success
  <2>2. \A x : x \in After(k, p) <=> x = d
    BY <2>1, AfterRuns, RunsSame
  <2>3. After(k, p) = {d}
    BY <2>2
  <2> QED
    BY <2>1, <2>3
<1>2. CASE Blocked(k, p) \/ Doomed(k, p, w)
  <2>1. \A x : x \notin After(k, p)
    BY <1>2, AfterRuns, StuckNowhere DEF Stuck
  <2> QED
    BY <2>1
<1> QED
  BY <1>1, <1>2 DEF Goes

\* A step that is ready leaves open what the call makes of the catalog just as
\* it was; one that is not leaves nothing.
LEMMA AfterStep ==
  ASSUME NEW k \in Volume, NEW p \in Seq(Task), p # << >>
  PROVE  /\ Ready(k, Head(p)) => After(Apply(k, Head(p)), Tail(p)) = After(k, p)
         /\ ~Ready(k, Head(p)) => After(k, p) = {}
<1>1. Head(p) \in Task /\ Tail(p) \in Seq(Task)
  BY HeadTailProperties, EmptySeq
<1>2. Apply(k, Head(p)) \in Volume
  BY <1>1, AppliedTyped
<1>3. ASSUME Ready(k, Head(p)) PROVE After(Apply(k, Head(p)), Tail(p)) = After(k, p)
  <2>1. \A x : x \in After(k, p) <=> x \in After(Apply(k, Head(p)), Tail(p))
    BY <1>1, <1>2, <1>3, AfterRuns, RunsFirst
  <2> QED
    BY <2>1
<1>4. ASSUME ~Ready(k, Head(p)) PROVE After(k, p) = {}
  <2>1. \A x : x \notin After(k, p)
    BY <1>4, AfterRuns, RunsFirst
  <2> QED
    BY <2>1
<1> QED
  BY <1>3, <1>4

\* When nothing is left the catalog stays what it is.
LEMMA AfterNothing ==
  ASSUME NEW k \in Volume
  PROVE  After(k, << >>) = {k}
<1>1. << >> \in Seq(Task)
  BY EmptySeq
<1>2. \A x : x \in After(k, << >>) <=> x = k
  BY <1>1, AfterRuns, RunsNone
<1> QED
  BY <1>2

-----------------------------------------------------------------------------
(* What the calls make of the objects. *)

\* The shapes of the calls: a record comes, goes, or is put elsewhere, and what
\* follows is tame.
Enters(p, e) == e \in Ent /\ \E t \in Seq(Tame) : p = <<TakeId, AddEnt(e)>> \o t
Leaves(p, e) == e \in Ent /\ \E t \in Seq(Tame) : p = <<DropEnt(e)>> \o t
Shifts(p, s, e) ==
  s \in Ent /\ e \in Ent /\ \E t \in Seq(Tame) : p = <<DropEnt(s), AddEnt(e)>> \o t

\* hfs_create and hfs_mkdir
LEMMA CreateShape ==
  ASSUME NEW k \in Volume, NEW r, Sound(k, Nat, r), MayCreate(r)
  PROVE  /\ Enters(CreateSteps(k, r), File(k.next, r.par, r.name))
         /\ Enters(MkdirSteps(k, r), Dir(k.next, r.par, r.name))
<1>1. r.par \in Nat /\ r.name \in Name /\ k.next \in Nat
  BY DEF MayCreate, Sound, Volume
<1>2. Enters(CreateSteps(k, r), File(k.next, r.par, r.name))
  <2> DEFINE e == File(k.next, r.par, r.name)
             t == Adjust(FALSE, r.par, 1)
  <2>1. e \in Ent
    BY <1>1, NewEnt DEF IsNew
  <2>2. t \in Seq(Tame)
    BY <1>1, AdjustTask
  <2>3. CreateSteps(k, r) = <<TakeId, AddEnt(e)>> \o t
    BY DEF CreateSteps
  <2> HIDE DEF e, t
  <2>4. Enters(CreateSteps(k, r), e)
    BY <2>1, <2>2, <2>3 DEF Enters
  <2> QED
    BY <2>4 DEF e
<1>3. Enters(MkdirSteps(k, r), Dir(k.next, r.par, r.name))
  <2> DEFINE e == Dir(k.next, r.par, r.name)
             x == AddThread(Thread(e))
             y == AddEnt(e)
             t == Adjust(TRUE, r.par, 1)
  <2>1. e \in Ent
    BY <1>1, NewEnt DEF IsNew
  <2>2. t \in Seq(Tame) /\ x \in Tame
    BY <1>1, <2>1, AdjustTask, ThreadTask
  <2>3. MkdirSteps(k, r) = <<TakeId, y, x>> \o t
    BY DEF MkdirSteps
  <2>4. TakeId \in Task /\ y \in Task /\ x \in Task /\ t \in Seq(Task)
    BY <2>1, <2>2, TakeIdTask, EntTask, TamePart
  <2>5. y = AddEnt(e)
    OBVIOUS
  <2> HIDE DEF e, t, x, y
  <2>6. <<TakeId, y, x>> \o t = <<TakeId, y>> \o (<<x>> \o t)
    BY <2>4
  <2>7. <<x>> \o t \in Seq(Tame)
    BY <2>2, OneMore
  <2>8. Enters(MkdirSteps(k, r), e)
    BY <2>1, <2>3, <2>5, <2>6, <2>7 DEF Enters
  <2> QED
    BY <2>8 DEF e
<1> QED
  BY <1>2, <1>3

\* hfs_rmdir and hfs_delete
LEMMA RemoveShape ==
  ASSUME NEW k \in Volume, NEW r, Sound(k, Nat, r)
  PROVE  /\ RmdirSteps(r) # Refused => Leaves(RmdirSteps(r), r.ent)
         /\ DeleteSteps(k, r) # Refused => Leaves(DeleteSteps(k, r), r.ent)
<1> DEFINE e == r.ent
           z == DropEnt(e)
           x == DropThread(e.id)
           u == IF Threads(k, e.id) = {} THEN << >> ELSE <<x>>
<1>1. ASSUME r.how = "found"
      PROVE  /\ e \in Ent /\ r.par \in Nat /\ x \in Tame
             /\ Adjust(TRUE, r.par, -1) \in Seq(Tame) /\ Adjust(FALSE, r.par, -1) \in Seq(Tame)
  <2>1. e \in k.ent /\ e \in Ent /\ r.par \in Nat
    BY <1>1 DEF Sound, Volume, Ent
  <2> QED
    BY <2>1, AdjustTask, ThreadTask
<1>2. ASSUME RmdirSteps(r) # Refused PROVE Leaves(RmdirSteps(r), r.ent)
  <2> DEFINE t == Adjust(TRUE, r.par, -1)
  <2>1. r.how = "found" /\ RmdirSteps(r) = <<z, x>> \o t
    BY <1>2 DEF RmdirSteps
  <2>2. e \in Ent /\ t \in Seq(Tame) /\ x \in Tame
    BY <1>1, <2>1
  <2>3. z \in Task /\ x \in Task /\ t \in Seq(Task) /\ z = DropEnt(e)
    BY <2>2, EntTask, TamePart
  <2> HIDE DEF t, x, z, e
  <2>4. <<z, x>> \o t = <<z>> \o (<<x>> \o t)
    BY <2>3
  <2>5. <<x>> \o t \in Seq(Tame)
    BY <2>2, OneMore
  <2>6. Leaves(RmdirSteps(r), e)
    BY <2>1, <2>2, <2>3, <2>4, <2>5 DEF Leaves
  <2> QED
    BY <2>6 DEF e
<1>3. ASSUME DeleteSteps(k, r) # Refused PROVE Leaves(DeleteSteps(k, r), r.ent)
  <2> DEFINE t == Adjust(FALSE, r.par, -1)
  <2>1. r.how = "found" /\ DeleteSteps(k, r) = (<<z>> \o t) \o u
    BY <1>3 DEF DeleteSteps
  <2>2. e \in Ent /\ t \in Seq(Tame) /\ x \in Tame
    BY <1>1, <2>1
  <2>3. u \in Seq(Tame)
    BY <2>2
  <2> HIDE DEF u
  <2>4. z \in Task /\ t \in Seq(Task) /\ u \in Seq(Task) /\ z = DropEnt(e)
    <3>1. z \in Task /\ z = DropEnt(e)
      BY <2>2, EntTask
    <3> HIDE DEF t, z
    <3> QED
      BY <3>1, <2>2, <2>3, TamePart
  <2> HIDE DEF t, x, z, e
  <2>5. (<<z>> \o t) \o u = <<z>> \o (t \o u)
    <3>1. <<z>> \in Seq(Task)
      BY <2>4
    <3> QED
      BY <3>1, <2>4, Regroup
  <2>6. t \o u \in Seq(Tame)
    BY <2>2, <2>3, ConcatProperties
  <2>7. Leaves(DeleteSteps(k, r), e)
    BY <2>1, <2>2, <2>4, <2>5, <2>6 DEF Leaves
  <2> QED
    BY <2>7 DEF e
<1> QED
  BY <1>2, <1>3

\* hfs_rename
LEMMA RenameShape ==
  ASSUME NEW k \in Volume, NEW src, NEW dst, Sound(k, Nat, src), Sound(k, Nat, dst),
         NEW typed \in Name \cup {NoName}, ~ RenameRefused(k, src, dst, typed)
  PROVE  Shifts(RenameSteps(k, src, dst, typed), src.ent, Renamed(k, src, dst, typed))
<1> DEFINE e == Renamed(k, src, dst, typed)
<1>1. RenameSteps(k, src, dst, typed) = Moved(k, src, e)
  BY RenameParts
<1>2. src.ent \in Ent /\ e \in Ent
  BY RenamedTyped
<1>3. src.par \in Nat
  BY RenamedTyped DEF Ent
<1> HIDE DEF e
<1>4. /\ Moved(k, src, e) = <<DropEnt(src.ent), AddEnt(e)>> \o MovedRest(k, src, e)
      /\ MovedRest(k, src, e) \in Seq(Tame)
  BY <1>2, <1>3, MovedSplit
<1>5. Shifts(RenameSteps(k, src, dst, typed), src.ent, e)
  BY <1>1, <1>2, <1>4 DEF Shifts
<1> QED
  BY <1>5 DEF e

\* The first step of a run is taken, and the others lead on.
LEMMA RunsOn ==
  ASSUME NEW k, NEW p \in Seq(Task), p # << >>, NEW s, NEW q, Head(p) = s, Tail(p) = q,
         NEW d, Runs(k, p, d)
  PROVE  Ready(k, s) /\ Runs(Apply(k, s), q, d)
  BY RunsStep

\* A record is taken away, and what follows is not told.
LEMMA DropFirst ==
  ASSUME NEW k \in Volume, Unique(k), NEW e \in k.ent, NEW q \in Seq(Task), NEW p,
         p = <<DropEnt(e)>> \o q, NEW d, Runs(k, p, d)
  PROVE  LET l == [k EXCEPT !.ent = @ \ {e}]
         IN  l \in Volume /\ l.ent = k.ent \ {e} /\ Runs(l, q, d)
<1>1. e \in Ent
  BY DEF Volume
<1>2. DropEnt(e) \in Task
  BY <1>1, EntTask
<1>3. p \in Seq(Task) /\ p # << >> /\ Head(p) = DropEnt(e) /\ Tail(p) = q
  BY <1>2, OneMore
<1>4. Apply(k, DropEnt(e)) = [k EXCEPT !.ent = @ \ {e}]
  BY <1>1, AppliedEnt, FoundIsIt
<1>5. Runs(Apply(k, DropEnt(e)), q, d)
  BY <1>3, RunsOn, Zenon
<1> DEFINE l == [k EXCEPT !.ent = @ \ {e}]
<1>6. l \in Volume /\ l.ent = k.ent \ {e}
  BY RemovedUnique DEF Volume
<1> QED
  BY <1>4, <1>5, <1>6

\* A record comes, and tame steps follow.
LEMMA AddThenTame ==
  ASSUME NEW k \in Volume, NEW e \in Ent, NEW t \in Seq(Tame), NEW p,
         p = <<AddEnt(e)>> \o t, NEW d, Runs(k, p, d)
  PROVE  Found(k, e.par, e.name) = {} /\ Objs(d) = Objs(k) \cup {Thread(e)}
<1>1. AddEnt(e) \in Task /\ t \in Seq(Task)
  BY EntTask, TamePart
<1>2. p \in Seq(Task) /\ p # << >> /\ Head(p) = AddEnt(e) /\ Tail(p) = t
  BY <1>1, OneMore
<1>3. Ready(k, AddEnt(e)) /\ Runs(Apply(k, AddEnt(e)), t, d)
  BY <1>2, RunsOn, Zenon
<1> DEFINE l == Apply(k, AddEnt(e))
<1>4. l = [k EXCEPT !.ent = @ \cup {e}] /\ Found(k, e.par, e.name) = {}
  BY <1>3, AppliedEnt
<1>5. l \in Volume
  BY <1>1, AppliedTyped
<1>6. l.ent = k.ent \cup {e}
  BY <1>4 DEF Volume
<1> HIDE DEF l
<1>7. Objs(d) = Objs(l)
  BY <1>3, <1>5, TameRuns DEF l
<1>8. Objs(l) = Objs(k) \cup {Thread(e)}
  BY <1>6 DEF Objs
<1> QED
  BY <1>4, <1>7, <1>8

\* What hfs_create and hfs_mkdir make of the objects.
LEMMA EntersObjs ==
  ASSUME NEW k \in Volume, NEW e, NEW p, Enters(p, e), NEW d, Runs(k, p, d)
  PROVE  /\ Found(k, e.par, e.name) = {} /\ Objs(d) = Objs(k) \cup {Thread(e)}
         /\ p # << >> /\ Head(p) = TakeId
<1>1. PICK t \in Seq(Tame) : p = <<TakeId, AddEnt(e)>> \o t
  BY DEF Enters
<1>2. e \in Ent /\ AddEnt(e) \in Task /\ TakeId \in Task /\ t \in Seq(Task)
  BY EntTask, TakeIdTask, TamePart DEF Enters
<1>3. /\ p \in Seq(Task) /\ p # << >> /\ Head(p) = TakeId
      /\ Tail(p) = <<AddEnt(e)>> \o t
  BY <1>1, <1>2, TwoMore
<1> DEFINE l == Apply(k, TakeId)
<1>4. Runs(l, <<AddEnt(e)>> \o t, d)
  BY <1>3, RunsOn, Zenon
<1>5. l \in Volume
  BY <1>2, AppliedTyped
<1>6. l = [k EXCEPT !.next = @ + 1]
  BY AppliedId
<1>7. l.ent = k.ent
  BY <1>6 DEF Volume
<1> HIDE DEF l
<1>8. Found(l, e.par, e.name) = {} /\ Objs(d) = Objs(l) \cup {Thread(e)}
  BY <1>2, <1>4, <1>5, AddThenTame
<1>9. Found(l, e.par, e.name) = Found(k, e.par, e.name) /\ Objs(l) = Objs(k)
  BY <1>7 DEF Found, Objs
<1> QED
  BY <1>3, <1>8, <1>9

\* An object that goes is told from the others by its number.
LEMMA ObjsLess ==
  ASSUME NEW k, Unique(k), NEW e \in k.ent, NEW l, l.ent = k.ent \ {e}
  PROVE  Objs(l) = Objs(k) \ {Thread(e)}
<1>1. \A x \in k.ent : Thread(x) = Thread(e) <=> x = e
  BY DEF Unique, Thread
<1> QED
  BY <1>1 DEF Objs

\* What hfs_rmdir and hfs_delete make of the objects.
LEMMA LeavesObjs ==
  ASSUME NEW k \in Volume, Unique(k), NEW e \in k.ent, NEW p, Leaves(p, e),
         NEW d, Runs(k, p, d)
  PROVE  /\ Objs(d) = Objs(k) \ {Thread(e)}
         /\ p # << >> /\ Head(p) # TakeId
<1>1. PICK t \in Seq(Tame) : p = <<DropEnt(e)>> \o t
  BY DEF Leaves
<1>2. t \in Seq(Task) /\ e \in Ent /\ DropEnt(e) \in Task
  BY TamePart, EntTask DEF Leaves
<1>3. p # << >> /\ Head(p) = DropEnt(e)
  BY <1>1, <1>2, OneMore
<1>4. DropEnt(e) # TakeId
  BY DEF DropEnt, TakeId
<1> DEFINE l == [k EXCEPT !.ent = @ \ {e}]
<1>5. l \in Volume /\ l.ent = k.ent \ {e} /\ Runs(l, t, d)
  BY <1>1, <1>2, DropFirst
<1> HIDE DEF l
<1>6. Objs(d) = Objs(l)
  BY <1>5, TameRuns
<1>7. Objs(l) = Objs(k) \ {Thread(e)}
  BY <1>5, ObjsLess
<1> QED
  BY <1>3, <1>4, <1>6, <1>7

\* What hfs_rename makes of the objects.
LEMMA ShiftsObjs ==
  ASSUME NEW k \in Volume, Unique(k), NEW s \in k.ent, NEW e, NEW p, Shifts(p, s, e),
         NEW d, Runs(k, p, d)
  PROVE  /\ Objs(d) = (Objs(k) \ {Thread(s)}) \cup {Thread(e)}
         /\ Found(k, e.par, e.name) \subseteq {s}
         /\ p # << >> /\ Head(p) # TakeId
<1>1. PICK t \in Seq(Tame) : p = <<DropEnt(s), AddEnt(e)>> \o t
  BY DEF Shifts
<1>2. /\ t \in Seq(Task) /\ s \in Ent /\ e \in Ent
      /\ DropEnt(s) \in Task /\ AddEnt(e) \in Task
  BY TamePart, EntTask DEF Shifts
<1>3. /\ p # << >> /\ Head(p) = DropEnt(s)
      /\ Tail(p) = <<AddEnt(e)>> \o t /\ p \in Seq(Task)
  BY <1>1, <1>2, TwoMore
<1>4. DropEnt(s) # TakeId
  BY DEF DropEnt, TakeId
<1> DEFINE q == <<AddEnt(e)>> \o t
           l == [k EXCEPT !.ent = @ \ {s}]
<1>5. q \in Seq(Task) /\ p = <<DropEnt(s)>> \o q
  BY <1>1, <1>2
<1>6. q = <<AddEnt(e)>> \o t
  OBVIOUS
<1> HIDE DEF q
<1>7. l \in Volume /\ l.ent = k.ent \ {s} /\ Runs(l, q, d)
  BY <1>5, DropFirst
<1> HIDE DEF l
<1>8. Found(l, e.par, e.name) = {} /\ Objs(d) = Objs(l) \cup {Thread(e)}
  BY <1>2, <1>6, <1>7, AddThenTame
<1>9. Objs(l) = Objs(k) \ {Thread(s)}
  BY <1>7, ObjsLess
<1>10. Found(k, e.par, e.name) \subseteq {s}
  BY <1>7, <1>8 DEF Found
<1> QED
  BY <1>3, <1>4, <1>8, <1>9, <1>10

-----------------------------------------------------------------------------
(* The way up to the root. *)

\* The directories of s and those that their threads lead to.
Rise(k, s) == s \cup {t.par : t \in {x \in k.thr : x.id \in s \ {RootDir}}}

\* st climbs from directory id, one level at a time.
Climb(st, n, k, id) ==
  /\ n \in Nat /\ st \in [0..n -> SUBSET Nat] /\ st[0] = {id}
  /\ \A i \in 1..n : st[i] = Rise(k, st[i - 1])

\* Above is where such a climb ends.
LEMMA AboveClimb ==
  ASSUME NEW k \in Volume, IsFiniteSet(k.thr), NEW id \in Nat
  PROVE  \E st, n : Climb(st, n, k, id) /\ Above(k, id) = st[n]
<1> DEFINE n == Cardinality(k.thr)
           a == {id}
           S == SUBSET Nat
           cs == CHOOSE f : f = [i \in 0..n |->
                   IF i = 0 THEN {id}
                   ELSE f[i - 1] \cup {t.par : t \in {x \in k.thr : x.id \in f[i - 1] \ {RootDir}}}]
           F == [x \in S \X (1..n) |-> Rise(k, x[1])]
<1>1. Above(k, id) = cs[n]
  BY DEF Above
<1>2. n \in Nat
  BY FS_CardinalityType
<1>3. a \in S
  OBVIOUS
<1>4. F \in [S \X (1..n) -> S]
  <2>1. \A t \in k.thr : t.par \in Nat
    BY DEF Volume, Thr
  <2>2. ASSUME NEW x \in S \X (1..n) PROVE Rise(k, x[1]) \in S
    <3>1. x[1] \subseteq Nat
      OBVIOUS
    <3> QED
      BY <2>1, <3>1 DEF Rise
  <2> QED
    BY <2>2
<1>5. \E f : Solves(S, n, F, a, f)
  <2>1. Recursive(S, n, F, a)
    <3> HIDE DEF F, S, a, n
    <3> QED
      BY <1>2, <1>3, <1>4 DEF Recursive
  <2> HIDE DEF F, S, a, n
  <2> QED
    BY <2>1, Solution, Zenon
<1> HIDE DEF n
<1>6. PICK f : f \in [0..n -> S] /\ f[0] = a /\ \A i \in 1..n : f[i] = F[<<f[i - 1], i>>]
  <2> HIDE DEF F, S, a
  <2> QED
    BY <1>5 DEF Solves
<1>7. \A i \in 1..n : f[i] = Rise(k, f[i - 1])
  <2> SUFFICES ASSUME NEW i \in 1..n
               PROVE  f[i] = Rise(k, f[i - 1])
    OBVIOUS
  <2>1. f[i] = F[<<f[i - 1], i>>] /\ i - 1 \in 0..n
    <3> HIDE DEF F, S
    <3> QED
      BY <1>2, <1>6
  <2>2. <<f[i - 1], i>> \in S \X (1..n)
    <3> HIDE DEF S
    <3> QED
      BY <1>6, <2>1
  <2> QED
    BY <2>1, <2>2
<1>8. f = [i \in 0..n |->
             IF i = 0 THEN {id}
             ELSE f[i - 1] \cup {t.par : t \in {x \in k.thr : x.id \in f[i - 1] \ {RootDir}}}]
  <2> HIDE DEF S, F
  <2> QED
    BY <1>2, <1>6, <1>7 DEF Rise
<1> HIDE DEF F
<1>9. cs = [i \in 0..n |->
             IF i = 0 THEN {id}
             ELSE cs[i - 1] \cup {t.par : t \in {x \in k.thr : x.id \in cs[i - 1] \ {RootDir}}}]
  BY <1>8
<1> HIDE DEF cs
<1>10. cs[0] = {id} /\ \A i \in 1..n : cs[i] = Rise(k, cs[i - 1])
  <2>1. cs[0] = {id}
    BY <1>2, <1>9
  <2>2. ASSUME NEW i \in 1..n PROVE cs[i] = Rise(k, cs[i - 1])
    <3>1. i \in 0..n /\ i # 0
      BY <1>2
    <3> QED
      BY <1>9, <3>1 DEF Rise
  <2> QED
    BY <2>1, <2>2
<1>11. \A i \in 0..n : cs[i] = f[i]
  <2> DEFINE Bad == {i \in 0..n : cs[i] # f[i]}
  <2> SUFFICES ASSUME Bad # {} PROVE FALSE
    OBVIOUS
  <2>1. PICK i \in Bad : \A j \in Bad : i <= j
    <3>1. Bad \in SUBSET Nat
      BY <1>2
    <3> HIDE DEF Bad
    <3> QED
      BY <3>1, Least
  <2>2. i \in 0..n /\ i \in Nat /\ cs[i] # f[i]
    BY <1>2
  <2>3. i # 0
    BY <1>6, <1>10, <2>2
  <2>4. i - 1 \in 0..n /\ i \in 1..n /\ i - 1 \notin Bad
    BY <1>2, <2>1, <2>2, <2>3
  <2>5. cs[i - 1] = f[i - 1]
    BY <2>4
  <2> QED
    BY <1>7, <1>10, <2>2, <2>4, <2>5
<1>12. Climb(f, n, k, id)
  BY <1>2, <1>6, <1>7 DEF Climb
<1>13. cs[n] = f[n]
  BY <1>2, <1>11
<1> QED
  BY <1>1, <1>12, <1>13

\* A chain of directories, each the parent of another, up to y.
Chain(k, s, y) ==
  /\ s \subseteq DirIds(k) /\ y \in s
  /\ \A x \in s \ {y} : x # RootDir /\ \A t \in Threads(k, x) : t.par \in s

\* In a sound catalog a directory has one thread, and its parent is there.
LEMMA OneParent ==
  ASSUME NEW k, Intact(k), NEW x \in DirIds(k)
  PROVE  \E p \in k.ent : /\ p.id = x /\ p.dir /\ Threads(k, x) = {Thread(p)}
                          /\ x # RootDir => p.par \in DirIds(k)
<1>1. Unique(k) /\ ThreadsAgree(k) /\ Rooted(k)
  BY DEF Intact
<1>2. PICK p : Led(k, p) /\ p.id = x
  BY <1>1, LedIfAgree
<1> QED
  BY <1>1, <1>2 DEF Led, Rooted

\* A chain that has not come to the root grows by one directory.
LEMMA ChainRises ==
  ASSUME NEW k, Intact(k), NEW s, NEW y, Chain(k, s, y), RootDir \notin s
  PROVE  \E z : Chain(k, Rise(k, s), z)
<1>1. s \subseteq DirIds(k) /\ y \in s /\ y # RootDir
  BY DEF Chain
<1>2. PICK p \in k.ent : /\ p.id = y /\ p.dir /\ Threads(k, y) = {Thread(p)}
                         /\ y # RootDir => p.par \in DirIds(k)
  BY <1>1, OneParent
<1> DEFINE z == p.par
<1>3. z \in DirIds(k)
  BY <1>1, <1>2
<1>4. Thread(p) \in k.thr /\ Thread(p).id = y /\ Thread(p).par = z
  BY <1>2 DEF Threads, Thread
<1>5. \A t \in k.thr : t.id = y => t = Thread(p)
  BY <1>2 DEF Threads
<1> HIDE DEF z
<1>6. \A t \in k.thr : t.id \in s => t.par \in s \cup {z}
  BY <1>4, <1>5 DEF Chain, Threads
<1>7. Rise(k, s) = s \cup {z}
  <2>1. Rise(k, s) \subseteq s \cup {z}
    BY <1>6 DEF Rise
  <2>2. z \in Rise(k, s)
    BY <1>1, <1>4 DEF Rise
  <2>3. s \subseteq Rise(k, s)
    BY DEF Rise
  <2> QED
    BY <2>1, <2>2, <2>3
<1>8. ASSUME NEW x \in (s \cup {z}) \ {z}
      PROVE  x # RootDir /\ \A t \in Threads(k, x) : t.par \in s \cup {z}
  BY <1>6 DEF Threads
<1>9. Chain(k, s \cup {z}, z)
  BY <1>1, <1>3, <1>8 DEF Chain
<1> QED
  BY <1>7, <1>9

\* The way from directory id up to the root does not pass through "through".
AvoidsIn(O, id, through) ==
  \E way \in SUBSET {o.id : o \in O} :
    /\ id \in way /\ through \notin way
    /\ \A o \in O : o.id \in way \ {RootDir} => o.par \in way

\* A chain that has come to the root is a way to it.
LEMMA ChainIsWay ==
  ASSUME NEW k, Intact(k), NEW s, NEW y, Chain(k, s, y), RootDir \in s,
         NEW id \in s, NEW through, through \notin s
  PROVE  AvoidsIn(Objs(k), id, through)
<1>1. y = RootDir
  BY DEF Chain
<1>2. Unique(k)
  BY DEF Intact
<1>3. s \subseteq {o.id : o \in Objs(k)}
  <2>1. \A e \in k.ent : Thread(e) \in Objs(k) /\ Thread(e).id = e.id
    BY DEF Objs, Thread
  <2>2. DirIds(k) \subseteq {o.id : o \in Objs(k)}
    BY <2>1 DEF DirIds
  <2> QED
    BY <2>2 DEF Chain
<1>4. ASSUME NEW o \in Objs(k), o.id \in s \ {RootDir} PROVE o.par \in s
  <2>1. PICK e \in k.ent : o = Thread(e)
    BY DEF Objs
  <2>2. o.id = e.id /\ o.par = e.par
    BY <2>1 DEF Thread
  <2>3. e.id \in DirIds(k)
    BY <1>4, <2>2 DEF Chain
  <2>4. PICK p \in k.ent : p.id = e.id /\ Threads(k, e.id) = {Thread(p)}
    BY <2>3, OneParent
  <2>5. p = e
    BY <1>2, <2>4 DEF Unique
  <2>6. Thread(e) \in Threads(k, e.id)
    BY <2>4, <2>5
  <2>7. \A t \in Threads(k, e.id) : t.par \in s
    BY <1>1, <1>4, <2>2 DEF Chain
  <2> QED
    BY <2>1, <2>6, <2>7
<1> QED
  BY <1>3, <1>4 DEF AvoidsIn

\* hfs_rename's walk up to the root, if it does not meet the source, is a way
\* to the root that does not pass through the source.
LEMMA AboveAvoids ==
  ASSUME NEW k, Intact(k), NEW id \in DirIds(k), NEW through,
         RootDir \in Above(k, id), through \notin Above(k, id)
  PROVE  AvoidsIn(Objs(k), id, through)
<1>1. k \in Volume /\ id \in Nat
  BY DEF Intact, DirIds, Volume, Ent
<1>2. IsFiniteSet(k.thr)
  <2>1. IsFiniteSet(Objs(k))
    <3> DEFINE E == k.ent
    <3>1. IsFiniteSet(E)
      BY DEF Intact
    <3> HIDE DEF E
    <3> DEFINE T == {Thread(e) : e \in E}
               f == [e \in E |-> Thread(e)]
    <3>2. f \in Surjection(E, T)
      BY DEF Surjection
    <3> HIDE DEF T, f
    <3>3. IsFiniteSet(T)
      BY <3>1, <3>2, FS_Surjection
    <3>4. IsFiniteSet({Thread(e) : e \in E})
      BY <3>3 DEF T
    <3> QED
      BY <3>4 DEF Objs, E
  <2>2. k.thr \subseteq Objs(k)
    BY DEF Intact, ThreadsAgree, Objs
  <2> QED
    BY <2>1, <2>2, FS_Subset
<1>3. PICK st, n : Climb(st, n, k, id) /\ Above(k, id) = st[n]
  BY <1>1, <1>2, AboveClimb
<1>4. /\ n \in Nat /\ st[0] = {id}
      /\ \A i \in 1..n : st[i] = Rise(k, st[i - 1])
  BY <1>3 DEF Climb
<1> DEFINE R == {i \in 0..n : RootDir \in st[i]}
<1>5. PICK j \in R : \A i \in R : j <= i
  <2>1. R \in SUBSET Nat /\ n \in R
    BY <1>3, <1>4
  <2> HIDE DEF R
  <2> QED
    BY <2>1, Least
<1>6. j \in 0..n /\ j \in Nat /\ RootDir \in st[j] /\ \A i \in 0..j - 1 : RootDir \notin st[i]
  <2>1. j \in 0..n /\ j \in Nat /\ RootDir \in st[j]
    BY <1>4
  <2>2. ASSUME NEW i \in 0..j - 1 PROVE RootDir \notin st[i]
    <3>1. i \in 0..n /\ ~(j <= i)
      BY <1>4, <2>1
    <3> QED
      BY <1>5, <3>1
  <2> QED
    BY <2>1, <2>2
<1> HIDE DEF R
<1>7. \A i \in 0..j : id \in st[i] /\ \E y : Chain(k, st[i], y)
  <2> DEFINE Good(i) == id \in st[i] /\ \E y : Chain(k, st[i], y)
             Bad == {i \in 0..j : ~Good(i)}
  <2> SUFFICES ASSUME Bad # {} PROVE FALSE
    OBVIOUS
  <2> HIDE DEF Good
  <2>1. PICK i \in Bad : \A m \in Bad : i <= m
    <3>1. Bad \in SUBSET Nat
      BY <1>6
    <3> HIDE DEF Bad
    <3> QED
      BY <3>1, Least
  <2>2. i \in 0..j /\ i \in Nat /\ ~Good(i)
    BY <1>6
  <2>3. CASE i = 0
    <3>1. Chain(k, {id}, id)
      BY DEF Chain
    <3>2. Good(0)
      BY <1>4, <3>1 DEF Good
    <3> QED
      BY <2>2, <2>3, <3>2
  <2>4. CASE i # 0
    <3>1. i - 1 \in 0..j /\ i - 1 \in 0..j - 1 /\ i \in 1..n /\ i - 1 \notin Bad
      BY <1>4, <1>6, <2>1, <2>2, <2>4
    <3>2. Good(i - 1)
      BY <3>1
    <3>3. PICK y : Chain(k, st[i - 1], y)
      BY <3>2 DEF Good
    <3>4. RootDir \notin st[i - 1]
      BY <1>6, <3>1
    <3>5. \E z : Chain(k, Rise(k, st[i - 1]), z)
      BY <3>3, <3>4, ChainRises
    <3>6. st[i] = Rise(k, st[i - 1])
      BY <1>4, <3>1
    <3>7. id \in st[i]
      BY <3>2, <3>6 DEF Good, Rise
    <3>8. Good(i)
      BY <3>5, <3>6, <3>7 DEF Good
    <3> QED
      BY <2>2, <3>8
  <2> QED
    BY <2>3, <2>4
<1>8. st[j] \subseteq st[n]
  <2> DEFINE Bad == {i \in j..n : ~(st[j] \subseteq st[i])}
  <2>1. Bad = {}
    <3> SUFFICES ASSUME Bad # {} PROVE FALSE
      OBVIOUS
    <3>1. PICK i \in Bad : \A m \in Bad : i <= m
      <4>1. Bad \in SUBSET Nat
        BY <1>4, <1>6
      <4> HIDE DEF Bad
      <4> QED
        BY <4>1, Least
    <3>2. i \in j..n /\ i \in Nat /\ ~(st[j] \subseteq st[i])
      BY <1>4, <1>6
    <3>3. i # j
      BY <3>2
    <3>4. i - 1 \in j..n /\ i \in 1..n /\ i - 1 \notin Bad
      BY <1>4, <1>6, <3>1, <3>2, <3>3
    <3>5. st[j] \subseteq st[i - 1]
      BY <3>4
    <3>6. st[i] = Rise(k, st[i - 1])
      BY <1>4, <3>4
    <3> QED
      BY <3>2, <3>5, <3>6 DEF Rise
  <2>2. n \in j..n
    BY <1>4, <1>6
  <2> QED
    BY <2>1, <2>2
<1>9. PICK y : Chain(k, st[j], y)
  BY <1>6, <1>7
<1>10. id \in st[j] /\ through \notin st[j] /\ RootDir \in st[j]
  BY <1>3, <1>6, <1>7, <1>8
<1> QED
  BY <1>9, <1>10, ChainIsWay

-----------------------------------------------------------------------------
(* What the calls do to the tree: objects O become U. *)

HasDir(O, id) == \E o \in O : o.id = id /\ o.dir

\* an object comes, with number n
MadeOne(O, U, n) ==
  \E o \in U \ O :
    /\ U = O \cup {o} /\ o.id = n
    /\ HasDir(O, o.par) /\ \A x \in O : x.par = o.par => Fold[x.name] # Fold[o.name]

\* one goes that is not a parent
DestroyedOne(O, U) ==
  \E o \in O \ U :
    /\ U = O \ {o} /\ o.id # RootDir /\ \A x \in O : x.par # o.id

\* one gets another name or another place
MovedOne(O, U) ==
  \E o \in O \ U, n \in U \ O :
    /\ U = (O \ {o}) \cup {n} /\ n.id = o.id /\ n.dir = o.dir
    /\ \A x \in O \ {o} : x.par = n.par => Fold[x.name] # Fold[n.name]
    /\ n.par # o.par =>
         /\ HasDir(O, n.par)
         /\ o.dir => o.id # RootDir /\ AvoidsIn(O, n.par, o.id)

\* Directories are objects that are directories.
LEMMA DirObjs ==
  ASSUME NEW k, NEW id
  PROVE  HasDir(Objs(k), id) <=> id \in DirIds(k)
<1>1. \A e : Thread(e).id = e.id /\ Thread(e).dir = e.dir
  BY DEF Thread
<1> QED
  BY <1>1 DEF HasDir, Objs, DirIds

\* In a sound catalog every object but the root lies in a directory.
LEMMA ObjRooted ==
  ASSUME NEW d, Rooted(d), NEW o \in Objs(d), o.id # RootDir
  PROVE  HasDir(Objs(d), o.par)
<1>1. PICK e \in d.ent : o = Thread(e)
  BY DEF Objs
<1>2. o.id = e.id /\ o.par = e.par
  BY <1>1 DEF Thread
<1>3. o.par \in DirIds(d)
  BY <1>2 DEF Rooted
<1> QED
  BY <1>3, DirObjs

\* An object in the way of e is that of a record in its way.
LEMMA KeyTaken ==
  ASSUME NEW k, NEW e, NEW x \in Objs(k), x.par = e.par, Fold[x.name] = Fold[e.name]
  PROVE  \E f \in Found(k, e.par, e.name) : x = Thread(f)
<1>1. PICK f \in k.ent : x = Thread(f)
  BY DEF Objs
<1>2. f.par = e.par /\ Fold[f.name] = Fold[e.name]
  BY <1>1 DEF Thread
<1>3. f \in Found(k, e.par, e.name)
  BY <1>2 DEF Found, Same
<1> QED
  BY <1>1, <1>3

\* hfs_create and hfs_mkdir make an object.
LEMMA EntersMakes ==
  ASSUME NEW k, Intact(k), NEW e, e.id = k.next, e.par # k.next, NEW p, Enters(p, e),
         NEW d, Runs(k, p, d), Intact(d)
  PROVE  MadeOne(Objs(k), Objs(d), k.next)
<1> DEFINE O == Objs(k)
           U == Objs(d)
           o == Thread(e)
<1>1. k \in Volume /\ Unique(k) /\ Rooted(k) /\ Rooted(d)
  BY DEF Intact
<1>2. Found(k, e.par, e.name) = {} /\ U = O \cup {o}
  BY <1>1, EntersObjs
<1>3. o.id = k.next /\ o.par = e.par /\ o.name = e.name
  BY DEF Thread
<1>4. \A x \in O : x.id < k.next /\ x.id \in Nat
  BY <1>1 DEF Objs, Thread, Unique, Volume, Ent
<1>5. k.next \in Nat
  BY <1>1 DEF Volume
<1>6. o \notin O
  BY <1>3, <1>4, <1>5
<1>7. o.id # RootDir
  <2>1. RootDir < k.next
    BY <1>1 DEF Rooted, DirIds, Unique
  <2> QED
    BY <1>3, <1>5, <2>1 DEF RootDir
<1>8. HasDir(U, o.par)
  BY <1>1, <1>2, <1>7, ObjRooted
<1>9. HasDir(O, o.par)
  BY <1>2, <1>3, <1>8 DEF HasDir
<1>10. \A x \in O : x.par = o.par => Fold[x.name] # Fold[o.name]
  BY <1>2, <1>3, KeyTaken
<1> HIDE DEF O, U, o
<1>11. MadeOne(O, U, k.next)
  BY <1>2, <1>3, <1>6, <1>9, <1>10 DEF MadeOne
<1> QED
  BY <1>11 DEF O, U

\* hfs_rmdir and hfs_delete remove an object.
LEMMA LeavesDestroys ==
  ASSUME NEW k, Intact(k), NEW e \in k.ent, e.id # RootDir, Children(k, e.id) = {},
         NEW p, Leaves(p, e), NEW d, Runs(k, p, d)
  PROVE  DestroyedOne(Objs(k), Objs(d))
<1> DEFINE O == Objs(k)
           U == Objs(d)
           o == Thread(e)
<1>1. k \in Volume /\ Unique(k)
  BY DEF Intact
<1>2. U = O \ {o}
  BY <1>1, LeavesObjs
<1>3. o \in O /\ o.id = e.id
  BY DEF Objs, Thread
<1>4. \A x \in O : x.par # o.id
  BY <1>3 DEF Objs, Thread, Children
<1> HIDE DEF O, U, o
<1>5. DestroyedOne(O, U)
  BY <1>2, <1>3, <1>4 DEF DestroyedOne
<1> QED
  BY <1>5 DEF O, U

\* hfs_rename moves an object, if it does anything to it.
LEMMA ShiftsMoves ==
  ASSUME NEW k, Intact(k), NEW s \in k.ent, NEW e, e.id = s.id, e.dir = s.dir,
         NEW p, Shifts(p, s, e), NEW d, Runs(k, p, d), Intact(d),
         e.par # s.par => /\ e.id # RootDir
                          /\ s.dir => /\ s.id \notin Above(k, e.par)
                                      /\ RootDir \in Above(k, e.par)
  PROVE  Objs(d) = Objs(k) \/ MovedOne(Objs(k), Objs(d))
<1> DEFINE O == Objs(k)
           U == Objs(d)
           o == Thread(s)
           n == Thread(e)
<1>1. k \in Volume /\ Unique(k) /\ Rooted(k) /\ Rooted(d)
  BY DEF Intact
<1>2. U = (O \ {o}) \cup {n} /\ Found(k, e.par, e.name) \subseteq {s}
  <2>1. /\ Objs(d) = (Objs(k) \ {Thread(s)}) \cup {Thread(e)}
        /\ Found(k, e.par, e.name) \subseteq {s}
    <3>1. k \in Volume /\ Unique(k) /\ s \in k.ent /\ Shifts(p, s, e) /\ Runs(k, p, d)
      BY <1>1
    <3>2. Objs(d) = (Objs(k) \ {Thread(s)}) \cup {Thread(e)}
      BY ONLY <3>1, ShiftsObjs
    <3>3. Found(k, e.par, e.name) \subseteq {s}
      BY ONLY <3>1, ShiftsObjs, Zenon
    <3> QED
      BY <3>2, <3>3
  <2> QED
    BY <2>1
<1>3. /\ o \in O /\ o.id = s.id /\ o.par = s.par /\ o.dir = s.dir
      /\ n.id = s.id /\ n.par = e.par /\ n.dir = s.dir /\ n.name = e.name
  BY DEF Objs, Thread
<1>4. \A x \in O : x.id = s.id => x = o
  BY <1>1 DEF Objs, Thread, Unique
<1>5. ASSUME NEW x \in O \ {o}, x.par = n.par PROVE Fold[x.name] # Fold[n.name]
  <2>1. SUFFICES ASSUME Fold[x.name] = Fold[e.name] PROVE FALSE
    BY <1>3
  <2>2. x \in Objs(k) /\ x.par = e.par
    BY <1>3, <1>5
  <2>3. PICK f \in Found(k, e.par, e.name) : x = Thread(f)
    BY <2>1, <2>2, KeyTaken
  <2>4. f = s
    BY <1>2, <2>3
  <2> QED
    BY <2>3, <2>4
<1>6. ASSUME n.par # o.par
      PROVE  /\ HasDir(O, n.par)
             /\ o.dir => o.id # RootDir /\ AvoidsIn(O, n.par, o.id)
  <2>1. e.par # s.par /\ n.id # RootDir
    BY <1>3, <1>6
  <2>2. n \in U
    BY <1>2
  <2>3. HasDir(U, n.par)
    BY <1>1, <2>1, <2>2, ObjRooted
  <2>4. HasDir(O, n.par)
    BY <1>2, <1>3, <2>3 DEF HasDir
  <2>5. e.par \in DirIds(k)
    BY <1>3, <2>4, DirObjs
  <2>6. s.dir => AvoidsIn(O, e.par, s.id)
    BY <2>1, <2>5, AboveAvoids
  <2> HIDE DEF O, U, o, n
  <2> QED
    BY <1>3, <2>1, <2>4, <2>6
<1> HIDE DEF O, U, o, n
<1>7. CASE n = o
  BY <1>2, <1>3, <1>7 DEF O, U
<1>8. CASE n # o
  <2>1. n \notin O /\ o \notin U
    BY <1>2, <1>3, <1>4, <1>8
  <2>2. MovedOne(O, U)
    BY <1>2, <1>3, <1>5, <1>6, <2>1 DEF MovedOne
  <2> QED
    BY <2>2 DEF O, U
<1> QED
  BY <1>7, <1>8

-----------------------------------------------------------------------------
\* Done: the objects as the call makes them, and by how much drNxtCNID grows.
Took(p) == IF p # << >> /\ Head(p) = TakeId THEN 1 ELSE 0

OneChange(k, p, d) ==
  \/ Took(p) = 1 /\ MadeOne(Objs(k), Objs(d), k.next)
  \/ Took(p) = 0 /\ \/ Objs(d) = Objs(k)
                    \/ DestroyedOne(Objs(k), Objs(d))
                    \/ MovedOne(Objs(k), Objs(d))

\* hfs_create and hfs_mkdir are one change.
LEMMA CreateChanges ==
  ASSUME NEW k, Intact(k), NEW w \in Nat, CwdFits(k, w), NEW r, Sound(k, Walk(k, w), r),
         MayCreate(r), NEW p, p = CreateSteps(k, r) \/ p = MkdirSteps(k, r),
         NEW d, Runs(k, p, d), Intact(d)
  PROVE  OneChange(k, p, d)
<1>1. r.par \in DirIds(k) \cup {w} /\ r.par \in Nat /\ r.name \in Name /\ k.next \in Nat
  BY MayCreateMeans
<1>2. k \in Volume /\ Unique(k)
  BY DEF Intact
<1>3. \A i \in DirIds(k) : i < k.next
  BY <1>2 DEF DirIds, Unique
<1>4. r.par # k.next
  BY <1>1, <1>3 DEF CwdFits
<1>5. Sound(k, Nat, r)
  BY WalkClosed, SoundWider DEF Closed
<1>6. PICK e : Enters(p, e) /\ e.id = k.next /\ e.par = r.par
  <2>1. /\ File(k.next, r.par, r.name).id = k.next /\ File(k.next, r.par, r.name).par = r.par
        /\ Dir(k.next, r.par, r.name).id = k.next /\ Dir(k.next, r.par, r.name).par = r.par
    BY DEF File, Dir
  <2> QED
    BY <1>2, <1>5, <2>1, CreateShape
<1>7. MadeOne(Objs(k), Objs(d), k.next)
  BY <1>4, <1>6, EntersMakes
<1>8. p # << >> /\ Head(p) = TakeId
  BY <1>2, <1>6, EntersObjs
<1> QED
  BY <1>7, <1>8 DEF OneChange, Took

\* hfs_rmdir and hfs_delete are.
LEMMA RemoveChanges ==
  ASSUME NEW k, Intact(k), FewChildren(k), NEW w \in Nat, NEW r, Sound(k, Walk(k, w), r),
         NEW p, p # Refused, p = RmdirSteps(r) \/ p = DeleteSteps(k, r),
         NEW d, Runs(k, p, d)
  PROVE  OneChange(k, p, d)
<1> DEFINE e == r.ent
<1>1. k \in Volume /\ Unique(k) /\ Rooted(k)
  BY DEF Intact
<1>2. r.how = "found" /\ r.par # RootPar /\ ((e.dir /\ e.val = 0) \/ ~e.dir)
  BY DEF RmdirSteps, DeleteSteps
<1>3. e \in k.ent /\ r.par = e.par
  BY <1>2 DEF Sound
<1>4. Sound(k, Nat, r)
  BY WalkClosed, SoundWider DEF Closed
<1>5. Leaves(p, e)
  BY <1>1, <1>4, RemoveShape
<1> HIDE DEF e
<1>6. e.id # RootDir
  BY <1>1, <1>2, <1>3 DEF Rooted
<1>7. Children(k, e.id) = {}
  <2>1. CASE e.dir /\ e.val = 0
    BY <1>3, <2>1, NoChildren
  <2>2. CASE ~e.dir
    <3>1. ASSUME NEW x \in k.ent, x.par = e.id PROVE FALSE
      <4>1. e.id \in DirIds(k)
        BY <1>1, <1>3, <3>1 DEF Rooted, RootPar, RootDir
      <4> QED
        BY <1>1, <1>3, <2>2, <4>1 DEF DirIds, Unique
    <3> QED
      BY <3>1 DEF Children
  <2> QED
    BY <1>2, <2>1, <2>2
<1>8. DestroyedOne(Objs(k), Objs(d))
  BY <1>3, <1>5, <1>6, <1>7, LeavesDestroys
<1>9. p # << >> /\ Head(p) # TakeId
  BY <1>1, <1>3, <1>5, LeavesObjs
<1> QED
  BY <1>8, <1>9 DEF OneChange, Took

\* hfs_rename is.
LEMMA RenameChanges ==
  ASSUME NEW k, Intact(k), NEW w \in Nat, NEW src, NEW dst,
         Sound(k, Walk(k, w), src), Sound(k, Walk(k, w), dst),
         NEW typed \in Name \cup {NoName},
         NEW p, p # Refused, p = RenameSteps(k, src, dst, typed),
         NEW d, Runs(k, p, d), Intact(d)
  PROVE  OneChange(k, p, d)
<1> DEFINE e == Renamed(k, src, dst, typed)
           s == src.ent
<1>1. k \in Volume /\ Unique(k) /\ Rooted(k)
  BY DEF Intact
<1>2. ~RenameRefused(k, src, dst, typed)
  BY RenameParts DEF Refused
<1>3. Sound(k, Nat, src) /\ Sound(k, Nat, dst)
  BY WalkClosed, SoundWider DEF Closed
<1>4. Shifts(p, s, e)
  BY <1>1, <1>2, <1>3, RenameShape
<1>5. /\ s \in k.ent /\ src.par = s.par /\ e.id = s.id /\ e.dir = s.dir
      /\ e.par = Target(k, src, dst).par
  BY <1>1, <1>2, <1>3, RenamedTyped
<1>6. e.par # s.par => MayMove(k, src, e.par)
  BY <1>2, <1>5 DEF RenameRefused
<1>7. MayMove(k, src, e.par) =>
        (s.dir => s.id # RootDir /\ s.id \notin Above(k, e.par) /\ RootDir \in Above(k, e.par))
  BY DEF MayMove
<1>8. ~s.dir => s.id # RootDir
  BY <1>1, <1>5 DEF Rooted, DirIds, Unique
<1> HIDE DEF e, s
<1>9. Objs(d) = Objs(k) \/ MovedOne(Objs(k), Objs(d))
  BY <1>4, <1>5, <1>6, <1>7, <1>8, ShiftsMoves
<1>10. p # << >> /\ Head(p) # TakeId
  BY <1>1, <1>4, <1>5, ShiftsObjs
<1> QED
  BY <1>9, <1>10 DEF OneChange, Took

-----------------------------------------------------------------------------
(* The catalog implements a tree of directories. *)

\* What the tree sees of a state.
TObj == {Thread(e) : e \in UNION {k.ent : k \in Finished}}
TNext == c.next + IF todo # << >> /\ Head(todo) = TakeId THEN 1 ELSE 0
TBroken == harm > 0 \/ Finished = {}

\* Objects of one catalog.
LEMMA OneFinished ==
  ASSUME NEW d
  PROVE  {Thread(e) : e \in UNION {k.ent : k \in {d}}} = Objs(d)
<1>1. UNION {k.ent : k \in {d}} = d.ent
  OBVIOUS
<1> QED
  BY <1>1 DEF Objs

\* When a call has failed half way nothing is promised.
LEMMA TreeBroken ==
  ASSUME TBroken'
  PROVE  Tree!Next
<1>1. CASE TBroken
  BY <1>1 DEF Tree!Next, TBroken
<1>2. CASE ~TBroken
  <2>1. Tree!Break
    BY <1>2 DEF Tree!Break, TBroken
  <2> QED
    BY <2>1 DEF Tree!Next
<1> QED
  BY <1>1, <1>2

\* Nothing happens to the tree.
LEMMA TreeSame ==
  ASSUME Finished' = Finished, TNext' = TNext, harm' = harm
  PROVE  UNCHANGED Tree!vars
<1>1. TObj' = TObj /\ TBroken' = TBroken
  BY DEF TObj, TBroken
<1> QED
  BY <1>1 DEF Tree!vars, TObj, TNext, TBroken

\* A call that is one change is a step of the tree.
LEMMA TreeChange ==
  ASSUME NEW d, Finished = {c}, Finished' = {d}, harm' = harm, c.next \in Nat,
         todo = << >>, c' = c, OneChange(c, todo', d)
  PROVE  [Tree!Next]_(Tree!vars)
<1> DEFINE O == Objs(c)
           U == Objs(d)
<1>1. TObj = O /\ TObj' = U
  <2>1. TObj = O
    BY OneFinished DEF TObj
  <2>2. TObj' = {Thread(e) : e \in UNION {k.ent : k \in Finished'}}
    BY DEF TObj
  <2>3. {Thread(e) : e \in UNION {k.ent : k \in {d}}} = U
    BY OneFinished
  <2> QED
    BY <2>1, <2>2, <2>3
<1>2. TBroken' = TBroken
  BY DEF TBroken
<1>3. TNext = c.next /\ TNext' = c.next + Took(todo')
  BY DEF TNext, Took
<1>4. /\ TObj = O /\ TObj' = U
      /\ \/ TNext' = TNext + 1 /\ MadeOne(O, U, TNext)
         \/ TNext' = TNext /\ (U = O \/ DestroyedOne(O, U) \/ MovedOne(O, U))
      /\ TNext \in Nat
  <2> HIDE DEF O, U
  <2>1. \/ Took(todo') = 1 /\ MadeOne(O, U, c.next)
        \/ Took(todo') = 0 /\ (U = O \/ DestroyedOne(O, U) \/ MovedOne(O, U))
    BY DEF OneChange, O, U
  <2> QED
    BY <1>1, <1>3, <2>1
<1> HIDE DEF O, U
<1>5. CASE U = O
  <2>1. TNext' = TNext
    BY <1>4, <1>5 DEF MadeOne
  <2> QED
    BY <1>2, <1>4, <1>5, <2>1 DEF Tree!vars, TObj, TNext, TBroken
<1>6. CASE TNext' = TNext + 1 /\ MadeOne(O, U, TNext)
  <2>1. PICK o \in U \ O :
          /\ U = O \cup {o} /\ o.id = TNext
          /\ HasDir(O, o.par) /\ \A x \in O : x.par = o.par => Fold[x.name] # Fold[o.name]
    BY <1>6 DEF MadeOne
  <2>2. o.id >= TNext /\ TNext' > o.id /\ U # O
    BY <1>4, <1>6, <2>1
  <2>3. Tree!Make
    BY <1>4, <2>1, <2>2 DEF Tree!Make, Tree!IsDir, Tree!Free, HasDir, TObj, TNext
  <2> QED
    BY <1>2, <1>4, <2>2, <2>3 DEF Tree!Next, TObj, TBroken
<1>7. CASE TNext' = TNext /\ DestroyedOne(O, U)
  <2>1. Tree!Destroy
    BY <1>4, <1>7 DEF Tree!Destroy, DestroyedOne, TObj, TNext
  <2>2. U # O
    BY <1>7 DEF DestroyedOne
  <2> QED
    BY <1>2, <1>4, <2>1, <2>2 DEF Tree!Next, TObj, TBroken
<1>8. CASE TNext' = TNext /\ MovedOne(O, U)
  <2>1. Tree!Move
    <3>1. PICK o \in O \ U, n \in U \ O :
            /\ U = (O \ {o}) \cup {n} /\ n.id = o.id /\ n.dir = o.dir
            /\ \A x \in O \ {o} : x.par = n.par => Fold[x.name] # Fold[n.name]
            /\ n.par # o.par =>
                 /\ HasDir(O, n.par)
                 /\ o.dir => o.id # RootDir /\ AvoidsIn(O, n.par, o.id)
      BY <1>8 DEF MovedOne
    <3>2. HasDir(O, n.par) => Tree!IsDir(n.par)
      BY <1>4 DEF Tree!IsDir, HasDir, TObj
    <3>3. AvoidsIn(O, n.par, o.id) => Tree!Avoids(n.par, o.id)
      BY <1>4 DEF Tree!Avoids, AvoidsIn, TObj
    <3> QED
      BY <1>4, <1>8, <3>1, <3>2, <3>3 DEF Tree!Move, TObj, TNext
  <2>2. U # O
    BY <1>8 DEF MovedOne
  <2> QED
    BY <1>2, <1>4, <2>1, <2>2 DEF Tree!Next, TObj, TBroken
<1> QED
  BY <1>4, <1>5, <1>6, <1>7, <1>8

\* TakeId is the first step of a call or none of its steps.
LEMMA TakesOnce ==
  ASSUME NEW k \in Volume, NEW p, Pending(k, p), p # << >>
  PROVE  Apply(k, Head(p)).next + Took(Tail(p)) = k.next + Took(p)
<1> DEFINE l == Apply(k, Head(p))
<1>0. k.ent \subseteq Ent /\ k.next \in Nat
  BY DEF Volume
<1>1. \A s \in Tame : s # TakeId
  BY DEF Tame, InsT, RemT, PutT, Cnt, Val, TakeId
<1>2. \A e \in Ent : AddEnt(e) # TakeId /\ DropEnt(e) # TakeId
  BY DEF AddEnt, DropEnt, TakeId
<1>3. \A t \in Seq(Tame) : Took(t) = 0
  <2> SUFFICES ASSUME NEW t \in Seq(Tame), t # << >> PROVE Head(t) # TakeId
    BY DEF Took
  <2> QED
    BY <1>1, HeadTailProperties, EmptySeq
<1>4. \A e \in Ent : Apply(k, AddEnt(e)).next = k.next /\ Apply(k, DropEnt(e)).next = k.next
  <2> SUFFICES ASSUME NEW e \in Ent
               PROVE  Apply(k, AddEnt(e)).next = k.next /\ Apply(k, DropEnt(e)).next = k.next
    OBVIOUS
  <2>1. /\ Apply(k, AddEnt(e)) = [k EXCEPT !.ent = @ \cup {e}]
        /\ Apply(k, DropEnt(e)) = [k EXCEPT !.ent = @ \ Found(k, e.par, e.name)]
    BY AppliedEnt
  <2> QED
    BY <2>1 DEF Volume
<1>5. \A e \in Ent, t \in Seq(Tame) : Took(<<AddEnt(e)>> \o t) = 0
  <2> SUFFICES ASSUME NEW e \in Ent, NEW t \in Seq(Tame)
               PROVE  Took(<<AddEnt(e)>> \o t) = 0
    OBVIOUS
  <2>1. Head(<<AddEnt(e)>> \o t) = AddEnt(e)
    BY EntTask, TamePart, OneMore
  <2> QED
    BY <1>2, <2>1 DEF Took
<1>6. CASE p \in Seq(Tame)
  <2>1. Head(p) \in Tame /\ Tail(p) \in Seq(Tame)
    BY <1>6, HeadTailProperties
  <2>2. l.next = k.next
    BY <2>1, TameSame DEF SameRecords
  <2>3. Took(p) = 0 /\ Took(Tail(p)) = 0
    BY <1>3, <1>6, <2>1
  <2> QED
    BY <2>2, <2>3
<1>7. ASSUME NEW e \in Ent, NEW t \in Seq(Tame), p = <<AddEnt(e)>> \o t
      PROVE  l.next + Took(Tail(p)) = k.next + Took(p)
  <2>1. Head(p) = AddEnt(e) /\ Tail(p) = t
    BY <1>7, EntTask, TamePart, OneMore
  <2>2. l.next = k.next /\ Took(p) = 0 /\ Took(Tail(p)) = 0
    BY <1>3, <1>4, <1>5, <1>7, <2>1
  <2> QED
    BY <2>2
<1>8. ASSUME NEW e \in Ent, NEW t \in Seq(Tame), p = <<TakeId, AddEnt(e)>> \o t
      PROVE  l.next + Took(Tail(p)) = k.next + Took(p)
  <2>1. Head(p) = TakeId /\ Tail(p) = <<AddEnt(e)>> \o t
    BY <1>8, EntTask, TakeIdTask, TamePart, TwoMore
  <2>2. l = [k EXCEPT !.next = @ + 1]
    BY <2>1, AppliedId
  <2>3. l.next = k.next + 1
    BY <2>2 DEF Volume
  <2>4. Took(p) = 1 /\ Took(Tail(p)) = 0
    BY <1>5, <2>1 DEF Took
  <2> HIDE DEF l
  <2> QED
    BY <1>0, <2>3, <2>4
<1>9. ASSUME NEW e \in Ent, NEW t \in Seq(Tame), p = <<DropEnt(e)>> \o t
      PROVE  l.next + Took(Tail(p)) = k.next + Took(p)
  <2>1. Head(p) = DropEnt(e) /\ Tail(p) = t
    BY <1>9, EntTask, TamePart, OneMore
  <2>2. l.next = k.next
    BY <1>4, <2>1
  <2>3. Took(p) = 0
    BY <1>2, <2>1 DEF Took
  <2>4. Took(Tail(p)) = 0
    BY <1>3, <2>1
  <2> HIDE DEF l
  <2> QED
    BY <1>0, <2>2, <2>3, <2>4
<1>10. ASSUME NEW e \in Ent, NEW f \in Ent, NEW t \in Seq(Tame),
              p = <<DropEnt(e), AddEnt(f)>> \o t
       PROVE  l.next + Took(Tail(p)) = k.next + Took(p)
  <2>1. Head(p) = DropEnt(e) /\ Tail(p) = <<AddEnt(f)>> \o t
    BY <1>10, EntTask, TamePart, TwoMore
  <2>2. l.next = k.next /\ Took(p) = 0 /\ Took(Tail(p)) = 0
    BY <1>2, <1>4, <1>5, <2>1 DEF Took
  <2> QED
    BY <2>2
<1> HIDE DEF l
<1> QED
  BY <1>0, <1>6, <1>7, <1>8, <1>9, <1>10 DEF Pending, l

\* A call that begins and goes as it should is one step of the tree.
LEMMA TreeBegin ==
  ASSUME ProgressInv, ProgressInv', harm = 0, NEW steps, NEW r, Begin(steps, r),
         Goes(c, steps, cwd, r),
         \A d : Runs(c, steps, d) /\ Intact(d) => OneChange(c, steps, d)
  PROVE  [Tree!Next]_(Tree!vars)
<1>1. todo = << >> /\ todo' = steps /\ c' = c /\ harm' = harm
  BY DEF Begin
<1>2. c \in Volume /\ c.next \in Nat
  BY DEF ProgressInv, RecordsInv, Volume
<1>3. steps \in Seq(Task)
  <2>1. Pending(c, steps)
    BY <1>1 DEF ProgressInv, RecordsInv
  <2> QED
    BY <1>2, <2>1, PendingTyped
<1>4. Finished' = After(c, steps) /\ Finished = {c}
  BY <1>1, <1>2, AfterNothing DEF Finished
<1>5. CASE After(c, steps) = {}
  <2>1. TBroken'
    BY <1>4, <1>5 DEF TBroken
  <2> QED
    BY <2>1, TreeBroken
<1>6. CASE After(c, steps) # {}
  <2>1. PICK d : After(c, steps) = {d} /\ Runs(c, steps, d) /\ Intact(d)
    BY <1>2, <1>3, <1>6, GoesWhere
  <2>2. OneChange(c, todo', d)
    BY <1>1, <2>1
  <2>3. Finished' = {d}
    BY <1>4, <2>1
  <2> QED
    BY <1>1, <1>2, <1>4, <2>2, <2>3, TreeChange
<1> QED
  BY <1>5, <1>6

\* Between calls nothing but the working directory changes.
LEMMA TreeCwd ==
  ASSUME UNCHANGED <<c, todo, harm>>
  PROVE  UNCHANGED Tree!vars
<1>1. Finished' = Finished /\ TNext' = TNext
  BY DEF Finished, TNext
<1> QED
  BY <1>1, TreeSame

\* A call that no step stops goes on to what it makes of the tree.
LEMMA TreeStep ==
  ASSUME ProgressInv, Step
  PROVE  [Tree!Next]_(Tree!vars)
<1>1. c \in Volume /\ Pending(c, todo) /\ harm \in Nat /\ todo # << >>
  BY DEF ProgressInv, RecordsInv, Step
<1>2. todo \in Seq(Task)
  BY <1>1, PendingTyped
<1>3. CASE Ready(c, Head(todo))
  <2>1. c' = Apply(c, Head(todo)) /\ todo' = Tail(todo) /\ harm' = harm
    BY <1>3 DEF Step
  <2>2. Finished' = Finished
    BY <1>1, <1>2, <1>3, <2>1, AfterStep DEF Finished
  <2>3. TNext' = TNext
    <3>1. TNext = c.next + Took(todo) /\ TNext' = c'.next + Took(todo')
      BY DEF TNext, Took
    <3>2. Apply(c, Head(todo)).next + Took(Tail(todo)) = c.next + Took(todo)
      BY <1>1, TakesOnce
    <3> QED
      BY <2>1, <3>1, <3>2
  <2> QED
    BY <2>1, <2>2, <2>3, TreeSame
<1>4. CASE ~Ready(c, Head(todo))
  <2>1. harm' = harm + 1
    BY <1>4 DEF Step, Fail
  <2>2. TBroken'
    BY <1>1, <2>1 DEF TBroken
  <2> QED
    BY <2>2, TreeBroken
<1> QED
  BY <1>3, <1>4

\* Every step of the catalog is a step of the tree, or nothing happens to it.
LEMMA TreeStays ==
  ASSUME ProgressInv, Countable, [Next]_vars
  PROVE  [Tree!Next]_(Tree!vars)
<1>0. ProgressInv'
  BY ProgressNext
<1>c. c \in Volume /\ cwd \in Nat /\ harm \in Nat
  BY DEF ProgressInv, RecordsInv
<1>d. ASSUME harm = 0, todo = << >> PROVE Intact(c) /\ CwdFits(c, cwd) /\ FewChildren(c)
  BY <1>d, AtRestIntact DEF Countable
<1>b. ASSUME NEW steps, NEW r, Begin(steps, r), harm # 0 PROVE [Tree!Next]_(Tree!vars)
  <2>1. harm' > 0
    BY <1>b, <1>c DEF Begin
  <2>2. TBroken'
    BY <2>1 DEF TBroken
  <2> QED
    BY <2>2, TreeBroken
<1>1. ASSUME NEW p \in Paths, Call(Look(p)), todo = << >> PROVE [Tree!Next]_(Tree!vars)
  <2> DEFINE r == Look(p)
  <2>0. harm = 0 => Sound(c, Walk(c, cwd), r)
    BY <1>1, LookWalks
  <2> HIDE DEF r
  <2>1. ASSUME NEW steps, steps = CreateSteps(c, r) \/ steps = MkdirSteps(c, r),
               Begin(steps, r), harm = 0
        PROVE  [Tree!Next]_(Tree!vars)
    <3>1. steps # Refused
      BY <2>1 DEF Begin
    <3>2. MayCreate(r)
      BY <2>1, <3>1 DEF CreateSteps, MkdirSteps
    <3>3. Goes(c, steps, cwd, r)
      BY <1>1, <1>c, <1>d, <2>0, <2>1, <3>1, CreateGoes, MkdirGoes
    <3>4. \A d : Runs(c, steps, d) /\ Intact(d) => OneChange(c, steps, d)
      BY <1>1, <1>c, <1>d, <2>0, <2>1, <3>2, CreateChanges
    <3> QED
      BY <1>0, <2>1, <3>3, <3>4, TreeBegin
  <2>2. ASSUME NEW steps, steps = RmdirSteps(r) \/ steps = DeleteSteps(c, r),
               Begin(steps, r), harm = 0
        PROVE  [Tree!Next]_(Tree!vars)
    <3>1. steps # Refused
      BY <2>2 DEF Begin
    <3>3. Goes(c, steps, cwd, r)
      BY <1>1, <1>c, <1>d, <2>0, <2>2, <3>1, RmdirGoes, DeleteGoes
    <3>4. \A d : Runs(c, steps, d) /\ Intact(d) => OneChange(c, steps, d)
      BY <1>1, <1>c, <1>d, <2>0, <2>2, <3>1, RemoveChanges
    <3> QED
      BY <1>0, <2>2, <3>3, <3>4, TreeBegin
  <2>3. CASE Create(r)
    BY <1>b, <2>1, <2>3 DEF Create
  <2>4. CASE Mkdir(r)
    BY <1>b, <2>1, <2>4 DEF Mkdir
  <2>5. CASE Rmdir(r)
    BY <1>b, <2>2, <2>5 DEF Rmdir
  <2>6. CASE Delete(r)
    BY <1>b, <2>2, <2>6 DEF Delete
  <2>7. CASE Chdir(r)
    BY <2>7, TreeCwd DEF Chdir
  <2> QED
    BY <1>1, <2>3, <2>4, <2>5, <2>6, <2>7 DEF Call, r
<1>2. ASSUME NEW p \in Paths, NEW q \in Paths, Rename(Look(p), Look(q), Typed(q)),
             todo = << >>
      PROVE  [Tree!Next]_(Tree!vars)
  <2> DEFINE a == Look(p)
             b == Look(q)
             t == Typed(q)
             steps == RenameSteps(c, a, b, t)
  <2>1. harm = 0 => /\ Sound(c, Walk(c, cwd), a) /\ Sound(c, Walk(c, cwd), b)
                    /\ t \in Name \cup {NoName}
    BY <1>2, LookWalks
  <2>2. Begin(steps, b) /\ steps = RenameSteps(c, a, b, t)
    BY <1>2 DEF Rename
  <2> HIDE DEF a, b, t, steps
  <2>3. steps # Refused
    BY <2>2 DEF Begin
  <2>4. CASE harm = 0
    <3>1. Goes(c, steps, cwd, b)
      BY <1>2, <1>c, <1>d, <2>1, <2>2, <2>3, <2>4, RenameGoes
    <3>2. \A d : Runs(c, steps, d) /\ Intact(d) => OneChange(c, steps, d)
      BY <1>2, <1>c, <1>d, <2>1, <2>2, <2>3, <2>4, RenameChanges
    <3> QED
      BY <1>0, <2>2, <2>4, <3>1, <3>2, TreeBegin
  <2> QED
    BY <1>b, <2>2, <2>4
<1>3. ASSUME NEW id \in RootDir..MaxId, SetCwd(id) PROVE [Tree!Next]_(Tree!vars)
  BY <1>3, TreeCwd DEF SetCwd
<1>4. CASE Step
  BY <1>4, TreeStep
<1>5. CASE Fault
  <2>1. harm' = harm + 1
    BY <1>5 DEF Fault, Fail
  <2>2. TBroken'
    BY <1>c, <2>1 DEF TBroken
  <2> QED
    BY <2>2, TreeBroken
<1>6. CASE UNCHANGED vars
  BY <1>6, TreeCwd DEF vars
<1> QED
  BY <1>1, <1>2, <1>3, <1>4, <1>5, <1>6 DEF Next, NewCall

\* A volume that may be mounted is a tree.
LEMMA TreeInit == Init => Tree!Init
<1> SUFFICES ASSUME Init PROVE Tree!Init
  OBVIOUS
<1>1. Intact(c) /\ c \in Volume /\ harm = 0 /\ todo = << >>
  BY CatalogAssumption DEF Init, Intact
<1>2. Finished = {c}
  BY <1>1, AfterNothing DEF Finished
<1>3. TObj = Objs(c)
  BY <1>2, OneFinished DEF TObj
<1>4. TNext = c.next /\ c.next \in Nat
  BY <1>1 DEF TNext, Volume
<1>5. HasDir(TObj, RootDir)
  BY <1>1, <1>3, DirObjs DEF Intact, Rooted
<1>6. \A o \in TObj : o.id < TNext
  BY <1>1, <1>3, <1>4 DEF Objs, Thread, Intact, Unique
<1>7. TBroken = FALSE
  BY <1>1, <1>2 DEF TBroken
<1> QED
  BY <1>5, <1>6, <1>7 DEF Tree!Init, HasDir, TObj, TNext, TBroken

\* hfs_create, hfs_mkdir, hfs_rmdir, hfs_delete and hfs_rename each make, remove
\* or move one object of a tree, take no number twice, close no loop and leave
\* nothing without a directory, until one of them fails half way.
THEOREM CatalogIsTree == Spec /\ []Countable => IsDirTree
<1>1. Spec /\ []Countable => []ProgressInv
  BY ProgressStays
<1>2. Init => Tree!Init
  BY TreeInit
<1>3. ProgressInv /\ Countable /\ [Next]_vars => [Tree!Next]_(Tree!vars)
  BY TreeStays
<1> QED
  BY <1>1, <1>2, <1>3, PTL DEF Spec, IsDirTree, Tree!Spec

=============================================================================
