-------------------------- MODULE FileExtentsProofs --------------------------
(***************************************************************************)
(* Proofs about module FileExtents.                                        *)
(*                                                                         *)
(* The properties say what Chain(k), a recursive walk over the records,    *)
(* gives.  The inductive invariant says instead how each record fits a     *)
(* sequence of blocks (Tiled): it describes a stretch of it, the next one  *)
(* begins where it ends, and only the last may have empty descriptors.     *)
(* Such a sequence is what the walk gives (ChainIs), so that a call can be *)
(* understood by saying which sequence the records fit after it.           *)
(*                                                                         *)
(* The loops of the code are functions defined by recursion; that they     *)
(* have values, and what holds of all of them, follows from Solution and   *)
(* Along.                                                                  *)
(***************************************************************************)
EXTENDS FileExtents, FiniteSetTheorems, SequenceTheorems, WellFoundedInduction, TLAPS

\* an extent record
Rec == [1..Width -> Extent]
\* the overflow records of a fork
Trees == UNION {[D -> Rec] : D \in SUBSET (1..NBlocks)}

\* the end of a record that begins at block n
Total(ext, n) == Ends(ext, n)[Width]

\* empty descriptors follow the others; there is none
Shaped(ext) == \A i, j \in 1..Width : i <= j /\ ext[i].len = 0 => ext[j].len = 0
\* no descriptor of the record is empty
Full(ext)   == \A i \in 1..Width : ext[i].len > 0

\* a record that begins at block n describes blocks of the fork c
Matches(ext, n, c) ==
  /\ Total(ext, n) <= Len(c)
  /\ \A i \in 1..Width : \A j \in 1..ext[i].len :
       c[Ends(ext, n)[i - 1] + j] = ext[i].at + j - 1

\* the blocks with which a fork's records begin, and the record that begins there
Starts(t) == {0} \cup DOMAIN t
RecordAt(first, t, n) == IF n = 0 THEN first ELSE t[n]

\* the record fits
Fits(x, n, t, c) ==
  /\ x \in Rec /\ Shaped(x) /\ Matches(x, n, c)
  /\ n # 0 => x[1].len > 0
  /\ Total(x, n) < Len(c) => Total(x, n) \in DOMAIN t /\ Full(x)
  /\ \A m \in DOMAIN t : n < m => Total(x, n) <= m

\* The catalog's record "first" and the overflow records t describe the blocks c,
\* one record after the other.
Tiled(first, t, c) ==
  /\ t \in Trees /\ c \in Seq(ABN)
  /\ \A n \in Starts(t) : Fits(RecordAt(first, t, n), n, t, c)

\* no block is in a fork twice
Once(c) == \A i, j \in 1..Len(c) : c[i] = c[j] => i = j

\* What a fork's lengths and records owe to its blocks.
ForkSound(fork, t, c) ==
  /\ Tiled(fork.ext, t, c) /\ Once(c)
  /\ fork.py = Len(c) /\ fork.lg \in 0..Len(c)

\* The handle's copy of an extent record is the one that begins at "fabn"; or
\* it is of no use, as the record for it was not inserted.
AtRecord(f, t) == f.fabn \in Starts(t) /\ f.ext = RecordAt(f.rec[f.fork].ext, t, f.fabn)
Lost(f, c) == f.fabn = Len(c) /\ f.fabn # 0

\* an open file
Handle == [fork : Fork, ext : Rec, fabn : 0..NBlocks, rec : Forks, upd : BOOLEAN]

\* an open file's copies
HandleSound ==
  pc \in {"idle", "writing"} =>
    /\ h.upd \/ stored = h.rec
    /\ AtRecord(h, tree[h.fork]) \/ Lost(h, Chain(h.fork))

\* the rest of the running hfs_write
WriteSound ==
  pc = "writing" => /\ h.upd /\ todo.pos <= h.rec[h.fork].lg /\ todo.count # 0

\* The inductive invariant.
IInv ==
  /\ TypeOK /\ tree \in [Fork -> Trees]
  /\ \A k \in Fork : ForkSound(Current[k], tree[k], Chain(k))
  /\ SpaceAccounted /\ HandleSound /\ WriteSound
  /\ pc = "absent" => stored = NewForks

-----------------------------------------------------------------------------
(***************************************************************************)
(* Recursive functions.                                                    *)
(***************************************************************************)
\* A set of natural numbers that has an element has a least one.
LEMMA Least ==
  ASSUME NEW S \in SUBSET Nat, S # {}
  PROVE  \E x \in S : \A y \in S : x <= y
<1>1. \E R : IsWellFoundedOn(R, Nat) /\ \A x, y \in Nat : y < x => <<y, x>> \in R
  <2> DEFINE R == OpToRel(<, Nat)
  <2>1. IsWellFoundedOn(R, Nat)
    BY NatLessThanWellFounded, Zenon
  <2>2. \A x, y \in Nat : y < x => <<y, x>> \in R
    BY DEF OpToRel
  <2> QED
    BY <2>1, <2>2, Zenon
<1>2. PICK R : IsWellFoundedOn(R, Nat) /\ \A x, y \in Nat : y < x => <<y, x>> \in R
  BY <1>1
<1>3. \E x \in S : \A y \in S : <<y, x>> \notin R
  BY <1>2, WFMin, Zenon
<1>4. PICK x \in S : \A y \in S : <<y, x>> \notin R
  BY <1>3
<1>5. ASSUME NEW y \in S PROVE x <= y
  <2>1. x \in Nat /\ y \in Nat /\ ~ (y < x)
    BY <1>2, <1>4
  <2> QED
    BY <2>1
<1> QED
  BY <1>4, <1>5

\* A recursion over 0..n with values in S, and what it is to solve it.
Recursive(S, n, F, a) == n \in Nat /\ F \in [S \X (1..n) -> S] /\ a \in S

\* f is a solution
Solves(S, n, F, a, f) ==
  f \in [0..n -> S] /\ f[0] = a /\ \A i \in 1..n : f[i] = F[<<f[i - 1], i>>]

\* The recursion has a solution, so that the function defined by it is one.
LEMMA Solution ==
  ASSUME NEW S, NEW n, NEW F, NEW a, Recursive(S, n, F, a)
  PROVE  \E f : Solves(S, n, F, a, f)
<1>a. n \in Nat /\ F \in [S \X (1..n) -> S] /\ a \in S
  BY DEF Recursive
<1> DEFINE Upto(m) == \E f \in [0..m -> S] :
                        f[0] = a /\ \A i \in 1..m : f[i] = F[<<f[i - 1], i>>]
           Bad == {m \in 0..n : ~Upto(m)}
<1>0. Bad \in SUBSET Nat /\ \A m \in 0..n : m \in Bad <=> ~ Upto(m)
  <2> HIDE DEF Upto
  <2> QED
    BY <1>a
<1>1. SUFFICES ASSUME Bad # {} PROVE FALSE
  <2>1. n \in 0..n
    BY <1>a
  <2>2. Upto(n)
    <3> HIDE DEF Upto, Bad
    <3> QED
      BY <2>1, <1>0, <1>1
  <2> QED
    BY <2>2 DEF Solves
<1> HIDE DEF Bad
<1>2. PICK m \in Bad : \A k \in Bad : m <= k
  BY <1>0, <1>1, Least
<1>3. CASE m = 0
  <2> DEFINE g == [i \in 0..m |-> a]
  <2>1. g \in [0..m -> S] /\ g[0] = a /\ 1..m = {}
    BY <1>a, <1>3
  <2>2. Upto(m)
    <3> HIDE DEF g
    <3> QED
      BY <2>1
  <2>3. m \in Bad /\ m \in 0..n
    BY <1>0, <1>2 DEF Bad
  <2> HIDE DEF Upto
  <2> QED
    BY <2>2, <2>3, <1>0
<1>4. CASE m # 0
  <2>1. m - 1 \in 0..n /\ m \in 1..n /\ Upto(m - 1)
    <3>1. m \in 0..n /\ m \in Nat /\ m - 1 \in 0..n /\ m \in 1..n
      <4>1. m \in 0..n
        BY <1>0, <1>2 DEF Bad
      <4> QED
        BY <4>1, <1>4, <1>a
    <3>2. m - 1 \notin Bad
      BY <1>0, <1>2, <3>1
    <3> QED
      BY <1>0, <3>1, <3>2
  <2>2. PICK f \in [0..m - 1 -> S] : f[0] = a /\ \A i \in 1..m - 1 : f[i] = F[<<f[i - 1], i>>]
    BY <2>1
  <2> DEFINE g == [i \in 0..m |-> IF i = m THEN F[<<f[m - 1], m>>] ELSE f[i]]
  <2>3. F[<<f[m - 1], m>>] \in S
    <3>1. <<f[m - 1], m>> \in S \X (1..n)
      BY <2>1, <2>2, <1>a
    <3> QED
      BY <3>1, <1>a
  <2>4. g \in [0..m -> S]
    BY <2>1, <2>2, <2>3
  <2>5. g[0] = a
    BY <2>1, <2>2, <1>4
  <2>6. ASSUME NEW i \in 1..m PROVE g[i] = F[<<g[i - 1], i>>]
    <3>1. CASE i = m
      <4>1. g[i] = F[<<f[m - 1], m>>] /\ g[i - 1] = f[m - 1]
        BY <3>1, <2>1
      <4> HIDE DEF g
      <4> QED
        BY <3>1, <4>1
    <3>2. CASE i # m
      <4>1. i \in 1..m - 1 /\ i - 1 \in 0..m /\ i - 1 # m /\ i \in 0..m
        BY <3>2, <2>1
      <4>2. g[i] = f[i] /\ g[i - 1] = f[i - 1]
        BY <4>1, <3>2
      <4>3. f[i] = F[<<f[i - 1], i>>]
        BY <4>1, <2>2
      <4> HIDE DEF g
      <4> QED
        BY <4>2, <4>3
    <3> QED
      BY <3>1, <3>2
  <2>7. Upto(m)
    <3> HIDE DEF g
    <3> QED
      BY <2>4, <2>5, <2>6
  <2>8. m \in Bad /\ m \in 0..n
    BY <1>0, <1>2 DEF Bad
  <2> HIDE DEF Upto
  <2> QED
    BY <2>7, <2>8, <1>0
<1> QED
  BY <1>3, <1>4

\* What holds of the start of a recursion and is kept by it holds all along.
LEMMA Along ==
  ASSUME NEW S, NEW n \in Nat, NEW f, NEW T,
         <<0, f[0]>> \in T,
         \A i \in 1..n : <<i - 1, f[i - 1]>> \in T => <<i, f[i]>> \in T
  PROVE  \A i \in 0..n : <<i, f[i]>> \in T
<1> DEFINE Bad == {i \in 0..n : <<i, f[i]>> \notin T}
<1> SUFFICES ASSUME Bad # {} PROVE FALSE
  OBVIOUS
<1>1. Bad \in SUBSET Nat
  OBVIOUS
<1>2. PICK i \in Bad : \A j \in Bad : i <= j
  <2> HIDE DEF Bad
  <2> QED
    BY <1>1, Least
<1>3. i \in 0..n /\ <<i, f[i]>> \notin T /\ i \in Nat
  OBVIOUS
<1>4. i # 0
  BY <1>3
<1>5. i \in 1..n /\ i - 1 \in 0..n /\ ~ (i <= i - 1)
  BY <1>3, <1>4
<1>6. i - 1 \notin Bad
  <2> HIDE DEF Bad
  <2> QED
    BY <1>2, <1>5
<1>7. <<i - 1, f[i - 1]>> \in T
  BY <1>5, <1>6
<1> QED
  BY <1>3, <1>5, <1>7

-----------------------------------------------------------------------------
(***************************************************************************)
(* Extent records and where they end.                                      *)
(***************************************************************************)
\* The boundaries of a record's extents.
EndsOf(ext, n, e) ==
  /\ e \in [0..Width -> Nat] /\ e[0] = n
  /\ \A i \in 1..Width : e[i] = e[i - 1] + ext[i].len

\* The constants.
LEMMA WidthIsNat == Width \in Nat /\ Width \in 1..Width /\ 0 \in 0..Width /\ 1 \in 1..Width /\ Width \in 0..Width /\ NBlocks \in Nat
BY ExtentsAssumption

\* The descriptors of a record.
LEMMA RecFields ==
  ASSUME NEW ext \in Rec
  PROVE  /\ \A i \in 1..Width : ext[i] \in Extent /\ ext[i].len \in Nat /\ ext[i].at \in ABN /\ ext[i].len \in 0..NBlocks
BY WidthIsNat DEF Rec, Extent

\* Ends, a function defined by recursion, is one;
LEMMA EndsAre ==
  ASSUME NEW ext \in Rec, NEW n \in Nat
  PROVE  EndsOf(ext, n, Ends(ext, n))
<1> DEFINE N == Width
           F == [x \in Nat \X (1..N) |-> x[1] + ext[x[2]].len]
           body(f) == [i \in 0..N |-> IF i = 0 THEN n ELSE f[i - 1] + ext[i].len]
           end == CHOOSE f : f = body(f)
<1>0. N \in Nat
  BY WidthIsNat
<1>1. F \in [Nat \X (1..N) -> Nat]
  BY RecFields
<1>2. PICK f : Solves(Nat, N, F, n, f)
  BY <1>0, <1>1, Solution DEF Recursive
<1>3. f \in [0..N -> Nat] /\ f[0] = n /\ \A i \in 1..N : f[i] = f[i - 1] + ext[i].len
  <2>1. f \in [0..N -> Nat] /\ f[0] = n /\ \A i \in 1..N : f[i] = F[<<f[i - 1], i>>]
    BY <1>2 DEF Solves
  <2>2. \A i \in 1..N : i - 1 \in 0..N
    BY <1>0
  <2> HIDE DEF N
  <2> QED
    BY <2>1, <2>2
<1> HIDE DEF N
<1>4. f = body(f)
  <2>1. \A i \in 0..N : i = 0 \/ i \in 1..N
    BY <1>0
  <2> QED
    BY <1>3, <2>1
<1>5. end = body(end)
  <2> HIDE DEF body
  <2> QED
    BY <1>4
<1>6. end = Ends(ext, n)
  BY DEF Ends, N
<1> HIDE DEF end
<1>7. end[0] = n /\ \A i \in 1..N : end[i] = end[i - 1] + ext[i].len
  <2>1. \A i \in 1..N : i \in 0..N /\ i # 0
    BY <1>0
  <2> QED
    BY <1>5, <2>1, <1>0
<1> DEFINE T == {x \in Nat \X Nat : TRUE}
<1>8. <<0, end[0]>> \in T
  BY <1>7
<1>9. ASSUME NEW i \in 1..N, <<i - 1, end[i - 1]>> \in T PROVE <<i, end[i]>> \in T
  BY <1>7, <1>9, RecFields DEF N
<1>10. \A i \in 0..N : <<i, end[i]>> \in T
  <2> HIDE DEF T
  <2> QED
    BY <1>0, <1>8, <1>9, Along
<1>11. \A i \in 0..N : end[i] \in Nat
  BY <1>10
<1>12. end \in [0..N -> Nat]
  <2> HIDE DEF T
  <2>1. end = [i \in 0..N |-> end[i]]
    BY <1>5
  <2> QED
    BY <2>1, <1>11
<1> QED
  BY <1>6, <1>7, <1>12 DEF EndsOf, N

\* so that it gives a number for each descriptor, which grows by its length
LEMMA EndsTyped ==
  ASSUME NEW ext \in Rec, NEW n \in Nat
  PROVE  /\ Ends(ext, n) \in [0..Width -> Nat] /\ Ends(ext, n)[0] = n
         /\ \A i \in 1..Width : Ends(ext, n)[i] = Ends(ext, n)[i - 1] + ext[i].len
         /\ Total(ext, n) \in Nat /\ \A i \in 0..Width : Ends(ext, n)[i] \in Nat
BY EndsAre, WidthIsNat, Zenon DEF EndsOf, Total

\* and never falls.
LEMMA EndsGrow ==
  ASSUME NEW ext \in Rec, NEW n \in Nat, NEW i \in 0..Width, NEW j \in 0..Width, i <= j
  PROVE  Ends(ext, n)[i] <= Ends(ext, n)[j]
<1> DEFINE e == Ends(ext, n)
           T == {x \in Nat \X Nat : x[1] >= i => e[i] <= x[2]}
<1>1. e \in [0..Width -> Nat] /\ \A k \in 1..Width : e[k] = e[k - 1] + ext[k].len
  BY EndsTyped
<1> HIDE DEF e
<1>2. <<0, e[0]>> \in T
  BY <1>1, WidthIsNat
<1>3. ASSUME NEW k \in 1..Width, <<k - 1, e[k - 1]>> \in T PROVE <<k, e[k]>> \in T
  <2>1. ext[k].len \in Nat /\ e[k] \in Nat /\ e[k - 1] \in Nat /\ e[i] \in Nat /\ e[k] = e[k - 1] + ext[k].len /\ i \in Nat
    BY <1>1, RecFields, WidthIsNat
  <2>2. CASE k = i
    BY <2>1, <2>2
  <2>3. CASE k # i
    <3>1. k - 1 >= i => e[i] <= e[k - 1]
      BY <1>3
    <3> QED
      BY <3>1, <2>1, <2>3
  <2> QED
    BY <2>2, <2>3
<1>4. \A k \in 0..Width : <<k, e[k]>> \in T
  <2> HIDE DEF T
  <2> QED
    BY WidthIsNat, <1>2, <1>3, Along
<1>5. e[i] <= e[j]
  BY <1>4
<1> QED
  BY <1>5 DEF e

\* The boundaries depend on the lengths only.
LEMMA EndsAlike ==
  ASSUME NEW x \in Rec, NEW y \in Rec, NEW n \in Nat, NEW m \in 0..Width,
         \A i \in 1..m : x[i].len = y[i].len
  PROVE  \A i \in 0..m : Ends(x, n)[i] = Ends(y, n)[i]
<1> DEFINE e == Ends(x, n)
           f == Ends(y, n)
           T == {p \in Nat \X Nat : p[1] <= m => p[2] = f[p[1]]}
<1>1. /\ e \in [0..Width -> Nat] /\ \A k \in 1..Width : e[k] = e[k - 1] + x[k].len
      /\ f \in [0..Width -> Nat] /\ \A k \in 1..Width : f[k] = f[k - 1] + y[k].len
      /\ e[0] = n /\ f[0] = n
  BY EndsTyped
<1> HIDE DEF e, f
<1>2. <<0, e[0]>> \in T
  BY <1>1, WidthIsNat
<1>3. ASSUME NEW k \in 1..Width, <<k - 1, e[k - 1]>> \in T PROVE <<k, e[k]>> \in T
  <2>1. k \in Nat /\ e[k] \in Nat /\ e[k] = e[k - 1] + x[k].len /\ f[k] = f[k - 1] + y[k].len
    BY <1>1, WidthIsNat
  <2>2. ASSUME k <= m PROVE e[k] = f[k]
    <3>1. k - 1 <= m => e[k - 1] = f[k - 1]
      BY <1>3
    <3>2. k \in 1..m /\ k - 1 <= m
      BY <2>2, WidthIsNat
    <3> QED
      BY <3>1, <3>2, <2>1
  <2> QED
    BY <2>1, <2>2
<1>4. \A k \in 0..Width : <<k, e[k]>> \in T
  <2> HIDE DEF T
  <2> QED
    BY WidthIsNat, <1>2, <1>3, Along
<1>5. ASSUME NEW k \in 0..m PROVE e[k] = f[k]
  <2>1. k \in 0..Width /\ k <= m
    BY WidthIsNat
  <2>2. <<k, e[k]>> \in T
    BY <2>1, <1>4
  <2> QED
    BY <2>1, <2>2
<1> QED
  BY <1>5 DEF e, f

\* No extent after the i-th.
LEMMA EndsFlat ==
  ASSUME NEW x \in Rec, NEW n \in Nat, NEW m \in 0..Width,
         \A i \in m + 1..Width : x[i].len = 0
  PROVE  \A i \in m..Width : Ends(x, n)[i] = Ends(x, n)[m]
<1> DEFINE e == Ends(x, n)
           T == {p \in Nat \X Nat : p[1] >= m => p[2] = e[m]}
<1>1. /\ e \in [0..Width -> Nat] /\ \A k \in 1..Width : e[k] = e[k - 1] + x[k].len
  BY EndsTyped
<1> HIDE DEF e
<1>2. <<0, e[0]>> \in T
  BY <1>1, WidthIsNat
<1>3. ASSUME NEW k \in 1..Width, <<k - 1, e[k - 1]>> \in T PROVE <<k, e[k]>> \in T
  <2>1. k \in Nat /\ e[k] \in Nat /\ e[k - 1] \in Nat /\ e[k] = e[k - 1] + x[k].len /\ m \in Nat
    BY <1>1, WidthIsNat
  <2>2. CASE k > m
    <3>1. k - 1 >= m => e[k - 1] = e[m]
      BY <1>3
    <3>2. k \in m + 1..Width /\ k - 1 >= m
      BY <2>2, <2>1, WidthIsNat
    <3>3. x[k].len = 0
      BY <3>2
    <3> QED
      BY <3>1, <3>2, <3>3, <2>1
  <2> QED
    BY <2>1, <2>2
<1>4. \A k \in 0..Width : <<k, e[k]>> \in T
  <2> HIDE DEF T
  <2> QED
    BY WidthIsNat, <1>2, <1>3, Along
<1>5. ASSUME NEW k \in m..Width PROVE e[k] = e[m]
  <2>1. k \in 0..Width /\ k >= m
    BY WidthIsNat
  <2>2. <<k, e[k]>> \in T
    BY <2>1, <1>4
  <2> QED
    BY <2>1, <2>2
<1> QED
  BY <1>5 DEF e

\* A record that begins later ends later by as much.
LEMMA EndsShift ==
  ASSUME NEW x \in Rec, NEW n \in Nat
  PROVE  \A i \in 0..Width : Ends(x, n)[i] = n + Ends(x, 0)[i]
<1> DEFINE e == Ends(x, n)
           f == Ends(x, 0)
           T == {p \in Nat \X Nat : p[2] = n + f[p[1]]}
<1>1. /\ e \in [0..Width -> Nat] /\ \A k \in 1..Width : e[k] = e[k - 1] + x[k].len
      /\ f \in [0..Width -> Nat] /\ \A k \in 1..Width : f[k] = f[k - 1] + x[k].len
      /\ e[0] = n /\ f[0] = 0
  <2>1. 0 \in Nat
    OBVIOUS
  <2> QED
    BY <2>1, EndsTyped
<1> HIDE DEF e, f
<1>2. <<0, e[0]>> \in T
  BY <1>1, WidthIsNat
<1>3. ASSUME NEW k \in 1..Width, <<k - 1, e[k - 1]>> \in T PROVE <<k, e[k]>> \in T
  <2>1. k \in Nat /\ e[k] \in Nat /\ e[k] = e[k - 1] + x[k].len /\ f[k] = f[k - 1] + x[k].len /\ f[k - 1] \in Nat /\ x[k].len \in Nat
    BY <1>1, WidthIsNat, RecFields
  <2>2. e[k - 1] = n + f[k - 1]
    BY <1>3
  <2> QED
    BY <2>1, <2>2
<1>4. \A k \in 0..Width : <<k, e[k]>> \in T
  <2> HIDE DEF T
  <2> QED
    BY WidthIsNat, <1>2, <1>3, Along
<1>5. \A k \in 0..Width : e[k] = n + f[k]
  BY <1>4, WidthIsNat
<1> QED
  BY <1>5 DEF e, f

\* Every block of a record lies in one of its extents.
LEMMA InExtent ==
  ASSUME NEW x \in Rec, NEW n \in Nat, NEW q \in Int, n < q, q <= Total(x, n)
  PROVE  \E i \in 1..Width : Ends(x, n)[i - 1] < q /\ q <= Ends(x, n)[i]
<1> DEFINE e == Ends(x, n)
           S == {i \in 0..Width : q <= e[i]}
<1>1. /\ e \in [0..Width -> Nat] /\ \A k \in 1..Width : e[k] = e[k - 1] + x[k].len
      /\ e[0] = n /\ e[Width] = Total(x, n)
  BY EndsTyped DEF Total
<1> HIDE DEF e
<1>2. S \in SUBSET Nat /\ S # {}
  <2>1. Width \in S /\ \A i \in 0..Width : i \in Nat
    BY <1>1, WidthIsNat
  <2> QED
    BY <2>1
<1>3. PICK i \in S : \A j \in S : i <= j
  <2> HIDE DEF S
  <2> QED
    BY <1>2, Least
<1>4. i \in 0..Width /\ q <= e[i] /\ i # 0 /\ i \in Nat
  BY <1>1, <1>3
<1>5. i - 1 \notin S /\ i - 1 \in 0..Width /\ i \in 1..Width
  <2> HIDE DEF S
  <2>1. ~ (i <= i - 1)
    BY <1>4
  <2> QED
    BY <1>3, <1>4, <2>1, WidthIsNat
<1>6. e[i - 1] < q
  BY <1>1, <1>5
<1> QED
  BY <1>4, <1>5, <1>6 DEF e

-----------------------------------------------------------------------------
(***************************************************************************)
(* The blocks of a record.                                                 *)
(***************************************************************************)
\* the blocks of the first m extents of a record
Lists(ext, m, b) ==
  /\ b \in Seq(Int) /\ Len(b) = Ends(ext, 0)[m]
  /\ \A i \in 1..m : \A j \in 1..ext[i].len : b[Ends(ext, 0)[i - 1] + j] = ext[i].at + j - 1

\* the blocks of an extent, in order
RunOf(x) == [j \in 1..x.len |-> x.at + j - 1]

\* An extent's blocks.
LEMMA RunIsSeq ==
  ASSUME NEW x \in Extent
  PROVE  RunOf(x) \in Seq(Int) /\ Len(RunOf(x)) = x.len
         /\ \A j \in 1..x.len : RunOf(x)[j] = x.at + j - 1
BY ExtentsAssumption DEF RunOf, Extent, ABN

\* One more descriptor adds its blocks;
LEMMA ListsOneMore ==
  ASSUME NEW ext \in Rec, NEW m \in 1..Width, NEW b, Lists(ext, m - 1, b)
  PROVE  Lists(ext, m, b \o RunOf(ext[m]))
<1> DEFINE e == Ends(ext, 0)
           r == RunOf(ext[m])
<1>1. /\ e \in [0..Width -> Nat] /\ \A i \in 1..Width : e[i] = e[i - 1] + ext[i].len
      /\ \A i \in 0..Width, k \in 0..Width : i <= k => e[i] <= e[k]
  <2>1. 0 \in Nat
    OBVIOUS
  <2> QED
    BY <2>1, EndsTyped, EndsGrow
<1>2. b \in Seq(Int) /\ Len(b) = e[m - 1]
      /\ \A i \in 1..m - 1 : \A j \in 1..ext[i].len : b[e[i - 1] + j] = ext[i].at + j - 1
  BY DEF Lists
<1>3. r \in Seq(Int) /\ Len(r) = ext[m].len /\ \A j \in 1..ext[m].len : r[j] = ext[m].at + j - 1
  BY RunIsSeq, RecFields
<1>4. m \in Nat /\ m - 1 \in 0..Width /\ m \in 0..Width /\ ext[m].len \in Nat /\ e[m] = e[m - 1] + ext[m].len /\ e[m - 1] \in Nat
  BY <1>1, WidthIsNat, RecFields
<1>5. \A i \in 1..m - 1 : i \in 1..Width /\ i \in 0..Width /\ i - 1 \in 0..Width /\ i <= m - 1
  BY WidthIsNat, <1>4
<1> HIDE DEF e, r
<1>6. b \o r \in Seq(Int) /\ Len(b \o r) = e[m]
      /\ \A q \in 1..e[m] : (b \o r)[q] = IF q <= Len(b) THEN b[q] ELSE r[q - Len(b)]
  <2>1. b \in Seq(Int) /\ r \in Seq(Int)
    BY <1>2, <1>3
  <2>2. /\ b \o r \in Seq(Int) /\ Len(b \o r) = Len(b) + Len(r)
        /\ \A q \in 1..Len(b) + Len(r) : (b \o r)[q] = IF q <= Len(b) THEN b[q] ELSE r[q - Len(b)]
    BY ONLY <2>1, ConcatProperties
  <2>3. Len(b) + Len(r) = e[m]
    BY <1>2, <1>3, <1>4
  <2> QED
    BY <2>2, <2>3
<1>7. ASSUME NEW i \in 1..m, NEW j \in 1..ext[i].len PROVE (b \o r)[e[i - 1] + j] = ext[i].at + j - 1
  <2>1. CASE i = m
    <3>0. ext[m].len = Len(r) /\ Len(r) \in Nat /\ Len(b) \in Nat /\ j \in 1..ext[m].len /\ e[i - 1] = Len(b) /\ e[m] = Len(b) + Len(r)
      BY <2>1, <1>2, <1>3, <1>4
    <3>1. j \in 1..ext[m].len /\ e[i - 1] + j = Len(b) + j /\ j \in 1..Len(r) /\ j \in Nat /\ Len(b) + j \in 1..e[m]
          /\ ~(Len(b) + j <= Len(b)) /\ Len(b) + j - Len(b) = j
      BY <3>0
    <3>2. (b \o r)[Len(b) + j] = r[j]
      BY <3>1, <1>6
    <3> QED
      BY <3>1, <3>2, <1>3, <2>1
  <2>2. CASE i # m
    <3>1. i \in 1..m - 1
      BY <2>2, <1>4
    <3>a. i \in 1..Width /\ i \in 0..Width /\ i - 1 \in 0..Width /\ i <= m - 1
      BY <3>1, <1>5
    <3>2. ext[i].len \in Nat /\ e[i] = e[i - 1] + ext[i].len /\ e[i] <= e[m - 1] /\ e[i - 1] \in Nat /\ e[i] \in Nat
      <4>1. ext[i].len \in Nat
        BY <3>a, RecFields
      <4> QED
        BY <4>1, <3>a, <1>1, <1>4
    <3>5. Len(b) = e[m - 1] /\ e[m] >= Len(b) /\ e[m] \in Nat /\ Len(b) \in Nat
      BY <1>2, <1>4
    <3>3. e[i - 1] + j \in 1..Len(b) /\ e[i - 1] + j \in 1..e[m] /\ e[i - 1] + j <= Len(b)
      <4> DEFINE a == e[i - 1]
                 z == e[i]
                 y == e[m]
                 g == ext[i].len
                 s == Len(b)
      <4>1. g \in Nat /\ a \in Nat /\ z \in Nat /\ y \in Nat /\ s \in Nat /\ z = a + g /\ z <= s /\ y >= s /\ j \in 1..g
        BY <3>2, <3>5
      <4> HIDE DEF a, z, y, g, s
      <4>2. a + j \in 1..s /\ a + j \in 1..y /\ a + j <= s
        BY ONLY <4>1
      <4> QED
        BY ONLY <4>2 DEF a, y, s
    <3>4. (b \o r)[e[i - 1] + j] = b[e[i - 1] + j]
      BY <3>3, <1>6
    <3> QED
      BY <3>1, <3>4, <1>2
  <2> QED
    BY <2>1, <2>2
<1> QED
  BY <1>6, <1>7 DEF Lists, e, r

\* all of them give the record's blocks.
LEMMA BlocksAre ==
  ASSUME NEW ext \in Rec
  PROVE  Lists(ext, Width, Blocks(ext))
<1> DEFINE N == Width
           body(f) == [i \in 0..N |-> IF i = 0 THEN << >> ELSE f[i - 1] \o [j \in 1..ext[i].len |-> ext[i].at + j - 1]]
           upto == CHOOSE f : f = body(f)
           F == [x \in Seq(Int) \X (1..N) |-> x[1] \o RunOf(ext[x[2]])]
<1>0. N \in Nat /\ N \in 0..N
  BY WidthIsNat
<1>1. F \in [Seq(Int) \X (1..N) -> Seq(Int)]
  <2>1. \A i \in 1..N : RunOf(ext[i]) \in Seq(Int)
    BY RunIsSeq, RecFields
  <2> HIDE DEF N
  <2> QED
    BY <2>1
<1>2. \A f : body(f) = [i \in 0..N |-> IF i = 0 THEN << >> ELSE f[i - 1] \o RunOf(ext[i])]
  BY DEF RunOf
<1> HIDE DEF body, N
<1>3. PICK f : Solves(Seq(Int), N, F, << >>, f)
  <2>1. << >> \in Seq(Int)
    OBVIOUS
  <2> QED
    BY <1>0, <1>1, <2>1, Solution DEF Recursive
<1>4. f \in [0..N -> Seq(Int)] /\ f[0] = << >> /\ \A i \in 1..N : f[i] = f[i - 1] \o RunOf(ext[i])
  <2>1. f \in [0..N -> Seq(Int)] /\ f[0] = << >> /\ \A i \in 1..N : f[i] = F[<<f[i - 1], i>>]
    BY <1>3 DEF Solves
  <2>2. \A i \in 1..N : i - 1 \in 0..N
    BY <1>0
  <2> QED
    BY <2>1, <2>2
<1>5. f = body(f)
  <2>1. \A i \in 0..N : i = 0 \/ i \in 1..N
    BY <1>0
  <2>2. f = [i \in 0..N |-> IF i = 0 THEN << >> ELSE f[i - 1] \o RunOf(ext[i])]
    <3> HIDE DEF F
    <3> QED
      BY <1>4, <2>1
  <2> QED
    BY <2>2, <1>2
<1>6. upto = body(upto)
  BY <1>5
<1>7. upto[N] = Blocks(ext)
  BY DEF Blocks, N, upto, body
<1> HIDE DEF upto
<1>8. upto[0] = << >> /\ \A i \in 1..N : upto[i] = upto[i - 1] \o RunOf(ext[i])
  <2>0. 0 \in 0..N
    BY <1>0
  <2>1. upto = [i \in 0..N |-> IF i = 0 THEN << >> ELSE upto[i - 1] \o RunOf(ext[i])]
    BY <1>6, <1>2
  <2>2. \A i \in 1..N : i \in 0..N /\ i # 0
    BY <1>0
  <2> HIDE DEF F
  <2>3. upto[0] = << >>
    BY <2>0, <2>1
  <2>4. ASSUME NEW i \in 1..N PROVE upto[i] = upto[i - 1] \o RunOf(ext[i])
    BY <2>2, <2>1
  <2> QED
    BY <2>3, <2>4
<1> DEFINE T == {x \in Nat \X Seq(Int) : Lists(ext, x[1], x[2])}
<1>9. <<0, upto[0]>> \in T
  <2>1. Ends(ext, 0)[0] = 0
    <3>1. 0 \in Nat
      OBVIOUS
    <3> QED
      BY <3>1, EndsTyped
  <2>2. Lists(ext, 0, << >>)
    <3>1. << >> \in Seq(Int) /\ Len(<< >>) = 0
      OBVIOUS
    <3>2. \A i \in 1..0 : FALSE
      OBVIOUS
    <3> QED
      BY <2>1, <3>1, <3>2, Zenon DEF Lists
  <2>3. Lists(ext, 0, upto[0]) /\ upto[0] \in Seq(Int) /\ 0 \in Nat
    <3>1. << >> \in Seq(Int) /\ 0 \in Nat
      OBVIOUS
    <3>2. upto[0] = << >>
      BY <1>8
    <3> QED
      BY ONLY <3>1, <3>2, <2>2
  <2> HIDE DEF N, F
  <2> QED
    BY <2>3
<1>10. ASSUME NEW i \in 1..N, <<i - 1, upto[i - 1]>> \in T PROVE <<i, upto[i]>> \in T
  <2>1. Lists(ext, i - 1, upto[i - 1])
    BY <1>10
  <2>2. Lists(ext, i, upto[i])
    <3>1. Lists(ext, i, upto[i - 1] \o RunOf(ext[i]))
      BY <2>1, ListsOneMore DEF N
    <3> QED
      BY <3>1, <1>8
  <2>3. upto[i] \in Seq(Int) /\ i \in Nat
    BY <2>2, <1>0 DEF Lists
  <2> QED
    BY <2>2, <2>3
<1>11. \A i \in 0..N : <<i, upto[i]>> \in T
  <2> HIDE DEF T
  <2> QED
    BY <1>0, <1>9, <1>10, Along
<1>12. Lists(ext, N, upto[N])
  BY <1>11, <1>0
<1> QED
  BY <1>12, <1>7 DEF N

\* What Matches says of a record's blocks.
LEMMA MatchesBlocks ==
  ASSUME NEW x \in Rec, NEW n \in Nat, NEW c \in Seq(ABN), Matches(x, n, c)
  PROVE  /\ Blocks(x) \in Seq(Int) /\ Total(x, n) = n + Len(Blocks(x))
         /\ n + Len(Blocks(x)) <= Len(c)
         /\ \A q \in 1..Len(Blocks(x)) : c[n + q] = Blocks(x)[q]
<1> DEFINE b == Blocks(x)
           e == Ends(x, 0)
<1>1. /\ e \in [0..Width -> Nat] /\ \A i \in 1..Width : e[i] = e[i - 1] + x[i].len
  <2>1. 0 \in Nat
    OBVIOUS
  <2> QED
    BY <2>1, EndsTyped
<1>2. b \in Seq(Int) /\ Len(b) = e[Width] /\ \A i \in 1..Width : \A j \in 1..x[i].len : b[e[i - 1] + j] = x[i].at + j - 1
  BY BlocksAre DEF Lists
<1>3. \A i \in 0..Width : Ends(x, n)[i] = n + e[i]
  BY EndsShift
<1>4. Total(x, n) = n + Len(b) /\ n + Len(b) <= Len(c)
  BY <1>2, <1>3, WidthIsNat DEF Total, Matches
<1>5. ASSUME NEW q \in 1..Len(b) PROVE c[n + q] = b[q]
  <2>1. Total(x, 0) = Len(b) /\ 0 \in Nat /\ q \in Int /\ 0 < q /\ q <= Len(b)
    BY <1>2 DEF Total
  <2>2. PICK i \in 1..Width : e[i - 1] < q /\ q <= e[i]
    BY <2>1, InExtent
  <2> HIDE DEF b, e
  <2>3. i - 1 \in 0..Width
    BY WidthIsNat
  <2>4. e[i - 1] \in Nat /\ e[i] = e[i - 1] + x[i].len /\ x[i].len \in Nat
    BY <1>1, <2>3, RecFields
  <2>5. q - e[i - 1] \in 1..x[i].len /\ e[i - 1] + (q - e[i - 1]) = q
    <3> DEFINE a == e[i - 1]
               z == e[i]
               l == x[i].len
    <3>1. q \in Int /\ a \in Nat /\ l \in Nat /\ z = a + l /\ a < q /\ q <= z
      BY <2>1, <2>2, <2>4
    <3> HIDE DEF a, z, l
    <3>2. q - a \in 1..l /\ a + (q - a) = q
      BY ONLY <3>1
    <3> QED
      BY ONLY <3>2 DEF a, l
  <2>6. b[q] = x[i].at + (q - e[i - 1]) - 1
    BY <2>5, <1>2
  <2>7. c[Ends(x, n)[i - 1] + (q - e[i - 1])] = x[i].at + (q - e[i - 1]) - 1
    BY <2>5 DEF Matches
  <2>8. Ends(x, n)[i - 1] + (q - e[i - 1]) = n + q
    BY <1>3, <2>3, <2>4
  <2> QED
    BY <2>6, <2>7, <2>8
<1> QED
  BY <1>2, <1>4, <1>5

\* A stretch of a fork and a record that begins where it ends.
LEMMA Stretch ==
  ASSUME NEW x \in Rec, NEW n \in Nat, NEW c \in Seq(ABN), Matches(x, n, c)
  PROVE  SubSeq(c, 1, n) \o Blocks(x) = SubSeq(c, 1, Total(x, n))
<1> DEFINE b == Blocks(x)
           m == Total(x, n)
<1>1. b \in Seq(Int) /\ m = n + Len(b) /\ m <= Len(c) /\ (\A q \in 1..Len(b) : c[n + q] = b[q])
  BY MatchesBlocks
<1> HIDE DEF b, m
<1>2. Len(b) \in Nat /\ Len(c) \in Nat /\ m \in Nat /\ n <= Len(c)
  BY <1>1
<1>a. 1 \in 1..Len(c) + 1 /\ n \in 0..Len(c) /\ m \in 0..Len(c)
  BY <1>1, <1>2
<1>b. ABN \subseteq Int /\ c \in Seq(Int)
  BY ExtentsAssumption DEF ABN
<1>3. SubSeq(c, 1, n) \in Seq(Int) /\ Len(SubSeq(c, 1, n)) = n /\ \A q \in 1..n : SubSeq(c, 1, n)[q] = c[q]
  BY <1>2, <1>b, <1>a
<1>4. SubSeq(c, 1, m) \in Seq(Int) /\ Len(SubSeq(c, 1, m)) = m /\ \A q \in 1..m : SubSeq(c, 1, m)[q] = c[q]
  BY <1>1, <1>2, <1>b, <1>a
<1> DEFINE s == SubSeq(c, 1, n)
           u == SubSeq(c, 1, m)
<1> HIDE DEF s, u
<1>5. s \o b \in Seq(Int) /\ Len(s \o b) = m
  BY <1>1, <1>3 DEF s
<1>6. ASSUME NEW q \in 1..m PROVE (s \o b)[q] = u[q]
  <2>1. CASE q <= n
    <3>1. (s \o b)[q] = s[q] /\ q \in 1..n
      BY <2>1, <1>1, <1>3 DEF s
    <3> QED
      BY <3>1, <1>3, <1>4 DEF s, u
  <2>2. CASE q > n
    <3>1. q - n \in 1..Len(b) /\ n + (q - n) = q
      BY <2>2, <1>1, <1>2
    <3>2. (s \o b)[n + (q - n)] = b[q - n]
      <4>1. s \in Seq(Int) /\ b \in Seq(Int) /\ Len(s) = n
        BY <1>1, <1>3 DEF s
      <4>2. \A p \in 1..Len(s) + Len(b) : (s \o b)[p] = IF p <= Len(s) THEN s[p] ELSE b[p - Len(s)]
        BY ONLY <4>1, ConcatProperties
      <4>3. q \in 1..Len(s) + Len(b) /\ ~(q <= Len(s)) /\ q - Len(s) = q - n
        BY <4>1, <1>1, <2>2
      <4>4. (s \o b)[q] = b[q - n]
        BY <4>2, <4>3
      <4> QED
        BY <4>4, <3>1
    <3>3. c[n + (q - n)] = b[q - n]
      BY <3>1, <1>1
    <3>4. u[q] = c[q]
      BY <1>4 DEF u
    <3> QED
      BY <3>1, <3>2, <3>3, <3>4
  <2>3. q <= n \/ q > n
    BY <1>2
  <2> QED
    BY <2>1, <2>2, <2>3
<1>7. s \o b = u
  BY <1>4, <1>5, <1>6 DEF u
<1> QED
  BY <1>7 DEF s, u, b, m

-----------------------------------------------------------------------------
(***************************************************************************)
(* The blocks of a fork.                                                   *)
(***************************************************************************)
\* The first n elements of a sequence.
LEMMA Prefix ==
  ASSUME NEW S, NEW c \in Seq(S), NEW n \in 0..Len(c)
  PROVE  /\ SubSeq(c, 1, n) \in Seq(S) /\ Len(SubSeq(c, 1, n)) = n
         /\ \A q \in 1..n : SubSeq(c, 1, n)[q] = c[q]
<1>1. 1 \in Int /\ n \in Int /\ Len(c) \in Nat /\ n <= Len(c)
  OBVIOUS
<1>2. \A q \in 1..n : q \in 1..Len(c)
  BY <1>1
<1>3. \A q \in 1..n : c[q] \in S
  BY <1>2, ElementOfSeq
<1>4. /\ SubSeq(c, 1, n) \in Seq(S)
      /\ Len(SubSeq(c, 1, n)) = IF 1 <= n THEN n - 1 + 1 ELSE 0
      /\ \A q \in 1..n - 1 + 1 : SubSeq(c, 1, n)[q] = c[1 + q - 1]
  BY ONLY <1>1, <1>3, SubSeqProperties
<1>5. n - 1 + 1 = n /\ (1 <= n \/ n = 0) /\ \A q \in 1..n : 1 + q - 1 = q
  OBVIOUS
<1>6. Len(SubSeq(c, 1, n)) = n
  BY <1>4, <1>5
<1>7. ASSUME NEW q \in 1..n PROVE SubSeq(c, 1, n)[q] = c[q]
  BY <1>4, <1>5
<1> QED
  BY <1>4, <1>6, <1>7

\* No block twice: a fork is no longer than the volume.
LEMMA OnceFits ==
  ASSUME NEW c \in Seq(ABN), Once(c)
  PROVE  Len(c) \in 0..NBlocks
<1>1. IsFiniteSet(ABN) /\ Cardinality(ABN) = NBlocks
  <2>1. 0 \in Int /\ NBlocks - 1 \in Int /\ NBlocks \in Nat /\ NBlocks # 0
    BY ExtentsAssumption
  <2>2. IsFiniteSet(0..NBlocks - 1) /\ Cardinality(0..NBlocks - 1) = IF 0 > NBlocks - 1 THEN 0 ELSE NBlocks - 1 - 0 + 1
    BY ONLY <2>1, FS_Interval
  <2>3. ~(0 > NBlocks - 1) /\ NBlocks - 1 - 0 + 1 = NBlocks
    BY <2>1
  <2> QED
    BY <2>2, <2>3 DEF ABN
<1> DEFINE n == Len(c)
           D == 1..n
           f == [i \in D |-> c[i]]
<1>2. n \in Nat
  OBVIOUS
<1> HIDE DEF n
<1>3. IsFiniteSet(D) /\ Cardinality(D) = n
  <2>1. 1 \in Int /\ n \in Int
    BY <1>2
  <2>2. IsFiniteSet(1..n) /\ Cardinality(1..n) = IF 1 > n THEN 0 ELSE n - 1 + 1
    BY ONLY <2>1, FS_Interval
  <2>3. (IF 1 > n THEN 0 ELSE n - 1 + 1) = n
    BY <1>2
  <2> QED
    BY <2>2, <2>3
<1>4. f \in [D -> ABN]
  <2>1. \A i \in D : c[i] \in ABN
    BY ElementOfSeq DEF n
  <2> QED
    BY <2>1
<1>5. f \in Injection(D, ABN)
  <2>1. \A i, j \in D : c[i] = c[j] => i = j
    BY DEF Once, n
  <2>2. \A i, j \in D : f[i] = f[j] => i = j
    BY <2>1
  <2> HIDE DEF f, D
  <2> QED
    BY <2>2, <1>4 DEF Injection, IsInjective
<1>6. Cardinality(D) <= Cardinality(ABN)
  <2>1. Injection(D, ABN) # {}
    BY <1>5
  <2> HIDE DEF D
  <2> QED
    BY <1>1, <1>3, <2>1, FS_Injection
<1>7. n <= NBlocks
  BY <1>1, <1>3, <1>6
<1> QED
  BY <1>2, <1>7 DEF n

\* The fork's blocks as its records give them.
ChainStep(t, s) == IF Len(s) \in DOMAIN t THEN s \o Blocks(t[Len(s)]) ELSE s

\* what Chain(k) is, as a function of the fork's records
ChainOf(first, t) ==
  LET at[n \in 0..NBlocks] == IF n = 0 THEN Blocks(first) ELSE ChainStep(t, at[n - 1])
  IN  at[NBlocks]

\* It is.
LEMMA ChainDef ==
  ASSUME NEW k \in Fork
  PROVE  Chain(k) = ChainOf(Current[k].ext, tree[k])
BY DEF Chain, ChainOf, ChainStep

\* a stretch of c up to its end or another record
Upto(t, c, s) ==
  /\ Len(s) \in 0..Len(c) /\ s = SubSeq(c, 1, Len(s))
  /\ Len(s) = Len(c) \/ Len(s) \in DOMAIN t

\* The overflow records of a fork.
LEMMA TreeFields ==
  ASSUME NEW t \in Trees
  PROVE  DOMAIN t \subseteq 1..NBlocks /\ \A n \in DOMAIN t : t[n] \in Rec
BY DEF Trees

\* A record that fits continues the blocks before it
LEMMA FitsUpto ==
  ASSUME NEW c \in Seq(ABN), NEW t, NEW x, NEW n \in 0..Len(c), Fits(x, n, t, c)
  PROVE  /\ SubSeq(c, 1, n) \o Blocks(x) \in Seq(ABN) /\ Upto(t, c, SubSeq(c, 1, n) \o Blocks(x))
         /\ Len(SubSeq(c, 1, n) \o Blocks(x)) = Total(x, n)
<1>0. x \in Rec /\ Matches(x, n, c) /\ (Total(x, n) < Len(c) => Total(x, n) \in DOMAIN t) /\ n \in Nat
  BY DEF Fits
<1>1. Total(x, n) \in Nat /\ Total(x, n) <= Len(c) /\ Len(c) \in Nat
  BY <1>0, EndsTyped DEF Matches
<1>2. Total(x, n) \in 0..Len(c) /\ (Total(x, n) = Len(c) \/ Total(x, n) \in DOMAIN t)
  BY <1>0, <1>1
<1> DEFINE m == Total(x, n)
<1> HIDE DEF m
<1>3. SubSeq(c, 1, m) \in Seq(ABN) /\ Len(SubSeq(c, 1, m)) = m
  BY <1>2, Prefix DEF m
<1>4. SubSeq(c, 1, n) \o Blocks(x) = SubSeq(c, 1, m)
  BY <1>0, Stretch DEF m
<1>5. Upto(t, c, SubSeq(c, 1, m))
  BY <1>2, <1>3 DEF Upto, m
<1> QED
  BY <1>3, <1>4, <1>5 DEF m

\* as Chain(k) does, until it has come to the end.
LEMMA ChainStepKeeps ==
  ASSUME NEW first, NEW t, NEW c, Tiled(first, t, c), NEW s \in Seq(ABN), Upto(t, c, s)
  PROVE  /\ ChainStep(t, s) \in Seq(ABN) /\ Upto(t, c, ChainStep(t, s))
         /\ Len(s) < Len(c) => Len(ChainStep(t, s)) > Len(s)
         /\ Len(s) = Len(c) => ChainStep(t, s) = s
<1>0. t \in Trees /\ c \in Seq(ABN) /\ Len(s) \in 0..Len(c) /\ s = SubSeq(c, 1, Len(s)) /\ Len(c) \in Nat
  BY DEF Tiled, Upto
<1> DEFINE n == Len(s)
<1>1. CASE n \in DOMAIN t
  <2>1. Fits(t[n], n, t, c) /\ n # 0 /\ n \in 1..NBlocks /\ n \in Nat
    <3>1. n \in 1..NBlocks
      BY <1>0, <1>1, TreeFields
    <3>2. n # 0 /\ n \in Starts(t) /\ n \in Nat
      BY <1>1, <3>1, ExtentsAssumption DEF Starts
    <3>3. RecordAt(first, t, n) = t[n]
      BY <3>2 DEF RecordAt
    <3>4. Fits(RecordAt(first, t, n), n, t, c)
      BY <3>2 DEF Tiled
    <3> QED
      BY <3>1, <3>2, <3>3, <3>4
  <2>2. ChainStep(t, s) = SubSeq(c, 1, n) \o Blocks(t[n])
    BY <1>0, <1>1 DEF ChainStep
  <2>3. n \in 0..Len(c)
    BY <1>0
  <2>4. t[n] \in Rec /\ t[n][1].len > 0
    BY <2>1 DEF Fits
  <2>5. Total(t[n], n) > n
    <3>1. Ends(t[n], n)[1] <= Ends(t[n], n)[Width]
      BY <2>4, <2>1, EndsGrow, WidthIsNat
    <3>2. Ends(t[n], n)[1] = n + t[n][1].len
      <4>1. 1 \in 1..Width /\ 1 - 1 = 0
        BY WidthIsNat
      <4>2. /\ \A i \in 1..Width : Ends(t[n], n)[i] = Ends(t[n], n)[i - 1] + t[n][i].len
            /\ Ends(t[n], n)[0] = n
        BY <2>4, <2>1, EndsTyped
      <4> HIDE DEF n
      <4> QED
        BY <4>1, <4>2
    <3>3. t[n][1].len \in Nat /\ Ends(t[n], n)[Width] \in Nat
      BY <2>4, <2>1, RecFields, WidthIsNat, EndsTyped
    <3> HIDE DEF n
    <3> QED
      BY <3>1, <3>2, <3>3, <2>1, <2>4 DEF Total
  <2>6. /\ SubSeq(c, 1, n) \o Blocks(t[n]) \in Seq(ABN) /\ Upto(t, c, SubSeq(c, 1, n) \o Blocks(t[n]))
        /\ Len(SubSeq(c, 1, n) \o Blocks(t[n])) = Total(t[n], n)
    <3>1. c \in Seq(ABN) /\ n \in 0..Len(c) /\ Fits(t[n], n, t, c)
      BY <1>0, <2>1
    <3> HIDE DEF n
    <3> QED
      BY ONLY <3>1, FitsUpto
  <2>7. n # Len(c)
    <3>1. Total(t[n], n) <= Len(c) /\ Total(t[n], n) \in Nat
      BY <2>1, <2>4, EndsTyped DEF Fits, Matches
    <3> QED
      BY <3>1, <2>5, <1>0
  <2> QED
    BY <2>2, <2>5, <2>6, <2>7
<1>2. CASE n \notin DOMAIN t
  <2>1. ChainStep(t, s) = s /\ n = Len(c)
    BY <1>2 DEF ChainStep, Upto
  <2> QED
    BY <2>1, <1>0
<1> QED
  BY <1>1, <1>2

\* The records of a tiled fork give its blocks.
LEMMA ChainIs ==
  ASSUME NEW first, NEW t, NEW c, Tiled(first, t, c), Once(c)
  PROVE  ChainOf(first, t) = c
<1> DEFINE N == NBlocks
           a == Blocks(first)
           body(f) == [n \in 0..N |-> IF n = 0 THEN Blocks(first) ELSE ChainStep(t, f[n - 1])]
           at == CHOOSE f : f = body(f)
           S == {s \in Seq(ABN) : Upto(t, c, s)}
           F == [x \in S \X (1..N) |-> ChainStep(t, x[1])]
<1>0. N \in Nat /\ N \in 0..N /\ 0 \in 0..N
  BY WidthIsNat
<1>a. c \in Seq(ABN) /\ t \in Trees /\ Len(c) \in 0..N
  BY OnceFits DEF Tiled
<1>b. Fits(first, 0, t, c)
  <2>1. 0 \in Starts(t) /\ RecordAt(first, t, 0) = first
    BY DEF Starts, RecordAt
  <2> QED
    BY <2>1 DEF Tiled
<1>1. a \in S
  <2>1. 0 \in 0..Len(c)
    BY <1>a, <1>0
  <2>2. SubSeq(c, 1, 0) \o Blocks(first) \in Seq(ABN) /\ Upto(t, c, SubSeq(c, 1, 0) \o Blocks(first))
    BY <1>a, <1>b, <2>1, FitsUpto
  <2>3. SubSeq(c, 1, 0) \o Blocks(first) = Blocks(first)
    <3>1. SubSeq(c, 1, 0) = << >>
      BY SubSeqEmpty
    <3>2. Blocks(first) \in Seq(Int)
      BY <1>b, BlocksAre DEF Fits, Lists
    <3> QED
      BY <3>1, <3>2, ConcatEmptySeq
  <2> QED
    BY <2>2, <2>3
<1>2. F \in [S \X (1..N) -> S]
  <2>1. \A s \in S : ChainStep(t, s) \in S
    BY ChainStepKeeps
  <2> HIDE DEF S
  <2> QED
    BY <2>1
<1> HIDE DEF N, S, a
<1>3. PICK f : Solves(S, N, F, a, f)
  BY <1>0, <1>1, <1>2, Solution DEF Recursive
<1>4. f \in [0..N -> S] /\ f[0] = a /\ \A n \in 1..N : f[n] = ChainStep(t, f[n - 1])
  <2>1. f \in [0..N -> S] /\ f[0] = a /\ \A n \in 1..N : f[n] = F[<<f[n - 1], n>>]
    BY <1>3 DEF Solves
  <2>2. \A n \in 1..N : n - 1 \in 0..N
    BY <1>0
  <2> QED
    BY <2>1, <2>2
<1> HIDE DEF F
<1>5. f = body(f)
  <2>1. \A n \in 0..N : n = 0 \/ n \in 1..N
    BY <1>0
  <2> QED
    BY <1>4, <2>1 DEF a
<1>6. at = body(at)
  <2> HIDE DEF body
  <2> QED
    BY <1>5
<1>7. at[N] = ChainOf(first, t)
  BY DEF ChainOf, N, at, body
<1> HIDE DEF at
<1>8. at[0] = a /\ \A n \in 1..N : at[n] = ChainStep(t, at[n - 1])
  <2>1. \A n \in 1..N : n \in 0..N /\ n # 0
    BY <1>0
  <2> QED
    BY <1>6, <2>1, <1>0 DEF a
<1> DEFINE T == {x \in Nat \X S : Len(x[2]) = Len(c) \/ Len(x[2]) >= x[1]}
<1>b1. ASSUME NEW s \in S PROVE s \in Seq(ABN) /\ Upto(t, c, s) /\ Len(s) \in 0..Len(c) /\ Len(s) \in Nat /\ Len(c) \in Nat
  BY <1>a DEF S, Upto
<1>9. <<0, at[0]>> \in T
  BY <1>1, <1>8, <1>b1
<1>10. ASSUME NEW n \in 1..N, <<n - 1, at[n - 1]>> \in T PROVE <<n, at[n]>> \in T
  <2>1. at[n - 1] \in S /\ (Len(at[n - 1]) = Len(c) \/ Len(at[n - 1]) >= n - 1) /\ n \in Nat
    BY <1>10, <1>0
  <2>2. at[n] = ChainStep(t, at[n - 1])
    BY <1>8
  <2>3. at[n - 1] \in Seq(ABN) /\ Upto(t, c, at[n - 1]) /\ Len(at[n - 1]) \in 0..Len(c) /\ Len(at[n - 1]) \in Nat /\ Len(c) \in Nat
    BY <2>1, <1>b1
  <2>4. /\ at[n] \in Seq(ABN) /\ Upto(t, c, at[n])
        /\ Len(at[n - 1]) < Len(c) => Len(at[n]) > Len(at[n - 1])
        /\ Len(at[n - 1]) = Len(c) => at[n] = at[n - 1]
    BY <2>2, <2>3, ChainStepKeeps
  <2>5. at[n] \in S /\ Len(at[n]) \in Nat
    BY <2>4, <1>b1 DEF S
  <2>6. Len(at[n]) = Len(c) \/ Len(at[n]) >= n
    <3>1. CASE Len(at[n - 1]) = Len(c)
      BY <3>1, <2>4
    <3>2. CASE Len(at[n - 1]) # Len(c)
      BY <3>2, <2>1, <2>3, <2>4, <2>5
    <3> QED
      BY <3>1, <3>2
  <2> QED
    BY <2>1, <2>5, <2>6
<1>11. \A n \in 0..N : <<n, at[n]>> \in T
  <2> HIDE DEF T
  <2> QED
    BY <1>0, <1>9, <1>10, Along
<1>12. at[N] \in S /\ (Len(at[N]) = Len(c) \/ Len(at[N]) >= N)
  BY <1>11, <1>0
<1>13. Len(at[N]) = Len(c)
  <2>1. Len(at[N]) \in 0..Len(c) /\ Len(c) \in Nat /\ Len(c) <= N
    BY <1>12, <1>b1, <1>a, <1>0
  <2> QED
    BY <2>1, <1>12, <1>0
<1>14. at[N] = SubSeq(c, 1, Len(c))
  BY <1>12, <1>13 DEF S, Upto
<1>15. SubSeq(c, 1, Len(c)) = c
  BY <1>a, SubSeqFull
<1> QED
  BY <1>7, <1>14, <1>15

-----------------------------------------------------------------------------
(***************************************************************************)
(* The search for the end: Locate.                                         *)
(***************************************************************************)
\* The least of some numbers.
LEMMA MinIs ==
  ASSUME NEW S \in SUBSET Nat, S # {}
  PROVE  Min(S) \in S /\ \A y \in S : Min(S) <= y
<1>1. \E x \in S : \A y \in S : x <= y
  BY Least
<1> QED
  BY <1>1 DEF Min

\* The descriptor that the loop of f_addextent and f_trunc stops at is the
\* first that it may stop at.
LEMMA StopIs ==
  ASSUME NEW x \in Rec, NEW start \in Nat, NEW end \in Nat
  PROVE  /\ Stop(x, start, end) = 0 =>
              \A i \in 1..Width : Ends(x, start)[i] < end /\ x[i].len # 0
         /\ Stop(x, start, end) # 0 =>
              /\ Stop(x, start, end) \in 1..Width
              /\ Ends(x, start)[Stop(x, start, end)] >= end \/ x[Stop(x, start, end)].len = 0
              /\ \A j \in 1..Stop(x, start, end) - 1 : Ends(x, start)[j] < end /\ x[j].len # 0
<1> DEFINE e == Ends(x, start)
           S == {i \in 1..Width : e[i] >= end \/ x[i].len = 0}
<1>1. \A i \in 0..Width : e[i] \in Nat
  BY EndsTyped
<1>2. Stop(x, start, end) = IF S = {} THEN 0 ELSE Min(S)
  BY DEF Stop
<1>3. CASE S = {}
  <2>1. Stop(x, start, end) = 0
    BY <1>2, <1>3
  <2>2. ASSUME NEW i \in 1..Width PROVE e[i] < end /\ x[i].len # 0
    <3>1. ~(e[i] >= end \/ x[i].len = 0)
      BY <1>3
    <3>2. e[i] \in Nat
      BY <1>1, WidthIsNat
    <3> HIDE DEF e
    <3> QED
      BY <3>1, <3>2
  <2> QED
    BY <2>1, <2>2
<1>4. CASE S # {}
  <2> DEFINE m == Min(S)
  <2>1. S \in SUBSET Nat /\ S \subseteq 1..Width
    BY WidthIsNat
  <2>2. m \in S /\ \A y \in S : m <= y
    <3> HIDE DEF S
    <3> QED
      BY <2>1, <1>4, MinIs
  <2>3. m \in 1..Width /\ (e[m] >= end \/ x[m].len = 0)
    <3> HIDE DEF m
    <3> QED
      BY <2>2
  <2>4. Stop(x, start, end) = m /\ m # 0
    <3>1. Stop(x, start, end) = m
      BY <1>2, <1>4
    <3> HIDE DEF m
    <3> QED
      BY <3>1, <2>3, WidthIsNat
  <2> HIDE DEF m
  <2>5. ASSUME NEW j \in 1..m - 1 PROVE e[j] < end /\ x[j].len # 0
    <3>1. j \in 1..Width /\ j \in 0..Width /\ ~(m <= j)
      BY <2>3, WidthIsNat
    <3>2. j \notin S
      BY <2>2, <3>1
    <3>3. ~(e[j] >= end \/ x[j].len = 0) /\ e[j] \in Nat
      BY <3>1, <3>2, <1>1
    <3> HIDE DEF e
    <3> QED
      BY <3>3
  <2> HIDE DEF m
  <2> QED
    BY <2>3, <2>4, <2>5
<1> QED
  BY <1>3, <1>4

\* Where the loop of f_addextent and f_trunc stands.
LocRec == [ext : Rec, fabn : Nat, start : Nat, i : 0..Width, ok : BOOLEAN,
           searched : BOOLEAN, left : Int, more : BOOLEAN]

\* a record of the fork is at hand, and enough searches are left
Holding(first, t, p) ==
  /\ p.fabn \in Starts(t) /\ p.ext = RecordAt(first, t, p.fabn)
  /\ p.left >= NBlocks + 2 - p.fabn

\* the i-th extent is the one that reaches "end"
Reaches(p, end) ==
  /\ p.start = Ends(p.ext, p.fabn)[p.i]
  /\ p.i = 0 => end = 0 /\ p.fabn = 0
  /\ p.i # 0 => /\ Ends(p.ext, p.fabn)[p.i - 1] < end /\ end <= p.start
                /\ \A j \in 1..p.i : p.ext[j].len > 0

\* the loop looks for block "end" of a fork
Looking(first, t, end, p) ==
  /\ p \in LocRec /\ p.ok /\ Holding(first, t, p)
  /\ p.more => p.start = p.fabn /\ p.fabn < end /\ p.i = 0
  /\ ~p.more => Reaches(p, end)

\* one round of it
LocStep(t, end, p) == LocateIn(p, t, end, Stop(p.ext, p.start, end), Ends(p.ext, p.start))

\* The fork's record at block n, and that blocks past it are in another one.
LEMMA FitsAt ==
  ASSUME NEW first, NEW t, NEW c, Tiled(first, t, c), NEW n \in Starts(t)
  PROVE  /\ Fits(RecordAt(first, t, n), n, t, c) /\ RecordAt(first, t, n) \in Rec
         /\ n \in 0..NBlocks /\ n \in Nat
         /\ Total(RecordAt(first, t, n), n) \in Nat
         /\ n <= Total(RecordAt(first, t, n), n)
         /\ Total(RecordAt(first, t, n), n) <= Len(c)
<1>1. Fits(RecordAt(first, t, n), n, t, c)
  BY DEF Tiled
<1>2. RecordAt(first, t, n) \in Rec
  BY <1>1 DEF Fits
<1>3. n \in 0..NBlocks /\ n \in Nat
  <2>1. DOMAIN t \subseteq 1..NBlocks
    BY TreeFields DEF Tiled
  <2> QED
    BY <2>1, WidthIsNat DEF Starts
<1> DEFINE x == RecordAt(first, t, n)
<1>4. Total(x, n) \in Nat
  BY <1>2, <1>3, EndsTyped
<1>5. n <= Total(x, n)
  <2>1. Ends(x, n)[0] <= Ends(x, n)[Width]
    BY <1>2, <1>3, EndsGrow, WidthIsNat
  <2>2. Ends(x, n)[0] = n
    BY <1>2, <1>3, EndsTyped
  <2> QED
    BY <2>1, <2>2 DEF Total
<1>6. Total(x, n) <= Len(c)
  BY <1>1 DEF Fits, Matches
<1> QED
  BY <1>1, <1>2, <1>3, <1>4, <1>5, <1>6

\* After a record that does not reach the end of the fork comes another.
LEMMA NextIs ==
  ASSUME NEW first, NEW t, NEW c, Tiled(first, t, c), NEW n \in Starts(t),
         Total(RecordAt(first, t, n), n) < Len(c)
  PROVE  /\ Total(RecordAt(first, t, n), n) \in DOMAIN t
         /\ Total(RecordAt(first, t, n), n) \in Starts(t)
         /\ RecordAt(first, t, Total(RecordAt(first, t, n), n)) = t[Total(RecordAt(first, t, n), n)]
         /\ Full(RecordAt(first, t, n))
         /\ n < Total(RecordAt(first, t, n), n)
<1> DEFINE x == RecordAt(first, t, n)
           m == Total(x, n)
<1>1. Fits(x, n, t, c) /\ x \in Rec /\ n \in Nat /\ m \in Nat /\ n <= m
  BY FitsAt
<1>2. m \in DOMAIN t /\ Full(x)
  BY <1>1 DEF Fits
<1>3. m \in Starts(t) /\ m # 0
  <2>1. DOMAIN t \subseteq 1..NBlocks
    BY TreeFields DEF Tiled
  <2> HIDE DEF m
  <2> QED
    BY <1>2, <2>1, WidthIsNat DEF Starts
<1>4. RecordAt(first, t, m) = t[m]
  <2> HIDE DEF m, x
  <2> QED
    BY <1>3 DEF RecordAt
<1>5. n < m
  <2>1. Ends(x, n)[1] <= Ends(x, n)[Width] /\ Ends(x, n)[1] = Ends(x, n)[0] + x[1].len /\ Ends(x, n)[0] = n
    <3>1. 1 \in 1..Width /\ 1 \in 0..Width /\ Width \in 0..Width /\ 1 - 1 = 0 /\ 1 <= Width
      BY WidthIsNat
    <3>2. Ends(x, n)[1] = Ends(x, n)[1 - 1] + x[1].len /\ Ends(x, n)[0] = n
      BY <1>1, <3>1, EndsTyped
    <3>3. Ends(x, n)[1] <= Ends(x, n)[Width]
      BY <1>1, <3>1, EndsGrow
    <3> QED
      BY <3>1, <3>2, <3>3
  <2>2. x[1].len > 0 /\ x[1].len \in Nat
    BY <1>1, <1>2, RecFields, WidthIsNat DEF Full
  <2> HIDE DEF x
  <2>3. Total(x, n) > n
    BY <2>1, <2>2, <1>1 DEF Total
  <2> QED
    BY <2>3
<1> HIDE DEF m, x
<1> QED
  BY <1>2, <1>3, <1>4, <1>5 DEF m, x

\* In a sound record no empty extent comes before the block looked for.
LEMMA NotEmpty ==
  ASSUME NEW first, NEW t, NEW c, Tiled(first, t, c), NEW n \in Starts(t), NEW i \in 1..Width,
         RecordAt(first, t, n)[i].len = 0
  PROVE  Ends(RecordAt(first, t, n), n)[i] = Len(c) /\ Ends(RecordAt(first, t, n), n)[i - 1] = Len(c)
<1> DEFINE x == RecordAt(first, t, n)
<1>1. Fits(x, n, t, c) /\ x \in Rec /\ n \in Nat /\ Total(x, n) \in Nat /\ Total(x, n) <= Len(c) /\ Len(c) \in Nat
  <2>1. c \in Seq(ABN)
    BY DEF Tiled
  <2> QED
    BY <2>1, FitsAt
<1>2. Shaped(x) /\ (Total(x, n) < Len(c) => Full(x))
  BY <1>1 DEF Fits
<1> HIDE DEF x
<1>3. Total(x, n) = Len(c)
  <2>1. ~Full(x)
    BY DEF Full, x
  <2> QED
    BY <1>1, <1>2, <2>1
<1>4. \A j \in i..Width : x[j].len = 0
  <2> TAKE j \in i..Width
  <2>1. j \in 1..Width /\ i <= j
    BY WidthIsNat
  <2> QED
    BY <2>1, <1>2 DEF Shaped, x
<1>5. i - 1 \in 0..Width /\ i \in i - 1..Width /\ i - 1 + 1 = i /\ Width \in i - 1..Width
  BY WidthIsNat
<1>6. \A j \in i - 1..Width : Ends(x, n)[j] = Ends(x, n)[i - 1]
  BY <1>1, <1>4, <1>5, EndsFlat
<1>7. Ends(x, n)[Width] = Ends(x, n)[i - 1] /\ Ends(x, n)[i] = Ends(x, n)[i - 1]
  BY <1>5, <1>6
<1> QED
  BY <1>3, <1>7 DEF Total, x

\* One step of the loop.
LEMMA LocStepKeeps ==
  ASSUME NEW first, NEW t, NEW c, Tiled(first, t, c), Len(c) <= NBlocks, NEW end \in 0..Len(c),
         NEW p, Looking(first, t, end, p)
  PROVE  /\ Looking(first, t, end, LocStep(t, end, p))
         /\ ~p.more => LocStep(t, end, p) = p
         /\ LocStep(t, end, p).more => LocStep(t, end, p).fabn > p.fabn
<1> DEFINE s == Ends(p.ext, p.start)
           i == Stop(p.ext, p.start, end)
           r == LocStep(t, end, p)
<1>0. /\ p \in LocRec /\ p.ok /\ Holding(first, t, p) /\ end \in Nat /\ Len(c) \in Nat
      /\ p.more => p.start = p.fabn /\ p.fabn < end /\ p.i = 0
      /\ ~p.more => Reaches(p, end)
      /\ c \in Seq(ABN)
  BY DEF Looking, Tiled
<1>1. CASE ~p.more
  <2>1. r = p
    BY <1>1 DEF LocStep, LocateIn
  <2> QED
    BY <1>1, <2>1
<1>2. CASE p.more
  <2>0. p.fabn \in Starts(t) /\ p.ext = RecordAt(first, t, p.fabn) /\ p.left >= NBlocks + 2 - p.fabn
        /\ p.start = p.fabn /\ p.fabn < end /\ p.i = 0 /\ p.left \in Int /\ p.fabn \in Nat /\ p.ext \in Rec
    BY <1>0, <1>2 DEF Holding, LocRec
  <2> DEFINE n == p.fabn
             x == RecordAt(first, t, n)
             m == Total(x, n)
  <2>1. Fits(x, n, t, c) /\ x \in Rec /\ n \in 0..NBlocks /\ n \in Nat /\ m \in Nat /\ n <= m /\ m <= Len(c)
    BY <2>0, FitsAt
  <2>2. /\ i = 0 => \A j \in 1..Width : s[j] < end /\ x[j].len # 0
        /\ i # 0 => /\ i \in 1..Width
                    /\ s[i] >= end \/ x[i].len = 0
                    /\ \A j \in 1..i - 1 : s[j] < end /\ x[j].len # 0
    BY <2>0, <1>0, StopIs
  <2>3. s = Ends(x, n) /\ s \in [0..Width -> Nat] /\ s[0] = n /\ s[Width] = m
    BY <2>0, <2>1, EndsTyped DEF Total
  <2> HIDE DEF m, x, i, s
  <2>4. CASE i # 0
    <3>1. r = [p EXCEPT !.i = i, !.start = s[i], !.more = FALSE, !.ok = s[i] >= end]
      BY <1>2, <2>4 DEF r, LocStep, LocateIn, i, s
    <3>2. s[i] >= end
      <4>1. CASE x[i].len = 0
        <5>1. s[i] = Len(c)
          BY <4>1, <2>0, <2>2, <2>3, <2>4, NotEmpty DEF x
        <5> QED
          BY <5>1, <1>0
      <4> QED
        BY <4>1, <2>2, <2>4
    <3>3. i \in 1..Width /\ i \in 0..Width /\ i - 1 \in 0..Width /\ s[i] \in Nat /\ s[i - 1] \in Nat
      BY <2>2, <2>3, <2>4, WidthIsNat
    <3>4. s[i - 1] < end
      <4>1. CASE i = 1
        BY <4>1, <2>3, <2>0
      <4>2. CASE i # 1
        <5>1. i - 1 \in 1..i - 1
          BY <3>3, <4>2, WidthIsNat
        <5> QED
          BY <5>1, <2>2, <2>4
      <4> QED
        BY <4>1, <4>2
    <3>5. \A j \in 1..i : x[j].len > 0
      <4> TAKE j \in 1..i
      <4>1. j \in 1..Width /\ x[j].len \in Nat
        BY <3>3, <2>1, RecFields, WidthIsNat
      <4>2. CASE j = i
        <5>1. s[i] = s[i - 1] + x[i].len /\ x[i].len \in Nat
          BY <2>1, <2>3, <3>3, EndsTyped, RecFields
        <5> QED
          BY <5>1, <4>2, <3>2, <3>3, <3>4, <1>0
      <4>3. CASE j # i
        <5>1. j \in 1..i - 1
          BY <4>1, <4>3, <3>3, WidthIsNat
        <5> QED
          BY <5>1, <2>2, <2>4, <4>1
      <4> QED
        BY <4>2, <4>3
    <3> DEFINE si == s[i]
    <3>6. si \in Nat /\ si >= end
      BY <3>2, <3>3
    <3>7. r = [p EXCEPT !.i = i, !.start = si, !.more = FALSE, !.ok = si >= end]
      BY <3>1
    <3> HIDE DEF si
    <3>8. /\ r \in LocRec /\ r.i = i /\ r.start = si /\ r.more = FALSE /\ r.ok = TRUE
          /\ r.ext = p.ext /\ r.fabn = p.fabn /\ r.left = p.left
      BY <1>0, <3>3, <3>6, <3>7 DEF LocRec
    <3>9. Holding(first, t, r)
      BY <3>8, <2>0 DEF Holding
    <3>10. Reaches(r, end)
      <4>1. r.ext = x /\ Ends(r.ext, r.fabn) = s
        BY <3>8, <2>0, <2>3 DEF x
      <4> HIDE DEF r
      <4> QED
        BY <4>1, <3>8, <3>3, <3>4, <3>5, <3>6, WidthIsNat DEF Reaches, si
    <3> HIDE DEF r
    <3>11. Looking(first, t, end, r)
      BY <3>8, <3>9, <3>10 DEF Looking
    <3> QED
      BY <3>8, <3>11, <1>2 DEF r
  <2>5. CASE i = 0
    <3>1. m < end /\ m < Len(c)
      BY <2>2, <2>3, <2>5, WidthIsNat, <1>0, <2>1
    <3>2. m \in DOMAIN t /\ m \in Starts(t) /\ RecordAt(first, t, m) = t[m] /\ n < m
      BY <3>1, <2>0, NextIs DEF m, x
    <3>3. Finds(t, m, p.left)
      BY <2>0, <2>1, <3>2, WidthIsNat DEF Finds
    <3>4. r = [p EXCEPT !.ext = t[m], !.fabn = m, !.start = m,
                      !.searched = TRUE, !.left = p.left - 1]
      BY <1>2, <2>5, <2>3, <3>3 DEF r, LocStep, LocateIn, i, s
    <3> DEFINE y == t[m]
    <3>5. y \in Rec
      BY <3>2, TreeFields DEF Tiled
    <3> HIDE DEF y
    <3>6. r = [p EXCEPT !.ext = y, !.fabn = m, !.start = m, !.searched = TRUE, !.left = p.left - 1]
      BY <3>4 DEF y
    <3>7. /\ r \in LocRec /\ r.i = 0 /\ r.start = m /\ r.more /\ r.ok
          /\ r.ext = y /\ r.fabn = m /\ r.left = p.left - 1
      <4> DEFINE l == p.left - 1
      <4>1. l \in Int /\ m \in Nat /\ p \in LocRec /\ p.more /\ p.ok /\ p.i = 0
        BY <1>0, <1>2, <2>0, <2>1
      <4>2. r = [p EXCEPT !.ext = y, !.fabn = m, !.start = m, !.searched = TRUE, !.left = l]
        BY <3>6
      <4> HIDE DEF l, r
      <4>3. /\ r \in LocRec /\ r.i = 0 /\ r.start = m /\ r.more /\ r.ok
            /\ r.ext = y /\ r.fabn = m /\ r.left = l
        BY ONLY <4>1, <4>2, <3>5 DEF LocRec
      <4> QED
        BY <4>3 DEF l
    <3>8. Holding(first, t, r)
      BY <3>7, <3>2, <2>0, <2>1, WidthIsNat DEF Holding, y
    <3> HIDE DEF r
    <3>9. Looking(first, t, end, r)
      BY <3>7, <3>8, <3>1 DEF Looking
    <3> QED
      <4>1. LocStep(t, end, p).fabn > p.fabn /\ Looking(first, t, end, LocStep(t, end, p))
        BY <3>7, <3>9, <3>2, <2>1 DEF r
      <4> QED
        BY <4>1, <1>2
  <2> QED
    BY <2>4, <2>5
<1> QED
  BY <1>1, <1>2

\* where the loop begins
LocStart(f, end, luck) ==
  [ext |-> f.ext, fabn |-> f.fabn, start |-> f.fabn, i |-> 0, ok |-> TRUE,
   searched |-> FALSE, left |-> luck.searches, more |-> f.fabn < end]

\* the steps of the loop, all within S
LocRuns(f, t, end, luck, S, g) ==
  /\ g \in [0..NBlocks + 1 -> S] /\ g[0] = LocStart(f, end, luck)
  /\ \A n \in 1..NBlocks + 1 : g[n] = LocStep(t, end, g[n - 1])
  /\ Locate(f, t, end, luck) = g[NBlocks + 1]

\* a round leads from S to S
LocClosed(t, end, S) == \A p \in S : LocStep(t, end, p) \in S

\* Locate is the last of the steps of its loop.
LEMMA LocateSteps ==
  ASSUME NEW f, NEW t, NEW end, NEW luck, NEW S, LocStart(f, end, luck) \in S,
         LocClosed(t, end, S)
  PROVE  \E g : LocRuns(f, t, end, luck, S, g)
<1> DEFINE N == NBlocks + 1
           a == LocStart(f, end, luck)
           body(g) == [n \in 0..N |->
             IF n = 0
             THEN [ext |-> f.ext, fabn |-> f.fabn, start |-> f.fabn, i |-> 0, ok |-> TRUE,
                   searched |-> FALSE, left |-> luck.searches, more |-> f.fabn < end]
             ELSE LET p == g[n - 1]
                  IN  LocateIn(p, t, end, Stop(p.ext, p.start, end), Ends(p.ext, p.start))]
           at == CHOOSE g : g = body(g)
           F == [x \in S \X (1..N) |-> LocStep(t, end, x[1])]
<1>0. N \in Nat /\ N \in 0..N /\ 0 \in 0..N
  BY WidthIsNat
<1>1. \A g : body(g) = [n \in 0..N |-> IF n = 0 THEN a ELSE LocStep(t, end, g[n - 1])]
  BY DEF LocStep, LocStart
<1>2. at[N] = Locate(f, t, end, luck)
  BY DEF Locate
<1> HIDE DEF body, N, a
<1>3. F \in [S \X (1..N) -> S]
  BY DEF LocClosed
<1>4. PICK g : Solves(S, N, F, a, g)
  BY <1>0, <1>3, Solution DEF Recursive, a
<1>5. g \in [0..N -> S] /\ g[0] = a /\ \A n \in 1..N : g[n] = LocStep(t, end, g[n - 1])
  <2>1. g \in [0..N -> S] /\ g[0] = a /\ \A n \in 1..N : g[n] = F[<<g[n - 1], n>>]
    BY <1>4 DEF Solves
  <2>2. \A n \in 1..N : n - 1 \in 0..N
    BY <1>0
  <2> QED
    BY <2>1, <2>2
<1> HIDE DEF F
<1>6. g = body(g)
  <2>1. \A n \in 0..N : n = 0 \/ n \in 1..N
    BY <1>0
  <2>2. g = [n \in 0..N |-> IF n = 0 THEN a ELSE LocStep(t, end, g[n - 1])]
    BY <1>5, <2>1
  <2> QED
    BY <2>2, <1>1
<1>7. at = body(at)
  BY <1>6
<1> HIDE DEF at
<1>8. at[0] = a /\ \A n \in 1..N : at[n] = LocStep(t, end, at[n - 1])
  <2>1. \A n \in 1..N : n \in 0..N /\ n # 0
    BY <1>0
  <2>2. at = [n \in 0..N |-> IF n = 0 THEN a ELSE LocStep(t, end, at[n - 1])]
    BY <1>7, <1>1
  <2> QED
    BY <2>1, <2>2, <1>0
<1> DEFINE T == Nat \X S
<1>9. <<0, at[0]>> \in T
  BY <1>8 DEF a
<1>10. ASSUME NEW n \in 1..N, <<n - 1, at[n - 1]>> \in T PROVE <<n, at[n]>> \in T
  <2>1. at[n - 1] \in S /\ at[n] = LocStep(t, end, at[n - 1]) /\ n \in Nat
    BY <1>10, <1>8, <1>0
  <2>2. at[n] \in S
    BY <2>1 DEF LocClosed
  <2> QED
    BY <2>1, <2>2
<1>11. \A n \in 0..N : <<n, at[n]>> \in T
  <2> HIDE DEF T
  <2> QED
    BY <1>0, <1>9, <1>10, Along
<1>12. at \in [0..N -> S]
  <2>1. at = [n \in 0..N |-> IF n = 0 THEN a ELSE LocStep(t, end, at[n - 1])]
    BY <1>7, <1>1
  <2>2. \A n \in 0..N : at[n] \in S
    BY <1>11
  <2> HIDE DEF T
  <2>3. at = [n \in 0..N |-> at[n]]
    BY <2>1
  <2> QED
    BY <2>2, <2>3
<1>13. LocRuns(f, t, end, luck, S, at)
  BY <1>2, <1>8, <1>12 DEF N, a, LocRuns
<1> QED
  BY <1>13

\* The loop finds the extent that reaches block "end".
LEMMA LocateFinds ==
  ASSUME NEW f, NEW first, NEW t, NEW c, NEW end, NEW luck,
         Tiled(first, t, c), Len(c) <= NBlocks, end \in 0..Len(c),
         f.fabn \in Starts(t), f.ext = RecordAt(first, t, f.fabn),
         f.fabn < end \/ (f.fabn = 0 /\ end = 0), luck.searches = NBlocks + 2
  PROVE  Looking(first, t, end, Locate(f, t, end, luck)) /\ ~Locate(f, t, end, luck).more
<1> DEFINE N == NBlocks + 1
           a == LocStart(f, end, luck)
           S == {p \in LocRec : Looking(first, t, end, p)}
<1>0. N \in Nat /\ NBlocks \in Nat /\ end \in Nat
  <2>1. Len(c) \in Nat
    BY DEF Tiled
  <2> QED
    BY <2>1, WidthIsNat
<1>1. a \in S
  <2>1. f.ext \in Rec /\ f.fabn \in Nat
    BY FitsAt
  <2>2. a \in LocRec /\ a.ok /\ Holding(first, t, a) /\ (a.more <=> f.fabn < end) /\ a.start = a.fabn /\ a.fabn = f.fabn /\ a.i = 0 /\ a.ext = f.ext
    <3>1. a.ext = f.ext /\ a.fabn = f.fabn /\ a.start = f.fabn /\ a.i = 0 /\ a.ok /\ a.left = NBlocks + 2 /\ (a.more <=> f.fabn < end)
      BY DEF LocStart
    <3>2. (f.fabn < end) \in BOOLEAN /\ FALSE \in BOOLEAN /\ TRUE \in BOOLEAN /\ NBlocks + 2 \in Int /\ 0 \in 0..Width
      BY <2>1, <1>0, WidthIsNat
    <3>3. a \in LocRec
      BY <2>1, <3>2 DEF LocRec, LocStart
    <3>4. a.left >= NBlocks + 2 - a.fabn
      BY <3>1, <2>1, <1>0
    <3> HIDE DEF a
    <3> QED
      BY <3>1, <3>3, <3>4 DEF Holding
  <2>3. ~a.more => Reaches(a, end)
    <3>1. ASSUME ~a.more PROVE a.fabn = 0 /\ end = 0
      <4>1. ~(f.fabn < end) /\ a.fabn = f.fabn
        BY <2>2, <3>1
      <4> QED
        BY <4>1
    <3>2. Ends(a.ext, a.fabn)[0] = a.fabn
      <4>1. a.ext \in Rec /\ a.fabn \in Nat
        BY <2>1, <2>2
      <4> HIDE DEF a
      <4> QED
        BY <4>1, EndsTyped
    <3> HIDE DEF a
    <3> QED
      BY <2>2, <3>1, <3>2 DEF Reaches
  <2> HIDE DEF a
  <2>4. a.more => a.start = a.fabn /\ a.fabn < end /\ a.i = 0
    BY <2>2
  <2>5. Looking(first, t, end, a)
    BY <2>2, <2>3, <2>4 DEF Looking
  <2> QED
    BY <2>2, <2>5
<1>2. \A p \in S : LocStep(t, end, p) \in S /\ (~p.more => LocStep(t, end, p) = p)
                   /\ (LocStep(t, end, p).more => LocStep(t, end, p).fabn > p.fabn)
  <2> TAKE p \in S
  <2>1. Looking(first, t, end, LocStep(t, end, p))
        /\ (~p.more => LocStep(t, end, p) = p)
        /\ (LocStep(t, end, p).more => LocStep(t, end, p).fabn > p.fabn)
    BY LocStepKeeps
  <2>2. LocStep(t, end, p) \in LocRec
    BY <2>1 DEF Looking
  <2> QED
    BY <2>1, <2>2
<1> HIDE DEF S, a
<1>a. PICK g : LocRuns(f, t, end, luck, S, g)
  <2>1. LocClosed(t, end, S) /\ LocStart(f, end, luck) \in S
    BY <1>1, <1>2 DEF a, LocClosed
  <2> QED
    BY <2>1, LocateSteps
<1>3. /\ g \in [0..N -> S]
      /\ g[0] = a /\ \A n \in 1..N : g[n] = LocStep(t, end, g[n - 1])
      /\ Locate(f, t, end, luck) = g[N]
  BY <1>a DEF a, LocRuns
<1>4. \A p \in S : Looking(first, t, end, p) /\ p.fabn \in Nat /\ p.fabn <= NBlocks /\ p.more \in BOOLEAN
  <2> TAKE p \in S
  <2>1. Looking(first, t, end, p) /\ p \in LocRec
    BY DEF S
  <2>2. p.fabn \in Starts(t)
    BY <2>1 DEF Looking, Holding
  <2> QED
    BY <2>1, <2>2, FitsAt DEF LocRec
<1> DEFINE T == {x \in Nat \X S : x[2].more => x[2].fabn >= x[1]}
<1>5. <<0, g[0]>> \in T
  BY <1>1, <1>3, <1>4
<1>6. ASSUME NEW n \in 1..N, <<n - 1, g[n - 1]>> \in T PROVE <<n, g[n]>> \in T
  <2>1. g[n - 1] \in S /\ (g[n - 1].more => g[n - 1].fabn >= n - 1) /\ n \in Nat
    BY <1>6, <1>0
  <2>2. g[n] = LocStep(t, end, g[n - 1])
    BY <1>3
  <2>3. /\ g[n] \in S /\ (~g[n - 1].more => g[n] = g[n - 1])
        /\ (g[n].more => g[n].fabn > g[n - 1].fabn)
    BY <2>1, <2>2, <1>2
  <2>4. g[n - 1].fabn \in Nat /\ g[n].fabn \in Nat
    BY <2>1, <2>3, <1>4
  <2>5. g[n].more => g[n].fabn >= n
    <3>1. CASE g[n - 1].more
      BY <3>1, <2>1, <2>3, <2>4
    <3>2. CASE ~g[n - 1].more
      <4>1. g[n] = g[n - 1]
        BY <3>2, <2>3
      <4> QED
        BY <4>1, <3>2
    <3> QED
      BY <3>1, <3>2
  <2> QED
    BY <2>1, <2>3, <2>5
<1>7. \A n \in 0..N : <<n, g[n]>> \in T
  <2> HIDE DEF T
  <2> QED
    BY <1>0, <1>5, <1>6, Along
<1>8. g[N] \in S /\ (g[N].more => g[N].fabn >= N)
  <2>1. N \in 0..N
    BY <1>0
  <2>2. <<N, g[N]>> \in T
    BY <2>1, <1>7
  <2> QED
    BY <2>2
<1>9. ~g[N].more
  BY <1>8, <1>4, <1>0
<1> QED
  BY <1>3, <1>4, <1>8, <1>9

\* The loop is not entered.
LEMMA LocateStays ==
  ASSUME NEW f, NEW t, NEW end, NEW luck, ~(f.fabn < end)
  PROVE  Locate(f, t, end, luck) = LocStart(f, end, luck)
<1> DEFINE a == LocStart(f, end, luck)
<1>1. ~a.more
  <2>1. a.more = (f.fabn < end)
    BY DEF LocStart
  <2> QED
    BY <2>1
<1> HIDE DEF a
<1>2. LocStep(t, end, a) = a
  BY <1>1 DEF LocStep, LocateIn
<1> DEFINE S == {a}
<1>3. LocClosed(t, end, S) /\ LocStart(f, end, luck) \in S
  BY <1>2 DEF LocClosed, a
<1> HIDE DEF S
<1>4. PICK g : LocRuns(f, t, end, luck, S, g)
  BY <1>3, LocateSteps
<1>5. Locate(f, t, end, luck) \in S
  <2>1. NBlocks + 1 \in 0..NBlocks + 1
    BY WidthIsNat
  <2> QED
    BY <2>1, <1>4 DEF LocRuns
<1> QED
  BY <1>5 DEF S, a

-----------------------------------------------------------------------------
(***************************************************************************)
(* f_doblock.                                                              *)
(***************************************************************************)
\* Where the loop of f_doblock stands.
DoRec == [ext : Rec, fabn : Nat, left : Int, more : BOOLEAN, abn : Int]

\* one round of it
DoStep(t, num, p) ==
  LET s == Ends(p.ext, p.fabn)
      hit == {i \in 1..Width : num < s[i]}
  IN  IF ~p.more THEN p
      ELSE IF hit # {}
           THEN [p EXCEPT !.more = FALSE, !.abn = p.ext[Min(hit)].at + num - s[Min(hit) - 1]]
      ELSE IF Finds(t, s[Width], p.left)
           THEN [p EXCEPT !.ext = t[s[Width]], !.fabn = s[Width], !.left = @ - 1]
      ELSE [p EXCEPT !.more = FALSE]

\* where it begins
DoStart(f, num, luck) ==
  [ext |-> IF Rewinds(f, num) THEN f.rec[f.fork].ext ELSE f.ext,
   fabn |-> IF Rewinds(f, num) THEN 0 ELSE f.fabn,
   left |-> luck.searches, more |-> TRUE, abn |-> NoBlock]

\* what f_doblock returns
DoneAt(f, p) == [f |-> [f EXCEPT !.ext = p.ext, !.fabn = p.fabn], abn |-> p.abn]

\* the rounds of the loop, all within S
DoRuns(f, t, num, luck, S, g) ==
  /\ g \in [0..NBlocks + 1 -> S] /\ g[0] = DoStart(f, num, luck)
  /\ \A n \in 1..NBlocks + 1 : g[n] = DoStep(t, num, g[n - 1])
  /\ DoBlock(f, t, num, luck) = DoneAt(f, g[NBlocks + 1])

\* a round leads from S to S
DoClosed(t, num, S) == \A p \in S : DoStep(t, num, p) \in S

\* DoBlock is the last of the rounds.
LEMMA DoBlockSteps ==
  ASSUME NEW f, NEW t, NEW num, NEW luck, NEW S, DoStart(f, num, luck) \in S, DoClosed(t, num, S)
  PROVE  \E g : DoRuns(f, t, num, luck, S, g)
<1> DEFINE N == NBlocks + 1
           a == DoStart(f, num, luck)
           body(g) == [n \in 0..N |->
             IF n = 0
             THEN [ext |-> IF Rewinds(f, num) THEN f.rec[f.fork].ext ELSE f.ext,
                   fabn |-> IF Rewinds(f, num) THEN 0 ELSE f.fabn,
                   left |-> luck.searches, more |-> TRUE, abn |-> NoBlock]
             ELSE LET p == g[n - 1]
                      s == Ends(p.ext, p.fabn)
                      hit == {i \in 1..Width : num < s[i]}
                  IN  IF ~p.more THEN p
                      ELSE IF hit # {}
                           THEN [p EXCEPT !.more = FALSE,
                                          !.abn = p.ext[Min(hit)].at + num - s[Min(hit) - 1]]
                      ELSE IF Finds(t, s[Width], p.left)
                           THEN [p EXCEPT !.ext = t[s[Width]], !.fabn = s[Width],
                                          !.left = @ - 1]
                      ELSE [p EXCEPT !.more = FALSE]]
           at == CHOOSE g : g = body(g)
           F == [x \in S \X (1..N) |-> DoStep(t, num, x[1])]
<1>0. N \in Nat /\ N \in 0..N /\ 0 \in 0..N
  BY WidthIsNat
<1>1. \A g : body(g) = [n \in 0..N |-> IF n = 0 THEN a ELSE DoStep(t, num, g[n - 1])]
  BY DEF DoStep, DoStart
<1>2. DoBlock(f, t, num, luck) = DoneAt(f, at[N])
  BY DEF DoBlock, DoneAt
<1> HIDE DEF body, N, a
<1>3. F \in [S \X (1..N) -> S]
  BY DEF DoClosed
<1>4. PICK g : Solves(S, N, F, a, g)
  BY <1>0, <1>3, Solution DEF Recursive, a
<1>5. g \in [0..N -> S] /\ g[0] = a /\ \A n \in 1..N : g[n] = DoStep(t, num, g[n - 1])
  <2>1. g \in [0..N -> S] /\ g[0] = a /\ \A n \in 1..N : g[n] = F[<<g[n - 1], n>>]
    BY <1>4 DEF Solves
  <2>2. \A n \in 1..N : n - 1 \in 0..N
    BY <1>0
  <2> QED
    BY <2>1, <2>2
<1> HIDE DEF F
<1>6. g = body(g)
  <2>1. \A n \in 0..N : n = 0 \/ n \in 1..N
    BY <1>0
  <2>2. g = [n \in 0..N |-> IF n = 0 THEN a ELSE DoStep(t, num, g[n - 1])]
    BY <1>5, <2>1
  <2> QED
    BY <2>2, <1>1
<1>7. at = body(at)
  BY <1>6
<1> HIDE DEF at
<1>8. at[0] = a /\ \A n \in 1..N : at[n] = DoStep(t, num, at[n - 1])
  <2>1. \A n \in 1..N : n \in 0..N /\ n # 0
    BY <1>0
  <2>2. at = [n \in 0..N |-> IF n = 0 THEN a ELSE DoStep(t, num, at[n - 1])]
    BY <1>7, <1>1
  <2> QED
    BY <2>1, <2>2, <1>0
<1> DEFINE T == Nat \X S
<1>9. <<0, at[0]>> \in T
  BY <1>8 DEF a
<1>10. ASSUME NEW n \in 1..N, <<n - 1, at[n - 1]>> \in T PROVE <<n, at[n]>> \in T
  <2>1. at[n - 1] \in S /\ at[n] = DoStep(t, num, at[n - 1]) /\ n \in Nat
    BY <1>10, <1>8, <1>0
  <2>2. at[n] \in S
    BY <2>1 DEF DoClosed
  <2> QED
    BY <2>1, <2>2
<1>11. \A n \in 0..N : <<n, at[n]>> \in T
  <2> HIDE DEF T
  <2> QED
    BY <1>0, <1>9, <1>10, Along
<1>12. at \in [0..N -> S]
  <2>1. at = [n \in 0..N |-> IF n = 0 THEN a ELSE DoStep(t, num, at[n - 1])]
    BY <1>7, <1>1
  <2>2. \A n \in 0..N : at[n] \in S
    BY <1>11
  <2> HIDE DEF T
  <2>3. at = [n \in 0..N |-> at[n]]
    BY <2>1
  <2> QED
    BY <2>2, <2>3
<1>13. DoRuns(f, t, num, luck, S, at)
  BY <1>2, <1>8, <1>12 DEF N, a, DoRuns
<1> QED
  BY <1>13

\* no block is passed over, and the block found is the right one
Seeking(first, t, c, num, p) ==
  /\ p \in DoRec /\ Holding(first, t, p) /\ p.fabn <= num
  /\ ~p.more => p.abn = c[num + 1]

\* The block of a fork that an extent describes.
LEMMA BlockIn ==
  ASSUME NEW first, NEW t, NEW c, Tiled(first, t, c), NEW n \in Starts(t), NEW i \in 1..Width,
         NEW num \in Nat, Ends(RecordAt(first, t, n), n)[i - 1] <= num,
         num < Ends(RecordAt(first, t, n), n)[i]
  PROVE  /\ c[num + 1] = RecordAt(first, t, n)[i].at + num - Ends(RecordAt(first, t, n), n)[i - 1]
         /\ num + 1 \in 1..Len(c)
<1> DEFINE x == RecordAt(first, t, n)
           s == Ends(x, n)
<1>1. Fits(x, n, t, c) /\ x \in Rec /\ n \in Nat /\ Total(x, n) <= Len(c) /\ c \in Seq(ABN) /\ Len(c) \in Nat
  <2>1. c \in Seq(ABN)
    BY DEF Tiled
  <2> QED
    BY <2>1, FitsAt
<1>2. \A j \in 1..x[i].len : c[s[i - 1] + j] = x[i].at + j - 1
  BY <1>1 DEF Fits, Matches
<1>3. i - 1 \in 0..Width /\ i \in 0..Width /\ Width \in 0..Width /\ i <= Width
  BY WidthIsNat
<1>4. s[i] = s[i - 1] + x[i].len /\ x[i].len \in Nat /\ s[i - 1] \in Nat /\ s[i] \in Nat /\ s[i] <= s[Width] /\ s[Width] \in Nat /\ x[i].at \in Int
  <2>1. x[i].len \in Nat /\ x[i].at \in ABN
    BY <1>1, RecFields
  <2>2. x[i].at \in Int
    BY <2>1, ExtentsAssumption DEF ABN
  <2>3. s[i] <= s[Width]
    BY <1>1, <1>3, EndsGrow
  <2> QED
    BY <1>1, <1>3, <2>1, <2>2, <2>3, EndsTyped
<1>5. s[Width] <= Len(c)
  BY <1>1 DEF Total
<1> HIDE DEF s, x
<1>6. s[i - 1] <= num /\ num < s[i]
  BY DEF s, x
<1>7. num + 1 - s[i - 1] \in 1..x[i].len /\ s[i - 1] + (num + 1 - s[i - 1]) = num + 1
  BY <1>4, <1>6
<1>8. c[num + 1] = x[i].at + (num + 1 - s[i - 1]) - 1
  BY <1>2, <1>7
<1>9. x[i].at + (num + 1 - s[i - 1]) - 1 = x[i].at + num - s[i - 1]
  BY <1>4
<1>10. num + 1 \in 1..Len(c)
  BY <1>4, <1>5, <1>6, <1>1
<1> QED
  BY <1>8, <1>9, <1>10 DEF s, x

\* Each round looks at the next record, or has found the block.
LEMMA DoStepKeeps ==
  ASSUME NEW first, NEW t, NEW c, Tiled(first, t, c), NEW num \in Nat, num < Len(c), Len(c) <= NBlocks,
         NEW p, Seeking(first, t, c, num, p)
  PROVE  /\ Seeking(first, t, c, num, DoStep(t, num, p))
         /\ ~p.more => DoStep(t, num, p) = p
         /\ DoStep(t, num, p).more => DoStep(t, num, p).fabn > p.fabn
<1> DEFINE s == Ends(p.ext, p.fabn)
           hit == {i \in 1..Width : num < s[i]}
           r == DoStep(t, num, p)
<1>0. /\ p \in DoRec /\ Holding(first, t, p) /\ p.fabn <= num /\ Len(c) \in Nat
      /\ ~p.more => p.abn = c[num + 1]
      /\ c \in Seq(ABN)
  BY DEF Seeking, Tiled
<1>1. CASE ~p.more
  <2>1. r = p
    BY <1>1 DEF DoStep
  <2> QED
    BY <1>1, <2>1
<1>2. CASE p.more
  <2>0. p.fabn \in Starts(t) /\ p.ext = RecordAt(first, t, p.fabn) /\ p.left >= NBlocks + 2 - p.fabn
        /\ p.left \in Int /\ p.fabn \in Nat /\ p.ext \in Rec
    BY <1>0, <1>2 DEF Holding, DoRec
  <2> DEFINE n == p.fabn
             x == RecordAt(first, t, n)
             m == Total(x, n)
  <2>1. Fits(x, n, t, c) /\ x \in Rec /\ n \in 0..NBlocks /\ n \in Nat /\ m \in Nat /\ n <= m /\ m <= Len(c)
    BY <2>0, FitsAt
  <2>3. s = Ends(x, n) /\ s \in [0..Width -> Nat] /\ s[0] = n /\ s[Width] = m
    BY <2>0, <2>1, EndsTyped DEF Total
  <2> HIDE DEF m, x, s
  <2>4. CASE hit # {}
    <3> DEFINE i == Min(hit)
               b == x[i].at + num - s[i - 1]
    <3>a. hit \in SUBSET Nat
      BY WidthIsNat
    <3>b. i \in hit /\ \A y \in hit : i <= y
      <4> HIDE DEF hit
      <4> QED
        BY <3>a, <2>4, MinIs
    <3>c. i \in 1..Width /\ num < s[i]
      <4> HIDE DEF i
      <4> QED
        BY <3>b
    <3>1. r = [p EXCEPT !.more = FALSE, !.abn = b]
      BY <1>2, <2>0, <2>4 DEF r, DoStep, s, x
    <3> HIDE DEF i
    <3>2. i - 1 \in 0..Width /\ i \in Nat
      BY <3>c, WidthIsNat
    <3>3. s[i - 1] <= num
      <4>1. CASE i = 1
        BY <4>1, <2>3, <1>0
      <4>2. CASE i # 1
        <5>1. i - 1 \in 1..Width /\ ~(i <= i - 1)
          BY <3>c, <4>2, WidthIsNat
        <5>2. i - 1 \notin hit
          <6> HIDE DEF hit
          <6> QED
            BY <5>1, <3>b
        <5>3. ~(num < s[i - 1]) /\ s[i - 1] \in Nat
          BY <5>1, <5>2, <2>3, <3>2
        <5> QED
          BY <5>3
      <4> QED
        BY <4>1, <4>2
    <3>4. c[num + 1] = b /\ num + 1 \in 1..Len(c)
      BY <2>0, <2>3, <3>c, <3>3, BlockIn DEF x
    <3>5. b \in Int
      <4>1. c[num + 1] \in ABN
        BY <1>0, <3>4, ElementOfSeq
      <4> QED
        BY <4>1, <3>4, ExtentsAssumption DEF ABN
    <3> HIDE DEF b
    <3>6. r \in DoRec /\ r.more = FALSE /\ r.abn = b /\ r.ext = p.ext /\ r.fabn = p.fabn /\ r.left = p.left
      BY <1>0, <3>1, <3>5 DEF DoRec
    <3> HIDE DEF r
    <3>7. Seeking(first, t, c, num, r)
      BY <3>6, <3>4, <1>0, <2>0 DEF Seeking, Holding
    <3> QED
      BY <3>6, <3>7, <1>2 DEF r
  <2>5. CASE hit = {}
    <3>1. m <= num /\ m < Len(c)
      <4>1. ~(num < s[Width])
        BY <2>5, WidthIsNat
      <4> QED
        BY <4>1, <2>1, <2>3, <1>0
    <3>2. m \in DOMAIN t /\ m \in Starts(t) /\ RecordAt(first, t, m) = t[m] /\ n < m
      BY <3>1, <2>0, NextIs DEF m, x
    <3>3. Finds(t, m, p.left)
      BY <2>0, <2>1, <3>2, WidthIsNat DEF Finds
    <3> DEFINE y == t[m]
               l == p.left - 1
    <3>4. r = [p EXCEPT !.ext = y, !.fabn = m, !.left = l]
      BY <1>2, <2>5, <2>3, <3>3 DEF r, DoStep, s
    <3>5. y \in Rec /\ l \in Int
      BY <2>0, <3>2, TreeFields DEF Tiled
    <3> HIDE DEF y, l
    <3>7. /\ r \in DoRec /\ r.more /\ r.ext = y /\ r.fabn = m /\ r.left = l
      BY <1>0, <1>2, <2>1, <3>5, <3>4 DEF DoRec
    <3> HIDE DEF r
    <3>8. Holding(first, t, r)
      BY <3>7, <3>2, <2>0, <2>1, WidthIsNat DEF Holding, y, l
    <3>9. Seeking(first, t, c, num, r)
      BY <3>7, <3>8, <3>1 DEF Seeking
    <3> QED
      <4>1. DoStep(t, num, p).fabn > p.fabn /\ Seeking(first, t, c, num, DoStep(t, num, p))
        BY <3>7, <3>9, <3>2, <2>1 DEF r
      <4> QED
        BY <4>1, <1>2
  <2> QED
    BY <2>4, <2>5
<1> QED
  BY <1>1, <1>2

\* the loop has found block "num" of the fork
Sought(f, first, t, c, num, luck, p) ==
  /\ p \in DoRec /\ Holding(first, t, p) /\ p.abn = c[num + 1]
  /\ DoBlock(f, t, num, luck) = DoneAt(f, p)

\* It does, if it begins at a record of the fork or at its end.
LEMMA DoBlockFinds ==
  ASSUME NEW f, NEW first, NEW t, NEW c, NEW num \in Nat, NEW luck,
         Tiled(first, t, c), Len(c) <= NBlocks, num < Len(c), f.rec[f.fork].ext = first,
         (f.fabn \in Starts(t) /\ f.ext = RecordAt(first, t, f.fabn)) \/ f.fabn = Len(c),
         luck.searches = NBlocks + 2
  PROVE  \E p : Sought(f, first, t, c, num, luck, p)
<1> DEFINE N == NBlocks + 1
           a == DoStart(f, num, luck)
           S == {p \in DoRec : Seeking(first, t, c, num, p)}
<1>0. N \in Nat /\ NBlocks \in Nat /\ Len(c) \in Nat
  <2>1. Len(c) \in Nat
    BY DEF Tiled
  <2> QED
    BY <2>1, WidthIsNat
<1>1. a \in S
  <2>1. a.fabn \in Starts(t) /\ a.ext = RecordAt(first, t, a.fabn) /\ a.fabn <= num
    <3>1. CASE num < f.fabn
      <4>1. a.fabn = 0 /\ a.ext = first
        BY <3>1 DEF DoStart, Rewinds
      <4> HIDE DEF a
      <4> QED
        BY <4>1 DEF Starts, RecordAt
    <3>2. CASE ~(num < f.fabn)
      <4>1. a.fabn = f.fabn /\ a.ext = f.ext
        BY <3>2 DEF DoStart, Rewinds
      <4>2. f.fabn # Len(c)
        BY <3>2
      <4>3. f.fabn \in Starts(t) /\ f.ext = RecordAt(first, t, f.fabn)
        BY <4>2
      <4>4. f.fabn \in Nat
        BY <4>3, FitsAt
      <4>5. f.fabn <= num
        BY <4>4, <3>2
      <4> HIDE DEF a
      <4> QED
        BY <4>1, <4>3, <4>5
    <3> QED
      BY <3>1, <3>2
  <2>2. a.more /\ a.left = NBlocks + 2 /\ a.abn = NoBlock /\ a.more \in BOOLEAN
        /\ a = [ext |-> a.ext, fabn |-> a.fabn, left |-> a.left, more |-> a.more, abn |-> a.abn]
    BY DEF DoStart
  <2> HIDE DEF a
  <2>3. a.ext \in Rec /\ a.fabn \in Nat
    BY <2>1, FitsAt
  <2>4. a \in DoRec
    <3>1. a.left \in Int /\ a.abn \in Int
      BY <2>2, <1>0 DEF NoBlock
    <3> QED
      BY <3>1, <2>2, <2>3 DEF DoRec
  <2>5. Holding(first, t, a)
    BY <2>1, <2>2, <2>3, <1>0 DEF Holding
  <2> QED
    BY <2>1, <2>2, <2>4, <2>5 DEF Seeking
<1>2. \A p \in S : DoStep(t, num, p) \in S /\ (~p.more => DoStep(t, num, p) = p)
                   /\ (DoStep(t, num, p).more => DoStep(t, num, p).fabn > p.fabn)
  <2> TAKE p \in S
  <2>1. Seeking(first, t, c, num, DoStep(t, num, p))
        /\ (~p.more => DoStep(t, num, p) = p)
        /\ (DoStep(t, num, p).more => DoStep(t, num, p).fabn > p.fabn)
    BY DoStepKeeps
  <2>2. DoStep(t, num, p) \in DoRec
    BY <2>1 DEF Seeking
  <2> QED
    BY <2>1, <2>2
<1> HIDE DEF S, a
<1>a. PICK g : DoRuns(f, t, num, luck, S, g)
  <2>1. DoClosed(t, num, S) /\ DoStart(f, num, luck) \in S
    BY <1>1, <1>2 DEF a, DoClosed
  <2> QED
    BY <2>1, DoBlockSteps
<1>3. /\ g \in [0..N -> S]
      /\ g[0] = a /\ \A n \in 1..N : g[n] = DoStep(t, num, g[n - 1])
      /\ DoBlock(f, t, num, luck) = DoneAt(f, g[N])
  BY <1>a DEF a, DoRuns
<1>4. \A p \in S : Seeking(first, t, c, num, p) /\ p.fabn \in Nat /\ p.fabn <= NBlocks /\ p.more \in BOOLEAN
  <2> TAKE p \in S
  <2>1. Seeking(first, t, c, num, p) /\ p \in DoRec
    BY DEF S
  <2>2. p.fabn \in Starts(t)
    BY <2>1 DEF Seeking, Holding
  <2> QED
    BY <2>1, <2>2, FitsAt DEF DoRec
<1> DEFINE T == {x \in Nat \X S : x[2].more => x[2].fabn >= x[1]}
<1>5. <<0, g[0]>> \in T
  BY <1>1, <1>3, <1>4
<1>6. ASSUME NEW n \in 1..N, <<n - 1, g[n - 1]>> \in T PROVE <<n, g[n]>> \in T
  <2>1. g[n - 1] \in S /\ (g[n - 1].more => g[n - 1].fabn >= n - 1) /\ n \in Nat
    BY <1>6, <1>0
  <2>2. g[n] = DoStep(t, num, g[n - 1])
    BY <1>3
  <2>3. /\ g[n] \in S /\ (~g[n - 1].more => g[n] = g[n - 1])
        /\ (g[n].more => g[n].fabn > g[n - 1].fabn)
    BY <2>1, <2>2, <1>2
  <2>4. g[n - 1].fabn \in Nat /\ g[n].fabn \in Nat
    BY <2>1, <2>3, <1>4
  <2>5. g[n].more => g[n].fabn >= n
    <3>1. CASE g[n - 1].more
      BY <3>1, <2>1, <2>3, <2>4
    <3>2. CASE ~g[n - 1].more
      <4>1. g[n] = g[n - 1]
        BY <3>2, <2>3
      <4> QED
        BY <4>1, <3>2
    <3> QED
      BY <3>1, <3>2
  <2> QED
    BY <2>1, <2>3, <2>5
<1>7. \A n \in 0..N : <<n, g[n]>> \in T
  <2> HIDE DEF T
  <2> QED
    BY <1>0, <1>5, <1>6, Along
<1>8. g[N] \in S /\ (g[N].more => g[N].fabn >= N)
  <2>1. N \in 0..N
    BY <1>0
  <2>2. <<N, g[N]>> \in T
    BY <2>1, <1>7
  <2> QED
    BY <2>2
<1>9. ~g[N].more
  BY <1>8, <1>4, <1>0
<1>10. g[N] \in DoRec /\ Holding(first, t, g[N]) /\ g[N].abn = c[num + 1]
  <2>1. Seeking(first, t, c, num, g[N])
    BY <1>4, <1>8
  <2> QED
    BY <2>1, <1>9 DEF Seeking
<1>11. Sought(f, first, t, c, num, luck, g[N])
  BY <1>3, <1>10 DEF Sought
<1> QED
  BY <1>11

\* A handle that the last call has left somewhere else, or a new one.
Moved(f, g, t) ==
  /\ g \in Handle /\ g.fork = f.fork /\ g.rec = f.rec /\ g.upd = f.upd
  /\ AtRecord(g, t)

\* f_doblock finds the right block, wherever the handle stands, and leaves the
\* handle at a record of the fork.
LEMMA DoBlockRight ==
  ASSUME NEW f \in Handle, NEW t, NEW c, NEW num \in Nat, NEW luck,
         Tiled(f.rec[f.fork].ext, t, c), Len(c) <= NBlocks, num < Len(c),
         AtRecord(f, t) \/ Lost(f, c), luck.searches = NBlocks + 2
  PROVE  /\ DoBlock(f, t, num, luck).abn = c[num + 1]
         /\ Moved(f, DoBlock(f, t, num, luck).f, t)
<1> DEFINE first == f.rec[f.fork].ext
           d == DoBlock(f, t, num, luck)
<1>1. (f.fabn \in Starts(t) /\ f.ext = RecordAt(first, t, f.fabn)) \/ f.fabn = Len(c)
  BY DEF AtRecord, Lost
<1>a. PICK p : Sought(f, first, t, c, num, luck, p)
  <2>1. Tiled(first, t, c) /\ f.rec[f.fork].ext = first
    OBVIOUS
  <2> HIDE DEF first
  <2> QED
    BY <1>1, <2>1, DoBlockFinds
<1>2. p \in DoRec /\ Holding(first, t, p) /\ p.abn = c[num + 1] /\ d = DoneAt(f, p)
  BY <1>a DEF Sought
<1>3. d.abn = c[num + 1] /\ d.f = [f EXCEPT !.ext = p.ext, !.fabn = p.fabn]
  BY <1>2 DEF DoneAt
<1> HIDE DEF d
<1>4. p.ext \in Rec /\ p.fabn \in Starts(t) /\ p.fabn \in 0..NBlocks /\ p.ext = RecordAt(first, t, p.fabn)
  <2>1. p.fabn \in Starts(t) /\ p.ext = RecordAt(first, t, p.fabn) /\ p.ext \in Rec
    BY <1>2 DEF Holding, DoRec
  <2> QED
    BY <2>1, FitsAt
<1>5. /\ d.f \in Handle /\ d.f.fork = f.fork /\ d.f.rec = f.rec /\ d.f.upd = f.upd
      /\ d.f.ext = p.ext /\ d.f.fabn = p.fabn
  BY <1>3, <1>4 DEF Handle
<1>6. AtRecord(d.f, t)
  BY <1>4, <1>5 DEF AtRecord
<1> QED
  BY <1>3, <1>5, <1>6 DEF Moved, d

-----------------------------------------------------------------------------
(***************************************************************************)
(* Forks that grow: f_addextent.                                           *)
(***************************************************************************)
\* d begins with c
Begins(c, d) ==
  /\ c \in Seq(ABN) /\ d \in Seq(ABN) /\ Len(c) <= Len(d)
  /\ \A q \in 1..Len(c) : d[q] = c[q]

\* What a record says of a fork stays true when the fork grows.
LEMMA MatchesLonger ==
  ASSUME NEW x \in Rec, NEW n \in Nat, NEW c, NEW d, Matches(x, n, c), Begins(c, d)
  PROVE  Matches(x, n, d)
<1>1. Total(x, n) \in Nat /\ Total(x, n) <= Len(c) /\ Len(c) \in Nat /\ Len(d) \in Nat /\ Len(c) <= Len(d)
  <2>1. Len(c) \in Nat /\ Len(d) \in Nat /\ Len(c) <= Len(d)
    BY DEF Begins
  <2>2. Total(x, n) \in Nat
    BY EndsTyped
  <2>3. Total(x, n) <= Len(c)
    BY DEF Matches
  <2> QED
    BY <2>1, <2>2, <2>3
<1>2. Total(x, n) <= Len(d)
  BY <1>1
<1>3. ASSUME NEW i \in 1..Width, NEW j \in 1..x[i].len
      PROVE  d[Ends(x, n)[i - 1] + j] = x[i].at + j - 1
  <2>1. i - 1 \in 0..Width /\ i \in 0..Width /\ Width \in 0..Width /\ i <= Width
    BY WidthIsNat
  <2>2. /\ Ends(x, n)[i - 1] \in Nat /\ Ends(x, n)[i] \in Nat /\ Ends(x, n)[i] = Ends(x, n)[i - 1] + x[i].len
        /\ x[i].len \in Nat /\ Ends(x, n)[i] <= Ends(x, n)[Width]
    BY <2>1, EndsTyped, EndsGrow, RecFields
  <2>3. Ends(x, n)[i - 1] + j \in 1..Len(c)
    <3> DEFINE a == Ends(x, n)[i - 1]
               l == x[i].len
               s == Len(c)
    <3>1. a \in Nat /\ l \in Nat /\ s \in Nat /\ a + l <= s /\ j \in 1..l
      BY <2>2, <1>1 DEF Total
    <3> HIDE DEF a, l, s
    <3>2. a + j \in 1..s
      BY ONLY <3>1
    <3> QED
      BY ONLY <3>2 DEF a, s
  <2>4. d[Ends(x, n)[i - 1] + j] = c[Ends(x, n)[i - 1] + j]
    BY <2>3 DEF Begins
  <2>5. c[Ends(x, n)[i - 1] + j] = x[i].at + j - 1
    BY DEF Matches
  <2> QED
    BY <2>4, <2>5
<1> QED
  BY <1>2, <1>3 DEF Matches

\* A record still fits when the fork has grown.
LEMMA FitsLonger ==
  ASSUME NEW x, NEW n \in Nat, NEW t, NEW c, NEW u, NEW d, Fits(x, n, t, c), Begins(c, d),
         DOMAIN t \subseteq DOMAIN u, \A k \in DOMAIN u : k \in DOMAIN t \/ (k \in Nat /\ Len(c) <= k),
         Total(x, n) = Len(c) /\ Len(c) < Len(d) => Len(c) \in DOMAIN u /\ Full(x)
  PROVE  Fits(x, n, u, d)
<1>1. x \in Rec /\ Shaped(x) /\ Matches(x, n, c)
      /\ (n # 0 => x[1].len > 0)
      /\ (Total(x, n) < Len(c) => Total(x, n) \in DOMAIN t /\ Full(x))
      /\ \A m \in DOMAIN t : n < m => Total(x, n) <= m
  BY DEF Fits
<1>2. Total(x, n) \in Nat /\ Total(x, n) <= Len(c) /\ Len(c) \in Nat /\ Len(d) \in Nat
  <2>1. Len(c) \in Nat /\ Len(d) \in Nat
    BY DEF Begins
  <2>2. Total(x, n) \in Nat
    BY <1>1, EndsTyped
  <2>3. Total(x, n) <= Len(c)
    BY <1>1 DEF Matches
  <2> QED
    BY <2>1, <2>2, <2>3
<1>3. Matches(x, n, d)
  BY <1>1, MatchesLonger
<1>4. Total(x, n) < Len(d) => Total(x, n) \in DOMAIN u /\ Full(x)
  <2>1. CASE Total(x, n) < Len(c)
    BY <2>1, <1>1
  <2>2. CASE Total(x, n) = Len(c)
    BY <2>2
  <2> QED
    BY <2>1, <2>2, <1>2
<1>5. \A m \in DOMAIN u : n < m => Total(x, n) <= m
  <2> TAKE m \in DOMAIN u
  <2>1. CASE m \in DOMAIN t
    BY <2>1, <1>1
  <2>2. CASE m \in Nat /\ Len(c) <= m
    BY <2>2, <1>2
  <2> QED
    BY <2>1, <2>2
<1> QED
  BY <1>1, <1>3, <1>4, <1>5 DEF Fits

\* An overflow record describes at least one block.
LEMMA InsideFork ==
  ASSUME NEW first, NEW t, NEW c, Tiled(first, t, c), NEW n \in DOMAIN t
  PROVE  n < Total(t[n], n) /\ n < Len(c) /\ n # 0 /\ n \in Nat /\ RecordAt(first, t, n) = t[n] /\ n \in Starts(t)
<1>1. n \in Starts(t) /\ n # 0 /\ n \in Nat
  <2>1. n \in 1..NBlocks
    BY TreeFields DEF Tiled
  <2> QED
    BY <2>1, WidthIsNat DEF Starts
<1>2. RecordAt(first, t, n) = t[n]
  BY <1>1 DEF RecordAt
<1> DEFINE x == t[n]
<1>3. Fits(x, n, t, c) /\ x \in Rec /\ Total(x, n) \in Nat /\ Total(x, n) <= Len(c) /\ Len(c) \in Nat
  <2>1. Len(c) \in Nat
    BY DEF Tiled
  <2> QED
    BY <2>1, <1>1, <1>2, FitsAt
<1>4. x[1].len > 0 /\ x[1].len \in Nat
  BY <1>1, <1>3, RecFields, WidthIsNat DEF Fits
<1> HIDE DEF x
<1>5. Ends(x, n)[1] <= Ends(x, n)[Width] /\ Ends(x, n)[1] = n + x[1].len
  <2>1. 1 \in 1..Width /\ 1 \in 0..Width /\ Width \in 0..Width /\ 1 - 1 = 0 /\ 1 <= Width
    BY WidthIsNat
  <2>2. Ends(x, n)[1] = Ends(x, n)[1 - 1] + x[1].len /\ Ends(x, n)[0] = n
    BY <1>1, <1>3, <2>1, EndsTyped
  <2>3. Ends(x, n)[1] <= Ends(x, n)[Width]
    BY <1>1, <1>3, <2>1, EndsGrow
  <2> QED
    BY <2>1, <2>2, <2>3
<1>6. n < Total(x, n)
  BY <1>1, <1>3, <1>4, <1>5 DEF Total
<1> QED
  BY <1>1, <1>2, <1>3, <1>6 DEF x

\* There is one last record.
LEMMA OneLast ==
  ASSUME NEW first, NEW t, NEW c, Tiled(first, t, c), NEW n \in Starts(t), NEW m \in Starts(t),
         Total(RecordAt(first, t, n), n) = Len(c), Total(RecordAt(first, t, m), m) = Len(c)
  PROVE  m = n
<1>1. ASSUME NEW a \in Starts(t), NEW b \in Starts(t), Total(RecordAt(first, t, a), a) = Len(c), a < b
      PROVE  FALSE
  <2>1. a \in Nat /\ b \in Nat /\ Fits(RecordAt(first, t, a), a, t, c)
    BY FitsAt
  <2>2. b \in DOMAIN t
    BY <1>1, <2>1 DEF Starts
  <2>3. Len(c) <= b
    BY <1>1, <2>1, <2>2 DEF Fits
  <2>4. b < Len(c) /\ Len(c) \in Nat
    BY <2>2, InsideFork DEF Tiled
  <2> QED
    BY <2>1, <2>3, <2>4
<1>2. m \in Nat /\ n \in Nat
  BY FitsAt
<1>3. ~(m < n) /\ ~(n < m)
  BY <1>1
<1> QED
  BY <1>2, <1>3

\* The last record has grown.
LEMMA TiledGrown ==
  ASSUME NEW first, NEW t, NEW c, Tiled(first, t, c), NEW n \in Starts(t),
         Total(RecordAt(first, t, n), n) = Len(c),
         NEW d, Begins(c, d), NEW gfirst, NEW u \in Trees, DOMAIN u = DOMAIN t,
         \A m \in Starts(t) \ {n} : RecordAt(gfirst, u, m) = RecordAt(first, t, m),
         NEW y \in Rec, RecordAt(gfirst, u, n) = y, Shaped(y), Matches(y, n, d), Total(y, n) = Len(d),
         n # 0 => y[1].len > 0
  PROVE  Tiled(gfirst, u, d)
<1>1. Starts(u) = Starts(t)
  BY DEF Starts
<1>2. c \in Seq(ABN) /\ d \in Seq(ABN) /\ Len(c) \in Nat /\ Len(d) \in Nat
  BY DEF Begins
<1>3. ASSUME NEW m \in Starts(t), m # n
      PROVE  Fits(RecordAt(gfirst, u, m), m, u, d)
  <2>1. Fits(RecordAt(first, t, m), m, t, c) /\ m \in Nat
    BY FitsAt
  <2>2. Total(RecordAt(first, t, m), m) # Len(c)
    BY <1>3, OneLast
  <2>3. Fits(RecordAt(first, t, m), m, u, d)
    BY <2>1, <2>2, FitsLonger
  <2> QED
    BY <2>3, <1>3
<1>4. Fits(y, n, u, d)
  <2>1. ASSUME NEW m \in DOMAIN u, n < m PROVE FALSE
    <3>1. m \in DOMAIN t /\ m \in Nat /\ m < Len(c)
      BY <2>1, InsideFork
    <3>2. Fits(RecordAt(first, t, n), n, t, c)
      BY FitsAt
    <3>3. Len(c) <= m
      BY <2>1, <3>1, <3>2 DEF Fits
    <3> QED
      BY <3>1, <3>3, <1>2
  <2>2. ~(Total(y, n) < Len(d))
    BY <1>2
  <2> QED
    BY <2>1, <2>2 DEF Fits
<1>5. \A m \in Starts(u) : Fits(RecordAt(gfirst, u, m), m, u, d)
  <2> TAKE m \in Starts(u)
  <2>1. CASE m = n
    BY <2>1, <1>4
  <2>2. CASE m # n
    BY <2>2, <1>1, <1>3
  <2> QED
    BY <2>1, <2>2
<1> QED
  BY <1>2, <1>5 DEF Tiled

\* A new record follows the last one, which is full.
LEMMA TiledNew ==
  ASSUME NEW first, NEW t, NEW c, Tiled(first, t, c), NEW n \in Starts(t),
         Total(RecordAt(first, t, n), n) = Len(c), Full(RecordAt(first, t, n)), Len(c) # 0,
         NEW d, Begins(c, d), NEW u \in Trees, DOMAIN u = {Len(c)} \cup DOMAIN t,
         \A m \in DOMAIN t : u[m] = t[m],
         NEW y \in Rec, u[Len(c)] = y, Shaped(y), Matches(y, Len(c), d), Total(y, Len(c)) = Len(d),
         y[1].len > 0
  PROVE  Tiled(first, u, d)
<1>1. Starts(u) = {Len(c)} \cup Starts(t)
  BY DEF Starts
<1>2. c \in Seq(ABN) /\ d \in Seq(ABN) /\ Len(c) \in Nat /\ Len(d) \in Nat
  BY DEF Begins
<1>3. ASSUME NEW m \in Starts(t) PROVE Fits(RecordAt(first, u, m), m, u, d)
  <2>1. Fits(RecordAt(first, t, m), m, t, c) /\ m \in Nat
    BY FitsAt
  <2>2. Total(RecordAt(first, t, m), m) = Len(c) => Full(RecordAt(first, t, m))
    BY OneLast
  <2>3. \A k \in DOMAIN u : k \in DOMAIN t \/ (k \in Nat /\ Len(c) <= k)
    BY <1>2
  <2>4. Fits(RecordAt(first, t, m), m, u, d)
    BY <2>1, <2>2, <2>3, FitsLonger
  <2>5. RecordAt(first, u, m) = RecordAt(first, t, m)
    BY DEF RecordAt, Starts
  <2> QED
    BY <2>4, <2>5
<1>4. Fits(y, Len(c), u, d)
  <2>1. ASSUME NEW m \in DOMAIN u, Len(c) < m PROVE FALSE
    <3>1. m \in DOMAIN t
      BY <2>1, <1>2
    <3>2. m < Len(c) /\ m \in Nat
      BY <3>1, InsideFork
    <3> QED
      BY <3>2, <2>1, <1>2
  <2>2. ~(Total(y, Len(c)) < Len(d))
    BY <1>2
  <2> QED
    BY <2>1, <2>2 DEF Fits
<1>5. \A m \in Starts(u) : Fits(RecordAt(first, u, m), m, u, d)
  <2> TAKE m \in Starts(u)
  <2>1. CASE m = Len(c)
    <3>1. RecordAt(first, u, m) = y
      BY <2>1 DEF RecordAt
    <3> QED
      BY <2>1, <3>1, <1>4
  <2>2. CASE m # Len(c)
    BY <2>2, <1>1, <1>3
  <2> QED
    BY <2>1, <2>2
<1> QED
  BY <1>2, <1>5 DEF Tiled

\* y is x with its k-th extent, the last, changed to reach the end of d
Regrown(x, y, n, c, d, k) ==
  /\ x \in Rec /\ y \in Rec /\ n \in Nat /\ Matches(x, n, c) /\ Begins(c, d) /\ k \in 1..Width
  /\ \A j \in 1..k - 1 : y[j] = x[j]
  /\ \A j \in k + 1..Width : y[j].len = 0
  /\ \A j \in 1..k : y[j].len > 0
  /\ Ends(x, n)[k - 1] + y[k].len = Len(d)
  /\ \A q \in 1..y[k].len : d[Ends(x, n)[k - 1] + q] = y[k].at + q - 1

\* A record whose last extent grows, or that has a new one, goes to the end of
\* the longer fork.
LEMMA RecordGrown ==
  ASSUME NEW x, NEW y, NEW n, NEW c, NEW d, NEW k, Regrown(x, y, n, c, d, k)
  PROVE  Shaped(y) /\ Matches(y, n, d) /\ Total(y, n) = Len(d) /\ y[1].len > 0
<1> DEFINE e == Ends(x, n)
           s == Ends(y, n)
<1>0. /\ x \in Rec /\ y \in Rec /\ n \in Nat /\ Matches(x, n, c) /\ Begins(c, d) /\ k \in 1..Width
      /\ \A j \in 1..k - 1 : y[j] = x[j]
      /\ \A j \in k + 1..Width : y[j].len = 0
      /\ \A j \in 1..k : y[j].len > 0
      /\ Ends(x, n)[k - 1] + y[k].len = Len(d)
      /\ \A q \in 1..y[k].len : d[Ends(x, n)[k - 1] + q] = y[k].at + q - 1
  BY DEF Regrown
<1>1. k \in Nat /\ k - 1 \in 0..Width /\ k \in 0..Width /\ Width \in k..Width /\ 1 \in 1..k /\ Width \in Nat
  BY <1>0, WidthIsNat
<1>2. \A i \in 0..k - 1 : e[i] = s[i]
  <2>1. \A i \in 1..k - 1 : x[i].len = y[i].len
    BY <1>0
  <2> QED
    BY <1>0, <1>1, <2>1, EndsAlike
<1>3. s[k] = s[k - 1] + y[k].len /\ s[k - 1] = e[k - 1] /\ s[k] = Len(d)
  <2>1. s[k] = s[k - 1] + y[k].len
    BY <1>0, EndsTyped
  <2>2. k - 1 \in 0..k - 1
    BY <1>1
  <2> QED
    BY <1>0, <1>2, <2>1, <2>2
<1>4. Total(y, n) = Len(d)
  <2>1. \A i \in k..Width : s[i] = s[k]
    BY <1>0, <1>1, EndsFlat
  <2> QED
    BY <1>1, <1>3, <2>1 DEF Total
<1>5. Shaped(y)
  <2>1. ASSUME NEW i \in 1..Width, NEW j \in 1..Width, i <= j, y[i].len = 0 PROVE y[j].len = 0
    <3>1. i \notin 1..k
      BY <1>0, <2>1
    <3>2. j \in k + 1..Width
      BY <2>1, <3>1, <1>1
    <3> QED
      BY <1>0, <3>2
  <2> QED
    BY <2>1 DEF Shaped
<1>6. ASSUME NEW i \in 1..Width, NEW j \in 1..y[i].len PROVE d[s[i - 1] + j] = y[i].at + j - 1
  <2>1. CASE i < k
    <3>1. i \in 1..k - 1 /\ i - 1 \in 0..k - 1
      BY <2>1, <1>1
    <3>2. y[i] = x[i] /\ s[i - 1] = e[i - 1]
      BY <1>0, <3>1, <1>2
    <3>3. Matches(x, n, d)
      BY <1>0, MatchesLonger
    <3>4. d[e[i - 1] + j] = x[i].at + j - 1
      BY <3>2, <3>3 DEF Matches
    <3> QED
      BY <3>2, <3>4
  <2>2. CASE i = k
    BY <1>0, <2>2, <1>3
  <2>3. CASE i > k
    <3>1. i \in k + 1..Width
      BY <2>3, <1>1
    <3>2. y[i].len = 0
      BY <1>0, <3>1
    <3> QED
      BY <3>2
  <2>4. i \in Nat
    BY WidthIsNat
  <2> QED
    BY <2>1, <2>2, <2>3, <2>4, <1>1
<1>7. Matches(y, n, d)
  <2>1. Total(y, n) <= Len(d)
    <3>1. Len(d) \in Nat
      BY <1>0 DEF Begins
    <3> QED
      BY <3>1, <1>4
  <2> QED
    BY <1>6, <2>1 DEF Matches
<1> QED
  BY <1>0, <1>1, <1>4, <1>5, <1>7

\* The record ends with the fork, at its i-th extent.
EndsWith(x, n, i, c) ==
  /\ x \in Rec /\ n \in Nat /\ Matches(x, n, c) /\ i \in 0..Width
  /\ Ends(x, n)[i] = Len(c) /\ \A j \in 1..Width : x[j].len > 0 <=> j <= i

\* A run that v_allocblocks may return.
LEMMA RunFields ==
  ASSUME NEW run \in Runs
  PROVE  /\ run \in Extent /\ run.at \in ABN /\ run.len \in Nat /\ run.len > 0 /\ run.at \in Nat
         /\ run.len \in 0..NBlocks /\ run.at + run.len <= NBlocks
         /\ run = [at |-> run.at, len |-> run.len]
<1>1. run \in [at : ABN, len : 1..Clump] /\ run.at + run.len <= NBlocks
  BY DEF Runs
<1>2. run.at \in ABN /\ run.len \in Nat /\ run.len > 0 /\ run.at \in Nat
  BY <1>1, ExtentsAssumption DEF ABN
<1>3. run.len \in 0..NBlocks
  BY <1>1, <1>2, ExtentsAssumption
<1> QED
  BY <1>1, <1>2, <1>3 DEF Extent

\* The fork with a run appended.
LEMMA Longer ==
  ASSUME NEW c \in Seq(ABN), NEW run \in Runs
  PROVE  /\ Begins(c, c \o RunOf(run)) /\ Len(c \o RunOf(run)) = Len(c) + run.len
         /\ \A q \in 1..run.len : (c \o RunOf(run))[Len(c) + q] = run.at + q - 1
<1> DEFINE r == RunOf(run)
           d == c \o r
<1>1. r \in Seq(ABN) /\ Len(r) = run.len /\ \A q \in 1..run.len : r[q] = run.at + q - 1
  <2>1. Len(r) = run.len /\ (\A q \in 1..run.len : r[q] = run.at + q - 1)
    BY RunIsSeq, RunFields
  <2>2. \A q \in 1..run.len : run.at + q - 1 \in ABN
    BY RunFields, ExtentsAssumption DEF ABN
  <2>3. r \in Seq(ABN)
    <3>1. r = [q \in 1..run.len |-> run.at + q - 1] /\ run.len \in Nat
      BY RunFields DEF RunOf
    <3> HIDE DEF r
    <3> QED
      BY <3>1, <2>2
  <2> QED
    BY <2>1, <2>3
<1> HIDE DEF r
<1>2. /\ d \in Seq(ABN) /\ Len(d) = Len(c) + Len(r)
      /\ \A q \in 1..Len(c) + Len(r) : d[q] = IF q <= Len(c) THEN c[q] ELSE r[q - Len(c)]
  BY <1>1, ConcatProperties
<1>3. Len(c) \in Nat /\ Len(r) \in Nat /\ run.len \in Nat
  BY <1>1, RunFields
<1> HIDE DEF d
<1>4. \A q \in 1..Len(c) : d[q] = c[q]
  <2> TAKE q \in 1..Len(c)
  <2>1. q \in 1..Len(c) + Len(r) /\ q <= Len(c)
    BY <1>3
  <2> QED
    BY <2>1, <1>2
<1>5. \A q \in 1..run.len : d[Len(c) + q] = run.at + q - 1
  <2> TAKE q \in 1..run.len
  <2>1. Len(c) + q \in 1..Len(c) + Len(r) /\ ~(Len(c) + q <= Len(c)) /\ Len(c) + q - Len(c) = q
    BY <1>1, <1>3
  <2>2. d[Len(c) + q] = r[q]
    BY <1>2, <2>1
  <2> QED
    BY <2>2, <1>1
<1>6. Begins(c, d)
  BY <1>1, <1>2, <1>3, <1>4 DEF Begins
<1> QED
  BY <1>1, <1>2, <1>5, <1>6 DEF d, r

\* What a run appended to a record leaves.
Appended(y, n, d) ==
  /\ y \in Rec /\ Shaped(y) /\ Matches(y, n, d) /\ Total(y, n) = Len(d) /\ y[1].len > 0

\* The run becomes a new extent.
LEMMA NewExtent ==
  ASSUME NEW x, NEW n, NEW i, NEW c \in Seq(ABN), EndsWith(x, n, i, c), NEW run \in Runs, i < Width
  PROVE  Appended([x EXCEPT ![i + 1] = run], n, c \o RunOf(run))
<1> DEFINE y == [x EXCEPT ![i + 1] = run]
           d == c \o RunOf(run)
           k == i + 1
<1>1. x \in Rec /\ n \in Nat /\ Matches(x, n, c) /\ i \in 0..Width /\ Ends(x, n)[i] = Len(c)
      /\ \A j \in 1..Width : x[j].len > 0 <=> j <= i
  BY DEF EndsWith
<1>2. k \in 1..Width /\ k - 1 = i /\ k \in Nat
  BY <1>1, WidthIsNat
<1>3. run \in Extent /\ run.len > 0 /\ run.len \in Nat
  BY RunFields
<1>4. y \in Rec /\ y[k] = run /\ \A j \in 1..Width : j # k => y[j] = x[j]
  BY <1>1, <1>2, <1>3 DEF Rec
<1> HIDE DEF y, k
<1>5. \A j \in 1..k - 1 : y[j] = x[j] /\ y[j].len > 0
  <2> TAKE j \in 1..k - 1
  <2>1. j \in 1..Width /\ j # k /\ j <= i
    BY <1>1, <1>2, WidthIsNat
  <2> QED
    BY <2>1, <1>1, <1>4
<1>6. \A j \in k + 1..Width : y[j].len = 0
  <2> TAKE j \in k + 1..Width
  <2>1. j \in 1..Width /\ j # k /\ ~(j <= i)
    BY <1>1, <1>2, WidthIsNat
  <2>2. ~(x[j].len > 0) /\ x[j].len \in Nat
    BY <2>1, <1>1, RecFields
  <2> QED
    BY <2>1, <2>2, <1>4
<1>7. \A j \in 1..k : y[j].len > 0
  <2> TAKE j \in 1..k
  <2>1. j = k \/ j \in 1..k - 1
    BY <1>2
  <2> QED
    BY <2>1, <1>3, <1>4, <1>5
<1>8. /\ Begins(c, d) /\ Len(d) = Len(c) + run.len
      /\ \A q \in 1..run.len : d[Len(c) + q] = run.at + q - 1
  BY Longer
<1> HIDE DEF d
<1>9. Ends(x, n)[k - 1] + y[k].len = Len(d) /\ \A q \in 1..y[k].len : d[Ends(x, n)[k - 1] + q] = y[k].at + q - 1
  BY <1>1, <1>2, <1>4, <1>8
<1>10. Shaped(y) /\ Matches(y, n, d) /\ Total(y, n) = Len(d) /\ y[1].len > 0
  <2>1. Regrown(x, y, n, c, d, k)
    BY <1>1, <1>2, <1>4, <1>5, <1>6, <1>7, <1>8, <1>9 DEF Regrown
  <2> QED
    BY <2>1, RecordGrown
<1> QED
  BY <1>4, <1>10 DEF Appended, y, d, k

\* The run joins the last extent.
LEMMA JoinedExtent ==
  ASSUME NEW x, NEW n, NEW i, NEW c \in Seq(ABN), EndsWith(x, n, i, c), NEW run \in Runs, i # 0,
         Joins(x[i], run), Len(c) + run.len <= NBlocks
  PROVE  Appended([x EXCEPT ![i].len = @ + run.len], n, c \o RunOf(run))
<1> DEFINE y == [x EXCEPT ![i].len = @ + run.len]
           d == c \o RunOf(run)
<1>1. x \in Rec /\ n \in Nat /\ Matches(x, n, c) /\ i \in 0..Width /\ Ends(x, n)[i] = Len(c)
      /\ \A j \in 1..Width : x[j].len > 0 <=> j <= i
  BY DEF EndsWith
<1>2. i \in 1..Width /\ i \in Nat /\ i - 1 \in 0..Width
  BY <1>1, WidthIsNat
<1>3. run \in Extent /\ run.len > 0 /\ run.len \in Nat
  BY RunFields
<1>4. x[i].len \in Nat /\ x[i].at \in ABN /\ x[i] \in Extent /\ Ends(x, n)[i] = Ends(x, n)[i - 1] + x[i].len
      /\ Ends(x, n)[i - 1] \in Nat /\ Len(c) \in Nat /\ x[i].len > 0
  <2>1. x[i].len \in Nat /\ x[i].at \in ABN /\ x[i] \in Extent
    BY <1>1, <1>2, RecFields
  <2>2. Ends(x, n)[i] = Ends(x, n)[i - 1] + x[i].len /\ Ends(x, n)[i - 1] \in Nat
    BY <1>1, <1>2, EndsTyped
  <2>3. x[i].len > 0 /\ Len(c) \in Nat
    BY <1>1, <1>2
  <2> QED
    BY <2>1, <2>2, <2>3
<1> DEFINE e == Ends(x, n)[i - 1]
           l == x[i].len
           g == run.len
<1>a. e \in Nat /\ l \in Nat /\ l > 0 /\ g \in Nat /\ g > 0 /\ e + l = Len(c) /\ Len(c) \in Nat /\ Len(c) + g <= NBlocks /\ NBlocks \in Nat
  BY <1>1, <1>3, <1>4, WidthIsNat
<1> HIDE DEF e, l, g
<1> DEFINE m == x[i].len + run.len
           w == [at |-> x[i].at, len |-> m]
<1>5. m \in 0..NBlocks /\ m \in Nat /\ m > 0
  <2>1. m = l + g
    BY DEF l, g
  <2> HIDE DEF m
  <2> QED
    BY <2>1, <1>a
<1>6. y = [x EXCEPT ![i] = w]
  <2>1. x[i] = [at |-> x[i].at, len |-> x[i].len]
    BY <1>4 DEF Extent
  <2>2. [x[i] EXCEPT !.len = x[i].len + run.len] = w
    BY <2>1
  <2> QED
    BY <1>1, <1>2, <2>2 DEF Rec
<1> HIDE DEF m
<1>7. w \in Extent /\ w.at = x[i].at /\ w.len = m
  BY <1>4, <1>5 DEF Extent
<1> HIDE DEF w, y
<1>8. y \in Rec /\ y[i] = w /\ \A j \in 1..Width : j # i => y[j] = x[j]
  BY <1>1, <1>2, <1>6, <1>7 DEF Rec
<1>9. \A j \in 1..i - 1 : y[j] = x[j] /\ y[j].len > 0
  <2> TAKE j \in 1..i - 1
  <2>1. j \in 1..Width /\ j # i /\ j <= i
    BY <1>1, <1>2, WidthIsNat
  <2> QED
    BY <2>1, <1>1, <1>8
<1>10. \A j \in i + 1..Width : y[j].len = 0
  <2> TAKE j \in i + 1..Width
  <2>1. j \in 1..Width /\ j # i /\ ~(j <= i)
    BY <1>1, <1>2, WidthIsNat
  <2>2. ~(x[j].len > 0) /\ x[j].len \in Nat
    BY <2>1, <1>1, RecFields
  <2> QED
    BY <2>1, <2>2, <1>8
<1>11. \A j \in 1..i : y[j].len > 0
  <2> TAKE j \in 1..i
  <2>1. j = i \/ j \in 1..i - 1
    BY <1>2
  <2> QED
    BY <2>1, <1>5, <1>7, <1>8, <1>9
<1>12. /\ Begins(c, d) /\ Len(d) = Len(c) + run.len
       /\ \A q \in 1..run.len : d[Len(c) + q] = run.at + q - 1
  BY Longer
<1> HIDE DEF d
<1>13. Ends(x, n)[i - 1] + y[i].len = Len(d)
  <2>1. y[i].len = l + g /\ Len(d) = Len(c) + g
    BY <1>7, <1>8, <1>12 DEF m, l, g
  <2> QED
    BY <2>1, <1>a DEF e
<1>14. ASSUME NEW q \in 1..y[i].len PROVE d[Ends(x, n)[i - 1] + q] = y[i].at + q - 1
  <2>1. q \in Nat /\ 1 <= q /\ q <= m /\ y[i].at = x[i].at /\ x[i].at \in Int
    BY <1>4, <1>5, <1>7, <1>8, ExtentsAssumption DEF ABN
  <2>2. CASE q <= x[i].len
    <3>1. q \in 1..x[i].len
      BY <2>1, <2>2, <1>4
    <3>2. c[Ends(x, n)[i - 1] + q] = x[i].at + q - 1
      BY <3>1, <1>1, <1>2 DEF Matches
    <3>3. Ends(x, n)[i - 1] + q \in 1..Len(c)
      BY <1>1, <1>4, <2>1, <2>2
    <3>4. d[Ends(x, n)[i - 1] + q] = c[Ends(x, n)[i - 1] + q]
      BY <3>3, <1>12 DEF Begins
    <3> QED
      BY <3>2, <3>4, <2>1
  <2>3. CASE q > x[i].len
    <3>1. q - x[i].len \in 1..run.len /\ Len(c) + (q - x[i].len) = Ends(x, n)[i - 1] + q
      <4>1. m = l + g /\ q > l
        BY <2>3 DEF m, l, g
      <4>2. q - l \in 1..g /\ Len(c) + (q - l) = e + q
        <5> DEFINE s == Len(c)
        <5>1. m = l + g /\ q > l /\ q \in Nat /\ q <= m /\ l \in Nat /\ g \in Nat /\ e \in Nat /\ s \in Nat /\ s = e + l
          BY <4>1, <2>1, <1>a
        <5> HIDE DEF s
        <5>2. q - l \in 1..g /\ s + (q - l) = e + q
          BY ONLY <5>1
        <5> QED
          BY ONLY <5>2 DEF s
      <4> QED
        BY <4>2 DEF e, l, g
    <3>2. d[Len(c) + (q - x[i].len)] = run.at + (q - x[i].len) - 1
      BY <3>1, <1>12
    <3>3. run.at = x[i].at + x[i].len
      BY DEF Joins
    <3>4. run.at + (q - x[i].len) - 1 = y[i].at + q - 1
      BY <3>3, <2>1, <1>4
    <3> QED
      BY <3>1, <3>2, <3>4
  <2> QED
    BY <2>1, <2>2, <2>3, <1>4
<1>15. Shaped(y) /\ Matches(y, n, d) /\ Total(y, n) = Len(d) /\ y[1].len > 0
  <2>1. Regrown(x, y, n, c, d, i)
    BY <1>1, <1>2, <1>8, <1>9, <1>10, <1>11, <1>12, <1>13, <1>14 DEF Regrown
  <2> QED
    BY <2>1, RecordGrown
<1> QED
  BY <1>8, <1>15 DEF Appended, y, d

\* At the end of the fork.
LEMMA AtEnd ==
  ASSUME NEW first, NEW t, NEW c, Tiled(first, t, c), NEW p, Looking(first, t, Len(c), p), ~p.more
  PROVE  /\ EndsWith(p.ext, p.fabn, p.i, c) /\ p.start = Len(c) /\ Total(p.ext, p.fabn) = Len(c)
         /\ p.fabn \in Starts(t) /\ p.ext = RecordAt(first, t, p.fabn) /\ p.ok
         /\ p.i = 0 => p.fabn = 0
         /\ p.left > 0 /\ p \in LocRec
<1> DEFINE x == p.ext
           n == p.fabn
           i == p.i
           e == Ends(p.ext, p.fabn)
<1>1. /\ p \in LocRec /\ p.ok /\ n \in Starts(t) /\ x = RecordAt(first, t, n)
      /\ p.left >= NBlocks + 2 - n /\ Reaches(p, Len(c))
  BY DEF Looking, Holding
<1>2. x \in Rec /\ n \in Nat /\ n \in 0..NBlocks /\ Total(x, n) \in Nat /\ Total(x, n) <= Len(c) /\ Fits(x, n, t, c)
  BY <1>1, FitsAt
<1>3. i \in 0..Width /\ p.left \in Int /\ Len(c) \in Nat /\ i \in Nat
  BY <1>1, WidthIsNat DEF LocRec, Tiled
<1>4. p.left > 0
  BY <1>1, <1>2, <1>3, WidthIsNat
<1>5. /\ p.start = e[i]
      /\ i = 0 => Len(c) = 0 /\ n = 0
      /\ i # 0 => Len(c) <= p.start /\ \A j \in 1..i : x[j].len > 0
  BY <1>1 DEF Reaches
<1>6. /\ \A j \in 1..Width : e[j] = e[j - 1] + x[j].len
      /\ \A j \in 0..Width : e[j] \in Nat
      /\ \A j \in 0..Width, k \in 0..Width : j <= k => e[j] <= e[k]
      /\ e[Width] = Total(x, n) /\ e[0] = n
  <2>1. \A j \in 0..Width, k \in 0..Width : j <= k => e[j] <= e[k]
    BY <1>2, EndsGrow
  <2> QED
    BY <1>2, <2>1, EndsTyped DEF Total
<1> HIDE DEF e
<1>7. e[i] = Len(c)
  <2>1. e[i] <= e[Width] /\ e[i] \in Nat
    <3>1. i <= Width /\ Width \in 0..Width
      BY <1>3, WidthIsNat
    <3> QED
      BY <3>1, <1>3, <1>6
  <2>2. e[i] >= Len(c)
    BY <1>3, <1>5, <2>1
  <2> QED
    BY <1>2, <1>3, <1>6, <2>1, <2>2
<1>8. Total(x, n) = Len(c)
  <2>1. e[i] <= e[Width]
    <3>1. i <= Width /\ Width \in 0..Width
      BY <1>3, WidthIsNat
    <3> QED
      BY <3>1, <1>3, <1>6
  <2> QED
    BY <2>1, <1>2, <1>3, <1>6, <1>7
<1>9. ASSUME NEW j \in 1..Width PROVE x[j].len > 0 <=> j <= i
  <2>1. CASE j <= i
    <3>1. i # 0 /\ j \in 1..i
      BY <2>1, <1>3, WidthIsNat
    <3> QED
      BY <3>1, <2>1, <1>5
  <2>2. CASE ~(j <= i)
    <3>1. j - 1 \in 0..Width /\ j \in 0..Width /\ i <= j - 1 /\ j <= Width /\ Width \in 0..Width
      BY <2>2, <1>3, WidthIsNat
    <3>2. e[i] <= e[j - 1] /\ e[j] <= e[Width] /\ e[j] = e[j - 1] + x[j].len /\ e[j - 1] \in Nat /\ e[j] \in Nat
      BY <3>1, <1>3, <1>6
    <3>3. x[j].len \in Nat
      BY <1>2, RecFields
    <3>4. x[j].len = 0
      <4>1. e[i] = Len(c) /\ e[Width] = Len(c) /\ Len(c) \in Nat
        BY <1>3, <1>6, <1>7, <1>8
      <4> DEFINE a == e[j - 1]
                 b == e[j]
                 l == x[j].len
                 s == Len(c)
      <4>2. s <= a /\ b <= s /\ b = a + l /\ a \in Nat /\ b \in Nat /\ l \in Nat /\ s \in Nat
        BY <3>2, <3>3, <4>1
      <4> HIDE DEF a, b, l, s
      <4>3. l = 0
        BY ONLY <4>2
      <4> QED
        BY ONLY <4>3 DEF l
    <3> QED
      BY <3>4, <2>2
  <2> QED
    BY <2>1, <2>2
<1>10. EndsWith(x, n, i, c)
  BY <1>2, <1>3, <1>7, <1>9 DEF EndsWith, Fits, e
<1> QED
  BY <1>1, <1>4, <1>5, <1>7, <1>8, <1>10

\* What f_addextent leaves when the run is added, and when it is not.
Grown(f, t, c, run, r) ==
  /\ r.ok /\ r.f \in Handle /\ r.f.fork = f.fork /\ r.f.upd = TRUE
  /\ r.f.rec[f.fork].py = f.rec[f.fork].py + run.len /\ r.f.rec[f.fork].lg = f.rec[f.fork].lg
  /\ \A k \in Fork : k # f.fork => r.f.rec[k] = f.rec[k]
  /\ Tiled(r.f.rec[f.fork].ext, r.t, c \o RunOf(run))
  /\ AtRecord(r.f, r.t)

\* what is left when it is not
NotGrown(f, t, c, r) ==
  /\ ~r.ok /\ r.t = t /\ r.f \in Handle
  /\ r.f.fork = f.fork /\ r.f.rec = f.rec /\ r.f.upd = f.upd
  /\ Lost(r.f, c)

\* the handle with another copy of an extent record, and with a longer fork
HandleIs(f, ext, fabn) == [f EXCEPT !.ext = ext, !.fabn = fabn]

AddedTo(f, ext, fabn, run) ==
  [HandleIs(f, ext, fabn) EXCEPT !.rec[f.fork].ext = IF fabn = 0 THEN ext ELSE @,
                                 !.rec[f.fork].py  = @ + run.len, !.upd = TRUE]

\* The first is a handle;
LEMMA HandleIsOne ==
  ASSUME NEW f \in Handle, NEW ext \in Rec, NEW fabn \in 0..NBlocks
  PROVE  /\ HandleIs(f, ext, fabn) \in Handle
         /\ HandleIs(f, ext, fabn).fork = f.fork /\ HandleIs(f, ext, fabn).rec = f.rec
         /\ HandleIs(f, ext, fabn).upd = f.upd /\ HandleIs(f, ext, fabn).ext = ext
         /\ HandleIs(f, ext, fabn).fabn = fabn
BY DEF Handle, HandleIs

\* the fork k of a is that of g with the record x, and longer by l
Extends(g, a, k, x, l) ==
  /\ a \in Handle /\ a.fork = g.fork /\ a.upd = TRUE /\ a.ext = g.ext /\ a.fabn = g.fabn
  /\ a.rec[k].ext = x /\ a.rec[k].py = g.rec[k].py + l /\ a.rec[k].lg = g.rec[k].lg
  /\ \A j \in Fork : j # k => a.rec[j] = g.rec[j]

\* to make it longer is to make such a handle;
LEMMA RecWith ==
  ASSUME NEW g \in Handle, NEW k \in Fork, NEW x \in Rec, NEW l \in Nat, g.rec[k].py + l <= NBlocks
  PROVE  Extends(g, [g EXCEPT !.rec[k].ext = x, !.rec[k].py = @ + l, !.upd = TRUE], k, x, l)
<1> DEFINE r == [g.rec EXCEPT ![k].ext = x, ![k].py = @ + l]
           a == [g EXCEPT !.rec = r, !.upd = TRUE]
<1>1. [g EXCEPT !.rec[k].ext = x, !.rec[k].py = @ + l, !.upd = TRUE] = a
  BY DEF Handle, Forks
<1>2. g.rec \in [Fork -> [ext : Rec, py : 0..NBlocks, lg : 0..NBlocks]]
  BY DEF Handle, Forks, Rec
<1>3. g.rec[k].py + l \in 0..NBlocks
  <2>1. g.rec[k].py \in 0..NBlocks
    BY <1>2
  <2> QED
    BY <2>1, WidthIsNat
<1>4. r \in [Fork -> [ext : Rec, py : 0..NBlocks, lg : 0..NBlocks]]
  BY <1>2, <1>3
<1>5. r[k].ext = x /\ r[k].py = g.rec[k].py + l /\ r[k].lg = g.rec[k].lg /\ \A j \in Fork : j # k => r[j] = g.rec[j]
  BY <1>2
<1> HIDE DEF r
<1>6. r \in Forks
  BY <1>4 DEF Forks, Rec
<1>7. a \in Handle /\ a.fork = g.fork /\ a.upd = TRUE /\ a.ext = g.ext /\ a.fabn = g.fabn /\ a.rec = r
  BY <1>6 DEF Handle
<1> HIDE DEF a
<1>8. Extends(g, a, k, x, l)
  BY <1>5, <1>7 DEF Extends
<1> QED
  BY <1>1, <1>8

\* and so is the second.
LEMMA AddedToOne ==
  ASSUME NEW f \in Handle, NEW ext \in Rec, NEW fabn \in 0..NBlocks, NEW run \in Runs,
         f.rec[f.fork].py + run.len <= NBlocks
  PROVE  Extends(HandleIs(f, ext, fabn), AddedTo(f, ext, fabn, run), f.fork,
                 IF fabn = 0 THEN ext ELSE f.rec[f.fork].ext, run.len)
<1> DEFINE g == HandleIs(f, ext, fabn)
           a == AddedTo(f, ext, fabn, run)
           k == f.fork
           x == IF fabn = 0 THEN ext ELSE f.rec[k].ext
           l == run.len
<1>1. g \in Handle /\ g.rec = f.rec
  BY HandleIsOne
<1>2. k \in Fork /\ f.rec \in Forks /\ l \in Nat
  BY RunFields DEF Handle
<1>3. f.rec[k].ext \in Rec
  BY <1>2 DEF Forks, Rec
<1>4. x \in Rec
  BY <1>3
<1>5. g.rec[k].py + l <= NBlocks
  BY <1>1
<1>6. a = [g EXCEPT !.rec[k].ext = IF fabn = 0 THEN ext ELSE @, !.rec[k].py  = @ + l, !.upd = TRUE]
  BY DEF AddedTo
<1> HIDE DEF g
<1>7. a = [g EXCEPT !.rec[k].ext = x, !.rec[k].py  = @ + l, !.upd = TRUE]
  BY <1>1, <1>6
<1> HIDE DEF a, x, l, k
<1>8. Extends(g, [g EXCEPT !.rec[k].ext = x, !.rec[k].py = @ + l, !.upd = TRUE], k, x, l)
  BY <1>1, <1>2, <1>4, <1>5, RecWith
<1>9. Extends(g, a, k, x, l)
  BY <1>7, <1>8
<1> QED
  BY <1>9 DEF g, a, k, x, l

\* A handle that has lost its record cannot be extended.
LEMMA AddLost ==
  ASSUME NEW f \in Handle, NEW t, NEW c, NEW run \in Runs, NEW luck,
         Tiled(f.rec[f.fork].ext, t, c), f.rec[f.fork].py = Len(c), Lost(f, c)
  PROVE  NotGrown(f, t, c, AddExtent(f, t, run, luck))
<1> DEFINE p == LocStart(f, f.rec[f.fork].py, luck)
<1>1. f.fabn = Len(c) /\ f.fabn # 0 /\ f.fabn \in 0..NBlocks /\ Len(c) \in Nat /\ f.ext \in Rec
  BY DEF Lost, Handle, Tiled
<1>2. AddExtent(f, t, run, luck) = Extended(f, t, run, luck, p)
  <2>1. ~(f.fabn < f.rec[f.fork].py)
    BY <1>1
  <2> QED
    BY <2>1, LocateStays DEF AddExtent
<1>3. p.ext = f.ext /\ p.fabn = f.fabn /\ p.start = f.fabn /\ p.i = 0 /\ p.ok /\ ~p.searched
  BY DEF LocStart
<1> HIDE DEF p
<1>4. f.fabn \notin DOMAIN t
  BY <1>1, InsideFork
<1> DEFINE ext == [f.ext EXCEPT ![1] = run]
<1>5. Extended(f, t, run, luck, p) = [ok |-> FALSE, f |-> HandleIs(f, ext, f.fabn), t |-> t]
  <2>1. 0 < Width /\ 0 + 1 = 1
    BY WidthIsNat
  <2>2. ~Finds(t, f.fabn, p.left)
    BY <1>4 DEF Finds
  <2> QED
    BY <1>1, <1>3, <2>1, <2>2 DEF Extended, HandleIs
<1>6. ext \in Rec
  BY <1>1, RunFields, WidthIsNat DEF Rec
<1> HIDE DEF ext
<1>7. HandleIs(f, ext, f.fabn) \in Handle /\ HandleIs(f, ext, f.fabn).fork = f.fork /\ HandleIs(f, ext, f.fabn).rec = f.rec
      /\ HandleIs(f, ext, f.fabn).upd = f.upd /\ HandleIs(f, ext, f.fabn).fabn = f.fabn
  BY <1>1, <1>6, HandleIsOne
<1> QED
  BY <1>1, <1>2, <1>5, <1>7 DEF NotGrown, Lost

\* A record is put in.
LEMMA PutIn ==
  ASSUME NEW t \in Trees, NEW n \in 1..NBlocks, NEW y \in Rec
  PROVE  /\ PutRecord(t, n, y) \in Trees /\ DOMAIN (PutRecord(t, n, y)) = {n} \cup DOMAIN t
         /\ (PutRecord(t, n, y))[n] = y /\ \A m \in DOMAIN t : m # n => (PutRecord(t, n, y))[m] = t[m]
<1> DEFINE u == PutRecord(t, n, y)
<1>1. DOMAIN t \subseteq 1..NBlocks /\ \A m \in DOMAIN t : t[m] \in Rec
  BY TreeFields
<1>2. u = [m \in {n} \cup DOMAIN t |-> IF m = n THEN y ELSE t[m]]
  BY DEF PutRecord
<1> HIDE DEF u
<1>3. DOMAIN u = {n} \cup DOMAIN t /\ u[n] = y /\ \A m \in DOMAIN t : m # n => u[m] = t[m]
  BY <1>2
<1>4. u \in Trees
  <2>1. {n} \cup DOMAIN t \in SUBSET (1..NBlocks)
    BY <1>1
  <2>2. u \in [{n} \cup DOMAIN t -> Rec]
    BY <1>1, <1>2
  <2> QED
    BY <2>1, <2>2 DEF Trees
<1> QED
  BY <1>3, <1>4 DEF u

\* the record at block n with y in its place
FirstWith(first, n, y) == IF n = 0 THEN y ELSE first
TreeWith(t, n, y) == IF n = 0 THEN t ELSE PutRecord(t, n, y)

\* The record at block n is replaced and the others stay.
LEMMA TreeWithOne ==
  ASSUME NEW first, NEW t \in Trees, NEW n \in Starts(t), NEW y \in Rec
  PROVE  /\ TreeWith(t, n, y) \in Trees /\ DOMAIN TreeWith(t, n, y) = DOMAIN t
         /\ RecordAt(FirstWith(first, n, y), TreeWith(t, n, y), n) = y
         /\ \A m \in Starts(t) \ {n} :
              RecordAt(FirstWith(first, n, y), TreeWith(t, n, y), m) = RecordAt(first, t, m)
<1>1. CASE n = 0
  BY <1>1 DEF TreeWith, FirstWith, RecordAt
<1>2. CASE n # 0
  <2>1. n \in DOMAIN t /\ n \in 1..NBlocks
    BY <1>2, TreeFields DEF Starts
  <2>2. TreeWith(t, n, y) = PutRecord(t, n, y) /\ FirstWith(first, n, y) = first
    BY <1>2 DEF TreeWith, FirstWith
  <2> DEFINE u == PutRecord(t, n, y)
  <2>3. u \in Trees /\ DOMAIN u = {n} \cup DOMAIN t /\ u[n] = y /\ \A m \in DOMAIN t : m # n => u[m] = t[m]
    BY <2>1, PutIn
  <2> HIDE DEF u
  <2>4. RecordAt(first, u, n) = y
    BY <2>3, <1>2 DEF RecordAt
  <2>5. \A m \in Starts(t) \ {n} : RecordAt(first, u, m) = RecordAt(first, t, m)
    BY <2>3 DEF RecordAt, Starts
  <2> QED
    BY <2>1, <2>2, <2>3, <2>4, <2>5 DEF u
<1> QED
  BY <1>1, <1>2

\* The last record has grown by the run.
LEMMA AddHere ==
  ASSUME NEW first, NEW t, NEW c, Tiled(first, t, c), NEW n \in Starts(t),
         Total(RecordAt(first, t, n), n) = Len(c), NEW run \in Runs, NEW y,
         Appended(y, n, c \o RunOf(run))
  PROVE  /\ Tiled(FirstWith(first, n, y), TreeWith(t, n, y), c \o RunOf(run))
         /\ n \in Starts(TreeWith(t, n, y)) /\ RecordAt(FirstWith(first, n, y), TreeWith(t, n, y), n) = y
<1> DEFINE d == c \o RunOf(run)
           u == TreeWith(t, n, y)
           g == FirstWith(first, n, y)
<1>1. y \in Rec /\ Shaped(y) /\ Matches(y, n, d) /\ Total(y, n) = Len(d) /\ y[1].len > 0
  BY DEF Appended
<1>2. Begins(c, d)
  BY Longer DEF Tiled
<1>3. u \in Trees /\ DOMAIN u = DOMAIN t /\ RecordAt(g, u, n) = y
      /\ \A m \in Starts(t) \ {n} : RecordAt(g, u, m) = RecordAt(first, t, m)
  BY <1>1, TreeWithOne DEF Tiled
<1> HIDE DEF d, u, g
<1>4. Tiled(g, u, d)
  BY <1>1, <1>2, <1>3, TiledGrown
<1>5. n \in Starts(u)
  BY <1>3 DEF Starts
<1> QED
  BY <1>3, <1>4, <1>5 DEF d, u, g

\* A record for the run follows the last record.
LEMMA AddNext ==
  ASSUME NEW first, NEW t, NEW c, Tiled(first, t, c), Len(c) <= NBlocks, NEW n \in Starts(t), NEW i \in Nat,
         EndsWith(RecordAt(first, t, n), n, i, c), i >= Width, NEW run \in Runs
  PROVE  /\ Len(c) # 0 /\ [Empty EXCEPT ![1] = run] \in Rec
         /\ Tiled(first, PutRecord(t, Len(c), [Empty EXCEPT ![1] = run]), c \o RunOf(run))
         /\ Len(c) \in Starts(PutRecord(t, Len(c), [Empty EXCEPT ![1] = run]))
         /\ RecordAt(first, PutRecord(t, Len(c), [Empty EXCEPT ![1] = run]), Len(c)) = [Empty EXCEPT ![1] = run]
<1> DEFINE x == RecordAt(first, t, n)
           d == c \o RunOf(run)
           y == [Empty EXCEPT ![1] = run]
           l == Len(c)
           u == PutRecord(t, l, y)
<1>0. c \in Seq(ABN) /\ l \in Nat /\ t \in Trees
  BY DEF Tiled
<1>1. x \in Rec /\ n \in Nat /\ Fits(x, n, t, c)
  BY FitsAt
<1>2. i = Width /\ Full(x) /\ Total(x, n) = l
  <2>1. i \in 0..Width /\ Ends(x, n)[i] = l /\ \A j \in 1..Width : x[j].len > 0 <=> j <= i
    BY DEF EndsWith
  <2>2. i = Width
    BY <2>1, WidthIsNat
  <2>3. \A j \in 1..Width : j <= Width
    BY WidthIsNat
  <2> QED
    BY <2>1, <2>2, <2>3 DEF Full, Total
<1>3. l # 0
  <2>1. Ends(x, n)[1] <= Ends(x, n)[Width] /\ Ends(x, n)[1] = n + x[1].len
    <3>1. 1 \in 1..Width /\ 1 \in 0..Width /\ Width \in 0..Width /\ 1 - 1 = 0 /\ 1 <= Width
      BY WidthIsNat
    <3>2. Ends(x, n)[1] = Ends(x, n)[1 - 1] + x[1].len /\ Ends(x, n)[0] = n
      BY <1>1, <3>1, EndsTyped
    <3>3. Ends(x, n)[1] <= Ends(x, n)[Width]
      BY <1>1, <3>1, EndsGrow
    <3> QED
      BY <3>1, <3>2, <3>3
  <2>2. x[1].len \in Nat /\ x[1].len > 0
    BY <1>1, <1>2, RecFields, WidthIsNat DEF Full
  <2> HIDE DEF x, l
  <2> QED
    BY <2>1, <2>2, <1>0, <1>1, <1>2 DEF Total
<1>4. Empty \in Rec /\ \A j \in 1..Width : Empty[j].len = 0
  BY ExtentsAssumption DEF Empty, NoExtent, Rec, Extent, ABN
<1>5. EndsWith(Empty, l, 0, c)
  <2>1. Total(Empty, l) = l /\ Ends(Empty, l)[0] = l
    <3>1. Ends(Empty, l)[0] = l
      BY <1>0, <1>4, EndsTyped
    <3>2. \A j \in 0..Width : Ends(Empty, l)[j] = Ends(Empty, l)[0]
      <4>1. \A j \in 0 + 1..Width : Empty[j].len = 0
        BY <1>4
      <4>2. 0 \in 0..Width
        BY WidthIsNat
      <4> QED
        BY <4>1, <4>2, <1>0, <1>4, EndsFlat
    <3> QED
      BY <3>1, <3>2, WidthIsNat DEF Total
  <2>2. Matches(Empty, l, c)
    <3>1. Total(Empty, l) <= Len(c)
      BY <2>1, <1>0
    <3>2. \A j \in 1..Width : 1..Empty[j].len = {}
      BY <1>4
    <3> QED
      BY <3>1, <3>2 DEF Matches
  <2>3. \A j \in 1..Width : Empty[j].len > 0 <=> j <= 0
    BY <1>4, WidthIsNat
  <2> QED
    BY <2>1, <2>2, <2>3, <1>0, <1>4, WidthIsNat DEF EndsWith
<1>6. Appended(y, l, d)
  <2>1. 0 < Width /\ 0 + 1 = 1
    BY WidthIsNat
  <2>2. Appended([Empty EXCEPT ![0 + 1] = run], l, d)
    <3> HIDE DEF l
    <3> QED
      BY <1>0, <1>5, <2>1, NewExtent
  <2> QED
    BY <2>1, <2>2
<1>7. y \in Rec /\ Shaped(y) /\ Matches(y, l, d) /\ Total(y, l) = Len(d) /\ y[1].len > 0
  BY <1>6 DEF Appended
<1>8. Begins(c, d)
  BY <1>0, Longer
<1>9. u \in Trees /\ DOMAIN u = {l} \cup DOMAIN t /\ u[l] = y /\ \A m \in DOMAIN t : u[m] = t[m]
  <2>1. l \in 1..NBlocks
    BY <1>0, <1>3, WidthIsNat
  <2>2. \A m \in DOMAIN t : m # l
    <3> TAKE m \in DOMAIN t
    <3>1. m < l /\ m \in Nat
      BY InsideFork
    <3> QED
      BY <3>1, <1>0
  <2> HIDE DEF y, l
  <2>3. u \in Trees /\ DOMAIN u = {l} \cup DOMAIN t /\ u[l] = y /\ \A m \in DOMAIN t : m # l => u[m] = t[m]
    <3>1. t \in Trees /\ y \in Rec
      BY <1>0, <1>7
    <3> QED
      BY <3>1, <2>1, PutIn
  <2> QED
    BY <2>2, <2>3
<1> HIDE DEF u, y, d, x
<1>10. Tiled(first, u, d)
  BY <1>1, <1>2, <1>3, <1>7, <1>8, <1>9, TiledNew DEF x
<1>11. l \in Starts(u) /\ RecordAt(first, u, l) = y
  BY <1>9, <1>3 DEF Starts, RecordAt
<1> QED
  BY <1>3, <1>7, <1>10, <1>11 DEF u, y, d

\* The three ways in which f_addextent goes on from the end of the fork.
LEMMA ExtendedHere ==
  ASSUME NEW f, NEW t, NEW run, NEW luck, NEW p, p.ok, p.start = f.rec[f.fork].py,
         luck.put, p.fabn = 0 \/ (p.fabn \in DOMAIN t /\ p.left > 0),
         p.i # 0 /\ Joins(p.ext[p.i], run)
  PROVE  Extended(f, t, run, luck, p)
           = [ok |-> TRUE, f |-> AddedTo(f, [p.ext EXCEPT ![p.i].len = @ + run.len], p.fabn, run),
              t |-> TreeWith(t, p.fabn, [p.ext EXCEPT ![p.i].len = @ + run.len])]
<1>1. p.fabn = 0 \/ (luck.put /\ (p.searched \/ Finds(t, p.fabn, p.left)))
  BY DEF Finds
<1> QED
  BY <1>1 DEF Extended, AddedTo, HandleIs, TreeWith

\* a descriptor that is empty takes the run
LEMMA ExtendedBehind ==
  ASSUME NEW f, NEW t, NEW run, NEW luck, NEW p, p.ok, p.start = f.rec[f.fork].py,
         luck.put, p.fabn = 0 \/ (p.fabn \in DOMAIN t /\ p.left > 0),
         ~(p.i # 0 /\ Joins(p.ext[p.i], run)), p.i < Width
  PROVE  Extended(f, t, run, luck, p)
           = [ok |-> TRUE, f |-> AddedTo(f, [p.ext EXCEPT ![p.i + 1] = run], p.fabn, run),
              t |-> TreeWith(t, p.fabn, [p.ext EXCEPT ![p.i + 1] = run])]
<1>1. p.fabn = 0 \/ (luck.put /\ (p.searched \/ Finds(t, p.fabn, p.left)))
  BY DEF Finds
<1> QED
  BY <1>1 DEF Extended, AddedTo, HandleIs, TreeWith

\* and a new record.
LEMMA ExtendedNext ==
  ASSUME NEW f, NEW t, NEW run, NEW luck, NEW p, p.ok, p.start = f.rec[f.fork].py, p.start # 0,
         ~(p.i # 0 /\ Joins(p.ext[p.i], run)), ~(p.i < Width)
  PROVE  Extended(f, t, run, luck, p)
           = IF luck.insert
             THEN [ok |-> TRUE, f |-> AddedTo(f, [Empty EXCEPT ![1] = run], p.start, run),
                   t |-> PutRecord(t, p.start, [Empty EXCEPT ![1] = run])]
             ELSE [ok |-> FALSE, f |-> HandleIs(f, [Empty EXCEPT ![1] = run], p.start), t |-> t]
BY DEF Extended, AddedTo, HandleIs

\* The new handle and the new overflow records.
LEMMA GrownBy ==
  ASSUME NEW f \in Handle, NEW t, NEW c, NEW run \in Runs, NEW y \in Rec, NEW n \in 0..NBlocks, NEW u,
         f.rec[f.fork].py = Len(c), Len(c) + run.len <= NBlocks,
         Tiled(FirstWith(f.rec[f.fork].ext, n, y), u, c \o RunOf(run)),
         n \in Starts(u), RecordAt(FirstWith(f.rec[f.fork].ext, n, y), u, n) = y
  PROVE  Grown(f, t, c, run, [ok |-> TRUE, f |-> AddedTo(f, y, n, run), t |-> u])
<1> DEFINE g == HandleIs(f, y, n)
           a == AddedTo(f, y, n, run)
           k == f.fork
           x == IF n = 0 THEN y ELSE f.rec[k].ext
           r == [ok |-> TRUE, f |-> a, t |-> u]
<1>1. g.fork = k /\ g.rec = f.rec /\ g.ext = y /\ g.fabn = n
  BY HandleIsOne
<1>2. Extends(g, a, k, x, run.len)
  BY AddedToOne
<1> HIDE DEF g, a
<1>3. /\ a \in Handle /\ a.fork = k /\ a.upd = TRUE /\ a.ext = y /\ a.fabn = n
      /\ a.rec[k].ext = x /\ a.rec[k].py = f.rec[k].py + run.len /\ a.rec[k].lg = f.rec[k].lg
      /\ \A j \in Fork : j # k => a.rec[j] = f.rec[j]
  BY <1>1, <1>2 DEF Extends
<1>4. x = FirstWith(f.rec[f.fork].ext, n, y)
  BY DEF FirstWith
<1> HIDE DEF x
<1>5. AtRecord(a, u)
  BY <1>3, <1>4 DEF AtRecord
<1>6. r.ok /\ r.f = a /\ r.t = u
  OBVIOUS
<1> HIDE DEF r
<1>7. Grown(f, t, c, run, r)
  BY <1>3, <1>4, <1>5, <1>6 DEF Grown
<1> QED
  BY <1>7 DEF r, a

\* From a handle at a record of the fork, f_addextent adds the run, unless the
\* insertion of a record fails.
LEMMA AddFound ==
  ASSUME NEW f \in Handle, NEW t, NEW c, NEW run \in Runs, NEW luck,
         Tiled(f.rec[f.fork].ext, t, c), f.rec[f.fork].py = Len(c), Len(c) + run.len <= NBlocks,
         AtRecord(f, t), luck.searches = NBlocks + 2, luck.put, luck.insert \in BOOLEAN
  PROVE  \/ Grown(f, t, c, run, AddExtent(f, t, run, luck))
         \/ ~luck.insert /\ NotGrown(f, t, c, AddExtent(f, t, run, luck))
<1> DEFINE first == f.rec[f.fork].ext
           p == Locate(f, t, Len(c), luck)
           a == AddExtent(f, t, run, luck)
           n == p.fabn
           x == p.ext
           i == p.i
<1>0. Len(c) \in Nat /\ Len(c) <= NBlocks /\ Len(c) \in 0..Len(c) /\ c \in Seq(ABN) /\ t \in Trees
  <2>1. Len(c) \in Nat /\ c \in Seq(ABN) /\ t \in Trees
    BY DEF Tiled
  <2>2. run.len \in Nat
    BY RunFields
  <2> QED
    BY <2>1, <2>2, WidthIsNat
<1>1. f.fabn \in Starts(t) /\ f.ext = RecordAt(first, t, f.fabn)
  BY DEF AtRecord
<1>2. f.fabn < Len(c) \/ (f.fabn = 0 /\ Len(c) = 0)
  <2>1. CASE f.fabn \in DOMAIN t
    BY <2>1, InsideFork
  <2>2. CASE f.fabn = 0
    BY <2>2, <1>0
  <2> QED
    BY <1>1, <2>1, <2>2 DEF Starts
<1>3. Looking(first, t, Len(c), p) /\ ~p.more
  <2> HIDE DEF p, first
  <2> QED
    BY <1>0, <1>1, <1>2, LocateFinds DEF p, first
<1>4. a = Extended(f, t, run, luck, p)
  BY DEF AddExtent
<1> HIDE DEF p, a
<1>5. /\ EndsWith(x, n, i, c) /\ p.start = Len(c) /\ Total(x, n) = Len(c)
      /\ n \in Starts(t) /\ x = RecordAt(first, t, n) /\ p.ok
      /\ i = 0 => n = 0
      /\ p.left > 0 /\ p \in LocRec
  BY <1>3, AtEnd
<1>6. n \in 0..NBlocks /\ i \in 0..Width /\ i \in Nat /\ x \in Rec
  BY <1>5, FitsAt, WidthIsNat DEF LocRec
<1>7. n = 0 \/ (n \in DOMAIN t /\ p.left > 0)
  BY <1>5 DEF Starts
<1> HIDE DEF first, n, x, i
<1>8. CASE i # 0 /\ Joins(x[i], run)
  <2> DEFINE y == [x EXCEPT ![i].len = @ + run.len]
  <2>1. Appended(y, n, c \o RunOf(run))
    BY <1>0, <1>5, <1>8, JoinedExtent
  <2>2. a = [ok |-> TRUE, f |-> AddedTo(f, y, n, run), t |-> TreeWith(t, n, y)]
    BY <1>4, <1>5, <1>7, <1>8, ExtendedHere DEF n, x, i
  <2> HIDE DEF y
  <2>3. /\ Tiled(FirstWith(first, n, y), TreeWith(t, n, y), c \o RunOf(run))
        /\ n \in Starts(TreeWith(t, n, y)) /\ RecordAt(FirstWith(first, n, y), TreeWith(t, n, y), n) = y
    BY <1>5, <2>1, AddHere DEF first
  <2>4. y \in Rec
    BY <2>1 DEF Appended
  <2>5. Grown(f, t, c, run, a)
    BY <1>6, <2>2, <2>3, <2>4, GrownBy DEF first
  <2> QED
    BY <2>5 DEF a
<1>9. CASE ~(i # 0 /\ Joins(x[i], run)) /\ i < Width
  <2> DEFINE y == [x EXCEPT ![i + 1] = run]
  <2>1. Appended(y, n, c \o RunOf(run))
    BY <1>0, <1>5, <1>9, NewExtent
  <2>2. a = [ok |-> TRUE, f |-> AddedTo(f, y, n, run), t |-> TreeWith(t, n, y)]
    <3>1. /\ p.ok /\ p.start = f.rec[f.fork].py /\ luck.put
          /\ p.fabn = 0 \/ (p.fabn \in DOMAIN t /\ p.left > 0)
          /\ ~(p.i # 0 /\ Joins(p.ext[p.i], run)) /\ p.i < Width
      BY <1>5, <1>7, <1>9 DEF n, x, i
    <3>2. Extended(f, t, run, luck, p)
            = [ok |-> TRUE, f |-> AddedTo(f, [p.ext EXCEPT ![p.i + 1] = run], p.fabn, run),
               t |-> TreeWith(t, p.fabn, [p.ext EXCEPT ![p.i + 1] = run])]
      BY ONLY <3>1, ExtendedBehind
    <3> QED
      BY <1>4, <3>2 DEF n, x, i
  <2> HIDE DEF y
  <2>3. /\ Tiled(FirstWith(first, n, y), TreeWith(t, n, y), c \o RunOf(run))
        /\ n \in Starts(TreeWith(t, n, y)) /\ RecordAt(FirstWith(first, n, y), TreeWith(t, n, y), n) = y
    BY <1>5, <2>1, AddHere DEF first
  <2>4. y \in Rec
    BY <2>1 DEF Appended
  <2>5. Grown(f, t, c, run, a)
    BY <1>6, <2>2, <2>3, <2>4, GrownBy DEF first
  <2> QED
    BY <2>5 DEF a
<1>10. CASE ~(i # 0 /\ Joins(x[i], run)) /\ ~(i < Width)
  <2> DEFINE y == [Empty EXCEPT ![1] = run]
             u == PutRecord(t, Len(c), y)
  <2>1. i >= Width
    BY <1>6, <1>10, WidthIsNat
  <2>2. /\ Len(c) # 0 /\ y \in Rec /\ Tiled(first, u, c \o RunOf(run))
        /\ Len(c) \in Starts(u) /\ RecordAt(first, u, Len(c)) = y
    BY <1>0, <1>5, <1>6, <2>1, AddNext DEF first
  <2> HIDE DEF u
  <2>3. a = IF luck.insert
            THEN [ok |-> TRUE, f |-> AddedTo(f, y, Len(c), run), t |-> u]
            ELSE [ok |-> FALSE, f |-> HandleIs(f, y, Len(c)), t |-> t]
    BY <1>4, <1>5, <1>10, <2>2, ExtendedNext DEF i, x, u
  <2> HIDE DEF y
  <2>4. Len(c) \in 0..NBlocks
    BY <1>0, WidthIsNat
  <2>5. CASE luck.insert
    <3>1. FirstWith(first, Len(c), y) = first
      BY <2>2 DEF FirstWith
    <3>2. Grown(f, t, c, run, [ok |-> TRUE, f |-> AddedTo(f, y, Len(c), run), t |-> u])
      BY <2>2, <2>4, <3>1, GrownBy DEF first
    <3> QED
      BY <3>2, <2>3, <2>5 DEF a
  <2>6. CASE ~luck.insert
    <3> DEFINE g == HandleIs(f, y, Len(c))
    <3>1. g \in Handle /\ g.fork = f.fork /\ g.rec = f.rec /\ g.upd = f.upd /\ g.fabn = Len(c)
      BY <2>2, <2>4, HandleIsOne
    <3>2. Lost(g, c)
      BY <2>2, <3>1 DEF Lost
    <3>3. ~a.ok /\ a.t = t /\ a.f = g
      BY <2>3, <2>6
    <3> HIDE DEF g
    <3>4. NotGrown(f, t, c, a)
      BY <3>1, <3>2, <3>3 DEF NotGrown
    <3> QED
      BY <3>4, <2>6 DEF a
  <2> QED
    BY <2>5, <2>6
<1> QED
  BY <1>8, <1>9, <1>10

-----------------------------------------------------------------------------
(***************************************************************************)
(* f_trunc: the extents of one record.                                     *)
(***************************************************************************)
\* the blocks of a fork from the a-th, exclusively, to the b-th
Cells(c, a, b) == {c[q] : q \in a + 1..b}

\* two stretches of a fork that follow each other
Abut(c, a, b, d) == Cells(c, a, b) \cup Cells(c, b, d) = Cells(c, a, d)

\* They are one.
LEMMA CellsJoin ==
  ASSUME NEW c, NEW a \in Int, NEW b \in Int, NEW d \in Int, a <= b, b <= d
  PROVE  Abut(c, a, b, d)
<1>1. (a + 1..b) \cup (b + 1..d) = a + 1..d
  OBVIOUS
<1> QED
  BY <1>1 DEF Cells, Abut

\* The blocks of an extent are a stretch of the fork.
LEMMA RunCells ==
  ASSUME NEW c, NEW x \in Extent, NEW a \in Nat, \A q \in 1..x.len : c[a + q] = x.at + q - 1
  PROVE  Run(x) = Cells(c, a, a + x.len)
<1> DEFINE f == x.at
           l == x.len
<1>1. f \in Nat /\ l \in Nat
  BY ExtentsAssumption DEF Extent, ABN
<1>2. Run(x) = f..f + l - 1
  BY DEF Run
<1>3. \A q \in 1..l : c[a + q] = f + q - 1
  OBVIOUS
<1> HIDE DEF f, l
<1>4. ASSUME NEW b \in f..f + l - 1 PROVE b \in Cells(c, a, a + l)
  <2>1. b - f + 1 \in 1..l /\ a + (b - f + 1) \in a + 1..a + l /\ f + (b - f + 1) - 1 = b
    BY <1>1
  <2>2. c[a + (b - f + 1)] = b
    BY <2>1, <1>3
  <2> QED
    BY <2>1, <2>2 DEF Cells
<1>5. ASSUME NEW b \in Cells(c, a, a + l) PROVE b \in f..f + l - 1
  <2>1. PICK q \in a + 1..a + l : b = c[q]
    BY DEF Cells
  <2>2. q - a \in 1..l /\ a + (q - a) = q /\ f + (q - a) - 1 \in f..f + l - 1
    BY <1>1
  <2>3. c[a + (q - a)] = f + (q - a) - 1
    BY <2>2, <1>3
  <2> QED
    BY <2>1, <2>2, <2>3
<1> QED
  BY <1>2, <1>4, <1>5 DEF f, l

\* where f_trunc stands
RelRec == [ok : BOOLEAN, fabn : Nat, start : Nat, i : 0..Width, searched : BOOLEAN, left : Int,
           first : Rec, t : Trees, ext : Rec, dlen : Nat, vol : [vbm : SUBSET ABN, free : Int]]

\* the release of the j-th descriptor of the record p
RelStep(p, j, q) ==
  LET x == p.ext[j]
  IN  IF j <= p.i \/ q.dlen = 0 \/ ~q.ok THEN q
      ELSE IF x.len = 0 \/ x.len > q.dlen
           THEN [q EXCEPT !.ok = FALSE, !.start = @ + x.len]
      ELSE [q EXCEPT !.dlen = @ - x.len, !.start = @ + x.len,
                     !.ext[j] = NoExtent, !.vol = FreeExtent(@, x)]

\* the steps of the loop: T relates the descriptor to what is left
RelRuns(p, T, g) ==
  /\ g[0] = p /\ \A j \in 1..Width : g[j] = RelStep(p, j, g[j - 1])
  /\ \A j \in 0..Width : <<j, g[j]>> \in T
  /\ Release(p) = g[Width]

\* it leads from T to T
RelClosed(p, T) ==
  /\ <<0, p>> \in T
  /\ \A j \in 1..Width, q \in RelRec : <<j - 1, q>> \in T => <<j, RelStep(p, j, q)>> \in T
  /\ T \subseteq Nat \X RelRec

\* Release is the last of its steps.
LEMMA ReleaseSteps ==
  ASSUME NEW p, NEW T, RelClosed(p, T)
  PROVE  \E g : RelRuns(p, T, g)
<1> DEFINE N == Width
           body(g) == [j \in 0..N |->
             IF j = 0 THEN p
             ELSE LET q == g[j - 1]
                      x == p.ext[j]
                  IN  IF j <= p.i \/ q.dlen = 0 \/ ~q.ok THEN q
                      ELSE IF x.len = 0 \/ x.len > q.dlen
                           THEN [q EXCEPT !.ok = FALSE, !.start = @ + x.len]
                      ELSE [q EXCEPT !.dlen = @ - x.len, !.start = @ + x.len,
                                     !.ext[j] = NoExtent, !.vol = FreeExtent(@, x)]]
           at == CHOOSE g : g = body(g)
           F == [x \in RelRec \X (1..N) |-> IF <<x[2] - 1, x[1]>> \in T THEN RelStep(p, x[2], x[1]) ELSE p]
<1>0. N \in Nat /\ N \in 0..N /\ 0 \in 0..N
  BY WidthIsNat
<1>a. /\ <<0, p>> \in T /\ p \in RelRec
      /\ \A j \in 1..N, q \in RelRec : <<j - 1, q>> \in T => <<j, RelStep(p, j, q)>> \in T
      /\ \A j, q : <<j, q>> \in T => q \in RelRec
  BY DEF RelClosed
<1>1. \A g : body(g) = [j \in 0..N |-> IF j = 0 THEN p ELSE RelStep(p, j, g[j - 1])]
  BY DEF RelStep
<1>2. at[N] = Release(p)
  BY DEF Release
<1> HIDE DEF body, N
<1>3. F \in [RelRec \X (1..N) -> RelRec]
  <2>1. \A q \in RelRec, j \in 1..N : <<j - 1, q>> \in T => RelStep(p, j, q) \in RelRec
    BY <1>a
  <2>2. \A q \in RelRec, j \in 1..N : (IF <<j - 1, q>> \in T THEN RelStep(p, j, q) ELSE p) \in RelRec
    BY <2>1, <1>a
  <2> QED
    BY <2>2
<1>4. PICK g : Solves(RelRec, N, F, p, g)
  BY <1>0, <1>a, <1>3, Solution DEF Recursive
<1>5. g \in [0..N -> RelRec] /\ g[0] = p /\ \A j \in 1..N : g[j] = F[<<g[j - 1], j>>]
  BY <1>4 DEF Solves
<1>6. \A j \in 0..N : <<j, g[j]>> \in T
  <2>1. <<0, g[0]>> \in T
    BY <1>5, <1>a
  <2>2. ASSUME NEW j \in 1..N, <<j - 1, g[j - 1]>> \in T PROVE <<j, g[j]>> \in T
    <3>1. g[j - 1] \in RelRec /\ <<g[j - 1], j>> \in RelRec \X (1..N)
      BY <2>2, <1>a
    <3>2. F[<<g[j - 1], j>>] = RelStep(p, j, g[j - 1])
      BY <3>1, <2>2
    <3> QED
      BY <3>1, <3>2, <2>2, <1>5, <1>a
  <2> HIDE DEF F
  <2> QED
    BY <1>0, <2>1, <2>2, Along
<1>7. \A j \in 1..N : g[j] = RelStep(p, j, g[j - 1])
  <2> TAKE j \in 1..N
  <2>1. j - 1 \in 0..N
    BY <1>0
  <2>2. <<j - 1, g[j - 1]>> \in T /\ g[j - 1] \in RelRec /\ <<g[j - 1], j>> \in RelRec \X (1..N)
    BY <2>1, <1>5, <1>6
  <2>3. F[<<g[j - 1], j>>] = RelStep(p, j, g[j - 1])
    BY <2>2
  <2> HIDE DEF F
  <2> QED
    BY <2>3, <1>5
<1> HIDE DEF F
<1>8. g = body(g)
  <2>1. \A j \in 0..N : j = 0 \/ j \in 1..N
    BY <1>0
  <2>2. g = [j \in 0..N |-> IF j = 0 THEN p ELSE RelStep(p, j, g[j - 1])]
    BY <1>5, <1>7, <2>1
  <2> QED
    BY <2>2, <1>1
<1>9. at = body(at)
  BY <1>8
<1> HIDE DEF at
<1>10. at[0] = p /\ \A j \in 1..N : at[j] = RelStep(p, j, at[j - 1])
  <2>1. \A j \in 1..N : j \in 0..N /\ j # 0
    BY <1>0
  <2>2. at = [j \in 0..N |-> IF j = 0 THEN p ELSE RelStep(p, j, at[j - 1])]
    BY <1>9, <1>1
  <2> QED
    BY <2>1, <2>2, <1>0
<1>11. \A j \in 0..N : <<j, at[j]>> \in T
  <2>1. <<0, at[0]>> \in T
    BY <1>10, <1>a
  <2>2. ASSUME NEW j \in 1..N, <<j - 1, at[j - 1]>> \in T PROVE <<j, at[j]>> \in T
    BY <2>2, <1>10, <1>a
  <2> QED
    BY <1>0, <2>1, <2>2, Along
<1>12. RelRuns(p, T, at)
  BY <1>2, <1>10, <1>11 DEF RelRuns, N
<1> QED
  BY <1>12

\* The record at block n is at hand, and its descriptors after the i-th are
\* to be released.
Releasable(first, t, c, n, p) ==
  LET x == RecordAt(first, t, n)
  IN  /\ n \in Starts(t) /\ p \in RelRec /\ p.ok /\ p.i \in 0..Width
      /\ p.start = Ends(x, n)[p.i] /\ p.dlen = Len(c) - p.start
      /\ \A k \in p.i + 1..Width : p.ext[k] = x[k]

\* those up to the j-th are released
ReleasedTo(x, n, c, p, j, q) ==
  /\ q \in RelRec /\ q.ok /\ q.fabn = p.fabn /\ q.i = p.i /\ q.searched = p.searched
  /\ q.left = p.left /\ q.first = p.first /\ q.t = p.t
  /\ q.start = Ends(x, n)[j] /\ q.dlen = Len(c) - q.start
  /\ \A k \in 1..p.i : q.ext[k] = p.ext[k]
  /\ \A k \in p.i + 1..j : q.ext[k].len = 0
  /\ \A k \in j + 1..Width : q.ext[k] = p.ext[k]
  /\ q.vol.vbm = p.vol.vbm \ Cells(c, p.start, q.start)
  /\ q.vol.free = p.vol.free + (q.start - p.start)

\* Each gives back one extent.
LEMMA RelStepKeeps ==
  ASSUME NEW first, NEW t, NEW c, Tiled(first, t, c), NEW n, NEW p, Releasable(first, t, c, n, p),
         NEW j \in 1..Width, j > p.i, NEW q,
         ReleasedTo(RecordAt(first, t, n), n, c, p, j - 1, q)
  PROVE  ReleasedTo(RecordAt(first, t, n), n, c, p, j, RelStep(p, j, q))
<1> DEFINE x == RecordAt(first, t, n)
           e == Ends(x, n)
           l == p.ext[j].len
           r == RelStep(p, j, q)
<1>1. /\ n \in Starts(t) /\ p \in RelRec /\ p.ok /\ p.i \in 0..Width
      /\ p.start = e[p.i] /\ p.dlen = Len(c) - p.start
      /\ \A k \in p.i + 1..Width : p.ext[k] = x[k]
  BY DEF Releasable
<1>2. /\ q \in RelRec /\ q.ok /\ q.fabn = p.fabn /\ q.i = p.i /\ q.searched = p.searched
      /\ q.left = p.left /\ q.first = p.first /\ q.t = p.t
      /\ q.start = e[j - 1] /\ q.dlen = Len(c) - q.start
      /\ \A k \in 1..p.i : q.ext[k] = p.ext[k]
      /\ \A k \in p.i + 1..j - 1 : q.ext[k].len = 0
      /\ \A k \in j..Width : q.ext[k] = p.ext[k]
      /\ q.vol.vbm = p.vol.vbm \ Cells(c, p.start, q.start)
      /\ q.vol.free = p.vol.free + (q.start - p.start)
  <2>1. j - 1 + 1 = j
    BY WidthIsNat
  <2> QED
    BY <2>1 DEF ReleasedTo
<1>3. x \in Rec /\ n \in Nat /\ Fits(x, n, t, c) /\ Total(x, n) \in Nat /\ Total(x, n) <= Len(c) /\ Len(c) \in Nat
  <2>1. Len(c) \in Nat
    BY DEF Tiled
  <2> QED
    BY <2>1, <1>1, FitsAt
<1>4. j \in p.i + 1..Width /\ p.ext[j] = x[j] /\ j - 1 \in 0..Width /\ j \in 0..Width /\ p.i <= j - 1 /\ Width \in 0..Width /\ j <= Width /\ p.i \in Nat
  BY <1>1, WidthIsNat
<1>5. /\ e[j] = e[j - 1] + l /\ e[j - 1] \in Nat /\ e[j] \in Nat /\ l \in Nat /\ e[p.i] \in Nat
      /\ e[p.i] <= e[j - 1] /\ e[j] <= e[Width] /\ e[Width] = Total(x, n)
  <2>1. e[p.i] <= e[j - 1] /\ e[j] <= e[Width]
    BY <1>1, <1>3, <1>4, EndsGrow
  <2>2. l \in Nat
    BY <1>3, <1>4, RecFields
  <2>3. e[j] = e[j - 1] + x[j].len /\ \A k \in 0..Width : e[k] \in Nat
    BY <1>3, EndsTyped
  <2>4. e[Width] = Total(x, n)
    BY DEF Total
  <2> HIDE DEF e, x
  <2> QED
    BY <1>1, <1>4, <2>1, <2>2, <2>3, <2>4
<1>6. l = 0 => e[j] = Len(c) /\ e[j - 1] = Len(c)
  BY <1>1, <1>4, NotEmpty
<1>7. CASE q.dlen = 0
  <2>1. r = q
    BY <1>7 DEF RelStep
  <2>2. e[j - 1] = Len(c) /\ l = 0 /\ e[j] = e[j - 1]
    <3> HIDE DEF e, l, x
    <3> QED
      BY <1>2, <1>3, <1>5, <1>7
  <2>3. \A k \in p.i + 1..j : q.ext[k].len = 0
    <3> TAKE k \in p.i + 1..j
    <3>1. j \in j..Width /\ (k = j \/ k \in p.i + 1..j - 1)
      BY <1>4
    <3>2. q.ext[j].len = 0
      BY <3>1, <2>2, <1>2
    <3> QED
      BY <3>1, <3>2, <1>2
  <2>4. \A k \in j + 1..Width : q.ext[k] = p.ext[k]
    <3> TAKE k \in j + 1..Width
    <3>1. k \in j..Width
      BY <1>4
    <3> QED
      BY <3>1, <1>2
  <2>5. ReleasedTo(x, n, c, p, j, q)
    BY <2>2, <2>3, <2>4, <1>2 DEF ReleasedTo
  <2> QED
    BY <2>1, <2>5
<1>8. CASE q.dlen # 0
  <2>1. l # 0 /\ ~(l > q.dlen)
    <3> HIDE DEF e, l, x
    <3> QED
      BY <1>2, <1>3, <1>5, <1>6, <1>8
  <2> DEFINE v == FreeExtent(q.vol, p.ext[j])
             y == [q.ext EXCEPT ![j] = NoExtent]
  <2>2. r = [q EXCEPT !.dlen = @ - l, !.start = @ + l, !.ext[j] = NoExtent, !.vol = FreeExtent(@, p.ext[j])]
    BY <1>2, <1>4, <1>8, <2>1 DEF RelStep
  <2>3. r = [q EXCEPT !.dlen = q.dlen - l, !.start = q.start + l, !.ext = y, !.vol = v]
    BY <2>2
  <2>4. q.vol.vbm \in SUBSET ABN /\ q.vol.free \in Int /\ q.ext \in Rec /\ q.dlen \in Nat /\ q.start \in Nat
    BY <1>2 DEF RelRec
  <2>5. Run(p.ext[j]) = Cells(c, e[j - 1], e[j])
    <3>1. p.ext[j] \in Extent
      BY <1>3, <1>4, RecFields
    <3>2. \A k \in 1..p.ext[j].len : c[e[j - 1] + k] = p.ext[j].at + k - 1
      BY <1>3, <1>4 DEF Fits, Matches
    <3> HIDE DEF e
    <3> QED
      BY <3>1, <3>2, <1>5, RunCells
  <2>6. v = [vbm |-> q.vol.vbm \ Cells(c, e[j - 1], e[j]), free |-> q.vol.free + l]
    <3> HIDE DEF e
    <3> QED
      BY <2>5 DEF FreeExtent
  <2>7. v.vbm = p.vol.vbm \ Cells(c, p.start, e[j]) /\ v.free = p.vol.free + (e[j] - p.start)
        /\ v \in [vbm : SUBSET ABN, free : Int]
    <3>1. Cells(c, p.start, e[j - 1]) \cup Cells(c, e[j - 1], e[j]) = Cells(c, p.start, e[j])
      <4>1. e[p.i] \in Int /\ e[j - 1] \in Int /\ e[j] \in Int /\ e[p.i] <= e[j - 1] /\ e[j - 1] <= e[j]
        <5> HIDE DEF e, l
        <5> QED
          BY <1>5
      <4>2. p.start = e[p.i]
        BY <1>1
      <4> HIDE DEF e
      <4>3. Cells(c, e[p.i], e[j - 1]) \cup Cells(c, e[j - 1], e[j]) = Cells(c, e[p.i], e[j])
        <5>1. Abut(c, e[p.i], e[j - 1], e[j])
          BY <4>1, CellsJoin
        <5> QED
          BY <5>1 DEF Abut
      <4> QED
        BY <4>2, <4>3
    <3>2. p.vol.free \in Int /\ p.start \in Nat
      BY <1>1 DEF RelRec
    <3> HIDE DEF e, l, v
    <3>3. v.vbm = p.vol.vbm \ Cells(c, p.start, e[j])
      BY <3>1, <2>6, <1>2
    <3>4. v.free = p.vol.free + (e[j] - p.start)
      <4>1. v.free = q.vol.free + l
        BY <2>6
      <4>2. q.vol.free = p.vol.free + (e[j - 1] - p.start)
        BY <1>2
      <4>3. e[j] = e[j - 1] + l /\ e[j - 1] \in Nat /\ l \in Nat
        BY <1>5
      <4> QED
        BY <3>2, <4>1, <4>2, <4>3
    <3>5. v \in [vbm : SUBSET ABN, free : Int]
      BY <2>4, <2>6, <1>5
    <3> QED
      BY <3>3, <3>4, <3>5
  <2>8. y \in Rec /\ y[j] = NoExtent /\ \A k \in 1..Width : k # j => y[k] = q.ext[k]
    <3>1. NoExtent \in Extent
      BY ExtentsAssumption DEF NoExtent, Extent, ABN
    <3>2. q.ext \in [1..Width -> Extent] /\ j \in 1..Width
      BY <2>4 DEF Rec
    <3> QED
      BY <3>1, <3>2 DEF Rec
  <2>9. q.dlen - l \in Nat /\ q.start + l = e[j] /\ e[j] \in Nat /\ q.dlen - l = Len(c) - e[j]
    <3> HIDE DEF e, l, x
    <3> QED
      BY <1>2, <1>3, <1>5, <2>1, <2>4
  <2> HIDE DEF v, y, l, r, e
  <2>10. /\ r \in RelRec /\ r.ok /\ r.fabn = p.fabn /\ r.i = p.i /\ r.searched = p.searched
         /\ r.left = p.left /\ r.first = p.first /\ r.t = p.t
         /\ r.start = e[j] /\ r.dlen = Len(c) - e[j] /\ r.ext = y /\ r.vol = v
    BY <2>3, <2>7, <2>8, <2>9, <1>2 DEF RelRec
  <2>11. \A k \in 1..p.i : y[k] = p.ext[k]
    <3> TAKE k \in 1..p.i
    <3>1. k \in 1..Width /\ k # j
      BY <1>4, WidthIsNat
    <3> QED
      BY <3>1, <2>8, <1>2
  <2>12. \A k \in p.i + 1..j : y[k].len = 0
    <3> TAKE k \in p.i + 1..j
    <3>1. k = j \/ (k \in p.i + 1..j - 1 /\ k \in 1..Width /\ k # j)
      BY <1>4, WidthIsNat
    <3>2. y[j].len = 0
      BY <2>8 DEF NoExtent
    <3> QED
      BY <3>1, <3>2, <2>8, <1>2
  <2>13. \A k \in j + 1..Width : y[k] = p.ext[k]
    <3> TAKE k \in j + 1..Width
    <3>1. k \in j..Width /\ k \in 1..Width /\ k # j
      BY <1>4, WidthIsNat
    <3> QED
      BY <3>1, <2>8, <1>2
  <2>14. ReleasedTo(x, n, c, p, j, r)
    BY <2>7, <2>10, <2>11, <2>12, <2>13 DEF ReleasedTo, e
  <2> QED
    BY <2>14 DEF r
<1> QED
  BY <1>7, <1>8

-----------------------------------------------------------------------------
(***************************************************************************)
(* f_trunc: the records.                                                   *)
(***************************************************************************)
\* At first nothing has been given back,
LEMMA ReleaseNothing ==
  ASSUME NEW first, NEW t, NEW c, Tiled(first, t, c), NEW n, NEW p, Releasable(first, t, c, n, p)
  PROVE  ReleasedTo(RecordAt(first, t, n), n, c, p, p.i, p)
<1>1. /\ n \in Starts(t) /\ p \in RelRec /\ p.ok /\ p.i \in 0..Width
      /\ p.start = Ends(RecordAt(first, t, n), n)[p.i] /\ p.dlen = Len(c) - p.start
  BY DEF Releasable
<1>2. p.start \in Nat /\ p.vol.free \in Int
  BY <1>1 DEF RelRec
<1>3. Cells(c, p.start, p.start) = {}
  <2>1. p.start + 1..p.start = {}
    BY <1>2
  <2> QED
    BY <2>1 DEF Cells
<1>4. p.vol.vbm = p.vol.vbm \ Cells(c, p.start, p.start) /\ p.vol.free = p.vol.free + (p.start - p.start)
  BY <1>2, <1>3
<1>5. p.i + 1..p.i = {}
  BY <1>1
<1> QED
  BY <1>1, <1>4, <1>5 DEF ReleasedTo

\* and in the end what was behind the i-th descriptor.
LEMMA ReleaseEnds ==
  ASSUME NEW first, NEW t, NEW c, Tiled(first, t, c), NEW n, NEW p, Releasable(first, t, c, n, p)
  PROVE  ReleasedTo(RecordAt(first, t, n), n, c, p, Width, Release(p))
<1> DEFINE x == RecordAt(first, t, n)
           T == {w \in Nat \X RelRec : /\ w[1] <= p.i => w[2] = p
                                       /\ w[1] >= p.i => ReleasedTo(x, n, c, p, w[1], w[2])}
<1>1. p \in RelRec /\ p.i \in 0..Width /\ p.i \in Nat
  BY WidthIsNat DEF Releasable
<1>2. ReleasedTo(x, n, c, p, p.i, p)
  BY ReleaseNothing
<1>3. <<0, p>> \in T
  <2>1. 0 >= p.i => p.i = 0
    BY <1>1
  <2> HIDE DEF x
  <2> QED
    BY <1>1, <1>2, <2>1
<1>4. ASSUME NEW j \in 1..Width, NEW q \in RelRec, <<j - 1, q>> \in T
      PROVE  <<j, RelStep(p, j, q)>> \in T
  <2>1. j \in Nat /\ j - 1 \in Nat
    BY WidthIsNat
  <2>2. (j - 1 <= p.i => q = p) /\ (j - 1 >= p.i => ReleasedTo(x, n, c, p, j - 1, q))
    BY <1>4
  <2>3. CASE j <= p.i
    <3>1. RelStep(p, j, q) = q /\ q = p
      BY <2>1, <2>2, <2>3, <1>1 DEF RelStep
    <3>2. j >= p.i => j = p.i
      BY <2>1, <2>3, <1>1
    <3> HIDE DEF x
    <3> QED
      BY <3>1, <3>2, <2>1, <1>1, <1>2
  <2>4. CASE j > p.i
    <3>1. ReleasedTo(x, n, c, p, j, RelStep(p, j, q))
      <4>1. j - 1 >= p.i
        BY <2>1, <2>4, <1>1
      <4>2. ReleasedTo(x, n, c, p, j - 1, q)
        BY <4>1, <2>2
      <4> QED
        BY <4>2, <2>4, RelStepKeeps
    <3>2. RelStep(p, j, q) \in RelRec
      BY <3>1 DEF ReleasedTo
    <3>3. ~(j <= p.i)
      BY <2>1, <2>4, <1>1
    <3> HIDE DEF x
    <3> QED
      BY <3>1, <3>2, <3>3, <2>1
  <2> QED
    BY <2>1, <2>3, <2>4, <1>1
<1>5. RelClosed(p, T)
  <2>1. T \subseteq Nat \X RelRec
    OBVIOUS
  <2> HIDE DEF T
  <2> QED
    BY <1>3, <1>4, <2>1 DEF RelClosed
<1>6. PICK g : RelRuns(p, T, g)
  <2> HIDE DEF T
  <2> QED
    BY <1>5, ReleaseSteps
<1>7. <<Width, Release(p)>> \in T
  <2> HIDE DEF T
  <2> QED
    BY <1>6, WidthIsNat DEF RelRuns
<1>8. Width >= p.i
  BY <1>1, WidthIsNat
<1> HIDE DEF x
<1>9. ReleasedTo(x, n, c, p, Width, Release(p))
  BY <1>7, <1>8
<1> QED
  BY <1>9 DEF x

\* The fork is cut in the record at block n, of which y is left.
Left(t, n, y, b) ==
  [m \in {m \in DOMAIN t : m <= n \/ m >= b} |-> IF m = n THEN y ELSE t[m]]

\* what is left of the last record that is kept
Remains(y, n, d) ==
  /\ y \in Rec /\ Shaped(y) /\ Matches(y, n, d) /\ Total(y, n) = Len(d) /\ n <= Len(d)
  /\ n # 0 => y[1].len > 0

\* u is t with y at block n, and without the records between n and b
IsLeft(u, t, n, y, b) ==
  /\ u \in Trees /\ DOMAIN u = {m \in DOMAIN t : m <= n \/ m >= b}
  /\ \A m \in DOMAIN u : u[m] = IF m = n THEN y ELSE t[m]

\* So is Left.
LEMMA LeftIs ==
  ASSUME NEW t \in Trees, NEW n, NEW y \in Rec, NEW b
  PROVE  IsLeft(Left(t, n, y, b), t, n, y, b)
<1> DEFINE u == Left(t, n, y, b)
           D == {m \in DOMAIN t : m <= n \/ m >= b}
<1>1. DOMAIN t \subseteq 1..NBlocks /\ \A m \in DOMAIN t : t[m] \in Rec
  BY TreeFields
<1>2. u = [m \in D |-> IF m = n THEN y ELSE t[m]]
  BY DEF Left
<1>3. D \subseteq DOMAIN t
  OBVIOUS
<1> HIDE DEF u, D
<1>4. u \in [D -> Rec]
  BY <1>1, <1>2, <1>3
<1>5. u \in Trees
  BY <1>1, <1>3, <1>4 DEF Trees
<1> QED
  BY <1>2, <1>5 DEF u, D, IsLeft

\* The records up to the one that is cut describe the fork that is left.
LEMMA TiledCut ==
  ASSUME NEW first, NEW t, NEW c, Tiled(first, t, c), NEW n \in Starts(t), NEW l \in 0..Len(c), NEW y,
         Remains(y, n, SubSeq(c, 1, l))
  PROVE  Tiled(FirstWith(first, n, y), Left(t, n, y, Len(c)), SubSeq(c, 1, l))
<1> DEFINE d == SubSeq(c, 1, l)
           u == Left(t, n, y, Len(c))
           g == FirstWith(first, n, y)
<1>0. c \in Seq(ABN) /\ t \in Trees /\ Len(c) \in Nat /\ l \in Nat /\ l <= Len(c)
  <2>1. c \in Seq(ABN) /\ t \in Trees
    BY DEF Tiled
  <2>2. Len(c) \in Nat
    BY <2>1
  <2> QED
    BY <2>1, <2>2
<1>1. d \in Seq(ABN) /\ Len(d) = l /\ \A q \in 1..l : d[q] = c[q]
  BY <1>0, Prefix
<1>2. y \in Rec /\ Shaped(y) /\ Matches(y, n, d) /\ Total(y, n) = l /\ n <= l /\ (n # 0 => y[1].len > 0)
  BY <1>1 DEF Remains
<1>3. n \in Nat
  BY FitsAt
<1>4. /\ u \in Trees /\ DOMAIN u = {m \in DOMAIN t : m <= n \/ m >= Len(c)}
      /\ \A m \in DOMAIN u : u[m] = IF m = n THEN y ELSE t[m]
  <2>1. IsLeft(u, t, n, y, Len(c))
    BY <1>0, <1>2, LeftIs
  <2> HIDE DEF u
  <2> QED
    BY <2>1 DEF IsLeft
<1> HIDE DEF u, d
<1>5. \A m \in DOMAIN u : m \in DOMAIN t /\ m <= n /\ m \in Nat /\ m # 0
  <2> TAKE m \in DOMAIN u
  <2>1. m \in DOMAIN t /\ m < Len(c) /\ m \in Nat /\ m # 0
    BY <1>4, InsideFork
  <2> QED
    BY <2>1, <1>0, <1>4
<1>6. n # 0 => n \in DOMAIN u
  BY <1>3, <1>4 DEF Starts
<1>7. ASSUME NEW m \in Starts(u), m # n PROVE Fits(RecordAt(g, u, m), m, u, d)
  <2>1. m \in Starts(t) /\ m <= n /\ m \in Nat
    BY <1>3, <1>5 DEF Starts
  <2>2. RecordAt(g, u, m) = RecordAt(first, t, m)
    <3>1. CASE m = 0
      BY <3>1, <1>7 DEF RecordAt, g, FirstWith
    <3>2. CASE m # 0
      BY <3>2, <1>4, <1>7 DEF RecordAt, Starts
    <3> QED
      BY <3>1, <3>2
  <2> DEFINE x == RecordAt(first, t, m)
  <2>3. Fits(x, m, t, c) /\ x \in Rec /\ Total(x, m) \in Nat
    BY <2>1, FitsAt
  <2> HIDE DEF x
  <2>4. /\ Shaped(x) /\ Matches(x, m, c) /\ (m # 0 => x[1].len > 0)
        /\ Total(x, m) < Len(c) => Total(x, m) \in DOMAIN t /\ Full(x)
        /\ \A k \in DOMAIN t : m < k => Total(x, m) <= k
    BY <2>3 DEF Fits
  <2>5. m < n /\ n \in DOMAIN t
    BY <2>1, <1>3, <1>7 DEF Starts
  <2>6. Total(x, m) <= n
    BY <2>4, <2>5
  <2>7. Total(x, m) <= Len(d)
    BY <2>3, <2>6, <1>0, <1>1, <1>2, <1>3
  <2>8. ASSUME NEW i \in 1..Width, NEW j \in 1..x[i].len PROVE d[Ends(x, m)[i - 1] + j] = x[i].at + j - 1
    <3>1. i - 1 \in 0..Width /\ i \in 0..Width /\ Width \in 0..Width /\ i <= Width
      BY WidthIsNat
    <3>2. /\ Ends(x, m)[i - 1] \in Nat /\ Ends(x, m)[i] \in Nat /\ Ends(x, m)[i] = Ends(x, m)[i - 1] + x[i].len
          /\ x[i].len \in Nat /\ Ends(x, m)[i] <= Ends(x, m)[Width]
      BY <2>1, <2>3, <3>1, EndsTyped, EndsGrow, RecFields
    <3>3. Ends(x, m)[i - 1] + j \in 1..l
      <4> DEFINE e == Ends(x, m)[i - 1]
                 k == x[i].len
      <4>1. Ends(x, m)[Width] <= l
        BY <2>7, <1>1 DEF Total
      <4>2. e \in Nat /\ k \in Nat /\ j \in 1..k /\ e + k <= l
        <5>1. Ends(x, m)[Width] \in Nat
          BY <2>3 DEF Total
        <5> QED
          BY <3>2, <4>1, <5>1, <1>0
      <4> HIDE DEF e, k
      <4>3. e + j \in 1..l
        BY <4>2, <1>0
      <4> QED
        BY <4>3 DEF e
    <3>4. d[Ends(x, m)[i - 1] + j] = c[Ends(x, m)[i - 1] + j]
      BY <3>3, <1>1
    <3>5. c[Ends(x, m)[i - 1] + j] = x[i].at + j - 1
      BY <2>4 DEF Matches
    <3> QED
      BY <3>4, <3>5
  <2>9. Matches(x, m, d)
    BY <2>7, <2>8 DEF Matches
  <2>10. Total(x, m) < Len(d) => Total(x, m) \in DOMAIN u /\ Full(x)
    <3>1. Total(x, m) < Len(d) => Total(x, m) < Len(c)
      BY <2>3, <1>0, <1>1
    <3>2. Total(x, m) \in DOMAIN t => Total(x, m) \in DOMAIN u
      BY <1>4, <2>6
    <3> QED
      BY <3>1, <3>2, <2>4
  <2>11. \A k \in DOMAIN u : m < k => Total(x, m) <= k
    BY <2>4, <1>5
  <2>12. Fits(x, m, u, d)
    BY <2>3, <2>4, <2>9, <2>10, <2>11 DEF Fits
  <2> QED
    BY <2>2, <2>12 DEF x
<1>8. Fits(RecordAt(g, u, n), n, u, d)
  <2>1. RecordAt(g, u, n) = y
    <3>1. CASE n = 0
      BY <3>1 DEF RecordAt, FirstWith, g
    <3>2. CASE n # 0
      BY <3>2, <1>4, <1>6 DEF RecordAt
    <3> QED
      BY <3>1, <3>2
  <2>2. \A k \in DOMAIN u : ~(n < k)
    BY <1>3, <1>5
  <2>3. ~(Total(y, n) < Len(d))
    BY <1>0, <1>1, <1>2
  <2> QED
    BY <2>1, <2>2, <2>3, <1>2 DEF Fits
<1>9. \A m \in Starts(u) : Fits(RecordAt(g, u, m), m, u, d)
  BY <1>7, <1>8
<1> QED
  BY <1>1, <1>4, <1>9 DEF Tiled, u, d

\* y is what is left of the record x when the fork ends with block l, in the
\* i-th extent
Shortened(x, y, n, i, l) ==
  /\ x \in Rec /\ y \in Rec /\ n \in Nat /\ i \in 0..Width
  /\ \A k \in 1..i : y[k].at = x[k].at /\ y[k].len > 0 /\ y[k].len <= x[k].len
  /\ \A k \in 1..i - 1 : y[k].len = x[k].len
  /\ \A k \in i + 1..Width : y[k].len = 0
  /\ i = 0 => l = n /\ n = 0
  /\ i # 0 => Ends(x, n)[i - 1] + y[i].len = l

\* The record that is cut ends with the fork.
LEMMA RecordCut ==
  ASSUME NEW x, NEW y, NEW n, NEW i, NEW c \in Seq(ABN), NEW l \in 0..Len(c), Matches(x, n, c),
         Shortened(x, y, n, i, l)
  PROVE  Remains(y, n, SubSeq(c, 1, l))
<1> DEFINE d == SubSeq(c, 1, l)
           e == Ends(x, n)
           s == Ends(y, n)
<1>0. d \in Seq(ABN) /\ Len(d) = l /\ (\A q \in 1..l : d[q] = c[q]) /\ l \in Nat
  BY Prefix
<1>1. /\ x \in Rec /\ y \in Rec /\ n \in Nat /\ i \in 0..Width /\ i \in Nat /\ Width \in i..Width
      /\ \A k \in 1..i : y[k].at = x[k].at /\ y[k].len > 0 /\ y[k].len <= x[k].len
      /\ \A k \in 1..i - 1 : y[k].len = x[k].len
      /\ \A k \in i + 1..Width : y[k].len = 0
      /\ i = 0 => l = n /\ n = 0
      /\ i # 0 => e[i - 1] + y[i].len = l
  BY WidthIsNat DEF Shortened
<1> HIDE DEF d
<1>2. i # 0 => \A k \in 0..i - 1 : e[k] = s[k]
  <2> HAVE i # 0
  <2>1. i - 1 \in 0..Width
    BY <1>1, WidthIsNat
  <2>2. \A k \in 1..i - 1 : x[k].len = y[k].len
    BY <1>1
  <2> QED
    BY <1>1, <2>1, <2>2, EndsAlike
<1>3. s[i] = l
  <2>1. CASE i = 0
    BY <2>1, <1>1, EndsTyped
  <2>2. CASE i # 0
    <3>1. i \in 1..Width /\ i - 1 \in 0..i - 1
      BY <2>2, <1>1, WidthIsNat
    <3>2. s[i] = s[i - 1] + y[i].len
      BY <3>1, <1>1, EndsTyped
    <3> QED
      BY <3>1, <3>2, <2>2, <1>1, <1>2
  <2> QED
    BY <2>1, <2>2
<1>4. Total(y, n) = l
  <2>1. \A k \in i..Width : s[k] = s[i]
    BY <1>1, EndsFlat
  <2> QED
    BY <2>1, <1>1, <1>3 DEF Total
<1>5. n <= l
  <2>1. s[0] <= s[i] /\ s[0] = n
    BY <1>1, EndsTyped, EndsGrow, WidthIsNat
  <2> QED
    BY <2>1, <1>3
<1>6. Shaped(y)
  <2>1. ASSUME NEW a \in 1..Width, NEW b \in 1..Width, a <= b, y[a].len = 0 PROVE y[b].len = 0
    <3>1. a \notin 1..i
      BY <1>1, <2>1
    <3>2. b \in i + 1..Width
      BY <2>1, <3>1, <1>1, WidthIsNat
    <3> QED
      BY <1>1, <3>2
  <2> QED
    BY <2>1 DEF Shaped
<1>7. n # 0 => y[1].len > 0
  <2>1. n # 0 => 1 \in 1..i
    BY <1>1
  <2> QED
    BY <2>1, <1>1
<1>8. ASSUME NEW k \in 1..Width, NEW q \in 1..y[k].len PROVE d[s[k - 1] + q] = y[k].at + q - 1
  <2>1. k \in 1..i
    <3>1. k \in i + 1..Width => y[k].len = 0
      BY <1>1
    <3>2. k \notin i + 1..Width
      BY <1>8, <3>1
    <3> QED
      BY <3>2, <1>1, WidthIsNat
  <2>2. i # 0 /\ k - 1 \in 0..i - 1 /\ k - 1 \in 0..Width /\ k \in 0..Width /\ k <= i
    BY <2>1, <1>1, WidthIsNat
  <2>3. s[k - 1] = e[k - 1]
    BY <2>2, <1>2
  <2>4. s[k - 1] \in Nat /\ s[k] \in Nat /\ s[k] = s[k - 1] + y[k].len /\ s[k] <= s[i] /\ y[k].len \in Nat
    BY <2>2, <1>1, EndsTyped, EndsGrow, RecFields
  <2>5. x[k].len \in Nat /\ y[k].len <= x[k].len /\ y[k].at = x[k].at
    BY <2>1, <1>1, RecFields
  <2> DEFINE a == s[k - 1]
             m == y[k].len
  <2>6. a \in Nat /\ m \in Nat /\ q \in 1..m /\ a + m <= l
    BY <2>4, <1>3, <1>0
  <2>7. q \in 1..x[k].len
    BY <2>4, <2>5
  <2> HIDE DEF a, m, s
  <2>8. a + q \in 1..l
    BY <2>6, <1>0
  <2>9. d[a + q] = c[a + q]
    BY <2>8, <1>0
  <2>10. c[e[k - 1] + q] = x[k].at + q - 1
    BY <2>7 DEF Matches
  <2> QED
    BY <2>3, <2>5, <2>9, <2>10 DEF a
<1>9. Matches(y, n, d)
  <2>1. Total(y, n) <= Len(d)
    BY <1>0, <1>4
  <2> QED
    BY <2>1, <1>8 DEF Matches
<1>10. Remains(y, n, d)
  BY <1>0, <1>1, <1>4, <1>5, <1>6, <1>7, <1>9 DEF Remains
<1> QED
  BY <1>10 DEF d

\* The record in which the fork is cut, as f_trunc has cut it.
CutAt(first, t, c, l, v, p, s) ==
  LET x == RecordAt(first, t, p.fabn)
  IN  /\ Releasable(first, t, c, p.fabn, s) /\ s.i = p.i /\ s.fabn = p.fabn
      /\ s.left = p.left /\ s.t = t /\ s.first = first
      /\ \A k \in 1..p.i : s.ext[k].at = x[k].at /\ s.ext[k].len > 0 /\ s.ext[k].len <= x[k].len
      /\ \A k \in 1..p.i - 1 : s.ext[k].len = x[k].len
      /\ p.i = 0 => l = 0 /\ p.fabn = 0
      /\ p.i # 0 => Ends(x, p.fabn)[p.i - 1] + s.ext[p.i].len = l
      /\ s.vol.vbm = v.vbm \ Cells(c, l, s.start) /\ s.vol.free = v.free + (s.start - l)
      /\ l <= s.start /\ p.fabn <= l

\* f_trunc cuts the fork at its logical end.
LEMMA CutIs ==
  ASSUME NEW fork, NEW t, NEW c, Tiled(fork.ext, t, c), Len(c) < Wrap, fork.py = Len(c), fork.lg < Len(c),
         fork.lg \in Nat, NEW p, Looking(fork.ext, t, fork.lg, p), ~p.more,
         NEW v, v \in [vbm : SUBSET ABN, free : Int]
  PROVE  CutAt(fork.ext, t, c, fork.lg, v, p, Cut(p, fork, t, v))
<1> DEFINE first == fork.ext
           l == fork.lg
           n == p.fabn
           i == p.i
           x == RecordAt(first, t, n)
           e == Ends(x, n)
           over == p.start - l
           s == Cut(p, fork, t, v)
<1>0. t \in Trees /\ c \in Seq(ABN) /\ Len(c) \in Nat /\ l \in Nat /\ l < Len(c) /\ first \in Rec
  <2>1. t \in Trees /\ c \in Seq(ABN) /\ 0 \in Starts(t)
    BY DEF Tiled, Starts
  <2>2. first \in Rec
    BY <2>1, FitsAt DEF RecordAt
  <2>3. Len(c) \in Nat
    BY <2>1
  <2> QED
    BY <2>1, <2>2, <2>3
<1>1. /\ p \in LocRec /\ p.ok /\ n \in Starts(t) /\ p.ext = x
      /\ p.left >= NBlocks + 2 - n /\ Reaches(p, l)
  BY DEF Looking, Holding
<1>2. x \in Rec /\ n \in Nat /\ Total(x, n) \in Nat /\ Total(x, n) <= Len(c) /\ Fits(x, n, t, c)
  BY <1>1, FitsAt
<1>3. i \in 0..Width /\ i \in Nat /\ p.left \in Int /\ p.searched \in BOOLEAN /\ p.start \in Nat
  BY <1>1, WidthIsNat DEF LocRec
<1>4. /\ p.start = e[i]
      /\ i = 0 => l = 0 /\ n = 0
      /\ i # 0 => e[i - 1] < l /\ l <= p.start /\ \A j \in 1..i : x[j].len > 0
  BY <1>1 DEF Reaches
<1>5. e[i] <= e[Width] /\ e[Width] = Total(x, n) /\ e[i] \in Nat
      /\ (i # 0 => e[i] = e[i - 1] + x[i].len /\ e[i - 1] \in Nat /\ x[i].len \in Nat /\ x[i] \in Extent /\ n <= e[i - 1])
  <2>a. /\ \A k \in 1..Width : e[k] = e[k - 1] + x[k].len
        /\ \A k \in 0..Width : e[k] \in Nat
        /\ e[0] = n
    BY <1>2, EndsTyped
  <2>b. e[i] <= e[Width]
    BY <1>2, <1>3, EndsGrow, WidthIsNat
  <2>1. e[i] <= e[Width] /\ e[Width] = Total(x, n) /\ e[i] \in Nat
    <3>1. e[Width] = Total(x, n)
      BY DEF Total
    <3> HIDE DEF e, x
    <3> QED
      BY <2>a, <2>b, <3>1, <1>3
  <2>2. ASSUME i # 0 PROVE e[i] = e[i - 1] + x[i].len /\ e[i - 1] \in Nat /\ x[i].len \in Nat /\ x[i] \in Extent /\ n <= e[i - 1]
    <3>1. i \in 1..Width /\ i - 1 \in 0..Width /\ 0 \in 0..Width /\ 0 <= i - 1
      BY <2>2, <1>3, WidthIsNat
    <3>2. e[i] = e[i - 1] + x[i].len /\ e[i - 1] \in Nat /\ e[0] = n
      <4> HIDE DEF e, x
      <4> QED
        BY <3>1, <2>a
    <3>3. x[i].len \in Nat /\ x[i] \in Extent
      BY <1>2, <3>1, RecFields
    <3>4. e[0] <= e[i - 1]
      BY <1>2, <3>1, EndsGrow
    <3> QED
      BY <3>2, <3>3, <3>4
  <2> QED
    BY <2>1, <2>2
<1> HIDE DEF e
<1>6. i = 0 => p.start = 0
  <2>1. i = 0 => e[0] = 0
    BY <1>2, <1>4, EndsTyped DEF e
  <2> QED
    BY <2>1, <1>4
<1>7. over \in Nat /\ p.start <= Len(c) /\ (i # 0 => over < x[i].len) /\ (i = 0 => over = 0)
  <2> DEFINE m == x[i].len
             b == e[i - 1]
  <2>1. i = 0 => over = 0
    BY <1>4, <1>6
  <2>2. p.start <= Len(c)
    <3> HIDE DEF x, n, l, m, b
    <3> QED
      BY <1>0, <1>2, <1>3, <1>4, <1>5
  <2>3. ASSUME i # 0 PROVE over \in Nat /\ over < m
    <3>1. b < l /\ l <= p.start /\ p.start = b + m /\ b \in Nat /\ m \in Nat
      BY <2>3, <1>4, <1>5
    <3> HIDE DEF x, n, l, m, b
    <3> QED
      BY <3>1, <1>0, <1>3 DEF over
  <2> HIDE DEF over
  <2> QED
    BY <2>1, <2>2, <2>3
<1> HIDE DEF over
<1> DEFINE y == IF over > 0 THEN [x EXCEPT ![i].len = @ - over] ELSE x
           cut == [at |-> x[i].at + x[i].len - over, len |-> over]
           w == IF over > 0 THEN FreeExtent(v, cut) ELSE v
<1>8. s = [ok |-> TRUE, fabn |-> n, start |-> p.start, i |-> i,
           searched |-> p.searched, left |-> p.left, first |-> first, t |-> t,
           ext  |-> y, dlen |-> (fork.py - l - over) % Wrap, vol  |-> w]
  BY <1>1 DEF Cut, Kept, over
<1>9. (fork.py - l - over) % Wrap = Len(c) - p.start /\ Len(c) - p.start \in Nat
  <2>1. fork.py - l - over = Len(c) - p.start /\ Len(c) - p.start \in Nat /\ Len(c) - p.start < Wrap
    BY <1>0, <1>3, <1>7 DEF over, Wrap
  <2> DEFINE m == Len(c) - p.start
  <2>2. m \in Nat /\ m < 65536
    BY <2>1 DEF Wrap
  <2> HIDE DEF m
  <2>3. m % 65536 = m
    BY <2>2
  <2> QED
    BY <2>1, <2>3 DEF Wrap, m
<1>10. /\ y \in Rec
       /\ \A k \in 1..i : y[k].at = x[k].at /\ y[k].len > 0 /\ y[k].len <= x[k].len
       /\ \A k \in 1..i - 1 : y[k].len = x[k].len
       /\ \A k \in i + 1..Width : y[k] = x[k]
       /\ i # 0 => y[i].len = x[i].len - over
  <2>1. \A k \in 1..Width : x[k] \in Extent /\ x[k].len \in Nat /\ x[k].len \in 0..NBlocks /\ x[k].at \in ABN
    BY <1>2, RecFields
  <2>2. \A k \in 1..i : k \in 1..Width
    BY <1>3, WidthIsNat
  <2>3. CASE over > 0
    <3>1. i # 0 /\ i \in 1..Width /\ i \in 1..i
      BY <2>3, <1>3, <1>7, WidthIsNat
    <3> DEFINE g == x[i].len - over
               z == [x EXCEPT ![i].len = g]
    <3>2. g \in 0..NBlocks /\ g > 0 /\ g <= x[i].len
      <4> DEFINE m == x[i].len
      <4>1. m \in Nat /\ m <= NBlocks /\ over < m
        BY <3>1, <2>1, <1>7
      <4> HIDE DEF m
      <4> QED
        BY <4>1, <1>7, <2>3, WidthIsNat DEF m
    <3>3. y = z
      BY <2>3
    <3> HIDE DEF g, y, x
    <3>4. z \in Rec /\ z[i].at = x[i].at /\ z[i].len = g /\ \A k \in 1..Width : k # i => z[k] = x[k]
      <4>1. x \in [1..Width -> [at : ABN, len : 0..NBlocks]]
        BY <1>2 DEF Rec, Extent
      <4>2. z \in [1..Width -> [at : ABN, len : 0..NBlocks]] /\ z[i].at = x[i].at /\ z[i].len = g
        BY <4>1, <3>1, <3>2
      <4>3. \A k \in 1..Width : k # i => z[k] = x[k]
        BY <4>1
      <4> QED
        BY <4>2, <4>3 DEF Rec, Extent
    <3> HIDE DEF z
    <3>5. ASSUME NEW k \in 1..i PROVE y[k].at = x[k].at /\ y[k].len > 0 /\ y[k].len <= x[k].len
      <4>1. CASE k = i
        BY <4>1, <3>2, <3>3, <3>4
      <4>2. CASE k # i
        <5>1. y[k] = x[k]
          BY <4>2, <2>2, <3>3, <3>4
        <5>2. x[k].len > 0 /\ x[k].len \in Nat
          BY <1>4, <2>1, <2>2, <3>1
        <5> QED
          BY <5>1, <5>2
      <4> QED
        BY <4>1, <4>2
    <3>6. ASSUME NEW k \in 1..i - 1 PROVE y[k].len = x[k].len
      <4>1. k \in 1..Width /\ k # i
        BY <1>3, WidthIsNat
      <4> QED
        BY <4>1, <3>3, <3>4
    <3>7. ASSUME NEW k \in i + 1..Width PROVE y[k] = x[k]
      <4>1. k \in 1..Width /\ k # i
        BY <1>3, WidthIsNat
      <4> QED
        BY <4>1, <3>3, <3>4
    <3>8. y \in Rec /\ y[i].len = x[i].len - over
      BY <3>3, <3>4 DEF g
    <3> QED
      BY <3>5, <3>6, <3>7, <3>8
  <2>4. CASE ~(over > 0)
    <3>1. y = x /\ over = 0
      BY <2>4, <1>7
    <3>2. \A k \in 1..i : x[k].len > 0 /\ x[k].len \in Nat
      <4> TAKE k \in 1..i
      <4>1. i # 0
        BY <1>3
      <4> QED
        BY <4>1, <1>4, <2>1, <2>2
    <3>3. i # 0 => x[i].len = x[i].len - 0
      BY <1>5
    <3> HIDE DEF y, x
    <3> QED
      BY <3>1, <3>2, <3>3, <1>2
  <2> QED
    BY <2>3, <2>4
<1>11. w.vbm = v.vbm \ Cells(c, l, p.start) /\ w.free = v.free + (p.start - l) /\ w \in [vbm : SUBSET ABN, free : Int]
  <2>1. CASE over > 0
    <3>1. i # 0 /\ i \in 1..Width
      BY <2>1, <1>3, <1>7, WidthIsNat
    <3>2. w = [vbm |-> v.vbm \ Run(cut), free |-> v.free + over]
      BY <2>1 DEF FreeExtent
    <3> DEFINE a == x[i].at
               m == x[i].len
    <3>3. a \in Nat /\ m \in Nat /\ over \in Nat /\ over < m /\ over > 0 /\ m <= NBlocks /\ a < NBlocks
      BY <2>1, <3>1, <1>2, <1>7, RecFields, ExtentsAssumption DEF ABN
    <3>4. \A q \in 1..m : c[e[i - 1] + q] = a + q - 1
      BY <3>1, <1>2 DEF Fits, Matches, e
    <3>5. e[i - 1] + m = p.start /\ p.start = l + over /\ e[i - 1] \in Nat
      <4> HIDE DEF x, n, l
      <4> QED
        BY <3>1, <1>3, <1>4, <1>5, <1>0 DEF over, m
    <3>6. Run(cut) = (a + m - over)..(a + m - over) + over - 1
      BY DEF Run
    <3>7. Run(cut) = Cells(c, l, p.start)
      <4> DEFINE b == e[i - 1]
      <4>1. b \in Nat /\ b + m = l + over /\ p.start = l + over
        BY <3>5
      <4> HIDE DEF a, m, b, l
      <4>2. ASSUME NEW z \in Run(cut) PROVE z \in Cells(c, l, p.start)
        <5>1. z \in Nat /\ a + m - over <= z /\ z <= a + m - 1
          BY <4>2, <3>3, <3>6
        <5>2. z - a + 1 \in 1..m /\ a + (z - a + 1) - 1 = z /\ b + (z - a + 1) \in l + 1..p.start
          BY <5>1, <3>3, <4>1, <1>0
        <5>3. c[b + (z - a + 1)] = z
          BY <5>2, <3>4 DEF b
        <5> QED
          BY <5>2, <5>3 DEF Cells
      <4>3. ASSUME NEW z \in Cells(c, l, p.start) PROVE z \in Run(cut)
        <5>1. PICK q \in l + 1..p.start : z = c[q]
          BY DEF Cells
        <5>2. q - b \in 1..m /\ b + (q - b) = q /\ a + (q - b) - 1 \in (a + m - over)..(a + m - over) + over - 1
          BY <5>1, <3>3, <4>1, <1>0
        <5>3. c[b + (q - b)] = a + (q - b) - 1
          BY <5>2, <3>4 DEF b
        <5> QED
          BY <5>1, <5>2, <5>3, <3>6
      <4> QED
        BY <4>2, <4>3
    <3> HIDE DEF cut, w
    <3>8. over = p.start - l
      BY DEF over
    <3>9. v.free \in Int /\ v.vbm \in SUBSET ABN
      OBVIOUS
    <3>10. w.vbm = v.vbm \ Cells(c, l, p.start) /\ w.free = v.free + (p.start - l)
      BY <3>2, <3>7, <3>8
    <3>11. w \in [vbm : SUBSET ABN, free : Int]
      BY <3>2, <3>3, <3>9
    <3> QED
      BY <3>10, <3>11
  <2>2. CASE ~(over > 0)
    <3>1. w = v /\ p.start = l
      BY <2>2, <1>0, <1>3, <1>7 DEF over
    <3>2. Cells(c, l, l) = {}
      <4>1. l + 1..l = {}
        BY <1>0
      <4> QED
        BY <4>1 DEF Cells
    <3>3. v.free + (l - l) = v.free
      BY <1>0
    <3> HIDE DEF w, l
    <3> QED
      BY <3>1, <3>2, <3>3
  <2> QED
    BY <2>1, <2>2
<1>12. l <= p.start /\ n <= l
  <2> HIDE DEF l, n, x
  <2> QED
    BY <1>0, <1>2, <1>3, <1>4, <1>5, <1>7 DEF over
<1> HIDE DEF y, w, cut, x, s, l, n, i, first
<1>13. /\ s.ok /\ s.fabn = n /\ s.start = p.start /\ s.i = i /\ s.left = p.left /\ s.first = first /\ s.t = t
       /\ s.ext = y /\ s.dlen = Len(c) - p.start /\ s.vol = w
  BY <1>8, <1>9
<1>14. s \in RelRec
  BY <1>0, <1>2, <1>3, <1>8, <1>9, <1>10, <1>11 DEF RelRec
<1>15. i # 0 => e[i - 1] + y[i].len = l
  <2>1. i # 0 => e[i] - over = l
    BY <1>4, <1>0, <1>3 DEF over
  <2>2. i # 0 => y[i].len = x[i].len - over /\ e[i] = e[i - 1] + x[i].len /\ e[i - 1] \in Nat /\ x[i].len \in Nat
    BY <1>5, <1>10
  <2> QED
    BY <2>1, <2>2, <1>7
<1>16. Releasable(first, t, c, n, s)
  BY <1>1, <1>3, <1>4, <1>10, <1>13, <1>14 DEF Releasable, e, x, n, i, first
<1>17. CutAt(first, t, c, l, v, p, s)
  BY <1>4, <1>10, <1>11, <1>12, <1>13, <1>15, <1>16 DEF CutAt, e, x, n, i
<1> QED
  BY <1>17 DEF s, first, l

\* A fork's overflow records are a function.
LEMMA TreeIsFunction ==
  ASSUME NEW t \in Trees
  PROVE  t = [m \in DOMAIN t |-> t[m]]
BY DEF Trees

\* Nothing but the record in which the fork is cut is different.
LEMMA LeftWhole ==
  ASSUME NEW first, NEW t, NEW c, Tiled(first, t, c), NEW n \in Starts(t), NEW y \in Rec
  PROVE  /\ n = 0 => Left(t, n, y, Total(RecordAt(first, t, n), n)) = t
         /\ n # 0 => Left(t, n, y, Total(RecordAt(first, t, n), n)) = PutRecord(t, n, y)
<1> DEFINE b == Total(RecordAt(first, t, n), n)
<1>1. Fits(RecordAt(first, t, n), n, t, c) /\ n \in Nat /\ b \in Nat
  BY FitsAt
<1>2. t \in Trees
  BY DEF Tiled
<1>3. \A m \in DOMAIN t : m \in Nat /\ m # 0
  BY InsideFork
<1>4. \A m \in DOMAIN t : m <= n \/ m >= b
  <2> TAKE m \in DOMAIN t
  <2>1. n < m => b <= m
    BY <1>1 DEF Fits
  <2> HIDE DEF b
  <2> QED
    BY <2>1, <1>1, <1>3
<1> HIDE DEF b
<1> DEFINE D == {m \in DOMAIN t : m <= n \/ m >= b}
<1>5. D = DOMAIN t
  BY <1>4
<1>6. Left(t, n, y, b) = [m \in D |-> IF m = n THEN y ELSE t[m]]
  BY DEF Left
<1> HIDE DEF D
<1>7. Left(t, n, y, b) = [m \in DOMAIN t |-> IF m = n THEN y ELSE t[m]]
  BY <1>5, <1>6
<1>8. n = 0 => Left(t, n, y, b) = t
  <2> HAVE n = 0
  <2>1. Left(t, n, y, b) = [m \in DOMAIN t |-> t[m]]
    BY <1>3, <1>7
  <2> QED
    BY <2>1, <1>2, TreeIsFunction
<1>9. n # 0 => Left(t, n, y, b) = PutRecord(t, n, y)
  <2> HAVE n # 0
  <2>1. DOMAIN t \cup {n} = DOMAIN t
    BY DEF Starts
  <2> QED
    BY <2>1, <1>7 DEF PutRecord
<1> QED
  BY <1>8, <1>9 DEF b

\* A record that has become empty is deleted.
LEMMA LeftLess ==
  ASSUME NEW first, NEW t, NEW c, Tiled(first, t, c), NEW n \in Starts(t), NEW y \in Rec,
         NEW b \in DOMAIN t, b > n
  PROVE  [m \in DOMAIN Left(t, n, y, b) \ {b} |-> Left(t, n, y, b)[m]] = Left(t, n, y, Total(t[b], b))
<1> DEFINE e == Total(t[b], b)
           u == Left(t, n, y, b)
           w == Left(t, n, y, e)
<1>0. n \in Nat /\ t \in Trees
  BY FitsAt DEF Tiled
<1>1. b < e /\ b \in Nat /\ b # 0 /\ RecordAt(first, t, b) = t[b] /\ b \in Starts(t)
  BY InsideFork
<1>2. e \in Nat /\ Fits(t[b], b, t, c)
  BY <1>1, FitsAt
<1>3. \A m \in DOMAIN t : b < m => e <= m
  BY <1>2 DEF Fits
<1>4. \A m \in DOMAIN t : m \in Nat
  BY InsideFork
<1> HIDE DEF e
<1>5. IsLeft(u, t, n, y, b) /\ IsLeft(w, t, n, y, e)
  BY <1>0, LeftIs
<1>6. w = [m \in {m \in DOMAIN t : m <= n \/ m >= e} |-> IF m = n THEN y ELSE t[m]]
  BY DEF Left
<1>7. DOMAIN u \ {b} = DOMAIN w
  <2> HIDE DEF u, w
  <2>1. DOMAIN u = {m \in DOMAIN t : m <= n \/ m >= b} /\ DOMAIN w = {m \in DOMAIN t : m <= n \/ m >= e}
    BY <1>5 DEF IsLeft
  <2>2. ASSUME NEW m \in DOMAIN t PROVE (m <= n \/ m >= b) /\ m # b <=> m <= n \/ m >= e
    BY <1>0, <1>1, <1>2, <1>3, <1>4
  <2> QED
    BY <2>1, <2>2
<1>8. w = [m \in DOMAIN w |-> w[m]]
  BY <1>6
<1> HIDE DEF u, w
<1>9. \A m \in DOMAIN w : w[m] = u[m]
  <2> TAKE m \in DOMAIN w
  <2>1. m \in DOMAIN u
    BY <1>7
  <2> QED
    BY <2>1, <1>5 DEF IsLeft
<1>10. [m \in DOMAIN u \ {b} |-> u[m]] = [m \in DOMAIN w |-> w[m]]
  BY <1>7, <1>9
<1> QED
  BY <1>8, <1>10 DEF u, w, e

\* What is stored when the blocks of the fork from the l-th to the start of
\* the next record are given back.
StoredAt(first, t, c, n, y, l, v, s) ==
  /\ s \in RelRec /\ s.ok /\ s.dlen = Len(c) - s.start
  /\ s.first = FirstWith(first, n, y) /\ s.t = Left(t, n, y, s.start)
  /\ s.vol.vbm = v.vbm \ Cells(c, l, s.start) /\ s.vol.free = v.free + (s.start - l)
  /\ s.start > n /\ s.start >= l

\* the record at block m has been dealt with
AfterStore(first, t, c, n, y, l, v, m, s) ==
  /\ StoredAt(first, t, c, n, y, l, v, s)
  /\ m \in 0..NBlocks /\ s.left >= NBlocks + 2 - m /\ s.start > m
  /\ s.dlen # 0 => s.start \in DOMAIN t

\* the next record is at hand, if there is one
TrimmedTo(first, t, c, n, y, l, v, s) ==
  /\ StoredAt(first, t, c, n, y, l, v, s)
  /\ s.dlen # 0 => /\ s.start \in DOMAIN t /\ s.fabn = s.start /\ s.i = 0 /\ s.ext = t[s.start]
                   /\ s.searched /\ s.left >= NBlocks + 2 - s.start

\* f_trunc goes on with the record after it, if there is more to give back.
LEMMA NextKeeps ==
  ASSUME NEW first, NEW t, NEW c, Tiled(first, t, c), NEW n \in Starts(t), NEW y \in Rec, NEW l, NEW v,
         NEW m, NEW s, AfterStore(first, t, c, n, y, l, v, m, s)
  PROVE  TrimmedTo(first, t, c, n, y, l, v, NextRecord(s)) /\ NextRecord(s).start = s.start
<1> DEFINE r == NextRecord(s)
           b == s.start
<1>0. t \in Trees /\ n \in Nat
  BY FitsAt DEF Tiled
<1>1. /\ s \in RelRec /\ s.ok /\ s.dlen = Len(c) - b
      /\ s.first = FirstWith(first, n, y) /\ s.t = Left(t, n, y, b)
      /\ s.vol.vbm = v.vbm \ Cells(c, l, b) /\ s.vol.free = v.free + (b - l)
      /\ b > n /\ b >= l
  BY DEF AfterStore, StoredAt
<1>2. /\ m \in 0..NBlocks /\ s.left >= NBlocks + 2 - m /\ b > m
      /\ s.dlen # 0 => b \in DOMAIN t
  BY DEF AfterStore
<1>3. CASE s.dlen = 0
  <2>1. r = s
    BY <1>3 DEF NextRecord
  <2> QED
    BY <2>1, <1>3 DEF TrimmedTo, AfterStore
<1>4. CASE s.dlen # 0
  <2>1. s.t = Left(t, n, y, b) /\ IsLeft(Left(t, n, y, b), t, n, y, b)
    BY <1>0, <1>1, LeftIs
  <2>2. IsLeft(s.t, t, n, y, b)
    BY <2>1
  <2>3. b \in DOMAIN t /\ b \in Nat /\ b # n /\ b >= b
    BY <1>0, <1>1, <1>2, <1>4 DEF RelRec
  <2> HIDE DEF b
  <2>4. b \in DOMAIN s.t /\ s.t[b] = t[b]
    BY <2>2, <2>3 DEF IsLeft
  <2>5. s.left > 0 /\ s.left \in Int /\ s.left - 1 >= NBlocks + 2 - b
    <3>1. s.left \in Int
      BY <1>1 DEF RelRec
    <3> QED
      BY <3>1, <2>3, <1>2, WidthIsNat
  <2>6. r = [s EXCEPT !.ext = t[b], !.fabn = b, !.searched = TRUE, !.left = @ - 1, !.i = 0]
    BY <1>1, <1>4, <2>4, <2>5 DEF NextRecord, Finds, b
  <2>7. t[b] \in Rec
    BY <2>3, <1>0, TreeFields
  <2> HIDE DEF r
  <2>8. r \in RelRec
    <3> DEFINE x == t[b]
               z == s.left - 1
    <3>1. z \in Int /\ x \in Rec /\ b \in Nat /\ 0 \in 0..Width /\ TRUE \in BOOLEAN /\ s \in RelRec
      BY <1>1, <2>3, <2>5, <2>7, WidthIsNat
    <3>2. r = [s EXCEPT !.ext = x, !.fabn = b, !.searched = TRUE, !.left = z, !.i = 0]
      BY <2>6
    <3> HIDE DEF x, z
    <3> QED
      BY <3>1, <3>2 DEF RelRec
  <2>9. /\ r.ok /\ r.dlen = s.dlen /\ r.first = s.first /\ r.t = s.t /\ r.vol = s.vol /\ r.start = s.start
        /\ r.ext = t[b] /\ r.fabn = b /\ r.searched /\ r.left = s.left - 1 /\ r.i = 0
    BY <1>1, <2>6 DEF RelRec
  <2>10. r.start = b /\ r.left >= NBlocks + 2 - b
    BY <2>5, <2>9 DEF b
  <2>11. StoredAt(first, t, c, n, y, l, v, r)
    BY <1>1, <2>8, <2>9, <2>10 DEF StoredAt
  <2>12. TrimmedTo(first, t, c, n, y, l, v, r)
    BY <2>3, <2>9, <2>10, <2>11 DEF TrimmedTo
  <2> QED
    BY <2>9, <2>12 DEF r
<1> QED
  BY <1>3, <1>4

\* The record in which the fork is cut.
LEMMA FirstRound ==
  ASSUME NEW first, NEW t, NEW c, Tiled(first, t, c), Len(c) <= NBlocks, NEW l \in 0..Len(c), l < Len(c),
         NEW v, v \in [vbm : SUBSET ABN, free : Int],
         NEW p, p.fabn \in Starts(t), p.left \in Int, p.left >= NBlocks + 2 - p.fabn,
         NEW s, CutAt(first, t, c, l, v, p, s), NEW luck, luck.put
  PROVE  /\ Remains(Release(s).ext, p.fabn, SubSeq(c, 1, l))
         /\ AfterStore(first, t, c, p.fabn, Release(s).ext, l, v, p.fabn, Store(Release(s), luck))
<1> DEFINE n == p.fabn
           i == p.i
           x == RecordAt(first, t, n)
           q == Release(s)
           y == q.ext
           b == Total(x, n)
           e == Ends(x, n)
<1>1. /\ Releasable(first, t, c, n, s) /\ s.i = i /\ s.fabn = n
      /\ s.left = p.left /\ s.t = t /\ s.first = first
      /\ \A k \in 1..i : s.ext[k].at = x[k].at /\ s.ext[k].len > 0 /\ s.ext[k].len <= x[k].len
      /\ \A k \in 1..i - 1 : s.ext[k].len = x[k].len
      /\ i = 0 => l = 0 /\ n = 0
      /\ i # 0 => e[i - 1] + s.ext[i].len = l
      /\ s.vol.vbm = v.vbm \ Cells(c, l, s.start) /\ s.vol.free = v.free + (s.start - l)
      /\ l <= s.start /\ n <= l
  BY DEF CutAt
<1>2. s \in RelRec /\ i \in 0..Width /\ s.start = e[i] /\ i \in Nat
  BY <1>1, WidthIsNat DEF Releasable
<1>3. x \in Rec /\ n \in Nat /\ n \in 0..NBlocks /\ Fits(x, n, t, c) /\ b \in Nat /\ b <= Len(c) /\ Matches(x, n, c)
  BY FitsAt DEF Fits
<1>4. c \in Seq(ABN) /\ Len(c) \in Nat /\ t \in Trees /\ l \in Nat
  <2>1. c \in Seq(ABN) /\ t \in Trees
    BY DEF Tiled
  <2> QED
    BY <2>1
<1>5. ReleasedTo(x, n, c, s, Width, q)
  BY <1>1, ReleaseEnds
<1> HIDE DEF q
<1>6. /\ q \in RelRec /\ q.ok /\ q.fabn = n /\ q.left = p.left /\ q.first = first /\ q.t = t
      /\ q.start = b /\ q.dlen = Len(c) - b
      /\ \A k \in 1..i : y[k] = s.ext[k]
      /\ \A k \in i + 1..Width : y[k].len = 0
      /\ q.vol.vbm = s.vol.vbm \ Cells(c, s.start, b)
      /\ q.vol.free = s.vol.free + (b - s.start)
  BY <1>1, <1>5 DEF ReleasedTo, Total
<1>7. Shortened(x, y, n, i, l)
  <2>1. y \in Rec
    BY <1>6 DEF RelRec
  <2>2. \A k \in 1..i : y[k].at = x[k].at /\ y[k].len > 0 /\ y[k].len <= x[k].len
    BY <1>1, <1>6
  <2>3. \A k \in 1..i - 1 : y[k].len = x[k].len
    <3> TAKE k \in 1..i - 1
    <3>1. k \in 1..i
      BY <1>2
    <3> QED
      BY <3>1, <1>1, <1>6
  <2>4. i # 0 => e[i - 1] + y[i].len = l
    <3>1. i # 0 => i \in 1..i
      BY <1>2
    <3> QED
      BY <3>1, <1>1, <1>6
  <2>5. i = 0 => l = n /\ n = 0
    BY <1>1
  <2> HIDE DEF x, y, n, i
  <2> QED
    BY <1>2, <1>3, <1>6, <2>1, <2>2, <2>3, <2>4, <2>5 DEF Shortened, e
<1>8. Remains(y, n, SubSeq(c, 1, l))
  BY <1>3, <1>4, <1>7, RecordCut
<1>9. n # 0 => y[1].len > 0 /\ y[1].len # 0
  <2>1. n # 0 => y[1].len > 0
    BY <1>8 DEF Remains
  <2> QED
    BY <2>1
<1>10. s.start <= b /\ s.start \in Nat
  <2>1. e[i] <= e[Width] /\ e[i] \in Nat
    <3>1. e[i] <= e[Width]
      BY <1>2, <1>3, EndsGrow, WidthIsNat
    <3>2. e[i] \in Nat
      BY <1>2, <1>3, EndsTyped
    <3> QED
      BY <3>1, <3>2
  <2> QED
    BY <2>1, <1>2 DEF Total
<1>11. /\ q.vol.vbm = v.vbm \ Cells(c, l, b) /\ q.vol.free = v.free + (b - l)
  <2> DEFINE a == s.start
  <2>1. l \in Int /\ a \in Int /\ b \in Int /\ l <= a /\ a <= b
    BY <1>1, <1>3, <1>4, <1>10
  <2> HIDE DEF a, b
  <2>2. Abut(c, l, a, b)
    BY <2>1, CellsJoin
  <2>3. q.vol.vbm = v.vbm \ Cells(c, l, b)
    BY <2>2, <1>1, <1>6 DEF Abut, a
  <2>4. v.free \in Int
    OBVIOUS
  <2> QED
    BY <2>1, <2>3, <2>4, <1>1, <1>6 DEF a
<1>12. b > n /\ b >= l /\ (q.dlen # 0 => b \in DOMAIN t)
  <2>1. CASE b < Len(c)
    <3>1. b \in DOMAIN t /\ n < b
      BY <2>1, NextIs
    <3> HIDE DEF b, n
    <3> QED
      BY <3>1, <1>1, <1>3, <1>4, <1>10, <1>2
  <2>2. CASE ~(b < Len(c))
    <3> HIDE DEF b, n
    <3> QED
      BY <2>2, <1>1, <1>3, <1>4, <1>6
  <2> QED
    BY <2>1, <2>2
<1> DEFINE r == Store(q, luck)
<1>13. y \in Rec /\ (n = 0 => Left(t, n, y, b) = t) /\ (n # 0 => Left(t, n, y, b) = PutRecord(t, n, y))
  <2>1. y \in Rec
    BY <1>6 DEF RelRec
  <2> HIDE DEF y
  <2> QED
    BY <2>1, LeftWhole
<1> HIDE DEF b, x, e
<1>14. r \in RelRec /\ r.ok /\ r.first = FirstWith(first, n, y) /\ r.t = Left(t, n, y, b) /\ r.vol = q.vol
       /\ r.start = q.start /\ r.dlen = q.dlen /\ r.left = q.left
  <2>1. CASE n = 0
    <3>1. r = [q EXCEPT !.first = y]
      BY <2>1, <1>6 DEF Store
    <3>2. FirstWith(first, n, y) = y
      BY <2>1 DEF FirstWith
    <3> HIDE DEF y, r, n
    <3> QED
      BY <2>1, <3>1, <3>2, <1>6, <1>13 DEF RelRec
  <2>2. CASE n # 0
    <3>1. n \in DOMAIN t /\ q.left > 0
      <4>1. n \in DOMAIN t
        BY <2>2 DEF Starts
      <4> QED
        BY <4>1, <1>3, <1>6, WidthIsNat
    <3>2. r = [q EXCEPT !.t = PutRecord(t, n, y), !.searched = TRUE]
      BY <2>2, <3>1, <1>6, <1>9 DEF Store, Finds, KeepsRecord
    <3>3. FirstWith(first, n, y) = first
      BY <2>2 DEF FirstWith
    <3> DEFINE u == PutRecord(t, n, y)
    <3>4. u = Left(t, n, y, b)
      BY <2>2, <1>13
    <3>5. u \in Trees
      <4>1. n \in 1..NBlocks
        BY <2>2, <1>3, WidthIsNat
      <4> HIDE DEF y, n
      <4> QED
        BY <4>1, <1>4, <1>13, PutIn
    <3> HIDE DEF y, r, n, u
    <3> QED
      BY <3>2, <3>3, <3>4, <3>5, <1>6 DEF RelRec, u
  <2> QED
    BY <2>1, <2>2
<1> HIDE DEF r, y, n
<1>15. StoredAt(first, t, c, n, y, l, v, r)
  BY <1>6, <1>11, <1>12, <1>14 DEF StoredAt
<1>16. AfterStore(first, t, c, n, y, l, v, n, r)
  <2>1. r.left >= NBlocks + 2 - n
    BY <1>6, <1>14 DEF n
  <2>2. r.start > n
    BY <1>6, <1>12, <1>14
  <2>3. r.dlen # 0 => r.start \in DOMAIN t
    BY <1>6, <1>12, <1>14
  <2> QED
    BY <1>3, <1>15, <2>1, <2>2, <2>3 DEF AfterStore
<1> QED
  BY <1>8, <1>16 DEF r, y, n, q

\* A record past the end of the fork.
LEMMA NextRound ==
  ASSUME NEW first, NEW t, NEW c, Tiled(first, t, c), Len(c) <= NBlocks, NEW n \in Starts(t), NEW y \in Rec,
         NEW l \in Nat, NEW v, v \in [vbm : SUBSET ABN, free : Int],
         NEW s, TrimmedTo(first, t, c, n, y, l, v, s), s.dlen # 0, NEW luck, luck.put
  PROVE  AfterStore(first, t, c, n, y, l, v, s.start, Store(Release(s), luck))
<1> DEFINE m == s.start
           x == RecordAt(first, t, m)
           q == Release(s)
           b == Total(x, m)
           e == Ends(x, m)
           r == Store(q, luck)
<1>0. c \in Seq(ABN) /\ Len(c) \in Nat /\ t \in Trees /\ n \in Nat
  <2>1. c \in Seq(ABN) /\ t \in Trees
    BY DEF Tiled
  <2> QED
    BY <2>1, FitsAt
<1>1. /\ s \in RelRec /\ s.ok /\ s.dlen = Len(c) - m
      /\ s.first = FirstWith(first, n, y) /\ s.t = Left(t, n, y, m)
      /\ s.vol.vbm = v.vbm \ Cells(c, l, m) /\ s.vol.free = v.free + (m - l)
      /\ m > n /\ m >= l
      /\ m \in DOMAIN t /\ s.fabn = m /\ s.i = 0 /\ s.ext = t[m]
      /\ s.searched /\ s.left >= NBlocks + 2 - m
  BY DEF TrimmedTo, StoredAt
<1>2. m \in Nat /\ m # 0 /\ m < Len(c) /\ x = t[m] /\ m \in Starts(t)
  BY <1>1, InsideFork
<1>3. x \in Rec /\ m \in 0..NBlocks /\ Fits(x, m, t, c) /\ b \in Nat /\ b <= Len(c) /\ m < b
  <2>1. m < Total(t[m], m)
    BY <1>1, InsideFork
  <2>2. x \in Rec /\ m \in 0..NBlocks /\ Fits(x, m, t, c) /\ b \in Nat /\ b <= Len(c)
    BY <1>2, FitsAt
  <2> QED
    BY <2>1, <2>2, <1>2
<1>4. Releasable(first, t, c, m, s)
  <2>1. e[0] = m
    BY <1>2, <1>3, EndsTyped
  <2>2. 0 \in 0..Width
    BY WidthIsNat
  <2>3. s.start = e[s.i] /\ s.i \in 0..Width
    BY <1>1, <2>1, <2>2
  <2> HIDE DEF e, m
  <2> QED
    BY <1>1, <1>2, <2>3 DEF Releasable, e, m
<1>5. ReleasedTo(x, m, c, s, Width, q)
  BY <1>4, ReleaseEnds
<1> HIDE DEF q
<1>6. /\ q \in RelRec /\ q.ok /\ q.fabn = m /\ q.left = s.left /\ q.first = s.first /\ q.t = s.t
      /\ q.searched = s.searched /\ q.start = b /\ q.dlen = Len(c) - b
      /\ \A k \in 1..Width : q.ext[k].len = 0
      /\ q.vol.vbm = s.vol.vbm \ Cells(c, m, b)
      /\ q.vol.free = s.vol.free + (b - m)
  BY <1>1, <1>5 DEF ReleasedTo, Total
<1>7. /\ q.vol.vbm = v.vbm \ Cells(c, l, b) /\ q.vol.free = v.free + (b - l)
  <2>1. l \in Int /\ m \in Int /\ b \in Int /\ l <= m /\ m <= b
    BY <1>1, <1>2, <1>3
  <2> HIDE DEF m, b
  <2>2. Abut(c, l, m, b)
    BY <2>1, CellsJoin
  <2>3. q.vol.vbm = v.vbm \ Cells(c, l, b)
    BY <2>2, <1>1, <1>6 DEF Abut
  <2> QED
    BY <2>1, <2>3, <1>1, <1>6
<1>8. ~KeepsRecord(q.ext)
  BY <1>6, WidthIsNat DEF KeepsRecord
<1> DEFINE u == [k \in DOMAIN s.t \ {m} |-> s.t[k]]
<1>9. u = Left(t, n, y, b)
  <2>1. m > n /\ m \in DOMAIN t
    BY <1>1
  <2>2. u = [k \in DOMAIN Left(t, n, y, m) \ {m} |-> Left(t, n, y, m)[k]]
    BY <1>1
  <2> HIDE DEF u, m
  <2>3. [k \in DOMAIN Left(t, n, y, m) \ {m} |-> Left(t, n, y, m)[k]] = Left(t, n, y, Total(t[m], m))
    BY <2>1, LeftLess
  <2> QED
    BY <2>2, <2>3, <1>2
<1>10. u \in Trees
  <2>1. IsLeft(Left(t, n, y, b), t, n, y, b)
    BY <1>0, LeftIs
  <2> HIDE DEF u
  <2> QED
    BY <2>1, <1>9 DEF IsLeft
<1>11. r = [q EXCEPT !.t = u, !.searched = FALSE]
  BY <1>1, <1>2, <1>6, <1>8 DEF Store
<1> HIDE DEF r, u, b, m, x, e
<1>12. r \in RelRec /\ r.ok /\ r.first = q.first /\ r.t = u /\ r.vol = q.vol
       /\ r.start = q.start /\ r.dlen = q.dlen /\ r.left = q.left
  BY <1>6, <1>10, <1>11 DEF RelRec
<1>13. b > n /\ b >= l
  BY <1>0, <1>1, <1>2, <1>3
<1>14. StoredAt(first, t, c, n, y, l, v, r)
  BY <1>1, <1>6, <1>7, <1>9, <1>12, <1>13 DEF StoredAt
<1>15. r.dlen # 0 => r.start \in DOMAIN t
  <2>1. b < Len(c) => b \in DOMAIN t
    BY <1>2, NextIs DEF b, x
  <2>2. r.dlen # 0 => b < Len(c)
    BY <1>0, <1>3, <1>6, <1>12
  <2> QED
    BY <2>1, <2>2, <1>6, <1>12
<1>16. AfterStore(first, t, c, n, y, l, v, m, r)
  BY <1>1, <1>3, <1>6, <1>12, <1>14, <1>15 DEF AfterStore
<1> QED
  BY <1>16 DEF r, m, q

\* one round of the outer loop of f_trunc
RoundStep(luck, m, q) ==
  IF m > 1 /\ (q.dlen = 0 \/ ~q.ok) THEN q ELSE NextRecord(Store(Release(q), luck))

\* the rounds of the loop: T relates the number of them to what is left
RoundsRun(p, luck, T, g) ==
  /\ \A m \in 0..NBlocks + 2 : <<m, g[m]>> \in T
  /\ ReleaseRecords(p, luck) = g[NBlocks + 2]

\* it leads from T to T
RoundsClosed(p, luck, T) ==
  /\ <<0, p>> \in T
  /\ \A m \in 1..NBlocks + 2, q \in RelRec :
       <<m - 1, q>> \in T => <<m, RoundStep(luck, m, q)>> \in T
  /\ T \subseteq Nat \X RelRec

\* ReleaseRecords is the last of the rounds.
LEMMA RoundSteps ==
  ASSUME NEW p, NEW luck, NEW T, RoundsClosed(p, luck, T)
  PROVE  \E g : RoundsRun(p, luck, T, g)
<1> DEFINE N == NBlocks + 2
           body(g) == [n \in 0..N |->
             IF n = 0 THEN p
             ELSE IF n > 1 /\ (g[n - 1].dlen = 0 \/ ~g[n - 1].ok) THEN g[n - 1]
             ELSE NextRecord(Store(Release(g[n - 1]), luck))]
           at == CHOOSE g : g = body(g)
           F == [x \in RelRec \X (1..N) |-> IF <<x[2] - 1, x[1]>> \in T THEN RoundStep(luck, x[2], x[1]) ELSE p]
<1>0. N \in Nat /\ N \in 0..N /\ 0 \in 0..N
  BY WidthIsNat
<1>a. /\ <<0, p>> \in T /\ p \in RelRec
      /\ \A j \in 1..N, q \in RelRec : <<j - 1, q>> \in T => <<j, RoundStep(luck, j, q)>> \in T
      /\ \A j, q : <<j, q>> \in T => q \in RelRec
  BY DEF RoundsClosed
<1>1. \A g : body(g) = [j \in 0..N |-> IF j = 0 THEN p ELSE RoundStep(luck, j, g[j - 1])]
  BY DEF RoundStep
<1>2. at[N] = ReleaseRecords(p, luck)
  BY DEF ReleaseRecords
<1> HIDE DEF body, N
<1>3. F \in [RelRec \X (1..N) -> RelRec]
  <2>1. \A q \in RelRec, j \in 1..N : <<j - 1, q>> \in T => RoundStep(luck, j, q) \in RelRec
    BY <1>a
  <2>2. \A q \in RelRec, j \in 1..N : (IF <<j - 1, q>> \in T THEN RoundStep(luck, j, q) ELSE p) \in RelRec
    BY <2>1, <1>a
  <2> QED
    BY <2>2
<1>4. PICK g : Solves(RelRec, N, F, p, g)
  BY <1>0, <1>a, <1>3, Solution DEF Recursive
<1>5. g \in [0..N -> RelRec] /\ g[0] = p /\ \A j \in 1..N : g[j] = F[<<g[j - 1], j>>]
  BY <1>4 DEF Solves
<1>6. \A j \in 0..N : <<j, g[j]>> \in T
  <2>1. <<0, g[0]>> \in T
    BY <1>5, <1>a
  <2>2. ASSUME NEW j \in 1..N, <<j - 1, g[j - 1]>> \in T PROVE <<j, g[j]>> \in T
    <3>1. g[j - 1] \in RelRec /\ <<g[j - 1], j>> \in RelRec \X (1..N)
      BY <2>2, <1>a
    <3>2. F[<<g[j - 1], j>>] = RoundStep(luck, j, g[j - 1])
      BY <3>1, <2>2
    <3> QED
      BY <3>1, <3>2, <2>2, <1>5, <1>a
  <2> HIDE DEF F
  <2> QED
    BY <1>0, <2>1, <2>2, Along
<1>7. \A j \in 1..N : g[j] = RoundStep(luck, j, g[j - 1])
  <2> TAKE j \in 1..N
  <2>1. j - 1 \in 0..N
    BY <1>0
  <2>2. <<j - 1, g[j - 1]>> \in T /\ g[j - 1] \in RelRec /\ <<g[j - 1], j>> \in RelRec \X (1..N)
    BY <2>1, <1>5, <1>6
  <2>3. F[<<g[j - 1], j>>] = RoundStep(luck, j, g[j - 1])
    BY <2>2
  <2> HIDE DEF F
  <2> QED
    BY <2>3, <1>5
<1> HIDE DEF F
<1>8. g = body(g)
  <2>1. \A j \in 0..N : j = 0 \/ j \in 1..N
    BY <1>0
  <2>2. g = [j \in 0..N |-> IF j = 0 THEN p ELSE RoundStep(luck, j, g[j - 1])]
    BY <1>5, <1>7, <2>1
  <2> QED
    BY <2>2, <1>1
<1>9. at = body(at)
  BY <1>8
<1> HIDE DEF at
<1>10. at[0] = p /\ \A j \in 1..N : at[j] = RoundStep(luck, j, at[j - 1])
  <2>1. \A j \in 1..N : j \in 0..N /\ j # 0
    BY <1>0
  <2>2. at = [j \in 0..N |-> IF j = 0 THEN p ELSE RoundStep(luck, j, at[j - 1])]
    BY <1>9, <1>1
  <2> QED
    BY <2>1, <2>2, <1>0
<1>11. \A j \in 0..N : <<j, at[j]>> \in T
  <2>1. <<0, at[0]>> \in T
    BY <1>10, <1>a
  <2>2. ASSUME NEW j \in 1..N, <<j - 1, at[j - 1]>> \in T PROVE <<j, at[j]>> \in T
    BY <2>2, <1>10, <1>a
  <2> QED
    BY <1>0, <2>1, <2>2, Along
<1>12. RoundsRun(p, luck, T, at)
  BY <1>2, <1>11 DEF RoundsRun, N
<1> QED
  BY <1>12

\* All records past the end are dealt with.
LEMMA ReleasesAll ==
  ASSUME NEW first, NEW t, NEW c, Tiled(first, t, c), Len(c) <= NBlocks, NEW n \in Starts(t), NEW y \in Rec,
         NEW l \in Nat, NEW v, v \in [vbm : SUBSET ABN, free : Int],
         NEW p \in RelRec, NEW luck, luck.put,
         AfterStore(first, t, c, n, y, l, v, n, Store(Release(p), luck))
  PROVE  StoredAt(first, t, c, n, y, l, v, ReleaseRecords(p, luck)) /\ ReleaseRecords(p, luck).start = Len(c)
<1> DEFINE Good(m, q) == TrimmedTo(first, t, c, n, y, l, v, q) /\ (q.dlen # 0 => q.start >= m)
           T == {w \in Nat \X RelRec : (w[1] = 0 => w[2] = p) /\ (w[1] >= 1 => Good(w[1], w[2]))}
           N == NBlocks + 2
           z == ReleaseRecords(p, luck)
<1>0. Len(c) \in Nat /\ n \in Nat /\ N \in Nat /\ \A k \in DOMAIN t : k \in 1..NBlocks
  <2>1. c \in Seq(ABN) /\ t \in Trees
    BY DEF Tiled
  <2> QED
    BY <2>1, FitsAt, WidthIsNat, TreeFields
<1>1. <<0, p>> \in T
  BY DEF T
<1>2. ASSUME NEW m \in 1..N, NEW q \in RelRec, <<m - 1, q>> \in T
      PROVE  <<m, RoundStep(luck, m, q)>> \in T
  <2> DEFINE r == RoundStep(luck, m, q)
  <2>0. m \in Nat /\ m - 1 \in Nat
    OBVIOUS
  <2>1. (m - 1 = 0 => q = p) /\ (m - 1 >= 1 => Good(m - 1, q))
    <3> HIDE DEF Good
    <3> QED
      BY <1>2
  <2>2. Good(m, r)
    <3>1. CASE m = 1
      <4>1. r = NextRecord(Store(Release(p), luck))
        BY <3>1, <2>1 DEF RoundStep
      <4>2. TrimmedTo(first, t, c, n, y, l, v, r) /\ r.start = Store(Release(p), luck).start
        BY <4>1, NextKeeps
      <4>3. Store(Release(p), luck).start > n /\ Store(Release(p), luck) \in RelRec
        BY DEF AfterStore, StoredAt
      <4>4. Store(Release(p), luck).start \in Nat
        BY <4>3 DEF RelRec
      <4> HIDE DEF r
      <4> QED
        BY <4>2, <4>3, <4>4, <3>1, <1>0
    <3>2. CASE m # 1 /\ q.dlen = 0
      <4>1. r = q /\ Good(m - 1, q)
        BY <3>2, <2>0, <2>1 DEF RoundStep
      <4> QED
        BY <4>1, <3>2
    <3>3. CASE m # 1 /\ q.dlen # 0
      <4>1. TrimmedTo(first, t, c, n, y, l, v, q) /\ q.start >= m - 1
        BY <3>3, <2>0, <2>1
      <4>2. q.ok
        BY <4>1 DEF TrimmedTo, StoredAt
      <4>3. r = NextRecord(Store(Release(q), luck))
        BY <3>3, <2>0, <4>2 DEF RoundStep
      <4>4. AfterStore(first, t, c, n, y, l, v, q.start, Store(Release(q), luck))
        BY <3>3, <4>1, NextRound
      <4>5. TrimmedTo(first, t, c, n, y, l, v, r) /\ r.start = Store(Release(q), luck).start
        BY <4>3, <4>4, NextKeeps
      <4>6. Store(Release(q), luck).start > q.start /\ Store(Release(q), luck) \in RelRec
        BY <4>4 DEF AfterStore, StoredAt
      <4>7. Store(Release(q), luck).start \in Nat /\ q.start \in Nat
        BY <4>6 DEF RelRec
      <4> HIDE DEF r
      <4> QED
        BY <4>1, <4>5, <4>6, <4>7, <2>0
    <3> QED
      BY <3>1, <3>2, <3>3
  <2>3. r \in RelRec
    BY <2>2 DEF TrimmedTo, StoredAt
  <2> HIDE DEF Good, r
  <2> QED
    BY <2>0, <2>2, <2>3 DEF r
<1>3. RoundsClosed(p, luck, T)
  <2>1. T \subseteq Nat \X RelRec
    BY DEF T
  <2> HIDE DEF T
  <2> QED
    BY <1>1, <1>2, <2>1 DEF RoundsClosed
<1>4. PICK g : RoundsRun(p, luck, T, g)
  <2> HIDE DEF T
  <2> QED
    BY <1>3, RoundSteps
<1>5. <<N, z>> \in T
  <2>1. N \in 0..N
    BY <1>0
  <2> HIDE DEF T
  <2> QED
    BY <1>4, <2>1 DEF RoundsRun
<1>6. TrimmedTo(first, t, c, n, y, l, v, z) /\ (z.dlen # 0 => z.start >= N)
  <2>1. N >= 1
    BY WidthIsNat
  <2>2. N >= 1 => Good(N, z)
    <3> HIDE DEF Good, z, N
    <3> QED
      BY <1>5
  <2> QED
    BY <2>1, <2>2
<1>7. z.dlen = 0
  <2>1. z.dlen # 0 => z.start \in DOMAIN t
    BY <1>6 DEF TrimmedTo
  <2>2. \A k \in 1..NBlocks : ~(k >= N)
    BY WidthIsNat
  <2> QED
    BY <2>1, <2>2, <1>0, <1>6
<1>8. StoredAt(first, t, c, n, y, l, v, z) /\ z.dlen = Len(c) - z.start /\ z.start \in Nat
  <2>1. StoredAt(first, t, c, n, y, l, v, z)
    BY <1>6 DEF TrimmedTo
  <2> QED
    BY <2>1 DEF StoredAt, RelRec
<1> HIDE DEF z
<1>9. z.start = Len(c)
  BY <1>0, <1>7, <1>8
<1> QED
  BY <1>8, <1>9 DEF z

\* a handle whose copy of an extent record is not looked at again
LooseHandle == [fork : Fork, ext : Rec, fabn : Nat, rec : Forks, upd : BOOLEAN]

\* the fork at hand has the first record x and the physical length l
RecordsLeft(f, g, x, l) ==
  /\ g \in LooseHandle /\ g.fork = f.fork /\ g.upd = TRUE
  /\ g.rec[f.fork].ext = x /\ g.rec[f.fork].py = l /\ g.rec[f.fork].lg = f.rec[f.fork].lg
  /\ \A j \in Fork : j # f.fork => g.rec[j] = f.rec[j]

\* Truncated changes one fork's record.
LEMMA RecTrim ==
  ASSUME NEW f \in Handle, NEW z \in RelRec
  PROVE  RecordsLeft(f, Truncated(f, z).f, z.first, f.rec[f.fork].lg)
<1> DEFINE k == f.fork
           x == z.first
           l == f.rec[k].lg
           r == [f.rec EXCEPT ![k].ext = x, ![k].py = l]
           a == [f EXCEPT !.ext = z.ext, !.fabn = z.fabn, !.upd = TRUE, !.rec = r]
<1>0. k \in Fork /\ z.ext \in Rec /\ z.fabn \in Nat /\ x \in Rec
  BY DEF Handle, RelRec
<1>1. Truncated(f, z).f = a
  BY DEF Handle, Forks, Truncated, Kept
<1>2. f.rec \in [Fork -> [ext : Rec, py : 0..NBlocks, lg : 0..NBlocks]]
  BY DEF Handle, Forks, Rec
<1>3. l \in 0..NBlocks
  BY <1>0, <1>2
<1> HIDE DEF x, l
<1>4. r \in [Fork -> [ext : Rec, py : 0..NBlocks, lg : 0..NBlocks]]
  BY <1>0, <1>2, <1>3
<1>5. r[k].ext = x /\ r[k].py = l /\ r[k].lg = l /\ \A j \in Fork : j # k => r[j] = f.rec[j]
  <2>1. r[k].lg = f.rec[k].lg
    BY <1>0, <1>2
  <2> QED
    BY <2>1, <1>0, <1>2 DEF l
<1> HIDE DEF r
<1>6. r \in Forks
  BY <1>4 DEF Forks, Rec
<1>7. a \in LooseHandle /\ a.fork = f.fork /\ a.upd = TRUE /\ a.rec = r
  BY <1>0, <1>6 DEF Handle, LooseHandle
<1> HIDE DEF a
<1>8. RecordsLeft(f, a, x, l)
  BY <1>5, <1>7 DEF RecordsLeft, l
<1> QED
  BY <1>1, <1>8 DEF x, l

\* What f_trunc leaves of the fork at hand, of which c are the blocks, and of
\* the volume v.
Trimmed(f, c, v, r) ==
  LET k == f.fork
      l == f.rec[k].lg
  IN  /\ r.ok /\ r.f \in LooseHandle /\ r.f.fork = k
      /\ \A j \in Fork : j # k => r.f.rec[j] = f.rec[j]
      /\ r.f.rec[k].py = l /\ r.f.rec[k].lg = l
      /\ Tiled(r.f.rec[k].ext, r.t, SubSeq(c, 1, l))
      /\ r.f.upd \/ (r.f.rec = f.rec /\ r.f.upd = f.upd)
      /\ r.vol.vbm = v.vbm \ Cells(c, l, Len(c)) /\ r.vol.free = v.free + (Len(c) - l)
      /\ r.vol \in [vbm : SUBSET ABN, free : Int]

\* An empty stretch.
LEMMA CellsNone ==
  ASSUME NEW c, NEW l \in Int, NEW v, v.free \in Int
  PROVE  v.vbm \ Cells(c, l, l) = v.vbm /\ v.free + (l - l) = v.free
<1>1. l + 1..l = {}
  OBVIOUS
<1>2. Cells(c, l, l) = {}
  BY <1>1 DEF Cells
<1> QED
  BY <1>2

\* A sequence is a prefix of itself.
LEMMA WholePrefix ==
  ASSUME NEW c \in Seq(ABN)
  PROVE  SubSeq(c, 1, Len(c)) = c
OBVIOUS

\* f_trunc gives back the blocks past the logical end, and nothing else.
LEMMA TruncTrims ==
  ASSUME NEW f \in Handle, NEW t, NEW c, NEW v, NEW luck,
         Tiled(f.rec[f.fork].ext, t, c), f.rec[f.fork].py = Len(c), f.rec[f.fork].lg \in 0..Len(c),
         Len(c) <= NBlocks, Len(c) < Wrap, v \in [vbm : SUBSET ABN, free : Int],
         AtRecord(f, t) \/ Lost(f, c), luck.searches = NBlocks + 2, luck.put
  PROVE  Trimmed(f, c, v, Trunc(f, t, v, luck))
<1> DEFINE k == f.fork
           fork == f.rec[k]
           first == fork.ext
           l == fork.lg
           g == IF f.fabn >= l THEN [f EXCEPT !.fabn = 0, !.ext = first] ELSE f
           p == Locate(g, t, l, luck)
           s == Cut(p, fork, t, v)
           z == ReleaseRecords(s, luck)
           r == Trunc(f, t, v, luck)
<1>0. /\ c \in Seq(ABN) /\ t \in Trees /\ Len(c) \in Nat /\ l \in Nat /\ l <= Len(c)
      /\ k \in Fork /\ f.fabn \in Nat /\ f.rec \in Forks /\ fork.py = Len(c) /\ v.free \in Int
  <2>1. c \in Seq(ABN) /\ t \in Trees
    BY DEF Tiled
  <2>2. Len(c) \in Nat
    BY <2>1
  <2>3. k \in Fork /\ f.fabn \in Nat /\ f.rec \in Forks
    BY WidthIsNat DEF Handle
  <2> HIDE DEF fork, k
  <2> QED
    BY <2>1, <2>2, <2>3 DEF fork, k
<1>1. CASE l >= fork.py
  <2>1. l = Len(c)
    <3> HIDE DEF l, fork, k
    <3> QED
      BY <1>0, <1>1
  <2>2. r = [ok |-> l = fork.py, f |-> f, t |-> t, vol |-> v]
    BY <1>1 DEF Trunc, Kept
  <2>3. r.ok /\ r.f = f /\ r.t = t /\ r.vol = v
    <3>1. l = fork.py
      BY <2>1, <1>0
    <3> HIDE DEF r, l, fork
    <3> QED
      BY <3>1, <2>2
  <2>4. SubSeq(c, 1, l) = c
    BY <2>1, <1>0, WholePrefix
  <2>5. f \in LooseHandle
    BY <1>0 DEF Handle, LooseHandle
  <2>6. v.vbm \ Cells(c, l, Len(c)) = v.vbm /\ v.free + (Len(c) - l) = v.free
    <3>1. v.vbm \ Cells(c, l, l) = v.vbm /\ v.free + (l - l) = v.free
      <4> HIDE DEF l
      <4> QED
        BY <1>0, CellsNone
    <3> QED
      BY <3>1, <2>1
  <2> HIDE DEF r
  <2> QED
    BY <2>1, <2>3, <2>4, <2>5, <2>6, <1>0 DEF Trimmed, r
<1>2. CASE ~(l >= fork.py)
  <2>0. l < Len(c)
    <3> HIDE DEF l, fork, k
    <3> QED
      BY <1>0, <1>2
  <2>1. g \in Handle /\ g.fork = k /\ g.rec = f.rec
    <3>1. first \in Rec
      BY <1>0 DEF Forks, Rec
    <3>2. 0 \in 0..NBlocks
      BY WidthIsNat
    <3> HIDE DEF first, l
    <3> QED
      BY <3>1, <3>2, <1>0 DEF Handle
  <2>2. g.fabn \in Starts(t) /\ g.ext = RecordAt(first, t, g.fabn) /\ (g.fabn < l \/ (g.fabn = 0 /\ l = 0))
    <3>1. CASE f.fabn >= l
      <4>1. g.fabn = 0 /\ g.ext = first
        BY <3>1 DEF Handle
      <4>2. 0 < l \/ l = 0
        <5> HIDE DEF l
        <5> QED
          BY <1>0
      <4> HIDE DEF g, l, first
      <4> QED
        BY <4>1, <4>2 DEF Starts, RecordAt
    <3>2. CASE ~(f.fabn >= l)
      <4>1. g = f
        BY <3>2
      <4>2. f.fabn < l /\ f.fabn # Len(c)
        <5> HIDE DEF l
        <5> QED
          BY <1>0, <3>2
      <4>3. AtRecord(f, t)
        BY <4>2 DEF Lost
      <4> HIDE DEF g, l
      <4> QED
        BY <4>1, <4>2, <4>3 DEF AtRecord
    <3> QED
      BY <3>1, <3>2
  <2>3. Looking(first, t, l, p) /\ ~p.more
    <3>1. Tiled(first, t, c) /\ l \in 0..Len(c)
      OBVIOUS
    <3> HIDE DEF g, first, l
    <3> QED
      BY <3>1, <2>2, LocateFinds
  <2>4. p.ok /\ p.fabn \in Starts(t) /\ p.left \in Int /\ p.left >= NBlocks + 2 - p.fabn
    <3> HIDE DEF p
    <3> QED
      BY <2>3 DEF Looking, Holding, LocRec
  <2> HIDE DEF p
  <2>5. CutAt(first, t, c, l, v, p, s)
    <3>1. Tiled(fork.ext, t, c) /\ fork.py = Len(c) /\ fork.lg < Len(c) /\ fork.lg \in Nat
      BY <1>0, <2>0
    <3>2. Looking(fork.ext, t, fork.lg, p)
      BY <2>3
    <3> HIDE DEF fork
    <3> QED
      BY <3>1, <3>2, <2>3, CutIs
  <2>6. r = Truncated(g, z)
    <3>1. ~(Kept(fork) >= fork.py)
      BY <1>2 DEF Kept
    <3>2. r = TruncAt(g, t, v, p, luck)
      BY <3>1 DEF Trunc, Kept, p
    <3>3. g.rec[g.fork] = fork
      BY <2>1
    <3> HIDE DEF g, fork
    <3> QED
      BY <2>4, <3>2, <3>3 DEF TruncAt
  <2> DEFINE n == p.fabn
             y == Release(s).ext
  <2>7. Remains(y, n, SubSeq(c, 1, l)) /\ AfterStore(first, t, c, n, y, l, v, n, Store(Release(s), luck))
    <3>1. Tiled(first, t, c) /\ l \in 0..Len(c)
      OBVIOUS
    <3> HIDE DEF first, l, s
    <3> QED
      BY <3>1, <2>0, <2>4, <2>5, FirstRound
  <2>8. y \in Rec /\ s \in RelRec
    <3>1. y \in Rec
      BY <2>7, Zenon DEF Remains
    <3>2. s \in RelRec
      BY <2>5, Zenon DEF CutAt, Releasable
    <3> QED
      BY <3>1, <3>2
  <2>9. StoredAt(first, t, c, n, y, l, v, z) /\ z.start = Len(c)
    <3>1. Tiled(first, t, c) /\ n \in Starts(t) /\ l \in Nat
      BY <2>4, <1>0
    <3> HIDE DEF first, l, s, y, n
    <3> QED
      BY <3>1, <2>7, <2>8, ReleasesAll
  <2>10. Tiled(FirstWith(first, n, y), Left(t, n, y, Len(c)), SubSeq(c, 1, l))
    <3>1. Tiled(first, t, c) /\ n \in Starts(t) /\ l \in 0..Len(c)
      BY <2>4, <1>0
    <3> HIDE DEF first, l, s, y, n
    <3> QED
      BY <3>1, <2>7, TiledCut
  <2> HIDE DEF z, s, y, n
  <2>11. /\ z \in RelRec /\ z.ok /\ z.first = FirstWith(first, n, y) /\ z.t = Left(t, n, y, Len(c))
         /\ z.vol.vbm = v.vbm \ Cells(c, l, Len(c)) /\ z.vol.free = v.free + (Len(c) - l)
    BY <2>9 DEF StoredAt
  <2>12. RecordsLeft(g, Truncated(g, z).f, z.first, g.rec[g.fork].lg)
    BY <2>1, <2>11, RecTrim
  <2>13. r.ok = z.ok /\ r.t = z.t /\ r.vol = z.vol /\ r.f = Truncated(g, z).f
    BY <2>6 DEF Truncated
  <2> HIDE DEF r, g
  <2>14. /\ r.f \in LooseHandle /\ r.f.fork = k /\ r.f.upd = TRUE
         /\ r.f.rec[k].ext = z.first /\ r.f.rec[k].py = l /\ r.f.rec[k].lg = l
         /\ \A j \in Fork : j # k => r.f.rec[j] = f.rec[j]
    BY <2>1, <2>12, <2>13 DEF RecordsLeft
  <2>15. Tiled(r.f.rec[k].ext, r.t, SubSeq(c, 1, l))
    BY <2>10, <2>11, <2>13, <2>14
  <2>16. r.vol \in [vbm : SUBSET ABN, free : Int]
    BY <2>11, <2>13 DEF RelRec
  <2> QED
    BY <2>11, <2>13, <2>14, <2>15, <2>16 DEF Trimmed, r
<1> QED
  BY <1>1, <1>2

-----------------------------------------------------------------------------
(***************************************************************************)
(* Space on the volume.                                                    *)
(***************************************************************************)
\* The volume's blocks can be counted,
LEMMA BlocksFinite == IsFiniteSet(ABN) /\ Cardinality(ABN) = NBlocks
<1>1. 0 \in Int /\ NBlocks - 1 \in Int /\ NBlocks \in Nat /\ NBlocks # 0
  BY ExtentsAssumption
<1>2. IsFiniteSet(0..NBlocks - 1) /\ Cardinality(0..NBlocks - 1) = IF 0 > NBlocks - 1 THEN 0 ELSE NBlocks - 1 - 0 + 1
  BY ONLY <1>1, FS_Interval
<1>3. ~(0 > NBlocks - 1) /\ NBlocks - 1 - 0 + 1 = NBlocks
  BY <1>1
<1> QED
  BY <1>2, <1>3 DEF ABN

\* and those of a stretch,
LEMMA CellsCount ==
  ASSUME NEW c \in Seq(ABN), Once(c), NEW l \in 0..Len(c)
  PROVE  /\ Cells(c, l, Len(c)) \in SUBSET ABN /\ IsFiniteSet(Cells(c, l, Len(c)))
         /\ Cardinality(Cells(c, l, Len(c))) = Len(c) - l
<1> DEFINE n == Len(c)
           D == l + 1..n
           S == Cells(c, l, n)
           f == [i \in D |-> c[i]]
<1>1. n \in Nat /\ l \in Nat /\ l <= n
  OBVIOUS
<1>2. \A i \in D : c[i] \in ABN /\ i \in 1..n
  <2> TAKE i \in D
  <2>1. i \in 1..Len(c)
    BY <1>1
  <2> QED
    BY <2>1, ElementOfSeq
<1> HIDE DEF n
<1>3. S \in SUBSET ABN
  BY <1>2 DEF Cells
<1>4. IsFiniteSet(D) /\ Cardinality(D) = n - l
  <2>1. l + 1 \in Int /\ n \in Int
    BY <1>1
  <2>2. IsFiniteSet(l + 1..n) /\ Cardinality(l + 1..n) = IF l + 1 > n THEN 0 ELSE n - (l + 1) + 1
    BY ONLY <2>1, FS_Interval
  <2>3. (IF l + 1 > n THEN 0 ELSE n - (l + 1) + 1) = n - l
    BY <1>1
  <2> QED
    BY <2>2, <2>3
<1>5. IsFiniteSet(S)
  BY <1>3, BlocksFinite, FS_Subset
<1>6. f \in [D -> S]
  BY DEF Cells
<1>7. \A i, j \in D : f[i] = f[j] => i = j
  <2>1. \A i, j \in D : c[i] = c[j] => i = j
    BY <1>2 DEF Once, n
  <2> QED
    BY <2>1
<1>8. \A b \in S : \E i \in D : f[i] = b
  <2> TAKE b \in S
  <2>1. PICK i \in D : b = c[i]
    BY DEF Cells
  <2> QED
    BY <2>1
<1> HIDE DEF f, D, S
<1>9. f \in Injection(D, S) /\ f \in Surjection(D, S)
  <2>1. f \in Injection(D, S)
    BY <1>6, <1>7 DEF Injection, IsInjective
  <2>2. f \in Surjection(D, S)
    BY <1>6, <1>8 DEF Surjection
  <2> QED
    BY <2>1, <2>2
<1>10. Cardinality(D) = Cardinality(S)
  BY ONLY <1>5, <1>9, FS_Injection
<1> QED
  BY <1>3, <1>4, <1>5, <1>10 DEF S, n

\* and those of a run.
LEMMA RunCount ==
  ASSUME NEW run \in Runs
  PROVE  Run(run) \in SUBSET ABN /\ IsFiniteSet(Run(run)) /\ Cardinality(Run(run)) = run.len
<1> DEFINE a == run.at
           l == run.len
<1>1. a \in Nat /\ l \in Nat /\ l > 0 /\ a + l <= NBlocks /\ NBlocks \in Nat
  BY RunFields, WidthIsNat
<1>2. Run(run) = a..a + l - 1
  BY DEF Run
<1> HIDE DEF a, l
<1> DEFINE b == a + l - 1
<1>3. a..b \in SUBSET ABN
  BY <1>1 DEF ABN
<1>4. a \in Int /\ b \in Int /\ (IF a > b THEN 0 ELSE b - a + 1) = l
  BY <1>1
<1> HIDE DEF b
<1>5. IsFiniteSet(a..b) /\ Cardinality(a..b) = IF a > b THEN 0 ELSE b - a + 1
  BY ONLY <1>4, FS_Interval
<1> QED
  BY <1>2, <1>3, <1>4, <1>5 DEF l, b

\* the blocks of a fork
Held(c) == Cells(c, 0, Len(c))

\* Held(c) are the elements of c.
LEMMA HeldIs ==
  ASSUME NEW c \in Seq(ABN)
  PROVE  ToSet(c) = Held(c) /\ Held(c) \in SUBSET ABN
<1>1. DOMAIN c = 1..Len(c) /\ 0 + 1 = 1
  OBVIOUS
<1>2. \A i \in 1..Len(c) : c[i] \in ABN
  BY ElementOfSeq
<1> QED
  BY <1>1, <1>2 DEF ToSet, Held, Cells

\* The volume's space when the forks' blocks are C.
Space(C, v, fr, oth) ==
  /\ v \in SUBSET ABN /\ oth \in SUBSET v
  /\ \A b \in ABN : b \in v <=> b \in oth \/ \E k \in Fork : b \in Held(C[k])
  /\ \A k \in Fork : oth \cap Held(C[k]) = {}
  /\ \A j, k \in Fork : j # k => Held(C[j]) \cap Held(C[k]) = {}
  /\ fr = NBlocks - Cardinality(v)

\* A free run becomes the end of a fork.
LEMMA RunHeld ==
  ASSUME NEW c \in Seq(ABN), NEW run \in Runs
  PROVE  /\ c \o RunOf(run) \in Seq(ABN) /\ Held(c \o RunOf(run)) = Held(c) \cup Run(run)
         /\ Once(c) /\ Run(run) \cap Held(c) = {} => Once(c \o RunOf(run))
<1> DEFINE d == c \o RunOf(run)
           n == Len(c)
           a == run.at
           l == run.len
<1>1. Begins(c, d) /\ Len(d) = n + l /\ \A q \in 1..l : d[n + q] = a + q - 1
  BY Longer
<1>2. d \in Seq(ABN) /\ n \in Nat /\ n <= Len(d) /\ \A q \in 1..n : d[q] = c[q]
  BY <1>1 DEF Begins
<1>3. run \in Extent /\ l \in Nat /\ a \in Nat
  BY RunFields
<1> HIDE DEF d
<1>4. Run(run) = Cells(d, n, n + l)
  BY <1>1, <1>2, <1>3, RunCells
<1>5. Held(c) = Cells(d, 0, n)
  <2>1. \A q \in 0 + 1..n : q \in 1..n /\ d[q] = c[q]
    BY <1>2
  <2> HIDE DEF n
  <2> QED
    BY <2>1 DEF Held, Cells, n
<1>6. Held(d) = Held(c) \cup Run(run)
  <2>1. Abut(d, 0, n, n + l)
    <3>1. 0 \in Int /\ n \in Int /\ n + l \in Int /\ 0 <= n /\ n <= n + l
      BY <1>2, <1>3
    <3> HIDE DEF n, l
    <3> QED
      BY <3>1, CellsJoin
  <2>2. Held(d) = Cells(d, 0, n + l)
    BY <1>1 DEF Held
  <2> HIDE DEF n, l
  <2> QED
    BY <2>1, <2>2, <1>4, <1>5 DEF Abut
<1>7. ASSUME Once(c), Run(run) \cap Held(c) = {} PROVE Once(d)
  <2> HIDE DEF n, l, a
  <2>1. ASSUME NEW i \in 1..Len(d), NEW j \in 1..Len(d), d[i] = d[j], i <= n, j > n PROVE FALSE
    <3>1. i \in 0 + 1..n /\ j \in n + 1..n + l
      BY <2>1, <1>1, <1>2, <1>3
    <3>2. d[i] \in Cells(d, 0, n) /\ d[j] \in Cells(d, n, n + l)
      BY <3>1 DEF Cells
    <3> QED
      BY <3>2, <2>1, <1>4, <1>5, <1>7
  <2>2. ASSUME NEW i \in 1..Len(d), NEW j \in 1..Len(d), d[i] = d[j], i <= n, j <= n PROVE i = j
    <3>1. i \in 1..n /\ j \in 1..n
      BY <2>2, <1>2
    <3>2. c[i] = c[j]
      BY <3>1, <2>2, <1>2
    <3> QED
      BY <3>1, <3>2, <1>7 DEF Once, n
  <2>3. ASSUME NEW i \in 1..Len(d), NEW j \in 1..Len(d), d[i] = d[j], i > n, j > n PROVE i = j
    <3>1. i - n \in 1..l /\ j - n \in 1..l /\ n + (i - n) = i /\ n + (j - n) = j
      BY <2>3, <1>1, <1>2, <1>3
    <3>2. d[i] = a + (i - n) - 1 /\ d[j] = a + (j - n) - 1
      <4>1. d[n + (i - n)] = a + (i - n) - 1 /\ d[n + (j - n)] = a + (j - n) - 1
        BY ONLY <3>1, <1>1
      <4> QED
        BY <3>1, <4>1
    <3>3. a + (i - n) - 1 = a + (j - n) - 1
      BY <2>3, <3>2
    <3> QED
      BY <3>3, <1>1, <1>2, <1>3
  <2>4. \A i \in 1..Len(d) : i <= n \/ i > n
    BY <1>1, <1>2, <1>3
  <2>5. ASSUME NEW i \in 1..Len(d), NEW j \in 1..Len(d), d[i] = d[j] PROVE i = j
    BY <2>1, <2>2, <2>3, <2>4, <2>5
  <2> QED
    BY <2>5 DEF Once
<1> QED
  BY <1>2, <1>6, <1>7 DEF d

\* The end of a fork is cut off.
LEMMA CutHeld ==
  ASSUME NEW c \in Seq(ABN), Once(c), NEW l \in 0..Len(c)
  PROVE  /\ SubSeq(c, 1, l) \in Seq(ABN) /\ Once(SubSeq(c, 1, l)) /\ Len(SubSeq(c, 1, l)) = l
         /\ Held(SubSeq(c, 1, l)) = Held(c) \ Cells(c, l, Len(c))
         /\ Cells(c, l, Len(c)) \in SUBSET Held(c)
<1> DEFINE d == SubSeq(c, 1, l)
           n == Len(c)
<1>1. n \in Nat /\ l \in Nat /\ l <= n
  OBVIOUS
<1>2. d \in Seq(ABN) /\ Len(d) = l /\ \A q \in 1..l : d[q] = c[q]
  BY Prefix
<1> HIDE DEF d
<1>3. Once(d)
  <2>1. \A i \in 1..l : i \in 1..Len(c)
    BY <1>1
  <2> QED
    BY <2>1, <1>2 DEF Once
<1>4. Held(d) = Cells(c, 0, l)
  <2>1. \A q \in 0 + 1..l : q \in 1..l
    BY <1>1
  <2>2. \A q \in 0 + 1..l : d[q] = c[q]
    BY <2>1, <1>2
  <2> QED
    BY <2>2, <1>2 DEF Held, Cells
<1>5. Held(c) = Cells(c, 0, l) \cup Cells(c, l, n)
  <2>1. Abut(c, 0, l, n)
    <3>1. 0 \in Int /\ l \in Int /\ n \in Int /\ 0 <= l /\ l <= n
      BY <1>1
    <3> HIDE DEF n
    <3> QED
      BY <3>1, CellsJoin
  <2> QED
    BY <2>1 DEF Abut, Held
<1>6. Cells(c, 0, l) \cap Cells(c, l, n) = {}
  <2>1. ASSUME NEW b \in Cells(c, 0, l), b \in Cells(c, l, n) PROVE FALSE
    <3>1. PICK i \in 0 + 1..l : b = c[i]
      BY DEF Cells
    <3>2. PICK j \in l + 1..n : b = c[j]
      BY <2>1 DEF Cells
    <3>3. i \in 1..Len(c) /\ j \in 1..Len(c) /\ i # j
      BY <1>1
    <3> QED
      BY <3>1, <3>2, <3>3 DEF Once
  <2> QED
    BY <2>1
<1> QED
  BY <1>2, <1>3, <1>4, <1>5, <1>6 DEF d, n

\* The free count is within its bounds.
LEMMA SpaceBounds ==
  ASSUME NEW C, NEW v, NEW fr, NEW oth, Space(C, v, fr, oth)
  PROVE  /\ v \in SUBSET ABN /\ IsFiniteSet(v) /\ Cardinality(v) \in Nat /\ fr \in 0..NBlocks /\ fr \in Int
         /\ fr = NBlocks - Cardinality(v) /\ oth \in SUBSET v
<1>1. v \in SUBSET ABN /\ fr = NBlocks - Cardinality(v) /\ oth \in SUBSET v
  BY DEF Space
<1>2. IsFiniteSet(v) /\ Cardinality(v) <= Cardinality(ABN)
  BY <1>1, BlocksFinite, FS_Subset
<1>3. Cardinality(v) \in Nat
  BY <1>2, FS_CardinalityType
<1> QED
  BY <1>1, <1>2, <1>3, BlocksFinite, WidthIsNat

\* D is C with another sequence of blocks for the fork k
Changed(C, D, k, d) == D[k] = d /\ \A j \in Fork : j # k => D[j] = C[j]

\* A free run becomes part of the fork k.
LEMMA SpaceGrows ==
  ASSUME NEW C, \A j \in Fork : C[j] \in Seq(ABN), NEW k \in Fork, NEW v, NEW fr, NEW oth, Space(C, v, fr, oth),
         NEW run \in Runs, Run(run) \cap v = {}, NEW D, Changed(C, D, k, C[k] \o RunOf(run))
  PROVE  Space(D, v \cup Run(run), fr - run.len, oth) /\ Run(run) \cap Held(C[k]) = {}
<1> DEFINE R == Run(run)
           w == v \cup R
           H == [j \in Fork |-> Held(C[j])]
           G == [j \in Fork |-> Held(D[j])]
<1>1. /\ v \in SUBSET ABN /\ oth \in SUBSET v
      /\ \A b \in ABN : b \in v <=> b \in oth \/ \E j \in Fork : b \in H[j]
      /\ \A j \in Fork : oth \cap H[j] = {}
      /\ \A i, j \in Fork : i # j => H[i] \cap H[j] = {}
  BY DEF Space
<1>2. \A j \in Fork : H[j] \in SUBSET ABN
  BY HeldIs
<1>3. G[k] = H[k] \cup R /\ \A j \in Fork : j # k => G[j] = H[j]
  <2>1. Held(C[k] \o RunOf(run)) = Held(C[k]) \cup Run(run)
    BY RunHeld
  <2> QED
    BY <2>1 DEF Changed
<1>4. R \in SUBSET ABN /\ IsFiniteSet(R) /\ Cardinality(R) = run.len /\ run.len \in Nat
  BY RunCount, RunFields
<1>5. IsFiniteSet(v) /\ Cardinality(v) \in Nat /\ fr = NBlocks - Cardinality(v) /\ fr \in Int /\ NBlocks \in Nat
  BY SpaceBounds, WidthIsNat
<1>6. fr - run.len = NBlocks - Cardinality(w)
  <2>1. Cardinality(v \cup R) = Cardinality(v) + Cardinality(R) - Cardinality(v \cap R)
    BY <1>4, <1>5, FS_Union
  <2>2. v \cap R = {} /\ Cardinality({}) = 0
    BY FS_EmptySet
  <2> DEFINE m == Cardinality(v)
             l == run.len
  <2>3. Cardinality(w) = m + l - 0 /\ m \in Nat /\ l \in Nat /\ fr = NBlocks - m
    BY <2>1, <2>2, <1>4, <1>5
  <2> HIDE DEF m, l
  <2>4. fr - l = NBlocks - Cardinality(w)
    BY <2>3, <1>5
  <2> QED
    BY <2>4 DEF l
<1>7. \A j \in Fork : H[j] \subseteq v
  BY <1>1, <1>2
<1> HIDE DEF H, G, R
<1>8. w \in SUBSET ABN /\ oth \in SUBSET w
  BY <1>1, <1>4
<1>9. \A b \in ABN : b \in w <=> b \in oth \/ \E j \in Fork : b \in G[j]
  BY <1>1, <1>3
<1>10. R \cap v = {}
  BY DEF R
<1>11. \A j \in Fork : oth \cap G[j] = {}
  BY <1>1, <1>3, <1>10
<1>12. \A i, j \in Fork : i # j => G[i] \cap G[j] = {}
  BY <1>1, <1>3, <1>7, <1>10
<1>13. R \cap H[k] = {}
  BY <1>7, <1>10
<1>14. Space(D, w, fr - run.len, oth)
  <2>1. \A b \in ABN : b \in w <=> b \in oth \/ \E j \in Fork : b \in Held(D[j])
    BY <1>9 DEF G
  <2>2. \A j \in Fork : oth \cap Held(D[j]) = {}
    BY <1>11 DEF G
  <2>3. \A i, j \in Fork : i # j => Held(D[i]) \cap Held(D[j]) = {}
    BY <1>12 DEF G
  <2> HIDE DEF w
  <2> QED
    BY <2>1, <2>2, <2>3, <1>6, <1>8 DEF Space
<1> QED
  BY <1>13, <1>14 DEF R, H

\* The end of the fork k becomes free.
LEMMA SpaceShrinks ==
  ASSUME NEW C, \A j \in Fork : C[j] \in Seq(ABN) /\ Once(C[j]), NEW k \in Fork, NEW v, NEW fr, NEW oth,
         Space(C, v, fr, oth), NEW l \in 0..Len(C[k]), NEW D, Changed(C, D, k, SubSeq(C[k], 1, l))
  PROVE  Space(D, v \ Cells(C[k], l, Len(C[k])), fr + (Len(C[k]) - l), oth)
<1> DEFINE R == Cells(C[k], l, Len(C[k]))
           w == v \ R
           m == Len(C[k]) - l
           H == [j \in Fork |-> Held(C[j])]
           G == [j \in Fork |-> Held(D[j])]
<1>1. /\ v \in SUBSET ABN /\ oth \in SUBSET v
      /\ \A b \in ABN : b \in v <=> b \in oth \/ \E j \in Fork : b \in H[j]
      /\ \A j \in Fork : oth \cap H[j] = {}
      /\ \A i, j \in Fork : i # j => H[i] \cap H[j] = {}
  BY DEF Space
<1>2. \A j \in Fork : H[j] \in SUBSET ABN
  BY HeldIs
<1>3. G[k] = H[k] \ R /\ R \in SUBSET H[k] /\ \A j \in Fork : j # k => G[j] = H[j]
  <2>1. C[k] \in Seq(ABN) /\ Once(C[k])
    OBVIOUS
  <2>2. Held(SubSeq(C[k], 1, l)) = Held(C[k]) \ R /\ R \in SUBSET Held(C[k])
    BY <2>1, CutHeld
  <2> HIDE DEF R
  <2> QED
    BY <2>2 DEF Changed
<1>4. R \in SUBSET ABN /\ IsFiniteSet(R) /\ Cardinality(R) = m /\ m \in Nat
  <2>1. C[k] \in Seq(ABN) /\ Once(C[k])
    OBVIOUS
  <2>2. R \in SUBSET ABN /\ IsFiniteSet(R) /\ Cardinality(R) = m
    BY <2>1, CellsCount
  <2>3. Cardinality(R) \in Nat
    BY <2>2, FS_CardinalityType
  <2> QED
    BY <2>2, <2>3
<1>5. IsFiniteSet(v) /\ Cardinality(v) \in Nat /\ fr = NBlocks - Cardinality(v) /\ fr \in Int /\ NBlocks \in Nat
  BY SpaceBounds, WidthIsNat
<1>7. \A j \in Fork : H[j] \subseteq v
  BY <1>1, <1>2
<1> HIDE DEF H, G, R, m
<1>6. fr + m = NBlocks - Cardinality(w)
  <2>1. w \in SUBSET v /\ v = w \cup R /\ w \cap R = {}
    BY <1>3, <1>7
  <2>2. IsFiniteSet(w) /\ Cardinality({}) = 0
    BY <2>1, <1>5, FS_Subset, FS_EmptySet
  <2>3. Cardinality(w) \in Nat
    BY <2>2, FS_CardinalityType
  <2> HIDE DEF w
  <2>4. Cardinality(w \cup R) = Cardinality(w) + Cardinality(R) - Cardinality(w \cap R)
    BY <2>2, <1>4, FS_Union
  <2> DEFINE p == Cardinality(v)
             q == Cardinality(w)
  <2>5. p = q + m - 0 /\ q \in Nat /\ m \in Nat /\ fr = NBlocks - p
    BY <2>1, <2>2, <2>3, <2>4, <1>4, <1>5
  <2> HIDE DEF p, q
  <2>6. fr + m = NBlocks - q
    BY <2>5, <1>5
  <2> QED
    BY <2>6 DEF q
<1>8. oth \cap R = {}
  BY <1>1, <1>3
<1>9. w \in SUBSET ABN /\ oth \in SUBSET w
  BY <1>1, <1>8
<1>10. \A b \in ABN : b \in w <=> b \in oth \/ \E j \in Fork : b \in G[j]
  BY <1>1, <1>3, <1>8
<1>11. \A j \in Fork : oth \cap G[j] = {}
  BY <1>1, <1>3
<1>12. \A i, j \in Fork : i # j => G[i] \cap G[j] = {}
  BY <1>1, <1>3
<1>13. Space(D, w, fr + m, oth)
  <2>1. \A b \in ABN : b \in w <=> b \in oth \/ \E j \in Fork : b \in Held(D[j])
    BY <1>10 DEF G
  <2>2. \A j \in Fork : oth \cap Held(D[j]) = {}
    BY <1>11 DEF G
  <2>3. \A i, j \in Fork : i # j => Held(D[i]) \cap Held(D[j]) = {}
    BY <1>12 DEF G
  <2> HIDE DEF w
  <2> QED
    BY <2>1, <2>2, <2>3, <1>6, <1>9 DEF Space
<1> QED
  BY <1>13 DEF R, m

\* Another file takes a free block, or gives one back.
LEMMA SpaceElsewhere ==
  ASSUME NEW C, NEW v, NEW fr, NEW oth, Space(C, v, fr, oth), NEW b \in ABN
  PROVE  /\ b \notin v /\ (\A k \in Fork : Held(C[k]) \in SUBSET ABN) => Space(C, v \cup {b}, fr - 1, oth \cup {b})
         /\ b \in oth => Space(C, v \ {b}, fr + 1, oth \ {b})
<1>1. /\ v \in SUBSET ABN /\ oth \in SUBSET v
      /\ \A a \in ABN : a \in v <=> a \in oth \/ \E j \in Fork : a \in Held(C[j])
      /\ \A j \in Fork : oth \cap Held(C[j]) = {}
      /\ \A i, j \in Fork : i # j => Held(C[i]) \cap Held(C[j]) = {}
  BY DEF Space
<1>2. IsFiniteSet(v) /\ Cardinality(v) \in Nat /\ fr = NBlocks - Cardinality(v) /\ fr \in Int /\ NBlocks \in Nat
  BY SpaceBounds, WidthIsNat
<1>3. ASSUME b \notin v, \A k \in Fork : Held(C[k]) \in SUBSET ABN PROVE Space(C, v \cup {b}, fr - 1, oth \cup {b})
  <2>1. Cardinality(v \cup {b}) = Cardinality(v) + 1
    BY <1>2, <1>3, FS_AddElement
  <2>2. fr - 1 = NBlocks - Cardinality(v \cup {b})
    BY <2>1, <1>2
  <2>3. \A j \in Fork : b \notin Held(C[j])
    BY <1>1, <1>3
  <2> QED
    BY <2>2, <2>3, <1>1 DEF Space
<1>4. ASSUME b \in oth PROVE Space(C, v \ {b}, fr + 1, oth \ {b})
  <2>0. b \in v
    BY <1>1, <1>4
  <2>1. Cardinality(v \ {b}) = Cardinality(v) - 1
    BY <1>2, <2>0, FS_RemoveElement
  <2>2. fr + 1 = NBlocks - Cardinality(v \ {b})
    BY <2>1, <1>2
  <2>3. \A j \in Fork : b \notin Held(C[j])
    BY <1>1, <1>4
  <2> QED
    BY <2>2, <2>3, <1>1 DEF Space
<1> QED
  BY <1>3, <1>4

-----------------------------------------------------------------------------
(***************************************************************************)
(* The invariant, with the blocks as a parameter.                          *)
(***************************************************************************)
\* The forks described by the catalog record cur and the overflow records tr
\* consist of the blocks C, and the volume's space agrees.
Sound(cur, tr, C, v, fr, oth) ==
  /\ cur \in Forks /\ tr \in [Fork -> Trees] /\ C \in [Fork -> Seq(ABN)]
  /\ \A k \in Fork : ForkSound(cur[k], tr[k], C[k])
  /\ Space(C, v, fr, oth)

\* the file is open
Opened(p) == p \in {"idle", "writing"}

\* what the handle, the stored record and the running write owe to each other
Rest(p, f, st, tr, td, C) ==
  /\ p \in {"absent", "closed", "idle", "writing"} /\ f \in Handle /\ st \in Forks
  /\ td \in [pos : 0..NBlocks, count : 0..MaxWrite]
  /\ Opened(p) => /\ f.upd \/ st = f.rec
                  /\ AtRecord(f, tr[f.fork]) \/ Lost(f, C[f.fork])
  /\ p = "writing" => f.upd /\ td.pos <= f.rec[f.fork].lg /\ td.count # 0
  /\ p = "absent" => st = NewForks

\* all of the invariant
Whole(p, f, st, tr, v, fr, oth, td, C) ==
  /\ Rest(p, f, st, tr, td, C)
  /\ Sound(IF Opened(p) THEN f.rec ELSE st, tr, C, v, fr, oth)

\* the blocks of both forks
Chains == [k \in Fork |-> Chain(k)]

\* The fields of a catalog record.
LEMMA ForkOf ==
  ASSUME NEW cur \in Forks, NEW k \in Fork
  PROVE  cur[k].ext \in Rec /\ cur[k].py \in 0..NBlocks /\ cur[k].lg \in 0..NBlocks
         /\ cur[k].py \in Nat /\ cur[k].lg \in Nat
<1>1. cur[k].ext \in Rec /\ cur[k].py \in 0..NBlocks /\ cur[k].lg \in 0..NBlocks
  BY DEF Forks, Rec
<1> QED
  BY <1>1, WidthIsNat

\* The free count and the bitmap as the invariant states them.
LEMMA SpaceIs ==
  ASSUME NEW C \in [Fork -> Seq(ABN)], NEW v, NEW fr, NEW oth
  PROVE  Space(C, v, fr, oth) <=>
           /\ v = oth \cup ToSet(C["data"]) \cup ToSet(C["rsrc"])
           /\ ToSet(C["data"]) \cap ToSet(C["rsrc"]) = {}
           /\ oth \cap (ToSet(C["data"]) \cup ToSet(C["rsrc"])) = {}
           /\ fr = NBlocks - Cardinality(v)
           /\ v \in SUBSET ABN
<1> DEFINE d == ToSet(C["data"])
           r == ToSet(C["rsrc"])
<1>1. "data" \in Fork /\ "rsrc" \in Fork /\ "data" # "rsrc" /\ \A k \in Fork : k = "data" \/ k = "rsrc"
  BY DEF Fork
<1>2. Held(C["data"]) = d /\ Held(C["rsrc"]) = r /\ d \in SUBSET ABN /\ r \in SUBSET ABN
  <2>1. C["data"] \in Seq(ABN) /\ C["rsrc"] \in Seq(ABN)
    BY <1>1
  <2> QED
    BY <2>1, HeldIs
<1> HIDE DEF d, r
<1>3. ASSUME Space(C, v, fr, oth)
      PROVE  /\ v = oth \cup d \cup r /\ d \cap r = {} /\ oth \cap (d \cup r) = {}
             /\ fr = NBlocks - Cardinality(v) /\ v \in SUBSET ABN
  <2>1. /\ v \in SUBSET ABN /\ oth \in SUBSET v
        /\ \A b \in ABN : b \in v <=> b \in oth \/ \E k \in Fork : b \in Held(C[k])
        /\ \A k \in Fork : oth \cap Held(C[k]) = {}
        /\ \A j, k \in Fork : j # k => Held(C[j]) \cap Held(C[k]) = {}
        /\ fr = NBlocks - Cardinality(v)
    BY <1>3 DEF Space
  <2>2. \A b \in ABN : b \in v <=> b \in oth \/ b \in d \/ b \in r
    BY <2>1, <1>1, <1>2
  <2>3. oth \cap d = {} /\ oth \cap r = {} /\ d \cap r = {}
    BY <2>1, <1>1, <1>2
  <2> QED
    BY <2>1, <2>2, <2>3, <1>2
<1>4. ASSUME v = oth \cup d \cup r, d \cap r = {}, oth \cap (d \cup r) = {},
             fr = NBlocks - Cardinality(v), v \in SUBSET ABN
      PROVE  Space(C, v, fr, oth)
  <2>1. \A k \in Fork : Held(C[k]) = d \/ Held(C[k]) = r
    BY <1>1, <1>2
  <2>2. \A b \in ABN : b \in v <=> b \in oth \/ \E k \in Fork : b \in Held(C[k])
    BY <1>1, <1>2, <1>4
  <2>3. \A k \in Fork : oth \cap Held(C[k]) = {}
    BY <2>1, <1>4
  <2>4. \A j, k \in Fork : j # k => Held(C[j]) \cap Held(C[k]) = {}
    BY <1>1, <1>2, <1>4
  <2> QED
    BY <2>2, <2>3, <2>4, <1>4 DEF Space
<1> QED
  BY <1>3, <1>4 DEF d, r

\* The blocks of a sound file are those that its records give,
LEMMA SoundChains ==
  ASSUME NEW cur, NEW tr, NEW C, NEW v, NEW fr, NEW oth, Sound(cur, tr, C, v, fr, oth), NEW k \in Fork
  PROVE  ChainOf(cur[k].ext, tr[k]) = C[k]
<1>1. Tiled(cur[k].ext, tr[k], C[k]) /\ Once(C[k])
  BY DEF Sound, ForkSound
<1> QED
  BY <1>1, ChainIs

\* before a step and after it.
LEMMA ChainDefNext ==
  ASSUME NEW k \in Fork
  PROVE  Chain(k)' = ChainOf(Current'[k].ext, tree'[k])
BY DEF Chain, ChainOf, ChainStep

\* The type of an open file.
LEMMA HandleIsTyped ==
  Handle = [fork : Fork, ext : [1..Width -> Extent], fabn : 0..NBlocks, rec : Forks, upd : BOOLEAN]
BY DEF Handle, Rec

\* Whole is what the invariant says.
LEMMA WholeIs ==
  ASSUME IInv
  PROVE  Whole(pc, h, stored, tree, vbm, free, others, todo, Chains)
<1>1. /\ TypeOK /\ tree \in [Fork -> Trees]
      /\ \A k \in Fork : ForkSound(Current[k], tree[k], Chain(k))
      /\ SpaceAccounted /\ HandleSound /\ WriteSound
      /\ pc = "absent" => stored = NewForks
  BY DEF IInv
<1>2. /\ pc \in {"absent", "closed", "idle", "writing"} /\ h \in Handle /\ stored \in Forks
      /\ todo \in [pos : 0..NBlocks, count : 0..MaxWrite] /\ vbm \in SUBSET ABN
  BY <1>1 DEF TypeOK, Handle, Rec
<1>3. Current = (IF Opened(pc) THEN h.rec ELSE stored) /\ Current \in Forks
  BY <1>2 DEF Current, Opened, Handle
<1>4. \A k \in Fork : Chains[k] = Chain(k) /\ Chains[k] \in Seq(ABN)
  BY <1>1 DEF Chains, ForkSound, Tiled
<1>5. Chains \in [Fork -> Seq(ABN)]
  BY <1>4 DEF Chains
<1> HIDE DEF Chains
<1>6. Space(Chains, vbm, free, others)
  <2>1. "data" \in Fork /\ "rsrc" \in Fork
    BY DEF Fork
  <2>2. Chains["data"] = Chain("data") /\ Chains["rsrc"] = Chain("rsrc")
    BY <2>1, <1>4
  <2>3. /\ vbm = others \cup ToSet(Chains["data"]) \cup ToSet(Chains["rsrc"])
        /\ ToSet(Chains["data"]) \cap ToSet(Chains["rsrc"]) = {}
        /\ others \cap (ToSet(Chains["data"]) \cup ToSet(Chains["rsrc"])) = {}
        /\ free = NBlocks - Cardinality(vbm)
    BY <2>2, <1>1 DEF SpaceAccounted
  <2> QED
    BY <2>3, <1>2, <1>5, SpaceIs
<1>7. Sound(Current, tree, Chains, vbm, free, others)
  BY <1>1, <1>3, <1>4, <1>5, <1>6 DEF Sound
<1>8. h.fork \in Fork
  BY <1>2 DEF Handle
<1>9. Rest(pc, h, stored, tree, todo, Chains)
  BY <1>1, <1>2, <1>4, <1>8 DEF Rest, Opened, HandleSound, WriteSound
<1> QED
  BY <1>3, <1>7, <1>9 DEF Whole

\* Conversely, it is enough to know some blocks C for which it holds,
LEMMA WholeNow ==
  ASSUME NEW C, Whole(pc, h, stored, tree, vbm, free, others, todo, C)
  PROVE  IInv /\ \A k \in Fork : Chain(k) = C[k]
<1>1. Current = IF Opened(pc) THEN h.rec ELSE stored
  BY DEF Current, Opened
<1>2. Rest(pc, h, stored, tree, todo, C) /\ Sound(Current, tree, C, vbm, free, others)
  BY <1>1 DEF Whole
<1>3. \A k \in Fork : Chain(k) = C[k]
  BY <1>2, ChainDef, SoundChains
<1>4. /\ tree \in [Fork -> Trees] /\ C \in [Fork -> Seq(ABN)]
      /\ \A k \in Fork : ForkSound(Current[k], tree[k], Chain(k))
      /\ Space(C, vbm, free, others)
  BY <1>2, <1>3 DEF Sound
<1>5. /\ pc \in {"absent", "closed", "idle", "writing"} /\ h \in Handle /\ stored \in Forks
      /\ todo \in [pos : 0..NBlocks, count : 0..MaxWrite] /\ h.fork \in Fork
      /\ pc = "absent" => stored = NewForks
  BY <1>2 DEF Rest, Handle
<1>6. vbm \in SUBSET ABN /\ free \in 0..NBlocks /\ others \in SUBSET vbm
  BY <1>4, SpaceBounds
<1>7. TypeOK
  <2>1. \A k \in Fork : /\ DOMAIN tree[k] \subseteq 1..NBlocks
                        /\ \A n \in DOMAIN tree[k] : tree[k][n] \in [1..Width -> Extent]
    BY <1>4, TreeFields DEF Rec
  <2> QED
    BY <2>1, <1>5, <1>6, HandleIsTyped DEF TypeOK
<1>8. SpaceAccounted
  <2>1. "data" \in Fork /\ "rsrc" \in Fork
    BY DEF Fork
  <2>2. /\ vbm = others \cup ToSet(C["data"]) \cup ToSet(C["rsrc"])
        /\ ToSet(C["data"]) \cap ToSet(C["rsrc"]) = {}
        /\ others \cap (ToSet(C["data"]) \cup ToSet(C["rsrc"])) = {}
        /\ free = NBlocks - Cardinality(vbm)
    BY <1>4, SpaceIs
  <2> QED
    BY <2>1, <2>2, <1>3 DEF SpaceAccounted
<1>9. HandleSound /\ WriteSound
  BY <1>2, <1>3, <1>5 DEF Rest, Opened, HandleSound, WriteSound
<1> QED
  BY <1>3, <1>4, <1>5, <1>7, <1>8, <1>9 DEF IInv

\* and so after a step.
LEMMA WholeNext ==
  ASSUME NEW C, Whole(pc', h', stored', tree', vbm', free', others', todo', C)
  PROVE  IInv' /\ \A k \in Fork : Chain(k)' = C[k]
<1>1. Current' = IF Opened(pc') THEN h'.rec ELSE stored'
  BY DEF Current, Opened
<1>2. Rest(pc', h', stored', tree', todo', C) /\ Sound(Current', tree', C, vbm', free', others')
  BY <1>1 DEF Whole
<1>3. \A k \in Fork : Chain(k)' = C[k]
  <2> TAKE k \in Fork
  <2>1. Chain(k)' = ChainOf(Current'[k].ext, tree'[k])
    BY ChainDefNext
  <2>2. ChainOf(Current'[k].ext, tree'[k]) = C[k]
    BY <1>2, SoundChains
  <2> QED
    BY <2>1, <2>2
<1>4. /\ tree' \in [Fork -> Trees] /\ C \in [Fork -> Seq(ABN)]
      /\ \A k \in Fork : ForkSound(Current'[k], tree'[k], Chain(k)')
      /\ Space(C, vbm', free', others')
  BY <1>2, <1>3 DEF Sound
<1>5. /\ pc' \in {"absent", "closed", "idle", "writing"} /\ h' \in Handle /\ stored' \in Forks
      /\ todo' \in [pos : 0..NBlocks, count : 0..MaxWrite] /\ h'.fork \in Fork
      /\ pc' = "absent" => stored' = NewForks
  BY <1>2 DEF Rest, Handle
<1>6. vbm' \in SUBSET ABN /\ free' \in 0..NBlocks /\ others' \in SUBSET vbm'
  BY <1>4, SpaceBounds
<1>7. TypeOK'
  <2>1. \A k \in Fork : /\ DOMAIN (tree'[k]) \subseteq 1..NBlocks
                        /\ \A n \in DOMAIN (tree'[k]) : tree'[k][n] \in [1..Width -> Extent]
    BY <1>4, TreeFields DEF Rec
  <2> QED
    BY <2>1, <1>5, <1>6, HandleIsTyped DEF TypeOK
<1>8. SpaceAccounted'
  <2>1. "data" \in Fork /\ "rsrc" \in Fork
    BY DEF Fork
  <2>2. /\ vbm' = others' \cup ToSet(C["data"]) \cup ToSet(C["rsrc"])
        /\ ToSet(C["data"]) \cap ToSet(C["rsrc"]) = {}
        /\ others' \cap (ToSet(C["data"]) \cup ToSet(C["rsrc"])) = {}
        /\ free' = NBlocks - Cardinality(vbm')
    BY <1>4, SpaceIs
  <2>3. Chain("data")' = C["data"] /\ Chain("rsrc")' = C["rsrc"]
    BY <2>1, <1>3
  <2> QED
    BY <2>2, <2>3 DEF SpaceAccounted
<1>9. HandleSound' /\ WriteSound'
  <2>1. Chain(h.fork)' = C[h'.fork]
    <3>1. Chain(h.fork)' = ChainOf(Current'[h'.fork].ext, tree'[h'.fork])
      BY DEF Chain, ChainOf, ChainStep
    <3>2. ChainOf(Current'[h'.fork].ext, tree'[h'.fork]) = C[h'.fork]
      BY <1>2, <1>5, SoundChains
    <3> QED
      BY <3>1, <3>2
  <2> QED
    BY <2>1, <1>2, <1>5 DEF Rest, Opened, HandleSound, WriteSound, AtRecord, Lost
<1> QED
  BY <1>3, <1>4, <1>5, <1>7, <1>8, <1>9 DEF IInv, ForkSound

-----------------------------------------------------------------------------
(***************************************************************************)
(* Forks that change, one at a time.                                       *)
(***************************************************************************)
\* The scenario: only the insertion of a record may fail, and the numbers of
\* blocks are far below 2^32.
Scenario == Faults \subseteq {"insert"} /\ NBlocks < Wrap

\* the calls of which at most an insertion fails
Lucky(luck) ==
  luck.searches = NBlocks + 2 /\ luck.put = TRUE /\ luck.flush = TRUE /\ luck.insert \in BOOLEAN

\* At most the insertion fails.
LEMMA LuckIs ==
  ASSUME Scenario, NEW luck \in Luck
  PROVE  Lucky(luck)
<1>1. "search" \notin Faults /\ "put" \notin Faults /\ "flush" \notin Faults
  BY DEF Scenario
<1>2. luck = AllWell \/ luck = [AllWell EXCEPT !.insert = FALSE]
  BY <1>1 DEF Luck
<1>3. Lucky(AllWell)
  BY DEF Lucky, AllWell
<1>4. Lucky([AllWell EXCEPT !.insert = FALSE])
  BY DEF Lucky, AllWell
<1> QED
  BY <1>2, <1>3, <1>4

\* s is the catalog record r with another logical length of the fork k
LgSet(r, s, k, l) ==
  /\ s \in Forks /\ s[k].ext = r[k].ext /\ s[k].py = r[k].py /\ s[k].lg = l
  /\ \A j \in Fork : j # k => s[j] = r[j]

\* To set the logical length makes such a record.
LEMMA RecLg ==
  ASSUME NEW r \in Forks, NEW k \in Fork, NEW l \in 0..NBlocks
  PROVE  LgSet(r, [r EXCEPT ![k].lg = l], k, l)
<1> DEFINE s == [r EXCEPT ![k].lg = l]
<1>1. r \in [Fork -> [ext : Rec, py : 0..NBlocks, lg : 0..NBlocks]]
  BY DEF Forks, Rec
<1>2. s \in [Fork -> [ext : Rec, py : 0..NBlocks, lg : 0..NBlocks]]
  BY <1>1
<1>3. s[k].lg = l /\ s[k].ext = r[k].ext /\ s[k].py = r[k].py /\ \A j \in Fork : j # k => s[j] = r[j]
  BY <1>1
<1> HIDE DEF s
<1>4. s \in Forks
  BY <1>2 DEF Forks, Rec
<1>5. LgSet(r, s, k, l)
  BY <1>3, <1>4 DEF LgSet
<1> QED
  BY <1>5 DEF s

\* The logical length may be any up to the physical one.
LEMMA SoundLg ==
  ASSUME NEW cur, NEW tr, NEW C, NEW v, NEW fr, NEW oth, Sound(cur, tr, C, v, fr, oth), NEW k \in Fork,
         NEW s, NEW l \in 0..Len(C[k]), LgSet(cur, s, k, l)
  PROVE  Sound(s, tr, C, v, fr, oth)
<1>1. /\ cur \in Forks /\ tr \in [Fork -> Trees] /\ C \in [Fork -> Seq(ABN)]
      /\ \A j \in Fork : ForkSound(cur[j], tr[j], C[j])
      /\ Space(C, v, fr, oth)
  BY DEF Sound
<1>2. \A j \in Fork : ForkSound(s[j], tr[j], C[j])
  <2> TAKE j \in Fork
  <2>1. CASE j = k
    BY <2>1, <1>1 DEF LgSet, ForkSound
  <2>2. CASE j # k
    BY <2>2, <1>1 DEF LgSet
  <2> QED
    BY <2>1, <2>2
<1> QED
  BY <1>1, <1>2 DEF LgSet, Sound

\* The facts about one fork of a sound file.
LEMMA SoundFork ==
  ASSUME NEW cur, NEW tr, NEW C, NEW v, NEW fr, NEW oth, Sound(cur, tr, C, v, fr, oth), NEW k \in Fork
  PROVE  /\ Tiled(cur[k].ext, tr[k], C[k]) /\ Once(C[k]) /\ C[k] \in Seq(ABN)
         /\ cur[k].py = Len(C[k]) /\ cur[k].lg \in 0..Len(C[k]) /\ cur[k].lg \in Nat
         /\ Len(C[k]) \in Nat /\ Len(C[k]) <= NBlocks /\ cur \in Forks /\ tr[k] \in Trees
<1>1. /\ cur \in Forks /\ tr \in [Fork -> Trees] /\ C \in [Fork -> Seq(ABN)]
      /\ ForkSound(cur[k], tr[k], C[k])
  BY DEF Sound
<1>2. Tiled(cur[k].ext, tr[k], C[k]) /\ Once(C[k]) /\ cur[k].py = Len(C[k]) /\ cur[k].lg \in 0..Len(C[k])
  BY <1>1 DEF ForkSound
<1>3. C[k] \in Seq(ABN) /\ tr[k] \in Trees
  BY <1>1
<1>4. Len(C[k]) \in 0..NBlocks
  BY <1>2, <1>3, OnceFits
<1>5. Len(C[k]) \in Nat /\ Len(C[k]) <= NBlocks
  BY <1>4, WidthIsNat
<1> QED
  BY <1>1, <1>2, <1>3, <1>5

\* A run that is free fits behind a fork.
LEMMA RunFits ==
  ASSUME NEW cur, NEW tr, NEW C, NEW v, NEW fr, NEW oth, Sound(cur, tr, C, v, fr, oth), NEW k \in Fork,
         NEW run \in Runs, Run(run) \cap v = {}
  PROVE  /\ C[k] \o RunOf(run) \in Seq(ABN) /\ Once(C[k] \o RunOf(run))
         /\ Len(C[k] \o RunOf(run)) = Len(C[k]) + run.len /\ Len(C[k]) + run.len <= NBlocks
<1>1. C \in [Fork -> Seq(ABN)] /\ Space(C, v, fr, oth)
  BY DEF Sound
<1>2. Once(C[k]) /\ C[k] \in Seq(ABN)
  BY SoundFork
<1> DEFINE D == [C EXCEPT ![k] = C[k] \o RunOf(run)]
<1>3. Changed(C, D, k, C[k] \o RunOf(run))
  BY <1>1 DEF Changed
<1> HIDE DEF D
<1>4. Run(run) \cap Held(C[k]) = {}
  BY <1>1, <1>3, SpaceGrows
<1>5. C[k] \o RunOf(run) \in Seq(ABN) /\ Once(C[k] \o RunOf(run))
  BY <1>2, <1>4, RunHeld
<1>6. Len(C[k] \o RunOf(run)) = Len(C[k]) + run.len
  BY <1>2, Longer
<1>7. Len(C[k] \o RunOf(run)) \in 0..NBlocks
  BY <1>5, OnceFits
<1>8. Len(C[k] \o RunOf(run)) <= NBlocks
  BY <1>7, WidthIsNat
<1> QED
  BY <1>5, <1>6, <1>8

\* The fork k of the file is described by s[k] and u[k], the other one as before.
OneFork(cur, tr, s, u, k) ==
  /\ s \in Forks /\ u \in [Fork -> Trees]
  /\ \A j \in Fork : j # k => s[j] = cur[j] /\ u[j] = tr[j]

\* A file whose one fork has changed is sound if that fork is.
LEMMA SoundWith ==
  ASSUME NEW cur, NEW tr, NEW C, NEW v, NEW fr, NEW oth, Sound(cur, tr, C, v, fr, oth), NEW k \in Fork,
         NEW s, NEW u, OneFork(cur, tr, s, u, k), NEW d \in Seq(ABN), ForkSound(s[k], u[k], d),
         NEW w, NEW gr, Space([C EXCEPT ![k] = d], w, gr, oth)
  PROVE  Sound(s, u, [C EXCEPT ![k] = d], w, gr, oth)
<1> DEFINE D == [C EXCEPT ![k] = d]
<1>1. /\ C \in [Fork -> Seq(ABN)] /\ \A j \in Fork : ForkSound(cur[j], tr[j], C[j])
  BY DEF Sound
<1>2. D \in [Fork -> Seq(ABN)] /\ D[k] = d /\ \A j \in Fork : j # k => D[j] = C[j]
  BY <1>1
<1> HIDE DEF D
<1>3. \A j \in Fork : ForkSound(s[j], u[j], D[j])
  <2> TAKE j \in Fork
  <2>1. CASE j = k
    BY <2>1, <1>2
  <2>2. CASE j # k
    <3>1. s[j] = cur[j] /\ u[j] = tr[j] /\ D[j] = C[j]
      BY <2>2, <1>2 DEF OneFork
    <3> QED
      BY <3>1, <1>1
  <2> QED
    BY <2>1, <2>2
<1>4. Sound(s, u, D, w, gr, oth)
  BY <1>2, <1>3 DEF OneFork, Sound, D
<1> QED
  BY <1>4 DEF D

\* The fork has grown.
LEMMA SoundGrows ==
  ASSUME NEW cur, NEW tr, NEW C, NEW v, NEW fr, NEW oth, Sound(cur, tr, C, v, fr, oth), NEW k \in Fork,
         NEW run \in Runs, Run(run) \cap v = {},
         NEW s \in Forks, s[k].py = cur[k].py + run.len, s[k].lg = cur[k].lg,
         \A j \in Fork : j # k => s[j] = cur[j],
         NEW t, Tiled(s[k].ext, t, C[k] \o RunOf(run))
  PROVE  Sound(s, [tr EXCEPT ![k] = t], [C EXCEPT ![k] = C[k] \o RunOf(run)],
               v \cup Run(run), fr - run.len, oth)
<1> DEFINE d == C[k] \o RunOf(run)
           u == [tr EXCEPT ![k] = t]
           D == [C EXCEPT ![k] = d]
<1>1. d \in Seq(ABN) /\ Once(d) /\ Len(d) = Len(C[k]) + run.len
  BY RunFits
<1>2. cur[k].py = Len(C[k]) /\ cur[k].lg \in 0..Len(C[k]) /\ Len(C[k]) \in Nat /\ run.len \in Nat
  BY SoundFork, RunFields
<1>3. t \in Trees /\ tr \in [Fork -> Trees] /\ C \in [Fork -> Seq(ABN)] /\ Space(C, v, fr, oth)
  BY DEF Tiled, Sound
<1>4. OneFork(cur, tr, s, u, k) /\ u[k] = t
  BY <1>3 DEF OneFork
<1>5. Changed(C, D, k, d)
  BY <1>3 DEF Changed
<1>6. Space(D, v \cup Run(run), fr - run.len, oth)
  <2> HIDE DEF D
  <2> QED
    BY <1>3, <1>5, SpaceGrows
<1> HIDE DEF d, u
<1>7. ForkSound(s[k], u[k], d)
  <2>1. cur[k].lg \in 0..Len(d)
    <3> DEFINE a == cur[k].lg
               b == Len(C[k])
    <3> HIDE DEF a, b
    <3>1. a \in 0..b /\ b \in Nat /\ Len(d) = b + run.len
      BY <1>1, <1>2 DEF a, b
    <3>2. a \in 0..Len(d)
      BY <3>1, <1>2
    <3> QED
      BY <3>2 DEF a
  <2> QED
    BY <1>1, <1>2, <1>4, <2>1 DEF ForkSound, d
<1>8. Sound(s, u, D, v \cup Run(run), fr - run.len, oth)
  BY <1>1, <1>4, <1>6, <1>7, SoundWith
<1> QED
  BY <1>8 DEF u, d

\* The end of the fork has been given back.
LEMMA SoundTrims ==
  ASSUME Scenario, NEW f \in Handle, NEW tr, NEW C, NEW v, NEW oth, NEW luck, Lucky(luck),
         v \in [vbm : SUBSET ABN, free : Int],
         Sound(f.rec, tr, C, v.vbm, v.free, oth),
         AtRecord(f, tr[f.fork]) \/ Lost(f, C[f.fork]),
         NEW r, r = Trunc(f, tr[f.fork], v, luck)
  PROVE  /\ Trimmed(f, C[f.fork], v, r)
         /\ Sound(r.f.rec, [tr EXCEPT ![f.fork] = r.t],
                  [C EXCEPT ![f.fork] = SubSeq(C[f.fork], 1, f.rec[f.fork].lg)],
                  r.vol.vbm, r.vol.free, oth)
         /\ r.vol \in [vbm : SUBSET ABN, free : Int]
<1> DEFINE k == f.fork
           cur == f.rec
           c == C[k]
           l == cur[k].lg
           d == SubSeq(c, 1, l)
           t == tr[k]
           s == r.f.rec
           u == [tr EXCEPT ![k] = r.t]
           D == [C EXCEPT ![k] = d]
<1>0. k \in Fork
  BY DEF Handle
<1>1. /\ Tiled(cur[k].ext, t, c) /\ Once(c) /\ c \in Seq(ABN)
      /\ cur[k].py = Len(c) /\ l \in 0..Len(c) /\ l \in Nat
      /\ Len(c) \in Nat /\ Len(c) <= NBlocks
  BY <1>0, SoundFork
<1>2. Len(c) < Wrap
  BY <1>1, WidthIsNat DEF Scenario, Wrap
<1>3. luck.searches = NBlocks + 2 /\ luck.put
  BY DEF Lucky
<1>4. Trimmed(f, c, v, r)
  <2> HIDE DEF c, t, k, cur
  <2>1. Tiled(f.rec[f.fork].ext, t, c) /\ f.rec[f.fork].py = Len(c) /\ f.rec[f.fork].lg \in 0..Len(c)
    BY <1>1 DEF k, cur
  <2>2. AtRecord(f, t) \/ Lost(f, c)
    BY DEF t, c, k
  <2>3. r = Trunc(f, t, v, luck)
    BY Zenon DEF t, k
  <2> QED
    BY <2>1, <2>2, <2>3, <1>1, <1>2, <1>3, TruncTrims
<1>5. /\ r.f.fork = k /\ \A j \in Fork : j # k => s[j] = cur[j]
      /\ s[k].py = l /\ s[k].lg = l /\ Tiled(s[k].ext, r.t, d) /\ s \in Forks
      /\ r.vol.vbm = v.vbm \ Cells(c, l, Len(c)) /\ r.vol.free = v.free + (Len(c) - l)
  BY <1>4, Zenon DEF Trimmed, LooseHandle
<1>6. d \in Seq(ABN) /\ Once(d) /\ Len(d) = l
  <2> HIDE DEF c, l
  <2> QED
    BY <1>1, CutHeld, Zenon
<1>7. r.t \in Trees /\ tr \in [Fork -> Trees] /\ C \in [Fork -> Seq(ABN)] /\ Space(C, v.vbm, v.free, oth)
      /\ \A j \in Fork : Once(C[j])
  BY <1>5, Zenon DEF Tiled, Sound, ForkSound
<1>8. OneFork(cur, tr, s, u, k) /\ u[k] = r.t
  BY <1>0, <1>5, <1>7, Zenon DEF OneFork
<1>9. Changed(C, D, k, SubSeq(C[k], 1, l))
  BY <1>0, <1>7, Zenon DEF Changed
<1>10. Space(D, r.vol.vbm, r.vol.free, oth)
  <2>1. Space(D, v.vbm \ Cells(C[k], l, Len(C[k])), v.free + (Len(C[k]) - l), oth)
    <3>1. \A j \in Fork : C[j] \in Seq(ABN) /\ Once(C[j])
      BY <1>7
    <3>2. l \in 0..Len(C[k])
      BY <1>1
    <3> HIDE DEF D, k, l
    <3> QED
      BY <3>1, <3>2, <1>0, <1>7, <1>9, SpaceShrinks
  <2> QED
    BY <2>1, <1>5, Zenon
<1> HIDE DEF d, u, s
<1>11. ForkSound(s[k], u[k], d)
  <2>1. l \in 0..l
    BY <1>1
  <2> HIDE DEF l
  <2> QED
    BY <2>1, <1>5, <1>6, <1>8 DEF ForkSound
<1>12. Sound(s, u, D, r.vol.vbm, r.vol.free, oth)
  <2> HIDE DEF k, cur
  <2>1. Sound(cur, tr, C, v.vbm, v.free, oth)
    BY Zenon DEF cur
  <2> QED
    BY <2>1, <1>0, <1>6, <1>8, <1>10, <1>11, SoundWith
<1>13. r.vol \in [vbm : SUBSET ABN, free : Int]
  BY <1>4, Zenon DEF Trimmed
<1> QED
  BY <1>4, <1>12, <1>13 DEF s, u, d

\* the logical length after block n was written
LgAfter(l, n) == IF n < l THEN l ELSE n + 1

\* A block has been written: the handle, the stored record, the rest of the
\* write and the reply.
BlockWritten(f, t, c, g, st, p, td, rp, pos) ==
  LET l == LgAfter(f.rec[f.fork].lg, pos)
  IN  /\ LgSet(f.rec, g.rec, f.fork, l) /\ l \in 0..Len(c)
      /\ g \in Handle /\ g.fork = f.fork /\ AtRecord(g, t)
      /\ st \in Forks /\ (g.upd \/ st = g.rec)
      /\ p \in {"idle", "writing"} /\ td \in [pos : 0..NBlocks, count : 0..MaxWrite]
      /\ p = "writing" => g.upd /\ td.pos <= l /\ td.count # 0
      /\ rp = [fork |-> f.fork, num |-> pos, abn |-> c[pos + 1]]

\* a handle with another catalog record
HandleSet(g, a, r, b) ==
  /\ a \in Handle /\ a.fork = g.fork /\ a.rec = r /\ a.upd = b /\ a.ext = g.ext /\ a.fabn = g.fabn

\* To set the record makes such a handle.
LEMMA HandleWithRec ==
  ASSUME NEW g \in Handle, NEW r \in Forks, NEW b \in BOOLEAN
  PROVE  HandleSet(g, [g EXCEPT !.rec = r, !.upd = b], r, b)
BY DEF Handle, HandleSet

\* It does not matter to the copy of an extent record how long the file is.
LEMMA AtRecordLg ==
  ASSUME NEW g, NEW a, NEW t, NEW k \in Fork, NEW l, AtRecord(g, t), g.fork = k, a.fork = k, a.ext = g.ext, a.fabn = g.fabn,
         LgSet(g.rec, a.rec, k, l)
  PROVE  AtRecord(a, t)
BY DEF AtRecord, LgSet

\* PutBlock writes the right block, wherever the handle stands.
LEMMA BlockPut ==
  ASSUME NEW f \in Handle, NEW t, NEW c \in Seq(ABN), NEW luck, Lucky(luck),
         Tiled(f.rec[f.fork].ext, t, c), f.rec[f.fork].lg \in 0..Len(c), Len(c) <= NBlocks,
         AtRecord(f, t) \/ Lost(f, c), f.upd = TRUE,
         pc = "writing", h.fork = f.fork, stored \in Forks,
         todo \in [pos : 0..NBlocks, count : 0..MaxWrite], todo.count # 0,
         todo.pos < Len(c), todo.pos <= f.rec[f.fork].lg,
         PutBlock(f, t, luck)
  PROVE  BlockWritten(f, t, c, h', stored', pc', todo', reply', todo.pos)
<1> DEFINE k == f.fork
           n == todo.pos
           lg == f.rec[k].lg
           l == LgAfter(lg, n)
           d == DoBlock(f, t, n, luck)
           g == [d.f EXCEPT !.rec[k].lg = IF n < @ THEN @ ELSE n + 1]
           s == [f.rec EXCEPT ![k].lg = l]
           last == todo.count = 1
<1>0. k \in Fork /\ n \in Nat /\ lg \in Nat /\ lg <= Len(c) /\ Len(c) \in Nat /\ f.rec \in Forks
      /\ todo.count \in 0..MaxWrite /\ MaxWrite \in Nat
  BY WidthIsNat, ExtentsAssumption DEF Handle
<1>1. l \in 0..Len(c) /\ l \in 0..NBlocks /\ n <= l /\ (n + 1 <= l) /\ l \in Nat
  <2> HIDE DEF n, lg
  <2>1. n < Len(c)
    BY DEF n
  <2> QED
    BY <2>1, <1>0, WidthIsNat DEF LgAfter
<1>2. d.abn = c[n + 1] /\ Moved(f, d.f, t)
  <2>1. luck.searches = NBlocks + 2
    BY DEF Lucky
  <2> HIDE DEF n, d
  <2>2. n < Len(c)
    BY DEF n
  <2> QED
    BY <2>1, <2>2, <1>0, DoBlockRight DEF d
<1>3. d.f \in Handle /\ d.f.fork = k /\ d.f.rec = f.rec /\ d.f.upd = TRUE /\ AtRecord(d.f, t)
  BY <1>2 DEF Moved
<1>4. d.abn # NoBlock /\ d.abn = c[n + 1]
  <2>1. n + 1 \in 1..Len(c)
    BY <1>0
  <2>2. c[n + 1] \in ABN
    BY <2>1, ElementOfSeq
  <2>3. \A a \in ABN : a # NoBlock
    BY ExtentsAssumption DEF ABN, NoBlock
  <2> HIDE DEF d, n
  <2> QED
    BY <1>2, <2>2, <2>3
<1>5. /\ Access(n, d)
      /\ IF last THEN pc' = "idle" /\ todo' = NoTodo
         ELSE pc' = pc /\ todo' = [pos |-> n + 1, count |-> todo.count - 1]
      /\ IF last THEN Flush(g, luck) ELSE h' = g /\ UNCHANGED stored
  BY <1>4 DEF PutBlock
<1>6. reply' = [fork |-> k, num |-> n, abn |-> c[n + 1]]
  BY <1>4, <1>5 DEF Access
<1>7. LgSet(f.rec, s, k, l) /\ s \in Forks
  <2>1. LgSet(f.rec, s, k, l)
    <3> HIDE DEF l
    <3> QED
      BY <1>0, <1>1, RecLg
  <2> QED
    BY <2>1 DEF LgSet
<1>8. g = [d.f EXCEPT !.rec = s, !.upd = TRUE]
  <2>1. g = [d.f EXCEPT !.rec = [d.f.rec EXCEPT ![k].lg = IF n < @ THEN @ ELSE n + 1]]
    OBVIOUS
  <2>2. [d.f.rec EXCEPT ![k].lg = IF n < @ THEN @ ELSE n + 1] = s
    <3>1. [f.rec EXCEPT ![k].lg = IF n < @ THEN @ ELSE n + 1] = s
      BY DEF LgAfter
    <3> QED
      BY <3>1, <1>3
  <2> HIDE DEF g, s, d
  <2>3. g = [d.f EXCEPT !.rec = s]
    BY <2>1, <2>2
  <2>4. d.f = [d.f EXCEPT !.upd = TRUE]
    BY <1>3 DEF Handle
  <2> QED
    BY <2>3, <2>4, <1>3 DEF Handle
<1> HIDE DEF g, s, d
<1>9. g \in Handle /\ g.fork = k /\ g.rec = s /\ g.upd = TRUE /\ g.ext = d.f.ext /\ g.fabn = d.f.fabn
  <2>1. HandleSet(d.f, g, s, TRUE)
    BY <1>3, <1>7, <1>8, HandleWithRec
  <2> QED
    BY <2>1, <1>3 DEF HandleSet
<1> DEFINE a == [g EXCEPT !.upd = FALSE]
<1>10. a \in Handle /\ a.fork = k /\ a.rec = s /\ a.upd = FALSE /\ a.ext = d.f.ext /\ a.fabn = d.f.fabn
  BY <1>9 DEF Handle
<1>11. IF last THEN h' = a /\ stored' = s ELSE h' = g /\ stored' = stored
  <2>1. CASE last
    <3>1. Flush(g, luck) /\ luck.flush = TRUE
      BY <2>1, <1>5 DEF Lucky
    <3> QED
      BY <3>1, <2>1, <1>9 DEF Flush, Flushed
  <2>2. CASE ~last
    BY <2>2, <1>5
  <2> QED
    BY <2>1, <2>2
<1> HIDE DEF a
<1>12. h' \in Handle /\ h'.fork = k /\ h'.rec = s /\ h'.ext = d.f.ext /\ h'.fabn = d.f.fabn
       /\ stored' \in Forks /\ (h'.upd \/ stored' = h'.rec) /\ (~last => h'.upd)
  BY <1>7, <1>9, <1>10, <1>11
<1>13. AtRecord(h', t)
  <2>1. LgSet(d.f.rec, h'.rec, k, l)
    BY <1>3, <1>7, <1>12
  <2> HIDE DEF l, k
  <2> QED
    BY <2>1, <1>0, <1>3, <1>12, AtRecordLg
<1>14. pc' \in {"idle", "writing"} /\ todo' \in [pos : 0..NBlocks, count : 0..MaxWrite]
       /\ (pc' = "writing" => ~last /\ todo'.pos <= l /\ todo'.count # 0)
  <2>1. CASE last
    BY <2>1, <1>0, <1>5, WidthIsNat DEF NoTodo
  <2>2. CASE ~last
    <3>1. todo.count - 1 \in 0..MaxWrite /\ todo.count - 1 # 0
      BY <2>2, <1>0
    <3>2. n + 1 \in 0..NBlocks
      BY <1>0, <1>1, WidthIsNat
    <3>3. todo' = [pos |-> n + 1, count |-> todo.count - 1]
      BY <2>2, <1>5
    <3> HIDE DEF l, n
    <3> QED
      BY <2>2, <3>1, <3>2, <3>3, <1>1, <1>5
  <2> QED
    BY <2>1, <2>2
<1>15. LgSet(f.rec, h'.rec, f.fork, l) /\ l \in 0..Len(c)
  BY <1>1, <1>7, <1>12
<1> HIDE DEF l
<1> QED
  BY <1>6, <1>12, <1>13, <1>14, <1>15 DEF BlockWritten, l

-----------------------------------------------------------------------------
(***************************************************************************)
(* Steps of ForkMap.                                                       *)
(***************************************************************************)
\* the forks and their logical lengths stay as they are
SameFile == \A k \in Fork : Chain(k)' = Chain(k) /\ Current'[k].lg = Current[k].lg

\* the logical length of the fork k becomes l, the other one stays
SizeSet(k, l) ==
  Current'[k].lg = l /\ \A j \in Fork : j # k => Current'[j].lg = Current[j].lg

\* the blocks of the fork k become d
BlocksSet(k, d) == Chain(k)' = d /\ \A j \in Fork : j # k => Chain(j)' = Chain(j)

\* Nothing happens in ForkMap.
LEMMA MapSame ==
  ASSUME SameFile
  PROVE  /\ [k \in Fork |-> Chain(k)]' = [k \in Fork |-> Chain(k)]
         /\ [k \in Fork |-> Current[k].lg]' = [k \in Fork |-> Current[k].lg]
BY DEF SameFile

\* A call that reports nothing and changes nothing is a step of ForkMap.
LEMMA MapFailure ==
  ASSUME SameFile, vbm' = vbm, reply' = Quiet
  PROVE  Map!Next
<1>1. Map!Failure
  BY MapSame DEF Map!Failure, Map!Quiet, Quiet
<1> QED
  BY <1>1 DEF Map!Next

\* So is an access to the right block,
LEMMA MapRead ==
  ASSUME SameFile, vbm' = vbm, NEW k \in Fork, NEW num \in 0..Current[k].lg - 1,
         reply' = [fork |-> k, num |-> num, abn |-> Chain(k)[num + 1]]
  PROVE  Map!Next
<1>1. Map!Read(k)
  BY MapSame DEF Map!Read
<1> QED
  BY <1>1 DEF Map!Next

\* a shorter logical length,
LEMMA MapTruncate ==
  ASSUME NEW k \in Fork, NEW len \in 0..Current[k].lg, SizeSet(k, len), \A j \in Fork : Chain(j)' = Chain(j),
         vbm' = vbm, reply' = Quiet
  PROVE  Map!Next
<1>1. [j \in Fork |-> Current[j].lg]' = [[j \in Fork |-> Current[j].lg] EXCEPT ![k] = len]
  BY DEF SizeSet
<1>2. Map!Truncate(k)
  BY <1>1 DEF Map!Truncate, Map!Quiet, Quiet
<1> QED
  BY <1>2 DEF Map!Next

\* and what other files do, in blocks that this file does not have.
LEMMA MapElsewhere ==
  ASSUME SameFile, vbm' \in SUBSET ABN, \A k \in Fork : Chain(k) \in Seq(ABN) /\ Held(Chain(k)) \subseteq vbm', reply' = Quiet
  PROVE  Map!Next
<1>1. UNION {Map!Elems([j \in Fork |-> Chain(j)][k]) : k \in Fork} \subseteq vbm'
  <2>1. \A k \in Fork : Map!Elems(Chain(k)) = Held(Chain(k))
    <3> TAKE k \in Fork
    <3>1. ToSet(Chain(k)) = Held(Chain(k))
      BY HeldIs
    <3> QED
      BY <3>1 DEF Map!Elems, ToSet
  <2> QED
    BY <2>1
<1>2. Map!Elsewhere
  BY <1>1, MapSame DEF Map!Elsewhere, Map!Quiet, Quiet
<1> QED
  BY <1>2 DEF Map!Next

\* ForkMap's elements of a sequence are its blocks.
LEMMA ElemsAre ==
  ASSUME NEW c \in Seq(ABN)
  PROVE  Map!Elems(c) = Held(c)
<1>1. ToSet(c) = Held(c)
  BY HeldIs
<1> QED
  BY <1>1 DEF Map!Elems, ToSet

\* A fork cut at its logical end is a trim,
LEMMA MapTrim ==
  ASSUME NEW k \in Fork, NEW c \in Seq(ABN), Once(c), Chain(k) = c, NEW l \in 0..Len(c), Current[k].lg = l,
         BlocksSet(k, SubSeq(c, 1, l)), \A j \in Fork : Current'[j].lg = Current[j].lg,
         vbm' = vbm \ Cells(c, l, Len(c)), reply' = Quiet
  PROVE  Map!Next
<1> DEFINE old == [j \in Fork |-> Chain(j)][k]
           kept == SubSeq(old, 1, [j \in Fork |-> Current[j].lg][k])
<1>1. old = c /\ kept = SubSeq(c, 1, l)
  OBVIOUS
<1>2. /\ SubSeq(c, 1, l) \in Seq(ABN)
      /\ Held(SubSeq(c, 1, l)) = Held(c) \ Cells(c, l, Len(c)) /\ Cells(c, l, Len(c)) \in SUBSET Held(c)
  BY CutHeld
<1>3. Map!Elems(old) = Held(c) /\ Map!Elems(kept) = Held(SubSeq(c, 1, l))
  BY <1>1, <1>2, ElemsAre
<1> HIDE DEF old, kept
<1>4. vbm' = vbm \ (Map!Elems(old) \ Map!Elems(kept))
  BY <1>2, <1>3
<1>5. [j \in Fork |-> Chain(j)]' = [[j \in Fork |-> Chain(j)] EXCEPT ![k] = kept]
  BY <1>1 DEF BlocksSet
<1>6. [j \in Fork |-> Current[j].lg]' = [j \in Fork |-> Current[j].lg]
  OBVIOUS
<1>7. Map!Trim(k)
  BY <1>4, <1>5, <1>6 DEF Map!Trim, Map!Quiet, Quiet, old, kept
<1> QED
  BY <1>7 DEF Map!Next

\* a file cut to nothing a deletion,
LEMMA MapDelete ==
  ASSUME \A k \in Fork : Chain(k) \in Seq(ABN) /\ Chain(k)' = << >> /\ Current'[k].lg = 0,
         vbm' = (vbm \ Held(Chain("data"))) \ Held(Chain("rsrc")), reply' = Quiet
  PROVE  Map!Next
<1>0. "data" \in Fork /\ "rsrc" \in Fork /\ \A k \in Fork : k = "data" \/ k = "rsrc"
  BY DEF Fork
<1>1. UNION {Map!Elems([j \in Fork |-> Chain(j)][k]) : k \in Fork} = Held(Chain("data")) \cup Held(Chain("rsrc"))
  <2>1. \A k \in Fork : Map!Elems([j \in Fork |-> Chain(j)][k]) = Held(Chain(k))
    <3> TAKE k \in Fork
    <3>1. [j \in Fork |-> Chain(j)][k] = Chain(k) /\ Chain(k) \in Seq(ABN)
      OBVIOUS
    <3> QED
      BY <3>1, ElemsAre
  <2> QED
    BY <2>1, <1>0
<1>2. vbm' = vbm \ UNION {Map!Elems([j \in Fork |-> Chain(j)][k]) : k \in Fork}
  BY <1>1
<1>3. [j \in Fork |-> Chain(j)]' = [j \in Fork |-> << >>]
  OBVIOUS
<1>4. [j \in Fork |-> Current[j].lg]' = [j \in Fork |-> 0]
  OBVIOUS
<1>5. Map!Delete
  BY <1>2, <1>3, <1>4 DEF Map!Delete, Map!Quiet, Quiet
<1> QED
  BY <1>5 DEF Map!Next

\* A tail that is appended and cut off again.
LEMMA TailIs ==
  ASSUME NEW c \in Seq(ABN), NEW e \in Seq(ABN)
  PROVE  SubSeq(c \o e, Len(c) + 1, Len(c \o e)) = e
<1> DEFINE d == c \o e
           n == Len(c)
           m == Len(e)
           a == n + 1
           b == Len(d)
           x == SubSeq(d, a, b)
<1>1. /\ d \in Seq(ABN) /\ Len(d) = n + m
      /\ \A q \in 1..n + m : d[q] = IF q <= n THEN c[q] ELSE e[q - n]
  <2>1. c \o e \in Seq(ABN) /\ Len(c \o e) = Len(c) + Len(e)
        /\ \A q \in 1..Len(c) + Len(e) : (c \o e)[q] = IF q <= Len(c) THEN c[q] ELSE e[q - Len(c)]
    BY ONLY c \in Seq(ABN), e \in Seq(ABN), ConcatProperties
  <2> QED
    BY <2>1
<1>2. n \in Nat /\ m \in Nat
  OBVIOUS
<1>3. \A q \in 1..Len(d) : d[q] \in ABN
  BY <1>1, ElementOfSeq
<1> HIDE DEF d, n, m
<1>4. a \in Int /\ b \in Int /\ b - a + 1 = m /\ (IF a <= b THEN b - a + 1 ELSE 0) = m
      /\ \A q \in a..b : q \in 1..Len(d)
  BY <1>1, <1>2
<1> HIDE DEF a, b
<1>6. \A q \in a..b : d[q] \in ABN
  BY <1>3, <1>4
<1>7. /\ x \in Seq(ABN) /\ Len(x) = (IF a <= b THEN b - a + 1 ELSE 0)
      /\ \A q \in 1..b - a + 1 : x[q] = d[a + q - 1]
  BY ONLY <1>4, <1>6, SubSeqProperties
<1> HIDE DEF x
<1>8. \A q \in 1..m : x[q] = e[q]
  <2> TAKE q \in 1..m
  <2>1. x[q] = d[a + q - 1]
    BY <1>4, <1>7
  <2> DEFINE p == a + q - 1
  <2>2. p \in 1..n + m /\ ~(p <= n) /\ p - n = q
    BY <1>2 DEF a
  <2> HIDE DEF p
  <2>3. d[p] = e[p - n]
    BY <2>2, <1>1
  <2> QED
    BY <2>1, <2>2, <2>3 DEF p
<1>9. Len(x) = Len(e) /\ \A q \in 1..Len(x) : x[q] = e[q]
  BY <1>4, <1>7, <1>8 DEF m
<1>10. x = e
  BY ONLY <1>7, <1>9, e \in Seq(ABN), SeqEqual
<1> QED
  BY <1>10 DEF x, d, n, a, b

\* and an access after free blocks were appended, or none, a write.
LEMMA MapWrite ==
  ASSUME NEW k \in Fork, NEW c \in Seq(ABN), Chain(k) = c, NEW e \in Seq(ABN), BlocksSet(k, c \o e),
         NEW num \in 0..Current[k].lg, num < Len(c \o e), num < Len(c) => e = << >>,
         SizeSet(k, LgAfter(Current[k].lg, num)),
         Held(e) \subseteq ABN \ vbm, vbm' = vbm \cup Held(e),
         reply' = [fork |-> k, num |-> num, abn |-> (c \o e)[num + 1]]
  PROVE  Map!Next
<1> DEFINE old == [j \in Fork |-> Chain(j)][k]
           new == ([j \in Fork |-> Chain(j)]')[k]
           more == SubSeq(new, Len(old) + 1, Len(new))
           size == [j \in Fork |-> Current[j].lg]
<1>1. old = c /\ new = c \o e
  BY DEF BlocksSet
<1>2. more = e
  BY <1>1, TailIs
<1>3. Map!Elems(e) = Held(e)
  BY ElemsAre
<1>4. [j \in Fork |-> Chain(j)]' = [[j \in Fork |-> Chain(j)] EXCEPT ![k] = old \o more]
  <2> HIDE DEF old, more, new
  <2> QED
    BY <1>1, <1>2 DEF BlocksSet
<1>5. size' = [size EXCEPT ![k] = IF num < @ THEN @ ELSE num + 1]
  BY DEF SizeSet, LgAfter
<1>6. Map!Elems(more) \subseteq ABN \ vbm /\ vbm' = vbm \cup Map!Elems(more)
  BY <1>2, <1>3
<1>7. num \in 0..size[k] /\ num < Len(new) /\ (num < Len(old) => more = << >>)
      /\ reply' = [fork |-> k, num |-> num, abn |-> new[num + 1]]
  <2> HIDE DEF new, old, more
  <2> QED
    BY <1>1, <1>2
<1> HIDE DEF new, old, more, size
<1>8. Map!Write(k)
  BY <1>4, <1>5, <1>6, <1>7 DEF Map!Write, new, old, more, size
<1> QED
  BY <1>8 DEF Map!Next

-----------------------------------------------------------------------------
(***************************************************************************)
(* hfs_create, hfs_open, hfs_read.                                         *)
(***************************************************************************)
\* What the invariant says before a step.
LEMMA Known ==
  ASSUME IInv
  PROVE  /\ \A k \in Fork : Chains[k] = Chain(k) /\ Chain(k) \in Seq(ABN)
         /\ Rest(pc, h, stored, tree, todo, Chains)
         /\ Sound(Current, tree, Chains, vbm, free, others)
         /\ Current = (IF Opened(pc) THEN h.rec ELSE stored)
         /\ Chains \in [Fork -> Seq(ABN)]
         /\ Vol \in [vbm : SUBSET ABN, free : Int] /\ Vol.vbm = vbm /\ Vol.free = free
<1>1. Whole(pc, h, stored, tree, vbm, free, others, todo, Chains)
  BY WholeIs
<1>2. Current = IF Opened(pc) THEN h.rec ELSE stored
  BY DEF Current, Opened
<1>3. Rest(pc, h, stored, tree, todo, Chains) /\ Sound(Current, tree, Chains, vbm, free, others)
  BY <1>1, <1>2 DEF Whole
<1>4. Chains \in [Fork -> Seq(ABN)] /\ Space(Chains, vbm, free, others)
  BY <1>3 DEF Sound
<1>5. \A k \in Fork : Chains[k] = Chain(k)
  BY DEF Chains
<1>6. vbm \in SUBSET ABN /\ free \in Int
  BY <1>4, SpaceBounds
<1>7. Vol \in [vbm : SUBSET ABN, free : Int] /\ Vol.vbm = vbm /\ Vol.free = free
  BY <1>6 DEF Vol
<1> HIDE DEF Chains
<1> QED
  BY <1>2, <1>3, <1>4, <1>5, <1>7

\* A step that leaves the file's records and the volume alone.
LEMMA FileKept ==
  ASSUME IInv, Rest(pc', h', stored', tree, todo', Chains),
         tree' = tree, vbm' = vbm, free' = free, others' = others,
         (IF Opened(pc') THEN h'.rec ELSE stored') = Current
  PROVE  IInv' /\ SameFile
<1>1. Whole(pc', h', stored', tree', vbm', free', others', todo', Chains)
  BY Known DEF Whole
<1>2. IInv' /\ \A k \in Fork : Chain(k)' = Chains[k]
  BY <1>1, WholeNext
<1>3. Current' = Current
  BY DEF Current, Opened
<1>4. SameFile
  BY <1>2, <1>3, Known DEF SameFile
<1> QED
  BY <1>2, <1>4

\* the handle with the fork k selected
Selected(f, g, k) ==
  /\ g \in Handle /\ g.fork = k /\ g.rec = f.rec /\ g.upd = f.upd /\ \A t : AtRecord(g, t)

\* f_selectfork makes it.
LEMMA SelectForkOne ==
  ASSUME NEW f \in LooseHandle, NEW k \in Fork
  PROVE  Selected(f, SelectFork(f, k), k)
<1> DEFINE g == SelectFork(f, k)
           x == f.rec[k].ext
<1>1. x \in Rec /\ 0 \in 0..NBlocks
  BY ForkOf, WidthIsNat DEF LooseHandle
<1>2. g = [f EXCEPT !.fork = k, !.ext = x, !.fabn = 0]
  BY DEF SelectFork
<1> HIDE DEF g
<1>3. g \in Handle /\ g.fork = k /\ g.rec = f.rec /\ g.upd = f.upd /\ g.ext = f.rec[k].ext /\ g.fabn = 0
  BY <1>1, <1>2 DEF LooseHandle, Handle
<1>4. \A t : AtRecord(g, t)
  BY <1>3 DEF AtRecord, Starts, RecordAt
<1> QED
  BY <1>3, <1>4 DEF Selected, g

\* Every handle is one.
LEMMA HandleLoose == Handle \subseteq LooseHandle
BY WidthIsNat DEF Handle, LooseHandle

\* The record and the handle of a new file.
LEMMA NewFile ==
  /\ NewForks \in Forks /\ NoFile \in Handle /\ NoFile.fork = "data" /\ NoFile.rec = NewForks /\ NoFile.upd = FALSE
  /\ \A t : AtRecord(NoFile, t)
  /\ \A k \in Fork : NewForks[k].ext = Empty /\ NewForks[k].py = 0 /\ NewForks[k].lg = 0
  /\ Empty \in Rec /\ "data" \in Fork /\ "rsrc" \in Fork
<1>1. "data" \in Fork /\ "rsrc" \in Fork
  BY DEF Fork
<1>2. Empty \in Rec
  <2>1. NoExtent \in Extent
    BY ExtentsAssumption DEF NoExtent, Extent, ABN
  <2> QED
    BY <2>1 DEF Empty, Rec
<1>3. NewForks \in Forks /\ \A k \in Fork : NewForks[k].ext = Empty /\ NewForks[k].py = 0 /\ NewForks[k].lg = 0
  <2>1. 0 \in 0..NBlocks
    BY WidthIsNat
  <2> HIDE DEF Empty
  <2>2. NewForks \in [Fork -> [ext : Rec, py : 0..NBlocks, lg : 0..NBlocks]]
    BY <2>1, <1>2 DEF NewForks
  <2>3. \A k \in Fork : NewForks[k].ext = Empty /\ NewForks[k].py = 0 /\ NewForks[k].lg = 0
    BY DEF NewForks
  <2> QED
    BY <2>2, <2>3 DEF Forks, Rec
<1>4. /\ NoFile.fork = "data" /\ NoFile.rec = NewForks /\ NoFile.upd = FALSE /\ NoFile.ext = Empty /\ NoFile.fabn = 0
  BY DEF NoFile
<1>5. NoFile \in Handle
  <2>1. 0 \in 0..NBlocks
    BY WidthIsNat
  <2> QED
    BY <2>1, <1>1, <1>2, <1>3 DEF NoFile, Handle
<1>6. \A t : AtRecord(NoFile, t)
  BY <1>1, <1>3, <1>4 DEF AtRecord, Starts, RecordAt
<1> QED
  BY <1>1, <1>2, <1>3, <1>4, <1>5, <1>6

\* hfs_create: the file has no blocks yet.
LEMMA CreateKeeps ==
  ASSUME IInv, Create
  PROVE  IInv' /\ Map!Next
<1>1. /\ pc = "absent" /\ pc' = "idle" /\ h' = NoFile /\ stored' = NewForks /\ reply' = Quiet
      /\ tree' = tree /\ vbm' = vbm /\ free' = free /\ others' = others /\ todo' = todo
  BY DEF Create
<1>2. Rest(pc, h, stored, tree, todo, Chains) /\ Current = stored /\ stored = NewForks
  <2>1. Rest(pc, h, stored, tree, todo, Chains) /\ Current = (IF Opened(pc) THEN h.rec ELSE stored)
    BY Known
  <2> QED
    BY <2>1, <1>1 DEF Rest, Opened
<1>3. Rest(pc', h', stored', tree, todo', Chains)
  BY <1>1, <1>2, NewFile DEF Rest, Opened
<1>4. (IF Opened(pc') THEN h'.rec ELSE stored') = Current
  BY <1>1, <1>2, NewFile DEF Opened
<1>5. IInv' /\ SameFile
  BY <1>1, <1>3, <1>4, FileKept
<1> QED
  BY <1>1, <1>5, MapFailure

\* hfs_open begins at the first record of the data fork.
LEMMA OpenKeeps ==
  ASSUME IInv, Open
  PROVE  IInv' /\ Map!Next
<1> DEFINE f == [NoFile EXCEPT !.rec = stored]
<1>1. /\ pc = "closed" /\ pc' = "idle" /\ h' = SelectFork(f, "data") /\ stored' = stored /\ reply' = Quiet
      /\ tree' = tree /\ vbm' = vbm /\ free' = free /\ others' = others /\ todo' = todo
  BY DEF Open
<1>2. Rest(pc, h, stored, tree, todo, Chains) /\ Current = stored /\ stored \in Forks
  <2>1. Rest(pc, h, stored, tree, todo, Chains) /\ Current = (IF Opened(pc) THEN h.rec ELSE stored)
    BY Known
  <2> QED
    BY <2>1, <1>1 DEF Rest, Opened
<1>3. f \in LooseHandle /\ f.rec = stored /\ f.upd = FALSE
  BY <1>2, NewFile, HandleLoose DEF Handle, LooseHandle
<1> HIDE DEF f
<1>4. Selected(f, h', "data")
  BY <1>1, <1>3, NewFile, SelectForkOne
<1>5. h' \in Handle /\ h'.fork = "data" /\ h'.rec = stored /\ h'.upd = FALSE /\ AtRecord(h', tree[h'.fork])
  BY <1>3, <1>4 DEF Selected
<1>6. Rest(pc', h', stored', tree, todo', Chains)
  BY <1>1, <1>2, <1>5 DEF Rest, Opened
<1>7. (IF Opened(pc') THEN h'.rec ELSE stored') = Current
  BY <1>1, <1>2, <1>5 DEF Opened
<1>8. IInv' /\ SameFile
  BY <1>1, <1>6, <1>7, FileKept
<1> QED
  BY <1>1, <1>8, MapFailure

\* An open file.
LEMMA OpenFile ==
  ASSUME IInv, Opened(pc)
  PROVE  /\ h \in Handle /\ stored \in Forks /\ h.fork \in Fork /\ h.rec \in Forks /\ Current = h.rec
         /\ h.upd \/ stored = h.rec
         /\ AtRecord(h, tree[h.fork]) \/ Lost(h, Chains[h.fork])
         /\ todo \in [pos : 0..NBlocks, count : 0..MaxWrite]
         /\ Sound(h.rec, tree, Chains, vbm, free, others)
         /\ pc = "writing" => h.upd = TRUE /\ todo.pos <= h.rec[h.fork].lg /\ todo.count # 0
<1>1. Rest(pc, h, stored, tree, todo, Chains) /\ Current = h.rec /\ Sound(Current, tree, Chains, vbm, free, others)
  BY Known
<1>2. h \in Handle
  BY <1>1 DEF Rest
<1> QED
  BY <1>1, <1>2 DEF Rest, Handle

\* f_doblock finds every block of a sound file.
LEMMA BlockFound ==
  ASSUME NEW f \in Handle, NEW tr, NEW C, NEW v, NEW fr, NEW oth, Sound(f.rec, tr, C, v, fr, oth),
         AtRecord(f, tr[f.fork]) \/ Lost(f, C[f.fork]), NEW luck, luck.searches = NBlocks + 2,
         NEW num \in Nat, num < Len(C[f.fork])
  PROVE  /\ DoBlock(f, tr[f.fork], num, luck).abn = C[f.fork][num + 1]
         /\ DoBlock(f, tr[f.fork], num, luck).abn # NoBlock
         /\ Moved(f, DoBlock(f, tr[f.fork], num, luck).f, tr[f.fork])
<1>1. f.fork \in Fork
  BY DEF Handle
<1>2. /\ Tiled(f.rec[f.fork].ext, tr[f.fork], C[f.fork]) /\ C[f.fork] \in Seq(ABN)
      /\ Len(C[f.fork]) \in Nat /\ Len(C[f.fork]) <= NBlocks
  BY <1>1, SoundFork
<1>3. /\ DoBlock(f, tr[f.fork], num, luck).abn = C[f.fork][num + 1]
      /\ Moved(f, DoBlock(f, tr[f.fork], num, luck).f, tr[f.fork])
  BY <1>2, DoBlockRight
<1>4. C[f.fork][num + 1] # NoBlock
  <2>1. num + 1 \in 1..Len(C[f.fork])
    BY <1>2
  <2>2. C[f.fork][num + 1] \in ABN
    BY <1>2, <2>1, ElementOfSeq
  <2> QED
    BY <2>2, ExtentsAssumption DEF ABN, NoBlock
<1> QED
  BY <1>3, <1>4

\* hfs_read goes to the right block and leaves the handle at its record.
LEMMA ReadKeeps ==
  ASSUME IInv, Scenario, NEW luck \in Luck, NEW num \in 0..h.rec[h.fork].lg - 1, Read(num, luck)
  PROVE  IInv' /\ Map!Next
<1> DEFINE d == DoBlock(h, tree[h.fork], num, luck)
<1>1. /\ pc = "idle" /\ h' = d.f /\ Access(num, d)
      /\ pc' = pc /\ stored' = stored /\ tree' = tree /\ vbm' = vbm /\ free' = free /\ others' = others /\ todo' = todo
  BY DEF Read
<1>2. Opened(pc) /\ Opened(pc')
  BY <1>1 DEF Opened
<1>3. /\ h \in Handle /\ h.fork \in Fork /\ Current = h.rec
      /\ AtRecord(h, tree[h.fork]) \/ Lost(h, Chains[h.fork])
      /\ Sound(h.rec, tree, Chains, vbm, free, others)
  BY <1>2, OpenFile
<1>4. h.rec[h.fork].lg \in 0..Len(Chains[h.fork]) /\ h.rec[h.fork].lg \in Nat /\ Len(Chains[h.fork]) \in Nat
  BY <1>3, SoundFork
<1>5. num \in Nat /\ num < Len(Chains[h.fork])
  <2> DEFINE l == h.rec[h.fork].lg
             n == Len(Chains[h.fork])
  <2>1. l \in 0..n /\ l \in Nat /\ num \in 0..l - 1 /\ n \in Nat
    BY <1>4
  <2> HIDE DEF l, n
  <2>2. num \in Nat /\ num < n
    BY <2>1
  <2> QED
    BY <2>2 DEF n
<1>6. d.abn = Chains[h.fork][num + 1] /\ d.abn # NoBlock /\ Moved(h, d.f, tree[h.fork])
  <2>1. luck.searches = NBlocks + 2
    BY LuckIs DEF Lucky
  <2> QED
    BY <2>1, <1>3, <1>5, BlockFound, Zenon
<1> HIDE DEF d
<1>7. reply' = [fork |-> h.fork, num |-> num, abn |-> Chains[h.fork][num + 1]]
  BY <1>1, <1>6 DEF Access
<1>8. h' \in Handle /\ h'.fork = h.fork /\ h'.rec = h.rec /\ h'.upd = h.upd /\ AtRecord(h', tree[h.fork])
  BY <1>1, <1>6 DEF Moved
<1>9. Rest(pc', h', stored', tree, todo', Chains)
  <2>1. Rest(pc, h, stored, tree, todo, Chains)
    BY Known
  <2> QED
    BY <2>1, <1>1, <1>2, <1>8 DEF Rest
<1>10. (IF Opened(pc') THEN h'.rec ELSE stored') = Current
  BY <1>2, <1>3, <1>8
<1>11. IInv' /\ SameFile
  BY <1>1, <1>9, <1>10, FileKept
<1>12. Chains[h.fork] = Chain(h.fork)
  BY <1>3, Known
<1>13. reply' = [fork |-> h.fork, num |-> num, abn |-> Chain(h.fork)[num + 1]] /\ num \in 0..Current[h.fork].lg - 1
  BY <1>3, <1>7, <1>12
<1> QED
  BY <1>1, <1>3, <1>11, <1>13, MapRead

\* hfs_write begins.
LEMMA WriteKeeps ==
  ASSUME IInv, NEW pos \in 0..h.rec[h.fork].lg, NEW count \in 1..MaxWrite, Write(pos, count)
  PROVE  IInv' /\ Map!Next
<1>1. /\ pc = "idle" /\ pos <= h.rec[h.fork].lg
      /\ pc' = "writing" /\ todo' = [pos |-> pos, count |-> count] /\ h' = [h EXCEPT !.upd = TRUE] /\ reply' = Quiet
      /\ stored' = stored /\ tree' = tree /\ vbm' = vbm /\ free' = free /\ others' = others
  BY DEF Write
<1>2. Opened(pc) /\ Opened(pc')
  BY <1>1 DEF Opened
<1>3. /\ h \in Handle /\ h.fork \in Fork /\ h.rec \in Forks /\ Current = h.rec /\ stored \in Forks
      /\ AtRecord(h, tree[h.fork]) \/ Lost(h, Chains[h.fork])
  BY <1>2, OpenFile
<1>4. h' \in Handle /\ h'.fork = h.fork /\ h'.rec = h.rec /\ h'.upd = TRUE /\ h'.ext = h.ext /\ h'.fabn = h.fabn
  BY <1>1, <1>3 DEF Handle
<1>5. AtRecord(h', tree[h'.fork]) \/ Lost(h', Chains[h'.fork])
  BY <1>3, <1>4 DEF AtRecord, Lost
<1>6. todo' \in [pos : 0..NBlocks, count : 0..MaxWrite] /\ todo'.count # 0 /\ todo'.pos <= h'.rec[h'.fork].lg
  <2>1. h.rec[h.fork].lg \in 0..NBlocks
    BY <1>3, ForkOf
  <2> DEFINE l == h.rec[h.fork].lg
  <2>2. l \in 0..NBlocks /\ pos \in 0..l /\ NBlocks \in Nat /\ MaxWrite \in Nat
    BY <2>1, WidthIsNat, ExtentsAssumption
  <2> HIDE DEF l
  <2>3. pos \in 0..NBlocks /\ count \in 0..MaxWrite /\ count # 0 /\ pos <= l
    BY <2>2
  <2> QED
    BY <2>3, <1>1, <1>4 DEF l
<1>7. Rest(pc', h', stored', tree, todo', Chains)
  BY <1>1, <1>3, <1>4, <1>5, <1>6 DEF Rest
<1>8. (IF Opened(pc') THEN h'.rec ELSE stored') = Current
  BY <1>2, <1>3, <1>4
<1>9. IInv' /\ SameFile
  BY <1>1, <1>7, <1>8, FileKept
<1> QED
  BY <1>1, <1>9, MapFailure

-----------------------------------------------------------------------------
(***************************************************************************)
(* hfs_write.                                                              *)
(***************************************************************************)
\* hfs_write finds no room.
LEMMA WriteNoSpaceKeeps ==
  ASSUME IInv, WriteNoSpace
  PROVE  IInv' /\ Map!Next
<1>1. /\ pc = "writing" /\ pc' = "idle" /\ todo' = NoTodo /\ reply' = Quiet /\ stored' = stored
      /\ h' = h /\ tree' = tree /\ vbm' = vbm /\ free' = free /\ others' = others
  BY DEF WriteNoSpace, GiveUp
<1>2. Opened(pc) /\ Opened(pc')
  BY <1>1 DEF Opened
<1>3. NoTodo \in [pos : 0..NBlocks, count : 0..MaxWrite]
  BY WidthIsNat, ExtentsAssumption DEF NoTodo
<1>4. Rest(pc', h', stored', tree, todo', Chains)
  <2>1. Rest(pc, h, stored, tree, todo, Chains)
    BY Known
  <2> QED
    BY <2>1, <1>1, <1>2, <1>3 DEF Rest
<1>5. (IF Opened(pc') THEN h'.rec ELSE stored') = Current
  BY <1>1, <1>2, OpenFile
<1>6. IInv' /\ SameFile
  BY <1>1, <1>4, <1>5, FileKept
<1> QED
  BY <1>1, <1>6, MapFailure

\* A block of the fork has been written, and nothing but the end of the fork
\* has been added.
LEMMA WroteKeeps ==
  ASSUME IInv, pc = "writing", NEW f \in Handle, f.fork = h.fork,
         \A j \in Fork : f.rec[j].lg = h.rec[j].lg,
         NEW e \in Seq(ABN), NEW D, Changed(Chains, D, h.fork, Chains[h.fork] \o e),
         BlockWritten(f, tree'[h.fork], D[h.fork], h', stored', pc', todo', reply', todo.pos),
         Sound(f.rec, tree', D, vbm', free', others'),
         todo.pos < Len(D[h.fork]), todo.pos < Len(Chains[h.fork]) => e = << >>,
         Held(e) \subseteq ABN \ vbm, vbm' = vbm \cup Held(e)
  PROVE  IInv' /\ Map!Next
<1>0. PICK k \in Fork : k = h.fork
  <2>1. Opened(pc)
    BY DEF Opened
  <2> QED
    BY <2>1, OpenFile
<1> DEFINE l == LgAfter(h.rec[k].lg, todo.pos)
<1>1. Opened(pc) /\ h \in Handle /\ k \in Fork /\ Current = h.rec /\ todo.pos <= h.rec[k].lg
      /\ todo \in [pos : 0..NBlocks, count : 0..MaxWrite] /\ h.rec[k].lg \in Nat
  <2>1. Opened(pc)
    BY DEF Opened
  <2> QED
    BY <1>0, <2>1, OpenFile, ForkOf
<1>2. /\ LgSet(f.rec, h'.rec, k, l) /\ l \in 0..Len(D[k])
      /\ h' \in Handle /\ h'.fork = k /\ AtRecord(h', tree'[k])
      /\ stored' \in Forks /\ (h'.upd \/ stored' = h'.rec)
      /\ pc' \in {"idle", "writing"} /\ todo' \in [pos : 0..NBlocks, count : 0..MaxWrite]
      /\ pc' = "writing" => h'.upd /\ todo'.pos <= l /\ todo'.count # 0
      /\ reply' = [fork |-> k, num |-> todo.pos, abn |-> D[k][todo.pos + 1]]
  <2>1. f.rec[f.fork].lg = h.rec[k].lg
    BY <1>0
  <2> QED
    BY <1>0, <2>1 DEF BlockWritten
<1> HIDE DEF l
<1>3. h'.rec[k].lg = l /\ \A j \in Fork : j # k => h'.rec[j].lg = h.rec[j].lg
  BY <1>2 DEF LgSet
<1>4. Sound(h'.rec, tree', D, vbm', free', others')
  BY <1>0, <1>2, SoundLg
<1>5. Opened(pc')
  BY <1>2 DEF Opened
<1>6. Rest(pc', h', stored', tree', todo', D)
  BY <1>2, <1>3, <1>5 DEF Rest
<1>7. Whole(pc', h', stored', tree', vbm', free', others', todo', D)
  BY <1>4, <1>5, <1>6 DEF Whole
<1>8. IInv' /\ \A j \in Fork : Chain(j)' = D[j]
  BY <1>7, WholeNext
<1>9. Current' = h'.rec
  BY <1>5 DEF Current, Opened
<1>10. Chains[k] = Chain(k) /\ Chain(k) \in Seq(ABN) /\ \A j \in Fork : Chains[j] = Chain(j)
  BY <1>1, Known
<1>11. BlocksSet(k, Chain(k) \o e)
  BY <1>0, <1>8, <1>10 DEF BlocksSet, Changed
<1>12. D[k] = Chain(k) \o e
  BY <1>0, <1>10 DEF Changed
<1>13. SizeSet(k, LgAfter(Current[k].lg, todo.pos))
  BY <1>1, <1>3, <1>9 DEF SizeSet, l
<1>14. todo.pos \in 0..Current[k].lg
  <2> DEFINE m == h.rec[k].lg
  <2>1. todo.pos \in Nat /\ m \in Nat /\ todo.pos <= m
    BY <1>1, WidthIsNat
  <2> HIDE DEF m
  <2>2. todo.pos \in 0..m
    BY <2>1
  <2> QED
    BY <2>2, <1>1 DEF m
<1> DEFINE c == Chain(k)
<1>15. /\ k \in Fork /\ c \in Seq(ABN) /\ Chain(k) = c /\ BlocksSet(k, c \o e) /\ todo.pos < Len(c \o e)
       /\ (todo.pos < Len(c) => e = << >>) /\ reply' = [fork |-> k, num |-> todo.pos, abn |-> (c \o e)[todo.pos + 1]]
  BY <1>0, <1>2, <1>10, <1>11, <1>12
<1> HIDE DEF c
<1>16. Map!Next
  BY <1>13, <1>14, <1>15, MapWrite
<1> QED
  BY <1>8, <1>16

\* hfs_write of a block that is there.
LEMMA WriteInsideKeeps ==
  ASSUME IInv, Scenario, NEW luck \in Luck, WriteInside(luck)
  PROVE  IInv' /\ Map!Next
<1>1. /\ pc = "writing" /\ todo.pos < h.rec[h.fork].py /\ PutBlock(h, tree[h.fork], luck)
      /\ tree' = tree /\ vbm' = vbm /\ free' = free /\ others' = others
  BY DEF WriteInside
<1>2. Opened(pc)
  BY <1>1 DEF Opened
<1>3. /\ h \in Handle /\ h.fork \in Fork /\ stored \in Forks
      /\ AtRecord(h, tree[h.fork]) \/ Lost(h, Chains[h.fork])
      /\ Sound(h.rec, tree, Chains, vbm, free, others)
      /\ h.upd = TRUE /\ todo.pos <= h.rec[h.fork].lg /\ todo.count # 0
      /\ todo \in [pos : 0..NBlocks, count : 0..MaxWrite]
  BY <1>1, <1>2, OpenFile
<1>4. /\ Tiled(h.rec[h.fork].ext, tree[h.fork], Chains[h.fork]) /\ Chains[h.fork] \in Seq(ABN)
      /\ h.rec[h.fork].lg \in 0..Len(Chains[h.fork]) /\ Len(Chains[h.fork]) <= NBlocks
      /\ todo.pos < Len(Chains[h.fork])
  BY <1>1, <1>3, SoundFork
<1>5. BlockWritten(h, tree[h.fork], Chains[h.fork], h', stored', pc', todo', reply', todo.pos)
  <2>1. Lucky(luck)
    BY LuckIs
  <2> QED
    BY <2>1, <1>1, <1>3, <1>4, BlockPut
<1>6. Changed(Chains, Chains, h.fork, Chains[h.fork] \o << >>)
  <2>1. Chains[h.fork] \o << >> = Chains[h.fork]
    BY <1>4
  <2> QED
    BY <2>1, <1>3 DEF Changed
<1>7. << >> \in Seq(ABN) /\ Held(<< >>) = {}
  <2>1. << >> \in Seq(ABN) /\ ToSet(<< >>) = {}
    BY DEF ToSet
  <2> QED
    BY <2>1, HeldIs
<1>8. Held(<< >>) \subseteq ABN \ vbm /\ vbm' = vbm \cup Held(<< >>)
  BY <1>1, <1>7
<1>9. /\ BlockWritten(h, tree'[h.fork], Chains[h.fork], h', stored', pc', todo', reply', todo.pos)
      /\ Sound(h.rec, tree', Chains, vbm', free', others')
  BY <1>1, <1>3, <1>5
<1> QED
  BY <1>1, <1>3, <1>4, <1>6, <1>7, <1>8, <1>9, WroteKeeps

\* What f_addextent does to the open file.
Added(run, luck, a) ==
  \/ Grown(h, tree[h.fork], Chains[h.fork], run, a)
  \/ NotGrown(h, tree[h.fork], Chains[h.fork], a)

\* It adds the run, or leaves the handle without a record.
LEMMA FileAdded ==
  ASSUME IInv, Scenario, NEW luck \in Luck, NEW run \in Runs, Run(run) \cap vbm = {}, Opened(pc)
  PROVE  Added(run, luck, AddExtent(h, tree[h.fork], run, luck))
<1>1. /\ h \in Handle /\ h.fork \in Fork
      /\ AtRecord(h, tree[h.fork]) \/ Lost(h, Chains[h.fork])
      /\ Sound(h.rec, tree, Chains, vbm, free, others)
  BY OpenFile
<1>2. /\ Tiled(h.rec[h.fork].ext, tree[h.fork], Chains[h.fork]) /\ h.rec[h.fork].py = Len(Chains[h.fork])
  BY <1>1, SoundFork
<1>3. Len(Chains[h.fork]) + run.len <= NBlocks
  BY <1>1, RunFits
<1>4. luck.searches = NBlocks + 2 /\ luck.put /\ luck.insert \in BOOLEAN
  BY LuckIs DEF Lucky
<1>5. CASE Lost(h, Chains[h.fork])
  BY <1>1, <1>2, <1>5, AddLost DEF Added
<1>6. CASE AtRecord(h, tree[h.fork])
  BY <1>1, <1>2, <1>3, <1>4, <1>6, AddFound DEF Added
<1> QED
  BY <1>1, <1>5, <1>6

\* The run was added.
LEMMA WriteGrows ==
  ASSUME IInv, Scenario, NEW luck \in Luck, NEW run \in Runs, Run(run) \cap vbm = {},
         pc = "writing", todo.pos >= h.rec[h.fork].py, others' = others,
         NEW a, Grown(h, tree[h.fork], Chains[h.fork], run, a),
         tree' = [tree EXCEPT ![h.fork] = a.t], vbm' = vbm \cup Run(run), free' = free - run.len,
         PutBlock(a.f, a.t, luck)
  PROVE  IInv' /\ Map!Next
<1> DEFINE c == Chains[h.fork]
           D == [Chains EXCEPT ![h.fork] = c \o RunOf(run)]
<1>0. Opened(pc)
  BY DEF Opened
<1>1. /\ h \in Handle /\ h.fork \in Fork /\ stored \in Forks
      /\ Sound(h.rec, tree, Chains, vbm, free, others)
      /\ h.upd = TRUE /\ todo.pos <= h.rec[h.fork].lg /\ todo.count # 0
      /\ todo \in [pos : 0..NBlocks, count : 0..MaxWrite]
  BY <1>0, OpenFile
<1>2. /\ c \in Seq(ABN) /\ h.rec[h.fork].py = Len(c) /\ h.rec[h.fork].lg \in 0..Len(c) /\ Len(c) \in Nat
      /\ h.rec[h.fork].lg \in Nat
  BY <1>1, SoundFork
<1>3. /\ a.f \in Handle /\ a.f.fork = h.fork /\ a.f.upd = TRUE
      /\ a.f.rec[h.fork].py = h.rec[h.fork].py + run.len /\ a.f.rec[h.fork].lg = h.rec[h.fork].lg
      /\ \A k \in Fork : k # h.fork => a.f.rec[k] = h.rec[k]
      /\ Tiled(a.f.rec[h.fork].ext, a.t, c \o RunOf(run)) /\ AtRecord(a.f, a.t) /\ a.f.rec \in Forks
  BY DEF Grown, Handle
<1>4. Chains \in [Fork -> Seq(ABN)] /\ tree \in [Fork -> Trees]
  BY <1>1 DEF Sound
<1> HIDE DEF c
<1>5. /\ c \o RunOf(run) \in Seq(ABN) /\ Len(c \o RunOf(run)) = Len(c) + run.len /\ Len(c) + run.len <= NBlocks
  <2>1. /\ Sound(h.rec, tree, Chains, vbm, free, others) /\ h.fork \in Fork
        /\ run \in Runs /\ Run(run) \cap vbm = {}
    BY <1>1
  <2>2. /\ Chains[h.fork] \o RunOf(run) \in Seq(ABN)
        /\ Len(Chains[h.fork] \o RunOf(run)) = Len(Chains[h.fork]) + run.len
        /\ Len(Chains[h.fork]) + run.len <= NBlocks
    BY ONLY <2>1, RunFits
  <2> QED
    BY <2>2 DEF c
<1>6. Sound(a.f.rec, tree', D, vbm', free', others')
  <2>1. /\ Sound(h.rec, tree, Chains, vbm, free, others) /\ h.fork \in Fork
        /\ run \in Runs /\ Run(run) \cap vbm = {}
        /\ a.f.rec \in Forks /\ a.f.rec[h.fork].py = h.rec[h.fork].py + run.len
        /\ a.f.rec[h.fork].lg = h.rec[h.fork].lg
        /\ \A j \in Fork : j # h.fork => a.f.rec[j] = h.rec[j]
        /\ Tiled(a.f.rec[h.fork].ext, a.t, Chains[h.fork] \o RunOf(run))
    BY <1>1, <1>3 DEF c
  <2>2. Sound(a.f.rec, [tree EXCEPT ![h.fork] = a.t], [Chains EXCEPT ![h.fork] = Chains[h.fork] \o RunOf(run)],
              vbm \cup Run(run), free - run.len, others)
    BY ONLY <2>1, SoundGrows
  <2> QED
    BY <2>2 DEF c
<1>7. D[h.fork] = c \o RunOf(run) /\ Changed(Chains, D, h.fork, Chains[h.fork] \o RunOf(run))
  BY <1>1, <1>4 DEF Changed, c
<1> HIDE DEF D
<1>8. tree'[h.fork] = a.t
  BY <1>1, <1>4
<1>9. /\ run.len \in Nat /\ run.len > 0 /\ todo.pos = Len(c) /\ todo.pos < Len(c \o RunOf(run))
      /\ h.rec[h.fork].lg \in 0..Len(c \o RunOf(run))
  <2>1. run.len \in Nat /\ run.len > 0
    BY RunFields
  <2> DEFINE n == Len(c)
             l == h.rec[h.fork].lg
             py == h.rec[h.fork].py
             r == run.len
             m == Len(c \o RunOf(run))
  <2>2. n \in Nat /\ l \in 0..n /\ py = n /\ m = n + r /\ r \in Nat /\ r > 0 /\ todo.pos >= py /\ todo.pos <= l /\ todo.pos \in Nat
    BY <1>1, <1>2, <1>5, <2>1, WidthIsNat
  <2> HIDE DEF n, l, py, r, m
  <2>3. todo.pos = n /\ todo.pos < m /\ l \in 0..m
    BY <2>2
  <2> QED
    BY <2>1, <2>3 DEF n, m, l
<1>10. BlockWritten(a.f, a.t, c \o RunOf(run), h', stored', pc', todo', reply', todo.pos)
  <2>1. Lucky(luck)
    BY LuckIs
  <2> DEFINE d == c \o RunOf(run)
             f == a.f
  <2>2. /\ f \in Handle /\ d \in Seq(ABN) /\ Tiled(f.rec[f.fork].ext, a.t, d) /\ f.rec[f.fork].lg \in 0..Len(d)
        /\ Len(d) <= NBlocks /\ (AtRecord(f, a.t) \/ Lost(f, d)) /\ f.upd = TRUE /\ h.fork = f.fork
        /\ todo.pos < Len(d) /\ todo.pos <= f.rec[f.fork].lg /\ PutBlock(f, a.t, luck)
    BY <1>1, <1>3, <1>5, <1>9
  <2> HIDE DEF d, f
  <2>3. BlockWritten(f, a.t, d, h', stored', pc', todo', reply', todo.pos)
    BY <2>1, <2>2, <1>1, BlockPut
  <2> QED
    BY <2>3 DEF d, f
<1>11. RunOf(run) \in Seq(ABN) /\ Held(RunOf(run)) = Run(run)
  <2>1. << >> \in Seq(ABN) /\ ToSet(<< >>) = {}
    BY DEF ToSet
  <2>2. Held(<< >>) = {}
    BY <2>1, HeldIs
  <2>3. << >> \o RunOf(run) \in Seq(ABN) /\ Held(<< >> \o RunOf(run)) = Held(<< >>) \cup Run(run)
    BY <2>1, RunHeld
  <2>4. RunOf(run) \in Seq(Int)
    BY RunIsSeq, RunFields
  <2>5. << >> \o RunOf(run) = RunOf(run)
    BY <2>4
  <2> QED
    BY <2>2, <2>3, <2>5
<1>12. Held(RunOf(run)) \subseteq ABN \ vbm /\ vbm' = vbm \cup Held(RunOf(run))
  <2>1. Held(RunOf(run)) \in SUBSET ABN
    BY <1>11, HeldIs
  <2> QED
    BY <2>1, <1>11
<1>13. /\ todo.pos < Len(D[h.fork]) /\ (todo.pos < Len(Chains[h.fork]) => RunOf(run) = << >>)
       /\ BlockWritten(a.f, tree'[h.fork], D[h.fork], h', stored', pc', todo', reply', todo.pos)
       /\ \A j \in Fork : a.f.rec[j].lg = h.rec[j].lg
  <2>1. ~(todo.pos < Len(Chains[h.fork]))
    BY <1>2, <1>9 DEF c
  <2> QED
    BY <2>1, <1>3, <1>7, <1>8, <1>9, <1>10
<1> QED
  BY <1>3, <1>6, <1>7, <1>11, <1>12, <1>13, WroteKeeps

\* The run was not added.
LEMMA WriteFails ==
  ASSUME IInv, pc = "writing",
         NEW a, NEW run, NotGrown(h, tree[h.fork], Chains[h.fork], a), h' = a.f, GiveUp,
         tree' = tree, others' = others, vbm' = Undone(run).vbm, free' = Undone(run).free
  PROVE  IInv' /\ Map!Next
<1>0. Opened(pc)
  BY DEF Opened
<1>1. /\ pc' = "idle" /\ todo' = NoTodo /\ reply' = Quiet /\ stored' = stored /\ vbm' = vbm /\ free' = free
  BY DEF GiveUp, Undone, Vol
<1>2. Opened(pc')
  BY <1>1 DEF Opened
<1>3. NoTodo \in [pos : 0..NBlocks, count : 0..MaxWrite]
  BY WidthIsNat, ExtentsAssumption DEF NoTodo
<1>4. /\ h' \in Handle /\ h'.fork = h.fork /\ h'.rec = h.rec /\ h'.upd = h.upd /\ Lost(h', Chains[h'.fork])
  BY DEF NotGrown
<1>5. Rest(pc', h', stored', tree, todo', Chains)
  <2>1. Rest(pc, h, stored, tree, todo, Chains)
    BY Known
  <2> QED
    BY <2>1, <1>0, <1>1, <1>2, <1>3, <1>4 DEF Rest
<1>6. (IF Opened(pc') THEN h'.rec ELSE stored') = Current
  BY <1>0, <1>2, <1>4, OpenFile
<1>7. IInv' /\ SameFile
  BY <1>1, <1>5, <1>6, FileKept
<1> QED
  BY <1>1, <1>7, MapFailure

\* hfs_write beyond the physical end.
LEMMA WriteBeyondKeeps ==
  ASSUME IInv, Scenario, NEW luck \in Luck, NEW run \in Runs, WriteBeyond(run, luck)
  PROVE  IInv' /\ Map!Next
<1> DEFINE a == AddExtent(h, tree[h.fork], run, luck)
<1>1. /\ pc = "writing" /\ todo.pos >= h.rec[h.fork].py /\ Run(run) \cap vbm = {} /\ others' = others
      /\ IF a.ok
         THEN /\ tree' = [tree EXCEPT ![h.fork] = a.t]
              /\ vbm' = vbm \cup Run(run) /\ free' = free - run.len
              /\ PutBlock(a.f, a.t, luck)
         ELSE /\ h' = a.f /\ GiveUp
              /\ vbm' = Undone(run).vbm /\ free' = Undone(run).free
              /\ tree' = tree
  BY DEF WriteBeyond
<1>2. Added(run, luck, a)
  <2>1. Opened(pc)
    BY <1>1 DEF Opened
  <2> QED
    BY <1>1, <2>1, FileAdded
<1> HIDE DEF a
<1>3. CASE Grown(h, tree[h.fork], Chains[h.fork], run, a)
  <2>1. a.ok
    BY <1>3 DEF Grown
  <2> QED
    BY <2>1, <1>1, <1>3, WriteGrows
<1>4. CASE NotGrown(h, tree[h.fork], Chains[h.fork], a)
  <2>1. ~a.ok
    BY <1>4 DEF NotGrown
  <2> QED
    BY <2>1, <1>1, <1>4, WriteFails
<1> QED
  BY <1>2, <1>3, <1>4 DEF Added

-----------------------------------------------------------------------------
(***************************************************************************)
(* hfs_truncate, hfs_setfork, hfs_close.                                   *)
(***************************************************************************)
\* A handle is flushed.
FlushedTo(f) ==
  h' \in Handle /\ h'.fork = f.fork /\ h'.rec = f.rec /\ h'.ext = f.ext /\ h'.fabn = f.fabn
  /\ stored' = f.rec

\* f_flush stores it.
LEMMA FlushStores ==
  ASSUME NEW f \in Handle, NEW luck, Lucky(luck), f.upd \/ stored = f.rec, Flush(f, luck)
  PROVE  FlushedTo(f)
<1>1. h' = [f EXCEPT !.upd = FALSE] /\ stored' = (IF f.upd THEN f.rec ELSE stored)
  BY DEF Lucky, Flush, Flushed
<1>2. stored' = f.rec
  BY <1>1
<1>3. h' \in Handle /\ h'.fork = f.fork /\ h'.rec = f.rec /\ h'.ext = f.ext /\ h'.fabn = f.fabn
  BY <1>1 DEF Handle
<1> QED
  BY <1>2, <1>3 DEF FlushedTo

\* the handle when hfs_truncate has cut the fork
Shorter(g, len) == IF len < g.rec[g.fork].lg THEN [g EXCEPT !.rec[g.fork].lg = len, !.upd = TRUE] ELSE g

\* f is such a handle
IsShorter(g, f, len) ==
  /\ f \in Handle /\ f.fork = g.fork /\ f.ext = g.ext /\ f.fabn = g.fabn
  /\ LgSet(g.rec, f.rec, g.fork, len)
  /\ f.upd = TRUE \/ (f.rec = g.rec /\ f.upd = g.upd)

\* It is one.
LEMMA ShorterIs ==
  ASSUME NEW g \in Handle, NEW len \in 0..NBlocks, len <= g.rec[g.fork].lg
  PROVE  IsShorter(g, Shorter(g, len), len)
<1>1. g.fork \in Fork /\ g.rec \in Forks /\ g.rec[g.fork].lg \in Nat /\ len \in Nat
  BY ForkOf, WidthIsNat DEF Handle
<1>2. CASE len < g.rec[g.fork].lg
  <2> DEFINE s == [g.rec EXCEPT ![g.fork].lg = len]
  <2>1. LgSet(g.rec, s, g.fork, len)
    BY <1>1, RecLg
  <2>2. s \in Forks
    BY <2>1 DEF LgSet
  <2>3. Shorter(g, len) = [g EXCEPT !.rec = s, !.upd = TRUE]
    BY <1>1, <1>2 DEF Shorter, Handle
  <2> HIDE DEF s
  <2>4. HandleSet(g, [g EXCEPT !.rec = s, !.upd = TRUE], s, TRUE)
    BY <2>2, HandleWithRec
  <2>5. HandleSet(g, Shorter(g, len), s, TRUE)
    BY <2>3, <2>4
  <2> QED
    BY <2>1, <2>5 DEF HandleSet, IsShorter
<1>3. CASE ~(len < g.rec[g.fork].lg)
  <2>1. Shorter(g, len) = g /\ len = g.rec[g.fork].lg
    BY <1>1, <1>3 DEF Shorter
  <2> QED
    BY <2>1, <1>1 DEF IsShorter, LgSet
<1> QED
  BY <1>2, <1>3

\* hfs_truncate sets the logical length; the blocks stay until f_trunc.
LEMMA TruncateKeeps ==
  ASSUME IInv, Scenario, NEW luck \in Luck, NEW len \in 0..h.rec[h.fork].lg, Truncate(len, luck)
  PROVE  IInv' /\ Map!Next
<1> DEFINE f == Shorter(h, len)
<1>1. /\ pc = "idle" /\ len <= h.rec[h.fork].lg /\ Flush(f, luck) /\ reply' = Quiet
      /\ pc' = pc /\ tree' = tree /\ vbm' = vbm /\ free' = free /\ others' = others /\ todo' = todo
  BY DEF Truncate, Shorter
<1>2. Opened(pc) /\ Opened(pc') /\ pc' # "writing" /\ pc' # "absent"
  BY <1>1 DEF Opened
<1>3. PICK k \in Fork : k = h.fork
  BY <1>2, OpenFile
<1>4. /\ h \in Handle /\ Current = h.rec
      /\ h.upd \/ stored = h.rec
      /\ AtRecord(h, tree[k]) \/ Lost(h, Chains[k])
      /\ Sound(h.rec, tree, Chains, vbm, free, others)
      /\ todo \in [pos : 0..NBlocks, count : 0..MaxWrite]
  BY <1>2, <1>3, OpenFile
<1>5. h.rec[k].lg \in 0..Len(Chains[k]) /\ Len(Chains[k]) \in Nat /\ Len(Chains[k]) <= NBlocks
  BY <1>4, SoundFork
<1>6. len \in 0..Len(Chains[k]) /\ len \in 0..NBlocks /\ len \in 0..Current[k].lg
  <2> DEFINE l == h.rec[k].lg
             n == Len(Chains[k])
  <2>1. l \in 0..n /\ n \in Nat /\ n <= NBlocks /\ len \in 0..l
    BY <1>3, <1>5
  <2> HIDE DEF l, n
  <2>2. len \in 0..n /\ len \in 0..NBlocks /\ len \in 0..l
    BY <2>1, WidthIsNat
  <2> QED
    BY <2>2, <1>4 DEF l, n
<1>7. IsShorter(h, f, len)
  BY <1>1, <1>4, <1>6, ShorterIs
<1> HIDE DEF f
<1>8. /\ f \in Handle /\ f.fork = k /\ f.ext = h.ext /\ f.fabn = h.fabn /\ LgSet(h.rec, f.rec, k, len)
      /\ f.upd \/ stored = f.rec
  BY <1>3, <1>4, <1>7 DEF IsShorter
<1>9. h' \in Handle /\ h'.fork = k /\ h'.rec = f.rec /\ h'.ext = h.ext /\ h'.fabn = h.fabn /\ stored' = h'.rec
  <2>1. FlushedTo(f)
    BY <1>1, <1>8, LuckIs, FlushStores
  <2> QED
    BY <2>1, <1>8 DEF FlushedTo
<1>10. Sound(h'.rec, tree, Chains, vbm, free, others)
  BY <1>4, <1>6, <1>8, <1>9, SoundLg
<1>11. AtRecord(h', tree[k]) \/ Lost(h', Chains[k])
  BY <1>3, <1>4, <1>8, <1>9 DEF AtRecord, Lost, LgSet
<1>12. Whole(pc', h', stored', tree', vbm', free', others', todo', Chains)
  <2>1. stored' \in Forks
    BY <1>9 DEF Handle
  <2>2. Rest(pc', h', stored', tree', todo', Chains)
    BY <2>1, <1>1, <1>2, <1>4, <1>9, <1>11 DEF Rest, Opened
  <2> QED
    BY <2>2, <1>1, <1>2, <1>10 DEF Whole
<1>13. IInv' /\ \A j \in Fork : Chain(j)' = Chain(j)
  BY <1>12, WholeNext, Known
<1>14. SizeSet(k, len)
  <2>1. Current' = h'.rec
    BY <1>2, Zenon DEF Current, Opened
  <2> QED
    BY <2>1, <1>4, <1>8, <1>9 DEF SizeSet, LgSet
<1> QED
  BY <1>1, <1>6, <1>13, <1>14, MapTruncate

\* the blocks of the file when the fork k was cut at its logical end
CutChains(k, l) == [Chains EXCEPT ![k] = SubSeq(Chains[k], 1, l)]

\* What f_trunc makes of the open file.
FileTrimmed(k, r) ==
  LET l == h.rec[k].lg
  IN  /\ r.ok /\ r.f \in LooseHandle
      /\ \A j \in Fork : r.f.rec[j].lg = h.rec[j].lg
      /\ r.f.upd \/ stored = r.f.rec
      /\ Sound(r.f.rec, [tree EXCEPT ![k] = r.t], CutChains(k, l), r.vol.vbm, r.vol.free, others)
      /\ r.vol.vbm = vbm \ Cells(Chains[k], l, Len(Chains[k]))

\* It gives back what is past the logical end.
LEMMA OpenTrimmed ==
  ASSUME IInv, Scenario, NEW luck \in Luck, pc = "idle", NEW k \in Fork, k = h.fork,
         NEW r, r = Trunc(h, tree[h.fork], Vol, luck)
  PROVE  FileTrimmed(k, r)
<1>1. Opened(pc)
  BY DEF Opened
<1>2. /\ h \in Handle
      /\ h.upd \/ stored = h.rec
      /\ AtRecord(h, tree[h.fork]) \/ Lost(h, Chains[h.fork])
      /\ Sound(h.rec, tree, Chains, Vol.vbm, Vol.free, others)
  BY <1>1, OpenFile, Known
<1>3. Lucky(luck) /\ Vol \in [vbm : SUBSET ABN, free : Int]
  BY LuckIs, Known
<1>4. /\ Trimmed(h, Chains[h.fork], Vol, r)
      /\ Sound(r.f.rec, [tree EXCEPT ![h.fork] = r.t],
               [Chains EXCEPT ![h.fork] = SubSeq(Chains[h.fork], 1, h.rec[h.fork].lg)],
               r.vol.vbm, r.vol.free, others)
  BY <1>2, <1>3, SoundTrims, Zenon
<1>5. /\ r.ok /\ r.f \in LooseHandle /\ \A j \in Fork : j # h.fork => r.f.rec[j] = h.rec[j]
      /\ r.f.rec[h.fork].lg = h.rec[h.fork].lg
      /\ r.f.upd \/ (r.f.rec = h.rec /\ r.f.upd = h.upd)
      /\ r.vol.vbm = Vol.vbm \ Cells(Chains[h.fork], h.rec[h.fork].lg, Len(Chains[h.fork]))
  BY <1>4 DEF Trimmed
<1>6. r.f.upd \/ stored = r.f.rec
  BY <1>2, <1>5
<1>7. \A j \in Fork : r.f.rec[j].lg = h.rec[j].lg
  BY <1>5, Zenon
<1>8. r.vol.vbm = vbm \ Cells(Chains[k], h.rec[k].lg, Len(Chains[k]))
  BY <1>5, Known
<1> QED
  BY <1>4, <1>5, <1>6, <1>7, <1>8, Zenon DEF FileTrimmed, CutChains

\* A call that ends with f_trunc and goes on with the file it has left.
LEMMA TrimmedKeeps ==
  ASSUME IInv, pc = "idle", NEW k \in Fork, k = h.fork, NEW r, FileTrimmed(k, r),
         tree' = [tree EXCEPT ![k] = r.t], vbm' = r.vol.vbm, free' = r.vol.free, others' = others, reply' = Quiet,
         Rest(pc', h', stored', tree', todo', CutChains(k, h.rec[k].lg)),
         (IF Opened(pc') THEN h'.rec ELSE stored') = r.f.rec
  PROVE  IInv' /\ Map!Next
<1> DEFINE l == h.rec[k].lg
           D == CutChains(k, l)
           c == Chain(k)
<1>1. Opened(pc)
  BY DEF Opened
<1>2. h \in Handle /\ Current = h.rec /\ Sound(h.rec, tree, Chains, vbm, free, others)
  BY <1>1, OpenFile
<1>3. l \in 0..Len(Chains[k]) /\ Once(Chains[k])
  BY <1>2, SoundFork
<1>4. /\ c \in Seq(ABN) /\ Chains[k] = c /\ Chains \in [Fork -> Seq(ABN)]
      /\ \A j \in Fork : Chains[j] = Chain(j)
  BY Known
<1>5. /\ \A j \in Fork : r.f.rec[j].lg = h.rec[j].lg
      /\ Sound(r.f.rec, [tree EXCEPT ![k] = r.t], D, r.vol.vbm, r.vol.free, others)
      /\ r.vol.vbm = vbm \ Cells(Chains[k], l, Len(Chains[k]))
  BY DEF FileTrimmed
<1>6. D[k] = SubSeq(c, 1, l) /\ \A j \in Fork : j # k => D[j] = Chain(j)
  <2> HIDE DEF c, l
  <2> QED
    BY <1>4 DEF CutChains
<1> HIDE DEF D
<1>7. Whole(pc', h', stored', tree', vbm', free', others', todo', D)
  BY <1>5 DEF Whole, D
<1>8. IInv' /\ \A j \in Fork : Chain(j)' = D[j]
  BY <1>7, WholeNext
<1>9. Current' = r.f.rec
  BY DEF Current, Opened
<1>10. BlocksSet(k, SubSeq(c, 1, l))
  BY <1>6, <1>8 DEF BlocksSet
<1>11. \A j \in Fork : Current'[j].lg = Current[j].lg
  BY <1>2, <1>5, <1>9
<1>12. /\ c \in Seq(ABN) /\ Once(c) /\ Chain(k) = c /\ l \in 0..Len(c) /\ Current[k].lg = l
       /\ vbm' = vbm \ Cells(c, l, Len(c))
  BY <1>2, <1>3, <1>4, <1>5
<1> HIDE DEF c, l
<1>13. Map!Next
  BY <1>10, <1>11, <1>12, MapTrim
<1> QED
  BY <1>8, <1>13

\* hfs_setfork selects the other fork of it,
LEMMA SetForkKeeps ==
  ASSUME IInv, Scenario, NEW luck \in Luck, NEW j \in Fork, SetFork(j, luck)
  PROVE  IInv' /\ Map!Next
<1> DEFINE r == Trunc(h, tree[h.fork], Vol, luck)
<1>1. /\ pc = "idle" /\ h' = SelectFork(r.f, j) /\ tree' = [tree EXCEPT ![h.fork] = r.t]
      /\ vbm' = r.vol.vbm /\ free' = r.vol.free /\ reply' = Quiet
      /\ pc' = pc /\ stored' = stored /\ others' = others /\ todo' = todo
  BY DEF SetFork
<1>2. Opened(pc) /\ Opened(pc')
  BY <1>1 DEF Opened
<1>3. PICK k \in Fork : k = h.fork
  BY <1>2, OpenFile
<1>4. FileTrimmed(k, r)
  BY <1>1, <1>3, OpenTrimmed
<1> HIDE DEF r
<1>5. r.f \in LooseHandle /\ (r.f.upd \/ stored = r.f.rec)
  BY <1>4 DEF FileTrimmed
<1>6. Selected(r.f, h', j)
  BY <1>1, <1>5, SelectForkOne
<1>7. h' \in Handle /\ h'.rec = r.f.rec /\ (h'.upd \/ stored' = h'.rec) /\ AtRecord(h', tree'[h'.fork])
  BY <1>1, <1>5, <1>6 DEF Selected
<1>8. Rest(pc', h', stored', tree', todo', CutChains(k, h.rec[k].lg))
  <2>1. stored \in Forks /\ todo \in [pos : 0..NBlocks, count : 0..MaxWrite]
    BY <1>2, OpenFile
  <2> QED
    BY <2>1, <1>1, <1>7 DEF Rest
<1>9. (IF Opened(pc') THEN h'.rec ELSE stored') = r.f.rec
  BY <1>2, <1>7
<1> QED
  BY <1>1, <1>3, <1>4, <1>8, <1>9, TrimmedKeeps

\* and hfs_close stores it.
LEMMA CloseKeeps ==
  ASSUME IInv, Scenario, NEW luck \in Luck, Close(luck)
  PROVE  IInv' /\ Map!Next
<1> DEFINE r == Trunc(h, tree[h.fork], Vol, luck)
<1>1. /\ pc = "idle" /\ pc' = "closed" /\ tree' = [tree EXCEPT ![h.fork] = r.t]
      /\ stored' = (IF r.ok THEN Flushed(r.f, luck) ELSE stored)
      /\ vbm' = r.vol.vbm /\ free' = r.vol.free /\ h' = NoFile /\ reply' = Quiet
      /\ others' = others /\ todo' = todo
  BY DEF Close
<1>2. Opened(pc) /\ ~Opened(pc')
  BY <1>1 DEF Opened
<1>3. PICK k \in Fork : k = h.fork
  BY <1>2, OpenFile
<1>4. FileTrimmed(k, r)
  BY <1>1, <1>3, OpenTrimmed
<1> HIDE DEF r
<1>5. r.ok /\ r.f \in LooseHandle /\ (r.f.upd \/ stored = r.f.rec)
  BY <1>4 DEF FileTrimmed
<1>6. stored' = r.f.rec
  <2>1. luck.flush = TRUE
    BY LuckIs DEF Lucky
  <2> QED
    BY <2>1, <1>1, <1>5 DEF Flushed
<1>7. Rest(pc', h', stored', tree', todo', CutChains(k, h.rec[k].lg))
  <2>1. todo \in [pos : 0..NBlocks, count : 0..MaxWrite]
    BY <1>2, OpenFile
  <2>2. r.f.rec \in Forks
    BY <1>5 DEF LooseHandle
  <2> QED
    BY <2>1, <2>2, <1>1, <1>2, <1>6, NewFile DEF Rest
<1>8. (IF Opened(pc') THEN h'.rec ELSE stored') = r.f.rec
  BY <1>2, <1>6
<1> QED
  BY <1>1, <1>3, <1>4, <1>7, <1>8, TrimmedKeeps

-----------------------------------------------------------------------------
(***************************************************************************)
(* hfs_delete.                                                             *)
(***************************************************************************)
\* A fork without blocks has no overflow records, and what is left of its
\* first record does not matter.
LEMMA EmptyTiled ==
  ASSUME NEW t \in Trees, DOMAIN t = {}
  PROVE  Tiled(Empty, t, << >>)
<1>1. Empty \in Rec /\ \A i \in 1..Width : Empty[i].len = 0
  BY NewFile DEF Empty, NoExtent
<1>2. Total(Empty, 0) = 0
  <2>1. \A i \in 0 + 1..Width : Empty[i].len = 0
    BY <1>1
  <2>2. \A i \in 0..Width : Ends(Empty, 0)[i] = Ends(Empty, 0)[0]
    BY <1>1, <2>1, WidthIsNat, EndsFlat
  <2>3. Ends(Empty, 0)[0] = 0
    BY <1>1, EndsTyped
  <2> QED
    BY <2>2, <2>3, WidthIsNat DEF Total
<1>3. Len(<< >>) = 0 /\ << >> \in Seq(ABN)
  OBVIOUS
<1>4. Matches(Empty, 0, << >>)
  <2>1. \A i \in 1..Width : 1..Empty[i].len = {}
    BY <1>1
  <2> QED
    BY <2>1, <1>2, <1>3 DEF Matches
<1>5. Fits(Empty, 0, t, << >>)
  BY <1>1, <1>2, <1>3, <1>4 DEF Fits, Shaped
<1>6. Starts(t) = {0} /\ RecordAt(Empty, t, 0) = Empty
  BY DEF Starts, RecordAt
<1> QED
  BY <1>3, <1>5, <1>6 DEF Tiled

\* A new file's forks.
LEMMA EmptyFork ==
  ASSUME NEW t \in Trees, DOMAIN t = {}, NEW k \in Fork
  PROVE  ForkSound(NewForks[k], t, << >>)
<1>1. NewForks[k].ext = Empty /\ NewForks[k].py = 0 /\ NewForks[k].lg = 0
  BY NewFile
<1>2. Len(<< >>) = 0 /\ Once(<< >>)
  BY DEF Once
<1> QED
  BY <1>1, <1>2, EmptyTiled DEF ForkSound

\* A fork of logical length 0 is truncated.
Emptied(cur, tr, C, v, oth, k, r) ==
  /\ r.ok /\ r.f \in LooseHandle /\ \A j \in Fork : j # k => r.f.rec[j] = cur[j]
  /\ Sound(r.f.rec, [tr EXCEPT ![k] = r.t], [C EXCEPT ![k] = << >>], r.vol.vbm, r.vol.free, oth)
  /\ r.vol \in [vbm : SUBSET ABN, free : Int] /\ r.vol.vbm = v.vbm \ Held(C[k])

\* f_trunc gives back all of its blocks.
LEMMA ForkEmptied ==
  ASSUME Scenario, NEW f \in Handle, NEW tr, NEW C, NEW v, NEW oth, NEW luck, Lucky(luck),
         v \in [vbm : SUBSET ABN, free : Int],
         Sound(f.rec, tr, C, v.vbm, v.free, oth), AtRecord(f, tr[f.fork]),
         NEW k, k = f.fork, f.rec[k].lg = 0, NEW r, r = Trunc(f, tr[k], v, luck)
  PROVE  Emptied(f.rec, tr, C, v, oth, k, r)
<1>0. k \in Fork
  BY DEF Handle
<1>1. /\ Trimmed(f, C[f.fork], v, r)
      /\ Sound(r.f.rec, [tr EXCEPT ![f.fork] = r.t],
               [C EXCEPT ![f.fork] = SubSeq(C[f.fork], 1, f.rec[f.fork].lg)],
               r.vol.vbm, r.vol.free, oth)
      /\ r.vol \in [vbm : SUBSET ABN, free : Int]
  BY SoundTrims, Zenon
<1>2. /\ r.ok /\ r.f \in LooseHandle /\ \A j \in Fork : j # f.fork => r.f.rec[j] = f.rec[j]
      /\ r.vol.vbm = v.vbm \ Cells(C[f.fork], f.rec[f.fork].lg, Len(C[f.fork]))
  BY <1>1, Zenon DEF Trimmed
<1>3. SubSeq(C[k], 1, 0) = << >>
  BY SubSeqEmpty
<1>4. Sound(r.f.rec, [tr EXCEPT ![k] = r.t], [C EXCEPT ![k] = << >>], r.vol.vbm, r.vol.free, oth)
  <2>1. SubSeq(C[f.fork], 1, f.rec[f.fork].lg) = << >>
    BY <1>3
  <2> QED
    BY <2>1, <1>1
<1>5. r.vol.vbm = v.vbm \ Held(C[k])
  BY <1>2 DEF Held
<1> QED
  BY <1>1, <1>2, <1>4, <1>5, Zenon DEF Emptied

\* A catalog record for which all blocks are past the logical end.
LEMMA NothingKept ==
  ASSUME NEW cur, NEW tr, NEW C, NEW v, NEW fr, NEW oth, Sound(cur, tr, C, v, fr, oth)
  PROVE  Sound([k \in Fork |-> [cur[k] EXCEPT !.lg = 0]], tr, C, v, fr, oth)
<1> DEFINE s == [k \in Fork |-> [cur[k] EXCEPT !.lg = 0]]
<1>1. /\ cur \in Forks /\ tr \in [Fork -> Trees] /\ C \in [Fork -> Seq(ABN)]
      /\ \A k \in Fork : ForkSound(cur[k], tr[k], C[k])
      /\ Space(C, v, fr, oth)
  BY DEF Sound
<1>2. s \in Forks /\ \A k \in Fork : s[k].ext = cur[k].ext /\ s[k].py = cur[k].py /\ s[k].lg = 0
  <2> DEFINE F == [ext : Rec, py : 0..NBlocks, lg : 0..NBlocks]
  <2>1. Forks = [Fork -> F] /\ 0 \in 0..NBlocks
    BY WidthIsNat DEF Forks, Rec
  <2>2. ASSUME NEW k \in Fork
        PROVE  s[k] \in F /\ s[k].ext = cur[k].ext /\ s[k].py = cur[k].py /\ s[k].lg = 0
    <3>1. cur[k] \in F
      BY <1>1, <2>1
    <3>2. s[k] = [cur[k] EXCEPT !.lg = 0]
      OBVIOUS
    <3> HIDE DEF s
    <3> QED
      BY <3>1, <3>2, <2>1
  <2> HIDE DEF F
  <2>3. s \in [Fork -> F]
    BY <2>2
  <2> HIDE DEF s
  <2> QED
    BY <2>1, <2>2, <2>3
<1> HIDE DEF s
<1>3. ASSUME NEW k \in Fork PROVE ForkSound(s[k], tr[k], C[k])
  <2>1. ForkSound(cur[k], tr[k], C[k]) /\ C[k] \in Seq(ABN)
    BY <1>1
  <2>2. 0 \in 0..Len(C[k])
    BY <2>1
  <2> QED
    BY <2>1, <2>2, <1>2 DEF ForkSound
<1>4. Sound(s, tr, C, v, fr, oth)
  BY <1>1, <1>2, <1>3 DEF Sound
<1> QED
  BY <1>4 DEF s

\* A file without blocks may be forgotten: there are no overflow records of it.
LEMMA NoneLeft ==
  ASSUME NEW cur, NEW tr, NEW C, NEW v, NEW fr, NEW oth, Sound(cur, tr, C, v, fr, oth),
         \A k \in Fork : C[k] = << >>, NEW u \in [Fork -> Trees], \A k \in Fork : u[k] = tr[k]
  PROVE  Sound(NewForks, u, C, v, fr, oth)
<1>1. C \in [Fork -> Seq(ABN)] /\ Space(C, v, fr, oth)
  BY DEF Sound
<1>2. ASSUME NEW k \in Fork PROVE ForkSound(NewForks[k], u[k], C[k])
  <2>1. Tiled(cur[k].ext, tr[k], << >>)
    BY SoundFork
  <2>2. DOMAIN tr[k] = {}
    <3> SUFFICES ASSUME NEW n \in DOMAIN tr[k] PROVE FALSE
      OBVIOUS
    <3>1. n \in Nat /\ n < Len(<< >>)
      BY <2>1, InsideFork
    <3> QED
      BY <3>1
  <2> QED
    BY <2>2, EmptyFork
<1> QED
  BY <1>1, <1>2, NewFile DEF Sound

\* hfs_delete of a file: what it truncates.
DeletedRec == [k \in Fork |-> [stored[k] EXCEPT !.lg = 0]]
\* the handle that f_trunc is called with
DeletedFile == SelectFork([NoFile EXCEPT !.rec = DeletedRec], "data")
\* what it leaves, first of the data fork and then of the resource fork
Deleted1(luck) == Trunc(DeletedFile, tree["data"], Vol, luck)
Deleted2(luck) == Trunc(SelectFork(Deleted1(luck).f, "rsrc"), tree["rsrc"], Deleted1(luck).vol, luck)

\* both forks were truncated
AllGone(c, d) ==
  /\ c.ok /\ d.ok
  /\ \A D, u : (/\ D = [[Chains EXCEPT !["data"] = << >>] EXCEPT !["rsrc"] = << >>]
                /\ u = [[tree EXCEPT !["data"] = c.t] EXCEPT !["rsrc"] = d.t])
               => Sound(d.f.rec, u, D, d.vol.vbm, d.vol.free, others)
  /\ d.vol.vbm = (vbm \ Held(Chains["data"])) \ Held(Chains["rsrc"])

\* They are.
LEMMA DeleteTrims ==
  ASSUME IInv, Scenario, pc = "closed", NEW luck \in Luck
  PROVE  AllGone(Deleted1(luck), Deleted2(luck))
<1> DEFINE f == DeletedFile
           c == Deleted1(luck)
           g == SelectFork(c.f, "rsrc")
           d == Deleted2(luck)
           t1 == [tree EXCEPT !["data"] = c.t]
           C1 == [Chains EXCEPT !["data"] = << >>]
<1>1. /\ Sound(stored, tree, Chains, vbm, free, others) /\ Lucky(luck) /\ stored \in Forks
      /\ Vol \in [vbm : SUBSET ABN, free : Int] /\ Vol.vbm = vbm /\ Vol.free = free
  <2>1. ~Opened(pc)
    BY DEF Opened
  <2>2. Rest(pc, h, stored, tree, todo, Chains)
    BY Known
  <2> QED
    BY <2>1, <2>2, Known, LuckIs DEF Rest
<1>2. Sound(DeletedRec, tree, Chains, Vol.vbm, Vol.free, others) /\ DeletedRec \in Forks
  <2>1. Sound(DeletedRec, tree, Chains, vbm, free, others)
    BY <1>1, NothingKept DEF DeletedRec
  <2> QED
    BY <2>1, <1>1 DEF Sound
<1>3. \A k \in Fork : DeletedRec[k].lg = 0
  BY <1>1 DEF DeletedRec, Forks
<1>4. /\ f \in Handle /\ f.fork = "data" /\ f.rec = DeletedRec /\ \A t : AtRecord(f, t)
  <2> DEFINE e == [NoFile EXCEPT !.rec = DeletedRec]
  <2>1. e \in LooseHandle /\ e.rec = DeletedRec
    BY <1>2, NewFile, HandleLoose DEF Handle, LooseHandle
  <2> HIDE DEF e
  <2>2. Selected(e, SelectFork(e, "data"), "data")
    BY <2>1, NewFile, SelectForkOne
  <2>3. f = SelectFork(e, "data")
    BY DEF DeletedFile, e
  <2> QED
    BY <2>1, <2>2, <2>3 DEF Selected
<1>5. c = Trunc(f, tree["data"], Vol, luck)
  BY DEF Deleted1
<1>6. d = Trunc(g, tree["rsrc"], c.vol, luck)
  BY DEF Deleted2
<1> HIDE DEF f, c, d
<1>7. Emptied(f.rec, tree, Chains, Vol, others, "data", c)
  <2>1. f.rec["data"].lg = 0 /\ AtRecord(f, tree[f.fork]) /\ Sound(f.rec, tree, Chains, Vol.vbm, Vol.free, others)
    BY <1>2, <1>3, <1>4, NewFile
  <2> QED
    BY <2>1, <1>1, <1>4, <1>5, ForkEmptied
<1>8. /\ c.ok /\ c.f \in LooseHandle /\ c.f.rec["rsrc"] = DeletedRec["rsrc"]
      /\ Sound(c.f.rec, t1, C1, c.vol.vbm, c.vol.free, others)
      /\ c.vol \in [vbm : SUBSET ABN, free : Int] /\ c.vol.vbm = vbm \ Held(Chains["data"])
  BY <1>1, <1>4, <1>7, NewFile DEF Emptied
<1>9. g \in Handle /\ g.fork = "rsrc" /\ g.rec = c.f.rec /\ \A t : AtRecord(g, t)
  BY <1>8, NewFile, SelectForkOne DEF Selected
<1>10. t1["rsrc"] = tree["rsrc"] /\ C1["rsrc"] = Chains["rsrc"]
  OBVIOUS
<1> HIDE DEF g, t1, C1
<1>11. Emptied(g.rec, t1, C1, c.vol, others, "rsrc", d)
  <2>1. g.rec["rsrc"].lg = 0 /\ AtRecord(g, t1[g.fork]) /\ Sound(g.rec, t1, C1, c.vol.vbm, c.vol.free, others)
    BY <1>3, <1>8, <1>9, NewFile
  <2>2. d = Trunc(g, t1["rsrc"], c.vol, luck)
    BY <1>6, <1>10
  <2> QED
    BY <2>1, <2>2, <1>1, <1>8, <1>9, ForkEmptied
<1>12. /\ d.ok /\ Sound(d.f.rec, [t1 EXCEPT !["rsrc"] = d.t], [C1 EXCEPT !["rsrc"] = << >>], d.vol.vbm, d.vol.free, others)
       /\ d.vol.vbm = c.vol.vbm \ Held(C1["rsrc"])
  BY <1>11 DEF Emptied
<1> QED
  BY <1>8, <1>10, <1>12 DEF AllGone, t1, C1, c, d

\* hfs_delete leaves neither blocks nor overflow records behind.
LEMMA DeleteKeeps ==
  ASSUME IInv, Scenario, NEW luck \in Luck, Delete(luck)
  PROVE  IInv' /\ Map!Next
<1> DEFINE c == Deleted1(luck)
           d == Deleted2(luck)
           D == [[Chains EXCEPT !["data"] = << >>] EXCEPT !["rsrc"] = << >>]
           u == [[tree EXCEPT !["data"] = c.t] EXCEPT !["rsrc"] = d.t]
<1>1. pc = "closed" /\ reply' = Quiet /\ h' = h /\ others' = others /\ todo' = todo
  BY DEF Delete
<1>2. AllGone(c, d)
  BY <1>1, DeleteTrims
<1>3. c.ok /\ d.ok /\ d.vol.vbm = (vbm \ Held(Chains["data"])) \ Held(Chains["rsrc"])
      /\ Sound(d.f.rec, u, D, d.vol.vbm, d.vol.free, others)
  BY <1>2, Zenon DEF AllGone
<1>4. /\ pc' = "absent" /\ stored' = NewForks /\ tree' = [data |-> c.t, rsrc |-> d.t]
      /\ vbm' = d.vol.vbm /\ free' = d.vol.free
  BY <1>3, Zenon DEF Delete, Deleted1, Deleted2, DeletedFile, DeletedRec
<1> HIDE DEF c, d
<1>5. tree \in [Fork -> Trees] /\ Chains \in [Fork -> Seq(ABN)] /\ u \in [Fork -> Trees]
  BY <1>3, Known DEF Sound
<1>6. /\ \A k \in Fork : tree'[k] = u[k]
      /\ \A k \in Fork : D[k] = << >>
      /\ tree' \in [Fork -> Trees]
  <2>1. u["data"] = c.t /\ u["rsrc"] = d.t /\ D["data"] = << >> /\ D["rsrc"] = << >>
    BY <1>5, NewFile
  <2>2. \A k \in Fork : k = "data" \/ k = "rsrc"
    BY DEF Fork
  <2>3. \A k \in Fork : tree'[k] = u[k]
    BY <2>1, <2>2, <1>4
  <2>4. DOMAIN tree' = Fork
    BY <1>4 DEF Fork
  <2>5. tree' = [k \in Fork |-> tree'[k]]
    BY <2>4, <1>4 DEF Fork
  <2> HIDE DEF u
  <2>6. \A k \in Fork : tree'[k] \in Trees
    BY <2>3, <1>5
  <2>7. tree' \in [Fork -> Trees]
    BY <2>5, <2>6
  <2> QED
    BY <2>1, <2>2, <2>3, <2>7
<1> HIDE DEF u, D
<1>7. Sound(stored', tree', D, vbm', free', others')
  BY <1>1, <1>3, <1>4, <1>6, NoneLeft
<1>8. ~Opened(pc')
  BY <1>4 DEF Opened
<1>9. Whole(pc', h', stored', tree', vbm', free', others', todo', D)
  <2>1. Rest(pc, h, stored, tree, todo, Chains)
    BY Known
  <2>2. Rest(pc', h', stored', tree', todo', D)
    BY <2>1, <1>1, <1>4, <1>8, NewFile DEF Rest
  <2> QED
    BY <2>2, <1>7, <1>8 DEF Whole
<1>10. IInv' /\ \A k \in Fork : Chain(k)' = D[k]
  BY <1>9, WholeNext
<1>11. Current' = NewForks
  BY <1>4 DEF Current
<1>12. \A k \in Fork : Chain(k) \in Seq(ABN) /\ Chain(k)' = << >> /\ Current'[k].lg = 0
  BY <1>6, <1>10, <1>11, NewFile, Known
<1>13. vbm' = (vbm \ Held(Chain("data"))) \ Held(Chain("rsrc"))
  BY <1>3, <1>4, NewFile, Known
<1> QED
  BY <1>1, <1>10, <1>12, <1>13, MapDelete

-----------------------------------------------------------------------------
(***************************************************************************)
(* All steps.                                                              *)
(***************************************************************************)
\* Other files take and give back blocks: nothing of this file changes.
LEMMA ElsewhereKeeps ==
  ASSUME IInv, pc # "writing", NEW v, NEW fr, NEW oth, Space(Chains, v, fr, oth),
         vbm' = v, free' = fr, others' = oth, reply' = Quiet,
         pc' = pc, h' = h, stored' = stored, tree' = tree, todo' = todo
  PROVE  IInv' /\ Map!Next
<1>1. /\ Rest(pc, h, stored, tree, todo, Chains)
      /\ Sound(Current, tree, Chains, vbm, free, others)
      /\ Current = (IF Opened(pc) THEN h.rec ELSE stored)
      /\ \A k \in Fork : Chains[k] = Chain(k) /\ Chain(k) \in Seq(ABN)
  BY Known
<1>2. Sound(Current, tree, Chains, v, fr, oth)
  BY <1>1 DEF Sound
<1>3. Whole(pc', h', stored', tree', vbm', free', others', todo', Chains)
  BY <1>1, <1>2 DEF Whole
<1>4. IInv' /\ \A k \in Fork : Chain(k)' = Chains[k]
  BY <1>3, WholeNext
<1>5. Current' = Current
  BY DEF Current
<1>6. SameFile
  BY <1>1, <1>4, <1>5 DEF SameFile
<1>7. vbm' \in SUBSET ABN
  BY SpaceBounds
<1>8. ASSUME NEW k \in Fork PROVE Held(Chain(k)) \subseteq vbm'
  <2>1. Held(Chain(k)) \in SUBSET ABN /\ Chains[k] = Chain(k)
    BY <1>1, HeldIs
  <2>2. \A b \in ABN : b \in Held(Chains[k]) => b \in v
    BY DEF Space
  <2> QED
    BY <2>1, <2>2
<1> QED
  BY <1>1, <1>4, <1>6, <1>7, <1>8, MapElsewhere

\* The two actions of other files.
LEMMA OthersKeep ==
  ASSUME IInv, NEW b \in ABN, OthersTake(b) \/ OthersGive(b)
  PROVE  IInv' /\ Map!Next
<1>1. Space(Chains, vbm, free, others) /\ \A k \in Fork : Held(Chains[k]) \in SUBSET ABN
  <2>1. Sound(Current, tree, Chains, vbm, free, others)
    BY Known
  <2> QED
    BY <2>1, HeldIs DEF Sound
<1>2. CASE OthersTake(b)
  <2>1. /\ pc # "writing" /\ b \notin vbm
        /\ vbm' = vbm \cup {b} /\ free' = free - 1 /\ others' = others \cup {b} /\ reply' = Quiet
        /\ pc' = pc /\ h' = h /\ stored' = stored /\ tree' = tree /\ todo' = todo
    BY <1>2 DEF OthersTake
  <2>2. Space(Chains, vbm \cup {b}, free - 1, others \cup {b})
    BY <1>1, <2>1, SpaceElsewhere
  <2> QED
    BY <2>1, <2>2, ElsewhereKeeps
<1>3. CASE OthersGive(b)
  <2>1. /\ pc # "writing" /\ b \in others
        /\ vbm' = vbm \ {b} /\ free' = free + 1 /\ others' = others \ {b} /\ reply' = Quiet
        /\ pc' = pc /\ h' = h /\ stored' = stored /\ tree' = tree /\ todo' = todo
    BY <1>3 DEF OthersGive
  <2>2. Space(Chains, vbm \ {b}, free + 1, others \ {b})
    BY <1>1, <2>1, SpaceElsewhere
  <2> QED
    BY <2>1, <2>2, ElsewhereKeeps
<1> QED
  BY <1>2, <1>3

\* Every action keeps the invariant and is a step of ForkMap;
LEMMA StepKeeps ==
  ASSUME IInv, Scenario, Next
  PROVE  IInv' /\ Map!Next
<1>1. CASE Create
  BY <1>1, CreateKeeps
<1>2. CASE Open
  BY <1>2, OpenKeeps
<1>3. CASE WriteNoSpace
  BY <1>3, WriteNoSpaceKeeps
<1>4. ASSUME NEW luck \in Luck, NEW num \in 0..h.rec[h.fork].lg - 1, Read(num, luck) PROVE IInv' /\ Map!Next
  BY <1>4, ReadKeeps
<1>5. ASSUME NEW luck \in Luck, NEW len \in 0..h.rec[h.fork].lg, Truncate(len, luck) PROVE IInv' /\ Map!Next
  BY <1>5, TruncateKeeps
<1>6. ASSUME NEW luck \in Luck, NEW k \in Fork, SetFork(k, luck) PROVE IInv' /\ Map!Next
  BY <1>6, SetForkKeeps
<1>7. ASSUME NEW luck \in Luck, WriteInside(luck) PROVE IInv' /\ Map!Next
  BY <1>7, WriteInsideKeeps
<1>8. ASSUME NEW luck \in Luck, Close(luck) PROVE IInv' /\ Map!Next
  BY <1>8, CloseKeeps
<1>9. ASSUME NEW luck \in Luck, Delete(luck) PROVE IInv' /\ Map!Next
  BY <1>9, DeleteKeeps
<1>10. ASSUME NEW luck \in Luck, NEW run \in Runs, WriteBeyond(run, luck) PROVE IInv' /\ Map!Next
  BY <1>10, WriteBeyondKeeps
<1>11. ASSUME NEW pos \in 0..h.rec[h.fork].lg, NEW count \in 1..MaxWrite, Write(pos, count) PROVE IInv' /\ Map!Next
  BY <1>11, WriteKeeps
<1>12. ASSUME NEW b \in ABN, OthersTake(b) \/ OthersGive(b) PROVE IInv' /\ Map!Next
  BY <1>12, OthersKeep
<1> QED
  BY <1>1, <1>2, <1>3, <1>4, <1>5, <1>6, <1>7, <1>8, <1>9, <1>10, <1>11, <1>12 DEF Next

\* so does a step that does nothing,
LEMMA StutterKeeps ==
  ASSUME IInv, UNCHANGED vars
  PROVE  IInv' /\ UNCHANGED Map!vars
<1>1. /\ Whole(pc, h, stored, tree, vbm, free, others, todo, Chains)
      /\ \A k \in Fork : Chains[k] = Chain(k)
  BY WholeIs, Known
<1>2. /\ pc' = pc /\ h' = h /\ stored' = stored /\ tree' = tree /\ vbm' = vbm /\ free' = free
      /\ others' = others /\ todo' = todo /\ reply' = reply
  BY DEF vars
<1>3. Whole(pc', h', stored', tree', vbm', free', others', todo', Chains)
  BY <1>1, <1>2
<1>4. IInv' /\ \A k \in Fork : Chain(k)' = Chain(k)
  BY <1>1, <1>3, WholeNext
<1>5. Current' = Current
  BY <1>2 DEF Current
<1>6. SameFile
  BY <1>4, <1>5 DEF SameFile
<1> QED
  BY <1>2, <1>4, <1>6, MapSame DEF Map!vars

\* and the first state.
LEMMA InitKeeps ==
  ASSUME Init
  PROVE  IInv /\ Map!Init
<1> DEFINE C == [k \in Fork |-> << >>]
<1>1. /\ pc = "absent" /\ h = NoFile /\ stored = NewForks /\ tree = [k \in Fork |-> << >>]
      /\ vbm = {} /\ free = NBlocks /\ others = {} /\ todo = NoTodo /\ reply = Quiet
  BY DEF Init
<1>2. C \in [Fork -> Seq(ABN)] /\ \A k \in Fork : C[k] = << >>
  OBVIOUS
<1> HIDE DEF C
<1>3. tree \in [Fork -> Trees] /\ \A k \in Fork : tree[k] = << >> /\ tree[k] \in Trees /\ DOMAIN tree[k] = {}
  <2>1. << >> \in [{} -> Rec] /\ DOMAIN << >> = {}
    OBVIOUS
  <2>2. << >> \in Trees
    <3>1. {} \in SUBSET (1..NBlocks)
      OBVIOUS
    <3> QED
      BY <2>1, <3>1 DEF Trees
  <2> HIDE DEF C
  <2> QED
    BY <1>1, <2>1, <2>2
<1>4. Space(C, {}, NBlocks, {})
  <2>1. << >> \in Seq(ABN) /\ ToSet(<< >>) = {}
    BY DEF ToSet
  <2>2. \A k \in Fork : Held(C[k]) = {}
    BY <1>2, <2>1, HeldIs
  <2>3. Cardinality({}) = 0 /\ NBlocks = NBlocks - 0
    BY FS_EmptySet, WidthIsNat
  <2> QED
    BY <2>2, <2>3 DEF Space
<1>5. Sound(NewForks, tree, C, vbm, free, others)
  <2>1. \A k \in Fork : ForkSound(NewForks[k], tree[k], C[k])
    BY <1>2, <1>3, EmptyFork
  <2> QED
    BY <2>1, <1>1, <1>2, <1>3, <1>4, NewFile DEF Sound
<1>6. ~Opened(pc)
  BY <1>1 DEF Opened
<1>7. Whole(pc, h, stored, tree, vbm, free, others, todo, C)
  <2>1. NoTodo \in [pos : 0..NBlocks, count : 0..MaxWrite]
    BY WidthIsNat, ExtentsAssumption DEF NoTodo
  <2>2. Rest(pc, h, stored, tree, todo, C)
    BY <2>1, <1>1, <1>6, NewFile DEF Rest
  <2> QED
    BY <2>2, <1>1, <1>5, <1>6 DEF Whole
<1>8. IInv /\ \A k \in Fork : Chain(k) = << >>
  BY <1>2, <1>7, WholeNow
<1>9. Current = NewForks /\ \A k \in Fork : NewForks[k].lg = 0
  BY <1>1, NewFile DEF Current
<1>10. Map!Init
  BY <1>1, <1>8, <1>9 DEF Map!Init, Map!Quiet, Quiet
<1> QED
  BY <1>8, <1>10

-----------------------------------------------------------------------------
(***************************************************************************)
(* The properties.                                                         *)
(***************************************************************************)
\* An overflow record describes a stretch of its fork.
LEMMA RecordIsStretch ==
  ASSUME NEW first, NEW t, NEW c, Tiled(first, t, c), NEW n \in DOMAIN t
  PROVE  t[n][1].len > 0 /\ SubSeq(c, n + 1, n + Len(Blocks(t[n]))) = Blocks(t[n])
<1> DEFINE b == Blocks(t[n])
           m == Len(b)
           x == SubSeq(c, n + 1, n + m)
<1>1. n # 0 /\ n \in Nat /\ RecordAt(first, t, n) = t[n] /\ n \in Starts(t)
  BY InsideFork
<1>2. Fits(t[n], n, t, c) /\ c \in Seq(ABN)
  BY <1>1 DEF Tiled
<1>3. t[n] \in Rec /\ Matches(t[n], n, c) /\ t[n][1].len > 0
  BY <1>1, <1>2 DEF Fits
<1>4. b \in Seq(Int) /\ n + m <= Len(c) /\ \A q \in 1..m : c[n + q] = b[q]
  BY <1>1, <1>2, <1>3, MatchesBlocks
<1> HIDE DEF b
<1>5. m \in Nat /\ Len(c) \in Nat
  BY <1>2, <1>4
<1> HIDE DEF m
<1>6. \A q \in n + 1..n + m : q \in 1..Len(c)
  BY <1>1, <1>4, <1>5
<1>7. n + 1 \in Int /\ n + m \in Int /\ \A q \in n + 1..n + m : c[q] \in ABN
  BY <1>1, <1>2, <1>5, <1>6, ElementOfSeq
<1> DEFINE p == n + 1
           r == n + m
<1>8. p \in Int /\ r \in Int /\ \A q \in p..r : c[q] \in ABN
  BY <1>7
<1> HIDE DEF p, r
<1>9. /\ SubSeq(c, p, r) \in Seq(ABN) /\ Len(SubSeq(c, p, r)) = IF p <= r THEN r - p + 1 ELSE 0
      /\ \A q \in 1..r - p + 1 : SubSeq(c, p, r)[q] = c[p + q - 1]
  BY ONLY <1>8, SubSeqProperties
<1>10. r - p + 1 = m /\ (IF p <= r THEN r - p + 1 ELSE 0) = m /\ \A q \in 1..m : p + q - 1 = n + q
  BY <1>1, <1>5 DEF p, r
<1>11. x \in Seq(ABN) /\ Len(x) = m /\ \A q \in 1..m : x[q] = b[q]
  BY <1>4, <1>9, <1>10 DEF p, r
<1> HIDE DEF x
<1>12. x \in Seq(Int)
  <2>1. \A q \in 1..m : x[q] \in Int
    <3>1. \A q \in 1..m : q \in 1..Len(x)
      BY <1>11
    <3>2. \A q \in 1..m : x[q] \in ABN
      BY ONLY <1>11, <3>1, ElementOfSeq
    <3>3. ABN \subseteq Int
      BY DEF ABN
    <3> QED
      BY <3>2, <3>3
  <2>2. x = [q \in 1..m |-> x[q]]
    BY <1>11
  <2>3. x \in [1..m -> Int]
    BY <2>1, <2>2
  <2> QED
    BY <2>3, <1>5, SeqDef
<1>13. x = b
  <2>1. Len(x) = Len(b) /\ \A q \in 1..Len(x) : x[q] = b[q]
    BY <1>11 DEF m
  <2> QED
    BY <2>1, <1>4, <1>12, SeqEqual
<1> QED
  BY <1>3, <1>13 DEF x, b, m

\* The invariant implies the properties that are checked.
LEMMA InvIsSound == IInv => ExtentsSound
<1> SUFFICES ASSUME IInv PROVE ExtentsSound
  OBVIOUS
<1>1. TypeOK /\ SpaceAccounted /\ \A k \in Fork : ForkSound(Current[k], tree[k], Chain(k))
  BY DEF IInv
<1>2. ASSUME NEW k \in Fork
      PROVE  /\ Len(Chain(k)) = Current[k].py /\ Current[k].lg <= Current[k].py
             /\ IsInjective(Chain(k))
             /\ \A n \in DOMAIN tree[k] :
                  /\ tree[k][n][1].len > 0
                  /\ SubSeq(Chain(k), n + 1, n + Len(Blocks(tree[k][n]))) = Blocks(tree[k][n])
  <2>1. /\ Tiled(Current[k].ext, tree[k], Chain(k)) /\ Once(Chain(k)) /\ Chain(k) \in Seq(ABN)
        /\ Current[k].py = Len(Chain(k)) /\ Current[k].lg \in 0..Len(Chain(k))
    BY <1>1 DEF ForkSound, Tiled
  <2>2. Current[k].lg <= Current[k].py
    BY <2>1
  <2>3. IsInjective(Chain(k))
    <3> DEFINE c == Chain(k)
    <3>1. c \in Seq(ABN) /\ Once(c)
      BY <2>1
    <3> HIDE DEF c
    <3>2. DOMAIN c = 1..Len(c)
      BY <3>1
    <3>3. IsInjective(c)
      BY <3>1, <3>2 DEF Once, IsInjective
    <3> QED
      BY <3>3 DEF c
  <2> QED
    BY <2>1, <2>2, <2>3, RecordIsStretch
<1>3. RecordsSound
  BY <1>2 DEF RecordsSound
<1> QED
  BY <1>1, <1>3 DEF ExtentsSound

\* f_doblock finds every block.
LEMMA InvFinds == IInv => EveryBlockFound
<1> SUFFICES ASSUME IInv, Opened(pc), NEW n \in DOMAIN Chain(h.fork)
             PROVE  DoBlock(h, tree[h.fork], n - 1, AllWell).abn = Chain(h.fork)[n]
  BY DEF EveryBlockFound, Opened
<1>1. /\ h \in Handle /\ h.fork \in Fork
      /\ AtRecord(h, tree[h.fork]) \/ Lost(h, Chains[h.fork])
      /\ Sound(h.rec, tree, Chains, vbm, free, others)
  BY OpenFile
<1>2. Chains[h.fork] = Chain(h.fork) /\ Chain(h.fork) \in Seq(ABN)
  BY <1>1, Known
<1>3. AllWell.searches = NBlocks + 2
  BY DEF AllWell
<1>4. n - 1 \in Nat /\ n - 1 < Len(Chains[h.fork]) /\ (n - 1) + 1 = n
  <2> DEFINE c == Chain(h.fork)
  <2>1. c \in Seq(ABN) /\ n \in DOMAIN c
    BY <1>2
  <2> HIDE DEF c
  <2>2. n - 1 \in Nat /\ n - 1 < Len(c) /\ (n - 1) + 1 = n
    BY <2>1
  <2> QED
    BY <2>2, <1>2 DEF c
<1>5. DoBlock(h, tree[h.fork], n - 1, AllWell).abn = Chains[h.fork][(n - 1) + 1]
  <2> DEFINE m == n - 1
  <2>1. m \in Nat /\ m < Len(Chains[h.fork])
    BY <1>4
  <2> HIDE DEF m
  <2>2. DoBlock(h, tree[h.fork], m, AllWell).abn = Chains[h.fork][m + 1]
    BY <1>1, <1>3, <2>1, BlockFound, Zenon
  <2> QED
    BY <2>2 DEF m
<1> QED
  BY <1>2, <1>4, <1>5

\* f_addextent adds every run.
LEMMA InvExtends == IInv => CanBeExtended
<1> SUFFICES ASSUME IInv, pc = "writing", h.fabn \in {0} \cup DOMAIN tree[h.fork],
                    NEW run \in Runs, Run(run) \cap vbm = {}
             PROVE  AddExtent(h, tree[h.fork], run, AllWell).ok
  BY DEF CanBeExtended
<1>0. Opened(pc)
  BY DEF Opened
<1>1. /\ h \in Handle /\ h.fork \in Fork
      /\ AtRecord(h, tree[h.fork]) \/ Lost(h, Chains[h.fork])
      /\ Sound(h.rec, tree, Chains, vbm, free, others)
  BY <1>0, OpenFile
<1>2. Tiled(h.rec[h.fork].ext, tree[h.fork], Chains[h.fork]) /\ h.rec[h.fork].py = Len(Chains[h.fork])
  BY <1>1, SoundFork
<1>3. Len(Chains[h.fork]) + run.len <= NBlocks
  BY <1>1, RunFits
<1>4. ~Lost(h, Chains[h.fork])
  <2> SUFFICES ASSUME Lost(h, Chains[h.fork]) PROVE FALSE
    OBVIOUS
  <2>1. h.fabn = Len(Chains[h.fork]) /\ h.fabn \in DOMAIN tree[h.fork]
    BY DEF Lost
  <2>2. h.fabn \in Nat /\ h.fabn < Len(Chains[h.fork])
    BY <1>2, <2>1, InsideFork
  <2> QED
    BY <2>1, <2>2
<1>5. AllWell.searches = NBlocks + 2 /\ AllWell.put /\ AllWell.insert = TRUE
  BY DEF AllWell
<1>6. \/ Grown(h, tree[h.fork], Chains[h.fork], run, AddExtent(h, tree[h.fork], run, AllWell))
      \/ ~AllWell.insert /\ NotGrown(h, tree[h.fork], Chains[h.fork], AddExtent(h, tree[h.fork], run, AllWell))
  BY <1>1, <1>2, <1>3, <1>4, <1>5, AddFound
<1> QED
  BY <1>5, <1>6 DEF Grown

\* The handle can be used.
LEMMA InvIsUsable == IInv => HandleUsable
BY InvFinds, InvExtends DEF HandleUsable

\* The records, the bitmap and the handle of a file fit each other in every
\* state, as long as at most the insertion of an overflow record fails.
THEOREM SoundAlways == ASSUME Scenario PROVE Spec => []IInv
<1>1. Init => IInv
  BY InitKeeps
<1>2. IInv /\ [Next]_vars => IInv'
  BY StepKeeps, StutterKeeps
<1> QED
  BY <1>1, <1>2, PTL DEF Spec

\* file.c:227 "file extents exceed file physical length" and file.c:233 "empty
\* file extent" are never seen, no overflow record is out of reach, and the
\* bitmap and the free count are right, whatever calls came before.
THEOREM ExtentsAlwaysSound == ASSUME Scenario PROVE Spec => []ExtentsSound
BY SoundAlways, InvIsSound, PTL

\* f_doblock and f_addextent start from the handle's copy of an extent record,
\* and f_trunc, f_selectfork and a failed insertion all move it: from wherever
\* it stands, every block is found and every run can be added.
THEOREM HandleAlwaysUsable == ASSUME Scenario PROVE Spec => []HandleUsable
BY SoundAlways, InvIsUsable, PTL

\* hfs_read and hfs_write go to block n of the fork, a write past the end appends
\* free blocks, hfs_setfork, hfs_close and hfs_delete give back exactly the
\* blocks past the logical end: the file is two sequences of blocks.
THEOREM ExtentsImplementMap == ASSUME Scenario PROVE Spec => ImplementsMap
<1>1. Init => IInv /\ Map!Init
  BY InitKeeps
<1>2. IInv /\ [Next]_vars => [Map!Next]_(Map!vars)
  BY StepKeeps, StutterKeeps
<1> QED
  BY <1>1, <1>2, SoundAlways, PTL DEF Spec, ImplementsMap, Map!Spec

\* What f_trunc gives back is never a block of another file, as long as it can
\* store the records that it cuts.
THEOREM OnlyOwnBlocksFreed == ASSUME Scenario PROVE Spec => OnlyUnneeded
<1>1. IInv' => others' \subseteq vbm'
  BY DEF IInv, TypeOK
<1> QED
  BY <1>1, SoundAlways, PTL DEF OnlyUnneeded
=============================================================================
