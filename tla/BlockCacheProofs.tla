-------------------------- MODULE BlockCacheProofs --------------------------
(***************************************************************************)
(* Theorems of module BlockCache, for every number of buckets, every size  *)
(* of the hash table, of a transfer and of the volume, every contents, and *)
(* every choice of the blocks that the medium refuses.                     *)
(*                                                                         *)
(* The argument: a block is read from its holder, the bucket in use in the *)
(* block's own hash chain, or from the medium.  Good says that there is at *)
(* most one holder, that a dirty bucket is one, and that a clean holder    *)
(* agrees with the medium.  Every part of getbucket settles the cache: it  *)
(* keeps Good, changes no block as the library reads it, and moves the     *)
(* medium towards those contents only.  Nothing of this asks for an intact *)
(* ring; that is needed only for the bucket that a read-ahead returns.     *)
(***************************************************************************)
EXTENDS BlockCache, FiniteSetTheorems, SequenceTheorems, NaturalsInduction, WellFoundedInduction, TLAPS

-----------------------------------------------------------------------------
(***************************************************************************)
(* Recursions.                                                             *)
(***************************************************************************)
\* A set of natural numbers that has an element has a least one.
LEMMA Least ==
  ASSUME NEW S \in SUBSET Nat, S # {}
  PROVE  \E x \in S : \A y \in S : x <= y
<1>1. \E R : IsWellFoundedOn(R, Nat) /\ \A x, y \in Nat : y < x => <<y, x>> \in R
  <2> DEFINE R == OpToRel(<, Nat)
  <2>1. IsWellFoundedOn(R, Nat)
    BY NatLessThanWellFounded, Zenon
  <2>2. \A x, y \in Nat : y < x => <<y, x>> \in R
    BY DEF OpToRel
  <2> QED
    BY <2>1, <2>2, Zenon
<1>2. PICK R : IsWellFoundedOn(R, Nat) /\ \A x, y \in Nat : y < x => <<y, x>> \in R
  BY <1>1
<1>3. \E x \in S : \A y \in S : <<y, x>> \notin R
  BY <1>2, WFMin, Zenon
<1>4. PICK x \in S : \A y \in S : <<y, x>> \notin R
  BY <1>3
<1>5. ASSUME NEW y \in S PROVE x <= y
  <2>1. x \in Nat /\ y \in Nat /\ ~ (y < x)
    BY <1>2, <1>4
  <2> QED
    BY <2>1
<1> QED
  BY <1>4, <1>5

\* A recursion over 0..n with values in S, and what it is to solve it.
Recursive(S, n, F, a) == n \in Nat /\ F \in [S \X (1..n) -> S] /\ a \in S

Solves(S, n, F, a, f) ==
  f \in [0..n -> S] /\ f[0] = a /\ \A i \in 1..n : f[i] = F[<<f[i - 1], i>>]

\* The recursion has a solution, so that the function defined by it is one.
LEMMA Solution ==
  ASSUME NEW S, NEW n, NEW F, NEW a, Recursive(S, n, F, a)
  PROVE  \E f : Solves(S, n, F, a, f)
<1>a. n \in Nat /\ F \in [S \X (1..n) -> S] /\ a \in S
  BY DEF Recursive
<1> DEFINE Upto(m) == \E f \in [0..m -> S] :
                        f[0] = a /\ \A i \in 1..m : f[i] = F[<<f[i - 1], i>>]
           Bad == {m \in 0..n : ~Upto(m)}
<1>0. Bad \in SUBSET Nat /\ \A m \in 0..n : m \in Bad <=> ~ Upto(m)
  <2> HIDE DEF Upto
  <2> QED
    BY <1>a
<1>1. SUFFICES ASSUME Bad # {} PROVE FALSE
  <2>1. n \in 0..n
    BY <1>a
  <2>2. Upto(n)
    <3> HIDE DEF Upto, Bad
    <3> QED
      BY <2>1, <1>0, <1>1
  <2> QED
    BY <2>2 DEF Solves
<1> HIDE DEF Bad
<1>2. PICK m \in Bad : \A k \in Bad : m <= k
  BY <1>0, <1>1, Least
<1>3. CASE m = 0
  <2> DEFINE g == [i \in 0..m |-> a]
  <2>1. g \in [0..m -> S] /\ g[0] = a /\ 1..m = {}
    BY <1>a, <1>3
  <2>2. Upto(m)
    <3> HIDE DEF g
    <3> QED
      BY <2>1
  <2>3. m \in Bad /\ m \in 0..n
    BY <1>0, <1>2 DEF Bad
  <2> HIDE DEF Upto
  <2> QED
    BY <2>2, <2>3, <1>0
<1>4. CASE m # 0
  <2>1. m - 1 \in 0..n /\ m \in 1..n /\ Upto(m - 1)
    <3>1. m \in 0..n /\ m \in Nat /\ m - 1 \in 0..n /\ m \in 1..n
      <4>1. m \in 0..n
        BY <1>0, <1>2 DEF Bad
      <4> QED
        BY <4>1, <1>4, <1>a
    <3>2. m - 1 \notin Bad
      BY <1>0, <1>2, <3>1
    <3> QED
      BY <1>0, <3>1, <3>2
  <2>2. PICK f \in [0..m - 1 -> S] : f[0] = a /\ \A i \in 1..m - 1 : f[i] = F[<<f[i - 1], i>>]
    BY <2>1
  <2> DEFINE g == [i \in 0..m |-> IF i = m THEN F[<<f[m - 1], m>>] ELSE f[i]]
  <2>3. F[<<f[m - 1], m>>] \in S
    <3>1. <<f[m - 1], m>> \in S \X (1..n)
      BY <2>1, <2>2, <1>a
    <3> QED
      BY <3>1, <1>a
  <2>4. g \in [0..m -> S]
    BY <2>1, <2>2, <2>3
  <2>5. g[0] = a
    BY <2>1, <2>2, <1>4
  <2>6. ASSUME NEW i \in 1..m PROVE g[i] = F[<<g[i - 1], i>>]
    <3>1. CASE i = m
      <4>1. g[i] = F[<<f[m - 1], m>>] /\ g[i - 1] = f[m - 1]
        BY <3>1, <2>1
      <4> HIDE DEF g
      <4> QED
        BY <3>1, <4>1
    <3>2. CASE i # m
      <4>1. i \in 1..m - 1 /\ i - 1 \in 0..m /\ i - 1 # m /\ i \in 0..m
        BY <3>2, <2>1
      <4>2. g[i] = f[i] /\ g[i - 1] = f[i - 1]
        BY <4>1, <3>2
      <4>3. f[i] = F[<<f[i - 1], i>>]
        BY <4>1, <2>2
      <4> HIDE DEF g
      <4> QED
        BY <4>2, <4>3
    <3> QED
      BY <3>1, <3>2
  <2>7. Upto(m)
    <3> HIDE DEF g
    <3> QED
      BY <2>4, <2>5, <2>6
  <2>8. m \in Bad /\ m \in 0..n
    BY <1>0, <1>2 DEF Bad
  <2> HIDE DEF Upto
  <2> QED
    BY <2>7, <2>8, <1>0
<1> QED
  BY <1>3, <1>4

\* What holds of the start of a recursion and is kept by it holds all along.
LEMMA Along ==
  ASSUME NEW S, NEW n \in Nat, NEW f, NEW T,
         <<0, f[0]>> \in T,
         \A i \in 1..n : <<i - 1, f[i - 1]>> \in T => <<i, f[i]>> \in T
  PROVE  \A i \in 0..n : <<i, f[i]>> \in T
<1> DEFINE Bad == {i \in 0..n : <<i, f[i]>> \notin T}
<1> SUFFICES ASSUME Bad # {} PROVE FALSE
  OBVIOUS
<1>1. Bad \in SUBSET Nat
  OBVIOUS
<1>2. PICK i \in Bad : \A j \in Bad : i <= j
  <2> HIDE DEF Bad
  <2> QED
    BY <1>1, Least
<1>3. i \in 0..n /\ <<i, f[i]>> \notin T /\ i \in Nat
  OBVIOUS
<1>4. i # 0
  BY <1>3
<1>5. i \in 1..n /\ i - 1 \in 0..n /\ ~ (i <= i - 1)
  BY <1>3, <1>4
<1>6. i - 1 \notin Bad
  <2> HIDE DEF Bad
  <2> QED
    BY <1>2, <1>5
<1>7. <<i - 1, f[i - 1]>> \in T
  BY <1>5, <1>6
<1> QED
  BY <1>3, <1>5, <1>7

(***************************************************************************)
(* Hash chains.                                                            *)
(***************************************************************************)

\* The elements of a sequence are what stands at its places.
LEMMA InToSet ==
  ASSUME NEW S, NEW s \in Seq(S), NEW x
  PROVE  /\ x \in ToSet(s) <=> \E i \in 1..Len(s) : s[i] = x
         /\ x \in ToSet(s) => x \in S
<1>1. x \in ToSet(s) <=> \E i \in 1..Len(s) : s[i] = x
  BY DEF ToSet
<1>2. \A i \in 1..Len(s) : s[i] \in S
  BY ElementOfSeq
<1> QED
  BY <1>1, <1>2

\* No element stands at two places.
Once(s) == \A i, j \in 1..Len(s) : s[i] = s[j] => i = j

\* Putting a new element in front.
LEMMA ConsProperties ==
  ASSUME NEW S, NEW s \in Seq(S), Once(s), NEW b \in S, b \notin ToSet(s)
  PROVE  /\ Cons(b, s) \in Seq(S) /\ Once(Cons(b, s))
         /\ ToSet(Cons(b, s)) = ToSet(s) \cup {b}
<1> DEFINE t == Cons(b, s)
           n == Len(s)
<1>1. t = <<b>> \o s /\ <<b>> \in Seq(S) /\ Len(<<b>>) = 1 /\ <<b>>[1] = b
  BY DEF Cons
<1>2. n \in Nat
  BY LenProperties
<1>3. t \in Seq(S) /\ Len(t) = 1 + n
      /\ \A i \in 1..1 + n : t[i] = IF i <= 1 THEN <<b>>[i] ELSE s[i - 1]
  <2> HIDE DEF t, n
  <2>1. n = Len(s)
    BY DEF n
  <2> QED
    BY <1>1, <2>1, ConcatProperties
<1>4. \A i \in 1..n : s[i] # b
  BY InToSet
<1> HIDE DEF t, n
<1>5. t[1] = b /\ \A i \in 1..n : t[i + 1] = s[i]
  <2>1. t[1] = b
    BY <1>1, <1>2, <1>3
  <2>2. ASSUME NEW i \in 1..n PROVE t[i + 1] = s[i]
    <3>1. i + 1 \in 1..1 + n /\ ~ (i + 1 <= 1) /\ (i + 1) - 1 = i
      BY <1>2
    <3> QED
      BY <1>3, <3>1
  <2> QED
    BY <2>1, <2>2
<1>6. \A i \in 1..1 + n : i = 1 \/ (i - 1 \in 1..n /\ t[i] = s[i - 1])
  <2> SUFFICES ASSUME NEW i \in 1..1 + n, i # 1
               PROVE  i - 1 \in 1..n /\ t[i] = s[i - 1]
    OBVIOUS
  <2>1. i - 1 \in 1..n /\ (i - 1) + 1 = i
    BY <1>2
  <2> QED
    BY <1>5, <2>1
<1>7. Once(t)
  <2> SUFFICES ASSUME NEW i \in 1..1 + n, NEW j \in 1..1 + n, t[i] = t[j]
               PROVE  i = j
    BY <1>3 DEF Once
  <2>1. CASE i = 1 /\ j = 1
    BY <2>1
  <2>2. CASE i = 1 /\ j # 1
    BY <1>4, <1>5, <1>6, <2>2
  <2>3. CASE i # 1 /\ j = 1
    BY <1>4, <1>5, <1>6, <2>3
  <2>4. CASE i # 1 /\ j # 1
    <3>1. i - 1 \in 1..n /\ j - 1 \in 1..n /\ s[i - 1] = s[j - 1]
      BY <1>6, <2>4
    <3>2. i - 1 = j - 1
      BY <3>1 DEF Once, n
    <3> QED
      BY <1>2, <3>2
  <2> QED
    BY <2>1, <2>2, <2>3, <2>4
<1>8. ASSUME NEW x PROVE x \in ToSet(t) <=> x \in ToSet(s) \cup {b}
  <2>1. x \in ToSet(t) <=> \E i \in 1..1 + n : t[i] = x
    BY <1>3, InToSet
  <2>2. x \in ToSet(s) <=> \E i \in 1..n : s[i] = x
    BY InToSet DEF n
  <2>3. ASSUME NEW i \in 1..1 + n, t[i] = x PROVE x = b \/ \E j \in 1..n : s[j] = x
    BY <1>5, <1>6, <2>3
  <2>4. ASSUME NEW i \in 1..n, s[i] = x PROVE \E j \in 1..1 + n : t[j] = x
    <3>1. i + 1 \in 1..1 + n
      BY <1>2
    <3> QED
      BY <1>5, <2>4, <3>1
  <2>5. 1 \in 1..1 + n
    BY <1>2
  <2> QED
    BY <1>5, <2>1, <2>2, <2>3, <2>4, <2>5
<1>9. ToSet(t) = ToSet(s) \cup {b}
  BY <1>8
<1> QED
  BY <1>3, <1>7, <1>9 DEF t

\* The first occurrence that RemoveFirst finds is the only one.
LEMMA FirstIsOnly ==
  ASSUME NEW S, NEW s \in Seq(S), Once(s), NEW p \in 1..Len(s)
  PROVE  RemoveFirst(s, s[p]) = SubSeq(s, 1, p - 1) \o SubSeq(s, p + 1, Len(s))
<1> DEFINE b == s[p]
           I == {i \in 1..Len(s) : s[i] = b}
<1>1. I = {p}
  BY DEF Once
<1>2. \E i \in 1..Len(s) : s[i] = b
  OBVIOUS
<1>3. SelectInSeq(s, LAMBDA v : v = b) = IF I # {} THEN CHOOSE x \in I : \A y \in I : x <= y ELSE 0
  BY DEF SelectInSeq, Min
<1>4. (CHOOSE x \in I : \A y \in I : x <= y) = p
  <2> HIDE DEF I
  <2>1. p \in Nat
    BY LenProperties
  <2>2. \E x \in I : \A y \in I : x <= y
    BY <1>1, <2>1
  <2> QED
    BY <1>1, <2>2
<1>5. SelectInSeq(s, LAMBDA v : v = b) = p
  <2> HIDE DEF I
  <2> QED
    BY <1>1, <1>3, <1>4
<1> QED
  BY <1>2, <1>5 DEF RemoveFirst, RemoveAt

\* Removing what is not there changes nothing.
LEMMA RemoveIdle ==
  ASSUME NEW S, NEW s \in Seq(S), NEW b, b \notin ToSet(s)
  PROVE  RemoveFirst(s, b) = s
<1>1. ~ \E i \in 1..Len(s) : s[i] = b
  BY InToSet
<1> QED
  BY <1>1 DEF RemoveFirst

\* Removing the element at a place.
LEMMA RemoveOne ==
  ASSUME NEW S, NEW s \in Seq(S), Once(s), NEW p \in 1..Len(s)
  PROVE  /\ RemoveFirst(s, s[p]) \in Seq(S) /\ Once(RemoveFirst(s, s[p]))
         /\ ToSet(RemoveFirst(s, s[p])) = ToSet(s) \ {s[p]}
<1> DEFINE b == s[p]
           n == Len(s)
           u == SubSeq(s, 1, p - 1)
           v == SubSeq(s, p + 1, n)
           t == RemoveFirst(s, b)
<1>1. t = u \o v
  BY FirstIsOnly
<1>2. n \in Nat /\ p \in 1..n /\ p \in Nat /\ \A i \in 1..n : s[i] \in S
  BY LenProperties, ElementOfSeq
<1> HIDE DEF n
<1>3. u \in Seq(S) /\ Len(u) = p - 1 /\ \A i \in 1..p - 1 : u[i] = s[i]
  <2>1. \A i \in 1..p - 1 : s[i] \in S
    BY <1>2
  <2>2. 1 \in Int /\ p - 1 \in Int
    BY <1>2
  <2>3. /\ u \in Seq(S)
        /\ Len(u) = IF 1 <= p - 1 THEN (p - 1) - 1 + 1 ELSE 0
        /\ \A i \in 1..(p - 1) - 1 + 1 : u[i] = s[1 + i - 1]
    <3> DEFINE q == p - 1
    <3> HIDE DEF q
    <3>1. q \in Int /\ \A i \in 1..q : s[i] \in S
      BY <2>1, <2>2 DEF q
    <3>2. /\ SubSeq(s, 1, q) \in Seq(S)
          /\ Len(SubSeq(s, 1, q)) = IF 1 <= q THEN q - 1 + 1 ELSE 0
          /\ \A i \in 1..q - 1 + 1 : SubSeq(s, 1, q)[i] = s[1 + i - 1]
      BY <3>1, <2>2, SubSeqProperties
    <3> QED
      BY <3>2 DEF q
  <2> HIDE DEF u
  <2>4. (p - 1) - 1 + 1 = p - 1
    BY <1>2
  <2>5. ASSUME NEW i \in 1..p - 1 PROVE u[i] = s[i]
    <3>1. 1 + i - 1 = i
      OBVIOUS
    <3> QED
      BY <2>3, <2>4, <3>1
  <2> QED
    BY <2>3, <2>5, <1>2
<1>4. v \in Seq(S) /\ Len(v) = n - p /\ \A i \in 1..n - p : v[i] = s[p + i]
  <2> DEFINE q == p + 1
  <2>1. q \in Int /\ n \in Int /\ \A i \in q..n : s[i] \in S
    BY <1>2
  <2>2. /\ SubSeq(s, q, n) \in Seq(S)
        /\ Len(SubSeq(s, q, n)) = IF q <= n THEN n - q + 1 ELSE 0
        /\ \A i \in 1..n - q + 1 : SubSeq(s, q, n)[i] = s[q + i - 1]
    <3> HIDE DEF q
    <3> QED
      BY <2>1, SubSeqProperties
  <2>3. v = SubSeq(s, q, n)
    OBVIOUS
  <2> HIDE DEF v
  <2>4. n - q + 1 = n - p /\ (IF q <= n THEN n - q + 1 ELSE 0) = n - p
    BY <1>2
  <2>5. ASSUME NEW i \in 1..n - p PROVE v[i] = s[p + i]
    <3>1. q + i - 1 = p + i
      BY <1>2
    <3> QED
      BY <2>2, <2>3, <2>4, <3>1
  <2> QED
    BY <2>2, <2>3, <2>4, <2>5
<1> HIDE DEF t, u, v
<1>5. t \in Seq(S) /\ Len(t) = (p - 1) + (n - p)
      /\ \A i \in 1..(p - 1) + (n - p) : t[i] = IF i <= p - 1 THEN u[i] ELSE v[i - (p - 1)]
  BY <1>1, <1>3, <1>4, ConcatProperties
<1>6. Len(t) = n - 1 /\ (p - 1) + (n - p) = n - 1
  BY <1>2, <1>5
<1>7. \A i \in 1..n - 1 : t[i] = IF i < p THEN s[i] ELSE s[i + 1]
  <2> TAKE i \in 1..n - 1
  <2>1. CASE i < p
    <3>1. i <= p - 1 /\ i \in 1..p - 1
      BY <2>1, <1>2
    <3> QED
      BY <1>3, <1>5, <1>6, <2>1, <3>1
  <2>2. CASE ~ (i < p)
    <3>1. ~ (i <= p - 1) /\ i - (p - 1) \in 1..n - p /\ p + (i - (p - 1)) = i + 1
      BY <2>2, <1>2
    <3> QED
      BY <1>4, <1>5, <1>6, <2>2, <3>1
  <2> QED
    BY <2>1, <2>2
<1> DEFINE at(i) == IF i < p THEN i ELSE i + 1
<1>8. \A i \in 1..n - 1 : at(i) \in 1..n /\ at(i) # p /\ t[i] = s[at(i)]
  BY <1>2, <1>7
<1>9. \A i, j \in 1..n - 1 : at(i) = at(j) => i = j
  BY <1>2
<1>10. \A k \in 1..n : k # p => \E i \in 1..n - 1 : at(i) = k
  <2> TAKE k \in 1..n
  <2>1. CASE k < p
    <3>1. k \in 1..n - 1 /\ at(k) = k
      BY <2>1, <1>2
    <3> QED
      BY <3>1
  <2>2. CASE k > p
    <3>1. k - 1 \in 1..n - 1 /\ at(k - 1) = k
      BY <2>2, <1>2
    <3> QED
      BY <3>1
  <2>3. k < p \/ k = p \/ k > p
    BY <1>2
  <2> QED
    BY <2>1, <2>2, <2>3
<1> HIDE DEF at
<1>11. \A i, j \in 1..n : s[i] = s[j] => i = j
  BY DEF Once, n
<1>12. Once(t)
  <2> SUFFICES ASSUME NEW i \in 1..n - 1, NEW j \in 1..n - 1, t[i] = t[j]
               PROVE  i = j
    BY <1>6 DEF Once
  <2>1. at(i) = at(j)
    BY <1>8, <1>11
  <2> QED
    BY <1>9, <2>1
<1>13. ASSUME NEW x PROVE x \in ToSet(t) <=> x \in ToSet(s) /\ x # b
  <2>1. x \in ToSet(t) <=> \E i \in 1..n - 1 : t[i] = x
    BY <1>5, <1>6, InToSet
  <2>2. x \in ToSet(s) <=> \E i \in 1..n : s[i] = x
    BY InToSet DEF n
  <2>3. ASSUME NEW i \in 1..n - 1, t[i] = x PROVE x # b /\ \E j \in 1..n : s[j] = x
    BY <1>2, <1>8, <1>11, <2>3
  <2>4. ASSUME NEW k \in 1..n, s[k] = x, x # b PROVE \E i \in 1..n - 1 : t[i] = x
    BY <1>8, <1>10, <2>4
  <2> QED
    BY <2>1, <2>2, <2>3, <2>4
<1>14. ToSet(t) = ToSet(s) \ {b}
  BY <1>13
<1> QED
  BY <1>5, <1>12, <1>14 DEF t

\* Removing an element from a sequence that lists it at most once.
LEMMA RemoveProperties ==
  ASSUME NEW S, NEW s \in Seq(S), Once(s), NEW b
  PROVE  /\ RemoveFirst(s, b) \in Seq(S) /\ Once(RemoveFirst(s, b))
         /\ ToSet(RemoveFirst(s, b)) = ToSet(s) \ {b}
<1>1. CASE b \in ToSet(s)
  <2>1. PICK p \in 1..Len(s) : s[p] = b
    BY <1>1, InToSet
  <2> QED
    BY <2>1, RemoveOne
<1>2. CASE b \notin ToSet(s)
  BY <1>2, RemoveIdle
<1> QED
  BY <1>1, <1>2

-----------------------------------------------------------------------------
(***************************************************************************)
(* The cache and what it holds.                                            *)
(***************************************************************************)

\* The records that the cache may be.
Cache ==
  [inuse : SUBSET Bucket, dirty : SUBSET Bucket,
   count : [Bucket -> 0..MaxCount], bnum : [Bucket -> Block],
   data  : [Bucket -> Data \cup {NoData}],
   cnext : [Bucket -> Bucket], cprev : [Bucket -> Bucket], tail : Bucket,
   hash  : [Slots -> Seq(Bucket)]]

\* What the medium may be.
Medium == [Block -> Data]

\* The buckets that findbucket would accept for block n.
Holders(k, n) == {b \in ToSet(k.hash[Slot(n)]) : b \in k.inuse /\ k.bnum[b] = n}

\* No hash chain lists a bucket twice.
Listed(k) == \A s \in Slots : Once(k.hash[s])

\* No two buckets hold the same block and can be found.
Unique(k) == \A n \in Block : \A a, b \in Holders(k, n) : a = b

\* What makes cache k and medium d fit each other.
Good(k, d) ==
  /\ k \in Cache /\ d \in Medium
  /\ k.dirty \subseteq k.inuse
  /\ \A b \in k.inuse : k.data[b] \in Data
  /\ Listed(k)
  /\ Unique(k)
  /\ \A b \in k.dirty : b \in Holders(k, k.bnum[b])
  /\ \A n \in Block : \A b \in Holders(k, n) : b \in k.dirty \/ k.data[b] = d[n]

\* The types of the fields of the cache.
LEMMA CacheFields ==
  ASSUME NEW k \in Cache
  PROVE  /\ k.inuse \in SUBSET Bucket /\ k.dirty \in SUBSET Bucket
         /\ k.count \in [Bucket -> 0..MaxCount] /\ k.bnum \in [Bucket -> Block]
         /\ k.data \in [Bucket -> Data \cup {NoData}]
         /\ k.cnext \in [Bucket -> Bucket] /\ k.cprev \in [Bucket -> Bucket]
         /\ k.tail \in Bucket /\ k.hash \in [Slots -> Seq(Bucket)]
BY DEF Cache

\* What is assumed of the sizes, one by one.
LEMMA Sizes ==
  /\ CacheSz \in Nat /\ CacheSz > 1 /\ HashSz \in Nat /\ HashSz > 0
  /\ VLen \in Nat /\ VLen > 0 /\ MaxCount \in Nat /\ MaxCount > 0
  /\ FlushLen \in Nat /\ FlushLen > 0 /\ FlushLen <= CacheSz
  /\ FillLen \in Nat /\ FillLen > 0 /\ FillLen <= CacheSz
BY CacheAssumption

\* Every block has its slot of the hash table.
LEMMA SlotInSlots ==
  ASSUME NEW n \in Block
  PROVE  Slot(n) \in Slots
<1>1. n \in Nat
  BY Sizes DEF Block
<1>2. n % HashSz \in 0..HashSz - 1
  BY <1>1, Sizes
<1> QED
  BY <1>2 DEF Slot, Slots

\* Holders are buckets in use.
LEMMA HoldersAre ==
  ASSUME NEW k \in Cache, NEW n \in Block
  PROVE  /\ Holders(k, n) \subseteq k.inuse /\ Holders(k, n) \subseteq Bucket
         /\ \A b \in Holders(k, n) : k.bnum[b] = n
BY CacheFields DEF Holders

\* The null pointer is no bucket.
LEMMA AbsentBucket == Absent \notin Bucket
BY Sizes DEF Absent, Bucket

\* findbucket yields a holder when there is one, and else none.
LEMMA FindMeans ==
  ASSUME NEW k \in Cache, NEW n \in Block
  PROVE  /\ Holders(k, n) = {} => Find(k, n) = Absent
         /\ Holders(k, n) # {} => Find(k, n) \in Holders(k, n)
<1> DEFINE s == k.hash[Slot(n)]
           I == {i \in 1..Len(s) : s[i] \in k.inuse /\ k.bnum[s[i]] = n}
           m == IF I # {} THEN CHOOSE x \in I : \A y \in I : x <= y ELSE 0
<1>1. Find(k, n) = IF m = 0 THEN Absent ELSE s[m]
  BY DEF Find, SelectInSeq, Min
<1>2. s \in Seq(Bucket)
  BY CacheFields, SlotInSlots
<1>3. \A x : x \in Holders(k, n) <=> x \in ToSet(s) /\ x \in k.inuse /\ k.bnum[x] = n
  BY DEF Holders
<1>4. Len(s) \in Nat
  BY <1>2, LenProperties
<1> HIDE DEF s
<1>5. I \in SUBSET Nat /\ \A i \in I : i # 0
  BY <1>4
<1>6. CASE I = {}
  <2>1. Find(k, n) = Absent
    <3> HIDE DEF I
    <3> QED
      BY <1>1, <1>6
  <2>2. ASSUME NEW x \in Holders(k, n) PROVE FALSE
    <3>1. x \in ToSet(s) /\ x \in k.inuse /\ k.bnum[x] = n
      BY <1>3
    <3>2. PICK i \in 1..Len(s) : s[i] = x
      BY <3>1, <1>2, InToSet
    <3> QED
      BY <3>1, <3>2, <1>6
  <2> QED
    BY <2>1, <2>2
<1>7. CASE I # {}
  <2>1. m \in I
    <3> HIDE DEF I
    <3>1. \E x \in I : \A y \in I : x <= y
      BY <1>5, <1>7, Least
    <3> QED
      BY <1>7, <3>1
  <2> HIDE DEF m
  <2>2. m # 0 /\ m \in 1..Len(s) /\ s[m] \in k.inuse /\ k.bnum[s[m]] = n
    BY <2>1, <1>5
  <2> HIDE DEF I
  <2>3. s[m] \in ToSet(s)
    BY <2>2, <1>2, InToSet
  <2>4. s[m] \in Holders(k, n)
    BY <2>2, <2>3, <1>3
  <2> QED
    BY <1>1, <2>2, <2>4
<1> QED
  BY <1>6, <1>7

\* findbucket yields the only holder.
LEMMA FindOnly ==
  ASSUME NEW k \in Cache, Unique(k), NEW n \in Block, NEW b \in Holders(k, n)
  PROVE  Find(k, n) = b
BY FindMeans DEF Unique

\* A block without a holder reads from the medium.
LEMMA LogicalNone ==
  ASSUME NEW k \in Cache, NEW d, NEW n \in Block, Holders(k, n) = {}
  PROVE  Logical(k, d, n) = d[n]
BY FindMeans DEF Logical

\* A block with a holder reads from its bucket.
LEMMA LogicalHeld ==
  ASSUME NEW k \in Cache, Unique(k), NEW d, NEW n \in Block, NEW b \in Holders(k, n)
  PROVE  Logical(k, d, n) = k.data[b]
<1>1. Find(k, n) = b /\ b \in Bucket
  BY FindOnly, HoldersAre
<1>2. b # Absent
  BY <1>1, AbsentBucket
<1> QED
  BY <1>1, <1>2 DEF Logical

\* l and e come from k and d without loss: same contents for the library, and
\* the medium changed towards them only.
Settled(k, d, l, e) ==
  /\ Good(l, e)
  /\ \A n \in Block : Logical(l, e, n) = Logical(k, d, n)
  /\ \A n \in Block : e[n] = d[n] \/ e[n] = Logical(k, d, n)

\* Nothing happened.
LEMMA SettledSelf ==
  ASSUME NEW k, NEW d, Good(k, d)
  PROVE  Settled(k, d, k, d)
BY DEF Settled

\* One settling after another.
LEMMA SettledTwice ==
  ASSUME NEW k, NEW d, NEW l, NEW e, NEW h, NEW g,
         Settled(k, d, l, e), Settled(l, e, h, g)
  PROVE  Settled(k, d, h, g)
BY DEF Settled

\* A change after which every block has the same holders, with the same
\* contents, and no bucket is changed otherwise.
LEMMA SettledByHolders ==
  ASSUME NEW k, NEW d, Good(k, d), NEW l \in Cache, Listed(l),
         l.inuse = k.inuse, l.dirty = k.dirty, l.bnum = k.bnum, l.data = k.data,
         \A n \in Block : Holders(l, n) = Holders(k, n)
  PROVE  Settled(k, d, l, d)
<1>1. k \in Cache /\ Unique(k) /\ d \in Medium
  BY DEF Good
<1>2. Unique(l)
  BY <1>1 DEF Unique
<1>3. \A b \in k.dirty : k.bnum[b] \in Block
  BY <1>1, CacheFields
<1>4. Good(l, d)
  BY <1>1, <1>2, <1>3 DEF Good
<1>5. ASSUME NEW n \in Block PROVE Logical(l, d, n) = Logical(k, d, n)
  <2>1. CASE Holders(k, n) = {}
    BY <1>1, <2>1, LogicalNone
  <2>2. ASSUME NEW b \in Holders(k, n) PROVE Logical(l, d, n) = Logical(k, d, n)
    BY <1>1, <1>2, <2>2, LogicalHeld
  <2> QED
    BY <2>1, <2>2
<1> QED
  BY <1>4, <1>5 DEF Settled

\* Only the ring and the use counts change.
SameBlocks(k, l) ==
  /\ l \in Cache
  /\ l.inuse = k.inuse /\ l.dirty = k.dirty /\ l.bnum = k.bnum /\ l.data = k.data
  /\ l.hash = k.hash

\* Changes of the ring and of the use counts touch no block.
LEMMA SameBlocksSettled ==
  ASSUME NEW k, NEW d, Good(k, d), NEW l, SameBlocks(k, l)
  PROVE  Settled(k, d, l, d)
<1>1. l \in Cache /\ l.inuse = k.inuse /\ l.dirty = k.dirty /\ l.bnum = k.bnum
      /\ l.data = k.data /\ l.hash = k.hash
  BY DEF SameBlocks
<1>2. Listed(l)
  BY <1>1 DEF Good, Listed
<1>3. \A n \in Block : Holders(l, n) = Holders(k, n)
  BY <1>1 DEF Holders
<1> QED
  BY <1>1, <1>2, <1>3, SettledByHolders

-----------------------------------------------------------------------------
(***************************************************************************)
(* Flush and reuse.                                                        *)
(***************************************************************************)

\* nothing but the marks of dirty buckets changes, and none is added
Cleaned(k, l) ==
  /\ l \in Cache
  /\ l.inuse = k.inuse /\ l.dirty \subseteq k.dirty /\ l.count = k.count
  /\ l.bnum = k.bnum /\ l.data = k.data /\ l.cnext = k.cnext /\ l.cprev = k.cprev
  /\ l.tail = k.tail /\ l.hash = k.hash

\* What a flush of the buckets bs leaves.
Flushed(k, d, bs, f) ==
  /\ Settled(k, d, f.c, f.disk) /\ Cleaned(k, f.c) /\ f.ok \in BOOLEAN
  /\ f.ok => f.c.dirty \cap bs = {}

\* What a transfer contains, and what it means that none met a bad block.
LEMMA TransferWithin ==
  ASSUME NEW ns, NEW n, NEW bad
  PROVE  /\ SameTransfer(ns, n) \subseteq ns
         /\ Done(ns, n, bad) => Reached(ns, n, bad)
         /\ AllDone(ns, bad) => Done(ns, n, bad)
BY DEF SameTransfer, Done, Reached, AllDone

\* A flush loses nothing, however many of its transfers fail.
LEMMA FlushKeeps ==
  ASSUME NEW k, NEW d, Good(k, d), NEW bs, NEW bad
  PROVE  Flushed(k, d, bs, Flush(k, d, bs, bad))
<1> DEFINE dirty == bs \cap k.inuse \cap k.dirty
           ns == {k.bnum[b] : b \in dirty}
           held(n) == CHOOSE b \in dirty : k.bnum[b] = n
           gone == {b \in dirty : Done(ns, k.bnum[b], bad)}
           l == [k EXCEPT !.dirty = @ \ gone]
           e == [n \in Block |-> IF n \in ns /\ Reached(ns, n, bad) THEN k.data[held(n)] ELSE d[n]]
           ok == AllDone(ns, bad)
           f == Flush(k, d, bs, bad)
<1>1. f = [c |-> l, disk |-> e, ok |-> ok]
  BY DEF Flush
<1>2. k \in Cache /\ d \in Medium /\ k.dirty \subseteq k.inuse /\ Listed(k) /\ Unique(k)
      /\ (\A b \in k.inuse : k.data[b] \in Data)
      /\ (\A b \in k.dirty : b \in Holders(k, k.bnum[b]))
      /\ \A n \in Block : \A b \in Holders(k, n) : b \in k.dirty \/ k.data[b] = d[n]
  BY DEF Good
<1>3. /\ l \in Cache /\ l.inuse = k.inuse /\ l.dirty = k.dirty \ gone /\ l.count = k.count
      /\ l.bnum = k.bnum /\ l.data = k.data /\ l.cnext = k.cnext /\ l.cprev = k.cprev
      /\ l.tail = k.tail /\ l.hash = k.hash
  <2> HIDE DEF gone
  <2> QED
    BY <1>2 DEF Cache
<1>4. dirty \subseteq k.dirty /\ dirty \subseteq bs /\ k.dirty \cap bs \subseteq dirty /\ gone \subseteq dirty
  BY <1>2
<1>5. \A b \in dirty : b \in gone <=> Done(ns, k.bnum[b], bad)
  <2> HIDE DEF ns, dirty
  <2> QED
    OBVIOUS
<1>6. \A b \in dirty : k.bnum[b] \in ns
  <2> HIDE DEF dirty
  <2> QED
    OBVIOUS
<1>7. \A n \in ns : \E b \in dirty : k.bnum[b] = n
  <2> HIDE DEF dirty
  <2> QED
    OBVIOUS
<1>8. \A n \in Block : e[n] = IF n \in ns /\ Reached(ns, n, bad) THEN k.data[held(n)] ELSE d[n]
  <2> HIDE DEF ns, held
  <2> QED
    OBVIOUS
<1>9. ASSUME NEW n \in ns PROVE held(n) \in dirty /\ k.bnum[held(n)] = n
  <2> HIDE DEF dirty, ns
  <2> QED
    BY <1>7, <1>9
<1>10. ok <=> AllDone(ns, bad)
  OBVIOUS
<1>11. ok \in BOOLEAN
  <2> HIDE DEF ns
  <2> QED
    BY DEF AllDone
<1>12. \A b \in k.dirty : k.bnum[b] \in Block
  BY <1>2, CacheFields
<1>ee. DOMAIN e = Block /\ e = [n \in Block |-> e[n]]
  <2> HIDE DEF ns, held
  <2> QED
    OBVIOUS
<1>ff. f.c = l /\ f.disk = e /\ f.ok = ok
  <2> HIDE DEF l, e, ok, f
  <2> QED
    BY <1>1
<1> HIDE DEF l, e, ok, f, gone, dirty, ns, held
<1>13. \A n \in Block : Holders(l, n) = Holders(k, n)
  BY <1>3 DEF Holders
\* what reaches the medium is what the library reads
<1>14. ASSUME NEW n \in ns PROVE n \in Block /\ held(n) \in Holders(k, n) /\ held(n) \in dirty
  BY <1>2, <1>4, <1>9, <1>12
<1>15. ASSUME NEW n \in Block
       PROVE  e[n] = d[n] \/ (n \in ns /\ e[n] = k.data[held(n)] /\ e[n] \in Data)
  <2>1. CASE n \in ns /\ Reached(ns, n, bad)
    <3>1. e[n] = k.data[held(n)] /\ held(n) \in k.inuse
      BY <2>1, <1>2, <1>8, <1>14, HoldersAre
    <3> QED
      BY <2>1, <3>1, <1>2
  <2>2. CASE ~ (n \in ns /\ Reached(ns, n, bad))
    BY <2>2, <1>8
  <2> QED
    BY <2>1, <2>2
<1>16. e \in Medium
  <2>1. \A n \in Block : e[n] \in Data
    BY <1>2, <1>15 DEF Medium
  <2> QED
    BY <2>1, <1>ee DEF Medium
<1>17. Listed(l) /\ Unique(l)
  BY <1>2, <1>3, <1>13 DEF Listed, Unique
<1>18. ASSUME NEW n \in Block, NEW b \in Holders(k, n), b \notin l.dirty
       PROVE  k.data[b] = e[n]
  <2>1. CASE b \in k.dirty
    <3>1. b \in gone
      BY <2>1, <1>3, <1>18
    <3>2. b \in dirty /\ k.bnum[b] = n
      BY <3>1, <1>2, <1>4, HoldersAre
    <3>3. n \in ns /\ Reached(ns, n, bad)
      BY <3>1, <3>2, <1>5, <1>6, TransferWithin
    <3>4. held(n) = b
      BY <3>3, <1>2, <1>14 DEF Unique
    <3> QED
      BY <3>3, <3>4, <1>8
  <2>2. CASE b \notin k.dirty
    <3>1. k.data[b] = d[n]
      BY <2>2, <1>2
    <3>2. n \notin ns
      <4> SUFFICES ASSUME n \in ns PROVE FALSE
        OBVIOUS
      <4>1. held(n) = b
        BY <1>2, <1>14 DEF Unique
      <4> QED
        BY <4>1, <1>4, <1>14, <2>2
    <3> QED
      BY <3>1, <3>2, <1>8
  <2> QED
    BY <2>1, <2>2
<1>19. Good(l, e)
  <2>1. l.dirty \subseteq l.inuse /\ \A b \in l.inuse : l.data[b] \in Data
    BY <1>2, <1>3
  <2>2. \A b \in l.dirty : b \in Holders(l, l.bnum[b])
    BY <1>2, <1>3, <1>12, <1>13
  <2>3. \A n \in Block : \A b \in Holders(l, n) : b \in l.dirty \/ l.data[b] = e[n]
    BY <1>3, <1>13, <1>18
  <2> QED
    BY <1>3, <1>16, <1>17, <2>1, <2>2, <2>3 DEF Good
<1>20. ASSUME NEW n \in Block
       PROVE  /\ Logical(l, e, n) = Logical(k, d, n)
              /\ e[n] = d[n] \/ e[n] = Logical(k, d, n)
  <2>1. CASE Holders(k, n) = {}
    <3>1. n \notin ns
      BY <2>1, <1>14
    <3>2. e[n] = d[n]
      BY <3>1, <1>8
    <3> QED
      BY <2>1, <3>2, <1>2, <1>3, <1>13, LogicalNone
  <2>2. ASSUME NEW b \in Holders(k, n)
        PROVE  /\ Logical(l, e, n) = Logical(k, d, n)
               /\ e[n] = d[n] \/ e[n] = Logical(k, d, n)
    <3>1. Logical(k, d, n) = k.data[b] /\ Logical(l, e, n) = k.data[b]
      BY <1>2, <1>3, <1>13, <1>17, LogicalHeld
    <3>2. e[n] = d[n] \/ held(n) = b
      BY <1>2, <1>14, <1>15 DEF Unique
    <3> QED
      BY <3>1, <3>2, <1>15
  <2> QED
    BY <2>1, <2>2
<1>21. Settled(k, d, l, e)
  BY <1>19, <1>20 DEF Settled
<1>22. Cleaned(k, l)
  BY <1>3 DEF Cleaned
<1>23. ASSUME ok PROVE l.dirty \cap bs = {}
  BY <1>23, <1>3, <1>4, <1>5, <1>10, TransferWithin
<1> QED
  BY <1>ff, <1>11, <1>21, <1>22, <1>23 DEF Flushed, f

\* With no dirty bucket left, the medium is what the library reads.
LEMMA CleanMeans ==
  ASSUME NEW k, NEW d, Good(k, d), k.dirty = {}, NEW n \in Block
  PROVE  Logical(k, d, n) = d[n]
<1>1. k \in Cache /\ Unique(k)
      /\ \A b \in Holders(k, n) : b \in k.dirty \/ k.data[b] = d[n]
  BY DEF Good
<1>2. CASE Holders(k, n) = {}
  BY <1>1, <1>2, LogicalNone
<1>3. ASSUME NEW b \in Holders(k, n) PROVE Logical(k, d, n) = d[n]
  BY <1>1, LogicalHeld
<1> QED
  BY <1>2, <1>3

\* A flush of every bucket that reports success has stored every block.
LEMMA FlushAll ==
  ASSUME NEW k, NEW d, Good(k, d), NEW bad, Flush(k, d, Bucket, bad).ok, NEW n \in Block
  PROVE  Flush(k, d, Bucket, bad).disk[n] = Logical(k, d, n)
<1> DEFINE f == Flush(k, d, Bucket, bad)
<1>1. Flushed(k, d, Bucket, f)
  BY FlushKeeps
<1>2. f.ok
  OBVIOUS
<1> HIDE DEF f
<1>3. f.c \in Cache /\ f.c.dirty \cap Bucket = {} /\ Settled(k, d, f.c, f.disk)
  BY <1>1, <1>2 DEF Flushed, Cleaned
<1>4. f.c.dirty = {}
  BY <1>3, CacheFields
<1>5. Good(f.c, f.disk) /\ Logical(f.c, f.disk, n) = Logical(k, d, n)
  BY <1>3 DEF Settled
<1> QED
  BY <1>4, <1>5, CleanMeans DEF f

\* The fields of the cache after a bucket was given to a block.
LEMMA GivenFields ==
  ASSUME NEW k \in Cache, NEW b \in Bucket, NEW n \in Block
  PROVE  LET l == Given(k, b, n)
         IN  /\ l \in Cache /\ l.inuse = k.inuse \ {b} /\ l.dirty = k.dirty
             /\ l.bnum = [k.bnum EXCEPT ![b] = n]
             /\ \A a \in Bucket : a # b => l.data[a] = k.data[a]
             /\ l.cnext = k.cnext /\ l.cprev = k.cprev /\ l.tail = k.tail /\ l.hash = k.hash
<1> DEFINE k1 == [k EXCEPT !.inuse = @ \ {b}]
           k2 == [k1 EXCEPT !.count[b] = 1]
           k3 == [k2 EXCEPT !.bnum[b] = n]
           l == [k3 EXCEPT !.data[b] = NoData]
<1>1. Given(k, b, n) = l
  BY DEF Given
<1>2. 1 \in 0..MaxCount
  BY Sizes
<1>3. k1 \in Cache /\ k1.inuse = k.inuse \ {b} /\ k1.dirty = k.dirty /\ k1.bnum = k.bnum
      /\ k1.data = k.data /\ k1.cnext = k.cnext /\ k1.cprev = k.cprev /\ k1.tail = k.tail
      /\ k1.hash = k.hash
  BY DEF Cache
<1> HIDE DEF k1
<1>4. k2 \in Cache /\ k2.inuse = k1.inuse /\ k2.dirty = k1.dirty /\ k2.bnum = k1.bnum
      /\ k2.data = k1.data /\ k2.cnext = k1.cnext /\ k2.cprev = k1.cprev /\ k2.tail = k1.tail
      /\ k2.hash = k1.hash
  BY <1>2, <1>3 DEF Cache
<1> HIDE DEF k2
<1>5. k3 \in Cache /\ k3.inuse = k2.inuse /\ k3.dirty = k2.dirty
      /\ k3.bnum = [k2.bnum EXCEPT ![b] = n]
      /\ k3.data = k2.data /\ k3.cnext = k2.cnext /\ k3.cprev = k2.cprev /\ k3.tail = k2.tail
      /\ k3.hash = k2.hash
  BY <1>4 DEF Cache
<1> HIDE DEF k3
<1>6. l \in Cache /\ l.inuse = k3.inuse /\ l.dirty = k3.dirty /\ l.bnum = k3.bnum
      /\ l.data = [k3.data EXCEPT ![b] = NoData]
      /\ l.cnext = k3.cnext /\ l.cprev = k3.cprev /\ l.tail = k3.tail
      /\ l.hash = k3.hash
  BY <1>5 DEF Cache
<1> HIDE DEF l
<1>7. k.data \in [Bucket -> Data \cup {NoData}]
  BY CacheFields
<1>8. \A a \in Bucket : a # b => l.data[a] = k.data[a]
  BY <1>3, <1>4, <1>5, <1>6, <1>7
<1> QED
  BY <1>1, <1>3, <1>4, <1>5, <1>6, <1>8

\* A clean bucket is taken away from its block without loss.
LEMMA GivenSettled ==
  ASSUME NEW k, NEW d, Good(k, d), NEW b \in Bucket, b \notin k.dirty, NEW n \in Block
  PROVE  /\ Settled(k, d, Given(k, b, n), d)
         /\ \A m \in Block : Holders(Given(k, b, n), m) \subseteq Holders(k, m)
<1> DEFINE l == Given(k, b, n)
<1>1. k \in Cache /\ d \in Medium /\ k.dirty \subseteq k.inuse /\ Listed(k) /\ Unique(k)
      /\ (\A a \in k.inuse : k.data[a] \in Data)
      /\ (\A a \in k.dirty : a \in Holders(k, k.bnum[a]))
      /\ \A m \in Block : \A a \in Holders(k, m) : a \in k.dirty \/ k.data[a] = d[m]
  BY DEF Good
<1>2. /\ l \in Cache /\ l.inuse = k.inuse \ {b} /\ l.dirty = k.dirty
      /\ l.bnum = [k.bnum EXCEPT ![b] = n]
      /\ \A a \in Bucket : a # b => l.data[a] = k.data[a]
      /\ l.hash = k.hash
  BY <1>1, GivenFields
<1> HIDE DEF l
<1>3. k.bnum \in [Bucket -> Block] /\ k.inuse \subseteq Bucket /\ k.dirty \subseteq Bucket
  BY <1>1, CacheFields
<1>4. \A a \in Bucket : a # b => l.bnum[a] = k.bnum[a]
  BY <1>2, <1>3
<1>5. ASSUME NEW m \in Block PROVE Holders(l, m) = Holders(k, m) \ {b}
  <2>1. ASSUME NEW a \in Bucket
        PROVE a \in Holders(l, m) <=> a \in Holders(k, m) /\ a # b
    <3>1. CASE a = b
      BY <3>1, <1>2 DEF Holders
    <3>2. CASE a # b
      BY <3>2, <1>2, <1>4 DEF Holders
    <3> QED
      BY <3>1, <3>2
  <2>2. Holders(l, m) \subseteq Bucket /\ Holders(k, m) \subseteq Bucket
    BY <1>1, <1>2, HoldersAre
  <2> QED
    BY <2>1, <2>2
<1>6. Listed(l) /\ Unique(l)
  BY <1>1, <1>2, <1>5 DEF Listed, Unique
<1>7. Good(l, d)
  <2>1. l.dirty \subseteq l.inuse
    BY <1>1, <1>2
  <2>2. \A a \in l.inuse : l.data[a] \in Data
    BY <1>1, <1>2, <1>3
  <2>3. \A a \in l.dirty : a \in Holders(l, l.bnum[a])
    BY <1>1, <1>2, <1>3, <1>4, <1>5
  <2>4. \A m \in Block : \A a \in Holders(l, m) : a \in l.dirty \/ l.data[a] = d[m]
    <3> TAKE m \in Block
    <3> TAKE a \in Holders(l, m)
    <3>1. a \in Holders(k, m) /\ a # b /\ a \in Bucket
      BY <1>1, <1>5, HoldersAre
    <3> QED
      BY <3>1, <1>1, <1>2
  <2> QED
    BY <1>1, <1>2, <1>6, <2>1, <2>2, <2>3, <2>4 DEF Good
<1>8. ASSUME NEW m \in Block PROVE Logical(l, d, m) = Logical(k, d, m)
  <2>1. CASE Holders(k, m) = {}
    BY <2>1, <1>1, <1>2, <1>5, LogicalNone
  <2>2. ASSUME NEW a \in Holders(k, m) PROVE Logical(l, d, m) = Logical(k, d, m)
    <3>1. Logical(k, d, m) = k.data[a] /\ a \in Bucket
      BY <1>1, LogicalHeld, HoldersAre
    <3>2. CASE a = b
      <4>1. Holders(l, m) = {}
        BY <3>2, <1>1, <1>5 DEF Unique
      <4>2. k.data[a] = d[m]
        BY <3>2, <1>1
      <4> QED
        BY <3>1, <4>1, <4>2, <1>2, LogicalNone
    <3>3. CASE a # b
      <4>1. a \in Holders(l, m) /\ l.data[a] = k.data[a]
        BY <3>1, <3>3, <1>2, <1>5
      <4> QED
        BY <3>1, <4>1, <1>2, <1>6, LogicalHeld
    <3> QED
      BY <3>2, <3>3
  <2> QED
    BY <2>1, <2>2
<1>9. Settled(k, d, l, d)
  BY <1>7, <1>8 DEF Settled
<1> QED
  BY <1>5, <1>9 DEF l

\* What reusing bucket b for block n leaves.
Reused(k, d, b, n, r) ==
  /\ Settled(k, d, r.c, r.disk) /\ r.ok \in BOOLEAN
  /\ r.c.cnext = k.cnext /\ r.c.cprev = k.cprev /\ r.c.tail = k.tail /\ r.c.hash = k.hash
  /\ r.ok => /\ r.c.inuse = k.inuse \ {b}
             /\ r.c.bnum = [k.bnum EXCEPT ![b] = n]

\* The run of buckets that reuse flushes starts with the bucket itself.
LEMMA BackStarts ==
  ASSUME NEW k \in Cache, NEW b \in Bucket
  PROVE  LET back[i \in 0..FlushLen - 1] == IF i = 0 THEN b ELSE k.cprev[back[i - 1]]
         IN  back[0] = b
<1> DEFINE n == FlushLen - 1
           F == [x \in Bucket \X (1..n) |-> k.cprev[x[1]]]
<1>1. n \in Nat /\ 0 \in 0..n
  BY Sizes
<1>2. k.cprev \in [Bucket -> Bucket]
  BY CacheFields
<1> DEFINE body(f) == [i \in 0..n |-> IF i = 0 THEN b ELSE k.cprev[f[i - 1]]]
           back == CHOOSE f : f = body(f)
<1>3. \E f : f = body(f)
  <2>1. Recursive(Bucket, n, F, b)
    <3>1. F \in [Bucket \X (1..n) -> Bucket]
      BY <1>2
    <3> QED
      BY <3>1, <1>1 DEF Recursive
  <2>2. PICK f : Solves(Bucket, n, F, b, f)
    BY <2>1, Solution
  <2>3. f \in [0..n -> Bucket] /\ f[0] = b /\ \A i \in 1..n : f[i] = F[<<f[i - 1], i>>]
    BY <2>2 DEF Solves
  <2>4. ASSUME NEW i \in 1..n PROVE f[i] = k.cprev[f[i - 1]]
    <3>1. i - 1 \in 0..n
      BY <1>1
    <3>2. <<f[i - 1], i>> \in Bucket \X (1..n)
      BY <2>3, <3>1
    <3> QED
      BY <2>3, <3>2
  <2>5. \A i \in 0..n : i = 0 \/ i \in 1..n
    BY <1>1
  <2> HIDE DEF n, F
  <2>6. f = body(f)
    BY <2>3, <2>4, <2>5
  <2> QED
    BY <2>6
<1>4. back = body(back)
  <2> HIDE DEF body
  <2> QED
    BY <1>3
<1>5. back[0] = b
  <2> HIDE DEF back, n
  <2> QED
    BY <1>1, <1>4
<1> QED
  BY <1>5

\* A bucket is reused without loss; when its flush fails it keeps its block.
LEMMA ReuseKeeps ==
  ASSUME NEW k, NEW d, Good(k, d), NEW b \in Bucket, NEW n \in Block, NEW bad
  PROVE  /\ Reused(k, d, b, n, Reuse(k, d, b, n, bad))
         /\ Reuse(k, d, b, n, bad).ok =>
              \A m \in Block : Holders(Reuse(k, d, b, n, bad).c, m) \subseteq Holders(k, m)
<1> DEFINE back == CHOOSE g : g = [i \in 0..FlushLen - 1 |-> IF i = 0 THEN b ELSE k.cprev[g[i - 1]]]
           chain == {back[i] : i \in 0..FlushLen - 1}
           f == IF NeedsFlush(k, b) THEN Flush(k, d, chain, bad)
                ELSE [c |-> k, disk |-> d, ok |-> TRUE]
           r == Reuse(k, d, b, n, bad)
<1>1. r = IF f.ok THEN [f EXCEPT !.c = Given(@, b, n)] ELSE f
  BY DEF Reuse
<1>2. k \in Cache /\ k.dirty \subseteq k.inuse
  BY DEF Good
<1>3. b \in chain
  <2>1. back[0] = b
    BY <1>2, BackStarts
  <2>2. 0 \in 0..FlushLen - 1
    BY Sizes
  <2> HIDE DEF back
  <2> QED
    BY <2>1, <2>2
<1>4. DOMAIN f = {"c", "disk", "ok"} /\ f = [c |-> f.c, disk |-> f.disk, ok |-> f.ok]
  <2> HIDE DEF back, chain
  <2>1. CASE NeedsFlush(k, b)
    BY <2>1 DEF Flush
  <2>2. CASE ~ NeedsFlush(k, b)
    BY <2>2
  <2> QED
    BY <2>1, <2>2
<1> HIDE DEF chain
<1>5. /\ Settled(k, d, f.c, f.disk) /\ Cleaned(k, f.c) /\ f.ok \in BOOLEAN
      /\ f.ok => b \notin f.c.dirty
  <2>1. CASE NeedsFlush(k, b)
    <3>1. f = Flush(k, d, chain, bad)
      BY <2>1
    <3>2. Flushed(k, d, chain, f)
      BY <3>1, FlushKeeps
    <3> HIDE DEF f
    <3> QED
      BY <3>2, <1>3 DEF Flushed
  <2>2. CASE ~ NeedsFlush(k, b)
    <3>1. f.c = k /\ f.disk = d /\ f.ok = TRUE
      BY <2>2
    <3>2. Cleaned(k, k)
      BY <1>2 DEF Cleaned
    <3>3. b \notin k.dirty
      BY <2>2, <1>2 DEF NeedsFlush
    <3> HIDE DEF f
    <3> QED
      BY <3>1, <3>2, <3>3, SettledSelf
  <2> QED
    BY <2>1, <2>2
<1>6. [f EXCEPT !.c = Given(@, b, n)] = [c |-> Given(f.c, b, n), disk |-> f.disk, ok |-> f.ok]
  <2> HIDE DEF f
  <2> QED
    BY <1>4
<1> HIDE DEF f
<1>7. Good(f.c, f.disk) /\ f.c \in Cache
  BY <1>5 DEF Settled, Cleaned
<1>8. CASE f.ok
  <2> DEFINE l == Given(f.c, b, n)
  <2>1. r.c = l /\ r.disk = f.disk /\ r.ok = f.ok
    <3>1. r = [c |-> l, disk |-> f.disk, ok |-> f.ok]
      BY <1>1, <1>6, <1>8
    <3> HIDE DEF l, r
    <3> QED
      BY <3>1
  <2>2. Settled(f.c, f.disk, l, f.disk) /\ \A m \in Block : Holders(l, m) \subseteq Holders(f.c, m)
    BY <1>5, <1>7, <1>8, GivenSettled
  <2>3. Settled(k, d, l, f.disk)
    BY <1>5, <2>2, SettledTwice
  <2>4. \A m \in Block : Holders(f.c, m) = Holders(k, m)
    BY <1>5 DEF Cleaned, Holders
  <2>5. /\ l.inuse = f.c.inuse \ {b} /\ l.bnum = [f.c.bnum EXCEPT ![b] = n]
        /\ l.cnext = f.c.cnext /\ l.cprev = f.c.cprev /\ l.tail = f.c.tail /\ l.hash = f.c.hash
    BY <1>7, GivenFields
  <2> HIDE DEF r, l
  <2>6. Reused(k, d, b, n, r)
    BY <1>5, <2>1, <2>3, <2>5 DEF Reused, Cleaned
  <2> QED
    BY <2>1, <2>2, <2>4, <2>6 DEF r
<1>9. CASE ~ f.ok
  <2>1. r = f
    BY <1>1, <1>9
  <2> HIDE DEF r
  <2>2. Reused(k, d, b, n, r) /\ ~ r.ok
    BY <1>5, <1>9, <2>1 DEF Reused, Cleaned
  <2> QED
    BY <2>2 DEF r
<1> QED
  BY <1>8, <1>9

-----------------------------------------------------------------------------
(***************************************************************************)
(* Read-ahead.                                                             *)
(***************************************************************************)

\* Appending an element.
LEMMA AppendSet ==
  ASSUME NEW S, NEW s \in Seq(S), NEW x \in S
  PROVE  /\ Append(s, x) \in Seq(S) /\ Len(Append(s, x)) = Len(s) + 1
         /\ ToSet(Append(s, x)) = ToSet(s) \cup {x}
<1> DEFINE t == Append(s, x)
           n == Len(s)
<1>1. t \in Seq(S) /\ Len(t) = n + 1 /\ n \in Nat
      /\ (\A i \in 1..n : t[i] = s[i]) /\ t[n + 1] = x
  BY AppendProperties, LenProperties
<1> HIDE DEF t
<1>2. \A y : y \in ToSet(t) <=> \E i \in 1..n + 1 : t[i] = y
  BY <1>1, InToSet
<1>3. \A y : y \in ToSet(s) <=> \E i \in 1..n : s[i] = y
  BY InToSet
<1> HIDE DEF n
<1>4. \A i \in 1..n + 1 : i \in 1..n \/ i = n + 1
  BY <1>1
<1>5. n + 1 \in 1..n + 1 /\ \A i \in 1..n : i \in 1..n + 1
  BY <1>1
<1>6. \A y : y \in ToSet(t) <=> y \in ToSet(s) \/ y = x
  BY <1>1, <1>2, <1>3, <1>4, <1>5
<1>7. ToSet(t) = ToSet(s) \cup {x}
  BY <1>6
<1> QED
  BY <1>1, <1>7 DEF t, n

\* The buckets of a chain that is to hold consecutive blocks from n on.
Lined(l, chain, n) ==
  /\ \A b \in ToSet(chain) : b \notin l.inuse
  /\ \A b \in ToSet(chain) : l.bnum[b] < n + Len(chain)
  /\ \A a, b \in ToSet(chain) : l.bnum[a] = l.bnum[b] => a = b
  /\ \A b \in ToSet(chain) : Holders(l, l.bnum[b]) = {}

\* The states of a read-ahead.
AheadRec ==
  [c : Cache, disk : Medium, ok : BOOLEAN, more : BOOLEAN, chain : Seq(Bucket), next : Bucket]

\* What holds of the state of a read-ahead from k, d for block n.
Underway(k, d, n, a) ==
  /\ a \in AheadRec
  /\ Settled(k, d, a.c, a.disk)
  /\ a.c.cprev = k.cprev /\ a.c.tail = k.tail
  /\ Len(a.chain) > 0
  /\ a.more => a.ok
  /\ a.ok => Lined(a.c, a.chain, n)

\* How the next state of a read-ahead comes from a.
Longer(k, n, a, b) ==
  \/ /\ b.chain = a.chain /\ b.next = a.next
     /\ b.ok => a.ok /\ b.c = a.c
  \/ /\ b.chain = Append(a.chain, a.next) /\ b.next = k.cprev[a.next]
     /\ b.ok => a.ok /\ b.c.bnum = [a.c.bnum EXCEPT ![a.next] = n + Len(a.chain)]

\* One more bucket for the read-ahead.
LEMMA AheadKeeps ==
  ASSUME NEW k, NEW d, k \in Cache, NEW n \in Block, NEW a, Underway(k, d, n, a), a.more,
         ~ StopsAt(a.c, n + Len(a.chain)), NEW bad
  PROVE  LET b == Ahead(a, Reuse(a.c, a.disk, a.next, n + Len(a.chain), bad))
         IN  Underway(k, d, n, b) /\ Longer(k, n, a, b)
<1> DEFINE len == Len(a.chain)
           m == n + len
           x == a.next
           r == Reuse(a.c, a.disk, x, m, bad)
           b == Ahead(a, r)
<1>1. /\ a \in AheadRec /\ Settled(k, d, a.c, a.disk) /\ a.c.cprev = k.cprev /\ a.c.tail = k.tail
      /\ len > 0 /\ a.ok /\ Lined(a.c, a.chain, n)
  BY DEF Underway
<1>2. a.c \in Cache /\ a.disk \in Medium /\ a.chain \in Seq(Bucket) /\ x \in Bucket
      /\ Good(a.c, a.disk)
  BY <1>1 DEF AheadRec, Settled
<1>3. len \in Nat /\ n \in Nat
  BY <1>2, LenProperties DEF Block
<1> HIDE DEF len
<1>4. m \in Block /\ Find(a.c, m) = Absent
  <2>1. ~ (m >= VLen) /\ Find(a.c, m) = Absent
    BY DEF StopsAt, len
  <2> QED
    BY <2>1, <1>3, Sizes DEF Block
<1>5. Holders(a.c, m) = {}
  <2>1. ASSUME Holders(a.c, m) # {} PROVE FALSE
    <3>1. Find(a.c, m) \in Holders(a.c, m)
      BY <2>1, <1>2, <1>4, FindMeans
    <3> QED
      BY <3>1, <1>2, <1>4, HoldersAre, AbsentBucket
  <2> QED
    BY <2>1
<1>m. m \in Nat /\ m = n + len
  BY <1>3
<1> HIDE DEF m
<1>6. Reused(a.c, a.disk, x, m, r)
      /\ (r.ok => \A j \in Block : Holders(r.c, j) \subseteq Holders(a.c, j))
  BY <1>2, <1>4, ReuseKeeps
<1> HIDE DEF r
<1>7. Settled(k, d, r.c, r.disk) /\ r.c \in Cache /\ r.disk \in Medium /\ r.ok \in BOOLEAN
      /\ r.c.cprev = k.cprev /\ r.c.tail = k.tail
      /\ (r.ok => r.c.inuse = a.c.inuse \ {x} /\ r.c.bnum = [a.c.bnum EXCEPT ![x] = m])
  <2>1. Settled(a.c, a.disk, r.c, r.disk) /\ r.ok \in BOOLEAN
        /\ r.c.cprev = k.cprev /\ r.c.tail = k.tail
        /\ (r.ok => r.c.inuse = a.c.inuse \ {x} /\ r.c.bnum = [a.c.bnum EXCEPT ![x] = m])
    BY <1>1, <1>6 DEF Reused
  <2>2. Settled(k, d, r.c, r.disk)
    BY <1>1, <2>1, SettledTwice
  <2> QED
    BY <2>1, <2>2 DEF Settled, Good
<1>8. CASE ~ r.ok
  <2>1. b = [a EXCEPT !.c = r.c, !.disk = r.disk, !.ok = FALSE, !.more = FALSE]
    BY <1>8 DEF Ahead
  <2>2. b \in AheadRec /\ b.c = r.c /\ b.disk = r.disk /\ b.ok = FALSE /\ b.more = FALSE
        /\ b.chain = a.chain /\ b.next = a.next
    BY <2>1, <1>1, <1>7 DEF AheadRec
  <2> HIDE DEF b
  <2>3. Underway(k, d, n, b)
    BY <2>2, <1>1, <1>7 DEF Underway, len
  <2>4. Longer(k, n, a, b)
    BY <2>2 DEF Longer
  <2> QED
    BY <2>3, <2>4 DEF b, r, m, len
<1>9. CASE r.ok
  <2>1. b = [a EXCEPT !.c = r.c, !.disk = r.disk, !.chain = Append(@, x),
                      !.next = NextToReuse(r.c, x)]
    BY <1>9 DEF Ahead
  <2>2. Append(a.chain, x) \in Seq(Bucket) /\ Len(Append(a.chain, x)) = len + 1
        /\ ToSet(Append(a.chain, x)) = ToSet(a.chain) \cup {x}
    BY <1>2, AppendSet DEF len
  <2>3. NextToReuse(r.c, x) = k.cprev[x] /\ k.cprev[x] \in Bucket
    BY <1>2, <1>7, CacheFields DEF NextToReuse
  <2>4. b \in AheadRec /\ b.c = r.c /\ b.disk = r.disk /\ b.ok = a.ok /\ b.more = a.more
        /\ b.chain = Append(a.chain, x) /\ b.next = k.cprev[x]
    BY <2>1, <2>2, <2>3, <1>1, <1>7 DEF AheadRec
  <2> HIDE DEF b
  <2> DEFINE t == Append(a.chain, x)
  <2>5. \A y \in ToSet(a.chain) : y \in Bucket
    BY <1>2, InToSet
  <2>6. a.c.bnum \in [Bucket -> Block]
    BY <1>2, CacheFields
  <2>7. r.c.bnum[x] = m /\ \A y \in Bucket : y # x => r.c.bnum[y] = a.c.bnum[y]
    BY <1>2, <1>7, <1>9, <2>6
  <2>8. /\ \A y \in ToSet(a.chain) : y \notin a.c.inuse
        /\ \A y \in ToSet(a.chain) : a.c.bnum[y] < m
        /\ \A y, z \in ToSet(a.chain) : a.c.bnum[y] = a.c.bnum[z] => y = z
        /\ \A y \in ToSet(a.chain) : Holders(a.c, a.c.bnum[y]) = {}
    BY <1>1, <1>m DEF Lined, len
  <2>9. \A y \in Bucket : a.c.bnum[y] \in Nat
    BY <2>6 DEF Block
  <2>h. Lined(r.c, t, n)
    <3>1. \A y \in ToSet(t) : y = x \/ (y \in ToSet(a.chain) /\ y # x)
      BY <2>2
    <3>2. ASSUME NEW y \in ToSet(t) PROVE y \notin r.c.inuse
      BY <3>1, <1>7, <1>9, <2>8
    <3>3. ASSUME NEW y \in ToSet(t) PROVE r.c.bnum[y] < n + Len(t)
      <4>1. CASE y = x
        BY <4>1, <2>2, <2>7, <1>m, <1>3
      <4>2. CASE y # x
        <5>1. r.c.bnum[y] < m /\ r.c.bnum[y] \in Nat
          BY <4>2, <3>1, <2>5, <2>7, <2>8, <2>9
        <5> QED
          BY <5>1, <2>2, <1>m, <1>3
      <4> QED
        BY <4>1, <4>2
    <3>4. ASSUME NEW y \in ToSet(a.chain), y # x PROVE r.c.bnum[y] # m
      <4>1. r.c.bnum[y] < m /\ r.c.bnum[y] \in Nat
        BY <3>4, <2>5, <2>7, <2>8, <2>9
      <4> QED
        BY <4>1, <1>m
    <3>5. ASSUME NEW y \in ToSet(t), NEW z \in ToSet(t), r.c.bnum[y] = r.c.bnum[z] PROVE y = z
      <4>1. CASE y = x
        BY <4>1, <3>1, <3>4, <3>5, <2>7
      <4>2. CASE z = x
        BY <4>2, <3>1, <3>4, <3>5, <2>7
      <4>3. CASE y # x /\ z # x
        BY <4>3, <3>1, <3>5, <2>5, <2>7, <2>8
      <4> QED
        BY <4>1, <4>2, <4>3
    <3>6. ASSUME NEW y \in ToSet(t) PROVE Holders(r.c, r.c.bnum[y]) = {}
      <4>1. CASE y = x
        BY <4>1, <2>7, <1>4, <1>5, <1>6, <1>9
      <4>2. CASE y # x
        <5>1. y \in ToSet(a.chain) /\ y \in Bucket /\ r.c.bnum[y] = a.c.bnum[y] /\ a.c.bnum[y] \in Block
          BY <4>2, <3>1, <2>5, <2>6, <2>7
        <5> QED
          BY <5>1, <2>8, <1>6, <1>9
      <4> QED
        BY <4>1, <4>2
    <3> HIDE DEF t
    <3> QED
      BY <3>2, <3>3, <3>5, <3>6 DEF Lined
  <2>10. Underway(k, d, n, b)
    <3>1. Len(b.chain) > 0
      BY <2>2, <2>4, <1>3
    <3> QED
      BY <3>1, <2>4, <2>h, <1>1, <1>7 DEF Underway
  <2>11. Longer(k, n, a, b)
    BY <2>4, <1>1, <1>7, <1>9, <1>m DEF Longer, len
  <2> QED
    BY <2>10, <2>11 DEF b, r, m, len
<1> QED
  BY <1>7, <1>8, <1>9

\* One round of the read-ahead's loop.
AheadStep(n, bad, a) ==
  IF a.more /\ ~StopsAt(a.c, n + Len(a.chain))
  THEN Ahead(a, Reuse(a.c, a.disk, a.next, n + Len(a.chain), bad))
  ELSE [a EXCEPT !.more = FALSE]

\* A round of the loop keeps what holds of it.
LEMMA AheadStepKeeps ==
  ASSUME NEW k, NEW d, k \in Cache, NEW n \in Block, NEW a, Underway(k, d, n, a), NEW bad
  PROVE  Underway(k, d, n, AheadStep(n, bad, a)) /\ Longer(k, n, a, AheadStep(n, bad, a))
<1>1. CASE a.more /\ ~StopsAt(a.c, n + Len(a.chain))
  <2>1. AheadStep(n, bad, a) = Ahead(a, Reuse(a.c, a.disk, a.next, n + Len(a.chain), bad))
    BY <1>1 DEF AheadStep
  <2>2. LET b == Ahead(a, Reuse(a.c, a.disk, a.next, n + Len(a.chain), bad))
        IN  Underway(k, d, n, b) /\ Longer(k, n, a, b)
    BY <1>1, AheadKeeps
  <2> QED
    BY <2>1, <2>2
<1>2. CASE ~ (a.more /\ ~StopsAt(a.c, n + Len(a.chain)))
  <2> DEFINE b == [a EXCEPT !.more = FALSE]
  <2>1. AheadStep(n, bad, a) = b
    BY <1>2 DEF AheadStep
  <2>2. b \in AheadRec /\ b.c = a.c /\ b.disk = a.disk /\ b.ok = a.ok /\ b.more = FALSE
        /\ b.chain = a.chain /\ b.next = a.next
    BY DEF Underway, AheadRec
  <2> HIDE DEF b
  <2>3. Underway(k, d, n, b)
    BY <2>2 DEF Underway
  <2>4. Longer(k, n, a, b)
    BY <2>2 DEF Longer
  <2> QED
    BY <2>1, <2>3, <2>4
<1> QED
  BY <1>1, <1>2

\* The buckets before the tail, one after the other.
Round(k, R) ==
  /\ R \in [0..CacheSz -> Bucket] /\ R[0] = k.tail
  /\ \A i \in 1..CacheSz : R[i] = k.cprev[R[i - 1]]

\* The way back from the tail meets the tail again after CacheSz buckets only.
Circle(k, R) == Round(k, R) /\ \A i \in 1..CacheSz - 1 : R[i] # k.tail

\* After i rounds of the loop: the chain begins with the tail, and in a ring
\* that is intact the tail is still meant for block n.
Circling(k, n, R, i, a) ==
  /\ a.chain[1] = k.tail /\ Len(a.chain) <= i + 1
  /\ Circle(k, R) /\ a.ok => a.c.bnum[k.tail] = n /\ a.next = R[Len(a.chain)]

\* And the ring leads to a bucket that is not in the chain yet.
LEMMA CirclingOn ==
  ASSUME NEW k, NEW d, k \in Cache, NEW n \in Block, NEW R, NEW i \in 1..FillLen - 1,
         NEW a, Underway(k, d, n, a), Circling(k, n, R, i - 1, a),
         NEW b, Underway(k, d, n, b), Longer(k, n, a, b)
  PROVE  Circling(k, n, R, i, b)
<1> DEFINE len == Len(a.chain)
<1>1. a \in AheadRec /\ len > 0 /\ a.chain[1] = k.tail /\ len <= (i - 1) + 1
      /\ (Circle(k, R) /\ a.ok => a.c.bnum[k.tail] = n /\ a.next = R[len])
  BY DEF Underway, Circling
<1>2. a.c \in Cache /\ a.chain \in Seq(Bucket) /\ a.next \in Bucket
  BY <1>1 DEF AheadRec
<1>3. len \in Nat
  BY <1>2, LenProperties
<1> HIDE DEF len
<1>4. i \in Nat /\ i > 0 /\ i < FillLen /\ i < CacheSz /\ len <= i
  BY <1>1, <1>3, Sizes
<1>5. CASE b.chain = a.chain /\ b.next = a.next /\ (b.ok => a.ok /\ b.c = a.c)
  <2>1. b.chain[1] = k.tail /\ Len(b.chain) = len
    BY <1>1, <1>5 DEF len
  <2>2. len <= i + 1
    BY <1>3, <1>4
  <2>3. ASSUME Circle(k, R), b.ok PROVE b.c.bnum[k.tail] = n /\ b.next = R[len]
    BY <1>1, <1>5, <2>3
  <2> QED
    BY <2>1, <2>2, <2>3 DEF Circling
<1>6. CASE /\ b.chain = Append(a.chain, a.next) /\ b.next = k.cprev[a.next]
           /\ b.ok => a.ok /\ b.c.bnum = [a.c.bnum EXCEPT ![a.next] = n + Len(a.chain)]
  <2>1. Len(b.chain) = len + 1 /\ b.chain[1] = k.tail
    BY <1>1, <1>2, <1>3, <1>6, AppendProperties DEF len
  <2>2. len + 1 <= i + 1
    BY <1>3, <1>4
  <2>3. ASSUME Circle(k, R), b.ok PROVE b.c.bnum[k.tail] = n /\ b.next = R[len + 1]
    <3>1. a.ok /\ b.c.bnum = [a.c.bnum EXCEPT ![a.next] = n + Len(a.chain)]
      BY <1>6, <2>3
    <3>2. a.c.bnum[k.tail] = n /\ a.next = R[len]
      BY <1>1, <2>3, <3>1
    <3>3. len \in 1..CacheSz - 1 /\ len + 1 \in 1..CacheSz /\ (len + 1) - 1 = len
      BY <1>1, <1>3, <1>4, Sizes
    <3>4. R[len] # k.tail /\ R[len + 1] = k.cprev[R[len]]
      BY <2>3, <3>3 DEF Circle, Round
    <3>5. a.c.bnum \in [Bucket -> Block] /\ k.tail \in Bucket
      BY <1>2, CacheFields
    <3>6. b.c.bnum[k.tail] = a.c.bnum[k.tail]
      BY <3>1, <3>2, <3>4, <3>5
    <3> QED
      BY <1>6, <3>2, <3>4, <3>6
  <2> QED
    BY <2>1, <2>2, <2>3 DEF Circling
<1> QED
  BY <1>5, <1>6 DEF Longer

\* The read-ahead before its first round.
AheadStart(k, d) ==
  [c |-> k, disk |-> d, ok |-> TRUE, more |-> TRUE,
   chain |-> <<k.tail>>, next |-> NextToReuse(k, k.tail)]

\* A sequence of one element.
LEMMA SingleSet ==
  ASSUME NEW S, NEW x \in S
  PROVE  /\ <<x>> \in Seq(S) /\ Len(<<x>>) = 1 /\ <<x>>[1] = x /\ Once(<<x>>)
         /\ ToSet(<<x>>) = {x}
<1> DEFINE s == <<x>>
<1>1. s \in Seq(S) /\ Len(s) = 1 /\ s[1] = x
  OBVIOUS
<1> HIDE DEF s
<1>2. Once(s)
  BY <1>1 DEF Once
<1>3. \A y : y \in ToSet(s) <=> y = x
  BY <1>1, InToSet
<1>4. ToSet(s) = {x}
  BY <1>3
<1> QED
  BY <1>1, <1>2, <1>4 DEF s

\* The tail was just reused for block n, which no bucket holds.
Ready(k, d, n) ==
  /\ Good(k, d)
  /\ k.tail \notin k.inuse /\ k.bnum[k.tail] = n /\ Holders(k, n) = {}

\* The read-ahead begins with the tail.
LEMMA AheadStarts ==
  ASSUME NEW k, NEW d, NEW n \in Block, Ready(k, d, n), NEW R
  PROVE  Underway(k, d, n, AheadStart(k, d)) /\ Circling(k, n, R, 0, AheadStart(k, d))
<1> DEFINE a == AheadStart(k, d)
           s == <<k.tail>>
<1>1. k \in Cache /\ d \in Medium /\ Good(k, d) /\ k.tail \notin k.inuse
      /\ k.bnum[k.tail] = n /\ Holders(k, n) = {}
  BY DEF Ready, Good
<1>2. k.tail \in Bucket /\ k.cprev \in [Bucket -> Bucket]
  BY <1>1, CacheFields
<1>3. /\ s \in Seq(Bucket) /\ Len(s) = 1 /\ s[1] = k.tail /\ ToSet(s) = {k.tail}
  BY <1>2, SingleSet
<1>4. a = [c |-> k, disk |-> d, ok |-> TRUE, more |-> TRUE, chain |-> s, next |-> k.cprev[k.tail]]
  BY DEF AheadStart, NextToReuse
<1> HIDE DEF a, s
<1>5. /\ a \in AheadRec /\ a.c = k /\ a.disk = d /\ a.ok /\ a.more /\ a.chain = s
      /\ a.next = k.cprev[k.tail]
  BY <1>1, <1>2, <1>3, <1>4 DEF AheadRec
<1>6. Lined(k, s, n)
  <2>1. n < n + 1
    BY DEF Block
  <2> QED
    BY <1>1, <1>3, <2>1 DEF Lined
<1>7. Underway(k, d, n, a)
  <2>1. Settled(k, d, k, d)
    BY <1>1, SettledSelf
  <2>a. a.chain = s
    BY <1>5
  <2>b. Len(s) = 1
    BY <1>3
  <2>2. Len(a.chain) > 0
    BY <2>a, <2>b
  <2> QED
    BY <1>5, <1>6, <2>1, <2>2 DEF Underway
<1>8. Circle(k, R) => R[1] = k.cprev[k.tail]
  <2>1. 1 \in 1..CacheSz /\ 1 - 1 = 0
    BY Sizes
  <2> QED
    BY <2>1 DEF Circle, Round
<1>9. Circling(k, n, R, 0, a)
  <2>a. a.chain = s /\ a.c = k
    BY <1>5
  <2>b. Len(s) = 1 /\ s[1] = k.tail
    BY <1>3
  <2>1. a.chain[1] = k.tail /\ Len(a.chain) = 1 /\ a.c = k
    BY <2>a, <2>b
  <2>2. Circle(k, R) => a.c.bnum[k.tail] = n /\ a.next = R[1]
    BY <1>1, <1>5, <1>8
  <2> QED
    BY <2>1, <2>2 DEF Circling
<1> QED
  BY <1>7, <1>9 DEF a

\* The read-ahead ends with a chain of buckets that can be filled.
LEMMA ReadAheadKeeps ==
  ASSUME NEW k, NEW d, NEW n \in Block, Ready(k, d, n), NEW R, NEW bad
  PROVE  LET a == ReadAhead(k, d, n, bad)
         IN  Underway(k, d, n, a) /\ \E i \in Nat : Circling(k, n, R, i, a)
<1> DEFINE N == FillLen - 1
           S == {a \in AheadRec : Underway(k, d, n, a)}
           a0 == AheadStart(k, d)
           F == [p \in S \X (1..N) |-> AheadStep(n, bad, p[1])]
           body(f) == [i \in 0..N |->
                         IF i = 0
                         THEN [c |-> k, disk |-> d, ok |-> TRUE, more |-> TRUE,
                               chain |-> <<k.tail>>, next |-> NextToReuse(k, k.tail)]
                         ELSE LET a == f[i - 1]
                                  m == n + Len(a.chain)
                              IN  IF a.more /\ ~StopsAt(a.c, m)
                                  THEN Ahead(a, Reuse(a.c, a.disk, a.next, m, bad))
                                  ELSE [a EXCEPT !.more = FALSE]]
           ahead == CHOOSE f : f = body(f)
<1>0. k \in Cache
  BY DEF Ready, Good
<1>1. N \in Nat /\ 0 \in 0..N /\ N \in 0..N
  BY Sizes
<1>2. \A a : a \in S <=> Underway(k, d, n, a)
  BY DEF Underway
<1>3. ReadAhead(k, d, n, bad) = ahead[N]
  BY DEF ReadAhead
<1>4. \A f : body(f) = [i \in 0..N |-> IF i = 0 THEN a0 ELSE AheadStep(n, bad, f[i - 1])]
  BY DEF AheadStart, AheadStep
<1> HIDE DEF body, N, S, a0
<1>5. a0 \in S /\ Circling(k, n, R, 0, a0)
  BY <1>2, AheadStarts DEF a0
<1>6. \A a \in S : AheadStep(n, bad, a) \in S
  BY <1>0, <1>2, AheadStepKeeps
<1>7. \A a \in S, i \in 1..N : <<a, i>> \in S \X (1..N) /\ F[<<a, i>>] = AheadStep(n, bad, a)
  OBVIOUS
<1>8. F \in [S \X (1..N) -> S]
  BY <1>6
<1> HIDE DEF F
<1>9. PICK f : Solves(S, N, F, a0, f)
  BY <1>1, <1>5, <1>8, Solution DEF Recursive
<1>10. f = body(f)
  <2>1. f \in [0..N -> S] /\ f[0] = a0 /\ \A i \in 1..N : f[i] = F[<<f[i - 1], i>>]
    BY <1>9 DEF Solves
  <2>2. \A i \in 1..N : f[i] = AheadStep(n, bad, f[i - 1])
    <3> TAKE i \in 1..N
    <3>1. i - 1 \in 0..N
      BY <1>1
    <3> QED
      BY <2>1, <3>1, <1>7
  <2>3. \A i \in 0..N : i = 0 \/ i \in 1..N
    BY <1>1
  <2>4. f = [i \in 0..N |-> IF i = 0 THEN a0 ELSE AheadStep(n, bad, f[i - 1])]
    BY <2>1, <2>2, <2>3
  <2> QED
    BY <2>4, <1>4
<1>11. ahead = body(ahead)
  BY <1>10
<1> HIDE DEF ahead
<1>12. ahead[0] = a0 /\ \A i \in 1..N : ahead[i] = AheadStep(n, bad, ahead[i - 1])
  <2>1. ahead = [i \in 0..N |-> IF i = 0 THEN a0 ELSE AheadStep(n, bad, ahead[i - 1])]
    BY <1>11, <1>4
  <2>2. \A i \in 1..N : i \in 0..N /\ i # 0
    BY <1>1
  <2> QED
    BY <2>1, <2>2, <1>1
<1> DEFINE T == {p \in Nat \X S : Circling(k, n, R, p[1], p[2])}
<1>13. <<0, ahead[0]>> \in T
  BY <1>5, <1>12
<1>14. ASSUME NEW i \in 1..N, <<i - 1, ahead[i - 1]>> \in T
       PROVE  <<i, ahead[i]>> \in T
  <2> DEFINE a == ahead[i - 1]
             b == ahead[i]
  <2>1. a \in S /\ Circling(k, n, R, i - 1, a)
    BY <1>14
  <2>2. b = AheadStep(n, bad, a)
    BY <1>12
  <2> HIDE DEF a, b
  <2>3. Underway(k, d, n, a) /\ Underway(k, d, n, b) /\ Longer(k, n, a, b)
    BY <2>1, <2>2, <1>0, <1>2, AheadStepKeeps
  <2>4. i \in 1..FillLen - 1 /\ i \in Nat
    BY DEF N
  <2>5. Circling(k, n, R, i, b)
    BY <2>1, <2>3, <2>4, <1>0, CirclingOn
  <2>6. b \in S
    BY <2>3, <1>2
  <2> QED
    BY <2>4, <2>5, <2>6 DEF b
<1>15. \A i \in 0..N : <<i, ahead[i]>> \in T
  <2> HIDE DEF T
  <2> QED
    BY <1>1, <1>13, <1>14, Along
<1>16. <<N, ahead[N]>> \in T
  BY <1>1, <1>15
<1>17. ahead[N] \in S /\ Circling(k, n, R, N, ahead[N])
  BY <1>16
<1>18. Underway(k, d, n, ahead[N]) /\ \E i \in Nat : Circling(k, n, R, i, ahead[N])
  BY <1>1, <1>2, <1>17
<1> QED
  BY <1>3, <1>18

-----------------------------------------------------------------------------
(***************************************************************************)
(* Filling a chain.                                                        *)
(***************************************************************************)

\* A bucket that may be put into any hash chain: it is clean, and when it is
\* in use it holds what the medium holds, and no other bucket holds its block.
Calm(k, d, b) ==
  /\ b \notin k.dirty
  /\ b \in k.inuse => /\ Holders(k, k.bnum[b]) \subseteq {b}
                      /\ k.data[b] = d[k.bnum[b]]

\* No two buckets of C are meant for the same block.
Apart(k, C) == \A a, b \in C : k.bnum[a] = k.bnum[b] => a = b

\* The buckets of a chain before they are placed.
AllCalm(k, d, C) == Apart(k, C) /\ \A b \in C : Calm(k, d, b)

\* What filling the buckets C leaves.
FilledFrom(k, d, C, f) ==
  /\ Settled(k, d, f.c, d) /\ f.disk = d /\ f.ok \in BOOLEAN
  /\ f.c.bnum = k.bnum /\ f.c.tail = k.tail
  /\ f.ok => /\ AllCalm(f.c, d, C)
             /\ \A b \in C : b \in f.c.inuse /\ f.c.data[b] = d[k.bnum[b]]

\* Filling a chain changes no block; each filled bucket holds its own block.
LEMMA FillKeeps ==
  ASSUME NEW k, NEW d, Good(k, d), NEW C \in SUBSET Bucket, NEW bad,
         \A b \in C : b \notin k.inuse,
         Apart(k, C),
         \A b \in C : Holders(k, k.bnum[b]) = {}
  PROVE  FilledFrom(k, d, C, Fill(k, d, C, bad))
<1> DEFINE ns == {k.bnum[b] : b \in C}
           filled == {b \in C : Done(ns, k.bnum[b], bad)}
           x == [b \in Bucket |-> IF b \in filled THEN d[k.bnum[b]] ELSE k.data[b]]
           l == [k EXCEPT !.inuse = @ \cup filled, !.dirty = @ \ filled, !.data = x]
           ok == AllDone(ns, bad)
           f == Fill(k, d, C, bad)
<1>1. k \in Cache /\ d \in Medium /\ k.dirty \subseteq k.inuse /\ Listed(k) /\ Unique(k)
      /\ (\A b \in k.inuse : k.data[b] \in Data)
      /\ (\A b \in k.dirty : b \in Holders(k, k.bnum[b]))
      /\ \A n \in Block : \A b \in Holders(k, n) : b \in k.dirty \/ k.data[b] = d[n]
  BY DEF Good
<1>2. f = [c |-> [k EXCEPT !.inuse = @ \cup filled, !.dirty = @ \ filled,
                           !.data = [b \in Bucket |-> IF b \in filled THEN d[k.bnum[b]] ELSE @[b]]],
           disk |-> d, ok |-> ok]
  BY DEF Fill
<1>3. filled \subseteq C /\ (ok => C \subseteq filled)
  <2>1. \A b : ok => Done(ns, k.bnum[b], bad)
    BY TransferWithin
  <2> HIDE DEF ns, ok
  <2> QED
    BY <2>1
<1>4. ok \in BOOLEAN
  <2> HIDE DEF ns
  <2> QED
    BY DEF AllDone
<1> HIDE DEF filled, ok, ns
<1>5. k.bnum \in [Bucket -> Block] /\ k.inuse \subseteq Bucket /\ k.dirty \subseteq Bucket
      /\ k.data \in [Bucket -> Data \cup {NoData}]
  BY <1>1, CacheFields
<1>6. x \in [Bucket -> Data \cup {NoData}]
      /\ \A b \in Bucket : x[b] = IF b \in filled THEN d[k.bnum[b]] ELSE k.data[b]
  BY <1>1, <1>5 DEF Medium
<1>7. f.c = l /\ f.disk = d /\ f.ok = ok
  <2>1. f.disk = d /\ f.ok = ok
        /\ f.c = [k EXCEPT !.inuse = @ \cup filled, !.dirty = @ \ filled,
                           !.data = [b \in Bucket |-> IF b \in filled THEN d[k.bnum[b]] ELSE @[b]]]
    <3> HIDE DEF f
    <3> QED
      BY <1>2
  <2>2. [k EXCEPT !.inuse = @ \cup filled, !.dirty = @ \ filled,
                  !.data = [b \in Bucket |-> IF b \in filled THEN d[k.bnum[b]] ELSE @[b]]] = l
    BY <1>1 DEF Cache
  <2> QED
    BY <2>1, <2>2
<1> HIDE DEF x, f
<1>8. /\ l \in Cache /\ l.inuse = k.inuse \cup filled /\ l.dirty = k.dirty \ filled /\ l.data = x
      /\ l.bnum = k.bnum /\ l.tail = k.tail /\ l.hash = k.hash
  BY <1>1, <1>3, <1>6 DEF Cache
<1> HIDE DEF l
<1>9. l.dirty = k.dirty
  BY <1>1, <1>3, <1>8
<1>10. ASSUME NEW n \in Block, NEW b \in Holders(l, n)
       PROVE  \/ b \in Holders(k, n) /\ b \notin filled /\ l.data[b] = k.data[b]
              \/ b \in filled /\ k.bnum[b] = n /\ Holders(k, n) = {} /\ l.data[b] = d[n]
  <2>1. b \in Bucket /\ b \in l.inuse /\ l.bnum[b] = n /\ b \in ToSet(l.hash[Slot(n)])
    BY <1>8, HoldersAre DEF Holders
  <2>2. CASE b \in filled
    BY <2>1, <2>2, <1>3, <1>6, <1>8
  <2>3. CASE b \notin filled
    BY <2>1, <2>3, <1>6, <1>8 DEF Holders
  <2> QED
    BY <2>2, <2>3
<1>11. ASSUME NEW n \in Block PROVE Holders(k, n) \subseteq Holders(l, n)
  BY <1>8 DEF Holders
<1>12. Unique(l)
  <2> SUFFICES ASSUME NEW n \in Block, NEW a \in Holders(l, n), NEW b \in Holders(l, n)
               PROVE  a = b
    BY DEF Unique
  <2>1. CASE a \in Holders(k, n)
    BY <2>1, <1>1, <1>10 DEF Unique
  <2>2. CASE a \in filled /\ k.bnum[a] = n /\ Holders(k, n) = {}
    <3>1. b \in filled /\ k.bnum[b] = n
      BY <2>2, <1>10
    <3> QED
      BY <2>2, <3>1, <1>3 DEF Apart
  <2> QED
    BY <2>1, <2>2, <1>10
<1>13. \A n \in Block : \A b \in Holders(l, n) : b \in l.dirty \/ l.data[b] = d[n]
  BY <1>1, <1>9, <1>10
<1>14. Good(l, d)
  <2>1. Listed(l)
    BY <1>1, <1>8 DEF Listed
  <2>2. l.dirty \subseteq l.inuse
    BY <1>1, <1>8, <1>9
  <2>3. \A b \in l.inuse : l.data[b] \in Data
    <3> TAKE b \in l.inuse
    <3>1. b \in Bucket /\ l.data[b] = IF b \in filled THEN d[k.bnum[b]] ELSE k.data[b]
      BY <1>3, <1>5, <1>6, <1>8
    <3>2. d[k.bnum[b]] \in Data
      BY <3>1, <1>1, <1>5 DEF Medium
    <3> QED
      BY <3>1, <3>2, <1>1, <1>8
  <2>4. \A b \in l.dirty : b \in Holders(l, l.bnum[b])
    <3> TAKE b \in l.dirty
    <3>1. b \in Holders(k, k.bnum[b]) /\ k.bnum[b] \in Block
      BY <1>1, <1>5, <1>9
    <3> QED
      BY <3>1, <1>8, <1>11
  <2> QED
    BY <1>1, <1>8, <1>12, <1>13, <2>1, <2>2, <2>3, <2>4 DEF Good
<1>15. ASSUME NEW n \in Block PROVE Logical(l, d, n) = Logical(k, d, n)
  <2>1. ASSUME NEW b \in Holders(k, n) PROVE Logical(l, d, n) = Logical(k, d, n)
    <3>1. b \in Holders(l, n) /\ l.data[b] = k.data[b]
      BY <1>10, <1>11
    <3> QED
      BY <3>1, <1>1, <1>8, <1>12, LogicalHeld
  <2>2. ASSUME Holders(k, n) = {}, NEW b \in Holders(l, n)
        PROVE  Logical(l, d, n) = Logical(k, d, n)
    <3>1. l.data[b] = d[n]
      BY <2>2, <1>10
    <3>2. Logical(l, d, n) = l.data[b]
      BY <1>8, <1>12, LogicalHeld
    <3>3. Logical(k, d, n) = d[n]
      BY <2>2, <1>1, LogicalNone
    <3> QED
      BY <3>1, <3>2, <3>3
  <2>3. CASE Holders(k, n) = {} /\ Holders(l, n) = {}
    BY <2>3, <1>1, <1>8, LogicalNone
  <2> QED
    BY <2>1, <2>2, <2>3
<1>16. Settled(k, d, l, d)
  BY <1>14, <1>15 DEF Settled
<1>17. ASSUME ok
       PROVE  AllCalm(l, d, C) /\ \A b \in C : b \in l.inuse /\ l.data[b] = d[k.bnum[b]]
  <2>1. C = filled
    BY <1>3, <1>17
  <2>2. Apart(l, C)
    BY <1>8 DEF Apart
  <2>3. ASSUME NEW b \in C
        PROVE  b \in l.inuse /\ l.data[b] = d[k.bnum[b]] /\ Calm(l, d, b)
    <3>1. b \in l.inuse /\ l.data[b] = d[k.bnum[b]] /\ b \notin l.dirty /\ k.bnum[b] \in Block
      BY <2>1, <1>5, <1>6, <1>8
    <3>2. ASSUME NEW a \in Holders(l, k.bnum[b]) PROVE a = b
      <4>1. a \in filled /\ k.bnum[a] = k.bnum[b]
        BY <3>1, <1>10
      <4> QED
        BY <4>1, <1>3 DEF Apart
    <3> QED
      BY <3>1, <3>2, <1>8 DEF Calm
  <2> QED
    BY <2>2, <2>3 DEF AllCalm
<1> QED
  BY <1>4, <1>7, <1>8, <1>16, <1>17 DEF FilledFrom, f

-----------------------------------------------------------------------------
(***************************************************************************)
(* Moves in the ring and in the hash table.                                *)
(***************************************************************************)

\* The states of the walk of cplace.
WalkRec == [p : Bucket, count : [Bucket -> 0..MaxCount]]

\* A step of it.
WalkStep(k, w) ==
  IF w.count[w.p] > 1
  THEN [p |-> k.cnext[w.p], count |-> [w.count EXCEPT ![w.p] = @ - 1]]
  ELSE w

\* A step of the walk of cplace.
LEMMA WalkTyped ==
  ASSUME NEW k \in Cache, NEW w \in WalkRec
  PROVE  WalkStep(k, w) \in WalkRec
<1> DEFINE q == w.p
           u == w.count
<1>1. q \in Bucket /\ u \in [Bucket -> 0..MaxCount] /\ k.cnext \in [Bucket -> Bucket]
  BY CacheFields DEF WalkRec
<1>2. WalkStep(k, w) = IF u[q] > 1 THEN [p |-> k.cnext[q], count |-> [u EXCEPT ![q] = @ - 1]] ELSE w
  BY DEF WalkStep
<1> HIDE DEF q, u
<1>3. CASE u[q] > 1
  <2>1. u[q] - 1 \in 0..MaxCount
    BY <1>1, <1>3, Sizes
  <2>2. [u EXCEPT ![q] = @ - 1] \in [Bucket -> 0..MaxCount]
    BY <1>1, <2>1
  <2> QED
    BY <1>1, <1>2, <1>3, <2>2 DEF WalkRec
<1>4. CASE ~ (u[q] > 1)
  BY <1>2, <1>4
<1> QED
  BY <1>3, <1>4

\* Where the walk ends there is a bucket, and the use counts are counts.
LEMMA WalkEnds ==
  ASSUME NEW k \in Cache
  PROVE  LET walk[i \in 0..CacheSz * MaxCount] ==
               IF i = 0 THEN [p |-> Head0(k), count |-> k.count]
               ELSE LET w == walk[i - 1]
                    IN  IF w.count[w.p] > 1
                        THEN [p |-> k.cnext[w.p], count |-> [w.count EXCEPT ![w.p] = @ - 1]]
                        ELSE w
         IN  walk[CacheSz * MaxCount] \in WalkRec
<1> DEFINE N == CacheSz * MaxCount
           w0 == [p |-> Head0(k), count |-> k.count]
           body(f) == [i \in 0..N |->
                         IF i = 0 THEN [p |-> Head0(k), count |-> k.count]
                         ELSE LET w == f[i - 1]
                              IN  IF w.count[w.p] > 1
                                  THEN [p |-> k.cnext[w.p], count |-> [w.count EXCEPT ![w.p] = @ - 1]]
                                  ELSE w]
           walk == CHOOSE f : f = body(f)
           F == [x \in WalkRec \X (1..N) |-> WalkStep(k, x[1])]
<1>1. N \in Nat /\ 0 \in 0..N /\ N \in 0..N
  BY Sizes
<1>2. \A f : body(f) = [i \in 0..N |-> IF i = 0 THEN w0 ELSE WalkStep(k, f[i - 1])]
  BY DEF WalkStep
<1> HIDE DEF body, N
<1>3. w0 \in WalkRec
  BY CacheFields DEF WalkRec, Head0
<1> HIDE DEF w0
<1>4. F \in [WalkRec \X (1..N) -> WalkRec]
  BY WalkTyped
<1>5. \A w \in WalkRec, i \in 1..N : F[<<w, i>>] = WalkStep(k, w)
  OBVIOUS
<1> HIDE DEF F
<1>6. PICK f : Solves(WalkRec, N, F, w0, f)
  BY <1>1, <1>3, <1>4, Solution DEF Recursive
<1>7. f = body(f)
  <2>1. f \in [0..N -> WalkRec] /\ f[0] = w0 /\ \A i \in 1..N : f[i] = F[<<f[i - 1], i>>]
    BY <1>6 DEF Solves
  <2>2. \A i \in 1..N : f[i] = WalkStep(k, f[i - 1])
    <3> TAKE i \in 1..N
    <3>1. i - 1 \in 0..N
      BY <1>1
    <3> QED
      BY <2>1, <3>1, <1>5
  <2>3. \A i \in 0..N : i = 0 \/ i \in 1..N
    BY <1>1
  <2>4. f = [i \in 0..N |-> IF i = 0 THEN w0 ELSE WalkStep(k, f[i - 1])]
    BY <2>1, <2>2, <2>3
  <2> QED
    BY <2>4, <1>2
<1>8. walk = body(walk)
  BY <1>7
<1> HIDE DEF walk
<1>9. walk[0] = w0 /\ \A i \in 1..N : walk[i] = WalkStep(k, walk[i - 1])
  <2>1. walk = [i \in 0..N |-> IF i = 0 THEN w0 ELSE WalkStep(k, walk[i - 1])]
    BY <1>8, <1>2
  <2>2. \A i \in 1..N : i \in 0..N /\ i # 0
    BY <1>1
  <2> QED
    BY <2>1, <2>2, <1>1
<1> DEFINE T == Nat \X WalkRec
<1>10. <<0, walk[0]>> \in T
  BY <1>3, <1>9
<1>11. ASSUME NEW i \in 1..N, <<i - 1, walk[i - 1]>> \in T PROVE <<i, walk[i]>> \in T
  <2>1. walk[i - 1] \in WalkRec
    BY <1>11
  <2>2. walk[i] \in WalkRec
    BY <2>1, <1>9, WalkTyped
  <2> QED
    BY <2>2
<1>12. \A i \in 0..N : <<i, walk[i]>> \in T
  <2> HIDE DEF T
  <2> QED
    BY <1>1, <1>10, <1>11, Along
<1>13. walk[N] \in WalkRec
  <2>1. <<N, walk[N]>> \in T
    BY <1>1, <1>12
  <2> QED
    BY <2>1
<1> QED
  BY <1>13 DEF N, walk, body

\* New pointers and new use counts touch no block.
LEMMA RingMove ==
  ASSUME NEW k \in Cache, NEW l, NEW w \in [Bucket -> 0..MaxCount], NEW t \in Bucket,
         NEW x \in [Bucket -> Bucket], NEW y \in [Bucket -> Bucket],
         l = [k EXCEPT !.count = w, !.tail = t, !.cnext = x, !.cprev = y]
  PROVE  SameBlocks(k, l)
BY DEF Cache, SameBlocks

\* Placing a bucket in the ring touches no block, whatever the ring.
LEMMA CPlaceSame ==
  ASSUME NEW k \in Cache, NEW b \in Bucket
  PROVE  SameBlocks(k, CPlace(k, b))
<1> DEFINE N == CacheSz * MaxCount
           walk == CHOOSE f : f = [i \in 0..N |->
                         IF i = 0 THEN [p |-> Head0(k), count |-> k.count]
                         ELSE LET w == f[i - 1]
                              IN  IF w.count[w.p] > 1
                                  THEN [p |-> k.cnext[w.p], count |-> [w.count EXCEPT ![w.p] = @ - 1]]
                                  ELSE w]
           stop  == walk[N]
           p     == stop.p
           prev1 == [k.cprev EXCEPT ![k.cnext[b]] = k.cprev[b]]
           next1 == [k.cnext EXCEPT ![prev1[b]] = k.cnext[b]]
           prev2 == [prev1 EXCEPT ![b] = prev1[p]]
           next2 == [next1 EXCEPT ![b] = p]
           next3 == [next2 EXCEPT ![prev2[p]] = b]
           prev3 == [prev2 EXCEPT ![p] = b]
           tail1 == IF k.tail = b THEN prev1[b] ELSE k.tail
           l     == [k EXCEPT !.count = stop.count, !.tail  = tail1, !.cnext = next3, !.cprev = prev3]
<1>1. stop \in WalkRec
  BY WalkEnds
<1>2. CPlace(k, b) = [k EXCEPT !.count = stop.count, !.tail  = IF @ = b THEN prev1[b] ELSE @,
                               !.cnext = next3, !.cprev = [prev2 EXCEPT ![p] = b]]
  BY DEF CPlace
<1>w. stop.count \in [Bucket -> 0..MaxCount] /\ p \in Bucket
  <2> HIDE DEF stop
  <2> QED
    BY <1>1 DEF WalkRec
<1> HIDE DEF stop
<1>3. k.cnext \in [Bucket -> Bucket] /\ k.cprev \in [Bucket -> Bucket] /\ k.tail \in Bucket
  BY CacheFields
<1> HIDE DEF p
<1>4. prev1 \in [Bucket -> Bucket]
  BY <1>3
<1>5. tail1 \in Bucket
  <2> HIDE DEF prev1
  <2> QED
    BY <1>3, <1>4
<1>6. l = CPlace(k, b)
  <2> HIDE DEF prev1, next3, prev2
  <2> QED
    BY <1>2
<1> HIDE DEF prev1, tail1
<1>7. next1 \in [Bucket -> Bucket]
  BY <1>3, <1>4
<1>8. prev2 \in [Bucket -> Bucket]
  BY <1>w, <1>4
<1> HIDE DEF next1, prev2
<1>9. next2 \in [Bucket -> Bucket]
  BY <1>w, <1>7
<1> HIDE DEF next2
<1>10. next3 \in [Bucket -> Bucket] /\ prev3 \in [Bucket -> Bucket]
  BY <1>w, <1>8, <1>9
<1> HIDE DEF next3, prev3
<1>11. SameBlocks(k, l)
  BY <1>w, <1>5, <1>10, RingMove
<1> QED
  BY <1>6, <1>11

\* Neither does a cache hit.
LEMMA HitSame ==
  ASSUME NEW k \in Cache, NEW b \in Bucket, k.count[b] < MaxCount
  PROVE  SameBlocks(k, Hit(k, b))
<1> DEFINE k1 == [k EXCEPT !.count[b] = @ + 1]
           p  == k.cprev[b]
           next1 == [k.cnext EXCEPT ![k.cprev[p]] = b]
           prev1 == [k.cprev EXCEPT ![next1[b]] = p]
           next2 == [next1 EXCEPT ![p] = next1[b]]
           prev2 == [prev1 EXCEPT ![b] = prev1[p]]
           next3 == [next2 EXCEPT ![b] = p]
           prev3 == [prev2 EXCEPT ![p] = b]
           tail1 == IF k.tail = b THEN p ELSE k.tail
           w == [k.count EXCEPT ![b] = @ + 1]
           l == [k1 EXCEPT !.cnext = next3, !.cprev = prev3, !.tail = tail1]
<1>1. k.cnext \in [Bucket -> Bucket] /\ k.cprev \in [Bucket -> Bucket] /\ k.tail \in Bucket
      /\ k.count \in [Bucket -> 0..MaxCount]
  BY CacheFields
<1>2. w \in [Bucket -> 0..MaxCount]
  <2>1. k.count[b] + 1 \in 0..MaxCount
    BY <1>1, Sizes
  <2> QED
    BY <1>1, <2>1
<1>3. k1 = [k EXCEPT !.count = w]
  BY DEF Cache
<1>t. k1.tail = k.tail
  BY DEF Cache
<1>4. Hit(k, b) = k1 \/ Hit(k, b) = l
  <2>1. Hit(k, b) = IF k1.count[b] > k1.count[p] /\ b # Head0(k)
                    THEN [k1 EXCEPT !.cnext = next3, !.cprev = prev3, !.tail = IF @ = b THEN p ELSE @]
                    ELSE k1
    BY DEF Hit
  <2> HIDE DEF k1, next3, prev3, p
  <2> QED
    BY <2>1, <1>t
<1> HIDE DEF w
<1>5. p \in Bucket
  BY <1>1
<1> HIDE DEF p, k1
<1>6. next1 \in [Bucket -> Bucket] /\ tail1 \in Bucket
  BY <1>1, <1>5
<1> HIDE DEF next1
<1>7. prev1 \in [Bucket -> Bucket]
  BY <1>1, <1>5, <1>6
<1> HIDE DEF prev1
<1>8. next2 \in [Bucket -> Bucket] /\ prev2 \in [Bucket -> Bucket]
  BY <1>5, <1>6, <1>7
<1> HIDE DEF next2, prev2
<1>9. next3 \in [Bucket -> Bucket] /\ prev3 \in [Bucket -> Bucket]
  BY <1>5, <1>8
<1> HIDE DEF next3, prev3, tail1
<1>10. SameBlocks(k, k1)
  BY <1>2, <1>3 DEF Cache, SameBlocks
<1>11. SameBlocks(k1, l)
  BY <1>6, <1>9, <1>10 DEF Cache, SameBlocks
<1> QED
  BY <1>4, <1>10, <1>11 DEF SameBlocks

\* Bucket b moved to slot s, and nothing else changed.
Rehashed(k, l, s, b) ==
  /\ l \in Cache /\ Listed(l)
  /\ l.inuse = k.inuse /\ l.dirty = k.dirty /\ l.bnum = k.bnum /\ l.data = k.data
  /\ b \in ToSet(l.hash[s])
  /\ \A t \in Slots : \A a : a # b => (a \in ToSet(l.hash[t]) <=> a \in ToSet(k.hash[t]))
  /\ \A t \in Slots : t # s => b \notin ToSet(l.hash[t])

\* What hplace does to the hash table.
LEMMA HPlaceEffect ==
  ASSUME NEW k \in Cache, Listed(k), NEW s \in Slots, NEW b \in Bucket
  PROVE  Rehashed(k, HPlace(k, s, b), s, b)
<1> DEFINE h == [t \in Slots |-> LET rest == RemoveFirst(k.hash[t], b)
                                 IN  IF t = s THEN Cons(b, rest) ELSE rest]
           l == [k EXCEPT !.hash = h]
<1>1. HPlace(k, s, b) = l
  BY DEF HPlace, Cache
<1>2. ASSUME NEW t \in Slots
      PROVE  /\ h[t] \in Seq(Bucket) /\ Once(h[t])
             /\ ToSet(h[t]) = IF t = s THEN (ToSet(k.hash[t]) \ {b}) \cup {b} ELSE ToSet(k.hash[t]) \ {b}
  <2> DEFINE rest == RemoveFirst(k.hash[t], b)
  <2>1. k.hash[t] \in Seq(Bucket) /\ Once(k.hash[t])
    BY CacheFields DEF Listed
  <2>2. rest \in Seq(Bucket) /\ Once(rest) /\ ToSet(rest) = ToSet(k.hash[t]) \ {b}
    BY <2>1, RemoveProperties
  <2>3. h[t] = IF t = s THEN Cons(b, rest) ELSE rest
    OBVIOUS
  <2> HIDE DEF h, rest
  <2>4. Cons(b, rest) \in Seq(Bucket) /\ Once(Cons(b, rest))
        /\ ToSet(Cons(b, rest)) = ToSet(rest) \cup {b}
    BY <2>2, ConsProperties
  <2> QED
    BY <2>2, <2>3, <2>4
<1>3. DOMAIN h = Slots /\ h = [t \in Slots |-> h[t]]
  OBVIOUS
<1> HIDE DEF h
<1>4. h \in [Slots -> Seq(Bucket)]
  BY <1>2, <1>3
<1>5. l \in Cache /\ l.hash = h
      /\ l.inuse = k.inuse /\ l.dirty = k.dirty /\ l.bnum = k.bnum /\ l.data = k.data
  BY <1>4 DEF Cache
<1> HIDE DEF l
<1>6. Listed(l)
  BY <1>2, <1>5 DEF Listed
<1> QED
  BY <1>1, <1>2, <1>5, <1>6 DEF Rehashed

\* Whether a bucket is a holder depends on its own place only.
LEMMA RehashedHolders ==
  ASSUME NEW k \in Cache, NEW l, NEW s \in Slots, NEW b \in Bucket, Rehashed(k, l, s, b),
         NEW n \in Block, NEW a
  PROVE  /\ a # b => (a \in Holders(l, n) <=> a \in Holders(k, n))
         /\ b \in Holders(l, n) <=> Slot(n) = s /\ b \in k.inuse /\ k.bnum[b] = n
BY SlotInSlots DEF Rehashed, Holders

\* A bucket that holds a block goes to the front of the block's chain.
LEMMA RehashedHolder ==
  ASSUME NEW k, NEW d, Good(k, d), NEW n \in Block, NEW b \in Holders(k, n),
         NEW l, Rehashed(k, l, Slot(n), b)
  PROVE  Settled(k, d, l, d) /\ b \in Holders(l, n)
<1>1. k \in Cache
  BY DEF Good
<1>2. b \in Bucket /\ b \in k.inuse /\ k.bnum[b] = n /\ Slot(n) \in Slots
  BY <1>1, HoldersAre, SlotInSlots
<1>3. ASSUME NEW m \in Block, NEW a PROVE a \in Holders(l, m) <=> a \in Holders(k, m)
  <2>1. CASE a # b
    BY <1>1, <1>2, <2>1, RehashedHolders
  <2>2. CASE a = b /\ m = n
    BY <1>1, <1>2, <2>2, RehashedHolders
  <2>3. CASE a = b /\ m # n
    BY <1>1, <1>2, <2>3, RehashedHolders, HoldersAre
  <2> QED
    BY <2>1, <2>2, <2>3
<1>4. \A m \in Block : Holders(l, m) = Holders(k, m)
  BY <1>3
<1> QED
  BY <1>4, SettledByHolders DEF Rehashed

\* A calm bucket may go to any chain.
LEMMA RehashedCalm ==
  ASSUME NEW k, NEW d, Good(k, d), NEW b \in Bucket, Calm(k, d, b), NEW s \in Slots,
         NEW l, Rehashed(k, l, s, b)
  PROVE  /\ Settled(k, d, l, d)
         /\ \A a \in Bucket : Calm(k, d, a) /\ (a = b \/ k.bnum[a] # k.bnum[b]) => Calm(l, d, a)
<1>1. k \in Cache /\ d \in Medium /\ k.dirty \subseteq k.inuse /\ Unique(k)
      /\ (\A a \in k.inuse : k.data[a] \in Data)
      /\ (\A a \in k.dirty : a \in Holders(k, k.bnum[a]))
      /\ \A m \in Block : \A a \in Holders(k, m) : a \in k.dirty \/ k.data[a] = d[m]
  BY DEF Good
<1>2. /\ l \in Cache /\ Listed(l)
      /\ l.inuse = k.inuse /\ l.dirty = k.dirty /\ l.bnum = k.bnum /\ l.data = k.data
  BY DEF Rehashed
<1>3. k.bnum \in [Bucket -> Block] /\ k.inuse \subseteq Bucket /\ k.dirty \subseteq Bucket
  BY <1>1, CacheFields
<1>4. b \notin k.dirty /\ (b \in k.inuse => Holders(k, k.bnum[b]) \subseteq {b} /\ k.data[b] = d[k.bnum[b]])
  BY DEF Calm
<1>5. ASSUME NEW m \in Block, NEW a \in Holders(l, m)
      PROVE  \/ a # b /\ a \in Holders(k, m)
             \/ a = b /\ b \in k.inuse /\ k.bnum[b] = m
  BY <1>1, RehashedHolders
<1>6. ASSUME NEW m \in Block, NEW a \in Holders(k, m), a # b PROVE a \in Holders(l, m)
  BY <1>1, <1>6, RehashedHolders
<1>7. Unique(l)
  <2> SUFFICES ASSUME NEW m \in Block, NEW x \in Holders(l, m), NEW y \in Holders(l, m)
               PROVE  x = y
    BY DEF Unique
  <2>1. CASE x # b /\ y # b
    <3>1. x \in Holders(k, m) /\ y \in Holders(k, m)
      BY <2>1, <1>5
    <3> QED
      BY <3>1, <1>1 DEF Unique
  <2>2. CASE x = b \/ y = b
    <3>1. b \in k.inuse /\ k.bnum[b] = m
      BY <2>2, <1>5
    <3>2. Holders(k, m) \subseteq {b}
      BY <3>1, <1>4
    <3> QED
      BY <3>2, <1>5
  <2> QED
    BY <2>1, <2>2
<1>8. Good(l, d)
  <2>1. \A a \in l.dirty : a \in Holders(l, l.bnum[a])
    <3> TAKE a \in l.dirty
    <3>1. a # b /\ a \in Holders(k, k.bnum[a]) /\ k.bnum[a] \in Block
      BY <1>1, <1>2, <1>3, <1>4
    <3> QED
      BY <3>1, <1>2, <1>6
  <2>2. \A m \in Block : \A a \in Holders(l, m) : a \in l.dirty \/ l.data[a] = d[m]
    <3> TAKE m \in Block
    <3> TAKE a \in Holders(l, m)
    <3>1. CASE a # b /\ a \in Holders(k, m)
      BY <3>1, <1>1, <1>2
    <3>2. CASE a = b /\ b \in k.inuse /\ k.bnum[b] = m
      BY <3>2, <1>2, <1>4
    <3> QED
      BY <3>1, <3>2, <1>5
  <2> QED
    BY <1>1, <1>2, <1>7, <2>1, <2>2 DEF Good
<1>9. ASSUME NEW m \in Block PROVE Logical(l, d, m) = Logical(k, d, m)
  <2>1. CASE b \in k.inuse /\ k.bnum[b] = m
    <3>1. Holders(k, m) \subseteq {b} /\ Holders(l, m) \subseteq {b} /\ k.data[b] = d[m]
      BY <2>1, <1>4, <1>5
    <3>2. Logical(k, d, m) = d[m]
      <4>1. CASE Holders(k, m) = {}
        BY <4>1, <1>1, LogicalNone
      <4>2. CASE b \in Holders(k, m)
        BY <4>2, <3>1, <1>1, LogicalHeld
      <4> QED
        BY <3>1, <4>1, <4>2
    <3>3. Logical(l, d, m) = d[m]
      <4>1. CASE Holders(l, m) = {}
        BY <4>1, <1>2, LogicalNone
      <4>2. CASE b \in Holders(l, m)
        BY <4>2, <3>1, <1>2, <1>7, LogicalHeld
      <4> QED
        BY <3>1, <4>1, <4>2
    <3> QED
      BY <3>2, <3>3
  <2>2. CASE ~ (b \in k.inuse /\ k.bnum[b] = m)
    <3>1. ASSUME NEW a PROVE a \in Holders(l, m) <=> a \in Holders(k, m)
      <4>1. b \notin Holders(k, m)
        BY <2>2, <1>1, HoldersAre
      <4> QED
        BY <4>1, <2>2, <1>5, <1>6
    <3>2. CASE Holders(k, m) = {}
      <4>1. Holders(l, m) = {}
        BY <3>1, <3>2
      <4> QED
        BY <3>2, <4>1, <1>1, <1>2, LogicalNone
    <3>3. ASSUME NEW a \in Holders(k, m) PROVE Logical(l, d, m) = Logical(k, d, m)
      <4>1. a \in Holders(l, m)
        BY <3>1
      <4> QED
        BY <4>1, <1>1, <1>2, <1>7, LogicalHeld
    <3> QED
      BY <3>2, <3>3
  <2> QED
    BY <2>1, <2>2
<1>10. ASSUME NEW a \in Bucket, Calm(k, d, a), a = b \/ k.bnum[a] # k.bnum[b]
       PROVE  Calm(l, d, a)
  <2>1. a \notin k.dirty /\ (a \in k.inuse => Holders(k, k.bnum[a]) \subseteq {a} /\ k.data[a] = d[k.bnum[a]])
    BY <1>10 DEF Calm
  <2>2. ASSUME a \in k.inuse PROVE Holders(l, k.bnum[a]) \subseteq {a}
    <3>1. k.bnum[a] \in Block
      BY <1>3
    <3>2. \A x \in Holders(l, k.bnum[a]) : x \in Holders(k, k.bnum[a]) \/ (x = b /\ k.bnum[b] = k.bnum[a])
      BY <3>1, <1>5
    <3> QED
      BY <3>2, <2>1, <2>2, <1>10
  <2> QED
    BY <2>1, <2>2, <1>2 DEF Calm
<1> QED
  BY <1>8, <1>9, <1>10 DEF Settled

\* Moves in the ring leave a bucket calm.
LEMMA SameBlocksCalm ==
  ASSUME NEW k, NEW d, NEW l, SameBlocks(k, l), NEW b, Calm(k, d, b)
  PROVE  Calm(l, d, b)
<1>1. \A n : Holders(l, n) = Holders(k, n)
  BY DEF SameBlocks, Holders
<1> QED
  BY <1>1 DEF SameBlocks, Calm

\* What holds of the cache x while a chain of the buckets C is placed in k.
Placing(k, d, C, x) ==
  /\ Settled(k, d, x, d) /\ AllCalm(x, d, C)
  /\ x.inuse = k.inuse /\ x.dirty = k.dirty /\ x.bnum = k.bnum /\ x.data = k.data
  /\ \A m \in Block : Holders(x, m) \subseteq Holders(k, m) \cup C

\* Placing bucket b for block m.
PlaceStep(x, b, m) == HPlace(CPlace(x, b), Slot(m), b)

\* The slot of any number.
LEMMA SlotOfNat ==
  ASSUME NEW m \in Nat
  PROVE  Slot(m) \in Slots
<1>1. m % HashSz \in 0..HashSz - 1
  BY Sizes
<1> QED
  BY <1>1 DEF Slot, Slots

\* Placing one bucket of a chain.
LEMMA PlaceStepKeeps ==
  ASSUME NEW k, NEW d, NEW C \in SUBSET Bucket, NEW x, Placing(k, d, C, x), NEW b \in C,
         NEW m \in Nat
  PROVE  Placing(k, d, C, PlaceStep(x, b, m)) /\ b \in ToSet(PlaceStep(x, b, m).hash[Slot(m)])
<1> DEFINE y == CPlace(x, b)
           z == HPlace(y, Slot(m), b)
<1>1. /\ Settled(k, d, x, d) /\ AllCalm(x, d, C)
      /\ x.inuse = k.inuse /\ x.dirty = k.dirty /\ x.bnum = k.bnum /\ x.data = k.data
      /\ b \in Bucket /\ Slot(m) \in Slots
  BY SlotOfNat DEF Placing
<1>2. Good(x, d) /\ x \in Cache
  BY <1>1 DEF Settled, Good
<1>3. SameBlocks(x, y)
  BY <1>1, <1>2, CPlaceSame
<1>4. PlaceStep(x, b, m) = z
  BY DEF PlaceStep
<1> HIDE DEF y
<1>5. Settled(x, d, y, d)
  BY <1>2, <1>3, SameBlocksSettled
<1>6. Good(y, d) /\ y \in Cache /\ Listed(y)
  BY <1>5 DEF Settled, Good
<1>7. Rehashed(y, z, Slot(m), b)
  BY <1>1, <1>6, HPlaceEffect
<1> HIDE DEF z
<1>8. Apart(y, C) /\ \A a \in C : Calm(y, d, a)
  BY <1>1, <1>3, SameBlocksCalm DEF AllCalm, Apart, SameBlocks
<1>9. Settled(y, d, z, d)
      /\ \A a \in Bucket : Calm(y, d, a) /\ (a = b \/ y.bnum[a] # y.bnum[b]) => Calm(z, d, a)
  BY <1>1, <1>6, <1>7, <1>8, RehashedCalm
<1>10. Settled(k, d, z, d)
  BY <1>1, <1>5, <1>9, SettledTwice
<1>11. z.inuse = y.inuse /\ z.dirty = y.dirty /\ z.bnum = y.bnum /\ z.data = y.data
       /\ b \in ToSet(z.hash[Slot(m)])
  BY <1>7 DEF Rehashed
<1>12. AllCalm(z, d, C)
  <2>1. Apart(z, C)
    BY <1>8, <1>11 DEF Apart
  <2>2. \A a \in C : Calm(z, d, a)
    BY <1>8, <1>9 DEF Apart
  <2> QED
    BY <2>1, <2>2 DEF AllCalm
<1>14. ASSUME NEW j \in Block PROVE Holders(z, j) \subseteq Holders(k, j) \cup C
  <2>1. Holders(x, j) \subseteq Holders(k, j) \cup C
    BY DEF Placing
  <2>2. Holders(y, j) = Holders(x, j)
    BY <1>3 DEF SameBlocks, Holders
  <2>3. \A a : a # b => (a \in Holders(z, j) <=> a \in Holders(y, j))
    BY <1>1, <1>6, <1>7, RehashedHolders
  <2> QED
    BY <2>1, <2>2, <2>3
<1>13. Placing(k, d, C, z)
  BY <1>1, <1>3, <1>10, <1>11, <1>12, <1>14 DEF Placing, SameBlocks
<1> QED
  BY <1>4, <1>11, <1>13

\* Placing a chain touches no block, and its first bucket ends where it is found.
LEMMA PlaceKeeps ==
  ASSUME NEW k, NEW d, Good(k, d), NEW chain \in Seq(Bucket), Len(chain) > 0,
         AllCalm(k, d, ToSet(chain)), NEW n \in Block
  PROVE  /\ Placing(k, d, ToSet(chain), Place(k, chain, n))
         /\ chain[1] \in ToSet(Place(k, chain, n).hash[Slot(n)])
<1> DEFINE len == Len(chain)
           C == ToSet(chain)
           S == {x \in Cache : Placing(k, d, C, x)}
           step(x, i) == PlaceStep(x, chain[len - i + 1], n + (len - i))
           F == [p \in S \X (1..len) |-> step(p[1], p[2])]
           body(f) == [i \in 0..len |->
                         IF i = 0 THEN k
                         ELSE LET j == len - i
                              IN  HPlace(CPlace(f[i - 1], chain[j + 1]), Slot(n + j), chain[j + 1])]
           placed == CHOOSE f : f = body(f)
<1>1. len \in Nat /\ len > 0 /\ 0 \in 0..len /\ len \in 0..len /\ len \in 1..len
  BY LenProperties
<1>2. C \in SUBSET Bucket
  BY InToSet
<1>3. k \in Cache
  BY DEF Good
<1>4. Place(k, chain, n) = placed[len]
  BY DEF Place
<1>5. \A f : body(f) = [i \in 0..len |-> IF i = 0 THEN k ELSE step(f[i - 1], i)]
  BY DEF PlaceStep
<1>6. \A x : x \in S <=> Placing(k, d, C, x)
  BY DEF Placing, Settled, Good
<1> HIDE DEF body, S
<1>7. k \in S
  <2>1. Placing(k, d, C, k)
    BY SettledSelf DEF Placing
  <2> QED
    BY <2>1, <1>6
<1>8. ASSUME NEW i \in 1..len
      PROVE  chain[len - i + 1] \in C /\ n + (len - i) \in Nat
  <2>1. len - i + 1 \in 1..len /\ len - i \in Nat
    BY <1>1
  <2>2. n \in Nat
    BY DEF Block
  <2>3. chain[len - i + 1] \in C
    BY <2>1, InToSet
  <2> QED
    BY <2>1, <2>2, <2>3
<1>9. ASSUME NEW x \in S, NEW i \in 1..len
      PROVE  /\ step(x, i) \in S
             /\ chain[len - i + 1] \in ToSet(step(x, i).hash[Slot(n + (len - i))])
  <2> DEFINE b == chain[len - i + 1]
             m == n + (len - i)
  <2>1. b \in C /\ m \in Nat /\ Placing(k, d, C, x)
    BY <1>6, <1>8
  <2> HIDE DEF b, m, C
  <2>2. Placing(k, d, C, PlaceStep(x, b, m)) /\ b \in ToSet(PlaceStep(x, b, m).hash[Slot(m)])
    BY <2>1, <1>2, PlaceStepKeeps
  <2> QED
    BY <2>2, <1>6 DEF b, m
<1>10. F \in [S \X (1..len) -> S] /\ \A x \in S, i \in 1..len : F[<<x, i>>] = step(x, i)
  <2>1. \A x \in S, i \in 1..len : step(x, i) \in S
    BY <1>9
  <2> HIDE DEF step
  <2> QED
    BY <2>1
<1> HIDE DEF F, len, C
<1>11. PICK f : Solves(S, len, F, k, f)
  BY <1>1, <1>7, <1>10, Solution DEF Recursive
<1>12. f = body(f)
  <2>1. f \in [0..len -> S] /\ f[0] = k /\ \A i \in 1..len : f[i] = F[<<f[i - 1], i>>]
    BY <1>11 DEF Solves
  <2>2. \A i \in 1..len : f[i] = step(f[i - 1], i)
    <3> TAKE i \in 1..len
    <3>1. i - 1 \in 0..len
      BY <1>1
    <3>2. f[i - 1] \in S
      BY <2>1, <3>1
    <3> HIDE DEF step
    <3> QED
      BY <2>1, <3>2, <1>10
  <2>3. \A i \in 0..len : i = 0 \/ i \in 1..len
    BY <1>1
  <2> HIDE DEF step
  <2>4. f = [i \in 0..len |-> IF i = 0 THEN k ELSE step(f[i - 1], i)]
    BY <2>1, <2>2, <2>3
  <2> QED
    BY <2>4, <1>5
<1>13. placed = body(placed)
  BY <1>12
<1> HIDE DEF placed
<1>14. placed[0] = k /\ \A i \in 1..len : placed[i] = step(placed[i - 1], i)
  <2>1. placed = [i \in 0..len |-> IF i = 0 THEN k ELSE step(placed[i - 1], i)]
    BY <1>13, <1>5
  <2>2. \A i \in 1..len : i \in 0..len /\ i # 0
    BY <1>1
  <2> HIDE DEF step
  <2> QED
    BY <2>1, <2>2, <1>1
<1> DEFINE T == Nat \X S
<1>15. <<0, placed[0]>> \in T
  BY <1>7, <1>14
<1>16. ASSUME NEW i \in 1..len, <<i - 1, placed[i - 1]>> \in T PROVE <<i, placed[i]>> \in T
  <2>1. placed[i - 1] \in S
    BY <1>16
  <2>2. placed[i] \in S
    BY <2>1, <1>9, <1>14
  <2> QED
    BY <2>2
<1>17. \A i \in 0..len : <<i, placed[i]>> \in T
  <2> HIDE DEF T
  <2> QED
    BY <1>1, <1>15, <1>16, Along
<1>18. placed[len] \in S
  <2>1. <<len, placed[len]>> \in T
    BY <1>1, <1>17
  <2> QED
    BY <2>1
<1>19. chain[1] \in ToSet(placed[len].hash[Slot(n)])
  <2>1. len - 1 \in 0..len
    BY <1>1
  <2>2. <<len - 1, placed[len - 1]>> \in T
    BY <2>1, <1>17
  <2>3. placed[len - 1] \in S
    BY <2>2
  <2>4. len - len + 1 = 1 /\ n + (len - len) = n
    BY <1>1 DEF Block
  <2>5. chain[len - len + 1] \in ToSet(step(placed[len - 1], len).hash[Slot(n + (len - len))])
    BY <2>3, <1>1, <1>9
  <2>6. placed[len] = step(placed[len - 1], len)
    BY <1>1, <1>14
  <2> HIDE DEF step
  <2> QED
    BY <2>4, <2>5, <2>6
<1> QED
  BY <1>4, <1>6, <1>18, <1>19 DEF C

-----------------------------------------------------------------------------
(***************************************************************************)
(* getbucket.                                                              *)
(***************************************************************************)

\* The bucket g.b is the place of block n, whatever it holds.
Housed(g, n) ==
  /\ g.b \in Bucket /\ g.c.bnum[g.b] = n /\ g.b \in ToSet(g.c.hash[Slot(n)])
  /\ Holders(g.c, n) \subseteq {g.b}

\* What getbucket leaves and yields.
Got(k, d, n, fill, g) ==
  /\ Settled(k, d, g.c, g.disk) /\ g.b \in Bucket \cup {Absent}
  /\ g.b # Absent /\ ~fill => Housed(g, n)
  /\ g.b # Absent /\ fill /\ (\E R : Circle(k, R)) => g.c.data[g.b] = Logical(k, d, n)

\* A tail that was reused is ready for the block.
LEMMA ReadyAfterReuse ==
  ASSUME NEW k, NEW d, Good(k, d), NEW n \in Block, Find(k, n) = Absent, NEW bad,
         Reuse(k, d, k.tail, n, bad).ok
  PROVE  LET r == Reuse(k, d, k.tail, n, bad)
         IN  Ready(r.c, r.disk, n) /\ r.c.tail = k.tail
<1> DEFINE r == Reuse(k, d, k.tail, n, bad)
<1>1. k \in Cache /\ k.tail \in Bucket /\ k.bnum \in [Bucket -> Block]
  BY CacheFields DEF Good
<1>2. Reused(k, d, k.tail, n, r) /\ \A m \in Block : Holders(r.c, m) \subseteq Holders(k, m)
  BY <1>1, ReuseKeeps
<1>3. r.ok
  OBVIOUS
<1> HIDE DEF r
<1>4. Holders(k, n) = {}
  <2>1. ASSUME Holders(k, n) # {} PROVE FALSE
    <3>1. Absent \in Bucket
      BY <2>1, <1>1, FindMeans, HoldersAre
    <3> QED
      BY <3>1, AbsentBucket
  <2> QED
    BY <2>1
<1>5. Holders(r.c, n) = {}
  BY <1>2, <1>4
<1>6. Good(r.c, r.disk) /\ r.c.tail = k.tail /\ r.c.inuse = k.inuse \ {k.tail}
      /\ r.c.bnum = [k.bnum EXCEPT ![k.tail] = n]
  BY <1>2, <1>3 DEF Reused, Settled
<1>7. r.c.tail \notin r.c.inuse /\ r.c.bnum[r.c.tail] = n
  BY <1>1, <1>6
<1> QED
  BY <1>5, <1>6, <1>7 DEF Ready, r

\* A block that the cache holds.
LEMMA GetHit ==
  ASSUME NEW k, NEW d, Good(k, d), NEW n \in Block, Find(k, n) # Absent,
         k.count[Find(k, n)] < MaxCount, NEW fill, NEW bad
  PROVE  Got(k, d, n, fill, GetBucket(k, d, n, fill, bad))
<1> DEFINE b == Find(k, n)
           h == Hit(k, b)
           l == HPlace(h, Slot(n), b)
           g == GetBucket(k, d, n, fill, bad)
<1>1. k \in Cache /\ Unique(k)
  BY DEF Good
<1>2. b \in Holders(k, n) /\ b \in Bucket
  BY <1>1, FindMeans, HoldersAre
<1>3. g = [c |-> l, disk |-> d, b |-> b]
  BY DEF GetBucket
<1>4. k.count[b] < MaxCount
  OBVIOUS
<1> HIDE DEF g, b
<1>5. g.c = l /\ g.disk = d /\ g.b = b
  BY <1>3
<1>6. SameBlocks(k, h)
  BY <1>1, <1>2, <1>4, HitSame
<1> HIDE DEF h
<1>7. Settled(k, d, h, d)
  BY <1>6, SameBlocksSettled
<1>8. Good(h, d) /\ h \in Cache /\ Listed(h)
  BY <1>7 DEF Settled, Good
<1>9. Rehashed(h, l, Slot(n), b)
  BY <1>2, <1>8, SlotInSlots, HPlaceEffect
<1> HIDE DEF l
<1>10. b \in Holders(h, n)
  BY <1>2, <1>6 DEF SameBlocks, Holders
<1>11. Settled(h, d, l, d) /\ b \in Holders(l, n)
  BY <1>8, <1>9, <1>10, RehashedHolder
<1>12. Settled(k, d, l, d)
  BY <1>7, <1>11, SettledTwice
<1>13. l \in Cache /\ Unique(l)
  BY <1>12 DEF Settled, Good
<1>14. Holders(l, n) \subseteq {b} /\ l.bnum[b] = n /\ b \in ToSet(l.hash[Slot(n)])
  <2>1. Holders(l, n) \subseteq {b}
    BY <1>11, <1>13 DEF Unique
  <2> QED
    BY <2>1, <1>11 DEF Holders
<1>15. l.data[b] = Logical(k, d, n)
  <2>1. Logical(l, d, n) = l.data[b]
    BY <1>11, <1>13, LogicalHeld
  <2>2. Logical(l, d, n) = Logical(k, d, n)
    BY <1>12 DEF Settled
  <2> QED
    BY <2>1, <2>2
<1>16. Housed(g, n)
  BY <1>2, <1>5, <1>14 DEF Housed
<1>17. Got(k, d, n, fill, g)
  BY <1>2, <1>5, <1>12, <1>15, <1>16 DEF Got
<1> QED
  BY <1>17 DEF g

\* A block that is to be written.
LEMMA GetForWrite ==
  ASSUME NEW k, NEW d, NEW n \in Block, Ready(k, d, n)
  PROVE  LET g == [c |-> Place(k, <<k.tail>>, n), disk |-> d, b |-> k.tail]
         IN  Settled(k, d, g.c, d) /\ Housed(g, n)
<1> DEFINE s == <<k.tail>>
           l == Place(k, s, n)
           g == [c |-> l, disk |-> d, b |-> k.tail]
<1>1. Good(k, d) /\ k.tail \notin k.inuse /\ k.bnum[k.tail] = n /\ Holders(k, n) = {}
  BY DEF Ready
<1>2. k.tail \in Bucket /\ k.dirty \subseteq k.inuse
  BY <1>1, CacheFields DEF Good
<1>3. s \in Seq(Bucket) /\ Len(s) = 1 /\ s[1] = k.tail /\ ToSet(s) = {k.tail}
  BY <1>2, SingleSet
<1> HIDE DEF s
<1>4. AllCalm(k, d, {k.tail})
  BY <1>1, <1>2 DEF AllCalm, Apart, Calm
<1>5. Placing(k, d, {k.tail}, l) /\ k.tail \in ToSet(l.hash[Slot(n)])
  <2>1. AllCalm(k, d, ToSet(s)) /\ Len(s) > 0
    BY <1>3, <1>4
  <2>2. Placing(k, d, ToSet(s), Place(k, s, n)) /\ s[1] \in ToSet(Place(k, s, n).hash[Slot(n)])
    BY <1>1, <1>3, <2>1, PlaceKeeps
  <2> HIDE DEF l
  <2>3. Placing(k, d, ToSet(s), l) /\ s[1] \in ToSet(l.hash[Slot(n)])
    BY <2>2 DEF l
  <2> QED
    BY <1>3, <2>3
<1> HIDE DEF l
<1>6. Settled(k, d, l, d) /\ l.bnum[k.tail] = n /\ Holders(l, n) \subseteq {k.tail}
  BY <1>1, <1>5 DEF Placing
<1>7. g.c = l /\ g.b = k.tail /\ g.disk = d
  OBVIOUS
<1> HIDE DEF g
<1>8. Settled(k, d, g.c, d) /\ Housed(g, n)
  BY <1>2, <1>5, <1>6, <1>7 DEF Housed
<1> QED
  BY <1>8 DEF g, l, s

\* A block that is to be read in, with those that follow it.
LEMMA GetForRead ==
  ASSUME NEW k, NEW d, NEW n \in Block, Ready(k, d, n), NEW bad
  PROVE  LET g == ReadIn(n, ReadAhead(k, d, n, bad), bad)
         IN  /\ Settled(k, d, g.c, g.disk) /\ g.b \in Bucket \cup {Absent}
             /\ g.b # Absent /\ (\E R : Circle(k, R)) => g.c.data[g.b] = Logical(k, d, n)
<1> DEFINE a == ReadAhead(k, d, n, bad)
           C == ToSet(a.chain)
           f == Fill(a.c, a.disk, C, bad)
           l == Place(f.c, a.chain, n)
           g == ReadIn(n, a, bad)
<1>1. Underway(k, d, n, a) /\ \A R : \E i \in Nat : Circling(k, n, R, i, a)
  BY ReadAheadKeeps
<1>2. g = IF a.ok THEN IF f.ok THEN [c |-> l, disk |-> a.disk, b |-> Head(a.chain)]
                       ELSE [c |-> f.c, disk |-> f.disk, b |-> Absent]
          ELSE [c |-> a.c, disk |-> a.disk, b |-> Absent]
  BY DEF ReadIn, Filled, Failed
<1> HIDE DEF a, g
<1>3. a \in AheadRec /\ Settled(k, d, a.c, a.disk) /\ Len(a.chain) > 0
      /\ (a.ok => Lined(a.c, a.chain, n)) /\ Good(a.c, a.disk) /\ a.chain \in Seq(Bucket)
      /\ a.chain[1] = k.tail
  BY <1>1 DEF Underway, Settled, AheadRec, Circling
<1>4. CASE ~ a.ok
  <2>1. g.c = a.c /\ g.disk = a.disk /\ g.b = Absent
    BY <1>2, <1>4
  <2> QED
    BY <2>1, <1>3 DEF g, a
<1>5. CASE a.ok
  <2>1. C \in SUBSET Bucket /\ k.tail \in C /\ Head(a.chain) = k.tail
    <3>1. 1 \in 1..Len(a.chain)
      BY <1>3, LenProperties
    <3>2. a.chain # << >>
      BY <1>3
    <3> QED
      BY <3>1, <3>2, <1>3, InToSet
  <2>2. /\ \A b \in C : b \notin a.c.inuse
        /\ Apart(a.c, C)
        /\ \A b \in C : Holders(a.c, a.c.bnum[b]) = {}
    BY <1>3, <1>5 DEF Lined, Apart
  <2> HIDE DEF C
  <2>3. FilledFrom(a.c, a.disk, C, f)
    BY <1>3, <2>1, <2>2, FillKeeps
  <2> HIDE DEF f
  <2>4. Settled(k, d, f.c, a.disk) /\ Good(f.c, a.disk) /\ f.disk = a.disk
    <3>1. Settled(a.c, a.disk, f.c, a.disk) /\ f.disk = a.disk
      BY <2>3 DEF FilledFrom
    <3> QED
      BY <3>1, <1>3, SettledTwice DEF Settled
  <2>5. CASE ~ f.ok
    <3>1. g.c = f.c /\ g.disk = f.disk /\ g.b = Absent
      BY <1>2, <1>5, <2>5
    <3> QED
      BY <3>1, <2>4 DEF g, a
  <2>6. CASE f.ok
    <3>1. AllCalm(f.c, a.disk, C) /\ f.c.data[k.tail] = a.disk[a.c.bnum[k.tail]]
      BY <2>1, <2>3, <2>6 DEF FilledFrom
    <3>2. Placing(f.c, a.disk, C, l)
      BY <3>1, <1>3, <2>4, PlaceKeeps DEF C
    <3> HIDE DEF l
    <3>3. Settled(f.c, a.disk, l, a.disk) /\ l.data = f.c.data
      BY <3>2 DEF Placing
    <3>4. Settled(k, d, l, a.disk)
      BY <3>3, <2>4, SettledTwice
    <3>5. g.c = l /\ g.disk = a.disk /\ g.b = k.tail
      BY <1>2, <1>5, <2>1, <2>6
    <3>6. ASSUME NEW R, Circle(k, R) PROVE g.c.data[g.b] = Logical(k, d, n)
      <4>1. a.c.bnum[k.tail] = n
        BY <3>6, <1>1, <1>5 DEF Circling
      <4>2. Holders(a.c, n) = {} /\ a.c \in Cache
        BY <4>1, <1>3, <2>1, <2>2 DEF AheadRec
      <4>3. Logical(a.c, a.disk, n) = a.disk[n]
        BY <4>2, LogicalNone
      <4>4. Logical(k, d, n) = a.disk[n]
        BY <4>3, <1>3 DEF Settled
      <4> QED
        BY <4>1, <4>4, <3>1, <3>3, <3>5
    <3>7. k.tail \in Bucket
      BY <2>1
    <3> QED
      BY <3>4, <3>5, <3>6, <3>7 DEF g, a
  <2> QED
    BY <2>5, <2>6
<1> QED
  BY <1>4, <1>5

\* getbucket loses nothing, and yields the place of the block, or its contents.
LEMMA GetBucketKeeps ==
  ASSUME NEW k, NEW d, Good(k, d), NEW n \in Block,
         Find(k, n) # Absent => k.count[Find(k, n)] < MaxCount, NEW fill \in BOOLEAN, NEW bad
  PROVE  Got(k, d, n, fill, GetBucket(k, d, n, fill, bad))
<1> DEFINE r == Reuse(k, d, k.tail, n, bad)
           g == GetBucket(k, d, n, fill, bad)
<1>1. CASE Find(k, n) # Absent
  BY <1>1, GetHit
<1>2. CASE Find(k, n) = Absent
  <2>1. g = Missed(n, r, fill, bad)
    BY <1>2 DEF GetBucket
  <2>2. k.tail \in Bucket
    BY CacheFields DEF Good
  <2>3. Reused(k, d, k.tail, n, r)
    BY <2>2, ReuseKeeps
  <2>4. r.ok => Ready(r.c, r.disk, n) /\ r.c.tail = k.tail
    BY <1>2, ReadyAfterReuse
  <2> HIDE DEF r, g
  <2>5. Settled(k, d, r.c, r.disk) /\ r.ok \in BOOLEAN
        /\ \A R : Circle(k, R) => Circle(r.c, R)
    BY <2>3 DEF Reused, Circle, Round
  <2>6. CASE ~ r.ok
    <3>1. g = Failed(r)
      BY <2>1, <2>6 DEF Missed
    <3>2. g.c = r.c /\ g.disk = r.disk /\ g.b = Absent
      BY <3>1 DEF Failed
    <3>3. Got(k, d, n, fill, g)
      BY <3>2, <2>5 DEF Got
    <3> QED
      BY <3>3 DEF g
  <2>7. CASE r.ok /\ ~ fill
    <3> DEFINE h == [c |-> Place(r.c, <<r.c.tail>>, n), disk |-> r.disk, b |-> r.c.tail]
    <3>1. g = h
      BY <2>1, <2>7 DEF Missed
    <3>2. Settled(r.c, r.disk, h.c, r.disk) /\ Housed(h, n)
      BY <2>4, <2>7, GetForWrite
    <3>3. h.disk = r.disk
      OBVIOUS
    <3> HIDE DEF h
    <3>4. Settled(k, d, h.c, h.disk)
      BY <3>2, <3>3, <2>5, SettledTwice
    <3>5. Got(k, d, n, fill, g)
      BY <3>1, <3>2, <3>4, <2>7 DEF Got, Housed
    <3> QED
      BY <3>5 DEF g
  <2>8. CASE r.ok /\ fill
    <3> DEFINE h == ReadIn(n, ReadAhead(r.c, r.disk, n, bad), bad)
    <3>1. g = h
      BY <2>1, <2>8 DEF Missed
    <3>2. /\ Settled(r.c, r.disk, h.c, h.disk) /\ h.b \in Bucket \cup {Absent}
          /\ h.b # Absent /\ (\E R : Circle(r.c, R)) => h.c.data[h.b] = Logical(r.c, r.disk, n)
      BY <2>4, <2>8, GetForRead
    <3> HIDE DEF h
    <3>3. Settled(k, d, h.c, h.disk) /\ Logical(r.c, r.disk, n) = Logical(k, d, n)
      BY <3>2, <2>5, SettledTwice DEF Settled
    <3>4. Got(k, d, n, fill, g)
      BY <3>1, <3>2, <3>3, <2>5, <2>8 DEF Got
    <3> QED
      BY <3>4 DEF g
  <2> QED
    BY <2>5, <2>6, <2>7, <2>8
<1> QED
  BY <1>1, <1>2

-----------------------------------------------------------------------------
(***************************************************************************)
(* Writing into the bucket of a block.                                     *)
(***************************************************************************)

\* The block changes, and no other.
LEMMA ChangedKeeps ==
  ASSUME NEW g, NEW e, Good(g.c, e), NEW n \in Block, Housed(g, n), NEW x \in Data
  PROVE  /\ Good(Changed(g, x), e)
         /\ \A m \in Block : Logical(Changed(g, x), e, m) = IF m = n THEN x ELSE Logical(g.c, e, m)
<1> DEFINE k == g.c
           b == g.b
           l == [k EXCEPT !.data[b] = x, !.inuse = @ \cup {b}, !.dirty = @ \cup {b}]
           y == Changed(g, x)
<1>1. k \in Cache /\ e \in Medium /\ k.dirty \subseteq k.inuse /\ Listed(k) /\ Unique(k)
      /\ (\A a \in k.inuse : k.data[a] \in Data)
      /\ (\A a \in k.dirty : a \in Holders(k, k.bnum[a]))
      /\ \A m \in Block : \A a \in Holders(k, m) : a \in k.dirty \/ k.data[a] = e[m]
  BY DEF Good
<1>2. b \in Bucket /\ k.bnum[b] = n /\ b \in ToSet(k.hash[Slot(n)]) /\ Holders(k, n) \subseteq {b}
  BY DEF Housed
<1>3. b # Absent
  BY <1>2, AbsentBucket
<1>4. y = IF b \in k.inuse /\ k.data[b] = x THEN k ELSE l
  BY <1>3 DEF Changed
<1> HIDE DEF k, b, y
<1>5. CASE b \in k.inuse /\ k.data[b] = x
  <2>1. b \in Holders(k, n)
    BY <1>2, <1>5 DEF Holders
  <2>2. Logical(k, e, n) = x
    BY <2>1, <1>1, <1>5, LogicalHeld
  <2>3. y = k
    BY <1>4, <1>5
  <2> QED
    BY <2>2, <2>3 DEF k, y
<1>6. CASE ~ (b \in k.inuse /\ k.data[b] = x)
  <2>1. y = l
    BY <1>4, <1>6
  <2>2. k.data \in [Bucket -> Data \cup {NoData}] /\ k.bnum \in [Bucket -> Block]
        /\ k.inuse \subseteq Bucket /\ k.dirty \subseteq Bucket
    BY <1>1, CacheFields
  <2>3. /\ l \in Cache /\ l.inuse = k.inuse \cup {b} /\ l.dirty = k.dirty \cup {b}
        /\ l.data = [k.data EXCEPT ![b] = x] /\ l.bnum = k.bnum /\ l.hash = k.hash
    <3> DEFINE w == [k.data EXCEPT ![b] = x]
               u == k.inuse \cup {b}
               v == k.dirty \cup {b}
    <3>1. w \in [Bucket -> Data \cup {NoData}] /\ u \in SUBSET Bucket /\ v \in SUBSET Bucket
      BY <1>2, <2>2
    <3>2. l = [k EXCEPT !.data = w, !.inuse = u, !.dirty = v]
      OBVIOUS
    <3> HIDE DEF w, u, v, l
    <3>3. /\ l \in Cache /\ l.inuse = u /\ l.dirty = v /\ l.data = w /\ l.bnum = k.bnum
          /\ l.hash = k.hash
      BY <3>1, <3>2, <1>1 DEF Cache
    <3> QED
      BY <3>3 DEF w, u, v
  <2> HIDE DEF l
  <2>4. l.data[b] = x /\ \A a \in Bucket : a # b => l.data[a] = k.data[a]
    BY <1>2, <2>2, <2>3
  <2>5. Holders(l, n) = {b}
    <3>1. b \in Holders(l, n)
      BY <1>2, <2>3 DEF Holders
    <3>2. ASSUME NEW a \in Holders(l, n), a # b PROVE FALSE
      <4>1. a \in Holders(k, n)
        BY <3>2, <2>3 DEF Holders
      <4> QED
        BY <4>1, <3>2, <1>2
    <3> QED
      BY <3>1, <3>2
  <2>6. ASSUME NEW m \in Block, m # n PROVE Holders(l, m) = Holders(k, m) /\ b \notin Holders(k, m)
    BY <1>2, <2>3, <2>6 DEF Holders
  <2>7. Unique(l)
    <3> SUFFICES ASSUME NEW m \in Block, NEW a1 \in Holders(l, m), NEW a2 \in Holders(l, m)
                 PROVE  a1 = a2
      BY DEF Unique
    <3>1. CASE m = n
      BY <3>1, <2>5
    <3>2. CASE m # n
      BY <3>2, <2>6, <1>1 DEF Unique
    <3> QED
      BY <3>1, <3>2
  <2>8. Good(l, e)
    <3>1. Listed(l) /\ l.dirty \subseteq l.inuse
      BY <1>1, <2>3 DEF Listed
    <3>2. \A a \in l.inuse : l.data[a] \in Data
      BY <1>1, <2>2, <2>3, <2>4
    <3>3. \A a \in l.dirty : a \in Holders(l, l.bnum[a])
      <4> TAKE a \in l.dirty
      <4>1. CASE a = b
        BY <4>1, <1>2, <2>3, <2>5
      <4>2. CASE a # b
        <5>1. a \in Holders(k, k.bnum[a]) /\ k.bnum[a] \in Block
          BY <4>2, <1>1, <2>2, <2>3
        <5>2. k.bnum[a] # n
          BY <4>2, <5>1, <1>2
        <5> QED
          BY <5>1, <5>2, <2>3, <2>6
      <4> QED
        BY <4>1, <4>2
    <3>4. \A m \in Block : \A a \in Holders(l, m) : a \in l.dirty \/ l.data[a] = e[m]
      <4> TAKE m \in Block
      <4> TAKE a \in Holders(l, m)
      <4>1. CASE m = n
        BY <4>1, <2>3, <2>5
      <4>2. CASE m # n
        <5>1. a \in Holders(k, m) /\ a # b /\ a \in Bucket
          BY <4>2, <1>1, <2>6, HoldersAre
        <5> QED
          BY <5>1, <1>1, <2>3, <2>4
      <4> QED
        BY <4>1, <4>2
    <3> QED
      BY <1>1, <2>3, <2>7, <3>1, <3>2, <3>3, <3>4 DEF Good
  <2>c. l \in Cache /\ k \in Cache /\ Unique(k)
    BY <1>1, <2>3
  <2>9. ASSUME NEW m \in Block
        PROVE  Logical(l, e, m) = IF m = n THEN x ELSE Logical(k, e, m)
    <3>1. CASE m = n
      <4>1. b \in Holders(l, m)
        BY <3>1, <2>5
      <4>2. Logical(l, e, m) = l.data[b]
        BY <4>1, <2>c, <2>7, LogicalHeld
      <4> QED
        BY <3>1, <4>2, <2>4
    <3>2. CASE m # n /\ Holders(k, m) = {}
      BY <3>2, <2>c, <2>6, LogicalNone
    <3>3. ASSUME m # n, NEW a \in Holders(k, m)
          PROVE  Logical(l, e, m) = IF m = n THEN x ELSE Logical(k, e, m)
      <4>1. a \in Holders(l, m) /\ a # b /\ a \in Bucket
        BY <3>3, <1>1, <2>6, HoldersAre
      <4>2. Logical(l, e, m) = l.data[a] /\ Logical(k, e, m) = k.data[a]
        BY <3>3, <4>1, <2>c, <2>7, LogicalHeld
      <4> QED
        BY <3>3, <4>1, <4>2, <2>4
    <3> QED
      BY <3>1, <3>2, <3>3
  <2> QED
    BY <2>1, <2>8, <2>9 DEF k, y
<1> QED
  BY <1>5, <1>6

-----------------------------------------------------------------------------
(***************************************************************************)
(* The empty cache.                                                        *)
(***************************************************************************)

\* A cache that holds nothing is sound over every medium.
LEMMA EmptyGood ==
  ASSUME NEW d \in Medium
  PROVE  Good(EmptyCache, d) /\ \A n \in Block : Logical(EmptyCache, d, n) = d[n]
<1> DEFINE k == EmptyCache
           x == [b \in Bucket |-> (b % CacheSz) + 1]
           y == [b \in Bucket |-> IF b = 1 THEN CacheSz ELSE b - 1]
           w == [b \in Bucket |-> 0]
           z == [b \in Bucket |-> NoData]
           h == [s \in Slots |-> << >>]
<1>1. k = [inuse |-> {}, dirty |-> {}, count |-> w, bnum |-> w, data |-> z,
           cnext |-> x, cprev |-> y, tail |-> CacheSz, hash |-> h]
  BY DEF EmptyCache
<1>2. x \in [Bucket -> Bucket]
  <2>1. \A b \in Bucket : (b % CacheSz) + 1 \in Bucket
    <3> TAKE b \in Bucket
    <3>1. b \in Nat
      BY DEF Bucket
    <3>2. b % CacheSz \in 0..CacheSz - 1
      BY <3>1, Sizes
    <3> DEFINE q == b % CacheSz
    <3> HIDE DEF q
    <3>3. q \in 0..CacheSz - 1
      BY <3>2 DEF q
    <3>4. q + 1 \in Bucket
      BY <3>3, Sizes DEF Bucket
    <3> QED
      BY <3>4 DEF q
  <2> QED
    BY <2>1
<1>3. y \in [Bucket -> Bucket]
  BY Sizes DEF Bucket
<1>4. w \in [Bucket -> 0..MaxCount] /\ w \in [Bucket -> Block]
  BY Sizes DEF Block
<1>5. z \in [Bucket -> Data \cup {NoData}] /\ CacheSz \in Bucket
  BY Sizes DEF Bucket
<1>6. h \in [Slots -> Seq(Bucket)] /\ \A s \in Slots : h[s] = << >>
  OBVIOUS
<1> HIDE DEF k, x, y, w, z, h
<1>7. k \in Cache /\ k.inuse = {} /\ k.dirty = {} /\ k.hash = h
  BY <1>1, <1>2, <1>3, <1>4, <1>5, <1>6 DEF Cache
<1>8. Listed(k)
  BY <1>6, <1>7 DEF Listed, Once
<1>9. \A n \in Block : Holders(k, n) = {}
  BY <1>7 DEF Holders
<1>10. Good(k, d)
  BY <1>7, <1>8, <1>9 DEF Good, Unique
<1> QED
  BY <1>7, <1>9, <1>10, LogicalNone DEF k

-----------------------------------------------------------------------------
(***************************************************************************)
(* An intact ring.                                                         *)
(***************************************************************************)

\* The way round the ring, wherever it leads.
LEMMA RoundExists ==
  ASSUME NEW k \in Cache
  PROVE  LET round[i \in 0..CacheSz] == IF i = 0 THEN k.tail ELSE k.cprev[round[i - 1]]
         IN  Round(k, round)
<1> DEFINE N == CacheSz
           F == [p \in Bucket \X (1..N) |-> k.cprev[p[1]]]
           body(f) == [i \in 0..CacheSz |-> IF i = 0 THEN k.tail ELSE k.cprev[f[i - 1]]]
           round == CHOOSE f : f = body(f)
<1>1. N \in Nat /\ 0 \in 0..N
  BY Sizes
<1>2. k.cprev \in [Bucket -> Bucket] /\ k.tail \in Bucket
  BY CacheFields
<1>3. F \in [Bucket \X (1..N) -> Bucket] /\ \A x \in Bucket, i \in 1..N : F[<<x, i>>] = k.cprev[x]
  BY <1>2
<1> HIDE DEF F
<1>4. PICK f : Solves(Bucket, N, F, k.tail, f)
  BY <1>1, <1>2, <1>3, Solution DEF Recursive
<1>5. f \in [0..N -> Bucket] /\ f[0] = k.tail /\ \A i \in 1..N : f[i] = k.cprev[f[i - 1]]
  <2>1. f \in [0..N -> Bucket] /\ f[0] = k.tail /\ \A i \in 1..N : f[i] = F[<<f[i - 1], i>>]
    BY <1>4 DEF Solves
  <2>2. ASSUME NEW i \in 1..N PROVE f[i] = k.cprev[f[i - 1]]
    <3>1. i - 1 \in 0..N
      BY <1>1
    <3> QED
      BY <2>1, <3>1, <1>3
  <2> QED
    BY <2>1, <2>2
<1>6. \A i \in 0..N : i = 0 \/ i \in 1..N
  BY <1>1
<1>7. f = body(f)
  BY <1>5, <1>6
<1>8. round = body(round)
  <2> HIDE DEF body
  <2> QED
    BY <1>7
<1> HIDE DEF round
<1>9. round = [i \in 0..N |-> IF i = 0 THEN k.tail ELSE k.cprev[round[i - 1]]]
  BY <1>8
<1> HIDE DEF body
<1>10. round[0] = k.tail /\ \A i \in 1..N : round[i] = k.cprev[round[i - 1]]
  <2>1. \A i \in 1..N : i \in 0..N /\ i # 0
    BY <1>1
  <2> QED
    BY <2>1, <1>1, <1>9
<1> DEFINE T == Nat \X Bucket
<1>11. <<0, round[0]>> \in T
  BY <1>2, <1>10
<1>12. ASSUME NEW i \in 1..N, <<i - 1, round[i - 1]>> \in T PROVE <<i, round[i]>> \in T
  BY <1>2, <1>10, <1>12
<1>13. \A i \in 0..N : <<i, round[i]>> \in T
  <2> HIDE DEF T
  <2> QED
    BY <1>1, <1>11, <1>12, Along
<1>14. \A i \in 0..N : round[i] \in Bucket
  BY <1>13
<1>15. round \in [0..N -> Bucket]
  <2>1. DOMAIN round = 0..N /\ round = [i \in 0..N |-> round[i]]
    <3> DEFINE r == [i \in 0..N |-> IF i = 0 THEN k.tail ELSE k.cprev[round[i - 1]]]
    <3>1. DOMAIN r = 0..N /\ r = [i \in 0..N |-> r[i]]
      OBVIOUS
    <3>2. r = round
      BY <1>9
    <3> HIDE DEF r
    <3> QED
      BY <3>1, <3>2
  <2> QED
    BY <2>1, <1>14
<1>16. Round(k, round)
  BY <1>10, <1>15 DEF Round
<1> QED
  BY <1>16 DEF round, body

\* A way that meets every bucket within CacheSz steps meets none twice.
LEMMA AllMeansCircle ==
  ASSUME NEW k \in Cache, NEW R, Round(k, R), {R[i] : i \in 1..CacheSz} = Bucket
  PROVE  Circle(k, R)
<1>1. /\ R \in [0..CacheSz -> Bucket] /\ R[0] = k.tail
      /\ \A i \in 1..CacheSz : R[i] = k.cprev[R[i - 1]]
  BY DEF Round
<1> SUFFICES ASSUME NEW j \in 1..CacheSz - 1, R[j] = k.tail PROVE FALSE
  BY DEF Circle
<1>2. j \in Nat /\ j + 1 \in 1..CacheSz /\ 1 \in 1..CacheSz /\ j + 1 # 1 /\ (j + 1) - 1 = j
      /\ 1 - 1 = 0
  BY Sizes
<1>3. R[j + 1] = R[1]
  BY <1>1, <1>2
<1> DEFINE m == j + 1
           A == (1..CacheSz) \ {m}
           f == [i \in A |-> R[i]]
<1> HIDE DEF m
<1>4. m \in 1..CacheSz /\ 1 \in A /\ R[m] = R[1]
  BY <1>2, <1>3 DEF m
<1>5. \A b \in Bucket : \E i \in A : R[i] = b
  <2> TAKE b \in Bucket
  <2>1. PICK i \in 1..CacheSz : R[i] = b
    OBVIOUS
  <2> QED
    BY <2>1, <1>4
<1>6. \A i \in A : R[i] \in Bucket
  BY <1>1
<1>7. f \in Surjection(A, Bucket)
  <2>1. f \in [A -> Bucket] /\ \A i \in A : f[i] = R[i]
    BY <1>6
  <2> HIDE DEF f, A
  <2> QED
    BY <2>1, <1>5 DEF Surjection
<1>8. IsFiniteSet(1..CacheSz) /\ Cardinality(1..CacheSz) = CacheSz
  BY FS_Interval, Sizes
<1>9. IsFiniteSet(A) /\ Cardinality(A) = CacheSz - 1
  BY <1>4, <1>8, FS_RemoveElement
<1> HIDE DEF f, A
<1>10. Cardinality(Bucket) <= Cardinality(A)
  BY <1>7, <1>9, FS_Surjection
<1> QED
  BY <1>8, <1>9, <1>10, Sizes DEF Bucket

\* In an intact ring the way back from the tail is a circle.
LEMMA IntactMeans ==
  ASSUME c \in Cache, RingIntact
  PROVE  \E R : Circle(c, R)
<1> DEFINE round == CHOOSE f : f = [i \in 0..CacheSz |-> IF i = 0 THEN c.tail ELSE c.cprev[f[i - 1]]]
<1>1. {round[i] : i \in 1..CacheSz} = Bucket
  BY DEF RingIntact
<1>2. Round(c, round)
  BY RoundExists
<1> HIDE DEF round
<1>3. Circle(c, round)
  BY <1>1, <1>2, AllMeansCircle
<1> QED
  BY <1>3

-----------------------------------------------------------------------------
(***************************************************************************)
(* The calls.                                                              *)
(***************************************************************************)

\* The inductive invariant.
CacheInv ==
  /\ using \in BOOLEAN /\ answer \in Answer
  /\ Good(c, disk)
  /\ ~using => c = EmptyCache

\* At the start the cache is empty and the store is the medium.
LEMMA InitSound ==
  ASSUME Init
  PROVE  CacheInv /\ Store!Init
<1>1. using = FALSE /\ c = EmptyCache /\ disk \in Disks
      /\ answer = [op |-> "init", ok |-> FALSE, bnum |-> 0, data |-> NoData]
  BY DEF Init
<1>2. disk \in Medium
  BY <1>1, BoundAssumption DEF Medium
<1>3. Good(c, disk) /\ \A n \in Block : Logical(c, disk, n) = disk[n]
  BY <1>1, <1>2, EmptyGood
<1>4. 0 \in Block
  BY Sizes DEF Block
<1>5. answer \in Answer
  BY <1>1, <1>4 DEF Answer
<1>6. CacheInv
  BY <1>1, <1>3, <1>5 DEF CacheInv
<1>7. Store!Init
  <2>1. [n \in Block |-> Logical(c, disk, n)] = disk
    BY <1>2, <1>3 DEF Medium
  <2>2. answer \in [op : {"init"}, ok : {FALSE}, bnum : Block, data : {NoData}]
    BY <1>1, <1>4
  <2> QED
    BY <1>2, <2>1, <2>2 DEF Store!Init, Medium
<1> QED
  BY <1>6, <1>7

\* b_init changes no block.
LEMMA BInitStep ==
  ASSUME CacheInv, NEW ok \in BOOLEAN, BInit(ok)
  PROVE  CacheInv' /\ Store!Begin /\ answer'.op = "init"
<1>1. ~using /\ using' = ok /\ c' = EmptyCache /\ disk' = disk /\ c = EmptyCache
      /\ Good(c, disk) /\ answer' = [op |-> "init", ok |-> ok, bnum |-> 0, data |-> NoData]
  BY DEF BInit, Reply, CacheInv
<1>2. 0 \in Block
  BY Sizes DEF Block
<1>3. answer' \in [op : {"init"}, ok : BOOLEAN, bnum : Block, data : Data \cup {NoData}]
      /\ answer' \in Answer /\ answer'.op = "init"
  BY <1>1, <1>2 DEF Answer
<1>4. c' = c
  BY <1>1
<1>5. CacheInv'
  BY <1>1, <1>3, <1>4 DEF CacheInv
<1>6. Store!Begin
  BY <1>1, <1>3, <1>4 DEF Store!Begin, Store!Acked
<1> QED
  BY <1>3, <1>5, <1>6

\* A call that settles the cache and changes no block.
LEMMA SettledStep ==
  ASSUME CacheInv, Settled(c, disk, c', disk'), using' = using, answer' \in Answer,
         ~using => c' = c
  PROVE  /\ CacheInv' /\ Store!Settle
         /\ [n \in Block |-> Logical(c', disk', n)] = [n \in Block |-> Logical(c, disk, n)]
<1>1. Good(c', disk') /\ (\A n \in Block : Logical(c', disk', n) = Logical(c, disk, n))
      /\ \A n \in Block : disk'[n] = disk[n] \/ disk'[n] = Logical(c, disk, n)
  BY DEF Settled
<1>2. CacheInv'
  BY <1>1 DEF CacheInv
<1>3. disk' \in [Block -> Data]
  BY <1>1 DEF Good, Medium
<1>4. Store!Settle
  BY <1>1, <1>3 DEF Store!Settle
<1>5. [n \in Block |-> Logical(c', disk', n)] = [n \in Block |-> Logical(c, disk, n)]
  BY <1>1
<1> QED
  BY <1>2, <1>4, <1>5

\* A read changes no block, and in an intact ring it is right.
LEMMA BReadStep ==
  ASSUME CacheInv, NEW n \in Block, NEW bad \in BadSets, BReadLb(n, bad)
  PROVE  /\ CacheInv' /\ Store!Read
         /\ RingIntact /\ answer'.ok => answer'.data = Logical(c, disk, answer'.bnum)
<1>1. Good(c, disk) /\ c \in Cache /\ disk \in Medium
  BY DEF CacheInv, Good
<1>2. using' = using
  BY DEF BReadLb
<1>3. /\ Settled(c, disk, c', disk') /\ (~using => c' = c)
      /\ answer' \in [op : {"read"}, ok : BOOLEAN, bnum : Block, data : Data \cup {NoData}]
      /\ RingIntact /\ answer'.ok => answer'.data = Logical(c, disk, answer'.bnum)
  <2>1. CASE using
    <3> DEFINE g == GetBucket(c, disk, n, TRUE, bad)
    <3>1. /\ c' = g.c /\ disk' = g.disk
          /\ IF g.b = Absent THEN Reply("read", FALSE, n, NoData)
             ELSE Reply("read", TRUE, n, g.c.data[g.b])
      BY <2>1 DEF BReadLb
    <3>2. Find(c, n) # Absent => c.count[Find(c, n)] < MaxCount
      BY DEF BReadLb, Bounded
    <3>3. Got(c, disk, n, TRUE, g)
      BY <1>1, <3>2, GetBucketKeeps
    <3> HIDE DEF g
    <3>4. Settled(c, disk, c', disk') /\ g.b \in Bucket \cup {Absent} /\ g.c \in Cache
          /\ (g.b # Absent /\ (\E R : Circle(c, R)) => g.c.data[g.b] = Logical(c, disk, n))
      BY <3>1, <3>3 DEF Got, Settled, Good
    <3>5. CASE g.b = Absent
      <4>1. answer' = [op |-> "read", ok |-> FALSE, bnum |-> n, data |-> NoData]
        BY <3>1, <3>5 DEF Reply
      <4> QED
        BY <2>1, <3>4, <4>1
    <3>6. CASE g.b # Absent
      <4> DEFINE x == g.c.data[g.b]
      <4>1. answer' = [op |-> "read", ok |-> TRUE, bnum |-> n, data |-> x]
        BY <3>1, <3>6 DEF Reply
      <4>2. x \in Data \cup {NoData}
        BY <3>4, <3>6, CacheFields
      <4>3. RingIntact => x = Logical(c, disk, n)
        BY <1>1, <3>4, <3>6, IntactMeans
      <4> HIDE DEF x
      <4> QED
        BY <2>1, <3>4, <4>1, <4>2, <4>3
    <3> QED
      BY <3>5, <3>6
  <2>2. CASE ~ using
    <3>1. /\ c' = c /\ disk' = disk
          /\ IF n \in bad THEN Reply("read", FALSE, n, NoData) ELSE Reply("read", TRUE, n, disk[n])
      BY <2>2 DEF BReadLb
    <3>2. Settled(c, disk, c', disk')
      BY <1>1, <3>1, SettledSelf
    <3>3. Logical(c, disk, n) = disk[n]
      BY <1>1, <2>2, EmptyGood DEF CacheInv
    <3>4. CASE n \in bad
      <4>1. answer' = [op |-> "read", ok |-> FALSE, bnum |-> n, data |-> NoData]
        BY <3>1, <3>4 DEF Reply
      <4> QED
        BY <3>1, <3>2, <4>1
    <3>5. CASE n \notin bad
      <4>1. answer' = [op |-> "read", ok |-> TRUE, bnum |-> n, data |-> disk[n]]
        BY <3>1, <3>5 DEF Reply
      <4>2. disk[n] \in Data
        BY <1>1 DEF Medium
      <4> QED
        BY <3>1, <3>2, <3>3, <4>1, <4>2
    <3> QED
      BY <3>4, <3>5
  <2> QED
    BY <2>1, <2>2
<1>4. answer' \in Answer
  BY <1>3 DEF Answer
<1>5. /\ CacheInv' /\ Store!Settle
      /\ [m \in Block |-> Logical(c', disk', m)] = [m \in Block |-> Logical(c, disk, m)]
  BY <1>2, <1>3, <1>4, SettledStep
<1>6. Store!Read
  BY <1>3, <1>5 DEF Store!Read, Store!Acked
<1> QED
  BY <1>3, <1>5, <1>6

\* A write through the cache, or past it.
LEMMA BWriteStep ==
  ASSUME CacheInv, NEW n \in Block, NEW x \in Data, NEW bad \in BadSets, BWriteLb(n, x, bad)
  PROVE  CacheInv' /\ Store!Write /\ answer'.op = "write"
<1>1. Good(c, disk) /\ c \in Cache /\ disk \in Medium
  BY DEF CacheInv, Good
<1>2. using' = using
  BY DEF BWriteLb
<1> DEFINE S0 == [m \in Block |-> Logical(c, disk, m)]
           S1 == [m \in Block |-> Logical(c', disk', m)]
<1>3. /\ Good(c', disk') /\ (~using => c' = c)
      /\ answer' = [op |-> "write", ok |-> answer'.ok, bnum |-> n, data |-> x]
      /\ answer'.ok \in BOOLEAN
      /\ \A m \in Block : /\ Logical(c', disk', m) = IF answer'.ok /\ m = n THEN x ELSE Logical(c, disk, m)
                          /\ \/ disk'[m] = disk[m]
                             \/ disk'[m] = Logical(c, disk, m)
                             \/ disk'[m] = Logical(c', disk', m)
  <2>1. CASE using
    <3> DEFINE g == GetBucket(c, disk, n, FALSE, bad)
    <3>1. disk' = g.disk /\ c' = Changed(g, x) /\ Reply("write", g.b # Absent, n, x)
      BY <2>1 DEF BWriteLb
    <3>2. Find(c, n) # Absent => c.count[Find(c, n)] < MaxCount
      BY DEF BWriteLb, Bounded
    <3>3. Got(c, disk, n, FALSE, g)
      BY <1>1, <3>2, GetBucketKeeps
    <3> HIDE DEF g
    <3>4. Settled(c, disk, g.c, disk') /\ (g.b # Absent => Housed(g, n))
      BY <3>1, <3>3 DEF Got
    <3>5. Good(g.c, disk') /\ (\A m \in Block : Logical(g.c, disk', m) = Logical(c, disk, m))
          /\ \A m \in Block : disk'[m] = disk[m] \/ disk'[m] = Logical(c, disk, m)
      BY <3>4 DEF Settled
    <3>6. CASE g.b = Absent
      <4>1. c' = g.c
        BY <3>1, <3>6 DEF Changed
      <4>2. answer' = [op |-> "write", ok |-> FALSE, bnum |-> n, data |-> x]
        BY <3>1, <3>6 DEF Reply
      <4>3. answer'.ok = FALSE
        BY <4>2
      <4> QED
        BY <2>1, <3>5, <4>1, <4>2, <4>3
    <3>7. CASE g.b # Absent
      <4>1. Good(c', disk')
            /\ \A m \in Block : Logical(c', disk', m) = IF m = n THEN x ELSE Logical(g.c, disk', m)
        BY <3>1, <3>4, <3>5, <3>7, ChangedKeeps
      <4>2. answer' = [op |-> "write", ok |-> TRUE, bnum |-> n, data |-> x]
        BY <3>1, <3>7 DEF Reply
      <4>3. answer'.ok = TRUE
        BY <4>2
      <4> QED
        BY <2>1, <3>5, <4>1, <4>2, <4>3
    <3> QED
      BY <3>6, <3>7
  <2>2. CASE ~ using
    <3>1. /\ c' = c /\ disk' = IF n \in bad THEN disk ELSE [disk EXCEPT ![n] = x]
          /\ Reply("write", n \notin bad, n, x)
      BY <2>2 DEF BWriteLb
    <3>2. c = EmptyCache
      BY <2>2 DEF CacheInv
    <3>3. disk' \in Medium
      BY <1>1, <3>1 DEF Medium
    <3>4. Good(c', disk') /\ (\A m \in Block : Logical(c', disk', m) = disk'[m])
          /\ \A m \in Block : Logical(c, disk, m) = disk[m]
      BY <1>1, <3>1, <3>2, <3>3, EmptyGood
    <3>5. CASE n \in bad
      <4>1. answer' = [op |-> "write", ok |-> FALSE, bnum |-> n, data |-> x] /\ disk' = disk
        BY <3>1, <3>5 DEF Reply
      <4>2. answer'.ok = FALSE
        BY <4>1
      <4> QED
        BY <3>1, <3>4, <4>1, <4>2
    <3>6. CASE n \notin bad
      <4>1. answer' = [op |-> "write", ok |-> TRUE, bnum |-> n, data |-> x]
            /\ disk' = [disk EXCEPT ![n] = x]
        BY <3>1, <3>6 DEF Reply
      <4>2. answer'.ok = TRUE
        BY <4>1
      <4>3. \A m \in Block : disk'[m] = IF m = n THEN x ELSE disk[m]
        BY <1>1, <4>1 DEF Medium
      <4> QED
        BY <3>1, <3>4, <4>1, <4>2, <4>3
    <3> QED
      BY <3>5, <3>6
  <2> QED
    BY <2>1, <2>2
<1>4. answer' \in [op : {"write"}, ok : BOOLEAN, bnum : Block, data : Data \cup {NoData}]
  BY <1>3
<1>5. CacheInv'
  BY <1>2, <1>3, <1>4 DEF CacheInv, Answer
<1>6. answer'.bnum = n /\ answer'.data = x /\ answer'.op = "write"
  BY <1>3
<1>7. S1 = IF answer'.ok THEN [S0 EXCEPT ![answer'.bnum] = answer'.data] ELSE S0
  <2>1. CASE answer'.ok
    BY <1>3, <1>6, <2>1
  <2>2. CASE ~ answer'.ok
    BY <1>3, <2>2
  <2> QED
    BY <2>1, <2>2
<1>8. /\ disk' \in [Block -> Data]
      /\ \A m \in Block : disk'[m] \in {disk[m], S0[m], S1[m]}
  BY <1>3 DEF Good, Medium
<1>9. Store!Settle
  BY <1>8 DEF Store!Settle
<1>10. Store!Write
  BY <1>4, <1>7, <1>9 DEF Store!Write, Store!Acked
<1> QED
  BY <1>5, <1>6, <1>10

\* A flush that reports success leaves no difference.
LEMMA BFlushStep ==
  ASSUME CacheInv, NEW bad \in BadSets, BFlush(bad)
  PROVE  CacheInv' /\ Store!Flush /\ answer'.op = "flush"
<1> DEFINE f == Flush(c, disk, Bucket, bad)
<1>1. using /\ using' = using /\ c' = f.c /\ disk' = f.disk
      /\ answer' = [op |-> "flush", ok |-> f.ok, bnum |-> 0, data |-> NoData]
  BY DEF BFlush, Reply
<1>2. Good(c, disk)
  BY DEF CacheInv
<1>3. Flushed(c, disk, Bucket, f)
  BY <1>2, FlushKeeps
<1>4. f.ok => \A n \in Block : f.disk[n] = Logical(c, disk, n)
  BY <1>2, FlushAll
<1> HIDE DEF f
<1>5. Settled(c, disk, c', disk') /\ f.ok \in BOOLEAN
  BY <1>1, <1>3 DEF Flushed
<1>6. 0 \in Block
  BY Sizes DEF Block
<1>7. answer' \in [op : {"flush"}, ok : BOOLEAN, bnum : Block, data : Data \cup {NoData}]
      /\ answer' \in Answer /\ answer'.ok = f.ok /\ answer'.op = "flush"
  BY <1>1, <1>5, <1>6 DEF Answer
<1>8. /\ CacheInv' /\ Store!Settle
      /\ [n \in Block |-> Logical(c', disk', n)] = [n \in Block |-> Logical(c, disk, n)]
  BY <1>1, <1>5, <1>7, SettledStep
<1>9. answer'.ok => disk' = [n \in Block |-> Logical(c, disk, n)]
  <2>1. disk' \in [Block -> Data]
    BY <1>5 DEF Settled, Good, Medium
  <2> QED
    BY <2>1, <1>1, <1>4, <1>7
<1>10. Store!Flush
  BY <1>7, <1>8, <1>9 DEF Store!Flush, Store!Acked
<1> QED
  BY <1>7, <1>8, <1>10

\* The end of the cache leaves what the medium has.
LEMMA BFinishStep ==
  ASSUME CacheInv, NEW bad \in BadSets, BFinish(bad)
  PROVE  CacheInv' /\ Store!Finish /\ answer'.op = "finish"
<1> DEFINE f == Flush(c, disk, Bucket, bad)
<1>1. using' = FALSE /\ c' = EmptyCache /\ disk' = f.disk
      /\ answer' = [op |-> "finish", ok |-> f.ok, bnum |-> 0, data |-> NoData]
  BY DEF BFinish, Reply
<1>2. Good(c, disk)
  BY DEF CacheInv
<1>3. Flushed(c, disk, Bucket, f)
  BY <1>2, FlushKeeps
<1>4. f.ok => \A n \in Block : f.disk[n] = Logical(c, disk, n)
  BY <1>2, FlushAll
<1> HIDE DEF f
<1>5. Settled(c, disk, f.c, f.disk) /\ f.ok \in BOOLEAN
  BY <1>3 DEF Flushed
<1>6. 0 \in Block
  BY Sizes DEF Block
<1>7. answer' \in [op : {"finish"}, ok : BOOLEAN, bnum : Block, data : Data \cup {NoData}]
      /\ answer' \in Answer /\ answer'.ok = f.ok /\ answer'.op = "finish"
  BY <1>1, <1>5, <1>6 DEF Answer
<1>8. disk' \in [Block -> Data] /\ disk' \in Medium
      /\ \A n \in Block : disk'[n] = disk[n] \/ disk'[n] = Logical(c, disk, n)
  BY <1>1, <1>5 DEF Settled, Good, Medium
<1>9. Good(c', disk') /\ \A n \in Block : Logical(c', disk', n) = disk'[n]
  BY <1>1, <1>8, EmptyGood
<1>10. CacheInv'
  BY <1>1, <1>7, <1>9 DEF CacheInv
<1>11. [n \in Block |-> Logical(c', disk', n)] = disk'
  BY <1>8, <1>9
<1>12. answer'.ok => disk' = [n \in Block |-> Logical(c, disk, n)]
  BY <1>1, <1>4, <1>7, <1>8
<1>13. \A n \in Block : disk'[n] \in {disk[n], [m \in Block |-> Logical(c, disk, m)][n]}
  BY <1>8
<1>14. Store!Finish
  BY <1>7, <1>8, <1>11, <1>12, <1>13 DEF Store!Finish, Store!Acked
<1> QED
  BY <1>7, <1>10, <1>14

\* What IntactReadCurrent says of a step.
ReadsRight ==
  RingIntact /\ answer'.op = "read" /\ answer'.ok
    => answer'.data = Logical(c, disk, answer'.bnum)

\* Every call keeps the invariant and is a step of the store.
LEMMA NextSound ==
  ASSUME CacheInv, Next
  PROVE  CacheInv' /\ Store!Next /\ ReadsRight
<1>1. CASE \E ok \in BOOLEAN : BInit(ok)
  <2>1. CacheInv' /\ Store!Begin /\ answer'.op = "init"
    BY <1>1, BInitStep
  <2> QED
    BY <2>1 DEF ReadsRight, Store!Next
<1>2. CASE \E n \in Block, bad \in BadSets : BReadLb(n, bad)
  <2>1. /\ CacheInv' /\ Store!Read
        /\ RingIntact /\ answer'.ok => answer'.data = Logical(c, disk, answer'.bnum)
    BY <1>2, BReadStep
  <2> QED
    BY <2>1 DEF ReadsRight, Store!Next
<1>3. CASE \E w \in Writes, bad \in BadSets : BWriteLb(w[1], w[2], bad)
  <2>1. PICK w \in Writes, bad \in BadSets : BWriteLb(w[1], w[2], bad)
    BY <1>3
  <2>2. w[1] \in Block /\ w[2] \in Data
    BY BoundAssumption
  <2>3. CacheInv' /\ Store!Write /\ answer'.op = "write"
    BY <2>1, <2>2, BWriteStep
  <2> QED
    BY <2>3 DEF ReadsRight, Store!Next
<1>4. CASE \E bad \in BadSets : BFlush(bad)
  <2>1. CacheInv' /\ Store!Flush /\ answer'.op = "flush"
    BY <1>4, BFlushStep
  <2> QED
    BY <2>1 DEF ReadsRight, Store!Next
<1>5. CASE \E bad \in BadSets : BFinish(bad)
  <2>1. CacheInv' /\ Store!Finish /\ answer'.op = "finish"
    BY <1>5, BFinishStep
  <2> QED
    BY <2>1 DEF ReadsRight, Store!Next
<1> QED
  BY <1>1, <1>2, <1>3, <1>4, <1>5 DEF Next

\* So does a step that changes nothing.
LEMMA Idle ==
  ASSUME CacheInv, UNCHANGED vars
  PROVE  CacheInv' /\ UNCHANGED Store!vars
<1>1. using' = using /\ c' = c /\ disk' = disk /\ answer' = answer
  BY DEF vars
<1>2. CacheInv'
  BY <1>1 DEF CacheInv
<1>3. UNCHANGED Store!vars
  BY <1>1 DEF Store!vars
<1> QED
  BY <1>2, <1>3

\* The invariant holds in every reachable state, for every number of buckets and
\* slots, every volume and every choice of blocks that the medium refuses, and
\* however the ring is linked.
THEOREM CacheSound == Spec => []CacheInv
<1>1. Init => CacheInv
  BY InitSound
<1>2. CacheInv /\ [Next]_vars => CacheInv'
  BY NextSound, Idle
<1> QED
  BY <1>1, <1>2, PTL DEF Spec

\* The invariant contains the property.
LEMMA InvCoherent ==
  ASSUME CacheInv
  PROVE  CacheCoherent
<1>1. using \in BOOLEAN /\ answer \in Answer /\ c \in Cache /\ disk \in Medium /\ Unique(c)
      /\ c.dirty \subseteq c.inuse
      /\ (\A b \in c.dirty : b \in Holders(c, c.bnum[b]))
      /\ \A n \in Block : \A b \in Holders(c, n) : b \in c.dirty \/ c.data[b] = disk[n]
  BY DEF CacheInv, Good
<1>2. /\ c.inuse \subseteq Bucket /\ c.dirty \subseteq Bucket
      /\ c.count \in [Bucket -> 0..MaxCount] /\ c.bnum \in [Bucket -> Block]
      /\ c.data \in [Bucket -> Data \cup {NoData}]
      /\ c.cnext \in [Bucket -> Bucket] /\ c.cprev \in [Bucket -> Bucket]
      /\ c.tail \in Bucket /\ c.hash \in [Slots -> Seq(Bucket)]
  BY <1>1, CacheFields
<1>3. \A s \in Slots : ToSet(c.hash[s]) \subseteq Bucket
  <2> TAKE s \in Slots
  <2>1. c.hash[s] \in Seq(Bucket)
    BY <1>2
  <2> QED
    BY <2>1, InToSet
<1>4. TypeOK
  BY <1>1, <1>2, <1>3 DEF TypeOK, Medium
<1>5. DirtyFindable
  BY <1>1, <1>2, FindOnly DEF DirtyFindable
<1>6. CleanAgrees
  <2> SUFFICES ASSUME NEW n \in Block, Find(c, n) \notin c.dirty, Find(c, n) # Absent
               PROVE  c.data[Find(c, n)] = disk[n]
    BY DEF CleanAgrees
  <2>1. Find(c, n) \in Holders(c, n)
    BY <1>1, FindMeans
  <2> QED
    BY <2>1, <1>1
<1> QED
  BY <1>4, <1>5, <1>6 DEF CacheCoherent

\* CacheCoherent: the hash table, the flags, the buckets and the medium fit each
\* other (findbucket, block.c:375), whatever fails and however the ring is linked.
THEOREM CoherentCache == Spec => []CacheCoherent
<1>1. CacheInv => CacheCoherent
  BY InvCoherent
<1> QED
  BY <1>1, CacheSound, PTL

\* WriteBack: every call of block.c is a step of the write-back store BlockStore,
\* where a block has the contents of the bucket that findbucket yields for it, or
\* else the medium's.  BlockStore says what writes, flushes and failed calls do to
\* these contents and to the medium, and leaves open what a read returns: that
\* depends on the ring (IntactRingReads).
THEOREM ImplementsStore == Spec => WriteBack
<1>1. Init => Store!Init
  BY InitSound
<1>2. CacheInv /\ [Next]_vars => [Store!Next]_(Store!vars)
  BY NextSound, Idle
<1> QED
  BY <1>1, <1>2, CacheSound, PTL DEF Spec, WriteBack, Store!Spec

\* IntactReadCurrent: while the ring is intact, a read that succeeds returns the
\* current contents of the block (b_readlb, block.c:652).
THEOREM IntactRingReads == Spec => IntactReadCurrent
<1>1. CacheInv /\ [Next]_vars
        => [RingIntact /\ answer'.op = "read" /\ answer'.ok
              => answer'.data = Logical(c, disk, answer'.bnum)]_vars
  BY NextSound DEF ReadsRight
<1> QED
  BY <1>1, CacheSound, PTL DEF Spec, IntactReadCurrent
=============================================================================
