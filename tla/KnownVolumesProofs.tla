-------------------------- MODULE KnownVolumesProofs --------------------------
(***************************************************************************)
(* Proofs about KnownVolumes: the list of known volumes, the volume a      *)
(* command acts on and the partition maps, for any number of processes,    *)
(* drives, media and names, as long as none of the breaches has happened.  *)
(***************************************************************************)
EXTENDS KnownVolumes, SequenceTheorems, WellFoundedInduction, TLAPS

(***************************************************************************)
(* The list: what each command does to its copy.                           *)
(***************************************************************************)
\* A set of natural numbers has a least one.
LEMMA Least ==
  ASSUME NEW S \in SUBSET Nat, S # {}
  PROVE  \E x \in S : \A y \in S : x <= y
<1>1. \E R : IsWellFoundedOn(R, Nat) /\ \A x, y \in Nat : y < x => <<y, x>> \in R
  <2> DEFINE R == OpToRel(<, Nat)
  <2>1. IsWellFoundedOn(R, Nat)
    BY NatLessThanWellFounded, Zenon
  <2>2. \A x, y \in Nat : y < x => <<y, x>> \in R
    BY DEF OpToRel
  <2> QED
    BY <2>1, <2>2, Zenon
<1>2. PICK R : IsWellFoundedOn(R, Nat) /\ \A x, y \in Nat : y < x => <<y, x>> \in R
  BY <1>1
<1>3. \E x \in S : \A y \in S : <<y, x>> \notin R
  BY <1>2, WFMin, Zenon
<1>4. PICK x \in S : \A y \in S : <<y, x>> \notin R
  BY <1>3
<1>5. ASSUME NEW y \in S PROVE x <= y
  <2>1. x \in Nat /\ y \in Nat /\ ~ (y < x)
    BY <1>2, <1>4
  <2> QED
    BY <2>1
<1> QED
  BY <1>4, <1>5

LEMMA FirstIn ==
  ASSUME NEW S \in SUBSET Nat, S # {}
  PROVE  First(S) \in S
<1>1. \E x \in S : \A y \in S : x <= y
  BY Least
<1> QED
  BY <1>1 DEF First

\* the lists there can be
Table == {t \in [cur : Nat, list : Seq(Entry)] : t.cur <= Len(t.list)}

\* each volume once
Distinct(t) == \A i, j \in DOMAIN t.list : Key(t.list[i]) = Key(t.list[j]) => i = j

LEMMA TableFields ==
  ASSUME NEW t \in Table
  PROVE  /\ t.cur \in Nat /\ t.list \in Seq(Entry) /\ t.cur <= Len(t.list)
         /\ t = [cur |-> t.cur, list |-> t.list]
         /\ DOMAIN t.list = 1..Len(t.list) /\ Len(t.list) \in Nat
         /\ \A i \in DOMAIN t.list : t.list[i] \in Entry
BY DEF Table

LEMMA MakesTable ==
  ASSUME NEW list \in Seq(Entry), NEW cur \in 0..Len(list)
  PROVE  [cur |-> cur, list |-> list] \in Table
BY DEF Table

LEMMA NoTableTable == NoTable \in Table /\ Distinct(NoTable)
BY DEF NoTable, Table, Distinct

LEMMA KnowsTable ==
  ASSUME NEW t \in Table
  PROVE  /\ Knows(t).known = {t.list[i] : i \in 1..Len(t.list)}
         /\ t.cur # 0 => Knows(t).cur = Key(t.list[t.cur])
         /\ t.cur = 0 => Knows(t).cur = << >>
         /\ Knows(t) = [cur |-> Knows(t).cur, known |-> Knows(t).known]
BY TableFields DEF Knows, Range

LEMMA ChooseTable ==
  ASSUME NEW t \in Table, NEW i \in 1..Len(t.list)
  PROVE  /\ [t EXCEPT !.cur = i] \in Table
         /\ Distinct(t) => Distinct([t EXCEPT !.cur = i])
         /\ Knows([t EXCEPT !.cur = i]) = Told(Knows(t), [what |-> "chose", key |-> Key(t.list[i])])
         /\ i = t.cur => [t EXCEPT !.cur = i] = t
<1> DEFINE u == [cur |-> i, list |-> t.list]
           done == [what |-> "chose", key |-> Key(t.list[i])]
<1>1. [t EXCEPT !.cur = i] = u /\ (i = t.cur => u = t)
  BY TableFields
<1>2. u \in Table /\ u.cur = i /\ u.list = t.list
  BY TableFields, MakesTable
<1>3. Distinct(t) => Distinct(u)
  BY DEF Distinct
<1>4. Knows(u) = [cur |-> Key(t.list[i]), known |-> Knows(t).known]
  <2>1. i # 0
    OBVIOUS
  <2>2. Knows(u).known = Knows(t).known /\ Knows(u).cur = Key(t.list[i])
    BY <1>2, <2>1 DEF Knows
  <2> HIDE DEF u
  <2> QED
    BY <1>2, <2>2, KnowsTable, Zenon
<1>5. Told(Knows(t), done) = [cur |-> Key(t.list[i]), known |-> Knows(t).known]
  <2>1. done.what = "chose" /\ done.key = Key(t.list[i])
    OBVIOUS
  <2> HIDE DEF done
  <2> QED
    BY <2>1 DEF Told
<1> HIDE DEF u, done
<1>6. Knows(u) = Told(Knows(t), done)
  BY <1>4, <1>5
<1> QED
  BY <1>1, <1>2, <1>3, <1>6 DEF done

\* the table after hcwd_setcwd
LEMMA MoveTable ==
  ASSUME NEW t \in Table, t.cur # 0, NEW dir \in Dir \cup {Root}
  PROVE  LET u    == [t EXCEPT !.list[t.cur].cwd = dir]
             done == [what |-> "moved", key |-> Key(t.list[t.cur]), cwd |-> dir]
         IN  /\ u \in Table
             /\ Distinct(t) => Distinct(u) /\ Knows(u) = Told(Knows(t), done)
<1> DEFINE c == t.cur
           e == [t.list[c] EXCEPT !.cwd = dir]
           list == [t.list EXCEPT ![c] = e]
           u == [cur |-> c, list |-> list]
           done == [what |-> "moved", key |-> Key(t.list[c]), cwd |-> dir]
<1>1. c \in 1..Len(t.list) /\ t.list \in Seq(Entry)
  BY TableFields
<1>2. t.list[c] \in Entry /\ e \in Entry /\ Key(e) = Key(t.list[c])
  <2>1. t.list[c] \in Entry
    BY <1>1, TableFields
  <2> QED
    BY <2>1 DEF Entry, Key
<1>3. [t EXCEPT !.list[t.cur].cwd = dir] = u
  <2>1. t = [cur |-> t.cur, list |-> t.list]
    BY TableFields
  <2> QED
    BY <2>1
<1>4. /\ list \in Seq(Entry) /\ Len(list) = Len(t.list) /\ list[c] = e
      /\ \A i \in 1..Len(t.list) : i # c => list[i] = t.list[i]
  <2> HIDE DEF e
  <2> QED
    BY <1>1, <1>2, ExceptSeq
<1>5. u \in Table /\ u.cur = c /\ u.list = list
  <2>1. c \in 0..Len(list)
    BY <1>1, <1>4
  <2> HIDE DEF list, c
  <2> QED
    BY <1>4, <2>1, MakesTable
<1>6. \A i \in 1..Len(list) : Key(list[i]) = Key(t.list[i])
  BY <1>2, <1>4
<1>7. ASSUME Distinct(t) PROVE Distinct(u)
  <2>1. DOMAIN list = 1..Len(list) /\ DOMAIN t.list = 1..Len(list)
    BY <1>1, <1>4
  <2> HIDE DEF list, u
  <2> QED
    BY <1>5, <1>6, <1>7, <2>1 DEF Distinct
<1>8. ASSUME Distinct(t) PROVE Knows(u) = Told(Knows(t), done)
  <2> DEFINE all == {t.list[i] : i \in 1..Len(t.list)}
             others == {x \in all : Key(x) # Key(t.list[c])}
             known == others \cup {[x EXCEPT !.cwd = dir] : x \in all \ others}
  <2>1. Knows(t).known = all
    BY KnowsTable
  <2>2. Told(Knows(t), done) = [cur |-> Key(t.list[c]), known |-> known]
    <3>1. done.what = "moved" /\ done.key = Key(t.list[c]) /\ done.cwd = dir
      OBVIOUS
    <3> HIDE DEF done
    <3> QED
      BY <2>1, <3>1 DEF Told
  <2>3. others = {t.list[i] : i \in (1..Len(t.list)) \ {c}}
    BY <1>1, <1>8, TableFields DEF Distinct
  <2>4. all \ others = {t.list[c]}
    BY <1>1, <1>8, TableFields DEF Distinct
  <2>5. known = {list[i] : i \in 1..Len(list)}
    <3>1. {[x EXCEPT !.cwd = dir] : x \in all \ others} = {e}
      BY <2>4
    <3> HIDE DEF all, others, list, e
    <3>2. known = others \cup {e}
      BY <3>1
    <3> QED
      BY <1>1, <1>4, <2>3, <3>2
  <2>6. Knows(u).known = known
    BY <1>5, <2>5, KnowsTable
  <2>7. Knows(u).cur = Key(t.list[c])
    BY <1>1, <1>2, <1>4, <1>5, KnowsTable
  <2> HIDE DEF u, known, done
  <2> QED
    BY <1>5, <2>2, <2>6, <2>7, KnowsTable, Zenon
<1> HIDE DEF u, done
<1> QED
  BY <1>3, <1>5, <1>7, <1>8 DEF done

LEMMA MountTable ==
  ASSUME NEW t \in Table, NEW e \in Entry
  PROVE  LET u    == Mounted(t, e)
             done == [what |-> "mounted", key |-> Key(e), entry |-> e]
         IN  /\ u \in Table
             /\ Distinct(t) => Distinct(u) /\ Knows(u) = Told(Knows(t), done)
<1> DEFINE u == Mounted(t, e)
           done == [what |-> "mounted", key |-> Key(e), entry |-> e]
           all == {t.list[i] : i \in 1..Len(t.list)}
           others == {x \in all : Key(x) # Key(e)}
           same == SameAs(t, e)
           n == Len(t.list)
<1>0. n \in Nat /\ t.list \in Seq(Entry) /\ DOMAIN t.list = 1..n
  BY TableFields
<1>1. Told(Knows(t), done) = [cur |-> Key(e), known |-> others \cup {e}]
  <2>1. Knows(t).known = all
    BY KnowsTable
  <2>2. done.what = "mounted" /\ done.key = Key(e) /\ done.entry = e
    OBVIOUS
  <2> HIDE DEF done
  <2> QED
    BY <2>1, <2>2 DEF Told
<1>2. ASSUME NEW c \in Nat, NEW list \in Seq(Entry), u = [cur |-> c, list |-> list],
             c \in 1..Len(list), list[c] = e,
             Distinct(t) => /\ \A i, j \in 1..Len(list) : Key(list[i]) = Key(list[j]) => i = j
                            /\ {list[i] : i \in 1..Len(list)} = others \cup {e}
      PROVE  u \in Table /\ (Distinct(t) => Distinct(u) /\ Knows(u) = Told(Knows(t), done))
  <2>1. u \in Table /\ u.cur = c /\ u.list = list
    BY <1>2, MakesTable
  <2> HIDE DEF u, done, others
  <2>2. Distinct(t) => Distinct(u)
    BY <1>2, <2>1 DEF Distinct
  <2>3. Distinct(t) => Knows(u).known = others \cup {e}
    BY <1>2, <2>1, KnowsTable
  <2>4. Knows(u).cur = Key(e)
    BY <1>2, <2>1, KnowsTable
  <2> QED
    BY <1>1, <2>1, <2>2, <2>3, <2>4, KnowsTable, Zenon
<1>3. ASSUME same = {}
      PROVE  u \in Table /\ (Distinct(t) => Distinct(u) /\ Knows(u) = Told(Knows(t), done))
  <2> DEFINE list == Append(t.list, e)
  <2>1. u = [cur |-> n + 1, list |-> list]
    BY <1>3 DEF Mounted
  <2>2. /\ list \in Seq(Entry) /\ Len(list) = n + 1 /\ list[n + 1] = e
        /\ \A i \in 1..n : list[i] = t.list[i]
    BY <1>0
  <2>3. \A i \in 1..n : Key(t.list[i]) # Key(e)
    BY <1>0, <1>3 DEF SameAs
  <2> HIDE DEF list, n
  <2>4. Distinct(t) => \A i, j \in 1..n + 1 : Key(list[i]) = Key(list[j]) => i = j
    BY <1>0, <2>2, <2>3 DEF Distinct
  <2>5. {list[i] : i \in 1..n + 1} = others \cup {e}
    <3>1. others = all
      BY <2>3 DEF n
    <3>2. 1..n + 1 = 1..n \cup {n + 1}
      BY <1>0
    <3> QED
      BY <2>2, <3>1, <3>2 DEF n
  <2> HIDE DEF u, done, others
  <2> QED
    BY <1>0, <1>2, <2>1, <2>2, <2>4, <2>5
<1>4. ASSUME same # {}
      PROVE  u \in Table /\ (Distinct(t) => Distinct(u) /\ Knows(u) = Told(Knows(t), done))
  <2> DEFINE f == First(same)
             list == [t.list EXCEPT ![f] = e]
  <2>1. u = [cur |-> f, list |-> list]
    BY <1>4 DEF Mounted
  <2>2. f \in 1..n /\ Key(t.list[f]) = Key(e)
    <3>1. same \in SUBSET Nat
      BY <1>0 DEF SameAs
    <3>2. f \in same
      BY <1>4, <3>1, FirstIn
    <3> QED
      BY <1>0, <3>2 DEF SameAs
  <2> HIDE DEF f
  <2>3. /\ list \in Seq(Entry) /\ Len(list) = n /\ list[f] = e
        /\ \A i \in 1..n : i # f => list[i] = t.list[i]
    BY <1>0, <2>2, ExceptSeq
  <2> HIDE DEF list
  <2>4. Distinct(t) => \A i, j \in 1..n : Key(list[i]) = Key(list[j]) => i = j
    <3>1. \A i \in 1..n : Key(list[i]) = Key(t.list[i])
      BY <2>2, <2>3
    <3> QED
      BY <1>0, <3>1 DEF Distinct
  <2>5. ASSUME Distinct(t) PROVE {list[i] : i \in 1..n} = others \cup {e}
    <3>1. others = {t.list[i] : i \in (1..n) \ {f}}
      BY <1>0, <2>2, <2>5 DEF Distinct
    <3> HIDE DEF others
    <3> QED
      BY <2>2, <2>3, <3>1
  <2> HIDE DEF u, done, others, n
  <2>6. f \in Nat /\ f \in 1..Len(list)
    BY <1>0, <2>2, <2>3
  <2> QED
    BY <1>2, <2>1, <2>3, <2>4, <2>5, <2>6
<1> HIDE DEF u, done
<1> QED
  BY <1>3, <1>4 DEF u, done

\* the list without one of its elements
LEMMA RemoveList ==
  ASSUME NEW list \in Seq(Entry), NEW i \in 1..Len(list)
  PROVE  /\ RemoveAt(list, i) \in Seq(Entry) /\ Len(RemoveAt(list, i)) = Len(list) - 1
         /\ \A j \in 1..Len(list) - 1 :
              RemoveAt(list, i)[j] = list[IF j < i THEN j ELSE j + 1]
<1> DEFINE n == Len(list)
           s1 == SubSeq(list, 1, i - 1)
           s2 == SubSeq(list, i + 1, n)
<1>1. n \in Nat
  OBVIOUS
<1>2. /\ s1 \in Seq(Entry) /\ Len(s1) = i - 1 /\ \A j \in 1..i - 1 : s1[j] = list[j]
      /\ s2 \in Seq(Entry) /\ Len(s2) = n - i /\ \A j \in 1..n - i : s2[j] = list[i + j]
  BY <1>1, SubSeqProperties
<1>3. RemoveAt(list, i) = s1 \o s2
  BY DEF RemoveAt
<1> HIDE DEF s1, s2
<1>4. /\ s1 \o s2 \in Seq(Entry) /\ Len(s1 \o s2) = Len(s1) + Len(s2)
      /\ \A j \in 1..Len(s1) + Len(s2) :
           (s1 \o s2)[j] = IF j <= Len(s1) THEN s1[j] ELSE s2[j - Len(s1)]
  BY <1>2, ConcatProperties
<1>5. ASSUME NEW j \in 1..n - 1
      PROVE  (s1 \o s2)[j] = list[IF j < i THEN j ELSE j + 1]
  <2>1. CASE j < i
    <3>1. j \in 1..i - 1 /\ j <= Len(s1) /\ j \in 1..Len(s1) + Len(s2)
      BY <1>1, <1>2, <2>1
    <3> QED
      BY <1>2, <1>4, <2>1, <3>1
  <2>2. CASE ~ (j < i)
    <3>1. j - (i - 1) \in 1..n - i /\ i + (j - (i - 1)) = j + 1
      BY <1>1, <2>2
    <3>2. j \in 1..Len(s1) + Len(s2) /\ ~ (j <= Len(s1)) /\ j - Len(s1) = j - (i - 1)
      BY <1>1, <1>2, <2>2
    <3> HIDE DEF n
    <3> QED
      BY <1>2, <1>4, <2>2, <3>1, <3>2
  <2> QED
    BY <2>1, <2>2
<1>6. Len(s1 \o s2) = n - 1
  BY <1>1, <1>2, <1>4
<1> HIDE DEF n
<1> QED
  BY <1>3, <1>4, <1>5, <1>6 DEF n

\* the table after hcwd_umounted
LEMMA ForgetTable ==
  ASSUME NEW t \in Table, NEW i \in 1..Len(t.list)
  PROVE  LET u    == Without(t, i)
             done == [what |-> "forgot", key |-> Key(t.list[i])]
         IN  /\ u \in Table
             /\ Distinct(t) => Distinct(u) /\ Knows(u) = Told(Knows(t), done)
<1> DEFINE n == Len(t.list)
           u == Without(t, i)
           list == RemoveAt(t.list, i)
           cur == IF t.cur > i THEN t.cur - 1 ELSE IF t.cur = i THEN 0 ELSE t.cur
           done == [what |-> "forgot", key |-> Key(t.list[i])]
           At(j) == IF j < i THEN j ELSE j + 1
           all == {t.list[j] : j \in 1..n}
           others == {x \in all : Key(x) # Key(t.list[i])}
<1>1. /\ n \in Nat /\ t.list \in Seq(Entry) /\ t.cur \in 0..n /\ i \in 1..n
      /\ DOMAIN t.list = 1..n
  BY TableFields
<1>2. /\ list \in Seq(Entry) /\ Len(list) = n - 1
      /\ \A j \in 1..n - 1 : list[j] = t.list[At(j)]
  BY <1>1, RemoveList
<1>3. u = [cur |-> cur, list |-> list]
  BY DEF Without
<1>4. cur \in 0..n - 1
  BY <1>1
<1> HIDE DEF n, list, cur
<1>5. u \in Table /\ u.cur = cur /\ u.list = list
  BY <1>2, <1>3, <1>4, MakesTable
<1>6. /\ \A j \in 1..n - 1 : At(j) \in (1..n) \ {i}
      /\ \A j, k \in 1..n - 1 : At(j) = At(k) => j = k
      /\ \A j \in (1..n) \ {i} : \E k \in 1..n - 1 : At(k) = j
  <2>1. \A j \in 1..n - 1 : At(j) \in (1..n) \ {i}
    BY <1>1
  <2>2. \A j, k \in 1..n - 1 : At(j) = At(k) => j = k
    BY <1>1
  <2>3. ASSUME NEW j \in (1..n) \ {i} PROVE \E k \in 1..n - 1 : At(k) = j
    <3>1. CASE j < i
      <4>1. j \in 1..n - 1 /\ At(j) = j
        BY <1>1, <3>1
      <4> QED
        BY <4>1
    <3>2. CASE ~ (j < i)
      <4>1. j - 1 \in 1..n - 1 /\ At(j - 1) = j
        BY <1>1, <2>3, <3>2
      <4> QED
        BY <4>1
    <3> QED
      BY <3>1, <3>2
  <2> QED
    BY <2>1, <2>2, <2>3
<1> HIDE DEF At
<1>7. ASSUME Distinct(t) PROVE Distinct(u)
  <2>1. DOMAIN list = 1..n - 1
    BY <1>1, <1>2
  <2> HIDE DEF u
  <2>2. ASSUME NEW j \in 1..n - 1, NEW k \in 1..n - 1, Key(list[j]) = Key(list[k])
        PROVE  j = k
    <3>1. At(j) \in 1..n /\ At(k) \in 1..n
      BY <1>6
    <3>2. Key(t.list[At(j)]) = Key(t.list[At(k)])
      BY <1>2, <2>2
    <3>3. At(j) = At(k)
      BY <1>1, <1>7, <3>1, <3>2 DEF Distinct
    <3> QED
      BY <1>6, <3>3
  <2> QED
    BY <1>5, <2>1, <2>2, Zenon DEF Distinct
<1>8. ASSUME Distinct(t) PROVE Knows(u) = Told(Knows(t), done)
  <2>1. Knows(t).known = all
    BY KnowsTable DEF n
  <2>2. Told(Knows(t), done)
          = [cur |-> IF Knows(t).cur = Key(t.list[i]) THEN << >> ELSE Knows(t).cur,
             known |-> others]
    <3>1. done.what = "forgot" /\ done.key = Key(t.list[i])
      OBVIOUS
    <3> HIDE DEF done
    <3> QED
      BY <2>1, <3>1 DEF Told
  <2>3. others = {t.list[j] : j \in (1..n) \ {i}}
    BY <1>1, <1>8 DEF Distinct
  <2>4. {list[j] : j \in 1..n - 1} = {t.list[j] : j \in (1..n) \ {i}}
    BY <1>2, <1>6
  <2> HIDE DEF u, others, done
  <2>5. Knows(u).known = others
    BY <1>2, <1>5, <2>3, <2>4, KnowsTable
  <2>6. Knows(u).cur = IF Knows(t).cur = Key(t.list[i]) THEN << >> ELSE Knows(t).cur
    <3>1. CASE t.cur = 0
      <4>1. Knows(t).cur = << >> /\ cur = 0
        BY <1>1, <3>1, KnowsTable DEF cur
      <4> QED
        BY <1>5, <4>1, KnowsTable
    <3>2. CASE t.cur = i
      <4>1. Knows(t).cur = Key(t.list[i]) /\ cur = 0
        BY <1>1, <3>2, KnowsTable DEF cur
      <4> QED
        BY <1>5, <4>1, KnowsTable
    <3>3. CASE t.cur # 0 /\ t.cur # i
      <4>1. cur \in 1..n - 1 /\ At(cur) = t.cur
        BY <1>1, <3>3 DEF cur, At
      <4>2. Knows(t).cur = Key(t.list[t.cur]) /\ Key(t.list[t.cur]) # Key(t.list[i])
        BY <1>1, <1>8, <3>3, KnowsTable DEF Distinct
      <4>3. cur # 0
        BY <1>1, <4>1
      <4>4. Knows(u).cur = Key(list[cur])
        BY <1>5, <4>3, KnowsTable
      <4> QED
        BY <1>2, <4>1, <4>2, <4>4
    <3> QED
      BY <3>1, <3>2, <3>3
  <2> QED
    BY <1>5, <2>2, <2>5, <2>6, KnowsTable, Zenon
<1> HIDE DEF u, done
<1> QED
  BY <1>5, <1>7, <1>8 DEF u, done

(***************************************************************************)
(* The inductive invariant.                                                *)
(***************************************************************************)
\* what a command keeps in memory
Fields == {"cmd", "read", "tab", "dirty", "done", "part", "src", "mode", "dir", "pc"}

\* what a medium holds
Volume == {v \in [name : Label, born : Medium \X Nat, parts : BOOLEAN, dirs : SUBSET Dir,
                  files : SUBSET (Dir \cup {Root})] : v.files \subseteq v.dirs \cup {Root}}

\* what a running command holds
Shape(r) ==
  r.pc # "idle" =>
    /\ DOMAIN r = Fields /\ r.cmd \in Command
    /\ r.pc \in {"probe", "format", "forget", "choose", "open", "work", "save", "flush"}
    /\ r.read \in Table /\ r.tab \in Table /\ r.dirty \in BOOLEAN /\ r.part \in {0, 1}
    /\ r.dir \in Dir \cup {Root}
    /\ r.pc = "probe" => r.cmd.op \in Probes
    /\ r.pc = "format" => r.cmd.op = "hformat"
    /\ r.pc = "forget" => r.cmd.op = "humount"
    /\ r.pc = "choose" => r.cmd.op = "hvol"
    /\ r.pc = "work" => /\ r.src \in Source
                        /\ r.cmd.op \notin Probes =>
                             r.tab.cur # 0 /\ r.src = r.tab.list[r.tab.cur].src

\* what a running command has done to its copy of the list, and reports
Tells(r) ==
  r.pc # "idle" =>
    /\ Distinct(r.read) /\ Distinct(r.tab)
    /\ r.read.list # << >> => r.dirty
    /\ r.done = Silent => r.tab = r.read
    /\ ~r.dirty => r.done = Silent
    /\ Knows(r.tab) = Told(Knows(r.read), r.done)
    /\ r.done # Silent => \/ r.pc \in {"save", "flush"}
                          \/ r.cmd.op = "hvol" /\ r.pc \in {"open", "work"}

\* a medium that is open stays in its drive
Holding(p) == proc[p].pc = "work" => drive[proc[p].src] # Empty

\* the mounted volume is the current one, and the directory the current one's
Chosen(p) ==
  proc[p].pc = "work" /\ proc[p].cmd.op \notin Probes =>
    /\ disk[drive[proc[p].src]].born = Current(p).born
    /\ proc[p].dir = Current(p).cwd

\* hformat has chosen the partition if there is one
Looked(p) ==
  proc[p].pc = "format" =>
    drive[proc[p].cmd.src] = Empty \/ proc[p].part = Parts(proc[p].cmd.src)

\* what is true of one process
Own(p) ==
  /\ Shape(proc[p]) /\ Holding(p)
  /\ breach = {} => Tells(proc[p]) /\ Chosen(p) /\ Looked(p)

\* a medium is in one drive at most
MediaSound ==
  /\ drive \in [Source -> Medium \cup {Empty}]
  /\ \A s, t \in Source : drive[s] = drive[t] => s = t \/ drive[s] = Empty
  /\ disk \in [Medium -> Volume]

\* the file says what the commands have told it, or one process is writing it
FileSound ==
  /\ (\A p \in Process : proc[p].pc # "flush") => Knows(file) = meant /\ Distinct(file)
  /\ \A p \in Process : proc[p].pc = "flush" =>
       /\ Knows(proc[p].tab) = meant /\ file = NoTable
       /\ \A q \in Process : proc[q].pc = "flush" => q = p

\* the inductive invariant
KnownInv ==
  /\ DOMAIN proc = Process /\ file \in Table /\ MediaSound
  /\ \A p \in Process : Own(p)
  /\ breach = {} => FileSound

(***************************************************************************)
(* The record of a running command: what each assignment changes of it.    *)
(***************************************************************************)
LEMMA CommandFields ==
  ASSUME NEW c \in Command
  PROVE  /\ c.op \in {"hmount", "hformat", "hvol", "humount", "hcd", "hmkdir", "hrmdir",
                      "hrename", "hdel", "hls"}
         /\ c.op \in Probes => c.src \in Source
         /\ c.op = "hformat" => c.label \in Label
         /\ c.op = "hcd" => c.dir \in Dir \cup {Root}
         /\ c.op \in {"hmkdir", "hrmdir"} => c.dir \in Dir
         /\ c.op = "hrename" => c.from \in Dir /\ c.to \in Dir
BY DEF Command, Probes

LEMMA WithPc ==
  ASSUME NEW o, DOMAIN o = Fields, NEW pc
  PROVE  LET n == [o EXCEPT !.pc = pc]
         IN  /\ DOMAIN n = Fields /\ n.pc = pc
             /\ n.cmd = o.cmd /\ n.read = o.read /\ n.tab = o.tab /\ n.dirty = o.dirty
             /\ n.done = o.done /\ n.part = o.part /\ n.src = o.src /\ n.mode = o.mode
             /\ n.dir = o.dir
BY DEF Fields

LEMMA WithPart ==
  ASSUME NEW o, DOMAIN o = Fields, NEW pc, NEW part
  PROVE  LET n == With(o, [pc |-> pc, part |-> part])
         IN  /\ DOMAIN n = Fields /\ n.pc = pc /\ n.part = part
             /\ n.cmd = o.cmd /\ n.read = o.read /\ n.tab = o.tab /\ n.dirty = o.dirty
             /\ n.done = o.done /\ n.src = o.src /\ n.mode = o.mode /\ n.dir = o.dir
BY DEF Fields, With

LEMMA WithMedium ==
  ASSUME NEW o, DOMAIN o = Fields, NEW pc, NEW src, NEW mode
  PROVE  LET n == With(o, [pc |-> pc, src |-> src, mode |-> mode])
         IN  /\ DOMAIN n = Fields /\ n.pc = pc /\ n.src = src /\ n.mode = mode
             /\ n.cmd = o.cmd /\ n.read = o.read /\ n.tab = o.tab /\ n.dirty = o.dirty
             /\ n.done = o.done /\ n.part = o.part /\ n.dir = o.dir
BY DEF Fields, With

LEMMA WithMediumDir ==
  ASSUME NEW o, DOMAIN o = Fields, NEW pc, NEW src, NEW mode, NEW dir
  PROVE  LET n == With(o, [pc |-> pc, src |-> src, mode |-> mode, dir |-> dir])
         IN  /\ DOMAIN n = Fields /\ n.pc = pc /\ n.src = src /\ n.mode = mode /\ n.dir = dir
             /\ n.cmd = o.cmd /\ n.read = o.read /\ n.tab = o.tab /\ n.dirty = o.dirty
             /\ n.done = o.done /\ n.part = o.part
BY DEF Fields, With

LEMMA WithTable ==
  ASSUME NEW o, DOMAIN o = Fields, NEW pc, NEW tab, NEW done
  PROVE  LET n == With(o, [pc |-> pc, tab |-> tab, done |-> done])
         IN  /\ DOMAIN n = Fields /\ n.pc = pc /\ n.tab = tab /\ n.done = done
             /\ n.cmd = o.cmd /\ n.read = o.read /\ n.dirty = o.dirty
             /\ n.part = o.part /\ n.src = o.src /\ n.mode = o.mode /\ n.dir = o.dir
BY DEF Fields, With

LEMMA WithDirtyTable ==
  ASSUME NEW o, DOMAIN o = Fields, NEW pc, NEW tab, NEW dirty, NEW done
  PROVE  LET n == With(o, [pc |-> pc, tab |-> tab, dirty |-> dirty, done |-> done])
         IN  /\ DOMAIN n = Fields /\ n.pc = pc /\ n.tab = tab /\ n.dirty = dirty /\ n.done = done
             /\ n.cmd = o.cmd /\ n.read = o.read
             /\ n.part = o.part /\ n.src = o.src /\ n.mode = o.mode /\ n.dir = o.dir
BY DEF Fields, With

(***************************************************************************)
(* The process that takes the step.                                        *)
(***************************************************************************)
LEMMA ToldSilent == ASSUME NEW k PROVE Told(k, Silent) = k
BY DEF Told, Silent

LEMMA GoesOn ==
  ASSUME NEW o, Shape(o), o.pc # "idle", NEW pc \in {"open", "save", "flush"}
  PROVE  LET n == [o EXCEPT !.pc = pc]
         IN  /\ Shape(n)
             /\ Tells(o) /\ (pc = "open" => o.done = Silent) => Tells(n)
<1> DEFINE n == [o EXCEPT !.pc = pc]
<1>1. /\ DOMAIN n = Fields /\ n.pc = pc
      /\ n.cmd = o.cmd /\ n.read = o.read /\ n.tab = o.tab /\ n.dirty = o.dirty
      /\ n.done = o.done /\ n.part = o.part /\ n.src = o.src /\ n.mode = o.mode
      /\ n.dir = o.dir
  BY WithPc DEF Shape
<1> HIDE DEF n
<1>2. Shape(n)
  BY <1>1 DEF Shape
<1>3. Tells(o) /\ (pc = "open" => o.done = Silent) => Tells(n)
  BY <1>1 DEF Tells
<1> QED
  BY <1>2, <1>3 DEF n

LEMMA GoesKeeps ==
  ASSUME NEW p \in Process, KnownInv, proc[p].pc # "idle", NEW pc \in {"open", "save", "flush"},
         Goes(p, pc), breach' = {} => breach = {},
         breach' = {} /\ pc = "open" => proc[p].done = Silent
  PROVE  Own(p)' /\ proc'[p].pc = pc
<1>1. proc'[p] = [proc[p] EXCEPT !.pc = pc]
  BY DEF Goes, KnownInv
<1>2. Shape(proc[p]) /\ (breach = {} => Tells(proc[p]))
  BY DEF KnownInv, Own
<1>3. proc'[p].pc = pc
  BY <1>1, <1>2, WithPc DEF Shape
<1>4. Shape(proc'[p]) /\ (breach' = {} => Tells(proc'[p]))
  <2> DEFINE o == proc[p]
             n == [o EXCEPT !.pc = pc]
  <2>1. Shape(n) /\ (Tells(o) /\ (pc = "open" => o.done = Silent) => Tells(n))
    BY <1>2, GoesOn
  <2>2. proc'[p] = n
    BY <1>1
  <2> HIDE DEF n
  <2> QED
    BY <1>2, <2>1, <2>2
<1> QED
  BY <1>3, <1>4 DEF Own, Holding, Chosen, Looked

LEMMA BreachGrows ==
  ASSUME NEW p \in Process, Steps(p)
  PROVE  breach' = {} => breach = {}
BY DEF Steps, Start, Probe, Format, Forget, Choose, OpenNew, Remount, Record, Show, ChangeDir,
       Modify, Save, Flush, Kill, Breach

LEMMA OthersGoOn ==
  ASSUME KnownInv, NEW p \in Process, Steps(p)
  PROVE  DOMAIN proc' = Process /\ \A q \in Process : q # p => proc'[q] = proc[q]
BY DEF KnownInv, Steps, Start, Probe, Format, Forget, Choose, OpenNew, Remount, Record, Show,
       ChangeDir, Modify, Save, Flush, Kill, Goes, Becomes

LEMMA StartOwn ==
  ASSUME KnownInv, NEW p \in Process, NEW c \in Command, Start(p, c)
  PROVE  Own(p)' /\ proc'[p].pc \in {"probe", "forget", "choose", "open"}
<1> DEFINE pc == IF c.op \in Probes THEN "probe"
                 ELSE IF c.op = "humount" THEN "forget"
                 ELSE IF c.op = "hvol" THEN "choose" ELSE "open"
           r == [cmd |-> c, read |-> file, tab |-> file, dirty |-> file.list # << >>,
                 done |-> Silent, part |-> 0, src |-> Empty, mode |-> "none", dir |-> Root,
                 pc |-> pc]
<1>1. proc'[p] = r
  BY DEF Start, KnownInv
<1>2. /\ DOMAIN r = Fields /\ r.cmd = c /\ r.read = file /\ r.tab = file
      /\ r.dirty = (file.list # << >>)
      /\ r.done = Silent /\ r.part = 0 /\ r.dir = Root /\ r.pc = pc
  BY DEF Fields
<1>3. pc \in {"probe", "forget", "choose", "open"}
  OBVIOUS
<1>4. Shape(r)
  <2>1. /\ pc = "probe" => c.op \in Probes
        /\ pc = "forget" => c.op = "humount"
        /\ pc = "choose" => c.op = "hvol"
    OBVIOUS
  <2> HIDE DEF r, pc
  <2> QED
    BY <1>2, <1>3, <2>1 DEF Shape, KnownInv
<1>5. breach' = {} => Tells(r)
  <2>1. breach' = {} => breach = {}
    BY DEF Start
  <2>2. breach' = {} => Distinct(file)
    BY <2>1, NoTableTable DEF KnownInv, FileSound
  <2> HIDE DEF r, pc
  <2> QED
    BY <1>2, <2>2, ToldSilent DEF Tells
<1> HIDE DEF r, pc
<1> QED
  BY <1>1, <1>2, <1>3, <1>4, <1>5 DEF Own, Holding, Chosen, Looked

LEMMA ProbeOwn ==
  ASSUME KnownInv, NEW p \in Process, Probe(p)
  PROVE  Own(p)' /\ proc'[p].pc \in {"format", "open"}
<1> DEFINE o == proc[p]
           s == o.cmd.src
           pc == IF o.cmd.op = "hformat" THEN "format" ELSE "open"
           part == IF CanOpen(p, s, "read") THEN Parts(s) ELSE 0
           r == With(o, [pc |-> pc, part |-> part])
<1>1. proc'[p] = r
  BY DEF Probe, Becomes, KnownInv
<1>2. Shape(o) /\ o.pc = "probe" /\ (breach = {} => Tells(o))
  BY DEF Probe, KnownInv, Own
<1>3. /\ DOMAIN r = Fields /\ r.pc = pc /\ r.part = part
      /\ r.cmd = o.cmd /\ r.read = o.read /\ r.tab = o.tab /\ r.dirty = o.dirty
      /\ r.done = o.done /\ r.dir = o.dir
  <2> HIDE DEF o, pc, part
  <2> QED
    BY <1>2, WithPart DEF Shape
<1>4. /\ pc \in {"format", "open"} /\ part \in {0, 1}
      /\ pc = "format" => o.cmd.op = "hformat"
  BY DEF Parts
<1>5. Shape(r)
  <2> HIDE DEF o, r, pc, part
  <2> QED
    BY <1>2, <1>3, <1>4 DEF Shape
<1>6. breach' = {} => Tells(r)
  <2>1. breach' = {} => breach = {}
    BY DEF Probe, Breach
  <2> HIDE DEF o, r, pc, part
  <2> QED
    BY <1>2, <1>3, <1>4, <2>1 DEF Tells
<1>7. breach' = {} => Looked(p)'
  <2>1. breach' = {} => drive[s] = Empty \/ CanOpen(p, s, "read")
    BY DEF Probe, Breach
  <2>2. drive' = drive /\ disk' = disk
    BY DEF Probe
  <2>3. proc'[p].cmd.src = s /\ proc'[p].part = part
    BY <1>1, <1>3
  <2>4. breach' = {} => drive[s] = Empty \/ part = Parts(s)
    BY <2>1
  <2> HIDE DEF o, r, s, part
  <2> QED
    BY <2>2, <2>3, <2>4 DEF Looked, Parts
<1> HIDE DEF r, pc, part
<1> QED
  BY <1>1, <1>3, <1>4, <1>5, <1>6, <1>7 DEF Own, Holding, Chosen

LEMMA FormatOwn ==
  ASSUME KnownInv, NEW p \in Process, Format(p)
  PROVE  Own(p)' /\ proc'[p].pc \in {"open", "save"}
<1>1. Shape(proc[p]) /\ proc[p].pc = "format" /\ (breach = {} => Tells(proc[p])) /\ breach' = breach
  BY DEF Format, KnownInv, Own
<1>2. breach = {} => proc[p].done = Silent
  BY <1>1 DEF Tells
<1>3. PICK pc \in {"open", "save"} : Goes(p, pc)
  BY DEF Format
<1> QED
  BY <1>1, <1>2, <1>3, GoesKeeps

LEMMA ForgetOwn ==
  ASSUME KnownInv, NEW p \in Process, Forget(p)
  PROVE  Own(p)' /\ proc'[p].pc = "save"
<1> DEFINE o == proc[p]
           t == o.tab
           x == o.cmd.vol
           is == IF x = "current" THEN {t.cur} \ {0} ELSE Called(t, x)
<1>1. Shape(o) /\ o.pc = "forget" /\ (breach = {} => Tells(o))
  BY DEF Forget, KnownInv, Own
<1>2. breach' = breach
  BY DEF Forget
<1>3. CASE is = {}
  <2>1. Goes(p, "save")
    BY <1>3 DEF Forget
  <2> HIDE DEF is, o, t, x
  <2> QED
    BY <1>1, <1>2, <2>1, GoesKeeps DEF o
<1>4. CASE is # {}
  <2> DEFINE i == First(is)
             tab == Without(t, i)
             done == [what |-> "forgot", key |-> Key(t.list[i])]
             r == With(o, [pc |-> "save", tab |-> tab, done |-> done])
  <2>1. proc'[p] = r
    BY <1>4 DEF Forget, Becomes, KnownInv
  <2>2. t \in Table
    BY <1>1 DEF Shape
  <2>3. is \subseteq 1..Len(t.list)
    BY <2>2, TableFields DEF Called
  <2>4. i \in 1..Len(t.list)
    <3> HIDE DEF is
    <3>1. is \in SUBSET Nat
      BY <2>3
    <3>2. First(is) \in is
      BY <3>1, <1>4, FirstIn
    <3> QED
      BY <3>2, <2>3
  <2>5. tab \in Table /\ (Distinct(t) => Distinct(tab) /\ Knows(tab) = Told(Knows(t), done))
    <3> HIDE DEF i, t
    <3> QED
      BY <2>2, <2>4, ForgetTable
  <2>6. /\ DOMAIN r = Fields /\ r.pc = "save" /\ r.tab = tab /\ r.done = done
        /\ r.cmd = o.cmd /\ r.read = o.read /\ r.dirty = o.dirty
        /\ r.part = o.part /\ r.src = o.src /\ r.mode = o.mode /\ r.dir = o.dir
    <3> HIDE DEF o, tab, done
    <3> QED
      BY <1>1, WithTable DEF Shape
  <2>7. Shape(r)
    <3> HIDE DEF o, r, tab
    <3> QED
      BY <1>1, <2>5, <2>6 DEF Shape
  <2>8. breach = {} => Tells(r)
    <3> SUFFICES ASSUME breach = {} PROVE Tells(r)
      OBVIOUS
    <3>1. o.done = Silent /\ o.tab = o.read /\ Distinct(t)
      BY <1>1 DEF Tells
    <3>2. done # Silent
      BY DEF Silent
    <3>3. o.dirty
      <4>1. t.list # << >>
        BY <2>4
      <4> QED
        BY <1>1, <3>1, <4>1 DEF Tells
    <3> HIDE DEF o, r, tab, done
    <3> QED
      BY <1>1, <2>5, <2>6, <3>1, <3>2, <3>3 DEF Tells
  <2> HIDE DEF is, o, r
  <2> QED
    BY <1>2, <1>4, <2>1, <2>6, <2>7, <2>8 DEF Own, Holding, Chosen, Looked
<1> QED
  BY <1>3, <1>4

LEMMA ChooseOwn ==
  ASSUME KnownInv, NEW p \in Process, Choose(p)
  PROVE  Own(p)' /\ proc'[p].pc \in {"open", "save"}
<1> DEFINE o == proc[p]
           t == o.tab
           is == Called(t, o.cmd.vol)
<1>1. Shape(o) /\ o.pc = "choose" /\ (breach = {} => Tells(o)) /\ breach' = breach
  BY DEF Choose, KnownInv, Own
<1>2. CASE is = {}
  <2>1. Goes(p, "save")
    BY <1>2 DEF Choose
  <2> HIDE DEF is, o, t
  <2> QED
    BY <1>1, <2>1, GoesKeeps DEF o
<1>3. CASE is # {}
  <2> DEFINE i == First(is)
             tab == [t EXCEPT !.cur = i]
             done == [what |-> "chose", key |-> Key(t.list[i])]
             dirty == o.dirty \/ t.cur # i
             r == With(o, [pc |-> "open", tab |-> tab, dirty |-> dirty, done |-> done])
  <2>1. proc'[p] = r
    BY <1>3 DEF Choose, Becomes, KnownInv
  <2>2. t \in Table
    BY <1>1 DEF Shape
  <2>3. is \subseteq 1..Len(t.list)
    BY <2>2, TableFields DEF Called
  <2>4. i \in 1..Len(t.list)
    <3> HIDE DEF is
    <3>1. is \in SUBSET Nat
      BY <2>3
    <3>2. First(is) \in is
      BY <3>1, <1>3, FirstIn
    <3> QED
      BY <3>2, <2>3
  <2>5. /\ tab \in Table /\ (Distinct(t) => Distinct(tab)) /\ Knows(tab) = Told(Knows(t), done)
    <3> HIDE DEF i, t
    <3> QED
      BY <2>2, <2>4, ChooseTable
  <2>6. /\ DOMAIN r = Fields /\ r.pc = "open" /\ r.tab = tab /\ r.dirty = dirty /\ r.done = done
        /\ r.cmd = o.cmd /\ r.read = o.read
        /\ r.part = o.part /\ r.src = o.src /\ r.mode = o.mode /\ r.dir = o.dir
    <3> HIDE DEF o, tab, done, dirty
    <3> QED
      BY <1>1, WithDirtyTable DEF Shape
  <2>7. dirty \in BOOLEAN /\ done.what = "chose" /\ (o.dirty => dirty)
    BY <1>1 DEF Shape
  <2>8. Shape(r)
    <3> HIDE DEF o, r, tab, dirty, done
    <3> QED
      BY <1>1, <2>5, <2>6, <2>7 DEF Shape
  <2>9. breach = {} => Tells(r)
    <3> SUFFICES ASSUME breach = {} PROVE Tells(r)
      OBVIOUS
    <3>1. o.done = Silent /\ o.tab = o.read /\ o.cmd.op = "hvol" /\ Distinct(t)
      BY <1>1 DEF Tells, Shape
    <3>2. done # Silent
      BY <2>7 DEF Silent
    <3>3. o.dirty
      <4>1. t.list # << >>
        BY <2>4
      <4> QED
        BY <1>1, <3>1, <4>1 DEF Tells
    <3> HIDE DEF o, r, tab, dirty, done
    <3> QED
      BY <2>5, <2>6, <2>7, <3>1, <3>2, <3>3 DEF Tells
  <2> HIDE DEF is, o, r
  <2> QED
    BY <1>1, <2>1, <2>6, <2>8, <2>9 DEF Own, Holding, Chosen, Looked
<1> QED
  BY <1>2, <1>3

LEMMA OpenNewOwn ==
  ASSUME KnownInv, NEW p \in Process, OpenNew(p)
  PROVE  Own(p)' /\ proc'[p].pc \in {"work", "save"}
<1> DEFINE o == proc[p]
           s == o.cmd.src
           mode == OpenedAs(p, s, TRUE)
<1>1. Shape(o) /\ o.pc = "open" /\ (breach = {} => Tells(o)) /\ breach' = breach
  BY DEF OpenNew, KnownInv, Own
<1>2. CASE ~ (mode # "fails" /\ o.part = Parts(s))
  <2>1. Goes(p, "save")
    BY <1>2 DEF OpenNew
  <2> HIDE DEF mode, o, s
  <2> QED
    BY <1>1, <2>1, GoesKeeps DEF o
<1>3. CASE mode # "fails" /\ o.part = Parts(s)
  <2> DEFINE r == With(o, [pc |-> "work", src |-> s, mode |-> mode])
  <2>1. proc'[p] = r /\ drive' = drive
    BY <1>3 DEF OpenNew, Becomes, KnownInv
  <2>2. /\ DOMAIN r = Fields /\ r.pc = "work" /\ r.src = s
        /\ r.cmd = o.cmd /\ r.read = o.read /\ r.tab = o.tab /\ r.dirty = o.dirty
        /\ r.done = o.done /\ r.part = o.part /\ r.dir = o.dir
    <3> HIDE DEF o, s, mode
    <3> QED
      BY <1>1, WithMedium DEF Shape
  <2>3. drive[s] # Empty
    BY <1>3 DEF OpenedAs, CanOpen
  <2>4. o.cmd.op \in Probes /\ s \in Source
    BY <1>1, CommandFields DEF OpenNew, Shape
  <2> HIDE DEF o, r, s, mode
  <2>5. Shape(r)
    BY <1>1, <2>2, <2>4 DEF Shape
  <2>6. breach = {} => Tells(r)
    BY <1>1, <2>2 DEF Tells
  <2>7. r.cmd.op \in Probes
    BY <2>2, <2>4
  <2> QED
    BY <1>1, <2>1, <2>2, <2>3, <2>5, <2>6, <2>7 DEF Own, Holding, Chosen, Looked
<1> QED
  BY <1>2, <1>3

LEMMA RemountOwn ==
  ASSUME KnownInv, NEW p \in Process, Remount(p)
  PROVE  Own(p)' /\ proc'[p].pc \in {"work", "save"}
<1> DEFINE o == proc[p]
           e == Current(p)
           s == e.src
           d == disk[drive[s]]
           mode == OpenedAs(p, s, o.cmd.op \notin Reads)
           dir == IF e.cwd \in d.dirs \cup {Root} THEN e.cwd ELSE Root
           r == With(o, [pc |-> "work", src |-> s, mode |-> mode, dir |-> dir])
<1>1. /\ Shape(o) /\ o.pc = "open" /\ (breach = {} => Tells(o)) /\ o.cmd.op \notin Probes
      /\ drive' = drive /\ disk' = disk
  BY DEF Remount, KnownInv, Own
<1>2. breach' = {} => breach = {}
  BY DEF Remount
<1>3. CASE Goes(p, "save")
  <2> HIDE DEF o
  <2> QED
    BY <1>1, <1>2, <1>3, GoesKeeps DEF o
<1>4. CASE ~ Goes(p, "save")
  <2>1. /\ o.tab.cur # 0 /\ mode # "fails" /\ Expected(e, d) /\ proc'[p] = r
        /\ breach' = breach \cup {x \in {"twin"} : d.born # e.born /\ d.name = e.vname}
                             \cup {x \in {"nocwd"} : e.cwd \notin d.dirs \cup {Root}}
    BY <1>4 DEF Remount, Becomes, KnownInv
  <2>2. breach' = {} => d.born = e.born /\ dir = e.cwd
    BY <2>1 DEF Expected
  <2>3. drive[s] # Empty
    BY <2>1 DEF OpenedAs, CanOpen
  <2>4. e \in Entry /\ e = o.tab.list[o.tab.cur]
    <3>1. o.tab \in Table
      BY <1>1 DEF Shape
    <3>2. o.tab.cur \in 1..Len(o.tab.list)
      BY <2>1, <3>1, TableFields
    <3> QED
      BY <3>1, <3>2, TableFields DEF Current
  <2>5. s \in Source /\ dir \in Dir \cup {Root}
    BY <2>4 DEF Entry
  <2>6. /\ DOMAIN r = Fields /\ r.pc = "work" /\ r.src = s /\ r.dir = dir
        /\ r.cmd = o.cmd /\ r.read = o.read /\ r.tab = o.tab /\ r.dirty = o.dirty
        /\ r.done = o.done /\ r.part = o.part
    <3> HIDE DEF o, s, mode, dir
    <3> QED
      BY <1>1, WithMediumDir DEF Shape
  <2>7. Shape(r)
    <3>1. s = o.tab.list[o.tab.cur].src
      BY <2>4
    <3> HIDE DEF o, s, mode, dir, r, e
    <3> QED
      BY <1>1, <2>1, <2>5, <2>6, <3>1 DEF Shape
  <2>8. breach = {} => Tells(r)
    <3> HIDE DEF o, s, mode, dir, r, e
    <3> QED
      BY <1>1, <2>6 DEF Tells
  <2>9. Current(p)' = e
    <3>1. proc'[p].tab = o.tab
      BY <2>1, <2>6
    <3> HIDE DEF r
    <3> QED
      BY <2>4, <3>1 DEF Current
  <2>10. breach' = {} => Chosen(p)'
    <3>1. proc'[p].src = s /\ proc'[p].dir = dir
      BY <2>1, <2>6
    <3>2. disk'[drive'[proc'[p].src]] = d
      BY <1>1, <3>1
    <3> HIDE DEF o, d, s, mode, dir, r, e
    <3> QED
      BY <2>2, <2>9, <3>1, <3>2 DEF Chosen
  <2>11. Holding(p)'
    <3>1. drive'[proc'[p].src] # Empty
      BY <1>1, <2>1, <2>3, <2>6
    <3> QED
      BY <3>1 DEF Holding
  <2>12. proc'[p].pc = "work" /\ Shape(proc'[p]) /\ (breach = {} => Tells(proc'[p]))
    BY <2>1, <2>6, <2>7, <2>8
  <2> QED
    BY <1>2, <2>10, <2>11, <2>12 DEF Own, Looked
<1> QED
  BY <1>3, <1>4

LEMMA OpenMedium ==
  ASSUME KnownInv, NEW p \in Process, proc[p].pc = "work"
  PROVE  /\ Shape(proc[p]) /\ proc[p].src \in Source /\ drive[proc[p].src] \in Medium
         /\ Disk(p) \in Volume
<1>1. Shape(proc[p]) /\ drive[proc[p].src] # Empty
  BY DEF KnownInv, Own, Holding
<1>2. proc[p].src \in Source
  BY <1>1 DEF Shape
<1>3. drive[proc[p].src] \in Medium
  BY <1>1, <1>2 DEF KnownInv, MediaSound
<1> QED
  BY <1>1, <1>2, <1>3 DEF KnownInv, MediaSound, Disk

LEMMA VolumeFields ==
  ASSUME NEW v \in Volume
  PROVE  /\ v.name \in Label /\ v.born \in Medium \X Nat /\ v.parts \in BOOLEAN
         /\ v.dirs \subseteq Dir /\ v.files \subseteq v.dirs \cup {Root}
BY DEF Volume

LEMMA RecordOwn ==
  ASSUME KnownInv, NEW p \in Process, Record(p)
  PROVE  Own(p)' /\ proc'[p].pc = "save"
<1> DEFINE o == proc[p]
           e == [src |-> o.src, part |-> o.part, vname |-> Disk(p).name,
                 born |-> Disk(p).born, cwd |-> Root]
           tab == Mounted(o.tab, e)
           done == [what |-> "mounted", key |-> Key(e), entry |-> e]
           r == With(o, [pc |-> "save", tab |-> tab, dirty |-> TRUE, done |-> done])
<1>1. /\ Shape(o) /\ o.pc = "work" /\ o.cmd.op \in Probes /\ (breach = {} => Tells(o))
      /\ breach' = breach /\ proc'[p] = r
  BY DEF Record, Becomes, KnownInv, Own
<1>2. e \in Entry
  <2>1. o.src \in Source /\ Disk(p) \in Volume
    BY <1>1, OpenMedium
  <2>2. o.part \in {0, 1}
    BY <1>1 DEF Shape
  <2> QED
    BY <2>1, <2>2, VolumeFields DEF Entry
<1>3. o.tab \in Table
  BY <1>1 DEF Shape
<1>4. tab \in Table /\ (Distinct(o.tab) => Distinct(tab) /\ Knows(tab) = Told(Knows(o.tab), done))
  <2> HIDE DEF e, o
  <2> QED
    BY <1>2, <1>3, MountTable
<1>5. /\ DOMAIN r = Fields /\ r.pc = "save" /\ r.tab = tab /\ r.dirty = TRUE /\ r.done = done
      /\ r.cmd = o.cmd /\ r.read = o.read
      /\ r.part = o.part /\ r.src = o.src /\ r.mode = o.mode /\ r.dir = o.dir
  <2> HIDE DEF o, tab, done
  <2> QED
    BY <1>1, WithDirtyTable DEF Shape
<1>6. done.what = "mounted"
  OBVIOUS
<1> HIDE DEF e, o, tab, done, r
<1>7. Shape(r)
  BY <1>1, <1>4, <1>5 DEF Shape
<1>8. breach = {} => Tells(r)
  <2> SUFFICES ASSUME breach = {} PROVE Tells(r)
    OBVIOUS
  <2>1. o.cmd.op # "hvol"
    BY <1>1 DEF Probes
  <2>2. o.done = Silent /\ o.tab = o.read /\ Distinct(o.tab)
    BY <1>1, <2>1 DEF Tells
  <2>3. done # Silent
    BY <1>6 DEF Silent
  <2> QED
    BY <1>4, <1>5, <1>6, <2>2, <2>3 DEF Tells
<1> QED
  BY <1>1, <1>5, <1>7, <1>8 DEF Own, Holding, Chosen, Looked

\* hcd, and hrename, which tells of the directory even if it has not moved
LEMMA SetCwdOwn ==
  ASSUME KnownInv, NEW p \in Process, proc[p].pc = "work", proc[p].cmd.op \in {"hcd", "hrename"},
         NEW dir \in Dir \cup {Root}, Becomes(p, SetCwd(p, dir)), breach' = breach
  PROVE  Own(p)' /\ proc'[p].pc = "save"
<1> DEFINE o == proc[p]
           t == o.tab
           tab == [t EXCEPT !.list[t.cur].cwd = dir]
           done == [what |-> "moved", key |-> Key(t.list[t.cur]), cwd |-> dir]
           r == With(o, [pc |-> "save", tab |-> tab, dirty |-> TRUE, done |-> done])
<1>1. Shape(o) /\ o.pc = "work" /\ (breach = {} => Tells(o)) /\ o.cmd.op \notin Probes \cup {"hvol"}
  BY DEF KnownInv, Own, Probes
<1>2. SetCwd(p, dir) = [pc |-> "save", tab |-> tab, dirty |-> TRUE, done |-> done]
  BY DEF SetCwd, Current
<1>3. proc'[p] = r
  BY <1>2 DEF Becomes, KnownInv
<1>4. t \in Table /\ t.cur # 0
  BY <1>1 DEF Shape
<1>5. tab \in Table /\ (Distinct(t) => Distinct(tab) /\ Knows(tab) = Told(Knows(t), done))
  <2> HIDE DEF t
  <2> QED
    BY <1>4, MoveTable
<1>6. /\ DOMAIN r = Fields /\ r.pc = "save" /\ r.tab = tab /\ r.dirty = TRUE /\ r.done = done
      /\ r.cmd = o.cmd /\ r.read = o.read
      /\ r.part = o.part /\ r.src = o.src /\ r.mode = o.mode /\ r.dir = o.dir
  <2> HIDE DEF o, tab, done
  <2> QED
    BY <1>1, WithDirtyTable DEF Shape
<1>7. done.what = "moved" /\ o.pc = "work" /\ t = o.tab
  OBVIOUS
<1> HIDE DEF o, t, tab, done, r
<1>8. Shape(r)
  BY <1>1, <1>5, <1>6, <1>7 DEF Shape
<1>9. breach = {} => Tells(r)
  <2> SUFFICES ASSUME breach = {} PROVE Tells(r)
    OBVIOUS
  <2>1. o.done = Silent /\ o.tab = o.read /\ Distinct(o.tab)
    BY <1>1, <1>7 DEF Tells
  <2>2. done # Silent
    BY <1>7 DEF Silent
  <2> QED
    BY <1>5, <1>6, <1>7, <2>1, <2>2 DEF Tells
<1> QED
  BY <1>3, <1>6, <1>8, <1>9 DEF Own, Holding, Chosen, Looked

LEMMA ShowOwn ==
  ASSUME KnownInv, NEW p \in Process, Show(p)
  PROVE  Own(p)' /\ proc'[p].pc = "save"
<1>1. proc[p].pc # "idle" /\ Goes(p, "save") /\ breach' = breach
  BY DEF Show, Works
<1> QED
  BY <1>1, GoesKeeps

LEMMA ChangeDirOwn ==
  ASSUME KnownInv, NEW p \in Process, ChangeDir(p)
  PROVE  Own(p)' /\ proc'[p].pc = "save"
<1> DEFINE d == proc[p].cmd.dir
<1>1. proc[p].pc = "work" /\ proc[p].cmd.op = "hcd" /\ breach' = breach
  BY DEF ChangeDir, Works
<1>2. d \in Dir \cup {Root}
  <2>1. proc[p].cmd \in Command
    BY <1>1 DEF KnownInv, Own, Shape
  <2> QED
    BY <1>1, <2>1, CommandFields
<1>3. Becomes(p, SetCwd(p, d)) \/ Goes(p, "save")
  BY DEF ChangeDir
<1> QED
  BY <1>1, <1>2, <1>3, SetCwdOwn, GoesKeeps

LEMMA ModifyOwn ==
  ASSUME KnownInv, NEW p \in Process, Modify(p)
  PROVE  Own(p)' /\ proc'[p].pc = "save"
<1> DEFINE c == proc[p].cmd
           dir == IF proc[p].dir = c.from THEN c.to ELSE proc[p].dir
<1>1. proc[p].pc = "work" /\ breach' = breach /\ Shape(proc[p])
  BY DEF Modify, KnownInv, Own
<1>2. Goes(p, "save") \/ (c.op = "hrename" /\ Becomes(p, SetCwd(p, dir)))
  BY DEF Modify
<1>3. c.op = "hrename" => dir \in Dir \cup {Root}
  <2>1. c \in Command /\ proc[p].dir \in Dir \cup {Root}
    BY <1>1 DEF Shape
  <2>2. c.op = "hrename" => c.to \in Dir
    BY <2>1, CommandFields
  <2> QED
    BY <2>1, <2>2
<1> HIDE DEF dir
<1> QED
  BY <1>1, <1>2, <1>3, SetCwdOwn, GoesKeeps

LEMMA IdleOwn ==
  ASSUME NEW p \in Process, proc'[p] = Idle
  PROVE  Own(p)'
BY DEF Own, Shape, Tells, Holding, Chosen, Looked, Idle

LEMMA EndOwn ==
  ASSUME KnownInv, NEW p \in Process, Save(p) \/ Flush(p) \/ Kill(p)
  PROVE  Own(p)'
<1>1. breach' = {} => breach = {}
  BY DEF Save, Flush, Kill, Breach
<1>2. \/ proc' = [proc EXCEPT ![p] = Idle]
      \/ proc[p].pc = "save" /\ Goes(p, "flush")
  BY DEF Save, Flush, Kill
<1>3. DOMAIN proc = Process
  BY DEF KnownInv
<1> QED
  BY <1>1, <1>2, <1>3, IdleOwn, GoesKeeps

(***************************************************************************)
(* The media, and the processes that do not take the step.                 *)
(***************************************************************************)
LEMMA AfterVolume ==
  ASSUME KnownInv, NEW p \in Process, proc[p].pc = "work", NEW d \in After(p)
  PROVE  d \in Volume /\ d.born = Disk(p).born /\ d.parts = Disk(p).parts
<1> DEFINE v == Disk(p)
           c == proc[p].cmd
<1> SUFFICES d \in Volume /\ d.born = v.born /\ d.parts = v.parts
  OBVIOUS
<1>1. v \in Volume /\ c \in Command
  BY OpenMedium DEF Shape
<1>2. /\ v.name \in Label /\ v.born \in Medium \X Nat /\ v.parts \in BOOLEAN
      /\ v.dirs \subseteq Dir /\ v.files \subseteq v.dirs \cup {Root}
  BY <1>1, VolumeFields
<1>3. ASSUME NEW dirs \in SUBSET Dir, NEW files \in SUBSET (Dir \cup {Root}),
             files \subseteq dirs \cup {Root},
             d = [v EXCEPT !.dirs = dirs, !.files = files]
      PROVE  d \in Volume /\ d.born = v.born /\ d.parts = v.parts
  <2> HIDE DEF v
  <2> QED
    BY <1>1, <1>3 DEF Volume
<1>4. CASE c.op = "hmkdir"
  <2> DEFINE dirs == v.dirs \cup {c.dir}
             files == v.files
  <2>1. d = [v EXCEPT !.dirs = dirs] /\ c.dir \in Dir
    BY <1>1, <1>4, CommandFields DEF After
  <2>2. d = [v EXCEPT !.dirs = dirs, !.files = files]
    <3> HIDE DEF v, dirs
    <3> QED
      BY <1>1, <2>1 DEF Volume
  <2>3. dirs \in SUBSET Dir /\ files \in SUBSET (Dir \cup {Root}) /\ files \subseteq dirs \cup {Root}
    <3> HIDE DEF v
    <3> QED
      BY <1>2, <2>1
  <2> HIDE DEF v, dirs, files
  <2> QED
    BY <1>3, <2>2, <2>3
<1>5. CASE c.op = "hrmdir"
  <2> DEFINE dirs == v.dirs \ {c.dir}
             files == v.files
  <2>1. d = [v EXCEPT !.dirs = dirs] /\ c.dir \notin v.files
    BY <1>1, <1>5, CommandFields DEF After
  <2>2. d = [v EXCEPT !.dirs = dirs, !.files = files]
    <3> HIDE DEF v, dirs
    <3> QED
      BY <1>1, <2>1 DEF Volume
  <2>3. dirs \in SUBSET Dir /\ files \in SUBSET (Dir \cup {Root}) /\ files \subseteq dirs \cup {Root}
    <3> HIDE DEF v
    <3> QED
      BY <1>2, <2>1
  <2> HIDE DEF v, dirs, files
  <2> QED
    BY <1>3, <2>2, <2>3
<1>6. CASE c.op = "hdel"
  <2> DEFINE dirs == v.dirs
             files == v.files \ {proc[p].dir}
  <2>1. d = [v EXCEPT !.files = files]
    BY <1>6 DEF After
  <2>2. d = [v EXCEPT !.dirs = dirs, !.files = files]
    <3> HIDE DEF v, files
    <3> QED
      BY <1>1, <2>1 DEF Volume
  <2>3. dirs \in SUBSET Dir /\ files \in SUBSET (Dir \cup {Root}) /\ files \subseteq dirs \cup {Root}
    <3> HIDE DEF v
    <3> QED
      BY <1>2
  <2> HIDE DEF v, dirs, files
  <2> QED
    BY <1>3, <2>2, <2>3
<1>7. CASE c.op = "hrename"
  <2> DEFINE dirs == (v.dirs \ {c.from}) \cup {c.to}
             files == {IF x = c.from THEN c.to ELSE x : x \in v.files}
  <2>2. d = [v EXCEPT !.dirs = dirs, !.files = files] /\ c.to \in Dir
    BY <1>1, <1>7, CommandFields DEF After
  <2>3. dirs \in SUBSET Dir /\ files \in SUBSET (Dir \cup {Root}) /\ files \subseteq dirs \cup {Root}
    <3> HIDE DEF v
    <3> QED
      BY <1>2, <2>2
  <2> HIDE DEF v, dirs, files
  <2> QED
    BY <1>3, <2>2, <2>3
<1>8. c.op \in {"hmkdir", "hrmdir", "hdel", "hrename"}
  BY DEF After
<1> QED
  BY <1>4, <1>5, <1>6, <1>7, <1>8

LEMMA FormatDisk ==
  ASSUME KnownInv, NEW p \in Process, Format(p)
  PROVE  /\ disk' \in [Medium -> Volume]
         /\ breach = {} => \A m \in Medium : disk'[m].parts = disk[m].parts
         /\ \A q \in Process : q # p /\ proc[q].pc = "work" =>
              disk'[drive[proc[q].src]].born = disk[drive[proc[q].src]].born
<1> DEFINE o == proc[p]
           s == o.cmd.src
           m == drive[s]
           v == Fresh(m, o.cmd, o.part)
<1>1. /\ Shape(o) /\ o.pc = "format" /\ (breach = {} => Looked(p))
      /\ disk \in [Medium -> Volume]
  BY DEF Format, KnownInv, Own, MediaSound
<1>2. CASE disk' = disk
  BY <1>1, <1>2
<1>3. CASE disk' # disk
  <2>1. disk' = [disk EXCEPT ![m] = v] /\ CanOpen(p, s, "write") /\ o.part <= Parts(s)
    BY <1>3 DEF Format
  <2>2. s \in Source /\ o.cmd.label \in Label /\ o.part \in {0, 1}
    BY <1>1, CommandFields DEF Shape, Probes
  <2>3. m # Empty /\ m \in Medium
    BY <2>1, <2>2 DEF CanOpen, KnownInv, MediaSound
  <2>4. v \in Volume /\ v.parts = (o.part = 1)
    <3>1. disk[m].born \in Medium \X Nat
      BY <1>1, <2>3, VolumeFields
    <3>2. <<m, disk[m].born[2] + 1>> \in Medium \X Nat
      BY <2>3, <3>1
    <3> HIDE DEF o, m
    <3> QED
      BY <2>2, <3>2 DEF Fresh, Volume
  <2>5. disk' \in [Medium -> Volume]
    <3> HIDE DEF v, m
    <3> QED
      BY <1>1, <2>1, <2>3, <2>4
  <2>6. breach = {} => v.parts = disk[m].parts
    <3> SUFFICES ASSUME breach = {} PROVE v.parts = disk[m].parts
      OBVIOUS
    <3>1. o.part = Parts(s)
      BY <1>1, <2>3 DEF Looked
    <3>2. disk[m].parts \in BOOLEAN
      BY <1>1, <2>3, VolumeFields
    <3>3. Parts(s) = IF disk[m].parts THEN 1 ELSE 0
      BY DEF Parts
    <3> HIDE DEF o, v, m, s
    <3>4. CASE disk[m].parts = TRUE
      BY <2>4, <3>1, <3>3, <3>4
    <3>5. CASE disk[m].parts = FALSE
      <4>1. ~ (o.part = 1)
        BY <3>1, <3>3, <3>5
      <4> QED
        BY <2>4, <3>5, <4>1, Zenon
    <3> QED
      BY <3>2, <3>4, <3>5
  <2>7. breach = {} => \A n \in Medium : disk'[n].parts = disk[n].parts
    <3> HIDE DEF v, m
    <3> QED
      BY <1>1, <2>1, <2>3, <2>6
  <2>8. ASSUME NEW q \in Process, q # p, proc[q].pc = "work"
        PROVE  disk'[drive[proc[q].src]].born = disk[drive[proc[q].src]].born
    <3>1. proc[q].src \in Source /\ drive[proc[q].src] \in Medium
      BY <2>8, OpenMedium
    <3>2. drive[proc[q].src] # m
      <4> SUFFICES ASSUME drive[proc[q].src] = m PROVE FALSE
        OBVIOUS
      <4>1. proc[q].src = s
        BY <2>2, <2>3, <3>1 DEF KnownInv, MediaSound
      <4>2. Holds(q, s)
        BY <2>8, <4>1 DEF Holds
      <4> QED
        BY <2>1, <2>8, <4>2 DEF CanOpen
    <3> HIDE DEF v, m
    <3> QED
      BY <1>1, <2>1, <3>1, <3>2
  <2> QED
    BY <2>5, <2>7, <2>8
<1> QED
  BY <1>2, <1>3

LEMMA ModifyDisk ==
  ASSUME KnownInv, NEW p \in Process, Modify(p)
  PROVE  /\ disk' \in [Medium -> Volume]
         /\ \A m \in Medium : /\ disk'[m].parts = disk[m].parts
                              /\ disk'[m].born = disk[m].born
<1>1. disk \in [Medium -> Volume] /\ proc[p].pc = "work"
  BY DEF Modify, KnownInv, MediaSound
<1>2. CASE disk' = disk
  BY <1>1, <1>2
<1>3. CASE disk' # disk
  <2>1. PICK d \in After(p) : Changes(p, d)
    BY <1>3 DEF Modify
  <2> DEFINE m == drive[proc[p].src]
  <2>2. m \in Medium /\ Disk(p) = disk[m]
    BY <1>1, OpenMedium DEF Disk
  <2>3. disk' = [disk EXCEPT ![m] = d]
    BY <2>1 DEF Changes
  <2>4. d \in Volume /\ d.born = disk[m].born /\ d.parts = disk[m].parts
    BY <1>1, <2>2, AfterVolume
  <2> HIDE DEF m
  <2> QED
    BY <1>1, <2>2, <2>3, <2>4
<1> QED
  BY <1>2, <1>3

LEMMA StepsDisk ==
  ASSUME KnownInv, NEW p \in Process, Steps(p)
  PROVE  /\ drive' = drive /\ disk' \in [Medium -> Volume]
         /\ breach = {} => \A m \in Medium : disk'[m].parts = disk[m].parts
         /\ \A q \in Process : q # p /\ proc[q].pc = "work" =>
              disk'[drive[proc[q].src]].born = disk[drive[proc[q].src]].born
<1>1. drive' = drive
  BY DEF Steps, Start, Probe, Format, Forget, Choose, OpenNew, Remount, Record, Show,
         ChangeDir, Modify, Save, Flush, Kill
<1>2. Format(p) \/ Modify(p) \/ disk' = disk
  BY DEF Steps, Start, Probe, Forget, Choose, OpenNew, Remount, Record, Show, ChangeDir, Save,
         Flush, Kill
<1>3. CASE Format(p)
  BY <1>1, <1>3, FormatDisk
<1>4. CASE Modify(p)
  BY <1>1, <1>4, ModifyDisk, OpenMedium
<1>5. CASE disk' = disk
  BY <1>1, <1>5 DEF KnownInv, MediaSound
<1> QED
  BY <1>2, <1>3, <1>4, <1>5

LEMMA OthersOwn ==
  ASSUME KnownInv, NEW p \in Process, Steps(p), NEW q \in Process, q # p
  PROVE  Own(q)'
<1>1. Own(q) /\ proc'[q] = proc[q] /\ (breach' = {} => breach = {})
  BY OthersGoOn, BreachGrows DEF KnownInv
<1>2. Holding(q)'
  BY <1>1, StepsDisk DEF Own, Holding
<1>3. breach' = {} => Chosen(q)'
  BY <1>1, StepsDisk DEF Own, Chosen, Current
<1>4. breach' = {} => Looked(q)'
  <2> SUFFICES ASSUME breach' = {}, proc[q].pc = "format", drive[proc[q].cmd.src] # Empty
               PROVE  proc[q].part = IF disk'[drive[proc[q].cmd.src]].parts THEN 1 ELSE 0
    BY <1>1, StepsDisk DEF Looked, Parts
  <2>1. proc[q].cmd.src \in Source
    BY <1>1, CommandFields DEF Own, Shape, Probes
  <2>2. drive[proc[q].cmd.src] \in Medium
    BY <2>1 DEF KnownInv, MediaSound
  <2>3. disk'[drive[proc[q].cmd.src]].parts = disk[drive[proc[q].cmd.src]].parts
    BY <1>1, <2>2, StepsDisk
  <2>4. proc[q].part = Parts(proc[q].cmd.src)
    BY <1>1 DEF Own, Looked
  <2> QED
    BY <2>3, <2>4 DEF Parts
<1> QED
  BY <1>1, <1>2, <1>3, <1>4 DEF Own

LEMMA StepOwn ==
  ASSUME KnownInv, NEW p \in Process, Steps(p)
  PROVE  Own(p)'
BY StartOwn, ProbeOwn, FormatOwn, ForgetOwn, ChooseOwn, OpenNewOwn, RemountOwn, RecordOwn,
   ShowOwn, ChangeDirOwn, ModifyOwn, EndOwn DEF Steps

LEMMA ExchangeKeeps ==
  ASSUME KnownInv, NEW s \in Source, NEW m \in Medium \cup {Empty}, Exchange(s, m)
  PROVE  KnownInv'
<1>1. /\ drive' = [drive EXCEPT ![s] = m] /\ UNCHANGED <<disk, file, proc, runs, meant, breach>>
      /\ \A q \in Process : ~Holds(q, s) /\ ~Looks(q, s)
      /\ \A t \in Source : drive[t] # m \/ m = Empty
      /\ drive \in [Source -> Medium \cup {Empty}]
  BY DEF Exchange, KnownInv, MediaSound
<1>2. MediaSound'
  <2>1. \A t, u \in Source : drive'[t] = drive'[u] => t = u \/ drive'[t] = Empty
    BY <1>1 DEF KnownInv, MediaSound
  <2> QED
    BY <1>1, <2>1 DEF KnownInv, MediaSound
<1>3. ASSUME NEW q \in Process PROVE Own(q)'
  <2>1. Own(q) /\ proc'[q] = proc[q] /\ breach' = breach /\ disk' = disk
    BY <1>1 DEF KnownInv
  <2>2. proc[q].pc = "work" => drive'[proc[q].src] = drive[proc[q].src]
    BY <1>1, <2>1 DEF Own, Shape, Holds
  <2>3. Holding(q)'
    BY <2>1, <2>2 DEF Own, Holding
  <2>4. breach = {} => Chosen(q)'
    BY <2>1, <2>2 DEF Own, Chosen, Current
  <2>5. proc[q].pc = "format" => drive'[proc[q].cmd.src] = drive[proc[q].cmd.src]
    <3>1. proc[q].pc = "format" => proc[q].cmd.op \in Probes /\ proc[q].cmd.src \in Source
      BY <2>1, CommandFields DEF Own, Shape, Probes
    <3> QED
      BY <1>1, <3>1 DEF Looks
  <2>6. breach = {} => Looked(q)'
    BY <2>1, <2>5 DEF Own, Looked, Parts
  <2> QED
    BY <2>1, <2>3, <2>4, <2>6 DEF Own
<1>4. breach' = {} => FileSound'
  BY <1>1 DEF KnownInv, FileSound
<1> QED
  BY <1>1, <1>2, <1>3, <1>4 DEF KnownInv

(***************************************************************************)
(* The file.                                                               *)
(***************************************************************************)
\* the steps that leave the file alone
LEMMA QuietFile ==
  ASSUME KnownInv, NEW p \in Process, Steps(p), ~Save(p), ~Flush(p), breach' = {}
  PROVE  FileSound' /\ file' \in Table
<1>1. file' = file /\ meant' = meant
  BY DEF Steps, Start, Probe, Format, Forget, Choose, OpenNew, Remount, Record, Show, ChangeDir,
         Modify, Kill
<1>2. breach = {} /\ FileSound /\ file \in Table
  BY BreachGrows DEF KnownInv
<1>3. proc[p].pc # "flush"
  BY <1>2 DEF Steps, Start, Probe, Format, Forget, Choose, OpenNew, Remount, Record, Show,
              ChangeDir, Modify, Kill, Breach, Works
<1>4. proc'[p].pc # "flush"
  <2>1. CASE Kill(p)
    <3>1. proc' = [proc EXCEPT ![p] = Idle] /\ DOMAIN proc = Process
      BY <2>1 DEF Kill, KnownInv
    <3> QED
      BY <3>1 DEF Idle
  <2>2. CASE ~Kill(p)
    BY <2>2, StartOwn, ProbeOwn, FormatOwn, ForgetOwn, ChooseOwn, OpenNewOwn, RemountOwn,
       RecordOwn, ShowOwn, ChangeDirOwn, ModifyOwn DEF Steps
  <2> QED
    BY <2>1, <2>2
<1>5. \A q \in Process : proc'[q].pc = "flush" => q # p /\ proc'[q] = proc[q]
  BY <1>4, OthersGoOn
<1>6. \A q \in Process : proc[q].pc = "flush" => proc'[q] = proc[q]
  BY <1>3, OthersGoOn
<1> QED
  BY <1>1, <1>2, <1>5, <1>6 DEF FileSound

\* "race" apart, a command that writes the list has read what the file says
LEMMA SaveFile ==
  ASSUME KnownInv, NEW p \in Process, Save(p), breach' = {}
  PROVE  FileSound' /\ file' \in Table
<1> DEFINE o == proc[p]
<1>1. /\ breach = {} /\ FileSound /\ Tells(o) /\ Shape(o) /\ o.pc = "save"
      /\ DOMAIN proc = Process /\ file \in Table
  BY DEF Save, Breach, KnownInv, Own
<1>2. meant' = Told(meant, o.done)
  BY DEF Save
<1>3. o.dirty => o.read = file /\ \A q \in Process : proc[q].pc # "flush"
  BY DEF Save, Saves, Breach
<1>4. ~o.dirty => meant' = meant
  BY <1>1, <1>2, ToldSilent DEF Tells
<1>5. o.dirty => meant' = Knows(o.tab)
  BY <1>1, <1>2, <1>3 DEF FileSound, Tells
<1>6. CASE o.dirty
  <2>1. file' = NoTable /\ proc' = [proc EXCEPT ![p].pc = "flush"]
    BY <1>6 DEF Save, Saves, Goes
  <2>2. proc'[p].pc = "flush" /\ proc'[p].tab = o.tab
    <3>1. proc'[p] = [o EXCEPT !.pc = "flush"]
      BY <1>1, <2>1
    <3> HIDE DEF o
    <3> QED
      BY <1>1, <3>1, WithPc DEF Shape
  <2>3. \A q \in Process : q # p => proc'[q].pc # "flush"
    BY <1>1, <1>3, <1>6, <2>1
  <2> HIDE DEF o
  <2> QED
    BY <1>5, <1>6, <2>1, <2>2, <2>3, NoTableTable DEF FileSound
<1>7. CASE ~o.dirty
  <2>1. file' = file /\ proc' = [proc EXCEPT ![p] = Idle]
    BY <1>7 DEF Save, Saves
  <2>2. proc'[p].pc = "idle" /\ \A q \in Process : q # p => proc'[q] = proc[q]
    BY <1>1, <2>1 DEF Idle
  <2>3. meant' = meant
    BY <1>4, <1>7
  <2> HIDE DEF o
  <2> QED
    BY <1>1, <2>1, <2>2, <2>3 DEF FileSound, o
<1> QED
  BY <1>1, <1>6, <1>7 DEF Shape

LEMMA FlushFile ==
  ASSUME KnownInv, NEW p \in Process, Flush(p), breach' = {}
  PROVE  FileSound'
<1> DEFINE t == proc[p].tab
<1>1. /\ FileSound /\ Tells(proc[p]) /\ Shape(proc[p]) /\ proc[p].pc = "flush"
      /\ DOMAIN proc = Process
  BY DEF Flush, KnownInv, Own
<1>2. /\ t \in Table /\ Distinct(t) /\ Knows(t) = meant /\ file = NoTable
      /\ \A q \in Process : proc[q].pc = "flush" => q = p
  BY <1>1 DEF FileSound, Tells, Shape
<1>3. /\ file' = [t EXCEPT !.list = t.list \o SubSeq(file.list, Len(t.list) + 1, Len(file.list))]
      /\ proc' = [proc EXCEPT ![p] = Idle] /\ meant' = meant
  BY DEF Flush
<1>4. file' = t
  <2>1. /\ t.list \in Seq(Entry) /\ Len(t.list) \in Nat
        /\ t = [cur |-> t.cur, list |-> t.list]
    BY <1>2, TableFields
  <2>2. file.list = << >> /\ Len(file.list) = 0
    BY <1>2 DEF NoTable
  <2>3. SubSeq(file.list, Len(t.list) + 1, Len(file.list)) = << >>
    BY <2>1, <2>2, SubSeqEmpty
  <2>4. t.list \o << >> = t.list
    BY <2>1, ConcatEmptySeq
  <2> HIDE DEF t
  <2>5. [t EXCEPT !.list = t.list] = t
    BY <2>1
  <2> QED
    BY <1>3, <2>3, <2>4, <2>5
<1>5. \A q \in Process : proc'[q].pc # "flush"
  BY <1>1, <1>2, <1>3 DEF Idle
<1> QED
  BY <1>2, <1>3, <1>4, <1>5 DEF FileSound

\* whoever else has written meanwhile
LEMMA FlushTable ==
  ASSUME KnownInv, NEW p \in Process, Flush(p)
  PROVE  file' \in Table
<1> DEFINE t == proc[p].tab
           n == Len(t.list)
           rest == SubSeq(file.list, n + 1, Len(file.list))
<1>1. t \in Table /\ file \in Table
  BY DEF Flush, KnownInv, Own, Shape
<1>2. file' = [t EXCEPT !.list = t.list \o rest]
  BY DEF Flush
<1>3. /\ t.list \in Seq(Entry) /\ n \in Nat /\ t.cur \in 0..n /\ t = [cur |-> t.cur, list |-> t.list]
      /\ file.list \in Seq(Entry) /\ Len(file.list) \in Nat
  BY <1>1, TableFields
<1>4. rest \in Seq(Entry)
  <2>1. \A i \in n + 1..Len(file.list) : file.list[i] \in Entry
    BY <1>1, <1>3, TableFields
  <2> HIDE DEF n
  <2> QED
    BY <1>3, <2>1, SubSeqProperties
<1> HIDE DEF rest
<1>5. /\ t.list \o rest \in Seq(Entry) /\ Len(t.list \o rest) = n + Len(rest) /\ Len(rest) \in Nat
  BY <1>3, <1>4, ConcatProperties
<1> DEFINE list == t.list \o rest
<1>6. t.cur \in 0..Len(list)
  BY <1>3, <1>5
<1> HIDE DEF t, n, list
<1>7. [t EXCEPT !.list = list] = [cur |-> t.cur, list |-> list]
  BY <1>3
<1>8. list \in Seq(Entry)
  BY <1>5 DEF list
<1> QED
  BY <1>2, <1>6, <1>7, <1>8, MakesTable DEF list

LEMMA StepFile ==
  ASSUME KnownInv, NEW p \in Process, Steps(p)
  PROVE  file' \in Table /\ (breach' = {} => FileSound')
<1>1. file' \in Table
  <2>1. file' = file \/ file' = NoTable \/ Flush(p)
    BY DEF Steps, Start, Probe, Format, Forget, Choose, OpenNew, Remount, Record, Show,
           ChangeDir, Modify, Save, Kill
  <2> QED
    BY <2>1, NoTableTable, FlushTable DEF KnownInv
<1> QED
  BY <1>1, QuietFile, SaveFile, FlushFile

(***************************************************************************)
(* The theorems.                                                           *)
(***************************************************************************)
LEMMA InitKnown == Init => KnownInv
<1> SUFFICES ASSUME Init PROVE KnownInv
  OBVIOUS
<1>1. MediaSound
  <2>1. PICK name \in [Medium -> Label], parts \in [Medium -> BOOLEAN] :
          disk = [m \in Medium |-> [name |-> name[m], born |-> <<m, 0>>, parts |-> parts[m],
                                    dirs |-> Given, files |-> Given \cup {Root}]]
    BY DEF Init
  <2>2. disk \in [Medium -> Volume]
    <3>1. ASSUME NEW m \in Medium
          PROVE  [name |-> name[m], born |-> <<m, 0>>, parts |-> parts[m],
                  dirs |-> Given, files |-> Given \cup {Root}] \in Volume
      BY KnownAssumption DEF Volume
    <3> QED
      BY <2>1, <3>1
  <2>3. /\ drive \in [Source -> Medium \cup {Empty}]
        /\ \A s, t \in Source : drive[s] = drive[t] => s = t \/ drive[s] = Empty
    BY DEF Init
  <2> QED
    BY <2>2, <2>3 DEF MediaSound
<1>2. \A p \in Process : Own(p) /\ proc[p].pc = "idle"
  BY DEF Init, Own, Shape, Tells, Holding, Chosen, Looked, Idle
<1>3. FileSound
  <2>1. Knows(NoTable) = [cur |-> << >>, known |-> {}]
    BY DEF Knows, NoTable, Range
  <2> QED
    BY <1>2, <2>1, NoTableTable DEF Init, FileSound
<1> QED
  BY <1>1, <1>2, <1>3, NoTableTable DEF Init, KnownInv

LEMMA NextKnown == KnownInv /\ [Next]_vars => KnownInv'
<1> SUFFICES ASSUME KnownInv, [Next]_vars PROVE KnownInv'
  OBVIOUS
<1>1. ASSUME NEW p \in Process, Steps(p) PROVE KnownInv'
  <2>1. MediaSound'
    BY <1>1, StepsDisk DEF KnownInv, MediaSound
  <2>2. \A q \in Process : Own(q)'
    BY <1>1, StepOwn, OthersOwn
  <2> QED
    BY <1>1, <2>1, <2>2, StepFile, OthersGoOn DEF KnownInv
<1>2. CASE UNCHANGED vars
  BY <1>2 DEF vars, KnownInv, MediaSound, Own, Holding, Chosen, Looked, Current, Parts, FileSound
<1> QED
  BY <1>1, <1>2, ExchangeKeeps DEF Next

\* The invariant holds in every state.
LEMMA KnownInvariance == Spec => []KnownInv
BY InitKnown, NextKnown, PTL DEF Spec

\* However the commands of several users and drives interleave, .hcwd lists each
\* volume once and says what the commands that ended have reported, unless
\* one of the breaches has happened (hcwd_init, hcwd_finish, hfsutil_*).
THEOREM ListStaysSound == Spec => []ListSound
<1>1. KnownInv => ListSound
  <2> SUFFICES ASSUME KnownInv PROVE ListSound
    OBVIOUS
  <2>1. TypeOK
    <3>1. \A t \in Table : IsTable(t)
      BY TableFields DEF IsTable
    <3>2. \A m \in Medium : /\ disk[m].name \in Label /\ disk[m].parts \in BOOLEAN
                            /\ disk[m].dirs \subseteq Dir
                            /\ disk[m].files \subseteq disk[m].dirs \cup {Root}
      BY VolumeFields DEF KnownInv, MediaSound
    <3>3. \A p \in Process : proc[p].pc # "idle" => IsTable(proc[p].tab)
      BY <3>1 DEF KnownInv, Own, Shape
    <3> QED
      BY <3>1, <3>2, <3>3 DEF TypeOK, KnownInv, MediaSound, IsTable
  <2>2. Remembered
    <3> SUFFICES ASSUME breach = {}, \A p \in Process : proc[p].pc # "flush"
                 PROVE  /\ Knows(file) = meant
                        /\ IsInjective([i \in DOMAIN file.list |-> Key(file.list[i])])
      BY DEF Remembered
    <3>1. Knows(file) = meant /\ Distinct(file)
      BY DEF KnownInv, FileSound
    <3> QED
      BY <3>1 DEF Distinct, IsInjective
  <2> QED
    BY <2>1, <2>2 DEF ListSound
<1> QED
  BY <1>1, KnownInvariance, PTL

\* A command that changes a volume changes the one that is current in the list
\* it has read, and the directory that is current there (hfsutil_remount).
THEOREM CommandsActOnTheirVolume == Spec => RightVolume
<1>1. KnownInv /\ [Next]_vars =>
        [breach = {} =>
           \A p \in Process : Modify(p) =>
             \A m \in Medium : disk'[m] # disk[m] =>
               /\ disk[m].born = Current(p).born
               /\ proc[p].cmd.op = "hdel" =>
                    disk'[m].files = disk[m].files \ {Current(p).cwd}]_vars
  <2> SUFFICES ASSUME KnownInv, breach = {}, NEW p \in Process, Modify(p),
                      NEW m \in Medium, disk'[m] # disk[m]
               PROVE  /\ disk[m].born = Current(p).born
                      /\ proc[p].cmd.op = "hdel" =>
                           disk'[m].files = disk[m].files \ {Current(p).cwd}
    OBVIOUS
  <2>1. /\ proc[p].pc = "work" /\ proc[p].cmd.op \notin Probes /\ Chosen(p)
        /\ disk \in [Medium -> Volume]
    BY DEF Modify, KnownInv, Own, MediaSound, Probes
  <2>2. PICK d \in After(p) : disk' = [disk EXCEPT ![drive[proc[p].src]] = d]
    BY DEF Modify, Changes
  <2>3. drive[proc[p].src] = m /\ disk'[m] = d
    BY <2>1, <2>2
  <2>4. disk[m].born = Current(p).born /\ proc[p].dir = Current(p).cwd
    BY <2>1, <2>3 DEF Chosen
  <2>5. proc[p].cmd.op = "hdel" => d = [disk[m] EXCEPT !.files = disk[m].files \ {proc[p].dir}]
    BY <2>3 DEF After, Disk
  <2>6. disk[m] \in Volume
    BY <2>1
  <2>7. [disk[m] EXCEPT !.files = disk[m].files \ {proc[p].dir}].files
          = disk[m].files \ {proc[p].dir}
    BY <2>6 DEF Volume
  <2> QED
    BY <2>3, <2>4, <2>5, <2>7
<1> QED
  BY <1>1, KnownInvariance, PTL DEF Spec, RightVolume

\* No command takes the partition map off a medium that has one: hformat writes
\* into the partition that its probe has found (hformat.c, do_format).
THEOREM MapsStay == Spec => MapKept
<1>1. KnownInv /\ [Next]_vars =>
        [breach' = {} => \A m \in Medium : disk[m].parts => disk'[m].parts]_vars
  <2> SUFFICES ASSUME KnownInv, Next, breach' = {}, NEW m \in Medium, disk[m].parts
               PROVE  disk'[m].parts
    OBVIOUS
  <2>1. CASE \E p \in Process : Steps(p)
    BY <2>1, BreachGrows, StepsDisk
  <2>2. CASE \E s \in Source, n \in Medium \cup {Empty} : Exchange(s, n)
    BY <2>2 DEF Exchange
  <2> QED
    BY <2>1, <2>2 DEF Next
<1> QED
  BY <1>1, KnownInvariance, PTL DEF Spec, MapKept
===============================================================================
