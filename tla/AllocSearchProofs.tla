-------------------------- MODULE AllocSearchProofs --------------------------
(***************************************************************************)
(* Proofs about AllocSearch: the search of v_allocblocks implements the    *)
(* pool of blocks that BlockPool specifies, and takes the first run it     *)
(* meets of those that do, for any bitmap, pointer and request.            *)
(***************************************************************************)
EXTENDS AllocSearch, Integers, FiniteSetTheorems, WellFoundedInduction, TLAPS

(***************************************************************************)
(* The inductive invariant.                                                *)
(***************************************************************************)
Counted == free = NBlocks - Cardinality(vbm)

FreeRun(at, len) == at + len <= NBlocks /\ Run(at, len) \cap vbm = {}

\* what has been found so far can be taken, and is the first of its length
FoundSound ==
  pc # "idle" =>
    /\ free # 0
    /\ search.found <= search.request
    /\ search.found > 0 => /\ FreeRun(search.foundat, search.found)
                           /\ \A a \in ABN : FreeRun(a, search.found) =>
                                Ahead(search.start, search.foundat) <= Ahead(search.start, a)

\* the search has looked at the runs that begin at block a
Passed(a) ==
  IF search.wrap THEN a >= search.start \/ a < search.pt
  ELSE search.start <= a /\ a < search.pt

\* none of the runs that were passed is longer
NoneLonger ==
  pc = "scan" =>
    /\ search.found < search.request
    /\ search.wrap \/ search.start <= search.pt
    /\ \A a \in ABN, len \in 1..search.request :
         Passed(a) /\ FreeRun(a, len) => len <= search.found

\* when the search ends none is longer anywhere
Longest ==
  pc = "take" =>
    \A a \in ABN, len \in 1..search.request : FreeRun(a, len) => len <= search.found

SearchInv == TypeOK /\ Counted /\ FoundSound /\ NoneLonger /\ Longest

LEMMA SearchFields ==
  ASSUME NEW s \in Search
  PROVE  /\ s.request \in 1..MaxRequest /\ s.start \in 0..NBlocks
         /\ s.pt \in 0..NBlocks /\ s.wrap \in BOOLEAN
         /\ s.found \in 0..MaxRequest /\ s.foundat \in 0..NBlocks
BY DEF Search

LEMMA SearchUpdate ==
  ASSUME NEW s \in Search, NEW pt \in 0..NBlocks
  PROVE  /\ [s EXCEPT !.pt = pt] \in Search
         /\ \A found \in 0..MaxRequest, foundat \in 0..NBlocks, wrap \in BOOLEAN :
              [s EXCEPT !.found = found, !.foundat = foundat, !.pt = pt, !.wrap = wrap] \in Search
BY DEF Search

LEMMA Idle == NoSearch \in Search /\ Nothing \in Reply
BY SearchAssumption DEF NoSearch, Nothing, Search, Reply

-----------------------------------------------------------------------------
(***************************************************************************)
(* The inner loops end, and where.                                         *)
(***************************************************************************)
LEMMA Least ==
  ASSUME NEW S \in SUBSET Nat, S # {}
  PROVE  \E x \in S : \A y \in S : x <= y
<1>1. \E R : IsWellFoundedOn(R, Nat) /\ \A x, y \in Nat : y < x => <<y, x>> \in R
  <2> DEFINE R == OpToRel(<, Nat)
  <2>1. IsWellFoundedOn(R, Nat)
    BY NatLessThanWellFounded, Zenon
  <2>2. \A x, y \in Nat : y < x => <<y, x>> \in R
    BY DEF OpToRel
  <2> QED
    BY <2>1, <2>2, Zenon
<1>2. PICK R : IsWellFoundedOn(R, Nat) /\ \A x, y \in Nat : y < x => <<y, x>> \in R
  BY <1>1
<1>3. \E x \in S : \A y \in S : <<y, x>> \notin R
  BY <1>2, WFMin, Zenon
<1>4. PICK x \in S : \A y \in S : <<y, x>> \notin R
  BY <1>3
<1>5. ASSUME NEW y \in S PROVE x <= y
  <2>1. x \in Nat /\ y \in Nat /\ ~ (y < x)
    BY <1>2, <1>4
  <2> QED
    BY <2>1
<1> QED
  BY <1>4, <1>5

LEMMA BacktrackEnds ==
  ASSUME vbm \subseteq ABN, NEW p \in 0..NBlocks
  PROVE  Backtrack(p) \in 0..p
<1> USE SearchAssumption DEF ABN
<1> DEFINE S == {k \in 0..p : k = p \/ p - k - 1 \in vbm}
<1>1. PICK k \in S : \A y \in S : k <= y
  <2>1. S \in SUBSET Nat /\ p \in S
    OBVIOUS
  <2> HIDE DEF S
  <2> QED
    BY <2>1, Least
<1>2. \A b \in (p - k)..(p - 1) : b \notin vbm
  <2> SUFFICES ASSUME NEW b \in (p - k)..(p - 1), b \in vbm PROVE FALSE
    OBVIOUS
  <2>1. p - b - 1 \in S
    OBVIOUS
  <2> QED
    BY <1>1, <2>1
<1>3. /\ p - k \in 0..p
      /\ (p - k)..(p - 1) \subseteq ABN \ vbm /\ (p - k = 0 \/ (p - k) - 1 \in vbm)
  BY <1>1, <1>2
<1> HIDE DEF S
<1> QED
  BY <1>3 DEF Backtrack

LEMMA SkipUsedEnds ==
  ASSUME vbm \subseteq ABN, NEW p \in 0..NBlocks
  PROVE  /\ SkipUsed(p) \in p..NBlocks
         /\ p..SkipUsed(p) - 1 \subseteq vbm
         /\ SkipUsed(p) \notin vbm
<1> USE SearchAssumption DEF ABN
<1> DEFINE S == {q \in p..NBlocks : q \notin vbm}
<1>1. PICK q \in S : \A y \in S : q <= y
  <2>1. S \in SUBSET Nat /\ NBlocks \in S
    OBVIOUS
  <2> HIDE DEF S
  <2> QED
    BY <2>1, Least
<1>2. q \in p..NBlocks /\ p..q - 1 \subseteq vbm /\ q \notin vbm
  BY <1>1
<1> HIDE DEF S
<1> QED
  BY <1>2 DEF SkipUsed

LEMMA SkipFreeEnds ==
  ASSUME vbm \subseteq ABN, NEW p \in 0..NBlocks, NEW request \in Nat
  PROVE  LET q == SkipFree(p, request)
         IN  /\ q \in p..NBlocks
             /\ p..q - 1 \subseteq ABN \ vbm /\ q - p <= request
             /\ q = NBlocks \/ q - p = request \/ q \in vbm
<1> USE SearchAssumption DEF ABN
<1> DEFINE S == {q \in p..NBlocks : q = NBlocks \/ q - p = request \/ q \in vbm}
<1>1. PICK q \in S : \A y \in S : q <= y
  <2>1. S \in SUBSET Nat /\ NBlocks \in S
    OBVIOUS
  <2> HIDE DEF S
  <2> QED
    BY <2>1, Least
<1>2. q - p <= request
  <2> SUFFICES ASSUME q - p > request PROVE FALSE
    BY <1>1
  <2>1. p + request \in S
    OBVIOUS
  <2> QED
    BY <1>1, <2>1
<1>3. \A b \in p..q - 1 : b \in ABN \ vbm
  <2> SUFFICES ASSUME NEW b \in p..q - 1 PROVE b \in ABN /\ b \notin vbm
    OBVIOUS
  <2>1. b \in p..NBlocks /\ b < q /\ q <= NBlocks
    OBVIOUS
  <2>2. b \notin S
    BY <1>1, <2>1
  <2> QED
    BY <2>1, <2>2
<1>4. q \in p..NBlocks /\ (q = NBlocks \/ q - p = request \/ q \in vbm)
  OBVIOUS
<1> HIDE DEF S
<1> QED
  BY <1>2, <1>3, <1>4 DEF SkipFree

-----------------------------------------------------------------------------
(***************************************************************************)
(* The free count.                                                         *)
(***************************************************************************)
LEMMA BlocksFinite ==
  ASSUME NEW S \in SUBSET ABN
  PROVE  /\ IsFiniteSet(S) /\ Cardinality(S) \in 0..NBlocks
         /\ Cardinality(S) = NBlocks => S = ABN
<1>1. IsFiniteSet(ABN) /\ Cardinality(ABN) = NBlocks
  BY FS_Interval, SearchAssumption DEF ABN
<1>2. IsFiniteSet(S) /\ Cardinality(S) <= NBlocks /\ (Cardinality(S) = NBlocks => S = ABN)
  BY <1>1, FS_Subset
<1>3. Cardinality(S) \in Nat
  BY <1>2, FS_CardinalityType
<1> QED
  BY <1>2, <1>3, SearchAssumption

\* marking a free run lowers the count by its length
LEMMA MarkRun ==
  ASSUME TypeOK, Counted, NEW at \in Nat, NEW len \in Nat, FreeRun(at, len)
  PROVE  /\ vbm \cup Run(at, len) \subseteq ABN
         /\ len <= free /\ Cardinality(vbm \cup Run(at, len)) = Cardinality(vbm) + len
<1>1. vbm \cup Run(at, len) \subseteq ABN
  BY SearchAssumption DEF TypeOK, FreeRun, Run, ABN
<1>2. IsFiniteSet(Run(at, len)) /\ Cardinality(Run(at, len)) = len
  <2> DEFINE last == at + len - 1
  <2>1. at \in Int /\ last \in Int /\ len = IF at > last THEN 0 ELSE last - at + 1
    OBVIOUS
  <2> HIDE DEF last
  <2>2. IsFiniteSet(at..last) /\ Cardinality(at..last) = len
    BY <2>1, FS_Interval
  <2> QED
    BY <2>2 DEF Run, last
<1>3. IsFiniteSet(vbm) /\ Cardinality(vbm) \in Nat
  BY BlocksFinite DEF TypeOK
<1>4. Run(at, len) \cap vbm = {} /\ Cardinality({}) = 0
  BY FS_EmptySet DEF FreeRun
<1>5. Cardinality(vbm \cup Run(at, len)) = Cardinality(vbm) + len
  <2>1. vbm \cap Run(at, len) = {}
    BY <1>4
  <2>2. Cardinality(vbm \cup Run(at, len))
          = Cardinality(vbm) + Cardinality(Run(at, len)) - Cardinality(vbm \cap Run(at, len))
    BY <1>2, <1>3, FS_Union
  <2>3. Cardinality(vbm \cap Run(at, len)) = 0
    BY <1>4, <2>1, Zenon
  <2> QED
    BY <1>2, <1>3, <2>2, <2>3
<1>6. Cardinality(vbm \cup Run(at, len)) \in 0..NBlocks
  BY <1>1, BlocksFinite
<1> QED
  BY <1>1, <1>3, <1>5, <1>6, SearchAssumption DEF Counted

LEMMA FreeBlocks ==
  ASSUME TypeOK, Counted
  PROVE  free = 0 <=> vbm = ABN
<1>1. Cardinality(ABN) = NBlocks
  BY FS_Interval, SearchAssumption DEF ABN
<1>2. Cardinality(vbm) \in 0..NBlocks /\ (Cardinality(vbm) = NBlocks => vbm = ABN)
  BY BlocksFinite DEF TypeOK
<1> QED
  BY <1>1, <1>2, SearchAssumption DEF Counted

-----------------------------------------------------------------------------
(***************************************************************************)
(* The actions preserve the invariant.                                     *)
(***************************************************************************)
LEMMA InitSearch == Init => SearchInv
<1> SUFFICES ASSUME Init PROVE SearchInv
  OBVIOUS
<1>1. Cardinality(vbm) \in 0..NBlocks
  BY BlocksFinite DEF Init
<1>2. free \in 0..NBlocks
  BY <1>1, SearchAssumption DEF Init
<1>3. TypeOK
  BY <1>2, Idle DEF Init, TypeOK
<1> QED
  BY <1>3 DEF Init, SearchInv, Counted, FoundSound, NoneLonger, Longest

LEMMA BeginKeeps ==
  ASSUME SearchInv, NEW request \in 1..MaxRequest, NEW spare \in BOOLEAN, Begin(request, spare)
  PROVE  SearchInv'
<1> USE SearchAssumption DEF SearchInv
<1>1. CASE free = 0
  <2>1. pc = "idle" /\ UNCHANGED <<vbm, free, ptr, pc, search>>
        /\ reply' = [result |-> "full", request |-> request, run |-> {}]
    BY <1>1 DEF Begin
  <2>2. reply' \in Reply
    BY <2>1 DEF Reply
  <2> QED
    BY <2>1, <2>2 DEF TypeOK, Counted, FoundSound, NoneLonger, Longest
<1>2. CASE free # 0
  <2> DEFINE start == IF (IF ptr < NBlocks THEN ptr \in vbm ELSE spare) THEN ptr ELSE Backtrack(ptr)
  <2>1. start \in 0..NBlocks
    <3>1. ptr \in 0..NBlocks /\ vbm \subseteq ABN
      BY DEF TypeOK
    <3>2. Backtrack(ptr) \in 0..ptr
      BY <3>1, BacktrackEnds
    <3> QED
      BY <3>1, <3>2
  <2> HIDE DEF start
  <2>2. /\ pc' = "scan"
        /\ search' = [request |-> request, start |-> start, pt |-> start, wrap |-> FALSE,
                      found |-> 0, foundat |-> 0]
        /\ UNCHANGED <<vbm, free, ptr, reply>>
    BY <1>2 DEF Begin, NoSearch, start
  <2>3. TypeOK' /\ Counted'
    <3>1. search' \in Search
      BY <2>1, <2>2 DEF Search
    <3> QED
      BY <2>2, <3>1 DEF TypeOK, Counted
  <2>4. FoundSound' /\ Longest'
    BY <1>2, <2>2 DEF FoundSound, Longest
  <2>5. NoneLonger'
    BY <2>1, <2>2 DEF NoneLonger, Passed, ABN
  <2> QED
    BY <2>3, <2>4, <2>5
<1> QED
  BY <1>1, <1>2

LEMMA ScanKeeps == ASSUME SearchInv, Scan PROVE SearchInv'
<1> USE SearchAssumption DEF SearchInv
<1> DEFINE mark  == SkipUsed(search.pt)
           q     == SkipFree(mark, search.request)
           back  == search.wrap /\ mark >= search.start
           found == IF q - mark > search.found THEN q - mark ELSE search.found
           round == search.wrap /\ q >= search.start
<1>1. /\ search.request \in 1..MaxRequest /\ search.start \in 0..NBlocks
      /\ search.pt \in 0..NBlocks /\ search.wrap \in BOOLEAN
      /\ search.found \in 0..MaxRequest /\ search.foundat \in 0..NBlocks
      /\ pc = "scan" /\ vbm \subseteq ABN
  BY SearchFields DEF TypeOK, Scan
<1>2. mark \in search.pt..NBlocks /\ search.pt..mark - 1 \subseteq vbm
  BY <1>1, SkipUsedEnds
<1>3. /\ q \in mark..NBlocks /\ mark..q - 1 \subseteq ABN \ vbm /\ q - mark <= search.request
      /\ q = NBlocks \/ q - mark = search.request \/ q \in vbm
  <2>1. mark \in 0..NBlocks /\ search.request \in Nat
    BY <1>1, <1>2
  <2> HIDE DEF mark
  <2> QED
    BY <1>1, <2>1, SkipFreeEnds
<1>4. /\ search' =
           IF back THEN [search EXCEPT !.pt = mark]
           ELSE [search EXCEPT !.found = found,
                               !.foundat = IF q - mark > search.found THEN mark ELSE @,
                               !.pt = IF q = NBlocks /\ ~round THEN 0 ELSE q,
                               !.wrap = @ \/ (q = NBlocks /\ ~round)]
      /\ pc' = IF back \/ round \/ found = search.request THEN "take" ELSE "scan"
      /\ UNCHANGED <<vbm, free, ptr, reply>>
  BY DEF Scan, Round, Longer
<1> HIDE DEF mark, q
<1>5. /\ search'.request = search.request /\ search'.start = search.start
      /\ back => /\ search'.found = search.found /\ search'.foundat = search.foundat
                 /\ search'.wrap = search.wrap /\ search'.pt = mark
      /\ ~back => /\ search'.found = found
                  /\ search'.foundat = IF q - mark > search.found THEN mark ELSE search.foundat
                  /\ search'.pt = IF q = NBlocks /\ ~round THEN 0 ELSE q
                  /\ search'.wrap = (search.wrap \/ (q = NBlocks /\ ~round))
  BY <1>4 DEF TypeOK, Search
<1>6. found \in 0..search.request /\ search.found <= found
  BY <1>1, <1>2, <1>3 DEF NoneLonger
<1>7. TypeOK' /\ Counted'
  <2>1. search \in Search /\ pc' \in {"idle", "scan", "take"}
    BY <1>4 DEF TypeOK
  <2>2. mark \in 0..NBlocks /\ q \in 0..NBlocks /\ found \in 0..MaxRequest
    BY <1>1, <1>2, <1>3, <1>6
  <2>3. CASE back
    BY <1>4, <2>1, <2>2, <2>3, SearchUpdate DEF TypeOK, Counted
  <2>4. CASE ~back
    <3> DEFINE at   == IF q - mark > search.found THEN mark ELSE search.foundat
               pt   == IF q = NBlocks /\ ~round THEN 0 ELSE q
               wrap == search.wrap \/ (q = NBlocks /\ ~round)
    <3>1. at \in 0..NBlocks /\ pt \in 0..NBlocks /\ wrap \in BOOLEAN
      BY <1>1, <2>2, SearchAssumption
    <3>2. search' = [search EXCEPT !.found = found, !.foundat = at, !.pt = pt, !.wrap = wrap]
      BY <1>4, <2>4
    <3> HIDE DEF at, pt, wrap, found
    <3>3. search' \in Search
      BY <2>1, <2>2, <3>1, <3>2, SearchUpdate
    <3> QED
      BY <1>4, <2>1, <3>3 DEF TypeOK, Counted
  <2> QED
    BY <2>3, <2>4
\* a free run that begins in what this round looked at
<1>8. \A a \in ABN, len \in 1..search.request :
        FreeRun(a, len) /\ search.pt <= a /\ a < q /\ found < search.request => mark <= a /\ len <= found
  <2> SUFFICES ASSUME NEW a \in ABN, NEW len \in 1..search.request, FreeRun(a, len),
                      search.pt <= a, a < q, found < search.request
               PROVE  mark <= a /\ len <= found
    OBVIOUS
  <2>1. a + len <= NBlocks /\ \A b \in a..a + len - 1 : b \notin vbm
    BY DEF FreeRun, Run
  <2>2. mark <= a
    BY <1>1, <1>2, <2>1 DEF ABN
  <2>3. a + len <= q
    <3> SUFFICES ASSUME q < a + len PROVE FALSE
      BY <1>1, <1>2, <1>3 DEF ABN
    <3>1. q \notin vbm
      BY <1>1, <1>2, <1>3, <2>1 DEF ABN
    <3>2. q # NBlocks
      BY <1>1, <2>1 DEF ABN
    <3>3. q - mark # search.request
      BY <1>1, <1>2, <1>3
    <3> QED
      BY <1>3, <3>1, <3>2, <3>3
  <2> QED
    BY <1>1, <1>2, <1>3, <2>2, <2>3 DEF ABN
<1>9. /\ search.found < search.request /\ (search.wrap \/ search.start <= search.pt)
      /\ \A a \in ABN, len \in 1..search.request :
           Passed(a) /\ FreeRun(a, len) => len <= search.found
  BY <1>1 DEF NoneLonger
<1>10. \A a, len : FreeRun(a, len)' = FreeRun(a, len)
  BY <1>4 DEF FreeRun, Run
<1>11. NoneLonger'
  <2> SUFFICES ASSUME pc' = "scan"
               PROVE  /\ search'.found < search'.request
                      /\ search'.wrap \/ search'.start <= search'.pt
                      /\ \A a \in ABN, len \in 1..search'.request :
                           Passed(a)' /\ FreeRun(a, len)' => len <= search'.found
    BY DEF NoneLonger
  <2>1. ~back /\ ~round /\ found < search.request
    BY <1>1, <1>4, <1>6
  <2>2. search'.found < search'.request /\ (search'.wrap \/ search'.start <= search'.pt)
    <3>1. search'.found = found /\ (search'.wrap = (search.wrap \/ (q = NBlocks /\ ~round)))
          /\ (search'.pt = IF q = NBlocks /\ ~round THEN 0 ELSE q)
      BY <1>5, <2>1
    <3>2. search'.wrap \/ (~search.wrap /\ search'.pt = q)
      BY <1>1, <2>1, <3>1
    <3> QED
      BY <1>1, <1>2, <1>3, <1>5, <1>6, <1>9, <2>1, <3>1, <3>2
  <2>3. ASSUME NEW a \in ABN, NEW len \in 1..search.request, Passed(a)', FreeRun(a, len)
        PROVE  len <= found
    <3>1. Passed(a) \/ (search.pt <= a /\ a < q)
      BY <1>1, <1>2, <1>3, <1>5, <1>9, <2>1, <2>3 DEF Passed, ABN
    <3> QED
      BY <1>1, <1>6, <1>8, <1>9, <2>1, <2>3, <3>1
  <2> QED
    BY <1>5, <1>10, <2>1, <2>2, <2>3
<1>12. Longest'
  <2> SUFFICES ASSUME pc' = "take", NEW a \in ABN, NEW len \in 1..search'.request, FreeRun(a, len)'
               PROVE  len <= search'.found
    BY DEF Longest
  <2>1. len \in 1..search.request /\ FreeRun(a, len)
    BY <1>5, <1>10
  <2>2. CASE back
    <3>1. search'.found = search.found
      BY <1>5, <2>2
    <3>2. ~ (search.pt <= a /\ a < mark)
      BY <1>1, <1>2, <2>1 DEF FreeRun, Run, ABN
    <3>3. Passed(a)
      BY <1>1, <1>2, <2>2, <3>2 DEF Passed, ABN
    <3> QED
      BY <1>9, <2>1, <3>1, <3>3
  <2>3. CASE ~back /\ found = search.request
    BY <1>1, <1>5, <2>1, <2>3
  <2>4. CASE ~back /\ found # search.request
    <3>1. round /\ search'.found = found /\ found < search.request
      BY <1>1, <1>4, <1>5, <1>6, <2>4
    <3>2. Passed(a) \/ (search.pt <= a /\ a < q)
      BY <1>1, <1>2, <1>3, <3>1 DEF Passed, ABN
    <3> QED
      BY <1>1, <1>6, <1>8, <1>9, <2>1, <3>1, <3>2
  <2> QED
    BY <2>2, <2>3, <2>4
<1>13. FoundSound'
  <2>1. free' # 0 /\ search'.found <= search'.request
    BY <1>1, <1>4, <1>5, <1>6, <1>9 DEF FoundSound
  <2>2. CASE back \/ ~(q - mark > search.found)
    <3>1. search'.found = search.found /\ search'.foundat = search.foundat
      BY <1>5, <2>2
    <3> QED
      BY <1>1, <1>5, <1>10, <2>1, <3>1 DEF FoundSound, Ahead
  <2>3. CASE ~back /\ q - mark > search.found
    <3>1. search'.found = q - mark /\ search'.foundat = mark
      BY <1>5, <2>3
    <3>2. FreeRun(mark, q - mark)
      BY <1>1, <1>2, <1>3 DEF FreeRun, Run
    <3>3. ASSUME NEW a \in ABN, FreeRun(a, q - mark)
          PROVE  Ahead(search.start, mark) <= Ahead(search.start, a)
      <4>1. q - mark \in 1..search.request
        BY <1>1, <1>2, <1>3, <2>3
      <4>2. ~Passed(a)
        BY <1>1, <1>2, <1>3, <1>9, <2>3, <3>3, <4>1
      <4>3. ~ (search.pt <= a /\ a < mark)
        BY <1>1, <1>2, <3>3, <4>1 DEF FreeRun, Run, ABN
      <4> QED
        BY <1>1, <1>2, <1>3, <1>9, <2>3, <4>2, <4>3 DEF Passed, Ahead, ABN
    <3> QED
      BY <1>5, <1>10, <2>1, <3>1, <3>2, <3>3 DEF FoundSound, Ahead
  <2> QED
    BY <2>2, <2>3
<1> QED
  BY <1>7, <1>11, <1>12, <1>13

LEMMA TakeKeeps ==
  ASSUME SearchInv, NEW dirtied \in BOOLEAN, Take(dirtied)
  PROVE  SearchInv'
<1> USE SearchAssumption DEF SearchInv
<1>1. pc' = "idle" /\ search' \in Search
  BY Idle DEF Take
<1>2. FoundSound' /\ NoneLonger' /\ Longest'
  BY <1>1 DEF FoundSound, NoneLonger, Longest
<1>3. TypeOK' /\ Counted'
  <2>1. CASE search.found = 0 \/ search.found > free \/ ~dirtied
    <3> DEFINE result == IF search.found \in 1..free THEN "ioerror" ELSE "bad bitmap"
    <3>1. /\ UNCHANGED <<vbm, free, ptr>> /\ search.request \in 0..MaxRequest
          /\ reply' = [result |-> result, request |-> search.request, run |-> {}]
          /\ result \in {"ioerror", "bad bitmap"}
      <4>1. UNCHANGED <<vbm, free, ptr>>
            /\ reply' = [result |-> result, request |-> search.request, run |-> {}]
        BY <2>1, Zenon DEF Take
      <4>2. search.request \in 0..MaxRequest
        BY SearchFields, SearchAssumption DEF TypeOK
      <4>3. result \in {"ioerror", "bad bitmap"}
        OBVIOUS
      <4> QED
        BY <4>1, <4>2, <4>3, Zenon
    <3> HIDE DEF result
    <3>2. reply' \in Reply
      BY <3>1 DEF Reply
    <3> QED
      BY <1>1, <3>1, <3>2 DEF TypeOK, Counted
  <2>2. CASE ~(search.found = 0 \/ search.found > free \/ ~dirtied)
    <3> DEFINE run == Run(search.foundat, search.found)
    <3>1. /\ search.found \in Nat /\ search.found > 0 /\ search.foundat \in Nat /\ search.pt \in 0..NBlocks
          /\ search.request \in 1..MaxRequest
      BY <2>2, SearchFields DEF TypeOK
    <3>2. FreeRun(search.foundat, search.found)
      BY <2>2, <3>1 DEF FoundSound, Take
    <3>3. vbm \cup run \subseteq ABN /\ search.found <= free
          /\ Cardinality(vbm \cup run) = Cardinality(vbm) + search.found
      BY <3>1, <3>2, MarkRun
    <3>4. Cardinality(vbm) \in 0..NBlocks
      BY BlocksFinite DEF TypeOK
    <3>5. /\ reply' = [result |-> "granted", request |-> search.request, run |-> run]
          /\ ptr' = search.pt /\ free' = free - search.found /\ vbm' = vbm \cup run
      BY <2>2 DEF Take, Charge
    <3> HIDE DEF run
    <3>6. Counted'
      BY <3>3, <3>4, <3>5, <3>1 DEF Counted
    <3> QED
      <4>1. reply' \in Reply
        BY <3>1, <3>3, <3>5 DEF Reply
      <4>2. free' \in 0..NBlocks
        BY <3>1, <3>3, <3>5 DEF TypeOK
      <4> QED
        BY <1>1, <3>1, <3>3, <3>5, <3>6, <4>1, <4>2 DEF TypeOK
  <2> QED
    BY <2>1, <2>2
<1> QED
  BY <1>2, <1>3

LEMMA FreeKeeps ==
  ASSUME SearchInv, NEW i \in ABN, NEW j \in ABN, Free(i, j)
  PROVE  SearchInv'
<1> USE SearchAssumption DEF SearchInv
<1>1. pc = "idle" /\ pc' = "idle" /\ i..j \subseteq vbm /\ vbm' = vbm \ (i..j)
      /\ free' = free + Cardinality(i..j) /\ reply' = Nothing /\ UNCHANGED <<ptr, search>>
  BY DEF Free
<1>2. IsFiniteSet(vbm) /\ Cardinality(vbm) \in 0..NBlocks
  BY BlocksFinite DEF TypeOK
<1>3. vbm' \subseteq ABN /\ Cardinality(vbm') \in 0..NBlocks
  BY <1>1, BlocksFinite DEF TypeOK
<1>4. i..j = vbm \cap (i..j) /\ Cardinality(i..j) \in Nat
  <2>1. IsFiniteSet(i..j)
    BY FS_Interval DEF ABN
  <2> QED
    BY <1>1, <2>1, FS_CardinalityType
<1>5. Cardinality(vbm') = Cardinality(vbm) - Cardinality(i..j)
  BY <1>1, <1>2, <1>4, FS_Difference
<1>6. TypeOK' /\ Counted'
  <2>1. Counted'
    BY <1>1, <1>2, <1>4, <1>5 DEF Counted
  <2>2. free' \in 0..NBlocks
    BY <1>3, <2>1 DEF Counted
  <2> QED
    BY <1>1, <1>3, <2>1, <2>2, Idle DEF TypeOK
<1> QED
  BY <1>1, <1>6 DEF FoundSound, NoneLonger, Longest

LEMMA NextSearch == SearchInv /\ [Next]_vars => SearchInv'
<1> SUFFICES ASSUME SearchInv, [Next]_vars PROVE SearchInv'
  OBVIOUS
<1>1. CASE UNCHANGED vars
  BY <1>1 DEF vars, SearchInv, TypeOK, Counted, FoundSound, NoneLonger, Longest, Passed, FreeRun, Run, Ahead
<1>2. CASE Next
  BY <1>2, BeginKeeps, ScanKeeps, TakeKeeps, FreeKeeps DEF Next
<1> QED
  BY <1>1, <1>2

\* The invariant of the search: the free count is that of the bitmap, what has
\* been found is free and the first of its length, and no run that was passed
\* is longer.
THEOREM Searching == Spec => []SearchInv
BY InitSearch, NextSearch, PTL DEF Spec

-----------------------------------------------------------------------------
(***************************************************************************)
(* The search implements the pool.                                         *)
(***************************************************************************)
LEMMA PoolRun ==
  ASSUME NEW at \in Nat, NEW len \in Nat
  PROVE  FreeRun(at, len) => Run(at, len) \in Pool!FreeRuns(len)
<1> SUFFICES ASSUME FreeRun(at, len) PROVE Run(at, len) \in Pool!FreeRuns(len)
  OBVIOUS
<1>1. at \in 0..NBlocks - len /\ Run(at, len) = at..at + len - 1 /\ Run(at, len) \cap vbm = {}
  BY SearchAssumption DEF FreeRun, Run
<1> QED
  BY <1>1 DEF Pool!FreeRuns

\* what has been found is what the pool calls the best
LEMMA FoundBest ==
  ASSUME SearchInv, pc = "take", search.found > 0
  PROVE  /\ Run(search.foundat, search.found) \in Pool!FreeRuns(search.found)
         /\ Pool!Best(search.request) = search.found
<1> USE DEF SearchInv
<1>1. /\ search.request \in 1..MaxRequest /\ search.found \in 1..search.request
      /\ search.foundat \in 0..NBlocks
  BY SearchFields DEF TypeOK, FoundSound
<1>2. Run(search.foundat, search.found) \in Pool!FreeRuns(search.found)
  BY <1>1, PoolRun DEF FoundSound
<1>3. \A more \in search.found + 1..search.request : Pool!FreeRuns(more) = {}
  <2> SUFFICES ASSUME NEW more \in search.found + 1..search.request,
                      NEW i \in 0..NBlocks - more, (i..i + more - 1) \cap vbm = {}
               PROVE  FALSE
    BY <1>1 DEF Pool!FreeRuns
  <2>1. i \in ABN /\ more \in 1..search.request /\ FreeRun(i, more)
    BY <1>1, SearchAssumption DEF ABN, FreeRun, Run
  <2> QED
    BY <1>1, <2>1 DEF Longest
<1> DEFINE P(len) == /\ Pool!FreeRuns(len) # {}
                     /\ \A more \in len + 1..search.request : more > NBlocks \/ Pool!FreeRuns(more) = {}
<1>4. P(search.found) /\ search.found \in 0..search.request
  BY <1>1, <1>2, <1>3
<1>5. ASSUME NEW len \in 0..search.request, P(len) PROVE len = search.found
  <2>1. ~ (len > search.found)
    BY <1>1, <1>3, <1>5
  <2>2. search.found <= NBlocks
    BY <1>1, SearchAssumption DEF FoundSound, FreeRun
  <2>3. ~ (len < search.found)
    <3> SUFFICES ASSUME len < search.found PROVE FALSE
      OBVIOUS
    <3>1. search.found \in len + 1..search.request /\ ~ (search.found > NBlocks)
      BY <1>1, <2>2, SearchAssumption
    <3>2. Pool!FreeRuns(search.found) # {}
      BY <1>2, Zenon
    <3> QED
      BY <1>5, <3>1, <3>2
  <2> QED
    BY <1>1, <2>1, <2>3
<1>6. Pool!Best(search.request) = CHOOSE len \in 0..search.request : P(len)
  BY DEF Pool!Best
<1> HIDE DEF P
<1> QED
  BY <1>2, <1>4, <1>5, <1>6

LEMMA StepOfPool == ASSUME SearchInv, [Next]_vars PROVE [Pool!Next]_(Pool!vars)
<1> USE DEF SearchInv
<1>1. ASSUME NEW request \in 1..MaxRequest, NEW spare \in BOOLEAN, Begin(request, spare)
      PROVE  [Pool!Next]_(Pool!vars)
  <2>1. CASE free = 0
    <3>1. vbm = Pool!Block /\ UNCHANGED vbm
          /\ reply' = [result |-> "full", request |-> request, run |-> {}]
      BY <1>1, <2>1, FreeBlocks DEF Begin, ABN, Pool!Block
    <3> QED
      BY <3>1 DEF Pool!Next, Pool!Refuse
  <2>2. CASE free # 0
    BY <1>1, <2>2 DEF Begin, Pool!vars
  <2> QED
    BY <2>1, <2>2
<1>2. CASE Scan
  BY <1>2 DEF Scan, Pool!vars
<1>3. ASSUME NEW dirtied \in BOOLEAN, Take(dirtied) PROVE Pool!Next
  <2>1. /\ pc = "take" /\ search.request \in 1..MaxRequest /\ search.found \in Nat
        /\ search.foundat \in Nat /\ free \in Nat /\ free # 0
    <3>1. pc = "take" /\ free # 0
      BY <1>3 DEF Take, FoundSound
    <3> QED
      BY <3>1, SearchFields, SearchAssumption DEF TypeOK
  <2>2. vbm # Pool!Block
    BY <2>1, FreeBlocks DEF ABN, Pool!Block
  \* a block is free, so something was found, and there are as many free blocks
  <2>3. search.found > 0
    <3>1. PICK b \in ABN : b \notin vbm
      BY <2>2 DEF Pool!Block, ABN, TypeOK
    <3>2. FreeRun(b, 1)
      BY <3>1, SearchAssumption DEF FreeRun, Run, ABN
    <3> QED
      BY <2>1, <3>2 DEF Longest
  <2>4. search.found <= free
    BY <2>1, <2>3, MarkRun DEF FoundSound
  <2>5. CASE ~dirtied
    <3>1. UNCHANGED vbm /\ search.found \in 1..free
          /\ reply' = [result |-> "ioerror", request |-> search.request, run |-> {}]
      <4>1. search.found \in 1..free
        BY <2>1, <2>3, <2>4
      <4>2. UNCHANGED vbm
            /\ reply' = [result |-> IF search.found \in 1..free THEN "ioerror" ELSE "bad bitmap",
                         request |-> search.request, run |-> {}]
        BY <1>3, <2>5, Zenon DEF Take
      <4> QED
        BY <4>1, <4>2
    <3> QED
      BY <2>1, <2>2, <3>1 DEF Pool!Next, Pool!Refuse
  <2>6. CASE dirtied
    <3> DEFINE run == Run(search.foundat, search.found)
    <3>1. /\ reply' = [result |-> "granted", request |-> search.request, run |-> run]
          /\ vbm' = vbm \cup run
      <4>1. ~ (search.found = 0 \/ search.found > free \/ ~dirtied)
        BY <2>1, <2>3, <2>4, <2>6
      <4> QED
        BY <1>3, <4>1, Zenon DEF Take
    <3>2. run \in Pool!FreeRuns(Pool!Best(search.request))
      BY <2>1, <2>3, FoundBest
    <3> HIDE DEF run
    <3>3. Pool!Grant(search.request)
      BY <2>2, <3>1, <3>2 DEF Pool!Grant
    <3> QED
      BY <2>1, <3>3 DEF Pool!Next
  <2> QED
    BY <2>5, <2>6
<1>4. ASSUME NEW i \in ABN, NEW j \in ABN, Free(i, j) PROVE Pool!Next
  <2>1. i \in Pool!Block /\ j \in Pool!Block /\ i..j \subseteq vbm /\ vbm' = vbm \ (i..j)
        /\ reply' = Pool!Nothing
    BY <1>4 DEF Free, ABN, Pool!Block, Nothing, Pool!Nothing
  <2> QED
    BY <2>1 DEF Pool!Next, Pool!Free
<1>5. CASE UNCHANGED vars
  BY <1>5 DEF vars, Pool!vars
<1> QED
  BY <1>1, <1>2, <1>3, <1>4, <1>5 DEF Next

\* v_allocblocks keeps what BlockPool promises: every grant is free and the
\* longest there is up to the request, and only an empty pool or a volume that
\* cannot be marked refuses one; the code's "bad volume bitmap" never happens.
THEOREM SearchImplementsPool == Spec => LongestRun
<1>1. Init => Pool!Init
  BY DEF Init, Pool!Init, ABN, Pool!Block, Nothing, Pool!Nothing
<1>2. SearchInv /\ [Next]_vars => [Pool!Next]_(Pool!vars)
  BY StepOfPool
<1> QED
  BY <1>1, <1>2, Searching, PTL DEF Spec, LongestRun, Pool!Spec

\* A grant is the first run, going up from the start of the search and around,
\* that is as long: nothing suitable is passed over.
THEOREM SearchTakesFirst == Spec => NextFit
<1>1. SearchInv /\ [Next]_vars =>
        [pc = "take" /\ reply'.result = "granted" =>
           \A at \in 0..NBlocks - search.found :
             Run(at, search.found) \cap vbm = {} =>
               Ahead(search.start, search.foundat) <= Ahead(search.start, at)]_vars
  <2> SUFFICES ASSUME SearchInv, Next, pc = "take", reply'.result = "granted",
                      NEW at \in 0..NBlocks - search.found, Run(at, search.found) \cap vbm = {}
               PROVE  Ahead(search.start, search.foundat) <= Ahead(search.start, at)
    OBVIOUS
  <2>1. PICK dirtied \in BOOLEAN : Take(dirtied)
    <3>1. ~ Scan /\ ~ (\E i, j \in ABN : Free(i, j))
      BY DEF Scan, Free, Nothing
    <3>2. ~ (\E request \in 1..MaxRequest, spare \in BOOLEAN : Begin(request, spare))
      BY DEF Begin
    <3> QED
      BY <3>1, <3>2, Zenon DEF Next
  <2>2. search.found # 0
    <3> SUFFICES ASSUME search.found = 0 PROVE FALSE
      OBVIOUS
    <3> DEFINE result == IF search.found \in 1..free THEN "ioerror" ELSE "bad bitmap"
    <3>1. reply' = [result |-> result, request |-> search.request, run |-> {}]
      BY <2>1, Zenon DEF Take
    <3>2. result # "granted"
      OBVIOUS
    <3> HIDE DEF result
    <3> QED
      BY <3>1, <3>2
  <2>3. search.found \in Nat
    BY SearchFields DEF SearchInv, TypeOK
  <2>4. at \in ABN /\ FreeRun(at, search.found)
    BY <2>2, <2>3, SearchAssumption DEF ABN, FreeRun
  <2> QED
    BY <2>2, <2>3, <2>4 DEF SearchInv, FoundSound
<1> QED
  BY <1>1, Searching, PTL DEF Spec, NextFit
=============================================================================
