----------------------------- MODULE BlockCache -----------------------------
(***************************************************************************)
(* The block cache of one mounted volume (libhfs/block.c).                 *)
(*                                                                         *)
(* Buckets form a doubly linked ring, cnext/cprev, ordered roughly by use: *)
(* cnext[tail] is the head and tail is the next bucket to be reused.  A    *)
(* second structure, hash, finds the bucket that holds a block.  A block   *)
(* changed in the cache reaches the medium when its bucket is reused, when *)
(* a bucket near it in the ring is reused, or when the cache is flushed.   *)
(*                                                                         *)
(* The library is single threaded, so a call is one step.  What a call     *)
(* meets from outside is the set "bad" of blocks the medium refuses while  *)
(* the call runs.  The pointers of the ring are modelled one by one and in *)
(* the order of the assignments of the C code, because the ring can be     *)
(* damaged (see RingIntact).                                               *)
(***************************************************************************)
EXTENDS Naturals, FiniteSets, SequencesExt

CONSTANTS
  CacheSz,   \* HFS_CACHESZ, buckets in the cache
  HashSz,    \* HFS_HASHSZ, slots of the hash table
  FlushLen,  \* HFS_BLOCKBUFSZ, longest run of blocks in one transfer
  FillLen,   \* HFS_BLOCKBUFSZ >> 1, longest read-ahead
  VLen,      \* vol->vlen, blocks of the volume
  Data,      \* contents of a block
  NoData,    \* contents of a bucket that holds nothing
  MaxCount,  \* bound: largest use count that is explored
  BadSets,   \* bound: sets of blocks that may fail during one call
  Writes,    \* bound: pairs <<block, contents>> that are written
  Disks      \* bound: contents of the medium at the start

ASSUME CacheAssumption ==
  /\ CacheSz \in Nat \ {0, 1} /\ HashSz \in Nat \ {0} /\ VLen \in Nat \ {0}
  /\ FlushLen \in 1..CacheSz /\ FillLen \in 1..FlushLen
  /\ MaxCount \in Nat \ {0}
  /\ NoData \notin Data

Bucket == 1..CacheSz
Block  == 0..VLen - 1
Slots  == 0..HashSz - 1
Absent == 0   \* the null bucket pointer

ASSUME BoundAssumption ==
  /\ BadSets \subseteq SUBSET Block /\ Writes \subseteq Block \X Data
  /\ Disks \subseteq [Block -> Data]

VARIABLES
  using,   \* HFS_VOL_USINGCACHE: b_init succeeded and b_finish has not run
  c,       \* the bcache: ring, hash table and buckets
  disk,    \* the blocks of the medium
  answer   \* what the last call returned

vars == <<using, c, disk, answer>>

Answer == [op : {"init", "read", "write", "flush", "finish"}, ok : BOOLEAN,
           bnum : Block, data : Data \cup {NoData}]

Reply(op, ok, n, d) == answer' = [op |-> op, ok |-> ok, bnum |-> n, data |-> d]

(***************************************************************************)
(* The empty cache: every bucket unused, linked in array order.            *)
(***************************************************************************)
EmptyCache ==
  [inuse |-> {}, dirty |-> {},
   count |-> [b \in Bucket |-> 0],
   bnum  |-> [b \in Bucket |-> 0],
   data  |-> [b \in Bucket |-> NoData],
   cnext |-> [b \in Bucket |-> (b % CacheSz) + 1],
   cprev |-> [b \in Bucket |-> IF b = 1 THEN CacheSz ELSE b - 1],
   tail  |-> CacheSz,
   hash  |-> [s \in Slots |-> << >>]]

Head0(k) == k.cnext[k.tail]
Slot(n)  == n % HashSz

(***************************************************************************)
(* findbucket: the first bucket of the block's hash chain that is in use   *)
(* and holds the block.                                                    *)
(***************************************************************************)
Find(k, n) ==
  LET chain == k.hash[Slot(n)]
      i     == SelectInSeq(chain, LAMBDA b : b \in k.inuse /\ k.bnum[b] = n)
  IN  IF i = 0 THEN Absent ELSE chain[i]

(***************************************************************************)
(* Transfers.  dobuckets sorts the buckets by block number and the two     *)
(* chain functions cut them into runs of consecutive blocks, at most       *)
(* FlushLen long; a run is one transfer.  A transfer that meets a bad      *)
(* block fails as a whole, though the blocks before the bad one may have   *)
(* reached the medium.                                                     *)
(***************************************************************************)
RunStart(ns, n) == CHOOSE m \in 0..n : m..n \subseteq ns /\ (m - 1) \notin ns

SameTransfer(ns, n) ==
  {m \in ns : /\ RunStart(ns, m) = RunStart(ns, n)
              /\ (m - RunStart(ns, n)) \div FlushLen
                   = (n - RunStart(ns, n)) \div FlushLen}

Done(ns, n, bad) == SameTransfer(ns, n) \cap bad = {}

Reached(ns, n, bad) == \A m \in SameTransfer(ns, n) \cap bad : m > n

\* broken variant: dobuckets forgets that a chain failed
NoErrors(ns, bad) == TRUE

\* dobuckets goes on after a chain that failed, and reports the failure
AllDone(ns, bad) == ns \cap bad = {}

\* flushbuckets over the buckets bs
Flush(k, d, bs, bad) ==
  LET dirty == bs \cap k.inuse \cap k.dirty
      ns    == {k.bnum[b] : b \in dirty}
      held(n) == CHOOSE b \in dirty : k.bnum[b] = n
  IN  [c    |-> [k EXCEPT !.dirty = @ \ {b \in dirty : Done(ns, k.bnum[b], bad)}],
       disk |-> [n \in Block |-> IF n \in ns /\ Reached(ns, n, bad)
                                 THEN k.data[held(n)] ELSE d[n]],
       ok   |-> AllDone(ns, bad)]

\* fillbuckets over the buckets bs, none of which is in use
Fill(k, d, bs, bad) ==
  LET ns     == {k.bnum[b] : b \in bs}
      filled == {b \in bs : Done(ns, k.bnum[b], bad)}
  IN  [c    |-> [k EXCEPT !.inuse = @ \cup filled, !.dirty = @ \ filled,
                          !.data  = [b \in Bucket |-> IF b \in filled
                                                      THEN d[k.bnum[b]] ELSE @[b]]],
       disk |-> d,
       ok   |-> AllDone(ns, bad)]

(***************************************************************************)
(* reuse: free bucket b for block n, flushing b and the FlushLen - 1       *)
(* buckets before it in the ring when b is dirty.                          *)
(***************************************************************************)
\* the bucket holds a block that is not on the medium yet
NeedsFlush(k, b) == b \in k.inuse \cap k.dirty

\* bucket b, empty and meant for block n
Given(k, b, n) ==
  [k EXCEPT !.inuse = @ \ {b}, !.count[b] = 1, !.bnum[b] = n, !.data[b] = NoData]

Reuse(k, d, b, n, bad) ==
  LET back[i \in 0..FlushLen - 1] == IF i = 0 THEN b ELSE k.cprev[back[i - 1]]
      chain == {back[i] : i \in 0..FlushLen - 1}
      f == IF NeedsFlush(k, b) THEN Flush(k, d, chain, bad)
           ELSE [c |-> k, disk |-> d, ok |-> TRUE]
  IN  IF f.ok THEN [f EXCEPT !.c = Given(@, b, n)] ELSE f

(***************************************************************************)
(* cplace: age the buckets at the head of the ring that were used more     *)
(* than once, stop at the first one that was not, and move b before it.    *)
(***************************************************************************)
CPlace(k, b) ==
  LET walk[i \in 0..CacheSz * MaxCount] ==
        IF i = 0 THEN [p |-> Head0(k), count |-> k.count]
        ELSE LET w == walk[i - 1]
             IN  IF w.count[w.p] > 1
                 THEN [p |-> k.cnext[w.p], count |-> [w.count EXCEPT ![w.p] = @ - 1]]
                 ELSE w
      stop  == walk[CacheSz * MaxCount]
      p     == stop.p
      prev1 == [k.cprev EXCEPT ![k.cnext[b]] = k.cprev[b]]
      next1 == [k.cnext EXCEPT ![prev1[b]] = k.cnext[b]]
      prev2 == [prev1 EXCEPT ![b] = prev1[p]]
      next2 == [next1 EXCEPT ![b] = p]
      next3 == [next2 EXCEPT ![prev2[p]] = b]
  IN  [k EXCEPT !.count = stop.count,
                !.tail  = IF @ = b THEN prev1[b] ELSE @,
                !.cnext = next3,
                !.cprev = [prev2 EXCEPT ![p] = b]]

\* hplace: take b out of the hash chain that it is in, and put it at the front
\* of slot s
HPlace(k, s, b) ==
  [k EXCEPT !.hash =
     [t \in Slots |-> LET rest == RemoveFirst(@[t], b)
                      IN  IF t = s THEN Cons(b, rest) ELSE rest]]

\* a cache hit: count the use, and swap b with a predecessor used less often
Hit(k, b) ==
  LET k1 == [k EXCEPT !.count[b] = @ + 1]
      p  == k.cprev[b]
      next1 == [k.cnext EXCEPT ![k.cprev[p]] = b]
      prev1 == [k.cprev EXCEPT ![next1[b]] = p]
      next2 == [next1 EXCEPT ![p] = next1[b]]
      prev2 == [prev1 EXCEPT ![b] = prev1[p]]
  IN  IF k1.count[b] > k1.count[p] /\ b # Head0(k)
      THEN [k1 EXCEPT !.cnext = [next2 EXCEPT ![b] = p],
                      !.cprev = [prev2 EXCEPT ![p] = b],
                      !.tail  = IF @ = b THEN p ELSE @]
      ELSE k1

(***************************************************************************)
(* getbucket's read-ahead: reuse the buckets before the tail, one for each *)
(* of the following blocks, up to the first block the cache already holds, *)
(* the end of the volume, or FillLen blocks.                               *)
(***************************************************************************)
\* broken variant: the end of the volume is the only limit
StopsAtEnd(k, m) == m >= VLen

StopsAt(k, m) == m >= VLen \/ Find(k, m) # Absent

\* broken variant: the pointer into the ring does not move
StaysAtTail(k, b) == k.tail

\* the bucket to reuse after b
NextToReuse(k, b) == k.cprev[b]

\* r: the cache once the bucket a.next was reused for the next block
Ahead(a, r) ==
  IF ~r.ok THEN [a EXCEPT !.c = r.c, !.disk = r.disk, !.ok = FALSE, !.more = FALSE]
  ELSE [a EXCEPT !.c = r.c, !.disk = r.disk, !.chain = Append(@, a.next),
                 !.next = NextToReuse(r.c, a.next)]

ReadAhead(k, d, n, bad) ==
  LET ahead[i \in 0..FillLen - 1] ==
        IF i = 0 THEN [c |-> k, disk |-> d, ok |-> TRUE, more |-> TRUE,
                       chain |-> <<k.tail>>, next |-> NextToReuse(k, k.tail)]
        ELSE LET a == ahead[i - 1]
                 m == n + Len(a.chain)
             IN  IF a.more /\ ~StopsAt(a.c, m)
                 THEN Ahead(a, Reuse(a.c, a.disk, a.next, m, bad))
                 ELSE [a EXCEPT !.more = FALSE]
  IN  ahead[FillLen - 1]

\* the buckets of a filled chain are placed from the last to the first
Place(k, chain, n) ==
  LET len == Len(chain)
      placed[i \in 0..len] ==
        IF i = 0 THEN k
        ELSE LET j == len - i
             IN  HPlace(CPlace(placed[i - 1], chain[j + 1]), Slot(n + j), chain[j + 1])
  IN  placed[len]

(***************************************************************************)
(* getbucket: the bucket that holds block n, or one made ready for it.     *)
(***************************************************************************)
Failed(r) == [c |-> r.c, disk |-> r.disk, b |-> Absent]

\* f: the chain of a, filled from the medium
Filled(n, a, f) ==
  IF f.ok THEN [c |-> Place(f.c, a.chain, n), disk |-> a.disk, b |-> Head(a.chain)]
  ELSE Failed(f)

ReadIn(n, a, bad) ==
  IF a.ok THEN Filled(n, a, Fill(a.c, a.disk, ToSet(a.chain), bad)) ELSE Failed(a)

\* r: the cache once its tail was reused for block n
Missed(n, r, fill, bad) ==
  CASE ~r.ok          -> Failed(r)
    [] r.ok /\ ~fill  -> [c |-> Place(r.c, <<r.c.tail>>, n), disk |-> r.disk, b |-> r.c.tail]
    [] r.ok /\ fill   -> ReadIn(n, ReadAhead(r.c, r.disk, n, bad), bad)

GetBucket(k, d, n, fill, bad) ==
  LET b == Find(k, n)
  IN  IF b # Absent THEN [c |-> HPlace(Hit(k, b), Slot(n), b), disk |-> d, b |-> b]
      ELSE Missed(n, Reuse(k, d, k.tail, n, bad), fill, bad)

(***************************************************************************)
(* The calls.                                                              *)
(***************************************************************************)
\* bound: no use count passes MaxCount
Bounded(n) ==
  LET b == Find(c, n) IN b # Absent => c.count[b] < MaxCount

Init ==
  /\ using = FALSE
  /\ c = EmptyCache
  /\ disk \in Disks
  /\ answer = [op |-> "init", ok |-> FALSE, bnum |-> 0, data |-> NoData]

\* b_init; v_open goes on without a cache when the allocation fails
BInit(ok) ==
  /\ ~using
  /\ using' = ok /\ c' = EmptyCache
  /\ Reply("init", ok, 0, NoData)
  /\ UNCHANGED disk

BReadLb(n, bad) ==
  /\ Bounded(n)
  /\ IF using
     THEN \E g \in {GetBucket(c, disk, n, TRUE, bad)} :
            /\ c' = g.c /\ disk' = g.disk
            /\ IF g.b = Absent THEN Reply("read", FALSE, n, NoData)
               ELSE Reply("read", TRUE, n, g.c.data[g.b])
     ELSE /\ UNCHANGED <<c, disk>>
          /\ IF n \in bad THEN Reply("read", FALSE, n, NoData)
             ELSE Reply("read", TRUE, n, disk[n])
  /\ UNCHANGED using

\* the block becomes dirty unless the cache already holds these contents
Changed(g, x) ==
  IF g.b = Absent \/ (g.b \in g.c.inuse /\ g.c.data[g.b] = x) THEN g.c
  ELSE [g.c EXCEPT !.data[g.b] = x, !.inuse = @ \cup {g.b}, !.dirty = @ \cup {g.b}]

BWriteLb(n, x, bad) ==
  /\ Bounded(n)
  /\ IF using
     THEN \E g \in {GetBucket(c, disk, n, FALSE, bad)} :
            /\ disk' = g.disk /\ c' = Changed(g, x)
            /\ Reply("write", g.b # Absent, n, x)
     ELSE /\ disk' = IF n \in bad THEN disk ELSE [disk EXCEPT ![n] = x]
          /\ Reply("write", n \notin bad, n, x)
          /\ UNCHANGED c
  /\ UNCHANGED using

BFlush(bad) ==
  /\ using
  /\ LET f == Flush(c, disk, Bucket, bad)
     IN  c' = f.c /\ disk' = f.disk /\ Reply("flush", f.ok, 0, NoData)
  /\ UNCHANGED using

\* the cache is freed even when its flush failed
BFinish(bad) ==
  /\ using
  /\ LET f == Flush(c, disk, Bucket, bad)
     IN  disk' = f.disk /\ Reply("finish", f.ok, 0, NoData)
  /\ using' = FALSE /\ c' = EmptyCache

Next ==
  \/ \E ok \in BOOLEAN : BInit(ok)
  \/ \E n \in Block, bad \in BadSets : BReadLb(n, bad)
  \/ \E w \in Writes, bad \in BadSets : BWriteLb(w[1], w[2], bad)
  \/ \E bad \in BadSets : BFlush(bad)
  \/ \E bad \in BadSets : BFinish(bad)

Spec == Init /\ [][Next]_vars

-----------------------------------------------------------------------------
(***************************************************************************)
(* Properties.                                                             *)
(***************************************************************************)
TypeOK ==
  /\ using \in BOOLEAN
  /\ c.inuse \subseteq Bucket /\ c.dirty \subseteq c.inuse
  /\ c.count \in [Bucket -> 0..MaxCount]
  /\ c.bnum \in [Bucket -> Block]
  /\ c.data \in [Bucket -> Data \cup {NoData}]
  /\ c.cnext \in [Bucket -> Bucket] /\ c.cprev \in [Bucket -> Bucket]
  /\ c.tail \in Bucket
  /\ \A s \in Slots : ToSet(c.hash[s]) \subseteq Bucket
  /\ disk \in [Block -> Data]
  /\ answer \in Answer

\* the contents of block n as the library sees them
Logical(k, d, n) ==
  LET b == Find(k, n) IN IF b = Absent THEN d[n] ELSE k.data[b]

\* both link directions run through all the buckets, as mirror images
RingIntact ==
  LET round[i \in 0..CacheSz] == IF i = 0 THEN c.tail ELSE c.cprev[round[i - 1]]
  IN  /\ {round[i] : i \in 1..CacheSz} = Bucket
      /\ \A b \in Bucket : c.cnext[c.cprev[b]] = b

\* A block that was changed in the cache and is not on the medium yet can be
\* found again through the hash table (block.c:375 findbucket), and no second
\* dirty bucket holds other contents of it: a flush never writes stale data.
DirtyFindable ==
  \A b \in c.dirty : Find(c, c.bnum[b]) = b

\* Whatever bucket the hash table yields for a block that is not dirty agrees
\* with the medium.
CleanAgrees ==
  \A n \in Block : LET b == Find(c, n)
                   IN  b \notin c.dirty \cup {Absent} => c.data[b] = disk[n]

\* However transfers fail half way and buckets are reused: the hash table, the
\* flags, the contents of the buckets and the medium fit each other.
CacheCoherent == TypeOK /\ DirtyFindable /\ CleanAgrees

\* The cache implements a write-back store: no write is lost while the cache
\* lives, whatever the medium refuses and however the ring is linked, and a
\* flush or a close that reports success has stored everything (block.c:316
\* "commit dirty cache blocks to a volume").
Store == INSTANCE BlockStore WITH
  store  <- [n \in Block |-> Logical(c, disk, n)],
  medium <- disk,
  ack    <- answer

WriteBack == Store!Spec

\* A successful read returns the current contents of the block asked for
\* (block.c:652 "read a logical block from a volume (or from the cache)").  The code does not keep
\* this once cplace has damaged the ring (README, section 4).
ReadCurrent ==
  [][answer'.op = "read" /\ answer'.ok
       => answer'.data = Logical(c, disk, answer'.bnum)]_vars

\* The same for the calls that start with an intact ring.
IntactReadCurrent ==
  [][RingIntact /\ answer'.op = "read" /\ answer'.ok
       => answer'.data = Logical(c, disk, answer'.bnum)]_vars
=============================================================================
