------------------------------- MODULE BTree -------------------------------
(***************************************************************************)
(* The B*-trees of libhfs (btree.c, node.c): the catalog and the extents   *)
(* overflow file.                                                          *)
(*                                                                         *)
(* A tree is a file of nodes.  Leaf nodes, at height 1, hold the records   *)
(* and are linked in key order; index nodes hold for each child the key of *)
(* its first record.  A node that is full is split, its records divided    *)
(* evenly; a node that becomes so small that its left neighbour has room   *)
(* for its records is joined with it.  The header node (0) has the root,   *)
(* the ends of the leaf chain, the counts and a bitmap of nodes in use,    *)
(* continued in map nodes.  Nodes are added to the file in time, by        *)
(* bt_space, for the records that a call is going to insert.               *)
(*                                                                         *)
(* A node holds LeafCap or IndexCap records whatever their keys: records   *)
(* of the extents file and index records do have one size.  The nodes in   *)
(* use are the domain of "nodes", with the header and the map nodes: the   *)
(* code refuses to read or write any other (bt_getnode).  Transfers do not *)
(* fail here.                                                              *)
(***************************************************************************)
EXTENDS Integers, SequencesExt

CONSTANTS
  Key,       \* keys, in the order of bt->keycompare
  Pinned,    \* keys of the root directory's records, in order of insertion;
             \* a catalog never loses them, an extents file has none
  LeafCap,   \* records in a leaf node
  IndexCap,  \* records in an index node
  Nodes0,    \* nodes of a new tree, its header included
  MapBits,   \* nodes that one node of the bitmap stands for
  Grow,      \* nodes that one extension of the file may bring
  MaxNodes,  \* bound: nodes of the file
  RenameFree \* scenario: for how many records a rename finds nodes

ASSUME BTreeAssumption ==
  /\ Key \subseteq Nat \ {0} /\ Pinned \in Seq(Key)
  /\ LeafCap \in Nat \ {0, 1} /\ IndexCap \in Nat \ {0, 1}
  /\ Nodes0 \in Nat \ {0, 1} /\ MapBits \in Nat \ {0} /\ MapBits >= Nodes0
  /\ Grow \subseteq Nat \ {0} /\ MaxNodes \in Nat /\ RenameFree \in Nat

VARIABLES
  t,         \* the tree
  reply      \* the answer of the last call: a key, and what came of it

vars == <<t, reply>>

NoRec == [key |-> 0, child |-> 0]

Answer(k, res) == [key |-> k, res |-> res]
Quiet == Answer(0, "ok")

\* hfs_format's tree: a header node, no records
NewTree ==
  [nodes |-> << >>, maps |-> {0}, mapped |-> MapBits, nnodes |-> Nodes0, free |-> Nodes0 - 1,
   root |-> 0, depth |-> 0, fnode |-> 0, lnode |-> 0, nrecs |-> 0]

InUse(tree) == DOMAIN tree.nodes \cup tree.maps

-----------------------------------------------------------------------------
(***************************************************************************)
(* Nodes (node.c).                                                         *)
(***************************************************************************)
NewNode(height) == [height |-> height, recs |-> << >>, flink |-> 0, blink |-> 0]

Cap(node) == IF node.height = 1 THEN LeafCap ELSE IndexCap

\* n_search: the last record whose key is not above k, 0 if there is none
Rnum(recs, k) ==
  LET s == {i \in DOMAIN recs : recs[i].key <= k}
  IN  IF s = {} THEN 0 ELSE Max(s)

\* the record in its place (n_search, n_insertx)
Placed(recs, rec) == InsertAt(recs, Rnum(recs, rec.key) + 1, rec)

\* n_index: the record for a node in its parent
Index(tree, id) == [key |-> tree.nodes[id].recs[1].key, child |-> id]

Put(tree, id, node) == [tree EXCEPT !.nodes = (id :> node) @@ @]

\* n_new
HasNew(tree) == tree.free > 0 /\ 0..tree.nnodes - 1 \ InUse(tree) # {}
NewId(tree)  == Min(0..tree.nnodes - 1 \ InUse(tree))
Taken(tree)  == [tree EXCEPT !.free = @ - 1]

\* n_free: the node's neighbours and the header forget it
Freed(tree, id) ==
  LET n == tree.nodes[id]
  IN  [tree EXCEPT
        !.fnode = IF @ = id THEN n.flink ELSE @,
        !.lnode = IF @ = id THEN n.blink ELSE @,
        !.free  = @ + 1,
        !.nodes = [i \in DOMAIN @ \ {id} |->
                     [@[i] EXCEPT !.blink = IF i = n.flink THEN n.blink ELSE @,
                                  !.flink = IF i = n.blink THEN n.flink ELSE @]]]

\* split: what is left of the half, in half records, before record i is
\* assigned; records stay in the left node while it is above zero
Mark(recs, rnum, i) == Len(recs) + 1 - 2 * (i - 1) - IF rnum < i THEN 2 ELSE 0

Stay(recs, rnum) == Cardinality({i \in DOMAIN recs : Mark(recs, rnum, i) > 0})

\* broken variant: whatever the half the record belongs to
AlwaysLeft(recs, rnum) == TRUE

GoesLeft(recs, rnum) == rnum = 0 \/ Mark(recs, rnum, rnum) > 2

\* the node and its new right neighbour
Halves(n, rnum, rec) ==
  LET stay == Stay(n.recs, rnum)
      l    == SubSeq(n.recs, 1, stay)
      r    == SubSeq(n.recs, stay + 1, Len(n.recs))
  IN  IF GoesLeft(n.recs, rnum) THEN <<Placed(l, rec), r>> ELSE <<l, Placed(r, rec)>>

Linked(tree, id, new, n, halves) ==
  [tree EXCEPT
    !.nodes = (id :> [n EXCEPT !.recs = halves[1], !.flink = new])
                @@ (new :> [n EXCEPT !.recs = halves[2], !.blink = id])
                @@ [i \in DOMAIN @ |-> IF i = n.flink THEN [@[i] EXCEPT !.blink = new] ELSE @[i]],
    !.lnode = IF @ = id THEN new ELSE @,
    !.free  = @ - 1]

Split(tree, id, new, n, rnum, rec) == Linked(tree, id, new, n, Halves(n, rnum, rec))

\* join: the left neighbour has room for all records
Joins(tree, n) ==
  n.blink > 0 /\ Len(n.recs) + Len(tree.nodes[n.blink].recs) <= Cap(n)

\* n_delete: the record is removed; the parent's record is "gone" with its
\* node, or has to be "rekeyed", or stays.  The caller removes the root's.
Removed(tree, p, n) ==
  CASE n.recs = << >>  -> [t |-> Freed(tree, p.id), flag |-> "gone"]
    [] n.recs # << >> /\ Joins(tree, n) ->
         [t |-> Freed([tree EXCEPT !.nodes[n.blink].recs = @ \o n.recs], p.id), flag |-> "gone"]
    [] OTHER ->
         [t |-> Put(tree, p.id, n), flag |-> IF p.rnum = 1 THEN "rekeyed" ELSE "none"]

-----------------------------------------------------------------------------
(***************************************************************************)
(* Search, insertion and deletion (btree.c).                               *)
(***************************************************************************)
\* the nodes a key leads to, leaf first, and the place of the key in each;
\* an insertion below the first key of a node enters its first child
At(tree, k, id) == [id |-> id, rnum |-> Rnum(tree.nodes[id].recs, k)]

Child(tree, p) == tree.nodes[p.id].recs[IF p.rnum = 0 THEN 1 ELSE p.rnum].child

Path(tree, k) ==
  LET top == tree.nodes[tree.root].height
      at[h \in 1..top] == At(tree, k, IF h = top THEN tree.root ELSE Child(tree, at[h + 1]))
  IN  at

Hits(tree, k, p) == p.rnum > 0 /\ tree.nodes[p.id].recs[p.rnum].key = k

Readable(tree) == tree.root \in DOMAIN tree.nodes

\* bt_search
Found(tree, k) ==
  /\ Readable(tree)
  /\ LET path == Path(tree, k)
     IN  Hits(tree, k, path[1]) /\ \A h \in DOMAIN path : path[h].rnum > 0

\* insertx, one level: the child's first record is a new one, and there may
\* be a record to insert
Rekeyed(tree, n, rnum) ==
  IF n.height > 1 /\ rnum = 0 THEN [n EXCEPT !.recs[1] = Index(tree, @.child)] ELSE n

InsertAbove(s, p, n) ==
  CASE ~s.ok -> s
    [] s.ok /\ s.rec = NoRec -> [s EXCEPT !.t = Put(@, p.id, n)]
    [] s.ok /\ s.rec # NoRec /\ Len(n.recs) < Cap(n) ->
         [s EXCEPT !.t = Put(@, p.id, [n EXCEPT !.recs = InsertAt(@, p.rnum + 1, s.rec)]),
                   !.rec = NoRec]
    [] s.ok /\ s.rec # NoRec /\ Len(n.recs) >= Cap(n) /\ HasNew(s.t) ->
         LET new == NewId(s.t)
             tree == Split(s.t, p.id, new, n, p.rnum, s.rec)
         IN  [s EXCEPT !.t = tree, !.rec = Index(tree, new)]
    [] OTHER -> [s EXCEPT !.ok = FALSE]

InsertLevel(s, p) == InsertAbove(s, p, Rekeyed(s.t, s.t.nodes[p.id], p.rnum))

\* bt_insert, first part: an empty tree gets a root
Rooted(tree) ==
  IF tree.root # 0 \/ ~HasNew(tree) THEN tree
  ELSE LET id == NewId(tree)
       IN  [Put(Taken(tree), id, NewNode(1))
              EXCEPT !.depth = 1, !.root = id, !.fnode = id, !.lnode = id]

\* bt_insert, last part: a root that was split gets a parent
Grown(s, id) ==
  [Put(Taken(s.t), id,
       [NewNode(s.t.nodes[s.t.root].height + 1)
          EXCEPT !.recs = Placed(<<Index(s.t, s.t.root)>>, s.rec)])
     EXCEPT !.depth = @ + 1, !.root = id]

Finished(s) ==
  CASE ~s.ok -> [t |-> s.t, res |-> "full"]
    [] s.ok /\ s.rec = NoRec -> [t |-> [s.t EXCEPT !.nrecs = @ + 1], res |-> "ok"]
    [] s.ok /\ s.rec # NoRec /\ HasNew(s.t) ->
         [t |-> [Grown(s, NewId(s.t)) EXCEPT !.nrecs = @ + 1], res |-> "ok"]
    [] OTHER -> [t |-> s.t, res |-> "full"]

InsertOn(tree, k, path) ==
  IF \E h \in DOMAIN path : Hits(tree, k, path[h]) THEN [t |-> tree, res |-> "present"]
  ELSE Finished(FoldLeft(InsertLevel, [t |-> tree, rec |-> [key |-> k, child |-> 0], ok |-> TRUE], path))

BtInsertAt(tree, k) ==
  CASE Readable(tree) -> InsertOn(tree, k, Path(tree, k))
    [] ~Readable(tree) /\ tree.root = 0 -> [t |-> tree, res |-> "full"]
    [] OTHER -> [t |-> tree, res |-> "error"]

BtInsert(tree, k) == BtInsertAt(Rooted(tree), k)

\* broken variant: a new first record is told to the parent only
DeleteOneLevel(s, p) ==
  LET n == s.t.nodes[p.id]
  IN  CASE s.flag = "gone"    -> Removed(s.t, p, [n EXCEPT !.recs = RemoveAt(@, p.rnum)])
        [] s.flag = "rekeyed" ->
             [t    |-> Put(s.t, p.id, [n EXCEPT !.recs[p.rnum] = Index(s.t, @.child)]),
              flag |-> "none"]
        [] s.flag = "none"    -> s

\* deletex, one level
DeleteLevel(s, p) ==
  LET n == s.t.nodes[p.id]
  IN  CASE s.flag = "gone"    -> Removed(s.t, p, [n EXCEPT !.recs = RemoveAt(@, p.rnum)])
        [] s.flag = "rekeyed" ->
             [t    |-> Put(s.t, p.id, [n EXCEPT !.recs[p.rnum] = Index(s.t, @.child)]),
              flag |-> IF p.rnum = 1 THEN "rekeyed" ELSE "none"]
        [] s.flag = "none"    -> s

\* bt_delete, last part; "left" is the number of records left in the root
Lowered(tree, root, left) ==
  CASE tree.depth > 1 /\ left = 1 ->
         Freed([tree EXCEPT !.depth = @ - 1, !.root = tree.nodes[root].recs[1].child], root)
    [] tree.depth = 1 /\ left = 0 -> [tree EXCEPT !.depth = 0, !.root = 0]
    [] OTHER -> tree

Shrunk(s, root) ==
  [Lowered(s.t, root, IF s.flag = "gone" THEN 0 ELSE Len(s.t.nodes[root].recs))
     EXCEPT !.nrecs = @ - 1]

DeleteOn(tree, k, path) ==
  IF Hits(tree, k, path[1]) /\ \A h \in DOMAIN path : path[h].rnum > 0
  THEN [t   |-> Shrunk(FoldLeft(DeleteLevel, [t |-> tree, flag |-> "gone"], path), tree.root),
        res |-> "ok"]
  ELSE [t |-> tree, res |-> "absent"]

BtDelete(tree, k) ==
  CASE Readable(tree) -> DeleteOn(tree, k, Path(tree, k))
    [] ~Readable(tree) /\ tree.root = 0 -> [t |-> tree, res |-> "absent"]
    [] OTHER -> [t |-> tree, res |-> "error"]

-----------------------------------------------------------------------------
(***************************************************************************)
(* Space for records (bt_space).                                           *)
(***************************************************************************)
Need(tree, n) == n * (tree.depth + 1)

\* one more node of the bitmap, taken from the new nodes
MoreMap(tree) ==
  [Taken(tree) EXCEPT !.maps = @ \cup {NewId(tree)}, !.mapped = @ + MapBits]

Extended(tree, g) ==
  FoldLeft(LAMBDA s, i : IF s.nnodes > s.mapped THEN MoreMap(s) ELSE s,
           [tree EXCEPT !.nnodes = @ + g, !.free = @ + g], [i \in 1..g |-> i])

\* enough nodes, or one extension of the file; "nospace" can happen besides
Spaced(tree, n) ==
  IF Need(tree, n) <= tree.free THEN {tree}
  ELSE {Extended(tree, g) : g \in {x \in Grow : tree.nnodes + x <= MaxNodes}}

-----------------------------------------------------------------------------
\* hfs_format: the first records of a catalog
Init ==
  /\ t = FoldLeft(LAMBDA tree, k : BtInsert(tree, k).t, NewTree, Pinned)
  /\ reply = Quiet

\* the catalog has its root directory, the extents file begins empty
IsCatalog == Pinned # << >>

\* success says no more than the new tree does
Told(k, res) == IF res = "ok" THEN Quiet ELSE Answer(k, res)

Becomes(k, r) == t' = r.t /\ reply' = Told(k, r.res)

\* a call that reserves space and does not use it
Reserve(n) == t' \in Spaced(t, n) /\ reply' = Quiet

NoSpace(n) ==
  /\ Need(t, n) > t.free
  /\ reply' = Answer(0, "nospace") /\ UNCHANGED t

\* hfs_create, hfs_write: space for a record, and the record
Insert(k) == \E s \in Spaced(t, 1) : \E r \in {BtInsert(s, k)} : Becomes(k, r)

\* v_mkdir: space for two records, and the two
InsertTwo(k, l) ==
  /\ IsCatalog /\ k # l /\ ~Found(t, k) /\ ~Found(t, l)
  /\ \E s \in Spaced(t, 2) : \E r \in {BtInsert(s, k)} :
       \/ r.res # "ok" /\ Becomes(k, r)
       \/ r.res = "ok" /\ \E q \in {BtInsert(r.t, l)} : Becomes(l, q)

Delete(k) == k \notin ToSet(Pinned) /\ \E r \in {BtDelete(t, k)} : Becomes(k, r)

Search(k) ==
  /\ reply' = Answer(k, IF Found(t, k) THEN "present" ELSE "absent")
  /\ UNCHANGED t

Moved(k, new, r) ==
  t' = r.t /\ reply' = IF r.res = "ok" THEN Answer(new, "renamed") ELSE Answer(k, r.res)

\* hfs_rename: the record is deleted and inserted with another key, maybe
\* one that differs in the case of letters only; it reserves nothing, so the
\* nodes have to be there
Rename(k, new) ==
  /\ IsCatalog /\ k \notin ToSet(Pinned) /\ Found(t, k) /\ (new = k \/ ~Found(t, new))
  /\ Need(t, RenameFree) <= t.free
  /\ \E d \in {BtDelete(t, k)} : \E r \in {BtInsert(d.t, new)} : Moved(k, new, r)

Next ==
  \/ \E n \in 1..2 : Reserve(n) \/ NoSpace(n)
  \/ \E k \in Key : Insert(k) \/ Delete(k) \/ Search(k)
  \/ \E k, l \in Key : InsertTwo(k, l) \/ Rename(k, l)

Spec == Init /\ [][Next]_vars
-----------------------------------------------------------------------------
(***************************************************************************)
(* Properties.                                                             *)
(***************************************************************************)
Leaves == {id \in DOMAIN t.nodes : t.nodes[id].height = 1}

KeysOf(id) == {t.nodes[id].recs[i].key : i \in DOMAIN t.nodes[id].recs}

\* the keys of the records the leaves hold
Stored == UNION {KeysOf(id) : id \in Leaves}

\* the leaves in the order of their links, as a directory is read
Chain ==
  LET at[n \in 1..Cardinality(Leaves)] ==
        CASE n = 1                              -> t.fnode
          [] n > 1 /\ at[n - 1] \in Leaves      -> t.nodes[at[n - 1]].flink
          [] n > 1 /\ at[n - 1] \notin Leaves   -> 0
  IN  at

\* the nodes of each height that the root leads to
Reached ==
  LET top == t.nodes[t.root].height
      at[h \in 1..top] ==
        IF h = top THEN {t.root}
        ELSE UNION {{r.child : r \in ToSet(t.nodes[id].recs)} : id \in at[h + 1]}
  IN  IF t.root = 0 THEN {} ELSE UNION {at[h] : h \in 1..top}

NodeId == 1..MaxNodes

\* The types of the header's fields and of nodes: no node is empty (n_delete
\* frees it) and none holds more than fits into its block.
TypeOK ==
  /\ t.root \in NodeId \cup {0} /\ t.fnode \in NodeId \cup {0} /\ t.lnode \in NodeId \cup {0}
  /\ t.depth \in Nat /\ t.nrecs \in Nat /\ t.free \in 0..t.nnodes
  /\ t.mapped \in Nat /\ t.maps \subseteq 0..t.nnodes - 1
  /\ DOMAIN t.nodes \subseteq NodeId
  /\ \A id \in DOMAIN t.nodes :
       LET n == t.nodes[id]
       IN  /\ n.height \in 1..t.depth /\ n.flink \in {0} \cup NodeId /\ n.blink \in {0} \cup NodeId
           /\ Len(n.recs) \in 1..Cap(n)
           /\ \A i \in DOMAIN n.recs : n.recs[i].key \in Key /\ n.recs[i].child \in {0} \cup NodeId
  /\ reply.key \in Key \cup {0}

\* The leaf chain that directory listings follow (bthFNode, ndFLink) passes
\* every leaf once and lists all records in the order of their keys; the links
\* back mirror it, it ends at bthLNode, and bthNRecs counts the records.
ChainSorted ==
  \E c \in {Chain} :
    /\ ToSet(c) = Leaves
    /\ \A i \in DOMAIN c :
         /\ t.nodes[c[i]].blink = IF i = 1 THEN 0 ELSE c[i - 1]
         /\ t.nodes[c[i]].flink = IF i = Len(c) THEN 0 ELSE c[i + 1]
    /\ t.fnode = (IF c = << >> THEN 0 ELSE c[1]) /\ t.lnode = (IF c = << >> THEN 0 ELSE c[Len(c)])
    /\ LET all == FlattenSeq([i \in DOMAIN c |-> t.nodes[c[i]].recs])
       IN  t.nrecs = Len(all) /\ \A i \in 1..Len(all) - 1 : all[i].key < all[i + 1].key

\* Splits, joins and changes of the depth neither leak a node nor use one
\* twice: the root leads to exactly the allocated nodes, bthFree counts the
\* others, and the bitmap is long enough for the file.
NodesAccounted ==
  /\ DOMAIN t.nodes = Reached /\ DOMAIN t.nodes \cap t.maps = {}
  /\ t.free = t.nnodes - Cardinality(InUse(t))
  /\ t.nnodes <= t.mapped /\ t.mapped = MapBits * Cardinality(t.maps)

\* Index records agree with the nodes they point to however a change below
\* propagated (insertx and deletex): the key is that of the child's first
\* record, the child is one level lower, and bthDepth is the root's height.
IndexExact ==
  /\ t.depth = IF t.root = 0 THEN 0 ELSE t.nodes[t.root].height
  /\ \A id \in DOMAIN t.nodes \ Leaves : \A r \in ToSet(t.nodes[id].recs) :
       /\ r.child \in DOMAIN t.nodes
       /\ t.nodes[r.child].height = t.nodes[id].height - 1
       /\ r = Index(t, r.child)

\* Index, leaf chain, links, node map and counts are exact at every height.
TreeSound == TypeOK /\ ChainSorted /\ NodesAccounted /\ IndexExact

\* The tree is a set of records: see KeySet.
Records == INSTANCE KeySet WITH keys <- Stored, Pinned <- ToSet(Pinned)

IsKeySet == Records!Spec

\* bt_search finds every record in the leaves, and no other key.
\* The code does not keep this without Pinned records (README, section 4).
SearchFinds == \A k \in Key : Found(t, k) <=> k \in Stored
=============================================================================
