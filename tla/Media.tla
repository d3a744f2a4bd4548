------------------------------- MODULE Media -------------------------------
(***************************************************************************)
(* A medium: its partition map, and the volumes that are formatted on it   *)
(* (libhfs/medium.c, and hfs_zero, hfs_mkpart, hfs_nparts, hfs_format in   *)
(* hfs.c).  hfs_zero and hfs_mkpart work without a cache: each entry of    *)
(* the map is a write of its own, and after a failed write, a signal or a  *)
(* crash the writes before it stay.  A medium that is being changed is     *)
(* locked (v_open), so the calls come one after the other.                 *)
(*                                                                         *)
(* Block b of the map holds entry b.  Of an entry we keep its type, where  *)
(* its partition lies, and how many entries the map has, which every entry *)
(* repeats; of a volume the fields of its MDB that say where things are.   *)
(***************************************************************************)
EXTENDS Integers, FiniteSets, SequencesExt

CONSTANTS
  Size,      \* blocks of the medium
  MinLen,    \* the smallest volume, in blocks (200K)
  MapBits,   \* bits in a block of a bitmap (4096)
  MaxBlocks, \* allocation blocks of a volume are fewer (65536)
  OldMaps,   \* maps that other systems have written
  Lengths,   \* bound: lengths asked of hfs_mkpart
  MaxParts,  \* bound: sizes asked of hfs_zero
  MaxCalls   \* bound: calls

\* an entry of a partition map
PartEntry == [is : {"entry"}, type : {"map", "free", "hfs"}, start : Nat, len : 0..Size,
              count : Nat]

Apart(x, y) == x.start + x.len <= y.start \/ y.start + y.len <= x.start

\* what m_findpmentry and hfs_mkpart take for granted of a map
WellFormed(m) ==
  /\ Len(m) < Size
  /\ \A i \in 1..Len(m) :
       /\ m[i].count = Len(m) /\ m[i].start >= 1 /\ m[i].start + m[i].len <= Size
       /\ m[i].type = "map" => m[i].start = 1 /\ m[i].len >= Len(m)
       /\ \A j \in 1..Len(m) \ {i} : Apart(m[i], m[j])

ASSUME MediaAssumption ==
  /\ OldMaps \subseteq Seq(PartEntry) /\ \A m \in OldMaps : WellFormed(m)
  /\ Size \in Nat /\ MinLen \in 16..Size /\ MapBits \in Nat \ {0} /\ MaxBlocks \in Nat \ {0}
  /\ Lengths \subseteq Nat \ {0} /\ MaxParts \subseteq 1..Size - 2 /\ MaxCalls \in Nat

VARIABLES
  blk,      \* what the blocks of the medium hold
  todo,     \* the writes that the running call has still to make
  call,     \* the running call: its name, the entry of the partition it works
            \* on, and the volume that hfs_format lays out
  calls,    \* bound: calls so far
  foreign,  \* history: the map was not made by hfs_zero
  cut       \* history: calls that have stopped half way

vars == <<blk, todo, call, calls, foreign, cut>>

Blank == [is |-> "blank"]
Ddr == [is |-> "ddr"]
Entry(type, start, len, count) ==
  [is |-> "entry", type |-> type, start |-> start, len |-> len, count |-> count]
Of(b) == [is |-> "volume", part |-> b]

IsEntry(b) == b < Size /\ blk[b].is = "entry"

-----------------------------------------------------------------------------
(***************************************************************************)
(* m_findpmentry reads entries from the first on and ends behind one whose *)
(* number is the count in it.                                              *)
(***************************************************************************)
Read == {b \in 1..Size - 1 : \A j \in 1..b - 1 : IsEntry(j) /\ j < blk[j].count}
Entries == {b \in Read : IsEntry(b)}

\* the search ends in an error: at something that is not an entry
Broken == ~\E b \in Entries : blk[b].count <= b

OfType(type) == {b \in Entries : blk[b].type = type}
First(bs) == {b \in bs : \A c \in bs : b <= c}

Extent(b) == blk[b].start..(blk[b].start + blk[b].len - 1)

\* hfs_nparts
NParts == IF Broken THEN -1 ELSE Cardinality(OfType("hfs"))

\* the HFS partition that v_geometry takes for number k
Nth(k) == {b \in OfType("hfs") : Cardinality({c \in OfType("hfs") : c <= b}) = k}

-----------------------------------------------------------------------------
(* The writes.                                                             *)

PutDdr == [do |-> "ddr", at |-> 0]
Put(b, e) == [do |-> "entry", at |-> b, entry |-> e]
Clear(b) == [do |-> "clear", at |-> b]
Recount(b, n) == [do |-> "count", at |-> b, count |-> n]
Claim(first, last, b) == [do |-> "claim", at |-> last, blocks |-> first..last, part |-> b]

\* the block lies on the medium
Ready(w) == w.at < Size

Apply(w) ==
  CASE w.do = "ddr"   -> [blk EXCEPT ![0] = Ddr]
    [] w.do = "entry" -> [blk EXCEPT ![w.at] = w.entry]
    [] w.do = "clear" -> [blk EXCEPT ![w.at] = Blank]
    [] w.do = "count" -> [blk EXCEPT ![w.at] =
                            IF IsEntry(w.at) THEN [@ EXCEPT !.count = w.count] ELSE @]
    [] w.do = "claim" -> [b \in DOMAIN blk |-> IF b \in w.blocks THEN Of(w.part) ELSE blk[b]]

NoVolume == [start |-> 0]
Idle == [op |-> "none", part |-> 0, vol |-> NoVolume]

Begin(op, part, vol, writes) ==
  /\ todo = << >>
  /\ todo' = writes /\ call' = [op |-> op, part |-> part, vol |-> vol]
  /\ calls < MaxCalls /\ calls' = calls + 1
  /\ UNCHANGED blk

-----------------------------------------------------------------------------
(* The calls.                                                              *)

\* hfs_zero: m_zeroddr and m_zeropm.  (For more than Size - 2 partitions the
\* length of the rest would wrap.)
Zero(maxparts) ==
  LET n == 1 + maxparts
  IN  /\ Begin("zero", 0, NoVolume,
             <<PutDdr, Put(1, Entry("map", 1, n, 2)), Put(2, Entry("free", 1 + n, Size - 1 - n, 2))>>
             \o [i \in 1..n - 2 |-> Clear(i + 2)])
      /\ UNCHANGED <<foreign, cut>>

\* the first free partition that is large enough
Fits(b, len) == blk[b].len >= len

\* broken variant: the old entry becomes the rest, the partition a new entry
PartWritesBehind(b, len, n) ==
  LET e == blk[b] IN
  IF e.len = len THEN <<Put(b, [e EXCEPT !.type = "hfs"])>>
  ELSE <<Put(b, [e EXCEPT !.start = @ + len, !.len = @ - len]),
         Put(n + 1, [e EXCEPT !.len = len, !.type = "hfs"])>>
       \o [i \in 1..n + 1 |-> Recount(i, n + 1)]

\* broken variant: the rest is written before the partition is cut
PartWritesRestFirst(b, len, n) ==
  LET e == blk[b] IN
  IF e.len = len THEN <<Put(b, [e EXCEPT !.type = "hfs"])>>
  ELSE <<Put(n + 1, [e EXCEPT !.start = @ + len, !.len = @ - len])>>
       \o [i \in 1..n + 1 |-> Recount(i, n + 1)]
       \o <<Put(b, [e EXCEPT !.len = len, !.type = "hfs", !.count = n + 1])>>

\* m_mkpart: entry b is cut to len and becomes an HFS partition, what remains
\* gets the next entry of a map of n entries, then all of them are counted
PartWrites(b, len, n) ==
  LET e == blk[b] IN
  <<Put(b, [e EXCEPT !.len = len, !.type = "hfs"])>>
  \o IF e.len = len THEN << >>
     ELSE <<Put(n + 1, [e EXCEPT !.start = @ + len, !.len = @ - len])>>
          \o [i \in 1..n + 1 |-> Recount(i, n + 1)]

\* hfs_mkpart
MkPart(len) ==
  /\ \E m \in First(OfType("map")) : \E b \in First({f \in OfType("free") : Fits(f, len)}) :
       /\ blk[b].len = len \/ blk[m].count < blk[m].len
       /\ Begin("mkpart", b, NoVolume, PartWrites(b, len, blk[m].count))
  /\ UNCHANGED <<foreign, cut>>

\* v_geometry: the whole medium, or partition number k
Geometry(k) ==
  {g \in IF k = 0 THEN {[start |-> 0, len |-> Size, part |-> 0]}
         ELSE {[start |-> blk[b].start, len |-> blk[b].len, part |-> b] : b \in Nth(k)} :
     g.len >= MinLen}

RoundUp4(n) == ((n + 3) \div 4) * 4

\* broken variant: the last two blocks are not set aside
LayoutToEnd(start, len, by4) ==
  LET few == 1 + (len - 6) \div MaxBlocks
      lpa == IF by4 THEN RoundUp4(few) ELSE few
      vbm == (len \div lpa + MapBits - 1) \div MapBits
      st  == IF by4 THEN RoundUp4((start % 4) + 3 + vbm) ELSE 3 + vbm
  IN  [start |-> start, len |-> len, by4 |-> by4, lpa |-> lpa, vbmsz |-> vbm,
       drAlBlSt |-> st, drNmAlBlks |-> (len - st) \div lpa]

\* hfs_format: blocks per allocation block, blocks of the bitmap, the first
\* allocation block and how many there are; by4 is HFS_OPT_2048
Layout(start, len, by4) ==
  LET few == 1 + (len - 6) \div MaxBlocks
      lpa == IF by4 THEN RoundUp4(few) ELSE few
      vbm == (len \div lpa + MapBits - 1) \div MapBits
      st  == IF by4 THEN RoundUp4((start % 4) + 3 + vbm) ELSE 3 + vbm
  IN  [start |-> start, len |-> len, by4 |-> by4, lpa |-> lpa, vbmsz |-> vbm,
       drAlBlSt |-> st, drNmAlBlks |-> (len - 2 - st) \div lpa]

\* broken variant: a block too many
FormatWritesPast(g) ==
  {<<Claim(g.start, g.start + 1, g.part), Claim(g.start + 2, g.start + g.len, g.part)>>}

\* the cache may write the boot blocks first or last
FormatWrites(g) ==
  LET boot == Claim(g.start, g.start + 1, g.part)
      rest == Claim(g.start + 2, g.start + g.len - 1, g.part)
  IN  {<<boot, rest>>, <<rest, boot>>}

\* hfs_format
Format(k, by4) ==
  /\ \E g \in Geometry(k) :
       \E ws \in FormatWrites(g) : Begin("format", g.part, Layout(g.start, g.len, by4), ws)
  /\ UNCHANGED <<foreign, cut>>

\* the running call makes a write, or returns after its last one
Write ==
  /\ todo # << >> /\ Ready(Head(todo))
  /\ blk' = Apply(Head(todo)) /\ todo' = Tail(todo)
  /\ call' = IF Len(todo) = 1 THEN Idle ELSE call
  /\ IF call.op = "zero" /\ Len(todo) = 1
     THEN cut' = {} /\ foreign' = FALSE
     ELSE UNCHANGED <<cut, foreign>>
  /\ UNCHANGED calls

\* a write fails, or the program or the machine stops
Stop ==
  /\ todo # << >>
  /\ todo' = << >> /\ call' = Idle
  /\ cut' = cut \cup {call.op}
  /\ UNCHANGED <<blk, calls, foreign>>

\* a map as another system has written it
OldMap(m) ==
  [b \in 0..Size - 1 |-> IF b = 0 THEN Ddr ELSE IF b <= Len(m) THEN m[b] ELSE Blank]

Init ==
  /\ \/ blk = [b \in 0..Size - 1 |-> Blank] /\ foreign = FALSE
     \/ \E m \in OldMaps : blk = OldMap(m) /\ foreign = TRUE
  /\ todo = << >> /\ call = Idle /\ calls = 0 /\ cut = {}

Next ==
  \/ \E n \in MaxParts : Zero(n)
  \/ \E len \in Lengths : MkPart(len)
  \/ \E k \in 0..2, by4 \in BOOLEAN : Format(k, by4)
  \/ Write
  \/ Stop

Spec == Init /\ [][Next]_vars

-----------------------------------------------------------------------------
(***************************************************************************)
(* Properties.  After an hfs_zero that has stopped half way entries of the *)
(* old map may show under the new one.                                     *)
(***************************************************************************)
Zeroing == "zero" \in cut \/ call.op = "zero"

\* Every variable holds what its C counterpart can hold; the number of
\* allocation blocks that hfs_format stores fits the 16 bits of drNmAlBlks.
TypeOK ==
  /\ \A b \in DOMAIN blk : IsEntry(b) => blk[b].start \in Nat /\ blk[b].len \in 0..Size
  /\ call.op = "format" => call.vol.drNmAlBlks \in 0..MaxBlocks - 1
  /\ \A i \in DOMAIN todo : todo[i].at \in Nat
  /\ call.op \in {"none", "zero", "mkpart", "format"}

\* Whatever write was the last one made: the partitions that a search of the
\* map finds lie on the medium and have no block in common, and the entries
\* themselves lie in the partition of the map.
PartitionsDisjoint ==
  ~Zeroing =>
    /\ \A b \in Entries : Extent(b) \subseteq 1..Size - 1
    /\ \A b, c \in Entries : b # c => Extent(b) \cap Extent(c) = {}
    /\ \A m \in OfType("map") : \A b \in Entries : b \in Extent(m)

\* A map made by hfs_zero, none of whose calls has stopped half way, accounts
\* for every block ("cannot leave any blocks in the medium unaccounted for",
\* libhfs.txt), and all its entries tell the same count.
NothingLost ==
  ~foreign /\ cut = {} /\ todo = << >> /\ ~Broken =>
    /\ UNION {Extent(b) : b \in Entries} = 1..Size - 1
    /\ \A b \in Entries : blk[b].count = Cardinality(Entries)

\* Blocks of the map, areas of volumes and partitions are where they may be, at
\* every write: no overlap, and no block lost once a call is complete.
MapSound == TypeOK /\ PartitionsDisjoint /\ NothingLost

\* On such a map hfs_mkpart changes neither the number nor the place of an HFS
\* partition, wherever it stops: the commands keep partition numbers in .hcwd,
\* and callers pass them to hfs_mount and hfs_format.
NumbersKept ==
  [][~foreign /\ ~Zeroing /\ call.op = "mkpart" =>
       \A k \in 1..NParts : \A b \in Nth(k) :
         /\ b \in Nth(k)'
         /\ blk'[b].start = blk[b].start /\ blk'[b].len = blk[b].len]_vars

\* Neither hfs_mkpart nor hfs_format of one partition writes to a block of
\* another HFS partition, though calls before them have stopped half way.
OthersKept ==
  [][~Zeroing /\ (call.op = "mkpart" \/ (call.op = "format" /\ call.part # 0)) =>
       \A b \in OfType("hfs") \ {call.part} : \A i \in Extent(b) : blk'[i] = blk[i]]_vars

\* What hfs_format lays out fits the volume: boot blocks, MDB and bitmap lie
\* before the first allocation block, the alternate MDB and the last block
\* behind the last one, the bitmap has a bit for each; with HFS_OPT_2048 the
\* allocation blocks are aligned if the volume is.
VolumesFit ==
  call.op = "format" => LET v == call.vol IN
    /\ v.drNmAlBlks > 0
    /\ 3 + v.vbmsz <= v.drAlBlSt
    /\ v.drAlBlSt + v.drNmAlBlks * v.lpa <= v.len - 2
    /\ v.drNmAlBlks <= v.vbmsz * MapBits
    /\ v.by4 /\ v.start % 4 = 0 => v.drAlBlSt % 4 = 0 /\ v.lpa % 4 = 0
=============================================================================
