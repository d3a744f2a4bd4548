----------------------------- MODULE MediaProofs -----------------------------
(***************************************************************************)
(* Proofs about Media.                                                     *)
(*                                                                         *)
(* The layout that hfs_format computes fits its volume for a partition of  *)
(* any size that it accepts, and the number of its allocation blocks fits  *)
(* 16 bits; the map is well typed wherever a call stops (MediaInv).        *)
(*                                                                         *)
(* A partition map stays sound at every write of every call, for a medium  *)
(* of any size, any lengths and numbers of partitions, and any map of      *)
(* another system in which the partitions lie apart.  The inductive        *)
(* invariant, MapInv, says of a map of L blocks what every call may rely   *)
(* on (Placed, and Ordered where hfs_zero has made the map), and of each   *)
(* kind of pending writes where in its call they stand: Cut, Rest and      *)
(* Counting for hfs_mkpart, Formatting for hfs_format, Clearing for        *)
(* hfs_zero.  An interrupted hfs_zero may leave entries of the old map in  *)
(* sight: from there on nothing is said until one is completed.            *)
(***************************************************************************)
EXTENDS Media, FiniteSetTheorems, SequenceTheorems, TLAPS

\* the widths and the least size that the code has
RealSizes == MapBits = 4096 /\ MaxBlocks = 65536 /\ MinLen >= 400

(***************************************************************************)
(* The layout.                                                             *)
(***************************************************************************)
LEMMA Division ==
  ASSUME NEW a \in Nat, NEW b \in Nat \ {0}
  PROVE  /\ a \div b \in Nat
         /\ (a \div b) * b <= a /\ a < (a \div b) * b + b
OBVIOUS

LEMMA RoundsUp ==
  ASSUME NEW n \in Nat
  PROVE  RoundUp4(n) \in n..n + 3 /\ RoundUp4(n) % 4 = 0
BY DEF RoundUp4

\* what VolumesFit and TypeOK say of a volume
LaidOutWell(v) ==
    /\ v.drNmAlBlks > 0
    /\ 3 + v.vbmsz <= v.drAlBlSt
    /\ v.drAlBlSt + v.drNmAlBlks * v.lpa <= v.len - 2
    /\ v.drNmAlBlks <= v.vbmsz * MapBits
    /\ v.by4 /\ v.start % 4 = 0 => v.drAlBlSt % 4 = 0 /\ v.lpa % 4 = 0
    /\ v.drNmAlBlks \in 0..MaxBlocks - 1

LEMMA Times ==
  ASSUME NEW a \in Nat, NEW b \in Nat, NEW c \in Nat, a >= b
  PROVE  a * c \in Nat /\ b * c \in Nat /\ a * c >= b * c
<1>1. PICK d \in Nat : a = b + d
  <2>1. a - b \in Nat /\ a = b + (a - b)
    OBVIOUS
  <2> QED BY <2>1
<1>2. a * c = b * c + d * c
  BY <1>1
<1>3. d * c \in Nat /\ b * c \in Nat
  OBVIOUS
<1> QED BY <1>2, <1>3

LEMMA LayoutFits ==
  ASSUME RealSizes, NEW start \in Nat, NEW len \in Nat, len >= MinLen, NEW by4 \in BOOLEAN
  PROVE  LaidOutWell(Layout(start, len, by4))
<1> DEFINE few == 1 + (len - 6) \div MaxBlocks
           lpa == IF by4 THEN RoundUp4(few) ELSE few
           bits == len \div lpa
           vbm == (bits + MapBits - 1) \div MapBits
           st  == IF by4 THEN RoundUp4((start % 4) + 3 + vbm) ELSE 3 + vbm
           room == len - 2 - st
           num == room \div lpa
           v   == Layout(start, len, by4)
<1>1. /\ MapBits = 4096 /\ MaxBlocks = 65536 /\ len >= 400
      /\ len - 6 \in Nat
  BY MediaAssumption DEF RealSizes
<1>2. few \in Nat \ {0} /\ len - 6 < few * 65536 /\ (few - 1) * 65536 <= len - 6
  BY <1>1
<1>3. lpa \in few..few + 3 /\ (by4 => lpa % 4 = 0)
  BY <1>2, RoundsUp
<1>4. lpa \in Nat \ {0} /\ lpa * 65536 > len - 6 /\ lpa <= 4 + (len - 6) \div 65536
  <2> HIDE DEF lpa
  <2> QED BY <1>1, <1>2, <1>3
<1> HIDE DEF few, lpa
<1>5. bits \in Nat /\ bits * lpa <= len /\ len < bits * lpa + lpa
  BY <1>4, Division
<1> HIDE DEF bits
<1>6. bits <= 65542
  <2> SUFFICES ASSUME bits >= 65543 PROVE FALSE
    BY <1>5
  <2>1. bits * lpa >= 65543 * lpa
    BY <1>4, <1>5, Times
  <2>2. 65543 * lpa = 65536 * lpa + 7 * lpa
    BY <1>4
  <2> QED
    BY <1>1, <1>4, <1>5, <2>1, <2>2
<1>7. vbm \in 1..17 /\ bits <= vbm * 4096
  <2>1. bits # 0
    BY <1>1, <1>4, <1>5
  <2> QED
    BY <1>1, <1>5, <1>6, <2>1
<1>8. /\ st \in 3 + vbm..9 + vbm
      /\ by4 /\ start % 4 = 0 => st % 4 = 0
  <2> HIDE DEF vbm
  <2>1. start % 4 \in 0..3
    OBVIOUS
  <2> QED BY <1>7, <2>1, RoundsUp
<1> HIDE DEF vbm, st
<1>9. room \in Nat /\ room <= len - 6
  BY <1>1, <1>7, <1>8
<1> HIDE DEF room
<1>10. num \in Nat /\ num * lpa <= room /\ room < num * lpa + lpa
  BY <1>4, <1>9, Division
<1> HIDE DEF num
<1>11. num > 0
  <2> SUFFICES ASSUME num = 0 PROVE FALSE
    BY <1>10
  <2>1. room < lpa
    BY <1>4, <1>9, <1>10
  <2> QED
    BY <1>1, <1>4, <1>7, <1>8, <2>1 DEF room
<1>12. num <= bits
  <2> SUFFICES ASSUME num >= bits + 1 PROVE FALSE
    BY <1>5, <1>10
  <2>1. num * lpa >= (bits + 1) * lpa
    BY <1>4, <1>5, <1>10, Times
  <2>2. (bits + 1) * lpa = bits * lpa + lpa
    BY <1>4, <1>5
  <2> DEFINE used == num * lpa
             all  == bits * lpa
  <2>3. used \in Nat /\ all \in Nat /\ used >= all + lpa /\ used <= room /\ len < all + lpa
    BY <1>4, <1>5, <1>10, <2>1, <2>2
  <2> HIDE DEF used, all
  <2> QED
    BY <1>4, <1>9, <2>3
<1>13. num < 65536
  <2> SUFFICES ASSUME num >= 65536 PROVE FALSE
    BY <1>10
  <2>1. num * lpa >= 65536 * lpa
    BY <1>4, <1>10, Times
  <2> DEFINE used == num * lpa
  <2>2. used \in Nat /\ used >= 65536 * lpa /\ used <= room
    BY <1>4, <1>10, <2>1
  <2> HIDE DEF used
  <2> QED
    BY <1>1, <1>4, <1>9, <2>2
<1>14. v = [start |-> start, len |-> len, by4 |-> by4, lpa |-> lpa, vbmsz |-> vbm,
            drAlBlSt |-> st, drNmAlBlks |-> num]
  BY DEF Layout, few, lpa, bits, vbm, st, room, num
<1> HIDE DEF v
<1>15. st + num * lpa <= len - 2
  BY <1>1, <1>4, <1>7, <1>8, <1>9, <1>10 DEF room
<1>16. by4 /\ start % 4 = 0 => st % 4 = 0 /\ lpa % 4 = 0
  BY <1>3, <1>8
<1>17. num \in 1..MaxBlocks - 1 /\ 3 + vbm <= st
  BY <1>1, <1>7, <1>8, <1>10, <1>11, <1>13
<1>18. num <= vbm * MapBits
  BY <1>1, <1>5, <1>7, <1>10, <1>12
<1>19. /\ v.len = len /\ v.start = start /\ v.by4 = by4 /\ v.lpa = lpa /\ v.vbmsz = vbm
       /\ v.drAlBlSt = st /\ v.drNmAlBlks = num
  BY <1>14
<1>20. LaidOutWell(v)
  <2>1. v.drAlBlSt + v.drNmAlBlks * v.lpa <= v.len - 2
    BY <1>15, <1>19, Zenon
  <2>2. v.drNmAlBlks <= v.vbmsz * MapBits
    BY <1>18, <1>19, Zenon
  <2>3. v.by4 /\ v.start % 4 = 0 => v.drAlBlSt % 4 = 0 /\ v.lpa % 4 = 0
    BY <1>16, <1>19, Zenon
  <2>4. v.drNmAlBlks > 0 /\ v.drNmAlBlks \in 0..MaxBlocks - 1 /\ 3 + v.vbmsz <= v.drAlBlSt
    <3>1. num > 0 /\ num \in 0..MaxBlocks - 1
      BY <1>1, <1>10, <1>11, <1>13
    <3> QED
      BY <3>1, <1>17, <1>19, Zenon
  <2> QED
    BY <2>1, <2>2, <2>3, <2>4 DEF LaidOutWell
<1> QED
  BY <1>20 DEF v

-----------------------------------------------------------------------------
(***************************************************************************)
(* The inductive invariant: what the blocks and the pending writes are, and *)
(* that the running hfs_format has laid out a volume of an accepted size.  *)
(***************************************************************************)
Held == PartEntry \cup {Blank, Ddr} \cup {Of(b) : b \in Nat}

PendingWrite ==
  {PutDdr} \cup [do : {"entry"}, at : Nat, entry : PartEntry]
  \cup [do : {"clear"}, at : Nat]
  \cup [do : {"count"}, at : Nat, count : Nat]
  \cup [do : {"claim"}, at : Nat, blocks : SUBSET Int, part : Nat]

FormatsVolume ==
  call.op = "format" =>
    \E start \in Nat, len \in Nat, by4 \in BOOLEAN :
      len >= MinLen /\ call.vol = Layout(start, len, by4)

MediaInv ==
  /\ blk \in [0..Size - 1 -> Held]
  /\ todo \in Seq(PendingWrite)
  /\ call.op \in {"none", "zero", "mkpart", "format"}
  /\ FormatsVolume

LEMMA EntryFields ==
  ASSUME NEW h \in Held, h.is = "entry"
  PROVE  h \in PartEntry
BY DEF Held, PartEntry, Blank, Ddr, Of

LEMMA MakesEntry ==
  ASSUME NEW type \in {"map", "free", "hfs"}, NEW start \in Nat, NEW len \in 0..Size,
         NEW count \in Nat
  PROVE  Entry(type, start, len, count) \in PartEntry
BY DEF Entry, PartEntry

LEMMA ApplyKeeps ==
  ASSUME MediaInv, NEW w \in PendingWrite, Ready(w)
  PROVE  Apply(w) \in [0..Size - 1 -> Held]
<1>1. w.at \in 0..Size - 1
  BY MediaAssumption DEF PendingWrite, Ready, PutDdr
<1>2. CASE w = PutDdr
  <2>1. Apply(w) = [blk EXCEPT ![0] = Ddr]
    BY <1>2 DEF Apply, PutDdr
  <2> QED
    BY <2>1 DEF MediaInv, Held
<1>3. CASE w \in [do : {"entry"}, at : Nat, entry : PartEntry]
  <2>1. Apply(w) = [blk EXCEPT ![w.at] = w.entry] /\ w.entry \in PartEntry
    BY <1>3 DEF Apply
  <2> QED
    BY <2>1 DEF MediaInv, Held
<1>4. CASE w \in [do : {"clear"}, at : Nat]
  <2>1. Apply(w) = [blk EXCEPT ![w.at] = Blank]
    BY <1>4 DEF Apply
  <2> QED
    BY <2>1 DEF MediaInv, Held
<1>5. CASE w \in [do : {"count"}, at : Nat, count : Nat]
  <2> DEFINE new == IF IsEntry(w.at) THEN [blk[w.at] EXCEPT !.count = w.count] ELSE blk[w.at]
  <2>1. Apply(w) = [blk EXCEPT ![w.at] = new]
    BY <1>5 DEF Apply
  <2>2. blk[w.at] \in Held
    BY <1>1 DEF MediaInv
  <2>3. CASE IsEntry(w.at)
    <3>1. blk[w.at] \in PartEntry
      BY <2>2, <2>3, EntryFields DEF IsEntry
    <3>2. [blk[w.at] EXCEPT !.count = w.count] \in PartEntry
      BY <1>5, <3>1 DEF PartEntry
    <3> QED
      BY <2>1, <2>3, <3>2 DEF MediaInv, Held
  <2>4. CASE ~IsEntry(w.at)
    BY <2>1, <2>2, <2>4 DEF MediaInv
  <2> QED
    BY <2>3, <2>4
<1>6. CASE w \in [do : {"claim"}, at : Nat, blocks : SUBSET Int, part : Nat]
  <2>1. Apply(w) = [b \in DOMAIN blk |-> IF b \in w.blocks THEN Of(w.part) ELSE blk[b]]
    BY <1>6 DEF Apply
  <2>2. Of(w.part) \in Held
    BY <1>6 DEF Held
  <2> QED
    BY <2>1, <2>2 DEF MediaInv
<1> QED
  BY <1>2, <1>3, <1>4, <1>5, <1>6 DEF PendingWrite

LEMMA InitMedia == Init => MediaInv
<1> SUFFICES ASSUME Init PROVE MediaInv
  OBVIOUS
<1>1. blk \in [0..Size - 1 -> Held]
  <2>1. CASE blk = [b \in 0..Size - 1 |-> Blank]
    BY <2>1 DEF Held
  <2>2. ASSUME NEW m \in OldMaps, blk = OldMap(m) PROVE blk \in [0..Size - 1 -> Held]
    <3>1. m \in Seq(PartEntry)
      BY MediaAssumption
    <3>2. \A b \in 1..Len(m) : m[b] \in PartEntry
      BY <3>1
    <3>3. \A b \in 0..Size - 1 : b # 0 /\ b <= Len(m) => m[b] \in PartEntry
      BY <3>1, <3>2
    <3> QED
      BY <2>2, <3>3 DEF OldMap, Held
  <2> QED
    BY <2>1, <2>2 DEF Init
<1>2. todo \in Seq(PendingWrite)
  BY DEF Init
<1> QED
  BY <1>1, <1>2 DEF Init, MediaInv, FormatsVolume, Idle

LEMMA ZeroKeeps ==
  ASSUME MediaInv, NEW maxparts \in MaxParts, Zero(maxparts)
  PROVE  MediaInv'
<1> DEFINE n == 1 + maxparts
           first == <<PutDdr, Put(1, Entry("map", 1, n, 2)), Put(2, Entry("free", 1 + n, Size - 1 - n, 2))>>
           clear == [i \in 1..n - 2 |-> Clear(i + 2)]
<1>1. maxparts \in 1..Size - 2 /\ Size \in Nat
  BY MediaAssumption
<1>2. Entry("map", 1, n, 2) \in PartEntry
  BY <1>1, MakesEntry
<1>3. Entry("free", 1 + n, Size - 1 - n, 2) \in PartEntry
  BY <1>1, MakesEntry
<1>4. first \in Seq(PendingWrite)
  <2>1. \A b \in Nat, e \in PartEntry : Put(b, e) \in PendingWrite
    BY DEF Put, PendingWrite
  <2>2. PutDdr \in PendingWrite
    BY DEF PendingWrite
  <2> HIDE DEF n
  <2> QED
    BY <1>2, <1>3, <2>1, <2>2
<1>5. clear \in Seq(PendingWrite)
  <2>1. \A i \in 1..n - 2 : Clear(i + 2) \in PendingWrite
    BY <1>1 DEF Clear, PendingWrite
  <2>2. n - 2 \in Nat
    BY <1>1
  <2> HIDE DEF n
  <2> QED
    BY <2>1, <2>2
<1>6. todo' = first \o clear /\ call' = [op |-> "zero", part |-> 0, vol |-> NoVolume] /\ blk' = blk
  BY DEF Zero, Begin
<1> HIDE DEF first, clear
<1>7. todo' \in Seq(PendingWrite)
  BY <1>4, <1>5, <1>6, ConcatProperties
<1> QED
  BY <1>6, <1>7 DEF MediaInv, FormatsVolume

LEMMA MkPartKeeps ==
  ASSUME MediaInv, NEW len \in Lengths, MkPart(len)
  PROVE  MediaInv'
<1>1. PICK m \in First(OfType("map")), b \in First({f \in OfType("free") : Fits(f, len)}) :
        Begin("mkpart", b, NoVolume, PartWrites(b, len, blk[m].count))
  BY DEF MkPart
<1> DEFINE n == blk[m].count
           e == blk[b]
           cutFree == [e EXCEPT !.len = len, !.type = "hfs"]
           rest == [e EXCEPT !.start = @ + len, !.len = @ - len]
           counts == [i \in 1..n + 1 |-> Recount(i, n + 1)]
<1>2. /\ m \in 1..Size - 1 /\ IsEntry(m)
      /\ b \in 1..Size - 1 /\ IsEntry(b) /\ e.len >= len
  BY <1>1 DEF First, OfType, Entries, Read, Fits
<1>3. blk[m] \in PartEntry /\ e \in PartEntry
  <2>1. blk[m] \in Held /\ e \in Held
    BY <1>2, MediaAssumption DEF MediaInv
  <2> QED
    BY <1>2, <2>1, EntryFields DEF IsEntry
<1>4. n \in Nat /\ e.start \in Nat /\ e.len \in 0..Size /\ len \in Nat \ {0}
  BY <1>3, MediaAssumption DEF PartEntry
<1>5. len \in 0..Size /\ e.len - len \in 0..Size /\ e.start + len \in Nat
  BY <1>2, <1>4, MediaAssumption
<1>6. cutFree \in PartEntry /\ rest \in PartEntry
  <2> HIDE DEF e
  <2> QED
    BY <1>3, <1>5 DEF PartEntry
<1>7. Put(b, cutFree) \in PendingWrite /\ Put(n + 1, rest) \in PendingWrite
  <2> HIDE DEF cutFree, rest, n
  <2> QED
    BY <1>2, <1>4, <1>6 DEF Put, PendingWrite
<1>8. counts \in Seq(PendingWrite)
  <2>1. \A i \in 1..n + 1 : Recount(i, n + 1) \in PendingWrite
    BY <1>4 DEF Recount, PendingWrite
  <2> HIDE DEF n
  <2> QED
    BY <1>4, <2>1
<1>9. /\ call' = [op |-> "mkpart", part |-> b, vol |-> NoVolume] /\ blk' = blk
      /\ todo' = <<Put(b, cutFree)>> \o IF e.len = len THEN << >>
                                     ELSE <<Put(n + 1, rest)>> \o counts
  BY <1>1 DEF Begin, PartWrites
<1>10. todo' \in Seq(PendingWrite)
  <2> HIDE DEF cutFree, rest, counts, n, e
  <2>1. <<Put(b, cutFree)>> \in Seq(PendingWrite) /\ <<Put(n + 1, rest)>> \in Seq(PendingWrite)
    BY <1>7
  <2>2. <<Put(n + 1, rest)>> \o counts \in Seq(PendingWrite)
    BY <2>1, <1>8, ConcatProperties
  <2>3. << >> \in Seq(PendingWrite)
    OBVIOUS
  <2> QED
    BY <1>9, <2>1, <2>2, <2>3, ConcatProperties
<1> QED
  BY <1>9, <1>10 DEF MediaInv, FormatsVolume

LEMMA FormatKeeps ==
  ASSUME MediaInv, NEW k \in 0..2, NEW by4 \in BOOLEAN, Format(k, by4)
  PROVE  MediaInv'
<1>1. PICK g \in Geometry(k) :
        \E ws \in FormatWrites(g) : Begin("format", g.part, Layout(g.start, g.len, by4), ws)
  BY DEF Format
<1>2. PICK ws \in FormatWrites(g) : Begin("format", g.part, Layout(g.start, g.len, by4), ws)
  BY <1>1
<1>3. g.start \in Nat /\ g.len \in Nat /\ g.part \in Nat /\ g.len >= MinLen
  <2>1. CASE k = 0
    BY <2>1, MediaAssumption DEF Geometry
  <2>2. CASE k # 0
    <3>1. PICK b \in Nth(k) : g = [start |-> blk[b].start, len |-> blk[b].len, part |-> b]
      BY <2>2 DEF Geometry
    <3>2. b \in 1..Size - 1 /\ IsEntry(b)
      BY DEF Nth, OfType, Entries, Read
    <3>3. blk[b] \in PartEntry
      BY <3>2, MediaAssumption, EntryFields DEF MediaInv, IsEntry
    <3>4. blk[b].start \in Nat /\ blk[b].len \in Nat
      BY <3>3, MediaAssumption DEF PartEntry
    <3>5. g.len >= MinLen
      BY DEF Geometry
    <3> QED
      BY <3>1, <3>2, <3>4, <3>5
  <2> QED
    BY <2>1, <2>2
<1>4. ws \in Seq(PendingWrite)
  <2> DEFINE boot == Claim(g.start, g.start + 1, g.part)
             rest == Claim(g.start + 2, g.start + g.len - 1, g.part)
  <2>1. boot \in PendingWrite /\ rest \in PendingWrite
    BY <1>3, MediaAssumption DEF Claim, PendingWrite
  <2>2. ws = <<boot, rest>> \/ ws = <<rest, boot>>
    BY <1>2 DEF FormatWrites
  <2> HIDE DEF boot, rest
  <2>3. <<boot, rest>> \in Seq(PendingWrite) /\ <<rest, boot>> \in Seq(PendingWrite)
    BY <2>1
  <2> QED
    BY <2>2, <2>3, Zenon
<1>5. /\ todo' = ws /\ blk' = blk
      /\ call' = [op |-> "format", part |-> g.part, vol |-> Layout(g.start, g.len, by4)]
  BY <1>2 DEF Begin
<1>6. call'.op = "format" /\ call'.vol = Layout(g.start, g.len, by4)
  BY <1>5
<1> QED
  BY <1>3, <1>4, <1>5, <1>6 DEF MediaInv, FormatsVolume

LEMMA WriteKeeps == ASSUME MediaInv, Write PROVE MediaInv'
<1>1. Head(todo) \in PendingWrite /\ Tail(todo) \in Seq(PendingWrite)
  BY DEF MediaInv, Write
<1>2. blk' \in [0..Size - 1 -> Held]
  BY <1>1, ApplyKeeps DEF Write
<1>3. call' = call \/ call' = Idle
  BY DEF Write
<1>4. FormatsVolume'
  <2>1. CASE call' = call
    BY <2>1 DEF MediaInv, FormatsVolume
  <2>2. CASE call' = Idle
    BY <2>2 DEF FormatsVolume, Idle
  <2> QED
    BY <1>3, <2>1, <2>2
<1>5. call'.op \in {"none", "zero", "mkpart", "format"}
  BY <1>3 DEF MediaInv, Idle
<1> QED
  BY <1>1, <1>2, <1>4, <1>5 DEF MediaInv, Write

LEMMA StopKeeps == ASSUME MediaInv, Stop PROVE MediaInv'
BY DEF MediaInv, Stop, FormatsVolume, Idle

LEMMA NextMedia == MediaInv /\ [Next]_vars => MediaInv'
<1> SUFFICES ASSUME MediaInv, [Next]_vars PROVE MediaInv'
  OBVIOUS
<1>1. CASE UNCHANGED vars
  BY <1>1 DEF vars, MediaInv, FormatsVolume
<1> QED
  BY <1>1, ZeroKeeps, MkPartKeeps, FormatKeeps, WriteKeeps, StopKeeps DEF Next

LEMMA MediaInvariance == Spec => []MediaInv
BY InitMedia, NextMedia, PTL DEF Spec

LEMMA LayoutOfCall == ASSUME RealSizes, MediaInv, call.op = "format" PROVE LaidOutWell(call.vol)
BY LayoutFits DEF MediaInv, FormatsVolume

\* Whatever is on the medium and wherever calls have stopped: what the map says
\* of partitions can be used as a place and a length, and the number of
\* allocation blocks that hfs_format stores fits drNmAlBlks.
THEOREM TypeCorrect == ASSUME RealSizes PROVE Spec => []TypeOK
<1>1. MediaInv => TypeOK
  <2> SUFFICES ASSUME MediaInv PROVE TypeOK
    OBVIOUS
  <2>1. ASSUME NEW b \in DOMAIN blk, IsEntry(b)
        PROVE  blk[b].start \in Nat /\ blk[b].len \in 0..Size
    <3>1. blk[b] \in PartEntry
      BY <2>1, EntryFields DEF MediaInv, IsEntry
    <3> QED
      BY <3>1 DEF PartEntry
  <2>2. call.op = "format" => call.vol.drNmAlBlks \in 0..MaxBlocks - 1
    BY LayoutOfCall DEF LaidOutWell
  <2>3. ASSUME NEW i \in DOMAIN todo PROVE todo[i].at \in Nat
    <3>1. todo[i] \in PendingWrite
      BY DEF MediaInv
    <3> QED
      BY <3>1 DEF PendingWrite, PutDdr
  <2> QED
    BY <2>1, <2>2, <2>3 DEF TypeOK, MediaInv
<1> QED
  BY <1>1, MediaInvariance, PTL

\* hfs_format, for any place and size of a volume that it accepts and with or
\* without HFS_OPT_2048: boot blocks, MDB, bitmap, allocation blocks and
\* alternate MDB are disjoint, and the bitmap has a bit for each block.
THEOREM LayoutsFit == ASSUME RealSizes PROVE Spec => []VolumesFit
<1>1. MediaInv => VolumesFit
  BY LayoutOfCall DEF VolumesFit, LaidOutWell
<1> QED
  BY <1>1, MediaInvariance, PTL

(***************************************************************************)
(* The partition map.                                                      *)
(***************************************************************************)
\* the entries in the first L blocks lie on the medium and apart from each other
Placed(L) ==
  \A c \in 1..L : IsEntry(c) =>
    /\ blk[c].start >= 1 /\ blk[c].start + blk[c].len <= Size /\ blk[c].count <= L
    /\ blk[c].type = "map" => blk[c].start = 1 /\ blk[c].len = L /\ c <= blk[c].count
    /\ \A d \in 1..L \ {c} : IsEntry(d) => Apart(blk[c], blk[d])

\* in a map that hfs_zero has made
Ordered(L) ==
  \A c \in 1..L : IsEntry(c) =>
    /\ blk[c].type = "map" <=> c = 1
    /\ \A d \in 1..L : IsEntry(d) =>
         /\ blk[c].type = "free" => d <= c
         /\ c <= d => blk[c].count >= blk[d].count

\* ... every one of whose calls was completed
Covers(x, T) == \E c \in 1..T : x \in Extent(c)
Entire(L, T) == T <= L /\ \A c \in 1..L : (IsEntry(c) <=> c <= T)
Whole(L, T) ==
  /\ Entire(L, T) /\ T >= 1
  /\ \A c \in 1..T : blk[c].count = T
  /\ \A x \in 1..Size - 1 : Covers(x, T)

Recounts(n, k, i) == \A j \in i..Len(todo) : todo[j] = Recount(j - i + k, n + 1)

\* the writes by which m_mkpart cuts len blocks from entry b
PartPlan(w, b, len, n) ==
  LET e == blk[b] IN
  /\ w[1] = Put(b, [e EXCEPT !.len = len, !.type = "hfs"])
  /\ e.len = len => Len(w) = 1
  /\ e.len # len =>
       /\ Len(w) = n + 3
       /\ w[2] = Put(n + 1, [e EXCEPT !.start = @ + len, !.len = @ - len])
       /\ \A j \in 3..n + 3 : w[j] = Recount(j - 2, n + 1)

Cutting(L, b, len, n) ==
  /\ IsEntry(b) /\ blk[b].type = "free" /\ len <= blk[b].len
  /\ blk[b].len = len \/ n < L
  /\ \E m \in 1..n : IsEntry(m) /\ blk[m].type = "map"
  /\ PartPlan(todo, b, len, n)
  /\ ~foreign => b <= n /\ blk[1].count = n
  /\ ~foreign /\ cut = {} => Whole(L, n)
Cut(L) == \E b \in 1..L, len \in 1..Size, n \in 1..L : Cutting(L, b, len, n)

Rest(L) ==
  \E n \in 1..L - 1 : LET r == todo[1].entry IN
    /\ Len(todo) = n + 2 /\ todo[1].do = "entry" /\ todo[1] = Put(n + 1, r) /\ Recounts(n, 1, 2)
    /\ \E m \in 1..n : IsEntry(m) /\ blk[m].type = "map"
    /\ r.type = "free" /\ r.count <= L /\ r.start >= 1 /\ r.start + r.len <= Size
    /\ \A c \in 1..L \ {n + 1} : IsEntry(c) => Apart(r, blk[c])
    /\ ~foreign => \A c \in 1..L : IsEntry(c) =>
         c <= n /\ r.count <= blk[c].count /\ blk[c].count <= n /\ blk[c].type # "free"
    /\ ~foreign /\ cut = {} =>
         /\ Entire(L, n)
         /\ \A x \in 1..Size - 1 : Covers(x, n) \/ x \in r.start..r.start + r.len - 1

Counting(L) ==
  \E n \in 1..L - 1 : \E k \in 1..n + 1 :
    /\ Len(todo) = n + 2 - k /\ Recounts(n, k, 1)
    /\ \E m \in 1..L : IsEntry(m) /\ blk[m].type = "map"
    /\ ~foreign => \A c \in 1..L : IsEntry(c) =>
         blk[c].count <= n + 1 /\ (c < k => blk[c].count = n + 1)
    /\ ~foreign /\ cut = {} =>
         /\ Entire(L, n + 1)
         /\ \A x \in 1..Size - 1 : Covers(x, n + 1)

Boot == Claim(0, 1, 0)
Formatting(L) ==
  LET v == call.vol IN
  /\ todo # << >> /\ v.len >= MinLen
  /\ \A i \in 1..Len(todo) : todo[i].do = "claim" /\ todo[i].blocks \subseteq v.start..v.start + v.len - 1
  /\ call.part # 0 =>
       /\ v.start >= 1
       /\ \A c \in 1..L \ {call.part} : IsEntry(c) => Apart(v, blk[c])
       /\ ~foreign => call.part # 1
       /\ ~foreign /\ cut = {} => \E T \in 1..L : Whole(L, T)
  /\ ~foreign /\ cut = {} /\ call.part = 0 => ~IsEntry(1) \/ \E i \in 1..Len(todo) : todo[i] = Boot

Quiet(L) ==
  todo = << >> /\ (~foreign /\ cut = {} => ~IsEntry(1) \/ \E T \in 1..L : Whole(L, T))

New(n, j) ==
  IF j = 0 THEN Ddr ELSE IF j = 1 THEN Entry("map", 1, n, 2)
  ELSE IF j = 2 THEN Entry("free", 1 + n, Size - 1 - n, 2) ELSE Blank
Putting(n, j) == IF j = 0 THEN PutDdr ELSE IF j <= 2 THEN Put(j, New(n, j)) ELSE Clear(j)
Clearing ==
  \E n \in 2..Size - 1 : \E k \in 0..n :
    /\ Len(todo) = n + 1 - k
    /\ \A i \in 1..Len(todo) : todo[i] = Putting(n, k + i - 1)
    /\ \A j \in 0..k - 1 : blk[j] = New(n, j)

MapOk(L) ==
  /\ Placed(L) /\ (~foreign => Ordered(L))
  /\ call.op = "none" => Quiet(L)
  /\ call.op = "mkpart" => Cut(L) \/ Rest(L) \/ Counting(L)
  /\ call.op = "format" => Formatting(L)
MapInv ==
  /\ call.op = "zero" => Clearing
  /\ call.op = "none" <=> todo = << >>
  /\ ~Zeroing => \E L \in 1..Size - 1 : MapOk(L)

-----------------------------------------------------------------------------
LEMMA Numbers == Size \in Nat /\ Size >= 16 /\ MinLen \in Nat /\ MinLen >= 16
BY MediaAssumption

LEMMA EntryAt ==
  ASSUME MediaInv, NEW c \in 1..Size - 1, IsEntry(c)
  PROVE  /\ blk[c] \in PartEntry /\ blk[c].type \in {"map", "free", "hfs"} /\ blk[c].start \in Nat
         /\ blk[c].len \in Nat /\ blk[c].len <= Size /\ blk[c].count \in Nat /\ blk[c].is = "entry"
<1>1. blk[c] \in Held
  BY Numbers DEF MediaInv
<1>2. blk[c] \in PartEntry
  BY <1>1, EntryFields DEF IsEntry
<1> QED
  BY <1>2, Numbers DEF PartEntry, IsEntry

LEMMA VisibleIn ==
  ASSUME MediaInv, NEW L \in 1..Size - 1, Placed(L)
  PROVE  Entries \subseteq 1..L
<1> SUFFICES ASSUME NEW b \in Entries, b > L PROVE FALSE
  BY Numbers DEF Entries, Read
<1>1. L \in 1..b - 1 /\ \A j \in 1..b - 1 : IsEntry(j) /\ j < blk[j].count
  BY Numbers DEF Entries, Read
<1>2. blk[L].count <= L /\ L < blk[L].count /\ blk[L].count \in Nat
  BY <1>1, EntryAt, Numbers DEF Placed
<1> QED
  BY <1>2

LEMMA EntryVisible ==
  ASSUME NEW b \in Entries
  PROVE  /\ b \in 1..Size - 1 /\ IsEntry(b)
         /\ \A j \in 1..b - 1 : IsEntry(j) /\ j < blk[j].count
BY DEF Entries, Read

LEMMA TailOf ==
  ASSUME MediaInv, todo # << >>
  PROVE  /\ Head(todo) = todo[1] /\ Len(todo) \in Nat /\ Len(todo) >= 1
         /\ Len(Tail(todo)) = Len(todo) - 1 /\ Head(todo) \in PendingWrite
         /\ \A i \in 1..Len(todo) - 1 : Tail(todo)[i] = todo[i + 1]
         /\ \A i \in 1..Len(todo) : todo[i] \in PendingWrite
         /\ Tail(todo) = << >> <=> Len(todo) = 1
<1>1. /\ Head(todo) = todo[1] /\ Len(todo) \in Nat /\ Len(todo) >= 1
      /\ Len(Tail(todo)) = Len(todo) - 1 /\ Head(todo) \in PendingWrite
      /\ \A i \in 1..Len(todo) - 1 : Tail(todo)[i] = todo[i + 1]
      /\ \A i \in 1..Len(todo) : todo[i] \in PendingWrite
      /\ Tail(todo) \in Seq(PendingWrite)
  BY HeadTailProperties DEF MediaInv
<1>2. Tail(todo) = << >> <=> Len(Tail(todo)) = 0
  BY <1>1, EmptySeq
<1> QED
  BY <1>1, <1>2

LEMMA Applied ==
  ASSUME NEW b, NEW e, NEW n
  PROVE  /\ Apply(PutDdr) = [blk EXCEPT ![0] = Ddr]
         /\ Apply(Put(b, e)) = [blk EXCEPT ![b] = e]
         /\ Apply(Clear(b)) = [blk EXCEPT ![b] = Blank]
         /\ Apply(Recount(b, n)) = [blk EXCEPT ![b] = IF IsEntry(b) THEN [blk[b] EXCEPT !.count = n]
                                                       ELSE blk[b]]
BY DEF Apply, PutDdr, Put, Clear, Recount

\* A write that makes no entry leaves a map sound.
LEMMA Erased ==
  ASSUME NEW L \in 1..Size - 1, Placed(L),
         \A c \in 1..L : IsEntry(c)' => IsEntry(c) /\ blk'[c] = blk[c]
  PROVE  Placed(L)' /\ (Ordered(L) => Ordered(L)')
<1>1. Placed(L)'
  BY DEF Placed
<1>2. Ordered(L) => Ordered(L)'
  BY DEF Ordered
<1> QED
  BY <1>1, <1>2

LEMMA InitMap == Init => MapInv
<1> SUFFICES ASSUME Init PROVE MapInv
  OBVIOUS
<1>1. todo = << >> /\ call.op = "none" /\ cut = {} /\ ~Zeroing
  BY DEF Init, Idle, Zeroing
<1>2. ASSUME NEW L \in 1..Size - 1, Placed(L), ~foreign => Ordered(L), Quiet(L)
      PROVE  MapInv
  BY <1>1, <1>2 DEF MapInv, MapOk
<1>3. CASE blk = [b \in 0..Size - 1 |-> Blank] /\ foreign = FALSE
  <2>1. 1 \in 1..Size - 1 /\ \A c \in 1..1 : ~IsEntry(c)
    BY <1>3, Numbers DEF IsEntry, Blank
  <2>2. Placed(1) /\ Ordered(1) /\ Quiet(1)
    BY <1>1, <2>1 DEF Placed, Ordered, Quiet
  <2> QED
    BY <1>2, <2>1, <2>2
<1>4. ASSUME NEW m \in OldMaps, blk = OldMap(m), foreign = TRUE PROVE MapInv
  <2>1. m \in Seq(PartEntry) /\ WellFormed(m) /\ Len(m) \in Nat
    BY MediaAssumption
  <2>2. \A i \in 1..Len(m) : m[i].start \in Nat /\ m[i].len \in Nat /\ m[i].type \in {"map", "free", "hfs"}
    <3>1. \A i \in 1..Len(m) : m[i] \in PartEntry
      BY <2>1
    <3> QED
      BY <3>1, Numbers DEF PartEntry
  <2>3. \A c \in 1..Size - 1 : IsEntry(c) => c <= Len(m)
    BY <1>4, Numbers DEF IsEntry, OldMap, Blank
  <2>4. \A c \in 1..Len(m) : c \in 0..Size - 1 /\ blk[c] = m[c]
    BY <1>4, <2>1, Numbers DEF OldMap, WellFormed
  <2>5. ASSUME NEW L \in 1..Size - 1, L >= Len(m),
               \A i \in 1..Len(m) : m[i].type = "map" => m[i].len = L
        PROVE  MapInv
    <3>1. Placed(L)
      BY <2>1, <2>3, <2>4, <2>5, Numbers DEF Placed, WellFormed
    <3> QED
      BY <1>1, <1>2, <1>4, <3>1 DEF Quiet
  <2>6. ASSUME NEW i \in 1..Len(m), m[i].type = "map" PROVE MapInv
    <3>1. \A j \in 1..Len(m) : m[j].type = "map" => j = i
      BY <2>1, <2>2, <2>6 DEF WellFormed, Apart
    <3>2. m[i].len \in 1..Size - 1 /\ m[i].len >= Len(m)
      BY <2>1, <2>2, <2>6, Numbers DEF WellFormed
    <3> QED
      BY <2>5, <3>1, <3>2
  <2>7. CASE \A i \in 1..Len(m) : m[i].type # "map"
    <3>1. CASE Len(m) = 0
      BY <2>5, <2>7, <3>1, Numbers
    <3>2. CASE Len(m) # 0
      BY <2>1, <2>5, <2>7, <3>2, Numbers DEF WellFormed
    <3> QED
      BY <3>1, <3>2
  <2> QED
    BY <2>6, <2>7
<1> QED
  BY <1>3, <1>4 DEF Init

-----------------------------------------------------------------------------
(***************************************************************************)
(* hfs_zero, and a call that stops.                                        *)
(***************************************************************************)
LEMMA StopMap == ASSUME MediaInv, MapInv, Stop PROVE MapInv'
<1>1. todo' = << >> /\ call'.op = "none" /\ blk' = blk /\ foreign' = foreign /\ cut' # {}
  BY DEF Stop, Idle
<1>2. Zeroing' = Zeroing
  BY DEF Stop, Zeroing, Idle, MediaInv
<1>3. ASSUME NEW L \in 1..Size - 1, MapOk(L) PROVE MapOk(L)'
  <2>1. Placed(L)' /\ (~foreign' => Ordered(L)')
    BY <1>1, <1>3, Erased DEF MapOk, IsEntry
  <2> QED
    BY <1>1, <2>1 DEF MapOk, Quiet
<1> QED
  BY <1>1, <1>2, <1>3 DEF MapInv

LEMMA ZeroBegins ==
  ASSUME NEW maxparts \in MaxParts, Zero(maxparts)
  PROVE  MapInv'
<1> DEFINE n == 1 + maxparts
           first == <<PutDdr, Put(1, Entry("map", 1, n, 2)), Put(2, Entry("free", 1 + n, Size - 1 - n, 2))>>
           clear == [i \in 1..n - 2 |-> Clear(i + 2)]
           W == {Putting(n, i) : i \in 0..n}
<1>1. n \in 2..Size - 1
  BY MediaAssumption
<1>2. todo' = first \o clear /\ call'.op = "zero"
  BY DEF Zero, Begin
<1>3. Len(first) = 3 /\ first[1] = Putting(n, 0) /\ first[2] = Putting(n, 1) /\ first[3] = Putting(n, 2)
  BY DEF Putting, New
<1>4. Len(clear) = n - 2 /\ \A i \in 1..n - 2 : clear[i] = Putting(n, i + 2)
  <2> HIDE DEF n
  <2> QED
    BY <1>1 DEF Putting
<1>5. first \in Seq(W) /\ clear \in Seq(W)
  <2>1. first \in Seq({Putting(n, i) : i \in 0..n})
    <3>1. first = <<Putting(n, 0), Putting(n, 1), Putting(n, 2)>>
      BY DEF Putting, New
    <3>2. 0 \in 0..n /\ 1 \in 0..n /\ 2 \in 0..n
      BY <1>1
    <3> HIDE DEF first, n
    <3> QED
      BY <3>1, <3>2
  <2>2. \A i \in 1..n - 2 : clear[i] \in {Putting(n, j) : j \in 0..n}
    BY <1>1, <1>4
  <2>3. clear = [i \in 1..n - 2 |-> clear[i]] /\ n - 2 \in Nat
    BY <1>1
  <2> HIDE DEF clear, n
  <2>4. clear \in Seq({Putting(n, i) : i \in 0..n})
    BY <2>2, <2>3
  <2> QED
    BY <2>1, <2>4
<1> HIDE DEF first, clear, n, W
<1>6. Len(todo') = n + 1 /\ \A i \in 1..n + 1 : todo'[i] = Putting(n, i - 1)
  <2>1. /\ Len(first \o clear) = n + 1
        /\ \A i \in 1..n + 1 : (first \o clear)[i] = IF i <= 3 THEN first[i] ELSE clear[i - 3]
    <3>1. /\ Len(first \o clear) = 3 + (n - 2)
          /\ \A i \in 1..3 + (n - 2) : (first \o clear)[i] = IF i <= 3 THEN first[i] ELSE clear[i - 3]
      <4>1. /\ Len(first \o clear) = Len(first) + Len(clear)
            /\ \A i \in 1..Len(first) + Len(clear) :
                 (first \o clear)[i] = IF i <= Len(first) THEN first[i] ELSE clear[i - Len(first)]
        BY <1>5, ConcatProperties, Zenon
      <4> QED
        BY <1>3, <1>4, <4>1
    <3>2. 3 + (n - 2) = n + 1
      BY <1>1, Numbers
    <3> QED
      BY <3>1, <3>2
  <2>2. ASSUME NEW i \in 1..n + 1 PROVE todo'[i] = Putting(n, i - 1)
    <3>0. i \in Nat /\ n \in Nat
      BY <1>1, Numbers
    <3>1. CASE i <= 3
      <4>1. i = 1 \/ i = 2 \/ i = 3
        BY <3>0, <3>1
      <4> QED
        BY <1>2, <1>3, <2>1, <4>1
    <3>2. CASE ~(i <= 3)
      <4>1. i - 3 \in 1..n - 2 /\ (i - 3) + 2 = i - 1
        BY <3>0, <3>2
      <4> QED
        BY <1>2, <1>4, <2>1, <3>2, <4>1
    <3> QED
      BY <3>1, <3>2
  <2> QED
    BY <1>2, <2>1, <2>2
<1>7. Clearing'
  <2>1. \A i \in 1..Len(todo') : todo'[i] = Putting(n, 0 + i - 1)
    BY <1>1, <1>6
  <2>2. 0 \in 0..n /\ Len(todo') = n + 1 - 0 /\ \A j \in 0..0 - 1 : blk'[j] = New(n, j)
    BY <1>1, <1>6
  <2> QED
    BY <1>1, <2>1, <2>2 DEF Clearing
<1>8. todo' # << >>
  BY <1>1, <1>6
<1> QED
  BY <1>2, <1>7, <1>8 DEF MapInv, Zeroing

\* The last write of hfs_zero leaves a whole map.
LEMMA FreshMap ==
  ASSUME NEW n \in 2..Size - 1, \A j \in 1..n : blk'[j] = New(n, j)
  PROVE  Placed(n)' /\ Ordered(n)' /\ Whole(n, 2)'
<1>1. /\ \A j \in 1..n : (IsEntry(j)' <=> j <= 2)
      /\ blk'[1] = Entry("map", 1, n, 2) /\ blk'[2] = Entry("free", 1 + n, Size - 1 - n, 2)
  BY Numbers DEF New, IsEntry, Entry, Blank
<1>2. /\ blk'[1].start = 1 /\ blk'[1].len = n /\ blk'[1].count = 2 /\ blk'[1].type = "map"
      /\ blk'[2].start = 1 + n /\ blk'[2].len = Size - 1 - n /\ blk'[2].count = 2
      /\ blk'[2].type = "free"
  BY <1>1 DEF Entry
<1>3. Placed(n)'
  <2>1. Apart(blk'[1], blk'[2]) /\ Apart(blk'[2], blk'[1])
    BY <1>2 DEF Apart
  <2>2. n \in Nat /\ n >= 2 /\ n <= Size - 1
    BY Numbers
  <2>3. \A c \in 1..n : IsEntry(c)' => c = 1 \/ c = 2
    BY <1>1, <2>2
  <2>4. ASSUME NEW c \in 1..n, NEW d \in 1..n \ {c}, IsEntry(c)', IsEntry(d)'
        PROVE  Apart(blk'[c], blk'[d])
    BY <2>1, <2>3, <2>4
  <2> QED
    BY <1>2, <2>2, <2>3, <2>4, Numbers DEF Placed
<1>4. Ordered(n)'
  <2>1. \A c \in 1..n : IsEntry(c)' => c = 1 \/ c = 2
    BY <1>1, Numbers
  <2> QED
    BY <1>2, <2>1, Numbers DEF Ordered
<1>5. Whole(n, 2)'
  <2>1. \A x \in 1..Size - 1 : x \in Extent(1)' \/ x \in Extent(2)'
    BY <1>2, Numbers DEF Extent
  <2>2. 1 \in 1..2 /\ 2 \in 1..2 /\ \A c \in 1..2 : c = 1 \/ c = 2
    OBVIOUS
  <2> QED
    BY <1>1, <1>2, <2>1, <2>2 DEF Whole, Entire, Covers
<1> QED
  BY <1>3, <1>4, <1>5

LEMMA ZeroWrites == ASSUME MediaInv, MapInv, call.op = "zero", Write PROVE MapInv'
<1>0. PICK n \in 2..Size - 1 : \E k \in 0..n :
        /\ Len(todo) = n + 1 - k
        /\ \A i \in 1..Len(todo) : todo[i] = Putting(n, k + i - 1)
        /\ \A j \in 0..k - 1 : blk[j] = New(n, j)
  BY DEF MapInv, Clearing
<1>1. PICK k \in 0..n :
        /\ Len(todo) = n + 1 - k
        /\ \A i \in 1..Len(todo) : todo[i] = Putting(n, k + i - 1)
        /\ \A j \in 0..k - 1 : blk[j] = New(n, j)
  BY <1>0
<1>2. /\ todo # << >> /\ blk' = Apply(Head(todo)) /\ todo' = Tail(todo)
      /\ call' = IF Len(todo) = 1 THEN Idle ELSE call
      /\ Len(todo) = 1 => cut' = {} /\ foreign' = FALSE
  BY DEF Write
<1>3. blk' = [blk EXCEPT ![k] = New(n, k)]
  <2>1. Head(todo) = Putting(n, k)
    BY <1>1, <1>2, TailOf
  <2> QED
    <3>0. k \in Nat /\ n \in Nat
      BY Numbers
    <3>1. CASE k = 0
      BY <1>2, <2>1, <3>1, Applied DEF Putting, New
    <3>2. CASE k \in {1, 2}
      <4>1. Putting(n, k) = Put(k, New(n, k))
        BY <3>2 DEF Putting
      <4>2. Apply(Put(k, New(n, k))) = [blk EXCEPT ![k] = New(n, k)]
        BY Applied
      <4> QED
        BY <1>2, <2>1, <4>1, <4>2
    <3>3. CASE k > 2
      <4>1. Putting(n, k) = Clear(k) /\ New(n, k) = Blank
        BY <3>0, <3>3 DEF Putting, New
      <4> QED
        BY <1>2, <2>1, <4>1, Applied
    <3> QED
      BY <3>0, <3>1, <3>2, <3>3
<1>4. \A j \in 0..k : blk'[j] = New(n, j)
  BY <1>1, <1>3, Numbers DEF MediaInv
<1>5. /\ Len(todo') = n - k
      /\ \A i \in 1..n - k : todo'[i] = Putting(n, k + i)
  BY <1>1, <1>2, TailOf
<1>6. CASE Len(todo) = 1
  <2>1. k = n /\ todo' = << >> /\ call'.op = "none" /\ cut' = {} /\ foreign' = FALSE
    <3>1. k = n
      <4>1. Len(todo) = n + 1 - k
        BY <1>1
      <4>2. n \in Nat /\ k \in Nat /\ Len(todo) = 1
        BY <1>6, Numbers
      <4>3. n + 1 - k = 1
        BY <4>1, <4>2
      <4> QED
        BY <4>2, <4>3
    <3>2. todo' = << >>
      BY <1>2, <1>6, TailOf
    <3> QED
      BY <1>2, <1>6, <3>1, <3>2 DEF Idle
  <2>2. Placed(n)' /\ Ordered(n)' /\ Whole(n, 2)'
    BY <1>1, <1>4, <2>1, FreshMap
  <2>3. Quiet(n)'
    BY <1>1, <2>1, <2>2 DEF Quiet
  <2> QED
    BY <1>1, <2>1, <2>2, <2>3 DEF MapInv, MapOk
<1>7. CASE Len(todo) # 1
  <2>1. call' = call
    BY <1>2, <1>7
  <2>2. k + 1 \in 0..n
    BY <1>1, <1>2, <1>7, TailOf
  <2>3. \A i \in 1..Len(todo') : todo'[i] = Putting(n, (k + 1) + i - 1)
    BY <1>1, <1>5
  <2>4. Clearing'
    BY <1>1, <1>4, <1>5, <2>2, <2>3 DEF Clearing
  <2>5. todo' # << >>
    BY <1>1, <1>5, <2>2
  <2> QED
    BY <2>1, <2>4, <2>5 DEF MapInv, Zeroing
<1> QED
  BY <1>6, <1>7

-----------------------------------------------------------------------------
(***************************************************************************)
(* The first step of hfs_mkpart.                                           *)
(***************************************************************************)
LEMMA Appended ==
  ASSUME NEW S, NEW x \in S, NEW s \in Seq(S)
  PROVE  LET w == <<x>> \o s
         IN  /\ w \in Seq(S) /\ Len(s) \in Nat /\ Len(w) = Len(s) + 1 /\ w[1] = x
             /\ \A i \in 2..Len(s) + 1 : w[i] = s[i - 1]
<1> DEFINE w == <<x>> \o s
<1>1. <<x>> \in Seq(S) /\ Len(<<x>>) = 1 /\ <<x>>[1] = x /\ Len(s) \in Nat
  OBVIOUS
<1>2. /\ w \in Seq(S) /\ Len(w) = Len(<<x>>) + Len(s)
      /\ \A i \in 1..Len(<<x>>) + Len(s) :
           w[i] = IF i <= Len(<<x>>) THEN <<x>>[i] ELSE s[i - Len(<<x>>)]
  BY <1>1, ConcatProperties, Zenon
<1> HIDE DEF w
<1> QED
  BY <1>1, <1>2 DEF w

LEMMA PartWritesAre ==
  ASSUME NEW b, NEW len, NEW n \in Nat
  PROVE  PartPlan(PartWrites(b, len, n), b, len, n)
<1> DEFINE e == blk[b]
           w == PartWrites(b, len, n)
           x == Put(b, [e EXCEPT !.len = len, !.type = "hfs"])
           y == Put(n + 1, [e EXCEPT !.start = @ + len, !.len = @ - len])
           counts == [i \in 1..n + 1 |-> Recount(i, n + 1)]
           S == {x, y} \cup {Recount(i, n + 1) : i \in 1..n + 1}
<1>1. CASE e.len = len
  <2>1. w = <<x>> \o << >>
    BY <1>1 DEF PartWrites
  <2> HIDE DEF x
  <2>2. <<x>> \o << >> = <<x>>
    OBVIOUS
  <2>3. w = <<x>> /\ Len(<<x>>) = 1 /\ <<x>>[1] = x
    BY <2>1, <2>2
  <2> QED
    BY <1>1, <2>3 DEF x, PartPlan
<1>2. CASE e.len # len
  <2>1. w = <<x>> \o (<<y>> \o counts)
    BY <1>2 DEF PartWrites
  <2>2. /\ counts \in Seq(S) /\ Len(counts) = n + 1
        /\ \A i \in 1..n + 1 : counts[i] = Recount(i, n + 1)
    <3> HIDE DEF x, y
    <3> QED
      OBVIOUS
  <2>3. x \in S /\ y \in S
    OBVIOUS
  <2> HIDE DEF w, x, y, counts, S
  <2>4. /\ <<y>> \o counts \in Seq(S) /\ Len(<<y>> \o counts) = Len(counts) + 1
        /\ (<<y>> \o counts)[1] = y
        /\ \A i \in 2..Len(counts) + 1 : (<<y>> \o counts)[i] = counts[i - 1]
    BY <2>2, <2>3, Appended
  <2> DEFINE u == <<y>> \o counts
  <2>5. u \in Seq(S) /\ Len(u) = n + 2 /\ u[1] = y /\ \A i \in 2..n + 2 : u[i] = counts[i - 1]
    BY <2>2, <2>4
  <2> HIDE DEF u
  <2>6. /\ Len(<<x>> \o u) = Len(u) + 1 /\ (<<x>> \o u)[1] = x
        /\ \A i \in 2..Len(u) + 1 : (<<x>> \o u)[i] = u[i - 1]
    BY <2>3, <2>5, Appended
  <2>7. w = <<x>> \o u
    BY <2>1 DEF u
  <2>8. Len(w) = n + 3 /\ w[1] = x /\ \A i \in 2..n + 3 : w[i] = u[i - 1]
    BY <2>5, <2>6, <2>7
  <2>9. w[2] = y
    BY <2>5, <2>8
  <2>10. ASSUME NEW j \in 3..n + 3 PROVE w[j] = Recount(j - 2, n + 1)
    <3>1. j - 1 \in 2..n + 2 /\ (j - 1) - 1 \in 1..n + 1 /\ (j - 1) - 1 = j - 2 /\ j \in 2..n + 3
      OBVIOUS
    <3>2. w[j] = u[j - 1] /\ u[j - 1] = counts[(j - 1) - 1]
      BY <2>5, <2>8, <3>1
    <3> QED
      BY <2>2, <3>1, <3>2
  <2> QED
    BY <1>2, <2>8, <2>9, <2>10 DEF w, x, y, PartPlan
<1> QED
  BY <1>1, <1>2 DEF PartPlan

LEMMA MkPartBegins ==
  ASSUME MediaInv, MapInv, NEW len \in Lengths, MkPart(len)
  PROVE  MapInv'
<1>1. PICK m \in First(OfType("map")) : \E b \in First({f \in OfType("free") : Fits(f, len)}) :
        /\ blk[b].len = len \/ blk[m].count < blk[m].len
        /\ Begin("mkpart", b, NoVolume, PartWrites(b, len, blk[m].count))
  BY DEF MkPart
<1>2. PICK b \in First({f \in OfType("free") : Fits(f, len)}) :
        /\ blk[b].len = len \/ blk[m].count < blk[m].len
        /\ Begin("mkpart", b, NoVolume, PartWrites(b, len, blk[m].count))
  BY <1>1
<1> DEFINE n == blk[m].count
           e == blk[b]
<1>3. /\ m \in Entries /\ blk[m].type = "map"
      /\ b \in Entries /\ e.type = "free" /\ e.len >= len
  BY DEF First, OfType, Fits
<1>4. /\ todo = << >> /\ call.op = "none" /\ call'.op = "mkpart"
      /\ todo' = PartWrites(b, len, n) /\ UNCHANGED <<blk, foreign, cut>>
  BY <1>2 DEF Begin, MkPart, MapInv
<1>5. ~Zeroing' => ~Zeroing
  BY <1>4 DEF Zeroing
<1>6. ASSUME NEW L \in 1..Size - 1, MapOk(L) PROVE MapOk(L)'
  <2>1. Placed(L) /\ (~foreign => Ordered(L)) /\ Quiet(L)
    BY <1>4, <1>6 DEF MapOk
  <2>2. m \in 1..L /\ b \in 1..L /\ IsEntry(m) /\ IsEntry(b)
    BY <1>3, <2>1, VisibleIn, EntryVisible
  <2>3. /\ n \in 1..L /\ m <= n /\ blk[m].len = L /\ e.len \in Nat /\ e.len <= Size
        /\ len \in 1..Size
    <3>1. n \in Nat /\ e.len \in Nat /\ e.len <= Size
      BY <2>2, EntryAt, Numbers
    <3>2. len \in Nat \ {0}
      BY MediaAssumption
    <3> QED
      BY <1>3, <2>1, <2>2, <3>1, <3>2, Numbers DEF Placed
  <2>4. e.len = len \/ n < L
    BY <1>2, <2>3
  <2>5. ASSUME ~foreign PROVE b <= n /\ blk[1].count = n
    <3>1. Ordered(L) /\ m = 1
      BY <1>3, <2>1, <2>2, <2>5 DEF Ordered
    <3>2. b # 1 /\ b - 1 \in 1..b - 1
      BY <1>3, <2>2, <3>1, Numbers DEF Ordered
    <3>3. IsEntry(b - 1) /\ b - 1 < blk[b - 1].count /\ b - 1 \in 1..L /\ 1 <= b - 1
      BY <1>3, <2>2, <3>2, EntryVisible, Numbers
    <3>4. blk[1].count >= blk[b - 1].count
      BY <2>2, <3>1, <3>3 DEF Ordered
    <3>5. blk[b - 1].count \in Nat /\ b \in Nat
      BY <2>2, <3>3, EntryAt, Numbers
    <3> QED
      BY <2>3, <3>1, <3>3, <3>4, <3>5
  <2>6. ASSUME ~foreign, cut = {} PROVE Whole(L, n)
    <3>1. Ordered(L) /\ m = 1
      BY <1>3, <2>1, <2>2, <2>6 DEF Ordered
    <3>2. PICK T \in 1..L : Whole(L, T)
      BY <2>1, <2>2, <2>6, <3>1 DEF Quiet
    <3>3. blk[1].count = T
      BY <3>2, Numbers DEF Whole
    <3> QED
      BY <3>1, <3>2, <3>3
  <2> DEFINE w == PartWrites(b, len, n)
  <2>7. PartPlan(w, b, len, n)
    <3>1. n \in Nat
      BY <2>3, Numbers
    <3> HIDE DEF n
    <3> QED
      BY <3>1, PartWritesAre
  <2>8. todo' = w
    BY <1>4
  <2> HIDE DEF w
  <2>10. Placed(L)' /\ (~foreign' => Ordered(L)')
    BY <1>4, <2>1, Erased DEF IsEntry
  <2>11. \E x \in 1..n : IsEntry(x) /\ blk[x].type = "map"
    BY <1>3, <2>2, <2>3, Numbers
  <2>13. Cut(L)'
    <3> SUFFICES ASSUME NEW q, q = n PROVE Cut(L)'
      OBVIOUS
    <3>1. PartPlan(todo, b, len, q)'
      BY <1>4, <2>7, <2>8 DEF PartPlan
    <3>3. \E x \in 1..q : IsEntry(x)' /\ blk'[x].type = "map"
      BY <1>4, <2>11 DEF IsEntry
    <3>4. ~foreign' => b <= q /\ blk'[1].count = q
      BY <1>4, <2>5
    <3>5. ~foreign' /\ cut' = {} => Whole(L, q)'
      BY <1>4, <2>6 DEF Whole, Entire, Covers, Extent, IsEntry
    <3>6. IsEntry(b)' /\ blk'[b].type = "free" /\ len <= blk'[b].len
      BY <1>3, <1>4, <2>2, <2>3 DEF IsEntry
    <3>7. blk'[b].len = len \/ q < L
      BY <1>4, <2>4
    <3>8. q \in 1..L
      BY <2>3
    <3> HIDE DEF n, e
    <3>9. Cutting(L, b, len, q)'
      BY <3>1, <3>3, <3>4, <3>5, <3>6, <3>7 DEF Cutting
    <3> QED
      BY <2>2, <2>3, <3>8, <3>9 DEF Cut
  <2> QED
    BY <1>4, <2>10, <2>13 DEF MapOk
<1>7. Zeroing => Zeroing'
  BY <1>4 DEF Zeroing
<1>8. todo' # << >>
  <2>1. n \in Nat
    BY <1>3, EntryVisible, EntryAt
  <2> HIDE DEF n
  <2>2. PartPlan(PartWrites(b, len, n), b, len, n)
    BY <2>1, PartWritesAre
  <2>3. Len(PartWrites(b, len, n)) # 0
    BY <2>1, <2>2 DEF PartPlan
  <2>4. PartWrites(b, len, n) # << >>
    BY <2>3, EmptySeq
  <2> QED
    BY <1>4, <2>4 DEF n
<1> QED
  BY <1>4, <1>5, <1>6, <1>7, <1>8 DEF MapInv

-----------------------------------------------------------------------------
(***************************************************************************)
(* The first step of hfs_format.                                           *)
(***************************************************************************)
LEMMA FormatBegins ==
  ASSUME MediaInv, MapInv, NEW k \in 0..2, NEW by4 \in BOOLEAN, Format(k, by4)
  PROVE  MapInv'
<1>1. PICK g \in Geometry(k) :
        \E ws \in FormatWrites(g) : Begin("format", g.part, Layout(g.start, g.len, by4), ws)
  BY DEF Format
<1>2. PICK ws \in FormatWrites(g) : Begin("format", g.part, Layout(g.start, g.len, by4), ws)
  BY <1>1
<1> DEFINE v == Layout(g.start, g.len, by4)
<1>3. /\ todo = << >> /\ call.op = "none" /\ call' = [op |-> "format", part |-> g.part, vol |-> v]
      /\ todo' = ws /\ UNCHANGED <<blk, foreign, cut>>
  BY <1>2 DEF Begin, Format, MapInv
<1>4. v.start = g.start /\ v.len = g.len
  BY DEF Layout
<1> HIDE DEF v
<1>5. call'.op = "format" /\ call'.part = g.part /\ call'.vol = v
  BY <1>3
<1>6. /\ ws # << >> /\ Len(ws) = 2
      /\ \A i \in 1..2 : ws[i] \in {Claim(g.start, g.start + 1, g.part),
                                    Claim(g.start + 2, g.start + g.len - 1, g.part)}
      /\ \E i \in 1..2 : ws[i] = Claim(g.start, g.start + 1, g.part)
  <2> DEFINE boot == Claim(g.start, g.start + 1, g.part)
             rest == Claim(g.start + 2, g.start + g.len - 1, g.part)
  <2>1. ws = <<boot, rest>> \/ ws = <<rest, boot>>
    BY DEF FormatWrites
  <2> HIDE DEF boot, rest
  <2>2. /\ ws # << >> /\ Len(ws) = 2
        /\ \A i \in 1..2 : ws[i] \in {boot, rest}
        /\ \E i \in 1..2 : ws[i] = boot
    BY <2>1
  <2> QED
    BY <2>2 DEF boot, rest
<1>7. Zeroing' <=> Zeroing
  BY <1>3, <1>5 DEF Zeroing
<1>8. todo' # << >>
  BY <1>3, <1>6
<1>9. ASSUME NEW L \in 1..Size - 1, MapOk(L) PROVE MapOk(L)'
  <2>1. Placed(L) /\ (~foreign => Ordered(L)) /\ Quiet(L)
    BY <1>3, <1>9 DEF MapOk
  <2>2. Placed(L)' /\ (~foreign' => Ordered(L)')
    BY <1>3, <2>1, Erased DEF IsEntry
  <2>3. \/ g.part = 0 /\ g.start = 0 /\ g.len = Size
        \/ \E b \in Nth(k) : g.part = b /\ g.start = blk[b].start /\ g.len = blk[b].len
    BY DEF Geometry
  <2>4. g.len >= MinLen
    BY DEF Geometry
  <2>5. ASSUME NEW b \in Nth(k), g.part = b, g.start = blk[b].start, g.len = blk[b].len
        PROVE  /\ b \in 1..L /\ IsEntry(b) /\ IsEntry(1) /\ blk[b].type = "hfs" /\ b # 0
               /\ g.start \in Nat /\ g.len \in Nat
    <3>1. b \in Entries /\ blk[b].type = "hfs"
      BY DEF Nth, OfType
    <3>2. b \in 1..L /\ IsEntry(b) /\ b # 0
      BY <2>1, <3>1, VisibleIn, EntryVisible
    <3>3. IsEntry(1)
      BY <3>1, <3>2, EntryVisible
    <3>4. blk[b].start \in Nat /\ blk[b].len \in Nat
      <4>1. b \in 1..Size - 1
        BY <3>1, EntryVisible
      <4> QED
        BY <3>2, <4>1, EntryAt
    <3> QED
      BY <2>5, <3>1, <3>2, <3>3, <3>4
  <2>6. g.start \in Nat /\ g.len \in Nat /\ g.len >= 16
    BY <2>3, <2>4, <2>5, Numbers
  <2>7. \A i \in 1..Len(todo') :
          todo'[i].do = "claim" /\ todo'[i].blocks \subseteq v.start..v.start + v.len - 1
    <3>1. SUFFICES ASSUME NEW i \in 1..2
                   PROVE  ws[i].do = "claim" /\ ws[i].blocks \subseteq v.start..v.start + v.len - 1
      BY <1>3, <1>6
    <3>2. CASE ws[i] = Claim(g.start, g.start + 1, g.part)
      BY <1>4, <2>6, <3>2 DEF Claim
    <3>3. CASE ws[i] = Claim(g.start + 2, g.start + g.len - 1, g.part)
      BY <1>4, <2>6, <3>3 DEF Claim
    <3> QED
      BY <1>6, <3>2, <3>3
  <2>8. ASSUME call'.part # 0
        PROVE  /\ v.start >= 1
               /\ \A c \in 1..L \ {call'.part} : IsEntry(c)' => Apart(v, blk'[c])
               /\ ~foreign' => call'.part # 1
               /\ ~foreign' /\ cut' = {} => \E T \in 1..L : Whole(L, T)'
    <3>1. PICK b \in Nth(k) : g.part = b /\ g.start = blk[b].start /\ g.len = blk[b].len
      BY <1>5, <2>3, <2>8
    <3>2. b \in 1..L /\ IsEntry(b) /\ IsEntry(1) /\ blk[b].type = "hfs"
      BY <2>5, <3>1
    <3>3. v.start >= 1
      BY <1>4, <2>1, <3>1, <3>2 DEF Placed
    <3>4. \A c \in 1..L \ {b} : IsEntry(c) => Apart(blk[b], blk[c])
      BY <2>1, <3>2 DEF Placed
    <3>5. \A c \in 1..L \ {b} : IsEntry(c) => Apart(v, blk[c])
      BY <1>4, <3>1, <3>4 DEF Apart
    <3>6. ~foreign => b # 1
      BY <2>1, <3>2 DEF Ordered
    <3>7. ~foreign /\ cut = {} => \E T \in 1..L : Whole(L, T)
      BY <2>1, <3>2 DEF Quiet
    <3>8. \A T \in 1..L : Whole(L, T) => Whole(L, T)'
      BY <1>3 DEF Whole, Entire, Covers, Extent, IsEntry
    <3> QED
      BY <1>3, <1>5, <3>1, <3>3, <3>5, <3>6, <3>7, <3>8 DEF IsEntry
  <2>9. ASSUME call'.part = 0 PROVE \E i \in 1..Len(todo') : todo'[i] = Boot
    <3>1. g.part = 0 /\ g.start = 0
      BY <1>5, <2>3, <2>5, <2>9
    <3> QED
      BY <1>3, <1>6, <3>1 DEF Boot
  <2>10. v.len >= MinLen
    BY <1>4, <2>4
  <2>11. Formatting(L)'
    BY <1>5, <1>8, <2>7, <2>8, <2>9, <2>10 DEF Formatting, Boot, Claim
  <2> QED
    BY <1>3, <1>5, <2>2, <2>11 DEF MapOk
<1> QED
  BY <1>3, <1>5, <1>7, <1>8, <1>9 DEF MapInv

-----------------------------------------------------------------------------
(***************************************************************************)
(* The writes of hfs_mkpart: the counts, the rest, the partition.          *)
(***************************************************************************)
LEMMA Written ==
  ASSUME MediaInv, Write
  PROVE  /\ todo # << >> /\ Len(todo) \in Nat /\ Len(todo) >= 1 /\ todo[1] \in PendingWrite
         /\ blk' = Apply(todo[1])
         /\ Len(todo') = Len(todo) - 1 /\ \A i \in 1..Len(todo) - 1 : todo'[i] = todo[i + 1]
         /\ Len(todo) = 1 => todo' = << >> /\ call'.op = "none"
         /\ Len(todo) # 1 => todo' # << >> /\ call' = call
         /\ call.op # "zero" => foreign' = foreign /\ cut' = cut
<1>1. todo # << >> /\ blk' = Apply(Head(todo)) /\ todo' = Tail(todo)
  BY DEF Write
<1>2. call.op # "zero" => foreign' = foreign /\ cut' = cut
  BY DEF Write
<1>3. /\ Len(todo) = 1 => call'.op = "none"
      /\ Len(todo) # 1 => call' = call
  BY DEF Write, Idle
<1> QED
  BY <1>1, <1>2, <1>3, TailOf

LEMMA EntryIn ==
  ASSUME MediaInv, NEW L \in 1..Size - 1, NEW c \in 1..L, IsEntry(c)
  PROVE  /\ blk[c] \in PartEntry /\ blk[c].type \in {"map", "free", "hfs"} /\ blk[c].start \in Nat
         /\ blk[c].len \in Nat /\ blk[c].len <= Size /\ blk[c].count \in Nat /\ blk[c].is = "entry"
<1>1. c \in 1..Size - 1
  BY Numbers
<1> QED
  BY <1>1, EntryAt

LEMMA Put1 ==
  ASSUME MediaInv, Write, NEW L \in 1..Size - 1, NEW p \in 1..L, NEW r, todo[1] = Put(p, r)
  PROVE  blk'[p] = r /\ \A c \in 1..L \ {p} : blk'[c] = blk[c]
<1>1. blk' = [blk EXCEPT ![p] = r]
  <2>1. blk' = Apply(Put(p, r))
    BY Written
  <2> QED
    BY <2>1, Applied
<1>2. 1..L \subseteq DOMAIN blk
  BY Numbers DEF MediaInv
<1> QED
  BY <1>1, <1>2

LEMMA Recount1 ==
  ASSUME MediaInv, Write, NEW L \in 1..Size - 1, NEW p \in 1..L, NEW n, todo[1] = Recount(p, n)
  PROVE  /\ blk'[p] = IF IsEntry(p) THEN [blk[p] EXCEPT !.count = n] ELSE blk[p]
         /\ \A c \in 1..L \ {p} : blk'[c] = blk[c]
<1>1. blk' = [blk EXCEPT ![p] = IF IsEntry(p) THEN [blk[p] EXCEPT !.count = n] ELSE blk[p]]
  <2>1. blk' = Apply(Recount(p, n))
    BY Written
  <2> QED
    BY <2>1, Applied
<1>2. 1..L \subseteq DOMAIN blk
  BY Numbers DEF MediaInv
<1> QED
  BY <1>1, <1>2

LEMMA CountWrites ==
  ASSUME MediaInv, Write, call.op = "mkpart", NEW L \in 1..Size - 1,
         Placed(L), ~foreign => Ordered(L), Counting(L)
  PROVE  /\ Placed(L)' /\ (~foreign' => Ordered(L)')
         /\ call'.op = "none" => Quiet(L)'
         /\ call'.op # "none" => call'.op = "mkpart" /\ Counting(L)'
<1>1. PICK n \in 1..L - 1 : \E k \in 1..n + 1 :
        /\ Len(todo) = n + 2 - k /\ Recounts(n, k, 1)
        /\ \E m \in 1..L : IsEntry(m) /\ blk[m].type = "map"
        /\ ~foreign => \A c \in 1..L : IsEntry(c) =>
             blk[c].count <= n + 1 /\ (c < k => blk[c].count = n + 1)
        /\ ~foreign /\ cut = {} =>
             /\ Entire(L, n + 1)
             /\ \A x \in 1..Size - 1 : Covers(x, n + 1)
  BY DEF Counting
<1>2. PICK k \in 1..n + 1 :
        /\ Len(todo) = n + 2 - k /\ Recounts(n, k, 1)
        /\ \E m \in 1..L : IsEntry(m) /\ blk[m].type = "map"
        /\ ~foreign => \A c \in 1..L : IsEntry(c) =>
             blk[c].count <= n + 1 /\ (c < k => blk[c].count = n + 1)
        /\ ~foreign /\ cut = {} =>
             /\ Entire(L, n + 1)
             /\ \A x \in 1..Size - 1 : Covers(x, n + 1)
  BY <1>1
<1>3. n \in Nat /\ k \in Nat /\ L \in Nat /\ k <= L /\ n + 1 <= L /\ k >= 1 /\ n >= 1
      /\ k <= n + 1 /\ L < Size /\ k \in 1..L
  BY Numbers
<1>4. todo[1] = Recount(k, n + 1)
  BY <1>2, <1>3, Written DEF Recounts
<1>5. /\ blk'[k] = IF IsEntry(k) THEN [blk[k] EXCEPT !.count = n + 1] ELSE blk[k]
      /\ \A c \in 1..L \ {k} : blk'[c] = blk[c]
  BY <1>3, <1>4, Recount1
<1>6. ASSUME NEW c \in 1..L
      PROVE  /\ IsEntry(c)' <=> IsEntry(c)
             /\ IsEntry(c) =>
                  /\ blk'[c].start = blk[c].start /\ blk'[c].len = blk[c].len
                  /\ blk'[c].type = blk[c].type
                  /\ blk'[c].count = IF c = k THEN n + 1 ELSE blk[c].count
  <2>1. CASE c # k
    BY <1>5, <2>1 DEF IsEntry
  <2>2. CASE c = k /\ ~IsEntry(c)
    BY <1>5, <2>2 DEF IsEntry
  <2>3. CASE c = k /\ IsEntry(c)
    <3>1. blk[k] \in PartEntry
      BY <1>3, <2>3, EntryIn
    <3>2. blk'[k] = [blk[k] EXCEPT !.count = n + 1]
      BY <1>5, <2>3
    <3> QED
      BY <2>3, <3>1, <3>2 DEF PartEntry, IsEntry
  <2> QED
    BY <2>1, <2>2, <2>3
<1>7. Placed(L)'
  <2>1. ASSUME NEW c \in 1..L, IsEntry(c)'
        PROVE  /\ blk'[c].start >= 1 /\ blk'[c].start + blk'[c].len <= Size /\ blk'[c].count <= L
               /\ blk'[c].type = "map" => blk'[c].start = 1 /\ blk'[c].len = L /\ c <= blk'[c].count
    BY <1>3, <1>6, <2>1 DEF Placed
  <2>2. ASSUME NEW c \in 1..L, IsEntry(c)', NEW d \in 1..L \ {c}, IsEntry(d)'
        PROVE  Apart(blk'[c], blk'[d])
    <3>1. Apart(blk[c], blk[d])
      BY <1>6, <2>2 DEF Placed
    <3> QED
      BY <1>6, <2>2, <3>1 DEF Apart
  <2> QED
    BY <2>1, <2>2 DEF Placed
<1>8. ~foreign' => Ordered(L)'
  <2> SUFFICES ASSUME ~foreign PROVE Ordered(L)'
    BY Written
  <2>1. Ordered(L)
    OBVIOUS
  <2>2. ASSUME NEW c \in 1..L, IsEntry(c)' PROVE blk'[c].type = "map" <=> c = 1
    BY <1>6, <2>1, <2>2 DEF Ordered
  <2>3. ASSUME NEW c \in 1..L, IsEntry(c)', NEW d \in 1..L, IsEntry(d)', blk'[c].type = "free"
        PROVE  d <= c
    BY <1>6, <2>1, <2>3 DEF Ordered
  <2>4. ASSUME NEW c \in 1..L, IsEntry(c)', NEW d \in 1..L, IsEntry(d)', c <= d
        PROVE  blk'[c].count >= blk'[d].count
    <3>1. /\ IsEntry(c) /\ IsEntry(d) /\ blk[c].count >= blk[d].count
          /\ blk[c].count \in Nat /\ blk[d].count \in Nat /\ blk[d].count <= n + 1
          /\ c < k => blk[c].count = n + 1
      <4>1. IsEntry(c) /\ IsEntry(d)
        BY <1>6, <2>4
      <4>2. blk[c].count \in Nat /\ blk[d].count \in Nat
        BY <4>1, EntryIn
      <4>3. blk[c].count >= blk[d].count
        BY <2>1, <2>4, <4>1 DEF Ordered
      <4> QED
        BY <1>2, <4>1, <4>2, <4>3
    <3> QED
      BY <1>3, <1>6, <2>4, <3>1
  <2> QED
    BY <2>2, <2>3, <2>4 DEF Ordered
<1>9. ASSUME ~foreign PROVE \A c \in 1..L : IsEntry(c)' =>
        blk'[c].count <= n + 1 /\ (c < k + 1 => blk'[c].count = n + 1)
  <2> SUFFICES ASSUME NEW c \in 1..L, IsEntry(c)'
               PROVE  blk'[c].count <= n + 1 /\ (c < k + 1 => blk'[c].count = n + 1)
    OBVIOUS
  <2>1. IsEntry(c) /\ blk[c].count <= n + 1 /\ (c < k => blk[c].count = n + 1)
    BY <1>2, <1>6, <1>9
  <2>2. blk'[c].count = IF c = k THEN n + 1 ELSE blk[c].count
    BY <1>6, <2>1
  <2> QED
    BY <1>3, <2>1, <2>2
<1>10. ASSUME ~foreign, cut = {}
       PROVE  Entire(L, n + 1)' /\ \A x \in 1..Size - 1 : Covers(x, n + 1)'
  <2>1. Entire(L, n + 1)'
    BY <1>2, <1>6, <1>10 DEF Entire
  <2>2. ASSUME NEW x \in 1..Size - 1 PROVE Covers(x, n + 1)'
    <3>1. PICK c \in 1..n + 1 : x \in Extent(c)
      BY <1>2, <1>10 DEF Covers
    <3>2. c \in 1..L /\ IsEntry(c)
      <4>1. Entire(L, n + 1)
        BY <1>2, <1>10
      <4>2. c \in 1..L /\ c <= n + 1
        BY <1>3
      <4> QED
        BY <4>1, <4>2 DEF Entire
    <3>3. Extent(c)' = Extent(c)
      BY <1>6, <3>2 DEF Extent
    <3> QED
      BY <3>1, <3>3 DEF Covers
  <2> QED
    BY <2>1, <2>2
<1>11. CASE k = n + 1
  <2>1. Len(todo) = 1
    BY <1>2, <1>3, <1>11
  <2>2. todo' = << >> /\ call'.op = "none" /\ foreign' = foreign /\ cut' = cut
    BY <2>1, Written
  <2>3. ASSUME ~foreign, cut = {} PROVE Whole(L, n + 1)'
    <3>1. \A c \in 1..n + 1 : blk'[c].count = n + 1
      BY <1>3, <1>9, <1>10, <1>11, <2>3 DEF Entire
    <3> QED
      BY <1>3, <1>10, <2>3, <3>1 DEF Whole
  <2>4. n + 1 \in 1..L
    BY <1>3
  <2> QED
    BY <1>7, <1>8, <2>2, <2>3, <2>4 DEF Quiet
<1>12. CASE k # n + 1
  <2>1. Len(todo) # 1 /\ Len(todo) - 1 = n + 2 - (k + 1) /\ k + 1 \in 1..n + 1
    <3>1. Len(todo) = n + 2 - k
      BY <1>2
    <3> QED
      BY <1>3, <1>12, <3>1
  <2>2. call' = call /\ foreign' = foreign /\ cut' = cut /\ Len(todo') = n + 2 - (k + 1)
    BY <2>1, Written
  <2>3. Recounts(n, k + 1, 1)'
    <3> SUFFICES ASSUME NEW j \in 1..n + 2 - (k + 1) PROVE todo'[j] = Recount(j - 1 + (k + 1), n + 1)
      BY <2>2 DEF Recounts
    <3>1. todo'[j] = todo[j + 1] /\ j + 1 \in 1..Len(todo) /\ j + 1 - 1 + k = j - 1 + (k + 1)
      BY <1>2, <1>3, <2>1, Written
    <3>2. todo[j + 1] = Recount(j + 1 - 1 + k, n + 1)
      BY <1>2, <3>1 DEF Recounts
    <3> QED
      BY <3>1, <3>2
  <2>4. \E m \in 1..L : IsEntry(m)' /\ blk'[m].type = "map"
    BY <1>2, <1>6
  <2>5. Counting(L)'
    BY <1>9, <1>10, <2>1, <2>2, <2>3, <2>4 DEF Counting
  <2> QED
    BY <1>7, <1>8, <2>2, <2>5
<1> QED
  BY <1>11, <1>12

LEMMA RestWrites ==
  ASSUME MediaInv, Write, call.op = "mkpart", NEW L \in 1..Size - 1,
         Placed(L), ~foreign => Ordered(L), Rest(L)
  PROVE  /\ Placed(L)' /\ (~foreign' => Ordered(L)')
         /\ call' = call /\ todo' # << >> /\ Counting(L)'
<1> DEFINE r == todo[1].entry
<1>1. PICK n \in 1..L - 1 :
    /\ Len(todo) = n + 2 /\ todo[1].do = "entry" /\ todo[1] = Put(n + 1, r) /\ Recounts(n, 1, 2)
    /\ \E m \in 1..n : IsEntry(m) /\ blk[m].type = "map"
    /\ r.type = "free" /\ r.count <= L /\ r.start >= 1 /\ r.start + r.len <= Size
    /\ \A c \in 1..L \ {n + 1} : IsEntry(c) => Apart(r, blk[c])
    /\ ~foreign => \A c \in 1..L : IsEntry(c) =>
         c <= n /\ r.count <= blk[c].count /\ blk[c].count <= n /\ blk[c].type # "free"
    /\ ~foreign /\ cut = {} =>
         /\ Entire(L, n)
         /\ \A x \in 1..Size - 1 : Covers(x, n) \/ x \in r.start..r.start + r.len - 1
  BY DEF Rest
<1>2. n \in Nat /\ L \in Nat /\ n + 1 <= L /\ n >= 1 /\ L < Size /\ n + 1 \in 1..L
  BY Numbers
<1>3. r \in PartEntry
  <2>1. todo[1] \in PendingWrite /\ todo[1].do = "entry"
    BY <1>1, Written
  <2> QED
    BY <2>1 DEF PendingWrite, PutDdr
<1>4. r.is = "entry" /\ r.start \in Nat /\ r.len \in Nat /\ r.count \in Nat
  BY <1>3, Numbers DEF PartEntry
<1>5. todo[1] = Put(n + 1, r)
  BY <1>1
<1> HIDE DEF r
<1>6. blk'[n + 1] = r /\ \A c \in 1..L \ {n + 1} : blk'[c] = blk[c]
  BY <1>2, <1>5, Put1
<1>7. \A c \in 1..L \ {n + 1} : IsEntry(c)' <=> IsEntry(c)
  BY <1>6 DEF IsEntry
<1>8. Placed(L)'
  <2>1. ASSUME NEW c \in 1..L, IsEntry(c)'
        PROVE  /\ blk'[c].start >= 1 /\ blk'[c].start + blk'[c].len <= Size /\ blk'[c].count <= L
               /\ blk'[c].type = "map" => blk'[c].start = 1 /\ blk'[c].len = L /\ c <= blk'[c].count
    <3>1. CASE c = n + 1
      BY <1>1, <1>6, <3>1
    <3>2. CASE c # n + 1
      BY <1>6, <1>7, <2>1, <3>2 DEF Placed
    <3> QED
      BY <3>1, <3>2
  <2>2. ASSUME NEW c \in 1..L, IsEntry(c)', NEW d \in 1..L \ {c}, IsEntry(d)'
        PROVE  Apart(blk'[c], blk'[d])
    <3>1. CASE c = n + 1
      BY <1>1, <1>6, <1>7, <2>2, <3>1
    <3>2. CASE d = n + 1
      <4>1. Apart(r, blk[c]) /\ blk'[c] = blk[c] /\ blk'[d] = r
        BY <1>1, <1>6, <1>7, <2>2, <3>2
      <4> QED
        BY <4>1 DEF Apart
    <3>3. CASE c # n + 1 /\ d # n + 1
      BY <1>6, <1>7, <2>2, <3>3 DEF Placed
    <3> QED
      BY <3>1, <3>2, <3>3
  <2> QED
    BY <2>1, <2>2 DEF Placed
<1>9. /\ Len(todo') = n + 1 /\ todo' # << >> /\ call' = call /\ foreign' = foreign /\ cut' = cut
      /\ Recounts(n, 1, 1)'
  <2>1. Len(todo) = n + 2
    BY <1>1
  <2>2. Len(todo) # 1 /\ Len(todo) - 1 = n + 1
    BY <1>2, <2>1
  <2>3. Len(todo') = n + 1 /\ todo' # << >> /\ call' = call /\ foreign' = foreign /\ cut' = cut
    BY <2>2, Written
  <2>4. ASSUME NEW j \in 1..n + 1 PROVE todo'[j] = Recount(j - 1 + 1, n + 1)
    <3>1. j \in 1..Len(todo) - 1 /\ j + 1 \in 2..Len(todo) /\ j + 1 - 2 + 1 = j - 1 + 1
      BY <1>2, <2>1
    <3>2. todo[j + 1] = Recount(j + 1 - 2 + 1, n + 1)
      BY <1>1, <3>1 DEF Recounts
    <3>3. todo'[j] = todo[j + 1]
      BY <3>1, Written
    <3> QED
      BY <3>1, <3>2, <3>3
  <2> QED
    BY <2>3, <2>4 DEF Recounts
<1>10. ASSUME ~foreign PROVE Ordered(L)'
  <2>1. ASSUME NEW c \in 1..L, IsEntry(c)' PROVE blk'[c].type = "map" <=> c = 1
    <3>1. CASE c = n + 1
      BY <1>1, <1>2, <1>6, <3>1
    <3>2. CASE c # n + 1
      BY <1>6, <1>7, <1>10, <2>1, <3>2 DEF Ordered
    <3> QED
      BY <3>1, <3>2
  <2>2. ASSUME NEW c \in 1..L, IsEntry(c)', c # n + 1
        PROVE  /\ IsEntry(c) /\ blk'[c] = blk[c] /\ c <= n /\ r.count <= blk[c].count
               /\ blk[c].count <= n /\ blk[c].type # "free" /\ blk[c].count \in Nat
    BY <1>1, <1>6, <1>7, <1>10, <2>2, EntryIn
  <2>3. ASSUME NEW c \in 1..L, IsEntry(c)', NEW d \in 1..L, IsEntry(d)', blk'[c].type = "free"
        PROVE  d <= c
    <3>1. c = n + 1
      BY <2>2, <2>3
    <3>2. CASE d = n + 1
      BY <1>2, <3>1, <3>2
    <3>3. CASE d # n + 1
      BY <1>2, <2>2, <2>3, <3>1, <3>3
    <3> QED
      BY <3>2, <3>3
  <2>4. ASSUME NEW c \in 1..L, IsEntry(c)', NEW d \in 1..L, IsEntry(d)', c <= d
        PROVE  blk'[c].count >= blk'[d].count
    <3>1. CASE c = n + 1
      <4>1. d = n + 1
        BY <1>2, <2>2, <2>4, <3>1
      <4> QED
        BY <1>4, <1>6, <3>1, <4>1
    <3>2. CASE c # n + 1 /\ d = n + 1
      BY <1>4, <1>6, <2>2, <2>4, <3>2
    <3>3. CASE c # n + 1 /\ d # n + 1
      BY <1>10, <2>2, <2>4, <3>3 DEF Ordered
    <3> QED
      BY <3>1, <3>2, <3>3
  <2> QED
    BY <2>1, <2>3, <2>4 DEF Ordered
<1>11. PICK m \in 1..n : IsEntry(m) /\ blk[m].type = "map"
  BY <1>1
<1>12. m \in 1..L /\ m # n + 1
  BY <1>2
<1>13. ASSUME ~foreign
       PROVE  \A c \in 1..L : IsEntry(c)' =>
                blk'[c].count <= n + 1 /\ (c < 1 => blk'[c].count = n + 1)
  <2>1. r.count <= n
    <3>1. r.count <= blk[m].count /\ blk[m].count <= n /\ blk[m].count \in Nat
      BY <1>1, <1>11, <1>12, <1>13, EntryIn
    <3> QED
      BY <1>2, <1>4, <3>1
  <2>2. ASSUME NEW c \in 1..L, IsEntry(c)' PROVE blk'[c].count <= n + 1
    <3>1. CASE c = n + 1
      BY <1>2, <1>4, <1>6, <2>1, <3>1
    <3>2. CASE c # n + 1
      <4>1. blk'[c].count <= n /\ blk'[c].count \in Nat
        BY <1>1, <1>6, <1>7, <1>13, <2>2, <3>2, EntryIn
      <4> QED
        BY <1>2, <4>1
    <3> QED
      BY <3>1, <3>2
  <2> QED
    BY <2>2
<1>14. ASSUME ~foreign, cut = {}
       PROVE  Entire(L, n + 1)' /\ \A x \in 1..Size - 1 : Covers(x, n + 1)'
  <2>1. Entire(L, n)
    BY <1>1, <1>14
  <2>2. ASSUME NEW c \in 1..L PROVE IsEntry(c)' <=> c <= n + 1
    <3>1. CASE c = n + 1
      BY <1>2, <1>4, <1>6, <3>1, Numbers DEF IsEntry
    <3>2. CASE c # n + 1
      BY <1>2, <1>7, <2>1, <3>2 DEF Entire
    <3> QED
      BY <3>1, <3>2
  <2>3. ASSUME NEW x \in 1..Size - 1 PROVE Covers(x, n + 1)'
    <3>1. CASE x \in r.start..r.start + r.len - 1
      <4>1. x \in Extent(n + 1)' /\ n + 1 \in 1..n + 1
        BY <1>2, <1>6, <3>1 DEF Extent
      <4> QED
        BY <4>1 DEF Covers
    <3>2. CASE Covers(x, n)
      <4>1. PICK c \in 1..n : x \in Extent(c)
        BY <3>2 DEF Covers
      <4>2. c \in 1..L \ {n + 1} /\ c \in 1..n + 1
        BY <1>2
      <4>3. x \in Extent(c)'
        BY <1>6, <4>1, <4>2 DEF Extent
      <4> QED
        BY <4>2, <4>3 DEF Covers
    <3> QED
      BY <1>1, <1>14, <3>1, <3>2
  <2> QED
    BY <1>2, <2>2, <2>3 DEF Entire
<1>15. Counting(L)'
  <2>1. \E c \in 1..L : IsEntry(c)' /\ blk'[c].type = "map"
    BY <1>6, <1>7, <1>11, <1>12
  <2>2. 1 \in 1..n + 1 /\ Len(todo') = n + 2 - 1
    BY <1>2, <1>9
  <2> QED
    BY <1>9, <1>13, <1>14, <2>1, <2>2 DEF Counting
<1> QED
  BY <1>8, <1>9, <1>10, <1>15

LEMMA CutWrites ==
  ASSUME MediaInv, Write, call.op = "mkpart", NEW L \in 1..Size - 1,
         Placed(L), ~foreign => Ordered(L), Cut(L)
  PROVE  /\ Placed(L)' /\ (~foreign' => Ordered(L)')
         /\ call'.op = "none" => Quiet(L)'
         /\ call'.op # "none" => call'.op = "mkpart" /\ Rest(L)'
<1>1. PICK b \in 1..L, len \in 1..Size, n \in 1..L : Cutting(L, b, len, n)
  BY DEF Cut
<1> DEFINE e == blk[b]
           h == [e EXCEPT !.len = len, !.type = "hfs"]
<1>2. L \in Nat /\ L < Size /\ b \in Nat /\ b >= 1 /\ n \in Nat /\ n >= 1 /\ len \in Nat /\ len >= 1
  BY Numbers
<1>3. /\ IsEntry(b) /\ blk[b].type = "free" /\ len <= blk[b].len
      /\ blk[b].len = len \/ n < L
      /\ \E m \in 1..n : IsEntry(m) /\ blk[m].type = "map"
      /\ PartPlan(todo, b, len, n)
      /\ ~foreign => b <= n /\ blk[1].count = n
      /\ ~foreign /\ cut = {} => Whole(L, n)
  BY <1>1 DEF Cutting
<1>4. e \in PartEntry /\ e.start \in Nat /\ e.len \in Nat /\ e.count \in Nat /\ e.len <= Size
  BY <1>3, EntryIn
<1>5. /\ h.is = "entry" /\ h.type = "hfs" /\ h.start = e.start /\ h.len = len /\ h.count = e.count
  BY <1>4 DEF PartEntry
<1>6. todo[1] = Put(b, h)
  BY <1>3 DEF PartPlan
<1>7. blk'[b] = h /\ \A c \in 1..L \ {b} : blk'[c] = blk[c]
  <2> HIDE DEF h
  <2> QED
    BY <1>6, Put1
<1> HIDE DEF h
<1>8. \A c \in 1..L : IsEntry(c)' <=> IsEntry(c)
  BY <1>2, <1>3, <1>5, <1>7 DEF IsEntry
<1>9. Placed(L)'
  <2>1. ASSUME NEW c \in 1..L, IsEntry(c)'
        PROVE  /\ blk'[c].start >= 1 /\ blk'[c].start + blk'[c].len <= Size /\ blk'[c].count <= L
               /\ blk'[c].type = "map" => blk'[c].start = 1 /\ blk'[c].len = L /\ c <= blk'[c].count
    <3>1. CASE c = b
      <4>1. e.start >= 1 /\ e.start + e.len <= Size /\ e.count <= L
        BY <1>3 DEF Placed
      <4> QED
        BY <1>2, <1>3, <1>4, <1>5, <1>7, <3>1, <4>1, Numbers
    <3>2. CASE c # b
      BY <1>7, <1>8, <2>1, <3>2 DEF Placed
    <3> QED
      BY <3>1, <3>2
  <2>2. \A c \in 1..L \ {b} : IsEntry(c) => Apart(e, blk[c])
    BY <1>3 DEF Placed
  <2>3. ASSUME NEW c \in 1..L \ {b}, IsEntry(c) PROVE Apart(h, blk[c]) /\ Apart(blk[c], h)
    <3>1. blk[c].start \in Nat /\ blk[c].len \in Nat
      BY <2>3, EntryIn
    <3>2. e.start + e.len <= blk[c].start \/ blk[c].start + blk[c].len <= e.start
      BY <2>2, <2>3 DEF Apart
    <3> HIDE DEF e
    <3>3. h.start + h.len <= blk[c].start \/ blk[c].start + blk[c].len <= h.start
      BY <1>2, <1>3, <1>4, <1>5, <3>1, <3>2 DEF e
    <3> QED
      BY <3>3 DEF Apart
  <2>4. ASSUME NEW c \in 1..L, IsEntry(c)', NEW d \in 1..L \ {c}, IsEntry(d)'
        PROVE  Apart(blk'[c], blk'[d])
    <3>1. CASE c = b
      BY <1>7, <1>8, <2>3, <2>4, <3>1
    <3>2. CASE d = b
      BY <1>7, <1>8, <2>3, <2>4, <3>2
    <3>3. CASE c # b /\ d # b
      BY <1>7, <1>8, <2>4, <3>3 DEF Placed
    <3> QED
      BY <3>1, <3>2, <3>3
  <2> QED
    BY <2>1, <2>4 DEF Placed
<1>10. ASSUME ~foreign
       PROVE  /\ Ordered(L)'
              /\ \A c \in 1..L : IsEntry(c)' =>
                   c <= n /\ e.count <= blk'[c].count /\ blk'[c].count <= n /\ blk'[c].type # "free"
  <2>1. Ordered(L)
    BY <1>10
  <2>2. b # 1 /\ \A c \in 1..L : IsEntry(c) => c <= b
    BY <1>3, <2>1 DEF Ordered
  <2>3. ASSUME NEW c \in 1..L, IsEntry(c)
        PROVE  /\ blk'[c].count = blk[c].count /\ blk'[c].type # "free"
               /\ blk'[c].type = "map" <=> c = 1
    <3>1. CASE c = b
      BY <1>5, <1>7, <2>2, <3>1
    <3>2. CASE c # b
      <4>1. blk[c].type = "map" <=> c = 1
        BY <2>1, <2>3 DEF Ordered
      <4>2. blk[c].type # "free"
        <5> SUFFICES ASSUME blk[c].type = "free" PROVE FALSE
          OBVIOUS
        <5>1. b <= c
          BY <1>3, <2>1, <2>3 DEF Ordered
        <5> QED
          BY <1>2, <2>2, <2>3, <3>2, <5>1
      <4> QED
        BY <1>7, <3>2, <4>1, <4>2
    <3> QED
      BY <3>1, <3>2
  <2>4. Ordered(L)'
    <3>1. ASSUME NEW c \in 1..L, IsEntry(c)' PROVE blk'[c].type = "map" <=> c = 1
      BY <1>8, <2>3, <3>1
    <3>2. ASSUME NEW c \in 1..L, IsEntry(c)', NEW d \in 1..L, IsEntry(d)', blk'[c].type = "free"
          PROVE  d <= c
      BY <1>8, <2>3, <3>2
    <3>3. ASSUME NEW c \in 1..L, IsEntry(c)', NEW d \in 1..L, IsEntry(d)', c <= d
          PROVE  blk'[c].count >= blk'[d].count
      <4>1. blk[c].count >= blk[d].count
        BY <1>8, <2>1, <3>3 DEF Ordered
      <4> QED
        BY <1>8, <2>3, <3>3, <4>1
    <3> QED
      BY <3>1, <3>2, <3>3 DEF Ordered
  <2>5. IsEntry(1) /\ blk[1].count = n /\ 1 \in 1..L
    <3>1. PICK m \in 1..n : IsEntry(m) /\ blk[m].type = "map"
      BY <1>3
    <3>2. m = 1
      BY <1>2, <2>1, <3>1 DEF Ordered
    <3> QED
      BY <1>2, <1>3, <1>10, <3>1, <3>2
  <2>6. ASSUME NEW c \in 1..L, IsEntry(c)
        PROVE  c <= n /\ e.count <= blk[c].count /\ blk[c].count <= n
    <3>1. c <= b /\ b <= n
      BY <1>3, <1>10, <2>2, <2>6
    <3>2. blk[c].count >= blk[b].count
      BY <1>3, <2>1, <2>6, <3>1 DEF Ordered
    <3>3. blk[1].count >= blk[c].count
      BY <1>2, <2>1, <2>5, <2>6 DEF Ordered
    <3>4. blk[c].count \in Nat
      BY <2>6, EntryIn
    <3> QED
      BY <1>2, <1>4, <2>5, <3>1, <3>2, <3>3, <3>4
  <2> QED
    BY <1>8, <2>3, <2>4, <2>6
<1>11. CASE e.len = len
  <2>1. Len(todo) = 1
    BY <1>3, <1>11 DEF PartPlan
  <2>2. todo' = << >> /\ call'.op = "none" /\ foreign' = foreign /\ cut' = cut
    BY <2>1, Written
  <2>3. ASSUME ~foreign, cut = {} PROVE Whole(L, n)'
    <3>1. Whole(L, n)
      BY <1>3, <2>3
    <3>2. \A c \in 1..n : c \in 1..L /\ blk'[c].count = blk[c].count /\ Extent(c)' = Extent(c)
      <4> SUFFICES ASSUME NEW c \in 1..n
                   PROVE  c \in 1..L /\ blk'[c].count = blk[c].count /\ Extent(c)' = Extent(c)
        OBVIOUS
      <4>1. c \in 1..L
        BY <1>2
      <4>2. CASE c = b
        BY <1>5, <1>7, <1>11, <4>1, <4>2 DEF Extent
      <4>3. CASE c # b
        BY <1>7, <4>1, <4>3 DEF Extent
      <4> QED
        BY <4>1, <4>2, <4>3
    <3>3. Entire(L, n)'
      BY <1>8, <3>1 DEF Whole, Entire
    <3>4. \A x \in 1..Size - 1 : Covers(x, n)'
      BY <3>1, <3>2 DEF Whole, Covers
    <3> QED
      BY <3>1, <3>2, <3>3, <3>4 DEF Whole
  <2> QED
    BY <1>9, <1>10, <2>2, <2>3 DEF Quiet
<1>12. CASE e.len # len
  <2> DEFINE r == [e EXCEPT !.start = @ + len, !.len = @ - len]
  <2>1. /\ r.is = "entry" /\ r.type = "free" /\ r.start = e.start + len /\ r.len = e.len - len
        /\ r.count = e.count
    BY <1>3, <1>4 DEF PartEntry
  <2>2. /\ Len(todo) = n + 3 /\ todo[2] = Put(n + 1, r)
        /\ \A j \in 3..n + 3 : todo[j] = Recount(j - 2, n + 1)
    BY <1>3, <1>12 DEF PartPlan
  <2> HIDE DEF r
  <2>3. Len(todo) # 1 /\ 1 \in 1..Len(todo) - 1 /\ n < L /\ n \in 1..L - 1
    BY <1>2, <1>3, <1>12, <2>2
  <2>4. /\ todo' # << >> /\ call' = call /\ foreign' = foreign /\ cut' = cut
        /\ Len(todo') = n + 2 /\ todo'[1] = Put(n + 1, r)
    <3>1. Len(todo') = Len(todo) - 1 /\ todo'[1] = todo[1 + 1]
      BY <2>3, Written
    <3> QED
      BY <1>2, <2>2, <2>3, <3>1, Written
  <2>5. todo'[1].do = "entry" /\ todo'[1].entry = r
    BY <2>4 DEF Put
  <2>6. Recounts(n, 1, 2)'
    <3> SUFFICES ASSUME NEW j \in 2..n + 2 PROVE todo'[j] = Recount(j - 2 + 1, n + 1)
      BY <2>4 DEF Recounts
    <3>1. j \in 1..Len(todo) - 1 /\ j + 1 \in 3..n + 3 /\ j + 1 - 2 = j - 2 + 1
      BY <1>2, <2>2
    <3>2. todo'[j] = todo[j + 1] /\ todo[j + 1] = Recount(j + 1 - 2, n + 1)
      BY <2>2, <3>1, Written
    <3> QED
      BY <3>1, <3>2
  <2>7. \E m \in 1..n : IsEntry(m)' /\ blk'[m].type = "map"
    <3>1. PICK m \in 1..n : IsEntry(m) /\ blk[m].type = "map"
      BY <1>3
    <3>2. m \in 1..L /\ m # b
      BY <1>2, <1>3, <3>1
    <3> QED
      BY <1>7, <1>8, <3>1, <3>2
  <2>8. r.count <= L /\ r.start >= 1 /\ r.start + r.len <= Size
    <3>1. e.start >= 1 /\ e.start + e.len <= Size /\ e.count <= L
      BY <1>3 DEF Placed
    <3> QED
      BY <1>2, <1>4, <2>1, <3>1, Numbers
  <2>9. ASSUME NEW c \in 1..L, IsEntry(c)' PROVE Apart(r, blk'[c])
    <3>1. CASE c = b
      <4>1. blk'[c].start + blk'[c].len <= r.start
        BY <1>2, <1>4, <1>5, <1>7, <2>1, <3>1
      <4> QED
        BY <4>1 DEF Apart
    <3>2. CASE c # b
      <4>1. Apart(e, blk[c]) /\ IsEntry(c)
        BY <1>3, <1>8, <2>9, <3>2 DEF Placed
      <4>2. blk[c].start \in Nat /\ blk[c].len \in Nat
        BY <4>1, EntryIn
      <4>3. e.start + e.len <= blk[c].start \/ blk[c].start + blk[c].len <= e.start
        BY <4>1 DEF Apart
      <4> HIDE DEF e
      <4>4. r.start + r.len <= blk[c].start \/ blk[c].start + blk[c].len <= r.start
        BY <1>2, <1>3, <1>4, <2>1, <4>2, <4>3
      <4> QED
        BY <1>7, <3>2, <4>4 DEF Apart
    <3> QED
      BY <3>1, <3>2
  <2>10. ASSUME ~foreign, cut = {}
         PROVE  /\ Entire(L, n)'
                /\ \A x \in 1..Size - 1 : Covers(x, n)' \/ x \in r.start..r.start + r.len - 1
    <3>1. Whole(L, n)
      BY <1>3, <2>10
    <3>2. Entire(L, n)'
      BY <1>8, <3>1 DEF Whole, Entire
    <3>3. ASSUME NEW x \in 1..Size - 1, x \notin r.start..r.start + r.len - 1 PROVE Covers(x, n)'
      <4>1. PICK c \in 1..n : x \in Extent(c)
        BY <3>1 DEF Whole, Covers
      <4>2. CASE c = b
        <5>1. x \in e.start..e.start + e.len - 1
          BY <4>1, <4>2 DEF Extent
        <5>2. x \in h.start..h.start + h.len - 1
          BY <1>2, <1>3, <1>4, <1>5, <2>1, <3>3, <5>1, Numbers
        <5>3. x \in Extent(c)'
          BY <1>7, <4>2, <5>2 DEF Extent
        <5> QED
          BY <5>3 DEF Covers
      <4>3. CASE c # b
        <5>1. c \in 1..L
          BY <1>2
        <5>2. x \in Extent(c)'
          BY <1>7, <4>1, <4>3, <5>1 DEF Extent
        <5> QED
          BY <5>2 DEF Covers
      <4> QED
        BY <4>2, <4>3
    <3> QED
      BY <3>2, <3>3
  <2>11. Rest(L)'
    <3>1. ~foreign' => \A c \in 1..L : IsEntry(c)' =>
            c <= n /\ r.count <= blk'[c].count /\ blk'[c].count <= n /\ blk'[c].type # "free"
      BY <1>10, <2>1, <2>4
    <3>2. ~foreign' /\ cut' = {} =>
            /\ Entire(L, n)'
            /\ \A x \in 1..Size - 1 : Covers(x, n)' \/ x \in r.start..r.start + r.len - 1
      BY <2>4, <2>10
    <3>3. \A c \in 1..L \ {n + 1} : IsEntry(c)' => Apart(r, blk'[c])
      BY <2>9
    <3>4. r.type = "free"
      BY <2>1
    <3> QED
      BY <2>3, <2>4, <2>5, <2>6, <2>7, <2>8, <3>1, <3>2, <3>3, <3>4 DEF Rest
  <2> QED
    BY <1>9, <1>10, <2>4, <2>11
<1> QED
  BY <1>11, <1>12

-----------------------------------------------------------------------------
(***************************************************************************)
(* The writes of hfs_format.                                               *)
(***************************************************************************)
LEMMA FormatWritesOn ==
  ASSUME MediaInv, Write, call.op = "format", NEW L \in 1..Size - 1,
         Placed(L), ~foreign => Ordered(L), Formatting(L)
  PROVE  /\ Placed(L)' /\ (~foreign' => Ordered(L)')
         /\ call'.op = "none" => Quiet(L)'
         /\ call'.op # "none" => call'.op = "format" /\ Formatting(L)'
<1> DEFINE v == call.vol
           w == todo[1]
<1>1. /\ v.len >= MinLen
      /\ \A i \in 1..Len(todo) : todo[i].do = "claim" /\ todo[i].blocks \subseteq v.start..v.start + v.len - 1
      /\ call.part # 0 =>
           /\ v.start >= 1
           /\ \A c \in 1..L \ {call.part} : IsEntry(c) => Apart(v, blk[c])
           /\ ~foreign => call.part # 1
           /\ ~foreign /\ cut = {} => \E T \in 1..L : Whole(L, T)
      /\ ~foreign /\ cut = {} /\ call.part = 0 => ~IsEntry(1) \/ \E i \in 1..Len(todo) : todo[i] = Boot
  BY DEF Formatting
<1>2. v.start \in Nat /\ v.len \in Nat
  <2>1. PICK start \in Nat, len \in Nat, by4 \in BOOLEAN : v = Layout(start, len, by4)
    BY DEF MediaInv, FormatsVolume
  <2> QED
    BY <2>1 DEF Layout
<1>3. Len(todo) \in Nat /\ Len(todo) >= 1 /\ foreign' = foreign /\ cut' = cut
  BY Written
<1>4. w.do = "claim" /\ w.blocks \subseteq v.start..v.start + v.len - 1
  BY <1>1, <1>3
<1>5. 1 \in 1..L /\ 1..L \subseteq 0..Size - 1 /\ L \in Nat
  BY Numbers
<1> HIDE DEF v, w
<1>6. blk' = [b \in 0..Size - 1 |-> IF b \in w.blocks THEN Of(w.part) ELSE blk[b]]
  <2>1. blk' = Apply(w) /\ DOMAIN blk = 0..Size - 1
    BY Written DEF w, MediaInv
  <2> QED
    BY <1>4, <2>1 DEF Apply
<1>7. ASSUME NEW c \in 1..L
      PROVE  /\ c \in w.blocks => ~IsEntry(c)'
             /\ c \notin w.blocks => blk'[c] = blk[c] /\ (IsEntry(c)' <=> IsEntry(c))
             /\ IsEntry(c)' => IsEntry(c) /\ blk'[c] = blk[c]
  BY <1>5, <1>6 DEF IsEntry, Of
<1>8. Placed(L)' /\ (~foreign' => Ordered(L)')
  BY <1>3, <1>7, Erased
<1>9. ASSUME call.part # 0, ~foreign, cut = {} PROVE \E T \in 1..L : Whole(L, T)'
  <2>1. PICK T \in 1..L : Whole(L, T)
    BY <1>1, <1>9
  <2>2. IsEntry(1) /\ blk[1].type = "map"
    BY <1>5, <1>9, <2>1 DEF Whole, Entire, Ordered
  <2>3. blk[1].start = 1 /\ blk[1].len = L
    BY <1>5, <2>2 DEF Placed
  <2>4. Apart(v, blk[1])
    BY <1>1, <1>5, <1>9, <2>2
  <2>5. v.start >= 1 + L
    BY <1>1, <1>2, <1>5, <1>9, <2>3, <2>4, Numbers DEF Apart
  <2>6. \A c \in 1..L : c \notin w.blocks
    BY <1>2, <1>4, <1>5, <2>5
  <2>7. \A c \in 1..L : blk'[c] = blk[c] /\ (IsEntry(c)' <=> IsEntry(c))
    BY <1>7, <2>6
  <2>8. \A c \in 1..T : c \in 1..L /\ blk'[c] = blk[c] /\ Extent(c)' = Extent(c)
    BY <1>5, <2>7 DEF Extent
  <2>9. Entire(L, T)'
    BY <2>1, <2>7 DEF Whole, Entire
  <2>10. \A x \in 1..Size - 1 : Covers(x, T)'
    BY <2>1, <2>8 DEF Whole, Covers
  <2>11. Whole(L, T)'
    BY <2>1, <2>8, <2>9, <2>10 DEF Whole
  <2> QED
    BY <2>11
<1>10. ASSUME call.part = 0, ~foreign, cut = {}, ~(\E i \in 2..Len(todo) : todo[i] = Boot)
       PROVE  ~IsEntry(1)'
  <2>1. CASE ~IsEntry(1)
    BY <1>5, <1>7, <2>1
  <2>2. CASE w = Boot
    <3>1. 1 \in w.blocks
      BY <2>2 DEF Boot, Claim
    <3> QED
      BY <1>5, <1>7, <3>1
  <2> QED
    BY <1>1, <1>3, <1>10, <2>1, <2>2 DEF w
<1>11. CASE Len(todo) = 1
  <2>1. todo' = << >> /\ call'.op = "none"
    BY <1>11, Written
  <2>2. ~foreign' /\ cut' = {} => ~IsEntry(1)' \/ \E T \in 1..L : Whole(L, T)'
    BY <1>3, <1>9, <1>10, <1>11
  <2> QED
    BY <1>8, <2>1, <2>2 DEF Quiet
<1>12. CASE Len(todo) # 1
  <2>1. /\ todo' # << >> /\ call' = call /\ Len(todo') = Len(todo) - 1
        /\ \A i \in 1..Len(todo) - 1 : todo'[i] = todo[i + 1]
    BY <1>12, Written
  <2>2. \A i \in 1..Len(todo') :
          todo'[i].do = "claim" /\ todo'[i].blocks \subseteq v.start..v.start + v.len - 1
    <3> SUFFICES ASSUME NEW i \in 1..Len(todo')
                 PROVE  todo'[i].do = "claim" /\ todo'[i].blocks \subseteq v.start..v.start + v.len - 1
      OBVIOUS
    <3>1. i \in 1..Len(todo) - 1 /\ i + 1 \in 1..Len(todo)
      BY <1>3, <2>1
    <3> QED
      BY <1>1, <2>1, <3>1
  <2>3. call.part # 0 =>
          /\ v.start >= 1
          /\ \A c \in 1..L \ {call.part} : IsEntry(c)' => Apart(v, blk'[c])
          /\ ~foreign => call.part # 1
          /\ ~foreign /\ cut = {} => \E T \in 1..L : Whole(L, T)'
    BY <1>1, <1>7, <1>9
  <2>4. ASSUME ~foreign, cut = {}, call.part = 0
        PROVE  ~IsEntry(1)' \/ \E i \in 1..Len(todo') : todo'[i] = Boot
    <3>1. ASSUME NEW i \in 2..Len(todo), todo[i] = Boot
          PROVE  i - 1 \in 1..Len(todo') /\ todo'[i - 1] = Boot
      <4>1. i - 1 \in 1..Len(todo) - 1 /\ i - 1 + 1 = i
        BY <1>3
      <4> QED
        BY <2>1, <3>1, <4>1
    <3> QED
      BY <1>10, <2>4, <3>1
  <2>5. Boot' = Boot
    BY DEF Boot, Claim
  <2>6. Formatting(L)'
    BY <1>1, <1>3, <2>1, <2>2, <2>3, <2>4, <2>5 DEF Formatting, v
  <2> QED
    BY <1>8, <2>1, <2>6
<1> QED
  BY <1>11, <1>12

-----------------------------------------------------------------------------
(***************************************************************************)
(* The invariant, and what follows from it.                                *)
(***************************************************************************)
LEMMA MkPartWrites ==
  ASSUME MediaInv, Write, call.op = "mkpart", NEW L \in 1..Size - 1, MapOk(L)
  PROVE  MapOk(L)'
<1>1. Placed(L) /\ (~foreign => Ordered(L)) /\ (Cut(L) \/ Rest(L) \/ Counting(L))
  BY DEF MapOk
<1>2. CASE Cut(L)
  BY <1>1, <1>2, CutWrites DEF MapOk
<1>3. CASE Rest(L)
  BY <1>1, <1>3, RestWrites DEF MapOk
<1>4. CASE Counting(L)
  BY <1>1, <1>4, CountWrites DEF MapOk
<1> QED
  BY <1>1, <1>2, <1>3, <1>4

LEMMA FormatOn ==
  ASSUME MediaInv, Write, call.op = "format", NEW L \in 1..Size - 1, MapOk(L)
  PROVE  MapOk(L)'
<1>1. Placed(L) /\ (~foreign => Ordered(L)) /\ Formatting(L)
  BY DEF MapOk
<1> QED
  BY <1>1, FormatWritesOn DEF MapOk

LEMMA WriteMap == ASSUME MediaInv, MapInv, Write PROVE MapInv'
<1>1. CASE call.op = "zero"
  BY <1>1, ZeroWrites
<1>2. CASE call.op # "zero"
  <2>1. call.op \in {"mkpart", "format"}
    BY <1>2, Written DEF MapInv, MediaInv
  <2>2. /\ foreign' = foreign /\ cut' = cut
        /\ (todo' = << >> /\ call'.op = "none") \/ (todo' # << >> /\ call' = call)
    <3>1. CASE Len(todo) = 1
      BY <1>2, <3>1, Written
    <3>2. CASE Len(todo) # 1
      BY <1>2, <3>2, Written
    <3> QED
      BY <3>1, <3>2
  <2>3. Zeroing' <=> Zeroing
    BY <1>2, <2>2 DEF Zeroing
  <2>4. \A L \in 1..Size - 1 : MapOk(L) => MapOk(L)'
    BY <2>1, MkPartWrites, FormatOn
  <2>5. call'.op = "none" <=> todo' = << >>
    BY <2>1, <2>2
  <2>6. call'.op # "zero"
    BY <1>2, <2>2
  <2>7. ~Zeroing' => \E L \in 1..Size - 1 : MapOk(L)'
    BY <2>3, <2>4 DEF MapInv
  <2> QED
    BY <2>5, <2>6, <2>7 DEF MapInv
<1> QED
  BY <1>1, <1>2

LEMMA NextMap == MediaInv /\ MapInv /\ [Next]_vars => MapInv'
<1> SUFFICES ASSUME MediaInv, MapInv, [Next]_vars PROVE MapInv'
  OBVIOUS
<1>1. CASE UNCHANGED vars
  <2>1. UNCHANGED <<blk, todo, call, foreign, cut>>
    BY <1>1 DEF vars
  <2>2. Zeroing' <=> Zeroing
    BY <2>1 DEF Zeroing
  <2>3. ASSUME NEW L \in 1..Size - 1, MapOk(L) PROVE MapOk(L)'
    <3>1. \A T : Whole(L, T) => Whole(L, T)'
      BY <2>1 DEF Whole, Entire, Covers, Extent, IsEntry
    <3>2. Placed(L)' /\ (~foreign' => Ordered(L)')
      BY <2>1, <2>3 DEF MapOk, Placed, Ordered, IsEntry
    <3>3. Quiet(L) => Quiet(L)'
      BY <2>1, <3>1 DEF Quiet, IsEntry
    <3>4. Cut(L) => Cut(L)'
      <4>1. \A b, len, n : Cutting(L, b, len, n) => Cutting(L, b, len, n)'
        BY <2>1, <3>1 DEF Cutting, PartPlan, IsEntry
      <4> QED
        BY <4>1 DEF Cut
    <3>5. Rest(L) => Rest(L)'
      BY <2>1 DEF Rest, Recounts, Entire, Covers, Extent, IsEntry
    <3>6. Counting(L) => Counting(L)'
      BY <2>1 DEF Counting, Recounts, Entire, Covers, Extent, IsEntry
    <3>7. Formatting(L) => Formatting(L)'
      BY <2>1, <3>1 DEF Formatting, IsEntry
    <3> QED
      BY <2>1, <2>3, <3>2, <3>3, <3>4, <3>5, <3>6, <3>7 DEF MapOk
  <2>4. Clearing => Clearing'
    BY <2>1 DEF Clearing
  <2> QED
    BY <2>1, <2>2, <2>3, <2>4 DEF MapInv
<1> QED
  BY <1>1, ZeroBegins, MkPartBegins, FormatBegins, WriteMap, StopMap DEF Next

LEMMA MapInvariance == Spec => []MapInv
BY InitMedia, NextMedia, InitMap, NextMap, PTL DEF Spec

LEMMA Disjoint == ASSUME MediaInv, MapInv PROVE PartitionsDisjoint
<1> SUFFICES ASSUME ~Zeroing
             PROVE  /\ \A b \in Entries : Extent(b) \subseteq 1..Size - 1
                    /\ \A b, c \in Entries : b # c => Extent(b) \cap Extent(c) = {}
                    /\ \A m \in OfType("map") : \A b \in Entries : b \in Extent(m)
  BY DEF PartitionsDisjoint
<1>1. PICK L \in 1..Size - 1 : MapOk(L)
  BY DEF MapInv
<1>2. Placed(L)
  BY <1>1 DEF MapOk
<1>3. ASSUME NEW b \in Entries
      PROVE  /\ b \in 1..L /\ IsEntry(b) /\ blk[b].start \in Nat /\ blk[b].len \in Nat
             /\ blk[b].start >= 1 /\ blk[b].start + blk[b].len <= Size
             /\ \A d \in 1..L \ {b} : IsEntry(d) => Apart(blk[b], blk[d])
             /\ blk[b].type = "map" => blk[b].start = 1 /\ blk[b].len = L
  <2>1. b \in 1..L /\ IsEntry(b)
    BY <1>2, VisibleIn, EntryVisible
  <2>2. blk[b].start \in Nat /\ blk[b].len \in Nat
    BY <2>1, EntryIn
  <2> QED
    BY <1>2, <2>1, <2>2 DEF Placed
<1>4. ASSUME NEW b \in Entries PROVE Extent(b) \subseteq 1..Size - 1
  BY <1>3, Numbers DEF Extent
<1>5. ASSUME NEW b \in Entries, NEW c \in Entries, b # c PROVE Extent(b) \cap Extent(c) = {}
  <2>1. Apart(blk[b], blk[c])
    BY <1>3, <1>5
  <2> QED
    BY <1>3, <2>1 DEF Apart, Extent
<1>6. ASSUME NEW m \in OfType("map"), NEW b \in Entries PROVE b \in Extent(m)
  <2>1. m \in Entries /\ blk[m].type = "map"
    BY DEF OfType
  <2>2. blk[m].start = 1 /\ blk[m].len = L /\ b \in 1..L
    BY <1>3, <2>1
  <2> QED
    BY <2>2, Numbers DEF Extent
<1> QED
  BY <1>4, <1>5, <1>6

LEMMA Accounted == ASSUME MediaInv, MapInv PROVE NothingLost
<1> SUFFICES ASSUME ~foreign, cut = {}, todo = << >>, ~Broken
             PROVE  /\ UNION {Extent(b) : b \in Entries} = 1..Size - 1
                    /\ \A b \in Entries : blk[b].count = Cardinality(Entries)
  BY DEF NothingLost
<1>1. call.op = "none" /\ ~Zeroing
  BY DEF MapInv, Zeroing
<1>2. PICK L \in 1..Size - 1 : MapOk(L)
  BY <1>1 DEF MapInv
<1>3. Placed(L) /\ Quiet(L)
  BY <1>1, <1>2 DEF MapOk
<1>4. IsEntry(1)
  <2>1. PICK b \in Entries : TRUE
    BY DEF Broken
  <2>2. b \in Nat /\ b >= 1 /\ IsEntry(b) /\ \A j \in 1..b - 1 : IsEntry(j)
    BY EntryVisible, Numbers
  <2> QED
    BY <2>2
<1>5. PICK T \in 1..L : Whole(L, T)
  BY <1>3, <1>4 DEF Quiet
<1>6. T \in Nat /\ T >= 1 /\ T <= L /\ L < Size
  BY Numbers
<1>7. /\ \A c \in 1..L : (IsEntry(c) <=> c <= T)
      /\ \A c \in 1..T : blk[c].count = T
      /\ \A x \in 1..Size - 1 : Covers(x, T)
  BY <1>5 DEF Whole, Entire
<1>8. Entries = 1..T
  <2>1. ASSUME NEW b \in Entries PROVE b \in 1..T
    <3>1. b \in 1..L /\ IsEntry(b)
      BY <1>3, VisibleIn, EntryVisible
    <3> QED
      BY <1>6, <1>7, <3>1
  <2>2. ASSUME NEW b \in 1..T PROVE b \in Entries
    <3>1. b \in 1..Size - 1 /\ IsEntry(b)
      BY <1>6, <1>7, Numbers
    <3>2. ASSUME NEW j \in 1..b - 1 PROVE IsEntry(j) /\ j < blk[j].count
      <4>1. j \in 1..T /\ j \in 1..L /\ j < T
        BY <1>6
      <4> QED
        BY <1>7, <4>1
    <3> QED
      BY <3>1, <3>2 DEF Entries, Read
  <2> QED
    BY <2>1, <2>2
<1>9. Cardinality(Entries) = T
  BY <1>6, <1>8, FS_Interval
<1>10. \A b \in Entries : Extent(b) \subseteq 1..Size - 1
  BY <1>1, Disjoint DEF PartitionsDisjoint
<1>11. ASSUME NEW x \in 1..Size - 1 PROVE \E b \in Entries : x \in Extent(b)
  BY <1>7, <1>8 DEF Covers
<1> QED
  BY <1>7, <1>8, <1>9, <1>10, <1>11

\* what an hfs_mkpart leaves before an HFS partition
LEMMA Behind ==
  ASSUME MediaInv, Write, call.op = "mkpart", ~foreign, NEW L \in 1..Size - 1, MapOk(L),
         NEW b \in OfType("hfs"), NEW c \in 1..b
  PROVE  /\ IsEntry(c)' /\ IsEntry(c) /\ blk'[c].type = blk[c].type /\ blk'[c].start = blk[c].start
         /\ blk'[c].len = blk[c].len /\ blk[c].count \in Nat /\ blk'[c].count \in Nat
         /\ blk'[c].count >= blk[c].count
<1>1. Placed(L) /\ Ordered(L) /\ (Cut(L) \/ Rest(L) \/ Counting(L))
  BY DEF MapOk
<1>2. b \in Entries /\ blk[b].type = "hfs"
  BY DEF OfType
<1>3. b \in 1..L /\ IsEntry(b) /\ \A j \in 1..b - 1 : IsEntry(j)
  BY <1>1, <1>2, VisibleIn, EntryVisible
<1>4. c \in 1..L /\ L \in Nat /\ c \in Nat /\ b \in Nat /\ c <= b
  BY <1>3, Numbers
<1>5. IsEntry(c)
  BY <1>3, <1>4
<1>6. blk[c] \in PartEntry /\ blk[c].count \in Nat
  BY <1>4, <1>5, EntryIn
<1>7. ASSUME blk'[c] = blk[c]
      PROVE  /\ IsEntry(c)' /\ blk'[c].type = blk[c].type /\ blk'[c].start = blk[c].start
             /\ blk'[c].len = blk[c].len /\ blk'[c].count \in Nat /\ blk'[c].count >= blk[c].count
  BY <1>5, <1>6, <1>7 DEF IsEntry
<1>8. CASE Cut(L)
  <2>1. PICK p \in 1..L, len \in 1..Size, n \in 1..L : Cutting(L, p, len, n)
    BY <1>8 DEF Cut
  <2>2. IsEntry(p) /\ blk[p].type = "free" /\ PartPlan(todo, p, len, n)
    BY <2>1 DEF Cutting
  <2>3. b <= p /\ b # p
    BY <1>1, <1>2, <1>3, <2>2 DEF Ordered
  <2>4. c # p /\ p \in Nat
    BY <1>4, <2>3
  <2> DEFINE h == [blk[p] EXCEPT !.len = len, !.type = "hfs"]
  <2>5. todo[1] = Put(p, h)
    BY <2>2 DEF PartPlan
  <2> HIDE DEF h
  <2>6. blk'[c] = blk[c]
    <3>1. \A d \in 1..L \ {p} : blk'[d] = blk[d]
      BY <2>5, Put1
    <3> QED
      BY <1>4, <2>4, <3>1
  <2> QED
    BY <1>5, <1>6, <1>7, <2>6
<1>9. CASE Rest(L)
  <2>1. PICK n \in 1..L - 1 :
          /\ todo[1] = Put(n + 1, todo[1].entry)
          /\ \A d \in 1..L : IsEntry(d) => d <= n
    BY <1>9 DEF Rest
  <2>2. c # n + 1 /\ n + 1 \in 1..L
    BY <1>4, <1>5, <2>1
  <2>3. blk'[c] = blk[c]
    <3>1. \A d \in 1..L \ {n + 1} : blk'[d] = blk[d]
      BY <2>1, <2>2, Put1
    <3> QED
      BY <1>4, <2>2, <3>1
  <2> QED
    BY <1>5, <1>6, <1>7, <2>3
<1>10. CASE Counting(L)
  <2>1. PICK n \in 1..L - 1 : \E k \in 1..n + 1 :
          /\ Len(todo) = n + 2 - k /\ Recounts(n, k, 1)
          /\ \A d \in 1..L : IsEntry(d) => blk[d].count <= n + 1
    BY <1>10 DEF Counting
  <2>2. PICK k \in 1..n + 1 :
          /\ Len(todo) = n + 2 - k /\ Recounts(n, k, 1)
          /\ \A d \in 1..L : IsEntry(d) => blk[d].count <= n + 1
    BY <2>1
  <2>3. n \in Nat /\ k \in 1..L
    BY <1>4
  <2>4. todo[1] = Recount(k, n + 1)
    BY <2>2, <2>3, Written DEF Recounts
  <2>5. /\ blk'[k] = IF IsEntry(k) THEN [blk[k] EXCEPT !.count = n + 1] ELSE blk[k]
        /\ \A d \in 1..L \ {k} : blk'[d] = blk[d]
    BY <2>3, <2>4, Recount1
  <2>6. CASE c # k
    BY <1>4, <1>5, <1>6, <1>7, <2>5, <2>6
  <2>7. CASE c = k
    <3>1. blk'[c] = [blk[c] EXCEPT !.count = n + 1] /\ blk[c].count <= n + 1
      BY <1>4, <1>5, <2>2, <2>5, <2>7
    <3> QED
      BY <1>5, <1>6, <2>3, <3>1 DEF PartEntry, IsEntry
  <2> QED
    BY <2>6, <2>7
<1> QED
  BY <1>1, <1>8, <1>9, <1>10

LEMMA NumberKept ==
  ASSUME NEW b \in OfType("hfs"),
         \A c \in 1..b :
           /\ IsEntry(c)' /\ IsEntry(c) /\ blk'[c].type = blk[c].type
           /\ blk[c].count \in Nat /\ blk'[c].count \in Nat /\ blk'[c].count >= blk[c].count
  PROVE  \A k : b \in Nth(k) => b \in Nth(k)'
<1>1. /\ b \in 1..Size - 1 /\ b \in Nat /\ blk[b].type = "hfs"
      /\ \A j \in 1..b - 1 : IsEntry(j) /\ j < blk[j].count
  BY EntryVisible, Numbers DEF OfType
<1>2. ASSUME NEW c \in 1..b
      PROVE  c \in OfType("hfs") <=> c \in OfType("hfs")'
  <2>1. c \in 1..Size - 1 /\ IsEntry(c) /\ IsEntry(c)' /\ blk'[c].type = blk[c].type
    BY <1>1, Numbers
  <2>2. \A j \in 1..c - 1 : j \in 1..b /\ j \in 1..b - 1
    BY <1>1
  <2>3. \A j \in 1..c - 1 : IsEntry(j) /\ j < blk[j].count /\ IsEntry(j)' /\ j < blk'[j].count
    BY <1>1, <2>2
  <2>4. c \in Entries /\ c \in Entries'
    BY <2>1, <2>3 DEF Entries, Read
  <2> QED
    BY <2>1, <2>4 DEF OfType
<1>3. {c \in OfType("hfs")' : c <= b} = {c \in OfType("hfs") : c <= b}
  <2>1. ASSUME NEW c, c \in OfType("hfs") PROVE c \in Nat /\ c >= 1
    BY <2>1, EntryVisible, Numbers DEF OfType
  <2>2. ASSUME NEW c, c \in OfType("hfs")' PROVE c \in Nat /\ c >= 1
    BY <2>2, Numbers DEF OfType, Entries, Read
  <2>3. ASSUME NEW c, c \in OfType("hfs") \/ c \in OfType("hfs")', c <= b
        PROVE  c \in OfType("hfs") <=> c \in OfType("hfs")'
    <3>1. c \in Nat /\ c >= 1
      BY <2>1, <2>2, <2>3
    <3>2. c \in 1..b
      BY <1>1, <2>3, <3>1
    <3> QED
      BY <1>2, <3>2
  <2> QED
    BY <2>3
<1>4. b \in OfType("hfs")'
  BY <1>1, <1>2
<1> QED
  BY <1>3, <1>4 DEF Nth

LEMMA Running ==
  ASSUME MapInv, Next, call.op \in {"mkpart", "format"}
  PROVE  Write \/ Stop
<1>1. todo # << >>
  BY DEF MapInv
<1> QED
  BY <1>1 DEF Next, Zero, MkPart, Format, Begin

\* Whatever write was the last one made, the partitions found by a search of the
\* map (m_findpmentry) lie apart on the medium and outside the map; and when a
\* map made by hfs_zero is at rest, each block lies in exactly one of them.
THEOREM MapStaysSound == ASSUME RealSizes PROVE Spec => []MapSound
<1>1. MediaInv /\ MapInv => PartitionsDisjoint /\ NothingLost
  BY Disjoint, Accounted
<1> QED
  BY <1>1, MediaInvariance, MapInvariance, TypeCorrect, PTL DEF MapSound

\* Each write of m_mkpart leaves the HFS partitions of such a map their numbers
\* and places, so that what hfs_nparts and v_geometry say of them stays true.
THEOREM NumbersStay == Spec => NumbersKept
<1>1. MediaInv /\ MapInv /\ [Next]_vars =>
        [~foreign /\ ~Zeroing /\ call.op = "mkpart" =>
           \A k \in 1..NParts : \A b \in Nth(k) :
             /\ b \in Nth(k)'
             /\ blk'[b].start = blk[b].start /\ blk'[b].len = blk[b].len]_vars
  <2> SUFFICES ASSUME MediaInv, MapInv, Next, ~foreign, ~Zeroing, call.op = "mkpart",
                      NEW k \in 1..NParts, NEW b \in Nth(k)
               PROVE  /\ b \in Nth(k)'
                      /\ blk'[b].start = blk[b].start /\ blk'[b].len = blk[b].len
    OBVIOUS
  <2>1. PICK L \in 1..Size - 1 : MapOk(L)
    BY DEF MapInv
  <2>2. b \in OfType("hfs") /\ b \in 1..b
    BY EntryVisible, Numbers DEF Nth, OfType
  <2>3. CASE Write
    <3>1. \A c \in 1..b :
            /\ IsEntry(c)' /\ IsEntry(c) /\ blk'[c].type = blk[c].type /\ blk'[c].start = blk[c].start
            /\ blk'[c].len = blk[c].len /\ blk[c].count \in Nat /\ blk'[c].count \in Nat
            /\ blk'[c].count >= blk[c].count
      BY <2>1, <2>2, <2>3, Behind
    <3>2. b \in Nth(k) => b \in Nth(k)'
      BY <2>2, <3>1, NumberKept
    <3> QED
      BY <2>2, <3>1, <3>2
  <2>4. CASE Stop
    BY <2>4 DEF Stop, Nth, OfType, Entries, Read, IsEntry
  <2> QED
    BY <2>3, <2>4, Running
<1> QED
  BY <1>1, MediaInvariance, MapInvariance, PTL DEF Spec, NumbersKept

LEMMA MapEntry ==
  ASSUME call.op = "mkpart", NEW L \in 1..Size - 1, MapOk(L)
  PROVE  \E m \in 1..L : IsEntry(m) /\ blk[m].type = "map"
<1>1. ASSUME NEW n \in 1..L, \E m \in 1..n : IsEntry(m) /\ blk[m].type = "map"
      PROVE  \E m \in 1..L : IsEntry(m) /\ blk[m].type = "map"
  BY <1>1, Numbers
<1>2. CASE Cut(L)
  BY <1>1, <1>2 DEF Cut, Cutting
<1>3. CASE Rest(L)
  <2>1. PICK n \in 1..L - 1 : \E m \in 1..n : IsEntry(m) /\ blk[m].type = "map"
    BY <1>3 DEF Rest
  <2>2. n \in 1..L
    BY Numbers
  <2> QED
    BY <1>1, <2>1, <2>2
<1>4. CASE Counting(L)
  BY <1>4 DEF Counting
<1> QED
  BY <1>2, <1>3, <1>4 DEF MapOk

\* an hfs_mkpart writes to the map only
LEMMA WritesInMap ==
  ASSUME MediaInv, Write, call.op = "mkpart", NEW L \in 1..Size - 1, MapOk(L), NEW i \in L + 1..Size - 1
  PROVE  blk'[i] = blk[i]
<1>1. i \in 0..Size - 1 /\ i \notin 1..L /\ i \in DOMAIN blk
  BY Numbers DEF MediaInv
<1>2. ASSUME NEW p \in 1..L, NEW r, todo[1] = Put(p, r) PROVE blk'[i] = blk[i]
  <2>1. blk' = Apply(Put(p, r))
    BY <1>2, Written
  <2>2. blk' = [blk EXCEPT ![p] = r]
    BY <2>1, Applied
  <2> QED
    BY <1>1, <2>2
<1>3. ASSUME NEW p \in 1..L, NEW n, todo[1] = Recount(p, n) PROVE blk'[i] = blk[i]
  <2>1. blk' = Apply(Recount(p, n))
    BY <1>3, Written
  <2>2. blk' = [blk EXCEPT ![p] = IF IsEntry(p) THEN [blk[p] EXCEPT !.count = n] ELSE blk[p]]
    BY <2>1, Applied
  <2> QED
    BY <1>1, <2>2
<1>4. CASE Cut(L)
  <2>1. PICK p \in 1..L, len \in 1..Size, n \in 1..L : Cutting(L, p, len, n)
    BY <1>4 DEF Cut
  <2> DEFINE h == [blk[p] EXCEPT !.len = len, !.type = "hfs"]
  <2>2. todo[1] = Put(p, h)
    BY <2>1 DEF Cutting, PartPlan
  <2> HIDE DEF h
  <2> QED
    BY <1>2, <2>2
<1>5. CASE Rest(L)
  <2>1. PICK n \in 1..L - 1 : todo[1] = Put(n + 1, todo[1].entry)
    BY <1>5 DEF Rest
  <2>2. n + 1 \in 1..L
    BY Numbers
  <2> QED
    BY <1>2, <2>1, <2>2
<1>6. CASE Counting(L)
  <2>1. PICK n \in 1..L - 1 : \E k \in 1..n + 1 : Len(todo) = n + 2 - k /\ Recounts(n, k, 1)
    BY <1>6 DEF Counting
  <2>2. PICK k \in 1..n + 1 : Len(todo) = n + 2 - k /\ Recounts(n, k, 1)
    BY <2>1
  <2>3. k \in 1..L /\ n \in Nat
    BY Numbers
  <2>4. todo[1] = Recount(k, n + 1)
    BY <2>2, <2>3, Written DEF Recounts
  <2> QED
    BY <1>3, <2>3, <2>4
<1> QED
  BY <1>4, <1>5, <1>6 DEF MapOk

\* Neither m_mkpart nor the writes of hfs_format to a partition reach a block of
\* another HFS partition, wherever the calls before have stopped.
THEOREM OthersStay == Spec => OthersKept
<1>1. MediaInv /\ MapInv /\ [Next]_vars =>
        [~Zeroing /\ (call.op = "mkpart" \/ (call.op = "format" /\ call.part # 0)) =>
           \A b \in OfType("hfs") \ {call.part} : \A i \in Extent(b) : blk'[i] = blk[i]]_vars
  <2> SUFFICES ASSUME MediaInv, MapInv, Next, ~Zeroing,
                      call.op = "mkpart" \/ (call.op = "format" /\ call.part # 0),
                      NEW b \in OfType("hfs") \ {call.part}, NEW i \in Extent(b)
               PROVE  blk'[i] = blk[i]
    OBVIOUS
  <2>1. PICK L \in 1..Size - 1 : MapOk(L)
    BY DEF MapInv
  <2>2. Placed(L)
    BY <2>1 DEF MapOk
  <2>3. b \in 1..L /\ IsEntry(b) /\ blk[b].type = "hfs"
    BY <2>2, VisibleIn, EntryVisible DEF OfType
  <2>4. /\ blk[b].start \in Nat /\ blk[b].len \in Nat /\ i \in blk[b].start..blk[b].start + blk[b].len - 1
        /\ blk[b].start >= 1 /\ blk[b].start + blk[b].len <= Size /\ i \in 1..Size - 1
    <3>1. blk[b].start \in Nat /\ blk[b].len \in Nat
      BY <2>3, EntryIn
    <3>2. blk[b].start >= 1 /\ blk[b].start + blk[b].len <= Size
      BY <2>2, <2>3 DEF Placed
    <3>3. i \in blk[b].start..blk[b].start + blk[b].len - 1
      BY DEF Extent
    <3> QED
      BY <3>1, <3>2, <3>3, Numbers
  <2>5. CASE Stop
    BY <2>5 DEF Stop
  <2>6. CASE Write /\ call.op = "mkpart"
    <3>1. PICK m \in 1..L : IsEntry(m) /\ blk[m].type = "map"
      BY <2>1, <2>6, MapEntry
    <3>2. m # b /\ blk[m].start = 1 /\ blk[m].len = L /\ Apart(blk[m], blk[b])
      BY <2>2, <2>3, <3>1 DEF Placed
    <3>3. i \in L + 1..Size - 1
      BY <2>4, <3>2, Numbers DEF Apart
    <3> QED
      BY <2>1, <2>6, <3>3, WritesInMap
  <2>7. CASE Write /\ call.op = "format" /\ call.part # 0
    <3> DEFINE v == call.vol
               w == todo[1]
    <3>1. /\ todo # << >> /\ w.do = "claim" /\ w.blocks \subseteq v.start..v.start + v.len - 1
          /\ \A c \in 1..L \ {call.part} : IsEntry(c) => Apart(v, blk[c])
      BY <2>1, <2>7, Written DEF MapOk, Formatting
    <3>2. v.start \in Nat /\ v.len \in Nat
      <4>1. PICK start \in Nat, len \in Nat, by4 \in BOOLEAN : v = Layout(start, len, by4)
        BY <2>7 DEF MediaInv, FormatsVolume
      <4> QED
        BY <4>1 DEF Layout
    <3>3. blk' = Apply(w)
      BY <2>7, Written
    <3> HIDE DEF v, w
    <3>4. Apart(v, blk[b])
      BY <2>3, <3>1
    <3>5. i \notin w.blocks
      <4>1. \/ v.start + v.len <= blk[b].start
            \/ blk[b].start + blk[b].len <= v.start
        BY <3>4 DEF Apart
      <4>2. i \notin v.start..v.start + v.len - 1
        BY <2>4, <3>2, <4>1
      <4> QED
        BY <3>1, <4>2
    <3>6. i \in DOMAIN blk
      BY <2>4, Numbers DEF MediaInv
    <3> QED
      BY <3>1, <3>3, <3>5, <3>6 DEF Apply
  <2> QED
    BY <2>5, <2>6, <2>7, Running
<1> QED
  BY <1>1, MediaInvariance, MapInvariance, PTL DEF Spec, OthersKept
=============================================================================
