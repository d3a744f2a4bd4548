------------------------------- MODULE BinHex -------------------------------
(***************************************************************************)
(* BinHex 4.0 as hcopy writes and reads it (binhex.c, crc.c): bytes are    *)
(* run-length encoded, packed into characters of six bits and laid out in  *)
(* lines.  The static variables of binhex.c are the fields of a record     *)
(* that each operation takes and returns; failures of the UNIX file are    *)
(* Transfer's.                                                             *)
(***************************************************************************)
EXTENDS Integers, Bitwise, SequencesExt

CONSTANTS
  MaxLine,  \* MAXLINELEN
  MaxRun    \* the longest run one mark stands for (0xff)

ASSUME BinHexAssumption ==
  /\ MaxLine \in Nat /\ MaxLine > 1
  /\ MaxRun \in 4..255

HqxHeader == 256 \* the line that announces BinHex, here one character
NewLine == 10
Return == 13
Colon == 58
Mark == 144      \* 0x90: a run length follows

\* the characters that stand for 0..63
EnMap ==
  FlattenSeq([i \in 1..9 |->
    LET r == <<<<33, 45>>, <<48, 54>>, <<56, 57>>, <<64, 78>>, <<80, 86>>,
               <<88, 91>>, <<96, 102>>, <<104, 109>>, <<112, 114>>>>[i]
    IN [j \in 1..r[2] - r[1] + 1 |-> r[1] + j - 1]])

DeMap == [c \in {EnMap[i] : i \in DOMAIN EnMap} |-> (CHOOSE i \in DOMAIN EnMap : EnMap[i] = c) - 1]

IsReturn(c) == c \in {9, NewLine, Return, 32}
-----------------------------------------------------------------------------
(* Checksums *)

Magic ==
  LET Bit(x) == IF x < 32768 THEN 2 * x ELSE (2 * x - 65536) ^^ 4129
      Byte(x) == Bit(Bit(Bit(Bit(Bit(Bit(Bit(Bit(x))))))))
  IN [i \in 0..255 |-> Byte(256 * i)]

CrcBinh(data, crc) ==
  FoldLeft(LAMBDA c, b : ((256 * c + b) % 65536) ^^ Magic[c \div 256], crc, data)

CrcMacb(data, crc) ==
  FoldLeft(LAMBDA c, b : LET d == c ^^ (256 * b)
                         IN  ((256 * d) % 65536) ^^ Magic[d \div 256], crc, data)

Word(n) == <<n \div 256, n % 256>>
-----------------------------------------------------------------------------
(* Encoding *)

\* out: what is written, col: the length of its last line, st, bits: the
\* bits of the last byte that are not written, last, run: the bytes held back
Start == [out |-> <<HqxHeader, NewLine, Colon>>, col |-> 1,
          st |-> 0, bits |-> 0, last |-> 0, run |-> 0, crc |-> 0]

Flushed(e) == [e EXCEPT !.out = Append(@, NewLine), !.col = 0]

Wrapped(e) == IF e.col = MaxLine THEN Flushed(e) ELSE e

Put(e, six) == [e EXCEPT !.out = Append(@, EnMap[six + 1]), !.col = @ + 1]

AddChar(e, c) ==
  LET f == Wrapped(e)
  IN  CASE f.st = 0 -> [Put(f, c \div 4) EXCEPT !.st = 1, !.bits = c % 4]
        [] f.st = 1 -> [Put(f, 16 * f.bits + c \div 16) EXCEPT !.st = 2, !.bits = c % 16]
        [] f.st = 2 -> [Put(Wrapped(Put(f, 4 * f.bits + c \div 64)), c % 64) EXCEPT
                          !.st = 0, !.bits = 0]

\* variant: the mark itself is not escaped
RleUnescaped(b, n) ==
  IF n < 4 THEN [i \in 1..n |-> b] ELSE <<b, Mark, n>>

\* bytes that stand for a run of b
Rle(b, n) ==
  IF n < (IF b = Mark THEN 3 ELSE 4)
  THEN FlattenSeq([i \in 1..n |-> IF b = Mark THEN <<Mark, 0>> ELSE <<b>>])
  ELSE (IF b = Mark THEN <<Mark, 0>> ELSE <<b>>) \o <<Mark, n>>

RleFlush(e) == [FoldLeft(AddChar, e, Rle(e.last, e.run)) EXCEPT !.run = 0]

InsertByte(e, b) ==
  IF e.run > 0 /\ e.last = b /\ e.run # MaxRun
  THEN [e EXCEPT !.run = @ + 1]
  ELSE [RleFlush(e) EXCEPT !.last = b, !.run = 1]

Insert(e, data) == FoldLeft(InsertByte, [e EXCEPT !.crc = CrcBinh(data, @)], data)

InsertCrc(e) == [Insert(e, Word(CrcBinh(<<0, 0>>, e.crc))) EXCEPT !.crc = 0]

\* the characters of the whole file
End(e) ==
  LET f == RleFlush(e)
      g == IF f.st # 0 THEN AddChar(f, 0) ELSE f
  IN  g.out \o <<Colon, NewLine>>
-----------------------------------------------------------------------------
(* Decoding *)

\* the rest of s from the first character that is no white space
Trimmed(s) ==
  LET ink == {i \in DOMAIN s : ~ IsReturn(s[i])}
  IN  IF ink = {} THEN <<>> ELSE SubSeq(s, CHOOSE i \in ink : \A j \in ink : i <= j, Len(s))

\* in: what is left to read, got: the bytes of the last Read; ok: no failure
Open(s) ==
  LET line == {i \in DOMAIN s : s[i] = HqxHeader /\ (i = 1 \/ s[i - 1] \in {NewLine, Return})}
      first == CHOOSE i \in line : \A j \in line : i <= j
      ends == {i \in DOMAIN s : i > first /\ s[i] \in {NewLine, Return}}
      text == Trimmed(SubSeq(s, CHOOSE i \in ends : \A j \in ends : i <= j, Len(s)))
      ok == line # {} /\ ends # {} /\ text # <<>> /\ Head(text) = Colon
  IN  [in |-> IF ok THEN Tail(text) ELSE <<>>, st |-> 0, bits |-> 0, last |-> 0, run |-> 0,
       crc |-> 0, ok |-> ok, got |-> <<>>]

Failed(d) == [d EXCEPT !.ok = FALSE]

\* one character of six bits
SixBits(d, s) ==
  IF s = <<>> \/ Head(s) \notin DOMAIN DeMap
  THEN Failed(d)
  ELSE [d EXCEPT !.in = Tail(s), !.got = <<DeMap[Head(s)]>>]

HqxChar(d) == SixBits(d, Trimmed(d.in))

\* one byte, from the bits that are left and one character (e) or two (f)
Joined(c, f) ==
  IF ~ f.ok THEN f
  ELSE [f EXCEPT !.got = <<4 * c + @[1] \div 16>>, !.st = 1, !.bits = f.got[1] % 16]

Filled(e) ==
  CASE ~ e.ok -> e
    [] e.ok /\ e.st = 0 -> Joined(e.got[1], HqxChar(e))
    [] e.ok /\ e.st = 1 -> [e EXCEPT !.got = <<16 * e.bits + @[1] \div 4>>, !.st = 2, !.bits = e.got[1] % 4]
    [] e.ok /\ e.st = 2 -> [e EXCEPT !.got = <<64 * e.bits + @[1]>>, !.st = 0, !.bits = 0]

NextChar(d) == Filled(HqxChar(d))

RECURSIVE ReadOn(_, _, _)

ReadByte(e, b, n, data) == ReadOn([e EXCEPT !.last = b], n - 1, Append(data, b))

ReadRun(f, n, data) ==
  IF ~ f.ok THEN [f EXCEPT !.got = data]
  ELSE IF f.got[1] = 0 THEN ReadByte(f, Mark, n, data)
  ELSE ReadOn([f EXCEPT !.run = f.got[1] - 1], n, data)

ReadNext(e, n, data) ==
  IF ~ e.ok THEN [e EXCEPT !.got = data]
  ELSE IF e.got[1] # Mark THEN ReadByte(e, e.got[1], n, data)
  ELSE ReadRun(NextChar(e), n, data)

ReadOn(d, n, data) ==
  IF n = 0 THEN [d EXCEPT !.got = data]
  ELSE IF d.run > 0 THEN ReadOn([d EXCEPT !.run = @ - 1], n - 1, Append(data, d.last))
  ELSE ReadNext(NextChar(d), n, data)

Summed(e) == [e EXCEPT !.crc = CrcBinh(e.got, @)]

Read(d, n) == Summed(ReadOn(d, n, <<>>))

\* variant: the checksum is read and not compared
ComparedNot(e, crc) == [e EXCEPT !.crc = 0]

Compared(e, crc) == IF e.got = Word(crc) THEN [e EXCEPT !.crc = 0] ELSE Failed(e)

ReadCrc(d) == Compared(ReadOn(d, 2, <<>>), CrcBinh(<<0, 0>>, d.crc))

\* bh_close finds the end of the file
Closes(d) ==
  LET s == Trimmed(d.in)
      t == IF s # <<>> /\ Head(s) = EnMap[1] THEN Trimmed(Tail(s)) ELSE s
  IN  t # <<>> /\ Head(t) = Colon
=============================================================================
