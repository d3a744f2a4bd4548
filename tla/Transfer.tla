------------------------------ MODULE Transfer ------------------------------
(***************************************************************************)
(* hcopy: files between a mounted HFS volume and a UNIX directory          *)
(* (hcopy.c, copyin.c, copyout.c, charset.c), in the formats MacBinary,    *)
(* BinHex, text and raw, one file after another, while either side may     *)
(* run out of room and the UNIX files are cut, altered or mailed between   *)
(* two commands.                                                           *)
(*                                                                         *)
(* Files are sequences of bytes.  A type, a creator, a length and a date   *)
(* take one byte and the Finder's flags another; an extension is one       *)
(* character of a name.  The volume has a root and one directory in it.    *)
(***************************************************************************)
EXTENDS BinHex

CONSTANTS
  Block,       \* MACB_BLOCKSZ
  Buf,         \* bytes in one buffer of a copy
  MaxName,     \* HFS_MAX_FLEN
  First,       \* the files that the volume has first, by name
  Texts,       \* ... and those of the UNIX directory
  Room,        \* bound: bytes that fit; -1: no new file does
  MaxCommands, \* bound: commands
  MaxHarms     \* bound: times a UNIX file is changed by others

VARIABLES
  hfs,    \* the files of the volume, by <<directory, name>>
  cwd,    \* the volume's current directory
  unix,   \* the files of the UNIX directory
  origin, \* history: what each of these was copied out of
  cmd,    \* the running command
  count   \* bound: commands and changes so far

vars == <<hfs, cwd, unix, origin, cmd, count>>

Root == "root"
Dir == "dir"
DirName == <<100>>

\* the extensions .bin, .hqx, .txt
Bin == 1
Hqx == 2
Txt == 3

TextType == 84
RawType == 63
UnixCreator == 85
Now == 99 \* the clock, abstracted

\* flags of the Finder
OnDesk == 1
Inited == 2
Reserved == 4
Invisible == 8

ASSUME TransferAssumption ==
  /\ Block \in Nat /\ MaxName \in Nat \ {0} /\ Block >= MaxName + 12
  /\ Buf \in Nat \ {0} /\ Buf % Block = 0
  /\ \A n \in DOMAIN First : Len(n) \in 1..MaxName
  /\ (\A r \in Room : r >= -1) /\ MaxCommands \in Nat /\ MaxHarms \in Nat

Idle == [way |-> "none", mode |-> "a", dest |-> <<>>, todo |-> <<>>, result |-> 0]

NoOrigin == [mode |-> "r", name |-> <<>>, file |-> <<>>, state |-> "none"]
-----------------------------------------------------------------------------
(* Text *)

\* the upper half of macroman[], 0 where Latin-1 has no such character
MacRoman ==
  <<196, 197, 199, 201, 209, 214, 220, 225, 224, 226, 228, 227, 229, 231, 233, 232,
    234, 235, 237, 236, 238, 239, 241, 243, 242, 244, 246, 245, 250, 249, 251, 252,
    0,   176, 162, 163, 167, 0,   182, 223, 174, 169, 0,   180, 168, 0,   198, 216,
    0,   177, 0,   0,   165, 181, 0,   0,   0,   0,   0,   170, 186, 0,   230, 248,
    191, 161, 172, 0,   0,   0,   0,   171, 187, 0,   160, 192, 195, 213, 0,   0,
    0,   0,   0,   0,   0,   0,   247, 0,   255, 0,   0,   164, 0,   0,   0,   0,
    0,   183, 0,   0,   0,   194, 202, 193, 203, 200, 205, 206, 207, 204, 211, 212,
    0,   210, 218, 219, 217, 0,   0,   0,   175, 0,   0,   0,   184, 0,   0,   0>>

Subst == 63 \* a substitute text, here one character

Ascii(c) == c < 128 \/ c = HqxHeader

Latin1(data) ==
  [i \in DOMAIN data |->
    LET c == data[i]
    IN  IF Ascii(c) THEN c ELSE IF MacRoman[c - 127] = 0 THEN Subst ELSE MacRoman[c - 127]]

\* Latin-1's own control characters have no substitute
FromLatin1(data) ==
  LET Code(c) == {i \in DOMAIN MacRoman : MacRoman[i] = c}
      Char(c) == IF Ascii(c) THEN <<c>>
                 ELSE IF Code(c) # {} THEN <<127 + CHOOSE i \in Code(c) : TRUE>>
                 ELSE IF c < 160 THEN <<>> ELSE <<Subst>>
  IN  FlattenSeq([i \in DOMAIN data |-> Char(data[i])])
-----------------------------------------------------------------------------
(* From the volume to UNIX *)

RoundUp(n) == ((n + Block - 1) \div Block) * Block

Padded(data, n) == data \o [i \in 1..n - Len(data) |-> 0]

MacHeader(f, name) ==
  LET head == <<0, Len(name)>> \o Padded(name, MaxName + 1)
                \o <<f.type, f.crea, f.flags, Len(f.data), Len(f.rsrc), f.created, f.modified>>
  IN  Padded(head \o Word(CrcMacb(head, 0)), Block)

MacOut(f, name) ==
  MacHeader(f, name) \o Padded(f.data, RoundUp(Len(f.data))) \o Padded(f.rsrc, RoundUp(Len(f.rsrc)))

HqxOut(f, name) ==
  LET head == <<Len(name)>> \o name \o <<0, f.type, f.crea, f.flags, Len(f.data), Len(f.rsrc)>>
      e == InsertCrc(Insert(Start, head))
      g == InsertCrc(Insert(e, f.data))
  IN  End(InsertCrc(Insert(g, f.rsrc)))

TextOut(f) == Latin1(ReplaceAll(f.data, Return, NewLine))

Encoded(mode, f, name) ==
  CASE mode = "m" -> MacOut(f, name)
    [] mode = "b" -> HqxOut(f, name)
    [] mode = "t" -> TextOut(f)
    [] mode = "r" -> f.data

Dotted(name) == \E i \in DOMAIN name : name[i] \in {Bin, Hqx, Txt}

\* the name in UNIX that opensrc suggests
HintOut(mode, name) ==
  ReplaceAll(ReplaceAll(name, 47, 45), 32, 95)
    \o (CASE mode = "m" -> <<Bin>>
          [] mode = "b" -> <<Hqx>>
          [] mode = "t" -> IF Dotted(name) THEN <<>> ELSE <<Txt>>
          [] mode = "r" -> <<>>)

\* variant: the resource fork is overlooked
AutomodeHfsPlain(f) == IF f.type = TextType THEN "t" ELSE "r"

AutomodeHfs(f) ==
  IF f.type = TextType THEN "t" ELSE IF f.rsrc = <<>> THEN "r" ELSE "m"

\* one file; the empty destination is the UNIX directory
CopyOut ==
  LET src == Head(cmd.todo)
      f == hfs[src]
      mode == IF cmd.mode = "a" THEN AutomodeHfs(f) ELSE cmd.mode
      dst == IF cmd.dest = <<>> THEN HintOut(mode, src[2]) ELSE cmd.dest
      all == Encoded(mode, f, src[2])
      whole == IF cmd.mode = "a" /\ cmd.dest = <<>> THEN "auto" ELSE "whole"
      From(ok) == [mode |-> mode, name |-> src[2], file |-> f, state |-> IF ok THEN whole ELSE "cut"]
  IN  /\ cmd.way = "out" /\ cmd.todo # <<>> /\ src \in DOMAIN hfs
      /\ \E room \in Room \ {-1} : \E ok \in {Len(all) <= room} :
           /\ unix' = (dst :> SubSeq(all, 1, IF ok THEN Len(all) ELSE room)) @@ unix
           /\ origin' = (dst :> From(ok)) @@ origin
           /\ cmd' = [cmd EXCEPT !.todo = Tail(@), !.result = IF ok THEN @ ELSE 1]
      /\ UNCHANGED <<hfs, cwd, count>>

\* a directory, a file that is not there, or no new UNIX file
CopyOutFails ==
  LET src == Head(cmd.todo)
  IN  /\ cmd.way = "out" /\ cmd.todo # <<>>
      /\ src \notin DOMAIN hfs \/ -1 \in Room
      /\ cmd' = [cmd EXCEPT !.todo = Tail(@), !.result = 1]
      /\ UNCHANGED <<hfs, cwd, unix, origin, count>>
-----------------------------------------------------------------------------
(* From UNIX to the volume.  A reader returns the name that the file       *)
(* gives, what it says of the file, the bytes of each fork up to the first *)
(* failure (ok: there was none), or Refused.                               *)

Without(flags, bits) ==
  FoldLeft(LAMBDA n, b : IF (n \div b) % 2 = 1 THEN n - b ELSE n, flags, bits)

NewFile(type, crea) ==
  [data |-> <<>>, rsrc |-> <<>>, type |-> type, crea |-> crea, flags |-> 0,
   created |-> Now, modified |-> Now]

Refused == [name |-> <<>>, file |-> NewFile(RawType, UnixCreator), attr |-> <<>>, ok |-> FALSE]

\* the bytes of a fork that fork_macb gets at the beginning of s
MacFork(s, size) ==
  SubSeq(s, 1, IF Len(s) >= RoundUp(size) THEN size ELSE (Len(s) \div Buf) * Buf)

MacIn(s) ==
  LET at == MaxName + 3 \* the last byte of the name's field
      body == SubSeq(s, Block + 1, Len(s))
      dsize == s[at + 4]
      rsize == s[at + 5]
      data == MacFork(body, dsize)
      rsrc == IF Len(data) < dsize THEN <<>>
              ELSE MacFork(SubSeq(body, RoundUp(dsize) + 1, Len(body)), rsize)
  IN  IF \/ Len(s) < Block
         \/ s[1] # 0
         \/ SubSeq(s, at + 8, at + 9) # Word(CrcMacb(SubSeq(s, 1, at + 7), 0))
         \/ s[2] \notin 1..MaxName
         \/ s[3 + s[2]] # 0
      THEN Refused
      ELSE [name |-> SubSeq(s, 3, 2 + s[2]),
            file |-> [NewFile(s[at + 1], s[at + 2]) EXCEPT !.data = data, !.rsrc = rsrc],
            attr |-> <<Without(s[at + 3], <<OnDesk, Inited, Reserved>>), s[at + 6], s[at + 7]>>,
            ok |-> Len(data) = dsize /\ Len(rsrc) = rsize]

\* as many buffers of a fork as can be read, then the checksum
Buffers(d) ==
  IF d.ok THEN [d |-> ReadCrc(d), data |-> d.got]
  ELSE [d |-> d, data |-> SubSeq(d.got, 1, (Len(d.got) \div Buf) * Buf)]

HqxFork(d, size) == IF d.ok THEN Buffers(Read(d, size)) ELSE [d |-> d, data |-> <<>>]

HqxFile(name, head, data, rsrc) ==
  [name |-> name,
   file |-> [NewFile(head[1], head[2]) EXCEPT !.data = data, !.rsrc = rsrc.data],
   attr |-> <<Without(head[3], <<OnDesk, Inited, Invisible>>), Now, Now>>,
   ok |-> rsrc.d.ok /\ Closes(rsrc.d)]

HqxForks(name, head, data) == HqxFile(name, head, data.data, HqxFork(data.d, head[5]))

HqxBody(name, head, h) == IF h.ok THEN HqxForks(name, head, HqxFork(h, head[4])) ELSE Refused

\* the name, a zero, and five bytes of the header
HqxHead(n, b) ==
  IF b.ok /\ b.got[n + 1] = 0
  THEN HqxBody(SubSeq(b.got, 1, n), SubSeq(b.got, n + 2, n + 6), ReadCrc(b))
  ELSE Refused

HqxName(a) ==
  IF a.ok /\ a.got[1] \in 1..MaxName THEN HqxHead(a.got[1], Read(a, a.got[1] + 6)) ELSE Refused

HqxIn(s) == HqxName(Read(Open(s), 1))

\* the name on the volume that opensrc suggests
HintIn(name, ext) ==
  LET dots == {i \in DOMAIN name : name[i] = ext}
      n == IF dots = {} THEN Len(name) ELSE (CHOOSE i \in dots : \A j \in dots : i <= j) - 1
      cut == SubSeq(name, 1, IF n > MaxName THEN MaxName ELSE n)
  IN  ReplaceAll(ReplaceAll(cut, 58, 45), 95, 32)

TextIn(s, name) ==
  [name |-> HintIn(name, Txt), attr |-> <<0, Now, Now>>, ok |-> TRUE,
   file |-> [NewFile(TextType, UnixCreator) EXCEPT
               !.data = FromLatin1(ReplaceAll(s, NewLine, Return))]]

RawIn(s, name) ==
  [name |-> HintIn(name, 0), attr |-> <<0, Now, Now>>, ok |-> TRUE,
   file |-> [NewFile(RawType, UnixCreator) EXCEPT !.data = s]]

AutomodeUnix(name) ==
  CASE Last(name) = Bin -> "m"
    [] Last(name) = Hqx -> "b"
    [] Last(name) = Txt -> "t"
    [] OTHER -> "r"

ModeIn(name) == IF cmd.mode = "a" THEN AutomodeUnix(name) ELSE cmd.mode

Decoded(mode, s, name) ==
  CASE mode = "m" -> MacIn(s)
    [] mode = "b" -> HqxIn(s)
    [] mode = "t" -> TextIn(s, name)
    [] mode = "r" -> RawIn(s, name)

\* the empty path is the current directory
IsDir(path) == path = <<>> \/ (cwd = Root /\ path = DirName)

Opened(path) == IF path = DirName THEN Dir ELSE cwd

\* what fits of a file: its data fork is written first
Fitted(f, room) ==
  LET n == IF Len(f.data) <= room THEN Len(f.data) ELSE room
      m == IF Len(f.rsrc) <= room - n THEN Len(f.rsrc) ELSE room - n
  IN  [f EXCEPT !.data = SubSeq(@, 1, n), !.rsrc = SubSeq(@, 1, m)]

WithAttr(f, attr) == [f EXCEPT !.flags = attr[1], !.created = attr[2], !.modified = attr[3]]

\* variant: it stays there when the file cannot be created
ReturnedIfMade(dst, made) == IF made THEN cwd ELSE dst[1]

\* opendst goes into the directory to create the file there, and returns
Returned(dst, made) == cwd

Create(dst, r) ==
  LET others == [p \in DOMAIN hfs \ {dst} |-> hfs[p]]
      valid == dst # <<Root, DirName>>
  IN  \E room \in Room : \E f \in {Fitted(r.file, room)} : \E ok \in {r.ok /\ f = r.file} :
        /\ hfs' = IF ~ valid THEN hfs
                  ELSE IF room = -1 THEN others
                  ELSE (dst :> IF ok THEN WithAttr(f, r.attr) ELSE f) @@ others
        /\ cmd' = [cmd EXCEPT !.todo = Tail(@), !.result = IF valid /\ room # -1 /\ ok THEN @ ELSE 1]
        /\ cwd' = Returned(dst, valid /\ room # -1)

\* a file whose header is refused
Refuse ==
  /\ cmd' = [cmd EXCEPT !.todo = Tail(@), !.result = 1]
  /\ UNCHANGED <<hfs, cwd>>

Store(r) ==
  \/ r = Refused /\ Refuse
  \/ r # Refused /\ Create(IF IsDir(cmd.dest) THEN <<Opened(cmd.dest), r.name>> ELSE <<cwd, cmd.dest>>, r)

CopyIn ==
  /\ cmd.way = "in" /\ cmd.todo # <<>>
  /\ Store(Decoded(ModeIn(Head(cmd.todo)), unix[Head(cmd.todo)], Head(cmd.todo)))
  /\ UNCHANGED <<unix, origin, count>>
-----------------------------------------------------------------------------
(* Commands, and what others do to the UNIX files *)

Sources(S) == {<<a>> : a \in S} \cup {s \in S \X S : s[1] # s[2]}

\* bound: once a file has been changed, only that file is copied, as what it is
Followed(mode, srcs) ==
  count.harmed # <<>> => srcs = <<count.harmed>> /\ mode = origin[count.harmed].mode

HCopyIn(mode, dest, srcs) ==
  /\ cmd = Idle /\ count.commands < MaxCommands
  /\ Followed(mode, srcs)
  /\ Len(srcs) = 1 \/ IsDir(dest)
  /\ cmd' = [way |-> "in", mode |-> mode, dest |-> dest, todo |-> srcs, result |-> 0]
  /\ count' = [count EXCEPT !.commands = @ + 1]
  /\ UNCHANGED <<hfs, cwd, unix, origin>>

HCopyOut(mode, dest, srcs) ==
  /\ cmd = Idle /\ count.commands < MaxCommands /\ count.harmed = <<>>
  /\ Len(srcs) = 1 \/ dest = <<>>
  /\ cmd' = [way |-> "out", mode |-> mode, dest |-> dest, todo |-> srcs, result |-> 0]
  /\ count' = [count EXCEPT !.commands = @ + 1]
  /\ UNCHANGED <<hfs, cwd, unix, origin>>

\* hfs_umount; the volume starts in the same directory the next time
Finish ==
  /\ cmd # Idle /\ cmd.todo = <<>>
  /\ cmd' = Idle
  /\ cwd' = Root
  /\ UNCHANGED <<hfs, unix, origin, count>>

Harm(name, s, state) ==
  /\ cmd = Idle /\ count.harms < MaxHarms
  /\ unix' = [unix EXCEPT ![name] = s]
  /\ origin' = [origin EXCEPT ![name].state = IF @ = "none" THEN @ ELSE state]
  /\ count' = [count EXCEPT !.harms = @ + 1, !.harmed = name]
  /\ UNCHANGED <<hfs, cwd, cmd>>

Cut(name, n) == n < Len(unix[name]) /\ Harm(name, SubSeq(unix[name], 1, n), "cut")

\* one character becomes another
Alter(name, i, c) ==
  /\ origin[name].state \in {"whole", "auto"} /\ unix[name][i] # c
  /\ Harm(name, [unix[name] EXCEPT ![i] = c], "altered")

\* what mail does to a BinHex file: another line before it, other line ends
Mail(name) ==
  /\ origin[name].mode = "b" /\ origin[name].state \in {"whole", "auto"}
  /\ Harm(name, <<Colon, NewLine>> \o FlattenSeq([i \in DOMAIN unix[name] |->
                  IF unix[name][i] = NewLine THEN <<Return, NewLine>> ELSE <<unix[name][i]>>]),
          origin[name].state)

Init ==
  /\ hfs = [p \in {<<Root, n>> : n \in DOMAIN First} |-> First[p[2]]]
  /\ cwd = Root
  /\ unix = Texts
  /\ origin = [n \in DOMAIN Texts |-> NoOrigin]
  /\ cmd = Idle
  /\ count = [commands |-> 0, harms |-> 0, harmed |-> <<>>]

Step ==
  \/ CopyOut \/ CopyOutFails
  \/ CopyIn
  \/ Finish

Next ==
  \/ Step
  \/ \E mode \in {"m", "b", "t", "r", "a"} :
       \/ \E dest \in {<<>>, DirName} \cup DOMAIN First, srcs \in Sources(DOMAIN unix) :
            HCopyIn(mode, dest, srcs)
       \/ \E dest \in {<<>>} \cup DOMAIN Texts, srcs \in Sources(DOMAIN hfs \cup {<<Root, DirName>>}) :
            HCopyOut(mode, dest, srcs)
  \/ \E name \in DOMAIN unix :
       \/ \E n \in 0..Len(unix[name]) - 1 : Cut(name, n)
       \/ \E i \in DOMAIN unix[name] : Alter(name, i, 64)
       \/ Mail(name)

Spec == Init /\ [][Next]_vars
-----------------------------------------------------------------------------
(* Properties *)

Bytes(f) == {f.type, f.crea, f.flags, f.created, f.modified} \subseteq 0..255

\* cwd is the root whenever no copy is under way, every file of the volume has
\* a name that HFS allows, and every UNIX file has a history.
TypeOK ==
  /\ \A p \in DOMAIN hfs : /\ p[1] \in {Root, Dir} /\ Len(p[2]) \in 1..MaxName
                           /\ p # <<Root, DirName>> /\ Bytes(hfs[p])
  /\ cwd = Root
  /\ DOMAIN origin = DOMAIN unix
  /\ cmd.result \in {0, 1} /\ Len(cmd.todo) \in 0..2

\* what a format keeps of the file f
Kept(mode, f, g) ==
  CASE mode = "m" -> g = [f EXCEPT !.flags = Without(@, <<OnDesk, Inited, Reserved>>)]
    [] mode = "b" -> g = [f EXCEPT !.flags = Without(@, <<OnDesk, Inited, Invisible>>),
                                   !.created = Now, !.modified = Now]
    [] mode = "r" -> g.data = f.data
    [] mode = "t" -> (\A i \in DOMAIN f.data : /\ f.data[i] # NewLine
                                             /\ ~ Ascii(f.data[i]) => MacRoman[f.data[i] - 127] # 0)
                     => g.data = f.data

Unharmed(o) == o.state \in {"whole", "auto"}

ReadAs(o, r) ==
  /\ r.ok /\ Kept(o.mode, o.file, WithAttr(r.file, r.attr))
  /\ o.mode \in {"m", "b"} => r.name = o.name

\* A file that hcopy has written whole is read back by the same format as the
\* file that it was, under its name: "Both forks of the Macintosh file are
\* preserved" (hcopy.1).  Runs, checksums, padding, line breaks and character
\* sets of the writer and of the reader fit each other, also after mail has
\* changed the lines.
ReadsBack ==
  [][\A n \in DOMAIN unix' :
       (n \notin DOMAIN unix \/ unix'[n] # unix[n]) /\ Unharmed(origin'[n]) =>
         ReadAs(origin'[n], Decoded(origin'[n].mode, unix'[n], n))]_vars

\* where the user sees the first file of the command go
Wanted(name) ==
  IF cmd.dest = <<>> THEN <<Root, name>>
  ELSE IF cmd.dest = DirName THEN <<Dir, name>> ELSE <<Root, cmd.dest>>

\* A copy in MacBinary or BinHex that is not reported as failed has put both
\* forks where they belong, whatever was cut off the UNIX file, whichever one
\* character of a BinHex file or of the other's header was altered, and however
\* much room there was.
SuccessIsWhole ==
  [][cmd.way = "in" /\ cmd.todo # <<>> /\ cmd'.result = 0 =>
       LET src == Head(cmd.todo)
           o == origin[src]
           p == Wanted(o.name)
       IN  o.state # "none" /\ o.mode = ModeIn(src) /\ o.mode \in {"m", "b"}
             /\ (o.state = "altered" /\ o.mode = "m"
                   => SubSeq(unix[src], Block + 1, Len(unix[src]))
                      = SubSeq(MacOut(o.file, o.name), Block + 1, Len(unix[src])))
           => /\ p \in DOMAIN hfs'
              /\ hfs'[p].data = o.file.data /\ hfs'[p].rsrc = o.file.rsrc]_vars

\* the names that the first file of the command may ask for
Asked ==
  LET src == Head(cmd.todo)
  IN  {origin[src].name, HintIn(src, 0), HintIn(src, Txt)}

\* A copy touches no file but its own: also when several files are copied into
\* a directory and one of them fails.
OnlyItsTarget ==
  [][cmd.way = "in" /\ cmd.todo # <<>> =>
       \A p \in DOMAIN hfs \cup DOMAIN hfs' :
         \/ p \in DOMAIN hfs \cap DOMAIN hfs' /\ hfs'[p] = hfs[p]
         \/ \E name \in Asked : p = Wanted(name)]_vars

\* A file copied out automatically is copied in again by the format that wrote
\* it, which the extension tells; no fork of it is lost on the way, unless the
\* file is a text.
AutoAgrees ==
  \A n \in DOMAIN unix : origin[n].state = "auto" /\ ~ Dotted(origin[n].name) =>
    /\ AutomodeUnix(n) = origin[n].mode
    /\ origin[n].file.type # TextType /\ origin[n].file.rsrc # <<>> => origin[n].mode \in {"m", "b"}

\* Names and files stay within what each side can hold, and the automatic modes
\* of the two directions agree.
StateSound == TypeOK /\ AutoAgrees
=============================================================================
