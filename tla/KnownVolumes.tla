---------------------------- MODULE KnownVolumes ----------------------------
(***************************************************************************)
(* The commands of hfsutils (hmount, hvol, hcd, hdel, hformat and so on)   *)
(* and what they share: the media, and the file .hcwd in which they keep   *)
(* the list of known volumes between two runs (hcwd.c, hfsutil.c).         *)
(*                                                                         *)
(* A command reads the whole file when it starts, works on its own copy,   *)
(* and at its end truncates the file and writes it anew, even if it has    *)
(* changed nothing: hcwd_init enters what it reads by addent, which marks  *)
(* the table as changed.  Nothing guards the file; a medium is locked      *)
(* while it is open (os/unix.c).  Commands of several shells run side by   *)
(* side, and any of them may be killed.                                    *)
(*                                                                         *)
(* A volume has directories directly below its root and in each of them,   *)
(* or not, one file.  A medium may hold a partition map with a single HFS  *)
(* partition (numbered 1); the medium as a whole is number 0.              *)
(***************************************************************************)
EXTENDS Integers, FiniteSets, SequencesExt

CONSTANTS
  Process, Source, Medium, Empty,
  Label,     \* names of volumes
  Dir, Root,
  Given,     \* directories, with their files, that all volumes have at first
  MaxRuns    \* bound: commands ever started

ASSUME KnownAssumption ==
  /\ Given \subseteq Dir /\ Empty \notin Medium /\ Root \notin Dir /\ Source \cap Label = {}
  /\ MaxRuns \in Nat

VARIABLES
  drive,   \* the medium in each source
  disk,    \* the volume on each medium
  file,    \* .hcwd
  proc,    \* the commands that run
  runs,    \* how many have been started
  meant,   \* history: what the commands that ended have said is known
  breach   \* history: what has happened that the program cannot take

vars == <<drive, disk, file, proc, runs, meant, breach>>

-----------------------------------------------------------------------------
(* The table of known volumes; cur is an index, or 0.                      *)

NoTable == [cur |-> 0, list |-> << >>]

Without(t, i) ==
  [cur |-> IF t.cur > i THEN t.cur - 1 ELSE IF t.cur = i THEN 0 ELSE t.cur,
   list |-> RemoveAt(t.list, i)]

Key(e) == <<e.src, e.part>>
SameAs(t, e) == {i \in DOMAIN t.list : Key(t.list[i]) = Key(e)}
First(is) == CHOOSE i \in is : \A j \in is : i <= j

\* broken variant: a volume that is known already becomes current unchanged
MountedOld(t, e) ==
  LET is == SameAs(t, e)
  IN  IF is = {} THEN [cur |-> Len(t.list) + 1, list |-> Append(t.list, e)]
      ELSE [t EXCEPT !.cur = First(is)]

\* hcwd_mounted
Mounted(t, e) ==
  LET is == SameAs(t, e)
  IN  IF is = {} THEN [cur |-> Len(t.list) + 1, list |-> Append(t.list, e)]
      ELSE [cur |-> First(is), list |-> [t.list EXCEPT ![First(is)] = e]]

\* the volumes that a name or a path stands for
Called(t, x) == {i \in DOMAIN t.list : x \in {t.list[i].src, t.list[i].vname}}

-----------------------------------------------------------------------------
(* Commands.                                                               *)

Command ==
  [op : {"hmount"}, src : Source]
  \cup [op : {"hformat"}, src : Source, label : Label]
  \cup [op : {"hvol"}, vol : Source \cup Label]
  \cup [op : {"humount"}, vol : Source \cup Label \cup {"current"}]
  \cup [op : {"hcd"}, dir : Dir \cup {Root}]
  \cup [op : {"hmkdir", "hrmdir"}, dir : Dir]
  \cup {[op |-> "hrename", from |-> d, to |-> e] : d, e \in Dir}
  \cup [op : {"hdel", "hls"}]

Reads == {"hcd", "hls"}
Probes == {"hmount", "hformat"}

Idle == [pc |-> "idle"]

\* a command that has changed nothing of what is known
Silent == [what |-> "nothing"]

\* a process and what it holds: p.src and p.mode while a medium is open
Holds(q, s) == proc[q].pc = "work" /\ proc[q].src = s
CanOpen(p, s, mode) ==
  /\ drive[s] # Empty
  /\ \A q \in Process \ {p} :
       Holds(q, s) => mode = "read" /\ proc[q].mode = "read"

\* HFS_MODE_ANY falls back on reading
OpenedAs(p, s, any) ==
  IF any /\ CanOpen(p, s, "write") THEN "write"
  ELSE IF CanOpen(p, s, "read") THEN "read" ELSE "fails"

Parts(s) == IF disk[drive[s]].parts THEN 1 ELSE 0

Goes(p, pc) == proc' = [proc EXCEPT ![p].pc = pc]
With(old, r) == [x \in DOMAIN old |-> IF x \in DOMAIN r THEN r[x] ELSE old[x]]
Becomes(p, r) == proc' = [proc EXCEPT ![p] = With(@, r)]
Breach(name, condition) == breach' = IF condition THEN breach \cup {name} ELSE breach

\* hcwd_init; it adds the entries to the table one by one, as hcwd_mounted does
Start(p, c) ==
  /\ proc[p].pc = "idle" /\ runs < MaxRuns
  /\ runs' = runs + 1
  /\ proc' = [proc EXCEPT ![p] =
       [cmd |-> c, read |-> file, tab |-> file, dirty |-> file.list # << >>, done |-> Silent,
        part |-> 0, src |-> Empty, mode |-> "none", dir |-> Root,
        pc |-> IF c.op \in Probes THEN "probe"
               ELSE IF c.op = "humount" THEN "forget"
               ELSE IF c.op = "hvol" THEN "choose" ELSE "open"]]
  /\ UNCHANGED <<drive, disk, file, meant, breach>>

\* hfs_nparts, and the choice of a partition that follows it
Probe(p) ==
  LET s == proc[p].cmd.src IN
  /\ proc[p].pc = "probe"
  /\ Becomes(p, [pc |-> IF proc[p].cmd.op = "hformat" THEN "format" ELSE "open",
                 part |-> IF CanOpen(p, s, "read") THEN Parts(s) ELSE 0])
  /\ Breach("busy", drive[s] # Empty /\ ~CanOpen(p, s, "read"))
  /\ UNCHANGED <<drive, disk, file, runs, meant>>

\* broken variant: the volume starts with the medium, whatever its partition
FreshWhole(m, c, part) ==
  [name |-> c.label, born |-> <<m, disk[m].born[2] + 1>>, parts |-> FALSE,
   dirs |-> {}, files |-> {}]

\* hfs_format of a partition, or of the whole medium without its map
Fresh(m, c, part) ==
  [name |-> c.label, born |-> <<m, disk[m].born[2] + 1>>, parts |-> part = 1,
   dirs |-> {}, files |-> {}]

Format(p) ==
  LET s == proc[p].cmd.src IN
  /\ proc[p].pc = "format"
  /\ IF CanOpen(p, s, "write") /\ proc[p].part <= Parts(s)
     THEN /\ disk' = [disk EXCEPT ![drive[s]] = Fresh(drive[s], proc[p].cmd, proc[p].part)]
          /\ Goes(p, "open")
     ELSE Goes(p, "save") /\ UNCHANGED disk
  /\ UNCHANGED <<drive, file, runs, meant, breach>>

\* humount_main
Forget(p) ==
  LET t == proc[p].tab
      x == proc[p].cmd.vol
      is == IF x = "current" THEN {t.cur} \ {0} ELSE Called(t, x)
  IN
  /\ proc[p].pc = "forget"
  /\ IF is = {} THEN Goes(p, "save")
     ELSE Becomes(p, [pc |-> "save", tab |-> Without(t, First(is)),
                      done |-> [what |-> "forgot", key |-> Key(t.list[First(is)])]])
  /\ UNCHANGED <<drive, disk, file, runs, meant, breach>>

\* hvol_main, before it shows the volume
Choose(p) ==
  LET t == proc[p].tab
      is == Called(t, proc[p].cmd.vol)
  IN
  /\ proc[p].pc = "choose"
  /\ IF is = {} THEN Goes(p, "save")
     ELSE Becomes(p, [pc |-> "open", tab |-> [t EXCEPT !.cur = First(is)],
                      dirty |-> proc[p].dirty \/ t.cur # First(is),
                      done |-> [what |-> "chose", key |-> Key(t.list[First(is)])]])
  /\ UNCHANGED <<drive, disk, file, runs, meant, breach>>

\* the current entry, on which most commands work
Current(p) == proc[p].tab.list[proc[p].tab.cur]

\* hfs_mount, as hmount_main and do_format call it
OpenNew(p) ==
  LET s == proc[p].cmd.src
      mode == OpenedAs(p, s, TRUE)
  IN
  /\ proc[p].pc = "open" /\ proc[p].cmd.op \in Probes
  /\ IF mode # "fails" /\ proc[p].part = Parts(s)
     THEN Becomes(p, [pc |-> "work", src |-> s, mode |-> mode])
     ELSE Goes(p, "save")
  /\ UNCHANGED <<drive, disk, file, runs, meant, breach>>

\* broken variant: any volume will do
NoOtherVolume(e, d) == TRUE

\* hfsutil_remount compares the names, and only the names
Expected(e, d) == d.name = e.vname

\* hfsutil_remount; without its directory a command goes on in the root
Remount(p) ==
  /\ proc[p].pc = "open" /\ proc[p].cmd.op \notin Probes
  /\ IF proc[p].tab.cur = 0 THEN Goes(p, "save") /\ UNCHANGED breach
     ELSE \E e \in {Current(p)} :
          \E mode \in {OpenedAs(p, e.src, proc[p].cmd.op \notin Reads)} :
            IF mode = "fails" \/ e.part # Parts(e.src) \/ ~Expected(e, disk[drive[e.src]])
            THEN Goes(p, "save") /\ UNCHANGED breach
            ELSE \E d \in {disk[drive[e.src]]} :
              /\ Becomes(p, [pc |-> "work", src |-> e.src, mode |-> mode,
                             dir |-> IF e.cwd \in d.dirs \cup {Root} THEN e.cwd ELSE Root])
              /\ breach' = breach \cup {x \in {"twin"} : d.born # e.born /\ d.name = e.vname}
                                  \cup {x \in {"nocwd"} : e.cwd \notin d.dirs \cup {Root}}
  /\ UNCHANGED <<drive, disk, file, runs, meant>>

-----------------------------------------------------------------------------
(***************************************************************************)
(* What a command does with the mounted volume before it unmounts it.      *)
(***************************************************************************)
Disk(p) == disk[drive[proc[p].src]]

Works(p, op) == proc[p].pc = "work" /\ proc[p].cmd.op = op
Changes(p, d) == disk' = [disk EXCEPT ![drive[proc[p].src]] = d]

\* hmount_main, hformat_main
Record(p) ==
  /\ proc[p].pc = "work" /\ proc[p].cmd.op \in Probes
  /\ \E e \in {[src |-> proc[p].src, part |-> proc[p].part, vname |-> Disk(p).name,
                born |-> Disk(p).born, cwd |-> Root]} :
       Becomes(p, [pc |-> "save", tab |-> Mounted(proc[p].tab, e), dirty |-> TRUE,
                   done |-> [what |-> "mounted", key |-> Key(e), entry |-> e]])
  /\ UNCHANGED <<drive, disk, file, runs, meant, breach>>

\* hvol_main (showvol), hls_main
Show(p) ==
  /\ Works(p, "hvol") \/ Works(p, "hls")
  /\ Goes(p, "save")
  /\ UNCHANGED <<drive, disk, file, runs, meant, breach>>

\* hcwd_setcwd: the current entry gets the path of the working directory
SetCwd(p, dir) ==
  [pc |-> "save", tab |-> [proc[p].tab EXCEPT !.list[proc[p].tab.cur].cwd = dir],
   dirty |-> TRUE,
   done |-> [what |-> "moved", key |-> Key(Current(p)), cwd |-> dir]]

\* hcd_main
ChangeDir(p) ==
  LET d == proc[p].cmd.dir IN
  /\ Works(p, "hcd")
  /\ IF d \in Disk(p).dirs \cup {Root} THEN Becomes(p, SetCwd(p, d)) ELSE Goes(p, "save")
  /\ UNCHANGED <<drive, disk, file, runs, meant, breach>>

\* the volume as each of these commands leaves it, a set without an element
\* if it fails
After(p) ==
  LET c == proc[p].cmd
      d == Disk(p)
  IN
  CASE c.op = "hmkdir"  -> {v \in {[d EXCEPT !.dirs = @ \cup {c.dir}]} : c.dir \notin d.dirs}
    [] c.op = "hrmdir"  -> {v \in {[d EXCEPT !.dirs = @ \ {c.dir}]} :
                              c.dir \in d.dirs /\ c.dir \notin d.files}
    [] c.op = "hdel"    -> {v \in {[d EXCEPT !.files = @ \ {proc[p].dir}]} :
                              proc[p].dir \in d.files}
    [] c.op = "hrename" ->
         {v \in {[d EXCEPT !.dirs = (@ \ {c.from}) \cup {c.to},
                           !.files = {IF x = c.from THEN c.to ELSE x : x \in @}]} :
            c.from \in d.dirs /\ c.to \notin d.dirs}
    [] OTHER -> {}

Modify(p) ==
  LET c == proc[p].cmd IN
  /\ proc[p].pc = "work" /\ c.op \in {"hmkdir", "hrmdir", "hdel", "hrename"}
  /\ IF proc[p].mode = "read" \/ After(p) = {} THEN Goes(p, "save") /\ UNCHANGED disk
     ELSE /\ \E d \in After(p) : Changes(p, d)
          /\ IF c.op # "hrename" THEN Goes(p, "save")
             ELSE Becomes(p, SetCwd(p, IF proc[p].dir = c.from THEN c.to ELSE proc[p].dir))
  /\ UNCHANGED <<drive, file, runs, meant, breach>>

-----------------------------------------------------------------------------
(***************************************************************************)
(* The end of a command.                                                   *)
(***************************************************************************)

\* what is known, as the manual pages of the commands have it
Told(k, done) ==
  LET others == {e \in k.known : Key(e) # done.key}
  IN
  CASE done.what = "nothing" -> k
    [] done.what = "forgot"  -> [cur |-> IF k.cur = done.key THEN << >> ELSE k.cur,
                                 known |-> others]
    [] done.what = "chose"   -> [cur |-> done.key, known |-> k.known]
    [] done.what = "mounted" -> [cur |-> done.key, known |-> others \cup {done.entry}]
    [] done.what = "moved"   -> [cur |-> done.key,
                                 known |-> others \cup {[e EXCEPT !.cwd = done.cwd] :
                                                          e \in k.known \ others}]

\* a command that has found no volume and added none leaves the file alone
Saves(p) == proc[p].dirty

\* hcwd_finish: the file is truncated
Save(p) ==
  /\ proc[p].pc = "save"
  /\ IF Saves(p) THEN file' = NoTable /\ Goes(p, "flush")
     ELSE UNCHANGED file /\ proc' = [proc EXCEPT ![p] = Idle]
  /\ meant' = Told(meant, proc[p].done)
  /\ Breach("race", /\ Saves(p)
                    /\ proc[p].read # file \/ \E q \in Process : proc[q].pc = "flush")
  /\ UNCHANGED <<drive, disk, runs>>

\* its buffer is written at offset 0; what others have written behind stays
Flush(p) ==
  LET t == proc[p].tab IN
  /\ proc[p].pc = "flush"
  /\ file' = [t EXCEPT !.list = @ \o SubSeq(file.list, Len(@) + 1, Len(file.list))]
  /\ proc' = [proc EXCEPT ![p] = Idle]
  /\ UNCHANGED <<drive, disk, runs, meant, breach>>

\* a signal, or a crash of the machine
Kill(p) ==
  /\ proc[p].pc # "idle"
  /\ proc' = [proc EXCEPT ![p] = Idle]
  /\ Breach("killed", proc[p].pc = "flush")
  /\ UNCHANGED <<drive, disk, file, runs, meant>>

\* the user changes the medium in a drive that is not in use, nor being looked
\* at by hmount or hformat
Looks(q, s) == proc[q].pc \in {"format", "open"} /\ proc[q].cmd.op \in Probes /\ proc[q].cmd.src = s

Exchange(s, m) ==
  /\ drive[s] # m /\ \A q \in Process : ~Holds(q, s) /\ ~Looks(q, s)
  /\ \A t \in Source : drive[t] # m \/ m = Empty
  /\ drive' = [drive EXCEPT ![s] = m]
  /\ UNCHANGED <<disk, file, proc, runs, meant, breach>>

Steps(p) ==
  \/ \E c \in Command : Start(p, c)
  \/ Probe(p) \/ Format(p) \/ Forget(p) \/ Choose(p) \/ OpenNew(p) \/ Remount(p)
  \/ Record(p) \/ Show(p) \/ ChangeDir(p) \/ Modify(p)
  \/ Save(p) \/ Flush(p) \/ Kill(p)

Next ==
  \/ \E p \in Process : Steps(p)
  \/ \E s \in Source, m \in Medium \cup {Empty} : Exchange(s, m)

Init ==
  /\ drive \in {f \in [Source -> Medium \cup {Empty}] :
                 \A s, t \in Source : f[s] = f[t] => s = t \/ f[s] = Empty}
  /\ \E name \in [Medium -> Label], parts \in [Medium -> BOOLEAN] :
       disk = [m \in Medium |-> [name |-> name[m], born |-> <<m, 0>>, parts |-> parts[m],
                                dirs |-> Given, files |-> Given \cup {Root}]]
  /\ file = NoTable
  /\ proc = [p \in Process |-> Idle]
  /\ runs = 0
  /\ meant = [cur |-> << >>, known |-> {}]
  /\ breach = {}

Spec == Init /\ [][Next]_vars

-----------------------------------------------------------------------------
(***************************************************************************)
(* Properties.  breach names what they do without: a command, even one     *)
(* that only looks, that writes back a list which another has replaced     *)
(* since it was read or is replacing now ("race"), a kill between          *)
(* truncating the file and writing it ("killed"), another volume of the    *)
(* same name ("twin"), a working directory that is gone ("nocwd"), and a   *)
(* medium that hfs_nparts cannot open because another command has it       *)
(* ("busy").                                                               *)
(***************************************************************************)
Entry == [src : Source, part : {0, 1}, vname : Label, born : Medium \X Nat,
          cwd : Dir \cup {Root}]

IsTable(t) == t.cur \in 0..Len(t.list) /\ \A i \in DOMAIN t.list : t.list[i] \in Entry

\* Every variable holds what its C counterpart can hold; the current volume of
\* a command's table is one of its entries (hcwd_init and hcwd_umounted see to
\* that), and a file lies in a directory that exists.
TypeOK ==
  /\ \A m \in Medium :
       /\ disk[m].name \in Label /\ disk[m].parts \in BOOLEAN
       /\ disk[m].dirs \subseteq Dir /\ disk[m].files \subseteq disk[m].dirs \cup {Root}
  /\ drive \in [Source -> Medium \cup {Empty}]
  /\ \A i \in DOMAIN file.list : file.list[i] \in Entry
  /\ \A p \in Process : proc[p].pc # "idle" => IsTable(proc[p].tab)

Knows(t) ==
  [cur |-> IF t.cur = 0 THEN << >> ELSE Key(t.list[t.cur]), known |-> Range(t.list)]

\* Without a breach, whatever commands run side by side, read the file while
\* another writes it, fail or are killed while they work, the file says of the
\* volumes, the current one and their working directories just what the
\* commands that ended have reported, each volume once.
Remembered ==
  breach = {} /\ (\A p \in Process : proc[p].pc # "flush") =>
    /\ Knows(file) = meant
    /\ IsInjective([i \in DOMAIN file.list |-> Key(file.list[i])])

\* .hcwd is well formed at every moment, its current volume is one of the
\* list, and without a breach it is what the commands have reported.
ListSound == TypeOK /\ Remembered

\* A command that changes a volume changes the one that its user made current,
\* which may have been taken out and come back, and in the directory the user
\* is in.
RightVolume ==
  [][breach = {} =>
       \A p \in Process : Modify(p) =>
         \A m \in Medium : disk'[m] # disk[m] =>
           /\ disk[m].born = Current(p).born
           /\ proc[p].cmd.op = "hdel" =>
                disk'[m].files = disk[m].files \ {Current(p).cwd}]_vars

\* hformat without -f leaves a partition map alone.
MapKept == [][breach' = {} => \A m \in Medium : disk[m].parts => disk'[m].parts]_vars

\* hformat.1: if the medium is partitioned, the command fails unless -f is
\* given, whatever other commands do at the time.  The code does not keep
\* this (README, section 4).
ForceNeeded ==
  [][breach' \subseteq {"busy"} => \A m \in Medium : disk[m].parts => disk'[m].parts]_vars
=============================================================================
