---------------------------- MODULE AllocSearch ----------------------------
(***************************************************************************)
(* v_allocblocks and v_freeblocks (libhfs/volume.c): the search of the     *)
(* volume bitmap for a run of free blocks.                                 *)
(*                                                                         *)
(* The search starts at drAllocPtr, moved back over free blocks, goes to   *)
(* the end of the bitmap, wraps around once and ends where it started or   *)
(* as soon as it has met the requested length.  An action is one round of  *)
(* its loop.                                                               *)
(***************************************************************************)
EXTENDS Naturals, FiniteSets

CONSTANTS
  NBlocks,     \* drNmAlBlks
  MaxRequest   \* bound: longest run that is requested

ASSUME SearchAssumption == NBlocks \in Nat \ {0} /\ MaxRequest \in Nat \ {0}

ABN == 0..NBlocks - 1

VARIABLES
  pc,      \* "idle", "scan" (in the loop), "take" (the loop has ended)
  vbm,     \* allocation blocks marked in the volume bitmap
  free,    \* drFreeBks
  ptr,     \* drAllocPtr; it may come to be drNmAlBlks
  search,  \* the local variables of v_allocblocks
  reply    \* the answer to the last request

vars == <<pc, vbm, free, ptr, search, reply>>

Nothing == [result |-> "none", request |-> 0, run |-> {}]

NoSearch == [request |-> 1, start |-> 0, pt |-> 0, wrap |-> FALSE,
             found |-> 0, foundat |-> 0]

Run(at, len) == at..at + len - 1

\* a volume in use: any bitmap, the free count right, the pointer anywhere
Init ==
  /\ pc = "idle" /\ search = NoSearch
  /\ vbm \in SUBSET ABN /\ free = NBlocks - Cardinality(vbm) /\ ptr \in 0..NBlocks
  /\ reply = Nothing

-----------------------------------------------------------------------------
\* "backtrack the start pointer to recover unused space"
Backtrack(p) ==
  CHOOSE s \in 0..p : s..p - 1 \subseteq ABN \ vbm /\ (s = 0 \/ s - 1 \in vbm)

\* the first free block at or after p, or the end
SkipUsed(p) ==
  CHOOSE q \in p..NBlocks : p..q - 1 \subseteq vbm /\ q \notin vbm

\* the end of the free run at p, or of as much of it as was requested
SkipFree(p, request) ==
  CHOOSE q \in p..NBlocks :
    /\ p..q - 1 \subseteq ABN \ vbm /\ q - p <= request
    /\ q = NBlocks \/ q - p = request \/ q \in vbm

\* the bit past the end of the bitmap, read when ptr = drNmAlBlks, may be
\* anything
Begin(request, spare) ==
  LET set   == IF ptr < NBlocks THEN ptr \in vbm ELSE spare
      start == IF set THEN ptr ELSE Backtrack(ptr)
  IN  /\ pc = "idle"
      /\ IF free = 0
         THEN /\ reply' = [result |-> "full", request |-> request, run |-> {}]
              /\ UNCHANGED <<pc, search>>
         ELSE /\ pc' = "scan"
              /\ search' = [NoSearch EXCEPT !.request = request,
                                            !.start = start, !.pt = start]
              /\ UNCHANGED reply
      /\ UNCHANGED <<vbm, free, ptr>>

\* broken variants: the last run counts, or the last of the longest
AnyRun(len, found) == len > 0

AsLongAsAny(len, found) == len >= found /\ len > 0

\* the run is longer than the longest so far
Longer(len, found) == len > found

\* broken variant: the search does not know where it began
NeverRound(s, at) == FALSE

\* the search has come back to where it began
Round(s, at) == s.wrap /\ at >= s.start

\* one round of the loop
Scan ==
  LET mark   == SkipUsed(search.pt)
      pt     == SkipFree(mark, search.request)
      back   == Round(search, mark)   \* the first break
      longer == Longer(pt - mark, search.found)
      found  == IF longer THEN pt - mark ELSE search.found
      round  == Round(search, pt)     \* the second break
      atEnd  == pt = NBlocks /\ ~round
  IN  /\ pc = "scan"
      /\ search' =
           IF back THEN [search EXCEPT !.pt = mark]
           ELSE [search EXCEPT !.found = found,
                               !.foundat = IF longer THEN mark ELSE @,
                               !.pt = IF atEnd THEN 0 ELSE pt,
                               !.wrap = @ \/ atEnd]
      /\ pc' = IF back \/ round \/ found = search.request THEN "take" ELSE "scan"
      /\ UNCHANGED <<vbm, free, ptr, reply>>

\* what drFreeBks is lowered by
Charge(s) == s.found

\* the run is taken, once v_dirty has marked the volume
Take(dirtied) ==
  LET run == Run(search.foundat, search.found)
  IN  /\ pc = "take" /\ pc' = "idle" /\ search' = NoSearch
      /\ IF search.found = 0 \/ search.found > free \/ ~dirtied
         THEN /\ reply' = [result |-> IF search.found \in 1..free THEN "ioerror"
                                      ELSE "bad bitmap",
                           request |-> search.request, run |-> {}]
              /\ UNCHANGED <<vbm, free, ptr>>
         ELSE /\ reply' = [result |-> "granted", request |-> search.request, run |-> run]
              /\ ptr' = search.pt /\ free' = free - Charge(search)
              /\ vbm' = vbm \cup run

\* v_freeblocks: an extent of a file, or the end of one
Free(i, j) ==
  /\ pc = "idle" /\ i <= j /\ i..j \subseteq vbm
  /\ vbm' = vbm \ (i..j) /\ free' = free + Cardinality(i..j)
  /\ reply' = Nothing
  /\ UNCHANGED <<pc, ptr, search>>

Next ==
  \/ \E request \in 1..MaxRequest, spare \in BOOLEAN : Begin(request, spare)
  \/ Scan
  \/ \E dirtied \in BOOLEAN : Take(dirtied)
  \/ \E i, j \in ABN : Free(i, j)

\* the library is single threaded: a call that has begun goes on
Spec == Init /\ [][Next]_vars /\ WF_vars(Scan \/ \E dirtied \in BOOLEAN : Take(dirtied))

-----------------------------------------------------------------------------
Search == [request : 1..MaxRequest, start : 0..NBlocks, pt : 0..NBlocks,
           wrap : BOOLEAN, found : 0..MaxRequest, foundat : 0..NBlocks]

Reply == [result : {"none", "full", "granted", "ioerror", "bad bitmap"},
          request : 0..MaxRequest, run : SUBSET ABN]

TypeOK ==
  /\ pc \in {"idle", "scan", "take"}
  /\ vbm \subseteq ABN /\ free \in 0..NBlocks /\ ptr \in 0..NBlocks
  /\ search \in Search /\ reply \in Reply

\* The search implements the pool: the run was free, has the requested length
\* if any run has, and is the longest otherwise (volume.c:652 "find largest
\* unused block which satisfies request"); a call with free blocks left is
\* never refused as a "bad volume bitmap".
Pool == INSTANCE BlockPool WITH used <- vbm

LongestRun == Pool!Spec

\* distance of block b from block s, going up and around
Ahead(s, b) == IF b >= s THEN b - s ELSE b + NBlocks - s

\* Of the runs that would do it takes the first one met from the start of the
\* search, going up and around: allocation goes on where it stopped last, and
\* space before the pointer is not left behind.
NextFit ==
  [][pc = "take" /\ reply'.result = "granted" =>
       \A at \in 0..NBlocks - search.found :
         Run(at, search.found) \cap vbm = {} =>
           Ahead(search.start, search.foundat) <= Ahead(search.start, at)]_vars

\* Every search ends.
SearchEnds == pc = "scan" ~> pc = "idle"
=============================================================================
