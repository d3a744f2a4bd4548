----------------------------- MODULE BlockPool -----------------------------
(***************************************************************************)
(* What v_allocblocks and v_freeblocks promise to the files: a pool of     *)
(* allocation blocks from which a request gets a contiguous run, as long   *)
(* as requested if there is one, else the longest there is.  A request is  *)
(* refused only when the pool is empty or the volume cannot be marked.     *)
(***************************************************************************)
EXTENDS Naturals, FiniteSets

CONSTANTS NBlocks, MaxRequest

VARIABLES
  used,    \* blocks in use
  reply    \* the answer to the last call: how it ended, the request, the run

vars == <<used, reply>>

Block == 0..NBlocks - 1

\* the runs of "len" free blocks
FreeRuns(len) ==
  {s \in {i..i + len - 1 : i \in 0..NBlocks - len} : s \cap used = {}}

\* the longest that can be granted of a request
Best(request) ==
  CHOOSE len \in 0..request :
    /\ FreeRuns(len) # {}
    /\ \A more \in len + 1..request : more > NBlocks \/ FreeRuns(more) = {}

Nothing == [result |-> "none", request |-> 0, run |-> {}]

Init ==
  /\ used \in SUBSET Block
  /\ reply = Nothing

Grant(request) ==
  /\ used # Block
  /\ \E run \in FreeRuns(Best(request)) :
       /\ used' = used \cup run
       /\ reply' = [result |-> "granted", request |-> request, run |-> run]

Refuse(request) ==
  /\ reply' = [result |-> IF used = Block THEN "full" ELSE "ioerror",
               request |-> request, run |-> {}]
  /\ UNCHANGED used

Free ==
  /\ \E i, j \in Block : i..j \subseteq used /\ used' = used \ (i..j)
  /\ reply' = Nothing

Next == Free \/ \E request \in 1..MaxRequest : Refuse(request) \/ Grant(request)

Spec == Init /\ [][Next]_vars
=============================================================================
