----------------------------- MODULE BlockStore -----------------------------
(***************************************************************************)
(* What the block cache promises to the rest of libhfs: a write-back store *)
(* over a medium.  A block that was written is replaced at once ("store"); *)
(* it reaches the medium at any later time, and by the end of a flush that *)
(* reports success at the latest.  A flush that reports failure, and a     *)
(* call that is refused, change no block; only the end of the cache gives  *)
(* up what the medium has not accepted.  The data that a read returns is   *)
(* left open: BlockCache keeps it current only while its ring is intact.   *)
(***************************************************************************)
CONSTANTS Block, Data, NoData

VARIABLES
  store,   \* the blocks as the last writes have left them
  medium,  \* the blocks on the medium
  ack      \* the last call, whether it reported success, and with what

vars == <<store, medium, ack>>

Init ==
  /\ medium \in [Block -> Data] /\ store = medium
  /\ ack \in [op : {"init"}, ok : {FALSE}, bnum : Block, data : {NoData}]

\* any blocks may go to the medium on the way
Settle ==
  LET before == store
      after  == store'
  IN  /\ medium' \in [Block -> Data]
      /\ \A n \in Block : medium'[n] \in {medium[n], before[n], after[n]}

Acked(op) ==
  ack' \in [op : {op}, ok : BOOLEAN, bnum : Block, data : Data \cup {NoData}]

Begin == Acked("init") /\ UNCHANGED <<store, medium>>

Read == Acked("read") /\ UNCHANGED store /\ Settle

Write ==
  /\ Acked("write")
  /\ store' = IF ack'.ok THEN [store EXCEPT ![ack'.bnum] = ack'.data] ELSE store
  /\ Settle

Flush ==
  /\ Acked("flush") /\ UNCHANGED store
  /\ Settle /\ (ack'.ok => medium' = store)

Finish ==
  /\ Acked("finish") /\ store' = medium'
  /\ medium' \in [Block -> Data]
  /\ \A n \in Block : medium'[n] \in {medium[n], store[n]}
  /\ ack'.ok => medium' = store

Next == Begin \/ Read \/ Write \/ Flush \/ Finish

Spec == Init /\ [][Next]_vars
=============================================================================
