------------------------------ MODULE ForkMap ------------------------------
(***************************************************************************)
(* What file.c promises to the callers of libhfs: each fork of a file is a *)
(* sequence of allocation blocks.  Block n of a fork is the n-th of them,  *)
(* however the fork was extended and wherever it was accessed before; a    *)
(* write past the end appends free blocks; a trim gives back exactly the   *)
(* blocks past the logical end; a call that fails changes nothing.         *)
(***************************************************************************)
EXTENDS Naturals, Sequences

CONSTANTS Fork, ABN, NoBlock

VARIABLES
  blocks,   \* the allocation blocks of each fork, in order
  size,     \* the number of them below the logical end
  used,     \* allocation blocks in use
  reply     \* the last access: the fork, the number, the block it went to

vars == <<blocks, size, used, reply>>

Quiet == [fork |-> "none", num |-> 0, abn |-> NoBlock]

Elems(s) == {s[i] : i \in DOMAIN s}

Init ==
  /\ blocks = [k \in Fork |-> << >>] /\ size = [k \in Fork |-> 0]
  /\ used = {} /\ reply = Quiet

\* a call that fails, or has nothing to report
Failure == reply' = Quiet /\ UNCHANGED <<blocks, size, used>>

\* an access ends in the right block or in an error
Read(k) ==
  LET old == blocks[k]
  IN  \E num \in 0..size[k] - 1 :
        /\ reply' = [fork |-> k, num |-> num, abn |-> old[num + 1]]
        /\ UNCHANGED <<blocks, size, used>>

\* the fork is long enough, or is extended by free blocks
Write(k) ==
  LET old  == blocks[k]
      new  == blocks'[k]
      more == SubSeq(new, Len(old) + 1, Len(new))
  IN  /\ \E num \in 0..size[k] :
           /\ num < Len(new) /\ (num < Len(old) => more = << >>)
           /\ \/ reply' = Quiet /\ UNCHANGED size
              \/ /\ reply' = [fork |-> k, num |-> num, abn |-> new[num + 1]]
                 /\ size' = [size EXCEPT ![k] = IF num < @ THEN @ ELSE num + 1]
      /\ Elems(more) \subseteq ABN \ used
      /\ blocks' = [blocks EXCEPT ![k] = old \o more]
      /\ used' = used \cup Elems(more)

Truncate(k) ==
  /\ \E len \in 0..size[k] : size' = [size EXCEPT ![k] = len]
  /\ reply' = Quiet /\ UNCHANGED <<blocks, used>>

\* the blocks past the logical end are given back
Trim(k) ==
  LET old  == blocks[k]
      kept == SubSeq(old, 1, size[k])
  IN  /\ blocks' = [blocks EXCEPT ![k] = kept]
      /\ used' = used \ (Elems(old) \ Elems(kept))
      /\ reply' = Quiet /\ UNCHANGED size

Delete ==
  /\ blocks' = [k \in Fork |-> << >>] /\ size' = [k \in Fork |-> 0]
  /\ used' = used \ UNION {Elems(blocks[k]) : k \in Fork}
  /\ reply' = Quiet

\* other files take and give back blocks
Elsewhere ==
  /\ UNION {Elems(blocks[k]) : k \in Fork} \subseteq used' /\ used' \subseteq ABN
  /\ reply' = Quiet /\ UNCHANGED <<blocks, size>>

Next ==
  \/ Failure \/ Delete \/ Elsewhere
  \/ \E k \in Fork : Read(k) \/ Truncate(k) \/ Trim(k) \/ Write(k)

Spec == Init /\ [][Next]_vars
=============================================================================
