------------------------------- MODULE KeySet -------------------------------
(***************************************************************************)
(* What btree.c promises to the catalog and to the extents overflow file:  *)
(* a set of records, told apart by their keys.  A record is refused only   *)
(* because its key is there already, a deletion only because it is not,    *)
(* and a search finds exactly the records of the set.  Only a reservation  *)
(* of space may find the volume full; an insertion that was reserved does  *)
(* not.                                                                    *)
(***************************************************************************)
CONSTANTS Key, Pinned

VARIABLES
  keys,    \* the keys of the records
  reply    \* the answer of the last call: a key, and what came of it

Answer(k, res) == [key |-> k, res |-> res]

Quiet == Answer(0, "ok")

Init == keys = Pinned /\ reply = Quiet

\* one record, or a directory and its thread
Insert(ks) == keys \cap ks = {} /\ keys' = keys \cup ks /\ reply' = Quiet

Delete(k) == k \in keys \ Pinned /\ keys' = keys \ {k} /\ reply' = Quiet

\* a record gets another key, or the same one
Rekey(k, new) ==
  /\ k \in keys \ Pinned /\ new \notin keys \ {k}
  /\ keys' = (keys \ {k}) \cup {new} /\ reply' = Answer(new, "renamed")

\* a search answers, an insertion or a deletion is refused
Look(k) ==
  /\ reply' = Answer(k, IF k \in keys THEN "present" ELSE "absent")
  /\ UNCHANGED keys

Reserve == UNCHANGED keys /\ reply' \in {Quiet, Answer(0, "nospace")}

Next ==
  \/ Reserve
  \/ \E k \in Key : Insert({k}) \/ Delete(k) \/ Look(k)
  \/ \E k, l \in Key : Insert({k, l}) \/ Rekey(k, l)

Spec == Init /\ [][Next]_<<keys, reply>>
=============================================================================
