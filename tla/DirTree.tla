------------------------------ MODULE DirTree ------------------------------
(***************************************************************************)
(* What a catalog promises: files and directories in one tree.  Each has a *)
(* number that is never used again, a name that differs from those of the  *)
(* other objects in its directory, and a parent.  A call makes, removes or *)
(* moves one object, or does nothing.  Once a call has failed half way     *)
(* ("broken") nothing more is promised.                                    *)
(***************************************************************************)
EXTENDS Integers

CONSTANTS Root, Fold

VARIABLES
  obj,      \* the objects: number, parent, name, and whether a directory
  next,     \* the lowest number that was never used
  broken    \* a call has failed half way

vars == <<obj, next, broken>>

IsDir(id) == \E o \in obj : o.id = id /\ o.dir

Free(par, name) == \A o \in obj : o.par = par => Fold[o.name] # Fold[name]

\* the way from directory id up to the root does not pass through "through"
Avoids(id, through) ==
  \E way \in SUBSET {o.id : o \in obj} :
    /\ id \in way /\ through \notin way
    /\ \A o \in obj : o.id \in way \ {Root} => o.par \in way

Init ==
  /\ \E o \in obj : o.id = Root /\ o.dir
  /\ \A o \in obj : o.id < next
  /\ broken = FALSE

Make ==
  \E o \in obj' \ obj :
    /\ obj' = obj \cup {o}
    /\ o.id >= next /\ next' > o.id
    /\ IsDir(o.par) /\ Free(o.par, o.name)

Destroy ==
  \E o \in obj \ obj' :
    /\ obj' = obj \ {o}
    /\ o.id # Root /\ \A x \in obj : x.par # o.id
    /\ UNCHANGED next

Move ==
  \E o \in obj \ obj', n \in obj' \ obj :
    /\ obj' = (obj \ {o}) \cup {n}
    /\ n.id = o.id /\ n.dir = o.dir
    /\ \A x \in obj \ {o} : x.par = n.par => Fold[x.name] # Fold[n.name]
    /\ n.par # o.par =>
         /\ IsDir(n.par)
         /\ o.dir => o.id # Root /\ Avoids(n.par, o.id)
    /\ UNCHANGED next

Break == ~broken /\ broken'

Next ==
  \/ broken /\ broken'
  \/ Break
  \/ obj' # obj /\ UNCHANGED broken /\ (Make \/ Destroy \/ Move)

Spec == Init /\ [][Next]_vars
=============================================================================
