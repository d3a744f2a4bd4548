----------------------------- MODULE MCTransfer -----------------------------
(* Two files: a document with two forks, and a text with a character that *)
(* Latin-1 has and one that it has not; and a UNIX file.                   *)
EXTENDS Transfer

MCFirst ==
  (<<97, 32>> :> [data |-> <<144, 144, 144, 144, 144, 7, 7, 7, 7, 7, 7, 7, 7, 7, 3, 144, 144>>, rsrc |-> <<144, 0, 144>>,
                  type |-> 65, crea |-> 144, flags |-> 15, created |-> 4, modified |-> 144])
  @@ (<<97, 47>> :> [data |-> <<65, 13, 142, 170>>, rsrc |-> <<>>,
                     type |-> TextType, crea |-> 66, flags |-> 16, created |-> 4, modified |-> 5])

MCRoom == {-1, 5, 1000}

MCTexts == DirName :> <<66, 10, 233, 133, 178>>
=============================================================================
