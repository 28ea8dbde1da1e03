----------------------------- MODULE MCSettings -----------------------------
(* Fields of two characters; the texts are empty, a number, and the version,
   which is too long for a field. *)
EXTENDS Settings

MCOne == <<"1">>
MCVersion == <<"v", "1", "x">>
MCText == {<<>>, MCOne, MCVersion}

=============================================================================
