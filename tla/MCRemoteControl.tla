--------------------------- MODULE MCRemoteControl ---------------------------
(***************************************************************************)
(* Remote control for TLC: keys of which none begins with another.         *)
(***************************************************************************)
EXTENDS RemoteControl, TLC

MCLonger == [k \in Keys |-> {k}]
Symmetry == Permutations(Guests) \cup Permutations(Calls) \cup Permutations(Keys)
=============================================================================
