----------------------------- MODULE MCKeyStore -----------------------------
(***************************************************************************)
(* Key store for TLC: a master key m, keys a and b, and one name that   *)
(* is longer than 7 characters and is cut to a.                            *)
(***************************************************************************)
EXTENDS KeyStore

CONSTANTS m, a, b, along

MCKeys == {m, a, b}
MCNames == MCKeys \cup {along}
MCTrunc == [n \in MCNames |-> IF n = along THEN a ELSE n]
MCMasterKeys == {m}
MCGarbage == {[key |-> b, black |-> TRUE]}
=============================================================================
