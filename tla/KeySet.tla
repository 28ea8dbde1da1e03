------------------------------- MODULE KeySet -------------------------------
(***************************************************************************)
(* What the key store of the lock promises, with no array, no counter and  *)
(* no file parsing: every key is absent, white (it opens the lock) or      *)
(* black (it is refused), once in RAM and once on the flash.  Module       *)
(* KeyStore is shown to implement this specification.                      *)
(***************************************************************************)
EXTENDS Integers, FiniteSets

CONSTANTS
    Keys,       \* the 7-character keys
    MAX_KEYS    \* capacity of the store

VARIABLES
    ram,        \* status of every key in the running device
    disk        \* status of every key after the next start

vars == <<ram, disk>>

Status == {"absent", "white", "black"}

Known(store) == {k \in Keys : store[k] # "absent"}
Black(store) == {k \in Keys : store[k] = "black"}

Nothing == [k \in Keys |-> "absent"]

Init == ram = Nothing /\ disk = Nothing

(* A key enters white, and reaches the flash at once or at a later commit. *)
Add(k) ==
    /\ ram[k] = "absent"
    /\ Cardinality(Known(ram)) < MAX_KEYS
    /\ ram' = [ram EXCEPT ![k] = "white"]
    /\ disk' \in {disk, ram'}

(* Removing and blacklisting are durable in the same step. *)
Remove(k) ==
    /\ ram[k] # "absent"
    /\ ram' = [ram EXCEPT ![k] = "absent"]
    /\ disk' = ram'

Blacklist(k) ==
    /\ ram[k] # "absent"
    /\ ram' = [ram EXCEPT ![k] = "black"]
    /\ disk' = ram'

Clear == ram' = Nothing /\ disk' = Nothing

Commit == disk' = ram /\ UNCHANGED ram

Reload == ram' = disk /\ UNCHANGED disk

Next ==
    \/ \E k \in Keys : Add(k) \/ Remove(k) \/ Blacklist(k)
    \/ Clear
    \/ Commit
    \/ Reload

Spec == Init /\ [][Next]_vars
=============================================================================
