---------------------------- MODULE MCLockControl ----------------------------
(***************************************************************************)
(* The lock for TLC: a counter of a few values, so that it wraps again and *)
(* again while the relay is held.                                          *)
(***************************************************************************)
EXTENDS LockControl

MCFlagSets == {{"FSSL"}, {"FNOANTILOCK"}, {"FSSL", "FNOSERVICE"}}
MCTwoFlagSets == {{"FSSL"}, {"FNOANTILOCK"}}
=============================================================================
