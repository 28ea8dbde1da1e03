--------------------------- MODULE MCStationTable ---------------------------
(***************************************************************************)
(* The station table for TLC.  Stations and addresses are interchangeable. *)
(***************************************************************************)
EXTENDS StationTable, TLC

Symmetry == Permutations(Macs) \cup Permutations(Ips)
=============================================================================
