--------------------------- MODULE MCWakapiImport ---------------------------
(***************************************************************************)
(* Instances of WakapiImport for TLC.                                      *)
(***************************************************************************)
EXTENDS WakapiImport, TLC

Symmetric == Permutations(Processes) \cup Permutations(Projects)
=============================================================================
