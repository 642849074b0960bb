----------------------------- MODULE MCHookSync -----------------------------
(***************************************************************************)
(* Instances of HookSync for TLC.                                          *)
(***************************************************************************)
EXTENDS HookSync, TLC

Symmetric == Permutations(Processes) \cup Permutations(Projects) \cup Permutations(Sessions)
=============================================================================
