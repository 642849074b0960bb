--------------------------- MODULE MCRegistration ---------------------------
(***************************************************************************)
(* Instances of Registration for TLC.                                      *)
(***************************************************************************)
EXTENDS Registration, TLC

Symmetric == Permutations(Attempts) \cup Permutations(Clients)
=============================================================================
