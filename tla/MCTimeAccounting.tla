-------------------------- MODULE MCTimeAccounting --------------------------
(***************************************************************************)
(* Instances of TimeAccounting for TLC.                                    *)
(***************************************************************************)
EXTENDS TimeAccounting

Symmetric == Permutations(Projects)
=============================================================================
