----------------------------- MODULE MCMetrics -----------------------------
(***************************************************************************)
(* Instances of Metrics for TLC.                                           *)
(***************************************************************************)
EXTENDS Metrics, TLC

Symmetric == Permutations(Scanners) \cup Permutations(Turns)
=============================================================================
