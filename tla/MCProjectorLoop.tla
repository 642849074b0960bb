--------------------------- MODULE MCProjectorLoop ---------------------------
(***************************************************************************)
(* Instances of ProjectorLoop for TLC.                                     *)
(***************************************************************************)
EXTENDS ProjectorLoop, TLC

\* Run and event ids are interchangeable: the loop only compares them.
Symmetric == Permutations(RunIDs) \cup Permutations(EventIDs)
=============================================================================
