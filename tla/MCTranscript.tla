---------------------------- MODULE MCTranscript ----------------------------
(***************************************************************************)
(* Instances of Transcript for TLC: transcripts with sessions of their own *)
(* (one of them changes its session, as a forked conversation does), and   *)
(* transcripts with one session each.                                      *)
(***************************************************************************)
EXTENDS Transcript, TLC

CONSTANTS s1, s2, s3

OwnSessions == [p \in Paths |-> IF p = 1 THEN {s1, s2} ELSE {s3}]

\* The second transcript, which nobody can read, has no lines.
OneSessionEach == [p \in Paths |-> CASE p = 1 -> {s1} [] p = 2 -> {} [] OTHER -> {s3}]

Symmetric == Permutations(Scanners)
=============================================================================
