----------------------------- MODULE EventModel -----------------------------
(***************************************************************************)
(* What the local queue and the server both know of events.                *)
(*                                                                         *)
(* An event is its id.  What a row says (occurred_at, payload) is a        *)
(* version; only events of source wakapi may be given another version      *)
(* under the same id.  None in place of a version means "no row".          *)
(***************************************************************************)
EXTENDS Integers, FiniteSets

CONSTANTS
    Events,     \* event ids
    Wakapi,     \* those of source wakapi
    Versions,   \* contents a row may have
    None        \* no row

ASSUME EventModelAssumption ==
    /\ Wakapi \subseteq Events
    /\ None \notin Versions

Content == [Events -> Versions \cup {None}]

Nothing == [e \in Events |-> None]
=============================================================================
