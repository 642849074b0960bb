----------------------------- MODULE MCDelivery -----------------------------
(***************************************************************************)
(* Instances of Delivery for TLC.  The event head opens session 1 and      *)
(* names its project, body belongs to session 1 too; waka is an event of   *)
(* wakapi, in a session of its own; bad is one the server rejects.         *)
(***************************************************************************)
EXTENDS Delivery, TLC

CONSTANTS head, body, waka, bad

MCSessionOf == [e \in Events |-> IF e = waka THEN 2 ELSE 1]
MCAt == [e \in Events |-> IF e = bad THEN 1 ELSE IF e = head THEN 2 ELSE 3]
MCValid == Events \ {bad}
MCCarriers == Events \cap {head, waka}
MCWakapi == Events \cap {waka}

Symmetric == Permutations(Handlers) \cup Permutations(Clients) \cup Permutations(Versions)
=============================================================================
