--------------------------- MODULE EventTransfer ---------------------------
(***************************************************************************)
(* What the queue, its clients and the server promise together, without    *)
(* requests, answers, retries and failures: an event is recorded on the    *)
(* machine, then stored by the server, and only then confirmed, that is,   *)
(* never sent again.  Confirmed events stay confirmed, except that an      *)
(* event of wakapi may be revised and sent again.  Module Delivery         *)
(* implements this.                                                        *)
(***************************************************************************)
CONSTANTS
    Events,     \* event ids
    Valid,      \* those the server accepts
    Wakapi      \* those that may be revised

VARIABLE stage  \* stage[e]: how far e has come

Stages == {"absent", "recorded", "stored", "confirmed"}

Init == stage = [e \in Events |-> "absent"]

Move(S, from, to) ==
    /\ \A e \in S : stage[e] = from
    /\ stage' = [e \in Events |-> IF e \in S THEN to ELSE stage[e]]

\* New events, and revised ones, are queued together.
Record(S, R) ==
    /\ \A e \in S : stage[e] = "absent"
    /\ \A e \in R : stage[e] = "confirmed"
    /\ stage' = [e \in Events |-> IF e \in S THEN "recorded"
                                  ELSE IF e \in R THEN "stored" ELSE stage[e]]

Next ==
    \/ \E S \in SUBSET Events, R \in SUBSET Wakapi : Record(S, R)
    \/ \E S \in SUBSET Valid : Move(S, "recorded", "stored")
    \/ \E S \in SUBSET Events : Move(S, "stored", "confirmed")

Spec == Init /\ [][Next]_stage
=============================================================================
