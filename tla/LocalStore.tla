----------------------------- MODULE LocalStore -----------------------------
(***************************************************************************)
(* The events table of the local SQLite database (internal/localdb), the   *)
(* queue between the collectors and the synchronisation clients.           *)
(***************************************************************************)
EXTENDS EventModel

CONSTANT At     \* At[e]: occurred_at, the order Pending returns events in

ASSUME LocalStoreAssumption == At \in [Events -> Nat]

VARIABLES
    row,        \* row[e]: the version stored, None if there is no row
    syncState   \* syncState[e]: "pending" or "acknowledged"

localVars == <<row, syncState>>

LocalInit ==
    /\ row = Nothing
    /\ syncState = [e \in Events |-> "pending"]

LocalTypeOK ==
    /\ row \in Content
    /\ syncState \in [Events -> {"pending", "acknowledged"}]

\* INSERT ... ON CONFLICT DO NOTHING, as CommitParsed and CommitMetrics do.
InsertNew(batch, v) ==
    /\ row' = [e \in Events |-> IF e \in batch /\ row[e] = None THEN v ELSE row[e]]
    /\ UNCHANGED syncState

\* Fault: every event given is queued again, whether or not its row changes.
Enqueue_Again(batch, v) ==
    LET rewritten == {e \in batch : row[e] = None \/ (e \in Wakapi /\ row[e] # v)}
    IN  /\ row' = [e \in Events |-> IF e \in rewritten THEN v ELSE row[e]]
        /\ syncState' = [e \in Events |-> IF e \in batch THEN "pending" ELSE syncState[e]]

\* Enqueue: an existing row is rewritten, and queued again, if it is from
\* wakapi and says something else now.
Enqueue(batch, v) ==
    LET rewritten == {e \in batch : row[e] = None \/ (e \in Wakapi /\ row[e] # v)}
    IN  /\ row' = [e \in Events |-> IF e \in rewritten THEN v ELSE row[e]]
        /\ syncState' = [e \in Events |-> IF e \in rewritten THEN "pending" ELSE syncState[e]]

\* Fault: a state the schema does not know.
MarkAcknowledged_Unknown(ids) ==
    /\ syncState' = [e \in Events |-> IF e \in ids THEN "synced" ELSE syncState[e]]
    /\ UNCHANGED row

MarkAcknowledged(ids) ==
    /\ syncState' = [e \in Events |-> IF e \in ids THEN "acknowledged" ELSE syncState[e]]
    /\ UNCHANGED row

PendingEvents == {e \in Events : row[e] # None /\ syncState[e] = "pending"}

Smaller(a, b) == IF a < b THEN a ELSE b

\* The answers Pending(limit) may give: ORDER BY occurred_at LIMIT limit leaves
\* the order of ties open.
Pending(limit) ==
    {S \in SUBSET PendingEvents :
        /\ Cardinality(S) = Smaller(limit, Cardinality(PendingEvents))
        /\ \A e \in S, f \in PendingEvents \ S : At[e] <= At[f]}
=============================================================================
