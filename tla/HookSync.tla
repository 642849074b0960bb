------------------------------ MODULE HookSync ------------------------------
(***************************************************************************)
(* The end of the hook command: a hook synchronises the queue unless some  *)
(* hook did so less than hook_sync_interval ago.  Module Delivery has the  *)
(* queue with its server and the agent's own loop; here it holds what the  *)
(* hooks queue, and only hooks send it.  (Without a server or a token a    *)
(* hook ends before all this, main.go:243.)                                *)
(***************************************************************************)
EXTENDS Hooks

CONSTANTS
    SyncInterval,   \* hook_sync_interval
    Batch           \* the events one request carries (250)

ASSUME HookSyncAssumption == SyncInterval \in Nat \ {0} /\ Batch \in Nat \ {0}

VARIABLES
    batch,      \* batch[p]: the events the process p read from the queue
    sent,       \* the acknowledged events
    lastSync,   \* metadata hook_last_sync_at
    \* history, which no step reads
    reads,      \* times of the hooks that read the queue
    early,      \* <<i, t>>: a hook of the time t read the queue before i was there
    full        \* times of the hooks that delivered Batch events

syncVars == <<hookVars, batch, sent, lastSync, reads, early, full>>

\* The events that describe an interval.
Kinds == {"session_started", "run_started", "run_completed"}
hookIntervalEvents(i) == {[of |-> i, kind |-> k] : k \in Kinds}
occurredAt(e) == IF e.kind = "run_completed" THEN e.of.to ELSE e.of.from

SyncInit ==
    /\ HooksInit
    /\ batch = [p \in Processes |-> {}]
    /\ sent = {} /\ lastSync = None
    /\ reads = {} /\ early = {} /\ full = {}

\* Up to the queue, or the end of a hook that fails.
Collect(p) ==
    /\ HookStep(p)
    /\ early' = early \cup (stored' \ stored) \X reads
    /\ UNCHANGED <<batch, sent, lastSync, reads, full>>

\* The process p is in state h now.
Turn(p, h) ==
    /\ hook' = [hook EXCEPT ![p] = h]
    /\ UNCHANGED <<clock, cutover, heartbeat, stored, started, faults, beats, dropped, overtaken, early>>

\* The throttle.
skip(p) == lastSync # None /\ hook[p].now - lastSync < SyncInterval

\* Fault: the time is recorded before the synchronisation.
SyncDecide_Records(p) ==
    /\ hook[p].phase = "queued"
    /\ Turn(p, IF skip(p) THEN NoHook ELSE [hook[p] EXCEPT !.phase = "syncing"])
    /\ lastSync' = IF skip(p) THEN lastSync ELSE hook[p].now
    /\ UNCHANGED <<batch, sent, reads, full>>

SyncDecide(p) ==
    /\ hook[p].phase = "queued"
    /\ Turn(p, IF skip(p) THEN NoHook ELSE [hook[p] EXCEPT !.phase = "syncing"])
    /\ UNCHANGED <<batch, sent, lastSync, reads, full>>

queue == UNION {hookIntervalEvents(i) : i \in stored}

pending == queue \ sent

\* Pending: the oldest events not yet acknowledged, at most Batch of them.
Pending(p) ==
    /\ hook[p].phase = "syncing"
    /\ Turn(p, [hook[p] EXCEPT !.phase = "posting"])
    /\ \E b \in SUBSET pending :
          /\ IF Cardinality(pending) <= Batch
             THEN b = pending
             ELSE /\ Cardinality(b) = Batch
                  /\ \A e \in b, f \in pending \ b : occurredAt(e) <= occurredAt(f)
          /\ batch' = [batch EXCEPT ![p] = b]
    /\ reads' = reads \cup {hook[p].now}
    /\ UNCHANGED <<sent, lastSync, full>>

\* The server stores the batch, and it is acknowledged; an empty one is not posted,
\* and no failure either.  Any failure, a lost answer too, is HookDie, which
\* acknowledges nothing.
SyncOnce(p) ==
    /\ hook[p].phase = "posting"
    /\ Turn(p, [hook[p] EXCEPT !.phase = "synced"])
    /\ sent' = sent \cup batch[p]
    /\ full' = IF Cardinality(batch[p] \cap sent') >= Batch THEN full \cup {hook[p].now} ELSE full
    /\ batch' = [batch EXCEPT ![p] = {}]
    /\ UNCHANGED <<lastSync, reads>>

\* Fault: the time of the next synchronisation is recorded.
SetLastSync_Due(p) ==
    /\ hook[p].phase = "synced"
    /\ Turn(p, NoHook)
    /\ lastSync' = hook[p].now + SyncInterval
    /\ UNCHANGED <<batch, sent, reads, full>>

\* The hook records its own time, taken at its start.
SetLastSync(p) ==
    /\ hook[p].phase = "synced"
    /\ Turn(p, NoHook)
    /\ lastSync' = hook[p].now
    /\ UNCHANGED <<batch, sent, reads, full>>

SyncNext ==
    \/ Tick /\ UNCHANGED <<batch, sent, lastSync, reads, early, full>>
    \/ \E p \in Processes :
          Collect(p) \/ SyncDecide(p) \/ Pending(p) \/ SyncOnce(p) \/ SetLastSync(p)

SyncSpec == SyncInit /\ [][SyncNext]_syncVars

-----------------------------------------------------------------------------
SyncTypeOK ==
    /\ HooksTypeOK
    /\ batch \in [Processes -> SUBSET queue]
    /\ sent \subseteq queue
    /\ lastSync \in Time \cup {None}
    /\ reads \subseteq Time /\ full \subseteq Time
    /\ early \subseteq stored \X Time

unsent == {i \in stored : ~(hookIntervalEvents(i) \subseteq sent)}

\* Hooks that synchronised, or may have, and yet could leave the interval i.
CouldMiss(i) == {t \in reads : <<i, t>> \in early} \cup full

\* The hook p ends and has not failed.
Completes(p) ==
    hook[p].phase \in {"queued", "synced"} /\ hook'[p].phase = "idle" /\ faults' = faults

(***************************************************************************)
(* The throttle strands no time: a hook that ends without failure leaves   *)
(* behind it an interval not fully delivered only if it began less than    *)
(* hook_sync_interval after a hook that could miss the interval, because   *)
(* it read the queue before the interval was there or delivered a full     *)
(* batch of other events.  A hook that failed is no such excuse, nor is    *)
(* one that read the interval and has not delivered it.                    *)
(***************************************************************************)
PassedOverTimeHasACause ==
    [][\A p \in Processes :
          Completes(p) =>
              \A i \in unsent : \E t \in CouldMiss(i) : hook[p].now - t < SyncInterval]_syncVars
=============================================================================
