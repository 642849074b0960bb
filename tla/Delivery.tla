------------------------------ MODULE Delivery ------------------------------
(***************************************************************************)
(* From the collectors to the projections: the local queue (LocalStore),   *)
(* the clients of internal/sync that drain it (the agent's loop, a hook,   *)
(* an import), and the server (Ledger).                                    *)
(*                                                                         *)
(* SyncOnce is three steps, between which anything may happen: it reads a  *)
(* batch and posts it; the server serves the request; the client marks     *)
(* what was not rejected.  A client that times out or dies leaves its      *)
(* request behind, and the server may still serve it.                      *)
(***************************************************************************)
EXTENDS LocalStore, Ledger

CONSTANTS
    Clients,    \* processes that call SyncOnce
    Agent,      \* the one that loops for ever (Client.Run)
    Idle,       \* a client that waits for no answer
    Limit,      \* size of a batch (250)
    MaxFaults   \* bound: failures and timeouts in a behaviour

ASSUME DeliveryAssumption ==
    /\ Agent \in Clients
    /\ Idle \notin Handlers
    /\ Limit \in Nat \ {0}
    /\ MaxFaults \in Nat

VARIABLES
    waitsFor,   \* waitsFor[c]: the handler of c's request, or Idle
    faults,     \* failures so far
    cut,        \* sessions whose rebuild was abandoned, and none succeeded since
    raced       \* sessions whose runs were overwritten from an older reading

vars == <<localVars, serverVars, waitsFor, faults, cut, raced>>

Init ==
    /\ LocalInit
    /\ ServerInit
    /\ waitsFor = [c \in Clients |-> Idle]
    /\ faults = 0
    /\ cut = {}
    /\ raced = {}

-----------------------------------------------------------------------------
\* The collectors.

SameSession(S) == \A e, f \in S : SessionOf[e] = SessionOf[f]

Batches(S) == {b \in SUBSET S : b # {} /\ SameSession(b)}

\* A transcript or metric scan commits what it parsed.
Collect(b, v) ==
    /\ InsertNew(b, v)
    /\ UNCHANGED <<serverVars, waitsFor, faults, cut, raced>>

\* A hook or an import queues what it produced.
Queue(b, v) ==
    /\ Enqueue(b, v)
    /\ UNCHANGED <<serverVars, waitsFor, faults, cut, raced>>

-----------------------------------------------------------------------------
\* SyncOnce.

SyncSend(c, h) ==
    /\ waitsFor[c] = Idle
    /\ \E S \in Pending(Limit) :
          /\ S # {}
          /\ Receive(h, [e \in Events |-> IF e \in S THEN row[e] ELSE None])
    /\ waitsFor' = [waitsFor EXCEPT ![c] = h]
    /\ UNCHANGED <<localVars, ledger, projection, faults, cut, raced>>

\* Fault: rejected events are acknowledged too.
SyncAck_Rejected(c, h) ==
    /\ waitsFor[c] = h
    /\ handler[h].phase = "replied"
    /\ MarkAcknowledged(InBatch(handler[h].batch))
    /\ Release(h)
    /\ waitsFor' = [waitsFor EXCEPT ![c] = Idle]
    /\ UNCHANGED <<ledger, projection, faults, cut, raced>>

\* Fault: a rejected event keeps the whole batch pending.
SyncAck_AllOrNone(c, h) ==
    /\ waitsFor[c] = h
    /\ handler[h].phase = "replied"
    /\ MarkAcknowledged(IF rejected(h) = {} THEN InBatch(handler[h].batch) ELSE {})
    /\ Release(h)
    /\ waitsFor' = [waitsFor EXCEPT ![c] = Idle]
    /\ UNCHANGED <<ledger, projection, faults, cut, raced>>

\* Status 200: everything posted and not rejected is acknowledged, by id.
SyncAck(c, h) ==
    /\ waitsFor[c] = h
    /\ handler[h].phase = "replied"
    /\ MarkAcknowledged(InBatch(handler[h].batch) \ rejected(h))
    /\ Release(h)
    /\ waitsFor' = [waitsFor EXCEPT ![c] = Idle]
    /\ UNCHANGED <<ledger, projection, faults, cut, raced>>

\* Any other status: the batch stays pending.
SyncError(c, h) ==
    /\ waitsFor[c] = h
    /\ handler[h].phase = "failed"
    /\ Release(h)
    /\ waitsFor' = [waitsFor EXCEPT ![c] = Idle]
    /\ UNCHANGED <<localVars, ledger, projection, faults, cut, raced>>

\* The client times out, loses the connection or is killed.
GiveUp(c) ==
    /\ waitsFor[c] # Idle
    /\ faults < MaxFaults
    /\ faults' = faults + 1
    /\ waitsFor' = [waitsFor EXCEPT ![c] = Idle]
    /\ UNCHANGED <<localVars, serverVars, cut, raced>>

-----------------------------------------------------------------------------
\* The server.

Unattended(h) == \A c \in Clients : waitsFor[c] # h

HandlerStep(h) ==
    /\ \/ IngestCommit(h) \/ Reply(h)
       \/ \E s \in Sessions : RebuildRead(h, s)
    /\ UNCHANGED <<localVars, waitsFor, faults, cut, raced>>

HandlerWrite(h, s) ==
    /\ RebuildWrite(h, s)
    /\ IF handler[h].snapshot = sessionEvents(s)
       THEN cut' = cut \ {s} /\ raced' = raced \ {s}
       ELSE raced' = raced \cup {s} /\ UNCHANGED cut
    /\ UNCHANGED <<localVars, waitsFor, faults>>

HandlerFail(h) ==
    /\ faults < MaxFaults
    /\ faults' = faults + 1
    /\ Fail(h)
    /\ cut' = cut \cup handler[h].touched
    /\ UNCHANGED <<localVars, waitsFor, raced>>

HandlerDiscard(h) ==
    /\ handler[h].phase \in {"replied", "failed"}
    /\ Unattended(h)
    /\ Release(h)
    /\ UNCHANGED <<localVars, ledger, projection, waitsFor, faults, cut, raced>>

StartRebuildAll(h) ==
    /\ RebuildAll(h)
    /\ UNCHANGED <<localVars, waitsFor, faults, cut, raced>>

Next ==
    \/ \E b \in Batches(Events \ Wakapi), v \in Versions : Collect(b, v)
    \/ \E b \in Batches(Events), v \in Versions : Queue(b, v)
    \/ \E c \in Clients, h \in Handlers : SyncSend(c, h) \/ SyncAck(c, h) \/ SyncError(c, h)
    \/ \E c \in Clients : GiveUp(c)
    \/ \E h \in Handlers :
          \/ HandlerStep(h) \/ HandlerFail(h) \/ HandlerDiscard(h) \/ StartRebuildAll(h)
          \/ \E s \in Sessions : HandlerWrite(h, s)

Spec == Init /\ [][Next]_vars

(***************************************************************************)
(* Client.Run retries for ever with a bounded delay, every request has a   *)
(* timeout, and the server serves what it has received; nothing makes a    *)
(* hook, an import or a rebuild start.  Sending is strongly fair because   *)
(* only the model limits how many requests the server takes at a time: a   *)
(* slot that is free again and again is as good as one that stays free.    *)
(***************************************************************************)
Fairness ==
    /\ SF_vars(\E h \in Handlers : SyncSend(Agent, h))
    /\ \A c \in Clients, h \in Handlers : WF_vars(SyncAck(c, h) \/ SyncError(c, h))
    /\ \A h \in Handlers :
          WF_vars(HandlerStep(h) \/ HandlerDiscard(h) \/ \E s \in Sessions : HandlerWrite(h, s))

FairSpec == Spec /\ Fairness

-----------------------------------------------------------------------------
TypeOK ==
    /\ LocalTypeOK
    /\ ServerTypeOK
    /\ waitsFor \in [Clients -> Handlers \cup {Idle}]
    /\ faults \in 0..MaxFaults
    /\ cut \subseteq Sessions
    /\ raced \subseteq Sessions

(***************************************************************************)
(* An acknowledged event is in the server's events table, and there it     *)
(* says what the local row says unless it is from wakapi: no loss of a     *)
(* request, answer, client or handler, and no retry, makes the queue drop  *)
(* an event the server does not have.                                      *)
(***************************************************************************)
AckedEventsAreStored ==
    \A e \in Events :
        syncState[e] = "acknowledged" =>
            /\ ledger[e] # None
            /\ e \notin Wakapi => ledger[e] = row[e]

(***************************************************************************)
(* The runs of a session come from events of that session that the events  *)
(* table holds, even while rebuilds race with ingestion and are cut short. *)
(***************************************************************************)
RunsComeFromTheLedger ==
    \A s \in Sessions, e \in Events :
        projection[s][e] # None =>
            /\ SessionOf[e] = s
            /\ ledger[e] # None
            /\ e \notin Wakapi => projection[s][e] = ledger[e]

(***************************************************************************)
(* What makes the two invariants above inductive.                          *)
(***************************************************************************)
\* A request carries rows of the queue; those of transcripts never change.
RequestsCarryRows ==
    \A h \in Handlers, e \in Events :
        handler[h].batch[e] # None =>
            /\ row[e] # None
            /\ e \notin Wakapi => handler[h].batch[e] = row[e]

\* So do the stored events.
StoredEventsAreRows ==
    \A e \in Events \ Wakapi : ledger[e] # None => ledger[e] = row[e]

\* Past its commit, a request's valid events are stored.
ServedRequestsAreStored ==
    \A h \in Handlers :
        handler[h].phase \in {"rebuilding", "writing", "replied"} =>
            \A e \in InBatch(handler[h].batch) \cap Valid : ledger[e] # None

\* What a rebuild has read is stored, and of the session it rebuilds.
SnapshotsComeFromTheLedger ==
    \A h \in Handlers, e \in Events :
        handler[h].snapshot[e] # None =>
            /\ \A s \in handler[h].current : SessionOf[e] = s
            /\ ledger[e] # None
            /\ e \notin Wakapi => handler[h].snapshot[e] = ledger[e]

IndInv ==
    /\ TypeOK
    /\ AckedEventsAreStored /\ RunsComeFromTheLedger
    /\ RequestsCarryRows /\ StoredEventsAreRows
    /\ ServedRequestsAreStored /\ SnapshotsComeFromTheLedger

Fresh(s) == projection[s] = sessionEvents(s)

HasProject(s) == \E e \in Carriers : sessionEvents(s)[e] # None

\* Handler h will still write what the table holds of s now.
WillRebuild(h, s) ==
    /\ s \in handler[h].touched
    /\ \/ handler[h].phase = "rebuilding"
       \/ handler[h].phase = "writing"
          /\ (handler[h].current = {s} => handler[h].snapshot = sessionEvents(s))

(***************************************************************************)
(* Out-of-date runs have one of three causes: a rebuild is on its way, one *)
(* was abandoned after its events were committed, or one wrote what it had *)
(* read before a newer rebuild finished.  In particular, without failures  *)
(* and without concurrent requests runs are never left out of date.        *)
(***************************************************************************)
StaleRunsHaveACause ==
    \A s \in Sessions :
        \/ Fresh(s) \/ ~HasProject(s)
        \/ s \in cut \cup raced
        \/ \E h \in Handlers : WillRebuild(h, s)

Quiet == \A h \in Handlers : handler[h].phase \notin {"received", "rebuilding", "writing"}

(***************************************************************************)
(* README.md:117 "rebuilds projections from them", docs/architecture.md:6  *)
(* "deterministically rebuilds runs": once no request is being served and  *)
(* the queue is empty, retries included, the runs of every session with a  *)
(* project are those of its stored events.                                 *)
(***************************************************************************)
ProjectionsFollowTheLedger ==
    Quiet /\ PendingEvents = {} => \A s \in Sessions : Fresh(s) \/ ~HasProject(s)

(***************************************************************************)
(* Scanning again, queueing again and late answers never make the queue    *)
(* send an acknowledged event again, unless it is from wakapi.             *)
(***************************************************************************)
AckedEventsStayAcked ==
    [][\A e \in Events \ Wakapi :
          syncState[e] = "acknowledged" =>
              syncState'[e] = "acknowledged" /\ row'[e] = row[e]]_vars

\* How far an event has come, in the terms of EventTransfer.
Stage(e) ==
    IF row[e] = None THEN "absent"
    ELSE IF syncState[e] = "acknowledged" THEN "confirmed"
    ELSE IF ledger[e] # None THEN "stored" ELSE "recorded"

Transfer == INSTANCE EventTransfer WITH stage <- [e \in Events |-> Stage(e)]

(***************************************************************************)
(* Seen from outside, requests, answers, retries, timeouts and failures    *)
(* are nothing but events that are stored once by the server and then      *)
(* confirmed: queue, clients and server implement EventTransfer.           *)
(***************************************************************************)
ImplementsEventTransfer == Transfer!Spec

(***************************************************************************)
(* README.md:113 "The local queue allows batches to be synchronized later":*)
(* every event the server can accept is acknowledged in the end, however   *)
(* often requests fail or time out first.                                  *)
(***************************************************************************)
EventuallyDelivered ==
    \A e \in Valid : row[e] # None ~> syncState[e] = "acknowledged"

=============================================================================
