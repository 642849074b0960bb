------------------------------- MODULE Ledger -------------------------------
(***************************************************************************)
(* The server: the ingest and rebuild handlers of internal/api/server.go   *)
(* over Store.Ingest, Store.RebuildSession and Store.RebuildAll of         *)
(* internal/postgres/store.go.                                             *)
(*                                                                         *)
(* Each request is served by a handler of its own.  Ingest commits the     *)
(* events in one transaction and then rebuilds the touched sessions one by *)
(* one; RebuildSession reads the session's events outside the transaction  *)
(* that replaces its runs.  Every transaction is one step.  A projection   *)
(* is represented by the events it was computed from: runs are a function  *)
(* of them (module Projector).                                             *)
(***************************************************************************)
EXTENDS EventModel

CONSTANTS
    Valid,      \* events Ingest does not reject: session, ids and time are well formed
    Carriers,   \* events whose payload names a project
    Sessions,
    SessionOf,  \* SessionOf[e]
    Handlers    \* slots for requests being served

ASSUME LedgerAssumption ==
    /\ Valid \subseteq Events
    /\ Carriers \subseteq Events
    /\ SessionOf \in [Events -> Sessions]

VARIABLES
    ledger,     \* ledger[e]: the version in the events table, None if absent
    projection, \* projection[s]: the events, with versions, the runs of s come from
    handler     \* handler[h]: the request h serves

serverVars == <<ledger, projection, handler>>

Free == [phase |-> "free", batch |-> Nothing, touched |-> {}, snapshot |-> Nothing,
         current |-> {}]

(***************************************************************************)
(* A handler is free, has a request (received), has sessions to rebuild    *)
(* (rebuilding; touched), has read one of them (writing; current is the    *)
(* singleton of its session), or has its answer ready (replied: status     *)
(* 200; failed: any other).                                                *)
(***************************************************************************)
Handler == [phase : {"free", "received", "rebuilding", "writing", "replied", "failed"},
            batch : Content, touched : SUBSET Sessions, snapshot : Content,
            current : SUBSET Sessions]

ServerInit ==
    /\ ledger = Nothing
    /\ projection = [s \in Sessions |-> Nothing]
    /\ handler = [h \in Handlers |-> Free]

ServerTypeOK ==
    /\ ledger \in Content
    /\ projection \in [Sessions -> Content]
    /\ handler \in [Handlers -> Handler]

\* sessionEvents: what the table holds of a session now.
sessionEvents(s) == [e \in Events |-> IF SessionOf[e] = s THEN ledger[e] ELSE None]

InBatch(b) == {e \in Events : b[e] # None}

\* A request arrives.
Receive(h, batch) ==
    /\ handler[h].phase = "free"
    /\ handler' = [handler EXCEPT ![h] = [Free EXCEPT !.phase = "received", !.batch = batch]]

\* Fault: rejected events are stored all the same.
affected_Unchecked(batch) ==
    {e \in InBatch(batch) : ledger[e] = None \/ (e \in Wakapi /\ ledger[e] # batch[e])}

\* The rows INSERT ... ON CONFLICT(id) DO UPDATE affects: new ones, and those of
\* wakapi that differ.
affected(batch) ==
    {e \in InBatch(batch) \cap Valid :
        ledger[e] = None \/ (e \in Wakapi /\ ledger[e] # batch[e])}

\* Fault: a rewritten event causes no rebuild.
IngestCommit_NewOnly(h) ==
    LET b == handler[h].batch
    IN  /\ handler[h].phase = "received"
        /\ ledger' = [e \in Events |-> IF e \in affected(b) THEN b[e] ELSE ledger[e]]
        /\ handler' = [handler EXCEPT ![h].phase = "rebuilding",
              ![h].touched = {SessionOf[e] : e \in {x \in affected(b) : ledger[x] = None}}]
        /\ UNCHANGED projection

\* Ingest up to its commit; rejected events are left out of the transaction.
IngestCommit(h) ==
    LET b == handler[h].batch
    IN  /\ handler[h].phase = "received"
        /\ ledger' = [e \in Events |-> IF e \in affected(b) THEN b[e] ELSE ledger[e]]
        /\ handler' = [handler EXCEPT ![h].phase = "rebuilding",
                                      ![h].touched = {SessionOf[e] : e \in affected(b)}]
        /\ UNCHANGED projection

\* POST of the internal API: RebuildAll lists the sessions, then rebuilds each.
RebuildAll(h) ==
    /\ handler[h].phase = "free"
    /\ handler' = [handler EXCEPT ![h] =
                      [Free EXCEPT !.phase = "rebuilding",
                                   !.touched = {SessionOf[e] : e \in {x \in Events : ledger[x] # None}}]]
    /\ UNCHANGED <<ledger, projection>>

\* RebuildSession reads the events.  Without a project nothing is written.
RebuildRead(h, s) ==
    /\ handler[h].phase = "rebuilding"
    /\ s \in handler[h].touched
    /\ IF \E e \in Carriers : sessionEvents(s)[e] # None
       THEN handler' = [handler EXCEPT ![h].phase = "writing", ![h].current = {s},
                                       ![h].snapshot = sessionEvents(s)]
       ELSE handler' = [handler EXCEPT ![h].touched = @ \ {s}]
    /\ UNCHANGED <<ledger, projection>>

\* Fault: the runs of one session are written for every touched one.
RebuildWrite_Touched(h, s) ==
    /\ handler[h].phase = "writing"
    /\ handler[h].current = {s}
    /\ projection' = [t \in Sessions |-> IF t \in handler[h].touched THEN handler[h].snapshot
                                         ELSE projection[t]]
    /\ handler' = [handler EXCEPT ![h].phase = "rebuilding", ![h].touched = @ \ {s},
                                  ![h].current = {}, ![h].snapshot = Nothing]
    /\ UNCHANGED ledger

\* ... and replaces the session's runs in one transaction.
RebuildWrite(h, s) ==
    /\ handler[h].phase = "writing"
    /\ handler[h].current = {s}
    /\ projection' = [projection EXCEPT ![s] = handler[h].snapshot]
    /\ handler' = [handler EXCEPT ![h].phase = "rebuilding", ![h].touched = @ \ {s},
                                  ![h].current = {}, ![h].snapshot = Nothing]
    /\ UNCHANGED ledger

\* All touched sessions are rebuilt: status 200.
Reply(h) ==
    /\ handler[h].phase = "rebuilding"
    /\ handler[h].touched = {}
    /\ handler' = [handler EXCEPT ![h].phase = "replied"]
    /\ UNCHANGED <<ledger, projection>>

\* The request is lost or refused, the database returns an error, the context is
\* cancelled because the client left, or the server dies: the open transaction
\* is rolled back, the remaining sessions are not rebuilt.
Fail(h) ==
    /\ handler[h].phase \in {"received", "rebuilding", "writing"}
    /\ handler' = [handler EXCEPT ![h].phase = "failed", ![h].touched = {},
                                  ![h].current = {}, ![h].snapshot = Nothing]
    /\ UNCHANGED <<ledger, projection>>

\* Nobody waits for the answer any more.
Release(h) == handler' = [handler EXCEPT ![h] = Free]

\* The events the answer of h reports as rejected.
rejected(h) == InBatch(handler[h].batch) \ Valid
=============================================================================
