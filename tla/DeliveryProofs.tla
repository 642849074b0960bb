--------------------------- MODULE DeliveryProofs ---------------------------
(***************************************************************************)
(* Delivery is safe for any number of events, clients, requests and        *)
(* faults: IndInv is inductive, one step per action.                       *)
(***************************************************************************)
EXTENDS Delivery, TLAPS

\* The parts of IndInv that relate the queue, the requests and the ledger.
Linked ==
    /\ AckedEventsAreStored /\ RunsComeFromTheLedger
    /\ RequestsCarryRows /\ StoredEventsAreRows
    /\ ServedRequestsAreStored /\ SnapshotsComeFromTheLedger

\* Initially nothing is stored, queued or in flight.
LEMMA IndInvInit == Init => IndInv
  <1> SUFFICES ASSUME Init PROVE IndInv
    OBVIOUS
  <1>1. row = Nothing /\ ledger = Nothing /\ Nothing \in Content
        /\ \A e \in Events : Nothing[e] = None
    BY DEF Init, LocalInit, ServerInit, Nothing, Content
  <1>2. Free \in Handler /\ Free.batch = Nothing /\ Free.snapshot = Nothing /\ Free.phase = "free"
    BY <1>1 DEF Free, Handler
  <1>3. handler \in [Handlers -> Handler] /\ \A h \in Handlers : handler[h] = Free
    BY <1>2 DEF Init, ServerInit
  <1>4. /\ projection \in [Sessions -> Content]
        /\ \A s \in Sessions : projection[s] = Nothing
    BY <1>1 DEF Init, ServerInit
  <1>5. TypeOK
    BY <1>1, <1>3, <1>4, DeliveryAssumption DEF TypeOK, LocalTypeOK, ServerTypeOK, Init, LocalInit
  <1>6. AckedEventsAreStored
    BY DEF AckedEventsAreStored, Init, LocalInit
  <1>7. Linked
    BY <1>1, <1>2, <1>3, <1>4, <1>6
       DEF Linked, RunsComeFromTheLedger, RequestsCarryRows, StoredEventsAreRows,
           ServedRequestsAreStored, SnapshotsComeFromTheLedger
  <1> QED  BY <1>5, <1>7 DEF IndInv, Linked

\* A step of the queue that changes no row but rows of wakapi and absent ones,
\* and acknowledges nothing.
LEMMA QueueStep ==
    ASSUME IndInv,
           row' \in Content, syncState' \in [Events -> {"pending", "acknowledged"}],
           \A e \in Events : /\ row[e] # None => row'[e] # None
                             /\ row[e] # None /\ e \notin Wakapi => row'[e] = row[e]
                             /\ syncState'[e] = "acknowledged" => syncState[e] = "acknowledged",
           UNCHANGED <<serverVars, waitsFor, faults, cut, raced>>
    PROVE  IndInv'
  <1>1. TypeOK'
    BY DEF IndInv, TypeOK, LocalTypeOK, ServerTypeOK, serverVars
  <1>2. AckedEventsAreStored' /\ StoredEventsAreRows'
    BY DEF IndInv, AckedEventsAreStored, StoredEventsAreRows, serverVars
  <1>3. RequestsCarryRows'
    BY DEF IndInv, RequestsCarryRows, serverVars
  <1>4. RunsComeFromTheLedger' /\ ServedRequestsAreStored' /\ SnapshotsComeFromTheLedger'
    BY DEF IndInv, RunsComeFromTheLedger, ServedRequestsAreStored,
           SnapshotsComeFromTheLedger, InBatch, serverVars
  <1> QED  BY <1>1, <1>2, <1>3, <1>4 DEF IndInv

\* Scans.
LEMMA CollectStep ==
    ASSUME IndInv, NEW b \in SUBSET Events, NEW v \in Versions, Collect(b, v)
    PROVE  IndInv'
  <1>1. /\ row' \in Content
        /\ \A e \in Events : row[e] # None => row'[e] = row[e]
    BY DEF Collect, InsertNew, IndInv, TypeOK, LocalTypeOK, Content
  <1> QED
    BY <1>1, QueueStep DEF Collect, InsertNew, IndInv, TypeOK, LocalTypeOK

\* Hooks and imports.
LEMMA QueueActionStep ==
    ASSUME IndInv, NEW b \in SUBSET Events, NEW v \in Versions, Queue(b, v)
    PROVE  IndInv'
  <1>1. /\ row' \in Content
        /\ \A e \in Events : /\ row[e] # None => row'[e] # None
                             /\ row[e] # None /\ e \notin Wakapi => row'[e] = row[e]
    BY EventModelAssumption DEF Queue, Enqueue, IndInv, TypeOK, LocalTypeOK, Content
  <1>2. /\ syncState' \in [Events -> {"pending", "acknowledged"}]
        /\ \A e \in Events : syncState'[e] = "acknowledged" => syncState[e] = "acknowledged"
    BY DEF Queue, Enqueue, IndInv, TypeOK, LocalTypeOK
  <1> QED
    BY <1>1, <1>2, QueueStep DEF Queue

\* One handler changes; the queue and the ledger do not.  The new record must
\* respect what IndInv says of handlers.
LEMMA HandlerChange ==
    ASSUME IndInv, NEW h \in Handlers, NEW r \in Handler,
           handler' = [handler EXCEPT ![h] = r],
           UNCHANGED <<row, ledger>>,
           \A e \in Events : r.batch[e] # None =>
               /\ row[e] # None
               /\ e \notin Wakapi => r.batch[e] = row[e],
           r.phase \in {"rebuilding", "writing", "replied"} =>
               \A e \in InBatch(r.batch) \cap Valid : ledger[e] # None,
           \A e \in Events : r.snapshot[e] # None =>
               /\ \A s \in r.current : SessionOf[e] = s
               /\ ledger[e] # None
               /\ e \notin Wakapi => r.snapshot[e] = ledger[e]
    PROVE  /\ handler' \in [Handlers -> Handler]
           /\ RequestsCarryRows' /\ StoredEventsAreRows'
           /\ ServedRequestsAreStored' /\ SnapshotsComeFromTheLedger'
  <1>1. handler \in [Handlers -> Handler]
    BY DEF IndInv, TypeOK, ServerTypeOK
  <1>2. /\ handler' \in [Handlers -> Handler]
        /\ \A k \in Handlers : handler'[k] = IF k = h THEN r ELSE handler[k]
    BY <1>1
  <1>3. RequestsCarryRows'
    BY <1>2 DEF IndInv, RequestsCarryRows
  <1>4. StoredEventsAreRows'
    BY DEF IndInv, StoredEventsAreRows
  <1>5. ServedRequestsAreStored'
    BY <1>2 DEF IndInv, ServedRequestsAreStored, InBatch
  <1>6. SnapshotsComeFromTheLedger'
    BY <1>2 DEF IndInv, SnapshotsComeFromTheLedger
  <1> QED  BY <1>2, <1>3, <1>4, <1>5, <1>6

\* The facts IndInv gives about one handler.
LEMMA HandlerFacts ==
    ASSUME IndInv, NEW h \in Handlers
    PROVE  /\ handler[h] \in Handler
           /\ \A e \in Events : handler[h].batch[e] # None =>
                 /\ row[e] # None
                 /\ e \notin Wakapi => handler[h].batch[e] = row[e]
           /\ handler[h].phase \in {"rebuilding", "writing", "replied"} =>
                 \A e \in InBatch(handler[h].batch) \cap Valid : ledger[e] # None
           /\ \A e \in Events : handler[h].snapshot[e] # None =>
                 /\ \A s \in handler[h].current : SessionOf[e] = s
                 /\ ledger[e] # None
                 /\ e \notin Wakapi => handler[h].snapshot[e] = ledger[e]
  BY DEF IndInv, TypeOK, ServerTypeOK, RequestsCarryRows, ServedRequestsAreStored,
         SnapshotsComeFromTheLedger

\* An empty handler, and an empty batch or snapshot.
LEMMA FreeFacts ==
    /\ Nothing \in Content
    /\ \A e \in Events : Nothing[e] = None
    /\ Free \in Handler
    /\ Free = [phase |-> "free", batch |-> Nothing, touched |-> {}, snapshot |-> Nothing,
               current |-> {}]
  BY DEF Nothing, Content, Free, Handler

\* What remains to be shown when a step only changes a handler.
LEMMA HandlerOnly ==
    ASSUME IndInv, UNCHANGED <<localVars, ledger, projection>>,
           waitsFor' \in [Clients -> Handlers \cup {Idle}], faults' \in 0..MaxFaults,
           cut' \subseteq Sessions, raced' \subseteq Sessions,
           handler' \in [Handlers -> Handler],
           RequestsCarryRows', StoredEventsAreRows',
           ServedRequestsAreStored', SnapshotsComeFromTheLedger'
    PROVE  IndInv'
  <1>1. TypeOK'
    BY DEF IndInv, TypeOK, LocalTypeOK, ServerTypeOK, localVars
  <1>2. AckedEventsAreStored' /\ RunsComeFromTheLedger'
    BY DEF IndInv, AckedEventsAreStored, RunsComeFromTheLedger, localVars
  <1> QED  BY <1>1, <1>2 DEF IndInv

\* Posting a batch.
LEMMA SyncSendStep ==
    ASSUME IndInv, NEW c \in Clients, NEW h \in Handlers, SyncSend(c, h)
    PROVE  IndInv'
  <1>1. PICK S \in Pending(Limit) :
            Receive(h, [e \in Events |-> IF e \in S THEN row[e] ELSE None])
    BY DEF SyncSend
  <1> DEFINE batch == [e \in Events |-> IF e \in S THEN row[e] ELSE None]
             r == [Free EXCEPT !.phase = "received", !.batch = batch]
  <1>2. batch \in Content /\ \A e \in Events : batch[e] # None => batch[e] = row[e]
    BY DEF IndInv, TypeOK, LocalTypeOK, Content
  <1>3. handler' = [handler EXCEPT ![h] = r]
    BY <1>1 DEF Receive
  <1> HIDE DEF batch
  <1>4. /\ r \in Handler /\ r.batch = batch /\ r.phase = "received" /\ r.snapshot = Nothing
    BY <1>2, FreeFacts DEF Handler
  <1> HIDE DEF r
  <1>5. /\ handler' \in [Handlers -> Handler]
        /\ RequestsCarryRows' /\ StoredEventsAreRows'
        /\ ServedRequestsAreStored' /\ SnapshotsComeFromTheLedger'
    <2>1. \A e \in Events : r.batch[e] # None =>
              /\ row[e] # None
              /\ e \notin Wakapi => r.batch[e] = row[e]
      BY <1>2, <1>4
    <2>2. \A e \in Events : r.snapshot[e] = None
      BY <1>4, FreeFacts
    <2>3. UNCHANGED <<row, ledger>>
      BY DEF SyncSend, localVars
    <2> QED  BY <1>3, <1>4, <2>1, <2>2, <2>3, HandlerChange
  <1>6. waitsFor' \in [Clients -> Handlers \cup {Idle}]
    BY DEF SyncSend, IndInv, TypeOK
  <1> QED  BY <1>5, <1>6, HandlerOnly DEF SyncSend, IndInv, TypeOK

\* A freed handler.
LEMMA ReleaseStep ==
    ASSUME IndInv, NEW h \in Handlers, Release(h), UNCHANGED <<row, ledger>>
    PROVE  /\ handler' \in [Handlers -> Handler]
           /\ RequestsCarryRows' /\ StoredEventsAreRows'
           /\ ServedRequestsAreStored' /\ SnapshotsComeFromTheLedger'
  <1>1. handler' = [handler EXCEPT ![h] = Free]
    BY DEF Release
  <1>2. Free.batch = Nothing /\ Free.snapshot = Nothing /\ Free.phase = "free" /\ Free \in Handler
    BY FreeFacts
  <1> QED  BY <1>1, <1>2, FreeFacts, HandlerChange

\* Acknowledging a served batch: the only step that acknowledges.
LEMMA SyncAckStep ==
    ASSUME IndInv, NEW c \in Clients, NEW h \in Handlers, SyncAck(c, h)
    PROVE  IndInv'
  <1> DEFINE ids == InBatch(handler[h].batch) \ rejected(h)
  <1>1. /\ handler' \in [Handlers -> Handler]
        /\ RequestsCarryRows' /\ StoredEventsAreRows'
        /\ ServedRequestsAreStored' /\ SnapshotsComeFromTheLedger'
    BY ReleaseStep DEF SyncAck, MarkAcknowledged
  <1>2. ids = InBatch(handler[h].batch) \cap Valid
    BY DEF rejected
  <1>3. \A e \in ids : ledger[e] # None
    BY <1>2, HandlerFacts DEF SyncAck
  <1>4. /\ syncState' \in [Events -> {"pending", "acknowledged"}]
        /\ \A e \in Events : syncState'[e] = IF e \in ids THEN "acknowledged" ELSE syncState[e]
        /\ row' = row /\ ledger' = ledger /\ projection' = projection
    BY DEF SyncAck, MarkAcknowledged, IndInv, TypeOK, LocalTypeOK
  <1> HIDE DEF ids
  <1>5. AckedEventsAreStored'
    BY <1>3, <1>4 DEF IndInv, AckedEventsAreStored, StoredEventsAreRows
  <1>6. RunsComeFromTheLedger'
    BY <1>4 DEF IndInv, RunsComeFromTheLedger
  <1>7. TypeOK'
    BY <1>1, <1>4 DEF SyncAck, IndInv, TypeOK, LocalTypeOK, ServerTypeOK
  <1> QED  BY <1>1, <1>5, <1>6, <1>7 DEF IndInv

\* An error, a timeout, a discarded answer.
LEMMA SyncErrorStep ==
    ASSUME IndInv, NEW c \in Clients, NEW h \in Handlers, SyncError(c, h)
    PROVE  IndInv'
  <1>1. UNCHANGED <<row, ledger>> /\ Release(h)
    BY DEF SyncError, localVars
  <1>2. waitsFor' \in [Clients -> Handlers \cup {Idle}]
    BY DEF SyncError, IndInv, TypeOK
  <1> QED  BY <1>1, <1>2, ReleaseStep, HandlerOnly DEF SyncError, IndInv, TypeOK

\* A client that gives up.
LEMMA GiveUpStep ==
    ASSUME IndInv, NEW c \in Clients, GiveUp(c)
    PROVE  IndInv'
  <1>1. /\ waitsFor' \in [Clients -> Handlers \cup {Idle}]
        /\ faults' \in 0..MaxFaults
    BY DeliveryAssumption DEF GiveUp, IndInv, TypeOK
  <1>2. /\ RequestsCarryRows' /\ StoredEventsAreRows'
        /\ ServedRequestsAreStored' /\ SnapshotsComeFromTheLedger'
    BY DEF GiveUp, IndInv, RequestsCarryRows, StoredEventsAreRows, ServedRequestsAreStored,
           SnapshotsComeFromTheLedger, localVars, serverVars, InBatch
  <1> QED  BY <1>1, <1>2, HandlerOnly DEF GiveUp, IndInv, TypeOK, ServerTypeOK, serverVars

\* An answer nobody waits for.
LEMMA DiscardStep ==
    ASSUME IndInv, NEW h \in Handlers, HandlerDiscard(h)
    PROVE  IndInv'
  <1>1. UNCHANGED <<row, ledger>> /\ Release(h)
    BY DEF HandlerDiscard, localVars
  <1> QED  BY <1>1, ReleaseStep, HandlerOnly DEF HandlerDiscard, IndInv, TypeOK

\* Committing a request's events: rows are added, those of wakapi replaced.
LEMMA IngestCommitStep ==
    ASSUME IndInv, NEW h \in Handlers, IngestCommit(h),
           UNCHANGED <<localVars, waitsFor, faults, cut, raced>>
    PROVE  IndInv'
  <1> DEFINE b == handler[h].batch
             A == affected(b)
             r == [handler[h] EXCEPT !.phase = "rebuilding", !.touched = {SessionOf[e] : e \in A}]
  <1>1. /\ handler[h] \in Handler
        /\ \A e \in Events : b[e] # None => row[e] # None /\ (e \notin Wakapi => b[e] = row[e])
        /\ \A e \in Events : handler[h].snapshot[e] # None =>
                /\ \A s \in handler[h].current : SessionOf[e] = s
                /\ ledger[e] # None
                /\ e \notin Wakapi => handler[h].snapshot[e] = ledger[e]
    BY HandlerFacts
  <1>2. b \in Content /\ ledger \in Content
    BY <1>1 DEF Handler, IndInv, TypeOK, ServerTypeOK
  <1>3. A \subseteq Events /\ \A e \in A : b[e] # None
    BY DEF affected, InBatch
  <1>4. /\ ledger' = [e \in Events |-> IF e \in A THEN b[e] ELSE ledger[e]]
        /\ projection' = projection /\ row' = row /\ syncState' = syncState
    BY DEF IngestCommit, localVars
  <1>5. /\ ledger' \in Content
        /\ \A e \in Events : ledger'[e] = IF e \in A THEN b[e] ELSE ledger[e]
    BY <1>2, <1>4 DEF Content
  <1>6. \A e \in Events :
           /\ ledger[e] # None => ledger'[e] # None
           /\ ledger[e] # None /\ e \notin Wakapi => ledger'[e] = ledger[e]
           /\ e \notin Wakapi /\ ledger'[e] # None => ledger'[e] = row[e]
    BY <1>1, <1>3, <1>5 DEF affected, IndInv, StoredEventsAreRows
  <1>7. \A e \in InBatch(b) \cap Valid : ledger'[e] # None
    BY <1>3, <1>5, <1>6, LedgerAssumption DEF affected, InBatch
  <1>8. handler' = [handler EXCEPT ![h] = r]
    BY DEF IngestCommit, IndInv, TypeOK, ServerTypeOK
  <1>9. {SessionOf[e] : e \in A} \subseteq Sessions
    BY <1>3, LedgerAssumption
  <1>10. /\ r \in Handler /\ r.batch = b /\ r.snapshot = handler[h].snapshot
         /\ r.current = handler[h].current
    BY <1>1, <1>9 DEF Handler
  <1> HIDE DEF r, A, b
  <1>11. /\ handler' \in [Handlers -> Handler]
         /\ \A k \in Handlers : handler'[k] = IF k = h THEN r ELSE handler[k]
    BY <1>8, <1>10 DEF IndInv, TypeOK, ServerTypeOK
  <1>12. TypeOK'
    BY <1>4, <1>5, <1>11 DEF IndInv, TypeOK, LocalTypeOK, ServerTypeOK
  <1>13. AckedEventsAreStored'
    BY <1>4, <1>6 DEF IndInv, AckedEventsAreStored
  <1>14. RunsComeFromTheLedger'
    BY <1>4, <1>6 DEF IndInv, RunsComeFromTheLedger
  <1>15. RequestsCarryRows'
    BY <1>1, <1>4, <1>10, <1>11 DEF IndInv, RequestsCarryRows, b
  <1>16. StoredEventsAreRows'
    BY <1>4, <1>6 DEF StoredEventsAreRows
  <1>17. ServedRequestsAreStored'
    <2> SUFFICES ASSUME NEW k \in Handlers,
                        handler'[k].phase \in {"rebuilding", "writing", "replied"},
                        NEW e \in InBatch(handler'[k].batch) \cap Valid
                 PROVE  ledger'[e] # None
      BY DEF ServedRequestsAreStored, InBatch
    <2>1. CASE k = h
      BY <1>7, <1>10, <1>11, <2>1
    <2>2. CASE k # h
      BY <1>6, <1>11, <2>2 DEF IndInv, ServedRequestsAreStored, InBatch
    <2> QED  BY <2>1, <2>2
  <1>18. SnapshotsComeFromTheLedger'
    BY <1>1, <1>6, <1>10, <1>11 DEF IndInv, SnapshotsComeFromTheLedger
  <1> QED  BY <1>12, <1>13, <1>14, <1>15, <1>16, <1>17, <1>18 DEF IndInv

\* Steps of a handler that leave its batch alone and do not commit.
LEMMA ProgressStep ==
    ASSUME IndInv, NEW h \in Handlers, NEW r \in Handler,
           handler' = [handler EXCEPT ![h] = r], UNCHANGED <<row, ledger>>,
           r.batch = handler[h].batch,
           r.phase \in {"rebuilding", "writing", "replied"} =>
               handler[h].phase \in {"rebuilding", "writing", "replied"},
           \A e \in Events : r.snapshot[e] # None =>
               /\ \A s \in r.current : SessionOf[e] = s
               /\ ledger[e] # None
               /\ e \notin Wakapi => r.snapshot[e] = ledger[e]
    PROVE  /\ handler' \in [Handlers -> Handler]
           /\ RequestsCarryRows' /\ StoredEventsAreRows'
           /\ ServedRequestsAreStored' /\ SnapshotsComeFromTheLedger'
  <1>1. \A e \in Events : r.batch[e] # None =>
            /\ row[e] # None
            /\ e \notin Wakapi => r.batch[e] = row[e]
    BY HandlerFacts
  <1>2. r.phase \in {"rebuilding", "writing", "replied"} =>
            \A e \in InBatch(r.batch) \cap Valid : ledger[e] # None
    BY HandlerFacts
  <1> QED  BY <1>1, <1>2, HandlerChange

\* Reading a session, replying.
LEMMA ReadReplyStep ==
    ASSUME IndInv, NEW h \in Handlers, Reply(h) \/ \E s \in Sessions : RebuildRead(h, s),
           UNCHANGED <<localVars, waitsFor, faults, cut, raced>>
    PROVE  IndInv'
  <1> DEFINE S == handler[h].snapshot
  <1>0. /\ handler[h] \in Handler /\ UNCHANGED <<row, ledger>> /\ handler \in [Handlers -> Handler]
        /\ \A e \in Events : S[e] # None =>
               /\ \A s \in handler[h].current : SessionOf[e] = s
               /\ ledger[e] # None
               /\ e \notin Wakapi => S[e] = ledger[e]
    BY HandlerFacts DEF localVars, Reply, RebuildRead, IndInv, TypeOK, ServerTypeOK
  <1>1. CASE Reply(h)
    <2> DEFINE r == [handler[h] EXCEPT !.phase = "replied"]
    <2>1. handler' = [handler EXCEPT ![h] = r]
      BY <1>0, <1>1 DEF Reply
    <2>2. /\ r \in Handler /\ r.batch = handler[h].batch /\ r.snapshot = S
          /\ r.current = handler[h].current
      BY <1>0 DEF Handler
    <2> HIDE DEF r
    <2>3. handler[h].phase = "rebuilding" /\ UNCHANGED <<ledger, projection>>
      BY <1>1 DEF Reply
    <2>4. /\ handler' \in [Handlers -> Handler]
          /\ RequestsCarryRows' /\ StoredEventsAreRows'
          /\ ServedRequestsAreStored' /\ SnapshotsComeFromTheLedger'
      <3>1. \A e \in Events : r.snapshot[e] # None =>
               /\ \A s \in r.current : SessionOf[e] = s
               /\ ledger[e] # None
               /\ e \notin Wakapi => r.snapshot[e] = ledger[e]
        BY <1>0, <2>2
      <3> QED  BY <1>0, <2>1, <2>2, <2>3, <3>1, ProgressStep
    <2> QED  BY <2>3, <2>4, HandlerOnly DEF IndInv, TypeOK
  <1>2. ASSUME NEW s \in Sessions, RebuildRead(h, s) PROVE IndInv'
    <2> DEFINE r1 == [handler[h] EXCEPT !.phase = "writing", !.current = {s},
                                        !.snapshot = sessionEvents(s)]
               r2 == [handler[h] EXCEPT !.touched = @ \ {s}]
    <2>1. \/ handler' = [handler EXCEPT ![h] = r1]
          \/ handler' = [handler EXCEPT ![h] = r2]
      BY <1>0, <1>2 DEF RebuildRead
    <2>2. /\ sessionEvents(s) \in Content
          /\ \A e \in Events : sessionEvents(s)[e] # None =>
                 SessionOf[e] = s /\ sessionEvents(s)[e] = ledger[e]
      BY DEF sessionEvents, Content, IndInv, TypeOK, ServerTypeOK
    <2>3. /\ r1 \in Handler /\ r1.batch = handler[h].batch /\ r1.snapshot = sessionEvents(s)
          /\ r1.current = {s} /\ r1.phase = "writing"
      BY <1>0, <2>2 DEF Handler
    <2>4. /\ r2 \in Handler /\ r2.batch = handler[h].batch /\ r2.snapshot = S
          /\ r2.current = handler[h].current /\ r2.phase = handler[h].phase
      BY <1>0 DEF Handler
    <2> HIDE DEF r1, r2
    <2>5. handler[h].phase = "rebuilding" /\ UNCHANGED <<ledger, projection>>
      BY <1>2 DEF RebuildRead
    <2>6. /\ handler' \in [Handlers -> Handler]
          /\ RequestsCarryRows' /\ StoredEventsAreRows'
          /\ ServedRequestsAreStored' /\ SnapshotsComeFromTheLedger'
      <3>1. CASE handler' = [handler EXCEPT ![h] = r1]
        <4>1. \A e \in Events : r1.snapshot[e] # None =>
                 /\ \A t \in r1.current : SessionOf[e] = t
                 /\ ledger[e] # None
                 /\ e \notin Wakapi => r1.snapshot[e] = ledger[e]
          BY <2>2, <2>3
        <4> QED  BY <1>0, <2>3, <2>5, <3>1, <4>1, ProgressStep
      <3>2. CASE handler' = [handler EXCEPT ![h] = r2]
        <4>1. \A e \in Events : r2.snapshot[e] # None =>
                 /\ \A t \in r2.current : SessionOf[e] = t
                 /\ ledger[e] # None
                 /\ e \notin Wakapi => r2.snapshot[e] = ledger[e]
          BY <1>0, <2>4
        <4> QED  BY <1>0, <2>4, <2>5, <3>2, <4>1, ProgressStep
      <3> QED  BY <2>1, <3>1, <3>2
    <2> QED  BY <2>5, <2>6, HandlerOnly DEF IndInv, TypeOK
  <1> QED  BY <1>1, <1>2

\* Replacing the runs of a session.
LEMMA WriteStep ==
    ASSUME IndInv, NEW h \in Handlers, NEW s \in Sessions, HandlerWrite(h, s)
    PROVE  IndInv'
  <1> DEFINE r == [handler[h] EXCEPT !.phase = "rebuilding", !.touched = @ \ {s},
                                     !.current = {}, !.snapshot = Nothing]
             S == handler[h].snapshot
  <1>1. /\ handler[h] \in Handler /\ handler \in [Handlers -> Handler]
        /\ \A e \in Events : S[e] # None =>
               /\ SessionOf[e] = s
               /\ ledger[e] # None
               /\ e \notin Wakapi => S[e] = ledger[e]
    BY HandlerFacts DEF HandlerWrite, RebuildWrite, IndInv, TypeOK, ServerTypeOK
  <1>2. handler' = [handler EXCEPT ![h] = r]
    BY <1>1 DEF HandlerWrite, RebuildWrite
  <1>3. r \in Handler /\ r.batch = handler[h].batch /\ r.snapshot = Nothing
    BY <1>1, FreeFacts DEF Handler
  <1> HIDE DEF r
  <1>4. /\ row' = row /\ syncState' = syncState /\ ledger' = ledger
        /\ projection' = [projection EXCEPT ![s] = S] /\ handler[h].phase = "writing"
        /\ UNCHANGED <<waitsFor, faults>>
        /\ cut' \subseteq Sessions /\ raced' \subseteq Sessions
    BY DEF HandlerWrite, RebuildWrite, localVars, IndInv, TypeOK
  <1>5. /\ handler' \in [Handlers -> Handler]
        /\ RequestsCarryRows' /\ StoredEventsAreRows'
        /\ ServedRequestsAreStored' /\ SnapshotsComeFromTheLedger'
    BY <1>2, <1>3, <1>4, FreeFacts, ProgressStep
  <1>6. /\ projection' \in [Sessions -> Content]
        /\ \A t \in Sessions : projection'[t] = IF t = s THEN S ELSE projection[t]
    BY <1>1, <1>4 DEF IndInv, TypeOK, ServerTypeOK, Handler
  <1>7. RunsComeFromTheLedger'
    BY <1>1, <1>4, <1>6 DEF IndInv, RunsComeFromTheLedger
  <1>8. TypeOK' /\ AckedEventsAreStored'
    BY <1>4, <1>5, <1>6
       DEF IndInv, TypeOK, LocalTypeOK, ServerTypeOK, AckedEventsAreStored
  <1> QED  BY <1>5, <1>7, <1>8 DEF IndInv

\* A failed handler, and a request to rebuild everything.
LEMMA FailStep ==
    ASSUME IndInv, NEW h \in Handlers, HandlerFail(h)
    PROVE  IndInv'
  <1> DEFINE r == [handler[h] EXCEPT !.phase = "failed", !.touched = {}, !.current = {},
                                     !.snapshot = Nothing]
  <1>1. handler[h] \in Handler /\ handler \in [Handlers -> Handler]
    BY HandlerFacts DEF IndInv, TypeOK, ServerTypeOK
  <1>2. handler' = [handler EXCEPT ![h] = r] /\ UNCHANGED <<row, ledger, projection>>
    BY <1>1 DEF HandlerFail, Fail, localVars
  <1>3. /\ r \in Handler /\ r.batch = handler[h].batch /\ r.snapshot = Nothing
        /\ r.phase = "failed"
    BY <1>1, FreeFacts DEF Handler
  <1> HIDE DEF r
  <1>4. /\ handler' \in [Handlers -> Handler]
        /\ RequestsCarryRows' /\ StoredEventsAreRows'
        /\ ServedRequestsAreStored' /\ SnapshotsComeFromTheLedger'
    BY <1>2, <1>3, FreeFacts, ProgressStep
  <1>5. faults' \in 0..MaxFaults /\ cut' \subseteq Sessions
    BY <1>1, DeliveryAssumption DEF HandlerFail, IndInv, TypeOK, Handler
  <1> QED  BY <1>2, <1>4, <1>5, HandlerOnly DEF HandlerFail, IndInv, TypeOK

\* A rebuild of everything starts.
LEMMA RebuildAllStep ==
    ASSUME IndInv, NEW h \in Handlers, StartRebuildAll(h)
    PROVE  IndInv'
  <1> DEFINE T == {SessionOf[e] : e \in {x \in Events : ledger[x] # None}}
             r == [Free EXCEPT !.phase = "rebuilding", !.touched = T]
  <1>1. handler' = [handler EXCEPT ![h] = r] /\ UNCHANGED <<row, ledger, projection>>
    BY DEF StartRebuildAll, RebuildAll, localVars
  <1>2. T \subseteq Sessions
    BY LedgerAssumption
  <1> HIDE DEF T
  <1>3. r \in Handler /\ r.batch = Nothing /\ r.snapshot = Nothing
    BY <1>2, FreeFacts DEF Handler
  <1> HIDE DEF r
  <1>4. \A e \in Events : r.batch[e] = None /\ r.snapshot[e] = None
    BY <1>3, FreeFacts
  <1>5. InBatch(r.batch) = {}
    BY <1>4 DEF InBatch
  <1>6. /\ handler' \in [Handlers -> Handler]
        /\ RequestsCarryRows' /\ StoredEventsAreRows'
        /\ ServedRequestsAreStored' /\ SnapshotsComeFromTheLedger'
    BY <1>1, <1>3, <1>4, <1>5, HandlerChange
  <1> QED  BY <1>1, <1>6, HandlerOnly DEF StartRebuildAll, IndInv, TypeOK

\* Every step keeps IndInv.
LEMMA IndInvNext == IndInv /\ [Next]_vars => IndInv'
  <1> SUFFICES ASSUME IndInv, [Next]_vars PROVE IndInv'
    OBVIOUS
  <1>1. CASE UNCHANGED vars
    BY <1>1 DEF vars, localVars, serverVars, IndInv, TypeOK, LocalTypeOK, ServerTypeOK,
                AckedEventsAreStored, RunsComeFromTheLedger, RequestsCarryRows,
                StoredEventsAreRows, ServedRequestsAreStored, SnapshotsComeFromTheLedger, InBatch
  <1>2. ASSUME NEW b \in Batches(Events \ Wakapi), NEW v \in Versions, Collect(b, v)
        PROVE  IndInv'
    BY <1>2, CollectStep DEF Batches
  <1>3. ASSUME NEW b \in Batches(Events), NEW v \in Versions, Queue(b, v)
        PROVE  IndInv'
    BY <1>3, QueueActionStep DEF Batches
  <1>4. ASSUME NEW c \in Clients, NEW h \in Handlers,
               SyncSend(c, h) \/ SyncAck(c, h) \/ SyncError(c, h)
        PROVE  IndInv'
    BY <1>4, SyncSendStep, SyncAckStep, SyncErrorStep
  <1>5. ASSUME NEW c \in Clients, GiveUp(c) PROVE IndInv'
    BY <1>5, GiveUpStep
  <1>6. ASSUME NEW h \in Handlers, HandlerStep(h) PROVE IndInv'
    BY <1>6, IngestCommitStep, ReadReplyStep DEF HandlerStep
  <1>7. ASSUME NEW h \in Handlers, HandlerFail(h) \/ HandlerDiscard(h) \/ StartRebuildAll(h)
        PROVE  IndInv'
    BY <1>7, FailStep, DiscardStep, RebuildAllStep
  <1>8. ASSUME NEW h \in Handlers, NEW s \in Sessions, HandlerWrite(h, s) PROVE IndInv'
    BY <1>8, WriteStep
  <1> QED  BY <1>1, <1>2, <1>3, <1>4, <1>5, <1>6, <1>7, <1>8 DEF Next

(***************************************************************************)
(* The inductive invariant of the delivery pipeline.                       *)
(***************************************************************************)
THEOREM DeliveryInvariant == Spec => []IndInv
  BY IndInvInit, IndInvNext, PTL DEF Spec

(***************************************************************************)
(* No acknowledged event is missing from the server, and none that is not  *)
(* from wakapi says something else there.                                  *)
(***************************************************************************)
THEOREM NoAcknowledgedEventIsLost == Spec => []AckedEventsAreStored
  <1>1. IndInv => AckedEventsAreStored
    BY DEF IndInv
  <1> QED  BY <1>1, DeliveryInvariant, PTL

(***************************************************************************)
(* The runs of a session never come from events the ledger does not hold.  *)
(***************************************************************************)
THEOREM RunsAreNeverInvented == Spec => []RunsComeFromTheLedger
  <1>1. IndInv => RunsComeFromTheLedger
    BY DEF IndInv
  <1> QED  BY <1>1, DeliveryInvariant, PTL

(***************************************************************************)
(* An acknowledged event that is not from wakapi is never queued again.    *)
(***************************************************************************)
THEOREM AcknowledgementIsFinal == Spec => AckedEventsStayAcked
  <1> DEFINE Stay == \A e \in Events \ Wakapi :
                        syncState[e] = "acknowledged" =>
                            syncState'[e] = "acknowledged" /\ row'[e] = row[e]
  <1>1. ASSUME IndInv, [Next]_vars PROVE [Stay]_vars
    <2>1. \A e \in Events \ Wakapi : syncState[e] = "acknowledged" => row[e] # None
      BY <1>1 DEF IndInv, AckedEventsAreStored
    <2>2. CASE UNCHANGED localVars
      BY <2>2 DEF localVars
    <2>3. ASSUME NEW b, NEW v, Collect(b, v) PROVE Stay
      BY <2>1, <2>3 DEF Collect, InsertNew
    <2>4. ASSUME NEW b, NEW v, Queue(b, v) PROVE Stay
      BY <2>1, <2>4 DEF Queue, Enqueue
    <2>5. ASSUME NEW c, NEW h, SyncAck(c, h) PROVE Stay
      BY <2>5 DEF SyncAck, MarkAcknowledged
    <2>6. ASSUME NEW c, NEW h, SyncSend(c, h) \/ SyncError(c, h) \/ GiveUp(c)
          PROVE  UNCHANGED localVars
      BY <2>6 DEF SyncSend, SyncError, GiveUp
    <2>7. ASSUME NEW h, NEW s, \/ HandlerStep(h) \/ HandlerFail(h) \/ HandlerDiscard(h)
                               \/ StartRebuildAll(h) \/ HandlerWrite(h, s)
          PROVE  UNCHANGED localVars
      BY <2>7 DEF HandlerStep, HandlerFail, HandlerDiscard, StartRebuildAll, HandlerWrite
    <2>8. CASE UNCHANGED vars
      BY <2>8
    <2> HIDE DEF Stay
    <2>9. CASE Next
      BY <2>2, <2>3, <2>4, <2>5, <2>6, <2>7, <2>9 DEF Next
    <2> QED  BY <1>1, <2>8, <2>9
  <1> QED  BY <1>1, DeliveryInvariant, PTL DEF Spec, AckedEventsStayAcked

-----------------------------------------------------------------------------
\* The refinement.

\* What the mapping needs beyond IndInv: the server stores no event the queue
\* does not have, wakapi events included.
StoredEventsAreQueued == \A e \in Events : ledger[e] # None => row[e] # None

\* Steps that leave queue and events table alone.
LEMMA OtherStepsAreInvisible ==
    ASSUME NEW h, \/ \E c : SyncSend(c, h) \/ SyncError(c, h) \/ GiveUp(c)
                  \/ Reply(h) /\ UNCHANGED localVars
                  \/ (\E s : RebuildRead(h, s)) /\ UNCHANGED localVars
                  \/ HandlerFail(h) \/ HandlerDiscard(h) \/ StartRebuildAll(h)
                  \/ \E s : HandlerWrite(h, s)
    PROVE  UNCHANGED <<row, syncState, ledger>>
  <1>1. ASSUME NEW c, SyncSend(c, h) \/ SyncError(c, h) \/ GiveUp(c)
        PROVE  UNCHANGED <<row, syncState, ledger>>
    BY <1>1 DEF SyncSend, SyncError, GiveUp, localVars, serverVars
  <1>2. ASSUME UNCHANGED localVars, Reply(h) \/ \E s : RebuildRead(h, s)
        PROVE  UNCHANGED <<row, syncState, ledger>>
    BY <1>2 DEF Reply, RebuildRead, localVars
  <1>3. ASSUME HandlerFail(h) \/ HandlerDiscard(h) \/ StartRebuildAll(h)
        PROVE  UNCHANGED <<row, syncState, ledger>>
    BY <1>3 DEF HandlerFail, Fail, HandlerDiscard, StartRebuildAll, RebuildAll, localVars
  <1>4. ASSUME NEW s, HandlerWrite(h, s) PROVE UNCHANGED <<row, syncState, ledger>>
    BY <1>4 DEF HandlerWrite, RebuildWrite, localVars
  <1> QED  BY <1>1, <1>2, <1>3, <1>4

\* What the stages rest on: rows come first, then the server's row, then the
\* acknowledgement.
LEMMA StageOrder ==
    ASSUME IndInv, StoredEventsAreQueued, NEW e \in Events
    PROVE  /\ ledger[e] # None => row[e] # None
           /\ syncState[e] = "acknowledged" => ledger[e] # None
  BY DEF StoredEventsAreQueued, IndInv, AckedEventsAreStored

\* Collecting records what is new.
LEMMA CollectTransfers ==
    ASSUME IndInv, StoredEventsAreQueued, NEW b \in SUBSET Events, NEW v \in Versions, Collect(b, v)
    PROVE  StoredEventsAreQueued' /\ Transfer!Next
  <1> DEFINE S == {e \in b : row[e] = None}
  <1>1. /\ \A e \in Events : row'[e] = IF e \in S THEN v ELSE row[e]
        /\ UNCHANGED <<syncState, ledger>>
    BY DEF Collect, InsertNew, serverVars
  <1>2. v # None
    BY EventModelAssumption
  <1>3. StoredEventsAreQueued'
    BY <1>1, <1>2 DEF StoredEventsAreQueued
  <1>4. \A e \in S : Stage(e) = "absent" /\ Stage(e)' = "recorded"
    BY <1>1, <1>2, StageOrder DEF Stage
  <1>5. \A e \in Events \ S : Stage(e)' = Stage(e)
    BY <1>1 DEF Stage
  <1> HIDE DEF S
  <1>6. S \in SUBSET Events
    BY DEF S
  <1>7. Transfer!Record(S, {})
    BY <1>4, <1>5, <1>6 DEF Transfer!Record
  <1> QED  BY <1>3, <1>6, <1>7 DEF Transfer!Next

\* So does queueing, which also takes revised wakapi events back.
LEMMA QueueTransfers ==
    ASSUME IndInv, StoredEventsAreQueued, NEW b \in SUBSET Events, NEW v \in Versions, Queue(b, v)
    PROVE  StoredEventsAreQueued' /\ Transfer!Next
  <1> DEFINE W == {e \in b : row[e] = None \/ (e \in Wakapi /\ row[e] # v)}
             S == {e \in b : row[e] = None}
             R == {e \in b \cap Wakapi : row[e] # None /\ row[e] # v /\ syncState[e] = "acknowledged"}
  <1>1. /\ \A e \in Events : row'[e] = IF e \in W THEN v ELSE row[e]
        /\ \A e \in Events : syncState'[e] = IF e \in W THEN "pending" ELSE syncState[e]
        /\ UNCHANGED ledger
    BY DEF Queue, Enqueue, serverVars
  <1>2. v # None
    BY EventModelAssumption
  <1>3. StoredEventsAreQueued'
    BY <1>1, <1>2 DEF StoredEventsAreQueued
  <1>4. \A e \in S : Stage(e) = "absent" /\ Stage(e)' = "recorded"
    BY <1>1, <1>2, StageOrder DEF Stage
  <1>5. \A e \in R : Stage(e) = "confirmed" /\ Stage(e)' = "stored"
    BY <1>1, <1>2, StageOrder DEF Stage
  <1>6. \A e \in Events \ (S \cup R) : Stage(e)' = Stage(e)
    BY <1>1, <1>2 DEF Stage
  <1>7. S \in SUBSET Events /\ R \in SUBSET Wakapi /\ S \cap R = {} /\ R \subseteq Events
    OBVIOUS
  <1> HIDE DEF S, R, W
  <1>8. Transfer!Record(S, R)
    BY <1>4, <1>5, <1>6, <1>7 DEF Transfer!Record
  <1> QED  BY <1>3, <1>7, <1>8 DEF Transfer!Next

\* An acknowledgement confirms what is stored.
LEMMA SyncAckTransfers ==
    ASSUME IndInv, StoredEventsAreQueued, NEW c \in Clients, NEW h \in Handlers, SyncAck(c, h)
    PROVE  StoredEventsAreQueued' /\ Transfer!Next
  <1> DEFINE ids == InBatch(handler[h].batch) \ rejected(h)
             S == {e \in ids : syncState[e] # "acknowledged"}
  <1>1. /\ \A e \in Events : syncState'[e] = IF e \in ids THEN "acknowledged" ELSE syncState[e]
        /\ UNCHANGED <<row, ledger>> /\ handler[h].phase = "replied"
    BY DEF SyncAck, MarkAcknowledged
  <1>2. \A e \in ids : e \in Events /\ row[e] # None /\ ledger[e] # None
    BY <1>1, HandlerFacts DEF InBatch, rejected
  <1> HIDE DEF ids
  <1>3. StoredEventsAreQueued'
    BY <1>1 DEF StoredEventsAreQueued
  <1>4. \A e \in S : Stage(e) = "stored" /\ Stage(e)' = "confirmed"
    BY <1>1, <1>2 DEF Stage
  <1>5. \A e \in Events \ S : Stage(e)' = Stage(e)
    BY <1>1 DEF Stage
  <1>6. S \in SUBSET Events
    BY <1>2
  <1> HIDE DEF S
  <1>7. Transfer!Move(S, "stored", "confirmed")
    BY <1>4, <1>5, <1>6 DEF Transfer!Move
  <1> QED  BY <1>3, <1>6, <1>7 DEF Transfer!Next

\* Ingest stores what is valid and new.
LEMMA IngestTransfers ==
    ASSUME IndInv, StoredEventsAreQueued, NEW h \in Handlers, IngestCommit(h), UNCHANGED localVars
    PROVE  StoredEventsAreQueued' /\ Transfer!Next
  <1> DEFINE A == affected(handler[h].batch)
             S == {e \in A : ledger[e] = None}
  <1>1. /\ \A e \in Events : ledger'[e] = IF e \in A THEN handler[h].batch[e] ELSE ledger[e]
        /\ UNCHANGED <<row, syncState>>
    BY DEF IngestCommit, localVars
  <1>2. \A e \in A : e \in Valid /\ e \in Events /\ handler[h].batch[e] # None /\ row[e] # None
    BY HandlerFacts DEF affected, InBatch
  <1> HIDE DEF A
  <1>3. StoredEventsAreQueued'
    BY <1>1, <1>2 DEF StoredEventsAreQueued
  <1>4. \A e \in S : Stage(e) = "recorded" /\ Stage(e)' = "stored"
    BY <1>1, <1>2, StageOrder DEF Stage
  <1>5. \A e \in Events \ S : Stage(e)' = Stage(e)
    BY <1>1, <1>2 DEF Stage
  <1>6. S \in SUBSET Valid /\ S \subseteq Events
    BY <1>2
  <1> HIDE DEF S
  <1>7. Transfer!Move(S, "recorded", "stored")
    BY <1>4, <1>5, <1>6 DEF Transfer!Move
  <1> QED  BY <1>3, <1>6, <1>7 DEF Transfer!Next

\* Every step is a step of EventTransfer or changes no stage.
LEMMA StepsTransfer ==
    ASSUME IndInv, StoredEventsAreQueued, [Next]_vars
    PROVE  /\ StoredEventsAreQueued'
           /\ Transfer!Next \/ UNCHANGED [e \in Events |-> Stage(e)]
  <1> DEFINE Goal == /\ StoredEventsAreQueued'
                     /\ Transfer!Next \/ UNCHANGED [e \in Events |-> Stage(e)]
  <1>1. ASSUME UNCHANGED <<row, syncState, ledger>> PROVE Goal
    BY <1>1 DEF StoredEventsAreQueued, Stage
  <1>2. CASE UNCHANGED vars
    BY <1>1, <1>2 DEF vars, localVars, serverVars
  <1>3. ASSUME NEW b \in Batches(Events \ Wakapi), NEW v \in Versions, Collect(b, v) PROVE Goal
    BY <1>3, CollectTransfers DEF Batches
  <1>4. ASSUME NEW b \in Batches(Events), NEW v \in Versions, Queue(b, v) PROVE Goal
    BY <1>4, QueueTransfers DEF Batches
  <1> HIDE DEF Goal
  <1>5. ASSUME NEW c \in Clients, NEW h \in Handlers,
               SyncSend(c, h) \/ SyncAck(c, h) \/ SyncError(c, h)
        PROVE  Goal
    BY <1>1, <1>5, SyncAckTransfers, OtherStepsAreInvisible DEF Goal
  <1>6. ASSUME NEW c \in Clients, GiveUp(c) PROVE Goal
    BY <1>1, <1>6 DEF GiveUp, localVars, serverVars
  <1>7. ASSUME NEW h \in Handlers, HandlerStep(h) PROVE Goal
    <2>1. UNCHANGED localVars
      BY <1>7 DEF HandlerStep
    <2>2. CASE IngestCommit(h)
      BY <2>1, <2>2, IngestTransfers DEF Goal
    <2>3. CASE Reply(h) \/ \E s \in Sessions : RebuildRead(h, s)
      BY <1>1, <2>1, <2>3, OtherStepsAreInvisible
    <2> QED  BY <1>7, <2>2, <2>3 DEF HandlerStep
  <1>8. ASSUME NEW h \in Handlers, HandlerFail(h) \/ HandlerDiscard(h) \/ StartRebuildAll(h)
        PROVE  Goal
    BY <1>1, <1>8, OtherStepsAreInvisible
  <1>9. ASSUME NEW h \in Handlers, NEW s \in Sessions, HandlerWrite(h, s) PROVE Goal
    BY <1>1, <1>9, OtherStepsAreInvisible
  <1>10. CASE Next
    BY <1>3, <1>4, <1>5, <1>6, <1>7, <1>8, <1>9, <1>10 DEF Next, Goal
  <1> QED  BY <1>2, <1>10 DEF Goal

(***************************************************************************)
(* The queue, its clients and the server implement EventTransfer: whatever *)
(* is lost, retried or served late, events are stored before they are      *)
(* confirmed, once, and only those the server accepts.                     *)
(***************************************************************************)
THEOREM DeliveryImplementsEventTransfer == Spec => ImplementsEventTransfer
  <1>1. Init => StoredEventsAreQueued
    BY DEF Init, ServerInit, StoredEventsAreQueued, Nothing
  <1>2. Init => Transfer!Init
    BY DEF Init, LocalInit, Nothing, Stage, Transfer!Init
  <1>3. IndInv /\ StoredEventsAreQueued /\ [Next]_vars
            => StoredEventsAreQueued' /\ [Transfer!Next]_([e \in Events |-> Stage(e)])
    BY StepsTransfer
  <1> QED  BY <1>1, <1>2, <1>3, DeliveryInvariant, PTL DEF Spec, ImplementsEventTransfer, Transfer!Spec

-----------------------------------------------------------------------------
\* Out-of-date runs.

\* Session s is up to date, or one of the causes holds.
Accounted(s) ==
    \/ Fresh(s) \/ ~HasProject(s)
    \/ s \in cut \cup raced
    \/ \E h \in Handlers : WillRebuild(h, s)

\* Rows and versions of a session that no step touches stay as they are.
LEMMA SessionFrame ==
    ASSUME NEW s \in Sessions, \A e \in Events : SessionOf[e] = s => ledger'[e] = ledger[e]
    PROVE  sessionEvents(s)' = sessionEvents(s) /\ (HasProject(s)' <=> HasProject(s))
  <1>1. sessionEvents(s)' = sessionEvents(s)
    BY DEF sessionEvents
  <1> QED  BY <1>1 DEF HasProject

\* A step in which only h changes, and h gives up no session without a cause.
LEMMA AccountedFrame ==
    ASSUME IndInv, NEW s \in Sessions, Accounted(s), NEW h \in Handlers,
           \A k \in Handlers \ {h} : handler'[k] = handler[k],
           UNCHANGED ledger, projection'[s] = projection[s],
           s \in cut \cup raced => s \in cut' \cup raced',
           WillRebuild(h, s) => WillRebuild(h, s)' \/ ~HasProject(s) \/ s \in cut'
    PROVE  Accounted(s)'
  <1>1. sessionEvents(s)' = sessionEvents(s) /\ (HasProject(s)' <=> HasProject(s))
    BY SessionFrame
  <1>2. CASE Fresh(s) \/ ~HasProject(s) \/ s \in cut \cup raced
    BY <1>1, <1>2 DEF Accounted, Fresh
  <1>3. ASSUME NEW k \in Handlers, WillRebuild(k, s) PROVE Accounted(s)'
    <2>1. CASE k = h
      BY <1>1, <1>3, <2>1 DEF Accounted
    <2>2. CASE k # h
      <3>1. WillRebuild(k, s)'
        BY <1>1, <1>3, <2>2 DEF WillRebuild
      <3> QED  BY <3>1 DEF Accounted
    <2> QED  BY <2>1, <2>2
  <1> QED  BY <1>2, <1>3 DEF Accounted

\* Ingest rebuilds the sessions whose events it changes.
LEMMA IngestAccounted ==
    ASSUME IndInv, NEW s \in Sessions, Accounted(s), NEW h \in Handlers, IngestCommit(h),
           UNCHANGED <<cut, raced>>
    PROVE  Accounted(s)'
  <1> DEFINE hit == affected(handler[h].batch)
  <1>1. /\ handler[h].phase = "received"
        /\ ledger' = [e \in Events |-> IF e \in hit THEN handler[h].batch[e] ELSE ledger[e]]
        /\ handler' = [handler EXCEPT ![h].phase = "rebuilding",
                                      ![h].touched = {SessionOf[e] : e \in hit}]
        /\ UNCHANGED projection
    BY DEF IngestCommit
  <1>2. /\ handler'[h].phase = "rebuilding" /\ handler'[h].touched = {SessionOf[e] : e \in hit}
        /\ \A k \in Handlers \ {h} : handler'[k] = handler[k]
    BY <1>1 DEF IndInv, TypeOK, ServerTypeOK, Handler
  <1> HIDE DEF hit
  <1>3. CASE s \in handler'[h].touched
    BY <1>2, <1>3 DEF Accounted, WillRebuild
  <1>4. CASE s \notin handler'[h].touched
    <2>1. \A e \in Events : SessionOf[e] = s => ledger'[e] = ledger[e]
      BY <1>1, <1>2, <1>4
    <2>2. sessionEvents(s)' = sessionEvents(s) /\ (HasProject(s)' <=> HasProject(s))
      BY <2>1, SessionFrame
    <2>3. ASSUME NEW k \in Handlers, WillRebuild(k, s) PROVE WillRebuild(k, s)'
      <3>1. k # h
        BY <1>1, <2>3 DEF WillRebuild
      <3> QED  BY <1>2, <2>2, <2>3, <3>1 DEF WillRebuild
    <2> QED  BY <1>1, <2>2, <2>3 DEF Accounted, Fresh
  <1> QED  BY <1>3, <1>4

LEMMA ReadAccounted ==
    ASSUME IndInv, NEW s \in Sessions, Accounted(s), NEW h \in Handlers, NEW t \in Sessions,
           RebuildRead(h, t), UNCHANGED <<cut, raced>>
    PROVE  Accounted(s)'
  <1>1. handler[h] \in Handler /\ handler[h].phase = "rebuilding" /\ UNCHANGED <<ledger, projection>>
    BY HandlerFacts DEF RebuildRead
  <1>2. sessionEvents(s)' = sessionEvents(s)
    BY <1>1 DEF sessionEvents
  <1>3. CASE HasProject(t)
    <2>1. handler' = [handler EXCEPT ![h].phase = "writing", ![h].current = {t},
                                     ![h].snapshot = sessionEvents(t)]
      BY <1>3 DEF RebuildRead, HasProject
    <2>2. /\ handler'[h].phase = "writing" /\ handler'[h].current = {t}
          /\ handler'[h].snapshot = sessionEvents(t) /\ handler'[h].touched = handler[h].touched
          /\ \A k \in Handlers \ {h} : handler'[k] = handler[k]
      BY <2>1 DEF IndInv, TypeOK, ServerTypeOK, Handler
    <2>3. WillRebuild(h, s) => WillRebuild(h, s)'
      <3>1. {t} = {s} => t = s
        OBVIOUS
      <3> QED  BY <1>2, <2>2, <3>1 DEF WillRebuild
    <2> QED  BY <1>1, <2>2, <2>3, AccountedFrame
  <1>4. CASE ~HasProject(t)
    <2>1. handler' = [handler EXCEPT ![h].touched = @ \ {t}]
      BY <1>4 DEF RebuildRead, HasProject
    <2>2. /\ handler'[h].phase = "rebuilding" /\ handler'[h].touched = handler[h].touched \ {t}
          /\ \A k \in Handlers \ {h} : handler'[k] = handler[k]
      BY <1>1, <2>1 DEF IndInv, TypeOK, ServerTypeOK, Handler
    <2>3. WillRebuild(h, s) => WillRebuild(h, s)' \/ ~HasProject(s)
      BY <1>4, <2>2 DEF WillRebuild
    <2> QED  BY <1>1, <2>2, <2>3, AccountedFrame
  <1> QED  BY <1>3, <1>4

LEMMA WriteAccounted ==
    ASSUME IndInv, NEW s \in Sessions, Accounted(s), NEW h \in Handlers, NEW t \in Sessions,
           HandlerWrite(h, t)
    PROVE  Accounted(s)'
  <1>1. /\ handler[h].phase = "writing" /\ handler[h].current = {t}
        /\ projection' = [projection EXCEPT ![t] = handler[h].snapshot]
        /\ handler' = [handler EXCEPT ![h].phase = "rebuilding", ![h].touched = @ \ {t},
                                      ![h].current = {}, ![h].snapshot = Nothing]
        /\ UNCHANGED ledger
    BY DEF HandlerWrite, RebuildWrite
  <1>2. /\ handler'[h].phase = "rebuilding" /\ handler'[h].touched = handler[h].touched \ {t}
        /\ \A k \in Handlers \ {h} : handler'[k] = handler[k]
    BY <1>1 DEF IndInv, TypeOK, ServerTypeOK, Handler
  <1>3. CASE s = t
    <2>1. projection'[s] = handler[h].snapshot
      BY <1>1, <1>3 DEF IndInv, TypeOK, ServerTypeOK
    <2>2. sessionEvents(s)' = sessionEvents(s)
      BY <1>1 DEF sessionEvents
    <2> QED  BY <1>3, <2>1, <2>2 DEF HandlerWrite, Accounted, Fresh
  <1>4. CASE s # t
    <2>1. projection'[s] = projection[s]
      BY <1>1, <1>4 DEF IndInv, TypeOK, ServerTypeOK
    <2>2. s \in cut \cup raced => s \in cut' \cup raced'
      BY <1>4 DEF HandlerWrite
    <2>3. WillRebuild(h, s) => WillRebuild(h, s)'
      BY <1>2, <1>4 DEF WillRebuild
    <2> QED  BY <1>1, <1>2, <2>1, <2>2, <2>3, AccountedFrame
  <1> QED  BY <1>3, <1>4

\* A failure is noted for the sessions it leaves alone.
LEMMA FailAccounted ==
    ASSUME IndInv, NEW s \in Sessions, Accounted(s), NEW h \in Handlers, HandlerFail(h)
    PROVE  Accounted(s)'
  <1>1. /\ UNCHANGED <<ledger, projection, raced>> /\ cut' = cut \cup handler[h].touched
        /\ \A k \in Handlers \ {h} : handler'[k] = handler[k]
    BY DEF HandlerFail, Fail, IndInv, TypeOK, ServerTypeOK
  <1>2. WillRebuild(h, s) => s \in cut'
    BY <1>1 DEF WillRebuild
  <1> QED  BY <1>1, <1>2, AccountedFrame

\* A handler that has nothing left to rebuild may change as it likes.
LEMMA IdleAccounted ==
    ASSUME IndInv, NEW s \in Sessions, Accounted(s), NEW h \in Handlers,
           \/ handler[h].phase \in {"free", "received", "replied", "failed"}
           \/ handler[h].touched = {},
           \A k \in Handlers \ {h} : handler'[k] = handler[k],
           UNCHANGED <<ledger, projection, cut, raced>>
    PROVE  Accounted(s)'
  <1>1. ~WillRebuild(h, s)
    BY DEF WillRebuild
  <1> QED  BY <1>1, AccountedFrame

LEMMA AccountedNext ==
    ASSUME IndInv, [Next]_vars, NEW s \in Sessions, Accounted(s)
    PROVE  Accounted(s)'
  <1>1. handler \in [Handlers -> Handler]
    BY DEF IndInv, TypeOK, ServerTypeOK
  <1>2. ASSUME UNCHANGED <<serverVars, cut, raced>> PROVE Accounted(s)'
    BY <1>2 DEF Accounted, Fresh, HasProject, sessionEvents, WillRebuild, serverVars
  <1>3. ASSUME NEW b, NEW v, Collect(b, v) \/ Queue(b, v) PROVE Accounted(s)'
    BY <1>2, <1>3 DEF Collect, Queue
  <1>4. ASSUME NEW c \in Clients, NEW h \in Handlers, SyncSend(c, h) PROVE Accounted(s)'
    <2>1. PICK S : Receive(h, [e \in Events |-> IF e \in S THEN row[e] ELSE None])
      BY <1>4 DEF SyncSend
    <2> QED  BY <1>1, <1>4, <2>1, IdleAccounted DEF SyncSend, Receive
  <1>5. ASSUME NEW c \in Clients, NEW h \in Handlers, SyncAck(c, h) \/ SyncError(c, h)
        PROVE  Accounted(s)'
    <2>1. /\ handler[h].phase \in {"replied", "failed"} /\ Release(h)
          /\ UNCHANGED <<ledger, projection, cut, raced>>
      BY <1>5 DEF SyncAck, SyncError
    <2> QED  BY <1>1, <2>1, IdleAccounted DEF Release
  <1>6. ASSUME NEW c \in Clients, GiveUp(c) PROVE Accounted(s)'
    BY <1>2, <1>6 DEF GiveUp
  <1>7. ASSUME NEW h \in Handlers, HandlerStep(h) PROVE Accounted(s)'
    <2>1. UNCHANGED <<cut, raced>>
      BY <1>7 DEF HandlerStep
    <2>2. ASSUME Reply(h) PROVE Accounted(s)'
      BY <1>1, <2>1, <2>2, IdleAccounted DEF Reply
    <2> QED  BY <1>7, <2>1, <2>2, IngestAccounted, ReadAccounted DEF HandlerStep
  <1>8. ASSUME NEW h \in Handlers, HandlerDiscard(h) PROVE Accounted(s)'
    BY <1>1, <1>8, IdleAccounted DEF HandlerDiscard, Release
  <1>9. ASSUME NEW h \in Handlers, StartRebuildAll(h) PROVE Accounted(s)'
    BY <1>1, <1>9, IdleAccounted DEF StartRebuildAll, RebuildAll
  <1>10. CASE UNCHANGED vars
    BY <1>2, <1>10 DEF vars
  <1> QED
    BY <1>3, <1>4, <1>5, <1>6, <1>7, <1>8, <1>9, <1>10, WriteAccounted, FailAccounted DEF Next

(***************************************************************************)
(* Delivery's state is always well formed.                                 *)
(***************************************************************************)
THEOREM DeliveryTypeCorrect == Spec => []TypeOK
  <1>1. IndInv => TypeOK
    BY DEF IndInv
  <1> QED  BY <1>1, DeliveryInvariant, PTL

(***************************************************************************)
(* However requests, rebuilds and failures interleave (Ingest and          *)
(* RebuildSession, internal/postgres), runs are out of date only while a   *)
(* rebuild is on its way, after one was abandoned, or after an older       *)
(* reading was written last.                                               *)
(***************************************************************************)
THEOREM StaleRunsAreExplained == Spec => []StaleRunsHaveACause
  <1>1. Init => StaleRunsHaveACause
    <2>1. ASSUME Init, NEW s \in Sessions PROVE Fresh(s)
      BY <2>1 DEF Init, ServerInit, Fresh, sessionEvents, Nothing
    <2> QED  BY <2>1 DEF StaleRunsHaveACause
  <1>2. IndInv /\ StaleRunsHaveACause /\ [Next]_vars => StaleRunsHaveACause'
    <2> SUFFICES ASSUME IndInv, StaleRunsHaveACause, [Next]_vars PROVE StaleRunsHaveACause'
      OBVIOUS
    <2>1. \A s \in Sessions : Accounted(s)
      BY DEF StaleRunsHaveACause, Accounted
    <2>2. \A s \in Sessions : Accounted(s)'
      BY <2>1, AccountedNext
    <2> QED  BY <2>2 DEF StaleRunsHaveACause, Accounted
  <1> QED  BY <1>1, <1>2, DeliveryInvariant, PTL DEF Spec
=============================================================================
