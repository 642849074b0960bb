---------------------------- MODULE ProjectorLoop ----------------------------
(***************************************************************************)
(* The loop of projector.Project as a state machine: each step takes the   *)
(* next event of the ordered list and applies it.  The list is whatever    *)
(* the event store holds, so the environment picks any event whose session *)
(* is not before the current one (the list is sorted by session); clocks   *)
(* of machines disagree, so timestamps need not follow the order.          *)
(*                                                                         *)
(* The variable hist records, for the properties only, what the projection *)
(* does not keep: the latest instant at which an event gave evidence of    *)
(* activity of a run, how often its end was inferred, and whether it was   *)
(* started again after another run had replaced it.                        *)
(***************************************************************************)
EXTENDS Projector

CONSTANTS
    Times,      \* instants an event may carry
    TokenCounts,\* payloads of token_usage events
    EventIDs,   \* non-empty event ids
    EventKinds  \* kinds of the events

ASSUME LoopAssumption ==
    /\ Times \subseteq Nat
    /\ TokenCounts \subseteq Nat
    /\ NoId \notin EventIDs
    /\ EventKinds \subseteq Kinds

VARIABLES
    runs,       \* the map runs of the Go function
    active,     \* the map active
    seen,       \* the map seen
    place,      \* session and, if clocks are in order, timestamp of the last event
    hist        \* history of the runs, for the properties

vars == <<runs, active, seen, place, hist>>

Event == [id : EventIDs \cup {NoId}, session : Sessions, run : RunIDs \cup {NoRun},
          at : Times, kind : EventKinds, tokens : TokenCounts]

state == [runs |-> runs, active |-> active]

FreshHist == [evidence |-> 0, inferred |-> 0, again |-> FALSE]

Init ==
    /\ runs = EmptyState.runs
    /\ active = EmptyState.active
    /\ seen = {}
    /\ place \in {[session |-> 0, at |-> t] : t \in {0, NoTime}}
    /\ hist = [r \in RunIDs |-> FreshHist]

\* The timestamps of a session never go back: a choice made at the start.
InOrder == place.at # NoTime

\* The next event of the list.
Take(e) ==
    /\ e.session >= place.session
    /\ InOrder /\ e.session = place.session => e.at >= place.at
    /\ place' = [session |-> e.session, at |-> IF InOrder THEN e.at ELSE NoTime]

\* Events without an id or already seen are skipped.
Skip(e) ==
    /\ Take(e)
    /\ e.id = NoId \/ e.id \in seen
    /\ UNCHANGED <<runs, active, seen, hist>>

Latest(a, b) == IF a >= b THEN a ELSE b

\* What the event says about the run r, before the projection forgets it.
Note(h, r, e, after) ==
    LET touched == \/ r \in DOMAIN after.runs /\ r \notin DOMAIN runs
                   \/ e.kind = "lease" /\ r = active[e.session]
                   \/ e.kind = "token_usage" /\ r = tokenTarget(state, e)
                   \/ e.kind \in TerminalKinds
                      /\ r = (IF e.run # NoRun THEN e.run ELSE active[e.session])
        closed == /\ r = active[e.session]
                  /\ \/ e.kind \in StartKinds /\ r # e.run
                     \/ e.kind = "session_closed"
    IN  [evidence |-> IF touched THEN Latest(h.evidence, e.at) ELSE h.evidence,
         inferred |-> IF closed THEN h.inferred + 1 ELSE h.inferred,
         again |-> \/ h.again
                   \/ e.kind \in StartKinds /\ r = e.run
                      /\ r \in DOMAIN runs /\ ~IsOpen(runs[r])]

Process(e, after) ==
    /\ Take(e)
    /\ e.id # NoId /\ e.id \notin seen
    /\ seen' = seen \cup {e.id}
    /\ runs' = after.runs
    /\ active' = after.active
    /\ hist' = [r \in RunIDs |-> Note(hist[r], r, e, after)]

Start(e)         == e.kind \in StartKinds /\ Process(e, applyStart(state, e))
TokenUsage(e)    == e.kind = "token_usage" /\ Process(e, applyTokenUsage(state, e))
Terminal(e)      == e.kind \in TerminalKinds /\ Process(e, closeMatching(state, e))
SessionClosed(e) == e.kind = "session_closed" /\ Process(e, applySessionClosed(state, e))
Activity(e)      == e.kind = "lease" /\ Process(e, applyActivity(state, e))

Next ==
    \E e \in Event :
        Skip(e) \/ Start(e) \/ TokenUsage(e) \/ Terminal(e) \/ SessionClosed(e) \/ Activity(e)

Spec == Init /\ [][Next]_vars

-----------------------------------------------------------------------------
TypeOK ==
    /\ DOMAIN runs \subseteq RunIDs
    /\ runs \in [DOMAIN runs -> Run]
    /\ active \in [Sessions -> RunIDs \cup {NoRun}]
    /\ seen \subseteq EventIDs
    /\ place \in [session : Nat, at : Nat \cup {NoTime}]
    /\ hist \in [RunIDs -> [evidence : Nat, inferred : Nat, again : BOOLEAN]]

(***************************************************************************)
(* A session never has two open runs, however its events start, restart,   *)
(* close and interleave.  The unique index runs_active_idx of the server   *)
(* rests on it: RebuildSession's INSERTs would fail otherwise, for ever.   *)
(***************************************************************************)
OneOpenRun ==
    \A r1, r2 \in DOMAIN runs :
        IsOpen(runs[r1]) /\ IsOpen(runs[r2]) /\ runs[r1].session = runs[r2].session
            => r1 = r2

\* What makes OneOpenRun inductive: an open run is the entry of its session in
\* active, and every entry of active is a known run.
OpenRunsAreActive ==
    /\ \A s \in Sessions : active[s] # NoRun => active[s] \in DOMAIN runs
    /\ \A r \in DOMAIN runs : IsOpen(runs[r]) => active[runs[r].session] = r

(***************************************************************************)
(* No run ends, or is last active, before it started, whatever the clocks  *)
(* say; the CHECK constraint of the runs table rests on it.                *)
(***************************************************************************)
EndsAfterStart ==
    \A r \in DOMAIN runs :
        /\ runs[r].last >= runs[r].started
        /\ ~IsOpen(runs[r]) => runs[r].ended >= runs[r].started

(***************************************************************************)
(* The maps runs and active of Project agree after every event: their      *)
(* types, the open runs are the active ones, no run ends before it starts. *)
(***************************************************************************)
IndInv == TypeOK /\ OpenRunsAreActive /\ EndsAfterStart

(***************************************************************************)
(* An inferred end never counts more idle time than the grace period, once *)
(* per inference, after the last evidence of activity of the run.          *)
(***************************************************************************)
IdleTimeBounded ==
    \A r \in DOMAIN runs :
        runs[r].reason \in {"new_run", "session_closed"} =>
            runs[r].ended <= hist[r].evidence + hist[r].inferred * Grace

(***************************************************************************)
(* When a session's timestamps follow its order, a superseded run that was *)
(* not started again ends no later than any later run of the session       *)
(* starts: inferred closures never count an instant twice.                 *)
(***************************************************************************)
SupersededRunsDoNotOverlap ==
    InOrder =>
        \A r1, r2 \in DOMAIN runs :
            /\ r1 # r2
            /\ runs[r1].session = runs[r2].session
            /\ runs[r1].status = "superseded" /\ ~hist[r1].again
            /\ runs[r2].started >= runs[r1].started
            => \/ runs[r1].ended <= runs[r2].started
               \/ runs[r1].started = runs[r2].started

(***************************************************************************)
(* The command line (ReconcileOpen) and the server (the UPDATE of          *)
(* Store.Runs) close expired runs alike, although only the first clamps    *)
(* the end to the start.                                                   *)
(***************************************************************************)
ExpiryAgrees == \A now \in Times : ReconcileOpen(runs, now) = expireLeases(runs, now)

(***************************************************************************)
(* The server expires leases whenever somebody reads the runs.  An earlier *)
(* read must not change what a later one returns.                          *)
(***************************************************************************)
ExpiryIndependentOfReads ==
    \A t1, t2 \in Times :
        t1 <= t2 => expireLeases(expireLeases(runs, t1), t2) = expireLeases(runs, t2)

(***************************************************************************)
(* A run that an explicit event ended, or that a closed session ended,     *)
(* keeps its end and status as long as it is not started again: no token   *)
(* count, lease, later start or second terminal event may change them.     *)
(***************************************************************************)
Settled(r) ==
    /\ r \in DOMAIN runs
    /\ ~correctable(runs[r])
    /\ \A s \in Sessions : active[s] # r

SettledRunsKeepTheirEnd ==
    [][\A r \in RunIDs : Settled(r) =>
            /\ r \in DOMAIN runs'
            /\ runs'[r].ended = runs[r].ended
            /\ runs'[r].status = runs[r].status]_vars

=============================================================================
