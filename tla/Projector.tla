------------------------------ MODULE Projector ------------------------------
(***************************************************************************)
(* The run projection of internal/projector/projector.go: the pure         *)
(* functions that turn a session's events into runs, one operator per Go   *)
(* function and one per case of the switch in Project.                     *)
(*                                                                         *)
(* An event is a record [id, session, run, seq, at, kind, tokens]; a run   *)
(* id NoRun is the empty string of the code.  Go's maps runs and active    *)
(* are the two fields of a projection state st: st.runs is a function on   *)
(* the run ids seen so far and st.active a total function whose NoRun      *)
(* means "no entry".  Instants are naturals; NoTime is the nil pointer of  *)
(* EndedAt.  The descriptive fields of a run (project, model, reasoning    *)
(* effort) are copied and never inspected by the projection: left out.     *)
(* The four token counters are always assigned together: one number.       *)
(***************************************************************************)
EXTENDS Lists

CONSTANTS
    Sessions,   \* session ids, ordered as the strings are: numbers
    RunIDs,     \* non-empty run ids
    NoRun,      \* the empty run id
    Grace,      \* inferredClosureGrace, also the lease of a run (90 s)
    Maximum     \* the longest a run may stay open (12 h)

ASSUME ProjectorAssumption ==
    /\ Sessions \subseteq Nat
    /\ NoRun \notin RunIDs
    /\ Grace \in Nat
    /\ Maximum \in Nat

NoTime == -1

StartKinds == {"prompt_submitted", "run_started"}
TerminalKinds == {"run_completed", "run_interrupted", "run_failed"}

\* "lease" stands for every kind that takes the default case.
Kinds == StartKinds \cup TerminalKinds \cup {"token_usage", "session_closed", "lease"}

RunStatuses == {"running", "completed", "interrupted", "failed", "superseded", "abandoned"}

Reasons == {"none", "new_run", "explicit_completion", "interrupted", "failed",
            "session_closed", "lease_expired"}

Run == [session : Sessions, started : Nat, ended : Nat \cup {NoTime}, last : Nat,
        status : RunStatuses, reason : Reasons, tokens : Nat]

IsOpen(run) == run.ended = NoTime

-----------------------------------------------------------------------------
\* Closing and touching one run.

\* Fault: the end is not clamped to the start.
closeRun_Unclamped(run, at, status, reason) ==
    [run EXCEPT !.ended = at, !.last = at, !.status = status, !.reason = reason]

closeRun(run, at, status, reason) ==
    LET end == IF at < run.started THEN run.started ELSE at
    IN  [run EXCEPT !.ended = end, !.last = end, !.status = status, !.reason = reason]

\* Fault: idle time up to the next event is counted.
closeInferredRun_NoDeadline(run, at, status, reason) == closeRun(run, at, status, reason)

\* Fault: the grace is always granted in full.
closeInferredRun_FullGrace(run, at, status, reason) ==
    closeRun(run, run.last + Grace, status, reason)

closeInferredRun(run, at, status, reason) ==
    LET deadline == run.last + Grace
    IN  closeRun(run, IF deadline < at THEN deadline ELSE at, status, reason)

touch(run, at) == [run EXCEPT !.last = IF at > @ THEN at ELSE @]

newRun(e) ==
    [session |-> e.session, started |-> e.at, ended |-> NoTime, last |-> e.at,
     status |-> "running", reason |-> "none", tokens |-> 0]

-----------------------------------------------------------------------------
\* The cases of the switch: what one event does to the state st.

EmptyState == [runs |-> << >>, active |-> [s \in Sessions |-> NoRun]]

AddRun(runs, r, run) ==
    [x \in DOMAIN runs \cup {r} |-> IF x = r THEN run ELSE runs[x]]

\* Fault: one active run instead of one per session.
SetActive_Global(st, s, r) == [st EXCEPT !.active = [x \in Sessions |-> r]]

SetActive(st, s, r) == [st EXCEPT !.active = [@ EXCEPT ![s] = r]]

SetRun(st, r, run) == [st EXCEPT !.runs = [@ EXCEPT ![r] = run]]

\* Fault: a run whose lease is over is taken for closed.
supersedeCurrent_SkipsExpired(st, e) ==
    LET current == st.active[e.session]
    IN  IF current # NoRun /\ current # e.run /\ st.runs[current].last + Grace >= e.at
        THEN SetRun(st, current,
                    closeInferredRun(st.runs[current], e.at, "superseded", "new_run"))
        ELSE st

\* A start closes the session's current run if it is another one; a start
\* without a run id leaves the closed run in active.
supersedeCurrent(st, e) ==
    LET current == st.active[e.session]
    IN  IF current # NoRun /\ current # e.run
        THEN SetRun(st, current,
                    closeInferredRun(st.runs[current], e.at, "superseded", "new_run"))
        ELSE st

\* Fault: the early return for a start without a run id is missing.
applyStart_EmptyRun(st, e) ==
    LET closed == supersedeCurrent(st, e)
        added == IF e.run \in DOMAIN closed.runs THEN closed
                 ELSE [closed EXCEPT !.runs = AddRun(@, e.run, newRun(e))]
    IN  SetActive(added, e.session, e.run)

applyStart(st, e) ==
    LET closed == supersedeCurrent(st, e)
        added == IF e.run \in DOMAIN closed.runs THEN closed
                 ELSE [closed EXCEPT !.runs = AddRun(@, e.run, newRun(e))]
    IN  IF e.run = NoRun THEN closed ELSE SetActive(added, e.session, e.run)

\* The run a token_usage event is for: the current run, unless there is none
\* or the event names another one.
tokenTarget(st, e) ==
    LET current == st.active[e.session]
    IN  IF current = NoRun \/ (e.run # NoRun /\ current # e.run) THEN e.run ELSE current

applyTokenUsage(st, e) ==
    LET r == tokenTarget(st, e)
    IN  IF r \in DOMAIN st.runs
        THEN SetRun(st, r, touch([st.runs[r] EXCEPT !.tokens = e.tokens], e.at))
        ELSE st

terminalStatus(kind) ==
    CASE kind = "run_completed" -> "completed"
      [] kind = "run_interrupted" -> "interrupted"
      [] OTHER -> "failed"

terminalReason(kind) ==
    CASE kind = "run_completed" -> "explicit_completion"
      [] kind = "run_interrupted" -> "interrupted"
      [] OTHER -> "failed"

\* A closure that an explicit terminal event may still correct.
correctable(run) == IsOpen(run) \/ run.status \in {"superseded", "abandoned"}

\* Fault: every closure is corrected.
closeMatching_Always(st, e) ==
    LET r == IF e.run # NoRun THEN e.run ELSE st.active[e.session]
        closed == SetRun(st, r, closeRun(st.runs[r], e.at, terminalStatus(e.kind),
                                         terminalReason(e.kind)))
    IN  IF r \notin DOMAIN st.runs THEN st
        ELSE IF st.active[e.session] = r THEN SetActive(closed, e.session, NoRun)
        ELSE closed

closeMatching(st, e) ==
    LET r == IF e.run # NoRun THEN e.run ELSE st.active[e.session]
        closed == IF correctable(st.runs[r])
                  THEN SetRun(st, r, closeRun(st.runs[r], e.at, terminalStatus(e.kind),
                                              terminalReason(e.kind)))
                  ELSE st
    IN  IF r \notin DOMAIN st.runs THEN st
        ELSE IF st.active[e.session] = r THEN SetActive(closed, e.session, NoRun)
        ELSE closed

applySessionClosed(st, e) ==
    LET current == st.active[e.session]
    IN  IF current = NoRun THEN st
        ELSE SetActive(SetRun(st, current,
                              closeInferredRun(st.runs[current], e.at, "interrupted",
                                               "session_closed")),
                       e.session, NoRun)

\* Any other kind is activity of the session's current run, whatever run the
\* event names.
applyActivity(st, e) ==
    LET current == st.active[e.session]
    IN  IF current = NoRun THEN st
        ELSE SetRun(st, current, touch(st.runs[current], e.at))

applyEvent(st, e) ==
    CASE e.kind \in StartKinds -> applyStart(st, e)
      [] e.kind = "token_usage" -> applyTokenUsage(st, e)
      [] e.kind \in TerminalKinds -> closeMatching(st, e)
      [] e.kind = "session_closed" -> applySessionClosed(st, e)
      [] OTHER -> applyActivity(st, e)

-----------------------------------------------------------------------------
(***************************************************************************)
(* Project: sort, drop the events whose id was seen, apply the rest.  The  *)
(* argument is a sequence of events in any order, duplicates included.     *)
(* Ids are numbers; the empty id is NoId.                                  *)
(***************************************************************************)
NoId == 0

\* Fault: ties of sequence numbers are left to the order of arrival.
eventLess_SequenceOnly(a, b) ==
    a.session < b.session \/ (a.session = b.session /\ a.seq < b.seq)

eventLess(a, b) ==
    \/ a.session < b.session
    \/ a.session = b.session /\ a.seq < b.seq
    \/ a.session = b.session /\ a.seq = b.seq /\ a.at < b.at
    \/ a.session = b.session /\ a.seq = b.seq /\ a.at = b.at /\ a.id < b.id

\* One turn of the loop: acc also carries the set of ids seen.
projectStep(acc, e) ==
    IF e.id = NoId \/ e.id \in acc.seen THEN acc
    ELSE [seen |-> acc.seen \cup {e.id}, st |-> applyEvent(acc.st, e)]

\* The sort is stable (SliceStable), as sorted is.
Project(events) ==
    loop(projectStep, [seen |-> {}, st |-> EmptyState], sorted(events, eventLess)).st.runs

-----------------------------------------------------------------------------
(***************************************************************************)
(* Open runs are closed when their lease is over: in Go for the command    *)
(* line (ReconcileOpen), in SQL for the server (the UPDATE of Store.Runs). *)
(***************************************************************************)
leaseEnd(run) ==
    LET deadline == run.last + Grace
        maximumDeadline == run.started + Maximum
    IN  IF maximumDeadline < deadline THEN maximumDeadline ELSE deadline

\* Fault: a lease is over one instant late.
ReconcileOpen_Strict(runs, now) ==
    [r \in DOMAIN runs |->
        IF IsOpen(runs[r]) /\ now > leaseEnd(runs[r])
        THEN closeRun(runs[r], leaseEnd(runs[r]), "abandoned", "lease_expired")
        ELSE runs[r]]

ReconcileOpen(runs, now) ==
    [r \in DOMAIN runs |->
        IF IsOpen(runs[r]) /\ now >= leaseEnd(runs[r])
        THEN closeRun(runs[r], leaseEnd(runs[r]), "abandoned", "lease_expired")
        ELSE runs[r]]

\* Fault: an expired run ends when somebody looks.
expireLeases_Now(runs, now) ==
    [r \in DOMAIN runs |->
        IF IsOpen(runs[r]) /\ now >= leaseEnd(runs[r])
        THEN [runs[r] EXCEPT !.ended = now, !.last = now,
                             !.status = "abandoned", !.reason = "lease_expired"]
        ELSE runs[r]]

\* The SQL does not clamp the end to the start.
expireLeases(runs, now) ==
    [r \in DOMAIN runs |->
        IF IsOpen(runs[r]) /\ now >= leaseEnd(runs[r])
        THEN [runs[r] EXCEPT !.ended = leaseEnd(runs[r]), !.last = leaseEnd(runs[r]),
                             !.status = "abandoned", !.reason = "lease_expired"]
        ELSE runs[r]]
=============================================================================
