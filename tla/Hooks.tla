------------------------------- MODULE Hooks -------------------------------
(***************************************************************************)
(* The hook command up to the queue (runHook, apps/cli/main.go).           *)
(*                                                                         *)
(* Codex starts a process per hook, so any number of them run at once.     *)
(* Each takes the time, records the cutover if nobody has, moves its       *)
(* session's heartbeat (one transaction) and queues the interval between   *)
(* the two heartbeats.  It may die, or meet its timeout of two seconds,    *)
(* between any two steps.  What it does next is added by HookSync (the     *)
(* synchronisation) and Metrics (the token counts).                        *)
(*                                                                         *)
(* An interval stands for the three events that describe it: they are      *)
(* derived from it and queued in one transaction.                          *)
(***************************************************************************)
EXTENDS Integers, FiniteSets

CONSTANTS
    Processes,  \* hook processes
    Sessions,   \* Codex sessions
    Projects,
    MaxTime,    \* bound: the clock stops here
    Timeout,    \* hook_activity_timeout
    MaxHooks,   \* bound: hooks Codex starts
    MaxFaults,  \* bound: hooks that die or fail
    None        \* no time, no project, no heartbeat

Time == 0..MaxTime

Intervals == [session : Sessions, project : Projects, from : Time, to : Time]
Heartbeat == [at : Time, project : Projects]

ASSUME HooksAssumption ==
    /\ MaxTime \in Nat /\ MaxHooks \in Nat /\ MaxFaults \in Nat
    /\ Timeout \in Nat \ {0}
    /\ None \notin Projects \cup Sessions \cup Time \cup Heartbeat

VARIABLES
    clock,
    cutover,    \* metadata hook_cutover_at
    heartbeat,  \* heartbeat[s]: the row of hook_heartbeats
    hook,       \* hook[p]: the process p
    stored,     \* hook intervals in the local events table
    \* history, which no step reads
    started,    \* hooks so far
    faults,     \* hooks that died
    beats,      \* beats[s]: the heartbeats recorded for s
    dropped,    \* intervals of hooks that died
    overtaken   \* times of hooks under way when a later one set the cutover

hookVars == <<clock, cutover, heartbeat, hook, stored, started, faults, beats, dropped, overtaken>>

NoHook == [phase |-> "idle", session |-> None, project |-> None, now |-> None, item |-> {}]

HooksInit ==
    /\ clock = 0
    /\ cutover = None
    /\ heartbeat = [s \in Sessions |-> None]
    /\ hook = [p \in Processes |-> NoHook]
    /\ stored = {}
    /\ started = 0 /\ faults = 0
    /\ beats = [s \in Sessions |-> {}]
    /\ dropped = {} /\ overtaken = {}

Tick ==
    /\ clock < MaxTime
    /\ clock' = clock + 1
    /\ UNCHANGED <<cutover, heartbeat, hook, stored, started, faults, beats, dropped, overtaken>>

\* runHook up to the time it takes for now; the resolver finds project j.
HookStart(p, s, j) ==
    /\ hook[p].phase = "idle"
    /\ started < MaxHooks
    /\ started' = started + 1
    /\ hook' = [hook EXCEPT ![p] = [phase |-> "started", session |-> s, project |-> j,
                                    now |-> clock, item |-> {}]]
    /\ UNCHANGED <<clock, cutover, heartbeat, stored, faults, beats, dropped, overtaken>>

Starting == {p \in Processes : hook[p].phase = "started"}

\* EnsureTimeMetadata: the first to insert the cutover sets it for ever.
EnsureTimeMetadata(p) ==
    /\ p \in Starting
    /\ hook' = [hook EXCEPT ![p].phase = "ready"]
    /\ IF cutover = None
       THEN /\ cutover' = hook[p].now
            /\ overtaken' = {t \in {hook[q].now : q \in Starting} : t < hook[p].now}
       ELSE UNCHANGED <<cutover, overtaken>>
    /\ UNCHANGED <<clock, heartbeat, stored, started, faults, beats, dropped>>

\* Fault: an interval as long as the timeout is idle time.
HookInterval_Strict(s, now) ==
    IF heartbeat[s] # None /\ now - heartbeat[s].at < Timeout
    THEN {[session |-> s, project |-> heartbeat[s].project, from |-> heartbeat[s].at, to |-> now]}
    ELSE {}

\* Fault: the timeout is not looked at.
HookInterval_Unbounded(s, now) ==
    IF heartbeat[s] # None
    THEN {[session |-> s, project |-> heartbeat[s].project, from |-> heartbeat[s].at, to |-> now]}
    ELSE {}

\* The interval between the heartbeat of a session and a later one, if they are
\* close enough; its project is that of the earlier.
HookInterval(s, now) ==
    IF heartbeat[s] # None /\ now - heartbeat[s].at <= Timeout
    THEN {[session |-> s, project |-> heartbeat[s].project, from |-> heartbeat[s].at, to |-> now]}
    ELSE {}

\* A heartbeat counts only if it is later than the recorded one.
later(s, now) == heartbeat[s] = None \/ now > heartbeat[s].at

\* AdvanceHookHeartbeat: one transaction.
AdvanceHookHeartbeat(p) ==
    LET h == hook[p]
        beat == [at |-> h.now, project |-> h.project]
    IN  /\ h.phase = "ready"
        /\ IF later(h.session, h.now)
           THEN /\ heartbeat' = [heartbeat EXCEPT ![h.session] = beat]
                /\ beats' = [beats EXCEPT ![h.session] = @ \cup {beat}]
                /\ hook' = [hook EXCEPT ![p].phase = "advanced",
                                        ![p].item = HookInterval(h.session, h.now)]
           ELSE /\ hook' = [hook EXCEPT ![p].phase = "advanced"]
                /\ UNCHANGED <<heartbeat, beats>>
        /\ UNCHANGED <<clock, cutover, stored, started, faults, dropped, overtaken>>

\* The events of the interval, if there is one, are queued.
HookEnqueue(p) ==
    /\ hook[p].phase = "advanced"
    /\ stored' = stored \cup hook[p].item
    /\ hook' = [hook EXCEPT ![p].phase = "queued"]
    /\ UNCHANGED <<clock, cutover, heartbeat, started, faults, beats, dropped, overtaken>>

\* A step fails, the two seconds are over, or the process is killed.
HookDie(p) ==
    /\ hook[p].phase # "idle"
    /\ faults < MaxFaults
    /\ faults' = faults + 1
    /\ dropped' = dropped \cup hook[p].item
    /\ hook' = [hook EXCEPT ![p] = NoHook]
    /\ UNCHANGED <<clock, cutover, heartbeat, stored, started, beats, overtaken>>

HookStep(p) ==
    \/ \E s \in Sessions, j \in Projects : HookStart(p, s, j)
    \/ EnsureTimeMetadata(p) \/ AdvanceHookHeartbeat(p) \/ HookEnqueue(p) \/ HookDie(p)

-----------------------------------------------------------------------------
Hook == [phase : {"idle", "started", "ready", "advanced", "queued", "syncing", "posting",
                  "synced"},
         session : Sessions \cup {None}, project : Projects \cup {None},
         now : Time \cup {None}, item : SUBSET Intervals]

HooksTypeOK ==
    /\ clock \in Time /\ cutover \in Time \cup {None}
    /\ heartbeat \in [Sessions -> Heartbeat \cup {None}]
    /\ hook \in [Processes -> Hook]
    /\ \A p \in Processes :
          hook[p].phase # "idle" =>
              hook[p].session \in Sessions /\ hook[p].project \in Projects /\ hook[p].now \in Time
    /\ stored \subseteq Intervals
    /\ started \in 0..MaxHooks /\ faults \in 0..MaxFaults
    /\ beats \in [Sessions -> SUBSET Heartbeat]
    /\ dropped \subseteq Intervals /\ overtaken \subseteq Time

Overlap(i, k) == i.from < k.to /\ k.from < i.to

(***************************************************************************)
(* AdvanceHookHeartbeat "returns a work interval only when two consecutive *)
(* hooks for the same Codex session are close enough" (store.go:147):      *)
(* however the hooks of a session overtake each other, its queued          *)
(* intervals never overlap, are not empty, and are no longer than the      *)
(* timeout.                                                                *)
(***************************************************************************)
HookTimeIsDisjoint ==
    \A i \in stored :
        /\ i.from < i.to /\ i.to - i.from <= Timeout
        /\ \A k \in stored : i # k /\ i.session = k.session => ~Overlap(i, k)

\* The work of a session: between consecutive recorded heartbeats.
Worked(s) ==
    {i \in {[session |-> s, project |-> b.project, from |-> b.at, to |-> c.at] :
                b \in beats[s], c \in beats[s]} :
        /\ i.from < i.to /\ i.to - i.from <= Timeout
        /\ \A b \in beats[s] : ~(i.from < b.at /\ b.at < i.to)}

InFlight(i) == \E p \in Processes : hook[p].phase # "idle" /\ i \in hook[p].item

(***************************************************************************)
(* The heartbeat moves in one transaction and its interval is queued in    *)
(* another.  The interval between two consecutive recorded heartbeats is   *)
(* queued, with the project of the first, or the hook that moved the       *)
(* heartbeat is still to queue it, or has died; nothing else is queued.    *)
(***************************************************************************)
MissingTimeHasACause ==
    /\ \A s \in Sessions : \A i \in Worked(s) : i \in stored \/ InFlight(i) \/ i \in dropped
    /\ stored \subseteq UNION {Worked(s) : s \in Sessions}
=============================================================================
