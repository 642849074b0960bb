---------------------------- MODULE WakapiImport ----------------------------
(***************************************************************************)
(* The import command (importWakapi, apps/cli/main.go) beside the hooks:   *)
(* it turns the heartbeats Wakapi holds (internal/wakapi) into intervals   *)
(* and queues those before the cutover, which the first hook sets.  The    *)
(* export takes minutes, and hooks run meanwhile.                          *)
(***************************************************************************)
EXTENDS Hooks

CONSTANTS
    WakapiTimeout,  \* --timeout, the same in every import
    Day,            \* length of a day: Wakapi is asked day by day
    MaxBeats        \* bound: heartbeats Wakapi receives

ASSUME WakapiImportAssumption ==
    WakapiTimeout \in Nat \ {0} /\ Day \in Nat \ {0} /\ MaxBeats \in Nat

VARIABLES
    wakapi,     \* wakapi[t]: the project of Wakapi's heartbeat at t
    import,     \* the import command; cutover: what it read
    imported,   \* Wakapi intervals in the local events table
    late        \* history: a heartbeat reached Wakapi after a later one

importVars == <<wakapi, import, imported, late>>
allVars == <<hookVars, importVars>>

NoImport == [phase |-> "idle", items |-> {}, cutover |-> None]

ImportInit ==
    /\ HooksInit
    /\ wakapi = [t \in Time |-> None]
    /\ import = NoImport
    /\ imported = {}
    /\ late = FALSE

\* What a hook does after the queue does not concern the import.
HookReturn(p) ==
    /\ hook[p].phase = "queued"
    /\ hook' = [hook EXCEPT ![p] = NoHook]
    /\ UNCHANGED <<clock, cutover, heartbeat, stored, started, faults, beats, dropped, overtaken>>

\* Wakapi receives the heartbeat of an editor, possibly late.
WakapiBeat(t, j) ==
    /\ t <= clock
    /\ wakapi[t] = None
    /\ Cardinality({u \in Time : wakapi[u] # None}) < MaxBeats
    /\ wakapi' = [wakapi EXCEPT ![t] = j]
    /\ late' = (late \/ \E u \in Time : u > t /\ wakapi[u] # None)
    /\ UNCHANGED <<hookVars, import, imported>>

\* Consecutive heartbeats of a day that are closer than the timeout: the project
\* of the earlier is worked on in between.  (The command takes the timeout anew
\* each time; another one than before moves starts, and so what sameRun replaces.)
Linked(t, u) ==
    /\ t < u /\ u - t < WakapiTimeout
    /\ t \div Day = u \div Day
    /\ wakapi[t] # None /\ wakapi[u] # None
    /\ \A v \in (t + 1)..(u - 1) : wakapi[v] = None

\* From t to u, linked heartbeats of project j.
Stretch(j, t, u) ==
    /\ wakapi[t] = j /\ wakapi[u] # None /\ t < u
    /\ \A v \in t..(u - 1) :
          wakapi[v] # None => wakapi[v] = j /\ \E w \in Time : w <= u /\ Linked(v, w)

\* Fault: every heartbeat counts for the whole timeout.
Export_Padded ==
    {[project |-> wakapi[t], from |-> t, to |-> t + WakapiTimeout] :
        t \in {u \in Time : wakapi[u] # None}}

\* Export: adjacent intervals of a project are merged.
Export ==
    {i \in [project : Projects, from : Time, to : Time] :
        /\ Stretch(i.project, i.from, i.to)
        /\ \A t \in Time :
              /\ t < i.from => ~Stretch(i.project, t, i.to)
              /\ t > i.to => ~Stretch(i.project, i.from, t)}

ImportExport ==
    /\ import.phase = "idle"
    /\ import' = [phase |-> "exported", items |-> Export, cutover |-> None]
    /\ UNCHANGED <<hookVars, wakapi, imported, late>>

\* Fault: an interval across the cutover is kept whole.
intervalsBefore_Whole(items, c) == {i \in items : i.from < c}

\* What lies before the cutover.
intervalsBefore(items, c) ==
    {[i EXCEPT !.to = IF @ > c THEN c ELSE @] : i \in {k \in items : k.from < c}}

ImportClip ==
    /\ import.phase = "exported"
    /\ import' = [phase |-> "clipped", cutover |-> cutover,
                  items |-> IF cutover = None THEN import.items
                            ELSE intervalsBefore(import.items, cutover)]
    /\ UNCHANGED <<hookVars, wakapi, imported, late>>

\* Fault: the ids of the events depend on the end of the interval too.
sameRun_End(i, k) == i.project = k.project /\ i.from = k.from /\ i.to = k.to

\* The ids of an interval's events are made of project and start.
sameRun(i, k) == i.project = k.project /\ i.from = k.from

\* wakapiEvents and Enqueue: an interval imported before gets its new end.
\* (blind, for the properties: the import knew of no cutover.)
\* The loop that then drains the queue is a client of module Delivery.
ImportEnqueue ==
    /\ import.phase = "clipped"
    /\ imported' = {k \in imported : \A i \in import.items : ~sameRun(i, k)} \cup
                   {[project |-> i.project, from |-> i.from, to |-> i.to,
                     blind |-> import.cutover = None] : i \in import.items}
    /\ import' = NoImport
    /\ UNCHANGED <<hookVars, wakapi, late>>

\* Wakapi does not answer, the database is busy, or the user gives up.
ImportAbort ==
    /\ import.phase # "idle"
    /\ import' = NoImport
    /\ UNCHANGED <<hookVars, wakapi, imported, late>>

ImportNext ==
    \/ (Tick \/ \E p \in Processes : HookStep(p) \/ HookReturn(p)) /\ UNCHANGED importVars
    \/ \E t \in Time, j \in Projects : WakapiBeat(t, j)
    \/ ImportExport \/ ImportClip \/ ImportEnqueue \/ ImportAbort

ImportSpec == ImportInit /\ [][ImportNext]_allVars

-----------------------------------------------------------------------------
Items == [project : Projects, from : Time, to : Time]

ImportTypeOK ==
    /\ HooksTypeOK
    /\ wakapi \in [Time -> Projects \cup {None}]
    /\ import \in [phase : {"idle", "exported", "clipped"}, items : SUBSET Items,
                   cutover : Time \cup {None}]
    /\ imported \subseteq [project : Projects, from : Time, to : Time, blind : BOOLEAN]
    /\ late \in BOOLEAN

(***************************************************************************)
(* The cutover keeps the import (before) and the hooks (after) apart: time *)
(* is counted by both only if a hook had taken the time and not looked at  *)
(* the cutover when a later one set it, or the import looked for the       *)
(* cutover before it was set.                                              *)
(***************************************************************************)
DoublyCountedTimeHasACause ==
    \A i \in stored, k \in imported : Overlap(i, k) => k.blind \/ i.from \in overtaken

(***************************************************************************)
(* Importing again follows the growing intervals: as long as heartbeats    *)
(* reach Wakapi in order, imported intervals never overlap, whatever       *)
(* cutover is set in between.                                              *)
(***************************************************************************)
ImportedTimeIsDisjoint ==
    ~late => \A i, k \in imported : i # k => ~Overlap(i, k)
=============================================================================
