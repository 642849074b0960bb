-------------------------- MODULE ProjectorArrival --------------------------
(***************************************************************************)
(* The list projector.Project is given: the events of a fixed log, in the  *)
(* order and as often as they happen to be read.  Nothing but the set of   *)
(* events may matter for the runs.  The reports of the command line read   *)
(* only those of the last hours: Events of internal/localdb/store.go and   *)
(* the case "report" of apps/cli/main.go.                                  *)
(***************************************************************************)
EXTENDS Projector, SequencesExt

CONSTANTS
    Log,            \* the events that exist: unique ids
    MaxArrivals,    \* longest list
    Day             \* length of a report's window

Second == 2     \* a time is a whole or a half second

LogEvent == [id : Nat, session : Sessions, run : RunIDs \cup {NoRun}, seq : Nat, at : Nat,
             kind : Kinds, tokens : Nat]

\* Every source derives the run id from the session id, or the session id from
\* the run id.
ASSUME ArrivalAssumption ==
    /\ Log \subseteq LogEvent
    /\ \A a, b \in Log : a.id = b.id => a = b
    /\ \A a, b \in Log : a.run = b.run /\ a.run # NoRun => a.session = b.session
    /\ MaxArrivals \in Nat
    /\ Day \in Nat \ {0} /\ Day % Second = 0 /\ Maximum % Second = 0

VARIABLE arrived    \* the argument of Project

ArrivalInit == arrived = << >>

Arrive(e) ==
    /\ Len(arrived) < MaxArrivals
    /\ arrived' = Append(arrived, e)

ArrivalNext == \E e \in Log : Arrive(e)

ArrivalSpec == ArrivalInit /\ [][ArrivalNext]_arrived

-----------------------------------------------------------------------------
\* Times are compared as text without trailing zeros: 12:00:00.5Z is before
\* 12:00:00Z, because a point is before a Z.
textOrder(t) == IF t % Second = 0 THEN t + 1 ELSE t - 1

Events(from, to) ==
    kept(arrived, {i \in DOMAIN arrived :
                      /\ textOrder(from) <= textOrder(arrived[i].at)
                      /\ textOrder(arrived[i].at) < textOrder(to)})

\* Fault: only the events of the window are read.
report_Window(from, now) == ReconcileOpen(Project(Events(from, from + Day)), now)

\* The window of a day begins with a whole second.
report(from, now) == ReconcileOpen(Project(Events(from - Maximum, from + Day)), now)

-----------------------------------------------------------------------------
OfSession(s) == kept(arrived, {i \in DOMAIN arrived : arrived[i].session = s})

(***************************************************************************)
(* TestProjectionIsIndependentAndIdempotent, for every list: the order of  *)
(* the list and repeated events make no difference to the runs.            *)
(***************************************************************************)
OnlyTheSetMatters == Project(arrived) = Project(SetToSeq(ToSet(arrived)))

(***************************************************************************)
(* Sessions do not interfere: the runs of a session are those of its own   *)
(* events, so that RebuildSession (one session at a time) and the command  *)
(* line (all events at once) agree.                                        *)
(***************************************************************************)
SessionsIndependent ==
    LET all == Project(arrived)
    IN  /\ \A s \in Sessions :
               Project(OfSession(s)) =
                   [r \in {x \in DOMAIN all : all[x].session = s} |-> all[r]]

(***************************************************************************)
(* The table of runs accepts what RebuildSession inserts for each session, *)
(* whatever its events and clocks: no run ends before it starts (CHECK), a *)
(* session has one open run at most (runs_active_idx), and the rows of two *)
(* sessions share no id (primary key), all of them being of the session    *)
(* whose rows the rebuild deletes.                                         *)
(***************************************************************************)
RebuildsAreAccepted ==
    LET rows == [s \in Sessions |-> Project(OfSession(s))]
    IN  /\ \A s \in Sessions : \A r \in DOMAIN rows[s] :
               /\ rows[s][r].session = s
               /\ IsOpen(rows[s][r]) \/ rows[s][r].ended >= rows[s][r].started
        /\ \A s \in Sessions : \A r, x \in DOMAIN rows[s] :
               IsOpen(rows[s][r]) /\ IsOpen(rows[s][x]) => r = x
        /\ \A s, u \in Sessions : s # u => DOMAIN rows[s] \cap DOMAIN rows[u] = {}

ClocksInOrder ==
    \A e, f \in ToSet(arrived) : e.session = f.session /\ e.seq < f.seq => e.at <= f.at

\* Windows <<from, now>> that contain now, which is not before any event.
ReportTimes ==
    LET latest == Max({0} \cup {e.at : e \in ToSet(arrived)})
    IN  {w \in (0..(latest + Grace)) \X (latest..(latest + Grace)) :
            w[1] % Second = 0 /\ w[1] <= w[2] /\ w[2] < w[1] + Day}

(***************************************************************************)
(* A report reads the events from twelve hours before its window (cli      *)
(* main.go:52).  If clocks do not go back, what is missing before does not *)
(* change what it says of any run that started since, give or take the     *)
(* second in which the text order of times is not the order of times, and  *)
(* it shows no run that is not there.                                      *)
(***************************************************************************)
ReportsShowRecentRuns ==
    ClocksInOrder =>
        \A w \in ReportTimes :
            LET all == ReconcileOpen(Project(arrived), w[2])
                shown == report(w[1], w[2])
            IN  /\ DOMAIN shown \subseteq DOMAIN all
                /\ \A r \in DOMAIN all :
                      all[r].started >= w[1] - Maximum + Second =>
                          r \in DOMAIN shown /\ shown[r] = all[r]
=============================================================================
