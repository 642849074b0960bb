--------------------------- MODULE TimeAccounting ---------------------------
(***************************************************************************)
(* The runs table fills up, and a window of time is summarised.  The       *)
(* reference is the meaning README.md gives the numbers: what happens in   *)
(* each unit of time [t, t + 1) of the window.                             *)
(***************************************************************************)
EXTENDS Interval

CONSTANTS
    Projects,
    Horizon,    \* instants are 0..Horizon
    MaxRuns     \* bound: runs in the table

ASSUME TimeAccountingAssumption == Horizon \in Nat /\ MaxRuns \in Nat

Instants == 0..Horizon

VARIABLES
    runs,       \* the runs table after Store.Runs has expired the leases
    window      \* [from, to, now] of a request

vars == <<runs, window>>

\* Rows of the table: ended >= started is its CHECK constraint, and a run's
\* activity is never before its start.  The last activity is only read while
\* a run is open, so a closed run has one value of it.
Run == {r \in [project : Projects, started : Instants, ended : Instants \cup {NoTime},
               last : Instants, tokens : {1}] :
           /\ r.ended # NoTime => r.ended >= r.started /\ r.last = r.ended
           /\ r.last >= r.started}

\* dateRange refuses a window that is not proper.
Window == {w \in [from : Instants, to : Instants, now : Instants] : w.to > w.from}

Init == runs = << >> /\ window \in Window

\* A projection adds a run that has started by now.
AddRun(r) ==
    /\ Len(runs) < MaxRuns
    /\ r.last <= window.now
    /\ runs' = Append(runs, r)
    /\ UNCHANGED window

Next == \E r \in Run : AddRun(r)

Spec == Init /\ [][Next]_vars

-----------------------------------------------------------------------------
Sum == summary(runs, window.from, window.to, window.now)

Units == window.from..(window.to - 1)

\* Run i is active during the unit t.
During(i, t) == runs[i].started <= t /\ t < runEnd(runs[i], window.now)

ActiveAt(t) == {i \in DOMAIN runs : During(i, t)}

Largest(S) == CHOOSE m \in S : \A n \in S : n <= m

(***************************************************************************)
(* README.md:37 "Wall-clock time counts overlapping intervals only once":  *)
(* it is the number of units in which some run is active, and a project's  *)
(* span the number of units in which one of its runs is.                   *)
(***************************************************************************)
WallClockCountsOverlapOnce ==
    LET sum == Sum
    IN  /\ sum.wallClock = Cardinality({t \in Units : ActiveAt(t) # {}})
        /\ \A p \in DOMAIN sum.projectSpan :
              sum.projectSpan[p] =
                  Cardinality({t \in Units : \E i \in ActiveAt(t) : runs[i].project = p})

(***************************************************************************)
(* The sweep over start and end points finds the largest number of runs    *)
(* active at once, runs that only touch not counted as parallel, and its   *)
(* weighted sum is the total time of all runs.                             *)
(***************************************************************************)
ParallelismIsMeasured ==
    LET sum == Sum
    IN  /\ sum.peak = Largest({0} \cup {Cardinality(ActiveAt(t)) : t \in Units})
        /\ sum.weighted = Cardinality({x \in (DOMAIN runs) \X Units : During(x[1], x[2])})
        /\ sum.sessionAgentTime = sum.weighted

(***************************************************************************)
(* The window can be cut anywhere: the times of the parts add up, so that  *)
(* daily figures sum to the weekly one.                                    *)
(***************************************************************************)
WindowsAddUp ==
    LET sum == Sum
    IN  \A mid \in (window.from + 1)..(window.to - 1) :
            LET l == summary(runs, window.from, mid, window.now)
                r == summary(runs, mid, window.to, window.now)
            IN  /\ sum.wallClock = l.wallClock + r.wallClock
                /\ sum.agentTime = l.agentTime + r.agentTime
                /\ sum.sessionAgentTime = l.sessionAgentTime + r.sessionAgentTime

(***************************************************************************)
(* The bars the dashboard draws from closed runs have the lengths the      *)
(* server reports for the projects, although they are merged by other      *)
(* code with another order of ties.                                        *)
(***************************************************************************)
DashboardAgrees ==
    (\A i \in DOMAIN runs : runs[i].ended # NoTime) =>
        LET span == Sum.projectSpan
        IN  \A p \in DOMAIN span :
                span[p] = groupTotal(selected(runs, window.from, window.to, window.now),
                                     p, window.from, window.to)

=============================================================================
