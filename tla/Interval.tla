------------------------------ MODULE Interval ------------------------------
(***************************************************************************)
(* The time accounting of internal/interval/interval.go (Clip, Merge,      *)
(* Duration, Summarize), the query that selects the runs of a window       *)
(* (Store.Runs) and the dashboard's own merge (groupByProject and          *)
(* mergeIntervals of apps/web/components/timeline.tsx).                    *)
(*                                                                         *)
(* Instants are integers; an interval [start, end) is a record.  A run is  *)
(* [project, started, ended, last, tokens]; ended = NoTime while it is     *)
(* open.  The token counters are summed alike: one number.                 *)
(***************************************************************************)
EXTENDS Lists, SequencesExt

NoTime == -1

earlier(a, b) == IF a < b THEN a ELSE b
later(a, b) == IF a > b THEN a ELSE b

\* Fault: only the start is clipped.
Clip_OpenEnd(iv, from, to) == [start |-> later(iv.start, from), end |-> iv.end]

\* Clip also returns whether anything is left: a proper interval.
Clip(iv, from, to) == [start |-> later(iv.start, from), end |-> earlier(iv.end, to)]

proper(iv) == iv.end > iv.start

intervalLess(a, b) == a.start < b.start \/ (a.start = b.start /\ a.end < b.end)

\* Fault: an interval inside the previous one shortens it.
mergeStep_NoMax(merged, iv) ==
    IF merged = << >> \/ iv.start > Last(merged).end
    THEN Append(merged, iv)
    ELSE [merged EXCEPT ![Len(merged)].end = iv.end]

\* One turn of Merge's loop; touching intervals are joined.
mergeStep(merged, iv) ==
    IF merged = << >> \/ iv.start > Last(merged).end
    THEN Append(merged, iv)
    ELSE [merged EXCEPT ![Len(merged)].end = later(@, iv.end)]

Merge(intervals) ==
    LET valid == kept(intervals, {i \in DOMAIN intervals : proper(intervals[i])})
    IN  loop(mergeStep, << >>, sorted(valid, intervalLess))

Duration(intervals) ==
    total([i \in DOMAIN intervals |-> intervals[i].end - intervals[i].start])

runEnd(run, now) == IF run.ended = NoTime THEN now ELSE run.ended

-----------------------------------------------------------------------------
\* Summarize, by the parts of its loop over the runs.

clipped(run, from, to, now) ==
    Clip([start |-> run.started, end |-> runEnd(run, now)], from, to)

\* The runs that count: with time in the window ...
counted(runs, from, to, now) ==
    kept(runs, {i \in DOMAIN runs : proper(clipped(runs[i], from, to, now))})

\* ... or, for their tokens only, without duration and inside the window.
instantaneous(run, from, to, now) ==
    /\ run.started = runEnd(run, now)
    /\ run.started >= from
    /\ run.started < to

sumTokens(runs) == total([i \in DOMAIN runs |-> runs[i].tokens])

intervalsOf(runs, from, to, now) ==
    [i \in DOMAIN runs |-> clipped(runs[i], from, to, now)]

\* Fault: starts first where points coincide.
pointLess_StartsFirst(p, q) == p.at < q.at \/ (p.at = q.at /\ p.delta > q.delta)

\* The start and end points, ends first where they coincide.
pointLess(p, q) == p.at < q.at \/ (p.at = q.at /\ p.delta < q.delta)

pointsOf(intervals) ==
    sorted([i \in DOMAIN intervals |-> [at |-> intervals[i].start, delta |-> 1]]
             \o [i \in DOMAIN intervals |-> [at |-> intervals[i].end, delta |-> -1]],
           pointLess)

\* One turn of the sweep over the points.
sweepStep(acc, p) ==
    [at |-> p.at,
     active |-> acc.active + p.delta,
     peak |-> later(acc.peak, acc.active + p.delta),
     weighted |-> acc.weighted + acc.active * (p.at - acc.at)]

sweep(intervals) ==
    loop(sweepStep, [at |-> 0, active |-> 0, peak |-> 0, weighted |-> 0], pointsOf(intervals))

\* ParallelismAverage is weighted / wallClock.
Summarize(runs, from, to, now) ==
    LET c == counted(runs, from, to, now)
        all == intervalsOf(c, from, to, now)
        projects == {c[i].project : i \in DOMAIN c}
        own(p) == kept(c, {i \in DOMAIN c : c[i].project = p})
        span == [p \in projects |-> Duration(Merge(intervalsOf(own(p), from, to, now)))]
        order == SetToSeq(projects)
    IN  [runCount |-> Len(c),
         tokens |-> sumTokens(kept(runs, {i \in DOMAIN runs :
                        \/ proper(clipped(runs[i], from, to, now))
                        \/ instantaneous(runs[i], from, to, now)})),
         sessionAgentTime |-> Duration(all),
         wallClock |-> Duration(Merge(all)),
         projectSpan |-> span,
         agentTime |-> total([k \in DOMAIN order |-> span[order[k]]]),
         peak |-> sweep(all).peak,
         weighted |-> sweep(all).weighted]

-----------------------------------------------------------------------------
\* Store.Runs selects the runs of a window: started_at < to and
\* COALESCE(ended_at, now()) > from.
selected(runs, from, to, now) ==
    kept(runs, {i \in DOMAIN runs : runs[i].started < to /\ runEnd(runs[i], now) > from})

\* The summary handler of the API.
summary(runs, from, to, now) == Summarize(selected(runs, from, to, now), from, to, now)

-----------------------------------------------------------------------------
\* The dashboard's timeline: an open run ends at its last activity.

webInterval(run, from, to) ==
    [start |-> later(from, run.started),
     end |-> earlier(to, IF run.ended = NoTime THEN run.last ELSE run.ended)]

\* Fault: an interval inside the previous one shortens it.
webMergeStep_NoMax(merged, iv) ==
    IF merged # << >> /\ iv.start <= Last(merged).end
    THEN [merged EXCEPT ![Len(merged)].end = iv.end]
    ELSE Append(merged, iv)

webMergeStep(merged, iv) ==
    IF merged # << >> /\ iv.start <= Last(merged).end
    THEN [merged EXCEPT ![Len(merged)].end = later(@, iv.end)]
    ELSE Append(merged, iv)

\* JavaScript's sort is stable and compares the starts only.
mergeIntervals(intervals) ==
    loop(webMergeStep, << >>, sorted(intervals, LAMBDA a, b : a.start < b.start))

\* The total of a project's bar.
groupTotal(runs, project, from, to) ==
    LET own == kept(runs, {i \in DOMAIN runs :
                   runs[i].project = project /\ proper(webInterval(runs[i], from, to))})
    IN  Duration(mergeIntervals([i \in DOMAIN own |-> webInterval(own[i], from, to)]))
=============================================================================
