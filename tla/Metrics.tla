------------------------------ MODULE Metrics ------------------------------
(***************************************************************************)
(* The token counts of turns: MetricScanner.Scan (internal/codex), the     *)
(* cursor and events tables of internal/localdb, and the hooks that run    *)
(* the scanner over a session's transcript, any number at a time.          *)
(*                                                                         *)
(* Tokens are reported as running totals of the session, so a turn's usage *)
(* is a difference, and the scanner keeps where it stands (the totals, the *)
(* turn in progress) in the cursor next to the offset.  Three steps: the   *)
(* cursor is read, the transcript is scanned from there, events and cursor *)
(* are committed.  Offsets count complete lines.  A usage is one of the    *)
(* four counters of TokenUsage, and a stored turn stands for the four      *)
(* events of metricEvents.                                                 *)
(***************************************************************************)
EXTENDS Integers, Sequences

CONSTANTS
    Scanners,   \* hook processes
    Turns,      \* turn ids
    NoTurn,     \* the empty turn id; also: no usage stored
    Counts,     \* tokens of a model request
    OldLines,   \* how many lines may precede the cutover, set by the first hook
    MaxLines,   \* bound: lines of the transcript
    MaxScans,   \* bound: scans
    MaxUpsets   \* bound: restored files

ASSUME MetricsAssumption ==
    /\ NoTurn \notin Turns \cup Int
    /\ Counts \subseteq Nat
    /\ OldLines \subseteq Nat
    /\ MaxLines \in Nat /\ MaxScans \in Nat /\ MaxUpsets \in Nat

VARIABLES
    log,        \* the lines written to the transcript
    shown,      \* those the file has now
    ident,      \* identity of the file
    old,        \* lines written before the cutover; set once
    cursor,     \* the row of metric_cursors
    usage,      \* usage[k]: what the events table says of turn k
    scanner,    \* scanner[s]: what s is doing
    scans,      \* scans so far
    upsets,     \* restored files so far
    torn        \* history: offsets of cursors that were set back

vars == <<log, shown, ident, old, cursor, usage, scanner, scans, upsets, torn>>

NoState == [project |-> FALSE, turn |-> NoTurn, baseline |-> 0, current |-> 0, last |-> 0]

FreshCursor == [ident |-> 0, offset |-> 0, state |-> NoState]

Idle == [phase |-> "idle", cur |-> FreshCursor, found |-> {}]

Init ==
    /\ log = << >> /\ shown = 0 /\ ident = 1
    /\ old \in OldLines
    /\ cursor = FreshCursor
    /\ usage = [k \in Turns |-> NoTurn]
    /\ scanner = [s \in Scanners |-> Idle]
    /\ scans = 0 /\ upsets = 0
    /\ torn = {}

-----------------------------------------------------------------------------
\* Codex writes the transcript, first its session_meta record, with a cwd (meta)
\* or without one (bare).  Turns may be abandoned, and one may complete whose
\* start is not in the file.

Lines == [kind : {"meta", "bare", "start", "tokens", "complete"}, turn : Turns \cup {NoTurn},
          total : Nat, last : Nat]

Written(kind) == {i \in DOMAIN log : log[i].kind = kind}

Last(S) == CHOOSE i \in S : \A j \in S : j <= i

\* The turn in progress at the end of the transcript.
Current ==
    LET marks == Written("start") \cup Written("complete")
    IN  IF marks = {} \/ log[Last(marks)].kind = "complete" THEN NoTurn ELSE log[Last(marks)].turn

Used == {log[i].turn : i \in DOMAIN log}

Total == IF Written("tokens") = {} THEN 0 ELSE log[Last(Written("tokens"))].total

NextLine ==
    LET line(kind, k, total, n) ==
            [kind |-> kind, turn |-> k, total |-> total, last |-> n]
    IN  IF log = << >> THEN {line("meta", NoTurn, 0, 0), line("bare", NoTurn, 0, 0)} ELSE
        {line("start", k, 0, 0) : k \in Turns \ Used}
        \cup {line("tokens", NoTurn, Total + n, n) : n \in Counts}
        \cup {line("complete", k, 0, 0) : k \in IF Current = NoTurn THEN Turns \ Used ELSE {Current}}

WriteLine(l) ==
    /\ Len(log) < MaxLines
    /\ shown = Len(log)
    /\ log' = Append(log, l)
    /\ shown' = shown + 1
    /\ UNCHANGED <<ident, old, cursor, usage, scanner, scans, upsets, torn>>

\* The file is written again with the same lines, in place or as a new file.
Restore(n, id) ==
    /\ upsets < MaxUpsets
    /\ n < shown
    /\ upsets' = upsets + 1
    /\ shown' = n /\ ident' = id
    /\ UNCHANGED <<log, old, cursor, usage, scanner, scans, torn>>

ShowLine ==
    /\ shown < Len(log)
    /\ shown' = shown + 1
    /\ UNCHANGED <<log, ident, old, cursor, usage, scanner, scans, upsets, torn>>

-----------------------------------------------------------------------------
\* Scan.

\* Another identity starts afresh; a file that has become shorter is read from
\* the beginning, with the state as it was.
startCursor(c) ==
    LET known == IF c.ident # 0 /\ c.ident # ident THEN FreshCursor ELSE c
    IN  [known EXCEPT !.ident = ident, !.offset = IF @ > shown THEN 0 ELSE @]

\* Fault: a total below the one at the start is not noticed.
turnUsage_Unclamped(st) == IF st.current # st.baseline THEN st.current - st.baseline ELSE st.last

\* The tokens of a turn, from the totals at its end and at its start.  The code
\* falls back on the last request if none of the four counters has risen; for the
\* one here that makes no difference: where another rises and this does not, a
\* request of the turn was reported, and the last did not add to this one either.
turnUsage(st) == IF st.current > st.baseline THEN st.current - st.baseline ELSE st.last

\* The turn that a complete line completes.
completed(st, l) == IF st.turn = NoTurn THEN l.turn ELSE st.turn

\* Fault: a turn is measured from the end of the one before.
lineState_NoBaseline(st, l) ==
    CASE l.kind = "meta" -> [st EXCEPT !.project = TRUE]
      [] l.kind = "bare" -> st
      [] l.kind = "start" -> [st EXCEPT !.turn = l.turn]
      [] l.kind = "tokens" -> [st EXCEPT !.current = l.total, !.last = l.last]
      [] l.kind = "complete" -> [st EXCEPT !.turn = NoTurn, !.baseline = st.current]

\* What a line makes of the state.
lineState(st, l) ==
    CASE l.kind = "meta" -> [st EXCEPT !.project = TRUE]
      [] l.kind = "bare" -> st
      [] l.kind = "start" -> [st EXCEPT !.turn = l.turn, !.baseline = st.current]
      [] l.kind = "tokens" -> [st EXCEPT !.current = l.total, !.last = l.last]
      [] l.kind = "complete" -> [st EXCEPT !.turn = NoTurn, !.baseline = st.current]

\* The state after line n of a scan from cursor c.
stateAt(c, n) ==
    LET after[i \in c.offset..shown] == IF i = c.offset THEN c.state ELSE lineState(after[i - 1], log[i])
    IN  after[n]

\* Fault: the events of a turn replace those of the turns before it.
metricEvents_LastTurn(c) ==
    {[turn |-> completed(stateAt(c, i - 1), log[i]), usage |-> turnUsage(stateAt(c, i - 1))] :
        i \in {j \in (c.offset + 1)..shown :
                  /\ log[j].kind = "complete" /\ j > old /\ stateAt(c, j - 1).project
                  /\ \A k \in (j + 1)..shown : log[k].kind # "complete"}}

\* Turns that complete after the cutover, in a project.
metricEvents(c) ==
    {[turn |-> completed(stateAt(c, i - 1), log[i]), usage |-> turnUsage(stateAt(c, i - 1))] :
        i \in {j \in (c.offset + 1)..shown :
                  /\ log[j].kind = "complete" /\ j > old /\ stateAt(c, j - 1).project}}

-----------------------------------------------------------------------------
\* A hook's use of the scanner.

MetricCursor(s) ==
    /\ Len(log) >= old
    /\ scans < MaxScans
    /\ scans' = scans + 1
    /\ scanner[s].phase = "idle"
    /\ scanner' = [scanner EXCEPT ![s] = [phase |-> "scan", cur |-> cursor, found |-> {}]]
    /\ UNCHANGED <<log, shown, ident, old, cursor, usage, upsets, torn>>

Scan(s) ==
    LET c == startCursor(scanner[s].cur)
    IN  /\ scanner[s].phase = "scan"
        /\ scanner' = [scanner EXCEPT ![s] =
              [phase |-> "commit", found |-> metricEvents(c),
               cur |-> [c EXCEPT !.offset = shown, !.state = stateAt(c, shown)]]]
        /\ torn' = IF c.offset < scanner[s].cur.offset THEN torn \cup {scanner[s].cur.offset} ELSE torn
        /\ UNCHANGED <<log, shown, ident, old, cursor, usage, scans, upsets>>

\* CommitMetrics: known events stay as they are; the cursor is replaced, also by
\* an older one.
CommitMetrics(s) ==
    /\ scanner[s].phase = "commit"
    /\ usage' = [k \in Turns |->
                    IF usage[k] = NoTurn /\ \E e \in scanner[s].found : e.turn = k
                    THEN (CHOOSE e \in scanner[s].found : e.turn = k).usage
                    ELSE usage[k]]
    /\ cursor' = scanner[s].cur
    /\ scanner' = [scanner EXCEPT ![s] = Idle]
    /\ UNCHANGED <<log, shown, ident, old, scans, upsets, torn>>

\* The hook dies, or goes on without the metrics.
Abort(s) ==
    /\ scanner[s].phase # "idle"
    /\ scanner' = [scanner EXCEPT ![s] = Idle]
    /\ UNCHANGED <<log, shown, ident, old, cursor, usage, scans, upsets, torn>>

Next ==
    \/ \E l \in NextLine : WriteLine(l)
    \/ ShowLine
    \/ \E n \in 0..MaxLines : \E id \in {ident, ident + 1} : Restore(n, id)
    \/ \E s \in Scanners : MetricCursor(s) \/ Scan(s) \/ CommitMetrics(s) \/ Abort(s)

Spec == Init /\ [][Next]_vars

-----------------------------------------------------------------------------
State == [project : BOOLEAN, turn : Turns \cup {NoTurn}, baseline : Nat, current : Nat, last : Nat]

Cursor == [ident : Nat, offset : 0..Len(log), state : State]

TypeOK ==
    /\ log \in Seq(Lines)
    /\ shown \in 0..Len(log) /\ ident \in Nat /\ old \in OldLines
    /\ cursor \in Cursor
    /\ usage \in [Turns -> Nat \cup {NoTurn}]
    /\ scanner \in [Scanners -> [phase : {"idle", "scan", "commit"}, cur : Cursor,
                                 found : SUBSET [turn : Turns, usage : Nat]]]
    /\ scans \in 0..MaxScans /\ upsets \in 0..MaxUpsets
    /\ torn \subseteq 0..MaxLines

Before(i, kinds) == {j \in 1..(i - 1) : log[j].kind \in kinds}

TotalAt(i) == IF Before(i, {"tokens"}) = {} THEN 0 ELSE log[Last(Before(i, {"tokens"}))].total

\* Where the turn that completes in line i began.
Began(i) ==
    LET marks == Before(i, {"start", "complete"}) IN IF marks = {} THEN 0 ELSE Last(marks)

\* What the transcript says of that turn: the tokens since it began, or those of
\* the last request if there are none.
Spent(i) ==
    IF TotalAt(i) > TotalAt(Began(i)) THEN TotalAt(i) - TotalAt(Began(i))
    ELSE IF Before(i, {"tokens"}) = {} THEN 0 ELSE log[Last(Before(i, {"tokens"}))].last

\* A cursor in the middle of that turn was set back to the start of the file.
Torn(i) == \E o \in torn : Began(i) <= o /\ o < i

(***************************************************************************)
(* README.md:30 "How many tokens did each session or project use?": each   *)
(* stored turn has the tokens the transcript reports for it, however its   *)
(* lines were divided among scans and whichever scan committed last.  One  *)
(* exception: the turn in progress when a file was found shorter is        *)
(* measured against the totals of the longer file, or credited with an     *)
(* earlier turn's request; then only the session's total bounds it.        *)
(***************************************************************************)
UsageIsExact ==
    \A i \in Written("complete") :
        LET k == log[i].turn
        IN  usage[k] # NoTurn =>
                IF Torn(i) THEN usage[k] <= TotalAt(i) ELSE usage[k] = Spent(i)

(***************************************************************************)
(* A turn that completed after the cutover and that the cursor has passed  *)
(* is stored, even if scans die, overtake each other or meet a file that   *)
(* is being restored; one that completed before is not, and no turn of a   *)
(* transcript without a project is.                                        *)
(***************************************************************************)
NoTurnSkipped ==
    \A i \in Written("complete") :
        LET k == log[i].turn
            counts == i > old /\ log[1].kind = "meta"
        IN  /\ i <= cursor.offset /\ counts => usage[k] # NoTurn
            /\ usage[k] # NoTurn => counts
=============================================================================
