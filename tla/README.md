# Codex Tempo: a verification project

Codex Tempo measures how long Codex agents work. On each machine an agent that reads Codex
transcripts, hooks that Codex starts, and imports from Wakapi record events in a local SQLite
queue; clients drain the queue to a Go server, the server stores the events in PostgreSQL and projects them into *runs* (intervals of work), and
reports sum the runs up as wall-clock time, agent time and parallelism.

This directory holds TLA+ models of that pipeline, TLC configurations that check them on
small instances, and theorems that TLAPS proves for every instance. `PROJECT.json` maps
every definition to the source lines it stands for and lists the runs, the hazards, the
findings and the theorems.

## Inventory

| Part | Source | State it keeps | Operations | Modelled by |
| --- | --- | --- | --- | --- |
| run projector | `internal/projector` | `runs`, `active`, `seen` during one call | `Project`, `ReconcileOpen` | `Projector`, `ProjectorLoop`, `ProjectorArrival` |
| time accounting | `internal/interval`, `api.summary`, `timeline.tsx` | none | `Clip`, `Merge`, `Duration`, `Summarize`; the window query of `Store.Runs`; the dashboard's `mergeIntervals` | `Interval`, `TimeAccounting` |
| transcript scanner and parser | `internal/agent`, `internal/codex/parser.go` | cursors, events table | `ScanOnce`, `ScanFile`, `ParseFile`, `CommitParsed`, `ResetCursors` | `Transcript` |
| local event queue | `internal/localdb` | `events` rows with `sync_state` | `CommitParsed`, `CommitMetrics`, `Enqueue`, `Pending`, `MarkAcknowledged` | `LocalStore`, and the tables of the parts below in their modules |
| synchronisation client | `internal/sync` | none; requests on their way | `SyncOnce`, `Run` | `Delivery`, `EventTransfer` |
| event ledger and projections | `internal/postgres`, `api.ingest`, `api.rebuild` | `events`, `runs` tables; requests being served | `Ingest`, `RebuildSession`, `RebuildAll` | `Ledger` |
| hook command | `apps/cli`, heartbeats in `internal/localdb` | heartbeats, cutover, time of the last synchronisation | `runHook`, `AdvanceHookHeartbeat`, `EnsureTimeMetadata`, `SetTimeMetadata` | `Hooks`, `HookSync` |
| metric scanner | `internal/codex/metrics.go` | metric cursors with token baselines | `MetricCursor`, `Scan`, `CommitMetrics` | `Metrics` |
| Wakapi import | `apps/cli`, `internal/wakapi` | none | `Export`, `intervalsBefore`, `importWakapi` | `WakapiImport`; its events also in `Delivery` |
| registration and identity | `internal/registration`, `apps/agent`, `RegisterMachine`, `MachineID`, the token in `internal/config` | machine id, token on both sides | configure, register, authenticate | `Registration` |
| command line reports | `apps/cli` | none | `report` | `ProjectorArrival` |
| project resolver | `internal/projectresolver` | none | `Resolve` | not modelled: string normalisation over the file system |
| hook log | `internal/hooklog` | files | append, rotate | not modelled: I/O |
| web dashboard | `apps/web` | none | rendering, sign-in, proxy | only the interval merge |

How the parts interact. The agent, `codex-tempo configure`, `--once` and `reparse` are
separate processes over one SQLite file; so are the hook command and the import. They share
the cursors and the events table, and each of their transactions may fall between two steps
of another. The queue is drained by the agent's loop and by every hook: two clients may post
the same events. The server serves requests concurrently; `Ingest` commits and then rebuilds,
each rebuild reads outside the transaction in which it writes. Reads of runs write too: they
expire leases.

What is hard, and therefore what the properties are about:

* **concurrency**: two scanners of a file, two clients of the queue, two rebuilds of a session,
  two hooks of a session, two processes that are the first on a machine;
* **failure**: a process that dies between two transactions, an answer that is lost, a server
  that fails after its commit;
* **ordering**: clocks of several sources, terminal events after inferred closures, requests
  that overtake each other, a sort whose ties must not decide anything;
* **boundaries**: half-written lines, restored files, touching intervals, full batches.

What makes each part correct:

* projector: at most one open run per session; no run ends before it starts; inferred ends
  count bounded idle time and do not overlap the next run; explicit ends are final; the
  result depends on the set of events only; the two lease expiries agree and are idempotent;
* time accounting: each number is the count of units of time it claims to be; windows add up;
* scanner: no event before a cursor is missing; sequence numbers follow the lines; an event
  belongs to the session in whose part of the file it stands; every line of a file the walk
  gets to is read in the end;
* queue, client, server: an acknowledged event is stored; runs come from stored events of
  their session; runs that lag behind have a known cause; every valid event arrives;
* hooks and import: the recorded time of a session is disjoint and, but for hooks that died,
  complete; a hook leaves it unsent only for a cause that can be named, the throttle or the size of
  a request; time before the cutover is imported, time after it is hooked, and none
  is counted twice without a cause that can be named;
* metric scanner: a turn's tokens are those the transcript reports for it, counted once;
* registration: one identity per machine, and a stored token the server accepts unless the
  configure that replaced it did not finish.

## The modules

**`Projector`** holds `Project` and `ReconcileOpen` as operators on the pair `[runs, active]`
of the Go maps, one operator per case of the switch. Times are naturals (`NoTime` is a nil
`EndedAt`), a payload is its token count, models and efforts are left out (they are stored and
never decide anything), `"lease"` stands for every kind handled by the default case.
`expireLeases` is the `UPDATE` at the head of `Store.Runs`. `Project` is a loop over the sorted
list.

**`Lists`** has the loops and sorts of Go as they are used by `Projector` and `Interval`: `loop`
(a recursive function on the positions of a list), `kept` (the elements at some positions) and
`sorted` (stable). Both put each element at the place given by the number of elements ahead of it.
The folds and sorts of the community modules would say the same, but the prover cannot look
into them: they are recursive operators or take operators as parameters.

**`ProjectorLoop`** makes each turn of the loop of `Project` an action: `Skip`, `Start`,
`TokenUsage`, `Terminal`, `SessionClosed`, `Activity`. The list of events is the environment's
choice, one event at a time, sorted by session as the code sorts it. Timestamps come from
several clocks, so they may go back; a behaviour in which they do not is a choice made in
`Init` (`place.at = 0` rather than `NoTime`). `hist` is a history variable for the properties.
**`ProjectorArrival`** lets the events of a fixed log arrive in any order, any number of times,
and compares `Project` of the list with `Project` of its set. The log is any set of events with
distinct ids in which a run id belongs to one session, because every source derives one from the
other (`parser.go:227`, `cli/main.go:271` and `:348`, `metrics.go:138`). It also has the report of
the command line: `Events` selects by the *text* of a time (`textOrder`: a half second sorts
before the whole one it follows, because RFC3339Nano drops the fraction of a whole second), and
`report` projects what was selected.

**`Interval`** has the sums; **`TimeAccounting`** fills a table of runs, asks for a window and
compares the sums with a count over the units of time.

**`Transcript`** is the collection: Codex writes lines (each visible in part, then complete),
the file may be restored in place or under a new identity, and each scanner reads the cursor
(`Fetch`), reads the file (`Parse`) and commits (`Commit`), with aborts and resets in between.
Offsets count lines. A line is its kind (a session's meta record, another record that becomes
an event, one that is ignored, one that does not parse) and the session it names, if it does: a
meta record has to, another record may (a `turn_context` with a session id, `parser.go:135`). The table of parser errors is a count
for diagnostics and is left out.

**`EventModel`, `LocalStore`, `Ledger`, `Delivery`** are the path of an event. `LocalStore` is
the queue, `Ledger` the server, `Delivery` composes them with the clients. An event is its id,
its content a version; only wakapi events may change their version under one id. A projection
is represented by the events it was computed from, because the runs are a function of them
(`ProjectorArrival` checks that). Every transaction is one step: `RebuildWrite` too, because the
upsert of the session's row at its beginning makes concurrent rebuilds of a session wait for
each other. `cut` and `raced` record which sessions a failure or a race has left behind.
`faults` counts failures; only the model bounds them.

**`EventTransfer`** says what all this amounts to: an event is recorded, stored, confirmed, in
this order, and stays confirmed unless it is from wakapi and revised. `Delivery` implements it
under the mapping `Stage`, which reads the stage of an event off its local row, its sync state
and the server's table; requests, answers and handlers are invisible. The abstract steps move
sets of events, because a batch is stored by one transaction and confirmed by one.

**`Hooks`** is `runHook` up to the queue, a process per hook: `HookStart` takes the time,
`EnsureTimeMetadata` sets the cutover if nobody has, `AdvanceHookHeartbeat` moves the session's
heartbeat in one (immediate) transaction and gives the hook its interval, `HookEnqueue` queues
it. `HookDie` is every early return and the two-second limit. An interval stands for the three
events made of it. `beats`, `dropped` and `overtaken` are history: what was recorded, what dead
hooks took with them, which hooks were on their way when a later one set the cutover. Two
modules extend it. **`HookSync`** adds the throttled synchronisation in an installation that has a
server and a token (without them a hook ends before it, `cli/main.go:243`): `SyncDecide` is the
throttle, `Pending` reads at most `Batch` of the oldest events, `SyncOnce` has them stored and
acknowledged, `SetLastSync` records the time the hook was started; other processes take those
steps in between. Every failure is `HookDie`: which failures leave events stored but not
acknowledged, what the agent's loop sends, and rejected events are in `Delivery`. `reads`, `early`
and `full` are history: when hooks read the queue, which intervals were not there yet, which hooks
delivered a full batch. **`WakapiImport`** adds the import, with one `--timeout` for all imports. `Export` is defined as the set of maximal stretches of linked heartbeats of a
project, which is what the loop over days and heartbeats computes; the cut at the cutover and
the replacement of what an earlier import queued (`sameRun`: ids are made of project and start)
follow the code step by step, because hooks run during the minutes an export takes.

**`Metrics`** is the scanner the hooks run over the transcript: the cursor is read, the file
scanned from there (`stateAt` is the loop as a recursive function, `lineState` its switch),
events and cursor committed. Codex writes lines, turns may be abandoned, the file may be
restored, in place or as a new one. The first hook sets the cutover when `old` lines are there. The
meta record may come without a `cwd`: then the transcript has no project, and none of its turns
counts (a second meta record that brings the `cwd` is not modelled). A usage is one of the four
counters. The code falls back on the last request only if none of the four has risen; the comment
of `turnUsage` says why that makes no difference to any of them.

**`Registration`** has the processes of a machine (runs of configure, and clients) from the
loading of the configuration: `SelectMachineID` and `InsertMachineID` are the two statements of
`MachineID`, a run of configure registers (`SendRegister`, `RegisterMachine` on the server,
`ReceiveToken`) and saves, a client synchronises with the token it loaded. A token is named
after the run of configure it was made for. A run of configure may end anywhere, and the server
may serve its request afterwards. The scan and the synchronisation at the end of configure are
those of `Transcript` and `Delivery`.

Operators whose comment begins with "Fault:" are wrong variants of the operator that follows
them: a property is only worth its run if such a slip of the code would violate it, and
`PROJECT.json` ("mutants") names for each property the variant that does.

`MC*` modules give values to constants: small sets, model values, symmetries.

## The runs

| Run | Instance | Shows |
| --- | --- | --- |
| `projector` | 4 events, 2 sessions, 2 runs, 3 instants around `Grace` = 1 and `Maximum` = 2 | `IndInv` (types, open runs are the active ones, ends after starts) and six more properties of the loop |
| `projector_arrival` | lists of up to 5 out of a log with equal sequence numbers, times and two sessions; days of 4 half seconds, `Maximum` = 2 | order and repetition of the list do not matter; sessions are independent; the `runs` table accepts each session's rows; reports show recent runs as they are |
| `time_accounting` | 3 runs, 2 projects, 4 instants | sums equal counts of units; windows add up; the dashboard's bars agree |
| `transcript` | 2 scanners, 1 file, 3 lines that may each name one of 2 sessions, 2 upsets | nothing missed, doubled, out of order or in the wrong session |
| `transcript_live` | the agent, 3 files of which the second is unreadable, up to 3 lines, 1 upset | every event a file before the unreadable one shows is collected |
| `delivery` | 3 events (one rejected, one from wakapi with 2 contents), 2 clients, 2 requests, 1 fault | acknowledged events are stored, runs come from the ledger, stale runs have a cause, acknowledgements are final, `EventTransfer` is implemented |
| `delivery_live` | the agent, 3 events (one rejected), batches of 2, 1 fault | every valid event is delivered |
| `delivery_cut` | 2 events, 1 request, 1 fault | **violation**: runs stay out of date after a failure |
| `hooks` | 4 hooks of 2 sessions and 2 projects, 2 at a time, 1 death, 4 instants, timeout and throttle 2, requests of 4 events | hooked time is disjoint and complete but for dead hooks; what a hook leaves unsent has a cause |
| `wakapi_import` | 3 heartbeats, 2 hooks, repeated imports, 1 death, 4 instants | double counting has a cause; imports replace what they imported |
| `metrics` | 2 hooks, 3 scans, a transcript of 5 lines with or without a project, requests of 0 or 2 tokens, 1 restored file, cutover after line 2 | usage is exact, no completed turn is skipped |
| `registration` | 3 runs of configure and 2 clients (3 starts) of a new machine, all of which may fail | one identity; an invalid token has a cause |

Why the bounds are enough. Four events and two runs let a run be started, replaced, started
again and closed, twice over for two sessions; three instants put an event inside, at and after
the grace period and after the longest run. Three intervals on four instants contain every
relation of two intervals (apart, touching, overlapping, nested, equal) with a third one
bridging them. Three lines and two upsets let a scan die or be overtaken and the file be
restored below the cursor and grow again; two scanners are the interference, a third repeats
it. Two requests, two clients and a fault give lost answers, retries served before the
request they repeat, and rebuilds that overtake each other; the content of the wakapi event may
change at every point of this, back and forth. A batch holds one event more than are rejected:
when rejected events fill it the code behaves differently (see the observations). Four hooks at
four instants, two at a time, let hooks of a session overtake each other, two sessions share a
throttle, and a gap be shorter than, as long as and longer than the timeout; an interval is three
events, so a request of four delivers one interval and part of the next. Three heartbeats
give two intervals that merge, or do not, across a cutover at any place. Five lines are a meta
record, a turn with a count and one whose start is not in the file, or one turn with two counts;
three scans are two that overlap and one that follows. With one death or one restored file a second one only repeats the first.

`CHECK_DEADLOCK FALSE` is set where the bounded environment has nothing more to do: all events
taken, all lines written, all events acknowledged.

### Fairness

`transcript_live`: weak fairness of the agent's own steps. `Service.Run` scans on every change
and on every tick; an aborted scan is followed by another. Nothing is assumed of the other
scanners, of Codex or of the resets.

`delivery_live`: `Client.Run` retries for ever with a delay of at most ten minutes, each request
has a timeout, and a handler that has received a request goes on. Sending is strongly fair
because only the model limits the number of handlers: a slot that is free again and again is as
good as one that stays free. No fairness is given to collectors, hooks or rebuilds.

## Findings

`delivery_cut` exhibits one; `PROJECT.json` quotes the lines. `Ingest` commits, then rebuilds.
After a failure in between, the retry affects no row, touches no session and is answered 200;
the runs stay out of date until another event of the session arrives or somebody calls the
rebuild endpoint. `StaleRunsHaveACause` (passing) says that this and the race of two rebuilds
are the only ways.

Observed while modelling, without a run of their own:

* queue and server: acknowledgement is by id, whatever content was posted, so that a wakapi
  event rewritten between `Pending` and `MarkAcknowledged` counts as delivered with its new
  content unsent (`localdb/store.go:398`; this is why `AckedEventsAreStored` says nothing of
  the content of wakapi events); rejected events stay pending and are the oldest, so that 250
  of them keep everything behind them from being sent (`sync/client.go:69`), and one of them
  keeps an import in its loop for ten minutes (`cli/main.go:317`); of two concurrent rebuilds of
  a session the one that read less may write last (`postgres/store.go:141`; `raced` in
  `Delivery`); stored wakapi events are rewritten although events are described as immutable
  (`postgres/store.go:115`);
* transcripts: sequence numbers count the events of a file while uniqueness is per session, so
  that a second transcript of a session loses its events (`parser.go:165`); a transcript that
  cannot be opened ends every walk, so the files after it are not read while it is there
  (`agent/service.go:35`; `EventuallyCollected` promises nothing of them);
* projection and reports: an explicit terminal event corrects a closure inferred from a new run
  but not one inferred from `session_closed` (`projector.go:130`); a run without duration at a
  window's first instant is excluded by the query and its tokens are in no window
  (`postgres/store.go:250`); a run that began more than twelve hours before a report's window is
  missing from the report, or shown from a later start (`cli/main.go:52`); the dashboard merges
  intervals itself although README.md says time is calculated in Go only (`timeline.tsx:268`;
  `DashboardAgrees` shows that both agree); README.md:36 calls agent time the time "across
  independent sessions", but `agent_seconds` merges the sessions of a project
  (`interval.go:108`), and what the sentence describes is `session_agent_seconds`;
* hooks and import: the interval of a hook that dies between heartbeat and queue is lost
  (`cli/main.go:221`); heartbeats that reach Wakapi late split or extend intervals at their
  start, and the rows of an earlier import under the old start stay (`cli/main.go:348`), as they
  do when an import is repeated with another `--timeout` (`cli/main.go:292`): they overlap the
  new ones, and `ImportedTimeIsDisjoint` is about one timeout; a hook that delivers a full batch
  records its synchronisation like any other, so that the rest of the queue waits for the
  throttle (`sync/client.go:36`, `cli/main.go:263`);
* metrics: a turn without a token count is given the usage of the last request before it
  (`metrics.go:102`); a transcript that became shorter is read again with the old state, so that
  the turn in progress is measured against the totals of the longer file, or takes the place of
  an earlier turn whose start is not in the file (`metrics.go:46`; the exception in
  `UsageIsExact`);
* agent: README.md:222 describes `--once` as a cycle of collection and synchronisation, `run` only
  scans (`agent/main.go:54`); without a configuration file `Load` returns before the environment
  is looked at (`config.go:73`).

## The proofs

Every safety invariant, action property and refinement that a passing run checks is also a
theorem, for every value of the constants the modules' assumptions allow (any number of sessions,
runs, events, clients, scanners, lines, hooks, faults, restored files).
`PROJECT.json` lists them with the property each one states. The proof about a protocol has an inductive invariant that was checked with
TLC on the run's instance first, one lemma per action, and lemmas on the operators the actions
are made of. What a pure function computes is proved along its loop, by an induction on the number of turns.

`ListProofs` (about `Lists`): `UpTo`, `LeastNumber` and `GreatestNumber` are the inductions, on a
set instead of a predicate, because the library's take an operator as a parameter. `LoopExists`
says that a loop is a function of the number of its turns, `ArrangedInOrder` and `KeptInOrder` that
what is sorted or kept is an enumeration of the elements in the order asked for, `TotalTurns` and
`TotalCounts` that a total of sizes is the size of a set of pairs.

`ProjectorProofs` (about `ProjectorLoop` and `ProjectorArrival`, for any sessions, runs, events,
clocks, grace and maximum). About the loop:

* `ProjectionInvariant`: `IndInv`, which the run `projector` checks as it stands, is invariant.
  Its first part is `TypeOK` (`ProjectionTypeCorrect`). `OneOpenRun` alone is not inductive: a start
  only closes the *active* run, so one needs `OpenRunsAreActive` (an open run is the active run
  of its session, and active runs are known). `EndsAfterStart` needs the last activity to be no
  earlier than the start as well, since inferred ends are computed from it.
* The argument: each case of the switch is a function on `[runs, active]` that keeps the
  predicate `Sound`; one lemma per case, built from lemmas on `closeRun`, `closeInferredRun`,
  `touch` and on replacing one entry of a map; `ProcessSound` lifts them to the loop.
* `AtMostOneOpenRun`, `RunsEndAfterTheyStart`: consequences. They justify the unique index
  `runs_active_idx` and the `CHECK` of the `runs` table, without which every later rebuild of
  the session would fail.
* `BothExpiriesAgree`: the SQL of the server and `ReconcileOpen` close the same runs at the same
  instants although only the latter clamps the end; `EndsAfterStart` is what makes the clamp
  idle. `ReadsDoNotMatter`: expiring twice is expiring once at the later time, since an expired
  run has an end and is left alone.
* `SettledRunsAreFinal`: an action property; no event moves the end of a run settled by an
  explicit event or a closed session unless it is active again.
* `InferredIdleTimeIsBounded`: one lemma per case (`Effect`) says what the case does to each run.
  `IdleInv` bounds the *last activity* by the evidence too, because a run that was closed by
  inference and is closed again takes its end for its last activity: this is why the bound
  grows with the number of inferences.
* `SupersededRunsAreApart`: `OverlapInv` adds that no run of the session in progress starts or
  was active after the place the loop has reached (`PlaceInv`) and that the active run is the
  last one started (`CurrentIsLast`), which makes the start that supersedes a run the earliest
  of the later ones.

About the list it is given:

* `Walk`: a call of `Project` is a walk over the sorted list that applies an event the first time
  it meets it (`WalkExists`). `EventOrder`: of two events with different ids one is before the
  other, so that the order of the applied events is that of their set.
* `Simulation`: a relation between the states of two walks that holds at their start, survives a
  turn of either that applies nothing the other applies, and a turn of both that applies one event,
  holds at their end. The induction is on the sum of the two positions; `PastFacts` says that two
  walks that have applied the same events are about to apply the same one next.
* `EventFollows`: what an event does to a run and to the current run of its session depends on
  that run and that current run alone (`runAfter`, `currentAfter`); one lemma per case of the
  switch.
* `OrderIsIrrelevant`: the relation is equality. `SessionsDoNotInterfere`: the relation is
  `SameSession`, the second state is what the first knows of one session; `OwnRuns`, by which an
  event only reaches runs of its own session, needs that a run id belongs to one session.
* `RebuildsSucceed`: the lemmas that each case keeps `Sound` are stated for any event, so that they
  hold along a walk as well as in the loop's module (`ProjectSound`): what `Project` returns for
  any list satisfies the `CHECK` and the index. That the rows of two sessions share no
  id takes `SessionsApart`, too.
* `ReportIsExact`: the relation is `SameRecent`: the two states agree on the runs that started
  since `m`, and their current runs are equal or both started before it. An event the
  report does not read is older than `m`, and so are all runs of its session at that point
  (`StartsBefore`: here clocks must not go back); `OtherCurrent` says that for a run that is not current it makes
  no difference which one is. `TextOrderKeeps` is why `m` is one second later than the twelve hours.

`TimeAccountingProofs` (about `Interval` and `TimeAccounting`, for any number of runs and any window).
Each number is shown to be the cardinality of a set of units of time:

* `OverlapCountsOnce`: a turn of `Merge` over sorted intervals keeps the result apart (`Apart`: proper
  intervals, each after the one before it) and covering the same units; the length of
  intervals that are apart is the number of units they cover.
* `PartsAddUp`: the units of a window are those of its parts, and a clipped interval covers the
  units of the interval that are in the window.
* `BarsAreTheSpans`: the dashboard's merge covers the same units, although it sorts by start only.
* `SweepIsExact`: after any number of points the running count of the sweep is the number of
  intervals that are active until the next one, because at one instant ends come before starts;
  so that the peak is attained in a unit and the weighted sum counts pairs of an interval and a unit.

`DeliveryProofs` (about `Delivery`, for any events, clients, handlers, batch size and number of
faults):

* `DeliveryInvariant`: `IndInv` adds to the two properties what carries them: requests carry
  rows of the queue, stored events are rows, a request past its commit has its valid events
  stored, and what a rebuild has read is stored and of its session.
* `NoAcknowledgedEventIsLost`, `RunsAreNeverInvented`: consequences.
* `AcknowledgementIsFinal`: an action property.
* `StaleRunsAreExplained`: inductive once the types are known; a step that makes runs stale
  either leaves a handler that will rebuild them or adds the session to `cut` or `raced`.
* `DeliveryImplementsEventTransfer`: the refinement. Beyond `IndInv` it needs that the server
  stores no event the queue does not have, wakapi events included (`StoredEventsAreQueued`);
  with that the stages of an event are really passed in order. One lemma per visible action
  names the set of events it moves; `OtherStepsAreInvisible` covers the rest.

`TranscriptProofs` (about `Transcript`, for any transcripts, scanners, lines and upsets). The
invariant says that sequence number and session of a cursor and of an event are functions of
the lines before it (`CursorOK`, `EventOK`: a cardinality and a last meta line), in the table
*and* in the hands of every scan, and that a cursor has passed only what is stored or about to
be stored with it. So it does not matter which scan commits last: a scan from any correct
cursor finds the same events. The three properties follow; `SequenceFollowsTheFile` because the
number of event lines up to a line grows strictly from one to the next.

`HookProofs` (about `Hooks`, `HookSync` and `WakapiImport`) has first what the hooks keep true up to
the queue (`HookInv`), whatever follows: the heartbeat row is the latest recorded heartbeat, the intervals in the hands of hooks are work
between consecutive ones, a hook that looked at the cutover started no earlier or was
overtaken. The two specifications share it (`SyncSpec`, `ImportSpec`). For `HookSync`: intervals of a session are disjoint because no heartbeat lies inside one;
the throttle (`ThrottleStrandsNothing`) needs that the recorded time is that of a hook that read
the queue and acknowledged what it read, so that an interval with an undelivered event was not
there when it read, or did not fit into its batch.
For `WakapiImport`: what a sighted import queues ends at the cutover (`ImportEndsAtCutover`),
which hooks that were not overtaken start after; imports stay disjoint because each interval
starts where a stretch of heartbeats starts and lies inside it (`IntervalsFollowWakapi`), and
stretches with two starts are apart.

`MetricsProofs` (about `Metrics`, for any transcript, hooks, scans and restored files). The
state a scan reaches is compared line by line with what the lines say (`StateOK`): the totals,
the turn in progress and its baseline are those of the lines, or are left from a cursor that was
set back (`torn`), and then only until the lines say otherwise. `StateStep` is the step of the
switch, `ScanKeepsState` the induction along the scan (by the least line where it fails; that the
recursive function `stateAt` obeys its equation is `ScanStates`). A torn offset has its turns
stored already (`TornOK`), so that the wrong event a set-back cursor may produce for a turn
before that offset is ignored by the table; what is left is the turn in progress at the torn
offset. `Justified` says of each usage, stored or about to be, which line or torn offset it is
from. The attempt to prove `UsageIsExact` refuted its first form, which bounded the usage of a
torn turn by its own tokens: TLC had passed it on five lines, and six lines refute it (the turn
may be credited, at an earlier line, with an earlier turn's request). The property now states
the bound that holds, the session's total.

`RegistrationProofs` (about `Registration`, for any processes, attempts and restarts).
`OneIdentity` is inductive with the types, because the second `INSERT` fails. For the token one
needs how far requests and attempts are apart (`RequestsFollowAttempts`), that attempts that
register at once are noted, and that a superseded attempt that may still save overlapped the one
that superseded it, or that one gave up (`SupersededSaversOverlap`).

Assumptions: only those the modules name (`ProjectorAssumption`, `LoopAssumption`,
`EventModelAssumption`, `LocalStoreAssumption`, `LedgerAssumption`, `DeliveryAssumption`,
`TranscriptAssumption`, `HooksAssumption`, `HookSyncAssumption`, `WakapiImportAssumption`,
`MetricsAssumption`, `RegistrationAssumption`, `TimeAccountingAssumption`, `ArrivalAssumption`):
types of the constants, and that empty ids and `None` are not proper values. Two are about the world. `ArrivalAssumption`
says that event ids are unique, that a run id belongs to one session, and that a report's day and
the twelve hours are whole seconds. `OwnSessionsAssumption` says that two
transcripts report no common session. Codex names a transcript after its session; where it does
not hold, the sequence numbers of one hide events of the other (see the observations).

Only model-checked: liveness (`EventuallyCollected`, `EventuallyDelivered`), because fairness and
`ENABLED` are out of the prover's reach; and the violation of `delivery_cut`, which is a
counterexample.

## Not modelled

The size limits of requests and the setup key (their refusals are the failures of `Ledger` and
the ends of `Registration`); JSON decoding and the mapping of records to times; the rows of
projects and sessions, whose columns are copied, and with them the merging of projects by name;
the project resolver; log files, the parsing of the configuration, rendering and sign-in. A file
that takes another file's place with the same inode and at least its size is indistinguishable
for the code, and the models do not produce it. The clock of a machine does not go back in
`Hooks` (that of the events in `ProjectorLoop` does).

## Plan

Done, in this order: `Projector`, `ProjectorLoop` and its proofs; the path of an event
(`LocalStore`, `Ledger`, `Delivery`) and its proofs; `Interval` and `TimeAccounting`;
`Transcript`; `Hooks`, `HookSync` and `WakapiImport`; `Metrics`; `Registration`;
`EventTransfer` and the refinement; the reports in `ProjectorArrival`; the proofs about
`Hooks`, `HookSync`, `WakapiImport`, `Registration`, `Transcript`, `Metrics`, and the remaining
ones about `ProjectorLoop` and `Delivery`; `Lists`, and on it the proofs about `TimeAccounting` and
`ProjectorArrival`.

Open:

1. The rows of projects, of which two rebuilds may create two with one name, and the import's loop
   that drains the queue.
2. An action property of the metric scanner and of the hooks: a stored usage, a stored interval
   is never changed.
3. The path of an event with the projection of `ProjectorArrival` in place of the set of events it
   is computed from, to state the properties of `Ledger` of the runs themselves.
