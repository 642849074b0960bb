----------------------------- MODULE Transcript -----------------------------
(***************************************************************************)
(* Collection of transcripts: ScanOnce and ScanFile of internal/agent,     *)
(* ParseFile of internal/codex, and the cursor and events tables of        *)
(* internal/localdb.  The agent, "configure" and "--once" are scanners of  *)
(* the same database; "reparse" resets the cursors under them.             *)
(*                                                                         *)
(* A scan of a file is three steps: the cursor is read, the file is read   *)
(* from the cursor to its last complete line, and events and cursor are    *)
(* committed in one transaction.  Offsets count lines, not bytes.  What a  *)
(* line says is its kind, meta (a session_meta record), event (any other   *)
(* record that becomes an event), other (one that does not) or bad (does   *)
(* not parse), and the session id in its metadata, which a session_meta    *)
(* always has and a turn_context, an event or not, may have.               *)
(* Events keep, for the properties, the line they come from.  The table    *)
(* parser_errors is only counted for diagnostics and is left out.          *)
(***************************************************************************)
EXTENDS Integers, Sequences, FiniteSetsExt

CONSTANTS
    LastPath,       \* the transcripts are 1..LastPath, in the order of WalkDir
    Readable,       \* those that can be opened
    Scanners,       \* processes that call ScanOnce
    Agent,          \* the one that does so for ever (Service.Run)
    MetaSessions,   \* MetaSessions[p]: session ids in the metadata of p
    NoSession,      \* the empty session id
    Kinds,          \* kinds of lines that are written
    MaxLines,       \* bound: lines of a transcript
    MaxUpsets       \* bound: aborted scans, restored files, resets

Paths == 1..LastPath

ASSUME TranscriptAssumption ==
    /\ LastPath \in Nat \ {0}
    /\ Readable \subseteq Paths
    /\ Agent \in Scanners
    /\ \A p \in Paths : NoSession \notin MetaSessions[p]
    /\ Kinds \subseteq {"meta", "event", "other", "bad"}
    /\ MaxLines \in Nat /\ MaxUpsets \in Nat

\* Session ids are unique to a transcript.  Events are stored under session and
\* sequence number, and the numbers count the lines of a file: a session that
\* two files report would have its numbers used twice.
ASSUME OwnSessionsAssumption ==
    \A p, q \in Paths : p # q => MetaSessions[p] \cap MetaSessions[q] = {}

VARIABLES
    log,        \* log[p]: the lines written to p
    file,       \* file[p]: identity, complete lines, and whether another has begun
    cursor,     \* cursor[p]: the row of transcript_cursors
    stored,     \* the events table
    scanner,    \* scanner[s]: what s is doing
    upsets      \* upsets so far

vars == <<log, file, cursor, stored, scanner, upsets>>

AllSessions == {NoSession} \cup UNION {MetaSessions[p] : p \in Paths}

Line == [kind : Kinds, session : AllSessions]

NoIdentity == 0

Cursor == [ident : Nat, offset : Nat, seq : Nat, session : AllSessions]

\* No row.
FreshCursor == [ident |-> NoIdentity, offset |-> 0, seq |-> 0, session |-> NoSession]

Event == [session : AllSessions, seq : Nat, path : Paths, line : Nat]

Idle == [phase |-> "fetch", path |-> 1, cur |-> FreshCursor, found |-> {}]

Init ==
    /\ log = [p \in Paths |-> << >>]
    /\ file = [p \in Paths |-> [ident |-> 1, shown |-> 0, partial |-> FALSE]]
    /\ cursor = [p \in Paths |-> FreshCursor]
    /\ stored = {}
    /\ scanner = [s \in Scanners |-> Idle]
    /\ upsets = 0

-----------------------------------------------------------------------------
\* Codex writes the transcripts: a line becomes visible in parts, and the
\* first one is the session_meta record.

WriteLine(p, l) ==
    /\ Len(log[p]) < MaxLines
    /\ file[p].shown = Len(log[p]) /\ ~file[p].partial
    /\ log[p] = << >> => l.kind = "meta"
    /\ l.session # NoSession => l.session \in MetaSessions[p] /\ l.kind # "bad"
    /\ l.kind = "meta" => l.session # NoSession
    /\ log' = [log EXCEPT ![p] = Append(@, l)]
    /\ file' = [file EXCEPT ![p].partial = TRUE]
    /\ UNCHANGED <<cursor, stored, scanner, upsets>>

FinishLine(p) ==
    /\ file[p].shown < Len(log[p])
    /\ file' = [file EXCEPT ![p].shown = @ + 1, ![p].partial = FALSE]
    /\ UNCHANGED <<log, cursor, stored, scanner, upsets>>

Upset == upsets < MaxUpsets /\ upsets' = upsets + 1

\* The file is written again with the same lines, in place or as a new file (a
\* backup or a synchronised directory): for a while it is shorter.
Restore(p, n, ident) ==
    /\ Upset
    /\ n <= file[p].shown
    /\ file' = [file EXCEPT ![p] = [ident |-> ident, shown |-> n, partial |-> FALSE]]
    /\ UNCHANGED <<log, cursor, stored, scanner>>

-----------------------------------------------------------------------------
\* ParseFile.

\* Fault: the sequence numbers go on after the file has become shorter.
startCursor_KeepsSequence(c, p) ==
    LET known == IF c.ident # NoIdentity /\ c.ident # file[p].ident THEN FreshCursor ELSE c
    IN  [known EXCEPT !.ident = file[p].ident,
                      !.offset = IF @ > file[p].shown THEN 0 ELSE @]

\* Another identity starts afresh; a file that has become shorter is read from
\* the beginning.
startCursor(c, p) ==
    LET known == IF c.ident # NoIdentity /\ c.ident # file[p].ident THEN FreshCursor ELSE c
        shorter == known.offset > file[p].shown
    IN  [known EXCEPT !.ident = file[p].ident,
                      !.offset = IF shorter THEN 0 ELSE @,
                      !.seq = IF shorter THEN 0 ELSE @]

\* Fault: an unterminated line is read as if it were complete.
lastLine_Partial(c, p) == file[p].shown + (IF file[p].partial THEN 1 ELSE 0)

\* Fault: a line that does not parse ends the scan.
lastLine_StopsAtBad(c, p) ==
    LET bad == {i \in (c.offset + 1)..file[p].shown : log[p][i].kind = "bad"}
    IN  IF bad = {} THEN file[p].shown ELSE (CHOOSE i \in bad : \A j \in bad : i <= j) - 1

\* The loop ends at the last complete line.
lastLine(c, p) == file[p].shown

\* What parseLine makes of line i; half a line does not parse.
lineKind(p, i) == IF i <= file[p].shown THEN log[p][i].kind ELSE "bad"

eventLines(p, from, to) == {i \in from..to : lineKind(p, i) \in {"meta", "event"}}

\* LastSequence after line i: one more for every event since the cursor.
seqAt(c, p, i) == c.seq + Cardinality(eventLines(p, c.offset + 1, i))

\* The lines that name a session.
naming(p, from, to) == {i \in from..to : lineKind(p, i) # "bad" /\ log[p][i].session # NoSession}

\* Fault: only session_meta lines name the session.
sessionAt_MetaOnly(c, p, i) ==
    LET named == {j \in naming(p, c.offset + 1, i) : log[p][j].kind = "meta"}
    IN  IF named = {} THEN c.session ELSE log[p][Max(named)].session

\* SessionID after line i: the last one that a line named.
sessionAt(c, p, i) ==
    LET named == naming(p, c.offset + 1, i)
    IN  IF named = {} THEN c.session ELSE log[p][Max(named)].session

parsedEvents(c, p) ==
    {[session |-> sessionAt(c, p, i), seq |-> seqAt(c, p, i), path |-> p, line |-> i] :
        i \in eventLines(p, c.offset + 1, lastLine(c, p))}

\* Fault: the cursor stays before the last line.
parsedCursor_OneBack(c, p) ==
    LET n == lastLine(c, p)
    IN  [c EXCEPT !.offset = n - 1, !.seq = seqAt(c, p, n), !.session = sessionAt(c, p, n)]

parsedCursor(c, p) ==
    LET n == lastLine(c, p)
    IN  [c EXCEPT !.offset = n, !.seq = seqAt(c, p, n), !.session = sessionAt(c, p, n)]

-----------------------------------------------------------------------------
\* ScanOnce, file by file.

\* ScanFile reads the cursor.
Fetch(s) ==
    LET p == scanner[s].path
    IN  /\ scanner[s].phase = "fetch"
        /\ scanner' = [scanner EXCEPT ![s].phase = "parse", ![s].cur = cursor[p]]
        /\ UNCHANGED <<log, file, cursor, stored, upsets>>

\* ... and the file.
Parse(s) ==
    LET p == scanner[s].path
        c == startCursor(scanner[s].cur, p)
    IN  /\ scanner[s].phase = "parse"
        /\ p \in Readable
        /\ scanner' = [scanner EXCEPT ![s].phase = "commit", ![s].cur = parsedCursor(c, p),
                                      ![s].found = parsedEvents(c, p)]
        /\ UNCHANGED <<log, file, cursor, stored, upsets>>

\* An error of ScanFile ends the walk: the files after p are not scanned.
ParseError(s) ==
    /\ scanner[s].phase = "parse"
    /\ scanner[s].path \notin Readable
    /\ scanner' = [scanner EXCEPT ![s] = Idle]
    /\ UNCHANGED <<log, file, cursor, stored, upsets>>

\* INSERT ... ON CONFLICT DO NOTHING: (machine, session, sequence) is unique.
inserted(found) ==
    {e \in found : ~\E f \in stored : f.session = e.session /\ f.seq = e.seq}

\* CommitParsed, and on to the next file.
Commit(s) ==
    LET p == scanner[s].path
    IN  /\ scanner[s].phase = "commit"
        /\ stored' = stored \cup inserted(scanner[s].found)
        /\ cursor' = [cursor EXCEPT ![p] = scanner[s].cur]
        /\ scanner' = [scanner EXCEPT ![s] =
                          [Idle EXCEPT !.path = IF p = LastPath THEN 1 ELSE p + 1]]
        /\ UNCHANGED <<log, file, upsets>>

\* The process is killed, or the database is busy for too long: the transaction
\* is rolled back and the walk ends.
Abort(s) ==
    /\ Upset
    /\ scanner[s] # Idle
    /\ scanner' = [scanner EXCEPT ![s] = Idle]
    /\ UNCHANGED <<log, file, cursor, stored>>

\* "codex-tempo reparse".
ResetCursors ==
    /\ Upset
    /\ cursor' = [p \in Paths |-> FreshCursor]
    /\ UNCHANGED <<log, file, stored, scanner>>

Next ==
    \/ \E p \in Paths, l \in Line : WriteLine(p, l)
    \/ \E p \in Paths : FinishLine(p)
    \/ \E p \in Paths, n \in 0..MaxLines :
          \E ident \in {file[p].ident, file[p].ident + 1} : Restore(p, n, ident)
    \/ \E s \in Scanners : Fetch(s) \/ Parse(s) \/ ParseError(s) \/ Commit(s) \/ Abort(s)
    \/ ResetCursors

Spec == Init /\ [][Next]_vars

\* Service.Run scans whenever the watcher or the ticker fires, for ever.
FairSpec == Spec /\ WF_vars(Fetch(Agent) \/ Parse(Agent) \/ ParseError(Agent) \/ Commit(Agent))

-----------------------------------------------------------------------------
TypeOK ==
    /\ log \in [Paths -> Seq(Line)]
    /\ file \in [Paths -> [ident : Nat, shown : Nat, partial : BOOLEAN]]
    /\ cursor \in [Paths -> Cursor]
    /\ stored \subseteq Event
    /\ scanner \in [Scanners -> [phase : {"fetch", "parse", "commit"}, path : Paths,
                                 cur : Cursor, found : SUBSET Event]]
    /\ upsets \in 0..MaxUpsets

EventLine(p, i) == i \in DOMAIN log[p] /\ log[p][i].kind \in {"meta", "event"}

Collected(p, i) == \E e \in stored : e.path = p /\ e.line = i

(***************************************************************************)
(* docs/architecture.md:5: the agent "incrementally reads Codex JSONL      *)
(* transcripts": whatever a cursor has passed has been stored.  Neither a  *)
(* second scanner that moves the cursor back, a scan that dies, a reset, a *)
(* file that is replaced or written again, nor a line read while half of   *)
(* it is written may make the agent miss an event.                         *)
(***************************************************************************)
NoLineSkipped ==
    \A p \in Paths : \A i \in 1..cursor[p].offset : EventLine(p, i) => Collected(p, i)

(***************************************************************************)
(* docs/architecture.md:12 "Events have per-session order": the sequence   *)
(* numbers of a session's stored events are in the order of its lines, and *)
(* no line is stored twice.  The projection sorts by them.                 *)
(***************************************************************************)
SequenceFollowsTheFile ==
    \A e, f \in stored :
        e.path = f.path =>
            /\ e.line < f.line <=> e.seq < f.seq
            /\ e.line = f.line => e = f

(***************************************************************************)
(* A stored event belongs to the session that the last line up to it to    *)
(* name one names, also when the scan started in the middle of the file.   *)
(***************************************************************************)
EventsKeepTheirSession ==
    \A e \in stored :
        \E m \in 1..e.line :
            /\ m \in DOMAIN log[e.path] /\ log[e.path][m].session # NoSession
            /\ e.session = log[e.path][m].session
            /\ \A k \in (m + 1)..e.line : log[e.path][k].session = NoSession

\* The files the walk gets to: an unreadable one ends it (service.go:35), and
\* what comes after it is not scanned until it can be read.
Reached == {p \in Paths : 1..p \subseteq Readable}

(***************************************************************************)
(* Every event that a file the walk gets to shows is stored in the end,    *)
(* unless the file becomes shorter first.                                  *)
(***************************************************************************)
EventuallyCollected ==
    \A p \in Reached : \A i \in 1..MaxLines :
        (EventLine(p, i) /\ i <= file[p].shown)
            ~> (Collected(p, i) \/ i > file[p].shown)
=============================================================================
