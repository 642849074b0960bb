--------------------------- MODULE TranscriptProofs ---------------------------
(***************************************************************************)
(* Proofs about the collection of transcripts, for any number of           *)
(* transcripts, scanners, lines and upsets.  What a cursor or an event     *)
(* says of a file is a function of the lines before it, whichever scan     *)
(* read them: a scan from any correct cursor finds the same events.        *)
(***************************************************************************)
EXTENDS Transcript, ListProofs, SequenceTheorems

\* The lines of l up to n that become events.
EvLines(l, n) == {i \in 1..n : l[i].kind \in {"meta", "event"}}

\* x is the session that the last line of l up to n to name one names.
SessionOf(l, n, x) ==
    \E m \in 1..n :
        /\ l[m].session # NoSession /\ x = l[m].session
        /\ \A k \in (m + 1)..n : l[k].session = NoSession

\* The cursor says of its offset what the lines say.
CursorOK(l, c) ==
    /\ c.offset \in 0..Len(l)
    /\ c.seq = Cardinality(EvLines(l, c.offset))
    /\ c.offset = 0 \/ SessionOf(l, c.offset, c.session)

\* The event says of its line what the lines say.
EventOK(l, e) ==
    /\ e.line \in 1..Len(l) /\ l[e.line].kind \in {"meta", "event"}
    /\ e.seq = Cardinality(EvLines(l, e.line))
    /\ SessionOf(l, e.line, e.session)

\* A transcript starts with a line that names a session and has its own sessions.
LogOK(l, p) ==
    /\ l \in Seq(Line)
    /\ Len(l) > 0 => l[1].session # NoSession
    /\ \A i \in 1..Len(l) :
          l[i].session # NoSession => l[i].session \in MetaSessions[p] /\ l[i].kind # "bad"

Has(S, p, i) == \E e \in S : e.path = p /\ e.line = i

\* Every event line that the cursor c of p has passed is in one of the sets.
Passed(c, p, S, F) ==
    \A i \in 1..c.offset : log[p][i].kind \in {"meta", "event"} => Has(S, p, i) \/ Has(F, p, i)

FilesOK == \A p \in Paths : LogOK(log[p], p) /\ file[p].shown \in 0..Len(log[p])

CursorsOK == \A p \in Paths : CursorOK(log[p], cursor[p]) /\ Passed(cursor[p], p, stored, {})

StoredOK == \A e \in stored : EventOK(log[e.path], e)

ScannersOK ==
    \A s \in Scanners :
        LET x == scanner[s]
        IN  /\ CursorOK(log[x.path], x.cur)
            /\ Passed(x.cur, x.path, stored, x.found)
            /\ \A e \in x.found : e.path = x.path /\ EventOK(log[x.path], e)
            /\ x.phase # "commit" => x.found = {}

TranscriptInv == TypeOK /\ FilesOK /\ CursorsOK /\ StoredOK /\ ScannersOK

-----------------------------------------------------------------------------
\* Event lines are finitely many, and counting them can be divided anywhere.
LEMMA EvLinesFinite ==
    ASSUME NEW l, NEW n \in Nat
    PROVE  IsFiniteSet(EvLines(l, n)) /\ Cardinality(EvLines(l, n)) \in Nat
  <1>1. IsFiniteSet(1..n)
    BY FS_Interval
  <1>2. EvLines(l, n) \in SUBSET (1..n)
    BY DEF EvLines
  <1>3. IsFiniteSet(EvLines(l, n))
    BY <1>1, <1>2, FS_Subset
  <1> QED  BY <1>3, FS_CardinalityType

\* A later event line has a greater number.
LEMMA EvLinesGrow ==
    ASSUME NEW l, NEW i \in Nat, NEW j \in Nat, i < j, l[j].kind \in {"meta", "event"}
    PROVE  Cardinality(EvLines(l, i)) < Cardinality(EvLines(l, j))
  <1> DEFINE A == EvLines(l, i)
             B == EvLines(l, j)
  <1>1. j \notin A /\ A \cup {j} \in SUBSET B
    BY DEF EvLines
  <1>2. /\ IsFiniteSet(A) /\ Cardinality(A) \in Nat
        /\ IsFiniteSet(B) /\ Cardinality(B) \in Nat
    BY EvLinesFinite
  <1> HIDE DEF A, B
  <1>3. Cardinality(A \cup {j}) = Cardinality(A) + 1
    BY <1>1, <1>2, FS_AddElement
  <1>4. Cardinality(A \cup {j}) <= Cardinality(B)
    BY <1>1, <1>2, FS_Subset
  <1>5. Cardinality(A) < Cardinality(B)
    BY <1>2, <1>3, <1>4
  <1> QED  BY <1>5 DEF A, B

\* What the lines up to n say does not change when the file grows.
LEMMA PrefixOnly ==
    ASSUME NEW l, NEW k, NEW n \in Nat, \A i \in 1..n : k[i] = l[i]
    PROVE  /\ EvLines(k, n) = EvLines(l, n)
           /\ \A x : SessionOf(k, n, x) <=> SessionOf(l, n, x)
  <1>1. EvLines(k, n) = EvLines(l, n)
    BY DEF EvLines
  <1>2. ASSUME NEW x PROVE SessionOf(k, n, x) <=> SessionOf(l, n, x)
    <2>1. \A m \in 1..n : \A i \in (m + 1)..n : i \in 1..n
      OBVIOUS
    <2> QED  BY <2>1 DEF SessionOf
  <1> QED  BY <1>1, <1>2

LEMMA GrownFile ==
    ASSUME NEW l \in Seq(Line), NEW x \in Line
    PROVE  /\ \A c : c.offset \in Nat /\ CursorOK(l, c) => CursorOK(Append(l, x), c)
           /\ \A e : e.line \in Nat /\ EventOK(l, e) => EventOK(Append(l, x), e)
  <1> DEFINE k == Append(l, x)
  <1>1. /\ Len(l) \in Nat /\ Len(k) = Len(l) + 1
        /\ \A i \in 1..Len(l) : k[i] = l[i]
    OBVIOUS
  <1> HIDE DEF k
  <1>2. \A n \in 0..Len(l) : \A i \in 1..n : k[i] = l[i]
    BY <1>1
  <1>3. \A n \in 0..Len(l) : /\ EvLines(k, n) = EvLines(l, n)
                             /\ \A y : SessionOf(k, n, y) <=> SessionOf(l, n, y)
    BY <1>1, <1>2, PrefixOnly
  <1>4. ASSUME NEW c, c.offset \in Nat, CursorOK(l, c) PROVE CursorOK(k, c)
    <2>1. c.offset \in 0..Len(l)
      BY <1>4 DEF CursorOK
    <2> QED  BY <1>1, <1>3, <1>4, <2>1 DEF CursorOK
  <1>5. ASSUME NEW e, e.line \in Nat, EventOK(l, e) PROVE EventOK(k, e)
    <2>1. e.line \in 1..Len(l) /\ e.line \in 0..Len(l)
      BY <1>1, <1>5 DEF EventOK
    <2> QED  BY <1>1, <1>3, <1>5, <2>1 DEF EventOK
  <1> QED  BY <1>4, <1>5 DEF k

-----------------------------------------------------------------------------
\* ParseFile from a correct cursor c that the file still covers.
LEMMA SeqAtFacts ==
    ASSUME NEW p \in Paths, NEW c, CursorOK(log[p], c), NEW i \in Nat,
           file[p].shown \in Nat, c.offset <= i, i <= file[p].shown
    PROVE  seqAt(c, p, i) = Cardinality(EvLines(log[p], i))
  <1> DEFINE A == EvLines(log[p], c.offset)
             B == eventLines(p, c.offset + 1, i)
             C == EvLines(log[p], i)
  <1>0. c.offset \in Nat
    BY DEF CursorOK
  <1>1. B = {k \in (c.offset + 1)..i : log[p][k].kind \in {"meta", "event"}}
    BY <1>0 DEF eventLines, lineKind
  <1>2. A \cup B = C /\ A \cap B = {}
    BY <1>0, <1>1 DEF EvLines
  <1>3. IsFiniteSet(A) /\ Cardinality(A) \in Nat /\ IsFiniteSet(C) /\ Cardinality(C) \in Nat
    BY <1>0, EvLinesFinite
  <1>4. B \in SUBSET C
    BY <1>2
  <1>5. seqAt(c, p, i) = Cardinality(A) + Cardinality(B)
    BY DEF seqAt, CursorOK
  <1> HIDE DEF A, B, C
  <1>6. IsFiniteSet(B)
    BY <1>3, <1>4, FS_Subset
  <1>7. Cardinality(A \cup B) = Cardinality(A) + Cardinality(B) - Cardinality(A \cap B)
    BY <1>3, <1>6, FS_Union
  <1>8. Cardinality(A \cap B) = 0 /\ Cardinality(B) \in Nat
    BY <1>2, <1>6, FS_EmptySet, FS_CardinalityType
  <1>9. Cardinality(A \cup B) = Cardinality(C)
    BY <1>2
  <1>10. Cardinality(A) + Cardinality(B) = Cardinality(C)
    BY <1>3, <1>7, <1>8, <1>9
  <1> QED  BY <1>5, <1>10 DEF C

LEMMA SessionAtFacts ==
    ASSUME NEW p \in Paths, NEW c, CursorOK(log[p], c), NEW i \in Nat \ {0},
           file[p].shown \in 0..Len(log[p]), c.offset <= i, i <= file[p].shown,
           LogOK(log[p], p)
    PROVE  SessionOf(log[p], i, sessionAt(c, p, i))
  <1> DEFINE named == naming(p, c.offset + 1, i)
  <1>0. c.offset \in Nat /\ Len(log[p]) \in Nat
    BY DEF CursorOK, LogOK
  <1>1. named = {j \in (c.offset + 1)..i : log[p][j].session # NoSession}
    BY <1>0 DEF naming, lineKind, LogOK
  <1>2. CASE named = {}
    <2>1. sessionAt(c, p, i) = c.session
      BY <1>2 DEF sessionAt
    <2>2. c.offset # 0
      BY <1>0, <1>1, <1>2 DEF LogOK
    <2>3. PICK m \in 1..c.offset : /\ log[p][m].session # NoSession /\ c.session = log[p][m].session
                                   /\ \A k \in (m + 1)..c.offset : log[p][k].session = NoSession
      BY <2>2 DEF CursorOK, SessionOf
    <2>4. \A k \in (m + 1)..i : log[p][k].session = NoSession
      BY <1>0, <1>1, <1>2, <2>3
    <2> QED  BY <1>0, <2>1, <2>3, <2>4 DEF SessionOf
  <1>3. CASE named # {}
    <2> DEFINE m == Max(named)
    <2>1. named \in SUBSET (0..i)
      BY <1>0, <1>1
    <2>2. sessionAt(c, p, i) = log[p][m].session
      BY <1>3 DEF sessionAt
    <2> HIDE DEF named
    <2>3. \E j \in named : \A k \in named : k <= j
      BY <1>3, <2>1, GreatestNumber
    <2>4. m \in named /\ \A k \in named : k <= m
      BY <2>1, <2>3 DEF Max
    <2> HIDE DEF m
    <2>5. /\ m \in (c.offset + 1)..i /\ m \in 1..i /\ log[p][m].session # NoSession
      BY <1>0, <1>1, <2>4
    <2>6. \A k \in (m + 1)..i : log[p][k].session = NoSession
      <3>1. ASSUME NEW k \in (m + 1)..i, log[p][k].session # NoSession PROVE FALSE
        <4>1. k \in named
          BY <1>0, <1>1, <2>5, <3>1
        <4> QED  BY <2>4, <2>5, <4>1
      <3> QED  BY <3>1
    <2> QED  BY <2>2, <2>5, <2>6 DEF SessionOf
  <1> QED  BY <1>2, <1>3

\* The cursor a scan starts from is correct, covered by the file, and no further
\* than the one it was given.
LEMMA StartCursorFacts ==
    ASSUME NEW p \in Paths, NEW c \in Cursor, CursorOK(log[p], c), LogOK(log[p], p),
           file[p].shown \in 0..Len(log[p]), file[p].ident \in Nat
    PROVE  LET d == startCursor(c, p)
           IN  /\ d \in Cursor /\ CursorOK(log[p], d)
               /\ d.offset <= file[p].shown /\ d.offset <= c.offset
  <1> DEFINE known == IF c.ident # NoIdentity /\ c.ident # file[p].ident THEN FreshCursor ELSE c
             shorter == known.offset > file[p].shown
             d == startCursor(c, p)
  <1>0. Len(log[p]) \in Nat
    BY DEF LogOK
  <1>1. EvLines(log[p], 0) = {} /\ Cardinality(EvLines(log[p], 0)) = 0
    BY FS_EmptySet DEF EvLines
  <1>2. FreshCursor \in Cursor /\ FreshCursor.offset = 0 /\ FreshCursor.seq = 0
    <2>1. NoSession \in AllSessions
      BY DEF AllSessions
    <2> QED  BY <2>1 DEF FreshCursor, Cursor, NoIdentity
  <1>3. CursorOK(log[p], FreshCursor)
    BY <1>0, <1>1, <1>2 DEF CursorOK
  <1>4. known \in Cursor /\ CursorOK(log[p], known) /\ known.offset <= c.offset
    BY <1>2, <1>3 DEF Cursor
  <1>5. d = [known EXCEPT !.ident = file[p].ident,
                          !.offset = IF shorter THEN 0 ELSE @,
                          !.seq = IF shorter THEN 0 ELSE @]
    BY DEF startCursor
  <1> HIDE DEF known, d
  <1>6. /\ d.offset = IF shorter THEN 0 ELSE known.offset
        /\ d.seq = IF shorter THEN 0 ELSE known.seq
        /\ d.session = known.session /\ d \in Cursor
    BY <1>4, <1>5 DEF Cursor
  <1>7. known.offset \in Nat /\ c.offset \in Nat
    BY <1>4 DEF Cursor
  <1>8. CursorOK(log[p], d)
    BY <1>0, <1>1, <1>4, <1>6 DEF CursorOK
  <1>9. d.offset <= file[p].shown /\ d.offset <= c.offset
    BY <1>0, <1>4, <1>6, <1>7
  <1> QED  BY <1>6, <1>8, <1>9 DEF d

\* Sessions of the lines are sessions.
LEMMA SessionOfType ==
    ASSUME NEW p \in Paths, LogOK(log[p], p), NEW n \in 0..Len(log[p]), NEW x,
           SessionOf(log[p], n, x)
    PROVE  x \in MetaSessions[p] /\ x \in AllSessions
  <1>0. Len(log[p]) \in Nat
    BY DEF LogOK
  <1>1. PICK m \in 1..n : log[p][m].session # NoSession /\ x = log[p][m].session
    BY DEF SessionOf
  <1>2. x \in MetaSessions[p]
    BY <1>0, <1>1 DEF LogOK
  <1> QED  BY <1>2 DEF AllSessions

\* A scan finds the events of the lines it reads, and its cursor stays correct.
LEMMA ParsedFacts ==
    ASSUME NEW p \in Paths, NEW c \in Cursor, CursorOK(log[p], c), LogOK(log[p], p),
           file[p].shown \in 0..Len(log[p]), c.offset <= file[p].shown
    PROVE  /\ parsedCursor(c, p) \in Cursor /\ CursorOK(log[p], parsedCursor(c, p))
           /\ parsedCursor(c, p).offset = file[p].shown
           /\ \A e \in parsedEvents(c, p) :
                  e \in Event /\ e.path = p /\ EventOK(log[p], e)
           /\ \A i \in (c.offset + 1)..file[p].shown :
                  log[p][i].kind \in {"meta", "event"} => Has(parsedEvents(c, p), p, i)
  <1> DEFINE n == file[p].shown
             d == parsedCursor(c, p)
             ev(i) == [session |-> sessionAt(c, p, i), seq |-> seqAt(c, p, i),
                       path |-> p, line |-> i]
  <1>0. c.offset \in Nat /\ Len(log[p]) \in Nat /\ n \in Nat /\ n <= Len(log[p])
    BY DEF CursorOK, LogOK
  <1>1. \A i \in Nat : c.offset <= i /\ i <= n =>
            seqAt(c, p, i) = Cardinality(EvLines(log[p], i)) /\ seqAt(c, p, i) \in Nat
    BY <1>0, SeqAtFacts, EvLinesFinite
  <1>2. \A i \in Nat \ {0} : c.offset <= i /\ i <= n =>
            /\ SessionOf(log[p], i, sessionAt(c, p, i))
            /\ sessionAt(c, p, i) \in AllSessions
    BY <1>0, SessionAtFacts, SessionOfType
  <1>3. n = 0 => sessionAt(c, p, n) = c.session
    BY <1>0 DEF sessionAt, naming
  <1>4. d = [c EXCEPT !.offset = n, !.seq = seqAt(c, p, n), !.session = sessionAt(c, p, n)]
    BY DEF parsedCursor, lastLine
  <1>5. /\ d.offset = n /\ d.seq = seqAt(c, p, n) /\ d.session = sessionAt(c, p, n)
        /\ d.ident = c.ident /\ d = [ident |-> d.ident, offset |-> d.offset, seq |-> d.seq,
                                     session |-> d.session]
    BY <1>4 DEF Cursor
  <1> HIDE DEF d
  <1>6. d.session \in AllSessions
    BY <1>0, <1>2, <1>3, <1>5 DEF Cursor
  <1>7. d \in Cursor
    BY <1>0, <1>1, <1>5, <1>6 DEF Cursor
  <1>8. CursorOK(log[p], d)
    BY <1>0, <1>1, <1>2, <1>5 DEF CursorOK
  <1>9. parsedEvents(c, p) = {ev(i) : i \in eventLines(p, c.offset + 1, n)}
    BY DEF parsedEvents, lastLine
  <1>10. eventLines(p, c.offset + 1, n) =
             {i \in (c.offset + 1)..n : log[p][i].kind \in {"meta", "event"}}
    BY <1>0 DEF eventLines, lineKind
  <1>11. \A i \in (c.offset + 1)..n : log[p][i].kind \in {"meta", "event"} =>
             ev(i) \in Event /\ ev(i).path = p /\ ev(i).line = i /\ EventOK(log[p], ev(i))
    <2> SUFFICES ASSUME NEW i \in (c.offset + 1)..n, log[p][i].kind \in {"meta", "event"}
                 PROVE  ev(i) \in Event /\ ev(i).path = p /\ ev(i).line = i
                        /\ EventOK(log[p], ev(i))
      OBVIOUS
    <2>1. i \in Nat \ {0} /\ c.offset <= i /\ i <= n /\ i \in 1..Len(log[p])
      BY <1>0
    <2>2. /\ ev(i).session = sessionAt(c, p, i) /\ ev(i).seq = seqAt(c, p, i)
          /\ ev(i).path = p /\ ev(i).line = i
      OBVIOUS
    <2>3. ev(i) \in Event
      BY <1>1, <1>2, <2>1 DEF Event
    <2> HIDE DEF ev
    <2> QED  BY <1>1, <1>2, <2>1, <2>2, <2>3 DEF EventOK
  <1> HIDE DEF ev
  <1>12. /\ \A e \in parsedEvents(c, p) : e \in Event /\ e.path = p /\ EventOK(log[p], e)
         /\ \A i \in (c.offset + 1)..n :
                log[p][i].kind \in {"meta", "event"} => Has(parsedEvents(c, p), p, i)
    BY <1>9, <1>10, <1>11 DEF Has
  <1> QED  BY <1>5, <1>7, <1>8, <1>12 DEF d

-----------------------------------------------------------------------------
\* The types, as the steps below use them.
LEMMA TypeFacts ==
    ASSUME TypeOK
    PROVE  /\ \A p \in Paths : /\ log[p] \in Seq(Line)
                               /\ file[p].ident \in Nat /\ file[p].shown \in Nat
                               /\ file[p].partial \in BOOLEAN
                               /\ cursor[p] \in Cursor /\ cursor[p].offset \in Nat
           /\ \A e \in stored : e \in Event /\ e.path \in Paths /\ e.line \in Nat
           /\ \A s \in Scanners :
                  /\ scanner[s].path \in Paths
                  /\ scanner[s].cur \in Cursor /\ scanner[s].cur.offset \in Nat
                  /\ scanner[s].found \subseteq Event
                  /\ \A e \in scanner[s].found : e \in Event /\ e.path \in Paths /\ e.line \in Nat
                  /\ scanner[s].phase \in {"fetch", "parse", "commit"}
                  /\ scanner[s] = [phase |-> scanner[s].phase, path |-> scanner[s].path,
                                   cur |-> scanner[s].cur, found |-> scanner[s].found]
  <1>1. \A p \in Paths : /\ log[p] \in Seq(Line)
                         /\ file[p].ident \in Nat /\ file[p].shown \in Nat
                         /\ file[p].partial \in BOOLEAN
                         /\ cursor[p] \in Cursor /\ cursor[p].offset \in Nat
    BY DEF TypeOK, Cursor
  <1>2. \A e \in Event : e.path \in Paths /\ e.line \in Nat
    BY DEF Event
  <1>3. \A s \in Scanners :
            /\ scanner[s].path \in Paths
            /\ scanner[s].cur \in Cursor
            /\ scanner[s].found \subseteq Event
            /\ scanner[s].phase \in {"fetch", "parse", "commit"}
            /\ scanner[s] = [phase |-> scanner[s].phase, path |-> scanner[s].path,
                             cur |-> scanner[s].cur, found |-> scanner[s].found]
    BY DEF TypeOK
  <1>4. \A c \in Cursor : c.offset \in Nat
    BY DEF Cursor
  <1>5. stored \subseteq Event
    BY DEF TypeOK
  <1> QED  BY <1>1, <1>2, <1>3, <1>4, <1>5

\* The cursor of a file never scanned.
LEMMA FreshFacts ==
    /\ FreshCursor \in Cursor /\ FreshCursor.offset = 0
    /\ \A l : Len(l) \in Nat => CursorOK(l, FreshCursor)
    /\ \A p, S, F : Passed(FreshCursor, p, S, F)
  <1>1. NoSession \in AllSessions
    BY DEF AllSessions
  <1>2. FreshCursor \in Cursor /\ FreshCursor.offset = 0 /\ FreshCursor.seq = 0
    BY <1>1 DEF FreshCursor, Cursor, NoIdentity
  <1>3. \A l : EvLines(l, 0) = {} /\ Cardinality(EvLines(l, 0)) = 0
    BY FS_EmptySet DEF EvLines
  <1> QED  BY <1>2, <1>3 DEF CursorOK, Passed

\* A scanner between two files, at p.
LEMMA IdleFacts ==
    ASSUME FilesOK, NEW p \in Paths
    PROVE  LET x == [Idle EXCEPT !.path = p]
           IN  /\ x \in [phase : {"fetch", "parse", "commit"}, path : Paths,
                         cur : Cursor, found : SUBSET Event]
               /\ CursorOK(log[x.path], x.cur)
               /\ \A S : Passed(x.cur, x.path, S, x.found)
               /\ x.found = {} /\ x.path = p
  <1> DEFINE x == [Idle EXCEPT !.path = p]
  <1>1. x.phase = "fetch" /\ x.path = p /\ x.cur = FreshCursor /\ x.found = {}
    BY DEF Idle
  <1>2. x \in [phase : {"fetch", "parse", "commit"}, path : Paths, cur : Cursor,
               found : SUBSET Event]
    BY FreshFacts DEF Idle
  <1>3. Len(log[p]) \in Nat
    BY DEF FilesOK, LogOK
  <1> HIDE DEF x
  <1> QED  BY <1>1, <1>2, <1>3, FreshFacts DEF x

\* The first path is one, and Idle is a scanner there.
LEMMA FirstPath == 1 \in Paths /\ Idle = [Idle EXCEPT !.path = 1]
  <1>1. 1 \in Paths
    BY TranscriptAssumption DEF Paths
  <1>2. Idle = [Idle EXCEPT !.path = 1]
    BY DEF Idle
  <1> QED  BY <1>1, <1>2

\* More stored events pass no line less.
LEMMA PassedGrows ==
    ASSUME NEW c, NEW p, NEW S, NEW T, NEW F, S \subseteq T, Passed(c, p, S, F)
    PROVE  Passed(c, p, T, F)
  BY DEF Passed, Has

\* A step of a scanner s that only changes what s is doing.
ScannerStep(s, x) ==
    /\ scanner' = [t \in Scanners |-> IF t = s THEN x ELSE scanner[t]]
    /\ UNCHANGED <<log, file, cursor, stored>>

LEMMA ScannerStepInv ==
    ASSUME TranscriptInv, NEW s \in Scanners, NEW x, ScannerStep(s, x), upsets' \in 0..MaxUpsets,
           x \in [phase : {"fetch", "parse", "commit"}, path : Paths, cur : Cursor,
                  found : SUBSET Event],
           CursorOK(log[x.path], x.cur), Passed(x.cur, x.path, stored, x.found),
           \A e \in x.found : e.path = x.path /\ EventOK(log[x.path], e),
           x.phase # "commit" => x.found = {}
    PROVE  TranscriptInv'
  <1>1. UNCHANGED <<log, file, cursor, stored>>
    BY DEF ScannerStep
  <1>2. scanner' \in [Scanners -> [phase : {"fetch", "parse", "commit"}, path : Paths,
                                   cur : Cursor, found : SUBSET Event]]
        /\ \A t \in Scanners : scanner'[t] = IF t = s THEN x ELSE scanner[t]
    BY DEF ScannerStep, TranscriptInv, TypeOK
  <1>3. TypeOK'
    BY <1>1, <1>2 DEF TranscriptInv, TypeOK
  <1>4. FilesOK' /\ StoredOK'
    BY <1>1 DEF TranscriptInv, FilesOK, StoredOK
  <1>5. CursorsOK'
    BY <1>1 DEF TranscriptInv, CursorsOK, Passed
  <1>6. ScannersOK'
    BY <1>1, <1>2 DEF TranscriptInv, ScannersOK, Passed
  <1> QED  BY <1>3, <1>4, <1>5, <1>6 DEF TranscriptInv

-----------------------------------------------------------------------------
\* One lemma per action.

LEMMA WriteLineInv ==
    ASSUME TranscriptInv, NEW p \in Paths, NEW l \in Line, WriteLine(p, l)
    PROVE  TranscriptInv'
  <1> DEFINE k == Append(log[p], l)
  <1>0. TypeOK /\ FilesOK /\ CursorsOK /\ StoredOK /\ ScannersOK
    BY DEF TranscriptInv
  <1>1. /\ log[p] \in Seq(Line) /\ Len(log[p]) \in Nat
        /\ k \in Seq(Line) /\ Len(k) = Len(log[p]) + 1
        /\ k[Len(log[p]) + 1] = l
        /\ \A i \in 1..Len(log[p]) : k[i] = log[p][i]
    BY <1>0, TypeFacts
  <1>2. /\ \A c : c.offset \in Nat /\ CursorOK(log[p], c) => CursorOK(k, c)
        /\ \A e : e.line \in Nat /\ EventOK(log[p], e) => EventOK(k, e)
    BY <1>1, GrownFile
  <1>3. /\ log' \in [Paths -> Seq(Line)]
        /\ \A q \in Paths : log'[q] = IF q = p THEN k ELSE log[q]
    BY <1>0, <1>1 DEF WriteLine, TypeOK
  <1> HIDE DEF k
  <1>4. /\ file' \in [Paths -> [ident : Nat, shown : Nat, partial : BOOLEAN]]
        /\ \A q \in Paths : file'[q].shown = file[q].shown
    BY <1>0 DEF WriteLine, TypeOK
  <1>5. UNCHANGED <<cursor, stored, scanner, upsets>>
    BY DEF WriteLine
  <1>6. TypeOK'
    BY <1>0, <1>3, <1>4, <1>5 DEF TypeOK
  <1>7. LogOK(k, p)
    <2>1. log[p] = << >> => l.kind = "meta"
      BY DEF WriteLine
    <2>2. /\ l.kind = "meta" => l.session # NoSession
          /\ l.session # NoSession => l.session \in MetaSessions[p] /\ l.kind # "bad"
      BY DEF WriteLine
    <2>3. LogOK(log[p], p)
      BY <1>0 DEF FilesOK
    <2>4. k[1].session # NoSession
      <3>1. CASE Len(log[p]) = 0
        BY <1>1, <2>1, <2>2, <3>1
      <3>2. CASE Len(log[p]) # 0
        BY <1>1, <2>3, <3>2 DEF LogOK
      <3> QED  BY <3>1, <3>2
    <2>5. ASSUME NEW i \in 1..Len(k), k[i].session # NoSession
          PROVE  k[i].session \in MetaSessions[p] /\ k[i].kind # "bad"
      <3>1. CASE i = Len(log[p]) + 1
        BY <1>1, <2>2, <2>5, <3>1
      <3>2. CASE i \in 1..Len(log[p])
        BY <1>1, <2>3, <2>5, <3>2 DEF LogOK
      <3> QED  BY <1>1, <3>1, <3>2
    <2> QED  BY <1>1, <2>4, <2>5 DEF LogOK
  <1>8. FilesOK'
    <2>1. ASSUME NEW q \in Paths PROVE LogOK(log'[q], q) /\ file'[q].shown \in 0..Len(log'[q])
      <3>1. LogOK(log[q], q) /\ file[q].shown \in 0..Len(log[q])
        BY <1>0 DEF FilesOK
      <3>2. CASE q = p
        BY <1>1, <1>3, <1>4, <1>7, <3>1, <3>2
      <3>3. CASE q # p
        BY <1>3, <1>4, <3>1, <3>3
      <3> QED  BY <3>2, <3>3
    <2> QED  BY <2>1 DEF FilesOK
  <1>9. ASSUME NEW q \in Paths, NEW c \in Cursor, CursorOK(log[q], c), NEW S, NEW F,
               Passed(c, q, S, F)
        PROVE  CursorOK(log'[q], c)
               /\ \A i \in 1..c.offset :
                      log'[q][i].kind \in {"meta", "event"} => Has(S, q, i) \/ Has(F, q, i)
    <2>1. c.offset \in Nat /\ c.offset \in 0..Len(log[q])
      BY <1>9 DEF CursorOK, Cursor
    <2>2. CursorOK(log'[q], c)
      BY <1>2, <1>3, <1>9, <2>1
    <2>3. \A i \in 1..c.offset : log'[q][i] = log[q][i]
      <3>1. CASE q = p
        <4>1. \A i \in 1..c.offset : i \in 1..Len(log[p])
          BY <1>1, <2>1, <3>1
        <4>2. log'[q] = k
          BY <1>3, <3>1
        <4> QED  BY <1>1, <3>1, <4>1, <4>2
      <3>2. CASE q # p
        BY <1>3, <3>2
      <3> QED  BY <3>1, <3>2
    <2> QED  BY <1>9, <2>2, <2>3 DEF Passed
  <1>10. ASSUME NEW q \in Paths, NEW e, e.line \in Nat, EventOK(log[q], e)
         PROVE  EventOK(log'[q], e)
    BY <1>2, <1>3, <1>10
  <1>11. CursorsOK'
    BY <1>0, <1>5, <1>9, TypeFacts DEF CursorsOK, Passed
  <1>12. StoredOK'
    BY <1>0, <1>5, <1>10, TypeFacts DEF StoredOK
  <1>13. ScannersOK'
    <2> SUFFICES ASSUME NEW s \in Scanners
                 PROVE  /\ CursorOK(log'[scanner[s].path], scanner[s].cur)
                        /\ \A i \in 1..scanner[s].cur.offset :
                              log'[scanner[s].path][i].kind \in {"meta", "event"} =>
                                  \/ Has(stored, scanner[s].path, i)
                                  \/ Has(scanner[s].found, scanner[s].path, i)
                        /\ \A e \in scanner[s].found :
                              /\ e.path = scanner[s].path
                              /\ EventOK(log'[scanner[s].path], e)
                        /\ scanner[s].phase # "commit" => scanner[s].found = {}
      BY <1>5 DEF ScannersOK, Passed
    <2>1. /\ scanner[s].path \in Paths /\ scanner[s].cur \in Cursor
          /\ \A e \in scanner[s].found : e.line \in Nat
      BY <1>0, TypeFacts
    <2>2. /\ CursorOK(log[scanner[s].path], scanner[s].cur)
          /\ Passed(scanner[s].cur, scanner[s].path, stored, scanner[s].found)
          /\ \A e \in scanner[s].found :
                 e.path = scanner[s].path /\ EventOK(log[scanner[s].path], e)
          /\ scanner[s].phase # "commit" => scanner[s].found = {}
      BY <1>0 DEF ScannersOK
    <2>3. \A e \in scanner[s].found : EventOK(log'[scanner[s].path], e)
      BY <1>10, <2>1, <2>2
    <2> QED  BY <1>9, <2>1, <2>2, <2>3
  <1> QED  BY <1>6, <1>8, <1>11, <1>12, <1>13 DEF TranscriptInv

\* Steps that only change what a file shows.
LEMMA FileStepInv ==
    ASSUME TranscriptInv, UNCHANGED <<log, cursor, stored, scanner>>, upsets' \in 0..MaxUpsets,
           file' \in [Paths -> [ident : Nat, shown : Nat, partial : BOOLEAN]],
           \A q \in Paths : file'[q].shown \in 0..Len(log[q])
    PROVE  TranscriptInv'
  <1>1. TypeOK'
    BY DEF TranscriptInv, TypeOK
  <1>2. FilesOK' /\ StoredOK'
    BY DEF TranscriptInv, FilesOK, StoredOK
  <1>3. CursorsOK'
    BY DEF TranscriptInv, CursorsOK, Passed
  <1>4. ScannersOK'
    BY DEF TranscriptInv, ScannersOK, Passed
  <1> QED  BY <1>1, <1>2, <1>3, <1>4 DEF TranscriptInv

LEMMA FinishLineInv ==
    ASSUME TranscriptInv, NEW p \in Paths, FinishLine(p)
    PROVE  TranscriptInv'
  <1>1. TypeOK /\ FilesOK
    BY DEF TranscriptInv
  <1>2. Len(log[p]) \in Nat /\ file[p].shown \in Nat
    BY <1>1, TypeFacts
  <1>3. /\ file' \in [Paths -> [ident : Nat, shown : Nat, partial : BOOLEAN]]
        /\ \A q \in Paths : file'[q].shown = IF q = p THEN file[p].shown + 1 ELSE file[q].shown
    <2> DEFINE g == [file EXCEPT ![p].shown = @ + 1]
    <2>1. file \in [Paths -> [ident : Nat, shown : Nat, partial : BOOLEAN]]
      BY <1>1 DEF TypeOK
    <2>2. /\ g \in [Paths -> [ident : Nat, shown : Nat, partial : BOOLEAN]]
          /\ \A q \in Paths : g[q].shown = IF q = p THEN file[p].shown + 1 ELSE file[q].shown
      BY <1>2, <2>1
    <2>3. file' = [g EXCEPT ![p].partial = FALSE]
      BY DEF FinishLine
    <2> HIDE DEF g
    <2>4. /\ file' \in [Paths -> [ident : Nat, shown : Nat, partial : BOOLEAN]]
          /\ \A q \in Paths : file'[q].shown = g[q].shown
      BY <2>2, <2>3
    <2> QED  BY <2>2, <2>4
  <1>4. \A q \in Paths : file'[q].shown \in 0..Len(log[q])
    BY <1>1, <1>2, <1>3 DEF FinishLine, FilesOK
  <1>5. UNCHANGED <<log, cursor, stored, scanner>> /\ upsets' \in 0..MaxUpsets
    BY <1>1 DEF FinishLine, TypeOK
  <1> QED  BY <1>3, <1>4, <1>5, FileStepInv

LEMMA RestoreInv ==
    ASSUME TranscriptInv, NEW p \in Paths, NEW n \in 0..MaxLines,
           NEW ident \in {file[p].ident, file[p].ident + 1}, Restore(p, n, ident)
    PROVE  TranscriptInv'
  <1>1. TypeOK /\ FilesOK
    BY DEF TranscriptInv
  <1>2. Len(log[p]) \in Nat /\ file[p].shown \in Nat /\ ident \in Nat /\ n \in Nat
    BY <1>1, TypeFacts, TranscriptAssumption
  <1>3. /\ file' \in [Paths -> [ident : Nat, shown : Nat, partial : BOOLEAN]]
        /\ \A q \in Paths : file'[q].shown = IF q = p THEN n ELSE file[q].shown
    BY <1>1, <1>2 DEF Restore, TypeOK
  <1>4. \A q \in Paths : file'[q].shown \in 0..Len(log[q])
    BY <1>1, <1>2, <1>3 DEF Restore, FilesOK
  <1>5. UNCHANGED <<log, cursor, stored, scanner>> /\ upsets' \in 0..MaxUpsets
    BY <1>1, TranscriptAssumption DEF Restore, Upset, TypeOK
  <1> QED  BY <1>3, <1>4, <1>5, FileStepInv

LEMMA FetchInv ==
    ASSUME TranscriptInv, NEW s \in Scanners, Fetch(s)
    PROVE  TranscriptInv'
  <1> DEFINE p == scanner[s].path
             x == [phase |-> "parse", path |-> p, cur |-> cursor[p], found |-> {}]
  <1>1. TypeOK /\ CursorsOK /\ ScannersOK
    BY DEF TranscriptInv
  <1>2. p \in Paths /\ cursor[p] \in Cursor
    BY <1>1, TypeFacts
  <1>3. scanner[s].found = {}
    BY <1>1 DEF Fetch, ScannersOK
  <1>4. scanner[s] = [phase |-> scanner[s].phase, path |-> p,
                      cur |-> scanner[s].cur, found |-> {}]
    BY <1>1, <1>3, TypeFacts
  <1>5. ScannerStep(s, x)
    <2> DEFINE g == [scanner EXCEPT ![s].phase = "parse"]
               y == [phase |-> "parse", path |-> p, cur |-> scanner[s].cur, found |-> {}]
    <2>1. scanner' = [g EXCEPT ![s].cur = cursor[p]] /\ UNCHANGED <<log, file, cursor, stored>>
      BY DEF Fetch
    <2>2. scanner = [t \in Scanners |-> scanner[t]]
      BY <1>1 DEF TypeOK
    <2>3. g = [t \in Scanners |-> IF t = s THEN y ELSE scanner[t]]
      BY <1>4, <2>2
    <2> HIDE DEF g
    <2>4. scanner' = [t \in Scanners |-> IF t = s THEN x ELSE scanner[t]]
      BY <2>1, <2>3
    <2> QED  BY <2>1, <2>4 DEF ScannerStep
  <1>6. x \in [phase : {"fetch", "parse", "commit"}, path : Paths, cur : Cursor,
               found : SUBSET Event]
    BY <1>2
  <1>7. CursorOK(log[p], cursor[p]) /\ Passed(cursor[p], p, stored, {})
    BY <1>1, <1>2 DEF CursorsOK
  <1>8. x.path = p /\ x.cur = cursor[p] /\ x.found = {} /\ upsets' \in 0..MaxUpsets
    BY <1>1 DEF Fetch, TypeOK
  <1> HIDE DEF x
  <1> QED  BY <1>5, <1>6, <1>7, <1>8, ScannerStepInv

LEMMA ParseInv ==
    ASSUME TranscriptInv, NEW s \in Scanners, Parse(s)
    PROVE  TranscriptInv'
  <1> DEFINE p == scanner[s].path
             b == scanner[s].cur
             c == startCursor(b, p)
             d == parsedCursor(c, p)
             f == parsedEvents(c, p)
             x == [phase |-> "commit", path |-> p, cur |-> d, found |-> f]
  <1>1. TypeOK /\ FilesOK /\ ScannersOK
    BY DEF TranscriptInv
  <1>2. /\ p \in Paths /\ b \in Cursor /\ b.offset \in Nat /\ file[p].ident \in Nat
        /\ scanner[s] = [phase |-> scanner[s].phase, path |-> p, cur |-> b,
                         found |-> scanner[s].found]
    BY <1>1, TypeFacts
  <1>3. CursorOK(log[p], b) /\ Passed(b, p, stored, {})
    BY <1>1 DEF Parse, ScannersOK
  <1>4. LogOK(log[p], p) /\ file[p].shown \in 0..Len(log[p])
    BY <1>1, <1>2 DEF FilesOK
  <1>5. /\ c \in Cursor /\ CursorOK(log[p], c)
        /\ c.offset <= file[p].shown /\ c.offset <= b.offset
    BY <1>2, <1>3, <1>4, StartCursorFacts
  <1>6. ScannerStep(s, x)
    <2> DEFINE g == [scanner EXCEPT ![s].phase = "commit"]
               h == [g EXCEPT ![s].cur = d]
               y == [phase |-> "commit", path |-> p, cur |-> b, found |-> scanner[s].found]
               z == [phase |-> "commit", path |-> p, cur |-> d, found |-> scanner[s].found]
    <2>1. scanner' = [h EXCEPT ![s].found = f] /\ UNCHANGED <<log, file, cursor, stored>>
      BY DEF Parse
    <2> HIDE DEF d, f
    <2>2. scanner = [t \in Scanners |-> scanner[t]]
      BY <1>1 DEF TypeOK
    <2>3. g = [t \in Scanners |-> IF t = s THEN y ELSE scanner[t]]
      BY <1>2, <2>2
    <2> HIDE DEF g
    <2>4. h = [t \in Scanners |-> IF t = s THEN z ELSE scanner[t]]
      BY <2>3
    <2> HIDE DEF h
    <2>5. scanner' = [t \in Scanners |-> IF t = s THEN x ELSE scanner[t]]
      BY <2>1, <2>4
    <2> QED  BY <2>1, <2>5 DEF ScannerStep
  <1> HIDE DEF p, b, c
  <1>7. /\ d \in Cursor /\ CursorOK(log[p], d) /\ d.offset = file[p].shown
        /\ \A e \in f : e \in Event /\ e.path = p /\ EventOK(log[p], e)
        /\ \A i \in (c.offset + 1)..file[p].shown :
               log[p][i].kind \in {"meta", "event"} => Has(f, p, i)
    BY <1>2, <1>4, <1>5, ParsedFacts
  <1> HIDE DEF d, f
  <1>8. Passed(d, p, stored, f)
    <2>1. c.offset \in Nat /\ Len(log[p]) \in Nat
      BY <1>4, <1>5 DEF LogOK, Cursor
    <2>2. ASSUME NEW i \in 1..d.offset, log[p][i].kind \in {"meta", "event"}
          PROVE  Has(stored, p, i) \/ Has(f, p, i)
      <3>1. CASE i \in 1..b.offset
        BY <1>3, <2>2, <3>1 DEF Passed, Has
      <3>2. CASE i \in (c.offset + 1)..file[p].shown
        BY <1>7, <2>2, <3>2
      <3> QED  BY <1>2, <1>4, <1>5, <1>7, <2>1, <3>1, <3>2
    <2> QED  BY <2>2 DEF Passed
  <1>9. x \in [phase : {"fetch", "parse", "commit"}, path : Paths, cur : Cursor,
               found : SUBSET Event]
    BY <1>2, <1>7
  <1>10. /\ x.path = p /\ x.cur = d /\ x.found = f /\ x.phase = "commit"
         /\ upsets' \in 0..MaxUpsets
    BY <1>1 DEF Parse, TypeOK
  <1> HIDE DEF x
  <1> QED  BY <1>6, <1>7, <1>8, <1>9, <1>10, ScannerStepInv

\* Going back to Idle is safe at any time.
LEMMA BackToIdle ==
    ASSUME TranscriptInv, NEW s \in Scanners, ScannerStep(s, Idle), upsets' \in 0..MaxUpsets
    PROVE  TranscriptInv'
  <1>1. FilesOK
    BY DEF TranscriptInv
  <1>2. /\ Idle \in [phase : {"fetch", "parse", "commit"}, path : Paths,
                     cur : Cursor, found : SUBSET Event]
        /\ CursorOK(log[Idle.path], Idle.cur)
        /\ Passed(Idle.cur, Idle.path, stored, Idle.found)
        /\ Idle.found = {}
    BY <1>1, IdleFacts, FirstPath
  <1> QED  BY <1>2, ScannerStepInv

LEMMA ParseErrorInv ==
    ASSUME TranscriptInv, NEW s \in Scanners, ParseError(s)
    PROVE  TranscriptInv'
  <1>1. ScannerStep(s, Idle) /\ upsets' \in 0..MaxUpsets
    BY DEF ParseError, ScannerStep, TranscriptInv, TypeOK
  <1> QED  BY <1>1, BackToIdle

LEMMA AbortInv ==
    ASSUME TranscriptInv, NEW s \in Scanners, Abort(s)
    PROVE  TranscriptInv'
  <1>1. ScannerStep(s, Idle)
    BY DEF Abort, ScannerStep, TranscriptInv, TypeOK
  <1>2. upsets' \in 0..MaxUpsets
    BY TranscriptAssumption DEF Abort, Upset, TranscriptInv, TypeOK
  <1> QED  BY <1>1, <1>2, BackToIdle

\* Two correct events with the same key come from the same line.
LEMMA KeyIsLine ==
    ASSUME FilesOK, NEW p \in Paths, NEW q \in Paths, NEW e, NEW f,
           EventOK(log[p], e), EventOK(log[q], f), e.session = f.session, e.seq = f.seq
    PROVE  p = q /\ e.line = f.line
  <1>1. /\ LogOK(log[p], p) /\ LogOK(log[q], q)
        /\ Len(log[p]) \in Nat /\ Len(log[q]) \in Nat
    BY DEF FilesOK, LogOK
  <1>2. /\ e.line \in 1..Len(log[p]) /\ f.line \in 1..Len(log[q])
        /\ log[p][e.line].kind \in {"meta", "event"}
        /\ log[q][f.line].kind \in {"meta", "event"}
        /\ SessionOf(log[p], e.line, e.session) /\ SessionOf(log[q], f.line, f.session)
        /\ e.seq = Cardinality(EvLines(log[p], e.line))
        /\ f.seq = Cardinality(EvLines(log[q], f.line))
    BY DEF EventOK
  <1>3. e.session \in MetaSessions[p] /\ f.session \in MetaSessions[q]
    <2>1. e.line \in 0..Len(log[p]) /\ f.line \in 0..Len(log[q])
      BY <1>1, <1>2
    <2> QED  BY <1>1, <1>2, <2>1, SessionOfType
  <1>4. p = q
    BY <1>3, OwnSessionsAssumption
  <1>5. e.line \in Nat /\ f.line \in Nat
    BY <1>1, <1>2
  <1>6. /\ Cardinality(EvLines(log[p], e.line)) \in Nat
        /\ Cardinality(EvLines(log[p], f.line)) \in Nat
    BY <1>5, EvLinesFinite
  <1>7. Cardinality(EvLines(log[p], e.line)) = Cardinality(EvLines(log[p], f.line))
    BY <1>2, <1>4
  <1>8. ~(e.line < f.line)
    <2> SUFFICES ASSUME e.line < f.line PROVE FALSE
      OBVIOUS
    <2>1. Cardinality(EvLines(log[p], e.line)) < Cardinality(EvLines(log[p], f.line))
      BY <1>2, <1>4, <1>5, EvLinesGrow
    <2> QED  BY <1>6, <1>7, <2>1
  <1>9. ~(f.line < e.line)
    <2> SUFFICES ASSUME f.line < e.line PROVE FALSE
      OBVIOUS
    <2>1. Cardinality(EvLines(log[p], f.line)) < Cardinality(EvLines(log[p], e.line))
      BY <1>2, <1>5, EvLinesGrow
    <2> QED  BY <1>6, <1>7, <2>1
  <1> QED  BY <1>4, <1>5, <1>8, <1>9

LEMMA CommitInv ==
    ASSUME TranscriptInv, NEW s \in Scanners, Commit(s)
    PROVE  TranscriptInv'
  <1> DEFINE p == scanner[s].path
             c == scanner[s].cur
             f == scanner[s].found
             q == IF p = LastPath THEN 1 ELSE p + 1
             x == [Idle EXCEPT !.path = q]
  <1>1. TypeOK /\ FilesOK /\ CursorsOK /\ StoredOK /\ ScannersOK
    BY DEF TranscriptInv
  <1>2. /\ p \in Paths /\ c \in Cursor /\ f \subseteq Event
        /\ CursorOK(log[p], c) /\ Passed(c, p, stored, f)
        /\ \A e \in f : e.path = p /\ EventOK(log[p], e)
    BY <1>1, TypeFacts DEF ScannersOK
  <1>3. q \in Paths
    BY <1>2, TranscriptAssumption DEF Paths
  <1>4. /\ stored' = stored \cup inserted(f)
        /\ cursor' = [cursor EXCEPT ![p] = c]
        /\ scanner' = [scanner EXCEPT ![s] = x]
        /\ UNCHANGED <<log, file, upsets>>
    BY DEF Commit
  <1> HIDE DEF p, c, f, q
  <1>5. /\ x \in [phase : {"fetch", "parse", "commit"}, path : Paths, cur : Cursor,
                  found : SUBSET Event]
        /\ CursorOK(log[x.path], x.cur)
        /\ \A S : Passed(x.cur, x.path, S, x.found)
        /\ x.found = {}
    BY <1>1, <1>3, IdleFacts
  <1> HIDE DEF x
  <1>6. stored' \subseteq Event /\ stored \subseteq stored' /\ \A e \in stored' : e \in stored \/ e \in f
    BY <1>1, <1>2, <1>4 DEF inserted, TypeOK
  <1>7. /\ cursor' \in [Paths -> Cursor]
        /\ \A r \in Paths : cursor'[r] = IF r = p THEN c ELSE cursor[r]
    BY <1>1, <1>2, <1>4 DEF TypeOK
  <1>8. /\ scanner' \in [Scanners -> [phase : {"fetch", "parse", "commit"}, path : Paths,
                                      cur : Cursor, found : SUBSET Event]]
        /\ \A t \in Scanners : scanner'[t] = IF t = s THEN x ELSE scanner[t]
    BY <1>1, <1>4, <1>5 DEF TypeOK
  <1>9. TypeOK'
    BY <1>1, <1>4, <1>6, <1>7, <1>8 DEF TypeOK
  <1>10. FilesOK'
    BY <1>1, <1>4 DEF FilesOK
  <1>11. StoredOK'
    BY <1>1, <1>2, <1>4, <1>6 DEF StoredOK
  <1>12. \A i \in Nat : Has(f, p, i) => Has(stored', p, i)
    <2> SUFFICES ASSUME NEW i \in Nat, NEW e \in f, e.line = i
                 PROVE  Has(stored', p, i)
      BY DEF Has
    <2>1. CASE e \in inserted(f)
      BY <1>2, <1>4, <2>1 DEF Has
    <2>2. CASE e \notin inserted(f)
      <3>1. PICK g \in stored : g.session = e.session /\ g.seq = e.seq
        BY <2>2 DEF inserted
      <3>2. g.path \in Paths /\ EventOK(log[g.path], g)
        BY <1>1, TypeFacts DEF StoredOK
      <3>3. g.path = p /\ g.line = e.line
        BY <1>1, <1>2, <3>1, <3>2, KeyIsLine
      <3> QED  BY <1>6, <3>3 DEF Has
    <2> QED  BY <2>1, <2>2
  <1>13. Passed(c, p, stored', {})
    <2>1. c.offset \in Nat
      BY <1>2 DEF Cursor
    <2>2. \A i : Has(stored, p, i) => Has(stored', p, i)
      BY <1>6 DEF Has
    <2> QED  BY <1>2, <1>12, <2>1, <2>2 DEF Passed
  <1>14. CursorsOK'
    <2> SUFFICES ASSUME NEW r \in Paths
                 PROVE  CursorOK(log[r], cursor'[r]) /\ Passed(cursor'[r], r, stored', {})
      BY <1>4 DEF CursorsOK, Passed
    <2>1. CASE r = p
      BY <1>2, <1>7, <1>13, <2>1
    <2>2. CASE r # p
      BY <1>1, <1>6, <1>7, <2>2, PassedGrows DEF CursorsOK
    <2> QED  BY <2>1, <2>2
  <1>15. ScannersOK'
    <2> SUFFICES ASSUME NEW t \in Scanners
                 PROVE  LET y == scanner'[t]
                        IN  /\ CursorOK(log[y.path], y.cur)
                            /\ Passed(y.cur, y.path, stored', y.found)
                            /\ \A e \in y.found : e.path = y.path /\ EventOK(log[y.path], e)
                            /\ y.phase # "commit" => y.found = {}
      BY <1>4 DEF ScannersOK, Passed
    <2>1. CASE t = s
      BY <1>5, <1>8, <2>1
    <2>2. CASE t # s
      <3>1. scanner'[t] = scanner[t]
        BY <1>8, <2>2
      <3> QED  BY <1>1, <1>6, <3>1, PassedGrows DEF ScannersOK
    <2> QED  BY <2>1, <2>2
  <1> QED  BY <1>9, <1>10, <1>11, <1>14, <1>15 DEF TranscriptInv

LEMMA ResetCursorsInv ==
    ASSUME TranscriptInv, ResetCursors
    PROVE  TranscriptInv'
  <1>1. TypeOK /\ FilesOK /\ StoredOK /\ ScannersOK
    BY DEF TranscriptInv
  <1>2. /\ UNCHANGED <<log, file, stored, scanner>> /\ upsets' \in 0..MaxUpsets
        /\ cursor' \in [Paths -> Cursor] /\ \A p \in Paths : cursor'[p] = FreshCursor
    BY <1>1, FreshFacts, TranscriptAssumption DEF ResetCursors, Upset, TypeOK
  <1>3. TypeOK'
    BY <1>1, <1>2 DEF TypeOK
  <1>4. FilesOK' /\ StoredOK' /\ ScannersOK'
    BY <1>1, <1>2 DEF FilesOK, StoredOK, ScannersOK, Passed
  <1>5. CursorsOK'
    <2>1. \A p \in Paths : Len(log[p]) \in Nat
      BY <1>1 DEF FilesOK, LogOK
    <2>2. \A p \in Paths : CursorOK(log[p], FreshCursor) /\ Passed(FreshCursor, p, stored, {})
      BY <2>1, FreshFacts
    <2> QED  BY <1>2, <2>2 DEF CursorsOK, Passed
  <1> QED  BY <1>3, <1>4, <1>5 DEF TranscriptInv

LEMMA TranscriptInvInit == Init => TranscriptInv
  <1> SUFFICES ASSUME Init PROVE TranscriptInv
    OBVIOUS
  <1>1. /\ log \in [Paths -> Seq(Line)] /\ \A p \in Paths : log[p] = << >>
        /\ \A p \in Paths : Len(log[p]) = 0
    BY DEF Init
  <1>2. /\ file \in [Paths -> [ident : Nat, shown : Nat, partial : BOOLEAN]]
        /\ \A p \in Paths : file[p].shown = 0
    BY DEF Init
  <1>3. cursor \in [Paths -> Cursor] /\ \A p \in Paths : cursor[p] = FreshCursor
    BY FreshFacts DEF Init
  <1>4. FilesOK
    BY <1>1, <1>2 DEF FilesOK, LogOK
  <1>5. /\ Idle \in [phase : {"fetch", "parse", "commit"}, path : Paths,
                     cur : Cursor, found : SUBSET Event]
        /\ CursorOK(log[Idle.path], Idle.cur)
        /\ Passed(Idle.cur, Idle.path, stored, Idle.found)
        /\ Idle.found = {}
    BY <1>4, IdleFacts, FirstPath
  <1>6. TypeOK
    BY <1>1, <1>2, <1>3, <1>5, TranscriptAssumption DEF Init, TypeOK
  <1>7. CursorsOK
    BY <1>1, <1>3, FreshFacts DEF CursorsOK
  <1>8. StoredOK /\ ScannersOK
    BY <1>5 DEF Init, StoredOK, ScannersOK
  <1> QED  BY <1>4, <1>6, <1>7, <1>8 DEF TranscriptInv

LEMMA TranscriptInvNext == TranscriptInv /\ [Next]_vars => TranscriptInv'
  <1> SUFFICES ASSUME TranscriptInv, [Next]_vars PROVE TranscriptInv'
    OBVIOUS
  <1>1. CASE UNCHANGED vars
    <2>1. UNCHANGED <<log, cursor, stored, scanner>> /\ upsets' \in 0..MaxUpsets
          /\ file' \in [Paths -> [ident : Nat, shown : Nat, partial : BOOLEAN]]
      BY <1>1 DEF vars, TranscriptInv, TypeOK
    <2>2. \A q \in Paths : file'[q].shown \in 0..Len(log[q])
      BY <1>1 DEF vars, TranscriptInv, FilesOK
    <2> QED  BY <2>1, <2>2, FileStepInv
  <1>2. ASSUME NEW p \in Paths, NEW l \in Line, WriteLine(p, l) PROVE TranscriptInv'
    BY <1>2, WriteLineInv
  <1>3. ASSUME NEW p \in Paths, FinishLine(p) PROVE TranscriptInv'
    BY <1>3, FinishLineInv
  <1>4. ASSUME NEW p \in Paths, NEW n \in 0..MaxLines,
               NEW ident \in {file[p].ident, file[p].ident + 1}, Restore(p, n, ident)
        PROVE  TranscriptInv'
    BY <1>4, RestoreInv
  <1>5. ASSUME NEW s \in Scanners,
               Fetch(s) \/ Parse(s) \/ ParseError(s) \/ Commit(s) \/ Abort(s)
        PROVE  TranscriptInv'
    BY <1>5, FetchInv, ParseInv, ParseErrorInv, CommitInv, AbortInv
  <1>6. CASE ResetCursors
    BY <1>6, ResetCursorsInv
  <1> QED  BY <1>1, <1>2, <1>3, <1>4, <1>5, <1>6 DEF Next

(***************************************************************************)
(* The inductive invariant: cursors, events found and events stored say of *)
(* their line what the lines up to it say, and what a cursor has passed is *)
(* stored or about to be committed with it.                                *)
(***************************************************************************)
THEOREM TranscriptInvariant == Spec => []TranscriptInv
  BY TranscriptInvInit, TranscriptInvNext, PTL DEF Spec

(***************************************************************************)
(* The variables of the collection keep their types.                       *)
(***************************************************************************)
THEOREM TranscriptTypeCorrect == Spec => []TypeOK
  <1>1. TranscriptInv => TypeOK
    BY DEF TranscriptInv
  <1> QED  BY <1>1, TranscriptInvariant, PTL

(***************************************************************************)
(* No event line that a cursor has passed is ever missed, by any number of *)
(* scanners, whatever is aborted, reset or restored between their steps.   *)
(***************************************************************************)
THEOREM NothingIsSkipped == Spec => []NoLineSkipped
  <1>1. ASSUME TranscriptInv PROVE NoLineSkipped
    <2> SUFFICES ASSUME NEW p \in Paths, NEW i \in 1..cursor[p].offset, EventLine(p, i)
                 PROVE  Collected(p, i)
      BY DEF NoLineSkipped
    <2>1. Passed(cursor[p], p, stored, {})
      BY <1>1 DEF TranscriptInv, CursorsOK
    <2>2. log[p][i].kind \in {"meta", "event"}
      BY DEF EventLine
    <2> QED  BY <2>1, <2>2 DEF Passed, Has, Collected
  <1> QED  BY <1>1, TranscriptInvariant, PTL

(***************************************************************************)
(* Sequence numbers follow the lines of the file, and no line is stored    *)
(* twice, however the file was divided among scans.                        *)
(***************************************************************************)
THEOREM OrderIsTheFiles == Spec => []SequenceFollowsTheFile
  <1>1. ASSUME TranscriptInv PROVE SequenceFollowsTheFile
    <2> SUFFICES ASSUME NEW e \in stored, NEW f \in stored, e.path = f.path
                 PROVE  /\ e.line < f.line <=> e.seq < f.seq
                        /\ e.line = f.line => e = f
      BY DEF SequenceFollowsTheFile
    <2> DEFINE l == log[e.path]
    <2>0. TypeOK /\ FilesOK /\ StoredOK
      BY <1>1 DEF TranscriptInv
    <2>1. /\ e \in Event /\ f \in Event /\ e.path \in Paths
          /\ e.line \in Nat /\ f.line \in Nat
      BY <2>0, TypeFacts
    <2>2. EventOK(l, e) /\ EventOK(l, f)
      BY <2>0 DEF StoredOK
    <2>3. /\ l[e.line].kind \in {"meta", "event"} /\ l[f.line].kind \in {"meta", "event"}
          /\ e.seq = Cardinality(EvLines(l, e.line)) /\ f.seq = Cardinality(EvLines(l, f.line))
          /\ SessionOf(l, e.line, e.session) /\ SessionOf(l, f.line, f.session)
      BY <2>2 DEF EventOK
    <2> HIDE DEF l
    <2>4. e.seq \in Nat /\ f.seq \in Nat
      BY <2>1, <2>3, EvLinesFinite
    <2>5. e.line < f.line => e.seq < f.seq
      BY <2>1, <2>3, EvLinesGrow
    <2>6. f.line < e.line => f.seq < e.seq
      BY <2>1, <2>3, EvLinesGrow
    <2>7. ASSUME e.line = f.line PROVE e = f
      <3>1. PICK m \in 1..e.line : /\ l[m].session # NoSession /\ e.session = l[m].session
                                   /\ \A k \in (m + 1)..e.line : l[k].session = NoSession
        BY <2>3 DEF SessionOf
      <3>2. PICK n \in 1..e.line : /\ l[n].session # NoSession /\ f.session = l[n].session
                                   /\ \A k \in (n + 1)..e.line : l[k].session = NoSession
        BY <2>3, <2>7 DEF SessionOf
      <3>3. ~(m < n) /\ ~(n < m)
        BY <2>1, <3>1, <3>2
      <3>4. m = n
        BY <2>1, <3>3
      <3>5. e.session = f.session /\ e.seq = f.seq
        BY <2>3, <2>7, <3>1, <3>2, <3>4
      <3> QED  BY <2>1, <2>7, <3>5 DEF Event
    <2>8. e.line = f.line => ~(e.seq < f.seq)
      BY <2>3, <2>4
    <2> QED  BY <2>1, <2>4, <2>5, <2>6, <2>7, <2>8
  <1> QED  BY <1>1, TranscriptInvariant, PTL

(***************************************************************************)
(* Every stored event has the session of the last meta line before it,     *)
(* wherever the scan that found it had started.                            *)
(***************************************************************************)
THEOREM SessionsAreTheFiles == Spec => []EventsKeepTheirSession
  <1>1. ASSUME TranscriptInv PROVE EventsKeepTheirSession
    <2> SUFFICES ASSUME NEW e \in stored
                 PROVE  \E m \in 1..e.line :
                            /\ m \in DOMAIN log[e.path] /\ log[e.path][m].session # NoSession
                            /\ e.session = log[e.path][m].session
                            /\ \A k \in (m + 1)..e.line : log[e.path][k].session = NoSession
      BY DEF EventsKeepTheirSession
    <2>0. TypeOK /\ StoredOK
      BY <1>1 DEF TranscriptInv
    <2>1. e.path \in Paths /\ e.line \in Nat /\ log[e.path] \in Seq(Line)
      BY <2>0, TypeFacts
    <2>2. EventOK(log[e.path], e)
      BY <2>0 DEF StoredOK
    <2>3. PICK m \in 1..e.line :
              /\ log[e.path][m].session # NoSession /\ e.session = log[e.path][m].session
              /\ \A k \in (m + 1)..e.line : log[e.path][k].session = NoSession
      BY <2>2 DEF EventOK, SessionOf
    <2>4. m \in DOMAIN log[e.path]
      BY <2>1, <2>2, <2>3 DEF EventOK
    <2> QED  BY <2>3, <2>4
  <1> QED  BY <1>1, TranscriptInvariant, PTL

===============================================================================
