--------------------------- MODULE ProjectorProofs ---------------------------
(***************************************************************************)
(* Proofs about the projection, for all sets of sessions, runs, events and *)
(* instants.  First its loop: the cases of the switch are functions of a   *)
(* state [runs, active]; each keeps Sound, whatever the event, and the     *)
(* loop inherits it.  Then the list it is given (ProjectorArrival).        *)
(***************************************************************************)
EXTENDS ProjectorLoop, ProjectorArrival, ListProofs

\* IndInv's part about the projection state, for any state.
Sound(st) ==
    /\ st = [runs |-> st.runs, active |-> st.active]
    /\ DOMAIN st.runs \subseteq RunIDs
    /\ st.runs \in [DOMAIN st.runs -> Run]
    /\ st.active \in [Sessions -> RunIDs \cup {NoRun}]
    /\ \A s \in Sessions : st.active[s] # NoRun => st.active[s] \in DOMAIN st.runs
    /\ \A r \in DOMAIN st.runs : IsOpen(st.runs[r]) => st.active[st.runs[r].session] = r
    /\ \A r \in DOMAIN st.runs :
           /\ st.runs[r].last >= st.runs[r].started
           /\ ~IsOpen(st.runs[r]) => st.runs[r].ended >= st.runs[r].started

Fine(run) == run \in Run /\ run.last >= run.started
             /\ (~IsOpen(run) => run.ended >= run.started)

\* closeRun never ends a run before its start.
LEMMA CloseRunFine ==
    ASSUME NEW run \in Run, NEW at \in Nat, NEW status \in RunStatuses, NEW reason \in Reasons
    PROVE  /\ Fine(closeRun(run, at, status, reason))
           /\ ~IsOpen(closeRun(run, at, status, reason))
           /\ closeRun(run, at, status, reason).session = run.session
  <1> DEFINE end == IF at < run.started THEN run.started ELSE at
             c == closeRun(run, at, status, reason)
  <1>1. end \in Nat /\ end >= run.started
    BY DEF Run
  <1>2. c = [run EXCEPT !.ended = end, !.last = end, !.status = status, !.reason = reason]
    BY DEF closeRun
  <1> HIDE DEF end
  <1>3. c \in Run
    BY <1>1, <1>2 DEF Run
  <1>4. c.session = run.session /\ c.started = run.started /\ c.ended = end /\ c.last = end
    BY <1>2 DEF Run
  <1> QED  BY <1>1, <1>3, <1>4 DEF Fine, IsOpen, NoTime

\* Nor does closeInferredRun.
LEMMA CloseInferredRunFine ==
    ASSUME NEW run \in Run, NEW at \in Nat, NEW status \in RunStatuses, NEW reason \in Reasons
    PROVE  /\ Fine(closeInferredRun(run, at, status, reason))
           /\ ~IsOpen(closeInferredRun(run, at, status, reason))
           /\ closeInferredRun(run, at, status, reason).session = run.session
  <1>1. run.last + Grace \in Nat
    BY ProjectorAssumption DEF Run
  <1>2. (IF run.last + Grace < at THEN run.last + Grace ELSE at) \in Nat
    BY <1>1
  <1> QED  BY <1>2, CloseRunFine DEF closeInferredRun

\* touch moves only the last activity, and only forward.
LEMMA TouchFine ==
    ASSUME NEW run, Fine(run), NEW at \in Nat
    PROVE  /\ Fine(touch(run, at))
           /\ touch(run, at).session = run.session
           /\ touch(run, at).ended = run.ended
           /\ touch(run, at).status = run.status
  BY DEF Fine, touch, Run, IsOpen

-----------------------------------------------------------------------------
\* Replacing a run by one that is not reopened keeps the state sound.
LEMMA SetRunSound ==
    ASSUME NEW st, Sound(st), NEW r \in DOMAIN st.runs, NEW run, Fine(run),
           run.session = st.runs[r].session, IsOpen(run) => IsOpen(st.runs[r])
    PROVE  /\ Sound(SetRun(st, r, run))
           /\ SetRun(st, r, run).active = st.active
           /\ SetRun(st, r, run).runs = [st.runs EXCEPT ![r] = run]
           /\ DOMAIN SetRun(st, r, run).runs = DOMAIN st.runs
  <1> DEFINE n == SetRun(st, r, run)
  <1>1. /\ n = [runs |-> n.runs, active |-> n.active]
        /\ n.runs = [st.runs EXCEPT ![r] = run]
        /\ n.active = st.active
    BY DEF SetRun, Sound
  <1>2. DOMAIN n.runs = DOMAIN st.runs
    BY <1>1 DEF Sound
  <1>3. \A x \in DOMAIN n.runs : n.runs[x] = IF x = r THEN run ELSE st.runs[x]
    BY <1>1, <1>2 DEF Sound
  <1>4. n.runs \in [DOMAIN n.runs -> Run]
    BY <1>1, <1>2 DEF Sound, Fine
  <1> HIDE DEF n
  <1>5. Sound(n)
    BY <1>1, <1>2, <1>3, <1>4 DEF Sound, Fine
  <1> QED  BY <1>1, <1>2, <1>5 DEF n

\* An entry of active may be replaced when no other run of the session is open.
LEMMA SetActiveSound ==
    ASSUME NEW st, Sound(st), NEW s \in Sessions, NEW r,
           r = NoRun \/ r \in DOMAIN st.runs,
           \A x \in DOMAIN st.runs : IsOpen(st.runs[x]) /\ st.runs[x].session = s => x = r
    PROVE  /\ Sound(SetActive(st, s, r))
           /\ SetActive(st, s, r).runs = st.runs
           /\ SetActive(st, s, r).active = [st.active EXCEPT ![s] = r]
  <1> DEFINE n == SetActive(st, s, r)
  <1>1. /\ n = [runs |-> n.runs, active |-> n.active]
        /\ n.runs = st.runs
        /\ n.active = [st.active EXCEPT ![s] = r]
    BY DEF SetActive, Sound
  <1>2. /\ n.active \in [Sessions -> RunIDs \cup {NoRun}]
        /\ \A x \in Sessions : n.active[x] = IF x = s THEN r ELSE st.active[x]
    BY <1>1 DEF Sound
  <1>3. \A x \in DOMAIN st.runs : st.runs[x].session \in Sessions
    BY DEF Sound, Run
  <1> HIDE DEF n
  <1>4. Sound(n)
    BY <1>1, <1>2, <1>3 DEF Sound
  <1> QED  BY <1>1, <1>4 DEF n

\* What a sound state says about the runs and the current run of a session.
LEMMA SoundFacts ==
    ASSUME NEW st, Sound(st), NEW s \in Sessions
    PROVE  /\ \A r \in DOMAIN st.runs : Fine(st.runs[r])
           /\ st.active[s] # NoRun => st.active[s] \in DOMAIN st.runs
           /\ \A x \in DOMAIN st.runs :
                  IsOpen(st.runs[x]) /\ st.runs[x].session = s => x = st.active[s]
  BY DEF Sound, Fine

\* An event that can be applied.
Applicable(e) ==
    /\ e.session \in Sessions /\ e.run \in RunIDs \cup {NoRun}
    /\ e.at \in Nat /\ e.tokens \in Nat

LEMMA EventsAreApplicable == \A e \in Event : Applicable(e)
  BY LoopAssumption DEF Event, Applicable

\* The session_closed case.
LEMMA SessionClosedSound ==
    ASSUME NEW st, Sound(st), NEW e, Applicable(e)
    PROVE  Sound(applySessionClosed(st, e))
  <1> DEFINE cur == st.active[e.session]
             c == closeInferredRun(st.runs[cur], e.at, "interrupted", "session_closed")
             n == SetRun(st, cur, c)
  <1>1. CASE cur = NoRun
    BY <1>1 DEF applySessionClosed
  <1>2. CASE cur # NoRun
    <2>1. e.session \in Sessions /\ e.at \in Nat
      BY DEF Applicable
    <2>2. cur \in DOMAIN st.runs /\ Fine(st.runs[cur])
      BY <1>2, <2>1, SoundFacts
    <2>3. Fine(c) /\ ~IsOpen(c) /\ c.session = st.runs[cur].session
      BY <2>1, <2>2, CloseInferredRunFine DEF Fine, RunStatuses, Reasons
    <2> HIDE DEF c
    <2>4. /\ Sound(n) /\ n.active = st.active /\ n.runs = [st.runs EXCEPT ![cur] = c]
          /\ DOMAIN n.runs = DOMAIN st.runs
      BY <2>2, <2>3, SetRunSound
    <2> HIDE DEF n
    <2>5. n.runs[cur] = c
      BY <2>2, <2>4
    <2>6. \A x \in DOMAIN n.runs : IsOpen(n.runs[x]) /\ n.runs[x].session = e.session => x = NoRun
      BY <2>1, <2>3, <2>4, <2>5, SoundFacts
    <2>7. Sound(SetActive(n, e.session, NoRun))
      BY <2>1, <2>4, <2>6, SetActiveSound
    <2> QED  BY <1>2, <2>7 DEF applySessionClosed, n, c
  <1> QED  BY <1>1, <1>2

\* The default case.
LEMMA ActivitySound ==
    ASSUME NEW st, Sound(st), NEW e, Applicable(e)
    PROVE  Sound(applyActivity(st, e))
  <1> DEFINE cur == st.active[e.session]
             t == touch(st.runs[cur], e.at)
  <1>1. CASE cur = NoRun
    BY <1>1 DEF applyActivity
  <1>2. CASE cur # NoRun
    <2>1. e.session \in Sessions /\ e.at \in Nat
      BY DEF Applicable
    <2>2. cur \in DOMAIN st.runs /\ Fine(st.runs[cur])
      BY <1>2, <2>1, SoundFacts
    <2>3. Fine(t) /\ t.session = st.runs[cur].session /\ t.ended = st.runs[cur].ended
      BY <2>1, <2>2, TouchFine
    <2> HIDE DEF t
    <2>4. Sound(SetRun(st, cur, t))
      BY <2>2, <2>3, SetRunSound DEF IsOpen
    <2> QED  BY <1>2, <2>4 DEF applyActivity, t
  <1> QED  BY <1>1, <1>2

\* The token_usage case.
LEMMA TokenUsageSound ==
    ASSUME NEW st, Sound(st), NEW e, Applicable(e)
    PROVE  Sound(applyTokenUsage(st, e))
  <1> DEFINE r == tokenTarget(st, e)
             u == [st.runs[r] EXCEPT !.tokens = e.tokens]
             t == touch(u, e.at)
  <1>1. CASE r \notin DOMAIN st.runs
    BY <1>1 DEF applyTokenUsage
  <1>2. CASE r \in DOMAIN st.runs
    <2> HIDE DEF r
    <2>1. e.session \in Sessions /\ e.at \in Nat /\ e.tokens \in Nat
      BY DEF Applicable
    <2>2. Fine(st.runs[r])
      BY <1>2, <2>1, SoundFacts
    <2>3. Fine(u) /\ u.session = st.runs[r].session /\ u.ended = st.runs[r].ended
      BY <2>1, <2>2 DEF Fine, Run, IsOpen
    <2> HIDE DEF u
    <2>4. Fine(t) /\ t.session = st.runs[r].session /\ t.ended = st.runs[r].ended
      BY <2>1, <2>3, TouchFine
    <2> HIDE DEF t
    <2>5. Sound(SetRun(st, r, t))
      BY <1>2, <2>4, SetRunSound DEF IsOpen
    <2> QED  BY <1>2, <2>5 DEF applyTokenUsage, r, t, u
  <1> QED  BY <1>1, <1>2

\* The terminal cases.
LEMMA CloseMatchingSound ==
    ASSUME NEW st, Sound(st), NEW e, Applicable(e)
    PROVE  Sound(closeMatching(st, e))
  <1> DEFINE r == IF e.run # NoRun THEN e.run ELSE st.active[e.session]
             c == closeRun(st.runs[r], e.at, terminalStatus(e.kind), terminalReason(e.kind))
             n == IF correctable(st.runs[r]) THEN SetRun(st, r, c) ELSE st
  <1>0. closeMatching(st, e) =
           IF r \notin DOMAIN st.runs THEN st
           ELSE IF st.active[e.session] = r THEN SetActive(n, e.session, NoRun) ELSE n
    BY DEF closeMatching
  <1>1. CASE r \notin DOMAIN st.runs
    BY <1>0, <1>1
  <1>2. CASE r \in DOMAIN st.runs
    <2> HIDE DEF r
    <2>1. e.session \in Sessions /\ e.at \in Nat
      BY DEF Applicable
    <2>2. Fine(st.runs[r])
      BY <1>2, <2>1, SoundFacts
    <2>3. terminalStatus(e.kind) \in RunStatuses /\ terminalReason(e.kind) \in Reasons
      BY DEF terminalStatus, terminalReason, RunStatuses, Reasons
    <2>4. Fine(c) /\ ~IsOpen(c) /\ c.session = st.runs[r].session
      BY <2>1, <2>2, <2>3, CloseRunFine DEF Fine
    <2> HIDE DEF c
    <2>5. /\ Sound(n) /\ n.active = st.active /\ DOMAIN n.runs = DOMAIN st.runs
          /\ ~IsOpen(n.runs[r])
      <3>1. CASE correctable(st.runs[r])
        <4>1. n = SetRun(st, r, c)
          BY <3>1
        <4>2. /\ Sound(n) /\ n.active = st.active /\ n.runs = [st.runs EXCEPT ![r] = c]
              /\ DOMAIN n.runs = DOMAIN st.runs
          BY <1>2, <2>4, <4>1, SetRunSound
        <4>3. n.runs[r] = c
          BY <1>2, <4>2
        <4> QED  BY <2>4, <4>2, <4>3
      <3>2. CASE ~correctable(st.runs[r])
        BY <3>2 DEF correctable
      <3> QED  BY <3>1, <3>2
    <2> HIDE DEF n
    <2>6. CASE st.active[e.session] = r
      <3>1. \A x \in DOMAIN n.runs :
                IsOpen(n.runs[x]) /\ n.runs[x].session = e.session => x = NoRun
        BY <2>1, <2>5, <2>6, SoundFacts
      <3>2. Sound(SetActive(n, e.session, NoRun))
        BY <2>1, <2>5, <3>1, SetActiveSound
      <3> QED  BY <1>0, <1>2, <2>6, <3>2
    <2>7. CASE st.active[e.session] # r
      BY <1>0, <1>2, <2>5, <2>7
    <2> QED  BY <2>6, <2>7
  <1> QED  BY <1>1, <1>2

\* A start closes the current run unless it is the run started.
LEMMA SupersedeSound ==
    ASSUME NEW st, Sound(st), NEW e, Applicable(e)
    PROVE  LET n == supersedeCurrent(st, e)
           IN  /\ Sound(n) /\ n.active = st.active /\ DOMAIN n.runs = DOMAIN st.runs
               /\ \A x \in DOMAIN n.runs :
                      IsOpen(n.runs[x]) /\ n.runs[x].session = e.session => x = e.run
  <1> DEFINE cur == st.active[e.session]
             c == closeInferredRun(st.runs[cur], e.at, "superseded", "new_run")
             n == supersedeCurrent(st, e)
  <1>1. e.session \in Sessions /\ e.at \in Nat
    BY DEF Applicable
  <1>2. CASE cur # NoRun /\ cur # e.run
    <2>1. n = SetRun(st, cur, c)
      BY <1>2 DEF supersedeCurrent
    <2>2. cur \in DOMAIN st.runs /\ Fine(st.runs[cur])
      BY <1>1, <1>2, SoundFacts
    <2>3. Fine(c) /\ ~IsOpen(c) /\ c.session = st.runs[cur].session
      BY <1>1, <2>2, CloseInferredRunFine DEF Fine, RunStatuses, Reasons
    <2> HIDE DEF c, n
    <2>4. /\ Sound(n) /\ n.active = st.active /\ n.runs = [st.runs EXCEPT ![cur] = c]
          /\ DOMAIN n.runs = DOMAIN st.runs
      BY <2>1, <2>2, <2>3, SetRunSound
    <2>5. n.runs[cur] = c
      BY <2>2, <2>4
    <2>6. \A x \in DOMAIN n.runs : IsOpen(n.runs[x]) /\ n.runs[x].session = e.session => x = e.run
      BY <1>1, <2>3, <2>4, <2>5, SoundFacts
    <2> QED  BY <2>4, <2>6 DEF n
  <1>3. CASE ~(cur # NoRun /\ cur # e.run)
    <2>1. n = st
      BY <1>3 DEF supersedeCurrent
    <2>2. \A x \in DOMAIN st.runs :
              IsOpen(st.runs[x]) /\ st.runs[x].session = e.session => x = e.run
      BY <1>1, <1>3, SoundFacts, ProjectorAssumption DEF Sound
    <2> QED  BY <2>1, <2>2
  <1> QED  BY <1>2, <1>3

\* The start cases.
LEMMA StartSound ==
    ASSUME NEW st, Sound(st), NEW e, Applicable(e)
    PROVE  Sound(applyStart(st, e))
  <1> DEFINE n == supersedeCurrent(st, e)
             a == IF e.run \in DOMAIN n.runs THEN n
                  ELSE [n EXCEPT !.runs = AddRun(@, e.run, newRun(e))]
             m == SetActive(a, e.session, e.run)
  <1>1. e.session \in Sessions /\ e.at \in Nat /\ e.run \in RunIDs \cup {NoRun}
    BY DEF Applicable
  <1>2. /\ Sound(n) /\ n.active = st.active /\ DOMAIN n.runs = DOMAIN st.runs
        /\ \A x \in DOMAIN n.runs :
               IsOpen(n.runs[x]) /\ n.runs[x].session = e.session => x = e.run
    BY SupersedeSound
  <1>3. applyStart(st, e) = IF e.run = NoRun THEN n ELSE m
    BY DEF applyStart
  <1> HIDE DEF n
  <1>4. CASE e.run = NoRun
    BY <1>2, <1>3, <1>4
  <1>5. CASE e.run # NoRun /\ e.run \in DOMAIN n.runs
    <2>1. Sound(SetActive(n, e.session, e.run))
      BY <1>1, <1>2, <1>5, SetActiveSound
    <2> QED  BY <1>3, <1>5, <2>1
  <1>6. CASE e.run # NoRun /\ e.run \notin DOMAIN n.runs
    <2>1. a = [n EXCEPT !.runs = AddRun(n.runs, e.run, newRun(e))]
      BY <1>6
    <2>2. /\ m = [runs |-> m.runs, active |-> m.active]
          /\ m.runs = AddRun(n.runs, e.run, newRun(e))
          /\ m.active = [n.active EXCEPT ![e.session] = e.run]
      BY <1>2, <2>1 DEF SetActive, Sound
    <2> HIDE DEF m, a
    <2>3. /\ Fine(newRun(e)) /\ newRun(e).session = e.session
      BY <1>1 DEF newRun, Fine, Run, IsOpen, NoTime, RunStatuses, Reasons
    <2>4. /\ DOMAIN m.runs = DOMAIN n.runs \cup {e.run}
          /\ m.runs[e.run] = newRun(e)
          /\ \A x \in DOMAIN n.runs : m.runs[x] = n.runs[x]
          /\ m.runs = [x \in DOMAIN m.runs |-> m.runs[x]]
      BY <1>6, <2>2 DEF AddRun
    <2>5. \A x \in DOMAIN n.runs : Fine(n.runs[x])
      BY <1>1, <1>2, SoundFacts
    <2>6. \A x \in DOMAIN m.runs : Fine(m.runs[x])
      BY <2>3, <2>4, <2>5
    <2>7. m.runs \in [DOMAIN m.runs -> Run] /\ DOMAIN m.runs \subseteq RunIDs
      <3>1. DOMAIN n.runs \subseteq RunIDs
        BY <1>2 DEF Sound
      <3>2. \A x \in DOMAIN m.runs : m.runs[x] \in Run
        BY <2>6 DEF Fine
      <3> QED  BY <1>1, <1>6, <2>4, <3>1, <3>2
    <2>8. /\ m.active \in [Sessions -> RunIDs \cup {NoRun}]
          /\ \A x \in Sessions : m.active[x] = IF x = e.session THEN e.run ELSE n.active[x]
      BY <1>1, <1>2, <2>2 DEF Sound
    <2>9. \A x \in DOMAIN n.runs : n.runs[x].session \in Sessions
      BY <2>5 DEF Fine, Run
    <2>10. \A x \in DOMAIN m.runs : IsOpen(m.runs[x]) => m.active[m.runs[x].session] = x
      BY <1>1, <1>2, <1>6, <2>3, <2>4, <2>8, <2>9 DEF Sound
    <2>11. \A x \in Sessions : m.active[x] # NoRun => m.active[x] \in DOMAIN m.runs
      BY <1>2, <2>4, <2>8 DEF Sound
    <2>12. Sound(m)
      BY <2>2, <2>6, <2>7, <2>8, <2>10, <2>11 DEF Sound, Fine
    <2> QED  BY <1>3, <1>6, <2>12
  <1> QED  BY <1>4, <1>5, <1>6

-----------------------------------------------------------------------------
\* The history keeps its type in every step.
LEMMA NoteType ==
    ASSUME IndInv, NEW e \in Event, NEW r \in RunIDs, NEW after
    PROVE  Note(hist[r], r, e, after) \in [evidence : Nat, inferred : Nat, again : BOOLEAN]
  <1>1. hist[r] \in [evidence : Nat, inferred : Nat, again : BOOLEAN] /\ e.at \in Nat
    BY LoopAssumption DEF IndInv, TypeOK, Event
  <1> QED  BY <1>1 DEF Note, Latest

\* Whatever a case does to the projection state, the loop keeps IndInv.
LEMMA ProcessSound ==
    ASSUME IndInv, NEW e \in Event, NEW after, Sound(after), Process(e, after)
    PROVE  IndInv'
  <1>1. /\ DOMAIN runs' \subseteq RunIDs
        /\ runs' \in [DOMAIN runs' -> Run]
        /\ active' \in [Sessions -> RunIDs \cup {NoRun}]
    BY DEF Process, Sound
  <1>2. seen' \subseteq EventIDs
    BY DEF Process, IndInv, TypeOK, Event
  <1>3. place' \in [session : Nat, at : Nat \cup {NoTime}]
    BY LoopAssumption, ProjectorAssumption DEF Process, Take, Event
  <1>4. hist' \in [RunIDs -> [evidence : Nat, inferred : Nat, again : BOOLEAN]]
    BY NoteType DEF Process
  <1>5. OpenRunsAreActive' /\ EndsAfterStart'
    BY DEF Process, Sound, OpenRunsAreActive, EndsAfterStart
  <1> QED  BY <1>1, <1>2, <1>3, <1>4, <1>5 DEF IndInv, TypeOK

\* The variables of the loop form a sound state.
LEMMA StateSound ==
    ASSUME IndInv
    PROVE  Sound(state)
  BY DEF IndInv, TypeOK, OpenRunsAreActive, EndsAfterStart, Sound, state

\* The empty maps satisfy IndInv.
LEMMA IndInvInit == Init => IndInv
  <1> SUFFICES ASSUME Init PROVE IndInv
    OBVIOUS
  <1>1. runs = << >> /\ DOMAIN runs = {}
    BY DEF Init, EmptyState
  <1>2. active \in [Sessions -> RunIDs \cup {NoRun}] /\ \A s \in Sessions : active[s] = NoRun
    BY DEF Init, EmptyState
  <1>3. hist \in [RunIDs -> [evidence : Nat, inferred : Nat, again : BOOLEAN]]
    BY DEF Init, FreshHist
  <1>4. runs \in [DOMAIN runs -> Run]
    BY <1>1
  <1>5. seen \subseteq EventIDs /\ place \in [session : Nat, at : Nat \cup {NoTime}]
    BY DEF Init
  <1> QED
    BY <1>1, <1>2, <1>3, <1>4, <1>5 DEF IndInv, TypeOK, OpenRunsAreActive, EndsAfterStart

\* Every turn of the loop keeps IndInv.
LEMMA IndInvNext == IndInv /\ [Next]_vars => IndInv'
  <1> SUFFICES ASSUME IndInv, [Next]_vars PROVE IndInv'
    OBVIOUS
  <1>0. Sound(state)
    BY StateSound
  <1>1. CASE UNCHANGED vars
    BY <1>1 DEF vars, IndInv, TypeOK, OpenRunsAreActive, EndsAfterStart
  <1>2. ASSUME NEW e \in Event, Skip(e) PROVE IndInv'
    <2>1. place' \in [session : Nat, at : Nat \cup {NoTime}]
      BY <1>2, LoopAssumption, ProjectorAssumption DEF Skip, Take, Event
    <2> QED
      BY <1>2, <2>1 DEF Skip, IndInv, TypeOK, OpenRunsAreActive, EndsAfterStart
  <1>3. ASSUME NEW e \in Event, Start(e) PROVE IndInv'
    BY <1>0, <1>3, StartSound, EventsAreApplicable, ProcessSound DEF Start
  <1>4. ASSUME NEW e \in Event, TokenUsage(e) PROVE IndInv'
    BY <1>0, <1>4, TokenUsageSound, EventsAreApplicable, ProcessSound DEF TokenUsage
  <1>5. ASSUME NEW e \in Event, Terminal(e) PROVE IndInv'
    BY <1>0, <1>5, CloseMatchingSound, EventsAreApplicable, ProcessSound DEF Terminal
  <1>6. ASSUME NEW e \in Event, SessionClosed(e) PROVE IndInv'
    BY <1>0, <1>6, SessionClosedSound, EventsAreApplicable, ProcessSound DEF SessionClosed
  <1>7. ASSUME NEW e \in Event, Activity(e) PROVE IndInv'
    BY <1>0, <1>7, ActivitySound, EventsAreApplicable, ProcessSound DEF Activity
  <1> QED  BY <1>1, <1>2, <1>3, <1>4, <1>5, <1>6, <1>7 DEF Next

(***************************************************************************)
(* The inductive invariant of the loop.                                    *)
(***************************************************************************)
THEOREM ProjectionInvariant == Spec => []IndInv
  BY IndInvInit, IndInvNext, PTL DEF Spec

(***************************************************************************)
(* No session ever has two open runs, for any log: the unique index        *)
(* runs_active_idx cannot make RebuildSession fail.                        *)
(***************************************************************************)
THEOREM AtMostOneOpenRun == Spec => []OneOpenRun
  <1>1. IndInv => OneOpenRun
    BY DEF IndInv, OpenRunsAreActive, OneOpenRun
  <1> QED  BY <1>1, ProjectionInvariant, PTL

(***************************************************************************)
(* No run ends before it starts, for any log: the CHECK constraint of the  *)
(* runs table cannot make RebuildSession fail.                             *)
(***************************************************************************)
THEOREM RunsEndAfterTheyStart == Spec => []EndsAfterStart
  <1>1. IndInv => EndsAfterStart
    BY DEF IndInv
  <1> QED  BY <1>1, ProjectionInvariant, PTL

(***************************************************************************)
(* The command line and the server expire leases alike, at every instant:  *)
(* a run's lease never ends before the run starts, so the clamp that only  *)
(* the Go code has is never needed.                                        *)
(***************************************************************************)
THEOREM BothExpiriesAgree == Spec => []ExpiryAgrees
  <1>1. ASSUME IndInv PROVE ExpiryAgrees
    <2> SUFFICES ASSUME NEW now \in Times, NEW r \in DOMAIN runs
                 PROVE  closeRun(runs[r], leaseEnd(runs[r]), "abandoned", "lease_expired")
                        = [runs[r] EXCEPT !.ended = leaseEnd(runs[r]),
                                          !.last = leaseEnd(runs[r]),
                                          !.status = "abandoned", !.reason = "lease_expired"]
      BY DEF ExpiryAgrees, ReconcileOpen, expireLeases
    <2>1. runs[r].last \in Nat /\ runs[r].started \in Nat /\ runs[r].last >= runs[r].started
      BY <1>1 DEF IndInv, TypeOK, EndsAfterStart, Run
    <2>2. ~(leaseEnd(runs[r]) < runs[r].started)
      BY <2>1, ProjectorAssumption DEF leaseEnd
    <2> QED  BY <2>2 DEF closeRun
  <1> QED  BY <1>1, ProjectionInvariant, PTL

\* A case of the switch leaves the end and the status of every settled run alone.
KeepsSettled(st, n) ==
    \A r \in DOMAIN st.runs :
        ~correctable(st.runs[r]) /\ (\A s \in Sessions : st.active[s] # r) =>
            /\ r \in DOMAIN n.runs
            /\ n.runs[r].ended = st.runs[r].ended
            /\ n.runs[r].status = st.runs[r].status

\* Replacing the current run of a session touches no settled run.
LEMMA CurrentNotSettled ==
    ASSUME NEW st, Sound(st), NEW s \in Sessions, st.active[s] # NoRun, NEW run
    PROVE  KeepsSettled(st, SetRun(st, st.active[s], run))
  <1> DEFINE cur == st.active[s]
             n == SetRun(st, cur, run)
  <1>1. n.runs = [st.runs EXCEPT ![cur] = run]
    BY DEF SetRun, Sound
  <1>2. DOMAIN n.runs = DOMAIN st.runs /\ \A x \in DOMAIN st.runs : x # cur => n.runs[x] = st.runs[x]
    BY <1>1 DEF Sound
  <1> HIDE DEF n
  <1>3. KeepsSettled(st, n)
    BY <1>2 DEF KeepsSettled
  <1> QED  BY <1>3 DEF n

\* Every case of the switch keeps settled runs.
LEMMA CasesKeepSettled ==
    ASSUME NEW st, Sound(st), NEW e \in Event
    PROVE  /\ KeepsSettled(st, applyStart(st, e))
           /\ KeepsSettled(st, applyTokenUsage(st, e))
           /\ KeepsSettled(st, closeMatching(st, e))
           /\ KeepsSettled(st, applySessionClosed(st, e))
           /\ KeepsSettled(st, applyActivity(st, e))
  <1> DEFINE cur == st.active[e.session]
  <1>0. e.session \in Sessions /\ e.at \in Nat /\ e.tokens \in Nat
    BY LoopAssumption DEF Event
  <1>1. KeepsSettled(st, st)
    BY DEF KeepsSettled
  <1>2. \A n, s, r : SetActive(n, s, r).runs = n.runs \/ n # [runs |-> n.runs, active |-> n.active]
    BY DEF SetActive
  <1>3. KeepsSettled(st, applyActivity(st, e))
    BY <1>0, <1>1, CurrentNotSettled DEF applyActivity
  <1>4. KeepsSettled(st, applySessionClosed(st, e))
    <2>1. CASE cur = NoRun
      BY <1>1, <2>1 DEF applySessionClosed
    <2>2. CASE cur # NoRun
      <3> DEFINE n == SetRun(st, cur, closeInferredRun(st.runs[cur], e.at, "interrupted",
                                                       "session_closed"))
      <3>1. KeepsSettled(st, n)
        BY <1>0, <2>2, CurrentNotSettled
      <3>2. n = [runs |-> n.runs, active |-> n.active]
        BY DEF SetRun, Sound
      <3>3. applySessionClosed(st, e) = SetActive(n, e.session, NoRun)
        BY <2>2 DEF applySessionClosed
      <3> HIDE DEF n
      <3>4. applySessionClosed(st, e).runs = n.runs
        BY <1>2, <3>2, <3>3
      <3> QED  BY <3>1, <3>4 DEF KeepsSettled
    <2> QED  BY <2>1, <2>2
  <1>5. KeepsSettled(st, applyTokenUsage(st, e))
    <2> DEFINE r == tokenTarget(st, e)
               t == touch([st.runs[r] EXCEPT !.tokens = e.tokens], e.at)
    <2>1. CASE r \notin DOMAIN st.runs
      BY <1>1, <2>1 DEF applyTokenUsage
    <2>2. CASE r \in DOMAIN st.runs
      <3>1. applyTokenUsage(st, e) = SetRun(st, r, t)
        BY <2>2 DEF applyTokenUsage
      <3> HIDE DEF r
      <3>2. st.runs[r] \in Run
        BY <2>2 DEF Sound
      <3>3. t.ended = st.runs[r].ended /\ t.status = st.runs[r].status
        BY <3>2 DEF touch, Run
      <3> HIDE DEF t
      <3>4. SetRun(st, r, t).runs = [st.runs EXCEPT ![r] = t]
        BY DEF SetRun, Sound
      <3>5. \A x \in DOMAIN st.runs :
               x \in DOMAIN SetRun(st, r, t).runs
               /\ SetRun(st, r, t).runs[x] = IF x = r THEN t ELSE st.runs[x]
        BY <2>2, <3>4 DEF Sound
      <3> QED  BY <3>1, <3>3, <3>5 DEF KeepsSettled
    <2> QED  BY <2>1, <2>2
  <1>6. KeepsSettled(st, closeMatching(st, e))
    <2> DEFINE r == IF e.run # NoRun THEN e.run ELSE st.active[e.session]
               c == closeRun(st.runs[r], e.at, terminalStatus(e.kind), terminalReason(e.kind))
               n == IF correctable(st.runs[r]) THEN SetRun(st, r, c) ELSE st
    <2>0. closeMatching(st, e) =
             IF r \notin DOMAIN st.runs THEN st
             ELSE IF st.active[e.session] = r THEN SetActive(n, e.session, NoRun) ELSE n
      BY DEF closeMatching
    <2>1. CASE r \notin DOMAIN st.runs
      BY <1>1, <2>0, <2>1
    <2>2. CASE r \in DOMAIN st.runs
      <3> HIDE DEF r, c
      <3>1. n = [runs |-> n.runs, active |-> n.active]
        BY DEF SetRun, Sound
      <3>2. correctable(st.runs[r]) => n.runs = [st.runs EXCEPT ![r] = c]
        BY DEF SetRun, Sound
      <3>3. ~correctable(st.runs[r]) => n = st
        OBVIOUS
      <3> HIDE DEF n
      <3>4. KeepsSettled(st, n)
        BY <2>2, <3>2, <3>3, <1>1 DEF KeepsSettled, Sound
      <3>5. closeMatching(st, e).runs = n.runs
        BY <1>2, <2>0, <2>2, <3>1
      <3> QED  BY <3>4, <3>5 DEF KeepsSettled
    <2> QED  BY <2>1, <2>2
  <1>7. KeepsSettled(st, applyStart(st, e))
    <2> DEFINE n == supersedeCurrent(st, e)
               a == IF e.run \in DOMAIN n.runs THEN n
                    ELSE [n EXCEPT !.runs = AddRun(@, e.run, newRun(e))]
    <2>1. applyStart(st, e) = IF e.run = NoRun THEN n ELSE SetActive(a, e.session, e.run)
      BY DEF applyStart
    <2>2. Sound(n) /\ DOMAIN n.runs = DOMAIN st.runs
      BY <1>0, SupersedeSound, EventsAreApplicable
    <2>3. KeepsSettled(st, n)
      BY <1>0, <1>1, CurrentNotSettled DEF supersedeCurrent
    <2> HIDE DEF n
    <2>4. /\ a = [runs |-> a.runs, active |-> a.active]
          /\ \A x \in DOMAIN n.runs : x \in DOMAIN a.runs /\ a.runs[x] = n.runs[x]
      <3>1. CASE e.run \in DOMAIN n.runs
        BY <2>2, <3>1 DEF Sound
      <3>2. CASE e.run \notin DOMAIN n.runs
        <4>1. a.runs = AddRun(n.runs, e.run, newRun(e)) /\ a = [runs |-> a.runs, active |-> a.active]
          BY <2>2, <3>2 DEF Sound
        <4> HIDE DEF a
        <4> QED  BY <3>2, <4>1 DEF AddRun
      <3> QED  BY <3>1, <3>2
    <2> HIDE DEF a
    <2>5. KeepsSettled(st, a)
      BY <2>2, <2>3, <2>4 DEF KeepsSettled
    <2>6. SetActive(a, e.session, e.run).runs = a.runs
      BY <1>2, <2>4
    <2> QED  BY <2>1, <2>3, <2>5, <2>6 DEF KeepsSettled
  <1> QED  BY <1>3, <1>4, <1>5, <1>6, <1>7

(***************************************************************************)
(* A run ended explicitly or by its session's closing keeps its end and    *)
(* status, for any log, until it is started again.                         *)
(***************************************************************************)
THEOREM SettledRunsAreFinal == Spec => SettledRunsKeepTheirEnd
  <1> DEFINE Final == \A r \in RunIDs : Settled(r) =>
                          /\ r \in DOMAIN runs'
                          /\ runs'[r].ended = runs[r].ended
                          /\ runs'[r].status = runs[r].status
  <1>1. ASSUME IndInv, [Next]_vars PROVE [Final]_vars
    <2>0. Sound(state)
      BY <1>1, StateSound
    <2>1. ASSUME NEW e \in Event, NEW after, KeepsSettled(state, after), Process(e, after)
          PROVE  Final
      BY <2>1 DEF KeepsSettled, Process, Settled, state
    <2>2. CASE UNCHANGED vars
      BY <2>2
    <2>3. ASSUME NEW e \in Event, Skip(e) PROVE Final
      BY <2>3 DEF Skip, Settled
    <2>4. ASSUME NEW e \in Event, Start(e) \/ TokenUsage(e) \/ Terminal(e) \/ SessionClosed(e)
                                   \/ Activity(e)
          PROVE  Final
      BY <2>0, <2>1, <2>4, CasesKeepSettled
         DEF Start, TokenUsage, Terminal, SessionClosed, Activity
    <2> QED  BY <1>1, <2>2, <2>3, <2>4 DEF Next
  <1> QED  BY <1>1, ProjectionInvariant, PTL DEF Spec, SettledRunsKeepTheirEnd

(***************************************************************************)
(* The loop's state is a type-correct one, for any log.                    *)
(***************************************************************************)
THEOREM ProjectionTypeCorrect == Spec => []TypeOK
  <1>1. IndInv => TypeOK
    BY DEF IndInv
  <1> QED  BY <1>1, ProjectionInvariant, PTL

-----------------------------------------------------------------------------
(***************************************************************************)
(* What an event may do to the runs, in one formula for all the cases of   *)
(* the switch: the invariants below need no more of them.                  *)
(***************************************************************************)
\* The run is the one the event is evidence of.
Touches(st, e, r) ==
    \/ e.kind = "lease" /\ r = st.active[e.session]
    \/ e.kind = "token_usage" /\ r = tokenTarget(st, e)
    \/ e.kind \in TerminalKinds /\ r = (IF e.run # NoRun THEN e.run ELSE st.active[e.session])

\* The event ends the run without naming it.
Infers(st, e, r) ==
    /\ r = st.active[e.session]
    /\ (e.kind \in StartKinds /\ r # e.run) \/ e.kind = "session_closed"

\* The run b is the run a after activity at the instant at.
ActiveAt(a, b, at) ==
    /\ b.ended = a.ended /\ b.status = a.status /\ b.reason = a.reason
    /\ b.last = a.last \/ b.last <= at

\* The run b is the run a with its end inferred at the instant at.
InferredAt(a, b, at) ==
    /\ b.last = b.ended
    /\ b.ended <= a.last + Grace
    /\ b.ended <= at \/ b.ended <= a.started

\* The run b is the run a ended by an explicit event at the instant at.
EndedAt(a, b, at) ==
    /\ b.last <= at \/ b.last <= a.started
    /\ b.status # "superseded" /\ b.reason \notin {"new_run", "session_closed"}

Effect(st, n, e) ==
    /\ DOMAIN st.runs \subseteq DOMAIN n.runs
    /\ \A r \in DOMAIN n.runs : r \notin DOMAIN st.runs =>
           e.kind \in StartKinds /\ r = e.run /\ n.runs[r] = newRun(e)
    /\ \A r \in DOMAIN st.runs :
           /\ n.runs[r].session = st.runs[r].session
           /\ n.runs[r].started = st.runs[r].started
           /\ \/ n.runs[r] = st.runs[r]
              \/ Touches(st, e, r) /\ ActiveAt(st.runs[r], n.runs[r], e.at)
              \/ Infers(st, e, r) /\ InferredAt(st.runs[r], n.runs[r], e.at)
              \/ Touches(st, e, r) /\ EndedAt(st.runs[r], n.runs[r], e.at)
    /\ \A s \in Sessions : n.active[s] # NoRun =>
           \/ n.active[s] = st.active[s]
           \/ s = e.session /\ e.kind \in StartKinds /\ n.active[s] = e.run
    /\ e.kind \in StartKinds /\ e.run # NoRun => n.active[e.session] = e.run

\* What the helpers that change one run do to it.
LEMMA RunEffects ==
    ASSUME NEW run \in Run, run.last >= run.started, NEW at \in Nat
    PROVE  /\ /\ touch(run, at).session = run.session /\ touch(run, at).started = run.started
              /\ ActiveAt(run, touch(run, at), at)
           /\ \A status \in RunStatuses, reason \in Reasons :
                  LET c == closeInferredRun(run, at, status, reason)
                  IN  c.session = run.session /\ c.started = run.started /\ InferredAt(run, c, at)
           /\ \A status \in RunStatuses, reason \in Reasons :
                  status # "superseded" /\ reason \notin {"new_run", "session_closed"} =>
                  LET c == closeRun(run, at, status, reason)
                  IN  c.session = run.session /\ c.started = run.started /\ EndedAt(run, c, at)
  <1>1. run.last \in Nat /\ run.started \in Nat /\ Grace \in Nat
    BY ProjectorAssumption DEF Run
  <1>2. /\ touch(run, at).session = run.session /\ touch(run, at).started = run.started
        /\ ActiveAt(run, touch(run, at), at)
    BY <1>1 DEF touch, ActiveAt, Run
  <1>3. ASSUME NEW to \in Nat, NEW status, NEW reason
        PROVE  LET c == closeRun(run, to, status, reason)
               IN  /\ c.session = run.session /\ c.started = run.started
                   /\ c.ended = IF to < run.started THEN run.started ELSE to
                   /\ c.last = c.ended /\ c.status = status /\ c.reason = reason
    BY DEF closeRun, Run
  <1>4. ASSUME NEW status \in RunStatuses, NEW reason \in Reasons
        PROVE  LET c == closeInferredRun(run, at, status, reason)
               IN  c.session = run.session /\ c.started = run.started /\ InferredAt(run, c, at)
    <2> DEFINE to == IF run.last + Grace < at THEN run.last + Grace ELSE at
               c == closeRun(run, to, status, reason)
    <2>1. to \in Nat /\ to <= at /\ to <= run.last + Grace
      BY <1>1
    <2>2. closeInferredRun(run, at, status, reason) = c
      BY DEF closeInferredRun
    <2> HIDE DEF to
    <2>3. /\ c.session = run.session /\ c.started = run.started
          /\ c.ended = IF to < run.started THEN run.started ELSE to
          /\ c.last = c.ended
      BY <1>3, <2>1
    <2> HIDE DEF c
    <2> QED  BY <1>1, <2>1, <2>2, <2>3 DEF InferredAt
  <1>5. ASSUME NEW status \in RunStatuses, NEW reason \in Reasons, status # "superseded",
               reason \notin {"new_run", "session_closed"}
        PROVE  LET c == closeRun(run, at, status, reason)
               IN  c.session = run.session /\ c.started = run.started /\ EndedAt(run, c, at)
    BY <1>1, <1>3, <1>5 DEF EndedAt
  <1> QED  BY <1>2, <1>4, <1>5

\* SetRun and SetActive change one run, and one entry of active.
LEMMA SetFacts ==
    ASSUME NEW st, Sound(st)
    PROVE  /\ \A r \in DOMAIN st.runs : \A run :
                  LET n == SetRun(st, r, run)
                  IN  /\ n = [runs |-> n.runs, active |-> n.active]
                      /\ DOMAIN n.runs = DOMAIN st.runs /\ n.active = st.active
                      /\ \A x \in DOMAIN st.runs : n.runs[x] = IF x = r THEN run ELSE st.runs[x]
  <1> SUFFICES ASSUME NEW r \in DOMAIN st.runs, NEW run
               PROVE  LET n == SetRun(st, r, run)
                      IN  /\ n = [runs |-> n.runs, active |-> n.active]
                          /\ DOMAIN n.runs = DOMAIN st.runs /\ n.active = st.active
                          /\ \A x \in DOMAIN st.runs :
                                 n.runs[x] = IF x = r THEN run ELSE st.runs[x]
    OBVIOUS
  <1> DEFINE n == SetRun(st, r, run)
  <1>1. /\ n = [runs |-> n.runs, active |-> n.active]
        /\ n.runs = [st.runs EXCEPT ![r] = run] /\ n.active = st.active
    BY DEF SetRun, Sound
  <1> HIDE DEF n
  <1>2. /\ DOMAIN n.runs = DOMAIN st.runs
        /\ \A x \in DOMAIN st.runs : n.runs[x] = IF x = r THEN run ELSE st.runs[x]
    BY <1>1 DEF Sound
  <1> QED  BY <1>1, <1>2 DEF n

LEMMA SetActiveFacts ==
    ASSUME NEW st, st = [runs |-> st.runs, active |-> st.active],
           st.active \in [Sessions -> RunIDs \cup {NoRun}],
           NEW s \in Sessions, NEW r
    PROVE  LET n == SetActive(st, s, r)
           IN  /\ n.runs = st.runs
               /\ \A x \in Sessions : n.active[x] = IF x = s THEN r ELSE st.active[x]
  <1> DEFINE n == SetActive(st, s, r)
  <1>1. n.runs = st.runs /\ n.active = [st.active EXCEPT ![s] = r]
    BY DEF SetActive
  <1> HIDE DEF n
  <1>2. \A x \in Sessions : n.active[x] = IF x = s THEN r ELSE st.active[x]
    BY <1>1
  <1> QED  BY <1>1, <1>2 DEF n

\* Every case of the switch has an effect of this form.
LEMMA StartEffect ==
    ASSUME NEW st, Sound(st), NEW e \in Event, e.kind \in StartKinds
    PROVE  Effect(st, applyStart(st, e), e)
  <1> DEFINE cur == st.active[e.session]
             c == closeInferredRun(st.runs[cur], e.at, "superseded", "new_run")
             n == supersedeCurrent(st, e)
             a == IF e.run \in DOMAIN n.runs THEN n
                  ELSE [n EXCEPT !.runs = AddRun(@, e.run, newRun(e))]
             m == SetActive(a, e.session, e.run)
  <1>1. e.session \in Sessions /\ e.at \in Nat
    BY LoopAssumption DEF Event
  <1>2. \A r \in DOMAIN st.runs : Fine(st.runs[r])
    BY <1>1, SoundFacts
  <1>3. /\ n = [runs |-> n.runs, active |-> n.active]
        /\ DOMAIN n.runs = DOMAIN st.runs /\ n.active = st.active
        /\ \A r \in DOMAIN st.runs :
               /\ n.runs[r].session = st.runs[r].session
               /\ n.runs[r].started = st.runs[r].started
               /\ \/ n.runs[r] = st.runs[r]
                  \/ Infers(st, e, r) /\ InferredAt(st.runs[r], n.runs[r], e.at)
    <2>1. CASE cur # NoRun /\ cur # e.run
      <3>1. cur \in DOMAIN st.runs /\ Fine(st.runs[cur])
        BY <1>1, <2>1, SoundFacts
      <3>2. /\ c.session = st.runs[cur].session /\ c.started = st.runs[cur].started
            /\ InferredAt(st.runs[cur], c, e.at)
        BY <1>1, <3>1, RunEffects DEF Fine, RunStatuses, Reasons
      <3>3. n = SetRun(st, cur, c)
        BY <2>1 DEF supersedeCurrent
      <3> HIDE DEF c, n
      <3>4. /\ n = [runs |-> n.runs, active |-> n.active]
            /\ DOMAIN n.runs = DOMAIN st.runs /\ n.active = st.active
            /\ \A x \in DOMAIN st.runs : n.runs[x] = IF x = cur THEN c ELSE st.runs[x]
        BY <3>1, <3>3, SetFacts
      <3>5. Infers(st, e, cur)
        BY <2>1 DEF Infers
      <3> QED  BY <3>2, <3>4, <3>5
    <2>2. CASE ~(cur # NoRun /\ cur # e.run)
      <3>1. n = st
        BY <2>2 DEF supersedeCurrent
      <3> QED  BY <3>1 DEF Sound
    <2> QED  BY <2>1, <2>2
  <1>4. applyStart(st, e) = IF e.run = NoRun THEN n ELSE m
    BY DEF applyStart
  <1> HIDE DEF n
  <1>5. CASE e.run = NoRun
    BY <1>3, <1>4, <1>5 DEF Effect
  <1>6. CASE e.run # NoRun
    <2>1. /\ a = [runs |-> a.runs, active |-> a.active] /\ a.active = n.active
          /\ DOMAIN a.runs = DOMAIN n.runs \cup {e.run}
          /\ \A x \in DOMAIN n.runs : a.runs[x] = n.runs[x]
          /\ e.run \notin DOMAIN n.runs => a.runs[e.run] = newRun(e)
      <3>1. CASE e.run \in DOMAIN n.runs
        BY <1>3, <3>1
      <3>2. CASE e.run \notin DOMAIN n.runs
        <4>1. /\ a.runs = AddRun(n.runs, e.run, newRun(e)) /\ a.active = n.active
              /\ a = [runs |-> a.runs, active |-> a.active]
          BY <1>3, <3>2
        <4> HIDE DEF a
        <4> QED  BY <3>2, <4>1 DEF AddRun
      <3> QED  BY <3>1, <3>2
    <2> HIDE DEF a
    <2>2. n.active \in [Sessions -> RunIDs \cup {NoRun}]
      BY <1>3 DEF Sound
    <2>3. /\ m.runs = a.runs
          /\ \A x \in Sessions : m.active[x] = IF x = e.session THEN e.run ELSE n.active[x]
      BY <1>1, <2>1, <2>2, SetActiveFacts
    <2> HIDE DEF m
    <2>4. Effect(st, m, e)
      BY <1>1, <1>3, <2>1, <2>3 DEF Effect
    <2> QED  BY <1>4, <1>6, <2>4
  <1> QED  BY <1>5, <1>6

LEMMA ActivityEffect ==
    ASSUME NEW st, Sound(st), NEW e \in Event, e.kind = "lease"
    PROVE  Effect(st, applyActivity(st, e), e)
  <1> DEFINE cur == st.active[e.session]
             t == touch(st.runs[cur], e.at)
  <1>0. e.kind \notin StartKinds
    BY DEF StartKinds
  <1>1. CASE cur = NoRun
    BY <1>0, <1>1 DEF applyActivity, Effect
  <1>2. CASE cur # NoRun
    <2>1. e.session \in Sessions /\ e.at \in Nat
      BY LoopAssumption DEF Event
    <2>2. cur \in DOMAIN st.runs /\ Fine(st.runs[cur])
      BY <1>2, <2>1, SoundFacts
    <2>3. /\ t.session = st.runs[cur].session /\ t.started = st.runs[cur].started
          /\ ActiveAt(st.runs[cur], t, e.at)
      BY <2>1, <2>2, RunEffects DEF Fine
    <2>4. Touches(st, e, cur)
      BY DEF Touches
    <2> DEFINE n == SetRun(st, cur, t)
    <2> HIDE DEF t
    <2>5. /\ DOMAIN n.runs = DOMAIN st.runs /\ n.active = st.active
          /\ \A x \in DOMAIN st.runs : n.runs[x] = IF x = cur THEN t ELSE st.runs[x]
      BY <2>2, SetFacts
    <2>6. applyActivity(st, e) = n
      BY <1>2 DEF applyActivity, t
    <2> HIDE DEF n
    <2> QED  BY <1>0, <2>3, <2>4, <2>5, <2>6 DEF Effect
  <1> QED  BY <1>1, <1>2

LEMMA TokenUsageEffect ==
    ASSUME NEW st, Sound(st), NEW e \in Event, e.kind = "token_usage"
    PROVE  Effect(st, applyTokenUsage(st, e), e)
  <1> DEFINE r == tokenTarget(st, e)
             u == [st.runs[r] EXCEPT !.tokens = e.tokens]
             t == touch(u, e.at)
  <1>0. e.kind \notin StartKinds
    BY DEF StartKinds
  <1>1. CASE r \notin DOMAIN st.runs
    BY <1>0, <1>1 DEF applyTokenUsage, Effect
  <1>2. CASE r \in DOMAIN st.runs
    <2>0. Touches(st, e, r)
      BY DEF Touches
    <2>1. applyTokenUsage(st, e) = SetRun(st, r, t)
      BY <1>2 DEF applyTokenUsage
    <2> HIDE DEF r
    <2>2. e.session \in Sessions /\ e.at \in Nat /\ e.tokens \in Nat
      BY LoopAssumption DEF Event
    <2>3. Fine(st.runs[r])
      BY <1>2, <2>2, SoundFacts
    <2>4. /\ u \in Run /\ u.last >= u.started
          /\ u.session = st.runs[r].session /\ u.started = st.runs[r].started
          /\ u.last = st.runs[r].last /\ u.ended = st.runs[r].ended
          /\ u.status = st.runs[r].status /\ u.reason = st.runs[r].reason
      BY <2>2, <2>3 DEF Fine, Run
    <2> HIDE DEF u
    <2>5. t.session = u.session /\ t.started = u.started /\ ActiveAt(u, t, e.at)
      BY <2>2, <2>4, RunEffects
    <2> HIDE DEF t
    <2>6. ActiveAt(st.runs[r], t, e.at)
      BY <2>4, <2>5 DEF ActiveAt
    <2> DEFINE n == SetRun(st, r, t)
    <2>7. /\ DOMAIN n.runs = DOMAIN st.runs /\ n.active = st.active
          /\ \A x \in DOMAIN st.runs : n.runs[x] = IF x = r THEN t ELSE st.runs[x]
      BY <1>2, SetFacts
    <2>8. applyTokenUsage(st, e) = n
      BY <2>1
    <2> HIDE DEF n
    <2> QED  BY <1>0, <2>0, <2>4, <2>5, <2>6, <2>7, <2>8 DEF Effect
  <1> QED  BY <1>1, <1>2

LEMMA SessionClosedEffect ==
    ASSUME NEW st, Sound(st), NEW e \in Event, e.kind = "session_closed"
    PROVE  Effect(st, applySessionClosed(st, e), e)
  <1> DEFINE cur == st.active[e.session]
             c == closeInferredRun(st.runs[cur], e.at, "interrupted", "session_closed")
             n == SetRun(st, cur, c)
             m == SetActive(n, e.session, NoRun)
  <1>0. e.kind \notin StartKinds
    BY DEF StartKinds
  <1>1. CASE cur = NoRun
    BY <1>0, <1>1 DEF applySessionClosed, Effect
  <1>2. CASE cur # NoRun
    <2>1. e.session \in Sessions /\ e.at \in Nat
      BY LoopAssumption DEF Event
    <2>2. cur \in DOMAIN st.runs /\ Fine(st.runs[cur])
      BY <1>2, <2>1, SoundFacts
    <2>3. /\ c.session = st.runs[cur].session /\ c.started = st.runs[cur].started
          /\ InferredAt(st.runs[cur], c, e.at)
      BY <2>1, <2>2, RunEffects DEF Fine, RunStatuses, Reasons
    <2>4. Infers(st, e, cur)
      BY DEF Infers
    <2>5. applySessionClosed(st, e) = m
      BY <1>2 DEF applySessionClosed
    <2> HIDE DEF c
    <2>6. /\ n = [runs |-> n.runs, active |-> n.active]
          /\ DOMAIN n.runs = DOMAIN st.runs /\ n.active = st.active
          /\ \A x \in DOMAIN st.runs : n.runs[x] = IF x = cur THEN c ELSE st.runs[x]
      BY <2>2, SetFacts
    <2> HIDE DEF n
    <2>7. n.active \in [Sessions -> RunIDs \cup {NoRun}]
      BY <2>6 DEF Sound
    <2>8. /\ m.runs = n.runs
          /\ \A x \in Sessions : m.active[x] = IF x = e.session THEN NoRun ELSE n.active[x]
      BY <2>1, <2>6, <2>7, SetActiveFacts
    <2> HIDE DEF m
    <2> QED  BY <1>0, <2>1, <2>3, <2>4, <2>5, <2>6, <2>8 DEF Effect
  <1> QED  BY <1>1, <1>2

LEMMA TerminalEffect ==
    ASSUME NEW st, Sound(st), NEW e \in Event, e.kind \in TerminalKinds
    PROVE  Effect(st, closeMatching(st, e), e)
  <1> DEFINE r == IF e.run # NoRun THEN e.run ELSE st.active[e.session]
             c == closeRun(st.runs[r], e.at, terminalStatus(e.kind), terminalReason(e.kind))
             n == IF correctable(st.runs[r]) THEN SetRun(st, r, c) ELSE st
             m == SetActive(n, e.session, NoRun)
  <1>0. e.kind \notin StartKinds /\ Touches(st, e, r)
    BY DEF StartKinds, TerminalKinds, Touches
  <1>1. closeMatching(st, e) =
           IF r \notin DOMAIN st.runs THEN st
           ELSE IF st.active[e.session] = r THEN m ELSE n
    BY DEF closeMatching
  <1> HIDE DEF r
  <1>2. CASE r \notin DOMAIN st.runs
    BY <1>0, <1>1, <1>2 DEF Effect
  <1>3. CASE r \in DOMAIN st.runs
    <2>1. e.session \in Sessions /\ e.at \in Nat
      BY LoopAssumption DEF Event
    <2>2. Fine(st.runs[r])
      BY <1>3, <2>1, SoundFacts
    <2>3. /\ terminalStatus(e.kind) \in RunStatuses \ {"superseded"}
          /\ terminalReason(e.kind) \in Reasons \ {"new_run", "session_closed"}
      BY DEF terminalStatus, terminalReason, RunStatuses, Reasons
    <2>4. /\ c.session = st.runs[r].session /\ c.started = st.runs[r].started
          /\ EndedAt(st.runs[r], c, e.at)
      BY <2>1, <2>2, <2>3, RunEffects DEF Fine
    <2> HIDE DEF c
    <2>5. /\ n = [runs |-> n.runs, active |-> n.active]
          /\ DOMAIN n.runs = DOMAIN st.runs /\ n.active = st.active
          /\ \A x \in DOMAIN st.runs :
                 n.runs[x] = st.runs[x] \/ (x = r /\ n.runs[x] = c)
      <3>1. CASE correctable(st.runs[r])
        BY <1>3, <3>1, SetFacts
      <3>2. CASE ~correctable(st.runs[r])
        BY <3>2 DEF Sound
      <3> QED  BY <3>1, <3>2
    <2> HIDE DEF n
    <2>6. n.active \in [Sessions -> RunIDs \cup {NoRun}]
      BY <2>5 DEF Sound
    <2>7. /\ m.runs = n.runs
          /\ \A x \in Sessions : m.active[x] = IF x = e.session THEN NoRun ELSE n.active[x]
      BY <2>1, <2>5, <2>6, SetActiveFacts
    <2> HIDE DEF m
    <2>8. Effect(st, n, e)
      BY <1>0, <2>4, <2>5 DEF Effect
    <2>9. Effect(st, m, e)
      BY <1>0, <2>1, <2>4, <2>5, <2>7 DEF Effect
    <2> QED  BY <1>1, <1>3, <2>8, <2>9
  <1> QED  BY <1>2, <1>3

\* A turn of the loop that applies an event has such an effect on the variables.
LEMMA ProcessEffect ==
    ASSUME IndInv, NEW e \in Event,
           Start(e) \/ TokenUsage(e) \/ Terminal(e) \/ SessionClosed(e) \/ Activity(e)
    PROVE  \E after : Process(e, after) /\ Effect(state, after, e)
  BY StateSound, StartEffect, TokenUsageEffect, TerminalEffect, SessionClosedEffect,
     ActivityEffect
     DEF Start, TokenUsage, Terminal, SessionClosed, Activity

-----------------------------------------------------------------------------
\* IdleTimeBounded, with the bound on the last activity that makes it inductive.
IdleBound(r) == hist[r].evidence + hist[r].inferred * Grace

IdleInv ==
    \A r \in DOMAIN runs :
        /\ runs[r].last <= IdleBound(r)
        /\ runs[r].reason \in {"new_run", "session_closed"} => runs[r].ended <= IdleBound(r)

\* What the history notes about a run in a turn that has an effect.
LEMMA NoteFacts ==
    ASSUME IndInv, NEW e \in Event, NEW after, Process(e, after), NEW r \in RunIDs
    PROVE  /\ hist[r].evidence \in Nat /\ hist[r].inferred \in Nat
           /\ hist'[r].evidence \in Nat /\ hist'[r].inferred \in Nat
           /\ hist'[r].evidence >= hist[r].evidence
           /\ hist'[r].inferred >= hist[r].inferred
           /\ Touches(state, e, r) => hist'[r].evidence >= e.at
           /\ r \in DOMAIN after.runs /\ r \notin DOMAIN runs => hist'[r].evidence >= e.at
           /\ Infers(state, e, r) => hist'[r].inferred = hist[r].inferred + 1
           /\ hist[r].again => hist'[r].again
           /\ e.kind \in StartKinds /\ r = e.run /\ r \in DOMAIN runs /\ ~IsOpen(runs[r])
                 => hist'[r].again
  <1>1. /\ hist[r].evidence \in Nat /\ hist[r].inferred \in Nat /\ hist[r].again \in BOOLEAN
        /\ e.at \in Nat
    BY LoopAssumption DEF IndInv, TypeOK, Event
  <1>2. hist'[r] = Note(hist[r], r, e, after)
    BY DEF Process
  <1>3. state.active = active /\ state.runs = runs
    BY DEF state
  <1> DEFINE touched == \/ r \in DOMAIN after.runs /\ r \notin DOMAIN runs
                        \/ Touches(state, e, r)
  <1>4. /\ hist'[r].evidence = IF touched THEN Latest(hist[r].evidence, e.at)
                               ELSE hist[r].evidence
        /\ hist'[r].inferred = IF Infers(state, e, r) THEN hist[r].inferred + 1
                               ELSE hist[r].inferred
    BY <1>2, <1>3 DEF Note, Touches, Infers
  <1> HIDE DEF touched
  <1>5. /\ hist'[r].evidence \in Nat /\ hist'[r].evidence >= hist[r].evidence
        /\ touched => hist'[r].evidence >= e.at
    BY <1>1, <1>4 DEF Latest
  <1>6. /\ hist'[r].inferred \in Nat /\ hist'[r].inferred >= hist[r].inferred
        /\ Infers(state, e, r) => hist'[r].inferred = hist[r].inferred + 1
    BY <1>1, <1>4
  <1>7. /\ hist[r].again => hist'[r].again
        /\ e.kind \in StartKinds /\ r = e.run /\ r \in DOMAIN runs /\ ~IsOpen(runs[r])
              => hist'[r].again
    BY <1>2 DEF Note
  <1> QED  BY <1>1, <1>5, <1>6, <1>7 DEF touched

\* Products of naturals grow with their first factor.
LEMMA ProductFacts ==
    ASSUME NEW a \in Nat, NEW b \in Nat, NEW g \in Nat, b >= a
    PROVE  /\ a * g \in Nat /\ b * g \in Nat
           /\ b * g >= a * g
           /\ b = a + 1 => b * g = a * g + g
  <1>1. a * g \in Nat /\ b * g \in Nat
    OBVIOUS
  <1>2. (b - a) * g \in Nat
    <2>1. b - a \in Nat
      OBVIOUS
    <2> QED  BY <2>1
  <1>3. b * g = a * g + (b - a) * g
    OBVIOUS
  <1>4. b = a + 1 => b * g = a * g + g
    OBVIOUS
  <1> QED  BY <1>1, <1>2, <1>3, <1>4

\* A turn of the loop keeps the bound on idle time.
LEMMA IdleInvStep ==
    ASSUME IndInv, IdleInv, IndInv', NEW e \in Event, NEW after, Process(e, after),
           Effect(state, after, e)
    PROVE  IdleInv'
  <1> SUFFICES ASSUME NEW r \in DOMAIN runs'
               PROVE  /\ runs'[r].last <= IdleBound(r)'
                      /\ runs'[r].reason \in {"new_run", "session_closed"} =>
                             runs'[r].ended <= IdleBound(r)'
    BY DEF IdleInv
  <1>0. runs' = after.runs /\ state.runs = runs /\ e.at \in Nat /\ Grace \in Nat
    BY LoopAssumption, ProjectorAssumption DEF Process, state, Event
  <1>1. r \in RunIDs /\ runs'[r] \in Run
    BY DEF IndInv, TypeOK
  <1>2. runs'[r].last \in Nat /\ runs'[r].ended \in Int
    BY <1>1 DEF Run, NoTime
  <1> DEFINE a == hist[r].evidence
             b == hist'[r].evidence
             i == hist[r].inferred * Grace
             j == hist'[r].inferred * Grace
  <1>3. /\ a \in Nat /\ b \in Nat /\ b >= a
        /\ Touches(state, e, r) => b >= e.at
        /\ r \notin DOMAIN runs => b >= e.at
    BY <1>0, <1>1, NoteFacts
  <1>4. i \in Nat /\ j \in Nat /\ j >= i /\ (Infers(state, e, r) => j = i + Grace)
    <2>1. /\ hist[r].inferred \in Nat /\ hist'[r].inferred \in Nat
          /\ hist'[r].inferred >= hist[r].inferred
          /\ Infers(state, e, r) => hist'[r].inferred = hist[r].inferred + 1
      BY <1>1, NoteFacts
    <2> QED  BY <1>0, <2>1, ProductFacts
  <1>5. IdleBound(r) = a + i /\ IdleBound(r)' = b + j
    BY DEF IdleBound
  <1> HIDE DEF a, b, i, j
  <1>6. CASE r \notin DOMAIN runs
    <2>1. runs'[r] = newRun(e)
      BY <1>0, <1>6 DEF Effect
    <2>2. runs'[r].last = e.at /\ runs'[r].reason = "none"
      BY <2>1 DEF newRun
    <2> QED  BY <1>0, <1>3, <1>4, <1>5, <1>6, <2>2
  <1>7. CASE r \in DOMAIN runs
    <2>1. /\ runs[r] \in Run /\ runs[r].last \in Nat /\ runs[r].started \in Nat
          /\ runs[r].ended \in Int /\ runs[r].last >= runs[r].started
      BY <1>7 DEF IndInv, TypeOK, EndsAfterStart, Run, NoTime
    <2>2. /\ runs[r].last <= a + i
          /\ runs[r].reason \in {"new_run", "session_closed"} => runs[r].ended <= a + i
      BY <1>5, <1>7 DEF IdleInv
    <2>3. \/ runs'[r] = runs[r]
          \/ Touches(state, e, r) /\ ActiveAt(runs[r], runs'[r], e.at)
          \/ Infers(state, e, r) /\ InferredAt(runs[r], runs'[r], e.at)
          \/ Touches(state, e, r) /\ EndedAt(runs[r], runs'[r], e.at)
      BY <1>0, <1>7 DEF Effect
    <2>4. CASE runs'[r] = runs[r]
      BY <1>3, <1>4, <1>5, <2>1, <2>2, <2>4
    <2>5. CASE Touches(state, e, r) /\ ActiveAt(runs[r], runs'[r], e.at)
      BY <1>0, <1>2, <1>3, <1>4, <1>5, <2>1, <2>2, <2>5 DEF ActiveAt
    <2>6. CASE Infers(state, e, r) /\ InferredAt(runs[r], runs'[r], e.at)
      BY <1>0, <1>2, <1>3, <1>4, <1>5, <2>1, <2>2, <2>6 DEF InferredAt
    <2>7. CASE Touches(state, e, r) /\ EndedAt(runs[r], runs'[r], e.at)
      BY <1>0, <1>2, <1>3, <1>4, <1>5, <2>1, <2>2, <2>7 DEF EndedAt
    <2> QED  BY <2>3, <2>4, <2>5, <2>6, <2>7
  <1> QED  BY <1>6, <1>7

(***************************************************************************)
(* An inferred end never counts more idle time than one grace period per   *)
(* inference after the last evidence of activity, for any log and clocks.  *)
(***************************************************************************)
THEOREM InferredIdleTimeIsBounded == Spec => []IdleTimeBounded
  <1>1. Init => IdleInv
    <2>1. Init => DOMAIN runs = {}
      BY DEF Init, EmptyState
    <2> QED  BY <2>1 DEF IdleInv
  <1>2. IndInv /\ IdleInv /\ [Next]_vars => IdleInv'
    <2> SUFFICES ASSUME IndInv, IdleInv, [Next]_vars PROVE IdleInv'
      OBVIOUS
    <2>1. IndInv'
      BY IndInvNext
    <2>2. CASE UNCHANGED vars
      BY <2>2 DEF vars, IdleInv, IdleBound
    <2>3. ASSUME NEW e \in Event, Skip(e) PROVE IdleInv'
      BY <2>3 DEF Skip, IdleInv, IdleBound
    <2>4. ASSUME NEW e \in Event, Start(e) \/ TokenUsage(e) \/ Terminal(e) \/ SessionClosed(e)
                                   \/ Activity(e)
          PROVE  IdleInv'
      <3>1. PICK after : Process(e, after) /\ Effect(state, after, e)
        BY <2>4, ProcessEffect
      <3> QED  BY <2>1, <3>1, IdleInvStep
    <2> QED  BY <2>2, <2>3, <2>4 DEF Next
  <1>3. IdleInv => IdleTimeBounded
    BY DEF IdleInv, IdleTimeBounded, IdleBound
  <1> QED  BY <1>1, <1>2, <1>3, ProjectionInvariant, PTL DEF Spec

-----------------------------------------------------------------------------
\* The place in the ordered list bounds what the runs of its session may say.
PlaceInv ==
    /\ \A r \in DOMAIN runs : runs[r].session <= place.session
    /\ \A s \in Sessions : active[s] # NoRun =>
           s <= place.session /\ runs[active[s]].session <= s
    /\ InOrder => \A r \in DOMAIN runs : runs[r].session = place.session =>
           /\ runs[r].started <= place.at
           /\ runs[r].status = "superseded" => runs[r].ended <= place.at

\* A current run that was not started again is the last one of its session.
CurrentIsLast ==
    InOrder => \A s \in Sessions : active[s] # NoRun /\ ~hist[active[s]].again =>
        \A r \in DOMAIN runs :
            runs[r].session = runs[active[s]].session => runs[r].started <= runs[active[s]].started

OverlapInv == PlaceInv /\ CurrentIsLast /\ SupersededRunsDoNotOverlap

\* An event of the list, and what the loop's place in it becomes.
LEMMA TakeFacts ==
    ASSUME IndInv, NEW e \in Event, Take(e)
    PROVE  /\ e.session \in Nat /\ e.session \in Sessions /\ e.at \in Nat
           /\ place.session \in Nat /\ place.at \in Int
           /\ e.session >= place.session /\ place'.session = e.session
           /\ InOrder' => InOrder /\ place'.at = e.at
           /\ InOrder' /\ e.session = place.session => e.at >= place.at
  <1>1. e.session \in Nat /\ e.session \in Sessions /\ e.at \in Nat
    BY LoopAssumption, ProjectorAssumption DEF Event
  <1>2. place.session \in Nat /\ place.at \in Int
    BY DEF IndInv, TypeOK, NoTime
  <1>3. /\ place'.session = e.session
        /\ place'.at = IF InOrder THEN e.at ELSE NoTime
    BY DEF Take
  <1> QED  BY <1>1, <1>2, <1>3 DEF Take, InOrder

\* What the invariant of the loop says about each run.
LEMMA RunFacts ==
    ASSUME IndInv, NEW r \in DOMAIN runs
    PROVE  /\ r \in RunIDs /\ r # NoRun
           /\ runs[r].session \in Sessions /\ runs[r].session \in Nat
           /\ runs[r].started \in Nat /\ runs[r].ended \in Int
           /\ IsOpen(runs[r]) => active[runs[r].session] = r
  BY ProjectorAssumption DEF IndInv, TypeOK, OpenRunsAreActive, Run, NoTime

\* What a turn does to a run that was there: it may end later only by inference.
LEMMA KnownRun ==
    ASSUME IndInv, NEW e \in Event, NEW after, Process(e, after), Effect(state, after, e),
           NEW r \in DOMAIN runs
    PROVE  /\ r \in DOMAIN runs'
           /\ runs'[r].session = runs[r].session /\ runs'[r].started = runs[r].started
           /\ runs'[r].status = "superseded" =>
                  \/ runs[r].status = "superseded" /\ runs'[r].ended = runs[r].ended
                  \/ /\ r = active[e.session]
                     /\ runs'[r].ended <= e.at \/ runs'[r].ended <= runs[r].started
  <1>0. runs' = after.runs /\ state.runs = runs /\ state.active = active
    BY DEF Process, state
  <1>1. /\ r \in DOMAIN runs'
        /\ runs'[r].session = runs[r].session /\ runs'[r].started = runs[r].started
        /\ \/ runs'[r] = runs[r]
           \/ ActiveAt(runs[r], runs'[r], e.at)
           \/ r = active[e.session] /\ InferredAt(runs[r], runs'[r], e.at)
           \/ EndedAt(runs[r], runs'[r], e.at)
    BY <1>0 DEF Effect, Infers
  <1> QED  BY <1>1 DEF ActiveAt, InferredAt, EndedAt

\* A run that a turn adds.
LEMMA AddedRun ==
    ASSUME IndInv', NEW e \in Event, NEW after, Process(e, after), Effect(state, after, e),
           NEW r \in DOMAIN runs', r \notin DOMAIN runs
    PROVE  /\ e.kind \in StartKinds /\ r = e.run
           /\ runs'[r].session = e.session /\ runs'[r].started = e.at
           /\ runs'[r].status = "running"
           /\ active'[e.session] = r
  <1>0. runs' = after.runs /\ active' = after.active /\ state.runs = runs
    BY DEF Process, state
  <1>1. e.kind \in StartKinds /\ r = e.run /\ runs'[r] = newRun(e)
    BY <1>0 DEF Effect
  <1>2. r # NoRun
    BY ProjectorAssumption DEF IndInv, TypeOK
  <1> QED  BY <1>0, <1>1, <1>2 DEF Effect, newRun

\* The loop's place bounds the runs of its session after every turn.
LEMMA PlaceInvStep ==
    ASSUME IndInv, IndInv', PlaceInv, NEW e \in Event, NEW after, Process(e, after),
           Effect(state, after, e)
    PROVE  PlaceInv'
  <1>0. Take(e)
    BY DEF Process
  <1>1. /\ e.session \in Nat /\ e.session \in Sessions /\ e.at \in Nat
        /\ place.session \in Nat /\ place.at \in Int
        /\ e.session >= place.session /\ place'.session = e.session
        /\ InOrder' => InOrder /\ place'.at = e.at
        /\ InOrder' /\ e.session = place.session => e.at >= place.at
    BY <1>0, TakeFacts
  <1>2. ASSUME NEW r \in DOMAIN runs'
        PROVE  /\ runs'[r].session <= place'.session
               /\ InOrder' /\ runs'[r].session = place'.session =>
                      /\ runs'[r].started <= place'.at
                      /\ runs'[r].status = "superseded" => runs'[r].ended <= place'.at
    <2>1. CASE r \notin DOMAIN runs
      BY <1>1, <1>2, <2>1, AddedRun
    <2>2. CASE r \in DOMAIN runs
      <3>1. /\ runs[r].session \in Nat /\ runs[r].started \in Nat /\ runs[r].ended \in Int
            /\ runs[r].session <= place.session
        BY <2>2, RunFacts DEF PlaceInv
      <3>2. /\ runs'[r].session = runs[r].session /\ runs'[r].started = runs[r].started
            /\ runs'[r].status = "superseded" =>
                  \/ runs[r].status = "superseded" /\ runs'[r].ended = runs[r].ended
                  \/ runs'[r].ended <= e.at \/ runs'[r].ended <= runs[r].started
        BY <2>2, KnownRun
      <3>3. InOrder /\ runs[r].session = place.session =>
                /\ runs[r].started <= place.at
                /\ runs[r].status = "superseded" => runs[r].ended <= place.at
        BY <2>2 DEF PlaceInv
      <3>4. runs'[r].ended \in Int
        BY <1>2 DEF IndInv, TypeOK, Run, NoTime
      <3> QED  BY <1>1, <3>1, <3>2, <3>3, <3>4
    <2> QED  BY <2>1, <2>2
  <1>3. ASSUME NEW s \in Sessions, active'[s] # NoRun
        PROVE  s <= place'.session /\ runs'[active'[s]].session <= s
    <2>0. runs' = after.runs /\ active' = after.active /\ state.runs = runs /\ state.active = active
      BY DEF Process, state
    <2>1. active'[s] \in DOMAIN runs' /\ s \in Nat
      BY <1>3, ProjectorAssumption DEF IndInv, OpenRunsAreActive
    <2>2. CASE active'[s] = active[s]
      <3>1. active[s] \in DOMAIN runs
        BY <1>3, <2>2 DEF IndInv, OpenRunsAreActive
      <3>2. runs'[active[s]].session = runs[active[s]].session
        BY <3>1, KnownRun
      <3>3. s <= place.session /\ runs[active[s]].session <= s
        BY <1>3, <2>2 DEF PlaceInv
      <3> QED  BY <1>1, <2>1, <2>2, <3>2, <3>3
    <2>3. CASE s = e.session
      BY <1>1, <1>2, <2>1, <2>3
    <2>4. active'[s] = active[s] \/ s = e.session
      BY <1>3, <2>0 DEF Effect
    <2> QED  BY <2>2, <2>3, <2>4
  <1> QED  BY <1>2, <1>3 DEF PlaceInv

\* A current run stays the last of its session: a later start replaces it.
LEMMA CurrentIsLastStep ==
    ASSUME IndInv, IndInv', PlaceInv, CurrentIsLast, NEW e \in Event, NEW after,
           Process(e, after), Effect(state, after, e)
    PROVE  CurrentIsLast'
  <1> SUFFICES ASSUME InOrder', NEW s \in Sessions, active'[s] # NoRun,
                      ~hist'[active'[s]].again, NEW r \in DOMAIN runs',
                      runs'[r].session = runs'[active'[s]].session
               PROVE  runs'[r].started <= runs'[active'[s]].started
    BY DEF CurrentIsLast
  <1> DEFINE c == active'[s]
  <1>0. runs' = after.runs /\ active' = after.active /\ state.runs = runs /\ state.active = active
    BY DEF Process, state
  <1>1. /\ e.session \in Nat /\ e.session \in Sessions /\ e.at \in Nat
        /\ place.session \in Nat /\ place.at \in Int
        /\ e.session >= place.session /\ place'.session = e.session
        /\ InOrder /\ place'.at = e.at
        /\ e.session = place.session => e.at >= place.at
    BY TakeFacts DEF Process
  <1>2. c \in DOMAIN runs' /\ c \in RunIDs /\ s \in Nat
    BY ProjectorAssumption DEF IndInv, OpenRunsAreActive, TypeOK
  <1>3. ~hist[c].again
    BY <1>2, NoteFacts
  <1>4. /\ runs'[r].started \in Nat /\ runs'[c].started \in Nat
    BY <1>2 DEF IndInv, TypeOK, Run
  <1>5. CASE c \notin DOMAIN runs
    <2>1. runs'[c].session = e.session /\ runs'[c].started = e.at
      BY <1>2, <1>5, AddedRun
    <2>2. CASE r \notin DOMAIN runs
      BY <1>1, <2>1, <2>2, AddedRun
    <2>3. CASE r \in DOMAIN runs
      <3>1. runs[r].session = e.session /\ runs'[r].started = runs[r].started
        BY <2>1, <2>3, KnownRun
      <3>2. runs[r].session <= place.session /\ runs[r].started \in Nat
        BY <2>3, RunFacts DEF PlaceInv
      <3>3. runs[r].session = place.session
        BY <1>1, <3>1, <3>2
      <3>4. runs[r].started <= place.at
        BY <1>1, <2>3, <3>3 DEF PlaceInv
      <3> QED  BY <1>1, <2>1, <3>1, <3>2, <3>3, <3>4
    <2> QED  BY <2>2, <2>3
  <1>6. CASE c \in DOMAIN runs
    <2>1. runs'[c].session = runs[c].session /\ runs'[c].started = runs[c].started
      BY <1>6, KnownRun
    <2>2. \E x \in Sessions : active[x] = c
      <3>1. CASE c = active[s]
        BY <3>1
      <3>2. CASE e.kind \in StartKinds /\ c = e.run
        <4>1. IsOpen(runs[c])
          BY <1>2, <1>6, <3>2, NoteFacts
        <4> QED  BY <1>6, <4>1, RunFacts
      <3> QED  BY <1>0, <3>1, <3>2 DEF Effect
    <2>3. PICK x \in Sessions : active[x] = c
      BY <2>2
    <2>4. c # NoRun /\ x \in Nat
      BY ProjectorAssumption
    <2>5. CASE r \in DOMAIN runs
      <3>1. runs'[r].session = runs[r].session /\ runs'[r].started = runs[r].started
        BY <2>5, KnownRun
      <3> QED  BY <1>1, <1>3, <2>1, <2>3, <2>4, <2>5, <3>1 DEF CurrentIsLast
    <2>6. CASE r \notin DOMAIN runs
      <3>1. /\ e.kind \in StartKinds /\ r = e.run /\ runs'[r].session = e.session
            /\ active'[e.session] = r
        BY <2>6, AddedRun
      <3>2. runs[c].session = e.session /\ runs[c].session \in Nat
        BY <1>6, <2>1, <3>1, RunFacts
      <3>3. CASE c = active[s]
        <4>1. s <= place.session /\ runs[c].session <= s
          BY <2>4, <3>3 DEF PlaceInv
        <4>2. s = e.session
          BY <1>1, <1>2, <3>2, <4>1
        <4> QED  BY <1>6, <2>6, <3>1, <4>2
      <3>4. CASE c = e.run
        BY <1>6, <2>6, <3>1, <3>4
      <3> QED  BY <1>0, <3>3, <3>4 DEF Effect
    <2> QED  BY <2>5, <2>6
  <1> QED  BY <1>5, <1>6

\* Superseded runs keep apart from the later runs of their session.
LEMMA OverlapStep ==
    ASSUME IndInv, IndInv', PlaceInv, CurrentIsLast, SupersededRunsDoNotOverlap,
           NEW e \in Event, NEW after, Process(e, after), Effect(state, after, e)
    PROVE  SupersededRunsDoNotOverlap'
  <1> SUFFICES ASSUME InOrder', NEW r1 \in DOMAIN runs', NEW r2 \in DOMAIN runs', r1 # r2,
                      runs'[r1].session = runs'[r2].session, runs'[r1].status = "superseded",
                      ~hist'[r1].again, runs'[r2].started >= runs'[r1].started
               PROVE  \/ runs'[r1].ended <= runs'[r2].started
                      \/ runs'[r1].started = runs'[r2].started
    BY DEF SupersededRunsDoNotOverlap
  <1>1. /\ e.session \in Nat /\ e.session \in Sessions /\ e.at \in Nat
        /\ place.session \in Nat /\ place.at \in Int
        /\ e.session >= place.session /\ place'.session = e.session
        /\ InOrder /\ place'.at = e.at
        /\ e.session = place.session => e.at >= place.at
    BY TakeFacts DEF Process
  <1>2. r1 \in DOMAIN runs
    BY AddedRun
  <1>3. /\ runs'[r1].session = runs[r1].session /\ runs'[r1].started = runs[r1].started
        /\ \/ runs[r1].status = "superseded" /\ runs'[r1].ended = runs[r1].ended
           \/ /\ r1 = active[e.session]
              /\ runs'[r1].ended <= e.at \/ runs'[r1].ended <= runs[r1].started
    BY <1>2, KnownRun
  <1>4. /\ r1 \in RunIDs /\ r1 # NoRun
        /\ runs[r1].session \in Nat /\ runs[r1].started \in Nat /\ runs[r1].ended \in Int
        /\ runs'[r1].ended \in Int /\ runs'[r2].started \in Nat
    BY <1>2, RunFacts DEF IndInv, TypeOK, Run, NoTime
  <1>5. ~hist[r1].again
    BY <1>4, NoteFacts
  <1>6. CASE r2 \notin DOMAIN runs
    <2>1. runs'[r2].session = e.session /\ runs'[r2].started = e.at
      BY <1>6, AddedRun
    <2>2. runs[r1].session <= place.session
      BY <1>2 DEF PlaceInv
    <2>3. runs[r1].session = place.session /\ place.at <= e.at
      <3>1. runs[r1].session = e.session
        BY <1>3, <2>1
      <3>2. e.session = place.session
        BY <1>1, <2>2, <3>1
      <3> QED  BY <1>1, <3>1, <3>2
    <2>4. /\ runs[r1].started <= place.at
          /\ runs[r1].status = "superseded" => runs[r1].ended <= place.at
      BY <1>1, <1>2, <2>3 DEF PlaceInv
    <2> QED  BY <1>1, <1>3, <1>4, <2>1, <2>3, <2>4
  <1>7. CASE r2 \in DOMAIN runs
    <2>1. runs'[r2].session = runs[r2].session /\ runs'[r2].started = runs[r2].started
      BY <1>7, KnownRun
    <2>2. CASE runs[r1].status = "superseded" /\ runs'[r1].ended = runs[r1].ended
      BY <1>1, <1>2, <1>3, <1>5, <1>7, <2>1, <2>2 DEF SupersededRunsDoNotOverlap
    <2>3. CASE r1 = active[e.session]
      <3>1. runs[r2].started <= runs[r1].started
        BY <1>1, <1>3, <1>4, <1>5, <1>7, <2>1, <2>3 DEF CurrentIsLast
      <3> QED  BY <1>3, <1>4, <2>1, <3>1
    <2> QED  BY <1>3, <2>2, <2>3
  <1> QED  BY <1>6, <1>7

\* A skipped event moves only the place.
LEMMA SkipKeepsOverlapInv ==
    ASSUME IndInv, OverlapInv, NEW e \in Event, Skip(e)
    PROVE  OverlapInv'
  <1>1. /\ e.session \in Nat /\ e.at \in Nat
        /\ place.session \in Nat /\ place.at \in Int
        /\ e.session >= place.session /\ place'.session = e.session
        /\ InOrder' => InOrder /\ place'.at = e.at
        /\ InOrder' /\ e.session = place.session => e.at >= place.at
    BY TakeFacts DEF Skip
  <1>2. UNCHANGED <<runs, active, hist>>
    BY DEF Skip
  <1>3. CurrentIsLast' /\ SupersededRunsDoNotOverlap'
    BY <1>1, <1>2 DEF OverlapInv, CurrentIsLast, SupersededRunsDoNotOverlap
  <1>4. \A s \in Sessions : s \in Nat
    BY ProjectorAssumption
  <1>5. PlaceInv'
    <2>1. ASSUME NEW r \in DOMAIN runs
          PROVE  /\ runs[r].session <= place'.session
                 /\ InOrder' /\ runs[r].session = place'.session =>
                        /\ runs[r].started <= place'.at
                        /\ runs[r].status = "superseded" => runs[r].ended <= place'.at
      BY <1>1, <2>1, RunFacts DEF OverlapInv, PlaceInv
    <2>2. ASSUME NEW s \in Sessions, active[s] # NoRun
          PROVE  s <= place'.session /\ runs[active[s]].session <= s
      BY <1>1, <1>4, <2>2 DEF OverlapInv, PlaceInv
    <2> QED  BY <1>2, <2>1, <2>2 DEF PlaceInv
  <1> QED  BY <1>3, <1>5 DEF OverlapInv

(***************************************************************************)
(* When the timestamps of a session follow its order, inferred closures    *)
(* never count an instant twice: a superseded run that was not started     *)
(* again ends before the later runs of its session start, for any log.     *)
(***************************************************************************)
THEOREM SupersededRunsAreApart == Spec => []SupersededRunsDoNotOverlap
  <1>1. Init => OverlapInv
    <2>1. Init => DOMAIN runs = {} /\ \A s \in Sessions : active[s] = NoRun
      BY DEF Init, EmptyState
    <2> QED  BY <2>1 DEF OverlapInv, PlaceInv, CurrentIsLast, SupersededRunsDoNotOverlap
  <1>2. IndInv /\ OverlapInv /\ [Next]_vars => OverlapInv'
    <2> SUFFICES ASSUME IndInv, OverlapInv, [Next]_vars PROVE OverlapInv'
      OBVIOUS
    <2>1. IndInv'
      BY IndInvNext
    <2>2. CASE UNCHANGED vars
      BY <2>2 DEF vars, OverlapInv, PlaceInv, CurrentIsLast, SupersededRunsDoNotOverlap, InOrder
    <2>3. ASSUME NEW e \in Event, Skip(e) PROVE OverlapInv'
      BY <2>3, SkipKeepsOverlapInv
    <2>4. ASSUME NEW e \in Event, Start(e) \/ TokenUsage(e) \/ Terminal(e) \/ SessionClosed(e)
                                   \/ Activity(e)
          PROVE  OverlapInv'
      <3>1. PICK after : Process(e, after) /\ Effect(state, after, e)
        BY <2>4, ProcessEffect
      <3> QED  BY <2>1, <3>1, PlaceInvStep, CurrentIsLastStep, OverlapStep DEF OverlapInv
    <2> QED  BY <2>2, <2>3, <2>4 DEF Next
  <1>3. OverlapInv => SupersededRunsDoNotOverlap
    BY DEF OverlapInv
  <1> QED  BY <1>1, <1>2, <1>3, ProjectionInvariant, PTL DEF Spec

-----------------------------------------------------------------------------
(***************************************************************************)
(* Reading the runs at one instant never changes what a later reading      *)
(* returns: a lease expires where it ends, not where somebody looks.       *)
(***************************************************************************)
THEOREM ReadsDoNotMatter == Spec => []ExpiryIndependentOfReads
  <1>1. ASSUME IndInv PROVE ExpiryIndependentOfReads
    <2> SUFFICES ASSUME NEW t1 \in Times, NEW t2 \in Times, t1 <= t2
                 PROVE  expireLeases(expireLeases(runs, t1), t2) = expireLeases(runs, t2)
      BY DEF ExpiryIndependentOfReads
    <2> DEFINE x == expireLeases(runs, t1)
               over(run) == [run EXCEPT !.ended = leaseEnd(run), !.last = leaseEnd(run),
                                        !.status = "abandoned", !.reason = "lease_expired"]
    <2>1. \A ru, t : expireLeases(ru, t) =
              [r \in DOMAIN ru |-> IF IsOpen(ru[r]) /\ t >= leaseEnd(ru[r])
                                   THEN over(ru[r]) ELSE ru[r]]
      BY DEF expireLeases
    <2>2. ASSUME NEW r \in DOMAIN runs
          PROVE  /\ leaseEnd(runs[r]) \in Nat
                 /\ over(runs[r]).ended = leaseEnd(runs[r])
      <3>1. runs[r] \in Run
        BY <1>1 DEF IndInv, TypeOK
      <3>2. runs[r].last \in Nat /\ runs[r].started \in Nat
        BY <3>1 DEF Run
      <3> QED  BY <3>1, <3>2, ProjectorAssumption DEF leaseEnd, Run
    <2> HIDE DEF over
    <2>3. /\ DOMAIN x = DOMAIN runs
          /\ \A r \in DOMAIN runs :
                 x[r] = IF IsOpen(runs[r]) /\ t1 >= leaseEnd(runs[r])
                        THEN over(runs[r]) ELSE runs[r]
      BY <2>1
    <2> HIDE DEF x
    <2>4. t1 \in Nat /\ t2 \in Nat
      BY LoopAssumption
    <2>5. ASSUME NEW r \in DOMAIN runs
          PROVE  (IF IsOpen(x[r]) /\ t2 >= leaseEnd(x[r]) THEN over(x[r]) ELSE x[r])
                 = (IF IsOpen(runs[r]) /\ t2 >= leaseEnd(runs[r]) THEN over(runs[r]) ELSE runs[r])
      <3>1. CASE IsOpen(runs[r]) /\ t1 >= leaseEnd(runs[r])
        <4>1. x[r] = over(runs[r]) /\ ~IsOpen(x[r])
          BY <2>2, <2>3, <2>5, <3>1 DEF IsOpen, NoTime
        <4>2. t2 >= leaseEnd(runs[r])
          BY <2>2, <2>4, <3>1
        <4> QED  BY <3>1, <4>1, <4>2
      <3>2. CASE ~(IsOpen(runs[r]) /\ t1 >= leaseEnd(runs[r]))
        BY <2>3, <2>5, <3>2
      <3> QED  BY <3>1, <3>2
    <2>6. expireLeases(x, t2) =
              [r \in DOMAIN runs |-> IF IsOpen(x[r]) /\ t2 >= leaseEnd(x[r])
                                     THEN over(x[r]) ELSE x[r]]
      BY <2>1, <2>3
    <2> QED  BY <2>1, <2>5, <2>6 DEF x
  <1> QED  BY <1>1, ProjectionInvariant, PTL

-----------------------------------------------------------------------------
(***************************************************************************)
(* The list Project is given.  A call is a walk over the sorted list that  *)
(* applies the events it has not seen.  Two walks are compared turn by     *)
(* turn: a relation between their states that holds at the start and       *)
(* survives a turn of either holds at the end.                             *)
(***************************************************************************)

Before == [seen |-> {}, st |-> EmptyState]

\* f[k] is what the loop of Project knows after k events of t.
Turns(f, t, n) ==
    f = [k \in 0..n |-> IF k = 0 THEN Before ELSE projectStep(f[k - 1], t[k])]

LEMMA LoopTurns ==
    ASSUME NEW n \in Nat, NEW t, Len(t) = n
    PROVE  \E f : Turns(f, t, n) /\ loop(projectStep, Before, t) = f[n]
  <1> DEFINE T == {m \in 0..n : \E f : Turns(f, t, m)}
  <1>1. 0 \in T
    <2>1. PICK f : f = [k \in 0..0 |-> Before]
      OBVIOUS
    <2>2. Turns(f, t, 0)
      BY <2>1 DEF Turns
    <2> QED  BY <2>2
  <1>2. ASSUME NEW m \in 0..n, m < n, m \in T PROVE m + 1 \in T
    <2>1. PICK f : Turns(f, t, m)
      BY <1>2
    <2>2. PICK h : h = [k \in 0..(m + 1) |-> IF k = m + 1 THEN projectStep(f[m], t[m + 1]) ELSE f[k]]
      OBVIOUS
    <2>3. \A k \in 0..m : f[k] = IF k = 0 THEN Before ELSE projectStep(f[k - 1], t[k])
      BY <2>1 DEF Turns
    <2>4. \A k \in 0..m : h[k] = f[k]
      BY <2>2
    <2>5. \A k \in 0..(m + 1) : h[k] = IF k = 0 THEN Before ELSE projectStep(h[k - 1], t[k])
      <3> SUFFICES ASSUME NEW k \in 0..(m + 1)
                   PROVE  h[k] = IF k = 0 THEN Before ELSE projectStep(h[k - 1], t[k])
        OBVIOUS
      <3>1. CASE k = m + 1
        BY <2>2, <2>4, <3>1
      <3>2. CASE k # m + 1
        <4>1. k \in 0..m /\ (k # 0 => k - 1 \in 0..m)
          BY <3>2
        <4>2. h[k] = f[k] /\ (k # 0 => h[k - 1] = f[k - 1])
          BY <2>4, <4>1
        <4> QED  BY <2>3, <4>1, <4>2
      <3> QED  BY <3>1, <3>2
    <2>6. Turns(h, t, m + 1)
      BY <2>2, <2>5 DEF Turns
    <2> QED  BY <1>2, <2>6
  <1> HIDE DEF T
  <1>3. n \in T
    BY <1>1, <1>2, UpTo
  <1>4. PICK f : Turns(f, t, n)
    BY <1>3 DEF T
  <1> DEFINE F == CHOOSE h : h = [k \in 0..Len(t) |->
                                     IF k = 0 THEN Before ELSE projectStep(h[k - 1], t[k])]
  <1>5. loop(projectStep, Before, t) = F[Len(t)]
    BY DEF loop
  <1>6. F = [k \in 0..Len(t) |-> IF k = 0 THEN Before ELSE projectStep(F[k - 1], t[k])]
    <2>1. f = [k \in 0..Len(t) |-> IF k = 0 THEN Before ELSE projectStep(f[k - 1], t[k])]
      BY <1>4 DEF Turns
    <2> QED  BY <2>1
  <1> HIDE DEF F
  <1> QED  BY <1>5, <1>6 DEF Turns

\* The events at the positions F of t are in order.
Increasing(t, F) == \A k, l \in F : k < l => eventLess(t[k], t[l])

\* eventLess is a strict order of which incomparability is an equivalence.
LEMMA EventOrder ==
    /\ \A a, b \in Log : eventLess(a, b) => ~eventLess(b, a)
    /\ \A a, b, c \in Log : ~eventLess(b, a) /\ ~eventLess(c, b) => ~eventLess(c, a)
    /\ \A a, b \in Log : a.id # b.id => eventLess(a, b) \/ eventLess(b, a)
  <1>1. \A a \in Log : a.session \in Int /\ a.seq \in Int /\ a.at \in Int /\ a.id \in Int
    <2>1. \A a \in LogEvent : a.session \in Nat /\ a.seq \in Nat /\ a.at \in Nat /\ a.id \in Nat
      BY ProjectorAssumption DEF LogEvent
    <2> QED  BY <2>1, ArrivalAssumption
  <1>2. ASSUME NEW a \in Log, NEW b \in Log
        PROVE  /\ eventLess(a, b) => ~eventLess(b, a)
               /\ a.id # b.id => eventLess(a, b) \/ eventLess(b, a)
    BY <1>1 DEF eventLess
  <1>3. ASSUME NEW a \in Log, NEW b \in Log, NEW c \in Log, ~eventLess(b, a), ~eventLess(c, b)
        PROVE  ~eventLess(c, a)
    BY <1>1, <1>3 DEF eventLess
  <1> QED  BY <1>2, <1>3

\* Sorting a list of the log's events.
LEMMA SortedEvents ==
    ASSUME NEW s \in Seq(Log)
    PROVE  \E t \in [1..Len(s) -> Log] :
              /\ t = sorted(s, eventLess)
              /\ {t[k] : k \in 1..Len(s)} = ToSet(s)
              /\ \A k, l \in 1..Len(s) : k < l => ~eventLess(t[l], t[k])
  <1> DEFINE D == DOMAIN s
             ahead == [i \in D |-> {j \in D : \/ eventLess(s[j], s[i])
                                              \/ (~eventLess(s[i], s[j]) /\ j < i)}]
  <1>1. D = 1..Len(s) /\ Len(s) \in Nat /\ \A i \in D : s[i] \in Log
    OBVIOUS
  <1>2. IsFiniteSet(D) /\ Cardinality(D) = Len(s)
    BY <1>1, FS_Interval
  <1>3. sorted(s, eventLess) = arranged(s, ahead)
    BY DEF sorted
  <1>5. /\ \A i, j \in D : eventLess(s[j], s[i]) => ~eventLess(s[i], s[j])
        /\ \A i, j, k \in D :
              ~eventLess(s[j], s[i]) /\ ~eventLess(s[k], s[j]) => ~eventLess(s[k], s[i])
    BY <1>1, EventOrder
  <1> HIDE DEF D
  <1>6. Orders(ahead, D)
    <2>1. ahead \in [D -> SUBSET D]
      OBVIOUS
    <2>2. \A i \in D : i \in Int
      BY <1>1
    <2>3. \A i, j \in D : j \in ahead[i] <=>
                              (eventLess(s[j], s[i]) \/ (~eventLess(s[i], s[j]) /\ j < i))
      OBVIOUS
    <2> HIDE DEF ahead
    <2>4. \A i \in D : i \notin ahead[i]
      BY <1>5, <2>2, <2>3
    <2>5. ASSUME NEW i \in D, NEW j \in D PROVE i \in ahead[j] \/ j \in ahead[i] \/ i = j
      <3>1. i < j \/ j < i \/ i = j
        BY <2>2
      <3> QED  BY <1>5, <2>3, <3>1
    <2>6. ASSUME NEW i \in D, NEW j \in D, NEW k \in D, i \in ahead[j], j \in ahead[k]
          PROVE  i \in ahead[k]
      BY <1>5, <2>2, <2>3, <2>6
    <2> QED  BY <2>1, <2>4, <2>5, <2>6 DEF Orders
  <1>7. \A i, j \in D : j \in ahead[i] => ~eventLess(s[i], s[j])
    BY <1>5
  <1> HIDE DEF ahead
  <1>8. PICK f : /\ Enumerates(f, D)
                 /\ \A k, l \in 1..Cardinality(D) : k < l => f[k] \in ahead[f[l]]
                 /\ ReadAt(arranged(s, ahead), s, f, Cardinality(D))
    BY <1>2, <1>6, ArrangedInOrder
  <1> DEFINE t == [k \in 1..Len(s) |-> s[f[k]]]
  <1>9. /\ \A k \in 1..Len(s) : f[k] \in D
        /\ \A i \in D : \E k \in 1..Len(s) : f[k] = i
    BY <1>2, <1>8 DEF Enumerates
  <1>10. t \in [1..Len(s) -> Log] /\ t = sorted(s, eventLess)
    BY <1>1, <1>2, <1>3, <1>8, <1>9 DEF ReadAt
  <1>11. {t[k] : k \in 1..Len(s)} = ToSet(s)
    BY <1>9 DEF ToSet, D
  <1>12. \A k, l \in 1..Len(s) : k < l => ~eventLess(t[l], t[k])
    BY <1>2, <1>7, <1>8, <1>9
  <1> HIDE DEF t
  <1> QED  BY <1>10, <1>11, <1>12

\* n turns of the loop over the sorted events t of s; F: the turns that apply an
\* event; g[k]: the state after k turns.
Walk(s, n, t, F, g) ==
    /\ n \in Nat /\ t \in [1..n -> Log] /\ F \in SUBSET (1..n)
    /\ {t[k] : k \in 1..n} = ToSet(s)
    /\ \A k, l \in 1..n : k < l => ~eventLess(t[l], t[k])
    /\ Increasing(t, F)
    /\ {t[k] : k \in F} = {e \in ToSet(s) : e.id # NoId}
    /\ g[0] = EmptyState
    /\ \A k \in 1..n : g[k] = IF k \in F THEN applyEvent(g[k - 1], t[k]) ELSE g[k - 1]
    /\ Project(s) = g[n].runs

LEMMA WalkExists ==
    ASSUME NEW s \in Seq(Log)
    PROVE  \E n, t, F, g : Walk(s, n, t, F, g)
  <1> DEFINE n == Len(s)
  <1>1. PICK t \in [1..n -> Log] :
           /\ t = sorted(s, eventLess)
           /\ {t[k] : k \in 1..n} = ToSet(s)
           /\ \A k, l \in 1..n : k < l => ~eventLess(t[l], t[k])
    BY SortedEvents
  <1>2. n \in Nat /\ Len(t) = n
    BY <1>1
  <1> HIDE DEF n
  <1>3. PICK f : Turns(f, t, n) /\ loop(projectStep, Before, t) = f[n]
    BY <1>2, LoopTurns
  <1> DEFINE F == {k \in 1..n : t[k].id # NoId /\ t[k].id \notin f[k - 1].seen}
             g == [k \in 0..n |-> f[k].st]
  <1>4. f[0] = Before /\ \A k \in 1..n : f[k] = projectStep(f[k - 1], t[k])
    BY <1>2, <1>3 DEF Turns
  <1>5. \A k \in 1..n : /\ k \in F => /\ f[k].seen = f[k - 1].seen \cup {t[k].id}
                                      /\ f[k].st = applyEvent(f[k - 1].st, t[k])
                        /\ k \notin F => f[k] = f[k - 1]
    <2> SUFFICES ASSUME NEW k \in 1..n
                 PROVE  /\ k \in F => /\ f[k].seen = f[k - 1].seen \cup {t[k].id}
                                      /\ f[k].st = applyEvent(f[k - 1].st, t[k])
                        /\ k \notin F => f[k] = f[k - 1]
      OBVIOUS
    <2>1. f[k] = projectStep(f[k - 1], t[k])
      BY <1>4
    <2> QED  BY <2>1 DEF projectStep
  <1>6. \A k \in 0..n : f[k].seen = {t[l].id : l \in 1..k} \ {NoId}
    <2> DEFINE T == {k \in 0..n : f[k].seen = {t[l].id : l \in 1..k} \ {NoId}}
    <2>1. 0 \in T
      BY <1>2, <1>4 DEF Before
    <2>2. ASSUME NEW k \in 0..n, k < n, k \in T PROVE k + 1 \in T
      <3>1. k + 1 \in 1..n /\ (k + 1) - 1 = k /\ 1..(k + 1) = (1..k) \cup {k + 1}
        BY <1>2, <2>2
      <3>2. {t[l].id : l \in 1..(k + 1)} = {t[l].id : l \in 1..k} \cup {t[k + 1].id}
        BY <3>1
      <3>3. CASE k + 1 \in F
        <4>1. t[k + 1].id # NoId /\ f[k + 1].seen = f[k].seen \cup {t[k + 1].id}
          BY <1>5, <3>1, <3>3
        <4> HIDE DEF F
        <4> QED  BY <2>2, <3>1, <3>2, <4>1
      <3>4. CASE k + 1 \notin F
        <4>1. t[k + 1].id = NoId \/ t[k + 1].id \in f[k].seen
          BY <3>1, <3>4
        <4>2. f[k + 1] = f[k]
          BY <1>5, <3>1, <3>4
        <4> HIDE DEF F
        <4> QED  BY <2>2, <3>1, <3>2, <4>1, <4>2
      <3> QED  BY <3>3, <3>4
    <2> HIDE DEF T
    <2>3. \A k \in 0..n : k \in T
      BY <1>2, <2>1, <2>2, UpTo
    <2> QED  BY <2>3 DEF T
  <1>7. \A k \in F : k \in 1..n /\ t[k].id # NoId /\ \A l \in 1..(k - 1) : t[l].id # t[k].id
    <2> SUFFICES ASSUME NEW k \in F, NEW l \in 1..(k - 1) PROVE t[l].id # t[k].id
      OBVIOUS
    <2>1. k - 1 \in 0..n /\ t[k].id \notin f[k - 1].seen /\ t[k].id # NoId
      BY <1>2
    <2>2. t[k].id \notin {t[m].id : m \in 1..(k - 1)}
      BY <1>6, <2>1
    <2> QED  BY <2>2
  <1>8. \A k \in 1..n : t[k].id # NoId /\ (\A l \in 1..(k - 1) : t[l].id # t[k].id) => k \in F
    <2> SUFFICES ASSUME NEW k \in 1..n, t[k].id # NoId, \A l \in 1..(k - 1) : t[l].id # t[k].id
                 PROVE  t[k].id \notin f[k - 1].seen
      OBVIOUS
    <2>1. k - 1 \in 0..n
      BY <1>2
    <2> QED  BY <1>6, <2>1
  <1>9. /\ g[0] = EmptyState
        /\ \A k \in 1..n : g[k] = IF k \in F THEN applyEvent(g[k - 1], t[k]) ELSE g[k - 1]
    <2>1. \A k \in 1..n : k - 1 \in 0..n /\ k \in 0..n
      BY <1>2
    <2>2. \A k \in 0..n : g[k] = f[k].st
      OBVIOUS
    <2>3. \A k \in 1..n : f[k].st = IF k \in F THEN applyEvent(f[k - 1].st, t[k]) ELSE f[k - 1].st
      BY <1>5
    <2> HIDE DEF F, g
    <2>4. g[0] = EmptyState
      BY <1>2, <1>4, <2>2 DEF Before
    <2> QED  BY <2>1, <2>2, <2>3, <2>4
  <1>10. Project(s) = g[n].runs
    <2>1. Project(s) = f[n].st.runs
      BY <1>1, <1>3 DEF Project, Before
    <2> QED  BY <1>2, <2>1
  <1>11. F \in SUBSET (1..n)
    OBVIOUS
  <1> HIDE DEF F, g
  <1>12. Increasing(t, F)
    <2> SUFFICES ASSUME NEW k \in F, NEW l \in F, k < l PROVE eventLess(t[k], t[l])
      BY DEF Increasing
    <2>1. k \in 1..n /\ l \in 1..n /\ k \in 1..(l - 1) /\ t[k] \in Log /\ t[l] \in Log
      BY <1>2, <1>11
    <2>2. t[k].id # t[l].id
      BY <1>7, <2>1
    <2> QED  BY <1>1, <2>1, <2>2, EventOrder
  <1>13. {t[k] : k \in F} = {e \in ToSet(s) : e.id # NoId}
    <2>1. ASSUME NEW e \in ToSet(s), e.id # NoId PROVE \E k \in F : t[k] = e
      <3> DEFINE P == {k \in 1..n : t[k].id = e.id}
      <3>1. PICK j \in 1..n : t[j] = e
        BY <1>1
      <3>2. P \in SUBSET Nat /\ P # {}
        BY <3>1
      <3>3. PICK m \in P : \A k \in P : m <= k
        BY <3>2, LeastNumber
      <3>4. m \in 1..n /\ t[m].id = e.id /\ t[m] \in Log /\ e \in Log
        BY <3>1
      <3>5. t[m] = e
        BY <3>4, ArrivalAssumption
      <3>6. \A l \in 1..(m - 1) : l \in 1..n /\ ~(m <= l)
        BY <1>2, <3>4
      <3>7. \A l \in 1..(m - 1) : t[l].id # t[m].id
        BY <3>3, <3>4, <3>6
      <3> QED  BY <1>8, <2>1, <3>4, <3>5, <3>7
    <2>2. \A k \in F : t[k] \in ToSet(s) /\ t[k].id # NoId
      BY <1>1, <1>7
    <2> QED  BY <2>1, <2>2
  <1>14. Walk(s, n, t, F, g)
    BY <1>1, <1>2, <1>9, <1>10, <1>11, <1>12, <1>13 DEF Walk
  <1> QED  BY <1>14

-----------------------------------------------------------------------------
\* The relation R between the turns of two walks holds at their start, survives a
\* turn of one that the other need not follow, and a turn of both with one event.
Simulates(R, n1, t1, F1, n2, t2, F2) ==
    /\ <<0, 0>> \in R
    /\ \A i \in 1..n1, j \in 0..n2 : i \notin F1 /\ <<i - 1, j>> \in R => <<i, j>> \in R
    /\ \A i \in 0..n1, j \in 1..n2 : j \notin F2 /\ <<i, j - 1>> \in R => <<i, j>> \in R
    /\ \A i \in F1, j \in F2 : t1[i] = t2[j] /\ <<i - 1, j - 1>> \in R => <<i, j>> \in R

\* The events of the turns F up to i.
Past(t, F, i) == {t[k] : k \in {l \in F : l <= i}}

LEMMA PastFacts ==
    ASSUME NEW n \in Nat, NEW t \in [1..n -> Log], NEW F \in SUBSET (1..n), Increasing(t, F)
    PROVE  /\ Past(t, F, 0) = {}
           /\ \A i \in 1..n : i \notin F => Past(t, F, i) = Past(t, F, i - 1)
           /\ \A i \in F : /\ t[i] \in Past(t, F, i) /\ t[i] \in Log
                           /\ Past(t, F, i - 1) = Past(t, F, i) \ {t[i]}
                           /\ \A e \in Past(t, F, i) : e = t[i] \/ eventLess(e, t[i])
  <1>1. \A i \in F : i \in 1..n /\ t[i] \in Log
    OBVIOUS
  <1>2. Past(t, F, 0) = {}
    BY <1>1 DEF Past
  <1>3. ASSUME NEW i \in 1..n, i \notin F PROVE Past(t, F, i) = Past(t, F, i - 1)
    <2>1. \A l \in F : l <= i <=> l <= i - 1
      <3>1. \A l \in F : l \in Int /\ l # i
        BY <1>1, <1>3
      <3>2. i \in Int
        OBVIOUS
      <3> QED  BY <3>1, <3>2
    <2> QED  BY <2>1 DEF Past
  <1>4. ASSUME NEW i \in F
        PROVE  /\ Past(t, F, i - 1) = Past(t, F, i) \ {t[i]}
               /\ \A e \in Past(t, F, i) : e = t[i] \/ eventLess(e, t[i])
    <2>1. \A l \in F : l <= i <=> l <= i - 1 \/ l = i
      <3>1. \A l \in F : l \in Int
        BY <1>1
      <3> QED  BY <3>1
    <2>2. \A l \in F : l <= i - 1 => l < i
      BY <1>1
    <2>3. \A e \in Past(t, F, i - 1) : eventLess(e, t[i])
      BY <2>2 DEF Past, Increasing
    <2>4. ~eventLess(t[i], t[i])
      BY <1>1, EventOrder
    <2>5. Past(t, F, i) = Past(t, F, i - 1) \cup {t[i]}
      BY <2>1 DEF Past
    <2> QED  BY <2>3, <2>4, <2>5
  <1>5. ASSUME NEW i \in F PROVE t[i] \in Past(t, F, i)
    BY <1>1 DEF Past
  <1> QED  BY <1>1, <1>2, <1>3, <1>4, <1>5

LEMMA Simulation ==
    ASSUME NEW n1 \in Nat, NEW t1 \in [1..n1 -> Log], NEW F1 \in SUBSET (1..n1),
           NEW n2 \in Nat, NEW t2 \in [1..n2 -> Log], NEW F2 \in SUBSET (1..n2),
           Increasing(t1, F1), Increasing(t2, F2),
           {t1[k] : k \in F1} = {t2[k] : k \in F2},
           NEW R, Simulates(R, n1, t1, F1, n2, t2, F2)
    PROVE  <<n1, n2>> \in R
  <1> DEFINE A(i) == Past(t1, F1, i)
             B(j) == Past(t2, F2, j)
             T == {m \in 0..(n1 + n2) : \A i \in 0..n1, j \in 0..n2 :
                      i + j <= m /\ A(i) = B(j) => <<i, j>> \in R}
  <1>1. /\ A(0) = {} /\ \A i \in 1..n1 : i \notin F1 => A(i) = A(i - 1)
        /\ \A i \in F1 : /\ t1[i] \in A(i) /\ t1[i] \in Log /\ A(i - 1) = A(i) \ {t1[i]}
                         /\ \A e \in A(i) : e = t1[i] \/ eventLess(e, t1[i])
    BY PastFacts
  <1>2. /\ B(0) = {} /\ \A j \in 1..n2 : j \notin F2 => B(j) = B(j - 1)
        /\ \A j \in F2 : /\ t2[j] \in B(j) /\ t2[j] \in Log /\ B(j - 1) = B(j) \ {t2[j]}
                         /\ \A e \in B(j) : e = t2[j] \/ eventLess(e, t2[j])
    BY PastFacts
  <1>3. A(n1) = B(n2)
    <2>1. \A k \in F1 : k <= n1
      OBVIOUS
    <2>2. \A k \in F2 : k <= n2
      OBVIOUS
    <2>3. {k \in F1 : k <= n1} = F1 /\ {k \in F2 : k <= n2} = F2
      BY <2>1, <2>2
    <2> QED  BY <2>3 DEF Past
  <1> HIDE DEF A, B
  <1>4. 0 \in T
    BY DEF Simulates
  <1>5. ASSUME NEW m \in 0..(n1 + n2), m < n1 + n2, m \in T PROVE m + 1 \in T
    <2> SUFFICES ASSUME NEW i \in 0..n1, NEW j \in 0..n2, i + j <= m + 1, A(i) = B(j)
                 PROVE  <<i, j>> \in R
      BY <1>5
    <2>1. /\ \A k \in 0..n1, l \in 0..n2 : k + l <= m /\ A(k) = B(l) => <<k, l>> \in R
          /\ i \in 1..n1 => i - 1 \in 0..n1 /\ (i - 1) + j <= m
          /\ j \in 1..n2 => j - 1 \in 0..n2 /\ i + (j - 1) <= m
          /\ i \in 1..n1 /\ j \in 1..n2 => (i - 1) + (j - 1) <= m
      BY <1>5
    <2>2. CASE i \in 1..n1 /\ i \notin F1
      <3>1. <<i - 1, j>> \in R
        BY <1>1, <2>1, <2>2
      <3> QED  BY <2>2, <3>1 DEF Simulates
    <2>3. CASE j \in 1..n2 /\ j \notin F2
      <3>1. <<i, j - 1>> \in R
        BY <1>2, <2>1, <2>3
      <3> QED  BY <2>3, <3>1 DEF Simulates
    <2>4. CASE i \in F1 /\ j \in F2
      <3>1. t1[i] \in B(j) /\ t2[j] \in A(i)
        BY <1>1, <1>2, <2>4
      <3>2. t1[i] = t2[j]
        BY <1>1, <1>2, <2>4, <3>1, EventOrder
      <3>3. A(i - 1) = B(j - 1) /\ i \in 1..n1 /\ j \in 1..n2
        BY <1>1, <1>2, <2>4, <3>2
      <3>4. <<i - 1, j - 1>> \in R
        BY <2>1, <3>3
      <3> QED  BY <2>4, <3>2, <3>4 DEF Simulates
    <2>5. CASE i = 0 /\ j = 0
      BY <2>5 DEF Simulates
    <2>6. i \in F1 => j # 0
      BY <1>1, <1>2
    <2>7. j \in F2 => i # 0
      BY <1>1, <1>2
    <2> QED  BY <2>2, <2>3, <2>4, <2>5, <2>6, <2>7
  <1> HIDE DEF T
  <1>6. n1 + n2 \in T
    <2>1. n1 + n2 \in Nat /\ n1 + n2 \in 0..(n1 + n2)
      OBVIOUS
    <2>2. \A m \in 0..(n1 + n2) : m \in T
      BY <1>4, <1>5, <2>1, UpTo
    <2> QED  BY <2>1, <2>2
  <1> QED  BY <1>3, <1>6 DEF T

\* Lists of the same events have the same runs.
LEMMA SameRuns ==
    ASSUME NEW s \in Seq(Log), NEW u \in Seq(Log), ToSet(s) = ToSet(u)
    PROVE  Project(s) = Project(u)
  <1>1. PICK n1, t1, F1, g1 : Walk(s, n1, t1, F1, g1)
    BY WalkExists
  <1>2. PICK n2, t2, F2, g2 : Walk(u, n2, t2, F2, g2)
    BY WalkExists
  <1> DEFINE R == {x \in (0..n1) \X (0..n2) : g1[x[1]] = g2[x[2]]}
  <1>3. /\ n1 \in Nat /\ t1 \in [1..n1 -> Log] /\ F1 \in SUBSET (1..n1) /\ Increasing(t1, F1)
        /\ n2 \in Nat /\ t2 \in [1..n2 -> Log] /\ F2 \in SUBSET (1..n2) /\ Increasing(t2, F2)
        /\ {t1[k] : k \in F1} = {t2[k] : k \in F2}
    BY <1>1, <1>2 DEF Walk
  <1>4. \A i \in 0..n1, j \in 0..n2 : <<i, j>> \in R <=> g1[i] = g2[j]
    OBVIOUS
  <1> HIDE DEF R
  <1>5. /\ g1[0] = EmptyState /\ g2[0] = EmptyState
        /\ \A k \in 1..n1 : g1[k] = IF k \in F1 THEN applyEvent(g1[k - 1], t1[k]) ELSE g1[k - 1]
        /\ \A k \in 1..n2 : g2[k] = IF k \in F2 THEN applyEvent(g2[k - 1], t2[k]) ELSE g2[k - 1]
    BY <1>1, <1>2 DEF Walk
  <1>6. Simulates(R, n1, t1, F1, n2, t2, F2)
    <2>1. <<0, 0>> \in R
      BY <1>3, <1>4, <1>5
    <2>2. ASSUME NEW i \in 1..n1, NEW j \in 0..n2, i \notin F1, <<i - 1, j>> \in R
          PROVE  <<i, j>> \in R
      BY <1>3, <1>4, <1>5, <2>2
    <2>3. ASSUME NEW i \in 0..n1, NEW j \in 1..n2, j \notin F2, <<i, j - 1>> \in R
          PROVE  <<i, j>> \in R
      BY <1>3, <1>4, <1>5, <2>3
    <2>4. ASSUME NEW i \in F1, NEW j \in F2, t1[i] = t2[j], <<i - 1, j - 1>> \in R
          PROVE  <<i, j>> \in R
      <3>1. i \in 1..n1 /\ j \in 1..n2 /\ i - 1 \in 0..n1 /\ j - 1 \in 0..n2
            /\ i \in 0..n1 /\ j \in 0..n2
        BY <1>3
      <3>2. g1[i - 1] = g2[j - 1]
        BY <1>4, <2>4, <3>1
      <3>3. g1[i] = applyEvent(g1[i - 1], t1[i]) /\ g2[j] = applyEvent(g2[j - 1], t2[j])
        BY <1>5, <3>1
      <3> QED  BY <1>4, <2>4, <3>1, <3>2, <3>3
    <2> QED  BY <2>1, <2>2, <2>3, <2>4 DEF Simulates
  <1>7. <<n1, n2>> \in R
    BY <1>3, <1>6, Simulation
  <1>8. g1[n1] = g2[n2]
    BY <1>3, <1>4, <1>7
  <1> QED  BY <1>1, <1>2, <1>8 DEF Walk

LEMMA SetToSeqCovers ==
    ASSUME NEW s \in Seq(Log)
    PROVE  SetToSeq(ToSet(s)) \in Seq(Log) /\ ToSet(SetToSeq(ToSet(s))) = ToSet(s)
  <1> DEFINE S == ToSet(s)
             N == Cardinality(S)
             q == SetToSeq(S)
  <1>1. IsFiniteSet(S) /\ S \subseteq Log
    <2>1. s \in [1..Len(s) -> S] /\ \A e \in S : \E i \in 1..Len(s) : s[i] = e
      BY DEF ToSet
    <2>2. s \in Surjection(1..Len(s), S)
      BY <2>1 DEF Surjection
    <2>3. IsFiniteSet(1..Len(s))
      BY FS_Interval
    <2> QED  BY <2>2, <2>3, FS_Surjection DEF ToSet
  <1> HIDE DEF S
  <1>2. N \in Nat /\ IsFiniteSet(1..N) /\ Cardinality(1..N) = N
    BY <1>1, FS_CardinalityType, FS_Interval
  <1>3. \E f \in [1..N -> S] : IsInjective(f)
    <2>1. ExistsBijection(1..N, S)
      BY <1>1, <1>2, FS_SameCardinalityBij
    <2> QED  BY <2>1 DEF ExistsBijection, Bijection, Injection
  <1>4. q \in [1..N -> S] /\ IsInjective(q)
    BY <1>3 DEF SetToSeq
  <1> HIDE DEF q
  <1>5. q \in Surjection(1..N, S)
    <2>1. q \in Injection(1..N, S)
      BY <1>4 DEF Injection
    <2> QED  BY <1>1, <1>2, <2>1, FS_Injection
  <1>6. q \in Seq(Log) /\ DOMAIN q = 1..N
    BY <1>1, <1>2, <1>4
  <1>7. ToSet(q) = S
    BY <1>4, <1>5, <1>6 DEF ToSet, Surjection
  <1> QED  BY <1>6, <1>7 DEF q, S

-----------------------------------------------------------------------------
(***************************************************************************)
(* What an event does to one run and to the current run of its session     *)
(* depends on that run and the current run alone.                          *)
(***************************************************************************)
tokenRun(e, cur) == IF cur = NoRun \/ (e.run # NoRun /\ cur # e.run) THEN e.run ELSE cur
terminalRun(e, cur) == IF e.run # NoRun THEN e.run ELSE cur

withTokens(e, run) == [run EXCEPT !.tokens = e.tokens]

runAfter(e, r, cur, run) ==
    CASE e.kind \in StartKinds ->
            IF r = cur /\ cur # e.run
            THEN closeInferredRun(run, e.at, "superseded", "new_run") ELSE run
      [] e.kind = "token_usage" ->
            IF r = tokenRun(e, cur) THEN touch(withTokens(e, run), e.at) ELSE run
      [] e.kind \in TerminalKinds ->
            IF r = terminalRun(e, cur) /\ correctable(run)
            THEN closeRun(run, e.at, terminalStatus(e.kind), terminalReason(e.kind)) ELSE run
      [] e.kind = "session_closed" ->
            IF r = cur THEN closeInferredRun(run, e.at, "interrupted", "session_closed") ELSE run
      [] OTHER -> IF r = cur THEN touch(run, e.at) ELSE run

currentAfter(e, cur) ==
    CASE e.kind \in StartKinds -> IF e.run = NoRun THEN cur ELSE e.run
      [] e.kind \in TerminalKinds -> IF cur = terminalRun(e, cur) THEN NoRun ELSE cur
      [] e.kind = "session_closed" -> NoRun
      [] OTHER -> cur

startedBy(e) == IF e.kind \in StartKinds /\ e.run # NoRun THEN {e.run} ELSE {}

Maps(st) ==
    /\ st = [runs |-> st.runs, active |-> st.active]
    /\ st.runs = [r \in DOMAIN st.runs |-> st.runs[r]]
    /\ st.active = [s \in Sessions |-> st.active[s]]

\* Two maps, with the current runs in the first.
Plain(st) ==
    /\ Maps(st)
    /\ DOMAIN st.runs \subseteq RunIDs
    /\ st.runs \in [DOMAIN st.runs -> Run]
    /\ st.active \in [Sessions -> RunIDs \cup {NoRun}]
    /\ \A s \in Sessions : st.active[s] # NoRun => st.active[s] \in DOMAIN st.runs

\* The runs and current runs of n are those of st after the event e.
Follows(st, n, e) ==
    /\ \A s \in Sessions :
           n.active[s] = IF s = e.session THEN currentAfter(e, st.active[s]) ELSE st.active[s]
    /\ DOMAIN n.runs = DOMAIN st.runs \cup startedBy(e)
    /\ \A r \in DOMAIN st.runs : n.runs[r] = runAfter(e, r, st.active[e.session], st.runs[r])
    /\ \A r \in startedBy(e) : r \notin DOMAIN st.runs => n.runs[r] = newRun(e)

LEMMA KindsAreApart ==
    /\ \A k \in StartKinds : k # "token_usage" /\ k \notin TerminalKinds /\ k # "session_closed"
    /\ \A k \in TerminalKinds : k # "token_usage" /\ k \notin StartKinds /\ k # "session_closed"
  BY DEF StartKinds, TerminalKinds

LEMMA RunAfterFacts ==
    ASSUME NEW e \in LogEvent, NEW r, NEW cur, NEW run \in Run
    PROVE  /\ runAfter(e, r, cur, run) \in Run
           /\ runAfter(e, r, cur, run).session = run.session
           /\ runAfter(e, r, cur, run).started = run.started
           /\ r # cur /\ r # e.run => runAfter(e, r, cur, run) = run
  <1>1. /\ e.at \in Nat /\ e.tokens \in Nat /\ run.last \in Nat /\ run.started \in Nat
        /\ Grace \in Nat /\ run.last + Grace \in Nat
    BY ProjectorAssumption DEF LogEvent, Run
  <1>2. ASSUME NEW at \in Nat, NEW status \in RunStatuses, NEW reason \in Reasons
        PROVE  LET c == closeRun(run, at, status, reason)
               IN  c \in Run /\ c.session = run.session /\ c.started = run.started
    <2> DEFINE end == IF at < run.started THEN run.started ELSE at
    <2>1. end \in Nat
      BY <1>1
    <2>2. closeRun(run, at, status, reason) =
              [run EXCEPT !.ended = end, !.last = end, !.status = status, !.reason = reason]
      BY DEF closeRun
    <2> HIDE DEF end
    <2> QED  BY <2>1, <2>2 DEF Run
  <1>3. ASSUME NEW status \in RunStatuses, NEW reason \in Reasons
        PROVE  LET c == closeInferredRun(run, e.at, status, reason)
               IN  c \in Run /\ c.session = run.session /\ c.started = run.started
    <2> DEFINE at == IF run.last + Grace < e.at THEN run.last + Grace ELSE e.at
    <2>1. at \in Nat /\ closeInferredRun(run, e.at, status, reason) = closeRun(run, at, status, reason)
      BY <1>1 DEF closeInferredRun
    <2> HIDE DEF at
    <2> QED  BY <1>2, <2>1
  <1>4. ASSUME NEW u \in Run
        PROVE  touch(u, e.at) \in Run /\ touch(u, e.at).session = u.session
               /\ touch(u, e.at).started = u.started
    BY <1>1 DEF touch, Run
  <1>5. /\ withTokens(e, run) \in Run /\ withTokens(e, run).session = run.session
        /\ withTokens(e, run).started = run.started
    BY <1>1 DEF Run, withTokens
  <1>6. CASE e.kind \in StartKinds
    <2>1. runAfter(e, r, cur, run) = IF r = cur /\ cur # e.run
              THEN closeInferredRun(run, e.at, "superseded", "new_run") ELSE run
      BY <1>6, KindsAreApart DEF runAfter
    <2>2. "superseded" \in RunStatuses /\ "new_run" \in Reasons
      BY DEF RunStatuses, Reasons
    <2> QED  BY <1>3, <2>1, <2>2
  <1>7. CASE e.kind = "token_usage"
    <2>1. runAfter(e, r, cur, run) =
              IF r = tokenRun(e, cur) THEN touch(withTokens(e, run), e.at) ELSE run
      BY <1>7, KindsAreApart DEF runAfter
    <2>2. r # cur /\ r # e.run => r # tokenRun(e, cur)
      BY DEF tokenRun
    <2> QED  BY <1>4, <1>5, <2>1, <2>2
  <1>8. CASE e.kind \in TerminalKinds
    <2>1. runAfter(e, r, cur, run) =
              IF r = terminalRun(e, cur) /\ correctable(run)
              THEN closeRun(run, e.at, terminalStatus(e.kind), terminalReason(e.kind)) ELSE run
      BY <1>8, KindsAreApart DEF runAfter
    <2>2. r # cur /\ r # e.run => r # terminalRun(e, cur)
      BY DEF terminalRun
    <2>3. terminalStatus(e.kind) \in RunStatuses /\ terminalReason(e.kind) \in Reasons
      BY DEF terminalStatus, terminalReason, RunStatuses, Reasons
    <2> QED  BY <1>1, <1>2, <2>1, <2>2, <2>3
  <1>9. CASE e.kind = "session_closed"
    <2>1. runAfter(e, r, cur, run) =
              IF r = cur THEN closeInferredRun(run, e.at, "interrupted", "session_closed") ELSE run
      BY <1>9, KindsAreApart DEF runAfter
    <2>2. "interrupted" \in RunStatuses /\ "session_closed" \in Reasons
      BY DEF RunStatuses, Reasons
    <2> QED  BY <1>3, <2>1, <2>2
  <1>10. CASE /\ e.kind \notin StartKinds /\ e.kind # "token_usage"
              /\ e.kind \notin TerminalKinds /\ e.kind # "session_closed"
    <2>1. runAfter(e, r, cur, run) = IF r = cur THEN touch(run, e.at) ELSE run
      BY <1>10 DEF runAfter
    <2> QED  BY <1>4, <2>1
  <1> QED  BY <1>6, <1>7, <1>8, <1>9, <1>10

\* SetRun and SetActive change one run, and one entry of active.
LEMMA SetRunFacts ==
    ASSUME NEW st, Maps(st), NEW r \in DOMAIN st.runs, NEW run
    PROVE  LET n == SetRun(st, r, run)
           IN  /\ Maps(n) /\ DOMAIN n.runs = DOMAIN st.runs /\ n.active = st.active
               /\ \A x \in DOMAIN st.runs : n.runs[x] = IF x = r THEN run ELSE st.runs[x]
  <1> DEFINE n == SetRun(st, r, run)
  <1>1. /\ n = [runs |-> n.runs, active |-> n.active]
        /\ n.runs = [st.runs EXCEPT ![r] = run] /\ n.active = st.active
    BY DEF SetRun, Maps
  <1> HIDE DEF n
  <1>2. /\ DOMAIN n.runs = DOMAIN st.runs
        /\ n.runs = [x \in DOMAIN n.runs |-> n.runs[x]]
        /\ \A x \in DOMAIN st.runs : n.runs[x] = IF x = r THEN run ELSE st.runs[x]
    BY <1>1 DEF Maps
  <1> QED  BY <1>1, <1>2 DEF n, Maps

LEMMA SetCurrentFacts ==
    ASSUME NEW st, Maps(st), NEW s \in Sessions, NEW r
    PROVE  LET n == SetActive(st, s, r)
           IN  /\ Maps(n) /\ n.runs = st.runs
               /\ \A x \in Sessions : n.active[x] = IF x = s THEN r ELSE st.active[x]
  <1> DEFINE n == SetActive(st, s, r)
  <1>1. /\ n = [runs |-> n.runs, active |-> n.active]
        /\ n.runs = st.runs /\ n.active = [st.active EXCEPT ![s] = r]
    BY DEF SetActive, Maps
  <1> HIDE DEF n
  <1>2. /\ n.active = [x \in Sessions |-> n.active[x]]
        /\ \A x \in Sessions : n.active[x] = IF x = s THEN r ELSE st.active[x]
    BY <1>1 DEF Maps
  <1> QED  BY <1>1, <1>2 DEF n, Maps

\* What follows for the state when the cases of Follows hold.
LEMMA FollowsPlain ==
    ASSUME NEW st, Plain(st), NEW e \in LogEvent, NEW n, Follows(st, n, e), Maps(n)
    PROVE  Plain(n)
  <1> DEFINE cur == st.active[e.session]
  <1>1. e.session \in Sessions /\ e.run \in RunIDs \cup {NoRun} /\ e.at \in Nat
    BY DEF LogEvent
  <1>2. startedBy(e) \subseteq RunIDs /\ newRun(e) \in Run
    BY <1>1 DEF startedBy, newRun, Run, RunStatuses, Reasons
  <1>3. \A r \in DOMAIN n.runs : n.runs[r] \in Run
    <2>1. \A r \in DOMAIN st.runs : st.runs[r] \in Run
      BY DEF Plain
    <2> QED  BY <1>2, <2>1, RunAfterFacts DEF Follows
  <1>4. /\ cur \in RunIDs \cup {NoRun} /\ cur # NoRun => cur \in DOMAIN st.runs
        /\ \A s \in Sessions : /\ st.active[s] \in RunIDs \cup {NoRun}
                               /\ st.active[s] # NoRun => st.active[s] \in DOMAIN st.runs
    BY <1>1 DEF Plain
  <1>5. \/ currentAfter(e, cur) = NoRun \/ currentAfter(e, cur) = cur
        \/ currentAfter(e, cur) = e.run /\ e.run \in startedBy(e)
    BY KindsAreApart DEF currentAfter, startedBy
  <1>6. \A s \in Sessions : n.active[s] = NoRun \/ n.active[s] \in DOMAIN n.runs
    BY <1>4, <1>5 DEF Follows
  <1>7. DOMAIN n.runs \subseteq RunIDs
    BY <1>2 DEF Follows, Plain
  <1>8. n.active \in [Sessions -> RunIDs \cup {NoRun}]
    BY <1>6, <1>7 DEF Maps
  <1>9. n.runs \in [DOMAIN n.runs -> Run]
    BY <1>3 DEF Maps
  <1> QED  BY <1>6, <1>7, <1>8, <1>9 DEF Plain

LEMMA CurrentFacts ==
    ASSUME NEW st, Plain(st), NEW e \in LogEvent
    PROVE  /\ e.session \in Sessions /\ st.active[e.session] \in RunIDs \cup {NoRun}
           /\ st.active[e.session] # NoRun => st.active[e.session] \in DOMAIN st.runs
           /\ \A r \in DOMAIN st.runs : r # NoRun
           /\ Maps(st)
  BY ProjectorAssumption DEF LogEvent, Plain

LEMMA StartFollows ==
    ASSUME NEW st, Plain(st), NEW e \in LogEvent, e.kind \in StartKinds
    PROVE  LET n == applyStart(st, e) IN Follows(st, n, e) /\ Maps(n)
  <1> DEFINE cur == st.active[e.session]
             c == closeInferredRun(st.runs[cur], e.at, "superseded", "new_run")
             n == supersedeCurrent(st, e)
             a == IF e.run \in DOMAIN n.runs THEN n
                  ELSE [n EXCEPT !.runs = AddRun(@, e.run, newRun(e))]
             m == SetActive(a, e.session, e.run)
  <1>1. /\ e.session \in Sessions /\ (cur # NoRun => cur \in DOMAIN st.runs)
        /\ Maps(st) /\ \A r \in DOMAIN st.runs : r # NoRun
    BY CurrentFacts
  <1>2. /\ \A r \in DOMAIN st.runs :
               runAfter(e, r, cur, st.runs[r]) =
                   IF r = cur /\ cur # e.run
                   THEN closeInferredRun(st.runs[r], e.at, "superseded", "new_run") ELSE st.runs[r]
        /\ currentAfter(e, cur) = IF e.run = NoRun THEN cur ELSE e.run
        /\ startedBy(e) = IF e.run = NoRun THEN {} ELSE {e.run}
    BY KindsAreApart DEF runAfter, currentAfter, startedBy
  <1>3. /\ Maps(n) /\ DOMAIN n.runs = DOMAIN st.runs /\ n.active = st.active
        /\ \A r \in DOMAIN st.runs : n.runs[r] = runAfter(e, r, cur, st.runs[r])
    <2>1. CASE cur # NoRun /\ cur # e.run
      <3>1. n = SetRun(st, cur, c)
        BY <2>1 DEF supersedeCurrent
      <3>2. c = closeInferredRun(st.runs[cur], e.at, "superseded", "new_run")
        OBVIOUS
      <3> HIDE DEF c, n
      <3>3. /\ Maps(n) /\ DOMAIN n.runs = DOMAIN st.runs /\ n.active = st.active
            /\ \A x \in DOMAIN st.runs : n.runs[x] = IF x = cur THEN c ELSE st.runs[x]
        BY <1>1, <2>1, <3>1, SetRunFacts
      <3> QED  BY <1>2, <2>1, <3>2, <3>3
    <2>2. CASE ~(cur # NoRun /\ cur # e.run)
      <3>1. n = st
        BY <2>2 DEF supersedeCurrent
      <3> QED  BY <1>1, <1>2, <2>2, <3>1
    <2> QED  BY <2>1, <2>2
  <1>4. applyStart(st, e) = IF e.run = NoRun THEN n ELSE m
    BY DEF applyStart
  <1> HIDE DEF n
  <1>5. CASE e.run = NoRun
    BY <1>1, <1>2, <1>3, <1>4, <1>5 DEF Follows
  <1>6. CASE e.run # NoRun
    <2>1. /\ Maps(a) /\ a.active = n.active
          /\ DOMAIN a.runs = DOMAIN n.runs \cup {e.run}
          /\ \A x \in DOMAIN n.runs : a.runs[x] = n.runs[x]
          /\ e.run \notin DOMAIN n.runs => a.runs[e.run] = newRun(e)
      <3>1. CASE e.run \in DOMAIN n.runs
        BY <1>3, <3>1
      <3>2. CASE e.run \notin DOMAIN n.runs
        <4>1. /\ a.runs = AddRun(n.runs, e.run, newRun(e)) /\ a.active = n.active
              /\ a = [runs |-> a.runs, active |-> a.active]
          BY <1>3, <3>2 DEF Maps
        <4> HIDE DEF a
        <4> QED  BY <1>3, <3>2, <4>1 DEF AddRun, Maps
      <3> QED  BY <3>1, <3>2
    <2> HIDE DEF a
    <2>2. /\ Maps(m) /\ m.runs = a.runs
          /\ \A x \in Sessions : m.active[x] = IF x = e.session THEN e.run ELSE a.active[x]
      BY <1>1, <2>1, SetCurrentFacts
    <2> HIDE DEF m
    <2> QED  BY <1>1, <1>2, <1>3, <1>4, <1>6, <2>1, <2>2 DEF Follows
  <1> QED  BY <1>5, <1>6

LEMMA TokenUsageFollows ==
    ASSUME NEW st, Plain(st), NEW e \in LogEvent, e.kind = "token_usage"
    PROVE  LET n == applyTokenUsage(st, e) IN Follows(st, n, e) /\ Maps(n)
  <1> DEFINE cur == st.active[e.session]
             r == tokenTarget(st, e)
             t == touch(withTokens(e, st.runs[r]), e.at)
             n == SetRun(st, r, t)
  <1>1. Maps(st) /\ r = tokenRun(e, cur)
    BY CurrentFacts DEF tokenTarget, tokenRun
  <1>2. /\ \A x \in DOMAIN st.runs :
               runAfter(e, x, cur, st.runs[x]) =
                   IF x = tokenRun(e, cur) THEN touch(withTokens(e, st.runs[x]), e.at) ELSE st.runs[x]
        /\ currentAfter(e, cur) = cur /\ startedBy(e) = {}
    BY KindsAreApart DEF runAfter, currentAfter, startedBy
  <1>3. applyTokenUsage(st, e) = IF r \in DOMAIN st.runs THEN n ELSE st
    BY DEF applyTokenUsage, withTokens
  <1>4. CASE r \notin DOMAIN st.runs
    BY <1>1, <1>2, <1>3, <1>4 DEF Follows
  <1>5. CASE r \in DOMAIN st.runs
    <2>1. t = touch(withTokens(e, st.runs[r]), e.at)
      OBVIOUS
    <2> HIDE DEF r, t
    <2>2. /\ Maps(n) /\ DOMAIN n.runs = DOMAIN st.runs /\ n.active = st.active
          /\ \A x \in DOMAIN st.runs : n.runs[x] = IF x = r THEN t ELSE st.runs[x]
      BY <1>1, <1>5, SetRunFacts
    <2> HIDE DEF n
    <2> QED  BY <1>1, <1>2, <1>3, <1>5, <2>1, <2>2 DEF Follows
  <1> QED  BY <1>4, <1>5

LEMMA ActivityFollows ==
    ASSUME NEW st, Plain(st), NEW e \in LogEvent, e.kind \notin StartKinds, e.kind # "token_usage",
           e.kind \notin TerminalKinds, e.kind # "session_closed"
    PROVE  LET n == applyActivity(st, e) IN Follows(st, n, e) /\ Maps(n)
  <1> DEFINE cur == st.active[e.session]
             t == touch(st.runs[cur], e.at)
             n == SetRun(st, cur, t)
  <1>1. Maps(st) /\ (cur # NoRun => cur \in DOMAIN st.runs) /\ NoRun \notin DOMAIN st.runs
    BY CurrentFacts
  <1>2. /\ \A x \in DOMAIN st.runs :
               runAfter(e, x, cur, st.runs[x]) =
                   IF x = cur THEN touch(st.runs[x], e.at) ELSE st.runs[x]
        /\ currentAfter(e, cur) = cur /\ startedBy(e) = {}
    BY DEF runAfter, currentAfter, startedBy
  <1>3. applyActivity(st, e) = IF cur = NoRun THEN st ELSE n
    BY DEF applyActivity
  <1>4. CASE cur = NoRun
    BY <1>1, <1>2, <1>3, <1>4 DEF Follows
  <1>5. CASE cur # NoRun
    <2>1. t = touch(st.runs[cur], e.at)
      OBVIOUS
    <2> HIDE DEF t
    <2>2. /\ Maps(n) /\ DOMAIN n.runs = DOMAIN st.runs /\ n.active = st.active
          /\ \A x \in DOMAIN st.runs : n.runs[x] = IF x = cur THEN t ELSE st.runs[x]
      BY <1>1, <1>5, SetRunFacts
    <2> HIDE DEF n
    <2> QED  BY <1>1, <1>2, <1>3, <1>5, <2>1, <2>2 DEF Follows
  <1> QED  BY <1>4, <1>5

LEMMA SessionClosedFollows ==
    ASSUME NEW st, Plain(st), NEW e \in LogEvent, e.kind = "session_closed"
    PROVE  LET n == applySessionClosed(st, e) IN Follows(st, n, e) /\ Maps(n)
  <1> DEFINE cur == st.active[e.session]
             c == closeInferredRun(st.runs[cur], e.at, "interrupted", "session_closed")
             n == SetRun(st, cur, c)
             m == SetActive(n, e.session, NoRun)
  <1>1. /\ Maps(st) /\ (cur # NoRun => cur \in DOMAIN st.runs) /\ NoRun \notin DOMAIN st.runs
        /\ e.session \in Sessions
    BY CurrentFacts
  <1>2. /\ \A x \in DOMAIN st.runs :
               runAfter(e, x, cur, st.runs[x]) =
                   IF x = cur THEN closeInferredRun(st.runs[x], e.at, "interrupted", "session_closed")
                   ELSE st.runs[x]
        /\ currentAfter(e, cur) = NoRun /\ startedBy(e) = {}
    BY KindsAreApart DEF runAfter, currentAfter, startedBy
  <1>3. applySessionClosed(st, e) = IF cur = NoRun THEN st ELSE m
    BY DEF applySessionClosed
  <1>4. CASE cur = NoRun
    BY <1>1, <1>2, <1>3, <1>4 DEF Follows
  <1>5. CASE cur # NoRun
    <2>1. c = closeInferredRun(st.runs[cur], e.at, "interrupted", "session_closed")
      OBVIOUS
    <2> HIDE DEF c
    <2>2. /\ Maps(n) /\ DOMAIN n.runs = DOMAIN st.runs /\ n.active = st.active
          /\ \A x \in DOMAIN st.runs : n.runs[x] = IF x = cur THEN c ELSE st.runs[x]
      BY <1>1, <1>5, SetRunFacts
    <2> HIDE DEF n
    <2>3. /\ Maps(m) /\ m.runs = n.runs
          /\ \A x \in Sessions : m.active[x] = IF x = e.session THEN NoRun ELSE n.active[x]
      BY <1>1, <2>2, SetCurrentFacts
    <2> HIDE DEF m
    <2> QED  BY <1>1, <1>2, <1>3, <1>5, <2>1, <2>2, <2>3 DEF Follows
  <1> QED  BY <1>4, <1>5

LEMMA TerminalFollows ==
    ASSUME NEW st, Plain(st), NEW e \in LogEvent, e.kind \in TerminalKinds
    PROVE  LET n == closeMatching(st, e) IN Follows(st, n, e) /\ Maps(n)
  <1> DEFINE cur == st.active[e.session]
             r == terminalRun(e, cur)
             c == closeRun(st.runs[r], e.at, terminalStatus(e.kind), terminalReason(e.kind))
             n == IF correctable(st.runs[r]) THEN SetRun(st, r, c) ELSE st
             m == SetActive(n, e.session, NoRun)
  <1>1. /\ Maps(st) /\ (cur # NoRun => cur \in DOMAIN st.runs) /\ NoRun \notin DOMAIN st.runs
        /\ e.session \in Sessions
    BY CurrentFacts
  <1>2. /\ \A x \in DOMAIN st.runs :
               runAfter(e, x, cur, st.runs[x]) =
                   IF x = terminalRun(e, cur) /\ correctable(st.runs[x])
                   THEN closeRun(st.runs[x], e.at, terminalStatus(e.kind), terminalReason(e.kind))
                   ELSE st.runs[x]
        /\ currentAfter(e, cur) = IF cur = r THEN NoRun ELSE cur
        /\ startedBy(e) = {}
    BY KindsAreApart DEF runAfter, currentAfter, startedBy
  <1>3. closeMatching(st, e) = IF r \notin DOMAIN st.runs THEN st ELSE IF cur = r THEN m ELSE n
    BY DEF closeMatching, terminalRun
  <1>4. r = terminalRun(e, cur)
    OBVIOUS
  <1> HIDE DEF r
  <1>5. CASE r \notin DOMAIN st.runs
    BY <1>1, <1>2, <1>3, <1>4, <1>5 DEF Follows
  <1>6. CASE r \in DOMAIN st.runs
    <2>1. c = closeRun(st.runs[r], e.at, terminalStatus(e.kind), terminalReason(e.kind))
      OBVIOUS
    <2> HIDE DEF c
    <2>2. /\ Maps(n) /\ DOMAIN n.runs = DOMAIN st.runs /\ n.active = st.active
          /\ \A x \in DOMAIN st.runs :
                 n.runs[x] = IF x = r /\ correctable(st.runs[r]) THEN c ELSE st.runs[x]
      BY <1>1, <1>6, SetRunFacts
    <2> HIDE DEF n
    <2>3. /\ Maps(m) /\ m.runs = n.runs
          /\ \A x \in Sessions : m.active[x] = IF x = e.session THEN NoRun ELSE n.active[x]
      BY <1>1, <2>2, SetCurrentFacts
    <2> HIDE DEF m
    <2>4. /\ DOMAIN n.runs = DOMAIN st.runs \cup startedBy(e)
          /\ \A x \in DOMAIN st.runs : n.runs[x] = runAfter(e, x, cur, st.runs[x])
          /\ \A x \in startedBy(e) : x \notin DOMAIN st.runs => n.runs[x] = newRun(e)
      BY <1>2, <1>4, <2>1, <2>2
    <2>5. CASE cur = r
      <3>1. closeMatching(st, e) = m
        BY <1>3, <1>6, <2>5
      <3>2. \A s \in Sessions :
               m.active[s] = IF s = e.session THEN currentAfter(e, st.active[s]) ELSE st.active[s]
        BY <1>2, <2>2, <2>3, <2>5
      <3> QED  BY <2>3, <2>4, <3>1, <3>2 DEF Follows
    <2>6. CASE cur # r
      <3>1. closeMatching(st, e) = n
        BY <1>3, <1>6, <2>6
      <3>2. \A s \in Sessions :
               n.active[s] = IF s = e.session THEN currentAfter(e, st.active[s]) ELSE st.active[s]
        BY <1>2, <2>2, <2>6
      <3> QED  BY <2>2, <2>4, <3>1, <3>2 DEF Follows
    <2> QED  BY <2>5, <2>6
  <1> QED  BY <1>5, <1>6

LEMMA EventFollows ==
    ASSUME NEW st, Plain(st), NEW e \in LogEvent
    PROVE  Follows(st, applyEvent(st, e), e) /\ Plain(applyEvent(st, e))
  <1> DEFINE n == applyEvent(st, e)
  <1>1. Follows(st, n, e) /\ Maps(n)
    <2>1. CASE e.kind \in StartKinds
      BY <2>1, KindsAreApart, StartFollows DEF applyEvent
    <2>2. CASE e.kind = "token_usage"
      BY <2>2, KindsAreApart, TokenUsageFollows DEF applyEvent
    <2>3. CASE e.kind \in TerminalKinds
      BY <2>3, KindsAreApart, TerminalFollows DEF applyEvent
    <2>4. CASE e.kind = "session_closed"
      BY <2>4, KindsAreApart, SessionClosedFollows DEF applyEvent
    <2>5. CASE /\ e.kind \notin StartKinds /\ e.kind # "token_usage"
               /\ e.kind \notin TerminalKinds /\ e.kind # "session_closed"
      BY <2>5, ActivityFollows DEF applyEvent
    <2> QED  BY <2>1, <2>2, <2>3, <2>4, <2>5
  <1> HIDE DEF n
  <1> QED  BY <1>1, FollowsPlain DEF n

-----------------------------------------------------------------------------
\* st is a state after k turns over t: each run was started by one of the events,
\* in its own session.
StartedBy(t, k, r, run) ==
    \E l \in 1..k : t[l].run = r /\ t[l].session = run.session /\ t[l].at = run.started

Known(t, k, st) ==
    /\ Plain(st)
    /\ \A r \in DOMAIN st.runs : StartedBy(t, k, r, st.runs[r])
    /\ \A s \in Sessions : st.active[s] # NoRun => st.runs[st.active[s]].session = s

\* The runs an event may change are those of its session.
LEMMA OwnRuns ==
    ASSUME NEW n \in Nat, NEW t \in [1..n -> Log], NEW k \in 0..n, NEW st, Known(t, k, st), NEW e \in Log,
           NEW r \in DOMAIN st.runs, r = e.run \/ r = st.active[e.session]
    PROVE  st.runs[r].session = e.session
  <1>1. e.session \in Sessions /\ e \in LogEvent
    BY ArrivalAssumption DEF LogEvent
  <1>2. r # NoRun
    BY <1>1, CurrentFacts DEF Known
  <1>3. CASE r = st.active[e.session]
    BY <1>1, <1>2, <1>3 DEF Known
  <1>4. CASE r = e.run
    <2>1. PICK l \in 1..k : t[l].run = r /\ t[l].session = st.runs[r].session
      BY DEF Known, StartedBy
    <2>2. t[l] \in Log
      OBVIOUS
    <2> QED  BY <1>2, <1>4, <2>1, <2>2, ArrivalAssumption
  <1> QED  BY <1>3, <1>4

LEMMA KnownStep ==
    ASSUME NEW n \in Nat, NEW t \in [1..n -> Log], NEW k \in 1..n, NEW st, Known(t, k - 1, st),
           NEW u, u = applyEvent(st, t[k])
    PROVE  Known(t, k, u)
  <1> DEFINE e == t[k]
             cur == st.active[e.session]
  <1>1. e \in Log /\ e \in LogEvent /\ Plain(st) /\ k - 1 \in 0..n /\ e.session \in Sessions
    BY ArrivalAssumption DEF LogEvent, Known
  <1>2. e = t[k]
    OBVIOUS
  <1> HIDE DEF e
  <1>3. Follows(st, u, e) /\ Plain(u)
    BY <1>1, <1>2, EventFollows
  <1>4. \A r \in DOMAIN st.runs :
            r \in DOMAIN u.runs /\ u.runs[r].session = st.runs[r].session
            /\ u.runs[r].started = st.runs[r].started
    <2>1. \A r \in DOMAIN st.runs : st.runs[r] \in Run
      BY <1>1 DEF Plain
    <2> QED  BY <1>1, <1>3, <2>1, RunAfterFacts DEF Follows
  <1>5. \A r \in DOMAIN u.runs : StartedBy(t, k, r, u.runs[r])
    <2> SUFFICES ASSUME NEW r \in DOMAIN u.runs PROVE StartedBy(t, k, r, u.runs[r])
      OBVIOUS
    <2>1. CASE r \in DOMAIN st.runs
      <3>1. PICK l \in 1..(k - 1) : /\ t[l].run = r /\ t[l].session = st.runs[r].session
                                    /\ t[l].at = st.runs[r].started
        BY <2>1 DEF Known, StartedBy
      <3>2. l \in 1..k
        OBVIOUS
      <3> QED  BY <1>4, <2>1, <3>1, <3>2 DEF StartedBy
    <2>2. CASE r \notin DOMAIN st.runs
      <3>1. r = e.run /\ u.runs[r] = newRun(e)
        BY <1>3, <2>2 DEF Follows, startedBy
      <3>2. k \in 1..k
        OBVIOUS
      <3> QED  BY <1>2, <3>1, <3>2 DEF StartedBy, newRun
    <2> QED  BY <2>1, <2>2
  <1>6. \A s \in Sessions : u.active[s] # NoRun => u.runs[u.active[s]].session = s
    <2> SUFFICES ASSUME NEW s \in Sessions, u.active[s] # NoRun PROVE u.runs[u.active[s]].session = s
      OBVIOUS
    <2>1. \/ u.active[s] = st.active[s]
          \/ s = e.session /\ u.active[s] = e.run
      BY <1>3, KindsAreApart DEF Follows, currentAfter
    <2>2. u.active[s] \in DOMAIN u.runs
      BY <1>3 DEF Plain
    <2>3. CASE u.active[s] = st.active[s]
      <3>1. st.active[s] \in DOMAIN st.runs /\ st.runs[st.active[s]].session = s
        BY <2>3 DEF Known, Plain
      <3> QED  BY <1>4, <2>3, <3>1
    <2>4. CASE s = e.session /\ u.active[s] = e.run
      <3>1. CASE e.run \in DOMAIN st.runs
        <4>1. st.runs[e.run].session = e.session
          BY <1>1, <3>1, OwnRuns
        <4> QED  BY <1>4, <2>4, <3>1, <4>1
      <3>2. CASE e.run \notin DOMAIN st.runs
        <4>1. u.runs[e.run] = newRun(e)
          BY <1>3, <2>2, <2>4, <3>2 DEF Follows
        <4> QED  BY <2>4, <4>1 DEF newRun
      <3> QED  BY <3>1, <3>2
    <2> QED  BY <2>1, <2>3, <2>4
  <1> QED  BY <1>3, <1>5, <1>6 DEF Known

LEMMA WalkKnown ==
    ASSUME NEW s, NEW n, NEW t, NEW F, NEW g, Walk(s, n, t, F, g)
    PROVE  \A k \in 0..n : Known(t, k, g[k])
  <1> DEFINE T == {k \in 0..n : Known(t, k, g[k])}
  <1>1. n \in Nat /\ t \in [1..n -> Log] /\ F \in SUBSET (1..n) /\ g[0] = EmptyState
        /\ \A k \in 1..n : g[k] = IF k \in F THEN applyEvent(g[k - 1], t[k]) ELSE g[k - 1]
    BY DEF Walk
  <1>2. 0 \in T
    BY <1>1 DEF Known, Plain, Maps, EmptyState
  <1>3. ASSUME NEW k \in 0..n, k < n, k \in T PROVE k + 1 \in T
    <2>1. k + 1 \in 1..n /\ (k + 1) - 1 = k /\ k + 1 \in 0..n
      BY <1>1, <1>3
    <2>2. CASE k + 1 \in F
      <3>1. g[k + 1] = applyEvent(g[k], t[k + 1])
        BY <1>1, <2>1, <2>2
      <3>2. Known(t, (k + 1) - 1, g[k])
        BY <1>3, <2>1
      <3> QED  BY <1>1, <2>1, <3>1, <3>2, KnownStep
    <2>3. CASE k + 1 \notin F
      <3>1. g[k + 1] = g[k] /\ Known(t, k, g[k])
        BY <1>1, <1>3, <2>1, <2>3
      <3>2. \A l \in 1..k : l \in 1..(k + 1)
        OBVIOUS
      <3> QED  BY <2>1, <3>1, <3>2 DEF Known, StartedBy
    <2> QED  BY <2>2, <2>3
  <1> HIDE DEF T
  <1>4. \A k \in 0..n : k \in T
    BY <1>1, <1>2, <1>3, UpTo
  <1> QED  BY <1>4 DEF T

-----------------------------------------------------------------------------
\* b holds what a knows of session s.
SameSession(a, b, s) ==
    /\ a.active[s] = b.active[s]
    /\ \A r \in DOMAIN b.runs :
           r \in DOMAIN a.runs /\ a.runs[r].session = s /\ b.runs[r] = a.runs[r]
    /\ \A r \in DOMAIN a.runs : a.runs[r].session = s => r \in DOMAIN b.runs

LEMMA ForeignEvent ==
    ASSUME NEW n \in Nat, NEW t \in [1..n -> Log], NEW k \in 0..n, NEW a, Known(t, k, a),
           NEW s \in Sessions, NEW b, SameSession(a, b, s), NEW e \in Log, e.session # s
    PROVE  SameSession(applyEvent(a, e), b, s)
  <1> DEFINE u == applyEvent(a, e)
             cur == a.active[e.session]
  <1>1. e \in LogEvent /\ Plain(a)
    BY ArrivalAssumption DEF Known
  <1>2. Follows(a, u, e)
    BY <1>1, EventFollows
  <1> HIDE DEF u
  <1>3. \A r \in DOMAIN a.runs : u.runs[r].session = a.runs[r].session
    <2>1. \A r \in DOMAIN a.runs : a.runs[r] \in Run
      BY <1>1 DEF Plain
    <2> QED  BY <1>1, <1>2, <2>1, RunAfterFacts DEF Follows
  <1>4. \A r \in DOMAIN a.runs : a.runs[r].session = s => u.runs[r] = a.runs[r]
    <2> SUFFICES ASSUME NEW r \in DOMAIN a.runs, a.runs[r].session = s PROVE u.runs[r] = a.runs[r]
      OBVIOUS
    <2>1. r # e.run /\ r # cur /\ a.runs[r] \in Run
      BY <1>1, OwnRuns DEF Plain
    <2> QED  BY <1>1, <1>2, <2>1, RunAfterFacts DEF Follows
  <1>5. \A r \in DOMAIN u.runs : r \notin DOMAIN a.runs => u.runs[r].session # s
    BY <1>2 DEF Follows, startedBy, newRun
  <1>6. u.active[s] = a.active[s] /\ DOMAIN a.runs \subseteq DOMAIN u.runs
    BY <1>2 DEF Follows
  <1>7. SameSession(u, b, s)
    BY <1>3, <1>4, <1>5, <1>6 DEF SameSession
  <1> QED  BY <1>7 DEF u

LEMMA OwnEvent ==
    ASSUME NEW n \in Nat, NEW t \in [1..n -> Log], NEW k \in 0..n, NEW a, Known(t, k, a),
           NEW s \in Sessions, NEW b, Plain(b), SameSession(a, b, s), NEW e \in Log, e.session = s
    PROVE  SameSession(applyEvent(a, e), applyEvent(b, e), s)
  <1> DEFINE u == applyEvent(a, e)
             v == applyEvent(b, e)
  <1>1. e \in LogEvent /\ Plain(a)
    BY ArrivalAssumption DEF Known
  <1>2. Follows(a, u, e) /\ Follows(b, v, e)
    BY <1>1, EventFollows
  <1> HIDE DEF u, v
  <1>3. \A r \in DOMAIN a.runs : u.runs[r].session = a.runs[r].session
    <2>1. \A r \in DOMAIN a.runs : a.runs[r] \in Run
      BY <1>1 DEF Plain
    <2> QED  BY <1>1, <1>2, <2>1, RunAfterFacts DEF Follows
  <1>4. a.active[s] = b.active[s] /\ u.active[s] = v.active[s]
    BY <1>2 DEF Follows, SameSession
  <1>5. \A r \in DOMAIN b.runs : v.runs[r] = u.runs[r] /\ r \in DOMAIN a.runs /\ a.runs[r].session = s
    BY <1>2, <1>4 DEF Follows, SameSession
  <1>6. \A r \in startedBy(e) :
            /\ r \in DOMAIN u.runs /\ r \in DOMAIN v.runs
            /\ r \in DOMAIN a.runs => r \in DOMAIN b.runs
            /\ r \notin DOMAIN a.runs =>
                   r \notin DOMAIN b.runs /\ u.runs[r] = newRun(e) /\ v.runs[r] = newRun(e)
    <2>1. e.run \in DOMAIN a.runs => a.runs[e.run].session = s
      BY OwnRuns
    <2> QED  BY <1>2, <2>1 DEF Follows, SameSession, startedBy
  <1>7. newRun(e).session = s
    BY DEF newRun
  <1>8. /\ DOMAIN u.runs = DOMAIN a.runs \cup startedBy(e)
        /\ DOMAIN v.runs = DOMAIN b.runs \cup startedBy(e)
    BY <1>2 DEF Follows
  <1>9. \A r \in DOMAIN v.runs : r \in DOMAIN u.runs /\ u.runs[r].session = s /\ v.runs[r] = u.runs[r]
    BY <1>3, <1>5, <1>6, <1>7, <1>8
  <1>10. \A r \in DOMAIN u.runs : u.runs[r].session = s => r \in DOMAIN v.runs
    BY <1>3, <1>6, <1>8 DEF SameSession
  <1>11. SameSession(u, v, s)
    BY <1>4, <1>9, <1>10 DEF SameSession
  <1> QED  BY <1>11 DEF u, v

\* The runs of a session are those of its events.
LEMMA SessionRuns ==
    ASSUME NEW s \in Seq(Log), NEW u \in Seq(Log), NEW x \in Sessions,
           ToSet(u) = {e \in ToSet(s) : e.session = x}
    PROVE  \E a, b : /\ Plain(a) /\ Plain(b) /\ SameSession(a, b, x)
                     /\ Project(s) = a.runs /\ Project(u) = b.runs
  <1>1. PICK n1, t1, F, g1 : Walk(s, n1, t1, F, g1)
    BY WalkExists
  <1>2. PICK n2, t2, F2, g2 : Walk(u, n2, t2, F2, g2)
    BY WalkExists
  <1> DEFINE F1 == {k \in F : t1[k].session = x}
             R == {z \in (0..n1) \X (0..n2) : SameSession(g1[z[1]], g2[z[2]], x)}
  <1>3. /\ n1 \in Nat /\ t1 \in [1..n1 -> Log] /\ F1 \in SUBSET (1..n1) /\ Increasing(t1, F1)
        /\ n2 \in Nat /\ t2 \in [1..n2 -> Log] /\ F2 \in SUBSET (1..n2) /\ Increasing(t2, F2)
    BY <1>1, <1>2 DEF Walk, Increasing
  <1>4. {t1[k] : k \in F1} = {t2[k] : k \in F2}
    <2>1. /\ {t1[k] : k \in F} = {e \in ToSet(s) : e.id # NoId}
          /\ {t2[k] : k \in F2} = {e \in ToSet(u) : e.id # NoId}
      BY <1>1, <1>2 DEF Walk
    <2>2. {t1[k] : k \in F1} = {e \in {t1[k] : k \in F} : e.session = x}
      OBVIOUS
    <2> QED  BY <2>1, <2>2
  <1>5. \A i \in 0..n1, j \in 0..n2 : <<i, j>> \in R <=> SameSession(g1[i], g2[j], x)
    OBVIOUS
  <1>6. \A k \in 1..n1 : k \in F1 <=> k \in F /\ t1[k].session = x
    OBVIOUS
  <1> HIDE DEF R, F1
  <1>7. /\ g1[0] = EmptyState /\ g2[0] = EmptyState
        /\ \A k \in 1..n1 : g1[k] = IF k \in F THEN applyEvent(g1[k - 1], t1[k]) ELSE g1[k - 1]
        /\ \A k \in 1..n2 : g2[k] = IF k \in F2 THEN applyEvent(g2[k - 1], t2[k]) ELSE g2[k - 1]
    BY <1>1, <1>2 DEF Walk
  <1>8. /\ \A k \in 0..n1 : Known(t1, k, g1[k])
        /\ \A k \in 0..n2 : Plain(g2[k])
    BY <1>1, <1>2, WalkKnown DEF Known
  <1>9. Simulates(R, n1, t1, F1, n2, t2, F2)
    <2>1. <<0, 0>> \in R
      <3>1. SameSession(EmptyState, EmptyState, x)
        BY DEF SameSession, EmptyState
      <3> QED  BY <1>3, <1>5, <1>7, <3>1
    <2>2. ASSUME NEW i \in 1..n1, NEW j \in 0..n2, i \notin F1, <<i - 1, j>> \in R
          PROVE  <<i, j>> \in R
      <3>1. /\ i - 1 \in 0..n1 /\ i \in 0..n1 /\ t1[i] \in Log
            /\ SameSession(g1[i - 1], g2[j], x) /\ Known(t1, i - 1, g1[i - 1])
        BY <1>3, <1>5, <1>8, <2>2
      <3>2. CASE i \in F
        <4>1. t1[i].session # x /\ g1[i] = applyEvent(g1[i - 1], t1[i])
          BY <1>6, <1>7, <2>2, <3>2
        <4>2. SameSession(g1[i], g2[j], x)
          BY <1>3, <3>1, <4>1, ForeignEvent
        <4> QED  BY <1>5, <3>1, <4>2
      <3>3. CASE i \notin F
        BY <1>5, <1>7, <3>1, <3>3
      <3> QED  BY <3>2, <3>3
    <2>3. ASSUME NEW i \in 0..n1, NEW j \in 1..n2, j \notin F2, <<i, j - 1>> \in R
          PROVE  <<i, j>> \in R
      BY <1>3, <1>5, <1>7, <2>3
    <2>4. ASSUME NEW i \in F1, NEW j \in F2, t1[i] = t2[j], <<i - 1, j - 1>> \in R
          PROVE  <<i, j>> \in R
      <3>1. i \in 1..n1 /\ j \in 1..n2 /\ i - 1 \in 0..n1 /\ j - 1 \in 0..n2
            /\ i \in 0..n1 /\ j \in 0..n2 /\ t1[i] \in Log
        BY <1>3
      <3>2. /\ SameSession(g1[i - 1], g2[j - 1], x) /\ Known(t1, i - 1, g1[i - 1])
            /\ Plain(g2[j - 1])
        BY <1>5, <1>8, <2>4, <3>1
      <3>3. /\ g1[i] = applyEvent(g1[i - 1], t1[i]) /\ g2[j] = applyEvent(g2[j - 1], t1[i])
            /\ t1[i].session = x
        BY <1>6, <1>7, <2>4, <3>1
      <3>4. SameSession(g1[i], g2[j], x)
        BY <1>3, <3>1, <3>2, <3>3, OwnEvent
      <3> QED  BY <1>5, <3>1, <3>4
    <2> QED  BY <2>1, <2>2, <2>3, <2>4 DEF Simulates
  <1>10. <<n1, n2>> \in R
    BY <1>3, <1>4, <1>9, Simulation
  <1>11. /\ SameSession(g1[n1], g2[n2], x) /\ Plain(g1[n1]) /\ Plain(g2[n2])
    BY <1>3, <1>5, <1>8, <1>10 DEF Known
  <1>12. Project(s) = g1[n1].runs /\ Project(u) = g2[n2].runs
    BY <1>1, <1>2 DEF Walk
  <1> QED  BY <1>11, <1>12

-----------------------------------------------------------------------------
LEMMA KeptEvents ==
    ASSUME NEW s \in Seq(Log), NEW D \in SUBSET DOMAIN s
    PROVE  kept(s, D) \in Seq(Log) /\ ToSet(kept(s, D)) = {s[i] : i \in D}
  <1> DEFINE n == Len(s)
             N == Cardinality(D)
             q == kept(s, D)
  <1>1. n \in Nat /\ D \in SUBSET (1..n) /\ \A i \in D : s[i] \in Log
    OBVIOUS
  <1> HIDE DEF n
  <1>2. IsFiniteSet(D)
    BY <1>1, KeptInOrder
  <1>3. PICK f : Enumerates(f, D) /\ ReadAt(q, s, f, N)
    BY <1>1, KeptInOrder
  <1>4. N \in Nat
    BY <1>2, FS_CardinalityType
  <1> HIDE DEF q
  <1>5. /\ q = [k \in 1..N |-> s[f[k]]] /\ \A k \in 1..N : f[k] \in D
        /\ \A i \in D : \E k \in 1..N : f[k] = i
    BY <1>3 DEF Enumerates, ReadAt
  <1> HIDE DEF N
  <1>6. q \in [1..N -> Log]
    BY <1>1, <1>5
  <1>7. q \in Seq(Log) /\ DOMAIN q = 1..N
    BY <1>4, <1>6, IsList
  <1>8. ToSet(q) = {s[i] : i \in D}
    BY <1>5, <1>7 DEF ToSet
  <1> QED  BY <1>7, <1>8 DEF q

\* The argument of Project is a list of the log's events.
ListOK == arrived \in Seq(Log)

LEMMA ArrivalListOK == ArrivalSpec => []ListOK
  <1>1. ArrivalInit => ListOK
    BY DEF ArrivalInit, ListOK
  <1>2. ListOK /\ [ArrivalNext]_arrived => ListOK'
    BY DEF ListOK, ArrivalNext, Arrive
  <1> QED  BY <1>1, <1>2, PTL DEF ArrivalSpec

(***************************************************************************)
(* The runs do not depend on the order in which the events of a list       *)
(* arrived, nor on how often: the sort of Project leaves to chance only    *)
(* the order of equal events, and the loop skips those it has seen.        *)
(***************************************************************************)
THEOREM OrderIsIrrelevant == ArrivalSpec => []OnlyTheSetMatters
  <1>1. ListOK => OnlyTheSetMatters
    <2> SUFFICES ASSUME ListOK PROVE OnlyTheSetMatters
      OBVIOUS
    <2>1. arrived \in Seq(Log)
      BY DEF ListOK
    <2> QED  BY <2>1, SetToSeqCovers, SameRuns DEF OnlyTheSetMatters
  <1> QED  BY <1>1, ArrivalListOK, PTL

\* What SessionsIndependent says holds for every list of the log's events.
LEMMA SessionsApart ==
    ASSUME ListOK
    PROVE  SessionsIndependent
  <1> DEFINE all == Project(arrived)
  <1> SUFFICES ASSUME NEW s \in Sessions
               PROVE  Project(OfSession(s)) =
                          [r \in {x \in DOMAIN all : all[x].session = s} |-> all[r]]
    BY DEF SessionsIndependent
  <1>1. arrived \in Seq(Log)
    BY DEF ListOK
  <1> DEFINE D == {i \in DOMAIN arrived : arrived[i].session = s}
  <1>2. OfSession(s) \in Seq(Log) /\ ToSet(OfSession(s)) = {arrived[i] : i \in D}
    BY <1>1, KeptEvents DEF OfSession
  <1>3. ToSet(OfSession(s)) = {e \in ToSet(arrived) : e.session = s}
    BY <1>2 DEF ToSet
  <1>4. PICK a, b : /\ Plain(a) /\ Plain(b) /\ SameSession(a, b, s)
                    /\ all = a.runs /\ Project(OfSession(s)) = b.runs
    BY <1>1, <1>2, <1>3, SessionRuns
  <1> HIDE DEF all
  <1>5. b.runs = [r \in DOMAIN b.runs |-> b.runs[r]]
    BY <1>4 DEF Plain, Maps
  <1>6. DOMAIN b.runs = {x \in DOMAIN all : all[x].session = s}
    BY <1>4 DEF SameSession
  <1>7. \A r \in DOMAIN b.runs : b.runs[r] = all[r]
    BY <1>4 DEF SameSession
  <1> QED  BY <1>4, <1>5, <1>6, <1>7

(***************************************************************************)
(* Projecting the events of one session, as the server does, gives the     *)
(* runs of that session in the projection of all events, which the command *)
(* line makes.                                                             *)
(***************************************************************************)
THEOREM SessionsDoNotInterfere == ArrivalSpec => []SessionsIndependent
  <1>1. ListOK => SessionsIndependent
    BY SessionsApart
  <1> QED  BY <1>1, ArrivalListOK, PTL

\* An event of any log keeps a state sound.
LEMMA EventSound ==
    ASSUME NEW st, Sound(st), NEW e, Applicable(e)
    PROVE  Sound(applyEvent(st, e))
  <1>1. CASE e.kind \in StartKinds
    BY <1>1, KindsAreApart, StartSound DEF applyEvent
  <1>2. CASE e.kind = "token_usage"
    BY <1>2, KindsAreApart, TokenUsageSound DEF applyEvent
  <1>3. CASE e.kind \in TerminalKinds
    BY <1>3, KindsAreApart, CloseMatchingSound DEF applyEvent
  <1>4. CASE e.kind = "session_closed"
    BY <1>4, KindsAreApart, SessionClosedSound DEF applyEvent
  <1>5. CASE /\ e.kind \notin StartKinds /\ e.kind # "token_usage"
             /\ e.kind \notin TerminalKinds /\ e.kind # "session_closed"
    BY <1>5, ActivitySound DEF applyEvent
  <1> QED  BY <1>1, <1>2, <1>3, <1>4, <1>5

\* What Project returns are the runs of a sound state.
LEMMA ProjectSound ==
    ASSUME NEW s \in Seq(Log)
    PROVE  \E st : Sound(st) /\ Project(s) = st.runs
  <1>1. PICK n, t, F, g : Walk(s, n, t, F, g)
    BY WalkExists
  <1>2. /\ n \in Nat /\ t \in [1..n -> Log] /\ g[0] = EmptyState
        /\ \A k \in 1..n : g[k] = IF k \in F THEN applyEvent(g[k - 1], t[k]) ELSE g[k - 1]
    BY <1>1 DEF Walk
  <1> DEFINE T == {k \in 0..n : Sound(g[k])}
  <1>3. 0 \in T
    <2>1. /\ DOMAIN EmptyState.runs = {} /\ EmptyState.runs \in [{} -> Run]
          /\ EmptyState = [runs |-> EmptyState.runs, active |-> EmptyState.active]
          /\ EmptyState.active = [x \in Sessions |-> NoRun]
      BY DEF EmptyState
    <2>2. Sound(EmptyState)
      BY <2>1 DEF Sound
    <2> QED  BY <1>2, <2>2
  <1>4. ASSUME NEW k \in 0..n, k < n, k \in T PROVE k + 1 \in T
    <2>1. k + 1 \in 1..n /\ k + 1 \in 0..n /\ (k + 1) - 1 = k /\ Sound(g[k])
      BY <1>2, <1>4
    <2>2. Applicable(t[k + 1])
      <3>1. t[k + 1] \in LogEvent
        BY <1>2, <2>1, ArrivalAssumption
      <3> QED  BY <3>1 DEF LogEvent, Applicable
    <2>3. Sound(applyEvent(g[k], t[k + 1]))
      BY <2>1, <2>2, EventSound
    <2> QED  BY <1>2, <2>1, <2>3
  <1> HIDE DEF T
  <1>5. \A k \in 0..n : k \in T
    BY <1>2, <1>3, <1>4, UpTo
  <1>6. n \in T
    BY <1>2, <1>5
  <1>7. Sound(g[n]) /\ Project(s) = g[n].runs
    BY <1>1, <1>6 DEF T, Walk
  <1> QED  BY <1>7

(***************************************************************************)
(* The table of runs accepts every rebuild: the runs Project returns are   *)
(* those of a sound state, and those of a session are its part of the runs *)
(* of all events, in which an id has one session.                          *)
(***************************************************************************)
THEOREM RebuildsSucceed == ArrivalSpec => []RebuildsAreAccepted
  <1>1. ASSUME ListOK PROVE RebuildsAreAccepted
    <2> DEFINE all == Project(arrived)
               rows == [s \in Sessions |-> Project(OfSession(s))]
    <2>1. PICK st : Sound(st) /\ all = st.runs
      BY <1>1, ProjectSound DEF ListOK
    <2>2. \A s \in Sessions :
              rows[s] = [r \in {x \in DOMAIN all : all[x].session = s} |-> all[r]]
      BY <1>1, SessionsApart DEF SessionsIndependent
    <2> HIDE DEF all, rows
    <2>3. \A s \in Sessions : \A r \in DOMAIN rows[s] :
              r \in DOMAIN st.runs /\ rows[s][r] = st.runs[r] /\ st.runs[r].session = s
      <3> SUFFICES ASSUME NEW s \in Sessions
                   PROVE  \A r \in DOMAIN rows[s] :
                             /\ r \in DOMAIN st.runs /\ rows[s][r] = st.runs[r]
                             /\ st.runs[r].session = s
        OBVIOUS
      <3> DEFINE own == {x \in DOMAIN all : all[x].session = s}
      <3>1. rows[s] = [r \in own |-> all[r]]
        BY <2>2
      <3>2. \A r \in own : r \in DOMAIN all /\ all[r].session = s
        OBVIOUS
      <3> HIDE DEF own
      <3>3. DOMAIN rows[s] = own /\ \A r \in own : rows[s][r] = all[r]
        BY <3>1
      <3> QED  BY <2>1, <3>2, <3>3
    <2>4. \A s \in Sessions : \A r \in DOMAIN rows[s] :
              /\ rows[s][r].session = s
              /\ IsOpen(rows[s][r]) \/ rows[s][r].ended >= rows[s][r].started
      BY <2>1, <2>3 DEF Sound
    <2>5. \A s \in Sessions : \A r, x \in DOMAIN rows[s] :
              IsOpen(rows[s][r]) /\ IsOpen(rows[s][x]) => r = x
      BY <2>1, <2>3 DEF Sound
    <2>6. \A s, u \in Sessions : s # u => DOMAIN rows[s] \cap DOMAIN rows[u] = {}
      BY <2>3
    <2> QED  BY <2>4, <2>5, <2>6 DEF RebuildsAreAccepted, rows
  <1>2. ListOK => RebuildsAreAccepted
    BY <1>1
  <1> QED  BY <1>2, ArrivalListOK, PTL

-----------------------------------------------------------------------------
\* The run r of a started at m or later.
Recent(a, m, r) == r \in DOMAIN a.runs /\ a.runs[r].started >= m

\* b, which has read less, knows of the recent runs what a knows of them.
SameRecent(a, b, m) ==
    /\ DOMAIN b.runs \subseteq DOMAIN a.runs
    /\ \A r \in DOMAIN a.runs : Recent(a, m, r) => r \in DOMAIN b.runs /\ b.runs[r] = a.runs[r]
    /\ \A s \in Sessions :
           \/ a.active[s] = b.active[s]
           \/ ~Recent(a, m, a.active[s]) /\ ~Recent(a, m, b.active[s])

\* For a run that is not current it makes no difference which run is.
LEMMA OtherCurrent ==
    ASSUME NEW e, NEW r, r # NoRun, NEW x, NEW y, x # r, y # r, NEW run
    PROVE  runAfter(e, r, x, run) = runAfter(e, r, y, run)
  <1>1. /\ r = tokenRun(e, x) <=> r = tokenRun(e, y)
        /\ r = terminalRun(e, x) <=> r = terminalRun(e, y)
    BY DEF tokenRun, terminalRun
  <1>2. CASE e.kind \in StartKinds
    BY <1>2, KindsAreApart DEF runAfter
  <1>3. CASE e.kind = "token_usage"
    BY <1>1, <1>3, KindsAreApart DEF runAfter
  <1>4. CASE e.kind \in TerminalKinds
    BY <1>1, <1>4, KindsAreApart DEF runAfter
  <1>5. CASE e.kind = "session_closed"
    BY <1>5, KindsAreApart DEF runAfter
  <1>6. CASE /\ e.kind \notin StartKinds /\ e.kind # "token_usage"
             /\ e.kind \notin TerminalKinds /\ e.kind # "session_closed"
    BY <1>6 DEF runAfter
  <1> QED  BY <1>2, <1>3, <1>4, <1>5, <1>6

\* What an event leaves of the runs: the time they started.
LEMMA StaysRecent ==
    ASSUME NEW a, Plain(a), NEW e \in LogEvent, NEW u, Follows(a, u, e), NEW m \in Int
    PROVE  /\ \A r \in DOMAIN a.runs :
                  /\ r \in DOMAIN u.runs /\ u.runs[r].started = a.runs[r].started
                  /\ u.runs[r].session = a.runs[r].session
                  /\ Recent(u, m, r) <=> Recent(a, m, r)
           /\ \A r \in DOMAIN u.runs : r \notin DOMAIN a.runs =>
                  r \in startedBy(e) /\ r = e.run /\ u.runs[r] = newRun(e)
           /\ \A s \in Sessions : u.active[s] = NoRun \/ u.active[s] = a.active[s]
                                  \/ (s = e.session /\ u.active[s] = e.run /\ e.run \in startedBy(e))
  <1>1. \A r \in DOMAIN a.runs : a.runs[r] \in Run
    BY DEF Plain
  <1>2. \A r \in DOMAIN a.runs :
            /\ r \in DOMAIN u.runs /\ u.runs[r].started = a.runs[r].started
            /\ u.runs[r].session = a.runs[r].session
    BY <1>1, RunAfterFacts DEF Follows
  <1>3. \A r \in DOMAIN a.runs : Recent(u, m, r) <=> Recent(a, m, r)
    BY <1>2 DEF Recent
  <1>4. \A r \in DOMAIN u.runs : r \notin DOMAIN a.runs =>
            r \in startedBy(e) /\ r = e.run /\ u.runs[r] = newRun(e)
    BY DEF Follows, startedBy
  <1>5. \A s \in Sessions : u.active[s] = NoRun \/ u.active[s] = a.active[s]
                            \/ (s = e.session /\ u.active[s] = e.run /\ e.run \in startedBy(e))
    BY KindsAreApart DEF Follows, currentAfter, startedBy
  <1> QED  BY <1>2, <1>3, <1>4, <1>5

\* An event before m that only a has read.
LEMMA EarlyEvent ==
    ASSUME NEW n \in Nat, NEW t \in [1..n -> Log], NEW k \in 0..n, NEW a, Known(t, k, a),
           NEW b, Plain(b), NEW m \in Int, SameRecent(a, b, m), NEW e \in Log, e.at < m,
           \A r \in DOMAIN a.runs : a.runs[r].session = e.session => a.runs[r].started <= e.at
    PROVE  SameRecent(applyEvent(a, e), b, m)
  <1> DEFINE u == applyEvent(a, e)
             cur == a.active[e.session]
  <1>1. e \in LogEvent /\ Plain(a) /\ e.session \in Sessions /\ e.at \in Nat
    BY ArrivalAssumption DEF LogEvent, Known
  <1>2. Follows(a, u, e) /\ Plain(u)
    BY <1>1, EventFollows
  <1> HIDE DEF u
  <1>3. /\ \A r \in DOMAIN a.runs : r \in DOMAIN u.runs /\ (Recent(u, m, r) <=> Recent(a, m, r))
        /\ \A r \in DOMAIN u.runs : r \notin DOMAIN a.runs => r = e.run /\ u.runs[r] = newRun(e)
        /\ \A s \in Sessions : u.active[s] = NoRun \/ u.active[s] = a.active[s]
                               \/ (s = e.session /\ u.active[s] = e.run)
    BY <1>1, <1>2, StaysRecent
  <1>4. \A r \in DOMAIN a.runs : a.runs[r].session = e.session => ~Recent(a, m, r)
    <2>1. \A r \in DOMAIN a.runs : a.runs[r].started \in Nat
      BY <1>1 DEF Plain, Run
    <2> QED  BY <1>1, <2>1 DEF Recent
  <1>5. \A r : r = e.run \/ r = cur => ~Recent(a, m, r)
    <2>1. \A r \in DOMAIN a.runs : r = e.run \/ r = cur => a.runs[r].session = e.session
      BY OwnRuns
    <2> QED  BY <1>4, <2>1 DEF Recent
  <1>6. \A r \in DOMAIN u.runs : r \notin DOMAIN a.runs => ~Recent(u, m, r)
    BY <1>1, <1>3 DEF newRun, Recent
  <1>7. \A r : Recent(u, m, r) <=> Recent(a, m, r)
    BY <1>3, <1>6 DEF Recent
  <1>8. \A r \in DOMAIN u.runs : Recent(u, m, r) => r \in DOMAIN b.runs /\ b.runs[r] = u.runs[r]
    <2> SUFFICES ASSUME NEW r \in DOMAIN u.runs, Recent(u, m, r)
                 PROVE  r \in DOMAIN b.runs /\ b.runs[r] = u.runs[r]
      OBVIOUS
    <2>1. Recent(a, m, r) /\ r \in DOMAIN a.runs
      BY <1>7 DEF Recent
    <2>2. a.runs[r] \in Run /\ r # cur /\ r # e.run
      BY <1>1, <1>5, <2>1 DEF Plain
    <2>3. u.runs[r] = a.runs[r]
      BY <1>1, <1>2, <2>1, <2>2, RunAfterFacts DEF Follows
    <2> QED  BY <2>1, <2>3 DEF SameRecent
  <1>9. ~Recent(a, m, NoRun)
    BY <1>1, CurrentFacts DEF Recent
  <1>10. \A s \in Sessions : \/ u.active[s] = b.active[s]
                             \/ ~Recent(u, m, u.active[s]) /\ ~Recent(u, m, b.active[s])
    <2> SUFFICES ASSUME NEW s \in Sessions
                 PROVE  \/ u.active[s] = b.active[s]
                        \/ ~Recent(a, m, u.active[s]) /\ ~Recent(a, m, b.active[s])
      BY <1>7
    <2>1. CASE s = e.session
      <3>1. ~Recent(a, m, u.active[s])
        BY <1>3, <1>5, <1>9, <2>1
      <3>2. ~Recent(a, m, b.active[s])
        BY <1>5, <2>1 DEF SameRecent
      <3> QED  BY <3>1, <3>2
    <2>2. CASE s # e.session
      <3>1. u.active[s] = a.active[s]
        BY <1>2, <2>2 DEF Follows
      <3> QED  BY <3>1 DEF SameRecent
    <2> QED  BY <2>1, <2>2
  <1>11. SameRecent(u, b, m)
    BY <1>3, <1>8, <1>10 DEF SameRecent
  <1> QED  BY <1>11 DEF u

\* An event that both have read.
LEMMA ReadByBoth ==
    ASSUME NEW a, Plain(a), NEW b, Plain(b), NEW m \in Int, SameRecent(a, b, m), NEW e \in Log
    PROVE  SameRecent(applyEvent(a, e), applyEvent(b, e), m)
  <1> DEFINE u == applyEvent(a, e)
             v == applyEvent(b, e)
             x == a.active[e.session]
             y == b.active[e.session]
  <1>1. e \in LogEvent /\ e.session \in Sessions
    BY ArrivalAssumption DEF LogEvent
  <1>2. Follows(a, u, e) /\ Follows(b, v, e) /\ Plain(u) /\ Plain(v)
    BY <1>1, EventFollows
  <1> HIDE DEF u, v
  <1>3. /\ \A r \in DOMAIN a.runs : r \in DOMAIN u.runs /\ (Recent(u, m, r) <=> Recent(a, m, r))
        /\ \A r \in DOMAIN u.runs : r \notin DOMAIN a.runs => r \in startedBy(e) /\ u.runs[r] = newRun(e)
    BY <1>1, <1>2, StaysRecent
  <1>4. x = y \/ (~Recent(a, m, x) /\ ~Recent(a, m, y))
    BY <1>1 DEF SameRecent
  <1>5. DOMAIN v.runs \subseteq DOMAIN u.runs
    BY <1>2 DEF Follows, SameRecent
  <1>6. \A r \in DOMAIN u.runs : Recent(u, m, r) => r \in DOMAIN v.runs /\ v.runs[r] = u.runs[r]
    <2> SUFFICES ASSUME NEW r \in DOMAIN u.runs, Recent(u, m, r)
                 PROVE  r \in DOMAIN v.runs /\ v.runs[r] = u.runs[r]
      OBVIOUS
    <2>1. CASE r \in DOMAIN a.runs
      <3>1. Recent(a, m, r)
        BY <1>3, <2>1
      <3>2. r \in DOMAIN b.runs /\ b.runs[r] = a.runs[r] /\ r # NoRun
        BY <1>1, <2>1, <3>1, CurrentFacts DEF SameRecent
      <3>3. u.runs[r] = runAfter(e, r, x, a.runs[r]) /\ v.runs[r] = runAfter(e, r, y, b.runs[r])
        BY <1>2, <2>1, <3>2 DEF Follows
      <3>4. runAfter(e, r, x, a.runs[r]) = runAfter(e, r, y, a.runs[r])
        <4>1. CASE x = y
          BY <4>1
        <4>2. CASE x # y
          <5>1. x # r /\ y # r
            BY <1>4, <3>1, <4>2
          <5> QED  BY <3>2, <5>1, OtherCurrent
        <4> QED  BY <4>1, <4>2
      <3>5. r \in DOMAIN v.runs
        BY <1>2, <3>2 DEF Follows
      <3> QED  BY <3>2, <3>3, <3>4, <3>5
    <2>2. CASE r \notin DOMAIN a.runs
      <3>1. r \in startedBy(e) /\ u.runs[r] = newRun(e) /\ r \notin DOMAIN b.runs
        BY <1>3, <2>2 DEF SameRecent
      <3> QED  BY <1>2, <3>1 DEF Follows
    <2> QED  BY <2>1, <2>2
  <1>7. \A z : z = NoRun \/ z \in DOMAIN a.runs => (Recent(u, m, z) => Recent(a, m, z))
    <2>1. NoRun \notin DOMAIN u.runs
      BY <1>1, <1>2, CurrentFacts
    <2> QED  BY <1>3, <2>1 DEF Recent
  <1>8. \A s \in Sessions : \/ u.active[s] = v.active[s]
                            \/ ~Recent(u, m, u.active[s]) /\ ~Recent(u, m, v.active[s])
    <2> SUFFICES ASSUME NEW s \in Sessions, u.active[s] # v.active[s]
                 PROVE  ~Recent(u, m, u.active[s]) /\ ~Recent(u, m, v.active[s])
      OBVIOUS
    <2>1. /\ a.active[s] = NoRun \/ a.active[s] \in DOMAIN a.runs
          /\ b.active[s] = NoRun \/ b.active[s] \in DOMAIN a.runs
      BY DEF Plain, SameRecent
    <2>2. /\ u.active[s] = a.active[s] \/ u.active[s] = NoRun
          /\ v.active[s] = b.active[s] \/ v.active[s] = NoRun
      <3>1. CASE s = e.session
        <4>1. currentAfter(e, x) # currentAfter(e, y)
          BY <1>2, <3>1 DEF Follows
        <4>2. /\ currentAfter(e, x) = x \/ currentAfter(e, x) = NoRun
              /\ currentAfter(e, y) = y \/ currentAfter(e, y) = NoRun
          BY <4>1, KindsAreApart DEF currentAfter
        <4> QED  BY <1>2, <3>1, <4>2 DEF Follows
      <3>2. CASE s # e.session
        BY <1>2, <3>2 DEF Follows
      <3> QED  BY <3>1, <3>2
    <2>3. a.active[s] # b.active[s]
      <3>1. CASE s = e.session
        <4>1. a.active[s] = b.active[s] => currentAfter(e, a.active[s]) = currentAfter(e, b.active[s])
          OBVIOUS
        <4> QED  BY <1>2, <3>1, <4>1 DEF Follows
      <3>2. CASE s # e.session
        BY <1>2, <3>2 DEF Follows
      <3> QED  BY <3>1, <3>2
    <2>4. ~Recent(a, m, a.active[s]) /\ ~Recent(a, m, b.active[s])
      BY <2>3 DEF SameRecent
    <2>5. ~Recent(a, m, NoRun)
      BY <1>1, CurrentFacts DEF Recent
    <2> QED  BY <1>7, <2>1, <2>2, <2>4, <2>5
  <1>9. SameRecent(u, v, m)
    BY <1>5, <1>6, <1>8 DEF SameRecent
  <1> QED  BY <1>9 DEF u, v

\* A run does not start after the events that follow in its session.
LEMMA StartsBefore ==
    ASSUME NEW s \in Seq(Log), NEW n, NEW t, NEW F, NEW g, Walk(s, n, t, F, g),
           \A e, f \in ToSet(s) : e.session = f.session /\ e.seq < f.seq => e.at <= f.at,
           NEW k \in 1..n
    PROVE  \A r \in DOMAIN g[k - 1].runs :
              g[k - 1].runs[r].session = t[k].session => g[k - 1].runs[r].started <= t[k].at
  <1> SUFFICES ASSUME NEW r \in DOMAIN g[k - 1].runs, g[k - 1].runs[r].session = t[k].session
               PROVE  g[k - 1].runs[r].started <= t[k].at
    OBVIOUS
  <1>1. /\ n \in Nat /\ t \in [1..n -> Log] /\ {t[j] : j \in 1..n} = ToSet(s)
        /\ \A j, l \in 1..n : j < l => ~eventLess(t[l], t[j])
    BY DEF Walk
  <1>2. k - 1 \in 0..n
    BY <1>1
  <1>3. Known(t, k - 1, g[k - 1])
    BY <1>2, WalkKnown
  <1>4. PICK l \in 1..(k - 1) : /\ t[l].session = g[k - 1].runs[r].session
                                /\ t[l].at = g[k - 1].runs[r].started
    BY <1>3 DEF Known, StartedBy
  <1>5. l \in 1..n /\ l < k
    BY <1>1
  <1>6. t[l] \in ToSet(s) /\ t[k] \in ToSet(s) /\ ~eventLess(t[k], t[l])
    BY <1>1, <1>5
  <1>7. /\ t[l].session = t[k].session /\ t[l].seq \in Nat /\ t[k].seq \in Nat
        /\ t[l].at \in Nat /\ t[k].at \in Nat
    <2>1. t[l] \in LogEvent /\ t[k] \in LogEvent
      BY <1>1, <1>5, ArrivalAssumption
    <2> QED  BY <1>4, <2>1 DEF LogEvent
  <1>8. ~(t[k].seq < t[l].seq) /\ ~(t[k].seq = t[l].seq /\ t[k].at < t[l].at)
    BY <1>6, <1>7 DEF eventLess
  <1>9. t[l].seq < t[k].seq => t[l].at <= t[k].at
    BY <1>6, <1>7
  <1> QED  BY <1>4, <1>7, <1>8, <1>9

\* The runs of a list and of the part that misses some events before m.
LEMMA RecentRuns ==
    ASSUME NEW s \in Seq(Log), NEW u \in Seq(Log), NEW m \in Int, ToSet(u) \subseteq ToSet(s),
           \A e \in ToSet(s) : e \notin ToSet(u) => e.at < m,
           \A e, f \in ToSet(s) : e.session = f.session /\ e.seq < f.seq => e.at <= f.at
    PROVE  \E a, b : /\ Plain(a) /\ Plain(b) /\ SameRecent(a, b, m)
                     /\ Project(s) = a.runs /\ Project(u) = b.runs
  <1>1. PICK n1, t1, F, g1 : Walk(s, n1, t1, F, g1)
    BY WalkExists
  <1>2. PICK n2, t2, F2, g2 : Walk(u, n2, t2, F2, g2)
    BY WalkExists
  <1> DEFINE F1 == {k \in F : t1[k] \in ToSet(u)}
             R == {z \in (0..n1) \X (0..n2) : SameRecent(g1[z[1]], g2[z[2]], m)}
  <1>3. /\ n1 \in Nat /\ t1 \in [1..n1 -> Log] /\ F1 \in SUBSET (1..n1) /\ Increasing(t1, F1)
        /\ n2 \in Nat /\ t2 \in [1..n2 -> Log] /\ F2 \in SUBSET (1..n2) /\ Increasing(t2, F2)
    BY <1>1, <1>2 DEF Walk, Increasing
  <1>4. {t1[k] : k \in F1} = {t2[k] : k \in F2}
    <2>1. /\ {t1[k] : k \in F} = {e \in ToSet(s) : e.id # NoId}
          /\ {t2[k] : k \in F2} = {e \in ToSet(u) : e.id # NoId}
      BY <1>1, <1>2 DEF Walk
    <2>2. {t1[k] : k \in F1} = {e \in {t1[k] : k \in F} : e \in ToSet(u)}
      OBVIOUS
    <2> QED  BY <2>1, <2>2
  <1>5. \A i \in 0..n1, j \in 0..n2 : <<i, j>> \in R <=> SameRecent(g1[i], g2[j], m)
    OBVIOUS
  <1>6. \A k \in 1..n1 : k \in F1 <=> k \in F /\ t1[k] \in ToSet(u)
    OBVIOUS
  <1> HIDE DEF R, F1
  <1>7. /\ g1[0] = EmptyState /\ g2[0] = EmptyState
        /\ \A k \in 1..n1 : g1[k] = IF k \in F THEN applyEvent(g1[k - 1], t1[k]) ELSE g1[k - 1]
        /\ \A k \in 1..n2 : g2[k] = IF k \in F2 THEN applyEvent(g2[k - 1], t2[k]) ELSE g2[k - 1]
        /\ \A k \in 1..n1 : t1[k] \in ToSet(s)
    BY <1>1, <1>2 DEF Walk
  <1>8. /\ \A k \in 0..n1 : Known(t1, k, g1[k])
        /\ \A k \in 0..n2 : Plain(g2[k])
    BY <1>1, <1>2, WalkKnown DEF Known
  <1>9. Simulates(R, n1, t1, F1, n2, t2, F2)
    <2>1. <<0, 0>> \in R
      <3>1. SameRecent(EmptyState, EmptyState, m)
        BY DEF SameRecent, EmptyState
      <3> QED  BY <1>3, <1>5, <1>7, <3>1
    <2>2. ASSUME NEW i \in 1..n1, NEW j \in 0..n2, i \notin F1, <<i - 1, j>> \in R
          PROVE  <<i, j>> \in R
      <3>1. /\ i - 1 \in 0..n1 /\ i \in 0..n1 /\ t1[i] \in Log /\ t1[i] \in ToSet(s)
            /\ SameRecent(g1[i - 1], g2[j], m) /\ Known(t1, i - 1, g1[i - 1]) /\ Plain(g2[j])
        BY <1>3, <1>5, <1>7, <1>8, <2>2
      <3>2. CASE i \in F
        <4>1. t1[i].at < m /\ g1[i] = applyEvent(g1[i - 1], t1[i])
          BY <1>6, <1>7, <2>2, <3>1, <3>2
        <4>2. \A r \in DOMAIN g1[i - 1].runs :
                 g1[i - 1].runs[r].session = t1[i].session => g1[i - 1].runs[r].started <= t1[i].at
          BY <1>1, StartsBefore
        <4>3. SameRecent(g1[i], g2[j], m)
          BY <1>3, <3>1, <4>1, <4>2, EarlyEvent
        <4> QED  BY <1>5, <3>1, <4>3
      <3>3. CASE i \notin F
        BY <1>5, <1>7, <3>1, <3>3
      <3> QED  BY <3>2, <3>3
    <2>3. ASSUME NEW i \in 0..n1, NEW j \in 1..n2, j \notin F2, <<i, j - 1>> \in R
          PROVE  <<i, j>> \in R
      BY <1>3, <1>5, <1>7, <2>3
    <2>4. ASSUME NEW i \in F1, NEW j \in F2, t1[i] = t2[j], <<i - 1, j - 1>> \in R
          PROVE  <<i, j>> \in R
      <3>1. i \in 1..n1 /\ j \in 1..n2 /\ i - 1 \in 0..n1 /\ j - 1 \in 0..n2
            /\ i \in 0..n1 /\ j \in 0..n2 /\ t1[i] \in Log
        BY <1>3
      <3>2. /\ SameRecent(g1[i - 1], g2[j - 1], m) /\ Plain(g1[i - 1]) /\ Plain(g2[j - 1])
        BY <1>5, <1>8, <2>4, <3>1 DEF Known
      <3>3. g1[i] = applyEvent(g1[i - 1], t1[i]) /\ g2[j] = applyEvent(g2[j - 1], t1[i])
        BY <1>6, <1>7, <2>4, <3>1
      <3>4. SameRecent(g1[i], g2[j], m)
        BY <3>1, <3>2, <3>3, ReadByBoth
      <3> QED  BY <1>5, <3>1, <3>4
    <2> QED  BY <2>1, <2>2, <2>3, <2>4 DEF Simulates
  <1>10. <<n1, n2>> \in R
    BY <1>3, <1>4, <1>9, Simulation
  <1>11. SameRecent(g1[n1], g2[n2], m) /\ Plain(g1[n1]) /\ Plain(g2[n2])
    BY <1>3, <1>5, <1>8, <1>10 DEF Known
  <1>12. Project(s) = g1[n1].runs /\ Project(u) = g2[n2].runs
    BY <1>1, <1>2 DEF Walk
  <1> QED  BY <1>11, <1>12

\* The latest of the times of a list's events is one of them, or 0.
LEMMA LatestEvent ==
    ASSUME NEW s \in Seq(Log)
    PROVE  LET latest == Max({0} \cup {e.at : e \in ToSet(s)})
           IN  latest \in Nat /\ \A e \in ToSet(s) : e.at <= latest
  <1> DEFINE n == Len(s)
             T == {k \in 0..n : \E N \in Nat : \A i \in 1..k : s[i].at <= N}
             S == {0} \cup {e.at : e \in ToSet(s)}
  <1>1. n \in Nat /\ DOMAIN s = 1..n /\ \A i \in 1..n : s[i] \in Log /\ s[i].at \in Nat
    <2>1. \A e \in Log : e.at \in Nat
      BY ArrivalAssumption DEF LogEvent
    <2> QED  BY <2>1
  <1> HIDE DEF n
  <1>2. 0 \in T
    BY <1>1
  <1>3. ASSUME NEW k \in 0..n, k < n, k \in T PROVE k + 1 \in T
    <2>1. PICK N \in Nat : \A i \in 1..k : s[i].at <= N
      BY <1>3
    <2>2. k + 1 \in 1..n /\ \A i \in 1..(k + 1) : i \in 1..k \/ i = k + 1
      BY <1>1, <1>3
    <2>3. PICK M \in Nat : N <= M /\ s[k + 1].at <= M
      <3>1. N \in Nat /\ s[k + 1].at \in Nat
        BY <1>1, <2>2
      <3>2. (N <= s[k + 1].at) \/ (s[k + 1].at <= N)
        BY <3>1
      <3> QED  BY <3>1, <3>2
    <2>4. \A i \in 1..k : s[i].at \in Nat
      BY <1>1, <1>3
    <2>5. \A i \in 1..k : s[i].at <= M
      BY <2>1, <2>3, <2>4
    <2> QED  BY <1>1, <2>2, <2>3, <2>5
  <1> HIDE DEF T
  <1>4. \A k \in 0..n : k \in T
    BY <1>1, <1>2, <1>3, UpTo
  <1>5. PICK N \in Nat : \A i \in 1..n : s[i].at <= N
    <2>1. n \in T
      BY <1>1, <1>4
    <2> QED  BY <2>1 DEF T
  <1>6. S \in SUBSET (0..N) /\ S # {}
    BY <1>1, <1>5 DEF ToSet
  <1>7. \E x \in S : \A y \in S : y <= x
    BY <1>6, GreatestNumber
  <1>8. Max(S) \in S /\ \A y \in S : Max(S) >= y
    <2>1. \A x \in S, y \in S : y <= x <=> x >= y
      BY <1>6
    <2> QED  BY <1>7, <2>1 DEF Max
  <1>9. Max(S) \in Nat /\ \A e \in ToSet(s) : e.at \in S /\ e.at <= Max(S)
    <2>1. \A e \in ToSet(s) : e.at \in S
      OBVIOUS
    <2>2. Max(S) \in Nat /\ \A y \in S : y \in Nat
      BY <1>6, <1>8
    <2> HIDE DEF S
    <2> QED  BY <1>8, <2>1, <2>2
  <1> QED  BY <1>9

\* Nothing that happened before the end of a day, and not twelve hours and a
\* second before it, is left out.
LEMMA TextOrderKeeps ==
    ASSUME NEW at \in Int, NEW from \in Int, NEW to \in Int, to % Second = 0,
           at >= from + Second, at < to
    PROVE  textOrder(from) <= textOrder(at) /\ textOrder(at) < textOrder(to)
  BY DEF textOrder, Second

(***************************************************************************)
(* A report, which leaves out what happened more than twelve hours before  *)
(* its window, says of every run that started since what all events say of *)
(* it.  What it does not read touches only runs that started before, or    *)
(* closes a current run that started before.                               *)
(***************************************************************************)
THEOREM ReportIsExact == ArrivalSpec => []ReportsShowRecentRuns
  <1>1. ListOK => ReportsShowRecentRuns
    <2> DEFINE latest == Max({0} \cup {e.at : e \in ToSet(arrived)})
    <2> SUFFICES ASSUME ListOK, ClocksInOrder, NEW w \in ReportTimes
                 PROVE  LET all == ReconcileOpen(Project(arrived), w[2])
                            shown == report(w[1], w[2])
                        IN  /\ DOMAIN shown \subseteq DOMAIN all
                            /\ \A r \in DOMAIN all :
                                  all[r].started >= w[1] - Maximum + Second =>
                                      r \in DOMAIN shown /\ shown[r] = all[r]
      BY DEF ReportsShowRecentRuns
    <2>1. arrived \in Seq(Log) /\ DOMAIN arrived = 1..Len(arrived)
      BY DEF ListOK
    <2>2. latest \in Nat /\ \A e \in ToSet(arrived) : e.at <= latest
      BY <2>1, LatestEvent
    <2>3. /\ w[1] \in Nat /\ w[2] \in Nat /\ w[1] % Second = 0 /\ latest <= w[2]
          /\ w[2] < w[1] + Day
      <3>1. w \in {x \in (0..(latest + Grace)) \X (latest..(latest + Grace)) :
                      x[1] % Second = 0 /\ x[1] <= x[2] /\ x[2] < x[1] + Day}
        BY DEF ReportTimes
      <3>2. Grace \in Nat
        BY ProjectorAssumption
      <3> HIDE DEF latest
      <3>3. w[1] \in 0..(latest + Grace) /\ w[2] \in latest..(latest + Grace)
        BY <3>1
      <3> QED  BY <2>2, <3>1, <3>2, <3>3
    <2> HIDE DEF latest
    <2> DEFINE from == w[1] - Maximum
               to == w[1] + Day
               m == from + Second
               D == {i \in DOMAIN arrived : /\ textOrder(from) <= textOrder(arrived[i].at)
                                            /\ textOrder(arrived[i].at) < textOrder(to)}
               u == Events(from, to)
    <2>4. from \in Int /\ to \in Int /\ m \in Int /\ to % Second = 0
      <3>1. Maximum \in Nat /\ Day \in Nat /\ Day % Second = 0
        BY ProjectorAssumption, ArrivalAssumption
      <3> QED  BY <2>3, <3>1 DEF Second
    <2>5. u \in Seq(Log) /\ ToSet(u) = {arrived[i] : i \in D}
      <3>1. u = kept(arrived, D)
        BY DEF Events
      <3>2. D \in SUBSET DOMAIN arrived
        OBVIOUS
      <3> HIDE DEF D, u
      <3> QED  BY <2>1, <3>1, <3>2, KeptEvents
    <2> DEFINE b1 == Project(u)
               a1 == Project(arrived)
    <2>6. report(w[1], w[2]) = ReconcileOpen(b1, w[2])
      BY DEF report
    <2>7. \A e \in ToSet(arrived) : e \notin ToSet(u) => e.at < m
      <3> SUFFICES ASSUME NEW i \in DOMAIN arrived, ~(arrived[i].at < m) PROVE i \in D
        BY <2>5 DEF ToSet
      <3>1. arrived[i] \in LogEvent
        BY <2>1, ArrivalAssumption
      <3>2. arrived[i].at \in Nat /\ arrived[i].at <= latest
        BY <2>2, <3>1 DEF LogEvent, ToSet
      <3>3. arrived[i].at \in Int /\ arrived[i].at >= from + Second /\ arrived[i].at < to
        BY <2>2, <2>3, <2>4, <3>2
      <3> HIDE DEF from, to, m
      <3>4. textOrder(from) <= textOrder(arrived[i].at) /\ textOrder(arrived[i].at) < textOrder(to)
        BY <2>4, <3>3, TextOrderKeeps
      <3> QED  BY <3>4
    <2>8. ToSet(u) \subseteq ToSet(arrived)
      BY <2>5 DEF ToSet
    <2> HIDE DEF u, D
    <2>9. PICK a, b : /\ Plain(a) /\ Plain(b) /\ SameRecent(a, b, m)
                      /\ a1 = a.runs /\ b1 = b.runs
      <3> HIDE DEF m
      <3> QED  BY <2>1, <2>4, <2>5, <2>7, <2>8, RecentRuns DEF ClocksInOrder
    <2> DEFINE all == ReconcileOpen(a1, w[2])
               shown == ReconcileOpen(b1, w[2])
    <2>10. DOMAIN shown = DOMAIN b1 /\ DOMAIN all = DOMAIN a1
      BY DEF ReconcileOpen
    <2>11. \A r \in DOMAIN a1 : all[r].started = a1[r].started
      <3> SUFFICES ASSUME NEW r \in DOMAIN a1 PROVE all[r].started = a1[r].started
        OBVIOUS
      <3>1. a1[r] \in Run
        BY <2>9 DEF Plain
      <3>2. all[r] = IF IsOpen(a1[r]) /\ w[2] >= leaseEnd(a1[r])
                     THEN closeRun(a1[r], leaseEnd(a1[r]), "abandoned", "lease_expired") ELSE a1[r]
        BY DEF ReconcileOpen
      <3> HIDE DEF all
      <3>3. closeRun(a1[r], leaseEnd(a1[r]), "abandoned", "lease_expired").started = a1[r].started
        BY <3>1 DEF closeRun, Run
      <3> QED  BY <3>2, <3>3
    <2>12. \A r \in DOMAIN a1 : r \in DOMAIN b1 /\ a1[r] = b1[r] => all[r] = shown[r]
      BY DEF ReconcileOpen
    <2> HIDE DEF a1, b1, all, shown
    <2>13. \A r \in DOMAIN a1 : a1[r].started >= m => r \in DOMAIN b1 /\ b1[r] = a1[r]
      BY <2>9 DEF SameRecent, Recent
    <2>14. DOMAIN b1 \subseteq DOMAIN a1
      BY <2>9 DEF SameRecent
    <2>15. \A r \in DOMAIN all : all[r].started >= m => r \in DOMAIN shown /\ shown[r] = all[r]
      BY <2>10, <2>11, <2>12, <2>13
    <2> QED  BY <2>6, <2>10, <2>14, <2>15 DEF all, shown, a1
  <1> QED  BY <1>1, ArrivalListOK, PTL
=============================================================================
