----------------------------- MODULE HookProofs -----------------------------
(***************************************************************************)
(* The hook command and what surrounds it, for any number of hooks,        *)
(* sessions, projects, heartbeats and faults.  First what the command      *)
(* keeps true up to the queue, whatever follows it: the inductive          *)
(* invariant of module Hooks, one lemma per action, and what it implies.   *)
(* Then the two specifications that go on from there, HookSync and         *)
(* WakapiImport.                                                           *)
(***************************************************************************)
EXTENDS HookSync, WakapiImport, ListProofs

-----------------------------------------------------------------------------
\* The row of hook_heartbeats is the latest of the recorded heartbeats, and a
\* session has no two at one time.
HeartbeatIsLatest ==
    \A s \in Sessions :
        /\ heartbeat[s] = None => beats[s] = {}
        /\ heartbeat[s] # None =>
              /\ heartbeat[s] \in beats[s]
              /\ \A b \in beats[s] : b = heartbeat[s] \/ b.at < heartbeat[s].at

BeatsAreDistinct ==
    \A s \in Sessions : \A b, c \in beats[s] : b.at = c.at => b = c

\* A hook that has not moved the heartbeat has no interval; one that has holds
\* work of its session that ends at its own time; past the queue it is stored.
ItemsAreWork ==
    \A p \in Processes :
        /\ hook[p].phase \in {"idle", "started", "ready"} => hook[p].item = {}
        /\ hook[p].phase \in {"queued", "syncing", "posting", "synced"} => hook[p].item \subseteq stored
        /\ \A i \in hook[p].item : i.to = hook[p].now /\ i \in Worked(hook[p].session)

\* A hook that has looked at the cutover started no earlier, or was overtaken;
\* there is no heartbeat without a cutover.
CutoverComesFirst ==
    /\ cutover = None =>
          /\ \A p \in Processes : hook[p].phase \in {"idle", "started"}
          /\ \A s \in Sessions : beats[s] = {}
    /\ cutover # None =>
          /\ cutover <= clock
          /\ \A p \in Processes :
                hook[p].phase # "idle" => hook[p].now >= cutover \/ hook[p].now \in overtaken
          /\ \A s \in Sessions : \A b \in beats[s] : b.at >= cutover \/ b.at \in overtaken
    /\ \A p \in Processes : hook[p].phase # "idle" => hook[p].now <= clock

HookInv ==
    /\ HooksTypeOK
    /\ HeartbeatIsLatest /\ BeatsAreDistinct /\ ItemsAreWork
    /\ CutoverComesFirst
    /\ MissingTimeHasACause

-----------------------------------------------------------------------------
\* The work that a set of heartbeats makes: Worked, as a function of the set.
WorkOf(s, B) ==
    {i \in {[session |-> s, project |-> b.project, from |-> b.at, to |-> c.at] : b \in B, c \in B} :
        /\ i.from < i.to /\ i.to - i.from <= Timeout
        /\ \A b \in B : ~(i.from < b.at /\ b.at < i.to)}

LEMMA WorkedIsWorkOf ==
    \A s \in Sessions : Worked(s) = WorkOf(s, beats[s]) /\ Worked(s)' = WorkOf(s, beats'[s])
BY DEF Worked, WorkOf

\* The work of a session depends on its heartbeats alone.
LEMMA WorkedFrame ==
    ASSUME NEW s \in Sessions, beats'[s] = beats[s]
    PROVE  Worked(s)' = Worked(s)
BY WorkedIsWorkOf

\* An interval of work is an interval between two heartbeats ...
LEMMA WorkOfFacts ==
    ASSUME NEW s \in Sessions, NEW B \in SUBSET Heartbeat, NEW i \in WorkOf(s, B)
    PROVE  /\ i \in Intervals /\ i.session = s
           /\ i.from < i.to /\ i.to - i.from <= Timeout
           /\ \E b \in B, c \in B :
                 i = [session |-> s, project |-> b.project, from |-> b.at, to |-> c.at]
           /\ \A b \in B : ~(i.from < b.at /\ b.at < i.to)
BY HooksAssumption DEF WorkOf, Intervals, Heartbeat, Time

LEMMA WorkedFacts ==
    ASSUME HooksTypeOK, NEW s \in Sessions, NEW i \in Worked(s)
    PROVE  /\ i \in Intervals /\ i.session = s
           /\ i.from < i.to /\ i.to - i.from <= Timeout
           /\ \E b \in beats[s] : b.at = i.from /\ b.project = i.project
           /\ \E c \in beats[s] : c.at = i.to
           /\ \A b \in beats[s] : ~(i.from < b.at /\ b.at < i.to)
<1>1. beats[s] \in SUBSET Heartbeat /\ i \in WorkOf(s, beats[s])
  BY WorkedIsWorkOf DEF HooksTypeOK
<1>2. PICK b \in beats[s], c \in beats[s] :
          i = [session |-> s, project |-> b.project, from |-> b.at, to |-> c.at]
  BY <1>1, WorkOfFacts
<1> QED
  BY <1>1, <1>2, WorkOfFacts

\* ... and, conversely, two heartbeats with none in between, close enough,
\* enclose work.
LEMMA WorkOfIntro ==
    ASSUME NEW s \in Sessions, NEW B, NEW b \in B, NEW c \in B,
           b.at < c.at, c.at - b.at <= Timeout,
           \A d \in B : ~(b.at < d.at /\ d.at < c.at)
    PROVE  [session |-> s, project |-> b.project, from |-> b.at, to |-> c.at] \in WorkOf(s, B)
<1> DEFINE F(x, y) == [session |-> s, project |-> x.project, from |-> x.at, to |-> y.at]
           work == {F(x, y) : x \in B, y \in B}
<1>1. F(b, c).from = b.at /\ F(b, c).to = c.at
  OBVIOUS
<1>2. WorkOf(s, B) = {i \in work : /\ i.from < i.to /\ i.to - i.from <= Timeout
                                   /\ \A d \in B : ~(i.from < d.at /\ d.at < i.to)}
  BY DEF WorkOf
<1> HIDE DEF F
<1>3. F(b, c) \in work
  OBVIOUS
<1> HIDE DEF work
<1>4. F(b, c) \in WorkOf(s, B)
  BY <1>1, <1>2, <1>3
<1> QED
  BY <1>4 DEF F

\* Two intervals of work of a session that overlap are the same.
LEMMA WorkIsDisjoint ==
    ASSUME HooksTypeOK, BeatsAreDistinct, NEW s \in Sessions,
           NEW i \in Worked(s), NEW k \in Worked(s), Overlap(i, k)
    PROVE  i = k
<1>1. /\ i \in Intervals /\ i.session = s
      /\ \A b \in beats[s] : ~(i.from < b.at /\ b.at < i.to)
      /\ i.from < i.to
  BY WorkedFacts
<1>2. /\ k \in Intervals /\ k.session = s
      /\ \A b \in beats[s] : ~(k.from < b.at /\ b.at < k.to)
      /\ k.from < k.to
  BY WorkedFacts
<1>3. PICK b \in beats[s] : b.at = i.from /\ b.project = i.project
  BY WorkedFacts
<1>4. PICK c \in beats[s] : c.at = k.from /\ c.project = k.project
  BY WorkedFacts
<1>5. PICK d \in beats[s] : d.at = i.to
  BY WorkedFacts
<1>6. PICK e \in beats[s] : e.at = k.to
  BY WorkedFacts
<1>7. i.from = k.from /\ i.to = k.to
  BY <1>1, <1>2, <1>3, <1>4, <1>5, <1>6, HooksAssumption DEF Intervals, Time, Overlap
<1>8. b = c
  BY <1>3, <1>4, <1>7 DEF BeatsAreDistinct
<1>9. i.project = k.project
  BY <1>3, <1>4, <1>8
<1> QED
  BY <1>1, <1>2, <1>7, <1>9 DEF Intervals

\* The inductive invariant implies that queued time is disjoint.
LEMMA HookInvImpliesDisjoint ==
    ASSUME HookInv PROVE HookTimeIsDisjoint
<1> USE DEF HookInv
<1>1. ASSUME NEW i \in stored
      PROVE  \E s \in Sessions : i \in Worked(s) /\ i.session = s
  <2>1. PICK s \in Sessions : i \in Worked(s)
    BY DEF MissingTimeHasACause
  <2> QED
    BY <2>1, WorkedFacts
<1>2. ASSUME NEW i \in stored
      PROVE  i.from < i.to /\ i.to - i.from <= Timeout
  BY <1>1, WorkedFacts
<1>3. ASSUME NEW i \in stored, NEW k \in stored, i # k, i.session = k.session
      PROVE  ~Overlap(i, k)
  BY <1>1, <1>3, WorkIsDisjoint
<1> QED
  BY <1>2, <1>3 DEF HookTimeIsDisjoint

-----------------------------------------------------------------------------
\* The actions, one by one.

LEMMA HooksInitInv ==
    ASSUME HooksInit PROVE HookInv
<1> USE DEF HooksInit
<1>1. NoHook \in Hook
  BY DEF NoHook, Hook
<1>2. \A p \in Processes : hook[p].phase = "idle" /\ hook[p].item = {}
  BY DEF NoHook
<1>3. \A s \in Sessions : heartbeat[s] = None /\ beats[s] = {}
  OBVIOUS
<1>4. HooksTypeOK
  BY <1>1, <1>2, HooksAssumption DEF HooksTypeOK, Time, Heartbeat
<1>5. HeartbeatIsLatest /\ BeatsAreDistinct /\ ItemsAreWork
  BY <1>2, <1>3 DEF HeartbeatIsLatest, BeatsAreDistinct, ItemsAreWork
<1>6. CutoverComesFirst
  BY <1>2, <1>3 DEF CutoverComesFirst
<1>7. \A s \in Sessions : Worked(s) = {}
  BY <1>3 DEF Worked
<1>8. MissingTimeHasACause
  BY <1>7 DEF MissingTimeHasACause
<1> QED
  BY <1>4, <1>5, <1>6, <1>8 DEF HookInv

\* A step that records no heartbeat keeps what is known of them.
LEMMA HeartbeatFrame ==
    ASSUME HookInv, UNCHANGED <<heartbeat, beats>>
    PROVE  HeartbeatIsLatest' /\ BeatsAreDistinct'
BY DEF HookInv, HeartbeatIsLatest, BeatsAreDistinct

LEMMA TickStep ==
    ASSUME HookInv, Tick PROVE HookInv'
<1> USE DEF Tick, HookInv
<1>1. HooksTypeOK'
  BY HooksAssumption DEF HooksTypeOK, Time
<1>2. HeartbeatIsLatest' /\ BeatsAreDistinct'
  BY HeartbeatFrame
<1>3. ItemsAreWork'
  BY DEF ItemsAreWork, Worked
<1>4. CutoverComesFirst'
  BY HooksAssumption DEF CutoverComesFirst, HooksTypeOK, Time
<1>5. MissingTimeHasACause'
  BY DEF MissingTimeHasACause, InFlight, Worked
<1> QED
  BY <1>1, <1>2, <1>3, <1>4, <1>5

LEMMA HookStartStep ==
    ASSUME HookInv, NEW p \in Processes, NEW s \in Sessions, NEW j \in Projects, HookStart(p, s, j)
    PROVE  HookInv'
<1> DEFINE h == [phase |-> "started", session |-> s, project |-> j, now |-> clock, item |-> {}]
<1> USE DEF HookInv
<1>1. h \in Hook /\ h.phase = "started" /\ h.session = s /\ h.project = j /\ h.now = clock /\ h.item = {}
  BY DEF HooksTypeOK, Hook
<1> HIDE DEF h
<1>2. /\ hook' = [hook EXCEPT ![p] = h] /\ hook[p].phase = "idle"
      /\ started < MaxHooks /\ started' = started + 1
      /\ UNCHANGED <<clock, cutover, heartbeat, stored, faults, beats, dropped, overtaken>>
  BY DEF HookStart, h
<1>3. hook'[p] = h /\ \A q \in Processes \ {p} : hook'[q] = hook[q]
  BY <1>2 DEF HooksTypeOK
<1>4. HooksTypeOK'
  BY <1>1, <1>2, <1>3, HooksAssumption DEF HooksTypeOK, Time
<1>5. HeartbeatIsLatest' /\ BeatsAreDistinct'
  BY <1>2, HeartbeatFrame
<1>6. \A t \in Sessions : Worked(t)' = Worked(t)
  BY <1>2, WorkedFrame
<1>7. ItemsAreWork'
  BY <1>1, <1>2, <1>3, <1>6 DEF ItemsAreWork, HooksTypeOK, Worked
<1>8. CutoverComesFirst'
  BY <1>1, <1>2, <1>3, HooksAssumption DEF CutoverComesFirst, HooksTypeOK, Time
<1>9. hook[p].item = {}
  BY <1>2 DEF ItemsAreWork
<1>10. MissingTimeHasACause'
  BY <1>2, <1>3, <1>6, <1>9 DEF MissingTimeHasACause, InFlight
<1> QED
  BY <1>4, <1>5, <1>7, <1>8, <1>10

LEMMA EnsureTimeMetadataStep ==
    ASSUME HookInv, NEW p \in Processes, EnsureTimeMetadata(p)
    PROVE  HookInv'
<1> USE DEF HookInv
<1>1. /\ hook[p].phase = "started" /\ hook' = [hook EXCEPT ![p].phase = "ready"]
      /\ UNCHANGED <<clock, heartbeat, stored, started, faults, beats, dropped>>
  BY DEF EnsureTimeMetadata, Starting
<1>2. /\ hook[p] \in Hook /\ hook'[p] \in Hook /\ hook'[p].phase = "ready"
      /\ hook'[p].session = hook[p].session /\ hook'[p].project = hook[p].project
      /\ hook'[p].now = hook[p].now /\ hook'[p].item = hook[p].item
      /\ \A q \in Processes \ {p} : hook'[q] = hook[q]
      /\ hook' \in [Processes -> Hook]
  BY <1>1 DEF HooksTypeOK, Hook
<1>3. hook[p].now \in Time /\ hook[p].item = {}
  BY <1>1 DEF HooksTypeOK, ItemsAreWork
<1>4. cutover' \in Time \cup {None} /\ overtaken' \subseteq Time
  <2>1. CASE cutover = None
    <3>1. /\ cutover' = hook[p].now
          /\ overtaken' = {t \in {hook[q].now : q \in Starting} : t < hook[p].now}
      BY <2>1 DEF EnsureTimeMetadata
    <3>2. \A q \in Starting : hook[q].now \in Time
      BY DEF Starting, HooksTypeOK
    <3> QED
      BY <1>3, <3>1, <3>2
  <2>2. CASE cutover # None
    BY <2>2 DEF EnsureTimeMetadata, HooksTypeOK
  <2> QED
    BY <2>1, <2>2
<1>5. HooksTypeOK'
  BY <1>1, <1>2, <1>4 DEF HooksTypeOK
<1>6. HeartbeatIsLatest' /\ BeatsAreDistinct'
  BY <1>1, HeartbeatFrame
<1>7. \A t \in Sessions : Worked(t)' = Worked(t)
  BY <1>1, WorkedFrame
<1>8. ItemsAreWork'
  BY <1>1, <1>2, <1>3, <1>7 DEF ItemsAreWork, HooksTypeOK, Worked
<1>9. CutoverComesFirst'
  <2>1. CASE cutover = None
    <3>1. /\ cutover' = hook[p].now
          /\ overtaken' = {t \in {hook[q].now : q \in Starting} : t < hook[p].now}
      BY <2>1 DEF EnsureTimeMetadata
    <3>2. \A q \in Processes : hook[q].phase \in {"idle", "started"}
      BY <2>1 DEF CutoverComesFirst
    <3>3. ASSUME NEW q \in Processes, hook'[q].phase # "idle"
          PROVE  /\ hook'[q].now >= cutover' \/ hook'[q].now \in overtaken'
                 /\ hook'[q].now <= clock'
      <4>1. q \in Starting /\ hook'[q].now = hook[q].now /\ hook[q].now \in Time
        BY <1>1, <1>2, <3>2, <3>3 DEF Starting, HooksTypeOK
      <4>2. hook[q].now <= clock
        BY <4>1 DEF CutoverComesFirst, Starting
      <4> QED
        BY <1>1, <1>3, <3>1, <4>1, <4>2, HooksAssumption DEF Time
    <3>4. cutover' <= clock' /\ cutover' # None
      BY <1>1, <1>3, <3>1, HooksAssumption DEF CutoverComesFirst
    <3> QED
      BY <1>1, <2>1, <3>3, <3>4 DEF CutoverComesFirst
  <2>2. CASE cutover # None
    <3>1. UNCHANGED <<cutover, overtaken>>
      BY <2>2 DEF EnsureTimeMetadata
    <3> QED
      BY <1>1, <1>2, <2>2, <3>1 DEF CutoverComesFirst
  <2> QED
    BY <2>1, <2>2
<1>10. MissingTimeHasACause'
  BY <1>1, <1>2, <1>3, <1>7 DEF MissingTimeHasACause, InFlight
<1> QED
  BY <1>5, <1>6, <1>8, <1>9, <1>10

\* A heartbeat later than all others adds the interval since the one before, if
\* it is close enough, and nothing else.
LEMMA WorkGrows ==
    ASSUME NEW s \in Sessions, NEW B \in SUBSET Heartbeat, NEW last \in B, NEW beat \in Heartbeat,
           \A b \in B : b = last \/ b.at < last.at, last.at < beat.at
    PROVE  WorkOf(s, B \cup {beat}) =
               WorkOf(s, B) \cup
               (IF beat.at - last.at <= Timeout
                THEN {[session |-> s, project |-> last.project, from |-> last.at, to |-> beat.at]}
                ELSE {})
<1> DEFINE C == B \cup {beat}
           new == IF beat.at - last.at <= Timeout
                  THEN {[session |-> s, project |-> last.project, from |-> last.at, to |-> beat.at]}
                  ELSE {}
<1>1. /\ C \in SUBSET Heartbeat /\ beat.at \in Nat /\ last.at \in Nat
      /\ \A b \in B : b.at \in Nat /\ b.at < beat.at
  BY HooksAssumption DEF Heartbeat, Time
<1>2. ASSUME NEW i \in WorkOf(s, B)
      PROVE  i \in WorkOf(s, C)
  <2>1. PICK b \in B, c \in B :
            i = [session |-> s, project |-> b.project, from |-> b.at, to |-> c.at]
    BY WorkOfFacts
  <2>2. /\ b.at < c.at /\ c.at - b.at <= Timeout
        /\ \A d \in B : ~(b.at < d.at /\ d.at < c.at)
    BY <2>1, WorkOfFacts
  <2>3. \A d \in C : ~(b.at < d.at /\ d.at < c.at)
    BY <1>1, <2>2
  <2>4. b \in C /\ c \in C
    OBVIOUS
  <2> QED
    BY <2>1, <2>2, <2>3, <2>4, WorkOfIntro
<1>3. ASSUME NEW i \in new
      PROVE  i \in WorkOf(s, C)
  <2>1. \A d \in C : ~(last.at < d.at /\ d.at < beat.at)
    BY <1>1
  <2>2. last \in C /\ beat \in C /\ beat.at - last.at <= Timeout
    OBVIOUS
  <2> QED
    BY <2>1, <2>2, WorkOfIntro
<1>4. ASSUME NEW i \in WorkOf(s, C)
      PROVE  i \in WorkOf(s, B) \cup new
  <2>1. PICK b \in C, c \in C :
            i = [session |-> s, project |-> b.project, from |-> b.at, to |-> c.at]
    BY <1>1, WorkOfFacts
  <2>2. /\ b.at < c.at /\ c.at - b.at <= Timeout
        /\ \A d \in C : ~(b.at < d.at /\ d.at < c.at)
    BY <1>1, <2>1, WorkOfFacts
  <2>3. b \in B
    BY <1>1, <2>2
  <2>4. CASE c \in B
    BY <2>1, <2>2, <2>3, <2>4, WorkOfIntro
  <2>5. CASE c = beat
    <3>1. b = last
      BY <1>1, <2>2, <2>3, <2>5
    <3> QED
      BY <2>1, <2>2, <2>5, <3>1
  <2> QED
    BY <2>4, <2>5
<1> HIDE DEF C, new
<1>5. WorkOf(s, C) = WorkOf(s, B) \cup new
  BY <1>2, <1>3, <1>4
<1> QED
  BY <1>5 DEF C, new

LEMMA AdvanceHookHeartbeatStep ==
    ASSUME HookInv, NEW p \in Processes, AdvanceHookHeartbeat(p)
    PROVE  HookInv'
<1> USE DEF HookInv
<1>0. PICK s, now, beat, item :
          /\ s = hook[p].session /\ now = hook[p].now
          /\ beat = [at |-> now, project |-> hook[p].project]
          /\ item = HookInterval(s, now)
  OBVIOUS
<1>1. /\ hook[p].phase = "ready" /\ hook[p].item = {} /\ hook[p] \in Hook
      /\ s \in Sessions /\ now \in Time /\ now \in Nat /\ beat \in Heartbeat /\ beat.at = now
      /\ UNCHANGED <<clock, cutover, stored, started, faults, dropped, overtaken>>
  BY <1>0, HooksAssumption DEF AdvanceHookHeartbeat, ItemsAreWork, HooksTypeOK, Heartbeat, Time
<1>2. CASE ~later(s, now)
  <2>1. hook' = [hook EXCEPT ![p].phase = "advanced"] /\ UNCHANGED <<heartbeat, beats>>
    BY <1>0, <1>2 DEF AdvanceHookHeartbeat
  <2>2. /\ hook'[p].phase = "advanced" /\ hook'[p].item = {} /\ hook'[p].now = now
        /\ hook'[p].session = s /\ hook'[p].project = hook[p].project
        /\ \A q \in Processes \ {p} : hook'[q] = hook[q]
        /\ hook' \in [Processes -> Hook]
    BY <1>0, <1>1, <2>1 DEF HooksTypeOK, Hook
  <2>3. HooksTypeOK'
    BY <1>1, <2>1, <2>2 DEF HooksTypeOK
  <2>4. \A t \in Sessions : Worked(t)' = Worked(t)
    BY <2>1, WorkedFrame
  <2>5. HeartbeatIsLatest' /\ BeatsAreDistinct'
    BY <2>1, HeartbeatFrame
  <2>6. ItemsAreWork'
    BY <1>1, <2>1, <2>2, <2>4 DEF ItemsAreWork, HooksTypeOK, Worked
  <2>7. CutoverComesFirst'
    BY <1>1, <2>1, <2>2 DEF CutoverComesFirst
  <2>8. MissingTimeHasACause'
    BY <1>1, <2>1, <2>2, <2>4 DEF MissingTimeHasACause, InFlight
  <2> QED
    BY <2>3, <2>5, <2>6, <2>7, <2>8
<1>3. CASE later(s, now)
  <2>1. /\ heartbeat' = [heartbeat EXCEPT ![s] = beat]
        /\ beats' = [beats EXCEPT ![s] = @ \cup {beat}]
        /\ hook' = [hook EXCEPT ![p].phase = "advanced", ![p].item = item]
    BY <1>0, <1>3 DEF AdvanceHookHeartbeat
  <2>2. /\ heartbeat \in [Sessions -> Heartbeat \cup {None}]
        /\ beats \in [Sessions -> SUBSET Heartbeat]
        /\ hook \in [Processes -> Hook]
    BY DEF HooksTypeOK
  <2>3. /\ heartbeat'[s] = beat /\ \A t \in Sessions \ {s} : heartbeat'[t] = heartbeat[t]
        /\ beats'[s] = beats[s] \cup {beat} /\ \A t \in Sessions \ {s} : beats'[t] = beats[t]
        /\ heartbeat' \in [Sessions -> Heartbeat \cup {None}]
        /\ beats' \in [Sessions -> SUBSET Heartbeat]
    BY <1>1, <2>1, <2>2
  <2>4. /\ \A b \in beats[s] : b.at < now /\ b.at \in Nat
        /\ beat # None
    BY <1>1, <1>3, <2>2, HooksAssumption DEF HeartbeatIsLatest, later, Heartbeat, Time
  <2>5. Worked(s)' = Worked(s) \cup item
    <3>1. CASE heartbeat[s] = None
      <4>1. beats[s] = {} /\ item = {}
        BY <1>0, <1>1, <3>1 DEF HeartbeatIsLatest, HookInterval
      <4>2. Worked(s)' = {} /\ Worked(s) = {}
        BY <1>1, <2>3, <4>1 DEF Worked
      <4> QED
        BY <4>1, <4>2
    <3>2. CASE heartbeat[s] # None
      <4>1. /\ heartbeat[s] \in beats[s] /\ heartbeat[s].at < now
            /\ \A b \in beats[s] : b = heartbeat[s] \/ b.at < heartbeat[s].at
            /\ beats[s] \in SUBSET Heartbeat
        BY <1>1, <2>2, <2>4, <3>2 DEF HeartbeatIsLatest
      <4>2. item = IF beat.at - heartbeat[s].at <= Timeout
                   THEN {[session |-> s, project |-> heartbeat[s].project,
                          from |-> heartbeat[s].at, to |-> beat.at]}
                   ELSE {}
        BY <1>0, <1>1, <3>2 DEF HookInterval
      <4>3. WorkOf(s, beats[s] \cup {beat}) = WorkOf(s, beats[s]) \cup item
        BY <1>1, <4>1, <4>2, WorkGrows
      <4> QED
        BY <1>1, <2>3, <4>3, WorkedIsWorkOf
    <3> QED
      BY <3>1, <3>2
  <2>6. \A t \in Sessions \ {s} : Worked(t)' = Worked(t)
    BY <2>3, WorkedFrame
  <2>7. \A i \in item : i.to = now /\ i \in Intervals
    <3>1. heartbeat[s] # None => heartbeat[s] \in Heartbeat
      BY <1>1, <2>2
    <3> QED
      BY <1>0, <1>1, <3>1 DEF HookInterval, Intervals, Heartbeat
  <2>8. /\ hook'[p].phase = "advanced" /\ hook'[p].item = item /\ hook'[p].now = now
        /\ hook'[p].session = s /\ hook'[p].project = hook[p].project
        /\ \A q \in Processes \ {p} : hook'[q] = hook[q]
        /\ hook' \in [Processes -> Hook]
    BY <1>0, <1>1, <2>1, <2>2, <2>7 DEF Hook
  <2>9. HooksTypeOK'
    BY <1>1, <2>3, <2>8 DEF HooksTypeOK
  <2>10. HeartbeatIsLatest'
    <3>1. ASSUME NEW t \in Sessions, t # s
          PROVE  /\ heartbeat'[t] = None => beats'[t] = {}
                 /\ heartbeat'[t] # None =>
                      /\ heartbeat'[t] \in beats'[t]
                      /\ \A b \in beats'[t] : b = heartbeat'[t] \/ b.at < heartbeat'[t].at
      BY <2>3, <3>1 DEF HeartbeatIsLatest
    <3>2. /\ heartbeat'[s] # None /\ heartbeat'[s] \in beats'[s]
          /\ \A b \in beats'[s] : b = heartbeat'[s] \/ b.at < heartbeat'[s].at
      BY <1>1, <2>3, <2>4
    <3> QED
      BY <3>1, <3>2 DEF HeartbeatIsLatest
  <2>11. BeatsAreDistinct'
    <3>1. \A b, c \in beats'[s] : b.at = c.at => b = c
      BY <1>1, <2>3, <2>4 DEF BeatsAreDistinct
    <3> QED
      BY <2>3, <3>1 DEF BeatsAreDistinct
  <2>12. ItemsAreWork'
    <3>1. ASSUME NEW q \in Processes, q # p
          PROVE  /\ hook'[q].phase \in {"idle", "started", "ready"} => hook'[q].item = {}
                 /\ hook'[q].phase \in {"queued", "syncing", "posting", "synced"} => hook'[q].item \subseteq stored'
                 /\ \A i \in hook'[q].item :
                       i.to = hook'[q].now /\ i \in WorkOf(hook'[q].session, beats'[hook'[q].session])
      <4>1. hook'[q] = hook[q]
        BY <2>8, <3>1
      <4>2. hook[q].item # {} => hook[q].session \in Sessions
        BY DEF ItemsAreWork, HooksTypeOK
      <4>3. \A t \in Sessions : Worked(t) \subseteq Worked(t)'
        BY <2>5, <2>6
      <4> QED
        BY <1>1, <4>1, <4>2, <4>3, WorkedIsWorkOf DEF ItemsAreWork
    <3>2. \A i \in hook'[p].item :
              i.to = hook'[p].now /\ i \in WorkOf(hook'[p].session, beats'[hook'[p].session])
      BY <1>1, <2>5, <2>7, <2>8, WorkedIsWorkOf
    <3> QED
      BY <2>8, <3>1, <3>2 DEF ItemsAreWork, Worked, WorkOf
  <2>13. CutoverComesFirst'
    <3>1. cutover # None /\ (now >= cutover \/ now \in overtaken)
      BY <1>0, <1>1 DEF CutoverComesFirst
    <3> QED
      BY <1>0, <1>1, <2>3, <2>8, <3>1 DEF CutoverComesFirst
  <2>14. MissingTimeHasACause'
    <3>1. ASSUME NEW t \in Sessions, NEW i \in Worked(t)'
          PROVE  i \in stored' \/ InFlight(i)' \/ i \in dropped'
      <4>1. CASE i \in Worked(t)
        <5>1. i \in stored \/ i \in dropped \/ InFlight(i)
          BY <4>1 DEF MissingTimeHasACause
        <5>2. InFlight(i) => InFlight(i)'
          BY <1>1, <2>8 DEF InFlight
        <5> QED
          BY <1>1, <5>1, <5>2
      <4>2. CASE i \in item
        BY <2>8, <4>2 DEF InFlight
      <4> QED
        BY <2>5, <2>6, <4>1, <4>2
    <3>2. stored' \subseteq UNION {Worked(t)' : t \in Sessions}
      BY <1>1, <2>5, <2>6 DEF MissingTimeHasACause
    <3> QED
      BY <3>1, <3>2 DEF MissingTimeHasACause
  <2> QED
    BY <2>9, <2>10, <2>11, <2>12, <2>13, <2>14
<1> QED
  BY <1>2, <1>3

LEMMA HookEnqueueStep ==
    ASSUME HookInv, NEW p \in Processes, HookEnqueue(p)
    PROVE  HookInv'
<1> USE DEF HookInv
<1>1. /\ hook[p].phase = "advanced" /\ stored' = stored \cup hook[p].item
      /\ hook' = [hook EXCEPT ![p].phase = "queued"]
      /\ UNCHANGED <<clock, cutover, heartbeat, started, faults, beats, dropped, overtaken>>
  BY DEF HookEnqueue
<1>2. /\ hook'[p].phase = "queued" /\ hook'[p].item = hook[p].item /\ hook'[p].now = hook[p].now
      /\ hook'[p].session = hook[p].session /\ hook'[p].project = hook[p].project
      /\ hook[p].session \in Sessions /\ hook[p].item \subseteq Intervals
      /\ \A q \in Processes \ {p} : hook'[q] = hook[q]
      /\ hook' \in [Processes -> Hook]
  BY <1>1 DEF HooksTypeOK, Hook
<1>3. HooksTypeOK'
  BY <1>1, <1>2 DEF HooksTypeOK
<1>4. \A t \in Sessions : Worked(t)' = Worked(t)
  BY <1>1, WorkedFrame
<1>5. HeartbeatIsLatest' /\ BeatsAreDistinct'
  BY <1>1, HeartbeatFrame
<1>6. ItemsAreWork'
  BY <1>1, <1>2, <1>4 DEF ItemsAreWork, HooksTypeOK, Worked
<1>7. CutoverComesFirst'
  BY <1>1, <1>2 DEF CutoverComesFirst
<1>8. hook[p].item \subseteq UNION {Worked(t) : t \in Sessions}
  BY <1>2 DEF ItemsAreWork
<1>9. MissingTimeHasACause'
  BY <1>1, <1>2, <1>4, <1>8 DEF MissingTimeHasACause, InFlight
<1> QED
  BY <1>3, <1>5, <1>6, <1>7, <1>9

\* A hook goes on past the queue, or ends there, and nothing else changes.
LEMMA PastTheQueue ==
    ASSUME HookInv, NEW p \in Processes, NEW h \in Hook,
           hook[p].phase \in {"queued", "syncing", "posting", "synced"},
           \/ h = NoHook
           \/ /\ h.phase \in {"queued", "syncing", "posting", "synced"}
              /\ h.session = hook[p].session /\ h.project = hook[p].project
              /\ h.now = hook[p].now /\ h.item = hook[p].item,
           hook' = [hook EXCEPT ![p] = h],
           UNCHANGED <<clock, cutover, heartbeat, stored, started, faults, beats, dropped, overtaken>>
    PROVE  HookInv'
<1> USE DEF HookInv
<1>1. /\ hook'[p] = h /\ \A q \in Processes \ {p} : hook'[q] = hook[q]
      /\ hook' \in [Processes -> Hook] /\ hook[p].item \subseteq stored
      /\ h.phase = "idle" => h.item = {}
      /\ h.phase \in {"idle", "queued", "syncing", "posting", "synced"}
  BY DEF HooksTypeOK, ItemsAreWork, NoHook
<1>2. h.phase # "idle" =>
          /\ h.session = hook[p].session /\ h.project = hook[p].project
          /\ h.now = hook[p].now /\ h.item = hook[p].item
  BY DEF NoHook
<1>3. HooksTypeOK'
  BY <1>1, <1>2 DEF HooksTypeOK
<1>4. \A t \in Sessions : Worked(t)' = Worked(t)
  BY WorkedFrame
<1>5. HeartbeatIsLatest' /\ BeatsAreDistinct'
  BY HeartbeatFrame
<1>6. ItemsAreWork'
  BY <1>1, <1>2, <1>4 DEF ItemsAreWork, HooksTypeOK, Worked
<1>7. CutoverComesFirst'
  BY <1>1, <1>2 DEF CutoverComesFirst
<1>8. MissingTimeHasACause'
  BY <1>1, <1>2, <1>4 DEF MissingTimeHasACause, InFlight
<1> QED
  BY <1>3, <1>5, <1>6, <1>7, <1>8

LEMMA HookDieStep ==
    ASSUME HookInv, NEW p \in Processes, HookDie(p)
    PROVE  HookInv'
<1> USE DEF HookInv
<1>1. /\ hook[p].phase # "idle" /\ hook' = [hook EXCEPT ![p] = NoHook]
      /\ faults < MaxFaults /\ faults' = faults + 1 /\ dropped' = dropped \cup hook[p].item
      /\ UNCHANGED <<clock, cutover, heartbeat, stored, started, beats, overtaken>>
  BY DEF HookDie
<1>2. /\ NoHook \in Hook /\ NoHook.phase = "idle" /\ NoHook.item = {}
      /\ hook[p].item \subseteq Intervals
  BY DEF NoHook, Hook, HooksTypeOK
<1>3. /\ hook'[p] = NoHook /\ \A q \in Processes \ {p} : hook'[q] = hook[q]
      /\ hook' \in [Processes -> Hook]
  BY <1>1, <1>2 DEF HooksTypeOK
<1>4. HooksTypeOK'
  BY <1>1, <1>2, <1>3, HooksAssumption DEF HooksTypeOK
<1>5. \A t \in Sessions : Worked(t)' = Worked(t)
  BY <1>1, WorkedFrame
<1>6. HeartbeatIsLatest' /\ BeatsAreDistinct'
  BY <1>1, HeartbeatFrame
<1>7. ItemsAreWork'
  BY <1>1, <1>2, <1>3, <1>5 DEF ItemsAreWork, HooksTypeOK, Worked
<1>8. CutoverComesFirst'
  BY <1>1, <1>2, <1>3 DEF CutoverComesFirst
<1>9. MissingTimeHasACause'
  BY <1>1, <1>2, <1>3, <1>5 DEF MissingTimeHasACause, InFlight
<1> QED
  BY <1>4, <1>6, <1>7, <1>8, <1>9

\* Every step of a hook up to the queue.
LEMMA HookStepInv ==
    ASSUME HookInv, NEW p \in Processes, HookStep(p) PROVE HookInv'
BY HookStartStep, EnsureTimeMetadataStep, AdvanceHookHeartbeatStep, HookEnqueueStep, HookDieStep
   DEF HookStep

LEMMA HookStutter ==
    ASSUME HookInv, UNCHANGED hookVars PROVE HookInv'
BY DEF HookInv, HooksTypeOK, HeartbeatIsLatest, BeatsAreDistinct, ItemsAreWork, CutoverComesFirst,
       MissingTimeHasACause, InFlight, Worked, hookVars

-----------------------------------------------------------------------------
(***************************************************************************)
(* HookSync: no queued time is counted twice, none is lost without a       *)
(* cause, and a hook that ends well passes none over without one.          *)
(***************************************************************************)

\* The hook p may leave the interval i when it ends.
Covered(p, i) == hook[p].now \in CouldMiss(i)

\* The time of the last synchronisation is that of a hook that read the queue,
\* and could miss what is not delivered.
LastSyncIsKnown ==
    lastSync # None => lastSync \in reads /\ \A i \in unsent : lastSync \in CouldMiss(i)

\* What a hook has read and not yet delivered: all that was there, or a full batch.
BatchIsComplete ==
    \A p \in Processes : hook[p].phase = "posting" =>
        /\ hook[p].now \in reads
        /\ \A i \in stored :
              \/ <<i, hook[p].now>> \in early
              \/ Cardinality(batch[p]) >= Batch
              \/ hookIntervalEvents(i) \subseteq sent \cup batch[p]

\* After its delivery a hook has a reason for what is left.
DeliveryIsComplete ==
    \A p \in Processes : hook[p].phase = "synced" =>
        hook[p].now \in reads /\ \A i \in unsent : Covered(p, i)

SyncInv ==
    /\ HookInv /\ SyncTypeOK
    /\ LastSyncIsKnown /\ BatchIsComplete /\ DeliveryIsComplete

LEMMA SyncInvInit ==
    ASSUME SyncInit PROVE SyncInv
<1>1. HookInv
  BY HooksInitInv DEF SyncInit
<1>2. SyncTypeOK
  BY <1>1 DEF SyncInit, SyncTypeOK, HookInv, HooksInit, queue
<1>3. \A p \in Processes : hook[p].phase = "idle"
  BY DEF SyncInit, HooksInit, NoHook
<1> QED
  BY <1>1, <1>2, <1>3
     DEF SyncInit, SyncInv, LastSyncIsKnown, BatchIsComplete, DeliveryIsComplete

\* A step up to the queue leaves every hook past the queue where it is, or ends it.
LEMMA CollectKeepsTheRest ==
    ASSUME HookInv, NEW p \in Processes, HookStep(p)
    PROVE  /\ stored \subseteq stored'
           /\ \A q \in Processes : hook'[q].phase \in {"posting", "synced"} => hook'[q] = hook[q]
<1>1. hook \in [Processes -> Hook]
  BY DEF HookInv, HooksTypeOK
<1>2. CASE \E s \in Sessions, j \in Projects : HookStart(p, s, j)
  BY <1>1, <1>2 DEF HookStart
<1>3. CASE EnsureTimeMetadata(p)
  BY <1>1, <1>3 DEF EnsureTimeMetadata, Hook
<1>4. CASE AdvanceHookHeartbeat(p)
  <2>1. hook'[p].phase = "advanced" /\ UNCHANGED stored
    BY <1>1, <1>4 DEF AdvanceHookHeartbeat, Hook
  <2>2. \A q \in Processes \ {p} : hook'[q] = hook[q]
    BY <1>1, <1>4 DEF AdvanceHookHeartbeat
  <2> QED
    BY <2>1, <2>2
<1>5. CASE HookEnqueue(p)
  BY <1>1, <1>5 DEF HookEnqueue, Hook
<1>6. CASE HookDie(p)
  BY <1>1, <1>6 DEF HookDie, NoHook
<1> QED
  BY <1>2, <1>3, <1>4, <1>5, <1>6 DEF HookStep

LEMMA CollectStep ==
    ASSUME SyncInv, NEW p \in Processes, Collect(p) PROVE SyncInv'
<1> USE DEF SyncInv, Collect
<1>1. HookInv'
  BY HookStepInv
<1>2. /\ stored \subseteq stored'
      /\ \A q \in Processes : hook'[q].phase \in {"posting", "synced"} => hook'[q] = hook[q]
  BY CollectKeepsTheRest
<1>3. /\ UNCHANGED <<batch, sent, lastSync, reads, full>>
      /\ early' = early \cup (stored' \ stored) \X reads
  OBVIOUS
<1>4. SyncTypeOK'
  <2>1. early' \subseteq stored' \X Time
    BY <1>2, <1>3 DEF SyncTypeOK
  <2>2. queue \subseteq queue'
    BY <1>2 DEF queue
  <2> QED
    BY <1>1, <1>3, <2>1, <2>2 DEF SyncTypeOK, HookInv
\* A hook that has read the queue could miss what is queued now.
<1>5. ASSUME NEW i \in unsent', NEW t \in reads, i \in unsent => t \in CouldMiss(i)
      PROVE  t \in CouldMiss(i)'
  <2>1. CASE i \in stored
    <3>1. i \in unsent
      BY <1>3, <2>1 DEF unsent
    <3> QED
      BY <1>3, <1>5, <3>1 DEF CouldMiss
  <2>2. CASE i \notin stored
    <3>1. <<i, t>> \in early'
      BY <1>3, <2>2 DEF unsent
    <3> QED
      BY <1>3, <3>1 DEF CouldMiss
  <2> QED
    BY <2>1, <2>2
<1>6. LastSyncIsKnown'
  BY <1>3, <1>5 DEF LastSyncIsKnown
<1>7. DeliveryIsComplete'
  BY <1>2, <1>3, <1>5 DEF DeliveryIsComplete, Covered
<1>8. BatchIsComplete'
  <2> SUFFICES ASSUME NEW q \in Processes, hook'[q].phase = "posting"
               PROVE  /\ hook[q].now \in reads
                      /\ \A i \in stored' :
                            \/ <<i, hook[q].now>> \in early'
                            \/ Cardinality(batch[q]) >= Batch
                            \/ hookIntervalEvents(i) \subseteq sent \cup batch[q]
    BY <1>2, <1>3 DEF BatchIsComplete
  <2>1. hook[q].phase = "posting" /\ hook[q].now \in reads
    BY <1>2 DEF BatchIsComplete
  <2> QED
    BY <1>3, <2>1 DEF BatchIsComplete
<1> QED
  BY <1>1, <1>4, <1>6, <1>7, <1>8

\* A hook past the queue.
LEMMA TurnKeepsHookInv ==
    ASSUME HookInv, NEW p \in Processes,
           hook[p].phase \in {"queued", "syncing", "posting", "synced"},
           NEW h, \/ h = NoHook
                  \/ \E x \in {"syncing", "posting", "synced"} : h = [hook[p] EXCEPT !.phase = x],
           Turn(p, h)
    PROVE  /\ HookInv' /\ hook'[p] = h
           /\ \A q \in Processes \ {p} : hook'[q] = hook[q]
           /\ UNCHANGED <<stored, early, faults>>
<1>1. hook \in [Processes -> Hook]
  BY DEF HookInv, HooksTypeOK
<1>2. h \in Hook
  BY <1>1 DEF Hook, NoHook
<1>3. h = NoHook \/ /\ h.phase \in {"queued", "syncing", "posting", "synced"}
                    /\ h.session = hook[p].session /\ h.project = hook[p].project
                    /\ h.now = hook[p].now /\ h.item = hook[p].item
  BY <1>1 DEF Hook
<1>4. HookInv'
  BY <1>2, <1>3, PastTheQueue DEF Turn
<1> QED
  BY <1>1, <1>4 DEF Turn

LEMMA SyncDecideStep ==
    ASSUME SyncInv, NEW p \in Processes, SyncDecide(p) PROVE SyncInv'
<1> USE DEF SyncInv
<1>1. PICK h : /\ h = IF skip(p) THEN NoHook ELSE [hook[p] EXCEPT !.phase = "syncing"]
               /\ Turn(p, h)
  BY DEF SyncDecide
<1>2. /\ hook[p].phase = "queued" /\ UNCHANGED <<batch, sent, lastSync, reads, full>>
      /\ hook[p] \in Hook
  BY DEF SyncDecide, HookInv, HooksTypeOK
<1>3. /\ HookInv' /\ hook'[p] = h /\ UNCHANGED <<stored, early>>
      /\ \A q \in Processes \ {p} : hook'[q] = hook[q]
  BY <1>1, <1>2, TurnKeepsHookInv
<1>4. h.phase \in {"idle", "syncing"}
  BY <1>1, <1>2 DEF NoHook, Hook
<1>5. SyncTypeOK' /\ LastSyncIsKnown'
  BY <1>2, <1>3 DEF SyncTypeOK, HookInv, LastSyncIsKnown, unsent, CouldMiss, queue
<1>6. BatchIsComplete'
  BY <1>2, <1>3, <1>4 DEF BatchIsComplete
<1>7. DeliveryIsComplete'
  BY <1>2, <1>3, <1>4 DEF DeliveryIsComplete, Covered, unsent, CouldMiss
<1> QED
  BY <1>3, <1>5, <1>6, <1>7

LEMMA PendingStep ==
    ASSUME SyncInv, NEW p \in Processes, Pending(p) PROVE SyncInv'
<1> USE DEF SyncInv
<1>1. PICK b \in SUBSET pending :
          /\ Cardinality(pending) <= Batch => b = pending
          /\ ~(Cardinality(pending) <= Batch) => Cardinality(b) = Batch
          /\ batch' = [batch EXCEPT ![p] = b]
  BY DEF Pending
<1>2. PICK h : h = [hook[p] EXCEPT !.phase = "posting"] /\ Turn(p, h)
  BY DEF Pending
<1>3. /\ hook[p].phase = "syncing" /\ UNCHANGED <<sent, lastSync, full>>
      /\ reads' = reads \cup {hook[p].now}
      /\ hook[p] \in Hook /\ hook[p].now \in Time
  BY DEF Pending, HookInv, HooksTypeOK
<1>4. /\ HookInv' /\ hook'[p] = h /\ UNCHANGED <<stored, early>>
      /\ \A q \in Processes \ {p} : hook'[q] = hook[q]
  BY <1>2, <1>3, TurnKeepsHookInv
<1>5. h.phase = "posting" /\ h.now = hook[p].now
  BY <1>2, <1>3 DEF Hook
<1>6. /\ batch'[p] = b /\ \A q \in Processes \ {p} : batch'[q] = batch[q]
      /\ batch' \in [Processes -> SUBSET queue]
  BY <1>1 DEF SyncTypeOK, pending
<1>7. SyncTypeOK'
  <2>1. queue' = queue
    BY <1>4 DEF queue
  <2> QED
    BY <1>3, <1>4, <1>6, <2>1 DEF SyncTypeOK, HookInv
<1>8. \A i : CouldMiss(i) \subseteq CouldMiss(i)'
  BY <1>3, <1>4 DEF CouldMiss
<1>9. unsent' = unsent
  BY <1>3, <1>4 DEF unsent
<1>10. LastSyncIsKnown'
  BY <1>3, <1>8, <1>9 DEF LastSyncIsKnown
<1>11. DeliveryIsComplete'
  BY <1>3, <1>4, <1>5, <1>8, <1>9 DEF DeliveryIsComplete, Covered
<1>12. BatchIsComplete'
  <2>1. Cardinality(b) >= Batch \/ b = pending
    BY <1>1, HookSyncAssumption
  <2>2. b = pending => \A i \in stored : hookIntervalEvents(i) \subseteq sent \cup b
    BY DEF pending, queue
  <2>3. \A i \in stored : Cardinality(b) >= Batch \/ hookIntervalEvents(i) \subseteq sent \cup b
    BY <2>1, <2>2
  <2> QED
    BY <1>3, <1>4, <1>5, <1>6, <2>3 DEF BatchIsComplete
<1> QED
  BY <1>4, <1>7, <1>10, <1>11, <1>12

LEMMA SyncOnceStep ==
    ASSUME SyncInv, NEW p \in Processes, SyncOnce(p) PROVE SyncInv'
<1> USE DEF SyncInv
<1>1. PICK h : h = [hook[p] EXCEPT !.phase = "synced"] /\ Turn(p, h)
  BY DEF SyncOnce
<1>2. /\ hook[p].phase = "posting" /\ sent' = sent \cup batch[p]
      /\ full' = IF Cardinality(batch[p] \cap sent') >= Batch THEN full \cup {hook[p].now} ELSE full
      /\ batch' = [batch EXCEPT ![p] = {}]
      /\ UNCHANGED <<lastSync, reads>>
      /\ hook[p] \in Hook /\ hook[p].now \in Time
  BY DEF SyncOnce, HookInv, HooksTypeOK
<1>3. /\ HookInv' /\ hook'[p] = h /\ UNCHANGED <<stored, early>>
      /\ \A q \in Processes \ {p} : hook'[q] = hook[q]
  BY <1>1, <1>2, TurnKeepsHookInv
<1>4. h.phase = "synced" /\ h.now = hook[p].now
  BY <1>1, <1>2 DEF Hook
<1>5. /\ \A q \in Processes \ {p} : batch'[q] = batch[q]
      /\ batch' \in [Processes -> SUBSET queue] /\ batch[p] \subseteq queue
  BY <1>2 DEF SyncTypeOK
<1>6. unsent' \subseteq unsent /\ \A i : CouldMiss(i) \subseteq CouldMiss(i)'
  BY <1>2, <1>3 DEF unsent, CouldMiss
<1>7. LastSyncIsKnown'
  BY <1>2, <1>6 DEF LastSyncIsKnown
<1>8. \A i \in unsent' : hook[p].now \in CouldMiss(i)'
  <2> TAKE i \in unsent'
  <2>1. i \in stored /\ ~(hookIntervalEvents(i) \subseteq sent \cup batch[p])
    BY <1>2, <1>3 DEF unsent
  <2>2. hook[p].now \in reads /\ (<<i, hook[p].now>> \in early \/ Cardinality(batch[p]) >= Batch)
    BY <1>2, <2>1 DEF BatchIsComplete
  <2>3. batch[p] \cap sent' = batch[p]
    BY <1>2
  <2> QED
    BY <1>2, <1>3, <2>2, <2>3 DEF CouldMiss
<1>9. DeliveryIsComplete'
  BY <1>2, <1>3, <1>4, <1>6, <1>8 DEF DeliveryIsComplete, BatchIsComplete, Covered
<1>10. BatchIsComplete'
  BY <1>2, <1>3, <1>4, <1>5 DEF BatchIsComplete
<1>11. SyncTypeOK'
  <2>1. queue' = queue
    BY <1>3 DEF queue
  <2> QED
    BY <1>2, <1>3, <1>5, <2>1 DEF SyncTypeOK, HookInv
<1> QED
  BY <1>3, <1>7, <1>9, <1>10, <1>11

LEMMA SetLastSyncStep ==
    ASSUME SyncInv, NEW p \in Processes, SetLastSync(p) PROVE SyncInv'
<1> USE DEF SyncInv
<1>1. /\ hook[p].phase = "synced" /\ Turn(p, NoHook) /\ lastSync' = hook[p].now
      /\ UNCHANGED <<batch, sent, reads, full>>
  BY DEF SetLastSync
<1>2. /\ HookInv' /\ UNCHANGED <<stored, early>> /\ hook'[p] = NoHook
      /\ \A q \in Processes \ {p} : hook'[q] = hook[q]
  BY <1>1, TurnKeepsHookInv
<1>3. NoHook.phase = "idle" /\ hook[p].now \in Time
  BY <1>1 DEF HookInv, HooksTypeOK, NoHook
<1>4. SyncTypeOK'
  BY <1>1, <1>2, <1>3 DEF SyncTypeOK, HookInv, queue
<1>5. unsent' = unsent /\ \A i : CouldMiss(i)' = CouldMiss(i)
  BY <1>1, <1>2 DEF unsent, CouldMiss
<1>6. LastSyncIsKnown'
  BY <1>1, <1>5 DEF LastSyncIsKnown, DeliveryIsComplete, Covered
<1>7. BatchIsComplete'
  BY <1>1, <1>2, <1>3 DEF BatchIsComplete
<1>8. DeliveryIsComplete'
  BY <1>1, <1>2, <1>3, <1>5 DEF DeliveryIsComplete, Covered
<1> QED
  BY <1>2, <1>4, <1>6, <1>7, <1>8

LEMMA SyncInvNext ==
    ASSUME SyncInv, [SyncNext]_syncVars PROVE SyncInv'
<1>1. CASE Tick /\ UNCHANGED <<batch, sent, lastSync, reads, early, full>>
  <2>1. HookInv' /\ UNCHANGED <<hook, stored>>
    BY <1>1, TickStep DEF SyncInv, Tick
  <2> QED
    BY <1>1, <2>1
       DEF SyncInv, SyncTypeOK, HookInv, LastSyncIsKnown, BatchIsComplete, DeliveryIsComplete,
           Covered, CouldMiss, unsent, queue
<1>2. CASE UNCHANGED syncVars
  <2>1. HookInv' /\ UNCHANGED <<hook, stored>>
    BY <1>2, HookStutter DEF SyncInv, syncVars, hookVars
  <2> QED
    BY <1>2, <2>1
       DEF SyncInv, syncVars, SyncTypeOK, HookInv, LastSyncIsKnown, BatchIsComplete,
           DeliveryIsComplete, Covered, CouldMiss, unsent, queue
<1> QED
  BY <1>1, <1>2, CollectStep, SyncDecideStep, PendingStep, SyncOnceStep, SetLastSyncStep
     DEF SyncNext

-----------------------------------------------------------------------------
\* The state of the hook command is always well formed.
THEOREM HookSyncTypeCorrect == SyncSpec => []SyncTypeOK
<1>1. SyncInit => SyncInv
  BY SyncInvInit
<1>2. SyncInv /\ [SyncNext]_syncVars => SyncInv'
  BY SyncInvNext
<1>3. SyncInv => SyncTypeOK
  BY DEF SyncInv
<1> QED
  BY <1>1, <1>2, <1>3, PTL DEF SyncSpec

\* However many hooks of a session overtake each other or die, no instant is
\* queued twice for it (AdvanceHookHeartbeat of internal/localdb).
THEOREM HookTimeIsNeverDoubled == SyncSpec => []HookTimeIsDisjoint
<1>1. SyncInit => SyncInv
  BY SyncInvInit
<1>2. SyncInv /\ [SyncNext]_syncVars => SyncInv'
  BY SyncInvNext
<1>3. SyncInv => HookTimeIsDisjoint
  BY HookInvImpliesDisjoint DEF SyncInv
<1> QED
  BY <1>1, <1>2, <1>3, PTL DEF SyncSpec

\* The time between two heartbeats is queued, about to be, or lost with a hook
\* that died between its two transactions; nothing else is queued.
THEOREM HookTimeIsNeverLost == SyncSpec => []MissingTimeHasACause
<1>1. SyncInit => SyncInv
  BY SyncInvInit
<1>2. SyncInv /\ [SyncNext]_syncVars => SyncInv'
  BY SyncInvNext
<1>3. SyncInv => MissingTimeHasACause
  BY DEF SyncInv, HookInv
<1> QED
  BY <1>1, <1>2, <1>3, PTL DEF SyncSpec

\* A hook that completes passes over an undelivered interval only in the shadow
\* of one that could miss it.
LEMMA CompletesWithACause ==
    ASSUME SyncInv, SyncNext, NEW p \in Processes, Completes(p), NEW i \in unsent
    PROVE  \E t \in CouldMiss(i) : hook[p].now - t < SyncInterval
<1> USE DEF SyncInv
<1>1. /\ hook \in [Processes -> Hook] /\ hook[p].now \in Int
      /\ hook[p].phase \in {"queued", "synced"} /\ hook'[p].phase = "idle" /\ faults' = faults
      /\ faults \in Int
  BY HooksAssumption DEF Completes, HookInv, HooksTypeOK, Time
<1>2. CASE hook[p].phase = "synced"
  <2>1. hook[p].now \in CouldMiss(i)
    BY <1>2 DEF DeliveryIsComplete, Covered
  <2> QED
    BY <1>1, <2>1, HookSyncAssumption
<1>3. CASE hook[p].phase = "queued"
  <2>1. ASSUME NEW q \in Processes, hook'[p] # hook[p],
               Pending(q) \/ SyncOnce(q) \/ SetLastSync(q) \/ (SyncDecide(q) /\ q # p)
        PROVE  FALSE
    <3>1. q # p
      BY <1>3, <2>1 DEF Pending, SyncOnce, SetLastSync
    <3>2. \E h : hook' = [hook EXCEPT ![q] = h]
      BY <2>1 DEF Pending, SyncOnce, SetLastSync, SyncDecide, Turn
    <3> QED
      BY <1>1, <2>1, <3>1, <3>2
  <2>2. ASSUME NEW q \in Processes, Collect(q)
        PROVE  FALSE
    <3>1. ~HookDie(q)
      BY <1>1 DEF HookDie
    <3>2. CASE \E s \in Sessions, j \in Projects : HookStart(q, s, j)
      BY <1>1, <1>3, <3>2 DEF HookStart
    <3>3. CASE EnsureTimeMetadata(q)
      BY <1>1, <1>3, <3>3 DEF EnsureTimeMetadata, Starting
    <3>4. CASE AdvanceHookHeartbeat(q)
      <4>1. q # p
        BY <1>3, <3>4 DEF AdvanceHookHeartbeat
      <4>2. hook'[p] = hook[p]
        BY <1>1, <3>4, <4>1 DEF AdvanceHookHeartbeat
      <4> QED
        BY <1>1, <1>3, <4>2
    <3>5. CASE HookEnqueue(q)
      BY <1>1, <1>3, <3>5 DEF HookEnqueue
    <3> QED
      BY <2>2, <3>1, <3>2, <3>3, <3>4, <3>5 DEF Collect, HookStep
  <2>3. hook'[p] # hook[p]
    BY <1>1, <1>3
  <2>4. SyncDecide(p)
    BY <2>1, <2>2, <2>3 DEF SyncNext, Tick
  <2>5. skip(p)
    BY <1>1, <2>4 DEF SyncDecide, Turn, Hook
  <2>6. lastSync \in CouldMiss(i)
    BY <2>5 DEF skip, LastSyncIsKnown
  <2> QED
    BY <2>5, <2>6 DEF skip
<1> QED
  BY <1>1, <1>2, <1>3

\* The throttle of runHook (hook_sync_interval) and the batches of SyncOnce
\* strand no queued time: what a hook that ended well left undelivered, another
\* could miss less than the interval before.
THEOREM ThrottleStrandsNothing == SyncSpec => PassedOverTimeHasACause
<1>1. SyncInit => SyncInv
  BY SyncInvInit
<1>2. SyncInv /\ [SyncNext]_syncVars => SyncInv'
  BY SyncInvNext
<1>3. SyncInv /\ [SyncNext]_syncVars
          => [\A p \in Processes :
                 Completes(p) =>
                     \A i \in unsent : \E t \in CouldMiss(i) : hook[p].now - t < SyncInterval]_syncVars
  BY CompletesWithACause
<1> QED
  BY <1>1, <1>2, <1>3, PTL DEF SyncSpec, PassedOverTimeHasACause

-----------------------------------------------------------------------------
(***************************************************************************)
(* WakapiImport: the import and the hooks count no time twice, and neither *)
(* does the import alone, however often it is repeated.                    *)
(***************************************************************************)

\* What an import that knew the cutover has clipped or queued ends before it;
\* the cutover is never set again.
ImportEndsAtCutover ==
    /\ import.phase = "clipped" /\ import.cutover # None =>
          /\ cutover = import.cutover
          /\ \A k \in import.items : k.to <= cutover
    /\ \A k \in imported : ~k.blind => cutover # None /\ k.to <= cutover

\* The ids made of project and start are as good as keys.
RunsHaveKeys ==
    /\ \A i, k \in import.items : sameRun(i, k) => i = k
    /\ \A i, k \in imported : sameRun(i, k) => i = k

\* An interval lies inside a stretch of the heartbeats Wakapi holds now, and
\* starts where the stretch does.
Follows(i) ==
    /\ \E u \in Time : i.to <= u /\ Stretch(i.project, i.from, u)
    /\ \A v \in Time : wakapi[v] = i.project => ~Linked(v, i.from)

IntervalsFollowWakapi == ~late => \A i \in import.items \cup imported : Follows(i)

ImportInv ==
    /\ HookInv /\ ImportTypeOK
    /\ ImportEndsAtCutover /\ RunsHaveKeys /\ IntervalsFollowWakapi

-----------------------------------------------------------------------------
\* A heartbeat inside a stretch that no heartbeat of its project is linked to is
\* the beginning of the stretch.
LEMMA StretchHasOneStart ==
    ASSUME ImportTypeOK,
           NEW j \in Projects, NEW t \in Time, NEW u \in Time, Stretch(j, t, u),
           NEW k \in Projects, NEW t2 \in Time, wakapi[t2] = k, t <= t2, t2 < u,
           \A v \in Time : wakapi[v] = k => ~Linked(v, t2)
    PROVE  j = k /\ t = t2
<1>1. /\ \A x \in Time : x \in Nat
      /\ None \notin Projects
      /\ \A a \in Time : \A b \in Nat : b <= a => b \in Time
  BY HooksAssumption DEF Time
<1>2. j = k
  BY <1>1 DEF Stretch
<1>3. ASSUME t < t2 PROVE FALSE
  <2> DEFINE S == {v \in t..(t2 - 1) : wakapi[v] # None}
  <2>1. t \in S
    BY <1>1, <1>3 DEF Stretch
  <2>2. S \in SUBSET (0..t2) /\ S # {} /\ t2 \in Nat
    BY <1>1, <2>1
  <2> HIDE DEF S
  <2>3. PICK v \in S : \A w \in S : w <= v
    BY <2>2, GreatestNumber
  <2>4. v \in t..(t2 - 1) /\ wakapi[v] # None /\ v \in Time /\ v \in t..(u - 1)
    BY <1>1, <2>3 DEF S
  <2>5. PICK w \in Time : w <= u /\ Linked(v, w) /\ wakapi[v] = j
    BY <2>4 DEF Stretch
  <2>6. v < w /\ wakapi[w] # None /\ \A x \in (v + 1)..(w - 1) : wakapi[x] = None
    BY <2>5 DEF Linked
  <2>7. ~(w < t2)
    BY <1>1, <2>3, <2>4, <2>6 DEF S
  <2>8. ~(t2 < w)
    BY <1>1, <2>4, <2>6
  <2>9. w = t2
    BY <1>1, <2>7, <2>8
  <2> QED
    BY <1>2, <2>4, <2>5, <2>9
<1> QED
  BY <1>1, <1>2, <1>3

\* What an export makes follows the heartbeats, with a key for every interval.
LEMMA ExportFollows ==
    ASSUME ImportTypeOK
    PROVE  /\ Export \subseteq Items
           /\ \A i \in Export : Follows(i)
           /\ \A i, k \in Export : sameRun(i, k) => i = k
<1>1. (\A x \in Time : x \in Nat) /\ None \notin Projects
  BY HooksAssumption DEF Time
<1>2. Export \subseteq Items
  BY DEF Export, Items
<1>3. ASSUME NEW i \in Export PROVE Follows(i)
  <2>1. i.to \in Time /\ i.from \in Time /\ i.project \in Projects /\ Stretch(i.project, i.from, i.to)
    BY DEF Export
  <2>2. ASSUME NEW v \in Time, wakapi[v] = i.project, Linked(v, i.from)
        PROVE  FALSE
    <3>1. v < i.from /\ \A x \in (v + 1)..(i.from - 1) : wakapi[x] = None
      BY <2>2 DEF Linked
    <3>2. ASSUME NEW x \in v..(i.to - 1), wakapi[x] # None
          PROVE  wakapi[x] = i.project /\ \E w \in Time : w <= i.to /\ Linked(x, w)
      <4>1. x = v \/ x \in (v + 1)..(i.from - 1) \/ x \in i.from..(i.to - 1)
        BY <1>1, <2>1, <3>1
      <4>2. CASE x = v
        <5>1. i.from <= i.to /\ wakapi[v] = i.project /\ Linked(v, i.from)
          BY <1>1, <2>1, <2>2 DEF Stretch
        <5> QED
          BY <2>1, <4>2, <5>1
      <4>3. CASE x \in (v + 1)..(i.from - 1)
        BY <3>1, <3>2, <4>3
      <4>4. CASE x \in i.from..(i.to - 1)
        BY <2>1, <3>2, <4>4 DEF Stretch
      <4> QED
        BY <4>1, <4>2, <4>3, <4>4
    <3>3. v < i.to
      BY <1>1, <2>1, <3>1 DEF Stretch
    <3>4. Stretch(i.project, v, i.to)
      BY <2>1, <2>2, <3>2, <3>3 DEF Stretch
    <3> QED
      BY <3>1, <3>4 DEF Export
  <2>3. i.to <= i.to
    BY <1>1, <2>1
  <2> QED
    BY <2>1, <2>2, <2>3 DEF Follows
<1>4. ASSUME NEW i \in Export, NEW k \in Export, sameRun(i, k) PROVE i = k
  <2>1. i \in Items /\ k \in Items /\ i.project = k.project /\ i.from = k.from
    BY <1>2, <1>4 DEF sameRun
  <2>2. /\ Stretch(i.project, i.from, k.to) /\ Stretch(k.project, k.from, i.to)
        /\ i.to \in Time /\ k.to \in Time
    BY <2>1 DEF Export, Items
  <2>3. ~(k.to > i.to) /\ ~(i.to > k.to)
    BY <2>2 DEF Export
  <2>4. i.to = k.to
    BY <1>1, <2>2, <2>3
  <2>5. i \in [project : Projects, from : Time, to : Time] /\ k \in [project : Projects, from : Time, to : Time]
    BY <2>1 DEF Items
  <2> QED
    BY <2>1, <2>4, <2>5
<1> QED
  BY <1>2, <1>3, <1>4

-----------------------------------------------------------------------------
\* The actions.

\* Intervals that follow the heartbeats with different keys do not overlap.
LEMMA FollowersAreDisjoint ==
    ASSUME ImportTypeOK, NEW i, NEW k,
           i.project \in Projects, i.from \in Time, i.to \in Time, Follows(i),
           k.project \in Projects, k.from \in Time, k.to \in Time, Follows(k),
           Overlap(i, k)
    PROVE  sameRun(i, k)
<1>1. \A x \in Time : x \in Nat
  BY HooksAssumption DEF Time
<1>2. PICK u \in Time : i.to <= u /\ Stretch(i.project, i.from, u)
  BY DEF Follows
<1>3. PICK w \in Time : k.to <= w /\ Stretch(k.project, k.from, w)
  BY DEF Follows
<1>4. wakapi[i.from] = i.project /\ wakapi[k.from] = k.project
  BY <1>2, <1>3 DEF Stretch
<1>5. /\ \A v \in Time : wakapi[v] = i.project => ~Linked(v, i.from)
      /\ \A v \in Time : wakapi[v] = k.project => ~Linked(v, k.from)
  BY DEF Follows
<1>6. i.from < k.to /\ k.from < i.to
  BY DEF Overlap
<1>7. CASE i.from <= k.from
  <2>1. k.from < u
    BY <1>1, <1>2, <1>6
  <2> QED
    BY <1>2, <1>4, <1>5, <1>7, <2>1, StretchHasOneStart DEF sameRun
<1>8. CASE k.from <= i.from
  <2>1. i.from < w
    BY <1>1, <1>3, <1>6
  <2> QED
    BY <1>3, <1>4, <1>5, <1>8, <2>1, StretchHasOneStart DEF sameRun
<1> QED
  BY <1>1, <1>7, <1>8

LEMMA ImportInvInit ==
    ASSUME ImportInit PROVE ImportInv
<1> USE DEF ImportInit
<1>1. HookInv
  BY HooksInitInv
<1>2. import.items = {} /\ import.phase = "idle" /\ imported = {}
  BY DEF NoImport
<1>3. ImportTypeOK
  BY <1>1, HooksAssumption DEF ImportTypeOK, HookInv, NoImport
<1> QED
  BY <1>1, <1>2, <1>3 DEF ImportInv, ImportEndsAtCutover, RunsHaveKeys, IntervalsFollowWakapi

\* Hooks set the cutover once and leave the import alone.
LEMMA HooksStep ==
    ASSUME ImportInv, UNCHANGED importVars,
           Tick \/ \E p \in Processes : HookStep(p) \/ HookReturn(p)
    PROVE  ImportInv'
<1>1. HookInv'
  <2>1. ASSUME NEW p \in Processes, HookReturn(p) PROVE HookInv'
    <3>1. NoHook \in Hook
      BY DEF NoHook, Hook
    <3> QED
      BY <2>1, <3>1, PastTheQueue DEF HookReturn, ImportInv
  <2> QED
    BY <2>1, TickStep, HookStepInv DEF ImportInv
<1>2. cutover # None => cutover' = cutover
  BY DEF Tick, HookStep, HookStart, EnsureTimeMetadata, AdvanceHookHeartbeat, HookEnqueue, HookDie,
         HookReturn
<1>3. ImportTypeOK' /\ RunsHaveKeys'
  BY <1>1 DEF ImportInv, ImportTypeOK, HookInv, RunsHaveKeys, sameRun, importVars
<1>4. ImportEndsAtCutover'
  BY <1>2 DEF ImportInv, ImportEndsAtCutover, importVars
<1>5. IntervalsFollowWakapi'
  BY DEF ImportInv, IntervalsFollowWakapi, Follows, Stretch, Linked, importVars
<1> QED
  BY <1>1, <1>3, <1>4, <1>5 DEF ImportInv

\* A heartbeat later than all others leaves the stretches so far alone.
LEMMA WakapiBeatStep ==
    ASSUME ImportInv, NEW t \in Time, NEW j \in Projects, WakapiBeat(t, j)
    PROVE  ImportInv'
<1> USE DEF ImportInv
<1>1. /\ wakapi[t] = None /\ wakapi' = [wakapi EXCEPT ![t] = j]
      /\ late' = (late \/ \E u \in Time : u > t /\ wakapi[u] # None)
      /\ UNCHANGED <<hookVars, import, imported>>
  BY DEF WakapiBeat
<1>2. HookInv'
  BY <1>1, HookStutter
<1>3. ImportTypeOK' /\ RunsHaveKeys' /\ ImportEndsAtCutover'
  BY <1>1, <1>2 DEF ImportTypeOK, HookInv, RunsHaveKeys, sameRun, ImportEndsAtCutover, hookVars
<1>4. ASSUME ~late', NEW i \in import.items \cup imported
      PROVE  Follows(i)'
  <2>1. i.project \in Projects /\ i.from \in Time /\ i.to \in Time /\ Follows(i)
    BY <1>1, <1>4 DEF IntervalsFollowWakapi, ImportTypeOK, Items
  <2>2. /\ \A x \in Time : x \in Nat
        /\ None \notin Projects
        /\ \A a \in Time : \A b \in Nat : b <= a => b \in Time
    BY HooksAssumption DEF Time
  <2>3. PICK u \in Time : i.to <= u /\ Stretch(i.project, i.from, u)
    BY <2>1 DEF Follows
  <2>4. /\ \A x \in Time \ {t} : wakapi'[x] = wakapi[x]
        /\ \A x \in Time : wakapi[x] # None => x < t
    <3>1. \A x \in Time : ~(x > t /\ wakapi[x] # None)
      BY <1>1, <1>4, Zenon
    <3> QED
      BY <1>1, <2>2, <3>1 DEF ImportTypeOK
  <2>5. u < t /\ i.from < u /\ i.from < t
    BY <2>1, <2>2, <2>3, <2>4 DEF Stretch
  <2>6. ASSUME NEW v \in Time, NEW w \in Time, w < t
        PROVE  Linked(v, w)' <=> Linked(v, w)
    <3>1. ASSUME v < w PROVE \A x \in (v + 1)..(w - 1) : x \in Time /\ wakapi'[x] = wakapi[x]
      BY <2>2, <2>4, <2>6, <3>1
    <3>2. v < w => wakapi'[v] = wakapi[v] /\ wakapi'[w] = wakapi[w]
      BY <2>2, <2>4, <2>6
    <3> QED
      BY <3>1, <3>2 DEF Linked
  <2>7. Stretch(i.project, i.from, u)'
    <3>1. wakapi'[i.from] = i.project /\ wakapi'[u] # None /\ i.from < u
      BY <2>1, <2>2, <2>3, <2>4, <2>5 DEF Stretch
    <3>2. ASSUME NEW v \in i.from..(u - 1), wakapi'[v] # None
          PROVE  wakapi'[v] = i.project /\ \E w \in Time : w <= u /\ Linked(v, w)'
      <4>1. v \in Time /\ v < t /\ wakapi'[v] = wakapi[v]
        BY <2>1, <2>2, <2>4, <2>5
      <4>2. PICK w \in Time : w <= u /\ Linked(v, w)
        BY <2>3, <3>2, <4>1 DEF Stretch
      <4>3. w < t
        BY <2>2, <2>5, <4>2
      <4> QED
        BY <2>3, <2>6, <3>2, <4>1, <4>2, <4>3 DEF Stretch
    <3> QED
      BY <3>1, <3>2 DEF Stretch
  <2>8. ASSUME NEW v \in Time, wakapi'[v] = i.project PROVE ~Linked(v, i.from)'
    <3>1. CASE v = t
      BY <2>1, <2>2, <2>5, <3>1 DEF Linked
    <3>2. CASE v # t
      BY <2>1, <2>4, <2>5, <2>6, <2>8, <3>2 DEF Follows
    <3> QED
      BY <3>1, <3>2
  <2> QED
    BY <2>3, <2>7, <2>8 DEF Follows
<1>5. IntervalsFollowWakapi'
  BY <1>1, <1>4 DEF IntervalsFollowWakapi
<1> QED
  BY <1>2, <1>3, <1>5

\* A step of the import leaves hooks and heartbeats alone.
LEMMA ImportFrame ==
    ASSUME ImportInv, UNCHANGED <<hookVars, wakapi, late>>
    PROVE  /\ HookInv' /\ (\A i : Follows(i)' <=> Follows(i)) /\ UNCHANGED cutover
           /\ late' \in BOOLEAN /\ wakapi' \in [Time -> Projects \cup {None}]
<1>1. \A i : Follows(i)' <=> Follows(i)
  BY DEF Follows, Stretch, Linked
<1> QED
  BY <1>1, HookStutter DEF ImportInv, ImportTypeOK, hookVars

LEMMA ImportExportStep ==
    ASSUME ImportInv, ImportExport PROVE ImportInv'
<1> USE DEF ImportInv
<1>1. /\ import'.phase = "exported" /\ import'.items = Export
      /\ import' = [phase |-> "exported", items |-> Export, cutover |-> None]
      /\ UNCHANGED <<hookVars, wakapi, late, imported>>
  BY DEF ImportExport
<1>2. HookInv' /\ (\A i : Follows(i)' <=> Follows(i)) /\ UNCHANGED cutover
      /\ late' \in BOOLEAN /\ wakapi' \in [Time -> Projects \cup {None}]
  BY <1>1, ImportFrame
<1>3. ImportTypeOK'
  BY <1>1, <1>2, ExportFollows DEF ImportTypeOK, HookInv
<1>4. ImportEndsAtCutover'
  BY <1>1, <1>2 DEF ImportEndsAtCutover
<1>5. RunsHaveKeys'
  BY <1>1, ExportFollows DEF RunsHaveKeys, sameRun
<1>6. IntervalsFollowWakapi'
  BY <1>1, <1>2, ExportFollows DEF IntervalsFollowWakapi
<1> QED
  BY <1>2, <1>3, <1>4, <1>5, <1>6

\* Clipping keeps keys and starts, and moves ends back only.
LEMMA ClipFacts ==
    ASSUME NEW S \in SUBSET Items, NEW c \in Time
    PROVE  /\ intervalsBefore(S, c) \in SUBSET Items
           /\ \A k \in intervalsBefore(S, c) :
                 k.to <= c /\ \E i \in S : sameRun(i, k) /\ k.to <= i.to
           /\ (\A i, k \in S : sameRun(i, k) => i = k) =>
                 \A i, k \in intervalsBefore(S, c) : sameRun(i, k) => i = k
<1>1. \A x \in Time : x \in Nat
  BY HooksAssumption DEF Time
<1>2. ASSUME NEW k \in intervalsBefore(S, c)
      PROVE  \E i \in S : k = [i EXCEPT !.to = IF i.to > c THEN c ELSE i.to]
  BY DEF intervalsBefore
<1>3. ASSUME NEW i \in S
      PROVE  LET k == [i EXCEPT !.to = IF i.to > c THEN c ELSE i.to]
             IN  /\ k \in Items /\ k.project = i.project /\ k.from = i.from
                 /\ k.to <= c /\ k.to <= i.to
  <2>1. i \in [project : Projects, from : Time, to : Time] /\ i.to \in Nat /\ c \in Nat
    BY <1>1 DEF Items
  <2>2. CASE i.to > c
    BY <2>1, <2>2 DEF Items
  <2>3. CASE ~(i.to > c)
    BY <2>1, <2>3 DEF Items
  <2> QED
    BY <2>2, <2>3
<1>4. ASSUME NEW k \in intervalsBefore(S, c)
      PROVE  k \in Items /\ k.to <= c /\ \E i \in S : sameRun(i, k) /\ k.to <= i.to
  BY <1>2, <1>3 DEF sameRun
<1>5. ASSUME \A i, k \in S : sameRun(i, k) => i = k,
             NEW i \in intervalsBefore(S, c), NEW k \in intervalsBefore(S, c), sameRun(i, k)
      PROVE  i = k
  <2>1. PICK a \in S : i = [a EXCEPT !.to = IF a.to > c THEN c ELSE a.to]
    BY <1>2
  <2>2. PICK b \in S : k = [b EXCEPT !.to = IF b.to > c THEN c ELSE b.to]
    BY <1>2
  <2>3. sameRun(a, b)
    BY <1>3, <1>5, <2>1, <2>2 DEF sameRun
  <2> QED
    BY <1>5, <2>1, <2>2, <2>3
<1> QED
  BY <1>4, <1>5

\* What lies inside an interval that follows the heartbeats follows them.
LEMMA FollowsPrefix ==
    ASSUME ImportTypeOK, NEW i, NEW k, Follows(i), sameRun(i, k), k.to <= i.to, i.to \in Time, k.to \in Time
    PROVE  Follows(k)
<1>1. \A x \in Time : x \in Nat
  BY HooksAssumption DEF Time
<1>2. PICK u \in Time : i.to <= u /\ Stretch(i.project, i.from, u)
  BY DEF Follows
<1>3. k.to <= u
  BY <1>1, <1>2
<1> QED
  BY <1>2, <1>3 DEF Follows, sameRun

LEMMA ImportClipStep ==
    ASSUME ImportInv, ImportClip PROVE ImportInv'
<1> USE DEF ImportInv
<1>1. /\ import'.phase = "clipped" /\ import'.cutover = cutover
      /\ import'.items = IF cutover = None THEN import.items ELSE intervalsBefore(import.items, cutover)
      /\ import' = [phase |-> "clipped", cutover |-> cutover, items |-> import'.items]
      /\ UNCHANGED <<hookVars, wakapi, late, imported>>
  BY DEF ImportClip
<1>2. HookInv' /\ (\A i : Follows(i)' <=> Follows(i)) /\ UNCHANGED cutover
      /\ late' \in BOOLEAN /\ wakapi' \in [Time -> Projects \cup {None}]
  BY <1>1, ImportFrame
<1>3. /\ import.items \in SUBSET Items /\ cutover \in Time \cup {None}
      /\ \A i \in Items : i.to \in Time
      /\ \A i, k \in import.items : sameRun(i, k) => i = k
  BY DEF ImportTypeOK, HooksTypeOK, Items, RunsHaveKeys
<1>4. /\ import'.items \in SUBSET Items
      /\ \A k \in import'.items : \E i \in import.items : i = k \/ (sameRun(i, k) /\ k.to <= i.to)
      /\ cutover # None => \A k \in import'.items : k.to <= cutover
      /\ \A i, k \in import'.items : sameRun(i, k) => i = k
  <2>1. CASE cutover = None
    BY <1>1, <1>3, <2>1
  <2>2. CASE cutover # None
    <3>1. cutover \in Time /\ import'.items = intervalsBefore(import.items, cutover)
      BY <1>1, <1>3, <2>2
    <3> QED
      BY <1>3, <3>1, ClipFacts
  <2> QED
    BY <2>1, <2>2
<1>5. ImportTypeOK'
  <2>1. import' \in [phase : {"idle", "exported", "clipped"}, items : SUBSET Items,
                      cutover : Time \cup {None}]
    BY <1>1, <1>3, <1>4
  <2> QED
    BY <1>1, <1>2, <2>1 DEF ImportTypeOK, HookInv
<1>6. ImportEndsAtCutover'
  BY <1>1, <1>2, <1>4 DEF ImportEndsAtCutover
<1>7. RunsHaveKeys'
  BY <1>1, <1>4 DEF RunsHaveKeys, sameRun
<1>8. ASSUME ~late', NEW k \in import'.items \cup imported' PROVE Follows(k)
  <2>1. CASE k \in imported
    BY <1>1, <1>8, <2>1 DEF IntervalsFollowWakapi
  <2>2. CASE k \in import'.items
    <3>1. PICK i \in import.items : i = k \/ (sameRun(i, k) /\ k.to <= i.to)
      BY <1>4, <2>2
    <3>2. Follows(i) /\ i.to \in Time /\ k.to \in Time
      BY <1>1, <1>3, <1>4, <1>8, <2>2 DEF IntervalsFollowWakapi
    <3> QED
      BY <3>1, <3>2, FollowsPrefix
  <2> QED
    BY <1>1, <1>8, <2>1, <2>2
<1>9. IntervalsFollowWakapi'
  BY <1>2, <1>8 DEF IntervalsFollowWakapi
<1> QED
  BY <1>2, <1>5, <1>6, <1>7, <1>9

LEMMA ImportEnqueueStep ==
    ASSUME ImportInv, ImportEnqueue PROVE ImportInv'
<1> DEFINE Queued(i) == [project |-> i.project, from |-> i.from, to |-> i.to,
                         blind |-> import.cutover = None]
           old == {k \in imported : \A i \in import.items : ~sameRun(i, k)}
           new == {Queued(i) : i \in import.items}
<1> USE DEF ImportInv
<1>1. /\ import.phase = "clipped" /\ import' = NoImport /\ import'.phase = "idle" /\ import'.items = {}
      /\ NoImport \in [phase : {"idle", "exported", "clipped"}, items : SUBSET Items,
                       cutover : Time \cup {None}]
      /\ imported' = old \cup new
      /\ UNCHANGED <<hookVars, wakapi, late>>
  BY DEF ImportEnqueue, NoImport
<1>2. HookInv' /\ (\A i : Follows(i)' <=> Follows(i)) /\ UNCHANGED cutover
      /\ late' \in BOOLEAN /\ wakapi' \in [Time -> Projects \cup {None}]
  BY <1>1, ImportFrame
<1>3. import.items \in SUBSET Items
  BY DEF ImportTypeOK
<1>4. \A i \in import.items :
          /\ Queued(i) \in [project : Projects, from : Time, to : Time, blind : BOOLEAN]
          /\ Queued(i).project = i.project /\ Queued(i).from = i.from /\ Queued(i).to = i.to
          /\ Queued(i).blind <=> import.cutover = None
  BY <1>3 DEF Items
<1> HIDE DEF Queued
<1>5. \A k \in imported' : k \in imported \/ \E i \in import.items : k = Queued(i)
  BY <1>1
<1>6. ImportTypeOK'
  <2>1. imported' \subseteq [project : Projects, from : Time, to : Time, blind : BOOLEAN]
    BY <1>4, <1>5 DEF ImportTypeOK
  <2> QED
    BY <1>1, <1>2, <2>1 DEF ImportTypeOK, HookInv
<1>7. ImportEndsAtCutover'
  <2>1. ASSUME NEW k \in imported', ~k.blind PROVE cutover # None /\ k.to <= cutover
    <3>1. CASE k \in imported
      BY <2>1, <3>1 DEF ImportEndsAtCutover
    <3>2. CASE k \notin imported
      <4>1. PICK i \in import.items : k = Queued(i)
        BY <1>5, <3>2
      <4>2. k.to = i.to /\ import.cutover # None
        BY <1>4, <2>1, <4>1
      <4> QED
        BY <1>1, <4>2 DEF ImportEndsAtCutover
    <3> QED
      BY <3>1, <3>2
  <2> QED
    BY <1>1, <1>2, <2>1 DEF ImportEndsAtCutover
<1>8. RunsHaveKeys'
  <2>1. ASSUME NEW i \in imported', NEW k \in imported', sameRun(i, k) PROVE i = k
    <3>1. CASE i \in old /\ k \in old
      BY <2>1, <3>1 DEF RunsHaveKeys
    <3>2. ASSUME NEW a \in import.items, i = Queued(a), k \in old PROVE FALSE
      BY <1>4, <2>1, <3>2 DEF sameRun
    <3>3. ASSUME NEW b \in import.items, k = Queued(b), i \in old PROVE FALSE
      BY <1>4, <2>1, <3>3 DEF sameRun
    <3>4. ASSUME NEW a \in import.items, NEW b \in import.items, i = Queued(a), k = Queued(b)
          PROVE  i = k
      <4>1. sameRun(a, b)
        BY <1>4, <2>1, <3>4 DEF sameRun
      <4> QED
        BY <3>4, <4>1 DEF RunsHaveKeys
    <3> QED
      BY <1>1, <3>1, <3>2, <3>3, <3>4
  <2> QED
    BY <1>1, <2>1 DEF RunsHaveKeys, sameRun
<1>9. IntervalsFollowWakapi'
  <2>1. ASSUME ~late', NEW k \in imported' PROVE Follows(k)
    <3>1. CASE k \in imported
      BY <1>1, <2>1, <3>1 DEF IntervalsFollowWakapi
    <3>2. ASSUME NEW i \in import.items, k = Queued(i) PROVE Follows(k)
      <4>1. Follows(i)
        BY <1>1, <2>1 DEF IntervalsFollowWakapi
      <4> QED
        BY <1>4, <3>2, <4>1 DEF Follows
    <3> QED
      BY <1>5, <3>1, <3>2
  <2> QED
    BY <1>1, <1>2, <2>1 DEF IntervalsFollowWakapi
<1> QED
  BY <1>2, <1>6, <1>7, <1>8, <1>9

LEMMA ImportAbortStep ==
    ASSUME ImportInv, ImportAbort PROVE ImportInv'
<1> USE DEF ImportInv
<1>1. /\ import' = NoImport /\ import'.phase = "idle" /\ import'.items = {}
      /\ NoImport \in [phase : {"idle", "exported", "clipped"}, items : SUBSET Items,
                       cutover : Time \cup {None}]
      /\ UNCHANGED <<hookVars, wakapi, imported, late>>
  BY DEF ImportAbort, NoImport
<1>2. HookInv' /\ (\A i : Follows(i)' <=> Follows(i)) /\ UNCHANGED cutover
  BY <1>1, ImportFrame
<1> QED
  BY <1>1, <1>2
     DEF ImportTypeOK, HookInv, ImportEndsAtCutover, RunsHaveKeys, sameRun, IntervalsFollowWakapi

LEMMA ImportInvNext ==
    ASSUME ImportInv, [ImportNext]_allVars PROVE ImportInv'
<1>1. CASE UNCHANGED allVars
  <2>1. HookInv' /\ (\A i : Follows(i)' <=> Follows(i)) /\ UNCHANGED cutover
    BY <1>1, ImportFrame DEF allVars, importVars
  <2> QED
    BY <1>1, <2>1
       DEF allVars, importVars, ImportInv, ImportTypeOK, HookInv, ImportEndsAtCutover, RunsHaveKeys, sameRun,
           IntervalsFollowWakapi
<1> QED
  BY <1>1, HooksStep, WakapiBeatStep, ImportExportStep, ImportClipStep, ImportEnqueueStep,
     ImportAbortStep DEF ImportNext

-----------------------------------------------------------------------------
\* The state of the import and of the hooks beside it is always well formed.
THEOREM WakapiImportTypeCorrect == ImportSpec => []ImportTypeOK
<1>1. ImportInit => ImportInv
  BY ImportInvInit
<1>2. ImportInv /\ [ImportNext]_allVars => ImportInv'
  BY ImportInvNext
<1>3. ImportInv => ImportTypeOK
  BY DEF ImportInv
<1> QED
  BY <1>1, <1>2, <1>3, PTL DEF ImportSpec

\* Time that both a hook and the import (importWakapi, apps/cli/main.go) count
\* has one of two causes, both races around the setting of the cutover.
THEOREM CutoverKeepsImportAndHooksApart == ImportSpec => []DoublyCountedTimeHasACause
<1>1. ImportInit => ImportInv
  BY ImportInvInit
<1>2. ImportInv /\ [ImportNext]_allVars => ImportInv'
  BY ImportInvNext
<1>3. ASSUME ImportInv, NEW i \in stored, NEW k \in imported, Overlap(i, k), ~k.blind
      PROVE  i.from \in overtaken
  <2>1. \A x \in Time : x \in Nat
    BY HooksAssumption DEF Time
  <2>2. PICK s \in Sessions : i \in Worked(s)
    BY <1>3 DEF ImportInv, HookInv, MissingTimeHasACause
  <2>3. PICK b \in beats[s] : b.at = i.from
    BY <1>3, <2>2, WorkedFacts DEF ImportInv, HookInv
  <2>4. cutover # None /\ k.to <= cutover /\ i.from < k.to
    BY <1>3 DEF ImportInv, ImportEndsAtCutover, Overlap
  <2>5. i.from >= cutover \/ i.from \in overtaken
    BY <1>3, <2>3, <2>4 DEF ImportInv, HookInv, CutoverComesFirst
  <2>6. i.from \in Time /\ k.to \in Time /\ cutover \in Time
    BY <1>3, <2>4 DEF ImportInv, ImportTypeOK, HooksTypeOK, Intervals
  <2> QED
    BY <2>1, <2>4, <2>5, <2>6
<1>4. ImportInv => DoublyCountedTimeHasACause
  BY <1>3 DEF DoublyCountedTimeHasACause
<1> QED
  BY <1>1, <1>2, <1>4, PTL DEF ImportSpec

\* Importing again while heartbeats arrive in order (wakapiEvents, Enqueue)
\* never leaves two imported intervals that overlap.
THEOREM ImportsAreDisjoint == ImportSpec => []ImportedTimeIsDisjoint
<1>1. ImportInit => ImportInv
  BY ImportInvInit
<1>2. ImportInv /\ [ImportNext]_allVars => ImportInv'
  BY ImportInvNext
<1>3. ASSUME ImportInv, ~late, NEW i \in imported, NEW k \in imported, Overlap(i, k)
      PROVE  i = k
  <2>1. /\ i.project \in Projects /\ i.from \in Time /\ i.to \in Time /\ Follows(i)
        /\ k.project \in Projects /\ k.from \in Time /\ k.to \in Time /\ Follows(k)
    BY <1>3 DEF ImportInv, ImportTypeOK, IntervalsFollowWakapi
  <2>2. sameRun(i, k)
    BY <1>3, <2>1, FollowersAreDisjoint DEF ImportInv
  <2> QED
    BY <1>3, <2>2 DEF ImportInv, RunsHaveKeys
<1>4. ImportInv => ImportedTimeIsDisjoint
  BY <1>3 DEF ImportedTimeIsDisjoint
<1> QED
  BY <1>1, <1>2, <1>4, PTL DEF ImportSpec
=============================================================================
