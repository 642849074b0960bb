---------------------------- MODULE MetricsProofs ----------------------------
(***************************************************************************)
(* Proofs about the token counts of turns, for any transcript, number of   *)
(* scanners, scans and restored files.  What a scan computes from a cursor *)
(* is compared with what the lines say; where they differ, some cursor was *)
(* set back (torn) and the difference is no older than its offset.         *)
(*                                                                         *)
(* The operators take the lines l and the torn offsets t as parameters, so *)
(* that a step that leaves them alone leaves all of this alone.            *)
(***************************************************************************)
EXTENDS Metrics, ListProofs, SequenceTheorems

Marks == {"start", "complete"}

\* The lines before i of some kinds, the totals they report, the request they
\* end with, and the last beginning or end of a turn: as in Metrics.
Bef(l, i, kinds) == {j \in 1..(i - 1) : l[j].kind \in kinds}

Tot(l, i) ==
    IF Bef(l, i, {"tokens"}) = {} THEN 0 ELSE l[Last(Bef(l, i, {"tokens"}))].total

Req(l, i) ==
    IF Bef(l, i, {"tokens"}) = {} THEN 0 ELSE l[Last(Bef(l, i, {"tokens"}))].last

Beg(l, i) == IF Bef(l, i, Marks) = {} THEN 0 ELSE Last(Bef(l, i, Marks))

Spn(l, i) ==
    IF Tot(l, i) > Tot(l, Beg(l, i)) THEN Tot(l, i) - Tot(l, Beg(l, i)) ELSE Req(l, i)

\* The turn in progress after line n.
InTurn(l, n) ==
    IF Bef(l, n + 1, Marks) = {} \/ l[Beg(l, n + 1)].kind = "complete" THEN NoTurn
    ELSE l[Beg(l, n + 1)].turn

TornAt(l, t, i) == \E o \in t : Beg(l, i) <= o /\ o < i

\* What Codex writes: totals never fall, a turn starts at most once, and the one
\* that completes is the one in progress, if there is one.
LineOK(l, i) ==
    /\ l[i].kind \in Marks => l[i].turn \in Turns
    /\ l[i].kind = "tokens" =>
           /\ l[i].last <= l[i].total
           /\ \A j \in 1..(i - 1) : l[j].kind = "tokens" => l[j].total <= l[i].total
    /\ l[i].kind = "start" => \A j \in 1..(i - 1) : l[j].turn # l[i].turn
    /\ l[i].kind = "complete" =>
           \/ InTurn(l, i - 1) # NoTurn /\ l[i].turn = InTurn(l, i - 1)
           \/ InTurn(l, i - 1) = NoTurn /\ \A j \in 1..(i - 1) : l[j].turn # l[i].turn

LogOK(l) ==
    /\ l \in Seq(Lines)
    /\ Len(l) > 0 => l[1].kind \in {"meta", "bare"}
    /\ \A i \in 2..Len(l) : l[i].kind \notin {"meta", "bare"}
    /\ \A i \in 1..Len(l) : LineOK(l, i)

\* The transcript says its project.
InProject(l) == Len(l) > 0 /\ l[1].kind = "meta"

\* The scanner's state after line n: what the lines say, or what is left of the
\* state at a torn offset.
StateOK(l, t, n, st) ==
    /\ st \in State
    /\ n > 0 /\ InProject(l) => st.project
    /\ st.project => InProject(l)
    /\ \/ st.current = Tot(l, n + 1) /\ st.last = Req(l, n + 1)
       \/ /\ Bef(l, n + 1, {"tokens"}) = {}
          /\ \E o \in t : \E j \in 1..o :
                 l[j].kind = "tokens" /\ st.current = l[j].total /\ st.last = l[j].last
    /\ \/ st.turn = InTurn(l, n)
       \/ /\ Bef(l, n + 1, Marks) = {}
          /\ \E o \in t : InTurn(l, o) # NoTurn /\ st.turn = InTurn(l, o)
    /\ \/ st.baseline = Tot(l, Beg(l, n + 1))
       \/ \E o \in t : Beg(l, n + 1) <= o

\* The tokens u of turn k: exact, or bounded by the total where it was torn; the
\* turn may also be one in progress at a torn offset, which completes later.
Justified(l, t, k, u) ==
    \/ \E i \in 1..Len(l) :
           /\ l[i].kind = "complete" /\ l[i].turn = k /\ i > old
           /\ IF TornAt(l, t, i) THEN u <= Tot(l, i) ELSE u = Spn(l, i)
    \/ /\ \E o \in t : InTurn(l, o) = k /\ Beg(l, o + 1) > old
       /\ u <= Tot(l, Len(l) + 1)
       /\ \A i \in 1..Len(l) : l[i].kind = "complete" /\ l[i].turn = k => u <= Tot(l, i)

\* Turns completed up to line n are stored, or in F.
TurnsPassed(l, n, F) ==
    \A i \in 1..n : l[i].kind = "complete" /\ i > old /\ InProject(l) =>
        usage[l[i].turn] # NoTurn \/ \E e \in F : e.turn = l[i].turn

TranscriptOK == LogOK(log) /\ Len(log) <= MaxLines

TornOK == torn \subseteq 0..Len(log) /\ \A o \in torn : TurnsPassed(log, o, {})

CursorOK ==
    StateOK(log, torn, cursor.offset, cursor.state) /\ TurnsPassed(log, cursor.offset, {})

UsageOK == \A k \in Turns : usage[k] # NoTurn => Justified(log, torn, k, usage[k])

ScannersOK ==
    \A s \in Scanners :
        LET x == scanner[s]
        IN  /\ StateOK(log, torn, x.cur.offset, x.cur.state)
            /\ TurnsPassed(log, x.cur.offset, x.found)
            /\ \A e \in x.found : usage[e.turn] = NoTurn => Justified(log, torn, e.turn, e.usage)
            /\ x.phase # "commit" => x.found = {}

MetricsInv == TypeOK /\ TranscriptOK /\ TornOK /\ CursorOK /\ UsageOK /\ ScannersOK

-----------------------------------------------------------------------------
\* Sets of numbers.

\* Last is the greatest element of a non-empty bounded set.
LEMMA LastFacts ==
    ASSUME NEW m \in Nat, NEW T \in SUBSET (0..m), T # {}
    PROVE  Last(T) \in T /\ \A y \in T : y <= Last(T)
  <1> DEFINE D == {m - y : y \in T}
  <1>1. D \in SUBSET Nat /\ D # {}
    <2>1. \A y \in T : y \in Int /\ m - y \in Nat
      OBVIOUS
    <2> QED  BY <2>1
  <1>2. PICK d \in D : \A e \in D : d <= e
    BY <1>1, LeastNumber
  <1>3. PICK x \in T : d = m - x
    OBVIOUS
  <1>4. ASSUME NEW y \in T PROVE y <= x
    <2>1. m - y \in D
      OBVIOUS
    <2> QED  BY <1>2, <1>3, <2>1
  <1> QED  BY <1>4 DEF Last

\* A greatest element is the last one.
LEMMA LastIs ==
    ASSUME NEW m \in Nat, NEW T \in SUBSET (0..m), NEW x \in T, \A y \in T : y <= x
    PROVE  Last(T) = x
  <1>1. Last(T) \in T /\ \A y \in T : y <= Last(T)
    BY LastFacts
  <1>2. Last(T) <= x /\ x <= Last(T) /\ x \in Int /\ Last(T) \in Int
    <2>1. \A y \in T : y \in Int
      OBVIOUS
    <2> QED  BY <1>1, <2>1
  <1> QED  BY <1>2

-----------------------------------------------------------------------------
\* The lines before a line.

LEMMA BefFacts ==
    ASSUME NEW l, NEW i \in Nat, NEW kinds
    PROVE  /\ Bef(l, i, kinds) \in SUBSET (0..i)
           /\ \A j \in Bef(l, i, kinds) : j \in Nat /\ 1 <= j /\ j < i /\ l[j].kind \in kinds
           /\ Bef(l, i, kinds) # {} =>
                 /\ Last(Bef(l, i, kinds)) \in Bef(l, i, kinds)
                 /\ \A j \in Bef(l, i, kinds) : j <= Last(Bef(l, i, kinds))
  <1>1. /\ Bef(l, i, kinds) \in SUBSET (0..i)
        /\ \A j \in Bef(l, i, kinds) : j \in Nat /\ 1 <= j /\ j < i /\ l[j].kind \in kinds
    BY DEF Bef
  <1>2. ASSUME Bef(l, i, kinds) # {}
        PROVE  /\ Last(Bef(l, i, kinds)) \in Bef(l, i, kinds)
               /\ \A j \in Bef(l, i, kinds) : j <= Last(Bef(l, i, kinds))
    <2> DEFINE T == Bef(l, i, kinds)
    <2>1. T \in SUBSET (0..i) /\ T # {}
      BY <1>1, <1>2
    <2> HIDE DEF T
    <2>2. Last(T) \in T /\ \A y \in T : y <= Last(T)
      BY <2>1, LastFacts
    <2> QED  BY <2>2 DEF T
  <1> QED  BY <1>1, <1>2

\* One more line.
LEMMA BefNext ==
    ASSUME NEW l, NEW n \in Nat, NEW kinds
    PROVE  /\ l[n + 1].kind \notin kinds => Bef(l, n + 2, kinds) = Bef(l, n + 1, kinds)
           /\ l[n + 1].kind \in kinds =>
                 Bef(l, n + 2, kinds) # {} /\ Last(Bef(l, n + 2, kinds)) = n + 1
  <1>1. l[n + 1].kind \notin kinds => Bef(l, n + 2, kinds) = Bef(l, n + 1, kinds)
    BY DEF Bef
  <1>2. ASSUME l[n + 1].kind \in kinds
        PROVE  Bef(l, n + 2, kinds) # {} /\ Last(Bef(l, n + 2, kinds)) = n + 1
    <2>1. n + 1 \in Bef(l, n + 2, kinds) /\ \A y \in Bef(l, n + 2, kinds) : y <= n + 1
      BY <1>2 DEF Bef
    <2>2. n + 2 \in Nat
      OBVIOUS
    <2>3. Bef(l, n + 2, kinds) \in SUBSET (0..(n + 2))
      BY <2>2, BefFacts
    <2> QED  BY <2>1, <2>2, <2>3, LastIs
  <1> QED  BY <1>1, <1>2

\* Nothing is before the first line.
LEMMA BefFirst == \A l, kinds : Bef(l, 0, kinds) = {} /\ Bef(l, 1, kinds) = {}
  BY DEF Bef

\* The lines before i say the same when the file grows.
LEMMA PrefixOnly ==
    ASSUME NEW l, NEW k, NEW i \in Nat, \A j \in 1..(i - 1) : k[j] = l[j]
    PROVE  /\ \A kinds : Bef(k, i, kinds) = Bef(l, i, kinds)
           /\ Tot(k, i) = Tot(l, i) /\ Req(k, i) = Req(l, i) /\ Beg(k, i) = Beg(l, i)
           /\ Beg(l, i) \in Nat /\ (i > 0 => Beg(l, i) < i)
           /\ Tot(k, Beg(k, i)) = Tot(l, Beg(l, i)) /\ Spn(k, i) = Spn(l, i)
  <1>1. ASSUME NEW n \in Nat, n <= i
        PROVE  /\ \A kinds : Bef(k, n, kinds) = Bef(l, n, kinds)
               /\ Tot(k, n) = Tot(l, n) /\ Req(k, n) = Req(l, n) /\ Beg(k, n) = Beg(l, n)
    <2>1. \A kinds : Bef(k, n, kinds) = Bef(l, n, kinds)
      BY <1>1 DEF Bef
    <2>2. ASSUME NEW kinds, Bef(l, n, kinds) # {} PROVE Last(Bef(l, n, kinds)) \in 1..(i - 1)
      <3> DEFINE m == Last(Bef(l, n, kinds))
      <3>1. m \in Bef(l, n, kinds)
        BY <2>2, BefFacts
      <3>2. \A j \in Bef(l, n, kinds) : j \in Nat /\ 1 <= j /\ j < n
        BY BefFacts
      <3> HIDE DEF m
      <3>3. m \in 1..(i - 1)
        BY <1>1, <3>1, <3>2
      <3> QED  BY <3>3 DEF m
    <2>3. Tot(k, n) = Tot(l, n) /\ Req(k, n) = Req(l, n)
      BY <2>1, <2>2 DEF Tot, Req
    <2>4. Beg(k, n) = Beg(l, n)
      BY <2>1 DEF Beg
    <2> QED  BY <2>1, <2>3, <2>4
  <1>2. Beg(l, i) \in Nat /\ Beg(l, i) <= i /\ (i > 0 => Beg(l, i) < i)
    <2>1. CASE Bef(l, i, Marks) = {}
      BY <2>1 DEF Beg
    <2>2. CASE Bef(l, i, Marks) # {}
      BY <2>2, BefFacts DEF Beg
    <2> QED  BY <2>1, <2>2
  <1>3. Tot(k, Beg(k, i)) = Tot(l, Beg(l, i))
    BY <1>1, <1>2
  <1>4. /\ \A kinds : Bef(k, i, kinds) = Bef(l, i, kinds)
        /\ Tot(k, i) = Tot(l, i) /\ Req(k, i) = Req(l, i) /\ Beg(k, i) = Beg(l, i)
    BY <1>1
  <1>5. Spn(k, i) = Spn(l, i)
    BY <1>3, <1>4 DEF Spn
  <1> QED  BY <1>2, <1>3, <1>4, <1>5

LEMMA PrefixTurn ==
    ASSUME NEW l, NEW k, NEW n \in Nat, \A j \in 1..n : k[j] = l[j]
    PROVE  InTurn(k, n) = InTurn(l, n)
  <1>0. n + 1 \in Nat
    OBVIOUS
  <1>1. \A j \in 1..((n + 1) - 1) : k[j] = l[j]
    OBVIOUS
  <1>2. /\ Bef(k, n + 1, Marks) = Bef(l, n + 1, Marks) /\ Beg(k, n + 1) = Beg(l, n + 1)
    BY <1>0, <1>1, PrefixOnly
  <1>3. ASSUME Bef(l, n + 1, Marks) # {} PROVE Beg(l, n + 1) \in 1..n
    <2>1. Beg(l, n + 1) \in Bef(l, n + 1, Marks)
      BY <1>0, <1>3, BefFacts DEF Beg
    <2>2. \A j \in Bef(l, n + 1, Marks) : j \in 1..n
      BY DEF Bef
    <2> QED  BY <2>1, <2>2
  <1>4. CASE Bef(l, n + 1, Marks) = {}
    BY <1>2, <1>4 DEF InTurn
  <1>5. CASE Bef(l, n + 1, Marks) # {}
    <2>1. k[Beg(l, n + 1)] = l[Beg(l, n + 1)]
      BY <1>3, <1>5
    <2> QED  BY <1>2, <1>5, <2>1 DEF InTurn
  <1> QED  BY <1>4, <1>5

-----------------------------------------------------------------------------
\* What the lines of a transcript say.

LEMMA LineTypes ==
    ASSUME NEW l, LogOK(l), NEW i \in 1..Len(l)
    PROVE  /\ l[i] \in Lines
           /\ l[i].kind \in {"meta", "bare", "start", "tokens", "complete"}
           /\ l[i].turn \in Turns \cup {NoTurn} /\ l[i].total \in Nat /\ l[i].last \in Nat
  <1>1. l[i] \in Lines
    BY DEF LogOK
  <1> QED  BY <1>1 DEF Lines

\* Totals never fall, and neither a request nor a turn is more than the total.
LEMMA TotFacts ==
    ASSUME NEW l, LogOK(l), NEW i \in Nat, i <= Len(l) + 1
    PROVE  /\ Tot(l, i) \in Nat /\ Req(l, i) \in Nat
           /\ Req(l, i) <= Tot(l, i)
           /\ \A j \in Nat : j <= i => Tot(l, j) \in Nat /\ Tot(l, j) <= Tot(l, i)
           /\ \A j \in 1..(i - 1) : l[j].kind = "tokens" =>
                 l[j].total <= Tot(l, i) /\ l[j].last <= Tot(l, i)
           /\ Spn(l, i) \in Nat /\ Spn(l, i) <= Tot(l, i)
  <1>0. Len(l) \in Nat
    BY DEF LogOK
  <1>1. ASSUME NEW n \in Nat, n <= Len(l) + 1, Bef(l, n, {"tokens"}) # {}
        PROVE  /\ Last(Bef(l, n, {"tokens"})) \in 1..Len(l)
               /\ l[Last(Bef(l, n, {"tokens"}))].kind = "tokens"
    BY <1>0, <1>1, BefFacts
  <1>2. \A j \in 1..Len(l) : l[j].total \in Nat /\ l[j].last \in Nat
    BY LineTypes
  <1>3. \A n \in Nat : n <= Len(l) + 1 => Tot(l, n) \in Nat /\ Req(l, n) \in Nat
    BY <1>1, <1>2 DEF Tot, Req
  <1>4. \A j \in 1..Len(l) : l[j].kind = "tokens" =>
            /\ l[j].last <= l[j].total
            /\ \A m \in 1..(j - 1) : l[m].kind = "tokens" => l[m].total <= l[j].total
    BY DEF LogOK, LineOK
  <1>5. ASSUME NEW j \in 1..(i - 1), l[j].kind = "tokens"
        PROVE  l[j].total <= Tot(l, i) /\ l[j].last <= Tot(l, i)
    <2> DEFINE m == Last(Bef(l, i, {"tokens"}))
    <2>1. j \in Bef(l, i, {"tokens"})
      BY <1>5 DEF Bef
    <2>2. m \in 1..Len(l) /\ l[m].kind = "tokens" /\ j <= m /\ Tot(l, i) = l[m].total
      BY <1>1, <2>1, BefFacts DEF Tot
    <2> HIDE DEF m
    <2>3. j \in 1..Len(l)
      BY <1>0, <2>2
    <2>4. l[j].total <= l[m].total
      <3>1. CASE j = m
        BY <1>2, <2>3, <3>1
      <3>2. CASE j # m
        <4>1. j \in 1..(m - 1)
          BY <1>0, <2>2, <2>3, <3>2
        <4> QED  BY <1>4, <1>5, <2>2, <4>1
      <3> QED  BY <3>1, <3>2
    <2> QED  BY <1>2, <1>4, <1>5, <2>2, <2>3, <2>4
  <1>6. ASSUME NEW j \in Nat, j <= i PROVE Tot(l, j) \in Nat /\ Tot(l, j) <= Tot(l, i)
    <2>1. Tot(l, j) \in Nat /\ Tot(l, i) \in Nat
      BY <1>0, <1>3, <1>6
    <2>2. CASE Bef(l, j, {"tokens"}) = {}
      BY <2>1, <2>2 DEF Tot
    <2>3. CASE Bef(l, j, {"tokens"}) # {}
      <3> DEFINE m == Last(Bef(l, j, {"tokens"}))
      <3>1. m \in 1..(i - 1) /\ l[m].kind = "tokens" /\ Tot(l, j) = l[m].total
        BY <1>6, <2>3, BefFacts DEF Tot
      <3> QED  BY <1>5, <2>1, <3>1
    <2> QED  BY <2>2, <2>3
  <1>7. Req(l, i) <= Tot(l, i)
    BY <1>1, <1>2, <1>4 DEF Req, Tot
  <1>8. Beg(l, i) \in Nat /\ Beg(l, i) <= i
    <2>1. CASE Bef(l, i, Marks) = {}
      BY <2>1 DEF Beg
    <2>2. CASE Bef(l, i, Marks) # {}
      <3>1. Last(Bef(l, i, Marks)) \in Bef(l, i, Marks)
        BY <2>2, BefFacts
      <3>2. \A j \in Bef(l, i, Marks) : j \in Nat /\ j < i
        BY BefFacts
      <3> QED  BY <2>2, <3>1, <3>2 DEF Beg
    <2> QED  BY <2>1, <2>2
  <1>9. Tot(l, Beg(l, i)) \in Nat
    BY <1>6, <1>8
  <1>10. Spn(l, i) \in Nat /\ Spn(l, i) <= Tot(l, i)
    BY <1>3, <1>7, <1>9 DEF Spn
  <1> QED  BY <1>3, <1>5, <1>6, <1>7, <1>10

\* A turn in progress is one that a line started; no mark follows that line.
LEMMA InTurnFacts ==
    ASSUME NEW l, LogOK(l), NEW n \in 0..Len(l), InTurn(l, n) # NoTurn
    PROVE  /\ Beg(l, n + 1) \in 1..n
           /\ l[Beg(l, n + 1)].kind = "start" /\ l[Beg(l, n + 1)].turn = InTurn(l, n)
           /\ InTurn(l, n) \in Turns
           /\ \A j \in (Beg(l, n + 1) + 1)..n : l[j].kind \notin Marks
  <1> DEFINE b == Beg(l, n + 1)
  <1>0. Len(l) \in Nat /\ n \in Nat
    BY DEF LogOK
  <1>1. Bef(l, n + 1, Marks) # {} /\ l[b].kind # "complete" /\ InTurn(l, n) = l[b].turn
    BY DEF InTurn
  <1>2. b \in Bef(l, n + 1, Marks) /\ \A j \in Bef(l, n + 1, Marks) : j <= b
    BY <1>0, <1>1, BefFacts DEF Beg
  <1> HIDE DEF b
  <1>3. b \in 1..n /\ l[b].kind \in Marks
    BY <1>0, <1>2, BefFacts
  <1>4. l[b].kind = "start"
    BY <1>1, <1>3 DEF Marks
  <1>5. l[b].turn \in Turns
    BY <1>0, <1>3 DEF LogOK, LineOK
  <1>6. \A j \in (b + 1)..n : l[j].kind \notin Marks
    BY <1>0, <1>2, <1>3 DEF Bef
  <1> QED  BY <1>1, <1>3, <1>4, <1>5, <1>6 DEF b

\* A turn completes at most once.
LEMMA CompleteOnce ==
    ASSUME NEW l, LogOK(l), NEW i \in 1..Len(l), NEW j \in 1..Len(l),
           l[i].kind = "complete", l[j].kind = "complete", l[i].turn = l[j].turn
    PROVE  i = j
  <1>0. Len(l) \in Nat
    BY DEF LogOK
  <1>1. ASSUME NEW a \in 1..Len(l), NEW c \in 1..Len(l), a < c,
               l[a].kind = "complete", l[c].kind = "complete", l[a].turn = l[c].turn
        PROVE  FALSE
    <2>1. a \in 1..(c - 1) /\ c - 1 \in 0..Len(l) /\ c - 1 \in Nat
      BY <1>0, <1>1
    <2>2. InTurn(l, c - 1) # NoTurn /\ l[c].turn = InTurn(l, c - 1)
      BY <1>1, <2>1 DEF LogOK, LineOK
    <2> DEFINE b == Beg(l, (c - 1) + 1)
    <2>3. /\ b \in 1..(c - 1) /\ l[b].kind = "start" /\ l[b].turn = l[c].turn
          /\ \A x \in (b + 1)..(c - 1) : l[x].kind \notin Marks
      BY <2>1, <2>2, InTurnFacts
    <2> HIDE DEF b
    <2>4. a # b /\ ~(a > b)
      BY <1>0, <1>1, <2>1, <2>3 DEF Marks
    <2>5. a \in 1..(b - 1) /\ b \in 1..Len(l)
      BY <1>0, <1>1, <2>1, <2>3, <2>4
    <2> QED  BY <1>1, <2>3, <2>5 DEF LogOK, LineOK
  <1> QED  BY <1>0, <1>1

\* A turn in progress after line o completes, if ever, in a later line, and that
\* is where it began.
LEMMA CompletesLater ==
    ASSUME NEW l, LogOK(l), NEW o \in 0..Len(l), InTurn(l, o) # NoTurn,
           NEW i \in 1..Len(l), l[i].kind = "complete", l[i].turn = InTurn(l, o)
    PROVE  Beg(l, i) = Beg(l, o + 1) /\ o < i /\ Beg(l, o + 1) <= o
  <1> DEFINE b == Beg(l, o + 1)
             c == Beg(l, (i - 1) + 1)
  <1>0. Len(l) \in Nat /\ o \in Nat /\ i \in Nat /\ i - 1 \in Nat /\ (i - 1) + 1 = i
    BY DEF LogOK
  <1>1. /\ b \in 1..o /\ l[b].kind = "start" /\ l[b].turn = InTurn(l, o)
        /\ InTurn(l, o) \in Turns
        /\ \A j \in (b + 1)..o : l[j].kind \notin Marks
    BY InTurnFacts
  <1>2. i # b /\ i \notin (b + 1)..o
    BY <1>1 DEF Marks
  <1> HIDE DEF b
  <1>3. ~(i < b)
    <2> SUFFICES ASSUME i < b PROVE FALSE
      OBVIOUS
    <2>1. i \in 1..(b - 1) /\ b \in 1..Len(l)
      BY <1>0, <1>1
    <2> QED  BY <1>1, <2>1 DEF LogOK, LineOK
  <1>4. o < i /\ b <= o /\ b \in 1..(i - 1)
    BY <1>0, <1>1, <1>2, <1>3
  <1>5. InTurn(l, i - 1) # NoTurn /\ l[i].turn = InTurn(l, i - 1)
    BY <1>1, <1>4 DEF LogOK, LineOK
  <1>6. c \in 1..(i - 1) /\ l[c].kind = "start" /\ l[c].turn = InTurn(l, i - 1)
    <2>1. i - 1 \in 0..Len(l)
      BY <1>0
    <2> QED  BY <1>5, <2>1, InTurnFacts
  <1> HIDE DEF c
  <1>7. c = b
    <2>1. \A x \in 1..Len(l) : l[x].kind = "start" => \A y \in 1..(x - 1) : l[y].turn # l[x].turn
      BY DEF LogOK, LineOK
    <2>2. b \in 1..Len(l) /\ c \in 1..Len(l) /\ l[b].turn = l[c].turn
      BY <1>0, <1>1, <1>4, <1>5, <1>6
    <2>3. ~(b \in 1..(c - 1)) /\ ~(c \in 1..(b - 1))
      BY <1>1, <1>6, <2>1, <2>2
    <2> QED  BY <1>0, <2>2, <2>3
  <1>8. c = Beg(l, i)
    BY <1>0 DEF c
  <1> QED  BY <1>4, <1>7, <1>8 DEF b
-----------------------------------------------------------------------------
\* What a scan makes of the state.

\* The states after lines a..b of l, from st after line a.
StatesOf(f, l, st, a, b) ==
    f = [i \in a..b |-> IF i = a THEN st ELSE lineState(f[i - 1], l[i])]

LEMMA StatesExist ==
    ASSUME NEW l, NEW st, NEW a \in Nat, NEW b \in Nat, a <= b
    PROVE  \E f : StatesOf(f, l, st, a, b)
  <1> DEFINE T == {m \in Nat : a <= m /\ m <= b /\ ~(\E f : StatesOf(f, l, st, a, m))}
  <1> SUFFICES ASSUME T # {} PROVE FALSE
    OBVIOUS
  <1>1. T \in SUBSET Nat
    OBVIOUS
  <1>2. PICK m \in T : \A y \in T : m <= y
    BY <1>1, LeastNumber
  <1>3. m \in Nat /\ a <= m /\ m <= b /\ ~(\E f : StatesOf(f, l, st, a, m))
    OBVIOUS
  <1>4. m # a
    <2> DEFINE g == [i \in a..a |-> st]
    <2>1. StatesOf(g, l, st, a, a)
      BY DEF StatesOf
    <2> QED  BY <1>3, <2>1
  <1>5. PICK f : StatesOf(f, l, st, a, m - 1)
    <2>1. m - 1 \in Nat /\ a <= m - 1 /\ m - 1 <= b /\ ~(m <= m - 1)
      BY <1>3, <1>4
    <2>2. m - 1 \notin T
      BY <1>2, <2>1
    <2> QED  BY <2>1, <2>2
  <1> HIDE DEF T
  <1> DEFINE g == [i \in a..m |-> IF i = m THEN lineState(f[m - 1], l[m]) ELSE f[i]]
  <1>6. ASSUME NEW i \in a..m
        PROVE  g[i] = IF i = a THEN st ELSE lineState(g[i - 1], l[i])
    <2>1. CASE i = m
      BY <1>3, <1>4, <2>1
    <2>2. CASE i # m
      <3>1. i \in a..(m - 1) /\ (i # a => i - 1 \in a..m /\ i - 1 # m)
        BY <1>3, <2>2
      <3>2. f[i] = IF i = a THEN st ELSE lineState(f[i - 1], l[i])
        BY <1>5, <3>1 DEF StatesOf
      <3> QED  BY <2>2, <3>1, <3>2
    <2> QED  BY <2>1, <2>2
  <1>7. StatesOf(g, l, st, a, m)
    BY <1>6 DEF StatesOf
  <1> QED  BY <1>3, <1>7

LEMMA ScanStates ==
    ASSUME NEW c, c.offset \in Nat, shown \in Nat, c.offset <= shown
    PROVE  /\ stateAt(c, c.offset) = c.state
           /\ \A n \in Nat : c.offset <= n /\ n < shown =>
                 stateAt(c, n + 1) = lineState(stateAt(c, n), log[n + 1])
  <1> DEFINE F == CHOOSE f : f = [i \in c.offset..shown |->
                      IF i = c.offset THEN c.state ELSE lineState(f[i - 1], log[i])]
  <1>1. StatesOf(F, log, c.state, c.offset, shown)
    BY StatesExist DEF StatesOf
  <1>2. \A n : stateAt(c, n) = F[n]
    BY DEF stateAt
  <1> HIDE DEF F
  <1>3. \A i \in c.offset..shown :
            F[i] = IF i = c.offset THEN c.state ELSE lineState(F[i - 1], log[i])
    BY <1>1 DEF StatesOf
  <1>4. F[c.offset] = c.state
    BY <1>3
  <1>5. ASSUME NEW n \in Nat, c.offset <= n, n < shown
        PROVE  F[n + 1] = lineState(F[n], log[n + 1])
    <2>1. n + 1 \in c.offset..shown /\ n + 1 # c.offset /\ (n + 1) - 1 = n
      BY <1>5
    <2> QED  BY <1>3, <2>1
  <1> QED  BY <1>2, <1>4, <1>5

\* What the lines say after one more.
LEMMA NextFacts ==
    ASSUME NEW l, NEW n \in Nat, NEW m, m = n + 1
    PROVE  /\ l[m].kind = "tokens" =>
                 /\ Tot(l, m + 1) = l[m].total /\ Req(l, m + 1) = l[m].last
           /\ l[m].kind # "tokens" =>
                 /\ Bef(l, m + 1, {"tokens"}) = Bef(l, n + 1, {"tokens"})
                 /\ Tot(l, m + 1) = Tot(l, n + 1) /\ Req(l, m + 1) = Req(l, n + 1)
           /\ l[m].kind \in Marks =>
                 /\ Bef(l, m + 1, Marks) # {} /\ Beg(l, m + 1) = m
                 /\ InTurn(l, m) = IF l[m].kind = "complete" THEN NoTurn ELSE l[m].turn
           /\ l[m].kind \notin Marks =>
                 /\ Bef(l, m + 1, Marks) = Bef(l, n + 1, Marks)
                 /\ Beg(l, m + 1) = Beg(l, n + 1) /\ InTurn(l, m) = InTurn(l, n)
  <1>1. m + 1 = n + 2 /\ m = n + 1
    OBVIOUS
  <1>2. ASSUME NEW kinds
        PROVE  /\ l[m].kind \notin kinds => Bef(l, m + 1, kinds) = Bef(l, n + 1, kinds)
               /\ l[m].kind \in kinds =>
                     Bef(l, m + 1, kinds) # {} /\ Last(Bef(l, m + 1, kinds)) = m
    BY <1>1, BefNext
  <1>3. l[m].kind = "tokens" => Tot(l, m + 1) = l[m].total /\ Req(l, m + 1) = l[m].last
    BY <1>2 DEF Tot, Req
  <1>4. l[m].kind # "tokens" =>
            /\ Bef(l, m + 1, {"tokens"}) = Bef(l, n + 1, {"tokens"})
            /\ Tot(l, m + 1) = Tot(l, n + 1) /\ Req(l, m + 1) = Req(l, n + 1)
    BY <1>2 DEF Tot, Req
  <1>5. ASSUME l[m].kind \in Marks
        PROVE  /\ Bef(l, m + 1, Marks) # {} /\ Beg(l, m + 1) = m
               /\ InTurn(l, m) = IF l[m].kind = "complete" THEN NoTurn ELSE l[m].turn
    <2>1. Bef(l, m + 1, Marks) # {} /\ Beg(l, m + 1) = m
      BY <1>2, <1>5 DEF Beg
    <2> QED  BY <2>1 DEF InTurn
  <1>6. ASSUME l[m].kind \notin Marks
        PROVE  /\ Bef(l, m + 1, Marks) = Bef(l, n + 1, Marks)
               /\ Beg(l, m + 1) = Beg(l, n + 1) /\ InTurn(l, m) = InTurn(l, n)
    <2>1. Bef(l, m + 1, Marks) = Bef(l, n + 1, Marks)
      BY <1>2, <1>6
    <2>2. Beg(l, m + 1) = Beg(l, n + 1)
      BY <2>1 DEF Beg
    <2> QED  BY <2>1, <2>2 DEF InTurn
  <1> QED  BY <1>3, <1>4, <1>5, <1>6

\* No token count so far: the one at a torn offset is a later line.
LEMMA TornLater ==
    ASSUME NEW l, NEW n \in Nat, Bef(l, n + 1, {"tokens"}) = {}, l[n + 1].kind # "tokens",
           NEW o \in Nat, NEW j \in 1..o, l[j].kind = "tokens"
    PROVE  n + 1 <= o
  <1>1. j > n
    <2> SUFFICES ASSUME j <= n PROVE FALSE
      OBVIOUS
    <2>1. j \in Bef(l, n + 1, {"tokens"})
      BY DEF Bef
    <2> QED  BY <2>1
  <1> QED  BY <1>1

LEMMA StateStep ==
    ASSUME NEW l, LogOK(l), NEW t \in SUBSET Nat, NEW n \in Nat, n < Len(l),
           NEW st, StateOK(l, t, n, st)
    PROVE  StateOK(l, t, n + 1, lineState(st, l[n + 1]))
  <1> DEFINE m == n + 1
             x == l[m]
             z == lineState(st, x)
  <1>0. m \in 1..Len(l) /\ m \in Nat /\ m > 0 /\ Len(l) \in Nat
    BY DEF LogOK
  <1>1. /\ st \in State
        /\ n > 0 /\ InProject(l) => st.project
        /\ st.project => InProject(l)
        /\ \/ st.current = Tot(l, n + 1) /\ st.last = Req(l, n + 1)
           \/ /\ Bef(l, n + 1, {"tokens"}) = {}
              /\ \E o \in t : \E j \in 1..o :
                     l[j].kind = "tokens" /\ st.current = l[j].total /\ st.last = l[j].last
        /\ \/ st.turn = InTurn(l, n)
           \/ /\ Bef(l, n + 1, Marks) = {}
              /\ \E o \in t : InTurn(l, o) # NoTurn /\ st.turn = InTurn(l, o)
        /\ \/ st.baseline = Tot(l, Beg(l, n + 1))
           \/ \E o \in t : Beg(l, n + 1) <= o
    BY DEF StateOK
  <1>2. /\ x.kind \in {"meta", "bare", "start", "tokens", "complete"}
        /\ x.turn \in Turns \cup {NoTurn} /\ x.total \in Nat /\ x.last \in Nat
    BY <1>0, LineTypes
  <1>3. x.kind \in Marks => x.turn \in Turns
    BY <1>0 DEF LogOK, LineOK
  <1>4. /\ x.kind = "meta" => InProject(l)
        /\ n = 0 => x.kind \in {"meta", "bare"} /\ (InProject(l) => x.kind = "meta")
    <2>1. \A i \in 2..Len(l) : l[i].kind \notin {"meta", "bare"}
      BY DEF LogOK
    <2>2. n # 0 => m \in 2..Len(l)
      BY <1>0
    <2>3. n = 0 => x = l[1]
      OBVIOUS
    <2> QED  BY <1>0, <2>1, <2>2, <2>3 DEF LogOK, InProject
  <1>5. /\ x.kind = "tokens" => Tot(l, m + 1) = x.total /\ Req(l, m + 1) = x.last
        /\ x.kind # "tokens" =>
              /\ Bef(l, m + 1, {"tokens"}) = Bef(l, n + 1, {"tokens"})
              /\ Tot(l, m + 1) = Tot(l, n + 1) /\ Req(l, m + 1) = Req(l, n + 1)
        /\ x.kind \in Marks =>
              /\ Beg(l, m + 1) = m
              /\ InTurn(l, m) = IF x.kind = "complete" THEN NoTurn ELSE x.turn
        /\ x.kind \notin Marks =>
              /\ Bef(l, m + 1, Marks) = Bef(l, n + 1, Marks)
              /\ Beg(l, m + 1) = Beg(l, n + 1) /\ InTurn(l, m) = InTurn(l, n)
    <2>1. m = n + 1
      OBVIOUS
    <2> HIDE DEF m, x, z
    <2>2. /\ l[m].kind = "tokens" =>
                /\ Tot(l, m + 1) = l[m].total /\ Req(l, m + 1) = l[m].last
          /\ l[m].kind # "tokens" =>
                /\ Bef(l, m + 1, {"tokens"}) = Bef(l, n + 1, {"tokens"})
                /\ Tot(l, m + 1) = Tot(l, n + 1) /\ Req(l, m + 1) = Req(l, n + 1)
          /\ l[m].kind \in Marks =>
                /\ Bef(l, m + 1, Marks) # {} /\ Beg(l, m + 1) = m
                /\ InTurn(l, m) = IF l[m].kind = "complete" THEN NoTurn ELSE l[m].turn
          /\ l[m].kind \notin Marks =>
                /\ Bef(l, m + 1, Marks) = Bef(l, n + 1, Marks)
                /\ Beg(l, m + 1) = Beg(l, n + 1) /\ InTurn(l, m) = InTurn(l, n)
      BY ONLY n \in Nat, <2>1, NextFacts, SMTT(60)
    <2> QED  BY <2>2 DEF x
  <1>6. /\ z \in State /\ (InProject(l) => z.project) /\ (z.project => InProject(l))
        /\ z.current = IF x.kind = "tokens" THEN x.total ELSE st.current
        /\ z.last = IF x.kind = "tokens" THEN x.last ELSE st.last
        /\ z.turn = IF x.kind = "start" THEN x.turn ELSE IF x.kind = "complete" THEN NoTurn ELSE st.turn
        /\ z.baseline = IF x.kind \in Marks THEN st.current ELSE st.baseline
    <2>1. /\ st.project \in BOOLEAN /\ st.turn \in Turns \cup {NoTurn}
          /\ st.baseline \in Nat /\ st.current \in Nat /\ st.last \in Nat
      BY <1>1 DEF State
    <2>0. /\ st \in State /\ (st.project => InProject(l))
          /\ x.kind \notin {"meta", "bare"} => (InProject(l) => st.project)
      BY <1>1, <1>4
    <2> HIDE DEF x
    <2>2. CASE x.kind = "meta"
      BY <1>4, <2>0, <1>2, <2>1, <2>2 DEF lineState, State, Marks
    <2>6. CASE x.kind = "bare"
      <3>1. z = st /\ (InProject(l) => st.project)
        BY <1>1, <1>4, <2>6 DEF lineState
      <3> QED  BY <2>0, <2>1, <2>6, <3>1 DEF Marks
    <2>3. CASE x.kind = "start"
      <3>1. z = [st EXCEPT !.turn = x.turn, !.baseline = st.current]
        BY <2>3 DEF lineState
      <3>2. z = [project |-> st.project, turn |-> x.turn, baseline |-> st.current,
                 current |-> st.current, last |-> st.last]
        BY <2>0, <3>1 DEF State
      <3> QED  BY <2>0, <1>2, <2>1, <2>3, <3>2 DEF State, Marks
    <2>4. CASE x.kind = "tokens"
      <3>1. z = [st EXCEPT !.current = x.total, !.last = x.last]
        BY <2>4 DEF lineState
      <3>2. z = [project |-> st.project, turn |-> st.turn, baseline |-> st.baseline,
                 current |-> x.total, last |-> x.last]
        BY <2>0, <3>1 DEF State
      <3> QED  BY <2>0, <1>2, <2>1, <2>4, <3>2 DEF State, Marks
    <2>5. CASE x.kind = "complete"
      <3>1. z = [st EXCEPT !.turn = NoTurn, !.baseline = st.current]
        BY <2>5 DEF lineState
      <3>2. z = [project |-> st.project, turn |-> NoTurn, baseline |-> st.current,
                 current |-> st.current, last |-> st.last]
        BY <2>0, <3>1 DEF State
      <3> QED  BY <2>0, <1>2, <2>1, <2>5, <3>2 DEF State, Marks
    <2> QED  BY <1>2, <2>2, <2>3, <2>4, <2>5, <2>6
  <1>7. x.kind \in Marks /\ ~(st.current = Tot(l, n + 1)) => \E o \in t : m <= o
    <2> SUFFICES ASSUME x.kind \in Marks, ~(st.current = Tot(l, n + 1))
                 PROVE  \E o \in t : m <= o
      OBVIOUS
    <2>1. Bef(l, n + 1, {"tokens"}) = {}
      BY <1>1
    <2>2. PICK o \in t : \E j \in 1..o : l[j].kind = "tokens"
      BY <1>1
    <2>3. PICK j \in 1..o : l[j].kind = "tokens"
      BY <2>2
    <2>4. x.kind # "tokens" /\ o \in Nat
      BY DEF Marks
    <2>5. n + 1 <= o
      BY <2>1, <2>3, <2>4, TornLater
    <2> QED  BY <2>5
  <1> HIDE DEF x, z
  <1>8. \/ z.current = Tot(l, m + 1) /\ z.last = Req(l, m + 1)
        \/ /\ Bef(l, m + 1, {"tokens"}) = {}
           /\ \E o \in t : \E j \in 1..o :
                  l[j].kind = "tokens" /\ z.current = l[j].total /\ z.last = l[j].last
    BY <1>1, <1>5, <1>6
  <1>9. \/ z.turn = InTurn(l, m)
        \/ /\ Bef(l, m + 1, Marks) = {}
           /\ \E o \in t : InTurn(l, o) # NoTurn /\ z.turn = InTurn(l, o)
    <2>1. CASE x.kind \in Marks
      BY <1>5, <1>6, <2>1 DEF Marks
    <2>2. CASE x.kind \notin Marks
      BY <1>1, <1>5, <1>6, <2>2 DEF Marks
    <2> QED  BY <2>1, <2>2
  <1>10. \/ z.baseline = Tot(l, Beg(l, m + 1))
         \/ \E o \in t : Beg(l, m + 1) <= o
    <2>1. CASE x.kind \in Marks
      BY <1>5, <1>6, <1>7, <2>1
    <2>2. CASE x.kind \notin Marks
      BY <1>1, <1>5, <1>6, <2>2
    <2> QED  BY <2>1, <2>2
  <1> HIDE DEF m
  <1>11. StateOK(l, t, m, z)
    BY <1>6, <1>8, <1>9, <1>10 DEF StateOK
  <1> QED  BY <1>11 DEF m, z, x

LEMMA ScanKeepsState ==
    ASSUME LogOK(log), NEW t \in SUBSET Nat, NEW c, c.offset \in Nat, shown \in Nat,
           c.offset <= shown, shown <= Len(log), StateOK(log, t, c.offset, c.state)
    PROVE  \A n \in c.offset..shown : StateOK(log, t, n, stateAt(c, n))
  <1> DEFINE T == {n \in Nat : c.offset <= n /\ n <= shown /\ ~StateOK(log, t, n, stateAt(c, n))}
  <1> SUFFICES ASSUME T # {} PROVE FALSE
    OBVIOUS
  <1>1. T \in SUBSET Nat
    OBVIOUS
  <1>2. PICK m \in T : \A y \in T : m <= y
    BY <1>1, LeastNumber
  <1>3. m \in Nat /\ c.offset <= m /\ m <= shown /\ ~StateOK(log, t, m, stateAt(c, m))
    OBVIOUS
  <1>4. m # c.offset
    BY <1>3, ScanStates
  <1> DEFINE n == m - 1
  <1>5. n \in Nat /\ c.offset <= n /\ n < shown /\ n + 1 = m /\ ~(m <= n)
    BY <1>3, <1>4
  <1>6. StateOK(log, t, n, stateAt(c, n))
    BY <1>2, <1>5
  <1> HIDE DEF n, T
  <1>7. Len(log) \in Nat /\ n < Len(log)
    BY <1>5 DEF LogOK
  <1>8. StateOK(log, t, n + 1, lineState(stateAt(c, n), log[n + 1]))
    BY <1>5, <1>6, <1>7, StateStep
  <1>9. stateAt(c, n + 1) = lineState(stateAt(c, n), log[n + 1])
    BY <1>5, ScanStates
  <1> QED  BY <1>3, <1>5, <1>8, <1>9

\* A state that does not belong to its turn is left from a torn offset past the
\* line.
LEMMA WrongTurn ==
    ASSUME NEW l, LogOK(l), NEW o \in 0..Len(l), InTurn(l, o) # NoTurn,
           NEW i \in 1..Len(l), l[i].kind = "complete", Bef(l, i, Marks) = {}
    PROVE  i < Beg(l, o + 1) /\ Beg(l, o + 1) <= o
  <1> DEFINE b == Beg(l, o + 1)
  <1>1. b \in 1..o /\ l[b].kind = "start"
    BY InTurnFacts
  <1> HIDE DEF b
  <1>2. ~(b < i)
    <2> SUFFICES ASSUME b < i PROVE FALSE
      OBVIOUS
    <2>1. b \in Bef(l, i, Marks)
      BY <1>1 DEF Bef, Marks
    <2> QED  BY <2>1
  <1>3. b # i
    BY <1>1
  <1>4. i \in Int /\ b \in Int
    BY <1>1
  <1> QED  BY <1>1, <1>2, <1>3, <1>4 DEF b

\* The state at the end of a turn, unless some torn offset is past it.
LEMMA StateAtEnd ==
    ASSUME NEW l, LogOK(l), NEW t \in SUBSET (0..Len(l)), NEW i \in 1..Len(l),
           NEW st, StateOK(l, t, i - 1, st), l[i].kind = "complete", \A o \in t : o < i
    PROVE  /\ st.current = Tot(l, i) /\ st.last = Req(l, i)
           /\ st.turn = InTurn(l, i - 1)
           /\ st.baseline = Tot(l, Beg(l, i)) \/ TornAt(l, t, i)
  <1>0. i - 1 \in Nat /\ (i - 1) + 1 = i /\ Len(l) \in Nat /\ i \in Nat
    BY DEF LogOK
  <1>1. /\ \/ st.current = Tot(l, i) /\ st.last = Req(l, i)
           \/ /\ Bef(l, i, {"tokens"}) = {}
              /\ \E o \in t : \E j \in 1..o : l[j].kind = "tokens"
        /\ \/ st.turn = InTurn(l, i - 1)
           \/ /\ Bef(l, i, Marks) = {}
              /\ \E o \in t : InTurn(l, o) # NoTurn
        /\ \/ st.baseline = Tot(l, Beg(l, i))
           \/ \E o \in t : Beg(l, i) <= o
    BY <1>0 DEF StateOK
  <1>2. st.current = Tot(l, i) /\ st.last = Req(l, i)
    <2> SUFFICES ASSUME Bef(l, i, {"tokens"}) = {},
                        NEW o \in t, NEW j \in 1..o, l[j].kind = "tokens"
                 PROVE  FALSE
      BY <1>1
    <2>1. o \in Nat /\ o < i
      BY <1>0
    <2>2. j \in Bef(l, i, {"tokens"})
      BY <1>0, <2>1 DEF Bef
    <2> QED  BY <2>2
  <1>3. st.turn = InTurn(l, i - 1)
    <2> SUFFICES ASSUME Bef(l, i, Marks) = {}, NEW o \in t, InTurn(l, o) # NoTurn
                 PROVE  FALSE
      BY <1>1
    <2>1. o \in 0..Len(l) /\ o < i
      OBVIOUS
    <2>2. i < Beg(l, o + 1) /\ Beg(l, o + 1) <= o /\ Beg(l, o + 1) \in 1..o
      BY <2>1, WrongTurn, InTurnFacts
    <2> QED  BY <1>0, <2>1, <2>2
  <1>4. st.baseline = Tot(l, Beg(l, i)) \/ TornAt(l, t, i)
    BY <1>1 DEF TornAt
  <1> QED  BY <1>2, <1>3, <1>4

\* What a state makes of a turn's tokens.
LEMMA TurnUsageBound ==
    ASSUME NEW st \in State
    PROVE  /\ turnUsage(st) \in Nat
           /\ turnUsage(st) <= st.current \/ turnUsage(st) = st.last
  <1>1. st.baseline \in Nat /\ st.current \in Nat /\ st.last \in Nat
    BY DEF State
  <1> QED  BY <1>1 DEF turnUsage

\* The event of a turn that completes in line i: it is about a turn, it is right
\* unless that turn is stored, and the turn of line i is stored or its turn.
LEMMA EventOK ==
    ASSUME TypeOK, LogOK(log), NEW t \in SUBSET (0..Len(log)),
           \A o \in t : TurnsPassed(log, o, {}),
           NEW i \in 1..Len(log), log[i].kind = "complete", i > old, old \in Nat,
           InProject(log),
           NEW st, StateOK(log, t, i - 1, st)
    PROVE  /\ completed(st, log[i]) \in Turns
           /\ turnUsage(st) \in Nat
           /\ usage[completed(st, log[i])] = NoTurn =>
                 Justified(log, t, completed(st, log[i]), turnUsage(st))
           /\ usage[log[i].turn] # NoTurn \/ completed(st, log[i]) = log[i].turn
  <1> DEFINE k == completed(st, log[i])
             u == turnUsage(st)
  <1>0. Len(log) \in Nat /\ i \in Nat /\ i - 1 \in Nat /\ (i - 1) + 1 = i /\ i <= Len(log) + 1
    BY DEF LogOK
  <1>1. st \in State /\ st.turn \in Turns \cup {NoTurn} /\ st.current \in Nat /\ st.last \in Nat
        /\ st.baseline \in Nat
    BY DEF StateOK, State
  <1>2. log[i].turn \in Turns /\ NoTurn \notin Turns
    BY MetricsAssumption DEF LogOK, LineOK, Marks
  <1>3. k \in Turns /\ u \in Nat
    BY <1>1, <1>2, TurnUsageBound DEF completed
  <1>4. \A o \in t : o \in Nat /\ o <= Len(log)
    BY <1>0
  <1>5. ASSUME NEW o \in t, i <= o PROVE usage[log[i].turn] # NoTurn
    BY <1>0, <1>4, <1>5 DEF TurnsPassed
  <1>6. \/ InTurn(log, i - 1) # NoTurn /\ log[i].turn = InTurn(log, i - 1)
        \/ InTurn(log, i - 1) = NoTurn
    BY DEF LogOK, LineOK
  <1>7. CASE st.turn = InTurn(log, i - 1)
    <2>1. k = log[i].turn
      BY <1>6, <1>7 DEF completed
    <2>2. ASSUME usage[k] = NoTurn PROVE Justified(log, t, k, u)
      <3>1. \A o \in t : o < i
        BY <1>0, <1>4, <1>5, <2>1, <2>2
      <3>2. /\ st.current = Tot(log, i) /\ st.last = Req(log, i)
            /\ st.baseline = Tot(log, Beg(log, i)) \/ TornAt(log, t, i)
        BY <3>1, StateAtEnd
      <3>3. Req(log, i) <= Tot(log, i) /\ Tot(log, i) \in Nat /\ Req(log, i) \in Nat
        BY <1>0, TotFacts
      <3>4. u <= Tot(log, i)
        BY <1>1, <1>3, <3>2, <3>3, TurnUsageBound
      <3>5. ~TornAt(log, t, i) => u = Spn(log, i)
        BY <3>2 DEF turnUsage, Spn
      <3> QED  BY <2>1, <3>4, <3>5 DEF Justified
    <2> QED  BY <1>3, <2>1, <2>2
  <1>8. CASE st.turn # InTurn(log, i - 1)
    <2>1. PICK o \in t : InTurn(log, o) # NoTurn /\ st.turn = InTurn(log, o)
      BY <1>8 DEF StateOK
    <2>2. Bef(log, i, Marks) = {}
      BY <1>0, <1>8 DEF StateOK
    <2>3. i < Beg(log, o + 1) /\ Beg(log, o + 1) <= o /\ Beg(log, o + 1) \in 1..o
      BY <2>1, <2>2, WrongTurn, InTurnFacts
    <2>4. usage[log[i].turn] # NoTurn
      BY <1>0, <1>4, <1>5, <2>3
    <2>5. k = InTurn(log, o)
      BY <2>1 DEF completed
    <2>6. ASSUME usage[k] = NoTurn PROVE Justified(log, t, k, u)
      <3>0. old \in Int /\ Beg(log, o + 1) > old
        BY <1>0, <1>4, <2>3
      \* The tokens are those some line up to line p reports, where k has not
      \* completed.
      <3>1. PICK p \in 0..Len(log) :
               /\ u <= Tot(log, p + 1)
               /\ \A j \in 1..Len(log) : log[j].kind = "complete" /\ log[j].turn = k => p < j
        <4>1. CASE st.current = Tot(log, i) /\ st.last = Req(log, i)
          <5>1. Req(log, i) <= Tot(log, i) /\ Tot(log, i) \in Nat /\ Req(log, i) \in Nat
            BY <1>0, TotFacts
          <5>2. u <= Tot(log, (i - 1) + 1)
            BY <1>0, <1>1, <1>3, <4>1, <5>1, TurnUsageBound
          <5>3. ASSUME NEW j \in 1..Len(log), log[j].kind = "complete", log[j].turn = k
                PROVE  i - 1 < j
            <6>1. o < j
              BY <2>1, <2>5, <5>3, CompletesLater
            <6> QED  BY <1>0, <1>4, <2>3, <6>1
          <5>4. i - 1 \in 0..Len(log)
            BY <1>0
          <5> QED  BY <5>2, <5>3, <5>4
        <4>2. CASE ~(st.current = Tot(log, i) /\ st.last = Req(log, i))
          <5>1. PICK p \in t : \E j \in 1..p :
                   log[j].kind = "tokens" /\ st.current = log[j].total /\ st.last = log[j].last
            BY <1>0, <4>2 DEF StateOK
          <5>2. PICK j \in 1..p :
                   log[j].kind = "tokens" /\ st.current = log[j].total /\ st.last = log[j].last
            BY <5>1
          <5>3. p \in Nat /\ p <= Len(log) /\ p + 1 \in Nat /\ p + 1 <= Len(log) + 1
                /\ j \in 1..((p + 1) - 1)
            BY <1>0, <1>4
          <5>4. /\ log[j].total <= Tot(log, p + 1) /\ log[j].last <= Tot(log, p + 1)
                /\ Tot(log, p + 1) \in Nat
            BY <5>2, <5>3, TotFacts
          <5>5. u <= Tot(log, p + 1)
            BY <1>1, <1>3, <5>2, <5>4, TurnUsageBound
          <5>6. ASSUME NEW m \in 1..Len(log), log[m].kind = "complete", log[m].turn = k
                PROVE  p < m
            <6>1. o < m
              BY <2>1, <2>5, <5>6, CompletesLater
            <6>2. m > old /\ m \in Nat
              BY <1>0, <1>4, <2>3, <3>0, <6>1
            <6>3. ~(m <= p)
              BY <2>6, <5>3, <5>6, <6>2 DEF TurnsPassed
            <6> QED  BY <5>3, <6>2, <6>3
          <5> QED  BY <5>3, <5>5, <5>6
        <4> QED  BY <4>1, <4>2
      <3>2. ASSUME NEW j \in Nat, p < j, j <= Len(log) + 1 PROVE u <= Tot(log, j)
        <4>1. p + 1 \in Nat /\ p + 1 <= j
          BY <3>2
        <4>2. Tot(log, p + 1) <= Tot(log, j) /\ Tot(log, p + 1) \in Nat /\ Tot(log, j) \in Nat
          BY <3>2, <4>1, TotFacts
        <4> QED  BY <1>3, <3>1, <4>2
      <3>3. u <= Tot(log, Len(log) + 1)
        BY <1>0, <3>2
      <3>4. ASSUME NEW j \in 1..Len(log), log[j].kind = "complete", log[j].turn = k
            PROVE  u <= Tot(log, j)
        BY <1>0, <3>1, <3>2, <3>4
      <3> HIDE DEF k, u
      <3>5. \E x \in t : InTurn(log, x) = k /\ Beg(log, x + 1) > old
        BY <2>5, <3>0
      <3> QED  BY <3>3, <3>4, <3>5 DEF Justified
    <2> QED  BY <1>3, <2>4, <2>6
  <1> QED  BY <1>7, <1>8

-----------------------------------------------------------------------------
\* More torn offsets, or a longer transcript, leave what was right right.

LEMMA StateMoreTorn ==
    ASSUME NEW l, NEW t, NEW v, t \subseteq v, NEW n, NEW st, StateOK(l, t, n, st)
    PROVE  StateOK(l, v, n, st)
  BY DEF StateOK

LEMMA JustifiedMoreTorn ==
    ASSUME NEW l, LogOK(l), NEW t, NEW v, t \subseteq v, NEW k, NEW u, Justified(l, t, k, u)
    PROVE  Justified(l, v, k, u)
  <1>0. Len(l) \in Nat
    BY DEF LogOK
  <1>1. ASSUME NEW i \in 1..Len(l), IF TornAt(l, t, i) THEN u <= Tot(l, i) ELSE u = Spn(l, i)
        PROVE  IF TornAt(l, v, i) THEN u <= Tot(l, i) ELSE u = Spn(l, i)
    <2>1. TornAt(l, t, i) => TornAt(l, v, i)
      BY DEF TornAt
    <2>2. i \in Nat /\ i <= Len(l) + 1
      BY <1>0
    <2>3. Spn(l, i) <= Tot(l, i)
      BY <2>2, TotFacts
    <2> QED  BY <1>1, <2>1, <2>3
  <1> QED  BY <1>1 DEF Justified

LEMMA StateLonger ==
    ASSUME NEW l, LogOK(l), NEW k, Len(k) \in Nat, Len(l) <= Len(k),
           \A j \in 1..Len(l) : k[j] = l[j],
           NEW t \in SUBSET (0..Len(l)), NEW n \in 0..Len(l), NEW st, StateOK(l, t, n, st)
    PROVE  StateOK(k, t, n, st)
  <1>0. Len(l) \in Nat /\ n + 1 \in Nat /\ \A o \in t : o \in Nat /\ o <= Len(l)
    BY DEF LogOK
  <1>1. \A j \in 1..((n + 1) - 1) : k[j] = l[j]
    BY <1>0
  <1>2. /\ \A kinds : Bef(k, n + 1, kinds) = Bef(l, n + 1, kinds)
        /\ Tot(k, n + 1) = Tot(l, n + 1) /\ Req(k, n + 1) = Req(l, n + 1)
        /\ Beg(k, n + 1) = Beg(l, n + 1)
        /\ Tot(k, Beg(k, n + 1)) = Tot(l, Beg(l, n + 1))
    <2> DEFINE i == n + 1
    <2>1. i \in Nat /\ \A j \in 1..(i - 1) : k[j] = l[j]
      BY <1>0, <1>1
    <2> HIDE DEF i
    <2>2. /\ \A kinds : Bef(k, i, kinds) = Bef(l, i, kinds)
          /\ Tot(k, i) = Tot(l, i) /\ Req(k, i) = Req(l, i) /\ Beg(k, i) = Beg(l, i)
          /\ Tot(k, Beg(k, i)) = Tot(l, Beg(l, i))
      BY <2>1, PrefixOnly, SMTT(60)
    <2> QED  BY <2>2 DEF i
  <1>3. ASSUME NEW o \in 0..Len(l) PROVE InTurn(k, o) = InTurn(l, o)
    <2>1. o \in Nat /\ \A j \in 1..o : k[j] = l[j]
      BY <1>0
    <2> QED  BY <2>1, PrefixTurn
  <1>4. \A o \in t : \A j \in 1..o : k[j] = l[j]
    BY <1>0
  <1>5. /\ st \in State
        /\ n > 0 /\ InProject(k) => st.project
        /\ st.project => InProject(k)
    <2>1. n > 0 => Len(l) > 0
      BY <1>0
    <2>2. Len(l) > 0 => k[1] = l[1] /\ Len(k) > 0
      BY <1>0
    <2> QED  BY <2>1, <2>2 DEF StateOK, InProject
  <1>6. \/ st.current = Tot(k, n + 1) /\ st.last = Req(k, n + 1)
        \/ /\ Bef(k, n + 1, {"tokens"}) = {}
           /\ \E o \in t : \E j \in 1..o :
                  k[j].kind = "tokens" /\ st.current = k[j].total /\ st.last = k[j].last
    BY <1>2, <1>4 DEF StateOK
  <1>7. \/ st.turn = InTurn(k, n)
        \/ /\ Bef(k, n + 1, Marks) = {}
           /\ \E o \in t : InTurn(k, o) # NoTurn /\ st.turn = InTurn(k, o)
    BY <1>2, <1>3 DEF StateOK
  <1>8. \/ st.baseline = Tot(k, Beg(k, n + 1))
        \/ \E o \in t : Beg(k, n + 1) <= o
    BY <1>2 DEF StateOK
  <1> QED  BY <1>5, <1>6, <1>7, <1>8 DEF StateOK

LEMMA JustifiedLonger ==
    ASSUME NEW l, LogOK(l), NEW k, LogOK(k), Len(k) = Len(l) + 1,
           \A j \in 1..Len(l) : k[j] = l[j],
           NEW t \in SUBSET (0..Len(l)), NEW q, NEW u \in Nat, Justified(l, t, q, u)
    PROVE  Justified(k, t, q, u)
  <1>0. Len(l) \in Nat /\ \A o \in t : o \in Nat /\ o <= Len(l)
    BY DEF LogOK
  <1>1. ASSUME NEW i \in Nat, i <= Len(l) + 1
        PROVE  Tot(k, i) = Tot(l, i) /\ Beg(k, i) = Beg(l, i) /\ Spn(k, i) = Spn(l, i)
    <2>1. \A j \in 1..(i - 1) : k[j] = l[j]
      BY <1>0, <1>1
    <2> QED  BY <2>1, PrefixOnly
  <1>2. CASE \E i \in 1..Len(l) :
                 /\ l[i].kind = "complete" /\ l[i].turn = q /\ i > old
                 /\ IF TornAt(l, t, i) THEN u <= Tot(l, i) ELSE u = Spn(l, i)
    <2>1. PICK i \in 1..Len(l) :
                 /\ l[i].kind = "complete" /\ l[i].turn = q /\ i > old
                 /\ IF TornAt(l, t, i) THEN u <= Tot(l, i) ELSE u = Spn(l, i)
      BY <1>2
    <2>2. i \in Nat /\ i <= Len(l) + 1 /\ i \in 1..Len(k)
      BY <1>0
    <2>3. TornAt(k, t, i) <=> TornAt(l, t, i)
      BY <1>1, <2>2 DEF TornAt
    <2> QED  BY <1>1, <2>1, <2>2, <2>3 DEF Justified
  <1>3. CASE /\ \E o \in t : InTurn(l, o) = q /\ Beg(l, o + 1) > old
             /\ u <= Tot(l, Len(l) + 1)
             /\ \A i \in 1..Len(l) : l[i].kind = "complete" /\ l[i].turn = q => u <= Tot(l, i)
    <2>1. \E o \in t : InTurn(k, o) = q /\ Beg(k, o + 1) > old
      <3>1. PICK o \in t : InTurn(l, o) = q /\ Beg(l, o + 1) > old
        BY <1>3
      <3>2. o \in Nat /\ o + 1 \in Nat /\ o + 1 <= Len(l) + 1 /\ \A j \in 1..o : k[j] = l[j]
        BY <1>0
      <3>3. InTurn(k, o) = InTurn(l, o) /\ Beg(k, o + 1) = Beg(l, o + 1)
        BY <1>1, <3>2, PrefixTurn
      <3> QED  BY <3>1, <3>3
    <2>2. u <= Tot(k, Len(k)) /\ u <= Tot(k, Len(k) + 1)
      <3>1. Len(k) \in Nat /\ Len(k) + 1 \in Nat /\ Len(k) <= Len(k) + 1
        BY <1>0
      <3>2. /\ Tot(k, Len(k)) \in Nat /\ Tot(k, Len(k) + 1) \in Nat
            /\ Tot(k, Len(k)) <= Tot(k, Len(k) + 1)
        BY <3>1, TotFacts
      <3>3. Tot(k, Len(k)) = Tot(l, Len(l) + 1)
        BY <1>0, <1>1, <3>1
      <3> QED  BY <1>3, <3>2, <3>3
    <2>3. ASSUME NEW i \in 1..Len(k), k[i].kind = "complete", k[i].turn = q
          PROVE  u <= Tot(k, i)
      <3>1. CASE i = Len(k)
        BY <2>2, <3>1
      <3>2. CASE i # Len(k)
        <4>1. i \in 1..Len(l) /\ i \in Nat /\ i <= Len(l) + 1
          BY <1>0, <3>2
        <4> QED  BY <1>1, <1>3, <2>3, <4>1
      <3> QED  BY <3>1, <3>2
    <2> QED  BY <2>1, <2>2, <2>3 DEF Justified
  <1> QED  BY <1>2, <1>3 DEF Justified

-----------------------------------------------------------------------------
\* The transcript grows.

\* The model's operators are those of this module, for the lines of log.
LEMMA SameOperators ==
    ASSUME LogOK(log)
    PROVE  /\ \A kind : Written(kind) = Bef(log, Len(log) + 1, {kind})
           /\ \A kind : Written(kind) = {i \in 1..Len(log) : log[i].kind = kind}
           /\ Total = Tot(log, Len(log) + 1)
           /\ Current = InTurn(log, Len(log))
           /\ Used = {log[i].turn : i \in 1..Len(log)}
           /\ \A i : TotalAt(i) = Tot(log, i) /\ Spent(i) = Spn(log, i) /\ (Torn(i) <=> TornAt(log, torn, i))
  <1>0. Len(log) \in Nat /\ DOMAIN log = 1..Len(log)
    BY DEF LogOK
  <1>1. \A kind : Written(kind) = Bef(log, Len(log) + 1, {kind})
    BY <1>0 DEF Written, Bef
  <1>2. \A kind : Written(kind) = {i \in 1..Len(log) : log[i].kind = kind}
    BY <1>0 DEF Written
  <1>3. Written("start") \cup Written("complete") = Bef(log, Len(log) + 1, Marks)
    BY <1>0 DEF Written, Bef, Marks
  <1>4. Total = Tot(log, Len(log) + 1)
    BY <1>1 DEF Total, Tot
  <1>5. Current = InTurn(log, Len(log))
    <2> DEFINE M == Bef(log, Len(log) + 1, Marks)
    <2>1. Current = IF M = {} \/ log[Last(M)].kind = "complete" THEN NoTurn ELSE log[Last(M)].turn
      BY <1>3 DEF Current
    <2>2. M # {} => Beg(log, Len(log) + 1) = Last(M)
      BY DEF Beg
    <2> HIDE DEF M
    <2>3. InTurn(log, Len(log)) = IF M = {} \/ log[Beg(log, Len(log) + 1)].kind = "complete"
                                  THEN NoTurn ELSE log[Beg(log, Len(log) + 1)].turn
      BY DEF InTurn, M
    <2> QED  BY <2>1, <2>2, <2>3
  <1>6. Used = {log[i].turn : i \in 1..Len(log)}
    BY <1>0 DEF Used
  <1>7. \A i, kinds : Before(i, kinds) = Bef(log, i, kinds)
    BY DEF Before, Bef
  <1>8. \A i : TotalAt(i) = Tot(log, i)
    BY <1>7 DEF TotalAt, Tot
  <1>9. \A i : Began(i) = Beg(log, i)
    BY <1>7 DEF Began, Beg, Marks
  <1>10. \A i : Spent(i) = Spn(log, i)
    BY <1>7, <1>8, <1>9 DEF Spent, Spn, Req
  <1>11. \A i : Torn(i) <=> TornAt(log, torn, i)
    BY <1>9 DEF Torn, TornAt
  <1> QED  BY <1>1, <1>2, <1>4, <1>5, <1>6, <1>8, <1>10, <1>11

\* A line that LineOK allows, at the end.
LEMMA LogGrows ==
    ASSUME NEW l, LogOK(l), NEW x \in Lines, NEW n, n = Len(l) + 1,
           x.kind \in {"meta", "bare"} <=> n = 1,
           x.kind \in Marks => x.turn \in Turns,
           x.kind = "tokens" => x.last <= x.total /\ Tot(l, n) <= x.total,
           x.kind = "start" => \A j \in 1..Len(l) : l[j].turn # x.turn,
           x.kind = "complete" =>
               \/ InTurn(l, Len(l)) # NoTurn /\ x.turn = InTurn(l, Len(l))
               \/ InTurn(l, Len(l)) = NoTurn /\ \A j \in 1..Len(l) : l[j].turn # x.turn
    PROVE  LogOK(Append(l, x))
  <1> DEFINE k == Append(l, x)
  <1>0. l \in Seq(Lines) /\ Len(l) \in Nat
    BY DEF LogOK
  <1>1. k \in Seq(Lines) /\ Len(k) = n /\ k[n] = x /\ \A j \in 1..Len(l) : k[j] = l[j]
    BY <1>0
  <1> HIDE DEF k
  <1>2. ASSUME NEW j \in 0..Len(l) PROVE InTurn(k, j) = InTurn(l, j)
    <2>1. j \in Nat /\ \A i \in 1..j : k[i] = l[i]
      BY <1>0, <1>1
    <2> QED  BY <2>1, PrefixTurn
  <1>3. ASSUME NEW i \in 1..Len(l) PROVE LineOK(k, i)
    <2>1. LineOK(l, i)
      BY DEF LogOK
    <2>2. k[i] = l[i] /\ \A j \in 1..(i - 1) : k[j] = l[j]
      BY <1>0, <1>1
    <2>3. InTurn(k, i - 1) = InTurn(l, i - 1)
      BY <1>0, <1>2
    <2> QED  BY <2>1, <2>2, <2>3 DEF LineOK
  <1>4. LineOK(k, n)
    <2>1. n - 1 = Len(l) /\ InTurn(k, n - 1) = InTurn(l, Len(l))
      BY <1>0, <1>2
    <2>2. \A j \in 1..(n - 1) : k[j] = l[j]
      BY <1>0, <1>1
    <2>3. ASSUME x.kind = "tokens", NEW j \in 1..(n - 1), l[j].kind = "tokens"
          PROVE  l[j].total <= x.total
      <3>1. n \in Nat /\ n <= Len(l) + 1
        BY <1>0
      <3>2. l[j].total <= Tot(l, n) /\ Tot(l, n) \in Nat
        BY <2>3, <3>1, TotFacts
      <3>3. l[j].total \in Nat
        BY <2>1, LineTypes
      <3>4. x.total \in Nat
        BY DEF Lines
      <3> QED  BY <2>3, <3>2, <3>3, <3>4
    <2> QED  BY <1>1, <2>1, <2>2, <2>3 DEF LineOK
  <1>5. k[1].kind \in {"meta", "bare"}
    <2>1. CASE n = 1
      BY <1>1, <2>1
    <2>2. CASE n # 1
      <3>1. 1 \in 1..Len(l) /\ Len(l) > 0
        BY <1>0, <2>2
      <3> QED  BY <1>1, <3>1 DEF LogOK
    <2> QED  BY <2>1, <2>2
  <1>6. \A i \in 1..Len(k) : i \in 1..Len(l) \/ i = n
    BY <1>0, <1>1
  <1>7. \A i \in 1..Len(k) : LineOK(k, i)
    BY <1>3, <1>4, <1>6
  <1>8. \A i \in 2..Len(k) : k[i].kind \notin {"meta", "bare"}
    <2> SUFFICES ASSUME NEW i \in 2..Len(k) PROVE k[i].kind \notin {"meta", "bare"}
      OBVIOUS
    <2>1. CASE i = n
      BY <1>0, <1>1, <2>1
    <2>2. CASE i # n
      <3>1. i \in 2..Len(l) /\ i \in 1..Len(l)
        BY <1>0, <1>1, <2>2
      <3> QED  BY <1>1, <3>1 DEF LogOK
    <2> QED  BY <2>1, <2>2
  <1>9. LogOK(k)
    BY <1>1, <1>5, <1>7, <1>8 DEF LogOK
  <1> QED  BY <1>9 DEF k

LEMMA NextLineOK ==
    ASSUME LogOK(log), NEW x \in NextLine
    PROVE  x \in Lines /\ LogOK(Append(log, x))
  <1> DEFINE n == Len(log) + 1
  <1>0. log \in Seq(Lines) /\ Len(log) \in Nat /\ n \in Nat /\ n <= Len(log) + 1
    BY DEF LogOK
  <1>1. Tot(log, n) \in Nat
    BY <1>0, TotFacts
  <1>2. /\ Total = Tot(log, n) /\ Current = InTurn(log, Len(log))
        /\ Used = {log[i].turn : i \in 1..Len(log)}
    BY SameOperators
  <1>3. log = << >> <=> n = 1
    <2>1. Len(<< >>) = 0 /\ (log # << >> => Len(log) # 0)
      BY <1>0, EmptySeq
    <2> QED  BY <1>0, <2>1
  <1>4. NoTurn \notin Turns /\ \A c \in Counts : c \in Nat
    BY MetricsAssumption
  <1>5. CASE log = << >>
    <2>1. \/ x = [kind |-> "meta", turn |-> NoTurn, total |-> 0, last |-> 0]
          \/ x = [kind |-> "bare", turn |-> NoTurn, total |-> 0, last |-> 0]
      BY <1>5 DEF NextLine
    <2>2. x \in Lines /\ x.kind \in {"meta", "bare"}
      BY <2>1 DEF Lines
    <2>3. x.kind \notin Marks /\ x.kind # "tokens"
      BY <2>2 DEF Marks
    <2> QED  BY <1>0, <1>3, <1>5, <2>2, <2>3, LogGrows
  <1>6. ASSUME log # << >>, NEW k \in Turns \ Used,
               x = [kind |-> "start", turn |-> k, total |-> 0, last |-> 0]
        PROVE  x \in Lines /\ LogOK(Append(log, x))
    <2>1. x \in Lines /\ x.kind = "start" /\ x.turn = k /\ k \in Turns
      BY <1>6 DEF Lines
    <2>2. \A j \in 1..Len(log) : log[j].turn # k
      BY <1>2, <1>6
    <2> QED  BY <1>3, <1>6, <2>1, <2>2, LogGrows
  <1>7. ASSUME log # << >>, NEW c \in Counts,
               x = [kind |-> "tokens", turn |-> NoTurn, total |-> Total + c, last |-> c]
        PROVE  x \in Lines /\ LogOK(Append(log, x))
    <2>1. c \in Nat /\ Total + c \in Nat /\ c <= Total + c /\ Tot(log, n) <= Total + c
      BY <1>1, <1>2, <1>4
    <2>2. x \in Lines /\ x.kind = "tokens" /\ x.total = Total + c /\ x.last = c
      BY <1>7, <2>1 DEF Lines
    <2> QED  BY <1>3, <1>7, <2>1, <2>2, LogGrows DEF Marks
  <1>8. ASSUME log # << >>, NEW k \in IF Current = NoTurn THEN Turns \ Used ELSE {Current},
               x = [kind |-> "complete", turn |-> k, total |-> 0, last |-> 0]
        PROVE  x \in Lines /\ LogOK(Append(log, x))
    <2>1. InTurn(log, Len(log)) # NoTurn => InTurn(log, Len(log)) \in Turns
      <3>1. Len(log) \in 0..Len(log)
        BY <1>0
      <3> QED  BY <3>1, InTurnFacts
    <2>2. k \in Turns
      BY <1>2, <1>8, <2>1
    <2>3. x \in Lines /\ x.kind = "complete" /\ x.turn = k
      BY <1>8, <2>2 DEF Lines
    <2>4. \/ InTurn(log, Len(log)) # NoTurn /\ x.turn = InTurn(log, Len(log))
          \/ InTurn(log, Len(log)) = NoTurn /\ \A j \in 1..Len(log) : log[j].turn # x.turn
      BY <1>2, <1>8, <2>3
    <2> QED  BY <1>3, <1>8, <2>2, <2>3, <2>4, LogGrows
  <1> QED  BY <1>5, <1>6, <1>7, <1>8 DEF NextLine

-----------------------------------------------------------------------------
\* The steps.

\* Nothing has been read.
LEMMA FreshStateOK ==
    ASSUME NEW l, NEW t
    PROVE  StateOK(l, t, 0, NoState)
  <1>1. NoState \in State
    BY DEF NoState, State
  <1>2. /\ Tot(l, 1) = 0 /\ Req(l, 1) = 0 /\ InTurn(l, 0) = NoTurn
        /\ Beg(l, 1) = 0 /\ Tot(l, 0) = 0
    BY BefFirst DEF Tot, Req, InTurn, Beg
  <1> QED  BY <1>1, <1>2 DEF StateOK, NoState

LEMMA InitOK == Init => MetricsInv
  <1> SUFFICES ASSUME Init PROVE MetricsInv
    OBVIOUS
  <1>1. log = << >> /\ Len(log) = 0 /\ log \in Seq(Lines) /\ torn = {}
    BY EmptySeq DEF Init
  <1>2. NoState \in State
    BY DEF NoState, State
  <1>3. FreshCursor \in Cursor /\ FreshCursor.offset = 0 /\ FreshCursor.state = NoState
    BY <1>1, <1>2 DEF FreshCursor, Cursor
  <1>4. TypeOK
    BY <1>1, <1>3, MetricsAssumption DEF Init, TypeOK, Idle
  <1>5. TranscriptOK
    BY <1>1, MetricsAssumption DEF TranscriptOK, LogOK
  <1>6. StateOK(log, torn, 0, NoState)
    BY FreshStateOK
  <1>7. \A F : TurnsPassed(log, 0, F)
    BY DEF TurnsPassed
  <1>8. TornOK /\ CursorOK
    BY <1>1, <1>3, <1>6, <1>7 DEF TornOK, CursorOK, Init
  <1>9. UsageOK
    BY DEF UsageOK, Init
  <1>10. ScannersOK
    BY <1>3, <1>6, <1>7 DEF ScannersOK, Init, Idle
  <1> QED  BY <1>4, <1>5, <1>8, <1>9, <1>10 DEF MetricsInv

LEMMA WriteLineOK ==
    ASSUME MetricsInv, NEW x \in NextLine, WriteLine(x)
    PROVE  MetricsInv'
  <1> DEFINE k == Append(log, x)
             N == Len(log)
  <1>0. /\ TypeOK /\ LogOK(log) /\ N <= MaxLines /\ TornOK /\ CursorOK /\ UsageOK /\ ScannersOK
        /\ log \in Seq(Lines) /\ N \in Nat /\ N < MaxLines /\ shown = N
    BY DEF MetricsInv, TranscriptOK, LogOK, WriteLine
  <1>1. x \in Lines /\ LogOK(k)
    BY <1>0, NextLineOK
  <1>2. k \in Seq(Lines) /\ Len(k) = N + 1 /\ \A j \in 1..N : k[j] = log[j]
    BY <1>0, <1>1
  <1>3. log' = k /\ shown' = N + 1
        /\ UNCHANGED <<ident, old, cursor, usage, scanner, scans, upsets, torn>>
    BY <1>0 DEF WriteLine
  <1> HIDE DEF k
  <1>4. TypeOK'
    <2>1. \A c \in Cursor : c \in [ident : Nat, offset : 0..(N + 1), state : State]
      BY <1>0 DEF Cursor
    <2>2. Cursor' = [ident : Nat, offset : 0..(N + 1), state : State]
      BY <1>2, <1>3 DEF Cursor, State
    <2> HIDE DEF N
    <2>3. \A c \in Cursor : c \in Cursor'
      BY <2>1, <2>2
    <2>4. cursor' \in Cursor'
      BY <1>0, <1>3, <2>3 DEF TypeOK
    <2>5. scanner' \in [Scanners -> [phase : {"idle", "scan", "commit"}, cur : Cursor',
                                 found : SUBSET [turn : Turns, usage : Nat]]]
      BY <1>0, <1>3, <2>3 DEF TypeOK
    <2>6. log' \in Seq(Lines) /\ shown' \in 0..Len(log')
      BY <1>0, <1>2, <1>3 DEF N
    <2> QED  BY <1>0, <1>3, <2>4, <2>5, <2>6 DEF TypeOK
  <1>5. TranscriptOK'
    BY <1>0, <1>1, <1>2, <1>3, MetricsAssumption DEF TranscriptOK
  <1>6. torn \in SUBSET (0..N) /\ torn' = torn /\ usage' = usage /\ old' = old
    BY <1>0, <1>3 DEF TornOK
  <1>7. ASSUME NEW n \in 0..N, NEW F, TurnsPassed(log, n, F)
        PROVE  TurnsPassed(k, n, F)
    <2>1. \A i \in 1..n : k[i] = log[i]
      BY <1>0, <1>2
    <2>2. n > 0 => (InProject(k) <=> InProject(log))
      BY <1>0, <1>2, <2>1 DEF InProject
    <2>3. \A i \in 1..n : n > 0
      BY <1>0
    <2> QED  BY <1>7, <2>1, <2>2, <2>3 DEF TurnsPassed
  <1>8. ASSUME NEW n \in 0..N, NEW st, StateOK(log, torn, n, st)
        PROVE  StateOK(k, torn, n, st)
    BY <1>0, <1>2, <1>6, <1>8, StateLonger
  <1>9. ASSUME NEW q, NEW u \in Nat, Justified(log, torn, q, u)
        PROVE  Justified(k, torn, q, u)
    BY <1>0, <1>1, <1>2, <1>6, <1>9, JustifiedLonger
  <1>10. TornOK'
    <2>1. torn' \subseteq 0..Len(log')
      BY <1>0, <1>2, <1>3, <1>6
    <2>2. \A o \in torn : TurnsPassed(k, o, {})
      BY <1>0, <1>6, <1>7 DEF TornOK
    <2> QED  BY <1>3, <2>1, <2>2 DEF TornOK, TurnsPassed
  <1>11. CursorOK'
    <2>1. cursor.offset \in 0..N
      BY <1>0 DEF TypeOK, Cursor
    <2>2. StateOK(k, torn, cursor.offset, cursor.state) /\ TurnsPassed(k, cursor.offset, {})
      BY <1>0, <1>7, <1>8, <2>1 DEF CursorOK
    <2> QED  BY <1>3, <2>2 DEF CursorOK, StateOK, State, TurnsPassed
  <1>12. UsageOK'
    <2>1. ASSUME NEW q \in Turns, usage[q] # NoTurn PROVE Justified(k, torn, q, usage[q])
      <3>1. usage[q] \in Nat
        BY <1>0, <2>1 DEF TypeOK
      <3> QED  BY <1>0, <1>9, <2>1, <3>1 DEF UsageOK
    <2> QED  BY <1>3, <2>1 DEF UsageOK, Justified
  <1>13. ScannersOK'
    <2>1. ASSUME NEW s \in Scanners
          PROVE  /\ StateOK(k, torn, scanner[s].cur.offset, scanner[s].cur.state)
                 /\ TurnsPassed(k, scanner[s].cur.offset, scanner[s].found)
                 /\ \A e \in scanner[s].found :
                        usage[e.turn] = NoTurn => Justified(k, torn, e.turn, e.usage)
                 /\ scanner[s].phase # "commit" => scanner[s].found = {}
      <3>1. /\ scanner[s].cur.offset \in 0..N
            /\ \A e \in scanner[s].found : e.usage \in Nat
        BY <1>0 DEF TypeOK, Cursor
      <3>2. /\ StateOK(log, torn, scanner[s].cur.offset, scanner[s].cur.state)
            /\ TurnsPassed(log, scanner[s].cur.offset, scanner[s].found)
            /\ \A e \in scanner[s].found :
                   usage[e.turn] = NoTurn => Justified(log, torn, e.turn, e.usage)
            /\ scanner[s].phase # "commit" => scanner[s].found = {}
        BY <1>0 DEF ScannersOK
      <3> QED  BY <1>7, <1>8, <1>9, <3>1, <3>2
    <2>2. ASSUME NEW s \in Scanners
          PROVE  /\ StateOK(log', torn', scanner'[s].cur.offset, scanner'[s].cur.state)
                 /\ TurnsPassed(log, scanner[s].cur.offset, scanner[s].found)'
                 /\ \A e \in scanner'[s].found : usage'[e.turn] = NoTurn =>
                        Justified(log, torn, e.turn, e.usage)'
                 /\ scanner'[s].phase # "commit" => scanner'[s].found = {}
      <3>1. StateOK(log', torn', scanner'[s].cur.offset, scanner'[s].cur.state)
        BY <1>3, <2>1
      <3>2. TurnsPassed(log, scanner[s].cur.offset, scanner[s].found)'
        BY <1>3, <2>1 DEF TurnsPassed
      <3>3. ASSUME NEW e \in scanner[s].found, usage[e.turn] = NoTurn
            PROVE  Justified(log, torn, e.turn, e.usage)'
        <4>1. Justified(k, torn, e.turn, e.usage)
          BY <2>1, <3>3
        <4> QED  BY <1>3, <4>1 DEF Justified
      <3> QED  BY <1>3, <2>1, <3>1, <3>2, <3>3
    <2> QED  BY <2>2 DEF ScannersOK
  <1> QED  BY <1>4, <1>5, <1>10, <1>11, <1>12, <1>13 DEF MetricsInv

\* A step that leaves lines, cursor, events and scanners alone.
LEMMA FileStepOK ==
    ASSUME MetricsInv,
           UNCHANGED <<log, old, cursor, usage, scanner, scans, torn>>,
           shown' \in 0..Len(log), ident' \in Nat, upsets' \in 0..MaxUpsets
    PROVE  MetricsInv'
  <1>1. TypeOK'
    BY DEF MetricsInv, TypeOK, Cursor, State, Lines
  <1>2. TranscriptOK'
    BY DEF MetricsInv, TranscriptOK, LogOK, LineOK
  <1>3. TornOK'
    BY DEF MetricsInv, TornOK, TurnsPassed
  <1>4. CursorOK'
    BY DEF MetricsInv, CursorOK, TurnsPassed
  <1>5. UsageOK'
    BY DEF MetricsInv, UsageOK, Justified
  <1>6. ScannersOK'
    <2>1. ASSUME NEW s \in Scanners
          PROVE  /\ StateOK(log', torn', scanner'[s].cur.offset, scanner'[s].cur.state)
                 /\ TurnsPassed(log, scanner[s].cur.offset, scanner[s].found)'
                 /\ \A e \in scanner'[s].found : usage'[e.turn] = NoTurn =>
                        Justified(log, torn, e.turn, e.usage)'
                 /\ scanner'[s].phase # "commit" => scanner'[s].found = {}
      <3>1. /\ StateOK(log, torn, scanner[s].cur.offset, scanner[s].cur.state)
            /\ TurnsPassed(log, scanner[s].cur.offset, scanner[s].found)
            /\ \A e \in scanner[s].found :
                   usage[e.turn] = NoTurn => Justified(log, torn, e.turn, e.usage)
            /\ scanner[s].phase # "commit" => scanner[s].found = {}
        BY DEF MetricsInv, ScannersOK
      <3>2. TurnsPassed(log, scanner[s].cur.offset, scanner[s].found)'
        BY <3>1 DEF TurnsPassed
      <3>3. ASSUME NEW e \in scanner[s].found, usage[e.turn] = NoTurn
            PROVE  Justified(log, torn, e.turn, e.usage)'
        <4>1. Justified(log, torn, e.turn, e.usage)
          BY <3>1, <3>3
        <4> QED  BY <4>1 DEF Justified
      <3> QED  BY <3>1, <3>2, <3>3
    <2> QED  BY <2>1 DEF ScannersOK
  <1> QED  BY <1>1, <1>2, <1>3, <1>4, <1>5, <1>6 DEF MetricsInv

LEMMA ShowLineOK ==
    ASSUME MetricsInv, ShowLine
    PROVE  MetricsInv'
  <1>1. shown \in 0..Len(log) /\ Len(log) \in Nat /\ ident \in Nat /\ upsets \in 0..MaxUpsets
    BY DEF MetricsInv, TypeOK
  <1>2. /\ UNCHANGED <<log, old, cursor, usage, scanner, scans, torn>>
        /\ shown' = shown + 1 /\ shown < Len(log) /\ ident' = ident /\ upsets' = upsets
    BY DEF ShowLine
  <1>3. shown' \in 0..Len(log) /\ ident' \in Nat /\ upsets' \in 0..MaxUpsets
    BY <1>1, <1>2
  <1> QED  BY <1>2, <1>3, FileStepOK

LEMMA RestoreOK ==
    ASSUME MetricsInv, NEW n \in 0..MaxLines, NEW id \in {ident, ident + 1}, Restore(n, id)
    PROVE  MetricsInv'
  <1>1. /\ shown \in 0..Len(log) /\ Len(log) \in Nat /\ ident \in Nat /\ upsets \in 0..MaxUpsets
        /\ MaxUpsets \in Nat /\ MaxLines \in Nat
    BY MetricsAssumption DEF MetricsInv, TypeOK
  <1>2. /\ UNCHANGED <<log, old, cursor, usage, scanner, scans, torn>>
        /\ shown' = n /\ n < shown /\ ident' = id /\ upsets' = upsets + 1 /\ upsets < MaxUpsets
    BY DEF Restore
  <1>3. shown' \in 0..Len(log) /\ ident' \in Nat /\ upsets' \in 0..MaxUpsets
    BY <1>1, <1>2
  <1> QED  BY <1>2, <1>3, FileStepOK

\* A scanner is in order: what ScannersOK says of it.
ScannerOK(x) ==
    /\ StateOK(log, torn, x.cur.offset, x.cur.state)
    /\ TurnsPassed(log, x.cur.offset, x.found)
    /\ \A e \in x.found : usage[e.turn] = NoTurn => Justified(log, torn, e.turn, e.usage)
    /\ x.phase # "commit" => x.found = {}

\* A step of one scanner that ends in an orderly y and leaves the rest alone.
LEMMA ScannerStepOK ==
    ASSUME MetricsInv, NEW s \in Scanners,
           NEW y \in [phase : {"idle", "scan", "commit"}, cur : Cursor,
                      found : SUBSET [turn : Turns, usage : Nat]],
           ScannerOK(y), scanner' = [scanner EXCEPT ![s] = y],
           UNCHANGED <<log, shown, ident, old, cursor, usage, upsets, torn>>,
           scans' \in 0..MaxScans
    PROVE  MetricsInv'
  <1>0. scanner \in [Scanners -> [phase : {"idle", "scan", "commit"}, cur : Cursor,
                                  found : SUBSET [turn : Turns, usage : Nat]]]
    BY DEF MetricsInv, TypeOK
  <1>1. Cursor' = Cursor
    BY DEF Cursor, State
  <1>2. TypeOK'
    BY <1>0, <1>1 DEF MetricsInv, TypeOK
  <1>3. TranscriptOK'
    BY DEF MetricsInv, TranscriptOK, LogOK, LineOK
  <1>4. TornOK'
    BY DEF MetricsInv, TornOK, TurnsPassed
  <1>5. CursorOK'
    BY DEF MetricsInv, CursorOK, TurnsPassed
  <1>6. UsageOK'
    BY DEF MetricsInv, UsageOK, Justified
  <1>7. ASSUME NEW r \in Scanners PROVE ScannerOK(scanner'[r])
    <2>1. CASE r = s
      BY <1>0, <2>1
    <2>2. CASE r # s
      BY <1>0, <2>2 DEF MetricsInv, ScannersOK, ScannerOK
    <2> QED  BY <2>1, <2>2
  <1>8. ScannersOK'
    <2>1. ASSUME NEW r \in Scanners
          PROVE  /\ StateOK(log', torn', scanner'[r].cur.offset, scanner'[r].cur.state)
                 /\ TurnsPassed(log, scanner[r].cur.offset, scanner[r].found)'
                 /\ \A e \in scanner'[r].found : usage'[e.turn] = NoTurn =>
                        Justified(log, torn, e.turn, e.usage)'
                 /\ scanner'[r].phase # "commit" => scanner'[r].found = {}
      <3>1. /\ StateOK(log, torn, scanner'[r].cur.offset, scanner'[r].cur.state)
            /\ TurnsPassed(log, scanner'[r].cur.offset, scanner'[r].found)
            /\ \A e \in scanner'[r].found :
                   usage[e.turn] = NoTurn => Justified(log, torn, e.turn, e.usage)
            /\ scanner'[r].phase # "commit" => scanner'[r].found = {}
        BY <1>7 DEF ScannerOK
      <3>2. TurnsPassed(log, scanner[r].cur.offset, scanner[r].found)'
        BY <3>1 DEF TurnsPassed
      <3>3. ASSUME NEW e \in scanner'[r].found, usage[e.turn] = NoTurn
            PROVE  Justified(log, torn, e.turn, e.usage)'
        <4>1. Justified(log, torn, e.turn, e.usage)
          BY <3>1, <3>3
        <4> QED  BY <4>1 DEF Justified
      <3> QED  BY <3>1, <3>2, <3>3
    <2> QED  BY <2>1 DEF ScannersOK
  <1> QED  BY <1>2, <1>3, <1>4, <1>5, <1>6, <1>8 DEF MetricsInv

LEMMA MetricCursorOK ==
    ASSUME MetricsInv, NEW s \in Scanners, MetricCursor(s)
    PROVE  MetricsInv'
  <1> DEFINE y == [phase |-> "scan", cur |-> cursor, found |-> {}]
  <1>1. /\ scanner' = [scanner EXCEPT ![s] = y] /\ scans < MaxScans /\ scans' = scans + 1
        /\ UNCHANGED <<log, shown, ident, old, cursor, usage, upsets, torn>>
    BY DEF MetricCursor
  <1>2. y \in [phase : {"idle", "scan", "commit"}, cur : Cursor,
               found : SUBSET [turn : Turns, usage : Nat]]
    BY DEF MetricsInv, TypeOK
  <1>3. ScannerOK(y)
    BY DEF ScannerOK, MetricsInv, CursorOK
  <1>4. scans' \in 0..MaxScans
    BY <1>1, MetricsAssumption DEF MetricsInv, TypeOK
  <1> HIDE DEF y
  <1> QED  BY <1>1, <1>2, <1>3, <1>4, ScannerStepOK

LEMMA AbortOK ==
    ASSUME MetricsInv, NEW s \in Scanners, Abort(s)
    PROVE  MetricsInv'
  <1>1. /\ scanner' = [scanner EXCEPT ![s] = Idle] /\ scans' = scans
        /\ UNCHANGED <<log, shown, ident, old, cursor, usage, upsets, torn>>
    BY DEF Abort
  <1>2. Idle \in [phase : {"idle", "scan", "commit"}, cur : Cursor,
                  found : SUBSET [turn : Turns, usage : Nat]]
    <2>1. NoState \in State /\ Len(log) \in Nat
      BY DEF NoState, State, MetricsInv, TypeOK
    <2> QED  BY <2>1 DEF Idle, FreshCursor, Cursor
  <1>3. ScannerOK(Idle)
    <2>1. StateOK(log, torn, 0, NoState)
      BY FreshStateOK
    <2> QED  BY <2>1 DEF ScannerOK, Idle, FreshCursor, TurnsPassed
  <1>4. scans' \in 0..MaxScans
    BY <1>1 DEF MetricsInv, TypeOK
  <1> QED  BY <1>1, <1>2, <1>3, <1>4, ScannerStepOK

\* A cursor set back to the start: its state is what is left of its offset.
LEMMA StateSetBack ==
    ASSUME NEW l, NEW t \in SUBSET Nat, NEW n \in Nat, NEW st, StateOK(l, t, n, st)
    PROVE  StateOK(l, t \cup {n}, 0, st)
  <1> DEFINE v == t \cup {n}
  <1>1. /\ Tot(l, 1) = 0 /\ Req(l, 1) = 0 /\ InTurn(l, 0) = NoTurn /\ Beg(l, 1) = 0
        /\ Bef(l, 1, {"tokens"}) = {} /\ Bef(l, 1, Marks) = {}
    BY BefFirst DEF Tot, Req, InTurn, Beg
  <1>2. \/ st.current = 0 /\ st.last = 0
        \/ \E o \in v : \E j \in 1..o :
               l[j].kind = "tokens" /\ st.current = l[j].total /\ st.last = l[j].last
    <2>1. CASE Bef(l, n + 1, {"tokens"}) = {}
      BY <2>1 DEF StateOK, Tot, Req
    <2>2. CASE Bef(l, n + 1, {"tokens"}) # {}
      <3> DEFINE j == Last(Bef(l, n + 1, {"tokens"}))
      <3>1. st.current = l[j].total /\ st.last = l[j].last
        BY <2>2 DEF StateOK, Tot, Req
      <3>2. j \in Bef(l, n + 1, {"tokens"})
        <4>1. n + 1 \in Nat
          OBVIOUS
        <4> QED  BY <2>2, <4>1, BefFacts
      <3> HIDE DEF j
      <3>3. j \in 1..n /\ l[j].kind = "tokens"
        BY <3>2 DEF Bef
      <3> QED  BY <3>1, <3>3
    <2> QED  BY <2>1, <2>2
  <1>3. \/ st.turn = NoTurn
        \/ \E o \in v : InTurn(l, o) # NoTurn /\ st.turn = InTurn(l, o)
    BY DEF StateOK
  <1>4. \E o \in v : 0 <= o
    OBVIOUS
  <1>5. st \in State
    BY DEF StateOK
  <1> HIDE DEF v
  <1>6. StateOK(l, v, 0, st)
    BY <1>1, <1>2, <1>3, <1>4, <1>5 DEF StateOK
  <1> QED  BY <1>6 DEF v

\* Where a scan starts.
LEMMA StartOK ==
    ASSUME MetricsInv, NEW x \in Cursor, StateOK(log, torn, x.offset, x.state)
    PROVE  LET c == startCursor(x)
               t == IF c.offset < x.offset THEN torn \cup {x.offset} ELSE torn
           IN  /\ c \in Cursor /\ c.offset \in Nat /\ c.offset <= shown
               /\ c.offset = 0 \/ c.offset = x.offset
               /\ StateOK(log, t, c.offset, c.state)
  <1> DEFINE c == startCursor(x)
             t == IF c.offset < x.offset THEN torn \cup {x.offset} ELSE torn
  <1>0. /\ Len(log) \in Nat /\ shown \in 0..Len(log) /\ ident \in Nat
        /\ torn \in SUBSET Nat
    BY DEF MetricsInv, TypeOK, TornOK
  <1>1. /\ x.ident \in Nat /\ x.offset \in 0..Len(log) /\ x.state \in State
        /\ x = [ident |-> x.ident, offset |-> x.offset, state |-> x.state]
    BY DEF Cursor
  <1>2. NoState \in State
    BY DEF NoState, State
  <1>3. CASE x.ident # 0 /\ x.ident # ident
    <2>1. c = [ident |-> ident, offset |-> 0, state |-> NoState]
      <3>1. c = [FreshCursor EXCEPT !.ident = ident, !.offset = IF @ > shown THEN 0 ELSE @]
        BY <1>3 DEF startCursor
      <3> QED  BY <1>0, <3>1 DEF FreshCursor
    <2> HIDE DEF c
    <2>2. StateOK(log, t, 0, NoState)
      BY FreshStateOK
    <2> HIDE DEF t
    <2>3. c \in Cursor
      BY <1>0, <1>2, <2>1 DEF Cursor
    <2>4. c.offset = 0 /\ c.state = NoState /\ 0 <= shown
      BY <1>0, <2>1
    <2>5. /\ c \in Cursor /\ c.offset \in Nat /\ c.offset <= shown
          /\ c.offset = 0 \/ c.offset = x.offset
          /\ StateOK(log, t, c.offset, c.state)
      BY <2>2, <2>3, <2>4
    <2> QED  BY <2>5 DEF c, t
  <1>4. CASE ~(x.ident # 0 /\ x.ident # ident)
    <2>1. c = [x EXCEPT !.ident = ident, !.offset = IF @ > shown THEN 0 ELSE @]
      BY <1>4 DEF startCursor
    <2>2. c = [ident |-> ident, offset |-> IF x.offset > shown THEN 0 ELSE x.offset, state |-> x.state]
      <3> HIDE DEF c
      <3> QED  BY <1>1, <2>1 DEF Cursor
    <2> HIDE DEF c
    <2>3. /\ c \in Cursor /\ c.offset \in Nat /\ c.offset <= shown
          /\ c.offset = 0 \/ c.offset = x.offset
      BY <1>0, <1>1, <2>2 DEF Cursor
    <2>4. CASE x.offset > shown
      <3>1. c.offset = 0 /\ c.state = x.state /\ c.offset < x.offset /\ x.offset \in Nat
        BY <1>0, <1>1, <2>2, <2>4
      <3>2. StateOK(log, torn \cup {x.offset}, 0, x.state)
        BY <1>0, <3>1, StateSetBack
      <3>3. StateOK(log, t, c.offset, c.state)
        BY <3>1, <3>2
      <3> QED  BY <2>3, <3>3 DEF c
    <2>5. CASE ~(x.offset > shown)
      <3>1. c.offset = x.offset /\ c.state = x.state /\ ~(c.offset < x.offset)
        BY <1>0, <1>1, <2>2, <2>5
      <3>2. StateOK(log, t, c.offset, c.state)
        BY <3>1
      <3> QED  BY <2>3, <3>2 DEF c
    <2> QED  BY <2>4, <2>5
  <1> QED  BY <1>3, <1>4

\* What a scan finds, from an orderly start.
LEMMA FoundOK ==
    ASSUME TypeOK, LogOK(log), NEW t \in SUBSET (0..Len(log)),
           \A o \in t : TurnsPassed(log, o, {}),
           NEW c, c.offset \in Nat, c.offset <= shown, TurnsPassed(log, c.offset, {}),
           StateOK(log, t, c.offset, c.state)
    PROVE  /\ StateOK(log, t, shown, stateAt(c, shown))
           /\ metricEvents(c) \subseteq [turn : Turns, usage : Nat]
           /\ TurnsPassed(log, shown, metricEvents(c))
           /\ \A e \in metricEvents(c) :
                  usage[e.turn] = NoTurn => Justified(log, t, e.turn, e.usage)
           /\ metricEvents(c) # {} => InProject(log)
  <1> DEFINE ev(i) == [turn |-> completed(stateAt(c, i - 1), log[i]),
                       usage |-> turnUsage(stateAt(c, i - 1))]
  <1>0. /\ Len(log) \in Nat /\ shown \in Nat /\ shown <= Len(log) /\ old \in Nat
        /\ t \in SUBSET Nat
    BY MetricsAssumption DEF TypeOK
  <1>1. \A n \in c.offset..shown : StateOK(log, t, n, stateAt(c, n))
    BY <1>0, ScanKeepsState
  <1>2. StateOK(log, t, shown, stateAt(c, shown))
    BY <1>0, <1>1
  <1>3. ASSUME NEW i \in (c.offset + 1)..shown, log[i].kind = "complete", i > old,
               InProject(log)
        PROVE  /\ ev(i) \in [turn : Turns, usage : Nat]
               /\ usage[ev(i).turn] = NoTurn => Justified(log, t, ev(i).turn, ev(i).usage)
               /\ usage[log[i].turn] # NoTurn \/ ev(i).turn = log[i].turn
               /\ stateAt(c, i - 1).project
    <2>1. i \in 1..Len(log) /\ i - 1 \in c.offset..shown /\ i - 1 \in Nat
      BY <1>0, <1>3
    <2>2. StateOK(log, t, i - 1, stateAt(c, i - 1))
      BY <1>1, <2>1
    <2>3. i # 1
      <3>1. log[1].kind = "meta"
        BY <1>3 DEF InProject
      <3> QED  BY <1>3, <3>1
    <2>4. stateAt(c, i - 1).project
      BY <2>1, <2>2, <2>3, <1>3 DEF StateOK
    <2> HIDE DEF TypeOK
    <2>5. /\ completed(stateAt(c, i - 1), log[i]) \in Turns
          /\ turnUsage(stateAt(c, i - 1)) \in Nat
          /\ usage[completed(stateAt(c, i - 1), log[i])] = NoTurn =>
                Justified(log, t, completed(stateAt(c, i - 1), log[i]), turnUsage(stateAt(c, i - 1)))
          /\ usage[log[i].turn] # NoTurn \/ completed(stateAt(c, i - 1), log[i]) = log[i].turn
      BY <1>0, <1>3, <2>1, <2>2, EventOK
    <2> QED  BY <2>4, <2>5
  <1>4. ASSUME NEW e \in metricEvents(c)
        PROVE  /\ e \in [turn : Turns, usage : Nat]
               /\ usage[e.turn] = NoTurn => Justified(log, t, e.turn, e.usage)
               /\ InProject(log)
    <2>1. PICK i \in (c.offset + 1)..shown : /\ log[i].kind = "complete" /\ i > old /\ e = ev(i)
                                             /\ stateAt(c, i - 1).project
      BY DEF metricEvents
    <2>2. i - 1 \in c.offset..shown
      BY <1>0, <2>1
    <2>3. InProject(log)
      BY <1>1, <2>1, <2>2 DEF StateOK
    <2> HIDE DEF ev
    <2> QED  BY <1>3, <2>1, <2>3
  <1>5. ASSUME NEW i \in 1..shown, log[i].kind = "complete", i > old, InProject(log)
        PROVE  usage[log[i].turn] # NoTurn \/ \E e \in metricEvents(c) : e.turn = log[i].turn
    <2>1. CASE i <= c.offset
      <3>1. i \in 1..c.offset
        BY <2>1
      <3> QED  BY <1>5, <3>1 DEF TurnsPassed
    <2>2. CASE ~(i <= c.offset)
      <3>1. i \in (c.offset + 1)..shown
        BY <1>0, <2>2
      <3>2. ev(i) \in metricEvents(c)
        BY <1>3, <1>5, <3>1 DEF metricEvents
      <3> HIDE DEF ev
      <3> QED  BY <1>3, <1>5, <3>1, <3>2
    <2> QED  BY <2>1, <2>2
  <1>6. TurnsPassed(log, shown, metricEvents(c))
    BY <1>5 DEF TurnsPassed
  <1> QED  BY <1>2, <1>4, <1>6

LEMMA ScanOK ==
    ASSUME MetricsInv, NEW s \in Scanners, Scan(s)
    PROVE  MetricsInv' /\ (scanner'[s].found # {} => InProject(log))
  <1> DEFINE x == scanner[s].cur
             c == startCursor(x)
             t == IF c.offset < x.offset THEN torn \cup {x.offset} ELSE torn
             y == [phase |-> "commit", found |-> metricEvents(c),
                   cur |-> [c EXCEPT !.offset = shown, !.state = stateAt(c, shown)]]
  <1>0. /\ TypeOK /\ LogOK(log) /\ TranscriptOK /\ TornOK /\ CursorOK /\ UsageOK /\ ScannersOK
        /\ Len(log) \in Nat /\ shown \in 0..Len(log) /\ Len(log) <= MaxLines /\ MaxLines \in Nat
    BY MetricsAssumption DEF MetricsInv, TranscriptOK, TypeOK
  <1>1. /\ scanner[s].phase = "scan" /\ scanner' = [scanner EXCEPT ![s] = y] /\ torn' = t
        /\ UNCHANGED <<log, shown, ident, old, cursor, usage, scans, upsets>>
    BY DEF Scan
  <1>2. /\ x \in Cursor /\ x.offset \in 0..Len(log)
        /\ StateOK(log, torn, x.offset, x.state) /\ TurnsPassed(log, x.offset, {})
    <2>1. scanner[s].cur \in Cursor
      BY <1>0 DEF TypeOK
    <2>2. /\ StateOK(log, torn, scanner[s].cur.offset, scanner[s].cur.state)
          /\ TurnsPassed(log, scanner[s].cur.offset, scanner[s].found)
          /\ scanner[s].found = {}
      BY <1>0, <1>1 DEF ScannersOK
    <2> QED  BY <2>1, <2>2 DEF Cursor
  <1>3. /\ c \in Cursor /\ c.offset \in Nat /\ c.offset <= shown
        /\ c.offset = 0 \/ c.offset = x.offset
        /\ StateOK(log, t, c.offset, c.state)
    <2> HIDE DEF x
    <2> QED  BY <1>2, StartOK
  <1> HIDE DEF x, c
  <1>4. /\ t \in SUBSET (0..Len(log)) /\ torn \subseteq t
        /\ \A o \in t : TurnsPassed(log, o, {})
    BY <1>0, <1>2 DEF TornOK
  <1>5. TurnsPassed(log, c.offset, {})
    BY <1>2, <1>3 DEF TurnsPassed
  <1> HIDE DEF t
  <1>6. /\ StateOK(log, t, shown, stateAt(c, shown))
        /\ metricEvents(c) \subseteq [turn : Turns, usage : Nat]
        /\ TurnsPassed(log, shown, metricEvents(c))
        /\ \A e \in metricEvents(c) :
               usage[e.turn] = NoTurn => Justified(log, t, e.turn, e.usage)
        /\ metricEvents(c) # {} => InProject(log)
    BY <1>0, <1>3, <1>4, <1>5, FoundOK
  <1>7. /\ y.cur \in Cursor /\ y.cur.offset = shown /\ y.cur.state = stateAt(c, shown)
        /\ y.phase = "commit" /\ y.found = metricEvents(c)
        /\ y \in [phase : {"idle", "scan", "commit"}, cur : Cursor,
                  found : SUBSET [turn : Turns, usage : Nat]]
    <2>1. stateAt(c, shown) \in State
      BY <1>6 DEF StateOK
    <2> DEFINE g == [c EXCEPT !.offset = shown, !.state = stateAt(c, shown)]
    <2>2. g \in Cursor /\ g.offset = shown /\ g.state = stateAt(c, shown)
      BY <1>0, <1>3, <2>1 DEF Cursor
    <2> HIDE DEF g
    <2>3. y = [phase |-> "commit", found |-> metricEvents(c), cur |-> g]
      BY DEF g
    <2> QED  BY <1>6, <2>2, <2>3
  <1> HIDE DEF y
  <1>8. scanner \in [Scanners -> [phase : {"idle", "scan", "commit"}, cur : Cursor,
                                  found : SUBSET [turn : Turns, usage : Nat]]]
    BY <1>0 DEF TypeOK
  <1>9. TypeOK'
    <2>1. Cursor' = Cursor
      BY <1>1 DEF Cursor, State
    <2>2. torn' \subseteq 0..MaxLines
      BY <1>0, <1>1, <1>4
    <2> QED  BY <1>0, <1>1, <1>7, <1>8, <2>1, <2>2 DEF TypeOK
  <1>10. TranscriptOK'
    BY <1>0, <1>1 DEF TranscriptOK, LogOK, LineOK
  <1>11. TornOK'
    BY <1>1, <1>4 DEF TornOK, TurnsPassed
  <1>12. CursorOK'
    <2>1. StateOK(log, t, cursor.offset, cursor.state)
      BY <1>0, <1>4, StateMoreTorn DEF CursorOK
    <2> QED  BY <1>0, <1>1, <2>1 DEF CursorOK, TurnsPassed
  <1>13. UsageOK'
    <2>1. ASSUME NEW k \in Turns, usage[k] # NoTurn PROVE Justified(log, t, k, usage[k])
      BY <1>0, <1>4, <2>1, JustifiedMoreTorn DEF UsageOK
    <2> QED  BY <1>1, <2>1 DEF UsageOK, Justified
  <1>14. ASSUME NEW r \in Scanners
         PROVE  /\ StateOK(log, t, scanner'[r].cur.offset, scanner'[r].cur.state)
                /\ TurnsPassed(log, scanner'[r].cur.offset, scanner'[r].found)
                /\ \A e \in scanner'[r].found :
                       usage[e.turn] = NoTurn => Justified(log, t, e.turn, e.usage)
                /\ scanner'[r].phase # "commit" => scanner'[r].found = {}
    <2>1. CASE r = s
      <3>1. scanner'[r] = y
        BY <1>1, <1>8, <2>1
      <3> QED  BY <1>6, <1>7, <3>1
    <2>2. CASE r # s
      <3>1. scanner'[r] = scanner[r]
        BY <1>1, <1>8, <2>2
      <3>2. /\ StateOK(log, torn, scanner[r].cur.offset, scanner[r].cur.state)
            /\ TurnsPassed(log, scanner[r].cur.offset, scanner[r].found)
            /\ \A e \in scanner[r].found :
                   usage[e.turn] = NoTurn => Justified(log, torn, e.turn, e.usage)
            /\ scanner[r].phase # "commit" => scanner[r].found = {}
        BY <1>0 DEF ScannersOK
      <3>3. StateOK(log, t, scanner[r].cur.offset, scanner[r].cur.state)
        BY <1>4, <3>2, StateMoreTorn
      <3>4. ASSUME NEW e \in scanner[r].found, usage[e.turn] = NoTurn
            PROVE  Justified(log, t, e.turn, e.usage)
        BY <1>0, <1>4, <3>2, <3>4, JustifiedMoreTorn
      <3> QED  BY <3>1, <3>2, <3>3, <3>4
    <2> QED  BY <2>1, <2>2
  <1>15. ScannersOK'
    <2>1. ASSUME NEW r \in Scanners
          PROVE  /\ StateOK(log', torn', scanner'[r].cur.offset, scanner'[r].cur.state)
                 /\ TurnsPassed(log, scanner[r].cur.offset, scanner[r].found)'
                 /\ \A e \in scanner'[r].found : usage'[e.turn] = NoTurn =>
                        Justified(log, torn, e.turn, e.usage)'
                 /\ scanner'[r].phase # "commit" => scanner'[r].found = {}
      <3>1. TurnsPassed(log, scanner[r].cur.offset, scanner[r].found)'
        BY <1>1, <1>14 DEF TurnsPassed
      <3>2. ASSUME NEW e \in scanner'[r].found, usage[e.turn] = NoTurn
            PROVE  Justified(log, torn, e.turn, e.usage)'
        <4>1. Justified(log, t, e.turn, e.usage)
          BY <1>14, <3>2
        <4> QED  BY <1>1, <4>1 DEF Justified
      <3> QED  BY <1>1, <1>14, <3>1, <3>2
    <2> QED  BY <2>1 DEF ScannersOK
  <1>16. scanner'[s].found # {} => InProject(log)
    <2>1. scanner'[s] = y
      BY <1>1, <1>8
    <2> QED  BY <1>6, <1>7, <2>1
  <1> QED  BY <1>9, <1>10, <1>11, <1>12, <1>13, <1>15, <1>16 DEF MetricsInv

LEMMA CommitMetricsOK ==
    ASSUME MetricsInv, NEW s \in Scanners, CommitMetrics(s)
    PROVE  MetricsInv'
  <1> DEFINE x == scanner[s]
             pick(k) == CHOOSE e \in x.found : e.turn = k
             new(k) == usage[k] = NoTurn /\ \E e \in x.found : e.turn = k
  <1>0. /\ TypeOK /\ LogOK(log) /\ TranscriptOK /\ TornOK /\ CursorOK /\ UsageOK /\ ScannersOK
        /\ Len(log) \in Nat /\ NoTurn \notin Nat
    BY MetricsAssumption DEF MetricsInv, TranscriptOK, TypeOK
  <1>1. /\ usage' = [k \in Turns |-> IF new(k) THEN pick(k).usage ELSE usage[k]]
        /\ cursor' = x.cur /\ scanner' = [scanner EXCEPT ![s] = Idle]
        /\ UNCHANGED <<log, shown, ident, old, scans, upsets, torn>>
    BY DEF CommitMetrics
  <1>2. /\ x.cur \in Cursor /\ x.found \subseteq [turn : Turns, usage : Nat]
        /\ scanner \in [Scanners -> [phase : {"idle", "scan", "commit"}, cur : Cursor,
                                     found : SUBSET [turn : Turns, usage : Nat]]]
        /\ usage \in [Turns -> Nat \cup {NoTurn}]
    BY <1>0 DEF TypeOK
  <1>3. /\ StateOK(log, torn, x.cur.offset, x.cur.state)
        /\ TurnsPassed(log, x.cur.offset, x.found)
        /\ \A e \in x.found : usage[e.turn] = NoTurn => Justified(log, torn, e.turn, e.usage)
    BY <1>0 DEF ScannersOK
  <1>4. ASSUME NEW k \in Turns, new(k)
        PROVE  pick(k) \in x.found /\ pick(k).turn = k /\ pick(k).usage \in Nat
    <2>1. pick(k) \in x.found /\ pick(k).turn = k
      BY <1>4
    <2> HIDE DEF pick
    <2> QED  BY <1>2, <2>1
  <1> HIDE DEF x, pick
  <1>5. usage' \in [Turns -> Nat \cup {NoTurn}]
    BY <1>1, <1>2, <1>4
  <1>6. ASSUME NEW k \in Turns
        PROVE  /\ usage[k] # NoTurn => usage'[k] = usage[k]
               /\ (\E e \in x.found : e.turn = k) => usage'[k] # NoTurn
               /\ usage'[k] # NoTurn => Justified(log, torn, k, usage'[k])
    <2>1. CASE new(k)
      <3>1. usage'[k] = pick(k).usage
        BY <1>1, <2>1
      <3>2. usage'[k] # NoTurn /\ usage[k] = NoTurn
        BY <1>0, <1>4, <2>1, <3>1
      <3>3. Justified(log, torn, k, pick(k).usage)
        BY <1>3, <1>4, <2>1
      <3> QED  BY <3>1, <3>2, <3>3
    <2>2. CASE ~new(k)
      <3>1. usage'[k] = usage[k]
        BY <1>1, <2>2
      <3> QED  BY <1>0, <2>2, <3>1 DEF UsageOK
    <2> QED  BY <2>1, <2>2
  <1> HIDE DEF new
  <1>7. \A i \in 1..Len(log) : log[i].kind = "complete" => log[i].turn \in Turns
    BY <1>0 DEF LogOK, LineOK, Marks
  <1>8. ASSUME NEW n \in 0..Len(log), NEW F, TurnsPassed(log, n, F)
        PROVE  \A i \in 1..n : log[i].kind = "complete" /\ i > old /\ InProject(log) =>
                   usage'[log[i].turn] # NoTurn \/ \E e \in F : e.turn = log[i].turn
    <2>1. \A i \in 1..n : i \in 1..Len(log)
      BY <1>0
    <2> QED  BY <1>6, <1>7, <1>8, <2>1 DEF TurnsPassed
  <1>9. TypeOK'
    <2>1. Cursor' = Cursor
      BY <1>1 DEF Cursor, State
    <2>2. Idle \in [phase : {"idle", "scan", "commit"}, cur : Cursor,
                    found : SUBSET [turn : Turns, usage : Nat]]
      <3>1. NoState \in State
        BY DEF NoState, State
      <3> QED  BY <1>0, <3>1 DEF Idle, FreshCursor, Cursor
    <2>3. scanner' \in [Scanners -> [phase : {"idle", "scan", "commit"}, cur : Cursor,
                                     found : SUBSET [turn : Turns, usage : Nat]]]
      BY <1>1, <1>2, <2>2
    <2> QED  BY <1>0, <1>1, <1>2, <1>5, <2>1, <2>3 DEF TypeOK
  <1>10. TranscriptOK'
    BY <1>0, <1>1 DEF TranscriptOK, LogOK, LineOK
  <1>11. TornOK'
    <2>1. \A o \in torn : o \in 0..Len(log) /\ TurnsPassed(log, o, {})
      BY <1>0 DEF TornOK
    <2>2. \A o \in torn : \A i \in 1..o : log[i].kind = "complete" /\ i > old /\ InProject(log) =>
              usage'[log[i].turn] # NoTurn \/ \E e \in {} : e.turn = log[i].turn
      BY <1>8, <2>1
    <2> QED  BY <1>0, <1>1, <2>2 DEF TornOK, TurnsPassed
  <1>12. CursorOK'
    <2>1. x.cur.offset \in 0..Len(log)
      BY <1>2 DEF Cursor
    <2>2. \A i \in 1..x.cur.offset : log[i].kind = "complete" /\ i > old /\ InProject(log) =>
              usage'[log[i].turn] # NoTurn \/ \E e \in x.found : e.turn = log[i].turn
      BY <1>3, <1>8, <2>1
    <2>3. \A i \in 1..x.cur.offset : i \in 1..Len(log)
      BY <1>0, <2>1
    <2>4. \A i \in 1..x.cur.offset : log[i].kind = "complete" /\ i > old /\ InProject(log) =>
              usage'[log[i].turn] # NoTurn
      BY <1>6, <1>7, <2>2, <2>3
    <2> QED  BY <1>1, <1>3, <2>4 DEF CursorOK, TurnsPassed
  <1>13. UsageOK'
    BY <1>1, <1>6 DEF UsageOK, Justified
  <1>14. ASSUME NEW r \in Scanners
         PROVE  /\ StateOK(log, torn, scanner'[r].cur.offset, scanner'[r].cur.state)
                /\ TurnsPassed(log, scanner[r].cur.offset, scanner[r].found)'
                /\ \A e \in scanner'[r].found :
                       usage'[e.turn] = NoTurn => Justified(log, torn, e.turn, e.usage)
                /\ scanner'[r].phase # "commit" => scanner'[r].found = {}
    <2>1. CASE r = s
      <3>1. scanner'[r] = Idle
        BY <1>1, <1>2, <2>1
      <3>2. StateOK(log, torn, 0, NoState)
        BY FreshStateOK
      <3> QED  BY <3>1, <3>2 DEF Idle, FreshCursor, TurnsPassed
    <2>2. CASE r # s
      <3>1. scanner'[r] = scanner[r]
        BY <1>1, <1>2, <2>2
      <3>2. /\ StateOK(log, torn, scanner[r].cur.offset, scanner[r].cur.state)
            /\ TurnsPassed(log, scanner[r].cur.offset, scanner[r].found)
            /\ \A e \in scanner[r].found :
                   usage[e.turn] = NoTurn => Justified(log, torn, e.turn, e.usage)
            /\ scanner[r].phase # "commit" => scanner[r].found = {}
        BY <1>0 DEF ScannersOK
      <3>3. scanner[r].cur.offset \in 0..Len(log) /\ \A e \in scanner[r].found : e.turn \in Turns
        BY <1>2 DEF Cursor
      <3>4. TurnsPassed(log, scanner[r].cur.offset, scanner[r].found)'
        <4>1. \A i \in 1..scanner[r].cur.offset : log[i].kind = "complete" /\ i > old /\ InProject(log) =>
                  usage'[log[i].turn] # NoTurn \/ \E e \in scanner[r].found : e.turn = log[i].turn
          BY <1>8, <3>2, <3>3
        <4> QED  BY <1>1, <3>1, <4>1 DEF TurnsPassed
      <3>5. ASSUME NEW e \in scanner[r].found, usage'[e.turn] = NoTurn
            PROVE  Justified(log, torn, e.turn, e.usage)
        <4>1. usage[e.turn] = NoTurn
          BY <1>6, <3>3, <3>5
        <4> QED  BY <3>2, <3>5, <4>1
      <3> QED  BY <3>1, <3>2, <3>4, <3>5
    <2> QED  BY <2>1, <2>2
  <1>15. ScannersOK'
    <2>1. ASSUME NEW r \in Scanners
          PROVE  /\ StateOK(log', torn', scanner'[r].cur.offset, scanner'[r].cur.state)
                 /\ TurnsPassed(log, scanner[r].cur.offset, scanner[r].found)'
                 /\ \A e \in scanner'[r].found : usage'[e.turn] = NoTurn =>
                        Justified(log, torn, e.turn, e.usage)'
                 /\ scanner'[r].phase # "commit" => scanner'[r].found = {}
      <3>1. ASSUME NEW e \in scanner'[r].found, usage'[e.turn] = NoTurn
            PROVE  Justified(log, torn, e.turn, e.usage)'
        <4>1. Justified(log, torn, e.turn, e.usage)
          BY <1>14, <3>1
        <4> QED  BY <1>1, <4>1 DEF Justified
      <3> QED  BY <1>1, <1>14, <3>1
    <2> QED  BY <2>1 DEF ScannersOK
  <1> QED  BY <1>9, <1>10, <1>11, <1>12, <1>13, <1>15 DEF MetricsInv

-----------------------------------------------------------------------------
\* The results.

LEMMA StepOK ==
    ASSUME MetricsInv, [Next]_vars
    PROVE  MetricsInv'
  <1>1. CASE UNCHANGED vars
    <2>1. /\ UNCHANGED <<log, old, cursor, usage, scanner, scans, torn>>
          /\ shown' = shown /\ ident' = ident /\ upsets' = upsets
      BY <1>1 DEF vars
    <2>2. shown' \in 0..Len(log) /\ ident' \in Nat /\ upsets' \in 0..MaxUpsets
      BY <2>1 DEF MetricsInv, TypeOK
    <2> QED  BY <2>1, <2>2, FileStepOK
  <1>2. CASE Next
    <2>1. CASE \E l \in NextLine : WriteLine(l)
      BY <2>1, WriteLineOK
    <2>2. CASE ShowLine
      BY <2>2, ShowLineOK
    <2>3. CASE \E n \in 0..MaxLines : \E id \in {ident, ident + 1} : Restore(n, id)
      BY <2>3, RestoreOK
    <2>4. ASSUME NEW s \in Scanners, MetricCursor(s) \/ Scan(s) \/ CommitMetrics(s) \/ Abort(s)
          PROVE  MetricsInv'
      BY <2>4, MetricCursorOK, ScanOK, CommitMetricsOK, AbortOK
    <2> QED  BY <1>2, <2>1, <2>2, <2>3, <2>4 DEF Next
  <1> QED  BY <1>1, <1>2

(***************************************************************************)
(* The inductive invariant of the metric scanner: the state in every       *)
(* cursor is what the lines before its offset say, except for what a       *)
(* cursor that was set back left in it, and every offset passed or torn    *)
(* has its turns stored.                                                   *)
(***************************************************************************)
THEOREM MetricsInvariant == Spec => []MetricsInv
  <1>1. Init => MetricsInv
    BY InitOK
  <1>2. MetricsInv /\ [Next]_vars => MetricsInv'
    BY StepOK
  <1> QED  BY <1>1, <1>2, PTL DEF Spec

(***************************************************************************)
(* Cursor, events and scanners keep their types: in particular no scan     *)
(* reports a turn with a negative number of tokens or without a turn id.   *)
(***************************************************************************)
THEOREM MetricsTypeCorrect == Spec => []TypeOK
  <1>1. MetricsInv => TypeOK
    BY DEF MetricsInv
  <1> QED  BY <1>1, MetricsInvariant, PTL

\* What justifies a stored turn, at the line where it completes.
LEMMA JustifiedAtEnd ==
    ASSUME MetricsInv, NEW i \in Written("complete"), usage[log[i].turn] # NoTurn
    PROVE  /\ i > old
           /\ IF Torn(i) THEN usage[log[i].turn] <= TotalAt(i) ELSE usage[log[i].turn] = Spent(i)
  <1> DEFINE k == log[i].turn
             u == usage[k]
  <1>0. /\ LogOK(log) /\ UsageOK /\ Len(log) \in Nat /\ old \in Nat /\ torn \subseteq 0..Len(log)
    BY MetricsAssumption DEF MetricsInv, TranscriptOK, TornOK, TypeOK
  <1>1. i \in 1..Len(log) /\ log[i].kind = "complete"
    BY <1>0, SameOperators
  <1>2. k \in Turns /\ NoTurn \notin Turns
    BY <1>0, <1>1, MetricsAssumption DEF LogOK, LineOK, Marks
  <1>3. Justified(log, torn, k, u)
    BY <1>0, <1>2 DEF UsageOK
  <1> HIDE DEF u
  <1>4. i > old /\ IF TornAt(log, torn, i) THEN u <= Tot(log, i) ELSE u = Spn(log, i)
    <2>1. ASSUME NEW j \in 1..Len(log), log[j].kind = "complete", log[j].turn = k, j > old,
                 IF TornAt(log, torn, j) THEN u <= Tot(log, j) ELSE u = Spn(log, j)
          PROVE  i > old /\ IF TornAt(log, torn, i) THEN u <= Tot(log, i) ELSE u = Spn(log, i)
      <3>1. j = i
        BY <1>0, <1>1, <2>1, CompleteOnce
      <3> QED  BY <2>1, <3>1
    <2>2. ASSUME NEW o \in torn, InTurn(log, o) = k, Beg(log, o + 1) > old, u <= Tot(log, i)
          PROVE  i > old /\ IF TornAt(log, torn, i) THEN u <= Tot(log, i) ELSE u = Spn(log, i)
      <3>1. o \in 0..Len(log) /\ InTurn(log, o) # NoTurn
        BY <1>0, <1>2, <2>2
      <3>2. Beg(log, i) = Beg(log, o + 1) /\ o < i /\ Beg(log, o + 1) <= o
        BY <1>0, <1>1, <2>2, <3>1, CompletesLater
      <3>3. Beg(log, o + 1) \in 1..o
        BY <1>0, <3>1, InTurnFacts
      <3>4. TornAt(log, torn, i)
        BY <3>2 DEF TornAt
      <3>5. i > old
        BY <1>0, <1>1, <2>2, <3>1, <3>2, <3>3
      <3> QED  BY <2>2, <3>4, <3>5
    <2> QED  BY <1>1, <1>3, <2>1, <2>2 DEF Justified
  <1>5. TotalAt(i) = Tot(log, i) /\ Spent(i) = Spn(log, i) /\ (Torn(i) <=> TornAt(log, torn, i))
    BY <1>0, SameOperators
  <1> QED  BY <1>4, <1>5 DEF u

(***************************************************************************)
(* Each stored turn has the tokens the transcript reports for it, however  *)
(* long the transcript, however its lines are divided among any number of  *)
(* hooks, whichever commits last and however often the file is restored;   *)
(* a turn torn by a shorter file has at most the session's total.          *)
(***************************************************************************)
THEOREM UsageIsTheTranscripts == Spec => []UsageIsExact
  <1>1. MetricsInv => UsageIsExact
    BY JustifiedAtEnd DEF UsageIsExact
  <1> QED  BY <1>1, MetricsInvariant, PTL

\* Only a transcript that says its project has events, found or stored.
ProjectOK ==
    /\ \A k \in Turns : usage[k] # NoTurn => InProject(log)
    /\ \A s \in Scanners : scanner[s].found # {} => InProject(log)

LEMMA ProjectInit == Init => ProjectOK
  BY DEF Init, Idle, ProjectOK

LEMMA ProjectStep ==
    ASSUME MetricsInv, ProjectOK, [Next]_vars
    PROVE  ProjectOK'
  <1>0. /\ log \in Seq(Lines) /\ Len(log) \in Nat
        /\ scanner \in [Scanners -> [phase : {"idle", "scan", "commit"}, cur : Cursor,
                                     found : SUBSET [turn : Turns, usage : Nat]]]
    BY DEF MetricsInv, TypeOK
  <1>1. CASE UNCHANGED <<usage, scanner>> /\ (InProject(log) => InProject(log)')
    BY <1>1 DEF ProjectOK
  <1>2. ASSUME NEW x \in NextLine, WriteLine(x) PROVE ProjectOK'
    <2>1. x \in Lines /\ log' = Append(log, x) /\ UNCHANGED <<usage, scanner>>
      BY <1>2, NextLineOK DEF MetricsInv, TranscriptOK, WriteLine
    <2>2. Len(log') = Len(log) + 1 /\ \A i \in 1..Len(log) : log'[i] = log[i]
      BY <1>0, <2>1
    <2>3. Len(log) > 0 => Len(log') > 0 /\ log'[1] = log[1]
      BY <1>0, <2>2
    <2>4. InProject(log) => InProject(log)'
      BY <2>3 DEF InProject
    <2> QED  BY <1>1, <2>1, <2>4
  <1>3. CASE ShowLine \/ \E n \in 0..MaxLines : \E id \in {ident, ident + 1} : Restore(n, id)
    BY <1>1, <1>3 DEF ShowLine, Restore, InProject
  <1>4. ASSUME NEW s \in Scanners, MetricCursor(s) \/ Scan(s) \/ Abort(s)
        PROVE  ProjectOK'
    <2>1. log' = log /\ usage' = usage /\ \A r \in Scanners \ {s} : scanner'[r] = scanner[r]
      BY <1>0, <1>4 DEF MetricCursor, Scan, Abort
    <2>2. CASE Scan(s)
      <3>1. scanner'[s].found # {} => InProject(log)
        BY <2>2, ScanOK
      <3> QED  BY <2>1, <3>1 DEF ProjectOK, InProject
    <2>3. CASE MetricCursor(s) \/ Abort(s)
      <3>1. scanner'[s].found = {}
        BY <1>0, <2>3 DEF MetricCursor, Abort, Idle
      <3> QED  BY <2>1, <3>1 DEF ProjectOK, InProject
    <2> QED  BY <1>4, <2>2, <2>3
  <1>5. ASSUME NEW s \in Scanners, CommitMetrics(s)
        PROVE  ProjectOK'
    <2>1. log' = log /\ scanner' = [scanner EXCEPT ![s] = Idle]
      BY <1>5 DEF CommitMetrics
    <2>2. \A r \in Scanners : scanner'[r].found # {} => InProject(log)
      BY <1>0, <2>1 DEF ProjectOK, Idle
    <2>3. ASSUME NEW k \in Turns, usage'[k] # NoTurn
          PROVE  InProject(log)
      <3>1. usage[k] # NoTurn \/ scanner[s].found # {}
        BY <1>5, <2>3 DEF CommitMetrics
      <3> QED  BY <3>1 DEF ProjectOK
    <2> QED  BY <2>1, <2>2, <2>3 DEF ProjectOK, InProject
  <1>6. CASE UNCHANGED vars
    BY <1>1, <1>6 DEF vars, InProject
  <1> QED  BY <1>2, <1>3, <1>4, <1>5, <1>6 DEF Next

(***************************************************************************)
(* The cursor never passes a turn that is not stored, and no turn from     *)
(* before the cutover, or of a transcript without a project, is: whichever *)
(* scans die or overtake each other.                                       *)
(***************************************************************************)
THEOREM NoTurnIsSkipped == Spec => []NoTurnSkipped
  <1>1. ASSUME MetricsInv, ProjectOK PROVE NoTurnSkipped
    <2>0. /\ LogOK(log) /\ Len(log) \in Nat /\ cursor.offset \in 0..Len(log)
          /\ TurnsPassed(log, cursor.offset, {})
      BY <1>1 DEF MetricsInv, TranscriptOK, CursorOK, TypeOK, Cursor
    <2>1. ASSUME NEW i \in Written("complete")
          PROVE  /\ (i <= cursor.offset /\ i > old /\ log[1].kind = "meta") => usage[log[i].turn] # NoTurn
                 /\ usage[log[i].turn] # NoTurn => i > old /\ log[1].kind = "meta"
      <3>1. i \in 1..Len(log) /\ log[i].kind = "complete" /\ Len(log) > 0
        BY <2>0, SameOperators
      <3>2. InProject(log) <=> log[1].kind = "meta"
        BY <3>1 DEF InProject
      <3>3. i <= cursor.offset /\ i > old /\ log[1].kind = "meta" => usage[log[i].turn] # NoTurn
        BY <2>0, <3>1, <3>2 DEF TurnsPassed
      <3>4. usage[log[i].turn] # NoTurn => i > old
        BY <1>1, JustifiedAtEnd
      <3>5. log[i].turn \in Turns
        BY <2>0, <3>1 DEF LogOK, LineOK, Marks
      <3> QED  BY <1>1, <3>2, <3>3, <3>4, <3>5 DEF ProjectOK
    <2> QED  BY <2>1 DEF NoTurnSkipped
  <1>2. Init => MetricsInv /\ ProjectOK
    BY InitOK, ProjectInit
  <1>3. MetricsInv /\ ProjectOK /\ [Next]_vars => (MetricsInv /\ ProjectOK)'
    BY StepOK, ProjectStep
  <1> QED  BY <1>1, <1>2, <1>3, PTL DEF Spec

=============================================================================
